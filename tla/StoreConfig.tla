---------------------------- MODULE StoreConfig -----------------------------
(***************************************************************************)
(* EvidenceStoreConfig (evidence_store.py): from_env and evidence_url, and *)
(* the command-line overrides of build_evidence_config (cli.py).           *)
(*                                                                         *)
(* A URL is kept as the store (host) it reaches and its path.  rstrip('/') *)
(* is applied to the base URL wherever a path is appended, so a trailing   *)
(* slash never changes the store a URL reaches and is left out.  The       *)
(* environment is a record of the variables read, None when unset; client  *)
(* id, secret, tool id and target id are defaults and overrides without a  *)
(* decision and are left out.                                              *)
(***************************************************************************)
EXTENDS JsonValues

\* os.getenv(name, default): the default only when the variable is unset
Getenv(v, default) == IF v = None THEN default ELSE v

\* os.getenv(a) or b: an unset or empty variable falls through
GetenvOr(v, b) == IF v \in {None, ""} THEN b ELSE v

\* f"{base_url.rstrip('/')}{path}"
Join(base, path) == [host |-> base, path |-> path]

DefaultBase == "localhost:8080"

\* EvidenceStoreConfig.from_env: the base URL from EVIDENCE_STORE_BASE, else
\* CONFIRMATE_API_BASE, else the local default; the token endpoint from
\* AUTH_TOKEN_ENDPOINT, else derived from that base URL
FromEnv(env) ==
    LET base == GetenvOr(env.EVIDENCE_STORE_BASE,
                         Getenv(env.CONFIRMATE_API_BASE, DefaultBase))
    IN [base_url       |-> base,
        token_endpoint |-> Getenv(env.AUTH_TOKEN_ENDPOINT,
                                  Join(base, "/v1/auth/token")),
        evidence_path  |-> Getenv(env.EVIDENCE_PATH,
                                  "/v1/evidence_store/evidence")]

\* the evidence_url property
EvidenceUrl(cfg) == Join(cfg.base_url, cfg.evidence_path)

\* build_evidence_config: --evidence-auth without ":" raises ConfigError
EvidenceConfigError(a) == a.auth = "malformed"

\* build_evidence_config(args) when it does not raise: from_env, then
\* --evidence-url replaces base_url; the token endpoint from_env derived
\* from the environment's base URL is kept
BuildEvidenceConfig(a) ==
    LET cfg == FromEnv(a.storeEnv)
    IN IF a.evidenceUrl \in {None, ""} THEN cfg
       ELSE [cfg EXCEPT !.base_url = a.evidenceUrl]

=============================================================================
