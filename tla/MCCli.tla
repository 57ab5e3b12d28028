------------------------------- MODULE MCCli --------------------------------
(***************************************************************************)
(* main over a document that exists (and may be removed while main runs),  *)
(* one that never existed, a directory, two catalog requirements (E83 on a document,   *)
(* E99 on data), push enabled by flag or by EVIDENCE_AUTO_PUSH, well-     *)
(* formed and malformed --evidence-auth, a known and an unknown           *)
(* --test-requirement, and model environments that are complete, missing   *)
(* or malformed.                                                           *)
(***************************************************************************)
EXTENDS Cli, TLC

CONSTANTS D1, Gone, Dir, JsonList

MCCatalog == <<REQUIREMENTS[1], REQUIREMENTS[17]>>

MCFiles == {D1, Gone, Dir}

\* (push_evidence, EVIDENCE_AUTO_PUSH): unset, flag, "YES", " yes"
PushSettings ==
    {<<FALSE, EmptyText>>, <<TRUE, EmptyText>>,
     <<FALSE, JStr("yes", "upper", FALSE)>>, <<FALSE, JStr("yes", "lower", TRUE)>>}

\* (API key set, base URL set, numeric settings well-formed)
Environments ==
    {[apiKey |-> TRUE,  baseUrl |-> FALSE, numbersValid |-> TRUE],
     [apiKey |-> FALSE, baseUrl |-> FALSE, numbersValid |-> TRUE],
     [apiKey |-> FALSE, baseUrl |-> TRUE,  numbersValid |-> FALSE]}

\* the evidence store variables of the environment
StoreEnv(storeBase, apiBase, tokenEndpoint) ==
    [EVIDENCE_STORE_BASE |-> storeBase, CONFIRMATE_API_BASE |-> apiBase,
     AUTH_TOKEN_ENDPOINT |-> tokenEndpoint, EVIDENCE_PATH |-> None]

Unset == StoreEnv(None, None, None)

MCInvocations ==
    {[files |-> f, testEvidence |-> t, pushEvidence |-> ps[1], autoPush |-> ps[2],
      auth |-> au, testRequirement |-> tr, env |-> e, evidenceUrl |-> None,
      storeEnv |-> Unset] :
        f \in {<<>>, <<D1>>, <<D1, Gone>>, <<Dir, D1>>}, t \in BOOLEAN, ps \in PushSettings,
        au \in {"valid", "malformed"}, tr \in {None, "X.1.1.13", "E99"},
        e \in Environments}

\* store settings: the base URL from either variable or the local default,
\* CONFIRMATE_API_BASE set empty, an explicit token endpoint; with and
\* without --evidence-url
StoreEnvironments ==
    {Unset, StoreEnv("store.example", None, None), StoreEnv(None, "api.example", None),
     StoreEnv(None, "", None),
     StoreEnv(None, None, [host |-> "auth.example", path |-> "/token"])}

MCStoreInvocations ==
    {[files |-> <<D1>>, testEvidence |-> t, pushEvidence |-> TRUE, autoPush |-> EmptyText,
      auth |-> "valid", testRequirement |-> "X.1.1.13",
      env |-> [apiKey |-> TRUE, baseUrl |-> FALSE, numbersValid |-> TRUE],
      evidenceUrl |-> u, storeEnv |-> se] :
        t \in BOOLEAN, u \in {None, "store.example"}, se \in StoreEnvironments}

Quote == JStr("quote", "lower", FALSE)

MCReplies(req) ==
    {NotJson, JsonList,
     [k \in {Pl!A!AskedField(req), "snippet"} |->
        IF k = "snippet" THEN Quote ELSE JBool(TRUE)]}

MCNonObjects == {JsonList}

MCTokenReplies == {"granted", "no_token", "not_json", "rejected", "transport_error"}

MCEvidenceReplies == {"ok", "no_content", "not_json", "rejected", "transport_error"}

=============================================================================
