-------------------------------- MODULE Cli ---------------------------------
(***************************************************************************)
(* cli.main (cli.py): check the arguments, load the model configuration,   *)
(* then either send the connectivity-test evidence (--test-evidence) or    *)
(* check that the files exist, select the requirements and run the         *)
(* pipeline, mapping every outcome to an exit code.                        *)
(*                                                                         *)
(* The pipeline, the analyser and the client are Pipeline, Analyser and    *)
(* StoreClient on this module's variables.  The file system is a variable: *)
(* a file may be removed at any time while main runs.  An exception main   *)
(* does not catch escapes it (escaped) and main returns no exit code.      *)
(***************************************************************************)
EXTENDS Requirements

CONSTANTS
    Invocations,  \* the argument vectors and environments main may be given
    Catalog,      \* the REQUIREMENTS table the CLI reads
    Files,        \* every path an argument may name
    Missing,      \* the paths with no file behind them when main starts
    Unreadable,   \* the paths that exist but the loader cannot read
    Replies(_), NotJson, NonObjects, TokenReplies, EvidenceReplies, ToolId

VARIABLES
    stage,     \* "start", "checking", "launching", "running", "testing", "done"
    inv,       \* what main derived from its arguments and environment
    present,   \* the paths with a file behind them
    exit,      \* main's return value, or None
    escaped,   \* the exception that escaped main, or None
    evcfg,     \* the EvidenceStoreConfig a client was built with, or None
    pphase, perror, push, requested, documents, pushed,
    mode, docs, reqs, phase, next, items, replies, error,
    conn, token, batch, sent, cphase, cerror, request, response, granted,
    expired, stored

cli == <<stage, inv, present, exit, escaped, evcfg>>
pl == <<pphase, perror, push, requested, documents, pushed,
        mode, docs, reqs, phase, next, items, replies, error>>
cl == <<conn, token, batch, sent, cphase, cerror, request, response,
        granted, expired, stored>>
vars == <<cli, pl, cl>>

\* the path and requirement sequences main can hand to run
InvocationPaths == {a.files : a \in Invocations}
CatalogSelections ==
    {ListRequirements(Catalog)} \cup {<<Catalog[i][2]>> : i \in 1..Len(Catalog)}

Pl == INSTANCE Pipeline
        WITH PathLists <- InvocationPaths, RequirementLists <- CatalogSelections
P == INSTANCE Payloads
S == INSTANCE StoreConfig

(***************************************************************************)
(* Configuration                                                           *)
(***************************************************************************)

\* ModelConfig.from_env: ConfigError when neither an API key nor a base URL
\* is set; float()/int() of DOC_ANALYSER_TEMPERATURE / _MAX_TOKENS raise
\* ValueError on a malformed number
FromEnv(env) ==
    IF ~env.apiKey /\ ~env.baseUrl THEN "ConfigError"
    ELSE IF ~env.numbersValid THEN "ValueError"
    ELSE "ok"

\* build_config: ModelConfig.from_env() first, then --model, --base-url
\* and --api-key override its fields; the overrides decide nothing, and
\* they come too late to prevent from_env's ConfigError
BuildConfig(a) == FromEnv(a.env)

\* EVIDENCE_AUTO_PUSH lower-cased (not stripped) in {"1","true","yes","on"}
AutoPush(v) == Truthy(v) /\ ~v.pad /\ Normalize(v) \in {"1", "true", "yes", "on"}

\* push_enabled = args.push_evidence or auto_push
PushEnabled(a) == a.pushEvidence \/ AutoPush(a.autoPush)

Init ==
    /\ stage = "start"
    /\ inv = None
    /\ present = Files \ Missing
    /\ exit = None
    /\ escaped = None
    /\ evcfg = None
    /\ Pl!Init

(***************************************************************************)
(* main                                                                    *)
(***************************************************************************)

\* Mutation of Finish: a store error is reported but main still returns 0
FinishSwallowingStoreError ==
    /\ stage = "running"
    /\ pphase \in {"returned", "raised"}
    /\ exit' = IF pphase = "returned" \/ perror = "EvidenceStoreError" THEN 0 ELSE 1
    /\ stage' = "done"
    /\ UNCHANGED <<inv, present, escaped, evcfg, pl, cl>>

\* Mutation of Finish: only EvidenceStoreError and FileNotFoundError caught
FinishWithoutDefensiveHandler ==
    /\ stage = "running"
    /\ pphase \in {"returned", "raised"}
    /\ IF pphase = "returned" \/ perror \in {"EvidenceStoreError", "FileNotFoundError"}
         THEN /\ exit' = (IF pphase = "returned" THEN 0 ELSE 1)
              /\ UNCHANGED escaped
         ELSE /\ escaped' = perror
              /\ UNCHANGED exit
    /\ stage' = "done"
    /\ UNCHANGED <<inv, present, evcfg, pl, cl>>

\* main(argv) up to the connectivity test: no files and no --test-evidence
\* returns 2; build_config's ConfigError returns 1, its ValueError escapes
Main(a) ==
    /\ stage = "start"
    /\ inv' = a
    /\ CASE ~a.testEvidence /\ a.files = <<>> ->
              exit' = 2 /\ stage' = "done" /\ UNCHANGED escaped
         [] BuildConfig(a) = "ConfigError" ->
              exit' = 1 /\ stage' = "done" /\ UNCHANGED escaped
         [] BuildConfig(a) = "ValueError" ->
              escaped' = "ValueError" /\ stage' = "done" /\ UNCHANGED exit
         [] a.testEvidence ->
              stage' = "testing" /\ UNCHANGED <<exit, escaped>>
         [] OTHER ->
              stage' = "checking" /\ UNCHANGED <<exit, escaped>>
    /\ UNCHANGED <<present, evcfg, pl, cl>>

\* --test-evidence: build_evidence_config and build_test_evidence_payload,
\* then client.send_evidence(payload) inside `with EvidenceStoreClient`;
\* every exception is caught and returns 1
TestEvidence ==
    /\ stage = "testing"
    /\ cphase = "idle"
    /\ IF S!EvidenceConfigError(inv)
         THEN /\ exit' = 1 /\ stage' = "done"
              /\ UNCHANGED <<evcfg, cl>>
         ELSE /\ evcfg' = S!BuildEvidenceConfig(inv)
              /\ Pl!C!SendBatch(<<P!TestPayload>>)
              /\ UNCHANGED <<exit, stage>>
    /\ UNCHANGED <<inv, present, escaped, pl>>

\* the with block has closed the client: 0 after send_evidence returned,
\* 1 after it raised
TestFinish ==
    /\ stage = "testing"
    /\ cphase \in {"returned", "raised"}
    /\ conn = "closed"
    /\ exit' = IF cphase = "returned" THEN 0 ELSE 1
    /\ stage' = "done"
    /\ UNCHANGED <<inv, present, escaped, evcfg, pl, cl>>

\* `for path in args.files: if not target.exists(): return 1`
CheckFiles ==
    /\ stage = "checking"
    /\ IF \E i \in 1..Len(inv.files) : inv.files[i] \notin present
         THEN exit' = 1 /\ stage' = "done"
         ELSE stage' = "launching" /\ UNCHANGED exit
    /\ UNCHANGED <<inv, present, escaped, evcfg, pl, cl>>

\* Mutation of Launch: without --test-requirement the general extractor is
\* run, as the help text of the (unused) --all-requirements flag describes
LaunchDefaultGeneral ==
    /\ stage = "launching"
    /\ LET pushEnabled == PushEnabled(inv)
           req == GetRequirement(Catalog, inv.testRequirement)
           requirements == IF inv.testRequirement = None THEN <<>> ELSE <<req>>
       IN CASE pushEnabled /\ S!EvidenceConfigError(inv) ->
                 escaped' = "ConfigError" /\ stage' = "done"
                 /\ UNCHANGED <<exit, pl, cl>>
            [] inv.testRequirement # None /\ req = None ->
                 exit' = 1 /\ stage' = "done" /\ UNCHANGED <<escaped, pl, cl>>
            [] OTHER ->
                 /\ Pl!Run(inv.files, requirements, pushEnabled, Files \ present)
                 /\ stage' = "running" /\ UNCHANGED <<exit, escaped>>
    /\ evcfg' = IF PushEnabled(inv) /\ ~S!EvidenceConfigError(inv)
                 THEN S!BuildEvidenceConfig(inv) ELSE None
    /\ UNCHANGED <<inv, present>>

\* build the publisher (build_evidence_config outside the try: its
\* ConfigError escapes), select the requirements (an unknown
\* --test-requirement returns 1), and call pipeline.run
Launch ==
    /\ stage = "launching"
    /\ LET pushEnabled == PushEnabled(inv)
           req == GetRequirement(Catalog, inv.testRequirement)
           requirements == IF inv.testRequirement = None
                             THEN ListRequirements(Catalog) ELSE <<req>>
       IN CASE pushEnabled /\ S!EvidenceConfigError(inv) ->
                 escaped' = "ConfigError" /\ stage' = "done"
                 /\ UNCHANGED <<exit, pl, cl>>
            [] inv.testRequirement # None /\ req = None ->
                 exit' = 1 /\ stage' = "done" /\ UNCHANGED <<escaped, pl, cl>>
            [] OTHER ->
                 /\ Pl!Run(inv.files, requirements, pushEnabled, Files \ present)
                 /\ stage' = "running" /\ UNCHANGED <<exit, escaped>>
    /\ evcfg' = IF PushEnabled(inv) /\ ~S!EvidenceConfigError(inv)
                 THEN S!BuildEvidenceConfig(inv) ELSE None
    /\ UNCHANGED <<inv, present>>

\* run returned: print the result, return 0; run raised: EvidenceStoreError,
\* FileNotFoundError and every other Exception are caught and return 1
Finish ==
    /\ stage = "running"
    /\ pphase \in {"returned", "raised"}
    /\ exit' = IF pphase = "returned" THEN 0 ELSE 1
    /\ stage' = "done"
    /\ UNCHANGED <<inv, present, escaped, evcfg, pl, cl>>

\* a step of run: the analyser, the payload builder, the client, an endpoint
PipelineStep ==
    /\ \/ Pl!Extract \/ Pl!AnalyserStep \/ Pl!ExtractionRaised
       \/ Pl!ReturnWithoutPush \/ Pl!Publish \/ Pl!PublishReturned
       \/ Pl!PublishRaised \/ Pl!ClientStep
    /\ UNCHANGED cli

\* the environment removes a file while main runs
RemoveFile(f) ==
    /\ stage # "done"
    /\ f \in present
    /\ present' = present \ {f}
    /\ UNCHANGED <<stage, inv, exit, escaped, evcfg, pl, cl>>

MainStep ==
    \/ \E a \in Invocations : Main(a)
    \/ TestEvidence \/ TestFinish \/ CheckFiles \/ Launch \/ Finish
    \/ PipelineStep

Next == MainStep \/ \E f \in Files : RemoveFile(f)

\* main runs sequentially to its end, and both endpoints answer within the
\* httpx timeout (EvidenceStoreClient(timeout=15.0)), if only with a
\* transport error: the program's steps are weakly fair, file removal is not
Spec == Init /\ [][Next]_vars /\ WF_vars(MainStep)

(***************************************************************************)
(* Properties                                                              *)
(***************************************************************************)
\* Exit 0 means the store holds exactly what main set out to publish: the
\* test payload once after --test-evidence, the whole batch of the analysis
\* after a push, nothing otherwise.
ExitZeroMeansPublished ==
    exit = 0 =>
        stored = CASE inv.testEvidence -> <<P!TestPayload>>
                   [] PushEnabled(inv) -> batch
                   [] OTHER -> <<>>

\* Only a configuration problem ends main with a traceback: a file removed
\* after the existence check, a bad model reply, a failed or unreadable
\* store response are all reported with exit code 1.
UncaughtOnlyFromConfiguration ==
    escaped # None =>
        \/ escaped = "ValueError" /\ FromEnv(inv.env) = "ValueError"
        \/ escaped = "ConfigError" /\ PushEnabled(inv)
           /\ S!EvidenceConfigError(inv)

\* The errors run may raise that the environment causes: a path removed or
\* unreadable, a failed or non-object model reply, a store failure.
EnvironmentErrors ==
    {"FileNotFoundError", "ReadError", "APIError", "AttributeError",
     "EvidenceStoreError", "JSONDecodeError"}

\* A run main starts fails only through its environment, and a missing file
\* only when one of its paths was removed after the existence check; never
\* through the analysis itself: neither the general analysis (whose
\* build_messages raises NameError) nor an empty document list (ValueError)
\* is ever reached from main.
RunFailsOnlyFromEnvironment ==
    pphase = "raised" =>
        /\ perror \in EnvironmentErrors
        /\ perror = "FileNotFoundError" =>
             \E i \in 1..Len(inv.files) : inv.files[i] \notin present

\* main always ends, returning an exit code or raising.
Terminates == <>(stage = "done")

\* Spec 3: a requirement's id is unique within the catalog, so the
\* evidence items of one analysis (one per requirement) carry distinct
\* requirement ids.
ItemRequirementIdsDistinct ==
    \A i, j \in 1..Len(items) :
        i # j => items[i].requirementId # items[j].requirementId

\* The OAuth token is fetched from the store the evidence is posted to:
\* unless AUTH_TOKEN_ENDPOINT names an endpoint, the token endpoint is on
\* the base URL of evidence_url (from_env derives it from the base URL,
\* and --evidence-url stands for the base URL EVIDENCE_STORE_BASE sets).
TokenFromEvidenceStore ==
    evcfg # None /\ inv.storeEnv.AUTH_TOKEN_ENDPOINT = None =>
        evcfg.token_endpoint.host = S!EvidenceUrl(evcfg).host

=============================================================================
