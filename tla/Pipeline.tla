------------------------------ MODULE Pipeline ------------------------------
(***************************************************************************)
(* DocumentAnalysisPipeline.run (pipeline.py): load the documents, extract *)
(* evidence with the analyser, and when asked to push, build the payloads  *)
(* and publish them with an EvidenceStoreClient.  The analyser and the     *)
(* client are the modules Analyser and StoreClient, instantiated on this   *)
(* module's variables; the language model, the token endpoint and the      *)
(* evidence endpoint answer as in those modules.                           *)
(***************************************************************************)
EXTENDS JsonValues

CONSTANTS
    PathLists,        \* the path sequences run may be given
    Missing,          \* the paths with no file behind them
    Unreadable,       \* the paths that exist but the loader cannot read
    RequirementLists, \* the requirement sequences run may be given
    Replies(_), NotJson, NonObjects,   \* the language model, as in Analyser
    TokenReplies, EvidenceReplies,     \* the endpoints, as in StoreClient
    ToolId

VARIABLES
    pphase,     \* "idle", "extracting", "publishing", "returned", "raised"
    perror,     \* the exception run raised, or None
    push,       \* the push argument of run (a publisher is configured with it)
    requested,  \* the requirements argument of run
    documents,  \* what DocumentLoader.load returned
    pushed,     \* the count run returns
    \* the analyser
    mode, docs, reqs, phase, next, items, replies, error,
    \* the client and the endpoints
    conn, token, batch, sent, cphase, cerror, request, response, granted,
    expired, stored

pvars == <<pphase, perror, push, requested, documents, pushed>>
avars == <<mode, docs, reqs, phase, next, items, replies, error>>
cvars == <<conn, token, batch, sent, cphase, cerror, request, response,
           granted, expired, stored>>
vars == <<pvars, avars, cvars>>

A == INSTANCE Analyser WITH DocumentLists <- PathLists
\* Publish hands send_batch the payloads of the analysis, so StoreClient's own
\* choice of a batch from Batches is not used here
C == INSTANCE StoreClient WITH Batches <- {}
P == INSTANCE Payloads

Init ==
    /\ pphase = "idle"
    /\ perror = None
    /\ push = FALSE
    /\ requested = <<>>
    /\ documents = <<>>
    /\ pushed = 0
    /\ A!Init
    /\ C!Init

\* load_any_document(path): both loaders raise FileNotFoundError when the
\* path does not exist (is in gone); a path that exists but cannot be read
\* (a directory, a file without read permission, a PDF pypdf cannot parse)
\* raises from read_text or PdfReader.  Undecodable text is read with
\* errors="ignore" and a PDF page whose extraction fails is skipped: both
\* load.
LoadOutcome(path, gone) ==
    IF path \in gone THEN "FileNotFoundError"
    ELSE IF path \in Unreadable THEN "ReadError"
    ELSE "ok"

\* DocumentLoader.load(paths): the paths in order; the first failure
\* propagates
LoadError(paths, gone) ==
    LET failing == {i \in 1..Len(paths) : LoadOutcome(paths[i], gone) # "ok"}
        first == CHOOSE i \in failing : \A j \in failing : i <= j
    IN IF failing = {} THEN None ELSE LoadOutcome(paths[first], gone)

\* run(paths, requirements=r, push=p) -> DocumentLoader.load(paths), with
\* the paths in gone absent from the file system when the loader opens them
Run(paths, r, p, gone) ==
    /\ pphase = "idle"
    /\ push' = p
    /\ requested' = r
    /\ IF LoadError(paths, gone) # None
         THEN /\ pphase' = "raised"
              /\ perror' = LoadError(paths, gone)
              /\ UNCHANGED documents
         ELSE /\ pphase' = "extracting"
              /\ documents' = paths
              /\ UNCHANGED perror
    /\ UNCHANGED <<pushed, avars, cvars>>

\* EvidenceExtractor.extract: requirement mode when requirements is
\* non-empty, the general analysis otherwise
Extract ==
    /\ pphase = "extracting"
    /\ phase = "idle"
    /\ IF requested # <<>>
         THEN A!AnalyseRequirementsBegin(documents, requested)
         ELSE A!Analyse(documents)
    /\ UNCHANGED <<pvars, cvars>>

\* a step of analyse_requirements: one requirement, or its return
AnalyserStep ==
    /\ \/ A!AnalyseRequirement
       \/ A!ReplyNotAnObject
       \/ A!ChatRaised
       \/ A!AnalyseRequirementsReturn
    /\ UNCHANGED <<pvars, cvars>>

\* an exception of the analyser propagates out of run
ExtractionRaised ==
    /\ pphase = "extracting"
    /\ phase = "raised"
    /\ pphase' = "raised"
    /\ perror' = error
    /\ UNCHANGED <<push, requested, documents, pushed, avars, cvars>>

\* no push: run returns the result and 0
ReturnWithoutPush ==
    /\ pphase = "extracting"
    /\ phase = "returned"
    /\ ~push
    /\ pphase' = "returned"
    /\ UNCHANGED <<perror, push, requested, documents, pushed, avars, cvars>>

\* EvidencePublisher.push: build the payloads; none -> 0, otherwise open a
\* client in a with statement and send_batch them
Publish ==
    /\ pphase = "extracting"
    /\ phase = "returned"
    /\ push
    /\ LET payloads == P!BuildPayloads(items, documents)
       IN IF payloads = <<>>
            THEN /\ pphase' = "returned"
                 /\ UNCHANGED cvars
            ELSE /\ pphase' = "publishing"
                 /\ C!SendBatch(payloads)
    /\ UNCHANGED <<perror, push, requested, documents, pushed, avars>>

\* a step of the client or of an endpoint
ClientStep ==
    /\ \/ C!RequestToken
       \/ C!ReceiveToken
       \/ C!PostEvidence
       \/ C!ReceiveEvidenceResponse
       \/ C!BatchReturn
       \/ C!Close
       \/ C!TokenEndpoint
       \/ C!EvidenceEndpoint
       \/ C!ExpireToken
    /\ UNCHANGED <<pvars, avars>>

\* the with block has closed the client after send_batch returned:
\* push returns len(payloads) and run returns (result, pushed)
PublishReturned ==
    /\ pphase = "publishing"
    /\ cphase = "returned"
    /\ conn = "closed"
    /\ pphase' = "returned"
    /\ pushed' = Len(batch)
    /\ UNCHANGED <<perror, push, requested, documents, avars, cvars>>

\* the with block has closed the client after send_batch raised: the
\* exception propagates out of push and out of run
PublishRaised ==
    /\ pphase = "publishing"
    /\ cphase = "raised"
    /\ conn = "closed"
    /\ pphase' = "raised"
    /\ perror' = cerror.type
    /\ UNCHANGED <<push, requested, documents, pushed, avars, cvars>>

Next ==
    \/ \E paths \in PathLists, r \in RequirementLists, p \in BOOLEAN :
          Run(paths, r, p, Missing)
    \/ Extract
    \/ AnalyserStep
    \/ ExtractionRaised
    \/ ReturnWithoutPush
    \/ Publish
    \/ ClientStep
    \/ PublishReturned
    \/ PublishRaised

\* __exit__ always runs once send_batch ends (StoreClient's fairness)
Spec == Init /\ [][Next]_vars /\ WF_vars(C!Close /\ UNCHANGED <<pvars, avars>>)

(***************************************************************************)
(* Properties                                                              *)
(***************************************************************************)
\* The document an evidence item is filed against: documents[idx % len].
FiledAgainst(i) == documents[((i - 1) % Len(documents)) + 1]

\* End to end: when run returns after a push, the store holds exactly one
\* payload per requirement, in requirement order, each carrying that
\* requirement's response field and the verdict the analyser coerced, filed
\* against the documents in turn (wrapping around when there are more
\* requirements than documents), and the count run returns is what the
\* store holds.
PublishedEvidenceMatchesAnalysis ==
    pphase = "returned" /\ push =>
        /\ pushed = Len(stored)
        /\ Len(stored) = Len(requested)
        /\ \A i \in 1..Len(stored) :
             /\ stored[i].verdictField = A!FieldName(requested[i])
             /\ stored[i].verdict = items[i].fulfilled
             /\ stored[i].document = FiledAgainst(i)

\* Spec 7: store errors abort the publish but never the extraction: the
\* analysis result is returned to the caller even when publishing fails.
ExtractionSurvivesPublishFailure ==
    pphase = "raised" => phase # "returned"

\* Spec 4.3: raw is the snippet alone without a citation, "Citation: c"
\* alone without a snippet, both joined when both are present, and empty
\* when neither is.
SpecRaw(item) ==
    LET s == Get(item, "snippet")
        c == Get(item, "citation")
    IN IF Truthy(c) /\ Truthy(s) THEN <<s, "\nCitation: ", c>>
       ELSE IF Truthy(c) THEN <<"Citation: ", c>>
       ELSE IF Truthy(s) THEN <<s>>
       ELSE <<>>

RawFollowsMergeRule ==
    \A i \in 1..Len(stored) : stored[i].raw = SpecRaw(items[i])

\* Spec 3: a payload's resource is keyed by the resource kind its
\* requirement targets (genericDocument or data).
PayloadKindMatchesRequirement ==
    \A i \in 1..Len(stored) : stored[i].resourceKind = requested[i].resource_type

=============================================================================
