------------------------------ MODULE Payloads ------------------------------
(***************************************************************************)
(* build_evidence_payloads (evidence_store.py): the pure transform of the  *)
(* evidence items of an analysis into evidence-store payloads.             *)
(*                                                                         *)
(* A payload keeps what the store and the properties tell apart: the       *)
(* resource kind it is filed under, its resource id, the document it       *)
(* points at, its description, the verdict field and value, and `raw`.    *)
(* The fresh uuid4 and the timestamp make every payload distinct; the id   *)
(* <<ToolId, "document", idx>> and the position in the batch stand for     *)
(* them.  `raw` is a sequence of text pieces: the f-strings concatenate    *)
(* them, and an empty string is the empty sequence.  _strip_none removes   *)
(* the empty experimentalRelatedResourceIds list and a verdict of None;    *)
(* the verdict of an item of analyse_requirements is never None.           *)
(***************************************************************************)
EXTENDS JsonValues, SequencesExt

CONSTANT ToolId   \* EvidenceStoreConfig.tool_id

\* `v not in (None, {}, [])`: the values _strip_none drops
Placeholder(v) == v = None \/ v = JDict(<<>>) \/ v = JList(<<>>)

\* _strip_none: a dict drops its placeholder entries and then strips the
\* rest; a list strips its elements and then drops the placeholders
RECURSIVE StripNone(_)
StripNone(v) ==
    IF IsDict(v)
      THEN JDict([k \in {k \in DOMAIN v.map : ~Placeholder(v.map[k])}
                   |-> StripNone(v.map[k])])
    ELSE IF IsList(v)
      THEN JList(SelectSeq([i \in DOMAIN v.items |-> StripNone(v.items[i])],
                           LAMBDA x : ~Placeholder(x)))
    ELSE v

\* a text value as a sequence of pieces: "" is <<>>
Text(s) == IF Truthy(s) THEN <<s>> ELSE <<>>

\* item.get("snippet") or item.get("citation") or item.get("evidence")
\*   or item.get("statement") or ""
SnippetOf(item) ==
    GetOr(item, <<"snippet", "citation", "evidence", "statement">>, EmptyText)

\* item.get("citation") or ""
CitationOf(item) == GetOr(item, <<"citation">>, EmptyText)

\* raw = snippet; if citation: f"{snippet}\nCitation: {citation}" if snippet
\* else f"Citation: {citation}"
RawText(snippet, citation) ==
    IF ~Truthy(citation) THEN Text(snippet)
    ELSE IF Truthy(snippet) THEN Text(snippet) \o <<"\nCitation: ">> \o Text(citation)
    ELSE <<"Citation: ">> \o Text(citation)

\* the payload for the item at 0-based index idx, filed against doc
Payload(idx, item, doc) ==
    [resourceKind |-> "genericDocument",
     resourceId   |-> <<ToolId, "document", idx>>,
     document     |-> doc,
     description  |-> IF item.title # "" THEN item.title ELSE "Document evidence",
     verdictField |-> IF item.responseField # "" THEN item.responseField
                      ELSE "requirementMet",
     verdict      |-> item.fulfilled,
     raw          |-> RawText(SnippetOf(item), CitationOf(item))]

\* build_test_evidence_payload: the fixed connectivity-test payload
TestPayload ==
    [resourceKind |-> "genericDocument",
     resourceId   |-> <<ToolId, "test-resource">>,
     document     |-> None,
     description  |-> "Connectivity test payload",
     verdictField |-> None,
     verdict      |-> None,
     raw          |-> <<"ping">>]

\* Mutation of BuildPayloads: documents[(idx + 1) % len(documents)]
BuildPayloadsShifted(items, documents) ==
    [i \in 1..Len(items) |->
        Payload(i - 1, items[i], documents[(i % Len(documents)) + 1])]

\* for idx, item in enumerate(evidence_items): doc = documents[idx % len(documents)]
BuildPayloads(items, documents) ==
    [i \in 1..Len(items) |->
        Payload(i - 1, items[i], documents[((i - 1) % Len(documents)) + 1])]

=============================================================================
