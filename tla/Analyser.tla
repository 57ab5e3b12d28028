------------------------------ MODULE Analyser ------------------------------
(***************************************************************************)
(* DocumentAnalyser (extractor.py): the general analysis `analyse` and the *)
(* requirement-driven analysis `analyse_requirements`.                     *)
(*                                                                         *)
(* The language model is the environment: every call to `llm.chat` returns *)
(* a raw reply chosen from Replies(req).  A reply is modelled by what       *)
(* `json.loads` makes of it: NotJson (JSONDecodeError), a member of         *)
(* NonObjects (a list, null, number or string: valid JSON that is not an    *)
(* object), or an object, i.e. a function from keys to JSON values.         *)
(*                                                                         *)
(* JSON values are those of JsonValues.                                    *)
(***************************************************************************)
EXTENDS JsonValues

CONSTANTS
    RequirementLists, \* the requirement sequences a caller may pass; each
                      \* requirement is [id, name, resource_type, response_field_name]
    DocumentLists, \* the document sequences a caller may pass (may hold <<>>)
    Replies(_),    \* Replies(req): the raw replies the model may give for req
    NotJson,       \* a reply json.loads rejects
    NonObjects     \* decoded replies that are valid JSON but not an object

VARIABLES
    mode,     \* which method was called: "none", "general", "requirements"
    docs,     \* the documents passed to the call
    reqs,     \* the requirements passed to analyse_requirements
    phase,    \* "idle", "running", "returned", "raised"
    next,     \* index of the requirement the for loop is at
    items,    \* evidence_items built so far
    replies,  \* history: the raw reply received for each requirement asked
    error     \* the exception raised, or None

vars == <<mode, docs, reqs, phase, next, items, replies, error>>

\* Python `a or b` on two results of _parse_bool (True, False or None)
VerdictOr(a, b) == IF a = TRUE THEN a ELSE b

(***************************************************************************)
(* _parse_bool and the verdict coercion of analyse_requirements            *)
(***************************************************************************)
TrueTokens == {"true", "yes", "y", "1", "fulfilled"}
FalseTokens == {"false", "no", "n", "0", "unfulfilled", "not fulfilled"}

\* Mutation of ParseBool: strings judged by truthiness, bool(value)
ParseBoolTruthy(v) ==
    IF v = None THEN None
    ELSE CASE v.type = "bool" -> v.val
           [] v.type = "str" -> Truthy(v)
           [] OTHER -> None

ParseBool(v) ==
    IF v = None THEN None
    ELSE CASE v.type = "bool" -> v.val
           [] v.type = "str" /\ Normalize(v) \in TrueTokens -> TRUE
           [] v.type = "str" /\ Normalize(v) \in FalseTokens -> FALSE
           [] OTHER -> None

\* build_requirement_messages: the schema hint of the system prompt names
\* the boolean field getattr(requirement, "response_field_name", None) or
\* "requirementMet" (response_schema is never set, so the default hint is
\* used); the rest of the prompt is text the model reads
AskedField(req) ==
    IF req.response_field_name = None THEN "requirementMet"
    ELSE req.response_field_name

\* Mutation of FieldName: the parser falls back to "fulfilled"
FieldNameFulfilledDefault(req) ==
    IF req.response_field_name = None THEN "fulfilled"
    ELSE req.response_field_name

\* getattr(requirement, "response_field_name", None) or "requirementMet"
FieldName(req) ==
    IF req.response_field_name = None THEN "requirementMet"
    ELSE req.response_field_name

\* Mutation of Verdict: the `if fulfilled is None: fulfilled = False` dropped
VerdictNoDefault(parsed, req) ==
    VerdictOr(ParseBool(Get(parsed, FieldName(req))), ParseBool(Get(parsed, "fulfilled")))

\* fulfilled = _parse_bool(primary) or _parse_bool(fulfilled); None -> False
Verdict(parsed, req) ==
    LET v == VerdictOr(ParseBool(Get(parsed, FieldName(req))),
                  ParseBool(Get(parsed, "fulfilled")))
    IN IF v = None THEN FALSE ELSE v

\* the dict appended to evidence_items for one requirement
EvidenceItem(req, parsed) ==
    [title         |-> req.name,
     evidence      |-> GetOr(parsed, <<"statement", "evidence">>, EmptyText),
     snippet       |-> GetOr(parsed, <<"snippet">>, EmptyText),
     citation      |-> GetOr(parsed, <<"citation">>, EmptyText),
     fulfilled     |-> Verdict(parsed, req),
     responseField |-> FieldName(req),
     confidence    |-> GetOr(parsed, <<"confidence">>, JStr("low", "lower", FALSE)),
     requirementId |-> req.id,
     resourceType  |-> req.resource_type]

\* json.loads(raw), with a JSONDecodeError turned into {}
Decode(raw) == IF raw = NotJson THEN [k \in {} |-> None] ELSE raw

(***************************************************************************)
(* Actions                                                                 *)
(***************************************************************************)
Init ==
    /\ mode = "none"
    /\ docs = <<>>
    /\ reqs = <<>>
    /\ phase = "idle"
    /\ next = 1
    /\ items = <<>>
    /\ replies = <<>>
    /\ error = None

\* build_messages: whatever its arguments, it formats the undefined global
\* SYSTEM_PROMPT (the local is system_prompt) and raises NameError
BuildMessagesError == "NameError"

\* analyse(documents): `if not documents: raise ValueError`; otherwise
\* build_messages raises before the model is called.
Analyse(d) ==
    /\ phase = "idle"
    /\ mode' = "general"
    /\ docs' = d
    /\ phase' = "raised"
    /\ error' = IF d = <<>> THEN "ValueError" ELSE BuildMessagesError
    /\ UNCHANGED <<reqs, next, items, replies>>

\* analyse_requirements(documents, requirements) up to the for loop
AnalyseRequirementsBegin(d, r) ==
    /\ phase = "idle"
    /\ mode' = "requirements"
    /\ docs' = d
    /\ reqs' = r
    /\ phase' = IF d = <<>> THEN "raised" ELSE "running"
    /\ error' = IF d = <<>> THEN "ValueError" ELSE None
    /\ UNCHANGED <<next, items, replies>>

\* Mutation of AnalyseRequirement: `continue` on a JSONDecodeError
AnalyseRequirementSkipUndecodable ==
    /\ phase = "running"
    /\ next <= Len(reqs)
    /\ \E raw \in Replies(reqs[next]) :
         /\ Decode(raw) \notin NonObjects
         /\ items' = IF raw = NotJson THEN items
                     ELSE Append(items, EvidenceItem(reqs[next], Decode(raw)))
         /\ replies' = Append(replies, raw)
         /\ next' = next + 1
    /\ UNCHANGED <<mode, docs, reqs, phase, error>>

\* one iteration of the for loop: prompt, chat, decode, coerce, append
AnalyseRequirement ==
    /\ phase = "running"
    /\ next <= Len(reqs)
    /\ \E raw \in Replies(reqs[next]) :
         /\ Decode(raw) \notin NonObjects
         /\ items' = Append(items, EvidenceItem(reqs[next], Decode(raw)))
         /\ replies' = Append(replies, raw)
         /\ next' = next + 1
    /\ UNCHANGED <<mode, docs, reqs, phase, error>>

\* the same iteration when the reply decodes to a list, null, number or
\* string: parsed.get raises AttributeError and the whole call fails
ReplyNotAnObject ==
    /\ phase = "running"
    /\ next <= Len(reqs)
    /\ \E raw \in Replies(reqs[next]) :
         /\ Decode(raw) \in NonObjects
         /\ replies' = Append(replies, raw)
    /\ phase' = "raised"
    /\ error' = "AttributeError"
    /\ UNCHANGED <<mode, docs, reqs, next, items>>

\* the same iteration when llm.chat raises (the OpenAI client's connection,
\* timeout or status errors, after its own retries): nothing in
\* analyse_requirements catches it, so the whole call fails
ChatRaised ==
    /\ phase = "running"
    /\ next <= Len(reqs)
    /\ phase' = "raised"
    /\ error' = "APIError"
    /\ UNCHANGED <<mode, docs, reqs, next, items, replies>>

\* `return evidence_items` after the loop
AnalyseRequirementsReturn ==
    /\ phase = "running"
    /\ next > Len(reqs)
    /\ phase' = "returned"
    /\ UNCHANGED <<mode, docs, reqs, next, items, replies, error>>

Next ==
    \/ \E d \in DocumentLists : Analyse(d)
    \/ \E d \in DocumentLists, r \in RequirementLists : AnalyseRequirementsBegin(d, r)
    \/ AnalyseRequirement
    \/ ReplyNotAnObject
    \/ ChatRaised
    \/ AnalyseRequirementsReturn

Spec == Init /\ [][Next]_vars

(***************************************************************************)
(* Properties                                                              *)
(***************************************************************************)
TypeOK ==
    /\ mode \in {"none", "general", "requirements"}
    /\ docs \in DocumentLists
    /\ reqs \in RequirementLists \cup {<<>>}
    /\ phase \in {"idle", "running", "returned", "raised"}
    /\ next \in 1..Len(reqs) + 1
    /\ \A i \in 1..Len(items) :
         /\ items[i].fulfilled \in BOOLEAN
         /\ items[i].snippet \in JsonValue
    /\ Len(replies) \in {Len(items), Len(items) + 1}
    /\ error \in {None, "ValueError", "NameError", "AttributeError", "APIError"}

\* Evidence items come back in requirement order, one per requirement: the
\* i-th item of analyse_requirements carries the id and response field of the
\* i-th requirement, and a returned call has answered every requirement,
\* whatever the model replied (undecodable replies included).
ItemsFollowRequirements ==
    /\ \A i \in 1..Len(items) :
         /\ items[i].requirementId = reqs[i].id
         /\ items[i].responseField = FieldName(reqs[i])
    /\ mode = "requirements" /\ phase = "returned" =>
         Len(items) = Len(reqs)

\* A recognised affirmative: JSON true, or a string whose stripped,
\* lower-cased form is one of the tokens _parse_bool accepts as true.
Affirms(v) ==
    /\ v # None
    /\ \/ v.type = "bool" /\ v.val
       \/ v.type = "str" /\ Normalize(v) \in TrueTokens

\* The conservative default of analyse_requirements: an item is marked
\* fulfilled only if the reply to its requirement affirms it under the
\* configured field or "fulfilled"; any other reply (undecodable, missing,
\* ambiguous, a number) gives a concrete False, never None.
VerdictNeverInvented ==
    \A i \in 1..Len(items) :
        /\ items[i].fulfilled \in BOOLEAN
        /\ items[i].fulfilled =>
             \E k \in {items[i].responseField, "fulfilled"} :
                Affirms(Get(Decode(replies[i]), k))

\* The prompt and the parser agree on the verdict field: a reply that does
\* what build_requirement_messages asks, affirming under the field its
\* schema hint names, is recorded fulfilled.  The field is chosen twice,
\* in prompts.py and in extractor.py, each with its own default.
AffirmativeAnswerRecorded ==
    \A i \in 1..Len(items) :
        Affirms(Get(Decode(replies[i]), AskedField(reqs[i]))) => items[i].fulfilled

\* Spec 4.1: the configured field is read first and "fulfilled" is only
\* the fallback, so a recognised false under the configured field is the
\* verdict of the item (checked against the `or` of extractor.py).
ConfiguredFieldDecides ==
    \A i \in 1..Len(items) :
        ParseBool(Get(Decode(replies[i]), items[i].responseField)) = FALSE
            => ~items[i].fulfilled

\* Spec 4.1: requirements are isolated: a bad reply to one requirement is
\* treated as an empty object and never aborts the others, so
\* analyse_requirements only raises for an empty document list.
BadReplyIsolated ==
    mode = "requirements" /\ phase = "raised" => docs = <<>>

=============================================================================
