----------------------------- MODULE MCAnalyser -----------------------------
(***************************************************************************)
(* Model of analyse / analyse_requirements over three requirements: two    *)
(* catalog entries of requirements.py (a genericDocument and a data one)   *)
(* and one constructed without response_field_name.                        *)
(***************************************************************************)
EXTENDS Analyser, TLC

CONSTANTS D1, D2, JsonList

MCRequirementLists ==
    {<< [id |-> "E83", name |-> "X.1.1.9.1", resource_type |-> "genericDocument",
        response_field_name |-> "businessContinuityPolicy"],
       [id |-> "E99", name |-> "X.1.1.13", resource_type |-> "data",
        response_field_name |-> "securityLoggingAndMonitoring"],
       [id |-> "E0", name |-> "ad hoc", resource_type |-> "genericDocument",
        response_field_name |-> None] >>}

MCDocumentLists == {<<>>, <<D1>>, <<D1, D2>>}

\* verdict values a reply may put under a key (None: the key is absent)
VerdictValues ==
    {None, JBool(TRUE), JBool(FALSE), JStr("yes", "title", FALSE),
     JStr("not fulfilled", "upper", TRUE), JStr("maybe", "lower", FALSE),
     JNum(1)}

\* an object holding the given key/value pairs whose value is not None
Object(kvs) ==
    LET keys == {kv[1] : kv \in {kv \in kvs : kv[2] # None}}
    IN [k \in keys |-> (CHOOSE kv \in kvs : kv[1] = k)[2]]

VerdictReplies(req) ==
    {Object({<<AskedField(req), p>>, <<"fulfilled", f>>,
             <<"snippet", JStr("quote", "lower", FALSE)>>}) :
        p \in VerdictValues, f \in VerdictValues}

TextReplies(req) ==
    {Object({<<AskedField(req), JBool(TRUE)>>, <<"snippet", s>>,
             <<"statement", st>>, <<"evidence", JStr("ev", "lower", FALSE)>>}) :
        s \in {None, JStr("", "lower", FALSE), JStr("", "lower", TRUE)},
        st \in {None, JStr("st", "lower", FALSE)}}

MCReplies(req) == {NotJson, JsonList} \cup VerdictReplies(req) \cup TextReplies(req)

MCNonObjects == {JsonList}

=============================================================================
