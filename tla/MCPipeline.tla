----------------------------- MODULE MCPipeline -----------------------------
(***************************************************************************)
(* run over up to two documents (one may be missing or unreadable) and     *)
(* three catalog requirements, with a model whose replies cover a clean    *)
(* verdict, an overridden one, a citation without a snippet, undecodable   *)
(* and non-object JSON, and endpoints that may give every answer.          *)
(***************************************************************************)
EXTENDS Pipeline, TLC

CONSTANTS D1, D2, Gone, Dir, JsonList

Req(id, kind, field) ==
    [id |-> id, name |-> id, resource_type |-> kind, response_field_name |-> field]

MCRequirementLists ==
    {<<>>,
     << Req("E83", "genericDocument", "businessContinuityPolicy"),
        Req("E99", "data", "securityLoggingAndMonitoring"),
        Req("E101", "genericDocument", "secureDataRemoval") >>}

MCPathLists == {<<>>, <<D1>>, <<D1, D2>>, <<D2, Gone>>, <<Dir, Gone>>}

Quote == JStr("quote", "lower", FALSE)
Page3 == JStr("page 3", "title", FALSE)

MCReplies(req) ==
    {NotJson, JsonList,
     [k \in {A!AskedField(req), "snippet", "citation"} |->
        IF k = "snippet" THEN Quote ELSE IF k = "citation" THEN Page3 ELSE JBool(TRUE)],
     [k \in {A!AskedField(req), "fulfilled"} |->
        IF k = "fulfilled" THEN JStr("yes", "lower", FALSE) ELSE JBool(FALSE)],
     [k \in {A!AskedField(req), "snippet", "citation"} |->
        IF k = "snippet" THEN EmptyText ELSE IF k = "citation" THEN Page3
        ELSE JStr("no", "upper", TRUE)]}

MCNonObjects == {JsonList}

MCTokenReplies == {"granted", "no_token", "not_json", "rejected", "transport_error"}

MCEvidenceReplies == {"ok", "no_content", "not_json", "rejected", "transport_error"}

=============================================================================
