\* violation: BadReplyIsolated
CONSTANTS
    None = None
    NotJson = NotJson
    JsonList = JsonList
    D1 = D1
    D2 = D2
    RequirementLists <- MCRequirementLists
    DocumentLists <- MCDocumentLists
    Replies <- MCReplies
    NonObjects <- MCNonObjects
SPECIFICATION Spec
INVARIANT BadReplyIsolated
\* the analysis is a single call: it stops once it has returned or raised
CHECK_DEADLOCK FALSE
