\* violation: the catalog gives two requirements the external id E63
CONSTANTS
    None = None
    NotJson = NotJson
    JsonList = JsonList
    D1 = D1
    Gone = Gone
    Dir = Dir
    ToolId = ToolId
    Missing = {Gone}
    Unreadable = {Dir}
    Files <- MCFiles
    Catalog <- REQUIREMENTS
    Invocations <- MCInvocations
    Replies <- MCReplies
    NonObjects <- MCNonObjects
    TokenReplies <- MCTokenReplies
    EvidenceReplies <- MCEvidenceReplies
SPECIFICATION Spec
INVARIANT ItemRequirementIdsDistinct
\* main is one call: it stops once it has returned an exit code
CHECK_DEADLOCK FALSE
