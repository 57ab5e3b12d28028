\* violation: --evidence-url moves the evidence but not the token endpoint
CONSTANTS
    None = None
    NotJson = NotJson
    JsonList = JsonList
    D1 = D1
    Gone = Gone
    Dir = Dir
    ToolId = ToolId
    Missing = {Gone}
    Unreadable = {Dir}
    Files <- MCFiles
    Catalog <- MCCatalog
    Invocations <- MCStoreInvocations
    Replies <- MCReplies
    NonObjects <- MCNonObjects
    TokenReplies <- MCTokenReplies
    EvidenceReplies <- MCEvidenceReplies
SPECIFICATION Spec
INVARIANT TokenFromEvidenceStore
\* main is one call: it stops once it has returned an exit code
CHECK_DEADLOCK FALSE
