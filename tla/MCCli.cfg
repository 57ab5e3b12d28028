\* main: exit codes, what the store holds on exit 0, termination
CONSTANTS
    None = None
    NotJson = NotJson
    JsonList = JsonList
    D1 = D1
    Gone = Gone
    Dir = Dir
    ToolId = ToolId
    Missing = {Gone}
    Unreadable = {Dir}
    Files <- MCFiles
    Catalog <- MCCatalog
    Invocations <- MCInvocations
    Replies <- MCReplies
    NonObjects <- MCNonObjects
    TokenReplies <- MCTokenReplies
    EvidenceReplies <- MCEvidenceReplies
SPECIFICATION Spec
INVARIANT ExitZeroMeansPublished
INVARIANT UncaughtOnlyFromConfiguration
INVARIANT RunFailsOnlyFromEnvironment
PROPERTY Terminates
\* main is one call: it stops once it has returned an exit code
CHECK_DEADLOCK FALSE
