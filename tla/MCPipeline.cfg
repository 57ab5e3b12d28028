\* run end to end: what the store holds is what the analysis found
CONSTANTS
    None = None
    NotJson = NotJson
    JsonList = JsonList
    D1 = D1
    D2 = D2
    Gone = Gone
    Dir = Dir
    ToolId = ToolId
    Missing = {Gone}
    Unreadable = {Dir}
    PathLists <- MCPathLists
    RequirementLists <- MCRequirementLists
    Replies <- MCReplies
    NonObjects <- MCNonObjects
    TokenReplies <- MCTokenReplies
    EvidenceReplies <- MCEvidenceReplies
SPECIFICATION Spec
INVARIANT PublishedEvidenceMatchesAnalysis
\* run is a single call: it stops once it has returned or raised
CHECK_DEADLOCK FALSE
