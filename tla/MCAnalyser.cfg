\* analyse_requirements answers every requirement, in order, conservatively
CONSTANTS
    None = None
    NotJson = NotJson
    JsonList = JsonList
    D1 = D1
    D2 = D2
    RequirementLists <- MCRequirementLists
    DocumentLists <- MCDocumentLists
    Replies <- MCReplies
    NonObjects <- MCNonObjects
SPECIFICATION Spec
INVARIANT TypeOK
INVARIANT ItemsFollowRequirements
INVARIANT VerdictNeverInvented
INVARIANT AffirmativeAnswerRecorded
\* the analysis is a single call: it stops once it has returned or raised
CHECK_DEADLOCK FALSE
