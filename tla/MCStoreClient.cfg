\* send_batch: payloads reach the store in order, at most once, and the
\* connection is always released
CONSTANTS
    None = None
    P1 = P1
    P2 = P2
    P3 = P3
    Batches <- MCBatches
    TokenReplies <- MCTokenReplies
    EvidenceReplies <- MCEvidenceReplies
SPECIFICATION Spec
INVARIANT TypeOK
INVARIANT UnacknowledgedAtMostOne
PROPERTY SinkRefinement
\* the client is used for one batch: it stops once the connection is closed
CHECK_DEADLOCK FALSE
