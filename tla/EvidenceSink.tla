---------------------------- MODULE EvidenceSink ----------------------------
(***************************************************************************)
(* What publishing a batch promises, seen from the evidence store: the     *)
(* store receives the batch's payloads one at a time, in batch order, each *)
(* at most once; the batch ends either reported as sent, which it may only *)
(* be once the store holds every payload, or reported as failed, with any  *)
(* prefix of the batch already stored.                                     *)
(***************************************************************************)
EXTENDS Naturals, Sequences

CONSTANTS Batches   \* the payload sequences a caller may publish

VARIABLES
    batch,   \* the batch being published
    stored,  \* what the evidence store holds, in arrival order
    status   \* "idle", "sending", "sent", "failed"

Init ==
    /\ batch = <<>>
    /\ stored = <<>>
    /\ status = "idle"

Start(b) ==
    /\ status = "idle"
    /\ batch' = b
    /\ status' = "sending"
    /\ UNCHANGED stored

\* the store receives the next payload of the batch
Deliver ==
    /\ status = "sending"
    /\ Len(stored) < Len(batch)
    /\ stored' = Append(stored, batch[Len(stored) + 1])
    /\ UNCHANGED <<batch, status>>

Succeed ==
    /\ status = "sending"
    /\ stored = batch
    /\ status' = "sent"
    /\ UNCHANGED <<batch, stored>>

Fail ==
    /\ status = "sending"
    /\ status' = "failed"
    /\ UNCHANGED <<batch, stored>>

Next == (\E b \in Batches : Start(b)) \/ Deliver \/ Succeed \/ Fail

Spec == Init /\ [][Next]_<<batch, stored, status>>

=============================================================================
