---------------------------- MODULE MCStoreClient ---------------------------
(***************************************************************************)
(* One client publishing a batch of up to three payloads, against          *)
(* endpoints that may give every answer the code distinguishes.            *)
(***************************************************************************)
EXTENDS StoreClient, TLC

CONSTANTS P1, P2, P3

MCBatches == {<<P1>>, <<P1, P2, P3>>}

MCTokenReplies == {Granted, TokenMissing, NotJsonBody, Rejected, TransportError}

MCEvidenceReplies == {Ok, NoContent, NotJsonBody, Rejected, TransportError}

=============================================================================
