---------------------------- MODULE StoreClient -----------------------------
(***************************************************************************)
(* EvidenceStoreClient (evidence_store.py) publishing one batch with       *)
(* send_batch inside `with EvidenceStoreClient(...) as client`, against    *)
(* the OAuth token endpoint and the evidence endpoint.                     *)
(*                                                                         *)
(* Every HTTP call is a request the client puts on the wire, handled by    *)
(* the server in a step of its own, and a response the client then reads. *)
(* A transport error is a response: the request may or may not have been   *)
(* applied by the server before the connection failed.  A token may       *)
(* expire at any time once granted; the evidence endpoint then answers     *)
(* 401.                                                                    *)
(***************************************************************************)
EXTENDS Naturals, Sequences

CONSTANTS
    Batches,           \* the payload sequences send_batch may be given
    TokenReplies,      \* what the token endpoint may answer
    EvidenceReplies,   \* what the evidence endpoint may answer a valid token
    None

\* answers of the token endpoint
Granted == "granted"        \* 200 with access_token
TokenMissing == "no_token"  \* 200 without access_token
\* answers of either endpoint
Ok == "ok"                  \* 2xx with a JSON body
NoContent == "no_content"   \* 204
NotJsonBody == "not_json"   \* 2xx whose body response.json() rejects
Rejected == "rejected"      \* status >= 400
Unauthorized == "unauthorized" \* 401: the bearer token has expired
TransportError == "transport_error" \* httpx.HTTPError

ASSUME TokenReplies \subseteq {Granted, TokenMissing, NotJsonBody, Rejected, TransportError}
ASSUME EvidenceReplies \subseteq {Ok, NoContent, NotJsonBody, Rejected, TransportError}

VARIABLES
    conn,      \* the httpx.Client: "none" before the client exists, "open", "closed"
    token,     \* self._token: None or the number of the token granted
    batch,     \* the payloads send_batch was given
    sent,      \* how many of them send_evidence has returned for
    cphase,    \* "idle", "sending", "returned", "raised"
    cerror,    \* the exception send_batch raised, or None
    request,   \* the request on the wire, or None
    response,  \* the response the client has yet to read, or None
    granted,   \* how many tokens the token endpoint has granted
    expired,   \* the tokens the evidence endpoint no longer accepts
    stored     \* the evidence the store holds, in arrival order

vars == <<conn, token, batch, sent, cphase, cerror, request, response,
          granted, expired, stored>>

Init ==
    /\ conn = "none"
    /\ token = None
    /\ batch = <<>>
    /\ sent = 0
    /\ cphase = "idle"
    /\ cerror = None
    /\ request = None
    /\ response = None
    /\ granted = 0
    /\ expired = {}
    /\ stored = <<>>

(***************************************************************************)
(* Client                                                                  *)
(***************************************************************************)

\* the client reads nothing while a call is in flight
Quiet == request = None /\ response = None

\* the exception a failed call raises: response.json() on a body that is
\* not JSON raises JSONDecodeError, every other failure EvidenceStoreError
\* (whose message carries the status or the transport error)
Raised(reply) ==
    [type  |-> IF reply = NotJsonBody THEN "JSONDecodeError" ELSE "EvidenceStoreError",
     reply |-> reply]

\* `with EvidenceStoreClient(config) as client: client.send_batch(payloads)`:
\* __init__ opens the httpx.Client with no cached token, then send_batch
SendBatch(b) ==
    /\ cphase = "idle"
    /\ conn' = "open"
    /\ batch' = b
    /\ cphase' = "sending"
    /\ UNCHANGED <<token, sent, cerror, request, response, granted,
                   expired, stored>>

\* send_evidence -> _get_token with no cached token: POST to the token endpoint
RequestToken ==
    /\ cphase = "sending"
    /\ sent < Len(batch)
    /\ token = None
    /\ Quiet
    /\ request' = [call |-> "token"]
    /\ UNCHANGED <<conn, token, batch, sent, cphase, cerror, response,
                   granted, expired, stored>>

\* Mutation of ReceiveToken: the `if not token` check dropped
ReceiveTokenUnchecked ==
    /\ response # None
    /\ response.call = "token"
    /\ IF response.reply \in {Granted, TokenMissing}
         THEN /\ token' = response.token
              /\ UNCHANGED <<cphase, cerror>>
         ELSE /\ cphase' = "raised"
              /\ cerror' = Raised(response.reply)
              /\ UNCHANGED token
    /\ response' = None
    /\ UNCHANGED <<conn, batch, sent, request, granted, expired, stored>>

\* _get_token reads the token response: cache the token, or raise
ReceiveToken ==
    /\ response # None
    /\ response.call = "token"
    /\ IF response.reply = Granted
         THEN /\ token' = response.token
              /\ UNCHANGED <<cphase, cerror>>
         ELSE /\ cphase' = "raised"
              /\ cerror' = Raised(response.reply)
              /\ UNCHANGED token
    /\ response' = None
    /\ UNCHANGED <<conn, batch, sent, request, granted, expired, stored>>

\* send_evidence with a cached token: POST the payload with the bearer token
PostEvidence ==
    /\ cphase = "sending"
    /\ sent < Len(batch)
    /\ token # None
    /\ Quiet
    /\ request' = [call |-> "evidence", payload |-> batch[sent + 1], token |-> token]
    /\ UNCHANGED <<conn, token, batch, sent, cphase, cerror, response,
                   granted, expired, stored>>

\* Mutation of ReceiveEvidenceResponse: a transport error is retried
ReceiveEvidenceResponseRetry ==
    /\ response # None
    /\ response.call = "evidence"
    /\ CASE response.reply \in {Ok, NoContent} ->
              /\ sent' = sent + 1
              /\ UNCHANGED <<cphase, cerror>>
         [] response.reply = TransportError ->
              UNCHANGED <<sent, cphase, cerror>>
         [] OTHER ->
              /\ cphase' = "raised"
              /\ cerror' = Raised(response.reply)
              /\ UNCHANGED sent
    /\ response' = None
    /\ UNCHANGED <<conn, token, batch, request, granted, expired, stored>>

\* send_evidence reads the evidence response: return, or raise
ReceiveEvidenceResponse ==
    /\ response # None
    /\ response.call = "evidence"
    /\ IF response.reply \in {Ok, NoContent}
         THEN /\ sent' = sent + 1
              /\ UNCHANGED <<cphase, cerror>>
         ELSE /\ cphase' = "raised"
              /\ cerror' = Raised(response.reply)
              /\ UNCHANGED sent
    /\ response' = None
    /\ UNCHANGED <<conn, token, batch, request, granted, expired, stored>>

\* Mutation of BatchReturn: the loop stops one payload short
BatchReturnEarly ==
    /\ cphase = "sending"
    /\ sent = Len(batch) - 1
    /\ Quiet
    /\ cphase' = "returned"
    /\ UNCHANGED <<conn, token, batch, sent, cerror, request, response,
                   granted, expired, stored>>

\* the for loop of send_batch has sent every payload
BatchReturn ==
    /\ cphase = "sending"
    /\ sent = Len(batch)
    /\ Quiet
    /\ cphase' = "returned"
    /\ UNCHANGED <<conn, token, batch, sent, cerror, request, response,
                   granted, expired, stored>>

\* __exit__ -> close(): runs whether send_batch returned or raised
Close ==
    /\ cphase \in {"returned", "raised"}
    /\ conn = "open"
    /\ conn' = "closed"
    /\ UNCHANGED <<token, batch, sent, cphase, cerror, request, response,
                   granted, expired, stored>>

(***************************************************************************)
(* Servers                                                                 *)
(***************************************************************************)

\* the token endpoint answers a client-credentials grant
TokenEndpoint ==
    /\ request # None
    /\ request.call = "token"
    /\ \E r \in TokenReplies :
         /\ granted' = IF r = Granted THEN granted + 1 ELSE granted
         /\ response' = [call |-> "token", reply |-> r, token |-> granted + 1]
    /\ request' = None
    /\ UNCHANGED <<conn, token, batch, sent, cphase, cerror, expired, stored>>

\* whether the evidence endpoint has stored the payload when it answers r:
\* on a transport error the connection may have failed before or after
Applied(r) ==
    CASE r \in {Ok, NoContent, NotJsonBody} -> {TRUE}
      [] r = Rejected -> {FALSE}
      [] r = TransportError -> BOOLEAN

\* the evidence endpoint handles a POST
EvidenceEndpoint ==
    /\ request # None
    /\ request.call = "evidence"
    /\ IF request.token \in expired
         THEN /\ response' = [call |-> "evidence", reply |-> Unauthorized]
              /\ UNCHANGED stored
         ELSE \E r \in EvidenceReplies, applied \in BOOLEAN :
                /\ applied \in Applied(r)
                /\ response' = [call |-> "evidence", reply |-> r]
                /\ stored' = IF applied THEN Append(stored, request.payload)
                              ELSE stored
    /\ request' = None
    /\ UNCHANGED <<conn, token, batch, sent, cphase, cerror, granted, expired>>

\* the token the client holds expires
ExpireToken ==
    /\ token # None
    /\ token \notin expired
    /\ expired' = expired \cup {token}
    /\ UNCHANGED <<conn, token, batch, sent, cphase, cerror, request, response,
                   granted, stored>>

Next ==
    \/ \E b \in Batches : SendBatch(b)
    \/ RequestToken
    \/ ReceiveToken
    \/ PostEvidence
    \/ ReceiveEvidenceResponse
    \/ BatchReturn
    \/ Close
    \/ TokenEndpoint
    \/ EvidenceEndpoint
    \/ ExpireToken

\* `with` calls __exit__ whenever the body ends, so Close cannot be
\* postponed forever once send_batch has returned or raised
Fairness == WF_vars(Close)

Spec == Init /\ [][Next]_vars /\ Fairness

(***************************************************************************)
(* Properties                                                              *)
(***************************************************************************)
Replies == {Granted, TokenMissing, Ok, NoContent, NotJsonBody, Rejected,
            Unauthorized, TransportError}

TypeOK ==
    /\ conn \in {"none", "open", "closed"}
    /\ token \in {None} \cup 1..granted
    /\ batch \in Batches \cup {<<>>}
    /\ sent \in 0..Len(batch)
    /\ cphase \in {"idle", "sending", "returned", "raised"}
    /\ cerror \in {None} \cup [type : {"JSONDecodeError", "EvidenceStoreError"},
                                reply : Replies]
    /\ response \in {None} \cup [call : {"token"}, reply : Replies, token : Nat]
                               \cup [call : {"evidence"}, reply : Replies]
    /\ expired \subseteq 1..granted

\* However the calls fail, and although send_batch never retries, the store
\* holds every payload send_evidence has returned for and at most one more:
\* the one whose response was lost or could not be read after the store
\* had taken it (a transport error or a non-JSON 2xx body).
UnacknowledgedAtMostOne == Len(stored) \in {sent, sent + 1}

\* The client implements EvidenceSink: the store receives the batch in
\* order, each payload at most once, and send_batch returns only when the
\* store holds the whole batch.
Sink == INSTANCE EvidenceSink
    WITH status <- CASE cphase = "idle" -> "idle"
                     [] cphase = "sending" -> "sending"
                     [] cphase = "returned" -> "sent"
                     [] cphase = "raised" -> "failed"

SinkRefinement == Sink!Spec

=============================================================================
