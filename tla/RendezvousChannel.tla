-------------------------- MODULE RendezvousChannel --------------------------
(***************************************************************************)
(* What a rendezvous promises its users (the comments of RendezvousInter-  *)
(* face, tensorflow/core/framework/rendezvous.h:36-124), without saying    *)
(* how.  Each key is a channel.  The messages of a channel are handed out  *)
(* in the order in which they were sent, each to one request; a request is *)
(* settled once, with a message of its key or with an error; an error      *)
(* needs a cause (an abort, the cancellation of the request's manager, or  *)
(* the deletion of the rendezvous); nothing is accepted after an abort.    *)
(* Where several managers have requests on one key the code promises less: *)
(* a request of one of them may be failed by the cancellation of another.  *)
(***************************************************************************)
EXTENDS Naturals, Sequences

CONSTANTS Keys, Sends, Recvs, Managers, NoCM

VARIABLES
    sent,       \* the messages accepted per key, in order
    received,   \* the messages handed out per key, in order
    request,    \* what is known of a request: key, manager, and result
    aborted,    \* StartAbort was called, or the rendezvous was deleted
    cancelled   \* the managers on which StartCancel was called

vars == <<sent, received, request, aborted, cancelled>>

NoRequest == [state |-> "idle"]

Init ==
    /\ sent = [k \in Keys |-> <<>>]
    /\ received = [k \in Keys |-> <<>>]
    /\ request = [r \in Recvs |-> NoRequest]
    /\ aborted = FALSE
    /\ cancelled = {}

(* Another message is accepted on k.                                       *)
Accept(k, v) ==
    /\ ~aborted
    /\ sent' = [sent EXCEPT ![k] = Append(@, v)]

(* The oldest message of k that nobody got goes to r.                      *)
Settle(r, k, c) ==
    /\ Len(received[k]) < Len(sent'[k])
    /\ LET v == sent'[k][Len(received[k]) + 1]
       IN  /\ received' = [received EXCEPT ![k] = Append(@, v)]
           /\ request' = [request EXCEPT ![r] =
                  [state |-> "settled", key |-> k, cm |-> c, result |-> v]]

Waiting(k, c) == [state |-> "waiting", key |-> k, cm |-> c]

Send(k, v) ==
    /\ Accept(k, v)
    /\ UNCHANGED <<received, request, aborted, cancelled>>

(* A message that somebody waits for.                                      *)
SendToWaiter(k, v) ==
    /\ Accept(k, v)
    /\ \E r \in Recvs, c \in Managers \cup {NoCM} :
          request[r] = Waiting(k, c) /\ Settle(r, k, c)
    /\ UNCHANGED <<aborted, cancelled>>

Request(r, k, c) ==
    /\ request[r] = NoRequest
    /\ request' = [request EXCEPT ![r] = Waiting(k, c)]
    /\ UNCHANGED <<sent, received, aborted, cancelled>>

(* A request for which a message is there.                                 *)
RequestSettled(r, k, c) ==
    /\ request[r] = NoRequest /\ ~aborted
    /\ sent' = sent
    /\ Settle(r, k, c)
    /\ UNCHANGED <<aborted, cancelled>>

Failed(k, c) == [state |-> "failed", key |-> k, cm |-> c]

(* The managers of the requests of k so far.                               *)
Users(k) == {request[r].cm : r \in {x \in Recvs : request[x] # NoRequest
                                                 /\ request[x].key = k}}

(* Why a request of k with manager c may fail.                             *)
Cause(k, c) ==
    \/ aborted'
    \/ c # NoCM /\ (Users(k) \cup {c}) \cap cancelled # {}

(* Some requests fail, possibly with the step that gives the cause.        *)
Fail ==
    /\ aborted' \in BOOLEAN /\ aborted => aborted'
    /\ request' \in [Recvs -> {request[r] : r \in Recvs}
                               \cup {Failed(k, c) : k \in Keys, c \in Managers \cup {NoCM}}]
    /\ \A r \in Recvs : request'[r] # request[r] =>
          \E k \in Keys, c \in Managers \cup {NoCM} :
              /\ request[r] \in {NoRequest, Waiting(k, c)}
              /\ request'[r] = Failed(k, c)
              /\ Cause(k, c)
    /\ UNCHANGED <<sent, received, cancelled>>

Cancel(c) ==
    /\ cancelled' = cancelled \cup {c}
    /\ UNCHANGED <<sent, received, request, aborted>>

Next ==
    \/ \E k \in Keys, v \in Sends : Send(k, v) \/ SendToWaiter(k, v)
    \/ \E r \in Recvs, k \in Keys, c \in Managers \cup {NoCM} :
          Request(r, k, c) \/ RequestSettled(r, k, c)
    \/ Fail
    \/ \E c \in Managers : Cancel(c)

Spec == Init /\ [][Next]_vars

=============================================================================
