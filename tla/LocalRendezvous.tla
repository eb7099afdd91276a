--------------------------- MODULE LocalRendezvous ---------------------------
(***************************************************************************)
(* LocalRendezvous, tensorflow/core/framework/local_rendezvous.{h,cc}, the *)
(* table that matches Send with RecvAsync, and the synchronous Recv that   *)
(* rendezvous.cc builds on it.                                             *)
(*                                                                         *)
(* The table is changed under mu_; done callbacks run outside of it.  A    *)
(* request with a cancellation manager also holds a reference on the       *)
(* rendezvous and a callback in its manager, and the completion of the     *)
(* request, the cancellation and StartAbort race for all three.            *)
(*                                                                         *)
(* One action is one critical section of mu_ (with the calls made inside   *)
(* it) or one step outside of it.  A request carries the steps that remain *)
(* of its completion and of its cancel callback; which thread takes them   *)
(* (the sender, the aborting, the cancelling one) is not recorded.         *)
(*                                                                         *)
(* The CancellationManager is here by its contract (module Cancellation):  *)
(* StartCancel takes all callbacks and runs them one by one, registration  *)
(* is refused and TryDeregisterCallback fails from then on.  Tokens are    *)
(* the counters of each manager.                                           *)
(***************************************************************************)
EXTENDS Integers, FiniteSets, Sequences, SequencesExt

CONSTANTS
    Keys,       \* key hashes
    Sends,      \* the Send calls; each names its message
    Recvs,      \* the Recv / RecvAsync calls
    Managers,   \* cancellation managers
    NoCM,       \* recv_args.cancellation_manager is nullptr
    Modes       \* how Recv is called: subset of {"async", "sync", "timed"}

ASSUME DisjointAssumption ==
    /\ Sends \cap Recvs = {} /\ Sends \cap {"none", "CANCELLED", "ABORTED"} = {}
    /\ NoCM \notin Managers /\ Modes \subseteq {"async", "sync", "timed"}
ASSUME KeysAssumption == Keys # {}

VARIABLES
    status,     \* status_: "OK" or "ABORTED"
    table,      \* table_: the items queued under a key, oldest first
    send,       \* of a Send call: "idle", "OK", "ABORTED" (its return)
    req,        \* of a RecvAsync call: its arguments, progress and outcome
    cb,         \* of its cancel callback: progress
    found,      \* the request whose item the cancel callback took, or none
    rc,         \* the reference count of rc_owner_
    client,     \* the creator of the rendezvous holds its reference
    deleted,    \* ~LocalRendezvous has run
    cm,         \* of a manager: "live", "cancelling", "cancelled"
    next_token, \* of a manager: next_cancellation_token_
    sent,       \* history: the messages accepted per key
    received    \* history: the messages matched with a request per key

vars == <<status, table, send, req, cb, found, rc, client, deleted, cm, next_token,
          sent, received>>

CMs == Managers \cup {NoCM}
kInvalidToken == -1

(* pc: idle; queued (its item is in the table); refused (the manager is    *)
(* stopped, before the Unref); taken (its waiter runs); unref (the waiter  *)
(* deregistered the callback, before the Unref); call_done (before done);  *)
(* done.  `called` counts the calls of done; `caller` is the synchronous   *)
(* caller: none, waiting, timed (waiting with a timeout), returned, gone   *)
(* (returned by timeout).                                                  *)
Request == [pc : {"idle", "queued", "refused", "taken", "unref", "call_done", "done"},
            key : Keys, cm : CMs, token : Int,
            result : {"none", "CANCELLED", "ABORTED"} \cup Sends,
            called : 0 .. 2,
            caller : {"none", "waiting", "timed", "returned", "gone"}]

TypeOK ==
    /\ status \in {"OK", "ABORTED"}
    /\ table \in [Keys -> Seq(Sends \cup Recvs)]
    /\ send \in [Sends -> {"idle", "OK", "ABORTED"}]
    /\ req \in [Recvs -> Request]
    /\ cb \in [Recvs -> {"none", "registered", "to_run", "waiter", "unref", "ran", "deregistered"}]
    /\ found \in [Recvs -> SUBSET Recvs]
    /\ rc \in Nat
    /\ client \in BOOLEAN
    /\ deleted \in BOOLEAN
    /\ cm \in [Managers -> {"live", "cancelling", "cancelled"}]
    /\ next_token \in [Managers -> Nat]
    /\ sent \in [Keys -> Seq(Sends)]
    /\ received \in [Keys -> Seq(Sends)]

NoRequest == [pc |-> "idle", key |-> CHOOSE k \in Keys : TRUE, cm |-> NoCM,
              token |-> kInvalidToken, result |-> "none", called |-> 0, caller |-> "none"]

Init ==
    /\ status = "OK"
    /\ table = [k \in Keys |-> <<>>]
    /\ send = [v \in Sends |-> "idle"]
    /\ req = [r \in Recvs |-> NoRequest]
    /\ cb = [r \in Recvs |-> "none"]
    /\ found = [r \in Recvs |-> {}]
    /\ rc = 1 /\ client = TRUE /\ deleted = FALSE
    /\ cm = [c \in Managers |-> "live"]
    /\ next_token = [c \in Managers |-> 0]
    /\ sent = [k \in Keys |-> <<>>]
    /\ received = [k \in Keys |-> <<>>]

-----------------------------------------------------------------------------
(* Completion of a request: what becomes of it when its item leaves the    *)
(* table with the given result.  The waiter of a request with a manager is *)
(* wrapped in code that deregisters the cancel callback.                   *)
Completed(q, result) ==
    [q EXCEPT !.pc = IF q.cm = NoCM THEN "call_done" ELSE "taken", !.result = result]

(* The rendezvous has not been aborted (!status_.ok() is the early return  *)
(* of Send and RecvAsync).                                                 *)
Open == status = "OK"

(* queue->head->type.  Mutant: the type is not looked at.                  *)
HeadIs_Never(k, S) == FALSE
HeadIs(k, S) == table[k] # <<>> /\ Head(table[k]) \in S

(* ItemQueue::push_back.  Mutant: a new item becomes the head.             *)
push_back_Front(queue, item) == <<item>> \o queue
push_back(queue, item) == Append(queue, item)

(* rc_owner_->Ref().  Mutant: the request takes no reference.              *)
Ref_Missing == rc
Ref == rc + 1

(* All requests still in the table complete with an error.                 *)
AbortTable(q) ==
    [r \in Recvs |-> IF q[r].pc = "queued" THEN Completed(q[r], "ABORTED") ELSE q[r]]

Send(v, k) ==
    /\ client /\ send[v] = "idle"
    /\ \/ /\ ~Open
          /\ send' = [send EXCEPT ![v] = "ABORTED"]
          /\ UNCHANGED <<table, req, sent, received>>
       \/ /\ Open /\ ~HeadIs(k, Recvs)
          /\ send' = [send EXCEPT ![v] = "OK"]
          /\ table' = [table EXCEPT ![k] = push_back(@, v)]
          /\ sent' = [sent EXCEPT ![k] = Append(@, v)]
          /\ UNCHANGED <<req, received>>
       \/ /\ Open /\ HeadIs(k, Recvs)
          /\ send' = [send EXCEPT ![v] = "OK"]
          /\ table' = [table EXCEPT ![k] = Tail(@)]
          /\ req' = [req EXCEPT ![Head(table[k])] = Completed(@, v)]
          /\ sent' = [sent EXCEPT ![k] = Append(@, v)]
          /\ received' = [received EXCEPT ![k] = Append(@, v)]
    /\ UNCHANGED <<status, cb, found, rc, client, deleted, cm, next_token>>

(* The request that RecvAsync is called with.                              *)
Called(k, c, mode) ==
    [NoRequest EXCEPT !.key = k, !.cm = c,
        !.caller = CASE mode = "async" -> "none" [] mode = "sync" -> "waiting" [] OTHER -> "timed"]

(* RecvAsync settles the request itself: done is called before the caller  *)
(* begins to wait, so that no timeout runs.                                *)
Inline(q, pc, result) ==
    [q EXCEPT !.pc = pc, !.result = result,
              !.caller = IF q.caller = "timed" THEN "waiting" ELSE q.caller]

RecvAsync(r, k, c, mode) ==
    /\ client /\ req[r].pc = "idle"
    /\ LET q == Called(k, c, mode)
       IN  \/ /\ ~Open
              /\ req' = [req EXCEPT ![r] = Inline(q, "call_done", "ABORTED")]
              /\ UNCHANGED <<table, cb, rc, next_token, received>>
           \/ /\ Open /\ HeadIs(k, Sends)
              /\ req' = [req EXCEPT ![r] = Inline(q, "call_done", Head(table[k]))]
              /\ table' = [table EXCEPT ![k] = Tail(@)]
              /\ received' = [received EXCEPT ![k] = Append(@, Head(table[k]))]
              /\ UNCHANGED <<cb, rc, next_token>>
           \/ /\ Open /\ ~HeadIs(k, Sends) /\ c = NoCM
              /\ req' = [req EXCEPT ![r] = [q EXCEPT !.pc = "queued"]]
              /\ table' = [table EXCEPT ![k] = push_back(@, r)]
              /\ UNCHANGED <<cb, rc, next_token, received>>
           \/ /\ Open /\ ~HeadIs(k, Sends) /\ c # NoCM
              /\ rc' = Ref
              /\ next_token' = [next_token EXCEPT ![c] = @ + 1]
              /\ IF cm[c] = "live"
                 THEN /\ req' = [req EXCEPT ![r] =
                             [q EXCEPT !.pc = "queued", !.token = next_token[c]]]
                      /\ cb' = [cb EXCEPT ![r] = "registered"]
                      /\ table' = [table EXCEPT ![k] = push_back(@, r)]
                 ELSE /\ req' = [req EXCEPT ![r] =
                             [Inline(q, "refused", "CANCELLED") EXCEPT !.token = next_token[c]]]
                      /\ UNCHANGED <<cb, table>>
              /\ UNCHANGED received
    /\ UNCHANGED <<status, send, found, client, deleted, cm, sent>>

(* StartAbort swaps the table out and fails the waiters in it.  Messages   *)
(* in it are dropped.                                                      *)
StartAbort ==
    /\ client
    /\ status' = "ABORTED"
    /\ table' = [k \in Keys |-> <<>>]
    /\ req' = AbortTable(req)
    /\ UNCHANGED <<send, cb, found, rc, client, deleted, cm, next_token, sent, received>>

-----------------------------------------------------------------------------
(* rc_owner_->Unref() by a thread that leaves the requests in state q; the *)
(* last one runs the destructor, which aborts what is in the table (an     *)
(* entry with an empty queue, which lookups leave behind, counts as none). *)
Unref(q) ==
    /\ rc' = rc - 1
    /\ IF rc = 1
       THEN /\ deleted' = TRUE
            /\ table' = [k \in Keys |-> <<>>]
            /\ status' = IF \E k \in Keys : table[k] # <<>> THEN "ABORTED" ELSE status
            /\ req' = AbortTable(q)
       ELSE req' = q /\ UNCHANGED <<deleted, table, status>>

(* The owner of the rendezvous is done with it.                            *)
ClientUnref ==
    /\ client
    /\ client' = FALSE
    /\ Unref(req)
    /\ UNCHANGED <<send, cb, found, cm, next_token, sent, received>>

(* Unref case (2), then done.                                              *)
UnrefRefused(r) ==
    /\ req[r].pc = "refused"
    /\ Unref([req EXCEPT ![r].pc = "call_done"])
    /\ UNCHANGED <<send, cb, found, client, cm, next_token, sent, received>>

(* cm->TryDeregisterCallback(token) in the wrapped waiter.                 *)
TryDeregisterCallback(c) == cm[c] = "live"

(* The wrapped waiter: TryDeregisterCallback, Unref case (3), done.        *)
WaiterDeregisters(r) ==
    /\ req[r].pc = "taken"
    /\ IF TryDeregisterCallback(req[r].cm)
       THEN /\ cb' = [cb EXCEPT ![r] = "deregistered"]
            /\ req' = [req EXCEPT ![r].pc = "unref"]
       ELSE /\ req' = [req EXCEPT ![r].pc = "call_done"]
            /\ UNCHANGED cb
    /\ UNCHANGED <<status, table, send, found, rc, client, deleted, cm, next_token,
                   sent, received>>

UnrefWaiter(r) ==
    /\ req[r].pc = "unref"
    /\ Unref([req EXCEPT ![r].pc = "call_done"])
    /\ UNCHANGED <<send, cb, found, client, cm, next_token, sent, received>>

CallDone(r) ==
    /\ req[r].pc = "call_done"
    /\ req' = [req EXCEPT ![r].pc = "done", ![r].called = @ + 1]
    /\ UNCHANGED <<status, table, send, cb, found, rc, client, deleted, cm, next_token,
                   sent, received>>

-----------------------------------------------------------------------------
(* The cancellation manager and the callback that RecvAsync registers.     *)
StartCancel(c) ==
    /\ cm[c] = "live"
    /\ cm' = [cm EXCEPT ![c] = "cancelling"]
    /\ cb' = [r \in Recvs |-> IF cb[r] = "registered" /\ req[r].cm = c THEN "to_run" ELSE cb[r]]
    /\ UNCHANGED <<status, table, send, req, found, rc, client, deleted, next_token,
                   sent, received>>

(* The manager runs its callbacks one after the other.                     *)
NoneRuns(c) == \A r \in Recvs : req[r].cm = c => cb[r] \notin {"waiter", "unref"}

(* Mutant: only the head of the queue is looked at.                        *)
Matches_HeadOnly(r) == {i \in DOMAIN table[req[r].key] :
                  LET item == table[req[r].key][i]
                  IN  i = 1 /\ item \in Recvs /\ req[item].token = req[r].token}

(* The items under the key of r that its callback takes for its own.       *)
Matches(r) == {i \in DOMAIN table[req[r].key] :
                  LET item == table[req[r].key][i]
                  IN  item \in Recvs /\ req[item].token = req[r].token}

(* Unlinking item i of a queue.  Mutant: its predecessor is unlinked.      *)
Unlink_Previous(queue, i) == RemoveAt(queue, IF i > 1 THEN i - 1 ELSE i)
Unlink(queue, i) == RemoveAt(queue, i)

(* Where the callback goes on when its item has left the table already.    *)
NotFound == "unref"

(* The critical section of the callback: find the item and remove it.      *)
CancelRecv(r) ==
    /\ cb[r] = "to_run" /\ NoneRuns(req[r].cm)
    /\ IF Matches(r) = {}
       THEN /\ cb' = [cb EXCEPT ![r] = NotFound]
            /\ UNCHANGED <<table, req, found>>
       ELSE LET k == req[r].key
                i == CHOOSE i \in Matches(r) : \A j \in Matches(r) : i <= j
            IN  /\ table' = [table EXCEPT ![k] = Unlink(@, i)]
                /\ req' = [req EXCEPT ![table[k][i]] = Completed(@, "CANCELLED")]
                /\ found' = [found EXCEPT ![r] = {table[k][i]}]
                /\ cb' = [cb EXCEPT ![r] = "waiter"]
    /\ UNCHANGED <<status, send, rc, client, deleted, cm, next_token, sent, received>>

CancelRecvDone(r) ==
    /\ cb[r] = "waiter" /\ \A q \in found[r] : req[q].pc = "done"
    /\ cb' = [cb EXCEPT ![r] = "unref"]
    /\ UNCHANGED <<status, table, send, req, found, rc, client, deleted, cm, next_token,
                   sent, received>>

(* Unref cases (1) and (4).                                                *)
UnrefCancelled(r) ==
    /\ cb[r] = "unref"
    /\ cb' = [cb EXCEPT ![r] = "ran"]
    /\ Unref(req)
    /\ UNCHANGED <<send, found, client, cm, next_token, sent, received>>

CancelDone(c) ==
    /\ cm[c] = "cancelling"
    /\ \A r \in Recvs : req[r].cm = c => cb[r] \notin {"to_run", "waiter", "unref"}
    /\ cm' = [cm EXCEPT ![c] = "cancelled"]
    /\ UNCHANGED <<status, table, send, req, cb, found, rc, client, deleted, next_token,
                   sent, received>>

-----------------------------------------------------------------------------
(* The synchronous Recv: it returns when done was called, or by timeout.   *)
RecvReturns(r) ==
    /\ req[r].caller \in {"waiting", "timed"} /\ req[r].called > 0
    /\ req' = [req EXCEPT ![r].caller = "returned"]
    /\ UNCHANGED <<status, table, send, cb, found, rc, client, deleted, cm, next_token,
                   sent, received>>

RecvTimesOut(r) ==
    /\ req[r].caller = "timed" /\ req[r].called = 0
    /\ req' = [req EXCEPT ![r].caller = "gone"]
    /\ UNCHANGED <<status, table, send, cb, found, rc, client, deleted, cm, next_token,
                   sent, received>>

-----------------------------------------------------------------------------
(* The steps that some thread is on its way to take for r.                 *)
Progress(r) ==
    \/ UnrefRefused(r) \/ WaiterDeregisters(r) \/ UnrefWaiter(r) \/ CallDone(r)
    \/ CancelRecv(r) \/ CancelRecvDone(r) \/ UnrefCancelled(r) \/ RecvReturns(r)

Next ==
    \/ \E v \in Sends, k \in Keys : Send(v, k)
    \/ \E r \in Recvs, k \in Keys, c \in CMs, mode \in Modes : RecvAsync(r, k, c, mode)
    \/ StartAbort \/ ClientUnref
    \/ \E r \in Recvs : Progress(r) \/ RecvTimesOut(r)
    \/ \E c \in Managers : StartCancel(c) \/ CancelDone(c)

Spec == Init /\ [][Next]_vars

(* Threads that are inside a call are scheduled; clients owe nothing.      *)
FairSpec == Spec /\ \A r \in Recvs : WF_vars(Progress(r))

-----------------------------------------------------------------------------
(* Correctness.                                                            *)

(* "By invariant, the item queue under each key is of the form             *)
(* [item.type == kSend]* or [item.type == kRecv]*"                         *)
(* (local_rendezvous.h:56-59), and a request is in the table exactly while *)
(* it waits: once, under its own key.                                      *)
QueueOK ==
    /\ \A k \in Keys : Range(table[k]) \subseteq Sends \/ Range(table[k]) \subseteq Recvs
    /\ \A r \in Recvs, k \in Keys :
          Cardinality({i \in DOMAIN table[k] : table[k][i] = r})
              = IF req[r].pc = "queued" /\ req[r].key = k THEN 1 ELSE 0

(* The done callback of a request is called at most once, although Send,   *)
(* StartAbort, the cancel callback and the destructor all complete         *)
(* requests outside of mu_.                                                *)
DoneOnce == \A r \in Recvs : req[r].called <= 1

(* The rendezvous is deleted exactly when nobody uses it any more: after    *)
(* the destructor no cancel callback is left that takes mu_ and no Unref is *)
(* outstanding (what the reference taken in RecvAsync is for), and when the *)
(* owner has let go and all requests and callbacks have come to their end   *)
(* it is gone, since "This refcount is dropped in exactly one of the        *)
(* following cases" (local_rendezvous.cc:192).                              *)
Ended(r) ==
    req[r].pc \in {"idle", "done"} /\ cb[r] \in {"none", "ran", "deregistered"}
RefCounted ==
    /\ deleted => \A r \in Recvs :
          /\ req[r].pc \notin {"queued", "refused", "unref"}
          /\ cb[r] \notin {"registered", "to_run", "waiter", "unref"}
    /\ ~client /\ (\A r \in Recvs : Ended(r)) => deleted

(* A request that is matched, aborted, or whose manager is cancelled gets  *)
(* its done callback.                                                      *)
RequestsEnd ==
    \A r \in Recvs :
        /\ req[r].pc \notin {"idle", "queued", "done"} ~> req[r].pc = "done"
        /\ req[r].pc = "queued" /\ req[r].cm # NoCM /\ cm[req[r].cm] # "live" ~> req[r].pc = "done"

(* The rendezvous implements the channel of RendezvousChannel: FIFO per    *)
(* key, no message lost, duplicated or given to two requests, no request   *)
(* settled twice, no error without a cause.                                *)
ChannelRequest(r) ==
    LET q == req[r]
    IN  CASE q.pc = "idle" -> [state |-> "idle"]
          [] q.pc # "idle" /\ q.result = "none" -> [state |-> "waiting", key |-> q.key, cm |-> q.cm]
          [] q.pc # "idle" /\ q.result \in Sends ->
                [state |-> "settled", key |-> q.key, cm |-> q.cm, result |-> q.result]
          [] OTHER -> [state |-> "failed", key |-> q.key, cm |-> q.cm]

Channel == INSTANCE RendezvousChannel WITH
    request <- [r \in Recvs |-> ChannelRequest(r)],
    aborted <- status # "OK" \/ deleted,
    cancelled <- {c \in Managers : cm[c] # "live"}

ImplementsChannel == Channel!Spec

=============================================================================
