------------------------------ MODULE FIFOQueue ------------------------------
(***************************************************************************)
(* FIFOQueue and QueueBase, tensorflow/core/kernels/fifo_queue.cc and      *)
(* queue_base.{h,cc}: a bounded queue of tuples of tensors whose blocked   *)
(* operations wait as attempts.                                            *)
(*                                                                         *)
(* An operation appends an attempt under mu_ and then runs FlushUnlocked,  *)
(* which under mu_ runs the attempts at the front of both queues until     *)
(* none makes progress and calls the done callbacks of the complete ones   *)
(* after it released mu_.  Cancellation of a step and Close with           *)
(* cancel_pending_enqueues take done callbacks from the same attempts.     *)
(*                                                                         *)
(* One action is one critical section of mu_, except that FlushUnlocked    *)
(* takes one action per attempt it looks at while it holds mu_, or one     *)
(* done callback.  What other threads do outside of mu_ (done callbacks,   *)
(* cancellation) touches nothing FlushUnlocked reads or writes under mu_,  *)
(* so nothing is lost by letting the critical section run undisturbed.     *)
(* A thread is <<o, "call">>, inside operation o, or <<o, "cancel">>,      *)
(* inside the cancel callback of operation o.                              *)
(*                                                                         *)
(* The CancellationManager is here by its contract (module Cancellation):  *)
(* StartCancel runs the registered callbacks one by one, registration is   *)
(* refused from then on, and DeregisterCallback waits until all have run.  *)
(* A manager belongs to a step and is named by its address: after the      *)
(* step its address may be that of the manager of a later step.            *)
(***************************************************************************)
EXTENDS Integers, FiniteSets, Sequences, SequencesExt

CONSTANTS
    Ops,            \* the operations on the queue
    Managers,       \* addresses of cancellation managers
    NoCM,           \* the manager of a Close: nullptr
    Stopped,        \* the managers whose steps may be cancelled
    Reused,         \* the addresses that a later step may get
    Components,     \* num_components(), at least 1
    Capacity,       \* capacity_
    Calls,          \* of an operation: the calls it may be
    NoThread        \* nobody holds mu_

(* A call: kind, number of elements, manager, and what fails in it:        *)
(* enqueue_many: the slice whose last component cannot be copied, 0 none;  *)
(* dequeue_many, dequeue_up_to: 1 no memory for the batch, 2 a collected   *)
(* element cannot be restored, 3 an element cannot be copied to the batch  *)
(* (a type that CopyElementToSlice does not handle: the first copy fails). *)
Call == [kind : {"enqueue", "enqueue_many", "dequeue", "dequeue_many", "dequeue_up_to",
                 "close", "close_cancel"},
         n : Nat, cm : Managers \cup {NoCM}, fail : Nat]

ASSUME QueueAssumption ==
    /\ Components \in Nat \ {0} /\ Capacity \in Nat
    /\ NoCM \notin Managers /\ NoThread \notin Ops \X {"call", "cancel"}
    /\ Stopped \subseteq Managers /\ Reused \subseteq Managers
    /\ Calls \in [Ops -> SUBSET Call]
    /\ \A o \in Ops : \A c \in Calls[o] :
          /\ c.kind \in {"enqueue", "dequeue"} => c.n = 1
          /\ (c.cm = NoCM) = (c.kind \in {"close", "close_cancel"})

VARIABLES
    closed,             \* closed_
    queues,             \* queues_: of a component, its elements
    enqueue_attempts,   \* enqueue_attempts_, operations in order
    dequeue_attempts,   \* dequeue_attempts_
    op,                 \* of an operation: its call, its Attempt, its outcome
    thr,                \* of a thread: where it is, with its locals
    mu,                 \* the thread inside FlushUnlocked's critical section
    cm,                 \* of a manager: its state and next token
    cb                  \* of an operation: what became of its cancel callback

vars == <<closed, queues, enqueue_attempts, dequeue_attempts, op, thr, mu, cm, cb>>

Threads == Ops \X {"call", "cancel"}
kInvalidToken == -1
Statuses == {"OK", "CANCELLED", "OUT_OF_RANGE", "RESOURCE_EXHAUSTED", "DATA_LOSS",
             "UNIMPLEMENTED"}

(* Element i of operation o, in each component; Garbage is the tensor that *)
(* is pushed when an element cannot be restored.                           *)
Elements == Ops \X Nat
Garbage == <<>>

(* done_callback: "null" once moved; "empty" gives no tuple, "tuple" the   *)
(* collected one.  tuple is a sequence of slices, a slice the element per  *)
(* component; an element whose copy failed is its last one (history: it    *)
(* has left the queue).  late: Close had been called when the operation    *)
(* began.                                                                  *)
NoOp == [call |-> <<>>, token |-> kInvalidToken, elements_requested |-> 0, tuple |-> <<>>,
         is_cancelled |-> FALSE, done_callback |-> "null", status |-> "OK",
         called |-> 0, late |-> FALSE]

(* A thread outside of mu_ first calls the done callbacks it has taken     *)
(* (todo) and then flushes; enqueue and dequeue are the two phases under   *)
(* mu_, clean the loop over clean_up (todo).                               *)
Idle == [pc |-> "idle", todo |-> <<>>, changed |-> FALSE]

Slice == [1 .. Components -> Elements \cup {Garbage}]
Operation ==
    [call : Call \cup {<<>>}, token : Int, elements_requested : Nat, tuple : Seq(Slice),
     is_cancelled : BOOLEAN, done_callback : {"null", "empty", "tuple"}, status : Statuses,
     called : 0 .. 2, late : BOOLEAN]
Thread ==
    [pc : {"idle", "outside", "enqueue", "dequeue", "clean", "returned"},
     todo : Seq([op : Ops, callback : {"null", "empty", "tuple"}]), changed : BOOLEAN]

TypeOK ==
    /\ closed \in BOOLEAN
    /\ queues \in [1 .. Components -> Seq(Elements \cup {Garbage})]
    /\ enqueue_attempts \in Seq(Ops) /\ dequeue_attempts \in Seq(Ops)
    /\ op \in [Ops -> Operation] /\ \A o \in Ops : op[o].call \in Calls[o] \cup {<<>>}
    /\ thr \in [Threads -> Thread]
    /\ mu \in Threads \cup {NoThread}
    /\ cm \in [Managers -> [state : {"live", "cancelling", "cancelled"}, next_token : Nat]]
    /\ cb \in [Ops -> {"none", "registered", "to_run", "running", "ran", "deregistered", "gone"}]

Init ==
    /\ closed = FALSE
    /\ queues = [c \in 1 .. Components |-> <<>>]
    /\ enqueue_attempts = <<>> /\ dequeue_attempts = <<>>
    /\ op = [o \in Ops |-> NoOp]
    /\ thr = [t \in Threads |-> Idle]
    /\ mu = NoThread
    /\ cm = [m \in Managers |-> [state |-> "live", next_token |-> 0]]
    /\ cb = [o \in Ops |-> "none"]

-----------------------------------------------------------------------------
(* Helpers.                                                                *)

Kind(o) == op[o].call.kind
Started(o) == op[o].call # <<>>
Least(a, b) == IF a < b THEN a ELSE b

(* Slices i .. j of the batch of an EnqueueMany. *)
Slices(o, i, j) == [k \in 1 .. j - i + 1 |-> <<o, i + k - 1>>]

(* The first n elements of the queues, as slices, and what they leave      *)
(* (DequeueLocked, n times).                                               *)
Oldest(q, n) == [i \in 1 .. n |-> [c \in 1 .. Components |->
                    IF i <= Len(q[c]) THEN q[c][i] ELSE Garbage]]
Rest(q, n) == [c \in 1 .. Components |-> SubSeq(q[c], n + 1, Len(q[c]))]
push_back(q, s) == [c \in 1 .. Components |-> q[c] \o s]
push_front(q, t) == [c \in 1 .. Components |-> [i \in 1 .. Len(t) |-> t[i][c]] \o q[c]]

SetStatus(a, s) == IF a.status = "OK" THEN [a EXCEPT !.status = s] ELSE a

(* The callback of operation o as it is moved to a list of callbacks. *)
Moved(o) == [op |-> o, callback |-> op[o].done_callback]

-----------------------------------------------------------------------------
(* The run callbacks of the attempts: what running attempt a of operation  *)
(* o gives: RunResult, queues_, closed_, the attempt.                      *)

Ran(result, q, cl, a) == [result |-> result, queues |-> q, closed |-> cl, attempt |-> a]

(* Room in the queue. *)
Room == IF Len(queues[1]) < Capacity THEN Capacity - Len(queues[1]) ELSE 0

RunClose(a) ==
    IF closed THEN Ran("kComplete", queues, closed, SetStatus(a, "CANCELLED"))
              ELSE Ran("kComplete", queues, TRUE, a)

(* TryEnqueue's callback. *)
RunEnqueue(o, a) ==
    IF closed THEN Ran("kComplete", queues, closed, SetStatus(a, "CANCELLED"))
    ELSE IF Room > 0 THEN Ran("kComplete", push_back(queues, <<<<o, 1>>>>), closed, a)
    ELSE Ran("kNoProgress", queues, closed, a)

(* TryEnqueueMany's callback: as many slices as there is room for.  A      *)
(* slice whose last component cannot be copied ends the attempt.           *)
RunEnqueueMany(o, a) ==
    LET first == a.call.n - a.elements_requested + 1
        k     == Least(Room, a.elements_requested)
        good  == IF a.call.fail \in first .. first + k - 1 THEN a.call.fail - first ELSE k
        full  == push_back(queues, Slices(o, first, first + good - 1))
        left  == [a EXCEPT !.elements_requested = @ - good]
    IN  IF closed THEN Ran("kComplete", queues, closed, SetStatus(a, "CANCELLED"))
        ELSE IF good < k
             THEN Ran("kComplete",
                      [c \in 1 .. Components |->
                          IF c < Components THEN Append(full[c], <<o, first + good>>) ELSE full[c]],
                      closed, SetStatus(left, "RESOURCE_EXHAUSTED"))
        ELSE Ran(IF k = a.elements_requested THEN "kComplete"
                 ELSE IF k > 0 THEN "kProgress" ELSE "kNoProgress", full, closed, left)

RunDequeue(a) ==
    IF queues[1] # <<>>
    THEN Ran("kComplete", Rest(queues, 1), closed,
             [a EXCEPT !.tuple = Oldest(queues, 1), !.done_callback = "tuple"])
    ELSE IF closed THEN Ran("kComplete", queues, closed, SetStatus(a, "OUT_OF_RANGE"))
    ELSE Ran("kNoProgress", queues, closed, a)

(* The part of TryDequeueMany's callback that collects elements of q.      *)
(* Mutant: it completes with what there is.                                *)
Collect_Partial(q, a) ==
    LET k == Least(Len(q[1]), a.elements_requested)
    IN  IF k = 0 THEN Ran("kNoProgress", q, closed, a)
        ELSE Ran("kComplete", Rest(q, k), closed,
                 [a EXCEPT !.tuple = Oldest(q, k), !.elements_requested = @ - k,
                           !.done_callback = "tuple"])
Collect(q, a) ==
    LET k    == Least(Len(q[1]), a.elements_requested)
        more == [a EXCEPT !.tuple = @ \o Oldest(q, k), !.elements_requested = @ - k]
    IN  IF k = 0 THEN Ran("kNoProgress", q, closed, a)
        ELSE IF a.tuple = <<>> /\ a.call.fail = 1
             THEN Ran("kComplete", q, closed, SetStatus(a, "RESOURCE_EXHAUSTED"))
        ELSE IF a.status # "OK" THEN Ran("kComplete", q, closed, a)
        ELSE IF a.call.fail = 3
             THEN Ran("kComplete", Rest(q, 1), closed,
                      SetStatus([a EXCEPT !.tuple = @ \o Oldest(q, 1)], "UNIMPLEMENTED"))
        ELSE IF k = a.elements_requested
             THEN Ran("kComplete", Rest(q, k), closed, [more EXCEPT !.done_callback = "tuple"])
        ELSE Ran("kProgress", Rest(q, k), closed, more)

(* Restores the collected elements to the front of the queue.  Mutants:    *)
(* they are put back behind the others, or not at all.                     *)
Restored_Missing(a) == queues
Restored_Back(a) ==
    [c \in 1 .. Components |-> queues[c] \o [i \in 1 .. Len(a.tuple) |-> a.tuple[i][c]]]
Restored(a) ==
    LET slice(i) == IF a.call.fail = 2 /\ i = 1 THEN [c \in 1 .. Components |-> Garbage]
                    ELSE a.tuple[i]
    IN  push_front(queues, [i \in 1 .. Len(a.tuple) |-> slice(i)])

(* TryDequeueMany's callback. *)
RunDequeueMany(a) ==
    LET back  == Restored(a)
        a1    == IF a.call.fail = 2 /\ a.tuple # <<>> THEN SetStatus(a, "DATA_LOSS") ELSE a
        small == a.call.kind = "dequeue_up_to"
    IN  IF ~(closed /\ Len(queues[1]) < a.elements_requested) THEN Collect(queues, a)
        ELSE IF small /\ back[1] # <<>>
             THEN Collect(back, [a1 EXCEPT !.tuple = <<>>, !.elements_requested = Len(back[1])])
        ELSE IF small /\ enqueue_attempts # <<>> THEN Ran("kProgress", back, closed, a1)
        ELSE Ran("kComplete", back, closed, SetStatus(a1, "OUT_OF_RANGE"))

run_callback(o) ==
    LET a == op[o] IN
    CASE Kind(o) = "close"        -> RunClose(a)
      [] Kind(o) = "enqueue"      -> RunEnqueue(o, a)
      [] Kind(o) = "enqueue_many" -> RunEnqueueMany(o, a)
      [] Kind(o) = "dequeue"      -> RunDequeue(a)
      [] OTHER                    -> RunDequeueMany(a)

-----------------------------------------------------------------------------
(* The operations.                                                         *)

(* An attempt as it is made.  Close has no manager and no token. *)
NewOp(c) ==
    [NoOp EXCEPT !.call = c, !.elements_requested = c.n, !.done_callback = "empty",
                 !.token = IF c.cm = NoCM THEN kInvalidToken ELSE cm[c.cm].next_token,
                 !.late = \E o \in Ops : Started(o) /\ Kind(o) \in {"close", "close_cancel"}]

(* The calls that return at once: no elements, or a manager that has been  *)
(* stopped.  The operation is known to nobody else.                        *)
AtOnce(o, c, status) ==
    /\ op' = [op EXCEPT ![o] = [NewOp(c) EXCEPT !.done_callback = "null", !.called = 1,
                                                !.status = status]]
    /\ thr' = [thr EXCEPT ![<<o, "call">>].pc = "returned"]
    /\ UNCHANGED <<closed, queues, enqueue_attempts, dequeue_attempts, mu, cb>>

NextToken(c) == cm' = [cm EXCEPT ![c.cm].next_token = @ + 1]

(* RegisterCallback and emplace_back, under mu_.                           *)
Registered(c) == cm[c.cm].state = "live"

Registers(o, c) ==
    /\ NextToken(c)
    /\ cb' = [cb EXCEPT ![o] = "registered"]
    /\ op' = [op EXCEPT ![o] = NewOp(c)]
    /\ thr' = [thr EXCEPT ![<<o, "call">>].pc = "outside"]
    /\ UNCHANGED <<closed, queues, mu>>

TryEnqueue(o) ==
    /\ ~Started(o) /\ mu = NoThread
    /\ \E c \in Calls[o] :
          /\ c.kind \in {"enqueue", "enqueue_many"}
          /\ \/ c.n = 0 /\ AtOnce(o, c, "OK") /\ UNCHANGED cm
             \/ c.n > 0 /\ ~Registered(c) /\ AtOnce(o, c, "CANCELLED") /\ NextToken(c)
             \/ /\ c.n > 0 /\ Registered(c) /\ Registers(o, c)
                /\ enqueue_attempts' = Append(enqueue_attempts, o)
                /\ UNCHANGED dequeue_attempts

TryDequeue(o) ==
    /\ ~Started(o) /\ mu = NoThread
    /\ \E c \in Calls[o] :
          /\ c.kind \in {"dequeue", "dequeue_many", "dequeue_up_to"}
          /\ \/ c.n = 0 /\ AtOnce(o, c, "OK") /\ UNCHANGED cm
             \/ c.n > 0 /\ ~Registered(c) /\ AtOnce(o, c, "CANCELLED") /\ NextToken(c)
             \/ /\ c.n > 0 /\ Registered(c) /\ Registers(o, c)
                /\ dequeue_attempts' = Append(dequeue_attempts, o)
                /\ UNCHANGED enqueue_attempts

(* Close with pending enqueues: an attempt like the others. *)
Close(o) ==
    /\ ~Started(o) /\ mu = NoThread
    /\ \E c \in Calls[o] : c.kind = "close" /\ op' = [op EXCEPT ![o] = NewOp(c)]
    /\ enqueue_attempts' = Append(enqueue_attempts, o)
    /\ thr' = [thr EXCEPT ![<<o, "call">>].pc = "outside"]
    /\ UNCHANGED <<closed, queues, dequeue_attempts, mu, cm, cb>>

(* An attempt that Cancel or CloseAndCancel takes the callback of. *)
Cancelled(a) == [SetStatus(a, "CANCELLED") EXCEPT !.is_cancelled = TRUE, !.done_callback = "null"]

(* The numbers of the finite set S in ascending order. *)
Ascending(S) == CHOOSE f \in [1 .. Cardinality(S) -> S] :
                   \A i, j \in 1 .. Cardinality(S) : i < j => f[i] < f[j]

(* The critical section of CloseAndCancel.  Mutant: attempts that are      *)
(* cancelled already are taken again.                                      *)
ToCancel_All == enqueue_attempts
ToCancel ==
    LET live == {i \in DOMAIN enqueue_attempts : ~op[enqueue_attempts[i]].is_cancelled}
    IN  [k \in 1 .. Cardinality(live) |-> enqueue_attempts[Ascending(live)[k]]]
CloseAndCancel(o) ==
    /\ ~Started(o) /\ mu = NoThread
    /\ \E c \in Calls[o] :
          /\ c.kind = "close_cancel"
          /\ op' = [p \in Ops |-> IF p = o THEN NewOp(c)
                                  ELSE IF \E i \in DOMAIN ToCancel : ToCancel[i] = p
                                       THEN Cancelled(op[p]) ELSE op[p]]
    /\ closed' = TRUE
    /\ thr' = [thr EXCEPT ![<<o, "call">>] =
                  [Idle EXCEPT !.pc = "outside",
                               !.todo = [i \in DOMAIN ToCancel |-> Moved(ToCancel[i])]]]
    /\ UNCHANGED <<queues, enqueue_attempts, dequeue_attempts, mu, cm, cb>>

(* A done callback runs: the operation ends, with the tuple of its attempt *)
(* if the callback carries it.                                             *)
Called(p) == [op EXCEPT ![p].called = IF @ < 2 THEN @ + 1 ELSE @]

(* Cancel and CloseAndCancel call the done callbacks they took before they *)
(* call FlushUnlocked.                                                     *)
CallCallback(t) ==
    /\ thr[t].pc = "outside" /\ thr[t].todo # <<>>
    /\ op' = Called(Head(thr[t].todo).op)
    /\ thr' = [thr EXCEPT ![t].todo = Tail(@)]
    /\ UNCHANGED <<closed, queues, enqueue_attempts, dequeue_attempts, mu, cm, cb>>

-----------------------------------------------------------------------------
(* FlushUnlocked.                                                          *)

Lock(t) ==
    /\ thr[t].pc = "outside" /\ thr[t].todo = <<>> /\ mu = NoThread
    /\ mu' = t
    /\ thr' = [thr EXCEPT ![t].pc = "enqueue", ![t].changed = FALSE]
    /\ UNCHANGED <<closed, queues, enqueue_attempts, dequeue_attempts, op, cm, cb>>

Attempts(action) == IF action = "enqueue" THEN enqueue_attempts ELSE dequeue_attempts
SetAttempts(action, s) ==
    IF action = "enqueue" THEN enqueue_attempts' = s /\ UNCHANGED dequeue_attempts
                          ELSE dequeue_attempts' = s /\ UNCHANGED enqueue_attempts

(* TryAttemptLocked pops a cancelled attempt. *)
SkipCancelled(t, action) ==
    /\ thr[t].pc = action /\ Attempts(action) # <<>>
    /\ op[Head(Attempts(action))].is_cancelled
    /\ SetAttempts(action, Tail(Attempts(action)))
    /\ UNCHANGED <<closed, queues, op, thr, mu, cm, cb>>

(* Where TryAttemptLocked returns to: after the dequeue attempts, the loop *)
(* of FlushUnlocked goes on while something changed.  Mutant: one round.   *)
AfterTry_OneRound(action, changed) == IF action = "enqueue" THEN "dequeue" ELSE "clean"
AfterTry(action, changed) ==
    IF action = "enqueue" THEN "dequeue" ELSE IF changed THEN "enqueue" ELSE "clean"

Returns(t, action, changed) ==
    LET pc == AfterTry(action, changed) IN
    /\ thr' = [thr EXCEPT ![t].pc = pc, ![t].changed = changed /\ pc = "dequeue"]
    /\ mu' = IF pc = "clean" THEN NoThread ELSE mu

(* TryAttemptLocked runs the attempt at the front. *)
RunAttempt(t, action) ==
    /\ thr[t].pc = action /\ Attempts(action) # <<>>
    /\ LET o == Head(Attempts(action))
           r == run_callback(o)
       IN  /\ ~op[o].is_cancelled
           /\ queues' = r.queues
           /\ closed' = r.closed
           /\ \/ /\ r.result = "kComplete"
                 /\ op' = [op EXCEPT ![o] = [r.attempt EXCEPT !.done_callback = "null"]]
                 /\ thr' = [thr EXCEPT ![t].changed = TRUE,
                                       ![t].todo = Append(@, [op |-> o,
                                                    callback |-> r.attempt.done_callback])]
                 /\ SetAttempts(action, Tail(Attempts(action)))
                 /\ UNCHANGED mu
              \/ /\ r.result # "kComplete"
                 /\ op' = [op EXCEPT ![o] = r.attempt]
                 /\ Returns(t, action, thr[t].changed \/ r.result = "kProgress")
                 /\ UNCHANGED <<enqueue_attempts, dequeue_attempts>>
    /\ UNCHANGED <<cm, cb>>

(* TryAttemptLocked finds no attempt. *)
NoAttempt(t, action) ==
    /\ thr[t].pc = action /\ Attempts(action) = <<>>
    /\ Returns(t, action, thr[t].changed)
    /\ UNCHANGED <<closed, queues, enqueue_attempts, dequeue_attempts, op, cm, cb>>

(* DeregisterCallback returns: the callback was still registered, or all   *)
(* callbacks of the manager have run.                                      *)
Deregisters(p) == cm[op[p].call.cm].state # "cancelling"

(* One CleanUp: the cancel callback is deregistered, the done callback     *)
(* called.                                                                 *)
CleanUp(t) ==
    /\ thr[t].pc = "clean" /\ thr[t].todo # <<>>
    /\ LET p == Head(thr[t].todo).op IN
       /\ \/ op[p].token = kInvalidToken /\ UNCHANGED cb
          \/ /\ op[p].token # kInvalidToken /\ Deregisters(p)
             /\ cb' = [cb EXCEPT ![p] = IF @ = "registered" THEN "deregistered" ELSE @]
       /\ op' = Called(p)
    /\ thr' = [thr EXCEPT ![t].todo = Tail(@)]
    /\ UNCHANGED <<closed, queues, enqueue_attempts, dequeue_attempts, mu, cm>>

(* FlushUnlocked returns.  Close with cancel_pending_enqueues calls its    *)
(* own callback, a cancel callback returns to StartCancel.                 *)
Return(t) ==
    /\ thr[t].pc = "clean" /\ thr[t].todo = <<>>
    /\ thr' = [thr EXCEPT ![t].pc = "returned"]
    /\ op' = IF t[2] = "call" /\ Kind(t[1]) = "close_cancel"
             THEN [Called(t[1]) EXCEPT ![t[1]].done_callback = "null"] ELSE op
    /\ cb' = IF t[2] = "cancel" THEN [cb EXCEPT ![t[1]] = "ran"] ELSE cb
    /\ UNCHANGED <<closed, queues, enqueue_attempts, dequeue_attempts, mu, cm>>

-----------------------------------------------------------------------------
(* Cancellation.                                                           *)

StartCancel(m) ==
    /\ m \in Stopped /\ mu = NoThread /\ cm[m].state = "live"
    /\ cm' = [cm EXCEPT ![m].state = "cancelling"]
    /\ cb' = [o \in Ops |-> IF cb[o] = "registered" /\ op[o].call.cm = m THEN "to_run" ELSE cb[o]]
    /\ UNCHANGED <<closed, queues, enqueue_attempts, dequeue_attempts, op, thr, mu>>

(* The attempt that Cancel looks for, of operation o: with its manager (by *)
(* address) and its token, the first of them.                              *)
Match(o, p) == op[p].call.cm = op[o].call.cm /\ op[p].token = op[o].token
FirstMatch(s, o) == {s[i] : i \in {k \in DOMAIN s : /\ Match(o, s[k])
                                                  /\ \A j \in 1 .. k - 1 : ~Match(o, s[j])}}

Cancel(o) ==
    LET action == IF Kind(o) \in {"enqueue", "enqueue_many"} THEN "enqueue" ELSE "dequeue"
        found  == {p \in FirstMatch(Attempts(action), o) : ~op[p].is_cancelled}
    IN  /\ cb[o] = "to_run" /\ mu = NoThread
        /\ \A p \in Ops : cb[p] = "running" => op[p].call.cm # op[o].call.cm
        /\ \/ /\ found = {}
              /\ cb' = [cb EXCEPT ![o] = "ran"]
              /\ UNCHANGED <<op, thr>>
           \/ \E p \in found :
              /\ cb' = [cb EXCEPT ![o] = "running"]
              /\ op' = [op EXCEPT ![p] = Cancelled(@)]
              /\ thr' = [thr EXCEPT ![<<o, "cancel">>] =
                            [Idle EXCEPT !.pc = "outside", !.todo = <<Moved(p)>>]]
        /\ UNCHANGED <<closed, queues, enqueue_attempts, dequeue_attempts, mu, cm>>

CancelDone(m) ==
    /\ mu = NoThread /\ cm[m].state = "cancelling"
    /\ \A o \in Ops : cb[o] \in {"to_run", "running"} => op[o].call.cm # m
    /\ cm' = [cm EXCEPT ![m].state = "cancelled"]
    /\ UNCHANGED <<closed, queues, enqueue_attempts, dequeue_attempts, op, thr, mu, cb>>

(* The step ends, when all its operations have, with its manager; the      *)
(* manager of a later step is at the same address.                         *)
NextStep(m) ==
    /\ m \in Reused /\ mu = NoThread /\ cm[m].state # "cancelling" /\ cm[m].next_token > 0
    /\ \A o \in Ops : Started(o) /\ op[o].call.cm = m => op[o].called > 0
    /\ cm' = [cm EXCEPT ![m] = [state |-> "live", next_token |-> 0]]
    /\ cb' = [o \in Ops |-> IF Started(o) /\ op[o].call.cm = m THEN "gone" ELSE cb[o]]
    /\ UNCHANGED <<closed, queues, enqueue_attempts, dequeue_attempts, op, thr, mu>>

-----------------------------------------------------------------------------
Step(t) ==
    \/ /\ mu = NoThread
       /\ CallCallback(t) \/ Lock(t) \/ CleanUp(t) \/ Return(t)
    \/ \E action \in {"enqueue", "dequeue"} :
          SkipCancelled(t, action) \/ RunAttempt(t, action) \/ NoAttempt(t, action)

Next ==
    \/ \E o \in Ops : TryEnqueue(o) \/ TryDequeue(o) \/ Close(o) \/ CloseAndCancel(o) \/ Cancel(o)
    \/ \E t \in Threads : Step(t)
    \/ \E m \in Managers : StartCancel(m) \/ CancelDone(m) \/ NextStep(m)

Spec == Init /\ [][Next]_vars

-----------------------------------------------------------------------------
(* Properties.                                                             *)

Consumer(o) == Kind(o) \in {"dequeue", "dequeue_many", "dequeue_up_to"}
InSeq(x, s) == \E i \in DOMAIN s : s[i] = x

(* Every done callback is called at most once, and never one that was      *)
(* moved away: the attempt's, Cancel's, CloseAndCancel's and FlushUnlocked's *)
(* copies of it race.                                                      *)
DoneOnce ==
    /\ \A o \in Ops : op[o].called <= 1
    /\ \A t \in Threads : \A i \in DOMAIN thr[t].todo : thr[t].todo[i].callback # "null"

(* Nobody is about to look at the attempts. *)
Quiet == mu = NoThread /\ \A t \in Threads : thr[t].pc # "outside"

(* No lost wake-up: when no thread is going to flush, the attempts at the  *)
(* front of both queues are live ones that cannot make progress.           *)
NoMissedWakeup ==
    Quiet => \A action \in {"enqueue", "dequeue"} :
                Attempts(action) # <<>> =>
                   /\ ~op[Head(Attempts(action))].is_cancelled
                   /\ run_callback(Head(Attempts(action))).result = "kNoProgress"

(* The slices a consumer has taken out of the queue: one that fails gives  *)
(* back what it had collected, one that is cancelled, or cannot copy an    *)
(* element, does not.                                                      *)
Taken(o) == IF Started(o) /\ Consumer(o)
               /\ op[o].status \in {"OK", "CANCELLED", "UNIMPLEMENTED"}
            THEN op[o].tuple ELSE <<>>

(* How many elements operation o has put into the queue. *)
PutBy(o) == CASE ~Started(o) -> 0
              [] Started(o) /\ Kind(o) = "enqueue" ->
                    IF op[o].status = "OK" /\ ~InSeq(o, enqueue_attempts) THEN 1 ELSE 0
              [] Started(o) /\ Kind(o) = "enqueue_many" -> op[o].call.n - op[o].elements_requested
              [] OTHER -> 0

(* Where element e is, in its first component: <<{}, i>> is position i of  *)
(* the queue, <<{p}, i>> slice i that operation p has taken.               *)
Places(e) ==
    {<<{}, i>> : i \in {k \in DOMAIN queues[1] : queues[1][k] = e}}
    \cup UNION {{<<{p}, i>> : i \in {k \in DOMAIN Taken(p) : Taken(p)[k][1] = e}} : p \in Ops}

(* An element could not be restored to the queue, or not be copied into    *)
(* all components of it.                                                   *)
Damages(o) ==
    \/ op[o].status = "DATA_LOSS"
    \/ Components > 1 /\ op[o].status = "RESOURCE_EXHAUSTED" /\ Kind(o) = "enqueue_many"

(* Nothing is lost or duplicated between the queue and partly filled,      *)
(* failed, restored and complete batches: an element is in one place from  *)
(* the moment it is put into the queue, unless one was damaged.  A batch   *)
(* that is cancelled, or whose copy fails, is such a place: its elements   *)
(* are lost to the others and are not seen twice.                          *)
ElementsConserved ==
    (\A o \in Ops : ~Damages(o)) =>
       \A o \in Ops : \A i \in 1 .. (IF Started(o) THEN op[o].call.n ELSE 0) :
          Kind(o) \in {"enqueue", "enqueue_many"} =>
             Cardinality(Places(<<o, i>>)) = IF i <= PutBy(o) THEN 1 ELSE 0

(* An operation that completes without error did all it was asked for, a   *)
(* failed one delivers no elements, and an enqueue called after Close puts *)
(* nothing into the queue (queue_interface.h:69), even while that Close    *)
(* is waiting behind a blocked enqueue.                                    *)
AllOrNothing ==
    /\ \A t \in Threads : \A i \in DOMAIN thr[t].todo :
          LET o == thr[t].todo[i].op IN
          /\ (thr[t].todo[i].callback = "tuple") = (Consumer(o) /\ op[o].status = "OK")
          /\ op[o].status = "OK" /\ Consumer(o) /\ Kind(o) # "dequeue_up_to"
                => Len(op[o].tuple) = op[o].call.n
          /\ op[o].status = "OK" /\ Kind(o) = "enqueue_many" => PutBy(o) = op[o].call.n
    /\ \A o \in Ops : Started(o) /\ op[o].late => PutBy(o) = 0

(* The queue is a FIFO channel that can be closed (QueueChannel).  What    *)
(* the DequeueMany at the front has collected is still in the channel.     *)
Held == IF dequeue_attempts # <<>> /\ ~op[Head(dequeue_attempts)].is_cancelled
        THEN op[Head(dequeue_attempts)].tuple ELSE <<>>
FirstComponent(t) == [i \in DOMAIN t |-> t[i][1]]
Queued == FirstComponent(Held) \o queues[1]
Got == [o \in Ops |-> IF Started(o) /\ Consumer(o) /\ op[o].status = "OK"
                         /\ ~InSeq(o, dequeue_attempts)
                      THEN FirstComponent(op[o].tuple) ELSE <<>>]
Channel == INSTANCE QueueChannel WITH items <- Queued, got <- Got, Consumers <- Ops
ImplementsChannel == Channel!Spec
=============================================================================
