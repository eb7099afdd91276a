--------------------------- MODULE FIFOQueueProofs ---------------------------
(***************************************************************************)
(* What FIFOQueue keeps, for any number of operations, managers and        *)
(* components and any capacity: a done callback is called once, no wake-up *)
(* is lost, an operation succeeds as a whole or fails, and no element is   *)
(* lost or duplicated; and FIFOQueue implements QueueChannel.              *)
(*                                                                         *)
(* The parts of the invariant take the state as arguments, so that they    *)
(* can also be stated of what an action has computed on its way.           *)
(***************************************************************************)
EXTENDS FIFOQueue, FiniteSetTheorems, SequenceTheorems, WellFoundedInduction, TLAPS

Item == Elements \cup {Garbage}
Producing == {"enqueue", "enqueue_many", "close"}
Consuming == {"dequeue", "dequeue_many", "dequeue_up_to"}
Closing == {"close", "close_cancel"}
Entry == [op : Ops, callback : {"null", "empty", "tuple"}]

(* The attempts s are different operations of these kinds.                 *)
AttemptsOK(s, kinds, x) ==
    /\ \A i, j \in 1 .. Len(s) : s[i] = s[j] => i = j
    /\ \A i \in 1 .. Len(s) : x[s[i]].call \in Call /\ x[s[i]].call.kind \in kinds

(* A live attempt: its callback has not been moved, and how far it is.     *)
Waiting(a) ==
    /\ a.done_callback = "empty" /\ a.called = 0
    /\ a.call.kind # "dequeue_up_to" => a.status = "OK"
    /\ a.call.kind = "enqueue_many" => a.elements_requested <= a.call.n
    /\ a.call.kind = "dequeue_many" => Len(a.tuple) + a.elements_requested = a.call.n

WaitingInv(s, x) == \A i \in 1 .. Len(s) : ~x[s[i]].is_cancelled => Waiting(x[s[i]])

(* An operation a that is over, whose callback c is still to be called.    *)
Finished(c, a) ==
    /\ c = "tuple" <=> a.call.kind \in Consuming /\ a.status = "OK"
    /\ a.status = "OK" /\ a.call.kind \in {"dequeue", "dequeue_many"} => Len(a.tuple) = a.call.n
    /\ a.status = "OK" /\ a.call.kind = "enqueue_many" => a.elements_requested = 0

EntryOK(e, a) ==
    /\ e.callback # "null"
    /\ a.done_callback = "null" /\ a.called = 0
    /\ a.call \in Call /\ a.call.kind # "close_cancel"
    /\ Finished(e.callback, a)

(* A callback that was moved is in one list only.                          *)
TodoOK(y, x) ==
    /\ \A t \in Threads : \A i \in 1 .. Len(y[t].todo) : EntryOK(y[t].todo[i], x[y[t].todo[i].op])
    /\ \A t, u \in Threads : \A i \in 1 .. Len(y[t].todo), j \in 1 .. Len(y[u].todo) :
          y[t].todo[i].op = y[u].todo[j].op => t = u /\ i = j

(* An operation a, and the state pc of the thread that called it.          *)
OperationOK(a, pc) ==
    /\ a.called <= 1
    /\ a.call = <<>> => a.called = 0 /\ ~a.late /\ pc = "idle"
    /\ a.call # <<>> /\ a.call.kind = "close_cancel" /\ pc # "returned" => a.called = 0
    /\ a.is_cancelled => a.done_callback = "null"

CallbackInv ==
    /\ AttemptsOK(enqueue_attempts, Producing, op)
    /\ AttemptsOK(dequeue_attempts, Consuming, op)
    /\ WaitingInv(enqueue_attempts, op) /\ WaitingInv(dequeue_attempts, op)
    /\ TodoOK(thr, op)
    /\ \A o \in Ops : OperationOK(op[o], thr[<<o, "call">>].pc)

-----------------------------------------------------------------------------
(* The attempt at the front of s can do nothing.                           *)
Settled(action) ==
    LET s == Attempts(action) IN
    s # <<>> => ~op[Head(s)].is_cancelled /\ run_callback(Head(s)).result = "kNoProgress"

(* Whoever may have changed something is going to flush.  In the second    *)
(* half of a round without a change the first half still holds.            *)
FlushInv ==
    /\ mu = NoThread => \/ \E t \in Threads : thr[t].pc = "outside"
                        \/ Settled("enqueue") /\ Settled("dequeue")
    /\ mu # NoThread /\ thr[mu].pc = "dequeue" /\ ~thr[mu].changed => Settled("enqueue")
    /\ \A t \in Threads : thr[t].pc \in {"enqueue", "dequeue"} <=> mu = t

-----------------------------------------------------------------------------
(* A Close that waits at index i of the attempts s.                        *)
ClosesAt(s, i, x) == x[s[i]].call.kind = "close" /\ ~x[s[i]].is_cancelled

(* A Close has closed the queue or waits, in front of what came later.     *)
LateOK(s, x) ==
    /\ (\E o \in Ops : x[o].call # <<>> /\ x[o].call.kind \in Closing) =>
          \E j \in 1 .. Len(s) : ClosesAt(s, j, x)
    /\ \A i \in 1 .. Len(s) : x[s[i]].late => \E j \in 1 .. i - 1 : ClosesAt(s, j, x)

(* What comes after a Close puts nothing into the queue, and a cancelled   *)
(* operation has failed.                                                   *)
NothingPut(a, waits) ==
    /\ a.late /\ a.call.kind = "enqueue" /\ a.status = "OK" => waits
    /\ a.late /\ a.call.kind = "enqueue_many" => a.elements_requested = a.call.n
    /\ a.is_cancelled => a.status # "OK"

LateInv ==
    /\ ~closed => LateOK(enqueue_attempts, op)
    /\ \A o \in Ops : NothingPut(op[o], InSeq(o, enqueue_attempts))
    /\ \A o \in Ops : cb[o] \in {"registered", "to_run"} => op[o].call # <<>>

QueueInv == CallbackInv /\ FlushInv /\ LateInv

-----------------------------------------------------------------------------
(* Sequences.                                                              *)

LEMMA MakeSeq ==
    ASSUME NEW n \in Nat, NEW S, NEW f \in [1 .. n -> S]
    PROVE  f \in Seq(S) /\ Len(f) = n
  <1>1. f = [i \in 1 .. n |-> f[i]]
    OBVIOUS
  <1>2. \A i \in 1 .. n : f[i] \in S
    OBVIOUS
  <1>3. [i \in 1 .. n |-> f[i]] \in Seq(S)
    BY <1>2, IsASeq
  <1>4. f \in Seq(S)
    BY <1>1, <1>3
  <1>5. DOMAIN f = 1 .. Len(f) /\ DOMAIN f = 1 .. n /\ Len(f) \in Nat
    BY <1>4, LenProperties
  <1> QED BY <1>4, <1>5

LEMMA FrontAndRest ==
    ASSUME NEW S, NEW s \in Seq(S), s # <<>>
    PROVE  /\ Len(s) \in Nat \ {0} /\ Head(s) = s[1] /\ Head(s) \in S
           /\ Tail(s) \in Seq(S) /\ Len(Tail(s)) = Len(s) - 1
           /\ \A i \in 1 .. Len(s) - 1 : i + 1 \in 1 .. Len(s) /\ Tail(s)[i] = s[i + 1]
  <1>1. Len(s) \in Nat \ {0}
    BY EmptySeq, LenProperties
  <1>2. /\ Head(s) \in S /\ Tail(s) \in Seq(S) /\ Len(Tail(s)) = Len(s) - 1
        /\ \A i \in 1 .. Len(Tail(s)) : Tail(s)[i] = s[i + 1]
    BY HeadTailProperties
  <1> QED BY <1>1, <1>2

LEMMA AppendOne ==
    ASSUME NEW S, NEW s \in Seq(S), NEW e \in S
    PROVE  /\ Append(s, e) \in Seq(S) /\ Len(s) \in Nat /\ Len(Append(s, e)) = Len(s) + 1
           /\ \A i \in 1 .. Len(s) + 1 : Append(s, e)[i] = IF i <= Len(s) THEN s[i] ELSE e
  <1>1. Len(s) \in Nat
    BY LenProperties
  <1> QED BY <1>1, AppendProperties

(* A finite set of numbers has an ascending sequence.                      *)
LEMMA AscendingExists ==
    ASSUME NEW n \in Nat, NEW S \in SUBSET (1 .. n)
    PROVE  /\ IsFiniteSet(S) /\ Cardinality(S) \in Nat
           /\ Ascending(S) \in [1 .. Cardinality(S) -> S]
           /\ \A i, j \in 1 .. Cardinality(S) : i < j => Ascending(S)[i] < Ascending(S)[j]
  <1> DEFINE Good(T, f) == /\ f \in [1 .. Cardinality(T) -> T]
                           /\ \A i, j \in 1 .. Cardinality(T) : i < j => f[i] < f[j]
             Bad == {m \in Nat : \E T \in SUBSET (1 .. m) : ~\E f : Good(T, f)}
             Less == OpToRel(<, Nat)
  <1>1. \A m \in Nat : \A T \in SUBSET (1 .. m) : IsFiniteSet(T) /\ Cardinality(T) \in Nat
    <2>1. \A m \in Nat : IsFiniteSet(1 .. m)
      BY FS_Interval
    <2> QED BY <2>1, FS_Subset, FS_CardinalityType
  <1>2. Bad = {}
    <2>1. SUFFICES ASSUME Bad # {} PROVE FALSE
      OBVIOUS
    <2>2. PICK m \in Bad : \A k \in Bad : ~(<<k, m>> \in Less)
      <3>1. Bad \subseteq Nat /\ IsWellFoundedOn(Less, Nat)
        BY NatLessThanWellFounded
      <3> HIDE DEF Bad, Less
      <3> QED BY <2>1, <3>1, WFMin
    <2>3. m \in Nat /\ \A k \in Nat : k < m => k \notin Bad
      BY <2>2 DEF OpToRel
    <2>4. PICK T \in SUBSET (1 .. m) : ~\E f : Good(T, f)
      BY <2>2
    <2>5. IsFiniteSet(T) /\ Cardinality(T) \in Nat
      BY <1>1, <2>3
    <2>6. ASSUME NEW U \in SUBSET (1 .. m - 1), m > 0 PROVE \E f : Good(U, f)
      <3>1. m - 1 \in Nat /\ m - 1 < m
        BY <2>3, <2>6
      <3>2. m - 1 \notin Bad
        BY <2>3, <3>1
      <3> QED BY <2>6, <3>1, <3>2
    <2>7. CASE m \notin T
      <3>1. CASE T = {}
        <4>1. Cardinality(T) = 0
          BY <3>1, FS_EmptySet
        <4>2. Good(T, [i \in 1 .. 0 |-> 0])
          BY <4>1
        <4> QED BY <2>4, <4>2
      <3>2. CASE T # {}
        <4>0. \A x \in T : x \in 1 .. m /\ x # m
          BY <2>4, <2>7
        <4>1. m > 0 /\ T \in SUBSET (1 .. m - 1)
          <5>1. m \in Nat
            BY <2>3
          <5>2. \A x \in T : m > 0 /\ x \in 1 .. m - 1
            BY <4>0, <5>1
          <5> QED BY <3>2, <5>2
        <4> QED BY <2>4, <2>6, <4>1
      <3> QED BY <3>1, <3>2
    <2>8. CASE m \in T
      <3> DEFINE U == T \ {m}
                 c == Cardinality(U)
      <3>1. m > 0 /\ U \in SUBSET (1 .. m - 1)
        BY <2>3, <2>8
      <3>2. PICK g : Good(U, g)
        BY <2>6, <3>1
      <3>3. c \in Nat /\ Cardinality(T) = c + 1
        <4>1. IsFiniteSet(U) /\ Cardinality(U) = Cardinality(T) - 1
          BY <2>5, <2>8, FS_RemoveElement
        <4>2. Cardinality(U) \in Nat
          BY <4>1, FS_CardinalityType
        <4> QED BY <2>5, <4>1, <4>2
      <3> DEFINE f == [i \in 1 .. c + 1 |-> IF i = c + 1 THEN m ELSE g[i]]
      <3>4. g \in [1 .. c -> U] /\ \A i, j \in 1 .. c : i < j => g[i] < g[j]
        BY <3>2
      <3>5. \A i \in 1 .. c : g[i] \in T /\ g[i] \in 1 .. m - 1
        BY <3>1, <3>4
      <3> HIDE DEF U, c
      <3>6. f \in [1 .. c + 1 -> T]
        BY <2>8, <3>3, <3>5
      <3>7. ASSUME NEW i \in 1 .. c + 1, NEW j \in 1 .. c + 1, i < j PROVE f[i] < f[j]
        <4>1. i \in 1 .. c /\ f[i] = g[i] /\ g[i] < m
          BY <2>3, <3>3, <3>5, <3>7
        <4>2. CASE j = c + 1
          BY <4>1, <4>2
        <4>3. CASE j # c + 1
          BY <3>3, <3>4, <3>7, <4>1, <4>3
        <4> QED BY <4>2, <4>3
      <3>8. Good(T, f)
        BY <3>3, <3>6, <3>7
      <3> QED BY <2>4, <3>8
    <2> QED BY <2>7, <2>8
  <1>3. \E f : Good(S, f)
    BY <1>2
  <1> QED BY <1>1, <1>3 DEF Ascending

(* CloseAndCancel takes every live attempt, once.                          *)
LEMMA ToCancelIs ==
    ASSUME enqueue_attempts \in Seq(Ops)
    PROVE  /\ Len(ToCancel) \in Nat /\ DOMAIN ToCancel = 1 .. Len(ToCancel)
           /\ \A k \in 1 .. Len(ToCancel) : \E i \in 1 .. Len(enqueue_attempts) :
                 ToCancel[k] = enqueue_attempts[i] /\ ~op[ToCancel[k]].is_cancelled
           /\ (\A i, j \in 1 .. Len(enqueue_attempts) :
                  enqueue_attempts[i] = enqueue_attempts[j] => i = j) =>
                 \A k, l \in 1 .. Len(ToCancel) : ToCancel[k] = ToCancel[l] => k = l
  <1> DEFINE n == Len(enqueue_attempts)
             live == {i \in 1 .. n : ~op[enqueue_attempts[i]].is_cancelled}
             c == Cardinality(live)
             f == Ascending(live)
  <1>1. n \in Nat /\ DOMAIN enqueue_attempts = 1 .. n
        /\ \A i \in 1 .. n : enqueue_attempts[i] \in Ops
    BY LenProperties, ElementOfSeq
  <1>2. c \in Nat /\ f \in [1 .. c -> live] /\ \A i, j \in 1 .. c : i < j => f[i] < f[j]
    BY <1>1, AscendingExists
  <1>3. ToCancel = [k \in 1 .. c |-> enqueue_attempts[f[k]]]
    BY <1>1 DEF ToCancel
  <1> HIDE DEF f, c, n
  <1>4. \A k \in 1 .. c : f[k] \in 1 .. n /\ ToCancel[k] = enqueue_attempts[f[k]]
                          /\ ~op[ToCancel[k]].is_cancelled /\ ToCancel[k] \in Ops
    BY <1>1, <1>2, <1>3
  <1>5. ToCancel \in [1 .. c -> Ops]
    BY <1>3, <1>4
  <1>6. Len(ToCancel) = c
    BY <1>2, <1>5, MakeSeq
  <1>7. ASSUME \A i, j \in 1 .. n : enqueue_attempts[i] = enqueue_attempts[j] => i = j,
               NEW k \in 1 .. c, NEW l \in 1 .. c, ToCancel[k] = ToCancel[l]
        PROVE  k = l
    <2>1. f[k] = f[l] /\ f[k] \in Nat
      BY <1>1, <1>4, <1>7
    <2> QED BY <1>2, <2>1
  <1> QED BY <1>2, <1>4, <1>5, <1>6, <1>7 DEF n

-----------------------------------------------------------------------------
(* The queues and the run callbacks.                                       *)

Queues == [1 .. Components -> Seq(Item)]

LEMMA QueueOps ==
    ASSUME NEW q \in Queues, NEW n \in Nat
    PROVE  /\ Rest(q, n) \in Queues
           /\ Oldest(q, n) \in Seq(Slice) /\ Len(Oldest(q, n)) = n
           /\ \A s \in Seq(Item) : push_back(q, s) \in Queues
           /\ push_back(q, <<>>) = q
           /\ \A t \in Seq(Slice) : push_front(q, t) \in Queues
  <1>1. \A c \in 1 .. Components : /\ q[c] \in Seq(Item) /\ Len(q[c]) \in Nat
                                   /\ \A i \in 1 .. Len(q[c]) : q[c][i] \in Item
    BY LenProperties, ElementOfSeq DEF Queues
  <1>2. ASSUME NEW c \in 1 .. Components PROVE SubSeq(q[c], n + 1, Len(q[c])) \in Seq(Item)
    <2>1. \A i \in n + 1 .. Len(q[c]) : q[c][i] \in Item
      BY <1>1
    <2>2. n + 1 \in Int /\ Len(q[c]) \in Int
      BY <1>1
    <2> QED BY <2>1, <2>2, SubSeqProperties
  <1>3. Oldest(q, n) \in [1 .. n -> Slice]
    <2>1. ASSUME NEW i \in 1 .. n, NEW c \in 1 .. Components
          PROVE  (IF i <= Len(q[c]) THEN q[c][i] ELSE Garbage) \in Item
      BY <1>1 DEF Item
    <2> QED BY <2>1 DEF Oldest, Slice, Item
  <1>4. ASSUME NEW s \in Seq(Item) PROVE push_back(q, s) \in Queues
    <2>1. \A c \in 1 .. Components : q[c] \o s \in Seq(Item)
      BY <1>1, ConcatProperties
    <2> QED BY <2>1 DEF push_back, Queues
  <1>5. push_back(q, <<>>) = q
    <2>1. \A c \in 1 .. Components : q[c] \o <<>> = q[c]
      BY <1>1, ConcatEmptySeq
    <2> QED BY <2>1 DEF push_back, Queues
  <1>6. ASSUME NEW t \in Seq(Slice) PROVE push_front(q, t) \in Queues
    <2>1. Len(t) \in Nat /\ \A i \in 1 .. Len(t) : t[i] \in Slice
      BY LenProperties, ElementOfSeq
    <2>2. ASSUME NEW c \in 1 .. Components
          PROVE  [i \in 1 .. Len(t) |-> t[i][c]] \o q[c] \in Seq(Item)
      <3>1. [i \in 1 .. Len(t) |-> t[i][c]] \in [1 .. Len(t) -> Item]
        BY <2>1 DEF Slice, Item
      <3>2. [i \in 1 .. Len(t) |-> t[i][c]] \in Seq(Item)
        BY <2>1, <3>1, MakeSeq
      <3> QED BY <1>1, <3>2, ConcatProperties
    <2> QED BY <2>2 DEF push_front, Queues
  <1> QED BY <1>2, <1>3, <1>4, <1>5, <1>6, MakeSeq DEF Rest, Queues

LEMMA SlicesIs ==
    ASSUME NEW o \in Ops, NEW i \in Nat, NEW n \in Nat
    PROVE  /\ Slices(o, i, i + n - 1) \in Seq(Item)
           /\ n = 0 => Slices(o, i, i + n - 1) = <<>>
  <1>1. Slices(o, i, i + n - 1) = [k \in 1 .. n |-> <<o, i + k - 1>>]
    <2>1. (i + n - 1) - i + 1 = n
      OBVIOUS
    <2> QED BY <2>1 DEF Slices
  <1>2. [k \in 1 .. n |-> <<o, i + k - 1>>] \in [1 .. n -> Item]
    <2>1. \A k \in 1 .. n : i + k - 1 \in Nat
      OBVIOUS
    <2> QED BY <2>1 DEF Item, Elements
  <1>3. Slices(o, i, i + n - 1) \in Seq(Item) /\ Len(Slices(o, i, i + n - 1)) = n
    BY <1>1, <1>2, MakeSeq
  <1> QED BY <1>3, EmptySeq

(* What an attempt keeps when its callback runs.                           *)
SameCall(b, a) ==
    /\ b.call = a.call /\ b.called = a.called /\ b.late = a.late
    /\ b.is_cancelled = a.is_cancelled /\ b.token = a.token

(* The run callback makes of the live attempt a the attempt b, with this   *)
(* result, queues_ and closed_.                                            *)
RunIs(result, q, cl, b, a) ==
    /\ result \in {"kComplete", "kProgress", "kNoProgress"}
    /\ q \in Queues /\ cl \in BOOLEAN /\ b \in Operation
    /\ SameCall(b, a)
    /\ a.call.kind = "close" => cl /\ result = "kComplete"
    /\ a.call.kind # "close" => cl = closed
    /\ result = "kNoProgress" => q = queues /\ cl = closed /\ b = a
    /\ result # "kComplete" => Waiting(b)
    /\ result = "kComplete" => b.done_callback # "null" /\ Finished(b.done_callback, b)
    /\ closed => /\ a.call.kind = "enqueue" => b.status # "OK"
                 /\ a.call.kind = "enqueue_many" => b.elements_requested = a.elements_requested

RunOK(r, a) == RunIs(r.result, r.queues, r.closed, r.attempt, a)

LEMMA SetStatusIs ==
    ASSUME NEW a \in Operation, NEW s \in Statuses
    PROVE  /\ SetStatus(a, s) \in Operation /\ SameCall(SetStatus(a, s), a)
           /\ SetStatus(a, s).tuple = a.tuple
           /\ SetStatus(a, s).elements_requested = a.elements_requested
           /\ SetStatus(a, s).done_callback = a.done_callback
           /\ SetStatus(a, s).status = IF a.status = "OK" THEN s ELSE a.status
  BY DEF SetStatus, Operation, SameCall

LEMMA RanIs ==
    ASSUME NEW result, NEW q, NEW cl, NEW b, NEW a, RunIs(result, q, cl, b, a)
    PROVE  RunOK(Ran(result, q, cl, b), a)
  <1> DEFINE r == Ran(result, q, cl, b)
  <1>1. r.result = result /\ r.queues = q /\ r.closed = cl /\ r.attempt = b
    BY DEF Ran
  <1> HIDE DEF r
  <1>2. RunIs(r.result, r.queues, r.closed, r.attempt, a)
    BY <1>1
  <1> QED BY <1>2 DEF r, RunOK

(* A closed queue ends a producer with an error.                           *)
LEMMA RunCancelled ==
    ASSUME closed = TRUE, queues \in Queues, NEW a \in Operation, a.call \in Call,
           a.call.kind \in Producing, Waiting(a)
    PROVE  RunOK(Ran("kComplete", queues, closed, SetStatus(a, "CANCELLED")), a)
  <1> DEFINE b == SetStatus(a, "CANCELLED")
  <1>1. /\ b \in Operation /\ SameCall(b, a) /\ b.done_callback = "empty"
        /\ b.status = "CANCELLED" /\ b.elements_requested = a.elements_requested
    BY SetStatusIs DEF Statuses, Waiting, Producing
  <1> HIDE DEF b
  <1>2. Finished(b.done_callback, b)
    BY <1>1 DEF Finished
  <1>3. RunIs("kComplete", queues, closed, b, a)
    BY <1>1, <1>2 DEF RunIs
  <1> QED BY <1>3, RanIs DEF b

LEMMA RunCloseOK ==
    ASSUME closed \in BOOLEAN, queues \in Queues, NEW a \in Operation, a.call \in Call,
           a.call.kind = "close", Waiting(a)
    PROVE  RunOK(RunClose(a), a)
  <1>1. CASE closed = TRUE
    BY <1>1, RunCancelled DEF RunClose, Producing
  <1>2. CASE closed = FALSE
    <2>1. RunClose(a) = Ran("kComplete", queues, TRUE, a)
      BY <1>2 DEF RunClose
    <2>2. RunIs("kComplete", queues, TRUE, a, a)
      BY <1>2 DEF RunIs, Finished, Consuming, SameCall, Waiting
    <2> QED BY <2>1, <2>2, RanIs
  <1> QED BY <1>1, <1>2

LEMMA RunEnqueueOK ==
    ASSUME closed \in BOOLEAN, queues \in Queues, NEW o \in Ops, NEW a \in Operation,
           a.call \in Call, a.call.kind = "enqueue", Waiting(a)
    PROVE  RunOK(RunEnqueue(o, a), a)
  <1>1. CASE closed = TRUE
    BY <1>1, RunCancelled DEF RunEnqueue, Producing
  <1>2. CASE closed = FALSE /\ Room > 0
    <2>1. RunEnqueue(o, a) = Ran("kComplete", push_back(queues, <<<<o, 1>>>>), closed, a)
      BY <1>2 DEF RunEnqueue
    <2>2. <<<<o, 1>>>> \in Seq(Item)
      BY DEF Item, Elements
    <2>3. push_back(queues, <<<<o, 1>>>>) \in Queues
      BY <2>2, QueueOps
    <2>4. RunIs("kComplete", push_back(queues, <<<<o, 1>>>>), closed, a, a)
      BY <1>2, <2>3 DEF RunIs, Finished, Consuming, SameCall, Waiting
    <2> QED BY <2>1, <2>4, RanIs
  <1>3. CASE closed = FALSE /\ ~(Room > 0)
    <2>1. RunEnqueue(o, a) = Ran("kNoProgress", queues, closed, a)
      BY <1>3 DEF RunEnqueue
    <2>2. RunIs("kNoProgress", queues, closed, a, a)
      BY <1>3 DEF RunIs, SameCall
    <2> QED BY <2>1, <2>2, RanIs
  <1> QED BY <1>1, <1>2, <1>3

LEMMA RoomIs == ASSUME queues \in Queues PROVE Room \in Nat
  <1>1. 1 \in 1 .. Components
    BY QueueAssumption
  <1>2. queues[1] \in Seq(Item)
    BY <1>1 DEF Queues
  <1>3. Len(queues[1]) \in Nat
    BY <1>2, LenProperties
  <1> QED BY <1>3, QueueAssumption DEF Room

LEMMA LeastIs ==
    ASSUME NEW m \in Nat, NEW n \in Nat
    PROVE  /\ Least(m, n) \in Nat /\ Least(m, n) <= m /\ Least(m, n) <= n
           /\ Least(m, n) = m \/ Least(m, n) = n
  BY DEF Least

LEMMA RunEnqueueManyOK ==
    ASSUME closed \in BOOLEAN, queues \in Queues, NEW o \in Ops, NEW a \in Operation,
           a.call \in Call, a.call.kind = "enqueue_many", Waiting(a)
    PROVE  RunOK(RunEnqueueMany(o, a), a)
  <1> DEFINE first == a.call.n - a.elements_requested + 1
             k     == Least(Room, a.elements_requested)
             good  == IF a.call.fail \in first .. first + k - 1 THEN a.call.fail - first ELSE k
             full  == push_back(queues, Slices(o, first, first + good - 1))
             left  == [a EXCEPT !.elements_requested = @ - good]
             fails == [c \in 1 .. Components |->
                          IF c < Components THEN Append(full[c], <<o, first + good>>) ELSE full[c]]
             last  == SetStatus(left, "RESOURCE_EXHAUSTED")
             done  == IF k = a.elements_requested THEN "kComplete"
                      ELSE IF k > 0 THEN "kProgress" ELSE "kNoProgress"
  <1>1. /\ a.call.n \in Nat /\ a.call.fail \in Nat /\ a.elements_requested \in Nat
        /\ a.elements_requested <= a.call.n /\ a.done_callback = "empty" /\ a.status = "OK"
    BY DEF Operation, Call, Waiting
  <1>2. k \in Nat /\ k <= a.elements_requested
    BY <1>1, RoomIs, LeastIs
  <1>3. first \in Nat
    BY <1>1
  <1>4. RunEnqueueMany(o, a) =
           IF closed THEN Ran("kComplete", queues, closed, SetStatus(a, "CANCELLED"))
           ELSE IF good < k THEN Ran("kComplete", fails, closed, last)
           ELSE Ran(done, full, closed, left)
    BY DEF RunEnqueueMany
  <1>5. good \in Nat /\ good <= k
    <2> HIDE DEF k, first
    <2> QED BY <1>1, <1>2, <1>3
  <1> HIDE DEF good, k, first
  <1>6. full \in Queues /\ (good = 0 => full = queues)
    BY <1>3, <1>5, SlicesIs, QueueOps
  <1>7. /\ left \in Operation /\ SameCall(left, a)
        /\ left.elements_requested = a.elements_requested - good
        /\ left.done_callback = a.done_callback /\ left.status = a.status
    BY <1>1, <1>2, <1>5 DEF Operation, SameCall
  <1>8. good = 0 => left = a
    BY <1>1 DEF Operation
  <1> HIDE DEF left
  <1>9. CASE closed = TRUE
    BY <1>4, <1>9, RunCancelled DEF Producing
  <1>10. CASE closed = FALSE /\ good < k
    <2>1. fails \in Queues
      <3>1. <<o, first + good>> \in Item
        BY <1>3, <1>5 DEF Item, Elements
      <3>2. \A c \in 1 .. Components : full[c] \in Seq(Item)
        BY <1>6 DEF Queues
      <3> HIDE DEF full
      <3>3. \A c \in 1 .. Components : Append(full[c], <<o, first + good>>) \in Seq(Item)
        BY <3>1, <3>2, AppendOne
      <3> QED BY <3>2, <3>3 DEF Queues
    <2>2. /\ last \in Operation /\ SameCall(last, left) /\ last.done_callback = "empty"
          /\ last.status = "RESOURCE_EXHAUSTED"
      BY <1>1, <1>7, SetStatusIs DEF Statuses
    <2> HIDE DEF fails, last
    <2>3. SameCall(last, a)
      BY <1>7, <2>2 DEF SameCall
    <2>4. Finished(last.done_callback, last)
      BY <2>2 DEF Finished
    <2>5. RunIs("kComplete", fails, closed, last, a)
      BY <1>10, <2>1, <2>2, <2>3, <2>4 DEF RunIs
    <2>6. RunEnqueueMany(o, a) = Ran("kComplete", fails, closed, last)
      BY <1>4, <1>10
    <2> QED BY <2>5, <2>6, RanIs
  <1>11. CASE closed = FALSE /\ good = k
    <2> HIDE DEF full
    <2>1. CASE k = a.elements_requested
      <3>1. Finished(left.done_callback, left)
        BY <1>1, <1>7, <1>11, <2>1 DEF Finished, Consuming, SameCall
      <3>2. RunIs("kComplete", full, closed, left, a)
        BY <1>1, <1>6, <1>7, <1>11, <3>1 DEF RunIs
      <3>3. RunEnqueueMany(o, a) = Ran("kComplete", full, closed, left)
        BY <1>2, <1>4, <1>11, <2>1
      <3> QED BY <3>2, <3>3, RanIs
    <2>2. CASE k # a.elements_requested /\ k > 0
      <3>1. Waiting(left)
        BY <1>1, <1>2, <1>7, <1>11 DEF Waiting, SameCall
      <3>2. RunIs("kProgress", full, closed, left, a)
        BY <1>1, <1>6, <1>7, <1>11, <3>1 DEF RunIs
      <3>3. RunEnqueueMany(o, a) = Ran("kProgress", full, closed, left)
        BY <1>2, <1>4, <1>11, <2>2
      <3> QED BY <3>2, <3>3, RanIs
    <2>3. CASE k # a.elements_requested /\ k = 0
      <3>1. left = a /\ full = queues
        BY <1>6, <1>8, <1>11, <2>3
      <3>2. RunIs("kNoProgress", full, closed, left, a)
        BY <1>7, <1>11, <3>1 DEF RunIs
      <3>3. RunEnqueueMany(o, a) = Ran("kNoProgress", full, closed, left)
        BY <1>2, <1>4, <1>11, <2>3
      <3> QED BY <3>2, <3>3, RanIs
    <2> QED BY <1>2, <2>1, <2>2, <2>3
  <1>12. good < k \/ good = k
    BY <1>2, <1>5
  <1> QED BY <1>9, <1>10, <1>11, <1>12

LEMMA RunDequeueOK ==
    ASSUME closed \in BOOLEAN, queues \in Queues, NEW a \in Operation, a.call \in Call,
           a.call.kind = "dequeue", a.call.n = 1, Waiting(a)
    PROVE  RunOK(RunDequeue(a), a)
  <1>1. CASE queues[1] # <<>>
    <2> DEFINE b == [a EXCEPT !.tuple = Oldest(queues, 1), !.done_callback = "tuple"]
    <2>1. /\ Rest(queues, 1) \in Queues
          /\ Oldest(queues, 1) \in Seq(Slice) /\ Len(Oldest(queues, 1)) = 1
      BY QueueOps
    <2>2. /\ b \in Operation /\ SameCall(b, a) /\ b.tuple = Oldest(queues, 1)
          /\ b.done_callback = "tuple" /\ b.status = a.status
      BY <2>1 DEF Operation, SameCall
    <2>3. RunDequeue(a) = Ran("kComplete", Rest(queues, 1), closed, b)
      BY <1>1 DEF RunDequeue
    <2> HIDE DEF b
    <2>4. Finished(b.done_callback, b)
      BY <2>1, <2>2 DEF Finished, Consuming, SameCall, Waiting
    <2>5. RunIs("kComplete", Rest(queues, 1), closed, b, a)
      BY <2>1, <2>2, <2>4 DEF RunIs
    <2> QED BY <2>3, <2>5, RanIs
  <1>2. CASE queues[1] = <<>> /\ closed = TRUE
    <2> DEFINE b == SetStatus(a, "OUT_OF_RANGE")
    <2>1. /\ b \in Operation /\ SameCall(b, a) /\ b.done_callback = "empty"
          /\ b.status = "OUT_OF_RANGE"
      BY SetStatusIs DEF Statuses, Waiting
    <2> HIDE DEF b
    <2>2. Finished(b.done_callback, b)
      BY <2>1 DEF Finished
    <2>3. RunIs("kComplete", queues, closed, b, a)
      BY <1>2, <2>1, <2>2 DEF RunIs
    <2>4. RunDequeue(a) = Ran("kComplete", queues, closed, b)
      BY <1>2 DEF RunDequeue, b
    <2> QED BY <2>3, <2>4, RanIs
  <1>3. CASE queues[1] = <<>> /\ closed = FALSE
    <2>1. RunIs("kNoProgress", queues, closed, a, a)
      BY <1>3 DEF RunIs, SameCall
    <2>2. RunDequeue(a) = Ran("kNoProgress", queues, closed, a)
      BY <1>3 DEF RunDequeue
    <2> QED BY <2>1, <2>2, RanIs
  <1> QED BY <1>1, <1>2, <1>3

(* The attempt whose next element cannot be copied to the batch.           *)
LEMMA CopyFails ==
    ASSUME NEW q \in Queues, NEW a \in Operation, a.status = "OK", NEW b,
           b = SetStatus([a EXCEPT !.tuple = @ \o Oldest(q, 1)], "UNIMPLEMENTED")
    PROVE  /\ Rest(q, 1) \in Queues /\ b \in Operation /\ SameCall(b, a)
           /\ b.tuple = a.tuple \o Oldest(q, 1) /\ b.tuple \in Seq(Slice)
           /\ b.done_callback = a.done_callback /\ b.status = "UNIMPLEMENTED"
  <1>1. 1 \in Nat /\ a.tuple \in Seq(Slice)
    BY DEF Operation
  <1>2. Rest(q, 1) \in Queues /\ Oldest(q, 1) \in Seq(Slice)
    BY <1>1, QueueOps
  <1>3. PICK t \in Seq(Slice) : t = a.tuple \o Oldest(q, 1)
    <2>1. a.tuple \o Oldest(q, 1) \in Seq(Slice)
      BY <1>1, <1>2, ConcatProperties, Zenon
    <2> QED BY <2>1
  <1>4. PICK d : d = [a EXCEPT !.tuple = t]
    OBVIOUS
  <1>5. /\ d \in Operation /\ SameCall(d, a) /\ d.tuple = t /\ d.status = "OK"
        /\ d.done_callback = a.done_callback
    BY <1>4 DEF Operation, SameCall
  <1>6. b = SetStatus(d, "UNIMPLEMENTED")
    BY <1>3, <1>4
  <1>7. "UNIMPLEMENTED" \in Statuses
    BY DEF Statuses
  <1>8. /\ b \in Operation /\ SameCall(b, d) /\ b.tuple = d.tuple
        /\ b.done_callback = d.done_callback /\ b.status = "UNIMPLEMENTED"
    BY <1>5, <1>6, <1>7, SetStatusIs
  <1> QED BY <1>2, <1>3, <1>5, <1>8 DEF SameCall

(* a is what TryDequeueMany's callback has made of the attempt a0.         *)
LEMMA CollectOK ==
    ASSUME closed \in BOOLEAN, NEW q \in Queues, NEW a0 \in Operation, NEW a \in Operation,
           a.call \in Call, a.call.kind \in {"dequeue_many", "dequeue_up_to"},
           Waiting(a), SameCall(a, a0),
           Least(Len(q[1]), a.elements_requested) = 0 => q = queues /\ a = a0
    PROVE  RunOK(Collect(q, a), a0)
  <1> DEFINE k    == Least(Len(q[1]), a.elements_requested)
             more == [a EXCEPT !.tuple = @ \o Oldest(q, k), !.elements_requested = @ - k]
             all  == [more EXCEPT !.done_callback = "tuple"]
             fail == SetStatus(a, "RESOURCE_EXHAUSTED")
             copy == SetStatus([a EXCEPT !.tuple = @ \o Oldest(q, 1)], "UNIMPLEMENTED")
  <1>1. a0.call = a.call /\ a.call.kind # "close" /\ a.call.kind \notin Producing
    BY DEF SameCall, Producing
  <1>2. k \in Nat /\ k <= a.elements_requested /\ a.elements_requested \in Nat
    <2>1. q[1] \in Seq(Item)
      BY QueueAssumption DEF Queues
    <2>2. Len(q[1]) \in Nat /\ a.elements_requested \in Nat
      BY <2>1, LenProperties DEF Operation
    <2> QED BY <2>2, LeastIs
  <1>3. Collect(q, a) =
           IF k = 0 THEN Ran("kNoProgress", q, closed, a)
           ELSE IF a.tuple = <<>> /\ a.call.fail = 1 THEN Ran("kComplete", q, closed, fail)
           ELSE IF a.status # "OK" THEN Ran("kComplete", q, closed, a)
           ELSE IF a.call.fail = 3 THEN Ran("kComplete", Rest(q, 1), closed, copy)
           ELSE IF k = a.elements_requested THEN Ran("kComplete", Rest(q, k), closed, all)
           ELSE Ran("kProgress", Rest(q, k), closed, more)
    BY DEF Collect
  <1>4. k = 0 => q = queues /\ a = a0
    OBVIOUS
  <1> HIDE DEF k, copy
  <1>5. /\ Rest(q, k) \in Queues
        /\ a.tuple \o Oldest(q, k) \in Seq(Slice)
        /\ Len(a.tuple \o Oldest(q, k)) = Len(a.tuple) + k
    <2>1. Rest(q, k) \in Queues /\ Oldest(q, k) \in Seq(Slice) /\ Len(Oldest(q, k)) = k
      BY <1>2, QueueOps
    <2>2. a.tuple \in Seq(Slice)
      BY DEF Operation
    <2> HIDE DEF more
    <2>3. /\ a.tuple \o Oldest(q, k) \in Seq(Slice)
          /\ Len(a.tuple \o Oldest(q, k)) = Len(a.tuple) + Len(Oldest(q, k))
      BY <2>1, <2>2, ConcatProperties, Zenon
    <2> QED BY <2>1, <2>3
  <1>6. /\ more \in Operation /\ SameCall(more, a) /\ more.tuple = a.tuple \o Oldest(q, k)
        /\ more.elements_requested = a.elements_requested - k
        /\ more.done_callback = a.done_callback /\ more.status = a.status
    <2>1. PICK n \in Nat : n = a.elements_requested - k
      BY <1>2
    <2>2. PICK t \in Seq(Slice) : t = a.tuple \o Oldest(q, k)
      BY <1>5
    <2>3. more = [a EXCEPT !.tuple = t, !.elements_requested = n]
      BY <2>1, <2>2
    <2> HIDE DEF more
    <2>4. more \in Operation
      BY <2>3 DEF Operation
    <2>5. /\ more.tuple = t /\ more.elements_requested = n
          /\ more.done_callback = a.done_callback /\ more.status = a.status
      BY <2>3 DEF Operation
    <2>6. SameCall(more, a)
      BY <2>3 DEF Operation, SameCall
    <2> QED BY <2>1, <2>2, <2>4, <2>5, <2>6
  <1> HIDE DEF more
  <1>7. /\ all \in Operation /\ SameCall(all, more) /\ all.tuple = more.tuple
        /\ all.done_callback = "tuple" /\ all.status = a.status
    BY <1>6 DEF Operation, SameCall
  <1> HIDE DEF all
  <1>8. Len(a.tuple) \in Nat /\ a.call.n \in Nat
    <2>1. a.tuple \in Seq(Slice) /\ a.call.n \in Nat
      BY DEF Operation, Call
    <2> QED BY <2>1, LenProperties
  <1>9. CASE k = 0
    <2>1. RunIs("kNoProgress", q, closed, a, a0)
      BY <1>1, <1>4, <1>9 DEF RunIs
    <2> QED BY <1>3, <1>9, <2>1, RanIs
  <1>10. CASE k # 0 /\ a.tuple = <<>> /\ a.call.fail = 1
    <2>1. /\ fail \in Operation /\ SameCall(fail, a) /\ fail.done_callback = "empty"
          /\ fail.status # "OK"
      BY SetStatusIs DEF Statuses, Waiting
    <2> HIDE DEF fail
    <2>2. SameCall(fail, a0) /\ Finished(fail.done_callback, fail)
      BY <2>1 DEF SameCall, Finished
    <2>3. RunIs("kComplete", q, closed, fail, a0)
      BY <1>1, <2>1, <2>2 DEF RunIs, Producing
    <2> QED BY <1>3, <1>10, <2>3, RanIs
  <1>11. CASE k # 0 /\ ~(a.tuple = <<>> /\ a.call.fail = 1) /\ a.status # "OK"
    <2>1. a.done_callback = "empty"
      BY DEF Waiting
    <2>2. Finished(a.done_callback, a)
      BY <1>11, <2>1 DEF Finished
    <2>3. RunIs("kComplete", q, closed, a, a0)
      BY <1>1, <2>1, <2>2 DEF RunIs, Producing
    <2>4. Collect(q, a) = Ran("kComplete", q, closed, a)
      BY <1>3, <1>11
    <2> QED BY <2>3, <2>4, RanIs
  <1>14. CASE /\ k # 0 /\ ~(a.tuple = <<>> /\ a.call.fail = 1) /\ a.status = "OK"
              /\ a.call.fail = 3
    <2>1. /\ Rest(q, 1) \in Queues /\ copy \in Operation /\ SameCall(copy, a)
          /\ copy.done_callback = a.done_callback /\ copy.status = "UNIMPLEMENTED"
      BY <1>14, CopyFails DEF copy
    <2>2. SameCall(copy, a0) /\ copy.done_callback = "empty"
      BY <2>1 DEF SameCall, Waiting
    <2>3. Finished(copy.done_callback, copy)
      BY <2>1, <2>2 DEF Finished
    <2>4. RunIs("kComplete", Rest(q, 1), closed, copy, a0)
      BY <1>1, <2>1, <2>2, <2>3 DEF RunIs, Producing
    <2>5. Collect(q, a) = Ran("kComplete", Rest(q, 1), closed, copy)
      BY <1>3, <1>14
    <2> QED BY <2>4, <2>5, RanIs
  <1>12. CASE /\ k # 0 /\ ~(a.tuple = <<>> /\ a.call.fail = 1) /\ a.status = "OK"
              /\ a.call.fail # 3 /\ k = a.elements_requested
    <2>1. a.call.kind = "dequeue_many" => Len(all.tuple) = a.call.n
      BY <1>2, <1>5, <1>6, <1>7, <1>8, <1>12 DEF Waiting
    <2>2. SameCall(all, a0)
      BY <1>6, <1>7 DEF SameCall
    <2>3. all.call = a.call
      BY <1>6, <1>7 DEF SameCall
    <2>4. Finished(all.done_callback, all)
      BY <1>7, <1>12, <2>1, <2>3 DEF Finished, Consuming
    <2>5. RunIs("kComplete", Rest(q, k), closed, all, a0)
      BY <1>1, <1>5, <1>7, <2>2, <2>4 DEF RunIs, Producing
    <2>6. Collect(q, a) = Ran("kComplete", Rest(q, k), closed, all)
      BY <1>3, <1>12
    <2> QED BY <2>5, <2>6, RanIs
  <1>13. CASE /\ k # 0 /\ ~(a.tuple = <<>> /\ a.call.fail = 1) /\ a.status = "OK"
              /\ a.call.fail # 3 /\ k # a.elements_requested
    <2>1. SameCall(more, a0) /\ more.call = a.call /\ more.called = a.called
      BY <1>6 DEF SameCall
    <2>2. a.call.kind = "dequeue_many" => Len(more.tuple) + more.elements_requested = a.call.n
      BY <1>2, <1>5, <1>6, <1>8 DEF Waiting
    <2>3. Waiting(more)
      BY <1>6, <1>13, <2>1, <2>2 DEF Waiting
    <2>4. RunIs("kProgress", Rest(q, k), closed, more, a0)
      BY <1>1, <1>5, <1>6, <2>1, <2>3 DEF RunIs, Producing
    <2>5. Collect(q, a) = Ran("kProgress", Rest(q, k), closed, more)
      BY <1>3, <1>13
    <2> QED BY <2>4, <2>5, RanIs
  <1> QED BY <1>9, <1>10, <1>11, <1>12, <1>13, <1>14

LEMMA RestoredTyped ==
    ASSUME queues \in Queues, NEW a \in Operation
    PROVE  Restored(a) \in Queues
  <1> DEFINE slice(i) == IF a.call.fail = 2 /\ i = 1 THEN [c \in 1 .. Components |-> Garbage]
                         ELSE a.tuple[i]
             t == [i \in 1 .. Len(a.tuple) |-> slice(i)]
  <1>1. a.tuple \in Seq(Slice)
    BY DEF Operation
  <1>2. Len(a.tuple) \in Nat /\ \A i \in 1 .. Len(a.tuple) : a.tuple[i] \in Slice
    BY <1>1, LenProperties, ElementOfSeq
  <1>3. [c \in 1 .. Components |-> Garbage] \in Slice
    BY DEF Slice
  <1>4. t \in [1 .. Len(a.tuple) -> Slice]
    BY <1>2, <1>3
  <1>5. t \in Seq(Slice)
    BY <1>2, <1>4, MakeSeq
  <1>6. Restored(a) = push_front(queues, t)
    BY DEF Restored
  <1> HIDE DEF t
  <1> QED BY <1>5, <1>6, QueueOps

LEMMA RunDequeueManyOK ==
    ASSUME closed \in BOOLEAN, queues \in Queues, NEW a \in Operation, a.call \in Call,
           a.call.kind \in {"dequeue_many", "dequeue_up_to"}, Waiting(a)
    PROVE  RunOK(RunDequeueMany(a), a)
  <1> DEFINE back  == Restored(a)
             a1    == IF a.call.fail = 2 /\ a.tuple # <<>> THEN SetStatus(a, "DATA_LOSS") ELSE a
             small == a.call.kind = "dequeue_up_to"
             a2    == [a1 EXCEPT !.tuple = <<>>, !.elements_requested = Len(back[1])]
             end   == SetStatus(a1, "OUT_OF_RANGE")
  <1>1. a.call.kind # "close" /\ a.call.kind \notin Producing
    BY DEF Producing
  <1>2. back \in Queues
    BY RestoredTyped
  <1>3. /\ a1 \in Operation /\ SameCall(a1, a) /\ a1.done_callback = "empty"
        /\ a1.elements_requested = a.elements_requested /\ a1.tuple = a.tuple
    BY SetStatusIs DEF Statuses, Waiting, SameCall
  <1>4. RunDequeueMany(a) =
           IF ~(closed /\ Len(queues[1]) < a.elements_requested) THEN Collect(queues, a)
           ELSE IF small /\ back[1] # <<>> THEN Collect(back, a2)
           ELSE IF small /\ enqueue_attempts # <<>> THEN Ran("kProgress", back, closed, a1)
           ELSE Ran("kComplete", back, closed, end)
    BY DEF RunDequeueMany
  <1> HIDE DEF back, a1
  <1>5. CASE ~(closed /\ Len(queues[1]) < a.elements_requested)
    <2>1. SameCall(a, a)
      BY DEF SameCall
    <2>2. RunOK(Collect(queues, a), a)
      BY <2>1, CollectOK
    <2> QED BY <1>4, <1>5, <2>2
  <1>6. CASE closed /\ Len(queues[1]) < a.elements_requested /\ small /\ back[1] # <<>>
    <2>1. back[1] \in Seq(Item)
      BY <1>2, QueueAssumption DEF Queues
    <2>2. Len(back[1]) \in Nat \ {0}
      BY <1>6, <2>1, EmptySeq
    <2>3. <<>> \in Seq(Slice)
      BY EmptySeq
    <2>4. /\ a2 \in Operation /\ SameCall(a2, a1) /\ a2.done_callback = "empty"
          /\ a2.elements_requested = Len(back[1])
      BY <1>3, <2>2, <2>3 DEF Operation, SameCall
    <2> HIDE DEF a2
    <2>5. SameCall(a2, a) /\ a2.call = a.call /\ a2.called = a.called
      BY <1>3, <2>4 DEF SameCall
    <2>6. Waiting(a2)
      BY <1>6, <2>4, <2>5 DEF Waiting
    <2>7. Least(Len(back[1]), a2.elements_requested) # 0
      BY <2>2, <2>4 DEF Least
    <2>8. RunOK(Collect(back, a2), a)
      BY <1>2, <2>4, <2>5, <2>6, <2>7, CollectOK
    <2> QED BY <1>4, <1>6, <2>8
  <1>7. CASE /\ closed /\ Len(queues[1]) < a.elements_requested
             /\ ~(small /\ back[1] # <<>>) /\ small /\ enqueue_attempts # <<>>
    <2>1. a1.call = a.call /\ a1.called = a.called
      BY <1>3 DEF SameCall
    <2>2. Waiting(a1)
      BY <1>3, <1>7, <2>1 DEF Waiting
    <2>3. RunIs("kProgress", back, closed, a1, a)
      BY <1>1, <1>2, <1>3, <2>2 DEF RunIs, Producing
    <2>4. RunDequeueMany(a) = Ran("kProgress", back, closed, a1)
      BY <1>4, <1>7
    <2> QED BY <2>3, <2>4, RanIs
  <1>8. CASE /\ closed /\ Len(queues[1]) < a.elements_requested
             /\ ~(small /\ back[1] # <<>>) /\ ~(small /\ enqueue_attempts # <<>>)
    <2>1. /\ end \in Operation /\ SameCall(end, a1) /\ end.done_callback = "empty"
          /\ end.status # "OK"
      BY <1>3, SetStatusIs DEF Statuses
    <2> HIDE DEF end
    <2>2. SameCall(end, a) /\ Finished(end.done_callback, end)
      BY <1>3, <2>1 DEF SameCall, Finished
    <2>3. RunIs("kComplete", back, closed, end, a)
      BY <1>1, <1>2, <2>1, <2>2 DEF RunIs, Producing
    <2>4. RunDequeueMany(a) = Ran("kComplete", back, closed, end)
      BY <1>4, <1>8
    <2> QED BY <2>3, <2>4, RanIs
  <1> QED BY <1>5, <1>6, <1>7, <1>8

LEMMA RunCallbackOK ==
    ASSUME TypeOK, NEW o \in Ops, op[o].call \in Call,
           op[o].call.kind \in Producing \cup Consuming, Waiting(op[o])
    PROVE  RunOK(run_callback(o), op[o])
  <1>1. closed \in BOOLEAN /\ queues \in Queues /\ op[o] \in Operation
    BY DEF TypeOK, Queues, Item
  <1>2. op[o].call.kind = "dequeue" => op[o].call.n = 1
    <2>1. op[o].call \in Calls[o] \cup {<<>>}
      BY DEF TypeOK
    <2>2. op[o].call.kind = "dequeue" => op[o].call \in Calls[o]
      <3>1. SUFFICES ASSUME op[o].call = <<>>, op[o].call.kind = "dequeue" PROVE FALSE
        BY <2>1
      <3>2. <<>> \in Call
        BY <3>1
      <3>3. DOMAIN <<>> = {"kind", "n", "cm", "fail"}
        BY <3>2 DEF Call
      <3>4. DOMAIN <<>> = {}
        OBVIOUS
      <3> QED BY <3>3, <3>4
    <2> QED BY <2>2, QueueAssumption
  <1>3. run_callback(o) =
           CASE op[o].call.kind = "close"        -> RunClose(op[o])
             [] op[o].call.kind = "enqueue"      -> RunEnqueue(o, op[o])
             [] op[o].call.kind = "enqueue_many" -> RunEnqueueMany(o, op[o])
             [] op[o].call.kind = "dequeue"      -> RunDequeue(op[o])
             [] OTHER                            -> RunDequeueMany(op[o])
    BY DEF run_callback, Kind
  <1>4. CASE op[o].call.kind = "close"
    BY <1>1, <1>3, <1>4, RunCloseOK
  <1>5. CASE op[o].call.kind = "enqueue"
    BY <1>1, <1>3, <1>5, RunEnqueueOK
  <1>6. CASE op[o].call.kind = "enqueue_many"
    BY <1>1, <1>3, <1>6, RunEnqueueManyOK
  <1>7. CASE op[o].call.kind = "dequeue"
    BY <1>1, <1>2, <1>3, <1>7, RunDequeueOK
  <1>8. CASE op[o].call.kind \in {"dequeue_many", "dequeue_up_to"}
    BY <1>1, <1>3, <1>8, RunDequeueManyOK
  <1> QED BY <1>4, <1>5, <1>6, <1>7, <1>8 DEF Producing, Consuming

LEMMA RunSame ==
    ASSUME UNCHANGED <<closed, queues, enqueue_attempts>>, NEW o, op'[o] = op[o]
    PROVE  run_callback(o)' = run_callback(o)
  BY DEF run_callback, Kind, RunClose, RunEnqueue, RunEnqueueMany, RunDequeue, RunDequeueMany,
         Collect, Restored, Room

-----------------------------------------------------------------------------
(* How the parts of CallbackInv are kept when the operations change from x *)
(* to x2 and the threads from y to y2.                                     *)

LEMMA NoCallIs == <<>> \notin Call
  <1>1. SUFFICES ASSUME <<>> \in Call PROVE FALSE
    OBVIOUS
  <1>2. DOMAIN <<>> = {"kind", "n", "cm", "fail"}
    BY <1>1 DEF Call
  <1>3. DOMAIN <<>> = {}
    OBVIOUS
  <1> QED BY <1>2, <1>3

LEMMA AttemptsFrame ==
    ASSUME NEW s \in Seq(Ops), NEW kinds, NEW x, NEW x2, AttemptsOK(s, kinds, x),
           \A o \in Ops : x[o].call \in Call => x2[o].call = x[o].call
    PROVE  AttemptsOK(s, kinds, x2)
  <1>1. \A i \in 1 .. Len(s) : s[i] \in Ops
    BY ElementOfSeq
  <1> QED BY <1>1 DEF AttemptsOK

LEMMA AttemptsTail ==
    ASSUME NEW s \in Seq(Ops), NEW kinds, NEW x, AttemptsOK(s, kinds, x), s # <<>>
    PROVE  /\ AttemptsOK(Tail(s), kinds, x)
           /\ \A i \in 1 .. Len(Tail(s)) : Tail(s)[i] # Head(s)
  <1>1. /\ Len(s) \in Nat \ {0} /\ Head(s) = s[1] /\ Len(Tail(s)) = Len(s) - 1
        /\ \A i \in 1 .. Len(s) - 1 : i + 1 \in 1 .. Len(s) /\ Tail(s)[i] = s[i + 1]
    BY FrontAndRest
  <1> QED BY <1>1 DEF AttemptsOK

LEMMA AttemptsAppend ==
    ASSUME NEW s \in Seq(Ops), NEW kinds, NEW x, NEW x2, AttemptsOK(s, kinds, x),
           \A o \in Ops : x[o].call \in Call => x2[o].call = x[o].call,
           NEW p \in Ops, x[p].call \notin Call, x2[p].call \in Call, x2[p].call.kind \in kinds
    PROVE  AttemptsOK(Append(s, p), kinds, x2)
  <1>1. /\ Len(s) \in Nat /\ Len(Append(s, p)) = Len(s) + 1
        /\ \A i \in 1 .. Len(s) + 1 : Append(s, p)[i] = IF i <= Len(s) THEN s[i] ELSE p
    BY AppendOne
  <1>2. \A i \in 1 .. Len(s) : s[i] \in Ops /\ s[i] # p
    BY ElementOfSeq DEF AttemptsOK
  <1>3. AttemptsOK(s, kinds, x2)
    BY AttemptsFrame
  <1> QED BY <1>1, <1>2, <1>3 DEF AttemptsOK

(* A live attempt stays one or is cancelled.                               *)
StillWaits(b, a) == ~b.is_cancelled => ~a.is_cancelled /\ (Waiting(a) => Waiting(b))

LEMMA WaitingFrame ==
    ASSUME NEW s \in Seq(Ops), NEW kinds, NEW x, NEW x2, AttemptsOK(s, kinds, x), WaitingInv(s, x),
           \A o \in Ops : x[o].call \in Call => StillWaits(x2[o], x[o])
    PROVE  WaitingInv(s, x2)
  <1>1. \A i \in 1 .. Len(s) : s[i] \in Ops /\ x[s[i]].call \in Call
    BY ElementOfSeq DEF AttemptsOK
  <1> QED BY <1>1 DEF WaitingInv, StillWaits

LEMMA WaitingAppend ==
    ASSUME NEW s \in Seq(Ops), NEW x, WaitingInv(s, x), NEW p \in Ops, Waiting(x[p])
    PROVE  WaitingInv(Append(s, p), x)
  <1>1. /\ Len(s) \in Nat /\ Len(Append(s, p)) = Len(s) + 1
        /\ \A i \in 1 .. Len(s) + 1 : Append(s, p)[i] = IF i <= Len(s) THEN s[i] ELSE p
    BY AppendOne
  <1> QED BY <1>1 DEF WaitingInv

LEMMA WaitingTail ==
    ASSUME NEW s \in Seq(Ops), NEW kinds, NEW x, NEW x2, AttemptsOK(s, kinds, x), s # <<>>,
           WaitingInv(s, x), \A o \in Ops \ {Head(s)} : x2[o] = x[o]
    PROVE  WaitingInv(Tail(s), x2)
  <1>1. /\ Len(s) \in Nat \ {0} /\ Head(s) = s[1] /\ Len(Tail(s)) = Len(s) - 1
        /\ Tail(s) \in Seq(Ops)
        /\ \A i \in 1 .. Len(s) - 1 : i + 1 \in 1 .. Len(s) /\ Tail(s)[i] = s[i + 1]
    BY FrontAndRest
  <1>2. \A i \in 1 .. Len(Tail(s)) : Tail(s)[i] \in Ops \ {Head(s)}
    BY <1>1, AttemptsTail, ElementOfSeq
  <1> QED BY <1>1, <1>2 DEF WaitingInv

(* An operation whose callback is in some list.                            *)
InTodo(a) == a.call \in Call /\ a.done_callback = "null" /\ a.called = 0

LEMMA TodoTyped ==
    ASSUME NEW y \in [Threads -> Thread], NEW u \in Threads
    PROVE  /\ y[u].todo \in Seq(Entry) /\ Len(y[u].todo) \in Nat
           /\ \A i \in 1 .. Len(y[u].todo) : y[u].todo[i] \in Entry /\ y[u].todo[i].op \in Ops
  <1>1. PICK s : s = y[u].todo
    OBVIOUS
  <1>2. s \in Seq(Entry)
    BY <1>1 DEF Thread, Entry
  <1>3. Len(s) \in Nat /\ \A i \in 1 .. Len(s) : s[i] \in Entry
    BY <1>2, LenProperties, ElementOfSeq
  <1>4. \A i \in 1 .. Len(s) : s[i].op \in Ops
    BY <1>3 DEF Entry
  <1> QED BY <1>1, <1>2, <1>3, <1>4

(* Thread t replaces its list or adds to it callbacks that were in none.   *)
TakesNew(t, N, y, x, y2, x2) ==
    /\ \A o \in Ops : InTodo(x[o]) => x2[o] = x[o]
    /\ \A u \in Threads \ {t} : y2[u].todo = y[u].todo
    /\ \A i \in 1 .. Len(y2[t].todo) :
          IF i \in N THEN /\ ~InTodo(x[y2[t].todo[i].op])
                          /\ EntryOK(y2[t].todo[i], x2[y2[t].todo[i].op])
                     ELSE i <= Len(y[t].todo) /\ y2[t].todo[i] = y[t].todo[i]
    /\ \A i, j \in N : y2[t].todo[i].op = y2[t].todo[j].op => i = j

LEMMA TodoAdd ==
    ASSUME NEW y \in [Threads -> Thread], NEW y2 \in [Threads -> Thread], NEW x, NEW x2,
           TodoOK(y, x), NEW t \in Threads, NEW N \in SUBSET (1 .. Len(y2[t].todo)),
           TakesNew(t, N, y, x, y2, x2)
    PROVE  TodoOK(y2, x2)
  <1> USE DEF TakesNew
  <1>1. \A u \in Threads : /\ y[u].todo \in Seq(Entry) /\ y2[u].todo \in Seq(Entry)
                           /\ Len(y[u].todo) \in Nat /\ Len(y2[u].todo) \in Nat
    BY TodoTyped
  <1>2. \A u \in Threads : /\ \A i \in 1 .. Len(y[u].todo) : y[u].todo[i].op \in Ops
                           /\ \A i \in 1 .. Len(y2[u].todo) : y2[u].todo[i].op \in Ops
    BY TodoTyped
  <1>3. \A u \in Threads : \A i \in 1 .. Len(y[u].todo) :
           InTodo(x[y[u].todo[i].op]) /\ EntryOK(y[u].todo[i], x2[y[u].todo[i].op])
    <2>1. \A u \in Threads : \A i \in 1 .. Len(y[u].todo) : EntryOK(y[u].todo[i], x[y[u].todo[i].op])
      BY DEF TodoOK
    <2>2. \A u \in Threads : \A i \in 1 .. Len(y[u].todo) : InTodo(x[y[u].todo[i].op])
      BY <2>1 DEF EntryOK, InTodo
    <2>3. \A o \in Ops : InTodo(x[o]) => x2[o] = x[o]
      OBVIOUS
    <2> QED BY ONLY <1>2, <2>1, <2>2, <2>3
  <1>4. ASSUME NEW u \in Threads, NEW i \in 1 .. Len(y2[u].todo)
        PROVE  EntryOK(y2[u].todo[i], x2[y2[u].todo[i].op])
    <2>1. CASE u # t
      BY <1>3, <1>4, <2>1
    <2>2. CASE u = t /\ i \in N
      BY <1>4, <2>2
    <2>3. CASE u = t /\ i \notin N
      <3>1. i \in 1 .. Len(y[t].todo) /\ y2[t].todo[i] = y[t].todo[i]
        BY <1>1, <1>4, <2>3
      <3> QED BY <1>3, <2>3, <3>1
    <2> QED BY <2>1, <2>2, <2>3
  (* An entry of y2 that is not new is at the same place of y.             *)
  <1>5. ASSUME NEW u \in Threads, NEW i \in 1 .. Len(y2[u].todo), ~(u = t /\ i \in N)
        PROVE  i \in 1 .. Len(y[u].todo) /\ y2[u].todo[i] = y[u].todo[i]
    <2>1. CASE u # t
      BY <1>5, <2>1
    <2>2. CASE u = t
      BY <1>1, <1>5, <2>2
    <2> QED BY <2>1, <2>2
  <1>6. ASSUME NEW u \in Threads, NEW v \in Threads, NEW i \in 1 .. Len(y2[u].todo),
               NEW j \in 1 .. Len(y2[v].todo), y2[u].todo[i].op = y2[v].todo[j].op
        PROVE  u = v /\ i = j
    <2>1. CASE u = t /\ i \in N /\ v = t /\ j \in N
      BY <1>6, <2>1
    <2>2. CASE u = t /\ i \in N /\ ~(v = t /\ j \in N)
      <3>1. j \in 1 .. Len(y[v].todo) /\ y2[v].todo[j] = y[v].todo[j]
        BY <1>5, <2>2
      <3>2. InTodo(x[y2[v].todo[j].op])
        BY <1>3, <3>1
      <3>3. ~InTodo(x[y2[u].todo[i].op])
        BY <1>6, <2>2
      <3> QED BY <1>6, <3>2, <3>3
    <2>3. CASE ~(u = t /\ i \in N) /\ v = t /\ j \in N
      <3>1. i \in 1 .. Len(y[u].todo) /\ y2[u].todo[i] = y[u].todo[i]
        BY <1>5, <2>3
      <3>2. InTodo(x[y2[u].todo[i].op])
        BY <1>3, <3>1
      <3>3. ~InTodo(x[y2[v].todo[j].op])
        BY <1>6, <2>3
      <3> QED BY <1>6, <3>2, <3>3
    <2>4. CASE ~(u = t /\ i \in N) /\ ~(v = t /\ j \in N)
      <3>1. i \in 1 .. Len(y[u].todo) /\ y2[u].todo[i] = y[u].todo[i]
        BY <1>5, <2>4
      <3>2. j \in 1 .. Len(y[v].todo) /\ y2[v].todo[j] = y[v].todo[j]
        BY <1>5, <2>4
      <3> QED BY <1>6, <3>1, <3>2 DEF TodoOK
    <2> QED BY <2>1, <2>2, <2>3, <2>4
  <1> QED BY <1>4, <1>6 DEF TodoOK

LEMMA TodoFrame ==
    ASSUME NEW y \in [Threads -> Thread], NEW y2 \in [Threads -> Thread], NEW x, NEW x2,
           TodoOK(y, x), \A o \in Ops : InTodo(x[o]) => x2[o] = x[o],
           \A u \in Threads : y2[u].todo = y[u].todo
    PROVE  TodoOK(y2, x2)
  <1>1. \A u \in Threads : \A i \in 1 .. Len(y[u].todo) : y[u].todo[i].op \in Ops
    BY TodoTyped
  <1>2. ASSUME NEW u \in Threads, NEW i \in 1 .. Len(y[u].todo)
        PROVE  EntryOK(y[u].todo[i], x2[y[u].todo[i].op])
    <2>1. EntryOK(y[u].todo[i], x[y[u].todo[i].op]) /\ y[u].todo[i].op \in Ops
      BY <1>1 DEF TodoOK
    <2>2. InTodo(x[y[u].todo[i].op])
      BY <2>1 DEF EntryOK, InTodo
    <2>3. x2[y[u].todo[i].op] = x[y[u].todo[i].op]
      BY <2>1, <2>2
    <2> QED BY <2>1, <2>3
  <1>3. \A u \in Threads : \A i \in 1 .. Len(y2[u].todo) : EntryOK(y2[u].todo[i], x2[y2[u].todo[i].op])
    BY ONLY <1>2, \A u \in Threads : y2[u].todo = y[u].todo
  <1>4. \A t, u \in Threads : \A i \in 1 .. Len(y2[t].todo), j \in 1 .. Len(y2[u].todo) :
           y2[t].todo[i].op = y2[u].todo[j].op => t = u /\ i = j
    BY ONLY TodoOK(y, x), \A u \in Threads : y2[u].todo = y[u].todo, SMTT(30) DEF TodoOK
  <1> QED BY ONLY <1>3, <1>4 DEF TodoOK

(* Thread t takes the first callback of its list and calls it.             *)
TakesFirst(t, y, x, y2, x2) ==
    /\ y[t].todo # <<>> /\ y2[t].todo = Tail(y[t].todo)
    /\ \A u \in Threads \ {t} : y2[u].todo = y[u].todo
    /\ \A o \in Ops \ {Head(y[t].todo).op} : x2[o] = x[o]

LEMMA TodoTail ==
    ASSUME NEW y \in [Threads -> Thread], NEW y2 \in [Threads -> Thread], NEW x, NEW x2,
           TodoOK(y, x), NEW t \in Threads, TakesFirst(t, y, x, y2, x2)
    PROVE  TodoOK(y2, x2)
  <1> USE DEF TakesFirst
  <1> DEFINE s == y[t].todo
             p == Head(s).op
  <1>1. \A u \in Threads : y[u].todo \in Seq(Entry) /\ Len(y[u].todo) \in Nat
    BY TodoTyped
  <1>2. \A u \in Threads : \A i \in 1 .. Len(y[u].todo) : y[u].todo[i].op \in Ops
    BY TodoTyped
  <1>3. /\ Len(s) \in Nat \ {0} /\ Head(s) = s[1] /\ Len(Tail(s)) = Len(s) - 1
        /\ \A i \in 1 .. Len(s) - 1 : i + 1 \in 1 .. Len(s) /\ Tail(s)[i] = s[i + 1]
    BY <1>1, FrontAndRest
  <1> DEFINE at(u, i) == IF u = t THEN i + 1 ELSE i
  <1>4. ASSUME NEW u \in Threads, NEW i \in 1 .. Len(y2[u].todo)
        PROVE  /\ at(u, i) \in 1 .. Len(y[u].todo) /\ y2[u].todo[i] = y[u].todo[at(u, i)]
               /\ y2[u].todo[i].op # p
    <2>1. /\ at(u, i) \in 1 .. Len(y[u].todo) /\ y2[u].todo[i] = y[u].todo[at(u, i)]
          /\ u # t \/ at(u, i) # 1
      <3>1. CASE u = t
        <4>1. y2[u].todo = Tail(s) /\ i \in 1 .. Len(s) - 1
          BY <1>3, <1>4, <3>1
        <4>2. i + 1 \in 1 .. Len(s) /\ Tail(s)[i] = s[i + 1] /\ i + 1 # 1
          BY <1>3, <4>1
        <4> QED BY <3>1, <4>1, <4>2
      <3>2. CASE u # t
        BY <1>4, <3>2
      <3> QED BY <3>1, <3>2
    <2>2. 1 \in 1 .. Len(s) /\ p = s[1].op
      BY <1>3
    <2> HIDE DEF at
    <2> QED BY <2>1, <2>2 DEF TodoOK
  <1>5. ASSUME NEW u \in Threads, NEW i \in 1 .. Len(y2[u].todo)
        PROVE  EntryOK(y2[u].todo[i], x2[y2[u].todo[i].op])
    <2>1. EntryOK(y2[u].todo[i], x[y2[u].todo[i].op]) /\ y2[u].todo[i].op \in Ops
      BY <1>2, <1>4 DEF TodoOK
    <2> QED BY <1>4, <2>1
  <1>6. ASSUME NEW u \in Threads, NEW v \in Threads, NEW i \in 1 .. Len(y2[u].todo),
               NEW j \in 1 .. Len(y2[v].todo), y2[u].todo[i].op = y2[v].todo[j].op
        PROVE  u = v /\ i = j
    <2>1. PICK k \in 1 .. Len(y[u].todo) : k = at(u, i) /\ y2[u].todo[i] = y[u].todo[k]
      BY <1>4
    <2>2. PICK l \in 1 .. Len(y[v].todo) : l = at(v, j) /\ y2[v].todo[j] = y[v].todo[l]
      BY <1>4
    <2>3. u = v /\ k = l
      BY <1>6, <2>1, <2>2 DEF TodoOK
    <2> QED BY <2>1, <2>2, <2>3
  <1> QED BY <1>5, <1>6 DEF TodoOK

-----------------------------------------------------------------------------
(* The actions keep TypeOK and CallbackInv.                                *)

ManagerType == [state : {"live", "cancelling", "cancelled"}, next_token : Nat]
CbStates == {"none", "registered", "to_run", "running", "ran", "deregistered", "gone"}

LEMMA OtherTypes ==
    ASSUME TypeOK, UNCHANGED <<closed, queues>>, mu' \in Threads \cup {NoThread},
           cm' \in [Managers -> ManagerType], cb' \in [Ops -> CbStates],
           enqueue_attempts' \in Seq(Ops), dequeue_attempts' \in Seq(Ops),
           op' \in [Ops -> Operation], thr' \in [Threads -> Thread],
           \A o \in Ops : op'[o].call = op[o].call \/ op'[o].call \in Calls[o]
    PROVE  TypeOK'
  <1>1. \A o \in Ops : op'[o].call \in Calls[o] \cup {<<>>}
    BY DEF TypeOK
  <1> QED BY <1>1 DEF TypeOK, ManagerType, CbStates

(* A thread does not come back from its call.                              *)
PcMoves(pc2, pc) == (pc = "idle" => pc2 = "idle") /\ (pc = "returned" => pc2 = "returned")

(* A step after which every operation and list of callbacks is as before.  *)
LEMMA QuietCallbacks ==
    ASSUME TypeOK, CallbackInv, thr' \in [Threads -> Thread],
           UNCHANGED <<enqueue_attempts, dequeue_attempts, op>>,
           \A t \in Threads : /\ thr'[t].todo = thr[t].todo
                              /\ PcMoves(thr'[t].pc, thr[t].pc)
    PROVE  CallbackInv'
  <1>1. TodoOK(thr', op')
    <2>1. thr \in [Threads -> Thread] /\ TodoOK(thr, op) /\ op' = op
      BY DEF TypeOK, CallbackInv
    <2>2. PICK y2 \in [Threads -> Thread] : y2 = thr'
      OBVIOUS
    <2>3. \A u \in Threads : y2[u].todo = thr[u].todo
      BY <2>2
    <2>4. \A o \in Ops : InTodo(op[o]) => op[o] = op[o]
      OBVIOUS
    <2>5. TodoOK(y2, op)
      BY ONLY <2>1, <2>2, <2>3, <2>4, TodoFrame
    <2> QED BY <2>1, <2>2, <2>5
  <1>2. \A o \in Ops : <<o, "call">> \in Threads
    BY DEF Threads
  <1>3. \A o \in Ops : OperationOK(op'[o], thr'[<<o, "call">>].pc)
    BY <1>2 DEF CallbackInv, OperationOK, PcMoves
  <1> QED BY <1>1, <1>3 DEF CallbackInv

LEMMA LockCallbacks ==
    ASSUME TypeOK, CallbackInv, NEW t \in Threads, Lock(t) PROVE TypeOK' /\ CallbackInv'
  <1>1. /\ thr[t].pc = "outside" /\ mu' = t /\ UNCHANGED <<closed, queues, enqueue_attempts,
                                                           dequeue_attempts, op, cm, cb>>
        /\ thr' = [thr EXCEPT ![t].pc = "enqueue", ![t].changed = FALSE]
    BY DEF Lock
  <1>2. thr \in [Threads -> Thread]
    BY DEF TypeOK
  <1>3. thr' \in [Threads -> Thread]
    BY <1>1, <1>2 DEF Thread
  <1>4. \A u \in Threads : /\ thr'[u].todo = thr[u].todo
                           /\ PcMoves(thr'[u].pc, thr[u].pc)
    BY <1>1, <1>2 DEF Thread, PcMoves
  <1>5. CallbackInv'
    BY <1>1, <1>3, <1>4, QuietCallbacks
  <1> QED BY <1>1, <1>3, <1>5, OtherTypes DEF TypeOK, ManagerType, CbStates

(* What Returns does to the threads.                                       *)
LEMMA ReturnsThreads ==
    ASSUME TypeOK, NEW t \in Threads, NEW action \in {"enqueue", "dequeue"},
           NEW changed \in BOOLEAN, thr[t].pc = action, Returns(t, action, changed)
    PROVE  /\ thr' \in [Threads -> Thread] /\ mu' \in Threads \cup {NoThread}
           /\ \A u \in Threads \ {t} : thr'[u] = thr[u]
           /\ thr'[t].todo = thr[t].todo /\ thr'[t].pc # "outside"
           /\ thr'[t].pc = AfterTry(action, changed)
           /\ thr'[t].changed = (changed /\ thr'[t].pc = "dequeue")
           /\ mu' = IF thr'[t].pc = "clean" THEN NoThread ELSE mu
           /\ \A u \in Threads : /\ thr'[u].todo = thr[u].todo
                                 /\ PcMoves(thr'[u].pc, thr[u].pc)
  <1>1. PICK pc \in {"enqueue", "dequeue", "clean"} : pc = AfterTry(action, changed)
    BY DEF AfterTry
  <1>2. PICK c \in BOOLEAN : c = (changed /\ pc = "dequeue")
    OBVIOUS
  <1>3. /\ thr' = [thr EXCEPT ![t].pc = pc, ![t].changed = c]
        /\ mu' = IF pc = "clean" THEN NoThread ELSE mu
    BY <1>1, <1>2 DEF Returns
  <1>4. thr \in [Threads -> Thread] /\ mu \in Threads \cup {NoThread}
        /\ thr[t].pc # "returned" /\ thr[t].pc # "idle"
    BY DEF TypeOK
  <1>5. thr' \in [Threads -> Thread]
    BY <1>3, <1>4 DEF Thread
  <1>6. /\ \A u \in Threads \ {t} : thr'[u] = thr[u]
        /\ thr'[t].todo = thr[t].todo /\ thr'[t].pc = pc /\ thr'[t].changed = c
    BY <1>3, <1>4 DEF Thread
  <1>7. \A u \in Threads : /\ thr'[u].todo = thr[u].todo
                           /\ PcMoves(thr'[u].pc, thr[u].pc)
    BY <1>4, <1>6 DEF PcMoves
  <1> QED BY <1>1, <1>2, <1>3, <1>4, <1>5, <1>6, <1>7

LEMMA NoAttemptCallbacks ==
    ASSUME TypeOK, CallbackInv, NEW t \in Threads, NEW action \in {"enqueue", "dequeue"},
           NoAttempt(t, action)
    PROVE  TypeOK' /\ CallbackInv'
  <1>1. /\ thr[t].pc = action /\ Returns(t, action, thr[t].changed)
        /\ UNCHANGED <<closed, queues, enqueue_attempts, dequeue_attempts, op, cm, cb>>
    BY DEF NoAttempt
  <1>2. thr[t].changed \in BOOLEAN
    BY DEF TypeOK, Thread
  <1>3. /\ thr' \in [Threads -> Thread] /\ mu' \in Threads \cup {NoThread}
        /\ \A u \in Threads : /\ thr'[u].todo = thr[u].todo
                              /\ PcMoves(thr'[u].pc, thr[u].pc)
    BY <1>1, <1>2, ReturnsThreads
  <1>4. CallbackInv'
    BY <1>1, <1>3, QuietCallbacks
  <1> QED BY <1>1, <1>3, <1>4, OtherTypes DEF TypeOK, ManagerType, CbStates

LEMMA ManagerCallbacks ==
    ASSUME TypeOK, CallbackInv, NEW m \in Managers, StartCancel(m) \/ CancelDone(m) \/ NextStep(m)
    PROVE  TypeOK' /\ CallbackInv'
  <1>1. UNCHANGED <<closed, queues, enqueue_attempts, dequeue_attempts, op, thr, mu>>
    BY DEF StartCancel, CancelDone, NextStep
  <1>2. cm \in [Managers -> ManagerType] /\ cb \in [Ops -> CbStates]
    BY DEF TypeOK, ManagerType, CbStates
  <1>3. cm' \in [Managers -> ManagerType]
    <2>1. CASE StartCancel(m)
      BY <1>2, <2>1 DEF StartCancel, ManagerType
    <2>2. CASE CancelDone(m)
      BY <1>2, <2>2 DEF CancelDone, ManagerType
    <2>3. CASE NextStep(m)
      BY <1>2, <2>3 DEF NextStep, ManagerType
    <2> QED BY <2>1, <2>2, <2>3
  <1>4. cb' \in [Ops -> CbStates]
    <2>1. CASE StartCancel(m)
      BY <1>2, <2>1 DEF StartCancel, CbStates
    <2>2. CASE CancelDone(m)
      BY <1>2, <2>2 DEF CancelDone
    <2>3. CASE NextStep(m)
      BY <1>2, <2>3 DEF NextStep, CbStates
    <2> QED BY <2>1, <2>2, <2>3
  <1>5. CallbackInv'
    BY <1>1, QuietCallbacks DEF TypeOK, PcMoves
  <1>6. TypeOK'
    BY <1>1, <1>3, <1>4, OtherTypes DEF TypeOK
  <1> QED BY <1>5, <1>6

(* The attempts of both actions, whichever is meant.                       *)
LEMMA AttemptsTyped ==
    ASSUME TypeOK, CallbackInv, NEW action \in {"enqueue", "dequeue"}
    PROVE  /\ Attempts(action) \in Seq(Ops) /\ WaitingInv(Attempts(action), op)
           /\ AttemptsOK(Attempts(action), IF action = "enqueue" THEN Producing ELSE Consuming, op)
  BY DEF Attempts, TypeOK, CallbackInv

LEMMA SkipCancelledCallbacks ==
    ASSUME TypeOK, CallbackInv, NEW t \in Threads, NEW action \in {"enqueue", "dequeue"},
           SkipCancelled(t, action)
    PROVE  TypeOK' /\ CallbackInv'
  <1>1. /\ Attempts(action) # <<>> /\ SetAttempts(action, Tail(Attempts(action)))
        /\ UNCHANGED <<closed, queues, op, thr, mu, cm, cb>>
    BY DEF SkipCancelled
  <1>2. \A kinds : \A s \in Seq(Ops) :
           s # <<>> /\ AttemptsOK(s, kinds, op) /\ WaitingInv(s, op) =>
              Tail(s) \in Seq(Ops) /\ AttemptsOK(Tail(s), kinds, op) /\ WaitingInv(Tail(s), op)
    BY FrontAndRest, AttemptsTail, WaitingTail
  <1>3. /\ enqueue_attempts' \in Seq(Ops) /\ AttemptsOK(enqueue_attempts', Producing, op)
        /\ WaitingInv(enqueue_attempts', op)
    BY <1>1, <1>2 DEF SetAttempts, Attempts, TypeOK, CallbackInv
  <1>4. /\ dequeue_attempts' \in Seq(Ops) /\ AttemptsOK(dequeue_attempts', Consuming, op)
        /\ WaitingInv(dequeue_attempts', op)
    BY <1>1, <1>2 DEF SetAttempts, Attempts, TypeOK, CallbackInv
  <1>5. CallbackInv'
    BY <1>1, <1>3, <1>4 DEF CallbackInv
  <1> QED BY <1>1, <1>3, <1>4, <1>5 DEF TypeOK

(* Operation p changes and stays what it was to the attempts.              *)
LEMMA OneChanges ==
    ASSUME TypeOK, CallbackInv, op' \in [Ops -> Operation], NEW p \in Ops,
           \A o \in Ops \ {p} : op'[o] = op[o],
           op'[p].call = op[p].call, op[p].call \in Call => StillWaits(op'[p], op[p])
    PROVE  /\ \A o \in Ops : op'[o].call = op[o].call
           /\ AttemptsOK(enqueue_attempts, Producing, op') /\ WaitingInv(enqueue_attempts, op')
           /\ AttemptsOK(dequeue_attempts, Consuming, op') /\ WaitingInv(dequeue_attempts, op')
  <1>1. \A o \in Ops : op'[o].call = op[o].call
    OBVIOUS
  <1>2. \A o \in Ops : op[o].call \in Call => StillWaits(op'[o], op[o])
    BY DEF StillWaits
  <1>3. /\ enqueue_attempts \in Seq(Ops) /\ dequeue_attempts \in Seq(Ops)
        /\ AttemptsOK(enqueue_attempts, Producing, op) /\ WaitingInv(enqueue_attempts, op)
        /\ AttemptsOK(dequeue_attempts, Consuming, op) /\ WaitingInv(dequeue_attempts, op)
    BY DEF TypeOK, CallbackInv
  <1> QED BY <1>1, <1>2, <1>3, AttemptsFrame, WaitingFrame

LEMMA CalledIs ==
    ASSUME NEW a \in Operation
    PROVE  \E b \in Operation :
              /\ b = [a EXCEPT !.called = 1] /\ b.called = 1
              /\ b.call = a.call /\ b.is_cancelled = a.is_cancelled /\ b.late = a.late
              /\ b.done_callback = a.done_callback /\ b.status = a.status
              /\ b.elements_requested = a.elements_requested /\ b.tuple = a.tuple
  <1>1. PICK b : b = [a EXCEPT !.called = 1]
    OBVIOUS
  <1>2. b \in Operation
    BY <1>1 DEF Operation
  <1>3. /\ b.called = 1 /\ b.call = a.call /\ b.is_cancelled = a.is_cancelled /\ b.late = a.late
        /\ b.done_callback = a.done_callback /\ b.status = a.status
        /\ b.elements_requested = a.elements_requested /\ b.tuple = a.tuple
    BY <1>1 DEF Operation
  <1> QED BY <1>1, <1>2, <1>3

(* The first callback of t is called: CallCallback and CleanUp.            *)
LEMMA CalledCallbacks ==
    ASSUME TypeOK, CallbackInv, NEW t \in Threads, thr[t].todo # <<>>,
           op' = Called(Head(thr[t].todo).op), thr' = [thr EXCEPT ![t].todo = Tail(@)],
           UNCHANGED <<enqueue_attempts, dequeue_attempts>>
    PROVE  /\ op' \in [Ops -> Operation] /\ thr' \in [Threads -> Thread] /\ CallbackInv'
           /\ \A o \in Ops : op'[o].call = op[o].call
           /\ \A o \in Ops : op'[o] # op[o] => op[o].done_callback = "null"
           /\ \A o \in Ops : /\ op'[o].elements_requested = op[o].elements_requested
                             /\ op'[o].status = op[o].status /\ op'[o].late = op[o].late
                             /\ op'[o].is_cancelled = op[o].is_cancelled
           /\ \A u \in Threads : thr'[u].pc = thr[u].pc /\ thr'[u].changed = thr[u].changed
  <1>1. PICK p : p = Head(thr[t].todo).op
    OBVIOUS
  <1>2. thr \in [Threads -> Thread] /\ op \in [Ops -> Operation] /\ TodoOK(thr, op)
    BY DEF TypeOK, CallbackInv
  <1>3. /\ thr[t].todo \in Seq(Entry) /\ Len(thr[t].todo) \in Nat \ {0}
        /\ Head(thr[t].todo) = thr[t].todo[1] /\ Tail(thr[t].todo) \in Seq(Entry)
    BY <1>2, TodoTyped, FrontAndRest
  <1>4. p \in Ops /\ EntryOK(thr[t].todo[1], op[p])
    BY <1>1, <1>2, <1>3, TodoTyped DEF TodoOK
  <1>5. op[p].called = 0 /\ op[p].done_callback = "null" /\ op[p] \in Operation
        /\ op[p].call \in Call /\ op[p].call.kind # "close_cancel"
    BY <1>2, <1>4 DEF EntryOK
  <1>6. PICK b \in Operation :
           /\ b = [op[p] EXCEPT !.called = 1] /\ b.called = 1 /\ b.call = op[p].call
           /\ b.is_cancelled = op[p].is_cancelled /\ b.late = op[p].late
           /\ b.done_callback = op[p].done_callback /\ b.status = op[p].status
           /\ b.elements_requested = op[p].elements_requested
    BY <1>5, CalledIs
  <1>7. op' = [op EXCEPT ![p] = b]
    <2>1. op' = Called(p)
      BY <1>1
    <2>2. (IF op[p].called < 2 THEN op[p].called + 1 ELSE op[p].called) = 1
      BY <1>5
    <2>3. op' = [op EXCEPT ![p] = [op[p] EXCEPT !.called = 1]]
      BY ONLY <1>2, <1>4, <2>1, <2>2 DEF Called
    <2> QED BY <1>6, <2>3
  <1>8. op' \in [Ops -> Operation] /\ op'[p] = b /\ \A o \in Ops \ {p} : op'[o] = op[o]
    BY <1>2, <1>4, <1>7
  <1>9. /\ op'[p].call = op[p].call /\ op'[p].called = 1
        /\ op'[p].is_cancelled = op[p].is_cancelled /\ op'[p].late = op[p].late
        /\ op'[p].done_callback = op[p].done_callback /\ op'[p].status = op[p].status
        /\ op'[p].elements_requested = op[p].elements_requested
    BY <1>6, <1>8
  <1>10. PICK s \in Seq(Entry) : s = Tail(thr[t].todo)
    BY <1>3
  <1>11. thr' = [thr EXCEPT ![t].todo = s]
    BY <1>10
  <1>12. thr' \in [Threads -> Thread]
    <2>1. [thr[t] EXCEPT !.todo = s] \in Thread
      BY <1>2 DEF Thread, Entry
    <2> QED BY <1>2, <1>11, <2>1
  <1>13. /\ \A u \in Threads \ {t} : thr'[u] = thr[u]
         /\ thr'[t].todo = s /\ thr'[t].pc = thr[t].pc /\ thr'[t].changed = thr[t].changed
    BY <1>2, <1>11 DEF Thread
  <1>14. TodoOK(thr', op')
    <2>1. TakesFirst(t, thr, op, thr', op')
      BY <1>1, <1>8, <1>10, <1>13 DEF TakesFirst
    <2> QED BY <1>2, <1>12, <2>1, TodoTail
  <1>15. StillWaits(op'[p], op[p])
    BY <1>5, <1>9 DEF StillWaits, Waiting
  <1>16. /\ \A o \in Ops : op'[o].call = op[o].call
         /\ AttemptsOK(enqueue_attempts, Producing, op') /\ WaitingInv(enqueue_attempts, op')
         /\ AttemptsOK(dequeue_attempts, Consuming, op') /\ WaitingInv(dequeue_attempts, op')
    BY <1>4, <1>8, <1>9, <1>15, OneChanges
  <1>17. ASSUME NEW o \in Ops PROVE OperationOK(op'[o], thr'[<<o, "call">>].pc)
    <2>1. thr'[<<o, "call">>].pc = thr[<<o, "call">>].pc
      BY <1>13 DEF Threads
    <2>2. OperationOK(op[o], thr[<<o, "call">>].pc)
      BY DEF CallbackInv
    <2>3. CASE o # p
      BY <1>8, <2>1, <2>2, <2>3
    <2>4. CASE o = p
      <3>1. op'[p].called <= 1
        BY <1>9
      <3>2. op'[p].call # <<>> /\ op'[p].call.kind # "close_cancel" /\ op'[p].done_callback = "null"
        BY <1>5, <1>9, NoCallIs
      <3> QED BY ONLY <2>4, <3>1, <3>2 DEF OperationOK
    <2> QED BY <2>3, <2>4
  <1>18. CallbackInv'
    BY <1>14, <1>16, <1>17 DEF CallbackInv
  <1>19. \A u \in Threads : thr'[u].pc = thr[u].pc /\ thr'[u].changed = thr[u].changed
    BY <1>13
  <1> QED BY <1>5, <1>8, <1>9, <1>12, <1>16, <1>18, <1>19

LEMMA CallCallbackCallbacks ==
    ASSUME TypeOK, CallbackInv, NEW t \in Threads, CallCallback(t) PROVE TypeOK' /\ CallbackInv'
  <1>1. /\ op' \in [Ops -> Operation] /\ thr' \in [Threads -> Thread] /\ CallbackInv'
        /\ \A o \in Ops : op'[o].call = op[o].call
    BY CalledCallbacks DEF CallCallback
  <1> QED BY <1>1, OtherTypes DEF CallCallback, TypeOK, ManagerType, CbStates

LEMMA CleanUpCallbacks ==
    ASSUME TypeOK, CallbackInv, NEW t \in Threads, CleanUp(t) PROVE TypeOK' /\ CallbackInv'
  <1>1. /\ op' \in [Ops -> Operation] /\ thr' \in [Threads -> Thread] /\ CallbackInv'
        /\ \A o \in Ops : op'[o].call = op[o].call
    BY CalledCallbacks DEF CleanUp
  <1>2. cb' \in [Ops -> CbStates]
    BY DEF CleanUp, TypeOK, CbStates
  <1> QED BY <1>1, <1>2, OtherTypes DEF CleanUp, TypeOK, ManagerType

LEMMA ReturnCallbacks ==
    ASSUME TypeOK, CallbackInv, NEW t \in Threads, Return(t) PROVE TypeOK' /\ CallbackInv'
  <1>1. /\ thr[t].pc = "clean" /\ thr' = [thr EXCEPT ![t].pc = "returned"]
        /\ UNCHANGED <<closed, queues, enqueue_attempts, dequeue_attempts, mu, cm>>
    BY DEF Return
  <1>2. cb' \in [Ops -> CbStates]
    BY DEF Return, TypeOK, CbStates, Threads
  <1>3. thr \in [Threads -> Thread] /\ op \in [Ops -> Operation] /\ TodoOK(thr, op)
    BY DEF TypeOK, CallbackInv
  <1>4. thr' \in [Threads -> Thread]
    BY <1>1, <1>3 DEF Thread
  <1>5. /\ \A u \in Threads \ {t} : thr'[u] = thr[u]
        /\ thr'[t].todo = thr[t].todo /\ thr'[t].pc = "returned"
    BY <1>1, <1>3 DEF Thread
  <1>6. CASE op' = op
    <2>1. CallbackInv'
      BY <1>1, <1>4, <1>5, <1>6, QuietCallbacks DEF PcMoves
    <2> QED BY <1>1, <1>2, <1>3, <1>4, <1>6, <2>1, OtherTypes DEF TypeOK, ManagerType
  <1>7. CASE op' # op
    <2>1. PICK p \in Ops : t = <<p, "call">> /\ op[p].call.kind = "close_cancel"
                           /\ op' = [Called(p) EXCEPT ![p].done_callback = "null"]
      BY <1>7 DEF Return, Threads, Kind
    <2>2. OperationOK(op[p], thr[t].pc) /\ op[p] \in Operation
      BY <1>3, <2>1 DEF CallbackInv
    <2>3. op[p].call \in Call
      BY <1>1, <2>2 DEF OperationOK, Operation
    <2>4. op[p].called = 0
      BY <1>1, <2>1, <2>2, <2>3, NoCallIs DEF OperationOK
    <2>5. PICK b \in Operation :
             /\ b = [op[p] EXCEPT !.called = 1] /\ b.called = 1 /\ b.call = op[p].call
             /\ b.is_cancelled = op[p].is_cancelled
      BY <2>2, CalledIs
    <2>6. PICK c : c = [b EXCEPT !.done_callback = "null"]
      OBVIOUS
    <2>7. c \in Operation
      BY <2>6 DEF Operation
    <2>8. /\ c.called = 1 /\ c.call = op[p].call /\ c.is_cancelled = op[p].is_cancelled
          /\ c.done_callback = "null"
      BY <2>5, <2>6 DEF Operation
    <2>9. op' = [op EXCEPT ![p] = c]
      <3>1. Called(p) = [op EXCEPT ![p] = b]
        BY <1>3, <2>4, <2>5 DEF Called
      <3> QED BY <1>3, <2>1, <2>6, <3>1
    <2>10. op' \in [Ops -> Operation] /\ op'[p] = c /\ \A o \in Ops \ {p} : op'[o] = op[o]
      BY <1>3, <2>7, <2>9
    <2>11. AttemptsOK(enqueue_attempts, Producing, op') /\ AttemptsOK(dequeue_attempts, Consuming, op')
      BY <1>3, <2>8, <2>10, AttemptsFrame DEF TypeOK, CallbackInv
    <2>12. /\ \A i \in 1 .. Len(enqueue_attempts) : enqueue_attempts[i] \in Ops \ {p}
           /\ \A i \in 1 .. Len(dequeue_attempts) : dequeue_attempts[i] \in Ops \ {p}
      BY <2>1, ElementOfSeq DEF TypeOK, CallbackInv, AttemptsOK, Producing, Consuming
    <2>13. WaitingInv(enqueue_attempts, op') /\ WaitingInv(dequeue_attempts, op')
      BY <2>10, <2>12 DEF CallbackInv, WaitingInv
    <2>14. TodoOK(thr', op')
      <3>1. \A u \in Threads : thr'[u].todo = thr[u].todo
        BY <1>5
      <3>2. ASSUME NEW u \in Threads, NEW i \in 1 .. Len(thr[u].todo)
            PROVE  EntryOK(thr[u].todo[i], op'[thr[u].todo[i].op])
        <4>1. /\ EntryOK(thr[u].todo[i], op[thr[u].todo[i].op]) /\ thr[u].todo[i].op \in Ops
          BY <1>3, TodoTyped DEF TodoOK
        <4>2. thr[u].todo[i].op # p
          BY <2>1, <4>1 DEF EntryOK
        <4> QED BY <2>10, <4>1, <4>2
      <3> QED BY <1>3, <3>1, <3>2, SMTT(30) DEF TodoOK
    <2>15. ASSUME NEW o \in Ops PROVE OperationOK(op'[o], thr'[<<o, "call">>].pc)
      <3>1. OperationOK(op[o], thr[<<o, "call">>].pc)
        BY DEF CallbackInv
      <3>2. CASE o = p
        <4>1. thr'[<<o, "call">>].pc = "returned"
          BY <1>5, <2>1, <3>2
        <4>2. /\ op'[o].called = 1 /\ op'[o].call # <<>> /\ op'[o].done_callback = "null"
          BY <2>3, <2>8, <2>10, <3>2, NoCallIs
        <4> QED BY <4>1, <4>2 DEF OperationOK
      <3>3. CASE o # p
        <4>1. <<o, "call">> # t /\ <<o, "call">> \in Threads
          BY <2>1, <3>3 DEF Threads
        <4> QED BY <1>5, <2>10, <3>1, <3>3, <4>1
      <3> QED BY <3>2, <3>3
    <2>16. CallbackInv'
      BY <1>1, <2>11, <2>13, <2>14, <2>15 DEF CallbackInv
    <2>17. \A o \in Ops : op'[o].call = op[o].call
      BY <2>8, <2>10
    <2> QED BY <1>1, <1>2, <1>4, <2>10, <2>16, <2>17, OtherTypes DEF TypeOK, ManagerType
  <1> QED BY <1>6, <1>7

(* What RunAttempt does: with b, the attempt after its run callback, the   *)
(* attempt ends or stays.                                                  *)
Ends(t, action, o, b) ==
    /\ run_callback(o).result = "kComplete"
    /\ op' = [op EXCEPT ![o] = [b EXCEPT !.done_callback = "null"]]
    /\ thr' = [thr EXCEPT ![t].changed = TRUE,
                          ![t].todo = Append(@, [op |-> o, callback |-> b.done_callback])]
    /\ SetAttempts(action, Tail(Attempts(action)))
    /\ mu' = mu
Stays(t, action, o, b) ==
    /\ run_callback(o).result # "kComplete"
    /\ op' = [op EXCEPT ![o] = b]
    /\ Returns(t, action, thr[t].changed \/ run_callback(o).result = "kProgress")
    /\ enqueue_attempts' = enqueue_attempts /\ dequeue_attempts' = dequeue_attempts
Kinds(action) == IF action = "enqueue" THEN Producing ELSE Consuming

LEMMA RunAttemptIs ==
    ASSUME TypeOK, CallbackInv, NEW t \in Threads, NEW action \in {"enqueue", "dequeue"},
           RunAttempt(t, action)
    PROVE  \E o \in Ops, b \in Operation :
              /\ thr[t].pc = action /\ Attempts(action) # <<>> /\ o = Head(Attempts(action))
              /\ ~op[o].is_cancelled /\ Waiting(op[o])
              /\ op[o].call \in Call /\ op[o].call.kind \in Kinds(action)
              /\ RunIs(run_callback(o).result, queues', closed', b, op[o])
              /\ Ends(t, action, o, b) \/ Stays(t, action, o, b)
              /\ cm' = cm /\ cb' = cb
  <1>1. PICK o : o = Head(Attempts(action))
    OBVIOUS
  <1>2. PICK b : b = run_callback(o).attempt
    OBVIOUS
  <1>3. /\ thr[t].pc = action /\ Attempts(action) # <<>> /\ ~op[o].is_cancelled
        /\ queues' = run_callback(o).queues /\ closed' = run_callback(o).closed
        /\ cm' = cm /\ cb' = cb
    BY <1>1 DEF RunAttempt
  <1>4. Ends(t, action, o, b) \/ Stays(t, action, o, b)
    BY <1>1, <1>2 DEF RunAttempt, Ends, Stays
  <1>5. /\ Attempts(action) \in Seq(Ops) /\ WaitingInv(Attempts(action), op)
        /\ AttemptsOK(Attempts(action), Kinds(action), op)
    BY AttemptsTyped DEF Kinds
  <1>6. o \in Ops /\ o = Attempts(action)[1] /\ 1 \in 1 .. Len(Attempts(action))
    BY <1>1, <1>3, <1>5, FrontAndRest
  <1>7. Waiting(op[o]) /\ op[o].call \in Call /\ op[o].call.kind \in Kinds(action)
    BY <1>3, <1>5, <1>6 DEF WaitingInv, AttemptsOK
  <1>8. op[o].call.kind \in Producing \cup Consuming
    BY <1>7 DEF Kinds
  <1>9. RunOK(run_callback(o), op[o])
    BY <1>6, <1>7, <1>8, RunCallbackOK
  <1>10. RunIs(run_callback(o).result, queues', closed', b, op[o])
    BY <1>2, <1>3, <1>9 DEF RunOK
  <1>11. b \in Operation
    BY <1>10 DEF RunIs
  <1> QED BY <1>1, <1>3, <1>4, <1>6, <1>7, <1>10, <1>11

LEMMA StaysCallbacks ==
    ASSUME TypeOK, CallbackInv, NEW t \in Threads, NEW action \in {"enqueue", "dequeue"},
           NEW o \in Ops, NEW b \in Operation, thr[t].pc = action, Waiting(op[o]),
           op[o].call \in Call, op[o].call.kind \in Kinds(action),
           RunIs(run_callback(o).result, queues', closed', b, op[o]), Stays(t, action, o, b),
           cm' = cm, cb' = cb
    PROVE  TypeOK' /\ CallbackInv'
  <1>1. Waiting(b) /\ SameCall(b, op[o]) /\ queues' \in Queues /\ closed' \in BOOLEAN
    BY DEF RunIs, Stays
  <1>2. op \in [Ops -> Operation] /\ thr \in [Threads -> Thread] /\ TodoOK(thr, op)
    BY DEF TypeOK, CallbackInv
  <1>3. op' \in [Ops -> Operation] /\ op'[o] = b /\ \A p \in Ops \ {o} : op'[p] = op[p]
    BY <1>2 DEF Stays
  <1>4. op'[o].call = op[o].call /\ StillWaits(op'[o], op[o])
    BY <1>1, <1>3 DEF SameCall, StillWaits
  <1>5. /\ \A p \in Ops : op'[p].call = op[p].call
        /\ AttemptsOK(enqueue_attempts, Producing, op') /\ WaitingInv(enqueue_attempts, op')
        /\ AttemptsOK(dequeue_attempts, Consuming, op') /\ WaitingInv(dequeue_attempts, op')
    BY <1>3, <1>4, OneChanges
  <1>6. PICK c \in BOOLEAN : c = (thr[t].changed \/ run_callback(o).result = "kProgress")
    BY <1>2 DEF Thread
  <1>7. Returns(t, action, c)
    BY <1>6 DEF Stays
  <1>8. /\ thr' \in [Threads -> Thread] /\ mu' \in Threads \cup {NoThread}
        /\ \A u \in Threads : /\ thr'[u].todo = thr[u].todo
                              /\ PcMoves(thr'[u].pc, thr[u].pc)
    BY <1>7, ReturnsThreads
  <1>9. TodoOK(thr', op')
    <2>1. PICK y2, x2 : y2 = thr' /\ x2 = op'
      OBVIOUS
    <2>2. y2 \in [Threads -> Thread] /\ \A u \in Threads : y2[u].todo = thr[u].todo
      BY <1>8, <2>1
    <2>3. \A p \in Ops : InTodo(op[p]) => x2[p] = op[p]
      BY <1>3, <2>1 DEF InTodo, Waiting
    <2>4. TodoOK(y2, x2)
      BY ONLY <1>2, <2>2, <2>3, TodoFrame
    <2> QED BY <2>1, <2>4
  <1>10. ASSUME NEW p \in Ops PROVE OperationOK(op'[p], thr'[<<p, "call">>].pc)
    <2>1. OperationOK(op[p], thr[<<p, "call">>].pc)
      BY DEF CallbackInv
    <2>2. PcMoves(thr'[<<p, "call">>].pc, thr[<<p, "call">>].pc)
      BY <1>8 DEF Threads
    <2>3. CASE p # o
      BY <1>3, <2>1, <2>2, <2>3 DEF OperationOK, PcMoves
    <2>4. CASE p = o
      <3>1. b.call \in Call /\ b.called = 0 /\ b.done_callback = "empty"
            /\ b.is_cancelled = op[o].is_cancelled /\ op[o].done_callback = "empty"
        BY <1>1 DEF Waiting, SameCall
      <3>2. b.call # <<>> /\ ~b.is_cancelled
        BY <2>1, <2>4, <3>1, NoCallIs DEF OperationOK
      <3> QED BY <1>3, <2>4, <3>1, <3>2 DEF OperationOK
    <2> QED BY <2>3, <2>4
  <1>11. UNCHANGED <<enqueue_attempts, dequeue_attempts>>
    BY DEF Stays
  <1>12. CallbackInv'
    BY <1>5, <1>9, <1>10, <1>11 DEF CallbackInv
  <1>13. TypeOK'
    BY <1>1, <1>3, <1>5, <1>8, <1>11 DEF TypeOK, Queues, Item
  <1> QED BY <1>12, <1>13

(* The attempt at the front is popped and operation o is changed.          *)
LEMMA PopAttempts ==
    ASSUME TypeOK, CallbackInv, NEW action \in {"enqueue", "dequeue"}, NEW o \in Ops,
           Attempts(action) # <<>>, o = Head(Attempts(action)), op[o].call.kind \in Kinds(action),
           op' \in [Ops -> Operation], \A p \in Ops \ {o} : op'[p] = op[p],
           op'[o].call = op[o].call, SetAttempts(action, Tail(Attempts(action)))
    PROVE  /\ enqueue_attempts' \in Seq(Ops) /\ dequeue_attempts' \in Seq(Ops)
           /\ AttemptsOK(enqueue_attempts', Producing, op') /\ WaitingInv(enqueue_attempts', op')
           /\ AttemptsOK(dequeue_attempts', Consuming, op') /\ WaitingInv(dequeue_attempts', op')
  <1>1. PICK x2 : x2 = op'
    OBVIOUS
  <1>2. \A p \in Ops : op[p].call \in Call => x2[p].call = op[p].call
    BY <1>1
  <1>3. \A p \in Ops \ {o} : x2[p] = op[p]
    BY <1>1
  <1>4. ASSUME NEW s \in Seq(Ops), NEW kinds, s # <<>>, o = Head(s), AttemptsOK(s, kinds, op),
               WaitingInv(s, op)
        PROVE  Tail(s) \in Seq(Ops) /\ AttemptsOK(Tail(s), kinds, x2) /\ WaitingInv(Tail(s), x2)
    <2>1. Tail(s) \in Seq(Ops)
      BY <1>4, FrontAndRest
    <2>2. AttemptsOK(Tail(s), kinds, op)
      BY <1>4, AttemptsTail
    <2>3. AttemptsOK(Tail(s), kinds, x2)
      BY <1>2, <2>1, <2>2, AttemptsFrame
    <2>4. \A p \in Ops \ {Head(s)} : x2[p] = op[p]
      BY <1>3, <1>4
    <2>5. WaitingInv(Tail(s), x2)
      BY <1>4, <2>4, WaitingTail
    <2> QED BY <2>1, <2>3, <2>5
  <1>5. ASSUME NEW s \in Seq(Ops), NEW kinds, op[o].call.kind \notin kinds, AttemptsOK(s, kinds, op),
               WaitingInv(s, op)
        PROVE  AttemptsOK(s, kinds, x2) /\ WaitingInv(s, x2)
    <2>1. AttemptsOK(s, kinds, x2)
      BY <1>2, <1>5, AttemptsFrame
    <2>2. \A i \in 1 .. Len(s) : s[i] \in Ops \ {o}
      BY <1>5, ElementOfSeq DEF AttemptsOK
    <2> QED BY <1>3, <1>5, <2>1, <2>2 DEF WaitingInv
  <1>6. /\ enqueue_attempts \in Seq(Ops) /\ dequeue_attempts \in Seq(Ops)
        /\ AttemptsOK(enqueue_attempts, Producing, op) /\ WaitingInv(enqueue_attempts, op)
        /\ AttemptsOK(dequeue_attempts, Consuming, op) /\ WaitingInv(dequeue_attempts, op)
    BY DEF TypeOK, CallbackInv
  <1>7. CASE action = "enqueue"
    <2>1. /\ enqueue_attempts # <<>> /\ o = Head(enqueue_attempts)
          /\ op[o].call.kind \notin Consuming
          /\ enqueue_attempts' = Tail(enqueue_attempts) /\ dequeue_attempts' = dequeue_attempts
      BY <1>7 DEF Attempts, SetAttempts, Kinds, Producing, Consuming
    <2>2. /\ Tail(enqueue_attempts) \in Seq(Ops) /\ AttemptsOK(Tail(enqueue_attempts), Producing, x2)
          /\ WaitingInv(Tail(enqueue_attempts), x2)
      BY <1>4, <1>6, <2>1
    <2>3. AttemptsOK(dequeue_attempts, Consuming, x2) /\ WaitingInv(dequeue_attempts, x2)
      BY <1>5, <1>6, <2>1
    <2> QED BY <1>1, <1>6, <2>1, <2>2, <2>3
  <1>8. CASE action = "dequeue"
    <2>1. /\ dequeue_attempts # <<>> /\ o = Head(dequeue_attempts)
          /\ op[o].call.kind \notin Producing
          /\ dequeue_attempts' = Tail(dequeue_attempts) /\ enqueue_attempts' = enqueue_attempts
      BY <1>8 DEF Attempts, SetAttempts, Kinds, Producing, Consuming
    <2>2. /\ Tail(dequeue_attempts) \in Seq(Ops) /\ AttemptsOK(Tail(dequeue_attempts), Consuming, x2)
          /\ WaitingInv(Tail(dequeue_attempts), x2)
      BY <1>4, <1>6, <2>1
    <2>3. AttemptsOK(enqueue_attempts, Producing, x2) /\ WaitingInv(enqueue_attempts, x2)
      BY <1>5, <1>6, <2>1
    <2> QED BY <1>1, <1>6, <2>1, <2>2, <2>3
  <1> QED BY <1>7, <1>8

(* What an attempt is after its callback was moved.                        *)
LEMMA MovedIs ==
    ASSUME NEW b \in Operation
    PROVE  \E c \in Operation :
              /\ c = [b EXCEPT !.done_callback = "null"] /\ c.done_callback = "null"
              /\ SameCall(c, b) /\ c.status = b.status /\ c.tuple = b.tuple
              /\ c.elements_requested = b.elements_requested
  <1>1. PICK c : c = [b EXCEPT !.done_callback = "null"]
    OBVIOUS
  <1>2. c \in Operation /\ c.done_callback = "null"
    BY <1>1 DEF Operation
  <1>3. SameCall(c, b) /\ c.status = b.status /\ c.tuple = b.tuple
        /\ c.elements_requested = b.elements_requested
    BY <1>1 DEF Operation, SameCall
  <1> QED BY <1>1, <1>2, <1>3

LEMMA EndsThreads ==
    ASSUME TypeOK, NEW t \in Threads, NEW action, NEW o \in Ops, NEW b \in Operation,
           Ends(t, action, o, b)
    PROVE  \E e \in Entry :
              /\ e.op = o /\ e.callback = b.done_callback
              /\ thr' \in [Threads -> Thread] /\ \A u \in Threads \ {t} : thr'[u] = thr[u]
              /\ thr'[t].todo = Append(thr[t].todo, e)
              /\ thr'[t].pc = thr[t].pc /\ thr'[t].changed = TRUE
  <1>1. PICK e : e = [op |-> o, callback |-> b.done_callback]
    OBVIOUS
  <1>2. e \in Entry /\ e.op = o /\ e.callback = b.done_callback
    BY <1>1 DEF Entry, Operation
  <1>3. thr \in [Threads -> Thread] /\ thr[t].todo \in Seq(Entry)
    BY TodoTyped DEF TypeOK
  <1>4. PICK s \in Seq(Entry) : s = Append(thr[t].todo, e)
    BY <1>2, <1>3, AppendOne
  <1>5. thr' = [thr EXCEPT ![t].changed = TRUE, ![t].todo = s]
    BY <1>1, <1>3, <1>4 DEF Ends, Thread
  <1>6. thr' \in [Threads -> Thread]
    BY <1>3, <1>5 DEF Thread, Entry
  <1>7. /\ \A u \in Threads \ {t} : thr'[u] = thr[u]
        /\ thr'[t].todo = s /\ thr'[t].pc = thr[t].pc /\ thr'[t].changed = TRUE
    BY <1>3, <1>5 DEF Thread
  <1> QED BY <1>2, <1>4, <1>6, <1>7

LEMMA EndsCallbacks ==
    ASSUME TypeOK, CallbackInv, NEW t \in Threads, NEW action \in {"enqueue", "dequeue"},
           NEW o \in Ops, NEW b \in Operation, Attempts(action) # <<>>,
           o = Head(Attempts(action)), Waiting(op[o]),
           op[o].call \in Call, op[o].call.kind \in Kinds(action),
           RunIs(run_callback(o).result, queues', closed', b, op[o]), Ends(t, action, o, b),
           cm' = cm, cb' = cb
    PROVE  TypeOK' /\ CallbackInv'
  <1>1. /\ b.done_callback # "null" /\ Finished(b.done_callback, b) /\ SameCall(b, op[o])
        /\ queues' \in Queues /\ closed' \in BOOLEAN
    BY DEF RunIs, Ends
  <1>2. op \in [Ops -> Operation] /\ thr \in [Threads -> Thread] /\ TodoOK(thr, op)
    BY DEF TypeOK, CallbackInv
  <1>3. PICK c \in Operation :
           /\ c = [b EXCEPT !.done_callback = "null"] /\ c.done_callback = "null"
           /\ SameCall(c, b) /\ c.status = b.status /\ c.tuple = b.tuple
           /\ c.elements_requested = b.elements_requested
    BY MovedIs
  <1>4. op' = [op EXCEPT ![o] = c]
    BY <1>3 DEF Ends
  <1>5. op' \in [Ops -> Operation] /\ op'[o] = c /\ \A p \in Ops \ {o} : op'[p] = op[p]
    BY <1>2, <1>4
  <1>6. /\ c.call = op[o].call /\ c.called = 0 /\ c.call = b.call
        /\ op[o].done_callback = "empty"
    BY <1>1, <1>3 DEF SameCall, Waiting
  <1>7. PICK e \in Entry :
           /\ e.op = o /\ e.callback = b.done_callback
           /\ thr' \in [Threads -> Thread] /\ \A u \in Threads \ {t} : thr'[u] = thr[u]
           /\ thr'[t].todo = Append(thr[t].todo, e)
           /\ thr'[t].pc = thr[t].pc /\ thr'[t].changed = TRUE
    BY ONLY TypeOK, t \in Threads, o \in Ops, b \in Operation, Ends(t, action, o, b), EndsThreads, ZenonT(30)
  <1>8. c.call.kind # "close_cancel" /\ c.call # <<>>
    BY <1>6, NoCallIs DEF Kinds, Producing, Consuming
  <1>9. EntryOK(e, c)
    <2>1. Finished(e.callback, c)
      BY <1>1, <1>3, <1>6, <1>7 DEF Finished
    <2> QED BY <1>1, <1>3, <1>6, <1>7, <1>8, <2>1 DEF EntryOK
  <1>10. TodoOK(thr', op')
    <2>1. PICK y2, x2 : y2 = thr' /\ x2 = op'
      OBVIOUS
    <2>2. PICK n \in Nat : n = Len(thr[t].todo)
      BY <1>2, TodoTyped
    <2>3. /\ Len(y2[t].todo) = n + 1
          /\ \A i \in 1 .. n + 1 : y2[t].todo[i] = IF i <= n THEN thr[t].todo[i] ELSE e
      <3>1. thr[t].todo \in Seq(Entry)
        BY <1>2, TodoTyped
      <3>2. /\ Len(Append(thr[t].todo, e)) = n + 1
            /\ \A i \in 1 .. n + 1 : Append(thr[t].todo, e)[i] = IF i <= n THEN thr[t].todo[i] ELSE e
        BY <2>2, <3>1, AppendOne
      <3> QED BY <1>7, <2>1, <3>2
    <2>4. \A p \in Ops : InTodo(op[p]) => x2[p] = op[p]
      BY <1>5, <1>6, <2>1 DEF InTodo
    <2>5. \A u \in Threads \ {t} : y2[u].todo = thr[u].todo
      BY <1>7, <2>1
    <2>6. ASSUME NEW i \in 1 .. n + 1
          PROVE  IF i \in {n + 1} THEN /\ ~InTodo(op[y2[t].todo[i].op])
                                       /\ EntryOK(y2[t].todo[i], x2[y2[t].todo[i].op])
                 ELSE i <= n /\ y2[t].todo[i] = thr[t].todo[i]
      <3>1. CASE i = n + 1
        <4>1. y2[t].todo[i] = e
          BY <2>3, <3>1
        <4>2. ~InTodo(op[o]) /\ x2[o] = c
          BY <1>5, <1>6, <2>1 DEF InTodo
        <4> QED BY <1>7, <1>9, <3>1, <4>1, <4>2
      <3>2. CASE i # n + 1
        BY <2>3, <3>2
      <3> QED BY <3>1, <3>2
    <2>7. TakesNew(t, {n + 1}, thr, op, y2, x2)
      BY <2>2, <2>3, <2>4, <2>5, <2>6 DEF TakesNew
    <2>8. y2 \in [Threads -> Thread] /\ {n + 1} \in SUBSET (1 .. Len(y2[t].todo))
      BY <1>7, <2>1, <2>3
    <2>9. TodoOK(y2, x2)
      BY <1>2, <2>7, <2>8, TodoAdd
    <2> QED BY <2>1, <2>9
  <1>11. SetAttempts(action, Tail(Attempts(action))) /\ mu' = mu
    BY DEF Ends
  <1>12. /\ enqueue_attempts' \in Seq(Ops) /\ dequeue_attempts' \in Seq(Ops)
         /\ AttemptsOK(enqueue_attempts', Producing, op') /\ WaitingInv(enqueue_attempts', op')
         /\ AttemptsOK(dequeue_attempts', Consuming, op') /\ WaitingInv(dequeue_attempts', op')
    BY <1>5, <1>6, <1>11, PopAttempts
  <1>13. ASSUME NEW p \in Ops PROVE OperationOK(op'[p], thr'[<<p, "call">>].pc)
    <2>1. OperationOK(op[p], thr[<<p, "call">>].pc)
      BY DEF CallbackInv
    <2>2. thr'[<<p, "call">>].pc = thr[<<p, "call">>].pc
      BY <1>7 DEF Threads
    <2>3. CASE p # o
      BY <1>5, <2>1, <2>2, <2>3
    <2>4. CASE p = o
      <3>1. op'[p].called = 0 /\ op'[p].call # <<>> /\ op'[p].done_callback = "null"
        BY <1>3, <1>5, <1>6, <1>8, <2>4
      <3> QED BY ONLY <3>1 DEF OperationOK
    <2> QED BY <2>3, <2>4
  <1>14. CallbackInv'
    BY <1>10, <1>12, <1>13 DEF CallbackInv
  <1>15. \A p \in Ops : op'[p].call = op[p].call
    BY <1>5, <1>6
  <1>16. TypeOK'
    BY <1>1, <1>5, <1>7, <1>11, <1>12, <1>15 DEF TypeOK, Queues, Item
  <1> QED BY <1>14, <1>16

LEMMA RunAttemptCallbacks ==
    ASSUME TypeOK, CallbackInv, NEW t \in Threads, NEW action \in {"enqueue", "dequeue"},
           RunAttempt(t, action)
    PROVE  TypeOK' /\ CallbackInv'
  <1>1. PICK o \in Ops, b \in Operation :
           /\ thr[t].pc = action /\ Attempts(action) # <<>> /\ o = Head(Attempts(action))
           /\ ~op[o].is_cancelled /\ Waiting(op[o])
           /\ op[o].call \in Call /\ op[o].call.kind \in Kinds(action)
           /\ RunIs(run_callback(o).result, queues', closed', b, op[o])
           /\ Ends(t, action, o, b) \/ Stays(t, action, o, b)
           /\ cm' = cm /\ cb' = cb
    BY RunAttemptIs
  <1>2. CASE Ends(t, action, o, b)
    BY <1>1, <1>2, EndsCallbacks
  <1>3. CASE Stays(t, action, o, b)
    BY <1>1, <1>3, StaysCallbacks
  <1> QED BY <1>1, <1>2, <1>3

(* An operation as it is made.                                             *)
LEMMA NewOpIs ==
    ASSUME TypeOK, NEW o \in Ops, NEW c \in Calls[o]
    PROVE  /\ NewOp(c) \in Operation /\ c \in Call /\ NewOp(c).call = c
           /\ NewOp(c).done_callback = "empty" /\ NewOp(c).called = 0
           /\ NewOp(c).status = "OK" /\ NewOp(c).tuple = <<>> /\ ~NewOp(c).is_cancelled
           /\ NewOp(c).elements_requested = c.n
           /\ NewOp(c).late = (\E p \in Ops : op[p].call # <<>> /\ op[p].call.kind \in Closing)
           /\ Waiting(NewOp(c))
  <1>1. c \in Call /\ (c.cm # NoCM => c.cm \in Managers) /\ c.n \in Nat
    <2>1. c \in Call
      BY QueueAssumption
    <2> QED BY <2>1 DEF Call
  <1>2. PICK k \in Int : k = IF c.cm = NoCM THEN kInvalidToken ELSE cm[c.cm].next_token
    <2>1. kInvalidToken \in Int
      BY DEF kInvalidToken
    <2>2. c.cm # NoCM => cm[c.cm].next_token \in Int
      BY <1>1 DEF TypeOK
    <2> QED BY <2>1, <2>2
  <1>3. PICK l \in BOOLEAN : l = (\E p \in Ops : op[p].call # <<>> /\ op[p].call.kind \in Closing)
    OBVIOUS
  <1>4. NewOp(c) = [NoOp EXCEPT !.call = c, !.elements_requested = c.n, !.done_callback = "empty",
                                !.token = k, !.late = l]
    BY <1>2, <1>3 DEF NewOp, Started, Kind, Closing
  <1>5. NewOp(c) = [call |-> c, token |-> k, elements_requested |-> c.n, tuple |-> <<>>,
                    is_cancelled |-> FALSE, done_callback |-> "empty", status |-> "OK",
                    called |-> 0, late |-> l]
    BY <1>4 DEF NoOp
  <1>6. PICK a : a = NewOp(c)
    OBVIOUS
  <1>7. <<>> \in Seq(Slice) /\ Len(<<>>) = 0
    BY EmptySeq
  <1>8. a \in Operation
    BY <1>1, <1>5, <1>6, <1>7 DEF Operation, Statuses
  <1>9. /\ a.call = c /\ a.done_callback = "empty" /\ a.called = 0 /\ a.status = "OK"
        /\ a.tuple = <<>> /\ ~a.is_cancelled /\ a.elements_requested = c.n /\ a.late = l
    BY <1>5, <1>6
  <1>10. Waiting(a)
    BY <1>1, <1>7, <1>9 DEF Waiting
  <1> QED BY <1>1, <1>3, <1>6, <1>8, <1>9, <1>10

(* Operation o begins, as a; the thread in it goes on to pc.               *)
Begins(o, a, pc) ==
    /\ op[o].call = <<>> /\ a \in Operation /\ a.call \in Calls[o] /\ a.call.kind # "close_cancel"
    /\ a.called <= 1 /\ (a.is_cancelled => a.done_callback = "null")
    /\ op' = [op EXCEPT ![o] = a]
    /\ pc \in {"outside", "returned"} /\ thr' = [thr EXCEPT ![<<o, "call">>].pc = pc]

LEMMA BeginsIs ==
    ASSUME TypeOK, CallbackInv, NEW o \in Ops, NEW a, NEW pc, Begins(o, a, pc)
    PROVE  /\ op' \in [Ops -> Operation] /\ thr' \in [Threads -> Thread]
           /\ op'[o] = a /\ \A p \in Ops \ {o} : op'[p] = op[p]
           /\ op[o].call \notin Call /\ a.call \in Call
           /\ \A p \in Ops : op'[p].call = op[p].call \/ op'[p].call \in Calls[p]
           /\ \A p \in Ops : op[p].call \in Call => op'[p].call = op[p].call
           /\ \A p \in Ops : op[p].call \in Call => StillWaits(op'[p], op[p])
           /\ \A u \in Threads \ {<<o, "call">>} : thr'[u] = thr[u]
           /\ thr'[<<o, "call">>].todo = thr[<<o, "call">>].todo /\ thr'[<<o, "call">>].pc = pc
           /\ thr'[<<o, "call">>].changed = thr[<<o, "call">>].changed
           /\ TodoOK(thr', op')
           /\ \A p \in Ops : OperationOK(op'[p], thr'[<<p, "call">>].pc)
  <1>1. op \in [Ops -> Operation] /\ thr \in [Threads -> Thread] /\ TodoOK(thr, op)
    BY DEF TypeOK, CallbackInv
  <1>2. op' \in [Ops -> Operation] /\ op'[o] = a /\ \A p \in Ops \ {o} : op'[p] = op[p]
    BY <1>1 DEF Begins
  <1>3. op[o].call = <<>> /\ op[o].call \notin Call /\ a.call \in Call /\ a.call \in Calls[o]
    BY NoCallIs, QueueAssumption DEF Begins
  <1>4. PICK t \in Threads : t = <<o, "call">>
    BY DEF Threads
  <1>5. thr' = [thr EXCEPT ![t].pc = pc] /\ pc \in {"outside", "returned"}
    BY <1>4 DEF Begins
  <1>6. thr' \in [Threads -> Thread]
    BY <1>1, <1>5 DEF Thread
  <1>7. /\ \A u \in Threads \ {t} : thr'[u] = thr[u]
        /\ thr'[t].todo = thr[t].todo /\ thr'[t].pc = pc /\ thr'[t].changed = thr[t].changed
    BY <1>1, <1>5 DEF Thread
  <1>8. TodoOK(thr', op')
    <2>1. PICK y2, x2 : y2 = thr' /\ x2 = op'
      OBVIOUS
    <2>2. y2 \in [Threads -> Thread] /\ \A u \in Threads : y2[u].todo = thr[u].todo
      BY <1>6, <1>7, <2>1
    <2>3. \A p \in Ops : InTodo(op[p]) => x2[p] = op[p]
      BY <1>2, <1>3, <2>1 DEF InTodo
    <2>4. TodoOK(y2, x2)
      BY ONLY <1>1, <2>2, <2>3, TodoFrame
    <2> QED BY <2>1, <2>4
  <1>9. ASSUME NEW p \in Ops PROVE OperationOK(op'[p], thr'[<<p, "call">>].pc)
    <2>1. CASE p = o
      <3>1. op'[p].call # <<>> /\ op'[p].call.kind # "close_cancel" /\ op'[p].called <= 1
            /\ (op'[p].is_cancelled => op'[p].done_callback = "null")
        BY <1>2, <1>3, <2>1, NoCallIs DEF Begins
      <3> QED BY ONLY <3>1 DEF OperationOK
    <2>2. CASE p # o
      <3>1. <<p, "call">> \in Threads \ {t}
        BY <1>4, <2>2 DEF Threads
      <3> QED BY <1>2, <1>7, <2>2, <3>1 DEF CallbackInv
    <2> QED BY <2>1, <2>2
  <1>10. \A p \in Ops : op[p].call \in Call => op'[p] = op[p]
    BY <1>2, <1>3
  <1>11. \A p \in Ops : op[p].call \in Call => StillWaits(op'[p], op[p])
    BY <1>10 DEF StillWaits
  <1>12. \A p \in Ops : op'[p].call = op[p].call \/ op'[p].call \in Calls[p]
    BY <1>2, <1>3
  <1> QED BY <1>2, <1>3, <1>4, <1>6, <1>7, <1>8, <1>9, <1>10, <1>11, <1>12

(* It does not wait.                                                       *)
LEMMA BeginsAtOnce ==
    ASSUME TypeOK, CallbackInv, NEW o \in Ops, NEW a, NEW pc, Begins(o, a, pc),
           UNCHANGED <<enqueue_attempts, dequeue_attempts>>
    PROVE  CallbackInv'
  <1>1. /\ \A p \in Ops : op[p].call \in Call => op'[p].call = op[p].call
        /\ \A p \in Ops : op[p].call \in Call => StillWaits(op'[p], op[p])
        /\ TodoOK(thr', op') /\ \A p \in Ops : OperationOK(op'[p], thr'[<<p, "call">>].pc)
    BY BeginsIs
  <1>2. /\ enqueue_attempts \in Seq(Ops) /\ dequeue_attempts \in Seq(Ops)
        /\ AttemptsOK(enqueue_attempts, Producing, op) /\ WaitingInv(enqueue_attempts, op)
        /\ AttemptsOK(dequeue_attempts, Consuming, op) /\ WaitingInv(dequeue_attempts, op)
    BY DEF TypeOK, CallbackInv
  <1>3. /\ AttemptsOK(enqueue_attempts, Producing, op') /\ WaitingInv(enqueue_attempts, op')
        /\ AttemptsOK(dequeue_attempts, Consuming, op') /\ WaitingInv(dequeue_attempts, op')
    BY <1>1, <1>2, AttemptsFrame, WaitingFrame
  <1> QED BY <1>1, <1>3 DEF CallbackInv

(* It waits behind the others.                                             *)
LEMMA BeginsWaiting ==
    ASSUME TypeOK, CallbackInv, NEW o \in Ops, NEW a, NEW pc, Begins(o, a, pc), Waiting(a),
           NEW action \in {"enqueue", "dequeue"}, a.call.kind \in Kinds(action),
           SetAttempts(action, Append(Attempts(action), o))
    PROVE  /\ enqueue_attempts' \in Seq(Ops) /\ dequeue_attempts' \in Seq(Ops) /\ CallbackInv'
  <1>1. PICK x2 : x2 = op'
    OBVIOUS
  <1>2. /\ \A p \in Ops : op[p].call \in Call => x2[p].call = op[p].call
        /\ \A p \in Ops : op[p].call \in Call => StillWaits(x2[p], op[p])
        /\ x2[o] = a /\ op[o].call \notin Call /\ a.call \in Call
    BY <1>1, BeginsIs
  <1>3. TodoOK(thr', op') /\ \A p \in Ops : OperationOK(op'[p], thr'[<<p, "call">>].pc)
    BY BeginsIs
  <1>4. /\ enqueue_attempts \in Seq(Ops) /\ dequeue_attempts \in Seq(Ops)
        /\ AttemptsOK(enqueue_attempts, Producing, op) /\ WaitingInv(enqueue_attempts, op)
        /\ AttemptsOK(dequeue_attempts, Consuming, op) /\ WaitingInv(dequeue_attempts, op)
    BY DEF TypeOK, CallbackInv
  <1>5. ASSUME NEW s \in Seq(Ops), NEW kinds, AttemptsOK(s, kinds, op), WaitingInv(s, op)
        PROVE  AttemptsOK(s, kinds, x2) /\ WaitingInv(s, x2)
    BY <1>2, <1>5, AttemptsFrame, WaitingFrame
  <1>6. ASSUME NEW s \in Seq(Ops), NEW kinds, AttemptsOK(s, kinds, op), WaitingInv(s, op),
               a.call.kind \in kinds
        PROVE  /\ Append(s, o) \in Seq(Ops) /\ AttemptsOK(Append(s, o), kinds, x2)
               /\ WaitingInv(Append(s, o), x2)
    <2>1. Append(s, o) \in Seq(Ops)
      BY AppendOne
    <2>2. AttemptsOK(Append(s, o), kinds, x2)
      BY <1>2, <1>6, AttemptsAppend
    <2>3. WaitingInv(s, x2) /\ Waiting(x2[o])
      BY <1>2, <1>5, <1>6
    <2>4. WaitingInv(Append(s, o), x2)
      BY <2>3, WaitingAppend
    <2> QED BY <2>1, <2>2, <2>4
  <1>7. CASE action = "enqueue"
    <2>1. /\ enqueue_attempts' = Append(enqueue_attempts, o) /\ dequeue_attempts' = dequeue_attempts
          /\ a.call.kind \in Producing
      BY <1>7 DEF SetAttempts, Attempts, Kinds
    <2>2. /\ Append(enqueue_attempts, o) \in Seq(Ops)
          /\ AttemptsOK(Append(enqueue_attempts, o), Producing, x2)
          /\ WaitingInv(Append(enqueue_attempts, o), x2)
      BY <1>4, <1>6, <2>1
    <2>3. AttemptsOK(dequeue_attempts, Consuming, x2) /\ WaitingInv(dequeue_attempts, x2)
      BY <1>4, <1>5
    <2> QED BY <1>1, <1>3, <1>4, <2>1, <2>2, <2>3 DEF CallbackInv
  <1>8. CASE action = "dequeue"
    <2>1. /\ dequeue_attempts' = Append(dequeue_attempts, o) /\ enqueue_attempts' = enqueue_attempts
          /\ a.call.kind \in Consuming
      BY <1>8 DEF SetAttempts, Attempts, Kinds
    <2>2. /\ Append(dequeue_attempts, o) \in Seq(Ops)
          /\ AttemptsOK(Append(dequeue_attempts, o), Consuming, x2)
          /\ WaitingInv(Append(dequeue_attempts, o), x2)
      BY <1>4, <1>6, <2>1
    <2>3. AttemptsOK(enqueue_attempts, Producing, x2) /\ WaitingInv(enqueue_attempts, x2)
      BY <1>4, <1>5
    <2> QED BY <1>1, <1>3, <1>4, <2>1, <2>2, <2>3 DEF CallbackInv
  <1> QED BY <1>7, <1>8

(* What TryEnqueue, TryDequeue and Close do.                               *)
CloseCalled == \E p \in Ops : op[p].call # <<>> /\ op[p].call.kind \in Closing
Fresh(a) ==
    a.late = CloseCalled /\ ~a.is_cancelled /\ a.elements_requested = a.call.n /\ a.tuple = <<>>

TryIs(o, a) ==
    /\ Fresh(a) /\ mu = NoThread /\ UNCHANGED <<closed, queues, mu>>
    /\ cm' \in [Managers -> ManagerType] /\ cb' \in [Ops -> CbStates]
    /\ \/ /\ Begins(o, a, "returned") /\ UNCHANGED <<enqueue_attempts, dequeue_attempts>>
          /\ a.call.kind # "close" /\ (a.call.kind = "enqueue" => a.status # "OK")
       \/ /\ Begins(o, a, "outside") /\ Waiting(a) /\ a.status = "OK"
          /\ \E action \in {"enqueue", "dequeue"} :
                a.call.kind \in Kinds(action) /\ SetAttempts(action, Append(Attempts(action), o))

LEMMA AtOnceIs ==
    ASSUME TypeOK, CallbackInv, NEW o \in Ops, NEW c \in Calls[o], NEW status \in Statuses,
           ~Started(o), mu = NoThread, AtOnce(o, c, status),
           c.kind \notin Closing, c.kind = "enqueue" => status # "OK",
           cm' \in [Managers -> ManagerType]
    PROVE  \E a : TryIs(o, a)
  <1>1. PICK n : n = NewOp(c)
    OBVIOUS
  <1>2. /\ n \in Operation /\ c \in Call /\ n.call = c /\ ~n.is_cancelled
        /\ n.elements_requested = c.n /\ n.late = CloseCalled /\ n.tuple = <<>>
    BY <1>1, NewOpIs DEF CloseCalled
  <1>3. PICK a : a = [n EXCEPT !.done_callback = "null", !.called = 1, !.status = status]
    OBVIOUS
  <1>4. a \in Operation
    <2>1. n \in Operation /\ 1 \in 0 .. 2 /\ status \in Statuses
      BY <1>2
    <2> QED BY ONLY <2>1, <1>3 DEF Operation
  <1>5. /\ a.call = n.call /\ a.is_cancelled = n.is_cancelled /\ a.late = n.late
        /\ a.elements_requested = n.elements_requested /\ a.tuple = n.tuple
        /\ a.called = 1 /\ a.done_callback = "null" /\ a.status = status
    BY <1>2, <1>3 DEF Operation
  <1>6. Fresh(a)
    BY <1>2, <1>5 DEF Fresh
  <1>7. op' = [op EXCEPT ![o] = a] /\ thr' = [thr EXCEPT ![<<o, "call">>].pc = "returned"]
        /\ UNCHANGED <<closed, queues, enqueue_attempts, dequeue_attempts, mu, cb>>
    BY <1>1, <1>3 DEF AtOnce
  <1>8. a.call = c /\ a.call.kind # "close_cancel" /\ a.call.kind # "close"
    BY <1>2, <1>5 DEF Closing
  <1>9. Begins(o, a, "returned")
    BY <1>4, <1>5, <1>7, <1>8 DEF Begins, Started
  <1>10. cb' \in [Ops -> CbStates]
    BY <1>7 DEF TypeOK, CbStates
  <1> QED BY <1>5, <1>6, <1>7, <1>8, <1>9, <1>10 DEF TryIs

LEMMA WaitsIs ==
    ASSUME TypeOK, CallbackInv, NEW o \in Ops, NEW c \in Calls[o], ~Started(o), mu = NoThread,
           c.kind # "close_cancel", NEW action \in {"enqueue", "dequeue"},
           c.kind \in Kinds(action), SetAttempts(action, Append(Attempts(action), o)),
           op' = [op EXCEPT ![o] = NewOp(c)],
           thr' = [thr EXCEPT ![<<o, "call">>].pc = "outside"], UNCHANGED <<closed, queues, mu>>,
           cm' \in [Managers -> ManagerType], cb' \in [Ops -> CbStates]
    PROVE  \E a : TryIs(o, a)
  <1>1. PICK n : n = NewOp(c)
    OBVIOUS
  <1>2. /\ n \in Operation /\ c \in Call /\ n.call = c /\ ~n.is_cancelled
        /\ n.elements_requested = c.n /\ n.late = CloseCalled /\ n.called = 0 /\ Waiting(n)
        /\ n.tuple = <<>> /\ n.status = "OK"
    BY <1>1, NewOpIs DEF CloseCalled
  <1>3. Begins(o, n, "outside")
    BY <1>1, <1>2 DEF Begins, Started
  <1>4. Fresh(n)
    BY <1>2 DEF Fresh
  <1> QED BY <1>2, <1>3, <1>4 DEF TryIs

LEMMA TriesAre ==
    ASSUME TypeOK, CallbackInv, NEW o \in Ops, TryEnqueue(o) \/ TryDequeue(o) \/ Close(o)
    PROVE  \E a : TryIs(o, a)
  <1>1. cm \in [Managers -> ManagerType] /\ cb \in [Ops -> CbStates]
    BY DEF TypeOK, ManagerType, CbStates
  <1>2. ASSUME NEW c \in Calls[o], c.kind \notin Closing, NextToken(c)
        PROVE  cm' \in [Managers -> ManagerType]
    <2>1. c.cm \in Managers
      BY <1>2, QueueAssumption DEF Call, Closing
    <2> QED BY <1>1, <1>2, <2>1 DEF NextToken, ManagerType
  <1>3. ASSUME NEW c \in Calls[o], NEW action \in {"enqueue", "dequeue"},
               ~Started(o), mu = NoThread, c.kind \in Kinds(action), c.kind \notin Closing,
               \/ c.n = 0 /\ AtOnce(o, c, "OK") /\ UNCHANGED cm
               \/ c.n > 0 /\ ~Registered(c) /\ AtOnce(o, c, "CANCELLED") /\ NextToken(c)
               \/ /\ c.n > 0 /\ Registered(c) /\ Registers(o, c)
                  /\ SetAttempts(action, Append(Attempts(action), o))
        PROVE  \E a : TryIs(o, a)
    <2>1. CASE c.n = 0 /\ AtOnce(o, c, "OK") /\ UNCHANGED cm
      <3>1. c.kind # "enqueue"
        BY <2>1, QueueAssumption
      <3>2. cm' \in [Managers -> ManagerType] /\ "OK" \in Statuses
        BY <1>1, <2>1 DEF Statuses
      <3> QED BY <1>3, <2>1, <3>1, <3>2, AtOnceIs
    <2>2. CASE AtOnce(o, c, "CANCELLED") /\ NextToken(c)
      <3>1. "CANCELLED" \in Statuses /\ "CANCELLED" # "OK"
        BY DEF Statuses
      <3> QED BY <1>2, <1>3, <2>2, <3>1, AtOnceIs
    <2>3. CASE Registers(o, c) /\ SetAttempts(action, Append(Attempts(action), o))
      <3>1. /\ op' = [op EXCEPT ![o] = NewOp(c)]
            /\ thr' = [thr EXCEPT ![<<o, "call">>].pc = "outside"] /\ UNCHANGED <<closed, queues, mu>>
            /\ NextToken(c)
        BY <2>3 DEF Registers
      <3>2. cb' \in [Ops -> CbStates]
        BY <1>1, <2>3 DEF Registers, CbStates
      <3>3. cm' \in [Managers -> ManagerType]
        BY <1>2, <1>3, <3>1
      <3>4. c.kind # "close_cancel"
        BY <1>3 DEF Closing
      <3> QED BY <1>3, <2>3, <3>1, <3>2, <3>3, <3>4, WaitsIs
    <2> QED BY <1>3, <2>1, <2>2, <2>3
  <1>4. CASE TryEnqueue(o)
    <2>1. PICK c \in Calls[o] :
             /\ c.kind \in {"enqueue", "enqueue_many"} /\ ~Started(o) /\ mu = NoThread
             /\ \/ c.n = 0 /\ AtOnce(o, c, "OK") /\ UNCHANGED cm
                \/ c.n > 0 /\ ~Registered(c) /\ AtOnce(o, c, "CANCELLED") /\ NextToken(c)
                \/ /\ c.n > 0 /\ Registered(c) /\ Registers(o, c)
                   /\ SetAttempts("enqueue", Append(Attempts("enqueue"), o))
      BY <1>4 DEF TryEnqueue, SetAttempts, Attempts
    <2>2. c.kind \in Kinds("enqueue") /\ c.kind \notin Closing
      BY <2>1 DEF Kinds, Producing, Closing
    <2> QED BY <1>3, <2>1, <2>2
  <1>5. CASE TryDequeue(o)
    <2>1. PICK c \in Calls[o] :
             /\ c.kind \in {"dequeue", "dequeue_many", "dequeue_up_to"}
             /\ ~Started(o) /\ mu = NoThread
             /\ \/ c.n = 0 /\ AtOnce(o, c, "OK") /\ UNCHANGED cm
                \/ c.n > 0 /\ ~Registered(c) /\ AtOnce(o, c, "CANCELLED") /\ NextToken(c)
                \/ /\ c.n > 0 /\ Registered(c) /\ Registers(o, c)
                   /\ SetAttempts("dequeue", Append(Attempts("dequeue"), o))
      BY <1>5 DEF TryDequeue, SetAttempts, Attempts
    <2>2. c.kind \in Kinds("dequeue") /\ c.kind \notin Closing
      BY <2>1 DEF Kinds, Consuming, Closing
    <2> QED BY <1>3, <2>1, <2>2
  <1>6. CASE Close(o)
    <2>1. PICK c \in Calls[o] : c.kind = "close" /\ op' = [op EXCEPT ![o] = NewOp(c)]
      BY <1>6 DEF Close
    <2>2. /\ ~Started(o) /\ mu = NoThread /\ SetAttempts("enqueue", Append(Attempts("enqueue"), o))
          /\ thr' = [thr EXCEPT ![<<o, "call">>].pc = "outside"]
          /\ UNCHANGED <<closed, queues, mu>> /\ cm' = cm /\ cb' = cb
      BY <1>6 DEF Close, SetAttempts, Attempts
    <2>3. c.kind \in Kinds("enqueue") /\ c.kind # "close_cancel"
      BY <2>1 DEF Kinds, Producing
    <2> QED BY <1>1, <2>1, <2>2, <2>3, WaitsIs
  <1> QED BY <1>4, <1>5, <1>6

LEMMA TryCallbacks ==
    ASSUME TypeOK, CallbackInv, NEW o \in Ops, NEW a, TryIs(o, a)
    PROVE  TypeOK' /\ CallbackInv'
  <1>1. mu' \in Threads \cup {NoThread} /\ UNCHANGED <<closed, queues>>
        /\ cm' \in [Managers -> ManagerType] /\ cb' \in [Ops -> CbStates]
    BY DEF TryIs, TypeOK
  <1>2. PICK pc : Begins(o, a, pc)
    BY DEF TryIs
  <1>3. /\ op' \in [Ops -> Operation] /\ thr' \in [Threads -> Thread]
        /\ \A p \in Ops : op'[p].call = op[p].call \/ op'[p].call \in Calls[p]
    BY <1>2, BeginsIs
  <1>4. /\ enqueue_attempts' \in Seq(Ops) /\ dequeue_attempts' \in Seq(Ops) /\ CallbackInv'
    <2>1. CASE Begins(o, a, "returned") /\ UNCHANGED <<enqueue_attempts, dequeue_attempts>>
      BY <2>1, BeginsAtOnce DEF TypeOK
    <2>2. CASE /\ Begins(o, a, "outside") /\ Waiting(a)
               /\ \E action \in {"enqueue", "dequeue"} :
                     a.call.kind \in Kinds(action) /\ SetAttempts(action, Append(Attempts(action), o))
      BY <2>2, BeginsWaiting
    <2> QED BY <2>1, <2>2 DEF TryIs
  <1> QED BY <1>1, <1>3, <1>4, OtherTypes

LEMMA CancelledIs ==
    ASSUME NEW a \in Operation, Waiting(a), a.call \in Call, a.call.kind # "close_cancel"
    PROVE  /\ Cancelled(a) \in Operation /\ Cancelled(a).call = a.call
           /\ Cancelled(a).is_cancelled = TRUE /\ Cancelled(a).done_callback = "null"
           /\ Cancelled(a).called = 0 /\ Cancelled(a).late = a.late
           /\ Cancelled(a).elements_requested = a.elements_requested
           /\ Cancelled(a).status # "OK"
           /\ \A e : e.callback = "empty" => EntryOK(e, Cancelled(a))
  <1>1. PICK s : s = SetStatus(a, "CANCELLED")
    OBVIOUS
  <1>2. /\ s \in Operation /\ SameCall(s, a) /\ s.status # "OK"
        /\ s.elements_requested = a.elements_requested
    BY <1>1, SetStatusIs DEF Statuses
  <1>3. PICK b : b = [s EXCEPT !.is_cancelled = TRUE, !.done_callback = "null"]
    OBVIOUS
  <1>4. b = Cancelled(a)
    BY <1>1, <1>3 DEF Cancelled
  <1>5. b \in Operation
    BY <1>2, <1>3 DEF Operation
  <1>6. /\ b.call = s.call /\ b.called = s.called /\ b.late = s.late /\ b.status = s.status
        /\ b.elements_requested = s.elements_requested
        /\ b.is_cancelled = TRUE /\ b.done_callback = "null"
    BY <1>2, <1>3 DEF Operation
  <1>7. b.call = a.call /\ b.called = 0 /\ b.late = a.late /\ b.status # "OK"
    BY <1>2, <1>6 DEF SameCall, Waiting
  <1>8. ASSUME NEW e, e.callback = "empty" PROVE EntryOK(e, b)
    <2>1. Finished(e.callback, b)
      BY <1>7, <1>8 DEF Finished
    <2> QED BY <1>6, <1>7, <1>8, <2>1 DEF EntryOK
  <1> QED BY <1>2, <1>4, <1>5, <1>6, <1>7, <1>8

(* The operations P of attempts that wait are cancelled, and thread t has  *)
(* the n callbacks of them; operation o may begin.                         *)
Cancels(t, n, P, o) ==
    /\ \A p \in P : Waiting(op[p]) /\ op[p].call \in Call /\ op[p].call.kind # "close_cancel"
    /\ \A p \in P : op'[p] = Cancelled(op[p])
    /\ \A p \in Ops \ P : op'[p] = op[p] \/ p = o
    /\ op[o].call \in Call /\ o \notin P => op'[o] = op[o]
    /\ thr' \in [Threads -> Thread] /\ \A u \in Threads \ {t} : thr'[u] = thr[u]
    /\ Len(thr'[t].todo) = n
    /\ \A i \in 1 .. n : thr'[t].todo[i].op \in P /\ thr'[t].todo[i].callback = "empty"
    /\ \A i, j \in 1 .. n : thr'[t].todo[i].op = thr'[t].todo[j].op => i = j

LEMMA CancelsIs ==
    ASSUME TypeOK, CallbackInv, op' \in [Ops -> Operation], NEW t \in Threads, NEW n \in Nat,
           NEW P \in SUBSET Ops, NEW o \in Ops, Cancels(t, n, P, o),
           UNCHANGED <<enqueue_attempts, dequeue_attempts>>
    PROVE  /\ TodoOK(thr', op')
           /\ AttemptsOK(enqueue_attempts', Producing, op') /\ WaitingInv(enqueue_attempts', op')
           /\ AttemptsOK(dequeue_attempts', Consuming, op') /\ WaitingInv(dequeue_attempts', op')
           /\ \A p \in P : /\ op'[p].call = op[p].call /\ op'[p].called = 0
                           /\ op'[p].done_callback = "null" /\ op'[p].late = op[p].late
                           /\ op'[p].elements_requested = op[p].elements_requested
                           /\ op'[p].status # "OK" /\ op'[p].is_cancelled = TRUE
                           /\ op'[p].call # <<>> /\ op'[p].call.kind # "close_cancel"
  <1>1. PICK y2, x2 : y2 = thr' /\ x2 = op'
    OBVIOUS
  <1>2. op \in [Ops -> Operation] /\ thr \in [Threads -> Thread] /\ TodoOK(thr, op)
    BY DEF TypeOK, CallbackInv
  <1>3. ASSUME NEW p \in P
        PROVE  /\ x2[p].call = op[p].call /\ x2[p].called = 0
               /\ x2[p].done_callback = "null" /\ x2[p].late = op[p].late
               /\ x2[p].elements_requested = op[p].elements_requested
               /\ x2[p].status # "OK" /\ x2[p].is_cancelled = TRUE
               /\ \A e : e.callback = "empty" => EntryOK(e, x2[p])
    <2>1. /\ op[p] \in Operation /\ Waiting(op[p]) /\ op[p].call \in Call
          /\ op[p].call.kind # "close_cancel" /\ x2[p] = Cancelled(op[p])
      BY <1>1, <1>2 DEF Cancels
    <2> QED BY <2>1, CancelledIs
  <1>4. \A p \in P : op[p].call \in Call /\ op[p].done_callback = "empty"
                     /\ op[p].call.kind # "close_cancel"
    BY DEF Cancels, Waiting
  <1>5. \A p \in Ops : op[p].call \in Call => p \in P \/ x2[p] = op[p]
    BY <1>1 DEF Cancels
  <1>6. \A p \in Ops : op[p].call \in Call => x2[p].call = op[p].call
    BY <1>3, <1>5
  <1>7. \A p \in Ops : op[p].call \in Call => StillWaits(x2[p], op[p])
    BY <1>3, <1>5 DEF StillWaits
  <1>8. /\ enqueue_attempts \in Seq(Ops) /\ dequeue_attempts \in Seq(Ops)
        /\ AttemptsOK(enqueue_attempts, Producing, op) /\ WaitingInv(enqueue_attempts, op)
        /\ AttemptsOK(dequeue_attempts, Consuming, op) /\ WaitingInv(dequeue_attempts, op)
    BY DEF TypeOK, CallbackInv
  <1>9. /\ AttemptsOK(enqueue_attempts, Producing, x2) /\ WaitingInv(enqueue_attempts, x2)
        /\ AttemptsOK(dequeue_attempts, Consuming, x2) /\ WaitingInv(dequeue_attempts, x2)
    BY <1>6, <1>7, <1>8, AttemptsFrame, WaitingFrame
  <1>10. TodoOK(y2, x2)
    <2>1. /\ y2 \in [Threads -> Thread] /\ \A u \in Threads \ {t} : y2[u].todo = thr[u].todo
          /\ Len(y2[t].todo) = n
          /\ \A i \in 1 .. n : y2[t].todo[i].op \in P /\ y2[t].todo[i].callback = "empty"
          /\ \A i, j \in 1 .. n : y2[t].todo[i].op = y2[t].todo[j].op => i = j
      BY <1>1 DEF Cancels
    <2>2. \A p \in Ops : InTodo(op[p]) => x2[p] = op[p]
      BY <1>4, <1>5 DEF InTodo
    <2>3. \A i \in 1 .. n : ~InTodo(op[y2[t].todo[i].op])
      BY <1>4, <2>1 DEF InTodo
    <2>4. \A i \in 1 .. n : EntryOK(y2[t].todo[i], x2[y2[t].todo[i].op])
      BY <1>3, <2>1
    <2>5. TakesNew(t, 1 .. n, thr, op, y2, x2)
      BY <2>1, <2>2, <2>3, <2>4 DEF TakesNew
    <2>6. 1 .. n \in SUBSET (1 .. Len(y2[t].todo))
      BY <2>1
    <2> QED BY <1>2, <2>1, <2>5, <2>6, TodoAdd
  <1>11. \A p \in P : x2[p].call # <<>> /\ x2[p].call.kind # "close_cancel"
    BY <1>3, <1>4, NoCallIs
  <1>12. /\ TodoOK(thr', op')
         /\ AttemptsOK(enqueue_attempts', Producing, op') /\ WaitingInv(enqueue_attempts', op')
         /\ AttemptsOK(dequeue_attempts', Consuming, op') /\ WaitingInv(dequeue_attempts', op')
    BY <1>1, <1>9, <1>10
  <1> QED BY ONLY <1>1, <1>3, <1>11, <1>12

(* An attempt that waits is one that can be cancelled.                     *)
LEMMA AttemptWaits ==
    ASSUME TypeOK, CallbackInv, NEW action \in {"enqueue", "dequeue"},
           NEW i \in 1 .. Len(Attempts(action)), ~op[Attempts(action)[i]].is_cancelled
    PROVE  /\ Attempts(action)[i] \in Ops /\ Waiting(op[Attempts(action)[i]])
           /\ op[Attempts(action)[i]].call \in Call
           /\ op[Attempts(action)[i]].call.kind # "close_cancel"
  <1>1. /\ Attempts(action) \in Seq(Ops) /\ WaitingInv(Attempts(action), op)
        /\ AttemptsOK(Attempts(action), Kinds(action), op)
    BY AttemptsTyped DEF Kinds
  <1>2. Attempts(action)[i] \in Ops
    BY <1>1, ElementOfSeq
  <1>3. Waiting(op[Attempts(action)[i]]) /\ op[Attempts(action)[i]].call \in Call
        /\ op[Attempts(action)[i]].call.kind \in Kinds(action)
    BY <1>1 DEF WaitingInv, AttemptsOK
  <1> QED BY <1>2, <1>3 DEF Kinds, Producing, Consuming

(* The thread that calls the callbacks s.                                  *)
LEMMA CancellingThread ==
    ASSUME NEW s \in Seq(Entry)
    PROVE  \E y \in Thread : /\ y = [Idle EXCEPT !.pc = "outside", !.todo = s]
                             /\ y.pc = "outside" /\ y.todo = s
  <1>1. <<>> \in Seq(Entry)
    BY EmptySeq
  <1>2. Idle \in Thread
    BY <1>1 DEF Idle, Thread, Entry
  <1>3. PICK y : y = [Idle EXCEPT !.pc = "outside", !.todo = s]
    OBVIOUS
  <1>4. y \in Thread
    BY <1>2, <1>3 DEF Thread, Entry
  <1>5. y.pc = "outside" /\ y.todo = s
    BY <1>2, <1>3 DEF Thread
  <1> QED BY <1>3, <1>4, <1>5

(* What Cancel does.                                                       *)
LEMMA CancelIs ==
    ASSUME TypeOK, CallbackInv, NEW o \in Ops, Cancel(o)
    PROVE  /\ mu = NoThread /\ cb' \in [Ops -> CbStates]
           /\ UNCHANGED <<closed, queues, enqueue_attempts, dequeue_attempts, mu, cm>>
           /\ \/ UNCHANGED <<op, thr>>
              \/ /\ <<o, "cancel">> \in Threads /\ thr'[<<o, "cancel">>].pc = "outside"
                 /\ op' \in [Ops -> Operation]
                 /\ \E p \in Ops : Cancels(<<o, "cancel">>, 1, {p}, p)
  <1>1. /\ mu = NoThread /\ cb \in [Ops -> CbStates]
        /\ UNCHANGED <<closed, queues, enqueue_attempts, dequeue_attempts, mu, cm>>
    BY DEF Cancel, TypeOK, CbStates
  <1>2. cb' \in [Ops -> CbStates]
    BY <1>1 DEF Cancel, CbStates
  <1>3. PICK action \in {"enqueue", "dequeue"} :
           \/ UNCHANGED <<op, thr>>
           \/ \E p \in FirstMatch(Attempts(action), o) :
                 /\ ~op[p].is_cancelled /\ op' = [op EXCEPT ![p] = Cancelled(@)]
                 /\ thr' = [thr EXCEPT ![<<o, "cancel">>] =
                               [Idle EXCEPT !.pc = "outside", !.todo = <<Moved(p)>>]]
    <2>1. PICK action \in {"enqueue", "dequeue"} :
             action = IF Kind(o) \in {"enqueue", "enqueue_many"} THEN "enqueue" ELSE "dequeue"
      OBVIOUS
    <2> QED BY <2>1 DEF Cancel
  <1>4. CASE UNCHANGED <<op, thr>>
    BY <1>1, <1>2, <1>4
  <1>5. ASSUME NEW p \in FirstMatch(Attempts(action), o), ~op[p].is_cancelled,
               op' = [op EXCEPT ![p] = Cancelled(@)],
               thr' = [thr EXCEPT ![<<o, "cancel">>] =
                               [Idle EXCEPT !.pc = "outside", !.todo = <<Moved(p)>>]]
        PROVE  /\ <<o, "cancel">> \in Threads /\ thr'[<<o, "cancel">>].pc = "outside"
               /\ op' \in [Ops -> Operation] /\ p \in Ops /\ Cancels(<<o, "cancel">>, 1, {p}, p)
    <2>1. op \in [Ops -> Operation] /\ thr \in [Threads -> Thread]
      BY DEF TypeOK
    <2>2. Attempts(action) \in Seq(Ops)
      BY AttemptsTyped
    <2>3. PICK i \in 1 .. Len(Attempts(action)) : p = Attempts(action)[i]
      BY <1>5, <2>2, LenProperties DEF FirstMatch
    <2>4. p \in Ops /\ Waiting(op[p]) /\ op[p].call \in Call /\ op[p].call.kind # "close_cancel"
      BY <1>5, <2>3, AttemptWaits
    <2>5. PICK b \in Operation : b = Cancelled(op[p])
      BY <2>1, <2>4, CancelledIs
    <2>6. op' = [op EXCEPT ![p] = b]
      BY <1>5, <2>1, <2>4, <2>5
    <2>7. op' \in [Ops -> Operation] /\ op'[p] = b /\ \A q \in Ops \ {p} : op'[q] = op[q]
      BY <2>1, <2>4, <2>6
    <2>8. PICK t \in Threads : t = <<o, "cancel">>
      BY DEF Threads
    <2>9. PICK e : e = Moved(p)
      OBVIOUS
    <2>10. e \in Entry /\ e.op = p /\ e.callback = "empty"
      BY <2>4, <2>9 DEF Moved, Entry, Waiting
    <2>11. <<e>> \in Seq(Entry) /\ Len(<<e>>) = 1 /\ <<e>>[1] = e
      BY <2>10
    <2>12. PICK s \in Seq(Entry) : s = <<e>>
      BY <2>11
    <2>13. PICK y \in Thread : /\ y = [Idle EXCEPT !.pc = "outside", !.todo = s]
                               /\ y.pc = "outside" /\ y.todo = s
      BY CancellingThread
    <2>14. thr' = [thr EXCEPT ![t] = y]
      BY <1>5, <2>8, <2>9, <2>12, <2>13
    <2>15. thr' \in [Threads -> Thread] /\ thr'[t] = y /\ \A u \in Threads \ {t} : thr'[u] = thr[u]
      BY <2>1, <2>14
    <2>16. /\ Len(thr'[t].todo) = 1 /\ thr'[t].pc = "outside"
           /\ \A k \in 1 .. 1 : thr'[t].todo[k].op \in {p} /\ thr'[t].todo[k].callback = "empty"
           /\ \A k, l \in 1 .. 1 : thr'[t].todo[k].op = thr'[t].todo[l].op => k = l
      <3>1. thr'[t].todo = <<e>> /\ thr'[t].pc = "outside"
        BY <2>12, <2>13, <2>15
      <3>2. \A k \in 1 .. 1 : k = 1 /\ <<e>>[k] = e
        BY <2>11
      <3> QED BY <2>10, <2>11, <3>1, <3>2
    <2>17. Cancels(t, 1, {p}, p)
      BY <2>4, <2>5, <2>7, <2>15, <2>16 DEF Cancels
    <2> QED BY <2>4, <2>7, <2>8, <2>16, <2>17
  <1> QED BY <1>1, <1>2, <1>3, <1>4, <1>5

LEMMA CancelCallbacks ==
    ASSUME TypeOK, CallbackInv, NEW o \in Ops, Cancel(o) PROVE TypeOK' /\ CallbackInv'
  <1>1. /\ cb' \in [Ops -> CbStates] /\ cm \in [Managers -> ManagerType]
        /\ UNCHANGED <<closed, queues, enqueue_attempts, dequeue_attempts, mu, cm>>
    BY CancelIs DEF TypeOK, ManagerType
  <1>2. CASE UNCHANGED <<op, thr>>
    <2>1. CallbackInv'
      BY <1>1, <1>2 DEF CallbackInv
    <2> QED BY <1>1, <1>2, <2>1 DEF TypeOK, CbStates
  <1>3. CASE op' # op \/ thr' # thr
    <2>1. PICK t \in Threads, p \in Ops : t = <<o, "cancel">> /\ Cancels(t, 1, {p}, p)
                                          /\ op' \in [Ops -> Operation]
      BY <1>3, CancelIs
    <2>2. /\ TodoOK(thr', op')
          /\ AttemptsOK(enqueue_attempts', Producing, op') /\ WaitingInv(enqueue_attempts', op')
          /\ AttemptsOK(dequeue_attempts', Consuming, op') /\ WaitingInv(dequeue_attempts', op')
          /\ op'[p].call = op[p].call /\ op'[p].called = 0
          /\ op'[p].done_callback = "null" /\ op'[p].call # <<>> /\ op'[p].call.kind # "close_cancel"
      <3>1. PICK P \in SUBSET Ops : P = {p}
        OBVIOUS
      <3>2. PICK n \in Nat : n = 1
        OBVIOUS
      <3>3. Cancels(t, n, P, p) /\ p \in P
        BY <2>1, <3>1, <3>2
      <3>4. UNCHANGED <<enqueue_attempts, dequeue_attempts>> /\ op' \in [Ops -> Operation]
        BY <1>1, <2>1
      <3>5. /\ TodoOK(thr', op')
            /\ AttemptsOK(enqueue_attempts', Producing, op') /\ WaitingInv(enqueue_attempts', op')
            /\ AttemptsOK(dequeue_attempts', Consuming, op') /\ WaitingInv(dequeue_attempts', op')
            /\ \A q \in P : /\ op'[q].call = op[q].call /\ op'[q].called = 0
                            /\ op'[q].done_callback = "null" /\ op'[q].late = op[q].late
                            /\ op'[q].elements_requested = op[q].elements_requested
                            /\ op'[q].status # "OK" /\ op'[q].is_cancelled = TRUE
                            /\ op'[q].call # <<>> /\ op'[q].call.kind # "close_cancel"
        BY <3>3, <3>4, CancelsIs, Zenon
      <3> QED BY <3>3, <3>5
    <2>3. /\ \A q \in Ops \ {p} : op'[q] = op[q]
          /\ thr' \in [Threads -> Thread] /\ \A u \in Threads \ {t} : thr'[u] = thr[u]
      BY <2>1 DEF Cancels
    <2>4. ASSUME NEW q \in Ops PROVE OperationOK(op'[q], thr'[<<q, "call">>].pc)
      <3>1. thr'[<<q, "call">>] = thr[<<q, "call">>] /\ OperationOK(op[q], thr[<<q, "call">>].pc)
        BY <2>1, <2>3 DEF Threads, CallbackInv
      <3>2. CASE q # p
        BY <2>3, <3>1, <3>2
      <3>3. CASE q = p
        <4>1. op'[q].called = 0 /\ op'[q].done_callback = "null" /\ op'[q].call # <<>>
          BY <2>2, <3>3
        <4> QED BY ONLY <4>1 DEF OperationOK
      <3> QED BY <3>2, <3>3
    <2>5. CallbackInv'
      BY <2>2, <2>4 DEF CallbackInv
    <2>6. \A q \in Ops : op'[q].call = op[q].call
      BY <2>2, <2>3
    <2> QED BY <1>1, <2>1, <2>3, <2>5, <2>6, OtherTypes DEF TypeOK
  <1> QED BY <1>2, <1>3

(* What the critical section of CloseAndCancel does.                       *)
LEMMA CloseAndCancelIs ==
    ASSUME TypeOK, CallbackInv, NEW o \in Ops, CloseAndCancel(o)
    PROVE  /\ closed' = TRUE /\ mu = NoThread
           /\ UNCHANGED <<queues, enqueue_attempts, dequeue_attempts, mu, cm, cb>>
           /\ op' \in [Ops -> Operation] /\ <<o, "call">> \in Threads
           /\ thr'[<<o, "call">>].pc = "outside"
           /\ op'[o].call \in Calls[o] /\ op'[o].call.kind = "close_cancel"
           /\ op'[o].called = 0 /\ ~op'[o].is_cancelled /\ op[o].call = <<>>
           /\ \E n \in Nat, P \in SUBSET Ops : o \notin P /\ Cancels(<<o, "call">>, n, P, o)
  <1>1. PICK c \in Calls[o] :
           /\ c.kind = "close_cancel"
           /\ op' = [p \in Ops |-> IF p = o THEN NewOp(c)
                                   ELSE IF \E i \in DOMAIN ToCancel : ToCancel[i] = p
                                        THEN Cancelled(op[p]) ELSE op[p]]
    BY DEF CloseAndCancel
  <1>2. /\ closed' = TRUE /\ mu = NoThread /\ op[o].call = <<>>
        /\ UNCHANGED <<queues, enqueue_attempts, dequeue_attempts, mu, cm, cb>>
        /\ thr' = [thr EXCEPT ![<<o, "call">>] =
                       [Idle EXCEPT !.pc = "outside",
                                    !.todo = [i \in DOMAIN ToCancel |-> Moved(ToCancel[i])]]]
    BY DEF CloseAndCancel, Started
  <1>3. op \in [Ops -> Operation] /\ thr \in [Threads -> Thread] /\ enqueue_attempts \in Seq(Ops)
    BY DEF TypeOK
  <1>4. PICK k : k = ToCancel
    OBVIOUS
  <1>5. PICK n \in Nat : n = Len(k) /\ DOMAIN k = 1 .. n
    BY <1>3, <1>4, ToCancelIs
  <1>6. ASSUME NEW i \in 1 .. n
        PROVE  /\ k[i] \in Ops /\ Waiting(op[k[i]]) /\ op[k[i]].call \in Call
               /\ op[k[i]].call.kind # "close_cancel"
    <2>1. PICK j \in 1 .. Len(enqueue_attempts) : k[i] = enqueue_attempts[j] /\ ~op[k[i]].is_cancelled
      BY <1>3, <1>4, <1>5, ToCancelIs
    <2>2. enqueue_attempts = Attempts("enqueue")
      BY DEF Attempts
    <2> QED BY <2>1, <2>2, AttemptWaits
  <1>7. \A i, j \in 1 .. n : k[i] = k[j] => i = j
    <2>1. \A i, j \in 1 .. Len(enqueue_attempts) : enqueue_attempts[i] = enqueue_attempts[j] => i = j
      BY DEF CallbackInv, AttemptsOK
    <2> QED BY <1>3, <1>4, <1>5, <2>1, ToCancelIs
  <1>8. PICK P \in SUBSET Ops : P = {k[i] : i \in 1 .. n}
    BY <1>6
  <1>9. \A p \in P : Waiting(op[p]) /\ op[p].call \in Call /\ op[p].call.kind # "close_cancel"
    BY <1>6, <1>8
  <1>10. o \notin P
    BY <1>2, <1>9, NoCallIs
  <1>11. PICK a : a = NewOp(c)
    OBVIOUS
  <1>12. /\ a \in Operation /\ a.call = c /\ a.called = 0 /\ ~a.is_cancelled
    BY <1>11, NewOpIs
  <1>13. op' = [p \in Ops |-> IF p = o THEN a ELSE IF p \in P THEN Cancelled(op[p]) ELSE op[p]]
    BY <1>1, <1>4, <1>5, <1>8, <1>11
  <1>14. \A p \in P : Cancelled(op[p]) \in Operation
    BY <1>3, <1>9, CancelledIs
  <1>15. /\ op' \in [Ops -> Operation] /\ op'[o] = a
         /\ \A p \in P : op'[p] = Cancelled(op[p])
         /\ \A p \in Ops \ P : op'[p] = op[p] \/ p = o
    BY <1>3, <1>10, <1>12, <1>13, <1>14
  <1>16. PICK t \in Threads : t = <<o, "call">>
    BY DEF Threads
  <1>17. PICK s : s = [i \in 1 .. n |-> Moved(k[i])]
    OBVIOUS
  <1>18. \A i \in 1 .. n : s[i] \in Entry /\ s[i].op = k[i] /\ s[i].callback = "empty"
    BY <1>6, <1>17 DEF Moved, Entry, Waiting
  <1>19. s \in [1 .. n -> Entry]
    BY <1>17, <1>18
  <1>20. s \in Seq(Entry) /\ Len(s) = n
    BY <1>19, MakeSeq
  <1>21. PICK y \in Thread : /\ y = [Idle EXCEPT !.pc = "outside", !.todo = s]
                            /\ y.pc = "outside" /\ y.todo = s
    BY <1>20, CancellingThread
  <1>22. thr' = [thr EXCEPT ![t] = y]
    <2>1. [i \in DOMAIN ToCancel |-> Moved(ToCancel[i])] = s
      BY <1>4, <1>5, <1>17
    <2> QED BY <1>2, <1>16, <1>21, <2>1
  <1>23. y \in Thread /\ y.todo = s /\ y.pc = "outside"
    BY <1>21
  <1>24. thr' \in [Threads -> Thread] /\ thr'[t] = y /\ \A u \in Threads \ {t} : thr'[u] = thr[u]
    BY <1>3, <1>22, <1>23
  <1>25. /\ Len(thr'[t].todo) = n
         /\ \A i \in 1 .. n : thr'[t].todo[i].op \in P /\ thr'[t].todo[i].callback = "empty"
         /\ \A i, j \in 1 .. n : thr'[t].todo[i].op = thr'[t].todo[j].op => i = j
    BY <1>7, <1>8, <1>18, <1>20, <1>23, <1>24
  <1>26. op[o].call \in Call /\ o \notin P => op'[o] = op[o]
    BY <1>2, NoCallIs
  <1>27. Cancels(t, n, P, o)
    BY <1>9, <1>15, <1>24, <1>25, <1>26 DEF Cancels
  <1> QED BY <1>1, <1>2, <1>10, <1>12, <1>15, <1>16, <1>23, <1>24, <1>27

LEMMA CloseAndCancelCallbacks ==
    ASSUME TypeOK, CallbackInv, NEW o \in Ops, CloseAndCancel(o) PROVE TypeOK' /\ CallbackInv'
  <1>1. /\ closed' = TRUE /\ UNCHANGED <<queues, enqueue_attempts, dequeue_attempts, mu, cm, cb>>
        /\ op' \in [Ops -> Operation] /\ <<o, "call">> \in Threads
        /\ op'[o].call \in Calls[o] /\ op'[o].call.kind = "close_cancel"
        /\ op'[o].called = 0 /\ ~op'[o].is_cancelled /\ op[o].call = <<>>
    BY CloseAndCancelIs
  <1>2. PICK n \in Nat, P \in SUBSET Ops : o \notin P /\ Cancels(<<o, "call">>, n, P, o)
    BY CloseAndCancelIs
  <1>3. PICK t \in Threads : t = <<o, "call">>
    BY <1>1
  <1>4. Cancels(t, n, P, o) /\ UNCHANGED <<enqueue_attempts, dequeue_attempts>>
    BY <1>1, <1>2, <1>3
  <1>5. /\ TodoOK(thr', op')
        /\ AttemptsOK(enqueue_attempts', Producing, op') /\ WaitingInv(enqueue_attempts', op')
        /\ AttemptsOK(dequeue_attempts', Consuming, op') /\ WaitingInv(dequeue_attempts', op')
        /\ \A q \in P : /\ op'[q].call = op[q].call /\ op'[q].called = 0
                        /\ op'[q].done_callback = "null" /\ op'[q].late = op[q].late
                        /\ op'[q].elements_requested = op[q].elements_requested
                        /\ op'[q].status # "OK" /\ op'[q].is_cancelled = TRUE
                        /\ op'[q].call # <<>> /\ op'[q].call.kind # "close_cancel"
    BY ONLY TypeOK, CallbackInv, <1>1, <1>4, CancelsIs, ZenonT(60)
  <1>6. /\ \A q \in Ops : q \in P \/ q = o \/ op'[q] = op[q]
        /\ thr' \in [Threads -> Thread] /\ \A u \in Threads \ {t} : thr'[u] = thr[u]
    BY <1>4 DEF Cancels
  <1>7. ASSUME NEW q \in Ops PROVE OperationOK(op'[q], thr'[<<q, "call">>].pc)
    <2>1. CASE q = o
      <3>1. op'[q].call # <<>> /\ op'[q].called = 0 /\ ~op'[q].is_cancelled
        <4>1. op'[q].call \in Call
          BY <1>1, <2>1, QueueAssumption
        <4> QED BY <1>1, <2>1, <4>1, NoCallIs
      <3> QED BY ONLY <3>1 DEF OperationOK
    <2>2. CASE q \in P
      <3>1. op'[q].called = 0 /\ op'[q].done_callback = "null" /\ op'[q].call # <<>>
        BY <1>5, <2>2
      <3> QED BY ONLY <3>1 DEF OperationOK
    <2>3. CASE q # o /\ q \notin P
      <3>1. op'[q] = op[q] /\ thr'[<<q, "call">>] = thr[<<q, "call">>]
        BY <1>3, <1>6, <2>3 DEF Threads
      <3>2. OperationOK(op[q], thr[<<q, "call">>].pc)
        BY DEF CallbackInv
      <3> QED BY <3>1, <3>2
    <2> QED BY <2>1, <2>2, <2>3
  <1>8. CallbackInv'
    BY <1>5, <1>7 DEF CallbackInv
  <1>9. \A q \in Ops : op'[q].call = op[q].call \/ op'[q].call \in Calls[q]
    BY <1>1, <1>5, <1>6
  <1>10. TypeOK'
    <2>1. \A q \in Ops : op'[q].call \in Calls[q] \cup {<<>>}
      BY <1>9 DEF TypeOK
    <2> QED BY <1>1, <1>6, <2>1 DEF TypeOK
  <1> QED BY <1>8, <1>10

LEMMA InitCallbacks == ASSUME Init PROVE TypeOK /\ CallbackInv
  <1>1. op = [p \in Ops |-> NoOp] /\ thr = [u \in Threads |-> Idle]
        /\ enqueue_attempts = <<>> /\ dequeue_attempts = <<>>
    BY DEF Init
  <1>2. \A S : <<>> \in Seq(S) /\ Len(<<>>) = 0
    BY EmptySeq
  <1>3. <<>> \in Seq(Slice) /\ <<>> \in Seq(Entry) /\ <<>> \in Seq(Ops) /\ kInvalidToken \in Int
    BY <1>2 DEF kInvalidToken
  <1>4. NoOp \in Operation
    BY <1>3 DEF NoOp, Operation, Statuses
  <1>5. NoOp.call = <<>> /\ NoOp.called = 0 /\ ~NoOp.late /\ ~NoOp.is_cancelled
    BY DEF NoOp
  <1>6. Idle \in Thread /\ Idle.pc = "idle" /\ Idle.todo = <<>>
    BY <1>3 DEF Idle, Thread, Entry
  <1>7. op \in [Ops -> Operation] /\ thr \in [Threads -> Thread]
    BY <1>1, <1>4, <1>6
  <1>8. queues \in [1 .. Components -> Seq(Elements \cup {Garbage})]
    BY <1>2 DEF Init
  <1>9. /\ cm \in [Managers -> [state : {"live", "cancelling", "cancelled"}, next_token : Nat]]
        /\ cb \in [Ops -> {"none", "registered", "to_run", "running", "ran", "deregistered", "gone"}]
        /\ closed \in BOOLEAN /\ mu \in Threads \cup {NoThread}
    BY DEF Init
  <1>10. \A p \in Ops : op[p].call \in Calls[p] \cup {<<>>}
    BY <1>1, <1>5
  <1>11. TypeOK
    BY <1>1, <1>3, <1>7, <1>8, <1>9, <1>10 DEF TypeOK
  <1>12. \A u \in Threads : Len(thr[u].todo) = 0
    BY <1>1, <1>2, <1>6
  <1>13. TodoOK(thr, op)
    <2>1. \A u \in Threads : 1 .. Len(thr[u].todo) = {}
      BY <1>12
    <2> QED BY <2>1 DEF TodoOK
  <1>14. ASSUME NEW p \in Ops PROVE OperationOK(op[p], thr[<<p, "call">>].pc)
    <2>1. op[p] = NoOp /\ thr[<<p, "call">>].pc = "idle"
      BY <1>1, <1>6 DEF Threads
    <2> QED BY <1>5, <2>1 DEF OperationOK
  <1>15. \A kinds : AttemptsOK(<<>>, kinds, op) /\ WaitingInv(<<>>, op)
    BY <1>2 DEF AttemptsOK, WaitingInv
  <1>16. CallbackInv
    BY <1>1, <1>13, <1>14, <1>15 DEF CallbackInv
  <1> QED BY <1>11, <1>16

LEMMA NextCallbacks == ASSUME TypeOK, CallbackInv, [Next]_vars PROVE TypeOK' /\ CallbackInv'
  <1>1. ASSUME NEW o \in Ops, TryEnqueue(o) \/ TryDequeue(o) \/ Close(o)
        PROVE  TypeOK' /\ CallbackInv'
    BY <1>1, TriesAre, TryCallbacks
  <1>2. ASSUME NEW o \in Ops, CloseAndCancel(o) PROVE TypeOK' /\ CallbackInv'
    BY <1>2, CloseAndCancelCallbacks
  <1>3. ASSUME NEW o \in Ops, Cancel(o) PROVE TypeOK' /\ CallbackInv'
    BY <1>3, CancelCallbacks
  <1>4. ASSUME NEW t \in Threads, Step(t) PROVE TypeOK' /\ CallbackInv'
    <2>1. CASE CallCallback(t)
      BY <2>1, CallCallbackCallbacks
    <2>2. CASE Lock(t)
      BY <2>2, LockCallbacks
    <2>3. CASE CleanUp(t)
      BY <2>3, CleanUpCallbacks
    <2>4. CASE Return(t)
      BY <2>4, ReturnCallbacks
    <2>5. ASSUME NEW action \in {"enqueue", "dequeue"},
                 SkipCancelled(t, action) \/ RunAttempt(t, action) \/ NoAttempt(t, action)
          PROVE  TypeOK' /\ CallbackInv'
      BY <2>5, SkipCancelledCallbacks, RunAttemptCallbacks, NoAttemptCallbacks
    <2> QED BY <1>4, <2>1, <2>2, <2>3, <2>4, <2>5 DEF Step
  <1>5. ASSUME NEW m \in Managers, StartCancel(m) \/ CancelDone(m) \/ NextStep(m)
        PROVE  TypeOK' /\ CallbackInv'
    BY <1>5, ManagerCallbacks
  <1>6. CASE UNCHANGED vars
    <2>1. UNCHANGED <<closed, queues, enqueue_attempts, dequeue_attempts, op, thr, mu, cm, cb>>
      BY <1>6 DEF vars
    <2>2. CallbackInv'
      BY <2>1 DEF CallbackInv
    <2> QED BY <2>1, <2>2 DEF TypeOK
  <1> QED BY <1>1, <1>2, <1>3, <1>4, <1>5, <1>6 DEF Next

-----------------------------------------------------------------------------
(* The actions keep FlushInv.                                              *)

(* The operations that wait are as before.                                 *)
LEMMA SettledFrame ==
    ASSUME TypeOK, CallbackInv, NEW action \in {"enqueue", "dequeue"}, Settled(action),
           UNCHANGED <<closed, queues, enqueue_attempts, dequeue_attempts>>,
           \A o \in Ops : op[o].call \in Call /\ op[o].call.kind # "close_cancel"
                          /\ op[o].done_callback = "empty" => op'[o] = op[o]
    PROVE  Settled(action)'
  <1>1. Attempts(action)' = Attempts(action)
    BY DEF Attempts
  <1>2. CASE Attempts(action) = <<>>
    BY <1>1, <1>2 DEF Settled
  <1>3. CASE Attempts(action) # <<>>
    <2>1. PICK o : o = Head(Attempts(action))
      OBVIOUS
    <2>2. ~op[o].is_cancelled /\ run_callback(o).result = "kNoProgress"
      BY <1>3, <2>1 DEF Settled
    <2>3. Attempts(action) \in Seq(Ops)
      BY AttemptsTyped
    <2>4. 1 \in 1 .. Len(Attempts(action)) /\ o = Attempts(action)[1]
      BY <1>3, <2>1, <2>3, FrontAndRest
    <2>5. o \in Ops /\ Waiting(op[o]) /\ op[o].call \in Call /\ op[o].call.kind # "close_cancel"
      BY <2>2, <2>4, AttemptWaits
    <2>6. op'[o] = op[o]
      BY <2>5 DEF Waiting
    <2>7. run_callback(o)' = run_callback(o)
      BY <2>6, RunSame
    <2>8. o = Head(Attempts(action)') /\ ~op'[o].is_cancelled
      BY <1>1, <2>1, <2>2, <2>6
    <2> QED BY <2>2, <2>7, <2>8 DEF Settled
  <1> QED BY <1>2, <1>3

LEMMA NoThreadIs == \A t \in Threads : t # NoThread
  BY QueueAssumption DEF Threads

(* A step of a thread outside of mu_, or of nobody, after which some       *)
(* thread will flush or what waits is as before.                           *)
LEMMA OutsideFlush ==
    ASSUME TypeOK, CallbackInv, FlushInv, mu = NoThread, mu' = mu,
           \A u \in Threads : /\ thr'[u].pc \in {"enqueue", "dequeue"} => thr'[u].pc = thr[u].pc
                              /\ thr[u].pc = "outside" => thr'[u].pc = "outside",
           \/ \E u \in Threads : thr'[u].pc = "outside"
           \/ /\ UNCHANGED <<closed, queues, enqueue_attempts, dequeue_attempts>>
              /\ \A o \in Ops : op[o].call \in Call /\ op[o].call.kind # "close_cancel"
                                /\ op[o].done_callback = "empty" => op'[o] = op[o]
    PROVE  FlushInv'
  <1>1. \A u \in Threads : thr[u].pc \notin {"enqueue", "dequeue"}
    BY NoThreadIs DEF FlushInv
  <1>2. \A u \in Threads : thr'[u].pc \notin {"enqueue", "dequeue"} /\ mu' # u
    BY <1>1, NoThreadIs
  <1>3. (\E u \in Threads : thr'[u].pc = "outside") \/ (Settled("enqueue")' /\ Settled("dequeue")')
    <2>1. SUFFICES ASSUME ~\E u \in Threads : thr'[u].pc = "outside"
                   PROVE  Settled("enqueue")' /\ Settled("dequeue")'
      OBVIOUS
    <2>2. Settled("enqueue") /\ Settled("dequeue")
      BY <2>1 DEF FlushInv
    <2>3. /\ UNCHANGED <<closed, queues, enqueue_attempts, dequeue_attempts>>
          /\ \A o \in Ops : op[o].call \in Call /\ op[o].call.kind # "close_cancel"
                            /\ op[o].done_callback = "empty" => op'[o] = op[o]
      BY <2>1
    <2> QED BY <2>2, <2>3, SettledFrame
  <1> QED BY <1>2, <1>3 DEF FlushInv

LEMMA LockFlush ==
    ASSUME TypeOK, CallbackInv, FlushInv, NEW t \in Threads, Lock(t) PROVE FlushInv'
  <1>1. mu = NoThread /\ mu' = t /\ thr' = [thr EXCEPT ![t].pc = "enqueue", ![t].changed = FALSE]
    BY DEF Lock
  <1>2. thr \in [Threads -> Thread]
    BY DEF TypeOK
  <1>3. thr'[t].pc = "enqueue" /\ \A u \in Threads \ {t} : thr'[u] = thr[u]
    BY <1>1, <1>2 DEF Thread
  <1>4. \A u \in Threads : thr[u].pc \notin {"enqueue", "dequeue"}
    BY <1>1, NoThreadIs DEF FlushInv
  <1>5. \A u \in Threads : thr'[u].pc \in {"enqueue", "dequeue"} <=> mu' = u
    BY <1>1, <1>3, <1>4
  <1> QED BY <1>1, <1>3, <1>5, NoThreadIs DEF FlushInv

(* TryAttemptLocked returns.  If nothing has changed in this round, the    *)
(* attempt it has left at the front can do nothing.                        *)
LEMMA ReturnsFlush ==
    ASSUME TypeOK, CallbackInv, FlushInv, NEW t \in Threads,
           NEW action \in {"enqueue", "dequeue"}, thr[t].pc = action,
           NEW c \in BOOLEAN, Returns(t, action, c), ~c => ~thr[t].changed,
           ~c => UNCHANGED <<closed, queues, enqueue_attempts, dequeue_attempts, op>>,
           ~c => Settled(action)
    PROVE  FlushInv'
  <1>1. /\ \A u \in Threads \ {t} : thr'[u] = thr[u]
        /\ thr'[t].pc = AfterTry(action, c) /\ thr'[t].changed = (c /\ thr'[t].pc = "dequeue")
        /\ mu' = IF thr'[t].pc = "clean" THEN NoThread ELSE mu
    BY ReturnsThreads
  <1>2. mu = t /\ t # NoThread /\ \A u \in Threads \ {t} : thr[u].pc \notin {"enqueue", "dequeue"}
    BY NoThreadIs DEF FlushInv
  <1>3. CASE action = "enqueue" /\ c = TRUE
    <2>1. thr'[t].pc = "dequeue" /\ mu' = t /\ thr'[t].changed = TRUE
      BY <1>1, <1>2, <1>3 DEF AfterTry
    <2>2. \A u \in Threads : thr'[u].pc \in {"enqueue", "dequeue"} <=> mu' = u
      BY <1>1, <1>2, <2>1
    <2> QED BY <1>2, <2>1, <2>2 DEF FlushInv
  <1>4. CASE action = "dequeue" /\ c = TRUE
    <2>1. thr'[t].pc = "enqueue" /\ mu' = t
      BY <1>1, <1>2, <1>4 DEF AfterTry
    <2>2. \A u \in Threads : thr'[u].pc \in {"enqueue", "dequeue"} <=> mu' = u
      BY <1>1, <1>2, <2>1
    <2> QED BY <1>2, <2>1, <2>2 DEF FlushInv
  <1>5. CASE c = FALSE
    <2>1. /\ UNCHANGED <<closed, queues, enqueue_attempts, dequeue_attempts, op>>
          /\ Settled(action) /\ thr[t].changed = FALSE
      BY <1>5 DEF TypeOK, Thread
    <2>2. \A a \in {"enqueue", "dequeue"} : Settled(a) => Settled(a)'
      BY <2>1, SettledFrame
    <2>3. CASE action = "enqueue"
      <3>1. thr'[t].pc = "dequeue" /\ mu' = t
        BY <1>1, <1>2, <2>3 DEF AfterTry
      <3>2. \A u \in Threads : thr'[u].pc \in {"enqueue", "dequeue"} <=> mu' = u
        BY <1>1, <1>2, <3>1
      <3>3. Settled("enqueue")'
        BY <2>1, <2>2, <2>3
      <3> QED BY <1>2, <3>1, <3>2, <3>3 DEF FlushInv
    <2>4. CASE action = "dequeue"
      <3>1. thr'[t].pc = "clean" /\ mu' = NoThread
        BY <1>1, <1>2, <1>5, <2>4 DEF AfterTry
      <3>2. \A u \in Threads : thr'[u].pc \notin {"enqueue", "dequeue"} /\ mu' # u
        BY <1>1, <1>2, <3>1, NoThreadIs
      <3>3. Settled("enqueue")
        BY <1>2, <2>1, <2>4 DEF FlushInv
      <3>4. Settled("enqueue")' /\ Settled("dequeue")'
        BY <2>1, <2>2, <2>4, <3>3
      <3> QED BY <3>1, <3>2, <3>4 DEF FlushInv
    <2> QED BY <2>3, <2>4
  <1> QED BY <1>3, <1>4, <1>5

LEMMA AttemptFlush ==
    ASSUME TypeOK, CallbackInv, FlushInv, NEW t \in Threads, NEW action \in {"enqueue", "dequeue"},
           SkipCancelled(t, action) \/ RunAttempt(t, action) \/ NoAttempt(t, action)
    PROVE  FlushInv'
  <1>1. thr[t].pc = action /\ thr \in [Threads -> Thread]
    BY DEF SkipCancelled, RunAttempt, NoAttempt, TypeOK
  <1>2. mu = t /\ t # NoThread /\ thr[t].changed \in BOOLEAN
    BY <1>1, NoThreadIs DEF FlushInv, Thread
  <1>3. CASE SkipCancelled(t, action)
    <2>1. UNCHANGED <<closed, queues, op, thr, mu>> /\ SetAttempts(action, Tail(Attempts(action)))
      BY <1>3 DEF SkipCancelled
    <2>2. \A u \in Threads : thr'[u].pc \in {"enqueue", "dequeue"} <=> mu' = u
      BY <2>1 DEF FlushInv
    <2>3. CASE action = "enqueue"
      BY <1>1, <1>2, <2>1, <2>2, <2>3 DEF FlushInv
    <2>4. CASE action = "dequeue"
      <3>1. enqueue_attempts' = enqueue_attempts
        BY <2>1, <2>4 DEF SetAttempts
      <3>2. \A o : run_callback(o)' = run_callback(o)
        BY <2>1, <3>1, RunSame
      <3>3. Settled("enqueue") => Settled("enqueue")'
        BY <2>1, <3>1, <3>2 DEF Settled, Attempts
      <3> QED BY <1>1, <1>2, <2>1, <2>2, <3>3 DEF FlushInv
    <2> QED BY <2>3, <2>4
  <1>4. CASE NoAttempt(t, action)
    <2>1. PICK c \in BOOLEAN : c = thr[t].changed
      BY <1>2
    <2>2. /\ Returns(t, action, c) /\ Attempts(action) = <<>>
          /\ UNCHANGED <<closed, queues, enqueue_attempts, dequeue_attempts, op>>
      BY <1>4, <2>1 DEF NoAttempt
    <2>3. Settled(action)
      BY <2>2 DEF Settled
    <2> QED BY <1>1, <2>1, <2>2, <2>3, ReturnsFlush
  <1>5. CASE RunAttempt(t, action)
    <2>1. PICK o \in Ops, b \in Operation :
             /\ thr[t].pc = action /\ Attempts(action) # <<>> /\ o = Head(Attempts(action))
             /\ ~op[o].is_cancelled /\ Waiting(op[o])
             /\ op[o].call \in Call /\ op[o].call.kind \in Kinds(action)
             /\ RunIs(run_callback(o).result, queues', closed', b, op[o])
             /\ Ends(t, action, o, b) \/ Stays(t, action, o, b)
             /\ cm' = cm /\ cb' = cb
      BY <1>5, RunAttemptIs
    <2>2. CASE Ends(t, action, o, b)
      <3>1. /\ \A u \in Threads \ {t} : thr'[u] = thr[u]
            /\ thr'[t].pc = thr[t].pc /\ thr'[t].changed = TRUE
        BY <2>2, EndsThreads
      <3>2. mu' = t
        BY <1>2, <2>2 DEF Ends
      <3>3. \A u \in Threads : thr'[u].pc \in {"enqueue", "dequeue"} <=> mu' = u
        BY <1>2, <3>1, <3>2 DEF FlushInv
      <3> QED BY <1>2, <3>1, <3>2, <3>3 DEF FlushInv
    <2>3. CASE Stays(t, action, o, b)
      <3>1. PICK c \in BOOLEAN : c = (thr[t].changed \/ run_callback(o).result = "kProgress")
        BY <1>2
      <3>2. Returns(t, action, c)
        BY <2>3, <3>1 DEF Stays
      <3>3. ASSUME ~c
            PROVE  /\ UNCHANGED <<closed, queues, enqueue_attempts, dequeue_attempts, op>>
                   /\ Settled(action) /\ ~thr[t].changed
        <4>1. run_callback(o).result = "kNoProgress" /\ ~thr[t].changed
          BY <2>1, <2>3, <3>1, <3>3 DEF RunIs, Stays
        <4>2. queues' = queues /\ closed' = closed /\ b = op[o]
          BY <2>1, <4>1 DEF RunIs
        <4>3. op' = op /\ UNCHANGED <<enqueue_attempts, dequeue_attempts>>
          BY <2>3, <4>2 DEF Stays, TypeOK
        <4>4. Settled(action)
          BY <2>1, <4>1 DEF Settled
        <4> QED BY <4>1, <4>2, <4>3, <4>4
      <3> QED BY <1>1, <3>2, <3>3, ReturnsFlush
    <2> QED BY <2>1, <2>2, <2>3
  <1> QED BY <1>3, <1>4, <1>5

LEMMA ThreadFlush ==
    ASSUME TypeOK, CallbackInv, FlushInv, NEW t \in Threads, mu = NoThread,
           CallCallback(t) \/ CleanUp(t) \/ Return(t)
    PROVE  FlushInv'
  <1>1. mu' = mu /\ UNCHANGED <<closed, queues, enqueue_attempts, dequeue_attempts>>
    BY DEF CallCallback, CleanUp, Return
  <1>2. CASE CallCallback(t) \/ CleanUp(t)
    <2>1. /\ \A o \in Ops : op'[o] # op[o] => op[o].done_callback = "null"
          /\ \A u \in Threads : thr'[u].pc = thr[u].pc
      BY <1>2, CalledCallbacks DEF CallCallback, CleanUp
    <2>2. \A o \in Ops : op[o].done_callback = "empty" => op'[o] = op[o]
      BY <2>1
    <2> QED BY <1>1, <2>1, <2>2, OutsideFlush
  <1>3. CASE Return(t)
    <2>1. thr' = [thr EXCEPT ![t].pc = "returned"] /\ thr[t].pc = "clean" /\ thr \in [Threads -> Thread]
      BY <1>3 DEF Return, TypeOK
    <2>2. \A u \in Threads : thr'[u].pc = IF u = t THEN "returned" ELSE thr[u].pc
      BY <2>1 DEF Thread
    <2>3. \A u \in Threads : /\ thr'[u].pc \in {"enqueue", "dequeue"} => thr'[u].pc = thr[u].pc
                             /\ thr[u].pc = "outside" => thr'[u].pc = "outside"
      BY <2>1, <2>2
    <2>4. \A o \in Ops : op[o].call.kind # "close_cancel" => op'[o] = op[o]
      <3>1. CASE op' = op
        BY <3>1
      <3>2. CASE op' # op
        <4>1. PICK p \in Ops : op[p].call.kind = "close_cancel"
                               /\ op' = [Called(p) EXCEPT ![p].done_callback = "null"]
          BY <1>3, <3>2 DEF Return, Threads, Kind
        <4>2. op \in [Ops -> Operation]
          BY DEF TypeOK
        <4>3. \A o \in Ops \ {p} : op'[o] = op[o]
          BY <4>1, <4>2 DEF Called
        <4> QED BY <4>1, <4>3
      <3> QED BY <3>1, <3>2
    <2>5. \A o \in Ops : op[o].call \in Call /\ op[o].call.kind # "close_cancel"
                         /\ op[o].done_callback = "empty" => op'[o] = op[o]
      BY <2>4
    <2> QED BY <1>1, <2>3, <2>5, OutsideFlush
  <1> QED BY <1>2, <1>3

LEMMA CallFlush ==
    ASSUME TypeOK, CallbackInv, FlushInv, NEW o \in Ops,
           TryEnqueue(o) \/ TryDequeue(o) \/ Close(o) \/ CloseAndCancel(o) \/ Cancel(o)
    PROVE  FlushInv'
  <1>1. <<o, "call">> \in Threads /\ <<o, "cancel">> \in Threads
    BY DEF Threads
  <1>2. CASE TryEnqueue(o) \/ TryDequeue(o) \/ Close(o)
    <2>1. PICK a : TryIs(o, a)
      BY <1>2, TriesAre
    <2>2. PICK pc : Begins(o, a, pc)
      BY <2>1 DEF TryIs
    <2>3. /\ \A p \in Ops \ {o} : op'[p] = op[p]
          /\ op[o].call \notin Call
          /\ \A u \in Threads \ {<<o, "call">>} : thr'[u] = thr[u]
          /\ thr'[<<o, "call">>].pc = pc
      BY <2>2, BeginsIs
    <2>4. thr[<<o, "call">>].pc = "idle" /\ pc \in {"outside", "returned"}
      BY <2>2 DEF CallbackInv, OperationOK, Begins
    <2>5. \A u \in Threads : /\ thr'[u].pc \in {"enqueue", "dequeue"} => thr'[u].pc = thr[u].pc
                             /\ thr[u].pc = "outside" => thr'[u].pc = "outside"
      BY <2>3, <2>4
    <2>6. mu = NoThread /\ mu' = mu
      BY <2>1 DEF TryIs
    <2>7. CASE pc = "outside"
      <3>1. \E u \in Threads : thr'[u].pc = "outside"
        BY <1>1, <2>3, <2>7
      <3> QED BY <2>5, <2>6, <3>1, OutsideFlush
    <2>8. CASE pc = "returned"
      <3>1. UNCHANGED <<closed, queues, enqueue_attempts, dequeue_attempts>>
        <4>1. ~Begins(o, a, "outside")
          <5>1. SUFFICES ASSUME Begins(o, a, "outside") PROVE FALSE
            OBVIOUS
          <5>2. thr'[<<o, "call">>].pc = "outside"
            BY <5>1, BeginsIs
          <5> QED BY <2>3, <2>8, <5>2
        <4> QED BY <2>1, <4>1 DEF TryIs
      <3>2. \A p \in Ops : op[p].call \in Call /\ op[p].call.kind # "close_cancel"
                           /\ op[p].done_callback = "empty" => op'[p] = op[p]
        BY <2>3
      <3> QED BY <2>5, <2>6, <3>1, <3>2, OutsideFlush
    <2> QED BY <2>4, <2>7, <2>8
  <1>3. CASE CloseAndCancel(o)
    <2>1. /\ mu = NoThread /\ mu' = mu /\ thr'[<<o, "call">>].pc = "outside"
      BY <1>3, CloseAndCancelIs
    <2>2. \A u \in Threads \ {<<o, "call">>} : thr'[u] = thr[u]
      BY <1>3, CloseAndCancelIs DEF Cancels
    <2>3. \A u \in Threads : /\ thr'[u].pc \in {"enqueue", "dequeue"} => thr'[u].pc = thr[u].pc
                             /\ thr[u].pc = "outside" => thr'[u].pc = "outside"
      BY <2>1, <2>2
    <2> QED BY <1>1, <2>1, <2>3, OutsideFlush
  <1>4. CASE Cancel(o)
    <2>1. /\ mu = NoThread /\ mu' = mu
          /\ UNCHANGED <<closed, queues, enqueue_attempts, dequeue_attempts>>
      BY <1>4, CancelIs
    <2>2. CASE UNCHANGED <<op, thr>>
      BY <2>1, <2>2, OutsideFlush
    <2>3. CASE op' # op \/ thr' # thr
      <3>1. thr'[<<o, "cancel">>].pc = "outside"
            /\ \A u \in Threads \ {<<o, "cancel">>} : thr'[u] = thr[u]
        BY <1>4, <2>3, CancelIs DEF Cancels
      <3>2. \A u \in Threads : /\ thr'[u].pc \in {"enqueue", "dequeue"} => thr'[u].pc = thr[u].pc
                               /\ thr[u].pc = "outside" => thr'[u].pc = "outside"
        BY <3>1
      <3> QED BY <1>1, <2>1, <3>1, <3>2, OutsideFlush
    <2> QED BY <2>2, <2>3
  <1> QED BY <1>2, <1>3, <1>4

LEMMA NextFlush == ASSUME TypeOK, CallbackInv, FlushInv, [Next]_vars PROVE FlushInv'
  <1>1. ASSUME NEW o \in Ops,
               TryEnqueue(o) \/ TryDequeue(o) \/ Close(o) \/ CloseAndCancel(o) \/ Cancel(o)
        PROVE  FlushInv'
    BY <1>1, CallFlush
  <1>2. ASSUME NEW t \in Threads, Step(t) PROVE FlushInv'
    <2>1. CASE mu = NoThread /\ (CallCallback(t) \/ CleanUp(t) \/ Return(t))
      BY <2>1, ThreadFlush
    <2>2. CASE Lock(t)
      BY <2>2, LockFlush
    <2>3. ASSUME NEW action \in {"enqueue", "dequeue"},
                 SkipCancelled(t, action) \/ RunAttempt(t, action) \/ NoAttempt(t, action)
          PROVE  FlushInv'
      BY <2>3, AttemptFlush
    <2> QED BY <1>2, <2>1, <2>2, <2>3 DEF Step
  <1>3. CASE UNCHANGED <<closed, queues, enqueue_attempts, dequeue_attempts, op, thr, mu>>
    <2>1. \A a \in {"enqueue", "dequeue"} : Settled(a) => Settled(a)'
      BY <1>3, SettledFrame
    <2> QED BY <1>3, <2>1 DEF FlushInv
  <1>4. ASSUME NEW m \in Managers, StartCancel(m) \/ CancelDone(m) \/ NextStep(m)
        PROVE  UNCHANGED <<closed, queues, enqueue_attempts, dequeue_attempts, op, thr, mu>>
    BY <1>4 DEF StartCancel, CancelDone, NextStep
  <1> QED BY <1>1, <1>2, <1>3, <1>4 DEF Next, vars

-----------------------------------------------------------------------------
(* The actions keep LateInv.                                               *)

(* What LateOK depends on in an operation.                                 *)
SameLate(b, a) ==
    /\ b.call = a.call /\ b.late = a.late
    /\ a.call.kind = "close" => b.is_cancelled = a.is_cancelled

LEMMA LateFrame ==
    ASSUME NEW s \in Seq(Ops), NEW x, NEW x2, LateOK(s, x),
           \A o \in Ops : SameLate(x2[o], x[o])
    PROVE  LateOK(s, x2)
  <1>1. \A i \in 1 .. Len(s) : s[i] \in Ops
    BY ElementOfSeq
  <1>2. Len(s) \in Nat
    BY LenProperties
  <1>3. \A i \in 1 .. Len(s) : ClosesAt(s, i, x) => ClosesAt(s, i, x2)
    BY <1>1 DEF ClosesAt, SameLate
  <1>4. ASSUME \E o \in Ops : x2[o].call # <<>> /\ x2[o].call.kind \in Closing
        PROVE  \E j \in 1 .. Len(s) : ClosesAt(s, j, x2)
    <2>1. \E o \in Ops : x[o].call # <<>> /\ x[o].call.kind \in Closing
      BY <1>4 DEF SameLate
    <2> QED BY <1>3, <2>1 DEF LateOK
  <1>5. ASSUME NEW i \in 1 .. Len(s), x2[s[i]].late
        PROVE  \E j \in 1 .. i - 1 : ClosesAt(s, j, x2)
    <2>1. x[s[i]].late
      BY <1>1, <1>5 DEF SameLate
    <2>2. PICK j \in 1 .. i - 1 : ClosesAt(s, j, x)
      BY <2>1 DEF LateOK
    <2>3. j \in 1 .. Len(s)
      BY <1>2
    <2> QED BY <1>3, <2>2, <2>3
  <1> QED BY <1>4, <1>5 DEF LateOK

(* The attempt at the front is not a Close that waits, and is popped.      *)
LEMMA LatePop ==
    ASSUME NEW s \in Seq(Ops), s # <<>>, NEW x, LateOK(s, x), ~ClosesAt(s, 1, x)
    PROVE  LateOK(Tail(s), x)
  <1>1. /\ Len(s) \in Nat \ {0} /\ Len(Tail(s)) = Len(s) - 1
        /\ \A i \in 1 .. Len(s) - 1 : i + 1 \in 1 .. Len(s) /\ Tail(s)[i] = s[i + 1]
    BY FrontAndRest
  <1>2. ASSUME NEW j \in 1 .. Len(s), ClosesAt(s, j, x)
        PROVE  j - 1 \in 1 .. Len(Tail(s)) /\ ClosesAt(Tail(s), j - 1, x)
    <2>1. j # 1
      BY <1>2
    <2>2. j - 1 \in 1 .. Len(s) - 1 /\ (j - 1) + 1 = j
      BY <1>1, <2>1
    <2>3. Tail(s)[j - 1] = s[j]
      BY <1>1, <2>2
    <2> QED BY <1>1, <1>2, <2>2, <2>3 DEF ClosesAt
  <1>3. ASSUME \E o \in Ops : x[o].call # <<>> /\ x[o].call.kind \in Closing
        PROVE  \E j \in 1 .. Len(Tail(s)) : ClosesAt(Tail(s), j, x)
    BY <1>2, <1>3 DEF LateOK
  <1>4. ASSUME NEW i \in 1 .. Len(Tail(s)), x[Tail(s)[i]].late
        PROVE  \E j \in 1 .. i - 1 : ClosesAt(Tail(s), j, x)
    <2>1. i + 1 \in 1 .. Len(s) /\ x[s[i + 1]].late
      BY <1>1, <1>4
    <2>2. PICK j \in 1 .. (i + 1) - 1 : ClosesAt(s, j, x)
      BY <2>1 DEF LateOK
    <2>3. j \in 1 .. Len(s) /\ j # 1
      BY <1>1, <2>2
    <2>4. ClosesAt(Tail(s), j - 1, x)
      BY <1>2, <2>2, <2>3
    <2>5. j - 1 \in 1 .. i - 1
      BY <1>1, <2>2, <2>3
    <2> QED BY <2>4, <2>5
  <1> QED BY <1>3, <1>4 DEF LateOK

(* Operation o comes, and is late if a Close has been called before.       *)
LEMMA LateAppend ==
    ASSUME NEW s \in Seq(Ops), NEW x, NEW x2, LateOK(s, x), NEW o \in Ops,
           \A i \in 1 .. Len(s) : s[i] # o, \A p \in Ops \ {o} : x2[p] = x[p],
           x2[o].late => \E p \in Ops : x[p].call # <<>> /\ x[p].call.kind \in Closing,
           ~(x[o].call # <<>> /\ x[o].call.kind \in Closing),
           x2[o].call.kind \in Closing => x2[o].call.kind = "close" /\ ~x2[o].is_cancelled
    PROVE  /\ LateOK(Append(s, o), x2)
           /\ x2[o].call.kind \notin Closing => LateOK(s, x2)
  <1>1. /\ Len(s) \in Nat /\ Len(Append(s, o)) = Len(s) + 1
        /\ \A i \in 1 .. Len(s) + 1 : Append(s, o)[i] = IF i <= Len(s) THEN s[i] ELSE o
    BY AppendOne
  <1>2. \A i \in 1 .. Len(s) : s[i] \in Ops \ {o}
    BY ElementOfSeq
  <1>3. \A i \in 1 .. Len(s) : ClosesAt(s, i, x) => ClosesAt(s, i, x2) /\ ClosesAt(Append(s, o), i, x2)
    BY <1>1, <1>2 DEF ClosesAt
  <1>4. (\E p \in Ops : x[p].call # <<>> /\ x[p].call.kind \in Closing) =>
           \E j \in 1 .. Len(s) : ClosesAt(s, j, x2) /\ ClosesAt(Append(s, o), j, x2)
    BY <1>3 DEF LateOK
  <1>5. ASSUME NEW p \in Ops, x2[p].call # <<>> /\ x2[p].call.kind \in Closing
        PROVE  /\ \E j \in 1 .. Len(s) + 1 : ClosesAt(Append(s, o), j, x2)
               /\ x2[o].call.kind \notin Closing => \E j \in 1 .. Len(s) : ClosesAt(s, j, x2)
    <2>1. CASE p # o
      <3>1. \E j \in 1 .. Len(s) : ClosesAt(s, j, x2) /\ ClosesAt(Append(s, o), j, x2)
        BY <1>4, <1>5, <2>1
      <3> QED BY <1>1, <3>1
    <2>2. CASE p = o
      <3>1. Append(s, o)[Len(s) + 1] = o /\ Len(s) + 1 \in 1 .. Len(s) + 1
        BY <1>1
      <3>2. ClosesAt(Append(s, o), Len(s) + 1, x2)
        BY <1>5, <2>2, <3>1 DEF ClosesAt
      <3> QED BY <1>5, <2>2, <3>1, <3>2
    <2> QED BY <2>1, <2>2
  <1>6. ASSUME NEW i \in 1 .. Len(s), x2[s[i]].late
        PROVE  \E j \in 1 .. i - 1 : ClosesAt(s, j, x2) /\ ClosesAt(Append(s, o), j, x2)
    <2>1. x[s[i]].late
      BY <1>2, <1>6
    <2>2. PICK j \in 1 .. i - 1 : ClosesAt(s, j, x)
      BY <2>1 DEF LateOK
    <2>3. j \in 1 .. Len(s)
      BY <1>1
    <2> QED BY <1>3, <2>2, <2>3
  <1>7. ASSUME NEW i \in 1 .. Len(s) + 1, x2[Append(s, o)[i]].late
        PROVE  \E j \in 1 .. i - 1 : ClosesAt(Append(s, o), j, x2)
    <2>1. CASE i <= Len(s)
      <3>1. i \in 1 .. Len(s) /\ Append(s, o)[i] = s[i]
        BY <1>1, <2>1
      <3> QED BY <1>6, <1>7, <3>1
    <2>2. CASE ~(i <= Len(s))
      <3>1. i - 1 = Len(s) /\ Append(s, o)[i] = o
        BY <1>1, <2>2
      <3>2. \E j \in 1 .. Len(s) : ClosesAt(Append(s, o), j, x2)
        BY <1>4, <1>7, <3>1
      <3> QED BY <3>1, <3>2
    <2> QED BY <2>1, <2>2
  <1>8. LateOK(Append(s, o), x2)
    BY <1>1, <1>5, <1>7 DEF LateOK
  <1>9. x2[o].call.kind \notin Closing => LateOK(s, x2)
    BY <1>5, <1>6 DEF LateOK
  <1> QED BY <1>8, <1>9

(* What NothingPut depends on in an operation.                             *)
SamePut(b, a) ==
    /\ a.call.kind = "enqueue" /\ b.status = "OK" => a.status = "OK"
    /\ a.call.kind = "enqueue_many" => b.elements_requested = a.elements_requested
    /\ b.is_cancelled => b.status # "OK" \/ (a.is_cancelled /\ b.status = a.status)

LEMMA SamePutIs ==
    ASSUME NEW a, NEW b, NEW waits, NothingPut(a, waits), b.call = a.call, b.late = a.late,
           SamePut(b, a)
    PROVE  NothingPut(b, waits)
  BY DEF NothingPut, SamePut

Listed == {"registered", "to_run"}

LEMMA LateUnchanged ==
    ASSUME TypeOK, LateInv, closed' = closed, enqueue_attempts' = enqueue_attempts,
           \A o \in Ops : SameLate(op'[o], op[o]) /\ SamePut(op'[o], op[o]),
           \A o \in Ops : cb'[o] \in Listed => cb[o] \in Listed
    PROVE  LateInv'
  <1>1. PICK x2 : x2 = op'
    OBVIOUS
  <1>2. \A o \in Ops : SameLate(x2[o], op[o]) /\ SamePut(x2[o], op[o])
    BY <1>1
  <1>3. enqueue_attempts \in Seq(Ops)
    BY DEF TypeOK
  <1>4. ~closed' => LateOK(enqueue_attempts, x2)
    BY <1>2, <1>3, LateFrame DEF LateInv
  <1>5. ASSUME NEW o \in Ops PROVE NothingPut(x2[o], InSeq(o, enqueue_attempts))
    <2>1. NothingPut(op[o], InSeq(o, enqueue_attempts))
      BY DEF LateInv
    <2>2. x2[o].call = op[o].call /\ x2[o].late = op[o].late /\ SamePut(x2[o], op[o])
      BY <1>2 DEF SameLate
    <2> QED BY <2>1, <2>2, SamePutIs
  <1>7. ASSUME NEW o \in Ops PROVE NothingPut(op[o], InSeq(o, enqueue_attempts))'
    <2>1. InSeq(o, enqueue_attempts)' = InSeq(o, enqueue_attempts)
      BY DEF InSeq
    <2>2. NothingPut(x2[o], InSeq(o, enqueue_attempts))
      BY <1>5
    <2> QED BY <1>1, <2>1, <2>2 DEF NothingPut
  <1>8. \A o \in Ops : cb'[o] \in {"registered", "to_run"} => op'[o].call # <<>>
    BY DEF LateInv, Listed, SameLate
  <1> QED BY <1>1, <1>4, <1>7, <1>8 DEF LateInv

LEMMA ThreadLate ==
    ASSUME TypeOK, CallbackInv, LateInv, NEW t \in Threads,
           CallCallback(t) \/ Lock(t) \/ CleanUp(t) \/ Return(t)
    PROVE  LateInv'
  <1>1. closed' = closed /\ enqueue_attempts' = enqueue_attempts
    BY DEF CallCallback, Lock, CleanUp, Return
  <1>2. op \in [Ops -> Operation] /\ cb \in [Ops -> CbStates]
    BY DEF TypeOK, CbStates
  <1>3. \A o \in Ops : cb'[o] \in Listed => cb[o] \in Listed
    <2>1. CASE CallCallback(t) \/ Lock(t)
      BY <2>1 DEF CallCallback, Lock
    <2>2. CASE CleanUp(t)
      BY <1>2, <2>2 DEF CleanUp, Listed
    <2>3. CASE Return(t)
      BY <1>2, <2>3 DEF Return, Listed
    <2> QED BY <2>1, <2>2, <2>3
  <1>4. \A o \in Ops : SameLate(op'[o], op[o]) /\ SamePut(op'[o], op[o])
    <2>1. CASE op' = op
      BY <2>1 DEF SameLate, SamePut
    <2>2. CASE CallCallback(t) \/ CleanUp(t)
      <3>1. \A o \in Ops : /\ op'[o].call = op[o].call
                           /\ op'[o].elements_requested = op[o].elements_requested
                           /\ op'[o].status = op[o].status /\ op'[o].late = op[o].late
                           /\ op'[o].is_cancelled = op[o].is_cancelled
        BY <2>2, CalledCallbacks DEF CallCallback, CleanUp
      <3> QED BY <3>1 DEF SameLate, SamePut
    <2>3. CASE Return(t) /\ op' # op
      <3>1. PICK p \in Ops : op' = [Called(p) EXCEPT ![p].done_callback = "null"]
        BY <2>3 DEF Return, Threads
      <3>2. \A o \in Ops : /\ op'[o].call = op[o].call
                           /\ op'[o].elements_requested = op[o].elements_requested
                           /\ op'[o].status = op[o].status /\ op'[o].late = op[o].late
                           /\ op'[o].is_cancelled = op[o].is_cancelled
        BY <1>2, <3>1 DEF Called, Operation
      <3> QED BY <3>2 DEF SameLate, SamePut
    <2> QED BY <2>1, <2>2, <2>3 DEF Lock
  <1> QED BY <1>1, <1>3, <1>4, LateUnchanged

(* A Close has no manager, so that the cancel callback of another          *)
(* operation does not take it.                                             *)
LEMMA CancelLate ==
    ASSUME TypeOK, CallbackInv, LateInv, NEW o \in Ops, Cancel(o) PROVE LateInv'
  <1>1. closed' = closed /\ enqueue_attempts' = enqueue_attempts /\ cb[o] = "to_run"
    BY DEF Cancel
  <1>2. op \in [Ops -> Operation] /\ cb \in [Ops -> CbStates]
    BY DEF TypeOK, CbStates
  <1>3. \A p \in Ops : cb'[p] \in Listed => cb[p] \in Listed
    BY <1>2 DEF Cancel, Listed
  <1>4. \A p \in Ops : SameLate(op'[p], op[p]) /\ SamePut(op'[p], op[p])
    <2>1. CASE op' = op
      BY <2>1 DEF SameLate, SamePut
    <2>2. CASE op' # op
      <3>1. PICK action \in {"enqueue", "dequeue"} :
               action = IF Kind(o) \in {"enqueue", "enqueue_many"} THEN "enqueue" ELSE "dequeue"
        OBVIOUS
      <3>2. PICK q \in FirstMatch(Attempts(action), o) :
               ~op[q].is_cancelled /\ op' = [op EXCEPT ![q] = Cancelled(@)]
        BY <2>2, <3>1 DEF Cancel
      <3>3. Attempts(action) \in Seq(Ops) /\ AttemptsOK(Attempts(action), Kinds(action), op)
        BY AttemptsTyped DEF Kinds
      <3>4. PICK i \in 1 .. Len(Attempts(action)) : q = Attempts(action)[i] /\ Match(o, q)
        BY <3>2, <3>3, LenProperties DEF FirstMatch
      <3>5. q \in Ops /\ Waiting(op[q]) /\ op[q].call \in Call /\ op[q].call.kind # "close_cancel"
        BY <3>2, <3>4, AttemptWaits
      <3>6. op[q].call.kind \in Kinds(action)
        BY <3>3, <3>4 DEF AttemptsOK
      <3>7. op[q].call.kind # "close"
        <4>1. SUFFICES ASSUME op[q].call.kind = "close" PROVE FALSE
          OBVIOUS
        <4>2. action = "enqueue"
          BY <3>6, <4>1 DEF Kinds, Consuming
        <4>3. op[o].call.kind \in {"enqueue", "enqueue_many"}
          BY <3>1, <4>2 DEF Kind
        <4>4. op[o].call # <<>>
          BY <1>1 DEF LateInv
        <4>5. op[o].call \in Calls[o] /\ op[q].call \in Calls[q]
          BY <3>5, <4>4, NoCallIs DEF TypeOK
        <4>6. op[o].call.cm # NoCM
          BY <4>3, <4>5, QueueAssumption
        <4>7. op[q].call.cm = NoCM
          BY <3>5, <4>1, <4>5, QueueAssumption
        <4> QED BY <3>4, <4>6, <4>7 DEF Match
      <3>8. PICK b \in Operation : b = Cancelled(op[q])
        BY <1>2, <3>5, CancelledIs
      <3>9. b.call = op[q].call /\ b.late = op[q].late /\ b.status # "OK"
            /\ b.elements_requested = op[q].elements_requested
        BY <1>2, <3>5, <3>8, CancelledIs
      <3>10. op' = [op EXCEPT ![q] = b]
        BY <1>2, <3>2, <3>5, <3>8
      <3>11. op'[q] = b /\ \A p \in Ops \ {q} : op'[p] = op[p]
        BY <1>2, <3>5, <3>10
      <3>12. SameLate(b, op[q]) /\ SamePut(b, op[q])
        BY <3>7, <3>9 DEF SameLate, SamePut
      <3>13. \A p \in Ops \ {q} : SameLate(op'[p], op[p]) /\ SamePut(op'[p], op[p])
        BY <3>11 DEF SameLate, SamePut
      <3> QED BY <3>11, <3>12, <3>13
    <2> QED BY <2>1, <2>2
  <1> QED BY <1>1, <1>3, <1>4, LateUnchanged

LEMMA ManagerLate ==
    ASSUME TypeOK, LateInv, NEW m \in Managers, StartCancel(m) \/ CancelDone(m) \/ NextStep(m)
    PROVE  LateInv'
  <1>1. UNCHANGED <<closed, enqueue_attempts, op>>
    BY DEF StartCancel, CancelDone, NextStep
  <1>2. \A o \in Ops : cb'[o] \in Listed => cb[o] \in Listed
    BY DEF StartCancel, CancelDone, NextStep, Listed
  <1>3. \A o \in Ops : SameLate(op'[o], op[o]) /\ SamePut(op'[o], op[o])
    BY <1>1 DEF SameLate, SamePut
  <1> QED BY <1>1, <1>2, <1>3, LateUnchanged

LEMMA InSeqIs ==
    ASSUME NEW s \in Seq(Ops), NEW o
    PROVE  /\ InSeq(o, s) <=> \E i \in 1 .. Len(s) : s[i] = o
           /\ s # <<>> /\ InSeq(o, s) => o = Head(s) \/ InSeq(o, Tail(s))
           /\ \A p \in Ops : InSeq(o, s) \/ o = p => InSeq(o, Append(s, p))
  <1>1. ASSUME NEW r \in Seq(Ops) PROVE InSeq(o, r) <=> \E i \in 1 .. Len(r) : r[i] = o
    BY LenProperties DEF InSeq
  <1>2. ASSUME s # <<>>, InSeq(o, s), o # Head(s) PROVE InSeq(o, Tail(s))
    <2>1. /\ Len(s) \in Nat \ {0} /\ Head(s) = s[1] /\ Tail(s) \in Seq(Ops)
          /\ Len(Tail(s)) = Len(s) - 1
          /\ \A i \in 1 .. Len(s) - 1 : i + 1 \in 1 .. Len(s) /\ Tail(s)[i] = s[i + 1]
      BY <1>2, FrontAndRest
    <2>2. PICK i \in 1 .. Len(s) : s[i] = o /\ i # 1
      BY <1>1, <1>2, <2>1
    <2>3. i - 1 \in 1 .. Len(s) - 1 /\ (i - 1) + 1 = i
      BY <2>1, <2>2
    <2>4. Tail(s)[i - 1] = o
      BY <2>1, <2>2, <2>3
    <2> QED BY <1>1, <2>1, <2>3, <2>4
  <1>3. ASSUME NEW p \in Ops, InSeq(o, s) \/ o = p PROVE InSeq(o, Append(s, p))
    <2>1. /\ Len(s) \in Nat /\ Len(Append(s, p)) = Len(s) + 1 /\ Append(s, p) \in Seq(Ops)
          /\ \A i \in 1 .. Len(s) + 1 : Append(s, p)[i] = IF i <= Len(s) THEN s[i] ELSE p
      BY AppendOne
    <2>2. CASE InSeq(o, s)
      <3>1. PICK i \in 1 .. Len(s) : s[i] = o
        BY <1>1, <2>2
      <3>2. i \in 1 .. Len(s) + 1 /\ Append(s, p)[i] = o
        BY <2>1, <3>1
      <3> QED BY <1>1, <2>1, <3>2
    <2>3. CASE o = p
      <3>1. Len(s) + 1 \in 1 .. Len(s) + 1 /\ Append(s, p)[Len(s) + 1] = o
        BY <2>1, <2>3
      <3> QED BY <1>1, <2>1, <3>1
    <2> QED BY <1>3, <2>2, <2>3
  <1> QED BY <1>1, <1>2, <1>3

(* Enqueue attempts of which the one at the front, o, is run or popped:    *)
(* it becomes b, the queue is closed or o was not a Close that waits.      *)
LEMMA FrontLate ==
    ASSUME TypeOK, LateInv, NEW o \in Ops, NEW b, enqueue_attempts # <<>>,
           o = Head(enqueue_attempts), op'[o] = b, \A p \in Ops \ {o} : op'[p] = op[p],
           b.call = op[o].call, b.late = op[o].late, b.is_cancelled = op[o].is_cancelled,
           enqueue_attempts' = enqueue_attempts \/ enqueue_attempts' = Tail(enqueue_attempts),
           closed' \in BOOLEAN, closed => closed',
           ~closed' => ~ClosesAt(enqueue_attempts, 1, op),
           b.is_cancelled => b = op[o],
           closed /\ op[o].call.kind = "enqueue" => b.status # "OK" \/ b.is_cancelled,
           closed /\ op[o].call.kind = "enqueue_many" =>
              b.elements_requested = op[o].elements_requested,
           cb' = cb
    PROVE  LateInv'
  <1>1. enqueue_attempts \in Seq(Ops) /\ closed \in BOOLEAN
    BY DEF TypeOK
  <1>2. /\ o = enqueue_attempts[1] /\ 1 \in 1 .. Len(enqueue_attempts)
        /\ Tail(enqueue_attempts) \in Seq(Ops)
    BY <1>1, FrontAndRest
  <1>3. PICK x2 : x2 = op'
    OBVIOUS
  <1>4. \A p \in Ops : SameLate(x2[p], op[p])
    BY <1>3 DEF SameLate
  <1>5. ASSUME closed' = FALSE PROVE LateOK(enqueue_attempts', x2)
    <2>1. LateOK(enqueue_attempts, op) /\ ~ClosesAt(enqueue_attempts, 1, op)
      BY <1>1, <1>5 DEF LateInv
    <2>2. CASE enqueue_attempts' = enqueue_attempts
      BY <1>1, <1>4, <2>1, <2>2, LateFrame
    <2>3. CASE enqueue_attempts' = Tail(enqueue_attempts)
      <3>1. LateOK(Tail(enqueue_attempts), op)
        BY <1>1, <2>1, LatePop
      <3>2. LateOK(Tail(enqueue_attempts), x2)
        BY <1>2, <1>4, <3>1, LateFrame
      <3> QED BY <2>3, <3>2
    <2> QED BY <2>2, <2>3
  <1>6. op[o].late /\ closed = FALSE => FALSE
    <2>1. SUFFICES ASSUME op[o].late, closed = FALSE PROVE FALSE
      OBVIOUS
    <2>2. LateOK(enqueue_attempts, op)
      BY <2>1 DEF LateInv
    <2>3. \E j \in 1 .. 1 - 1 : ClosesAt(enqueue_attempts, j, op)
      BY <1>2, <2>1, <2>2 DEF LateOK
    <2> QED BY <2>3
  <1>7. ASSUME NEW p \in Ops PROVE NothingPut(op[p], InSeq(p, enqueue_attempts))'
    <2>1. NothingPut(op[p], InSeq(p, enqueue_attempts))
      BY DEF LateInv
    <2>2. CASE p # o
      <3>1. InSeq(p, enqueue_attempts) => InSeq(p, enqueue_attempts)'
        <4>1. InSeq(p, enqueue_attempts) => InSeq(p, Tail(enqueue_attempts))
          BY <1>1, <2>2, InSeqIs
        <4>2. CASE enqueue_attempts' = enqueue_attempts
          BY <4>2 DEF InSeq
        <4>3. CASE enqueue_attempts' = Tail(enqueue_attempts)
          BY <4>1, <4>3 DEF InSeq
        <4> QED BY <4>2, <4>3
      <3>2. op'[p] = op[p]
        BY <2>2
      <3> QED BY <2>1, <3>1, <3>2 DEF NothingPut
    <2>3. CASE p = o
      <3>1. op[o].is_cancelled => op[o].status # "OK"
        BY <2>1, <2>3 DEF NothingPut
      <3>2. b.is_cancelled => b.status # "OK"
        BY <3>1
      <3>3. b.late /\ b.call.kind = "enqueue" => b.status # "OK"
        BY <1>1, <1>6, <3>2
      <3>4. b.late /\ b.call.kind = "enqueue_many" => b.elements_requested = b.call.n
        <4>1. op[o].late /\ op[o].call.kind = "enqueue_many" =>
                 op[o].elements_requested = op[o].call.n
          BY <2>1, <2>3 DEF NothingPut
        <4> QED BY <1>1, <1>6, <4>1
      <3> QED BY <2>3, <3>2, <3>3, <3>4 DEF NothingPut
    <2> QED BY <2>2, <2>3
  <1>8. \A p \in Ops : cb'[p] \in {"registered", "to_run"} => op'[p].call # <<>>
    BY <1>3, <1>4 DEF LateInv, SameLate
  <1>9. ~closed' => LateOK(enqueue_attempts, op)'
    BY <1>3, <1>5
  <1> QED BY <1>7, <1>8, <1>9 DEF LateInv

LEMMA AttemptLate ==
    ASSUME TypeOK, CallbackInv, LateInv, NEW t \in Threads, NEW action \in {"enqueue", "dequeue"},
           SkipCancelled(t, action) \/ RunAttempt(t, action) \/ NoAttempt(t, action)
    PROVE  LateInv'
  <1>1. closed \in BOOLEAN /\ enqueue_attempts \in Seq(Ops) /\ op \in [Ops -> Operation]
    BY DEF TypeOK
  <1>2. cb' = cb
    BY DEF SkipCancelled, RunAttempt, NoAttempt
  <1>3. ASSUME op' = op PROVE \A p \in Ops : SameLate(op'[p], op[p]) /\ SamePut(op'[p], op[p])
    BY <1>3 DEF SameLate, SamePut
  <1>4. CASE NoAttempt(t, action) \/ (SkipCancelled(t, action) /\ action = "dequeue")
    <2>1. UNCHANGED <<closed, enqueue_attempts, op>>
      BY <1>4 DEF NoAttempt, SkipCancelled, SetAttempts
    <2> QED BY <1>2, <1>3, <2>1, LateUnchanged
  <1>5. CASE SkipCancelled(t, action) /\ action = "enqueue"
    <2>1. /\ enqueue_attempts # <<>> /\ op[Head(enqueue_attempts)].is_cancelled
          /\ enqueue_attempts' = Tail(enqueue_attempts) /\ closed' = closed /\ op' = op
      BY <1>5 DEF SkipCancelled, Attempts, SetAttempts
    <2>2. PICK o \in Ops : o = Head(enqueue_attempts) /\ o = enqueue_attempts[1]
      BY <1>1, <2>1, FrontAndRest
    <2>3. ~ClosesAt(enqueue_attempts, 1, op)
      BY <2>1, <2>2 DEF ClosesAt
    <2> QED BY <1>1, <1>2, <2>1, <2>2, <2>3, FrontLate
  <1>6. CASE RunAttempt(t, action)
    <2>1. PICK o \in Ops, b \in Operation :
             /\ thr[t].pc = action /\ Attempts(action) # <<>> /\ o = Head(Attempts(action))
             /\ ~op[o].is_cancelled /\ Waiting(op[o])
             /\ op[o].call \in Call /\ op[o].call.kind \in Kinds(action)
             /\ RunIs(run_callback(o).result, queues', closed', b, op[o])
             /\ Ends(t, action, o, b) \/ Stays(t, action, o, b)
             /\ cm' = cm /\ cb' = cb
      BY <1>6, RunAttemptIs
    <2>2. PICK c \in Operation :
             /\ c = [b EXCEPT !.done_callback = "null"]
             /\ SameCall(c, b) /\ c.status = b.status
             /\ c.elements_requested = b.elements_requested
      BY MovedIs
    <2>3. PICK d : /\ op' = [op EXCEPT ![o] = d] /\ d.status = b.status /\ SameCall(d, b)
                   /\ d.elements_requested = b.elements_requested
      <3>1. CASE Ends(t, action, o, b)
        BY <2>2, <3>1 DEF Ends
      <3>2. CASE Stays(t, action, o, b)
        BY <3>2 DEF Stays, SameCall
      <3> QED BY <2>1, <3>1, <3>2
    <2>4. op'[o] = d /\ \A p \in Ops \ {o} : op'[p] = op[p]
      BY <1>1, <2>3
    <2>5. SameCall(b, op[o])
      BY <2>1 DEF RunIs
    <2>6. /\ d.call = op[o].call /\ d.late = op[o].late /\ d.is_cancelled = op[o].is_cancelled
          /\ ~d.is_cancelled
      BY <2>1, <2>3, <2>5 DEF SameCall
    <2>7. /\ op[o].call.kind = "close" => closed' /\ run_callback(o).result = "kComplete"
          /\ op[o].call.kind # "close" => closed' = closed
          /\ closed' \in BOOLEAN
      BY <2>1 DEF RunIs
    <2>8. CASE action = "enqueue"
      <3>1. enqueue_attempts # <<>> /\ o = Head(enqueue_attempts)
        BY <2>1, <2>8 DEF Attempts
      <3>2. o = enqueue_attempts[1]
        BY <1>1, <3>1, FrontAndRest
      <3>3. enqueue_attempts' = enqueue_attempts \/ enqueue_attempts' = Tail(enqueue_attempts)
        BY <2>1, <2>8 DEF Ends, Stays, SetAttempts, Attempts
      <3>4. ~closed' => ~ClosesAt(enqueue_attempts, 1, op)
        BY <2>7, <3>2 DEF ClosesAt
      <3>5. closed => closed'
        BY <2>7
      <3>6. /\ closed /\ op[o].call.kind = "enqueue" => d.status # "OK"
            /\ closed /\ op[o].call.kind = "enqueue_many" =>
                  d.elements_requested = op[o].elements_requested
        BY <2>1, <2>3 DEF RunIs
      <3> QED BY <1>2, <2>4, <2>6, <2>7, <3>1, <3>3, <3>4, <3>5, <3>6, FrontLate
    <2>9. CASE action = "dequeue"
      <3>1. op[o].call.kind \notin {"enqueue", "enqueue_many", "close"}
        BY <2>1, <2>9 DEF Kinds, Consuming
      <3>2. closed' = closed
        BY <2>7, <3>1
      <3>3. enqueue_attempts' = enqueue_attempts
        BY <2>1, <2>9 DEF Ends, Stays, SetAttempts
      <3>4. SameLate(d, op[o]) /\ SamePut(d, op[o])
        BY <2>6, <3>1 DEF SameLate, SamePut
      <3>5. \A p \in Ops \ {o} : SameLate(op'[p], op[p]) /\ SamePut(op'[p], op[p])
        BY <2>4 DEF SameLate, SamePut
      <3>6. \A p \in Ops : SameLate(op'[p], op[p]) /\ SamePut(op'[p], op[p])
        BY <2>4, <3>4, <3>5
      <3> QED BY <1>2, <3>2, <3>3, <3>6, LateUnchanged
    <2> QED BY <2>8, <2>9
  <1> QED BY <1>4, <1>5, <1>6

LEMMA TryLate ==
    ASSUME TypeOK, CallbackInv, LateInv, NEW o \in Ops, TryEnqueue(o) \/ TryDequeue(o) \/ Close(o)
    PROVE  LateInv'
  <1>1. closed \in BOOLEAN /\ enqueue_attempts \in Seq(Ops) /\ cb \in [Ops -> CbStates]
    BY DEF TypeOK, CbStates
  <1>2. \A p \in Ops \ {o} : cb'[p] = cb[p]
    <2>1. CASE Close(o)
      BY <2>1 DEF Close
    <2>2. CASE TryEnqueue(o) \/ TryDequeue(o)
      <3>1. cb' = cb \/ cb' = [cb EXCEPT ![o] = "registered"]
        BY <2>2 DEF TryEnqueue, TryDequeue, AtOnce, Registers
      <3> QED BY <1>1, <3>1
    <2> QED BY <2>1, <2>2
  <1>3. PICK a : TryIs(o, a)
    BY TriesAre
  <1>4. PICK pc : Begins(o, a, pc)
    BY <1>3 DEF TryIs
  <1>5. /\ op'[o] = a /\ \A p \in Ops \ {o} : op'[p] = op[p]
        /\ op[o].call \notin Call /\ a.call \in Call
    BY <1>4, BeginsIs
  <1>6. op[o].call = <<>> /\ a.call # <<>> /\ a.call.kind # "close_cancel"
    BY <1>4, <1>5, NoCallIs DEF Begins
  <1>7. /\ closed' = closed /\ a.late = CloseCalled /\ ~a.is_cancelled
        /\ a.elements_requested = a.call.n
    BY <1>3 DEF TryIs, Fresh
  <1>8. PICK x2 : x2 = op'
    OBVIOUS
  <1>9. /\ enqueue_attempts' = enqueue_attempts \/ enqueue_attempts' = Append(enqueue_attempts, o)
        /\ a.call.kind = "close" => enqueue_attempts' = Append(enqueue_attempts, o)
        /\ a.call.kind = "enqueue" /\ a.status = "OK" =>
              enqueue_attempts' = Append(enqueue_attempts, o)
    BY <1>3 DEF TryIs, SetAttempts, Attempts, Kinds, Consuming
  <1>10. ASSUME closed = FALSE PROVE LateOK(enqueue_attempts', x2)
    <2>1. LateOK(enqueue_attempts, op)
      BY <1>10 DEF LateInv
    <2>2. \A i \in 1 .. Len(enqueue_attempts) : enqueue_attempts[i] # o
      BY <1>5 DEF CallbackInv, AttemptsOK
    <2>3. \A p \in Ops \ {o} : x2[p] = op[p]
      BY <1>5, <1>8
    <2>4. x2[o].late => \E p \in Ops : op[p].call # <<>> /\ op[p].call.kind \in Closing
      BY <1>5, <1>7, <1>8 DEF CloseCalled
    <2>5. x2[o].call.kind \in Closing => x2[o].call.kind = "close" /\ ~x2[o].is_cancelled
      BY <1>5, <1>6, <1>7, <1>8 DEF Closing
    <2>6. ~(op[o].call # <<>> /\ op[o].call.kind \in Closing)
      BY <1>6
    <2>7. /\ LateOK(Append(enqueue_attempts, o), x2)
          /\ x2[o].call.kind \notin Closing => LateOK(enqueue_attempts, x2)
      BY <1>1, <2>1, <2>2, <2>3, <2>4, <2>5, <2>6, LateAppend
    <2>8. CASE enqueue_attempts' = Append(enqueue_attempts, o)
      BY <2>7, <2>8
    <2>9. CASE enqueue_attempts' # Append(enqueue_attempts, o)
      <3>1. x2[o].call.kind \notin Closing
        BY <1>5, <1>6, <1>8, <1>9, <2>9 DEF Closing
      <3> QED BY <1>9, <2>7, <2>9, <3>1
    <2> QED BY <2>8, <2>9
  <1>11. ASSUME NEW p \in Ops PROVE NothingPut(op[p], InSeq(p, enqueue_attempts))'
    <2>1. InSeq(p, enqueue_attempts) => InSeq(p, enqueue_attempts)'
      <3>1. InSeq(p, enqueue_attempts) => InSeq(p, Append(enqueue_attempts, o))
        BY <1>1, InSeqIs
      <3>2. CASE enqueue_attempts' = enqueue_attempts
        BY <3>2 DEF InSeq
      <3>3. CASE enqueue_attempts' = Append(enqueue_attempts, o)
        BY <3>1, <3>3 DEF InSeq
      <3> QED BY <1>9, <3>2, <3>3
    <2>2. CASE p # o
      <3>1. NothingPut(op[p], InSeq(p, enqueue_attempts)) /\ op'[p] = op[p]
        BY <1>5, <2>2 DEF LateInv
      <3> QED BY <2>1, <3>1 DEF NothingPut
    <2>3. CASE p = o
      <3>1. InSeq(o, Append(enqueue_attempts, o))
        BY <1>1, InSeqIs
      <3>2. a.call.kind = "enqueue" /\ a.status = "OK" => InSeq(p, enqueue_attempts)'
        BY <1>9, <2>3, <3>1 DEF InSeq
      <3>3. op'[p] = a
        BY <1>5, <2>3
      <3> QED BY <1>7, <3>2, <3>3 DEF NothingPut
    <2> QED BY <2>2, <2>3
  <1>12. \A p \in Ops : cb'[p] \in {"registered", "to_run"} => op'[p].call # <<>>
    BY <1>2, <1>5, <1>6 DEF LateInv
  <1>13. ~closed' => LateOK(enqueue_attempts, op)'
    BY <1>1, <1>7, <1>8, <1>10
  <1> QED BY <1>11, <1>12, <1>13 DEF LateInv

LEMMA CloseAndCancelLate ==
    ASSUME TypeOK, CallbackInv, LateInv, NEW o \in Ops, CloseAndCancel(o) PROVE LateInv'
  <1>1. /\ closed' = TRUE /\ UNCHANGED <<queues, enqueue_attempts, dequeue_attempts, mu, cm, cb>>
        /\ op' \in [Ops -> Operation] /\ <<o, "call">> \in Threads
        /\ op'[o].call \in Calls[o] /\ op'[o].call.kind = "close_cancel"
        /\ ~op'[o].is_cancelled /\ op[o].call = <<>>
    BY CloseAndCancelIs
  <1>2. PICK n \in Nat, P \in SUBSET Ops : o \notin P /\ Cancels(<<o, "call">>, n, P, o)
    BY CloseAndCancelIs
  <1>3. PICK t \in Threads : t = <<o, "call">>
    BY <1>1
  <1>4. Cancels(t, n, P, o) /\ UNCHANGED <<enqueue_attempts, dequeue_attempts>>
    BY <1>1, <1>2, <1>3
  <1>5. /\ TodoOK(thr', op')
        /\ AttemptsOK(enqueue_attempts', Producing, op') /\ WaitingInv(enqueue_attempts', op')
        /\ AttemptsOK(dequeue_attempts', Consuming, op') /\ WaitingInv(dequeue_attempts', op')
        /\ \A q \in P : /\ op'[q].call = op[q].call /\ op'[q].called = 0
                        /\ op'[q].done_callback = "null" /\ op'[q].late = op[q].late
                        /\ op'[q].elements_requested = op[q].elements_requested
                        /\ op'[q].status # "OK" /\ op'[q].is_cancelled = TRUE
                        /\ op'[q].call # <<>> /\ op'[q].call.kind # "close_cancel"
    BY ONLY TypeOK, CallbackInv, <1>1, <1>4, CancelsIs, ZenonT(60)
  <1>6. \A q \in Ops : q \in P \/ q = o \/ op'[q] = op[q]
    BY <1>4 DEF Cancels
  <1>7. ASSUME NEW q \in Ops PROVE NothingPut(op'[q], InSeq(q, enqueue_attempts))
    <2>1. NothingPut(op[q], InSeq(q, enqueue_attempts))
      BY DEF LateInv
    <2>2. CASE q \in P
      <3>1. op'[q].call = op[q].call /\ op'[q].late = op[q].late /\ SamePut(op'[q], op[q])
        BY <1>5, <2>2 DEF SamePut
      <3> QED BY <2>1, <3>1, SamePutIs
    <2>3. CASE q = o
      BY <1>1, <2>3 DEF NothingPut
    <2>4. CASE q # o /\ q \notin P
      BY <1>6, <2>1, <2>4
    <2> QED BY <2>2, <2>3, <2>4
  <1>8. ASSUME NEW q \in Ops PROVE NothingPut(op[q], InSeq(q, enqueue_attempts))'
    <2>1. InSeq(q, enqueue_attempts)' = InSeq(q, enqueue_attempts)
      BY <1>1 DEF InSeq
    <2> QED BY <1>7, <2>1 DEF NothingPut
  <1>9. op'[o].call # <<>>
    <2>1. op'[o].call \in Call
      BY <1>1, QueueAssumption
    <2> QED BY <2>1, NoCallIs
  <1>10. \A q \in Ops : cb'[q] \in {"registered", "to_run"} => op'[q].call # <<>>
    BY <1>1, <1>5, <1>6, <1>9 DEF LateInv
  <1> QED BY <1>1, <1>8, <1>10 DEF LateInv

LEMMA NextLate == ASSUME TypeOK, CallbackInv, LateInv, [Next]_vars PROVE LateInv'
  <1>1. ASSUME NEW o \in Ops, TryEnqueue(o) \/ TryDequeue(o) \/ Close(o) PROVE LateInv'
    BY <1>1, TryLate
  <1>2. ASSUME NEW o \in Ops, CloseAndCancel(o) PROVE LateInv'
    BY <1>2, CloseAndCancelLate
  <1>3. ASSUME NEW o \in Ops, Cancel(o) PROVE LateInv'
    BY <1>3, CancelLate
  <1>4. ASSUME NEW t \in Threads, Step(t) PROVE LateInv'
    <2>1. CASE CallCallback(t) \/ Lock(t) \/ CleanUp(t) \/ Return(t)
      BY <2>1, ThreadLate
    <2>2. ASSUME NEW action \in {"enqueue", "dequeue"},
                 SkipCancelled(t, action) \/ RunAttempt(t, action) \/ NoAttempt(t, action)
          PROVE  LateInv'
      BY <2>2, AttemptLate
    <2> QED BY <1>4, <2>1, <2>2 DEF Step
  <1>5. ASSUME NEW m \in Managers, StartCancel(m) \/ CancelDone(m) \/ NextStep(m) PROVE LateInv'
    BY <1>5, ManagerLate
  <1>6. CASE UNCHANGED vars
    <2>1. UNCHANGED <<closed, enqueue_attempts, op, cb>>
      BY <1>6 DEF vars
    <2>2. \A p \in Ops : SameLate(op'[p], op[p]) /\ SamePut(op'[p], op[p])
      BY <2>1 DEF SameLate, SamePut
    <2> QED BY <2>1, <2>2, LateUnchanged
  <1> QED BY <1>1, <1>2, <1>3, <1>4, <1>5, <1>6 DEF Next

-----------------------------------------------------------------------------
(* The theorems.                                                           *)

LEMMA InitInv == ASSUME Init PROVE TypeOK /\ QueueInv
  <1>1. TypeOK /\ CallbackInv
    BY InitCallbacks
  <1>2. /\ enqueue_attempts = <<>> /\ dequeue_attempts = <<>> /\ mu = NoThread /\ closed = FALSE
        /\ \A p \in Ops : op[p] = NoOp /\ cb[p] = "none"
        /\ \A u \in Threads : thr[u] = Idle
    BY DEF Init
  <1>3. Settled("enqueue") /\ Settled("dequeue")
    BY <1>2 DEF Settled, Attempts
  <1>4. \A u \in Threads : thr[u].pc = "idle"
    <2>1. Idle.pc = "idle"
      BY DEF Idle
    <2> QED BY <1>2, <2>1
  <1>5. FlushInv
    BY <1>2, <1>3, <1>4, NoThreadIs DEF FlushInv
  <1>6. \A p \in Ops : op[p].call = <<>> /\ ~op[p].late /\ ~op[p].is_cancelled
    BY <1>2 DEF NoOp
  <1>7. LateOK(enqueue_attempts, op)
    <2>1. Len(enqueue_attempts) = 0
      BY <1>2, EmptySeq
    <2>2. 1 .. Len(enqueue_attempts) = {}
      BY <2>1
    <2> QED BY <1>6, <2>2 DEF LateOK
  <1>8. \A p \in Ops : NothingPut(op[p], InSeq(p, enqueue_attempts))
    BY <1>6 DEF NothingPut
  <1>9. LateInv
    BY <1>2, <1>7, <1>8 DEF LateInv
  <1> QED BY <1>1, <1>5, <1>9 DEF QueueInv

LEMMA NextInv == ASSUME TypeOK, QueueInv, [Next]_vars PROVE TypeOK' /\ QueueInv'
  <1>1. CallbackInv /\ FlushInv /\ LateInv
    BY DEF QueueInv
  <1>2. TypeOK' /\ CallbackInv'
    BY <1>1, NextCallbacks
  <1>3. FlushInv'
    BY <1>1, NextFlush
  <1>4. LateInv'
    BY <1>1, NextLate
  <1> QED BY <1>2, <1>3, <1>4 DEF QueueInv

(* The queue keeps its types and its invariant, whatever its operations,   *)
(* the cancel callbacks and the flushing threads do (queue_base.cc,        *)
(* fifo_queue.cc).                                                         *)
THEOREM QueueInvariant == Spec => [](TypeOK /\ QueueInv)
  <1>1. Init => TypeOK /\ QueueInv
    BY InitInv
  <1>2. TypeOK /\ QueueInv /\ [Next]_vars => TypeOK' /\ QueueInv'
    BY NextInv
  <1> QED BY <1>1, <1>2, PTL DEF Spec

LEMMA DoneOnceHolds == ASSUME TypeOK, QueueInv PROVE DoneOnce
  <1>1. \A o \in Ops : op[o].called <= 1
    BY DEF QueueInv, CallbackInv, OperationOK
  <1>2. ASSUME NEW t \in Threads, NEW i \in DOMAIN thr[t].todo
        PROVE  thr[t].todo[i].callback # "null"
    <2>1. thr \in [Threads -> Thread]
      BY DEF TypeOK
    <2>2. thr[t].todo \in Seq(Entry)
      BY <2>1, TodoTyped
    <2>3. i \in 1 .. Len(thr[t].todo)
      BY <2>2, LenProperties
    <2> QED BY <2>3 DEF QueueInv, CallbackInv, TodoOK, EntryOK
  <1> QED BY <1>1, <1>2 DEF DoneOnce

(* Every done callback is called at most once, and none that was moved     *)
(* away: Cancel (queue_base.cc:188), CloseAndCancel (:220) and             *)
(* FlushUnlocked (:314) take it from the attempt under mu_ and call it     *)
(* after they have released mu_.                                           *)
THEOREM QueueDoneOnce == Spec => []DoneOnce
  <1>1. TypeOK /\ QueueInv => DoneOnce
    BY DoneOnceHolds
  <1> QED BY <1>1, QueueInvariant, PTL

LEMMA WakeupHolds == ASSUME QueueInv PROVE NoMissedWakeup
  <1>1. ASSUME Quiet PROVE Settled("enqueue") /\ Settled("dequeue")
    BY <1>1 DEF QueueInv, FlushInv, Quiet
  <1>2. ASSUME Quiet, NEW action \in {"enqueue", "dequeue"}, Attempts(action) # <<>>
        PROVE  /\ ~op[Head(Attempts(action))].is_cancelled
               /\ run_callback(Head(Attempts(action))).result = "kNoProgress"
    <2>1. Settled(action)
      BY <1>1, <1>2
    <2> QED BY <1>2, <2>1 DEF Settled
  <1> QED BY <1>2 DEF NoMissedWakeup

(* No lost wake-up: when no thread is inside FlushUnlocked or on its way   *)
(* to it, the attempt at the front of either queue is live and cannot make *)
(* progress (queue_base.cc:264-335), so nothing waits that could go on.    *)
THEOREM QueueNoMissedWakeup == Spec => []NoMissedWakeup
  <1>1. TypeOK /\ QueueInv => NoMissedWakeup
    BY WakeupHolds
  <1> QED BY <1>1, QueueInvariant, PTL

LEMMA PutByMany ==
    ASSUME NEW o \in Ops, Started(o), Kind(o) = "enqueue_many"
    PROVE  PutBy(o) = op[o].call.n - op[o].elements_requested
  BY DEF PutBy

LEMMA AllOrNothingHolds == ASSUME TypeOK, QueueInv PROVE AllOrNothing
  <1>1. ASSUME NEW t \in Threads, NEW i \in DOMAIN thr[t].todo, NEW o, o = thr[t].todo[i].op
        PROVE  /\ (thr[t].todo[i].callback = "tuple") = (Consumer(o) /\ op[o].status = "OK")
               /\ op[o].status = "OK" /\ Consumer(o) /\ Kind(o) # "dequeue_up_to"
                     => Len(op[o].tuple) = op[o].call.n
               /\ op[o].status = "OK" /\ Kind(o) = "enqueue_many" => PutBy(o) = op[o].call.n
    <2>1. thr \in [Threads -> Thread]
      BY DEF TypeOK
    <2>2. thr[t].todo \in Seq(Entry)
      BY <2>1, TodoTyped
    <2>3. i \in 1 .. Len(thr[t].todo)
      BY <2>2, LenProperties
    <2>4. o \in Ops
      BY <1>1, <2>1, <2>3, TodoTyped
    <2>5. EntryOK(thr[t].todo[i], op[o])
      BY <1>1, <2>3 DEF QueueInv, CallbackInv, TodoOK
    <2>6. op[o].call \in Call /\ Finished(thr[t].todo[i].callback, op[o])
      BY <2>5 DEF EntryOK
    <2>7. Started(o) /\ op[o].call.n \in Nat
      BY <2>6, NoCallIs DEF Started, Call
    <2>8. Consumer(o) <=> op[o].call.kind \in Consuming
      BY DEF Consumer, Kind, Consuming
    <2>9. (thr[t].todo[i].callback = "tuple") = (Consumer(o) /\ op[o].status = "OK")
      BY <2>6, <2>8 DEF Finished
    <2>10. op[o].status = "OK" /\ Consumer(o) /\ Kind(o) # "dequeue_up_to"
              => Len(op[o].tuple) = op[o].call.n
      BY <2>6, <2>8 DEF Finished, Kind, Consuming
    <2>11. ASSUME op[o].status = "OK", Kind(o) = "enqueue_many" PROVE PutBy(o) = op[o].call.n
      <3>1. op[o].elements_requested = 0
        BY <2>6, <2>11 DEF Finished, Kind
      <3>2. PutBy(o) = op[o].call.n - op[o].elements_requested
        BY <2>4, <2>7, <2>11, PutByMany
      <3> QED BY <2>7, <3>1, <3>2
    <2> QED BY <2>9, <2>10, <2>11
  <1>2. ASSUME NEW o \in Ops, Started(o), op[o].late PROVE PutBy(o) = 0
    <2>1. NothingPut(op[o], InSeq(o, enqueue_attempts))
      BY DEF QueueInv, LateInv
    <2>2. CASE Kind(o) = "enqueue"
      <3>1. ~(op[o].status = "OK" /\ ~InSeq(o, enqueue_attempts))
        BY <1>2, <2>1, <2>2 DEF NothingPut, Kind
      <3> QED BY <1>2, <2>2, <3>1 DEF PutBy
    <2>3. CASE Kind(o) = "enqueue_many"
      <3>1. op[o].elements_requested = op[o].call.n
        BY <1>2, <2>1, <2>3 DEF NothingPut, Kind
      <3>2. op[o].elements_requested \in Nat
        BY DEF TypeOK, Operation
      <3>3. PutBy(o) = op[o].call.n - op[o].elements_requested
        BY <1>2, <2>3, PutByMany
      <3> QED BY <3>1, <3>2, <3>3
    <2>4. CASE Kind(o) \notin {"enqueue", "enqueue_many"}
      BY <1>2, <2>4 DEF PutBy
    <2> QED BY <2>2, <2>3, <2>4
  <1> QED BY <1>1, <1>2 DEF AllOrNothing

(* An operation whose callback is about to be called without an error has  *)
(* done all it was asked for, only such a dequeue carries a tuple, and an  *)
(* enqueue that was called after Close has put nothing into the queue      *)
(* (fifo_queue.cc:51-356, queue_base.cc:188-262), for any interleaving     *)
(* with cancellation.                                                      *)
THEOREM QueueAllOrNothing == Spec => []AllOrNothing
  <1>1. TypeOK /\ QueueInv => AllOrNothing
    BY AllOrNothingHolds
  <1> QED BY <1>1, QueueInvariant, PTL

-----------------------------------------------------------------------------
(* The elements.  The slices that operation o has taken are in front of    *)
(* what is in the queue: elements move between the two in order, so that   *)
(* collecting and restoring leave the line of both as it is.               *)

Line(t, q) == [i \in 1 .. Len(t) + Len(q) |-> IF i <= Len(t) THEN t[i][1] ELSE q[i - Len(t)]]

LEMMA LineIs ==
    ASSUME NEW t \in Seq(Slice), NEW q \in Seq(Item)
    PROVE  /\ Len(t) \in Nat /\ Len(q) \in Nat /\ DOMAIN Line(t, q) = 1 .. Len(t) + Len(q)
           /\ \A i \in 1 .. Len(t) : i \in DOMAIN Line(t, q) /\ Line(t, q)[i] = t[i][1]
           /\ \A i \in 1 .. Len(q) : Len(t) + i \in DOMAIN Line(t, q) /\ Line(t, q)[Len(t) + i] = q[i]
           /\ \A i \in DOMAIN Line(t, q) :
                 i \in 1 .. Len(t) \/ \E j \in 1 .. Len(q) : i = Len(t) + j
  <1>1. PICK m \in Nat, n \in Nat : m = Len(t) /\ n = Len(q)
    BY LenProperties
  <1>2. PICK f : f = Line(t, q)
    OBVIOUS
  <1>3. f = [i \in 1 .. m + n |-> IF i <= m THEN t[i][1] ELSE q[i - m]]
    BY <1>1, <1>2 DEF Line
  <1>4. DOMAIN f = 1 .. m + n /\ \A i \in 1 .. m : i \in 1 .. m + n /\ f[i] = t[i][1]
    BY <1>3
  <1>5. ASSUME NEW i \in 1 .. n PROVE m + i \in 1 .. m + n /\ f[m + i] = q[i]
    <2>1. m + i \in 1 .. m + n /\ ~(m + i <= m) /\ (m + i) - m = i
      OBVIOUS
    <2> QED BY <1>3, <2>1
  <1>6. ASSUME NEW i \in 1 .. m + n PROVE i \in 1 .. m \/ \E j \in 1 .. n : i = m + j
    <2>1. CASE i <= m
      BY <2>1
    <2>2. CASE ~(i <= m)
      <3>1. i - m \in 1 .. n /\ i = m + (i - m)
        BY <2>2
      <3> QED BY <3>1
    <2> QED BY <2>1, <2>2
  <1> QED BY <1>1, <1>2, <1>4, <1>5, <1>6

(* TryDequeueMany collects the first k elements of the queue.              *)
LEMMA LineCollect ==
    ASSUME NEW t \in Seq(Slice), NEW q \in Queues, NEW k \in Nat, k <= Len(q[1])
    PROVE  Line(t \o Oldest(q, k), Rest(q, k)[1]) = Line(t, q[1])
  <1>1. 1 \in 1 .. Components /\ q[1] \in Seq(Item)
    BY QueueAssumption DEF Queues
  <1>2. PICK m \in Nat, n \in Nat : m = Len(t) /\ n = Len(q[1])
    BY <1>1, LenProperties
  <1>3. PICK u : u = Oldest(q, k)
    OBVIOUS
  <1>4. u \in Seq(Slice) /\ Len(u) = k
    BY <1>3, QueueOps
  <1>5. \A i \in 1 .. k : u[i][1] = q[1][i]
    <2>1. ASSUME NEW i \in 1 .. k PROVE u[i][1] = q[1][i]
      <3>1. u[i] = [c \in 1 .. Components |-> IF i <= Len(q[c]) THEN q[c][i] ELSE Garbage]
        BY <1>3 DEF Oldest
      <3>2. u[i][1] = IF i <= Len(q[1]) THEN q[1][i] ELSE Garbage
        BY <1>1, <3>1
      <3>3. i <= Len(q[1])
        BY <1>2
      <3> QED BY <3>2, <3>3
    <2> QED BY <2>1
  <1>6. PICK w : w = t \o u
    OBVIOUS
  <1>7. /\ w \in Seq(Slice) /\ Len(w) = m + k
        /\ \A i \in 1 .. m + k : w[i] = IF i <= m THEN t[i] ELSE u[i - m]
    <2>1. /\ t \o u \in Seq(Slice) /\ Len(t \o u) = Len(t) + Len(u)
          /\ \A i \in 1 .. Len(t) + Len(u) :
                (t \o u)[i] = IF i <= Len(t) THEN t[i] ELSE u[i - Len(t)]
      BY <1>4, ConcatProperties, Zenon
    <2> QED BY <1>2, <1>4, <1>6, <2>1
  <1>8. PICK r : r = Rest(q, k)[1]
    OBVIOUS
  <1>9. r = SubSeq(q[1], k + 1, n)
    BY <1>1, <1>2, <1>8 DEF Rest
  <1>10. Len(r) = n - k /\ \A i \in 1 .. n - k : r[i] = q[1][k + i]
    <2>1. \A i \in k + 1 .. n : q[1][i] \in Item
      BY <1>1, <1>2, ElementOfSeq
    <2>2. /\ Len(r) = IF k + 1 <= n THEN n - (k + 1) + 1 ELSE 0
          /\ \A i \in 1 .. n - (k + 1) + 1 : r[i] = q[1][(k + 1) + i - 1]
      BY <1>9, <2>1, SubSeqProperties
    <2>3. Len(r) = n - k
      BY <1>2, <2>2
    <2>4. ASSUME NEW i \in 1 .. n - k PROVE r[i] = q[1][k + i]
      <3>1. i \in 1 .. n - (k + 1) + 1 /\ (k + 1) + i - 1 = k + i
        OBVIOUS
      <3> QED BY <2>2, <3>1
    <2> QED BY <2>3, <2>4
  <1>11. (m + k) + (n - k) = m + n /\ n - k \in Nat
    <2>1. k <= n
      BY <1>2
    <2> QED BY ONLY <2>1, m \in Nat, n \in Nat, k \in Nat
  <1>12. Line(w, r) = [i \in 1 .. m + n |-> IF i <= m + k THEN w[i][1] ELSE r[i - (m + k)]]
    BY <1>7, <1>10, <1>11 DEF Line
  <1>13. Line(t, q[1]) = [i \in 1 .. m + n |-> IF i <= m THEN t[i][1] ELSE q[1][i - m]]
    BY <1>2 DEF Line
  <1>14. ASSUME NEW i \in 1 .. m + n
         PROVE  (IF i <= m + k THEN w[i][1] ELSE r[i - (m + k)])
                   = (IF i <= m THEN t[i][1] ELSE q[1][i - m])
    <2>1. CASE i <= m
      <3>1. i \in 1 .. m + k /\ i <= m + k
        BY <2>1
      <3>2. w[i] = t[i]
        BY <1>7, <2>1, <3>1
      <3> QED BY <2>1, <3>1, <3>2
    <2>2. CASE ~(i <= m) /\ i <= m + k
      <3>1. i \in 1 .. m + k /\ i - m \in 1 .. k
        BY <2>2
      <3>2. w[i] = u[i - m]
        BY <1>7, <2>2, <3>1
      <3>3. w[i][1] = q[1][i - m]
        BY <1>5, <3>1, <3>2
      <3> QED BY <2>2, <3>3
    <2>3. CASE ~(i <= m + k)
      <3>1. i - (m + k) \in 1 .. n - k /\ k + (i - (m + k)) = i - m /\ ~(i <= m)
        BY <2>3
      <3>2. r[i - (m + k)] = q[1][i - m]
        BY <1>10, <3>1
      <3> QED BY <2>3, <3>1, <3>2
    <2> QED BY <2>1, <2>2, <2>3
  <1>15. Line(w, r) = Line(t, q[1])
    BY <1>12, <1>13, <1>14
  <1> QED BY <1>3, <1>6, <1>8, <1>15

(* They are restored to the front of the queue.                            *)
LEMMA LineRestore ==
    ASSUME NEW t \in Seq(Slice), NEW q \in Queues
    PROVE  Line(<<>>, push_front(q, t)[1]) = Line(t, q[1])
  <1>1. 1 \in 1 .. Components /\ q[1] \in Seq(Item)
    BY QueueAssumption DEF Queues
  <1>2. PICK m \in Nat, n \in Nat : m = Len(t) /\ n = Len(q[1])
    BY <1>1, LenProperties
  <1>3. PICK f : f = [i \in 1 .. m |-> t[i][1]]
    OBVIOUS
  <1>4. f \in [1 .. m -> Item]
    <2>1. \A i \in 1 .. m : t[i] \in Slice
      BY <1>2, ElementOfSeq
    <2> QED BY <1>1, <1>3, <2>1 DEF Slice, Item
  <1>5. f \in Seq(Item) /\ Len(f) = m
    BY <1>4, MakeSeq
  <1>6. PICK g : g = f \o q[1]
    OBVIOUS
  <1>7. /\ Len(g) = m + n
        /\ \A i \in 1 .. m + n : g[i] = IF i <= m THEN f[i] ELSE q[1][i - m]
    <2>1. /\ Len(f \o q[1]) = Len(f) + Len(q[1])
          /\ \A i \in 1 .. Len(f) + Len(q[1]) :
                (f \o q[1])[i] = IF i <= Len(f) THEN f[i] ELSE q[1][i - Len(f)]
      BY <1>1, <1>5, ConcatProperties, Zenon
    <2> QED BY <1>2, <1>5, <1>6, <2>1
  <1>8. push_front(q, t)[1] = g
    BY <1>1, <1>2, <1>3, <1>6 DEF push_front
  <1>9. Len(<<>>) = 0
    BY EmptySeq
  <1>10. Line(<<>>, g) = [i \in 1 .. m + n |-> IF i <= 0 THEN <<>>[i][1] ELSE g[i - 0]]
    <2>1. 0 + (m + n) = m + n
      OBVIOUS
    <2> QED BY <1>7, <1>9, <2>1 DEF Line
  <1>11. Line(t, q[1]) = [i \in 1 .. m + n |-> IF i <= m THEN t[i][1] ELSE q[1][i - m]]
    BY <1>2 DEF Line
  <1>12. ASSUME NEW i \in 1 .. m + n
         PROVE  (IF i <= 0 THEN <<>>[i][1] ELSE g[i - 0]) = (IF i <= m THEN t[i][1] ELSE q[1][i - m])
    <2>1. ~(i <= 0) /\ i - 0 = i
      OBVIOUS
    <2>2. g[i] = IF i <= m THEN f[i] ELSE q[1][i - m]
      BY <1>7
    <2>3. i <= m => f[i] = t[i][1]
      BY <1>3
    <2> QED BY <2>1, <2>2, <2>3
  <1> QED BY <1>8, <1>10, <1>11, <1>12

(* With queue q and T[p] taken by operation p: no element is in two        *)
(* places, and e is in one.                                                *)
Unique(q, T) ==
    /\ \A i, j \in 1 .. Len(q) : q[i] = q[j] => i = j
    /\ \A p, r \in Ops : \A i \in 1 .. Len(T[p]), j \in 1 .. Len(T[r]) :
          T[p][i][1] = T[r][j][1] => p = r /\ i = j
    /\ \A p \in Ops : \A i \in 1 .. Len(q), j \in 1 .. Len(T[p]) : q[i] # T[p][j][1]

Present(q, T, e) ==
    \/ \E i \in 1 .. Len(q) : q[i] = e
    \/ \E p \in Ops : \E i \in 1 .. Len(T[p]) : T[p][i][1] = e

(* The same of the line that operation o and the queue make.               *)
UniqueLine(l, T, o) ==
    /\ \A i, j \in DOMAIN l : l[i] = l[j] => i = j
    /\ \A p, r \in Ops \ {o} : \A i \in 1 .. Len(T[p]), j \in 1 .. Len(T[r]) :
          T[p][i][1] = T[r][j][1] => p = r /\ i = j
    /\ \A p \in Ops \ {o} : \A i \in DOMAIN l, j \in 1 .. Len(T[p]) : l[i] # T[p][j][1]

PresentLine(l, T, o, e) ==
    \/ \E i \in DOMAIN l : l[i] = e
    \/ \E p \in Ops \ {o} : \E i \in 1 .. Len(T[p]) : T[p][i][1] = e

LEMMA UniqueLineIs ==
    ASSUME NEW q \in Seq(Item), NEW T \in [Ops -> Seq(Slice)], NEW o \in Ops
    PROVE  /\ Unique(q, T) <=> UniqueLine(Line(T[o], q), T, o)
           /\ \A e : Present(q, T, e) <=> PresentLine(Line(T[o], q), T, o, e)
  <1>1. PICK l, t : l = Line(T[o], q) /\ t = T[o] /\ t \in Seq(Slice)
    OBVIOUS
  <1>2. PICK m \in Nat, n \in Nat :
           /\ m = Len(t) /\ n = Len(q)
           /\ \A i \in 1 .. m : i \in DOMAIN l /\ l[i] = t[i][1]
           /\ \A i \in 1 .. n : m + i \in DOMAIN l /\ l[m + i] = q[i]
           /\ \A i \in DOMAIN l : i \in 1 .. m \/ \E j \in 1 .. n : i = m + j
    <2>1. /\ Len(t) \in Nat /\ Len(q) \in Nat
          /\ \A i \in 1 .. Len(t) : i \in DOMAIN l /\ l[i] = t[i][1]
          /\ \A i \in 1 .. Len(q) : Len(t) + i \in DOMAIN l /\ l[Len(t) + i] = q[i]
          /\ \A i \in DOMAIN l : i \in 1 .. Len(t) \/ \E j \in 1 .. Len(q) : i = Len(t) + j
      BY <1>1, LineIs, Zenon
    <2> QED BY <2>1, Zenon
  <1>3. ASSUME Unique(q, T) PROVE UniqueLine(l, T, o)
    <2>1. ASSUME NEW i \in DOMAIN l, NEW j \in DOMAIN l, l[i] = l[j] PROVE i = j
      <3>1. CASE i \in 1 .. m /\ j \in 1 .. m
        <4>1. T[o][i][1] = T[o][j][1] /\ i \in 1 .. Len(T[o]) /\ j \in 1 .. Len(T[o])
          BY <1>1, <1>2, <2>1, <3>1
        <4> QED BY <1>3, <4>1 DEF Unique
      <3>2. ASSUME NEW a \in 1 .. n, i = m + a, j \in 1 .. m PROVE FALSE
        <4>1. l[i] = q[a] /\ a \in 1 .. Len(q)
          BY <1>2, <3>2
        <4>2. l[j] = T[o][j][1] /\ j \in 1 .. Len(T[o])
          BY <1>1, <1>2, <3>2
        <4>3. q[a] # T[o][j][1]
          BY <1>3, <4>1, <4>2 DEF Unique
        <4> QED BY <2>1, <4>1, <4>2, <4>3
      <3>3. ASSUME NEW a \in 1 .. n, j = m + a, i \in 1 .. m PROVE FALSE
        <4>1. l[j] = q[a] /\ a \in 1 .. Len(q)
          BY <1>2, <3>3
        <4>2. l[i] = T[o][i][1] /\ i \in 1 .. Len(T[o])
          BY <1>1, <1>2, <3>3
        <4>3. q[a] # T[o][i][1]
          BY <1>3, <4>1, <4>2 DEF Unique
        <4> QED BY <2>1, <4>1, <4>2, <4>3
      <3>4. ASSUME NEW a \in 1 .. n, NEW b \in 1 .. n, i = m + a, j = m + b PROVE i = j
        <4>1. q[a] = q[b]
          BY <1>2, <2>1, <3>4
        <4>2. a = b
          BY <1>2, <1>3, <4>1 DEF Unique
        <4> QED BY <3>4, <4>2
      <3> QED BY <1>2, <3>1, <3>2, <3>3, <3>4
    <2>2. ASSUME NEW p \in Ops \ {o}, NEW i \in DOMAIN l, NEW j \in 1 .. Len(T[p])
          PROVE  l[i] # T[p][j][1]
      <3>1. CASE i \in 1 .. m
        BY <1>1, <1>2, <1>3, <3>1 DEF Unique
      <3>2. ASSUME NEW a \in 1 .. n, i = m + a PROVE l[i] # T[p][j][1]
        BY <1>1, <1>2, <1>3, <3>2 DEF Unique
      <3> QED BY <1>2, <3>1, <3>2
    <2> QED BY <1>3, <2>1, <2>2 DEF Unique, UniqueLine
  <1>4. ASSUME UniqueLine(l, T, o) PROVE Unique(q, T)
    <2>1. ASSUME NEW i \in 1 .. n, NEW j \in 1 .. n, q[i] = q[j] PROVE i = j
      <3>1. m + i = m + j
        BY <1>2, <1>4, <2>1 DEF UniqueLine
      <3> QED BY <3>1
    <2>2. ASSUME NEW p \in Ops, NEW r \in Ops, NEW i \in 1 .. Len(T[p]), NEW j \in 1 .. Len(T[r]),
                 T[p][i][1] = T[r][j][1]
          PROVE  p = r /\ i = j
      <3>1. CASE p = o /\ r = o
        BY <1>1, <1>2, <1>4, <2>2, <3>1 DEF UniqueLine
      <3>2. CASE p = o /\ r # o
        BY <1>1, <1>2, <1>4, <2>2, <3>2 DEF UniqueLine
      <3>3. CASE p # o /\ r = o
        BY <1>1, <1>2, <1>4, <2>2, <3>3 DEF UniqueLine
      <3>4. CASE p # o /\ r # o
        BY <1>4, <2>2, <3>4 DEF UniqueLine
      <3> QED BY <3>1, <3>2, <3>3, <3>4
    <2>3. ASSUME NEW p \in Ops, NEW i \in 1 .. n, NEW j \in 1 .. Len(T[p]) PROVE q[i] # T[p][j][1]
      <3>1. CASE p = o
        <4>1. j \in 1 .. m /\ m + i # j
          BY <1>1, <1>2, <3>1
        <4>2. l[m + i] # l[j]
          BY <1>2, <1>4, <4>1 DEF UniqueLine
        <4> QED BY <1>1, <1>2, <3>1, <4>1, <4>2
      <3>2. CASE p # o
        BY <1>2, <1>4, <3>2 DEF UniqueLine
      <3> QED BY <3>1, <3>2
    <2> QED BY <1>2, <2>1, <2>2, <2>3 DEF Unique
  <1>5. ASSUME NEW e PROVE Present(q, T, e) <=> PresentLine(l, T, o, e)
    <2>1. ASSUME NEW i \in 1 .. n, q[i] = e PROVE PresentLine(l, T, o, e)
      BY <1>2, <2>1 DEF PresentLine
    <2>2. ASSUME NEW p \in Ops, NEW i \in 1 .. Len(T[p]), T[p][i][1] = e PROVE PresentLine(l, T, o, e)
      <3>1. CASE p = o
        BY <1>1, <1>2, <2>2, <3>1 DEF PresentLine
      <3>2. CASE p # o
        BY <2>2, <3>2 DEF PresentLine
      <3> QED BY <3>1, <3>2
    <2>3. ASSUME NEW i \in DOMAIN l, l[i] = e PROVE Present(q, T, e)
      <3>1. CASE i \in 1 .. m
        BY <1>1, <1>2, <2>3, <3>1 DEF Present
      <3>2. ASSUME NEW a \in 1 .. n, i = m + a PROVE Present(q, T, e)
        BY <1>2, <2>3, <3>2 DEF Present
      <3> QED BY <1>2, <3>1, <3>2
    <2>4. ASSUME NEW p \in Ops \ {o}, NEW i \in 1 .. Len(T[p]), T[p][i][1] = e PROVE Present(q, T, e)
      BY <2>4 DEF Present
    <2> QED BY <1>2, <2>1, <2>2, <2>3, <2>4 DEF Present, PresentLine
  <1> QED BY <1>1, <1>3, <1>4, <1>5

(* The elements in the queue and in batches are those that were put into   *)
(* the queue, m[p] by operation p, each in one place.                      *)
Conserved(q, T, m) ==
    /\ Unique(q, T)
    /\ \A e : Present(q, T, e) <=> \E p \in Ops : \E k \in 1 .. m[p] : e = <<p, k>>

(* Elements move between the queue and operation o.                        *)
LEMMA MovesConserve ==
    ASSUME NEW q \in Seq(Item), NEW T \in [Ops -> Seq(Slice)], NEW q2 \in Seq(Item),
           NEW T2 \in [Ops -> Seq(Slice)], NEW m, NEW o \in Ops,
           \A p \in Ops \ {o} : T2[p] = T[p], Line(T2[o], q2) = Line(T[o], q), Conserved(q, T, m)
    PROVE  Conserved(q2, T2, m)
  <1>1. PICK l : l = Line(T[o], q) /\ l = Line(T2[o], q2)
    OBVIOUS
  <1>2. UniqueLine(l, T, o) /\ \A e : Present(q, T, e) <=> PresentLine(l, T, o, e)
    BY <1>1, UniqueLineIs DEF Conserved
  <1>3. UniqueLine(l, T2, o)
    BY <1>2 DEF UniqueLine
  <1>4. ASSUME NEW e PROVE PresentLine(l, T2, o, e) <=> PresentLine(l, T, o, e)
    BY DEF PresentLine
  <1>5. Unique(q2, T2) /\ \A e : Present(q2, T2, e) <=> PresentLine(l, T2, o, e)
    BY <1>1, <1>3, UniqueLineIs
  <1>6. \A e : Present(q2, T2, e) <=> Present(q, T, e)
    BY <1>2, <1>4, <1>5
  <1> QED BY <1>5, <1>6 DEF Conserved

(* Operation o puts its next n elements into the queue.                    *)
LEMMA PutsConserve ==
    ASSUME NEW q \in Seq(Item), NEW T \in [Ops -> Seq(Slice)], NEW m \in [Ops -> Nat],
           NEW m2 \in [Ops -> Nat], NEW o \in Ops, NEW n \in Nat, m2[o] = m[o] + n,
           \A p \in Ops \ {o} : m2[p] = m[p], Conserved(q, T, m)
    PROVE  Conserved(q \o Slices(o, m[o] + 1, m[o] + n), T, m2)
  <1>1. PICK s : s = Slices(o, m[o] + 1, m[o] + n)
    OBVIOUS
  <1>2. s = [k \in 1 .. n |-> <<o, m[o] + k>>]
    <2>1. (m[o] + n) - (m[o] + 1) + 1 = n /\ \A k \in 1 .. n : (m[o] + 1) + k - 1 = m[o] + k
      OBVIOUS
    <2> QED BY <1>1, <2>1 DEF Slices
  <1>3. s \in [1 .. n -> Item]
    <2>1. \A k \in 1 .. n : m[o] + k \in Nat
      OBVIOUS
    <2> QED BY <1>2, <2>1 DEF Item, Elements
  <1>4. s \in Seq(Item) /\ Len(s) = n
    BY <1>3, MakeSeq
  <1>5. PICK l \in Nat : l = Len(q)
    BY LenProperties
  <1>6. PICK r : r = q \o s
    OBVIOUS
  <1>7. Len(r) = l + n /\ \A i \in 1 .. l + n : r[i] = IF i <= l THEN q[i] ELSE s[i - l]
    <2>1. /\ Len(q \o s) = Len(q) + Len(s)
          /\ \A i \in 1 .. Len(q) + Len(s) :
                (q \o s)[i] = IF i <= Len(q) THEN q[i] ELSE s[i - Len(q)]
      BY <1>4, ConcatProperties, Zenon
    <2> QED BY <1>4, <1>5, <1>6, <2>1
  <1>8. ASSUME NEW i \in 1 .. l + n
        PROVE  /\ i <= l => i \in 1 .. l /\ r[i] = q[i]
               /\ ~(i <= l) => /\ r[i] = <<o, m[o] + (i - l)>>
                               /\ ~Present(q, T, r[i])
    <2>1. CASE i <= l
      BY <1>7, <2>1
    <2>2. CASE ~(i <= l)
      <3>1. i - l \in 1 .. n
        BY <2>2
      <3>2. r[i] = <<o, m[o] + (i - l)>>
        BY <1>2, <1>7, <2>2, <3>1
      <3>3. ASSUME NEW p \in Ops, NEW k \in 1 .. m[p], <<o, m[o] + (i - l)>> = <<p, k>> PROVE FALSE
        <4>1. p = o /\ k = m[o] + (i - l)
          BY <3>3
        <4>2. k <= m[o]
          BY <4>1
        <4> QED BY <3>1, <4>1, <4>2
      <3> QED BY <2>2, <3>2, <3>3 DEF Conserved
    <2> QED BY <2>1, <2>2
  <1>9. ASSUME NEW i \in 1 .. l + n, NEW j \in 1 .. l + n, r[i] = r[j] PROVE i = j
    <2>1. CASE i <= l /\ j <= l
      BY <1>5, <1>8, <1>9, <2>1 DEF Conserved, Unique
    <2>2. CASE i <= l /\ ~(j <= l)
      BY <1>5, <1>8, <1>9, <2>2 DEF Present
    <2>3. CASE ~(i <= l) /\ j <= l
      BY <1>5, <1>8, <1>9, <2>3 DEF Present
    <2>4. CASE ~(i <= l) /\ ~(j <= l)
      <3>1. m[o] + (i - l) = m[o] + (j - l)
        BY <1>8, <1>9, <2>4
      <3> QED BY <3>1
    <2> QED BY <2>1, <2>2, <2>3, <2>4
  <1>10. ASSUME NEW p \in Ops, NEW i \in 1 .. l + n, NEW j \in 1 .. Len(T[p]) PROVE r[i] # T[p][j][1]
    <2>1. CASE i <= l
      BY <1>5, <1>8, <2>1 DEF Conserved, Unique
    <2>2. CASE ~(i <= l)
      BY <1>8, <2>2 DEF Present
    <2> QED BY <2>1, <2>2
  <1>11. Unique(r, T)
    <2>1. \A p, u \in Ops : \A i \in 1 .. Len(T[p]), j \in 1 .. Len(T[u]) :
             T[p][i][1] = T[u][j][1] => p = u /\ i = j
      BY DEF Conserved, Unique
    <2>2. /\ \A i, j \in 1 .. Len(r) : r[i] = r[j] => i = j
          /\ \A p \in Ops : \A i \in 1 .. Len(r), j \in 1 .. Len(T[p]) : r[i] # T[p][j][1]
      BY <1>7, <1>9, <1>10
    <2> QED BY <2>1, <2>2 DEF Unique
  <1>12. ASSUME NEW e, Present(r, T, e) PROVE \E p \in Ops : \E k \in 1 .. m2[p] : e = <<p, k>>
    <2>1. CASE Present(q, T, e)
      <3>1. PICK p \in Ops : \E k \in 1 .. m[p] : e = <<p, k>>
        BY <2>1 DEF Conserved
      <3>2. PICK k \in 1 .. m[p] : e = <<p, k>>
        BY <3>1
      <3>3. k \in 1 .. m2[p]
        <4>1. m[p] \in Nat /\ m2[p] \in Nat /\ m[p] <= m2[p]
          <5>1. m[p] \in Nat /\ m2[p] \in Nat /\ (m2[p] = m[p] \/ m2[p] = m[p] + n)
            <6>1. CASE p = o
              BY <6>1
            <6>2. CASE p # o
              BY <6>2
            <6> QED BY <6>1, <6>2
          <5> QED BY ONLY <5>1, n \in Nat
        <4> QED BY ONLY <4>1, k \in 1 .. m[p]
      <3> QED BY <3>2, <3>3
    <2>2. ASSUME NEW i \in 1 .. l + n, r[i] = e, ~(i <= l)
          PROVE  \E p \in Ops : \E k \in 1 .. m2[p] : e = <<p, k>>
      <3>1. m[o] + (i - l) \in 1 .. m2[o]
        BY <2>2
      <3> QED BY <1>8, <2>2, <3>1
    <2>3. ASSUME NEW i \in 1 .. l + n, r[i] = e, i <= l PROVE Present(q, T, e)
      BY <1>5, <1>8, <2>3 DEF Present
    <2>4. (\E i \in 1 .. l + n : r[i] = e) \/ Present(q, T, e)
      BY <1>7, <1>12 DEF Present
    <2> QED BY <2>1, <2>2, <2>3, <2>4
  <1>13. ASSUME NEW p \in Ops, NEW k \in 1 .. m2[p] PROVE Present(r, T, <<p, k>>)
    <2>1. CASE k \in 1 .. m[p]
      <3>1. Present(q, T, <<p, k>>)
        <4>1. \E u \in Ops : \E i \in 1 .. m[u] : <<p, k>> = <<u, i>>
          BY <2>1
        <4> QED BY <4>1 DEF Conserved
      <3>2. ASSUME NEW i \in 1 .. l, q[i] = <<p, k>> PROVE i \in 1 .. l + n /\ r[i] = <<p, k>>
        <4>1. i \in 1 .. l + n /\ i <= l
          BY ONLY i \in 1 .. l, l \in Nat, n \in Nat
        <4>2. r[i] = q[i]
          BY <1>7, <4>1
        <4> QED BY <3>2, <4>1, <4>2
      <3> QED BY <1>5, <1>7, <3>1, <3>2 DEF Present
    <2>2. CASE k \notin 1 .. m[p]
      <3>1. p = o
        BY <2>2
      <3>2. k \in 1 .. m[o] + n /\ k \notin 1 .. m[o] /\ m[o] \in Nat
        BY <2>2, <3>1
      <3>3. k - m[o] \in 1 .. n
        BY ONLY <3>2, n \in Nat
      <3>4. PICK i \in 1 .. l + n : i = l + (k - m[o])
        BY <3>2, <3>3
      <3>5. ~(i <= l) /\ m[o] + (i - l) = k
        BY <3>2, <3>3, <3>4
      <3>6. r[i] = <<p, k>>
        BY <1>8, <3>1, <3>5
      <3> QED BY <1>7, <3>6 DEF Present
    <2> QED BY <2>1, <2>2
  <1>14. Conserved(r, T, m2)
    BY <1>11, <1>12, <1>13 DEF Conserved
  <1> QED BY <1>1, <1>6, <1>14

-----------------------------------------------------------------------------
(* What an operation a holds, what it has put into the queue, and whether  *)
(* it has damaged an element (Taken, PutBy, Damages).  In this state it is *)
(* an attempt that waits, or it is over.                                   *)
TakenOf(a) ==
    IF a.call # <<>> /\ a.call.kind \in Consuming /\ a.status \in {"OK", "CANCELLED", "UNIMPLEMENTED"}
    THEN a.tuple ELSE <<>>

PutOf(a, state) ==
    IF a.call # <<>> /\ a.call.kind = "enqueue"
    THEN IF a.status = "OK" /\ state = "over" THEN 1 ELSE 0
    ELSE IF a.call # <<>> /\ a.call.kind = "enqueue_many"
         THEN a.call.n - a.elements_requested ELSE 0

Damaged(a) ==
    \/ a.status = "DATA_LOSS"
    \/ Components > 1 /\ a.status = "RESOURCE_EXHAUSTED" /\ a.call.kind = "enqueue_many"

(* A run callback that makes of the live attempt a of operation o the      *)
(* attempt b conserves the elements.                                       *)
Moves(q, b, a) == Line(TakenOf(b), q[1]) = Line(a.tuple, queues[1])
Puts(q, b, state, a, o) ==
    \E n \in Nat : /\ q[1] = queues[1] \o Slices(o, PutOf(a, "waits") + 1, PutOf(a, "waits") + n)
                   /\ PutOf(b, state) = PutOf(a, "waits") + n
RunConserves(result, q, b, a, o) ==
    /\ result # "kComplete" => /\ b.status = "OK"
                               /\ a.call.kind = "dequeue" => b.tuple = <<>>
    /\ ~Damaged(b) => IF a.call.kind \in Consuming THEN Moves(q, b, a)
                      ELSE Puts(q, b, IF result = "kComplete" THEN "over" ELSE "waits", a, o)

LEMMA RanFields ==
    ASSUME NEW result, NEW q, NEW cl, NEW b, NEW r, r = Ran(result, q, cl, b)
    PROVE  r.result = result /\ r.queues = q /\ r.attempt = b
  BY DEF Ran

LEMMA ConsumerTaken ==
    ASSUME NEW a \in Operation, a.call \in Call, a.call.kind \in Consuming
    PROVE  /\ a.status \in {"OK", "UNIMPLEMENTED"} => TakenOf(a) = a.tuple
           /\ a.status \notin {"OK", "CANCELLED", "UNIMPLEMENTED"} => TakenOf(a) = <<>>
           /\ a.tuple = <<>> => TakenOf(a) = <<>>
           /\ Damaged(a) <=> a.status = "DATA_LOSS"
  BY NoCallIs DEF TakenOf, Damaged, Consuming

(* The attempt a is as TryDequeueMany has left it before it collects.      *)
LEMMA CollectMoves ==
    ASSUME NEW q \in Queues, NEW a \in Operation, a.call \in Call,
           a.call.kind \in {"dequeue_many", "dequeue_up_to"}, a.status \in {"OK", "DATA_LOSS"},
           a.status = "OK" \/ Least(Len(q[1]), a.elements_requested) # 0, NEW r, r = Collect(q, a)
    PROVE  /\ r.result # "kComplete" => r.attempt.status = "OK"
           /\ ~Damaged(r.attempt) => Line(TakenOf(r.attempt), r.queues[1]) = Line(a.tuple, q[1])
  <1> DEFINE k    == Least(Len(q[1]), a.elements_requested)
             more == [a EXCEPT !.tuple = @ \o Oldest(q, k), !.elements_requested = @ - k]
             all  == [more EXCEPT !.done_callback = "tuple"]
             fail == SetStatus(a, "RESOURCE_EXHAUSTED")
             copy == SetStatus([a EXCEPT !.tuple = @ \o Oldest(q, 1)], "UNIMPLEMENTED")
  <1>1. a.call.kind \in Consuming /\ a.tuple \in Seq(Slice)
    BY DEF Consuming, Operation
  <1>2. k \in Nat /\ k <= a.elements_requested /\ a.elements_requested \in Nat /\ k <= Len(q[1])
    <2>1. q[1] \in Seq(Item)
      BY QueueAssumption DEF Queues
    <2>2. Len(q[1]) \in Nat /\ a.elements_requested \in Nat
      BY <2>1, LenProperties DEF Operation
    <2> QED BY <2>2, LeastIs
  <1>3. r = IF k = 0 THEN Ran("kNoProgress", q, closed, a)
            ELSE IF a.tuple = <<>> /\ a.call.fail = 1 THEN Ran("kComplete", q, closed, fail)
            ELSE IF a.status # "OK" THEN Ran("kComplete", q, closed, a)
            ELSE IF a.call.fail = 3 THEN Ran("kComplete", Rest(q, 1), closed, copy)
            ELSE IF k = a.elements_requested THEN Ran("kComplete", Rest(q, k), closed, all)
            ELSE Ran("kProgress", Rest(q, k), closed, more)
    BY DEF Collect
  <1>4. k = 0 => a.status = "OK"
    OBVIOUS
  <1> HIDE DEF k, copy
  <1>5. PICK n \in Nat : n = a.elements_requested - k
    BY <1>2
  <1>6. PICK t \in Seq(Slice) : t = a.tuple \o Oldest(q, k)
    <2>1. Oldest(q, k) \in Seq(Slice)
      BY <1>2, QueueOps
    <2>2. a.tuple \o Oldest(q, k) \in Seq(Slice)
      BY <1>1, <2>1, ConcatProperties, Zenon
    <2> QED BY <2>2
  <1>7. more = [a EXCEPT !.tuple = t, !.elements_requested = n]
    BY <1>5, <1>6
  <1> HIDE DEF more
  <1>8. more \in Operation /\ more.call = a.call /\ more.tuple = t /\ more.status = a.status
    BY <1>7 DEF Operation
  <1>9. all \in Operation /\ all.call = a.call /\ all.tuple = t /\ all.status = a.status
    BY <1>8 DEF Operation
  <1>10. fail \in Operation /\ fail.call = a.call /\ fail.tuple = a.tuple
    BY SetStatusIs DEF Statuses, SameCall
  <1> HIDE DEF all, fail
  <1>11. Line(t, Rest(q, k)[1]) = Line(a.tuple, q[1])
    BY <1>1, <1>2, <1>6, LineCollect
  <1>12. CASE k = 0
    <2>1. r.result = "kNoProgress" /\ r.queues = q /\ r.attempt = a
      BY <1>3, <1>12, RanFields
    <2> QED BY <1>1, <1>4, <1>12, <2>1, ConsumerTaken
  <1>13. CASE k # 0 /\ a.tuple = <<>> /\ a.call.fail = 1
    <2>1. r.result = "kComplete" /\ r.queues = q /\ r.attempt = fail
      BY <1>3, <1>13, RanFields
    <2>2. TakenOf(fail) = a.tuple
      BY <1>1, <1>10, <1>13, ConsumerTaken
    <2> QED BY <2>1, <2>2
  <1>14. CASE k # 0 /\ ~(a.tuple = <<>> /\ a.call.fail = 1) /\ a.status # "OK"
    <2>1. r.result = "kComplete" /\ r.queues = q /\ r.attempt = a
      BY <1>3, <1>14, RanFields
    <2>2. Damaged(a)
      BY <1>14 DEF Damaged
    <2> QED BY <2>1, <2>2
  <1>17. CASE /\ k # 0 /\ ~(a.tuple = <<>> /\ a.call.fail = 1) /\ a.status = "OK"
              /\ a.call.fail = 3
    <2>1. r = Ran("kComplete", Rest(q, 1), closed, copy)
      BY <1>3, <1>17
    <2>2. r.result = "kComplete" /\ r.queues = Rest(q, 1) /\ r.attempt = copy
      BY <2>1, RanFields
    <2>3. /\ copy \in Operation /\ SameCall(copy, a) /\ copy.tuple \in Seq(Slice)
          /\ copy.tuple = a.tuple \o Oldest(q, 1) /\ copy.status = "UNIMPLEMENTED"
      BY <1>17, CopyFails DEF copy
    <2>4. TakenOf(copy) = copy.tuple
      <3>1. copy.call = a.call
        BY <2>3 DEF SameCall
      <3> QED BY <1>1, <2>3, <3>1, ConsumerTaken
    <2>5. 1 \in Nat /\ 1 <= Len(q[1])
      <3>1. Len(q[1]) \in Nat
        <4>1. q[1] \in Seq(Item)
          BY QueueAssumption DEF Queues
        <4> QED BY <4>1, LenProperties
      <3> QED BY <1>2, <1>17, <3>1
    <2>6. Line(copy.tuple, Rest(q, 1)[1]) = Line(a.tuple, q[1])
      BY <1>1, <2>3, <2>5, LineCollect
    <2> QED BY <2>2, <2>4, <2>6
  <1>15. CASE /\ k # 0 /\ ~(a.tuple = <<>> /\ a.call.fail = 1) /\ a.status = "OK"
              /\ a.call.fail # 3 /\ k = a.elements_requested
    <2>1. r = Ran("kComplete", Rest(q, k), closed, all)
      BY <1>3, <1>15
    <2>2. r.result = "kComplete" /\ r.queues = Rest(q, k) /\ r.attempt = all
      BY <2>1, RanFields
    <2>3. TakenOf(all) = t
      BY <1>1, <1>9, <1>15, ConsumerTaken
    <2> QED BY <1>11, <2>2, <2>3
  <1>16. CASE /\ k # 0 /\ ~(a.tuple = <<>> /\ a.call.fail = 1) /\ a.status = "OK"
              /\ a.call.fail # 3 /\ k # a.elements_requested
    <2>1. r = Ran("kProgress", Rest(q, k), closed, more)
      BY <1>3, <1>16
    <2>2. r.queues = Rest(q, k) /\ r.attempt = more
      BY <2>1, RanFields
    <2>3. TakenOf(more) = t
      BY <1>1, <1>8, <1>16, ConsumerTaken
    <2> QED BY <1>8, <1>11, <1>16, <2>2, <2>3
  <1> QED BY <1>12, <1>13, <1>14, <1>15, <1>16, <1>17

LEMMA RunDequeueManyMoves ==
    ASSUME queues \in Queues, NEW a \in Operation, a.call \in Call,
           a.call.kind \in {"dequeue_many", "dequeue_up_to"}, a.status = "OK",
           NEW r, r = RunDequeueMany(a)
    PROVE  /\ r.result # "kComplete" => r.attempt.status = "OK"
           /\ ~Damaged(r.attempt) => Moves(r.queues, r.attempt, a)
  <1> DEFINE back  == Restored(a)
             a1    == IF a.call.fail = 2 /\ a.tuple # <<>> THEN SetStatus(a, "DATA_LOSS") ELSE a
             small == a.call.kind = "dequeue_up_to"
             a2    == [a1 EXCEPT !.tuple = <<>>, !.elements_requested = Len(back[1])]
             end   == SetStatus(a1, "OUT_OF_RANGE")
  <1>1. a.call.kind \in Consuming /\ a.tuple \in Seq(Slice) /\ Len(a.tuple) \in Nat
    BY LenProperties DEF Consuming, Operation
  <1>2. PICK t \in Seq(Slice) :
           /\ back = push_front(queues, t) /\ Len(t) = Len(a.tuple)
           /\ a1.status = "DATA_LOSS" \/ t = a.tuple
    <2> DEFINE slice(i) == IF a.call.fail = 2 /\ i = 1 THEN [c \in 1 .. Components |-> Garbage]
                           ELSE a.tuple[i]
               t == [i \in 1 .. Len(a.tuple) |-> slice(i)]
    <2>1. \A i \in 1 .. Len(a.tuple) : a.tuple[i] \in Slice
      BY <1>1, ElementOfSeq
    <2>2. [c \in 1 .. Components |-> Garbage] \in Slice
      BY DEF Slice
    <2>3. t \in [1 .. Len(a.tuple) -> Slice]
      BY <2>1, <2>2
    <2>4. t \in Seq(Slice) /\ Len(t) = Len(a.tuple)
      BY <1>1, <2>3, MakeSeq
    <2>5. back = push_front(queues, t)
      BY DEF Restored
    <2>6. CASE a.call.fail = 2 /\ a.tuple # <<>>
      <3>1. a1.status = "DATA_LOSS"
        BY <2>6, SetStatusIs DEF Statuses
      <3> HIDE DEF back, a1, t
      <3> QED BY <2>4, <2>5, <3>1
    <2>7. CASE ~(a.call.fail = 2 /\ a.tuple # <<>>)
      <3>1. \A i \in 1 .. Len(a.tuple) : slice(i) = a.tuple[i]
        <4>1. a.tuple = <<>> => Len(a.tuple) = 0
          BY EmptySeq
        <4> QED BY <2>7, <4>1
      <3>2. a.tuple = [i \in 1 .. Len(a.tuple) |-> a.tuple[i]]
        BY <1>1
      <3>3. t = a.tuple
        BY <3>1, <3>2
      <3> HIDE DEF back, a1, t
      <3> QED BY <2>4, <2>5, <3>3
    <2> QED BY <2>6, <2>7
  <1>3. /\ a1 \in Operation /\ a1.call = a.call /\ a1.tuple = a.tuple
        /\ a1.status \in {"OK", "DATA_LOSS"} /\ (a.tuple = <<>> => a1 = a)
    BY SetStatusIs DEF Statuses, SameCall
  <1>4. r = IF ~(closed /\ Len(queues[1]) < a.elements_requested) THEN Collect(queues, a)
            ELSE IF small /\ back[1] # <<>> THEN Collect(back, a2)
            ELSE IF small /\ enqueue_attempts # <<>> THEN Ran("kProgress", back, closed, a1)
            ELSE Ran("kComplete", back, closed, end)
    BY DEF RunDequeueMany
  <1> HIDE DEF back, a1
  <1>5. back \in Queues /\ back[1] \in Seq(Item)
    <2>1. back \in Queues
      BY <1>2, QueueOps
    <2> QED BY <2>1, QueueAssumption DEF Queues
  <1>6. a1.status # "DATA_LOSS" => Line(<<>>, back[1]) = Line(a.tuple, queues[1])
    BY <1>2, LineRestore
  <1>7. CASE ~(closed /\ Len(queues[1]) < a.elements_requested)
    <2>1. r = Collect(queues, a)
      BY <1>4, <1>7
    <2> QED BY <2>1, CollectMoves DEF Moves
  <1>8. CASE closed /\ Len(queues[1]) < a.elements_requested /\ small /\ back[1] # <<>>
    <2>1. Len(back[1]) \in Nat \ {0}
      BY <1>5, <1>8, EmptySeq
    <2>2. <<>> \in Seq(Slice)
      BY EmptySeq
    <2>3. /\ a2 \in Operation /\ a2.call = a.call /\ a2.tuple = <<>> /\ a2.status = a1.status
          /\ a2.elements_requested = Len(back[1])
      BY <1>3, <2>1, <2>2 DEF Operation
    <2> HIDE DEF a2
    <2>4. Least(Len(back[1]), a2.elements_requested) # 0
      BY <2>1, <2>3 DEF Least
    <2>5. r = Collect(back, a2)
      BY <1>4, <1>8
    <2>6. /\ r.result # "kComplete" => r.attempt.status = "OK"
          /\ ~Damaged(r.attempt) => Line(TakenOf(r.attempt), r.queues[1]) = Line(<<>>, back[1])
      <3>1. a2.call \in Call /\ a2.call.kind \in {"dequeue_many", "dequeue_up_to"}
            /\ a2.status \in {"OK", "DATA_LOSS"}
        BY <1>3, <2>3
      <3> QED BY <1>5, <2>3, <2>4, <2>5, <3>1, CollectMoves
    <2>7. a1.status = "DATA_LOSS" => Damaged(r.attempt)
      <3>1. SUFFICES ASSUME a1.status = "DATA_LOSS" PROVE Damaged(r.attempt)
        OBVIOUS
      <3>2. PICK b : b = SetStatus(a2, "RESOURCE_EXHAUSTED")
        OBVIOUS
      <3>3. b.status = "DATA_LOSS"
        BY <2>3, <3>1, <3>2 DEF SetStatus
      <3>4. r = Ran("kComplete", back, closed, b) \/ r = Ran("kComplete", back, closed, a2)
        BY <2>3, <2>4, <2>5, <3>1, <3>2 DEF Collect
      <3>5. r.attempt = b \/ r.attempt = a2
        BY <3>4, RanFields
      <3> QED BY <2>3, <3>1, <3>3, <3>5 DEF Damaged
    <2> QED BY <1>6, <2>6, <2>7 DEF Moves
  <1>9. CASE /\ closed /\ Len(queues[1]) < a.elements_requested
             /\ ~(small /\ back[1] # <<>>) /\ small /\ enqueue_attempts # <<>>
    <2>1. r = Ran("kProgress", back, closed, a1)
      BY <1>4, <1>9
    <2>2. r.queues = back /\ r.attempt = a1
      BY <2>1, RanFields
    <2>3. a.tuple = <<>>
      <3>1. back[1] = <<>> /\ Len(back[1]) = 0
        BY <1>9, EmptySeq
      <3>2. PICK f : f = [i \in 1 .. Len(t) |-> t[i][1]]
        OBVIOUS
      <3>3. back[1] = f \o queues[1]
        BY <1>2, <3>2, QueueAssumption DEF push_front
      <3>4. f \in Seq(Item) /\ Len(f) = Len(t)
        <4>1. Len(t) \in Nat /\ \A i \in 1 .. Len(t) : t[i] \in Slice
          BY LenProperties, ElementOfSeq
        <4>2. f \in [1 .. Len(t) -> Item]
          BY <3>2, <4>1, QueueAssumption DEF Slice, Item
        <4> QED BY <4>1, <4>2, MakeSeq
      <3>5. queues[1] \in Seq(Item) /\ Len(queues[1]) \in Nat
        <4>1. queues[1] \in Seq(Item)
          BY QueueAssumption DEF Queues
        <4> QED BY <4>1, LenProperties
      <3>6. Len(f \o queues[1]) = Len(f) + Len(queues[1])
        BY <3>4, <3>5, ConcatProperties, Zenon
      <3>7. Len(a.tuple) = 0
        BY <1>1, <1>2, <3>1, <3>3, <3>4, <3>5, <3>6
      <3> QED BY <1>1, <3>7, EmptySeq
    <2>4. a1 = a /\ TakenOf(a) = a.tuple
      BY <1>1, <1>3, <2>3, ConsumerTaken
    <2>5. a1.status # "DATA_LOSS"
      BY <2>4
    <2> QED BY <1>6, <2>2, <2>3, <2>4, <2>5 DEF Moves
  <1>10. CASE /\ closed /\ Len(queues[1]) < a.elements_requested
              /\ ~(small /\ back[1] # <<>>) /\ ~(small /\ enqueue_attempts # <<>>)
    <2>1. r = Ran("kComplete", back, closed, end)
      BY <1>4, <1>10
    <2>2. r.result = "kComplete" /\ r.queues = back /\ r.attempt = end
      BY <2>1, RanFields
    <2>3. /\ end \in Operation /\ end.call = a.call
          /\ end.status = IF a1.status = "OK" THEN "OUT_OF_RANGE" ELSE a1.status
      BY <1>3, SetStatusIs DEF Statuses, SameCall
    <2> HIDE DEF end
    <2>4. ~Damaged(end) => a1.status # "DATA_LOSS" /\ TakenOf(end) = <<>>
      BY <1>1, <1>3, <2>3, ConsumerTaken
    <2> QED BY <1>6, <2>2, <2>4 DEF Moves
  <1> QED BY <1>7, <1>8, <1>9, <1>10

LEMMA RunDequeueMoves ==
    ASSUME queues \in Queues, NEW a \in Operation, a.call \in Call, a.call.kind = "dequeue",
           a.status = "OK", a.tuple = <<>>, NEW r, r = RunDequeue(a)
    PROVE  /\ r.result # "kComplete" => r.attempt.status = "OK" /\ r.attempt.tuple = <<>>
           /\ ~Damaged(r.attempt) => Moves(r.queues, r.attempt, a)
  <1>1. a.call.kind \in Consuming /\ queues[1] \in Seq(Item) /\ <<>> \in Seq(Slice)
    BY QueueAssumption, EmptySeq DEF Consuming, Queues
  <1>2. CASE queues[1] # <<>>
    <2>1. PICK b : b = [a EXCEPT !.tuple = Oldest(queues, 1), !.done_callback = "tuple"]
      OBVIOUS
    <2>2. r.result = "kComplete" /\ r.queues = Rest(queues, 1) /\ r.attempt = b
      BY <1>2, <2>1, RanFields DEF RunDequeue
    <2>3. Oldest(queues, 1) \in Seq(Slice)
      BY QueueOps
    <2>4. b \in Operation /\ b.call = a.call /\ b.status = "OK" /\ b.tuple = Oldest(queues, 1)
      BY <2>1, <2>3 DEF Operation
    <2>5. TakenOf(b) = Oldest(queues, 1)
      BY <1>1, <2>4, ConsumerTaken
    <2>6. Len(queues[1]) \in Nat \ {0}
      BY <1>1, <1>2, EmptySeq
    <2>7. Line(<<>> \o Oldest(queues, 1), Rest(queues, 1)[1]) = Line(<<>>, queues[1])
      <3>1. 1 \in Nat /\ 1 <= Len(queues[1])
        BY <2>6
      <3> QED BY <1>1, <3>1, LineCollect, Zenon
    <2>8. <<>> \o Oldest(queues, 1) = Oldest(queues, 1)
      BY <2>3, ConcatEmptySeq
    <2> QED BY <2>2, <2>5, <2>7, <2>8 DEF Moves
  <1>3. CASE queues[1] = <<>> /\ closed
    <2>1. PICK b : b = SetStatus(a, "OUT_OF_RANGE")
      OBVIOUS
    <2>2. r.result = "kComplete" /\ r.queues = queues /\ r.attempt = b
      <3>1. r = Ran("kComplete", queues, closed, b)
        BY <1>3, <2>1 DEF RunDequeue
      <3> QED BY <3>1, RanFields
    <2>3. b \in Operation /\ b.call = a.call /\ b.tuple = <<>>
      BY <2>1, SetStatusIs DEF Statuses, SameCall
    <2>4. TakenOf(b) = <<>>
      BY <1>1, <2>3, ConsumerTaken
    <2> QED BY <2>2, <2>4 DEF Moves
  <1>4. CASE queues[1] = <<>> /\ ~closed
    <2>1. r.queues = queues /\ r.attempt = a
      BY <1>4, RanFields DEF RunDequeue
    <2>2. TakenOf(a) = <<>>
      BY <1>1, ConsumerTaken
    <2> QED BY <2>1, <2>2 DEF Moves
  <1> QED BY <1>2, <1>3, <1>4

(* Nothing is put into the queue.                                          *)
LEMMA NothingPuts ==
    ASSUME queues \in Queues, NEW a \in Operation, NEW b, NEW state, NEW o \in Ops,
           PutOf(a, "waits") \in Nat, PutOf(b, state) = PutOf(a, "waits")
    PROVE  Puts(queues, b, state, a, o)
  <1>1. PICK p \in Nat : p = PutOf(a, "waits")
    OBVIOUS
  <1>2. Slices(o, p + 1, p + 0) = <<>>
    <2>1. p + 1 \in Nat /\ (p + 1) + 0 - 1 = p + 0
      OBVIOUS
    <2> QED BY <2>1, SlicesIs
  <1>3. queues[1] \o <<>> = queues[1]
    <2>1. queues[1] \in Seq(Item)
      BY QueueAssumption DEF Queues
    <2> QED BY <2>1, ConcatEmptySeq
  <1>4. PutOf(b, state) = p + 0
    <2>1. p + 0 = p
      OBVIOUS
    <2> QED BY <1>1, <2>1, Zenon
  <1> QED BY <1>1, <1>2, <1>3, <1>4 DEF Puts

LEMMA ProducerPut ==
    ASSUME NEW a \in Operation, a.call \in Call, a.call.kind \in Producing, Waiting(a)
    PROVE  /\ PutOf(a, "waits") \in Nat /\ a.status = "OK"
           /\ a.call.kind = "enqueue" => PutOf(a, "waits") = 0
           /\ a.call.kind = "enqueue_many" => PutOf(a, "waits") = a.call.n - a.elements_requested
           /\ a.call.kind = "close" => \A b, state : b.call = a.call => PutOf(b, state) = 0
           /\ a.call.kind = "enqueue" => \A b, state : b.call = a.call =>
                 PutOf(b, state) = IF b.status = "OK" /\ state = "over" THEN 1 ELSE 0
           /\ a.call.kind = "enqueue_many" => \A b, state : b.call = a.call =>
                 PutOf(b, state) = a.call.n - b.elements_requested
  <1>1. a.call # <<>> /\ a.call.n \in Nat /\ a.elements_requested \in Nat /\ a.status = "OK"
        /\ (a.call.kind = "enqueue_many" => a.elements_requested <= a.call.n)
    BY NoCallIs DEF Call, Operation, Waiting, Producing
  <1>2. a.call.kind = "close" => \A b, state : b.call = a.call => PutOf(b, state) = 0
    BY <1>1 DEF PutOf
  <1>3. a.call.kind = "enqueue" => \A b, state : b.call = a.call =>
                 PutOf(b, state) = IF b.status = "OK" /\ state = "over" THEN 1 ELSE 0
    BY <1>1 DEF PutOf
  <1>4. a.call.kind = "enqueue_many" => \A b, state : b.call = a.call =>
                 PutOf(b, state) = a.call.n - b.elements_requested
    BY <1>1 DEF PutOf
  <1>5. PutOf(a, "waits") \in Nat
    <2>1. CASE a.call.kind = "close"
      <3>1. PutOf(a, "waits") = 0
        BY <1>2, <2>1, Zenon
      <3> QED BY <3>1
    <2>2. CASE a.call.kind = "enqueue"
      BY <1>1, <2>2 DEF PutOf
    <2>3. CASE a.call.kind = "enqueue_many"
      BY <1>1, <2>3 DEF PutOf
    <2> QED BY <2>1, <2>2, <2>3 DEF Producing
  <1> QED BY <1>1, <1>2, <1>3, <1>4, <1>5

(* A closed queue ends a producer, which has put nothing more into it.     *)
LEMMA CancelledPuts ==
    ASSUME queues \in Queues, NEW a \in Operation, a.call \in Call, a.call.kind \in Producing,
           Waiting(a), NEW o \in Ops, NEW r,
           r = Ran("kComplete", queues, closed, SetStatus(a, "CANCELLED"))
    PROVE  RunConserves(r.result, r.queues, r.attempt, a, o)
  <1>1. PICK b : b = SetStatus(a, "CANCELLED")
    OBVIOUS
  <1>2. r.result = "kComplete" /\ r.queues = queues /\ r.attempt = b
    BY <1>1, RanFields
  <1>3. b.call = a.call /\ b.status = "CANCELLED" /\ b.elements_requested = a.elements_requested
    BY <1>1, ProducerPut, SetStatusIs DEF Statuses, SameCall
  <1>4. PutOf(b, "over") = PutOf(a, "waits") /\ PutOf(a, "waits") \in Nat
    BY <1>3, ProducerPut DEF Producing
  <1>5. Puts(queues, b, "over", a, o)
    BY <1>4, NothingPuts
  <1>6. a.call.kind \notin Consuming
    BY DEF Producing, Consuming
  <1> QED BY <1>2, <1>5, <1>6 DEF RunConserves

LEMMA RunClosePuts ==
    ASSUME queues \in Queues, NEW a \in Operation, a.call \in Call, a.call.kind = "close",
           Waiting(a), NEW o \in Ops, NEW r, r = RunClose(a)
    PROVE  RunConserves(r.result, r.queues, r.attempt, a, o)
  <1>1. a.call.kind \in Producing /\ a.call.kind \notin Consuming
    BY DEF Producing, Consuming
  <1>2. CASE closed
    BY <1>1, <1>2, CancelledPuts DEF RunClose
  <1>3. CASE ~closed
    <2>1. r.result = "kComplete" /\ r.queues = queues /\ r.attempt = a
      <3>1. PICK cl : cl = TRUE
        OBVIOUS
      <3>2. r = Ran("kComplete", queues, cl, a)
        BY <1>3, <3>1 DEF RunClose
      <3> QED BY <3>2, RanFields
    <2>2. Puts(queues, a, "over", a, o)
      BY <1>1, ProducerPut, NothingPuts
    <2> QED BY <1>1, <2>1, <2>2 DEF RunConserves
  <1> QED BY <1>2, <1>3

LEMMA RunEnqueuePuts ==
    ASSUME queues \in Queues, NEW a \in Operation, a.call \in Call, a.call.kind = "enqueue",
           Waiting(a), NEW o \in Ops, NEW r, r = RunEnqueue(o, a)
    PROVE  RunConserves(r.result, r.queues, r.attempt, a, o)
  <1>1. a.call.kind \in Producing /\ a.call.kind \notin Consuming
    BY DEF Producing, Consuming
  <1>2. a.status = "OK" /\ PutOf(a, "waits") = 0 /\ PutOf(a, "over") = 1
    BY <1>1, ProducerPut
  <1>3. CASE closed
    BY <1>1, <1>3, CancelledPuts DEF RunEnqueue
  <1>4. CASE ~closed /\ Room > 0
    <2>1. r.result = "kComplete" /\ r.queues = push_back(queues, <<<<o, 1>>>>) /\ r.attempt = a
      BY <1>4, RanFields DEF RunEnqueue
    <2>2. r.queues[1] = queues[1] \o <<<<o, 1>>>>
      BY <2>1, QueueAssumption DEF push_back
    <2>3. Slices(o, 0 + 1, 0 + 1) = <<<<o, 1>>>>
      BY DEF Slices
    <2>4. Puts(r.queues, a, "over", a, o)
      <3>1. 1 \in Nat /\ r.queues[1] = queues[1] \o Slices(o, 0 + 1, 0 + 1) /\ 1 = 0 + 1
        <4>1. 1 \in Nat /\ 1 = 0 + 1
          OBVIOUS
        <4> QED BY <2>2, <2>3, <4>1, Zenon
      <3> QED BY <1>2, <3>1, Zenon DEF Puts
    <2> QED BY <1>1, <2>1, <2>4 DEF RunConserves
  <1>5. CASE ~closed /\ ~(Room > 0)
    <2>1. r.result = "kNoProgress" /\ r.queues = queues /\ r.attempt = a
      BY <1>5, RanFields DEF RunEnqueue
    <2>2. Puts(queues, a, "waits", a, o)
      <3>1. PutOf(a, "waits") \in Nat
        BY <1>2
      <3> QED BY <3>1, NothingPuts
    <2> QED BY <1>1, <1>2, <2>1, <2>2 DEF RunConserves
  <1> QED BY <1>3, <1>4, <1>5

LEMMA RunEnqueueManyPuts ==
    ASSUME queues \in Queues, NEW a \in Operation, a.call \in Call, a.call.kind = "enqueue_many",
           Waiting(a), NEW o \in Ops, NEW r, r = RunEnqueueMany(o, a)
    PROVE  RunConserves(r.result, r.queues, r.attempt, a, o)
  <1> DEFINE first == a.call.n - a.elements_requested + 1
             k     == Least(Room, a.elements_requested)
             good  == IF a.call.fail \in first .. first + k - 1 THEN a.call.fail - first ELSE k
             full  == push_back(queues, Slices(o, first, first + good - 1))
             left  == [a EXCEPT !.elements_requested = @ - good]
             fails == [c \in 1 .. Components |->
                          IF c < Components THEN Append(full[c], <<o, first + good>>) ELSE full[c]]
             last  == SetStatus(left, "RESOURCE_EXHAUSTED")
             done  == IF k = a.elements_requested THEN "kComplete"
                      ELSE IF k > 0 THEN "kProgress" ELSE "kNoProgress"
             p     == PutOf(a, "waits")
  <1>1. /\ a.call.n \in Nat /\ a.call.fail \in Nat /\ a.elements_requested \in Nat
        /\ a.elements_requested <= a.call.n /\ a.status = "OK"
        /\ a.call.kind \in Producing /\ a.call.kind \notin Consuming
    BY DEF Operation, Call, Waiting, Producing, Consuming
  <1>2. k \in Nat /\ k <= a.elements_requested
    BY <1>1, RoomIs, LeastIs
  <1>3. first \in Nat /\ p \in Nat /\ first = p + 1 /\ p = a.call.n - a.elements_requested
    <2>1. PutOf(a, "waits") = a.call.n - a.elements_requested
      BY <1>1, ProducerPut
    <2> QED BY <1>1, <2>1
  <1>4. r = IF closed THEN Ran("kComplete", queues, closed, SetStatus(a, "CANCELLED"))
            ELSE IF good < k THEN Ran("kComplete", fails, closed, last)
            ELSE Ran(done, full, closed, left)
    BY DEF RunEnqueueMany
  <1>5. good \in Nat /\ good <= k
    <2> HIDE DEF k, first, p
    <2> QED BY <1>1, <1>2, <1>3
  <1> HIDE DEF good, k, first, p
  <1>6. full[1] = queues[1] \o Slices(o, p + 1, p + good)
    <2>1. first + good - 1 = p + good
      BY <1>3, <1>5
    <2>2. ASSUME NEW s PROVE push_back(queues, s)[1] = queues[1] \o s
      BY QueueAssumption DEF push_back
    <2>3. full[1] = queues[1] \o Slices(o, first, first + good - 1)
      BY <2>2
    <2> QED BY <1>3, <2>1, <2>3, Zenon
  <1>7. /\ left \in Operation /\ left.call = a.call /\ left.status = "OK"
        /\ left.elements_requested = a.elements_requested - good
    BY <1>1, <1>2, <1>5 DEF Operation
  <1> HIDE DEF left
  <1>8. ASSUME NEW b, NEW state, b.call = a.call, b.elements_requested = left.elements_requested
        PROVE  PutOf(b, state) = p + good
    <2>1. PutOf(b, state) = a.call.n - b.elements_requested
      BY <1>1, <1>8, ProducerPut
    <2> QED BY <1>1, <1>2, <1>3, <1>5, <1>7, <1>8, <2>1
  <1>9. CASE closed
    BY <1>1, <1>4, <1>9, CancelledPuts
  <1>10. CASE ~closed /\ good < k
    <2>1. r.result = "kComplete" /\ r.queues = fails /\ r.attempt = last
      BY <1>4, <1>10, RanFields
    <2>2. /\ last.call = a.call /\ last.elements_requested = left.elements_requested
          /\ last.status = "RESOURCE_EXHAUSTED"
      BY <1>7, SetStatusIs DEF Statuses, SameCall
    <2> HIDE DEF last
    <2>3. PutOf(last, "over") = p + good
      BY <1>8, <2>2
    <2>4. ASSUME ~Damaged(last) PROVE Puts(fails, last, "over", a, o)
      <3>1. Components = 1
        BY <2>2, <2>4, QueueAssumption DEF Damaged
      <3>2. fails[1] = full[1]
        BY <3>1
      <3> QED BY <1>5, <1>6, <2>3, <3>2 DEF Puts, p
    <2> QED BY <1>1, <2>1, <2>4 DEF RunConserves
  <1>11. CASE ~closed /\ ~(good < k)
    <2>1. r = Ran(done, full, closed, left)
      BY <1>4, <1>11
    <2>2. r.result = done /\ r.queues = full /\ r.attempt = left
      BY <2>1, RanFields
    <2>3. ASSUME NEW state PROVE Puts(full, left, state, a, o)
      <3>1. PutOf(left, state) = p + good
        BY <1>7, <1>8
      <3> QED BY <1>5, <1>6, <3>1 DEF Puts, p
    <2>4. Puts(full, left, IF done = "kComplete" THEN "over" ELSE "waits", a, o)
      BY <2>3
    <2> QED BY <1>1, <1>7, <2>2, <2>4 DEF RunConserves
  <1> QED BY <1>9, <1>10, <1>11

(* What running the attempt of operation o does to the elements.           *)
LEMMA RunCallbackConserves ==
    ASSUME TypeOK, NEW o \in Ops, op[o].call \in Call,
           op[o].call.kind \in Producing \cup Consuming, Waiting(op[o]), op[o].status = "OK",
           op[o].call.kind = "dequeue" => op[o].tuple = <<>>, NEW r, r = run_callback(o)
    PROVE  RunConserves(r.result, r.queues, r.attempt, op[o], o)
  <1>1. queues \in Queues /\ op[o] \in Operation
    BY DEF TypeOK, Queues, Item
  <1>2. r = CASE op[o].call.kind = "close"        -> RunClose(op[o])
              [] op[o].call.kind = "enqueue"      -> RunEnqueue(o, op[o])
              [] op[o].call.kind = "enqueue_many" -> RunEnqueueMany(o, op[o])
              [] op[o].call.kind = "dequeue"      -> RunDequeue(op[o])
              [] OTHER                            -> RunDequeueMany(op[o])
    BY DEF run_callback, Kind
  <1>3. CASE op[o].call.kind = "close"
    BY <1>1, <1>2, <1>3, RunClosePuts
  <1>4. CASE op[o].call.kind = "enqueue"
    BY <1>1, <1>2, <1>4, RunEnqueuePuts
  <1>5. CASE op[o].call.kind = "enqueue_many"
    BY <1>1, <1>2, <1>5, RunEnqueueManyPuts
  <1>6. CASE op[o].call.kind = "dequeue"
    <2>1. r = RunDequeue(op[o])
      BY <1>2, <1>6
    <2>2. op[o].call.kind \in Consuming /\ op[o].tuple = <<>>
      BY <1>6 DEF Consuming
    <2> QED BY <1>1, <1>6, <2>1, <2>2, RunDequeueMoves DEF RunConserves
  <1>7. CASE op[o].call.kind \in {"dequeue_many", "dequeue_up_to"}
    <2>1. r = RunDequeueMany(op[o])
      BY <1>2, <1>7
    <2>2. op[o].call.kind \in Consuming
      BY <1>7 DEF Consuming
    <2> QED BY <1>1, <1>7, <2>1, <2>2, RunDequeueManyMoves DEF RunConserves
  <1> QED BY <1>3, <1>4, <1>5, <1>6, <1>7 DEF Producing, Consuming

-----------------------------------------------------------------------------
(* Where operation o is, with these attempts; what the operations x hold,  *)
(* and what they have put into the queue.                                  *)
StateOf(o, s) == IF InSeq(o, s) THEN "waits" ELSE "over"
HeldBy(x) == [p \in Ops |-> TakenOf(x[p])]
PutByAll(x, s) == [p \in Ops |-> PutOf(x[p], StateOf(p, s))]
Undamaged(x) == \A p \in Ops : ~Damaged(x[p])

(* A live consumer has no error, and a Dequeue has not collected anything. *)
LiveOK(s, x) ==
    \A i \in 1 .. Len(s) : ~x[s[i]].is_cancelled =>
        x[s[i]].status = "OK" /\ (x[s[i]].call.kind = "dequeue" => x[s[i]].tuple = <<>>)

ElementsOK(q, x, s) ==
    Undamaged(x) => /\ PutByAll(x, s) \in [Ops -> Nat]
                    /\ Conserved(q, HeldBy(x), PutByAll(x, s))

ElementInv ==
    /\ LiveOK(dequeue_attempts, op)
    /\ \A p \in Ops : op[p].call = <<>> => op[p].status = "OK"
    /\ ElementsOK(queues[1], op, enqueue_attempts)

LEMMA HeldByTyped ==
    ASSUME NEW x \in [Ops -> Operation]
    PROVE  /\ HeldBy(x) \in [Ops -> Seq(Slice)]
           /\ \A p \in Ops : HeldBy(x)[p] = TakenOf(x[p])
  <1>1. <<>> \in Seq(Slice)
    BY EmptySeq
  <1>2. ASSUME NEW p \in Ops PROVE TakenOf(x[p]) \in Seq(Slice)
    <2>1. x[p].tuple \in Seq(Slice)
      BY DEF Operation
    <2> QED BY <1>1, <2>1 DEF TakenOf
  <1> QED BY <1>2 DEF HeldBy

(* Nothing that matters for the elements changes.                          *)
SameElements(b, s2, a, s) ==
    /\ TakenOf(b) = TakenOf(a) /\ PutOf(b, s2) = PutOf(a, s)
    /\ Damaged(a) => Damaged(b)

LEMMA ElementsFrame ==
    ASSUME NEW q, NEW x, NEW s, NEW x2, NEW s2, ElementsOK(q, x, s),
           \A p \in Ops : SameElements(x2[p], StateOf(p, s2), x[p], StateOf(p, s))
    PROVE  ElementsOK(q, x2, s2)
  <1>1. HeldBy(x2) = HeldBy(x)
    BY DEF HeldBy, SameElements
  <1>2. PutByAll(x2, s2) = PutByAll(x, s)
    BY DEF PutByAll, SameElements
  <1>3. Undamaged(x2) => Undamaged(x)
    BY DEF Undamaged, SameElements
  <1> QED BY <1>1, <1>2, <1>3 DEF ElementsOK

(* An operation of which only the callback and its count change.           *)
SameAttempt(b, a) ==
    /\ b.call = a.call /\ b.tuple = a.tuple /\ b.status = a.status
    /\ b.elements_requested = a.elements_requested /\ b.is_cancelled = a.is_cancelled

LEMMA SameAttemptIs ==
    ASSUME NEW a, NEW b, SameAttempt(b, a), NEW s
    PROVE  SameElements(b, s, a, s)
  BY DEF SameAttempt, SameElements, TakenOf, PutOf, Damaged

LEMMA LiveFrame ==
    ASSUME NEW s \in Seq(Ops), NEW x, NEW x2, LiveOK(s, x),
           \A i \in 1 .. Len(s) : x2[s[i]].is_cancelled \/ SameAttempt(x2[s[i]], x[s[i]])
    PROVE  LiveOK(s, x2)
  BY DEF LiveOK, SameAttempt

LEMMA LiveTail ==
    ASSUME NEW s \in Seq(Ops), s # <<>>, NEW x, LiveOK(s, x)
    PROVE  LiveOK(Tail(s), x)
  <1>1. /\ Len(s) \in Nat \ {0} /\ Len(Tail(s)) = Len(s) - 1
        /\ \A i \in 1 .. Len(s) - 1 : i + 1 \in 1 .. Len(s) /\ Tail(s)[i] = s[i + 1]
    BY FrontAndRest
  <1> QED BY <1>1 DEF LiveOK

LEMMA LiveAppend ==
    ASSUME NEW s \in Seq(Ops), NEW x, LiveOK(s, x), NEW o \in Ops, x[o].status = "OK",
           x[o].tuple = <<>>
    PROVE  LiveOK(Append(s, o), x)
  <1>1. /\ Len(s) \in Nat /\ Len(Append(s, o)) = Len(s) + 1
        /\ \A i \in 1 .. Len(s) + 1 : Append(s, o)[i] = IF i <= Len(s) THEN s[i] ELSE o
    BY AppendOne
  <1>2. ASSUME NEW i \in 1 .. Len(s) + 1
        PROVE  \/ i \in 1 .. Len(s) /\ Append(s, o)[i] = s[i]
               \/ Append(s, o)[i] = o
    BY <1>1
  <1> QED BY <1>1, <1>2 DEF LiveOK

LEMMA StateIs ==
    ASSUME NEW s \in Seq(Ops), NEW o \in Ops
    PROVE  /\ s # <<>> /\ o # Head(s) => StateOf(o, Tail(s)) = StateOf(o, s)
           /\ s # <<>> /\ (\A i, j \in 1 .. Len(s) : s[i] = s[j] => i = j) =>
                 StateOf(Head(s), s) = "waits" /\ StateOf(Head(s), Tail(s)) = "over"
           /\ \A p \in Ops : StateOf(p, Append(s, p)) = "waits"
           /\ \A p \in Ops \ {o} : StateOf(o, Append(s, p)) = StateOf(o, s)
           /\ \A i \in 1 .. Len(s) : StateOf(s[i], s) = "waits"
  <1>1. ASSUME NEW r \in Seq(Ops), NEW p PROVE InSeq(p, r) <=> \E i \in 1 .. Len(r) : r[i] = p
    BY <1>1, LenProperties DEF InSeq
  <1>2. ASSUME s # <<>>
        PROVE  /\ Len(s) \in Nat \ {0} /\ Head(s) = s[1] /\ Tail(s) \in Seq(Ops)
               /\ Len(Tail(s)) = Len(s) - 1
               /\ \A i \in 1 .. Len(s) - 1 : i + 1 \in 1 .. Len(s) /\ Tail(s)[i] = s[i + 1]
    BY <1>2, FrontAndRest
  <1>3. ASSUME s # <<>>, o # Head(s) PROVE StateOf(o, Tail(s)) = StateOf(o, s)
    <2>1. InSeq(o, s) => InSeq(o, Tail(s))
      BY <1>3, InSeqIs
    <2>2. InSeq(o, Tail(s)) => InSeq(o, s)
      <3>1. SUFFICES ASSUME InSeq(o, Tail(s)) PROVE InSeq(o, s)
        OBVIOUS
      <3>2. PICK i \in 1 .. Len(s) - 1 : Tail(s)[i] = o
        <4>1. Tail(s) \in Seq(Ops) /\ Len(Tail(s)) = Len(s) - 1
          BY <1>2, <1>3
        <4> QED BY <1>1, <3>1, <4>1
      <3>3. i + 1 \in 1 .. Len(s) /\ s[i + 1] = o
        BY <1>2, <1>3, <3>2
      <3> QED BY <1>1, <3>3
    <2> QED BY <2>1, <2>2 DEF StateOf
  <1>4. ASSUME s # <<>>, \A i, j \in 1 .. Len(s) : s[i] = s[j] => i = j
        PROVE  StateOf(Head(s), s) = "waits" /\ StateOf(Head(s), Tail(s)) = "over"
    <2>1. InSeq(Head(s), s)
      <3>1. 1 \in 1 .. Len(s) /\ s[1] = Head(s)
        BY <1>2, <1>4
      <3> QED BY <1>1, <3>1
    <2>2. ~InSeq(Head(s), Tail(s))
      <3>1. SUFFICES ASSUME InSeq(Head(s), Tail(s)) PROVE FALSE
        OBVIOUS
      <3>2. PICK i \in 1 .. Len(s) - 1 : Tail(s)[i] = Head(s)
        <4>1. Tail(s) \in Seq(Ops) /\ Len(Tail(s)) = Len(s) - 1
          BY <1>2, <1>4
        <4> QED BY <1>1, <3>1, <4>1
      <3>3. i + 1 \in 1 .. Len(s) /\ s[i + 1] = s[1] /\ 1 \in 1 .. Len(s) /\ i + 1 # 1
        BY <1>2, <1>4, <3>2
      <3> QED BY <1>4, <3>3
    <2> QED BY <2>1, <2>2 DEF StateOf
  <1>5. ASSUME NEW p \in Ops PROVE StateOf(p, Append(s, p)) = "waits"
    BY InSeqIs DEF StateOf
  <1>6. ASSUME NEW p \in Ops \ {o} PROVE StateOf(o, Append(s, p)) = StateOf(o, s)
    <2>1. /\ Len(s) \in Nat /\ Len(Append(s, p)) = Len(s) + 1 /\ Append(s, p) \in Seq(Ops)
          /\ \A i \in 1 .. Len(s) + 1 : Append(s, p)[i] = IF i <= Len(s) THEN s[i] ELSE p
      BY AppendOne
    <2>2. InSeq(o, s) => InSeq(o, Append(s, p))
      BY InSeqIs
    <2>3. InSeq(o, Append(s, p)) => InSeq(o, s)
      <3>1. SUFFICES ASSUME InSeq(o, Append(s, p)) PROVE InSeq(o, s)
        OBVIOUS
      <3>2. PICK i \in 1 .. Len(s) + 1 : Append(s, p)[i] = o
        BY <1>1, <2>1, <3>1
      <3>3. i \in 1 .. Len(s) /\ s[i] = o
        BY <2>1, <3>2
      <3> QED BY <1>1, <3>3
    <2> QED BY <2>2, <2>3 DEF StateOf
  <1>7. ASSUME NEW i \in 1 .. Len(s) PROVE StateOf(s[i], s) = "waits"
    BY <1>1 DEF StateOf
  <1> QED BY <1>3, <1>4, <1>5, <1>6, <1>7

(* Steps that change no attempt but for its callback.                      *)
LEMMA QuietElements ==
    ASSUME TypeOK, ElementInv, \A p \in Ops : SameAttempt(op'[p], op[p]),
           UNCHANGED <<queues, enqueue_attempts>>,
           \/ dequeue_attempts' = dequeue_attempts
           \/ dequeue_attempts # <<>> /\ dequeue_attempts' = Tail(dequeue_attempts)
    PROVE  ElementInv'
  <1>1. PICK x2, s2 : x2 = op' /\ s2 = dequeue_attempts'
    OBVIOUS
  <1>2. dequeue_attempts \in Seq(Ops) /\ s2 \in Seq(Ops)
    <2>1. dequeue_attempts \in Seq(Ops)
      BY DEF TypeOK
    <2>2. dequeue_attempts # <<>> => Tail(dequeue_attempts) \in Seq(Ops)
      BY <2>1, FrontAndRest
    <2> QED BY <1>1, <2>1, <2>2
  <1>3. LiveOK(s2, op)
    BY <1>1, <1>2, LiveTail DEF ElementInv
  <1>4. LiveOK(s2, x2)
    <2>1. \A i \in 1 .. Len(s2) : s2[i] \in Ops
      BY <1>2, ElementOfSeq
    <2> QED BY <1>1, <1>2, <1>3, <2>1, LiveFrame
  <1>5. ElementsOK(queues[1], x2, enqueue_attempts)
    <2>1. \A p \in Ops : SameElements(x2[p], StateOf(p, enqueue_attempts), op[p], StateOf(p, enqueue_attempts))
      BY <1>1, SameAttemptIs
    <2> QED BY <2>1, ElementsFrame DEF ElementInv
  <1>6. \A p \in Ops : x2[p].call = <<>> => x2[p].status = "OK"
    BY <1>1 DEF ElementInv, SameAttempt
  <1> QED BY <1>1, <1>4, <1>5, <1>6 DEF ElementInv

LEMMA ThreadElements ==
    ASSUME TypeOK, ElementInv, NEW t \in Threads,
           CallCallback(t) \/ Lock(t) \/ CleanUp(t) \/ Return(t)
    PROVE  ElementInv'
  <1>1. UNCHANGED <<queues, enqueue_attempts, dequeue_attempts>>
    BY DEF CallCallback, Lock, CleanUp, Return
  <1>2. op \in [Ops -> Operation]
    BY DEF TypeOK
  <1>3. \A o \in Ops : SameAttempt(op'[o], op[o])
    <2>1. CASE op' = op
      BY <2>1 DEF SameAttempt
    <2>2. ASSUME NEW p, op' = Called(p) PROVE \A o \in Ops : SameAttempt(op'[o], op[o])
      BY <1>2, <2>2 DEF Called, Operation, SameAttempt
    <2>3. ASSUME NEW p, op' = [Called(p) EXCEPT ![p].done_callback = "null"]
          PROVE  \A o \in Ops : SameAttempt(op'[o], op[o])
      BY <1>2, <2>3 DEF Called, Operation, SameAttempt
    <2> QED BY <2>1, <2>2, <2>3 DEF CallCallback, Lock, CleanUp, Return
  <1> QED BY <1>1, <1>3, QuietElements

LEMMA SkipElements ==
    ASSUME TypeOK, CallbackInv, LateInv, ElementInv, NEW t \in Threads,
           NEW action \in {"enqueue", "dequeue"}, SkipCancelled(t, action)
    PROVE  ElementInv'
  <1>1. UNCHANGED <<queues, op>>
    BY DEF SkipCancelled
  <1>2. CASE action = "dequeue"
    <2>1. /\ enqueue_attempts' = enqueue_attempts /\ dequeue_attempts # <<>>
          /\ dequeue_attempts' = Tail(dequeue_attempts)
      BY <1>2 DEF SkipCancelled, SetAttempts, Attempts
    <2>2. \A p \in Ops : SameAttempt(op'[p], op[p])
      BY <1>1 DEF SameAttempt
    <2> QED BY <1>1, <2>1, <2>2, QuietElements
  <1>3. CASE action = "enqueue"
    <2>1. /\ enqueue_attempts # <<>> /\ op[Head(enqueue_attempts)].is_cancelled
          /\ enqueue_attempts' = Tail(enqueue_attempts) /\ dequeue_attempts' = dequeue_attempts
      BY <1>3 DEF SkipCancelled, SetAttempts, Attempts
    <2>2. enqueue_attempts \in Seq(Ops)
      BY DEF TypeOK
    <2>3. ASSUME NEW p \in Ops
          PROVE  SameElements(op[p], StateOf(p, Tail(enqueue_attempts)), op[p], StateOf(p, enqueue_attempts))
      <3>1. CASE p = Head(enqueue_attempts)
        <4>1. op[p].status # "OK"
          BY <2>1, <3>1 DEF LateInv, NothingPut
        <4> QED BY <4>1 DEF SameElements, PutOf
      <3>2. CASE p # Head(enqueue_attempts)
        <4>1. StateOf(p, Tail(enqueue_attempts)) = StateOf(p, enqueue_attempts)
          BY <2>1, <2>2, <3>2, StateIs
        <4> QED BY <4>1 DEF SameElements
      <3> QED BY <3>1, <3>2
    <2>4. ElementsOK(queues[1], op, Tail(enqueue_attempts))
      BY <2>3, ElementsFrame DEF ElementInv
    <2> QED BY <1>1, <2>1, <2>4 DEF ElementInv
  <1> QED BY <1>2, <1>3

(* Operation o begins, as the attempt a.                                   *)
LEMMA FreshElements ==
    ASSUME NEW b \in Operation, b.call = <<>>, b.status = "OK", NEW a \in Operation,
           a.call \in Call, Fresh(a), NEW s, NEW s2,
           a.call.kind = "enqueue" /\ a.status = "OK" => s2 = "waits"
    PROVE  SameElements(a, s2, b, s)
  <1>1. TakenOf(a) = <<>> /\ TakenOf(b) = <<>>
    BY DEF TakenOf, Fresh
  <1>2. a.call.n - a.elements_requested = 0
    BY DEF Fresh, Call
  <1>3. PutOf(a, s2) = 0 /\ PutOf(b, s) = 0
    BY <1>2 DEF PutOf
  <1>4. ~Damaged(b)
    BY DEF Damaged
  <1> QED BY <1>1, <1>3, <1>4 DEF SameElements

LEMMA StateAppend ==
    ASSUME NEW s \in Seq(Ops), NEW o \in Ops, NEW p \in Ops
    PROVE  /\ StateOf(o, Append(s, o)) = "waits"
           /\ p # o => StateOf(p, Append(s, o)) = StateOf(p, s)
  <1>1. \A r \in Ops : StateOf(r, Append(s, r)) = "waits"
    BY StateIs
  <1>2. \A r \in Ops \ {p} : StateOf(p, Append(s, r)) = StateOf(p, s)
    BY StateIs
  <1> QED BY <1>1, <1>2

LEMMA TryElements ==
    ASSUME TypeOK, CallbackInv, ElementInv, NEW o \in Ops, NEW a, TryIs(o, a)
    PROVE  ElementInv'
  <1>1. PICK pc : Begins(o, a, pc)
    BY DEF TryIs
  <1>2. /\ op'[o] = a /\ \A p \in Ops \ {o} : op'[p] = op[p]
        /\ op[o].call \notin Call /\ a.call \in Call
    BY <1>1, BeginsIs
  <1>3. op[o].call = <<>> /\ a.call # <<>> /\ a \in Operation /\ op[o].status = "OK"
    BY <1>1, <1>2, NoCallIs DEF Begins, ElementInv
  <1>4. /\ queues' = queues /\ Fresh(a)
        /\ \/ /\ UNCHANGED <<enqueue_attempts, dequeue_attempts>>
              /\ a.call.kind = "enqueue" => a.status # "OK"
           \/ /\ enqueue_attempts' = Append(enqueue_attempts, o)
              /\ dequeue_attempts' = dequeue_attempts
           \/ /\ dequeue_attempts' = Append(dequeue_attempts, o) /\ a.call.kind \in Consuming
              /\ enqueue_attempts' = enqueue_attempts /\ a.status = "OK"
    BY DEF TryIs, SetAttempts, Attempts, Kinds
  <1>5. PICK x2 : x2 = op'
    OBVIOUS
  <1>6. PICK s2 : s2 = enqueue_attempts'
    OBVIOUS
  <1>7. enqueue_attempts \in Seq(Ops) /\ dequeue_attempts \in Seq(Ops) /\ op \in [Ops -> Operation]
    BY DEF TypeOK
  <1>8. LiveOK(dequeue_attempts, x2)
    <2>1. \A i \in 1 .. Len(dequeue_attempts) : dequeue_attempts[i] \in Ops
      BY <1>7, ElementOfSeq
    <2>2. \A i \in 1 .. Len(dequeue_attempts) : dequeue_attempts[i] # o
      BY <1>2 DEF CallbackInv, AttemptsOK
    <2>3. \A i \in 1 .. Len(dequeue_attempts) : x2[dequeue_attempts[i]] = op[dequeue_attempts[i]]
      BY <1>2, <1>5, <2>1, <2>2
    <2>4. \A i \in 1 .. Len(dequeue_attempts) :
             SameAttempt(x2[dequeue_attempts[i]], op[dequeue_attempts[i]])
      BY <2>3 DEF SameAttempt
    <2> QED BY <1>7, <2>4, LiveFrame DEF ElementInv
  <1>9. LiveOK(dequeue_attempts', x2)
    <2>1. CASE dequeue_attempts' = dequeue_attempts
      BY <1>8, <2>1
    <2>2. CASE dequeue_attempts' = Append(dequeue_attempts, o) /\ a.status = "OK"
      <3>1. x2[o].status = "OK" /\ x2[o].tuple = <<>>
        BY <1>2, <1>4, <1>5, <2>2 DEF Fresh
      <3> QED BY <1>7, <1>8, <2>2, <3>1, LiveAppend
    <2> QED BY <1>4, <2>1, <2>2
  <1>10. ASSUME NEW p \in Ops
         PROVE  SameElements(x2[p], StateOf(p, s2), op[p], StateOf(p, enqueue_attempts))
    <2>1. CASE p # o
      <3>1. StateOf(p, Append(enqueue_attempts, o)) = StateOf(p, enqueue_attempts)
        BY <1>7, <2>1, StateAppend
      <3>2. s2 = enqueue_attempts \/ s2 = Append(enqueue_attempts, o)
        BY <1>4, <1>6
      <3>3. StateOf(p, s2) = StateOf(p, enqueue_attempts)
        BY <3>1, <3>2
      <3> QED BY <1>2, <1>5, <2>1, <3>3 DEF SameElements
    <2>2. CASE p = o
      <3>1. a.call.kind = "enqueue" /\ a.status = "OK" => StateOf(o, s2) = "waits"
        <4>1. a.call.kind = "enqueue" /\ a.status = "OK" => s2 = Append(enqueue_attempts, o)
          BY <1>4, <1>6 DEF Consuming
        <4>2. StateOf(o, Append(enqueue_attempts, o)) = "waits"
          BY <1>7, StateAppend
        <4> QED BY <4>1, <4>2
      <3>2. SameElements(a, StateOf(o, s2), op[o], StateOf(o, enqueue_attempts))
        BY <1>2, <1>3, <1>4, <1>7, <3>1, FreshElements
      <3> QED BY <1>2, <1>5, <2>2, <3>2
    <2> QED BY <2>1, <2>2
  <1>11. ElementsOK(queues[1], x2, s2)
    BY <1>10, ElementsFrame DEF ElementInv
  <1>12. \A p \in Ops : x2[p].call = <<>> => x2[p].status = "OK"
    BY <1>2, <1>3, <1>5 DEF ElementInv
  <1> QED BY <1>4, <1>5, <1>6, <1>9, <1>11, <1>12 DEF ElementInv

(* Attempts that wait are cancelled, and a Close may begin.                *)
LEMMA CancelledElements ==
    ASSUME NEW a \in Operation, a.call \in Call, a.status = "OK", NEW s,
           a.call.kind = "enqueue" => s = "waits"
    PROVE  /\ SameElements(Cancelled(a), s, a, s) /\ Cancelled(a).call = a.call
           /\ Cancelled(a).is_cancelled
  <1>1. PICK b : b = Cancelled(a)
    OBVIOUS
  <1>2. b = [[a EXCEPT !.status = "CANCELLED"] EXCEPT !.is_cancelled = TRUE, !.done_callback = "null"]
    BY <1>1 DEF Cancelled, SetStatus
  <1>3. /\ b.call = a.call /\ b.tuple = a.tuple /\ b.elements_requested = a.elements_requested
        /\ b.status = "CANCELLED" /\ b.is_cancelled
    BY <1>2 DEF Operation
  <1>4. TakenOf(b) = TakenOf(a)
    BY <1>3 DEF TakenOf
  <1>5. PutOf(b, s) = PutOf(a, s)
    <2>1. "waits" # "over" /\ "CANCELLED" # "OK"
      OBVIOUS
    <2> QED BY <1>3, <2>1 DEF PutOf
  <1>6. ~Damaged(a)
    BY DEF Damaged
  <1> QED BY <1>1, <1>3, <1>4, <1>5, <1>6 DEF SameElements

CancelsOne(b, a, s) ==
    /\ b = Cancelled(a) /\ a.call \in Call /\ a.status = "OK"
    /\ a.call.kind = "enqueue" => s = "waits"
ClosesOne(b, a) ==
    /\ a.call = <<>> /\ b.call \in Call /\ b.call.kind = "close_cancel" /\ b.status = "OK"

LEMMA CancelsElements ==
    ASSUME TypeOK, CallbackInv, ElementInv,
           UNCHANGED <<queues, enqueue_attempts, dequeue_attempts>>,
           \A p \in Ops : \/ op'[p] = op[p] \/ ClosesOne(op'[p], op[p])
                          \/ CancelsOne(op'[p], op[p], StateOf(p, enqueue_attempts))
    PROVE  ElementInv'
  <1>1. PICK x2 : x2 = op'
    OBVIOUS
  <1>2. dequeue_attempts \in Seq(Ops) /\ op \in [Ops -> Operation]
    BY DEF TypeOK
  <1>3. ASSUME NEW p \in Ops
        PROVE  /\ SameElements(x2[p], StateOf(p, enqueue_attempts), op[p], StateOf(p, enqueue_attempts))
               /\ op[p].call \in Call => x2[p].is_cancelled \/ SameAttempt(x2[p], op[p])
               /\ x2[p].call = <<>> => x2[p].status = "OK"
    <2>1. CASE x2[p] = op[p]
      BY <2>1 DEF SameElements, SameAttempt, ElementInv
    <2>2. CASE ClosesOne(x2[p], op[p])
      <3>1. op[p].call = <<>> /\ op[p].status = "OK" /\ x2[p].call # <<>>
        BY <2>2, NoCallIs DEF ClosesOne, ElementInv
      <3>2. x2[p].call.kind = "close_cancel" /\ x2[p].status = "OK"
        BY <2>2 DEF ClosesOne
      <3>3. SameElements(x2[p], StateOf(p, enqueue_attempts), op[p], StateOf(p, enqueue_attempts))
        BY <3>1, <3>2 DEF SameElements, TakenOf, PutOf, Damaged, Consuming
      <3> QED BY <3>1, <3>3, NoCallIs
    <2>3. CASE CancelsOne(x2[p], op[p], StateOf(p, enqueue_attempts))
      <3>1. /\ SameElements(x2[p], StateOf(p, enqueue_attempts), op[p], StateOf(p, enqueue_attempts))
            /\ x2[p].call = op[p].call /\ x2[p].is_cancelled /\ op[p].call \in Call
        BY <1>2, <2>3, CancelledElements DEF CancelsOne
      <3> QED BY <3>1, NoCallIs
    <2> QED BY <1>1, <2>1, <2>2, <2>3
  <1>4. LiveOK(dequeue_attempts, x2)
    <2>1. \A i \in 1 .. Len(dequeue_attempts) :
             dequeue_attempts[i] \in Ops /\ op[dequeue_attempts[i]].call \in Call
      BY <1>2, ElementOfSeq DEF CallbackInv, AttemptsOK
    <2>2. \A i \in 1 .. Len(dequeue_attempts) :
             \/ x2[dequeue_attempts[i]].is_cancelled
             \/ SameAttempt(x2[dequeue_attempts[i]], op[dequeue_attempts[i]])
      BY <1>3, <2>1
    <2> QED BY <1>2, <2>2, LiveFrame DEF ElementInv
  <1>5. ElementsOK(queues[1], x2, enqueue_attempts)
    BY <1>3, ElementsFrame DEF ElementInv
  <1> QED BY <1>1, <1>3, <1>4, <1>5 DEF ElementInv

(* A live attempt has no error.                                            *)
LEMMA LiveStatus ==
    ASSUME TypeOK, CallbackInv, ElementInv, NEW action \in {"enqueue", "dequeue"},
           NEW i \in 1 .. Len(Attempts(action)), NEW p, p = Attempts(action)[i],
           ~op[p].is_cancelled
    PROVE  /\ p \in Ops /\ op[p].call \in Call /\ op[p].call.kind \in Kinds(action)
           /\ op[p].status = "OK" /\ Waiting(op[p])
           /\ op[p].call.kind = "dequeue" => op[p].tuple = <<>>
           /\ op[p].call.kind = "enqueue" => StateOf(p, enqueue_attempts) = "waits"
  <1>1. p \in Ops /\ Waiting(op[p]) /\ op[p].call \in Call
    BY AttemptWaits
  <1>2. Attempts(action) \in Seq(Ops) /\ AttemptsOK(Attempts(action), Kinds(action), op)
    BY AttemptsTyped DEF Kinds
  <1>3. op[p].call.kind \in Kinds(action)
    BY <1>2 DEF AttemptsOK
  <1>4. CASE action = "enqueue"
    <2>1. op[p].status = "OK"
      BY <1>1, <1>3, <1>4 DEF Waiting, Kinds, Producing
    <2>2. StateOf(p, enqueue_attempts) = "waits"
      BY <1>1, <1>2, <1>4, StateIs DEF Attempts
    <2> QED BY <1>1, <1>3, <1>4, <2>1, <2>2 DEF Kinds, Producing
  <1>5. CASE action = "dequeue"
    <2>1. op[p].status = "OK" /\ (op[p].call.kind = "dequeue" => op[p].tuple = <<>>)
      BY <1>5 DEF ElementInv, LiveOK, Attempts
    <2> QED BY <1>1, <1>3, <1>5, <2>1 DEF Kinds, Consuming
  <1> QED BY <1>4, <1>5

LEMMA CancelElements ==
    ASSUME TypeOK, CallbackInv, ElementInv, NEW o \in Ops, Cancel(o) PROVE ElementInv'
  <1>1. UNCHANGED <<queues, enqueue_attempts, dequeue_attempts>>
    BY DEF Cancel
  <1>2. CASE op' = op
    BY <1>1, <1>2, CancelsElements
  <1>3. CASE op' # op
    <2>1. PICK action \in {"enqueue", "dequeue"} :
             action = IF Kind(o) \in {"enqueue", "enqueue_many"} THEN "enqueue" ELSE "dequeue"
      OBVIOUS
    <2>2. PICK q \in FirstMatch(Attempts(action), o) :
             ~op[q].is_cancelled /\ op' = [op EXCEPT ![q] = Cancelled(@)]
      BY <1>3, <2>1 DEF Cancel
    <2>3. Attempts(action) \in Seq(Ops) /\ op \in [Ops -> Operation]
      BY AttemptsTyped DEF TypeOK
    <2>4. PICK i \in 1 .. Len(Attempts(action)) : q = Attempts(action)[i]
      BY <2>2, <2>3, LenProperties DEF FirstMatch
    <2>5. /\ q \in Ops /\ op[q].call \in Call /\ op[q].status = "OK"
          /\ op[q].call.kind = "enqueue" => StateOf(q, enqueue_attempts) = "waits"
      BY <2>2, <2>4, LiveStatus
    <2>6. op'[q] = Cancelled(op[q]) /\ \A p \in Ops \ {q} : op'[p] = op[p]
      BY <2>2, <2>3, <2>5
    <2>7. CancelsOne(op'[q], op[q], StateOf(q, enqueue_attempts))
      BY <2>5, <2>6 DEF CancelsOne
    <2>8. \A p \in Ops : op'[p] = op[p] \/ CancelsOne(op'[p], op[p], StateOf(p, enqueue_attempts))
      BY <2>6, <2>7
    <2> QED BY <1>1, <2>8, CancelsElements
  <1> QED BY <1>2, <1>3

LEMMA CloseAndCancelElements ==
    ASSUME TypeOK, CallbackInv, ElementInv, NEW o \in Ops, CloseAndCancel(o) PROVE ElementInv'
  <1>1. UNCHANGED <<queues, enqueue_attempts, dequeue_attempts>> /\ op[o].call = <<>>
    BY DEF CloseAndCancel, Started
  <1>2. PICK c \in Calls[o] :
           /\ c.kind = "close_cancel"
           /\ op' = [p \in Ops |-> IF p = o THEN NewOp(c)
                                   ELSE IF \E i \in DOMAIN ToCancel : ToCancel[i] = p
                                        THEN Cancelled(op[p]) ELSE op[p]]
    BY DEF CloseAndCancel
  <1>3. ClosesOne(op'[o], op[o])
    <2>1. NewOp(c).call = c /\ c \in Call /\ NewOp(c).status = "OK"
      BY NewOpIs
    <2>2. op'[o] = NewOp(c)
      BY <1>2
    <2> QED BY <1>1, <1>2, <2>1, <2>2 DEF ClosesOne
  <1>4. ASSUME NEW p \in Ops \ {o}
        PROVE  op'[p] = op[p] \/ CancelsOne(op'[p], op[p], StateOf(p, enqueue_attempts))
    <2>1. CASE \E i \in DOMAIN ToCancel : ToCancel[i] = p
      <3>1. PICK k \in 1 .. Len(ToCancel) : ToCancel[k] = p
        BY <2>1, ToCancelIs DEF TypeOK
      <3>2. PICK i \in 1 .. Len(enqueue_attempts) : p = enqueue_attempts[i] /\ ~op[p].is_cancelled
        BY <3>1, ToCancelIs DEF TypeOK
      <3>3. PICK action \in {"enqueue", "dequeue"} : action = "enqueue"
        OBVIOUS
      <3>4. Attempts(action) = enqueue_attempts
        BY <3>3 DEF Attempts
      <3>5. /\ op[p].call \in Call /\ op[p].status = "OK"
            /\ op[p].call.kind = "enqueue" => StateOf(p, enqueue_attempts) = "waits"
        BY <3>2, <3>4, LiveStatus
      <3>6. op'[p] = Cancelled(op[p])
        BY <1>2, <2>1
      <3> QED BY <3>5, <3>6 DEF CancelsOne
    <2>2. CASE ~(\E i \in DOMAIN ToCancel : ToCancel[i] = p)
      BY <1>2, <2>2
    <2> QED BY <2>1, <2>2
  <1> QED BY <1>1, <1>3, <1>4, CancelsElements

(* What RunAttempt does to the front attempt o, of which the run callback  *)
(* and the move of the done callback make d.                               *)
Runs(action, o, d, result) ==
    /\ Attempts(action) # <<>> /\ o = Head(Attempts(action))
    /\ op[o].call \in Call /\ op[o].call.kind \in Kinds(action) /\ op[o].status = "OK"
    /\ d.call = op[o].call /\ op' = [op EXCEPT ![o] = d]
    /\ queues'[1] \in Seq(Item)
    /\ RunConserves(result, queues', d, op[o], o)
    /\ \/ result = "kComplete" /\ SetAttempts(action, Tail(Attempts(action)))
       \/ result # "kComplete" /\ UNCHANGED <<enqueue_attempts, dequeue_attempts>>

LEMMA RunsIs ==
    ASSUME TypeOK, CallbackInv, ElementInv, NEW t \in Threads,
           NEW action \in {"enqueue", "dequeue"}, RunAttempt(t, action)
    PROVE  \E o \in Ops, d \in Operation : \E result : Runs(action, o, d, result)
  <1>1. PICK o : o = Head(Attempts(action))
    OBVIOUS
  <1>2. PICK r : r = run_callback(o)
    OBVIOUS
  <1>3. /\ Attempts(action) # <<>> /\ ~op[o].is_cancelled /\ queues' = r.queues
        /\ \/ /\ r.result = "kComplete" /\ SetAttempts(action, Tail(Attempts(action)))
              /\ op' = [op EXCEPT ![o] = [r.attempt EXCEPT !.done_callback = "null"]]
           \/ /\ r.result # "kComplete" /\ UNCHANGED <<enqueue_attempts, dequeue_attempts>>
              /\ op' = [op EXCEPT ![o] = r.attempt]
    BY <1>1, <1>2 DEF RunAttempt
  <1>4. o = Attempts(action)[1] /\ 1 \in 1 .. Len(Attempts(action))
    <2>1. Attempts(action) \in Seq(Ops)
      BY AttemptsTyped
    <2> QED BY <1>1, <1>3, <2>1, FrontAndRest
  <1>5. /\ o \in Ops /\ op[o].call \in Call /\ op[o].call.kind \in Kinds(action)
        /\ op[o].status = "OK" /\ Waiting(op[o])
        /\ op[o].call.kind = "dequeue" => op[o].tuple = <<>>
    BY <1>3, <1>4, LiveStatus
  <1>6. op[o].call.kind \in Producing \cup Consuming
    BY <1>5 DEF Kinds
  <1>7. RunConserves(r.result, r.queues, r.attempt, op[o], o)
    BY <1>2, <1>5, <1>6, RunCallbackConserves
  <1>8. RunOK(r, op[o])
    BY <1>2, <1>5, <1>6, RunCallbackOK
  <1>9. PICK b \in Operation : b = r.attempt /\ b.call = op[o].call
    BY <1>8 DEF RunOK, RunIs, SameCall
  <1>10. queues'[1] \in Seq(Item)
    <2>1. queues' \in Queues
      BY <1>3, <1>8 DEF RunOK, RunIs
    <2> QED BY <2>1, QueueAssumption DEF Queues
  <1>11. PICK d \in Operation :
           /\ op' = [op EXCEPT ![o] = d] /\ d.call = b.call /\ d.status = b.status
           /\ d.tuple = b.tuple /\ d.elements_requested = b.elements_requested
    <2>1. PICK c \in Operation :
             /\ c = [b EXCEPT !.done_callback = "null"] /\ SameCall(c, b) /\ c.status = b.status
             /\ c.tuple = b.tuple /\ c.elements_requested = b.elements_requested
      BY MovedIs
    <2>2. CASE op' = [op EXCEPT ![o] = b]
      BY <2>2
    <2>3. CASE op' = [op EXCEPT ![o] = c]
      BY <2>1, <2>3 DEF SameCall
    <2> QED BY <1>3, <1>9, <2>1, <2>2, <2>3
  <1>12. TakenOf(d) = TakenOf(b) /\ (Damaged(d) <=> Damaged(b)) /\ \A s : PutOf(d, s) = PutOf(b, s)
    BY <1>11 DEF TakenOf, PutOf, Damaged
  <1>13. RunConserves(r.result, queues', d, op[o], o)
    <2>1. RunConserves(r.result, queues', b, op[o], o)
      BY <1>3, <1>7, <1>9
    <2>2. ASSUME NEW q, Moves(q, b, op[o]) PROVE Moves(q, d, op[o])
      BY <1>12, <2>2 DEF Moves
    <2>3. ASSUME NEW q, NEW s, Puts(q, b, s, op[o], o) PROVE Puts(q, d, s, op[o], o)
      BY <1>12, <2>3 DEF Puts
    <2> QED BY <1>11, <1>12, <2>1, <2>2, <2>3 DEF RunConserves
  <1>14. Runs(action, o, d, r.result)
    BY <1>1, <1>3, <1>5, <1>9, <1>10, <1>11, <1>13 DEF Runs
  <1> QED BY <1>5, <1>14

LEMMA RunLive ==
    ASSUME TypeOK, CallbackInv, ElementInv, NEW action \in {"enqueue", "dequeue"},
           NEW o \in Ops, NEW d \in Operation, NEW result, Runs(action, o, d, result)
    PROVE  LiveOK(dequeue_attempts', op')
  <1>1. PICK x2 : x2 = op'
    OBVIOUS
  <1>2. op \in [Ops -> Operation] /\ dequeue_attempts \in Seq(Ops)
    BY DEF TypeOK
  <1>3. x2[o] = d /\ d.call = op[o].call /\ \A p \in Ops \ {o} : x2[p] = op[p]
    BY <1>1, <1>2 DEF Runs
  <1>4. AttemptsOK(dequeue_attempts, Consuming, op) /\ LiveOK(dequeue_attempts, op)
    BY DEF CallbackInv, ElementInv
  <1>5. ASSUME NEW s \in Seq(Ops), LiveOK(s, op), \A i \in 1 .. Len(s) : s[i] # o
        PROVE  LiveOK(s, x2)
    <2>1. \A i \in 1 .. Len(s) : x2[s[i]] = op[s[i]]
      BY <1>3, <1>5, ElementOfSeq
    <2>2. \A i \in 1 .. Len(s) : SameAttempt(x2[s[i]], op[s[i]])
      BY <2>1 DEF SameAttempt
    <2> QED BY <1>5, <2>2, LiveFrame
  <1>6. CASE action = "enqueue"
    <2>1. dequeue_attempts' = dequeue_attempts
      BY <1>6 DEF Runs, SetAttempts
    <2>2. \A i \in 1 .. Len(dequeue_attempts) : dequeue_attempts[i] # o
      <3>1. op[o].call.kind \notin Consuming
        BY <1>6 DEF Runs, Kinds, Producing, Consuming
      <3> QED BY <1>4, <3>1 DEF AttemptsOK
    <2>3. LiveOK(dequeue_attempts, x2)
      BY <1>2, <1>4, <1>5, <2>2
    <2> QED BY <1>1, <2>1, <2>3
  <1>7. CASE action = "dequeue" /\ result = "kComplete"
    <2>1. /\ dequeue_attempts # <<>> /\ o = Head(dequeue_attempts)
          /\ dequeue_attempts' = Tail(dequeue_attempts)
      BY <1>7 DEF Runs, SetAttempts, Attempts
    <2>2. PICK s \in Seq(Ops) : s = Tail(dequeue_attempts)
      BY <1>2, <2>1, FrontAndRest
    <2>3. \A i \in 1 .. Len(s) : s[i] # o
      BY <1>2, <1>4, <2>1, <2>2, AttemptsTail
    <2>4. LiveOK(s, op)
      BY <1>2, <1>4, <2>1, <2>2, LiveTail
    <2>5. LiveOK(s, x2)
      BY <1>5, <2>3, <2>4
    <2> QED BY <1>1, <2>1, <2>2, <2>5
  <1>8. CASE action = "dequeue" /\ result # "kComplete"
    <2>1. dequeue_attempts' = dequeue_attempts
      BY <1>8 DEF Runs
    <2>2. d.status = "OK" /\ (d.call.kind = "dequeue" => d.tuple = <<>>)
      BY <1>3, <1>8 DEF Runs, RunConserves
    <2>3. \A i \in 1 .. Len(dequeue_attempts) : dequeue_attempts[i] \in Ops
      BY <1>2, ElementOfSeq
    <2>4. ASSUME NEW i \in 1 .. Len(dequeue_attempts), ~x2[dequeue_attempts[i]].is_cancelled
          PROVE  /\ x2[dequeue_attempts[i]].status = "OK"
                 /\ x2[dequeue_attempts[i]].call.kind = "dequeue" => x2[dequeue_attempts[i]].tuple = <<>>
      <3>1. CASE dequeue_attempts[i] = o
        BY <1>3, <2>2, <3>1
      <3>2. CASE dequeue_attempts[i] # o
        <4>1. x2[dequeue_attempts[i]] = op[dequeue_attempts[i]]
          BY <1>3, <2>3, <3>2
        <4> QED BY <1>4, <2>4, <4>1 DEF LiveOK
      <3> QED BY <3>1, <3>2
    <2>5. LiveOK(dequeue_attempts, x2)
      BY <2>4 DEF LiveOK
    <2> QED BY <1>1, <2>1, <2>5
  <1> QED BY <1>6, <1>7, <1>8

LEMMA RunPut ==
    ASSUME TypeOK, CallbackInv, ElementInv, NEW action \in {"enqueue", "dequeue"},
           NEW o \in Ops, NEW d \in Operation, NEW result, Runs(action, o, d, result)
    PROVE  ElementsOK(queues'[1], op', enqueue_attempts')
  <1>1. PICK x2, s2, q2 : x2 = op' /\ s2 = enqueue_attempts' /\ q2 = queues'
    OBVIOUS
  <1>2. op \in [Ops -> Operation] /\ enqueue_attempts \in Seq(Ops) /\ queues[1] \in Seq(Item)
    BY QueueAssumption DEF TypeOK, Item
  <1>3. /\ x2[o] = d /\ d.call = op[o].call /\ \A p \in Ops \ {o} : x2[p] = op[p]
        /\ x2 \in [Ops -> Operation] /\ q2[1] \in Seq(Item)
    BY <1>1, <1>2 DEF Runs
  <1>4. /\ op[o].call \in Call /\ op[o].call.kind \in Kinds(action) /\ op[o].status = "OK"
        /\ op[o].call # <<>>
    BY NoCallIs DEF Runs
  <1>5. SUFFICES ASSUME Undamaged(x2)
                 PROVE  /\ PutByAll(x2, s2) \in [Ops -> Nat]
                        /\ Conserved(q2[1], HeldBy(x2), PutByAll(x2, s2))
    BY <1>1 DEF ElementsOK
  <1>6. ~Damaged(d)
    BY <1>3, <1>5 DEF Undamaged
  <1>7. Undamaged(op)
    <2>1. ~Damaged(op[o])
      BY <1>4 DEF Damaged
    <2> QED BY <1>3, <1>5, <2>1 DEF Undamaged
  <1>8. PICK m \in [Ops -> Nat] :
           m = PutByAll(op, enqueue_attempts) /\ Conserved(queues[1], HeldBy(op), m)
    BY <1>7 DEF ElementInv, ElementsOK
  <1>9. \A p \in Ops : m[p] = PutOf(op[p], StateOf(p, enqueue_attempts))
    BY <1>8 DEF PutByAll
  <1>10. HeldBy(op) \in [Ops -> Seq(Slice)] /\ HeldBy(x2) \in [Ops -> Seq(Slice)]
         /\ \A p \in Ops : HeldBy(op)[p] = TakenOf(op[p]) /\ HeldBy(x2)[p] = TakenOf(x2[p])
    BY <1>2, <1>3, HeldByTyped
  <1>11. CASE action = "dequeue"
    <2>1. op[o].call.kind \in Consuming /\ s2 = enqueue_attempts
      BY <1>1, <1>4, <1>11 DEF Kinds, Runs, SetAttempts
    <2>2. Moves(q2, d, op[o])
      BY <1>1, <1>6, <2>1 DEF Runs, RunConserves
    <2>3. HeldBy(op)[o] = op[o].tuple
      BY <1>2, <1>4, <1>10, <2>1, ConsumerTaken
    <2>4. Line(HeldBy(x2)[o], q2[1]) = Line(HeldBy(op)[o], queues[1])
      BY <1>3, <1>10, <2>2, <2>3 DEF Moves
    <2>5. \A p \in Ops \ {o} : HeldBy(x2)[p] = HeldBy(op)[p]
      BY <1>3, <1>10
    <2>6. Conserved(q2[1], HeldBy(x2), m)
      <3>1. PICK T \in [Ops -> Seq(Slice)], T2 \in [Ops -> Seq(Slice)] : T = HeldBy(op) /\ T2 = HeldBy(x2)
        BY <1>10
      <3>2. PICK q \in Seq(Item), r \in Seq(Item) : q = queues[1] /\ r = q2[1]
        BY <1>2, <1>3
      <3>3. /\ Conserved(q, T, m) /\ Line(T2[o], r) = Line(T[o], q)
            /\ \A p \in Ops \ {o} : T2[p] = T[p]
        BY <1>8, <2>4, <2>5, <3>1, <3>2
      <3>4. Conserved(r, T2, m)
        BY ONLY <3>3, MovesConserve
      <3> QED BY <3>1, <3>2, <3>4
    <2>7. ASSUME NEW p \in Ops
          PROVE  PutOf(x2[p], StateOf(p, enqueue_attempts)) = PutOf(op[p], StateOf(p, enqueue_attempts))
      <3>1. CASE p = o
        BY <1>3, <2>1, <3>1 DEF PutOf, Consuming
      <3> QED BY <1>3, <3>1
    <2>8. PutByAll(x2, s2) = m
      BY <1>8, <2>1, <2>7 DEF PutByAll
    <2> QED BY <2>6, <2>8
  <1>12. CASE action = "enqueue"
    <2>1. op[o].call.kind \in Producing /\ op[o].call.kind \notin Consuming
      BY <1>4, <1>12 DEF Kinds, Producing, Consuming
    <2>2. PICK st : /\ st = IF result = "kComplete" THEN "over" ELSE "waits"
                    /\ Puts(q2, d, st, op[o], o)
      BY <1>1, <1>6, <2>1 DEF Runs, RunConserves
    <2>3. /\ enqueue_attempts # <<>> /\ o = Head(enqueue_attempts)
          /\ \/ result = "kComplete" /\ s2 = Tail(enqueue_attempts)
             \/ result # "kComplete" /\ s2 = enqueue_attempts
      BY <1>1, <1>12 DEF Runs, SetAttempts, Attempts
    <2>4. \A i, j \in 1 .. Len(enqueue_attempts) : enqueue_attempts[i] = enqueue_attempts[j] => i = j
      BY DEF CallbackInv, AttemptsOK
    <2>5. StateOf(o, enqueue_attempts) = "waits" /\ StateOf(o, Tail(enqueue_attempts)) = "over"
      BY <1>2, <2>3, <2>4, StateIs
    <2>6. StateOf(o, s2) = st
      BY <2>2, <2>3, <2>5
    <2>7. ASSUME NEW p \in Ops \ {o} PROVE StateOf(p, s2) = StateOf(p, enqueue_attempts)
      <3>1. StateOf(p, Tail(enqueue_attempts)) = StateOf(p, enqueue_attempts)
        BY <1>2, <2>3, StateIs
      <3> QED BY <2>3, <3>1
    <2>8. m[o] = PutOf(op[o], "waits")
      BY <1>9, <2>5
    <2>9. PICK n \in Nat : /\ q2[1] = queues[1] \o Slices(o, m[o] + 1, m[o] + n)
                           /\ PutOf(d, st) = m[o] + n
      BY <2>2, <2>8 DEF Puts
    <2>10. PICK m2 : m2 = PutByAll(x2, s2)
      OBVIOUS
    <2>11. m2[o] = m[o] + n
      BY <1>3, <2>6, <2>9, <2>10 DEF PutByAll
    <2>12. \A p \in Ops \ {o} : m2[p] = m[p]
      BY <1>3, <1>9, <2>7, <2>10 DEF PutByAll
    <2>13. m2 \in [Ops -> Nat]
      <3>1. m[o] + n \in Nat
        OBVIOUS
      <3>2. \A p \in Ops : m2[p] \in Nat
        BY <2>11, <2>12, <3>1
      <3> QED BY <2>10, <3>2 DEF PutByAll
    <2>14. HeldBy(x2) = HeldBy(op)
      <3>1. ASSUME NEW p \in Ops PROVE TakenOf(x2[p]) = TakenOf(op[p])
        <4>1. CASE p = o
          BY <1>3, <2>1, <4>1 DEF TakenOf
        <4> QED BY <1>3, <4>1
      <3> QED BY <3>1 DEF HeldBy
    <2>15. Conserved(queues[1] \o Slices(o, m[o] + 1, m[o] + n), HeldBy(op), m2)
      BY <1>2, <1>8, <1>10, <2>11, <2>12, <2>13, PutsConserve
    <2> QED BY <2>9, <2>10, <2>13, <2>14, <2>15
  <1> QED BY <1>11, <1>12

LEMMA RunElements ==
    ASSUME TypeOK, CallbackInv, ElementInv, NEW t \in Threads,
           NEW action \in {"enqueue", "dequeue"}, RunAttempt(t, action)
    PROVE  ElementInv'
  <1>1. PICK o \in Ops, d \in Operation : \E result : Runs(action, o, d, result)
    BY RunsIs
  <1>2. PICK result : Runs(action, o, d, result)
    BY <1>1
  <1>3. LiveOK(dequeue_attempts', op')
    BY <1>2, RunLive
  <1>4. ElementsOK(queues'[1], op', enqueue_attempts')
    BY <1>2, RunPut
  <1>5. \A p \in Ops : op'[p].call = <<>> => op'[p].status = "OK"
    <2>1. op \in [Ops -> Operation]
      BY DEF TypeOK
    <2>2. op'[o].call # <<>> /\ \A p \in Ops \ {o} : op'[p] = op[p]
      BY <1>2, <2>1, NoCallIs DEF Runs
    <2> QED BY <2>2 DEF ElementInv
  <1> QED BY <1>3, <1>4, <1>5 DEF ElementInv

LEMMA InitElements == ASSUME Init, TypeOK PROVE ElementInv
  <1>1. /\ enqueue_attempts = <<>> /\ dequeue_attempts = <<>> /\ queues[1] = <<>>
        /\ \A p \in Ops : op[p].call = <<>> /\ op[p].status = "OK"
    <2>1. \A p \in Ops : op[p] = NoOp
      BY DEF Init
    <2> QED BY <2>1, QueueAssumption DEF Init, NoOp
  <1>2. \A i : i \notin 1 .. Len(<<>>)
    BY EmptySeq
  <1>3. LiveOK(dequeue_attempts, op)
    BY <1>1, <1>2 DEF LiveOK
  <1>4. PICK T, m : T = HeldBy(op) /\ m = PutByAll(op, enqueue_attempts)
    OBVIOUS
  <1>5. ASSUME NEW p \in Ops PROVE T[p] = <<>> /\ m[p] = 0
    <2>1. TakenOf(op[p]) = <<>>
      BY <1>1 DEF TakenOf
    <2>2. \A s : PutOf(op[p], s) = 0
      BY <1>1 DEF PutOf
    <2>3. T[p] = TakenOf(op[p]) /\ m[p] = PutOf(op[p], StateOf(p, enqueue_attempts))
      BY <1>4 DEF HeldBy, PutByAll
    <2> QED BY <2>1, <2>2, <2>3
  <1>6. m \in [Ops -> Nat]
    <2>1. \A p \in Ops : m[p] \in Nat
      BY <1>5
    <2> QED BY <1>4, <2>1 DEF PutByAll
  <1>7. Unique(queues[1], T)
    BY <1>1, <1>2, <1>5 DEF Unique
  <1>8. ASSUME NEW e PROVE ~Present(queues[1], T, e)
    BY <1>1, <1>2, <1>5 DEF Present
  <1>9. \A p \in Ops : 1 .. m[p] = {}
    BY <1>5
  <1>10. Conserved(queues[1], T, m)
    BY <1>7, <1>8, <1>9 DEF Conserved
  <1>11. ElementsOK(queues[1], op, enqueue_attempts)
    BY <1>4, <1>6, <1>10 DEF ElementsOK
  <1> QED BY <1>1, <1>3, <1>11 DEF ElementInv

LEMMA NextElements ==
    ASSUME TypeOK, QueueInv, ElementInv, [Next]_vars PROVE ElementInv'
  <1> CallbackInv /\ LateInv
    BY DEF QueueInv
  <1>1. ASSUME NEW o \in Ops, TryEnqueue(o) \/ TryDequeue(o) \/ Close(o) PROVE ElementInv'
    BY <1>1, TriesAre, TryElements
  <1>2. ASSUME NEW o \in Ops, CloseAndCancel(o) PROVE ElementInv'
    BY <1>2, CloseAndCancelElements
  <1>3. ASSUME NEW o \in Ops, Cancel(o) PROVE ElementInv'
    BY <1>3, CancelElements
  <1>4. ASSUME UNCHANGED <<queues, enqueue_attempts, dequeue_attempts, op>> PROVE ElementInv'
    BY <1>4, CancelsElements
  <1>5. ASSUME NEW t \in Threads, Step(t) PROVE ElementInv'
    <2>1. CASE CallCallback(t) \/ Lock(t) \/ CleanUp(t) \/ Return(t)
      BY <2>1, ThreadElements
    <2>2. ASSUME NEW action \in {"enqueue", "dequeue"}, SkipCancelled(t, action) PROVE ElementInv'
      BY <2>2, SkipElements
    <2>3. ASSUME NEW action \in {"enqueue", "dequeue"}, RunAttempt(t, action) PROVE ElementInv'
      BY <2>3, RunElements
    <2>4. ASSUME NEW action \in {"enqueue", "dequeue"}, NoAttempt(t, action) PROVE ElementInv'
      BY <1>4, <2>4 DEF NoAttempt
    <2> QED BY <1>5, <2>1, <2>2, <2>3, <2>4 DEF Step
  <1>6. ASSUME NEW m \in Managers, StartCancel(m) \/ CancelDone(m) \/ NextStep(m) PROVE ElementInv'
    BY <1>4, <1>6 DEF StartCancel, CancelDone, NextStep
  <1>7. CASE UNCHANGED vars
    BY <1>4, <1>7 DEF vars
  <1> QED BY <1>1, <1>2, <1>3, <1>5, <1>6, <1>7 DEF Next

(* Until an element is damaged, the queue and what the consumers hold are  *)
(* made of exactly the elements that were put into the queue, each of them *)
(* once (fifo_queue.cc:75-356): what a batch collects and gives back, and  *)
(* what a consumer keeps that is cancelled, or whose copy to the batch     *)
(* fails (:332-334), included.                                             *)
THEOREM QueueElementInvariant == Spec => []ElementInv
  <1>1. Init => ElementInv
    BY InitInv, InitElements
  <1>2. TypeOK /\ QueueInv /\ ElementInv /\ [Next]_vars => ElementInv'
    BY NextElements
  <1> QED BY <1>1, <1>2, QueueInvariant, PTL DEF Spec

(* The elements as the property names them.                                *)
LEMMA ElementNames ==
    ASSUME TypeOK, ElementInv, NEW p \in Ops
    PROVE  /\ Taken(p) = TakenOf(op[p]) /\ (Damages(p) <=> Damaged(op[p]))
           /\ PutBy(p) = PutOf(op[p], StateOf(p, enqueue_attempts))
  <1>1. Taken(p) = TakenOf(op[p])
    BY DEF Taken, TakenOf, Started, Consumer, Kind, Consuming
  <1>2. Damages(p) <=> Damaged(op[p])
    BY DEF Damages, Damaged, Kind
  <1>3. PutBy(p) = PutOf(op[p], StateOf(p, enqueue_attempts))
    <2>1. CASE ~Started(p)
      BY <2>1 DEF PutBy, PutOf, Started
    <2>2. CASE Started(p) /\ Kind(p) = "enqueue"
      <3>1. PutBy(p) = IF op[p].status = "OK" /\ ~InSeq(p, enqueue_attempts) THEN 1 ELSE 0
        BY <2>2 DEF PutBy
      <3>2. StateOf(p, enqueue_attempts) = "over" <=> ~InSeq(p, enqueue_attempts)
        BY DEF StateOf
      <3> QED BY <2>2, <3>1, <3>2 DEF PutOf, Started, Kind
    <2>3. CASE Started(p) /\ Kind(p) = "enqueue_many"
      <3>1. PutBy(p) = op[p].call.n - op[p].elements_requested
        BY <2>3, PutByMany
      <3> QED BY <2>3, <3>1 DEF PutOf, Started, Kind
    <2>4. CASE Started(p) /\ Kind(p) \notin {"enqueue", "enqueue_many"}
      <3>1. PutBy(p) = 0
        BY <2>4 DEF PutBy
      <3> QED BY <2>4, <3>1 DEF PutOf, Started, Kind
    <2> QED BY <2>1, <2>2, <2>3, <2>4
  <1> QED BY <1>1, <1>2, <1>3

(* An element that is present once is in one place.                        *)
LEMMA PlacesAre ==
    ASSUME NEW q \in Seq(Item), q = queues[1], NEW T \in [Ops -> Seq(Slice)],
           \A p \in Ops : Taken(p) = T[p], Unique(q, T), NEW e
    PROVE  Cardinality(Places(e)) = IF Present(q, T, e) THEN 1 ELSE 0
  <1>1. DOMAIN q = 1 .. Len(q) /\ \A p \in Ops : DOMAIN Taken(p) = 1 .. Len(T[p])
    BY LenProperties
  <1>2. ASSUME NEW x
        PROVE  x \in Places(e) <=> \/ \E i \in 1 .. Len(q) : q[i] = e /\ x = <<{}, i>>
                                   \/ \E p \in Ops : \E i \in 1 .. Len(T[p]) :
                                         T[p][i][1] = e /\ x = <<{p}, i>>
    <2>1. x \in {<<{}, i>> : i \in {k \in DOMAIN queues[1] : queues[1][k] = e}} <=>
             \E i \in 1 .. Len(q) : q[i] = e /\ x = <<{}, i>>
      BY <1>1
    <2>2. ASSUME NEW p \in Ops
          PROVE  x \in {<<{p}, i>> : i \in {k \in DOMAIN Taken(p) : Taken(p)[k][1] = e}} <=>
                    \E i \in 1 .. Len(T[p]) : T[p][i][1] = e /\ x = <<{p}, i>>
      BY <1>1
    <2> QED BY <2>1, <2>2 DEF Places
  <1>3. CASE ~Present(q, T, e)
    <2>1. \A x : x \notin Places(e)
      BY <1>2, <1>3 DEF Present
    <2>2. Places(e) = {}
      BY <2>1
    <2> QED BY <1>3, <2>2, FS_EmptySet
  <1>4. ASSUME NEW i \in 1 .. Len(q), q[i] = e PROVE Places(e) = {<<{}, i>>}
    <2>1. \A j \in 1 .. Len(q) : q[j] = e => j = i
      BY <1>4 DEF Unique
    <2>2. \A p \in Ops : \A j \in 1 .. Len(T[p]) : T[p][j][1] # e
      BY <1>4 DEF Unique
    <2>3. \A x : x \in Places(e) <=> x = <<{}, i>>
      BY <1>2, <1>4, <2>1, <2>2
    <2> QED BY <2>3
  <1>5. ASSUME NEW p \in Ops, NEW i \in 1 .. Len(T[p]), T[p][i][1] = e PROVE Places(e) = {<<{p}, i>>}
    <2>1. \A j \in 1 .. Len(q) : q[j] # e
      BY <1>5 DEF Unique
    <2>2. \A r \in Ops : \A j \in 1 .. Len(T[r]) : T[r][j][1] = e => r = p /\ j = i
      BY <1>5 DEF Unique
    <2>3. \A x : x \in Places(e) <=> x = <<{p}, i>>
      BY <1>2, <1>5, <2>1, <2>2
    <2> QED BY <2>3
  <1>6. CASE Present(q, T, e)
    <2>1. \E x : Places(e) = {x}
      BY <1>4, <1>5, <1>6 DEF Present
    <2> QED BY <1>6, <2>1, FS_Singleton
  <1> QED BY <1>3, <1>6

LEMMA ElementsHold == ASSUME TypeOK, ElementInv PROVE ElementsConserved
  <1>1. SUFFICES ASSUME \A p \in Ops : ~Damages(p), NEW o \in Ops,
                        NEW i \in 1 .. (IF Started(o) THEN op[o].call.n ELSE 0)
                 PROVE  Cardinality(Places(<<o, i>>)) = IF i <= PutBy(o) THEN 1 ELSE 0
    BY DEF ElementsConserved
  <1>2. op \in [Ops -> Operation] /\ queues[1] \in Seq(Item)
    BY QueueAssumption DEF TypeOK, Item
  <1>3. Undamaged(op)
    BY <1>1, ElementNames DEF Undamaged
  <1>4. PICK T, m : T = HeldBy(op) /\ m = PutByAll(op, enqueue_attempts)
    OBVIOUS
  <1>5. m \in [Ops -> Nat] /\ Conserved(queues[1], T, m)
    BY <1>3, <1>4 DEF ElementInv, ElementsOK
  <1>6. T \in [Ops -> Seq(Slice)] /\ \A p \in Ops : Taken(p) = T[p]
    BY <1>2, <1>4, HeldByTyped, ElementNames
  <1>7. m[o] = PutBy(o)
    BY <1>4, ElementNames DEF PutByAll
  <1>8. Cardinality(Places(<<o, i>>)) = IF Present(queues[1], T, <<o, i>>) THEN 1 ELSE 0
    BY <1>2, <1>5, <1>6, PlacesAre DEF Conserved
  <1>9. Present(queues[1], T, <<o, i>>) <=> \E p \in Ops : \E k \in 1 .. m[p] : <<o, i>> = <<p, k>>
    BY <1>5 DEF Conserved
  <1>10. i \in Int /\ 1 <= i
    <2>1. ASSUME Started(o) PROVE op[o].call.n \in Nat
      BY <2>1 DEF TypeOK, Operation, Started, Call
    <2>2. PICK n \in Nat : i \in 1 .. n
      BY <2>1
    <2> QED BY <2>2
  <1>11. Present(queues[1], T, <<o, i>>) <=> i <= m[o]
    <2>1. (\E p \in Ops : \E k \in 1 .. m[p] : <<o, i>> = <<p, k>>) <=> i \in 1 .. m[o]
      OBVIOUS
    <2>2. m[o] \in Nat
      BY <1>5
    <2> QED BY <1>9, <1>10, <2>1, <2>2
  <1> QED BY <1>7, <1>8, <1>11

(* Nothing is lost or duplicated, for any number of operations, components *)
(* and any capacity: an element that was enqueued is in exactly one place, *)
(* the queue or what one consumer has taken, and one that was not enqueued *)
(* yet in none (fifo_queue.cc:75-356 with the attempts and cancellation of *)
(* queue_base.cc:188-335).                                                 *)
THEOREM QueueElementsConserved == Spec => []ElementsConserved
  <1>1. TypeOK /\ ElementInv => ElementsConserved
    BY ElementsHold
  <1> QED BY <1>1, QueueInvariant, QueueElementInvariant, PTL

-----------------------------------------------------------------------------
(* The queue is a channel.                                                 *)

LEMMA ConcatParts ==
    ASSUME NEW S, NEW s \in Seq(S), NEW t \in Seq(S)
    PROVE  /\ SubSeq(s \o t, 1, Len(s)) = s
           /\ SubSeq(s \o t, Len(s) + 1, Len(s \o t)) = t
  <1> DEFINE u == s \o t
  <1>1. PICK m \in Nat, n \in Nat : m = Len(s) /\ n = Len(t)
    BY LenProperties
  <1>2. /\ u \in Seq(S) /\ Len(u) = m + n
        /\ \A i \in 1 .. m + n : u[i] = IF i <= m THEN s[i] ELSE t[i - m]
    <2>1. /\ s \o t \in Seq(S) /\ Len(s \o t) = Len(s) + Len(t)
          /\ \A i \in 1 .. Len(s) + Len(t) :
                (s \o t)[i] = IF i <= Len(s) THEN s[i] ELSE t[i - Len(s)]
      BY ConcatProperties, Zenon
    <2> QED BY <1>1, <2>1
  <1> HIDE DEF u
  <1>3. \A i \in 1 .. m + n : u[i] \in S
    BY <1>2, ElementOfSeq
  <1>4. SubSeq(u, 1, m) = s
    <2>1. \A i \in 1 .. m : u[i] \in S
      BY <1>3
    <2>2. /\ SubSeq(u, 1, m) \in Seq(S) /\ Len(SubSeq(u, 1, m)) = IF 1 <= m THEN m - 1 + 1 ELSE 0
          /\ \A i \in 1 .. m - 1 + 1 : SubSeq(u, 1, m)[i] = u[1 + i - 1]
      BY <2>1, SubSeqProperties
    <2>3. Len(SubSeq(u, 1, m)) = m
      BY <2>2
    <2>4. ASSUME NEW i \in 1 .. m PROVE SubSeq(u, 1, m)[i] = s[i]
      <3>1. i \in 1 .. m - 1 + 1 /\ 1 + i - 1 = i /\ i \in 1 .. m + n /\ i <= m
        OBVIOUS
      <3> QED BY <1>2, <2>2, <3>1
    <2> QED BY <1>1, <2>2, <2>3, <2>4, SeqEqual
  <1>5. SubSeq(u, m + 1, m + n) = t
    <2>1. \A i \in m + 1 .. m + n : u[i] \in S
      BY <1>3
    <2>2. /\ SubSeq(u, m + 1, m + n) \in Seq(S)
          /\ Len(SubSeq(u, m + 1, m + n)) = IF m + 1 <= m + n THEN (m + n) - (m + 1) + 1 ELSE 0
          /\ \A i \in 1 .. (m + n) - (m + 1) + 1 : SubSeq(u, m + 1, m + n)[i] = u[(m + 1) + i - 1]
      BY <2>1, SubSeqProperties
    <2>3. Len(SubSeq(u, m + 1, m + n)) = n
      BY <2>2
    <2>4. ASSUME NEW i \in 1 .. n PROVE SubSeq(u, m + 1, m + n)[i] = t[i]
      <3>1. /\ i \in 1 .. (m + n) - (m + 1) + 1 /\ (m + 1) + i - 1 = m + i
            /\ m + i \in 1 .. m + n /\ ~(m + i <= m) /\ (m + i) - m = i
        OBVIOUS
      <3> QED BY <1>2, <2>2, <3>1
    <2> QED BY <1>1, <2>2, <2>3, <2>4, SeqEqual
  <1> QED BY <1>1, <1>2, <1>4, <1>5 DEF u

LEMMA FirstComponentIs ==
    ASSUME NEW t \in Seq(Slice), NEW q \in Seq(Item)
    PROVE  /\ FirstComponent(t) \in Seq(Item) /\ Len(FirstComponent(t)) = Len(t)
           /\ FirstComponent(t) \o q \in Seq(Item)
           /\ FirstComponent(t) \o q = Line(t, q)
           /\ t = <<>> => FirstComponent(t) = <<>> /\ FirstComponent(t) \o q = q
  <1>1. PICK m \in Nat, n \in Nat : m = Len(t) /\ n = Len(q)
    BY LenProperties
  <1>2. PICK f : f = FirstComponent(t) /\ f = [i \in 1 .. m |-> t[i][1]]
    BY <1>1, LenProperties DEF FirstComponent
  <1>3. f \in [1 .. m -> Item]
    <2>1. \A i \in 1 .. m : t[i] \in Slice
      BY <1>1, ElementOfSeq
    <2>2. 1 \in 1 .. Components
      BY QueueAssumption
    <2>3. \A u \in Slice : u[1] \in Item
      BY <2>2 DEF Slice, Item
    <2>4. \A i \in 1 .. m : t[i][1] \in Item
      BY <2>1, <2>3
    <2> QED BY <1>2, <2>4
  <1>4. f \in Seq(Item) /\ Len(f) = m
    BY <1>3, MakeSeq
  <1>5. PICK g : g = f \o q
    OBVIOUS
  <1>6. /\ g \in Seq(Item) /\ Len(g) = m + n
        /\ \A i \in 1 .. m + n : g[i] = IF i <= m THEN f[i] ELSE q[i - m]
    <2>1. /\ f \o q \in Seq(Item) /\ Len(f \o q) = Len(f) + Len(q)
          /\ \A i \in 1 .. Len(f) + Len(q) :
                (f \o q)[i] = IF i <= Len(f) THEN f[i] ELSE q[i - Len(f)]
      BY <1>4, ConcatProperties, Zenon
    <2> QED BY <1>1, <1>4, <1>5, <2>1
  <1>7. Line(t, q) = [i \in 1 .. m + n |-> IF i <= m THEN t[i][1] ELSE q[i - m]]
    BY <1>1 DEF Line
  <1>8. g = [i \in 1 .. m + n |-> g[i]]
    BY <1>6, LenProperties
  <1>9. ASSUME NEW i \in 1 .. m + n PROVE g[i] = IF i <= m THEN t[i][1] ELSE q[i - m]
    BY <1>2, <1>6
  <1>10. g = Line(t, q)
    BY <1>7, <1>8, <1>9
  <1>11. ASSUME t = <<>> PROVE f = <<>> /\ g = q
    <2>1. m = 0
      BY <1>1, <1>11, EmptySeq
    <2>2. f = <<>>
      BY <1>4, <2>1, EmptySeq
    <2> QED BY <1>5, <2>2, ConcatEmptySeq
  <1> QED BY <1>1, <1>2, <1>4, <1>5, <1>6, <1>10, <1>11

(* What the attempt at the front has collected; the elements in the        *)
(* channel; what the operations were given.                                *)
Collected(s, x) == IF s # <<>> /\ ~x[Head(s)].is_cancelled THEN x[Head(s)].tuple ELSE <<>>
Items(s, x, q) == FirstComponent(Collected(s, x)) \o q
GivenTo(a, state) ==
    IF a.call # <<>> /\ a.call.kind \in Consuming /\ a.status = "OK" /\ state = "over"
    THEN FirstComponent(a.tuple) ELSE <<>>
Given(x, s) == [p \in Ops |-> GivenTo(x[p], StateOf(p, s))]

(* Only the attempt at the front has collected anything.                   *)
FrontOnly(s, x) == \A i \in 2 .. Len(s) : ~x[s[i]].is_cancelled => x[s[i]].tuple = <<>>

ChannelInv ==
    /\ FrontOnly(dequeue_attempts, op)
    /\ Items(dequeue_attempts, op, queues[1]) \in Seq(Elements)

(* A step of QueueChannel with items i, closed c and got g, or none.       *)
LoseStep(i, c, g, i2, c2, g2) ==
    \E n \in 1 .. Len(i) : i2 = SubSeq(i, n + 1, Len(i)) /\ c2 = c /\ g2 = g
TakeStep(i, c, g, i2, c2, g2) ==
    \E n \in 1 .. Len(i) : \E o \in Ops :
       /\ g[o] = <<>> /\ g2 = [g EXCEPT ![o] = SubSeq(i, 1, n)]
       /\ i2 = SubSeq(i, n + 1, Len(i)) /\ c2 = c
PutStep(i, c, g, i2, c2, g2) ==
    /\ ~c /\ i2 \in Seq(Elements) /\ Len(i2) > Len(i) /\ SubSeq(i2, 1, Len(i)) = i
    /\ c2 = c /\ g2 = g
ChannelStep(i, c, g, i2, c2, g2) ==
    \/ i2 = i /\ (c2 = c \/ c2 = TRUE) /\ g2 = g
    \/ LoseStep(i, c, g, i2, c2, g2) \/ TakeStep(i, c, g, i2, c2, g2) \/ PutStep(i, c, g, i2, c2, g2)

LEMMA StepKeepsElements ==
    ASSUME NEW i \in Seq(Elements), NEW c, NEW g, NEW i2, NEW c2, NEW g2,
           ChannelStep(i, c, g, i2, c2, g2)
    PROVE  i2 \in Seq(Elements)
  <1>1. ASSUME NEW n \in 1 .. Len(i), i2 = SubSeq(i, n + 1, Len(i)) PROVE i2 \in Seq(Elements)
    <2>1. Len(i) \in Nat /\ \A k \in n + 1 .. Len(i) : i[k] \in Elements
      BY LenProperties, ElementOfSeq
    <2> QED BY <1>1, <2>1, SubSeqProperties
  <1> QED BY <1>1 DEF ChannelStep, LoseStep, TakeStep, PutStep

LEMMA FrontFrame ==
    ASSUME NEW s \in Seq(Ops), NEW x, NEW x2, FrontOnly(s, x),
           \A i \in 1 .. Len(s) : x2[s[i]].is_cancelled \/ SameAttempt(x2[s[i]], x[s[i]])
    PROVE  FrontOnly(s, x2)
  <1>1. \A i \in 2 .. Len(s) : i \in 1 .. Len(s)
    BY LenProperties
  <1> QED BY <1>1 DEF FrontOnly, SameAttempt

LEMMA FrontTail ==
    ASSUME NEW s \in Seq(Ops), s # <<>>, NEW x, FrontOnly(s, x)
    PROVE  FrontOnly(Tail(s), x) /\ Collected(Tail(s), x) = <<>>
  <1>1. /\ Len(s) \in Nat \ {0} /\ Tail(s) \in Seq(Ops) /\ Len(Tail(s)) = Len(s) - 1
        /\ \A i \in 1 .. Len(s) - 1 : i + 1 \in 1 .. Len(s) /\ Tail(s)[i] = s[i + 1]
    BY FrontAndRest
  <1>2. ASSUME NEW i \in 1 .. Len(Tail(s)), ~x[Tail(s)[i]].is_cancelled
        PROVE  x[Tail(s)[i]].tuple = <<>>
    <2>1. i + 1 \in 2 .. Len(s) /\ Tail(s)[i] = s[i + 1]
      BY <1>1
    <2> QED BY <1>2, <2>1 DEF FrontOnly
  <1>3. FrontOnly(Tail(s), x)
    <2>1. \A i \in 2 .. Len(Tail(s)) : i \in 1 .. Len(Tail(s))
      BY <1>1
    <2> QED BY <1>2, <2>1 DEF FrontOnly
  <1>4. CASE Tail(s) = <<>>
    BY <1>3, <1>4 DEF Collected
  <1>5. CASE Tail(s) # <<>>
    <2>1. Head(Tail(s)) = Tail(s)[1] /\ 1 \in 1 .. Len(Tail(s))
      BY <1>1, <1>5, FrontAndRest
    <2> QED BY <1>2, <1>3, <2>1 DEF Collected
  <1> QED BY <1>4, <1>5

LEMMA FrontAppend ==
    ASSUME NEW s \in Seq(Ops), NEW x, NEW o \in Ops, x[o].tuple = <<>>, FrontOnly(s, x)
    PROVE  FrontOnly(Append(s, o), x) /\ Collected(Append(s, o), x) = Collected(s, x)
  <1>1. PICK n \in Nat : n = Len(s)
    BY LenProperties
  <1>2. PICK r : r = Append(s, o)
    OBVIOUS
  <1>3. /\ Len(r) = n + 1 /\ r \in Seq(Ops)
        /\ \A i \in 1 .. n + 1 : r[i] = IF i <= n THEN s[i] ELSE o
    BY <1>1, <1>2, AppendOne
  <1>4. FrontOnly(r, x)
    <2>1. ASSUME NEW i \in 2 .. n + 1, ~x[r[i]].is_cancelled PROVE x[r[i]].tuple = <<>>
      <3>1. CASE i <= n
        <4>1. i \in 1 .. n + 1 /\ i \in 2 .. n
          BY <3>1
        <4>2. r[i] = s[i]
          BY <1>3, <3>1, <4>1
        <4> QED BY <1>1, <2>1, <4>1, <4>2 DEF FrontOnly
      <3>2. CASE ~(i <= n)
        <4>1. i \in 1 .. n + 1
          OBVIOUS
        <4>2. r[i] = o
          BY <1>3, <3>2, <4>1
        <4> QED BY <4>2
      <3> QED BY <3>1, <3>2
    <2> QED BY <1>3, <2>1 DEF FrontOnly
  <1>5. r # <<>> /\ Head(r) = r[1] /\ r[1] = IF s = <<>> THEN o ELSE Head(s)
    <2>1. r # <<>>
      <3>1. SUFFICES ASSUME r = <<>> PROVE FALSE
        OBVIOUS
      <3>2. Len(r) = 0
        BY <3>1, EmptySeq
      <3> QED BY <1>1, <1>3, <3>2
    <2>2. Head(r) = r[1] /\ 1 \in 1 .. n + 1
      BY <1>1, <1>3, <2>1, FrontAndRest
    <2>3. CASE s = <<>>
      <3>1. n = 0
        BY <1>1, <2>3, EmptySeq
      <3> QED BY <1>3, <2>1, <2>2, <2>3, <3>1
    <2>4. CASE s # <<>>
      <3>1. Head(s) = s[1] /\ 1 <= n
        BY <1>1, <2>4, FrontAndRest
      <3> QED BY <1>3, <2>1, <2>2, <2>4, <3>1
    <2> QED BY <2>3, <2>4
  <1>6. Collected(r, x) = Collected(s, x)
    BY <1>5 DEF Collected
  <1> QED BY <1>2, <1>4, <1>6

LEMMA CollectedTyped ==
    ASSUME NEW s \in Seq(Ops), NEW x \in [Ops -> Operation]
    PROVE  Collected(s, x) \in Seq(Slice)
  <1>1. <<>> \in Seq(Slice)
    BY EmptySeq
  <1>2. s # <<>> => Head(s) \in Ops
    BY FrontAndRest
  <1>3. \A o \in Ops : x[o].tuple \in Seq(Slice)
    BY DEF Operation
  <1> QED BY <1>1, <1>2, <1>3 DEF Collected

(* The attempts s2, operations x2, queue q2 and closed c2 follow the ones  *)
(* of the state by a step of the channel.                                  *)
Follows(s2, x2, q2, c2) ==
    /\ FrontOnly(s2, x2)
    /\ ChannelStep(Items(dequeue_attempts, op, queues[1]), closed, Given(op, dequeue_attempts),
                   Items(s2, x2, q2), c2, Given(x2, s2))

SameGiven(x2, s2) ==
    \A p \in Ops : GivenTo(x2[p], StateOf(p, s2)) = GivenTo(op[p], StateOf(p, dequeue_attempts))

LEMMA SameGivenIs ==
    ASSUME NEW x2, NEW s2, SameGiven(x2, s2) PROVE Given(x2, s2) = Given(op, dequeue_attempts)
  BY DEF SameGiven, Given

LEMMA ChannelFrame ==
    ASSUME NEW s2, NEW x2, NEW q2, NEW c2, FrontOnly(s2, x2), SameGiven(x2, s2),
           Collected(s2, x2) = Collected(dequeue_attempts, op), q2 = queues[1],
           c2 = closed \/ c2 = TRUE
    PROVE  Follows(s2, x2, q2, c2)
  <1>1. Given(x2, s2) = Given(op, dequeue_attempts)
    BY SameGivenIs
  <1>2. Items(s2, x2, q2) = Items(dequeue_attempts, op, queues[1])
    BY DEF Items
  <1> QED BY <1>1, <1>2 DEF Follows, ChannelStep

(* The operations of the dequeue attempts do not change.                   *)
LEMMA ConsumersSame ==
    ASSUME TypeOK, ChannelInv, NEW x2,
           \A i \in 1 .. Len(dequeue_attempts) :
              SameAttempt(x2[dequeue_attempts[i]], op[dequeue_attempts[i]])
    PROVE  /\ FrontOnly(dequeue_attempts, x2)
           /\ Collected(dequeue_attempts, x2) = Collected(dequeue_attempts, op)
  <1>1. dequeue_attempts \in Seq(Ops)
    BY DEF TypeOK
  <1>2. FrontOnly(dequeue_attempts, x2)
    BY <1>1, FrontFrame DEF ChannelInv
  <1>3. dequeue_attempts # <<>> =>
           Head(dequeue_attempts) = dequeue_attempts[1] /\ 1 \in 1 .. Len(dequeue_attempts)
    BY <1>1, FrontAndRest
  <1> QED BY <1>2, <1>3 DEF Collected, SameAttempt

(* Steps that change no attempt but for its callback.                      *)
LEMMA QuietChannel ==
    ASSUME TypeOK, ChannelInv, NEW x2, \A p \in Ops : SameAttempt(x2[p], op[p])
    PROVE  Follows(dequeue_attempts, x2, queues[1], closed)
  <1>1. dequeue_attempts \in Seq(Ops)
    BY DEF TypeOK
  <1>2. \A i \in 1 .. Len(dequeue_attempts) :
           SameAttempt(x2[dequeue_attempts[i]], op[dequeue_attempts[i]])
    BY <1>1, ElementOfSeq
  <1>3. FrontOnly(dequeue_attempts, x2)
        /\ Collected(dequeue_attempts, x2) = Collected(dequeue_attempts, op)
    BY <1>2, ConsumersSame
  <1>4. SameGiven(x2, dequeue_attempts)
    BY DEF SameGiven, GivenTo, SameAttempt
  <1> QED BY <1>3, <1>4, ChannelFrame

LEMMA SkipChannel ==
    ASSUME TypeOK, LateInv, ChannelInv, dequeue_attempts # <<>>,
           op[Head(dequeue_attempts)].is_cancelled
    PROVE  Follows(Tail(dequeue_attempts), op, queues[1], closed)
  <1>1. dequeue_attempts \in Seq(Ops)
    BY DEF TypeOK
  <1>2. /\ FrontOnly(Tail(dequeue_attempts), op) /\ Collected(Tail(dequeue_attempts), op) = <<>>
        /\ Collected(dequeue_attempts, op) = <<>>
    BY <1>1, FrontTail DEF ChannelInv, Collected
  <1>3. ASSUME NEW p \in Ops
        PROVE  GivenTo(op[p], StateOf(p, Tail(dequeue_attempts)))
                  = GivenTo(op[p], StateOf(p, dequeue_attempts))
    <2>1. CASE p = Head(dequeue_attempts)
      <3>1. op[p].status # "OK"
        BY <2>1 DEF LateInv, NothingPut
      <3> QED BY <3>1 DEF GivenTo
    <2>2. CASE p # Head(dequeue_attempts)
      <3>1. StateOf(p, Tail(dequeue_attempts)) = StateOf(p, dequeue_attempts)
        BY <1>1, <2>2, StateIs
      <3> QED BY <3>1
    <2> QED BY <2>1, <2>2
  <1>4. SameGiven(op, Tail(dequeue_attempts))
    BY <1>3 DEF SameGiven
  <1> QED BY <1>2, <1>4, ChannelFrame

LEMMA NothingGiven == FirstComponent(<<>>) = <<>>
  <1>1. <<>> \in Seq(Slice) /\ <<>> \in Seq(Item)
    BY EmptySeq
  <1> QED BY <1>1, FirstComponentIs

LEMMA TryChannel ==
    ASSUME TypeOK, CallbackInv, ChannelInv, NEW o \in Ops, NEW a, TryIs(o, a)
    PROVE  Follows(dequeue_attempts', op', queues'[1], closed')
  <1>1. PICK pc : Begins(o, a, pc)
    BY DEF TryIs
  <1>2. PICK x2 : x2 = op' /\ x2[o] = a /\ \A p \in Ops \ {o} : x2[p] = op[p]
    <2>1. op'[o] = a /\ \A p \in Ops \ {o} : op'[p] = op[p]
      BY <1>1, BeginsIs
    <2>2. PICK x2 : x2 = op'
      OBVIOUS
    <2> QED BY <2>1, <2>2
  <1>3. op[o].call = <<>> /\ op[o].call \notin Call /\ a.tuple = <<>> /\ queues' = queues /\ closed' = closed
    BY <1>1, NoCallIs DEF Begins, TryIs, Fresh
  <1>4. dequeue_attempts' = dequeue_attempts \/ dequeue_attempts' = Append(dequeue_attempts, o)
    BY DEF TryIs, SetAttempts, Attempts
  <1>5. dequeue_attempts \in Seq(Ops)
    BY DEF TypeOK
  <1>6. \A i \in 1 .. Len(dequeue_attempts) :
           SameAttempt(x2[dequeue_attempts[i]], op[dequeue_attempts[i]])
    <2>1. \A i \in 1 .. Len(dequeue_attempts) : dequeue_attempts[i] \in Ops /\ dequeue_attempts[i] # o
      BY <1>3, <1>5, ElementOfSeq DEF CallbackInv, AttemptsOK
    <2>2. \A i \in 1 .. Len(dequeue_attempts) : x2[dequeue_attempts[i]] = op[dequeue_attempts[i]]
      BY <1>2, <2>1
    <2> QED BY <2>2 DEF SameAttempt
  <1>7. /\ FrontOnly(dequeue_attempts, x2)
        /\ Collected(dequeue_attempts, x2) = Collected(dequeue_attempts, op)
    BY <1>6, ConsumersSame
  <1>8. /\ FrontOnly(Append(dequeue_attempts, o), x2)
        /\ Collected(Append(dequeue_attempts, o), x2) = Collected(dequeue_attempts, x2)
    BY <1>2, <1>3, <1>5, <1>7, FrontAppend
  <1>9. PICK s2 : s2 = dequeue_attempts'
    OBVIOUS
  <1>10. ASSUME NEW p \in Ops
         PROVE  GivenTo(x2[p], StateOf(p, s2)) = GivenTo(op[p], StateOf(p, dequeue_attempts))
    <2>1. CASE p = o
      <3>1. GivenTo(op[p], StateOf(p, dequeue_attempts)) = <<>>
        BY <1>3, <2>1 DEF GivenTo
      <3>2. GivenTo(x2[p], StateOf(p, s2)) = <<>>
        BY <1>2, <1>3, <2>1, NothingGiven DEF GivenTo
      <3> QED BY <3>1, <3>2
    <2>2. CASE p # o
      <3>1. StateOf(p, Append(dequeue_attempts, o)) = StateOf(p, dequeue_attempts)
        BY <1>5, <2>2, StateAppend
      <3>2. StateOf(p, s2) = StateOf(p, dequeue_attempts)
        BY <1>4, <1>9, <3>1
      <3> QED BY <1>2, <2>2, <3>2
    <2> QED BY <2>1, <2>2
  <1>11. SameGiven(x2, s2)
    BY <1>10 DEF SameGiven
  <1>12. FrontOnly(s2, x2) /\ Collected(s2, x2) = Collected(dequeue_attempts, op)
    BY <1>4, <1>7, <1>8, <1>9
  <1>13. Follows(s2, x2, queues[1], closed)
    BY <1>11, <1>12, ChannelFrame
  <1> QED BY <1>2, <1>3, <1>9, <1>13

(* The elements f at the front of the channel are lost, or given to o; s   *)
(* are put at its end.                                                     *)
LEMMA FrontLeaves ==
    ASSUME NEW f \in Seq(Item), NEW q \in Seq(Item), NEW c, NEW g
    PROVE  /\ ChannelStep(f \o q, c, g, q, c, g)
           /\ \A o \in Ops : g[o] = <<>> /\ (f = <<>> => [g EXCEPT ![o] = <<>>] = g) =>
                 ChannelStep(f \o q, c, g, q, c, [g EXCEPT ![o] = f])
  <1>1. CASE f = <<>>
    <2>1. f \o q = q
      BY <1>1, ConcatEmptySeq
    <2> QED BY <1>1, <2>1 DEF ChannelStep
  <1>2. CASE f # <<>>
    <2>1. PICK i : i = f \o q
      OBVIOUS
    <2>2. PICK n : n = Len(f)
      OBVIOUS
    <2>3. n \in 1 .. Len(i)
      <3>1. Len(f) \in Nat \ {0} /\ Len(q) \in Nat
        BY <1>2, LenProperties, EmptySeq
      <3>2. Len(f \o q) = Len(f) + Len(q)
        BY ConcatProperties, Zenon
      <3> QED BY <2>1, <2>2, <3>1, <3>2
    <2>4. SubSeq(i, 1, n) = f /\ SubSeq(i, n + 1, Len(i)) = q
      BY <2>1, <2>2, ConcatParts
    <2>5. LoseStep(i, c, g, q, c, g)
      BY <2>3, <2>4 DEF LoseStep
    <2>6. ASSUME NEW o \in Ops, g[o] = <<>> PROVE TakeStep(i, c, g, q, c, [g EXCEPT ![o] = f])
      BY <2>3, <2>4, <2>6 DEF TakeStep
    <2> QED BY <2>1, <2>5, <2>6 DEF ChannelStep
  <1> QED BY <1>1, <1>2

LEMMA EndGrows ==
    ASSUME NEW f \in Seq(Item), NEW q \in Seq(Item), NEW s \in Seq(Elements), NEW c, NEW g,
           f \o q \in Seq(Elements), s # <<>> => ~c
    PROVE  ChannelStep(f \o q, c, g, f \o (q \o s), c, g)
  <1>1. PICK i \in Seq(Elements) : i = f \o q
    OBVIOUS
  <1>2. s \in Seq(Item)
    <2>1. Elements \subseteq Item
      BY DEF Item
    <2> QED BY <2>1
  <1>3. f \o (q \o s) = i \o s
    BY <1>1, <1>2, ConcatAssociative
  <1>4. CASE s = <<>>
    <2>1. i \o s = i
      BY <1>4, ConcatEmptySeq
    <2> QED BY <1>1, <1>3, <2>1 DEF ChannelStep
  <1>5. CASE s # <<>>
    <2>1. i \o s \in Seq(Elements) /\ Len(i \o s) = Len(i) + Len(s)
      BY ConcatProperties, Zenon
    <2>2. Len(s) \in Nat \ {0} /\ Len(i) \in Nat
      BY <1>5, LenProperties, EmptySeq
    <2>3. Len(i \o s) > Len(i)
      BY <2>1, <2>2
    <2>4. SubSeq(i \o s, 1, Len(i)) = i
      BY ConcatParts
    <2>5. PutStep(i, c, g, i \o s, c, g)
      BY <1>5, <2>1, <2>3, <2>4 DEF PutStep
    <2> QED BY <1>1, <1>3, <2>5 DEF ChannelStep
  <1> QED BY <1>4, <1>5

(* What the attempt at the front has collected leaves the channel.         *)
LEMMA DropChannel ==
    ASSUME TypeOK, NEW s2, NEW x2, FrontOnly(s2, x2), SameGiven(x2, s2), Collected(s2, x2) = <<>>
    PROVE  Follows(s2, x2, queues[1], closed)
  <1>1. PICK q : q = queues[1]
    OBVIOUS
  <1>2. q \in Seq(Item) /\ dequeue_attempts \in Seq(Ops) /\ op \in [Ops -> Operation]
    BY <1>1, QueueAssumption DEF TypeOK, Item
  <1>3. PICK f : f = FirstComponent(Collected(dequeue_attempts, op))
    OBVIOUS
  <1>4. f \in Seq(Item)
    BY <1>2, <1>3, CollectedTyped, FirstComponentIs
  <1>5. Items(s2, x2, q) = q
    <2>1. <<>> \in Seq(Slice)
      BY EmptySeq
    <2>2. FirstComponent(<<>>) \o q = q
      BY <1>2, <2>1, FirstComponentIs
    <2> QED BY <2>2 DEF Items
  <1>6. Items(dequeue_attempts, op, q) = f \o q
    BY <1>3 DEF Items
  <1>7. Given(x2, s2) = Given(op, dequeue_attempts)
    BY SameGivenIs
  <1>8. ChannelStep(f \o q, closed, Given(op, dequeue_attempts), q, closed, Given(op, dequeue_attempts))
    BY <1>2, <1>4, FrontLeaves
  <1> QED BY <1>1, <1>5, <1>6, <1>7, <1>8 DEF Follows

(* An attempt that waits has been given nothing.                           *)
LEMMA WaitsGiven ==
    ASSUME NEW s \in Seq(Ops), NEW i \in 1 .. Len(s)
    PROVE  \A a : GivenTo(a, StateOf(s[i], s)) = <<>>
  <1>1. s[i] \in Ops
    BY ElementOfSeq
  <1>2. StateOf(s[i], s) = "waits"
    BY <1>1, StateIs
  <1> QED BY <1>2 DEF GivenTo

LEMMA CancelChannel ==
    ASSUME TypeOK, CallbackInv, ElementInv, ChannelInv, NEW o \in Ops, Cancel(o)
    PROVE  Follows(dequeue_attempts', op', queues'[1], closed')
  <1>1. UNCHANGED <<queues, dequeue_attempts, closed>>
    BY DEF Cancel
  <1>2. CASE op' = op
    <2>1. \A p \in Ops : SameAttempt(op[p], op[p])
      BY DEF SameAttempt
    <2> QED BY <1>1, <1>2, <2>1, QuietChannel
  <1>3. CASE op' # op
    <2>1. PICK action \in {"enqueue", "dequeue"} :
             action = IF Kind(o) \in {"enqueue", "enqueue_many"} THEN "enqueue" ELSE "dequeue"
      OBVIOUS
    <2>2. PICK q \in FirstMatch(Attempts(action), o) :
             ~op[q].is_cancelled /\ op' = [op EXCEPT ![q] = Cancelled(@)]
      BY <1>3, <2>1 DEF Cancel
    <2>3. Attempts(action) \in Seq(Ops) /\ op \in [Ops -> Operation]
      BY AttemptsTyped DEF TypeOK
    <2>4. PICK i \in 1 .. Len(Attempts(action)) : q = Attempts(action)[i]
      BY <2>2, <2>3, LenProperties DEF FirstMatch
    <2>5. q \in Ops /\ op[q].call \in Call /\ op[q].status = "OK" /\ op[q].call.kind \in Kinds(action)
      BY <2>2, <2>4, LiveStatus
    <2>6. op'[q] = Cancelled(op[q]) /\ \A p \in Ops \ {q} : op'[p] = op[p]
      BY <2>2, <2>3, <2>5
    <2>7. PICK x2 : x2 = op'
      OBVIOUS
    <2>8. /\ x2[q].call = op[q].call /\ x2[q].is_cancelled /\ x2[q].status = "CANCELLED"
      <3>1. Cancelled(op[q]) = [[op[q] EXCEPT !.status = "CANCELLED"]
                                   EXCEPT !.is_cancelled = TRUE, !.done_callback = "null"]
        BY <2>5 DEF Cancelled, SetStatus
      <3>2. op[q] \in Operation
        BY <2>3, <2>5
      <3>3. /\ Cancelled(op[q]).call = op[q].call /\ Cancelled(op[q]).is_cancelled
            /\ Cancelled(op[q]).status = "CANCELLED"
        BY <3>1, <3>2 DEF Operation
      <3> QED BY <2>6, <2>7, <3>3
    <2>9. PICK s : s = dequeue_attempts
      OBVIOUS
    <2>10. s \in Seq(Ops) /\ FrontOnly(s, op) /\ AttemptsOK(s, Consuming, op)
      BY <2>9 DEF TypeOK, ChannelInv, CallbackInv
    <2>11. \A p \in Ops \ {q} : SameAttempt(x2[p], op[p])
      BY <2>6, <2>7 DEF SameAttempt
    <2>12. FrontOnly(s, x2)
      <3>1. \A j \in 1 .. Len(s) : s[j] \in Ops
        BY <2>10, ElementOfSeq
      <3>2. \A j \in 1 .. Len(s) : x2[s[j]].is_cancelled \/ SameAttempt(x2[s[j]], op[s[j]])
        BY <2>8, <2>11, <3>1
      <3> QED BY <2>10, <3>2, FrontFrame
    <2>13. GivenTo(op[q], StateOf(q, s)) = <<>>
      <3>1. CASE action = "dequeue"
        BY <2>3, <2>4, <2>9, <3>1, WaitsGiven DEF Attempts
      <3>2. CASE action = "enqueue"
        <4>1. op[q].call.kind \notin Consuming
          BY <2>5, <3>2 DEF Kinds, Producing, Consuming
        <4> QED BY <4>1 DEF GivenTo
      <3> QED BY <3>1, <3>2
    <2>14. ASSUME NEW p \in Ops
           PROVE  GivenTo(x2[p], StateOf(p, s)) = GivenTo(op[p], StateOf(p, s))
      <3>1. CASE p = q
        <4>1. GivenTo(x2[q], StateOf(q, s)) = <<>>
          BY <2>8 DEF GivenTo
        <4> QED BY <2>13, <3>1, <4>1
      <3>2. CASE p # q
        BY <2>6, <2>7, <3>2
      <3> QED BY <3>1, <3>2
    <2>15. SameGiven(x2, s)
      BY <2>9, <2>14 DEF SameGiven
    <2>16. CASE s # <<>> /\ Head(s) = q
      <3>1. Collected(s, x2) = <<>>
        BY <2>8, <2>16 DEF Collected
      <3>2. Follows(s, x2, queues[1], closed)
        BY <2>12, <2>15, <3>1, DropChannel
      <3> QED BY <1>1, <2>7, <2>9, <3>2
    <2>17. CASE ~(s # <<>> /\ Head(s) = q)
      <3>1. Collected(s, x2) = Collected(s, op)
        <4>1. s # <<>> => Head(s) \in Ops \ {q}
          BY <2>10, <2>17, FrontAndRest
        <4>2. s # <<>> => x2[Head(s)] = op[Head(s)]
          BY <2>6, <2>7, <4>1
        <4> QED BY <4>2 DEF Collected
      <3>2. Follows(s, x2, queues[1], closed)
        BY <2>9, <2>12, <2>15, <3>1, ChannelFrame
      <3> QED BY <1>1, <2>7, <2>9, <3>2
    <2> QED BY <2>16, <2>17
  <1> QED BY <1>2, <1>3

(* Steps that change only operations that are no consumers.                *)
NoConsumer(a) == a.call = <<>> \/ a.call.kind \notin Consuming

LEMMA ProducersSame ==
    ASSUME TypeOK, CallbackInv, ChannelInv, NEW x2,
           \A p \in Ops : x2[p] = op[p] \/ (NoConsumer(op[p]) /\ NoConsumer(x2[p]))
    PROVE  /\ FrontOnly(dequeue_attempts, x2) /\ SameGiven(x2, dequeue_attempts)
           /\ Collected(dequeue_attempts, x2) = Collected(dequeue_attempts, op)
  <1>1. ASSUME NEW p \in Ops
        PROVE  GivenTo(x2[p], StateOf(p, dequeue_attempts)) = GivenTo(op[p], StateOf(p, dequeue_attempts))
    <2>1. CASE x2[p] = op[p]
      BY <2>1
    <2>2. CASE NoConsumer(op[p]) /\ NoConsumer(x2[p])
      BY <2>2 DEF NoConsumer, GivenTo
    <2> QED BY <2>1, <2>2
  <1>2. ASSUME NEW i \in 1 .. Len(dequeue_attempts)
        PROVE  SameAttempt(x2[dequeue_attempts[i]], op[dequeue_attempts[i]])
    <2>1. dequeue_attempts[i] \in Ops
      BY ElementOfSeq DEF TypeOK
    <2>2. ~NoConsumer(op[dequeue_attempts[i]])
      BY NoCallIs DEF CallbackInv, AttemptsOK, NoConsumer
    <2>3. x2[dequeue_attempts[i]] = op[dequeue_attempts[i]]
      BY <2>1, <2>2
    <2> QED BY <2>3 DEF SameAttempt
  <1>3. SameGiven(x2, dequeue_attempts)
    BY <1>1 DEF SameGiven
  <1>4. /\ FrontOnly(dequeue_attempts, x2)
        /\ Collected(dequeue_attempts, x2) = Collected(dequeue_attempts, op)
    BY <1>2, ConsumersSame
  <1> QED BY <1>3, <1>4

LEMMA CloseAndCancelChannel ==
    ASSUME TypeOK, CallbackInv, ElementInv, ChannelInv, NEW o \in Ops, CloseAndCancel(o)
    PROVE  Follows(dequeue_attempts', op', queues'[1], closed')
  <1>1. UNCHANGED <<queues, dequeue_attempts>> /\ op[o].call = <<>> /\ closed' = TRUE
    BY DEF CloseAndCancel, Started
  <1>2. PICK c \in Calls[o] :
           /\ c.kind = "close_cancel"
           /\ op' = [p \in Ops |-> IF p = o THEN NewOp(c)
                                   ELSE IF \E i \in DOMAIN ToCancel : ToCancel[i] = p
                                        THEN Cancelled(op[p]) ELSE op[p]]
    BY DEF CloseAndCancel
  <1>3. NoConsumer(op[o]) /\ NoConsumer(op'[o])
    <2>1. NewOp(c).call = c
      BY NewOpIs
    <2>2. op'[o] = NewOp(c)
      BY <1>2
    <2> QED BY <1>1, <1>2, <2>1, <2>2 DEF NoConsumer, Consuming
  <1>4. ASSUME NEW p \in Ops \ {o}
        PROVE  op'[p] = op[p] \/ (NoConsumer(op[p]) /\ NoConsumer(op'[p]))
    <2>1. CASE \E i \in DOMAIN ToCancel : ToCancel[i] = p
      <3>1. PICK k \in 1 .. Len(ToCancel) : ToCancel[k] = p
        BY <2>1, ToCancelIs DEF TypeOK
      <3>2. PICK i \in 1 .. Len(enqueue_attempts) : p = enqueue_attempts[i] /\ ~op[p].is_cancelled
        BY <3>1, ToCancelIs DEF TypeOK
      <3>3. op[p].call \in Call /\ op[p].call.kind \in Producing
        BY <3>2 DEF CallbackInv, AttemptsOK
      <3>4. op'[p] = Cancelled(op[p]) /\ op[p] \in Operation
        BY <1>2, <2>1 DEF TypeOK
      <3>5. Cancelled(op[p]).call = op[p].call
        <4>1. "CANCELLED" \in Statuses
          BY DEF Statuses
        <4>2. PICK b \in Operation : b = SetStatus(op[p], "CANCELLED") /\ b.call = op[p].call
          BY <3>4, <4>1, SetStatusIs DEF SameCall
        <4>3. [b EXCEPT !.is_cancelled = TRUE, !.done_callback = "null"].call = b.call
          BY DEF Operation
        <4> QED BY <4>2, <4>3 DEF Cancelled
      <3> QED BY <3>3, <3>4, <3>5 DEF NoConsumer, Producing, Consuming
    <2>2. CASE ~(\E i \in DOMAIN ToCancel : ToCancel[i] = p)
      <3>1. op'[p] = op[p]
        BY <1>2, <2>2
      <3> QED BY <3>1
    <2> QED BY <2>1, <2>2
  <1>5. PICK x2 : x2 = op'
    OBVIOUS
  <1>6. \A p \in Ops : x2[p] = op[p] \/ (NoConsumer(op[p]) /\ NoConsumer(x2[p]))
    BY <1>3, <1>4, <1>5
  <1>7. /\ FrontOnly(dequeue_attempts, x2) /\ SameGiven(x2, dequeue_attempts)
        /\ Collected(dequeue_attempts, x2) = Collected(dequeue_attempts, op)
    BY <1>6, ProducersSame
  <1>8. PICK c2 : c2 = TRUE
    OBVIOUS
  <1>9. Follows(dequeue_attempts, x2, queues[1], c2)
    BY <1>7, <1>8, ChannelFrame
  <1> QED BY <1>1, <1>5, <1>8, <1>9

(* What a producer's run callback puts into the first component, the slice *)
(* of an EnqueueMany that cannot be copied into all of them included.      *)
Produces(r) ==
    \/ r.queues = queues /\ (r.closed = closed \/ r.closed = TRUE)
    \/ /\ ~closed /\ r.closed = closed
       /\ \E s \in Seq(Elements) : r.queues[1] = queues[1] \o s

LEMMA RanClosed ==
    ASSUME NEW result, NEW q, NEW cl, NEW b, NEW r, r = Ran(result, q, cl, b)
    PROVE  r.queues = q /\ r.closed = cl
  BY DEF Ran

LEMMA RunCloseProduces ==
    ASSUME queues \in Queues, NEW a, NEW r, r = RunClose(a)
    PROVE  Produces(r)
  <1>1. PICK cl : cl = TRUE
    OBVIOUS
  <1>2. PICK b : b = SetStatus(a, "CANCELLED")
    OBVIOUS
  <1>3. r = Ran("kComplete", queues, closed, b) \/ r = Ran("kComplete", queues, cl, a)
    BY <1>1, <1>2 DEF RunClose
  <1>4. r.queues = queues /\ (r.closed = closed \/ r.closed = cl)
    BY <1>3, RanClosed
  <1> QED BY <1>1, <1>4 DEF Produces

LEMMA RunEnqueueProduces ==
    ASSUME queues \in Queues, NEW a, NEW o \in Ops, NEW r, r = RunEnqueue(o, a)
    PROVE  Produces(r)
  <1>1. CASE ~closed /\ Room > 0
    <2>1. r = Ran("kComplete", push_back(queues, <<<<o, 1>>>>), closed, a)
      BY <1>1 DEF RunEnqueue
    <2>2. r.queues = push_back(queues, <<<<o, 1>>>>) /\ r.closed = closed
      BY <2>1, RanClosed
    <2>3. r.queues[1] = queues[1] \o <<<<o, 1>>>>
      BY <2>2, QueueAssumption DEF push_back
    <2>4. <<<<o, 1>>>> \in Seq(Elements)
      BY DEF Elements
    <2> QED BY <1>1, <2>2, <2>3, <2>4 DEF Produces
  <1>2. CASE ~(~closed /\ Room > 0)
    <2>1. PICK b : b = SetStatus(a, "CANCELLED")
      OBVIOUS
    <2>2. r = Ran("kComplete", queues, closed, b) \/ r = Ran("kNoProgress", queues, closed, a)
      BY <1>2, <2>1 DEF RunEnqueue
    <2>3. r.queues = queues /\ r.closed = closed
      BY <2>2, RanClosed
    <2> QED BY <2>3 DEF Produces
  <1> QED BY <1>1, <1>2

LEMMA ConcatAppend ==
    ASSUME NEW q \in Seq(Item), NEW s \in Seq(Item), NEW e \in Item
    PROVE  Append(q \o s, e) = q \o Append(s, e)
  <1>1. <<e>> \in Seq(Item)
    OBVIOUS
  <1>2. q \o s \in Seq(Item)
    BY ConcatProperties, Zenon
  <1>3. Append(q \o s, e) = (q \o s) \o <<e>> /\ Append(s, e) = s \o <<e>>
    BY <1>2, AppendIsConcat
  <1>4. \A u \in Seq(Item) : (q \o s) \o u = q \o (s \o u)
    BY ConcatAssociative
  <1> QED BY <1>1, <1>3, <1>4

LEMMA RunEnqueueManyProduces ==
    ASSUME queues \in Queues, NEW a \in Operation, a.call \in Call, a.call.kind = "enqueue_many",
           Waiting(a), NEW o \in Ops, NEW r, r = RunEnqueueMany(o, a)
    PROVE  Produces(r)
  <1> DEFINE first == a.call.n - a.elements_requested + 1
             k     == Least(Room, a.elements_requested)
             good  == IF a.call.fail \in first .. first + k - 1 THEN a.call.fail - first ELSE k
             s     == Slices(o, first, first + good - 1)
             full  == push_back(queues, s)
             left  == [a EXCEPT !.elements_requested = @ - good]
             fails == [c \in 1 .. Components |->
                          IF c < Components THEN Append(full[c], <<o, first + good>>) ELSE full[c]]
             last  == SetStatus(left, "RESOURCE_EXHAUSTED")
             done  == IF k = a.elements_requested THEN "kComplete"
                      ELSE IF k > 0 THEN "kProgress" ELSE "kNoProgress"
             over  == SetStatus(a, "CANCELLED")
  <1>1. /\ a.call.n \in Nat /\ a.call.fail \in Nat /\ a.elements_requested \in Nat
        /\ a.elements_requested <= a.call.n
    BY DEF Operation, Call, Waiting
  <1>2. k \in Nat /\ k <= a.elements_requested
    BY <1>1, RoomIs, LeastIs
  <1>3. first \in Nat
    BY <1>1
  <1>4. r = IF closed THEN Ran("kComplete", queues, closed, over)
            ELSE IF good < k THEN Ran("kComplete", fails, closed, last)
            ELSE Ran(done, full, closed, left)
    BY DEF RunEnqueueMany
  <1>5. good \in Nat
    <2> HIDE DEF k, first
    <2> QED BY <1>1, <1>2, <1>3
  <1> HIDE DEF good, k, first, left, last, done, over
  <1>6. s \in Seq(Elements)
    <2>1. (first + good - 1) - first + 1 = good
      BY <1>3, <1>5
    <2>2. s = [j \in 1 .. good |-> <<o, first + j - 1>>]
      BY <2>1 DEF Slices
    <2>3. \A j \in 1 .. good : first + j - 1 \in Nat
      BY <1>3, <1>5
    <2>4. [j \in 1 .. good |-> <<o, first + j - 1>>] \in [1 .. good -> Elements]
      BY <2>3 DEF Elements
    <2> HIDE DEF s
    <2> QED BY <1>5, <2>2, <2>4, MakeSeq
  <1>7. full[1] = queues[1] \o s
    <2>1. ASSUME NEW u PROVE push_back(queues, u)[1] = queues[1] \o u
      BY QueueAssumption DEF push_back
    <2> QED BY <2>1
  <1>8. queues[1] \in Seq(Item) /\ s \in Seq(Item)
    <2>1. Elements \subseteq Item
      BY DEF Item
    <2> HIDE DEF s
    <2> QED BY <1>6, <2>1, QueueAssumption DEF Queues
  <1>9. fails[1] = full[1] \/ fails[1] = Append(full[1], <<o, first + good>>)
    BY QueueAssumption
  <1> HIDE DEF s, full, fails
  <1>10. CASE closed
    <2>1. r = Ran("kComplete", queues, closed, over)
      BY <1>4, <1>10
    <2>2. r.queues = queues /\ r.closed = closed
      BY <2>1, RanClosed
    <2> QED BY <2>2 DEF Produces
  <1>11. CASE ~closed /\ good < k
    <2>1. r = Ran("kComplete", fails, closed, last)
      BY <1>4, <1>11
    <2>2. r.queues = fails /\ r.closed = closed
      BY <2>1, RanClosed
    <2>3. PICK e : e = <<o, first + good>>
      OBVIOUS
    <2>4. e \in Elements
      <3>1. first + good \in Nat
        BY <1>3, <1>5
      <3> QED BY <2>3, <3>1 DEF Elements
    <2>5. PICK q1 \in Seq(Item), u \in Seq(Elements) :
             q1 = queues[1] /\ u \in Seq(Item) /\ full[1] = q1 \o u
      BY <1>6, <1>7, <1>8
    <2>6. Append(full[1], e) = q1 \o Append(u, e) /\ Append(u, e) \in Seq(Elements)
      <3>1. Append(u, e) \in Seq(Elements) /\ e \in Item
        BY <2>4 DEF Item
      <3>2. Append(q1 \o u, e) = q1 \o Append(u, e)
        BY <2>5, <3>1, ConcatAppend
      <3> QED BY <2>5, <3>1, <3>2
    <2>7. \E v \in Seq(Elements) : fails[1] = q1 \o v
      BY <1>9, <2>3, <2>5, <2>6
    <2> QED BY <1>11, <2>2, <2>5, <2>7 DEF Produces
  <1>12. CASE ~closed /\ ~(good < k)
    <2>1. r = Ran(done, full, closed, left)
      BY <1>4, <1>12
    <2>2. r.queues = full /\ r.closed = closed
      BY <2>1, RanClosed
    <2> QED BY <1>6, <1>7, <1>12, <2>2 DEF Produces
  <1> QED BY <1>10, <1>11, <1>12

LEMMA RunProduces ==
    ASSUME TypeOK, NEW o \in Ops, op[o].call \in Call, op[o].call.kind \in Producing,
           Waiting(op[o]), NEW r, r = run_callback(o)
    PROVE  Produces(r)
  <1>1. queues \in Queues /\ op[o] \in Operation
    BY DEF TypeOK, Queues, Item
  <1>2. r = CASE op[o].call.kind = "close"        -> RunClose(op[o])
              [] op[o].call.kind = "enqueue"      -> RunEnqueue(o, op[o])
              [] op[o].call.kind = "enqueue_many" -> RunEnqueueMany(o, op[o])
              [] op[o].call.kind = "dequeue"      -> RunDequeue(op[o])
              [] OTHER                            -> RunDequeueMany(op[o])
    BY DEF run_callback, Kind
  <1>3. CASE op[o].call.kind = "close"
    BY <1>1, <1>2, <1>3, RunCloseProduces
  <1>4. CASE op[o].call.kind = "enqueue"
    BY <1>1, <1>2, <1>4, RunEnqueueProduces
  <1>5. CASE op[o].call.kind = "enqueue_many"
    BY <1>1, <1>2, <1>5, RunEnqueueManyProduces
  <1> QED BY <1>3, <1>4, <1>5 DEF Producing

(* What running the attempt at the front does to the queue.                *)
LEMMA RunOutcome ==
    ASSUME TypeOK, CallbackInv, ElementInv, NEW t \in Threads,
           NEW action \in {"enqueue", "dequeue"}, RunAttempt(t, action),
           NEW o, o = Head(Attempts(action)), NEW r, r = run_callback(o)
    PROVE  /\ queues' = r.queues /\ closed' = r.closed /\ op'[o].status = r.attempt.status
           /\ ~op'[o].is_cancelled /\ o \in Ops /\ op[o].call \in Call /\ op[o].call.kind \in Kinds(action)
           /\ op[o].status = "OK" /\ Waiting(op[o]) /\ ~op[o].is_cancelled
           /\ op[o].call.kind # "close" => r.closed = closed
  <1>1. /\ Attempts(action) # <<>> /\ ~op[o].is_cancelled /\ queues' = r.queues /\ closed' = r.closed
        /\ \/ op' = [op EXCEPT ![o] = [r.attempt EXCEPT !.done_callback = "null"]]
           \/ op' = [op EXCEPT ![o] = r.attempt]
    BY DEF RunAttempt
  <1>2. o = Attempts(action)[1] /\ 1 \in 1 .. Len(Attempts(action))
    <2>1. Attempts(action) \in Seq(Ops)
      BY AttemptsTyped
    <2> QED BY <1>1, <2>1, FrontAndRest
  <1>3. /\ o \in Ops /\ op[o].call \in Call /\ op[o].call.kind \in Kinds(action)
        /\ op[o].status = "OK" /\ Waiting(op[o])
    BY <1>1, <1>2, LiveStatus
  <1>4. op[o].call.kind \in Producing \cup Consuming
    BY <1>3 DEF Kinds
  <1>5. RunOK(r, op[o])
    BY <1>3, <1>4, RunCallbackOK
  <1>6. PICK b \in Operation : b = r.attempt /\ ~b.is_cancelled
    BY <1>1, <1>5 DEF RunOK, RunIs, SameCall
  <1>7. op'[o].status = b.status /\ op'[o].is_cancelled = b.is_cancelled
    <2>1. /\ [b EXCEPT !.done_callback = "null"].status = b.status
          /\ [b EXCEPT !.done_callback = "null"].is_cancelled = b.is_cancelled
      BY DEF Operation
    <2>2. op \in [Ops -> Operation]
      BY DEF TypeOK
    <2> QED BY <1>1, <1>3, <1>6, <2>1, <2>2
  <1>8. op[o].call.kind # "close" => r.closed = closed
    BY <1>5 DEF RunOK, RunIs
  <1> QED BY <1>1, <1>3, <1>6, <1>7, <1>8

LEMMA EnqueueChannel ==
    ASSUME TypeOK, CallbackInv, ElementInv, ChannelInv, NEW t \in Threads,
           NEW action \in {"enqueue", "dequeue"}, action = "enqueue", RunAttempt(t, action)
    PROVE  Follows(dequeue_attempts', op', queues'[1], closed')
  <1>1. PICK o \in Ops, d \in Operation : \E result : Runs(action, o, d, result)
    BY RunsIs
  <1>2. PICK r : r = run_callback(o)
    OBVIOUS
  <1>3. /\ o = Head(Attempts(action)) /\ op' = [op EXCEPT ![o] = d] /\ d.call = op[o].call
        /\ dequeue_attempts' = dequeue_attempts
    BY <1>1 DEF Runs, SetAttempts
  <1>4. /\ queues' = r.queues /\ closed' = r.closed /\ Waiting(op[o])
        /\ op[o].call \in Call /\ op[o].call.kind \in Producing
    BY <1>2, <1>3, RunOutcome DEF Kinds
  <1>5. Produces(r)
    BY <1>2, <1>4, RunProduces
  <1>6. PICK x2 : x2 = op'
    OBVIOUS
  <1>7. ASSUME NEW p \in Ops PROVE x2[p] = op[p] \/ (NoConsumer(op[p]) /\ NoConsumer(x2[p]))
    <2>1. op \in [Ops -> Operation]
      BY DEF TypeOK
    <2>2. x2[o] = d /\ \A p1 \in Ops \ {o} : x2[p1] = op[p1]
      BY <1>3, <1>6, <2>1
    <2>3. NoConsumer(op[o]) /\ NoConsumer(d)
      BY <1>3, <1>4 DEF NoConsumer, Producing, Consuming
    <2> QED BY <2>2, <2>3
  <1>8. /\ FrontOnly(dequeue_attempts, x2) /\ SameGiven(x2, dequeue_attempts)
        /\ Collected(dequeue_attempts, x2) = Collected(dequeue_attempts, op)
    BY <1>7, ProducersSame
  <1>9. PICK q2 : q2 = queues'
    OBVIOUS
  <1>10. PICK c2 : c2 = closed'
    OBVIOUS
  <1>11. Follows(dequeue_attempts, x2, q2[1], c2)
    <2>1. CASE q2 = queues /\ (c2 = closed \/ c2 = TRUE)
      BY <1>8, <2>1, ChannelFrame
    <2>2. CASE ~closed /\ c2 = closed /\ \E s \in Seq(Elements) : q2[1] = queues[1] \o s
      <3>1. PICK s \in Seq(Elements) : q2[1] = queues[1] \o s
        BY <2>2
      <3>2. PICK f : f = FirstComponent(Collected(dequeue_attempts, op))
        OBVIOUS
      <3>3. PICK q : q = queues[1]
        OBVIOUS
      <3>4. q \in Seq(Item) /\ f \in Seq(Item)
        <4>1. q \in Seq(Item) /\ dequeue_attempts \in Seq(Ops) /\ op \in [Ops -> Operation]
          BY <3>3, QueueAssumption DEF TypeOK, Item
        <4> QED BY <3>2, <4>1, CollectedTyped, FirstComponentIs
      <3>5. f \o q \in Seq(Elements)
        BY <3>2, <3>3 DEF ChannelInv, Items
      <3>6. PICK g : g = Given(op, dequeue_attempts)
        OBVIOUS
      <3>7. ChannelStep(f \o q, closed, g, f \o (q \o s), closed, g)
        BY <2>2, <3>4, <3>5, EndGrows
      <3>8. Given(x2, dequeue_attempts) = g
        BY <1>8, <3>6, SameGivenIs
      <3>9. Items(dequeue_attempts, x2, q2[1]) = f \o (q \o s)
        BY <1>8, <3>1, <3>2, <3>3 DEF Items
      <3>10. Items(dequeue_attempts, op, queues[1]) = f \o q
        BY <3>2, <3>3 DEF Items
      <3> QED BY <1>8, <2>2, <3>6, <3>7, <3>8, <3>9, <3>10 DEF Follows
    <2> QED BY <1>4, <1>5, <1>9, <1>10, <2>1, <2>2 DEF Produces
  <1> QED BY <1>3, <1>6, <1>9, <1>10, <1>11

(* A collected element can be restored to the queue.                       *)
Restorable ==
    \A o \in Ops : \A c \in Calls[o] : c.kind \in {"dequeue_many", "dequeue_up_to"} => c.fail # 2

LEMMA CollectStatus ==
    ASSUME NEW q \in Queues, NEW a \in Operation, a.status = "OK", NEW r, r = Collect(q, a)
    PROVE  r.attempt.status # "DATA_LOSS"
  <1> DEFINE k    == Least(Len(q[1]), a.elements_requested)
             more == [a EXCEPT !.tuple = @ \o Oldest(q, k), !.elements_requested = @ - k]
             all  == [more EXCEPT !.done_callback = "tuple"]
             fail == SetStatus(a, "RESOURCE_EXHAUSTED")
             copy == SetStatus([a EXCEPT !.tuple = @ \o Oldest(q, 1)], "UNIMPLEMENTED")
  <1>1. r = IF k = 0 THEN Ran("kNoProgress", q, closed, a)
            ELSE IF a.tuple = <<>> /\ a.call.fail = 1 THEN Ran("kComplete", q, closed, fail)
            ELSE IF a.status # "OK" THEN Ran("kComplete", q, closed, a)
            ELSE IF a.call.fail = 3 THEN Ran("kComplete", Rest(q, 1), closed, copy)
            ELSE IF k = a.elements_requested THEN Ran("kComplete", Rest(q, k), closed, all)
            ELSE Ran("kProgress", Rest(q, k), closed, more)
    BY DEF Collect
  <1>2. fail.status = "RESOURCE_EXHAUSTED"
    BY SetStatusIs DEF Statuses
  <1>3. more.status = "OK" /\ all.status = "OK"
    BY DEF Operation
  <1>5. copy.status = "UNIMPLEMENTED"
    BY CopyFails
  <1> HIDE DEF k, more, all, fail, copy
  <1>4. r.attempt \in {a, fail, copy, all, more}
    BY <1>1, RanFields
  <1> QED BY <1>2, <1>3, <1>4, <1>5

LEMMA ConsumerStatus ==
    ASSUME TypeOK, Restorable, NEW o \in Ops, op[o].call \in Call, op[o].call.kind \in Consuming,
           op[o].status = "OK", NEW r, r = run_callback(o)
    PROVE  r.attempt.status # "DATA_LOSS"
  <1>1. PICK a \in Operation : a = op[o]
    BY DEF TypeOK
  <1>2. r = CASE a.call.kind = "close"        -> RunClose(a)
              [] a.call.kind = "enqueue"      -> RunEnqueue(o, a)
              [] a.call.kind = "enqueue_many" -> RunEnqueueMany(o, a)
              [] a.call.kind = "dequeue"      -> RunDequeue(a)
              [] OTHER                        -> RunDequeueMany(a)
    BY <1>1 DEF run_callback, Kind
  <1>3. PICK b \in Operation : b = SetStatus(a, "OUT_OF_RANGE") /\ b.status = "OUT_OF_RANGE"
    BY <1>1, SetStatusIs DEF Statuses
  <1>4. CASE a.call.kind = "dequeue"
    <2>1. PICK d : d = [a EXCEPT !.tuple = Oldest(queues, 1), !.done_callback = "tuple"]
      OBVIOUS
    <2>2. d.status = "OK"
      BY <1>1, <2>1 DEF Operation
    <2>3. \/ r = Ran("kComplete", Rest(queues, 1), closed, d)
          \/ r = Ran("kComplete", queues, closed, b) \/ r = Ran("kNoProgress", queues, closed, a)
      BY <1>2, <1>3, <1>4, <2>1 DEF RunDequeue
    <2>4. r.attempt \in {a, b, d}
      BY <2>3, RanFields
    <2> QED BY <1>1, <1>3, <2>2, <2>4
  <1>5. CASE a.call.kind \in {"dequeue_many", "dequeue_up_to"}
    <2>1. a.call.fail # 2
      <3>1. a.call \in Calls[o]
        BY <1>1, NoCallIs DEF TypeOK
      <3> QED BY <1>5, <3>1 DEF Restorable
    <2>2. PICK back : back = Restored(a)
      OBVIOUS
    <2>3. PICK d : d = [a EXCEPT !.tuple = <<>>, !.elements_requested = Len(back[1])]
      OBVIOUS
    <2>4. r = RunDequeueMany(a)
      BY <1>2, <1>5
    <2>5. \/ r = Collect(queues, a) \/ (back[1] # <<>> /\ r = Collect(back, d))
          \/ r = Ran("kProgress", back, closed, a) \/ r = Ran("kComplete", back, closed, b)
      BY <1>3, <2>1, <2>2, <2>3, <2>4 DEF RunDequeueMany
    <2>10. queues \in Queues /\ back \in Queues
      <3>1. queues \in Queues
        BY DEF TypeOK, Queues, Item
      <3> QED BY <2>2, <3>1, RestoredTyped
    <2>6. back[1] # <<>> => d \in Operation /\ d.status = "OK"
      <3>2. Len(back[1]) \in Nat
        BY <2>10, QueueAssumption, LenProperties DEF Queues
      <3>3. <<>> \in Seq(Slice)
        BY EmptySeq
      <3> QED BY <1>1, <2>3, <3>2, <3>3 DEF Operation
    <2>7. CASE r = Collect(queues, a)
      BY <1>1, <2>7, <2>10, CollectStatus
    <2>8. CASE back[1] # <<>> /\ r = Collect(back, d)
      BY <2>6, <2>8, <2>10, CollectStatus
    <2>9. CASE r = Ran("kProgress", back, closed, a) \/ r = Ran("kComplete", back, closed, b)
      BY <1>1, <1>3, <2>9, RanFields
    <2> QED BY <2>5, <2>7, <2>8, <2>9
  <1> QED BY <1>1, <1>4, <1>5 DEF Consuming

(* The attempt o at the front of the attempts s becomes d, and the queue q *)
(* becomes q2.                                                             *)
LEMMA FrontRuns ==
    ASSUME NEW s \in Seq(Ops), s # <<>>, NEW o \in Ops, o = Head(s),
           \A i, j \in 1 .. Len(s) : s[i] = s[j] => i = j,
           NEW x \in [Ops -> Operation], NEW d \in Operation, FrontOnly(s, x)
    PROVE  /\ FrontOnly(s, [x EXCEPT ![o] = d])
           /\ FrontOnly(Tail(s), [x EXCEPT ![o] = d])
           /\ Collected(Tail(s), [x EXCEPT ![o] = d]) = <<>>
           /\ StateOf(o, s) = "waits" /\ StateOf(o, Tail(s)) = "over"
           /\ \A p \in Ops \ {o} : StateOf(p, Tail(s)) = StateOf(p, s)
  <1>1. PICK x2 : x2 = [x EXCEPT ![o] = d]
    OBVIOUS
  <1>2. o = s[1] /\ 1 \in 1 .. Len(s)
    BY FrontAndRest
  <1>3. ASSUME NEW i \in 2 .. Len(s) PROVE x2[s[i]] = x[s[i]]
    <2>1. i \in 1 .. Len(s) /\ i # 1
      BY LenProperties
    <2>2. s[i] \in Ops /\ s[i] # o
      BY <1>2, <2>1, ElementOfSeq
    <2> QED BY <1>1, <2>2
  <1>4. FrontOnly(s, x2)
    BY <1>3 DEF FrontOnly
  <1>5. FrontOnly(Tail(s), x2) /\ Collected(Tail(s), x2) = <<>>
    BY <1>4, FrontTail
  <1>6. StateOf(o, s) = "waits" /\ StateOf(o, Tail(s)) = "over"
    BY StateIs
  <1>7. \A p \in Ops \ {o} : StateOf(p, Tail(s)) = StateOf(p, s)
    BY StateIs
  <1> QED BY <1>1, <1>4, <1>5, <1>6, <1>7

LEMMA DequeueChannel ==
    ASSUME TypeOK, CallbackInv, ElementInv, ChannelInv, Restorable, NEW t \in Threads,
           NEW action \in {"enqueue", "dequeue"}, action = "dequeue", RunAttempt(t, action)
    PROVE  Follows(dequeue_attempts', op', queues'[1], closed')
  <1>1. PICK o \in Ops, d \in Operation : \E result : Runs(action, o, d, result)
    BY RunsIs
  <1>2. PICK result : Runs(action, o, d, result)
    BY <1>1
  <1>3. PICK r : r = run_callback(o)
    OBVIOUS
  <1>4. PICK s, q, q2, x2 : s = dequeue_attempts /\ q = queues[1] /\ q2 = queues'[1] /\ x2 = op'
    OBVIOUS
  <1>5. /\ s # <<>> /\ o = Head(s) /\ x2 = [op EXCEPT ![o] = d] /\ d.call = op[o].call
        /\ q2 \in Seq(Item) /\ RunConserves(result, queues', d, op[o], o)
        /\ \/ result = "kComplete" /\ dequeue_attempts' = Tail(s)
           \/ result # "kComplete" /\ dequeue_attempts' = s
    BY <1>2, <1>4 DEF Runs, SetAttempts, Attempts
  <1>6. /\ closed' = closed /\ op'[o].status = r.attempt.status /\ ~op'[o].is_cancelled
        /\ op[o].call \in Call /\ op[o].call.kind \in Consuming /\ op[o].status = "OK"
        /\ ~op[o].is_cancelled
    <2>1. o = Head(Attempts(action))
      BY <1>2 DEF Runs
    <2> QED BY <1>3, <2>1, RunOutcome DEF Kinds, Consuming
  <1>7. s \in Seq(Ops) /\ q \in Seq(Item) /\ op \in [Ops -> Operation] /\ FrontOnly(s, op)
        /\ \A i, j \in 1 .. Len(s) : s[i] = s[j] => i = j
    <2>1. s \in Seq(Ops) /\ q \in Seq(Item) /\ op \in [Ops -> Operation]
      <3>1. queues[1] \in Seq(Item)
        BY QueueAssumption DEF TypeOK, Item
      <3>2. dequeue_attempts \in Seq(Ops) /\ op \in [Ops -> Operation]
        BY DEF TypeOK
      <3> QED BY <1>4, <3>1, <3>2
    <2>2. FrontOnly(s, op) /\ \A i, j \in 1 .. Len(s) : s[i] = s[j] => i = j
      BY <1>4 DEF ChannelInv, CallbackInv, AttemptsOK
    <2> QED BY <2>1, <2>2
  <1>8. x2[o] = d /\ ~d.is_cancelled /\ \A p \in Ops \ {o} : x2[p] = op[p]
    <2>1. x2[o] = d /\ \A p \in Ops \ {o} : x2[p] = op[p]
      BY <1>5, <1>7
    <2>2. ~x2[o].is_cancelled
      BY <1>4, <1>6
    <2> QED BY <2>1, <2>2
  <1>9. ~Damaged(d)
    <2>1. d.status # "DATA_LOSS"
      BY <1>3, <1>4, <1>6, <1>8, ConsumerStatus
    <2> QED BY <1>5, <1>6, <2>1, ConsumerTaken
  <1>10. Line(TakenOf(d), q2) = Line(op[o].tuple, q)
    BY <1>4, <1>5, <1>6, <1>9 DEF RunConserves, Moves
  <1>11. PICK f : f = FirstComponent(TakenOf(d))
    OBVIOUS
  <1>12. f \in Seq(Item) /\ f \o q2 = Items(s, op, q)
    <2>1. TakenOf(d) \in Seq(Slice) /\ op[o].tuple \in Seq(Slice)
      <3>1. <<>> \in Seq(Slice) /\ d.tuple \in Seq(Slice)
        BY EmptySeq DEF Operation
      <3> QED BY <1>7, <3>1 DEF TakenOf, Operation
    <2>2. f \in Seq(Item) /\ f \o q2 = Line(TakenOf(d), q2)
      BY <1>5, <1>11, <2>1, FirstComponentIs
    <2>3. FirstComponent(op[o].tuple) \o q = Line(op[o].tuple, q)
      BY <1>7, <2>1, FirstComponentIs
    <2>4. Items(s, op, q) = FirstComponent(op[o].tuple) \o q
      BY <1>5, <1>6 DEF Items, Collected
    <2> QED BY <1>10, <2>2, <2>3, <2>4
  <1>13. /\ FrontOnly(s, x2) /\ FrontOnly(Tail(s), x2) /\ Collected(Tail(s), x2) = <<>>
         /\ StateOf(o, s) = "waits" /\ StateOf(o, Tail(s)) = "over"
         /\ \A p \in Ops \ {o} : StateOf(p, Tail(s)) = StateOf(p, s)
    BY <1>5, <1>7, FrontRuns
  <1>14. PICK g : g = Given(op, s)
    OBVIOUS
  <1>15. g[o] = <<>> /\ [g EXCEPT ![o] = <<>>] = g
    BY <1>13, <1>14 DEF Given, GivenTo
  <1>16. CASE result # "kComplete"
    <2>1. d.status = "OK" /\ TakenOf(d) = d.tuple
      <3>1. d.status = "OK"
        BY <1>5, <1>16 DEF RunConserves
      <3> QED BY <1>5, <1>6, <3>1, ConsumerTaken
    <2>2. Items(s, x2, q2) = f \o q2
      BY <1>5, <1>8, <1>11, <2>1 DEF Items, Collected
    <2>3. Given(x2, s) = g
      <3>1. ASSUME NEW p \in Ops PROVE GivenTo(x2[p], StateOf(p, s)) = GivenTo(op[p], StateOf(p, s))
        <4>1. CASE p = o
          BY <1>13, <4>1 DEF GivenTo
        <4> QED BY <1>8, <4>1
      <3> QED BY <1>14, <3>1 DEF Given
    <2>4. ChannelStep(Items(s, op, q), closed, g, Items(s, x2, q2), closed, Given(x2, s))
      BY <1>12, <2>2, <2>3 DEF ChannelStep
    <2>5. Follows(s, x2, q2, closed)
      BY <1>4, <1>13, <1>14, <2>4 DEF Follows
    <2> QED BY <1>4, <1>5, <1>6, <1>16, <2>5
  <1>17. CASE result = "kComplete"
    <2>1. Items(Tail(s), x2, q2) = q2
      <3>1. <<>> \in Seq(Slice)
        BY EmptySeq
      <3>2. FirstComponent(<<>>) \o q2 = q2
        BY <1>5, <3>1, FirstComponentIs
      <3> QED BY <1>13, <3>2 DEF Items
    <2>2. PICK g2 : g2 = Given(x2, Tail(s))
      OBVIOUS
    <2>3. ASSUME NEW p \in Ops \ {o} PROVE g2[p] = g[p]
      BY <1>8, <1>13, <1>14, <2>2 DEF Given
    <2>4. g2[o] = IF d.status = "OK" THEN f ELSE <<>>
      <3>1. d.call # <<>> /\ d.call.kind \in Consuming
        BY <1>5, <1>6, NoCallIs
      <3>2. d.status = "OK" => TakenOf(d) = d.tuple
        BY <1>5, <1>6, ConsumerTaken
      <3>3. g2[o] = GivenTo(d, "over")
        BY <1>8, <1>13, <2>2 DEF Given
      <3> QED BY <1>11, <3>1, <3>2, <3>3 DEF GivenTo
    <2>5. g2 = [g EXCEPT ![o] = IF d.status = "OK" THEN f ELSE <<>>]
      <3>1. g2 = [p \in Ops |-> g2[p]] /\ g = [p \in Ops |-> g[p]]
        BY <1>14, <2>2 DEF Given
      <3> HIDE <2>2
      <3> QED BY <2>3, <2>4, <3>1
    <2>6. ChannelStep(f \o q2, closed, g, q2, closed, g2)
      <3>1. CASE d.status = "OK"
        <4>1. g2 = [g EXCEPT ![o] = f]
          BY <2>5, <3>1
        <4> QED BY <1>5, <1>12, <1>15, <4>1, FrontLeaves
      <3>2. CASE d.status # "OK"
        <4>1. g2 = g
          BY <1>15, <2>5, <3>2
        <4> QED BY <1>5, <1>12, <4>1, FrontLeaves
      <3> QED BY <3>1, <3>2
    <2>7. Follows(Tail(s), x2, q2, closed)
      BY <1>4, <1>12, <1>13, <1>14, <2>1, <2>2, <2>6 DEF Follows
    <2> QED BY <1>4, <1>5, <1>6, <1>17, <2>7
  <1> QED BY <1>16, <1>17

LEMMA ThreadChannel ==
    ASSUME TypeOK, ChannelInv, NEW t \in Threads,
           CallCallback(t) \/ Lock(t) \/ CleanUp(t) \/ Return(t)
    PROVE  Follows(dequeue_attempts', op', queues'[1], closed')
  <1>1. UNCHANGED <<closed, queues, dequeue_attempts>>
    BY DEF CallCallback, Lock, CleanUp, Return
  <1>2. op \in [Ops -> Operation]
    BY DEF TypeOK
  <1>3. \A o \in Ops : SameAttempt(op'[o], op[o])
    <2>1. CASE op' = op
      BY <2>1 DEF SameAttempt
    <2>2. ASSUME NEW p, op' = Called(p) PROVE \A o \in Ops : SameAttempt(op'[o], op[o])
      BY <1>2, <2>2 DEF Called, Operation, SameAttempt
    <2>3. ASSUME NEW p, op' = [Called(p) EXCEPT ![p].done_callback = "null"]
          PROVE  \A o \in Ops : SameAttempt(op'[o], op[o])
      BY <1>2, <2>3 DEF Called, Operation, SameAttempt
    <2> QED BY <2>1, <2>2, <2>3 DEF CallCallback, Lock, CleanUp, Return
  <1>4. PICK x2 : x2 = op'
    OBVIOUS
  <1>5. Follows(dequeue_attempts, x2, queues[1], closed)
    BY <1>3, <1>4, QuietChannel
  <1> QED BY <1>1, <1>4, <1>5

LEMMA NextFollows ==
    ASSUME Restorable, TypeOK, QueueInv, ElementInv, ChannelInv, [Next]_vars
    PROVE  Follows(dequeue_attempts', op', queues'[1], closed')
  <1> DEFINE F == Follows(dequeue_attempts', op', queues'[1], closed')
  <1> CallbackInv /\ LateInv
    BY DEF QueueInv
  <1>1. ASSUME NEW o \in Ops, TryEnqueue(o) \/ TryDequeue(o) \/ Close(o) PROVE F
    BY <1>1, TriesAre, TryChannel
  <1>2. ASSUME NEW o \in Ops, CloseAndCancel(o) PROVE F
    BY <1>2, CloseAndCancelChannel
  <1>3. ASSUME NEW o \in Ops, Cancel(o) PROVE F
    BY <1>3, CancelChannel
  <1>4. ASSUME UNCHANGED <<closed, queues, dequeue_attempts, op>> PROVE F
    <2>1. \A p \in Ops : SameAttempt(op[p], op[p])
      BY DEF SameAttempt
    <2> QED BY <1>4, <2>1, QuietChannel
  <1>5. ASSUME NEW t \in Threads, Step(t) PROVE F
    <2>1. CASE CallCallback(t) \/ Lock(t) \/ CleanUp(t) \/ Return(t)
      BY <2>1, ThreadChannel
    <2>2. ASSUME NEW action \in {"enqueue", "dequeue"}, SkipCancelled(t, action) PROVE F
      <3>1. UNCHANGED <<closed, queues, op>>
        BY <2>2 DEF SkipCancelled
      <3>2. CASE action = "enqueue"
        <4>1. dequeue_attempts' = dequeue_attempts
          BY <2>2, <3>2 DEF SkipCancelled, SetAttempts
        <4> QED BY <1>4, <3>1, <4>1
      <3>3. CASE action = "dequeue"
        <4>1. /\ dequeue_attempts # <<>> /\ op[Head(dequeue_attempts)].is_cancelled
              /\ dequeue_attempts' = Tail(dequeue_attempts)
          BY <2>2, <3>3 DEF SkipCancelled, SetAttempts, Attempts
        <4>2. Follows(Tail(dequeue_attempts), op, queues[1], closed)
          BY <4>1, SkipChannel
        <4> QED BY <3>1, <4>1, <4>2
      <3> QED BY <3>2, <3>3
    <2>3. ASSUME NEW action \in {"enqueue", "dequeue"}, RunAttempt(t, action) PROVE F
      BY <2>3, EnqueueChannel, DequeueChannel
    <2>4. ASSUME NEW action \in {"enqueue", "dequeue"}, NoAttempt(t, action) PROVE F
      BY <1>4, <2>4 DEF NoAttempt
    <2> QED BY <1>5, <2>1, <2>2, <2>3, <2>4 DEF Step
  <1>6. ASSUME NEW m \in Managers, StartCancel(m) \/ CancelDone(m) \/ NextStep(m) PROVE F
    BY <1>4, <1>6 DEF StartCancel, CancelDone, NextStep
  <1>7. CASE UNCHANGED vars
    BY <1>4, <1>7 DEF vars
  <1> QED BY <1>1, <1>2, <1>3, <1>5, <1>6, <1>7 DEF Next

LEMMA NextChannel ==
    ASSUME Restorable, TypeOK, QueueInv, ElementInv, ChannelInv, [Next]_vars
    PROVE  ChannelInv' /\ [Channel!Next]_(Channel!vars)
  <1>1. PICK i, i2 : /\ i = Items(dequeue_attempts, op, queues[1])
                     /\ i2 = Items(dequeue_attempts, op, queues[1])'
    OBVIOUS
  <1>2. PICK g, g2 : g = Given(op, dequeue_attempts) /\ g2 = Given(op, dequeue_attempts)'
    OBVIOUS
  <1>3. FrontOnly(dequeue_attempts', op') /\ ChannelStep(i, closed, g, i2, closed', g2)
    BY <1>1, <1>2, NextFollows DEF Follows
  <1>4. i \in Seq(Elements)
    BY <1>1 DEF ChannelInv
  <1>5. i2 \in Seq(Elements)
    BY <1>3, <1>4, StepKeepsElements
  <1>6. ChannelInv'
    BY <1>1, <1>3, <1>5 DEF ChannelInv
  <1>7. i = Queued /\ i2 = Queued'
    BY <1>1 DEF Items, Collected, Held, Queued
  <1>8. g = Got /\ g2 = Got'
    BY <1>2 DEF Given, GivenTo, StateOf, Started, Consumer, Kind, Consuming, Got
  <1>9. [Channel!Next]_(Channel!vars)
    <2>1. CASE i2 = i /\ (closed' = closed \/ closed' = TRUE) /\ g2 = g
      BY <1>7, <1>8, <2>1 DEF Channel!Next, Channel!Close, Channel!vars
    <2>2. CASE LoseStep(i, closed, g, i2, closed', g2)
      BY <1>7, <1>8, <2>2 DEF LoseStep, Channel!Next, Channel!Lose
    <2>3. CASE TakeStep(i, closed, g, i2, closed', g2)
      BY <1>7, <1>8, <2>3 DEF TakeStep, Channel!Next, Channel!Take
    <2>4. CASE PutStep(i, closed, g, i2, closed', g2)
      BY <1>7, <1>8, <2>4 DEF PutStep, Channel!Next, Channel!Put
    <2> QED BY <1>3, <2>1, <2>2, <2>3, <2>4 DEF ChannelStep
  <1> QED BY <1>6, <1>9

LEMMA InitChannel == ASSUME Init PROVE ChannelInv /\ Channel!Init
  <1>1. /\ dequeue_attempts = <<>> /\ queues[1] = <<>> /\ closed = FALSE
        /\ \A p \in Ops : op[p].call = <<>>
    <2>1. \A p \in Ops : op[p] = NoOp
      BY DEF Init
    <2> QED BY <2>1, QueueAssumption DEF Init, NoOp
  <1>2. Collected(dequeue_attempts, op) = <<>> /\ Held = <<>>
    BY <1>1 DEF Collected, Held
  <1>3. FirstComponent(<<>>) \o queues[1] = <<>> /\ <<>> \in Seq(Elements)
    <2>1. <<>> \in Seq(Slice) /\ <<>> \in Seq(Item) /\ <<>> \in Seq(Elements)
      BY EmptySeq
    <2>2. FirstComponent(<<>>) \o <<>> = <<>>
      BY <2>1, FirstComponentIs
    <2> QED BY <1>1, <2>1, <2>2
  <1>4. FrontOnly(dequeue_attempts, op)
    <2>1. \A i : i \notin 2 .. Len(<<>>)
      BY EmptySeq
    <2> QED BY <1>1, <2>1 DEF FrontOnly
  <1>5. ChannelInv
    BY <1>2, <1>3, <1>4 DEF ChannelInv, Items
  <1>6. Channel!Init
    BY <1>1, <1>2, <1>3 DEF Channel!Init, Queued, Got, Started
  <1> QED BY <1>5, <1>6

(* The queue is a FIFO channel that can be closed (queue_interface.h), for *)
(* any number of operations and components and any capacity: elements      *)
(* leave in the order in which they came, each to one consumer and all at  *)
(* once, or are lost with a batch that is cancelled or cannot be filled,   *)
(* and nothing comes in after Close; an EnqueueMany that is torn and a     *)
(* batch that is given back                                                *)
(* (fifo_queue.cc:75-356) keep that order.  The hypothesis excludes the    *)
(* one path that breaks it: an element that cannot be restored is replaced *)
(* by an empty tensor (fifo_queue.cc:272-282).                             *)
THEOREM QueueImplementsChannel ==
    ASSUME Restorable
    PROVE  Spec => ImplementsChannel
  <1>1. Init => ChannelInv /\ Channel!Init
    BY InitChannel
  <1>2. TypeOK /\ QueueInv /\ ElementInv /\ ChannelInv /\ [Next]_vars
        => ChannelInv' /\ [Channel!Next]_(Channel!vars)
    BY NextChannel
  <1> QED BY <1>1, <1>2, QueueInvariant, QueueElementInvariant, PTL
          DEF Spec, ImplementsChannel, Channel!Spec
=============================================================================
