------------------------- MODULE WorkerRunGraphProofs -------------------------
(***************************************************************************)
(* The worker uses its RecentRequestIds by TrackUnique only, so what holds  *)
(* of the filter alone holds of the filter in the worker.  With it the      *)
(* requests of a step are shown to go their way one after the other, and    *)
(* the executor and the last part to meet exactly once, from which the      *)
(* safety properties of RunGraph follow for any number of steps and parts.  *)
(***************************************************************************)
EXTENDS WorkerRunGraph, TLAPS

-----------------------------------------------------------------------------
(* The filter alone.  TracksRecent of RecentRequestIds holds for every      *)
(* number of tracked ids, but is not inductive: which id an insertion       *)
(* erases depends on the order of the buffer, so RecentInv adds that the    *)
(* slot written a insertions ago holds the id with the stamp count - a, and *)
(* no other slot does.                                                      *)

(* The index goes around: % on an index that is at most the size.           *)
LEMMA Wrap ==
    ASSUME NEW n \in Nat \ {0}, NEW k \in 0 .. (n - 1)
    PROVE  (k + 1) % n = IF k + 1 = n THEN 0 ELSE k + 1
  OBVIOUS

(* An id in a slot was admitted as long ago as the slot was written, and is  *)
(* therefore in the set (recent_request_ids.cc:47-51).                       *)
LEMMA SlotHoldsRecent ==
    ASSUME RecentInv, NEW k \in Slots, circular_buffer_[k] # 0
    PROVE  /\ circular_buffer_[k] \in set_
           /\ stamp[circular_buffer_[k]] = count - Age(k)
  <1>1. /\ Age(k) \in 0 .. (num_tracked_request_ids - 1) /\ Age(k) < count
        /\ stamp[circular_buffer_[k]] = count - Age(k)
        /\ circular_buffer_[k] \in RequestIds
    BY TrackedAssumption DEF RecentInv, RecentTypeOK, BufferInOrder, Age, Slots
  <1>2. Recent(circular_buffer_[k])
    BY <1>1, TrackedAssumption DEF Recent, RecentInv, RecentTypeOK
  <1> QED
    BY <1>1, <1>2 DEF RecentInv, TracksRecent

(* An insertion makes every slot one insertion older but the one it writes. *)
LEMMA AgeGrows ==
    ASSUME RecentTypeOK, Advance, NEW k \in Slots
    PROVE  /\ next_index_' \in Slots
           /\ Age(k) \in 0 .. (num_tracked_request_ids - 1)
           /\ Age(next_index_) = num_tracked_request_ids - 1
           /\ Age(k)' = IF k = next_index_ THEN 0 ELSE Age(k) + 1
  <1>1. next_index_ \in 0 .. (num_tracked_request_ids - 1)
    BY DEF RecentTypeOK, Slots
  <1>2. next_index_' = IF next_index_ + 1 = num_tracked_request_ids THEN 0 ELSE next_index_ + 1
    BY <1>1, Wrap, TrackedAssumption DEF Advance
  <1> QED
    BY <1>1, <1>2, TrackedAssumption DEF Age, Slots

(* The slot that was written a insertions ago is where it was, and is the    *)
(* oldest one exactly when a is as large as it can be.                      *)
LEMMA SlotStays ==
    ASSUME RecentTypeOK, Advance, NEW a \in 0 .. (num_tracked_request_ids - 1)
    PROVE  /\ SlotOf(a) \in Slots
           /\ a = num_tracked_request_ids - 1 => SlotOf(a) = next_index_
           /\ a # num_tracked_request_ids - 1 => SlotOf(a + 1)' = SlotOf(a)
           /\ SlotOf(0)' = next_index_
  <1>1. next_index_ \in 0 .. (num_tracked_request_ids - 1)
    BY DEF RecentTypeOK, Slots
  <1>2. next_index_' = IF next_index_ + 1 = num_tracked_request_ids THEN 0 ELSE next_index_ + 1
    BY <1>1, Wrap, TrackedAssumption DEF Advance
  <1> QED
    BY <1>1, <1>2, TrackedAssumption DEF SlotOf, Slots

(* An id that survives the insertion of another one was not the oldest.     *)
LEMMA Survivor ==
    ASSUME RecentInv, Advance, NEW i \in set_, i # circular_buffer_[next_index_]
    PROVE  /\ count - stamp[i] \in 0 .. (num_tracked_request_ids - 2)
           /\ SlotOf(count - stamp[i]) \in Slots \ {next_index_}
           /\ circular_buffer_[SlotOf(count - stamp[i])] = i
  <1> DEFINE a == count - stamp[i]
  <1>1. a \in 0 .. (num_tracked_request_ids - 1)
    BY TrackedAssumption DEF RecentInv, RecentTypeOK, TracksRecent, Recent
  <1>2. circular_buffer_[SlotOf(a)] = i
    BY DEF RecentInv, BufferInOrder
  <1>3. RecentTypeOK
    BY DEF RecentInv
  <1> HIDE DEF a
  <1>4. a # num_tracked_request_ids - 1 /\ SlotOf(a) \in Slots \ {next_index_}
    BY <1>1, <1>2, <1>3, SlotStays
  <1>5. a \in 0 .. (num_tracked_request_ids - 2)
    BY <1>1, <1>4, TrackedAssumption
  <1> QED
    BY <1>2, <1>4, <1>5 DEF a

(* InsertNew keeps the order of the buffer and what it says of the set.     *)
LEMMA InsertNewInv ==
    ASSUME RecentInv, NEW id \in RequestIds, InsertNew(id)
    PROVE  RecentInv'
  <1> DEFINE old == circular_buffer_[next_index_]
  <1> USE TrackedAssumption, RequestIdAssumption
  <1>a. RecentTypeOK /\ Advance /\ next_index_ \in Slots /\ id # 0 /\ id \notin set_
    BY DEF RecentInv, RecentTypeOK, InsertNew
  <1>b. /\ set_' = (set_ \cup {id}) \ {old}
        /\ circular_buffer_' = [circular_buffer_ EXCEPT ![next_index_] = id]
        /\ count' = count + 1
        /\ stamp' = [stamp EXCEPT ![id] = count + 1]
    BY DEF InsertNew, Evict
  <1>c. old # id
    BY <1>a, SlotHoldsRecent
  <1>d. /\ stamp \in [RequestIds -> 0 .. count] /\ count \in Nat /\ set_ \subseteq RequestIds
        /\ circular_buffer_ \in [Slots -> RequestIds \cup {0}]
        /\ \A k \in Slots : circular_buffer_[k] # 0 <=> Age(k) < count
    BY DEF RecentInv, RecentTypeOK, BufferInOrder
  <1>1. RecentTypeOK'
    <2>1. next_index_' \in Slots
      BY <1>a, AgeGrows
    <2>2. stamp' \in [RequestIds -> 0 .. count'] /\ count' \in Nat
      BY <1>b, <1>d
    <2>3. circular_buffer_' \in [Slots -> RequestIds \cup {0}] /\ set_' \subseteq RequestIds
      BY <1>a, <1>b, <1>d
    <2> QED
      BY <2>1, <2>2, <2>3 DEF RecentTypeOK, Slots
  <1>2. TracksRecent'
    <2> SUFFICES ASSUME NEW i \in RequestIds
                 PROVE  i \in set_' <=> stamp'[i] > 0 /\ count' - stamp'[i] < num_tracked_request_ids
      BY DEF TracksRecent, Recent
    <2>1. CASE i = id
      BY <2>1, <1>b, <1>c, <1>d
    <2>2. CASE i # id
      <3>1. i \in set_' <=> i \in set_ /\ i # old
        BY <2>2, <1>b
      <3>2. ASSUME i \in set_, i # old
            PROVE  stamp[i] > 0 /\ count + 1 - stamp[i] < num_tracked_request_ids
        <4>1. count - stamp[i] \in 0 .. (num_tracked_request_ids - 2)
          BY <3>2, <1>a, Survivor
        <4>2. stamp[i] > 0
          BY <3>2 DEF RecentInv, TracksRecent, Recent
        <4> QED
          BY <4>1, <4>2, <1>d
      <3>3. ASSUME stamp[i] > 0, count + 1 - stamp[i] < num_tracked_request_ids
            PROVE  i \in set_ /\ i # old
        <4>1. i \in set_
          BY <3>3, <1>d DEF RecentInv, TracksRecent, Recent
        <4>2. i = old => stamp[i] = count - Age(next_index_)
          BY <1>a, SlotHoldsRecent
        <4>3. Age(next_index_) = num_tracked_request_ids - 1
          BY <1>a, AgeGrows
        <4> QED
          BY <3>3, <4>1, <4>2, <4>3, <1>d
      <3>4. /\ stamp'[i] > 0 <=> stamp[i] > 0
            /\ count' - stamp'[i] < num_tracked_request_ids
                 <=> count + 1 - stamp[i] < num_tracked_request_ids
        <4>1. stamp'[i] = stamp[i] /\ count' = count + 1
          BY <2>2, <1>b, <1>d
        <4> QED
          BY <4>1, <1>d
      <3>5. i \in set_ /\ i # old
              <=> stamp[i] > 0 /\ count + 1 - stamp[i] < num_tracked_request_ids
        BY <3>2, <3>3
      <3> QED
        BY <3>1, <3>4, <3>5, Zenon
    <2> QED
      BY <2>1, <2>2
  <1>3. ASSUME NEW k \in Slots
        PROVE  /\ circular_buffer_'[k] # 0 <=> Age(k)' < count'
               /\ circular_buffer_'[k] # 0 => stamp'[circular_buffer_'[k]] = count' - Age(k)'
    <2>1. /\ Age(k)' = IF k = next_index_ THEN 0 ELSE Age(k) + 1
          /\ Age(k) \in 0 .. (num_tracked_request_ids - 1)
      BY <1>3, <1>a, AgeGrows
    <2>2. CASE k = next_index_
      BY <2>1, <2>2, <1>a, <1>b, <1>d
    <2>3. CASE k # next_index_
      <3>1. circular_buffer_'[k] = circular_buffer_[k]
        BY <2>3, <1>3, <1>b, <1>d
      <3>2. circular_buffer_[k] # 0 =>
              /\ circular_buffer_[k] # id /\ circular_buffer_[k] \in RequestIds
              /\ stamp[circular_buffer_[k]] = count - Age(k)
        BY <1>3, <1>a, <1>d, SlotHoldsRecent
      <3>3. circular_buffer_[k] # 0 => stamp'[circular_buffer_[k]] = count - Age(k)
        BY <3>2, <1>b, <1>d
      <3> QED
        BY <2>1, <2>3, <3>1, <3>3, <1>3, <1>b, <1>d
    <2> QED
      BY <2>2, <2>3
  <1>4. ASSUME NEW i \in set_'
        PROVE  circular_buffer_'[SlotOf(count - stamp[i])'] = i
    <2>1. CASE i = id
      <3>1. (count - stamp[i])' = 0
        BY <2>1, <1>b, <1>d
      <3>2. SlotOf(0)' = next_index_
        BY <1>a, SlotStays
      <3> QED
        BY <2>1, <3>1, <3>2, <1>a, <1>b, <1>d DEF SlotOf
    <2>2. CASE i # id
      <3>1. i \in set_ /\ i # old /\ i \in RequestIds
        BY <2>2, <1>4, <1>b, <1>d
      <3>2. PICK a \in 0 .. (num_tracked_request_ids - 2) :
              /\ a = count - stamp[i]
              /\ SlotOf(a) \in Slots \ {next_index_}
              /\ circular_buffer_[SlotOf(a)] = i
        BY <3>1, <1>a, Survivor
      <3>3. (count - stamp[i])' = a + 1
        BY <3>1, <3>2, <2>2, <1>b, <1>d
      <3>4. SlotOf(a + 1)' = SlotOf(a)
        BY <3>2, <1>a, SlotStays
      <3>5. SlotOf(count - stamp[i])' = SlotOf(a)
        BY <3>3, <3>4 DEF SlotOf
      <3> QED
        BY <3>2, <3>5, <1>b, <1>d
    <2> QED
      BY <2>1, <2>2
  <1> QED
    BY <1>1, <1>2, <1>3, <1>4 DEF RecentInv, BufferInOrder, Slots

(* RecentInv holds at the start, when the buffer is all zeros.              *)
LEMMA RecentInitInv == RecentInit => RecentInv
  BY TrackedAssumption, RequestIdAssumption
     DEF RecentInit, RecentInv, RecentTypeOK, TracksRecent, Recent, BufferInOrder, Slots, Age

(* What is not about the filter leaves the invariant alone.                 *)
LEMMA RecentFrame == RecentInv /\ UNCHANGED recentVars => RecentInv'
  BY DEF RecentInv, RecentTypeOK, TracksRecent, Recent, BufferInOrder, Slots, Age, SlotOf, recentVars

(* recent_request_ids.h:56 - for every number of tracked ids, TrackUnique     *)
(* knows exactly the ids of the last num_tracked_request_ids insertions.     *)
THEOREM FilterExact == RecentSpec => []TracksRecent
  <1>1. RecentInv /\ [RecentNext]_recentVars => RecentInv'
    <2> SUFFICES ASSUME RecentInv, [RecentNext]_recentVars PROVE RecentInv'
      OBVIOUS
    <2>1. ASSUME NEW id \in RequestIds, InsertNew(id) PROVE RecentInv'
      BY <2>1, InsertNewInv
    <2>2. ASSUME NEW id \in RequestIds, InsertSeen(id) PROVE RecentInv'
      BY <2>2, RecentFrame DEF InsertSeen
    <2>3. CASE UNCHANGED recentVars
      BY <2>3, RecentFrame
    <2> QED
      BY <2>1, <2>2, <2>3 DEF RecentNext
  <1>2. RecentInv => TracksRecent
    BY DEF RecentInv
  <1> QED
    BY RecentInitInv, <1>1, <1>2, PTL DEF RecentSpec

-----------------------------------------------------------------------------
(* The filter in the worker, and the worker.                                *)

(* worker.cc:166, :265 - every step of the worker is a TrackUnique, with the *)
(* id of a request, or leaves the filter alone: the worker implements the    *)
(* specification of the filter.                                              *)
THEOREM UsesFilter == Spec => RecentSpec
  <1>1. Init => RecentInit
    BY DEF Init
  <1>2. [Next]_vars => [RecentNext]_recentVars
    <2> SUFFICES ASSUME [Next]_vars PROVE [RecentNext]_recentVars
      OBVIOUS
    <2>1. ASSUME NEW r \in Requests, Track(r) PROVE RecentNext
      BY <2>1, IdsAssumption DEF Track, RecentNext
    <2>2. ASSUME NEW r \in Requests, Cancel(r) \/ AbortStep(r) PROVE UNCHANGED recentVars
      BY <2>2 DEF Cancel, AbortStep
    <2>3. ASSUME NEW r \in Requests, Handler(r) PROVE UNCHANGED recentVars
      BY <2>3 DEF Handler, Reject, RunGraph, FindOrCreate, SetCancelCallback, ExecuteAsync,
                  ExecuteFails, SendInputs, RecvOutputsAsync, Received, Finish, RunGraphDone,
                  RunGraphAnswer
    <2>4. ASSUME NEW s \in Steps, CleanupGraph(s) PROVE UNCHANGED recentVars
      BY <2>4 DEF CleanupGraph
    <2>5. ASSUME NEW x \in Requests, ExecutorEnds(x) \/ ExecutorFails(x) \/ AfterExecutor(x)
          PROVE  UNCHANGED recentVars
      BY <2>5 DEF AfterExecutor, ExecutorEnds, ExecutorFails, ExecutorDone, ExecutorFinish, Erase
    <2>6. CASE UNCHANGED vars
      BY <2>6 DEF vars
    <2> QED
      BY <2>1, <2>2, <2>3, <2>4, <2>5, <2>6 DEF Next
  <1> QED
    BY <1>1, <1>2, PTL DEF Spec, RecentSpec

(* recent_request_ids.h:56 - on a worker, for any number of steps and parts,  *)
(* the filter knows exactly the ids of the last insertions.                   *)
THEOREM WorkerTracksRecent == Spec => []TracksRecent
  BY UsesFilter, FilterExact, PTL

-----------------------------------------------------------------------------
(* The inductive invariant of the requests.                                 *)

Statuses == {"OK", "Duplicate", "Invalid", "NotSent", "Aborted", "NotExecuted", "ExecutorError"}
RpcPCs == {"unsent", "admitted", "found", "created", "execute", "executing", "send_inputs", "receive",
           "receiving", "waiting", "finishing", "dropped", "cleared", "answered"}
Rpc == [pc : RpcPCs, status : Statuses, cancel_func : BOOLEAN, cancelled : BOOLEAN,
        abort : SUBSET Nat, cm : Requests, gen : Nat]
Callbacks == Requests \cup {NoCallback}
PartialRun == [exists : {TRUE}, cm : Requests, executor_done : BOOLEAN, final_callback : Callbacks,
               final_status : Statuses]
Runs == PartialRun \cup {NoRun}
Exec == [pc : {"none", "running", "ended", "callback", "done"}, status : Statuses,
         callback : Callbacks, gen : Nat]
CmStates == {"none", "live", "cancelled", "freed", "used after free"}
Rendezvous == [gen : Nat, inputs : SUBSET (Nat \X Nat), aborted : BOOLEAN]

WorkerTypeOK ==
    /\ rpc \in [Requests -> Rpc]
    /\ run \in [Ints -> Runs]
    /\ cm \in [Requests -> CmStates]
    /\ exec \in [Requests -> Exec]
    /\ rendezvous \in [Steps -> Rendezvous]
    /\ erasing \subseteq Requests
    /\ starts \in [Steps -> Nat]
    /\ answers \in [Requests -> Nat]

(* Which steps can meet in a run: partial runs whose ids agree as an int.   *)
InRun(s, i) == s \in Partial /\ Narrow(s) = i
SameRun(s, t) == s \in Partial /\ InRun(t, Narrow(s))

(* Where a request points to and what a thread holds is of its own step, or *)
(* of one that meets it in a run.                                           *)
RpcOwner(r) ==
    /\ rpc[r].cm[1] = r[1] \/ SameRun(rpc[r].cm[1], r[1])
    /\ rpc[r].pc \in {"found", "created", "send_inputs", "receive", "receiving", "waiting",
                      "finishing"} => r[1] \in Partial
ExecOwner(x) ==
    exec[x].pc = "callback" => exec[x].callback \in Requests /\ SameRun(exec[x].callback[1], x[1])
RunOwner(i) ==
    run[i].exists => /\ InRun(run[i].cm[1], i)
                     /\ run[i].final_callback # NoCallback => InRun(run[i].final_callback[1], i)

OwnerInv ==
    /\ \A r \in Requests : RpcOwner(r)
    /\ \A x \in Requests : ExecOwner(x)
    /\ \A i \in Ints : RunOwner(i)
    /\ \A r \in erasing : r[1] \in Partial

First(s) == <<s, 1, 1>>
Last(s) == <<s, LastPart(s), 1>>

(* The run of s, and its executors.                                         *)
Run(s) == IF s \in Partial THEN run[Narrow(s)] ELSE NoRun
Ex(s) == exec[First(s)]

(* A status of the executor that is not OK is the status of r.              *)
Precedence(r) == Ex(r[1]).status # "OK" => rpc[r].status = Ex(r[1]).status

(* A request that was delivered again is refused, and is not seen again.    *)
CopyInv(r) ==
    r[3] = 2 => /\ rpc[r].pc \in {"unsent", "answered"}
                /\ rpc[r].pc = "answered" => rpc[r].status = "Duplicate"

(* Parts are sent one after the other.                                      *)
OrderInv(r) ==
    r[3] = 1 /\ rpc[r].pc # "unsent" =>
        \A q \in Requests : q[1] = r[1] /\ q[3] = 1 /\ q[2] < r[2] => AnsweredOK(q)

(* Where a request can be, whose manager it points to, and that it has been *)
(* answered once if at all.                                                 *)
PlaceInv(r) ==
    /\ answers[r] = IF rpc[r].pc = "answered" THEN 1 ELSE 0
    /\ rpc[r].cancel_func => rpc[r].pc \in {"execute", "executing", "send_inputs", "receive",
                                            "receiving", "waiting", "finishing"}
    /\ rpc[r].pc \in {"created", "execute", "executing", "cleared"} => r[2] = 1
    /\ rpc[r].pc \in {"found", "send_inputs"} => r[2] # 1
    /\ rpc[r].pc \in {"executing", "cleared"} => r[1] \notin Partial
    /\ rpc[r].pc \in {"waiting", "finishing"} => IsLast(r)
    /\ rpc[r].pc # "dropped"
    /\ rpc[r].pc \in {"unsent", "admitted"} => rpc[r].cm = r
    /\ rpc[r].pc \notin {"unsent", "admitted", "answered"} => rpc[r].cm = First(r[1])

(* What the first part of s finds, and what it leaves to the others.        *)
BeginInv(s) ==
    /\ rpc[First(s)].pc \in {"unsent", "admitted"} => ~Run(s).exists
    /\ rpc[First(s)].pc \in {"unsent", "admitted", "created", "execute"} =>
           Ex(s).pc = "none" /\ starts[s] = 0
    /\ starts[s] <= 1
    /\ Run(s).exists => Run(s).cm = First(s)
    /\ /\ s \in Partial
       /\ \/ rpc[First(s)].pc \in {"created", "execute", "receive", "receiving", "waiting",
                                   "finishing"}
          \/ AnsweredOK(First(s))
       /\ rpc[Last(s)].pc # "answered"
       => Run(s).exists

(* How the executor and the last part meet: whoever comes second answers.   *)
MeetInv(s) ==
    /\ Ex(s).pc = "callback" => /\ Ex(s).callback = Last(s)
                                /\ rpc[Last(s)].pc = "waiting" /\ Precedence(Last(s))
    /\ Run(s).exists =>
          /\ Run(s).final_callback # NoCallback =>
                /\ Run(s).final_callback = Last(s) /\ rpc[Last(s)].pc = "waiting"
                /\ ~Run(s).executor_done
          /\ Run(s).executor_done => /\ Ex(s).pc \in {"callback", "done"}
                                     /\ Ex(s).status # "OK" => Run(s).final_status = Ex(s).status
          /\ Ex(s).pc = "callback" => Run(s).executor_done
    /\ rpc[Last(s)].pc = "finishing" => Ex(s).pc = "done" /\ Precedence(Last(s))
    /\ rpc[Last(s)].pc = "cleared" => Ex(s).pc = "ended" /\ Precedence(Last(s))
    /\ rpc[Last(s)].pc = "answered" =>
          \/ rpc[Last(s)].status \in {"Duplicate", "Invalid", "NotSent"}
          \/ Ex(s).pc = "done" /\ Precedence(Last(s))
    /\ cm[First(s)] = "freed" => rpc[Last(s)].pc = "answered"

(* Only the first part makes a manager and starts executors, the run goes   *)
(* after the last part, and no manager is used after it has gone.           *)
MadeInv(s) ==
    \A r \in Requests : r[1] = s =>
        /\ r # First(s) => exec[r].pc = "none" /\ cm[r] = "none"
        /\ r \in erasing => r = Last(s) /\ rpc[r].pc = "answered"
        /\ cm[r] # "used after free"

StepInv(s) ==
    /\ \A r \in Requests : r[1] = s => CopyInv(r) /\ OrderInv(r) /\ PlaceInv(r)
    /\ BeginInv(s) /\ MeetInv(s) /\ MadeInv(s)

WorkerInv == \A s \in Steps : Regular(s) => StepInv(s)

-----------------------------------------------------------------------------
(* The parts of a request, and the first and the last part of a step.       *)
LEMMA RequestParts ==
    ASSUME NEW r \in Requests
    PROVE  /\ r[1] \in Steps /\ r[2] \in 1 .. LastPart(r[1]) /\ r[3] \in 1 .. 2
           /\ r = <<r[1], r[2], r[3]>> /\ r # NoCallback
           /\ r[2] = 1 /\ r[3] = 1 => r = First(r[1])
           /\ IsLast(r) /\ r[3] = 1 => r = Last(r[1])
  <1>1. r \in Steps \X (1 .. NumParts) \X (1 .. 2) /\ r[2] <= LastPart(r[1])
    BY DEF Requests
  <1>2. r[1] \in Steps /\ r[2] \in 1 .. NumParts /\ r[3] \in 1 .. 2 /\ r = <<r[1], r[2], r[3]>>
    BY <1>1
  <1>3. LastPart(r[1]) \in Nat
    BY PartsAssumption DEF LastPart
  <1>4. r[2] \in 1 .. LastPart(r[1])
    BY <1>1, <1>2, <1>3
  <1>5. r # NoCallback
    <2>1. Len(r) = 3
      BY <1>2
    <2>2. Len(NoCallback) = 0
      BY DEF NoCallback
    <2> QED BY <2>1, <2>2
  <1> QED BY <1>2, <1>4, <1>5 DEF First, Last, IsLast

LEMMA FirstAndLast ==
    ASSUME NEW s \in Steps
    PROVE  /\ First(s) \in Requests /\ First(s)[1] = s /\ First(s)[2] = 1 /\ First(s)[3] = 1
           /\ Last(s) \in Requests /\ Last(s)[1] = s /\ Last(s)[2] = LastPart(s) /\ Last(s)[3] = 1
           /\ LastPart(s) \in Nat \ {0} /\ IsLast(Last(s))
           /\ s \notin Partial => First(s) = Last(s)
           /\ \A r \in Requests : r[1] = s => (r[2] = 1 /\ r[3] = 1 <=> r = First(s))
           /\ \A r \in Requests : r[1] = s => (IsLast(r) /\ r[3] = 1 <=> r = Last(s))
  <1>1. LastPart(s) \in Nat \ {0} /\ LastPart(s) <= NumParts /\ NumParts \in Nat \ {0}
    BY PartsAssumption DEF LastPart
  <1>2. First(s) \in Requests /\ Last(s) \in Requests
    BY <1>1 DEF First, Last, Requests
  <1>3. First(s)[1] = s /\ First(s)[2] = 1 /\ First(s)[3] = 1
    BY DEF First
  <1>4. Last(s)[1] = s /\ Last(s)[2] = LastPart(s) /\ Last(s)[3] = 1
    BY DEF Last
  <1>5. s \notin Partial => First(s) = Last(s)
    BY DEF First, Last, LastPart
  <1>6. \A r \in Requests : r[1] = s => (r[2] = 1 /\ r[3] = 1 <=> r = First(s))
    BY <1>3, RequestParts
  <1>7. \A r \in Requests : r[1] = s => (IsLast(r) /\ r[3] = 1 <=> r = Last(s))
    BY <1>4, RequestParts DEF IsLast
  <1> QED BY <1>1, <1>2, <1>3, <1>4, <1>5, <1>6, <1>7 DEF IsLast

(* The ways to move a request.                                              *)
LEMMA GotoEffect ==
    ASSUME WorkerTypeOK, NEW r \in Requests, NEW pc \in RpcPCs, Goto(r, pc)
    PROVE  /\ rpc' \in [Requests -> Rpc]
           /\ rpc'[r].pc = pc /\ rpc'[r].status = rpc[r].status
           /\ rpc'[r].cancel_func = rpc[r].cancel_func /\ rpc'[r].cm = rpc[r].cm
           /\ \A q \in Requests \ {r} : rpc'[q] = rpc[q]
  BY DEF WorkerTypeOK, Goto, Rpc

LEMMA AnswerEffect ==
    ASSUME WorkerTypeOK, NEW r \in Requests, NEW status \in Statuses, Answer(r, status)
    PROVE  /\ rpc' \in [Requests -> Rpc]
           /\ rpc'[r].pc = "answered" /\ rpc'[r].status = status /\ rpc'[r].cancel_func = FALSE
           /\ rpc'[r].cm = rpc[r].cm
           /\ \A q \in Requests \ {r} : rpc'[q] = rpc[q]
           /\ answers' \in [Requests -> Nat]
           /\ answers'[r] = answers[r] + 1
           /\ \A q \in Requests \ {r} : answers'[q] = answers[q]
  <1>1. rpc' \in [Requests -> Rpc]
    <2> DEFINE new == [rpc[r] EXCEPT !.pc = "answered", !.status = status, !.cancel_func = FALSE]
    <2>1. rpc[r] \in Rpc /\ "answered" \in RpcPCs
      BY DEF WorkerTypeOK, RpcPCs
    <2>2. new \in Rpc
      BY <2>1 DEF Rpc
    <2>3. rpc' = [rpc EXCEPT ![r] = new]
      BY DEF Answer
    <2> HIDE DEF new
    <2> QED BY <2>2, <2>3 DEF WorkerTypeOK
  <1>2. /\ rpc'[r].pc = "answered" /\ rpc'[r].status = status /\ rpc'[r].cancel_func = FALSE
        /\ rpc'[r].cm = rpc[r].cm
        /\ \A q \in Requests \ {r} : rpc'[q] = rpc[q]
    BY DEF WorkerTypeOK, Answer, Rpc
  <1>3. /\ answers' \in [Requests -> Nat]
        /\ answers'[r] = answers[r] + 1
        /\ \A q \in Requests \ {r} : answers'[q] = answers[q]
    BY DEF WorkerTypeOK, Answer
  <1> QED BY <1>1, <1>2, <1>3

(* Only r moves, and nobody takes hold of anything new.                     *)
LEMMA OwnerMove ==
    ASSUME OwnerInv, NEW r \in Requests, \A q \in Requests \ {r} : rpc'[q] = rpc[q],
           RpcOwner(r)', UNCHANGED <<run, exec, erasing>>
    PROVE  OwnerInv'
  <1>1. ASSUME NEW q \in Requests PROVE RpcOwner(q)'
    BY DEF OwnerInv, RpcOwner
  <1>2. ASSUME NEW q \in Requests PROVE ExecOwner(q)'
    BY DEF OwnerInv, ExecOwner
  <1>3. ASSUME NEW i \in Ints PROVE RunOwner(i)'
    BY DEF OwnerInv, RunOwner
  <1> QED BY <1>1, <1>2, <1>3 DEF OwnerInv

LEMMA NarrowInts ==
    ASSUME NEW s \in Steps
    PROVE  Narrow(s) \in Ints
  BY DEF Ints

(* A step that is alone in its int is not met by another one.               *)
LEMMA Alone ==
    ASSUME NEW t \in Steps, Regular(t), NEW s \in Steps \ {t}
    PROVE  ~SameRun(s, t) /\ ~SameRun(t, s)
  BY DEF Regular, SameRun, InRun

LEMMA RunKept ==
    ASSUME NEW s \in Partial, \A i \in Ints \ {Narrow(s)} : run'[i] = run[i]
    PROVE  \A t \in Steps \ {s} : Regular(t) => Run(t)' = Run(t)
  BY NarrowInts DEF Regular, Run

(* Nothing that the invariant of t speaks of has changed.                   *)
Kept(t) ==
    /\ \A r \in Requests : r[1] = t => /\ rpc'[r].pc = rpc[r].pc /\ rpc'[r].status = rpc[r].status
                                       /\ rpc'[r].cancel_func = rpc[r].cancel_func
                                       /\ rpc'[r].cm = rpc[r].cm
                                       /\ answers'[r] = answers[r] /\ exec'[r] = exec[r]
                                       /\ cm'[r] = cm[r] /\ (r \in erasing' <=> r \in erasing)
    /\ Run(t)' = Run(t) /\ starts'[t] = starts[t]

LEMMA StepFrame ==
    ASSUME NEW t \in Steps, StepInv(t), Kept(t)
    PROVE  StepInv(t)'
  <1>1. First(t) \in Requests /\ First(t)[1] = t /\ Last(t) \in Requests /\ Last(t)[1] = t
    BY FirstAndLast
  <1>2. ASSUME NEW r \in Requests, r[1] = t PROVE (CopyInv(r) /\ OrderInv(r) /\ PlaceInv(r))'
    <2>1. CopyInv(r) /\ OrderInv(r) /\ PlaceInv(r)
      BY <1>2 DEF StepInv
    <2>2. CopyInv(r)'
      BY <1>2, <2>1 DEF CopyInv, Kept
    <2>3. OrderInv(r)'
      BY <1>2, <2>1 DEF OrderInv, Kept, AnsweredOK
    <2>4. PlaceInv(r)'
      BY <1>2, <2>1 DEF PlaceInv, Kept
    <2> QED BY <2>2, <2>3, <2>4
  <1>3. Ex(t)' = Ex(t)
    BY <1>1 DEF Ex, Kept
  <1>4. BeginInv(t)'
    BY <1>1, <1>3 DEF StepInv, BeginInv, Kept, AnsweredOK
  <1>5. MeetInv(t)'
    BY <1>1, <1>3 DEF StepInv, MeetInv, Kept, Precedence
  <1>6. MadeInv(t)'
    <2> SUFFICES ASSUME NEW r \in Requests, r[1] = t
                 PROVE  /\ r # First(t) => exec'[r].pc = "none" /\ cm'[r] = "none"
                        /\ r \in erasing' => r = Last(t) /\ rpc'[r].pc = "answered"
                        /\ cm'[r] # "used after free"
      BY DEF MadeInv
    <2>1. MadeInv(t)
      BY DEF StepInv
    <2>2. /\ r # First(t) => exec[r].pc = "none" /\ cm[r] = "none"
          /\ r \in erasing => r = Last(t) /\ rpc[r].pc = "answered"
          /\ cm[r] # "used after free"
      BY <2>1 DEF MadeInv
    <2>3. exec'[r] = exec[r] /\ cm'[r] = cm[r] /\ (r \in erasing' <=> r \in erasing)
          /\ rpc'[r].pc = rpc[r].pc
      BY DEF Kept
    <2> QED BY <2>2, <2>3
  <1> QED BY <1>2, <1>4, <1>5, <1>6 DEF StepInv

LEMMA OneStep ==
    ASSUME WorkerInv, NEW s \in Steps, Regular(s) => StepInv(s)',
           \A t \in Steps \ {s} : Regular(t) => Kept(t)
    PROVE  WorkerInv'
  BY StepFrame DEF WorkerInv, Regular

(* A part puts its inputs into the rendezvous.                              *)
LEMMA InputsTyped ==
    ASSUME WorkerTypeOK, NEW r \in Requests,
           \/ rendezvous' = [rendezvous EXCEPT ![r[1]].inputs = @ \cup {<<rendezvous[r[1]].gen, r[2]>>}]
           \/ rendezvous' = rendezvous
    PROVE  rendezvous' \in [Steps -> Rendezvous]
  <1>1. PICK s \in Steps : s = r[1]
    BY RequestParts
  <1>2. r[2] \in Nat /\ rendezvous[s] \in Rendezvous
    BY <1>1, RequestParts, FirstAndLast DEF WorkerTypeOK
  <1> DEFINE new == [rendezvous[s] EXCEPT !.inputs = @ \cup {<<rendezvous[s].gen, r[2]>>}]
  <1>3. new \in Rendezvous
    BY <1>2 DEF Rendezvous
  <1>4. rendezvous' = [rendezvous EXCEPT ![s] = new] \/ rendezvous' = rendezvous
    BY <1>1
  <1> HIDE DEF new
  <1> QED BY <1>3, <1>4 DEF WorkerTypeOK

(* A request that is on its way moves, and the other requests of its step   *)
(* are as they were.                                                        *)
LEMMA OneMoves ==
    ASSUME NEW r \in Requests, StepInv(r[1]),
           \A q \in Requests \ {r} : rpc'[q] = rpc[q] /\ answers'[q] = answers[q],
           rpc[r].pc \notin {"unsent", "answered"}, rpc'[r].pc # "unsent",
           PlaceInv(r)'
    PROVE  \A q \in Requests : q[1] = r[1] => (CopyInv(q) /\ OrderInv(q) /\ PlaceInv(q))'
  <1> SUFFICES ASSUME NEW q \in Requests, q[1] = r[1]
               PROVE  (CopyInv(q) /\ OrderInv(q) /\ PlaceInv(q))'
    OBVIOUS
  <1>1. /\ CopyInv(q) /\ OrderInv(q) /\ PlaceInv(q) /\ CopyInv(r) /\ OrderInv(r) /\ PlaceInv(r)
        /\ r[2] \in Nat /\ q[2] \in Nat /\ r[3] \in 1 .. 2
    <2>1. LastPart(r[1]) \in Nat
      BY RequestParts, FirstAndLast
    <2> QED BY <2>1, RequestParts DEF StepInv
  <1>2. r[3] = 1
    BY <1>1 DEF CopyInv
  <1>3. CopyInv(q)'
    BY <1>1, <1>2 DEF CopyInv
  <1>4. PlaceInv(q)'
    BY <1>1 DEF PlaceInv
  <1>5. OrderInv(q)'
    <2>1. CASE q = r
      <3>1. \A p \in Requests : p[1] = r[1] /\ p[3] = 1 /\ p[2] < r[2] => p # r /\ AnsweredOK(p)
        BY <1>1, <1>2 DEF OrderInv
      <3> QED BY <2>1, <3>1 DEF OrderInv, AnsweredOK
    <2>2. CASE q # r
      <3>1. ASSUME q[3] = 1, rpc[q].pc # "unsent", NEW p \in Requests,
                   p[1] = q[1], p[3] = 1, p[2] < q[2]
            PROVE  p # r /\ AnsweredOK(p)
        BY <1>1, <3>1 DEF OrderInv, AnsweredOK
      <3> QED BY <2>2, <3>1 DEF OrderInv, AnsweredOK
    <2> QED BY <2>1, <2>2
  <1> QED BY <1>3, <1>4, <1>5

(* While a part is on its way, the parts before it have been answered OK    *)
(* and the ones behind it have not been sent.                               *)
LEMMA InProgress ==
    ASSUME NEW r \in Requests, StepInv(r[1]), rpc[r].pc \notin {"unsent", "answered"}
    PROVE  /\ r[3] = 1
           /\ r = First(r[1]) \/ (AnsweredOK(First(r[1])) /\ r[2] > 1)
           /\ r = Last(r[1]) \/ (rpc[Last(r[1])].pc = "unsent" /\ ~IsLast(r))
           /\ r[2] = 1 <=> r = First(r[1])
           /\ IsLast(r) <=> r = Last(r[1])
  <1>1. /\ CopyInv(r) /\ OrderInv(r) /\ r[1] \in Steps /\ r[2] \in 1 .. LastPart(r[1])
        /\ r[3] \in 1 .. 2
    BY RequestParts DEF StepInv
  <1>2. r[3] = 1
    BY <1>1 DEF CopyInv
  <1>3. PICK f \in Requests, l \in Requests :
           /\ f = First(r[1]) /\ f[1] = r[1] /\ f[2] = 1 /\ f[3] = 1
           /\ l = Last(r[1]) /\ l[1] = r[1] /\ l[2] = LastPart(r[1]) /\ l[3] = 1
           /\ LastPart(r[1]) \in Nat
    BY <1>1, FirstAndLast
  <1>4. (r[2] = 1 <=> r = f) /\ (IsLast(r) <=> r = l)
    BY <1>1, <1>2, <1>3, FirstAndLast
  <1>5. r # f => AnsweredOK(f) /\ r[2] > 1
    BY <1>1, <1>2, <1>3, <1>4 DEF OrderInv
  <1>6. r # l => r[2] < l[2]
    BY <1>1, <1>3, <1>4 DEF IsLast
  <1>7. OrderInv(l)
    BY <1>3 DEF StepInv
  <1>8. r # l => rpc[l].pc = "unsent"
    BY <1>2, <1>3, <1>6, <1>7 DEF OrderInv, AnsweredOK
  <1> QED BY <1>2, <1>3, <1>4, <1>5, <1>8

-----------------------------------------------------------------------------
(* The handler, action by action.                                           *)

LEMMA TrackInv ==
    ASSUME WorkerTypeOK, OwnerInv, WorkerInv, TracksRecent, NEW r \in Requests, Track(r)
    PROVE  WorkerTypeOK' /\ OwnerInv' /\ WorkerInv'
  <1>1. PICK s \in Steps : s = r[1]
    BY RequestParts
  <1>2. /\ rpc[r].pc = "unsent" /\ UNCHANGED <<run, cm, exec, rendezvous, erasing, starts>>
        /\ r[3] \in 1 .. 2 /\ rpc[r] \in Rpc
    BY <1>1, RequestParts DEF Track, stepVars, WorkerTypeOK
  <1>3. PICK f \in Requests, l \in Requests : f = First(s) /\ l = Last(s) /\ f[1] = s /\ l[1] = s
    BY FirstAndLast
  <1>4. \/ Goto(r, "admitted") /\ UNCHANGED answers /\ IdOf(r) \notin set_
        \/ Answer(r, "Duplicate")
    BY DEF Track, InsertNew
  <1>5. /\ rpc' \in [Requests -> Rpc] /\ answers' \in [Requests -> Nat]
        /\ \A q \in Requests \ {r} : rpc'[q] = rpc[q] /\ answers'[q] = answers[q]
        /\ rpc'[r].cancel_func => rpc[r].cancel_func
        /\ rpc'[r].cm = rpc[r].cm
        /\ \/ rpc'[r].pc = "admitted" /\ answers'[r] = answers[r] /\ IdOf(r) \notin set_
           \/ rpc'[r].pc = "answered" /\ rpc'[r].status = "Duplicate" /\ answers'[r] = answers[r] + 1
    <2>1. CASE Goto(r, "admitted") /\ UNCHANGED answers /\ IdOf(r) \notin set_
      <3>1. "admitted" \in RpcPCs
        BY DEF RpcPCs
      <3> QED BY <2>1, <3>1, GotoEffect DEF WorkerTypeOK
    <2>2. CASE Answer(r, "Duplicate")
      <3>1. "Duplicate" \in Statuses
        BY DEF Statuses
      <3> QED BY <2>2, <3>1, AnswerEffect
    <2> QED BY <1>4, <2>1, <2>2
  <1>6. WorkerTypeOK'
    BY <1>2, <1>5 DEF WorkerTypeOK
  <1>7. OwnerInv'
    <2>1. RpcOwner(r)'
      BY <1>5 DEF OwnerInv, RpcOwner
    <2> QED BY <1>2, <1>5, <2>1, OwnerMove
  <1>8. \A t \in Steps \ {s} : Kept(t)
    BY <1>1, <1>2, <1>5 DEF Kept, Run
  <1>9. ASSUME Regular(s) PROVE StepInv(s)'
    <2>1. StepInv(s) /\ BeginInv(s) /\ MeetInv(s) /\ MadeInv(s) /\ CopyInv(r) /\ PlaceInv(r)
      BY <1>1, <1>9 DEF WorkerInv, StepInv
    <2>2. r[3] = 2 => IdOf(r) \in set_
      BY IdsAssumption DEF Track, Sent, Repeated, TracksRecent
    <2>3. CopyInv(r)'
      BY <1>5, <2>2 DEF CopyInv
    <2>4. PlaceInv(r)'
      BY <1>2, <1>5, <2>1 DEF PlaceInv
    <2>5. OrderInv(r)'
      <3> SUFFICES ASSUME r[3] = 1, NEW q \in Requests, q[1] = r[1], q[3] = 1, q[2] < r[2]
                   PROVE  AnsweredOK(q)'
        BY DEF OrderInv
      <3>1. q[2] \in 1 .. (r[2] - 1) /\ q = <<r[1], q[2], 1>>
        <4>1. /\ q[2] \in 1 .. LastPart(q[1]) /\ r[2] \in 1 .. LastPart(r[1])
              /\ q = <<q[1], q[2], q[3]>> /\ LastPart(q[1]) \in Nat
          BY RequestParts, FirstAndLast
        <4> QED BY <4>1
      <3>2. AnsweredOK(q)
        BY <1>1, <1>9, <3>1 DEF Track, Sent, Repeated, Regular
      <3>3. q # r
        BY <1>2, <3>2 DEF AnsweredOK
      <3> QED BY <1>5, <3>2, <3>3 DEF AnsweredOK
    <2>6. ASSUME NEW q \in Requests, q[1] = s, q # r
          PROVE  (CopyInv(q) /\ OrderInv(q) /\ PlaceInv(q))'
      <3>1. CopyInv(q) /\ OrderInv(q) /\ PlaceInv(q)
        BY <2>1, <2>6 DEF StepInv
      <3>2. CopyInv(q)' /\ PlaceInv(q)'
        BY <1>5, <2>6, <3>1 DEF CopyInv, PlaceInv
      <3>3. OrderInv(q)'
        BY <1>2, <1>5, <2>6, <3>1 DEF OrderInv, AnsweredOK
      <3> QED BY <3>2, <3>3
    <2>7. /\ rpc[f].pc # "unsent" => rpc'[f] = rpc[f]
          /\ rpc[f].pc = "unsent" => /\ rpc'[f].pc \in {"unsent", "admitted", "answered"}
                                     /\ rpc'[f].pc = "answered" => rpc'[f].status = "Duplicate"
          /\ rpc[l].pc # "unsent" => rpc'[l] = rpc[l]
          /\ rpc[l].pc = "unsent" => /\ rpc'[l].pc \in {"unsent", "admitted", "answered"}
                                     /\ rpc'[l].pc = "answered" => rpc'[l].status = "Duplicate"
      BY <1>2, <1>5
    <2>8. Ex(s)' = Ex(s) /\ Run(s)' = Run(s)
      BY <1>2 DEF Ex, Run
    <2>9. BeginInv(s)'
      BY <1>2, <1>3, <2>1, <2>7, <2>8 DEF BeginInv, AnsweredOK
    <2>10. MeetInv(s)'
      BY <1>2, <1>3, <2>1, <2>7, <2>8 DEF MeetInv, Precedence
    <2>11. MadeInv(s)'
      BY <1>2, <1>5, <2>1 DEF MadeInv
    <2> QED BY <1>1, <2>3, <2>4, <2>5, <2>6, <2>9, <2>10, <2>11 DEF StepInv
  <1> QED BY <1>6, <1>7, <1>8, <1>9, OneStep

(* What a handler step has to show: its own request keeps its place, and    *)
(* its step keeps what the first and the last part rely on.                 *)
LEMMA MoveInv ==
    ASSUME WorkerInv, NEW r \in Requests, NEW s \in Steps, s = r[1],
           \A q \in Requests \ {r} : rpc'[q] = rpc[q] /\ answers'[q] = answers[q],
           \A q \in Requests : q[1] # s /\ Regular(q[1]) => /\ exec'[q] = exec[q] /\ cm'[q] = cm[q]
                                                           /\ (q \in erasing' <=> q \in erasing),
           \A t \in Steps \ {s} : starts'[t] = starts[t] /\ (Regular(t) => Run(t)' = Run(t)),
           Regular(s) => /\ rpc[r].pc \notin {"unsent", "answered"} /\ rpc'[r].pc # "unsent"
                         /\ PlaceInv(r)' /\ BeginInv(s)' /\ MeetInv(s)' /\ MadeInv(s)'
    PROVE  WorkerInv'
  <1>1. ASSUME Regular(s) PROVE StepInv(s)'
    <2>1. StepInv(s)
      BY <1>1 DEF WorkerInv
    <2> QED BY <1>1, <2>1, OneMoves DEF StepInv
  <1>2. \A t \in Steps \ {s} : Regular(t) => Kept(t)
    BY DEF Kept
  <1> QED BY <1>1, <1>2, OneStep

LEMMA RejectInv ==
    ASSUME WorkerTypeOK, OwnerInv, WorkerInv, NEW r \in Requests, Reject(r)
    PROVE  WorkerTypeOK' /\ OwnerInv' /\ WorkerInv'
  <1>1. PICK s \in Steps : s = r[1]
    BY RequestParts
  <1>2. /\ rpc[r].pc = "admitted" /\ Answer(r, "Invalid")
        /\ UNCHANGED <<run, cm, exec, rendezvous, erasing, starts>>
    BY DEF Reject, stepVars
  <1>3. "Invalid" \in Statuses
    BY DEF Statuses
  <1>4. /\ rpc' \in [Requests -> Rpc] /\ answers' \in [Requests -> Nat]
        /\ rpc'[r].pc = "answered" /\ rpc'[r].status = "Invalid" /\ ~rpc'[r].cancel_func
        /\ rpc'[r].cm = rpc[r].cm
        /\ answers'[r] = answers[r] + 1
        /\ \A q \in Requests \ {r} : rpc'[q] = rpc[q] /\ answers'[q] = answers[q]
    BY <1>2, <1>3, AnswerEffect
  <1>5. WorkerTypeOK'
    BY <1>2, <1>4 DEF WorkerTypeOK
  <1>6. OwnerInv'
    <2>1. RpcOwner(r)'
      BY <1>4 DEF OwnerInv, RpcOwner
    <2> QED BY <1>2, <1>4, <2>1, OwnerMove
  <1>7. \A t \in Steps : Run(t)' = Run(t) /\ Ex(t)' = Ex(t)
    BY <1>2 DEF Run, Ex
  <1>8. ASSUME Regular(s) PROVE PlaceInv(r)' /\ BeginInv(s)' /\ MeetInv(s)' /\ MadeInv(s)'
    <2>1. StepInv(s) /\ BeginInv(s) /\ MeetInv(s) /\ MadeInv(s) /\ PlaceInv(r)
      BY <1>1, <1>8 DEF WorkerInv, StepInv
    <2>2. /\ r = First(s) \/ AnsweredOK(First(s))
          /\ r = Last(s) \/ rpc[Last(s)].pc = "unsent"
          /\ First(s) \in Requests /\ Last(s) \in Requests
          /\ Last(s)[1] = s
      BY <1>1, <1>2, <2>1, InProgress, FirstAndLast
    <2>3. PlaceInv(r)'
      BY <1>2, <1>4, <2>1 DEF PlaceInv
    <2>4. BeginInv(s)'
      BY <1>2, <1>4, <1>7, <2>1, <2>2 DEF BeginInv, AnsweredOK
    <2>5. MeetInv(s)'
      BY <1>2, <1>4, <1>7, <2>1, <2>2 DEF MeetInv, Precedence
    <2>6. MadeInv(s)'
      BY <1>2, <1>4, <2>1 DEF MadeInv
    <2> QED BY <2>3, <2>4, <2>5, <2>6
  <1>9. WorkerInv'
    BY <1>1, <1>2, <1>4, <1>7, <1>8, MoveInv
  <1> QED BY <1>5, <1>6, <1>9

LEMMA RunGraphInv ==
    ASSUME WorkerTypeOK, OwnerInv, WorkerInv, NEW r \in Requests, RunGraph(r)
    PROVE  WorkerTypeOK' /\ OwnerInv' /\ WorkerInv'
  <1>1. PICK s \in Steps : s = r[1]
    BY RequestParts
  <1>2. /\ rpc[r].pc = "admitted" /\ s \notin Partial
        /\ UNCHANGED <<run, exec, rendezvous, erasing, starts, answers>>
    BY <1>1 DEF RunGraph
  <1>3. cm' \in [Requests -> CmStates] /\ cm'[r] = "live" /\ \A q \in Requests \ {r} : cm'[q] = cm[q]
    BY DEF RunGraph, WorkerTypeOK, CmStates
  <1>4. /\ rpc' \in [Requests -> Rpc] /\ rpc'[r].pc = "execute" /\ rpc'[r].cancel_func
        /\ rpc'[r].cm = rpc[r].cm
        /\ \A q \in Requests \ {r} : rpc'[q] = rpc[q]
    <2> DEFINE new == [rpc[r] EXCEPT !.pc = "execute", !.cancel_func = TRUE]
    <2>1. rpc[r] \in Rpc /\ "execute" \in RpcPCs
      BY DEF WorkerTypeOK, RpcPCs
    <2>2. new \in Rpc /\ new.pc = "execute" /\ new.cancel_func /\ new.cm = rpc[r].cm
      BY <2>1 DEF Rpc
    <2>3. rpc' = [rpc EXCEPT ![r] = new]
      BY DEF RunGraph
    <2> HIDE DEF new
    <2> QED BY <2>2, <2>3 DEF WorkerTypeOK
  <1>5. WorkerTypeOK'
    BY <1>2, <1>3, <1>4 DEF WorkerTypeOK
  <1>6. OwnerInv'
    <2>1. RpcOwner(r)'
      BY <1>4 DEF OwnerInv, RpcOwner
    <2> QED BY <1>2, <1>4, <2>1, OwnerMove
  <1>7. \A t \in Steps : Run(t)' = Run(t) /\ Ex(t)' = Ex(t)
    BY <1>2 DEF Run, Ex
  <1>8. ASSUME Regular(s) PROVE PlaceInv(r)' /\ BeginInv(s)' /\ MeetInv(s)' /\ MadeInv(s)'
    <2>1. StepInv(s) /\ BeginInv(s) /\ MeetInv(s) /\ MadeInv(s) /\ PlaceInv(r)
      BY <1>1, <1>8 DEF WorkerInv, StepInv
    <2>2. /\ r = First(s) \/ AnsweredOK(First(s))
          /\ r = Last(s) \/ rpc[Last(s)].pc = "unsent"
          /\ First(s) \in Requests /\ Last(s) = First(s)
          /\ Last(s)[1] = s /\ (r[2] = 1 <=> r = First(s))
      BY <1>1, <1>2, <2>1, InProgress, FirstAndLast
    <2>3. r = First(s)
      BY <1>2, <2>2 DEF AnsweredOK
    <2>4. PlaceInv(r)'
      BY <1>1, <1>2, <1>4, <2>1, <2>2, <2>3 DEF PlaceInv
    <2>5. BeginInv(s)'
      BY <1>2, <1>4, <1>7, <2>1, <2>2, <2>3 DEF BeginInv, AnsweredOK
    <2>6. MeetInv(s)'
      BY <1>2, <1>3, <1>4, <1>7, <2>1, <2>2, <2>3 DEF MeetInv, Precedence
    <2>7. MadeInv(s)'
      <3> SUFFICES ASSUME NEW q \in Requests, q[1] = s
                   PROVE  /\ q # First(s) => exec'[q].pc = "none" /\ cm'[q] = "none"
                          /\ q \in erasing' => q = Last(s) /\ rpc'[q].pc = "answered"
                          /\ cm'[q] # "used after free"
        BY DEF MadeInv
      <3>1. /\ q # First(s) => exec[q].pc = "none" /\ cm[q] = "none"
            /\ q \in erasing => q = Last(s) /\ rpc[q].pc = "answered"
            /\ cm[q] # "used after free"
        BY <2>1 DEF MadeInv
      <3>2. q \in erasing => q # r
        BY <1>2, <3>1
      <3> QED BY <1>2, <1>3, <1>4, <2>3, <3>1, <3>2
    <2> QED BY <2>4, <2>5, <2>6, <2>7
  <1>9. WorkerInv'
    BY <1>1, <1>2, <1>3, <1>4, <1>7, <1>8, MoveInv
  <1> QED BY <1>5, <1>6, <1>9

LEMMA FindOrCreateInv ==
    ASSUME WorkerTypeOK, OwnerInv, WorkerInv, NEW r \in Requests, FindOrCreate(r)
    PROVE  WorkerTypeOK' /\ OwnerInv' /\ WorkerInv'
  <1>1. PICK s \in Steps : s = r[1]
    BY RequestParts
  <1>2. PICK i \in Ints : i = Narrow(s)
    BY NarrowInts
  <1>3. /\ rpc[r].pc = "admitted" /\ s \in Partial /\ rpc[r] \in Rpc /\ run[i] \in Runs
        /\ UNCHANGED <<exec, rendezvous, erasing, starts, answers>>
        /\ rpc[r].cm \in Requests
    BY <1>1 DEF FindOrCreate, WorkerTypeOK, Rpc
  <1>4. Run(s) = run[i] /\ Run(s)' = run'[i] /\ Ex(s)' = Ex(s)
    BY <1>2, <1>3 DEF Run, Ex
  <1>5. ASSUME Regular(s)
        PROVE  /\ StepInv(s) /\ BeginInv(s) /\ MeetInv(s) /\ MadeInv(s) /\ PlaceInv(r)
               /\ r = First(s) \/ (AnsweredOK(First(s)) /\ r # First(s))
               /\ r = Last(s) \/ rpc[Last(s)].pc = "unsent"
               /\ First(s) \in Requests /\ Last(s) \in Requests
               /\ Last(s)[1] = s /\ (r[2] = 1 <=> r = First(s))
    <2>1. StepInv(s) /\ BeginInv(s) /\ MeetInv(s) /\ MadeInv(s) /\ PlaceInv(r)
      BY <1>1, <1>5 DEF WorkerInv, StepInv
    <2> QED BY <1>1, <1>3, <2>1, InProgress, FirstAndLast DEF AnsweredOK
  <1>6. CASE run[i].exists
    <2>1. run[i] \in PartialRun /\ run[i].cm \in Requests
      <3>1. run[i] # NoRun
        BY <1>6 DEF NoRun
      <3>2. run[i] \in PartialRun
        BY <1>3, <3>1 DEF Runs
      <3> QED BY <3>2 DEF PartialRun
    <2>2. rpc' = [rpc EXCEPT ![r].pc = "found", ![r].cm = run[i].cm] /\ UNCHANGED <<run, cm>>
      BY <1>1, <1>2, <1>6 DEF FindOrCreate
    <2>3. /\ rpc' \in [Requests -> Rpc] /\ rpc'[r].pc = "found" /\ rpc'[r].cm = run[i].cm
          /\ rpc'[r].cancel_func = rpc[r].cancel_func
          /\ \A q \in Requests \ {r} : rpc'[q] = rpc[q]
      <3> DEFINE new == [rpc[r] EXCEPT !.pc = "found", !.cm = run[i].cm]
      <3>1. "found" \in RpcPCs
        BY DEF RpcPCs
      <3>2. /\ new \in Rpc /\ new.pc = "found" /\ new.cm = run[i].cm
            /\ new.cancel_func = rpc[r].cancel_func
        BY <1>3, <2>1, <3>1 DEF Rpc
      <3>3. rpc' = [rpc EXCEPT ![r] = new]
        BY <2>2
      <3> HIDE DEF new
      <3> QED BY <3>2, <3>3 DEF WorkerTypeOK
    <2>4. WorkerTypeOK'
      BY <1>3, <2>2, <2>3 DEF WorkerTypeOK
    <2>5. OwnerInv'
      <3>1. RunOwner(i)
        BY DEF OwnerInv
      <3>2. RpcOwner(r)'
        BY <1>1, <1>2, <1>3, <1>6, <2>3, <3>1 DEF RunOwner, RpcOwner, SameRun, InRun
      <3> QED BY <1>3, <2>2, <2>3, <3>2, OwnerMove
    <2>6. ASSUME Regular(s) PROVE PlaceInv(r)' /\ BeginInv(s)' /\ MeetInv(s)' /\ MadeInv(s)'
      <3>1. r # First(s) /\ run[i].cm = First(s)
        BY <1>3, <1>4, <1>5, <1>6, <2>6 DEF BeginInv
      <3>2. PlaceInv(r)'
        BY <1>1, <1>3, <1>5, <2>3, <2>6, <3>1 DEF PlaceInv
      <3>3. BeginInv(s)'
        BY <1>3, <1>4, <1>5, <1>6, <2>2, <2>3, <2>6, <3>1 DEF BeginInv, AnsweredOK
      <3>4. MeetInv(s)'
        BY <1>3, <1>4, <1>5, <2>2, <2>3, <2>6 DEF MeetInv, Precedence
      <3>5. MadeInv(s)'
        BY <1>3, <1>5, <2>2, <2>3, <2>6 DEF MadeInv
      <3> QED BY <3>2, <3>3, <3>4, <3>5
    <2>7. \A t \in Steps : Run(t)' = Run(t)
      BY <2>2 DEF Run
    <2>8. WorkerInv'
      BY <1>1, <1>3, <2>2, <2>3, <2>6, <2>7, MoveInv
    <2> QED BY <2>4, <2>5, <2>8
  <1>7. CASE ~run[i].exists
    <2> DEFINE new == [exists |-> TRUE, cm |-> r, executor_done |-> FALSE,
                       final_callback |-> NoCallback, final_status |-> "OK"]
    <2>1. Goto(r, "created") /\ run' = [run EXCEPT ![i] = new] /\ cm' = [cm EXCEPT ![r] = "live"]
      BY <1>1, <1>2, <1>7 DEF FindOrCreate
    <2>2. "created" \in RpcPCs
      BY DEF RpcPCs
    <2>3. /\ rpc' \in [Requests -> Rpc] /\ rpc'[r].pc = "created"
          /\ rpc'[r].cancel_func = rpc[r].cancel_func /\ rpc'[r].cm = rpc[r].cm
          /\ \A q \in Requests \ {r} : rpc'[q] = rpc[q]
      BY <2>1, <2>2, GotoEffect
    <2>4. new \in PartialRun
      BY DEF PartialRun, Callbacks, Statuses
    <2>5. /\ run' \in [Ints -> Runs] /\ run'[i] = new
          /\ \A j \in Ints \ {i} : run'[j] = run[j]
      BY <2>1, <2>4 DEF WorkerTypeOK, Runs
    <2>6. cm' \in [Requests -> CmStates] /\ cm'[r] = "live" /\ \A q \in Requests \ {r} : cm'[q] = cm[q]
      BY <2>1 DEF WorkerTypeOK, CmStates
    <2>7. /\ new.exists /\ new.cm = r /\ ~new.executor_done /\ new.final_callback = NoCallback
      OBVIOUS
    <2> HIDE DEF new
    <2>8. WorkerTypeOK'
      BY <1>3, <2>3, <2>5, <2>6 DEF WorkerTypeOK
    <2>9. OwnerInv'
      <3>1. ASSUME NEW q \in Requests PROVE RpcOwner(q)'
        BY <1>1, <1>3, <2>3 DEF OwnerInv, RpcOwner
      <3>2. ASSUME NEW q \in Requests PROVE ExecOwner(q)'
        BY <1>3 DEF OwnerInv, ExecOwner
      <3>3. ASSUME NEW j \in Ints PROVE RunOwner(j)'
        <4>1. CASE j = i
          BY <1>1, <1>2, <1>3, <2>5, <2>7, <4>1 DEF RunOwner, InRun
        <4>2. CASE j # i
          BY <2>5, <4>2 DEF OwnerInv, RunOwner
        <4> QED BY <4>1, <4>2
      <3> QED BY <1>3, <3>1, <3>2, <3>3 DEF OwnerInv
    <2>10. ASSUME Regular(s) PROVE PlaceInv(r)' /\ BeginInv(s)' /\ MeetInv(s)' /\ MadeInv(s)'
      <3>1. r = First(s)
        BY <1>3, <1>4, <1>5, <1>7, <2>10 DEF BeginInv, AnsweredOK
      <3>2. PlaceInv(r)'
        BY <1>1, <1>3, <1>5, <2>3, <2>10, <3>1 DEF PlaceInv
      <3>3. BeginInv(s)'
        BY <1>3, <1>4, <1>5, <2>3, <2>5, <2>7, <2>10, <3>1 DEF BeginInv, AnsweredOK
      <3>4. MeetInv(s)'
        BY <1>3, <1>4, <1>5, <2>3, <2>5, <2>6, <2>7, <2>10, <3>1 DEF MeetInv, Precedence
      <3>5. MadeInv(s)'
        BY <1>3, <1>5, <2>3, <2>6, <2>10, <3>1 DEF MadeInv
      <3> QED BY <3>2, <3>3, <3>4, <3>5
    <2>11. \A t \in Steps \ {s} : Regular(t) => Run(t)' = Run(t)
      BY <1>2, <1>3, <2>5, RunKept
    <2>12. WorkerInv'
      BY <1>1, <1>3, <2>3, <2>6, <2>10, <2>11, MoveInv
    <2> QED BY <2>8, <2>9, <2>12
  <1> QED BY <1>6, <1>7

LEMMA SetCancelCallbackInv ==
    ASSUME WorkerTypeOK, OwnerInv, WorkerInv, NEW r \in Requests, SetCancelCallback(r)
    PROVE  WorkerTypeOK' /\ OwnerInv' /\ WorkerInv'
  <1>1. PICK s \in Steps : s = r[1]
    BY RequestParts
  <1>2. /\ rpc[r].pc \in {"found", "created"}
        /\ UNCHANGED <<run, cm, exec, rendezvous, erasing, starts, answers>>
    BY DEF SetCancelCallback, stepVars
  <1>3. /\ rpc' \in [Requests -> Rpc]
        /\ rpc'[r].pc = IF rpc[r].pc = "created" THEN "execute" ELSE "send_inputs"
        /\ rpc'[r].cm = rpc[r].cm
        /\ \A q \in Requests \ {r} : rpc'[q] = rpc[q]
    <2>1. PICK pc \in RpcPCs : pc = IF rpc[r].pc = "created" THEN "execute" ELSE "send_inputs"
      BY DEF RpcPCs
    <2> DEFINE new == [rpc[r] EXCEPT !.pc = pc, !.cancel_func = TRUE]
    <2>2. rpc[r] \in Rpc
      BY DEF WorkerTypeOK
    <2>3. new \in Rpc /\ new.pc = pc /\ new.cm = rpc[r].cm
      BY <2>2 DEF Rpc
    <2>4. rpc' = [rpc EXCEPT ![r] = new]
      BY <2>1 DEF SetCancelCallback
    <2> HIDE DEF new
    <2> QED BY <2>1, <2>3, <2>4 DEF WorkerTypeOK
  <1>4. WorkerTypeOK'
    BY <1>2, <1>3 DEF WorkerTypeOK
  <1>5. OwnerInv'
    <2>1. RpcOwner(r)'
      BY <1>2, <1>3 DEF OwnerInv, RpcOwner
    <2> QED BY <1>2, <1>3, <2>1, OwnerMove
  <1>6. \A t \in Steps : Run(t)' = Run(t) /\ Ex(t)' = Ex(t)
    BY <1>2 DEF Run, Ex
  <1>7. ASSUME Regular(s) PROVE PlaceInv(r)' /\ BeginInv(s)' /\ MeetInv(s)' /\ MadeInv(s)'
    <2>1. StepInv(s) /\ BeginInv(s) /\ MeetInv(s) /\ MadeInv(s) /\ PlaceInv(r)
      BY <1>1, <1>7 DEF WorkerInv, StepInv
    <2>2. /\ r = First(s) \/ AnsweredOK(First(s))
          /\ r = Last(s) \/ rpc[Last(s)].pc = "unsent"
          /\ First(s) \in Requests /\ Last(s) \in Requests
          /\ Last(s)[1] = s
      BY <1>1, <1>2, <2>1, InProgress, FirstAndLast
    <2>3. PlaceInv(r)'
      BY <1>1, <1>2, <1>3, <2>1 DEF PlaceInv
    <2>4. BeginInv(s)'
      <3>1. rpc[r].pc = "found" => r # First(s)
        BY <1>1, <2>1, FirstAndLast DEF PlaceInv
      <3> QED BY <1>2, <1>3, <1>6, <2>1, <2>2, <3>1 DEF BeginInv, AnsweredOK
    <2>5. MeetInv(s)'
      BY <1>2, <1>3, <1>6, <2>1, <2>2 DEF MeetInv, Precedence
    <2>6. MadeInv(s)'
      BY <1>2, <1>3, <2>1 DEF MadeInv
    <2> QED BY <2>3, <2>4, <2>5, <2>6
  <1>8. WorkerInv'
    BY <1>1, <1>2, <1>3, <1>6, <1>7, MoveInv
  <1> QED BY <1>4, <1>5, <1>8

(* ExecuteAsync and its failure: the executor of the step starts, or its    *)
(* done callback runs at once.                                              *)
LEMMA ExecuteInv ==
    ASSUME WorkerTypeOK, OwnerInv, WorkerInv, NEW r \in Requests, ExecuteAsync(r) \/ ExecuteFails(r)
    PROVE  WorkerTypeOK' /\ OwnerInv' /\ WorkerInv'
  <1>1. PICK s \in Steps : s = r[1]
    BY RequestParts
  <1>2. /\ rpc[r].pc = "execute" /\ Goto(r, AfterExecute(r))
        /\ UNCHANGED <<run, cm, erasing, answers>>
    BY DEF ExecuteAsync, ExecuteFails
  <1>3. AfterExecute(r) \in RpcPCs
    BY DEF AfterExecute, RpcPCs
  <1>4. /\ rpc' \in [Requests -> Rpc]
        /\ rpc'[r].pc = IF s \in Partial THEN "receive" ELSE "executing"
        /\ rpc'[r].cancel_func = rpc[r].cancel_func /\ rpc'[r].cm = rpc[r].cm
        /\ \A q \in Requests \ {r} : rpc'[q] = rpc[q]
    BY <1>1, <1>2, <1>3, GotoEffect DEF AfterExecute
  <1>5. PICK gen \in Nat : gen = rendezvous[s].gen
    BY DEF WorkerTypeOK, Rendezvous
  <1>6. /\ exec' \in [Requests -> Exec] /\ exec'[r].pc \in {"running", "ended"}
        /\ \A q \in Requests \ {r} : exec'[q] = exec[q]
    <2> DEFINE e1 == [pc |-> "running", status |-> "OK", callback |-> NoCallback, gen |-> gen]
               e2 == [pc |-> "ended", status |-> "NotExecuted", callback |-> NoCallback, gen |-> gen]
    <2>1. e1 \in Exec /\ e2 \in Exec
      BY DEF Exec, Statuses, Callbacks
    <2>2. exec' = [exec EXCEPT ![r] = e1] \/ exec' = [exec EXCEPT ![r] = e2]
      BY <1>1, <1>5 DEF ExecuteAsync, ExecuteFails
    <2>3. e1.pc = "running" /\ e2.pc = "ended"
      OBVIOUS
    <2> HIDE DEF e1, e2
    <2> QED BY <2>1, <2>2, <2>3 DEF WorkerTypeOK
  <1>7. /\ starts' \in [Steps -> Nat] /\ starts'[s] \in {starts[s], starts[s] + 1}
        /\ \A t \in Steps \ {s} : starts'[t] = starts[t]
    <2>1. starts' = [starts EXCEPT ![s] = @ + 1] \/ starts' = starts
      BY <1>1 DEF ExecuteAsync, ExecuteFails
    <2> QED BY <2>1 DEF WorkerTypeOK
  <1>8. rendezvous' \in [Steps -> Rendezvous]
    <2>1. \/ rendezvous' = [rendezvous EXCEPT ![r[1]].inputs = @ \cup {<<rendezvous[r[1]].gen, r[2]>>}]
          \/ rendezvous' = rendezvous
      BY DEF ExecuteAsync, ExecuteFails
    <2> QED BY <2>1, InputsTyped
  <1>9. WorkerTypeOK'
    BY <1>2, <1>4, <1>6, <1>7, <1>8 DEF WorkerTypeOK
  <1>10. OwnerInv'
    <2>1. ASSUME NEW q \in Requests PROVE RpcOwner(q)'
      BY <1>1, <1>4 DEF OwnerInv, RpcOwner
    <2>2. ASSUME NEW q \in Requests PROVE ExecOwner(q)'
      BY <1>6 DEF OwnerInv, ExecOwner
    <2>3. ASSUME NEW j \in Ints PROVE RunOwner(j)'
      BY <1>2 DEF OwnerInv, RunOwner
    <2> QED BY <1>2, <2>1, <2>2, <2>3 DEF OwnerInv
  <1>11. \A t \in Steps : Run(t)' = Run(t)
    BY <1>2 DEF Run
  <1>12. ASSUME Regular(s) PROVE PlaceInv(r)' /\ BeginInv(s)' /\ MeetInv(s)' /\ MadeInv(s)'
    <2>1. StepInv(s) /\ BeginInv(s) /\ MeetInv(s) /\ MadeInv(s) /\ PlaceInv(r)
      BY <1>1, <1>12 DEF WorkerInv, StepInv
    <2>2. r[2] = 1 /\ r = First(s) /\ (r = Last(s) \/ rpc[Last(s)].pc = "unsent")
          /\ First(s) \in Requests /\ Last(s) \in Requests /\ Last(s)[1] = s
      BY <1>1, <1>2, <2>1, InProgress, FirstAndLast DEF PlaceInv
    <2>3. Ex(s).pc = "none" /\ starts[s] = 0 /\ starts'[s] <= 1
      BY <1>2, <1>7, <2>1, <2>2 DEF BeginInv
    <2>4. Ex(s)'.pc \in {"running", "ended"}
      BY <1>6, <2>2 DEF Ex
    <2>5. PlaceInv(r)'
      BY <1>1, <1>2, <1>4, <2>1, <2>2 DEF PlaceInv
    <2>6. BeginInv(s)'
      BY <1>2, <1>4, <1>11, <2>1, <2>2, <2>3 DEF BeginInv, AnsweredOK
    <2>7. MeetInv(s)'
      BY <1>2, <1>4, <1>11, <2>1, <2>2, <2>3, <2>4 DEF MeetInv, Precedence
    <2>8. MadeInv(s)'
      BY <1>2, <1>4, <1>6, <2>1, <2>2 DEF MadeInv
    <2> QED BY <2>5, <2>6, <2>7, <2>8
  <1>13. WorkerInv'
    BY <1>1, <1>2, <1>4, <1>6, <1>7, <1>11, <1>12, MoveInv
  <1> QED BY <1>9, <1>10, <1>13

LEMMA SendInputsInv ==
    ASSUME WorkerTypeOK, OwnerInv, WorkerInv, NEW r \in Requests, SendInputs(r)
    PROVE  WorkerTypeOK' /\ OwnerInv' /\ WorkerInv'
  <1>1. PICK s \in Steps : s = r[1]
    BY RequestParts
  <1>2. rpc[r].pc = "send_inputs" /\ UNCHANGED <<run, cm, exec, erasing, starts>>
    BY DEF SendInputs
  <1>3. \/ Answer(r, "NotSent") /\ UNCHANGED rendezvous
        \/ /\ rendezvous' = [rendezvous EXCEPT ![r[1]].inputs = @ \cup {<<rendezvous[r[1]].gen, r[2]>>}]
           /\ Goto(r, "receive") /\ UNCHANGED answers
    BY DEF SendInputs
  <1>4. /\ rpc' \in [Requests -> Rpc] /\ answers' \in [Requests -> Nat]
        /\ rpc'[r].cm = rpc[r].cm
        /\ \A q \in Requests \ {r} : rpc'[q] = rpc[q] /\ answers'[q] = answers[q]
        /\ \/ /\ rpc'[r].pc = "answered" /\ rpc'[r].status = "NotSent" /\ ~rpc'[r].cancel_func
              /\ answers'[r] = answers[r] + 1
           \/ /\ rpc'[r].pc = "receive" /\ rpc'[r].cancel_func = rpc[r].cancel_func
              /\ answers'[r] = answers[r]
    <2>1. CASE Answer(r, "NotSent")
      <3>1. "NotSent" \in Statuses
        BY DEF Statuses
      <3> QED BY <2>1, <3>1, AnswerEffect
    <2>2. CASE Goto(r, "receive") /\ UNCHANGED answers
      <3>1. "receive" \in RpcPCs
        BY DEF RpcPCs
      <3> QED BY <2>2, <3>1, GotoEffect DEF WorkerTypeOK
    <2> QED BY <1>3, <2>1, <2>2
  <1>5. rendezvous' \in [Steps -> Rendezvous]
    BY <1>3, InputsTyped
  <1>6. WorkerTypeOK'
    BY <1>2, <1>4, <1>5 DEF WorkerTypeOK
  <1>7. OwnerInv'
    <2>1. RpcOwner(r)'
      BY <1>2, <1>4 DEF OwnerInv, RpcOwner
    <2> QED BY <1>2, <1>4, <2>1, OwnerMove
  <1>8. \A t \in Steps : Run(t)' = Run(t) /\ Ex(t)' = Ex(t)
    BY <1>2 DEF Run, Ex
  <1>9. ASSUME Regular(s) PROVE PlaceInv(r)' /\ BeginInv(s)' /\ MeetInv(s)' /\ MadeInv(s)'
    <2>1. StepInv(s) /\ BeginInv(s) /\ MeetInv(s) /\ MadeInv(s) /\ PlaceInv(r)
      BY <1>1, <1>9 DEF WorkerInv, StepInv
    <2>2. /\ r # First(s) /\ AnsweredOK(First(s))
          /\ r = Last(s) \/ rpc[Last(s)].pc = "unsent"
          /\ First(s) \in Requests /\ Last(s) \in Requests
          /\ Last(s)[1] = s
      BY <1>1, <1>2, <2>1, InProgress, FirstAndLast DEF PlaceInv
    <2>3. PlaceInv(r)'
      BY <1>1, <1>2, <1>4, <2>1 DEF PlaceInv
    <2>4. BeginInv(s)'
      BY <1>2, <1>4, <1>8, <2>1, <2>2 DEF BeginInv, AnsweredOK
    <2>5. MeetInv(s)'
      BY <1>2, <1>4, <1>8, <2>1, <2>2 DEF MeetInv, Precedence
    <2>6. MadeInv(s)'
      BY <1>2, <1>4, <2>1 DEF MadeInv
    <2> QED BY <2>3, <2>4, <2>5, <2>6
  <1>10. WorkerInv'
    BY <1>1, <1>2, <1>4, <1>8, <1>9, MoveInv
  <1> QED BY <1>6, <1>7, <1>10

LEMMA RecvOutputsAsyncInv ==
    ASSUME WorkerTypeOK, OwnerInv, WorkerInv, NEW r \in Requests, RecvOutputsAsync(r)
    PROVE  WorkerTypeOK' /\ OwnerInv' /\ WorkerInv'
  <1>1. PICK s \in Steps : s = r[1]
    BY RequestParts
  <1>2. /\ rpc[r].pc = "receive"
        /\ UNCHANGED <<run, cm, exec, rendezvous, erasing, starts, answers>>
    BY DEF RecvOutputsAsync, stepVars
  <1>3. /\ rpc' \in [Requests -> Rpc] /\ rpc'[r].pc = "receiving" /\ rpc'[r].status = rpc[r].status
        /\ rpc'[r].cancel_func = rpc[r].cancel_func /\ rpc'[r].cm = rpc[r].cm
        /\ \A q \in Requests \ {r} : rpc'[q] = rpc[q]
    <2>1. PICK gen \in Nat : gen = rendezvous[s].gen
      BY DEF WorkerTypeOK, Rendezvous
    <2> DEFINE new == [rpc[r] EXCEPT !.pc = "receiving", !.gen = gen]
    <2>2. rpc[r] \in Rpc /\ "receiving" \in RpcPCs
      BY DEF WorkerTypeOK, RpcPCs
    <2>3. /\ new \in Rpc /\ new.pc = "receiving" /\ new.status = rpc[r].status
          /\ new.cancel_func = rpc[r].cancel_func /\ new.cm = rpc[r].cm
      BY <2>2 DEF Rpc
    <2>4. rpc' = [rpc EXCEPT ![r] = new]
      BY <1>1, <2>1 DEF RecvOutputsAsync
    <2> HIDE DEF new
    <2> QED BY <2>3, <2>4 DEF WorkerTypeOK
  <1>4. WorkerTypeOK'
    BY <1>2, <1>3 DEF WorkerTypeOK
  <1>5. OwnerInv'
    <2>1. RpcOwner(r)'
      BY <1>2, <1>3 DEF OwnerInv, RpcOwner
    <2> QED BY <1>2, <1>3, <2>1, OwnerMove
  <1>6. \A t \in Steps : Run(t)' = Run(t) /\ Ex(t)' = Ex(t)
    BY <1>2 DEF Run, Ex
  <1>7. ASSUME Regular(s) PROVE PlaceInv(r)' /\ BeginInv(s)' /\ MeetInv(s)' /\ MadeInv(s)'
    <2>1. StepInv(s) /\ BeginInv(s) /\ MeetInv(s) /\ MadeInv(s) /\ PlaceInv(r)
      BY <1>1, <1>7 DEF WorkerInv, StepInv
    <2>2. /\ r = First(s) \/ AnsweredOK(First(s))
          /\ r = Last(s) \/ rpc[Last(s)].pc = "unsent"
          /\ First(s) \in Requests /\ Last(s) \in Requests
          /\ Last(s)[1] = s
      BY <1>1, <1>2, <2>1, InProgress, FirstAndLast
    <2>3. PlaceInv(r)'
      BY <1>1, <1>2, <1>3, <2>1 DEF PlaceInv
    <2>4. BeginInv(s)'
      BY <1>2, <1>3, <1>6, <2>1, <2>2 DEF BeginInv, AnsweredOK
    <2>5. MeetInv(s)'
      BY <1>2, <1>3, <1>6, <2>1, <2>2 DEF MeetInv, Precedence
    <2>6. MadeInv(s)'
      BY <1>2, <1>3, <2>1 DEF MadeInv
    <2> QED BY <2>3, <2>4, <2>5, <2>6
  <1>8. WorkerInv'
    BY <1>1, <1>2, <1>3, <1>6, <1>7, MoveInv
  <1> QED BY <1>4, <1>5, <1>8

(* What PartialRunDone does: the run is changed only where r finds it.      *)
LEMMA PartialRunDoneEffect ==
    ASSUME WorkerTypeOK, NEW r \in Requests, NEW s \in Steps, s = r[1],
           NEW i \in Ints, i = Narrow(s), NEW status \in Statuses, PartialRunDone(r, status)
    PROVE  /\ rpc' \in [Requests -> Rpc] /\ run' \in [Ints -> Runs]
           /\ \A q \in Requests \ {r} : rpc'[q] = rpc[q]
           /\ \A j \in Ints \ {i} : run'[j] = run[j]
           /\ rpc'[r].cm = rpc[r].cm /\ rpc'[r].cancel_func = rpc[r].cancel_func
           /\ \/ ~run[i].exists /\ rpc'[r].pc = "dropped" /\ run' = run
              \/ /\ run[i].exists /\ run'[i].exists /\ run'[i].cm = run[i].cm
                 /\ run'[i].executor_done = run[i].executor_done
                 /\ \/ /\ run[i].executor_done /\ rpc'[r].pc = "finishing"
                       /\ run'[i].final_callback = run[i].final_callback
                       /\ run'[i].final_status = rpc'[r].status
                       /\ run[i].final_status # "OK" => rpc'[r].status = run[i].final_status
                    \/ /\ ~run[i].executor_done /\ rpc'[r].pc = "waiting"
                       /\ run'[i].final_callback = r
  <1>1. run[i] \in Runs /\ rpc[r] \in Rpc
    BY DEF WorkerTypeOK
  <1>2. "dropped" \in RpcPCs /\ "finishing" \in RpcPCs /\ "waiting" \in RpcPCs
    BY DEF RpcPCs
  <1>3. CASE ~run[i].exists
    <2>1. Goto(r, "dropped") /\ UNCHANGED run
      BY <1>3 DEF PartialRunDone
    <2> QED BY <1>2, <1>3, <2>1, GotoEffect DEF WorkerTypeOK
  <1>4. CASE run[i].exists
    <2>1. run[i] \in PartialRun
      <3>1. run[i] # NoRun
        BY <1>4 DEF NoRun
      <3> QED BY <1>1, <3>1 DEF Runs
    <2>2. PICK final \in Statuses : final = Update(run[i].final_status, status)
      <3>1. run[i].final_status \in Statuses
        BY <2>1 DEF PartialRun
      <3> QED BY <3>1 DEF Update
    <2>3. run[i].final_status # "OK" => final = run[i].final_status
      BY <2>2 DEF Update
    <2>4. CASE run[i].executor_done
      <3>1. /\ run' = [run EXCEPT ![i].final_status = final]
            /\ rpc' = [rpc EXCEPT ![r].pc = "finishing", ![r].status = final]
        BY <1>4, <2>2, <2>4 DEF PartialRunDone, ExecutorDoneFor
      <3> DEFINE new == [run[i] EXCEPT !.final_status = final]
                 req == [rpc[r] EXCEPT !.pc = "finishing", !.status = final]
      <3>2. /\ new \in PartialRun /\ new.exists /\ new.cm = run[i].cm
            /\ new.executor_done = run[i].executor_done
            /\ new.final_callback = run[i].final_callback /\ new.final_status = final
        BY <2>1 DEF PartialRun
      <3>3. /\ req \in Rpc /\ req.pc = "finishing" /\ req.status = final /\ req.cm = rpc[r].cm
            /\ req.cancel_func = rpc[r].cancel_func
        BY <1>1, <1>2 DEF Rpc
      <3>4. run' = [run EXCEPT ![i] = new] /\ rpc' = [rpc EXCEPT ![r] = req]
        BY <3>1
      <3> HIDE DEF new, req
      <3>5. /\ run' \in [Ints -> Runs] /\ run'[i] = new /\ \A j \in Ints \ {i} : run'[j] = run[j]
        BY <3>2, <3>4 DEF WorkerTypeOK, Runs
      <3>6. /\ rpc' \in [Requests -> Rpc] /\ rpc'[r] = req
            /\ \A q \in Requests \ {r} : rpc'[q] = rpc[q]
        BY <3>3, <3>4 DEF WorkerTypeOK
      <3> QED BY <1>4, <2>3, <2>4, <3>2, <3>3, <3>5, <3>6
    <2>5. CASE ~run[i].executor_done
      <3>1. /\ run' = [run EXCEPT ![i].final_status = final, ![i].final_callback = r]
            /\ Goto(r, "waiting")
        BY <1>4, <2>2, <2>5 DEF PartialRunDone, ExecutorDoneFor
      <3> DEFINE new == [run[i] EXCEPT !.final_status = final, !.final_callback = r]
      <3>2. /\ new \in PartialRun /\ new.exists /\ new.cm = run[i].cm
            /\ new.executor_done = run[i].executor_done /\ new.final_callback = r
        BY <2>1 DEF PartialRun, Callbacks
      <3>3. run' = [run EXCEPT ![i] = new]
        BY <3>1
      <3> HIDE DEF new
      <3>4. /\ run' \in [Ints -> Runs] /\ run'[i] = new /\ \A j \in Ints \ {i} : run'[j] = run[j]
        BY <3>2, <3>3 DEF WorkerTypeOK, Runs
      <3> QED BY <1>2, <1>4, <2>5, <3>1, <3>2, <3>4, GotoEffect
    <2> QED BY <2>4, <2>5
  <1> QED BY <1>3, <1>4

(* The callback of RecvOutputsAsync.  The run of the step is still there,   *)
(* so the last part is never dropped.                                       *)
LEMMA ReceivedInv ==
    ASSUME WorkerTypeOK, OwnerInv, WorkerInv, NEW r \in Requests, NEW status \in {"OK", "Aborted"},
           Received(r, status)
    PROVE  WorkerTypeOK' /\ OwnerInv' /\ WorkerInv'
  <1>1. PICK s \in Steps : s = r[1]
    BY RequestParts
  <1>2. PICK i \in Ints : i = Narrow(s)
    BY NarrowInts
  <1>3. /\ rpc[r].pc = "receiving" /\ UNCHANGED <<cm, exec, rendezvous, erasing, starts>>
        /\ status \in Statuses /\ rpc[r] \in Rpc
    BY DEF Received, Statuses, WorkerTypeOK
  <1>4. s \in Partial
    BY <1>1, <1>3 DEF OwnerInv, RpcOwner
  <1>5. Run(s) = run[i] /\ Run(s)' = run'[i] /\ Ex(s)' = Ex(s)
    BY <1>2, <1>3, <1>4 DEF Run, Ex
  <1>6. ASSUME Regular(s)
        PROVE  /\ StepInv(s) /\ BeginInv(s) /\ MeetInv(s) /\ MadeInv(s) /\ PlaceInv(r)
               /\ r = First(s) \/ AnsweredOK(First(s))
               /\ r = Last(s) \/ rpc[Last(s)].pc = "unsent"
               /\ First(s) \in Requests /\ Last(s) \in Requests
               /\ Last(s)[1] = s /\ (IsLast(r) <=> r = Last(s))
               /\ run[i].exists
    <2>1. StepInv(s) /\ BeginInv(s) /\ MeetInv(s) /\ MadeInv(s) /\ PlaceInv(r)
      BY <1>1, <1>6 DEF WorkerInv, StepInv
    <2>2. /\ r = First(s) \/ AnsweredOK(First(s))
          /\ r = Last(s) \/ rpc[Last(s)].pc = "unsent"
          /\ First(s) \in Requests /\ Last(s) \in Requests
          /\ Last(s)[1] = s /\ (IsLast(r) <=> r = Last(s))
      BY <1>1, <1>3, <2>1, InProgress, FirstAndLast
    <2>3. run[i].exists
      BY <1>3, <1>4, <1>5, <2>1, <2>2 DEF BeginInv
    <2> QED BY <2>1, <2>2, <2>3
  <1>7. CASE ~IsLast(r)
    <2>1. Answer(r, status) /\ UNCHANGED run
      BY <1>7 DEF Received
    <2>2. /\ rpc' \in [Requests -> Rpc] /\ answers' \in [Requests -> Nat]
          /\ rpc'[r].pc = "answered" /\ rpc'[r].status = status /\ ~rpc'[r].cancel_func
          /\ rpc'[r].cm = rpc[r].cm
          /\ answers'[r] = answers[r] + 1
          /\ \A q \in Requests \ {r} : rpc'[q] = rpc[q] /\ answers'[q] = answers[q]
      BY <1>3, <2>1, AnswerEffect
    <2>3. WorkerTypeOK'
      BY <1>3, <2>1, <2>2 DEF WorkerTypeOK
    <2>4. OwnerInv'
      <3>1. RpcOwner(r)'
        BY <2>2 DEF OwnerInv, RpcOwner
      <3> QED BY <1>3, <2>1, <2>2, <3>1, OwnerMove
    <2>5. ASSUME Regular(s) PROVE PlaceInv(r)' /\ BeginInv(s)' /\ MeetInv(s)' /\ MadeInv(s)'
      <3>1. PlaceInv(r)'
        BY <1>3, <1>6, <2>2, <2>5 DEF PlaceInv
      <3>2. BeginInv(s)'
        BY <1>3, <1>5, <1>6, <2>1, <2>2, <2>5 DEF BeginInv, AnsweredOK
      <3>3. MeetInv(s)'
        BY <1>3, <1>5, <1>6, <1>7, <2>1, <2>2, <2>5 DEF MeetInv, Precedence
      <3>4. MadeInv(s)'
        BY <1>3, <1>6, <2>2, <2>5 DEF MadeInv
      <3> QED BY <3>1, <3>2, <3>3, <3>4
    <2>6. \A t \in Steps : Run(t)' = Run(t)
      BY <2>1 DEF Run
    <2>7. WorkerInv'
      BY <1>1, <1>3, <2>2, <2>5, <2>6, MoveInv
    <2> QED BY <2>3, <2>4, <2>7
  <1>8. CASE IsLast(r)
    <2>1. PartialRunDone(r, status) /\ UNCHANGED answers
      BY <1>8 DEF Received
    <2>2. /\ rpc' \in [Requests -> Rpc] /\ run' \in [Ints -> Runs]
          /\ \A q \in Requests \ {r} : rpc'[q] = rpc[q]
          /\ \A j \in Ints \ {i} : run'[j] = run[j]
          /\ rpc'[r].cm = rpc[r].cm /\ rpc'[r].cancel_func = rpc[r].cancel_func
          /\ \/ ~run[i].exists /\ rpc'[r].pc = "dropped" /\ run' = run
             \/ /\ run[i].exists /\ run'[i].exists /\ run'[i].cm = run[i].cm
                /\ run'[i].executor_done = run[i].executor_done
                /\ \/ /\ run[i].executor_done /\ rpc'[r].pc = "finishing"
                      /\ run'[i].final_callback = run[i].final_callback
                      /\ run'[i].final_status = rpc'[r].status
                      /\ run[i].final_status # "OK" => rpc'[r].status = run[i].final_status
                   \/ /\ ~run[i].executor_done /\ rpc'[r].pc = "waiting"
                      /\ run'[i].final_callback = r
      BY <1>1, <1>2, <1>3, <2>1, PartialRunDoneEffect
    <2>3. WorkerTypeOK'
      BY <1>3, <2>1, <2>2 DEF WorkerTypeOK
    <2>4. OwnerInv'
      <3>1. ASSUME NEW q \in Requests PROVE RpcOwner(q)'
        BY <1>1, <1>4, <2>2 DEF OwnerInv, RpcOwner
      <3>2. ASSUME NEW q \in Requests PROVE ExecOwner(q)'
        BY <1>3 DEF OwnerInv, ExecOwner
      <3>3. ASSUME NEW j \in Ints PROVE RunOwner(j)'
        <4>1. RunOwner(j) /\ RunOwner(i)
          BY DEF OwnerInv
        <4>2. InRun(r[1], i)
          BY <1>1, <1>2, <1>4 DEF InRun
        <4>3. CASE j # i
          BY <2>2, <4>1, <4>3 DEF RunOwner
        <4>4. CASE j = i
          BY <2>2, <4>1, <4>2, <4>4 DEF RunOwner
        <4> QED BY <4>3, <4>4
      <3> QED BY <1>3, <3>1, <3>2, <3>3 DEF OwnerInv
    <2>5. ASSUME Regular(s) PROVE PlaceInv(r)' /\ BeginInv(s)' /\ MeetInv(s)' /\ MadeInv(s)'
      <3>1. r = Last(s) /\ run[i].exists /\ Ex(s).pc # "callback"
        BY <1>3, <1>6, <1>8, <2>5 DEF MeetInv
      <3>2. PlaceInv(r)'
        BY <1>1, <1>3, <1>4, <1>6, <1>8, <2>1, <2>2, <2>5, <3>1 DEF PlaceInv, IsLast
      <3>3. BeginInv(s)'
        BY <1>3, <1>5, <1>6, <1>8, <2>2, <2>5, <3>1 DEF BeginInv, AnsweredOK
      <3>4. MeetInv(s)'
        <4>1. CASE rpc'[r].pc = "finishing"
          <5>1. run[i].executor_done /\ run'[i].executor_done
            BY <2>2, <3>1, <4>1
          <5>2. /\ Ex(s).pc = "done" /\ run[i].final_callback = NoCallback
                /\ Ex(s).status # "OK" => run[i].final_status = Ex(s).status
            BY <1>3, <1>5, <1>6, <2>5, <3>1, <5>1 DEF MeetInv
          <5>3. Ex(s).status # "OK" => rpc'[r].status = Ex(s).status
            BY <2>2, <3>1, <4>1, <5>2
          <5>4. run'[i].final_callback = NoCallback /\ run'[i].final_status = rpc'[r].status
            BY <2>2, <3>1, <4>1, <5>2
          <5>5. Precedence(r)'
            BY <1>1, <1>5, <5>3 DEF Precedence
          <5> QED BY <1>3, <1>5, <1>6, <2>5, <3>1, <4>1, <5>1, <5>2, <5>3, <5>4, <5>5 DEF MeetInv
        <4>2. CASE rpc'[r].pc = "waiting"
          <5>1. ~run'[i].executor_done /\ run'[i].final_callback = r
            BY <2>2, <3>1, <4>2
          <5> QED BY <1>3, <1>5, <1>6, <2>5, <3>1, <4>2, <5>1 DEF MeetInv
        <4> QED BY <2>2, <3>1, <4>1, <4>2
      <3>5. MadeInv(s)'
        BY <1>3, <1>6, <2>2, <2>5 DEF MadeInv
      <3> QED BY <3>2, <3>3, <3>4, <3>5
    <2>6. \A t \in Steps \ {s} : Regular(t) => Run(t)' = Run(t)
      BY <1>2, <1>4, <2>2, RunKept
    <2>7. rpc'[r].pc # "unsent"
      BY <2>2
    <2>8. WorkerInv'
      BY <1>1, <1>3, <2>1, <2>2, <2>5, <2>6, <2>7, MoveInv
    <2> QED BY <2>3, <2>4, <2>8
  <1> QED BY <1>7, <1>8

LEMMA FinishInv ==
    ASSUME WorkerTypeOK, OwnerInv, WorkerInv, NEW r \in Requests, Finish(r)
    PROVE  WorkerTypeOK' /\ OwnerInv' /\ WorkerInv'
  <1>1. PICK s \in Steps : s = r[1]
    BY RequestParts
  <1>2. /\ rpc[r].pc = "finishing" /\ UNCHANGED <<run, cm, exec, rendezvous, starts>>
        /\ Answer(r, rpc[r].status) /\ erasing' = erasing \cup {r}
    BY DEF Finish
  <1>3. /\ rpc' \in [Requests -> Rpc] /\ answers' \in [Requests -> Nat]
        /\ rpc'[r].pc = "answered" /\ rpc'[r].status = rpc[r].status /\ ~rpc'[r].cancel_func
        /\ rpc'[r].cm = rpc[r].cm
        /\ answers'[r] = answers[r] + 1
        /\ \A q \in Requests \ {r} : rpc'[q] = rpc[q] /\ answers'[q] = answers[q]
    <2>1. rpc[r].status \in Statuses
      BY DEF WorkerTypeOK, Rpc
    <2> QED BY <1>2, <2>1, AnswerEffect
  <1>4. WorkerTypeOK'
    BY <1>2, <1>3 DEF WorkerTypeOK
  <1>5. OwnerInv'
    <2>1. ASSUME NEW q \in Requests PROVE RpcOwner(q)'
      BY <1>3 DEF OwnerInv, RpcOwner
    <2>2. ASSUME NEW q \in Requests PROVE ExecOwner(q)'
      BY <1>2 DEF OwnerInv, ExecOwner
    <2>3. ASSUME NEW j \in Ints PROVE RunOwner(j)'
      BY <1>2 DEF OwnerInv, RunOwner
    <2>4. r[1] \in Partial
      BY <1>2 DEF OwnerInv, RpcOwner
    <2> QED BY <1>2, <2>1, <2>2, <2>3, <2>4 DEF OwnerInv
  <1>6. \A t \in Steps : Run(t)' = Run(t) /\ Ex(t)' = Ex(t)
    BY <1>2 DEF Run, Ex
  <1>7. ASSUME Regular(s) PROVE PlaceInv(r)' /\ BeginInv(s)' /\ MeetInv(s)' /\ MadeInv(s)'
    <2>1. StepInv(s) /\ BeginInv(s) /\ MeetInv(s) /\ MadeInv(s) /\ PlaceInv(r)
      BY <1>1, <1>7 DEF WorkerInv, StepInv
    <2>2. /\ r = First(s) \/ AnsweredOK(First(s))
          /\ First(s) \in Requests /\ Last(s) \in Requests
          /\ Last(s)[1] = s /\ r = Last(s)
      BY <1>1, <1>2, <2>1, InProgress, FirstAndLast DEF PlaceInv
    <2>3. PlaceInv(r)'
      BY <1>2, <1>3, <2>1 DEF PlaceInv
    <2>4. BeginInv(s)'
      BY <1>2, <1>3, <1>6, <2>1, <2>2 DEF BeginInv, AnsweredOK
    <2>5. MeetInv(s)'
      BY <1>2, <1>3, <1>6, <2>1, <2>2 DEF MeetInv, Precedence
    <2>6. MadeInv(s)'
      BY <1>2, <1>3, <2>1, <2>2 DEF MadeInv
    <2> QED BY <2>3, <2>4, <2>5, <2>6
  <1>8. WorkerInv'
    BY <1>1, <1>2, <1>3, <1>6, <1>7, MoveInv
  <1> QED BY <1>4, <1>5, <1>8

LEMMA RunGraphDoneInv ==
    ASSUME WorkerTypeOK, OwnerInv, WorkerInv, NEW r \in Requests, RunGraphDone(r)
    PROVE  WorkerTypeOK' /\ OwnerInv' /\ WorkerInv'
  <1>1. PICK s \in Steps : s = r[1]
    BY RequestParts
  <1>2. /\ rpc[r].pc = "executing" /\ exec[r].pc = "ended"
        /\ UNCHANGED <<run, cm, exec, rendezvous, erasing, starts, answers>>
    BY DEF RunGraphDone, stepVars
  <1>3. PICK status \in {"OK", "Aborted", "NotExecuted", "ExecutorError"} :
            /\ exec[r].status # "OK" => status = exec[r].status
            /\ rpc' = [rpc EXCEPT ![r].pc = "cleared", ![r].cancel_func = FALSE, ![r].status = status]
    BY DEF RunGraphDone
  <1>4. /\ rpc' \in [Requests -> Rpc] /\ rpc'[r].pc = "cleared" /\ ~rpc'[r].cancel_func
        /\ rpc'[r].status = status /\ rpc'[r].cm = rpc[r].cm
        /\ \A q \in Requests \ {r} : rpc'[q] = rpc[q]
    <2> DEFINE new == [rpc[r] EXCEPT !.pc = "cleared", !.cancel_func = FALSE, !.status = status]
    <2>1. rpc[r] \in Rpc /\ "cleared" \in RpcPCs /\ status \in Statuses
      BY DEF WorkerTypeOK, RpcPCs, Statuses
    <2>2. /\ new \in Rpc /\ new.pc = "cleared" /\ ~new.cancel_func /\ new.status = status
          /\ new.cm = rpc[r].cm
      BY <2>1 DEF Rpc
    <2>3. rpc' = [rpc EXCEPT ![r] = new]
      BY <1>3
    <2> HIDE DEF new
    <2> QED BY <2>2, <2>3 DEF WorkerTypeOK
  <1>5. WorkerTypeOK'
    BY <1>2, <1>4 DEF WorkerTypeOK
  <1>6. OwnerInv'
    <2>1. RpcOwner(r)'
      BY <1>4 DEF OwnerInv, RpcOwner
    <2> QED BY <1>2, <1>4, <2>1, OwnerMove
  <1>7. \A t \in Steps : Run(t)' = Run(t) /\ Ex(t)' = Ex(t)
    BY <1>2 DEF Run, Ex
  <1>8. ASSUME Regular(s) PROVE PlaceInv(r)' /\ BeginInv(s)' /\ MeetInv(s)' /\ MadeInv(s)'
    <2>1. StepInv(s) /\ BeginInv(s) /\ MeetInv(s) /\ MadeInv(s) /\ PlaceInv(r)
      BY <1>1, <1>8 DEF WorkerInv, StepInv
    <2>2. /\ s \notin Partial /\ First(s) \in Requests /\ Last(s) = First(s)
          /\ Last(s)[1] = s /\ r = First(s)
      BY <1>1, <1>2, <2>1, InProgress, FirstAndLast DEF PlaceInv
    <2>3. PlaceInv(r)'
      BY <1>1, <1>2, <1>4, <2>1 DEF PlaceInv
    <2>4. BeginInv(s)'
      BY <1>2, <1>4, <1>7, <2>1, <2>2 DEF BeginInv, AnsweredOK
    <2>5. Ex(s) = exec[r] /\ Precedence(r)'
      BY <1>1, <1>3, <1>4, <1>7, <2>2 DEF Ex, Precedence
    <2>6. MeetInv(s)'
      BY <1>2, <1>4, <1>7, <2>1, <2>2, <2>5 DEF MeetInv
    <2>7. MadeInv(s)'
      BY <1>2, <1>4, <2>1 DEF MadeInv
    <2> QED BY <2>3, <2>4, <2>6, <2>7
  <1>9. WorkerInv'
    BY <1>1, <1>2, <1>4, <1>7, <1>8, MoveInv
  <1> QED BY <1>5, <1>6, <1>9

LEMMA RunGraphAnswerInv ==
    ASSUME WorkerTypeOK, OwnerInv, WorkerInv, NEW r \in Requests, RunGraphAnswer(r)
    PROVE  WorkerTypeOK' /\ OwnerInv' /\ WorkerInv'
  <1>1. PICK s \in Steps : s = r[1]
    BY RequestParts
  <1>2. /\ rpc[r].pc = "cleared" /\ UNCHANGED <<run, rendezvous, erasing, starts>>
        /\ Answer(r, rpc[r].status)
    BY DEF RunGraphAnswer
  <1>3. /\ rpc' \in [Requests -> Rpc] /\ answers' \in [Requests -> Nat]
        /\ rpc'[r].pc = "answered" /\ rpc'[r].status = rpc[r].status /\ ~rpc'[r].cancel_func
        /\ rpc'[r].cm = rpc[r].cm
        /\ answers'[r] = answers[r] + 1
        /\ \A q \in Requests \ {r} : rpc'[q] = rpc[q] /\ answers'[q] = answers[q]
    <2>1. rpc[r].status \in Statuses
      BY DEF WorkerTypeOK, Rpc
    <2> QED BY <1>2, <2>1, AnswerEffect
  <1>4. /\ exec' \in [Requests -> Exec] /\ exec'[r].pc = "done" /\ exec'[r].status = exec[r].status
        /\ \A q \in Requests \ {r} : exec'[q] = exec[q]
    BY DEF RunGraphAnswer, WorkerTypeOK, Exec
  <1>5. cm' \in [Requests -> CmStates] /\ cm'[r] = "freed" /\ \A q \in Requests \ {r} : cm'[q] = cm[q]
    BY DEF RunGraphAnswer, WorkerTypeOK, CmStates
  <1>6. WorkerTypeOK'
    BY <1>2, <1>3, <1>4, <1>5 DEF WorkerTypeOK
  <1>7. OwnerInv'
    <2>1. ASSUME NEW q \in Requests PROVE RpcOwner(q)'
      BY <1>3 DEF OwnerInv, RpcOwner
    <2>2. ASSUME NEW q \in Requests PROVE ExecOwner(q)'
      BY <1>4 DEF OwnerInv, ExecOwner
    <2>3. ASSUME NEW j \in Ints PROVE RunOwner(j)'
      BY <1>2 DEF OwnerInv, RunOwner
    <2> QED BY <1>2, <2>1, <2>2, <2>3 DEF OwnerInv
  <1>8. \A t \in Steps : Run(t)' = Run(t)
    BY <1>2 DEF Run
  <1>9. ASSUME Regular(s) PROVE PlaceInv(r)' /\ BeginInv(s)' /\ MeetInv(s)' /\ MadeInv(s)'
    <2>1. StepInv(s) /\ BeginInv(s) /\ MeetInv(s) /\ MadeInv(s) /\ PlaceInv(r)
      BY <1>1, <1>9 DEF WorkerInv, StepInv
    <2>2. /\ s \notin Partial /\ First(s) \in Requests /\ Last(s) = First(s)
          /\ Last(s)[1] = s /\ r = First(s)
      BY <1>1, <1>2, <2>1, InProgress, FirstAndLast DEF PlaceInv
    <2>3. Ex(s) = exec[r] /\ Ex(s)' = exec'[r] /\ ~Run(s).exists
      BY <2>2 DEF Ex, Run, NoRun
    <2>4. PlaceInv(r)'
      BY <1>2, <1>3, <2>1 DEF PlaceInv
    <2>5. BeginInv(s)'
      BY <1>2, <1>3, <1>8, <2>1, <2>2, <2>3 DEF BeginInv, AnsweredOK
    <2>6. Precedence(r)'
      BY <1>1, <1>2, <1>3, <1>4, <2>1, <2>2, <2>3 DEF MeetInv, Precedence
    <2>7. MeetInv(s)'
      BY <1>2, <1>3, <1>4, <1>8, <2>1, <2>2, <2>3, <2>6 DEF MeetInv
    <2>8. MadeInv(s)'
      <3> SUFFICES ASSUME NEW q \in Requests, q[1] = s
                   PROVE  /\ q # First(s) => exec'[q].pc = "none" /\ cm'[q] = "none"
                          /\ q \in erasing' => q = Last(s) /\ rpc'[q].pc = "answered"
                          /\ cm'[q] # "used after free"
        BY DEF MadeInv
      <3>1. /\ q # First(s) => exec[q].pc = "none" /\ cm[q] = "none"
            /\ q \in erasing => q = Last(s) /\ rpc[q].pc = "answered"
            /\ cm[q] # "used after free"
        BY <2>1 DEF MadeInv
      <3> QED BY <1>2, <1>3, <1>4, <1>5, <2>2, <3>1
    <2> QED BY <2>4, <2>5, <2>7, <2>8
  <1>10. WorkerInv'
    BY <1>1, <1>2, <1>3, <1>4, <1>5, <1>8, <1>9, MoveInv
  <1> QED BY <1>6, <1>7, <1>10

-----------------------------------------------------------------------------
(* The executor, and the master.                                            *)

(* What a step has to show that moves no request.                           *)
SameRpc == \A q \in Requests : /\ rpc'[q].pc = rpc[q].pc /\ rpc'[q].status = rpc[q].status
                               /\ rpc'[q].cancel_func = rpc[q].cancel_func
                               /\ rpc'[q].cm = rpc[q].cm /\ answers'[q] = answers[q]

LEMMA StillInv ==
    ASSUME WorkerInv, NEW s \in Steps, SameRpc,
           \A q \in Requests : q[1] # s /\ Regular(q[1]) => /\ exec'[q] = exec[q] /\ cm'[q] = cm[q]
                                                           /\ (q \in erasing' <=> q \in erasing),
           \A t \in Steps \ {s} : starts'[t] = starts[t] /\ (Regular(t) => Run(t)' = Run(t)),
           Regular(s) => BeginInv(s)' /\ MeetInv(s)' /\ MadeInv(s)'
    PROVE  WorkerInv'
  <1>1. ASSUME Regular(s) PROVE StepInv(s)'
    <2>1. ASSUME NEW r \in Requests, r[1] = s PROVE (CopyInv(r) /\ OrderInv(r) /\ PlaceInv(r))'
      <3>1. CopyInv(r) /\ OrderInv(r) /\ PlaceInv(r)
        BY <1>1, <2>1 DEF WorkerInv, StepInv
      <3>2. CopyInv(r)'
        BY <3>1 DEF CopyInv, SameRpc
      <3>3. OrderInv(r)'
        BY <3>1 DEF OrderInv, AnsweredOK, SameRpc
      <3>4. PlaceInv(r)'
        BY <3>1 DEF PlaceInv, SameRpc
      <3> QED BY <3>2, <3>3, <3>4
    <2> QED BY <1>1, <2>1 DEF StepInv
  <1>2. \A t \in Steps \ {s} : Regular(t) => Kept(t)
    BY DEF Kept, SameRpc
  <1> QED BY <1>1, <1>2, OneStep

LEMMA OwnerStill ==
    ASSUME OwnerInv, SameRpc,
           \A x \in Requests : exec'[x].pc = "callback" => exec'[x] = exec[x],
           UNCHANGED <<run, erasing>>
    PROVE  OwnerInv'
  <1>1. ASSUME NEW q \in Requests PROVE RpcOwner(q)'
    BY DEF OwnerInv, RpcOwner, SameRpc
  <1>2. ASSUME NEW q \in Requests PROVE ExecOwner(q)'
    BY DEF OwnerInv, ExecOwner
  <1>3. ASSUME NEW i \in Ints PROVE RunOwner(i)'
    BY DEF OwnerInv, RunOwner
  <1> QED BY <1>1, <1>2, <1>3 DEF OwnerInv

(* A cancel callback that can still run belongs to a call that is not       *)
(* answered, so the manager of its step is there.                           *)
LEMMA CancelInv ==
    ASSUME WorkerTypeOK, OwnerInv, WorkerInv, NEW r \in Requests, Cancel(r)
    PROVE  WorkerTypeOK' /\ OwnerInv' /\ WorkerInv'
  <1>1. PICK s \in Steps : s = r[1]
    BY RequestParts
  <1>2. UNCHANGED <<run, exec, rendezvous, erasing, starts, answers>>
    BY DEF Cancel
  <1>3. PICK c \in Requests : c = rpc[r].cm
    BY DEF WorkerTypeOK, Rpc
  <1>4. PICK v \in CmStates : /\ cm' = [cm EXCEPT ![c] = v]
                              /\ v = CASE ~rpc[r].cancel_func -> cm[c]
                                       [] rpc[r].cancel_func /\ cm[c] = "freed" -> "used after free"
                                       [] OTHER -> "cancelled"
    <2>1. cm[c] \in CmStates
      BY DEF WorkerTypeOK
    <2> QED BY <1>3, <2>1 DEF Cancel, CmStates
  <1>5. cm' \in [Requests -> CmStates] /\ cm'[c] = v /\ \A q \in Requests \ {c} : cm'[q] = cm[q]
    BY <1>4 DEF WorkerTypeOK
  <1>6. rpc' \in [Requests -> Rpc] /\ SameRpc
    <2>1. PICK ab \in SUBSET Nat : ab = IF rpc[r].cancel_func THEN {rendezvous[s].gen} ELSE {}
      BY DEF WorkerTypeOK, Rendezvous
    <2> DEFINE new == [rpc[r] EXCEPT !.cancelled = TRUE, !.abort = ab]
    <2>2. rpc[r] \in Rpc
      BY DEF WorkerTypeOK
    <2>3. /\ new \in Rpc /\ new.pc = rpc[r].pc /\ new.status = rpc[r].status
          /\ new.cancel_func = rpc[r].cancel_func /\ new.cm = rpc[r].cm
      BY <2>2 DEF Rpc
    <2>4. rpc' = [rpc EXCEPT ![r] = new]
      BY <1>1, <2>1 DEF Cancel
    <2> HIDE DEF new
    <2> QED BY <1>2, <2>3, <2>4 DEF WorkerTypeOK, SameRpc
  <1>7. WorkerTypeOK'
    BY <1>2, <1>5, <1>6 DEF WorkerTypeOK
  <1>8. OwnerInv'
    BY <1>2, <1>6, OwnerStill
  <1>9. \A t \in Steps : Run(t)' = Run(t) /\ Ex(t)' = Ex(t)
    BY <1>2 DEF Run, Ex
  <1>10. ASSUME NEW q \in Requests, q[1] # s, Regular(q[1]) PROVE cm'[q] = cm[q]
    <2>1. c[1] = s \/ SameRun(c[1], s)
      BY <1>1, <1>3 DEF OwnerInv, RpcOwner
    <2>2. q[1] \in Steps
      BY RequestParts
    <2>3. c # q
      BY <1>10, <2>1, <2>2, Alone
    <2> QED BY <1>5, <2>3
  <1>11. ASSUME Regular(s) PROVE BeginInv(s)' /\ MeetInv(s)' /\ MadeInv(s)'
    <2>1. StepInv(s) /\ BeginInv(s) /\ MeetInv(s) /\ MadeInv(s) /\ PlaceInv(r)
      BY <1>1, <1>11 DEF WorkerInv, StepInv
    <2>2. First(s) \in Requests /\ First(s)[1] = s /\ Last(s) \in Requests /\ Last(s)[1] = s
      BY FirstAndLast
    <2>3. ASSUME rpc[r].cancel_func PROVE c = First(s) /\ v = "cancelled"
      <3>1. rpc[r].pc \notin {"unsent", "admitted", "answered"}
        BY <2>1, <2>3 DEF PlaceInv
      <3>2. rpc[Last(s)].pc # "answered"
        BY <1>1, <2>1, <3>1, InProgress
      <3>3. c = First(s) /\ cm[c] # "freed"
        BY <1>1, <1>3, <2>1, <3>1, <3>2 DEF PlaceInv, MeetInv
      <3> QED BY <1>4, <2>3, <3>3
    <2>4. \/ v = cm[c]
          \/ c = First(s) /\ v = "cancelled"
      BY <1>4, <2>3
    <2>5. BeginInv(s)'
      BY <1>2, <1>6, <1>9, <2>1, <2>2 DEF BeginInv, AnsweredOK, SameRpc
    <2>6. cm'[First(s)] = "freed" => cm[First(s)] = "freed"
      BY <1>5, <2>2, <2>4
    <2>7. MeetInv(s)'
      BY <1>6, <1>9, <2>1, <2>2, <2>6 DEF MeetInv, Precedence, SameRpc
    <2>8. MadeInv(s)'
      <3> SUFFICES ASSUME NEW q \in Requests, q[1] = s
                   PROVE  /\ q # First(s) => exec'[q].pc = "none" /\ cm'[q] = "none"
                          /\ q \in erasing' => q = Last(s) /\ rpc'[q].pc = "answered"
                          /\ cm'[q] # "used after free"
        BY DEF MadeInv
      <3>1. /\ q # First(s) => exec[q].pc = "none" /\ cm[q] = "none"
            /\ q \in erasing => q = Last(s) /\ rpc[q].pc = "answered"
            /\ cm[q] # "used after free"
        BY <2>1 DEF MadeInv
      <3>2. cm'[q] = cm[q] \/ (q = First(s) /\ cm'[q] = "cancelled")
        BY <1>5, <2>4
      <3>3. exec'[q] = exec[q] /\ rpc'[q].pc = rpc[q].pc /\ erasing' = erasing
        BY <1>2, <1>6 DEF SameRpc
      <3> QED BY <3>1, <3>2, <3>3
    <2> QED BY <2>5, <2>7, <2>8
  <1>12. WorkerInv'
    BY <1>2, <1>6, <1>9, <1>10, <1>11, StillInv
  <1> QED BY <1>7, <1>8, <1>12

(* Whatever happens to a rendezvous: the invariant does not depend on it.   *)
LEMMA AbortInv ==
    ASSUME WorkerTypeOK, OwnerInv, WorkerInv, SameRpc, rpc' \in [Requests -> Rpc],
           rendezvous' \in [Steps -> Rendezvous],
           UNCHANGED <<run, cm, exec, erasing, starts, answers>>
    PROVE  WorkerTypeOK' /\ OwnerInv' /\ WorkerInv'
  <1>1. WorkerTypeOK'
    BY DEF WorkerTypeOK
  <1>2. OwnerInv'
    BY OwnerStill
  <1>3. \A t \in Steps : Kept(t)
    BY DEF Kept, Run, SameRpc
  <1>4. WorkerInv'
    BY <1>3, StepFrame DEF WorkerInv, Regular
  <1> QED BY <1>1, <1>2, <1>4

LEMMA StartAbortTyped ==
    ASSUME WorkerTypeOK, NEW s \in Steps, NEW gen, StartAbort(s, gen)
    PROVE  rendezvous' \in [Steps -> Rendezvous]
  <1>1. PICK b \in BOOLEAN : b = (rendezvous[s].aborted \/ gen = rendezvous[s].gen)
    OBVIOUS
  <1> DEFINE new == [rendezvous[s] EXCEPT !.aborted = b]
  <1>2. new \in Rendezvous
    BY DEF WorkerTypeOK, Rendezvous
  <1>3. rendezvous' = [rendezvous EXCEPT ![s] = new]
    BY <1>1 DEF StartAbort
  <1> HIDE DEF new
  <1> QED BY <1>2, <1>3 DEF WorkerTypeOK

LEMMA AbortStepInv ==
    ASSUME WorkerTypeOK, OwnerInv, WorkerInv, NEW r \in Requests, AbortStep(r)
    PROVE  WorkerTypeOK' /\ OwnerInv' /\ WorkerInv'
  <1>1. PICK gen \in rpc[r].abort : StartAbort(r[1], gen)
    BY DEF AbortStep
  <1>2. /\ UNCHANGED <<run, cm, exec, erasing, starts, answers>>
        /\ rpc' = [rpc EXCEPT ![r].abort = {}]
    BY DEF AbortStep
  <1>3. rendezvous' \in [Steps -> Rendezvous]
    BY <1>1, RequestParts, StartAbortTyped
  <1>4. rpc' \in [Requests -> Rpc] /\ SameRpc
    <2> DEFINE new == [rpc[r] EXCEPT !.abort = {}]
    <2>1. rpc[r] \in Rpc
      BY DEF WorkerTypeOK
    <2>2. /\ new \in Rpc /\ new.pc = rpc[r].pc /\ new.status = rpc[r].status
          /\ new.cancel_func = rpc[r].cancel_func /\ new.cm = rpc[r].cm
      BY <2>1 DEF Rpc
    <2>3. rpc' = [rpc EXCEPT ![r] = new]
      BY <1>2
    <2> HIDE DEF new
    <2> QED BY <1>2, <2>2, <2>3 DEF WorkerTypeOK, SameRpc
  <1> QED BY <1>2, <1>3, <1>4, AbortInv

LEMMA CleanupGraphInv ==
    ASSUME WorkerTypeOK, OwnerInv, WorkerInv, NEW s \in Steps, CleanupGraph(s)
    PROVE  WorkerTypeOK' /\ OwnerInv' /\ WorkerInv'
  <1>1. UNCHANGED <<rpc, run, cm, exec, erasing, starts, answers>>
    BY DEF CleanupGraph
  <1>2. rendezvous' \in [Steps -> Rendezvous]
    <2> DEFINE new == [rendezvous[s] EXCEPT !.gen = 1, !.aborted = FALSE]
    <2>1. new \in Rendezvous
      BY DEF WorkerTypeOK, Rendezvous
    <2>2. rendezvous' = [rendezvous EXCEPT ![s] = new]
      BY DEF CleanupGraph
    <2> HIDE DEF new
    <2> QED BY <2>1, <2>2 DEF WorkerTypeOK
  <1>3. rpc' \in [Requests -> Rpc] /\ SameRpc
    BY <1>1 DEF WorkerTypeOK, SameRpc
  <1> QED BY <1>1, <1>2, <1>3, AbortInv

LEMMA ExecutorEndsInv ==
    ASSUME WorkerTypeOK, OwnerInv, WorkerInv, NEW x \in Requests, ExecutorEnds(x) \/ ExecutorFails(x)
    PROVE  WorkerTypeOK' /\ OwnerInv' /\ WorkerInv'
  <1>1. PICK s \in Steps : s = x[1]
    BY RequestParts
  <1>2. exec[x].pc = "running" /\ UNCHANGED <<rpc, run, cm, erasing, starts, answers>>
    BY DEF ExecutorEnds, ExecutorFails
  <1>3. /\ exec' \in [Requests -> Exec] /\ exec'[x].pc = "ended"
        /\ \A q \in Requests \ {x} : exec'[q] = exec[q]
    <2>1. CASE ExecutorEnds(x)
      BY <2>1 DEF ExecutorEnds, WorkerTypeOK, Exec
    <2>2. CASE ExecutorFails(x)
      <3>1. "ExecutorError" \in Statuses
        BY DEF Statuses
      <3> QED BY <2>2, <3>1 DEF ExecutorFails, WorkerTypeOK, Exec
    <2> QED BY <2>1, <2>2
  <1>4. rendezvous' \in [Steps -> Rendezvous]
    <2>1. CASE ExecutorEnds(x)
      BY <2>1 DEF ExecutorEnds, WorkerTypeOK
    <2>2. CASE ExecutorFails(x)
      BY <1>1, <2>2, StartAbortTyped DEF ExecutorFails
    <2> QED BY <2>1, <2>2
  <1>5. WorkerTypeOK'
    BY <1>2, <1>3, <1>4 DEF WorkerTypeOK
  <1>6. SameRpc
    BY <1>2 DEF SameRpc
  <1>7. OwnerInv'
    BY <1>2, <1>3, <1>6, OwnerStill
  <1>8. \A t \in Steps : Run(t)' = Run(t)
    BY <1>2 DEF Run
  <1>9. ASSUME Regular(s) PROVE BeginInv(s)' /\ MeetInv(s)' /\ MadeInv(s)'
    <2>1. StepInv(s) /\ BeginInv(s) /\ MeetInv(s) /\ MadeInv(s)
      BY <1>1, <1>9 DEF WorkerInv, StepInv
    <2>2. First(s) \in Requests /\ First(s)[1] = s /\ Last(s) \in Requests /\ Last(s)[1] = s
      BY FirstAndLast
    <2>3. x = First(s)
      BY <1>1, <1>2, <2>1 DEF MadeInv
    <2>4. Ex(s).pc = "running" /\ Ex(s)'.pc = "ended"
      BY <1>2, <1>3, <2>3 DEF Ex
    <2>5. PlaceInv(Last(s))
      BY <2>1, <2>2 DEF StepInv
    <2>6. BeginInv(s)'
      BY <1>2, <1>8, <2>1, <2>4 DEF BeginInv, AnsweredOK
    <2>7. MeetInv(s)'
      BY <1>2, <1>8, <2>1, <2>4 DEF MeetInv
    <2>8. MadeInv(s)'
      BY <1>2, <1>3, <2>1, <2>3 DEF MadeInv
    <2> QED BY <2>6, <2>7, <2>8
  <1>10. WorkerInv'
    BY <1>1, <1>2, <1>3, <1>6, <1>8, <1>9, StillInv
  <1> QED BY <1>5, <1>7, <1>10

(* ExecutorDone: the last part has left its callback, or it comes later.    *)
LEMMA ExecutorDoneInv ==
    ASSUME WorkerTypeOK, OwnerInv, WorkerInv, NEW x \in Requests, ExecutorDone(x)
    PROVE  WorkerTypeOK' /\ OwnerInv' /\ WorkerInv'
  <1>1. PICK s \in Steps : s = x[1]
    BY RequestParts
  <1>2. PICK i \in Ints : i = Narrow(s)
    BY NarrowInts
  <1>3. /\ exec[x].pc = "ended" /\ s \in Partial
        /\ UNCHANGED <<cm, rendezvous, erasing, starts, answers>>
        /\ exec[x] \in Exec /\ run[i] \in Runs
    BY <1>1 DEF ExecutorDone, WorkerTypeOK
  <1>4. Run(s) = run[i] /\ Run(s)' = run'[i]
    BY <1>2, <1>3 DEF Run
  <1>5. PICK l \in Requests : l = Last(s) /\ l[1] = s /\ l[3] = 1
    BY FirstAndLast
  <1>6. ASSUME Regular(s)
        PROVE  /\ BeginInv(s) /\ MeetInv(s) /\ MadeInv(s) /\ PlaceInv(l) /\ rpc[l] \in Rpc
               /\ First(s) \in Requests /\ x = First(s) /\ Ex(s) = exec[x] /\ Ex(s)' = exec'[x]
               /\ rpc[l].pc \notin {"finishing", "cleared"}
    <2>1. BeginInv(s) /\ MeetInv(s) /\ MadeInv(s) /\ PlaceInv(l)
      BY <1>5, <1>6 DEF WorkerInv, StepInv
    <2>2. x = First(s) /\ First(s) \in Requests
      BY <1>1, <1>3, <2>1, FirstAndLast DEF MadeInv
    <2>3. Ex(s) = exec[x] /\ Ex(s)' = exec'[x]
      BY <2>2 DEF Ex
    <2>4. rpc[l].pc \notin {"finishing", "cleared"}
      BY <1>3, <1>5, <2>1, <2>3 DEF MeetInv, PlaceInv
    <2> QED BY <2>1, <2>2, <2>3, <2>4 DEF WorkerTypeOK
  <1>7. CASE ~run[i].exists
    <2>1. exec' = [exec EXCEPT ![x].pc = "done"] /\ UNCHANGED <<run, rpc>>
      BY <1>1, <1>2, <1>7 DEF ExecutorDone
    <2>2. /\ exec' \in [Requests -> Exec] /\ exec'[x].pc = "done" /\ exec'[x].status = exec[x].status
          /\ \A q \in Requests \ {x} : exec'[q] = exec[q]
      BY <2>1 DEF WorkerTypeOK, Exec
    <2>3. WorkerTypeOK'
      BY <1>3, <2>1, <2>2 DEF WorkerTypeOK
    <2>4. SameRpc /\ \A t \in Steps : Run(t)' = Run(t)
      BY <1>3, <2>1 DEF SameRpc, Run
    <2>5. OwnerInv'
      BY <1>3, <2>1, <2>2, <2>4, OwnerStill
    <2>6. ASSUME Regular(s) PROVE BeginInv(s)' /\ MeetInv(s)' /\ MadeInv(s)'
      <3>1. BeginInv(s)'
        BY <1>3, <1>6, <2>1, <2>2, <2>4, <2>6 DEF BeginInv, AnsweredOK
      <3>2. Precedence(l) => Precedence(l)'
        <4>1. Ex(s)'.status = Ex(s).status /\ rpc' = rpc
          BY <1>6, <2>1, <2>2, <2>6
        <4> QED BY <1>5, <4>1 DEF Precedence
      <3>3. MeetInv(s)'
        BY <1>3, <1>4, <1>5, <1>6, <1>7, <2>1, <2>2, <2>6, <3>2 DEF MeetInv
      <3>4. MadeInv(s)'
        BY <1>3, <1>6, <2>1, <2>2, <2>6 DEF MadeInv
      <3> QED BY <3>1, <3>3, <3>4
    <2>7. WorkerInv'
      BY <1>1, <1>3, <2>1, <2>2, <2>4, <2>6, StillInv
    <2> QED BY <2>3, <2>5, <2>7
  <1>8. CASE run[i].exists
    <2>1. run[i] \in PartialRun
      <3>1. run[i] # NoRun
        BY <1>8 DEF NoRun
      <3> QED BY <1>3, <3>1 DEF Runs
    <2>2. PICK cb \in Callbacks : cb = run[i].final_callback
      BY <2>1 DEF PartialRun
    <2>3. PICK final \in Statuses : final = FinalStatus(x)
      <3>1. run[i].final_status \in Statuses /\ exec[x].status \in Statuses
        BY <1>3, <2>1 DEF PartialRun, Exec
      <3> QED BY <1>1, <1>2, <3>1 DEF FinalStatus
    <2>4. exec[x].status # "OK" => final = exec[x].status
      BY <2>3 DEF FinalStatus
    <2>5. /\ run' \in [Ints -> Runs]
          /\ \A j \in Ints \ {i} : run'[j] = run[j]
          /\ run'[i].exists /\ run'[i].executor_done /\ run'[i].final_callback = NoCallback
          /\ run'[i].final_status = final /\ run'[i].cm = run[i].cm
      <3> DEFINE new == [run[i] EXCEPT !.executor_done = TRUE, !.final_status = final,
                                       !.final_callback = NoCallback]
      <3>1. new \in PartialRun
        BY <2>1 DEF PartialRun, Callbacks
      <3>2. /\ new.exists /\ new.executor_done /\ new.final_callback = NoCallback
            /\ new.final_status = final /\ new.cm = run[i].cm
        BY <2>1 DEF PartialRun
      <3>3. run' = [run EXCEPT ![i] = new]
        BY <1>1, <1>2, <1>8, <2>3 DEF ExecutorDone
      <3> HIDE DEF new
      <3> QED BY <3>1, <3>2, <3>3 DEF WorkerTypeOK, Runs
    <2>6. /\ exec' \in [Requests -> Exec] /\ exec'[x].callback = cb /\ exec'[x].status = exec[x].status
          /\ exec'[x].pc = IF cb = NoCallback THEN "done" ELSE "callback"
          /\ \A q \in Requests \ {x} : exec'[q] = exec[q]
      <3>1. exec' = [exec EXCEPT ![x].callback = cb,
                                 ![x].pc = IF cb = NoCallback THEN "done" ELSE "callback"]
        BY <1>1, <1>2, <1>8, <2>2 DEF ExecutorDone
      <3> QED BY <3>1 DEF WorkerTypeOK, Exec
    <2>7. rpc' = [r \in Requests |-> IF r = cb THEN [rpc[r] EXCEPT !.status = final] ELSE rpc[r]]
      BY <1>1, <1>2, <1>8, <2>2, <2>3 DEF ExecutorDone
    <2>8. RunOwner(i)
      BY DEF OwnerInv
    <2>9. \A j \in Ints : RunOwner(j)'
      <3> SUFFICES ASSUME NEW j \in Ints PROVE RunOwner(j)'
        OBVIOUS
      <3>1. CASE j = i
        BY <1>8, <2>5, <2>8, <3>1 DEF RunOwner
      <3>2. CASE j # i
        BY <2>5, <3>2 DEF OwnerInv, RunOwner
      <3> QED BY <3>1, <3>2
    <2>10. CASE cb = NoCallback
      <3>1. rpc' = rpc
        <4>1. \A r \in Requests : r # cb
          BY <2>10, RequestParts
        <4> QED BY <2>7, <4>1 DEF WorkerTypeOK
      <3>2. WorkerTypeOK'
        BY <1>3, <2>5, <2>6, <3>1 DEF WorkerTypeOK
      <3>3. SameRpc
        BY <1>3, <3>1 DEF SameRpc
      <3>4. OwnerInv'
        <4>1. ASSUME NEW q \in Requests PROVE RpcOwner(q)'
          BY <3>1 DEF OwnerInv, RpcOwner
        <4>2. ASSUME NEW q \in Requests PROVE ExecOwner(q)'
          BY <2>6, <2>10 DEF OwnerInv, ExecOwner
        <4> QED BY <1>3, <2>9, <4>1, <4>2 DEF OwnerInv
      <3>5. ASSUME Regular(s) PROVE BeginInv(s)' /\ MeetInv(s)' /\ MadeInv(s)'
        <4>1. BeginInv(s)'
          BY <1>3, <1>4, <1>6, <1>8, <2>5, <2>6, <2>10, <3>1, <3>5 DEF BeginInv, AnsweredOK
        <4>2. Precedence(l) => Precedence(l)'
          BY <1>5, <1>6, <2>6, <3>1, <3>5 DEF Precedence
        <4>3. MeetInv(s)'
          BY <1>3, <1>4, <1>5, <1>6, <2>4, <2>5, <2>6, <2>10, <3>1, <3>5, <4>2 DEF MeetInv
        <4>4. MadeInv(s)'
          BY <1>3, <1>6, <2>6, <3>1, <3>5 DEF MadeInv
        <4> QED BY <4>1, <4>3, <4>4
      <3>6. \A t \in Steps \ {s} : Regular(t) => Run(t)' = Run(t)
        BY <1>2, <1>3, <2>5, RunKept
      <3>7. WorkerInv'
        BY <1>1, <1>3, <2>6, <3>3, <3>5, <3>6, StillInv
      <3> QED BY <3>2, <3>4, <3>7
    <2>11. CASE cb # NoCallback
      <3>1. cb \in Requests /\ InRun(cb[1], i)
        BY <1>8, <2>2, <2>8, <2>11 DEF RunOwner, Callbacks
      <3>2. PICK u \in Steps : u = cb[1]
        BY <3>1, RequestParts
      <3>3. u \in Partial /\ Narrow(u) = i /\ SameRun(u, s) /\ SameRun(s, u)
        BY <1>2, <1>3, <3>1, <3>2 DEF InRun, SameRun
      <3>4. /\ rpc' \in [Requests -> Rpc] /\ rpc'[cb].pc = rpc[cb].pc /\ rpc'[cb].status = final
            /\ rpc'[cb].cancel_func = rpc[cb].cancel_func /\ rpc'[cb].cm = rpc[cb].cm
            /\ \A q \in Requests \ {cb} : rpc'[q] = rpc[q]
        BY <2>7, <3>1 DEF WorkerTypeOK, Rpc
      <3>5. WorkerTypeOK'
        BY <1>3, <2>5, <2>6, <3>4 DEF WorkerTypeOK
      <3>6. OwnerInv'
        <4>1. ASSUME NEW q \in Requests PROVE RpcOwner(q)'
          BY <3>4 DEF OwnerInv, RpcOwner
        <4>2. ASSUME NEW q \in Requests PROVE ExecOwner(q)'
          BY <1>1, <2>6, <3>1, <3>2, <3>3 DEF OwnerInv, ExecOwner
        <4> QED BY <1>3, <2>9, <4>1, <4>2 DEF OwnerInv
      <3>7. ASSUME NEW t \in Steps, Regular(t), t # u PROVE t # s
        BY <3>3, <3>7, Alone
      <3>8. ASSUME NEW q \in Requests, q[1] # u, Regular(q[1]) PROVE exec'[q] = exec[q]
        <4>1. q[1] \in Steps
          BY RequestParts
        <4>2. q # x
          BY <1>1, <3>7, <3>8, <4>1
        <4> QED BY <2>6, <4>2
      <3>9. ASSUME Regular(u)
            PROVE  /\ rpc[cb].pc \notin {"unsent", "answered"} /\ rpc'[cb].pc # "unsent"
                   /\ PlaceInv(cb)' /\ BeginInv(u)' /\ MeetInv(u)' /\ MadeInv(u)'
        <4>1. u = s /\ Regular(s)
          BY <3>3, <3>9, Alone
        <4>2. cb = l /\ rpc[l].pc = "waiting"
          BY <1>4, <1>5, <1>6, <1>8, <2>2, <2>11, <4>1 DEF MeetInv
        <4>3. PlaceInv(l)'
          BY <1>3, <1>6, <3>4, <4>1, <4>2 DEF PlaceInv
        <4>4. BeginInv(s)'
          BY <1>3, <1>4, <1>5, <1>6, <1>8, <2>5, <2>6, <2>11, <3>4, <4>1, <4>2 DEF BeginInv, AnsweredOK
        <4>5. Precedence(l)'
          BY <1>5, <1>6, <2>4, <2>6, <3>4, <4>1, <4>2 DEF Precedence
        <4>6. MeetInv(s)'
          BY <1>3, <1>4, <1>5, <1>6, <2>4, <2>5, <2>6, <2>11, <3>4, <4>1, <4>2, <4>5 DEF MeetInv
        <4>7. MadeInv(s)'
          <5> SUFFICES ASSUME NEW q \in Requests, q[1] = s
                       PROVE  /\ q # First(s) => exec'[q].pc = "none" /\ cm'[q] = "none"
                              /\ q \in erasing' => q = Last(s) /\ rpc'[q].pc = "answered"
                              /\ cm'[q] # "used after free"
            BY DEF MadeInv
          <5>1. /\ q # First(s) => exec[q].pc = "none" /\ cm[q] = "none"
                /\ q \in erasing => q = Last(s) /\ rpc[q].pc = "answered"
                /\ cm[q] # "used after free"
            BY <1>6, <4>1 DEF MadeInv
          <5>2. rpc'[q].pc = rpc[q].pc
            BY <3>4
          <5>3. q # First(s) => exec'[q] = exec[q]
            BY <1>6, <2>6, <4>1
          <5> QED BY <1>3, <5>1, <5>2, <5>3
        <4> QED BY <3>4, <4>1, <4>2, <4>3, <4>4, <4>6, <4>7
      <3>10. \A t \in Steps \ {u} : Regular(t) => Run(t)' = Run(t)
        BY <2>5, <3>3, RunKept
      <3>11. WorkerInv'
        BY <1>3, <3>1, <3>2, <3>4, <3>8, <3>9, <3>10, MoveInv
      <3> QED BY <3>5, <3>6, <3>11
    <2> QED BY <2>10, <2>11
  <1> QED BY <1>7, <1>8

LEMMA ExecutorFinishInv ==
    ASSUME WorkerTypeOK, OwnerInv, WorkerInv, NEW x \in Requests, ExecutorFinish(x)
    PROVE  WorkerTypeOK' /\ OwnerInv' /\ WorkerInv'
  <1>1. PICK s \in Steps : s = x[1]
    BY RequestParts
  <1>2. PICK r \in Requests : r = exec[x].callback /\ SameRun(r[1], s)
    BY <1>1 DEF OwnerInv, ExecOwner, ExecutorFinish
  <1>3. PICK u \in Steps : u = r[1]
    BY RequestParts
  <1>4. SameRun(u, s) /\ SameRun(s, u) /\ u \in Partial /\ s \in Partial
    BY <1>2, <1>3 DEF SameRun, InRun
  <1>5. /\ exec[x].pc = "callback" /\ UNCHANGED <<run, cm, rendezvous, starts>>
        /\ Answer(r, rpc[r].status) /\ erasing' = erasing \cup {r}
    BY <1>2 DEF ExecutorFinish
  <1>6. /\ rpc' \in [Requests -> Rpc] /\ answers' \in [Requests -> Nat]
        /\ rpc'[r].pc = "answered" /\ rpc'[r].status = rpc[r].status /\ ~rpc'[r].cancel_func
        /\ rpc'[r].cm = rpc[r].cm
        /\ answers'[r] = answers[r] + 1
        /\ \A q \in Requests \ {r} : rpc'[q] = rpc[q] /\ answers'[q] = answers[q]
    <2>1. rpc[r].status \in Statuses
      BY DEF WorkerTypeOK, Rpc
    <2> QED BY <1>5, <2>1, AnswerEffect
  <1>7. /\ exec' \in [Requests -> Exec] /\ exec'[x].pc = "done" /\ exec'[x].status = exec[x].status
        /\ \A q \in Requests \ {x} : exec'[q] = exec[q]
    BY DEF ExecutorFinish, WorkerTypeOK, Exec
  <1>8. WorkerTypeOK'
    BY <1>5, <1>6, <1>7 DEF WorkerTypeOK
  <1>9. OwnerInv'
    <2>1. ASSUME NEW q \in Requests PROVE RpcOwner(q)'
      BY <1>6 DEF OwnerInv, RpcOwner
    <2>2. ASSUME NEW q \in Requests PROVE ExecOwner(q)'
      BY <1>7 DEF OwnerInv, ExecOwner
    <2>3. ASSUME NEW j \in Ints PROVE RunOwner(j)'
      BY <1>5 DEF OwnerInv, RunOwner
    <2> QED BY <1>3, <1>4, <1>5, <2>1, <2>2, <2>3 DEF OwnerInv
  <1>10. \A t \in Steps : Run(t)' = Run(t)
    BY <1>5 DEF Run
  <1>11. ASSUME NEW q \in Requests, q[1] # u, Regular(q[1])
         PROVE  exec'[q] = exec[q] /\ (q \in erasing' <=> q \in erasing)
    <2>1. q[1] \in Steps
      BY RequestParts
    <2>2. q # x
      BY <1>1, <1>4, <1>11, <2>1, Alone
    <2> QED BY <1>3, <1>5, <1>7, <1>11, <2>2
  <1>12. ASSUME Regular(u)
         PROVE  /\ rpc[r].pc \notin {"unsent", "answered"} /\ rpc'[r].pc # "unsent"
                /\ PlaceInv(r)' /\ BeginInv(u)' /\ MeetInv(u)' /\ MadeInv(u)'
    <2>1. u = s /\ Regular(s)
      BY <1>4, <1>12, Alone
    <2>2. StepInv(s) /\ BeginInv(s) /\ MeetInv(s) /\ MadeInv(s) /\ PlaceInv(r)
      BY <1>3, <2>1 DEF WorkerInv, StepInv
    <2>3. x = First(s) /\ First(s) \in Requests /\ Last(s) \in Requests
      BY <1>1, <1>5, <2>2, FirstAndLast DEF MadeInv
    <2>4. Ex(s) = exec[x] /\ Ex(s)' = exec'[x]
      BY <2>3 DEF Ex
    <2>5. r = Last(s) /\ rpc[r].pc = "waiting" /\ Precedence(r)
      BY <1>2, <1>5, <2>2, <2>4 DEF MeetInv
    <2>6. r = First(s) \/ AnsweredOK(First(s))
      BY <1>3, <2>1, <2>2, <2>5, InProgress
    <2>7. PlaceInv(r)'
      BY <1>6, <2>2, <2>5 DEF PlaceInv
    <2>8. BeginInv(s)'
      BY <1>5, <1>6, <1>7, <1>10, <2>2, <2>3, <2>4, <2>5, <2>6 DEF BeginInv, AnsweredOK
    <2>9. Precedence(r)'
      BY <1>3, <1>6, <1>7, <2>1, <2>4, <2>5 DEF Precedence
    <2>10. MeetInv(s)'
      BY <1>5, <1>6, <1>7, <1>10, <2>2, <2>3, <2>4, <2>5, <2>9 DEF MeetInv
    <2>11. MadeInv(s)'
      BY <1>5, <1>6, <1>7, <2>2, <2>3, <2>5 DEF MadeInv
    <2> QED BY <1>6, <2>1, <2>5, <2>7, <2>8, <2>10, <2>11
  <1>13. WorkerInv'
    BY <1>3, <1>5, <1>6, <1>10, <1>11, <1>12, MoveInv
  <1> QED BY <1>8, <1>9, <1>13

LEMMA EraseInv ==
    ASSUME WorkerTypeOK, OwnerInv, WorkerInv, NEW r \in Requests, Erase(r)
    PROVE  WorkerTypeOK' /\ OwnerInv' /\ WorkerInv'
  <1>1. PICK s \in Steps : s = r[1]
    BY RequestParts
  <1>2. PICK i \in Ints : i = Narrow(s)
    BY NarrowInts
  <1>3. /\ r \in erasing /\ erasing' = erasing \ {r}
        /\ UNCHANGED <<rpc, exec, rendezvous, starts, answers>>
    BY DEF Erase, Erasable
  <1>4. s \in Partial
    BY <1>1, <1>3 DEF OwnerInv
  <1>5. /\ run' \in [Ints -> Runs] /\ ~run'[i].exists
        /\ \A j \in Ints \ {i} : run'[j] = run[j]
    <2>1. run' = [run EXCEPT ![i] = NoRun]
      BY <1>1, <1>2 DEF Erase
    <2>2. ~NoRun.exists
      BY DEF NoRun
    <2> QED BY <2>1, <2>2 DEF WorkerTypeOK, Runs
  <1>6. /\ cm' \in [Requests -> CmStates]
        /\ \A q \in Requests : \/ cm'[q] = cm[q]
                               \/ run[i].exists /\ q = run[i].cm /\ cm'[q] = "freed"
    <2>1. cm' = [q \in Requests |-> IF run[i].exists /\ q = run[i].cm THEN "freed" ELSE cm[q]]
      BY <1>1, <1>2 DEF Erase
    <2>2. "freed" \in CmStates
      BY DEF CmStates
    <2> QED BY <2>1, <2>2 DEF WorkerTypeOK
  <1>7. WorkerTypeOK'
    BY <1>3, <1>5, <1>6 DEF WorkerTypeOK
  <1>8. SameRpc
    BY <1>3 DEF SameRpc
  <1>9. OwnerInv'
    <2>1. ASSUME NEW q \in Requests PROVE RpcOwner(q)'
      BY <1>3 DEF OwnerInv, RpcOwner
    <2>2. ASSUME NEW q \in Requests PROVE ExecOwner(q)'
      BY <1>3 DEF OwnerInv, ExecOwner
    <2>3. ASSUME NEW j \in Ints PROVE RunOwner(j)'
      BY <1>5 DEF OwnerInv, RunOwner
    <2> QED BY <1>3, <2>1, <2>2, <2>3 DEF OwnerInv
  <1>10. ASSUME NEW q \in Requests, q[1] # s, Regular(q[1])
         PROVE  cm'[q] = cm[q] /\ (q \in erasing' <=> q \in erasing)
    <2>1. q[1] \in Steps
      BY RequestParts
    <2>2. run[i].exists => SameRun(s, run[i].cm[1])
      BY <1>2, <1>4 DEF OwnerInv, RunOwner, SameRun, InRun
    <2>3. ~(run[i].exists /\ q = run[i].cm)
      BY <1>10, <2>1, <2>2, Alone
    <2> QED BY <1>1, <1>3, <1>6, <1>10, <2>3
  <1>11. \A t \in Steps \ {s} : Regular(t) => Run(t)' = Run(t)
    BY <1>2, <1>4, <1>5, RunKept
  <1>12. ASSUME Regular(s) PROVE BeginInv(s)' /\ MeetInv(s)' /\ MadeInv(s)'
    <2>1. BeginInv(s) /\ MeetInv(s) /\ MadeInv(s)
      BY <1>12 DEF WorkerInv, StepInv
    <2>2. r = Last(s) /\ rpc[r].pc = "answered"
      BY <1>1, <1>3, <2>1 DEF MadeInv
    <2>3. Run(s) = run[i] /\ Run(s)' = run'[i] /\ Ex(s)' = Ex(s)
      BY <1>2, <1>3, <1>4 DEF Run, Ex
    <2>4. run[i].exists => run[i].cm = First(s)
      BY <2>1, <2>3 DEF BeginInv
    <2>5. BeginInv(s)'
      BY <1>3, <1>5, <2>1, <2>2, <2>3 DEF BeginInv, AnsweredOK
    <2>6. Precedence(r)' <=> Precedence(r)
      BY <1>1, <1>3, <2>3 DEF Precedence
    <2>7. MeetInv(s)'
      BY <1>3, <1>5, <2>1, <2>2, <2>3, <2>6 DEF MeetInv
    <2>8. MadeInv(s)'
      <3> SUFFICES ASSUME NEW q \in Requests, q[1] = s
                   PROVE  /\ q # First(s) => exec'[q].pc = "none" /\ cm'[q] = "none"
                          /\ q \in erasing' => q = Last(s) /\ rpc'[q].pc = "answered"
                          /\ cm'[q] # "used after free"
        BY DEF MadeInv
      <3>1. /\ q # First(s) => exec[q].pc = "none" /\ cm[q] = "none"
            /\ q \in erasing => q = Last(s) /\ rpc[q].pc = "answered"
            /\ cm[q] # "used after free"
        BY <2>1 DEF MadeInv
      <3>2. cm'[q] = cm[q] \/ (q = First(s) /\ cm'[q] = "freed")
        BY <1>6, <2>4
      <3> QED BY <1>3, <3>1, <3>2
    <2> QED BY <2>5, <2>7, <2>8
  <1>13. WorkerInv'
    BY <1>3, <1>8, <1>10, <1>11, <1>12, StillInv
  <1> QED BY <1>7, <1>9, <1>13

-----------------------------------------------------------------------------
LEMMA WorkerInit == Init => WorkerTypeOK /\ OwnerInv /\ WorkerInv
  <1> SUFFICES ASSUME Init PROVE WorkerTypeOK /\ OwnerInv /\ WorkerInv
    OBVIOUS
  <1>1. WorkerTypeOK
    <2>1. "unsent" \in RpcPCs /\ "OK" \in Statuses /\ NoCallback \in Callbacks /\ "none" \in CmStates
      BY DEF RpcPCs, Statuses, Callbacks, CmStates
    <2>2. rpc \in [Requests -> Rpc]
      <3>1. ASSUME NEW r \in Requests
            PROVE  [pc |-> "unsent", status |-> "OK", cancel_func |-> FALSE, cancelled |-> FALSE,
                    abort |-> {}, cm |-> r, gen |-> 0] \in Rpc
        BY <2>1 DEF Rpc
      <3> QED BY <3>1 DEF Init
    <2>3. run \in [Ints -> Runs] /\ cm \in [Requests -> CmStates]
      BY <2>1 DEF Init, Runs
    <2>4. exec \in [Requests -> Exec]
      BY <2>1 DEF Init, Exec
    <2>5. rendezvous \in [Steps -> Rendezvous]
      BY DEF Init, Rendezvous
    <2> QED BY <2>2, <2>3, <2>4, <2>5 DEF WorkerTypeOK, Init
  <1>2. OwnerInv
    <2>1. ASSUME NEW r \in Requests PROVE RpcOwner(r) /\ ExecOwner(r)
      BY DEF Init, RpcOwner, ExecOwner
    <2>2. ASSUME NEW i \in Ints PROVE RunOwner(i)
      BY DEF Init, RunOwner, NoRun
    <2> QED BY <2>1, <2>2 DEF OwnerInv, Init
  <1>3. ASSUME NEW s \in Steps PROVE StepInv(s)
    <2>1. First(s) \in Requests /\ Last(s) \in Requests
      BY FirstAndLast
    <2>2. ASSUME NEW r \in Requests PROVE CopyInv(r) /\ OrderInv(r) /\ PlaceInv(r)
      BY DEF Init, CopyInv, OrderInv, PlaceInv
    <2>3. ~Run(s).exists /\ Ex(s).pc = "none"
      BY <2>1, NarrowInts DEF Init, Run, NoRun, Ex
    <2>4. BeginInv(s)
      BY <2>1, <2>3 DEF Init, BeginInv, AnsweredOK
    <2>5. MeetInv(s)
      BY <2>1, <2>3 DEF Init, MeetInv
    <2>6. MadeInv(s)
      BY DEF Init, MadeInv
    <2> QED BY <2>2, <2>4, <2>5, <2>6 DEF StepInv
  <1> QED BY <1>1, <1>2, <1>3 DEF WorkerInv

LEMMA WorkerStep ==
    ASSUME WorkerTypeOK, OwnerInv, WorkerInv, TracksRecent, [Next]_vars
    PROVE  WorkerTypeOK' /\ OwnerInv' /\ WorkerInv'
  <1>1. ASSUME NEW r \in Requests, Handler(r) PROVE WorkerTypeOK' /\ OwnerInv' /\ WorkerInv'
    BY <1>1, RejectInv, RunGraphInv, FindOrCreateInv, SetCancelCallbackInv, ExecuteInv,
       SendInputsInv, RecvOutputsAsyncInv, ReceivedInv, FinishInv, RunGraphDoneInv,
       RunGraphAnswerInv DEF Handler
  <1>2. ASSUME NEW x \in Requests, ExecutorEnds(x) \/ ExecutorFails(x) \/ AfterExecutor(x)
        PROVE  WorkerTypeOK' /\ OwnerInv' /\ WorkerInv'
    BY <1>2, ExecutorEndsInv, ExecutorDoneInv, ExecutorFinishInv, EraseInv DEF AfterExecutor
  <1>3. CASE UNCHANGED vars
    <2>1. UNCHANGED <<rpc, run, cm, exec, rendezvous, erasing, starts, answers>>
      BY <1>3 DEF vars, stepVars
    <2>2. SameRpc /\ rpc' \in [Requests -> Rpc] /\ rendezvous' \in [Steps -> Rendezvous]
      BY <2>1 DEF SameRpc, WorkerTypeOK
    <2> QED BY <2>1, <2>2, AbortInv
  <1> QED BY <1>1, <1>2, <1>3, TrackInv, CancelInv, AbortStepInv, CleanupGraphInv DEF Next

(* worker.cc:258-346, partial_run_mgr.cc:40-88 - the inductive invariant of  *)
(* the worker, for any number of steps and parts and any range of an int.    *)
(* Of all steps: who points to whose manager or callback shares its run.  Of *)
(* the regular ones, beside any others: where the copies of a request and    *)
(* its call are, in which order a step passes its stations, and what the     *)
(* executor and the last part know of each other.                            *)
THEOREM WorkerInvariant == Spec => [](WorkerTypeOK /\ OwnerInv /\ WorkerInv)
  <1>1. /\ WorkerTypeOK /\ OwnerInv /\ WorkerInv /\ TracksRecent /\ [Next]_vars
        => (WorkerTypeOK /\ OwnerInv /\ WorkerInv)'
    BY WorkerStep
  <1> QED BY <1>1, WorkerInit, WorkerTracksRecent, PTL DEF Spec

(* worker.cc:166, :265 - a regular step is started at most once and a call   *)
(* of it is answered at most once, however often its request is delivered    *)
(* and whatever other partial runs, also ones that share a run, do.          *)
THEOREM WorkerAtMostOnce == Spec => []AtMostOnce
  <1>1. WorkerTypeOK /\ OwnerInv /\ WorkerInv => AtMostOnce
    <2> SUFFICES ASSUME WorkerTypeOK, WorkerInv, NEW r \in Requests, Regular(r[1])
                 PROVE  starts[r[1]] <= 1 /\ answers[r] <= 1
      BY DEF AtMostOnce
    <2>1. PlaceInv(r) /\ BeginInv(r[1])
      BY RequestParts DEF WorkerInv, StepInv
    <2> QED BY <2>1 DEF BeginInv, PlaceInv
  <1> QED BY <1>1, WorkerInvariant, PTL

(* partial_run_mgr.cc:40, :62 - the last part of a regular step is answered  *)
(* after the executor, with its error if it has one.                         *)
THEOREM WorkerLastAfterExecutor == Spec => []LastAfterExecutor
  <1>1. WorkerTypeOK /\ OwnerInv /\ WorkerInv => LastAfterExecutor
    <2> SUFFICES ASSUME WorkerTypeOK, WorkerInv, NEW r \in Requests, Regular(r[1]), IsLast(r),
                        rpc[r].pc = "answered",
                        rpc[r].status \in {"OK", "Aborted", "NotExecuted", "ExecutorError"}
                 PROVE  \E x \in Requests : /\ x[1] = r[1] /\ exec[x].pc = "done"
                                            /\ exec[x].status # "OK" => rpc[r].status = exec[x].status
      BY DEF LastAfterExecutor
    <2>1. r[1] \in Steps /\ r[3] \in 1 .. 2 /\ (r[3] = 1 => r = Last(r[1]))
      BY RequestParts
    <2>2. CopyInv(r) /\ MeetInv(r[1])
      BY <2>1 DEF WorkerInv, StepInv
    <2>3. r = Last(r[1])
      BY <2>1, <2>2 DEF CopyInv
    <2>4. Ex(r[1]).pc = "done" /\ Precedence(r)
      BY <2>2, <2>3 DEF MeetInv
    <2>5. First(r[1]) \in Requests /\ First(r[1])[1] = r[1]
      BY <2>1, FirstAndLast
    <2> QED BY <2>4, <2>5 DEF Ex, Precedence
  <1> QED BY <1>1, WorkerInvariant, PTL

(* worker.cc:301, partial_run_mgr.cc:57 - whichever thread erases the run,   *)
(* the cancel callback of a call never uses the manager of a regular step    *)
(* after it has gone.                                                        *)
THEOREM WorkerMemorySafe == Spec => []NoUseAfterFree
  <1>1. WorkerTypeOK /\ OwnerInv /\ WorkerInv => NoUseAfterFree
    <2> SUFFICES ASSUME WorkerInv, NEW r \in Requests, Regular(r[1]) PROVE cm[r] # "used after free"
      BY DEF NoUseAfterFree
    <2>1. MadeInv(r[1])
      BY RequestParts DEF WorkerInv, StepInv
    <2> QED BY <2>1 DEF MadeInv
  <1> QED BY <1>1, WorkerInvariant, PTL
=============================================================================
