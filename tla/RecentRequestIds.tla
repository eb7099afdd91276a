---------------------------- MODULE RecentRequestIds ----------------------------
(***************************************************************************)
(* The filter against requests that are delivered twice,                    *)
(* tensorflow/core/distributed_runtime/recent_request_ids.{h,cc}: a set of  *)
(* request ids and a circular buffer that tells which one is the oldest.    *)
(* TrackUnique holds mu_ throughout, so it is one step.  `count' and        *)
(* `stamp' are history: the insertions so far, and the number of the        *)
(* insertion that last admitted an id.  The id 0 of old clients, which is   *)
(* always admitted and never tracked, is left out.                          *)
(***************************************************************************)
EXTENDS Integers

CONSTANTS RequestIds,                   \* ids other than 0
          num_tracked_request_ids

ASSUME TrackedAssumption == num_tracked_request_ids \in Nat \ {0}
ASSUME RequestIdAssumption == RequestIds \subseteq Nat \ {0}

VARIABLES next_index_, circular_buffer_, set_, count, stamp

recentVars == <<next_index_, circular_buffer_, set_, count, stamp>>

Slots == 0 .. (num_tracked_request_ids - 1)

RecentInit == /\ next_index_ = 0
              /\ circular_buffer_ = [k \in Slots |-> 0]
              /\ set_ = {}
              /\ count = 0
              /\ stamp = [id \in RequestIds |-> 0]

\* Mutant: erases the id of the slot behind the one that is overwritten.
Evict_SlotBehind(id) ==
    set_' = (set_ \cup {id}) \ {circular_buffer_[(next_index_ + 1) % num_tracked_request_ids]}

\* The id is inserted first, then the oldest one is erased.
Evict(id) == set_' = (set_ \cup {id}) \ {circular_buffer_[next_index_]}

\* Mutant: the index moves on by two.
Advance_Skip == next_index_' = (next_index_ + 2) % num_tracked_request_ids

Advance == next_index_' = (next_index_ + 1) % num_tracked_request_ids

\* TrackUnique: Insert returns true.
InsertNew(id) ==
    /\ id \notin set_
    /\ Evict(id)
    /\ circular_buffer_' = [circular_buffer_ EXCEPT ![next_index_] = id]
    /\ Advance
    /\ count' = count + 1
    /\ stamp' = [stamp EXCEPT ![id] = count + 1]

\* TrackUnique: the id is in the set, the request is refused and keeps its age.
InsertSeen(id) == id \in set_ /\ UNCHANGED recentVars

RecentNext == \E id \in RequestIds : InsertNew(id) \/ InsertSeen(id)

RecentSpec == RecentInit /\ [][RecentNext]_recentVars

-----------------------------------------------------------------------------
RecentTypeOK == /\ next_index_ \in Slots
                /\ circular_buffer_ \in [Slots -> RequestIds \cup {0}]
                /\ set_ \subseteq RequestIds
                /\ count \in Nat
                /\ stamp \in [RequestIds -> 0 .. count]

\* The id was admitted by one of the last num_tracked_request_ids insertions.
Recent(id) == stamp[id] > 0 /\ count - stamp[id] < num_tracked_request_ids

\* recent_request_ids.h:56 - TrackUnique knows exactly the ids of the last
\* num_tracked_request_ids insertions: it neither forgets one early, which
\* would let a retried RecvTensor block for ever, nor keeps one longer.
TracksRecent == \A id \in RequestIds : id \in set_ <=> Recent(id)

\* How many insertions ago the slot k was written, or would have been.
Age(k) == IF k < next_index_ THEN next_index_ - 1 - k
          ELSE next_index_ - 1 - k + num_tracked_request_ids

\* The slot that was written a insertions ago.
SlotOf(a) == IF a < next_index_ THEN next_index_ - 1 - a
             ELSE next_index_ - 1 - a + num_tracked_request_ids

\* What makes TracksRecent inductive: the buffer lists the insertions in order.
BufferInOrder ==
    /\ \A k \in Slots : /\ circular_buffer_[k] # 0 <=> Age(k) < count
                        /\ circular_buffer_[k] # 0 =>
                             stamp[circular_buffer_[k]] = count - Age(k)
    /\ \A id \in set_ : circular_buffer_[SlotOf(count - stamp[id])] = id

RecentInv == RecentTypeOK /\ TracksRecent /\ BufferInOrder
=============================================================================
