----------------------------- MODULE AllocatorRetry -----------------------------
(***************************************************************************)
(* The retrying wrapper of tensorflow/core/common_runtime/allocator_retry,  *)
(* as BFCAllocator::AllocateRawInternalWithRetry uses it: an allocation     *)
(* that fails waits until memory is returned or its deadline has passed.    *)
(* The memory behind it is a number of free units (each attempt and each    *)
(* deallocation is atomic under the allocator's own lock_); alloc_func and  *)
(* the condition variable of AllocatorRetry are guarded by different locks. *)
(***************************************************************************)
EXTENDS Integers

CONSTANTS Threads, Units,
          Need,         \* the units a thread allocates, by thread
          MaxRounds     \* allocations of a thread

ASSUME RetryAssumption == /\ Units \in Nat
                          /\ Need \in [Threads -> 1 .. Units]
                          /\ MaxRounds \in Nat \ {0}

VARIABLES free,         \* units free in the allocator
          pc,           \* where a thread is
          first,        \* the local variable first: no deadline yet
          expired,      \* now >= deadline_micros
          rounds        \* allocations begun

vars == <<free, pc, first, expired, rounds>>

Init == /\ free = Units
        /\ pc = [t \in Threads |-> "idle"]
        /\ first = [t \in Threads |-> TRUE]
        /\ expired = [t \in Threads |-> FALSE]
        /\ rounds = [t \in Threads |-> 0]

Goto(t, l) == pc' = [pc EXCEPT ![t] = l]

\* AllocateRawInternalWithRetry: one attempt without the helper, then its loop.
Allocate(t) ==
    /\ pc[t] = "idle" /\ rounds[t] < MaxRounds
    /\ rounds' = [rounds EXCEPT ![t] = @ + 1]
    /\ \/ free >= Need[t] /\ free' = free - Need[t] /\ Goto(t, "holds")
       \/ free < Need[t] /\ free' = free /\ Goto(t, "try")
    /\ first' = [first EXCEPT ![t] = TRUE]
    /\ expired' = [expired EXCEPT ![t] = FALSE]

\* alloc_func(alignment, num_bytes, false)
Try(t) ==
    /\ pc[t] = "try"
    /\ \/ free >= Need[t] /\ free' = free - Need[t] /\ Goto(t, "holds")
       \/ free < Need[t] /\ free' = free /\ Goto(t, "failed")
    /\ UNCHANGED <<first, expired, rounds>>

\* Mutant: the deadline is computed anew after each attempt.
Deadline_Rearmed(t) == FALSE

\* Whether the deadline has passed when the attempt has failed.
Deadline(t) == ~first[t] /\ expired[t]

\* The rest of the loop: begin to wait, or try one more time.
Failed(t) ==
    /\ pc[t] = "failed"
    /\ Goto(t, IF Deadline(t) THEN "last" ELSE "wait")
    /\ first' = [first EXCEPT ![t] = FALSE]
    /\ UNCHANGED <<free, expired, rounds>>

\* deadline_micros passes, whatever the thread does.
Expire(t) ==
    /\ ~first[t] /\ ~expired[t] /\ pc[t] \in {"try", "failed", "wait"}
    /\ expired' = [expired EXCEPT ![t] = TRUE]
    /\ UNCHANGED <<free, pc, first, rounds>>

\* WaitForMilliseconds returns: the wait is rounded down to milliseconds, so
\* the deadline need not have passed.
Timeout(t) ==
    /\ pc[t] = "wait"
    /\ Goto(t, "try")
    /\ UNCHANGED <<free, first, expired, rounds>>

\* alloc_func(alignment, num_bytes, true)
LastTry(t) ==
    /\ pc[t] = "last"
    /\ \/ free >= Need[t] /\ free' = free - Need[t] /\ Goto(t, "holds")
       \/ free < Need[t] /\ free' = free /\ Goto(t, "null")
    /\ UNCHANGED <<first, expired, rounds>>

\* The caller sees the nullptr and gives up.
ReportNull(t) ==
    /\ pc[t] = "null"
    /\ Goto(t, "idle")
    /\ UNCHANGED <<free, first, expired, rounds>>

\* DeallocateRaw: the memory is free, the waiting threads not yet notified.
DeallocateRawInternal(t) ==
    /\ pc[t] = "holds"
    /\ free' = free + Need[t]
    /\ Goto(t, "notify")
    /\ UNCHANGED <<first, expired, rounds>>

NotifyDealloc(t) ==
    /\ pc[t] = "notify"
    /\ pc' = [w \in Threads |->
                IF w = t THEN "idle" ELSE IF pc[w] = "wait" THEN "try" ELSE pc[w]]
    /\ UNCHANGED <<free, first, expired, rounds>>

Step(t) == \/ Try(t) \/ Failed(t) \/ Timeout(t) \/ LastTry(t) \/ ReportNull(t)
           \/ NotifyDealloc(t)

Done == (\A t \in Threads : pc[t] = "idle" /\ rounds[t] = MaxRounds) /\ UNCHANGED vars

Next == \/ \E t \in Threads : Allocate(t) \/ Step(t) \/ Expire(t) \/ DeallocateRawInternal(t)
        \/ Done

Spec == Init /\ [][Next]_vars

\* Threads run, waits end and time passes; nobody has to return its memory.
FairSpec == Spec /\ \A t \in Threads : WF_vars(Step(t)) /\ WF_vars(Expire(t))

-----------------------------------------------------------------------------
\* allocator_retry.h:31 - AllocateRaw returns, whatever other threads do with
\* the memory they return or keep.
AllocateReturns ==
    \A t \in Threads : pc[t] = "try" ~> pc[t] \in {"holds", "null"}
=============================================================================
