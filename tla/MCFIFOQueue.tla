----------------------------- MODULE MCFIFOQueue -----------------------------
(* Instances of FIFOQueue for TLC. *)
EXTENDS FIFOQueue, TLC

CONSTANTS o1, o2, o3, m1, m2

C(kind, n, m, fail) == [kind |-> kind, n |-> n, cm |-> m, fail |-> fail]
Closes == {C("close", 0, NoCM, 0), C("close_cancel", 0, NoCM, 0)}

(* One element, or a batch larger than the capacity; a consumer that        *)
(* collects over several flushes, may fail to allocate, or to copy; and a   *)
(* Close.  Each operation has a manager of its own.                         *)
MCCalls ==
    o1 :> {C("enqueue", 1, m1, 0), C("enqueue_many", 2, m1, 0)} @@
    o2 :> {C("dequeue_many", 3, m2, 0), C("dequeue_up_to", 2, m2, 1),
           C("dequeue_up_to", 2, m2, 3), C("dequeue", 1, m2, 0)} @@
    o3 :> Closes
=============================================================================
