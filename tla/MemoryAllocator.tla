---------------------------- MODULE MemoryAllocator ----------------------------
(***************************************************************************)
(* What an allocator of tensorflow/core/framework/allocator.h promises to   *)
(* its clients: a granted block lies in memory, no byte of it belongs to    *)
(* another granted block, and it stays granted until it is returned.        *)
(***************************************************************************)
EXTENDS Integers

CONSTANTS Bytes,    \* the addresses of the memory managed
          Sizes     \* the sizes clients ask for

VARIABLE live       \* the granted blocks, [ptr, size]

Block(ptr, size) == ptr .. (ptr + size - 1)

Init == live = {}

AllocateRaw == \E ptr \in Bytes, size \in Sizes :
    /\ Block(ptr, size) \subseteq Bytes
    /\ \A b \in live : Block(b.ptr, b.size) \cap Block(ptr, size) = {}
    /\ live' = live \cup {[ptr |-> ptr, size |-> size]}

DeallocateRaw == \E b \in live : live' = live \ {b}

Next == AllocateRaw \/ DeallocateRaw

Spec == Init /\ [][Next]_live
=============================================================================
