---------------------------- MODULE QueueChannel ----------------------------
(***************************************************************************)
(* What a FIFO queue promises to its users, framework/queue_interface.h:   *)
(* elements leave in the order in which they came, each to one consumer,   *)
(* a consumer gets them all at once, and nothing comes in after the queue  *)
(* was closed.  The elements that a cancelled DequeueMany had collected, or *)
(* one that cannot copy an element, are lost, which the interface does not *)
(* mention and the code does.                                              *)
(***************************************************************************)
EXTENDS Naturals, Sequences

CONSTANTS Elements, Consumers

VARIABLES
    items,      \* the elements in the queue, oldest first
    closed,     \* no element comes in any more
    got         \* of a consumer: the elements it was given

vars == <<items, closed, got>>

Init == items = <<>> /\ closed = FALSE /\ got = [c \in Consumers |-> <<>>]

(* A producer adds elements at the end. *)
Put == /\ ~closed
       /\ items' \in Seq(Elements)
       /\ Len(items') > Len(items) /\ SubSeq(items', 1, Len(items)) = items
       /\ UNCHANGED <<closed, got>>

(* A consumer that has nothing is given the n oldest elements. *)
Take(c, n) == /\ got[c] = <<>>
              /\ got' = [got EXCEPT ![c] = SubSeq(items, 1, n)]
              /\ items' = SubSeq(items, n + 1, Len(items))
              /\ UNCHANGED closed

(* The elements of a cancelled or failed consumer are dropped. *)
Lose(n) == /\ items' = SubSeq(items, n + 1, Len(items))
           /\ UNCHANGED <<closed, got>>

Close == closed' = TRUE /\ UNCHANGED <<items, got>>

Next ==
    \/ \E n \in 1 .. Len(items) : Lose(n) \/ \E c \in Consumers : Take(c, n)
    \/ Put
    \/ Close

Spec == Init /\ [][Next]_vars
=============================================================================
