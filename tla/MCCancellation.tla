--------------------------- MODULE MCCancellation ---------------------------
(***************************************************************************)
(* Instances of Cancellation for TLC.                                      *)
(***************************************************************************)
EXTENDS Cancellation, TLC

(* Managers are interchangeable: they are told apart only by the links.    *)
Symmetry == Permutations(Managers)

=============================================================================
