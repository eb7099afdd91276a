---------------------------- MODULE MCDataService ----------------------------
(***************************************************************************)
(* Instances of DataService for TLC.                                       *)
(***************************************************************************)
EXTENDS DataService

Request(mode) == [key |-> "job", mode |-> mode, fingerprint |-> "f"]

\* Both requests name the same job; the one that creates it fixes its mode.
MCRequests == {Request("DISTRIBUTED_EPOCH"), Request("PARALLEL_EPOCHS")}

\* Workers are told apart only by the tasks they are given.
Symmetry == Permutations(Workers)
=============================================================================
