-------------------------- MODULE MCLocalRendezvous --------------------------
(***************************************************************************)
(* Instances of LocalRendezvous for TLC.                                   *)
(***************************************************************************)
EXTENDS LocalRendezvous

=============================================================================
