-------------------------- MODULE MCAllocatorRetry --------------------------
(* Instances of AllocatorRetry: threads that need one or two of two units.  *)
EXTENDS AllocatorRetry, TLC
CONSTANTS t1, t2, t3

MCNeed == (t1 :> 1) @@ (t2 :> 2) @@ (t3 :> 1)
=============================================================================
