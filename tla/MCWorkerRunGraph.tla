--------------------------- MODULE MCWorkerRunGraph ---------------------------
(* One RunGraph and one partial run of two parts on a worker that remembers *)
(* two request ids; the RunGraph request may arrive twice.                 *)
EXTENDS WorkerRunGraph

MCSteps == 1 .. 2
MCPartial == {2}
MCRequestIds == 1 .. 4
=============================================================================
