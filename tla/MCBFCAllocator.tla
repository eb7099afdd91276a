--------------------------- MODULE MCBFCAllocator ---------------------------
(* Instances of BFCAllocator: a memory of a few units of 256 bytes.         *)
EXTENDS BFCAllocator

(* Regions that grow and are coalesced, with a limit that is no multiple of *)
(* the unit; garbage collection of regions; chunks with free times.         *)
Growing == [memory_limit |-> 1100, initial_bytes |-> 512, garbage_collection |-> FALSE,
            coalesce_regions |-> TRUE, timing_counter |-> FALSE, max_fragmentation |-> 768]
Collecting == [Growing EXCEPT !.garbage_collection = TRUE, !.coalesce_regions = FALSE,
                              !.max_fragmentation = 256]
Timed == [Growing EXCEPT !.memory_limit = 768, !.initial_bytes = 768,
                         !.timing_counter = TRUE, !.max_fragmentation = 256]

MCOptions == {Growing, Collecting, Timed}
=============================================================================
