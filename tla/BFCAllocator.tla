----------------------------- MODULE BFCAllocator -----------------------------
(***************************************************************************)
(* The best-fit-with-coalescing allocator of                               *)
(* tensorflow/core/common_runtime/bfc_allocator.{h,cc}: regions obtained    *)
(* from a sub-allocator, cut into chunks that are linked to their           *)
(* neighbours and, when free, kept in bins by size.                         *)
(*                                                                          *)
(* All structures are guarded by lock_, so an operation is one step, except *)
(* that AllocateRawInternal stops at each call of the sub-allocator (which  *)
(* may fail) and that safe_frontier_ is an atomic other threads advance at  *)
(* any time.  Sizes are real byte counts; a size_t has SizeBits bits.       *)
(* `heap' holds what lock_ guards, `call' the allocation that holds lock_.  *)
(* allocation_id is reduced to in_use(); requested_size, the statistics     *)
(* other than bytes_in_use, and the debugging dumps are left out.           *)
(***************************************************************************)
EXTENDS Integers, Sequences, FiniteSets, SequencesExt

CONSTANTS
    Options,                    \* the arguments the allocator is built with
    kNumBins,
    SizeBits,                   \* width of size_t
    SpaceUnits,                 \* size of the sub-allocator's address space
    Addresses,                  \* units at which it may place a region
    Granularity,                \* it pads requests to a multiple of this
    Requests,                   \* num_bytes of AllocateRaw
    MaxCount                    \* bound of the timing counter

kMinAllocationSize == 256

(* total_memory; the first region (2MiB with allow_growth, total_memory     *)
(* without); garbage_collection; SupportsCoalescing() of the sub-allocator; *)
(* whether SetTimingCounter was called; the fragmentation threshold.        *)
Option == [memory_limit : Nat \ {0}, initial_bytes : Nat \ {0}, garbage_collection : BOOLEAN,
           coalesce_regions : BOOLEAN, timing_counter : BOOLEAN, max_fragmentation : Nat]

ASSUME ParametersOK ==
    /\ Options \subseteq Option
    /\ kNumBins \in Nat \ {0}
    /\ Granularity % kMinAllocationSize = 0 /\ Granularity > 0
    /\ SpaceUnits * kMinAllocationSize < 2^SizeBits
    /\ Addresses \subseteq 0 .. (SpaceUnits - 1)
    /\ 0 \notin Requests

VARIABLES
    options,            \* set once, by the constructor
    heap,               \* the structures guarded by lock_
    call,               \* the allocation holding lock_, if any
    timing_counter_, safe_frontier_,
    live,               \* history: blocks granted to clients, [ptr, size]
    freedAt,            \* history: count at which a unit was last freed
    last                \* history: the outcome of the last allocation

vars == <<options, heap, call, timing_counter_, safe_frontier_, live, freedAt, last>>

memory_limit_ == options.memory_limit
garbage_collection_ == options.garbage_collection
coalesce_regions_ == options.coalesce_regions
HasTimingCounter == options.timing_counter
kMaxInternalFragmentation == options.max_fragmentation

kInvalidChunkHandle == 0      \* handles are positions in chunks_, from 1
kInvalidBinNum == -1

UnitAddrs == {u * kMinAllocationSize : u \in 0 .. (SpaceUnits - 1)}
AddrSeq == [i \in 1 .. SpaceUnits |-> (i - 1) * kMinAllocationSize]

RoundedBytes(bytes) ==
    kMinAllocationSize * ((bytes + kMinAllocationSize - 1) \div kMinAllocationSize)

\* size_t arithmetic.
SizeT(n) == n % 2^SizeBits

\* std::min and std::max.
MinOf(a, b) == IF a < b THEN a ELSE b
MaxOf(a, b) == IF a < b THEN b ELSE a

Log2Floor(v) == CHOOSE k \in 0 .. SizeBits : 2^k <= v /\ v < 2^(k + 1)

BinNumForSize(bytes) ==
    MinOf(kNumBins - 1,
          Log2Floor(MaxOf(bytes, kMinAllocationSize) \div kMinAllocationSize))

NoCall == [pc |-> "idle"]

Init ==
    /\ options \in Options
    /\ heap = [chunks_ |-> <<>>, free_chunks_list_ |-> kInvalidChunkHandle,
               regions |-> {},
               handles |-> [a \in UnitAddrs |-> kInvalidChunkHandle],
               bins |-> [b \in 0 .. (kNumBins - 1) |-> {}],
               timestamped_chunks_ |-> <<>>,
               curr_region_allocation_bytes_ |->
                   RoundedBytes(MinOf(memory_limit_, options.initial_bytes)),
               total_region_allocated_bytes_ |-> 0,
               started_backpedal_ |-> FALSE, bytes_in_use |-> 0, ok |-> TRUE]
    /\ call = NoCall
    /\ timing_counter_ = 0 /\ safe_frontier_ = 0
    /\ live = {}
    /\ freedAt = [a \in UnitAddrs |-> 0]
    /\ last = [failed |-> FALSE, bytes |-> 0, before |-> 0, stale |-> FALSE]

-----------------------------------------------------------------------------
(* The chunks.  Each operator maps a heap to a heap; `ok' records that no   *)
(* CHECK has failed and no pointer outside of the regions was looked up.    *)

Span(r) == {a \in UnitAddrs : r.ptr <= a /\ a < r.ptr + r.size}

\* RegionFor finds a region that holds the address.
Mapped(m, a) == \E r \in m.regions : a \in Span(r)

\* AllocateChunk, and the fields its callers fill in.
NewHandle(m) == IF m.free_chunks_list_ # kInvalidChunkHandle
                THEN m.free_chunks_list_ ELSE Len(m.chunks_) + 1

AllocateChunk(m, c) ==
    LET h == NewHandle(m)
    IN  [m EXCEPT
           !.free_chunks_list_ = IF @ = kInvalidChunkHandle THEN @ ELSE m.chunks_[@].next,
           !.chunks_ = IF h > Len(@) THEN Append(@, c) ELSE [@ EXCEPT ![h] = c],
           !.handles[c.ptr] = h,
           !.ok = @ /\ Mapped(m, c.ptr)]

FreeChunk(ptr, size, prev, next, freed_at_count) ==
    [ptr |-> ptr, size |-> size, in_use |-> FALSE, prev |-> prev, next |-> next,
     bin_num |-> kInvalidBinNum, freed_at_count |-> freed_at_count]

DeleteChunk(m, h) ==
    [m EXCEPT !.handles[m.chunks_[h].ptr] = kInvalidChunkHandle,
              !.chunks_[h].in_use = FALSE,
              !.chunks_[h].bin_num = kInvalidBinNum,
              !.chunks_[h].next = m.free_chunks_list_,
              !.free_chunks_list_ = h]

SetPrev(m, h, prev) ==
    IF h = kInvalidChunkHandle THEN m ELSE [m EXCEPT !.chunks_[h].prev = prev]

\* Mutant: the merged chunk keeps the free time of its first part.
Merge_FirstTime(m, h1, h2) ==
    LET c2 == m.chunks_[h2]
        joined == [m EXCEPT !.chunks_[h1].next = c2.next, !.chunks_[h1].size = @ + c2.size]
    IN  DeleteChunk(SetPrev(joined, c2.next, h1), h2)

Merge(m, h1, h2) ==
    LET c1 == m.chunks_[h1]
        c2 == m.chunks_[h2]
        joined == [m EXCEPT
                     !.chunks_[h1].next = c2.next,
                     !.chunks_[h1].size = @ + c2.size,
                     !.chunks_[h1].freed_at_count = MaxOf(@, c2.freed_at_count),
                     !.ok = @ /\ ~c1.in_use /\ ~c2.in_use /\ c2.prev = h1]
    IN  DeleteChunk(SetPrev(joined, c2.next, h1), h2)

InsertFreeChunkIntoBin(m, h) ==
    LET c == m.chunks_[h]
        b == BinNumForSize(c.size)
    IN  [m EXCEPT !.chunks_[h].bin_num = b, !.bins[b] = @ \cup {h},
                  !.ok = @ /\ ~c.in_use /\ c.bin_num = kInvalidBinNum]

RemoveFreeChunkFromBin(m, h) ==
    LET c == m.chunks_[h]
    IN  IF c.in_use \/ c.bin_num = kInvalidBinNum
        THEN [m EXCEPT !.ok = FALSE]
        ELSE [m EXCEPT !.chunks_[h].bin_num = kInvalidBinNum,
                       !.bins[c.bin_num] = @ \ {h},
                       !.ok = @ /\ h \in m.bins[c.bin_num]]

SplitChunk(m, h, num_bytes) ==
    LET c == m.chunks_[h]
        n == NewHandle(m)
        cut == AllocateChunk(m, FreeChunk(c.ptr + num_bytes, c.size - num_bytes, h, c.next,
                                          c.freed_at_count))
        linked == [cut EXCEPT !.chunks_[h].size = num_bytes, !.chunks_[h].next = n]
    IN  InsertFreeChunkIntoBin(SetPrev(linked, c.next, n), n)

\* A neighbour that TryToCoalesce may merge.
Mergeable(m, h, ignore_freed_at) ==
    /\ h # kInvalidChunkHandle
    /\ ~m.chunks_[h].in_use
    /\ m.chunks_[h].freed_at_count = 0 \/ ignore_freed_at

TryToCoalesce(m, h, ignore_freed_at) ==
    LET c == m.chunks_[h]
        m1 == IF Mergeable(m, c.next, ignore_freed_at)
              THEN Merge(RemoveFreeChunkFromBin(m, c.next), h, c.next) ELSE m
    IN  CASE ~ignore_freed_at /\ c.freed_at_count > 0 -> [heap |-> m, h |-> h]
          [] Mergeable(m1, c.prev, ignore_freed_at) ->
                [heap |-> Merge(RemoveFreeChunkFromBin(m1, c.prev), c.prev, h), h |-> c.prev]
          [] OTHER -> [heap |-> m1, h |-> h]

CoalesceIntoBin(m, h, ignore_freed_at) ==
    LET t == TryToCoalesce(m, h, ignore_freed_at)
    IN  InsertFreeChunkIntoBin(t.heap, t.h)

-----------------------------------------------------------------------------
(* Chunks freed at a count that is not yet safe wait in timestamped_chunks_. *)

\* The first loop: drop stale handles, clear the counts that became safe.
SweepChunk(acc, handle, required_bytes) ==
    LET m == acc.heap
        c == m.chunks_[handle]
        h == m.handles[c.ptr]
        safe == c.freed_at_count < safe_frontier_
    IN  CASE ~Mapped(m, c.ptr) -> [acc EXCEPT !.heap.ok = FALSE]
          [] h = kInvalidChunkHandle \/ c.in_use \/ c.bin_num = kInvalidBinNum -> acc
          [] c.freed_at_count = 0 -> [acc EXCEPT !.to_merge = Append(@, c.ptr)]
          [] safe -> [acc EXCEPT !.to_merge = Append(@, c.ptr),
                                 !.heap.chunks_[handle].freed_at_count = 0]
          [] required_bytes > 0 -> [acc EXCEPT !.to_merge = Append(@, c.ptr)]
          [] OTHER -> [acc EXCEPT !.queue = Append(@, h)]

\* The second loop: merge, until a chunk of the required size is formed.
MergeChunk(acc, ptr, required_bytes) ==
    LET m == acc.heap
        h == m.handles[ptr]
        t == TryToCoalesce(RemoveFreeChunkFromBin(m, h), h, required_bytes > 0)
        merged == InsertFreeChunkIntoBin(t.heap, t.h)
        c == merged.chunks_[t.h]
    IN  CASE h = kInvalidChunkHandle -> acc
          [] required_bytes = 0 -> [acc EXCEPT !.heap = merged]
          [] acc.satisfied -> [acc EXCEPT !.heap.timestamped_chunks_ = Append(@, h)]
          [] OTHER ->
                [heap |-> IF t.h # h /\ c.freed_at_count > 0
                          THEN [merged EXCEPT !.timestamped_chunks_ = Append(@, t.h)] ELSE merged,
                 satisfied |-> c.size >= required_bytes]

MergeTimestampedChunks(m, required_bytes) ==
    LET swept == FoldLeft(LAMBDA acc, h : SweepChunk(acc, h, required_bytes),
                          [heap |-> m, to_merge |-> <<>>, queue |-> <<>>],
                          m.timestamped_chunks_)
    IN  FoldLeft(LAMBDA acc, ptr : MergeChunk(acc, ptr, required_bytes),
                 [heap |-> [swept.heap EXCEPT !.timestamped_chunks_ = swept.queue],
                  satisfied |-> required_bytes = 0],
                 swept.to_merge)

-----------------------------------------------------------------------------
(* Finding a chunk.                                                         *)

Eligible(c, freed_before) == freed_before > 0 => c.freed_at_count <= freed_before

\* Mutant: starts with the bin above.
Fits_NextBin(m, bytes, freed_before) ==
    {h \in UNION {m.bins[b] : b \in (BinNumForSize(bytes) + 1) .. (kNumBins - 1)} :
        m.chunks_[h].size >= bytes /\ Eligible(m.chunks_[h], freed_before)}

Fits(m, bytes, freed_before) ==
    {h \in UNION {m.bins[b] : b \in BinNumForSize(bytes) .. (kNumBins - 1)} :
        m.chunks_[h].size >= bytes /\ Eligible(m.chunks_[h], freed_before)}

\* The order in which FindChunkPtr visits chunks: bin, size, address.
Visited(c, d) == \/ c.bin_num < d.bin_num
                 \/ c.bin_num = d.bin_num /\ c.size < d.size
                 \/ c.bin_num = d.bin_num /\ c.size = d.size /\ c.ptr <= d.ptr

FirstFit(m, hs) ==
    CHOOSE h \in hs : \A g \in hs : Visited(m.chunks_[h], m.chunks_[g])

\* Mutant: the chunk handed out stays in its bin when it is not cut.
Take_NotCut(m, h, bytes) ==
    IF m.chunks_[h].size >= 2 * bytes
    THEN LET cut == SplitChunk(RemoveFreeChunkFromBin(m, h), h, bytes)
         IN  [cut EXCEPT !.chunks_[h].in_use = TRUE, !.bytes_in_use = @ + bytes]
    ELSE [m EXCEPT !.chunks_[h].in_use = TRUE, !.bytes_in_use = @ + m.chunks_[h].size]

\* What FindChunkPtr does with the chunk it found.
Take(m, h, bytes) ==
    LET taken == RemoveFreeChunkFromBin(m, h)
        size == m.chunks_[h].size
        cut == IF size >= bytes * 2 \/ size - bytes >= kMaxInternalFragmentation
               THEN SplitChunk(taken, h, bytes) ELSE taken
    IN  [cut EXCEPT !.chunks_[h].in_use = TRUE,
                    !.bytes_in_use = @ + cut.chunks_[h].size]

UnitsOf(c) == {a \in UnitAddrs : c.ptr <= a /\ a < c.ptr + c.size}

\* AllocateRawInternal returns the chunk FindChunkPtr found.
ReturnChunk(m, num_bytes, freed_before) ==
    LET h == FirstFit(m, Fits(m, RoundedBytes(num_bytes), freed_before))
        taken == Take(m, h, RoundedBytes(num_bytes))
        c == taken.chunks_[h]
    IN  /\ heap' = taken
        /\ call' = NoCall
        /\ live' = live \cup {[ptr |-> c.ptr, size |-> num_bytes]}
        /\ last' = [failed |-> FALSE, bytes |-> num_bytes, before |-> freed_before,
                    stale |-> freed_before > 0 /\ \E a \in UnitsOf(c) :
                                 freedAt[a] > freed_before /\ freedAt[a] >= safe_frontier_]

ReturnNull(m, num_bytes, freed_before) ==
    /\ heap' = m
    /\ call' = NoCall
    /\ live' = live
    /\ last' = [failed |-> TRUE, bytes |-> num_bytes, before |-> freed_before, stale |-> FALSE]

-----------------------------------------------------------------------------
(* Regions.                                                                 *)

ChunksOf(m, r) == {m.handles[a] : a \in Span(r)} \ {kInvalidChunkHandle}

FreeRegions(m) == {r \in m.regions : \A h \in ChunksOf(m, r) : ~m.chunks_[h].in_use}

SumSizes(rs) == FoldLeft(LAMBDA n, a : n + Cardinality({r \in rs : a \in Span(r)}), 0, AddrSeq)
                  * kMinAllocationSize

\* The guards of DeallocateFreeRegions.
CanDeallocateRegions(m, bytes) ==
    /\ garbage_collection_
    /\ FreeRegions(m) # {}
    /\ bytes <= SizeT(memory_limit_ - m.total_region_allocated_bytes_
                         + SumSizes(FreeRegions(m)))

\* Mutant: the chunks of the region stay in their bins.
DropChunk_InBin(m, a) ==
    IF m.handles[a] = kInvalidChunkHandle THEN m ELSE DeleteChunk(m, m.handles[a])

DropChunk(m, a) ==
    LET h == m.handles[a]
    IN  IF h = kInvalidChunkHandle THEN m
        ELSE IF m.chunks_[h].bin_num = kInvalidBinNum THEN DeleteChunk(m, h)
        ELSE DeleteChunk(RemoveFreeChunkFromBin(m, h), h)

\* Mutant: the memory given back is still counted.
DeallocateRegions_KeepTotal(m, rs) ==
    LET dropped == FoldLeft(LAMBDA acc, a : IF \E r \in rs : a \in Span(r)
                                            THEN DropChunk(acc, a) ELSE acc,
                            m, AddrSeq)
    IN  [dropped EXCEPT !.regions = @ \ rs]

\* DeallocateRegions, from the lowest address.
DeallocateRegions(m, rs) ==
    LET dropped == FoldLeft(LAMBDA acc, a : IF \E r \in rs : a \in Span(r)
                                            THEN DropChunk(acc, a) ELSE acc,
                            m, AddrSeq)
    IN  [dropped EXCEPT !.regions = @ \ rs,
                        !.total_region_allocated_bytes_ = @ - SumSizes(rs)]

\* A failed Extend: merge unsafe chunks, then give back regions, then fail.
GiveUp(m) ==
    LET n == call.num_bytes
        bytes == RoundedBytes(n)
        merge == ~call.second /\ call.freed_before = 0 /\ m.timestamped_chunks_ # <<>>
        t == MergeTimestampedChunks(m, bytes)
        m1 == IF merge THEN t.heap ELSE m
    IN  CASE merge /\ t.satisfied /\ Fits(m1, bytes, 0) # {} -> ReturnChunk(m1, n, 0)
          [] ~call.second /\ CanDeallocateRegions(m1, bytes) ->
                /\ heap' = DeallocateRegions(m1, FreeRegions(m1))
                /\ call' = [call EXCEPT !.pc = "extend", !.second = TRUE]
                /\ UNCHANGED <<live, last>>
          [] OTHER -> ReturnNull(m1, n, call.freed_before)

AvailableBytes(m) ==
    (SizeT(memory_limit_ - m.total_region_allocated_bytes_) \div kMinAllocationSize)
        * kMinAllocationSize

\* The beginning of Extend, up to the call of the sub-allocator.
Extend ==
    /\ call.pc = "extend"
    /\ LET bytes == RoundedBytes(call.num_bytes)
           available == AvailableBytes(heap)
           curr(k) == SizeT(heap.curr_region_allocation_bytes_ * 2^k)
           doublings == {k \in 0 .. SizeBits : curr(k) >= bytes}
           first == CHOOSE k \in doublings : \A j \in doublings : k <= j
       IN  CASE bytes > available -> GiveUp(heap)
             [] OTHER ->
                   /\ heap' = [heap EXCEPT !.curr_region_allocation_bytes_ = curr(first)]
                   /\ call' = [call EXCEPT !.pc = "suballoc", !.increased = first > 0,
                                           !.bytes = MinOf(curr(first), available)]
                   /\ UNCHANGED <<live, last>>
    /\ UNCHANGED <<timing_counter_, safe_frontier_, freedAt>>

\* The sub-allocator fails; one allocation of the process retries with less.
Backpedal ==
    /\ call.pc = "suballoc"
    /\ LET less == RoundedBytes((call.bytes * 9) \div 10)
           m == [heap EXCEPT !.started_backpedal_ = TRUE]
       IN  IF (heap.started_backpedal_ /\ ~call.backpedal) \/ less < RoundedBytes(call.num_bytes)
           THEN GiveUp(m)
           ELSE /\ heap' = m
                /\ call' = [call EXCEPT !.bytes = less, !.backpedal = TRUE]
                /\ UNCHANGED <<live, last>>
    /\ UNCHANGED <<timing_counter_, safe_frontier_, freedAt>>

LastChunk(m, r) == CHOOSE h \in ChunksOf(m, r) : m.chunks_[h].next = kInvalidChunkHandle

\* AddOrExtendAllocationRegion (or AddAllocationRegion)
\* and one chunk for the new memory, coalesced with the one before it.
AddRegion(m, ptr, size) ==
    LET before == {r \in m.regions : coalesce_regions_ /\ r.ptr + r.size = ptr}
        regions == IF before = {} THEN m.regions \cup {[ptr |-> ptr, size |-> size]}
                   ELSE (m.regions \ before)
                          \cup {[ptr |-> r.ptr, size |-> r.size + size] : r \in before}
        prev == IF before = {} THEN kInvalidChunkHandle
                ELSE LastChunk(m, CHOOSE r \in before : TRUE)
        h == NewHandle(m)
        added == AllocateChunk([m EXCEPT !.regions = regions],
                               FreeChunk(ptr, size, prev, kInvalidChunkHandle, 0))
        linked == IF prev = kInvalidChunkHandle THEN added
                  ELSE [added EXCEPT !.chunks_[prev].next = h]
    IN  CoalesceIntoBin(linked, h, FALSE)

\* The sub-allocator returns memory of at least the size asked for.
SubAlloc ==
    /\ call.pc = "suballoc"
    /\ \E u \in Addresses :
         LET ptr == u * kMinAllocationSize
             received == Granularity * ((call.bytes + Granularity - 1) \div Granularity)
             m == AddRegion(
                    [heap EXCEPT !.total_region_allocated_bytes_ = @ + received,
                                 !.curr_region_allocation_bytes_ =
                                     IF call.increased THEN @ ELSE SizeT(@ * 2)],
                    ptr, received)
         IN  /\ ptr + received <= SpaceUnits * kMinAllocationSize
             /\ Span([ptr |-> ptr, size |-> received])
                  \cap UNION {Span(r) : r \in heap.regions} = {}
             /\ IF Fits(m, RoundedBytes(call.num_bytes), call.freed_before) # {}
                THEN ReturnChunk(m, call.num_bytes, call.freed_before)
                ELSE GiveUp(m)
    /\ UNCHANGED <<timing_counter_, safe_frontier_, freedAt>>

-----------------------------------------------------------------------------
(* The operations.                                                          *)

AllocateRawInternal(num_bytes, freed_before) ==
    /\ call = NoCall
    /\ heap.ok
    /\ LET m == IF heap.timestamped_chunks_ = <<>> THEN heap
                ELSE MergeTimestampedChunks(heap, 0).heap
       IN  IF Fits(m, RoundedBytes(num_bytes), freed_before) # {}
           THEN ReturnChunk(m, num_bytes, freed_before)
           ELSE /\ heap' = m
                /\ call' = [pc |-> "extend", num_bytes |-> num_bytes,
                            freed_before |-> freed_before, second |-> FALSE, bytes |-> 0,
                            increased |-> FALSE, backpedal |-> FALSE]
                /\ UNCHANGED <<live, last>>
    /\ UNCHANGED <<timing_counter_, safe_frontier_, freedAt>>

\* DeallocateRaw, without the notification of AllocatorRetry.
DeallocateRaw(b) ==
    /\ call = NoCall
    /\ heap.ok
    /\ b \in live
    /\ HasTimingCounter => timing_counter_ < MaxCount
    /\ LET h == heap.handles[b.ptr]
           c == heap.chunks_[h]
           count == IF HasTimingCounter THEN timing_counter_ + 1 ELSE 0
           marked == [heap EXCEPT !.chunks_[h].in_use = FALSE,
                                  !.chunks_[h].freed_at_count =
                                      IF HasTimingCounter THEN count ELSE @,
                                  !.bytes_in_use = @ - c.size,
                                  !.ok = @ /\ c.in_use /\ c.bin_num = kInvalidBinNum]
       IN  /\ h # kInvalidChunkHandle
           /\ heap' = IF HasTimingCounter
                      THEN [InsertFreeChunkIntoBin(marked, h)
                              EXCEPT !.timestamped_chunks_ = Append(@, h)]
                      ELSE CoalesceIntoBin(marked, h, FALSE)
           /\ timing_counter_' = count
           /\ freedAt' = [a \in UnitAddrs |-> IF a \in UnitsOf(c) THEN count ELSE freedAt[a]]
    /\ live' = live \ {b}
    /\ last' = [last EXCEPT !.failed = FALSE, !.stale = FALSE]
    /\ UNCHANGED <<call, safe_frontier_>>

\* Lock-free: also while another thread holds lock_.
SetSafeFrontier(count) ==
    /\ count > safe_frontier_
    /\ safe_frontier_' = count
    /\ UNCHANGED <<heap, call, timing_counter_, live, freedAt, last>>

\* Kernels draw from the same counter when they are queued.
QueueKernel ==
    /\ HasTimingCounter /\ timing_counter_ < MaxCount
    /\ timing_counter_' = timing_counter_ + 1
    /\ UNCHANGED <<heap, call, safe_frontier_, live, freedAt, last>>

FreedBefore == IF HasTimingCounter THEN 0 .. timing_counter_ ELSE {0}

Next ==
    /\ \/ \E n \in Requests, before \in FreedBefore : AllocateRawInternal(n, before)
       \/ Extend
       \/ SubAlloc
       \/ Backpedal
       \/ \E b \in live : DeallocateRaw(b)
       \/ \E count \in 1 .. timing_counter_ : SetSafeFrontier(count)
       \/ QueueKernel
    /\ UNCHANGED options

Spec == Init /\ [][Next]_vars

-----------------------------------------------------------------------------
(* Properties.                                                              *)

Handles == UNION {ChunksOf(heap, r) : r \in heap.regions}
Chunk(h) == heap.chunks_[h]

\* The types of the structures guarded by lock_.  Catches handles that leave
\* chunks_ and counters that go below zero.
TypeOK ==
    /\ \A i \in DOMAIN heap.chunks_ :
         /\ Chunk(i).ptr \in UnitAddrs
         /\ Chunk(i).size \in Nat \ {0}
         /\ {Chunk(i).prev, Chunk(i).next} \subseteq 0 .. Len(heap.chunks_)
         /\ Chunk(i).bin_num \in -1 .. (kNumBins - 1)
         /\ Chunk(i).freed_at_count \in 0 .. MaxCount
    /\ heap.handles \in [UnitAddrs -> 0 .. Len(heap.chunks_)]
    /\ heap.free_chunks_list_ \in 0 .. Len(heap.chunks_)
    /\ heap.bytes_in_use \in Nat
    /\ heap.total_region_allocated_bytes_ \in 0 .. (SpaceUnits * kMinAllocationSize)
    /\ heap.curr_region_allocation_bytes_ \in 0 .. (2^SizeBits - 1)
    /\ call.pc \in {"idle", "extend", "suballoc"}
    /\ safe_frontier_ \in 0 .. timing_counter_ /\ timing_counter_ \in 0 .. MaxCount

\* bfc_allocator.h:154 - the chunks of a region cover it without gaps and
\* overlaps, and prev and next are the physically adjacent chunks, whatever
\* was split, merged, extended and given back before; no CHECK has failed.
Tiled ==
    /\ heap.ok
    /\ \A r \in heap.regions :
        /\ heap.handles[r.ptr] # kInvalidChunkHandle
        /\ \A a \in Span(r) : heap.handles[a] # kInvalidChunkHandle =>
             LET h == heap.handles[a]
                 end == a + Chunk(h).size
             IN  /\ Chunk(h).ptr = a
                 /\ Chunk(h).prev = kInvalidChunkHandle <=> a = r.ptr
                 /\ IF end = r.ptr + r.size
                    THEN Chunk(h).next = kInvalidChunkHandle
                    ELSE /\ end \in Span(r)
                         /\ heap.handles[end] = Chunk(h).next
                         /\ Chunk(h).next # kInvalidChunkHandle
                         /\ Chunk(Chunk(h).next).prev = h

\* A bin holds exactly the free chunks of its sizes: no chunk that is in use,
\* was deleted or has changed its size since it was inserted (the ordering of
\* the std::set depends on it), and no free chunk is forgotten.
BinsExact ==
    \A b \in DOMAIN heap.bins :
        heap.bins[b] = {h \in Handles : ~Chunk(h).in_use /\ BinNumForSize(Chunk(h).size) = b
                                         /\ Chunk(h).bin_num = b}

\* bfc_allocator.h:44 - the best-fit structure is what its comments say: the regions
\* are tiled by their chunks, and each free chunk waits in its bin.
HeapConsistent == Tiled /\ BinsExact

\* bytes_in_use and total_region_allocated_bytes_ agree with the chunks and
\* the regions (they decide whether memory can be extended or given back).
Accounting ==
    /\ heap.total_region_allocated_bytes_ = SumSizes(heap.regions)
    /\ heap.bytes_in_use =
         kMinAllocationSize * Cardinality({a \in UnitAddrs :
             \E h \in Handles : Chunk(h).in_use /\ a \in UnitsOf(Chunk(h))})

\* bfc_allocator.cc:527 - an allocation fails only if no free chunk that it
\* may use is large enough, in whichever bin it is.
FailsOnlyWhenFull ==
    [][(call # NoCall /\ call' = NoCall /\ last'.failed) =>
          ~ \E h \in Handles' : /\ ~Chunk(h)'.in_use
                                /\ Chunk(h)'.size >= RoundedBytes(last'.bytes)
                                /\ last'.before > 0 =>
                                     Chunk(h)'.freed_at_count <= last'.before]_vars

\* allocator.h:61 - an allocation that names a count gets no byte that was
\* freed later and is not yet safe, through all splits and merges in between.
TimestampSafe == ~last.stale

\* BFCAllocator implements MemoryAllocator: blocks, in units of
\* kMinAllocationSize, never overlap while they are granted.
Memory == INSTANCE MemoryAllocator WITH
    Bytes <- 0 .. (SpaceUnits - 1),
    Sizes <- {RoundedBytes(n) \div kMinAllocationSize : n \in Requests},
    live <- {[ptr |-> b.ptr \div kMinAllocationSize,
              size |-> RoundedBytes(b.size) \div kMinAllocationSize] : b \in live}

ImplementsAllocator == Memory!Spec
=============================================================================
