--------------------------- MODULE MemoryAllocator ---------------------------
(***************************************************************************)
(* The arena allocator of src/core/memory_allocator.cpp: an address-ordered *)
(* first-fit free list with coalescing, the table of live blocks, and the   *)
(* byte and block accounting, global and per collection tag.                *)
(*                                                                          *)
(* Every public call runs under mutex_, so it is one action; release_all,   *)
(* whose loop visits an unordered_map, is one action per iteration with the *)
(* mutex held in between (`releasing' is the tag of the call in its loop).  *)
(* Offsets stand for the addresses base_ + offset; the base is aligned.     *)
(* size_t arithmetic is arithmetic modulo SizeMod.                          *)
(***************************************************************************)
EXTENDS Maps, FiniteSets, FiniteSetsExt

CONSTANTS CapacityBytes,  \* the constructor's argument
          kAlignment,     \* 64 in the code
          SizeMod,        \* 2^64 in the code
          Requests,       \* byte counts passed to allocate
          Tags,           \* CollectionTag values
          NoTag

ASSUME AlignmentAssumption ==
    /\ kAlignment \in Nat \ {0}
    /\ SizeMod \in Nat \ {0}

ASSUME CapacityAssumption == CapacityBytes \in 0..(SizeMod - 1)

ASSUME RequestAssumption == Requests \subseteq 0..(SizeMod - 1)

ASSUME TagAssumption == NoTag \notin Tags

VARIABLES free_by_offset,         \* offset -> size of the free span there
          live,                   \* offset -> AllocRecord
          total_allocated_bytes,
          live_block_count,
          tag_bytes,              \* tag -> requested bytes, no entry when 0
          tag_blocks,             \* tag -> live blocks, no entry when 0
          releasing

stats == <<total_allocated_bytes, live_block_count, tag_bytes, tag_blocks>>

vars == <<free_by_offset, live, stats, releasing>>

-----------------------------------------------------------------------------

\* Clearing the low bits of a number is dropping its remainder by a power of 2.
Trim(n) == (n \div kAlignment) * kAlignment

Capacity == Trim(CapacityBytes)

round_up(bytes) == Trim((bytes + (kAlignment - 1)) % SizeMod)

\* The bytes of the arena a request takes: at least one aligned chunk.
needed(bytes) == IF round_up(bytes) = 0 THEN kAlignment ELSE round_up(bytes)

\* m[k], or 0 when there is no entry: operator[] and the stats(tag) getter.
Get(m, k) == IF k \in DOMAIN m THEN m[k] ELSE 0

\* Mutant of Deduct: any release drops the entry.
DeductDrops(m, k, n) == Erase(m, k)

\* m[k] -= n, with the entry erased when it reaches 0; no entry, no effect.
Deduct(m, k, n) ==
    IF k \notin DOMAIN m THEN m
    ELSE IF (m[k] - n) % SizeMod = 0 THEN Erase(m, k)
    ELSE [m EXCEPT ![k] = (@ - n) % SizeMod]

-----------------------------------------------------------------------------

\* The free span at `offset' is the first, in address order, that holds n bytes.
FirstFit(offset, n) ==
    /\ offset \in DOMAIN free_by_offset
    /\ free_by_offset[offset] >= n
    /\ \A x \in DOMAIN free_by_offset : free_by_offset[x] >= n => offset =< x

\* The free list after the span at `offset' gave up its first n bytes.
Carve(offset, n) ==
    LET rest == Erase(free_by_offset, offset)
    IN  IF free_by_offset[offset] > n
        THEN Put(rest, offset + n, free_by_offset[offset] - n)
        ELSE rest

\* Mutants of free_span: no merge with the span before it; a merge with it that
\* loses the released bytes.
FreeSpanNoPrev(f, offset, size) ==
    IF offset + size \in DOMAIN f
    THEN Put(Erase(f, offset + size), offset, size + f[offset + size])
    ELSE Put(f, offset, size)
FreeSpanLosesBytes(f, offset, size) ==
    IF \E p \in DOMAIN f : p + f[p] = offset THEN f ELSE Put(f, offset, size)

\* free_span: insert the span, merge it with the span that starts where it ends
\* and with the span that ends where it starts.  Spans do not overlap, so these
\* are its neighbours in the ordered map whenever they exist.
free_span(f, offset, size) ==
    LET grown == IF offset + size \in DOMAIN f
                 THEN Put(Erase(f, offset + size), offset, size + f[offset + size])
                 ELSE Put(f, offset, size)
        prev  == {p \in DOMAIN f : p + f[p] = offset}
    IN  IF prev = {} THEN grown
        ELSE LET p == CHOOSE p \in prev : TRUE
             IN  Put(Erase(grown, offset), p, f[p] + grown[offset])

-----------------------------------------------------------------------------

Init ==
    /\ free_by_offset = IF Capacity > 0 THEN [o \in {0} |-> Capacity]
                                        ELSE EmptyMap
    /\ live = EmptyMap
    /\ total_allocated_bytes = 0
    /\ live_block_count = 0
    /\ tag_bytes = EmptyMap
    /\ tag_blocks = EmptyMap
    /\ releasing = NoTag

\* allocate(bytes, t) when a span fits.
Allocate(bytes, t) ==
    /\ releasing = NoTag
    /\ \E offset \in DOMAIN free_by_offset :
          /\ FirstFit(offset, needed(bytes))
          /\ free_by_offset' = Carve(offset, needed(bytes))
          /\ live' = Put(live, offset, [rounded_bytes   |-> needed(bytes),
                                        requested_bytes |-> bytes,
                                        tag             |-> t])
    /\ total_allocated_bytes' = (total_allocated_bytes + bytes) % SizeMod
    /\ live_block_count' = live_block_count + 1
    /\ tag_bytes' = Put(tag_bytes, t, (Get(tag_bytes, t) + bytes) % SizeMod)
    /\ tag_blocks' = Put(tag_blocks, t, Get(tag_blocks, t) + 1)
    /\ UNCHANGED releasing

\* allocate(bytes, t) when none does: AllocationFailure, nothing changes.
AllocateFails(bytes) ==
    /\ releasing = NoTag
    /\ \A offset \in DOMAIN free_by_offset : free_by_offset[offset] < needed(bytes)
    /\ UNCHANGED vars

\* What releasing the live block at `offset' does to the map and the totals.
Reclaim(offset) ==
    /\ live' = Erase(live, offset)
    /\ free_by_offset' = free_span(free_by_offset, offset, live[offset].rounded_bytes)
    /\ total_allocated_bytes' =
          (total_allocated_bytes - live[offset].requested_bytes) % SizeMod
    /\ live_block_count' = live_block_count - 1

\* release(block): the block's address is a live allocation.
Release(offset) ==
    /\ releasing = NoTag
    /\ offset \in DOMAIN live
    /\ Reclaim(offset)
    /\ tag_bytes' = Deduct(tag_bytes, live[offset].tag, live[offset].requested_bytes)
    /\ tag_blocks' = Deduct(tag_blocks, live[offset].tag, 1)
    /\ UNCHANGED releasing

\* release(block) of an address that is not: a second release, or a pointer
\* outside the arena (negative here), such as one into a mapped snapshot.
ReleaseIgnored(offset) ==
    /\ releasing = NoTag
    /\ offset \notin DOMAIN live
    /\ UNCHANGED vars

\* release_all(t): lock, then one iteration per block of t in any order, then
\* drop the tag's totals and unlock.
ReleaseAllBegin(t) ==
    /\ releasing = NoTag
    /\ releasing' = t
    /\ UNCHANGED <<free_by_offset, live, stats>>

\* Mutants of ReleaseAllStep: blocks of every tag go; the iterator stands still.
ReleaseAllStepAnyTag(offset) ==
    /\ releasing # NoTag
    /\ offset \in DOMAIN live
    /\ Reclaim(offset)
    /\ UNCHANGED <<tag_bytes, tag_blocks, releasing>>

ReleaseAllStepStuck(offset) ==
    /\ releasing # NoTag
    /\ offset \in DOMAIN live
    /\ live[offset].tag = releasing
    /\ UNCHANGED vars

ReleaseAllStep(offset) ==
    /\ releasing # NoTag
    /\ offset \in DOMAIN live
    /\ live[offset].tag = releasing
    /\ Reclaim(offset)
    /\ UNCHANGED <<tag_bytes, tag_blocks, releasing>>

ReleaseAllEnd ==
    /\ releasing # NoTag
    /\ \A offset \in DOMAIN live : live[offset].tag # releasing
    /\ tag_bytes' = Erase(tag_bytes, releasing)
    /\ tag_blocks' = Erase(tag_blocks, releasing)
    /\ releasing' = NoTag
    /\ UNCHANGED <<free_by_offset, live, total_allocated_bytes, live_block_count>>

ReleaseAllLoop == ReleaseAllEnd \/ \E offset \in DOMAIN live : ReleaseAllStep(offset)

Next ==
    \/ \E bytes \in Requests, t \in Tags : Allocate(bytes, t)
    \/ \E bytes \in Requests : AllocateFails(bytes)
    \/ \E offset \in DOMAIN live : Release(offset)
    \/ \E offset \in -1..Capacity : ReleaseIgnored(offset)
    \/ \E t \in Tags : ReleaseAllBegin(t)
    \/ ReleaseAllLoop

\* The thread inside release_all keeps running: its loop has no blocking call.
Spec == Init /\ [][Next]_vars /\ WF_vars(ReleaseAllLoop)

-----------------------------------------------------------------------------
(* Properties                                                               *)

Offsets == 0..Capacity

AllocRecord == [rounded_bytes: 1..Capacity, requested_bytes: Requests, tag: Tags]

\* The type of the state: the maps of memory_allocator.hpp:121-134 are partial
\* functions over arena offsets and tags, and a free span is never empty.
TypeOK ==
    /\ DOMAIN free_by_offset \subseteq Offsets
    /\ \A o \in DOMAIN free_by_offset : free_by_offset[o] \in 1..Capacity
    /\ free_by_offset = [o \in DOMAIN free_by_offset |-> free_by_offset[o]]
    /\ DOMAIN live \subseteq Offsets
    /\ live \in [DOMAIN live -> AllocRecord]
    /\ total_allocated_bytes \in 0..(SizeMod - 1)
    /\ live_block_count \in Nat
    /\ DOMAIN tag_bytes \subseteq Tags
    /\ tag_bytes \in [DOMAIN tag_bytes -> 0..(SizeMod - 1)]
    /\ DOMAIN tag_blocks \subseteq Tags
    /\ tag_blocks \in [DOMAIN tag_blocks -> Nat \ {0}]
    /\ releasing \in Tags \cup {NoTag}

\* [o, o + n) and [x, x + m) share no byte.
Apart(o, n, x, m) == o + n =< x \/ x + m =< o

InArena ==
    /\ \A o \in DOMAIN free_by_offset : o + free_by_offset[o] =< Capacity
    /\ \A o \in DOMAIN live : o + live[o].rounded_bytes =< Capacity

FreeApart ==
    \A o, x \in DOMAIN free_by_offset :
        o # x => Apart(o, free_by_offset[o], x, free_by_offset[x])

LiveApart ==
    \A o, x \in DOMAIN live :
        o # x => Apart(o, live[o].rounded_bytes, x, live[x].rounded_bytes)

FreeLiveApart ==
    \A o \in DOMAIN free_by_offset, x \in DOMAIN live :
        Apart(o, free_by_offset[o], x, live[x].rounded_bytes)

\* Byte b belongs to some free span, or to some live block.
ByteFree(b) ==
    \E o \in DOMAIN free_by_offset : o =< b /\ b < o + free_by_offset[o]

ByteLive(b) == \E o \in DOMAIN live : o =< b /\ b < o + live[o].rounded_bytes

NothingLost == \A b \in 0..(Capacity - 1) : ByteFree(b) \/ ByteLive(b)

\* The free spans and the live blocks partition the arena: whatever sequence of
\* grants, releases, merges and bulk releases, no byte is granted twice and no
\* byte is lost to both lists (memory_allocator.cpp:68-80, 93-117, 160-173).
Partition == InArena /\ FreeApart /\ LiveApart /\ FreeLiveApart /\ NothingLost

\* Free space is fully coalesced: no free span ends where another starts, so
\* the merging in free_span (memory_allocator.cpp:102-116) misses no neighbour.
Coalesced ==
    \A o \in DOMAIN free_by_offset : o + free_by_offset[o] \notin DOMAIN free_by_offset

Aligned(n) == \E q \in 0..n : n = q * kAlignment

\* Every span starts and ends on a kAlignment boundary, so every block handed
\* out is aligned (memory_allocator.hpp:57, 87 of the .cpp), for every history.
AllAligned ==
    /\ \A o \in DOMAIN free_by_offset : Aligned(o) /\ Aligned(free_by_offset[o])
    /\ \A o \in DOMAIN live : Aligned(o) /\ Aligned(live[o].rounded_bytes)

\* Every block has room for the bytes its caller asked for: "Allocates a 64-byte
\* aligned block of at least `bytes`" (memory_allocator.hpp:76).
BlockHoldsRequest ==
    \A o \in DOMAIN live : live[o].requested_bytes =< live[o].rounded_bytes

LiveOf(t) == {o \in DOMAIN live : live[o].tag = t}

RequestedOver(S) == MapThenSumSet(LAMBDA o : live[o].requested_bytes, S)

\* stats() and stats(tag) are granted minus released: at every moment, also between
\* two iterations of release_all, the running totals equal what a count of the
\* live blocks gives, and so do those of every tag no release_all is busy with,
\* although its entries come and go (a tag with only zero-byte blocks has a block
\* count and no byte entry; memory_allocator.cpp:81-84, 142-158, 170-181).
TotalsMatch ==
    /\ live_block_count = Cardinality(DOMAIN live)
    /\ total_allocated_bytes = RequestedOver(DOMAIN live) % SizeMod
    /\ \A t \in Tags \ {releasing} :
          /\ Get(tag_blocks, t) = Cardinality(LiveOf(t))
          /\ Get(tag_bytes, t) = RequestedOver(LiveOf(t)) % SizeMod

A == INSTANCE Arena WITH Size <- Capacity, Footprint <- needed

\* The allocator implements the abstract arena: blocks never share a byte,
\* a block stays until it is released, and release_all(t) ends only when no
\* block of t is left and touches no block of another tag.
ImplementsArena == A!Spec

\* A request is refused only when no run of vacant bytes could hold it, wherever
\* it starts: first fit over coalesced spans (memory_allocator.cpp:49-66) never
\* reports exhaustion because of how the free space was cut up.
RefusedOnlyWhenFull ==
    \A bytes \in Requests :
        (\A o \in DOMAIN free_by_offset : free_by_offset[o] < needed(bytes))
            => \A o \in Offsets : ~A!Vacant(o, needed(bytes))

\* A bulk release ends: the loop of release_all (memory_allocator.cpp:167-177)
\* runs out of blocks of its tag and unlocks.
ReleaseAllReturns == \A t \in Tags : releasing = t ~> releasing = NoTag
=============================================================================
