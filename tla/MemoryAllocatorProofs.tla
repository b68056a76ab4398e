------------------------ MODULE MemoryAllocatorProofs ------------------------
(***************************************************************************)
(* Proofs about MemoryAllocator for every capacity, alignment, set of       *)
(* request sizes and set of tags.                                           *)
(*                                                                          *)
(* The inductive invariant is IInv: the types, the partition of the arena   *)
(* into free spans and live blocks, and coalescing.  Partition alone is not *)
(* inductive: NothingLost needs FreeApart to know that carving a span takes *)
(* bytes from no other span, and merging needs FreeLiveApart.               *)
(* For the totals it is TInv: as long as no request wraps when rounded up,  *)
(* every block holds its request, and each total is the sum over its        *)
(* blocks, which the arena bounds.                                          *)
(***************************************************************************)
EXTENDS MemoryAllocator, ProofLemmas

-----------------------------------------------------------------------------
(* Rounding                                                                 *)

\* Trim, the masking of round_up and of the constructor: the largest multiple
\* of kAlignment not above n.
LEMMA TrimFacts ==
    ASSUME NEW n \in Nat
    PROVE  /\ Trim(n) \in Nat
           /\ Trim(n) =< n
           /\ n < Trim(n) + kAlignment
           /\ Aligned(Trim(n))
<1> DEFINE q == n \div kAlignment
<1>1. /\ q \in Nat
      /\ n = q * kAlignment + (n % kAlignment)
      /\ n % kAlignment \in 0..(kAlignment - 1)
  BY AlignmentAssumption, SMT
<1>2. q * kAlignment \in Nat
  BY <1>1, AlignmentAssumption, SMT
<1>3. q =< q * kAlignment
  BY <1>1, AlignmentAssumption, SMT
<1> HIDE DEF q
<1>4. Trim(n) = q * kAlignment
  BY DEF Trim, q
<1> QED
  BY <1>1, <1>2, <1>3, <1>4, AlignmentAssumption, SMT DEF Aligned

\* The arena's usable size is a natural number, aligned.
LEMMA CapacityFacts == Capacity \in Nat /\ Aligned(Capacity) /\ Capacity < SizeMod
<1>1. CapacityBytes \in Nat
  BY CapacityAssumption, AlignmentAssumption
<1> QED
  BY <1>1, TrimFacts, CapacityAssumption, AlignmentAssumption DEF Capacity

\* The footprint of a request is a positive multiple of kAlignment, and it
\* covers the request unless rounding up wraps around size_t.
LEMMA NeededFacts ==
    ASSUME NEW bytes \in Requests
    PROVE  /\ needed(bytes) \in Nat \ {0}
           /\ Aligned(needed(bytes))
           /\ bytes + (kAlignment - 1) < SizeMod => bytes =< needed(bytes)
<1> DEFINE s == (bytes + (kAlignment - 1)) % SizeMod
<1>1. bytes \in Nat /\ bytes + (kAlignment - 1) \in Nat
  BY RequestAssumption, AlignmentAssumption
<1>2. s \in Nat
  BY <1>1, AlignmentAssumption
<1>3. bytes + (kAlignment - 1) < SizeMod => s = bytes + (kAlignment - 1)
  BY <1>1, AlignmentAssumption, SMT
<1>4. round_up(bytes) = Trim(s)
  BY DEF round_up
<1> HIDE DEF s
<1>5. Aligned(kAlignment)
  BY AlignmentAssumption, SMT DEF Aligned
<1> QED
  BY <1>1, <1>2, <1>3, <1>4, <1>5, TrimFacts, AlignmentAssumption DEF needed

-----------------------------------------------------------------------------
(* The arena is partitioned                                                 *)

\* A free list of nonempty spans inside the arena, pairwise apart, coalesced.
GoodList(f) ==
    /\ f = [x \in DOMAIN f |-> f[x]]
    /\ \A x \in DOMAIN f : x \in Nat /\ f[x] \in Nat \ {0} /\ x + f[x] =< Capacity
    /\ \A x, y \in DOMAIN f : x # y => Apart(x, f[x], y, f[y])
    /\ \A x \in DOMAIN f : x + f[x] \notin DOMAIN f

\* f covers byte b.
Covers(f, b) == \E x \in DOMAIN f : x =< b /\ b < x + f[x]

\* free_span(f, o, s) for a span apart from those of f: the spans of f that
\* touch it disappear and one span takes the place of all, whatever the number
\* of neighbours merged.
LEMMA FreeSpanShape ==
    ASSUME NEW f, GoodList(f),
           NEW o \in Nat, NEW s \in Nat \ {0}, o + s =< Capacity,
           \A x \in DOMAIN f : Apart(o, s, x, f[x])
    PROVE  \E a \in Nat, n \in Nat \ {0} :
              /\ a =< o /\ o + s =< a + n /\ a + n =< Capacity
              /\ \A b \in a..(a + n - 1) : b \in o..(o + s - 1) \/ Covers(f, b)
              /\ DOMAIN free_span(f, o, s) =
                     {x \in DOMAIN f : Apart(a, n, x, f[x])} \cup {a}
              /\ free_span(f, o, s) =
                     [x \in DOMAIN free_span(f, o, s) |-> IF x = a THEN n ELSE f[x]]
              /\ \A x \in DOMAIN f :
                     Apart(a, n, x, f[x]) => x + f[x] # a /\ a + n # x
              /\ \A x \in DOMAIN f :
                     ~Apart(a, n, x, f[x]) => a =< x /\ x + f[x] =< a + n
<1> USE CapacityFacts DEF GoodList, Apart, Covers
<1> DEFINE P == {p \in DOMAIN f : p + f[p] = o}
           N == o + s \in DOMAIN f
           size == IF N THEN s + f[o + s] ELSE s
           grown == IF N THEN Put(Erase(f, o + s), o, s + f[o + s]) ELSE Put(f, o, s)
<1>1. o \notin DOMAIN f
  OBVIOUS
<1>2. size \in Nat \ {0} /\ o + size =< Capacity /\ s =< size
  OBVIOUS
<1>3. CASE P = {}
  <2>1. free_span(f, o, s) = grown
    BY <1>3 DEF free_span
  <2>2. DOMAIN grown = {x \in DOMAIN f : Apart(o, size, x, f[x])} \cup {o}
    <3>1. CASE N
      BY <1>1, <3>1 DEF Put, Erase
    <3>2. CASE ~N
      BY <1>1, <3>2 DEF Put
    <3> QED
      BY <3>1, <3>2
  <2>3. grown = [x \in DOMAIN grown |-> IF x = o THEN size ELSE f[x]]
    BY <1>1 DEF Put, Erase
  <2>4. \A b \in o..(o + size - 1) : b \in o..(o + s - 1) \/ Covers(f, b)
    <3>1. CASE N
      BY <3>1
    <3>2. CASE ~N
      BY <3>2
    <3> QED
      BY <3>1, <3>2
  <2>5. \A x \in DOMAIN f :
           /\ Apart(o, size, x, f[x]) => x + f[x] # o /\ o + size # x
           /\ ~Apart(o, size, x, f[x]) => o =< x /\ x + f[x] =< o + size
    <3>1. CASE N
      BY <1>3, <3>1
    <3>2. CASE ~N
      BY <1>3, <3>2
    <3> QED
      BY <3>1, <3>2
  <2> HIDE DEF grown, size
  <2> USE <1>2
  <2> WITNESS o \in Nat, size \in Nat \ {0}
  <2> QED
    BY <1>2, <2>1, <2>2, <2>3, <2>4, <2>5
<1>4. CASE P # {}
  <2> DEFINE p == CHOOSE p \in P : TRUE
             n == f[p] + size
  <2>1. p \in DOMAIN f /\ p + f[p] = o
    BY <1>4
  <2>2. grown[o] = size /\ o \in DOMAIN grown
    BY <1>1 DEF Put, Erase
  <2>3. free_span(f, o, s) = Put(Erase(grown, o), p, n)
    BY <1>4, <2>2, Zenon DEF free_span
  <2> HIDE DEF p
  <2>4. p \in Nat /\ n \in Nat \ {0} /\ p + n =< Capacity /\ p =< o /\ o + s =< p + n
    BY <1>2, <2>1
  <2>5. DOMAIN free_span(f, o, s) = {x \in DOMAIN f : Apart(p, n, x, f[x])} \cup {p}
    <3>1. CASE N
      BY <1>1, <2>1, <2>3, <3>1 DEF Put, Erase
    <3>2. CASE ~N
      BY <1>1, <2>1, <2>3, <3>2 DEF Put, Erase
    <3> QED
      BY <3>1, <3>2
  <2>6. free_span(f, o, s) = [x \in DOMAIN free_span(f, o, s) |-> IF x = p THEN n ELSE f[x]]
    BY <1>1, <2>1, <2>3 DEF Put, Erase
  <2>7. \A b \in p..(p + n - 1) : b \in o..(o + s - 1) \/ Covers(f, b)
    <3>1. CASE N
      BY <2>1, <3>1
    <3>2. CASE ~N
      BY <2>1, <3>2
    <3> QED
      BY <3>1, <3>2
  <2>8. \A x \in DOMAIN f :
           /\ Apart(p, n, x, f[x]) => x + f[x] # p /\ p + n # x
           /\ ~Apart(p, n, x, f[x]) => p =< x /\ x + f[x] =< p + n
    <3>1. CASE N
      BY <2>1, <3>1
    <3>2. CASE ~N
      BY <2>1, <3>2
    <3> QED
      BY <3>1, <3>2
  <2> HIDE DEF n, grown, size
  <2> USE <2>4
  <2> WITNESS p \in Nat, n \in Nat \ {0}
  <2> QED
    BY <2>4, <2>5, <2>6, <2>7, <2>8
<1> QED
  BY <1>3, <1>4

\* free_span keeps a good list good, covers exactly the bytes of the list and
\* of the new span, and comes no nearer to any span apart from both.
LEMMA FreeSpanFacts ==
    ASSUME NEW f, GoodList(f),
           NEW o \in Nat, NEW s \in Nat \ {0}, o + s =< Capacity,
           \A x \in DOMAIN f : Apart(o, s, x, f[x])
    PROVE  /\ GoodList(free_span(f, o, s))
           /\ \A b \in Nat : Covers(f, b) \/ b \in o..(o + s - 1)
                                => Covers(free_span(f, o, s), b)
           /\ \A y, m \in Nat :
                 /\ m > 0
                 /\ Apart(o, s, y, m)
                 /\ \A x \in DOMAIN f : Apart(x, f[x], y, m)
                 => \A x \in DOMAIN free_span(f, o, s) :
                       Apart(x, free_span(f, o, s)[x], y, m)
<1> DEFINE g == free_span(f, o, s)
<1>1. PICK a \in Nat, n \in Nat \ {0} :
              /\ a =< o /\ o + s =< a + n /\ a + n =< Capacity
              /\ \A b \in a..(a + n - 1) : b \in o..(o + s - 1) \/ Covers(f, b)
              /\ DOMAIN g = {x \in DOMAIN f : Apart(a, n, x, f[x])} \cup {a}
              /\ g = [x \in DOMAIN g |-> IF x = a THEN n ELSE f[x]]
              /\ \A x \in DOMAIN f :
                     Apart(a, n, x, f[x]) => x + f[x] # a /\ a + n # x
              /\ \A x \in DOMAIN f :
                     ~Apart(a, n, x, f[x]) => a =< x /\ x + f[x] =< a + n
  BY FreeSpanShape
<1> HIDE DEF g
<1>2. \A x \in DOMAIN f : x \in Nat /\ f[x] \in Nat \ {0} /\ x + f[x] =< Capacity
  BY DEF GoodList
<1>3. a \in DOMAIN g /\ g[a] = n
  BY <1>1
<1>4. \A x \in DOMAIN g : x # a => x \in DOMAIN f /\ g[x] = f[x] /\ Apart(a, n, x, f[x])
  BY <1>1
<1>5. GoodList(g)
  <2>1. g = [x \in DOMAIN g |-> g[x]]
    BY <1>1
  <2>2. \A x \in DOMAIN g : x \in Nat /\ g[x] \in Nat \ {0} /\ x + g[x] =< Capacity
    BY <1>1, <1>2, <1>3, <1>4
  <2>3. \A x, y \in DOMAIN g : x # y => Apart(x, g[x], y, g[y])
    BY <1>3, <1>4 DEF GoodList, Apart
  <2>4. \A x \in DOMAIN g : x + g[x] \notin DOMAIN g
    <3> SUFFICES ASSUME NEW x \in DOMAIN g PROVE x + g[x] \notin DOMAIN g
      OBVIOUS
    <3>1. CASE x = a
      BY <1>1, <1>2, <1>3, <1>4, <3>1
    <3>2. CASE x # a
      <4>1. x + f[x] \notin DOMAIN f
        BY <1>4, <3>2 DEF GoodList
      <4> QED
        BY <1>1, <1>4, <3>2, <4>1
    <3> QED
      BY <3>1, <3>2
  <2> QED
    BY <2>1, <2>2, <2>3, <2>4 DEF GoodList
<1>6. ASSUME NEW b \in Nat, Covers(f, b) \/ b \in o..(o + s - 1)
      PROVE  Covers(g, b)
  <2>1. CASE b \in o..(o + s - 1)
    BY <1>1, <1>3, <2>1 DEF Covers
  <2>2. CASE Covers(f, b)
    <3>1. PICK x \in DOMAIN f : x =< b /\ b < x + f[x]
      BY <2>2 DEF Covers
    <3>2. CASE Apart(a, n, x, f[x])
      <4>1. x # a
        BY <1>2, <3>1, <3>2 DEF Apart
      <4>2. x \in DOMAIN g /\ g[x] = f[x]
        BY <1>1, <3>2, <4>1
      <4> QED
        BY <3>1, <4>2 DEF Covers
    <3>3. CASE ~Apart(a, n, x, f[x])
      BY <1>1, <1>2, <1>3, <3>1, <3>3 DEF Covers
    <3> QED
      BY <3>2, <3>3
  <2> QED
    BY <1>6, <2>1, <2>2
<1>7. ASSUME NEW y \in Nat, NEW m \in Nat, m > 0, Apart(o, s, y, m),
             \A x \in DOMAIN f : Apart(x, f[x], y, m),
             NEW x \in DOMAIN g
      PROVE  Apart(x, g[x], y, m)
  <2>1. CASE x # a
    BY <1>4, <1>7, <2>1
  <2>2. CASE x = a
    \* A byte in both would be one of the new span's or one covered by f.
    <3>1. ASSUME ~Apart(a, n, y, m) PROVE FALSE
      <4> DEFINE b == IF a =< y THEN y ELSE a
      <4>1. b \in a..(a + n - 1) /\ y =< b /\ b < y + m
        BY <1>7, <3>1 DEF Apart
      <4>2. b \notin o..(o + s - 1)
        BY <1>7, <4>1 DEF Apart
      <4>3. Covers(f, b)
        BY <1>1, <4>1, <4>2
      <4> HIDE DEF b
      <4> QED
        BY <1>2, <1>7, <4>1, <4>3 DEF Covers, Apart
    <3> QED
      BY <1>3, <2>2, <3>1
  <2> QED
    BY <2>1, <2>2
<1> QED
  BY <1>5, <1>6, <1>7 DEF g

\* Taking the first n bytes of the span at o: the list stays good, loses only
\* those bytes, and every span left is apart from them.
LEMMA CarveFacts ==
    ASSUME GoodList(free_by_offset),
           NEW o \in DOMAIN free_by_offset,
           NEW n \in Nat \ {0}, free_by_offset[o] >= n
    PROVE  /\ GoodList(Carve(o, n))
           /\ \A b \in Nat : Covers(free_by_offset, b)
                                => Covers(Carve(o, n), b) \/ b \in o..(o + n - 1)
           /\ \A x \in DOMAIN Carve(o, n) : Apart(x, Carve(o, n)[x], o, n)
           /\ \A y, m \in Nat :
                 (\A x \in DOMAIN free_by_offset : Apart(x, free_by_offset[x], y, m))
                 => \A x \in DOMAIN Carve(o, n) : Apart(x, Carve(o, n)[x], y, m)
<1> DEFINE f == free_by_offset
           g == Carve(o, n)
<1>1. \A x \in DOMAIN f : x \in Nat /\ f[x] \in Nat \ {0} /\ x + f[x] =< Capacity
  BY DEF GoodList
<1>2. f[o] > n => o + n \notin DOMAIN f
  BY <1>1 DEF GoodList, Apart
<1>3. /\ g = [x \in DOMAIN g |-> g[x]]
      /\ DOMAIN g = (DOMAIN f \ {o}) \cup (IF f[o] > n THEN {o + n} ELSE {})
      /\ \A x \in DOMAIN f \ {o} : g[x] = f[x]
      /\ f[o] > n => g[o + n] = f[o] - n
  <2>1. CASE f[o] > n
    BY <1>1, <1>2, <2>1 DEF Carve, Put, Erase
  <2>2. CASE ~(f[o] > n)
    BY <1>1, <1>2, <2>2 DEF Carve, Put, Erase
  <2> QED
    BY <2>1, <2>2
<1> HIDE DEF g
<1>4. \A x \in DOMAIN g : \/ x \in DOMAIN f \ {o} /\ g[x] = f[x]
                          \/ f[o] > n /\ x = o + n /\ g[x] = f[o] - n
  BY <1>3
<1>5. GoodList(g)
  <2>1. \A x \in DOMAIN g : x \in Nat /\ g[x] \in Nat \ {0} /\ x + g[x] =< Capacity
    BY <1>1, <1>4, CapacityFacts
  <2>2. \A x, y \in DOMAIN g : x # y => Apart(x, g[x], y, g[y])
    BY <1>1, <1>4 DEF GoodList, Apart
  <2>3. \A x \in DOMAIN g : x + g[x] \notin DOMAIN g
    BY <1>1, <1>4 DEF GoodList, Apart
  <2> QED
    BY <1>3, <2>1, <2>2, <2>3 DEF GoodList
<1>6. \A b \in Nat : Covers(f, b) => Covers(g, b) \/ b \in o..(o + n - 1)
  BY <1>1, <1>3 DEF Covers
<1>7. \A x \in DOMAIN g : Apart(x, g[x], o, n)
  BY <1>1, <1>4 DEF GoodList, Apart
<1>8. ASSUME NEW y \in Nat, NEW m \in Nat,
             \A x \in DOMAIN f : Apart(x, f[x], y, m),
             NEW x \in DOMAIN g
      PROVE  Apart(x, g[x], y, m)
  BY <1>1, <1>4, <1>8 DEF Apart
<1> QED
  BY <1>5, <1>6, <1>7, <1>8 DEF g

-----------------------------------------------------------------------------
(* The inductive invariant                                                  *)

\* live_block_count_ counts the entries of live_.
CountMatches == live_block_count = Cardinality(DOMAIN live)

\* Partition alone is not inductive: that free_span merges with at most one
\* neighbour on each side needs Coalesced, and that release_all ends with its
\* counters typed needs CountMatches.
IInv == TypeOK /\ Partition /\ Coalesced /\ CountMatches

\* The free list of a partitioned, coalesced arena is a good list.
LEMMA GoodFree == ASSUME TypeOK, Partition, Coalesced PROVE GoodList(free_by_offset)
BY CapacityFacts DEF TypeOK, Partition, InArena, FreeApart, Coalesced, GoodList, Offsets

\* The part of IInv about the two maps of the arena, as GoodList states it.
GoodLive ==
    /\ DOMAIN live \subseteq Offsets
    /\ live \in [DOMAIN live -> AllocRecord]
    /\ \A o \in DOMAIN live : o + live[o].rounded_bytes =< Capacity
    /\ LiveApart

\* There are finitely many live blocks, at natural offsets.
LEMMA LiveFinite ==
    ASSUME TypeOK
    PROVE  /\ IsFiniteSet(DOMAIN live)
           /\ Cardinality(DOMAIN live) \in Nat
           /\ \A o \in DOMAIN live : o \in Nat /\ live[o].rounded_bytes \in Nat \ {0}
<1>1. IsFiniteSet(Offsets)
  BY CapacityFacts, FS_Interval DEF Offsets
<1> QED
  BY <1>1, CapacityFacts, FS_Subset, FS_CardinalityType DEF TypeOK, AllocRecord, Offsets

\* The constructor's single span satisfies the inductive invariant.
LEMMA InitIInv == Init => IInv
<1> SUFFICES ASSUME Init PROVE IInv
  OBVIOUS
<1> USE CapacityFacts
<1>1. TypeOK
  BY AlignmentAssumption DEF Init, TypeOK, Offsets, EmptyMap
<1>2. Partition /\ Coalesced
  BY DEF Init, EmptyMap, Partition, InArena, FreeApart, LiveApart, FreeLiveApart, NothingLost,
         ByteFree, ByteLive, Coalesced
<1>3. CountMatches
  BY FS_EmptySet DEF Init, EmptyMap, CountMatches
<1> QED
  BY <1>1, <1>2, <1>3 DEF IInv

\* allocate: the bytes move from one free span to one live block.
LEMMA AllocateIInv ==
    ASSUME IInv, NEW bytes \in Requests, NEW t \in Tags, Allocate(bytes, t)
    PROVE  IInv'
<1> DEFINE n == needed(bytes)
<1>0. n \in Nat \ {0}
  BY NeededFacts
<1>1. PICK o \in DOMAIN free_by_offset :
         /\ free_by_offset[o] >= n
         /\ free_by_offset' = Carve(o, n)
         /\ live' = Put(live, o, [rounded_bytes |-> n, requested_bytes |-> bytes, tag |-> t])
  BY DEF Allocate, FirstFit
<1> HIDE DEF n
<1>2. GoodList(free_by_offset)
  BY GoodFree DEF IInv
<1>3. o \in Nat /\ o + n =< Capacity /\ o \in Offsets /\ n \in 1..Capacity
  BY <1>0, <1>1, <1>2, CapacityFacts DEF GoodList, Offsets
<1>4. \A x \in DOMAIN live : x \in Nat /\ live[x].rounded_bytes \in Nat \ {0}
  BY LiveFinite DEF IInv
<1>5. \A x \in DOMAIN live : Apart(o, n, x, live[x].rounded_bytes)
  BY <1>0, <1>1, <1>2, <1>3, <1>4 DEF IInv, Partition, FreeLiveApart, Apart, GoodList
<1>6. o \notin DOMAIN live
  BY <1>0, <1>3, <1>4, <1>5 DEF Apart
<1>7. /\ DOMAIN live' = DOMAIN live \cup {o}
      /\ live'[o] = [rounded_bytes |-> n, requested_bytes |-> bytes, tag |-> t]
      /\ \A x \in DOMAIN live : live'[x] = live[x]
      /\ live' = [x \in DOMAIN live' |-> live'[x]]
  BY <1>1, <1>6 DEF Put
<1>8. GoodList(free_by_offset)'
  BY <1>0, <1>1, <1>2, CarveFacts DEF GoodList, Apart
<1>9. GoodLive'
  <2>1. \A x \in DOMAIN live' : live'[x] \in AllocRecord
    BY <1>3, <1>7 DEF IInv, TypeOK, AllocRecord
  <2>2. \A x \in DOMAIN live' : x + live'[x].rounded_bytes =< Capacity
    BY <1>3, <1>7 DEF IInv, Partition, InArena
  <2>3. LiveApart'
    BY <1>0, <1>3, <1>4, <1>5, <1>7 DEF LiveApart, Apart, IInv, Partition
  <2> QED
    BY <1>3, <1>7, <2>1, <2>2, <2>3 DEF GoodLive, IInv, TypeOK, Offsets, Capacity, AllocRecord
<1>10. FreeLiveApart'
  <2>1. \A x \in DOMAIN free_by_offset' : Apart(x, free_by_offset'[x], o, n)
    BY <1>0, <1>1, <1>2, CarveFacts
  <2>2. ASSUME NEW y \in DOMAIN live
        PROVE  \A x \in DOMAIN free_by_offset' :
                  Apart(x, free_by_offset'[x], y, live[y].rounded_bytes)
    <3>1. \A x \in DOMAIN free_by_offset : Apart(x, free_by_offset[x], y, live[y].rounded_bytes)
      BY DEF IInv, Partition, FreeLiveApart
    <3> QED
      BY <1>0, <1>1, <1>2, <1>4, <3>1, CarveFacts
  <2> QED
    BY <1>7, <2>1, <2>2 DEF FreeLiveApart, Apart
<1>11. NothingLost'
  <2> SUFFICES ASSUME NEW b \in 0..(Capacity - 1) PROVE (ByteFree(b) \/ ByteLive(b))'
    BY DEF NothingLost, Capacity
  <2>1. b \in Nat
    BY CapacityFacts
  <2>2. CASE ByteLive(b)
    BY <1>7, <2>2 DEF ByteLive
  <2>3. CASE ByteFree(b)
    <3>1. Covers(free_by_offset, b)
      BY <2>3 DEF ByteFree, Covers
    <3>2. Covers(free_by_offset', b) \/ b \in o..(o + n - 1)
      BY <1>0, <1>1, <1>2, <2>1, <3>1, CarveFacts
    <3> QED
      BY <1>0, <1>3, <1>7, <3>2 DEF Covers, ByteFree, ByteLive
  <2> QED
    BY <2>2, <2>3 DEF IInv, Partition, NothingLost
<1>12. CountMatches' /\ live_block_count' \in Nat
  BY <1>6, <1>7, LiveFinite, FS_AddElement DEF IInv, CountMatches, Allocate
<1>13. /\ total_allocated_bytes' \in 0..(SizeMod - 1)
       /\ DOMAIN tag_bytes' \subseteq Tags
       /\ tag_bytes' \in [DOMAIN tag_bytes' -> 0..(SizeMod - 1)]
  BY AlignmentAssumption, RequestAssumption DEF IInv, TypeOK, Allocate, Put, Get
<1>14. /\ DOMAIN tag_blocks' \subseteq Tags
       /\ tag_blocks' \in [DOMAIN tag_blocks' -> Nat \ {0}]
       /\ releasing' \in Tags \cup {NoTag}
  BY DEF IInv, TypeOK, Allocate, Put, Get
<1> QED
  <2>1. Partition' /\ Coalesced' /\ DOMAIN free_by_offset' \subseteq Offsets
        /\ (\A x \in DOMAIN free_by_offset' : free_by_offset'[x] \in 1..Capacity)
        /\ free_by_offset' = [x \in DOMAIN free_by_offset' |-> free_by_offset'[x]]
    BY <1>8, <1>9, <1>10, <1>11, CapacityFacts
       DEF Partition, InArena, FreeApart, Coalesced, GoodList, GoodLive, Offsets
  <2> QED
    BY <2>1, <1>9, <1>12, <1>13, <1>14 DEF IInv, TypeOK, GoodLive, Offsets

\* Taking a live block back: its bytes join the free list.  release and every
\* iteration of release_all do this, and differ only in the per-tag totals.
LEMMA ReclaimIInv ==
    ASSUME IInv, NEW o \in DOMAIN live, Reclaim(o),
           DOMAIN tag_bytes' \subseteq Tags,
           tag_bytes' \in [DOMAIN tag_bytes' -> 0..(SizeMod - 1)],
           DOMAIN tag_blocks' \subseteq Tags,
           tag_blocks' \in [DOMAIN tag_blocks' -> Nat \ {0}],
           releasing' = releasing
    PROVE  IInv'
<1> DEFINE n == live[o].rounded_bytes
<1>1. /\ \A x \in DOMAIN live : x \in Nat /\ live[x].rounded_bytes \in Nat \ {0}
      /\ o \in Nat /\ n \in Nat \ {0} /\ o + n =< Capacity
  BY LiveFinite DEF IInv, Partition, InArena
<1>2. GoodList(free_by_offset)
  BY GoodFree DEF IInv
<1>3. \A x \in DOMAIN free_by_offset : Apart(o, n, x, free_by_offset[x])
  BY DEF IInv, Partition, FreeLiveApart, Apart
<1>4. free_by_offset' = free_span(free_by_offset, o, n)
  BY DEF Reclaim
<1>5. /\ DOMAIN live' = DOMAIN live \ {o}
      /\ \A x \in DOMAIN live \ {o} : live'[x] = live[x]
      /\ live' = [x \in DOMAIN live' |-> live'[x]]
  BY DEF Reclaim, Erase
<1> HIDE DEF n
<1>6. GoodList(free_by_offset)'
  BY <1>1, <1>2, <1>3, <1>4, FreeSpanFacts DEF GoodList, Apart
<1>7. GoodLive'
  <2>1. \A x \in DOMAIN live' : live'[x] \in AllocRecord
    BY <1>5 DEF IInv, TypeOK
  <2>2. \A x \in DOMAIN live' : x + live'[x].rounded_bytes =< Capacity
    BY <1>5 DEF IInv, Partition, InArena
  <2>3. LiveApart'
    BY <1>5 DEF LiveApart, Apart, IInv, Partition
  <2> QED
    BY <1>5, <2>1, <2>2, <2>3 DEF GoodLive, IInv, TypeOK, Offsets, Capacity, AllocRecord
<1>8. FreeLiveApart'
  <2> SUFFICES ASSUME NEW y \in DOMAIN live'
               PROVE  \A x \in DOMAIN free_by_offset' :
                         Apart(x, free_by_offset'[x], y, live'[y].rounded_bytes)
    BY DEF FreeLiveApart, Apart
  <2> DEFINE m == live[y].rounded_bytes
  <2>1. y \in DOMAIN live /\ y # o /\ live'[y].rounded_bytes = m
    BY <1>5
  <2>2. y \in Nat /\ m \in Nat /\ m > 0
    BY <1>1, <2>1
  <2>3. Apart(o, n, y, m)
    BY <2>1 DEF n, IInv, Partition, LiveApart
  <2>4. \A x \in DOMAIN free_by_offset : Apart(x, free_by_offset[x], y, m)
    BY <2>1 DEF IInv, Partition, FreeLiveApart
  <2> HIDE DEF m
  <2> QED
    BY <1>1, <1>2, <1>3, <1>4, <2>1, <2>2, <2>3, <2>4, FreeSpanFacts
<1>9. NothingLost'
  <2> SUFFICES ASSUME NEW b \in 0..(Capacity - 1) PROVE (ByteFree(b) \/ ByteLive(b))'
    BY DEF NothingLost, Capacity
  <2>1. b \in Nat
    BY CapacityFacts
  <2>2. CASE Covers(free_by_offset, b) \/ b \in o..(o + n - 1)
    <3>1. Covers(free_by_offset', b)
      BY <1>1, <1>2, <1>3, <1>4, <2>1, <2>2, FreeSpanFacts
    <3> QED
      BY <3>1 DEF Covers, ByteFree
  <2>3. CASE ~(Covers(free_by_offset, b) \/ b \in o..(o + n - 1))
    <3>1. PICK x \in DOMAIN live : x =< b /\ b < x + live[x].rounded_bytes
      BY <2>3 DEF IInv, Partition, NothingLost, ByteFree, ByteLive, Covers
    <3>2. x # o
      BY <1>1, <2>1, <2>3, <3>1 DEF n
    <3> QED
      BY <1>5, <3>1, <3>2 DEF ByteLive
  <2> QED
    BY <2>2, <2>3
<1>10. CountMatches' /\ live_block_count' \in Nat
  <2>1. Cardinality(DOMAIN live \ {o}) = Cardinality(DOMAIN live) - 1
        /\ Cardinality(DOMAIN live \ {o}) \in Nat
    BY LiveFinite, FS_RemoveElement, FS_CardinalityType DEF IInv
  <2> QED
    BY <1>5, <2>1 DEF IInv, CountMatches, Reclaim
<1>11. total_allocated_bytes' \in 0..(SizeMod - 1)
  <2>1. live[o].requested_bytes \in Int /\ total_allocated_bytes \in Int
    BY RequestAssumption, AlignmentAssumption DEF IInv, TypeOK, AllocRecord
  <2> QED
    BY <2>1, AlignmentAssumption DEF Reclaim
<1>12. Partition' /\ Coalesced' /\ DOMAIN free_by_offset' \subseteq Offsets
       /\ (\A x \in DOMAIN free_by_offset' : free_by_offset'[x] \in 1..Capacity)
       /\ free_by_offset' = [x \in DOMAIN free_by_offset' |-> free_by_offset'[x]]
  BY <1>6, <1>7, <1>8, <1>9, CapacityFacts
     DEF Partition, InArena, FreeApart, Coalesced, GoodList, GoodLive, Offsets
<1> QED
  BY <1>7, <1>10, <1>11, <1>12 DEF IInv, TypeOK, GoodLive, Offsets

\* m[k] -= n keeps a per-tag map well typed.
LEMMA DeductFacts ==
    ASSUME NEW m, DOMAIN m \subseteq Tags, m \in [DOMAIN m -> Nat],
           NEW k \in Tags, NEW n \in Nat
    PROVE  /\ DOMAIN Deduct(m, k, n) \subseteq Tags
           /\ (\A x \in DOMAIN m : m[x] < SizeMod)
              => Deduct(m, k, n) \in [DOMAIN Deduct(m, k, n) -> 0..(SizeMod - 1)]
           /\ (\A x \in DOMAIN m : m[x] # 0)
              => Deduct(m, k, n) \in [DOMAIN Deduct(m, k, n) -> Nat \ {0}]
<1>1. CASE k \notin DOMAIN m
  BY <1>1, AlignmentAssumption DEF Deduct
<1>2. CASE k \in DOMAIN m
  <2> DEFINE r == (m[k] - n) % SizeMod
  <2>1. r \in 0..(SizeMod - 1)
    BY <1>2, AlignmentAssumption
  <2>2. CASE r = 0
    BY <1>2, <2>2, AlignmentAssumption DEF Deduct, Erase
  <2>3. CASE r # 0
    <3>1. Deduct(m, k, n) = [m EXCEPT ![k] = r]
      BY <1>2, <2>3 DEF Deduct
    <3> HIDE DEF r
    <3> QED
      BY <1>2, <2>1, <2>3, <3>1, AlignmentAssumption
  <2> QED
    BY <2>2, <2>3
<1> QED
  BY <1>1, <1>2

\* Every call, and every iteration of release_all, preserves the invariant.
LEMMA NextIInv == IInv /\ [Next]_vars => IInv'
<1> SUFFICES ASSUME IInv, [Next]_vars PROVE IInv'
  OBVIOUS
<1>1. ASSUME NEW bytes \in Requests, NEW t \in Tags, Allocate(bytes, t) PROVE IInv'
  BY <1>1, AllocateIInv
<1>2. ASSUME NEW o \in DOMAIN live, Release(o) PROVE IInv'
  <2>1. live[o].tag \in Tags /\ live[o].requested_bytes \in Nat
    BY RequestAssumption, AlignmentAssumption DEF IInv, TypeOK, AllocRecord
  <2>2. /\ DOMAIN tag_bytes' \subseteq Tags
        /\ tag_bytes' \in [DOMAIN tag_bytes' -> 0..(SizeMod - 1)]
    <3>1. tag_bytes \in [DOMAIN tag_bytes -> Nat] /\ DOMAIN tag_bytes \subseteq Tags
          /\ \A x \in DOMAIN tag_bytes : tag_bytes[x] < SizeMod
      BY AlignmentAssumption DEF IInv, TypeOK
    <3> QED
      BY <1>2, <2>1, <3>1, DeductFacts DEF Release
  <2>3. /\ DOMAIN tag_blocks' \subseteq Tags
        /\ tag_blocks' \in [DOMAIN tag_blocks' -> Nat \ {0}]
    <3>1. tag_blocks \in [DOMAIN tag_blocks -> Nat] /\ DOMAIN tag_blocks \subseteq Tags
          /\ \A x \in DOMAIN tag_blocks : tag_blocks[x] # 0
      BY DEF IInv, TypeOK
    <3> QED
      BY <1>2, <2>1, <3>1, DeductFacts DEF Release
  <2> QED
    BY <1>2, <2>2, <2>3, ReclaimIInv DEF Release
<1>3. ASSUME NEW o \in DOMAIN live, ReleaseAllStep(o) PROVE IInv'
  BY <1>3, ReclaimIInv DEF ReleaseAllStep, IInv, TypeOK
<1>4. ASSUME NEW t \in Tags, ReleaseAllBegin(t) PROVE IInv'
  BY <1>4 DEF ReleaseAllBegin, stats, IInv, TypeOK, Partition, InArena, FreeApart,
              LiveApart, FreeLiveApart, NothingLost, ByteFree, ByteLive, Coalesced,
              CountMatches, Offsets, AllocRecord
<1>5. CASE ReleaseAllEnd
  <2>1. /\ DOMAIN tag_bytes' \subseteq Tags
        /\ tag_bytes' \in [DOMAIN tag_bytes' -> 0..(SizeMod - 1)]
        /\ DOMAIN tag_blocks' \subseteq Tags
        /\ tag_blocks' \in [DOMAIN tag_blocks' -> Nat \ {0}]
    BY <1>5 DEF ReleaseAllEnd, Erase, IInv, TypeOK
  <2> QED
    BY <1>5, <2>1 DEF ReleaseAllEnd, IInv, TypeOK, Partition, InArena, FreeApart,
              LiveApart, FreeLiveApart, NothingLost, ByteFree, ByteLive, Coalesced,
              CountMatches, Offsets, AllocRecord
<1>6. CASE UNCHANGED vars
  BY <1>6 DEF vars, stats, IInv, TypeOK, Partition, InArena, FreeApart,
              LiveApart, FreeLiveApart, NothingLost, ByteFree, ByteLive, Coalesced,
              CountMatches, Offsets, AllocRecord
<1> QED
  BY <1>1, <1>2, <1>3, <1>4, <1>5, <1>6
     DEF Next, ReleaseAllLoop, AllocateFails, ReleaseIgnored

\* IInv holds in every reachable state of every instance.
THEOREM Invariance == Spec => []IInv
BY InitIInv, NextIInv, PTL DEF Spec

\* The types of the allocator's maps and counters.
THEOREM TypeCorrect == Spec => []TypeOK
BY Invariance, PTL DEF IInv

\* The free spans and the live blocks partition the arena, for every arena size
\* and every sequence of allocate, release and release_all.
THEOREM ArenaPartitioned == Spec => []Partition
BY Invariance, PTL DEF IInv

\* The free list stays coalesced.
THEOREM AlwaysCoalesced == Spec => []Coalesced
BY Invariance, PTL DEF IInv

-----------------------------------------------------------------------------
(* What follows from the partition                                          *)

\* In a partitioned, coalesced arena a vacant run lies inside one free span.
LEMMA VacantRunInOneSpan ==
    ASSUME IInv, NEW o \in Offsets, NEW n \in Nat \ {0}, A!Vacant(o, n)
    PROVE  \E x \in DOMAIN free_by_offset : free_by_offset[x] >= n
<1> USE CapacityFacts DEF Offsets
<1>1. o \in Nat /\ o + n =< Capacity
      /\ \A b \in o..(o + n - 1) : b \in 0..(Capacity - 1) /\ ~ByteLive(b)
  BY LiveFinite DEF IInv, ByteLive, A!Vacant
<1>2. PICK x \in DOMAIN free_by_offset : x =< o /\ o < x + free_by_offset[x]
  BY <1>1 DEF IInv, Partition, NothingLost, ByteFree
<1>3. x \in Nat /\ free_by_offset[x] \in Nat
  BY DEF IInv, TypeOK
<1>4. ASSUME free_by_offset[x] < n PROVE FALSE
  <2> DEFINE e == x + free_by_offset[x]
  <2>1. e \in o..(o + n - 1)
    BY <1>1, <1>2, <1>3, <1>4
  <2>2. PICK y \in DOMAIN free_by_offset : y =< e /\ e < y + free_by_offset[y]
    BY <1>1, <2>1 DEF IInv, Partition, NothingLost, ByteFree
  <2>3. y \in Nat /\ free_by_offset[y] \in Nat
    BY DEF IInv, TypeOK
  <2>4. y # x /\ Apart(x, free_by_offset[x], y, free_by_offset[y])
    BY <1>3, <2>2, <2>3 DEF IInv, Partition, FreeApart
  <2>5. y = e
    BY <1>2, <1>3, <2>2, <2>3, <2>4 DEF Apart
  <2> QED
    BY <2>5 DEF IInv, Coalesced
<1> QED
  BY <1>3, <1>4

\* allocate reports exhaustion only when no vacant run holds the request.
THEOREM NoFalseExhaustion == Spec => []RefusedOnlyWhenFull
<1>1. IInv => RefusedOnlyWhenFull
  <2> SUFFICES ASSUME IInv, NEW bytes \in Requests, NEW o \in Offsets,
                      \A x \in DOMAIN free_by_offset : free_by_offset[x] < needed(bytes),
                      A!Vacant(o, needed(bytes))
               PROVE  FALSE
    BY DEF RefusedOnlyWhenFull
  <2>1. needed(bytes) \in Nat \ {0}
    BY NeededFacts
  <2>2. PICK x \in DOMAIN free_by_offset : free_by_offset[x] >= needed(bytes)
    BY <2>1, VacantRunInOneSpan
  <2> QED
    BY <2>1, <2>2, CapacityFacts DEF IInv, TypeOK
<1> QED
  BY <1>1, Invariance, PTL

-----------------------------------------------------------------------------
(* Alignment                                                                *)

\* Multiples of kAlignment are closed under sum and difference.
LEMMA AlignedSum ==
    ASSUME NEW m \in Nat, NEW n \in Nat, Aligned(m), Aligned(n)
    PROVE  Aligned(m + n) /\ (m >= n => Aligned(m - n))
<1>1. PICK p \in 0..m : m = p * kAlignment
  BY DEF Aligned
<1>2. PICK q \in 0..n : n = q * kAlignment
  BY DEF Aligned
<1>3. /\ p \in Nat /\ q \in Nat
      /\ (p + q) * kAlignment = m + n
      /\ (p - q) * kAlignment = m - n
  BY <1>1, <1>2, AlignmentAssumption
<1>4. Aligned(m + n)
  BY <1>1, <1>2, <1>3 DEF Aligned
<1>5. ASSUME m >= n PROVE Aligned(m - n)
  <2>1. p - q >= 0
    BY <1>1, <1>2, <1>3, <1>5, AlignmentAssumption, SMT
  <2>2. p - q =< (p - q) * kAlignment
    BY <1>3, <2>1, AlignmentAssumption, SMT
  <2> QED
    BY <1>3, <2>1, <2>2 DEF Aligned
<1> QED
  BY <1>4, <1>5

\* Splitting and merging spans keeps them aligned.
LEMMA FreeSpanAligned ==
    ASSUME NEW f, GoodList(f), \A x \in DOMAIN f : Aligned(x) /\ Aligned(f[x]),
           NEW o \in Nat, NEW s \in Nat, Aligned(o), Aligned(s), o \notin DOMAIN f
    PROVE  \A x \in DOMAIN free_span(f, o, s) :
              Aligned(x) /\ Aligned(free_span(f, o, s)[x])
<1> DEFINE P == {p \in DOMAIN f : p + f[p] = o}
           N == o + s \in DOMAIN f
           grown == IF N THEN Put(Erase(f, o + s), o, s + f[o + s]) ELSE Put(f, o, s)
<1>1. \A x \in DOMAIN f : f[x] \in Nat
  BY DEF GoodList
<1>2. /\ o \in DOMAIN grown /\ grown[o] \in Nat
      /\ \A x \in DOMAIN grown : Aligned(x) /\ Aligned(grown[x])
  <2>1. CASE N
    <3> DEFINE m == f[o + s]
    <3>0. m \in Nat /\ Aligned(m)
      BY <1>1, <2>1
    <3> HIDE DEF m
    <3>1. Aligned(s + m) /\ s + m \in Nat
      BY <3>0, AlignedSum
    <3> USE DEF m
    <3> QED
      BY <2>1, <3>1 DEF Put, Erase
  <2>2. CASE ~N
    BY <2>2 DEF Put
  <2> QED
    BY <2>1, <2>2
<1>3. CASE P = {}
  BY <1>2, <1>3 DEF free_span
<1>4. CASE P # {}
  <2> DEFINE p == CHOOSE p \in P : TRUE
  <2>1. p \in DOMAIN f
    BY <1>4
  <2>2. free_span(f, o, s) = Put(Erase(grown, o), p, f[p] + grown[o])
    BY <1>4, Zenon DEF free_span
  <2> HIDE DEF p, grown
  <2>3. Aligned(f[p] + grown[o])
    BY <1>1, <1>2, <2>1, AlignedSum
  <2> QED
    BY <1>2, <2>1, <2>2, <2>3 DEF Put, Erase
<1> QED
  BY <1>3, <1>4

\* Every block starts on a kAlignment boundary, for every history of calls.
THEOREM BlocksAligned == Spec => []AllAligned
<1>1. Init => AllAligned
  <2>1. Aligned(0)
    BY AlignmentAssumption DEF Aligned
  <2> QED
    BY <2>1, CapacityFacts DEF Init, EmptyMap, AllAligned
<1>2. IInv /\ AllAligned /\ [Next]_vars => AllAligned'
  <2> SUFFICES ASSUME IInv, AllAligned, [Next]_vars PROVE AllAligned'
    OBVIOUS
  <2>1. GoodList(free_by_offset)
    BY GoodFree DEF IInv
  <2>2. \A x \in DOMAIN live : x \in Nat /\ live[x].rounded_bytes \in Nat \ {0}
    BY LiveFinite DEF IInv
  <2>3. ASSUME NEW bytes \in Requests, NEW t \in Tags, Allocate(bytes, t)
        PROVE  AllAligned'
    <3> DEFINE n == needed(bytes)
    <3>1. n \in Nat \ {0} /\ Aligned(n)
      BY NeededFacts
    <3>2. PICK o \in DOMAIN free_by_offset :
             /\ free_by_offset[o] >= n
             /\ free_by_offset' = Carve(o, n)
             /\ live' = Put(live, o, [rounded_bytes |-> n, requested_bytes |-> bytes, tag |-> t])
      BY <2>3 DEF Allocate, FirstFit
    <3> HIDE DEF n
    <3>3. o \in Nat /\ free_by_offset[o] \in Nat /\ Aligned(o) /\ Aligned(free_by_offset[o])
      BY <2>1 DEF GoodList, AllAligned
    <3>4. Aligned(o + n) /\ Aligned(free_by_offset[o] - n)
      BY <3>1, <3>2, <3>3, AlignedSum
    <3>5. \A x \in DOMAIN free_by_offset' : Aligned(x) /\ Aligned(free_by_offset'[x])
      BY <3>2, <3>3, <3>4 DEF AllAligned, Carve, Put, Erase
    <3>6. \A x \in DOMAIN live' : Aligned(x) /\ Aligned(live'[x].rounded_bytes)
      BY <3>1, <3>2, <3>3 DEF AllAligned, Put
    <3> QED
      BY <3>5, <3>6 DEF AllAligned, Aligned
  <2>4. ASSUME NEW o \in DOMAIN live, Reclaim(o) PROVE AllAligned'
    <3> DEFINE n == live[o].rounded_bytes
    <3>1. o \in Nat /\ n \in Nat /\ Aligned(o) /\ Aligned(n)
      BY <2>2 DEF AllAligned
    <3>2. o \notin DOMAIN free_by_offset
      BY <2>1, <2>2 DEF IInv, Partition, FreeLiveApart, Apart, GoodList
    <3>3. free_by_offset' = free_span(free_by_offset, o, n)
      BY <2>4 DEF Reclaim
    <3> HIDE DEF n
    <3>4. \A x \in DOMAIN free_by_offset' : Aligned(x) /\ Aligned(free_by_offset'[x])
      BY <2>1, <3>1, <3>2, <3>3, FreeSpanAligned DEF AllAligned
    <3>5. \A x \in DOMAIN live' : Aligned(x) /\ Aligned(live'[x].rounded_bytes)
      BY <2>4 DEF Reclaim, Erase, AllAligned
    <3> QED
      BY <3>4, <3>5 DEF AllAligned, Aligned
  <2>5. CASE UNCHANGED <<free_by_offset, live>>
    BY <2>5 DEF AllAligned, Aligned
  <2> QED
    BY <2>3, <2>4, <2>5
       DEF Next, vars, AllocateFails, Release, ReleaseIgnored, ReleaseAllBegin,
           ReleaseAllLoop, ReleaseAllStep, ReleaseAllEnd
<1> QED
  BY <1>1, <1>2, Invariance, PTL DEF Spec

-----------------------------------------------------------------------------
(* Block sizes, and the abstract arena                                      *)

\* Every block holds its request, provided no request is so large that rounding
\* it up wraps around size_t: round_up has no check for that.
THEOREM RequestsFit ==
    ASSUME \A bytes \in Requests : bytes + (kAlignment - 1) < SizeMod
    PROVE  Spec => []BlockHoldsRequest
<1>1. Init => BlockHoldsRequest
  BY DEF Init, EmptyMap, BlockHoldsRequest
<1>2. BlockHoldsRequest /\ [Next]_vars => BlockHoldsRequest'
  <2> SUFFICES ASSUME BlockHoldsRequest, [Next]_vars PROVE BlockHoldsRequest'
    OBVIOUS
  <2>1. ASSUME NEW bytes \in Requests, NEW t \in Tags, Allocate(bytes, t)
        PROVE  BlockHoldsRequest'
    <3>1. bytes =< needed(bytes)
      BY NeededFacts
    <3> QED
      BY <2>1, <3>1 DEF Allocate, Put, BlockHoldsRequest
  <2>2. ASSUME NEW o \in DOMAIN live, Reclaim(o) PROVE BlockHoldsRequest'
    BY <2>2 DEF Reclaim, Erase, BlockHoldsRequest
  <2>3. CASE UNCHANGED live
    BY <2>3 DEF BlockHoldsRequest
  <2> QED
    BY <2>1, <2>2, <2>3
       DEF Next, vars, AllocateFails, Release, ReleaseIgnored, ReleaseAllBegin,
           ReleaseAllLoop, ReleaseAllStep, ReleaseAllEnd
<1> QED
  BY <1>1, <1>2, PTL DEF Spec

\* The allocator implements Arena: every grant lies in vacant bytes, and a bulk
\* release frees the blocks of its tag and no others.
THEOREM Refinement == Spec => ImplementsArena
<1>1. Init => A!Init
  BY DEF Init, A!Init, EmptyMap, A!EmptyMap
<1>2. IInv /\ [Next]_vars => [A!Next]_A!vars
  <2> SUFFICES ASSUME IInv, [Next]_vars PROVE A!Next \/ UNCHANGED A!vars
    OBVIOUS
  <2>1. ASSUME NEW bytes \in Requests, NEW t \in Tags, Allocate(bytes, t)
        PROVE  A!Grant(bytes, t)
    <3> DEFINE n == needed(bytes)
    <3>1. n \in Nat \ {0}
      BY NeededFacts
    <3>2. PICK o \in DOMAIN free_by_offset :
             /\ free_by_offset[o] >= n
             /\ live' = Put(live, o, [rounded_bytes |-> n, requested_bytes |-> bytes, tag |-> t])
      BY <2>1 DEF Allocate, FirstFit
    <3>3. o \in 0..Capacity /\ A!Vacant(o, n)
      <4>1. o \in Nat /\ free_by_offset[o] \in Nat /\ o + free_by_offset[o] =< Capacity
        BY GoodFree DEF IInv, GoodList
      <4>2. \A x \in DOMAIN live : x \in Nat /\ live[x].rounded_bytes \in Nat \ {0}
        BY LiveFinite DEF IInv
      <4>3. \A x \in DOMAIN live : o + n =< x \/ x + live[x].rounded_bytes =< o
        BY <3>1, <3>2, <4>1, <4>2 DEF IInv, Partition, FreeLiveApart, Apart
      <4> QED
        BY <3>1, <3>2, <4>1, <4>3, CapacityFacts DEF A!Vacant
    <3>4. releasing = NoTag /\ releasing' = releasing
      BY <2>1 DEF Allocate
    <3> QED
      BY <3>2, <3>3, <3>4 DEF A!Grant, Put, A!Put
  <2>2. ASSUME NEW o \in DOMAIN live, Release(o) PROVE A!Free(o)
    BY <2>2 DEF Release, Reclaim, Erase, A!Free, A!Erase
  <2>3. ASSUME NEW o \in DOMAIN live, ReleaseAllStep(o) PROVE A!Free(o)
    BY <2>3 DEF ReleaseAllStep, Reclaim, Erase, A!Free, A!Erase
  <2>4. ASSUME NEW t \in Tags, ReleaseAllBegin(t) PROVE A!StartFreeAll(t)
    BY <2>4 DEF ReleaseAllBegin, A!StartFreeAll
  <2>5. CASE ReleaseAllEnd
    BY <2>5 DEF ReleaseAllEnd, A!EndFreeAll, A!Next
  <2>6. CASE UNCHANGED vars
    BY <2>6 DEF vars, A!vars
  <2> QED
    BY <2>1, <2>2, <2>3, <2>4, <2>5, <2>6
       DEF Next, ReleaseAllLoop, AllocateFails, ReleaseIgnored, A!Next
<1> QED
  BY <1>1, <1>2, Invariance, PTL DEF Spec, ImplementsArena, A!Spec

-----------------------------------------------------------------------------
(* The totals                                                               *)

\* What the blocks of S asked for, in sum; l is a table of live blocks.
Requested(l, S) == MapThenSumSet(LAMBDA o : l[o].requested_bytes, S)

Bytes(l, S) == \A o \in S : l[o].requested_bytes \in Nat

Any(M) == CHOOSE o \in M : TRUE

\* f is the sum, by recursion over the subsets of S.
Summing(f, l, S) ==
    /\ f \in [SUBSET S -> Nat]
    /\ f[{}] = 0
    /\ \A M \in SUBSET S : M # {} =>
          f[M] = l[Any(M)].requested_bytes + f[M \ {Any(M)}]

AnyOf(S) == [M \in SUBSET S |-> Any(M)]

LEMMA AnyPicks ==
    ASSUME NEW S
    PROVE  /\ Picks(AnyOf(S), S)
           /\ \A M \in SUBSET S : AnyOf(S)[M] = Any(M)
<1>1. \A M : M # {} => Any(M) \in M
  BY DEF Any
<1> QED
  BY <1>1 DEF Picks, AnyOf

LEMMA RequestedSums ==
    ASSUME NEW S, IsFiniteSet(S), NEW l, Bytes(l, S)
    PROVE  \E f : Summing(f, l, S) /\ Requested(l, S) = f[S]
<1> DEFINE Rec(f) == [M \in SUBSET S |->
                         IF M = {} THEN 0
                         ELSE l[Any(M)].requested_bytes + f[M \ {Any(M)}]]
           sum == CHOOSE f : f = Rec(f)
           F == [x \in S \X Nat |-> l[x[1]].requested_bytes + x[2]]
           p == AnyOf(S)
<1>1. Requested(l, S) = sum[S]
  BY DEF Requested, MapThenSumSet, MapThenFoldSet, Any
<1>2. F \in [S \X Nat -> Nat] /\ \A o \in S, n \in Nat : F[<<o, n>>] = l[o].requested_bytes + n
  <2>1. ASSUME NEW x \in S \X Nat PROVE l[x[1]].requested_bytes + x[2] \in Nat
    <3>1. x[1] \in S /\ x[2] \in Nat
      OBVIOUS
    <3>2. l[x[1]].requested_bytes \in Nat
      BY <3>1 DEF Bytes
    <3> QED
      BY <3>1, <3>2
  <2> QED
    BY <2>1
<1>3. Picks(p, S) /\ \A M \in SUBSET S : p[M] = Any(M)
  BY AnyPicks
<1> HIDE DEF p, F
<1>4. PICK f : Folds(f, S, p, Nat, 0, F)
  <2>1. 0 \in Nat
    OBVIOUS
  <2> HIDE DEF Rec, sum
  <2> QED
    BY <1>2, <1>3, <2>1, SubsetRecursion
<1>5. /\ f \in [SUBSET S -> Nat] /\ f[{}] = 0
      /\ \A M \in SUBSET S : M # {} => f[M] = F[<<p[M], f[M \ {p[M]}]>>]
  BY <1>4 DEF Folds
<1>6. ASSUME NEW M \in SUBSET S, M # {}
      PROVE  f[M] = l[Any(M)].requested_bytes + f[M \ {Any(M)}]
  <2>1. p[M] \in S /\ M \ {p[M]} \in SUBSET S /\ f[M \ {p[M]}] \in Nat
    BY <1>3, <1>5, <1>6 DEF Picks
  <2>2. f[M] = l[p[M]].requested_bytes + f[M \ {p[M]}]
    BY <1>2, <1>5, <1>6, <2>1
  <2> QED
    BY <1>3, <2>2
<1>7. f = Rec(f)
  <2>1. \A M \in SUBSET S : f[M] = Rec(f)[M]
    BY <1>5, <1>6
  <2> QED
    BY <1>5, <2>1
<1>8. sum = Rec(sum)
  BY <1>7
<1>9. ASSUME NEW M \in SUBSET S, M # {}
      PROVE  sum[M] = l[Any(M)].requested_bytes + sum[M \ {Any(M)}]
  BY <1>8, <1>9
<1>10. sum[{}] = 0
  BY <1>8
<1>11. sum = [M \in SUBSET S |-> sum[M]]
  <2>1. sum = [M \in SUBSET S |-> Rec(sum)[M]]
    <3> HIDE DEF sum
    <3> QED
      BY <1>8
  <2> QED
    BY <1>8, <2>1
<1> HIDE DEF sum, Rec
<1>12. \A M \in SUBSET S : sum[M] \in Nat
  <2> DEFINE P == {M \in SUBSET S : sum[M] \in Nat}
  <2>1. {} \in P
    BY <1>10
  <2>2. ASSUME NEW M \in SUBSET S, M # {}, M \ {p[M]} \in P PROVE M \in P
    <3>1. p[M] \in S /\ l[p[M]].requested_bytes \in Nat
      BY <1>3, <2>2 DEF Picks, Bytes
    <3>2. sum[M] = l[p[M]].requested_bytes + sum[M \ {p[M]}]
      BY <1>3, <1>9, <2>2
    <3> QED
      BY <2>2, <3>1, <3>2
  <2> HIDE DEF P
  <2>3. \A M \in SUBSET S : M \in P
    BY <1>3, <2>1, <2>2, SubsetInduction
  <2> QED
    BY <2>3 DEF P
<1>13. Summing(sum, l, S)
  BY <1>9, <1>10, <1>11, <1>12 DEF Summing
<1> QED
  BY <1>1, <1>13

\* In whatever order the sum is taken.
LEMMA SummingAny ==
    ASSUME NEW S, IsFiniteSet(S), NEW l, Bytes(l, S), NEW f, Summing(f, l, S)
    PROVE  \A M \in SUBSET S : \A o \in M : f[M] = l[o].requested_bytes + f[M \ {o}]
<1> DEFINE n == Cardinality(S)
           Q == {i \in 0..n : \A M \in SUBSET S : Cardinality(M) = i =>
                    \A o \in M : f[M] = l[o].requested_bytes + f[M \ {o}]}
<1>1. \A M \in SUBSET S : IsFiniteSet(M) /\ Cardinality(M) \in 0..n
  BY FS_Subset, FS_CardinalityType
<1>2. \A M \in SUBSET S : \A o \in M : Cardinality(M \ {o}) = Cardinality(M) - 1
  <2>1. ASSUME NEW M \in SUBSET S, NEW o \in M PROVE Cardinality(M \ {o}) = Cardinality(M) - 1
    <3>1. IsFiniteSet(M)
      BY <1>1
    <3> QED
      BY ONLY <3>1, o \in M, FS_RemoveElement
  <2> QED
    BY <2>1
<1>3. n \in Nat
  BY FS_CardinalityType
<1> HIDE DEF n
<1>4. 0 \in Q
  <2>1. \A M \in SUBSET S : Cardinality(M) = 0 => M = {}
    BY <1>1, FS_EmptySet
  <2> QED
    BY <1>3, <2>1
<1>5. ASSUME NEW i \in 0..(n - 1), i \in Q PROVE i + 1 \in Q
  <2>1. i + 1 \in 0..n /\ i + 1 - 1 = i
    BY <1>3
  <2>2. ASSUME NEW M \in SUBSET S, Cardinality(M) = i + 1, NEW o \in M
        PROVE  f[M] = l[o].requested_bytes + f[M \ {o}]
    <3> DEFINE x == Any(M)
               N == M \ {x, o}
    <3>1. x \in M /\ f[M] = l[x].requested_bytes + f[M \ {x}]
      <4>1. x \in M
        BY <2>2 DEF Any
      <4> QED
        BY <2>2, <4>1 DEF Summing
    <3> HIDE DEF x
    <3>2. CASE o = x
      BY <3>1, <3>2
    <3>3. CASE o # x
      <4>1. /\ M \ {x} \in SUBSET S /\ Cardinality(M \ {x}) = i /\ o \in M \ {x}
            /\ M \ {o} \in SUBSET S /\ Cardinality(M \ {o}) = i /\ x \in M \ {o}
        BY <1>2, <2>1, <2>2, <3>1, <3>3
      <4>2. /\ f[M \ {x}] = l[o].requested_bytes + f[(M \ {x}) \ {o}]
            /\ f[M \ {o}] = l[x].requested_bytes + f[(M \ {o}) \ {x}]
        BY <1>5, <4>1
      <4>3. (M \ {x}) \ {o} = N /\ (M \ {o}) \ {x} = N /\ N \in SUBSET S
        OBVIOUS
      <4>4. l[x].requested_bytes \in Nat /\ l[o].requested_bytes \in Nat /\ f[N] \in Nat
        BY <3>1, <4>3 DEF Bytes, Summing
      <4> HIDE DEF N
      <4>5. /\ f[M \ {x}] = l[o].requested_bytes + f[N]
            /\ f[M \ {o}] = l[x].requested_bytes + f[N]
        BY <4>2, <4>3
      <4> QED
        BY <3>1, <4>4, <4>5
    <3> QED
      BY <3>2, <3>3
  <2> QED
    BY <2>1, <2>2
<1> HIDE DEF Q
<1>6. \A i \in 0..n : i \in Q
  BY <1>3, <1>4, <1>5, Inductively
<1> QED
  BY <1>1, <1>6 DEF Q

\* Two tables that agree on the blocks of M.
LEMMA SummingSame ==
    ASSUME NEW M, IsFiniteSet(M), NEW S, NEW T, M \subseteq S, M \subseteq T,
           NEW l, NEW k, \A o \in M : l[o] = k[o],
           NEW f, Summing(f, l, S), NEW g, Summing(g, k, T)
    PROVE  f[M] = g[M]
<1> DEFINE p == AnyOf(M)
           P == {N \in SUBSET M : f[N] = g[N]}
<1>1. Picks(p, M) /\ \A N \in SUBSET M : p[N] = Any(N)
  BY AnyPicks
<1> HIDE DEF p
<1>2. {} \in P
  BY DEF Summing
<1>3. ASSUME NEW N \in SUBSET M, N # {}, N \ {p[N]} \in P PROVE N \in P
  <2>1. p[N] \in M /\ l[p[N]] = k[p[N]]
    BY <1>1, <1>3 DEF Picks
  <2>2. p[N] = Any(N) /\ N \in SUBSET S /\ N \in SUBSET T
    BY <1>1
  <2>3. f[N] = l[p[N]].requested_bytes + f[N \ {p[N]}]
    BY <1>3, <2>2 DEF Summing
  <2>4. g[N] = k[p[N]].requested_bytes + g[N \ {p[N]}]
    BY <1>3, <2>2 DEF Summing
  <2> QED
    BY <1>3, <2>1, <2>3, <2>4
<1> HIDE DEF P
<1>4. \A N \in SUBSET M : N \in P
  BY <1>1, <1>2, <1>3, SubsetInduction
<1> QED
  BY <1>4 DEF P

LEMMA RequestedIs ==
    ASSUME NEW S, IsFiniteSet(S), NEW l, Bytes(l, S)
    PROVE  /\ Requested(l, S) \in Nat
           /\ S = {} => Requested(l, S) = 0
           /\ \A o \in S : Requested(l, S) = l[o].requested_bytes + Requested(l, S \ {o})
           /\ \A k : (\A o \in S : k[o] = l[o]) => Requested(k, S) = Requested(l, S)
<1>1. PICK f : Summing(f, l, S) /\ Requested(l, S) = f[S]
  BY RequestedSums
<1>2. f[S] \in Nat /\ f[{}] = 0
  BY <1>1 DEF Summing
<1>3. ASSUME NEW o \in S PROVE Requested(l, S) = l[o].requested_bytes + Requested(l, S \ {o})
  <2> DEFINE T == S \ {o}
  <2>1. T \subseteq S /\ IsFiniteSet(T) /\ Bytes(l, T)
    BY FS_Subset DEF Bytes
  <2>2. f[S] = l[o].requested_bytes + f[T]
    BY <1>1, SummingAny
  <2> HIDE DEF T
  <2>3. PICK g : Summing(g, l, T) /\ Requested(l, T) = g[T]
    BY <2>1, RequestedSums
  <2>4. f[T] = g[T]
    BY <1>1, <2>1, <2>3, SummingSame
  <2> QED
    BY <1>1, <2>2, <2>3, <2>4 DEF T
<1>4. ASSUME NEW k, \A o \in S : k[o] = l[o] PROVE Requested(k, S) = Requested(l, S)
  <2>1. Bytes(k, S)
    BY <1>4 DEF Bytes
  <2>2. PICK g : Summing(g, k, S) /\ Requested(k, S) = g[S]
    BY <2>1, RequestedSums
  <2>3. f[S] = g[S]
    BY <1>1, <1>4, <2>2, SummingSame
  <2> QED
    BY <1>1, <2>2, <2>3
<1> QED
  BY <1>1, <1>2, <1>3, <1>4

\* Blocks that share no byte and lie below c ask for at most c bytes in sum.
LEMMA RequestedBelow ==
    ASSUME NEW S \in SUBSET Nat, IsFiniteSet(S), NEW l, Bytes(l, S), NEW c \in Nat,
           \A o \in S : o + l[o].requested_bytes =< c,
           \A o, x \in S : o # x => Apart(o, l[o].requested_bytes, x, l[x].requested_bytes)
    PROVE  Requested(l, S) =< c
<1> DEFINE last == [M \in SUBSET S |-> CHOOSE o \in M : \A x \in M : x =< o]
           P == {M \in SUBSET S : \A d \in Nat :
                   (\A o \in M : o + l[o].requested_bytes =< d) => Requested(l, M) =< d}
<1>1. ASSUME NEW M \in SUBSET S, M # {}
      PROVE  last[M] \in M /\ \A x \in M : x =< last[M]
  <2> DEFINE R == {c - x : x \in M}
  <2>1. \A x \in M : x \in Nat /\ c - x \in Nat
    BY DEF Bytes
  <2>2. R \in SUBSET Nat /\ R # {}
    BY <1>1, <2>1
  <2> HIDE DEF R
  <2>3. PICK r \in R : \A k \in R : r =< k
    BY <2>2, LeastIn
  <2>4. PICK o \in M : r = c - o
    BY <2>3 DEF R
  <2>5. ASSUME NEW x \in M PROVE x =< o
    <3>1. r =< c - x
      BY <2>3 DEF R
    <3> QED
      BY <2>1, <2>4, <3>1
  <2> QED
    BY <2>5
<1>2. Picks(last, S)
  BY <1>1 DEF Picks
<1>3. \A M \in SUBSET S : IsFiniteSet(M) /\ Bytes(l, M)
  BY FS_Subset DEF Bytes
<1> HIDE DEF last
<1>4. {} \in P
  <2>1. Requested(l, {}) = 0
    BY <1>3, RequestedIs
  <2> QED
    BY <2>1
<1>5. ASSUME NEW M \in SUBSET S, M # {}, M \ {last[M]} \in P PROVE M \in P
  <2> DEFINE o == last[M]
             n == l[o].requested_bytes
             N == M \ {o}
  <2>1. o \in M /\ o \in Nat /\ n \in Nat /\ \A x \in M : x =< o
    BY <1>1, <1>5 DEF Bytes
  <2>2. Requested(l, M) = n + Requested(l, N) /\ Requested(l, N) \in Nat
    BY <1>3, <2>1, RequestedIs
  <2>3. ASSUME NEW d \in Nat, \A x \in M : x + l[x].requested_bytes =< d
        PROVE  Requested(l, M) =< d
    <3>1. o + n =< d
      BY <2>1, <2>3
    <3>2. ASSUME NEW x \in N PROVE x + l[x].requested_bytes =< o
      <4>1. x \in Nat /\ l[x].requested_bytes \in Nat /\ x < o
        BY <2>1 DEF Bytes
      <4>2. Apart(x, l[x].requested_bytes, o, n)
        BY <2>1
      <4> HIDE DEF o, n
      <4> QED
        BY <2>1, <4>1, <4>2 DEF Apart
    <3>3. Requested(l, N) =< o
      BY <1>5, <2>1, <3>2
    <3> HIDE DEF o, n, N
    <3> QED
      BY <2>1, <2>2, <3>1, <3>3
  <2> QED
    BY <2>3
<1> HIDE DEF P
<1>6. S \in P
  BY <1>2, <1>4, <1>5, SubsetInduction
<1> QED
  BY <1>6 DEF P

\* A table of blocks as the invariants leave it.
Fitting(l) ==
    /\ DOMAIN l \subseteq Offsets
    /\ \A o \in DOMAIN l : /\ l[o].requested_bytes \in Nat /\ l[o].rounded_bytes \in Nat
                           /\ l[o].requested_bytes =< l[o].rounded_bytes
                           /\ o + l[o].rounded_bytes =< Capacity
    /\ \A o, x \in DOMAIN l : o # x => Apart(o, l[o].rounded_bytes, x, l[x].rounded_bytes)

\* The blocks are few and small enough for size_t to count them.
LEMMA CountsFit ==
    ASSUME NEW l, Fitting(l), NEW S \in SUBSET DOMAIN l
    PROVE  /\ IsFiniteSet(S) /\ Bytes(l, S) /\ Requested(l, S) \in 0..(SizeMod - 1)
           /\ Cardinality(S) \in 0..SizeMod
<1>1. S \in SUBSET Nat /\ S \in SUBSET Offsets /\ Capacity \in Nat /\ Capacity < SizeMod
  BY CapacityFacts DEF Fitting, Offsets
<1>2. IsFiniteSet(Offsets) /\ Cardinality(Offsets) = Capacity + 1
  BY <1>1, FS_Interval DEF Offsets
<1>3. IsFiniteSet(S) /\ Cardinality(S) =< Capacity + 1 /\ Cardinality(S) \in Nat
  BY <1>1, <1>2, FS_Subset, FS_CardinalityType
<1>4. \A o \in S : o \in Nat /\ l[o].requested_bytes \in Nat
                   /\ l[o].rounded_bytes \in Nat /\ l[o].requested_bytes =< l[o].rounded_bytes
                   /\ o + l[o].rounded_bytes =< Capacity
  BY <1>1 DEF Fitting
<1>5. Bytes(l, S)
  BY <1>4 DEF Bytes
<1>6. ASSUME NEW o \in S, NEW x \in S, o # x
      PROVE  Apart(o, l[o].requested_bytes, x, l[x].requested_bytes)
  <2>1. Apart(o, l[o].rounded_bytes, x, l[x].rounded_bytes)
    BY <1>6 DEF Fitting
  <2> QED
    BY <1>4, <2>1 DEF Apart
<1>7. \A o \in S : o + l[o].requested_bytes =< Capacity
  BY <1>1, <1>4
<1>8. Requested(l, S) =< Capacity
  BY <1>1, <1>3, <1>5, <1>6, <1>7, RequestedBelow
<1>9. Requested(l, S) \in Nat
  BY <1>3, <1>5, RequestedIs
<1> QED
  BY <1>1, <1>3, <1>5, <1>8, <1>9, AlignmentAssumption

\* k is the table l with a block more, at o.
OneMore(l, k, o) ==
    /\ o \notin DOMAIN l /\ DOMAIN k = DOMAIN l \cup {o}
    /\ \A x \in DOMAIN l : k[x] = l[x]

LEMMA OneMoreCounts ==
    ASSUME NEW l, NEW k, Fitting(k), NEW o, OneMore(l, k, o), NEW S \in SUBSET DOMAIN l
    PROVE  /\ Requested(k, S) = Requested(l, S)
           /\ Requested(k, S \cup {o}) = Requested(l, S) + k[o].requested_bytes
           /\ Cardinality(S \cup {o}) = Cardinality(S) + 1
<1>1. /\ S \in SUBSET DOMAIN k /\ S \cup {o} \in SUBSET DOMAIN k
      /\ o \notin S /\ (S \cup {o}) \ {o} = S
  BY DEF OneMore
<1>2. /\ IsFiniteSet(S) /\ Bytes(k, S)
      /\ IsFiniteSet(S \cup {o}) /\ Bytes(k, S \cup {o})
  BY <1>1, CountsFit
<1>3. Requested(k, S) = Requested(l, S) /\ Requested(k, S) \in Nat
  <2>1. \A x \in S : l[x] = k[x]
    BY DEF OneMore
  <2> QED
    BY <1>2, <2>1, RequestedIs
<1>4. Requested(k, S \cup {o}) = k[o].requested_bytes + Requested(k, S)
  <2>1. o \in S \cup {o}
    OBVIOUS
  <2> QED
    BY <1>1, <1>2, <2>1, RequestedIs
<1>5. k[o].requested_bytes \in Nat
  BY <1>2 DEF Bytes
<1>6. Cardinality(S \cup {o}) = Cardinality(S) + 1
  BY <1>1, <1>2, FS_AddElement
<1> QED
  BY <1>3, <1>4, <1>5, <1>6

Tagged(l, t) == {o \in DOMAIN l : l[o].tag = t}

LEMMA OneMoreTagged ==
    ASSUME NEW l, NEW k, NEW o, OneMore(l, k, o), NEW t
    PROVE  /\ Tagged(l, t) \in SUBSET DOMAIN l
           /\ Tagged(k, t) = IF k[o].tag = t THEN Tagged(l, t) \cup {o} ELSE Tagged(l, t)
BY DEF OneMore, Tagged

\* The totals of TotalsMatch, as numbers that have not wrapped.
Counts ==
    /\ total_allocated_bytes = Requested(live, DOMAIN live)
    /\ \A t \in Tags \ {releasing} :
          /\ Get(tag_blocks, t) = Cardinality(Tagged(live, t))
          /\ Get(tag_bytes, t) = Requested(live, Tagged(live, t))

TInv == IInv /\ BlockHoldsRequest /\ Counts

LEMMA FittingLive == ASSUME IInv, BlockHoldsRequest PROVE Fitting(live)
<1>1. \A o \in DOMAIN live : live[o].requested_bytes \in Nat /\ live[o].rounded_bytes \in Nat
  BY RequestAssumption, AlignmentAssumption, CapacityFacts DEF IInv, TypeOK, AllocRecord
<1> QED
  BY <1>1 DEF Fitting, IInv, TypeOK, Partition, InArena, LiveApart, BlockHoldsRequest

LEMMA SmallRemainder == \A n \in 0..(SizeMod - 1) : n % SizeMod = n
BY AlignmentAssumption

\* operator[], and the entry that is erased when it reaches 0.
LEMMA GetPut ==
    ASSUME NEW m, NEW k, NEW v, NEW x
    PROVE  Get(Put(m, k, v), x) = IF x = k THEN v ELSE Get(m, x)
BY DEF Get, Put

LEMMA GetErase ==
    ASSUME NEW m, NEW k, NEW x
    PROVE  Get(Erase(m, k), x) = IF x = k THEN 0 ELSE Get(m, x)
BY DEF Get, Erase

LEMMA GetDeduct ==
    ASSUME NEW m, NEW k, NEW n, NEW x
    PROVE  Get(Deduct(m, k, n), x) =
              IF x = k THEN IF k \in DOMAIN m THEN (m[k] - n) % SizeMod ELSE 0
              ELSE Get(m, x)
BY DEF Get, Deduct, Erase

LEMMA OneMoreSame ==
    ASSUME NEW l, NEW k, Fitting(k), NEW o, OneMore(l, k, o), NEW S \in SUBSET DOMAIN l
    PROVE  Requested(k, S) = Requested(l, S)
<1>1. /\ Requested(k, S) = Requested(l, S)
      /\ Requested(k, S \cup {o}) = Requested(l, S) + k[o].requested_bytes
      /\ Cardinality(S \cup {o}) = Cardinality(S) + 1
  BY OneMoreCounts
<1> QED
  BY <1>1

LEMMA AllocateCounts ==
    ASSUME TInv, NEW bytes \in Requests, NEW t \in Tags, Allocate(bytes, t),
           IInv', BlockHoldsRequest'
    PROVE  Counts'
<1> DEFINE n == needed(bytes)
<1>1. PICK o \in DOMAIN free_by_offset :
         /\ free_by_offset[o] >= n
         /\ live' = Put(live, o, [rounded_bytes |-> n, requested_bytes |-> bytes, tag |-> t])
  BY DEF Allocate, FirstFit
<1>2. o \notin DOMAIN live
  <2>1. \A x \in DOMAIN live : x \in Nat /\ live[x].rounded_bytes \in Nat \ {0}
    BY LiveFinite DEF TInv, IInv
  <2>2. o \in Nat /\ free_by_offset[o] \in Nat \ {0}
    BY GoodFree DEF TInv, IInv, GoodList
  <2>3. \A x \in DOMAIN live : Apart(o, free_by_offset[o], x, live[x].rounded_bytes)
    BY DEF TInv, IInv, Partition, FreeLiveApart
  <2> QED
    BY <2>1, <2>2, <2>3 DEF Apart
<1> HIDE DEF n
<1>3. /\ OneMore(live, live', o) /\ live'[o].tag = t /\ live'[o].requested_bytes = bytes
      /\ DOMAIN live' = DOMAIN live \cup {o}
  BY <1>1, <1>2 DEF OneMore, Put
<1>4. Fitting(live')
  <2>1. Fitting(live)'
    BY FittingLive, PTL
  <2> QED
    BY <2>1
<1>5. total_allocated_bytes' = Requested(live', DOMAIN live')
  <2>1. Requested(live', DOMAIN live') = total_allocated_bytes + bytes
    BY <1>3, <1>4, OneMoreCounts DEF TInv, Counts
  <2>2. Requested(live', DOMAIN live') \in 0..(SizeMod - 1)
    BY <1>4, CountsFit
  <2>3. total_allocated_bytes' = (total_allocated_bytes + bytes) % SizeMod
    BY DEF Allocate
  <2> QED
    BY <2>1, <2>2, <2>3, SmallRemainder
<1>6. ASSUME NEW u \in Tags \ {releasing}
      PROVE  /\ Get(tag_blocks', u) = Cardinality(Tagged(live', u))
             /\ Get(tag_bytes', u) = Requested(live', Tagged(live', u))
  <2>1. /\ Get(tag_blocks, u) = Cardinality(Tagged(live, u))
        /\ Get(tag_bytes, u) = Requested(live, Tagged(live, u))
    BY DEF TInv, Counts
  <2>2. /\ tag_blocks' = Put(tag_blocks, t, Get(tag_blocks, t) + 1)
        /\ tag_bytes' = Put(tag_bytes, t, (Get(tag_bytes, t) + bytes) % SizeMod)
    BY DEF Allocate
  <2>3. CASE u = t
    <3>1. Tagged(live, t) \in SUBSET DOMAIN live /\ Tagged(live', t) = Tagged(live, t) \cup {o}
      BY <1>3, OneMoreTagged
    <3>2. /\ Requested(live', Tagged(live', t)) = Requested(live, Tagged(live, t)) + bytes
          /\ Cardinality(Tagged(live', t)) = Cardinality(Tagged(live, t)) + 1
      BY <1>3, <1>4, <3>1, OneMoreCounts
    <3>3. Requested(live', Tagged(live', t)) \in 0..(SizeMod - 1)
      BY <1>3, <1>4, <3>1, CountsFit
    <3>4. (Get(tag_bytes, t) + bytes) % SizeMod = Get(tag_bytes, t) + bytes
      BY <2>1, <2>3, <3>2, <3>3, SmallRemainder
    <3>5. /\ Get(tag_blocks', t) = Get(tag_blocks, t) + 1
          /\ Get(tag_bytes', t) = Get(tag_bytes, t) + bytes
      BY <2>2, <3>4, GetPut
    <3> QED
      BY <2>1, <2>3, <3>2, <3>5
  <2>4. CASE u # t
    <3>1. Tagged(live, u) \in SUBSET DOMAIN live /\ Tagged(live', u) = Tagged(live, u)
      BY <1>3, <2>4, OneMoreTagged
    <3>2. Requested(live', Tagged(live, u)) = Requested(live, Tagged(live, u))
      BY <1>3, <1>4, <3>1, OneMoreSame
    <3>3. Get(tag_blocks', u) = Get(tag_blocks, u) /\ Get(tag_bytes', u) = Get(tag_bytes, u)
      BY <2>2, <2>4, GetPut
    <3> QED
      BY <2>1, <3>1, <3>2, <3>3
  <2> QED
    BY <2>3, <2>4
<1>7. releasing' = releasing
  BY DEF Allocate
<1> QED
  BY <1>5, <1>6, <1>7 DEF Counts

\* Taking a block back, whatever becomes of the totals of its tag.
LEMMA ReclaimCounts ==
    ASSUME TInv, NEW o \in DOMAIN live, Reclaim(o), NEW t, t = live[o].tag
    PROVE  /\ total_allocated_bytes' = Requested(live', DOMAIN live')
           /\ Tagged(live, t) \in SUBSET DOMAIN live /\ o \in Tagged(live, t)
           /\ Requested(live, Tagged(live, t))
                 = Requested(live', Tagged(live', t)) + live[o].requested_bytes
           /\ Requested(live', Tagged(live', t)) \in 0..(SizeMod - 1)
           /\ Cardinality(Tagged(live, t)) = Cardinality(Tagged(live', t)) + 1
           /\ Cardinality(Tagged(live', t)) \in 0..(SizeMod - 1)
           /\ \A u : u # t => /\ Tagged(live', u) = Tagged(live, u)
                              /\ Requested(live', Tagged(live, u)) = Requested(live, Tagged(live, u))
<1>1. Fitting(live)
  BY FittingLive DEF TInv
<1>2. OneMore(live', live, o) /\ DOMAIN live = DOMAIN live' \cup {o}
  BY DEF Reclaim, Erase, OneMore
<1>3. Fitting(live')
  BY <1>1, <1>2 DEF Fitting, OneMore
<1>4. Requested(live, DOMAIN live) = Requested(live', DOMAIN live') + live[o].requested_bytes
  BY <1>1, <1>2, OneMoreCounts
<1>5. live[o].requested_bytes \in Nat
  BY <1>1 DEF Fitting
<1>6. total_allocated_bytes' = Requested(live', DOMAIN live')
  <2>1. Requested(live', DOMAIN live') \in 0..(SizeMod - 1)
    BY <1>3, CountsFit
  <2>2. total_allocated_bytes - live[o].requested_bytes = Requested(live', DOMAIN live')
    BY <1>4, <1>5, <2>1, AlignmentAssumption DEF TInv, Counts
  <2>3. total_allocated_bytes' = (total_allocated_bytes - live[o].requested_bytes) % SizeMod
    BY DEF Reclaim
  <2> QED
    BY <2>1, <2>2, <2>3, SmallRemainder
<1>7. /\ Tagged(live', t) \in SUBSET DOMAIN live' /\ Tagged(live, t) = Tagged(live', t) \cup {o}
      /\ Tagged(live, t) \in SUBSET DOMAIN live
      /\ \A u : u # t => Tagged(live', u) = Tagged(live, u) /\ Tagged(live', u) \in SUBSET DOMAIN live'
  BY <1>2, OneMoreTagged
<1>8. /\ Requested(live, Tagged(live, t))
            = Requested(live', Tagged(live', t)) + live[o].requested_bytes
      /\ Cardinality(Tagged(live, t)) = Cardinality(Tagged(live', t)) + 1
  BY <1>1, <1>2, <1>7, OneMoreCounts
<1>9. /\ Requested(live', Tagged(live', t)) \in 0..(SizeMod - 1)
      /\ Cardinality(Tagged(live', t)) \in 0..SizeMod /\ Cardinality(Tagged(live, t)) \in 0..SizeMod
  BY <1>1, <1>3, <1>7, CountsFit
<1>10. ASSUME NEW u, u # t
       PROVE  /\ Tagged(live', u) = Tagged(live, u)
              /\ Requested(live', Tagged(live, u)) = Requested(live, Tagged(live, u))
  <2>1. Tagged(live', u) = Tagged(live, u) /\ Tagged(live', u) \in SUBSET DOMAIN live'
    BY <1>7, <1>10
  <2>2. Requested(live, Tagged(live', u)) = Requested(live', Tagged(live', u))
    BY <1>1, <1>2, <2>1, OneMoreSame
  <2> QED
    BY <2>1, <2>2
<1> QED
  BY <1>6, <1>7, <1>8, <1>9, <1>10, AlignmentAssumption

LEMMA ReleaseCounts ==
    ASSUME TInv, NEW o \in DOMAIN live, Release(o)
    PROVE  Counts'
<1> DEFINE t == live[o].tag
           r == live[o].requested_bytes
<1>1. /\ Reclaim(o) /\ releasing = NoTag /\ releasing' = NoTag
      /\ tag_bytes' = Deduct(tag_bytes, t, r) /\ tag_blocks' = Deduct(tag_blocks, t, 1)
  BY DEF Release
<1>2. t \in Tags \ {releasing} /\ r \in Nat
  BY <1>1, TagAssumption, RequestAssumption, AlignmentAssumption DEF TInv, IInv, TypeOK, AllocRecord
<1> HIDE DEF t, r
<1>3. /\ total_allocated_bytes' = Requested(live', DOMAIN live')
      /\ Requested(live, Tagged(live, t)) = Requested(live', Tagged(live', t)) + r
      /\ Requested(live', Tagged(live', t)) \in 0..(SizeMod - 1)
      /\ Cardinality(Tagged(live, t)) = Cardinality(Tagged(live', t)) + 1
      /\ Cardinality(Tagged(live', t)) \in 0..(SizeMod - 1)
      /\ \A u : u # t => /\ Tagged(live', u) = Tagged(live, u)
                         /\ Requested(live', Tagged(live, u)) = Requested(live, Tagged(live, u))
  BY <1>1, ReclaimCounts DEF t, r
<1>4. ASSUME NEW u \in Tags \ {releasing}
      PROVE  /\ Get(tag_blocks, u) = Cardinality(Tagged(live, u))
             /\ Get(tag_bytes, u) = Requested(live, Tagged(live, u))
  BY DEF TInv, Counts
<1>5. /\ Get(tag_blocks', t) = Cardinality(Tagged(live', t))
      /\ Get(tag_bytes', t) = Requested(live', Tagged(live', t))
  <2>1. /\ Get(tag_blocks, t) = Cardinality(Tagged(live', t)) + 1
        /\ Get(tag_bytes, t) = Requested(live', Tagged(live', t)) + r
    BY <1>2, <1>3, <1>4
  <2>2. Get(tag_blocks', t) = Cardinality(Tagged(live', t))
    <3>1. t \in DOMAIN tag_blocks /\ tag_blocks[t] = Cardinality(Tagged(live', t)) + 1
      BY <1>3, <2>1, AlignmentAssumption DEF Get
    <3>2. tag_blocks[t] - 1 = Cardinality(Tagged(live', t))
      BY <1>3, <3>1, AlignmentAssumption
    <3>3. (tag_blocks[t] - 1) % SizeMod = Cardinality(Tagged(live', t))
      BY <1>3, <3>2, SmallRemainder
    <3>4. Get(Deduct(tag_blocks, t, 1), t) = (tag_blocks[t] - 1) % SizeMod
      BY <3>1, GetDeduct
    <3> QED
      BY <1>1, <3>3, <3>4
  <2>3. Get(tag_bytes', t) = Requested(live', Tagged(live', t))
    <3>1. CASE t \in DOMAIN tag_bytes
      <4>1. tag_bytes[t] - r = Requested(live', Tagged(live', t))
        BY <1>2, <1>3, <2>1, <3>1, AlignmentAssumption DEF Get
      <4>2. (tag_bytes[t] - r) % SizeMod = Requested(live', Tagged(live', t))
        BY <1>3, <4>1, SmallRemainder
      <4>3. Get(Deduct(tag_bytes, t, r), t) = (tag_bytes[t] - r) % SizeMod
        BY <3>1, GetDeduct
      <4> QED
        BY <1>1, <4>2, <4>3
    <3>2. CASE t \notin DOMAIN tag_bytes
      <4>1. Requested(live', Tagged(live', t)) = 0
        BY <1>2, <1>3, <2>1, <3>2, AlignmentAssumption DEF Get
      <4>2. Get(Deduct(tag_bytes, t, r), t) = 0
        BY <3>2, GetDeduct
      <4> QED
        BY <1>1, <4>1, <4>2
    <3> QED
      BY <3>1, <3>2
  <2> QED
    BY <2>2, <2>3
<1>6. ASSUME NEW u \in Tags \ {releasing'}, u # t
      PROVE  /\ Get(tag_blocks', u) = Cardinality(Tagged(live', u))
             /\ Get(tag_bytes', u) = Requested(live', Tagged(live', u))
  <2>1. Get(tag_blocks', u) = Get(tag_blocks, u) /\ Get(tag_bytes', u) = Get(tag_bytes, u)
    BY <1>1, <1>6, GetDeduct
  <2>2. u \in Tags \ {releasing}
    BY <1>1, <1>6
  <2> QED
    BY <1>3, <1>4, <1>6, <2>1, <2>2
<1> QED
  BY <1>3, <1>5, <1>6 DEF Counts

\* An iteration of release_all: the totals of its tag are off, the others are not.
LEMMA ReleaseAllStepCounts ==
    ASSUME TInv, NEW o \in DOMAIN live, ReleaseAllStep(o)
    PROVE  Counts'
<1>1. /\ Reclaim(o) /\ live[o].tag = releasing
      /\ tag_bytes' = tag_bytes /\ tag_blocks' = tag_blocks /\ releasing' = releasing
  BY DEF ReleaseAllStep
<1>2. /\ total_allocated_bytes' = Requested(live', DOMAIN live')
      /\ \A u : u # releasing =>
            /\ Tagged(live', u) = Tagged(live, u)
            /\ Requested(live', Tagged(live, u)) = Requested(live, Tagged(live, u))
  BY <1>1, ReclaimCounts
<1>3. ASSUME NEW u \in Tags \ {releasing'}
      PROVE  /\ Get(tag_blocks', u) = Cardinality(Tagged(live', u))
             /\ Get(tag_bytes', u) = Requested(live', Tagged(live', u))
  <2>1. u \in Tags \ {releasing} /\ u # releasing
    BY <1>1
  <2>2. /\ Get(tag_blocks, u) = Cardinality(Tagged(live, u))
        /\ Get(tag_bytes, u) = Requested(live, Tagged(live, u))
    BY <2>1 DEF TInv, Counts
  <2> QED
    BY <1>1, <1>2, <2>1, <2>2
<1> QED
  BY <1>2, <1>3 DEF Counts

\* Its end: no block of the tag is left, and its entries are dropped.
LEMMA ReleaseAllEndCounts == ASSUME TInv, ReleaseAllEnd PROVE Counts'
<1>1. /\ live' = live /\ total_allocated_bytes' = total_allocated_bytes
      /\ tag_bytes' = Erase(tag_bytes, releasing) /\ tag_blocks' = Erase(tag_blocks, releasing)
      /\ \A o \in DOMAIN live : live[o].tag # releasing
  BY DEF ReleaseAllEnd
<1>2. Tagged(live, releasing) = {}
  BY <1>1 DEF Tagged
<1>3. Cardinality({}) = 0 /\ Requested(live, {}) = 0
  BY FS_EmptySet, RequestedIs DEF Bytes
<1>4. ASSUME NEW u \in Tags
      PROVE  /\ Get(tag_blocks', u) = Cardinality(Tagged(live, u))
             /\ Get(tag_bytes', u) = Requested(live, Tagged(live, u))
  <2>1. CASE u = releasing
    BY <1>1, <1>2, <1>3, <2>1, GetErase
  <2>2. CASE u # releasing
    <3>1. Get(tag_blocks', u) = Get(tag_blocks, u) /\ Get(tag_bytes', u) = Get(tag_bytes, u)
      BY <1>1, <2>2, GetErase
    <3> QED
      BY <2>2, <3>1 DEF TInv, Counts
  <2> QED
    BY <2>1, <2>2
<1> QED
  BY <1>1, <1>4 DEF TInv, Counts

LEMMA NextCounts ==
    ASSUME TInv, [Next]_vars, IInv', BlockHoldsRequest'
    PROVE  Counts'
<1>1. ASSUME NEW t \in Tags, ReleaseAllBegin(t) PROVE Counts'
  BY <1>1, TagAssumption DEF ReleaseAllBegin, stats, TInv, Counts
<1>2. CASE UNCHANGED vars
  BY <1>2 DEF vars, stats, TInv, Counts
<1> QED
  BY <1>1, <1>2, AllocateCounts, ReleaseCounts, ReleaseAllStepCounts, ReleaseAllEndCounts
     DEF Next, AllocateFails, ReleaseIgnored, ReleaseAllLoop

LEMMA CountsAreTotals == ASSUME TInv PROVE TotalsMatch
<1>1. Fitting(live)
  BY FittingLive DEF TInv
<1>2. \A S : RequestedOver(S) = Requested(live, S)
  BY DEF RequestedOver, Requested
<1>3. \A t : LiveOf(t) = Tagged(live, t) /\ Tagged(live, t) \in SUBSET DOMAIN live
  BY DEF LiveOf, Tagged
<1>4. \A S \in SUBSET DOMAIN live : RequestedOver(S) % SizeMod = Requested(live, S)
  BY <1>1, <1>2, CountsFit, SmallRemainder
<1> QED
  BY <1>3, <1>4 DEF TInv, IInv, CountMatches, Counts, TotalsMatch

\* The running totals are those of the live blocks, for the arena and for every
\* tag, between any two steps of any calls, provided no request wraps around
\* size_t when it is rounded up: two such requests are granted a chunk each, and
\* the sum of what they asked for can pass 0, where an entry is erased
\* (memory_allocator.cpp:150-157).
THEOREM TotalsExact ==
    ASSUME \A bytes \in Requests : bytes + (kAlignment - 1) < SizeMod
    PROVE  Spec => []TotalsMatch
<1>1. Init => Counts
  <2>1. Requested(EmptyMap, {}) = 0
    BY FS_EmptySet, RequestedIs DEF Bytes
  <2> QED
    BY <2>1, FS_EmptySet DEF Init, Counts, Tagged, Get, EmptyMap
<1>2. Spec => []BlockHoldsRequest
  BY RequestsFit
<1>3. IInv /\ BlockHoldsRequest /\ Counts /\ [Next]_vars /\ IInv' /\ BlockHoldsRequest' => Counts'
  BY NextCounts DEF TInv
<1>4. IInv /\ BlockHoldsRequest /\ Counts => TotalsMatch
  BY CountsAreTotals DEF TInv
<1> QED
  BY <1>1, <1>2, <1>3, <1>4, Invariance, PTL DEF Spec
====
