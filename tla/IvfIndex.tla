------------------------------- MODULE IvfIndex -------------------------------
(***************************************************************************)
(* The inverted-file index of src/core/ivf_index.cpp: entries with          *)
(* tombstones, k-means cells rebuilt lazily by the first search after a     *)
(* mutation, and searches that probe the nearest cells.                     *)
(*                                                                          *)
(* Searches run under the shared lock of the owning collection, so several  *)
(* threads may be inside search at once; add and remove run under the       *)
(* exclusive lock.  A search is split where it starts to read dirty_, where *)
(* it starts to rewrite the cached cells, and where it starts to read them. *)
(*                                                                          *)
(* Vectors are points on a line with integer coordinates; a centroid is a   *)
(* mean, kept exactly as <<sum, count>>.  Float rounding is left out.       *)
(***************************************************************************)
EXTENDS Maps, FiniteSets

CONSTANTS Threads,
          Ids,                   \* numbers, in the order of the identifiers
          Points,                \* coordinates of vectors and queries
          Nlists,                \* values of IndexParams::nlist
          Nprobes,               \* values of QueryParams::nprobe
          Ks,                    \* values of k passed to search
          Shuffles,              \* what the seeded RNG may do: length -> permutation
          kMaxKMeansIterations   \* 12 in the code

ASSUME IterationAssumption == kMaxKMeansIterations \in Nat \ {0}

\* Identifiers are ordered, coordinates and parameters are numbers.
ASSUME NumberAssumption ==
    /\ Ids \subseteq Int /\ Points \subseteq Int
    /\ Nlists \subseteq Nat /\ Nprobes \subseteq Int /\ Ks \subseteq Nat

\* A shuffle of the n live entries, one for an identifier at most, gives positions
\* of them.
ASSUME ShuffleAssumption ==
    /\ IsFiniteSet(Ids)
    /\ \A f \in Shuffles : \A n \in 0..Cardinality(Ids) : f[n] \in [1..n -> 1..n]

VARIABLES requested_nlist,
          shuffle,         \* length -> the permutation std::shuffle makes of it
          entries,         \* by slot: [id, vector, deleted]
          live_count,
          records,         \* the collection's record store: id -> vector
          dirty,
          centroids,
          inverted_lists,  \* by cell: the set of slots in it
          call             \* thread -> the search it is in

cache == <<dirty, centroids, inverted_lists>>

vars == <<requested_nlist, shuffle, entries, live_count, records, cache, call>>

-----------------------------------------------------------------------------
(* The rebuild                                                              *)

Abs(n) == IF n < 0 THEN -n ELSE n

\* Point v is nearer to centroid c than to centroid d.
Nearer(v, c, d) == Abs(v * c[2] - c[1]) * d[2] < Abs(v * d[2] - d[1]) * c[2]

\* The first of the centroids cs that no other is nearer to v than.
Nearest(v, cs) ==
    CHOOSE c \in DOMAIN cs : /\ \A d \in DOMAIN cs : ~Nearer(v, cs[d], cs[c])
                             /\ \A d \in 1..(c - 1) : Nearer(v, cs[c], cs[d])

\* The live slots of es, in ascending order.
LiveSlots(es) == {s \in DOMAIN es : ~es[s].deleted}
Nth(S, i) == CHOOSE s \in S : Cardinality({x \in S : x =< s}) = i

\* nlist, or the square root of the number of points, within [1, points].
CellCount(nlist, n) ==
    LET root == CHOOSE r \in 0..n : r * r =< n /\ n < (r + 1) * (r + 1)
        k == IF nlist = 0 THEN root ELSE nlist
    IN  IF k > n THEN n ELSE IF k < 1 THEN 1 ELSE k

\* The mean of the points of es assigned to cell c; an empty cell keeps its own.
Mean(es, assignment, cs, c) ==
    LET members == {s \in DOMAIN assignment : assignment[s] = c}
        sum[M \in SUBSET members] ==
            IF M = {} THEN 0
            ELSE LET s == CHOOSE s \in M : TRUE IN es[s].vector + sum[M \ {s}]
    IN  IF members = {} THEN cs[c] ELSE <<sum[members], Cardinality(members)>>

\* Lloyd's iterations from the centroids cs: assign, recompute, until stable.
Lloyd(es, cs0) ==
    LET live == LiveSlots(es)
        Assign(cs) == [s \in live |-> Nearest(es[s].vector, cs)]
        Means(as, cs) == [c \in DOMAIN cs |-> Mean(es, as, cs, c)]
        \* State after n iterations; `changed' as in the code.
        iter[n \in 0..kMaxKMeansIterations] ==
            IF n = 0 THEN [cs |-> cs0, as |-> [s \in live |-> 1], done |-> FALSE]
            ELSE LET prev == iter[n - 1]
                     as   == Assign(prev.cs)
                 IN  IF prev.done THEN prev
                     ELSE [cs |-> Means(as, prev.cs), as |-> as,
                           done |-> as = prev.as /\ n > 1]
    IN  iter[kMaxKMeansIterations]

\* The cells built from es: initial centroids are the first k shuffled points.
Cells(es) ==
    LET live == LiveSlots(es)
        n == Cardinality(live)
        k == CellCount(requested_nlist, n)
        start == [c \in 1..k |-> <<es[Nth(live, shuffle[n][c])].vector, 1>>]
        final == Lloyd(es, start)
    IN  IF n = 0 THEN [centroids |-> << >>, lists |-> << >>]
        ELSE [centroids |-> final.cs,
              lists |-> [c \in 1..k |-> {s \in live : final.as[s] = c}]]

-----------------------------------------------------------------------------
(* The search                                                               *)

Distance(q, s) == Abs(q - entries[s].vector)

\* Slot s comes before slot x in a result: ascending distance, then identifier.
Before(q, s, x) ==
    \/ Distance(q, s) < Distance(q, x)
    \/ Distance(q, s) = Distance(q, x) /\ entries[s].id < entries[x].id

\* The first k slots of S in that order: sort, then truncate.
Top(q, k, S) == {s \in S : Cardinality({x \in S : Before(q, x, s)}) < k}

\* Mutant of Probed: nprobe is not raised to 1.
ProbedUnclamped(q, nprobe) ==
    LET Closer(d, c) == \/ Nearer(q, centroids[d], centroids[c])
                        \/ ~Nearer(q, centroids[c], centroids[d]) /\ d < c
    IN  {c \in DOMAIN centroids :
           Cardinality({d \in DOMAIN centroids : d # c /\ Closer(d, c)}) < nprobe}

\* The nprobe cells whose centroids are nearest to q, nprobe within [1, nlist].
Probed(q, nprobe) ==
    LET n == IF nprobe < 1 THEN 1 ELSE nprobe
        Closer(d, c) == \/ Nearer(q, centroids[d], centroids[c])
                        \/ ~Nearer(q, centroids[c], centroids[d]) /\ d < c
    IN  {c \in DOMAIN centroids :
           Cardinality({d \in DOMAIN centroids : d # c /\ Closer(d, c)}) < n}

\* The slots a search returns when it reads the cached cells as they are now.
Found(q, k, nprobe) ==
    Top(q, k, {s \in UNION {inverted_lists[c] : c \in Probed(q, nprobe)} :
                 ~entries[s].deleted})

-----------------------------------------------------------------------------

Idle == [pc |-> "idle"]
Exclusive == \A t \in Threads : call[t].pc \in {"idle", "done"}

Init ==
    /\ requested_nlist \in Nlists
    /\ shuffle \in Shuffles
    /\ entries = << >>
    /\ live_count = 0
    /\ records = EmptyMap
    /\ dirty = TRUE
    /\ centroids = << >>
    /\ inverted_lists = << >>
    /\ call = [t \in Threads |-> Idle]

SlotOf(id) == {s \in DOMAIN entries : entries[s].id = id}

\* Mutant of Add: a tombstone is not revived.
AddStaysDeleted(id, v) ==
    /\ Exclusive
    /\ records' = Put(records, id, v)
    /\ entries' =
         IF SlotOf(id) # {}
         THEN [s \in DOMAIN entries |->
                 IF s \in SlotOf(id) THEN [entries[s] EXCEPT !.vector = v] ELSE entries[s]]
         ELSE Append(entries, [id |-> id, vector |-> v, deleted |-> FALSE])
    /\ live_count' = IF SlotOf(id) # {} THEN live_count ELSE live_count + 1
    /\ dirty' = TRUE
    /\ call' = [t \in Threads |-> Idle]
    /\ UNCHANGED <<requested_nlist, shuffle, centroids, inverted_lists>>

\* add: a known id gets the new vector and is revived, another a new slot.
Add(id, v) ==
    /\ Exclusive
    /\ records' = Put(records, id, v)
    /\ entries' =
         IF SlotOf(id) # {}
         THEN [s \in DOMAIN entries |->
                 IF s \in SlotOf(id) THEN [id |-> id, vector |-> v, deleted |-> FALSE]
                 ELSE entries[s]]
         ELSE Append(entries, [id |-> id, vector |-> v, deleted |-> FALSE])
    /\ live_count' = IF \E s \in SlotOf(id) : ~entries[s].deleted
                     THEN live_count ELSE live_count + 1
    /\ dirty' = TRUE
    /\ call' = [t \in Threads |-> Idle]
    /\ UNCHANGED <<requested_nlist, shuffle, centroids, inverted_lists>>

\* Mutant of Remove: the cells stay marked clean.
RemoveStaysClean(id) ==
    /\ Exclusive
    /\ records' = Erase(records, id)
    /\ \E s \in SlotOf(id) :
          /\ ~entries[s].deleted
          /\ entries' = [entries EXCEPT ![s].deleted = TRUE]
    /\ live_count' = live_count - 1
    /\ call' = [t \in Threads |-> Idle]
    /\ UNCHANGED <<requested_nlist, shuffle, cache>>

\* remove: a live entry becomes a tombstone; otherwise NotFound.
Remove(id) ==
    /\ Exclusive
    /\ records' = Erase(records, id)
    /\ \E s \in SlotOf(id) :
          /\ ~entries[s].deleted
          /\ entries' = [entries EXCEPT ![s].deleted = TRUE]
    /\ live_count' = live_count - 1
    /\ dirty' = TRUE
    /\ call' = [t \in Threads |-> Idle]
    /\ UNCHANGED <<requested_nlist, shuffle, centroids, inverted_lists>>

\* What a load re-adds: every record, in ascending order of identifier.
Reloaded ==
    [i \in 1..Cardinality(DOMAIN records) |->
        LET id == CHOOSE id \in DOMAIN records :
                      Cardinality({x \in DOMAIN records : x =< id}) = i
        IN  [id |-> id, vector |-> records[id], deleted |-> FALSE]]

\* A save and a load: a new index, with the saved nlist and seed.
Reload ==
    /\ Exclusive
    /\ entries' = Reloaded
    /\ live_count' = Len(Reloaded)
    /\ dirty' = TRUE
    /\ centroids' = << >> /\ inverted_lists' = << >>
    /\ call' = [t \in Threads |-> Idle]
    /\ UNCHANGED <<requested_nlist, shuffle, records>>

Set(t, rec) == call' = [call EXCEPT ![t] = rec]

\* search, up to the first read of the caches; nothing to do when k or the
\* number of live entries is 0.
StartSearch(t, q, k, nprobe) ==
    /\ call[t].pc \in {"idle", "done"}
    /\ IF k = 0 \/ live_count = 0
       THEN Set(t, [pc |-> "done", q |-> q, k |-> k, nprobe |-> nprobe, found |-> {}])
       ELSE Set(t, [pc |-> "check", q |-> q, k |-> k, nprobe |-> nprobe])
    /\ UNCHANGED <<requested_nlist, shuffle, entries, live_count, records, cache>>

\* ensure_partitions_built: a clean cache is used as it is, a dirty one is
\* cleared and rewritten.
CheckDirty(t) ==
    /\ call[t].pc = "check"
    /\ call' = [call EXCEPT ![t].pc = IF dirty THEN "build" ELSE "probe"]
    /\ IF dirty THEN centroids' = << >> /\ inverted_lists' = << >>
                ELSE UNCHANGED <<centroids, inverted_lists>>
    /\ UNCHANGED <<requested_nlist, shuffle, entries, live_count, records, dirty>>

Build(t) ==
    /\ call[t].pc = "build"
    /\ LET built == Cells(entries)
       IN  centroids' = built.centroids /\ inverted_lists' = built.lists
    /\ dirty' = FALSE
    /\ call' = [call EXCEPT ![t].pc = "probe"]
    /\ UNCHANGED <<requested_nlist, shuffle, entries, live_count, records>>

\* Rank the cells, scan the probed ones, sort and truncate.
Probe(t) ==
    /\ call[t].pc = "probe"
    /\ Set(t, [pc |-> "done", q |-> call[t].q, k |-> call[t].k,
               nprobe |-> call[t].nprobe,
               found |-> Found(call[t].q, call[t].k, call[t].nprobe)])
    /\ UNCHANGED <<requested_nlist, shuffle, entries, live_count, records, cache>>

Next ==
    \/ \E id \in Ids : Remove(id) \/ \E v \in Points : Add(id, v)
    \/ Reload
    \/ \E t \in Threads :
          \/ \E q \in Points, k \in Ks, nprobe \in Nprobes : StartSearch(t, q, k, nprobe)
          \/ CheckDirty(t) \/ Build(t) \/ Probe(t)

Spec == Init /\ [][Next]_vars

-----------------------------------------------------------------------------
(* Properties                                                               *)

\* The type of the state: ivf_index.hpp:77-91 and the searches in progress.
TypeOK ==
    /\ \A s \in DOMAIN entries : entries[s] \in [id: Ids, vector: Points, deleted: BOOLEAN]
    /\ live_count = Cardinality(LiveSlots(entries))
    /\ \A id \in Ids : Cardinality(SlotOf(id)) =< 1
    /\ dirty \in BOOLEAN
    /\ \A t \in Threads : call[t].pc \in {"idle", "check", "build", "probe", "done"}

\* The live entries are exactly the records of the collection, with their latest
\* vectors, whatever was replaced, revived or reloaded: what Collection assumes
\* of an index.
IndexAgrees ==
    TypeOK /\ records = [id \in {entries[s].id : s \in LiveSlots(entries)} |->
                            entries[CHOOSE s \in SlotOf(id) : TRUE].vector]

\* A clean cache covers the data: every live entry is in exactly one cell and
\* no tombstone is in any, whatever was added, replaced, removed or revived
\* since the last rebuild, there are never more cells than live entries, and,
\* the rebuild having converged within its iteration cap, that cell is the one a
\* probe for that very vector looks at first (ivf_index.cpp:106-135, 155-208).
CellsCoverLive ==
    ~dirty =>
        /\ DOMAIN inverted_lists = DOMAIN centroids
        /\ Len(centroids) =< live_count
        /\ \A s \in DOMAIN entries :
              {c \in DOMAIN inverted_lists : s \in inverted_lists[c]}
                  = IF entries[s].deleted THEN {} ELSE {Nearest(entries[s].vector, centroids)}

\* A search that probes every cell is exact, and one that probes fewer returns
\* only live entries, the best of the cells it saw; a search for a stored vector
\* finds an entry at distance 0 with a single probe (ivf_index.cpp:224-266).
SearchExact ==
    \A t \in Threads : call[t].pc = "done" =>
        LET found == call[t].found
            q == call[t].q
            k == call[t].k
            live == LiveSlots(entries)
        IN  /\ found \subseteq live
            /\ Cardinality(found) =< k
            /\ call[t].nprobe >= Len(centroids) => found = Top(q, k, live)
            /\ k > 0 /\ (\E s \in live : Distance(q, s) = 0)
                 => \E s \in found : Distance(q, s) = 0

\* "It is not internally synchronised; the owning Collection serialises access
\* through its readers-writer lock" (ivf_index.hpp:41-42): while one thread
\* rewrites the cached cells no other thread is inside search.
SerialisedAccess ==
    \A t, u \in Threads :
        t # u /\ call[t].pc = "build" => call[u].pc \in {"idle", "done"}

\* The cells as sets of identifiers.
Groups(es, lists) == {{es[s].id : s \in lists[c]} : c \in DOMAIN lists}

\* "The IVF partitioning is a deterministic function of the live record set ...
\* snapshot load re-adds every record from the directory and rebuilds the
\* identical partitioning" (ivf_index.cpp:271-275).
ReloadRebuildsSameCells ==
    ~dirty => Groups(entries, inverted_lists) = Groups(Reloaded, Cells(Reloaded).lists)
=============================================================================
