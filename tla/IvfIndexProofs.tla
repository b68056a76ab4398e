--------------------------- MODULE IvfIndexProofs ---------------------------
(***************************************************************************)
(* Proofs about IvfIndex.                                                   *)
(***************************************************************************)
EXTENDS IvfIndex, ProofLemmas

-----------------------------------------------------------------------------
(* Entries and records                                                      *)

Entry == [id: Ids, vector: Points, deleted: BOOLEAN]

SlotsOf(es, id) == {s \in DOMAIN es : es[s].id = id}

\* The entries es are an index of the records recs: one entry for an identifier, the
\* live ones those of the records.
Indexes(es, recs) ==
    /\ es \in Seq(Entry)
    /\ \A s, x \in DOMAIN es : es[s].id = es[x].id => s = x
    /\ recs = [id \in DOMAIN recs |-> recs[id]]
    /\ DOMAIN recs = {es[s].id : s \in LiveSlots(es)}
    /\ \A s \in LiveSlots(es) : recs[es[s].id] = es[s].vector

LEMMA LiveSlotsFinite ==
    ASSUME NEW es \in Seq(Entry)
    PROVE  /\ LiveSlots(es) \in SUBSET (1..Len(es)) /\ DOMAIN es = 1..Len(es)
           /\ Len(es) \in Nat
           /\ IsFiniteSet(LiveSlots(es)) /\ Cardinality(LiveSlots(es)) \in Nat
<1>1. LiveSlots(es) \in SUBSET (1..Len(es)) /\ DOMAIN es = 1..Len(es) /\ Len(es) \in Nat
  BY DEF LiveSlots
<1>2. IsFiniteSet(1..Len(es))
  BY <1>1, FS_Interval
<1> QED
  BY <1>1, <1>2, FS_Subset, FS_CardinalityType

\* What add makes of the entries.
Added(es, id, v) ==
    IF SlotsOf(es, id) # {}
    THEN [s \in DOMAIN es |->
            IF s \in SlotsOf(es, id) THEN [id |-> id, vector |-> v, deleted |-> FALSE]
            ELSE es[s]]
    ELSE Append(es, [id |-> id, vector |-> v, deleted |-> FALSE])

LEMMA AddIndexes ==
    ASSUME NEW es, NEW recs, Indexes(es, recs), NEW id \in Ids, NEW v \in Points
    PROVE  /\ Indexes(Added(es, id, v), Put(recs, id, v))
           /\ Cardinality(LiveSlots(Added(es, id, v))) =
                  IF \E s \in SlotsOf(es, id) : ~es[s].deleted
                  THEN Cardinality(LiveSlots(es)) ELSE Cardinality(LiveSlots(es)) + 1
<1> DEFINE fresh == [id |-> id, vector |-> v, deleted |-> FALSE]
           new == Added(es, id, v)
<1>1. /\ es \in Seq(Entry) /\ DOMAIN es = 1..Len(es) /\ Len(es) \in Nat
      /\ \A s, x \in DOMAIN es : es[s].id = es[x].id => s = x
      /\ DOMAIN recs = {es[s].id : s \in LiveSlots(es)}
      /\ \A s \in LiveSlots(es) : recs[es[s].id] = es[s].vector
      /\ \A s \in DOMAIN es : es[s] \in Entry
  BY DEF Indexes
<1>2. fresh \in Entry /\ fresh.id = id /\ fresh.vector = v /\ fresh.deleted = FALSE
  BY DEF Entry
<1> HIDE DEF fresh
\* Where the identifier's entry goes, and that the others stay.
<1>3. PICK i \in Nat :
          /\ new \in Seq(Entry) /\ DOMAIN new = DOMAIN es \cup {i}
          /\ new[i] = fresh /\ \A s \in DOMAIN es : s # i => new[s] = es[s]
          /\ SlotsOf(es, id) = DOMAIN es \cap {i}
  <2>1. CASE SlotsOf(es, id) # {}
    <3>1. PICK i \in DOMAIN es : es[i].id = id
      BY <2>1 DEF SlotsOf
    <3>2. SlotsOf(es, id) = {i}
      BY <1>1, <3>1 DEF SlotsOf
    <3>3. new = [s \in DOMAIN es |-> IF s = i THEN fresh ELSE es[s]]
      BY <2>1, <3>2 DEF Added, fresh
    <3>4. new \in [1..Len(es) -> Entry]
      BY <1>1, <1>2, <3>3
    <3>5. new \in Seq(Entry)
      <4> HIDE DEF new
      <4> QED
        BY <1>1, <3>4
    <3> QED
      BY <1>1, <3>1, <3>2, <3>3, <3>5
  <2>2. CASE SlotsOf(es, id) = {}
    <3>1. new = Append(es, fresh)
      BY <2>2 DEF Added, fresh
    <3>2. new \in Seq(Entry) /\ DOMAIN new = 1..(Len(es) + 1) /\ new[Len(es) + 1] = fresh
          /\ \A s \in 1..Len(es) : new[s] = es[s]
      BY <1>1, <1>2, <3>1
    <3>3. DOMAIN new = DOMAIN es \cup {Len(es) + 1} /\ DOMAIN es \cap {Len(es) + 1} = {}
      BY <1>1, <3>2
    <3> QED
      BY <1>1, <2>2, <3>2, <3>3
  <2> QED
    BY <2>1, <2>2
<1> HIDE DEF new
<1>4. \A s \in DOMAIN es : s # i => es[s].id # id
  BY <1>3 DEF SlotsOf
<1>5. LiveSlots(new) = LiveSlots(es) \cup {i}
  BY <1>2, <1>3 DEF LiveSlots
<1>6. i \in LiveSlots(es) <=> \E s \in SlotsOf(es, id) : ~es[s].deleted
  BY <1>3 DEF LiveSlots
<1>7. ASSUME NEW s \in DOMAIN new, NEW x \in DOMAIN new, new[s].id = new[x].id
      PROVE  s = x
  BY <1>1, <1>2, <1>3, <1>4, <1>7
<1>8. LiveSlots(es) \in SUBSET DOMAIN es
  BY DEF LiveSlots
<1>9. DOMAIN Put(recs, id, v) = {new[s].id : s \in LiveSlots(new)}
  <2>1. DOMAIN Put(recs, id, v) = DOMAIN recs \cup {id}
    BY DEF Put
  <2>2. \A s \in LiveSlots(es) : s # i => new[s].id = es[s].id
    BY <1>3, <1>8
  <2>3. new[i].id = id /\ (i \in LiveSlots(es) => es[i].id = id)
    BY <1>2, <1>3, <1>8 DEF SlotsOf
  <2> QED
    BY <1>1, <1>5, <2>1, <2>2, <2>3
<1>10. ASSUME NEW s \in LiveSlots(new) PROVE Put(recs, id, v)[new[s].id] = new[s].vector
  <2>1. CASE s = i
    BY <1>2, <1>3, <2>1 DEF Put
  <2>2. CASE s # i
    <3>1. s \in LiveSlots(es) /\ s \in DOMAIN es /\ new[s] = es[s]
      BY <1>3, <1>5, <1>8, <2>2
    <3>2. es[s].id # id /\ es[s].id \in DOMAIN recs /\ recs[es[s].id] = es[s].vector
      BY <1>1, <1>4, <2>2, <3>1
    <3> QED
      BY <3>1, <3>2 DEF Put
  <2> QED
    BY <2>1, <2>2
<1>11. Put(recs, id, v) = [x \in DOMAIN Put(recs, id, v) |-> Put(recs, id, v)[x]]
  BY DEF Put
<1>12. Cardinality(LiveSlots(new)) =
          IF i \in LiveSlots(es)
          THEN Cardinality(LiveSlots(es)) ELSE Cardinality(LiveSlots(es)) + 1
  <2>1. i \in LiveSlots(es) => LiveSlots(new) = LiveSlots(es)
    BY <1>5
  <2> QED
    BY <1>1, <1>5, <2>1, LiveSlotsFinite, FS_AddElement
<1>13. Indexes(new, Put(recs, id, v))
  BY <1>3, <1>7, <1>9, <1>10, <1>11 DEF Indexes
<1> QED
  BY <1>6, <1>12, <1>13 DEF new

LEMMA RemoveIndexes ==
    ASSUME NEW es, NEW recs, Indexes(es, recs), NEW i \in DOMAIN es, ~es[i].deleted
    PROVE  /\ Indexes([es EXCEPT ![i].deleted = TRUE], Erase(recs, es[i].id))
           /\ Cardinality(LiveSlots([es EXCEPT ![i].deleted = TRUE])) =
                  Cardinality(LiveSlots(es)) - 1
<1> DEFINE new == [es EXCEPT ![i].deleted = TRUE]
           id == es[i].id
<1>1. /\ es \in Seq(Entry) /\ DOMAIN es = 1..Len(es) /\ Len(es) \in Nat
      /\ \A s, x \in DOMAIN es : es[s].id = es[x].id => s = x
      /\ DOMAIN recs = {es[s].id : s \in LiveSlots(es)}
      /\ \A s \in LiveSlots(es) : recs[es[s].id] = es[s].vector
      /\ \A s \in DOMAIN es : es[s] \in Entry
  BY DEF Indexes
<1>2. /\ DOMAIN new = DOMAIN es
      /\ \A s \in DOMAIN es : s # i => new[s] = es[s]
      /\ new[i] \in Entry /\ new[i].id = id /\ new[i].deleted
  BY <1>1 DEF Entry
<1>3. new \in Seq(Entry)
  <2>1. new \in [1..Len(es) -> Entry]
    <3>1. \A s \in DOMAIN es : new[s] \in Entry
      BY <1>1, <1>2
    <3>2. new = [s \in 1..Len(es) |-> new[s]]
      BY <1>1
    <3> HIDE DEF new
    <3> QED
      BY <1>1, <3>1, <3>2
  <2> HIDE DEF new
  <2> QED
    BY <1>1, <2>1
<1> HIDE DEF new
<1>4. LiveSlots(new) = LiveSlots(es) \ {i} /\ i \in LiveSlots(es)
      /\ LiveSlots(es) \in SUBSET DOMAIN es
  BY <1>2 DEF LiveSlots
<1>5. \A s, x \in DOMAIN new : new[s].id = new[x].id => s = x
  BY <1>1, <1>2
<1>6. DOMAIN Erase(recs, id) = {new[s].id : s \in LiveSlots(new)}
  <2>1. DOMAIN Erase(recs, id) = DOMAIN recs \ {id}
    BY DEF Erase
  <2>2. \A s \in LiveSlots(new) : new[s].id = es[s].id /\ es[s].id # id
    BY <1>1, <1>2, <1>4
  <2>3. \A s \in LiveSlots(es) : s = i \/ s \in LiveSlots(new)
    BY <1>4
  <2> QED
    BY <1>1, <1>4, <2>1, <2>2, <2>3
<1>7. ASSUME NEW s \in LiveSlots(new) PROVE Erase(recs, id)[new[s].id] = new[s].vector
  <2>1. s \in LiveSlots(es) /\ s \in DOMAIN es /\ new[s] = es[s] /\ es[s].id # id
    BY <1>1, <1>2, <1>4
  <2>2. es[s].id \in DOMAIN recs /\ recs[es[s].id] = es[s].vector
    BY <1>1, <2>1
  <2> QED
    BY <2>1, <2>2 DEF Erase
<1>8. Erase(recs, id) = [x \in DOMAIN Erase(recs, id) |-> Erase(recs, id)[x]]
  BY DEF Erase
<1>9. Cardinality(LiveSlots(new)) = Cardinality(LiveSlots(es)) - 1
  <2>1. IsFiniteSet(LiveSlots(es))
    BY <1>1, LiveSlotsFinite
  <2>2. Cardinality(LiveSlots(es) \ {i}) = Cardinality(LiveSlots(es)) - 1
    BY ONLY <1>4, <2>1, FS_RemoveElement
  <2> QED
    BY ONLY <1>4, <2>2
<1>10. Indexes(new, Erase(recs, id))
  BY <1>3, <1>5, <1>6, <1>7, <1>8 DEF Indexes
<1> QED
  BY <1>9, <1>10 DEF new

\* The elements of a finite set of numbers, counted from the least.
Upto(S, x) == {y \in S : y =< x}

LEMMA Counted ==
    ASSUME NEW S \in SUBSET Int, IsFiniteSet(S)
    PROVE  /\ Cardinality(S) \in Nat
           /\ \A i \in 1..Cardinality(S) : \E x \in S : Cardinality(Upto(S, x)) = i
           /\ \A x \in S : Cardinality(Upto(S, x)) \in 1..Cardinality(S)
           /\ \A x, y \in S : Cardinality(Upto(S, x)) = Cardinality(Upto(S, y)) => x = y
<1> DEFINE n == Cardinality(S)
           R == {p \in S \X S : p[1] < p[2]}
           e(x) == Cardinality(Earlier(S, R, x))
<1>1. n \in Nat
  BY FS_CardinalityType
<1>2. \A x, y \in S : <<x, y>> \in R <=> x < y
  OBVIOUS
<1> HIDE DEF R
<1>3. StrictOrder(S, R)
  BY <1>2 DEF StrictOrder
<1>4. ASSUME NEW x \in S PROVE Cardinality(Upto(S, x)) = e(x) + 1
  <2>1. Upto(S, x) = Earlier(S, R, x) \cup {x} /\ x \notin Earlier(S, R, x)
    <3>1. \A y \in S : (y =< x <=> y < x \/ y = x) /\ ~(x < x)
      OBVIOUS
    <3>2. Earlier(S, R, x) = {y \in S : y < x}
      BY <1>2 DEF Earlier
    <3> QED
      BY <3>1, <3>2 DEF Upto
  <2>2. IsFiniteSet(Earlier(S, R, x))
    BY FS_Subset DEF Earlier
  <2> QED
    BY <2>1, <2>2, FS_AddElement
<1>5. ASSUME NEW x \in S, NEW y \in S PROVE e(x) \in 0..(n - 1) /\ (x < y <=> e(x) < e(y))
  BY <1>2, <1>3, RankGrows
<1>6. ASSUME NEW i \in 0..(n - 1) PROVE \E x \in S : e(x) = i
  BY <1>3, RankTaken
<1> HIDE DEF e, n
<1>7. ASSUME NEW i \in 1..n PROVE \E x \in S : Cardinality(Upto(S, x)) = i
  <2>1. i - 1 \in 0..(n - 1) /\ i - 1 + 1 = i
    BY <1>1
  <2>2. PICK x \in S : e(x) = i - 1
    BY <1>6, <2>1
  <2> QED
    BY <1>4, <2>1, <2>2
<1>8. ASSUME NEW x \in S PROVE Cardinality(Upto(S, x)) \in 1..n
  BY <1>1, <1>4, <1>5
<1>9. ASSUME NEW x \in S, NEW y \in S, Cardinality(Upto(S, x)) = Cardinality(Upto(S, y))
      PROVE  x = y
  <2>1. e(x) \in Int /\ e(y) \in Int /\ e(x) + 1 = e(y) + 1
    BY <1>1, <1>4, <1>5, <1>9
  <2>2. ~(x < y) /\ ~(y < x)
    BY <1>5, <2>1
  <2> QED
    BY <2>2
<1> QED
  BY <1>1, <1>7, <1>8, <1>9 DEF n

\* A load re-adds the records in the order of their identifiers: each has a rank.
LEMMA ReloadIndexes ==
    ASSUME records = [id \in DOMAIN records |-> records[id]],
           DOMAIN records \in SUBSET Ids, IsFiniteSet(DOMAIN records),
           \A id \in DOMAIN records : records[id] \in Points
    PROVE  /\ Indexes(Reloaded, records)
           /\ Cardinality(LiveSlots(Reloaded)) = Len(Reloaded)
<1> DEFINE S == DOMAIN records
           n == Cardinality(S)
           Chosen(i) == CHOOSE id \in S : Cardinality(Upto(S, id)) = i
<1>1. S \in SUBSET Int /\ IsFiniteSet(S)
  BY NumberAssumption
<1>2. n \in Nat
  BY <1>1, Counted
<1>7. ASSUME NEW i \in 1..n PROVE Chosen(i) \in S /\ Cardinality(Upto(S, Chosen(i))) = i
  <2>1. \E id \in S : Cardinality(Upto(S, id)) = i
    <3> HIDE DEF S
    <3> QED
      BY <1>1, Counted
  <2> QED
    BY <2>1
<1>8. ASSUME NEW id \in S PROVE \E i \in 1..n : Chosen(i) = id
  <2> DEFINE i == Cardinality(Upto(S, id))
  <2>1. i \in 1..n
    <3> HIDE DEF S
    <3> QED
      BY <1>1, Counted
  <2>2. Chosen(i) \in S /\ Cardinality(Upto(S, Chosen(i))) = i
    BY <1>7, <2>1
  <2>3. Chosen(i) = id
    <3> HIDE DEF S, Chosen
    <3> QED
      BY <1>1, <2>2, Counted
  <2> QED
    BY <2>1, <2>3
<1>9. Reloaded = [i \in 1..n |->
                    [id |-> Chosen(i), vector |-> records[Chosen(i)], deleted |-> FALSE]]
  BY DEF Reloaded, Upto
<1> HIDE DEF Chosen
<1>10. Reloaded \in [1..n -> Entry]
  BY <1>7, <1>9 DEF Entry
<1>11. Reloaded \in Seq(Entry) /\ Len(Reloaded) = n /\ DOMAIN Reloaded = 1..n
  <2> HIDE DEF n
  <2> QED
    BY <1>2, <1>10
<1>12. \A i \in 1..n : Reloaded[i].id = Chosen(i) /\ Reloaded[i].vector = records[Chosen(i)]
                       /\ Reloaded[i].deleted = FALSE
  BY <1>9
<1>13. LiveSlots(Reloaded) = 1..n
  BY <1>11, <1>12 DEF LiveSlots
<1>14. ASSUME NEW i \in 1..n, NEW j \in 1..n, Reloaded[i].id = Reloaded[j].id PROVE i = j
  BY <1>7, <1>12, <1>14
<1>15. S = {Reloaded[i].id : i \in 1..n}
  <2>1. \A i \in 1..n : Reloaded[i].id \in S
    BY <1>7, <1>12
  <2>2. \A id \in S : \E i \in 1..n : Reloaded[i].id = id
    BY <1>8, <1>12
  <2> HIDE DEF S, n
  <2> QED
    BY <2>1, <2>2
<1>16. Cardinality(1..n) = n
  BY <1>2, FS_Interval
<1> QED
  BY <1>11, <1>12, <1>13, <1>14, <1>15, <1>16 DEF Indexes

-----------------------------------------------------------------------------
(* The inductive invariant                                                  *)

Searching == [pc: {"check", "build", "probe"}, q: Points, k: Ks, nprobe: Nprobes]

Answer(q, k, nprobe, found) ==
    [pc |-> "done", q |-> q, k |-> k, nprobe |-> nprobe, found |-> found]

\* What a thread may be in the middle of.
IsCall(c) ==
    \/ c = Idle
    \/ c \in Searching
    \/ \E q \in Points, k \in Ks, nprobe \in Nprobes : \E found : c = Answer(q, k, nprobe, found)

Types ==
    /\ Indexes(entries, records)
    /\ live_count = Cardinality(LiveSlots(entries))
    /\ dirty \in BOOLEAN
    /\ call = [t \in Threads |-> call[t]]
    /\ \A t \in Threads : IsCall(call[t])

LEMMA InSearch ==
    ASSUME NEW c, IsCall(c)
    PROVE  /\ c.pc \in {"idle", "check", "build", "probe", "done"}
           /\ c.pc \in {"check", "build", "probe"} => c \in Searching
  BY DEF IsCall, Idle, Answer, Searching

LEMMA TypesInit == Init => Types
<1> SUFFICES ASSUME Init PROVE Types
  OBVIOUS
<1>1. entries = << >> /\ records = EmptyMap /\ live_count = 0
  BY DEF Init
<1>2. LiveSlots(entries) = {} /\ entries \in Seq(Entry) /\ DOMAIN entries = {}
  BY <1>1 DEF LiveSlots
<1>3. Indexes(entries, records)
  BY <1>1, <1>2 DEF Indexes, EmptyMap
<1>4. Cardinality(LiveSlots(entries)) = 0
  BY <1>2, FS_EmptySet
<1> QED
  BY <1>1, <1>3, <1>4 DEF Init, Types, IsCall

LEMMA TypesNext == ASSUME Types, [Next]_vars PROVE Types'
<1>1. ASSUME NEW id \in Ids, Remove(id) PROVE Types'
  <2>1. PICK s \in SlotOf(id) : ~entries[s].deleted
                                /\ entries' = [entries EXCEPT ![s].deleted = TRUE]
    BY <1>1 DEF Remove
  <2>2. s \in DOMAIN entries /\ entries[s].id = id
    BY DEF SlotOf
  <2>3. records' = Erase(records, entries[s].id) /\ live_count' = live_count - 1
        /\ dirty' = TRUE /\ call' = [t \in Threads |-> Idle]
    BY <1>1, <2>2 DEF Remove
  <2>4. Indexes(entries', records') /\ Cardinality(LiveSlots(entries')) = live_count'
    BY <2>1, <2>2, <2>3, RemoveIndexes DEF Types
  <2> QED
    BY <2>3, <2>4 DEF Types, IsCall
<1>2. ASSUME NEW id \in Ids, NEW v \in Points, Add(id, v) PROVE Types'
  <2>1. SlotOf(id) = SlotsOf(entries, id)
    BY DEF SlotOf, SlotsOf
  <2>2. /\ entries' = Added(entries, id, v) /\ records' = Put(records, id, v)
        /\ live_count' = IF \E s \in SlotsOf(entries, id) : ~entries[s].deleted
                         THEN live_count ELSE live_count + 1
        /\ dirty' = TRUE /\ call' = [t \in Threads |-> Idle]
    BY <1>2, <2>1 DEF Add, Added
  <2>3. Indexes(entries', records') /\ Cardinality(LiveSlots(entries')) = live_count'
    BY <2>2, AddIndexes DEF Types
  <2> QED
    BY <2>2, <2>3 DEF Types, IsCall
<1>3. ASSUME Reload PROVE Types'
  <2>1. /\ records = [id \in DOMAIN records |-> records[id]]
        /\ DOMAIN records = {entries[s].id : s \in LiveSlots(entries)}
        /\ \A s \in LiveSlots(entries) : records[entries[s].id] = entries[s].vector
        /\ entries \in Seq(Entry)
    BY DEF Types, Indexes
  <2>2. LiveSlots(entries) \in SUBSET DOMAIN entries /\ IsFiniteSet(LiveSlots(entries))
        /\ \A s \in DOMAIN entries : entries[s] \in Entry
    BY <2>1, LiveSlotsFinite
  <2>3. DOMAIN records \in SUBSET Ids /\ \A id \in DOMAIN records : records[id] \in Points
    BY <2>1, <2>2 DEF Entry
  <2>4. IsFiniteSet(DOMAIN records)
    <3> DEFINE f == [s \in LiveSlots(entries) |-> entries[s].id]
    <3>1. f \in Surjection(LiveSlots(entries), DOMAIN records)
      BY <2>1 DEF Surjection
    <3> QED
      BY <2>2, <3>1, FS_Surjection
  <2>5. Indexes(Reloaded, records) /\ Cardinality(LiveSlots(Reloaded)) = Len(Reloaded)
    BY <2>1, <2>3, <2>4, ReloadIndexes
  <2>6. entries' = Reloaded /\ records' = records /\ live_count' = Len(Reloaded)
        /\ dirty' = TRUE /\ call' = [t \in Threads |-> Idle]
    BY <1>3 DEF Reload
  <2> QED
    BY <2>5, <2>6 DEF Types, IsCall
<1>4. ASSUME NEW t \in Threads,
             \/ \E q \in Points, k \in Ks, nprobe \in Nprobes : StartSearch(t, q, k, nprobe)
             \/ CheckDirty(t) \/ Build(t) \/ Probe(t)
      PROVE  Types'
  <2>1. UNCHANGED <<entries, live_count, records>> /\ dirty' \in BOOLEAN
    BY <1>4 DEF Types, StartSearch, CheckDirty, Build, Probe, cache
  <2>2. \E c : IsCall(c) /\ call' = [call EXCEPT ![t] = c]
    <3>1. CASE \E q \in Points, k \in Ks, nprobe \in Nprobes : StartSearch(t, q, k, nprobe)
      <4>1. PICK q \in Points, k \in Ks, nprobe \in Nprobes : StartSearch(t, q, k, nprobe)
        BY <3>1
      <4>2. IsCall(Answer(q, k, nprobe, {}))
        BY DEF IsCall
      <4>3. IsCall([pc |-> "check", q |-> q, k |-> k, nprobe |-> nprobe])
        BY DEF IsCall, Searching
      <4>4. \/ call' = [call EXCEPT ![t] = Answer(q, k, nprobe, {})]
            \/ call' = [call EXCEPT ![t] = [pc |-> "check", q |-> q, k |-> k, nprobe |-> nprobe]]
        BY <4>1 DEF StartSearch, Set, Answer
      <4> QED
        BY <4>2, <4>3, <4>4
    <3>2. ASSUME NEW p \in {"build", "probe"}, call[t] \in Searching, call' = [call EXCEPT ![t].pc = p]
          PROVE  \E c : IsCall(c) /\ call' = [call EXCEPT ![t] = c]
      <4> DEFINE c == [call[t] EXCEPT !.pc = p]
      <4>1. call' = [call EXCEPT ![t] = c]
        BY <3>2
      <4>2. c \in Searching
        BY <3>2 DEF Searching
      <4> QED
        BY <4>1, <4>2 DEF IsCall
    <3>3. CASE CheckDirty(t)
      BY <3>2, <3>3, InSearch DEF CheckDirty, Types
    <3>4. CASE Build(t)
      BY <3>2, <3>4, InSearch DEF Build, Types
    <3>5. CASE Probe(t)
      <4>1. call[t] \in Searching
        BY <3>5, InSearch DEF Probe, Types
      <4> DEFINE found == Found(call[t].q, call[t].k, call[t].nprobe)
                 c == Answer(call[t].q, call[t].k, call[t].nprobe, found)
      <4>2. call' = [call EXCEPT ![t] = c]
        BY <3>5 DEF Probe, Set, Answer
      <4> HIDE DEF found
      <4>3. IsCall(c)
        BY <4>1 DEF Searching, IsCall
      <4> QED
        BY <4>2, <4>3
    <3> QED
      BY <1>4, <3>1, <3>3, <3>4, <3>5
  <2> QED
    BY <2>1, <2>2 DEF Types
<1>5. CASE UNCHANGED vars
  BY <1>5 DEF vars, cache, Types
<1> QED
  BY <1>1, <1>2, <1>3, <1>4, <1>5 DEF Next

LEMMA TypesInv == Spec => []Types
  BY TypesInit, TypesNext, PTL DEF Spec

\* IndexAgrees: for any number of threads and searches, the index knows exactly the
\* stored records with their latest vectors, through replacement, removal, revival
\* and reload (ivf_index.cpp:43-83): what Collection assumes of an index.
THEOREM IndexExact == Spec => []IndexAgrees
<1>1. ASSUME Types PROVE IndexAgrees
  <2>1. /\ entries \in Seq(Entry) /\ \A s \in DOMAIN entries : entries[s] \in Entry
        /\ \A s, x \in DOMAIN entries : entries[s].id = entries[x].id => s = x
        /\ records = [id \in DOMAIN records |-> records[id]]
        /\ DOMAIN records = {entries[s].id : s \in LiveSlots(entries)}
        /\ \A s \in LiveSlots(entries) : records[entries[s].id] = entries[s].vector
    BY <1>1 DEF Types, Indexes
  <2>2. ASSUME NEW id PROVE Cardinality(SlotOf(id)) =< 1
    <3>1. CASE SlotOf(id) = {}
      BY <3>1, FS_EmptySet
    <3>2. CASE SlotOf(id) # {}
      <4>1. PICK s : s \in SlotOf(id)
        BY <3>2
      <4>2. SlotOf(id) = {s}
        BY <2>1, <4>1 DEF SlotOf
      <4>3. Cardinality({s}) = 1
        BY FS_Singleton
      <4> QED
        BY <4>2, <4>3
    <3> QED
      BY <3>1, <3>2
  <2>3. TypeOK
    BY <1>1, <2>1, <2>2, InSearch DEF Types, TypeOK, Entry
  <2>4. ASSUME NEW id \in DOMAIN records
        PROVE  records[id] = entries[CHOOSE x \in SlotOf(id) : TRUE].vector
    <3>1. PICK s \in LiveSlots(entries) : entries[s].id = id
      BY <2>1
    <3>2. SlotOf(id) = {s}
      BY <2>1, <3>1 DEF SlotOf, LiveSlots
    <3> QED
      BY <2>1, <3>1, <3>2
  <2>5. records = [id \in DOMAIN records |-> entries[CHOOSE x \in SlotOf(id) : TRUE].vector]
    BY <2>1, <2>4
  <2> QED
    BY <2>1, <2>3, <2>5 DEF IndexAgrees
<1> QED
  BY <1>1, TypesInv, PTL

-----------------------------------------------------------------------------
(* Cells: the nearest of the centroids                                      *)

Centroids == Int \X (Nat \ {0})

\* Centroid d of cs comes before centroid c in a ranking by distance from v.
Closer(v, cs, d, c) ==
    \/ Nearer(v, cs[d], cs[c])
    \/ ~Nearer(v, cs[c], cs[d]) /\ d < c

CloserOrder(v, cs, n) == {p \in (1..n) \X (1..n) : Closer(v, cs, p[1], p[2])}

LEMMA NearerParts ==
    ASSUME NEW v \in Int, NEW c \in Centroids
    PROVE  Abs(v * c[2] - c[1]) \in Int /\ c[2] \in Nat \ {0}
<1>1. c[1] \in Int /\ c[2] \in Nat \ {0}
  BY DEF Centroids
<1>2. v * c[2] - c[1] \in Int
  BY <1>1
<1> QED
  BY <1>1, <1>2 DEF Abs

LEMMA NearerOrder ==
    ASSUME NEW v \in Int, NEW a \in Centroids, NEW b \in Centroids, NEW c \in Centroids
    PROVE  /\ ~Nearer(v, a, a)
           /\ ~(Nearer(v, a, b) /\ Nearer(v, b, a))
           /\ ~Nearer(v, b, a) /\ ~Nearer(v, c, b) => ~Nearer(v, c, a)
<1> DEFINE x == Abs(v * a[2] - a[1])
           y == Abs(v * b[2] - b[1])
           z == Abs(v * c[2] - c[1])
           p == a[2]
           q == b[2]
           r == c[2]
<1>1. /\ x \in Int /\ y \in Int /\ z \in Int
      /\ p \in Nat \ {0} /\ q \in Nat \ {0} /\ r \in Nat \ {0}
  BY NearerParts
<1>2. /\ Nearer(v, a, a) <=> x * p < x * p
      /\ Nearer(v, a, b) <=> x * q < y * p
      /\ Nearer(v, b, a) <=> y * p < x * q
      /\ Nearer(v, c, b) <=> z * q < y * r
      /\ Nearer(v, c, a) <=> z * p < x * r
  BY DEF Nearer
<1> HIDE DEF x, y, z, p, q, r
<1>3. x * p \in Int /\ x * q \in Int /\ y * p \in Int /\ z * q \in Int /\ y * r \in Int
      /\ z * p \in Int /\ x * r \in Int
  BY <1>1
<1>4. ASSUME x * q =< y * p, y * r =< z * q PROVE x * r =< z * p
  BY <1>1, <1>4, FractionsOrdered
<1> QED
  BY <1>2, <1>3, <1>4

LEMMA CloserIsOrder ==
    ASSUME NEW v \in Int, NEW n \in Nat, NEW cs \in [1..n -> Centroids]
    PROVE  /\ StrictOrder(1..n, CloserOrder(v, cs, n))
           /\ \A c \in 1..n : Earlier(1..n, CloserOrder(v, cs, n), c) =
                                 {d \in 1..n : d # c /\ Closer(v, cs, d, c)}
<1> DEFINE R == CloserOrder(v, cs, n)
           L(d, c) == Nearer(v, cs[d], cs[c])
<1>1. \A d, c \in 1..n : <<d, c>> \in R <=> (L(d, c) \/ (~L(c, d) /\ d < c))
  BY DEF CloserOrder, Closer
<1>2. \A d \in 1..n : cs[d] \in Centroids
  OBVIOUS
<1>3. ASSUME NEW c \in 1..n, NEW d \in 1..n, NEW e \in 1..n
      PROVE  /\ ~L(c, c)
             /\ ~(L(c, d) /\ L(d, c))
             /\ ~L(d, c) /\ ~L(e, d) => ~L(e, c)
  BY <1>2, NearerOrder
<1> HIDE DEF R, L
<1>4. \A c \in 1..n : <<c, c>> \notin R
  BY <1>1, <1>3
<1>5. ASSUME NEW c \in 1..n, NEW d \in 1..n, NEW e \in 1..n, <<c, d>> \in R, <<d, e>> \in R
      PROVE  <<c, e>> \in R
  <2>1. L(c, d) \/ (~L(d, c) /\ c < d)
    BY <1>1, <1>5
  <2>2. L(d, e) \/ (~L(e, d) /\ d < e)
    BY <1>1, <1>5
  <2>3. ~L(d, c) /\ ~L(e, d)
    BY <1>3, <2>1, <2>2
  <2>4. ~L(e, c)
    BY <1>3, <2>3
  <2>5. ~L(c, e) /\ ~L(e, d) => ~L(c, d)
    BY <1>3
  <2>6. ~L(d, c) /\ ~L(c, e) => ~L(d, e)
    BY <1>3
  <2>7. L(c, e) \/ (~L(e, c) /\ c < e)
    BY <2>1, <2>2, <2>3, <2>4, <2>5, <2>6
  <2> QED
    BY <1>1, <2>7
<1>6. \A c, d \in 1..n : c # d => <<c, d>> \in R \/ <<d, c>> \in R
  BY <1>1
<1>7. StrictOrder(1..n, R)
  BY <1>4, <1>5, <1>6 DEF StrictOrder
<1>8. ASSUME NEW c \in 1..n
      PROVE  Earlier(1..n, R, c) = {d \in 1..n : d # c /\ Closer(v, cs, d, c)}
  <2>1. \A d \in 1..n : <<d, c>> \in R <=> d # c /\ Closer(v, cs, d, c)
    BY <1>4 DEF R, CloserOrder
  <2> QED
    BY <2>1 DEF Earlier
<1> QED
  BY <1>7, <1>8 DEF R

\* Some centroid is the nearest: the one with no other before it.
LEMMA NearestIs ==
    ASSUME NEW v \in Int, NEW n \in Nat \ {0}, NEW cs \in [1..n -> Centroids]
    PROVE  /\ Nearest(v, cs) \in 1..n
           /\ Earlier(1..n, CloserOrder(v, cs, n), Nearest(v, cs)) = {}
<1> DEFINE R == CloserOrder(v, cs, n)
           First(c) == /\ \A d \in 1..n : ~Nearer(v, cs[d], cs[c])
                       /\ \A d \in 1..(c - 1) : Nearer(v, cs[c], cs[d])
<1>1. IsFiniteSet(1..n) /\ Cardinality(1..n) = n
  BY FS_Interval
<1>2. StrictOrder(1..n, R)
  BY CloserIsOrder
<1>3. ASSUME NEW c \in 1..n PROVE First(c) <=> Earlier(1..n, R, c) = {}
  <2>1. Earlier(1..n, R, c) = {} <=> \A d \in 1..n : <<d, c>> \notin R
    BY DEF Earlier
  <2>2. \A d \in 1..n : <<d, c>> \notin R <=>
            (~Nearer(v, cs[d], cs[c]) /\ (d < c => Nearer(v, cs[c], cs[d])))
    BY DEF CloserOrder, Closer
  <2>3. \A d \in 1..(c - 1) : d \in 1..n /\ d < c
    OBVIOUS
  <2>4. \A d \in 1..n : d < c => d \in 1..(c - 1)
    OBVIOUS
  <2> QED
    BY <2>1, <2>2, <2>3, <2>4
<1>4. \E c \in 1..n : First(c)
  <2>1. PICK c \in 1..n : Cardinality(Earlier(1..n, R, c)) = 0
    <3> HIDE DEF R
    <3>1. 0 \in 0..(Cardinality(1..n) - 1)
      BY <1>1
    <3> QED
      BY <1>1, <1>2, <3>1, RankTaken
  <2>2. IsFiniteSet(Earlier(1..n, R, c))
    BY <1>1, FS_Subset DEF Earlier
  <2>3. Earlier(1..n, R, c) = {}
    BY <2>1, <2>2, FS_EmptySet
  <2> QED
    BY <1>3, <2>3
<1>5. Nearest(v, cs) = CHOOSE c \in 1..n : First(c)
  BY DEF Nearest
<1> HIDE DEF First
<1> QED
  BY <1>3, <1>4, <1>5

-----------------------------------------------------------------------------
(* Cells: the rebuild                                                       *)

\* The square root, or nlist, is brought within the number of points.
LEMMA CellCountIn ==
    ASSUME NEW nlist \in Nat, NEW n \in Nat \ {0} PROVE CellCount(nlist, n) \in 1..n
<1> DEFINE Root(m, r) == r * r =< m /\ m < (r + 1) * (r + 1)
           Q == {m \in 0..n : \E r \in 0..m : Root(m, r)}
<1>1. 0 \in Q
  <2>1. Root(0, 0)
    OBVIOUS
  <2> QED
    BY <2>1
<1>2. ASSUME NEW m \in 0..(n - 1), m \in Q PROVE m + 1 \in Q
  <2>1. PICK r \in 0..m : Root(m, r)
    BY <1>2
  <2>2. m \in Nat /\ r \in Nat /\ m + 1 \in 0..n
    OBVIOUS
  <2>3. (r + 1) * (r + 1) \in Nat /\ (r + 2) * (r + 2) = (r + 1) * (r + 1) + r + r + 3
        /\ r * r \in Nat /\ r + 1 + 1 = r + 2
    BY <2>2
  <2>4. CASE m + 1 < (r + 1) * (r + 1)
    <3>1. Root(m + 1, r)
      BY <2>1, <2>2, <2>3, <2>4
    <3> QED
      BY <2>2, <3>1
  <2>5. CASE m + 1 = (r + 1) * (r + 1)
    <3>1. Root(m + 1, r + 1) /\ r + 1 \in 0..(m + 1)
      BY <2>2, <2>3, <2>5
    <3> HIDE DEF Root
    <3>2. \E x \in 0..(m + 1) : Root(m + 1, x)
      BY <3>1
    <3> QED
      BY <2>2, <3>2
  <2> QED
    BY <2>1, <2>2, <2>3, <2>4, <2>5
<1>3. n \in Q
  <2> HIDE DEF Q
  <2>1. \A m \in 0..n : m \in Q
    BY <1>1, <1>2, Inductively
  <2> QED
    BY <2>1
<1> DEFINE root == CHOOSE r \in 0..n : Root(n, r)
<1>4. root \in Nat
  <2>1. \E r \in 0..n : Root(n, r)
    BY <1>3
  <2> HIDE DEF Root
  <2>2. root \in 0..n
    BY <2>1
  <2> QED
    BY <2>2
<1>5. CellCount(nlist, n) = LET k == IF nlist = 0 THEN root ELSE nlist
                            IN  IF k > n THEN n ELSE IF k < 1 THEN 1 ELSE k
  BY DEF CellCount
<1> HIDE DEF root
<1> QED
  BY <1>4, <1>5

\* A mean is a centroid, and depends on the previous one only when its cell is empty.
LEMMA MeanIs ==
    ASSUME NEW es \in Seq(Entry), NEW k \in Nat, NEW as \in [LiveSlots(es) -> 1..k],
           NEW c \in 1..k
    PROVE  /\ \A cs \in [1..k -> Centroids] : Mean(es, as, cs, c) \in Centroids
           /\ \A cs, ds : (\E s \in LiveSlots(es) : as[s] = c)
                             => Mean(es, as, cs, c) = Mean(es, as, ds, c)
           /\ \A cs : (\A s \in LiveSlots(es) : as[s] # c) => Mean(es, as, cs, c) = cs[c]
<1> DEFINE members == {s \in DOMAIN as : as[s] = c}
           Rec(f) == [M \in SUBSET members |->
                         IF M = {} THEN 0
                         ELSE es[CHOOSE s \in M : TRUE].vector + f[M \ {CHOOSE s \in M : TRUE}]]
           sum == CHOOSE f : f = Rec(f)
           p == [M \in SUBSET members |-> CHOOSE s \in M : TRUE]
           F == [x \in members \X Int |-> es[x[1]].vector + x[2]]
<1>1. DOMAIN as = LiveSlots(es) /\ members \in SUBSET LiveSlots(es)
  OBVIOUS
<1>2. IsFiniteSet(members) /\ Cardinality(members) \in Nat
  BY <1>1, LiveSlotsFinite, FS_Subset, FS_CardinalityType
<1>3. ASSUME NEW s \in members PROVE es[s].vector \in Int
  <2>1. s \in DOMAIN es /\ es[s] \in Entry
    BY <1>1, LiveSlotsFinite
  <2> QED
    BY <2>1, NumberAssumption DEF Entry
<1>4. Picks(p, members)
  BY DEF Picks
<1>5. F \in [members \X Int -> Int]
  <2> HIDE DEF members
  <2>1. ASSUME NEW x \in members \X Int PROVE es[x[1]].vector + x[2] \in Int
    <3>1. x[1] \in members /\ x[2] \in Int
      OBVIOUS
    <3>2. es[x[1]].vector \in Int
      BY <1>3, <3>1
    <3> QED
      BY <3>1, <3>2
  <2> QED
    BY <2>1
<1>6. \A s \in members, n \in Int : F[<<s, n>>] = es[s].vector + n
  OBVIOUS
<1>7. \A M \in SUBSET members : p[M] = CHOOSE s \in M : TRUE
  OBVIOUS
<1> HIDE DEF members, p, F
<1>8. PICK f : Folds(f, members, p, Int, 0, F)
  <2>1. 0 \in Int
    OBVIOUS
  <2> HIDE DEF Rec, sum
  <2> QED
    BY <1>2, <1>4, <1>5, <2>1, SubsetRecursion
<1>9. f = Rec(f)
  <2>0. /\ f \in [SUBSET members -> Int] /\ f[{}] = 0
        /\ \A M \in SUBSET members : M # {} => f[M] = F[<<p[M], f[M \ {p[M]}]>>]
    BY <1>8 DEF Folds
  <2>1. ASSUME NEW M \in SUBSET members PROVE f[M] = Rec(f)[M]
    <3>1. CASE M = {}
      BY <2>0, <3>1
    <3>2. CASE M # {}
      <4>1. p[M] \in members /\ M \ {p[M]} \in SUBSET members /\ f[M \ {p[M]}] \in Int
        BY <1>4, <2>0, <3>2 DEF Picks
      <4>2. f[M] = es[p[M]].vector + f[M \ {p[M]}]
        BY <1>6, <2>0, <3>2, <4>1
      <4>3. f[M] = es[CHOOSE s \in M : TRUE].vector + f[M \ {CHOOSE s \in M : TRUE}]
        BY <1>7, <4>2
      <4> QED
        BY <3>2, <4>3
    <3> QED
      BY <3>1, <3>2
  <2> QED
    BY <2>0, <2>1
<1>10. sum = Rec(sum)
  BY <1>9
<1>11. ASSUME NEW cs
       PROVE  Mean(es, as, cs, c) =
                  IF members = {} THEN cs[c] ELSE <<sum[members], Cardinality(members)>>
  BY DEF Mean, members
<1> HIDE DEF sum
<1>12. sum[members] \in Int
  <2> DEFINE P == {M \in SUBSET members : sum[M] \in Int}
  <2>1. {} \in P
    <3>1. sum[{}] = Rec(sum)[{}]
      BY <1>10
    <3> QED
      BY <3>1
  <2>2. ASSUME NEW M \in SUBSET members, M # {}, M \ {p[M]} \in P PROVE M \in P
    <3>1. p[M] \in members /\ sum[M \ {p[M]}] \in Int
      BY <1>4, <2>2 DEF Picks
    <3>2. sum[M] = Rec(sum)[M]
      BY <1>10
    <3>3. sum[M] = es[CHOOSE s \in M : TRUE].vector + sum[M \ {CHOOSE s \in M : TRUE}]
      BY <2>2, <3>2
    <3>4. sum[M] = es[p[M]].vector + sum[M \ {p[M]}]
      BY <1>7, <3>3
    <3> QED
      BY <1>3, <3>1, <3>4
  <2> HIDE DEF P, Rec
  <2>3. \A M \in SUBSET members : M # {} /\ M \ {p[M]} \in P => M \in P
    BY <2>2
  <2>4. \A M \in SUBSET members : M \in P
    BY <1>2, <1>4, <2>1, <2>3, SubsetInduction
  <2> QED
    BY <2>4 DEF P
<1>13. members # {} => Cardinality(members) \in Nat \ {0}
  BY <1>2, FS_EmptySet
<1>14. members = {} <=> \A s \in LiveSlots(es) : as[s] # c
  BY <1>1 DEF members
<1>15. ASSUME NEW cs \in [1..k -> Centroids] PROVE Mean(es, as, cs, c) \in Centroids
  <2>1. CASE members = {}
    <3>1. Mean(es, as, cs, c) = cs[c]
      BY <1>11, <2>1
    <3> QED
      BY <3>1
  <2>2. CASE members # {}
    <3>1. Mean(es, as, cs, c) = <<sum[members], Cardinality(members)>>
      BY <1>11, <2>2
    <3> QED
      BY <1>12, <1>13, <2>2, <3>1 DEF Centroids
  <2> QED
    BY <2>1, <2>2
<1>16. ASSUME NEW cs, NEW ds, \E s \in LiveSlots(es) : as[s] = c
       PROVE  Mean(es, as, cs, c) = Mean(es, as, ds, c)
  BY <1>11, <1>14, <1>16
<1>17. ASSUME NEW cs, \A s \in LiveSlots(es) : as[s] # c PROVE Mean(es, as, cs, c) = cs[c]
  BY <1>11, <1>14, <1>17
<1> QED
  BY <1>15, <1>16, <1>17

Assigned(es, cs) == [s \in LiveSlots(es) |-> Nearest(es[s].vector, cs)]
Means(es, as, cs) == [c \in DOMAIN cs |-> Mean(es, as, cs, c)]

Rounds(es, k) == [cs: [1..k -> Centroids], as: [LiveSlots(es) -> 1..k], done: BOOLEAN]

LEMMA AssignedIs ==
    ASSUME NEW es \in Seq(Entry), NEW k \in Nat \ {0}, NEW cs \in [1..k -> Centroids]
    PROVE  Assigned(es, cs) \in [LiveSlots(es) -> 1..k]
<1>1. ASSUME NEW s \in LiveSlots(es) PROVE Nearest(es[s].vector, cs) \in 1..k
  <2>1. s \in DOMAIN es /\ es[s] \in Entry
    BY LiveSlotsFinite
  <2>2. es[s].vector \in Int
    BY <2>1, NumberAssumption DEF Entry
  <2> QED
    BY <2>2, NearestIs
<1> QED
  BY <1>1 DEF Assigned

LEMMA MeansAre ==
    ASSUME NEW es \in Seq(Entry), NEW k \in Nat, NEW as \in [LiveSlots(es) -> 1..k],
           NEW cs \in [1..k -> Centroids]
    PROVE  Means(es, as, cs) \in [1..k -> Centroids]
  BY MeanIs DEF Means

\* Means of the same cells are the same, however often they are taken.
LEMMA MeansSettle ==
    ASSUME NEW es \in Seq(Entry), NEW k \in Nat, NEW as \in [LiveSlots(es) -> 1..k],
           NEW cs \in [1..k -> Centroids]
    PROVE  Means(es, as, Means(es, as, cs)) = Means(es, as, cs)
<1> DEFINE ds == Means(es, as, cs)
<1>1. ds \in [1..k -> Centroids]
  BY MeansAre
<1>2. ASSUME NEW c \in 1..k PROVE Mean(es, as, ds, c) = ds[c]
  <2>1. ds[c] = Mean(es, as, cs, c)
    BY DEF Means
  <2> HIDE DEF ds
  <2>2. CASE \E s \in LiveSlots(es) : as[s] = c
    <3>1. \A xs, ys : (\E s \in LiveSlots(es) : as[s] = c)
                         => Mean(es, as, xs, c) = Mean(es, as, ys, c)
      BY MeanIs
    <3>2. Mean(es, as, cs, c) = Mean(es, as, ds, c)
      BY <2>2, <3>1
    <3> QED
      BY <2>1, <3>2
  <2>3. CASE \A s \in LiveSlots(es) : as[s] # c
    BY <2>3, MeanIs
  <2> QED
    BY <2>2, <2>3
<1> HIDE DEF ds
<1>3. Means(es, as, ds) = [c \in 1..k |-> Mean(es, as, ds, c)]
  BY <1>1 DEF Means
<1>4. Means(es, as, ds) = [c \in 1..k |-> ds[c]]
  BY <1>2, <1>3
<1>5. ds = [c \in 1..k |-> ds[c]]
  BY <1>1
<1> QED
  BY <1>4, <1>5 DEF ds

\* Lloyd's iterations end with every live slot assigned to a cell; when they stopped
\* because nothing changed, to the cell whose centroid is nearest.
LEMMA LloydIs ==
    ASSUME NEW es \in Seq(Entry), NEW k \in Nat \ {0}, NEW cs0 \in [1..k -> Centroids]
    PROVE  /\ Lloyd(es, cs0) \in Rounds(es, k)
           /\ Lloyd(es, cs0).done => Lloyd(es, cs0).as = Assigned(es, Lloyd(es, cs0).cs)
<1> DEFINE K == kMaxKMeansIterations
           A == Rounds(es, k)
           Step(prev, n) ==
               IF prev.done THEN prev
               ELSE [cs |-> Means(es, Assigned(es, prev.cs), prev.cs),
                     as |-> Assigned(es, prev.cs),
                     done |-> Assigned(es, prev.cs) = prev.as /\ n > 1]
           first == [cs |-> cs0, as |-> [s \in LiveSlots(es) |-> 1], done |-> FALSE]
           Rec(f) == [n \in 0..K |-> IF n = 0 THEN first ELSE Step(f[n - 1], n)]
           iter == CHOOSE f : f = Rec(f)
           F == [x \in (1..K) \X A |-> Step(x[2], x[1])]
<1>1. K \in Nat \ {0}
  BY IterationAssumption
<1>2. Lloyd(es, cs0) = iter[K]
  BY DEF Lloyd, Assigned, Means
<1>3. first \in A /\ ~first.done
  BY <1>1 DEF Rounds
<1>4. ASSUME NEW prev \in A, NEW n \in 1..K PROVE Step(prev, n) \in A
  <2>1. CASE prev.done
    BY <2>1
  <2>2. CASE ~prev.done
    <3>1. prev.cs \in [1..k -> Centroids] /\ prev.as \in [LiveSlots(es) -> 1..k]
      BY DEF Rounds
    <3> DEFINE as == Assigned(es, prev.cs)
               cs == Means(es, as, prev.cs)
               done == as = prev.as /\ n > 1
    <3>2. as \in [LiveSlots(es) -> 1..k]
      BY <3>1, AssignedIs
    <3>3. cs \in [1..k -> Centroids]
      BY <3>1, <3>2, MeansAre
    <3>4. Step(prev, n) = [cs |-> cs, as |-> as, done |-> done]
      BY <2>2
    <3>5. done \in BOOLEAN
      OBVIOUS
    <3> HIDE DEF as, cs, done, Step
    <3>6. [cs |-> cs, as |-> as, done |-> done] \in Rounds(es, k)
      BY <3>2, <3>3, <3>5 DEF Rounds
    <3> QED
      BY <3>4, <3>6
  <2> QED
    BY <2>1, <2>2
<1> HIDE DEF A, first, K
<1>5. F \in [(1..K) \X A -> A] /\ \A n \in 1..K, prev \in A : F[<<n, prev>>] = Step(prev, n)
  <2> HIDE DEF Step
  <2>1. \A x \in (1..K) \X A : Step(x[2], x[1]) \in A
    BY <1>4
  <2> QED
    BY <2>1
<1>6. PICK f : Iteration(f, K, A, first, F)
  <2> HIDE DEF F
  <2> QED
    BY <1>1, <1>3, <1>5, Iterates
<1> HIDE DEF F
<1>7. f = Rec(f)
  <2> HIDE DEF Step
  <2>1. f \in [0..K -> A] /\ f[0] = first
    BY <1>6 DEF Iteration
  <2>2. ASSUME NEW n \in 1..K PROVE f[n] = Step(f[n - 1], n)
    <3>1. n - 1 \in 0..K
      BY <1>1
    <3> QED
      BY <1>5, <1>6, <2>1, <3>1 DEF Iteration
  <2>3. \A n \in 0..K : n = 0 \/ n \in 1..K
    BY <1>1
  <2> QED
    BY <2>1, <2>2, <2>3
<1>8. iter = Rec(iter)
  BY <1>7
<1> HIDE DEF iter
<1>9. iter[0] = first /\ \A n \in 1..K : iter[n] = Step(iter[n - 1], n)
  <2> HIDE DEF Step
  <2>1. 0 \in 0..K /\ \A n \in 1..K : n \in 0..K /\ n # 0
    BY <1>1
  <2> QED
    BY <1>8, <2>1
\* What is true of every round: after the first, the centroids are means, and a
\* round that changed nothing left the nearest cells.
<1> DEFINE Good(i) ==
              /\ iter[i] \in A
              /\ i > 0 /\ ~iter[i].done =>
                    \E p \in [1..k -> Centroids] : iter[i].cs = Means(es, iter[i].as, p)
              /\ iter[i].done => iter[i].as = Assigned(es, iter[i].cs)
           P == {i \in 0..K : Good(i)}
<1>10. 0 \in P
  BY <1>1, <1>3, <1>9
<1>11. ASSUME NEW i \in 0..(K - 1), i \in P PROVE i + 1 \in P
  <2> DEFINE prev == iter[i]
             as == Assigned(es, prev.cs)
  <2>1. i + 1 \in 1..K /\ i + 1 - 1 = i /\ i \in Nat
    BY <1>1
  <2>2. prev \in A /\ Good(i)
    BY <1>11
  <2>3. iter[i + 1] = Step(prev, i + 1)
    <3> HIDE DEF Step
    <3> QED
      BY <1>9, <2>1
  <2>4. iter[i + 1] \in A
    BY <1>4, <2>1, <2>2, <2>3
  <2>5. CASE prev.done
    <3>1. iter[i + 1] = prev
      BY <2>3, <2>5
    <3> QED
      BY <2>1, <2>2, <2>4, <2>5, <3>1
  <2>6. CASE ~prev.done
    <3> DEFINE cs == Means(es, as, prev.cs)
               done == as = prev.as /\ i + 1 > 1
    <3>1. iter[i + 1] = [cs |-> cs, as |-> as, done |-> done]
      BY <2>3, <2>6
    <3>2. iter[i + 1].cs = cs /\ iter[i + 1].as = as /\ iter[i + 1].done = done
      <4> HIDE DEF cs, as, done
      <4> QED
        BY <3>1
    <3>3. prev.cs \in [1..k -> Centroids] /\ prev.as \in [LiveSlots(es) -> 1..k]
      BY <2>2 DEF A, Rounds
    <3>4. ASSUME iter[i + 1].done PROVE Means(es, as, prev.cs) = prev.cs
      <4>1. done
        <5> HIDE DEF done
        <5> QED
          BY <3>2, <3>4
      <4>2. as = prev.as /\ i > 0
        BY <2>1, <4>1
      <4>3. PICK p \in [1..k -> Centroids] : prev.cs = Means(es, prev.as, p)
        BY <2>2, <2>6, <4>2
      <4>4. Means(es, prev.as, Means(es, prev.as, p)) = Means(es, prev.as, p)
        <5> HIDE DEF prev
        <5> QED
          BY <3>3, MeansSettle
      <4> QED
        BY <4>2, <4>3, <4>4
    <3>5. iter[i + 1].done => iter[i + 1].as = Assigned(es, iter[i + 1].cs)
      BY <3>2, <3>4
    <3>6. \E p \in [1..k -> Centroids] : iter[i + 1].cs = Means(es, iter[i + 1].as, p)
      BY <3>2, <3>3
    <3> HIDE DEF Step
    <3> QED
      BY <2>1, <2>4, <3>5, <3>6
  <2> QED
    BY <2>5, <2>6
<1> HIDE DEF P, Step
<1>12. \A i \in 0..K : i \in P
  BY <1>1, <1>10, <1>11, Inductively
<1>13. K \in P
  BY <1>1, <1>12
<1> QED
  BY <1>2, <1>13 DEF P, A

\* The centroids a rebuild starts from: the first of the shuffled live entries.
Start(es) ==
    LET live == LiveSlots(es)
        n == Cardinality(live)
    IN  [c \in 1..CellCount(requested_nlist, n) |->
            <<es[Nth(live, shuffle[n][c])].vector, 1>>]

\* The k-means of the current entries ends before its iterations are used up.
Converged == LiveSlots(entries) = {} \/ Lloyd(entries, Start(entries)).done

\* cs and lists are cells of the entries es: no more than there are live entries, and
\* each of those in one list; in the nearest if the iterations converged.
CellsOf(es, cs, lists, converged) ==
    \/ LiveSlots(es) = {} /\ cs = << >> /\ lists = << >>
    \/ \E k \in 1..Cardinality(LiveSlots(es)) :
          /\ cs \in [1..k -> Centroids]
          /\ \E as \in [LiveSlots(es) -> 1..k] :
                /\ lists = [c \in 1..k |-> {s \in LiveSlots(es) : as[s] = c}]
                /\ converged => as = Assigned(es, cs)

LEMMA StartIs ==
    ASSUME NEW es, NEW recs, Indexes(es, recs), LiveSlots(es) # {},
           requested_nlist \in Nat, shuffle \in Shuffles
    PROVE  /\ CellCount(requested_nlist, Cardinality(LiveSlots(es)))
                  \in 1..Cardinality(LiveSlots(es))
           /\ Start(es) \in
                  [1..CellCount(requested_nlist, Cardinality(LiveSlots(es))) -> Centroids]
<1> DEFINE live == LiveSlots(es)
           n == Cardinality(live)
           k == CellCount(requested_nlist, n)
<1>1. /\ es \in Seq(Entry) /\ \A s \in DOMAIN es : es[s] \in Entry
      /\ \A s, x \in DOMAIN es : es[s].id = es[x].id => s = x
  BY DEF Indexes
<1>2. /\ live \in SUBSET (1..Len(es)) /\ DOMAIN es = 1..Len(es) /\ IsFiniteSet(live)
      /\ n \in Nat
  BY <1>1, LiveSlotsFinite
<1>3. n \in Nat \ {0} /\ live # {}
  BY <1>2, FS_EmptySet
<1>4. k \in 1..n
  BY <1>3, CellCountIn
<1>5. n \in 0..Cardinality(Ids)
  <2> DEFINE f == [s \in live |-> es[s].id]
  <2>1. f \in [live -> Ids]
    BY <1>1, <1>2 DEF Entry
  <2>2. \A s, x \in live : f[s] = f[x] => s = x
    BY <1>1, <1>2
  <2> HIDE DEF f
  <2>3. f \in Injection(live, Ids)
    BY <2>1, <2>2 DEF Injection, IsInjective
  <2>4. IsFiniteSet(Ids) /\ Cardinality(Ids) \in Nat
    BY ShuffleAssumption, FS_CardinalityType
  <2>5. n =< Cardinality(Ids)
    BY <2>3, <2>4, FS_Injection
  <2> QED
    BY <1>2, <2>4, <2>5
<1>6. shuffle[n] \in [1..n -> 1..n]
  <2> HIDE DEF n
  <2> QED
    BY <1>5, ShuffleAssumption
<1>7. live \in SUBSET Int
  BY <1>2
<1> HIDE DEF live, k
<1>8. ASSUME NEW c \in 1..k PROVE <<es[Nth(live, shuffle[n][c])].vector, 1>> \in Centroids
  <2>1. c \in 1..n
    BY <1>3, <1>4
  <2>2. shuffle[n][c] \in 1..n
    BY <1>6, <2>1
  <2>3. \E s \in live : Cardinality(Upto(live, s)) = shuffle[n][c]
    BY <1>2, <1>7, <2>2, Counted
  <2>4. Nth(live, shuffle[n][c]) \in live
    BY <2>3 DEF Nth, Upto
  <2>5. es[Nth(live, shuffle[n][c])] \in Entry
    BY <1>1, <1>2, <2>4
  <2>6. es[Nth(live, shuffle[n][c])].vector \in Int
    BY <2>5, NumberAssumption DEF Entry
  <2> QED
    BY <2>6 DEF Centroids
<1>9. Start(es) = [c \in 1..k |-> <<es[Nth(live, shuffle[n][c])].vector, 1>>]
  BY DEF Start, live, k
<1>10. Start(es) \in [1..k -> Centroids]
  BY <1>8, <1>9
<1> QED
  BY <1>4, <1>10 DEF k, live

LEMMA CellsAre ==
    ASSUME NEW es, NEW recs, Indexes(es, recs), requested_nlist \in Nat, shuffle \in Shuffles
    PROVE  CellsOf(es, Cells(es).centroids, Cells(es).lists, Lloyd(es, Start(es)).done)
<1> DEFINE live == LiveSlots(es)
           n == Cardinality(live)
           k == CellCount(requested_nlist, n)
           final == Lloyd(es, Start(es))
<1>1. es \in Seq(Entry)
  BY DEF Indexes
<1>2. IsFiniteSet(live)
  BY <1>1, LiveSlotsFinite
<1>3. CASE live = {}
  <2>1. n = 0
    BY <1>3, FS_EmptySet
  <2>2. Cells(es) = [centroids |-> << >>, lists |-> << >>]
    BY <2>1 DEF Cells
  <2> QED
    BY <1>3, <2>2 DEF CellsOf
<1>4. CASE live # {}
  <2>1. n # 0 /\ n \in Nat
    BY <1>2, <1>4, FS_EmptySet, FS_CardinalityType
  <2>2. k \in 1..n /\ Start(es) \in [1..k -> Centroids]
    BY <1>4, StartIs
  <2>3. k \in Nat \ {0}
    BY <2>1, <2>2
  <2>4. final \in Rounds(es, k) /\ (final.done => final.as = Assigned(es, final.cs))
    BY <1>1, <2>2, <2>3, LloydIs
  <2>5. Cells(es) = [centroids |-> final.cs,
                     lists |-> [c \in 1..k |-> {s \in live : final.as[s] = c}]]
    BY <2>1 DEF Cells, Start
  <2> HIDE DEF final, k
  <2>6. final.cs \in [1..k -> Centroids] /\ final.as \in [live -> 1..k]
    BY <2>4 DEF Rounds
  <2>7. Cells(es).centroids = final.cs
        /\ Cells(es).lists = [c \in 1..k |-> {s \in live : final.as[s] = c}]
    BY <2>5
  <2>8. CellsOf(es, Cells(es).centroids, Cells(es).lists, final.done)
    BY <2>2, <2>4, <2>6, <2>7 DEF CellsOf
  <2> QED
    BY <2>8 DEF final
<1> QED
  BY <1>3, <1>4

-----------------------------------------------------------------------------
(* The search                                                               *)

\* The slots of S in the order of a result.
ResultOrder(q, S) == {p \in S \X S : Before(q, p[1], p[2])}

\* Sort and truncate: at most k of the slots, and none nearer than the first.
LEMMA TopIs ==
    ASSUME Types, NEW q \in Int, NEW k \in Nat, NEW S \in SUBSET DOMAIN entries
    PROVE  /\ Top(q, k, S) \in SUBSET S /\ Cardinality(Top(q, k, S)) =< k
           /\ \A s \in S : k > 0 => \E m \in Top(q, k, S) : Distance(q, m) =< Distance(q, s)
<1> DEFINE R == ResultOrder(q, S)
<1>1. /\ entries \in Seq(Entry) /\ DOMAIN entries = 1..Len(entries) /\ Len(entries) \in Nat
      /\ \A s, x \in DOMAIN entries : entries[s].id = entries[x].id => s = x
  BY LiveSlotsFinite DEF Types, Indexes
<1>2. IsFiniteSet(S)
  <2>1. IsFiniteSet(1..Len(entries)) /\ S \in SUBSET (1..Len(entries))
    BY <1>1, FS_Interval
  <2> QED
    BY <2>1, FS_Subset
<1>3. \A s \in S : Distance(q, s) \in Nat /\ entries[s].id \in Int
  <2>1. ASSUME NEW s \in S PROVE Distance(q, s) \in Nat /\ entries[s].id \in Int
    <3>1. entries[s] \in Entry
      BY <1>1
    <3>2. entries[s].vector \in Int /\ entries[s].id \in Int
      BY <3>1, NumberAssumption DEF Entry
    <3>3. q - entries[s].vector \in Int
      BY <3>2
    <3> QED
      BY <3>2, <3>3 DEF Distance, Abs
  <2> QED
    BY <2>1
<1>4. \A s, x \in S : <<s, x>> \in R <=>
          \/ Distance(q, s) < Distance(q, x)
          \/ (Distance(q, s) = Distance(q, x) /\ entries[s].id < entries[x].id)
  BY DEF ResultOrder, Before
<1>5. \A s, x \in S : entries[s].id = entries[x].id => s = x
  BY <1>1
<1>6. StrictOrder(S, R)
  <2> DEFINE d(s) == Distance(q, s)
             e(s) == entries[s].id
  <2>1. \A s \in S : d(s) \in Int /\ e(s) \in Int
    BY <1>3
  <2>2. \A s, x \in S : <<s, x>> \in R <=> (d(s) < d(x) \/ (d(s) = d(x) /\ e(s) < e(x)))
    BY <1>4
  <2>3. \A s, x \in S : e(s) = e(x) => s = x
    BY <1>5
  <2> HIDE DEF R, d, e
  <2>4. \A s \in S : <<s, s>> \notin R
    BY <2>1, <2>2
  <2>5. \A s, x, y \in S : <<s, x>> \in R /\ <<x, y>> \in R => <<s, y>> \in R
    BY <2>1, <2>2
  <2>6. \A s, x \in S : s # x => <<s, x>> \in R \/ <<x, s>> \in R
    BY <2>1, <2>2, <2>3
  <2> QED
    BY <2>4, <2>5, <2>6 DEF StrictOrder
<1>7. \A s \in S : {x \in S : Before(q, x, s)} = Earlier(S, R, s)
  BY DEF Earlier, ResultOrder
<1>8. Top(q, k, S) = {s \in S : Cardinality(Earlier(S, R, s)) < k}
  BY <1>7 DEF Top
<1> HIDE DEF R
<1>9. Cardinality(Top(q, k, S)) =< k
  BY <1>2, <1>6, <1>8, RanksBelow
<1>10. ASSUME NEW s \in S, k > 0
       PROVE  \E m \in Top(q, k, S) : Distance(q, m) =< Distance(q, s)
  <2>1. 0 \in 0..(Cardinality(S) - 1)
    BY <1>2, FS_EmptySet, FS_CardinalityType
  <2>2. PICK m \in S : Cardinality(Earlier(S, R, m)) = 0
    BY <1>2, <1>6, <2>1, RankTaken
  <2>3. m \in Top(q, k, S)
    BY <1>8, <1>10, <2>2
  <2>4. <<s, m>> \notin R
    <3>1. IsFiniteSet(Earlier(S, R, m))
      BY <1>2, FS_Subset DEF Earlier
    <3>2. Earlier(S, R, m) = {}
      BY <2>2, <3>1, FS_EmptySet
    <3> QED
      BY <3>2 DEF Earlier
  <2>5. ~(Distance(q, s) < Distance(q, m))
    BY <1>4, <2>4
  <2>6. Distance(q, m) =< Distance(q, s)
    BY <1>3, <2>5
  <2> QED
    BY <2>3, <2>6
<1> QED
  BY <1>8, <1>9, <1>10

\* nprobe is raised to 1, so the nearest cell is probed; as many as there are, all.
LEMMA ProbedIs ==
    ASSUME NEW q \in Int, NEW n \in Nat, centroids \in [1..n -> Centroids], NEW nprobe \in Int
    PROVE  /\ Probed(q, nprobe) \in SUBSET (1..n)
           /\ nprobe >= n => Probed(q, nprobe) = 1..n
           /\ n > 0 => Nearest(q, centroids) \in Probed(q, nprobe)
<1> DEFINE R == CloserOrder(q, centroids, n)
           least == IF nprobe < 1 THEN 1 ELSE nprobe
<1>1. StrictOrder(1..n, R)
      /\ \A c \in 1..n : Earlier(1..n, R, c) = {d \in 1..n : d # c /\ Closer(q, centroids, d, c)}
  BY CloserIsOrder
<1>2. Probed(q, nprobe) =
          {c \in 1..n : Cardinality({d \in 1..n : d # c /\ Closer(q, centroids, d, c)}) < least}
  BY DEF Probed, Closer
<1> HIDE DEF R
<1>3. Probed(q, nprobe) = {c \in 1..n : Cardinality(Earlier(1..n, R, c)) < least}
  BY <1>1, <1>2
<1>4. IsFiniteSet(1..n) /\ Cardinality(1..n) = n
  BY FS_Interval
<1>5. least \in Nat \ {0} /\ (nprobe >= n => n =< least)
  OBVIOUS
<1> HIDE DEF least
<1>6. ASSUME nprobe >= n, NEW c \in 1..n PROVE c \in Probed(q, nprobe)
  <2>1. Cardinality(Earlier(1..n, R, c)) \in 0..(n - 1)
    BY <1>1, <1>4, RankGrows
  <2> QED
    BY <1>3, <1>5, <1>6, <2>1
<1>7. ASSUME n > 0 PROVE Nearest(q, centroids) \in Probed(q, nprobe)
  <2>1. Nearest(q, centroids) \in 1..n /\ Earlier(1..n, R, Nearest(q, centroids)) = {}
    BY <1>7, NearestIs DEF R
  <2>2. Cardinality({}) = 0
    BY FS_EmptySet
  <2> QED
    BY <1>3, <1>5, <2>1, <2>2
<1>8. Probed(q, nprobe) \in SUBSET (1..n)
  BY <1>3
<1>9. nprobe >= n => Probed(q, nprobe) = 1..n
  BY <1>6, <1>8
<1> QED
  BY <1>7, <1>8, <1>9

-----------------------------------------------------------------------------
(* The cached cells                                                         *)

\* A clean cache holds the cells of the entries as they are now; a search reads it only
\* when it is clean, and has answered from it, or because there was nothing to find.
Cached ==
    /\ requested_nlist \in Nat /\ shuffle \in Shuffles
    /\ ~dirty => /\ centroids = Cells(entries).centroids
                 /\ inverted_lists = Cells(entries).lists
    /\ \A t \in Threads :
          /\ call[t].pc = "probe" => ~dirty
          /\ call[t].pc = "done" =>
                \/ (call[t].k = 0 \/ live_count = 0) /\ call[t].found = {}
                \/ ~dirty /\ call[t].found = Found(call[t].q, call[t].k, call[t].nprobe)

LEMMA CachedInit == Init => Cached
  BY NumberAssumption DEF Init, Cached, Idle

LEMMA SameCells ==
    ASSUME UNCHANGED <<requested_nlist, shuffle, entries>>
    PROVE  Cells(entries)' = Cells(entries)
  BY DEF Cells

LEMMA SameFound ==
    ASSUME UNCHANGED <<entries, centroids, inverted_lists>>
    PROVE  \A q, k, nprobe : Found(q, k, nprobe)' = Found(q, k, nprobe)
  BY DEF Found, Top, Before, Distance, Probed

LEMMA CachedNext == ASSUME Types, Cached, [Next]_vars PROVE Cached'
<1>1. requested_nlist \in Nat /\ shuffle \in Shuffles /\ dirty \in BOOLEAN
      /\ call = [t \in Threads |-> call[t]] /\ \A t \in Threads : IsCall(call[t])
  BY DEF Cached, Types
\* A mutation leaves a dirty cache and nobody in a search.
<1>2. ASSUME dirty' = TRUE, call' = [t \in Threads |-> Idle],
             UNCHANGED <<requested_nlist, shuffle>>
      PROVE  Cached'
  BY <1>1, <1>2 DEF Cached, Idle
<1>3. ASSUME \/ \E id \in Ids : Remove(id) \/ \E v \in Points : Add(id, v)
             \/ Reload
      PROVE  Cached'
  BY <1>2, <1>3 DEF Remove, Add, Reload
\* A step of a search leaves the entries alone.
<1>4. ASSUME NEW t \in Threads, NEW c, call' = [call EXCEPT ![t] = c],
             UNCHANGED <<requested_nlist, shuffle, entries, live_count, dirty>>,
             dirty \/ UNCHANGED <<centroids, inverted_lists>>,
             c.pc = "probe" => ~dirty,
             c.pc = "done" => \/ (c.k = 0 \/ live_count = 0) /\ c.found = {}
                              \/ ~dirty /\ c.found = Found(c.q, c.k, c.nprobe)
      PROVE  Cached'
  <2>1. Cells(entries)' = Cells(entries)
    BY <1>4, SameCells
  <2>2. ~dirty' => /\ centroids' = Cells(entries)'.centroids
                   /\ inverted_lists' = Cells(entries)'.lists
    BY <1>4, <2>1 DEF Cached
  <2>3. ASSUME NEW u \in Threads
        PROVE  /\ call'[u].pc = "probe" => ~dirty'
               /\ call'[u].pc = "done" =>
                     \/ (call'[u].k = 0 \/ live_count' = 0) /\ call'[u].found = {}
                     \/ ~dirty' /\ call'[u].found = Found(call[u].q, call[u].k, call[u].nprobe)'
    <3>1. ~dirty => \A q, k, nprobe : Found(q, k, nprobe)' = Found(q, k, nprobe)
      BY <1>4, SameFound
    <3>2. CASE u = t
      <4>1. call'[u] = c
        BY <1>1, <1>4, <3>2
      <4> QED
        BY <1>4, <3>1, <4>1
    <3>3. CASE u # t
      <4>1. call'[u] = call[u]
        BY <1>1, <1>4, <3>3
      <4> QED
        BY <1>4, <3>1, <4>1 DEF Cached
    <3> QED
      BY <3>2, <3>3
  <2> QED
    BY <1>1, <1>4, <2>2, <2>3 DEF Cached
<1>5. ASSUME NEW t \in Threads, NEW q \in Points, NEW k \in Ks, NEW nprobe \in Nprobes,
             StartSearch(t, q, k, nprobe)
      PROVE  Cached'
  <2>1. UNCHANGED <<requested_nlist, shuffle, entries, live_count, dirty, centroids, inverted_lists>>
    BY <1>5 DEF StartSearch, cache
  <2>2. CASE k = 0 \/ live_count = 0
    <3> DEFINE c == [pc |-> "done", q |-> q, k |-> k, nprobe |-> nprobe, found |-> {}]
    <3>1. call' = [call EXCEPT ![t] = c]
      BY <1>5, <2>2 DEF StartSearch, Set
    <3>2. c.pc = "done" /\ c.k = k /\ c.found = {}
      OBVIOUS
    <3> HIDE DEF c
    <3> QED
      BY <1>4, <2>1, <2>2, <3>1, <3>2
  <2>3. CASE ~(k = 0 \/ live_count = 0)
    <3> DEFINE c == [pc |-> "check", q |-> q, k |-> k, nprobe |-> nprobe]
    <3>1. call' = [call EXCEPT ![t] = c]
      BY <1>5, <2>3 DEF StartSearch, Set
    <3>2. c.pc = "check"
      OBVIOUS
    <3> HIDE DEF c
    <3> QED
      BY <1>4, <2>1, <3>1, <3>2
  <2> QED
    BY <2>2, <2>3
<1>6. ASSUME NEW t \in Threads, CheckDirty(t) PROVE Cached'
  <2> DEFINE c == [call[t] EXCEPT !.pc = IF dirty THEN "build" ELSE "probe"]
  <2>1. call[t] \in Searching
    BY <1>1, <1>6, InSearch DEF CheckDirty
  <2>2. c.pc = IF dirty THEN "build" ELSE "probe"
    BY <2>1 DEF Searching
  <2>3. /\ call' = [call EXCEPT ![t] = c] /\ (dirty \/ UNCHANGED <<centroids, inverted_lists>>)
        /\ UNCHANGED <<requested_nlist, shuffle, entries, live_count, dirty>>
    BY <1>6 DEF CheckDirty
  <2> HIDE DEF c
  <2> QED
    BY <1>1, <1>4, <2>2, <2>3
<1>7. ASSUME NEW t \in Threads, Probe(t) PROVE Cached'
  <2> DEFINE found == Found(call[t].q, call[t].k, call[t].nprobe)
             c == Answer(call[t].q, call[t].k, call[t].nprobe, found)
  <2>1. ~dirty
    BY <1>7 DEF Probe, Cached
  <2>2. /\ call' = [call EXCEPT ![t] = c]
        /\ UNCHANGED <<requested_nlist, shuffle, entries, live_count, dirty, centroids, inverted_lists>>
    BY <1>7 DEF Probe, Set, Answer, cache
  <2>3. c.pc = "done" /\ c.found = Found(c.q, c.k, c.nprobe)
    BY DEF Answer
  <2> HIDE DEF c
  <2> QED
    BY <1>4, <2>1, <2>2, <2>3
\* A second rebuild of a clean cache would write the same cells again.
<1>8. ASSUME NEW t \in Threads, Build(t) PROVE Cached'
  <2> DEFINE c == [call[t] EXCEPT !.pc = "probe"]
  <2>1. call[t] \in Searching
    BY <1>1, <1>8, InSearch DEF Build
  <2>2. c.pc = "probe"
    BY <2>1 DEF Searching
  <2>3. /\ call' = [call EXCEPT ![t] = c] /\ dirty' = FALSE
        /\ UNCHANGED <<requested_nlist, shuffle, entries, live_count>>
        /\ centroids' = Cells(entries).centroids /\ inverted_lists' = Cells(entries).lists
    BY <1>8 DEF Build
  <2> HIDE DEF c
  <2>4. Cells(entries)' = Cells(entries)
    BY <2>3, SameCells
  <2>5. ASSUME NEW u \in Threads, call'[u].pc = "done"
        PROVE  \/ (call'[u].k = 0 \/ live_count' = 0) /\ call'[u].found = {}
               \/ call'[u].found = Found(call[u].q, call[u].k, call[u].nprobe)'
    <3>1. u # t /\ call'[u] = call[u]
      BY <1>1, <2>2, <2>3, <2>5
    <3>2. CASE (call[u].k = 0 \/ live_count = 0) /\ call[u].found = {}
      BY <2>3, <3>1, <3>2
    <3>3. CASE ~dirty /\ call[u].found = Found(call[u].q, call[u].k, call[u].nprobe)
      <4>1. UNCHANGED <<entries, centroids, inverted_lists>>
        BY <2>3, <3>3 DEF Cached
      <4> QED
        BY <3>1, <3>3, <4>1, SameFound
    <3> QED
      BY <2>5, <3>1, <3>2, <3>3 DEF Cached
  <2> QED
    BY <1>1, <2>3, <2>4, <2>5 DEF Cached
<1>9. CASE UNCHANGED vars
  <2>1. UNCHANGED <<requested_nlist, shuffle, entries, live_count, dirty, centroids,
                    inverted_lists, call>>
    BY <1>9 DEF vars, cache
  <2>2. Cells(entries)' = Cells(entries)
    BY <2>1, SameCells
  <2>3. \A q, k, nprobe : Found(q, k, nprobe)' = Found(q, k, nprobe)
    BY <2>1, SameFound
  <2> QED
    BY <2>1, <2>2, <2>3 DEF Cached
<1> QED
  BY <1>3, <1>5, <1>6, <1>7, <1>8, <1>9 DEF Next

LEMMA CachedInv == Spec => [](Types /\ Cached)
<1>1. Types /\ Cached /\ [Next]_vars => Types' /\ Cached'
  BY TypesNext, CachedNext
<1> QED
  BY TypesInit, CachedInit, <1>1, PTL DEF Spec

-----------------------------------------------------------------------------
(* What the cells and the answers are                                       *)

\* A clean cache has a cell for each live entry, one only, and none for a tombstone.
EachInOneCell ==
    ~dirty =>
        /\ DOMAIN inverted_lists = DOMAIN centroids
        /\ Len(centroids) =< live_count
        /\ \A s \in DOMAIN entries :
              IF entries[s].deleted
              THEN \A c \in DOMAIN inverted_lists : s \notin inverted_lists[c]
              ELSE \E c \in DOMAIN inverted_lists :
                      {d \in DOMAIN inverted_lists : s \in inverted_lists[d]} = {c}

\* An answer has live entries only, at most k, and when every cell was probed the k best.
AnswersSound ==
    \A t \in Threads : call[t].pc = "done" =>
        /\ call[t].found \subseteq LiveSlots(entries)
        /\ Cardinality(call[t].found) =< call[t].k
        /\ call[t].nprobe >= Len(centroids)
             => call[t].found = Top(call[t].q, call[t].k, LiveSlots(entries))

\* The three facts about a clean cache everything below uses.
LEMMA CleanCells ==
    ASSUME Types, Cached, ~dirty
    PROVE  \E n \in 0..live_count :
              /\ centroids \in [1..n -> Centroids] /\ Len(centroids) = n
              /\ n = 0 => LiveSlots(entries) = {}
              /\ DOMAIN inverted_lists = 1..n
              /\ \A c \in 1..n : inverted_lists[c] \in SUBSET LiveSlots(entries)
              /\ \A s \in LiveSlots(entries) : \E c \in 1..n :
                    /\ {d \in 1..n : s \in inverted_lists[d]} = {c}
                    /\ Converged => c = Nearest(entries[s].vector, centroids)
<1> DEFINE live == LiveSlots(entries)
           converged == Lloyd(entries, Start(entries)).done
<1>1. CellsOf(entries, centroids, inverted_lists, converged)
  BY CellsAre DEF Types, Cached
<1>2. live_count = Cardinality(live) /\ live_count \in Nat /\ IsFiniteSet(live)
  BY LiveSlotsFinite DEF Types, Indexes
<1>3. Converged => live = {} \/ converged
  BY DEF Converged
<1> HIDE DEF live, converged
<1>4. CASE live = {} /\ centroids = << >> /\ inverted_lists = << >>
  <2>1. centroids \in [1..0 -> Centroids] /\ Len(centroids) = 0
        /\ DOMAIN inverted_lists = 1..0 /\ 0 \in 0..live_count
    BY <1>2, <1>4
  <2>2. \A c \in 1..0 : FALSE
    OBVIOUS
  <2> QED
    BY <1>4, <2>1, <2>2 DEF live
<1>5. ASSUME NEW k \in 1..Cardinality(live), centroids \in [1..k -> Centroids],
             NEW as \in [live -> 1..k],
             inverted_lists = [c \in 1..k |-> {s \in live : as[s] = c}],
             converged => as = Assigned(entries, centroids)
      PROVE  \E n \in 0..live_count :
              /\ centroids \in [1..n -> Centroids] /\ Len(centroids) = n
              /\ n = 0 => LiveSlots(entries) = {}
              /\ DOMAIN inverted_lists = 1..n
              /\ \A c \in 1..n : inverted_lists[c] \in SUBSET LiveSlots(entries)
              /\ \A s \in LiveSlots(entries) : \E c \in 1..n :
                    /\ {d \in 1..n : s \in inverted_lists[d]} = {c}
                    /\ Converged => c = Nearest(entries[s].vector, centroids)
  <2>1. k \in 0..live_count /\ k \in Nat /\ k # 0
    BY <1>2
  <2>2. Len(centroids) = k
    BY <1>5, <2>1
  <2>3. DOMAIN inverted_lists = 1..k
        /\ \A c \in 1..k : inverted_lists[c] = {s \in live : as[s] = c}
    BY <1>5
  <2>4. ASSUME NEW s \in live
        PROVE  \E c \in 1..k :
                    /\ {d \in 1..k : s \in inverted_lists[d]} = {c}
                    /\ Converged => c = Nearest(entries[s].vector, centroids)
    <3>1. as[s] \in 1..k /\ {d \in 1..k : s \in inverted_lists[d]} = {as[s]}
      BY <2>3
    <3>2. Converged => as[s] = Nearest(entries[s].vector, centroids)
      BY <1>3, <1>5 DEF Assigned, live
    <3> QED
      BY <3>1, <3>2
  <2> QED
    BY <1>5, <2>1, <2>2, <2>3, <2>4 DEF live
<1> QED
  BY <1>1, <1>4, <1>5 DEF CellsOf, live

LEMMA CellsCover ==
    ASSUME Types, Cached PROVE EachInOneCell /\ (Converged => CellsCoverLive)
<1>1. CASE dirty
  BY <1>1 DEF EachInOneCell, CellsCoverLive
<1>2. CASE ~dirty
  <2>1. PICK n \in 0..live_count :
              /\ centroids \in [1..n -> Centroids] /\ Len(centroids) = n
              /\ DOMAIN inverted_lists = 1..n
              /\ \A c \in 1..n : inverted_lists[c] \in SUBSET LiveSlots(entries)
              /\ \A s \in LiveSlots(entries) : \E c \in 1..n :
                    /\ {d \in 1..n : s \in inverted_lists[d]} = {c}
                    /\ Converged => c = Nearest(entries[s].vector, centroids)
    BY <1>2, CleanCells
  <2>2. live_count \in Nat
    BY LiveSlotsFinite DEF Types, Indexes
  <2>3. DOMAIN inverted_lists = DOMAIN centroids /\ Len(centroids) =< live_count
    BY <2>1, <2>2
  <2>4. ASSUME NEW s \in DOMAIN entries, entries[s].deleted
        PROVE  /\ \A c \in DOMAIN inverted_lists : s \notin inverted_lists[c]
               /\ {c \in DOMAIN inverted_lists : s \in inverted_lists[c]} = {}
    <3>1. s \notin LiveSlots(entries)
      BY <2>4 DEF LiveSlots
    <3> QED
      BY <2>1, <3>1
  <2>5. ASSUME NEW s \in DOMAIN entries, ~entries[s].deleted
        PROVE  \E c \in DOMAIN inverted_lists :
                  /\ {d \in DOMAIN inverted_lists : s \in inverted_lists[d]} = {c}
                  /\ Converged => c = Nearest(entries[s].vector, centroids)
    <3>1. s \in LiveSlots(entries)
      BY <2>5 DEF LiveSlots
    <3> QED
      BY <2>1, <3>1
  <2>6. EachInOneCell
    BY <2>3, <2>4, <2>5 DEF EachInOneCell
  <2>7. Converged => CellsCoverLive
    BY <2>3, <2>4, <2>5 DEF CellsCoverLive
  <2> QED
    BY <2>6, <2>7
<1> QED
  BY <1>1, <1>2

LEMMA AnswersAre ==
    ASSUME Types, Cached PROVE AnswersSound /\ (Converged => SearchExact)
<1> DEFINE live == LiveSlots(entries)
<1>1. live_count = Cardinality(live) /\ IsFiniteSet(live) /\ live \in SUBSET DOMAIN entries
      /\ live_count \in Nat
  <2>1. entries \in Seq(Entry)
    BY DEF Types, Indexes
  <2> QED
    BY <2>1, LiveSlotsFinite DEF Types
<1>2. ASSUME NEW t \in Threads, call[t].pc = "done"
      PROVE  /\ call[t].found \subseteq live
             /\ Cardinality(call[t].found) =< call[t].k
             /\ call[t].nprobe >= Len(centroids) => call[t].found = Top(call[t].q, call[t].k, live)
             /\ Converged =>
                   (call[t].k > 0 /\ (\E s \in live : Distance(call[t].q, s) = 0)
                        => \E s \in call[t].found : Distance(call[t].q, s) = 0)
  <2> DEFINE q == call[t].q
             k == call[t].k
             nprobe == call[t].nprobe
             found == call[t].found
  <2>1. q \in Int /\ k \in Nat /\ nprobe \in Int
    <3>1. IsCall(call[t])
      BY DEF Types
    <3>2. \E x \in Points, y \in Ks, z \in Nprobes : \E f : call[t] = Answer(x, y, z, f)
      BY <1>2, <3>1 DEF IsCall, Idle, Searching
    <3>3. q \in Points /\ k \in Ks /\ nprobe \in Nprobes
      BY <3>2 DEF Answer
    <3> QED
      BY <3>3, NumberAssumption
  <2>2. \/ (k = 0 \/ live_count = 0) /\ found = {}
        \/ ~dirty /\ found = Found(q, k, nprobe)
    BY <1>2 DEF Cached
  <2> HIDE DEF q, k, nprobe, found
  <2>3. Top(q, k, live) \in SUBSET live /\ Cardinality(Top(q, k, live)) =< k
    BY <1>1, <2>1, TopIs
  <2>4. Cardinality({}) = 0
    BY FS_EmptySet
\* Nothing asked for, or nothing there.
  <2>5. CASE (k = 0 \/ live_count = 0) /\ found = {}
    <3>1. k = 0 => Top(q, k, live) = {}
      <4>1. IsFiniteSet(Top(q, k, live))
        BY <1>1, <2>3, FS_Subset
      <4>2. Cardinality(Top(q, k, live)) \in Nat
        BY <4>1, FS_CardinalityType
      <4> QED
        BY <2>1, <2>3, <4>1, <4>2, FS_EmptySet
    <3>2. live_count = 0 => live = {} /\ Top(q, k, live) = {}
      BY <1>1, <2>3, FS_EmptySet
    <3>3. k = 0 => ~(k > 0)
      OBVIOUS
    <3> HIDE DEF live
    <3> QED
      BY <2>1, <2>4, <2>5, <3>1, <3>2, <3>3 DEF q, k, nprobe, found
\* Read from the cells.
  <2>6. CASE ~dirty /\ found = Found(q, k, nprobe)
    <3> DEFINE seen == {s \in UNION {inverted_lists[c] : c \in Probed(q, nprobe)} :
                           ~entries[s].deleted}
    <3>1. PICK n \in 0..live_count :
              /\ centroids \in [1..n -> Centroids] /\ Len(centroids) = n
              /\ n = 0 => live = {}
              /\ DOMAIN inverted_lists = 1..n
              /\ \A c \in 1..n : inverted_lists[c] \in SUBSET live
              /\ \A s \in live : \E c \in 1..n :
                    /\ {d \in 1..n : s \in inverted_lists[d]} = {c}
                    /\ Converged => c = Nearest(entries[s].vector, centroids)
      BY <2>6, CleanCells
    <3>2. n \in Nat
      BY <1>1
    <3>3. /\ Probed(q, nprobe) \in SUBSET (1..n)
          /\ nprobe >= n => Probed(q, nprobe) = 1..n
          /\ n > 0 => Nearest(q, centroids) \in Probed(q, nprobe)
      BY <2>1, <3>1, <3>2, ProbedIs
    <3>4. found = Top(q, k, seen)
      BY <2>6 DEF Found
    <3>5. seen \in SUBSET live
      BY <3>1, <3>3
    <3>6. /\ Top(q, k, seen) \in SUBSET seen /\ Cardinality(Top(q, k, seen)) =< k
          /\ \A s \in seen : k > 0 =>
                \E m \in Top(q, k, seen) : Distance(q, m) =< Distance(q, s)
      <4> HIDE DEF seen
      <4>1. seen \in SUBSET DOMAIN entries
        BY <1>1, <3>5
      <4> QED
        BY <2>1, <4>1, TopIs
    <3>7. ASSUME nprobe >= n PROVE seen = live
      <4>1. ASSUME NEW s \in live PROVE s \in seen
        <5>1. PICK c \in 1..n : s \in inverted_lists[c]
          BY <3>1
        <5>2. c \in Probed(q, nprobe)
          BY <3>3, <3>7
        <5>3. ~entries[s].deleted
          BY DEF LiveSlots
        <5> QED
          BY <5>1, <5>2, <5>3
      <4> HIDE DEF seen
      <4> QED
        BY <3>5, <4>1
\* The cell of an entry at distance 0 is the one nearest to the query.
    <3>8. ASSUME Converged, k > 0, NEW s \in live, Distance(q, s) = 0
          PROVE  \E m \in found : Distance(q, m) = 0
      <4>1. entries[s] \in Entry /\ entries[s].vector \in Int
        <5>1. entries[s] \in Entry
          BY <1>1 DEF Types, Indexes
        <5> QED
          BY <5>1, NumberAssumption DEF Entry
      <4>2. entries[s].vector = q
        BY <2>1, <3>8, <4>1 DEF Distance, Abs
      <4>3. n > 0
        BY <3>1, <3>2
      <4>4. PICK c \in 1..n : {d \in 1..n : s \in inverted_lists[d]} = {c}
                              /\ c = Nearest(entries[s].vector, centroids)
        BY <3>1, <3>8
      <4>5. c \in Probed(q, nprobe) /\ s \in inverted_lists[c]
        BY <3>3, <4>2, <4>3, <4>4
      <4>6. s \in seen
        BY <4>5 DEF LiveSlots
      <4> HIDE DEF seen
      <4>7. PICK m \in Top(q, k, seen) : Distance(q, m) =< Distance(q, s)
        BY <3>6, <3>8, <4>6
      <4>8. Distance(q, m) \in Nat
        <5>1. entries[m] \in Entry
          BY <1>1, <3>5, <3>6 DEF Types, Indexes
        <5>2. entries[m].vector \in Int
          BY <5>1, NumberAssumption DEF Entry
        <5>3. q - entries[m].vector \in Int
          BY <2>1, <5>2
        <5> QED
          BY <5>3 DEF Distance, Abs
      <4>9. Distance(q, m) = 0
        BY <3>8, <4>7, <4>8
      <4> QED
        BY <3>4, <4>7, <4>9
    <3> HIDE DEF seen, live
    <3> QED
      BY <3>1, <3>4, <3>5, <3>6, <3>7, <3>8 DEF q, k, nprobe, found
  <2> QED
    BY <2>2, <2>5, <2>6
<1>3. AnswersSound
  BY <1>2 DEF AnswersSound
<1>4. Converged => SearchExact
  BY <1>2 DEF SearchExact
<1> QED
  BY <1>3, <1>4

\* EachInOneCell and AnswersSound, as long as no search meets another's rebuild, which
\* ivf_index.hpp:41-42 leaves to the owning Collection (two that meet race in the code,
\* while Build is one step here): whatever was added, replaced, removed, revived or
\* reloaded since the last rebuild, and whether or not the k-means converged
\* (ivf_index.cpp:98-209, 211-269).
THEOREM CellsSound == Spec /\ []SerialisedAccess => [](EachInOneCell /\ AnswersSound)
<1>1. Types /\ Cached => EachInOneCell /\ AnswersSound
  BY CellsCover, AnswersAre
<1> QED
  BY <1>1, CachedInv, PTL

\* CellsCoverLive under the same condition, for any number of entries and cells, when
\* Lloyd's iterations end before kMaxKMeansIterations: the cell of an entry is the one
\* whose centroid is nearest to it (ivf_index.cpp:151-208).
THEOREM CellsNearest == Spec /\ []SerialisedAccess => [](Converged => CellsCoverLive)
<1>1. Types /\ Cached => (Converged => CellsCoverLive)
  BY CellsCover
<1> QED
  BY <1>1, CachedInv, PTL

\* SearchExact, likewise: so a search for a stored vector finds an entry at distance 0
\* with a single probe (ivf_index.cpp:224-266).
THEOREM SearchesExact == Spec /\ []SerialisedAccess => [](Converged => SearchExact)
<1>1. Types /\ Cached => (Converged => SearchExact)
  BY AnswersAre
<1> QED
  BY <1>1, CachedInv, PTL
=============================================================================
