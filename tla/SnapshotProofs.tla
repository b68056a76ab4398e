--------------------------- MODULE SnapshotProofs ---------------------------
(***************************************************************************)
(* Proofs about Snapshot for any layout, any captured collections, any cell *)
(* values and any checksum.                                                 *)
(*                                                                          *)
(* The inductive invariant is SInv: what file may be, given what happened   *)
(* to it, and that the outcome is what load makes of it.  The rest is about *)
(* the operators.  What load accepts lies in the file: DirectorySound is an *)
(* induction over the entries read.  What encode writes, load takes back:   *)
(* Laid says where each part of a body lies (EncodedLaid, from FlattenIs),  *)
(* EntryReads that one entry is read back, DirectoryReads that all are, and *)
(* WrittenSorted that sorting by identifier changes nothing.                *)
(***************************************************************************)
EXTENDS Snapshot, ProofLemmas, SequenceTheorems

-----------------------------------------------------------------------------
(* Reading the directory                                                    *)

\* What the directory holds after i entries is in Good[i], when every entry leads
\* from one to the next.
LEMMA DirectoryIs ==
    ASSUME NEW f, f.header.record_count \in Nat, NEW Good,
           [ok |-> TRUE, pos |-> f.header.name_length, records |-> << >>] \in Good[0],
           \A i \in 1..f.header.record_count : \A d \in Good[i - 1] : ReadEntry(f, d) \in Good[i]
    PROVE  Directory(f) \in Good[f.header.record_count]
<1> DEFINE n == f.header.record_count
           none == [ok |-> TRUE, pos |-> f.header.name_length, records |-> << >>]
           Rec(r) == [i \in 0..n |-> IF i = 0 THEN none ELSE ReadEntry(f, r[i - 1])]
           read == CHOOSE r : r = Rec(r)
           A == UNION {Good[i] : i \in 0..n}
           F == [p \in (1..n) \X A |-> ReadEntry(f, p[2])]
<1>1. Directory(f) = read[n]
  BY DEF Directory
<1>2. n \in Nat /\ none \in Good[0]
  OBVIOUS
<1>3. \A i \in 1..n : \A d \in Good[i - 1] : ReadEntry(f, d) \in Good[i]
  OBVIOUS
<1> HIDE DEF n, none
<1>4. \A i \in 1..n : \A d \in Good[i - 1] : F[<<i, d>>] = ReadEntry(f, d)
  <2>1. \A i \in 1..n : i - 1 \in 0..n
    BY <1>2
  <2> QED
    BY <2>1
<1>5. Leads(n, Good, F)
  BY <1>3, <1>4 DEF Leads
<1> HIDE DEF F, A
<1>6. PICK g : Staged(g, n, Good, none, F)
  BY <1>2, <1>5, Stages
<1>7. /\ g = [i \in 0..n |-> g[i]] /\ g[0] = none
      /\ \A i \in 1..n : g[i] = F[<<i, g[i - 1]>>]
      /\ \A i \in 0..n : g[i] \in Good[i]
  BY <1>6 DEF Staged
<1>8. \A i \in 1..n : g[i] = ReadEntry(f, g[i - 1])
  <2>1. \A i \in 1..n : i - 1 \in 0..n
    BY <1>2
  <2> QED
    BY <1>4, <1>7, <2>1
<1>9. g = Rec(g)
  <2>1. \A i \in 0..n : i = 0 \/ i \in 1..n
    BY <1>2
  <2> QED
    BY <1>7, <1>8, <2>1
<1>10. read = Rec(read)
  BY <1>9
<1> HIDE DEF read
<1>11. read[n] = g[n]
  <2>1. 0 \in 0..n /\ \A i \in 1..n : i \in 0..n /\ i # 0
    BY <1>2
  <2>2. read[0] = none /\ \A i \in 1..n : read[i] = ReadEntry(f, read[i - 1])
    BY <1>10, <2>1
  <2>3. \A i \in 1..n : read[i - 1] = g[i - 1] => read[i] = g[i]
    BY <1>8, <2>2
  <2>4. GoAlike(read, g, n)
    BY <1>7, <2>2, <2>3 DEF GoAlike
  <2> QED
    BY <1>2, <2>4, SameEnd
<1>12. n \in 0..n
  BY <1>2
<1> QED
  BY <1>1, <1>7, <1>11, <1>12 DEF n

-----------------------------------------------------------------------------
(* What load accepts                                                        *)

\* A file of cells; the checksum may be anything.
Sized(f) == f.body \in Seq(Nat) /\ \A field \in Fields : f.header[field] \in Nat

\* The slots of a region of n slots of dim cells lie one behind the other in it.
LEMMA Slots ==
    ASSUME NEW n \in Nat, NEW dim \in Nat, NEW x \in 0..(n - 1)
    PROVE  x * dim \in Nat /\ x * dim + dim =< n * dim
<1>1. x \in Nat /\ n - x - 1 \in Nat
  OBVIOUS
<1>2. x * dim \in Nat /\ (n - x - 1) * dim \in Nat
  BY <1>1, SMT
<1>3. n * dim = x * dim + dim + (n - x - 1) * dim
  BY <1>1, SMT
<1> QED
  BY <1>2, <1>3, SMT

\* Where the vector of a record may start, and the records there may be.
Places(f) == {f.header.vector_off + x * f.header.dim : x \in 0..(f.header.record_count - 1)}
Known(f)  == [id: Nat \ {0}, at: Places(f), meta: {read_metadata(blob) : blob \in Seq(Nat)}]

\* The directories of i different records, or that did not parse.
SoundDirectories(f, i) ==
    {d \in [ok: BOOLEAN, pos: Nat, records: Seq(Known(f))] :
        d.ok => /\ Len(d.records) = i
                /\ \A k, j \in DOMAIN d.records : d.records[k].id = d.records[j].id => k = j}

LEMMA CellsIn ==
    ASSUME NEW body \in Seq(Nat), NEW p \in Nat, NEW len \in Nat, p + len =< Len(body)
    PROVE  \A j \in (p + 1)..(p + len) : j \in DOMAIN body /\ body[j] \in Nat
<1>1. Len(body) \in Nat /\ DOMAIN body = 1..Len(body)
  OBVIOUS
<1> QED
  BY <1>1

LEMMA CellsOf ==
    ASSUME NEW body \in Seq(Nat), NEW p \in Nat, NEW len \in Nat, p + len =< Len(body)
    PROVE  SubSeq(body, p + 1, p + len) \in Seq(Nat)
<1>1. p + 1 \in Int /\ p + len \in Int
  OBVIOUS
<1> QED
  BY <1>1, CellsIn, SubSeqProperties

\* A directory that parses has a record for each entry, none twice.
LEMMA DirectorySound ==
    ASSUME NEW f, Sized(f), Directory(f).ok
    PROVE  /\ Directory(f).records \in Seq(Known(f)) /\ Directory(f).pos \in Nat
           /\ Len(Directory(f).records) = f.header.record_count
           /\ \A i, j \in DOMAIN Directory(f).records :
                 Directory(f).records[i].id = Directory(f).records[j].id => i = j
<1> DEFINE n == f.header.record_count
           Good == [i \in 0..n |-> SoundDirectories(f, i)]
<1>1. n \in Nat /\ f.header.name_length \in Nat /\ f.body \in Seq(Nat)
  BY DEF Sized, Fields
<1>2. [ok |-> TRUE, pos |-> f.header.name_length, records |-> << >>] \in Good[0]
  <2>1. << >> \in Seq(Known(f)) /\ DOMAIN << >> = {} /\ Len(<< >>) = 0 /\ 0 \in 0..n
    BY <1>1
  <2> QED
    BY <1>1, <2>1 DEF SoundDirectories
<1>3. ASSUME NEW i \in 1..n, NEW d \in Good[i - 1] PROVE ReadEntry(f, d) \in Good[i]
  <2>1. i - 1 \in 0..n /\ i \in 0..n /\ i \in Nat
    BY <1>1
  <2>2. /\ d \in [ok: BOOLEAN, pos: Nat, records: Seq(Known(f))]
        /\ d.ok => /\ Len(d.records) = i - 1
                   /\ \A k, j \in DOMAIN d.records : d.records[k].id = d.records[j].id => k = j
    BY <2>1 DEF SoundDirectories
  <2> HIDE DEF Good
  <2> DEFINE known == {rec.id : rec \in Elements(d.records)}
             rec == RecordAt(f, d.pos)
             blob == SubSeq(f.body, d.pos + 4, d.pos + 3 + f.body[d.pos + 3])
             w == Append(d.records, rec)
             e == [ok |-> TRUE, pos |-> d.pos + 3 + f.body[d.pos + 3], records |-> w]
  <2>3. CASE d.ok /\ RecordValid(f, d.pos, known)
    <3>1. ReadEntry(f, d) = e
      BY <2>3 DEF ReadEntry
    <3>2. /\ d.pos + 3 =< Len(f.body) /\ d.pos + 3 + f.body[d.pos + 3] =< Len(f.body)
          /\ f.body[d.pos + 1] # 0 /\ f.body[d.pos + 2] < n /\ f.body[d.pos + 1] \notin known
      BY <2>3 DEF RecordValid, ensure
    <3>3. /\ f.body[d.pos + 1] \in Nat /\ f.body[d.pos + 2] \in Nat /\ f.body[d.pos + 3] \in Nat
          /\ d.pos \in Nat
      <4>1. d.pos \in Nat
        BY <2>2
      <4>2. \A j \in (d.pos + 1)..(d.pos + 3) : f.body[j] \in Nat
        BY <1>1, <3>2, <4>1, CellsIn
      <4> QED
        BY <4>1, <4>2
    <3>4. blob \in Seq(Nat)
      <4> DEFINE p == d.pos + 3
      <4>1. p \in Nat /\ p + 1 = d.pos + 4
        BY <3>3
      <4>2. SubSeq(f.body, p + 1, p + f.body[d.pos + 3]) \in Seq(Nat)
        BY <1>1, <3>2, <3>3, <4>1, CellsOf
      <4> QED
        BY <4>1, <4>2
    <3> HIDE DEF blob
    <3>5. rec = [id |-> f.body[d.pos + 1], at |-> f.header.vector_off + f.body[d.pos + 2] * f.header.dim,
                 meta |-> read_metadata(blob)]
      BY DEF RecordAt, blob
    <3>6. rec \in Known(f) /\ rec.id \notin known
      <4> DEFINE x == f.body[d.pos + 2]
      <4>0. x \in Nat /\ x < n
        BY <3>2, <3>3
      <4> HIDE DEF n, x
      <4>1. x \in 0..(n - 1)
        BY <1>1, <4>0
      <4> USE DEF n, x
      <4>2. f.header.vector_off + f.body[d.pos + 2] * f.header.dim \in Places(f)
        BY <4>1 DEF Places
      <4>3. read_metadata(blob) \in {read_metadata(b) : b \in Seq(Nat)}
        BY <3>4
      <4>4. f.body[d.pos + 1] \in Nat \ {0}
        BY <3>2, <3>3
      <4>5. rec \in Known(f)
        <5> HIDE DEF rec
        <5> QED
          BY ONLY <3>5, <4>2, <4>3, <4>4 DEF Known
      <4>6. rec.id \notin known
        <5> HIDE DEF rec
        <5> QED
          BY <3>2, <3>5
      <4> QED
        BY <4>5, <4>6
    <3> HIDE DEF rec, n
    <3>7. /\ w \in Seq(Known(f)) /\ Len(w) = Len(d.records) + 1
          /\ DOMAIN w = 1..(Len(d.records) + 1) /\ w[Len(d.records) + 1] = rec
          /\ \A j \in 1..Len(d.records) : w[j] = d.records[j]
          /\ Len(d.records) \in Nat /\ DOMAIN d.records = 1..Len(d.records)
      BY <2>2, <3>6
    <3> HIDE DEF w
    <3>8. \A j \in 1..Len(d.records) : d.records[j].id \in known
      BY <3>7 DEF Elements
    <3> HIDE DEF known
    <3>9. \A k, j \in DOMAIN w : w[k].id = w[j].id => k = j
      <4>1. \A k \in DOMAIN w : k \in 1..Len(d.records) \/ k = Len(d.records) + 1
        BY <3>7
      <4> QED
        BY <2>2, <2>3, <3>6, <3>7, <3>8, <4>1
    <3>10. Len(w) = i /\ d.pos + 3 + f.body[d.pos + 3] \in Nat
      BY <2>1, <2>2, <2>3, <3>3, <3>7
    <3>11. e \in Good[i]
      <4>1. e \in SoundDirectories(f, i)
        BY <3>7, <3>9, <3>10 DEF SoundDirectories
      <4> QED
        BY <2>1, <4>1 DEF Good
    <3> QED
      BY <3>1, <3>11
  <2>4. CASE ~(d.ok /\ RecordValid(f, d.pos, known))
    <3>1. ReadEntry(f, d) = [d EXCEPT !.ok = FALSE]
      BY <2>4 DEF ReadEntry
    <3>2. [d EXCEPT !.ok = FALSE] \in Good[i]
      <4>1. [d EXCEPT !.ok = FALSE] \in SoundDirectories(f, i)
        BY <2>2 DEF SoundDirectories
      <4> QED
        BY <2>1, <4>1 DEF Good
    <3> QED
      BY <3>1, <3>2
  <2> QED
    BY <2>3, <2>4
<1> HIDE DEF Good
<1>4. Directory(f) \in Good[n]
  BY <1>1, <1>2, <1>3, DirectoryIs
<1>5. n \in 0..n
  BY <1>1
<1> QED
  BY <1>4, <1>5 DEF Good, SoundDirectories

\* A map sorted by identifier.
ById(recs) == {p \in recs \X recs : p[1].id < p[2].id}

LEMMA ByIdIsOrder ==
    ASSUME NEW recs, \A rec \in recs : rec.id \in Nat,
           \A rec, s \in recs : rec.id = s.id => rec = s
    PROVE  /\ StrictOrder(recs, ById(recs))
           /\ \A rec, s \in recs : <<rec, s>> \in ById(recs) <=> rec.id < s.id
<1>1. \A rec, s \in recs : <<rec, s>> \in ById(recs) <=> rec.id < s.id
  BY DEF ById
<1>2. \A rec, s \in recs : rec # s => rec.id < s.id \/ s.id < rec.id
  OBVIOUS
<1>3. \A rec, s, t \in recs : rec.id < s.id /\ s.id < t.id => rec.id < t.id
  OBVIOUS
<1> QED
  BY <1>1, <1>2, <1>3 DEF StrictOrder

\* The records of a directory, sorted: each of them, once.
LEMMA SortedRecords ==
    ASSUME NEW f, Sized(f), Directory(f).ok
    PROVE  LET recs == Elements(Directory(f).records)
           IN  /\ Sorts(Sorted(recs, ById(recs)), recs, ById(recs))
               /\ IsFiniteSet(recs) /\ StrictOrder(recs, ById(recs))
               /\ Cardinality(recs) = f.header.record_count
<1> DEFINE list == Directory(f).records
           recs == Elements(list)
<1>1. /\ list \in Seq(Known(f)) /\ Len(list) = f.header.record_count
      /\ \A i, j \in DOMAIN list : list[i].id = list[j].id => i = j
  BY DirectorySound
<1> HIDE DEF list
<1>2. NoRepeats(list)
  BY <1>1 DEF NoRepeats
<1>3. IsFiniteSet(recs) /\ Cardinality(recs) = f.header.record_count
  BY <1>1, <1>2, ListCounts
<1>4. /\ \A rec \in recs : rec.id \in Nat
      /\ \A rec, s \in recs : rec.id = s.id => rec = s
  <2>1. \A i \in DOMAIN list : list[i] \in Known(f)
    BY <1>1
  <2>2. \A i \in DOMAIN list : list[i].id \in Nat
    BY <2>1 DEF Known
  <2> QED
    BY <1>1, <2>2 DEF Elements
<1> HIDE DEF recs
<1>5. StrictOrder(recs, ById(recs))
  BY <1>4, ByIdIsOrder
<1> QED
  BY <1>3, <1>5, SortedIs DEF recs, list

\* A list in the order R of the numbers num of its elements is sorted already.
Ordered(list, num, R) ==
    \E S, n : /\ n \in Nat /\ list \in Seq(S) /\ Len(list) = n
              /\ \A k \in 1..n : num[k] \in Nat
              /\ \A k, j \in 1..n : k < j => num[k] < num[j]
              /\ \A k, j \in 1..n : <<list[k], list[j]>> \in R <=> num[k] < num[j]

LEMMA AlreadySorted ==
    ASSUME NEW list, NEW num, NEW R, Ordered(list, num, R)
    PROVE  Sorted(Elements(list), R) = list
<1> DEFINE E == Elements(list)
<1> PICK S, n : /\ n \in Nat /\ list \in Seq(S) /\ Len(list) = n
                /\ \A k \in 1..n : num[k] \in Nat
                /\ \A k, j \in 1..n : k < j => num[k] < num[j]
                /\ \A k, j \in 1..n : <<list[k], list[j]>> \in R <=> num[k] < num[j]
  BY DEF Ordered
<1>1. DOMAIN list = 1..n
  OBVIOUS
<1>2. \A k \in 1..n : list[k] \in E
  BY <1>1 DEF Elements
<1>3. \A x \in E : \E k \in 1..n : list[k] = x
  BY <1>1 DEF Elements
<1>4. ASSUME NEW k \in 1..n, NEW j \in 1..n PROVE <<list[k], list[j]>> \in R <=> k < j
  <2>1. /\ num[k] \in Nat /\ num[j] \in Nat
        /\ k < j => num[k] < num[j]
        /\ j < k => num[j] < num[k]
    OBVIOUS
  <2>2. k < j \/ j < k \/ k = j
    OBVIOUS
  <2>3. num[k] < num[j] <=> k < j
    BY <2>1, <2>2
  <2> QED
    BY <2>3
<1> HIDE DEF E
<1>5. \A k, j \in 1..n : list[k] = list[j] => k = j
  <2> SUFFICES ASSUME NEW k \in 1..n, NEW j \in 1..n, list[k] = list[j] PROVE k = j
    OBVIOUS
  <2>1. <<list[k], list[j]>> \in R <=> <<list[j], list[k]>> \in R
    OBVIOUS
  <2>2. (k < j <=> j < k)
    BY <1>4, <2>1
  <2> QED
    BY <2>2
<1>6. Cardinality(E) = n /\ IsFiniteSet(E)
  <2>1. NoRepeats(list)
    BY <1>1, <1>5 DEF NoRepeats
  <2> QED
    BY <2>1, ListCounts DEF E
<1>7. StrictOrder(E, R)
  <2>1. ASSUME NEW x \in E, NEW y \in E
        PROVE  /\ <<x, x>> \notin R
               /\ x # y => <<x, y>> \in R \/ <<y, x>> \in R
    <3>1. PICK k \in 1..n : list[k] = x
      BY <1>3
    <3>2. PICK j \in 1..n : list[j] = y
      BY <1>3
    <3>3. ~(k < k) /\ (k # j => k < j \/ j < k)
      OBVIOUS
    <3> QED
      BY <1>4, <3>1, <3>2, <3>3
  <2>2. ASSUME NEW x \in E, NEW y \in E, NEW z \in E, <<x, y>> \in R, <<y, z>> \in R
        PROVE  <<x, z>> \in R
    <3>1. PICK k \in 1..n : list[k] = x
      BY <1>3
    <3>2. PICK j \in 1..n : list[j] = y
      BY <1>3
    <3>3. PICK i \in 1..n : list[i] = z
      BY <1>3
    <3>4. k < j /\ j < i
      BY <1>4, <2>2, <3>1, <3>2, <3>3
    <3>5. k < i
      BY <3>4
    <3> QED
      BY <1>4, <3>1, <3>3, <3>5
  <2> QED
    BY <2>1, <2>2 DEF StrictOrder
<1>8. Sorts(list, E, R)
  <2>1. list \in [1..n -> E]
    BY <1>1, <1>2
  <2> QED
    BY <1>3, <1>4, <1>6, <2>1 DEF Sorts
<1>9. Sorts(Sorted(E, R), E, R)
  BY <1>6, <1>7, SortedIs
<1>10. Sorted(E, R) = list
  BY <1>6, <1>7, <1>8, <1>9, SortedUnique
<1> QED
  BY <1>10 DEF E

LEMMA EntriesSorted ==
    ASSUME NEW es \in Seq(Nat \X (Nat \ {0})),
           \A i, j \in DOMAIN es : i < j => es[i][1] < es[j][1]
    PROVE  Sorted(Elements(es), ByKey(Elements(es))) = es
<1> DEFINE n == Len(es)
           num == [k \in 1..n |-> es[k][1]]
           E == Elements(es)
           R == ByKey(E)
<1>1. n \in Nat /\ DOMAIN es = 1..n /\ es = [k \in 1..n |-> es[k]]
  OBVIOUS
<1>2. \A k \in 1..n : es[k] \in E /\ num[k] = es[k][1]
  BY <1>1 DEF Elements
<1>3. \A k \in 1..n : num[k] \in Nat
  <2>1. \A k \in 1..n : es[k] \in Nat \X (Nat \ {0})
    OBVIOUS
  <2> QED
    BY <1>2, <2>1
<1>4. \A k, j \in 1..n : k < j => num[k] < num[j]
  BY <1>1
<1> DEFINE list == es
<1> HIDE DEF n, num, E
<1>6. \A k, j \in 1..n : <<list[k], list[j]>> \in R <=> num[k] < num[j]
  BY <1>2 DEF ByKey
<1> HIDE DEF R
<1>7. list \in Seq(E) /\ Len(list) = n
  BY <1>1, <1>2, SeqByParts
<1>8. n \in Nat
  BY <1>1
<1> HIDE DEF list
<1>9. Sorted(Elements(list), R) = list
  <2>1. Ordered(list, num, R)
    BY <1>3, <1>4, <1>6, <1>7, <1>8 DEF Ordered
  <2> QED
    BY <2>1, AlreadySorted
<1> QED
  BY <1>9 DEF R, E, list

\* The checks of load, once the checksum has passed.
Valid(f) == HeaderValid(f) /\ NameValid(f) /\ DirectoryValid(f) /\ IndexValid(f)

\* What AcceptedInBounds says of a file and of the collection it is loaded as.
InBounds(f, collection) ==
    /\ \A i \in DOMAIN Directory(f).records :
          LET at == Directory(f).records[i].at
          IN  at >= kHeader + Directory(f).pos /\ at + f.header.dim =< Total(f)
    /\ Len(collection.records) = f.header.record_count
    /\ f.header.index_off + f.header.index_len =< Total(f)
    /\ f.header.index_type = HNSW =>
          \A i \in 4..Len(collection.index_blob) :
              \E j \in DOMAIN collection.records :
                  collection.records[j].id = collection.index_blob[i]

LEMMA PlacesInBounds ==
    ASSUME NEW f, Sized(f), HeaderValid(f), DirectoryValid(f), NEW at \in Places(f)
    PROVE  at >= kHeader + Directory(f).pos /\ at + f.header.dim =< Total(f)
<1> DEFINE n == f.header.record_count
           dim == f.header.dim
           off == f.header.vector_off
<1>1. /\ n \in Nat /\ dim \in Nat /\ off \in Nat /\ f.header.vector_len \in Nat
      /\ f.body \in Seq(Nat) /\ kHeader \in Nat
  BY LayoutAssumption DEF Sized, Fields
<1>2. Total(f) \in Nat
  BY <1>1 DEF Total
<1>3. /\ off =< Total(f) /\ f.header.vector_len =< Total(f) - off
      /\ f.header.vector_len = n * dim
  BY DEF HeaderValid
<1>4. Directory(f).ok /\ Directory(f).pos =< off - kHeader
  BY DEF DirectoryValid
<1>5. Directory(f).pos \in Nat
  BY <1>4, DirectorySound
<1>6. PICK x \in 0..(n - 1) : at = off + x * dim
  BY DEF Places
<1> HIDE DEF n, dim, off
<1>7. x * dim \in Nat /\ x * dim + dim =< n * dim
  BY <1>1, Slots
<1> DEFINE start == x * dim
<1>8. /\ start \in Nat /\ start + dim =< f.header.vector_len /\ at = off + start
  BY <1>3, <1>6, <1>7
<1> HIDE DEF start
<1> DEFINE total == Total(f)
           pos == Directory(f).pos
           len == f.header.vector_len
<1>9. /\ total \in Nat /\ pos \in Nat /\ len \in Nat /\ off =< total /\ len =< total - off
      /\ pos =< off - kHeader
  BY <1>1, <1>2, <1>3, <1>4, <1>5
<1>10. start + dim =< len /\ at = off + start
  BY <1>8
<1> HIDE DEF total, pos, len
<1>11. at >= kHeader + pos /\ at + dim =< total
  BY <1>1, <1>8, <1>9, <1>10
<1> QED
  BY <1>11 DEF dim, total, pos

LEMMA ValidInBounds ==
    ASSUME NEW f, Sized(f), Valid(f)
    PROVE  InBounds(f, Reconstructed(f))
<1> DEFINE c == Reconstructed(f)
           recs == Elements(Directory(f).records)
           by_id == Sorted(recs, ById(recs))
           blob == Region(f, f.header.index_off, f.header.index_len)
<1>1. HeaderValid(f) /\ DirectoryValid(f) /\ Directory(f).ok /\ IndexValid(f)
  BY DEF Valid, DirectoryValid
<1>2. /\ c.index_blob = blob
      /\ c.records = [i \in DOMAIN by_id |->
                        [id |-> by_id[i].id, meta |-> by_id[i].meta,
                         vector |-> Region(f, by_id[i].at, f.header.dim)]]
  BY DEF Reconstructed, ById
<1>3. /\ Sorts(by_id, recs, ById(recs)) /\ IsFiniteSet(recs) /\ StrictOrder(recs, ById(recs))
      /\ Cardinality(recs) = f.header.record_count
  BY <1>1, SortedRecords
<1>4. /\ f.header.record_count \in Nat /\ f.header.index_off \in Nat /\ f.header.index_len \in Nat
      /\ Total(f) \in Nat
  BY LayoutAssumption DEF Sized, Fields, Total
<1> HIDE DEF c, by_id
<1>5. /\ DOMAIN by_id = 1..f.header.record_count
      /\ \A rec \in recs : \E j \in DOMAIN by_id : by_id[j] = rec
  BY <1>3 DEF Sorts
<1>6. ASSUME NEW i \in DOMAIN Directory(f).records
      PROVE  /\ Directory(f).records[i].at >= kHeader + Directory(f).pos
             /\ Directory(f).records[i].at + f.header.dim =< Total(f)
  <2>1. Directory(f).records[i] \in Known(f)
    BY <1>1, DirectorySound
  <2>2. Directory(f).records[i].at \in Places(f)
    BY <2>1 DEF Known
  <2> QED
    BY <1>1, <2>2, PlacesInBounds
<1>7. Len(c.records) = f.header.record_count
  <2>1. DOMAIN c.records = 1..f.header.record_count
    BY <1>2, <1>5
  <2> QED
    BY <1>4, <2>1
<1>8. f.header.index_off + f.header.index_len =< Total(f)
  BY <1>1, <1>4 DEF HeaderValid
<1>9. ASSUME f.header.index_type = HNSW, NEW i \in 4..Len(c.index_blob)
      PROVE  \E j \in DOMAIN c.records : c.records[j].id = c.index_blob[i]
  <2> DEFINE nodes == SubSeq(blob, 4, Len(blob))
  <2>1. DOMAIN blob = 1..f.header.index_len /\ Len(blob) = f.header.index_len
    BY <1>4 DEF Region
  <2> HIDE DEF blob
  <2>2. \A s \in DOMAIN nodes : nodes[s] \in {rec.id : rec \in recs}
    BY <1>1, <1>9 DEF IndexValid, RegionValid, blob
  <2>3. i - 3 \in DOMAIN nodes /\ nodes[i - 3] = blob[i]
    BY <1>2, <1>4, <1>9, <2>1
  <2>4. PICK rec \in recs : rec.id = blob[i]
    BY <2>2, <2>3
  <2>5. PICK j \in DOMAIN by_id : by_id[j] = rec
    BY <1>5
  <2> QED
    BY <1>2, <2>4, <2>5
<1> QED
  BY <1>6, <1>7, <1>8, <1>9 DEF InBounds, c

\* Whatever the bytes of a file and whatever its checksum is worth, what load
\* accepts lies inside the file, and its parts agree.
LEMMA LoadInBounds ==
    ASSUME NEW f, f.header.whole => Sized(f), load(f).status = "ok"
    PROVE  InBounds(f, load(f).collection)
<1>1. f.header.whole /\ Valid(f) /\ load(f).collection = Reconstructed(f)
  BY DEF load, Valid
<1> QED
  BY <1>1, ValidInBounds

-----------------------------------------------------------------------------
(* Sequences behind one another                                             *)

\* flat[i] holds the first i of the sequences seqs, one behind the other.
Flat(flat, S, seqs) ==
    /\ flat \in [0..Len(seqs) -> Seq(S)] /\ flat[0] = << >>
    /\ \A i \in 1..Len(seqs) : flat[i] = flat[i - 1] \o seqs[i]

LEMMA FlattenIs ==
    ASSUME NEW S, NEW seqs \in Seq(Seq(S))
    PROVE  \E flat : Flat(flat, S, seqs) /\ FlattenSeq(seqs) = flat[Len(seqs)]
<1> DEFINE n == Len(seqs)
           A == Seq(S)
           F == [p \in (1..n) \X A |-> p[2] \o seqs[p[1]]]
<1>1. n \in Nat /\ DOMAIN seqs = 1..n /\ \A i \in 1..n : seqs[i] \in A
  OBVIOUS
<1>2. F \in [(1..n) \X A -> A]
  <2>1. \A p \in (1..n) \X A : p[2] \in Seq(S) /\ seqs[p[1]] \in Seq(S)
    BY <1>1
  <2>2. \A p \in (1..n) \X A : p[2] \o seqs[p[1]] \in Seq(S)
    BY <2>1
  <2> QED
    BY <2>2
<1>3. << >> \in A
  OBVIOUS
<1>4. \A i \in 1..n, x \in A : F[<<i, x>>] = x \o seqs[i]
  OBVIOUS
<1> HIDE DEF n, A, F
<1>5. PICK flat : Iteration(flat, n, A, << >>, F)
  BY <1>1, <1>2, <1>3, Iterates
<1>6. /\ flat \in [0..n -> A] /\ flat[0] = << >>
      /\ \A i \in 1..n : flat[i] = flat[i - 1] \o seqs[i]
  <2>1. /\ flat \in [0..n -> A] /\ flat[0] = << >>
        /\ \A i \in 1..n : flat[i] = F[<<i, flat[i - 1]>>]
    BY <1>5 DEF Iteration
  <2>2. \A i \in 1..n : i - 1 \in 0..n
    BY <1>1
  <2> QED
    BY <1>4, <2>1, <2>2
<1>7. Flat(flat, S, seqs)
  BY <1>6 DEF Flat, n, A
<1>8. FlattenSeq(seqs) = flat[n]
  <2>1. CASE n = 0
    <3>1. seqs = << >>
      BY <2>1 DEF n
    <3> QED
      BY <1>6, <2>1, <3>1 DEF FlattenSeq, n
  <2>2. CASE n # 0
    <3> DEFINE Rec(r) == [i \in 1..n |-> IF i = 1 THEN seqs[i] ELSE r[i - 1] \o seqs[i]]
               flatten == CHOOSE r : r = Rec(r)
               g == [i \in 1..n |-> flat[i]]
               h == [i \in 0..n |-> IF i = 0 THEN << >> ELSE flatten[i]]
    <3>1. FlattenSeq(seqs) = flatten[n]
      BY <2>2 DEF FlattenSeq, n
    <3>2. \A i \in 1..n : i = 1 \/ i - 1 \in 1..n
      BY <1>1
    <3>3. 1 \in 1..n /\ n \in 1..n
      BY <1>1, <2>2
    <3>4. flat[1] = seqs[1]
      <4>1. flat[1] = << >> \o seqs[1]
        <5>1. ASSUME NEW i \in 1..n, i = 1 PROVE flat[i] = << >> \o seqs[i]
          <6>1. i - 1 = 0
            BY ONLY <5>1
          <6>2. flat[i] = flat[i - 1] \o seqs[i]
            BY ONLY <1>6, <5>1
          <6> QED
            BY ONLY <1>6, <6>1, <6>2
        <5> QED
          BY ONLY <3>3, <5>1
      <4>2. seqs[1] \in Seq(S)
        BY <1>1, <3>3 DEF A
      <4> QED
        BY <4>1, <4>2, ConcatEmptySeq
    <3>5. g = Rec(g)
      BY <1>6, <3>2, <3>4, Zenon
    <3>6. flatten = Rec(flatten)
      BY <3>5, Zenon
    <3> HIDE DEF flatten
    <3>7. /\ flatten[1] = seqs[1]
          /\ \A i \in 1..n : i # 1 => flatten[i] = flatten[i - 1] \o seqs[i]
      BY <3>3, <3>6
    <3>8. h[0] = flat[0] /\ \A i \in 1..n : h[i] = flatten[i]
      BY <1>1, <1>6
    <3>9. \A i \in 1..n : h[i - 1] = flat[i - 1] => h[i] = flat[i]
      <4>1. \A i \in 1..n : i # 1 => h[i - 1] = flatten[i - 1]
        BY <3>2, <3>8
      <4> HIDE DEF h
      <4>2. ASSUME NEW i \in 1..n, h[i - 1] = flat[i - 1] PROVE h[i] = flat[i]
        <5>1. CASE i = 1
          BY <3>4, <3>7, <3>8, <5>1
        <5>2. CASE i # 1
          <6>1. h[i] = flat[i - 1] \o seqs[i]
            BY <3>7, <3>8, <4>1, <4>2, <5>2
          <6>2. flat[i] = flat[i - 1] \o seqs[i]
            BY <1>6
          <6> QED
            BY ONLY <6>1, <6>2
        <5> QED
          BY <5>1, <5>2
      <4> QED
        BY <4>2
    <3> HIDE DEF h
    <3>10. GoAlike(h, flat, n)
      BY <3>8, <3>9 DEF GoAlike
    <3>11. h[n] = flat[n]
      BY <1>1, <3>10, SameEnd
    <3> QED
      BY <3>1, <3>3, <3>8, <3>11
  <2> QED
    BY <2>1, <2>2
<1> QED
  BY <1>7, <1>8 DEF n

\* u is s and then t.
Joins(u, s, t, S) ==
    /\ s \in Seq(S) /\ t \in Seq(S) /\ u \in Seq(S)
    /\ Len(s) \in Nat /\ Len(t) \in Nat /\ Len(u) \in Nat /\ Len(u) = Len(s) + Len(t)
    /\ \A j \in 1..Len(s) : u[j] = s[j]
    /\ \A j \in 1..Len(t) : u[Len(s) + j] = t[j]

LEMMA ConcatIs == ASSUME NEW S, NEW s \in Seq(S), NEW t \in Seq(S) PROVE Joins(s \o t, s, t, S)
<1> DEFINE u == s \o t
<1>1. Len(s) \in Nat /\ Len(t) \in Nat
  OBVIOUS
<1>2. /\ u \in Seq(S) /\ Len(u) = Len(s) + Len(t)
      /\ \A j \in 1..(Len(s) + Len(t)) : u[j] = IF j =< Len(s) THEN s[j] ELSE t[j - Len(s)]
  BY ConcatProperties
<1> HIDE DEF u
<1>3. Len(u) \in Nat
  BY <1>1, <1>2
<1>4. \A j \in 1..Len(s) : j \in 1..(Len(s) + Len(t)) /\ j =< Len(s)
  BY <1>1
<1>5. \A j \in 1..Len(t) : /\ Len(s) + j \in 1..(Len(s) + Len(t)) /\ ~(Len(s) + j =< Len(s))
                           /\ Len(s) + j - Len(s) = j
  BY <1>1
<1> QED
  BY <1>1, <1>2, <1>3, <1>4, <1>5 DEF Joins, u

\* The cells of one sequence follow those of the sequences before it.
LEMMA FlatStep ==
    ASSUME NEW S, NEW seqs \in Seq(Seq(S)), NEW flat, Flat(flat, S, seqs), NEW i \in 1..Len(seqs)
    PROVE  Joins(flat[i], flat[i - 1], seqs[i], S)
<1>1. i \in 0..Len(seqs) /\ i - 1 \in 0..Len(seqs)
  OBVIOUS
<1>2. flat[i - 1] \in Seq(S) /\ flat[i] = flat[i - 1] \o seqs[i]
  BY <1>1 DEF Flat
<1>3. seqs[i] \in Seq(S)
  OBVIOUS
<1> QED
  BY <1>2, <1>3, ConcatIs

\* s begins u.
Begins(s, u) == Len(s) =< Len(u) /\ \A j \in 1..Len(s) : u[j] = s[j]

LEMMA BeginsOn ==
    ASSUME NEW S, NEW s \in Seq(S), NEW u, NEW v, NEW t, Begins(s, u), Joins(v, u, t, S)
    PROVE  Begins(s, v)
<1>1. Len(s) \in Nat
  OBVIOUS
<1>2. Len(u) \in Nat /\ Len(t) \in Nat /\ Len(v) = Len(u) + Len(t)
  BY DEF Joins
<1>3. Len(s) =< Len(u) /\ \A j \in 1..Len(s) : u[j] = s[j]
  BY DEF Begins
<1>4. \A j \in 1..Len(u) : v[j] = u[j]
  BY DEF Joins
<1>5. \A j \in 1..Len(s) : j \in 1..Len(u)
  BY <1>1, <1>2, <1>3
<1> QED
  BY <1>1, <1>2, <1>3, <1>4, <1>5 DEF Begins

LEMMA FlatCells ==
    ASSUME NEW S, NEW seqs \in Seq(Seq(S)), NEW flat, Flat(flat, S, seqs), NEW i \in 1..Len(seqs)
    PROVE  /\ Begins(flat[i], flat[Len(seqs)])
           /\ \A j \in 1..Len(seqs[i]) : flat[Len(seqs)][Len(flat[i - 1]) + j] = seqs[i][j]
<1> DEFINE n == Len(seqs)
           P == {k \in 0..n : k >= i => Begins(flat[i], flat[k])}
<1>1. n \in Nat /\ n \in 0..n /\ n >= i /\ i \in Nat /\ i >= 1
  OBVIOUS
<1>2. 0 \in P
  BY <1>1
<1>3. Joins(flat[i], flat[i - 1], seqs[i], S)
  BY FlatStep
<1>4. flat[i] \in Seq(S) /\ Len(flat[i]) \in Nat
  BY <1>3 DEF Joins
<1>5. ASSUME NEW k \in 0..(n - 1), k \in P PROVE k + 1 \in P
  <2>1. k + 1 \in 1..n /\ k + 1 \in 0..n /\ k + 1 - 1 = k
    BY <1>1
  <2>2. CASE k + 1 < i
    <3>1. ~(k + 1 >= i)
      BY <1>1, <2>1, <2>2
    <3> QED
      BY <2>1, <3>1
  <2>3. CASE k + 1 = i
    <3>1. Begins(flat[i], flat[i])
      BY <1>4 DEF Begins
    <3> QED
      BY <2>1, <2>3, <3>1
  <2>4. CASE k >= i
    <3>1. Begins(flat[i], flat[k])
      BY <1>5, <2>4
    <3> DEFINE m == k + 1
    <3>2. m \in 1..Len(seqs) /\ m - 1 = k
      BY <2>1
    <3> HIDE DEF m
    <3>3. Joins(flat[m], flat[m - 1], seqs[m], S)
      BY <3>2, FlatStep
    <3>4. Begins(flat[i], flat[m])
      BY <1>4, <3>1, <3>2, <3>3, BeginsOn
    <3> QED
      BY <2>1, <3>4 DEF m
  <2>5. k + 1 < i \/ k + 1 = i \/ k >= i
    BY <1>1
  <2> QED
    BY <2>2, <2>3, <2>4, <2>5
<1> HIDE DEF P
<1>6. n \in P
  BY <1>1, <1>2, <1>5, Inductively
<1>7. Begins(flat[i], flat[n])
  BY <1>1, <1>6 DEF P
<1> DEFINE before == Len(flat[i - 1])
           len == Len(seqs[i])
           all == Len(flat[i])
<1>8. /\ before \in Nat /\ len \in Nat /\ all = before + len
      /\ \A j \in 1..len : flat[i][before + j] = seqs[i][j]
  BY <1>3 DEF Joins
<1>9. \A j \in 1..all : flat[n][j] = flat[i][j]
  BY <1>7 DEF Begins
<1> HIDE DEF before, len, all, n
<1>10. \A j \in 1..len : before + j \in 1..all
  BY <1>8
<1>11. \A j \in 1..len : flat[n][before + j] = seqs[i][j]
  BY <1>8, <1>9, <1>10
<1> QED
  BY <1>7, <1>11 DEF before, len, n

\* Sequences of one length.
Even(u, seqs, len) ==
    /\ Len(u) = Len(seqs) * len
    /\ \A i \in 1..Len(seqs), j \in 1..len : u[(i - 1) * len + j] = seqs[i][j]

SameLength(seqs, len) == \A i \in 1..Len(seqs) : Len(seqs[i]) = len

LEMMA FlatEven ==
    ASSUME NEW S, NEW seqs \in Seq(Seq(S)), NEW flat, Flat(flat, S, seqs), NEW len \in Nat,
           SameLength(seqs, len)
    PROVE  Even(flat[Len(seqs)], seqs, len) /\ \A i \in 0..Len(seqs) : Len(flat[i]) = i * len
<1> USE DEF SameLength
<1> DEFINE n == Len(seqs)
           P == {k \in 0..n : Len(flat[k]) = k * len}
<1>1. n \in Nat
  OBVIOUS
<1>2. 0 \in P
  <2>1. Len(flat[0]) = 0
    BY DEF Flat
  <2>2. 0 * len = 0
    BY SMT
  <2> QED
    BY <1>1, <2>1, <2>2
<1>3. ASSUME NEW k \in 0..(n - 1), k \in P PROVE k + 1 \in P
  <2>1. k + 1 \in 1..n /\ k + 1 \in 0..n /\ k + 1 - 1 = k /\ k \in Nat
    BY <1>1
  <2> DEFINE m == k + 1
  <2>2. Len(flat[m]) = Len(flat[m - 1]) + len
    <3>1. m \in 1..Len(seqs)
      BY <2>1
    <3> HIDE DEF m
    <3>2. Joins(flat[m], flat[m - 1], seqs[m], S)
      BY <3>1, FlatStep
    <3> QED
      BY <3>1, <3>2 DEF Joins
  <2>3. Len(flat[k]) = k * len
    BY <1>3
  <2>4. (k + 1) * len = k * len + len
    BY <2>1, SMT
  <2>5. m - 1 = k
    BY <2>1
  <2>6. Len(flat[m]) = k * len + len
    BY <2>2, <2>3, <2>5
  <2> QED
    BY <2>1, <2>4, <2>6
<1> HIDE DEF P
<1>4. \A k \in 0..n : k \in P
  BY <1>1, <1>2, <1>3, Inductively
<1>5. \A k \in 0..n : Len(flat[k]) = k * len
  BY <1>4 DEF P
<1>6. \A i \in 1..n, j \in 1..len : flat[n][(i - 1) * len + j] = seqs[i][j]
  <2> SUFFICES ASSUME NEW i \in 1..n, NEW j \in 1..len
               PROVE  flat[n][(i - 1) * len + j] = seqs[i][j]
    OBVIOUS
  <2>1. i - 1 \in 0..n
    BY <1>1
  <2>2. Len(flat[i - 1]) = (i - 1) * len /\ Len(seqs[i]) = len
    BY <1>5, <2>1
  <2>3. \A m \in 1..Len(seqs[i]) : flat[n][Len(flat[i - 1]) + m] = seqs[i][m]
    BY FlatCells
  <2> QED
    BY <2>2, <2>3
<1>7. n \in 0..n
  BY <1>1
<1> QED
  BY <1>5, <1>6, <1>7 DEF n, Even

-----------------------------------------------------------------------------
(* What encode writes                                                       *)

\* The sequence w lies in body behind its first p cells.
Holds(body, p, w) ==
    /\ w \in Seq(Nat) /\ p \in Nat /\ Len(w) \in Nat /\ p + Len(w) =< Len(body)
    /\ \A j \in 1..Len(w) : body[p + j] = w[j]

\* It can be cut out again.
LEMMA SubSeqIs ==
    ASSUME NEW body \in Seq(Nat), NEW p, NEW w, Holds(body, p, w)
    PROVE  SubSeq(body, p + 1, p + Len(w)) = w
<1> DEFINE len == Len(w)
           m == p + 1
           n == p + len
           u == SubSeq(body, m, n)
<1>1. /\ w \in Seq(Nat) /\ p \in Nat /\ len \in Nat /\ n =< Len(body)
      /\ \A j \in 1..len : body[p + j] = w[j]
  BY DEF Holds
<1>2. w = [j \in 1..len |-> w[j]]
  BY <1>1
<1> HIDE DEF len
<1>3. m \in Int /\ n \in Int /\ n - m + 1 = len /\ (m =< n <=> len # 0)
  BY <1>1
<1>4. \A j \in m..n : body[j] \in Nat
  BY <1>1, CellsIn
<1>5. \A j \in 1..len : m + j - 1 = p + j
  BY <1>1
<1> HIDE DEF m, n
<1>6. /\ u \in Seq(Nat) /\ Len(u) = (IF m =< n THEN n - m + 1 ELSE 0)
      /\ \A j \in 1..(n - m + 1) : u[j] = body[m + j - 1]
  BY ONLY <1>3, <1>4, SubSeqProperties
<1> HIDE DEF u
<1>7. Len(u) = len /\ u = [j \in 1..Len(u) |-> u[j]]
  BY <1>1, <1>3, <1>6
<1>8. \A j \in 1..len : u[j] = w[j]
  BY <1>1, <1>3, <1>5, <1>6
<1>9. u = w
  BY <1>2, <1>7, <1>8
<1> QED
  BY <1>9 DEF u, m, n, len

LEMMA HoldsWhole == ASSUME NEW w \in Seq(Nat) PROVE Holds(w, 0, w)
<1>1. Len(w) \in Nat
  OBVIOUS
<1> QED
  BY <1>1 DEF Holds

\* The parts of what body holds, and what holds body.
LEMMA HoldsParts ==
    ASSUME NEW body, Len(body) \in Nat, NEW p, NEW u, NEW s, NEW t, Holds(body, p, u), Joins(u, s, t, Nat)
    PROVE  Holds(body, p, s) /\ Holds(body, p + Len(s), t)
<1>1. /\ s \in Seq(Nat) /\ t \in Seq(Nat) /\ Len(s) \in Nat /\ Len(t) \in Nat
      /\ Len(u) = Len(s) + Len(t)
      /\ \A j \in 1..Len(s) : u[j] = s[j]
      /\ \A j \in 1..Len(t) : u[Len(s) + j] = t[j]
  BY DEF Joins
<1>2. /\ p \in Nat /\ p + Len(u) =< Len(body)
      /\ \A j \in 1..Len(u) : body[p + j] = u[j]
  BY DEF Holds
<1>3. \A j \in 1..Len(s) : j \in 1..Len(u)
  BY <1>1
<1>4. \A j \in 1..Len(t) : Len(s) + j \in 1..Len(u) /\ p + (Len(s) + j) = p + Len(s) + j
  BY <1>1, <1>2
<1>5. Holds(body, p, s)
  BY <1>1, <1>2, <1>3 DEF Holds
<1>6. \A j \in 1..Len(t) : body[p + Len(s) + j] = t[j]
  BY <1>1, <1>2, <1>4
<1>7. Holds(body, p + Len(s), t)
  BY <1>1, <1>2, <1>6 DEF Holds
<1> QED
  BY <1>5, <1>7

LEMMA HoldsFlat ==
    ASSUME NEW body, Len(body) \in Nat, NEW p, NEW seqs \in Seq(Seq(Nat)), NEW flat,
           Flat(flat, Nat, seqs), Holds(body, p, flat[Len(seqs)]), NEW i \in 1..Len(seqs)
    PROVE  Holds(body, p + Len(flat[i - 1]), seqs[i])
<1> DEFINE u == flat[Len(seqs)]
           k == Len(flat[i - 1])
           e == seqs[i]
<1>1. Begins(flat[i], u) /\ \A j \in 1..Len(e) : u[k + j] = e[j]
  BY FlatCells
<1>2. Joins(flat[i], flat[i - 1], e, Nat)
  BY FlatStep
<1>3. k \in Nat /\ Len(e) \in Nat /\ e \in Seq(Nat) /\ Len(flat[i]) = k + Len(e)
  BY <1>2 DEF Joins
<1>4. /\ p \in Nat /\ Len(u) \in Nat /\ p + Len(u) =< Len(body)
      /\ \A j \in 1..Len(u) : body[p + j] = u[j]
  BY DEF Holds
<1>5. Len(flat[i]) =< Len(u)
  BY <1>1 DEF Begins
<1> HIDE DEF u, k, e
<1>6. \A j \in 1..Len(e) : k + j \in 1..Len(u) /\ p + (k + j) = p + k + j
  BY <1>3, <1>4, <1>5
<1>7. \A j \in 1..Len(e) : body[p + k + j] = e[j]
  BY <1>1, <1>4, <1>6
<1>8. Holds(body, p + k, e)
  BY <1>3, <1>4, <1>5, <1>7 DEF Holds
<1> QED
  BY <1>8 DEF k, e

\* Metadata is written in a form that read_metadata takes back, absent metadata
\* apart from empty metadata.
LEMMA PairIs ==
    ASSUME NEW a \in Nat, NEW b \in Nat
    PROVE  <<a, b>> \in Seq(Nat) /\ Len(<<a, b>>) = 2
OBVIOUS

LEMMA MetadataReads ==
    ASSUME NEW meta \in Metadata
    PROVE  LET blob == write_metadata(meta)
           IN  blob \in Seq(Nat) /\ MetadataValid(blob) /\ read_metadata(blob) = meta
<1> DEFINE es == meta.entries
           n == Len(es)
<1>1. CASE ~meta.present
  <2>1. meta = [present |-> FALSE, entries |-> << >>]
    BY <1>1 DEF Metadata
  <2>2. write_metadata(meta) = <<0>>
    BY <1>1 DEF write_metadata
  <2> QED
    BY <2>1, <2>2 DEF MetadataValid, read_metadata
<1>2. CASE meta.present
  <2>1. es \in Seq(Nat \X (Nat \ {0})) /\ meta = [present |-> TRUE, entries |-> es]
    BY <1>2 DEF Metadata
  <2>0. \A i, j \in DOMAIN es : i < j => es[i][1] < es[j][1]
    BY <1>2 DEF Metadata
  <2> HIDE DEF es
  <2>2. /\ n \in Nat /\ DOMAIN es = 1..n /\ es = [i \in 1..n |-> es[i]]
        /\ \A i \in 1..n : es[i] \in Nat \X (Nat \ {0})
    BY <2>1
  <2>3. \A i \in 1..n : /\ es[i] = <<es[i][1], es[i][2]>>
                        /\ es[i][1] \in Nat /\ es[i][2] \in Nat /\ es[i][2] # 0
    BY <2>2
  <2>4. \A i \in 1..n : es[i] \in Seq(Nat) /\ Len(es[i]) = 2
    BY <2>3, PairIs
  <2>5. es \in Seq(Seq(Nat))
    BY <2>2, <2>4, SeqByParts
  <2>6. PICK flat : Flat(flat, Nat, es) /\ FlattenSeq(es) = flat[n]
    BY <2>5, FlattenIs
  <2> DEFINE u == flat[n]
             w == <<1, n>> \o u
  <2>7. u \in Seq(Nat)
    BY <2>2, <2>6 DEF Flat
  <2>8. /\ Len(u) = n * 2
        /\ \A i \in 1..n, j \in 1..2 : u[(i - 1) * 2 + j] = es[i][j]
    <3> DEFINE len == 2
    <3>1. len \in Nat /\ SameLength(es, len)
      BY <2>4 DEF SameLength
    <3> HIDE DEF len, u
    <3>2. Even(flat[Len(es)], es, len)
      BY ONLY <2>5, <2>6, <3>1, FlatEven
    <3> QED
      BY <3>2 DEF u, len, Even
  <2> HIDE DEF u
  <2>9. write_metadata(meta) = w
    BY <1>2, <2>6 DEF write_metadata, u, es
  <2>10. Joins(w, <<1, n>>, u, Nat) /\ Len(<<1, n>>) = 2
    <3>1. <<1, n>> \in Seq(Nat) /\ Len(<<1, n>>) = 2
      BY <2>2
    <3> QED
      BY <2>7, <3>1, ConcatIs
  <2>11. /\ w \in Seq(Nat) /\ Len(w) = 2 + n * 2 /\ w[1] = 1 /\ w[2] = n
         /\ \A j \in 1..(n * 2) : w[2 + j] = u[j]
    <3>1. 1 \in 1..2 /\ 2 \in 1..2 /\ <<1, n>>[1] = 1 /\ <<1, n>>[2] = n
      OBVIOUS
    <3>2. /\ w \in Seq(Nat) /\ Len(w) = 2 + Len(u) /\ \A j \in 1..2 : w[j] = <<1, n>>[j]
          /\ \A j \in 1..Len(u) : w[2 + j] = u[j]
      BY <2>10 DEF Joins
    <3> HIDE DEF w
    <3> QED
      BY <2>8, <3>1, <3>2
  <2> HIDE DEF w
  <2>12. ASSUME NEW i \in 1..n PROVE w[1 + 2 * i] = es[i][1] /\ w[2 + 2 * i] = es[i][2]
    <3>1. /\ (i - 1) * 2 + 1 \in 1..(n * 2) /\ 2 + ((i - 1) * 2 + 1) = 1 + 2 * i
          /\ (i - 1) * 2 + 2 \in 1..(n * 2) /\ 2 + ((i - 1) * 2 + 2) = 2 + 2 * i
      BY <2>2
    <3>2. u[(i - 1) * 2 + 1] = es[i][1] /\ u[(i - 1) * 2 + 2] = es[i][2]
      BY <2>8
    <3>3. /\ w[2 + ((i - 1) * 2 + 1)] = u[(i - 1) * 2 + 1]
          /\ w[2 + ((i - 1) * 2 + 2)] = u[(i - 1) * 2 + 2]
      BY <2>11, <3>1
    <3> QED
      BY <3>1, <3>2, <3>3
  <2>13. MetadataValid(w)
    <3>1. Len(w) = 2 + 2 * w[2] /\ Len(w) >= 2 /\ w[1] # 0
      BY <2>2, <2>11
    <3>2. \A i \in 1..n : w[2 + 2 * i] # 0
      BY <2>3, <2>12
    <3>3. w[2] = n
      BY <2>11
    <3> HIDE DEF n
    <3>4. \A i \in 1..w[2] : w[2 + 2 * i] # 0
      BY ONLY <3>2, <3>3
    <3> QED
      BY <3>1, <3>4 DEF MetadataValid
  <2>14. read_metadata(w) = meta
    <3> DEFINE read == [i \in 1..n |-> <<w[1 + 2 * i], w[2 + 2 * i]>>]
               first == {i \in 1..n : \A j \in 1..(i - 1) : read[j][1] # read[i][1]}
    <3>1. read_metadata(w) = [present |-> TRUE,
                              entries |-> Sorted({read[i] : i \in first}, ByKey(Elements(read)))]
      <4> DEFINE Pairs(k) == [i \in 1..k |-> <<w[1 + 2 * i], w[2 + 2 * i]>>]
                 New(k) == {i \in 1..k : \A j \in 1..(i - 1) : Pairs(k)[j][1] # Pairs(k)[i][1]}
                 Read(k) == [present |-> TRUE,
                             entries |-> Sorted({Pairs(k)[i] : i \in New(k)}, ByKey(Elements(Pairs(k))))]
      <4>1. w[1] # 0 /\ w[2] = n
        BY <2>11
      <4> HIDE DEF n, w
      <4>2. read_metadata(w) = Read(w[2])
        BY <4>1, Zenon DEF read_metadata
      <4> HIDE DEF Read
      <4>3. read_metadata(w) = Read(n)
        BY ONLY <4>1, <4>2
      <4> QED
        BY <4>3 DEF Read
    <3>2. \A i \in 1..n : <<w[1 + 2 * i], w[2 + 2 * i]>> = es[i]
      BY <2>3, <2>12
    <3>3. read = es
      BY <2>2, <3>2
    <3> HIDE DEF read
    <3>4. first = 1..n
      <4>1. \A i \in 1..n : \A j \in 1..(i - 1) : j \in 1..n /\ j < i
        BY <2>2
      <4>2. \A i, j \in 1..n : j < i => es[j][1] < es[i][1]
        BY <2>0
      <4>3. \A i, j \in 1..n : j < i => es[j][1] # es[i][1]
        BY <2>3, <4>2
      <4> QED
        BY <3>3, <4>1, <4>3
    <3>5. {read[i] : i \in first} = Elements(es)
      BY <2>2, <3>3, <3>4 DEF Elements
    <3>6. Sorted(Elements(es), ByKey(Elements(es))) = es
      BY <2>1, <2>0, EntriesSorted
    <3> QED
      BY <2>1, <3>1, <3>3, <3>5, <3>6
  <2> QED
    BY <2>9, <2>11, <2>13, <2>14
<1> QED
  BY <1>1, <1>2

\* A region of the mapping behind the header.
LEMMA RegionIs ==
    ASSUME NEW f, f.body \in Seq(Nat), NEW p, NEW w, Holds(f.body, p, w)
    PROVE  Region(f, kHeader + p, Len(w)) = w
<1>1. /\ w \in Seq(Nat) /\ p \in Nat /\ Len(w) \in Nat
      /\ \A j \in 1..Len(w) : f.body[p + j] = w[j]
  BY DEF Holds
<1>2. w = [j \in 1..Len(w) |-> w[j]]
  BY <1>1
<1>3. \A j \in 1..Len(w) : kHeader + p + j > kHeader /\ kHeader + p + j - kHeader = p + j
  BY <1>1, LayoutAssumption
<1>4. \A j \in 1..Len(w) :
         (IF kHeader + p + j > kHeader THEN f.body[kHeader + p + j - kHeader] ELSE 1) = w[j]
  BY <1>1, <1>3
<1> QED
  BY <1>2, <1>4 DEF Region

\* What is known of a captured collection.
LEMMA CapturedIs ==
    ASSUME NEW data \in CollectionSnapshotData
    PROVE  /\ data = [name |-> data.name, dim |-> data.dim, metric |-> data.metric,
                      index_type |-> data.index_type, records |-> data.records,
                      index_blob |-> data.index_blob]
           /\ data.name \in Seq(Nat) /\ Len(data.name) \in 1..MaxName
           /\ data.dim \in 1..MaxDim /\ data.metric \in 0..2
           /\ data.index_type \in {None, HNSW, IVF} /\ data.index_blob \in Seq(Nat)
           /\ RegionValid(data.index_type, data.index_blob,
                          {rec.id : rec \in Elements(data.records)})
           /\ Len(data.records) \in Nat /\ DOMAIN data.records = 1..Len(data.records)
           /\ data.records = [i \in 1..Len(data.records) |-> data.records[i]]
           /\ \A i, j \in 1..Len(data.records) : i < j => data.records[i].id < data.records[j].id
<1>1. /\ data \in [name: Seq(Nat), dim: 1..MaxDim, metric: 0..2, index_type: {None, HNSW, IVF},
                   records: Seq([id: Nat \ {0}, meta: Metadata, vector: Seq(Nat)]),
                   index_blob: Seq(Nat)]
      /\ Len(data.name) \in 1..MaxName
      /\ \A i, j \in DOMAIN data.records : i < j => data.records[i].id < data.records[j].id
      /\ RegionValid(data.index_type, data.index_blob, {rec.id : rec \in Elements(data.records)})
  BY DEF CollectionSnapshotData
<1>2. /\ Len(data.records) \in Nat /\ DOMAIN data.records = 1..Len(data.records)
      /\ data.records = [i \in 1..Len(data.records) |-> data.records[i]]
  <2> DEFINE R == [id: Nat \ {0}, meta: Metadata, vector: Seq(Nat)]
             recs == data.records
  <2>1. recs \in Seq(R)
    BY <1>1
  <2> HIDE DEF R, recs
  <2>2. Len(recs) \in Nat /\ DOMAIN recs = 1..Len(recs) /\ recs = [i \in 1..Len(recs) |-> recs[i]]
    BY <2>1
  <2> QED
    BY <2>2 DEF recs
<1> QED
  BY <1>1, <1>2

LEMMA RecordIs ==
    ASSUME NEW data \in CollectionSnapshotData, NEW i \in 1..Len(data.records)
    PROVE  LET rec == data.records[i]
           IN  /\ rec = [id |-> rec.id, meta |-> rec.meta, vector |-> rec.vector]
               /\ rec.id \in Nat \ {0} /\ rec.meta \in Metadata
               /\ rec.vector \in Seq(Nat) /\ Len(rec.vector) = data.dim
<1> DEFINE R == [id: Nat \ {0}, meta: Metadata, vector: Seq(Nat)]
           recs == data.records
<1>1. recs \in Seq(R) /\ \A j \in DOMAIN recs : Len(recs[j].vector) = data.dim
  BY DEF CollectionSnapshotData
<1>2. i \in 1..Len(recs)
  OBVIOUS
<1> HIDE DEF R, recs
<1>3. recs[i] \in R /\ i \in DOMAIN recs
  BY <1>1, <1>2
<1> QED
  BY <1>1, <1>3 DEF R, recs

\* The parts of an encoded file.
Entries(data) == [i \in 1..Len(data.records) |-> DirectoryEntry(data.records[i], i)]
Vectors(data) == [i \in 1..Len(data.records) |-> data.records[i].vector]
Opening(data) == data.name \o FlattenSeq(Entries(data))
PaddedOpening(data)   == Opening(data) \o Padding(Len(Opening(data)))

LEMMA TripleIs ==
    ASSUME NEW a \in Nat, NEW b \in Nat, NEW c \in Nat
    PROVE  /\ <<a, b, c>> \in Seq(Nat) /\ Len(<<a, b, c>>) = 3
           /\ <<a, b, c>>[1] = a /\ <<a, b, c>>[2] = b /\ <<a, b, c>>[3] = c
OBVIOUS

LEMMA EntryIs ==
    ASSUME NEW data \in CollectionSnapshotData, NEW i \in 1..Len(data.records)
    PROVE  LET rec == data.records[i]
               meta == write_metadata(rec.meta)
           IN  Joins(Entries(data)[i], <<rec.id, i - 1, Len(meta)>>, meta, Nat)
<1> DEFINE rec == data.records[i]
           meta == write_metadata(rec.meta)
           key == <<rec.id, i - 1, Len(meta)>>
<1>1. rec.id \in Nat /\ rec.meta \in Metadata
  BY RecordIs
<1>2. meta \in Seq(Nat)
  BY <1>1, MetadataReads
<1>3. Entries(data)[i] = key \o meta
  BY DEF Entries, DirectoryEntry
<1>4. i - 1 \in Nat /\ Len(meta) \in Nat
  BY <1>2, CapturedIs
<1>5. key \in Seq(Nat)
  BY <1>1, <1>4, TripleIs
<1> HIDE DEF key, meta
<1>6. Joins(key \o meta, key, meta, Nat)
  BY <1>2, <1>5, ConcatIs
<1>7. Joins(Entries(data)[i], key, meta, Nat)
  BY <1>3, <1>6
<1> QED
  BY <1>7 DEF key, meta, rec

LEMMA PartsAre ==
    ASSUME NEW data \in CollectionSnapshotData
    PROVE  /\ Entries(data) \in Seq(Seq(Nat)) /\ Len(Entries(data)) = Len(data.records)
           /\ Vectors(data) \in Seq(Seq(Nat)) /\ Len(Vectors(data)) = Len(data.records)
           /\ \A i \in 1..Len(data.records) : /\ Vectors(data)[i] = data.records[i].vector
                                              /\ Len(Vectors(data)[i]) = data.dim
<1> DEFINE n == Len(data.records)
           E == Entries(data)
           V == Vectors(data)
<1>1. n \in Nat
  BY CapturedIs
<1>2. \A i \in 1..n : E[i] \in Seq(Nat)
  BY EntryIs DEF Joins
<1>3. \A i \in 1..n : V[i] = data.records[i].vector
  BY DEF Vectors
<1>4. \A i \in 1..n : data.records[i].vector \in Seq(Nat) /\ Len(data.records[i].vector) = data.dim
  BY RecordIs
<1>5. DOMAIN E = 1..n /\ E = [i \in 1..n |-> E[i]]
  BY DEF Entries
<1>6. DOMAIN V = 1..n /\ V = [i \in 1..n |-> V[i]]
  BY DEF Vectors
<1> DEFINE C == Seq(Nat)
<1> HIDE DEF n, E, V, C
<1>7. E \in Seq(C) /\ Len(E) = n
  BY <1>1, <1>2, <1>5, SeqByParts DEF C
<1>8. V \in Seq(C) /\ Len(V) = n
  <2>1. \A i \in 1..n : V[i] \in C
    BY <1>3, <1>4 DEF C
  <2> QED
    BY ONLY <1>1, <1>6, <2>1, SeqByParts
<1> QED
  BY <1>3, <1>4, <1>7, <1>8 DEF n, E, V, C

LEMMA EncodedIs ==
    ASSUME NEW data
    PROVE  LET f == encode(data)
               n == Len(data.records)
               vectors == FlattenSeq(Vectors(data))
           IN  /\ f.body = (PaddedOpening(data) \o vectors) \o data.index_blob
               /\ f.header = [whole |-> TRUE, magic |-> 1, version |-> 1,
                              dim |-> data.dim, metric |-> data.metric,
                              index_type |-> data.index_type,
                              record_count |-> n, name_length |-> Len(data.name),
                              vector_off |-> kHeader + Len(PaddedOpening(data)), vector_len |-> n * data.dim,
                              index_off |-> kHeader + Len(PaddedOpening(data)) + Len(vectors),
                              index_len |-> Len(data.index_blob),
                              content_crc |-> checksum(f.body)]
BY Zenon DEF encode, PaddedOpening, Opening, Entries, Vectors

LEMMA PaddingIs == ASSUME NEW n \in Nat PROVE Padding(n) \in Seq(Nat)
<1> DEFINE len == (-(kHeader + n)) % kAlignment
<1>1. len \in Nat
  BY LayoutAssumption
<1> HIDE DEF len
<1>2. [i \in 1..len |-> 0] \in Seq(Nat)
  BY <1>1
<1> QED
  BY <1>2 DEF Padding, len

\* Where the parts of data lie in body; directory[i] are its first i entries.
Laid(data, body, directory) ==
    LET n == Len(data.records)
        begin == Len(PaddedOpening(data))
    IN  /\ body \in Seq(Nat) /\ begin \in Nat
        /\ Flat(directory, Nat, Entries(data))
        /\ Holds(body, 0, data.name)
        /\ \A i \in 1..n : Holds(body, Len(data.name) + Len(directory[i - 1]), Entries(data)[i])
        /\ Len(data.name) + Len(directory[n]) =< begin
        /\ \A i \in 1..n : Holds(body, begin + (i - 1) * data.dim, data.records[i].vector)
        /\ Holds(body, begin + n * data.dim, data.index_blob)
        /\ Len(FlattenSeq(Vectors(data))) = n * data.dim
        /\ Len(body) = begin + n * data.dim + Len(data.index_blob)

LEMMA EncodedLaid ==
    ASSUME NEW data \in CollectionSnapshotData
    PROVE  \E directory : Laid(data, encode(data).body, directory)
<1> DEFINE n == Len(data.records)
           name == data.name
           dim == data.dim
           blob == data.index_blob
           es == Entries(data)
           vs == Vectors(data)
           opening == Opening(data)
           pad == Padding(Len(opening))
           front == PaddedOpening(data)
           all == FlattenSeq(vs)
           body == encode(data).body
<1>1. n \in Nat /\ name \in Seq(Nat) /\ blob \in Seq(Nat) /\ dim \in Nat
  <2>1. data.dim \in 1..MaxDim /\ data.name \in Seq(Nat) /\ data.index_blob \in Seq(Nat)
    BY CapturedIs
  <2>2. Len(data.records) \in Nat
    BY CapturedIs
  <2> QED
    BY <2>1, <2>2, LayoutAssumption
<1>2. /\ es \in Seq(Seq(Nat)) /\ Len(es) = n /\ vs \in Seq(Seq(Nat)) /\ Len(vs) = n
      /\ \A i \in 1..n : vs[i] = data.records[i].vector /\ Len(vs[i]) = dim
  BY PartsAre
<1>3. body = (front \o all) \o blob /\ front = opening \o pad /\ opening = name \o FlattenSeq(es)
  BY EncodedIs DEF PaddedOpening, Opening
<1> HIDE DEF n, name, dim, blob, es, vs, opening, pad, front, all, body
<1>4. PICK D : Flat(D, Nat, es) /\ FlattenSeq(es) = D[Len(es)]
  BY ONLY <1>2, FlattenIs
<1>5. PICK V : Flat(V, Nat, vs) /\ FlattenSeq(vs) = V[Len(vs)]
  BY ONLY <1>2, FlattenIs
<1>6. Even(all, vs, dim) /\ \A i \in 0..Len(vs) : Len(V[i]) = i * dim
  <2>1. Even(V[Len(vs)], vs, dim) /\ \A i \in 0..Len(vs) : Len(V[i]) = i * dim
    <3>1. SameLength(vs, dim)
      BY <1>2 DEF SameLength
    <3> QED
      BY ONLY <1>1, <1>2, <1>5, <3>1, FlatEven
  <2> QED
    BY <1>5, <2>1 DEF all
<1>7. n \in 0..n
  BY <1>1
<1>8. D[n] \in Seq(Nat) /\ all \in Seq(Nat)
  BY <1>2, <1>4, <1>5, <1>7 DEF Flat, all
<1>9. Joins(opening, name, D[n], Nat)
  <2>1. Joins(name \o D[n], name, D[n], Nat)
    BY <1>1, <1>8, ConcatIs
  <2> QED
    BY <1>2, <1>3, <1>4, <2>1
<1>10. Joins(front, opening, pad, Nat)
  <2>1. opening \in Seq(Nat) /\ Len(opening) \in Nat
    BY <1>9 DEF Joins
  <2>2. pad \in Seq(Nat)
    BY <2>1, PaddingIs DEF pad
  <2>3. Joins(opening \o pad, opening, pad, Nat)
    BY <2>1, <2>2, ConcatIs
  <2> QED
    BY <1>3, <2>3
<1> DEFINE most == front \o all
<1>11. Joins(most, front, all, Nat)
  <2>1. front \in Seq(Nat)
    BY <1>10 DEF Joins
  <2> QED
    BY <1>8, <2>1, ConcatIs
<1>12. Joins(body, most, blob, Nat)
  <2>1. most \in Seq(Nat)
    BY <1>11 DEF Joins
  <2>2. Joins(most \o blob, most, blob, Nat)
    BY <1>1, <2>1, ConcatIs
  <2> QED
    BY <1>3, <2>2
<1> HIDE DEF most
<1>13. /\ body \in Seq(Nat) /\ Len(body) \in Nat /\ Len(front) \in Nat /\ Len(name) \in Nat
       /\ Len(body) = Len(front) + Len(all) + Len(blob)
       /\ Len(name) + Len(D[n]) =< Len(front)
  <2>1. /\ body \in Seq(Nat) /\ Len(body) \in Nat /\ Len(body) = Len(most) + Len(blob)
        /\ Len(blob) \in Nat
    BY <1>12 DEF Joins
  <2>2. Len(most) = Len(front) + Len(all) /\ Len(front) \in Nat /\ Len(all) \in Nat
    BY <1>11 DEF Joins
  <2>3. Len(front) = Len(opening) + Len(pad) /\ Len(pad) \in Nat
    BY <1>10 DEF Joins
  <2>4. Len(opening) = Len(name) + Len(D[n]) /\ Len(name) \in Nat /\ Len(D[n]) \in Nat
    BY <1>9 DEF Joins
  <2> QED
    BY <2>1, <2>2, <2>3, <2>4
<1>14. Holds(body, 0, most) /\ Holds(body, Len(most), blob)
  <2>1. Holds(body, 0, body)
    BY <1>13, HoldsWhole
  <2>2. Holds(body, 0, most) /\ Holds(body, 0 + Len(most), blob)
    BY <1>12, <1>13, <2>1, HoldsParts
  <2>3. 0 + Len(most) = Len(most)
    BY <1>12 DEF Joins
  <2> QED
    BY <2>2, <2>3
<1>15. Holds(body, 0, front) /\ Holds(body, Len(front), all)
  <2>1. Holds(body, 0, front) /\ Holds(body, 0 + Len(front), all)
    BY <1>11, <1>13, <1>14, HoldsParts
  <2>2. 0 + Len(front) = Len(front)
    BY <1>13
  <2> QED
    BY <2>1, <2>2
<1>16. Holds(body, 0, opening)
  BY <1>10, <1>13, <1>15, HoldsParts
<1>17. Holds(body, 0, name) /\ Holds(body, Len(name), D[n])
  <2>1. Holds(body, 0, name) /\ Holds(body, 0 + Len(name), D[n])
    BY <1>9, <1>13, <1>16, HoldsParts
  <2>2. 0 + Len(name) = Len(name)
    BY <1>13
  <2> QED
    BY <2>1, <2>2
<1>18. \A i \in 1..n : Holds(body, Len(name) + Len(D[i - 1]), es[i])
  <2>1. Holds(body, Len(name), D[Len(es)])
    BY <1>2, <1>17
  <2>2. \A i \in 1..Len(es) : Holds(body, Len(name) + Len(D[i - 1]), es[i])
    BY ONLY <1>2, <1>4, <1>13, <2>1, HoldsFlat
  <2> QED
    BY <1>2, <2>2
<1>19. \A i \in 1..n : Holds(body, Len(front) + (i - 1) * dim, vs[i])
  <2>1. Holds(body, Len(front), V[Len(vs)])
    BY <1>5, <1>15 DEF all
  <2>2. \A i \in 1..Len(vs) : Holds(body, Len(front) + Len(V[i - 1]), vs[i])
    BY ONLY <1>2, <1>5, <1>13, <2>1, HoldsFlat
  <2>3. \A i \in 1..n : i - 1 \in 0..n
    BY <1>1
  <2>4. \A i \in 1..n : Len(V[i - 1]) = (i - 1) * dim
    BY <1>2, <1>6, <2>3
  <2> QED
    BY <1>2, <2>2, <2>4
<1>20. Len(all) = n * dim /\ Len(most) = Len(front) + n * dim
  <2>1. Len(all) = n * dim
    BY <1>2, <1>6 DEF Even
  <2> QED
    BY <1>11, <2>1 DEF Joins
<1>21. /\ body \in Seq(Nat) /\ Len(front) \in Nat /\ Flat(D, Nat, es) /\ Holds(body, 0, name)
       /\ \A i \in 1..n : Holds(body, Len(name) + Len(D[i - 1]), es[i])
       /\ Len(name) + Len(D[n]) =< Len(front)
       /\ \A i \in 1..n : Holds(body, Len(front) + (i - 1) * dim, data.records[i].vector)
       /\ Holds(body, Len(front) + n * dim, blob)
       /\ Len(all) = n * dim
       /\ Len(body) = Len(front) + n * dim + Len(blob)
  BY <1>2, <1>4, <1>13, <1>14, <1>17, <1>18, <1>19, <1>20
<1> QED
  BY <1>21 DEF Laid, n, name, dim, blob, es, vs, front, all, body

-----------------------------------------------------------------------------
(* What load makes of an encoded file                                       *)

\* The record that load reads for the k-th record of data, and the directory it
\* has read after i entries.
Written(data, k) ==
    [id   |-> data.records[k].id,
     at   |-> kHeader + Len(PaddedOpening(data)) + (k - 1) * data.dim,
     meta |-> data.records[k].meta]

ReadBack(data, directory, i) ==
    [ok |-> TRUE, pos |-> Len(data.name) + Len(directory[i]),
     records |-> [k \in 1..i |-> Written(data, k)]]

LEMMA WrittenList ==
    ASSUME NEW data, NEW i \in Nat
    PROVE  LET list == [k \in 1..i |-> Written(data, k)]
           IN  /\ list \in Seq({Written(data, k) : k \in 1..i}) /\ Len(list) = i
               /\ Append(list, Written(data, i + 1)) = [k \in 1..(i + 1) |-> Written(data, k)]
<1> DEFINE list == [k \in 1..i |-> Written(data, k)]
           more == [k \in 1..(i + 1) |-> Written(data, k)]
           last == Written(data, i + 1)
           w == Append(list, last)
<1>1. list \in Seq({Written(data, k) : k \in 1..i}) /\ Len(list) = i
  OBVIOUS
<1>2. /\ \A k \in 1..i : list[k] = Written(data, k)
      /\ \A k \in 1..(i + 1) : more[k] = Written(data, k)
      /\ more = [k \in 1..(i + 1) |-> more[k]]
  OBVIOUS
<1> HIDE DEF list, more
<1>3. w = [k \in 1..(i + 1) |-> w[k]] /\ w[i + 1] = last /\ \A k \in 1..i : w[k] = list[k]
  BY <1>1
<1>4. \A k \in 1..(i + 1) : k \in 1..i \/ k = i + 1
  OBVIOUS
<1> HIDE DEF w
<1>5. \A k \in 1..(i + 1) : w[k] = more[k]
  BY <1>2, <1>3, <1>4
<1>6. w = more
  BY <1>2, <1>3, <1>5
<1> QED
  BY <1>1, <1>6 DEF w, list, more

\* The header of an encoded file.
Describes(h, data) ==
    LET begin == Len(PaddedOpening(data))
        n == Len(data.records)
    IN  /\ h.whole /\ h.magic = 1 /\ h.version = 1
        /\ h.dim = data.dim /\ h.metric = data.metric /\ h.index_type = data.index_type
        /\ h.record_count = n /\ h.name_length = Len(data.name)
        /\ h.vector_off = kHeader + begin /\ h.vector_len = n * data.dim
        /\ h.index_off = kHeader + begin + Len(FlattenSeq(Vectors(data)))
        /\ h.index_len = Len(data.index_blob)

LEMMA EncodedDescribed ==
    ASSUME NEW data
    PROVE  /\ Describes(encode(data).header, data)
           /\ encode(data).header.content_crc = checksum(encode(data).body)
<1> DEFINE h == encode(data).header
           n == Len(data.records)
           begin == Len(PaddedOpening(data))
           len == Len(FlattenSeq(Vectors(data)))
           crc == checksum(encode(data).body)
<1>1. h = [whole |-> TRUE, magic |-> 1, version |-> 1, dim |-> data.dim, metric |-> data.metric,
           index_type |-> data.index_type, record_count |-> n, name_length |-> Len(data.name),
           vector_off |-> kHeader + begin, vector_len |-> n * data.dim,
           index_off |-> kHeader + begin + len, index_len |-> Len(data.index_blob),
           content_crc |-> crc]
  BY EncodedIs, Zenon
<1> HIDE DEF h, n, begin, len, crc
<1>2. /\ h.whole /\ h.magic = 1 /\ h.version = 1
      /\ h.dim = data.dim /\ h.metric = data.metric /\ h.index_type = data.index_type
      /\ h.record_count = n /\ h.name_length = Len(data.name)
      /\ h.vector_off = kHeader + begin /\ h.vector_len = n * data.dim
      /\ h.index_off = kHeader + begin + len /\ h.index_len = Len(data.index_blob)
      /\ h.content_crc = crc
  BY <1>1
<1> QED
  BY <1>2, Zenon DEF Describes, h, n, begin, len, crc

\* One entry of an encoded directory.
LEMMA EntryReads ==
    ASSUME NEW data \in CollectionSnapshotData, NEW f, Describes(f.header, data),
           NEW directory, Laid(data, f.body, directory), NEW i \in 1..Len(data.records)
    PROVE  ReadEntry(f, ReadBack(data, directory, i - 1)) = ReadBack(data, directory, i)
<1> DEFINE n == Len(data.records)
           rec == data.records[i]
           meta == write_metadata(rec.meta)
           key == <<rec.id, i - 1, Len(meta)>>
           e == Entries(data)[i]
           d == ReadBack(data, directory, i - 1)
           p == Len(data.name) + Len(directory[i - 1])
           q == p + 3
           known == {r.id : r \in Elements(d.records)}
<1>1. /\ n \in Nat /\ i \in 1..n /\ i - 1 \in Nat /\ i - 1 < n /\ i - 1 + 1 = i
  BY CapturedIs
<1>2. rec.id \in Nat \ {0} /\ rec.meta \in Metadata
  BY RecordIs
<1>3. meta \in Seq(Nat) /\ MetadataValid(meta) /\ read_metadata(meta) = rec.meta /\ Len(meta) \in Nat
  BY <1>2, MetadataReads
<1>4. Joins(e, key, meta, Nat)
  BY EntryIs
<1>5. /\ f.body \in Seq(Nat) /\ Len(f.body) \in Nat /\ Holds(f.body, p, e)
      /\ Flat(directory, Nat, Entries(data))
  <2>1. f.body \in Seq(Nat)
    BY DEF Laid
  <2>2. Flat(directory, Nat, Entries(data))
    BY DEF Laid
  <2>3. \A k \in 1..Len(data.records) :
           Holds(f.body, Len(data.name) + Len(directory[k - 1]), Entries(data)[k])
    BY Zenon DEF Laid
  <2>4. Len(f.body) \in Nat
    BY <2>1
  <2> QED
    BY <2>1, <2>2, <2>3, <2>4
<1>6. Len(key) = 3 /\ key[1] = rec.id /\ key[2] = i - 1 /\ key[3] = Len(meta)
  BY <1>1, <1>2, <1>3, TripleIs
<1>7. d.ok /\ d.pos = p /\ d.records = [k \in 1..(i - 1) |-> Written(data, k)]
  BY DEF ReadBack
<1>8. Joins(directory[i], directory[i - 1], e, Nat)
  <2>1. i \in 1..Len(Entries(data)) /\ Entries(data) \in Seq(Seq(Nat))
    BY PartsAre
  <2> QED
    BY <1>5, <2>1, FlatStep
<1>9. f.header.record_count = n /\ f.header.dim = data.dim
      /\ f.header.vector_off = kHeader + Len(PaddedOpening(data))
  BY DEF Describes
<1> HIDE DEF n, rec, meta, key, e, d, p, known
<1>10. Holds(f.body, p, key) /\ Holds(f.body, q, meta)
  BY <1>4, <1>5, <1>6, HoldsParts
<1>11. p \in Nat /\ q + Len(meta) =< Len(f.body)
  BY <1>10 DEF Holds
<1>12. f.body[p + 1] = rec.id /\ f.body[p + 2] = i - 1 /\ f.body[p + 3] = Len(meta)
  <2>1. \A j \in 1..3 : f.body[p + j] = key[j]
    BY <1>6, <1>10 DEF Holds
  <2> QED
    BY <1>6, <2>1
<1>13. SubSeq(f.body, p + 4, p + 3 + f.body[p + 3]) = meta
  <2>1. SubSeq(f.body, q + 1, q + Len(meta)) = meta
    BY <1>5, <1>10, SubSeqIs
  <2>2. q + 1 = p + 4 /\ q + Len(meta) = p + 3 + f.body[p + 3]
    BY <1>11, <1>12
  <2> QED
    BY <2>1, <2>2
<1>14. f.body[p + 1] \notin known
  <2>1. \A k \in 1..(i - 1) : k \in 1..n /\ k < i
    BY <1>1
  <2>2. \A k \in 1..(i - 1) : data.records[k].id < rec.id
    BY <1>1, <2>1, CapturedIs DEF n, rec
  <2>3. \A k \in 1..(i - 1) : data.records[k].id \in Nat
    BY <2>1, RecordIs DEF n
  <2>4. Elements(d.records) = {Written(data, k) : k \in 1..(i - 1)}
    BY <1>7 DEF Elements
  <2>5. \A k \in 1..(i - 1) : Written(data, k).id # rec.id
    BY <1>2, <2>2, <2>3 DEF Written
  <2> QED
    BY <1>12, <2>4, <2>5 DEF known
<1>15. RecordValid(f, p, known)
  <2>1. p + 3 =< Len(f.body) /\ p + 3 + f.body[p + 3] =< Len(f.body)
    BY <1>3, <1>5, <1>11, <1>12
  <2> QED
    BY <1>1, <1>2, <1>3, <1>9, <1>12, <1>13, <1>14, <2>1 DEF RecordValid, ensure
<1>16. RecordAt(f, p) = Written(data, i)
  BY <1>3, <1>9, <1>12, <1>13 DEF RecordAt, Written, rec
<1>17. ReadEntry(f, d) = [ok |-> TRUE, pos |-> p + 3 + Len(meta),
                          records |-> Append(d.records, Written(data, i))]
  BY <1>7, <1>12, <1>15, <1>16 DEF ReadEntry, known
<1>18. p + 3 + Len(meta) = Len(data.name) + Len(directory[i])
  <2>1. Len(e) = 3 + Len(meta)
    BY <1>4, <1>6 DEF Joins
  <2>2. Len(directory[i]) = Len(directory[i - 1]) + Len(e) /\ Len(directory[i - 1]) \in Nat
    BY <1>8 DEF Joins
  <2>3. Len(data.name) \in Nat
    BY CapturedIs
  <2>4. Len(meta) \in Nat
    BY <1>3
  <2> DEFINE a == Len(directory[i - 1])
             b == Len(directory[i])
             c == Len(e)
             l == Len(meta)
             m == Len(data.name)
  <2>5. c = 3 + l /\ b = a + c /\ a \in Nat /\ m \in Nat /\ l \in Nat /\ p = m + a
    BY <2>1, <2>2, <2>3, <2>4 DEF p
  <2> HIDE DEF a, b, c, l, m
  <2>6. p + 3 + l = m + b
    BY <2>5
  <2> QED
    BY <2>6 DEF l, m, b
<1>19. Append(d.records, Written(data, i)) = [k \in 1..i |-> Written(data, k)]
  <2> DEFINE m == i - 1
  <2>1. m \in Nat /\ m + 1 = i /\ d.records = [k \in 1..m |-> Written(data, k)]
    BY <1>1, <1>7
  <2> HIDE DEF m
  <2>2. Append([k \in 1..m |-> Written(data, k)], Written(data, m + 1))
            = [k \in 1..(m + 1) |-> Written(data, k)]
    BY <2>1, WrittenList
  <2> QED
    BY <2>1, <2>2
<1> QED
  BY <1>17, <1>18, <1>19 DEF ReadBack, d

LEMMA DirectoryReads ==
    ASSUME NEW data \in CollectionSnapshotData, NEW f, Describes(f.header, data),
           NEW directory, Laid(data, f.body, directory)
    PROVE  Directory(f) = ReadBack(data, directory, Len(data.records))
<1> DEFINE n == Len(data.records)
           Good == [i \in 0..n |-> {ReadBack(data, directory, i)}]
<1>1. n \in Nat /\ Len(data.name) \in Nat
  BY CapturedIs
<1>2. f.header.record_count = n /\ f.header.name_length = Len(data.name)
  BY DEF Describes
<1>3. [ok |-> TRUE, pos |-> f.header.name_length, records |-> << >>] \in Good[0]
  <2>1. Len(directory[0]) = 0
    BY DEF Laid, Flat
  <2>2. [k \in 1..0 |-> Written(data, k)] = << >>
    OBVIOUS
  <2>3. Len(data.name) + Len(directory[0]) = f.header.name_length
    BY <1>1, <1>2, <2>1
  <2>4. ReadBack(data, directory, 0) = [ok |-> TRUE, pos |-> f.header.name_length, records |-> << >>]
    BY <2>2, <2>3 DEF ReadBack
  <2>5. 0 \in 0..n
    BY <1>1
  <2>6. Good[0] = {ReadBack(data, directory, 0)}
    BY <2>5
  <2> HIDE DEF Good
  <2> QED
    BY <2>4, <2>6
<1>4. \A i \in 1..n : \A d \in Good[i - 1] : ReadEntry(f, d) \in Good[i]
  <2>1. \A i \in 1..n : ReadEntry(f, ReadBack(data, directory, i - 1)) = ReadBack(data, directory, i)
    BY EntryReads
  <2>2. \A i \in 1..n : i - 1 \in 0..n /\ i \in 0..n
    BY <1>1
  <2> QED
    BY <2>1, <2>2
<1>5. n \in 0..n
  BY <1>1
<1> HIDE DEF Good
<1>6. Directory(f) \in Good[n]
  <2>1. Directory(f) \in Good[f.header.record_count]
    BY <1>1, <1>2, <1>3, <1>4, DirectoryIs
  <2> QED
    BY <1>2, <2>1
<1> QED
  BY <1>5, <1>6 DEF Good

\* The numbers of a header.
LEMMA Numbers ==
    ASSUME NEW data \in CollectionSnapshotData, NEW f, Describes(f.header, data),
           NEW directory, Laid(data, f.body, directory)
    PROVE  LET h == f.header
               n == Len(data.records)
               begin == Len(PaddedOpening(data))
               vectors == n * data.dim
               l == Len(data.index_blob)
           IN  /\ n \in Nat /\ begin \in Nat /\ vectors \in Nat /\ l \in Nat /\ vectors >= n
               /\ h.record_count = n /\ h.dim = data.dim /\ h.vector_off = kHeader + begin
               /\ h.vector_len = vectors /\ h.index_off = kHeader + begin + vectors /\ h.index_len = l
               /\ h.name_length = Len(data.name) /\ h.name_length =< begin
               /\ Len(f.body) = begin + vectors + l
<1> DEFINE h == f.header
           n == Len(data.records)
           dim == data.dim
           begin == Len(PaddedOpening(data))
           vectors == n * dim
           l == Len(data.index_blob)
           name == Len(data.name)
           all == Len(directory[n])
<1>1. n \in Nat /\ dim \in 1..MaxDim /\ name \in Nat
  <2>1. data.name \in Seq(Nat) /\ n \in Nat /\ dim \in 1..MaxDim
    BY CapturedIs
  <2>2. name \in Nat
    BY <2>1
  <2> QED
    BY <2>1, <2>2
<1>2. dim \in Nat /\ dim >= 1
  BY <1>1, LayoutAssumption
<1>3. l \in Nat
  BY CapturedIs
<1>4. /\ begin \in Nat /\ Len(FlattenSeq(Vectors(data))) = vectors
      /\ Len(f.body) = begin + vectors + l /\ name + all =< begin
  BY Zenon DEF Laid
<1>5. all \in Nat
  <2>1. Len(Entries(data)) = n /\ Flat(directory, Nat, Entries(data))
    BY PartsAre DEF Laid
  <2>2. n \in 0..n
    BY <1>1
  <2>3. directory[n] \in Seq(Nat)
    BY <2>1, <2>2 DEF Flat
  <2> QED
    BY <2>3
<1>6. /\ h.record_count = n /\ h.dim = dim /\ h.vector_off = kHeader + begin
      /\ h.vector_len = vectors
      /\ h.index_off = kHeader + begin + Len(FlattenSeq(Vectors(data))) /\ h.index_len = l
      /\ h.name_length = name
  BY Zenon DEF Describes
<1> HIDE DEF n, dim, l, name, begin, all
<1>7. vectors \in Nat /\ vectors >= n
  <2>1. dim - 1 \in Nat
    BY <1>2
  <2>2. n * (dim - 1) \in Nat
    BY <1>1, <2>1, SMT
  <2>3. n * dim = n + n * (dim - 1)
    BY <1>1, <1>2, SMT
  <2> QED
    BY <1>1, <2>2, <2>3
<1>8. name =< begin
  BY <1>1, <1>4, <1>5
<1> HIDE DEF vectors, h
<1>9. h.index_off = kHeader + begin + vectors /\ h.name_length =< begin
  BY <1>4, <1>6, <1>8
<1> QED
  BY <1>1, <1>3, <1>4, <1>6, <1>7, <1>9 DEF h, n, dim, begin, vectors, l, name

LEMMA EncodedSized ==
    ASSUME NEW data \in CollectionSnapshotData
    PROVE  Sized(encode(data))
<1> DEFINE f == encode(data)
           h == f.header
<1>1. PICK directory : Laid(data, f.body, directory)
  BY EncodedLaid
<1>2. Describes(h, data)
  BY EncodedDescribed
<1>3. f.body \in Seq(Nat)
  BY <1>1 DEF Laid
<1> HIDE DEF f
<1>4. /\ h.record_count \in Nat /\ h.vector_off \in Nat /\ h.vector_len \in Nat
      /\ h.index_off \in Nat /\ h.index_len \in Nat
  <2> DEFINE n == Len(data.records)
             begin == Len(PaddedOpening(data))
             vectors == n * data.dim
             l == Len(data.index_blob)
  <2>1. /\ n \in Nat /\ begin \in Nat /\ vectors \in Nat /\ l \in Nat
        /\ h.record_count = n /\ h.vector_off = kHeader + begin /\ h.vector_len = vectors
        /\ h.index_off = kHeader + begin + vectors /\ h.index_len = l
    BY <1>1, <1>2, Numbers
  <2> HIDE DEF n, begin, vectors, l
  <2> QED
    BY <2>1, LayoutAssumption
<1>5. h.magic \in Nat /\ h.version \in Nat /\ h.metric \in Nat /\ h.index_type \in Nat
  <2>1. h.magic = 1 /\ h.version = 1 /\ h.metric = data.metric /\ h.index_type = data.index_type
    BY <1>2 DEF Describes
  <2>2. data.metric \in 0..2 /\ data.index_type \in {None, HNSW, IVF}
    BY CapturedIs
  <2> QED
    BY <2>1, <2>2 DEF None, HNSW, IVF
<1>6. h.dim \in Nat /\ h.name_length \in Nat
  <2>1. h.dim = data.dim /\ h.name_length = Len(data.name)
    BY <1>2 DEF Describes
  <2>2. data.dim \in 1..MaxDim /\ data.name \in Seq(Nat)
    BY CapturedIs
  <2> QED
    BY <2>1, <2>2, LayoutAssumption
<1> HIDE DEF h
<1>7. \A field \in Fields : h[field] \in Nat
  BY <1>4, <1>5, <1>6 DEF Fields
<1> QED
  BY <1>3, <1>7 DEF Sized, f, h

\* The records of an encoded directory in the order of their identifiers are those
\* of the collection.
LEMMA WrittenSorted ==
    ASSUME NEW data \in CollectionSnapshotData
    PROVE  LET n == Len(data.records)
               list == [k \in 1..n |-> Written(data, k)]
           IN  Sorted(Elements(list), ById(Elements(list))) = list
<1> DEFINE n == Len(data.records)
           list == [k \in 1..n |-> Written(data, k)]
           S == Elements(list)
           num == [k \in 1..n |-> data.records[k].id]
           R == ById(S)
<1>1. n \in Nat
  BY CapturedIs
<1>2. \A k \in 1..n : list[k].id = num[k]
  BY DEF Written
<1>3. DOMAIN list = 1..n /\ list = [k \in 1..n |-> list[k]]
  OBVIOUS
<1>4. \A k \in 1..n : num[k] \in Nat
  BY RecordIs
<1>5. \A k, j \in 1..n : k < j => num[k] < num[j]
  BY CapturedIs
<1>6. \A k \in 1..n : list[k] \in S
  BY <1>3 DEF Elements
<1> HIDE DEF n, list, num, S
<1>7. list \in Seq(S) /\ Len(list) = n
  BY <1>1, <1>3, <1>6, SeqByParts
<1>9. \A k, j \in 1..n : <<list[k], list[j]>> \in R <=> num[k] < num[j]
  BY <1>2, <1>6 DEF ById
<1> HIDE DEF R
<1>10. Sorted(Elements(list), R) = list
  <2>1. Ordered(list, num, R)
    BY <1>1, <1>4, <1>5, <1>7, <1>9 DEF Ordered
  <2> QED
    BY <2>1, AlreadySorted
<1> QED
  BY <1>10 DEF R, S, list, n

\* The index region of an encoded file.
LEMMA IndexRegion ==
    ASSUME NEW data \in CollectionSnapshotData, NEW f, Describes(f.header, data),
           NEW directory, Laid(data, f.body, directory)
    PROVE  Region(f, f.header.index_off, f.header.index_len) = data.index_blob
<1> DEFINE p == Len(PaddedOpening(data)) + Len(data.records) * data.dim
           blob == data.index_blob
<1>1. f.body \in Seq(Nat) /\ Holds(f.body, p, blob)
  BY Zenon DEF Laid
<1>2. f.header.index_off = kHeader + p /\ f.header.index_len = Len(blob)
  <2> DEFINE begin == Len(PaddedOpening(data))
             vectors == Len(data.records) * data.dim
  <2>1. /\ begin \in Nat /\ vectors \in Nat
        /\ f.header.index_off = kHeader + begin + vectors /\ f.header.index_len = Len(blob)
    BY Numbers
  <2> HIDE DEF begin, vectors
  <2>2. kHeader + begin + vectors = kHeader + (begin + vectors)
    BY <2>1, LayoutAssumption
  <2> QED
    BY <2>1, <2>2 DEF begin, vectors
<1> HIDE DEF p, blob
<1>3. Region(f, kHeader + p, Len(blob)) = blob
  BY <1>1, RegionIs
<1> QED
  BY <1>2, <1>3 DEF blob

\* load accepts what encode writes.
LEMMA EncodedValid ==
    ASSUME NEW data \in CollectionSnapshotData, NEW f, Describes(f.header, data),
           NEW directory, Laid(data, f.body, directory)
    PROVE  Valid(f)
<1> DEFINE h == f.header
           n == Len(data.records)
           begin == Len(PaddedOpening(data))
           vectors == n * data.dim
           l == Len(data.index_blob)
<1>1. /\ n \in Nat /\ begin \in Nat /\ vectors \in Nat /\ l \in Nat /\ vectors >= n
      /\ h.record_count = n /\ h.dim = data.dim /\ h.vector_off = kHeader + begin
      /\ h.vector_len = vectors /\ h.index_off = kHeader + begin + vectors /\ h.index_len = l
      /\ h.name_length = Len(data.name) /\ h.name_length =< begin
      /\ Len(f.body) = begin + vectors + l
  BY Numbers
<1>2. h.metric = data.metric /\ h.index_type = data.index_type
  BY DEF Describes
<1>3. Directory(f) = ReadBack(data, directory, n)
  BY DirectoryReads
<1>4. /\ Directory(f).ok /\ Directory(f).pos = Len(data.name) + Len(directory[n])
      /\ Directory(f).records = [k \in 1..n |-> Written(data, k)]
  BY <1>3 DEF ReadBack
<1>5. /\ data.index_type \in {None, HNSW, IVF} /\ data.metric \in 0..2 /\ data.dim \in 1..MaxDim
      /\ Len(data.name) \in 1..MaxName
  BY CapturedIs
<1>6. RegionValid(data.index_type, data.index_blob, {rec.id : rec \in Elements(data.records)})
  BY CapturedIs
<1> DEFINE none == data.index_type = None
<1>7. none <=> l = 0
  <2>1. Len(<< >>) = 0
    OBVIOUS
  <2>2. /\ data.index_type = None => data.index_blob = << >>
        /\ data.index_type = IVF => l = 2
        /\ data.index_type = HNSW => l >= 3
    BY <1>6, Zenon DEF RegionValid
  <2>3. data.index_type = None \/ data.index_type = IVF \/ data.index_type = HNSW
    BY <1>5
  <2>4. l \in Nat
    BY <1>1
  <2> DEFINE type == data.index_type
  <2>5. (type = None => l = 0) /\ (type = IVF => l = 2) /\ (type = HNSW => l >= 3)
    BY <2>1, <2>2
  <2> HIDE DEF l, type
  <2> QED
    BY <2>3, <2>4, <2>5 DEF None, HNSW, IVF, type
<1>8. Len(data.name) + Len(directory[n]) =< begin
  BY Zenon DEF Laid
<1>9. HeaderValid(f)
  <2>1. h.dim \in 1..MaxDim /\ h.metric \in 0..2 /\ h.index_type \in {None, HNSW, IVF}
        /\ (h.index_type = None <=> h.index_len = 0) /\ h.vector_len = h.record_count * h.dim
    BY <1>1, <1>2, <1>5, <1>7, Zenon
  <2> HIDE DEF n, begin, vectors, l, h
  <2>2. Total(f) = kHeader + begin + vectors + l
    BY <1>1, LayoutAssumption DEF Total
  <2>3. /\ h.record_count =< Total(f) /\ h.name_length =< Len(f.body)
        /\ h.vector_off >= kHeader /\ h.vector_off =< Total(f)
        /\ h.vector_len =< Total(f) - h.vector_off
        /\ h.index_off =< Total(f) /\ h.index_len =< Total(f) - h.index_off
    <3> DEFINE total == Total(f)
               body == Len(f.body)
    <3>1. /\ n \in Nat /\ begin \in Nat /\ vectors \in Nat /\ l \in Nat /\ vectors >= n
          /\ h.name_length =< begin /\ h.name_length = Len(data.name)
          /\ body = begin + vectors + l /\ total = kHeader + begin + vectors + l
          /\ kHeader \in Nat
      BY <1>1, <2>2, LayoutAssumption
    <3>2. h.name_length \in Nat
      BY <1>1, <1>5
    <3> HIDE DEF total, body
    <3>3. n =< total /\ h.name_length =< body /\ kHeader + begin >= kHeader
          /\ kHeader + begin =< total /\ vectors =< total - (kHeader + begin)
          /\ kHeader + begin + vectors =< total /\ l =< total - (kHeader + begin + vectors)
      BY <3>1, <3>2
    <3> QED
      BY <1>1, <3>3 DEF total, body
  <2> QED
    BY <2>1, <2>3, Zenon DEF HeaderValid, h
<1>10. NameValid(f)
  BY <1>1, <1>5 DEF NameValid
<1>11. DirectoryValid(f)
  <2> DEFINE pos == Len(data.name) + Len(directory[n])
  <2>1. pos =< begin /\ Directory(f).pos = pos
    BY <1>4, <1>8
  <2>2. h.vector_off = kHeader + begin /\ begin \in Nat
    BY <1>1
  <2> HIDE DEF pos, begin, h
  <2>3. h.vector_off - kHeader = begin
    BY <2>2, LayoutAssumption
  <2>4. Directory(f).pos =< h.vector_off - kHeader
    BY <2>1, <2>3
  <2> QED
    BY <1>4, <2>4 DEF DirectoryValid, h
<1>12. IndexValid(f)
  <2>1. Region(f, h.index_off, h.index_len) = data.index_blob
    BY IndexRegion
  <2>2. {rec.id : rec \in Elements(Directory(f).records)} = {rec.id : rec \in Elements(data.records)}
    <3> DEFINE list == Directory(f).records
    <3>1. DOMAIN list = 1..n /\ DOMAIN data.records = 1..n
      BY <1>4, CapturedIs
    <3>2. \A k \in 1..n : list[k].id = data.records[k].id
      BY <1>4 DEF Written
    <3> HIDE DEF list, n
    <3> QED
      BY <3>1, <3>2 DEF Elements, list
  <2> QED
    BY <1>2, <1>6, <2>1, <2>2 DEF IndexValid
<1> QED
  BY <1>9, <1>10, <1>11, <1>12 DEF Valid

\* What it is loaded as is the collection.
LEMMA EncodedReconstructed ==
    ASSUME NEW data \in CollectionSnapshotData, NEW f, Describes(f.header, data),
           NEW directory, Laid(data, f.body, directory)
    PROVE  Reconstructed(f) = data
<1> DEFINE h == f.header
           n == Len(data.records)
           list == [k \in 1..n |-> Written(data, k)]
           S == Elements(list)
           c == Reconstructed(f)
           begin == Len(PaddedOpening(data))
           records == [k \in 1..n |-> [id |-> list[k].id, meta |-> list[k].meta,
                                       vector |-> Region(f, list[k].at, h.dim)]]
<1>1. Directory(f) = ReadBack(data, directory, n)
  BY DirectoryReads
<1>2. Directory(f).records = list
  BY <1>1 DEF ReadBack
<1>3. Sorted(S, ById(S)) = list
  BY WrittenSorted
<1>4. Region(f, h.index_off, h.index_len) = data.index_blob
  BY IndexRegion
<1>5. n \in Nat /\ f.body \in Seq(Nat)
  BY CapturedIs DEF Laid
<1>6. h.dim = data.dim /\ h.metric = data.metric /\ h.index_type = data.index_type
      /\ h.name_length = Len(data.name)
  BY DEF Describes
<1>7. SubSeq(f.body, 1, h.name_length) = data.name
  <2>1. Holds(f.body, 0, data.name)
    BY DEF Laid
  <2>2. SubSeq(f.body, 0 + 1, 0 + Len(data.name)) = data.name
    BY <1>5, <2>1, SubSeqIs
  <2>3. 0 + Len(data.name) = h.name_length
    BY <1>6, <2>1 DEF Holds
  <2> QED
    BY <2>2, <2>3
<1>8. DOMAIN list = 1..n
  OBVIOUS
<1>9. c = [name |-> SubSeq(f.body, 1, h.name_length), dim |-> h.dim, metric |-> h.metric,
           index_type |-> h.index_type, records |-> records,
           index_blob |-> Region(f, h.index_off, h.index_len)]
  <2>1. Sorted(S, {p \in S \X S : p[1].id < p[2].id}) = list
    BY <1>3 DEF ById
  <2> HIDE DEF list
  <2> QED
    BY <1>2, <1>8, <2>1, Zenon DEF Reconstructed
<1>10. records = data.records
  <2>1. ASSUME NEW k \in 1..n
        PROVE  [id |-> list[k].id, meta |-> list[k].meta,
                vector |-> Region(f, list[k].at, h.dim)] = data.records[k]
    <3> DEFINE vector == data.records[k].vector
               slot == (k - 1) * data.dim
               p == begin + slot
    <3>1. list[k] = Written(data, k)
      OBVIOUS
    <3>2. /\ list[k].id = data.records[k].id /\ list[k].meta = data.records[k].meta
          /\ list[k].at = kHeader + begin + slot
      BY <3>1 DEF Written
    <3>3. /\ data.records[k] = [id |-> data.records[k].id, meta |-> data.records[k].meta,
                                vector |-> vector]
          /\ Len(vector) = data.dim
      BY RecordIs
    <3>4. Holds(f.body, p, vector) /\ begin \in Nat
      BY Zenon DEF Laid
    <3>5. slot \in Nat
      <4>1. data.dim \in 1..MaxDim
        BY CapturedIs
      <4>2. k - 1 \in Nat /\ data.dim \in Nat
        BY <1>5, <4>1, LayoutAssumption
      <4> QED
        BY <4>2, SMT
    <3> HIDE DEF vector, slot, begin
    <3>6. kHeader + begin + slot = kHeader + p
      BY <3>4, <3>5, LayoutAssumption
    <3>7. Region(f, kHeader + p, Len(vector)) = vector
      BY <1>5, <3>4, RegionIs
    <3>8. Region(f, list[k].at, h.dim) = vector
      BY <1>6, <3>2, <3>3, <3>6, <3>7
    <3> QED
      BY <3>2, <3>3, <3>8
  <2>2. data.records = [k \in 1..n |-> data.records[k]]
    BY CapturedIs
  <2> QED
    BY <2>1, <2>2
<1>11. data = [name |-> data.name, dim |-> data.dim, metric |-> data.metric,
               index_type |-> data.index_type, records |-> data.records,
               index_blob |-> data.index_blob]
  BY CapturedIs
<1> HIDE DEF c, records
<1>12. c = data
  BY <1>4, <1>6, <1>7, <1>9, <1>10, <1>11, Zenon
<1> QED
  BY <1>12 DEF c

\* load takes back what encode writes.
LEMMA EncodedLoads ==
    ASSUME NEW data \in CollectionSnapshotData
    PROVE  load(encode(data)) = [status |-> "ok", collection |-> data]
<1> DEFINE f == encode(data)
<1>1. PICK directory : Laid(data, f.body, directory)
  BY EncodedLaid
<1>2. Describes(f.header, data) /\ f.header.content_crc = checksum(f.body)
  BY EncodedDescribed
<1> HIDE DEF f
<1>3. Valid(f) /\ Reconstructed(f) = data
  BY <1>1, <1>2, EncodedValid, EncodedReconstructed
<1>4. f.header.whole /\ f.header.magic = 1 /\ f.header.version = 1
  BY <1>2 DEF Describes
<1>5. load(f) = [status |-> "ok", collection |-> data]
  BY <1>2, <1>3, <1>4 DEF load, Valid
<1> QED
  BY <1>5 DEF f

-----------------------------------------------------------------------------
(* Along every behaviour                                                    *)

\* What load is given, and what it has made of it: the file is as it was written
\* until it is damaged, and then still a file of cells; its checksum is that of the
\* captured content until the header is damaged.
SInv ==
    /\ saved \in Captured
    /\ damage = "none" => file = encode(saved)
    /\ damage = "content" =>
          /\ file.header = encode(saved).header
          /\ file.body \in Tampered(encode(saved).body)
    /\ file.header.whole => Sized(file)
    /\ loaded.status # "none" => loaded = load(file)

LEMMA SInvInit == Init => SInv
<1> SUFFICES ASSUME Init PROVE SInv
  OBVIOUS
<1>1. saved \in Captured /\ file = encode(saved) /\ damage = "none" /\ loaded.status = "none"
  BY DEF Init
<1>2. Sized(encode(saved))
  BY <1>1, CapturedAssumption, EncodedSized
<1> QED
  BY <1>1, <1>2 DEF SInv

\* The file that damage finds.
LEMMA Undamaged ==
    ASSUME SInv, NEW kind, Damaged(kind)
    PROVE  /\ saved \in CollectionSnapshotData /\ file = encode(saved) /\ Sized(file)
           /\ file = [header |-> file.header, body |-> file.body]
           /\ \A field \in Fields : \A v :
                 /\ [file.header EXCEPT ![field] = v][field] = v
                 /\ \A other \in Fields : other # field =>
                       [file.header EXCEPT ![field] = v][other] = file.header[other]
           /\ saved' = saved /\ loaded' = loaded /\ loaded.status = "none" /\ damage' = kind
<1>1. /\ damage = "none" /\ loaded.status = "none" /\ damage' = kind
      /\ saved' = saved /\ loaded' = loaded
  BY DEF Damaged
<1>2. saved \in CollectionSnapshotData /\ file = encode(saved)
  BY <1>1, CapturedAssumption DEF SInv
<1>3. Sized(file)
  BY <1>2, EncodedSized
<1>4. file = [header |-> file.header, body |-> file.body]
  BY <1>2 DEF encode
<1>5. Fields \subseteq DOMAIN file.header
  <2> DEFINE h == encode(saved).header
             n == Len(saved.records)
             begin == Len(PaddedOpening(saved))
             len == Len(FlattenSeq(Vectors(saved)))
             crc == checksum(encode(saved).body)
  <2>1. h = [whole |-> TRUE, magic |-> 1, version |-> 1, dim |-> saved.dim, metric |-> saved.metric,
             index_type |-> saved.index_type, record_count |-> n, name_length |-> Len(saved.name),
             vector_off |-> kHeader + begin, vector_len |-> n * saved.dim,
             index_off |-> kHeader + begin + len, index_len |-> Len(saved.index_blob),
             content_crc |-> crc]
    BY EncodedIs, Zenon
  <2> HIDE DEF h, n, begin, len, crc
  <2>2. Fields \subseteq DOMAIN h
    BY <2>1 DEF Fields
  <2> QED
    BY <1>2, <2>2 DEF h
<1>6. \A field \in Fields : \A v :
         /\ [file.header EXCEPT ![field] = v][field] = v
         /\ \A other \in Fields : other # field =>
               [file.header EXCEPT ![field] = v][other] = file.header[other]
  BY <1>5, Zenon
<1> QED
  BY <1>1, <1>2, <1>3, <1>4, <1>6

\* Damage to the content.
LEMMA ContentDamaged ==
    ASSUME SInv, Damaged("content"), file'.header = file.header,
           file'.body \in Tampered(file.body), file'.body \in Seq(Nat)
    PROVE  SInv'
<1>1. /\ saved \in CollectionSnapshotData /\ file = encode(saved) /\ Sized(file)
      /\ saved' = saved /\ loaded' = loaded /\ loaded.status = "none" /\ damage' = "content"
  BY Undamaged
<1>2. saved \in Captured
  BY DEF SInv
<1>3. Sized(file')
  BY <1>1 DEF Sized
<1>4. file'.header = encode(saved').header /\ file'.body \in Tampered(encode(saved').body)
  BY <1>1
<1> QED
  BY <1>1, <1>2, <1>3, <1>4 DEF SInv

LEMMA SInvStep == SInv /\ [Next]_vars => SInv'
<1> SUFFICES ASSUME SInv, [Next]_vars PROVE SInv'
  OBVIOUS
<1>1. ASSUME NEW i \in DOMAIN file.body, NEW v \in CellValues, DamageCell(i, v) PROVE SInv'
  <2>1. Damaged("content") /\ file.body[i] # v /\ file' = [file EXCEPT !.body[i] = v]
    BY <1>1 DEF DamageCell
  <2>2. file = [header |-> file.header, body |-> file.body] /\ file.body \in Seq(Nat)
    BY <2>1, Undamaged DEF Sized
  <2> DEFINE body == file.body
             other == [body EXCEPT ![i] = v]
  <2>3. file' = [header |-> file.header, body |-> other]
    BY <2>1, <2>2
  <2>4. v \in Nat
    BY CellAssumption
  <2>5. other \in Seq(Nat) /\ other # body
    <3>1. body \in Seq(Nat) /\ i \in DOMAIN body /\ body[i] # v
      BY <2>1, <2>2
    <3> HIDE DEF body
    <3>2. i \in 1..Len(body) /\ other[i] = v
      BY <3>1
    <3> QED
      BY <2>4, <3>1, <3>2
  <2>6. other \in Tampered(body)
    <3> HIDE DEF body
    <3>1. i \in DOMAIN body
      BY DEF body
    <3> QED
      BY <2>5, <3>1 DEF Tampered
  <2>7. file'.header = file.header /\ file'.body = other
    BY <2>3
  <2> HIDE DEF other
  <2> QED
    BY <2>1, <2>5, <2>6, <2>7, ContentDamaged
<1>2. ASSUME NEW n \in 0..(Len(file.body) - 1), Truncate(n) PROVE SInv'
  <2>1. Damaged("content") /\ file' = [file EXCEPT !.body = SubSeq(@, 1, n)]
    BY <1>2 DEF Truncate
  <2>2. file = [header |-> file.header, body |-> file.body] /\ file.body \in Seq(Nat)
    BY <2>1, Undamaged DEF Sized
  <2> DEFINE body == file.body
             other == SubSeq(body, 1, n)
  <2>3. file'.header = file.header /\ file'.body = other
    BY <2>1, <2>2
  <2>4. other \in Seq(Nat)
    <3>1. body \in Seq(Nat) /\ n \in 0..(Len(body) - 1)
      BY <1>2, <2>2
    <3> HIDE DEF body
    <3>2. Len(body) \in Nat
      BY <3>1
    <3>3. n \in Nat /\ 0 + n =< Len(body)
      BY <3>1, <3>2
    <3>4. SubSeq(body, 0 + 1, 0 + n) \in Seq(Nat)
      BY <3>1, <3>3, CellsOf
    <3> QED
      BY <3>3, <3>4
  <2>5. other \in Tampered(body)
    BY DEF Tampered
  <2> HIDE DEF other
  <2> QED
    BY <2>1, <2>3, <2>4, <2>5, ContentDamaged
<1>3. ASSUME NEW v \in CellValues, Extend(v) PROVE SInv'
  <2>1. Damaged("content") /\ file' = [file EXCEPT !.body = Append(@, v)]
    BY <1>3 DEF Extend
  <2>2. file = [header |-> file.header, body |-> file.body] /\ file.body \in Seq(Nat)
    BY <2>1, Undamaged DEF Sized
  <2> DEFINE body == file.body
             other == Append(body, v)
  <2>3. file'.header = file.header /\ file'.body = other
    BY <2>1, <2>2
  <2>4. other \in Seq(Nat)
    <3>1. v \in Nat
      BY CellAssumption
    <3> QED
      BY <2>2, <3>1
  <2>5. other \in Tampered(body)
    BY DEF Tampered
  <2> HIDE DEF other
  <2> QED
    BY <2>1, <2>3, <2>4, <2>5, ContentDamaged
<1>4. ASSUME CutHeader PROVE SInv'
  <2>1. Damaged("header") /\ file' = [header |-> [whole |-> FALSE], body |-> << >>]
    BY <1>4 DEF CutHeader
  <2>2. saved' = saved /\ loaded' = loaded /\ loaded.status = "none" /\ damage' = "header"
    BY <2>1, Undamaged
  <2>3. ~file'.header.whole
    BY <2>1
  <2> QED
    BY <2>2, <2>3 DEF SInv
<1>5. ASSUME NEW field \in Fields, NEW v \in CellValues, DamageHeader(field, v) PROVE SInv'
  <2>1. Damaged("header") /\ file' = [file EXCEPT !.header[field] = v]
    BY <1>5 DEF DamageHeader
  <2>2. /\ file = [header |-> file.header, body |-> file.body] /\ Sized(file)
        /\ [file.header EXCEPT ![field] = v][field] = v
        /\ \A other \in Fields : other # field =>
              [file.header EXCEPT ![field] = v][other] = file.header[other]
        /\ saved' = saved /\ loaded' = loaded /\ loaded.status = "none" /\ damage' = "header"
    BY <2>1, Undamaged
  <2> DEFINE head == [file.header EXCEPT ![field] = v]
  <2>3. file'.header = head /\ file'.body = file.body
    BY <2>1, <2>2
  <2>4. v \in Nat
    BY CellAssumption
  <2>5. head[field] = v /\ \A other \in Fields : other # field => head[other] = file.header[other]
    BY <2>2
  <2> HIDE DEF head
  <2>6. \A other \in Fields : head[other] \in Nat
    BY <2>2, <2>4, <2>5 DEF Sized
  <2>7. Sized(file')
    BY <2>2, <2>3, <2>6 DEF Sized
  <2> QED
    BY <2>2, <2>7 DEF SInv
<1>6. ASSUME Load PROVE SInv'
  <2>1. saved' = saved /\ file' = file /\ damage' = damage /\ loaded' = load(file)
    BY <1>6 DEF Load
  <2> QED
    BY <2>1 DEF SInv
<1>7. ASSUME UNCHANGED vars PROVE SInv'
  <2>1. saved' = saved /\ file' = file /\ damage' = damage /\ loaded' = loaded
    BY <1>7 DEF vars
  <2> QED
    BY <2>1 DEF SInv
<1> QED
  BY <1>1, <1>2, <1>3, <1>4, <1>5, <1>6, <1>7 DEF Next

LEMMA SInvAlways == Spec => []SInv
BY SInvInit, SInvStep, PTL DEF Spec

\* What load accepts, of a damaged file or another, lies inside the file: the
\* header that the checksum does not cover (persistence.cpp:444-560) never makes
\* load read past the end or accept parts that contradict each other.
THEOREM AcceptedInside == Spec => []AcceptedInBounds
<1>1. SInv => AcceptedInBounds
  <2> SUFFICES ASSUME SInv, loaded.status = "ok" PROVE InBounds(file, loaded.collection)
    BY DEF AcceptedInBounds, InBounds
  <2>1. loaded = load(file) /\ (file.header.whole => Sized(file))
    BY DEF SInv
  <2> QED
    BY <2>1, LoadInBounds
<1> QED
  BY <1>1, SInvAlways, PTL

\* A file that nothing happened to loads as the collection that was captured, and
\* saves as the same file again (persistence.hpp:25-26).
THEOREM RoundTrips == Spec => []RoundTrip
<1>1. SInv => RoundTrip
  <2> SUFFICES ASSUME SInv, damage = "none", loaded.status # "none"
               PROVE  /\ loaded.status = "ok" /\ loaded.collection = saved
                      /\ encode(loaded.collection) = file
    BY DEF RoundTrip
  <2>1. saved \in CollectionSnapshotData /\ file = encode(saved) /\ loaded = load(file)
    BY CapturedAssumption DEF SInv
  <2>2. load(file) = [status |-> "ok", collection |-> saved]
    BY <2>1, EncodedLoads
  <2> QED
    BY <2>1, <2>2
<1> QED
  BY <1>1, SInvAlways, PTL

\* Damage that the checksum tells from the content written is always reported as
\* Corruption: no other check comes first, and none lets it pass
\* (persistence.cpp:425-432).
THEOREM DamageRejected ==
    ASSUME \A data \in Captured : Detects(data)
    PROVE  Spec => []ContentDamageRejected
<1>1. SInv => ContentDamageRejected
  <2> SUFFICES ASSUME SInv, damage = "content", loaded.status # "none"
               PROVE  loaded.status = "Corruption"
    BY DEF ContentDamageRejected
  <2>1. /\ saved \in Captured /\ loaded = load(file)
        /\ file.header = encode(saved).header /\ file.body \in Tampered(encode(saved).body)
    BY DEF SInv
  <2>2. checksum(file.body) # checksum(encode(saved).body)
    BY <2>1 DEF Detects
  <2>3. /\ Describes(file.header, saved)
        /\ file.header.content_crc = checksum(encode(saved).body)
    BY <2>1, EncodedDescribed
  <2>4. file.header.whole /\ file.header.magic = 1 /\ file.header.version = 1
    BY <2>3 DEF Describes
  <2>5. load(file).status = "Corruption"
    BY <2>2, <2>3, <2>4 DEF load
  <2> QED
    BY <2>1, <2>5
<1> QED
  BY <1>1, SInvAlways, PTL
=============================================================================
