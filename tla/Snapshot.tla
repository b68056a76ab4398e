------------------------------- MODULE Snapshot -------------------------------
(***************************************************************************)
(* The snapshot image: PersistenceManager::encode and the checks and the    *)
(* reconstruction in ::load (src/core/persistence.cpp), over the layout of  *)
(* snapshot_format.hpp, for files that may be damaged between save and load.*)
(*                                                                          *)
(* A file is a header, kept as a record, and a body, a sequence of cells.   *)
(* A cell is one encoded value: an identifier (0 is the empty one), an      *)
(* index, a length, a metadata key or typed value (0 has an unknown tag), a *)
(* vector component.  Offsets count cells, of which the header has kHeader. *)
(* A cell is also the byte the checksum sees.  Of an HNSW region only the   *)
(* node identifiers are kept (see HnswIndex for the rest).                  *)
(***************************************************************************)
EXTENDS Maps, SequencesExt

CONSTANTS kHeader,     \* cells of the header (76 bytes in the code)
          kAlignment,  \* cells per alignment unit (64 bytes)
          MaxDim,      \* 65536
          MaxName,     \* 255
          Captured,    \* CollectionSnapshotData values a save may capture
          CellValues,  \* what a damaged cell or header field may hold
          checksum(_)  \* of a sequence of cells: crc64_ecma (module Crc64)

ASSUME LayoutAssumption == /\ kHeader \in Nat \ {0} /\ kAlignment \in Nat \ {0}
                           /\ MaxDim \in Nat /\ MaxName \in Nat

ASSUME CellAssumption == CellValues \subseteq Nat

VARIABLES saved,    \* what was captured and encoded
          file,     \* [header, body] as it is on disk
          damage,   \* what happened to the file since
          loaded    \* the outcome of load

vars == <<saved, file, damage, loaded>>

None == 0
HNSW == 1
IVF  == 2

\* Metadata: absent, or a std::map from keys to typed values, in the order of the keys.
Metadata == [present: {FALSE}, entries: {<< >>}]
                \cup [present: {TRUE}, entries: {es \in Seq(Nat \X (Nat \ {0})) :
                          \A i, j \in DOMAIN es : i < j => es[i][1] < es[j][1]}]

\* The region of an index over the records `stored': none, two parameters (IVF),
\* two parameters, the number of nodes and the nodes, of a record each (HNSW).
RegionValid(type, blob, stored) ==
    LET nodes == SubSeq(blob, 4, Len(blob))
    IN  /\ type = None => blob = << >>
        /\ type = IVF => Len(blob) = 2
        /\ type = HNSW =>
              /\ Len(blob) >= 3
              /\ blob[3] = Len(nodes)
              /\ \A i \in DOMAIN nodes : nodes[i] \in stored
              /\ \A i, j \in DOMAIN nodes : i # j => nodes[i] # nodes[j]

\* What Collection::snapshot_data captures of a collection: the records in the
\* order of their identifiers, and the region of an index that agrees with them.
CollectionSnapshotData ==
    {data \in [name: Seq(Nat), dim: 1..MaxDim, metric: 0..2, index_type: {None, HNSW, IVF},
              records: Seq([id: Nat \ {0}, meta: Metadata, vector: Seq(Nat)]),
              index_blob: Seq(Nat)] :
        /\ Len(data.name) \in 1..MaxName
        /\ \A i \in DOMAIN data.records : Len(data.records[i].vector) = data.dim
        /\ \A i, j \in DOMAIN data.records : i < j => data.records[i].id < data.records[j].id
        /\ RegionValid(data.index_type, data.index_blob,
                       {rec.id : rec \in Elements(data.records)})}

ASSUME CapturedAssumption == \A data \in Captured : data \in CollectionSnapshotData

-----------------------------------------------------------------------------
(* encode                                                                   *)

\* Mutant of write_metadata: absent metadata becomes an empty map.
write_metadata_present(meta) == <<1, Len(meta.entries)>> \o FlattenSeq(meta.entries)

\* write_metadata: absent is 0; present is 1, the count, and key-value pairs.
write_metadata(meta) ==
    IF meta.present THEN <<1, Len(meta.entries)>> \o FlattenSeq(meta.entries) ELSE <<0>>

\* One directory entry: identifier, position of the vector, length of the blob.
DirectoryEntry(rec, i) ==
    LET meta == write_metadata(rec.meta) IN <<rec.id, i - 1, Len(meta)>> \o meta

Padding(n) == [i \in 1..((-(kHeader + n)) % kAlignment) |-> 0]

encode(data) ==
    LET n == Len(data.records)
        head == data.name \o FlattenSeq([i \in 1..n |-> DirectoryEntry(data.records[i], i)])
        front == head \o Padding(Len(head))
        vectors == FlattenSeq([i \in 1..n |-> data.records[i].vector])
        body == front \o vectors \o data.index_blob
    IN  [header |-> [whole |-> TRUE, magic |-> 1, version |-> 1,
                     dim |-> data.dim, metric |-> data.metric,
                     index_type |-> data.index_type,
                     record_count |-> n, name_length |-> Len(data.name),
                     vector_off |-> kHeader + Len(front), vector_len |-> n * data.dim,
                     index_off |-> kHeader + Len(front) + Len(vectors),
                     index_len |-> Len(data.index_blob),
                     content_crc |-> checksum(body)],
         body |-> body]

-----------------------------------------------------------------------------
(* load                                                                     *)

Total(f) == kHeader + Len(f.body)

\* `len' cells of the mapping from file offset `off' on.  Nothing keeps an index
\* region out of the header, whose fields then read as some cell.
Region(f, off, len) ==
    [i \in 1..len |-> IF off + i > kHeader THEN f.body[off + i - kHeader] ELSE 1]

\* Enumerations, counts and the two regions, against the size of the file.
HeaderValid(f) ==
    LET h == f.header
    IN  /\ h.dim \in 1..MaxDim
        /\ h.metric \in 0..2
        /\ h.index_type \in {None, HNSW, IVF}
        /\ h.record_count =< Total(f)
        /\ h.name_length =< Len(f.body)
        /\ h.vector_off >= kHeader
        /\ h.vector_off =< Total(f)
        /\ h.vector_len =< Total(f) - h.vector_off
        /\ h.vector_len = h.record_count * h.dim
        /\ h.index_off =< Total(f)
        /\ h.index_len =< Total(f) - h.index_off
        /\ h.index_type = None <=> h.index_len = 0

NameValid(f) == f.header.name_length \in 1..MaxName

\* The order of a std::map's entries.
ByKey(entries) == {p \in entries \X entries : p[1][1] < p[2][1]}

\* read_metadata: blob is well formed and used up.
MetadataValid(blob) ==
    /\ Len(blob) >= 1
    /\ IF blob[1] = 0 THEN Len(blob) = 1
       ELSE /\ Len(blob) >= 2
            /\ Len(blob) = 2 + 2 * blob[2]
            /\ \A i \in 1..blob[2] : blob[2 + 2 * i] # 0

\* The metadata of a blob; of the values of a key, emplace keeps the first.
read_metadata(blob) ==
    IF blob[1] = 0 THEN [present |-> FALSE, entries |-> << >>]
    ELSE LET es == [i \in 1..blob[2] |-> <<blob[1 + 2 * i], blob[2 + 2 * i]>>]
             first == {i \in 1..blob[2] : \A j \in 1..(i - 1) : es[j][1] # es[i][1]}
         IN  [present |-> TRUE, entries |-> Sorted({es[i] : i \in first}, ByKey(Elements(es)))]

\* ByteReader::ensure: `need' more cells behind the `pos' consumed.
ensure(f, pos, need) == pos + need =< Len(f.body)

\* The directory entry read at `pos' (cells of the body consumed so far) holds a
\* record that may join the identifiers `known'.
RecordValid(f, pos, known) ==
    /\ ensure(f, pos, 3)
    /\ ensure(f, pos + 3, f.body[pos + 3])
    /\ MetadataValid(SubSeq(f.body, pos + 4, pos + 3 + f.body[pos + 3]))
    /\ f.body[pos + 1] # 0
    /\ f.body[pos + 2] < f.header.record_count
    /\ f.body[pos + 1] \notin known

\* The record there: `at' is the file offset of its vector in the mapping.
RecordAt(f, pos) ==
    [id   |-> f.body[pos + 1],
     at   |-> f.header.vector_off + f.body[pos + 2] * f.header.dim,
     meta |-> read_metadata(SubSeq(f.body, pos + 4, pos + 3 + f.body[pos + 3]))]

\* The directory [ok, pos, records] after the next entry.
ReadEntry(f, d) ==
    IF d.ok /\ RecordValid(f, d.pos, {rec.id : rec \in Elements(d.records)})
    THEN [ok |-> TRUE, pos |-> d.pos + 3 + f.body[d.pos + 3],
          records |-> Append(d.records, RecordAt(f, d.pos))]
    ELSE [d EXCEPT !.ok = FALSE]

Directory(f) ==
    LET read[n \in 0..f.header.record_count] ==
            IF n = 0 THEN [ok |-> TRUE, pos |-> f.header.name_length, records |-> << >>]
            ELSE ReadEntry(f, read[n - 1])
    IN  read[f.header.record_count]

\* Mutant of DirectoryValid: the directory may run into the vectors.
DirectoryValidAnywhere(f) == Directory(f).ok

\* The directory parses and ends no later than the vector region starts.
DirectoryValid(f) ==
    /\ Directory(f).ok
    /\ Directory(f).pos =< f.header.vector_off - kHeader

\* The index region parses, over the records of the directory.
IndexValid(f) ==
    RegionValid(f.header.index_type, Region(f, f.header.index_off, f.header.index_len),
                {rec.id : rec \in Elements(Directory(f).records)})

\* The collection a valid file is loaded as: std::map keeps records by id.
Reconstructed(f) ==
    LET h == f.header
        recs == Elements(Directory(f).records)
        by_id == Sorted(recs, {p \in recs \X recs : p[1].id < p[2].id})
    IN  [name |-> SubSeq(f.body, 1, h.name_length), dim |-> h.dim, metric |-> h.metric,
         index_type |-> h.index_type,
         records |-> [i \in DOMAIN by_id |->
                        [id |-> by_id[i].id, meta |-> by_id[i].meta,
                         vector |-> Region(f, by_id[i].at, h.dim)]],
         index_blob |-> Region(f, h.index_off, h.index_len)]

\* Mutant of load: the stored checksum is not compared.
LoadUnchecked(f) ==
    IF ~f.header.whole \/ f.header.magic # 1 THEN [status |-> "SnapshotNotFound"]
    ELSE IF f.header.version # 1 THEN [status |-> "UnsupportedVersion"]
    ELSE IF HeaderValid(f) /\ NameValid(f) /\ DirectoryValid(f) /\ IndexValid(f)
         THEN [status |-> "ok", collection |-> Reconstructed(f)]
    ELSE [status |-> "Corruption"]

\* The checks in the code's order; the first that fails names the error.
load(f) ==
    IF ~f.header.whole \/ f.header.magic # 1 THEN [status |-> "SnapshotNotFound"]
    ELSE IF f.header.version # 1 THEN [status |-> "UnsupportedVersion"]
    ELSE IF /\ f.header.content_crc = checksum(f.body)
            /\ HeaderValid(f) /\ NameValid(f) /\ DirectoryValid(f) /\ IndexValid(f)
         THEN [status |-> "ok", collection |-> Reconstructed(f)]
    ELSE [status |-> "Corruption"]

-----------------------------------------------------------------------------

Init ==
    /\ saved \in Captured
    /\ file = encode(saved)
    /\ damage = "none"
    /\ loaded = [status |-> "none"]

\* The file is damaged at most once, between the save and the load.
Damaged(kind) ==
    /\ damage = "none" /\ loaded.status = "none"
    /\ damage' = kind
    /\ UNCHANGED <<saved, loaded>>

\* A cell of the body changes, the file ends early, or something follows it.
DamageCell(i, v) ==
    /\ Damaged("content")
    /\ file.body[i] # v
    /\ file' = [file EXCEPT !.body[i] = v]

Truncate(n) == Damaged("content") /\ file' = [file EXCEPT !.body = SubSeq(@, 1, n)]

Extend(v) == Damaged("content") /\ file' = [file EXCEPT !.body = Append(@, v)]

\* The file ends inside its header, or a field of the header changes.
CutHeader == Damaged("header") /\ file' = [header |-> [whole |-> FALSE], body |-> << >>]

Fields == {"magic", "version", "dim", "metric", "index_type", "record_count",
           "name_length", "vector_off", "vector_len", "index_off", "index_len"}

DamageHeader(field, v) ==
    /\ Damaged("header")
    /\ file.header[field] # v
    /\ file' = [file EXCEPT !.header[field] = v]

Load ==
    /\ loaded.status = "none"
    /\ loaded' = load(file)
    /\ UNCHANGED <<saved, file, damage>>

Next ==
    \/ \E i \in DOMAIN file.body, v \in CellValues : DamageCell(i, v)
    \/ \E n \in 0..(Len(file.body) - 1) : Truncate(n)
    \/ \E v \in CellValues : Extend(v)
    \/ CutHeader
    \/ \E field \in Fields, v \in CellValues : DamageHeader(field, v)
    \/ Load

Spec == Init /\ [][Next]_vars

-----------------------------------------------------------------------------
(* Properties                                                               *)

\* Every body that the damage to the content may leave in place of `body'.
Tampered(body) ==
    ({[body EXCEPT ![i] = v] : i \in DOMAIN body, v \in CellValues} \ {body})
        \cup {SubSeq(body, 1, n) : n \in 0..(Len(body) - 1)}
        \cup {Append(body, v) : v \in CellValues}

\* The checksum tells each from the body written for data.
Detects(data) ==
    \A other \in Tampered(encode(data).body) : checksum(other) # checksum(encode(data).body)

\* The undamaged file loads as what was captured: configuration, records with
\* their vectors, metadata with absence kept apart from emptiness, and index;
\* and saving it again gives the same file: "a save -> load -> save cycle is
\* byte-identical" (persistence.hpp:25-26).
RoundTrip ==
    damage = "none" /\ loaded.status # "none" =>
        /\ loaded.status = "ok"
        /\ loaded.collection = saved
        /\ encode(loaded.collection) = file

\* Whatever happens to the content, change, loss or addition, the load reports
\* Corruption (persistence.cpp:425-432; tests/cpp/persistence_test.cpp:302).
ContentDamageRejected ==
    damage = "content" /\ loaded.status # "none" => loaded.status = "Corruption"

\* A header that was damaged never makes load accept a file it would read past
\* the end of, or whose directory, vectors and index contradict each other:
\* every vector of every record lies in the file behind the directory, and an
\* HNSW node has a record (persistence.cpp:444-560).  The header itself is not
\* covered by the checksum.
AcceptedInBounds ==
    loaded.status = "ok" =>
        /\ \A i \in DOMAIN Directory(file).records :
              LET at == Directory(file).records[i].at
              IN  at >= kHeader + Directory(file).pos /\ at + file.header.dim =< Total(file)
        /\ Len(loaded.collection.records) = file.header.record_count
        /\ file.header.index_off + file.header.index_len =< Total(file)
        /\ file.header.index_type = HNSW =>
              \A i \in 4..Len(loaded.collection.index_blob) :
                  \E j \in DOMAIN loaded.collection.records :
                      loaded.collection.records[j].id = loaded.collection.index_blob[i]
=============================================================================
