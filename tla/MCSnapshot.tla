------------------------------ MODULE MCSnapshot ------------------------------
(* An instance of Snapshot for TLC: up to two records, one or two components. *)
EXTENDS Snapshot, Crc64

Absent == [present |-> FALSE, entries |-> << >>]
Present(es) == [present |-> TRUE, entries |-> es]

MCMetas == {Absent, Present(<< >>), Present(<<<<1, 2>>, <<2, 3>>>>)}

\* The records with identifiers 1..n, vectors that differ, and these metadata.
Records(n, dim, metas) ==
    [i \in 1..n |-> [id |-> i, meta |-> metas[i], vector |-> [c \in 1..dim |-> i + c]]]

\* The canonical region of an index over the identifiers 1..n.
Blob(type, n) == CASE type = None -> << >>
                   [] type = IVF  -> <<0, 3>>
                   [] type = HNSW -> <<2, 3, n>> \o [i \in 1..n |-> i]

MCCaptured ==
    {[name |-> name, dim |-> dim, metric |-> 1, index_type |-> type,
      records |-> Records(n, dim, metas), index_blob |-> Blob(type, n)] :
        name \in {<<1>>, <<2, 0>>}, dim \in {1, 2}, type \in {None, HNSW, IVF},
        n \in 0..2, metas \in [1..2 -> MCMetas]}

\* CRC-64 sees the damage of this instance.
ASSUME DetectionAssumption == \A data \in Captured : Detects(data)
=============================================================================
