-------------------------------- MODULE Query --------------------------------
(***************************************************************************)
(* Collection::query (src/core/collection.cpp:309-421): validation, the     *)
(* choice between the index and a scan, re-ranking of whatever candidates   *)
(* the index returns, the fall-back scan, sorting and truncation.           *)
(*                                                                          *)
(* The query runs under the shared lock over the records it finds there.    *)
(* The index may return any identifiers: approximate, with duplicates and   *)
(* with records that are gone.                                              *)
(***************************************************************************)
EXTENDS Distance, FiniteSets

CONSTANTS Ids,        \* numbers, in the order of the identifiers
          Vectors,    \* finite vectors of the collection's dimensionality
          Malformed,  \* query vectors of another length or not finite
          Ks,         \* values of k
          KernelInputs \* vectors of several lengths to compare the kernels on

Floats == -FloatMax..FloatMax

\* Identifiers are ordered and finitely many, k is a number, and the vectors of a
\* collection are finite floats, as many in each as its dimensionality.
ASSUME QueryAssumption ==
    /\ Ids \subseteq Int /\ IsFiniteSet(Ids)
    /\ Ks \subseteq Int
    /\ Vectors \subseteq Seq(Floats) /\ \A v, w \in Vectors : Len(v) = Len(w)
    /\ KernelInputs \subseteq Seq(Floats)

VARIABLES uses_simd,  \* what create() detected, for the life of the process
          metric, records, index_type,
          request,    \* the query: [q, k], or None
          candidates, \* what the index returned
          status,
          results     \* the neighbours returned: [id, distance] in order

collection == <<uses_simd, metric, records, index_type>>
vars == <<collection, request, candidates, status, results>>

None == [k |-> -1]

Min(m, n) == IF m < n THEN m ELSE n

\* exact_distance: an undefined distance counts as +infinity.
exact_distance(id) ==
    LET d == distance(uses_simd, metric, request'.q, records[id])
    IN  IF d = Undefined THEN Inf(1) ELSE d

\* Mutant of Before: the farthest first.
BeforeFarthest(x, y) ==
    \/ Less(y.distance, x.distance)
    \/ NaN \notin {x.distance, y.distance} /\ ~Less(x.distance, y.distance) /\ x.id < y.id

\* The comparator of the sort: ascending distance, then ascending identifier.
Before(x, y) ==
    \/ Less(x.distance, y.distance)
    \/ NaN \notin {x.distance, y.distance} /\ ~Less(y.distance, x.distance) /\ x.id < y.id

\* The records S with their distances, sorted and cut to the first k.
Ranked(S, k) ==
    LET scored == {[id |-> id, distance |-> exact_distance(id)] : id \in S}
    IN  [i \in 1..Min(k, Cardinality(S)) |->
            CHOOSE x \in scored : Cardinality({y \in scored : Before(y, x)}) = i - 1]

\* The candidates that are stored, each once.
Live(cs) == {cs[i] : i \in DOMAIN cs} \cap DOMAIN records

UseIndex(k) == index_type # "None" /\ k < Cardinality(DOMAIN records)

-----------------------------------------------------------------------------

Init ==
    /\ uses_simd \in BOOLEAN
    /\ metric \in Metrics
    /\ records \in UNION {[S -> Vectors] : S \in SUBSET Ids}
    /\ index_type \in {"None", "IVF"}
    /\ request = None
    /\ candidates = << >>
    /\ status = "none"
    /\ results = << >>

\* InvalidArgument, DimensionMismatch or InvalidValue, before the lock.
QueryRejected(q, k) ==
    /\ request = None
    /\ k < 1 \/ q \in Malformed
    /\ request' = [q |-> q, k |-> k]
    /\ status' = "error"
    /\ UNCHANGED <<collection, candidates, results>>

\* No index, or k covers the collection: scan every record.
QueryScan(q, k) ==
    /\ request = None
    /\ k >= 1 /\ q \notin Malformed
    /\ ~UseIndex(k)
    /\ request' = [q |-> q, k |-> k]
    /\ results' = Ranked(DOMAIN records, k)
    /\ status' = "ok"
    /\ UNCHANGED <<collection, candidates>>

\* Mutant of QueryIndex: no scan when the index returns too few.
QueryIndexOnly(q, k, cs) ==
    /\ request = None
    /\ k >= 1 /\ q \notin Malformed
    /\ UseIndex(k)
    /\ Len(cs) =< k
    /\ request' = [q |-> q, k |-> k]
    /\ candidates' = cs
    /\ results' = Ranked(Live(cs), k)
    /\ status' = "ok"
    /\ UNCHANGED collection

\* The index answers with cs; too few of them live means a scan after all.
QueryIndex(q, k, cs) ==
    /\ request = None
    /\ k >= 1 /\ q \notin Malformed
    /\ UseIndex(k)
    /\ Len(cs) =< k
    /\ request' = [q |-> q, k |-> k]
    /\ candidates' = cs
    /\ results' = Ranked(IF Cardinality(Live(cs)) < Min(k, Cardinality(DOMAIN records))
                         THEN DOMAIN records ELSE Live(cs), k)
    /\ status' = "ok"
    /\ UNCHANGED collection

CandidateLists == UNION {[1..n -> Ids] : n \in 0..2}

Next ==
    \E q \in Vectors \cup Malformed, k \in Ks :
        \/ QueryRejected(q, k)
        \/ QueryScan(q, k)
        \/ \E cs \in CandidateLists : QueryIndex(q, k, cs)

Spec == Init /\ [][Next]_vars

-----------------------------------------------------------------------------
(* Properties                                                               *)

Answered == status = "ok"

\* By the scalar kernels, "the accuracy oracle" (distance.cpp:55).
DistanceOf(id) ==
    LET d == distance(FALSE, metric, request.q, records[id])
    IN  IF d = Undefined THEN Inf(1) ELSE d

ResultIds == {results[i].id : i \in DOMAIN results}

\* However poor the index, an answer has min(k, record count) distinct stored
\* records with their exact distances (collection.cpp:367-418), whichever kernels
\* the host has.
AnswerComplete ==
    Answered =>
        /\ Len(results) = Min(request.k, Cardinality(DOMAIN records))
        /\ Cardinality(ResultIds) = Len(results)
        /\ ResultIds \subseteq DOMAIN records
        /\ \A i \in DOMAIN results : results[i].distance = DistanceOf(results[i].id)

\* Answers are in order, ties by identifier, and no record left out comes before
\* one returned: never among all the records when the scan decided, and never among
\* the live candidates when the index did (collection.cpp:342-364, 382-412).  A
\* record at an undefined distance is "infinitely far and sorted to the back rather
\* than aborting the query" (collection.hpp:133-135): no query raises the
\* UndefinedDistanceError that docs/concepts.md:37-38 announces.
NearestFirst ==
    Answered =>
        LET live == Live(candidates)
            pool == IF index_type # "None" /\ Cardinality(live) >= request.k
                       /\ request.k < Cardinality(DOMAIN records)
                    THEN live ELSE DOMAIN records
            InOrder(d, id, e, x) == ~Less(e, d) /\ (~Less(d, e) => id < x)
        IN  /\ \A i, j \in DOMAIN results : i < j =>
                  InOrder(results[i].distance, results[i].id,
                          results[j].distance, results[j].id)
            /\ \A id \in pool \ ResultIds : \A i \in DOMAIN results :
                  InOrder(results[i].distance, results[i].id, DistanceOf(id), id)

\* The AVX-512 kernels are "equivalent to" the scalar ones (distance.cpp:76,
\* 111): for vectors shorter than a register, of whole registers and with a
\* remainder, also where a sum, or already a difference in a register, overflows
\* float (distance.cpp:91).
\* (Evaluated where there are no records yet: it does not depend on them.)
KernelsAgree ==
    request = None /\ DOMAIN records = {} =>
        \A a, b \in KernelInputs : Len(a) = Len(b) =>
            distance(uses_simd, metric, a, b) = distance(FALSE, metric, a, b)

\* "All distances are finite or +infinity (never NaN), so this is a valid
\* strict-weak ordering" (collection.cpp:404-405).
DistancesNeverNaN ==
    Answered => \A id \in DOMAIN records : DistanceOf(id) # NaN
=============================================================================
