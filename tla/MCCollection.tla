----------------------------- MODULE MCCollection -----------------------------
(* An instance of Collection for TLC: two collections, two threads, few blocks. *)
EXTENDS Collection, TLC

CONSTANTS a, b, v1, v2, m1, m2, bad

MCInputs == {[id |-> a, vec |-> v1, meta |-> m1],
             [id |-> a, vec |-> v2, meta |-> m2],
             [id |-> b, vec |-> v1, meta |-> m2],
             [id |-> bad, vec |-> v1, meta |-> m1]}

MCMalformed == {rec \in MCInputs : rec.id = bad}

\* A fresh collection, and one loaded with a record under identifier a.
MCSnapshots == {<< >>, [id \in {a} |-> [vec |-> v1, meta |-> m2]]}

\* Threads, collections and blocks are interchangeable.
Symmetry == Permutations(Threads) \cup Permutations(Tags) \cup Permutations(Blocks)
=============================================================================
