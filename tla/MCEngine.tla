------------------------------- MODULE MCEngine -------------------------------
(* An instance of Engine for TLC: two names, three tags, two threads.         *)
EXTENDS Engine

CONSTANTS a, v1, v2, m1

MCInputs == {[id |-> a, vec |-> v1, meta |-> m1], [id |-> a, vec |-> v2, meta |-> m1]}

MCSnapshots == {EmptyMap}
=============================================================================
