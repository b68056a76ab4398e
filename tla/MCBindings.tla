------------------------------ MODULE MCBindings ------------------------------
(* An instance of Bindings for TLC: two names, two Python threads, integers of  *)
(* three (uint32_t) and five bits (long long), and k beyond each limit.         *)
EXTENDS Bindings

CONSTANTS a, v1, m1

MCInputs == {[id |-> a, vec |-> v1, meta |-> m1]}
MCSnapshots == {EmptyMap}
MCPyInts == {0, 8, 16}
=============================================================================
