-------------------------------- MODULE MCQuery --------------------------------
(* An instance of Query for TLC: three identifiers, vectors of two registers of *)
(* two components each and a remainder of one.                                  *)
EXTENDS Query

MCVectors == {<<0, 0, 0, 0, 0>>, <<1, 0, 0, 0, 0>>, <<0, 1, 0, 0, 1>>, <<0, -1, 0, 1, 1>>}
MCMalformed == {<<1>>}

\* A component whose square exceeds the largest float, 50.
MCLargeVectors == {<<1, 0>>, <<30, 0>>}

\* Large components, whose differences (60) exceed it as well, and small ones, whose
\* sums mostly do not.
MCKernelInputs ==
    UNION {[1..n -> {-30, 30}] \cup [1..n -> {0, 1, 3}] : n \in {1, 2, 3, 5}}
=============================================================================
