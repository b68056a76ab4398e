------------------------------ MODULE MCIvfIndex ------------------------------
(* An instance of IvfIndex for TLC: up to three entries on a line.            *)
EXTENDS IvfIndex

\* Three of the six orders of three points, the rest in place.
MCShuffles ==
    {[n \in 0..3 |-> IF n = 3 THEN f ELSE [i \in 1..n |-> i]] :
        f \in {<<1, 2, 3>>, <<3, 1, 2>>, <<2, 3, 1>>}}

\* A dirty cache is cleared before anyone reads it: its old cells do not matter.
LiveState ==
    <<requested_nlist, shuffle, entries, live_count, records, dirty, call,
      IF dirty THEN << >> ELSE <<centroids, inverted_lists>>>>
=============================================================================
