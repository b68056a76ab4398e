----------------------------- MODULE MCHnswIndex -----------------------------
(***************************************************************************)
(* HnswIndex on points of a line.  Two records have two of the points to    *)
(* move between, onto each other and onto the two that stay.                *)
(***************************************************************************)
EXTENDS HnswIndex

Gap(a, b) == IF a < b THEN b - a ELSE a - b

MCPoints == {0, 1, 3}
MCDist == [p \in MCPoints \X MCPoints |-> Gap(p[1], p[2])]
MCVectorsOf == [id \in Ids |-> CASE id = 1 -> {1, 3} [] id = 2 -> {0, 1}
                                [] id = 3 -> {3} [] id = 4 -> {0}]
=============================================================================
