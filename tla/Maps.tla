--------------------------------- MODULE Maps ---------------------------------
(* The std::map operations of the code, on functions with a changing domain,  *)
(* and the sorting of the elements of a container.                            *)
EXTENDS Integers, Sequences, FiniteSets

EmptyMap == [x \in {} |-> 0]

\* m with the entry k |-> v (emplace or assignment), and without the entry k.
Put(m, k, v) == [x \in DOMAIN m \cup {k} |-> IF x = k THEN v ELSE m[x]]
Erase(m, k)  == [x \in DOMAIN m \ {k} |-> m[x]]

Elements(seq) == {seq[i] : i \in DOMAIN seq}

\* The elements of S in the strict order R, a set of pairs.
Sorted(S, R) ==
    [i \in 1..Cardinality(S) |->
        CHOOSE x \in S : Cardinality({y \in S : <<y, x>> \in R}) = i - 1]

\* The position from i on that holds the last record of batch with this id.
LastOf(batch, i, id) ==
    CHOOSE j \in i..Len(batch) : /\ batch[j].id = id
                                 /\ \A n \in (j + 1)..Len(batch) : batch[n].id # id

\* m with the records of batch from position i on stored in order.
Overlay(m, batch, i) ==
    LET new == {batch[j].id : j \in i..Len(batch)}
    IN  [id \in DOMAIN m \cup new |->
            IF id \in new THEN [vec  |-> batch[LastOf(batch, i, id)].vec,
                                meta |-> batch[LastOf(batch, i, id)].meta]
                          ELSE m[id]]
=============================================================================
