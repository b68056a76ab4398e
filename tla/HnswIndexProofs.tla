--------------------------- MODULE HnswIndexProofs ---------------------------
(***************************************************************************)
(* Proofs about HnswIndex for any identifiers, vectors, metric, parameters, *)
(* levels and width of uint32_t.                                            *)
(*                                                                          *)
(* The inductive invariant is Inv: one node for each identifier, the live   *)
(* ones holding the records (Holds), edges that stay on their layer and     *)
(* within the caps (Linked), an entry point on the highest layer (Entered). *)
(* NothingCutOff needs Joined besides, that layer 0 is in one piece.        *)
(***************************************************************************)
EXTENDS HnswIndex, ProofLemmas

-----------------------------------------------------------------------------
(* Nodes, and which of them is nearest                                      *)

Node == UNION {[id: Ids, vector: Points, top_layer: {l}, deleted: BOOLEAN,
                neighbors: [0..l -> Seq(Nat)]] : l \in 0..MaxLevel}

LEMMA NodeFacts ==
    ASSUME NEW ns \in Seq(Node), NEW s \in DOMAIN ns
    PROVE  /\ ns[s] \in Node
           /\ ns[s].id \in Ids /\ ns[s].vector \in Points /\ ns[s].deleted \in BOOLEAN
           /\ ns[s].top_layer \in 0..MaxLevel /\ ns[s].top_layer \in Nat
           /\ DOMAIN ns[s].neighbors = 0..ns[s].top_layer
           /\ \A l \in 0..ns[s].top_layer : ns[s].neighbors[l] \in Seq(Nat)
<1>1. ns[s] \in Node
  OBVIOUS
<1>2. MaxLevel \in Nat
  BY ParamAssumption
<1>3. PICK l \in 0..MaxLevel : ns[s] \in [id: Ids, vector: Points, top_layer: {l},
                                         deleted: BOOLEAN, neighbors: [0..l -> Seq(Nat)]]
  BY <1>1 DEF Node
<1>4. ns[s].id \in Ids /\ ns[s].vector \in Points /\ ns[s].deleted \in BOOLEAN
      /\ ns[s].top_layer = l
  BY <1>3
<1>5. ns[s].neighbors \in [0..l -> Seq(Nat)]
  BY <1>3
<1> QED
  BY <1>1, <1>2, <1>4, <1>5

LEMMA DistanceIs ==
    ASSUME NEW ns \in Seq(Node), NEW q \in Points, NEW s \in DOMAIN ns
    PROVE  distance_to(ns, q, s) \in Int
<1>1. ns[s].vector \in Points
  BY NodeFacts
<1> QED
  BY <1>1, MetricAssumption DEF distance_to

CloserOrder(ns, q, S) == {p \in S \X S : Closer(ns, q, p[1], p[2])}
FartherOrder(ns, q, S) == {p \in S \X S : Closer(ns, q, p[2], p[1])}

LEMMA CloserIsOrder ==
    ASSUME NEW ns \in Seq(Node), NEW q \in Points, NEW S \in SUBSET DOMAIN ns
    PROVE  /\ StrictOrder(S, CloserOrder(ns, q, S)) /\ StrictOrder(S, FartherOrder(ns, q, S))
           /\ IsFiniteSet(S)
           /\ \A x, y \in S : /\ <<x, y>> \in CloserOrder(ns, q, S) <=> Closer(ns, q, x, y)
                              /\ <<x, y>> \in FartherOrder(ns, q, S) <=> Closer(ns, q, y, x)
<1> DEFINE d(s) == distance_to(ns, q, s)
<1>1. \A s \in S : d(s) \in Int /\ s \in Nat
  <2>1. DOMAIN ns = 1..Len(ns)
    OBVIOUS
  <2>2. \A s \in S : s \in DOMAIN ns /\ s \in Nat
    BY <2>1
  <2> QED
    BY <2>2, DistanceIs
<1>2. \A s, x \in S : Closer(ns, q, s, x) <=> d(s) < d(x) \/ (d(s) = d(x) /\ s < x)
  BY DEF Closer
<1> HIDE DEF d
<1>3. /\ \A x, y \in S : <<x, y>> \in CloserOrder(ns, q, S) <=> Closer(ns, q, x, y)
      /\ \A x, y \in S : <<x, y>> \in FartherOrder(ns, q, S) <=> Closer(ns, q, y, x)
  BY DEF CloserOrder, FartherOrder
<1>4. /\ \A x \in S : ~Closer(ns, q, x, x)
      /\ \A x, y, z \in S : Closer(ns, q, x, y) /\ Closer(ns, q, y, z) => Closer(ns, q, x, z)
      /\ \A x, y \in S : x # y => Closer(ns, q, x, y) \/ Closer(ns, q, y, x)
  <2>1. \A x \in S : ~Closer(ns, q, x, x)
    BY <1>1, <1>2
  <2>2. ASSUME NEW x \in S, NEW y \in S, NEW z \in S,
               Closer(ns, q, x, y), Closer(ns, q, y, z)
        PROVE  Closer(ns, q, x, z)
    <3>1. d(x) \in Int /\ d(y) \in Int /\ d(z) \in Int /\ x \in Nat /\ y \in Nat /\ z \in Nat
      BY <1>1
    <3>2. d(x) < d(y) \/ (d(x) = d(y) /\ x < y)
      BY <1>2, <2>2
    <3>3. d(y) < d(z) \/ (d(y) = d(z) /\ y < z)
      BY <1>2, <2>2
    <3>4. d(x) < d(z) \/ (d(x) = d(z) /\ x < z)
      BY <3>1, <3>2, <3>3
    <3> QED
      BY <1>2, <3>4
  <2>3. ASSUME NEW x \in S, NEW y \in S, x # y
        PROVE  Closer(ns, q, x, y) \/ Closer(ns, q, y, x)
    <3>1. d(x) \in Int /\ d(y) \in Int /\ x \in Nat /\ y \in Nat
      BY <1>1
    <3>2. \/ d(x) < d(y) \/ (d(x) = d(y) /\ x < y)
          \/ d(y) < d(x) \/ (d(y) = d(x) /\ y < x)
      BY <2>3, <3>1
    <3> QED
      BY <1>2, <3>2
  <2> QED
    BY <2>1, <2>2, <2>3
<1>5. StrictOrder(S, CloserOrder(ns, q, S)) /\ StrictOrder(S, FartherOrder(ns, q, S))
  BY <1>3, <1>4, Zenon DEF StrictOrder
<1>6. IsFiniteSet(S)
  <2>1. Len(ns) \in Nat /\ DOMAIN ns = 1..Len(ns)
    OBVIOUS
  <2>2. IsFiniteSet(1..Len(ns))
    BY <2>1, FS_Interval
  <2> QED
    BY <2>1, <2>2, FS_Subset
<1> QED
  BY <1>3, <1>5, <1>6

LEMMA ClosestIs ==
    ASSUME NEW ns \in Seq(Node), NEW q \in Points, NEW S \in SUBSET DOMAIN ns, S # {}
    PROVE  /\ Closest(ns, q, S) \in S
           /\ \A x \in S \ {Closest(ns, q, S)} : Closer(ns, q, Closest(ns, q, S), x)
<1> DEFINE R == CloserOrder(ns, q, S)
<1>1. StrictOrder(S, R) /\ IsFiniteSet(S)
  BY CloserIsOrder
<1> HIDE DEF R
<1>2. HasFirst(S, R)
  BY <1>1, FirstOf
<1>3. \E s \in S : \A x \in S \ {s} : Closer(ns, q, s, x)
  BY <1>2, CloserIsOrder DEF R, HasFirst
<1> QED
  BY <1>3 DEF Closest

LEMMA FarthestIs ==
    ASSUME NEW ns \in Seq(Node), NEW q \in Points, NEW S \in SUBSET DOMAIN ns, S # {}
    PROVE  /\ Farthest(ns, q, S) \in S
           /\ \A x \in S \ {Farthest(ns, q, S)} : Closer(ns, q, x, Farthest(ns, q, S))
<1> DEFINE R == FartherOrder(ns, q, S)
<1>1. StrictOrder(S, R) /\ IsFiniteSet(S)
  BY CloserIsOrder
<1> HIDE DEF R
<1>2. HasFirst(S, R)
  BY <1>1, FirstOf
<1>3. \E s \in S : \A x \in S \ {s} : Closer(ns, q, x, s)
  BY <1>2, CloserIsOrder DEF R, HasFirst
<1> QED
  BY <1>3 DEF Farthest

LEMMA FarthestDistance ==
    ASSUME NEW ns \in Seq(Node), NEW q \in Points, NEW S \in SUBSET DOMAIN ns, S # {}
    PROVE  \A x \in S : distance_to(ns, q, x) =< distance_to(ns, q, Farthest(ns, q, S))
<1> SUFFICES ASSUME NEW x \in S
             PROVE  distance_to(ns, q, x) =< distance_to(ns, q, Farthest(ns, q, S))
  OBVIOUS
<1> DEFINE y == Farthest(ns, q, S)
<1>1. y \in S /\ (x = y \/ Closer(ns, q, x, y))
  BY FarthestIs
<1>2. distance_to(ns, q, x) \in Int /\ distance_to(ns, q, y) \in Int
  BY <1>1, DistanceIs
<1> HIDE DEF y
<1>3. distance_to(ns, q, x) =< distance_to(ns, q, y)
  BY <1>1, <1>2 DEF Closer
<1> QED
  BY <1>3 DEF y

-----------------------------------------------------------------------------
(* The exploration of a layer                                               *)

\* States of an exploration among the nodes V.
States(V) == [candidates: SUBSET V, result: SUBSET V, visited: SUBSET V]

\* What an exploration from start knows: the result is the ef nearest of the nodes
\* visited, all of them if there are no more, and whoever is in it has been expanded
\* unless it is still a candidate, or in X.
Explored(ns, q, start, ef, layer, X, st) ==
    /\ start \in st.visited /\ st.candidates \subseteq st.visited
    /\ st.result \subseteq st.visited /\ st.result # {} /\ Cardinality(st.result) =< ef
    /\ \A s \in st.visited \ st.result :
          /\ Cardinality(st.result) = ef
          /\ \A x \in st.result : distance_to(ns, q, x) =< distance_to(ns, q, s)
    /\ \A s \in (st.result \ st.candidates) \ X : Elements(ns[s].neighbors[layer]) \subseteq st.visited

LEMMA VisitIs ==
    ASSUME NEW ns \in Seq(Node), NEW q \in Points, NEW start, NEW ef \in Nat \ {0}, NEW layer,
           NEW V \in SUBSET DOMAIN ns, NEW X, NEW st \in States(V),
           Explored(ns, q, start, ef, layer, X, st), NEW s \in V
    PROVE  /\ Visit(ns, q, ef, st, s) \in States(V)
           /\ Explored(ns, q, start, ef, layer, X, Visit(ns, q, ef, st, s))
           /\ Visit(ns, q, ef, st, s).visited = st.visited \cup {s}
           /\ st.visited \ st.candidates
                \subseteq Visit(ns, q, ef, st, s).visited \ Visit(ns, q, ef, st, s).candidates
<1> DEFINE t == Visit(ns, q, ef, st, s)
           d(x) == distance_to(ns, q, x)
           grown == st.result \cup {s}
           joins == \/ Cardinality(st.result) < ef
                    \/ d(s) < d(Farthest(ns, q, st.result))
           kept == IF Cardinality(grown) > ef THEN grown \ {Farthest(ns, q, grown)} ELSE grown
<1>1. /\ st = [candidates |-> st.candidates, result |-> st.result, visited |-> st.visited]
      /\ st.candidates \in SUBSET V /\ st.result \in SUBSET V /\ st.visited \in SUBSET V
  BY DEF States
<1>2. \A x \in V : d(x) \in Int
  BY DistanceIs
<1>3. CASE s \in st.visited
  <2>1. t = st /\ st.visited \cup {s} = st.visited
    BY <1>3 DEF Visit
  <2> HIDE DEF t
  <2> QED
    BY <2>1 DEF t
<1>4. CASE s \notin st.visited
  <2> DEFINE seen == [st EXCEPT !.visited = @ \cup {s}]
             joined == [seen EXCEPT !.candidates = @ \cup {s}, !.result = kept]
  <2>1. t = IF joins THEN joined ELSE seen
    BY <1>4 DEF Visit
  <2>2. /\ IsFiniteSet(st.result) /\ IsFiniteSet(grown) /\ Cardinality(st.result) \in Nat
        /\ Cardinality(grown) = Cardinality(st.result) + 1
    <3>1. IsFiniteSet(st.result)
      BY <1>1, CloserIsOrder
    <3>2. s \notin st.result
      BY <1>4 DEF Explored
    <3> QED
      BY <3>1, <3>2, FS_AddElement, FS_CardinalityType
  <2>3. /\ Farthest(ns, q, st.result) \in st.result
        /\ \A x \in st.result : d(x) =< d(Farthest(ns, q, st.result))
    <3>1. st.result # {} /\ st.result \in SUBSET DOMAIN ns
      BY <1>1 DEF Explored
    <3> QED
      BY <3>1, FarthestIs, FarthestDistance
  <2>4. /\ Farthest(ns, q, grown) \in grown
        /\ \A x \in grown : d(x) =< d(Farthest(ns, q, grown))
    <3>1. grown # {} /\ grown \in SUBSET DOMAIN ns
      BY <1>1
    <3> HIDE DEF grown
    <3> QED
      BY <3>1, FarthestIs, FarthestDistance
  <2>5. /\ Cardinality(st.result) =< ef
        /\ \A y \in st.visited \ st.result :
              Cardinality(st.result) = ef /\ \A x \in st.result : d(x) =< d(y)
    BY DEF Explored
  <2>6. /\ IsFiniteSet(kept) /\ Cardinality(kept) \in Nat /\ Cardinality(kept) =< ef
        /\ Cardinality(grown) > ef => Cardinality(kept) = ef /\ Cardinality(st.result) = ef
        /\ kept # {} /\ kept \in SUBSET grown
    <3>3. grown # {}
      OBVIOUS
    <3> HIDE DEF grown
    <3>1. CASE Cardinality(grown) > ef
      <4>1. Cardinality(st.result) = ef
        BY <2>2, <2>5, <3>1
      <4>2. IsFiniteSet(kept) /\ Cardinality(kept) = ef
        BY <2>2, <2>4, <3>1, <4>1, FS_RemoveElement
      <4>3. kept # {}
        BY <4>2, FS_EmptySet
      <4> QED
        BY <3>1, <4>1, <4>2, <4>3
    <3>2. CASE ~(Cardinality(grown) > ef)
      BY <2>2, <3>2, <3>3
    <3> QED
      BY <3>1, <3>2
  <2>7. CASE joins
    <3>1. t = joined
      <4> HIDE DEF t, joins, joined, seen
      <4> QED
        BY <2>1, <2>7
    <3>2. t.candidates = st.candidates \cup {s} /\ t.result = kept
          /\ t.visited = st.visited \cup {s} /\ t \in States(V)
      <4>1. kept \in SUBSET V
        <5> HIDE DEF kept
        <5> QED
          BY <1>1, <2>6
      <4> HIDE DEF kept, t
      <4> QED
        BY <3>1, <4>1 DEF States
    <3>3. ASSUME NEW y \in t.visited \ t.result
          PROVE  Cardinality(t.result) = ef /\ \A x \in t.result : d(x) =< d(y)
      <4>1. CASE y \in grown
        <5>1. Cardinality(grown) > ef /\ y = Farthest(ns, q, grown)
          BY <3>2, <3>3, <4>1
        <5> QED
          BY <2>4, <2>6, <3>2, <5>1
      <4>2. CASE y \notin grown
        <5>1. y \in st.visited \ st.result
          BY <3>2, <3>3, <4>2
        <5>2. Cardinality(st.result) = ef /\ \A x \in st.result : d(x) =< d(y)
          BY <2>5, <5>1
        <5>3. Cardinality(grown) > ef
          BY <2>2, <5>2
        <5>4. d(s) < d(Farthest(ns, q, st.result))
          BY <2>2, <2>7, <5>2
        <5>5. d(s) =< d(y)
          <6>1. d(s) \in Int /\ d(y) \in Int /\ d(Farthest(ns, q, st.result)) \in Int
            BY <1>1, <1>2, <2>3, <5>1
          <6>2. d(Farthest(ns, q, st.result)) =< d(y)
            BY <2>3, <5>2
          <6> HIDE DEF d
          <6> QED
            BY <5>4, <6>1, <6>2
        <5> QED
          BY <2>6, <3>2, <5>2, <5>3, <5>5
      <4> QED
        BY <4>1, <4>2
    <3>4. ASSUME NEW x \in (t.result \ t.candidates) \ X
          PROVE  Elements(ns[x].neighbors[layer]) \subseteq t.visited
      <4>1. x \in (st.result \ st.candidates) \ X
        BY <2>6, <3>2, <3>4
      <4> QED
        BY <3>2, <4>1 DEF Explored
    <3>5. Explored(ns, q, start, ef, layer, X, t)
      <4>1. start \in t.visited /\ t.candidates \subseteq t.visited
            /\ t.result \subseteq t.visited /\ t.result # {} /\ Cardinality(t.result) =< ef
        BY <2>6, <3>2 DEF Explored
      <4> HIDE DEF t
      <4> QED
        BY <3>3, <3>4, <4>1 DEF Explored
    <3> QED
      BY <1>4, <3>2, <3>5
  <2>8. CASE ~joins
    <3>1. t = seen
      <4> HIDE DEF t, joins, joined, seen
      <4> QED
        BY <2>1, <2>8
    <3>2. t.candidates = st.candidates /\ t.result = st.result
          /\ t.visited = st.visited \cup {s} /\ t \in States(V)
      <4> HIDE DEF t
      <4> QED
        BY <3>1 DEF States
    <3>3. Cardinality(st.result) = ef /\ \A x \in st.result : d(x) =< d(s)
      <4>1. Cardinality(st.result) = ef
        BY <2>2, <2>5, <2>8
      <4>2. d(Farthest(ns, q, st.result)) =< d(s)
        BY <1>1, <1>2, <2>3, <2>8
      <4>3. ASSUME NEW x \in st.result PROVE d(x) =< d(s)
        <5>1. d(s) \in Int /\ d(x) \in Int /\ d(Farthest(ns, q, st.result)) \in Int
          BY <1>1, <1>2, <2>3
        <5>2. d(x) =< d(Farthest(ns, q, st.result))
          BY <2>3
        <5> HIDE DEF d
        <5> QED
          BY <4>2, <5>1, <5>2
      <4> QED
        BY <4>1, <4>3
    <3>4. Explored(ns, q, start, ef, layer, X, t)
      <4> HIDE DEF t
      <4> QED
        BY <2>5, <3>2, <3>3 DEF Explored
    <3> QED
      BY <1>4, <3>2, <3>4
  <2> QED
    BY <2>7, <2>8
<1> QED
  BY <1>3, <1>4

\* Nodes of a layer that are not left by its edges.
Closed(ns, layer, V) ==
    \A s \in V : layer \in 0..ns[s].top_layer /\ Elements(ns[s].neighbors[layer]) \subseteq V

LEMMA ExpandIs ==
    ASSUME NEW ns \in Seq(Node), NEW q \in Points, NEW start, NEW ef \in Nat \ {0}, NEW layer,
           NEW V \in SUBSET DOMAIN ns, Closed(ns, layer, V), NEW st \in States(V),
           Explored(ns, q, start, ef, layer, {}, st), st.candidates # {}
    PROVE  /\ Expand(ns, q, ef, layer, st) \in States(V)
           /\ Explored(ns, q, start, ef, layer, {}, Expand(ns, q, ef, layer, st))
           /\ \E s \in st.candidates :
                (st.visited \ st.candidates) \cup {s}
                  \subseteq Expand(ns, q, ef, layer, st).visited
                              \ Expand(ns, q, ef, layer, st).candidates
<1> DEFINE s == Closest(ns, q, st.candidates)
           list == ns[s].neighbors[layer]
           n == Len(list)
           first == [st EXCEPT !.candidates = @ \ {s}]
           Rec(f) == [i \in 0..n |-> IF i = 0 THEN first ELSE Visit(ns, q, ef, f[i - 1], list[i])]
           after == CHOOSE f : f = Rec(f)
           Good == [i \in 0..n |->
                      {u \in States(V) :
                         /\ Explored(ns, q, start, ef, layer, {s}, u)
                         /\ \A j \in 1..i : list[j] \in u.visited
                         /\ (st.visited \ st.candidates) \cup {s} \subseteq u.visited \ u.candidates}]
           F == [p \in (1..n) \X States(V) |-> Visit(ns, q, ef, p[2], list[p[1]])]
<1>1. Expand(ns, q, ef, layer, st) = after[n]
  BY DEF Expand
<1>2. st.candidates \in SUBSET V /\ st.result \in SUBSET V /\ st.visited \in SUBSET V
  BY DEF States
<1>3. s \in st.candidates /\ s \in V /\ s \in st.visited
  BY <1>2, ClosestIs DEF Explored
<1>4. list \in Seq(Nat) /\ n \in Nat /\ \A i \in 1..n : list[i] \in V
  <2>1. layer \in 0..ns[s].top_layer /\ Elements(list) \subseteq V
    BY <1>3 DEF Closed
  <2>2. list \in Seq(Nat)
    BY <1>3, <2>1, NodeFacts
  <2> HIDE DEF list
  <2>3. DOMAIN list = 1..Len(list) /\ Len(list) \in Nat
    BY <2>2
  <2> QED
    BY <2>1, <2>2, <2>3 DEF Elements
<1>5. first \in States(V) /\ first.candidates = st.candidates \ {s}
      /\ first.result = st.result /\ first.visited = st.visited
  <2> HIDE DEF s
  <2> QED
    BY <1>2 DEF States
<1> HIDE DEF s, list, first
<1>6. first \in Good[0]
  <2>1. Explored(ns, q, start, ef, layer, {s}, first)
    BY <1>5 DEF Explored
  <2>2. (st.visited \ st.candidates) \cup {s} \subseteq first.visited \ first.candidates
    BY <1>3, <1>5
  <2>3. 0 \in 0..n /\ \A j \in 1..0 : list[j] \in first.visited
    BY <1>4
  <2> QED
    BY <1>5, <2>1, <2>2, <2>3
<1>7. ASSUME NEW i \in 1..n, NEW u \in Good[i - 1] PROVE F[<<i, u>>] \in Good[i]
  <2>1. i - 1 \in 0..n /\ i \in 0..n /\ \A j \in 1..i : j = i \/ j \in 1..(i - 1)
    BY <1>4
  <2>2. /\ u \in States(V) /\ Explored(ns, q, start, ef, layer, {s}, u)
        /\ \A j \in 1..(i - 1) : list[j] \in u.visited
        /\ (st.visited \ st.candidates) \cup {s} \subseteq u.visited \ u.candidates
    BY <2>1
  <2> DEFINE t == Visit(ns, q, ef, u, list[i])
  <2>3. /\ t \in States(V) /\ Explored(ns, q, start, ef, layer, {s}, t)
        /\ t.visited = u.visited \cup {list[i]}
        /\ u.visited \ u.candidates \subseteq t.visited \ t.candidates
    <3> DEFINE y == list[i]
    <3>1. y \in V
      BY <1>4
    <3> HIDE DEF y
    <3>2. /\ t \in States(V) /\ Explored(ns, q, start, ef, layer, {s}, t)
          /\ t.visited = u.visited \cup {y}
          /\ u.visited \ u.candidates \subseteq t.visited \ t.candidates
      <4> SUFFICES /\ Visit(ns, q, ef, u, y) \in States(V)
                   /\ Explored(ns, q, start, ef, layer, {s}, Visit(ns, q, ef, u, y))
                   /\ Visit(ns, q, ef, u, y).visited = u.visited \cup {y}
                   /\ u.visited \ u.candidates
                        \subseteq Visit(ns, q, ef, u, y).visited \ Visit(ns, q, ef, u, y).candidates
        BY DEF y
      <4> HIDE DEF s
      <4> QED
        BY <2>2, <3>1, VisitIs
    <3> QED
      BY <3>2 DEF y
  <2>4. F[<<i, u>>] = t
    BY <2>2
  <2> HIDE DEF t, F
  <2>5. \A j \in 1..i : list[j] \in t.visited
    BY <2>1, <2>2, <2>3
  <2> QED
    BY <2>1, <2>2, <2>3, <2>4, <2>5
<1> HIDE DEF Good, F, n
<1>16. Leads(n, Good, F)
  BY <1>7 DEF Leads
<1>17. n \in Nat
  BY <1>4
<1>18. PICK g : Staged(g, n, Good, first, F)
  BY <1>17, <1>6, <1>16, Stages
<1>8. /\ g = [i \in 0..n |-> g[i]] /\ g[0] = first
      /\ \A i \in 1..n : g[i] = F[<<i, g[i - 1]>>]
      /\ \A i \in 0..n : g[i] \in Good[i]
  BY <1>18 DEF Staged
<1>9. g = Rec(g)
  <2>1. ASSUME NEW i \in 1..n PROVE g[i] = Visit(ns, q, ef, g[i - 1], list[i])
    <3>1. i - 1 \in 0..n
      BY <1>4
    <3>2. g[i - 1] \in States(V)
      BY <1>8, <3>1 DEF Good
    <3> QED
      BY <1>8, <3>2 DEF F
  <2>2. \A i \in 0..n : i = 0 \/ i \in 1..n
    BY <1>4
  <2> QED
    BY <1>8, <2>1, <2>2
<1>10. after = Rec(after)
  BY <1>9
<1> HIDE DEF after
<1>11. after[n] = g[n]
  <2>1. 0 \in 0..n /\ \A i \in 1..n : i \in 0..n /\ i # 0
    BY <1>4
  <2>2. after[0] = first /\ \A i \in 1..n : after[i] = Visit(ns, q, ef, after[i - 1], list[i])
    BY <1>10, <2>1
  <2>3. g[0] = first /\ \A i \in 1..n : g[i] = Visit(ns, q, ef, g[i - 1], list[i])
    BY <1>9, <2>1
  <2>4. \A i \in 1..n : after[i - 1] = g[i - 1] => after[i] = g[i]
    BY <2>2, <2>3
  <2>5. GoAlike(after, g, n)
    BY <2>2, <2>3, <2>4 DEF GoAlike
  <2> QED
    BY <1>17, <2>5, SameEnd
<1>12. n \in 0..n
  BY <1>4
<1> DEFINE u == g[n]
<1>13. /\ u \in States(V) /\ Explored(ns, q, start, ef, layer, {s}, u)
       /\ \A j \in 1..n : list[j] \in u.visited
       /\ (st.visited \ st.candidates) \cup {s} \subseteq u.visited \ u.candidates
  BY <1>8, <1>12 DEF Good
<1>14. Elements(ns[s].neighbors[layer]) \subseteq u.visited
  <2>1. DOMAIN list = 1..n
    BY <1>4 DEF n
  <2>2. Elements(list) \subseteq u.visited
    BY <1>13, <2>1 DEF Elements
  <2> QED
    BY <2>2 DEF list
<1> HIDE DEF u
<1>15. Explored(ns, q, start, ef, layer, {}, u)
  BY <1>13, <1>14 DEF Explored
<1> QED
  BY <1>1, <1>3, <1>11, <1>13, <1>15 DEF u

\* An exploration ends with nothing left to do.
LEMMA SearchLayerIs ==
    ASSUME NEW ns \in Seq(Node), NEW q \in Points, NEW ef \in Nat \ {0}, NEW layer,
           NEW V \in SUBSET DOMAIN ns, Closed(ns, layer, V), NEW start \in V
    PROVE  \E st \in States(V) :
              /\ Explored(ns, q, start, ef, layer, {}, st)
              /\ Finished(ns, q, ef, st)
              /\ search_layer(ns, q, start, ef, layer) = st.result
<1> DEFINE n == Len(ns)
           first == [candidates |-> {start}, result |-> {start}, visited |-> {start}]
           Step(so_far) == IF Finished(ns, q, ef, so_far) THEN so_far
                           ELSE Expand(ns, q, ef, layer, so_far)
           Rec(f) == [i \in 0..n |-> IF i = 0 THEN first ELSE Step(f[i - 1])]
           st == CHOOSE f : f = Rec(f)
           Good == [i \in 0..n |->
                      {u \in States(V) :
                         /\ Explored(ns, q, start, ef, layer, {}, u)
                         /\ \/ Finished(ns, q, ef, u)
                            \/ Cardinality(u.visited \ u.candidates) >= i}]
           F == [p \in (1..n) \X States(V) |-> Step(p[2])]
<1>1. search_layer(ns, q, start, ef, layer) = st[n].result
  BY DEF search_layer
<1>2. n \in Nat /\ DOMAIN ns = 1..n
  OBVIOUS
<1>3. IsFiniteSet(DOMAIN ns) /\ Cardinality(DOMAIN ns) = n
  <2>1. \A k \in Nat : IsFiniteSet(1..k) /\ Cardinality(1..k) = k
    BY FS_Interval
  <2> HIDE DEF n
  <2> QED
    BY <1>2, <2>1
<1>4. \A u \in States(V) : /\ u.visited \ u.candidates \in SUBSET DOMAIN ns
                           /\ IsFiniteSet(u.visited \ u.candidates)
                           /\ Cardinality(u.visited \ u.candidates) \in Nat
  <2> SUFFICES ASSUME NEW u \in States(V)
               PROVE  /\ u.visited \ u.candidates \in SUBSET DOMAIN ns
                      /\ IsFiniteSet(u.visited \ u.candidates)
                      /\ Cardinality(u.visited \ u.candidates) \in Nat
    OBVIOUS
  <2>1. u.visited \ u.candidates \in SUBSET DOMAIN ns
    BY DEF States
  <2> QED
    BY <1>3, <2>1, FS_Subset, FS_CardinalityType
<1> HIDE DEF n
<1>5. first \in Good[0]
  <2>1. first \in States(V)
    BY DEF States
  <2>2. Cardinality(first.result) = 1
    BY FS_Singleton
  <2>3. Explored(ns, q, start, ef, layer, {}, first)
    BY <2>2 DEF Explored
  <2>4. Cardinality(first.visited \ first.candidates) >= 0 /\ 0 \in 0..n
    <3>1. Cardinality(first.visited \ first.candidates) \in Nat
      BY <1>4, <2>1
    <3> HIDE DEF first
    <3> QED
      BY <1>2, <3>1
  <2> HIDE DEF first
  <2> QED
    BY <2>1, <2>3, <2>4
<1>6. ASSUME NEW i \in 1..n, NEW u \in Good[i - 1] PROVE F[<<i, u>>] \in Good[i]
  <2>1. i - 1 \in 0..n /\ i \in 0..n /\ i \in Nat
    BY <1>2
  <2>2. /\ u \in States(V) /\ Explored(ns, q, start, ef, layer, {}, u)
        /\ Finished(ns, q, ef, u) \/ Cardinality(u.visited \ u.candidates) >= i - 1
    BY <2>1
  <2>3. F[<<i, u>>] = Step(u)
    <3> HIDE DEF Step
    <3> QED
      BY <2>2
  <2> HIDE DEF F
  <2>4. CASE Finished(ns, q, ef, u)
    BY <2>1, <2>2, <2>3, <2>4
  <2>5. CASE ~Finished(ns, q, ef, u)
    <3> DEFINE t == Expand(ns, q, ef, layer, u)
    <3>1. u.candidates # {}
      BY <2>5 DEF Finished
    <3>2. PICK s \in u.candidates :
             /\ t \in States(V) /\ Explored(ns, q, start, ef, layer, {}, t)
             /\ (u.visited \ u.candidates) \cup {s} \subseteq t.visited \ t.candidates
      BY <2>2, <3>1, ExpandIs
    <3>3. F[<<i, u>>] = t
      BY <2>3, <2>5
    <3> HIDE DEF t
    <3> DEFINE done == u.visited \ u.candidates
    <3>4. IsFiniteSet(done) /\ Cardinality(done) \in Nat /\ Cardinality(done) >= i - 1 /\ s \notin done
      BY <1>4, <2>2, <2>5
    <3>5. IsFiniteSet(done \cup {s}) /\ Cardinality(done \cup {s}) = Cardinality(done) + 1
      <4> HIDE DEF done
      <4> QED
        BY <3>4, FS_AddElement
    <3>6. Cardinality(done \cup {s}) =< Cardinality(t.visited \ t.candidates)
      BY <1>4, <3>2, FS_Subset
    <3>7. Cardinality(t.visited \ t.candidates) \in Nat
      BY <1>4, <3>2
    <3>8. Cardinality(t.visited \ t.candidates) >= i
      <4> HIDE DEF done
      <4> QED
        BY <2>1, <3>4, <3>5, <3>6, <3>7
    <3> QED
      BY <2>1, <3>2, <3>3, <3>8
  <2> QED
    BY <2>4, <2>5
<1> HIDE DEF Good, F, Step, first
<1>13. Leads(n, Good, F)
  BY <1>6 DEF Leads
<1>17. n \in Nat
  BY <1>2
<1>18. PICK g : Staged(g, n, Good, first, F)
  BY <1>17, <1>5, <1>13, Stages
<1>7. /\ g = [i \in 0..n |-> g[i]] /\ g[0] = first
      /\ \A i \in 1..n : g[i] = F[<<i, g[i - 1]>>]
      /\ \A i \in 0..n : g[i] \in Good[i]
  BY <1>18 DEF Staged
<1>8. g = Rec(g)
  <2>1. ASSUME NEW i \in 1..n PROVE g[i] = Step(g[i - 1])
    <3>1. i - 1 \in 0..n
      BY <1>2
    <3>2. g[i - 1] \in States(V)
      BY <1>7, <3>1 DEF Good
    <3> QED
      BY <1>7, <3>2 DEF F
  <2>2. \A i \in 0..n : i = 0 \/ i \in 1..n
    BY <1>2
  <2> QED
    BY <1>7, <2>1, <2>2
<1>9. st = Rec(st)
  BY <1>8
<1> HIDE DEF st
<1>10. st[n] = g[n]
  <2>1. 0 \in 0..n /\ \A i \in 1..n : i \in 0..n /\ i # 0
    BY <1>2
  <2>2. st[0] = first /\ \A i \in 1..n : st[i] = Step(st[i - 1])
    BY <1>9, <2>1
  <2>3. g[0] = first /\ \A i \in 1..n : g[i] = Step(g[i - 1])
    BY <1>8, <2>1
  <2>4. \A i \in 1..n : st[i - 1] = g[i - 1] => st[i] = g[i]
    BY <2>2, <2>3
  <2>5. GoAlike(st, g, n)
    BY <2>2, <2>3, <2>4 DEF GoAlike
  <2> QED
    BY <1>17, <2>5, SameEnd
<1> DEFINE u == g[n]
<1>11. /\ u \in States(V) /\ Explored(ns, q, start, ef, layer, {}, u)
       /\ Finished(ns, q, ef, u) \/ Cardinality(u.visited \ u.candidates) >= n
  <2>1. n \in 0..n
    BY <1>2
  <2> QED
    BY <1>7, <2>1 DEF Good
<1> HIDE DEF u
<1>12. Finished(ns, q, ef, u)
  <2> SUFFICES ASSUME Cardinality(u.visited \ u.candidates) >= n PROVE u.candidates = {}
    BY <1>11 DEF Finished
  <2>1. /\ Cardinality(u.visited \ u.candidates) =< n
        /\ Cardinality(u.visited \ u.candidates) = n => u.visited \ u.candidates = DOMAIN ns
    BY <1>3, <1>4, <1>11, FS_Subset
  <2>2. u.visited \ u.candidates = DOMAIN ns
    <3>1. Cardinality(u.visited \ u.candidates) \in Nat
      BY <1>4, <1>11
    <3> QED
      BY <1>2, <2>1, <3>1
  <2>3. u.candidates \in SUBSET DOMAIN ns
    BY <1>11 DEF States
  <2> QED
    BY <2>2, <2>3
<1> QED
  BY <1>1, <1>10, <1>11, <1>12 DEF u

-----------------------------------------------------------------------------
(* Neighbour lists                                                          *)

\* The heuristic selects some of the nodes, no more than the limit, and the nearest.
LEMMA SelectionIs ==
    ASSUME NEW ns \in Seq(Node), NEW base \in Points, NEW S \in SUBSET DOMAIN ns,
           NEW limit \in Nat
    PROVE  LET o == select_neighbors_heuristic(ns, base, S, limit)
           IN  /\ o \in Seq(S) /\ NoRepeats(o) /\ Len(o) =< limit
               /\ S # {} /\ limit > 0 => Len(o) > 0
<1> DEFINE R == CloserOrder(ns, base, S)
           order == NearestFirst(ns, base, S)
           n == Len(order)
           Step(kept, e) ==
             IF /\ Len(kept) < limit
                /\ \A r \in Elements(kept) :
                      node_distance(ns, e, r) > distance_to(ns, base, e)
             THEN Append(kept, e) ELSE kept
           Rec(f) == [i \in 0..n |-> IF i = 0 THEN << >> ELSE Step(f[i - 1], order[i])]
           after == CHOOSE f : f = Rec(f)
           Good == [i \in 0..n |->
                      {u \in Seq(S) : /\ NoRepeats(u) /\ Len(u) =< limit
                                      /\ i > 0 /\ limit > 0 => Len(u) > 0
                                      /\ \A x \in Elements(u) : \E j \in 1..i : x = order[j]}]
           F == [p \in (1..n) \X Seq(S) |-> Step(p[2], order[p[1]])]
<1>1. select_neighbors_heuristic(ns, base, S, limit) = after[n]
  BY DEF select_neighbors_heuristic
<1>2. IsFiniteSet(S) /\ StrictOrder(S, R)
  BY CloserIsOrder
<1>3. order = Sorted(S, R)
  BY DEF NearestFirst, CloserOrder
<1> HIDE DEF R
<1>4. Sorts(order, S, R)
  BY <1>2, <1>3, SortedIs
<1> HIDE DEF order
<1>5. /\ order \in Seq(S) /\ n \in Nat
      /\ \A i, j \in 1..n : order[i] = order[j] => i = j
      /\ \A i \in 1..n : order[i] \in S
      /\ S # {} => n > 0
  <2>1. /\ order \in Seq(S) /\ n = Cardinality(S)
        /\ \A i, j \in 1..Cardinality(S) : order[i] = order[j] => i = j
    BY <1>2, <1>4, SortedOnce
  <2>2. S # {} => Cardinality(S) # 0
    BY <1>2, FS_EmptySet
  <2> QED
    BY <2>1, <2>2
<1> HIDE DEF n
<1>6. << >> \in Good[0]
  <2>1. << >> \in Seq(S) /\ NoRepeats(<< >>) /\ Len(<< >>) =< limit /\ Elements(<< >>) = {}
    BY DEF NoRepeats, Elements
  <2>2. 0 \in 0..n /\ ~(0 > 0)
    BY <1>5
  <2> QED
    BY <2>1, <2>2
<1>7. ASSUME NEW i \in 1..n, NEW u \in Good[i - 1] PROVE F[<<i, u>>] \in Good[i]
  <2>1. i - 1 \in 0..n /\ i \in 0..n /\ i \in 1..i /\ \A j \in 1..(i - 1) : j \in 1..i /\ j \in 1..n /\ j # i
    BY <1>5
  <2>2. /\ u \in Seq(S) /\ NoRepeats(u) /\ Len(u) =< limit
        /\ i - 1 > 0 /\ limit > 0 => Len(u) > 0
        /\ \A x \in Elements(u) : \E j \in 1..(i - 1) : x = order[j]
    BY <2>1
  <2>3. F[<<i, u>>] = Step(u, order[i])
    <3> HIDE DEF Step
    <3> QED
      BY <2>2
  <2> HIDE DEF F
  <2>4. CASE F[<<i, u>>] = u
    <3>1. ASSUME i = 1, limit > 0, Len(u) = 0 PROVE FALSE
      <4>1. u = << >> /\ Elements(u) = {}
        BY <2>2, <3>1 DEF Elements
      <4>2. F[<<i, u>>] = Append(u, order[i])
        BY <2>3, <3>1, <4>1
      <4>3. Len(Append(u, order[i])) = 1
        BY <4>1
      <4> QED
        BY <2>4, <3>1, <4>2, <4>3
    <3>2. limit > 0 => Len(u) > 0
      <4>1. Len(u) \in Nat /\ i \in Nat /\ (i = 1 \/ i - 1 > 0)
        BY <2>1, <2>2
      <4> QED
        BY <2>2, <3>1, <4>1
    <3> QED
      BY <2>1, <2>2, <2>4, <3>2
  <2>5. CASE F[<<i, u>>] = Append(u, order[i]) /\ Len(u) < limit
    <3> DEFINE w == Append(u, order[i])
    <3>1. order[i] \notin Elements(u) /\ order[i] \in S
      BY <1>5, <2>1, <2>2
    <3>2. /\ w \in Seq(S) /\ NoRepeats(w) /\ Elements(w) = Elements(u) \cup {order[i]}
          /\ Len(w) = Len(u) + 1
      BY <2>2, <3>1, AppendNew
    <3>3. Len(w) =< limit /\ Len(w) > 0
      <4>1. Len(u) \in Nat
        BY <2>2
      <4> QED
        BY <2>5, <3>2, <4>1
    <3>4. F[<<i, u>>] = w
      BY <2>5
    <3> HIDE DEF w
    <3>5. \A x \in Elements(w) : \E j \in 1..i : x = order[j]
      BY <2>1, <2>2, <3>2
    <3> QED
      BY <2>1, <3>2, <3>3, <3>4, <3>5
  <2> QED
    BY <2>3, <2>4, <2>5
<1> HIDE DEF Good, F, Step
<1>8. PICK g : Staged(g, n, Good, << >>, F)
  <2>1. Leads(n, Good, F)
    BY <1>7 DEF Leads
  <2> QED
    BY <1>5, <1>6, <2>1, Stages
<1>9. /\ g = [i \in 0..n |-> g[i]] /\ g[0] = << >>
      /\ \A i \in 1..n : g[i] = Step(g[i - 1], order[i])
  <2>1. ASSUME NEW i \in 1..n PROVE g[i] = Step(g[i - 1], order[i])
    <3>1. i - 1 \in 0..n
      BY <1>5
    <3>2. g[i - 1] \in Seq(S)
      BY <1>8, <3>1 DEF Staged, Good
    <3> QED
      BY <1>8, <3>2 DEF Staged, F
  <2> QED
    BY <1>8, <2>1 DEF Staged
<1>10. \A i \in 0..n : i = 0 \/ i \in 1..n
  BY <1>5
<1>11. g = Rec(g)
  BY <1>9, <1>10
<1>12. after = Rec(after)
  BY <1>11
<1> HIDE DEF after
<1>13. after[n] = g[n]
  <2>1. 0 \in 0..n /\ \A i \in 1..n : i \in 0..n /\ i # 0
    BY <1>5
  <2>2. after[0] = << >> /\ \A i \in 1..n : after[i] = Step(after[i - 1], order[i])
    BY <1>12, <2>1
  <2>3. GoAlike(after, g, n)
    BY <1>9, <2>2 DEF GoAlike
  <2> QED
    BY <1>5, <2>3, SameEnd
<1>14. g[n] \in Good[n] /\ n \in 0..n
  BY <1>5, <1>8 DEF Staged
<1> QED
  BY <1>1, <1>5, <1>13, <1>14 DEF Good

-----------------------------------------------------------------------------
(* Connecting a node                                                        *)

LEMMA CapIs ==
    ASSUME NEW layer
    PROVE  /\ max_neighbors_upper \in Nat /\ max_neighbors_for_layer(layer) \in Nat
           /\ max_neighbors_for_layer(layer)
                =< (IF layer = 0 THEN 2 * max_neighbors_upper ELSE max_neighbors_upper)
<1>1. max_neighbors_upper \in Nat
  BY ParamAssumption DEF max_neighbors_upper, AtLeast
<1> DEFINE d == 2 * max_neighbors_upper
<1>2. d \in Nat /\ UintMod \in Nat \ {0}
  BY <1>1, ParamAssumption
<1> HIDE DEF d
<1>3. d % UintMod \in Nat /\ d % UintMod =< d
  BY <1>2
<1> QED
  BY <1>1, <1>3 DEF max_neighbors_for_layer, d

OnLayer(ns, layer) == {s \in DOMAIN ns : layer \in 0..ns[s].top_layer}

\* A list leads to other nodes of its layer, to each once, and is not too long.
LinksOf(ns, s, layer, list) ==
    /\ Elements(list) \subseteq OnLayer(ns, layer) \ {s}
    /\ NoRepeats(list)
    /\ Len(list) =< max_neighbors_for_layer(layer)

Linked(ns) ==
    \A s \in DOMAIN ns : \A layer \in 0..ns[s].top_layer :
        LinksOf(ns, s, layer, ns[s].neighbors[layer])

SameButLinks(n, w) ==
    w.id = n.id /\ w.vector = n.vector /\ w.top_layer = n.top_layer /\ w.deleted = n.deleted

\* ms is ns with the node connected on the layers from `layer' up.
Grown(ns, ms, node, layer) ==
    /\ ms \in Seq(Node) /\ Len(ms) = Len(ns) /\ DOMAIN ms = DOMAIN ns
    /\ \A s \in DOMAIN ns : SameButLinks(ns[s], ms[s])
    /\ \A s \in DOMAIN ns : \A l \in 0..ns[s].top_layer :
          \/ ms[s].neighbors[l] = ns[s].neighbors[l]
          \/ /\ layer =< l
             /\ \/ s = node
                \/ /\ l \in 0..ns[node].top_layer
                   /\ s \in Elements(ms[node].neighbors[l])
                   /\ Elements(ms[s].neighbors[l])
                        \subseteq Elements(ns[s].neighbors[l]) \cup {node}

\* Nothing leads to the node yet, nor from it.
Unlinked(ns, node) ==
    /\ \A s \in DOMAIN ns : \A l \in 0..ns[s].top_layer : node \notin Elements(ns[s].neighbors[l])
    /\ \A l \in 0..ns[node].top_layer : ns[node].neighbors[l] = << >>

WithLinks(n, layer, list) == [n EXCEPT !.neighbors[layer] = list]

LEMMA NodeLinks ==
    ASSUME NEW n \in Node, NEW layer \in 0..n.top_layer, NEW list \in Seq(Nat)
    PROVE  /\ WithLinks(n, layer, list) \in Node /\ SameButLinks(n, WithLinks(n, layer, list))
           /\ WithLinks(n, layer, list).neighbors[layer] = list
           /\ \A l \in 0..n.top_layer :
                 l # layer => WithLinks(n, layer, list).neighbors[l] = n.neighbors[l]
<1> DEFINE w == WithLinks(n, layer, list)
<1>1. PICK t \in 0..MaxLevel : n \in [id: Ids, vector: Points, top_layer: {t}, deleted: BOOLEAN,
                                      neighbors: [0..t -> Seq(Nat)]]
  BY DEF Node
<1>2. n.top_layer = t /\ n.neighbors \in [0..t -> Seq(Nat)]
  BY <1>1
<1> DEFINE nb == [n.neighbors EXCEPT ![layer] = list]
<1>3. nb \in [0..t -> Seq(Nat)] /\ nb[layer] = list
      /\ \A l \in 0..n.top_layer : l # layer => nb[l] = n.neighbors[l]
  BY <1>2
<1>4. w = [n EXCEPT !.neighbors = nb]
  BY <1>1 DEF WithLinks
<1> HIDE DEF nb, w
<1>5. w \in [id: Ids, vector: Points, top_layer: {t}, deleted: BOOLEAN,
             neighbors: [0..t -> Seq(Nat)]] /\ w.neighbors = nb
  BY <1>1, <1>3, <1>4
<1>6. SameButLinks(n, w)
  BY <1>1, <1>4 DEF SameButLinks
<1>7. w \in Node
  BY <1>5 DEF Node
<1> QED
  BY <1>3, <1>5, <1>6, <1>7 DEF w

\* A list of nodes that overflows keeps some of them, no more than the limit.
LEMMA TrimIs ==
    ASSUME NEW ns \in Seq(Node), NEW s \in DOMAIN ns, NEW layer,
           NEW list \in Seq(DOMAIN ns), NoRepeats(list)
    PROVE  LET o == Trimmed(ns, s, list, layer)
           IN  /\ o \in Seq(DOMAIN ns) /\ NoRepeats(o) /\ Elements(o) \subseteq Elements(list)
               /\ Len(o) =< max_neighbors_for_layer(layer)
<1> DEFINE cap == max_neighbors_for_layer(layer)
           o == Trimmed(ns, s, list, layer)
           S == Elements(list)
           sel == select_neighbors_heuristic(ns, ns[s].vector, S, cap)
<1>1. cap \in Nat
  BY CapIs
<1>2. o = IF Len(list) > cap THEN sel ELSE list
  BY DEF Trimmed
<1>3. S \in SUBSET DOMAIN ns /\ ns[s].vector \in Points
  BY NodeFacts DEF Elements
<1> HIDE DEF cap, S, o
<1>4. sel \in Seq(S) /\ NoRepeats(sel) /\ Len(sel) =< cap
  BY <1>1, <1>3, SelectionIs
<1> HIDE DEF sel
<1>5. sel \in Seq(DOMAIN ns) /\ Elements(sel) \subseteq S
  BY <1>3, <1>4 DEF Elements
<1>6. Len(list) \in Nat
  OBVIOUS
<1> QED
  BY <1>1, <1>2, <1>4, <1>5, <1>6 DEF o, cap, S

LEMMA ListOf ==
    ASSUME NEW ns \in Seq(Node), Linked(ns), NEW s \in DOMAIN ns, NEW l \in 0..ns[s].top_layer
    PROVE  /\ ns[s].neighbors[l] \in Seq(DOMAIN ns) /\ ns[s].neighbors[l] \in Seq(Nat)
           /\ NoRepeats(ns[s].neighbors[l]) /\ s \notin Elements(ns[s].neighbors[l])
           /\ Elements(ns[s].neighbors[l]) \subseteq OnLayer(ns, l)
           /\ LinksOf(ns, s, l, ns[s].neighbors[l])
<1> DEFINE list == ns[s].neighbors[l]
<1>1. list \in Seq(Nat)
  BY NodeFacts
<1>2. LinksOf(ns, s, l, list)
  BY DEF Linked
<1>3. Elements(list) \subseteq DOMAIN ns
  BY <1>2 DEF LinksOf, OnLayer
<1> HIDE DEF list
<1>4. Len(list) \in Nat /\ DOMAIN list = 1..Len(list) /\ list = [i \in 1..Len(list) |-> list[i]]
  BY <1>1
<1>5. \A i \in 1..Len(list) : list[i] \in DOMAIN ns
  BY <1>3, <1>4 DEF Elements
<1>6. list \in Seq(DOMAIN ns)
  BY <1>4, <1>5, SeqByParts
<1> QED
  BY <1>1, <1>2, <1>6 DEF LinksOf, list

LEMMA ConnectIs ==
    ASSUME NEW ns \in Seq(Node), NEW node \in DOMAIN ns, Unlinked(ns, node),
           NEW layer \in 0..ns[node].top_layer,
           NEW ms, Grown(ns, ms, node, layer + 1), Linked(ms),
           NEW found \in SUBSET (OnLayer(ns, layer) \ {node})
    PROVE  LET gs == connect_node(ms, node, found, layer)
           IN  Grown(ns, gs, node, layer) /\ Linked(gs)
<1> DEFINE gs == connect_node(ms, node, found, layer)
           cap == max_neighbors_for_layer(layer)
           sel == select_neighbors_heuristic(ms, ms[node].vector, found, cap)
           trim(s) == Trimmed(ms, s, Append(ms[s].neighbors[layer], node), layer)
<1>1. /\ ms \in Seq(Node) /\ Len(ms) = Len(ns) /\ DOMAIN ms = DOMAIN ns
      /\ \A s \in DOMAIN ns : SameButLinks(ns[s], ms[s])
      /\ \A s \in DOMAIN ns : ms[s].top_layer = ns[s].top_layer
  BY DEF Grown, SameButLinks
<1>2. gs = [s \in DOMAIN ms |->
              IF s = node THEN WithLinks(ms[s], layer, sel)
              ELSE IF s \in Elements(sel) THEN WithLinks(ms[s], layer, trim(s))
              ELSE ms[s]]
  <2>1. \A s \in DOMAIN ms : [ms[s] EXCEPT !.neighbors[layer] =
                                 Trimmed(ms, s, Append(@, node), layer)]
                             = WithLinks(ms[s], layer, trim(s))
    BY DEF WithLinks
  <2> QED
    BY <2>1 DEF connect_node, WithLinks
<1>3. cap \in Nat
  BY CapIs
<1>4. layer \in Nat /\ \A s \in DOMAIN ns : ns[s].top_layer \in Nat /\ ms[s] \in Node
  <2>1. ns[node].top_layer \in Nat
    BY NodeFacts
  <2> QED
    BY <1>1, <2>1, NodeFacts
<1>5. sel \in Seq(found) /\ NoRepeats(sel) /\ Len(sel) =< cap /\ Elements(sel) \subseteq found
  <2>1. found \in SUBSET DOMAIN ms /\ ms[node].vector \in Points
    BY <1>1, NodeFacts DEF OnLayer
  <2> HIDE DEF cap
  <2>2. sel \in Seq(found) /\ NoRepeats(sel) /\ Len(sel) =< cap
    BY <1>1, <1>3, <2>1, SelectionIs
  <2> QED
    BY <2>2 DEF Elements
<1>6. /\ found \subseteq DOMAIN ns /\ node \notin found
      /\ \A s \in found : layer \in 0..ms[s].top_layer
  BY <1>1 DEF OnLayer
<1>7. sel \in Seq(Nat)
  <2>1. found \subseteq Nat
    BY <1>6
  <2> HIDE DEF sel
  <2> QED
    BY <1>5, <2>1, SeqOfMore
<1> HIDE DEF gs, cap, sel
\* The lists of this layer as they were before.
<1>8. ASSUME NEW s \in DOMAIN ns, layer \in 0..ns[s].top_layer
      PROVE  ms[s].neighbors[layer] = ns[s].neighbors[layer]
  BY <1>4, <1>8 DEF Grown
<1>9. ASSUME NEW s \in Elements(sel)
      PROVE  /\ trim(s) \in Seq(DOMAIN ns) /\ NoRepeats(trim(s)) /\ Len(trim(s)) =< cap
             /\ Elements(trim(s)) \subseteq Elements(ms[s].neighbors[layer]) \cup {node}
  <2> DEFINE list == ms[s].neighbors[layer]
             w == Append(list, node)
  <2>1. s \in found /\ s \in DOMAIN ns /\ layer \in 0..ms[s].top_layer /\ layer \in 0..ns[s].top_layer
    BY <1>1, <1>5, <1>6
  <2>2. node \notin Elements(list)
    BY <1>8, <2>1 DEF Unlinked
  <2>3. list \in Seq(DOMAIN ns) /\ NoRepeats(list)
    BY <1>1, <2>1, ListOf
  <2> HIDE DEF list
  <2>4. w \in Seq(DOMAIN ns) /\ NoRepeats(w) /\ Elements(w) = Elements(list) \cup {node}
    BY <2>2, <2>3, AppendNew
  <2> HIDE DEF w
  <2>5. LET o == Trimmed(ms, s, w, layer)
        IN  /\ o \in Seq(DOMAIN ms) /\ NoRepeats(o) /\ Elements(o) \subseteq Elements(w)
            /\ Len(o) =< max_neighbors_for_layer(layer)
    BY <1>1, <2>1, <2>4, TrimIs
  <2> QED
    BY <1>1, <2>4, <2>5 DEF cap, list, w
<1> HIDE DEF trim
\* The nodes, one by one.
<1>10. ASSUME NEW s \in DOMAIN ns
       PROVE  /\ gs[s] \in Node /\ SameButLinks(ms[s], gs[s])
              /\ \A l \in 0..ns[s].top_layer : l # layer => gs[s].neighbors[l] = ms[s].neighbors[l]
              /\ s = node => gs[s].neighbors[layer] = sel
              /\ s \in Elements(sel) => s # node /\ gs[s].neighbors[layer] = trim(s)
              /\ s # node /\ s \notin Elements(sel) => gs[s] = ms[s]
  <2>1. CASE s = node
    <3>1. gs[s] = WithLinks(ms[s], layer, sel)
      BY <1>1, <1>2, <2>1
    <3>2. layer \in 0..ms[s].top_layer
      BY <1>1, <2>1
    <3>3. s \notin Elements(sel)
      BY <1>5, <1>6, <2>1
    <3>4. /\ gs[s] \in Node /\ SameButLinks(ms[s], gs[s]) /\ gs[s].neighbors[layer] = sel
          /\ \A l \in 0..ms[s].top_layer : l # layer => gs[s].neighbors[l] = ms[s].neighbors[l]
      BY <1>4, <1>7, <3>1, <3>2, NodeLinks
    <3> QED
      BY <1>1, <2>1, <3>3, <3>4
  <2>2. CASE s # node /\ s \in Elements(sel)
    <3>1. gs[s] = WithLinks(ms[s], layer, trim(s))
      BY <1>1, <1>2, <2>2
    <3>2. layer \in 0..ms[s].top_layer
      BY <1>5, <1>6, <2>2
    <3>3. trim(s) \in Seq(Nat)
      BY <1>9, <2>2
    <3>4. /\ gs[s] \in Node /\ SameButLinks(ms[s], gs[s]) /\ gs[s].neighbors[layer] = trim(s)
          /\ \A l \in 0..ms[s].top_layer : l # layer => gs[s].neighbors[l] = ms[s].neighbors[l]
      BY <1>4, <3>1, <3>2, <3>3, NodeLinks
    <3> QED
      BY <1>1, <2>2, <3>4
  <2>3. CASE s # node /\ s \notin Elements(sel)
    <3>1. gs[s] = ms[s]
      BY <1>1, <1>2, <2>3
    <3> QED
      BY <1>4, <2>3, <3>1 DEF SameButLinks
  <2> QED
    BY <2>1, <2>2, <2>3
<1>11. gs \in Seq(Node) /\ Len(gs) = Len(ns) /\ DOMAIN gs = DOMAIN ns
  <2>1. Len(ns) \in Nat /\ DOMAIN ns = 1..Len(ns)
    OBVIOUS
  <2>2. gs = [i \in 1..Len(ns) |-> gs[i]] /\ DOMAIN gs = 1..Len(ns)
    BY <1>1, <1>2, <2>1
  <2> QED
    BY <1>10, <2>1, <2>2, SeqByParts
<1>12. ASSUME NEW s \in DOMAIN ns PROVE SameButLinks(ns[s], gs[s])
  BY <1>1, <1>10 DEF SameButLinks
<1>13. \A l : OnLayer(gs, l) = OnLayer(ms, l)
  BY <1>1, <1>10, <1>11 DEF OnLayer, SameButLinks
<1>14. \A s \in DOMAIN ns : gs[s].top_layer = ns[s].top_layer
  BY <1>12 DEF SameButLinks
<1>15. ASSUME NEW s \in DOMAIN ns, NEW l \in 0..ns[s].top_layer
       PROVE  LinksOf(gs, s, l, gs[s].neighbors[l])
  <2>1. LinksOf(ms, s, l, ms[s].neighbors[l])
    BY <1>1, <1>15 DEF Linked
  <2>2. CASE l # layer
    BY <1>10, <1>13, <2>1, <2>2 DEF LinksOf
  <2>3. CASE l = layer
    <3>1. CASE s = node
      <4>1. Elements(sel) \subseteq OnLayer(ms, layer) \ {node}
        BY <1>1, <1>5, <1>6 DEF OnLayer
      <4> QED
        BY <1>5, <1>10, <1>13, <2>3, <3>1, <4>1 DEF LinksOf, cap
    <3>2. CASE s # node /\ s \in Elements(sel)
      <4>1. node \in OnLayer(ms, layer)
        BY <1>1 DEF OnLayer
      <4>2. gs[s].neighbors[layer] = trim(s)
        BY <1>10, <3>2
      <4>3. Elements(trim(s)) \subseteq OnLayer(gs, layer) \ {s}
        BY <1>9, <1>13, <2>1, <2>3, <3>2, <4>1 DEF LinksOf
      <4> QED
        BY <1>9, <2>3, <3>2, <4>2, <4>3 DEF LinksOf, cap
    <3>3. CASE s # node /\ s \notin Elements(sel)
      BY <1>10, <1>13, <2>1, <3>3 DEF LinksOf
    <3> QED
      BY <3>1, <3>2, <3>3
  <2> QED
    BY <2>2, <2>3
<1>16. Linked(gs)
  BY <1>11, <1>14, <1>15 DEF Linked
<1>17. ASSUME NEW s \in DOMAIN ns, NEW l \in 0..ns[s].top_layer
       PROVE  \/ gs[s].neighbors[l] = ns[s].neighbors[l]
              \/ /\ layer =< l
                 /\ \/ s = node
                    \/ /\ l \in 0..ns[node].top_layer
                       /\ s \in Elements(gs[node].neighbors[l])
                       /\ Elements(gs[s].neighbors[l])
                            \subseteq Elements(ns[s].neighbors[l]) \cup {node}
  <2>1. CASE l # layer
    <3>1. gs[s].neighbors[l] = ms[s].neighbors[l]
          /\ (l \in 0..ns[node].top_layer => gs[node].neighbors[l] = ms[node].neighbors[l])
      BY <1>10, <2>1
    <3>2. layer + 1 =< l => layer =< l
      BY <1>4
    <3> QED
      BY <3>1, <3>2 DEF Grown
  <2>2. CASE l = layer
    <3>1. layer =< l /\ layer \in 0..ns[node].top_layer /\ gs[node].neighbors[layer] = sel
      BY <1>4, <1>10, <2>2
    <3>2. ms[s].neighbors[layer] = ns[s].neighbors[layer]
      BY <1>8, <2>2
    <3>3. s \in Elements(sel) => Elements(gs[s].neighbors[layer])
                                    \subseteq Elements(ns[s].neighbors[layer]) \cup {node}
      BY <1>9, <1>10, <3>2
    <3> QED
      BY <1>10, <2>2, <3>1, <3>2, <3>3
  <2> QED
    BY <2>1, <2>2
<1>18. Grown(ns, gs, node, layer)
  BY <1>11, <1>12, <1>17 DEF Grown
<1> QED
  BY <1>16, <1>18 DEF gs

\* ms is ns with the node tied to the rest on layer 0: while no list there can
\* overflow, no edge is lost, and some node is both reached from it and reaches it.
Tied(ns, ms, node) ==
    Len(ns) =< max_neighbors_for_layer(0) + 1 =>
        /\ \A s \in DOMAIN ns \ {node} :
              Elements(ns[s].neighbors[0]) \subseteq Elements(ms[s].neighbors[0])
        /\ \E x \in DOMAIN ns \ {node} :
              x \in Elements(ms[node].neighbors[0]) /\ node \in Elements(ms[x].neighbors[0])

LEMMA TiedIs ==
    ASSUME NEW ns \in Seq(Node), NEW node \in DOMAIN ns, Unlinked(ns, node),
           NEW ms, Grown(ns, ms, node, 1), Linked(ms),
           NEW found \in SUBSET (OnLayer(ns, 0) \ {node}), found # {}
    PROVE  Tied(ns, connect_node(ms, node, found, 0), node)
<1> SUFFICES ASSUME Len(ns) =< max_neighbors_for_layer(0) + 1
             PROVE  LET gs == connect_node(ms, node, found, 0)
                    IN  /\ \A s \in DOMAIN ns \ {node} :
                              Elements(ns[s].neighbors[0]) \subseteq Elements(gs[s].neighbors[0])
                        /\ \E x \in DOMAIN ns \ {node} :
                              /\ x \in Elements(gs[node].neighbors[0])
                              /\ node \in Elements(gs[x].neighbors[0])
  BY DEF Tied
<1> DEFINE gs == connect_node(ms, node, found, 0)
           cap == max_neighbors_for_layer(0)
           sel == select_neighbors_heuristic(ms, ms[node].vector, found, cap)
<1>1. /\ ms \in Seq(Node) /\ Len(ms) = Len(ns) /\ DOMAIN ms = DOMAIN ns
      /\ Len(ns) \in Nat /\ DOMAIN ns = 1..Len(ns)
  BY DEF Grown
<1>2. gs = [s \in DOMAIN ms |->
              IF s = node THEN WithLinks(ms[s], 0, sel)
              ELSE IF s \in Elements(sel)
              THEN WithLinks(ms[s], 0, Trimmed(ms, s, Append(ms[s].neighbors[0], node), 0))
              ELSE ms[s]]
  <2>1. \A s \in DOMAIN ms : [ms[s] EXCEPT !.neighbors[0] = Trimmed(ms, s, Append(@, node), 0)]
                             = WithLinks(ms[s], 0, Trimmed(ms, s, Append(ms[s].neighbors[0], node), 0))
    BY DEF WithLinks
  <2> QED
    BY <2>1 DEF connect_node, WithLinks
<1>3. cap \in Nat /\ cap > 0
  <2>1. cap \in Nat
    BY CapIs
  <2>2. PICK x \in found : x \in DOMAIN ns /\ x # node
    BY DEF OnLayer
  <2> HIDE DEF cap
  <2>3. Len(ns) > 1
    BY <1>1, <2>2
  <2> QED
    BY <1>1, <2>1, <2>3 DEF cap
<1>4. /\ found \subseteq DOMAIN ns /\ node \notin found
      /\ \A s \in DOMAIN ns : 0 \in 0..ms[s].top_layer /\ 0 \in 0..ns[s].top_layer /\ ms[s] \in Node
  <2>1. \A s \in DOMAIN ns : /\ ns[s].top_layer \in Nat /\ ms[s].top_layer \in Nat
                             /\ ms[s] \in Node
    BY <1>1, NodeFacts
  <2> QED
    BY <2>1 DEF OnLayer
<1>5. sel \in Seq(found) /\ Len(sel) > 0 /\ Elements(sel) \subseteq found
  <2>1. found \in SUBSET DOMAIN ms /\ ms[node].vector \in Points
    BY <1>1, <1>4, NodeFacts
  <2> HIDE DEF cap
  <2>2. sel \in Seq(found) /\ Len(sel) > 0
    BY <1>1, <1>3, <2>1, SelectionIs
  <2> QED
    BY <2>2 DEF Elements
<1>6. sel \in Seq(Nat)
  <2>1. found \subseteq Nat
    BY <1>1, <1>4
  <2> HIDE DEF sel
  <2> QED
    BY <1>5, <2>1, SeqOfMore
<1>7. \A s \in DOMAIN ns : ms[s].neighbors[0] = ns[s].neighbors[0]
  BY <1>4 DEF Grown
<1> HIDE DEF gs, sel, cap
\* No list overflows: it leads to other nodes, to each once.
<1>8. ASSUME NEW s \in Elements(sel)
      PROVE  Elements(gs[s].neighbors[0]) = Elements(ns[s].neighbors[0]) \cup {node}
  <2> DEFINE list == ms[s].neighbors[0]
             w == Append(list, node)
             others == DOMAIN ns \ {s}
  <2>1. s \in DOMAIN ns /\ s # node
    BY <1>4, <1>5
  <2>2. node \notin Elements(list) /\ list = ns[s].neighbors[0]
    BY <1>4, <1>7, <2>1 DEF Unlinked
  <2>3. /\ list \in Seq(DOMAIN ns) /\ list \in Seq(Nat) /\ NoRepeats(list)
        /\ s \notin Elements(list) /\ Elements(list) \subseteq DOMAIN ns
    BY <1>1, <1>4, <2>1, ListOf DEF OnLayer
  <2> HIDE DEF list
  <2>4. /\ w \in Seq(DOMAIN ns) /\ NoRepeats(w) /\ Elements(w) = Elements(list) \cup {node}
    BY <2>2, <2>3, AppendNew
  <2> HIDE DEF w
  <2>5. Len(w) = Cardinality(Elements(w)) /\ Elements(w) \subseteq others /\ Len(w) \in Nat
    <3> DEFINE D == DOMAIN ns
    <3>0. w \in Seq(D) /\ NoRepeats(w)
      BY <2>4
    <3> HIDE DEF D
    <3>1. Len(w) = Cardinality(Elements(w)) /\ Len(w) \in Nat
      BY ONLY <3>0, ListCounts
    <3>2. Elements(w) \subseteq others
      BY <2>1, <2>3, <2>4 DEF others
    <3> QED
      BY <3>1, <3>2
  <2>6. IsFiniteSet(others) /\ Cardinality(others) = Len(ns) - 1
    <3>1. IsFiniteSet(DOMAIN ns) /\ Cardinality(DOMAIN ns) = Len(ns)
      <4> DEFINE n == Len(ns)
      <4>1. DOMAIN ns = 1..n /\ n \in Nat
        OBVIOUS
      <4> HIDE DEF n
      <4>2. IsFiniteSet(1..n) /\ Cardinality(1..n) = n
        BY ONLY <4>1, FS_Interval
      <4> QED
        BY <4>1, <4>2 DEF n
    <3> QED
      BY <2>1, <3>1, FS_RemoveElement
  <2> HIDE DEF others
  <2>7. Cardinality(Elements(w)) =< Len(ns) - 1
    BY <2>5, <2>6, FS_Subset
  <2>8. Len(w) =< cap
    BY <1>1, <1>3, <2>5, <2>7 DEF cap
  <2>9. Trimmed(ms, s, w, 0) = w
    BY <1>3, <2>5, <2>8 DEF Trimmed, cap
  <2>10. gs[s] = WithLinks(ms[s], 0, w)
    BY <1>1, <1>2, <2>1, <2>9 DEF w, list
  <2>11. w \in Seq(Nat)
    <3>1. DOMAIN ns \subseteq Nat
      BY <1>1
    <3> QED
      BY <2>4, <3>1, SeqOfMore
  <2>12. gs[s].neighbors[0] = w
    BY <1>4, <2>1, <2>10, <2>11, NodeLinks
  <2> QED
    BY <2>2, <2>4, <2>12
<1>9. ASSUME NEW s \in DOMAIN ns \ {node}
      PROVE  Elements(ns[s].neighbors[0]) \subseteq Elements(gs[s].neighbors[0])
  <2>1. CASE s \in Elements(sel)
    BY <1>8, <2>1
  <2>2. CASE s \notin Elements(sel)
    BY <1>1, <1>2, <1>7, <2>2
  <2> QED
    BY <2>1, <2>2
<1>10. gs[node].neighbors[0] = sel
  <2>1. gs[node] = WithLinks(ms[node], 0, sel)
    BY <1>1, <1>2
  <2>2. ms[node] \in Node /\ 0 \in 0..ms[node].top_layer
    BY <1>4
  <2>3. WithLinks(ms[node], 0, sel).neighbors[0] = sel
    BY <1>6, <2>2, NodeLinks
  <2> QED
    BY <2>1, <2>3
<1>11. sel[1] \in Elements(sel) /\ sel[1] \in DOMAIN ns \ {node}
  <2>1. sel[1] \in Elements(sel)
    BY <1>5 DEF Elements
  <2> QED
    BY <1>4, <1>5, <2>1
<1>12. node \in Elements(gs[sel[1]].neighbors[0])
  BY <1>8, <1>11
<1> QED
  BY <1>9, <1>10, <1>11, <1>12 DEF gs

\* One layer of connecting: what is found there, and where the next layer starts.
LEMMA ConnectStep ==
    ASSUME NEW ns \in Seq(Node), NEW node \in DOMAIN ns, Unlinked(ns, node),
           NEW layer \in 0..ns[node].top_layer,
           NEW ms, Grown(ns, ms, node, layer + 1), Linked(ms),
           NEW q \in Points, NEW ef \in Nat \ {0}, NEW c \in OnLayer(ns, layer) \ {node}
    PROVE  LET found == search_layer(ms, q, c, ef, layer)
               gs == connect_node(ms, node, found, layer)
           IN  /\ Closest(ms, q, found) \in OnLayer(ns, layer) \ {node}
               /\ Grown(ns, gs, node, layer) /\ Linked(gs)
               /\ layer = 0 => Tied(ns, gs, node)
<1> DEFINE V == OnLayer(ns, layer) \ {node}
           found == search_layer(ms, q, c, ef, layer)
<1>1. /\ ms \in Seq(Node) /\ DOMAIN ms = DOMAIN ns
      /\ \A s \in DOMAIN ns : ms[s].top_layer = ns[s].top_layer
  BY DEF Grown, SameButLinks
<1>2. V \in SUBSET DOMAIN ms
  BY <1>1 DEF OnLayer
<1>3. OnLayer(ms, layer) = OnLayer(ns, layer)
  BY <1>1 DEF OnLayer
<1>4. layer \in Nat /\ ~(layer + 1 =< layer)
  <2>1. ns[node].top_layer \in Nat
    BY NodeFacts
  <2> QED
    BY <2>1
<1>5. ASSUME NEW s \in V
      PROVE  layer \in 0..ms[s].top_layer /\ Elements(ms[s].neighbors[layer]) \subseteq V
  <2>1. s \in DOMAIN ns /\ layer \in 0..ns[s].top_layer /\ layer \in 0..ms[s].top_layer
    BY <1>1 DEF OnLayer
  <2>2. Elements(ms[s].neighbors[layer]) \subseteq OnLayer(ns, layer)
    BY <1>1, <1>3, <2>1, ListOf
  <2>3. ms[s].neighbors[layer] = ns[s].neighbors[layer]
    BY <1>4, <2>1 DEF Grown
  <2>4. node \notin Elements(ms[s].neighbors[layer])
    BY <2>1, <2>3 DEF Unlinked
  <2> QED
    BY <2>1, <2>2, <2>4
<1>6. Closed(ms, layer, V)
  BY <1>5 DEF Closed
<1> HIDE DEF V
<1>7. c \in V
  BY DEF V
<1>8. PICK st \in States(V) : Explored(ms, q, c, ef, layer, {}, st) /\ found = st.result
  BY <1>1, <1>2, <1>6, <1>7, SearchLayerIs
<1>9. found \in SUBSET V /\ found # {}
  BY <1>8 DEF States, Explored
<1> HIDE DEF found
<1>10. Closest(ms, q, found) \in V
  BY <1>1, <1>2, <1>9, ClosestIs
<1>11. found \in SUBSET (OnLayer(ns, layer) \ {node})
  BY <1>9 DEF V
<1>12. LET gs == connect_node(ms, node, found, layer)
       IN  Grown(ns, gs, node, layer) /\ Linked(gs)
  BY <1>11, ConnectIs
<1>13. layer = 0 => Tied(ns, connect_node(ms, node, found, layer), node)
  <2>1. layer = 0 => layer + 1 = 1
    OBVIOUS
  <2> QED
    BY <1>9, <1>11, <2>1, TiedIs
<1> QED
  BY <1>10, <1>12, <1>13 DEF V, found

LEMMA GrownInit ==
    ASSUME NEW ns \in Seq(Node), NEW node, NEW layer
    PROVE  Grown(ns, ns, node, layer)
BY DEF Grown, SameButLinks

LEMMA ConnectedIs ==
    ASSUME NEW ns \in Seq(Node), NEW node \in DOMAIN ns, Unlinked(ns, node), Linked(ns),
           NEW high \in 0..ns[node].top_layer, NEW start \in OnLayer(ns, high) \ {node}
    PROVE  /\ Grown(ns, Connected(ns, node, start, high), node, 0)
           /\ Linked(Connected(ns, node, start, high))
           /\ Tied(ns, Connected(ns, node, start, high), node)
<1> DEFINE q == ns[node].vector
           ef == AtLeast(1, ef_construction)
           top == high + 1
           first == [ns |-> ns, current |-> start]
           Step(layer, above) ==
             LET found == search_layer(above.ns, q, above.current, AtLeast(1, ef_construction), layer)
             IN  [ns |-> connect_node(above.ns, node, found, layer),
                  current |-> Closest(above.ns, q, found)]
           Rec(f) == [layer \in 0..top |-> IF layer = top THEN first ELSE Step(layer, f[layer + 1])]
           st == CHOOSE f : f = Rec(f)
           All == [ns: Seq(Node), current: DOMAIN ns]
           Good == [i \in 0..top |->
                      {u \in All : /\ Grown(ns, u.ns, node, i) /\ Linked(u.ns)
                                   /\ i = 0 => Tied(ns, u.ns, node)
                                   /\ u.current # node /\ i =< ns[u.current].top_layer + 1}]
           F == [p \in (0..(top - 1)) \X All |-> Step(p[1], p[2])]
<1>1. Connected(ns, node, start, high) = st[0].ns
  BY DEF Connected
<1>2. q \in Points /\ ef \in Nat \ {0}
  <2>1. ef \in Nat \ {0}
    BY ParamAssumption DEF AtLeast
  <2> QED
    BY <2>1, NodeFacts
<1>3. ns[node].top_layer \in Nat /\ top \in Nat /\ 0 =< top /\ top \in 0..top /\ top - 1 = high
      /\ top # 0
      /\ top - 1 =< ns[node].top_layer
  <2>1. ns[node].top_layer \in Nat
    BY NodeFacts
  <2> QED
    BY <2>1
<1> HIDE DEF q
<1>4. start \in DOMAIN ns /\ start # node /\ top =< ns[start].top_layer + 1
  <2>1. start \in DOMAIN ns /\ start # node /\ high \in 0..ns[start].top_layer
    BY DEF OnLayer
  <2>2. ns[start].top_layer \in Nat
    BY <2>1, NodeFacts
  <2> QED
    BY <2>1, <2>2
<1> HIDE DEF top
<1>5. first \in Good[top]
  <2>1. first \in All /\ first.ns = ns /\ first.current = start
    BY <1>4
  <2>2. Grown(ns, ns, node, top)
    BY GrownInit
  <2> HIDE DEF first
  <2> QED
    BY <1>3, <1>4, <2>1, <2>2
<1>6. ASSUME NEW i \in 0..(top - 1), NEW u \in Good[i + 1] PROVE F[<<i, u>>] \in Good[i]
  <2>1. i \in Nat /\ i \in 0..top /\ i + 1 \in 0..top /\ i \in 0..ns[node].top_layer
    BY <1>3
  <2>2. /\ u \in All /\ Grown(ns, u.ns, node, i + 1) /\ Linked(u.ns)
        /\ u.current # node /\ i + 1 =< ns[u.current].top_layer + 1
    BY <2>1
  <2> DEFINE found == search_layer(u.ns, q, u.current, ef, i)
             gs == connect_node(u.ns, node, found, i)
             c == Closest(u.ns, q, found)
  <2>3. F[<<i, u>>] = [ns |-> gs, current |-> c]
    BY <2>2
  <2>4. u.current \in OnLayer(ns, i) \ {node}
    <3>1. u.current \in DOMAIN ns
      BY <2>2
    <3>2. ns[u.current].top_layer \in Nat
      BY <3>1, NodeFacts
    <3> QED
      BY <2>1, <2>2, <3>1, <3>2 DEF OnLayer
  <2> HIDE DEF ef
  <2>5. c \in OnLayer(ns, i) \ {node} /\ Grown(ns, gs, node, i) /\ Linked(gs)
        /\ (i = 0 => Tied(ns, gs, node))
    BY <1>2, <2>1, <2>2, <2>4, ConnectStep
  <2> HIDE DEF gs, c, F
  <2>6. gs \in Seq(Node) /\ c \in DOMAIN ns /\ c # node /\ i =< ns[c].top_layer + 1
    <3>1. c \in DOMAIN ns /\ i \in 0..ns[c].top_layer
      BY <2>5 DEF OnLayer
    <3>2. ns[c].top_layer \in Nat
      BY <3>1, NodeFacts
    <3> QED
      BY <2>1, <2>5, <3>1, <3>2 DEF Grown
  <2> QED
    BY <2>1, <2>3, <2>5, <2>6
<1> HIDE DEF Good, F, Step, first, All
<1>7. PICK g : StagedDown(g, 0, top, Good, first, F)
  <2>1. LeadsDown(0, top, Good, F)
    BY <1>6 DEF LeadsDown
  <2>2. 0 \in Int /\ top \in Int
    BY <1>3
  <2> QED
    BY <1>3, <1>5, <2>1, <2>2, StagesDown
<1>8. /\ g = [i \in 0..top |-> g[i]] /\ g[top] = first
      /\ \A i \in 0..(top - 1) : g[i] = Step(i, g[i + 1])
  <2>1. ASSUME NEW i \in 0..(top - 1) PROVE g[i] = Step(i, g[i + 1])
    <3>1. i + 1 \in 0..top
      BY <1>3
    <3>2. g[i + 1] \in All
      BY <1>7, <3>1 DEF StagedDown, Good
    <3> QED
      BY <1>7, <3>2 DEF StagedDown, F
  <2> QED
    BY <1>7, <2>1 DEF StagedDown
<1>9. /\ \A i \in 0..top : i = top \/ i \in 0..(top - 1)
      /\ \A i \in 0..(top - 1) : i \in 0..top /\ i # top
  BY <1>3
<1>10. g = Rec(g)
  BY <1>8, <1>9
<1>11. st = Rec(st)
  BY <1>10
<1> HIDE DEF st
<1>12. st[0] = g[0]
  <2>1. st[top] = first /\ \A i \in 0..(top - 1) : st[i] = Step(i, st[i + 1])
    BY <1>3, <1>9, <1>11
  <2>2. GoAlikeDown(st, g, 0, top)
    BY <1>8, <2>1 DEF GoAlikeDown
  <2>3. 0 \in Int /\ top \in Int
    BY <1>3
  <2> QED
    BY <1>3, <2>2, <2>3, SameEndDown
<1>13. g[0] \in Good[0] /\ 0 \in 0..top
  BY <1>3, <1>7 DEF StagedDown
<1> QED
  BY <1>1, <1>12, <1>13 DEF Good

-----------------------------------------------------------------------------
(* The descent                                                              *)

LEMMA HopIs ==
    ASSUME NEW ns \in Seq(Node), NEW q \in Points, NEW layer,
           NEW V \in SUBSET DOMAIN ns, Closed(ns, layer, V), NEW s \in V
    PROVE  Hop(ns, q, s, layer) \in V
<1> DEFINE list == ns[s].neighbors[layer]
           d(i) == distance_to(ns, q, list[i])
           best == {i \in DOMAIN list : \A j \in DOMAIN list : d(i) =< d(j)}
           first == CHOOSE i \in best : \A j \in best : i =< j
           D == [i \in DOMAIN list |-> d(i)]
<1>1. list \in Seq(Nat) /\ Elements(list) \subseteq V
  <2>1. layer \in 0..ns[s].top_layer /\ Elements(list) \subseteq V
    BY DEF Closed
  <2> QED
    BY <2>1, NodeFacts
<1>2. Hop(ns, q, s, layer) = IF list # << >> /\ d(first) < distance_to(ns, q, s)
                             THEN list[first] ELSE s
  BY DEF Hop
<1> HIDE DEF list
<1>3. DOMAIN list = 1..Len(list) /\ Len(list) \in Nat
  BY <1>1
<1>4. \A i \in DOMAIN list : list[i] \in V /\ d(i) \in Int
  <2>1. \A i \in DOMAIN list : list[i] \in V
    BY <1>1 DEF Elements
  <2> QED
    BY <2>1, DistanceIs
<1> HIDE DEF d
<1>5. CASE DOMAIN list # {}
  <2>1. D \in [DOMAIN list -> Int] /\ DOMAIN list \in SUBSET Int /\ IsFiniteSet(DOMAIN list)
    BY <1>3, <1>4, FS_Interval
  <2>2. best = {i \in DOMAIN list : \A j \in DOMAIN list : D[i] =< D[j]}
    OBVIOUS
  <2> HIDE DEF D, best
  <2>3. \E i \in best : \A j \in best : i =< j
    BY <1>5, <2>1, <2>2, FirstLeast
  <2>4. first \in best
    BY <2>3
  <2> HIDE DEF first
  <2>5. first \in DOMAIN list
    BY <2>4 DEF best
  <2> QED
    BY <1>2, <1>4, <2>5
<1>6. CASE DOMAIN list = {}
  <2>1. list = << >>
    BY <1>1, <1>6
  <2> QED
    BY <1>2, <2>1
<1> QED
  BY <1>5, <1>6

LEMMA GreedyIs ==
    ASSUME NEW ns \in Seq(Node), NEW q \in Points, NEW layer,
           NEW V \in SUBSET DOMAIN ns, Closed(ns, layer, V), NEW start \in V
    PROVE  greedy_descend(ns, q, start, layer) \in V
<1> DEFINE n == Len(ns)
           Rec(f) == [i \in 0..n |-> IF i = 0 THEN start ELSE Hop(ns, q, f[i - 1], layer)]
           at == CHOOSE f : f = Rec(f)
           Good == [i \in 0..n |-> V]
           F == [p \in (1..n) \X V |-> Hop(ns, q, p[2], layer)]
<1>1. greedy_descend(ns, q, start, layer) = at[n]
  BY DEF greedy_descend
<1>2. n \in Nat /\ 0 \in 0..n /\ n \in 0..n
  OBVIOUS
<1> HIDE DEF n
<1>3. ASSUME NEW i \in 1..n, NEW x \in Good[i - 1] PROVE F[<<i, x>>] \in Good[i]
  <2>1. i - 1 \in 0..n /\ i \in 0..n
    BY <1>2
  <2>2. x \in V
    BY <2>1
  <2>3. F[<<i, x>>] = Hop(ns, q, x, layer)
    BY <2>2
  <2> HIDE DEF F
  <2> QED
    BY <2>1, <2>2, <2>3, HopIs
<1>4. start \in Good[0]
  BY <1>2
<1> HIDE DEF Good, F
<1>5. PICK g : Staged(g, n, Good, start, F)
  <2>1. Leads(n, Good, F)
    BY <1>3 DEF Leads
  <2> QED
    BY <1>2, <1>4, <2>1, Stages
<1>6. \A i \in 0..n : g[i] \in V
  BY <1>5 DEF Staged, Good
<1>7. /\ g = [i \in 0..n |-> g[i]] /\ g[0] = start
      /\ \A i \in 1..n : g[i] = Hop(ns, q, g[i - 1], layer)
  <2>1. \A i \in 1..n : i - 1 \in 0..n
    BY <1>2
  <2> QED
    BY <1>5, <1>6, <2>1 DEF Staged, F
<1>8. /\ \A i \in 0..n : i = 0 \/ i \in 1..n
      /\ \A i \in 1..n : i \in 0..n /\ i # 0
  BY <1>2
<1>9. g = Rec(g)
  BY <1>7, <1>8
<1>10. at = Rec(at)
  BY <1>9
<1> HIDE DEF at
<1>11. at[n] = g[n]
  <2>1. at[0] = start /\ \A i \in 1..n : at[i] = Hop(ns, q, at[i - 1], layer)
    BY <1>2, <1>8, <1>10
  <2>2. GoAlike(at, g, n)
    BY <1>7, <2>1 DEF GoAlike
  <2> QED
    BY <1>2, <2>2, SameEnd
<1> QED
  BY <1>1, <1>2, <1>6, <1>11

\* The descent from a node of the layer `high' stays among the nodes W, which no edge
\* leaves above `low', and ends at one of layer `low', or of `high' if that is lower.
LEMMA DescendIs ==
    ASSUME NEW ns \in Seq(Node), NEW q \in Points, NEW high \in Nat, NEW low \in Nat,
           NEW W \in SUBSET DOMAIN ns,
           \A layer \in (low + 1)..high : Closed(ns, layer, OnLayer(ns, layer) \cap W),
           NEW start \in OnLayer(ns, high) \cap W
    PROVE  Descend(ns, q, start, high, low)
             \in OnLayer(ns, IF high =< low THEN high ELSE low) \cap W
<1> DEFINE Rec(f) == [layer \in low..high |->
                        IF layer = high THEN start
                        ELSE greedy_descend(ns, q, f[layer + 1], layer + 1)]
           at == CHOOSE f : f = Rec(f)
           Good == [i \in low..high |-> OnLayer(ns, i) \cap W]
           F == [p \in (low..(high - 1)) \X W |-> greedy_descend(ns, q, p[2], p[1] + 1)]
<1>1. Descend(ns, q, start, high, low) = IF high =< low THEN start ELSE at[low]
  BY DEF Descend
<1>2. SUFFICES ASSUME ~(high =< low) PROVE at[low] \in OnLayer(ns, low) \cap W
  BY <1>1
<1>3. low =< high /\ low \in low..high /\ high \in low..high /\ low \in Int /\ high \in Int
  BY <1>2
<1>4. ASSUME NEW i \in low..(high - 1), NEW x \in Good[i + 1] PROVE F[<<i, x>>] \in Good[i]
  <2> DEFINE j == i + 1
  <2>1. j \in (low + 1)..high /\ j \in low..high /\ i \in low..high /\ i \in Nat
    OBVIOUS
  <2>2. x \in OnLayer(ns, j) \cap W
    BY <2>1
  <2>3. F[<<i, x>>] = greedy_descend(ns, q, x, j)
    BY <2>2
  <2>4. \A s \in DOMAIN ns : j \in 0..ns[s].top_layer => i \in 0..ns[s].top_layer
    <3>1. \A s \in DOMAIN ns : ns[s].top_layer \in Nat
      BY NodeFacts
    <3> QED
      BY <2>1, <3>1
  <2> HIDE DEF j, F
  <2>5. OnLayer(ns, j) \cap W \in SUBSET DOMAIN ns /\ Closed(ns, j, OnLayer(ns, j) \cap W)
    BY <2>1
  <2>6. greedy_descend(ns, q, x, j) \in OnLayer(ns, j) \cap W
    BY <2>2, <2>5, GreedyIs
  <2> QED
    BY <2>1, <2>3, <2>4, <2>6 DEF OnLayer
<1>5. start \in Good[high]
  BY <1>3
<1>6. \A i \in low..high : Good[i] \subseteq W
  OBVIOUS
<1>12. Good[low] = OnLayer(ns, low) \cap W
  BY <1>3
<1> HIDE DEF Good, F
<1>7. PICK g : StagedDown(g, low, high, Good, start, F)
  <2>1. LeadsDown(low, high, Good, F)
    BY <1>4 DEF LeadsDown
  <2> QED
    BY <1>3, <1>5, <2>1, StagesDown
<1>8. /\ g = [i \in low..high |-> g[i]] /\ g[high] = start
      /\ \A i \in low..(high - 1) : g[i] = greedy_descend(ns, q, g[i + 1], i + 1)
  <2>1. ASSUME NEW i \in low..(high - 1)
        PROVE  g[i] = greedy_descend(ns, q, g[i + 1], i + 1)
    <3>1. i + 1 \in low..high
      BY <1>3
    <3>2. g[i + 1] \in W
      BY <1>6, <1>7, <3>1 DEF StagedDown
    <3>3. F[<<i, g[i + 1]>>] = greedy_descend(ns, q, g[i + 1], i + 1)
      BY <3>2 DEF F
    <3> QED
      BY <1>7, <3>3 DEF StagedDown
  <2> QED
    BY <1>7, <2>1 DEF StagedDown
<1>9. /\ \A i \in low..high : i = high \/ i \in low..(high - 1)
      /\ \A i \in low..(high - 1) : i \in low..high /\ i # high
  BY <1>3
<1>10. at = Rec(at)
  <2>1. g = Rec(g)
    BY <1>8, <1>9
  <2> QED
    BY <2>1
<1> HIDE DEF at
<1>11. at[low] = g[low]
  <2>1. at[high] = start
        /\ \A i \in low..(high - 1) : at[i] = greedy_descend(ns, q, at[i + 1], i + 1)
    BY <1>3, <1>9, <1>10
  <2>2. GoAlikeDown(at, g, low, high)
    BY <1>8, <2>1 DEF GoAlikeDown
  <2> QED
    BY <1>3, <2>2, SameEndDown
<1> QED
  BY <1>3, <1>7, <1>11, <1>12 DEF StagedDown

-----------------------------------------------------------------------------
(* The index and its records                                                *)

LiveOf(ns) == {s \in DOMAIN ns : ~ns[s].deleted}

\* One node for an identifier, and the live ones are those of the records.
Holds(ns, recs) ==
    /\ ns \in Seq(Node)
    /\ \A s, x \in DOMAIN ns : ns[s].id = ns[x].id => s = x
    /\ recs = [id \in DOMAIN recs |-> recs[id]]
    /\ DOMAIN recs = {ns[s].id : s \in LiveOf(ns)}
    /\ \A s \in LiveOf(ns) : recs[ns[s].id] = ns[s].vector

\* A descent can start at entry.
Entered(ns, entry, top) ==
    IF ns = << >> THEN entry = 0 /\ top = -1
    ELSE /\ entry \in DOMAIN ns /\ top = ns[entry].top_layer
         /\ \A s \in DOMAIN ns : ns[s].top_layer =< top

Inv ==
    /\ Holds(nodes, records) /\ Linked(nodes) /\ Entered(nodes, entry_point, max_level)
    /\ live_count = Cardinality(LiveOf(nodes))
    /\ reloaded \in BOOLEAN /\ ops \in 0..MaxOps

LEMMA Lengths ==
    ASSUME NEW ns \in Seq(Node)
    PROVE  /\ Len(ns) \in Nat /\ DOMAIN ns = 1..Len(ns) /\ LiveOf(ns) \in SUBSET DOMAIN ns
           /\ IsFiniteSet(DOMAIN ns) /\ Cardinality(DOMAIN ns) = Len(ns)
           /\ IsFiniteSet(LiveOf(ns)) /\ Cardinality(LiveOf(ns)) \in Nat
           /\ ns = << >> <=> Len(ns) = 0
<1>1. Len(ns) \in Nat /\ DOMAIN ns = 1..Len(ns) /\ LiveOf(ns) \in SUBSET DOMAIN ns
      /\ (ns = << >> <=> Len(ns) = 0)
  BY DEF LiveOf
<1>2. \A k \in Nat : IsFiniteSet(1..k) /\ Cardinality(1..k) = k
  BY FS_Interval
<1>3. IsFiniteSet(DOMAIN ns) /\ Cardinality(DOMAIN ns) = Len(ns)
  BY <1>1, <1>2
<1> QED
  BY <1>1, <1>3, FS_Subset, FS_CardinalityType

\* Other links change nothing of what the index holds.
LEMMA SameHolds ==
    ASSUME NEW ns, NEW recs, Holds(ns, recs), NEW ms \in Seq(Node), DOMAIN ms = DOMAIN ns,
           \A s \in DOMAIN ns : SameButLinks(ns[s], ms[s])
    PROVE  Holds(ms, recs) /\ LiveOf(ms) = LiveOf(ns)
<1>1. LiveOf(ms) = LiveOf(ns)
  BY DEF LiveOf, SameButLinks
<1>2. \A s \in DOMAIN ns : ms[s].id = ns[s].id /\ ms[s].vector = ns[s].vector
  BY DEF SameButLinks
<1>3. LiveOf(ns) \subseteq DOMAIN ns
  BY DEF LiveOf
<1>4. {ms[s].id : s \in LiveOf(ms)} = {ns[s].id : s \in LiveOf(ns)}
  BY <1>1, <1>2, <1>3
<1> QED
  BY <1>1, <1>2, <1>3, <1>4 DEF Holds

LEMMA SameLinked ==
    ASSUME NEW ns, Linked(ns), NEW ms, DOMAIN ms = DOMAIN ns,
           \A s \in DOMAIN ns : /\ ms[s].top_layer = ns[s].top_layer
                                /\ ms[s].neighbors = ns[s].neighbors
    PROVE  Linked(ms)
<1>1. \A layer : OnLayer(ms, layer) = OnLayer(ns, layer)
  BY DEF OnLayer
<1> QED
  BY <1>1 DEF Linked, LinksOf

LEMMA SameEntered ==
    ASSUME NEW ns \in Seq(Node), NEW e, NEW top, Entered(ns, e, top),
           NEW ms \in Seq(Node), DOMAIN ms = DOMAIN ns,
           \A s \in DOMAIN ns : ms[s].top_layer = ns[s].top_layer
    PROVE  Entered(ms, e, top)
<1>1. ns = << >> <=> DOMAIN ns = {}
  BY Lengths
<1>2. ms = << >> <=> DOMAIN ms = {}
  BY Lengths
<1> QED
  BY <1>1, <1>2 DEF Entered

LEMMA NewNodeIs ==
    ASSUME NEW id \in Ids, NEW v \in Points, NEW level \in 0..MaxLevel
    PROVE  LET w == NewNode(id, v, level)
           IN  /\ w \in Node /\ w.id = id /\ w.vector = v /\ w.top_layer = level /\ ~w.deleted
               /\ \A l \in 0..level : w.neighbors[l] = << >>
<1> DEFINE w == NewNode(id, v, level)
           nb == [layer \in 0..level |-> << >>]
<1>1. nb \in [0..level -> Seq(Nat)] /\ \A l \in 0..level : nb[l] = << >>
  OBVIOUS
<1>2. w = [id |-> id, vector |-> v, top_layer |-> level, deleted |-> FALSE, neighbors |-> nb]
  BY DEF NewNode
<1> HIDE DEF nb, w
<1>3. w \in [id: Ids, vector: Points, top_layer: {level}, deleted: BOOLEAN,
             neighbors: [0..level -> Seq(Nat)]]
  BY <1>1, <1>2
<1> QED
  BY <1>1, <1>2, <1>3 DEF Node, w

\* A node without edges behind the others.
LEMMA AppendNode ==
    ASSUME NEW ns \in Seq(Node), Linked(ns), NEW w \in Node,
           \A l \in 0..w.top_layer : w.neighbors[l] = << >>
    PROVE  LET ms == Append(ns, w)
               node == Len(ns) + 1
           IN  /\ ms \in Seq(Node) /\ Len(ms) = node /\ DOMAIN ms = DOMAIN ns \cup {node}
               /\ node \notin DOMAIN ns /\ ms[node] = w
               /\ \A s \in DOMAIN ns : ms[s] = ns[s]
               /\ Unlinked(ms, node) /\ Linked(ms)
<1> DEFINE ms == Append(ns, w)
           node == Len(ns) + 1
<1>1. Len(ns) \in Nat /\ DOMAIN ns = 1..Len(ns)
  OBVIOUS
<1>2. /\ ms \in Seq(Node) /\ Len(ms) = node /\ DOMAIN ms = 1..node /\ ms[node] = w
      /\ \A s \in DOMAIN ns : ms[s] = ns[s]
  OBVIOUS
<1>3. DOMAIN ms = DOMAIN ns \cup {node} /\ node \notin DOMAIN ns
  BY <1>1, <1>2
<1> HIDE DEF ms, node
<1>4. \A l : OnLayer(ns, l) \subseteq OnLayer(ms, l) /\ OnLayer(ns, l) \subseteq DOMAIN ns
  BY <1>2, <1>3 DEF OnLayer
<1>5. Elements(<< >>) = {} /\ NoRepeats(<< >>) /\ Len(<< >>) = 0
  BY DEF Elements, NoRepeats
<1>6. \A l : max_neighbors_for_layer(l) \in Nat
  BY CapIs
<1>7. Unlinked(ms, node)
  <2>1. ASSUME NEW s \in DOMAIN ms, NEW l \in 0..ms[s].top_layer
        PROVE  node \notin Elements(ms[s].neighbors[l])
    <3>1. CASE s = node
      BY <1>2, <1>5, <2>1, <3>1
    <3>2. CASE s \in DOMAIN ns
      BY <1>2, <1>3, <1>4, <2>1, <3>2 DEF Linked, LinksOf
    <3> QED
      BY <1>3, <3>1, <3>2
  <2> QED
    BY <1>2, <2>1 DEF Unlinked
<1>8. Linked(ms)
  <2>1. ASSUME NEW s \in DOMAIN ms, NEW l \in 0..ms[s].top_layer
        PROVE  LinksOf(ms, s, l, ms[s].neighbors[l])
    <3>1. CASE s = node
      <4>1. ms[s].neighbors[l] = << >>
        BY <1>2, <2>1, <3>1
      <4> QED
        BY <1>5, <1>6, <4>1 DEF LinksOf
    <3>2. CASE s \in DOMAIN ns
      <4>1. LinksOf(ns, s, l, ns[s].neighbors[l])
        BY <1>2, <2>1, <3>2 DEF Linked
      <4> QED
        BY <1>2, <1>4, <3>2, <4>1 DEF LinksOf
    <3> QED
      BY <1>3, <3>1, <3>2
  <2> QED
    BY <2>1 DEF Linked
<1> QED
  BY <1>2, <1>3, <1>7, <1>8 DEF ms, node

-----------------------------------------------------------------------------
(* The steps                                                                *)

\* add of a new identifier: the node comes last and is connected to the others.
LEMMA AddNewIs ==
    ASSUME Inv, NEW id \in Ids, NEW v \in Points, NEW level \in 0..MaxLevel,
           AddNew(id, v, level)
    PROVE  LET w == NewNode(id, v, level)
               ns == Append(nodes, w)
               node == Len(nodes) + 1
           IN  /\ Grown(ns, nodes', node, 0) /\ Linked(nodes')
               /\ entry_point # 0 => Tied(ns, nodes', node)
               /\ Len(ns) = node /\ Unlinked(ns, node)
               /\ node \notin DOMAIN nodes /\ DOMAIN ns = DOMAIN nodes \cup {node}
               /\ node \in Nat \ {0}
               /\ ns[node] = w /\ \A s \in DOMAIN nodes : ns[s] = nodes[s]
               /\ w \in Node /\ w.id = id /\ w.vector = v /\ w.top_layer = level /\ ~w.deleted
               /\ \A l \in 0..level : w.neighbors[l] = << >>
<1> DEFINE w == NewNode(id, v, level)
           ns == Append(nodes, w)
           node == Len(nodes) + 1
           start == Descend(ns, v, entry_point, max_level, level)
           high == IF level < max_level THEN level ELSE max_level
<1>1. nodes \in Seq(Node) /\ Linked(nodes)
  BY DEF Inv, Holds
<1>2. /\ w \in Node /\ w.id = id /\ w.vector = v /\ w.top_layer = level /\ ~w.deleted
      /\ \A l \in 0..level : w.neighbors[l] = << >>
  BY NewNodeIs
<1> HIDE DEF w
<1>3. /\ ns \in Seq(Node) /\ Len(ns) = node /\ DOMAIN ns = DOMAIN nodes \cup {node}
      /\ node \notin DOMAIN nodes /\ ns[node] = w
      /\ \A s \in DOMAIN nodes : ns[s] = nodes[s]
      /\ Unlinked(ns, node) /\ Linked(ns)
  BY <1>1, <1>2, AppendNode
<1>4. nodes' = IF entry_point = 0 THEN ns ELSE Connected(ns, node, start, high)
  BY <1>3 DEF AddNew, w
<1>5. Len(nodes) \in Nat /\ DOMAIN nodes = 1..Len(nodes) /\ node \in Nat \ {0}
  BY <1>1
<1> HIDE DEF ns, node
<1>6. Grown(ns, nodes', node, 0) /\ Linked(nodes')
      /\ (entry_point # 0 => Tied(ns, nodes', node))
  <2>1. CASE entry_point = 0
    BY <1>3, <1>4, <2>1, GrownInit
  <2>2. CASE entry_point # 0
    <3>1. entry_point \in DOMAIN nodes /\ max_level = nodes[entry_point].top_layer
      BY <2>2 DEF Inv, Entered
    <3>2. max_level \in Nat /\ level \in Nat
      <4>1. nodes[entry_point].top_layer \in Nat
        BY <1>1, <3>1, NodeFacts
      <4> QED
        BY <3>1, <4>1
    <3>3. ASSUME NEW layer
          PROVE  Closed(ns, layer, OnLayer(ns, layer) \cap DOMAIN nodes)
      <4> SUFFICES ASSUME NEW s \in OnLayer(ns, layer) \cap DOMAIN nodes
                   PROVE  /\ layer \in 0..ns[s].top_layer
                          /\ Elements(ns[s].neighbors[layer])
                               \subseteq OnLayer(ns, layer) \cap DOMAIN nodes
        BY DEF Closed
      <4>1. layer \in 0..ns[s].top_layer /\ ns[s] = nodes[s]
        BY <1>3 DEF OnLayer
      <4>2. Elements(nodes[s].neighbors[layer]) \subseteq OnLayer(nodes, layer)
        BY <4>1 DEF Inv, Linked, LinksOf
      <4>3. OnLayer(nodes, layer) \subseteq OnLayer(ns, layer) \cap DOMAIN nodes
        BY <1>3 DEF OnLayer
      <4> QED
        BY <4>1, <4>2, <4>3
    <3>4. entry_point \in OnLayer(ns, max_level) \cap DOMAIN nodes
      BY <1>3, <3>1, <3>2 DEF OnLayer
    <3>5. high = (IF max_level =< level THEN max_level ELSE level) /\ high \in 0..level
      BY <3>2
    <3>6. start \in OnLayer(ns, high) \cap DOMAIN nodes
      <4>1. DOMAIN nodes \in SUBSET DOMAIN ns
        BY <1>3
      <4>2. start \in OnLayer(ns, IF max_level =< level THEN max_level ELSE level) \cap DOMAIN nodes
        BY <1>3, <3>2, <3>3, <3>4, <4>1, DescendIs
      <4> QED
        BY <3>5, <4>2
    <3> HIDE DEF start, high
    <3>7. start \in OnLayer(ns, high) \ {node} /\ node \in DOMAIN ns
          /\ high \in 0..ns[node].top_layer
      BY <1>2, <1>3, <3>5, <3>6
    <3> QED
      BY <1>3, <1>4, <2>2, <3>7, ConnectedIs
  <2> QED
    BY <2>1, <2>2
<1> QED
  BY <1>2, <1>3, <1>5, <1>6 DEF ns, node, w

LEMMA AddNewKeeps ==
    ASSUME Inv, NEW id \in Ids, NEW v \in Points, NEW level \in 0..MaxLevel,
           AddNew(id, v, level)
    PROVE  /\ Holds(nodes', records') /\ Linked(nodes')
           /\ Entered(nodes', entry_point', max_level')
           /\ live_count' = Cardinality(LiveOf(nodes'))
<1> DEFINE w == NewNode(id, v, level)
           ns == Append(nodes, w)
           node == Len(nodes) + 1
<1>1. /\ Grown(ns, nodes', node, 0) /\ Linked(nodes')
      /\ node \notin DOMAIN nodes /\ DOMAIN ns = DOMAIN nodes \cup {node} /\ node \in Nat \ {0}
      /\ ns[node] = w /\ \A s \in DOMAIN nodes : ns[s] = nodes[s]
      /\ w \in Node /\ w.id = id /\ w.vector = v /\ w.top_layer = level /\ ~w.deleted
  BY AddNewIs
<1>2. /\ nodes \in Seq(Node) /\ records = [x \in DOMAIN records |-> records[x]]
      /\ \A s, x \in DOMAIN nodes : nodes[s].id = nodes[x].id => s = x
      /\ DOMAIN records = {nodes[s].id : s \in LiveOf(nodes)}
      /\ \A s \in LiveOf(nodes) : records[nodes[s].id] = nodes[s].vector
  BY DEF Inv, Holds
<1>3. \A s \in DOMAIN nodes : nodes[s].id # id
  BY DEF AddNew, InternalId
<1>4. Len(nodes) \in Nat /\ ns \in Seq(Node) /\ node = Len(ns)
  BY <1>1, <1>2
<1>11. /\ records' = Put(records, id, v) /\ live_count' = live_count + 1
       /\ entry_point' = IF level > max_level THEN node ELSE entry_point
       /\ max_level' = IF level > max_level THEN level ELSE max_level
  BY <1>4 DEF AddNew
<1> HIDE DEF w, ns, node
<1>5. LiveOf(ns) = LiveOf(nodes) \cup {node} /\ node \notin LiveOf(nodes)
      /\ LiveOf(nodes) \subseteq DOMAIN nodes
  BY <1>1 DEF LiveOf
<1>6. Holds(ns, records')
  <2>1. \A s, x \in DOMAIN ns : ns[s].id = ns[x].id => s = x
    BY <1>1, <1>2, <1>3
  <2>2. records' = [x \in DOMAIN records' |-> records'[x]]
        /\ DOMAIN records' = DOMAIN records \cup {id}
        /\ records'[id] = v /\ \A x \in DOMAIN records : x # id => records'[x] = records[x]
    BY <1>11 DEF Put
  <2>3. \A s \in LiveOf(nodes) : ns[s].id = nodes[s].id /\ ns[s].vector = nodes[s].vector
    BY <1>1, <1>5
  <2>4. DOMAIN records' = {ns[s].id : s \in LiveOf(ns)}
    BY <1>1, <1>2, <1>5, <2>2, <2>3
  <2>5. ASSUME NEW s \in LiveOf(ns) PROVE records'[ns[s].id] = ns[s].vector
    <3>1. CASE s = node
      BY <1>1, <2>2, <3>1
    <3>2. CASE s \in LiveOf(nodes)
      <4>1. nodes[s].id # id /\ nodes[s].id \in DOMAIN records
        BY <1>2, <1>3, <1>5, <3>2
      <4> QED
        BY <1>2, <2>2, <2>3, <3>2, <4>1
    <3> QED
      BY <1>5, <3>1, <3>2
  <2> QED
    BY <1>4, <2>1, <2>2, <2>4, <2>5 DEF Holds
<1>7. /\ nodes' \in Seq(Node) /\ DOMAIN nodes' = DOMAIN ns
      /\ \A s \in DOMAIN ns : SameButLinks(ns[s], nodes'[s])
  BY <1>1 DEF Grown
<1>8. Holds(nodes', records') /\ LiveOf(nodes') = LiveOf(ns)
  BY <1>6, <1>7, SameHolds
<1>9. live_count' = Cardinality(LiveOf(nodes'))
  <2>1. IsFiniteSet(LiveOf(nodes))
    BY <1>2, Lengths
  <2>2. Cardinality(LiveOf(ns)) = Cardinality(LiveOf(nodes)) + 1
    BY <1>5, <2>1, FS_AddElement
  <2> QED
    BY <1>8, <1>11, <2>2 DEF Inv
<1>10. Entered(nodes', entry_point', max_level')
  <2>1. Entered(ns, entry_point', max_level')
    <3>1. ns # << >> /\ node \in DOMAIN ns
      BY <1>1
    <3>2. level \in Int /\ level >= 0
      OBVIOUS
    <3>3. CASE nodes = << >>
      <4>1. max_level = -1 /\ DOMAIN nodes = {}
        BY <3>3 DEF Inv, Entered
      <4>2. entry_point' = node /\ max_level' = level
        BY <1>11, <3>2, <4>1
      <4> QED
        BY <1>1, <3>1, <3>2, <4>1, <4>2 DEF Entered
    <3>4. CASE nodes # << >>
      <4>1. entry_point \in DOMAIN nodes /\ max_level = nodes[entry_point].top_layer
            /\ \A s \in DOMAIN nodes : nodes[s].top_layer =< max_level
        BY <3>4 DEF Inv, Entered
      <4>2. max_level \in Nat /\ \A s \in DOMAIN nodes : nodes[s].top_layer \in Nat
        BY <1>2, <4>1, NodeFacts
      <4>3. CASE level > max_level
        <5>1. entry_point' = node /\ max_level' = level
          BY <1>11, <4>3
        <5>2. \A s \in DOMAIN nodes : ns[s].top_layer =< level
          BY <1>1, <3>2, <4>1, <4>2, <4>3
        <5> QED
          BY <1>1, <3>1, <3>2, <5>1, <5>2 DEF Entered
      <4>4. CASE ~(level > max_level)
        <5>1. entry_point' = entry_point /\ max_level' = max_level
          BY <1>11, <4>4
        <5>2. level =< max_level
          BY <3>2, <4>2, <4>4
        <5> QED
          BY <1>1, <3>1, <4>1, <5>1, <5>2 DEF Entered
      <4> QED
        BY <4>3, <4>4
    <3> QED
      BY <3>3, <3>4
  <2>2. \A s \in DOMAIN ns : nodes'[s].top_layer = ns[s].top_layer
    BY <1>7 DEF SameButLinks
  <2> QED
    BY <1>4, <1>7, <2>1, <2>2, SameEntered
<1> QED
  BY <1>1, <1>8, <1>9, <1>10

\* A node that differs from n in its vector and its mark only.
Marked(n, w, v, d) ==
    /\ w \in Node /\ w.id = n.id /\ w.top_layer = n.top_layer /\ w.neighbors = n.neighbors
    /\ w.vector = v /\ w.deleted = d

LEMMA MarkedNode ==
    ASSUME NEW n \in Node, NEW v \in Points, NEW d \in BOOLEAN
    PROVE  /\ Marked(n, [[n EXCEPT !.vector = v] EXCEPT !.deleted = d], v, d)
           /\ Marked(n, [n EXCEPT !.deleted = d], n.vector, d)
<1> DEFINE a == [[n EXCEPT !.vector = v] EXCEPT !.deleted = d]
           b == [n EXCEPT !.deleted = d]
<1>1. PICK t \in 0..MaxLevel : n \in [id: Ids, vector: Points, top_layer: {t}, deleted: BOOLEAN,
                                      neighbors: [0..t -> Seq(Nat)]]
  BY DEF Node
<1>2. /\ a \in [id: Ids, vector: Points, top_layer: {t}, deleted: BOOLEAN,
                neighbors: [0..t -> Seq(Nat)]]
      /\ a.id = n.id /\ a.top_layer = n.top_layer /\ a.neighbors = n.neighbors
      /\ a.vector = v /\ a.deleted = d
  BY <1>1
<1>3. /\ b \in [id: Ids, vector: Points, top_layer: {t}, deleted: BOOLEAN,
                neighbors: [0..t -> Seq(Nat)]]
      /\ b.id = n.id /\ b.top_layer = n.top_layer /\ b.neighbors = n.neighbors
      /\ b.vector = n.vector /\ b.deleted = d
  BY <1>1
<1> HIDE DEF a, b
<1>4. Marked(n, a, v, d)
  BY <1>2 DEF Marked, Node
<1>5. Marked(n, b, n.vector, d)
  BY <1>3 DEF Marked, Node
<1> QED
  BY <1>4, <1>5 DEF a, b

\* The nodes after one of them has been marked.
MarkedIn(ns, s, w) == [ns EXCEPT ![s] = w]

Similar(ns, ms, s, v, d) ==
    /\ ms \in Seq(Node) /\ DOMAIN ms = DOMAIN ns /\ Marked(ns[s], ms[s], v, d)
    /\ \A x \in DOMAIN ns : x # s => ms[x] = ns[x]
    /\ \A x \in DOMAIN ns : /\ ms[x].id = ns[x].id /\ ms[x].top_layer = ns[x].top_layer
                            /\ ms[x].neighbors = ns[x].neighbors
    /\ Linked(ns) => Linked(ms)
    /\ \A e, top : Entered(ns, e, top) => Entered(ms, e, top)

LEMMA MarkedNodes ==
    ASSUME NEW ns \in Seq(Node), NEW s \in DOMAIN ns, NEW v, NEW d, NEW w,
           Marked(ns[s], w, v, d)
    PROVE  Similar(ns, MarkedIn(ns, s, w), s, v, d)
<1> DEFINE ms == MarkedIn(ns, s, w)
<1>1. /\ ms \in Seq(Node) /\ DOMAIN ms = DOMAIN ns /\ ms[s] = w
      /\ \A x \in DOMAIN ns : x # s => ms[x] = ns[x]
  BY DEF Marked, MarkedIn
<1>2. \A x \in DOMAIN ns : /\ ms[x].id = ns[x].id /\ ms[x].top_layer = ns[x].top_layer
                           /\ ms[x].neighbors = ns[x].neighbors
  BY <1>1 DEF Marked
<1>3. Linked(ns) => Linked(ms)
  BY <1>1, <1>2, SameLinked
<1>4. \A e, top : Entered(ns, e, top) => Entered(ms, e, top)
  BY <1>1, <1>2, SameEntered
<1> HIDE DEF ms
<1> QED
  BY <1>1, <1>2, <1>3, <1>4 DEF Similar, ms

SameEdges(ns, ms) ==
    /\ DOMAIN ms = DOMAIN ns
    /\ \A s \in DOMAIN ns : ms[s].top_layer = ns[s].top_layer /\ ms[s].neighbors = ns[s].neighbors

LEMMA AddKnownKeeps ==
    ASSUME Inv, NEW id \in Ids, NEW v \in Points, AddKnown(id, v)
    PROVE  /\ Holds(nodes', records') /\ Linked(nodes')
           /\ Entered(nodes', entry_point', max_level')
           /\ live_count' = Cardinality(LiveOf(nodes'))
           /\ SameEdges(nodes, nodes')
<1>1. /\ nodes \in Seq(Node) /\ records = [x \in DOMAIN records |-> records[x]]
      /\ \A s, x \in DOMAIN nodes : nodes[s].id = nodes[x].id => s = x
      /\ DOMAIN records = {nodes[s].id : s \in LiveOf(nodes)}
      /\ \A s \in LiveOf(nodes) : records[nodes[s].id] = nodes[s].vector
  BY DEF Inv, Holds
<1>2. PICK s \in InternalId(id) :
         /\ nodes' = [nodes EXCEPT ![s].vector = v, ![s].deleted = FALSE]
         /\ live_count' = IF nodes[s].deleted THEN live_count + 1 ELSE live_count
  BY DEF AddKnown
<1>3. s \in DOMAIN nodes /\ nodes[s].id = id /\ nodes[s] \in Node
  BY <1>1, <1>2 DEF InternalId
<1> DEFINE w == [[nodes[s] EXCEPT !.vector = v] EXCEPT !.deleted = FALSE]
<1>4. Marked(nodes[s], w, v, FALSE)
  BY <1>3, MarkedNode
<1>5. nodes' = MarkedIn(nodes, s, w)
  BY <1>1, <1>2, <1>3 DEF MarkedIn
<1> HIDE DEF w
<1>6. /\ nodes' \in Seq(Node) /\ DOMAIN nodes' = DOMAIN nodes
      /\ Marked(nodes[s], nodes'[s], v, FALSE)
      /\ \A x \in DOMAIN nodes : x # s => nodes'[x] = nodes[x]
      /\ \A x \in DOMAIN nodes : nodes'[x].id = nodes[x].id
      /\ Linked(nodes') /\ Entered(nodes', entry_point, max_level)
      /\ SameEdges(nodes, nodes')
  <2>1. Linked(nodes) /\ Entered(nodes, entry_point, max_level)
    BY DEF Inv
  <2>2. Similar(nodes, nodes', s, v, FALSE)
    BY <1>1, <1>3, <1>4, <1>5, MarkedNodes
  <2> QED
    BY <2>1, <2>2 DEF Similar, SameEdges
<1>7. LiveOf(nodes') = LiveOf(nodes) \cup {s} /\ LiveOf(nodes) \subseteq DOMAIN nodes
      /\ (s \in LiveOf(nodes) <=> ~nodes[s].deleted)
  BY <1>3, <1>6 DEF LiveOf, Marked
<1>8. records' = Put(records, id, v)
  BY DEF AddKnown
<1>9. /\ records' = [x \in DOMAIN records' |-> records'[x]]
      /\ DOMAIN records' = DOMAIN records \cup {id} /\ records'[id] = v
      /\ \A x \in DOMAIN records : x # id => records'[x] = records[x]
  BY <1>8 DEF Put
<1>10. DOMAIN records' = {nodes'[x].id : x \in LiveOf(nodes')}
  <2>1. \A x \in LiveOf(nodes) : nodes'[x].id = nodes[x].id
    BY <1>6, <1>7
  <2>2. nodes'[s].id = id
    BY <1>3, <1>6
  <2> QED
    BY <1>1, <1>7, <1>9, <2>1, <2>2
<1>11. ASSUME NEW x \in LiveOf(nodes') PROVE records'[nodes'[x].id] = nodes'[x].vector
  <2>1. CASE x = s
    BY <1>3, <1>6, <1>9, <2>1 DEF Marked
  <2>2. CASE x # s
    <3>1. x \in LiveOf(nodes) /\ x \in DOMAIN nodes /\ nodes'[x] = nodes[x] /\ nodes[x].id # id
      BY <1>1, <1>3, <1>6, <1>7, <2>2
    <3>2. nodes[x].id \in DOMAIN records
      BY <1>1, <3>1
    <3> QED
      BY <1>1, <1>9, <3>1, <3>2
  <2> QED
    BY <2>1, <2>2
<1>12. Holds(nodes', records')
  BY <1>1, <1>6, <1>9, <1>10, <1>11 DEF Holds
<1>13. live_count' = Cardinality(LiveOf(nodes'))
  <2>1. live_count = Cardinality(LiveOf(nodes)) /\ IsFiniteSet(LiveOf(nodes))
    BY <1>1, Lengths DEF Inv
  <2>2. CASE nodes[s].deleted
    <3>1. Cardinality(LiveOf(nodes) \cup {s}) = Cardinality(LiveOf(nodes)) + 1
      BY <1>7, <2>1, <2>2, FS_AddElement
    <3> QED
      BY <1>2, <1>7, <2>1, <2>2, <3>1
  <2>3. CASE ~nodes[s].deleted
    <3>1. LiveOf(nodes') = LiveOf(nodes)
      BY <1>7, <2>3
    <3> QED
      BY <1>2, <2>1, <2>3, <3>1
  <2> QED
    BY <2>2, <2>3
<1> QED
  BY <1>6, <1>12, <1>13 DEF AddKnown

LEMMA RemoveKeeps ==
    ASSUME Inv, NEW id \in Ids, remove(id)
    PROVE  /\ Holds(nodes', records') /\ Linked(nodes')
           /\ Entered(nodes', entry_point', max_level')
           /\ live_count' = Cardinality(LiveOf(nodes'))
           /\ SameEdges(nodes, nodes')
<1>1. /\ nodes \in Seq(Node) /\ records = [x \in DOMAIN records |-> records[x]]
      /\ \A s, x \in DOMAIN nodes : nodes[s].id = nodes[x].id => s = x
      /\ DOMAIN records = {nodes[s].id : s \in LiveOf(nodes)}
      /\ \A s \in LiveOf(nodes) : records[nodes[s].id] = nodes[s].vector
  BY DEF Inv, Holds
<1>2. PICK s \in InternalId(id) :
         ~nodes[s].deleted /\ nodes' = [nodes EXCEPT ![s].deleted = TRUE]
  BY DEF remove
<1>3. s \in DOMAIN nodes /\ nodes[s].id = id /\ nodes[s] \in Node /\ nodes[s].vector \in Points
  BY <1>1, <1>2, NodeFacts DEF InternalId
<1> DEFINE w == [nodes[s] EXCEPT !.deleted = TRUE]
<1>4. Marked(nodes[s], w, nodes[s].vector, TRUE)
  BY <1>3, MarkedNode
<1>5. nodes' = MarkedIn(nodes, s, w)
  BY <1>2 DEF MarkedIn
<1> HIDE DEF w
<1>6. /\ nodes' \in Seq(Node) /\ DOMAIN nodes' = DOMAIN nodes
      /\ Marked(nodes[s], nodes'[s], nodes[s].vector, TRUE)
      /\ \A x \in DOMAIN nodes : x # s => nodes'[x] = nodes[x]
      /\ \A x \in DOMAIN nodes : nodes'[x].id = nodes[x].id
      /\ Linked(nodes') /\ Entered(nodes', entry_point, max_level)
      /\ SameEdges(nodes, nodes')
  <2>1. Linked(nodes) /\ Entered(nodes, entry_point, max_level)
    BY DEF Inv
  <2>2. Similar(nodes, nodes', s, nodes[s].vector, TRUE)
    BY <1>1, <1>3, <1>4, <1>5, MarkedNodes
  <2> QED
    BY <2>1, <2>2 DEF Similar, SameEdges
<1>7. LiveOf(nodes') = LiveOf(nodes) \ {s} /\ LiveOf(nodes) \subseteq DOMAIN nodes
      /\ s \in LiveOf(nodes)
  BY <1>2, <1>3, <1>6 DEF LiveOf, Marked
<1>8. records' = Erase(records, id)
  BY DEF remove
<1>9. /\ records' = [x \in DOMAIN records' |-> records'[x]]
      /\ DOMAIN records' = DOMAIN records \ {id}
      /\ \A x \in DOMAIN records \ {id} : records'[x] = records[x]
  BY <1>8 DEF Erase
<1>10. \A x \in LiveOf(nodes') : /\ x \in LiveOf(nodes) /\ nodes'[x] = nodes[x] /\ nodes[x].id # id
                                 /\ nodes[x].id \in DOMAIN records
  BY <1>1, <1>3, <1>6, <1>7
<1>11. DOMAIN records' = {nodes'[x].id : x \in LiveOf(nodes')}
  BY <1>1, <1>3, <1>7, <1>9, <1>10
<1>12. Holds(nodes', records')
  <2>1. \A x \in LiveOf(nodes') : records'[nodes'[x].id] = nodes'[x].vector
    BY <1>1, <1>9, <1>10
  <2> QED
    BY <1>1, <1>6, <1>9, <1>11, <2>1 DEF Holds
<1>13. live_count' = Cardinality(LiveOf(nodes'))
  <2>1. live_count = Cardinality(LiveOf(nodes)) /\ IsFiniteSet(LiveOf(nodes))
    BY <1>1, Lengths DEF Inv
  <2>2. Cardinality(LiveOf(nodes) \ {s}) = Cardinality(LiveOf(nodes)) - 1
    BY <1>7, <2>1, FS_RemoveElement
  <2> QED
    BY <1>7, <2>1, <2>2 DEF remove
<1> QED
  BY <1>6, <1>12, <1>13 DEF remove

-----------------------------------------------------------------------------
(* A save and a load                                                        *)

LessOn(S) == {p \in S \X S : p[1] < p[2]}
ById(ns) == {p \in LiveOf(ns) \X LiveOf(ns) : ns[p[1]].id < ns[p[2]].id}

LEMMA AscendingIs ==
    ASSUME NEW S \in SUBSET Int, IsFiniteSet(S)
    PROVE  /\ StrictOrder(S, LessOn(S)) /\ Sorts(Ascending(S), S, LessOn(S))
           /\ Ascending(S) \in Seq(S) /\ NoRepeats(Ascending(S))
           /\ Elements(Ascending(S)) = S /\ Len(Ascending(S)) = Cardinality(S)
<1>1. StrictOrder(S, LessOn(S))
  BY DEF StrictOrder, LessOn
<1>2. Ascending(S) = Sorted(S, LessOn(S))
  BY DEF Ascending, LessOn
<1> DEFINE o == Ascending(S)
<1>3. Sorts(o, S, LessOn(S))
  BY <1>1, <1>2, SortedIs
<1> HIDE DEF o
<1>4. /\ \A i, j \in 1..Cardinality(S) : o[i] = o[j] => i = j
      /\ o \in Seq(S) /\ Len(o) = Cardinality(S) /\ Elements(o) = S
  BY <1>1, <1>3, SortedOnce
<1>5. NoRepeats(o)
  BY <1>4 DEF NoRepeats
<1> QED
  BY <1>1, <1>3, <1>4, <1>5 DEF o

\* live lists the live nodes of ns by ascending identifier.
Canonical(ns, live) ==
    /\ Sorts(live, LiveOf(ns), ById(ns))
    /\ live \in Seq(LiveOf(ns)) /\ Len(live) = Cardinality(LiveOf(ns))
    /\ Elements(live) = LiveOf(ns) /\ NoRepeats(live)

LEMMA CanonicalIs ==
    ASSUME NEW ns \in Seq(Node), \A s, x \in DOMAIN ns : ns[s].id = ns[x].id => s = x
    PROVE  StrictOrder(LiveOf(ns), ById(ns)) /\ Canonical(ns, CanonicalOrder(ns))
<1> DEFINE S == LiveOf(ns)
           o == CanonicalOrder(ns)
<1>1. S \in SUBSET DOMAIN ns /\ IsFiniteSet(S)
  BY Lengths
<1>2. \A s \in S : ns[s].id \in Int
  BY <1>1, NodeFacts, MetricAssumption
<1>3. \A s, x \in S : ns[s].id = ns[x].id => s = x
  BY <1>1
<1>4. StrictOrder(S, ById(ns))
  <2>1. \A s, x \in S : <<s, x>> \in ById(ns) <=> ns[s].id < ns[x].id
    BY DEF ById
  <2> HIDE DEF S
  <2>2. ASSUME NEW x \in S, NEW y \in S, NEW z \in S, <<x, y>> \in ById(ns), <<y, z>> \in ById(ns)
        PROVE  <<x, z>> \in ById(ns)
    <3>1. ns[x].id < ns[y].id /\ ns[y].id < ns[z].id
      BY <2>1, <2>2
    <3>2. ns[x].id < ns[z].id
      BY <1>2, <3>1
    <3> QED
      BY <2>1, <3>2
  <2>3. ASSUME NEW x \in S, NEW y \in S, x # y
        PROVE  <<x, y>> \in ById(ns) \/ <<y, x>> \in ById(ns)
    <3>1. ns[x].id # ns[y].id /\ ns[x].id \in Int /\ ns[y].id \in Int
      BY <1>2, <1>3, <2>3
    <3>2. ns[x].id < ns[y].id \/ ns[y].id < ns[x].id
      BY <3>1
    <3> QED
      BY <2>1, <3>2
  <2>4. \A x \in S : <<x, x>> \notin ById(ns)
    BY <1>2, <2>1
  <2> QED
    BY <2>2, <2>3, <2>4 DEF StrictOrder
<1>5. o = Sorted(S, ById(ns))
  BY DEF CanonicalOrder, LiveOf, ById
<1> HIDE DEF o
<1>6. Sorts(o, S, ById(ns))
  BY <1>1, <1>4, <1>5, SortedIs
<1>7. /\ \A i, j \in 1..Cardinality(S) : o[i] = o[j] => i = j
      /\ o \in Seq(S) /\ Len(o) = Cardinality(S) /\ Elements(o) = S
  BY <1>1, <1>4, <1>6, SortedOnce
<1>8. NoRepeats(o)
  BY <1>7 DEF NoRepeats
<1> QED
  BY <1>4, <1>6, <1>7, <1>8 DEF Canonical, o

\* The positions in live of the nodes a list leads to.
ListIn(live, list) == {c \in DOMAIN live : live[c] \in Elements(list)}

LEMMA RemappedIs ==
    ASSUME NEW S, NEW live \in Seq(S), NoRepeats(live), NEW list \in Seq(Nat), NoRepeats(list)
    PROVE  LET r == Remapped(live, list)
           IN  /\ r \in Seq(1..Len(live)) /\ r \in Seq(Nat) /\ NoRepeats(r)
               /\ Elements(r) = ListIn(live, list) /\ Len(r) =< Len(list)
               /\ r = Ascending(Elements(r))
<1> DEFINE T == ListIn(live, list)
           r == Remapped(live, list)
           f == [c \in T |-> live[c]]
<1>1. Len(live) \in Nat /\ DOMAIN live = 1..Len(live) /\ T \in SUBSET (1..Len(live))
  BY DEF ListIn
<1>2. IsFiniteSet(T) /\ T \in SUBSET Int
  <2>1. IsFiniteSet(1..Len(live))
    BY <1>1, FS_Interval
  <2> HIDE DEF T
  <2>2. IsFiniteSet(T)
    BY <1>1, <2>1, FS_Subset
  <2> QED
    BY <1>1, <2>2
<1>3. r = Ascending(T)
  BY DEF Remapped, ListIn
<1> HIDE DEF r
<1>4. /\ r \in Seq(T) /\ NoRepeats(r) /\ Elements(r) = T /\ Len(r) = Cardinality(T)
  <2> HIDE DEF T
  <2> QED
    BY <1>2, <1>3, AscendingIs
<1>5. r \in Seq(1..Len(live)) /\ r \in Seq(Nat)
  <2>1. T \subseteq Nat /\ T \subseteq 1..Len(live)
    BY <1>1
  <2> HIDE DEF T
  <2> QED
    BY <1>4, <2>1, SeqOfMore
<1>6. Cardinality(Elements(list)) = Len(list) /\ IsFiniteSet(Elements(list))
  BY ListCounts
<1>7. f \in Injection(T, Elements(list))
  <2>1. \A c \in T : live[c] \in Elements(list)
    BY DEF ListIn
  <2>2. \A b, c \in T : live[b] = live[c] => b = c
    BY <1>1 DEF NoRepeats
  <2> HIDE DEF T
  <2> QED
    BY <2>1, <2>2 DEF Injection, IsInjective
<1> HIDE DEF f
<1>8. Cardinality(T) =< Cardinality(Elements(list))
  <2> HIDE DEF T
  <2> QED
    BY <1>6, <1>7, FS_Injection
<1> QED
  BY <1>3, <1>4, <1>5, <1>6, <1>8 DEF r

\* The nodes of a region.
RegionOf(ns, live) ==
    [c \in DOMAIN live |->
        [id |-> ns[live[c]].id, top_layer |-> ns[live[c]].top_layer,
         neighbors |-> [layer \in 0..ns[live[c]].top_layer |->
                          Remapped(live, ns[live[c]].neighbors[layer])]]]

LEMMA SerializeIs ==
    ASSUME NEW ns \in Seq(Node), \A s, x \in DOMAIN ns : ns[s].id = ns[x].id => s = x
    PROVE  LET r == serialize(ns)
               live == CanonicalOrder(ns)
               n == Cardinality(LiveOf(ns))
           IN  /\ n \in Nat /\ live \in Seq(LiveOf(ns)) /\ Len(live) = n /\ DOMAIN live = 1..n
               /\ \A c \in 1..n : live[c] \in LiveOf(ns) /\ live[c] \in DOMAIN ns
               /\ r.nodes = RegionOf(ns, live)
               /\ n = 0 => r.entry = 0 /\ r.max_level = -1
               /\ n # 0 => /\ r.entry \in 1..n /\ r.max_level = ns[live[r.entry]].top_layer
                           /\ \A c \in 1..n : ns[live[c]].top_layer =< r.max_level
<1> DEFINE live == CanonicalOrder(ns)
           n == Cardinality(LiveOf(ns))
           top(c) == ns[live[c]].top_layer
           highest == {c \in DOMAIN live : \A b \in DOMAIN live : top(b) =< top(c)}
           first == CHOOSE c \in highest : \A b \in highest : c =< b
           D == [c \in DOMAIN live |-> -top(c)]
           r == serialize(ns)
<1>1. n \in Nat /\ LiveOf(ns) \in SUBSET DOMAIN ns
  BY Lengths
<1>2. live \in Seq(LiveOf(ns)) /\ Len(live) = n
  BY CanonicalIs DEF Canonical
<1>3. /\ r.max_level = IF live = << >> THEN -1 ELSE top(first)
      /\ r.entry = IF live = << >> THEN 0 ELSE first
      /\ r.nodes = RegionOf(ns, live)
  BY DEF serialize, RegionOf
<1> HIDE DEF live, r
<1>4. DOMAIN live = 1..n /\ (live = << >> <=> n = 0)
      /\ \A c \in 1..n : live[c] \in LiveOf(ns) /\ live[c] \in DOMAIN ns
  BY <1>1, <1>2
<1> HIDE DEF n
<1>5. \A c \in 1..n : top(c) \in Nat
  BY <1>4, NodeFacts
<1>6. CASE n = 0
  <2>1. r.entry = 0 /\ r.max_level = -1
    BY <1>3, <1>4, <1>6
  <2> QED
    BY <1>1, <1>2, <1>3, <1>4, <1>6, <2>1 DEF n, live, r
<1>7. CASE n # 0
  <2>1. /\ DOMAIN live \in SUBSET Int /\ IsFiniteSet(DOMAIN live) /\ DOMAIN live # {}
        /\ D \in [DOMAIN live -> Int]
    <3>1. IsFiniteSet(1..n) /\ 1 \in 1..n /\ 1..n \in SUBSET Int
      BY <1>1, <1>7, FS_Interval
    <3> HIDE DEF top
    <3> QED
      BY <1>4, <1>5, <3>1
  <2>2. highest = {c \in DOMAIN live : \A b \in DOMAIN live : D[c] =< D[b]}
    <3>1. ASSUME NEW c \in DOMAIN live, NEW b \in DOMAIN live
          PROVE  top(b) =< top(c) <=> D[c] =< D[b]
      <4>1. top(b) \in Nat /\ top(c) \in Nat /\ D[c] = -top(c) /\ D[b] = -top(b)
        BY <1>4, <1>5
      <4> HIDE DEF top, D
      <4> QED
        BY <4>1
    <3> HIDE DEF top, D
    <3> QED
      BY <3>1
  <2> HIDE DEF D, highest
  <2>3. \E c \in highest : \A b \in highest : c =< b
    BY <2>1, <2>2, FirstLeast
  <2>4. first \in highest
    BY <2>3
  <2> HIDE DEF first
  <2>5. first \in 1..n /\ \A c \in 1..n : top(c) =< top(first)
    BY <1>4, <2>4 DEF highest
  <2>6. r.entry = first /\ r.max_level = top(first)
    BY <1>3, <1>4, <1>7
  <2>7. r.entry \in 1..n /\ r.max_level = ns[live[r.entry]].top_layer
        /\ \A c \in 1..n : ns[live[c]].top_layer =< r.max_level
    BY <2>5, <2>6
  <2> QED
    BY <1>1, <1>2, <1>3, <1>4, <1>7, <2>7 DEF n, live, r
<1> QED
  BY <1>6, <1>7

\* The links of the node at position c of a region, back in the index.
RegionNode(ns, live, c) ==
    [id |-> ns[live[c]].id, vector |-> ns[live[c]].vector, top_layer |-> ns[live[c]].top_layer,
     deleted |-> FALSE,
     neighbors |-> [layer \in 0..ns[live[c]].top_layer |->
                      Remapped(live, ns[live[c]].neighbors[layer])]]

Restores(ns, live, s, w) ==
    /\ w \in Node /\ w.id = ns[s].id /\ w.vector = ns[s].vector
    /\ w.top_layer = ns[s].top_layer /\ w.deleted = FALSE
    /\ \A layer \in 0..ns[s].top_layer :
          LET list == w.neighbors[layer]
          IN  /\ list = Remapped(live, ns[s].neighbors[layer])
              /\ list \in Seq(1..Len(live)) /\ NoRepeats(list)
              /\ Elements(list) = ListIn(live, ns[s].neighbors[layer])
              /\ Len(list) =< max_neighbors_for_layer(layer)
              /\ list = Ascending(Elements(list))

LEMMA RegionNodeIs ==
    ASSUME NEW ns \in Seq(Node), Linked(ns), NEW live \in Seq(LiveOf(ns)), NoRepeats(live),
           NEW c \in DOMAIN live
    PROVE  Restores(ns, live, live[c], RegionNode(ns, live, c))
<1> DEFINE w == RegionNode(ns, live, c)
           s == live[c]
           t == ns[s].top_layer
           nb == [layer \in 0..t |-> Remapped(live, ns[s].neighbors[layer])]
<1>1. s \in DOMAIN ns
  BY DEF LiveOf
<1> HIDE DEF s
<1>2. ns[s].id \in Ids /\ ns[s].vector \in Points /\ t \in 0..MaxLevel /\ t \in Nat
  BY <1>1, NodeFacts
<1>3. w = [id |-> ns[s].id, vector |-> ns[s].vector, top_layer |-> t, deleted |-> FALSE,
           neighbors |-> nb]
  BY DEF RegionNode, s
<1> HIDE DEF w, t
<1>4. ASSUME NEW layer \in 0..t
      PROVE  LET r == Remapped(live, ns[s].neighbors[layer])
             IN  /\ r \in Seq(1..Len(live)) /\ r \in Seq(Nat) /\ NoRepeats(r)
                 /\ Elements(r) = ListIn(live, ns[s].neighbors[layer])
                 /\ Len(r) =< max_neighbors_for_layer(layer)
                 /\ r = Ascending(Elements(r))
  <2> DEFINE list == ns[s].neighbors[layer]
             r == Remapped(live, list)
  <2>1. list \in Seq(Nat) /\ NoRepeats(list) /\ Len(list) =< max_neighbors_for_layer(layer)
    BY <1>1, ListOf DEF t, LinksOf
  <2> HIDE DEF list
  <2>2. /\ r \in Seq(1..Len(live)) /\ r \in Seq(Nat) /\ NoRepeats(r)
        /\ Elements(r) = ListIn(live, list) /\ Len(r) =< Len(list)
        /\ r = Ascending(Elements(r))
    BY <2>1, RemappedIs
  <2>3. Len(r) \in Nat /\ Len(list) \in Nat /\ max_neighbors_for_layer(layer) \in Nat
    BY <2>1, <2>2, CapIs
  <2> HIDE DEF r
  <2>4. Len(r) =< max_neighbors_for_layer(layer)
    BY <2>1, <2>2, <2>3
  <2> QED
    BY <2>2, <2>4 DEF r, list
<1>5. nb \in [0..t -> Seq(Nat)]
      /\ \A layer \in 0..t : nb[layer] = Remapped(live, ns[s].neighbors[layer])
  BY <1>4
<1> HIDE DEF nb
<1>6. w \in [id: Ids, vector: Points, top_layer: {t}, deleted: BOOLEAN,
             neighbors: [0..t -> Seq(Nat)]]
  BY <1>2, <1>3, <1>5
<1>7. w \in Node
  BY <1>2, <1>6 DEF Node
<1>8. /\ w.id = ns[s].id /\ w.vector = ns[s].vector /\ w.top_layer = t /\ w.deleted = FALSE
      /\ w.neighbors = nb
  BY <1>3
<1> QED
  BY <1>4, <1>5, <1>7, <1>8 DEF Restores, w, s, t

\* What a load makes of the saved region: the live nodes, by ascending identifier.
LEMMA LoadIs ==
    ASSUME NEW ns, NEW recs, Holds(ns, recs), Linked(ns)
    PROVE  LET r == serialize(ns)
               d == deserialize(r, recs)
               live == CanonicalOrder(ns)
               n == Cardinality(LiveOf(ns))
           IN  /\ WellFormed(r, recs)
               /\ d.nodes \in Seq(Node) /\ Len(d.nodes) = n
               /\ \A c \in 1..n : d.nodes[c] = RegionNode(ns, live, c)
               /\ Holds(d.nodes, recs) /\ Linked(d.nodes)
               /\ Entered(d.nodes, d.entry_point, d.max_level)
               /\ d.live_count = n /\ LiveOf(d.nodes) = 1..n
<1> DEFINE r == serialize(ns)
           d == deserialize(r, recs)
           live == CanonicalOrder(ns)
           n == Cardinality(LiveOf(ns))
           ms == d.nodes
<1>1. /\ ns \in Seq(Node) /\ \A s, x \in DOMAIN ns : ns[s].id = ns[x].id => s = x
      /\ recs = [id \in DOMAIN recs |-> recs[id]]
      /\ DOMAIN recs = {ns[s].id : s \in LiveOf(ns)}
      /\ \A s \in LiveOf(ns) : recs[ns[s].id] = ns[s].vector
  BY DEF Holds
<1>2. /\ n \in Nat /\ live \in Seq(LiveOf(ns)) /\ Len(live) = n /\ DOMAIN live = 1..n
      /\ \A c \in 1..n : live[c] \in LiveOf(ns) /\ live[c] \in DOMAIN ns
      /\ r.nodes = RegionOf(ns, live)
      /\ n = 0 => r.entry = 0 /\ r.max_level = -1
      /\ n # 0 => /\ r.entry \in 1..n /\ r.max_level = ns[live[r.entry]].top_layer
                  /\ \A c \in 1..n : ns[live[c]].top_layer =< r.max_level
  BY <1>1, SerializeIs
<1>3. NoRepeats(live) /\ Elements(live) = LiveOf(ns)
  BY <1>1, CanonicalIs DEF Canonical
<1>4. /\ d.nodes = [c \in DOMAIN r.nodes |->
                      [id |-> r.nodes[c].id, vector |-> recs[r.nodes[c].id],
                       top_layer |-> r.nodes[c].top_layer, deleted |-> FALSE,
                       neighbors |-> r.nodes[c].neighbors]]
      /\ d.entry_point = (IF r.nodes = << >> THEN 0 ELSE r.entry)
      /\ d.max_level = r.max_level /\ d.live_count = Len(r.nodes)
  BY DEF deserialize
<1> HIDE DEF r, live, n, d
<1> DEFINE rn == r.nodes
<1>15. rn = RegionOf(ns, live)
  BY <1>2
<1>16. /\ ms = [c \in DOMAIN rn |->
                  [id |-> rn[c].id, vector |-> recs[rn[c].id], top_layer |-> rn[c].top_layer,
                   deleted |-> FALSE, neighbors |-> rn[c].neighbors]]
       /\ d.entry_point = (IF rn = << >> THEN 0 ELSE r.entry)
       /\ d.max_level = r.max_level /\ d.live_count = Len(rn)
  BY <1>4
<1> HIDE DEF rn, ms
<1>17. n \in Nat /\ DOMAIN live = 1..n
       /\ \A c \in 1..n : live[c] \in LiveOf(ns) /\ live[c] \in DOMAIN ns
  BY <1>2
<1>5. /\ DOMAIN rn = 1..n /\ rn = [c \in 1..n |-> rn[c]]
      /\ \A c \in 1..n : rn[c].id = ns[live[c]].id
      /\ \A c \in 1..n : rn[c].top_layer = ns[live[c]].top_layer
      /\ \A c \in 1..n : rn[c].neighbors = [layer \in 0..ns[live[c]].top_layer |->
                                             Remapped(live, ns[live[c]].neighbors[layer])]
  BY <1>15, <1>17 DEF RegionOf
<1>6. Len(rn) = n /\ (rn = << >> <=> n = 0)
  <2> DEFINE S == {rn[i] : i \in 1..n}
  <2>1. \A c \in 1..n : rn[c] \in S
    OBVIOUS
  <2> HIDE DEF S
  <2>2. rn \in Seq(S) /\ Len(rn) = n
    BY <1>5, <1>17, <2>1, SeqByParts
  <2> QED
    BY <1>17, <2>2
\* The nodes loaded.
<1>18. ASSUME NEW c \in 1..n PROVE ms[c] = RegionNode(ns, live, c)
  <2>1. recs[rn[c].id] = ns[live[c]].vector
    BY <1>1, <1>5, <1>17
  <2>2. ms[c] = [id |-> rn[c].id, vector |-> recs[rn[c].id], top_layer |-> rn[c].top_layer,
                 deleted |-> FALSE, neighbors |-> rn[c].neighbors]
    BY <1>5, <1>16
  <2> QED
    BY <1>5, <2>1, <2>2 DEF RegionNode
<1>21. live \in Seq(LiveOf(ns)) /\ NoRepeats(live) /\ Elements(live) = LiveOf(ns)
  BY <1>2, <1>3
<1>7. ASSUME NEW c \in 1..n PROVE Restores(ns, live, live[c], ms[c])
  <2>1. c \in DOMAIN live
    BY <1>17
  <2> QED
    BY <1>1, <1>18, <1>21, <2>1, RegionNodeIs
<1>19. \A c \in 1..n : /\ ms[c] \in Node /\ ms[c].id = ns[live[c]].id
                       /\ ms[c].vector = ns[live[c]].vector
                       /\ ms[c].top_layer = ns[live[c]].top_layer /\ ms[c].deleted = FALSE
  BY <1>7 DEF Restores
<1>20. ASSUME NEW c \in 1..n, NEW layer \in 0..ns[live[c]].top_layer
       PROVE  LET list == ms[c].neighbors[layer]
              IN  /\ list \in Seq(1..n) /\ NoRepeats(list)
                  /\ Elements(list) = ListIn(live, ns[live[c]].neighbors[layer])
                  /\ Elements(list) \subseteq 1..n
                  /\ Len(list) =< max_neighbors_for_layer(layer)
                  /\ rn[c].neighbors[layer] = list
  <2> DEFINE list == ms[c].neighbors[layer]
  <2>1. /\ list \in Seq(1..Len(live)) /\ NoRepeats(list)
        /\ list = Remapped(live, ns[live[c]].neighbors[layer])
        /\ Elements(list) = ListIn(live, ns[live[c]].neighbors[layer])
        /\ Len(list) =< max_neighbors_for_layer(layer)
    BY <1>7 DEF Restores
  <2> HIDE DEF list
  <2>2. Elements(list) \subseteq 1..n
    BY <1>17, <2>1 DEF ListIn
  <2>3. rn[c].neighbors[layer] = list
    BY <1>5, <2>1
  <2> QED
    BY <1>2, <2>1, <2>2, <2>3 DEF list
<1>8. ms \in Seq(Node) /\ Len(ms) = n /\ DOMAIN ms = 1..n
  <2>1. ms = [c \in 1..n |-> ms[c]] /\ DOMAIN ms = 1..n
    BY <1>5, <1>16
  <2> QED
    BY <1>17, <1>19, <2>1, SeqByParts
<1>9. \A b, c \in 1..n : ns[live[b]].id = ns[live[c]].id => b = c
  BY <1>1, <1>3, <1>17 DEF NoRepeats
<1>10. WellFormed(r, recs)
  <2>1. ASSUME NEW c \in 1..n
        PROVE  /\ rn[c].top_layer >= 0 /\ rn[c].id \in DOMAIN recs
               /\ \A layer \in 0..rn[c].top_layer : Elements(rn[c].neighbors[layer]) \subseteq 1..n
               /\ \A b \in 1..(c - 1) : rn[b].id # rn[c].id
    <3>1. ns[live[c]].top_layer \in Nat
      BY <1>1, <1>17, NodeFacts
    <3>2. rn[c].id \in DOMAIN recs
      BY <1>1, <1>5, <1>17
    <3>3. \A layer \in 0..ns[live[c]].top_layer : Elements(rn[c].neighbors[layer]) \subseteq 1..n
      BY <1>20
    <3>4. ASSUME NEW b \in 1..(c - 1) PROVE rn[b].id # rn[c].id
      <4>1. b \in 1..n /\ b # c
        BY <1>17
      <4> QED
        BY <1>5, <1>9, <4>1
    <3>5. rn[c].top_layer = ns[live[c]].top_layer
      BY <1>5
    <3> QED
      BY <3>1, <3>2, <3>3, <3>4, <3>5
  <2>2. n > 0 => r.entry \in 1..n
    BY <1>2
  <2> QED
    BY <1>6, <2>1, <2>2 DEF WellFormed, rn
<1>11. LiveOf(ms) = 1..n
  BY <1>8, <1>19 DEF LiveOf
<1>12. Holds(ms, recs)
  <2>1. \A b, c \in DOMAIN ms : ms[b].id = ms[c].id => b = c
    BY <1>8, <1>9, <1>19
  <2>2. {ms[c].id : c \in LiveOf(ms)} = {ns[s].id : s \in LiveOf(ns)}
    <3>1. \A s \in LiveOf(ns) : \E c \in 1..n : live[c] = s
      BY <1>3, <1>17 DEF Elements
    <3> QED
      BY <1>11, <1>17, <1>19, <3>1
  <2>3. \A c \in LiveOf(ms) : recs[ms[c].id] = ms[c].vector
    BY <1>1, <1>11, <1>17, <1>19
  <2> QED
    BY <1>1, <1>8, <2>1, <2>2, <2>3 DEF Holds
<1>13. Linked(ms)
  <2>1. ASSUME NEW c \in DOMAIN ms, NEW layer \in 0..ms[c].top_layer
        PROVE  LinksOf(ms, c, layer, ms[c].neighbors[layer])
    <3> DEFINE list == ms[c].neighbors[layer]
    <3>1. c \in 1..n /\ layer \in 0..ns[live[c]].top_layer
      BY <1>8, <1>19, <2>1
    <3>2. /\ NoRepeats(list) /\ Len(list) =< max_neighbors_for_layer(layer)
          /\ Elements(list) = ListIn(live, ns[live[c]].neighbors[layer])
      BY <1>20, <3>1
    <3>3. Elements(ns[live[c]].neighbors[layer]) \subseteq OnLayer(ns, layer) \ {live[c]}
      BY <1>17, <3>1 DEF Linked, LinksOf
    <3> HIDE DEF list
    <3>4. ASSUME NEW b \in Elements(list) PROVE b \in OnLayer(ms, layer) \ {c}
      <4>1. b \in 1..n /\ live[b] \in OnLayer(ns, layer) /\ live[b] # live[c]
        BY <1>17, <3>2, <3>3, <3>4 DEF ListIn
      <4> QED
        BY <1>8, <1>19, <4>1 DEF OnLayer
    <3>5. Elements(list) \subseteq OnLayer(ms, layer) \ {c}
      BY <3>4
    <3> QED
      BY <3>2, <3>5 DEF LinksOf, list
  <2> QED
    BY <2>1 DEF Linked
<1>14. Entered(ms, d.entry_point, d.max_level)
  <2>1. ms = << >> <=> n = 0
    BY <1>2, <1>8
  <2>2. CASE n = 0
    BY <1>2, <1>6, <1>16, <2>1, <2>2 DEF Entered
  <2>3. CASE n # 0
    <3>1. d.entry_point \in 1..n /\ d.max_level = ns[live[d.entry_point]].top_layer
          /\ \A c \in 1..n : ns[live[c]].top_layer =< d.max_level
      BY <1>2, <1>6, <1>16, <2>3
    <3> QED
      BY <1>8, <1>19, <2>1, <2>3, <3>1 DEF Entered
  <2> QED
    BY <2>2, <2>3
<1> QED
  BY <1>6, <1>8, <1>10, <1>11, <1>12, <1>13, <1>14, <1>16, <1>18 DEF ms, d, r, live, n

-----------------------------------------------------------------------------
(* The invariant                                                            *)

LEMMA InvInit == Init => Inv
<1> SUFFICES ASSUME Init PROVE Inv
  OBVIOUS
<1>1. /\ nodes = << >> /\ entry_point = 0 /\ max_level = -1 /\ live_count = 0
      /\ records = EmptyMap /\ reloaded = FALSE /\ ops = 0
  BY DEF Init
<1>2. << >> \in Seq(Node) /\ DOMAIN << >> = {}
  OBVIOUS
<1>3. LiveOf(<< >>) = {}
  BY <1>2 DEF LiveOf
<1>4. DOMAIN EmptyMap = {} /\ EmptyMap = [x \in DOMAIN EmptyMap |-> EmptyMap[x]]
  BY DEF EmptyMap
<1>5. Holds(nodes, records)
  BY <1>1, <1>2, <1>3, <1>4 DEF Holds
<1>6. Linked(nodes)
  BY <1>1, <1>2 DEF Linked
<1>7. Entered(nodes, entry_point, max_level)
  BY <1>1 DEF Entered
<1>8. live_count = Cardinality(LiveOf(nodes))
  BY <1>1, <1>3, FS_EmptySet
<1>9. reloaded \in BOOLEAN
  BY <1>1
<1>10. MaxOps \in Nat
  BY ParamAssumption
<1>11. 0 \in 0..MaxOps
  BY <1>10
<1>12. ops \in 0..MaxOps
  BY <1>1, <1>11
<1> QED
  BY <1>5, <1>6, <1>7, <1>8, <1>9, <1>12 DEF Inv

LEMMA InvNext == ASSUME Inv, [Next]_vars PROVE Inv'
<1>1. CASE UNCHANGED vars
  <2>1. /\ nodes' = nodes /\ entry_point' = entry_point /\ max_level' = max_level
        /\ live_count' = live_count /\ records' = records /\ reloaded' = reloaded /\ ops' = ops
    BY <1>1 DEF vars
  <2> QED
    BY <2>1 DEF Inv
<1>2. ASSUME /\ Holds(nodes', records') /\ Linked(nodes')
             /\ Entered(nodes', entry_point', max_level')
             /\ live_count' = Cardinality(LiveOf(nodes')),
             reloaded' \in BOOLEAN, ops' \in 0..MaxOps
      PROVE  Inv'
  BY <1>2 DEF Inv
<1>3. ASSUME Counted PROVE ops' \in 0..MaxOps
  BY <1>3, ParamAssumption DEF Counted, Inv
<1>4. ASSUME NEW id \in Ids, NEW v \in VectorsOf[id], NEW level \in random_top_layer,
             AddNew(id, v, level)
      PROVE  Inv'
  <2>1. v \in Points /\ level \in 0..MaxLevel
    BY MetricAssumption DEF random_top_layer
  <2>2. Counted /\ reloaded' = reloaded
    BY <1>4 DEF AddNew
  <2>3. reloaded' \in BOOLEAN
    BY <2>2 DEF Inv
  <2> QED
    BY <1>2, <1>3, <1>4, <2>1, <2>2, <2>3, AddNewKeeps
<1>5. ASSUME NEW id \in Ids, NEW v \in VectorsOf[id], AddKnown(id, v) PROVE Inv'
  <2>1. v \in Points
    BY MetricAssumption
  <2>2. Counted /\ reloaded' = reloaded
    BY <1>5 DEF AddKnown
  <2>3. reloaded' \in BOOLEAN
    BY <2>2 DEF Inv
  <2> QED
    BY <1>2, <1>3, <1>5, <2>1, <2>2, <2>3, AddKnownKeeps
<1>6. ASSUME NEW id \in Ids, remove(id) PROVE Inv'
  <2>1. Counted /\ reloaded' = reloaded
    BY <1>6 DEF remove
  <2>2. reloaded' \in BOOLEAN
    BY <2>1 DEF Inv
  <2> QED
    BY <1>2, <1>3, <1>6, <2>1, <2>2, RemoveKeeps
<1>7. CASE Reload
  <2> DEFINE d == deserialize(serialize(nodes), records)
             n == Cardinality(LiveOf(nodes))
  <2>1. Holds(nodes, records) /\ Linked(nodes)
    BY DEF Inv
  <2>2. /\ Holds(d.nodes, records) /\ Linked(d.nodes)
        /\ Entered(d.nodes, d.entry_point, d.max_level)
        /\ d.live_count = n /\ LiveOf(d.nodes) = 1..n
    BY <2>1, LoadIs
  <2>3. /\ nodes' = d.nodes /\ entry_point' = d.entry_point /\ max_level' = d.max_level
        /\ live_count' = d.live_count /\ records' = records /\ ops' = ops
        /\ reloaded' = (reloaded \/ \E s \in DOMAIN nodes : nodes[s].deleted)
    BY <1>7 DEF Reload
  <2> HIDE DEF d
  <2>4. n \in Nat
    BY <2>1, Lengths DEF Holds
  <2> HIDE DEF n
  <2>5. Cardinality(1..n) = n
    BY <2>4, FS_Interval
  <2>6. reloaded' \in BOOLEAN
    BY <2>3, Zenon DEF Inv
  <2>7. ops' \in 0..MaxOps
    BY <2>3 DEF Inv
  <2>8. /\ Holds(nodes', records') /\ Linked(nodes')
        /\ Entered(nodes', entry_point', max_level')
        /\ live_count' = Cardinality(LiveOf(nodes'))
    BY <2>2, <2>3, <2>5
  <2> QED
    BY <1>2, <2>6, <2>7, <2>8
<1> QED
  BY <1>1, <1>4, <1>5, <1>6, <1>7 DEF Next

LEMMA InvHolds == Spec => []Inv
<1>1. Init => Inv
  BY InvInit
<1>2. Inv /\ [Next]_vars => Inv'
  BY InvNext
<1> QED
  BY <1>1, <1>2, PTL DEF Spec

LEMMA IndexAgreesOf == ASSUME Inv PROVE IndexAgrees
<1>1. /\ nodes \in Seq(Node) /\ \A s, x \in DOMAIN nodes : nodes[s].id = nodes[x].id => s = x
      /\ records = [id \in DOMAIN records |-> records[id]]
      /\ DOMAIN records = {nodes[s].id : s \in LiveOf(nodes)}
      /\ \A s \in LiveOf(nodes) : records[nodes[s].id] = nodes[s].vector
  BY DEF Inv, Holds
<1>2. Live = LiveOf(nodes) /\ LiveOf(nodes) \subseteq DOMAIN nodes
  BY DEF Live, LiveOf
<1>3. ASSUME NEW s \in DOMAIN nodes PROVE InternalId(nodes[s].id) = {s}
  BY <1>1 DEF InternalId
<1>4. \A id \in Ids : Cardinality(InternalId(id)) =< 1
  <2> SUFFICES ASSUME NEW id \in Ids PROVE Cardinality(InternalId(id)) =< 1
    OBVIOUS
  <2>1. CASE InternalId(id) = {}
    BY <2>1, FS_EmptySet
  <2>2. CASE InternalId(id) # {}
    <3>1. PICK s \in DOMAIN nodes : nodes[s].id = id
      BY <2>2 DEF InternalId
    <3>2. InternalId(id) = {s}
      BY <1>3, <3>1
    <3>3. Cardinality({s}) = 1
      BY FS_Singleton
    <3> QED
      BY <3>2, <3>3
  <2> QED
    BY <2>1, <2>2
<1>5. TypeOK
  <2>1. \A s \in DOMAIN nodes :
          /\ nodes[s].id \in Ids /\ nodes[s].vector \in Points
          /\ nodes[s].top_layer \in 0..MaxLevel /\ nodes[s].deleted \in BOOLEAN
          /\ DOMAIN nodes[s].neighbors = 0..nodes[s].top_layer
    BY <1>1, NodeFacts
  <2> QED
    BY <1>2, <1>4, <2>1 DEF TypeOK, Inv
<1>6. ASSUME NEW id \in DOMAIN records
      PROVE  records[id] = nodes[CHOOSE s \in InternalId(id) : TRUE].vector
  <2>1. PICK s \in LiveOf(nodes) : nodes[s].id = id
    BY <1>1
  <2>2. InternalId(id) = {s}
    BY <1>2, <1>3, <2>1
  <2>3. (CHOOSE x \in InternalId(id) : TRUE) = s
    BY <2>2
  <2> QED
    BY <1>1, <2>1, <2>3
<1>7. DOMAIN records = {nodes[s].id : s \in Live}
  BY <1>1, <1>2
<1>8. records = [id \in {nodes[s].id : s \in Live} |->
                   nodes[CHOOSE s \in InternalId(id) : TRUE].vector]
  BY <1>1, <1>6, <1>7
<1> QED
  BY <1>5, <1>8 DEF IndexAgrees

\* The live nodes hold exactly the records of the collection with their latest
\* vectors, one node for an identifier, after any sequence of add, remove, save and
\* load.
THEOREM IndexExact == Spec => []IndexAgrees
<1>1. Inv => IndexAgrees
  BY IndexAgreesOf
<1> QED
  BY <1>1, InvHolds, PTL

LEMMA GraphSoundOf == ASSUME Inv PROVE GraphSound
<1>1. nodes \in Seq(Node) /\ Linked(nodes) /\ Entered(nodes, entry_point, max_level)
  BY DEF Inv, Holds
<1>2. ASSUME NEW s \in DOMAIN nodes, NEW layer \in 0..nodes[s].top_layer
      PROVE  LET list == nodes[s].neighbors[layer]
             IN  /\ \A i \in DOMAIN list :
                      list[i] \in DOMAIN nodes \ {s} /\ layer =< nodes[list[i]].top_layer
                 /\ Cardinality(Elements(list)) = Len(list)
                 /\ Len(list) =< max_neighbors_for_layer(layer)
  <2> DEFINE list == nodes[s].neighbors[layer]
  <2>1. list \in Seq(Nat) /\ LinksOf(nodes, s, layer, list)
    BY <1>1, ListOf
  <2> HIDE DEF list
  <2>2. /\ Elements(list) \subseteq OnLayer(nodes, layer) \ {s} /\ NoRepeats(list)
        /\ Len(list) =< max_neighbors_for_layer(layer)
    BY <2>1 DEF LinksOf
  <2>3. Cardinality(Elements(list)) = Len(list)
    BY <2>1, <2>2, ListCounts
  <2>4. ASSUME NEW i \in DOMAIN list
        PROVE  list[i] \in DOMAIN nodes \ {s} /\ layer =< nodes[list[i]].top_layer
    <3>1. list[i] \in OnLayer(nodes, layer) \ {s}
      BY <2>2 DEF Elements
    <3>2. list[i] \in DOMAIN nodes \ {s} /\ layer \in 0..nodes[list[i]].top_layer
      BY <3>1 DEF OnLayer
    <3>3. nodes[list[i]].top_layer \in Nat
      BY <1>1, <3>2, NodeFacts
    <3> QED
      BY <3>2, <3>3
  <2> QED
    BY <2>2, <2>3, <2>4 DEF list
<1> QED
  BY <1>1, <1>2 DEF GraphSound, Entered

\* Every edge leads to another node of its layer, once, within the degree caps, and
\* the descent starts at a node of the highest layer, whatever the metric, the
\* parameters, the order of the operations and the levels drawn.
THEOREM GraphIsSound == Spec => []GraphSound
<1>1. Inv => GraphSound
  BY GraphSoundOf
<1> QED
  BY <1>1, InvHolds, PTL

-----------------------------------------------------------------------------
(* A second save                                                            *)

Highest(ns, live) ==
    {c \in DOMAIN live : \A b \in DOMAIN live : ns[live[b]].top_layer =< ns[live[c]].top_layer}
FirstAmong(H) == CHOOSE c \in H : \A b \in H : c =< b

Positions(n) == [c \in 1..n |-> c]

\* The nodes of an index just loaded are in canonical order.
LEMMA LoadedOrder ==
    ASSUME NEW ns, NEW recs, Holds(ns, recs), Linked(ns)
    PROVE  CanonicalOrder(deserialize(serialize(ns), recs).nodes) = Positions(Cardinality(LiveOf(ns)))
<1> DEFINE ms == deserialize(serialize(ns), recs).nodes
           n == Cardinality(LiveOf(ns))
           live == CanonicalOrder(ns)
           o == CanonicalOrder(ms)
           w == Positions(n)
<1>1. /\ ms \in Seq(Node) /\ Len(ms) = n /\ LiveOf(ms) = 1..n /\ Holds(ms, recs)
      /\ \A c \in 1..n : ms[c] = RegionNode(ns, live, c)
  BY LoadIs
<1>2. ns \in Seq(Node) /\ \A s, x \in DOMAIN ns : ns[s].id = ns[x].id => s = x
  BY DEF Holds
<1>3. Sorts(live, LiveOf(ns), ById(ns))
  BY <1>2, CanonicalIs DEF Canonical
<1>4. n \in Nat
  BY <1>2, Lengths
<1>5. /\ live \in [1..n -> LiveOf(ns)]
      /\ \A i, j \in 1..n : <<live[i], live[j]>> \in ById(ns) <=> i < j
  BY <1>3 DEF Sorts
<1> HIDE DEF ms, n, live
<1>6. \A c \in 1..n : ms[c].id = ns[live[c]].id
  BY <1>1 DEF RegionNode
<1>7. \A i, j \in 1..n : <<i, j>> \in ById(ms) <=> i < j
  <2>1. \A i, j \in 1..n : <<i, j>> \in ById(ms) <=> ms[i].id < ms[j].id
    BY <1>1 DEF ById
  <2>2. \A i, j \in 1..n : <<live[i], live[j]>> \in ById(ns) <=> ns[live[i]].id < ns[live[j]].id
    BY <1>5 DEF ById
  <2>3. \A i, j \in 1..n : ms[i].id < ms[j].id <=> ns[live[i]].id < ns[live[j]].id
    BY <1>6
  <2>4. \A i, j \in 1..n : <<i, j>> \in ById(ms) <=> <<live[i], live[j]>> \in ById(ns)
    BY ONLY <2>1, <2>2, <2>3
  <2> QED
    BY ONLY <1>5, <2>4
<1>8. Cardinality(1..n) = n /\ IsFiniteSet(1..n)
  BY <1>4, FS_Interval
<1>9. Sorts(w, 1..n, ById(ms))
  <2>1. w \in [1..n -> 1..n] /\ \A i \in 1..n : w[i] = i
    BY DEF Positions
  <2> HIDE DEF w
  <2> QED
    BY <1>7, <1>8, <2>1 DEF Sorts
<1>10. ms \in Seq(Node) /\ \A s, x \in DOMAIN ms : ms[s].id = ms[x].id => s = x
  BY <1>1 DEF Holds
<1>11. StrictOrder(LiveOf(ms), ById(ms)) /\ Sorts(o, LiveOf(ms), ById(ms))
  BY <1>10, CanonicalIs DEF Canonical
<1> HIDE DEF o, w
<1>12. o = w
  BY <1>1, <1>8, <1>9, <1>11, SortedUnique
<1> QED
  BY <1>12 DEF o, w, ms, n

LEMMA RegionIs ==
    ASSUME NEW ns
    PROVE  LET live == CanonicalOrder(ns)
               first == FirstAmong(Highest(ns, live))
           IN  serialize(ns) =
                  [max_level |-> IF live = << >> THEN -1 ELSE ns[live[first]].top_layer,
                   entry |-> IF live = << >> THEN 0 ELSE first,
                   nodes |-> RegionOf(ns, live)]
  BY DEF serialize, RegionOf, Highest, FirstAmong

\* The index loaded saves the region it came from.
LEMMA SavesTheSame ==
    ASSUME NEW ns, NEW recs, Holds(ns, recs), Linked(ns)
    PROVE  serialize(deserialize(serialize(ns), recs).nodes) = serialize(ns)
<1> DEFINE ms == deserialize(serialize(ns), recs).nodes
           n == Cardinality(LiveOf(ns))
           live == CanonicalOrder(ns)
           o == CanonicalOrder(ms)
<1>1. /\ Len(ms) = n /\ \A c \in 1..n : ms[c] = RegionNode(ns, live, c)
  BY LoadIs
<1>2. ns \in Seq(Node) /\ \A s, x \in DOMAIN ns : ns[s].id = ns[x].id => s = x
  BY DEF Holds
<1>3. /\ n \in Nat /\ live \in Seq(LiveOf(ns)) /\ Len(live) = n /\ DOMAIN live = 1..n
      /\ NoRepeats(live)
  BY <1>2, SerializeIs, CanonicalIs DEF Canonical
<1>4. o = Positions(n)
  BY LoadedOrder
<1>5. serialize(ms) =
        [max_level |-> IF o = << >> THEN -1 ELSE ms[o[FirstAmong(Highest(ms, o))]].top_layer,
         entry |-> IF o = << >> THEN 0 ELSE FirstAmong(Highest(ms, o)),
         nodes |-> RegionOf(ms, o)]
  BY RegionIs
<1>6. serialize(ns) =
        [max_level |-> IF live = << >> THEN -1
                       ELSE ns[live[FirstAmong(Highest(ns, live))]].top_layer,
         entry |-> IF live = << >> THEN 0 ELSE FirstAmong(Highest(ns, live)),
         nodes |-> RegionOf(ns, live)]
  BY RegionIs
<1> HIDE DEF ms, n, live, o
<1>7. DOMAIN o = 1..n /\ o \in Seq(Nat) /\ Len(o) = n /\ \A c \in 1..n : o[c] = c
  BY <1>3, <1>4 DEF Positions
<1>8. \A c \in 1..n : ms[o[c]] = RegionNode(ns, live, c)
  BY <1>1, <1>7
<1>9. \A c \in 1..n : Restores(ns, live, live[c], ms[c])
  BY <1>1, <1>2, <1>3, RegionNodeIs
<1>10. \A c \in 1..n : ms[o[c]].top_layer = ns[live[c]].top_layer /\ ms[o[c]].id = ns[live[c]].id
  <2> SUFFICES ASSUME NEW c \in 1..n
               PROVE  ms[o[c]].top_layer = ns[live[c]].top_layer /\ ms[o[c]].id = ns[live[c]].id
    OBVIOUS
  <2>1. ms[c].top_layer = ns[live[c]].top_layer /\ ms[c].id = ns[live[c]].id
    BY <1>9 DEF Restores
  <2> QED
    BY <1>7, <2>1
<1>11. (o = << >> <=> n = 0) /\ (live = << >> <=> n = 0)
  BY <1>3, <1>7
<1>12. Highest(ms, o) = Highest(ns, live)
  BY <1>3, <1>7, <1>10 DEF Highest
<1>13. ASSUME NEW c \in 1..n, NEW layer \in 0..ns[live[c]].top_layer
       PROVE  Remapped(o, ms[o[c]].neighbors[layer]) = Remapped(live, ns[live[c]].neighbors[layer])
  <2> DEFINE list == ms[c].neighbors[layer]
  <2>1. /\ list = Remapped(live, ns[live[c]].neighbors[layer])
        /\ list \in Seq(1..n) /\ list = Ascending(Elements(list))
    BY <1>3, <1>9 DEF Restores
  <2> HIDE DEF list
  <2>2. {b \in DOMAIN o : o[b] \in Elements(list)} = Elements(list)
    BY <1>7, <2>1 DEF Elements
  <2>3. Remapped(o, list) = Ascending(Elements(list))
    BY <2>2 DEF Remapped
  <2> QED
    BY <1>7, <2>1, <2>3 DEF list
<1>14. RegionOf(ms, o) = RegionOf(ns, live)
  <2> DEFINE A(c) == [layer \in 0..ns[live[c]].top_layer |-> Remapped(o, ms[o[c]].neighbors[layer])]
             B(c) == [layer \in 0..ns[live[c]].top_layer |->
                        Remapped(live, ns[live[c]].neighbors[layer])]
  <2>1. \A c \in 1..n : A(c) = B(c)
    BY <1>13
  <2>2. RegionOf(ms, o) = [c \in 1..n |-> [id |-> ns[live[c]].id, top_layer |-> ns[live[c]].top_layer,
                                           neighbors |-> A(c)]]
    BY <1>7, <1>10 DEF RegionOf
  <2>3. RegionOf(ns, live) = [c \in 1..n |-> [id |-> ns[live[c]].id,
                                              top_layer |-> ns[live[c]].top_layer,
                                              neighbors |-> B(c)]]
    BY <1>3 DEF RegionOf
  <2> HIDE DEF A, B
  <2> QED
    BY <2>1, <2>2, <2>3
<1>15. n # 0 => FirstAmong(Highest(ns, live)) \in 1..n
  <2> SUFFICES ASSUME n # 0 PROVE FirstAmong(Highest(ns, live)) \in 1..n
    OBVIOUS
  <2>1. live # << >> /\ (n # 0 => serialize(ns).entry \in 1..n)
    BY <1>2, <1>11, SerializeIs DEF n
  <2> QED
    BY <1>6, <2>1
<1> DEFINE first == FirstAmong(Highest(ns, live))
<1>16. n # 0 => ms[o[first]].top_layer = ns[live[first]].top_layer
  BY <1>10, <1>15
<1>17. serialize(ms) =
         [max_level |-> IF n = 0 THEN -1 ELSE ms[o[first]].top_layer,
          entry |-> IF n = 0 THEN 0 ELSE first, nodes |-> RegionOf(ns, live)]
  BY <1>5, <1>11, <1>12, <1>14
<1>18. serialize(ns) =
         [max_level |-> IF n = 0 THEN -1 ELSE ns[live[first]].top_layer,
          entry |-> IF n = 0 THEN 0 ELSE first, nodes |-> RegionOf(ns, live)]
  BY <1>6, <1>11
<1> HIDE DEF first
<1>19. serialize(ms) = serialize(ns)
  BY <1>16, <1>17, <1>18
<1> QED
  BY <1>19 DEF ms

LEMMA RoundTripOf == ASSUME Inv PROVE RoundTrip
<1>1. Holds(nodes, records) /\ Linked(nodes)
  BY DEF Inv
<1>2. WellFormed(serialize(nodes), records)
  BY <1>1, LoadIs
<1>3. serialize(deserialize(serialize(nodes), records).nodes) = serialize(nodes)
  BY <1>1, SavesTheSame
<1> QED
  BY <1>2, <1>3 DEF RoundTrip

\* What serialize writes, deserialize accepts, and the index rebuilt from it writes
\* the same bytes again, whatever was inserted, replaced and removed in which order.
THEOREM RoundTrips == Spec => []RoundTrip
<1>1. Inv => RoundTrip
  BY RoundTripOf
<1> QED
  BY <1>1, InvHolds, PTL

-----------------------------------------------------------------------------
(* The layered graph                                                        *)

Names(ns, S) == {ns[s].id : s \in S}

\* A node as the layered graph has it, and the graph of some nodes.
Drawn(ns, s) ==
    [top |-> ns[s].top_layer, deleted |-> ns[s].deleted,
     adj |-> [layer \in 0..ns[s].top_layer |-> Names(ns, Elements(ns[s].neighbors[layer]))]]

GraphOf(ns) ==
    [id \in Names(ns, DOMAIN ns) |-> Drawn(ns, CHOOSE s \in {s \in DOMAIN ns : ns[s].id = id} : TRUE)]

EntryOf(ns, e) == IF e = 0 THEN NoNode ELSE ns[e].id

LEMMA GraphIs ==
    ASSUME NEW ns, \A s, x \in DOMAIN ns : ns[s].id = ns[x].id => s = x
    PROVE  /\ DOMAIN GraphOf(ns) = Names(ns, DOMAIN ns)
           /\ GraphOf(ns) = [id \in Names(ns, DOMAIN ns) |-> GraphOf(ns)[id]]
           /\ \A s \in DOMAIN ns : /\ ns[s].id \in DOMAIN GraphOf(ns)
                                   /\ GraphOf(ns)[ns[s].id] = Drawn(ns, s)
<1>1. DOMAIN GraphOf(ns) = Names(ns, DOMAIN ns)
      /\ GraphOf(ns) = [id \in Names(ns, DOMAIN ns) |-> GraphOf(ns)[id]]
  BY DEF GraphOf
<1>2. ASSUME NEW s \in DOMAIN ns
      PROVE  ns[s].id \in DOMAIN GraphOf(ns) /\ GraphOf(ns)[ns[s].id] = Drawn(ns, s)
  <2>1. ns[s].id \in Names(ns, DOMAIN ns)
    BY DEF Names
  <2> DEFINE at == CHOOSE x \in {x \in DOMAIN ns : ns[x].id = ns[s].id} : TRUE
  <2>2. at \in DOMAIN ns /\ ns[at].id = ns[s].id
    OBVIOUS
  <2>3. GraphOf(ns)[ns[s].id] = Drawn(ns, at)
    BY <2>1 DEF GraphOf
  <2> HIDE DEF at
  <2>4. at = s
    BY <2>2
  <2> QED
    BY <1>1, <2>1, <2>3, <2>4
<1> QED
  BY <1>1, <1>2

LEMMA DrawnIs ==
    ASSUME NEW ns \in Seq(Node), Linked(ns), NEW s \in DOMAIN ns
    PROVE  LET d == Drawn(ns, s)
           IN  /\ d \in Abstract!Node /\ d.top = ns[s].top_layer /\ d.deleted = ns[s].deleted
               /\ \A layer \in 0..ns[s].top_layer :
                     /\ d.adj[layer] = Names(ns, Elements(ns[s].neighbors[layer]))
                     /\ Cardinality(d.adj[layer]) =< Abstract!Cap(layer)
<1> DEFINE d == Drawn(ns, s)
           t == ns[s].top_layer
           list(layer) == ns[s].neighbors[layer]
           adj == [layer \in 0..t |-> Names(ns, Elements(list(layer)))]
<1>1. t \in 0..MaxLevel /\ ns[s].deleted \in BOOLEAN
  BY NodeFacts
<1>2. d = [top |-> t, deleted |-> ns[s].deleted, adj |-> adj]
  BY DEF Drawn
<1>3. \A layer \in 0..t : adj[layer] = Names(ns, Elements(list(layer)))
  OBVIOUS
<1>4. ASSUME NEW layer \in 0..t
      PROVE  LET A == Names(ns, Elements(list(layer)))
             IN  A \subseteq Ids /\ Cardinality(A) =< Abstract!Cap(layer)
  <2> DEFINE E == Elements(list(layer))
             A == Names(ns, E)
             f == [x \in E |-> ns[x].id]
  <2>1. /\ list(layer) \in Seq(DOMAIN ns) /\ list(layer) \in Seq(Nat) /\ NoRepeats(list(layer))
        /\ Len(list(layer)) =< max_neighbors_for_layer(layer)
    BY ListOf DEF LinksOf
  <2>2. Cardinality(E) = Len(list(layer)) /\ IsFiniteSet(E)
    BY <2>1, ListCounts
  <2>3. E \subseteq DOMAIN ns
    BY <2>1 DEF Elements
  <2>4. Len(list(layer)) \in Nat
    BY <2>1
  <2> HIDE DEF E, list
  <2>5. A \subseteq Ids
    BY <2>3, NodeFacts DEF Names
  <2>6. f \in Surjection(E, A)
    BY DEF Surjection, Names
  <2> HIDE DEF f
  <2>7. IsFiniteSet(A) /\ Cardinality(A) =< Cardinality(E)
    BY <2>2, <2>6, FS_Surjection
  <2>8. Cardinality(A) \in Nat
    BY <2>7, FS_CardinalityType
  <2>9. /\ max_neighbors_upper \in Nat /\ max_neighbors_for_layer(layer) \in Nat
        /\ max_neighbors_for_layer(layer)
             =< (IF layer = 0 THEN 2 * max_neighbors_upper ELSE max_neighbors_upper)
    BY CapIs
  <2>10. Abstract!Cap(layer) = IF layer = 0 THEN 2 * max_neighbors_upper ELSE max_neighbors_upper
    BY DEF Abstract!Cap
  <2> HIDE DEF A
  <2>11. Cardinality(A) =< Abstract!Cap(layer)
    BY <2>1, <2>2, <2>4, <2>7, <2>8, <2>9, <2>10
  <2> QED
    BY <2>5, <2>11 DEF A, E
<1> HIDE DEF list, adj, t
<1>5. adj \in [0..t -> SUBSET Ids]
  BY <1>3, <1>4 DEF adj
<1>6. d \in [top: {t}, deleted: BOOLEAN, adj: [0..t -> SUBSET Ids]]
  BY <1>1, <1>2, <1>5
<1>7. d \in Abstract!Node
  BY <1>1, <1>6 DEF Abstract!Node
<1>8. d.top = t /\ d.deleted = ns[s].deleted /\ d.adj = adj
  BY <1>2
<1> QED
  BY <1>3, <1>4, <1>7, <1>8 DEF d, t, list

\* A mark changes nothing but itself.
WithMark(g, id, d) == [g EXCEPT ![id].deleted = d]

LEMMA MarkedGraph ==
    ASSUME NEW ns \in Seq(Node), \A s, x \in DOMAIN ns : ns[s].id = ns[x].id => s = x,
           Linked(ns), NEW s \in DOMAIN ns, NEW v, NEW d \in BOOLEAN, NEW ms, Similar(ns, ms, s, v, d)
    PROVE  GraphOf(ms) = WithMark(GraphOf(ns), ns[s].id, d)
<1> DEFINE g == GraphOf(ns)
           h == GraphOf(ms)
           N == Names(ns, DOMAIN ns)
           k == [g EXCEPT ![ns[s].id].deleted = d]
<1>1. /\ ms \in Seq(Node) /\ DOMAIN ms = DOMAIN ns /\ Linked(ms)
      /\ \A x \in DOMAIN ns : ms[x].id = ns[x].id
  BY DEF Similar
<1>2. \A x \in DOMAIN ns : ms[x].top_layer = ns[x].top_layer /\ ms[x].neighbors = ns[x].neighbors
  BY DEF Similar
<1>3. ms[s].deleted = d /\ \A x \in DOMAIN ns : x # s => ms[x].deleted = ns[x].deleted
  BY DEF Similar, Marked
<1>4. DOMAIN g = N /\ g = [id \in N |-> g[id]] /\ \A x \in DOMAIN ns : g[ns[x].id] = Drawn(ns, x)
  BY GraphIs
<1>5. Names(ms, DOMAIN ms) = N
  BY <1>1 DEF Names
<1>6. \A x, y \in DOMAIN ms : ms[x].id = ms[y].id => x = y
  BY <1>1
<1>7. DOMAIN h = N /\ h = [id \in N |-> h[id]] /\ \A x \in DOMAIN ns : h[ns[x].id] = Drawn(ms, x)
  BY <1>1, <1>5, <1>6, GraphIs
<1>8. \A S \in SUBSET DOMAIN ns : Names(ms, S) = Names(ns, S)
  BY <1>1 DEF Names
<1>9. ASSUME NEW x \in DOMAIN ns
      PROVE  Drawn(ms, x) = [top |-> ns[x].top_layer, deleted |-> ms[x].deleted,
                             adj |-> Drawn(ns, x).adj]
  <2> DEFINE t == ns[x].top_layer
             list(layer) == ns[x].neighbors[layer]
             A == [layer \in 0..t |-> Names(ns, Elements(list(layer)))]
             B == [layer \in 0..t |-> Names(ms, Elements(list(layer)))]
  <2>1. \A layer \in 0..t : Elements(list(layer)) \subseteq DOMAIN ns
    BY ListOf DEF OnLayer
  <2>2. Drawn(ms, x) = [top |-> t, deleted |-> ms[x].deleted, adj |-> B]
    BY <1>1, <1>2 DEF Drawn
  <2>3. Drawn(ns, x).adj = A
    BY DEF Drawn
  <2> HIDE DEF t, list
  <2>4. A = B
    BY <1>8, <2>1
  <2> HIDE DEF A, B
  <2> QED
    BY <2>2, <2>3, <2>4 DEF t
<1>10. \A x \in DOMAIN ns : Drawn(ns, x) = [top |-> ns[x].top_layer, deleted |-> ns[x].deleted,
                                            adj |-> Drawn(ns, x).adj]
  BY DEF Drawn
<1> HIDE DEF g, h
<1>11. DOMAIN k = N /\ k = [id \in N |-> k[id]]
  BY <1>4
<1>12. ASSUME NEW x \in DOMAIN ns PROVE k[ns[x].id] = h[ns[x].id]
  <2>0. ns[x].id \in N /\ ns[s].id \in N
    BY DEF Names
  <2>1. CASE x = s
    <3>1. k[ns[s].id] = [g[ns[s].id] EXCEPT !.deleted = d]
      BY <1>4, <2>0
    <3>2. g[ns[s].id] = [top |-> ns[s].top_layer, deleted |-> ns[s].deleted,
                         adj |-> Drawn(ns, s).adj]
      BY <1>4, <1>10
    <3>3. k[ns[s].id] = [top |-> ns[s].top_layer, deleted |-> d, adj |-> Drawn(ns, s).adj]
      BY <3>1, <3>2
    <3>4. h[ns[s].id] = [top |-> ns[s].top_layer, deleted |-> d, adj |-> Drawn(ns, s).adj]
      BY <1>3, <1>7, <1>9
    <3> QED
      BY <2>1, <3>3, <3>4
  <2>2. CASE x # s
    <3>1. ns[x].id # ns[s].id
      BY <2>2
    <3>2. k[ns[x].id] = g[ns[x].id]
      BY <1>4, <2>0, <3>1
    <3>3. h[ns[x].id] = Drawn(ns, x)
      BY <1>3, <1>7, <1>9, <1>10, <2>2
    <3> QED
      BY <1>4, <3>2, <3>3
  <2> QED
    BY <2>1, <2>2
<1>13. \A id \in N : k[id] = h[id]
  BY <1>12 DEF Names
<1> HIDE DEF k, N
<1>14. k = h
  BY <1>7, <1>11, <1>13
<1> QED
  BY <1>14 DEF k, h, g, WithMark

\* The entry point of the graph, which a mark does not change.
LEMMA EntryIs ==
    ASSUME NEW ns \in Seq(Node), NEW e, NEW top, Entered(ns, e, top)
    PROVE  /\ e = 0 <=> ns = << >>
           /\ ns # << >> => /\ e \in DOMAIN ns /\ EntryOf(ns, e) = ns[e].id
                            /\ EntryOf(ns, e) # NoNode /\ top = ns[e].top_layer
           /\ ns = << >> => EntryOf(ns, e) = NoNode /\ top = -1
<1>1. 0 \notin DOMAIN ns
  OBVIOUS
<1>2. NoNode \notin Ids
  BY MetricAssumption
<1>3. e \in DOMAIN ns => ns[e].id \in Ids
  BY NodeFacts
<1> QED
  BY <1>1, <1>2, <1>3 DEF Entered, EntryOf

LEMMA SameCardinality == ASSUME NEW S PROVE Abstract!Cardinality(S) = Cardinality(S)
BY DEF Abstract!Cardinality, Cardinality

LEMMA GraphVariables ==
    /\ Graph = GraphOf(nodes) /\ Graph' = GraphOf(nodes')
    /\ (IF entry_point = 0 THEN NoNode ELSE IdOf(entry_point)) = EntryOf(nodes, entry_point)
    /\ (IF entry_point' = 0 THEN NoNode ELSE IdOf(entry_point)') = EntryOf(nodes', entry_point')
BY DEF Graph, GraphOf, Drawn, Names, InternalId, IdOf, EntryOf

LEMMA MarkRefines ==
    ASSUME Inv, NEW id \in Ids, NEW s \in DOMAIN nodes, nodes[s].id = id, NEW v, NEW d \in BOOLEAN,
           Similar(nodes, nodes', s, v, d), UNCHANGED <<entry_point, max_level>>
    PROVE  Abstract!Mark(id, d)
<1>1. /\ nodes \in Seq(Node) /\ \A r, x \in DOMAIN nodes : nodes[r].id = nodes[x].id => r = x
      /\ Linked(nodes) /\ Entered(nodes, entry_point, max_level)
  BY DEF Inv, Holds
<1>5. nodes \in Seq(Node) /\ Linked(nodes)
  BY <1>1
<1>6. \A r, x \in DOMAIN nodes : nodes[r].id = nodes[x].id => r = x
  BY <1>1
<1> DEFINE ms == nodes'
<1>7. Similar(nodes, ms, s, v, d)
  OBVIOUS
<1> HIDE DEF ms
<1>8. GraphOf(ms) = WithMark(GraphOf(nodes), nodes[s].id, d)
  BY <1>5, <1>6, <1>7, MarkedGraph
<1>2. GraphOf(nodes') = [GraphOf(nodes) EXCEPT ![id].deleted = d]
  BY <1>8 DEF ms, WithMark
<1>3. id \in DOMAIN GraphOf(nodes)
  BY <1>1, GraphIs
<1>4. EntryOf(nodes', entry_point') = EntryOf(nodes, entry_point)
  <2>1. DOMAIN nodes' = DOMAIN nodes /\ \A x \in DOMAIN nodes : nodes'[x].id = nodes[x].id
    BY DEF Similar
  <2>2. entry_point = 0 \/ entry_point \in DOMAIN nodes
    BY <1>1 DEF Entered
  <2> QED
    BY <2>1, <2>2 DEF EntryOf
<1> QED
  BY <1>2, <1>3, <1>4, GraphVariables DEF Abstract!Mark

LEMMA AddKnownRefines ==
    ASSUME Inv, NEW id \in Ids, NEW v \in Points, AddKnown(id, v)
    PROVE  Abstract!Mark(id, FALSE)
<1>1. nodes \in Seq(Node)
  BY DEF Inv, Holds
<1>2. PICK s \in InternalId(id) : nodes' = [nodes EXCEPT ![s].vector = v, ![s].deleted = FALSE]
  BY DEF AddKnown
<1>3. s \in DOMAIN nodes /\ nodes[s].id = id /\ nodes[s] \in Node
  BY <1>1, <1>2 DEF InternalId
<1> DEFINE w == [[nodes[s] EXCEPT !.vector = v] EXCEPT !.deleted = FALSE]
<1>4. Marked(nodes[s], w, v, FALSE)
  BY <1>3, MarkedNode
<1>5. nodes' = MarkedIn(nodes, s, w)
  BY <1>1, <1>2, <1>3 DEF MarkedIn
<1> HIDE DEF w
<1>6. Similar(nodes, nodes', s, v, FALSE)
  BY <1>1, <1>3, <1>4, <1>5, MarkedNodes
<1>7. UNCHANGED <<entry_point, max_level>>
  BY DEF AddKnown
<1> QED
  BY <1>3, <1>6, <1>7, MarkRefines

LEMMA RemoveRefines ==
    ASSUME Inv, NEW id \in Ids, remove(id)
    PROVE  Abstract!Mark(id, TRUE)
<1>1. nodes \in Seq(Node)
  BY DEF Inv, Holds
<1>2. PICK s \in InternalId(id) : nodes' = [nodes EXCEPT ![s].deleted = TRUE]
  BY DEF remove
<1>3. s \in DOMAIN nodes /\ nodes[s].id = id /\ nodes[s] \in Node /\ nodes[s].vector \in Points
  BY <1>1, <1>2, NodeFacts DEF InternalId
<1> DEFINE w == [nodes[s] EXCEPT !.deleted = TRUE]
<1>4. Marked(nodes[s], w, nodes[s].vector, TRUE)
  BY <1>3, MarkedNode
<1>5. nodes' = MarkedIn(nodes, s, w)
  BY <1>2 DEF MarkedIn
<1> HIDE DEF w
<1>6. Similar(nodes, nodes', s, nodes[s].vector, TRUE)
  BY <1>1, <1>3, <1>4, <1>5, MarkedNodes
<1>7. UNCHANGED <<entry_point, max_level>>
  BY DEF remove
<1> QED
  BY <1>3, <1>6, <1>7, MarkRefines

LEMMA AddNewRefines ==
    ASSUME Inv, NEW id \in Ids, NEW v \in Points, NEW level \in 0..MaxLevel, AddNew(id, v, level)
    PROVE  Abstract!Link(id, level)
<1> DEFINE w == NewNode(id, v, level)
           ns == Append(nodes, w)
           node == Len(nodes) + 1
           ms == nodes'
           g == GraphOf(nodes)
           h == GraphOf(ms)
           e == EntryOf(nodes, entry_point)
<1>1. /\ Grown(ns, ms, node, 0) /\ Linked(ms)
      /\ node \notin DOMAIN nodes /\ DOMAIN ns = DOMAIN nodes \cup {node} /\ node \in Nat \ {0}
      /\ ns[node] = w /\ \A s \in DOMAIN nodes : ns[s] = nodes[s]
      /\ w.id = id /\ w.top_layer = level /\ ~w.deleted
  BY AddNewIs
<1>2. /\ nodes \in Seq(Node) /\ \A s, x \in DOMAIN nodes : nodes[s].id = nodes[x].id => s = x
      /\ Linked(nodes) /\ Entered(nodes, entry_point, max_level)
  BY DEF Inv, Holds
<1>3. \A s \in DOMAIN nodes : nodes[s].id # id
  BY DEF AddNew, InternalId
<1>4. ns \in Seq(Node) /\ node = Len(ns)
  BY <1>1, <1>2, AddNewIs
<1>5. /\ entry_point' = IF level > max_level THEN node ELSE entry_point
      /\ max_level' = IF level > max_level THEN level ELSE max_level
  BY <1>4 DEF AddNew
<1>6. ms \in Seq(Node) /\ DOMAIN ms = DOMAIN nodes \cup {node}
  BY <1>1 DEF Grown
<1> HIDE DEF ns, node, w, ms
<1>7. ASSUME NEW s \in DOMAIN nodes
      PROVE  /\ ms[s].id = nodes[s].id /\ ms[s].top_layer = nodes[s].top_layer
             /\ ms[s].deleted = nodes[s].deleted
  BY <1>1 DEF Grown, SameButLinks
<1>8. ms[node].id = id /\ ms[node].top_layer = level /\ ~ms[node].deleted
  BY <1>1 DEF Grown, SameButLinks
<1>9. \A s, x \in DOMAIN ms : ms[s].id = ms[x].id => s = x
  BY <1>2, <1>3, <1>6, <1>7, <1>8
<1>10. /\ DOMAIN g = Names(nodes, DOMAIN nodes)
       /\ \A s \in DOMAIN nodes : nodes[s].id \in DOMAIN g /\ g[nodes[s].id] = Drawn(nodes, s)
  BY <1>2, GraphIs
<1>11. /\ DOMAIN h = Names(ms, DOMAIN ms) /\ h = [n \in Names(ms, DOMAIN ms) |-> h[n]]
       /\ \A s \in DOMAIN ms : ms[s].id \in DOMAIN h /\ h[ms[s].id] = Drawn(ms, s)
  BY <1>9, GraphIs
<1>12. \A n \in DOMAIN g : \E s \in DOMAIN nodes : n = nodes[s].id
  BY <1>10 DEF Names
<1>13. \A n \in DOMAIN h : \E s \in DOMAIN ms : n = ms[s].id
  BY <1>11 DEF Names
<1> HIDE DEF g, h
<1>14. DOMAIN h = DOMAIN g \cup {id} /\ id \notin DOMAIN g
  <2>1. id \notin DOMAIN g
    BY <1>3, <1>12
  <2>2. DOMAIN h \subseteq DOMAIN g \cup {id}
    <3> SUFFICES ASSUME NEW n \in DOMAIN h PROVE n \in DOMAIN g \cup {id}
      OBVIOUS
    <3>1. PICK s \in DOMAIN ms : n = ms[s].id
      BY <1>13
    <3>2. s \in DOMAIN nodes \/ s = node
      BY <1>6
    <3> QED
      BY <1>7, <1>8, <1>10, <3>1, <3>2
  <2>3. DOMAIN g \subseteq DOMAIN h
    <3> SUFFICES ASSUME NEW n \in DOMAIN g PROVE n \in DOMAIN h
      OBVIOUS
    <3>1. PICK s \in DOMAIN nodes : n = nodes[s].id
      BY <1>12
    <3> QED
      BY <1>6, <1>7, <1>11, <3>1
  <2>4. id \in DOMAIN h
    BY <1>6, <1>8, <1>11
  <2> QED
    BY <2>1, <2>2, <2>3, <2>4
<1>15. ASSUME NEW s \in DOMAIN ms
       PROVE  /\ h[ms[s].id] \in Abstract!Node /\ h[ms[s].id].top = ms[s].top_layer
              /\ h[ms[s].id].deleted = ms[s].deleted
              /\ \A layer \in 0..ms[s].top_layer :
                    /\ h[ms[s].id].adj[layer] = Names(ms, Elements(ms[s].neighbors[layer]))
                    /\ Cardinality(h[ms[s].id].adj[layer]) =< Abstract!Cap(layer)
  <2>1. h[ms[s].id] = Drawn(ms, s)
    BY <1>11
  <2>2. ms \in Seq(Node) /\ Linked(ms)
    BY <1>1, <1>6
  <2>3. /\ Drawn(ms, s) \in Abstract!Node /\ Drawn(ms, s).top = ms[s].top_layer
        /\ Drawn(ms, s).deleted = ms[s].deleted
        /\ \A layer \in 0..ms[s].top_layer :
              /\ Drawn(ms, s).adj[layer] = Names(ms, Elements(ms[s].neighbors[layer]))
              /\ Cardinality(Drawn(ms, s).adj[layer]) =< Abstract!Cap(layer)
    BY <2>2, DrawnIs
  <2> QED
    BY <2>1, <2>3
<1>16. ASSUME NEW s \in DOMAIN nodes
       PROVE  /\ g[nodes[s].id].top = nodes[s].top_layer /\ g[nodes[s].id].deleted = nodes[s].deleted
              /\ \A layer \in 0..nodes[s].top_layer :
                    g[nodes[s].id].adj[layer] = Names(nodes, Elements(nodes[s].neighbors[layer]))
  BY <1>2, <1>10, DrawnIs
<1>17. h \in [DOMAIN g \cup {id} -> Abstract!Node]
  <2>1. h = [n \in DOMAIN g \cup {id} |-> h[n]]
    BY <1>11, <1>14
  <2>2. \A n \in DOMAIN g \cup {id} : h[n] \in Abstract!Node
    BY <1>13, <1>14, <1>15
  <2> QED
    BY <2>1, <2>2
<1>18. node \in DOMAIN ms
  BY <1>6
<1>19. h[id].top = level /\ ~h[id].deleted
  BY <1>8, <1>15, <1>18
<1>20. ASSUME NEW layer \in 0..level
       PROVE  /\ h[id].adj[layer] = Names(ms, Elements(ms[node].neighbors[layer]))
              /\ h[id].adj[layer] \subseteq {n \in DOMAIN g : layer =< g[n].top}
              /\ Cardinality(h[id].adj[layer]) =< Abstract!Cap(layer)
  <2>1. h[id].adj[layer] = Names(ms, Elements(ms[node].neighbors[layer]))
        /\ Cardinality(h[id].adj[layer]) =< Abstract!Cap(layer)
    BY <1>8, <1>15, <1>18
  <2>2. Elements(ms[node].neighbors[layer]) \subseteq OnLayer(ms, layer) \ {node}
    BY <1>1, <1>8, <1>18 DEF Linked, LinksOf
  <2>3. ASSUME NEW x \in OnLayer(ms, layer) \ {node}
        PROVE  ms[x].id \in {n \in DOMAIN g : layer =< g[n].top}
    <3>1. x \in DOMAIN nodes /\ layer \in 0..nodes[x].top_layer
      BY <1>6, <1>7 DEF OnLayer
    <3>2. nodes[x].top_layer \in Nat
      BY <1>2, <3>1, NodeFacts
    <3>3. layer =< nodes[x].top_layer
      BY <3>1, <3>2
    <3> QED
      BY <1>7, <1>10, <1>16, <3>1, <3>3
  <2>4. h[id].adj[layer] \subseteq {n \in DOMAIN g : layer =< g[n].top}
    BY <2>1, <2>2, <2>3 DEF Names
  <2> QED
    BY <2>1, <2>4
<1>21. ASSUME NEW s \in DOMAIN nodes, NEW layer \in 0..nodes[s].top_layer
       PROVE  \/ h[nodes[s].id].adj[layer] = g[nodes[s].id].adj[layer]
              \/ /\ layer =< level /\ nodes[s].id \in h[id].adj[layer]
                 /\ h[nodes[s].id].adj[layer] \subseteq g[nodes[s].id].adj[layer] \cup {id}
                 /\ Cardinality(h[nodes[s].id].adj[layer]) =< Abstract!Cap(layer)
  <2> DEFINE A == Elements(ms[s].neighbors[layer])
             B == Elements(nodes[s].neighbors[layer])
  <2>1. /\ h[nodes[s].id].adj[layer] = Names(ms, A)
        /\ Cardinality(h[nodes[s].id].adj[layer]) =< Abstract!Cap(layer)
    BY <1>6, <1>7, <1>15
  <2>2. g[nodes[s].id].adj[layer] = Names(nodes, B)
    BY <1>16
  <2>3. B \subseteq DOMAIN nodes
    BY <1>2, ListOf DEF OnLayer
  <2>4. \/ ms[s].neighbors[layer] = nodes[s].neighbors[layer]
        \/ /\ layer \in 0..level
           /\ s \in Elements(ms[node].neighbors[layer]) /\ A \subseteq B \cup {node}
    <3>1. s # node /\ ns[s] = nodes[s] /\ ns[node].top_layer = level /\ s \in DOMAIN ns
      BY <1>1
    <3> QED
      BY <1>1, <3>1 DEF Grown
  <2> HIDE DEF A, B
  <2>5. \A S \in SUBSET DOMAIN nodes : Names(ms, S) = Names(nodes, S)
    BY <1>7 DEF Names
  <2>6. CASE ms[s].neighbors[layer] = nodes[s].neighbors[layer]
    <3>1. A = B
      BY <2>6 DEF A, B
    <3> QED
      BY <2>1, <2>2, <2>3, <2>5, <3>1
  <2>7. CASE /\ layer \in 0..level
             /\ s \in Elements(ms[node].neighbors[layer]) /\ A \subseteq B \cup {node}
    <3>1. ms[s].id \in h[id].adj[layer]
      BY <1>20, <2>7 DEF Names
    <3>2. Names(ms, A) \subseteq Names(nodes, B) \cup {id}
      BY <1>7, <1>8, <2>3, <2>7 DEF Names
    <3>3. layer =< level
      BY <2>7
    <3> QED
      BY <1>7, <2>1, <2>2, <3>1, <3>2, <3>3
  <2> QED
    BY <2>4, <2>6, <2>7
<1>22. EntryOf(ms, entry_point') = (IF e = NoNode THEN id
                                    ELSE IF level > g[e].top THEN id ELSE e)
  <2>1. EntryOf(ms, node) = id
    BY <1>1, <1>8 DEF EntryOf
  <2>2. level \in Nat
    OBVIOUS
  <2>5. nodes \in Seq(Node) /\ Entered(nodes, entry_point, max_level)
    BY <1>2
  <2>6. nodes = << >> => e = NoNode /\ max_level = -1
    BY <2>5, EntryIs
  <2>3. CASE nodes = << >>
    <3>1. e = NoNode /\ max_level = -1
      BY <2>3, <2>6
    <3>2. entry_point' = node
      BY <1>5, <2>2, <3>1
    <3> QED
      BY <2>1, <3>1, <3>2
  <2>4. CASE nodes # << >>
    <3>1. /\ entry_point \in DOMAIN nodes /\ e = nodes[entry_point].id /\ e # NoNode
          /\ max_level = nodes[entry_point].top_layer
      BY <1>2, <2>4, EntryIs
    <3>2. g[e].top = max_level
      BY <1>16, <3>1
    <3>3. entry_point # 0
      BY <1>2, <3>1
    <3>4. EntryOf(ms, entry_point) = e
      BY <1>7, <3>1, <3>3 DEF EntryOf
    <3> QED
      BY <1>5, <2>1, <3>1, <3>2, <3>4
  <2> QED
    BY <2>3, <2>4
<1>23. /\ Graph = g /\ Graph' = h
       /\ (IF entry_point = 0 THEN NoNode ELSE IdOf(entry_point)) = e
       /\ (IF entry_point' = 0 THEN NoNode ELSE IdOf(entry_point)') = EntryOf(ms, entry_point')
  BY GraphVariables DEF g, h, ms
<1> HIDE DEF e
<1>24. ASSUME NEW n \in DOMAIN g
       PROVE  /\ h[n].top = g[n].top /\ h[n].deleted = g[n].deleted
              /\ \A layer \in 0..g[n].top :
                    \/ h[n].adj[layer] = g[n].adj[layer]
                    \/ /\ layer =< level /\ n \in h[id].adj[layer]
                       /\ h[n].adj[layer] \subseteq g[n].adj[layer] \cup {id}
                       /\ Cardinality(h[n].adj[layer]) =< Abstract!Cap(layer)
  <2>1. PICK s \in DOMAIN nodes : n = nodes[s].id
    BY <1>12
  <2>2. s \in DOMAIN ms /\ ms[s].id = n
    BY <1>6, <1>7, <2>1
  <2>3. h[n].top = g[n].top /\ h[n].deleted = g[n].deleted /\ g[n].top = nodes[s].top_layer
    BY <1>7, <1>15, <1>16, <2>1, <2>2
  <2> QED
    BY <1>21, <2>1, <2>3
<1>25. \A S : Abstract!Cardinality(S) = Cardinality(S)
  BY SameCardinality
<1> QED
  BY <1>14, <1>17, <1>19, <1>20, <1>22, <1>23, <1>24, <1>25 DEF Abstract!Link, Abstract!OnLayer

WithAdj(r, C) == [r EXCEPT !.adj = C]

LEMMA OtherLinks ==
    ASSUME NEW t, NEW d, NEW B, NEW C, NEW r, r = [top |-> t, deleted |-> d, adj |-> B]
    PROVE  WithAdj(r, C) = [top |-> t, deleted |-> d, adj |-> C]
BY DEF WithAdj

LEMMA ReloadRefines == ASSUME Inv, Reload PROVE Abstract!Compact
<1> DEFINE d == deserialize(serialize(nodes), records)
           ms == d.nodes
           live == CanonicalOrder(nodes)
           n == Cardinality(LiveOf(nodes))
           g == GraphOf(nodes)
           h == GraphOf(ms)
           Left == {x \in DOMAIN g : ~g[x].deleted}
<1>1. /\ nodes \in Seq(Node) /\ Linked(nodes) /\ Holds(nodes, records)
      /\ \A s, x \in DOMAIN nodes : nodes[s].id = nodes[x].id => s = x
  BY DEF Inv, Holds
<1>2. nodes' = ms /\ entry_point' = d.entry_point
  BY DEF Reload
<1>3. /\ ms \in Seq(Node) /\ Len(ms) = n /\ Holds(ms, records) /\ Linked(ms)
      /\ Entered(ms, d.entry_point, d.max_level) /\ LiveOf(ms) = 1..n
      /\ \A c \in 1..n : ms[c] = RegionNode(nodes, live, c)
  BY <1>1, LoadIs
<1>4. Canonical(nodes, live)
  BY <1>1, CanonicalIs
<1> HIDE DEF d, live, n
<1>5. /\ live \in Seq(LiveOf(nodes)) /\ Len(live) = n /\ NoRepeats(live)
      /\ Elements(live) = LiveOf(nodes) /\ DOMAIN live = 1..n /\ DOMAIN ms = 1..n
  BY <1>3, <1>4 DEF Canonical, n
<1>6. \A c \in 1..n : live[c] \in LiveOf(nodes) /\ live[c] \in DOMAIN nodes
  BY <1>5 DEF LiveOf
<1>7. \A s \in LiveOf(nodes) : \E c \in 1..n : s = live[c]
  BY <1>5 DEF Elements
<1> HIDE DEF ms
<1>8. ASSUME NEW c \in 1..n PROVE Restores(nodes, live, live[c], ms[c])
  BY <1>1, <1>3, <1>5, RegionNodeIs
<1>9. ASSUME NEW c \in 1..n
      PROVE  /\ ms[c].id = nodes[live[c]].id /\ ms[c].top_layer = nodes[live[c]].top_layer
             /\ ms[c].deleted = FALSE
             /\ \A layer \in 0..nodes[live[c]].top_layer :
                   Elements(ms[c].neighbors[layer])
                      = ListIn(live, nodes[live[c]].neighbors[layer])
  BY <1>8 DEF Restores
<1>10. /\ DOMAIN g = Names(nodes, DOMAIN nodes)
       /\ \A s \in DOMAIN nodes : nodes[s].id \in DOMAIN g /\ g[nodes[s].id] = Drawn(nodes, s)
  BY <1>1, GraphIs
<1>11. \A b, c \in DOMAIN ms : ms[b].id = ms[c].id => b = c
  BY <1>3 DEF Holds
<1>12. /\ DOMAIN h = Names(ms, DOMAIN ms) /\ h = [x \in Names(ms, DOMAIN ms) |-> h[x]]
       /\ \A c \in DOMAIN ms : h[ms[c].id] = Drawn(ms, c)
  BY <1>11, GraphIs
<1> HIDE DEF g, h
<1>13. \A s \in DOMAIN nodes : Drawn(nodes, s).deleted = nodes[s].deleted
                               /\ Drawn(nodes, s).top = nodes[s].top_layer
  BY DEF Drawn
<1>14. Left = Names(nodes, LiveOf(nodes))
  <2>1. \A x \in DOMAIN g : \E s \in DOMAIN nodes : x = nodes[s].id
    BY <1>10 DEF Names
  <2>2. \A s \in DOMAIN nodes : nodes[s].id \in Left <=> s \in LiveOf(nodes)
    BY <1>10, <1>13 DEF LiveOf
  <2>3. \A x \in Left : x \in Names(nodes, LiveOf(nodes))
    BY <2>1, <2>2 DEF Names
  <2>4. \A s \in LiveOf(nodes) : nodes[s].id \in Left
    BY <2>2 DEF LiveOf
  <2> HIDE DEF Left
  <2>5. \A x \in Names(nodes, LiveOf(nodes)) : x \in Left
    BY <2>4 DEF Names
  <2> QED
    BY <2>3, <2>5
<1> HIDE DEF Left
<1>15. \A x \in Left : \E c \in 1..n : x = nodes[live[c]].id
  BY <1>7, <1>14 DEF Names
<1>16. \A c \in 1..n : nodes[live[c]].id \in Left
  BY <1>6, <1>14 DEF Names
<1>17. Names(ms, DOMAIN ms) = Left
  <2>1. ASSUME NEW x \in Left PROVE x \in Names(ms, DOMAIN ms)
    <3>1. PICK c \in 1..n : x = nodes[live[c]].id
      BY <1>15
    <3>2. c \in DOMAIN ms /\ x = ms[c].id
      BY <1>5, <1>9, <3>1
    <3> QED
      BY <3>2 DEF Names
  <2>2. \A c \in DOMAIN ms : ms[c].id \in Left
    BY <1>5, <1>9, <1>16
  <2> QED
    BY <2>1, <2>2 DEF Names
\* The links of a node left: those that lead to nodes left.
<1>18. ASSUME NEW s \in LiveOf(nodes), NEW layer \in 0..nodes[s].top_layer
       PROVE  Names(ms, ListIn(live, nodes[s].neighbors[layer]))
                = Names(nodes, Elements(nodes[s].neighbors[layer])) \cap Left
  <2> DEFINE E == Elements(nodes[s].neighbors[layer])
             T == {c \in 1..n : live[c] \in E}
  <2>1. E \subseteq DOMAIN nodes
    BY <1>1, ListOf DEF LiveOf, OnLayer
  <2>2. ListIn(live, nodes[s].neighbors[layer]) = T
    BY <1>5 DEF ListIn
  <2> HIDE DEF E
  <2>3. \A c \in T : ms[c].id \in Names(nodes, E) \cap Left
    BY <1>9, <1>16 DEF Names
  <2>4. ASSUME NEW x \in Names(nodes, E) \cap Left PROVE \E c \in T : x = ms[c].id
    <3>1. PICK y \in E : x = nodes[y].id
      BY DEF Names
    <3>2. PICK c \in 1..n : x = nodes[live[c]].id
      BY <1>15
    <3>3. y = live[c]
      BY <1>1, <1>6, <2>1, <3>1, <3>2
    <3>4. c \in T /\ x = ms[c].id
      BY <1>9, <3>2, <3>3
    <3> QED
      BY <3>4
  <2> HIDE DEF T
  <2>5. \A x : x \in Names(ms, T) <=> \E c \in T : x = ms[c].id
    BY DEF Names
  <2>6. Names(ms, T) = Names(nodes, E) \cap Left
    BY <2>3, <2>4, <2>5
  <2> QED
    BY <2>2, <2>6 DEF E
<1>19. ASSUME NEW c \in 1..n
       PROVE  LET x == nodes[live[c]].id
              IN  h[x] = [g[x] EXCEPT !.adj = [layer \in 0..g[x].top |-> g[x].adj[layer] \cap Left]]
  <2> DEFINE s == live[c]
             x == nodes[s].id
             t == nodes[s].top_layer
             list(layer) == nodes[s].neighbors[layer]
             A == [layer \in 0..t |-> Names(ms, ListIn(live, list(layer)))]
             B == [layer \in 0..t |-> Names(nodes, Elements(list(layer)))]
             C == [layer \in 0..t |-> B[layer] \cap Left]
  <2>1. s \in LiveOf(nodes) /\ s \in DOMAIN nodes /\ ~nodes[s].deleted
    BY <1>6 DEF LiveOf
  <2>2. h[x] = Drawn(ms, c)
    BY <1>5, <1>9, <1>12
  <2>3. Drawn(ms, c) = [top |-> t, deleted |-> FALSE, adj |-> A]
    <3> DEFINE Z == [layer \in 0..t |-> Names(ms, Elements(ms[c].neighbors[layer]))]
    <3>1. Drawn(ms, c) = [top |-> t, deleted |-> FALSE, adj |-> Z]
      BY <1>9 DEF Drawn
    <3>2. \A layer \in 0..t : Elements(ms[c].neighbors[layer]) = ListIn(live, list(layer))
      BY <1>9
    <3> HIDE DEF list, t
    <3>3. Z = A
      BY <3>2
    <3> QED
      BY <3>1, <3>3
  <2>4. g[x] = [top |-> t, deleted |-> FALSE, adj |-> B]
    <3>1. g[x] = [top |-> t, deleted |-> nodes[s].deleted, adj |-> B]
      BY <1>10, <2>1 DEF Drawn
    <3>2. nodes[s].deleted = FALSE
      BY <1>1, <2>1, NodeFacts
    <3> QED
      BY <3>1, <3>2
  <2>5. \A layer \in 0..t : Names(ms, ListIn(live, list(layer)))
                             = Names(nodes, Elements(list(layer))) \cap Left
    BY <1>18, <2>1
  <2> HIDE DEF list, t, s, x
  <2>6. A = C
    BY <2>5
  <2>7. [layer \in 0..g[x].top |-> g[x].adj[layer] \cap Left] = C
    BY <2>4
  <2> HIDE DEF A, B, C
  <2> DEFINE r == g[x]
  <2>10. r = [top |-> t, deleted |-> FALSE, adj |-> B]
    BY <2>4
  <2> HIDE DEF r
  <2>8. WithAdj(r, C) = [top |-> t, deleted |-> FALSE, adj |-> C]
    BY <2>10, OtherLinks
  <2>9. h[x] = [g[x] EXCEPT !.adj = [layer \in 0..g[x].top |-> g[x].adj[layer] \cap Left]]
    BY <2>2, <2>3, <2>6, <2>7, <2>8 DEF WithAdj, r
  <2> QED
    BY <2>9 DEF x, s
<1>20. h = [x \in Left |-> [g[x] EXCEPT !.adj = [layer \in 0..g[x].top |-> g[x].adj[layer] \cap Left]]]
  <2> DEFINE F(x) == [g[x] EXCEPT !.adj = [layer \in 0..g[x].top |-> g[x].adj[layer] \cap Left]]
  <2>1. \A x \in Left : h[x] = F(x)
    BY <1>15, <1>19
  <2>2. h = [x \in Left |-> h[x]]
    BY <1>12, <1>17
  <2> HIDE DEF F
  <2>3. h = [x \in Left |-> F(x)]
    BY <2>1, <2>2
  <2> QED
    BY <2>3 DEF F
<1>21. EntryOf(ms, entry_point') \in
         (IF Left = {} THEN {NoNode} ELSE {x \in Left : \A y \in Left : g[y].top =< g[x].top})
  <2>1. ms = << >> <=> Left = {}
    <3>1. n \in Nat
      BY <1>1, Lengths DEF n
    <3>2. ms = << >> <=> 1..n = {}
      BY <1>3, <1>5
    <3> QED
      BY <1>15, <1>16, <3>2
  <2>2. Entered(ms, entry_point', d.max_level)
    BY <1>2, <1>3
  <2>3. ms = << >> => EntryOf(ms, entry_point') = NoNode
    BY <1>3, <2>2, EntryIs
  <2>4. CASE ms # << >>
    <3>1. entry_point' \in 1..n /\ EntryOf(ms, entry_point') = ms[entry_point'].id
      BY <1>3, <1>5, <2>2, <2>4, EntryIs
    <3>2. \A c \in 1..n : ms[c].top_layer =< ms[entry_point'].top_layer
      BY <1>5, <2>2, <2>4 DEF Entered
    <3>3. ASSUME NEW c \in 1..n
          PROVE  ms[c].id = nodes[live[c]].id /\ g[ms[c].id].top = ms[c].top_layer
      <4>1. ms[c].id = nodes[live[c]].id /\ ms[c].top_layer = nodes[live[c]].top_layer
        BY <1>9
      <4>2. g[nodes[live[c]].id].top = nodes[live[c]].top_layer
        BY <1>6, <1>10, <1>13
      <4> QED
        BY <4>1, <4>2
    <3> DEFINE x == EntryOf(ms, entry_point')
    <3>4. x \in Left
      BY <1>16, <3>1, <3>3
    <3>5. ASSUME NEW y \in Left PROVE g[y].top =< g[x].top
      <4>1. PICK c \in 1..n : y = ms[c].id
        BY <1>15, <3>3
      <4> QED
        BY <3>1, <3>2, <3>3, <4>1
    <3> QED
      BY <2>1, <2>4, <3>4, <3>5
  <2> QED
    BY <2>1, <2>3, <2>4
<1>22. /\ Graph = g /\ Graph' = h
       /\ (IF entry_point' = 0 THEN NoNode ELSE IdOf(entry_point)') = EntryOf(ms, entry_point')
  BY <1>2, GraphVariables DEF g, h
<1>23. Abstract!Living = Left
  BY <1>22 DEF Abstract!Living, Left
<1> QED
  BY <1>20, <1>21, <1>22, <1>23 DEF Abstract!Compact

LEMMA NextRefines == ASSUME Inv, [Next]_vars PROVE [Abstract!GNext]_Abstract!gvars
<1>1. ASSUME NEW id \in Ids, NEW v \in VectorsOf[id], NEW level \in random_top_layer,
             AddNew(id, v, level)
      PROVE  Abstract!GNext
  <2>1. v \in Points /\ level \in 0..MaxLevel
    BY MetricAssumption DEF random_top_layer
  <2>2. Abstract!Link(id, level)
    BY <1>1, <2>1, AddNewRefines
  <2> QED
    BY <2>1, <2>2 DEF Abstract!GNext
<1>2. ASSUME NEW id \in Ids, NEW v \in VectorsOf[id], AddKnown(id, v) PROVE Abstract!GNext
  <2>1. v \in Points
    BY MetricAssumption
  <2>2. Abstract!Mark(id, FALSE)
    BY <1>2, <2>1, AddKnownRefines
  <2> QED
    BY <2>2 DEF Abstract!GNext
<1>3. ASSUME NEW id \in Ids, remove(id) PROVE Abstract!GNext
  <2>1. Abstract!Mark(id, TRUE)
    BY <1>3, RemoveRefines
  <2> QED
    BY <2>1 DEF Abstract!GNext
<1>4. ASSUME Reload PROVE Abstract!GNext
  BY <1>4, ReloadRefines DEF Abstract!GNext
<1>5. ASSUME UNCHANGED vars PROVE UNCHANGED Abstract!gvars
  BY <1>5, GraphVariables DEF vars, Abstract!gvars
<1> QED
  BY <1>1, <1>2, <1>3, <1>4, <1>5 DEF Next

\* The index implements LayeredGraph: an insertion links the new node within the
\* caps and changes the links of the nodes it chose only, a removal changes no
\* link, and a save and a load keep exactly the links between live nodes and enter
\* at one of the highest layer.
THEOREM Refinement == Spec => ImplementsLayeredGraph
<1>1. Init => Abstract!GInit
  <2> SUFFICES ASSUME Init PROVE Abstract!GInit
    OBVIOUS
  <2>1. nodes = << >> /\ entry_point = 0
    BY DEF Init
  <2>2. Graph = [id \in {} |-> {}]
    BY <2>1 DEF Graph
  <2> QED
    BY <2>1, <2>2 DEF Abstract!GInit
<1>2. Inv /\ [Next]_vars => [Abstract!GNext]_Abstract!gvars
  BY NextRefines
<1> QED
  BY <1>1, <1>2, InvHolds, PTL DEF Spec, Abstract!GSpec, ImplementsLayeredGraph

-----------------------------------------------------------------------------
(* Searches                                                                 *)

\* The nodes reached are the least set around start that no edge leaves.
LEMMA ReachableIs ==
    ASSUME nodes \in Seq(Node), Linked(nodes), NEW start \in DOMAIN nodes
    PROVE  /\ Reachable(start) \in SUBSET DOMAIN nodes /\ start \in Reachable(start)
           /\ Closed(nodes, 0, Reachable(start))
           /\ \A W \in SUBSET DOMAIN nodes :
                 start \in W /\ Closed(nodes, 0, W) => Reachable(start) \subseteq W
<1> DEFINE n == Len(nodes)
           D == DOMAIN nodes
           near(s) == Elements(nodes[s].neighbors[0])
           Least(S) == \A W \in SUBSET D : start \in W /\ Closed(nodes, 0, W) => S \subseteq W
           Around(S) == S \cup UNION {Elements(nodes[s].neighbors[0]) : s \in S}
           Rec(f) == [i \in 0..n |-> IF i = 0 THEN {start} ELSE Around(f[i - 1])]
           reach == CHOOSE f : f = Rec(f)
           Good == [i \in 0..n |->
                      {S \in SUBSET D : /\ start \in S /\ Least(S)
                                        /\ Closed(nodes, 0, S) \/ Cardinality(S) > i}]
           F == [p \in (1..n) \X SUBSET D |-> Around(p[2])]
<1>1. Reachable(start) = reach[n]
  BY DEF Reachable
<1>2. n \in Nat /\ IsFiniteSet(D) /\ Cardinality(D) = n
  BY Lengths
<1>3. \A S \in SUBSET D : IsFiniteSet(S) /\ Cardinality(S) \in Nat /\ Cardinality(S) =< n
  BY <1>2, FS_Subset, FS_CardinalityType
<1>4. ASSUME NEW s \in D PROVE 0 \in 0..nodes[s].top_layer /\ near(s) \subseteq D
  <2>1. 0 \in 0..nodes[s].top_layer
    BY NodeFacts
  <2> QED
    BY <2>1, ListOf DEF OnLayer
<1>5. \A S \in SUBSET D : Closed(nodes, 0, S) <=> \A s \in S : near(s) \subseteq S
  BY <1>4 DEF Closed
<1>6. \A S \in SUBSET D : S \subseteq Around(S) /\ Around(S) \in SUBSET D
  BY <1>4
<1>7. \A S \in SUBSET D : \A x : x \in Around(S) <=> x \in S \/ \E s \in S : x \in near(s)
  OBVIOUS
<1> HIDE DEF n, D, near, Around
<1>8. \A S \in SUBSET D : Closed(nodes, 0, S) => Around(S) = S
  <2> SUFFICES ASSUME NEW S \in SUBSET D, Closed(nodes, 0, S) PROVE Around(S) = S
    OBVIOUS
  <2>1. \A x : x \in Around(S) => x \in S
    BY <1>5, <1>7
  <2> QED
    BY <1>6, <2>1
<1>9. \A S \in SUBSET D : ~Closed(nodes, 0, S) => \E x : x \in Around(S) /\ x \notin S
  BY <1>5, <1>7
<1>10. \A S \in SUBSET D : Least(S) => Least(Around(S))
  <2> SUFFICES ASSUME NEW S \in SUBSET D, Least(S), NEW W \in SUBSET D, start \in W,
                      Closed(nodes, 0, W), NEW x \in Around(S)
               PROVE  x \in W
    OBVIOUS
  <2>1. S \subseteq W
    OBVIOUS
  <2>2. \A s \in W : near(s) \subseteq W
    BY <1>5
  <2> HIDE DEF Least
  <2> QED
    BY <1>7, <2>1, <2>2
<1>11. {start} \in Good[0]
  <2>1. start \in D /\ 0 \in 0..n
    BY <1>2 DEF D
  <2>2. Cardinality({start}) = 1
    BY FS_Singleton
  <2>3. Least({start})
    OBVIOUS
  <2> HIDE DEF Least
  <2>4. Cardinality({start}) > 0
    BY <2>2
  <2> QED
    BY <2>1, <2>3, <2>4
<1> HIDE DEF Least
<1>12. ASSUME NEW i \in 1..n, NEW S \in Good[i - 1] PROVE F[<<i, S>>] \in Good[i]
  <2>1. i - 1 \in 0..n /\ i \in 0..n /\ i \in Nat
    BY <1>2
  <2>2. /\ S \in SUBSET D /\ start \in S /\ Least(S)
        /\ Closed(nodes, 0, S) \/ Cardinality(S) > i - 1
    BY <2>1
  <2>3. F[<<i, S>>] = Around(S)
    BY <2>2
  <2> HIDE DEF F
  <2>4. Around(S) \in SUBSET D /\ start \in Around(S) /\ Least(Around(S))
    BY <1>6, <1>10, <2>2
  <2>5. Closed(nodes, 0, Around(S)) \/ Cardinality(Around(S)) > i
    <3>1. CASE Closed(nodes, 0, S)
      <4>1. Around(S) = S
        BY <1>8, <2>2, <3>1
      <4> QED
        BY <3>1, <4>1
    <3>2. CASE ~Closed(nodes, 0, S)
      <4>1. PICK x : x \in Around(S) /\ x \notin S
        BY <1>9, <2>2, <3>2
      <4>2. /\ IsFiniteSet(S) /\ Cardinality(S) \in Nat /\ IsFiniteSet(Around(S))
            /\ Cardinality(Around(S)) \in Nat
        BY <1>3, <2>2, <2>4
      <4>3. Cardinality(S \cup {x}) = Cardinality(S) + 1
        BY <4>1, <4>2, FS_AddElement
      <4>4. S \cup {x} \in SUBSET Around(S)
        BY <1>6, <2>2, <4>1
      <4>5. Cardinality(S \cup {x}) =< Cardinality(Around(S))
        BY <4>2, <4>4, FS_Subset
      <4> QED
        BY <2>1, <2>2, <3>2, <4>2, <4>3, <4>5
    <3> QED
      BY <3>1, <3>2
  <2> QED
    BY <2>1, <2>3, <2>4, <2>5
<1>13. Leads(n, Good, F)
  BY <1>12 DEF Leads
<1> HIDE DEF Good, F
<1>14. PICK g : Staged(g, n, Good, {start}, F)
  BY <1>2, <1>11, <1>13, Stages
<1>15. /\ g = [i \in 0..n |-> g[i]] /\ g[0] = {start}
       /\ \A i \in 1..n : g[i] = F[<<i, g[i - 1]>>]
       /\ \A i \in 0..n : g[i] \in Good[i]
  BY <1>14 DEF Staged
<1>16. ASSUME NEW i \in 1..n PROVE g[i] = Around(g[i - 1])
  <2>1. i - 1 \in 0..n
    BY <1>2
  <2>2. g[i - 1] \in SUBSET D
    BY <1>15, <2>1 DEF Good
  <2> QED
    BY <1>15, <2>2 DEF F
<1>17. g = Rec(g)
  <2>1. \A i \in 0..n : i = 0 \/ i \in 1..n
    BY <1>2
  <2> QED
    BY <1>15, <1>16, <2>1
<1>18. reach = Rec(reach)
  BY <1>17
<1> HIDE DEF reach
<1>19. reach[n] = g[n]
  <2>1. 0 \in 0..n /\ \A i \in 1..n : i \in 0..n /\ i # 0
    BY <1>2
  <2>2. reach[0] = {start} /\ \A i \in 1..n : reach[i] = Around(reach[i - 1])
    BY <1>18, <2>1
  <2>3. \A i \in 1..n : reach[i - 1] = g[i - 1] => reach[i] = g[i]
    BY <1>16, <2>2
  <2>4. GoAlike(reach, g, n)
    BY <1>15, <2>2, <2>3 DEF GoAlike
  <2> QED
    BY <1>2, <2>4, SameEnd
<1> DEFINE R == g[n]
<1>20. /\ R \in SUBSET D /\ start \in R /\ Least(R)
       /\ Closed(nodes, 0, R) \/ Cardinality(R) > n
  <2>1. n \in 0..n
    BY <1>2
  <2> QED
    BY <1>15, <2>1 DEF Good
<1> HIDE DEF R
<1>21. Closed(nodes, 0, R)
  <2>1. Cardinality(R) \in Nat /\ Cardinality(R) =< n
    BY <1>3, <1>20
  <2> QED
    BY <1>2, <1>20, <2>1
<1>22. Reachable(start) = R
  BY <1>1, <1>19 DEF R
<1> QED
  BY <1>20, <1>21, <1>22 DEF D, Least

\* What an exploration of layer 0 finds: all it can reach, or the ef nearest beside
\* which there is nothing better.
LEMMA FoundIs ==
    ASSUME nodes \in Seq(Node), Linked(nodes), NEW q \in Points, NEW start \in DOMAIN nodes,
           NEW ef \in Nat \ {0}
    PROVE  LET found == search_layer(nodes, q, start, ef, 0)
               d(s) == distance_to(nodes, q, s)
           IN  /\ found \in SUBSET Reachable(start) /\ Cardinality(found) =< ef
               /\ Cardinality(found) < ef \/ Len(nodes) =< ef => found = Reachable(start)
               /\ \A x, y \in found : \A s \in Elements(nodes[x].neighbors[0]) \ found :
                     d(y) =< d(s)
<1> DEFINE R == Reachable(start)
           found == search_layer(nodes, q, start, ef, 0)
           d(s) == distance_to(nodes, q, s)
<1>1. /\ R \in SUBSET DOMAIN nodes /\ start \in R /\ Closed(nodes, 0, R)
      /\ \A W \in SUBSET DOMAIN nodes : start \in W /\ Closed(nodes, 0, W) => R \subseteq W
  BY ReachableIs
<1> HIDE DEF R
<1>2. PICK st \in States(R) : /\ Explored(nodes, q, start, ef, 0, {}, st)
                              /\ Finished(nodes, q, ef, st) /\ found = st.result
  BY <1>1, SearchLayerIs
<1> HIDE DEF found
<1>3. /\ st.candidates \subseteq R /\ st.result \subseteq R /\ st.visited \subseteq R
  BY DEF States
<1>4. /\ start \in st.visited /\ st.candidates \subseteq st.visited
      /\ found \subseteq st.visited /\ found # {} /\ Cardinality(found) =< ef
      /\ \A s \in st.visited \ found :
            Cardinality(found) = ef /\ \A x \in found : d(x) =< d(s)
      /\ \A s \in found \ st.candidates : Elements(nodes[s].neighbors[0]) \subseteq st.visited
  BY <1>2 DEF Explored
<1>5. \/ st.candidates = {}
      \/ Cardinality(found) >= ef
         /\ d(Closest(nodes, q, st.candidates)) > d(Farthest(nodes, q, found))
  BY <1>2 DEF Finished
<1>6. found \in SUBSET DOMAIN nodes /\ st.candidates \in SUBSET DOMAIN nodes
  BY <1>1, <1>2, <1>3
<1>7. /\ IsFiniteSet(found) /\ Cardinality(found) \in Nat /\ Cardinality(found) =< Len(nodes)
      /\ Cardinality(found) = Len(nodes) => found = DOMAIN nodes
      /\ Len(nodes) \in Nat
  BY <1>6, Lengths, FS_Subset, FS_CardinalityType
<1>8. \A s \in DOMAIN nodes : d(s) \in Int
  BY DistanceIs
<1> HIDE DEF d
<1>9. ASSUME Cardinality(found) < ef PROVE found = R
  <2>1. st.visited = found
    <3>1. Cardinality(found) # ef
      BY <1>7, <1>9
    <3> QED
      BY <1>4, <3>1
  <2>2. st.candidates = {}
    BY <1>5, <1>7, <1>9
  <2>3. Closed(nodes, 0, found)
    <3>1. \A s \in found : 0 \in 0..nodes[s].top_layer
      BY <1>6, NodeFacts
    <3> QED
      BY <1>4, <2>1, <2>2, <3>1 DEF Closed
  <2>4. R \subseteq found
    BY <1>1, <1>4, <1>6, <2>1, <2>3
  <2> QED
    BY <1>2, <1>3, <2>4
<1>10. ASSUME Len(nodes) =< ef PROVE found = R
  <2>1. Cardinality(found) < ef \/ Cardinality(found) = Len(nodes)
    BY <1>7, <1>10
  <2>2. CASE Cardinality(found) = Len(nodes)
    BY <1>1, <1>2, <1>3, <1>7, <2>2
  <2> QED
    BY <1>9, <2>1, <2>2
<1>11. ASSUME NEW x \in found, NEW y \in found, NEW s \in Elements(nodes[x].neighbors[0]) \ found
       PROVE  d(y) =< d(s)
  <2>1. CASE s \in st.visited
    BY <1>4, <2>1
  <2>2. CASE s \notin st.visited
    <3>1. x \in st.candidates
      BY <1>4, <2>2
    <3>2. d(Closest(nodes, q, st.candidates)) > d(Farthest(nodes, q, found))
      BY <1>5, <3>1
    <3>3. d(x) =< d(Farthest(nodes, q, found))
      BY <1>4, <1>6, FarthestDistance DEF d
    <3>4. d(Closest(nodes, q, st.candidates)) =< d(x)
      <4> DEFINE c == Closest(nodes, q, st.candidates)
      <4>1. c \in st.candidates /\ (x = c \/ Closer(nodes, q, c, x))
        BY <1>6, <3>1, ClosestIs
      <4> HIDE DEF c
      <4>2. x = c \/ d(c) < d(x) \/ d(c) = d(x)
        BY <4>1 DEF Closer, d
      <4>3. d(c) \in Int /\ d(x) \in Int
        BY <1>6, <1>8, <3>1, <4>1
      <4> QED
        BY <4>2, <4>3 DEF c
    <3>5. /\ d(x) \in Int /\ d(Closest(nodes, q, st.candidates)) \in Int
          /\ d(Farthest(nodes, q, found)) \in Int
      BY <1>4, <1>6, <1>8, <3>1, ClosestIs, FarthestIs
    <3> QED
      BY <3>2, <3>3, <3>4, <3>5
  <2> QED
    BY <2>1, <2>2
<1>12. found \in SUBSET R
  BY <1>2, <1>3
<1> QED
  BY <1>4, <1>9, <1>10, <1>11, <1>12 DEF R, found, d

LEMMA FirstKIs ==
    ASSUME NEW S, NEW o \in Seq(S), NEW k \in Nat
    PROVE  LET a == FirstK(o, k)
           IN  /\ Len(a) = (IF k < Len(o) THEN k ELSE Len(o)) /\ DOMAIN a = 1..Len(a)
               /\ DOMAIN o = 1..Len(o) /\ Len(a) \in Nat /\ Len(o) \in Nat /\ Len(a) =< Len(o)
               /\ \A i \in 1..Len(a) : i \in 1..Len(o) /\ a[i] = o[i]
<1> DEFINE n == IF k < Len(o) THEN k ELSE Len(o)
           a == FirstK(o, k)
<1>1. Len(o) \in Nat /\ DOMAIN o = 1..Len(o) /\ n \in Nat /\ n =< Len(o)
  OBVIOUS
<1>2. a = SubSeq(o, 1, n)
  BY DEF FirstK
<1>5. n = IF k < Len(o) THEN k ELSE Len(o)
  OBVIOUS
<1> HIDE DEF n, a
<1>3. a = [i \in 1..n |-> o[i]]
  BY <1>1, <1>2
<1>4. Len(a) = n /\ DOMAIN a = 1..n /\ \A i \in 1..n : i \in 1..Len(o) /\ a[i] = o[i]
  BY <1>1, <1>3
<1> QED
  BY <1>1, <1>4, <1>5 DEF a

BeforeOrder(q, S) == {p \in S \X S : Before(nodes, q, p[1], p[2])}

LEMMA BeforeIsOrder ==
    ASSUME nodes \in Seq(Node), \A s, x \in DOMAIN nodes : nodes[s].id = nodes[x].id => s = x,
           NEW q \in Points, NEW S \in SUBSET DOMAIN nodes
    PROVE  /\ StrictOrder(S, BeforeOrder(q, S)) /\ IsFiniteSet(S)
           /\ \A x, y \in S : <<x, y>> \in BeforeOrder(q, S) <=> Before(nodes, q, x, y)
<1> DEFINE d(s) == distance_to(nodes, q, s)
           id(s) == nodes[s].id
           B(x, y) == Before(nodes, q, x, y)
<1>1. \A s \in S : d(s) \in Int /\ id(s) \in Int
  BY DistanceIs, NodeFacts, MetricAssumption
<1>2. \A s, x \in S : B(s, x) <=> d(s) < d(x) \/ (d(s) = d(x) /\ id(s) < id(x))
  BY DEF Before
<1>3. \A s, x \in S : id(s) = id(x) => s = x
  OBVIOUS
<1>4. \A x, y \in S : <<x, y>> \in BeforeOrder(q, S) <=> B(x, y)
  BY DEF BeforeOrder
<1> HIDE DEF d, id, B
<1>5. \A x \in S : ~B(x, x)
  BY <1>1, <1>2
<1>6. ASSUME NEW x \in S, NEW y \in S, NEW z \in S, B(x, y), B(y, z) PROVE B(x, z)
  <2>1. /\ d(x) \in Int /\ d(y) \in Int /\ d(z) \in Int
        /\ id(x) \in Int /\ id(y) \in Int /\ id(z) \in Int
    BY <1>1
  <2>2. d(x) < d(y) \/ (d(x) = d(y) /\ id(x) < id(y))
    BY <1>2, <1>6
  <2>3. d(y) < d(z) \/ (d(y) = d(z) /\ id(y) < id(z))
    BY <1>2, <1>6
  <2>4. d(x) < d(z) \/ (d(x) = d(z) /\ id(x) < id(z))
    BY <2>1, <2>2, <2>3
  <2> QED
    BY <1>2, <2>4
<1>7. ASSUME NEW x \in S, NEW y \in S, x # y PROVE B(x, y) \/ B(y, x)
  <2>1. d(x) \in Int /\ d(y) \in Int /\ id(x) \in Int /\ id(y) \in Int /\ id(x) # id(y)
    BY <1>1, <1>3, <1>7
  <2>2. \/ d(x) < d(y) \/ (d(x) = d(y) /\ id(x) < id(y))
        \/ d(y) < d(x) \/ (d(y) = d(x) /\ id(y) < id(x))
    BY <2>1
  <2> QED
    BY <1>2, <2>2
<1>8. StrictOrder(S, BeforeOrder(q, S))
  BY <1>4, <1>5, <1>6, <1>7, Zenon DEF StrictOrder
<1>9. IsFiniteSet(S)
  BY Lengths, FS_Subset
<1> QED
  BY <1>4, <1>8, <1>9 DEF B

\* The first k of the nodes S, in the order of an answer.
Answers(q, k, S, a) ==
    LET got == Elements(a)
    IN  /\ Len(a) = (IF k < Cardinality(S) THEN k ELSE Cardinality(S)) /\ Len(a) =< k
        /\ got \subseteq S /\ (Len(a) < k => got = S)
        /\ \A i, j \in DOMAIN a : i < j => Before(nodes, q, a[i], a[j])
        /\ \A s \in S \ got, x \in got : Before(nodes, q, x, s)

LEMMA AnswerIs ==
    ASSUME nodes \in Seq(Node), \A s, x \in DOMAIN nodes : nodes[s].id = nodes[x].id => s = x,
           NEW q \in Points, NEW S \in SUBSET DOMAIN nodes, NEW k \in Nat
    PROVE  Answers(q, k, S, FirstK(Sorted(S, BeforeOrder(q, S)), k))
<1> DEFINE R == BeforeOrder(q, S)
           o == Sorted(S, R)
           a == FirstK(o, k)
           got == Elements(a)
<1>1. /\ StrictOrder(S, R) /\ IsFiniteSet(S)
      /\ \A x, y \in S : <<x, y>> \in R <=> Before(nodes, q, x, y)
  BY BeforeIsOrder
<1> HIDE DEF R
<1>2. Sorts(o, S, R)
  BY <1>1, SortedIs
<1> HIDE DEF o
<1>3. o \in Seq(S) /\ Len(o) = Cardinality(S)
  BY <1>1, <1>2, SortedOnce
<1>4. /\ o \in [1..Len(o) -> S] /\ \A x \in S : \E i \in 1..Len(o) : o[i] = x
      /\ \A i, j \in 1..Len(o) : <<o[i], o[j]>> \in R <=> i < j
  BY <1>2, <1>3 DEF Sorts
<1>5. /\ Len(a) = (IF k < Len(o) THEN k ELSE Len(o)) /\ DOMAIN a = 1..Len(a)
      /\ Len(a) \in Nat /\ Len(o) \in Nat /\ Len(a) =< Len(o)
      /\ \A i \in 1..Len(a) : i \in 1..Len(o) /\ a[i] = o[i]
  BY <1>3, FirstKIs
<1> HIDE DEF a
<1>6. \A x \in got : \E i \in 1..Len(a) : x = o[i]
  BY <1>5 DEF Elements
<1>7. \A i \in 1..Len(a) : o[i] \in got
  BY <1>5 DEF Elements
<1> HIDE DEF got
<1>8. got \subseteq S
  BY <1>4, <1>5, <1>6
<1>9. ASSUME Len(a) < k PROVE got = S
  <2>1. Len(a) = Len(o)
    BY <1>5, <1>9
  <2>2. ASSUME NEW x \in S PROVE x \in got
    <3>1. PICK i \in 1..Len(o) : o[i] = x
      BY <1>4
    <3> QED
      BY <1>7, <2>1, <3>1
  <2> QED
    BY <1>8, <2>2
<1>10. ASSUME NEW i \in DOMAIN a, NEW j \in DOMAIN a, i < j PROVE Before(nodes, q, a[i], a[j])
  <2>1. i \in 1..Len(o) /\ j \in 1..Len(o) /\ a[i] = o[i] /\ a[j] = o[j]
    BY <1>5
  <2>2. <<o[i], o[j]>> \in R /\ o[i] \in S /\ o[j] \in S
    BY <1>4, <1>10, <2>1
  <2> QED
    BY <1>1, <2>1, <2>2
<1>11. ASSUME NEW s \in S \ got, NEW x \in got PROVE Before(nodes, q, x, s)
  <2>1. PICK i \in 1..Len(a) : x = o[i]
    BY <1>6
  <2>2. PICK j \in 1..Len(o) : s = o[j]
    BY <1>4
  <2>3. ~(j =< Len(a))
    BY <1>7, <2>2, <1>11
  <2>4. i < j /\ i \in 1..Len(o)
    BY <1>5, <2>3
  <2>5. <<x, s>> \in R
    BY <1>4, <2>1, <2>2, <2>4
  <2> QED
    BY <1>1, <1>8, <2>5
<1>12. Len(a) =< k
  BY <1>5
<1> QED
  BY <1>3, <1>5, <1>8, <1>9, <1>10, <1>11, <1>12 DEF Answers, got, a, o, R

LEMMA LandingIs ==
    ASSUME Inv, nodes # << >>, NEW q \in Points
    PROVE  Landing(q) \in DOMAIN nodes
<1>1. nodes \in Seq(Node) /\ Linked(nodes) /\ Entered(nodes, entry_point, max_level)
  BY DEF Inv, Holds
<1>2. entry_point \in DOMAIN nodes /\ max_level = nodes[entry_point].top_layer
  BY <1>1, EntryIs
<1>3. max_level \in Nat /\ max_level \in 0..nodes[entry_point].top_layer
  BY <1>1, <1>2, NodeFacts
<1> DEFINE W == DOMAIN nodes
<1>4. ASSUME NEW layer PROVE Closed(nodes, layer, OnLayer(nodes, layer) \cap W)
  BY DEF Inv, Linked, LinksOf, OnLayer, Closed
<1>5. entry_point \in OnLayer(nodes, max_level) \cap W
  BY <1>2, <1>3 DEF OnLayer
<1>6. W \in SUBSET DOMAIN nodes
  OBVIOUS
<1> HIDE DEF W
<1>7. Descend(nodes, q, entry_point, max_level, 0)
        \in OnLayer(nodes, IF max_level =< 0 THEN max_level ELSE 0) \cap W
  BY <1>1, <1>3, <1>4, <1>5, <1>6, DescendIs
<1> QED
  BY <1>7 DEF Landing, W

LEMMA SearchExactOf == ASSUME Inv PROVE SearchExact
<1> SUFFICES ASSUME NEW q \in Points, NEW k \in Ks, NEW ef \in Efs
             PROVE  LET answer == search(q, k, ef)
                        got == Elements(answer)
                        reachable == Reachable(Landing(q))
                        within == reachable \cap Live
                    IN  /\ Len(answer) =< k /\ got \subseteq Live
                        /\ \A i, j \in DOMAIN answer :
                              i < j => Before(nodes, q, answer[i], answer[j])
                        /\ ef >= Len(nodes) /\ k > 0 /\ Live # {} =>
                              /\ got \subseteq within
                              /\ Len(answer) = IF k < Cardinality(within) THEN k
                                               ELSE Cardinality(within)
                              /\ \A s \in within \ got, x \in got : Before(nodes, q, x, s)
                        /\ \A x \in got : \A s \in (Elements(nodes[x].neighbors[0]) \cap Live) \ got :
                              \A y \in got : distance_to(nodes, q, y) =< distance_to(nodes, q, s)
                        /\ Len(answer) < k /\ Live = DOMAIN nodes /\ nodes # << >>
                              => got = reachable
  BY DEF SearchExact
<1> DEFINE wide == AtLeast(k, AtLeast(1, ef))
           start == Landing(q)
           found == search_layer(nodes, q, start, wide, 0)
           live == {s \in found : ~nodes[s].deleted}
           answer == search(q, k, ef)
           got == Elements(answer)
           reachable == Reachable(start)
           within == reachable \cap Live
           d(s) == distance_to(nodes, q, s)
<1>1. /\ nodes \in Seq(Node) /\ \A s, x \in DOMAIN nodes : nodes[s].id = nodes[x].id => s = x
      /\ Linked(nodes) /\ Entered(nodes, entry_point, max_level)
      /\ live_count = Cardinality(LiveOf(nodes))
  BY DEF Inv, Holds
<1>2. k \in Nat /\ ef \in Nat
  BY ParamAssumption
<1>3. wide \in Nat \ {0} /\ k =< wide /\ ef =< wide
  BY <1>2 DEF AtLeast
<1>4. Live = LiveOf(nodes) /\ Live \in SUBSET DOMAIN nodes
      /\ \A s \in DOMAIN nodes : s \in Live <=> ~nodes[s].deleted
  BY DEF Live, LiveOf
<1>5. /\ IsFiniteSet(Live) /\ Len(nodes) \in Nat /\ (live_count = 0 <=> Live = {})
      /\ (entry_point = 0 <=> nodes = << >>)
  BY <1>1, <1>4, Lengths, FS_EmptySet, EntryIs
<1>6. Live # {} => nodes # << >>
  BY <1>4
<1>7. answer = IF entry_point = 0 \/ k = 0 \/ live_count = 0 THEN << >>
               ELSE FirstK(Sorted(live, BeforeOrder(q, live)), k)
  BY DEF search, BeforeOrder
<1> HIDE DEF answer, found, start, wide
<1>8. CASE entry_point = 0 \/ k = 0 \/ live_count = 0
  <2>1. answer = << >>
    BY <1>7, <1>8
  <2>2. Len(answer) = 0 /\ DOMAIN answer = {} /\ got = {}
    BY <2>1 DEF Elements
  <2>3. ~(k > 0 /\ Live # {})
    BY <1>2, <1>5, <1>6, <1>8
  <2>4. ~(0 < k /\ Live = DOMAIN nodes /\ nodes # << >>)
    <3>1. nodes # << >> => DOMAIN nodes # {}
      BY <1>1, Lengths
    <3> QED
      BY <1>2, <1>5, <1>8, <3>1
  <2> HIDE DEF got, reachable, within
  <2>5. 0 =< k
    BY <1>2
  <2> QED
    BY <2>2, <2>3, <2>4, <2>5 DEF answer, got, start
<1>9. CASE ~(entry_point = 0 \/ k = 0 \/ live_count = 0)
  <2>1. start \in DOMAIN nodes
    BY <1>5, <1>9, LandingIs DEF start
  <2>2. reachable \in SUBSET DOMAIN nodes
    BY <1>1, <2>1, ReachableIs
  <2>3. /\ found \in SUBSET reachable /\ Cardinality(found) =< wide
        /\ Cardinality(found) < wide \/ Len(nodes) =< wide => found = reachable
        /\ \A x, y \in found : \A s \in Elements(nodes[x].neighbors[0]) \ found : d(y) =< d(s)
    BY <1>1, <1>3, <2>1, FoundIs DEF found
  <2> HIDE DEF reachable
  <2>4. live \in SUBSET DOMAIN nodes /\ live = found \cap Live
    BY <1>4, <2>2, <2>3
  <2> HIDE DEF live
  <2>5. answer = FirstK(Sorted(live, BeforeOrder(q, live)), k)
    BY <1>7, <1>9
  <2>6. /\ Len(answer) = (IF k < Cardinality(live) THEN k ELSE Cardinality(live))
        /\ Len(answer) =< k
        /\ got \subseteq live /\ (Len(answer) < k => got = live)
        /\ \A i, j \in DOMAIN answer : i < j => Before(nodes, q, answer[i], answer[j])
        /\ \A s \in live \ got, x \in got : Before(nodes, q, x, s)
    <3>1. Answers(q, k, live, answer)
      BY <1>1, <1>2, <2>4, <2>5, AnswerIs
    <3> QED
      BY <3>1 DEF Answers
  <2> HIDE DEF got
  <2>7. ASSUME ef >= Len(nodes) PROVE within = live
    <3>1. found = reachable
      BY <1>2, <1>3, <1>5, <2>3, <2>7
    <3> QED
      BY <2>4, <3>1
  <2>8. ASSUME NEW x \in got, NEW y \in got,
               NEW s \in (Elements(nodes[x].neighbors[0]) \cap Live) \ got
        PROVE  d(y) =< d(s)
    <3>1. x \in found /\ y \in found /\ y \in DOMAIN nodes /\ s \in DOMAIN nodes
      BY <1>4, <2>4, <2>6
    <3>2. CASE s \in found
      <4>1. Before(nodes, q, y, s)
        BY <2>4, <2>6, <3>2
      <4>2. d(y) \in Int /\ d(s) \in Int
        BY <1>1, <3>1, DistanceIs
      <4> QED
        BY <4>1, <4>2 DEF Before
    <3>3. CASE s \notin found
      BY <2>3, <3>1, <3>3
    <3> QED
      BY <3>2, <3>3
  <2>9. ASSUME Len(answer) < k, Live = DOMAIN nodes PROVE got = reachable
    <3>1. got = live /\ live = found
      BY <2>2, <2>3, <2>4, <2>6, <2>9
    <3>2. IsFiniteSet(found) /\ Cardinality(found) \in Nat
      BY <1>5, <2>4, <3>1, FS_Subset, FS_CardinalityType
    <3>3. Cardinality(found) < k
      BY <1>2, <2>6, <2>9, <3>1, <3>2
    <3>4. Cardinality(found) < wide
      BY <1>2, <1>3, <3>2, <3>3
    <3> QED
      BY <2>3, <3>1, <3>4
  <2>10. got \subseteq Live
    BY <2>4, <2>6
  <2> HIDE DEF within, d
  <2>11. ef >= Len(nodes) => /\ got \subseteq within
                             /\ Len(answer) = (IF k < Cardinality(within) THEN k
                                               ELSE Cardinality(within))
                             /\ \A s \in within \ got, x \in got : Before(nodes, q, x, s)
    BY <2>6, <2>7
  <2> QED
    BY <2>6, <2>8, <2>9, <2>10, <2>11 DEF answer, got, start, reachable, within, d
<1> QED
  BY <1>8, <1>9

\* search answers in order with live nodes, none twice; with a wide ef exactly the
\* nearest of those that can be reached from where the descent lands; and with any ef
\* the exploration never stops beside something better, for every graph the index
\* can come to.
THEOREM SearchesExact == Spec => []SearchExact
<1>1. Inv => SearchExact
  BY SearchExactOf
<1> QED
  BY <1>1, InvHolds, PTL

-----------------------------------------------------------------------------
(* Nothing is cut off                                                       *)

\* Layer 0 is in one piece: only all of its nodes together are left by no edge.
Whole(ns) == \A V \in SUBSET DOMAIN ns : V # {} /\ Closed(ns, 0, V) => V = DOMAIN ns

\* It is so while no list of layer 0 can overflow and no tombstone was dropped.
Joined == ~reloaded /\ Len(nodes) =< max_neighbors_for_layer(0) + 1 => Whole(nodes)

\* A node tied to a graph in one piece is part of it.
LEMMA TiedKeepsWhole ==
    ASSUME NEW old, Linked(old), Whole(old), NEW node, node \notin DOMAIN old,
           NEW ns, DOMAIN ns = DOMAIN old \cup {node}, \A s \in DOMAIN old : ns[s] = old[s],
           NEW ms, DOMAIN ms = DOMAIN ns,
           \A s \in DOMAIN old : 0 \in 0..old[s].top_layer /\ ms[s].top_layer = old[s].top_layer,
           Tied(ns, ms, node), Len(ns) =< max_neighbors_for_layer(0) + 1
    PROVE  Whole(ms)
<1>1. PICK x \in DOMAIN old :
         x \in Elements(ms[node].neighbors[0]) /\ node \in Elements(ms[x].neighbors[0])
  BY DEF Tied
<1>2. \A s \in DOMAIN old : Elements(old[s].neighbors[0]) \subseteq Elements(ms[s].neighbors[0])
  BY DEF Tied
<1>3. \A s \in DOMAIN old : Elements(old[s].neighbors[0]) \subseteq DOMAIN old
  BY DEF Linked, LinksOf, OnLayer
<1>4. ASSUME NEW V \in SUBSET DOMAIN ms, V # {}, Closed(ms, 0, V) PROVE V = DOMAIN ms
  <2> DEFINE U == V \ {node}
  <2>1. \A s \in V : Elements(ms[s].neighbors[0]) \subseteq V
    BY <1>4 DEF Closed
  <2>2. U \in SUBSET DOMAIN old
    OBVIOUS
  <2>3. U # {}
    <3>1. node \in V => x \in V
      BY <1>1, <2>1
    <3> QED
      BY <1>4, <3>1
  <2>4. Closed(old, 0, U)
    <3>1. ASSUME NEW s \in U PROVE 0 \in 0..old[s].top_layer /\ Elements(old[s].neighbors[0]) \subseteq U
      <4>1. s \in DOMAIN old /\ s \in V
        BY <2>2
      <4>2. Elements(old[s].neighbors[0]) \subseteq V
        BY <1>2, <2>1, <4>1
      <4> QED
        BY <1>3, <4>1, <4>2
    <3> QED
      BY <3>1 DEF Closed
  <2>5. U = DOMAIN old
    BY <2>2, <2>3, <2>4 DEF Whole
  <2>6. node \in V
    BY <1>1, <2>1, <2>5
  <2> QED
    BY <2>5, <2>6
<1> QED
  BY <1>4 DEF Whole

LEMMA SameEdgesWhole ==
    ASSUME NEW ns, NEW ms, SameEdges(ns, ms), Whole(ns)
    PROVE  Whole(ms)
<1>1. \A V \in SUBSET DOMAIN ns : Closed(ms, 0, V) => Closed(ns, 0, V)
  BY DEF SameEdges, Closed
<1> QED
  BY <1>1 DEF SameEdges, Whole

LEMMA AddNewJoined ==
    ASSUME Inv, Joined, NEW id \in Ids, NEW v \in Points, NEW level \in 0..MaxLevel,
           AddNew(id, v, level)
    PROVE  Joined'
<1> SUFFICES ASSUME ~reloaded', Len(nodes') =< max_neighbors_for_layer(0) + 1 PROVE Whole(nodes')
  BY DEF Joined
<1> DEFINE ns == Append(nodes, NewNode(id, v, level))
           node == Len(nodes) + 1
<1>1. /\ nodes \in Seq(Node) /\ Linked(nodes) /\ Entered(nodes, entry_point, max_level)
      /\ Len(nodes) \in Nat
  BY DEF Inv, Holds
<1>2. /\ Grown(ns, nodes', node, 0) /\ Len(ns) = node
      /\ entry_point # 0 => Tied(ns, nodes', node)
      /\ node \notin DOMAIN nodes /\ DOMAIN ns = DOMAIN nodes \cup {node}
      /\ \A s \in DOMAIN nodes : ns[s] = nodes[s]
  BY AddNewIs
<1> HIDE DEF ns
<1>3. /\ nodes' \in Seq(Node) /\ Len(nodes') = node /\ DOMAIN nodes' = DOMAIN ns
      /\ \A s \in DOMAIN nodes : nodes'[s].top_layer = nodes[s].top_layer
  BY <1>2 DEF Grown, SameButLinks
<1>4. ~reloaded
  BY DEF AddNew
<1>5. Len(nodes) =< max_neighbors_for_layer(0) + 1
  <2>1. max_neighbors_for_layer(0) \in Nat
    BY CapIs
  <2> QED
    BY <1>1, <1>3, <2>1
<1>6. Whole(nodes)
  BY <1>4, <1>5 DEF Joined
<1>7. CASE entry_point = 0
  <2>1. nodes = << >>
    <3>1. ~(0 \in DOMAIN nodes)
      BY <1>1
    <3> QED
      BY <1>1, <1>7, <3>1 DEF Entered
  <2>2. DOMAIN nodes' = {node}
    BY <1>2, <1>3, <2>1
  <2> QED
    BY <2>2 DEF Whole
<1>8. CASE entry_point # 0
  <2>1. \A s \in DOMAIN nodes : 0 \in 0..nodes[s].top_layer
    <3>1. \A s \in DOMAIN nodes : nodes[s].top_layer \in Nat
      BY <1>1, NodeFacts
    <3> QED
      BY <3>1
  <2>2. Tied(ns, nodes', node) /\ Len(ns) =< max_neighbors_for_layer(0) + 1
    BY <1>2, <1>3, <1>8
  <2> HIDE DEF node
  <2> QED
    BY <1>1, <1>2, <1>3, <1>6, <2>1, <2>2, TiedKeepsWhole
<1> QED
  BY <1>7, <1>8

\* A load that drops no tombstone numbers the nodes anew, and their edges with them.
LEMMA ReloadJoined == ASSUME Inv, Joined, Reload PROVE Joined'
<1> SUFFICES ASSUME ~reloaded', Len(nodes') =< max_neighbors_for_layer(0) + 1 PROVE Whole(nodes')
  BY DEF Joined
<1> DEFINE d == deserialize(serialize(nodes), records)
           live == CanonicalOrder(nodes)
           n == Cardinality(LiveOf(nodes))
<1>1. /\ nodes \in Seq(Node) /\ Linked(nodes) /\ Holds(nodes, records)
      /\ \A s, x \in DOMAIN nodes : nodes[s].id = nodes[x].id => s = x
  BY DEF Inv, Holds
<1>2. nodes' = d.nodes /\ ~reloaded /\ \A s \in DOMAIN nodes : ~nodes[s].deleted
  BY DEF Reload
<1>3. LiveOf(nodes) = DOMAIN nodes
  BY <1>2 DEF LiveOf
<1>4. n = Len(nodes) /\ n \in Nat
  BY <1>1, <1>3, Lengths
<1>5. /\ nodes' \in Seq(Node) /\ Len(nodes') = n
      /\ \A c \in 1..n : nodes'[c] = RegionNode(nodes, live, c)
  BY <1>1, <1>2, LoadIs
<1>6. live \in Seq(LiveOf(nodes)) /\ Len(live) = n /\ Elements(live) = DOMAIN nodes /\ NoRepeats(live)
  BY <1>1, <1>3, CanonicalIs DEF Canonical
<1> HIDE DEF d, live, n
<1>7. DOMAIN live = 1..n /\ DOMAIN nodes' = 1..n
  BY <1>5, <1>6
<1>8. ASSUME NEW c \in 1..n
      PROVE  /\ live[c] \in DOMAIN nodes /\ 0 \in 0..nodes[live[c]].top_layer
             /\ Elements(nodes'[c].neighbors[0]) = ListIn(live, nodes[live[c]].neighbors[0])
  <2>1. Restores(nodes, live, live[c], nodes'[c])
    BY <1>1, <1>5, <1>6, <1>7, RegionNodeIs
  <2>2. live[c] \in DOMAIN nodes
    BY <1>6, <1>7 DEF Elements
  <2>3. 0 \in 0..nodes[live[c]].top_layer
    <3>1. nodes[live[c]].top_layer \in Nat
      BY <1>1, <2>2, NodeFacts
    <3> QED
      BY <3>1
  <2> QED
    BY <2>1, <2>2, <2>3 DEF Restores
<1>9. Whole(nodes)
  BY <1>2, <1>4, <1>5 DEF Joined
<1>10. ASSUME NEW V \in SUBSET DOMAIN nodes', V # {}, Closed(nodes', 0, V)
       PROVE  V = DOMAIN nodes'
  <2> DEFINE U == {live[c] : c \in V}
  <2>1. V \in SUBSET (1..n)
    BY <1>7
  <2>2. U \in SUBSET DOMAIN nodes /\ U # {}
    BY <1>8, <1>10, <2>1
  <2>3. ASSUME NEW c \in V PROVE Elements(nodes[live[c]].neighbors[0]) \subseteq U
    <3>1. c \in 1..n /\ Elements(nodes'[c].neighbors[0]) \subseteq V
      BY <1>10, <2>1 DEF Closed
    <3>2. live[c] \in DOMAIN nodes /\ Elements(nodes[live[c]].neighbors[0]) \subseteq DOMAIN nodes
      BY <1>1, <1>8, <3>1, ListOf DEF OnLayer
    <3>3. ASSUME NEW y \in Elements(nodes[live[c]].neighbors[0]) PROVE y \in U
      <4>1. PICK b \in DOMAIN live : y = live[b]
        BY <1>6, <3>2, <3>3 DEF Elements
      <4>2. b \in ListIn(live, nodes[live[c]].neighbors[0])
        BY <3>3, <4>1 DEF ListIn
      <4>3. b \in V
        BY <1>8, <3>1, <4>2
      <4> QED
        BY <4>1, <4>3
    <3> QED
      BY <3>3
  <2>4. Closed(nodes, 0, U)
    BY <1>8, <2>1, <2>3 DEF Closed
  <2>5. U = DOMAIN nodes
    BY <1>9, <2>2, <2>4 DEF Whole
  <2>6. ASSUME NEW b \in 1..n PROVE b \in V
    <3>1. PICK c \in V : live[b] = live[c]
      BY <1>8, <2>5
    <3> QED
      BY <1>6, <1>7, <2>1, <3>1 DEF NoRepeats
  <2> QED
    BY <1>7, <2>1, <2>6
<1> QED
  BY <1>10 DEF Whole

LEMMA JoinedNext == ASSUME Inv, Joined, [Next]_vars PROVE Joined'
<1>1. ASSUME SameEdges(nodes, nodes'), nodes' \in Seq(Node), reloaded' = reloaded PROVE Joined'
  <2>1. Len(nodes') = Len(nodes)
    <3>1. nodes \in Seq(Node) /\ DOMAIN nodes' = DOMAIN nodes
      BY <1>1 DEF Inv, Holds, SameEdges
    <3>2. Cardinality(DOMAIN nodes') = Len(nodes') /\ Cardinality(DOMAIN nodes) = Len(nodes)
      BY <1>1, <3>1, Lengths
    <3> QED
      BY <3>1, <3>2
  <2> QED
    BY <1>1, <2>1, SameEdgesWhole DEF Joined
<1>2. ASSUME NEW id \in Ids, NEW v \in VectorsOf[id], NEW level \in random_top_layer,
             AddNew(id, v, level)
      PROVE  Joined'
  <2>1. v \in Points /\ level \in 0..MaxLevel
    BY MetricAssumption DEF random_top_layer
  <2> QED
    BY <1>2, <2>1, AddNewJoined
<1>3. ASSUME NEW id \in Ids, NEW v \in VectorsOf[id], AddKnown(id, v) PROVE Joined'
  <2>1. v \in Points
    BY MetricAssumption
  <2>2. SameEdges(nodes, nodes') /\ Holds(nodes', records') /\ reloaded' = reloaded
    BY <1>3, <2>1, AddKnownKeeps DEF AddKnown
  <2> QED
    BY <1>1, <2>2 DEF Holds
<1>4. ASSUME NEW id \in Ids, remove(id) PROVE Joined'
  <2>1. SameEdges(nodes, nodes') /\ Holds(nodes', records') /\ reloaded' = reloaded
    BY <1>4, RemoveKeeps DEF remove
  <2> QED
    BY <1>1, <2>1 DEF Holds
<1>5. CASE UNCHANGED vars
  BY <1>5 DEF vars, Joined
<1> QED
  BY <1>2, <1>3, <1>4, <1>5, ReloadJoined DEF Next

LEMMA NothingCutOffOf == ASSUME Inv, Joined PROVE NothingCutOff
<1> SUFFICES ASSUME ~reloaded, Len(nodes) =< max_neighbors_for_layer(0) + 1,
                    NEW q \in Points, nodes # << >>
             PROVE  Reachable(Landing(q)) = DOMAIN nodes
  BY DEF NothingCutOff
<1>1. nodes \in Seq(Node) /\ Linked(nodes)
  BY DEF Inv, Holds
<1>2. Landing(q) \in DOMAIN nodes
  BY LandingIs
<1>3. /\ Reachable(Landing(q)) \in SUBSET DOMAIN nodes /\ Landing(q) \in Reachable(Landing(q))
      /\ Closed(nodes, 0, Reachable(Landing(q)))
  BY <1>1, <1>2, ReachableIs
<1> QED
  BY <1>3 DEF Joined, Whole

\* While no layer-0 list can overflow and no load has dropped a tombstone, every
\* node is reached wherever a descent lands: no insertion, replacement, removal or
\* reload cuts the graph in two (hnsw_index.cpp, connect_node and deserialize).
THEOREM NoneCutOff == Spec => []NothingCutOff
<1>1. Init => Joined
  <2>1. DOMAIN << >> = {}
    OBVIOUS
  <2> QED
    BY <2>1 DEF Init, Joined, Whole
<1>2. Inv /\ Joined /\ [Next]_vars => Joined'
  BY JoinedNext
<1>3. Inv /\ Joined => NothingCutOff
  BY NothingCutOffOf
<1> QED
  BY <1>1, <1>2, <1>3, InvHolds, PTL DEF Spec
=============================================================================
