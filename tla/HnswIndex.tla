------------------------------ MODULE HnswIndex ------------------------------
(***************************************************************************)
(* The HNSW index of src/core/hnsw_index.cpp: a graph of layers built by    *)
(* greedy descent, best-first exploration and the neighbour heuristic,      *)
(* tombstones, searches, and the canonical form saved in a snapshot.        *)
(*                                                                          *)
(* add and remove run under the exclusive lock of the collection, a search  *)
(* under the shared one; a search changes nothing, so it is an operator.    *)
(* Internal ids are positions in nodes, from 1; 0 stands for the entry      *)
(* point -1.  Dist is the metric, any function of two vectors (+infinity as *)
(* a large number, no NaN).  The level of a new node is any of 0..MaxLevel. *)
(***************************************************************************)
EXTENDS Maps, FiniteSets

CONSTANTS Ids,             \* numbers, in the order of the identifiers
          Points,          \* vectors
          VectorsOf,       \* id -> the vectors its record is given
          Dist,            \* <<vector, vector>> -> distance
          m,               \* IndexParams::m
          UintMod,         \* uint32_t arithmetic is modulo this
          ef_construction,
          MaxLevel,        \* bound on the levels drawn
          Ks, Efs,         \* values of k and ef_search
          MaxOps,          \* bound on the operations of a behaviour
          NoNode           \* the abstract graph's absent entry point

ASSUME ParamAssumption ==
    m \in Nat /\ UintMod \in Nat \ {0} /\ ef_construction \in Nat /\ MaxLevel \in Nat
    /\ Ks \subseteq Nat /\ Efs \subseteq Nat /\ MaxOps \in Nat

\* Identifiers and distances are numbers.
ASSUME MetricAssumption ==
    /\ Ids \subseteq Int /\ NoNode \notin Ids
    /\ \A id \in Ids : VectorsOf[id] \subseteq Points
    /\ \A p \in Points \X Points : Dist[p] \in Int

VARIABLES nodes,        \* by internal id: [id, vector, top_layer, deleted, neighbors]
          entry_point,
          max_level,
          live_count,
          records,      \* the collection's record store: id -> vector
          reloaded,     \* history: a load has dropped tombstones
          ops

vars == <<nodes, entry_point, max_level, live_count, records, reloaded, ops>>

-----------------------------------------------------------------------------

AtLeast(low, n) == IF n < low THEN low ELSE n

\* The constructor's clamps, and 2*m links on layer 0, in 32 bits (for m from
\* 2^31 on the product wraps).
max_neighbors_upper == AtLeast(2, m)
max_neighbors_for_layer(layer) ==
    IF layer = 0 THEN (2 * max_neighbors_upper) % UintMod ELSE max_neighbors_upper

distance_to(ns, q, s) == Dist[q, ns[s].vector]
node_distance(ns, s, x) == distance_to(ns, ns[s].vector, x)

\* The order of (distance, internal id) pairs.
Closer(ns, q, s, x) ==
    \/ distance_to(ns, q, s) < distance_to(ns, q, x)
    \/ distance_to(ns, q, s) = distance_to(ns, q, x) /\ s < x

Closest(ns, q, S) == CHOOSE s \in S : \A x \in S \ {s} : Closer(ns, q, s, x)
Farthest(ns, q, S) == CHOOSE s \in S : \A x \in S \ {s} : Closer(ns, q, x, s)

Ascending(S) == Sorted(S, {p \in S \X S : p[1] < p[2]})

NearestFirst(ns, q, S) == Sorted(S, {p \in S \X S : Closer(ns, q, p[1], p[2])})

\* Nearest first, a candidate is kept when it is closer to the base than to
\* every one kept before, until there are `limit' of them.
select_neighbors_heuristic(ns, base, S, limit) ==
    LET order == NearestFirst(ns, base, S)
        selected[i \in 0..Len(order)] ==
            IF i = 0 THEN << >>
            ELSE LET kept == selected[i - 1]
                     e == order[i]
                 IN  IF /\ Len(kept) < limit
                        /\ \A r \in Elements(kept) :
                              node_distance(ns, e, r) > distance_to(ns, base, e)
                     THEN Append(kept, e) ELSE kept
    IN  selected[Len(order)]

\* One pass over the neighbours of s: the first of the nearest, if it is nearer
\* to q than s is.
Hop(ns, q, s, layer) ==
    LET list == ns[s].neighbors[layer]
        d(i) == distance_to(ns, q, list[i])
        best == {i \in DOMAIN list : \A j \in DOMAIN list : d(i) =< d(j)}
        first == CHOOSE i \in best : \A j \in best : i =< j
    IN  IF list # << >> /\ d(first) < distance_to(ns, q, s) THEN list[first] ELSE s

\* Every pass but the last gets nearer, so there are at most Len(ns).
greedy_descend(ns, q, start, layer) ==
    LET at[n \in 0..Len(ns)] == IF n = 0 THEN start ELSE Hop(ns, q, at[n - 1], layer)
    IN  at[Len(ns)]

\* Greedy descent through the layers from `high' down to `low' + 1.
Descend(ns, q, start, high, low) ==
    LET at[layer \in low..high] ==
            IF layer = high THEN start
            ELSE greedy_descend(ns, q, at[layer + 1], layer + 1)
    IN  IF high =< low THEN start ELSE at[low]

-----------------------------------------------------------------------------
(* Best-first exploration: candidates to expand, the ef nearest so far, and  *)
(* the nodes seen                                                            *)

\* Mutant of Visit: a full result lets nothing nearer in.
VisitWhileRoom(ns, q, ef, st, s) ==
    IF s \in st.visited THEN st
    ELSE IF Cardinality(st.result) < ef
         THEN [candidates |-> st.candidates \cup {s}, result |-> st.result \cup {s},
               visited |-> st.visited \cup {s}]
         ELSE [st EXCEPT !.visited = @ \cup {s}]

\* A neighbour not seen yet joins when there is room or it beats the worst.
Visit(ns, q, ef, st, s) ==
    LET seen == [st EXCEPT !.visited = @ \cup {s}]
        grown == st.result \cup {s}
    IN  IF s \in st.visited THEN st
        ELSE IF \/ Cardinality(st.result) < ef
                \/ distance_to(ns, q, s) < distance_to(ns, q, Farthest(ns, q, st.result))
        THEN [seen EXCEPT !.candidates = @ \cup {s},
                          !.result = IF Cardinality(grown) > ef
                                     THEN grown \ {Farthest(ns, q, grown)} ELSE grown]
        ELSE seen

\* All candidates are expanded, or the nearest is beyond a full result.
Finished(ns, q, ef, st) ==
    \/ st.candidates = {}
    \/ /\ Cardinality(st.result) >= ef
       /\ distance_to(ns, q, Closest(ns, q, st.candidates))
             > distance_to(ns, q, Farthest(ns, q, st.result))

\* The nearest candidate is taken out and its neighbours visited in order.
Expand(ns, q, ef, layer, st) ==
    LET s == Closest(ns, q, st.candidates)
        list == ns[s].neighbors[layer]
        after[i \in 0..Len(list)] ==
            IF i = 0 THEN [st EXCEPT !.candidates = @ \ {s}]
            ELSE Visit(ns, q, ef, after[i - 1], list[i])
    IN  after[Len(list)]

\* A node is a candidate at most once, so Len(ns) expansions are enough.
search_layer(ns, q, start, ef, layer) ==
    LET st[n \in 0..Len(ns)] ==
            IF n = 0 THEN [candidates |-> {start}, result |-> {start}, visited |-> {start}]
            ELSE LET so_far == st[n - 1]
                 IN  IF Finished(ns, q, ef, so_far) THEN so_far
                     ELSE Expand(ns, q, ef, layer, so_far)
    IN  st[Len(ns)].result

-----------------------------------------------------------------------------
(* add and remove                                                            *)

\* A list that overflows the layer's limit goes through the heuristic again.
Trimmed(ns, s, list, layer) ==
    IF Len(list) > max_neighbors_for_layer(layer)
    THEN select_neighbors_heuristic(ns, ns[s].vector, Elements(list),
                                    max_neighbors_for_layer(layer))
    ELSE list

\* Mutants of connect_node: no edge back; no limit on the neighbours' lists.
ConnectOneWay(ns, node, found, layer) ==
    [ns EXCEPT ![node].neighbors[layer] =
        select_neighbors_heuristic(ns, ns[node].vector, found, max_neighbors_for_layer(layer))]

ConnectUnlimited(ns, node, found, layer) ==
    LET selected == select_neighbors_heuristic(ns, ns[node].vector, found,
                                               max_neighbors_for_layer(layer))
    IN  [s \in DOMAIN ns |->
           IF s = node THEN [ns[s] EXCEPT !.neighbors[layer] = selected]
           ELSE IF s \in Elements(selected)
           THEN [ns[s] EXCEPT !.neighbors[layer] = Append(@, node)]
           ELSE ns[s]]

\* The new node's edges on a layer, and the edges back.
connect_node(ns, node, found, layer) ==
    LET selected == select_neighbors_heuristic(ns, ns[node].vector, found,
                                               max_neighbors_for_layer(layer))
    IN  [s \in DOMAIN ns |->
           IF s = node THEN [ns[s] EXCEPT !.neighbors[layer] = selected]
           ELSE IF s \in Elements(selected)
           THEN [ns[s] EXCEPT !.neighbors[layer] = Trimmed(ns, s, Append(@, node), layer)]
           ELSE ns[s]]

\* From the layer `high' down to 0: explore, connect, and go on from the
\* nearest node found.
Connected(ns, node, start, high) ==
    LET q == ns[node].vector
        st[layer \in 0..(high + 1)] ==
            IF layer = high + 1 THEN [ns |-> ns, current |-> start]
            ELSE LET above == st[layer + 1]
                     found == search_layer(above.ns, q, above.current,
                                           AtLeast(1, ef_construction), layer)
                 IN  [ns |-> connect_node(above.ns, node, found, layer),
                      current |-> Closest(above.ns, q, found)]
    IN  st[0].ns

\* The level of a new node: any, up to the bound.
random_top_layer == 0..MaxLevel

NewNode(id, v, level) ==
    [id |-> id, vector |-> v, top_layer |-> level, deleted |-> FALSE,
     neighbors |-> [layer \in 0..level |-> << >>]]

InternalId(id) == {s \in DOMAIN nodes : nodes[s].id = id}
Counted == ops < MaxOps /\ ops' = ops + 1

\* Mutant of AddNew: a node above all others does not become the entry point.
AddNewKeepsEntry(id, v, level) ==
    LET ns == Append(nodes, NewNode(id, v, level))
        node == Len(ns)
        start == Descend(ns, v, entry_point, max_level, level)
        high == IF level < max_level THEN level ELSE max_level
    IN  /\ Counted
        /\ records' = Put(records, id, v)
        /\ InternalId(id) = {}
        /\ live_count' = live_count + 1
        /\ nodes' = IF entry_point = 0 THEN ns ELSE Connected(ns, node, start, high)
        /\ entry_point' = IF entry_point = 0 THEN node ELSE entry_point
        /\ max_level' = IF level > max_level THEN level ELSE max_level
        /\ UNCHANGED reloaded

\* add of a new identifier.  The first node becomes the entry point, and so
\* does a node above all others.
AddNew(id, v, level) ==
    LET ns == Append(nodes, NewNode(id, v, level))
        node == Len(ns)
        start == Descend(ns, v, entry_point, max_level, level)
        high == IF level < max_level THEN level ELSE max_level
    IN  /\ Counted
        /\ records' = Put(records, id, v)
        /\ InternalId(id) = {}
        /\ live_count' = live_count + 1
        /\ nodes' = IF entry_point = 0 THEN ns ELSE Connected(ns, node, start, high)
        /\ entry_point' = IF level > max_level THEN node ELSE entry_point
        /\ max_level' = IF level > max_level THEN level ELSE max_level
        /\ UNCHANGED reloaded

\* Mutant of AddKnown: a revived tombstone keeps its vector.
AddKnownKeepsVector(id, v) ==
    /\ Counted
    /\ records' = Put(records, id, v)
    /\ \E s \in InternalId(id) :
          /\ nodes' = [nodes EXCEPT ![s].vector = IF nodes[s].deleted THEN @ ELSE v,
                                   ![s].deleted = FALSE]
          /\ live_count' = IF nodes[s].deleted THEN live_count + 1 ELSE live_count
    /\ UNCHANGED <<entry_point, max_level, reloaded>>

\* add of a known one: the vector is replaced and a tombstone revived, the
\* edges stay.
AddKnown(id, v) ==
    /\ Counted
    /\ records' = Put(records, id, v)
    /\ \E s \in InternalId(id) :
          /\ nodes' = [nodes EXCEPT ![s].vector = v, ![s].deleted = FALSE]
          /\ live_count' = IF nodes[s].deleted THEN live_count + 1 ELSE live_count
    /\ UNCHANGED <<entry_point, max_level, reloaded>>

\* remove: a live node becomes a tombstone; otherwise NotFound.
remove(id) ==
    /\ Counted
    /\ records' = Erase(records, id)
    /\ \E s \in InternalId(id) :
          /\ ~nodes[s].deleted
          /\ nodes' = [nodes EXCEPT ![s].deleted = TRUE]
    /\ live_count' = live_count - 1
    /\ UNCHANGED <<entry_point, max_level, reloaded>>

-----------------------------------------------------------------------------
(* search                                                                    *)

\* The order of candidates: (distance, identifier).
Before(ns, q, s, x) ==
    \/ distance_to(ns, q, s) < distance_to(ns, q, x)
    \/ distance_to(ns, q, s) = distance_to(ns, q, x) /\ ns[s].id < ns[x].id

FirstK(seq, k) == SubSeq(seq, 1, IF k < Len(seq) THEN k ELSE Len(seq))

Landing(q) == Descend(nodes, q, entry_point, max_level, 0)

\* The live nodes among the ef nearest found on layer 0, as internal ids.
search(q, k, ef_search) ==
    LET ef == AtLeast(k, AtLeast(1, ef_search))
        found == search_layer(nodes, q, Landing(q), ef, 0)
        live == {s \in found : ~nodes[s].deleted}
    IN  IF entry_point = 0 \/ k = 0 \/ live_count = 0 THEN << >>
        ELSE FirstK(Sorted(live, {p \in live \X live : Before(nodes, q, p[1], p[2])}), k)

-----------------------------------------------------------------------------
(* The region of a snapshot                                                  *)

\* Live nodes by ascending identifier: a position is a canonical id.
CanonicalOrder(ns) ==
    LET live == {s \in DOMAIN ns : ~ns[s].deleted}
    IN  Sorted(live, {p \in live \X live : ns[p[1]].id < ns[p[2]].id})

\* Mutant of Remapped: the internal ids are written.
RemappedInternal(live, list) == Ascending(Elements(list) \cap Elements(live))

\* A neighbour list in canonical ids: no tombstones, ascending, no duplicates.
Remapped(live, list) ==
    Ascending({c \in DOMAIN live : live[c] \in Elements(list)})

\* The entry point is the first of the highest live nodes.
serialize(ns) ==
    LET live == CanonicalOrder(ns)
        top(c) == ns[live[c]].top_layer
        highest == {c \in DOMAIN live : \A b \in DOMAIN live : top(b) =< top(c)}
        first == CHOOSE c \in highest : \A b \in highest : c =< b
    IN  [max_level |-> IF live = << >> THEN -1 ELSE top(first),
         entry |-> IF live = << >> THEN 0 ELSE first,
         nodes |-> [c \in DOMAIN live |->
            [id |-> ns[live[c]].id, top_layer |-> top(c),
             neighbors |-> [layer \in 0..top(c) |->
                              Remapped(live, ns[live[c]].neighbors[layer])]]]]

\* What deserialize checks of a region that has been read to its end.
\* vector_for maps the identifiers of the record store to their vectors.
WellFormed(region, vector_for) ==
    LET count == Len(region.nodes)
    IN  /\ \A c \in 1..count :
             LET n == region.nodes[c]
             IN  /\ n.top_layer >= 0
                 /\ n.id \in DOMAIN vector_for
                 /\ \A layer \in 0..n.top_layer : Elements(n.neighbors[layer]) \subseteq 1..count
                 /\ \A b \in 1..(c - 1) : region.nodes[b].id # n.id
        /\ count > 0 => region.entry \in 1..count

deserialize(region, vector_for) ==
    [nodes |-> [c \in DOMAIN region.nodes |->
        [id |-> region.nodes[c].id, vector |-> vector_for[region.nodes[c].id],
         top_layer |-> region.nodes[c].top_layer, deleted |-> FALSE,
         neighbors |-> region.nodes[c].neighbors]],
     entry_point |-> IF region.nodes = << >> THEN 0 ELSE region.entry,
     max_level |-> region.max_level,
     live_count |-> Len(region.nodes)]

\* A save and a load.
Reload ==
    /\ WellFormed(serialize(nodes), records)
    /\ LET loaded == deserialize(serialize(nodes), records)
       IN  /\ nodes' = loaded.nodes
           /\ entry_point' = loaded.entry_point
           /\ max_level' = loaded.max_level
           /\ live_count' = loaded.live_count
    /\ reloaded' = (reloaded \/ \E s \in DOMAIN nodes : nodes[s].deleted)
    /\ UNCHANGED <<records, ops>>

-----------------------------------------------------------------------------

Init ==
    /\ nodes = << >>
    /\ entry_point = 0
    /\ max_level = -1
    /\ live_count = 0
    /\ records = EmptyMap
    /\ reloaded = FALSE
    /\ ops = 0

Next ==
    \/ \E id \in Ids : \/ \E v \in VectorsOf[id] : \/ \E level \in random_top_layer : AddNew(id, v, level)
                                                 \/ AddKnown(id, v)
                       \/ remove(id)
    \/ Reload

Spec == Init /\ [][Next]_vars

-----------------------------------------------------------------------------
(* Properties                                                                *)

Live == {s \in DOMAIN nodes : ~nodes[s].deleted}

\* The nodes that can be reached from a node on layer 0.
Reachable(start) ==
    LET reach[n \in 0..Len(nodes)] ==
            IF n = 0 THEN {start}
            ELSE LET so_far == reach[n - 1]
                 IN  so_far \cup UNION {Elements(nodes[s].neighbors[0]) : s \in so_far}
    IN  reach[Len(nodes)]

\* The shape of the nodes; one node for each identifier (id_to_internal_), and
\* a live count that agrees with the tombstone flags after any sequence of
\* adds, re-adds, removes and reloads.
TypeOK ==
    /\ \A s \in DOMAIN nodes :
          /\ nodes[s].id \in Ids /\ nodes[s].vector \in Points
          /\ nodes[s].top_layer \in 0..MaxLevel /\ nodes[s].deleted \in BOOLEAN
          /\ DOMAIN nodes[s].neighbors = 0..nodes[s].top_layer
    /\ \A id \in Ids : Cardinality(InternalId(id)) =< 1
    /\ live_count = Cardinality(Live)
    /\ reloaded \in BOOLEAN /\ ops \in 0..MaxOps

\* The live nodes hold exactly the records of the collection, with their latest
\* vectors, whatever was replaced, revived or reloaded: what Collection assumes
\* of an index.
IndexAgrees ==
    TypeOK /\ records = [id \in {nodes[s].id : s \in Live} |->
                            nodes[CHOOSE s \in InternalId(id) : TRUE].vector]

\* No traversal reads neighbors[layer] of a node that has no such layer: every
\* edge leads to another node of its layer, once, within the degree caps, and
\* the descent from max_level starts at a node that reaches so high, also after
\* the entry point was removed or a load chose a new one.
GraphSound ==
    /\ \A s \in DOMAIN nodes : \A layer \in 0..nodes[s].top_layer :
          LET list == nodes[s].neighbors[layer]
          IN  /\ \A i \in DOMAIN list :
                   /\ list[i] \in DOMAIN nodes \ {s}
                   /\ layer =< nodes[list[i]].top_layer
              /\ Cardinality(Elements(list)) = Len(list)
              /\ Len(list) =< max_neighbors_for_layer(layer)
    /\ IF nodes = << >> THEN entry_point = 0 /\ max_level = -1
       ELSE /\ entry_point \in DOMAIN nodes
            /\ max_level = nodes[entry_point].top_layer
            /\ \A s \in DOMAIN nodes : nodes[s].top_layer =< max_level

\* search answers with at most k live nodes, in order, none twice.  When ef is no
\* limit they are exactly the nearest of those the graph connects to the node the
\* descent lands on.  However small ef is, the exploration never stops beside
\* something better: a live layer-0 neighbour of an answer that is not answered
\* itself is no nearer than any answer, and room is left only when tombstones
\* took it or nothing else can be reached.
SearchExact ==
    \A q \in Points, k \in Ks, ef \in Efs :
        LET answer == search(q, k, ef)
            got == Elements(answer)
            reachable == Reachable(Landing(q))
            within == reachable \cap Live
        IN  /\ Len(answer) =< k /\ got \subseteq Live
            /\ \A i, j \in DOMAIN answer :
                  i < j => Before(nodes, q, answer[i], answer[j])
            /\ ef >= Len(nodes) /\ k > 0 /\ Live # {} =>
                  /\ got \subseteq within
                  /\ Len(answer) = IF k < Cardinality(within) THEN k ELSE Cardinality(within)
                  /\ \A s \in within \ got, x \in got : Before(nodes, q, x, s)
            /\ \A x \in got : \A s \in (Elements(nodes[x].neighbors[0]) \cap Live) \ got :
                  \A y \in got : distance_to(nodes, q, y) =< distance_to(nodes, q, s)
            /\ Len(answer) < k /\ Live = DOMAIN nodes /\ nodes # << >> => got = reachable

\* As long as no layer-0 list can overflow and no load has dropped a tombstone
\* on which a path depends, every live node is found, wherever the descent
\* lands, however the vectors were replaced since the edges were drawn.
NothingCutOff ==
    ~reloaded /\ Len(nodes) =< max_neighbors_for_layer(0) + 1 =>
        \A q \in Points : nodes # << >> => Reachable(Landing(q)) = DOMAIN nodes

\* The region of any index is accepted by deserialize, and the index loaded
\* from it saves the same region again, whatever the order of the insertions
\* and the tombstones it had.
RoundTrip ==
    LET region == serialize(nodes)
    IN  /\ WellFormed(region, records)
        /\ serialize(deserialize(region, records).nodes) = region

-----------------------------------------------------------------------------
(* What the graph promises                                                   *)

IdOf(s) == nodes[s].id

Graph ==
    [id \in {IdOf(s) : s \in DOMAIN nodes} |->
        LET n == nodes[CHOOSE s \in InternalId(id) : TRUE]
        IN  [top |-> n.top_layer, deleted |-> n.deleted,
             adj |-> [layer \in 0..n.top_layer |-> {IdOf(s) : s \in Elements(n.neighbors[layer])}]]]

Abstract == INSTANCE LayeredGraph WITH
    graph <- Graph, M <- max_neighbors_upper,
    entry <- IF entry_point = 0 THEN NoNode ELSE IdOf(entry_point)

\* Every step is one of the layered graph: an insertion changes the links of
\* the new node and of those it chose only, a removal changes no link, a load
\* drops the tombstones and enters at a node of the highest layer left.
ImplementsLayeredGraph == Abstract!GSpec
=============================================================================
