----------------------------- MODULE LayeredGraph -----------------------------
(***************************************************************************)
(* What an HNSW index promises of its graph, whatever its heuristics choose:*)
(* nodes named by record identifiers, each present on the layers from 0 to  *)
(* its top; a new node links to some nodes of each of its layers, and only  *)
(* those may change their own links there, to it or to fewer; removed nodes *)
(* stay as tombstones until a save and a load drops them; and searches      *)
(* enter at a node of the highest layer.                                    *)
(***************************************************************************)
EXTENDS Integers, FiniteSets

CONSTANTS Ids,
          MaxLevel,
          M,        \* links per node above layer 0
          NoNode

VARIABLES graph,  \* id -> [top, deleted, adj: layer -> set of ids]
          entry

gvars == <<graph, entry>>

Cap(layer) == IF layer = 0 THEN 2 * M ELSE M

Node == UNION {[top: {top}, deleted: BOOLEAN, adj: [0..top -> SUBSET Ids]] :
                  top \in 0..MaxLevel}

OnLayer(layer) == {n \in DOMAIN graph : layer =< graph[n].top}
Living == {n \in DOMAIN graph : ~graph[n].deleted}

GInit == graph = [n \in {} |-> {}] /\ entry = NoNode

\* A new node, its links, and the links of the nodes it chose.
Link(id, top) ==
    /\ id \notin DOMAIN graph
    /\ graph' \in [DOMAIN graph \cup {id} -> Node]
    /\ graph'[id].top = top /\ ~graph'[id].deleted
    /\ \A layer \in 0..top :
          /\ graph'[id].adj[layer] \subseteq OnLayer(layer)
          /\ Cardinality(graph'[id].adj[layer]) =< Cap(layer)
    /\ \A n \in DOMAIN graph :
          /\ graph'[n].top = graph[n].top /\ graph'[n].deleted = graph[n].deleted
          /\ \A layer \in 0..graph[n].top :
                \/ graph'[n].adj[layer] = graph[n].adj[layer]
                \/ /\ layer =< top /\ n \in graph'[id].adj[layer]
                   /\ graph'[n].adj[layer] \subseteq graph[n].adj[layer] \cup {id}
                   /\ Cardinality(graph'[n].adj[layer]) =< Cap(layer)
    /\ entry' = IF entry = NoNode THEN id
                ELSE IF top > graph[entry].top THEN id ELSE entry

\* Adding a known identifier again, and removing one.
Mark(id, deleted) ==
    /\ id \in DOMAIN graph
    /\ graph' = [graph EXCEPT ![id].deleted = deleted]
    /\ UNCHANGED entry

\* A save and a load: tombstones and the links to them are gone.
Compact ==
    /\ graph' = [n \in Living |->
                   [graph[n] EXCEPT !.adj = [layer \in 0..graph[n].top |->
                                               graph[n].adj[layer] \cap Living]]]
    /\ entry' \in IF Living = {} THEN {NoNode}
                  ELSE {n \in Living : \A x \in Living : graph[x].top =< graph[n].top}

GNext ==
    \/ \E id \in Ids : \/ \E top \in 0..MaxLevel : Link(id, top)
                       \/ \E deleted \in BOOLEAN : Mark(id, deleted)
    \/ Compact

GSpec == GInit /\ [][GNext]_gvars
=============================================================================
