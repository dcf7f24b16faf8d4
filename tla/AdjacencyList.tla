--------------------------- MODULE AdjacencyList ---------------------------
(***************************************************************************)
(* The baseline of library/baseline/adjacency_list.cpp: for each vertex    *)
(* the lists of its outgoing and of its incoming edges (out and in, from   *)
(* the neighbour to the weight), the latter empty in an undirected graph.  *)
(***************************************************************************)
EXTENDS DriverStore

Init0(directed) == [directed |-> directed, list |-> <<>>, num_edges |-> 0]
NoEdges == [out |-> <<>>, in |-> <<>>]

num_vertices(s) == Cardinality(DOMAIN s.list)
num_edges(s) == s.num_edges
has_vertex(s, x) == x \in DOMAIN s.list
get_weight(s, u, v) ==
    IF has_vertex(s, u) /\ v \in DOMAIN s.list[u].out THEN {s.list[u].out[v]} ELSE {}

(* The list of the vertex that mirrors the outgoing edges of another. *)
Back(s) == IF s.directed THEN "in" ELSE "out"
\* Mutant: the outgoing edges of a directed graph too.
get_incoming_edges_out(s, x) == s.list[x].out

get_incoming_edges(s, x) == s.list[x][Back(s)]

add_vertex0(s, x) == IF has_vertex(s, x) THEN s ELSE [s EXCEPT !.list = (x :> NoEdges) @@ @]
add_vertex(s, x) == Returns(add_vertex0(s, x), ~ has_vertex(s, x))

(* The edges of the vertex are erased from copies of the lists of its      *)
(* neighbours: the lists keep them.                                        *)
delete_vertex0(s, x) == [s EXCEPT !.list = Without(@, {x})]
remove_vertex(s, x) == Returns(delete_vertex0(s, x), has_vertex(s, x))

(* A new edge is counted, an old one gets the new weight. *)
add_edge0(s, u, v, w) ==
    LET out == [s EXCEPT !.list[u].out = (v :> w) @@ @,
                         !.num_edges = IF v \in DOMAIN s.list[u].out THEN @ ELSE @ + 1]
    IN  Returns([out EXCEPT !.list[v][Back(s)] = (u :> w) @@ @], TRUE)
add_edge(s, u, v, w) ==
    IF has_vertex(s, u) /\ has_vertex(s, v) THEN add_edge0(s, u, v, w) ELSE Returns(s, FALSE)
add_edge_v2(s, u, v, w) == add_edge0(add_vertex0(add_vertex0(s, u), v), u, v, w)

\* Mutant: the edge is erased from the list of the source only.
remove_edge_once(s, u, v) ==
    IF get_weight(s, u, v) = {} \/ ~ has_vertex(s, v) THEN Returns(s, FALSE)
    ELSE Returns([s EXCEPT !.list[u].out = Without(@, {v}), !.num_edges = @ - 1], TRUE)

remove_edge(s, u, v) ==
    IF get_weight(s, u, v) = {} \/ ~ has_vertex(s, v) THEN Returns(s, FALSE)
    ELSE LET out == [s EXCEPT !.list[u].out = Without(@, {v}), !.num_edges = @ - 1]
         IN  Returns([out EXCEPT !.list[v][Back(s)] = Without(@, {u})], TRUE)

(* The function holds the mutex that add_edge_v2 acquires again in the     *)
(* thread-safe instance, which does not return from the first edge: this   *)
(* is the other instance.                                                  *)
load(s, stream) ==
    FoldSet(LAMBDA e, t : add_edge_v2(t, e.source, e.destination, e.weight).store, s, stream)

-----------------------------------------------------------------------------
Neighbourhood(s, x) == DOMAIN s.list[x].out \cup DOMAIN s.list[x].in
get_degree(s, x) == Cardinality(Neighbourhood(s, x))
check_directed_edge_exists(s, u, v) == v \in DOMAIN s.list[u].out

(* The queue has the vertices to visit, each once. *)
bfs(s, source) ==
    LET RECURSIVE Visit(_, _)
        Visit(distances, queue) ==
            LET u == Head(queue)
                new == DOMAIN s.list[u].out \ DOMAIN distances
            IN  IF queue = <<>> THEN distances
                ELSE Visit([v \in new |-> distances[u] + 1] @@ distances, Tail(queue) \o InOrder(new))
        reached == Visit(source :> 0, <<source>>)
    IN  [x \in DOMAIN s.list |-> IF x \in DOMAIN reached THEN reached[x] ELSE MaxValue]

pagerank(s) ==
    LET V == num_vertices(s)
        sinks == {x \in DOMAIN s.list : s.list[x].out = <<>>}
        RECURSIVE Iterate(_, _)
        Iterate(rank, k) ==
            LET dangling == MapThenSumSet(LAMBDA x : rank[x], sinks)
                received(x) == MapThenSumSet(LAMBDA u : rank[u] \div Cardinality(DOMAIN s.list[u].out),
                                             DOMAIN get_incoming_edges(s, x))
            IN  IF k = 0 THEN rank
                ELSE Iterate(Now([x \in DOMAIN s.list |-> Unit \div (2 * V) + received(x) \div 2
                                                          + dangling \div (2 * V)]), k - 1)
    IN  Iterate([x \in DOMAIN s.list |-> Unit \div V], Iterations)

(* In a pass, a vertex sees the components already lowered in it. *)
wcc(s) ==
    LET lower(c, x) ==
            LET least == Min({Int64Max} \cup {c[y] : y \in Neighbourhood(s, x)})
            IN  IF c[x] > least THEN [c EXCEPT ![x] = least] ELSE c
        RECURSIVE Pass(_)
        Pass(c) == LET d == Now(FoldLeft(lower, c, InOrder(DOMAIN s.list)))
                   IN  IF d = c THEN c ELSE Pass(d)
    IN  Pass(Now([x \in DOMAIN s.list |-> x]))

(* A vertex without neighbours gets label 0. *)
cdlp(s) ==
    LET frequency(labels, x, l) == Cardinality({y \in DOMAIN s.list[x].out : labels[y] = l})
                                   + Cardinality({y \in DOMAIN s.list[x].in : labels[y] = l})
        best(labels, x) ==
            LET seen == {labels[y] : y \in Neighbourhood(s, x)}
                top == {l \in seen : \A m \in seen : frequency(labels, x, m) <= frequency(labels, x, l)}
            IN  IF top = {} THEN 0 ELSE Min(top)
        RECURSIVE Iterate(_, _)
        Iterate(labels, k) ==
            LET next == Now([x \in DOMAIN s.list |-> best(labels, x)])
            IN  IF k = 0 \/ next = labels THEN labels ELSE Iterate(next, k - 1)
    IN  Iterate([x \in DOMAIN s.list |-> x], Iterations)

(* The vertices are visited in order.  Those of the common neighbours of   *)
(* an edge are counted from its lower endpoint, for the higher one too     *)
(* (already_visited).                                                      *)
lcc_undirected(s) ==
    LET N(x) == DOMAIN s.list[x].out
        common(x, y) == Cardinality(N(x) \cap N(y))
        visit(acc, x) ==
            LET higher == {y \in N(x) : y > x}
                triangles == acc.already[x] + MapThenSumSet(LAMBDA y : common(x, y), higher)
                degree == get_degree(s, x)
            IN  IF degree < 2 THEN [acc EXCEPT !.result[x] = Zero]
                ELSE [already |-> [y \in DOMAIN acc.already |->
                                     acc.already[y] + IF y \in higher THEN common(x, y) ELSE 0],
                      result |-> [acc.result EXCEPT ![x] = <<triangles, degree * (degree - 1)>>]]
    IN  FoldLeft(visit, Now([already |-> [x \in DOMAIN s.list |-> 0], result |-> [x \in DOMAIN s.list |-> Zero]]),
                 InOrder(DOMAIN s.list)).result

lcc_directed(s) ==
    [x \in DOMAIN s.list |->
        LET N == Neighbourhood(s, x)
            degree == get_degree(s, x)
            triangles == {p \in N \X N : p[1] # p[2] /\ check_directed_edge_exists(s, p[1], p[2])}
        IN  IF degree < 2 THEN Zero ELSE <<Cardinality(triangles), degree * (degree - 1)>>]
lcc(s) == IF s.directed THEN lcc_directed(s) ELSE lcc_undirected(s)

(* Dijkstra: a vertex is visited the first time it leaves the queue. *)
sssp(s, source) ==
    LET RECURSIVE Visit(_, _, _)
        Visit(distances, visited, Q) ==
            LET top == CHOOSE p \in Q : \A q \in Q : p[1] < q[1] \/ (p[1] = q[1] /\ p[2] <= q[2])
                u == top[2]
                edges == s.list[u].out
                better == {v \in DOMAIN edges : top[1] + edges[v] < distances[v]}
            IN  IF Q = {} THEN distances
                ELSE IF u \in visited THEN Visit(distances, visited, Q \ {top})
                ELSE Visit(Now([x \in DOMAIN distances |->
                                   IF x \in better THEN top[1] + edges[x] ELSE distances[x]]),
                           visited \cup {u}, (Q \ {top}) \cup {<<top[1] + edges[v], v>> : v \in better})
    IN  Visit([x \in DOMAIN s.list |-> IF x = source THEN 0 ELSE Infinity], {}, {<<0, source>>})
=============================================================================
