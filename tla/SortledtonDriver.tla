-------------------------- MODULE SortledtonDriver --------------------------
(***************************************************************************)
(* SortledtonDriver (library/sortledton/sortledton_driver.cpp), and with   *)
(* the suffix V2 SortledtonDriverV2 (library/sortledton_v2/): both only    *)
(* for undirected graphs.  Sortledton maps the external (logical)          *)
(* identifiers to the internal (physical) ones and keeps the counters; its *)
(* BFS, PageRank, WCC, CDLP and SSSP are in the library, external, and     *)
(* only the translation of their results is in the driver.  No vertex can  *)
(* be removed, and with V2 no edge either.                                 *)
(***************************************************************************)
EXTENDS DriverStore

(* The edges of the library are arcs. *)
num_edges(s) == DegreeSum(s) \div 2
num_vertices(s) == Len(s.data)
has_vertex(s, x) == Known(s, x)
get_weight(s, u, v) == WeightOf(s, u, v)

add_vertex(s, x) == Returns(Create(s, x, 0), ~ Known(s, x))

(* The preconditions of the transaction: the vertices, and not the edge. *)
add_edge(s, u, v, w) ==
    IF Known(s, u) /\ Known(s, v) /\ ~ HasArc(s, u, v) THEN Returns(put_edge(s, u, v, w), TRUE)
                                                       ELSE Returns(s, FALSE)

(* The vertices and the edge, whether they exist or not. *)
add_edge_v2(s, u, v, w) == Returns(put_edge(Create(Create(s, u, 0), v, 0), u, v, w), TRUE)
add_edge_v3(s, u, v, w) == Returns(put_edge(Create(Create(s, u, 0), v, 0), u, v, w), TRUE)

(* The weight is added to the one found, in another transaction. *)
update_edge_v1(s, u, v, w) ==
    Returns(put_edge(Create(Create(s, u, 0), v, 0), u, v,
                     w + IF HasArc(s, u, v) THEN s.edges[Arc(s, u, v)] ELSE 0), TRUE)

remove_edge(s, u, v) == IF HasArc(s, u, v) THEN Returns(del_edge(s, u, v), TRUE) ELSE Returns(s, FALSE)

get_weightV2(s, u, v) == WeightOf(s, u, v)
add_edgeV2(s, u, v, w) == Returns(put_edge(Create(Create(s, u, 0), v, 0), u, v, w), TRUE)
add_edge_v2V2(s, u, v, w) ==
    Returns(put_edge(Create(Create(s, u, 0), v, 0), u, v, w), ~ HasArc(s, u, v))

-----------------------------------------------------------------------------
View(s) == Snapshot(s, 0)
translate(s, values) == External(s, 0, values)

(* The negative distances, of the vertices that are not reached, become    *)
(* the largest unsigned int, and this the largest distance.                *)
translate_bfs(s, distances) == NonNegative(translate(s, distances))
bfs_library(g, root, edges) ==
    do_bfs(g, Cardinality(g.ids), BfsStart(g, do_bfs_init_distances(g), root, edges))
bfs(s, source) == translate_bfs(s, bfs_library(View(s), s.dict[source], num_edges(s)).dist)
pagerank(s) == translate(s, do_pagerank(View(s), num_vertices(s)))
(* The kernel is the one of the library, whose array is not known. *)
sssp(s, source) == {translate(s, d) : d \in do_sssp(View(s), s.dict[source], MaxValue)}

(* Only V2 runs these two: wcc and cdlp scan the edges instead. *)
wccV2(s) == translate(s, do_wcc(View(s)))
cdlpV2(s) == translate(s, do_cdlp(View(s), [n \in SlotsFrom(s, 0) |-> s.data[n + 1]]))
do_topology_scan(s) == DegreeSum(s)
do_weight_scan(s) == WeightSum(s)

(* The kernel in the driver, with the arrays of the physical identifiers. *)
compute_scores(s) == SortMergeLcc(View(s))
lcc(s) == translate(s, compute_scores(s))

one_hop_neighbors(s, n) == Neighbours(s, SlotsFrom(s, 0), n)
two_hop_neighbors(s, n) ==
    one_hop_neighbors(s, n) \cup (UNION {one_hop_neighbors(s, m) : m \in one_hop_neighbors(s, n)} \ {n})
=============================================================================
