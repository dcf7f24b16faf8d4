----------------------------- MODULE GTXKernels -----------------------------
(***************************************************************************)
(* The kernels of GTXDriver (library/gtx/gtx_driver.cpp), on the store     *)
(* that its updates leave (module GTXDriver has those, with their threads, *)
(* locks and transactions; here each one is a step).  The internal         *)
(* identifiers start from 1, the arrays of the kernels from 0.             *)
(*                                                                         *)
(* pagerank() and sssp() delegate to GTX, which is external; do_pagerank   *)
(* and do_sssp, which they replace, are the code checked here.             *)
(***************************************************************************)
EXTENDS DriverStore

has_vertex(s, x) == Known(s, x)
add_vertex(s, x) == Returns(Create(s, x, 1), ~ Known(s, x))

(* The function is not implemented: it only updates the counter. *)
remove_vertex(s, x) == Returns([s EXCEPT !.num_vertices = @ - 1], TRUE)

add_edge(s, u, v, w) ==
    IF ~ Known(s, u) \/ ~ Known(s, v) \/ HasArc(s, u, v) THEN Returns(s, FALSE)
    ELSE Returns([put_edge(s, u, v, w) EXCEPT !.num_edges = @ + 1], TRUE)

(* checked_put_edge writes the edge, and says whether it is new. *)
add_edge_v2(s, u, v, w) ==
    LET created == Create(Create(s, u, 1), v, 1)
        new == ~ HasArc(s, u, v)
    IN  Returns([put_edge(created, u, v, w) EXCEPT !.num_edges = IF new THEN @ + 1 ELSE @], new)

remove_edge(s, u, v) ==
    IF ~ HasArc(s, u, v) THEN Returns(s, FALSE)
    ELSE Returns([del_edge(s, u, v) EXCEPT !.num_edges = @ - 1], TRUE)

get_weight(s, u, v) == WeightOf(s, u, v)

-----------------------------------------------------------------------------
(* The snapshot a kernel runs on: no vertex is ever removed. *)
View(s) == Snapshot(s, 1)

(* The value at position n - 1 of the array is the one of vertex n. *)
translate(s, array) ==
    Saved({<<s.data[n], array[n - 1]>> : n \in SlotsFrom(s, 1)})
Array(s, f) == [i \in SlotsFrom(s, 0) |-> f[i + 1]]

do_topology_scan(s) == DegreeSum(s)
do_weighted_scan(s) == WeightSum(s)

(* The number of edges comes from the sum of the degrees. *)
Bfs(s, root) ==
    LET g == View(s)
    IN  do_bfs(g, s.num_vertices, BfsStart(g, do_bfs_init_distances(g), root, DegreeSum(s) \div 2))
bfs(s, source) == NonNegative(translate(s, Array(s, Bfs(s, s.dict[source]).dist)))

pagerank(s) == translate(s, Array(s, do_pagerank(View(s), s.num_vertices)))
sssp(s, source) == {translate(s, Array(s, d)) : d \in do_sssp(View(s), s.dict[source], s.num_edges)}

(* do_lcc_undirected stores the score of vertex v at position v, one after *)
(* the position where it is looked for: the first is never initialised,    *)
(* and the score of the last vertex falls outside of the array.            *)
do_lcc_undirected(s, uninitialised) ==
    [i \in SlotsFrom(s, 0) |-> IF i = 0 THEN uninitialised ELSE Lcc(View(s), i)]
lcc(s, uninitialised) == translate(s, do_lcc_undirected(s, uninitialised))
=============================================================================
