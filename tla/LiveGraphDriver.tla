-------------------------- MODULE LiveGraphDriver --------------------------
(***************************************************************************)
(* LiveGraphDriver (library/livegraph/livegraph_driver.cpp).  The internal *)
(* identifiers start from 0 and are not reused.  The incoming arcs of a    *)
(* directed graph are kept under another label (incoming), by add_edge_v2  *)
(* only; del_vertex empties the payload with the external identifier, and  *)
(* leaves the edges of the neighbours.                                     *)
(***************************************************************************)
EXTENDS DriverStore

Init0(directed) == [incoming |-> <<>>] @@ Empty(directed)

has_vertex(s, x) == Known(s, x)
ext2int(s, x) == s.dict[x]

add_vertex(s, x) == Returns(Create(s, x, 0), ~ Known(s, x))

(* The counter is decremented whether the vertex exists or not. *)
remove_vertex(s, x) ==
    IF Known(s, x)
    THEN Returns([s EXCEPT !.data[s.dict[x] + 1] = Deleted, !.dict = Without(@, {x}),
                           !.num_vertices = @ - 1], TRUE)
    ELSE Returns([s EXCEPT !.num_vertices = @ - 1], FALSE)

add_edge(s, u, v, w) ==
    IF ~ Known(s, u) \/ ~ Known(s, v) \/ HasArc(s, u, v) THEN Returns(s, FALSE)
    ELSE Returns([put_edge(s, u, v, w) EXCEPT !.num_edges = @ + 1], TRUE)

(* The endpoints are created, the edge is written whether it existed or    *)
(* not, and counted.                                                       *)
add_edge_v2(s, u, v, w) ==
    LET created == Create(Create(s, u, 0), v, 0)
        written == put_edge(created, u, v, w)
    IN  Returns([written EXCEPT
                    !.incoming = IF s.directed THEN (Arc(created, v, u) :> w) @@ @ ELSE @,
                    !.num_edges = @ + 1], TRUE)

remove_edge(s, u, v) ==
    IF ~ HasArc(s, u, v) THEN Returns(s, FALSE)
    ELSE Returns([del_edge(s, u, v) EXCEPT !.num_edges = @ - 1], TRUE)

get_weight(s, u, v) == WeightOf(s, u, v)

-----------------------------------------------------------------------------
(* The kernels read the outgoing edges where they mean the incoming ones:  *)
(* they refuse directed graphs.                                            *)
View(s) == Snapshot(s, 0)

(* The slots without a vertex get a marker that is not written. *)
translate(s, values) == External(s, 0, values)

Bfs(s, root) ==
    LET g == View(s)
    IN  do_bfs(g, s.num_vertices, BfsStart(g, do_bfs_init_distances(g), root, s.num_edges))
bfs(s, source) == NonNegative(translate(s, Bfs(s, ext2int(s, source)).dist))

pagerank(s) == translate(s, do_pagerank(View(s), s.num_vertices))

(* wcc and cdlp count the edges instead: these kernels are not called. *)
wcc_kernel(s) == translate(s, do_wcc(View(s)))
cdlp_kernel(s) == translate(s, do_cdlp(View(s), [n \in SlotsFrom(s, 0) |-> s.data[n + 1]]))

do_lcc_undirected(s) == LET g == View(s) IN [v \in g.live |-> Lcc(g, v)]
lcc(s) == translate(s, do_lcc_undirected(s))

do_topology_scan(s) == DegreeSum(s)
do_weight_scan(s) == WeightSum(s)
total_edge_count(s) == DegreeSum(s) \div 2

sssp(s, source) == {translate(s, d) : d \in do_sssp(View(s), ext2int(s, source), total_edge_count(s))}

(* The neighbours of a vertex, and their neighbours in turn. *)
one_hop_neighbors(s, n) == Neighbours(s, SlotsFrom(s, 0), n)
\* Mutant: the vertex itself is counted as a neighbour of its neighbours.
two_hop_neighbors_self(s, n) ==
    one_hop_neighbors(s, n) \cup UNION {one_hop_neighbors(s, m) : m \in one_hop_neighbors(s, n)}

two_hop_neighbors(s, n) ==
    one_hop_neighbors(s, n) \cup (UNION {one_hop_neighbors(s, m) : m \in one_hop_neighbors(s, n)} \ {n})
=============================================================================
