-------------------------------- MODULE CSR --------------------------------
(***************************************************************************)
(* The static graph of library/baseline/csr.cpp.  It is loaded once: the   *)
(* vertices are numbered in the order of their identifiers, the arcs are   *)
(* sorted in one array, and for each vertex another one has the position   *)
(* where its arcs end.  Positions start from 1 here.                       *)
(***************************************************************************)
EXTENDS DriverStore

(* One side of the graph, the outgoing or the incoming arcs: its arcs as   *)
(* [from, to, w], grouped by the first, and the end of each group.         *)
Precedes(a, b) == a.from < b.from \/ (a.from = b.from /\ a.to < b.to)
Sorted(arcs) ==
    [i \in 1 .. Cardinality(arcs) |->
        CHOOSE a \in arcs : Cardinality({b \in arcs : Precedes(b, a)}) = i - 1]
Side(slots, arcs) ==
    LET sorted == Now(Sorted(arcs))
    IN  [v |-> [n \in slots |-> Cardinality({a \in arcs : a.from <= n})],
         e |-> [i \in DOMAIN sorted |-> sorted[i].to],
         w |-> [i \in DOMAIN sorted |-> sorted[i].w]]

(* The stream of edges: records with the source, destination and weight. *)
load_directed(stream) ==
    LET log2ext == InOrder({e.source : e \in stream} \cup {e.destination : e \in stream})
        slots == 0 .. Len(log2ext) - 1
        ext2log == [x \in Range(log2ext) |-> (CHOOSE i \in DOMAIN log2ext : log2ext[i] = x) - 1]
        arcs == {[from |-> ext2log[e.source], to |-> ext2log[e.destination], w |-> e.weight] : e \in stream}
    IN  [directed |-> TRUE, num_vertices |-> Len(log2ext), num_edges |-> Cardinality(stream),
         ext2log |-> ext2log, log2ext |-> log2ext, out |-> Side(slots, arcs),
         in |-> Side(slots, {[from |-> a.to, to |-> a.from, w |-> a.w] : a \in arcs})]

get_interval(side, n) == (IF n = 0 THEN 1 ELSE side.v[n - 1] + 1) .. side.v[n]
get_degree(side, n) == Cardinality(get_interval(side, n))

(* The arcs of a side, back from its arrays. *)
Unpacked(s, side) ==
    UNION {{[from |-> n, to |-> side.e[i], w |-> side.w[i]] : i \in get_interval(side, n)}
           : n \in 0 .. s.num_vertices - 1}

(* The arrays of an undirected graph merge, vertex by vertex, the outgoing *)
(* and the incoming arcs of the directed one.                              *)
load_undirected(stream) ==
    LET s == load_directed(stream)
        merged == Side(0 .. s.num_vertices - 1, Unpacked(s, s.out) \cup Unpacked(s, s.in))
    IN  [s EXCEPT !.directed = FALSE, !.out = merged, !.in = merged]

load(stream, directed) == IF directed THEN load_directed(stream) ELSE load_undirected(stream)

has_vertex(s, x) == x \in DOMAIN s.ext2log

(* The scan of the arcs of the source stops after the destination. *)
get_weight(s, u, v) ==
    IF ~ has_vertex(s, u) \/ ~ has_vertex(s, v) THEN {}
    ELSE {s.out.w[i] : i \in {j \in get_interval(s.out, s.ext2log[u]) : s.out.e[j] = s.ext2log[v]}}

-----------------------------------------------------------------------------
Slots(s) == 0 .. s.num_vertices - 1
Targets(s, side) == [n \in Slots(s) |-> {side.e[i] : i \in get_interval(side, n)}]
View(s) ==
    LET arcs == Now(Unpacked(s, s.out))
    IN  Now([directed |-> s.directed, ids |-> Slots(s), live |-> Slots(s),
             out |-> Targets(s, s.out), inn |-> Targets(s, s.in),
             w |-> [a \in {<<r.from, r.to>> : r \in arcs} |->
                      (CHOOSE r \in arcs : r.from = a[1] /\ r.to = a[2]).w]])

translate(s, values) == Saved({<<s.log2ext[n + 1], values[n]>> : n \in Slots(s)})

(* The steps of the search are those of GapKernels. *)
Bfs(s, root) ==
    LET g == View(s)
    IN  do_bfs(g, s.num_vertices, BfsStart(g, do_bfs_init_distances(g), root, s.num_edges))
bfs(s, source) == NonNegative(translate(s, Bfs(s, s.ext2log[source]).dist))

pagerank(s) == translate(s, do_pagerank(View(s), s.num_vertices))
wcc(s) == translate(s, do_wcc(View(s)))
cdlp(s) == translate(s, do_cdlp(View(s), [n \in Slots(s) |-> s.log2ext[n + 1]]))

do_lcc_directed(s) == LET g == View(s) IN [n \in Slots(s) |-> Lcc(g, n)]
do_lcc_undirected(s) == LET g == View(s) IN [n \in Slots(s) |-> Lcc(g, n)]
lcc(s) == translate(s, IF s.directed THEN do_lcc_directed(s) ELSE do_lcc_undirected(s))

sssp(s, source) == {translate(s, d) : d \in do_sssp(View(s), s.ext2log[source], s.num_edges)}

(* CSR_LCC, for undirected graphs: the triangles are counted by its        *)
(* workers.                                                                *)
compute_scores(s) == SortMergeLcc(View(s))
lccSortMerge(s) == translate(s, compute_scores(s))
=============================================================================
