--------------------------- MODULE StingerDriver ---------------------------
(***************************************************************************)
(* Stinger (library/stinger/), with the dictionary of the library, and its *)
(* subclass StingerRef, with the kernels of GAP (suffix Ref); StingerDV    *)
(* (library/stinger-dv/, suffix DV), where the identifiers are dense.  The *)
(* structure is external: an insertion creates or updates an edge.         *)
(***************************************************************************)
EXTENDS DriverStore

CONSTANT MaxNV    \* the vertices a graph of STINGER has room for

get_internal_id(s, x) == IF Known(s, x) THEN s.dict[x] ELSE -1
get_max_num_mappings(s) == Len(s.data)

num_edges(s) == IF s.directed THEN DegreeSum(s) ELSE DegreeSum(s) \div 2
num_vertices(s) == s.num_vertices
has_vertex(s, x) == get_internal_id(s, x) >= 0

get_weight(s, u, v) ==
    IF get_internal_id(s, u) < 0 \/ get_internal_id(s, v) < 0 THEN {} ELSE WeightOf(s, u, v)

get_or_create_vertex_id(s, x) == Create(s, x, 0)
add_vertex(s, x) == Returns(Create(s, x, 0), ~ Known(s, x))

add_edge(s, u, v, w) ==
    IF get_internal_id(s, u) < 0 \/ get_internal_id(s, v) < 0 THEN Returns(s, FALSE)
    ELSE Returns(put_edge(s, u, v, w), TRUE)
add_edge_v2(s, u, v, w) ==
    Returns(put_edge(get_or_create_vertex_id(get_or_create_vertex_id(s, u), v), u, v, w), TRUE)
remove_edge(s, u, v) == IF HasArc(s, u, v) THEN Returns(del_edge(s, u, v), TRUE) ELSE Returns(s, FALSE)

-----------------------------------------------------------------------------
View(s) == Snapshot(s, 0)
to_external_ids(s, values) == Saved({<<s.data[n + 1], values[n]>> : n \in DOMAIN values})

(* Some kernels stop at the last vertex with an edge. *)
Registered(s) ==
    LET active == {a[1] : a \in DOMAIN s.edges} \cup {a[2] : a \in DOMAIN s.edges}
    IN  IF active = {} THEN {} ELSE 0 .. Max(active)

cdlp_propagate(g, labels, n) == LabelMax(Histogram(g, labels, n))
Propagate(g, slots, names) ==
    LET RECURSIVE Iterate(_, _)
        Iterate(labels0, k) ==
            LET labels1 == Now([n \in slots |-> cdlp_propagate(g, labels0, n)])
            IN  IF k = 0 \/ labels1 = labels0 THEN labels0 ELSE Iterate(labels1, k - 1)
    IN  Iterate(names, Iterations)
cdlp(s) == to_external_ids(s, Propagate(View(s), View(s).ids, [n \in View(s).ids |-> s.data[n + 1]]))

(* parallel_shiloach_vishkin_components_of_type is in STINGER. *)
wcc(s) == to_external_ids(s, do_wcc(View(s)))

\* Mutant: the search stops one element before the last.
binsearch_short(array, x) ==
    LET RECURSIVE Search(_, _)
        Search(first, last) ==
            LET middle == (first + last) \div 2
            IN  /\ first < last
                /\ \/ array[middle] = x
                   \/ array[middle] < x /\ Search(middle + 1, last)
                   \/ array[middle] > x /\ Search(first, middle - 1)
    IN  Search(1, Len(array))

(* A binary search in the sorted array of the neighbours. *)
binsearch(array, x) ==
    LET RECURSIVE Search(_, _)
        Search(first, last) ==
            LET middle == (first + last) \div 2
            IN  /\ first <= last
                /\ \/ array[middle] = x
                   \/ array[middle] < x /\ Search(middle + 1, last)
                   \/ array[middle] > x /\ Search(first, middle - 1)
    IN  Search(1, Len(array))

lcc_count_intersections(g, v1, v2, neighbours) ==
    Cardinality({v3 \in g.out[v2] : v3 # v1 /\ binsearch(neighbours, v3)})
lcc_count_triangles(g, v1, neighbours) ==
    MapThenSumSet(LAMBDA v2 : lcc_count_intersections(g, v1, v2, InOrder(neighbours)), neighbours \ {v1})
Coefficient(g, v) ==
    LET neighbours == g.out[v] \cup g.inn[v]
        degree == Cardinality(neighbours)
    IN  IF degree >= 2 THEN <<lcc_count_triangles(g, v, neighbours), degree * (degree - 1)>> ELSE Zero
lcc(s) == LET g == View(s) IN to_external_ids(s, [v \in g.ids |-> Coefficient(g, v)])

PullRanks(g, slots, active) ==
    LET RECURSIVE Iterate(_, _)
        Iterate(rank0, k) ==
            LET sinks == MapThenSumSet(LAMBDA v : rank0[v], {v \in slots : g.out[v] = {}})
                received(v) == MapThenSumSet(LAMBDA u : rank0[u] \div Cardinality(g.out[u]), g.inn[v])
            IN  IF k = 0 THEN rank0
                ELSE Iterate(Now([v \in slots |-> Unit \div (2 * active)
                                                  + (received(v) + sinks \div active) \div 2]), k - 1)
    IN  Iterate([v \in slots |-> Unit \div active], Iterations)
pagerank(s) == to_external_ids(s, PullRanks(View(s), Registered(s), num_vertices(s)))

(* Dijkstra, with the vertices to visit in a priority queue of <<cost,     *)
(* vertex>>; a vertex is there once for every improvement.                 *)
a_star(g, slots, source, weight) ==
    LET RECURSIVE Visit(_, _)
        Visit(cost, frontier) ==
            LET top == CHOOSE p \in frontier : \A q \in frontier : p[1] < q[1] \/ (p[1] = q[1] /\ p[2] <= q[2])
                u == top[2]
                better == {v \in g.out[u] : cost[u] + weight[<<u, v>>] < cost[v]}
                next == Now([v \in slots |-> IF v \in better THEN cost[u] + weight[<<u, v>>] ELSE cost[v]])
            IN  IF frontier = {} THEN cost
                ELSE Visit(next, (frontier \ {top}) \cup {<<next[v], v>> : v \in better})
    IN  Visit([v \in slots |-> IF v = source THEN 0 ELSE Infinity], {<<0, source>>})

compute_shortest_paths(s, source, weighted) ==
    to_external_ids(s, a_star(View(s), Registered(s), get_internal_id(s, source),
                              [a \in DOMAIN s.edges |-> IF weighted THEN s.edges[a] ELSE 1]))
bfs(s, source) == compute_shortest_paths(s, source, FALSE)
sssp(s, source) == compute_shortest_paths(s, source, TRUE)

-----------------------------------------------------------------------------
(* StingerRef *)
bfsRef(s, source) ==
    LET g == View(s)
    IN  NonNegative(to_external_ids(s,
            do_bfs(g, get_max_num_mappings(s), BfsStart(g, do_bfs_init_distances(g), get_internal_id(s, source), num_edges(s))).dist))
pagerankRef(s) ==
    LET g == [View(s) EXCEPT !.ids = Registered(s), !.live = Registered(s)]
    IN  to_external_ids(s, do_pagerank(g, num_vertices(s)))
wccRef(s) == to_external_ids(s, do_wcc(View(s)))
ssspRef(s, source) == {to_external_ids(s, d) : d \in do_sssp(View(s), get_internal_id(s, source), num_edges(s))}

-----------------------------------------------------------------------------
(* StingerDV: the vertices are 0, 1, ..., all there from the beginning. *)
InitDV(directed) ==
    [Empty(directed) EXCEPT !.dict = [n \in 0 .. MaxNV - 1 |-> n], !.data = [i \in 1 .. MaxNV |-> i - 1]]

num_verticesDV(s) == Cardinality({a[1] : a \in DOMAIN s.edges} \cup {a[2] : a \in DOMAIN s.edges})
has_vertexDV(s, n) == n < MaxNV
add_vertexDV(s, n) == Returns(s, TRUE)
remove_vertexDV(s, n) ==
    Returns([s EXCEPT !.edges = Without(@, {a \in DOMAIN s.edges : n \in {a[1], a[2]}})], TRUE)

(* The weight becomes an integer, and its bits are read as those of a      *)
(* double: for a small integer a denormal number, here zero.               *)
INT2DBL(i) == 0
get_weightDV(s, u, v) == {INT2DBL(w) : w \in WeightOf(s, u, v)}
add_edgeDV(s, u, v, w) == Returns(put_edge(s, u, v, w), TRUE)
add_edge_v2DV(s, u, v, w) == add_edgeDV(s, u, v, w)
remove_edgeDV(s, u, v) == IF HasArc(s, u, v) THEN Returns(del_edge(s, u, v), TRUE) ELSE Returns(s, FALSE)

cdlpDV(s) == Propagate(View(s), Registered(s), [n \in Registered(s) |-> n])
wccDV(s) == Restrict(do_wcc(View(s)), Registered(s))

(* The coefficients are stored as integers. *)
lccDV(s) == [n \in Registered(s) |-> <<Coefficient(View(s), n)[1] \div Coefficient(View(s), n)[2], 1>>]
pagerankDV(s) == PullRanks(View(s), Registered(s), num_verticesDV(s))
bfsDV(s, source) == a_star(View(s), Registered(s), source, [a \in DOMAIN s.edges |-> 1])
ssspDV(s, source) == a_star(View(s), Registered(s), source, [a \in DOMAIN s.edges |-> INT2DBL(s.edges[a])])
=============================================================================
