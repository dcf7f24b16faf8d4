---------------------------- MODULE TeseoDriver ----------------------------
(***************************************************************************)
(* TeseoDriver (library/teseo/teseo_driver.cpp).  Teseo stores the graph   *)
(* under the external identifiers (V, W) and numbers the vertices of a     *)
(* transaction from 0, in the order of the external identifiers: these     *)
(* logical identifiers index the arrays of the kernels.  The functions     *)
(* that create the endpoints each remember, forever, those they created    *)
(* (seen, by function).                                                    *)
(*                                                                         *)
(* TeseoRealVertices (teseo_real_vtx.cpp, with the suffix RV) runs the     *)
(* kernels on the external identifiers, which have to be 0, 1, ...         *)
(***************************************************************************)
EXTENDS DriverStore

Creating == {"add_edge_v2", "add_edge_v3", "update_edge_v1"}
Init0 == [V |-> {}, W |-> <<>>, seen |-> [f \in Creating |-> {}]]

num_edges(s) == Cardinality(DOMAIN s.W) \div 2
num_vertices(s) == Cardinality(s.V)
has_vertex(s, x) == x \in s.V
get_weight(s, u, v) == IF <<u, v>> \in DOMAIN s.W THEN {s.W[<<u, v>>]} ELSE {}

Insert(s, u, v, w) == [s EXCEPT !.W = [a \in {<<u, v>>, <<v, u>>} |-> w] @@ @]
CanInsert(s, u, v) == u \in s.V /\ v \in s.V /\ <<u, v>> \notin DOMAIN s.W

add_vertex(s, x) == Returns([s EXCEPT !.V = @ \cup {x}], x \notin s.V)

(* The edges of the vertex are removed with it. *)
remove_vertex(s, x) ==
    IF x \notin s.V THEN Returns(s, FALSE)
    ELSE Returns([s EXCEPT !.V = @ \ {x}, !.W = Without(@, {a \in DOMAIN s.W : x \in {a[1], a[2]}})],
                 TRUE)

add_edge(s, u, v, w) ==
    IF CanInsert(s, u, v) THEN Returns(Insert(s, u, v, w), TRUE) ELSE Returns(s, FALSE)

(* Only the endpoints that the function has not seen are created. *)
Endpoints(s, f, u, v) ==
    [s EXCEPT !.V = @ \cup ({u, v} \ s.seen[f]), !.seen[f] = @ \cup {u, v}]

(* The insertion is repeated until it succeeds: with no other thread, it   *)
(* never returns if the edge exists or if an endpoint has been removed     *)
(* after the function created it.                                          *)
Returning(s, f, u, v) == CanInsert(Endpoints(s, f, u, v), u, v)
add_edge_v2(s, u, v, w) == Returns(Insert(Endpoints(s, "add_edge_v2", u, v), u, v, w), TRUE)
add_edge_v3(s, u, v, w) == Returns(Insert(Endpoints(s, "add_edge_v3", u, v), u, v, w), TRUE)

(* The edge is removed, if it exists, and inserted with the sum of the     *)
(* weights, in three transactions.                                         *)
update_edge_v1(s, u, v, w) ==
    LET t == Endpoints(s, "update_edge_v1", u, v)
    IN  Returns(Insert(t, u, v, w + IF <<u, v>> \in DOMAIN s.W THEN s.W[<<u, v>>] ELSE 0), TRUE)

remove_edge(s, u, v) ==
    IF <<u, v>> \notin DOMAIN s.W THEN Returns(s, FALSE)
    ELSE Returns([s EXCEPT !.W = Without(@, {<<u, v>>, <<v, u>>})], TRUE)

-----------------------------------------------------------------------------
logical_id(s, x) == Cardinality({y \in s.V : y < x})
vertex_id(s, n) == CHOOSE x \in s.V : logical_id(s, x) = n

Logical(s) == 0 .. num_vertices(s) - 1
ViewOf(s, id) ==
    LET out == Now([n \in Logical(s) |-> {m \in Logical(s) : <<id[n], id[m]>> \in DOMAIN s.W}])
        arcs == {a \in Logical(s) \X Logical(s) : a[2] \in out[a[1]]}
    IN  Now([directed |-> FALSE, ids |-> Logical(s), live |-> Logical(s), out |-> out, inn |-> out,
             w |-> [a \in arcs |-> s.W[<<id[a[1]], id[a[2]]>>]]])
View(s) == ViewOf(s, [n \in Logical(s) |-> vertex_id(s, n)])
translate(s, values) == Saved({<<vertex_id(s, n), values[n]>> : n \in Logical(s)})

teseo_bfs(s, g, source) ==
    do_bfs(g, num_vertices(s), BfsStart(g, do_bfs_init_distances(g), source, num_edges(s)))
bfs(s, source) == NonNegative(translate(s, teseo_bfs(s, View(s), logical_id(s, source)).dist))
pagerank(s) == translate(s, do_pagerank(View(s), num_vertices(s)))
wcc(s) == translate(s, do_wcc(View(s)))
cdlp(s) == translate(s, do_cdlp(View(s), [n \in Logical(s) |-> vertex_id(s, n)]))
lcc(s) == LET g == View(s) IN translate(s, [v \in g.ids |-> Lcc(g, v)])
sssp(s, source) == {translate(s, d) : d \in do_sssp(View(s), logical_id(s, source), num_edges(s))}

(* TeseoDriverLCC replaces the kernel by the sort-merge one. *)
lccSortMerge(s) == translate(s, SortMergeLcc(View(s)))

-----------------------------------------------------------------------------
(* TeseoRealVertices: the assertions of materialize. *)
Materialisable(s) == \A n \in Logical(s) : vertex_id(s, n) = n
ViewRV(s) == ViewOf(s, [n \in Logical(s) |-> n])
materialize(s, values) == Saved({<<n, values[n]>> : n \in Logical(s)})

bfsRV(s, source) == NonNegative(materialize(s, teseo_bfs(s, ViewRV(s), source).dist))
pagerankRV(s) == materialize(s, do_pagerank(ViewRV(s), num_vertices(s)))
wccRV(s) == materialize(s, do_wcc(ViewRV(s)))
cdlpRV(s) == materialize(s, do_cdlp(ViewRV(s), [n \in Logical(s) |-> n]))
lccRV(s) == LET g == ViewRV(s) IN materialize(s, [v \in g.ids |-> Lcc(g, v)])
lccSortMergeRV(s) == materialize(s, SortMergeLcc(ViewRV(s)))
ssspRV(s, source) == {materialize(s, d) : d \in do_sssp(ViewRV(s), source, num_edges(s))}
=============================================================================
