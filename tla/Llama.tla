------------------------------- MODULE Llama -------------------------------
(***************************************************************************)
(* LLAMAClass (library/llama/llama_class.cpp), with a dictionary of the    *)
(* vertices, LLAMARef (llama_ref.cpp), which runs the kernels of GAP on    *)
(* it, and LLAMA_DV (library/llama-dv/llama-dv.cpp, with the suffix DV),   *)
(* where the identifiers are dense.  The writable graph (edges) has the    *)
(* updates; build() adds a level to the read-only one (built), on which    *)
(* the kernels run.  LLAMA, external, takes a node with no edge of the     *)
(* read-only graph for a gap.                                              *)
(***************************************************************************)
EXTENDS LlamaKernels

Init0(directed, blind) ==
    [blind |-> blind, deleted |-> {}, diff |-> 0, levels |-> 0,
     built |-> [nodes |-> 0, edges |-> <<>>]] @@ Empty(directed)

(* The arc that is stored for an edge. *)
Stored(s, a) == IF ~ s.directed /\ a[1] > a[2] THEN <<a[2], a[1]>> ELSE a
find(s, a) == IF a \in DOMAIN s.edges THEN {s.edges[a]} ELSE {}

add_edge_if_not_exists(s, a, w) ==
    IF a \in DOMAIN s.edges THEN Returns(s, FALSE)
    ELSE Returns([s EXCEPT !.edges = (a :> w) @@ @, !.diff = @ + 1], TRUE)
delete_edge_if_exists(s, a) ==
    IF a \notin DOMAIN s.edges THEN Returns(s, FALSE)
    ELSE Returns([s EXCEPT !.edges = Without(@, {a}), !.diff = @ - 1], TRUE)
delete_node(s, n) ==
    LET arcs == {a \in DOMAIN s.edges : n \in {a[1], a[2]}}
    IN  [s EXCEPT !.edges = Without(@, arcs), !.deleted = @ \cup {n}, !.diff = @ - Cardinality(arcs)]

-----------------------------------------------------------------------------
(* LLAMAClass: the dictionary of the default configuration, a concurrent   *)
(* hash map whose entries are locked.                                      *)
num_edges(s) == s.num_edges
num_vertices(s) == Cardinality(DOMAIN s.dict)
has_vertex(s, x) == Known(s, x)
get_internal_vertex_id(s, x) == s.dict[x]
get_weight(s, u, v) == IF Known(s, u) /\ Known(s, v) THEN find(s, Stored(s, Arc(s, u, v))) ELSE {}

get_or_create_vertex_id(s, x) == Create(s, x, 0)
add_vertex(s, x) == Returns(Create(s, x, 0), ~ Known(s, x))
remove_vertex(s, x) ==
    IF ~ Known(s, x) THEN Returns(s, FALSE)
    ELSE Returns([delete_node(s, s.dict[x]) EXCEPT !.dict = Without(@, {x})], TRUE)

add_edge0(s, a, w) == add_edge_if_not_exists(s, Stored(s, a), w)
add_edge(s, u, v, w) ==
    IF Known(s, u) /\ Known(s, v) THEN add_edge0(s, Arc(s, u, v), w) ELSE Returns(s, FALSE)
add_edge_v2(s, u, v, w) ==
    LET t == get_or_create_vertex_id(get_or_create_vertex_id(s, u), v)
    IN  add_edge0(t, Arc(t, u, v), w)
remove_edge(s, u, v) ==
    IF Known(s, u) /\ Known(s, v) THEN delete_edge_if_exists(s, Stored(s, Arc(s, u, v)))
                                  ELSE Returns(s, FALSE)

\* Mutant: the difference is counted again at the next level.
build_again(s) ==
    [s EXCEPT !.num_edges = @ + s.diff, !.levels = @ + 1,
              !.built = [nodes |-> Len(s.data), edges |-> s.edges]]

(* The counter of the edges is brought up to date, and a level created. *)
build(s) ==
    [s EXCEPT !.num_edges = @ + s.diff, !.diff = 0, !.levels = @ + 1,
              !.built = [nodes |-> Len(s.data), edges |-> s.edges]]

-----------------------------------------------------------------------------
(* The last level. *)
get_snapshot(s) ==
    LET slots == 0 .. s.built.nodes - 1
        arcs == DOMAIN s.built.edges
        fw == Now([n \in slots |-> {m \in slots : <<n, m>> \in arcs}])
        bw == Now([n \in slots |-> {m \in slots : <<m, n>> \in arcs}])
        both == Now([n \in slots |-> fw[n] \cup bw[n]])
        w == [a \in {<<b[2], b[1]>> : b \in arcs} |-> s.built.edges[<<a[2], a[1]>>]]
    IN  [directed |-> s.directed, ids |-> slots, fw |-> fw, bw |-> bw,
         live |-> {n \in slots : both[n] # {}},
         out |-> IF s.directed THEN fw ELSE both, inn |-> IF s.directed THEN bw ELSE both,
         w |-> IF s.directed THEN s.built.edges ELSE s.built.edges @@ w]

outdegree(s, n) == Cardinality(get_snapshot(s).out[n])

(* The row of a gap is left with its initial values: a vertex 0 with       *)
(* score 0.                                                                *)
translate(s, values) ==
    LET g == get_snapshot(s)
    IN  Saved({<<s.data[n + 1], values[n]>> : n \in g.live}
              \cup (IF g.live = g.ids THEN {} ELSE {<<0, 0>>}))

bfs(s, source) ==
    LET b == do_bfs_forward(get_snapshot(s), get_internal_vertex_id(s, source))
    IN  translate(s, [n \in get_snapshot(s).ids |-> get_level(b, n)])
pagerank(s) == translate(s, pagerank_impl(get_snapshot(s), num_vertices(s)))
wcc(s) == translate(s, llama_execute_wcc(get_snapshot(s)))
sssp(s, source) == translate(s, llama_execute_sssp(get_snapshot(s), get_internal_vertex_id(s, source)))
lcc(s) ==
    translate(s, IF s.directed THEN llama_execute_lcc_directed(get_snapshot(s))
                               ELSE llama_execute_lcc_undirected(get_snapshot(s)))

cdlp(s) ==
    LET g == get_snapshot(s)
    IN  translate(s, cdlp_impl(g, [n \in g.ids |-> s.data[n + 1]]))

-----------------------------------------------------------------------------
(* LLAMARef: every slot of the arrays takes part, gaps included. *)
AllLive(g) == [g EXCEPT !.live = g.ids]
bfsRef(s, source) ==
    LET g == AllLive(get_snapshot(s))
        root == get_internal_vertex_id(s, source)
    IN  NonNegative(translate(s,
            do_bfs(g, s.built.nodes, BfsStart(g, do_bfs_init_distances(g), root, Cardinality(DOMAIN s.built.edges))).dist))
pagerankRef(s) == translate(s, do_pagerank(get_snapshot(s), num_vertices(s)))
wccRef(s) == translate(s, do_wcc(AllLive(get_snapshot(s))))
ssspRef(s, source) ==
    {translate(s, d) : d \in do_sssp(get_snapshot(s), get_internal_vertex_id(s, source),
                                     Cardinality(DOMAIN s.built.edges))}

-----------------------------------------------------------------------------
(* LLAMA_DV: node n is vertex n, and adding it creates those before. *)
ExistsDV(s, n) == n < Len(s.data) /\ n \notin s.deleted
num_verticesDV(s) == Len(s.data)
has_vertexDV(s, n) == ExistsDV(s, n)

(* The edge looked for is the one from the source to itself. *)
get_weightDV(s, u, v) == LET a == Stored(s, <<u, v>>) IN find(s, <<a[1], a[1]>>)

add_node(s, n) ==
    [s EXCEPT !.data = [i \in 1 .. Max({Len(@), n + 1}) |-> i - 1], !.deleted = @ \ {n}]
add_vertexDV(s, n) == Returns(add_node(s, n), ~ ExistsDV(s, n))
remove_vertexDV(s, n) == Returns(delete_node(s, n), TRUE)

add_edge0DV(s, u, v, w) ==
    LET a == Stored(s, <<u, v>>)
    IN  IF s.blind THEN Returns([s EXCEPT !.edges = (a :> w) @@ @, !.diff = @ + 1], TRUE)
                   ELSE add_edge_if_not_exists(s, a, w)
add_edgeDV(s, u, v, w) == add_edge0DV(s, u, v, w)
add_edge_v2DV(s, u, v, w) == add_edge0DV(add_node(add_node(s, u), v), u, v, w)
remove_edgeDV(s, u, v) == delete_edge_if_exists(s, Stored(s, <<u, v>>))
buildDV(s) == build(s)

SavedDV(s, values) == Saved({<<n, values[n]>> : n \in get_snapshot(s).live})
bfsDV(s, source) ==
    LET b == do_bfs_forward(get_snapshot(s), source)
    IN  SavedDV(s, [n \in get_snapshot(s).ids |-> get_level(b, n)])
pagerankDV(s) == SavedDV(s, pagerank_impl(get_snapshot(s), num_verticesDV(s)))
wccDV(s) == SavedDV(s, llama_execute_wcc(get_snapshot(s)))
cdlpDV(s) == SavedDV(s, cdlp_impl(get_snapshot(s), [n \in get_snapshot(s).ids |-> n]))
ssspDV(s, source) == SavedDV(s, llama_execute_sssp(get_snapshot(s), source))
lccDV(s) == SavedDV(s, IF s.directed THEN llama_execute_lcc_directed(get_snapshot(s))
                                     ELSE llama_execute_lcc_undirected(get_snapshot(s)))
=============================================================================
