------------------------------ MODULE Drivers ------------------------------
(***************************************************************************)
(* The libraries behind the virtual methods of library/interface.hpp: a    *)
(* driver is loaded with a graph and receives a few updates from one       *)
(* thread; in every state its kernels have to agree with the definitions   *)
(* of Graphalytics on the graph that the driver represents.                *)
(***************************************************************************)
EXTENDS LlamaKernels

CONSTANTS
    DriverSet,     \* the drivers: records [name, directed, blind]; with blind
                   \* writes nobody looks whether an edge exists
    Shapes,        \* the graphs loaded: records [edges, updates], where the edges
                   \* are a sequence of <<i, j, weight>> between positions and
                   \* updates is the number of updates that may follow
    Sparse,        \* the external identifier of each position, in any order
    Positions,     \* the positions that the updates use
    Weights,       \* the weights of the edges added
    Cascades,      \* the drivers asked to remove vertices that have edges
    Rounding,      \* of a PageRank score, in units
    MaxNV          \* the vertices a graph of StingerDV has room for

VARIABLES
    driver,        \* the library
    store,         \* its state
    graph,         \* the graph that it represents: Graph(driver, store)
    answer,        \* what the last update returned
    budget         \* the updates left

vars == <<driver, store, graph, answer, budget>>

LG == INSTANCE LiveGraphDriver
GTX == INSTANCE GTXKernels
SO == INSTANCE SortledtonDriver
TE == INSTANCE TeseoDriver
CS == INSTANCE CSR
GO == INSTANCE GraphOne
LL == INSTANCE Llama
ST == INSTANCE StingerDriver
AL == INSTANCE AdjacencyList

(* The identifiers of some drivers have to be 0, 1, ... *)
Dense == {"teseo_rv", "graphone_dense", "llama_dv", "stinger_dv"}
Identifier(d, i) == IF d.name \in Dense THEN i - 1 ELSE Sparse[i]
Ids(d) == {Identifier(d, i) : i \in DOMAIN Sparse}
UpdateIds(d) == {Identifier(d, i) : i \in Positions}

-----------------------------------------------------------------------------
(* The virtual methods. *)
empty(d) ==
    CASE d.name = "livegraph" -> LG!Init0(d.directed)
      [] d.name \in {"teseo", "teseo_rv"} -> TE!Init0
      [] d.name \in {"graphone", "graphone_dense"} -> GO!Init0(d.directed, d.name = "graphone_dense", d.blind)
      [] d.name \in {"llama", "llama_dv"} -> LL!Init0(d.directed, d.blind)
      [] d.name = "stinger_dv" -> ST!InitDV(d.directed)
      [] d.name = "adjacency_list" -> AL!Init0(d.directed)
      [] OTHER -> Empty(d.directed)

has_vertex(d, s, x) ==
    CASE d.name = "livegraph" -> LG!has_vertex(s, x)
      [] d.name = "gtx" -> GTX!has_vertex(s, x)
      [] d.name \in {"sortledton", "sortledton_v2"} -> SO!has_vertex(s, x)
      [] d.name \in {"teseo", "teseo_rv"} -> TE!has_vertex(s, x)
      [] d.name = "csr" -> CS!has_vertex(s, x)
      [] d.name \in {"graphone", "graphone_dense"} -> GO!has_vertex(s, x)
      [] d.name = "llama" -> LL!has_vertex(s, x)
      [] d.name = "llama_dv" -> LL!has_vertexDV(s, x)
      [] d.name = "stinger" -> ST!has_vertex(s, x)
      [] d.name = "stinger_dv" -> ST!has_vertexDV(s, x)
      [] d.name = "adjacency_list" -> AL!has_vertex(s, x)

get_weight(d, s, u, v) ==
    CASE d.name = "livegraph" -> LG!get_weight(s, u, v)
      [] d.name = "gtx" -> GTX!get_weight(s, u, v)
      [] d.name = "sortledton" -> SO!get_weight(s, u, v)
      [] d.name = "sortledton_v2" -> SO!get_weightV2(s, u, v)
      [] d.name \in {"teseo", "teseo_rv"} -> TE!get_weight(s, u, v)
      [] d.name = "csr" -> CS!get_weight(s, u, v)
      [] d.name \in {"graphone", "graphone_dense"} -> GO!get_weight(s, u, v)
      [] d.name = "llama" -> LL!get_weight(s, u, v)
      [] d.name = "llama_dv" -> LL!get_weightDV(s, u, v)
      [] d.name = "stinger" -> ST!get_weight(s, u, v)
      [] d.name = "stinger_dv" -> ST!get_weightDV(s, u, v)
      [] d.name = "adjacency_list" -> AL!get_weight(s, u, v)

num_vertices(d, s) ==
    CASE d.name \in {"livegraph", "gtx", "csr"} -> s.num_vertices
      [] d.name \in {"sortledton", "sortledton_v2"} -> SO!num_vertices(s)
      [] d.name \in {"teseo", "teseo_rv"} -> TE!num_vertices(s)
      [] d.name \in {"graphone", "graphone_dense"} -> GO!num_vertices(s)
      [] d.name = "llama" -> LL!num_vertices(s)
      [] d.name = "llama_dv" -> LL!num_verticesDV(s)
      [] d.name = "stinger" -> ST!num_vertices(s)
      [] d.name = "stinger_dv" -> ST!num_verticesDV(s)
      [] d.name = "adjacency_list" -> AL!num_vertices(s)

num_edges(d, s) ==
    CASE d.name \in {"livegraph", "gtx", "csr", "graphone", "graphone_dense"} -> s.num_edges
      [] d.name \in {"sortledton", "sortledton_v2"} -> SO!num_edges(s)
      [] d.name \in {"teseo", "teseo_rv"} -> TE!num_edges(s)
      [] d.name \in {"llama", "llama_dv"} -> LL!num_edges(s)
      [] d.name \in {"stinger", "stinger_dv"} -> ST!num_edges(s)
      [] d.name = "adjacency_list" -> AL!num_edges(s)

add_vertex(d, s, x) ==
    CASE d.name = "livegraph" -> LG!add_vertex(s, x)
      [] d.name = "gtx" -> GTX!add_vertex(s, x)
      [] d.name \in {"sortledton", "sortledton_v2"} -> SO!add_vertex(s, x)
      [] d.name \in {"teseo", "teseo_rv"} -> TE!add_vertex(s, x)
      [] d.name \in {"graphone", "graphone_dense"} -> GO!add_vertex(s, x)
      [] d.name = "llama" -> LL!add_vertex(s, x)
      [] d.name = "llama_dv" -> LL!add_vertexDV(s, x)
      [] d.name = "stinger" -> ST!add_vertex(s, x)
      [] d.name = "stinger_dv" -> ST!add_vertexDV(s, x)
      [] d.name = "adjacency_list" -> AL!add_vertex(s, x)

remove_vertex(d, s, x) ==
    CASE d.name = "livegraph" -> LG!remove_vertex(s, x)
      [] d.name = "gtx" -> GTX!remove_vertex(s, x)
      [] d.name \in {"teseo", "teseo_rv"} -> TE!remove_vertex(s, x)
      [] d.name \in {"graphone", "graphone_dense"} -> GO!remove_vertex(s, x)
      [] d.name = "llama" -> LL!remove_vertex(s, x)
      [] d.name = "llama_dv" -> LL!remove_vertexDV(s, x)
      [] d.name = "stinger_dv" -> ST!remove_vertexDV(s, x)
      [] d.name = "adjacency_list" -> AL!remove_vertex(s, x)

add_edge(d, s, u, v, w) ==
    CASE d.name = "livegraph" -> LG!add_edge(s, u, v, w)
      [] d.name = "gtx" -> GTX!add_edge(s, u, v, w)
      [] d.name = "sortledton" -> SO!add_edge(s, u, v, w)
      [] d.name = "sortledton_v2" -> SO!add_edgeV2(s, u, v, w)
      [] d.name \in {"teseo", "teseo_rv"} -> TE!add_edge(s, u, v, w)
      [] d.name \in {"graphone", "graphone_dense"} -> GO!add_edge(s, u, v, w)
      [] d.name = "llama" -> LL!add_edge(s, u, v, w)
      [] d.name = "llama_dv" -> LL!add_edgeDV(s, u, v, w)
      [] d.name = "stinger" -> ST!add_edge(s, u, v, w)
      [] d.name = "stinger_dv" -> ST!add_edgeDV(s, u, v, w)
      [] d.name = "adjacency_list" -> AL!add_edge(s, u, v, w)

add_edge_v2(d, s, u, v, w) ==
    CASE d.name = "livegraph" -> LG!add_edge_v2(s, u, v, w)
      [] d.name = "gtx" -> GTX!add_edge_v2(s, u, v, w)
      [] d.name = "sortledton" -> SO!add_edge_v2(s, u, v, w)
      [] d.name = "sortledton_v2" -> SO!add_edge_v2V2(s, u, v, w)
      [] d.name \in {"teseo", "teseo_rv"} -> TE!add_edge_v2(s, u, v, w)
      [] d.name \in {"graphone", "graphone_dense"} -> GO!add_edge_v2(s, u, v, w)
      [] d.name = "llama" -> LL!add_edge_v2(s, u, v, w)
      [] d.name = "llama_dv" -> LL!add_edge_v2DV(s, u, v, w)
      [] d.name = "stinger" -> ST!add_edge_v2(s, u, v, w)
      [] d.name = "stinger_dv" -> ST!add_edge_v2DV(s, u, v, w)
      [] d.name = "adjacency_list" -> AL!add_edge_v2(s, u, v, w)

remove_edge(d, s, u, v) ==
    CASE d.name = "livegraph" -> LG!remove_edge(s, u, v)
      [] d.name = "gtx" -> GTX!remove_edge(s, u, v)
      [] d.name = "sortledton" -> SO!remove_edge(s, u, v)
      [] d.name \in {"teseo", "teseo_rv"} -> TE!remove_edge(s, u, v)
      [] d.name \in {"graphone", "graphone_dense"} -> GO!remove_edge(s, u, v)
      [] d.name = "llama" -> LL!remove_edge(s, u, v)
      [] d.name = "llama_dv" -> LL!remove_edgeDV(s, u, v)
      [] d.name = "stinger" -> ST!remove_edge(s, u, v)
      [] d.name = "stinger_dv" -> ST!remove_edgeDV(s, u, v)
      [] d.name = "adjacency_list" -> AL!remove_edge(s, u, v)

(* These two are only in a few drivers. *)
add_edge_v3(d, s, u, v, w) ==
    IF d.name = "sortledton" THEN SO!add_edge_v3(s, u, v, w) ELSE TE!add_edge_v3(s, u, v, w)
update_edge_v1(d, s, u, v, w) ==
    IF d.name = "sortledton" THEN SO!update_edge_v1(s, u, v, w) ELSE TE!update_edge_v1(s, u, v, w)

build(d, s) ==
    CASE d.name \in {"graphone", "graphone_dense"} -> GO!build(s)
      [] d.name = "llama" -> LL!build(s)
      [] d.name = "llama_dv" -> LL!buildDV(s)
      [] OTHER -> s

(* Updates that the kernels do not see, or that build() has to move. *)
Pending(d, s) ==
    \/ d.name \in {"graphone", "graphone_dense"} /\ s.log # <<>>
    \/ d.name \in {"llama", "llama_dv"} /\ s.built # [nodes |-> Len(s.data), edges |-> s.edges]

-----------------------------------------------------------------------------
(* The graph that a store represents.  The weights of LLAMA_DV and of      *)
(* StingerDV are those stored: their get_weight does not return them.      *)
stored_weight(d, s, u, v) ==
    CASE d.name = "llama_dv" -> LL!find(s, LL!Stored(s, <<u, v>>))
      [] d.name = "stinger_dv" -> WeightOf(s, u, v)
      [] OTHER -> get_weight(d, s, u, v)
Graph(d, s) ==
    LET vertices == {x \in Ids(d) : has_vertex(d, s, x)}
        arcs == {a \in vertices \X vertices : stored_weight(d, s, a[1], a[2]) # {}}
    IN  Now([V |-> vertices, W |-> [a \in arcs |-> CHOOSE w \in stored_weight(d, s, a[1], a[2]) : TRUE]])

-----------------------------------------------------------------------------
(* A graph is loaded by inserting the endpoints of its edges and the edges *)
(* one by one; CSR and the adjacency list have their own function.         *)
Stream(d, shape) ==
    {[source |-> Identifier(d, e[1]), destination |-> Identifier(d, e[2]), weight |-> e[3]] :
        e \in Range(shape.edges)}
load(d, s, edges) ==
    LET insert(t, e) ==
            LET u == Identifier(d, e[1])
                v == Identifier(d, e[2])
                vertices == add_vertex(d, add_vertex(d, t, u).store, v).store
            IN  add_edge(d, vertices, u, v, e[3]).store
    IN  build(d, Now(FoldLeft(insert, s, edges)))
loaded(d, shape) ==
    CASE d.name = "csr" -> CS!load(Stream(d, shape), d.directed)
      [] d.name = "adjacency_list" -> AL!load(empty(d), Stream(d, shape))
      [] OTHER -> load(d, empty(d), shape.edges)

Init ==
    /\ driver \in DriverSet
    /\ \E shape \in Shapes : store = loaded(driver, shape) /\ budget = shape.updates
    /\ graph = Graph(driver, store)
    /\ answer = TRUE

Call(outcome) ==
    /\ budget > 0 /\ budget' = budget - 1
    /\ store' = outcome.store /\ answer' = outcome.result
    /\ graph' = Graph(driver, store')
    /\ UNCHANGED driver

(* What the callers of the drivers observe: dense vertices are created in  *)
(* order; the experiments remove only vertices without edges, unless the   *)
(* driver removes them too; LiveGraph and LLAMA_DV, which do not look for  *)
(* the vertex, are asked to remove one that exists.  An edge that exists   *)
(* is inserted again only where the driver finds it, which the others      *)
(* overwrite, one that does not exist is removed only where the driver     *)
(* finds that out, and an endpoint that does not exist is given to         *)
(* add_edge only where the driver looks for it.                            *)
Static == {"csr"}
Grows == {"stinger_dv"} \cup Static
InOrderOnly(x) == driver.name \in Dense => x <= Cardinality(graph.V)
RemovesVertices == {"livegraph", "teseo", "graphone", "graphone_dense", "llama", "llama_dv", "adjacency_list"}
RemovesEdges == {"livegraph", "gtx", "sortledton", "teseo", "teseo_rv", "graphone", "graphone_dense",
                 "llama", "llama_dv", "stinger", "stinger_dv", "adjacency_list"}
Overwrites == {"sortledton_v2", "stinger", "stinger_dv", "adjacency_list"}
AnyEndpoint == {"sortledton_v2", "stinger", "stinger_dv", "graphone_dense", "llama_dv"}
Isolated(G, x) == Adjacent(G, x) = {}
Absent(u, v) == <<u, v>> \notin DOMAIN graph.W

AddVertex(x) ==
    /\ driver.name \notin Grows /\ InOrderOnly(x)
    /\ driver.name \in {"graphone", "graphone_dense"} => x \notin graph.V
    /\ Call(add_vertex(driver, store, x))

RemoveVertex(x) ==
    /\ driver.name \in RemovesVertices
    /\ x \in graph.V \/ driver.name \notin {"livegraph", "llama_dv"}
    /\ driver.name \in Cascades \/ Isolated(graph, x)
    /\ Call(remove_vertex(driver, store, x))

AddEdge(u, v, w) ==
    /\ driver.name \notin Static /\ u # v
    /\ driver.name \in AnyEndpoint => {u, v} \subseteq graph.V
    /\ driver.name \in Overwrites \/ driver.blind => Absent(u, v)
    /\ Call(add_edge(driver, store, u, v, w))

AddEdgeV2(u, v, w) ==
    /\ driver.name \notin Static /\ u # v /\ Absent(u, v)
    /\ InOrderOnly(Min({u, v})) /\ InOrderOnly(Max({u, v}))
    /\ driver.name \in {"teseo", "teseo_rv"} => TE!Returning(store, "add_edge_v2", u, v)
    /\ Call(add_edge_v2(driver, store, u, v, w))

AddEdgeV3(u, v, w) ==
    /\ driver.name \in {"sortledton", "teseo", "teseo_rv"} /\ u # v
    /\ InOrderOnly(Min({u, v})) /\ InOrderOnly(Max({u, v}))
    /\ driver.name \in {"teseo", "teseo_rv"} => TE!Returning(store, "add_edge_v3", u, v)
    /\ Call(add_edge_v3(driver, store, u, v, w))

UpdateEdgeV1(u, v, w) ==
    /\ driver.name \in {"sortledton", "teseo", "teseo_rv"} /\ u # v
    /\ InOrderOnly(Min({u, v})) /\ InOrderOnly(Max({u, v}))
    /\ driver.name = "teseo" => \A x \in {u, v} \cap store.seen.update_edge_v1 : x \in store.V
    /\ Call(update_edge_v1(driver, store, u, v, w))

RemoveEdge(u, v) ==
    /\ driver.name \in RemovesEdges /\ u # v
    /\ driver.blind /\ driver.name # "llama_dv" => ~ Absent(u, v)
    /\ Call(remove_edge(driver, store, u, v))

Build ==
    /\ Pending(driver, store)
    /\ store' = build(driver, store) /\ graph' = Graph(driver, store')
    /\ UNCHANGED <<driver, answer, budget>>

Next ==
    \/ Build
    \/ \E u \in UpdateIds(driver) :
          \/ AddVertex(u) \/ RemoveVertex(u)
          \/ \E v \in UpdateIds(driver) :
                \/ RemoveEdge(u, v)
                \/ \E w \in Weights : \/ AddEdge(u, v, w) \/ AddEdgeV2(u, v, w)
                                      \/ AddEdgeV3(u, v, w) \/ UpdateEdgeV1(u, v, w)

Spec == Init /\ [][Next]_vars

-----------------------------------------------------------------------------
(* The kernels, with all the implementations that run on the same store.   *)
(* Those of LiveGraph and GTX refuse directed graphs, and those of         *)
(* GraphOne have no definite result once a deletion is archived.  LLAMA    *)
(* runs on the last level and does not see the vertices without edges, nor *)
(* does StingerDV; BFS, SSSP and PageRank of Stinger stop at the last      *)
(* vertex with an edge.                                                    *)
NoIsolated == LET G == graph IN \A x \in G.V : ~ Isolated(G, x)
Analysable ==
    CASE driver.name \in {"livegraph", "gtx"} -> ~ driver.directed
      [] driver.name = "teseo_rv" -> TE!Materialisable(store)
      [] driver.name \in {"graphone", "graphone_dense"} -> GO!Exact(store)
      [] driver.name = "llama" -> ~ Pending(driver, store) /\ NoIsolated
      [] driver.name = "llama_dv" -> ~ Pending(driver, store) /\ NoIsolated /\ store.deleted = {}
      [] driver.name = "stinger_dv" -> NoIsolated
      [] OTHER -> graph.V # {}
StopsEarly == driver.name = "stinger" /\ ~ NoIsolated

(* The results for the vertices of the graph: LLAMA adds a row <<0, 0>>    *)
(* for a vertex removed.                                                   *)
Results(G, outputs) == {Restrict(f, G.V \cap DOMAIN f) : f \in outputs}

bfs(s, x) ==
    CASE driver.name = "livegraph" -> {LG!bfs(s, x)}
      [] driver.name = "gtx" -> {GTX!bfs(s, x)}
      [] driver.name \in {"sortledton", "sortledton_v2"} -> {SO!bfs(s, x)}
      [] driver.name = "teseo" -> {TE!bfs(s, x)}
      [] driver.name = "teseo_rv" -> {TE!bfsRV(s, x)}
      [] driver.name = "csr" -> {CS!bfs(s, x)}
      [] driver.name = "graphone" -> {GO!bfs_native(s, x), GO!bfs_gapbs(s, x)}
      [] driver.name = "graphone_dense" -> {GO!bfs_native(s, x)}
      [] driver.name = "llama" -> {LL!bfs(s, x), LL!bfsRef(s, x)}
      [] driver.name = "llama_dv" -> {LL!bfsDV(s, x)}
      [] driver.name = "stinger" -> {ST!bfs(s, x), ST!bfsRef(s, x)}
      [] driver.name = "stinger_dv" -> {ST!bfsDV(s, x)}
      [] driver.name = "adjacency_list" -> {AL!bfs(s, x)}

(* The searches in the style of GAP, with the vertices pushed. *)
searches(s, x) ==
    CASE driver.name = "livegraph" -> {LG!Bfs(s, s.dict[x])}
      [] driver.name = "gtx" -> {GTX!Bfs(s, s.dict[x])}
      [] driver.name = "teseo" -> {TE!teseo_bfs(s, TE!View(s), TE!logical_id(s, x))}
      [] driver.name = "csr" -> {CS!Bfs(s, s.ext2log[x])}
      [] driver.name \in {"graphone", "graphone_dense"} -> {GO!gapbs_bfs(s, GO!vtx_ext2int(s, x))}
      [] OTHER -> {}

(* Those in the style of GAP have no definite result when their frontier   *)
(* does not fit.                                                           *)
sssp(s, x) ==
    CASE driver.name = "livegraph" -> LG!sssp(s, x)
      [] driver.name = "gtx" -> GTX!sssp(s, x)
      [] driver.name \in {"sortledton", "sortledton_v2"} -> SO!sssp(s, x)
      [] driver.name = "teseo" -> TE!sssp(s, x)
      [] driver.name = "teseo_rv" -> TE!ssspRV(s, x)
      [] driver.name = "csr" -> CS!sssp(s, x)
      [] driver.name \in {"graphone", "graphone_dense"} -> GO!sssp(s, x)
      [] driver.name = "llama" -> {LL!sssp(s, x)} \cup LL!ssspRef(s, x)
      [] driver.name = "llama_dv" -> {LL!ssspDV(s, x)}
      [] driver.name = "stinger" -> {ST!sssp(s, x)} \cup ST!ssspRef(s, x)
      [] driver.name = "stinger_dv" -> {}        \* reads the weights back as doubles
      [] driver.name = "adjacency_list" -> {AL!sssp(s, x)}

wcc(s) ==
    CASE driver.name = "livegraph" -> {LG!wcc_kernel(s)}
      [] driver.name = "sortledton_v2" -> {SO!wccV2(s)}
      [] driver.name = "teseo" -> {TE!wcc(s)}
      [] driver.name = "teseo_rv" -> {TE!wccRV(s)}
      [] driver.name = "csr" -> {CS!wcc(s)}
      [] driver.name \in {"graphone", "graphone_dense"} -> {GO!wcc(s, TRUE), GO!wcc(s, FALSE)}
      [] driver.name = "llama" -> {LL!wcc(s), LL!wccRef(s)}
      [] driver.name = "llama_dv" -> {LL!wccDV(s)}
      [] driver.name = "stinger" -> {ST!wcc(s), ST!wccRef(s)}
      [] driver.name = "stinger_dv" -> {ST!wccDV(s)}
      [] driver.name = "adjacency_list" -> {AL!wcc(s)}
      [] OTHER -> {}

cdlp(s) ==
    CASE driver.name = "livegraph" -> {LG!cdlp_kernel(s)}
      [] driver.name = "sortledton_v2" -> {SO!cdlpV2(s)}
      [] driver.name = "teseo" -> {TE!cdlp(s)}
      [] driver.name = "teseo_rv" -> {TE!cdlpRV(s)}
      [] driver.name = "csr" -> {CS!cdlp(s)}
      [] driver.name \in {"graphone", "graphone_dense"} -> {GO!cdlp(s)}
      [] driver.name = "llama" -> {LL!cdlp(s)}
      [] driver.name = "llama_dv" -> {LL!cdlpDV(s)}
      [] driver.name = "stinger" -> {ST!cdlp(s)}
      [] driver.name = "stinger_dv" -> {ST!cdlpDV(s)}
      [] driver.name = "adjacency_list" -> {AL!cdlp(s)}
      [] OTHER -> {}

lcc(s) ==
    CASE driver.name = "livegraph" -> {LG!lcc(s)}
      [] driver.name \in {"sortledton", "sortledton_v2"} -> {SO!lcc(s)}
      [] driver.name = "teseo" -> {TE!lcc(s), TE!lccSortMerge(s)}
      [] driver.name = "teseo_rv" -> {TE!lccRV(s), TE!lccSortMergeRV(s)}
      [] driver.name = "csr" -> {CS!lcc(s)} \cup (IF driver.directed THEN {} ELSE {CS!lccSortMerge(s)})
      [] driver.name \in {"graphone", "graphone_dense"} -> {GO!lcc(s)}
      [] driver.name = "llama" -> {LL!lcc(s)}
      [] driver.name = "llama_dv" -> {LL!lccDV(s)}
      [] driver.name = "stinger" -> {ST!lcc(s)}
      [] driver.name = "adjacency_list" -> {AL!lcc(s)}
      [] OTHER -> {}         \* gtx shifts the scores by one vertex; stinger_dv truncates

pagerank(s) ==
    CASE driver.name = "livegraph" -> {LG!pagerank(s)}
      [] driver.name = "gtx" -> {GTX!pagerank(s)}
      [] driver.name \in {"sortledton", "sortledton_v2"} -> {SO!pagerank(s)}
      [] driver.name = "teseo" -> {TE!pagerank(s)}
      [] driver.name = "teseo_rv" -> {TE!pagerankRV(s)}
      [] driver.name = "csr" -> {CS!pagerank(s)}
      [] driver.name \in {"graphone", "graphone_dense"} -> {GO!pagerank(s, TRUE), GO!pagerank(s, FALSE)}
      [] driver.name = "llama" -> {LL!pagerank(s), LL!pagerankRef(s)}
      [] driver.name = "llama_dv" -> {LL!pagerankDV(s)}
      [] driver.name = "stinger" -> {ST!pagerank(s), ST!pagerankRef(s)}
      [] driver.name = "stinger_dv" -> {ST!pagerankDV(s)}
      [] driver.name = "adjacency_list" -> {AL!pagerank(s)}

(* What wcc() and cdlp() of some drivers compute instead, and the vertices *)
(* that one_hop_neighbors and two_hop_neighbors count.                     *)
Scanning == {"livegraph", "gtx", "sortledton"}
scans(s) ==
    CASE driver.name = "livegraph" -> <<LG!do_topology_scan(s), LG!do_weight_scan(s)>>
      [] driver.name = "gtx" -> <<GTX!do_topology_scan(s), GTX!do_weighted_scan(s)>>
      [] driver.name = "sortledton" -> <<SO!do_topology_scan(s), SO!do_weight_scan(s)>>
hops(s, x) ==
    LET one == IF driver.name = "livegraph" THEN LG!one_hop_neighbors(s, s.dict[x]) ELSE SO!one_hop_neighbors(s, s.dict[x])
        two == IF driver.name = "livegraph" THEN LG!two_hop_neighbors(s, s.dict[x]) ELSE SO!two_hop_neighbors(s, s.dict[x])
    IN  <<{s.data[n + 1] : n \in one}, {s.data[n + 1] : n \in two}>>

-----------------------------------------------------------------------------
(* The driver behaves as the graph of interface.hpp: each call answers and *)
(* changes what this promises for its function, and nothing else; build    *)
(* changes nothing.  GraphOne is unable to remove vertices.                *)
Abstract == INSTANCE LibraryGraph
    WITH directed <- driver.directed, V <- graph.V, W <- graph.W, answer <- answer,
         Identifiers <- UNION {Ids(d) : d \in DriverSet}
Able == driver.name \notin {"graphone", "graphone_dense"}
Promised ==
    /\ Build => UNCHANGED Abstract!graphVars
    /\ \A u \in UpdateIds(driver) :
         /\ AddVertex(u) => Abstract!AddVertex(u)
         /\ RemoveVertex(u) => Abstract!RemoveVertex(u, Able)
         /\ \A v \in UpdateIds(driver) :
              /\ RemoveEdge(u, v) => Abstract!RemoveEdge(u, v)
              /\ \A w \in Weights :
                   /\ AddEdge(u, v, w) => Abstract!AddEdge(u, v, w, FALSE)
                   /\ AddEdgeV2(u, v, w) => Abstract!AddEdge(u, v, w, TRUE)
                   /\ AddEdgeV3(u, v, w) => Abstract!PutEdge(u, v, w, FALSE)
                   /\ UpdateEdgeV1(u, v, w) => Abstract!PutEdge(u, v, w, TRUE)
ImplementsLibraryGraph == Abstract!GraphInit /\ [][Promised]_vars

(* num_vertices() and num_edges() are those of the graph; StingerDV counts *)
(* the vertices with an edge, LLAMA the edges of the last level.           *)
CountersExact ==
    LET G == graph
        vertices == IF driver.name = "stinger_dv" THEN {x \in G.V : ~ Isolated(G, x)} ELSE G.V
    IN  /\ driver.name # "llama_dv" => num_vertices(driver, store) = Cardinality(vertices)
        /\ ~ Pending(driver, store) \/ driver.name \in {"graphone", "graphone_dense"} =>
              num_edges(driver, store) * (IF driver.directed THEN 1 ELSE 2) = Cardinality(DOMAIN G.W)

(* The distances of a search are those of the graph, from every vertex,    *)
(* whatever the direction of its steps, and the vertices that cannot be    *)
(* reached have the maximum.                                               *)
BfsCorrect ==
    Analysable /\ ~ StopsEarly =>
        LET G == graph
        IN  \A x \in G.V : Results(G, bfs(store, x)) \subseteq {Hops(G, x)}

(* The queue of a search has room for each vertex once, and its position   *)
(* is never reset: the switches between the two steps push no vertex       *)
(* twice.                                                                  *)
QueueFits ==
    Analysable => \A x \in graph.V : \A b \in searches(store, x) : b.pushed <= Cardinality(DOMAIN b.dist)

(* The bins of the delta stepping, the rounds of LLAMA and the priority    *)
(* queues of the others lose no shorter path, where the frontier fits in   *)
(* its array.                                                              *)
SsspCorrect ==
    Analysable /\ ~ StopsEarly =>
        LET G == graph
        IN  \A x \in G.V : Results(G, sssp(store, x)) \subseteq {PathWeight(G, x)}

(* Two vertices have the same component if and only if a path links them. *)
WccCorrect ==
    Analysable =>
        LET G == graph
            reach == [x \in G.V |-> Component(G, x)]
        IN  \A c \in Results(G, wcc(store)) :
                /\ DOMAIN c = G.V
                /\ \A x, y \in G.V : c[x] = c[y] <=> y \in reach[x]

(* The labels are those of Graphalytics, on the graphs where each vertex   *)
(* has a neighbour: the others get a label of no vertex.                   *)
CdlpCorrect ==
    Analysable /\ NoIsolated => Results(graph, cdlp(store)) \subseteq {Communities(graph, Iterations)}

(* The coefficient is the share of the pairs of neighbours that are        *)
(* linked, however the triangles are counted.                              *)
LccCorrect ==
    Analysable =>
        LET G == graph
        IN  \A c \in Results(G, lcc(store)) : /\ DOMAIN c = G.V
                                  /\ \A x \in G.V : SameScore(c[x], Clustering(G, x))

(* The ranks are those of Graphalytics, but for the rounding. *)
PageRankCorrect ==
    Analysable /\ ~ StopsEarly =>
        LET G == graph
            exact == Ranks(G, Iterations)
        IN  \A r \in Results(G, pagerank(store)) :
                /\ DOMAIN r = G.V
                /\ \A x \in G.V : r[x] - exact[x] \in -Rounding .. Rounding

(* The scans visit every arc once, and the neighbourhoods of one and two   *)
(* hops are those of the graph.                                            *)
ScansCorrect ==
    driver.name \in Scanning =>
        LET G == graph
        IN  /\ scans(store) = <<Cardinality(DOMAIN G.W), MapThenSumSet(LAMBDA a : G.W[a], DOMAIN G.W)>>
            /\ driver.name # "gtx" =>
                 \A x \in G.V : hops(store, x) = <<Out(G, x), Within(G, x)[2] \ {x}>>
=============================================================================
