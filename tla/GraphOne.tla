------------------------------ MODULE GraphOne ------------------------------
(***************************************************************************)
(* GraphOne (library/graphone/graphone.cpp).  An update is appended to a   *)
(* log (the write store); the library moves the log to the adjacency lists *)
(* (the read store, edges) in the background, and build() waits for it.    *)
(* Vertices have a dictionary, or are dense: the identifiers 0, 1, ...  An *)
(* edge of an undirected graph is in the log once, with the lower endpoint *)
(* first, and in the adjacency lists of both.                              *)
(*                                                                         *)
(* The degree that the library returns is the number of the records of a   *)
(* vertex.  Once a deletion is archived (stale) it is only a bound, and    *)
(* all the kernels but BFS read entries of their buffer nobody wrote: from *)
(* there on their results are not determined, and are not checked.         *)
(***************************************************************************)
EXTENDS DriverStore

Init0(directed, dense, blind) ==
    [dense |-> dense, blind |-> blind, log |-> <<>>, stale |-> FALSE] @@ Empty(directed)

num_vertices(s) == Len(s.data)
has_vertex(s, x) == IF s.dense THEN x < num_vertices(s) ELSE Known(s, x)
vtx_ext2int(s, x) == IF s.dense THEN x ELSE s.dict[x]

(* The functions on edges look a vertex up in the dictionary; without it   *)
(* they take any identifier, of a vertex or not.                           *)
Resolves(s, x) == s.dense \/ Known(s, x)

(* The internal identifiers of an edge, as it is in the log. *)
Endpoints(s, u, v) ==
    LET a == <<vtx_ext2int(s, u), vtx_ext2int(s, v)>>
    IN  IF ~ s.directed /\ a[1] > a[2] THEN <<a[2], a[1]>> ELSE a

(* The weight of the newest record of the edge: first in the log, from its *)
(* end, then in the adjacency lists.                                       *)
find_edge(s, a) ==
    LET records == {i \in DOMAIN s.log : s.log[i].arc = a}
        newest == s.log[Max(records)]
    IN  IF records # {} THEN (IF newest.deletion THEN {} ELSE {newest.weight})
        ELSE IF a \in DOMAIN s.edges THEN {s.edges[a]} ELSE {}

get_weight(s, u, v) ==
    IF Resolves(s, u) /\ Resolves(s, v) THEN find_edge(s, Endpoints(s, u, v)) ELSE {}

get_or_create_vertex(s, x) ==
    IF ~ s.dense THEN Create(s, x, 0)
    ELSE IF x < num_vertices(s) THEN s
    ELSE [s EXCEPT !.data = [i \in 1 .. x + 1 |-> i - 1]]

(* The result means nothing here. *)
add_vertex(s, x) == Returns(get_or_create_vertex(s, x), TRUE)

(* Vertices cannot be removed. *)
remove_vertex(s, x) == Returns(s, FALSE)

do_update(s, insert, a, w) ==
    [s EXCEPT !.log = Append(@, [deletion |-> ~ insert, arc |-> a, weight |-> w]),
              !.num_edges = IF insert THEN @ + 1 ELSE @ - 1]

(* With blind writes nobody checks whether the edge exists. *)
InsertEdge(s, u, v, w) ==
    LET a == Endpoints(s, u, v)
    IN  IF s.blind \/ find_edge(s, a) = {} THEN Returns(do_update(s, TRUE, a, w), TRUE)
                                           ELSE Returns(s, FALSE)
add_edge(s, u, v, w) ==
    IF Resolves(s, u) /\ Resolves(s, v) THEN InsertEdge(s, u, v, w) ELSE Returns(s, FALSE)
add_edge_v2(s, u, v, w) == InsertEdge(get_or_create_vertex(get_or_create_vertex(s, u), v), u, v, w)

remove_edge(s, u, v) ==
    IF ~ Resolves(s, u) \/ ~ Resolves(s, v) THEN Returns(s, FALSE)
    ELSE IF s.blind \/ find_edge(s, Endpoints(s, u, v)) # {}
    THEN Returns(do_update(s, FALSE, Endpoints(s, u, v), 0), TRUE)
    ELSE Returns(s, FALSE)

(* A record of the log reaches the adjacency lists. *)
Archive(s, r) ==
    LET arcs == {r.arc} \cup IF s.directed THEN {} ELSE {<<r.arc[2], r.arc[1]>>}
    IN  [s EXCEPT !.stale = @ \/ r.deletion,
                  !.edges = IF r.deletion THEN Without(@, arcs) ELSE [a \in arcs |-> r.weight] @@ @]

(* build waits for the archiving of the whole log. *)
build(s) == [Now(FoldLeft(Archive, s, s.log)) EXCEPT !.log = <<>>]

-----------------------------------------------------------------------------
(* A kernel creates a view, of the log too. *)
View(s) == Snapshot(build(s), 0)
Exact(s) == ~ build(s).stale

(* The results of a dense graph are written as they are. *)
translate(s, values) == External(s, 0, values)

gapbs_bfs(s, source) ==
    LET g == View(s)
    IN  do_bfs(g, num_vertices(s), BfsStart(g, do_bfs_init_distances(g), source, s.num_edges))

(* Without the dictionary, the negative values of the vertices that are    *)
(* not reached are written too.                                            *)
bfs_gapbs(s, source) ==
    LET result == translate(s, gapbs_bfs(s, vtx_ext2int(s, source)).dist)
    IN  IF s.dense THEN result ELSE NonNegative(result)

(* The level of the root is 1, of the vertices not reached 0.  Each sweep  *)
(* visits all the vertices, from above or from below.                      *)
native_bfs(s, root) ==
    LET g == View(s)
        RECURSIVE Visit(_, _, _)
        Visit(status, level, topDown) ==
            LET found == {v \in g.ids : /\ status[v] = 0
                                        /\ IF topDown THEN \E u \in g.ids : status[u] = level /\ v \in g.out[u]
                                                      ELSE \E u \in g.inn[v] : status[u] = level}
                reached == [v \in g.ids |-> IF v \in found THEN level + 1 ELSE status[v]]
            IN  IF found = {} THEN status
                ELSE Visit(Now(reached), level + 1, 1000 * Cardinality(found) < 2 * num_vertices(s))
    IN  Visit([v \in g.ids |-> IF v = root THEN 1 ELSE 0], 1, TRUE)
bfs_native(s, source) ==
    LET level == native_bfs(s, vtx_ext2int(s, source))
    IN  translate(s, [v \in DOMAIN level |-> IF level[v] > 0 THEN level[v] - 1 ELSE MaxValue])

gapbs_pagerank(s) == do_pagerank(View(s), num_vertices(s))

(* The same iteration, from the ranks instead of the contributions. *)
pagerank_impl_from_llama(s) ==
    LET g == View(s)
        n == num_vertices(s)
        RECURSIVE Iterate(_, _)
        Iterate(rank, k) ==
            LET dsum == MapThenSumSet(LAMBDA v : rank[v], {v \in g.ids : g.out[v] = {}})
                next(v) == MapThenSumSet(LAMBDA u : rank[u] \div Cardinality(g.out[u]), g.inn[v])
            IN  IF k = 0 THEN rank
                ELSE Iterate(Now([v \in g.ids |-> Unit \div (2 * n) + next(v) \div 2 + dsum \div (2 * n)]), k - 1)
    IN  Iterate([v \in g.ids |-> Unit \div n], Iterations)
pagerank(s, gapbs) == translate(s, IF gapbs THEN gapbs_pagerank(s) ELSE pagerank_impl_from_llama(s))

gapbs_wcc(s) == do_wcc(View(s))

(* At each iteration a vertex takes the least component around it. *)
simple_wcc(s) ==
    LET g == View(s)
        around(v) == {v} \cup g.out[v] \cup IF s.directed THEN g.inn[v] ELSE {}
        RECURSIVE Iterate(_)
        Iterate(components) ==
            LET next == Now([v \in g.ids |-> Min({components[u] : u \in around(v)})])
            IN  IF next = components THEN next ELSE Iterate(next)
    IN  Iterate([v \in g.ids |-> v])
wcc(s, gapbs) == translate(s, IF gapbs THEN gapbs_wcc(s) ELSE simple_wcc(s))

execute_cdlp(s) == do_cdlp(View(s), [n \in SlotsFrom(s, 0) |-> s.data[n + 1]])
cdlp(s) == translate(s, execute_cdlp(s))

execute_lcc(s) == LET g == View(s) IN [n \in g.ids |-> Lcc(g, n)]
lcc(s) == translate(s, execute_lcc(s))

execute_sssp(s, source) == do_sssp(View(s), source, s.num_edges)
sssp(s, source) == {translate(s, d) : d \in execute_sssp(s, vtx_ext2int(s, source))}
=============================================================================
