---------------------------- MODULE LlamaKernels ----------------------------
(***************************************************************************)
(* The kernels of LLAMA, in library/llama-dv/llama-dv.cpp and, the same,   *)
(* in library/llama/.  An undirected edge is stored once, as an arc: the   *)
(* neighbours of a node are those of its outgoing and of its incoming      *)
(* arcs.  A kernel runs on a view g like those of GapKernels with also the *)
(* stored arcs: fw[n] and bw[n] are the targets of the outgoing and the    *)
(* sources of the incoming ones.                                           *)
(***************************************************************************)
EXTENDS DriverStore

CONSTANTS
    THRESHOLD1,    \* a frontier that is too large for the map of the visited nodes
    THRESHOLD2     \* a frontier that is too large for the queue

-----------------------------------------------------------------------------
(* Breadth-first search, ll_bfs_template.  The nodes of a level are in a   *)
(* slice of global_vector, or in none: those with that level.              *)
prepare(root) ==
    [state |-> "SMALL", level |-> 0, visited |-> (root :> 0), vector |-> <<root>>,
     curr_begin |-> 0, next_begin |-> 1, curr_count |-> 1, next_count |-> 0]

Frontier(b) ==
    IF b.state \in {"RD", "R2Q"} THEN {n \in DOMAIN b.visited : b.visited[n] = b.level}
    ELSE {b.vector[i] : i \in b.curr_begin + 1 .. b.curr_begin + b.curr_count}

visit(g, b) == UNION {g.out[n] : n \in Frontier(b)} \ DOMAIN b.visited

(* The threads append what they found to the vector (visit_neighbor_small  *)
(* and visit_neighbor_que) or only count it (visit_neighbor_rd).           *)
visit_neighbors(g, b) ==
    LET found == visit(g, b)
        queue == SubSeq(b.vector, 1, b.next_begin) \o InOrder(found)
    IN  [b EXCEPT !.visited = [n \in found |-> b.level + 1] @@ @,
                  !.vector = IF b.state \in {"Q2R", "RD"} THEN @ ELSE queue,
                  !.next_count = Cardinality(found)]

\* Mutant: the slice does not move after the first level that writes it again.
finish_level_late(b) ==
    LET moved == IF b.state \in {"RD", "Q2R", "R2Q"} THEN b
                 ELSE [b EXCEPT !.curr_begin = b.next_begin, !.next_begin = @ + b.next_count]
    IN  [moved EXCEPT !.curr_count = b.next_count, !.next_count = 0, !.level = @ + 1]

(* The slice moves on only if this level has written it. *)
finish_level(b) ==
    LET moved == IF b.state \in {"RD", "Q2R"} THEN b
                 ELSE [b EXCEPT !.curr_begin = b.next_begin, !.next_begin = @ + b.next_count]
    IN  [moved EXCEPT !.curr_count = b.next_count, !.next_count = 0, !.level = @ + 1]

get_next_state(b) ==
    CASE b.state = "SMALL" -> IF b.next_count >= THRESHOLD1 THEN "QUE" ELSE "SMALL"
      [] b.state = "QUE" -> IF b.next_count >= THRESHOLD2 /\ b.next_count >= 5 * b.curr_count
                            THEN "Q2R" ELSE "QUE"
      [] b.state = "Q2R" -> "RD"
      [] b.state = "RD" -> IF b.next_count <= 2 * b.curr_count THEN "R2Q" ELSE "RD"
      [] b.state = "R2Q" -> "QUE"

do_bfs_forward(g, root) ==
    LET RECURSIVE Levels(_)
        Levels(b) ==
            LET c == Now(visit_neighbors(g, b))
            IN  IF c.next_count = 0 THEN c
                ELSE Levels([finish_level(c) EXCEPT !.state = get_next_state(c)])
    IN  Levels(prepare(root))

(* A node that is not visited has __INVALID_LEVEL, written as the maximum. *)
get_level(b, n) == IF n \in DOMAIN b.visited THEN b.visited[n] ELSE MaxValue

-----------------------------------------------------------------------------
(* Label propagation: over the outgoing and then the incoming arcs.  The   *)
(* first labels are the external identifiers (names).                      *)
cdlp_impl(g, names) ==
    LET count(labels, n, l) == Cardinality({m \in g.fw[n] : labels[m] = l})
                               + Cardinality({m \in g.bw[n] : labels[m] = l})
        histogram(labels, n) ==
            [l \in {labels[m] : m \in g.fw[n] \cup g.bw[n]} |-> count(labels, n, l)]
        RECURSIVE Iterate(_, _)
        Iterate(labels0, k) ==
            LET labels1 == Now([n \in g.ids |-> LabelMax(histogram(labels0, n))])
            IN  IF k = 0 \/ labels1 = labels0 THEN labels0 ELSE Iterate(labels1, k - 1)
    IN  Iterate(names, Iterations)

-----------------------------------------------------------------------------
(* Local clustering coefficient.  The neighbours of the destination are a  *)
(* ring that the iterator goes around, from the last one it has found (at, *)
(* its position), until it meets t or is back.                             *)
check_common(ring, at, t) ==
    LET n == Len(ring)
        position(k) == ((at - 1 + k) % n) + 1
        steps == {k \in 0 .. n - 1 : ring[position(k)] = t}
    IN  [found |-> steps # {}, at |-> IF steps = {} THEN at ELSE position(Min(steps))]

(* The neighbours of src that are in the ring, each looked for once. *)
CommonNeighbours(ring, candidates) ==
    LET step(acc, t) ==
            LET c == check_common(ring, acc.at, t)
            IN  [at |-> c.at, count |-> acc.count + IF c.found THEN 1 ELSE 0]
    IN  IF ring = <<>> THEN 0 ELSE FoldLeft(step, [at |-> 1, count |-> 0], candidates).count

(* With directed edges, the outgoing arcs of the destination; a neighbour  *)
(* of the source both ways is visited once.                                *)
common_neighbor_iter_directed(g, u, v) ==
    CommonNeighbours(InOrder(g.fw[v]), InOrder(g.fw[u]) \o InOrder(g.bw[u] \ g.fw[u]))
count_triangles_directed(g, u) ==
    MapThenSumSet(LAMBDA v : common_neighbor_iter_directed(g, u, v), g.bw[u] \cup g.fw[u])
llama_execute_lcc_directed(g) ==
    [u \in g.ids |->
        LET degree == Cardinality(g.fw[u] \cup g.bw[u])
        IN  IF degree <= 1 THEN Zero ELSE <<count_triangles_directed(g, u), degree * (degree - 1)>>]

common_neighbor_iter_undirected(g, u, v) ==
    CommonNeighbours(InOrder(g.fw[v]) \o InOrder(g.bw[v]), InOrder(g.fw[u]) \o InOrder(g.bw[u]))
count_triangles_undirected(g, u) ==
    MapThenSumSet(LAMBDA v : common_neighbor_iter_undirected(g, u, v), g.bw[u])
    + MapThenSumSet(LAMBDA v : common_neighbor_iter_undirected(g, u, v), g.fw[u])
llama_execute_lcc_undirected(g) ==
    [u \in g.ids |->
        LET degree == Cardinality(g.fw[u]) + Cardinality(g.bw[u])
        IN  IF degree <= 1 THEN Zero ELSE <<count_triangles_undirected(g, u), degree * (degree - 1)>>]

-----------------------------------------------------------------------------
(* PageRank: the nodes with no arc are taken for gaps, and get only the    *)
(* base score.                                                             *)
pagerank_impl(g, num_vertices) ==
    LET RECURSIVE Iterate(_, _)
        Iterate(rank, k) ==
            LET dsum == MapThenSumSet(LAMBDA n : rank[n], {n \in g.live : g.out[n] = {}})
                score(n) == MapThenSumSet(LAMBDA m : rank[m] \div Cardinality(g.out[m]), g.inn[n])
            IN  IF k = 0 THEN rank
                ELSE Iterate(Now([n \in g.ids |-> Unit \div (2 * num_vertices) + score(n) \div 2
                                                  + dsum \div (2 * num_vertices)]), k - 1)
    IN  Iterate([n \in g.ids |-> Unit \div num_vertices], Iterations)

-----------------------------------------------------------------------------
(* Shortest paths: at each round the nodes updated in the previous one     *)
(* improve the next distances of their neighbours.                         *)
llama_execute_sssp(g, root) ==
    LET RECURSIVE Round(_, _)
        Round(dist, updated) ==
            LET offers(s) == {dist[n] + g.w[<<n, s>>] : n \in {m \in updated : s \in g.out[m]}}
                next == Now([s \in g.ids |-> Min({dist[s]} \cup offers(s))])
            IN  IF updated = {} THEN dist ELSE Round(next, {s \in g.ids : next[s] < dist[s]})
    IN  Round([n \in g.ids |-> IF n = root THEN 0 ELSE Infinity], {root})

-----------------------------------------------------------------------------
(* Components: a depth-first search, from each node without one, with the  *)
(* nodes being visited in a stack (the top is first).                      *)
main_loop(g, components, root) ==
    LET RECURSIVE Loop(_, _)
        Loop(c, stack) ==
            LET n == Head(stack)
                out == {m \in g.fw[n] : c[m] = NoVertex}
                in == {m \in g.bw[n] : c[m] = NoVertex}
                enter(m) == Loop([c EXCEPT ![m] = root], <<m>> \o stack)
            IN  IF stack = <<>> THEN c
                ELSE IF out # {} THEN enter(Min(out))
                ELSE IF in # {} THEN enter(Min(in))
                ELSE Loop(c, Tail(stack))
    IN  Loop([components EXCEPT ![root] = root], <<root>>)
llama_execute_wcc(g) ==
    FoldLeft(LAMBDA c, n : IF c[n] = NoVertex THEN main_loop(g, c, n) ELSE c,
             Now([n \in g.ids |-> NoVertex]), InOrder(g.ids))
=============================================================================
