----------------------------- MODULE GapKernels -----------------------------
(***************************************************************************)
(* The kernels of the GAP Benchmark Suite that the drivers adapt, one copy *)
(* for each, to the graph they store; here as they are in gtx_driver.cpp.  *)
(* A kernel runs on a view of the graph: the slots of its arrays (ids), the *)
(* slots with a vertex (live), the neighbours of each slot (out and inn,   *)
(* the same for an undirected graph), and the weights (w).                 *)
(*                                                                         *)
(* The iterations of a parallel loop are independent of each other, with   *)
(* two exceptions: the loops of WCC and SSSP, executed here by one thread  *)
(* in the order of the slots (WCC by many threads is module ParallelWCC).  *)
(***************************************************************************)
EXTENDS Graphalytics, Sequences, SequencesExt

CONSTANTS
    Alpha, Beta,    \* the parameters of the direction-optimising BFS
    Delta,          \* the width of a bin of SSSP
    Iterations      \* of PageRank and CDLP

Infinity == MaxValue
NoVertex == MaxValue + 1    \* numeric_limits<uint64_t>::max()
Int64Max == MaxValue        \* numeric_limits<int64_t>::max()

InOrder(S) == Now([i \in 1 .. Cardinality(S) |-> CHOOSE x \in S : Cardinality({y \in S : y < x}) = i - 1])
TruncDiv(a, b) == IF a >= 0 THEN a \div b ELSE -((-a) \div b)

-----------------------------------------------------------------------------
(* Breadth-first search *)

(* A visited slot holds its distance, another minus its degree; the slots  *)
(* without a vertex look as if they had been visited.                      *)
do_bfs_init_distances(g) ==
    [n \in g.ids |-> IF n \notin g.live THEN Int64Max
                     ELSE IF g.out[n] # {} THEN - Cardinality(g.out[n]) ELSE -1]

(* The step from the unvisited slots towards the frontier ... *)
do_bfs_BUStep(g, b) ==
    LET awake == {u \in g.ids : b.dist[u] < 0 /\ \E v \in g.inn[u] : v \in b.front}
    IN  [b EXCEPT !.dist = [u \in g.ids |-> IF u \in awake THEN b.distance ELSE b.dist[u]],
                  !.next = awake, !.awake = Cardinality(awake)]

(* ... and the one from the frontier.  The scouts count the arcs of the    *)
(* slots it visits.                                                        *)
do_bfs_TDStep(g, b) ==
    LET found == {v \in g.ids : b.dist[v] < 0 /\ \E u \in b.queue : v \in g.out[u]}
    IN  [b EXCEPT !.dist = [v \in g.ids |-> IF v \in found THEN b.distance ELSE b.dist[v]],
                  !.queue = found,
                  !.pushed = @ + Cardinality(found),
                  !.scout = MapThenSumSet(LAMBDA v : - b.dist[v], found)]

(* QueueToBitmap adds to the bits that an earlier sweep left in the front. *)
do_bfs_QueueToBitmap(b) ==
    [b EXCEPT !.front = @ \cup b.queue, !.awake = Cardinality(b.queue), !.queue = {}]

\* Mutant: the visited vertices are pushed again.
do_bfs_BitmapToQueue_visited(b) ==
    [b EXCEPT !.queue = b.front, !.scout = 1,
              !.pushed = @ + Cardinality({n \in DOMAIN b.dist : 0 <= b.dist[n] /\ b.dist[n] < Int64Max})]

do_bfs_BitmapToQueue(b) ==
    [b EXCEPT !.queue = b.front, !.pushed = @ + Cardinality(b.front), !.scout = 1]

(* The search alternates between the two.  The result has the distances    *)
(* and the number of vertices pushed in the queue, whose array is not      *)
(* reused.                                                                 *)
do_bfs(g, numVertices, b0) ==
    LET RECURSIVE Sweep(_), Search(_)
        Sweep(b) ==
            LET a == Now(do_bfs_BUStep(g, b))
                c == [a EXCEPT !.front = a.next, !.distance = @ + 1]
            IN  IF c.awake >= b.awake \/ c.awake > numVertices \div Beta THEN Sweep(c) ELSE c
        Search(b) ==
            IF b.queue = {} THEN [dist |-> b.dist, pushed |-> b.pushed]
            ELSE IF b.scout > TruncDiv(b.edges, Alpha)
            THEN Search(Now(do_bfs_BitmapToQueue(Sweep(do_bfs_QueueToBitmap(b)))))
            ELSE Search(Now([do_bfs_TDStep(g, [b EXCEPT !.edges = @ - b.scout]) EXCEPT !.distance = @ + 1]))
    IN  Search(Now(b0))

(* The state of the search when the root is in the queue. *)
BfsStart(g, distances, root, edges) ==
    [dist |-> [distances EXCEPT ![root] = 0], distance |-> 1, queue |-> {root}, pushed |-> 1,
     front |-> {}, next |-> {}, awake |-> 0, edges |-> edges, scout |-> Cardinality(g.out[root])]

-----------------------------------------------------------------------------
(* PageRank.  The scores start from 1/num_vertices, for the slots without  *)
(* a vertex too, which are then left alone.                                *)
do_pagerank(g, numVertices) ==
    LET init == Unit \div numVertices
        RECURSIVE Iterate(_, _)
        Iterate(scores, k) ==
            LET dangling == MapThenSumSet(LAMBDA v : scores[v], {v \in g.live : g.out[v] = {}})
                contrib == Now([v \in g.ids |-> IF v \in g.live /\ g.out[v] # {}
                                                THEN scores[v] \div Cardinality(g.out[v]) ELSE 0])
                incoming(v) == MapThenSumSet(LAMBDA u : contrib[u], g.inn[v])
            IN  IF k = 0 THEN scores
                ELSE Iterate(Now([v \in g.ids |->
                                    IF v \notin g.live THEN scores[v]
                                    ELSE (init + incoming(v) + dangling \div numVertices) \div 2]), k - 1)
    IN  Iterate([v \in g.ids |-> init], Iterations)

-----------------------------------------------------------------------------
(* Weakly connected components, by Shiloach and Vishkin *)

\* Mutant: only the component of the destination hooks.
Hook_destination(comp, u, v) ==
    IF comp[u] < comp[v] /\ comp[comp[v]] = comp[v] THEN [comp EXCEPT ![comp[v]] = comp[u]] ELSE comp

(* The edge u - v: the higher of the two components hooks to the lower, if *)
(* it is a root.                                                           *)
Hook(comp, u, v) ==
    LET high == Max({comp[u], comp[v]})
        low == Min({comp[u], comp[v]})
    IN  IF comp[u] # comp[v] /\ comp[high] = high THEN [comp EXCEPT ![high] = low] ELSE comp

(* while(comp[n] != comp[comp[n]]) comp[n] = comp[comp[n]] *)
Compress(comp, n) ==
    LET RECURSIVE Root(_)
        Root(m) == IF comp[m] = m THEN m ELSE Root(comp[m])
    IN  [comp EXCEPT ![n] = Root(n)]

do_wcc(g) ==
    LET arcs == InOrder(g.live)
        hookAll(comp, u) == FoldLeft(LAMBDA c, v : Hook(c, u, v), comp, InOrder(g.out[u]))
        RECURSIVE Iterate(_)
        Iterate(comp) ==
            LET hooked == Now(FoldLeft(hookAll, comp, arcs))
                compressed == Now(FoldLeft(Compress, hooked, arcs))
            IN  IF hooked = comp THEN compressed ELSE Iterate(compressed)
    IN  Iterate(Now([n \in g.ids |-> IF n \in g.live THEN n ELSE NoVertex]))

-----------------------------------------------------------------------------
\* Mutant: the largest of the labels in a tie.
LabelMax_largest(histogram) ==
    LET top == {l \in DOMAIN histogram : \A m \in DOMAIN histogram : histogram[m] <= histogram[l]}
    IN  IF top = {} THEN Int64Max ELSE Max(top)

(* Community detection by label propagation.  The labels of an iteration   *)
(* are computed from those of the previous one; a vertex with no neighbour *)
(* has an empty histogram and gets the initial value of label_max.         *)
LabelMax(histogram) ==
    LET top == {l \in DOMAIN histogram : \A m \in DOMAIN histogram : histogram[m] <= histogram[l]}
    IN  IF top = {} THEN Int64Max ELSE Min(top)

(* The incoming arcs of a directed graph count too. *)
Histogram(g, labels, v) ==
    LET incoming == IF g.directed THEN g.inn[v] ELSE {}
    IN  [l \in {labels[u] : u \in g.out[v] \cup incoming} |->
            Cardinality({u \in g.out[v] : labels[u] = l})
            + Cardinality({u \in incoming : labels[u] = l})]

do_cdlp(g, ext) ==
    LET RECURSIVE Iterate(_, _)
        Iterate(labels0, k) ==
            LET labels1 == Now([v \in g.ids |-> IF v \notin g.live THEN NoVertex
                                                ELSE LabelMax(Histogram(g, labels0, v))])
            IN  IF k = 0 \/ labels1 = labels0 THEN labels0 ELSE Iterate(labels1, k - 1)
    IN  Iterate([v \in g.ids |-> IF v \in g.live THEN ext[v] ELSE NoVertex], Iterations)

-----------------------------------------------------------------------------
(* Local clustering coefficient of the vertex in slot v: the triangles are *)
(* the outgoing arcs of a neighbour u of v that reach another neighbour.   *)
Lcc(g, v) ==
    LET neighbours == g.out[v] \cup (IF g.directed THEN g.inn[v] ELSE {})
        degree == Cardinality(neighbours)
        triangles == MapThenSumSet(LAMBDA u : Cardinality(g.out[u] \cap neighbours), neighbours)
    IN  IF degree < 2 THEN Zero ELSE <<triangles, degree * (degree - 1)>>

(* The sort-merge implementation: each triangle a > b > c is found once,   *)
(* from a, and adds two to the count of its three vertices.                *)
OrderedTriangles(g) ==
    {t \in g.live \X g.live \X g.live :
        /\ t[1] > t[2] /\ t[2] > t[3]
        /\ t[2] \in g.out[t[1]] /\ t[3] \in g.out[t[2]] /\ t[3] \in g.out[t[1]]}
SortMergeLcc(g) ==
    LET count(v) == 2 * Cardinality({t \in OrderedTriangles(g) : v \in {t[1], t[2], t[3]}})
        degree(v) == Cardinality(g.out[v])
    IN  [v \in g.live |-> IF count(v) > 0 THEN <<count(v), degree(v) * (degree(v) - 1)>> ELSE Zero]

-----------------------------------------------------------------------------
(* Single-source shortest paths, by delta stepping *)

\* Mutant: a vertex that has a distance is not put in another bin.
Relax_once(g, r, u, v) ==
    LET new == r.dist[u] + g.w[<<u, v>>]
    IN  IF new >= r.dist[v] THEN r
        ELSE [dist |-> [r.dist EXCEPT ![v] = new],
              bins |-> IF r.dist[v] = Infinity THEN Append(r.bins, <<new \div Delta, v>>) ELSE r.bins]

(* The edge u -> v is relaxed: a better distance puts v in its bin, as     *)
(* often as the distance improves.  The bins are one list of <<bin, v>>.   *)
Relax(g, r, u, v) ==
    LET new == r.dist[u] + g.w[<<u, v>>]
    IN  IF new >= r.dist[v] THEN r
        ELSE [dist |-> [r.dist EXCEPT ![v] = new],
              bins |-> Append(r.bins, <<new \div Delta, v>>)]

(* The next bin is copied, with its repetitions, in the array of the       *)
(* frontier, which has room for as many vertices as the graph has edges;   *)
(* the source is there from the start.  A frontier with no room is written *)
(* outside of the array: there is no definite result from there on.        *)
do_sssp(g, source, room) ==
    LET explore(bin, r, u) ==
            IF r.dist[u] >= Delta * bin
            THEN FoldLeft(LAMBDA q, v : Relax(g, q, u, v), r, InOrder(g.out[u])) ELSE r
        RECURSIVE Step(_, _, _)
        Step(r, bin, frontier) ==
            LET q == Now(FoldLeft(LAMBDA x, u : explore(bin, x, u), r, frontier))
                later == {b[1] : b \in Range(q.bins)} \ (0 .. bin - 1)
                next == Min(later)
                chosen == SelectSeq(q.bins, LAMBDA b : b[1] = next)
            IN  IF Len(frontier) > room THEN {}
                ELSE IF later = {} THEN {q.dist}
                ELSE Step([q EXCEPT !.bins = SelectSeq(@, LAMBDA b : b[1] # next)], next,
                          [i \in DOMAIN chosen |-> chosen[i][2]])
    IN  Step(Now([dist |-> [v \in g.ids |-> IF v = source THEN 0 ELSE Infinity], bins |-> <<>>]),
             0, <<source>>)

-----------------------------------------------------------------------------
(* The scores of the vertices with their external identifiers, as written  *)
(* in the file of the results; negative distances become the maximum.      *)
Saved(pairs) ==
    LET rows == Now(pairs)
    IN  [x \in {p[1] : p \in rows} |-> (CHOOSE p \in rows : p[1] = x)[2]]
NonNegative(f) == [x \in DOMAIN f |-> IF f[x] < 0 THEN MaxValue ELSE f[x]]

=============================================================================
