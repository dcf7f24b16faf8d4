---------------------------- MODULE Graphalytics ----------------------------
(***************************************************************************)
(* What the six kernels of LDBC Graphalytics compute, on the graph as the  *)
(* user of the library sees it: the reference for the kernels of the       *)
(* drivers.  A graph is a record with the set V of its vertices and the    *)
(* function W that gives the weight of each arc <<u, v>>; an edge of an    *)
(* undirected graph is a pair of arcs.                                     *)
(*                                                                         *)
(* Scores are rational numbers.  PageRank is computed in units of 1/Unit,  *)
(* with a damping factor of 1/2: Unit is a multiple of every denominator   *)
(* that the graphs and the iterations of the model produce.  A local       *)
(* clustering coefficient is the pair of its numerator and denominator.    *)
(***************************************************************************)
EXTENDS Integers, FiniteSets, FiniteSetsExt

CONSTANTS
    Unit,        \* 1.0, as a PageRank score
    MaxValue     \* numeric_limits<T>::max(), infinity: more than any value computed

(* The value v, which TLC evaluates here and once. *)
Now(v) == CHOOSE x \in {v} : x = v

Out(G, u) == {v \in G.V : <<u, v>> \in DOMAIN G.W}
In(G, u) == {v \in G.V : <<v, u>> \in DOMAIN G.W}
Adjacent(G, u) == Out(G, u) \cup In(G, u)

(* The vertices at distance at most k from the source. *)
Within(G, source) ==
    LET ball[k \in 0 .. Cardinality(G.V)] ==
            IF k = 0 THEN {source}
            ELSE LET nearer == Now(ball[k - 1]) IN nearer \cup UNION {Out(G, u) : u \in nearer}
    IN  ball

(* Breadth-first search: the number of hops from the source. *)
Hops(G, source) ==
    LET ball == Within(G, source)
        balls == Now([k \in DOMAIN ball |-> ball[k]])
        reach(v) == {k \in DOMAIN balls : v \in balls[k]}
    IN  [v \in G.V |-> IF reach(v) = {} THEN MaxValue ELSE Min(reach(v))]

(* Single-source shortest paths: the least weight of a path of at most k   *)
(* arcs, for k up to the number of vertices.                               *)
PathWeight(G, source) ==
    LET least[k \in 0 .. Cardinality(G.V)] ==
            IF k = 0 THEN [v \in G.V |-> IF v = source THEN 0 ELSE MaxValue]
            ELSE LET shorter == Now(least[k - 1])
                 IN  [v \in G.V |->
                        Min({shorter[v]} \cup
                            {shorter[u] + G.W[<<u, v>>] :
                                u \in {x \in In(G, v) : shorter[x] # MaxValue}})]
    IN  least[Cardinality(G.V)]

(* Weakly connected components: the vertices linked to u by a path,        *)
(* whatever the direction of its arcs.                                     *)
Component(G, u) ==
    LET reached[k \in 0 .. Cardinality(G.V)] ==
            IF k = 0 THEN {u}
            ELSE LET nearer == Now(reached[k - 1]) IN nearer \cup UNION {Adjacent(G, x) : x \in nearer}
    IN  reached[Cardinality(G.V)]

(* Community detection by label propagation: at every iteration a vertex   *)
(* takes the most frequent label among its neighbours, the smallest of     *)
(* them in a tie; an edge in both directions counts twice.                 *)
Votes(G, label, v, l) ==
    Cardinality({u \in Out(G, v) : label[u] = l}) + Cardinality({u \in In(G, v) : label[u] = l})
Popular(G, label, v) ==
    LET labels == {label[u] : u \in Adjacent(G, v)}
        top == {l \in labels : \A m \in labels : Votes(G, label, v, m) <= Votes(G, label, v, l)}
    IN  Min(top)
Communities(G, iterations) ==
    LET label[k \in 0 .. iterations] ==
            IF k = 0 THEN [v \in G.V |-> v]
            ELSE LET old == Now(label[k - 1])
                 IN  [v \in G.V |-> IF Adjacent(G, v) = {} THEN old[v] ELSE Popular(G, old, v)]
    IN  label[iterations]

(* Local clustering coefficient: the arcs among the neighbours of v, over  *)
(* the arcs there could be; zero with fewer than two neighbours.           *)
Zero == <<0, 1>>
Clustering(G, v) ==
    LET N == Adjacent(G, v) \ {v}
        n == Cardinality(N)
    IN  IF n < 2 THEN Zero
                 ELSE <<Cardinality({a \in DOMAIN G.W : a[1] \in N /\ a[2] \in N}), n * (n - 1)>>

(* Two rationals, as pairs, are equal. *)
SameScore(x, y) == x[1] * y[2] = y[1] * x[2]

(* PageRank, with the rank of the vertices without outgoing arcs shared    *)
(* among all.                                                              *)
Ranks(G, iterations) ==
    LET n == Cardinality(G.V)
        rank[k \in 0 .. iterations] ==
            IF k = 0 THEN [v \in G.V |-> Unit \div n]
            ELSE LET old == Now(rank[k - 1])
                     dangling == MapThenSumSet(LAMBDA u : old[u], {u \in G.V : Out(G, u) = {}})
                     received(v) == MapThenSumSet(LAMBDA u : old[u] \div Cardinality(Out(G, u)), In(G, v))
                 IN  [v \in G.V |-> (Unit \div n + received(v) + dangling \div n) \div 2]
    IN  rank[iterations]

=============================================================================
