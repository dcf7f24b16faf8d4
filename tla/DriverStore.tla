---------------------------- MODULE DriverStore ----------------------------
(***************************************************************************)
(* What the drivers of the graph libraries keep: the dictionary from the   *)
(* external to the internal identifiers of the vertices (dict), the        *)
(* external identifier of each internal one (data), the arcs with their    *)
(* weight (edges), and the counters of the driver.  The libraries are      *)
(* external: put_edge and del_edge are modelled from the calls.  An        *)
(* operation of a driver runs here in one step, as a transaction that is   *)
(* retried until it commits, and returns the new store and its result.     *)
(***************************************************************************)
EXTENDS GapKernels, Functions, TLC

Deleted == -1

Empty(directed) == [directed |-> directed, dict |-> <<>>, data |-> <<>>, edges |-> <<>>,
                    num_vertices |-> 0, num_edges |-> 0]

Returns(s, result) == [store |-> s, result |-> result]
Without(f, S) == Restrict(f, DOMAIN f \ S)

Known(s, x) == x \in DOMAIN s.dict
Arc(s, u, v) == <<s.dict[u], s.dict[v]>>
HasArc(s, u, v) == Known(s, u) /\ Known(s, v) /\ Arc(s, u, v) \in DOMAIN s.edges
WeightOf(s, u, v) == IF HasArc(s, u, v) THEN {s.edges[Arc(s, u, v)]} ELSE {}  \* {}: NaN

(* An edge, with the opposite one of an undirected graph. *)
Arcs(s, u, v) == {Arc(s, u, v)} \cup IF s.directed THEN {} ELSE {Arc(s, v, u)}
put_edge(s, u, v, w) == [s EXCEPT !.edges = [a \in Arcs(s, u, v) |-> w] @@ @]
del_edge(s, u, v) == [s EXCEPT !.edges = Without(@, Arcs(s, u, v))]

(* A new vertex takes the next internal identifier, starting from first. *)
Create(s, x, first) ==
    IF Known(s, x) THEN s
    ELSE [s EXCEPT !.dict = (x :> Len(s.data) + first) @@ @, !.data = Append(@, x),
                   !.num_vertices = @ + 1]

(* The vertices that a kernel sees when the identifiers start from first. *)
SlotsFrom(s, first) == first .. Len(s.data) + first - 1
Neighbours(s, slots, n) == {m \in slots : <<n, m>> \in DOMAIN s.edges}
Snapshot(s, first) ==
    LET slots == SlotsFrom(s, first)
        out == Now([n \in slots |-> Neighbours(s, slots, n)])
    IN  Now([directed |-> s.directed, ids |-> slots,
             live |-> {n \in slots : s.data[n - first + 1] # Deleted},
             out |-> out, inn |-> [n \in slots |-> {m \in slots : n \in out[m]}], w |-> s.edges])
External(s, first, values) ==
    Saved({<<s.data[n - first + 1], values[n]>> : n \in Snapshot(s, first).live})

(* The sums of the degrees and of the weights. *)
DegreeSum(s) == Cardinality(DOMAIN s.edges)
WeightSum(s) == MapThenSumSet(LAMBDA a : s.edges[a], DOMAIN s.edges)
=============================================================================
