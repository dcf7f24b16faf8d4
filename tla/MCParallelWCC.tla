--------------------------- MODULE MCParallelWCC ---------------------------
(* ParallelWCC for TLC: two threads, on every undirected graph (each edge  *)
(* is two arcs) and on a few directed ones.                                *)
EXTENDS ParallelWCC

Pairs == {p \in V \X V : p[1] < p[2]}
Undirected(edges) == [a \in V |-> {b \in V : <<a, b>> \in edges \/ <<b, a>> \in edges}]
Directed(edges) == [a \in V |-> {b \in V : <<a, b>> \in edges}]
(* A path whose ends are the smallest vertices, a star whose centre is the *)
(* largest one, and its reverse.                                           *)
Path == {<<0, 3>>, <<3, 2>>, <<2, 1>>}
Star == {<<3, 0>>, <<3, 1>>, <<3, 2>>}
Rays == {<<0, 3>>, <<1, 3>>, <<2, 3>>}
MCGraphs == {Undirected(edges) : edges \in SUBSET Pairs}
            \cup {Directed(edges) : edges \in {Path, Star, Rays}}
=============================================================================
