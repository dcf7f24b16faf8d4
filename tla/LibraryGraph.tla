---------------------------- MODULE LibraryGraph ----------------------------
(***************************************************************************)
(* What library/interface.hpp promises to one thread that invokes the      *)
(* updates of a library: a graph, with weights, and the answer of the last *)
(* call.  One action for each function; a library implements them if each  *)
(* of its calls is a step of the action of that function.  (GraphStore has *)
(* the calls of many threads, without weights.)                            *)
(***************************************************************************)
EXTENDS Integers, Functions, TLC

CONSTANT Identifiers

VARIABLES
    directed,
    V,         \* the vertices
    W,         \* the weight of each arc; those of an undirected graph are in pairs
    answer     \* what the last update returned

graphVars == <<directed, V, W, answer>>

Both(u, v) == {<<u, v>>} \cup IF directed THEN {} ELSE {<<v, u>>}

GraphInit ==
    /\ directed \in BOOLEAN /\ answer \in BOOLEAN
    /\ V \subseteq Identifiers
    /\ DOMAIN W \subseteq V \X V
    /\ \A a \in DOMAIN W : Both(a[1], a[2]) \subseteq DOMAIN W

AddVertex(x) ==
    /\ V' = V \cup {x} /\ answer' = (x \notin V)
    /\ UNCHANGED <<directed, W>>

(* The vertex goes with its edges, in a library that is able to remove it. *)
RemoveVertex(x, able) ==
    /\ answer' = (able /\ x \in V)
    /\ V' = IF answer' THEN V \ {x} ELSE V
    /\ W' = IF answer' THEN Restrict(W, {a \in DOMAIN W : x \notin {a[1], a[2]}}) ELSE W
    /\ UNCHANGED directed

(* The endpoints have to exist, or are created. *)
AddEdge(u, v, w, create) ==
    /\ answer' = (<<u, v>> \notin DOMAIN W /\ (create \/ {u, v} \subseteq V))
    /\ V' = IF create THEN V \cup {u, v} ELSE V
    /\ W' = IF answer' THEN [a \in Both(u, v) |-> w] @@ W ELSE W
    /\ UNCHANGED directed

(* Add or update the edge; or add the weight to the one it has.  The       *)
(* answer is the one of the default of interface.hpp:240, and of the       *)
(* drivers: always true, also if the edge existed.                         *)
PutEdge(u, v, w, sum) ==
    /\ answer' = TRUE /\ V' = V \cup {u, v}
    /\ LET old == IF sum /\ <<u, v>> \in DOMAIN W THEN W[<<u, v>>] ELSE 0
       IN  W' = [a \in Both(u, v) |-> old + w] @@ W
    /\ UNCHANGED directed

RemoveEdge(u, v) ==
    /\ answer' = (<<u, v>> \in DOMAIN W)
    /\ W' = Restrict(W, DOMAIN W \ Both(u, v))
    /\ UNCHANGED <<directed, V>>
=============================================================================
