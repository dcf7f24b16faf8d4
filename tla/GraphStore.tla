----------------------------- MODULE GraphStore -----------------------------
(***************************************************************************)
(* What a library promises to the threads that invoke it concurrently      *)
(* (library/interface.hpp): each call takes effect at once, at some point  *)
(* between its invocation and its return, on one graph shared by all, and  *)
(* answers for the graph it found there.  The weights are left out.        *)
(***************************************************************************)
EXTENDS Integers

CONSTANTS
    Threads,     \* the threads that invoke the library
    Requests     \* the calls: operation, endpoints, weight

VARIABLES
    directed,    \* whether the graph is directed
    status,      \* where each thread is: idle, pending or done
    request,     \* its last call
    answer,      \* and the answer of the library, once done
    vertices,    \* the graph
    edges

storeVars == <<directed, status, request, answer, vertices, edges>>

(* An edge u -> v is stored in both directions if the graph is undirected. *)
Arcs(r) == {<<r.src, r.dst>>} \cup IF directed THEN {} ELSE {<<r.dst, r.src>>}
Stored(r) == <<r.src, r.dst>> \in edges

StoreInit ==
    /\ directed \in BOOLEAN
    /\ status = [t \in Threads |-> "idle"]
    /\ request \in [Threads -> Requests]
    /\ answer = [t \in Threads |-> FALSE]
    /\ vertices = {} /\ edges = {}

Call(t, r) ==
    /\ status[t] = "idle"
    /\ status' = [status EXCEPT ![t] = "pending"]
    /\ request' = [request EXCEPT ![t] = r]
    /\ UNCHANGED <<directed, answer, vertices, edges>>

(* Insert the edge, and its endpoints with it. *)
Insert(r) ==
    /\ edges' = edges \cup Arcs(r)
    /\ vertices' = vertices \cup {r.src, r.dst}

(* What a call does to the graph, and the answer it gets.  add_edge_v2     *)
(* answers whether the edge is new, as interface.hpp:232 says and the code *)
(* does (gtx_driver.hpp:118 has "always true"); add_edge_v3 and            *)
(* update_edge_v1 always answer true, as the code does (interface.hpp:238  *)
(* has "false otherwise (e.g. this edge already exists)").                 *)
Perform(r, result) ==
    \/ /\ r.op = "add_vertex" /\ result = (r.src \notin vertices)
       /\ vertices' = vertices \cup {r.src} /\ UNCHANGED edges
    \/ /\ r.op = "add_edge" /\ result = ({r.src, r.dst} \subseteq vertices /\ ~ Stored(r))
       /\ IF result THEN Insert(r) ELSE UNCHANGED <<vertices, edges>>
    \/ /\ r.op = "add_edge_v2" /\ result = ~ Stored(r)
       /\ Insert(r)
    \/ /\ r.op \in {"add_edge_v3", "update_edge_v1"} /\ result = TRUE
       /\ Insert(r)
    \/ /\ r.op = "remove_edge" /\ result = Stored(r)
       /\ edges' = edges \ Arcs(r) /\ UNCHANGED vertices
    \/ /\ r.op = "get_weight" /\ result = Stored(r)
       /\ UNCHANGED <<vertices, edges>>

Effect(t) ==
    /\ status[t] = "pending"
    /\ status' = [status EXCEPT ![t] = "done"]
    /\ \E result \in BOOLEAN : /\ Perform(request[t], result)
                               /\ answer' = [answer EXCEPT ![t] = result]
    /\ UNCHANGED <<directed, request>>

Respond(t) ==
    /\ status[t] = "done"
    /\ status' = [status EXCEPT ![t] = "idle"]
    /\ answer' = [answer EXCEPT ![t] = FALSE]
    /\ UNCHANGED <<directed, request, vertices, edges>>

StoreNext == \E t \in Threads : (\E r \in Requests : Call(t, r)) \/ Effect(t) \/ Respond(t)

StoreSpec == StoreInit /\ [][StoreNext]_storeVars
=============================================================================
