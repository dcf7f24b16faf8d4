---------------------------- MODULE ParallelWCC ----------------------------
(***************************************************************************)
(* The weakly connected components of CSR::do_wcc (library/baseline/       *)
(* csr.cpp), the algorithm of Shiloach and Vishkin that most drivers copy  *)
(* from the GAP Benchmark Suite, at the level of the threads of its        *)
(* parallel loops.                                                         *)
(*                                                                         *)
(* comp[] is a plain array: the threads read and write its elements with   *)
(* no lock and no atomic operation.  Each access to the element of another *)
(* thread is a step of its own; what follows a read may use a stale value. *)
(* A loop hands out its iterations in order, one at a time (in the code 64 *)
(* at a time), and ends with a barrier.                                    *)
(***************************************************************************)
EXTENDS Integers, FiniteSets

CONSTANTS
    N,          \* m_num_vertices
    Threads,    \* the threads of OpenMP
    Graphs      \* the graphs: the outgoing arcs of each vertex

V == 0 .. N - 1

ASSUME GraphAssumption == N \in Nat /\ Graphs \subseteq [V -> SUBSET V]

VARIABLES
    out,        \* the graph, never changed
    comp,       \* the component of each vertex
    change,     \* whether this round has hooked a component
    phase,      \* where the master is: test, hook, compress, return or timeout
    next,       \* the next iteration of the current loop
    pc,         \* where each thread is
    u, v,       \* its iteration and the neighbour at hand
    rest,       \* the neighbours left
    comp_u, comp_v

shared == <<out, comp, change, phase, next>>
local == <<u, v, rest, comp_u, comp_v>>
vars == <<shared, pc, local>>

High(t) == IF comp_u[t] > comp_v[t] THEN comp_u[t] ELSE comp_v[t]
Low(t) == IF comp_u[t] > comp_v[t] THEN comp_v[t] ELSE comp_u[t]

Init ==
    /\ out \in Graphs
    /\ comp = [n \in V |-> n]
    /\ change = TRUE /\ phase = "test" /\ next = 0
    /\ pc = [t \in Threads |-> "idle"]
    /\ u = [t \in Threads |-> 0] /\ v = [t \in Threads |-> 0]
    /\ rest = [t \in Threads |-> {}]
    /\ comp_u = [t \in Threads |-> 0] /\ comp_v = [t \in Threads |-> 0]

-----------------------------------------------------------------------------
(* while (change && !timer.is_timeout()) { change = false; *)
Test ==
    /\ phase = "test"
    /\ \/ ~ change /\ phase' = "return" /\ UNCHANGED change
       \/ change /\ phase' = "timeout" /\ UNCHANGED change
       \/ change /\ phase' = "hook" /\ change' = FALSE
    /\ next' = 0
    /\ UNCHANGED <<out, comp, pc, local>>

\* Mutant: the threads do not wait for each other at the end of a loop.
Barrier_nowait ==
    /\ phase \in {"hook", "compress"}
    /\ next = N
    /\ phase' = IF phase = "hook" THEN "compress" ELSE "test"
    /\ next' = 0
    /\ UNCHANGED <<out, comp, change, pc, local>>

(* The end of a parallel loop: all threads have finished. *)
Barrier ==
    /\ phase \in {"hook", "compress"}
    /\ next = N /\ \A t \in Threads : pc[t] = "idle"
    /\ phase' = IF phase = "hook" THEN "compress" ELSE "test"
    /\ next' = 0
    /\ UNCHANGED <<out, comp, change, pc, local>>

(* The next iteration of the loop. *)
Fetch(t) ==
    /\ phase \in {"hook", "compress"}
    /\ pc[t] = "idle" /\ next < N
    /\ next' = next + 1
    /\ u' = [u EXCEPT ![t] = next]
    /\ rest' = [rest EXCEPT ![t] = IF phase = "hook" THEN out[next] ELSE {}]
    /\ pc' = [pc EXCEPT ![t] = IF phase = "hook" THEN "arc" ELSE "read"]
    /\ UNCHANGED <<out, comp, change, phase, v, comp_u, comp_v>>

-----------------------------------------------------------------------------
(* The first loop.  The next arc, and comp_u = comp[u] ...                 *)
ReadU(t) ==
    /\ pc[t] = "arc" /\ rest[t] # {}
    /\ \E w \in rest[t] : /\ \A x \in rest[t] : w <= x
                          /\ v' = [v EXCEPT ![t] = w]
                          /\ rest' = [rest EXCEPT ![t] = @ \ {w}]
    /\ comp_u' = [comp_u EXCEPT ![t] = comp[u[t]]]
    /\ pc' = [pc EXCEPT ![t] = "readv"]
    /\ UNCHANGED <<shared, u, comp_v>>

LastArc(t) ==
    /\ pc[t] = "arc" /\ rest[t] = {}
    /\ pc' = [pc EXCEPT ![t] = "idle"]
    /\ UNCHANGED <<shared, local>>

\* Mutant: without `if (comp_u == comp_v) continue'.
ReadV_noskip(t) ==
    /\ pc[t] = "readv"
    /\ comp_v' = [comp_v EXCEPT ![t] = comp[v[t]]]
    /\ pc' = [pc EXCEPT ![t] = "check"]
    /\ UNCHANGED <<shared, u, v, rest, comp_u>>

(* ... comp_v = comp[v], if (comp_u == comp_v) continue ...                *)
ReadV(t) ==
    /\ pc[t] = "readv"
    /\ comp_v' = [comp_v EXCEPT ![t] = comp[v[t]]]
    /\ pc' = [pc EXCEPT ![t] = IF comp_u[t] = comp[v[t]] THEN "arc" ELSE "check"]
    /\ UNCHANGED <<shared, u, v, rest, comp_u>>

(* ... if (high_comp == comp[high_comp]) ...                               *)
Check(t) ==
    /\ pc[t] = "check"
    /\ pc' = [pc EXCEPT ![t] = IF comp[High(t)] = High(t) THEN "hook" ELSE "arc"]
    /\ UNCHANGED <<shared, local>>

(* ... change = true; comp[high_comp] = low_comp                           *)
Hook(t) ==
    /\ pc[t] = "hook"
    /\ change' = TRUE
    /\ comp' = [comp EXCEPT ![High(t)] = Low(t)]
    /\ pc' = [pc EXCEPT ![t] = "arc"]
    /\ UNCHANGED <<out, phase, next, local>>

-----------------------------------------------------------------------------
(* The second loop: while (comp[n] != comp[comp[n]]) ...                   *)
ReadParent(t) ==
    /\ pc[t] = "read"
    /\ comp_v' = [comp_v EXCEPT ![t] = comp[comp[u[t]]]]
    /\ pc' = [pc EXCEPT ![t] = IF comp[u[t]] = comp[comp[u[t]]] THEN "idle" ELSE "jump"]
    /\ UNCHANGED <<shared, u, v, rest, comp_u>>

(* ... comp[n] = comp[comp[n]], with the value just read or read again.    *)
Jump(t) ==
    /\ pc[t] = "jump"
    /\ \E c \in {comp_v[t], comp[comp[u[t]]]} : comp' = [comp EXCEPT ![u[t]] = c]
    /\ pc' = [pc EXCEPT ![t] = "read"]
    /\ UNCHANGED <<out, change, phase, next, local>>

Step(t) ==
    \/ Fetch(t) \/ ReadU(t) \/ LastArc(t) \/ ReadV(t) \/ Check(t) \/ Hook(t)
    \/ ReadParent(t) \/ Jump(t)

Next == Test \/ Barrier \/ \E t \in Threads : Step(t)

(* The operating system runs every thread of the loop. *)
Spec == Init /\ [][Next]_vars /\ WF_vars(Test \/ Barrier) /\ \A t \in Threads : WF_vars(Step(t))

-----------------------------------------------------------------------------
(* The values of the variables. *)
TypeOK ==
    /\ out \in [V -> SUBSET V] /\ comp \in [V -> V] /\ change \in BOOLEAN
    /\ phase \in {"test", "hook", "compress", "return", "timeout"} /\ next \in 0 .. N
    /\ pc \in [Threads -> {"idle", "arc", "readv", "check", "hook", "read", "jump"}]
    /\ u \in [Threads -> Int] /\ v \in [Threads -> Int] /\ rest \in [Threads -> SUBSET V]
    /\ comp_u \in [Threads -> Int] /\ comp_v \in [Threads -> Int]

(* Two vertices are connected, by arcs in any direction, when no set that  *)
(* the arcs do not leave, nor enter, tells them apart.                     *)
Closed(S) == \A a \in V : \A b \in out[a] : a \in S <=> b \in S
Connected(a, b) == \A S \in SUBSET V : Closed(S) => (a \in S <=> b \in S)

(* Whatever the threads overwrite of each other, do_wcc returns when two   *)
(* vertices have the same value if and only if they are connected: an arc  *)
(* whose hook was lost is found again in a later round.                    *)
ComponentsExact ==
    phase = "return" => \A a, b \in V : comp[a] = comp[b] <=> Connected(a, b)

(* The rounds end, although a thread may replace the hook of another one   *)
(* with a worse one.                                                       *)
Converges == <>(phase \in {"return", "timeout"})
=============================================================================
