------------------------------- MODULE Client -------------------------------
(***************************************************************************)
(* The client (network/client.cpp), an implementation of the library that  *)
(* forwards each call to the server.  A thread has its own connection,     *)
(* chosen by the thread-local m_worker_id and opened by on_thread_init;    *)
(* the connection 0 belongs to the main thread and to the worker 0.        *)
(*                                                                         *)
(* The threads call it like the experiments do: on_main_init, the workers  *)
(* from on_thread_init to on_thread_destroy, in one or more rounds with    *)
(* the main thread waiting for them, calls by the main thread, and the     *)
(* destructor.  The process of the client may be killed at any time.       *)
(***************************************************************************)
EXTENDS Server

CONSTANTS
    Workers,              \* the thread ids of the workers
    MaxNumConnections,    \* max_num_connections
    WorkerCalls, MainCalls, \* the types of their requests
    MaxCalls,             \* bound: the requests of a thread
    MaxRounds             \* bound: the times that the workers are started

Main == -1

ASSUME ClientAssumption ==
    /\ MaxNumConnections \in Nat \ {0} /\ Workers \subseteq 0 .. MaxNumConnections - 1
    /\ MaxCalls \in Nat /\ MaxRounds \in Nat
    /\ WorkerCalls \cup MainCalls \subseteq RequestType \ Controls
    /\ Threads = Workers \cup {Main}

VARIABLES
    pc, m_worker_id,
    m_connections,    \* the socket of each connection, 0 if it is closed
    waiting,          \* the request that each thread has sent
    result,           \* of its last call
    calls, rounds

clientVars == <<pc, m_worker_id, m_connections, waiting, result, calls, rounds>>
clientRest == <<m_worker_id, m_connections, waiting, result, calls, rounds>>
serverRest == <<m_server_stop, m_terminate_on_last_connection, m_num_active_connections,
                loop, request, truth, signalled>>

ClientInit ==
    /\ pc = [t \in Threads |-> IF t = Main THEN "construct" ELSE "off"]
    /\ m_worker_id = [t \in Threads |-> 0]
    /\ m_connections = [i \in 0 .. MaxNumConnections - 1 |-> 0]
    /\ waiting = [t \in Threads |-> "none"]
    /\ result = [t \in Threads |-> Void]
    /\ calls = [t \in Threads |-> 0] /\ rounds = 0

Jump(t, label) == pc' = [pc EXCEPT ![t] = label]
Socket(t) == m_connections[m_worker_id[t]]
Unused == {s \in Sockets : peer[s] = "none"}

-----------------------------------------------------------------------------
(* connect, for the connection i of the thread t: it fails if the server   *)
(* does not listen any more; the server may accept it later.               *)
Connect(t, i, next) ==
    \/ /\ m_connections[i] # 0
       /\ Jump(t, next)
       /\ UNCHANGED <<m_connections, peer, handler>>
    \/ /\ m_connections[i] = 0 /\ Listening
       /\ \E s \in Unused :
             /\ \A r \in Unused : s <= r
             /\ m_connections' = [m_connections EXCEPT ![i] = s]
             /\ peer' = [peer EXCEPT ![s] = "open"]
             /\ handler' = [handler EXCEPT ![s] = "backlog"]
       /\ Jump(t, next)
    \/ /\ m_connections[i] = 0 /\ ~ Listening
       /\ Jump(t, "failed")
       /\ UNCHANGED <<m_connections, peer, handler>>

Construct ==
    /\ pc[Main] = "construct"
    /\ Connect(Main, 0, "main_init")
    /\ UNCHANGED <<m_worker_id, waiting, result, calls, rounds, serverRest, requests, responses, cut>>

\* Mutant: the connection is opened before the thread has its id.
OnThreadInit_late(t) ==
    /\ pc[t] = "thread_init"
    /\ Connect(t, m_worker_id[t], "hello")
    /\ UNCHANGED <<m_worker_id, waiting, result, calls, rounds, serverRest, requests, responses, cut>>

OnThreadInit(t) ==
    /\ pc[t] = "thread_init"
    /\ m_worker_id' = [m_worker_id EXCEPT ![t] = t]
    /\ Connect(t, t, "hello")
    /\ UNCHANGED <<waiting, result, calls, rounds, serverRest, requests, responses, cut>>

(* request: what a thread may send, at each point of its script. *)
RequestsAt(t) ==
    CASE pc[t] = "main_init"      -> {"ON_MAIN_INIT"}
      [] pc[t] = "on_exit"        -> {"TERMINATE_ON_LAST_CONNECTION"}
      [] pc[t] = "hello"          -> {"ON_THREAD_INIT"}
      [] pc[t] = "work"           -> IF calls[t] < MaxCalls THEN WorkerCalls ELSE {}
      [] pc[t] = "analyse"        -> IF calls[t] < MaxCalls THEN MainCalls ELSE {}
      [] pc[t] = "thread_destroy" -> {"ON_THREAD_DESTROY"}
      [] pc[t] = "main_destroy"   -> {"ON_MAIN_DESTROY"}
      [] pc[t] = "terminate"      -> {"TERMINATE_WORKER"}
      [] OTHER                    -> {}

Send(t) ==
    /\ waiting[t] = "none"
    /\ \E type \in RequestsAt(t) :
          /\ requests' = [requests EXCEPT ![Socket(t)] = Append(@, [type |-> type, from |-> t])]
          /\ waiting' = [waiting EXCEPT ![t] = type]
    /\ UNCHANGED <<pc, m_worker_id, m_connections, result, calls, rounds, serverVars, peer, responses, cut>>

(* disconnect, for a set of connections. *)
Disconnect(C) ==
    /\ m_connections' = [i \in DOMAIN m_connections |-> IF i \in C THEN 0 ELSE m_connections[i]]
    /\ peer' = [s \in Sockets |-> IF \E i \in C : m_connections[i] = s THEN "closed" ELSE peer[s]]

(* on_thread_destroy, after its first response: only a connection of its   *)
(* own is closed.                                                          *)
OwnsConnection(t) == t = m_worker_id[t] /\ m_worker_id[t] > 0

AfterResponse(t) ==
    CASE pc[t] = "main_init"      -> "on_exit"
      [] pc[t] = "on_exit"        -> "spawn"
      [] pc[t] = "hello"          -> "work"
      [] pc[t] = "thread_destroy" -> IF OwnsConnection(t) THEN "terminate" ELSE "off"
      [] pc[t] = "main_destroy"   -> "terminate"
      [] pc[t] = "terminate"      -> IF t = Main THEN "end" ELSE "off"
      [] OTHER                    -> pc[t]

(* wait_response, and the rest of the method. *)
Receive(t) ==
    /\ waiting[t] # "none" /\ responses[Socket(t)] # <<>>
    /\ result' = [result EXCEPT ![t] = Result(waiting[t], Head(responses[Socket(t)]))]
    /\ responses' = [responses EXCEPT ![Socket(t)] = Tail(@)]
    /\ waiting' = [waiting EXCEPT ![t] = "none"]
    /\ calls' = [calls EXCEPT ![t] = IF pc[t] \in {"work", "analyse"} THEN @ + 1 ELSE @]
    /\ Jump(t, AfterResponse(t))
    /\ m_worker_id' = [m_worker_id EXCEPT ![t] = IF AfterResponse(t) = "off" THEN 0 ELSE @]
    /\ IF pc[t] = "terminate"
         THEN Disconnect(IF t = Main THEN DOMAIN m_connections ELSE {m_worker_id[t]})
         ELSE UNCHANGED <<m_connections, peer>>
    /\ UNCHANGED <<rounds, serverVars, requests, cut>>

(* The connection was reset: an exception. *)
ReceiveFails(t) ==
    /\ waiting[t] # "none" /\ responses[Socket(t)] = <<>> /\ handler[Socket(t)] = "reset"
    /\ waiting' = [waiting EXCEPT ![t] = "none"]
    /\ Jump(t, "failed")
    /\ UNCHANGED <<m_worker_id, m_connections, result, calls, rounds, serverVars, socketVars>>

-----------------------------------------------------------------------------
(* The program that uses the client *)

(* terminate_server_on_exit is optional. *)
SkipOnExit ==
    /\ pc[Main] = "on_exit" /\ waiting[Main] = "none"
    /\ Jump(Main, "spawn")
    /\ UNCHANGED <<clientRest, serverVars, socketVars>>

Spawn ==
    /\ pc[Main] = "spawn" /\ rounds < MaxRounds
    /\ pc' = [t \in Threads |-> IF t = Main THEN "join" ELSE "thread_init"]
    /\ calls' = [t \in Threads |-> 0]
    /\ rounds' = rounds + 1
    /\ UNCHANGED <<m_worker_id, m_connections, waiting, result, serverVars, socketVars>>

Join ==
    /\ pc[Main] = "join" /\ \A t \in Workers : pc[t] = "off"
    /\ \/ Jump(Main, "spawn") /\ rounds < MaxRounds
       \/ Jump(Main, "analyse")
    /\ UNCHANGED <<clientRest, serverVars, socketVars>>

Finish(t) ==
    /\ waiting[t] = "none"
    /\ \/ pc[t] = "work" /\ Jump(t, "thread_destroy")
       \/ pc[t] = "analyse" /\ Jump(t, "main_destroy")
    /\ UNCHANGED <<clientRest, serverVars, socketVars>>

(* The process is killed, maybe in the middle of a batch, larger than the  *)
(* buffers of the connection.                                              *)
Unread(s) == requests[s] # <<>> /\ Head(requests[s]).type \in Batches
Kill ==
    /\ pc[Main] \notin {"construct", "end", "killed"}
    /\ pc' = [t \in Threads |-> "killed"]
    /\ waiting' = [t \in Threads |-> "none"]
    /\ peer' = [s \in Sockets |-> IF peer[s] = "open" THEN "closed" ELSE peer[s]]
    /\ \E C \in SUBSET {s \in Sockets : peer[s] = "open" /\ Unread(s)} :
          cut' = [s \in Sockets |-> s \in C]
    /\ UNCHANGED <<m_worker_id, m_connections, result, calls, rounds, serverVars, requests, responses>>

ThreadStep(t) ==
    OnThreadInit(t) \/ Send(t) \/ Receive(t) \/ ReceiveFails(t) \/ Finish(t)
MainStep == Construct \/ SkipOnExit \/ Spawn \/ Join
=============================================================================
