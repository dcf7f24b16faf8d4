------------------------------- MODULE Server -------------------------------
(***************************************************************************)
(* The server (network/server.cpp): a loop that accepts the connections,   *)
(* each served by a detached thread, its ConnectionHandler.                *)
(*                                                                         *)
(* A socket is a connection, with the requests and the responses that      *)
(* nobody has read yet.  The library answers with any of the outcomes in   *)
(* Outcomes[type]; `truth' remembers the last one for each thread of the   *)
(* client.                                                                 *)
(***************************************************************************)
EXTENDS Message

CONSTANTS
    Threads,        \* the threads of the client
    MaxSockets,     \* bound: the connections opened during a behaviour
    Outcomes        \* what the library may do, for each type of request

ASSUME ServerAssumption == MaxSockets \in Nat

Sockets == 1 .. MaxSockets

VARIABLES
    m_server_stop, m_terminate_on_last_connection, m_num_active_connections,
    loop,           \* where main_loop is: "select", "over", "stopped" or "aborted"
    handler,        \* where the handler of each socket is
    request,        \* the request it has read
    peer,           \* the end of the client: "none", "open" or "closed"
    requests, responses,
    cut,            \* the last request stops in the middle
    truth,
    signalled       \* stop() has been called

socketVars == <<peer, requests, responses, cut>>
serverVars == <<m_server_stop, m_terminate_on_last_connection, m_num_active_connections,
                loop, handler, request, truth, signalled>>

NoRequest == [type |-> "none"]

ServerInit ==
    /\ m_server_stop = FALSE /\ m_terminate_on_last_connection = FALSE
    /\ m_num_active_connections = 0
    /\ loop = "select"
    /\ handler = [s \in Sockets |-> "none"]
    /\ request = [s \in Sockets |-> NoRequest]
    /\ peer = [s \in Sockets |-> "none"]
    /\ requests = [s \in Sockets |-> <<>>] /\ responses = [s \in Sockets |-> <<>>]
    /\ cut = [s \in Sockets |-> FALSE]
    /\ truth = [t \in Threads |-> Void] /\ signalled = FALSE

Backlog == {s \in Sockets : handler[s] = "backlog"}
Goto(s, label) == handler' = [handler EXCEPT ![s] = label]

-----------------------------------------------------------------------------
(* main_loop waits for a connection, for at most a second, and then looks  *)
(* at m_server_stop.                                                       *)
LoopTest(stop, handlers) ==
    /\ m_server_stop' = stop
    /\ loop' = IF stop THEN "over" ELSE "select"
    /\ handler' = handlers
    /\ UNCHANGED <<m_terminate_on_last_connection, m_num_active_connections, request, truth, signalled, socketVars>>

\* Mutant: whether there are active connections or not.
SelectTimeout_active ==
    /\ loop = "select" /\ Backlog = {}
    /\ LoopTest(m_server_stop \/ m_terminate_on_last_connection, handler)

(* The flags are read after select has returned, with no step of another   *)
(* thread in between; select and accept do not fail.                       *)
SelectTimeout ==
    /\ loop = "select" /\ Backlog = {}
    /\ LoopTest(m_server_stop \/ (m_terminate_on_last_connection /\ m_num_active_connections = 0), handler)

Accept(s) ==
    /\ loop = "select" /\ handler[s] = "backlog"
    /\ LoopTest(m_server_stop, [handler EXCEPT ![s] = "accepted"])

(* The destructor closes the socket, which listens until then: the         *)
(* connections that nobody has accepted are reset.                         *)
Listening == loop \in {"select", "over"}
Close ==
    /\ loop = "over"
    /\ loop' = "stopped"
    /\ handler' = [s \in Sockets |-> IF handler[s] = "backlog" THEN "reset" ELSE handler[s]]
    /\ UNCHANGED <<m_server_stop, m_terminate_on_last_connection, m_num_active_connections,
                   request, truth, signalled, socketVars>>

(* stop(), by the handler of the signals. *)
Stop ==
    /\ loop = "select" /\ ~ m_server_stop
    /\ m_server_stop' = TRUE /\ signalled' = TRUE
    /\ UNCHANGED <<m_terminate_on_last_connection, m_num_active_connections, loop, handler, request, truth, socketVars>>

-----------------------------------------------------------------------------
(* ConnectionHandler::execute *)

Start(s) ==
    /\ loop # "aborted" /\ handler[s] = "accepted"
    /\ m_num_active_connections' = m_num_active_connections + 1
    /\ Goto(s, "recv")
    /\ UNCHANGED <<m_server_stop, m_terminate_on_last_connection, loop, request, truth, signalled, socketVars>>

(* If the connection is closed in the middle of a message, read() returns  *)
(* 0 and the loop on the missing bytes never ends.                         *)
ReadRequest(s) ==
    /\ loop # "aborted" /\ handler[s] = "recv" /\ requests[s] # <<>> /\ ~ cut[s]
    /\ request' = [request EXCEPT ![s] = Head(requests[s])]
    /\ requests' = [requests EXCEPT ![s] = Tail(@)]
    /\ Goto(s, "handle")
    /\ UNCHANGED <<m_server_stop, m_terminate_on_last_connection, m_num_active_connections,
                   loop, truth, signalled, peer, responses, cut>>

\* Mutant: the handler returns at once.
EndOfStream_returns(s) ==
    /\ loop # "aborted" /\ handler[s] = "recv" /\ requests[s] = <<>> /\ peer[s] = "closed"
    /\ Goto(s, "gone")
    /\ UNCHANGED <<m_server_stop, m_terminate_on_last_connection, m_num_active_connections,
                   loop, request, truth, signalled, socketVars>>

(* The connection was closed without TERMINATE_WORKER ... *)
EndOfStream(s) ==
    /\ loop # "aborted" /\ handler[s] = "recv" /\ requests[s] = <<>> /\ peer[s] = "closed"
    /\ Goto(s, "leave")
    /\ UNCHANGED <<m_server_stop, m_terminate_on_last_connection, m_num_active_connections,
                   loop, request, truth, signalled, socketVars>>

(* ... or it is reset, because of a response that the client will never    *)
(* read: no one catches the exception.                                     *)
ConnectionReset(s) ==
    /\ loop # "aborted" /\ handler[s] = "recv" /\ requests[s] = <<>> /\ peer[s] = "closed" /\ responses[s] # <<>>
    /\ loop' = "aborted"
    /\ UNCHANGED <<m_server_stop, m_terminate_on_last_connection, m_num_active_connections,
                   handler, request, truth, signalled, socketVars>>

Respond(s, response) == responses' = [responses EXCEPT ![s] = Append(@, response)]

\* Mutant: no response for the operations that fail.
HandleCall_silent(s) ==
    /\ loop # "aborted" /\ handler[s] = "handle" /\ request[s].type \notin Controls
    /\ \E outcome \in Outcomes[request[s].type] :
          /\ truth' = [truth EXCEPT ![request[s].from] = outcome]
          /\ IF outcome \in {Unsupported, Timeout, Error} THEN UNCHANGED responses ELSE Respond(s, Reply(request[s].type, outcome))
    /\ Goto(s, "recv")
    /\ request' = [request EXCEPT ![s] = NoRequest]
    /\ UNCHANGED <<m_server_stop, m_terminate_on_last_connection, m_num_active_connections,
                   loop, signalled, peer, requests, cut>>

(* handle_request: a call to the library, and the response. *)
HandleCall(s) ==
    /\ loop # "aborted" /\ handler[s] = "handle" /\ request[s].type \notin Controls
    /\ \E outcome \in Outcomes[request[s].type] :
          /\ truth' = [truth EXCEPT ![request[s].from] = outcome]
          /\ Respond(s, Reply(request[s].type, outcome))
    /\ Goto(s, "recv")
    /\ request' = [request EXCEPT ![s] = NoRequest]
    /\ UNCHANGED <<m_server_stop, m_terminate_on_last_connection, m_num_active_connections,
                   loop, signalled, peer, requests, cut>>

(* The requests to terminate are answered first and obeyed next. *)
HandleControl(s) ==
    /\ loop # "aborted" /\ handler[s] = "handle" /\ request[s].type \in Controls
    /\ truth' = [truth EXCEPT ![request[s].from] = Void]
    /\ Respond(s, OK(<<>>))
    /\ Goto(s, "obey")
    /\ UNCHANGED <<m_server_stop, m_terminate_on_last_connection, m_num_active_connections,
                   loop, request, signalled, peer, requests, cut>>

Obey(s) ==
    /\ loop # "aborted" /\ handler[s] = "obey"
    /\ m_server_stop' = (m_server_stop \/ request[s].type = "TERMINATE_SERVER")
    /\ m_terminate_on_last_connection' = (m_terminate_on_last_connection
                                          \/ request[s].type = "TERMINATE_ON_LAST_CONNECTION")
    /\ Goto(s, IF request[s].type = "TERMINATE_ON_LAST_CONNECTION" THEN "recv" ELSE "leave")
    /\ request' = [request EXCEPT ![s] = NoRequest]
    /\ UNCHANGED <<m_num_active_connections, loop, truth, signalled, socketVars>>

Leave(s) ==
    /\ loop # "aborted" /\ handler[s] = "leave"
    /\ m_num_active_connections' = m_num_active_connections - 1
    /\ Goto(s, "gone")
    /\ UNCHANGED <<m_server_stop, m_terminate_on_last_connection, loop, request, truth, signalled, socketVars>>

Serve(s) ==
    Start(s) \/ ReadRequest(s) \/ EndOfStream(s) \/ ConnectionReset(s)
    \/ HandleCall(s) \/ HandleControl(s) \/ Obey(s) \/ Leave(s)
=============================================================================
