------------------------------ MODULE Network ------------------------------
(* The client and the server together. *)
EXTENDS Client

vars == <<clientVars, serverVars, socketVars>>

Init == ServerInit /\ ClientInit

ServerLoop ==
    /\ SelectTimeout \/ Close \/ \E s \in Sockets : Accept(s)
    /\ UNCHANGED clientVars

Handler(s) == Serve(s) /\ UNCHANGED clientVars

Next ==
    \/ \E t \in Threads : ThreadStep(t)
    \/ MainStep
    \/ Kill
    \/ ServerLoop
    \/ Stop /\ UNCHANGED clientVars
    \/ \E s \in Sockets : Handler(s)

(* The threads run and the methods of the client end; nobody has to kill   *)
(* the client or to stop the server.                                       *)
Fairness ==
    /\ \A t \in Threads : WF_vars(ThreadStep(t))
    /\ WF_vars(MainStep)
    /\ WF_vars(ServerLoop)
    /\ \A s \in Sockets : WF_vars(Handler(s))

Spec == Init /\ [][Next]_vars /\ Fairness

-----------------------------------------------------------------------------
(* What a call returns, or how it fails, is what the library did for that  *)
(* call and no other, whichever thread made it: "All requests performed to *)
(* an instance of a Client are forwarded to the end and result propagated  *)
(* back to the invoker" (client.hpp).                                      *)
ResultsPropagated ==
    \A t \in Threads : waiting[t] = "none" /\ pc[t] # "failed" => pc[t] = "killed" \/ result[t] = truth[t]

(* Unless somebody stops the server, it serves a client until the client   *)
(* leaves: terminate_server_on_exit does not cut the connections of the    *)
(* later threads, which open while the server looks for a last connection. *)
ServesUntilExit == signalled \/ \A t \in Threads : pc[t] # "failed"

(* Each call returns, unless the client is killed or the server stopped    *)
(* before it accepts the connection.                                       *)
CallsReturn == \A t \in Threads : waiting[t] # "none" ~> waiting[t] = "none"

(* Asked to terminate with the last connection, the server does when the   *)
(* client has left or was killed, but for a request that was cut.          *)
Gone == pc[Main] \in {"end", "killed"}
ServerStops ==
    Gone /\ m_terminate_on_last_connection /\ (\A s \in Sockets : ~ cut[s]) ~> loop \in {"stopped", "aborted"}
=============================================================================
