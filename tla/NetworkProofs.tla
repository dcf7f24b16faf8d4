---------------------------- MODULE NetworkProofs ----------------------------
(***************************************************************************)
(* Proofs about Network, for any threads, sockets, calls and outcomes of   *)
(* the library that the messages are able to carry: each result reaches    *)
(* the thread that asked for it, and the server serves a client until the  *)
(* client leaves.                                                          *)
(***************************************************************************)
EXTENDS Network, FiniteSetTheorems, SequenceTheorems, TLAPS

(* The outcomes of the library that the messages of a request carry, its   *)
(* failures included.  GET_WEIGHT and DUMP_FILE carry none.                *)
Failures(type) ==
    (IF "NOT_SUPPORTED" \in Handles(type) THEN {Unsupported} ELSE {})
    \cup (IF "TIMEOUT" \in Handles(type) THEN {Timeout} ELSE {})
    \cup (IF "ERROR" \in Handles(type) THEN {Error} ELSE {})

Returns(type) ==
    (IF type \in Counts THEN [count : Nat] ELSE {})
    \cup (IF type \in Answers THEN [answer : BOOLEAN] ELSE {})
    \cup (IF type \in Texts THEN [name : STRING] ELSE {})
    \cup (IF type \in Hooks \cup Kernels \cup {"LOAD", "BUILD"} THEN {Void} ELSE {})

(* What the theorems assume of the library: its outcomes, for the requests *)
(* that the client makes, are among those.                                 *)
CarriedOutcomes ==
    \A type \in WorkerCalls \cup MainCalls \cup Hooks : Outcomes[type] \subseteq Returns(type) \cup Failures(type)

-----------------------------------------------------------------------------
Request == [type : RequestType, from : Threads]
Response == {OK(<<>>)} \cup UNION {{Reply(type, o) : o \in Outcomes[type]} : type \in RequestType}

MainLabels ==
    {"construct", "main_init", "on_exit", "spawn", "join", "analyse", "main_destroy", "terminate", "end", "failed", "killed"}
WorkerLabels == {"off", "thread_init", "hello", "work", "thread_destroy", "terminate", "failed", "killed"}

(* The values of the variables. *)
TypeOK ==
    /\ m_server_stop \in BOOLEAN /\ m_terminate_on_last_connection \in BOOLEAN /\ signalled \in BOOLEAN
    /\ loop \in {"select", "over", "stopped", "aborted"}
    /\ handler \in [Sockets -> {"none", "backlog", "accepted", "recv", "handle", "obey", "leave", "gone", "reset"}]
    /\ request \in [Sockets -> Request \cup {NoRequest}]
    /\ \A s \in Sockets : handler[s] \in {"handle", "obey"} => request[s] \in Request
    /\ peer \in [Sockets -> {"none", "open", "closed"}]
    /\ requests \in [Sockets -> Seq(Request)] /\ responses \in [Sockets -> Seq(Response)]
    /\ DOMAIN truth = Threads /\ DOMAIN result = Threads
    /\ pc \in [Threads -> MainLabels \cup WorkerLabels]
    /\ pc[Main] \in MainLabels /\ \A w \in Workers : pc[w] \in WorkerLabels
    /\ m_worker_id \in [Threads -> 0 .. MaxNumConnections - 1]
    /\ m_connections \in [0 .. MaxNumConnections - 1 -> 0 .. MaxSockets]
    /\ waiting \in [Threads -> RequestType \cup {"none"}]

(* The process of the client was killed. *)
Killed == pc[Main] = "killed"
AllKilled == \A t \in Threads : pc[t] = "killed" /\ waiting[t] = "none"

(* Where a thread has a connection, and may be waiting for a response. *)
Talking(t) ==
    pc[t] \in {"main_init", "on_exit", "hello", "work", "analyse", "thread_destroy", "main_destroy", "terminate"}

(* The script of the threads: the workers run only while main waits for    *)
(* them, each with a connection of its own but for the worker 0.           *)
Script ==
    /\ m_worker_id[Main] = 0
    /\ pc[Main] \in {"spawn", "join"} => m_connections[0] # 0
    /\ pc[Main] = "construct" => m_connections[0] = 0
    /\ \A w \in Workers :
          /\ pc[w] # "killed"
          /\ pc[Main] # "join" => pc[w] = "off"
          /\ pc[w] = "terminate" => w > 0
          /\ Talking(w) => m_worker_id[w] = w
    /\ \A t \in Threads : Talking(t) => Socket(t) # 0

(* What a thread waits for. *)
Asks(t) ==
    waiting[t] # "none" =>
        /\ Talking(t)
        /\ waiting[t] \in (WorkerCalls \cup MainCalls \cup Hooks \cup Controls) \ {"TERMINATE_SERVER"}
        /\ waiting[t] = "TERMINATE_WORKER" <=> pc[t] = "terminate"
        /\ waiting[t] = "TERMINATE_ON_LAST_CONNECTION" <=> pc[t] = "on_exit"

(* A connection is a socket of its own, open at the end of the client. *)
Connections ==
    /\ \A i, j \in DOMAIN m_connections : m_connections[i] = m_connections[j] /\ m_connections[i] # 0 => i = j
    /\ \A i \in DOMAIN m_connections : m_connections[i] # 0 => peer[m_connections[i]] = "open"
    /\ \A s \in Sockets : peer[s] = "none" <=> handler[s] = "none"

(* A request has not been read, is being handled, or has been answered     *)
(* with what the library did.                                              *)
Queued(t, s) ==
    /\ requests[s] = << [type |-> waiting[t], from |-> t] >> \/ handler[s] = "reset"
    /\ responses[s] = <<>> /\ handler[s] \in {"backlog", "accepted", "recv", "obey", "reset"}
    /\ handler[s] = "obey" => request[s].type = "TERMINATE_ON_LAST_CONNECTION"

Handled(t, s) ==
    /\ requests[s] = <<>> /\ responses[s] = <<>>
    /\ handler[s] = "handle" /\ request[s] = [type |-> waiting[t], from |-> t]

Answered(t, s) ==
    /\ requests[s] = <<>> /\ Len(responses[s]) = 1
    /\ Result(waiting[t], responses[s][1]) = truth[t]
    /\ IF waiting[t] = "TERMINATE_WORKER"
         THEN \/ handler[s] \in {"leave", "gone"}
              \/ handler[s] = "obey" /\ request[s].type = "TERMINATE_WORKER"
         ELSE \/ handler[s] = "recv"
              \/ handler[s] = "obey" /\ request[s].type = "TERMINATE_ON_LAST_CONNECTION"

Pending(t, s) == Queued(t, s) \/ Handled(t, s) \/ Answered(t, s)

Session(t) ==
    IF waiting[t] = "none" THEN pc[t] # "failed" => result[t] = truth[t] ELSE Pending(t, Socket(t))

(* A socket that no thread waits on has nothing left in it. *)
Unattended(s) == \A t \in Threads : waiting[t] = "none" \/ Socket(t) # s
Quiet(s) ==
    /\ requests[s] = <<>> \/ handler[s] = "reset"
    /\ responses[s] = <<>> /\ handler[s] # "handle"
    /\ peer[s] = "open" => handler[s] \in {"backlog", "accepted", "recv", "obey", "reset"}
    /\ peer[s] = "open" /\ handler[s] = "obey" => request[s].type = "TERMINATE_ON_LAST_CONNECTION"

(* The last requests of a connection. *)
Last(s) ==
    handler[s] = "obey" =>
        /\ request[s].type \in {"TERMINATE_WORKER", "TERMINATE_ON_LAST_CONNECTION"}
        /\ request[s].type = "TERMINATE_ON_LAST_CONNECTION" => m_connections[0] = s

Traffic ==
    /\ \A t \in Threads : Asks(t) /\ Session(t)
    /\ \A s \in Sockets : (Unattended(s) => Quiet(s)) /\ Last(s)

(* The handlers that have started and not ended are counted. *)
Active == {s \in Sockets : handler[s] \in {"recv", "handle", "obey", "leave"}}
Counted == m_num_active_connections = Cardinality(Active)

(* The client is about to leave: the response to its last request is here. *)
Leaving ==
    \/ pc[Main] = "end"
    \/ pc[Main] = "terminate" /\ waiting[Main] # "none" /\ responses[m_connections[0]] # <<>>

Serving ==
    /\ loop = "select" => ~ m_server_stop
    /\ loop # "select" => Leaving
    /\ \A s \in Sockets : handler[s] = "reset" => loop # "select"
    /\ m_terminate_on_last_connection =>
          /\ pc[Main] # "construct"
          /\ pc[Main] # "end" => handler[m_connections[0]] \notin {"backlog", "accepted"}
    /\ \A t \in Threads : pc[t] # "failed"

IInv ==
    /\ TypeOK /\ Counted
    /\ Killed => AllKilled
    /\ ~ Killed => /\ loop # "aborted" /\ Script /\ Connections /\ Traffic
                   /\ ~ signalled => Serving

-----------------------------------------------------------------------------
(* The outcomes of the library are told apart. *)
LEMMA OutcomesDiffer ==
    /\ Unsupported # Timeout /\ Unsupported # Error /\ Timeout # Error
    /\ Void \notin {Unsupported, Timeout, Error}
    /\ \A x : Answer(x) \notin {Unsupported, Timeout, Error}
    /\ \A x : Count(x) \notin {Unsupported, Timeout, Error}
    /\ \A x : Name(x) \notin {Unsupported, Timeout, Error}
  BY DEF Unsupported, Timeout, Error, Void, Answer, Count, Name

(* A failure that the method of the client tells apart is thrown again by  *)
(* the client.                                                             *)
LEMMA FailureCarried ==
    ASSUME NEW type, NEW o \in Failures(type)
    PROVE  Result(type, Reply(type, o)) = o
<1>1. /\ type # "DUMP_FILE" /\ o \in {Unsupported, Timeout, Error}
      /\ o = Unsupported => "NOT_SUPPORTED" \in Handles(type)
      /\ o = Timeout => "TIMEOUT" \in Handles(type)
      /\ o = Error => "ERROR" \in Handles(type)
  <2>1. Handles("DUMP_FILE") = {}
    BY DEF Handles, Updates, Kernels, Batches
  <2>. QED
    BY <2>1, OutcomesDiffer DEF Failures
<1>2. \A x : Failure(x).type = x
  BY DEF Failure
<1>3. CASE o = Unsupported
  BY <1>1, <1>2, <1>3, OutcomesDiffer DEF Reply, Result, Throws
<1>4. CASE o = Timeout
  BY <1>1, <1>2, <1>4, OutcomesDiffer DEF Reply, Result, Throws
<1>5. CASE o = Error
  BY <1>1, <1>2, <1>5, OutcomesDiffer DEF Reply, Result, Throws
<1>. QED
  BY <1>1, <1>3, <1>4, <1>5

(* The kinds of requests are disjoint. *)
LEMMA KindsDiffer ==
    /\ Counts \cap (Answers \cup Texts) = {} /\ Answers \cap Texts = {}
    /\ (Counts \cup Answers \cup Texts) \cap (Hooks \cup Controls \cup Kernels \cup {"LOAD", "BUILD", "GET_WEIGHT", "DUMP_FILE"}) = {}
    /\ {"GET_WEIGHT", "DUMP_FILE"} \cap (Hooks \cup Controls \cup Kernels \cup {"LOAD", "BUILD"}) = {}
    /\ Controls \cap (Hooks \cup Kernels \cup {"LOAD", "BUILD"}) = {}
    /\ \A type : "OK" \notin Handles(type)
<1>1. \A type : "OK" \notin Handles(type)
  BY DEF Handles
<1>. QED
  BY <1>1 DEF Counts, Answers, Texts, Hooks, Kernels, Predicates, Updates, Batches, Controls

(* A value that the library returns is returned by the client. *)
LEMMA ValueCarried ==
    ASSUME NEW type, NEW o \in Returns(type)
    PROVE  Result(type, Reply(type, o)) = o
<1>1. \A args : OK(args).type = "OK" /\ OK(args).args = args
  BY DEF OK
<1>2. CASE type \in Counts
  <2>1. PICK n \in Nat : o = Count(n)
    BY <1>2, KindsDiffer DEF Returns, Count
  <2>2. Reply(type, o) = OK(<<Integral(n)>>)
    BY <1>2, <2>1, OutcomesDiffer, KindsDiffer DEF Reply, Count
  <2>. QED
    BY <1>1, <1>2, <2>1, <2>2, KindsDiffer DEF Result, Integral
<1>3. CASE type \in Answers
  <2>1. PICK b \in BOOLEAN : o = Answer(b)
    BY <1>3, KindsDiffer DEF Returns, Answer
  <2>2. Reply(type, o) = OK(<<Bool(b)>>)
    BY <1>3, <2>1, OutcomesDiffer, KindsDiffer DEF Reply, Answer
  <2>3. GetBool(Bool(b)) = b
    BY DEF GetBool, Bool, Integral
  <2>. QED
    BY <1>1, <1>3, <2>1, <2>2, <2>3, KindsDiffer DEF Result
<1>4. CASE type \in Texts
  <2>1. PICK t \in STRING : o = Name(t)
    BY <1>4, KindsDiffer DEF Returns, Name
  <2>2. Reply(type, o) = OK(<<Text(t)>>)
    BY <1>4, <2>1, OutcomesDiffer, KindsDiffer DEF Reply, Name
  <2>. QED
    BY <1>1, <1>4, <2>1, <2>2, KindsDiffer DEF Result, Text
<1>5. CASE type \in Hooks \cup Kernels \cup {"LOAD", "BUILD"}
  <2>1. o = Void
    BY <1>5, KindsDiffer DEF Returns
  <2>2. Reply(type, o) = OK(<<>>)
    BY <1>5, <2>1, OutcomesDiffer, KindsDiffer DEF Reply
  <2>3. type \notin Reads
    BY <1>5, KindsDiffer DEF Reads
  <2>. QED
    BY <1>1, <1>5, <2>1, <2>2, <2>3, KindsDiffer DEF Result
<1>. QED
  BY <1>2, <1>3, <1>4, <1>5 DEF Returns

(* What the server answers to a request reaches the client as what the     *)
(* library did.                                                            *)
LEMMA RoundTrip ==
    ASSUME CarriedOutcomes, NEW type \in WorkerCalls \cup MainCalls \cup Hooks, NEW o \in Outcomes[type]
    PROVE  Result(type, Reply(type, o)) = o
  BY FailureCarried, ValueCarried DEF CarriedOutcomes

(* ... and so does the answer to a request to terminate. *)
LEMMA ControlAnswered ==
    ASSUME NEW type \in Controls
    PROVE  Result(type, OK(<<>>)) = Void
  BY KindsDiffer DEF Result, OK, Reads

-----------------------------------------------------------------------------
(* The values of the variables are kept. *)

(* Main is a thread of its own. *)
LEMMA Mains ==
    /\ Main \in Threads /\ Main \notin Workers /\ Workers \subseteq Threads
    /\ \A t \in Threads : t # Main => t \in Workers
    /\ Workers \subseteq 0 .. MaxNumConnections - 1 /\ 0 \in 0 .. MaxNumConnections - 1
    /\ 0 \notin Sockets /\ \A i \in 0 .. MaxSockets : i # 0 => i \in Sockets
  BY ClientAssumption, ServerAssumption DEF Main, Sockets

(* What a thread sends is a request. *)
LEMMA RequestsTyped ==
    ASSUME NEW t
    PROVE  /\ RequestsAt(t) \subseteq RequestType
           /\ "none" \notin RequestType
<1>1. {"ON_MAIN_INIT", "TERMINATE_ON_LAST_CONNECTION", "ON_THREAD_INIT", "ON_THREAD_DESTROY",
       "ON_MAIN_DESTROY", "TERMINATE_WORKER"} \subseteq RequestType
  BY DEF RequestType, Hooks, Controls
<1>2. "none" \notin RequestType
  BY DEF RequestType, Hooks, Controls, Counts, Answers, Predicates, Updates, Batches, Texts, Kernels
<1>3. (IF calls[t] < MaxCalls THEN WorkerCalls ELSE {}) \subseteq RequestType
  BY ClientAssumption
<1>4. (IF calls[t] < MaxCalls THEN MainCalls ELSE {}) \subseteq RequestType
  BY ClientAssumption
<1>. QED
  BY <1>1, <1>2, <1>3, <1>4 DEF RequestsAt

(* The steps of the server keep the types. *)
LEMMA ServerTypes ==
    ASSUME TypeOK, UNCHANGED clientVars,
           ServerLoop \/ Stop \/ \E s \in Sockets : Serve(s)
    PROVE  TypeOK'
<1> USE DEF TypeOK, clientVars
<1>1. CASE ServerLoop
  <2>1. CASE SelectTimeout
    BY <2>1 DEF SelectTimeout, LoopTest, socketVars
  <2>2. CASE Close
    BY <2>2 DEF Close, socketVars
  <2>3. ASSUME NEW s \in Sockets, Accept(s) PROVE TypeOK'
    BY <2>3 DEF Accept, LoopTest, socketVars
  <2>. QED
    BY <1>1, <2>1, <2>2, <2>3 DEF ServerLoop
<1>2. CASE Stop
  BY <1>2 DEF Stop, socketVars
<1>3. ASSUME NEW s \in Sockets, Serve(s) PROVE TypeOK'
  <2>1. CASE Start(s)
    BY <2>1 DEF Start, Goto, socketVars
  <2>2. CASE ReadRequest(s)
    <3>1. Head(requests[s]) \in Request /\ Tail(requests[s]) \in Seq(Request)
      BY <2>2 DEF ReadRequest
    <3>. QED
      BY <2>2, <3>1 DEF ReadRequest, Goto
  <2>3. CASE EndOfStream(s)
    BY <2>3 DEF EndOfStream, Goto, socketVars
  <2>4. CASE ConnectionReset(s)
    BY <2>4 DEF ConnectionReset, socketVars
  <2>5. CASE HandleCall(s)
    <3>1. PICK o \in Outcomes[request[s].type] :
             /\ truth' = [truth EXCEPT ![request[s].from] = o]
             /\ Respond(s, Reply(request[s].type, o))
      BY <2>5 DEF HandleCall
    <3>2. request[s] \in Request /\ request[s].type \in RequestType
      BY <2>5 DEF HandleCall, Request
    <3>3. Reply(request[s].type, o) \in Response
      BY <3>2 DEF Response
    <3>4. responses' \in [Sockets -> Seq(Response)]
      BY <3>1, <3>3 DEF Respond
    <3>. QED
      BY <2>5, <3>1, <3>4 DEF HandleCall, Goto
  <2>6. CASE HandleControl(s)
    <3>1. OK(<<>>) \in Response
      BY DEF Response
    <3>2. responses' \in [Sockets -> Seq(Response)]
      BY <2>6, <3>1 DEF HandleControl, Respond
    <3>. QED
      BY <2>6, <3>2 DEF HandleControl, Goto
  <2>7. CASE Obey(s)
    BY <2>7 DEF Obey, Goto, socketVars
  <2>8. CASE Leave(s)
    BY <2>8 DEF Leave, Goto, socketVars
  <2>. QED
    BY <1>3, <2>1, <2>2, <2>3, <2>4, <2>5, <2>6, <2>7, <2>8 DEF Serve
<1>. QED
  BY <1>1, <1>2, <1>3

(* The steps of a connection. *)
LEMMA ConnectTypes ==
    ASSUME TypeOK, NEW t \in Threads, NEW i \in 0 .. MaxNumConnections - 1, NEW next,
           next \in MainLabels \cup WorkerLabels,
           t = Main => next \in MainLabels, t # Main => next \in WorkerLabels,
           Connect(t, i, next), UNCHANGED request
    PROVE  /\ handler' \in [Sockets -> {"none", "backlog", "accepted", "recv", "handle", "obey", "leave", "gone", "reset"}]
           /\ \A s \in Sockets : handler'[s] \in {"handle", "obey"} => request'[s] \in Request
           /\ peer' \in [Sockets -> {"none", "open", "closed"}]
           /\ pc' \in [Threads -> MainLabels \cup WorkerLabels]
           /\ pc'[Main] \in MainLabels /\ \A w \in Workers : pc'[w] \in WorkerLabels
           /\ m_connections' \in [0 .. MaxNumConnections - 1 -> 0 .. MaxSockets]
<1> USE Mains DEF TypeOK, Jump
<1>1. "failed" \in MainLabels /\ "failed" \in WorkerLabels
  BY DEF MainLabels, WorkerLabels
<1>2. CASE m_connections[i] # 0
  <2>1. UNCHANGED <<m_connections, peer, handler>> /\ pc' = [pc EXCEPT ![t] = next]
    BY <1>2 DEF Connect
  <2>. QED
    BY <2>1
<1>3. CASE m_connections[i] = 0 /\ Listening
  <2>1. PICK s \in Sockets :
             /\ m_connections' = [m_connections EXCEPT ![i] = s]
             /\ peer' = [peer EXCEPT ![s] = "open"]
             /\ handler' = [handler EXCEPT ![s] = "backlog"]
    BY <1>3 DEF Connect, Unused
  <2>2. pc' = [pc EXCEPT ![t] = next]
    BY <1>3 DEF Connect
  <2>3. s \in 0 .. MaxSockets
    BY ServerAssumption DEF Sockets
  <2>. QED
    BY <2>1, <2>2, <2>3
<1>4. CASE m_connections[i] = 0 /\ ~ Listening
  <2>1. UNCHANGED <<m_connections, peer, handler>> /\ pc' = [pc EXCEPT ![t] = "failed"]
    BY <1>4 DEF Connect
  <2>. QED
    BY <1>1, <2>1
<1>. QED
  BY <1>2, <1>3, <1>4 DEF Connect

(* Where a thread goes after a response. *)
LEMMA AfterResponseTyped ==
    ASSUME TypeOK, NEW t \in Threads
    PROVE  /\ t = Main => AfterResponse(t) \in MainLabels
           /\ t # Main => AfterResponse(t) \in WorkerLabels
<1>1. CASE t = Main
  BY <1>1 DEF AfterResponse, TypeOK, MainLabels
<1>2. CASE t # Main
  <2>1. pc[t] \in WorkerLabels
    BY <1>2, Mains DEF TypeOK
  <2>. QED
    BY <1>2, <2>1 DEF AfterResponse, WorkerLabels
<1>. QED
  BY <1>1, <1>2

(* The steps of the client keep the types. *)
LEMMA ClientTypes ==
    ASSUME TypeOK, (\E t \in Threads : ThreadStep(t)) \/ MainStep \/ Kill
    PROVE  TypeOK'
<1> USE Mains DEF TypeOK
<1>1. CASE Construct
  <2>1. Connect(Main, 0, "main_init") /\ "main_init" \in MainLabels
    BY <1>1 DEF Construct, MainLabels
  <2>2. UNCHANGED <<m_worker_id, waiting, result, serverRest, requests, responses>>
    BY <1>1 DEF Construct
  <2>. QED
    BY <2>1, <2>2, ConnectTypes DEF serverRest
<1>2. ASSUME NEW t \in Threads, OnThreadInit(t) PROVE TypeOK'
  <2>1. t \in Workers
    BY <1>2 DEF OnThreadInit, MainLabels
  <2>2. Connect(t, t, "hello") /\ "hello" \in WorkerLabels
    BY <1>2 DEF OnThreadInit, WorkerLabels
  <2>3. UNCHANGED <<waiting, result, serverRest, requests, responses>> /\ m_worker_id' = [m_worker_id EXCEPT ![t] = t]
    BY <1>2 DEF OnThreadInit
  <2>. QED
    BY <2>1, <2>2, <2>3, ConnectTypes DEF serverRest
<1>3. ASSUME NEW t \in Threads, Send(t) PROVE TypeOK'
  <2>1. PICK type \in RequestsAt(t) :
          /\ requests' = [requests EXCEPT ![Socket(t)] = Append(@, [type |-> type, from |-> t])]
          /\ waiting' = [waiting EXCEPT ![t] = type]
    BY <1>3 DEF Send
  <2>2. [type |-> type, from |-> t] \in Request /\ type \in RequestType
    BY RequestsTyped DEF Request
  <2>3. requests' \in [Sockets -> Seq(Request)]
    <3>1. CASE Socket(t) \in Sockets
      <4>1. Append(requests[Socket(t)], [type |-> type, from |-> t]) \in Seq(Request)
        BY <2>2, <3>1
      <4>. QED
        BY <2>1, <4>1
    <3>2. CASE Socket(t) \notin Sockets
      BY <2>1, <3>2
    <3>. QED
      BY <3>1, <3>2
  <2>4. waiting' \in [Threads -> RequestType \cup {"none"}]
    BY <2>1, <2>2
  <2>. QED
    BY <1>3, <2>3, <2>4 DEF Send, serverVars
<1>4. ASSUME NEW t \in Threads, Receive(t) PROVE TypeOK'
  <2>1. pc' = [pc EXCEPT ![t] = AfterResponse(t)]
    BY <1>4 DEF Receive, Jump
  <2>2. /\ pc' \in [Threads -> MainLabels \cup WorkerLabels]
        /\ pc'[Main] \in MainLabels /\ \A w \in Workers : pc'[w] \in WorkerLabels
    BY <2>1, AfterResponseTyped
  <2>3. responses' \in [Sockets -> Seq(Response)]
    <3>1. responses' = [responses EXCEPT ![Socket(t)] = Tail(@)] /\ responses[Socket(t)] # <<>>
      BY <1>4 DEF Receive
    <3>2. CASE Socket(t) \in Sockets
      <4>1. Tail(responses[Socket(t)]) \in Seq(Response)
        BY <3>1, <3>2
      <4>. QED
        BY <3>1, <4>1
    <3>3. CASE Socket(t) \notin Sockets
      BY <3>1, <3>3
    <3>. QED
      BY <3>2, <3>3
  <2>4. waiting' \in [Threads -> RequestType \cup {"none"}] /\ m_worker_id' \in [Threads -> 0 .. MaxNumConnections - 1]
        /\ DOMAIN result' = Threads
    BY <1>4 DEF Receive
  <2>5. /\ m_connections' \in [0 .. MaxNumConnections - 1 -> 0 .. MaxSockets]
        /\ peer' \in [Sockets -> {"none", "open", "closed"}]
    <3>1. CASE pc[t] = "terminate"
      <4>1. PICK C : Disconnect(C)
        BY <1>4, <3>1 DEF Receive
      <4>2. 0 \in 0 .. MaxSockets
        BY ServerAssumption
      <4>. QED
        BY <4>1, <4>2 DEF Disconnect
    <3>2. CASE pc[t] # "terminate"
      BY <1>4, <3>2 DEF Receive
    <3>. QED
      BY <3>1, <3>2
  <2>. QED
    BY <1>4, <2>2, <2>3, <2>4, <2>5 DEF Receive, serverVars
<1>5. ASSUME NEW t \in Threads, ReceiveFails(t) PROVE TypeOK'
  BY <1>5 DEF ReceiveFails, Jump, serverVars, socketVars, MainLabels, WorkerLabels
<1>6. ASSUME NEW t \in Threads, Finish(t) PROVE TypeOK'
  BY <1>6 DEF Finish, Jump, clientRest, serverVars, socketVars, MainLabels, WorkerLabels
<1>7. CASE SkipOnExit
  BY <1>7 DEF SkipOnExit, Jump, clientRest, serverVars, socketVars, MainLabels, WorkerLabels
<1>8. CASE Spawn
  BY <1>8 DEF Spawn, serverVars, socketVars, MainLabels, WorkerLabels
<1>9. CASE Join
  BY <1>9 DEF Join, Jump, clientRest, serverVars, socketVars, MainLabels, WorkerLabels
<1>10. CASE Kill
  BY <1>10 DEF Kill, serverVars, MainLabels, WorkerLabels
<1>. QED
  BY <1>1, <1>2, <1>3, <1>4, <1>5, <1>6, <1>7, <1>8, <1>9, <1>10 DEF ThreadStep, MainStep

-----------------------------------------------------------------------------
(* The count of the active connections. *)

(* The active connections are a finite set. *)
LEMMA ActiveFinite ==
    IsFiniteSet(Active) /\ Cardinality(Active) \in Nat
<1>1. IsFiniteSet(Sockets)
  BY ServerAssumption, FS_Interval DEF Sockets
<1>. QED
  BY <1>1, FS_Subset, FS_CardinalityType DEF Active

(* A step that moves no handler in or out of the active part. *)
LEMMA SameActive ==
    ASSUME Counted, UNCHANGED m_num_active_connections,
           \A s \in Sockets : s \in Active' <=> s \in Active
    PROVE  Counted'
<1>1. Active' = Active
  BY DEF Active
<1>. QED
  BY <1>1 DEF Counted

(* A handler that starts is counted ... *)
LEMMA StartCounted ==
    ASSUME TypeOK, Counted, NEW s \in Sockets, Start(s)
    PROVE  Counted'
<1>1. s \notin Active /\ Active' = Active \cup {s}
  BY DEF Start, Goto, Active, TypeOK
<1>2. Cardinality(Active') = Cardinality(Active) + 1
  BY <1>1, ActiveFinite, FS_AddElement
<1>. QED
  BY <1>2 DEF Counted, Start

(* ... until it ends. *)
LEMMA LeaveCounted ==
    ASSUME TypeOK, Counted, NEW s \in Sockets, Leave(s)
    PROVE  Counted'
<1>1. s \in Active /\ Active' = Active \ {s}
  BY DEF Leave, Goto, Active, TypeOK
<1>2. Cardinality(Active') = Cardinality(Active) - 1
  BY <1>1, ActiveFinite, FS_RemoveElement
<1>. QED
  BY <1>2 DEF Counted, Leave

-----------------------------------------------------------------------------
(* The traffic of a connection. *)

(* Two threads do not wait on the same connection: the worker 0 uses it    *)
(* only while the main thread waits for the workers.                       *)
LEMMA Exclusive ==
    ASSUME IInv, ~ Killed, NEW t \in Threads, NEW u \in Threads,
           Talking(t), Talking(u), Socket(t) = Socket(u)
    PROVE  t = u
<1>1. TypeOK /\ Script /\ Connections
  BY DEF IInv
<1>2. m_worker_id[t] = m_worker_id[u]
  BY <1>1 DEF Script, Connections, Socket, TypeOK
<1>3. \A w \in Workers : Talking(w) => m_worker_id[w] = w /\ ~ Talking(Main)
  BY <1>1 DEF Script, Talking
<1>. QED
  BY <1>2, <1>3, Mains

(* The connection of a thread that talks. *)
LEMMA TalkingSocket ==
    ASSUME IInv, ~ Killed, NEW t \in Threads, Talking(t)
    PROVE  /\ m_worker_id[t] \in 0 .. MaxNumConnections - 1 /\ Socket(t) \in Sockets
           /\ peer[Socket(t)] = "open" /\ (t = Main => Socket(t) = m_connections[0])
<1>1. TypeOK /\ Script /\ Connections
  BY DEF IInv
<1>2. m_worker_id[t] \in 0 .. MaxNumConnections - 1 /\ Socket(t) # 0
  BY <1>1 DEF Script, TypeOK
<1>3. m_connections[m_worker_id[t]] \in Sockets
  BY <1>1, <1>2, Mains DEF TypeOK, Socket
<1>. QED
  BY <1>1, <1>2, <1>3 DEF Script, Connections, Socket, TypeOK

(* What a connection has for the thread that waits on it. *)
LEMMA PendingAt ==
    ASSUME IInv, ~ Killed, NEW t \in Threads, NEW s, waiting[t] # "none", Socket(t) = s
    PROVE  /\ Pending(t, s) /\ Asks(t) /\ Talking(t)
           /\ s \in Sockets /\ peer[s] = "open" /\ ~ Unattended(s)
<1>1. Traffic
  BY DEF IInv
<1>2. Pending(t, s) /\ Asks(t) /\ Talking(t)
  BY <1>1 DEF Traffic, Session, Asks
<1>. QED
  BY <1>2, TalkingSocket DEF Unattended

(* What is left in a connection that nobody waits on. *)
LEMMA QuietAt ==
    ASSUME IInv, ~ Killed, NEW s \in Sockets
    PROVE  (Unattended(s) => Quiet(s)) /\ Last(s)
  BY DEF IInv, Traffic

(* A step of the server, that leaves the client alone and changes one      *)
(* socket, has to be followed only on that socket.                         *)
LEMMA LocalTraffic ==
    ASSUME IInv, ~ Killed, UNCHANGED <<clientVars, peer>>, NEW s \in Sockets,
           \A r \in Sockets : r # s => /\ handler'[r] = handler[r] /\ request'[r] = request[r]
                                       /\ requests'[r] = requests[r] /\ responses'[r] = responses[r],
           \A t \in Threads : truth'[t] = truth[t] \/ (waiting[t] # "none" /\ Socket(t) = s),
           \A t \in Threads : waiting[t] # "none" /\ Socket(t) = s => Pending(t, s)',
           Unattended(s) => Quiet(s)',
           Last(s)'
    PROVE  Traffic'
<1>1. Traffic /\ TypeOK
  BY DEF IInv
<1>2. /\ \A t \in Threads : Socket(t)' = Socket(t) /\ (Asks(t)' <=> Asks(t)) /\ (Talking(t)' <=> Talking(t))
      /\ \A r : Unattended(r)' <=> Unattended(r)
  BY DEF clientVars, Socket, Asks, Talking, Unattended
<1>3. ASSUME NEW t \in Threads PROVE Asks(t)' /\ Session(t)'
  <2>1. CASE waiting[t] = "none"
    BY <1>1, <1>2, <2>1 DEF Traffic, Session, clientVars
  <2>2. CASE waiting[t] # "none" /\ Socket(t) = s
    BY <1>1, <1>2, <2>2 DEF Traffic, Session, clientVars
  <2>3. CASE waiting[t] # "none" /\ Socket(t) # s
    <3>1. Socket(t) \in Sockets
      BY <1>1, <2>3, TalkingSocket DEF Traffic, Asks
    <3>2. PICK r \in Sockets : r = Socket(t)
      BY <3>1
    <3>3. Pending(t, r)
      BY <1>1, <2>3, <3>2 DEF Traffic, Session
    <3>4. Pending(t, r)'
      BY <2>3, <3>2, <3>3 DEF Pending, Queued, Handled, Answered, clientVars
    <3>. QED
      BY <1>1, <1>2, <2>3, <3>2, <3>4 DEF Traffic, Session, clientVars
  <2>. QED
    BY <2>1, <2>2, <2>3
<1>4. ASSUME NEW r \in Sockets PROVE (Unattended(r)' => Quiet(r)') /\ Last(r)'
  BY <1>1, <1>2 DEF Traffic, Quiet, Last, clientVars
<1>. QED
  BY <1>3, <1>4 DEF Traffic

-----------------------------------------------------------------------------
(* The steps of the server *)

(* The server leaves the client alone. *)
LEMMA ServerStep ==
    ASSUME IInv, UNCHANGED clientVars, TypeOK', Counted',
           ~ Killed => /\ loop' # "aborted" /\ UNCHANGED <<peer, m_connections>> /\ Traffic'
                       /\ \A s \in Sockets : handler[s] = "none" <=> handler'[s] = "none"
                       /\ ~ signalled' => Serving'
    PROVE  IInv'
<1>1. Killed' = Killed /\ AllKilled' = AllKilled
  BY DEF Killed, AllKilled, clientVars
<1>2. CASE Killed
  BY <1>1, <1>2 DEF IInv
<1>3. CASE ~ Killed
  <2>1. Script'
    BY <1>3 DEF IInv, Script, clientVars, Talking, Socket
  <2>2. Connections'
    BY <1>3 DEF IInv, Connections
  <2>. QED
    BY <1>1, <1>3, <2>1, <2>2 DEF IInv
<1>. QED
  BY <1>2, <1>3

(* The main thread has a connection until it leaves. *)
LEMMA MainConnected ==
    ASSUME IInv, ~ Killed, pc[Main] \notin {"construct", "end", "failed"}
    PROVE  m_connections[0] \in Sockets /\ peer[m_connections[0]] = "open"
<1>1. TypeOK /\ Script /\ Connections
  BY DEF IInv
<1>2. m_connections[0] # 0
  BY <1>1, Mains DEF TypeOK, Script, MainLabels, Talking, Socket, Killed
<1>3. m_connections[0] \in Sockets
  BY <1>1, <1>2, Mains DEF TypeOK
<1>. QED
  BY <1>1, <1>2, <1>3, Mains DEF Connections, TypeOK

(* The handler of the first connection has started when the server is      *)
(* asked to terminate with the last one, so that it is active until the    *)
(* main thread leaves.                                                     *)
LEMMA LastConnection ==
    ASSUME IInv, ~ Killed, Serving, loop = "select", m_terminate_on_last_connection, m_num_active_connections = 0
    PROVE  Leaving
<1>1. SUFFICES ASSUME pc[Main] # "end" PROVE Leaving
  BY DEF Leaving
<1>2. PICK s \in Sockets : s = m_connections[0] /\ peer[s] = "open"
  BY <1>1, MainConnected, Mains DEF Serving
<1>3. TypeOK /\ Script /\ Connections /\ Traffic /\ Counted
  BY DEF IInv
<1>4. handler[s] = "gone"
  <2>1. Active = {}
    BY <1>3, ActiveFinite, FS_EmptySet DEF Counted
  <2>2. handler[s] \notin {"recv", "handle", "obey", "leave"}
    BY <2>1 DEF Active
  <2>3. handler[s] \notin {"backlog", "accepted", "reset"}
    BY <1>1, <1>2 DEF Serving
  <2>4. handler[s] # "none"
    BY <1>2, <1>3 DEF Connections
  <2>. QED
    BY <1>3, <2>2, <2>3, <2>4 DEF TypeOK
<1>5. PICK t \in Threads : waiting[t] # "none" /\ Socket(t) = s
  BY <1>2, <1>3, <1>4 DEF Traffic, Unattended, Quiet
<1>6. Pending(t, s) /\ Asks(t)
  BY <1>3, <1>5 DEF Traffic, Session
<1>7. Answered(t, s) /\ waiting[t] = "TERMINATE_WORKER"
  BY <1>4, <1>6 DEF Pending, Queued, Handled, Answered
<1>8. pc[t] = "terminate" /\ Len(responses[s]) = 1
  BY <1>5, <1>6, <1>7 DEF Asks, Answered
<1>9. t = Main
  <2>1. ASSUME t \in Workers PROVE FALSE
    <3>1. t > 0 /\ m_worker_id[t] = t
      BY <1>3, <1>8, <2>1 DEF Script, Talking
    <3>2. m_connections[t] = s /\ s # 0
      BY <1>5, <3>1, Mains DEF Socket
    <3>3. t = 0
      BY <1>2, <1>3, <2>1, <3>2, Mains DEF Connections, TypeOK
    <3>. QED
      BY <3>1, <3>3
  <2>. QED
    BY <2>1, Mains
<1>10. responses[s] # <<>>
  BY <1>8
<1>. QED
  BY <1>2, <1>5, <1>8, <1>9, <1>10 DEF Leaving

(* main_loop finds that it has to stop only when nobody is left. *)
LEMMA SelectTimeoutStep ==
    ASSUME IInv, SelectTimeout, UNCHANGED clientVars, TypeOK'
    PROVE  IInv'
<1>1. /\ loop = "select" /\ loop' \in {"select", "over"}
      /\ m_server_stop' = (m_server_stop \/ (m_terminate_on_last_connection /\ m_num_active_connections = 0))
      /\ loop' = IF m_server_stop' THEN "over" ELSE "select"
      /\ UNCHANGED <<handler, m_terminate_on_last_connection, m_num_active_connections, request, truth, signalled, socketVars>>
  BY DEF SelectTimeout, LoopTest
<1>2. Counted'
  BY <1>1, SameActive DEF IInv, Active
<1>3. ASSUME ~ Killed PROVE Traffic'
  BY <1>1, <1>3 DEF IInv, Traffic, Asks, Session, Unattended, Quiet, Last, Pending, Queued, Handled, Answered, Talking, Socket,
     clientVars, socketVars
<1>4. ASSUME ~ Killed, ~ signalled PROVE Serving'
  <2>1. Serving
    BY <1>4 DEF IInv
  <2>2. m_server_stop' => Leaving
    BY <1>1, <1>4, <2>1, LastConnection DEF Serving
  <2>3. Leaving' = Leaving
    BY <1>1 DEF Leaving, clientVars, socketVars
  <2>4. loop' # "select" => m_server_stop'
    BY <1>1
  <2>5. \A s \in Sockets : handler'[s] # "reset"
    BY <1>1, <2>1 DEF Serving
  <2>. QED
    BY <1>1, <2>1, <2>2, <2>3, <2>4, <2>5 DEF Serving, clientVars
<1>. QED
  BY <1>1, <1>2, <1>3, <1>4, ServerStep DEF socketVars, clientVars

(* main_loop accepts a connection. *)
LEMMA AcceptStep ==
    ASSUME IInv, NEW s \in Sockets, Accept(s), UNCHANGED clientVars, TypeOK'
    PROVE  IInv'
<1>1. /\ loop = "select" /\ handler[s] = "backlog" /\ handler' = [handler EXCEPT ![s] = "accepted"]
      /\ m_server_stop' = m_server_stop
      /\ loop' = IF m_server_stop' THEN "over" ELSE "select"
      /\ UNCHANGED <<m_terminate_on_last_connection, m_num_active_connections, request, truth, signalled, socketVars>>
      /\ TypeOK
  BY DEF Accept, LoopTest, IInv
<1>2. Counted'
  BY <1>1, SameActive DEF IInv, Active, TypeOK
<1>3. ASSUME ~ Killed PROVE Traffic'
  <2>1. ASSUME NEW t \in Threads, waiting[t] # "none", Socket(t) = s PROVE Pending(t, s)'
    <3>1. Queued(t, s)
      BY <1>1, <1>3, <2>1, PendingAt DEF Pending, Handled, Answered
    <3>. QED
      BY <1>1, <3>1 DEF Pending, Queued, clientVars, socketVars, TypeOK
  <2>2. Unattended(s) => Quiet(s)'
    BY <1>1, <1>3 DEF IInv, Traffic, Quiet, socketVars, TypeOK
  <2>3. Last(s)'
    BY <1>1 DEF Last, TypeOK
  <2>. QED
    BY <1>1, <1>3, <2>1, <2>2, <2>3, LocalTraffic DEF socketVars, TypeOK
<1>4. ASSUME ~ Killed, ~ signalled PROVE Serving'
  <2>1. Serving /\ ~ m_server_stop /\ loop' = "select"
    BY <1>1, <1>4 DEF IInv, Serving
  <2>2. \A r \in Sockets : handler'[r] # "reset"
    BY <1>1, <2>1 DEF Serving, TypeOK
  <2>3. ASSUME m_terminate_on_last_connection, pc[Main] # "end"
        PROVE  handler'[m_connections[0]] \notin {"backlog", "accepted"}
    BY <1>1, <1>4, <2>1, <2>3, MainConnected, Mains DEF Serving, TypeOK
  <2>. QED
    BY <1>1, <2>1, <2>2, <2>3 DEF Serving, clientVars
<1>. QED
  BY <1>1, <1>2, <1>3, <1>4, ServerStep DEF socketVars, clientVars, TypeOK

(* The destructor resets the connections that nobody has accepted. *)
LEMMA CloseStep ==
    ASSUME IInv, Close, UNCHANGED clientVars, TypeOK'
    PROVE  IInv'
<1>1. /\ loop = "over" /\ loop' = "stopped"
      /\ handler' = [s \in Sockets |-> IF handler[s] = "backlog" THEN "reset" ELSE handler[s]]
      /\ UNCHANGED <<m_server_stop, m_terminate_on_last_connection, m_num_active_connections, request, truth, signalled, socketVars>>
      /\ TypeOK
  BY DEF Close, IInv
<1>2. Counted'
  BY <1>1, SameActive DEF IInv, Active
<1>3. ASSUME ~ Killed PROVE Traffic'
  <2>1. ASSUME NEW t \in Threads PROVE Asks(t)' /\ Session(t)'
    <3>1. Asks(t)' /\ Socket(t)' = Socket(t)
      BY <1>3 DEF IInv, Traffic, Asks, Talking, Socket, clientVars
    <3>2. CASE waiting[t] = "none"
      BY <1>1, <1>3, <3>1, <3>2 DEF IInv, Traffic, Session, clientVars
    <3>3. CASE waiting[t] # "none"
      <4>1. PICK s \in Sockets : s = Socket(t) /\ Pending(t, s)
        BY <1>3, <3>3, PendingAt
      <4>2. Queued(t, s) => Queued(t, s)'
        BY <1>1 DEF Queued, clientVars, socketVars
      <4>3. Handled(t, s) => Handled(t, s)'
        BY <1>1 DEF Handled, clientVars, socketVars
      <4>4. Answered(t, s) => Answered(t, s)'
        BY <1>1 DEF Answered, clientVars, socketVars
      <4>. QED
        BY <3>1, <3>3, <4>1, <4>2, <4>3, <4>4 DEF Pending, Session, clientVars
    <3>. QED
      BY <3>2, <3>3, <3>1
  <2>2. ASSUME NEW s \in Sockets PROVE (Unattended(s)' => Quiet(s)') /\ Last(s)'
    <3>1. Unattended(s)' => Unattended(s)
      BY DEF Unattended, Socket, clientVars
    <3>2. Quiet(s) => Quiet(s)'
      BY <1>1 DEF Quiet, socketVars
    <3>3. Last(s) => Last(s)'
      BY <1>1 DEF Last, clientVars
    <3>. QED
      BY <1>3, <3>1, <3>2, <3>3, QuietAt
  <2>. QED
    BY <2>1, <2>2 DEF Traffic
<1>4. ASSUME ~ Killed, ~ signalled PROVE Serving'
  <2>1. Serving /\ Leaving
    BY <1>1, <1>4 DEF IInv, Serving
  <2>2. Leaving'
    BY <1>1, <2>1 DEF Leaving, clientVars, socketVars
  <2>3. ASSUME m_terminate_on_last_connection, pc[Main] # "end"
        PROVE  handler'[m_connections[0]] \notin {"backlog", "accepted"}
    BY <1>1, <1>4, <2>1, <2>3, MainConnected, Mains DEF Serving, TypeOK
  <2>. QED
    BY <1>1, <2>1, <2>2, <2>3 DEF Serving, clientVars
<1>. QED
  BY <1>1, <1>2, <1>3, <1>4, ServerStep DEF socketVars, clientVars, TypeOK

(* stop(). *)
LEMMA StopStep ==
    ASSUME IInv, Stop, UNCHANGED clientVars, TypeOK'
    PROVE  IInv'
<1>1. /\ signalled' /\ loop' = "select"
      /\ UNCHANGED <<m_terminate_on_last_connection, m_num_active_connections, handler, request, truth, socketVars>>
  BY DEF Stop
<1>2. Counted'
  BY <1>1, SameActive DEF IInv, Active
<1>3. ASSUME ~ Killed PROVE Traffic'
  BY <1>1, <1>3 DEF IInv, Traffic, Asks, Session, Unattended, Quiet, Last, Pending, Queued, Handled, Answered, Talking, Socket,
     clientVars, socketVars
<1>. QED
  BY <1>1, <1>2, <1>3, ServerStep DEF socketVars, clientVars

(* A step of a handler changes only its own socket, and does not let the   *)
(* server terminate.                                                       *)
LEMMA HandlerServing ==
    ASSUME IInv, ~ Killed, ~ signalled, NEW s \in Sockets, NEW label,
           UNCHANGED <<clientVars, m_server_stop, loop>>,
           handler[s] \notin {"backlog", "reset"},
           handler' = [handler EXCEPT ![s] = label], label \notin {"backlog", "accepted", "reset"},
           \A r \in Sockets : responses'[r] = <<>> => responses[r] = <<>>,
           m_terminate_on_last_connection' /\ ~ m_terminate_on_last_connection => m_connections[0] = s
    PROVE  Serving'
<1>1. TypeOK /\ Script /\ Serving
  BY DEF IInv
<1>2. Leaving => Leaving'
  <2>1. ASSUME pc[Main] = "terminate" PROVE m_connections[0] \in Sockets
    BY <2>1, MainConnected
  <2>. QED
    BY <2>1 DEF Leaving, clientVars
<1>3. \A r \in Sockets : handler'[r] = "reset" => handler[r] = "reset"
  BY <1>1 DEF TypeOK
<1>4. ASSUME m_terminate_on_last_connection' PROVE pc[Main] # "construct"
  BY <1>1, <1>4, Mains DEF Serving, Script
<1>5. ASSUME m_terminate_on_last_connection', pc[Main] # "end"
      PROVE  handler'[m_connections[0]] \notin {"backlog", "accepted"}
  <2>1. m_connections[0] \in Sockets
    BY <1>1, <1>4, <1>5, MainConnected, Mains DEF Serving
  <2>. QED
    BY <1>1, <1>5, <2>1 DEF Serving, TypeOK
<1>. QED
  BY <1>1, <1>2, <1>3, <1>4, <1>5 DEF Serving, clientVars

(* The handler starts. *)
LEMMA StartStep ==
    ASSUME IInv, NEW s \in Sockets, Start(s), UNCHANGED clientVars, TypeOK'
    PROVE  IInv'
<1>1. /\ handler[s] = "accepted" /\ handler' = [handler EXCEPT ![s] = "recv"] /\ loop # "aborted"
      /\ UNCHANGED <<m_server_stop, m_terminate_on_last_connection, loop, request, truth, signalled, socketVars>>
      /\ TypeOK
  BY DEF Start, Goto, IInv
<1>2. Counted'
  BY StartCounted DEF IInv
<1>3. ASSUME ~ Killed PROVE Traffic'
  <2>1. ASSUME NEW t \in Threads, waiting[t] # "none", Socket(t) = s PROVE Pending(t, s)'
    <3>1. Queued(t, s)
      BY <1>1, <1>3, <2>1, PendingAt DEF Pending, Handled, Answered
    <3>. QED
      BY <1>1, <3>1 DEF Pending, Queued, clientVars, socketVars, TypeOK
  <2>2. Unattended(s) => Quiet(s)'
    BY <1>1, <1>3, QuietAt DEF Quiet, socketVars, TypeOK
  <2>3. Last(s)'
    BY <1>1 DEF Last, TypeOK
  <2>. QED
    BY <1>1, <1>3, <2>1, <2>2, <2>3, LocalTraffic DEF socketVars, TypeOK
<1>4. ASSUME ~ Killed, ~ signalled PROVE Serving'
  <2>1. "recv" \notin {"backlog", "accepted", "reset"}
    OBVIOUS
  <2>. QED
    BY <1>1, <1>4, <2>1, HandlerServing DEF socketVars
<1>. QED
  BY <1>1, <1>2, <1>3, <1>4, ServerStep DEF socketVars, clientVars, TypeOK

(* The handler reads a request. *)
LEMMA ReadRequestStep ==
    ASSUME IInv, NEW s \in Sockets, ReadRequest(s), UNCHANGED clientVars, TypeOK'
    PROVE  IInv'
<1>1. /\ handler[s] = "recv" /\ handler' = [handler EXCEPT ![s] = "handle"] /\ loop # "aborted"
      /\ requests[s] # <<>> /\ requests' = [requests EXCEPT ![s] = Tail(requests[s])]
      /\ request' = [request EXCEPT ![s] = Head(requests[s])]
      /\ UNCHANGED <<m_server_stop, m_terminate_on_last_connection, m_num_active_connections,
                     loop, truth, signalled, peer, responses>>
      /\ TypeOK
  BY DEF ReadRequest, Goto, IInv
<1>2. Counted'
  BY <1>1, SameActive DEF IInv, Active, TypeOK
<1>3. ASSUME ~ Killed PROVE Traffic'
  <2>1. ASSUME NEW t \in Threads, waiting[t] # "none", Socket(t) = s PROVE Pending(t, s)'
    <3>1. Queued(t, s)
      BY <1>1, <1>3, <2>1, PendingAt DEF Pending, Handled, Answered
    <3>2. requests[s] = << [type |-> waiting[t], from |-> t] >> /\ responses[s] = <<>>
      BY <1>1, <3>1 DEF Queued
    <3>3. Head(requests[s]) = [type |-> waiting[t], from |-> t] /\ Tail(requests[s]) = <<>>
      BY <3>2
    <3>4. Handled(t, s)'
      BY <1>1, <3>2, <3>3 DEF Handled, clientVars, TypeOK
    <3>. QED
      BY <3>4 DEF Pending
  <2>2. ~ Unattended(s)
    BY <1>1, <1>3, QuietAt DEF Quiet
  <2>3. Last(s)'
    BY <1>1 DEF Last, TypeOK
  <2>. QED
    BY <1>1, <1>3, <2>1, <2>2, <2>3, LocalTraffic DEF TypeOK
<1>4. ASSUME ~ Killed, ~ signalled PROVE Serving'
  <2>1. "handle" \notin {"backlog", "accepted", "reset"}
    OBVIOUS
  <2>. QED
    BY <1>1, <1>4, <2>1, HandlerServing
<1>. QED
  BY <1>1, <1>2, <1>3, <1>4, ServerStep DEF clientVars, TypeOK

(* The client has closed the connection: nobody waits on it. *)
LEMMA EndOfStreamStep ==
    ASSUME IInv, NEW s \in Sockets, EndOfStream(s), UNCHANGED clientVars, TypeOK'
    PROVE  IInv'
<1>1. /\ handler[s] = "recv" /\ handler' = [handler EXCEPT ![s] = "leave"] /\ loop # "aborted" /\ peer[s] = "closed"
      /\ UNCHANGED <<m_server_stop, m_terminate_on_last_connection, m_num_active_connections,
                     loop, request, truth, signalled, socketVars>>
      /\ TypeOK
  BY DEF EndOfStream, Goto, IInv
<1>2. Counted'
  BY <1>1, SameActive DEF IInv, Active, TypeOK
<1>3. ASSUME ~ Killed PROVE Traffic'
  <2>1. ASSUME NEW t \in Threads, waiting[t] # "none", Socket(t) = s PROVE FALSE
    BY <1>1, <1>3, <2>1, PendingAt
  <2>2. Unattended(s) => Quiet(s)'
    BY <1>1, <1>3, QuietAt DEF Quiet, socketVars, TypeOK
  <2>3. Last(s)'
    BY <1>1 DEF Last, TypeOK
  <2>. QED
    BY <1>1, <1>3, <2>1, <2>2, <2>3, LocalTraffic DEF socketVars, TypeOK
<1>4. ASSUME ~ Killed, ~ signalled PROVE Serving'
  <2>1. "leave" \notin {"backlog", "accepted", "reset"}
    OBVIOUS
  <2>. QED
    BY <1>1, <1>4, <2>1, HandlerServing DEF socketVars
<1>. QED
  BY <1>1, <1>2, <1>3, <1>4, ServerStep DEF socketVars, clientVars, TypeOK

(* The server is aborted only for a response that was not read, which only *)
(* a client that was killed leaves behind.                                 *)
LEMMA ConnectionResetStep ==
    ASSUME IInv, NEW s \in Sockets, ConnectionReset(s), UNCHANGED clientVars, TypeOK'
    PROVE  IInv'
<1>1. /\ peer[s] = "closed" /\ responses[s] # <<>>
      /\ UNCHANGED <<m_num_active_connections, handler>>
  BY DEF ConnectionReset
<1>2. Counted'
  BY <1>1, SameActive DEF IInv, Active
<1>3. Killed
  <2>1. ASSUME ~ Killed PROVE FALSE
    <3>1. Unattended(s)
      BY <1>1, <2>1, PendingAt DEF Unattended
    <3>. QED
      BY <1>1, <2>1, <3>1, QuietAt DEF Quiet
  <2>. QED
    BY <2>1
<1>. QED
  BY <1>2, <1>3, ServerStep

(* A queue to which something was added is not empty. *)
LEMMA AppendNotEmpty ==
    ASSUME NEW S, NEW q \in Seq(S), NEW x \in S
    PROVE  Append(q, x) # <<>>
<1>1. Len(Append(q, x)) = Len(q) + 1 /\ Len(q) \in Nat
  OBVIOUS
<1>2. Len(<<>>) = 0
  OBVIOUS
<1>. QED
  BY <1>1, <1>2

(* The handler calls the library, and its response is about the request of *)
(* the thread that waits on the connection.                                *)
LEMMA HandleCallStep ==
    ASSUME CarriedOutcomes, IInv, NEW s \in Sockets, HandleCall(s), UNCHANGED clientVars, TypeOK'
    PROVE  IInv'
<1>1. /\ handler[s] = "handle" /\ handler' = [handler EXCEPT ![s] = "recv"] /\ loop # "aborted"
      /\ request[s].type \notin Controls /\ request' = [request EXCEPT ![s] = NoRequest]
      /\ UNCHANGED <<m_server_stop, m_terminate_on_last_connection, m_num_active_connections,
                     loop, signalled, peer, requests>>
      /\ TypeOK
  BY DEF HandleCall, Goto, IInv
<1>2. PICK o \in Outcomes[request[s].type] :
         /\ truth' = [truth EXCEPT ![request[s].from] = o]
         /\ responses' = [responses EXCEPT ![s] = Append(responses[s], Reply(request[s].type, o))]
  BY DEF HandleCall, Respond
<1>3. Counted'
  BY <1>1, SameActive DEF IInv, Active, TypeOK
<1>4. ASSUME ~ Killed PROVE Traffic'
  <2>1. PICK t \in Threads : waiting[t] # "none" /\ Socket(t) = s
    BY <1>1, <1>4, QuietAt DEF Quiet, Unattended
  <2>2. Handled(t, s) /\ Asks(t) /\ Talking(t)
    BY <1>1, <1>4, <2>1, PendingAt DEF Pending, Queued, Answered
  <2>3. /\ request[s] = [type |-> waiting[t], from |-> t] /\ request[s].type = waiting[t] /\ request[s].from = t
        /\ requests[s] = <<>> /\ responses[s] = <<>>
    BY <2>2 DEF Handled
  <2>4. waiting[t] \in WorkerCalls \cup MainCalls \cup Hooks
    BY <1>1, <2>1, <2>2, <2>3 DEF Asks
  <2>5. Result(waiting[t], Reply(waiting[t], o)) = o
    BY <1>2, <2>3, <2>4, RoundTrip
  <2>6. responses'[s] = <<Reply(waiting[t], o)>> /\ truth'[t] = o
    BY <1>1, <1>2, <2>3 DEF TypeOK
  <2>7. waiting[t] \notin Controls
    BY <1>1, <2>3
  <2>8. waiting[t] # "TERMINATE_WORKER"
    BY <2>7 DEF Controls
  <2>9. Answered(t, s)'
    <3>1. Len(responses'[s]) = 1 /\ responses'[s][1] = Reply(waiting[t], o)
      BY <2>6
    <3>2. Result(waiting'[t], responses'[s][1]) = truth'[t]
      BY <2>5, <2>6, <3>1 DEF clientVars
    <3>3. requests'[s] = <<>> /\ handler'[s] = "recv" /\ waiting'[t] # "TERMINATE_WORKER"
      BY <1>1, <2>3, <2>8 DEF clientVars, TypeOK
    <3>. QED
      BY <3>1, <3>2, <3>3 DEF Answered
  <2>10. ASSUME NEW u \in Threads, waiting[u] # "none", Socket(u) = s PROVE Pending(u, s)'
    <3>1. u = t
      BY <1>4, <2>1, <2>2, <2>10, Exclusive, PendingAt
    <3>. QED
      BY <2>9, <3>1 DEF Pending
  <2>11. ~ Unattended(s)
    BY <2>1 DEF Unattended
  <2>12. Last(s)'
    BY <1>1 DEF Last, TypeOK
  <2>13. \A u \in Threads : truth'[u] = truth[u] \/ (waiting[u] # "none" /\ Socket(u) = s)
    BY <1>1, <1>2, <2>1, <2>3 DEF TypeOK
  <2>. QED
    BY <1>1, <1>2, <1>4, <2>10, <2>11, <2>12, <2>13, LocalTraffic DEF TypeOK
<1>5. ASSUME ~ Killed, ~ signalled PROVE Serving'
  <2>1. "recv" \notin {"backlog", "accepted", "reset"}
    OBVIOUS
  <2>2. \A r \in Sockets : responses'[r] = <<>> => responses[r] = <<>>
    <3>1. Reply(request[s].type, o) \in Response
      BY <1>1, <1>2 DEF Response, TypeOK, Request
    <3>2. responses[s] \in Seq(Response) /\ Append(responses[s], Reply(request[s].type, o)) # <<>>
      BY <1>1, <3>1, AppendNotEmpty DEF TypeOK
    <3>. QED
      BY <1>1, <1>2, <3>2 DEF TypeOK
  <2>. QED
    BY <1>1, <1>5, <2>1, <2>2, HandlerServing
<1>. QED
  BY <1>1, <1>3, <1>4, <1>5, ServerStep DEF clientVars, TypeOK

(* The handler answers a request to terminate. *)
LEMMA HandleControlStep ==
    ASSUME IInv, NEW s \in Sockets, HandleControl(s), UNCHANGED clientVars, TypeOK'
    PROVE  IInv'
<1>1. /\ handler[s] = "handle" /\ handler' = [handler EXCEPT ![s] = "obey"] /\ loop # "aborted"
      /\ request[s].type \in Controls
      /\ truth' = [truth EXCEPT ![request[s].from] = Void]
      /\ responses' = [responses EXCEPT ![s] = Append(responses[s], OK(<<>>))]
      /\ UNCHANGED <<m_server_stop, m_terminate_on_last_connection, m_num_active_connections,
                     loop, request, signalled, peer, requests>>
      /\ TypeOK
  BY DEF HandleControl, Goto, IInv, Respond
<1>2. Counted'
  BY <1>1, SameActive DEF IInv, Active, TypeOK
<1>3. ASSUME ~ Killed PROVE Traffic'
  <2>1. PICK t \in Threads : waiting[t] # "none" /\ Socket(t) = s
    BY <1>1, <1>3, QuietAt DEF Quiet, Unattended
  <2>2. Handled(t, s) /\ Asks(t) /\ Talking(t)
    BY <1>1, <1>3, <2>1, PendingAt DEF Pending, Queued, Answered
  <2>3. /\ request[s] = [type |-> waiting[t], from |-> t] /\ request[s].type = waiting[t] /\ request[s].from = t
        /\ requests[s] = <<>> /\ responses[s] = <<>>
    BY <2>2 DEF Handled
  <2>4. waiting[t] \in {"TERMINATE_WORKER", "TERMINATE_ON_LAST_CONNECTION"}
    BY <1>1, <2>1, <2>2, <2>3 DEF Asks, Controls
  <2>5. Result(waiting[t], OK(<<>>)) = Void
    BY <1>1, <2>3, ControlAnswered
  <2>6. responses'[s] = <<OK(<<>>)>> /\ truth'[t] = Void
    BY <1>1, <2>3 DEF TypeOK
  <2>7. Answered(t, s)'
    <3>1. Len(responses'[s]) = 1 /\ responses'[s][1] = OK(<<>>)
      BY <2>6
    <3>2. Result(waiting'[t], responses'[s][1]) = truth'[t]
      BY <2>5, <2>6, <3>1 DEF clientVars
    <3>3. requests'[s] = <<>> /\ handler'[s] = "obey" /\ request'[s].type = waiting[t] /\ waiting'[t] = waiting[t]
      BY <1>1, <2>3 DEF clientVars, TypeOK
    <3>. QED
      BY <2>4, <3>1, <3>2, <3>3 DEF Answered
  <2>8. ASSUME NEW u \in Threads, waiting[u] # "none", Socket(u) = s PROVE Pending(u, s)'
    <3>1. u = t
      BY <1>3, <2>1, <2>2, <2>8, Exclusive, PendingAt
    <3>. QED
      BY <2>7, <3>1 DEF Pending
  <2>9. ~ Unattended(s)
    BY <2>1 DEF Unattended
  <2>10. Last(s)'
    <3>1. ASSUME waiting[t] = "TERMINATE_ON_LAST_CONNECTION" PROVE m_connections[0] = s
      <4>1. pc[t] = "on_exit"
        BY <2>1, <2>2, <3>1 DEF Asks
      <4>2. t = Main
        BY <1>1, <4>1, Mains DEF TypeOK, WorkerLabels
      <4>. QED
        BY <1>3, <2>1, <2>2, <4>2, TalkingSocket
    <3>. QED
      BY <1>1, <2>3, <2>4, <3>1 DEF Last, clientVars, TypeOK
  <2>11. \A u \in Threads : truth'[u] = truth[u] \/ (waiting[u] # "none" /\ Socket(u) = s)
    BY <1>1, <2>1, <2>3 DEF TypeOK
  <2>. QED
    BY <1>1, <1>3, <2>8, <2>9, <2>10, <2>11, LocalTraffic DEF TypeOK
<1>4. ASSUME ~ Killed, ~ signalled PROVE Serving'
  <2>1. "obey" \notin {"backlog", "accepted", "reset"}
    OBVIOUS
  <2>2. \A r \in Sockets : responses'[r] = <<>> => responses[r] = <<>>
    <3>1. OK(<<>>) \in Response
      BY DEF Response
    <3>2. responses[s] \in Seq(Response) /\ Append(responses[s], OK(<<>>)) # <<>>
      BY <1>1, <3>1, AppendNotEmpty DEF TypeOK
    <3>. QED
      BY <1>1, <3>2 DEF TypeOK
  <2>. QED
    BY <1>1, <1>4, <2>1, <2>2, HandlerServing
<1>. QED
  BY <1>1, <1>2, <1>3, <1>4, ServerStep DEF clientVars, TypeOK

(* The handler obeys: nobody asks to terminate the server at once.         *)
LEMMA ObeyStep ==
    ASSUME IInv, NEW s \in Sockets, Obey(s), UNCHANGED clientVars, TypeOK'
    PROVE  IInv'
<1> DEFINE label == IF request[s].type = "TERMINATE_ON_LAST_CONNECTION" THEN "recv" ELSE "leave"
<1>1. /\ handler[s] = "obey" /\ handler' = [handler EXCEPT ![s] = label] /\ loop # "aborted"
      /\ m_server_stop' = (m_server_stop \/ request[s].type = "TERMINATE_SERVER")
      /\ m_terminate_on_last_connection' = (m_terminate_on_last_connection
                                            \/ request[s].type = "TERMINATE_ON_LAST_CONNECTION")
      /\ request' = [request EXCEPT ![s] = NoRequest]
      /\ UNCHANGED <<m_num_active_connections, loop, truth, signalled, socketVars>>
      /\ TypeOK
  BY DEF Obey, Goto, IInv
<1>2. label \in {"recv", "leave"} /\ (request[s].type = "TERMINATE_ON_LAST_CONNECTION" <=> label = "recv")
  OBVIOUS
<1> HIDE DEF label
<1>3. Counted'
  BY <1>1, <1>2, SameActive DEF IInv, Active, TypeOK
<1>4. ASSUME ~ Killed PROVE Traffic'
  <2>1. ASSUME NEW t \in Threads, waiting[t] # "none", Socket(t) = s PROVE Pending(t, s)'
    <3>1. Pending(t, s)
      BY <1>4, <2>1, PendingAt
    <3>2. CASE Queued(t, s)
      <4>1. label = "recv"
        BY <1>1, <1>2, <3>2 DEF Queued
      <4>. QED
        BY <1>1, <3>2, <4>1 DEF Pending, Queued, clientVars, socketVars, TypeOK
    <3>3. CASE Answered(t, s)
      <4>1. IF waiting[t] = "TERMINATE_WORKER" THEN label = "leave" ELSE label = "recv"
        BY <1>1, <1>2, <3>3 DEF Answered
      <4>. QED
        BY <1>1, <3>3, <4>1 DEF Pending, Answered, clientVars, socketVars, TypeOK
    <3>4. ~ Handled(t, s)
      BY <1>1 DEF Handled
    <3>. QED
      BY <3>1, <3>2, <3>3, <3>4 DEF Pending
  <2>2. Unattended(s) => Quiet(s)'
    BY <1>1, <1>2, <1>4, QuietAt DEF Quiet, socketVars, TypeOK
  <2>3. Last(s)'
    BY <1>1, <1>2 DEF Last, TypeOK
  <2>. QED
    BY <1>1, <1>4, <2>1, <2>2, <2>3, LocalTraffic DEF socketVars, TypeOK
<1>5. ASSUME ~ Killed, ~ signalled PROVE Serving'
  <2>1. /\ request[s].type \in {"TERMINATE_WORKER", "TERMINATE_ON_LAST_CONNECTION"}
        /\ request[s].type = "TERMINATE_ON_LAST_CONNECTION" => m_connections[0] = s
    BY <1>1, <1>5, QuietAt DEF Last
  <2>2. UNCHANGED m_server_stop
    BY <1>1, <2>1 DEF TypeOK
  <2>3. label \notin {"backlog", "accepted", "reset"}
    BY <1>2
  <2>. QED
    BY <1>1, <1>5, <2>1, <2>2, <2>3, HandlerServing DEF socketVars
<1>. QED
  BY <1>1, <1>2, <1>3, <1>4, <1>5, ServerStep DEF socketVars, clientVars, TypeOK

(* The handler ends. *)
LEMMA LeaveStep ==
    ASSUME IInv, NEW s \in Sockets, Leave(s), UNCHANGED clientVars, TypeOK'
    PROVE  IInv'
<1>1. /\ handler[s] = "leave" /\ handler' = [handler EXCEPT ![s] = "gone"] /\ loop # "aborted"
      /\ UNCHANGED <<m_server_stop, m_terminate_on_last_connection, loop, request, truth, signalled, socketVars>>
      /\ TypeOK
  BY DEF Leave, Goto, IInv
<1>2. Counted'
  BY LeaveCounted DEF IInv
<1>3. ASSUME ~ Killed PROVE Traffic'
  <2>1. ASSUME NEW t \in Threads, waiting[t] # "none", Socket(t) = s PROVE Pending(t, s)'
    <3>1. Answered(t, s) /\ waiting[t] = "TERMINATE_WORKER"
      BY <1>1, <1>3, <2>1, PendingAt DEF Pending, Handled, Queued, Answered
    <3>. QED
      BY <1>1, <3>1 DEF Pending, Answered, clientVars, socketVars, TypeOK
  <2>2. Unattended(s) => Quiet(s)'
    BY <1>1, <1>3, QuietAt DEF Quiet, socketVars, TypeOK
  <2>3. Last(s)'
    BY <1>1 DEF Last, TypeOK
  <2>. QED
    BY <1>1, <1>3, <2>1, <2>2, <2>3, LocalTraffic DEF socketVars, TypeOK
<1>4. ASSUME ~ Killed, ~ signalled PROVE Serving'
  <2>1. "gone" \notin {"backlog", "accepted", "reset"}
    OBVIOUS
  <2>. QED
    BY <1>1, <1>4, <2>1, HandlerServing DEF socketVars
<1>. QED
  BY <1>1, <1>2, <1>3, <1>4, ServerStep DEF socketVars, clientVars, TypeOK

-----------------------------------------------------------------------------
(* The steps of the client *)

(* A step of the client that sends and receives nothing. *)
LEMMA SilentTraffic ==
    ASSUME IInv, ~ Killed, UNCHANGED <<waiting, result, truth, requests, responses, request>>,
           \A u \in Threads : waiting[u] # "none" => pc'[u] = pc[u] /\ Socket(u)' = Socket(u),
           \A u \in Threads : pc[u] = "failed" => pc'[u] = "failed",
           \A s \in Sockets : \/ handler'[s] = handler[s] /\ peer'[s] = peer[s]
                              \/ peer[s] = "none" /\ handler[s] = "none" /\ handler'[s] = "backlog",
           m_connections'[0] = m_connections[0] \/ m_connections[0] = 0
    PROVE  Traffic'
<1>1. Traffic /\ TypeOK
  BY DEF IInv
<1>2. ASSUME NEW t \in Threads PROVE Asks(t)' /\ Session(t)'
  <2>1. CASE waiting[t] = "none"
    BY <1>1, <2>1 DEF Traffic, Asks, Session
  <2>2. CASE waiting[t] # "none"
    <3>1. PICK s \in Sockets : s = Socket(t) /\ Pending(t, s) /\ Asks(t) /\ peer[s] = "open"
      BY <2>2, PendingAt
    <3>2. handler'[s] = handler[s]
      BY <3>1
    <3>3. Pending(t, s)'
      BY <3>1, <3>2 DEF Pending, Queued, Handled, Answered
    <3>4. Asks(t)'
      BY <2>2, <3>1 DEF Asks, Talking
    <3>. QED
      BY <2>2, <3>1, <3>3, <3>4 DEF Session
  <2>. QED
    BY <2>1, <2>2
<1>3. ASSUME NEW s \in Sockets PROVE (Unattended(s)' => Quiet(s)') /\ Last(s)'
  <2>1. Unattended(s)' => Unattended(s)
    BY DEF Unattended
  <2>2. Quiet(s) => Quiet(s)'
    BY DEF Quiet
  <2>3. Last(s) => Last(s)'
    BY Mains DEF Last
  <2>. QED
    BY <2>1, <2>2, <2>3, QuietAt
<1>. QED
  BY <1>2, <1>3 DEF Traffic

(* A thread that talks changes its own connection, and the other ones are  *)
(* at most closed.                                                         *)
LEMMA ThreadTraffic ==
    ASSUME IInv, ~ Killed, NEW t \in Threads, NEW s \in Sockets, Talking(t), Socket(t) = s,
           UNCHANGED <<request, truth, handler>>,
           \A r \in Sockets : r # s => /\ requests'[r] = requests[r] /\ responses'[r] = responses[r]
                                       /\ peer'[r] \in {peer[r], "closed"},
           \A u \in Threads : u # t => /\ waiting'[u] = waiting[u] /\ result'[u] = result[u] /\ pc'[u] = pc[u]
                                       /\ waiting[u] # "none" => Socket(u)' = Socket(u),
           Asks(t)', Session(t)', Unattended(s)' => Quiet(s)',
           \A r \in Sockets : Last(r)'
    PROVE  Traffic'
<1>1. Traffic
  BY DEF IInv
<1>2. ASSUME NEW u \in Threads, u # t PROVE Asks(u)' /\ Session(u)'
  <2>1. CASE waiting[u] = "none"
    BY <1>1, <1>2, <2>1 DEF Traffic, Asks, Session
  <2>2. CASE waiting[u] # "none"
    <3>1. PICK r \in Sockets : r = Socket(u) /\ Pending(u, r) /\ Asks(u) /\ Talking(u)
      BY <2>2, PendingAt
    <3>2. r # s
      BY <1>2, <3>1, Exclusive
    <3>3. Pending(u, r)'
      BY <1>2, <3>1, <3>2 DEF Pending, Queued, Handled, Answered
    <3>4. Asks(u)'
      BY <1>2, <2>2, <3>1 DEF Asks, Talking
    <3>. QED
      BY <1>2, <2>2, <3>1, <3>3, <3>4 DEF Session
  <2>. QED
    BY <2>1, <2>2
<1>3. ASSUME NEW r \in Sockets, r # s PROVE Unattended(r)' => Quiet(r)'
  <2>1. Unattended(r)' => Unattended(r)
    BY <1>3 DEF Unattended
  <2>2. Quiet(r) => Quiet(r)'
    BY <1>3 DEF Quiet
  <2>. QED
    BY <2>1, <2>2, QuietAt
<1>. QED
  BY <1>2, <1>3 DEF Traffic

(* The server goes on serving, after a step of the client. *)
LEMMA ClientServing ==
    ASSUME IInv, ~ Killed, ~ signalled,
           UNCHANGED <<m_server_stop, m_terminate_on_last_connection, loop, handler>>,
           Leaving => Leaving',
           pc[Main] # "construct" => pc'[Main] # "construct",
           pc'[Main] # "end" => m_connections'[0] = m_connections[0] /\ pc[Main] # "end",
           \A t \in Threads : pc'[t] # "failed"
    PROVE  Serving'
<1>1. Serving
  BY DEF IInv
<1>. QED
  BY <1>1 DEF Serving

(* A worker runs only while the main thread waits for the workers. *)
LEMMA WorkerRuns ==
    ASSUME IInv, ~ Killed, NEW w \in Workers, pc[w] # "off"
    PROVE  /\ pc[Main] = "join" /\ ~ Leaving /\ m_connections[0] # 0
           /\ ~ signalled => loop = "select"
<1>1. pc[Main] = "join" /\ m_connections[0] # 0
  BY DEF IInv, Script
<1>. QED
  BY <1>1 DEF Leaving, IInv, Serving

(* A step of a client that is alive. *)
LEMMA ClientStep ==
    ASSUME IInv, ~ Killed, pc'[Main] # "killed", TypeOK', UNCHANGED <<loop, m_num_active_connections, signalled>>,
           \A s \in Sockets : s \in Active' <=> s \in Active,
           Script', Connections', Traffic', ~ signalled => Serving'
    PROVE  IInv'
<1>1. Counted'
  BY SameActive DEF IInv
<1>2. ~ Killed'
  BY DEF Killed
<1>. QED
  BY <1>1, <1>2 DEF IInv

(* The socket of a new connection is new. *)
LEMMA NewSocket ==
    ASSUME IInv, ~ Killed, NEW s \in Unused
    PROVE  /\ s \in Sockets /\ peer[s] = "none" /\ handler[s] = "none"
           /\ \A i \in 0 .. MaxNumConnections - 1 : m_connections[i] # s
<1>1. TypeOK /\ Connections
  BY DEF IInv
<1>2. s \in Sockets /\ peer[s] = "none" /\ handler[s] = "none"
  BY <1>1 DEF Unused, Connections
<1>3. ASSUME NEW i \in 0 .. MaxNumConnections - 1, m_connections[i] = s PROVE FALSE
  <2>1. i \in DOMAIN m_connections /\ m_connections[i] # 0
    BY <1>1, <1>2, <1>3, Mains DEF TypeOK
  <2>2. peer[m_connections[i]] = "open"
    BY <1>1, <2>1 DEF Connections
  <2>. QED
    BY <1>2, <1>3, <2>2
<1>. QED
  BY <1>2, <1>3

(* connect, by the constructor or by on_thread_init. *)
LEMMA ConnectStep ==
    ASSUME IInv, ~ Killed, TypeOK',
           NEW t \in Threads, NEW i \in 0 .. MaxNumConnections - 1, NEW next,
           \/ t = Main /\ i = 0 /\ next = "main_init" /\ pc[t] = "construct" /\ UNCHANGED m_worker_id
           \/ t \in Workers /\ i = t /\ next = "hello" /\ pc[t] = "thread_init" /\ m_worker_id' = [m_worker_id EXCEPT ![t] = t],
           Connect(t, i, next),
           UNCHANGED <<waiting, result, calls, rounds, serverRest, requests, responses>>
    PROVE  IInv'
<1>1. TypeOK /\ Script /\ Connections /\ Traffic /\ loop # "aborted"
  BY DEF IInv
<1>2. waiting[t] = "none"
  BY <1>1 DEF Traffic, Asks, Talking
<1>3. UNCHANGED <<loop, m_num_active_connections, signalled, m_server_stop, m_terminate_on_last_connection, request, truth>>
  BY DEF serverRest
<1>4. \A u \in Threads : u # t => m_worker_id'[u] = m_worker_id[u]
  BY <1>1 DEF TypeOK
<1>5. ~ Leaving /\ (~ signalled => loop = "select")
  <2>1. CASE t = Main
    BY <2>1, Mains DEF Leaving, IInv, Serving
  <2>2. CASE t \in Workers
    BY <2>2, Mains, WorkerRuns
  <2>. QED
    BY <2>1, <2>2, Mains
<1>6. CASE m_connections[i] # 0
  <2>1. UNCHANGED <<m_connections, peer, handler>> /\ pc' = [pc EXCEPT ![t] = next]
    BY <1>6 DEF Connect, Jump
  <2>2. t \in Workers /\ i = t /\ next = "hello" /\ m_worker_id'[t] = t
    BY <1>1, <1>6, Mains DEF Script, TypeOK
  <2>3. pc'[Main] = pc[Main] /\ \A u \in Threads : pc'[u] = IF u = t THEN "hello" ELSE pc[u]
    BY <1>1, <2>1, <2>2, Mains DEF TypeOK
  <2>4. Script'
    BY <1>1, <1>4, <1>6, <2>1, <2>2, <2>3, Mains, WorkerRuns DEF Script, Talking, Socket
  <2>5. Connections'
    BY <1>1, <2>1 DEF Connections
  <2>6. Traffic'
    <3>1. \A u \in Threads : waiting[u] # "none" => pc'[u] = pc[u] /\ Socket(u)' = Socket(u)
      BY <1>2, <1>4, <2>1, <2>3 DEF Socket
    <3>. QED
      BY <1>3, <2>1, <2>2, <2>3, <3>1, SilentTraffic
  <2>7. ~ signalled => Serving'
    BY <1>3, <1>5, <2>1, <2>3, Mains, WorkerRuns, <2>2, ClientServing DEF IInv, Serving
  <2>8. pc'[Main] # "killed"
    BY <2>3 DEF Killed
  <2>. QED
    BY <1>3, <2>1, <2>4, <2>5, <2>6, <2>7, <2>8, ClientStep DEF Active
<1>7. CASE m_connections[i] = 0 /\ Listening
  <2>1. PICK s \in Unused :
             /\ m_connections' = [m_connections EXCEPT ![i] = s]
             /\ peer' = [peer EXCEPT ![s] = "open"]
             /\ handler' = [handler EXCEPT ![s] = "backlog"]
    BY <1>7 DEF Connect
  <2>2. pc' = [pc EXCEPT ![t] = next]
    BY <1>7 DEF Connect, Jump
  <2>3. /\ s \in Sockets /\ peer[s] = "none" /\ handler[s] = "none" /\ s # 0
        /\ \A j \in 0 .. MaxNumConnections - 1 : m_connections[j] # s
    BY NewSocket, Mains
  <2>4. \A j \in 0 .. MaxNumConnections - 1 : m_connections'[j] = IF j = i THEN s ELSE m_connections[j]
    BY <1>1, <2>1 DEF TypeOK
  <2>5. \A r \in Sockets : /\ peer'[r] = IF r = s THEN "open" ELSE peer[r]
                           /\ handler'[r] = IF r = s THEN "backlog" ELSE handler[r]
    BY <1>1, <2>1 DEF TypeOK
  <2>6. \A u \in Threads : pc'[u] = IF u = t THEN next ELSE pc[u]
    BY <1>1, <2>2 DEF TypeOK
  <2>7. m_connections'[0] = m_connections[0] \/ (t = Main /\ m_connections[0] = 0)
    BY <1>7, <2>4, Mains, WorkerRuns
  <2>8. ASSUME NEW u \in Threads, u # t, Talking(u)
        PROVE  Socket(u)' = Socket(u) /\ m_worker_id[u] \in 0 .. MaxNumConnections - 1
    <3>1. Socket(u) # 0 /\ m_worker_id[u] \in 0 .. MaxNumConnections - 1
      BY <1>1, <2>8 DEF Script, TypeOK
    <3>. QED
      BY <1>4, <1>7, <2>4, <2>8, <3>1 DEF Socket
  <2>9. Script'
    <3>1. pc'[Main] \in {"spawn", "join"} => m_connections'[0] # 0
      BY <1>1, <2>6, <2>7, Mains DEF Script
    <3>2. pc'[Main] # "construct" /\ (t # Main => pc'[Main] = "join")
      BY <2>6, Mains, WorkerRuns
    <3>3. m_worker_id'[Main] = 0
      BY <1>1, <1>4, Mains DEF Script
    <3>4. ASSUME NEW w \in Workers
          PROVE  /\ pc'[w] # "killed" /\ (pc'[Main] # "join" => pc'[w] = "off")
                 /\ (pc'[w] = "terminate" => w > 0) /\ (Talking(w)' => m_worker_id'[w] = w)
      <4>1. CASE w = t
        BY <1>1, <2>6, <3>2, <4>1, Mains DEF TypeOK
      <4>2. CASE w # t
        <5>1. m_worker_id'[w] = m_worker_id[w] /\ pc'[w] = pc[w] /\ w \in Threads
          BY <1>4, <2>6, <4>2, Mains
        <5>2. pc'[Main] # "join" => pc[Main] # "join"
          BY <2>6, <3>2, Mains
        <5>. QED
          BY <1>1, <5>1, <5>2 DEF Script, Talking
      <4>. QED
        BY <4>1, <4>2
    <3>5. ASSUME NEW u \in Threads, Talking(u)' PROVE Socket(u)' # 0
      <4>1. CASE u = t
        <5>1. m_worker_id'[t] = i
          BY <1>1, Mains DEF Script, TypeOK
        <5>. QED
          BY <2>3, <2>4, <4>1, <5>1 DEF Socket
      <4>2. CASE u # t
        <5>1. Talking(u)
          BY <2>6, <3>5, <4>2 DEF Talking
        <5>. QED
          BY <1>1, <2>8, <4>2, <5>1 DEF Script
      <4>. QED
        BY <4>1, <4>2
    <3>. QED
      BY <3>1, <3>2, <3>3, <3>4, <3>5 DEF Script
  <2>10. Connections'
    BY <1>1, <2>1, <2>3, <2>4, <2>5, Mains DEF Connections, TypeOK
  <2>11. Traffic'
    <3>1. \A u \in Threads : waiting[u] # "none" => pc'[u] = pc[u] /\ Socket(u)' = Socket(u)
      BY <1>1, <1>2, <2>6, <2>8 DEF Traffic, Asks
    <3>2. next # "failed" /\ pc[t] # "failed"
      OBVIOUS
    <3>. QED
      BY <1>3, <2>3, <2>5, <2>6, <2>7, <3>1, <3>2, SilentTraffic
  <2>12. ASSUME ~ signalled PROVE Serving'
    <3>1. Serving /\ loop = "select"
      BY <1>5, <2>12 DEF IInv
    <3>2. pc'[Main] # "construct" /\ \A u \in Threads : pc'[u] # "failed"
      BY <2>6, <3>1, Mains, WorkerRuns DEF Serving
    <3>3. ASSUME m_terminate_on_last_connection PROVE handler'[m_connections'[0]] \notin {"backlog", "accepted"}
      <4>1. t \in Workers /\ pc[Main] = "join"
        BY <3>1, <3>3, Mains, WorkerRuns DEF Serving
      <4>2. m_connections[0] \in Sockets /\ m_connections'[0] = m_connections[0]
        BY <2>7, <4>1, MainConnected, Mains
      <4>. QED
        BY <2>3, <2>5, <3>1, <3>3, <4>1, <4>2, Mains DEF Serving
    <3>. QED
      BY <1>3, <2>5, <3>1, <3>2, <3>3 DEF Serving
  <2>13. pc'[Main] # "killed"
    BY <2>6, Mains DEF Killed
  <2>14. \A r \in Sockets : r \in Active' <=> r \in Active
    BY <2>3, <2>5 DEF Active
  <2>. QED
    BY <1>3, <2>9, <2>10, <2>11, <2>12, <2>13, <2>14, ClientStep
<1>8. CASE m_connections[i] = 0 /\ ~ Listening
  <2>1. UNCHANGED <<m_connections, peer, handler>> /\ pc' = [pc EXCEPT ![t] = "failed"]
    BY <1>8 DEF Connect, Jump
  <2>2. signalled
    BY <1>1, <1>5, <1>8 DEF Listening
  <2>3. \A u \in Threads : pc'[u] = IF u = t THEN "failed" ELSE pc[u]
    BY <1>1, <2>1 DEF TypeOK
  <2>4. Script'
    <3>1. \A u \in Threads : Talking(u)' => Talking(u) /\ Socket(u)' = Socket(u) /\ u # t
      BY <1>4, <2>1, <2>3 DEF Talking, Socket
    <3>2. m_worker_id'[Main] = 0
      BY <1>1, <1>4, Mains DEF Script
    <3>3. \A w \in Workers : w # t => m_worker_id'[w] = m_worker_id[w] /\ pc'[w] = pc[w]
      BY <1>4, <2>3, Mains
    <3>. QED
      BY <1>1, <2>1, <2>3, <3>1, <3>2, <3>3, Mains, WorkerRuns DEF Script
  <2>5. Connections'
    BY <1>1, <2>1 DEF Connections
  <2>6. Traffic'
    <3>1. \A u \in Threads : waiting[u] # "none" => pc'[u] = pc[u] /\ Socket(u)' = Socket(u)
      BY <1>2, <1>4, <2>1, <2>3 DEF Socket
    <3>. QED
      BY <1>3, <2>1, <2>3, <3>1, SilentTraffic
  <2>7. pc'[Main] # "killed"
    BY <2>3, Mains DEF Killed
  <2>. QED
    BY <1>3, <2>1, <2>2, <2>4, <2>5, <2>6, <2>7, ClientStep DEF Active
<1>. QED
  BY <1>6, <1>7, <1>8 DEF Connect

(* The request of a thread. *)
LEMMA SendStep ==
    ASSUME IInv, ~ Killed, TypeOK', NEW t \in Threads, Send(t)
    PROVE  IInv'
<1>1. TypeOK /\ Script /\ Connections /\ Traffic /\ loop # "aborted"
  BY DEF IInv
<1>2. PICK type \in RequestsAt(t) :
          /\ requests' = [requests EXCEPT ![Socket(t)] = Append(@, [type |-> type, from |-> t])]
          /\ waiting' = [waiting EXCEPT ![t] = type]
  BY DEF Send
<1>3. /\ waiting[t] = "none"
      /\ UNCHANGED <<pc, m_worker_id, m_connections, result, calls, rounds, serverVars, peer, responses>>
      /\ UNCHANGED <<m_server_stop, m_terminate_on_last_connection, m_num_active_connections, loop, handler, request, truth, signalled>>
  BY DEF Send, serverVars
<1>4. Talking(t)
  BY <1>2 DEF RequestsAt, Talking
<1>5. PICK s \in Sockets : s = Socket(t) /\ peer[s] = "open"
  BY <1>4, TalkingSocket
<1>6. \A u \in Threads : Socket(u)' = Socket(u) /\ (Talking(u)' <=> Talking(u))
  BY <1>3 DEF Socket, Talking
<1>7. Asks(t)'
  <2>1. /\ WorkerCalls \cap Controls = {} /\ MainCalls \cap Controls = {} /\ Hooks \cap Controls = {}
        /\ {"ON_MAIN_INIT", "ON_THREAD_INIT", "ON_THREAD_DESTROY", "ON_MAIN_DESTROY"} \subseteq Hooks
        /\ Controls = {"TERMINATE_WORKER", "TERMINATE_SERVER", "TERMINATE_ON_LAST_CONNECTION"}
    BY ClientAssumption DEF Hooks, Controls
  <2>2. /\ type \in (WorkerCalls \cup MainCalls \cup Hooks \cup Controls) \ {"TERMINATE_SERVER"}
        /\ type = "TERMINATE_WORKER" <=> pc[t] = "terminate"
        /\ type = "TERMINATE_ON_LAST_CONNECTION" <=> pc[t] = "on_exit"
    <3>1. CASE pc[t] = "work" \/ pc[t] = "analyse"
      <4>1. type \in WorkerCalls \cup MainCalls
        BY <1>2, <3>1 DEF RequestsAt
      <4>. QED
        BY <2>1, <3>1, <4>1
    <3>2. CASE pc[t] # "work" /\ pc[t] # "analyse"
      BY <1>2, <2>1, <3>2 DEF RequestsAt
    <3>. QED
      BY <3>1, <3>2
  <2>3. waiting'[t] = type
    BY <1>1, <1>2 DEF TypeOK
  <2>. QED
    BY <1>3, <1>4, <1>6, <2>2, <2>3 DEF Asks
<1>8. Unattended(s)
  BY <1>3, <1>4, <1>5, Exclusive, PendingAt DEF Unattended
<1>9. Quiet(s)
  BY <1>8, QuietAt
<1>10. waiting'[t] = type /\ type # "none"
  BY <1>1, <1>2, RequestsTyped DEF TypeOK
<1>11. Session(t)'
  <2>1. Queued(t, s)'
    <3>1. responses'[s] = <<>> /\ handler'[s] \in {"backlog", "accepted", "recv", "obey", "reset"}
      BY <1>3, <1>5, <1>9 DEF Quiet
    <3>2. handler'[s] = "obey" => request'[s].type = "TERMINATE_ON_LAST_CONNECTION"
      BY <1>3, <1>5, <1>9 DEF Quiet
    <3>3. requests'[s] = << [type |-> waiting'[t], from |-> t] >> \/ handler'[s] = "reset"
      <4>1. CASE requests[s] = <<>>
        BY <1>1, <1>2, <1>5, <1>10, <4>1 DEF TypeOK
      <4>. QED
        BY <1>3, <1>9, <4>1 DEF Quiet
    <3>. QED
      BY <3>1, <3>2, <3>3 DEF Queued
  <2>. QED
    BY <1>5, <1>6, <1>10, <2>1 DEF Session, Pending
<1>12. Traffic'
  <2>1. ~ Unattended(s)'
    BY <1>5, <1>6, <1>10 DEF Unattended
  <2>2. \A r \in Sockets : Last(r)'
    BY <1>3, QuietAt DEF Last
  <2>3. \A u \in Threads : u # t => waiting'[u] = waiting[u]
    BY <1>1, <1>2 DEF TypeOK
  <2>4. \A r \in Sockets : r # s => requests'[r] = requests[r]
    BY <1>1, <1>2, <1>5 DEF TypeOK
  <2>. QED
    BY <1>3, <1>4, <1>5, <1>6, <1>7, <1>11, <2>1, <2>2, <2>3, <2>4, ThreadTraffic
<1>13. Script' /\ Connections'
  <2>1. Script'
    BY <1>1, <1>3, <1>6, Mains DEF Script
  <2>2. Connections'
    BY <1>1, <1>3 DEF Connections
  <2>. QED
    BY <2>1, <2>2
<1>14. ASSUME ~ signalled PROVE Serving'
  <2>1. Leaving => Leaving'
    <3>1. CASE t = Main
      BY <1>3, <1>4, <3>1 DEF Leaving, Talking
    <3>2. CASE t # Main
      BY <1>4, <3>2, Mains, WorkerRuns DEF Talking
    <3>. QED
      BY <3>1, <3>2
  <2>2. \A u \in Threads : pc'[u] # "failed"
    BY <1>3, <1>14 DEF IInv, Serving
  <2>3. pc[Main] # "end"
    BY <1>4, Mains, WorkerRuns DEF Talking
  <2>. QED
    BY <1>3, <1>14, <2>1, <2>2, <2>3, ClientServing
<1>15. pc'[Main] # "killed"
  BY <1>3 DEF Killed
<1>. QED
  BY <1>3, <1>12, <1>13, <1>14, <1>15, ClientStep DEF Active

(* The connection was reset, which does not happen as long as nobody stops *)
(* the server.                                                             *)
LEMMA ReceiveFailsStep ==
    ASSUME IInv, ~ Killed, TypeOK', NEW t \in Threads, ReceiveFails(t)
    PROVE  IInv'
<1>1. TypeOK /\ Script /\ Connections /\ Traffic /\ loop # "aborted"
  BY DEF IInv
<1>2. /\ waiting[t] # "none" /\ responses[Socket(t)] = <<>> /\ handler[Socket(t)] = "reset"
      /\ waiting' = [waiting EXCEPT ![t] = "none"] /\ pc' = [pc EXCEPT ![t] = "failed"]
      /\ UNCHANGED <<m_worker_id, m_connections, result, peer, requests, responses>>
      /\ UNCHANGED <<m_server_stop, m_terminate_on_last_connection, m_num_active_connections, loop, handler, request, truth, signalled>>
  BY DEF ReceiveFails, Jump, serverVars, socketVars
<1>3. PICK s \in Sockets : s = Socket(t) /\ Pending(t, s) /\ Talking(t)
  BY <1>2, PendingAt
<1>4. signalled
  <2>1. ASSUME ~ signalled PROVE FALSE
    <3>1. Serving /\ Leaving
      BY <1>2, <1>3, <2>1 DEF IInv, Serving
    <3>2. t = Main
      BY <1>3, <3>1, Mains, WorkerRuns DEF Talking
    <3>3. s = m_connections[0]
      BY <1>3, <3>2, TalkingSocket
    <3>. QED
      BY <1>2, <1>3, <3>1, <3>2, <3>3 DEF Leaving, Talking
  <2>. QED
    BY <2>1
<1>5. \A u \in Threads : /\ pc'[u] = IF u = t THEN "failed" ELSE pc[u]
                         /\ waiting'[u] = IF u = t THEN "none" ELSE waiting[u]
                         /\ Socket(u)' = Socket(u)
  BY <1>1, <1>2 DEF TypeOK, Socket
<1>6. Script'
  <2>1. \A u \in Threads : Talking(u)' => Talking(u) /\ u # t
    BY <1>5 DEF Talking
  <2>2. t # Main => pc[Main] = "join"
    BY <1>3, Mains, WorkerRuns DEF Talking
  <2>3. t = Main => \A w \in Workers : pc[w] = "off"
    BY <1>1, <1>3 DEF Script, Talking
  <2>4. \A w \in Workers : w \in Threads /\ w # Main
    BY Mains
  <2>. QED
    BY <1>1, <1>2, <1>5, <2>1, <2>2, <2>3, <2>4, Mains DEF Script
<1>7. Connections'
  BY <1>1, <1>2 DEF Connections
<1>8. Traffic'
  <2>1. Asks(t)' /\ Session(t)'
    BY <1>5 DEF Asks, Session
  <2>2. Quiet(s)'
    BY <1>2, <1>3 DEF Pending, Queued, Handled, Answered, Quiet
  <2>3. \A r \in Sockets : Last(r)'
    BY <1>2, QuietAt DEF Last
  <2>. QED
    BY <1>2, <1>3, <1>5, <2>1, <2>2, <2>3, ThreadTraffic
<1>9. pc'[Main] # "killed"
  BY <1>5, Mains DEF Killed
<1>. QED
  BY <1>2, <1>4, <1>6, <1>7, <1>8, <1>9, ClientStep DEF Active

(* The response that a thread receives is the one to its request. *)
LEMMA ReceiveStep ==
    ASSUME IInv, ~ Killed, TypeOK', NEW t \in Threads, Receive(t)
    PROVE  IInv'
<1> DEFINE closes == pc[t] = "terminate"
<1> DEFINE C == IF t = Main THEN DOMAIN m_connections ELSE {m_worker_id[t]}
<1>1. TypeOK /\ Script /\ Connections /\ Traffic /\ loop # "aborted"
  BY DEF IInv
<1>2. /\ waiting[t] # "none" /\ responses[Socket(t)] # <<>>
      /\ result' = [result EXCEPT ![t] = Result(waiting[t], Head(responses[Socket(t)]))]
      /\ responses' = [responses EXCEPT ![Socket(t)] = Tail(@)]
      /\ waiting' = [waiting EXCEPT ![t] = "none"]
      /\ pc' = [pc EXCEPT ![t] = AfterResponse(t)]
      /\ m_worker_id' = [m_worker_id EXCEPT ![t] = IF AfterResponse(t) = "off" THEN 0 ELSE @]
      /\ IF closes THEN Disconnect(C) ELSE UNCHANGED <<m_connections, peer>>
      /\ UNCHANGED requests
      /\ UNCHANGED <<m_server_stop, m_terminate_on_last_connection, m_num_active_connections, loop, handler, request, truth, signalled>>
  BY DEF Receive, Jump, serverVars
<1>3. PICK s \in Sockets : s = Socket(t) /\ Pending(t, s) /\ Talking(t) /\ Asks(t) /\ peer[s] = "open"
  BY <1>2, PendingAt
<1>4. Answered(t, s)
  BY <1>2, <1>3 DEF Pending, Queued, Handled
<1>5. Head(responses[s]) = responses[s][1] /\ Tail(responses[s]) = <<>>
  <2>1. responses[s] \in Seq(Response) /\ Len(responses[s]) = 1
    BY <1>1, <1>4 DEF TypeOK, Answered
  <2>2. responses[s] # <<>> /\ Head(responses[s]) = responses[s][1]
    BY <1>2, <1>3, <2>1
  <2>3. Tail(responses[s]) \in Seq(Response) /\ Len(Tail(responses[s])) = 0
    BY <2>1, <2>2
  <2>. QED
    BY <2>2, <2>3, EmptySeq
<1>6. /\ responses'[s] = <<>> /\ result'[t] = truth[t]
      /\ \A r \in Sockets : r # s => responses'[r] = responses[r]
      /\ \A u \in Threads : u # t => result'[u] = result[u]
  <2>1. Result(waiting[t], responses[s][1]) = truth[t]
    BY <1>4 DEF Answered
  <2>. QED
    BY <1>1, <1>2, <1>3, <1>5, <2>1 DEF TypeOK
<1>7. \A u \in Threads : /\ pc'[u] = IF u = t THEN AfterResponse(t) ELSE pc[u]
                         /\ waiting'[u] = IF u = t THEN "none" ELSE waiting[u]
                         /\ u # t => m_worker_id'[u] = m_worker_id[u]
  BY <1>1, <1>2 DEF TypeOK
<1>8. /\ AfterResponse(t) \notin {"failed", "killed", "construct", "join", "thread_init"}
      /\ t = Main => pc[t] \in {"main_init", "on_exit", "analyse", "main_destroy", "terminate"}
      /\ t # Main => pc[t] \in {"hello", "work", "thread_destroy", "terminate"}
  <2>1. t = Main => pc[t] \in {"main_init", "on_exit", "analyse", "main_destroy", "terminate"}
    BY <1>1, <1>3 DEF TypeOK, Talking, MainLabels
  <2>2. t # Main => pc[t] \in {"hello", "work", "thread_destroy", "terminate"}
    BY <1>1, <1>3, Mains DEF TypeOK, Talking, WorkerLabels
  <2>3. AfterResponse(t) \notin {"failed", "killed", "construct", "join", "thread_init"}
    BY <2>1, <2>2 DEF AfterResponse
  <2>. QED
    BY <2>1, <2>2, <2>3
<1>9. /\ t = Main => \A w \in Workers : pc[w] = "off"
      /\ t # Main => pc[Main] = "join" /\ t \in Workers /\ m_worker_id[t] = t
  <2>1. t = Main => pc[Main] # "join"
    BY <1>8
  <2>2. t # Main => t \in Workers /\ pc[t] # "off"
    BY <1>8, Mains
  <2>. QED
    BY <1>1, <1>3, <2>1, <2>2, WorkerRuns DEF Script
<1>10. /\ \A i \in 0 .. MaxNumConnections - 1 : m_connections'[i] = IF closes /\ i \in C THEN 0 ELSE m_connections[i]
       /\ \A r \in Sockets : peer'[r] = IF closes /\ \E i \in C : m_connections[i] = r THEN "closed" ELSE peer[r]
       /\ DOMAIN m_connections' = 0 .. MaxNumConnections - 1
  <2>1. DOMAIN m_connections = 0 .. MaxNumConnections - 1 /\ DOMAIN peer = Sockets
    BY <1>1 DEF TypeOK
  <2>2. CASE closes
    BY <1>2, <2>1, <2>2 DEF Disconnect
  <2>3. CASE ~ closes
    BY <1>2, <2>1, <2>3
  <2>. QED
    BY <2>2, <2>3
<1>11. m_worker_id[t] \in C /\ C \subseteq 0 .. MaxNumConnections - 1 /\ m_connections[m_worker_id[t]] = s
  BY <1>1, <1>3, Mains DEF TypeOK, Socket
<1>12. closes /\ t # Main => t > 0
  BY <1>1, <1>9 DEF Script
<1>13. pc'[Main] # "end" => pc[Main] # "end" /\ m_connections'[0] = m_connections[0]
  <2>1. CASE t = Main
    <3>1. closes => AfterResponse(t) = "end"
      BY <2>1 DEF AfterResponse
    <3>. QED
      BY <1>7, <1>8, <1>10, <2>1, <3>1, Mains
  <2>2. CASE t # Main
    <3>1. ~ (closes /\ 0 \in C)
      BY <1>9, <1>12, <2>2
    <3>. QED
      BY <1>9, <1>10, <2>2, <3>1, Mains
  <2>. QED
    BY <2>1, <2>2
<1>14. ASSUME NEW u \in Threads, u # t, Talking(u) PROVE Socket(u)' = Socket(u)
  <2>1. t # Main
    BY <1>9, <1>14, Mains DEF Talking
  <2>2. m_worker_id[u] \in 0 .. MaxNumConnections - 1 /\ m_worker_id[u] # m_worker_id[t]
    BY <1>3, <1>14, Exclusive, TalkingSocket DEF Socket
  <2>. QED
    BY <1>7, <1>10, <1>14, <2>1, <2>2 DEF Socket
<1>15. Traffic'
  <2>1. Asks(t)' /\ Session(t)'
    BY <1>2, <1>6, <1>7 DEF Asks, Session
  <2>2. Quiet(s)'
    <3>1. requests'[s] = <<>> /\ responses'[s] = <<>> /\ handler'[s] # "handle"
      BY <1>2, <1>4, <1>6 DEF Answered
    <3>2. CASE closes
      <4>1. peer'[s] = "closed"
        BY <1>10, <1>11, <3>2
      <4>. QED
        BY <3>1, <4>1 DEF Quiet
    <3>3. CASE ~ closes
      <4>1. waiting[t] # "TERMINATE_WORKER"
        BY <1>2, <1>3, <3>3 DEF Asks
      <4>. QED
        BY <1>2, <1>4, <3>1, <4>1 DEF Quiet, Answered
    <3>. QED
      BY <3>2, <3>3
  <2>3. ASSUME NEW r \in Sockets PROVE Last(r)'
    <3>1. ASSUME handler[r] = "obey", request[r].type = "TERMINATE_ON_LAST_CONNECTION" PROVE m_connections'[0] = r
      <4>1. m_connections[0] = r
        BY <3>1, QuietAt DEF Last
      <4>2. CASE pc'[Main] # "end"
        BY <1>13, <4>1, <4>2
      <4>3. CASE pc'[Main] = "end"
        <5>1. t = Main /\ closes
          BY <1>7, <1>8, <1>9, <4>3, Mains DEF AfterResponse
        <5>2. r = s /\ waiting[t] = "TERMINATE_WORKER"
          BY <1>2, <1>3, <4>1, <5>1, TalkingSocket DEF Asks
        <5>. QED
          BY <1>4, <3>1, <5>2 DEF Answered
      <4>. QED
        BY <4>2, <4>3
    <3>. QED
      BY <1>2, <3>1, QuietAt DEF Last
  <2>4. \A u \in Threads : u # t /\ waiting[u] # "none" => Socket(u)' = Socket(u)
    BY <1>14, PendingAt
  <2>5. \A r \in Sockets : peer'[r] \in {peer[r], "closed"}
    BY <1>10
  <2>. QED
    BY <1>2, <1>3, <1>6, <1>7, <2>1, <2>2, <2>3, <2>4, <2>5, ThreadTraffic
<1>16. Connections'
  <2>1. DOMAIN m_connections = 0 .. MaxNumConnections - 1 /\ DOMAIN m_connections' = 0 .. MaxNumConnections - 1
    BY <1>1, <1>10 DEF TypeOK
  <2>2. ASSUME NEW i \in DOMAIN m_connections, m_connections'[i] # 0
        PROVE  /\ m_connections'[i] = m_connections[i] /\ m_connections[i] \in Sockets /\ peer[m_connections[i]] = "open"
               /\ peer'[m_connections[i]] = "open"
    <3>1. m_connections'[i] = m_connections[i] /\ ~ (closes /\ i \in C)
      BY <1>10, <2>1, <2>2
    <3>2. m_connections[i] \in Sockets /\ peer[m_connections[i]] = "open"
      BY <1>1, <2>1, <2>2, <3>1, Mains DEF Connections, TypeOK
    <3>3. \A j \in C : closes => m_connections[j] # m_connections[i]
      BY <1>1, <1>11, <2>1, <2>2, <3>1 DEF Connections
    <3>. QED
      BY <1>10, <3>1, <3>2, <3>3
  <2>3. ASSUME NEW r \in Sockets PROVE peer'[r] = "none" <=> handler'[r] = "none"
    <3>1. ASSUME NEW i \in C, m_connections[i] = r PROVE peer[r] = "open"
      BY <1>1, <1>11, <2>1, <3>1, Mains DEF Connections
    <3>. QED
      BY <1>1, <1>2, <1>10, <3>1 DEF Connections
  <2>. QED
    BY <1>1, <2>1, <2>2, <2>3 DEF Connections
<1>17. ~ signalled => Serving'
  <2>1. Leaving => Leaving'
    <3>1. CASE t = Main
      BY <1>7, <3>1 DEF Leaving, AfterResponse
    <3>2. CASE t # Main
      BY <1>9, <3>2 DEF Leaving
    <3>. QED
      BY <3>1, <3>2
  <2>2. ~ signalled => \A u \in Threads : pc'[u] # "failed"
    BY <1>7, <1>8 DEF IInv, Serving
  <2>3. pc[Main] # "construct" => pc'[Main] # "construct"
    BY <1>7, <1>8, Mains
  <2>. QED
    BY <1>2, <1>13, <2>1, <2>2, <2>3, ClientServing
<1>18. Script'
  <2>1. pc'[Main] \in {"spawn", "join"} => m_connections'[0] # 0
    <3>1. pc[Main] \notin {"construct", "failed", "end"} => m_connections[0] # 0
      BY MainConnected, Mains
    <3>. QED
      BY <1>7, <1>8, <1>9, <1>13, <3>1, Mains
  <2>2. pc'[Main] # "construct" /\ (pc'[Main] = "join" <=> pc[Main] = "join")
    BY <1>7, <1>8, <1>9, Mains
  <2>3. m_worker_id'[Main] = 0
    <3>1. m_worker_id'[t] \in {0, m_worker_id[t]}
      BY <1>1, <1>2 DEF TypeOK
    <3>. QED
      BY <1>1, <1>7, <3>1, Mains DEF Script
  <2>4. ASSUME NEW w \in Workers
        PROVE  /\ pc'[w] # "killed" /\ (pc'[Main] # "join" => pc'[w] = "off")
               /\ (pc'[w] = "terminate" => w > 0) /\ (Talking(w)' => m_worker_id'[w] = w)
    <3>1. CASE w = t
      <4>1. t # Main /\ pc'[w] = AfterResponse(t) /\ pc'[Main] = "join"
        BY <1>7, <1>9, <3>1, Mains
      <4>2. AfterResponse(t) = "terminate" => t > 0
        BY <1>8, <1>9, <4>1 DEF AfterResponse, OwnsConnection
      <4>3. AfterResponse(t) # "off" => m_worker_id'[t] = t
        BY <1>1, <1>2, <1>9, <4>1 DEF TypeOK
      <4>. QED
        BY <1>8, <3>1, <4>1, <4>2, <4>3 DEF Talking
    <3>2. CASE w # t
      <4>1. pc'[w] = pc[w] /\ m_worker_id'[w] = m_worker_id[w]
        BY <1>7, <3>2, Mains
      <4>. QED
        BY <1>1, <2>2, <4>1 DEF Script, Talking
    <3>. QED
      BY <3>1, <3>2
  <2>5. ASSUME NEW u \in Threads, Talking(u)' PROVE Socket(u)' # 0
    <3>1. CASE u = t
      <4>1. ~ closes
        BY <1>7, <2>5, <3>1 DEF AfterResponse, Talking
      <4>2. m_worker_id'[t] = m_worker_id[t]
        BY <1>1, <1>2, <1>7, <2>5, <3>1 DEF Talking, TypeOK
      <4>. QED
        BY <1>2, <1>3, <3>1, <4>1, <4>2, Mains DEF Socket
    <3>2. CASE u # t
      <4>1. Talking(u)
        BY <1>7, <2>5, <3>2 DEF Talking
      <4>. QED
        BY <1>14, <3>2, <4>1, TalkingSocket, Mains
    <3>. QED
      BY <3>1, <3>2
  <2>. QED
    BY <2>1, <2>2, <2>3, <2>4, <2>5 DEF Script
<1>19. pc'[Main] # "killed"
  BY <1>7, <1>8, Mains DEF Killed
<1>. QED
  BY <1>2, <1>15, <1>16, <1>17, <1>18, <1>19, ClientStep DEF Active

(* The script of the main thread. *)
LEMMA ScriptStep ==
    ASSUME IInv, ~ Killed, TypeOK', SkipOnExit \/ Spawn \/ Join
    PROVE  IInv'
<1>1. TypeOK /\ Script /\ Connections /\ Traffic /\ loop # "aborted"
  BY DEF IInv
<1>2. /\ pc[Main] \in {"on_exit", "spawn", "join"} /\ pc'[Main] \in {"spawn", "join", "analyse"}
      /\ (pc[Main] = "on_exit" => waiting[Main] = "none")
      /\ \A w \in Workers : pc[w] = "off" /\ pc'[w] \in {"off", "thread_init"} /\ (pc'[Main] # "join" => pc'[w] = "off")
      /\ \A t \in Threads : pc'[t] # "failed" \/ pc[t] = "failed"
  <2>1. CASE SkipOnExit
    BY <1>1, <2>1, Mains DEF SkipOnExit, Jump, TypeOK, Script
  <2>2. CASE Spawn
    BY <1>1, <2>2, Mains DEF Spawn, TypeOK, Script
  <2>3. CASE Join
    BY <1>1, <2>3, Mains DEF Join, Jump, TypeOK, Script
  <2>. QED
    BY <2>1, <2>2, <2>3
<1>3. /\ UNCHANGED <<m_worker_id, m_connections, waiting, result, peer, requests, responses>>
      /\ UNCHANGED <<m_server_stop, m_terminate_on_last_connection, m_num_active_connections, loop, handler, request, truth, signalled>>
  BY DEF SkipOnExit, Spawn, Join, clientRest, serverVars, socketVars
<1>4. m_connections[0] # 0
  BY <1>2, MainConnected, Mains
<1>5. \A t \in Threads : waiting[t] = "none" /\ Socket(t)' = Socket(t)
  BY <1>1, <1>2, <1>3, Mains DEF Traffic, Asks, Talking, Socket
<1>6. Script'
  <2>1. \A w \in Workers : ~ Talking(w)' /\ pc'[w] # "killed" /\ pc'[w] # "terminate"
    BY <1>2 DEF Talking
  <2>2. Socket(Main)' # 0
    BY <1>1, <1>3, <1>4 DEF Script, Socket
  <2>. QED
    BY <1>1, <1>2, <1>3, <1>4, <2>1, <2>2, Mains DEF Script
<1>7. Connections'
  BY <1>1, <1>3 DEF Connections
<1>8. Traffic'
  <2>1. \A t \in Threads : pc[t] = "failed" => pc'[t] = "failed"
    BY <1>2, Mains
  <2>. QED
    BY <1>3, <1>5, <2>1, SilentTraffic
<1>9. ~ signalled => Serving'
  BY <1>2, <1>3, ClientServing DEF Leaving, IInv, Serving
<1>. QED
  BY <1>2, <1>3, <1>6, <1>7, <1>8, <1>9, ClientStep DEF Active

(* A thread has made its calls. *)
LEMMA FinishStep ==
    ASSUME IInv, ~ Killed, TypeOK', NEW t \in Threads, Finish(t)
    PROVE  IInv'
<1>1. TypeOK /\ Script /\ Connections /\ Traffic /\ loop # "aborted"
  BY DEF IInv
<1>2. /\ waiting[t] = "none"
      /\ UNCHANGED <<m_worker_id, m_connections, waiting, result, peer, requests, responses>>
      /\ UNCHANGED <<m_server_stop, m_terminate_on_last_connection, m_num_active_connections, loop, handler, request, truth, signalled>>
  BY DEF Finish, clientRest, serverVars, socketVars
<1>3. /\ pc[t] \in {"work", "analyse"}
      /\ \A u \in Threads : pc'[u] = IF u = t THEN (IF pc[t] = "work" THEN "thread_destroy" ELSE "main_destroy") ELSE pc[u]
      /\ t = Main <=> pc[t] = "analyse"
  <2>1. pc[t] = "work" => t # Main
    BY <1>1 DEF TypeOK, MainLabels
  <2>2. pc[t] = "analyse" => t = Main
    BY <1>1, Mains DEF TypeOK, WorkerLabels
  <2>. QED
    BY <1>1, <2>1, <2>2 DEF Finish, Jump, TypeOK
<1>4. \A u \in Threads : Socket(u)' = Socket(u) /\ (Talking(u)' <=> Talking(u))
  BY <1>2, <1>3 DEF Socket, Talking
<1>5. Script'
  BY <1>1, <1>2, <1>3, <1>4, Mains DEF Script
<1>6. Connections'
  BY <1>1, <1>2 DEF Connections
<1>7. Traffic'
  <2>1. \A u \in Threads : waiting[u] # "none" => pc'[u] = pc[u] /\ Socket(u)' = Socket(u)
    BY <1>2, <1>3, <1>4
  <2>2. \A u \in Threads : pc[u] = "failed" => pc'[u] = "failed"
    BY <1>3
  <2>. QED
    BY <1>2, <2>1, <2>2, SilentTraffic
<1>8. ASSUME ~ signalled PROVE Serving'
  <2>1. Leaving => Leaving'
    BY <1>2, <1>3, Mains DEF Leaving
  <2>2. \A u \in Threads : pc'[u] # "failed"
    BY <1>3, <1>8 DEF IInv, Serving
  <2>3. (pc[Main] # "construct" => pc'[Main] # "construct") /\ (pc'[Main] # "end" => pc[Main] # "end")
    BY <1>3, Mains
  <2>. QED
    BY <1>2, <1>8, <2>1, <2>2, <2>3, ClientServing
<1>9. pc'[Main] # "killed"
  BY <1>3, Mains DEF Killed
<1>. QED
  BY <1>2, <1>5, <1>6, <1>7, <1>8, <1>9, ClientStep DEF Active

-----------------------------------------------------------------------------
(* The invariant holds when the client is constructed. *)
LEMMA InitIInv ==
    Init => IInv
<1> SUFFICES ASSUME Init PROVE IInv
  OBVIOUS
<1> USE Mains DEF Init, ServerInit, ClientInit
<1>1. TypeOK
  <2>1. <<>> \in Seq(Request) /\ <<>> \in Seq(Response) /\ 0 \in 0 .. MaxSockets
    BY ServerAssumption
  <2>. QED
    BY <2>1 DEF TypeOK, MainLabels, WorkerLabels
<1>2. Counted
  <2>1. Active = {}
    BY DEF Active
  <2>. QED
    BY <2>1, FS_EmptySet DEF Counted
<1>3. pc[Main] = "construct" /\ (\A w \in Workers : pc[w] = "off") /\ m_connections[0] = 0
  OBVIOUS
<1>4. \A t \in Threads : ~ Talking(t) /\ waiting[t] = "none"
  BY <1>3 DEF Talking
<1>5. Script
  BY <1>3, <1>4 DEF Script
<1>6. Connections
  BY DEF Connections
<1>7. Traffic
  BY <1>3, <1>4 DEF Traffic, Asks, Session, Quiet, Last
<1>8. Serving
  BY <1>3 DEF Serving
<1>. QED
  BY <1>1, <1>2, <1>3, <1>5, <1>6, <1>7, <1>8 DEF IInv, Killed

(* Every step keeps it. *)
LEMMA NextIInv ==
    ASSUME CarriedOutcomes, IInv, [Next]_vars
    PROVE  IInv'
<1>1. TypeOK
  BY DEF IInv
<1>2. CASE ServerLoop
  <2>1. UNCHANGED clientVars /\ TypeOK'
    BY <1>1, <1>2, ServerTypes DEF ServerLoop
  <2>. QED
    BY <1>2, <2>1, SelectTimeoutStep, CloseStep, AcceptStep DEF ServerLoop
<1>3. CASE Stop /\ UNCHANGED clientVars
  BY <1>1, <1>3, ServerTypes, StopStep
<1>4. ASSUME NEW s \in Sockets, Handler(s) PROVE IInv'
  <2>1. UNCHANGED clientVars /\ TypeOK' /\ Serve(s)
    BY <1>1, <1>4, ServerTypes DEF Handler
  <2>. QED
    BY <2>1, StartStep, ReadRequestStep, EndOfStreamStep, ConnectionResetStep, HandleCallStep, HandleControlStep,
       ObeyStep, LeaveStep DEF Serve
<1>5. CASE Kill
  <2>1. TypeOK'
    BY <1>1, <1>5, ClientTypes
  <2>2. Counted'
    BY <1>5, SameActive DEF Kill, serverVars, IInv, Active
  <2>3. Killed' /\ AllKilled'
    BY <1>5, Mains DEF Kill, Killed, AllKilled
  <2>. QED
    BY <2>1, <2>2, <2>3 DEF IInv
<1>6. ASSUME NEW t \in Threads, ThreadStep(t) PROVE IInv'
  <2>1. TypeOK'
    BY <1>1, <1>6, ClientTypes
  <2>2. ~ Killed
    <3>1. ASSUME Killed PROVE FALSE
      <4>1. pc[t] = "killed" /\ waiting[t] = "none"
        BY <3>1 DEF IInv, AllKilled
      <4>. QED
        BY <1>6, <4>1 DEF ThreadStep, OnThreadInit, Send, RequestsAt, Receive, ReceiveFails, Finish
    <3>. QED
      BY <3>1
  <2>3. CASE OnThreadInit(t)
    <3>1. /\ pc[t] = "thread_init" /\ m_worker_id' = [m_worker_id EXCEPT ![t] = t] /\ Connect(t, t, "hello")
          /\ UNCHANGED <<waiting, result, calls, rounds, serverRest, requests, responses>>
      BY <2>3 DEF OnThreadInit
    <3>2. t \in Workers /\ t \in 0 .. MaxNumConnections - 1
      BY <1>1, <3>1, Mains DEF TypeOK, MainLabels
    <3>. QED
      BY <2>1, <2>2, <3>1, <3>2, ConnectStep
  <2>. QED
    BY <1>6, <2>1, <2>2, <2>3, SendStep, ReceiveStep, ReceiveFailsStep, FinishStep DEF ThreadStep
<1>7. CASE MainStep
  <2>1. TypeOK'
    BY <1>1, <1>7, ClientTypes
  <2>2. ~ Killed
    BY <1>7 DEF MainStep, Construct, SkipOnExit, Spawn, Join, Killed
  <2>3. CASE Construct
    <3>1. /\ pc[Main] = "construct" /\ Connect(Main, 0, "main_init")
          /\ UNCHANGED <<m_worker_id, waiting, result, calls, rounds, serverRest, requests, responses>>
      BY <2>3 DEF Construct
    <3>. QED
      BY <2>1, <2>2, <3>1, ConnectStep, Mains
  <2>. QED
    BY <1>7, <2>1, <2>2, <2>3, ScriptStep DEF MainStep
<1>8. CASE UNCHANGED vars
  <2>1. UNCHANGED clientVars /\ UNCHANGED serverVars /\ UNCHANGED socketVars
    BY <1>8 DEF vars
  <2>2. TypeOK'
    BY <1>1, <2>1 DEF TypeOK, clientVars, serverVars, socketVars
  <2>3. Counted' /\ (~ Killed => Traffic') /\ (~ Killed /\ ~ signalled => Serving')
    BY <2>1 DEF IInv, Counted, Active, Traffic, Asks, Session, Unattended, Quiet, Last, Pending, Queued, Handled, Answered,
       Talking, Socket, Serving, Leaving, clientVars, serverVars, socketVars
  <2>. QED
    BY <2>1, <2>2, <2>3, ServerStep DEF IInv, clientVars, serverVars, socketVars
<1>. QED
  BY <1>2, <1>3, <1>4, <1>5, <1>6, <1>7, <1>8 DEF Next

(* The inductive invariant holds always. *)
THEOREM Invariance ==
    CarriedOutcomes /\ Spec => []IInv
<1> SUFFICES ASSUME CarriedOutcomes PROVE Spec => []IInv
  OBVIOUS
<1>1. Init => IInv
  BY InitIInv
<1>2. IInv /\ [Next]_vars => IInv'
  BY NextIInv
<1>. QED
  BY <1>1, <1>2, PTL DEF Spec

(* Each call returns what the library did for it, or fails as the library  *)
(* did, for any threads and calls (client.cpp, server.cpp): if the library *)
(* returns only what the messages carry.                                   *)
THEOREM ResultsPropagatedHolds ==
    CarriedOutcomes /\ Spec => []ResultsPropagated
<1>1. IInv => ResultsPropagated
  <2> SUFFICES ASSUME IInv, NEW t \in Threads, waiting[t] = "none", pc[t] # "failed", pc[t] # "killed"
               PROVE  result[t] = truth[t]
    BY DEF ResultsPropagated
  <2>1. ~ Killed
    BY DEF IInv, AllKilled
  <2>. QED
    BY <2>1 DEF IInv, Traffic, Session
<1>. QED
  BY <1>1, Invariance, PTL

(* The server serves the client until the client leaves, unless somebody   *)
(* stops it: main_loop ends for the last connection only when the handler  *)
(* of the first one, the last to be closed, has ended.                     *)
THEOREM ServesUntilExitHolds ==
    CarriedOutcomes /\ Spec => []ServesUntilExit
<1>1. IInv => ServesUntilExit
  <2> SUFFICES ASSUME IInv, ~ signalled, NEW t \in Threads PROVE pc[t] # "failed"
    BY DEF ServesUntilExit
  <2>1. CASE Killed
    BY <2>1 DEF IInv, AllKilled
  <2>2. CASE ~ Killed
    BY <2>2 DEF IInv, Serving
  <2>. QED
    BY <2>1, <2>2
<1>. QED
  BY <1>1, Invariance, PTL

(* An exception that nobody catches aborts the server only after a client  *)
(* was killed: a client that closes its connections has read its responses *)
(* (ConnectionHandler::execute).                                           *)
THEOREM AbortedOnlyIfKilled ==
    CarriedOutcomes /\ Spec => [](loop = "aborted" => Killed)
<1>1. IInv => (loop = "aborted" => Killed)
  BY DEF IInv
<1>. QED
  BY <1>1, Invariance, PTL
=============================================================================
