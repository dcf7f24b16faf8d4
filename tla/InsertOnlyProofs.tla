-------------------------- MODULE InsertOnlyProofs --------------------------
(***************************************************************************)
(* Proofs about InsertOnly, for every number of workers, length of the     *)
(* stream and granularity, with or without the build service.              *)
(***************************************************************************)
EXTENDS InsertOnly, FiniteSetTheorems, TLAPS

Edges == 0 .. NumEdges - 1

(* Where main and the service are with respect to each other.  The flag    *)
(* m_terminate is raised before the service starts and again to stop it.   *)
Handshake ==
    /\ mpc = "ctor" => bpc = "none" /\ m_terminate /\ ~ joinable
    /\ mpc = "ctor_wait" => \/ bpc = "start" /\ m_terminate
                            \/ /\ bpc \in {"notify", "init", "wait", "build", "count"}
                               /\ ~ m_terminate /\ ~ terminate
    /\ mpc \in {"spawn", "join", "stop"} =>
          \/ bpc = "none" /\ m_terminate
          \/ /\ bpc \in {"notify", "init", "wait", "build", "count"}
             /\ ~ m_terminate /\ ~ terminate
    /\ mpc = "stop_join" =>
          /\ bpc \notin {"none", "start"} /\ m_terminate
          /\ bpc \in {"destroy", "done"} => terminate
    /\ mpc \in {"final_init", "final_build", "final_destroy", "done"} => bpc \in {"none", "done"}

(* The invocations of #build() counted are those that took place, up to    *)
(* the one that the service is about to count and the last one of main.    *)
Counts ==
    /\ Len(snapshots) = m_num_invocations + (IF bpc = "count" THEN 1 ELSE 0)
                                          + (IF mpc \in {"final_destroy", "done"} THEN 1 ELSE 0)
    /\ m_num_build_invocations =
          IF mpc \in {"final_init", "final_build", "final_destroy", "done"} THEN Len(snapshots) ELSE 0
    /\ bpc \in {"none", "start"} => m_num_invocations = 0
    /\ bpc \notin {"destroy", "done"} => m_num_invocations <= MaxBuilds
    /\ bpc \in {"build", "count"} /\ ~ terminate => m_num_invocations < MaxBuilds
    /\ mpc \in {"final_destroy", "done"} => snapshots[Len(snapshots)] = stored

(* Main starts the workers in order and waits for them in order. *)
Lifecycle ==
    /\ mpc \in {"ctor", "ctor_wait"} => mi = 0 /\ \A w \in Workers : wpc[w] = "none"
    /\ mpc = "spawn" => \A w \in Workers : w >= mi => wpc[w] = "none"
    /\ mpc = "join" => \A w \in Workers : w < mi => wpc[w] = "done"
    /\ mpc \in {"stop", "stop_join", "final_init", "final_build", "final_destroy", "done"} =>
          \A w \in Workers : wpc[w] = "done"

(* The positions of the stream that worker w still has to insert. *)
Rest(w) == IF wpc[w] = "insert" THEN pos[w] .. end[w] - 1 ELSE {}

(* The chunks handed out do not overlap, and the next one follows them.    *)
(* A worker leaves only when there are no chunks left.                     *)
Chunks ==
    /\ \A w \in Workers : wpc[w] = "insert" => pos[w] <= end[w] /\ end[w] <= start_chunk_next
    /\ \A v, w \in Workers :
          v # w /\ wpc[v] = "insert" /\ wpc[w] = "insert" => end[v] <= pos[w] \/ end[w] <= pos[v]
    /\ \A w \in Workers : wpc[w] \in {"destroy", "done"} => start_chunk_next >= NumEdges

(* Each position handed out is either stored, once, or in the rest of one  *)
(* worker.                                                                 *)
Inserted ==
    /\ \A i \in DOMAIN stored : /\ stored[i] < start_chunk_next
                                /\ \A w \in Workers : stored[i] \notin Rest(w)
    /\ \A i, j \in DOMAIN stored : stored[i] = stored[j] => i = j
    /\ \A e \in Edges : e < start_chunk_next =>
          \/ \E i \in DOMAIN stored : stored[i] = e
          \/ \E w \in Workers : e \in Rest(w)

IInv == TypeOK /\ Handshake /\ Counts /\ Lifecycle /\ Chunks /\ Inserted

-----------------------------------------------------------------------------
(* A chunk has at least one edge. *)
LEMMA GranularityPositive == Granularity \in Nat \ {0}
<1> DEFINE q == NumEdges \div NumThreads
<1>1. q \in Nat
  BY StreamAssumption, ServiceAssumption
<1>2. Max({q, 1}) = IF q >= 1 THEN q ELSE 1
  <2> HIDE DEF q
  <2>. QED
    BY <1>1 DEF Max
<1>. QED
  BY <1>1, <1>2, StreamAssumption DEF Granularity

(* Where a chunk ends. *)
LEMMA ChunkEnd ==
    ASSUME NEW a \in Nat, NEW b \in Nat
    PROVE  Min({a, b}) = IF a <= b THEN a ELSE b
  BY DEF Min

(* The updates stored are positions of the stream. *)
LEMMA StoredType ==
    ASSUME TypeOK
    PROVE  /\ Len(stored) \in Nat /\ DOMAIN stored = 1 .. Len(stored)
           /\ \A i \in DOMAIN stored : stored[i] \in Edges
<1>1. stored \in Seq(Edges)
  BY DEF TypeOK, Edges
<1>2. Len(stored) \in Nat /\ DOMAIN stored = 1 .. Len(stored)
  BY <1>1
<1>3. \A i \in 1 .. Len(stored) : stored[i] \in Edges
  BY <1>1
<1>. QED
  BY <1>2, <1>3

(* A step that leaves the workers and the stored updates alone keeps what  *)
(* is known of them.                                                       *)
LEMMA SameWorkers ==
    ASSUME Chunks, Inserted, UNCHANGED <<workerVars, stored>>
    PROVE  Chunks' /\ Inserted'
  BY DEF Chunks, Inserted, Rest, workerVars

(* So does one that only changes the place of a worker, that is not        *)
(* inserting before nor after, and does not leave early.                   *)
LEMMA MovedWorker ==
    ASSUME TypeOK, Chunks, Inserted, NEW w \in Workers, NEW l, wpc' = [wpc EXCEPT ![w] = l],
           wpc[w] # "insert", l # "insert",
           l \in {"destroy", "done"} => start_chunk_next >= NumEdges,
           UNCHANGED <<start_chunk_next, pos, end, stored>>
    PROVE  Chunks' /\ Inserted'
<1>1. \A v \in Workers : /\ wpc'[v] = "insert" <=> wpc[v] = "insert"
                         /\ Rest(v)' = Rest(v)
                         /\ wpc'[v] \in {"destroy", "done"} => start_chunk_next >= NumEdges
  BY DEF TypeOK, Rest, Chunks
<1>2. Chunks'
  BY <1>1 DEF Chunks
<1>3. Inserted'
  BY <1>1 DEF Inserted
<1>. QED
  BY <1>2, <1>3

(* The invariant holds when execute() begins. *)
LEMMA InitIInv == Init => IInv
<1> SUFFICES ASSUME Init PROVE IInv
  OBVIOUS
<1> USE DEF Init, ServiceInit
<1>1. TypeOK
  BY ServiceAssumption, StreamAssumption DEF TypeOK, Workers
<1>2. Handshake /\ Counts
  BY ServiceAssumption DEF Handshake, Counts
<1>3. Lifecycle /\ Chunks
  BY DEF Lifecycle, Chunks, Workers
<1>4. Inserted
  BY DEF Inserted, Edges
<1>. QED
  BY <1>1, <1>2, <1>3, <1>4 DEF IInv

-----------------------------------------------------------------------------
(* The workers *)

(* What a worker does changes neither the service nor main. *)
LEMMA WorkerFrame ==
    ASSUME IInv, NEW w \in Workers, Worker(w)
    PROVE  /\ UNCHANGED <<serviceVars, mainVars, snapshots>>
           /\ Handshake'
           /\ mpc \in {"spawn", "join"}
           /\ wpc[w] \notin {"none", "done"}
<1>1. wpc[w] \notin {"none", "done"}
  BY DEF Worker, Enter, FetchChunk, InsertEdge, Leave
<1>2. mpc \in {"spawn", "join"}
  BY <1>1 DEF IInv, TypeOK, Lifecycle
<1>3. UNCHANGED <<serviceVars, mainVars, snapshots>>
  BY DEF Worker, Enter, FetchChunk, InsertEdge, Leave, libraryVars
<1>4. Handshake'
  BY <1>3 DEF IInv, Handshake, serviceVars, mainVars
<1>. QED
  BY <1>1, <1>2, <1>3, <1>4

(* It keeps the order in which main starts and joins the workers. *)
LEMMA WorkerLifecycle ==
    ASSUME IInv, NEW w \in Workers, Worker(w)
    PROVE  Lifecycle' /\ Counts'
<1>1. UNCHANGED <<serviceVars, mainVars, snapshots>> /\ mpc \in {"spawn", "join"}
      /\ wpc[w] \notin {"none", "done"}
  BY WorkerFrame
<1>2. \A v \in Workers : v # w => wpc'[v] = wpc[v]
  BY DEF Worker, Enter, FetchChunk, InsertEdge, Leave, Goto, IInv, TypeOK
<1>3. Lifecycle'
  BY <1>1, <1>2 DEF IInv, Lifecycle, mainVars, TypeOK
<1>4. Counts'
  BY <1>1 DEF IInv, Counts, mainVars, serviceVars
<1>. QED
  BY <1>3, <1>4

(* Entering and leaving. *)
LEMMA EnterLeaveIInv ==
    ASSUME IInv, NEW w \in Workers, Enter(w) \/ Leave(w)
    PROVE  IInv'
<1>1. Handshake' /\ Lifecycle' /\ Counts' /\ UNCHANGED <<serviceVars, mainVars, snapshots>>
  BY WorkerFrame, WorkerLifecycle DEF Worker
<1>2. Chunks' /\ Inserted'
  <2>1. CASE Enter(w)
    BY <2>1, MovedWorker DEF Enter, Goto, IInv
  <2>2. CASE Leave(w)
    <3>1. start_chunk_next >= NumEdges
      BY <2>2 DEF Leave, IInv, Chunks
    <3>. QED
      BY <2>2, <3>1, MovedWorker DEF Leave, Goto, IInv
  <2>. QED
    BY <2>1, <2>2
<1>3. TypeOK'
  <2>1. UNCHANGED <<stored, start_chunk_next, pos, end>>
        /\ (wpc' = [wpc EXCEPT ![w] = "fetch"] \/ wpc' = [wpc EXCEPT ![w] = "done"])
    BY DEF Enter, Leave, Goto
  <2>2. wpc' \in [Workers -> {"none", "init", "fetch", "insert", "destroy", "done"}]
    BY <2>1 DEF IInv, TypeOK
  <2>. QED
    BY <1>1, <2>1, <2>2 DEF IInv, TypeOK, serviceVars, mainVars
<1>. QED
  BY <1>1, <1>2, <1>3 DEF IInv

(* Taking a chunk: it follows all those handed out before, and none of its *)
(* positions is stored.                                                    *)
LEMMA FetchChunkIInv ==
    ASSUME IInv, NEW w \in Workers, FetchChunk(w)
    PROVE  IInv'
<1>1. Handshake' /\ Lifecycle' /\ Counts' /\ UNCHANGED <<serviceVars, mainVars, snapshots, stored>>
  BY WorkerFrame, WorkerLifecycle DEF Worker, FetchChunk, libraryVars
<1>2. PICK g \in Nat \ {0} : g = Granularity
  BY GranularityPositive
<1>3. start_chunk_next \in Nat /\ start_chunk_next' = start_chunk_next + g /\ NumEdges \in Nat
  BY <1>2, StreamAssumption DEF FetchChunk, IInv, TypeOK
<1>4. CASE start_chunk_next < NumEdges
  <2> DEFINE e == Min({start_chunk_next + g, NumEdges})
  <2>1. e = IF start_chunk_next + g <= NumEdges THEN start_chunk_next + g ELSE NumEdges
    BY <1>3, ChunkEnd
  <2>2. /\ pos' = [pos EXCEPT ![w] = start_chunk_next] /\ end' = [end EXCEPT ![w] = e]
        /\ wpc' = [wpc EXCEPT ![w] = "insert"] /\ wpc[w] = "fetch"
    BY <1>4, <1>2 DEF FetchChunk, Goto
  <2>3. e \in 0 .. NumEdges /\ start_chunk_next < e /\ e <= start_chunk_next'
    BY <2>1, <1>3, <1>4
  <2> HIDE DEF e
  <2>4. TypeOK'
    BY <2>2, <2>3, <1>1, <1>3, <1>4 DEF IInv, TypeOK, serviceVars, mainVars
  <2>5. /\ pos'[w] = start_chunk_next /\ end'[w] = e /\ wpc'[w] = "insert"
        /\ \A v \in Workers : v # w => pos'[v] = pos[v] /\ end'[v] = end[v] /\ wpc'[v] = wpc[v]
    BY <2>2 DEF IInv, TypeOK
  <2>6. /\ Rest(w)' = start_chunk_next .. e - 1 /\ Rest(w) = {}
        /\ \A v \in Workers : v # w => Rest(v)' = Rest(v)
    BY <2>2, <2>5 DEF Rest
  <2>7. \A v \in Workers : pos[v] \in Nat /\ end[v] \in Nat
    BY DEF IInv, TypeOK
  <2>8. Chunks'
    <3>1. \A v \in Workers : wpc'[v] = "insert" => pos'[v] <= end'[v] /\ end'[v] <= start_chunk_next'
      BY <2>3, <2>5, <2>7, <1>3 DEF IInv, Chunks
    <3>2. ASSUME NEW u \in Workers, NEW v \in Workers, u # v, wpc'[u] = "insert", wpc'[v] = "insert"
          PROVE  end'[u] <= pos'[v] \/ end'[v] <= pos'[u]
      BY <3>2, <2>5, <2>7, <1>3 DEF IInv, Chunks
    <3>3. \A v \in Workers : wpc'[v] \in {"destroy", "done"} => start_chunk_next' >= NumEdges
      BY <2>5, <1>3 DEF IInv, Chunks
    <3>. QED
      BY <3>1, <3>2, <3>3 DEF Chunks
  <2>9. Inserted'
    <3>1. \A i \in DOMAIN stored : stored[i] \in Nat /\ stored[i] < start_chunk_next
      BY StoredType, StreamAssumption DEF IInv, Inserted, Edges
    <3>2. \A i \in DOMAIN stored : /\ stored[i] < start_chunk_next'
                                   /\ \A v \in Workers : stored[i] \notin Rest(v)'
      BY <3>1, <2>6, <1>3, <2>3 DEF IInv, Inserted
    <3>3. ASSUME NEW x \in Edges, x < start_chunk_next'
          PROVE  (\E i \in DOMAIN stored : stored[i] = x) \/ \E v \in Workers : x \in Rest(v)'
      <4>1. CASE x < start_chunk_next
        BY <4>1, <2>6 DEF IInv, Inserted
      <4>2. CASE ~ (x < start_chunk_next)
        BY <4>2, <3>3, <2>6, <2>1, <1>3 DEF Edges
      <4>. QED
        BY <4>1, <4>2
    <3>. QED
      BY <3>2, <3>3, <1>1 DEF IInv, Inserted
  <2>. QED
    BY <1>1, <2>4, <2>8, <2>9 DEF IInv
<1>5. CASE ~ (start_chunk_next < NumEdges)
  <2>1. wpc' = [wpc EXCEPT ![w] = "destroy"] /\ UNCHANGED <<pos, end>> /\ wpc[w] = "fetch"
    BY <1>5 DEF FetchChunk, Goto
  <2>2. TypeOK'
    BY <2>1, <1>1, <1>3 DEF IInv, TypeOK, serviceVars, mainVars
  <2>3. \A v \in Workers : Rest(v)' = Rest(v) /\ end[v] \in Nat
                           /\ (wpc'[v] = "insert" <=> wpc[v] = "insert")
    BY <2>1 DEF Rest, IInv, TypeOK
  <2>4. Chunks'
    BY <2>3, <2>1, <1>3, <1>5 DEF IInv, Chunks
  <2>5. \A i \in DOMAIN stored : stored[i] \in Nat
    BY StoredType, StreamAssumption DEF IInv, Edges
  <2>6. Inserted'
    BY <2>3, <2>5, <1>1, <1>3, <1>5 DEF IInv, Inserted, Edges
  <2>. QED
    BY <1>1, <2>2, <2>4, <2>6 DEF IInv
<1>. QED
  BY <1>4, <1>5

(* Inserting an edge moves one position from the rest of the worker to the *)
(* stored updates.                                                         *)
LEMMA InsertEdgeIInv ==
    ASSUME IInv, NEW w \in Workers, InsertEdge(w)
    PROVE  IInv'
<1>1. Handshake' /\ Lifecycle' /\ Counts' /\ UNCHANGED <<serviceVars, mainVars, snapshots>>
  BY WorkerFrame, WorkerLifecycle DEF Worker
<1>2. UNCHANGED <<start_chunk_next, end>> /\ wpc[w] = "insert" /\ start_chunk_next \in Nat
  BY DEF InsertEdge, IInv, TypeOK
<1>3. \A v \in Workers : pos[v] \in 0 .. NumEdges /\ end[v] \in 0 .. NumEdges /\ NumEdges \in Nat
  BY StreamAssumption DEF IInv, TypeOK
<1>4. CASE pos[w] < end[w]
  <2>1. /\ stored' = Append(stored, pos[w]) /\ pos' = [pos EXCEPT ![w] = pos[w] + 1]
        /\ UNCHANGED wpc
    BY <1>4 DEF InsertEdge
  <2>2. pos[w] \in Edges /\ pos[w] + 1 \in 0 .. NumEdges
    BY <1>3, <1>4 DEF Edges
  <2>3. TypeOK'
    <3>1. stored' \in Seq(0 .. NumEdges - 1)
      BY <2>1, <2>2 DEF IInv, TypeOK, Edges
    <3>2. pos' \in [Workers -> 0 .. NumEdges]
      BY <2>1, <2>2 DEF IInv, TypeOK
    <3>. QED
      BY <3>1, <3>2, <2>1, <1>1, <1>2 DEF IInv, TypeOK, serviceVars, mainVars
  <2>4. /\ pos'[w] = pos[w] + 1
        /\ \A v \in Workers : v # w => pos'[v] = pos[v]
    BY <2>1 DEF IInv, TypeOK
  <2>5. /\ Rest(w) = pos[w] .. end[w] - 1 /\ Rest(w)' = pos[w] + 1 .. end[w] - 1
        /\ \A v \in Workers : v # w => Rest(v)' = Rest(v)
    BY <2>1, <2>4, <1>2 DEF Rest
  <2>6. Chunks'
    <3>1. \A v \in Workers : wpc'[v] = "insert" => pos'[v] <= end'[v] /\ end'[v] <= start_chunk_next'
      BY <2>1, <2>4, <1>2, <1>3, <1>4 DEF IInv, Chunks
    <3>2. ASSUME NEW u \in Workers, NEW v \in Workers, u # v, wpc'[u] = "insert", wpc'[v] = "insert"
          PROVE  end'[u] <= pos'[v] \/ end'[v] <= pos'[u]
      BY <3>2, <2>1, <2>4, <1>2, <1>3 DEF IInv, Chunks
    <3>3. \A v \in Workers : wpc'[v] \in {"destroy", "done"} => start_chunk_next' >= NumEdges
      BY <2>1, <1>2 DEF IInv, Chunks
    <3>. QED
      BY <3>1, <3>2, <3>3 DEF Chunks
  <2>7. Inserted'
    <3>1. /\ Len(stored) \in Nat /\ DOMAIN stored = 1 .. Len(stored)
          /\ DOMAIN stored' = 1 .. Len(stored) + 1
          /\ stored'[Len(stored) + 1] = pos[w]
          /\ \A i \in DOMAIN stored : stored'[i] = stored[i] /\ stored[i] \in Edges
      <4>1. stored \in Seq(Edges)
        BY DEF IInv, TypeOK, Edges
      <4>. QED
        BY <4>1, <2>1, <2>2, StoredType DEF IInv
    <3>2. \A i \in DOMAIN stored : stored[i] # pos[w]
      BY <2>5, <1>3, <1>4 DEF IInv, Inserted
    <3>3. \A v \in Workers : pos[w] \notin Rest(v)'
      <4>1. pos[w] \notin Rest(w)'
        BY <2>5, <1>3
      <4>2. ASSUME NEW v \in Workers, v # w PROVE pos[w] \notin Rest(v)
        BY <4>2, <1>2, <1>3, <1>4 DEF IInv, Chunks, Rest
      <4>. QED
        BY <4>1, <4>2, <2>5
    <3>4. pos[w] < start_chunk_next
      BY <1>2, <1>3, <1>4 DEF IInv, Chunks
    <3>5. ASSUME NEW i \in DOMAIN stored'
          PROVE  stored'[i] < start_chunk_next' /\ \A v \in Workers : stored'[i] \notin Rest(v)'
      <4>1. CASE i = Len(stored) + 1
        BY <4>1, <3>1, <3>3, <3>4, <1>2
      <4>2. CASE i # Len(stored) + 1
        <5>1. i \in DOMAIN stored
          BY <4>2, <3>1
        <5>2. \A v \in Workers : Rest(v)' \subseteq Rest(v)
          BY <2>5, <1>3
        <5>. QED
          BY <5>1, <5>2, <3>1, <1>2 DEF IInv, Inserted
      <4>. QED
        BY <4>1, <4>2
    <3>6. ASSUME NEW i \in DOMAIN stored', NEW j \in DOMAIN stored', stored'[i] = stored'[j]
          PROVE  i = j
      BY <3>6, <3>1, <3>2 DEF IInv, Inserted
    <3>7. ASSUME NEW x \in Edges, x < start_chunk_next'
          PROVE  (\E i \in DOMAIN stored' : stored'[i] = x) \/ \E v \in Workers : x \in Rest(v)'
      <4>1. CASE x = pos[w]
        BY <4>1, <3>1
      <4>2. CASE x # pos[w] /\ \E i \in DOMAIN stored : stored[i] = x
        BY <4>2, <3>1
      <4>3. CASE x # pos[w] /\ \E v \in Workers : x \in Rest(v)
        BY <4>3, <2>5, <1>3
      <4>. QED
        BY <4>1, <4>2, <4>3, <3>7, <1>2 DEF IInv, Inserted
    <3>. QED
      BY <3>5, <3>6, <3>7 DEF Inserted
  <2>. QED
    BY <1>1, <2>3, <2>6, <2>7 DEF IInv
<1>5. CASE ~ (pos[w] < end[w])
  <2>1. wpc' = [wpc EXCEPT ![w] = "fetch"] /\ UNCHANGED <<stored, pos>>
    BY <1>5 DEF InsertEdge, Goto
  <2>2. TypeOK'
    BY <2>1, <1>1, <1>2 DEF IInv, TypeOK, serviceVars, mainVars
  <2>3. \A v \in Workers : Rest(v)' = Rest(v)
    BY <2>1, <1>2, <1>3, <1>5 DEF Rest, IInv, TypeOK
  <2>4. Chunks'
    BY <2>1, <1>2 DEF IInv, Chunks, TypeOK
  <2>5. Inserted'
    BY <2>3, <2>1, <1>2 DEF IInv, Inserted
  <2>. QED
    BY <1>1, <2>2, <2>4, <2>5 DEF IInv
<1>. QED
  BY <1>4, <1>5

-----------------------------------------------------------------------------
(* The service *)

(* The service changes neither the workers nor the edges that are stored. *)
LEMMA ServiceIInv ==
    ASSUME IInv, Service, UNCHANGED <<mainVars, workerVars>>
    PROVE  IInv'
<1> USE DEF mainVars, libraryVars
<1>1. UNCHANGED stored
  BY DEF Service, Acknowledge, NotifyStarted, Register, Tick, InvokeBuild, CountBuild, Unregister
<1>2. Chunks' /\ Inserted' /\ Lifecycle'
  BY <1>1, SameWorkers DEF IInv, Lifecycle, workerVars
<1>3. /\ m_num_invocations \in Nat /\ snapshots \in Seq(Seq(0 .. NumEdges - 1))
      /\ Len(snapshots) \in Nat /\ MaxBuilds \in Nat
  BY ServiceAssumption DEF IInv, TypeOK
<1>4. mpc \notin {"ctor", "final_init", "final_build", "final_destroy", "done"}
  BY DEF IInv, Handshake, Service, Acknowledge, NotifyStarted, Register, Tick, InvokeBuild, CountBuild,
         Unregister
<1>5. Handshake'
  <2>1. CASE Acknowledge
    BY <2>1, <1>4 DEF IInv, Handshake, Acknowledge
  <2>2. CASE NotifyStarted \/ Register \/ InvokeBuild
    BY <2>2, <1>4 DEF IInv, Handshake, NotifyStarted, Register, InvokeBuild
  <2>3. CASE Tick
    BY <2>3, <1>4 DEF IInv, TypeOK, Handshake, Tick
  <2>4. CASE CountBuild \/ Unregister
    BY <2>4, <1>4 DEF IInv, TypeOK, Handshake, CountBuild, Unregister
  <2>. QED
    BY <2>1, <2>2, <2>3, <2>4 DEF Service
<1>6. Counts'
  <2>1. CASE Acknowledge \/ NotifyStarted \/ Register
    BY <2>1, <1>3, <1>4 DEF IInv, Counts, Acknowledge, NotifyStarted, Register
  <2>2. CASE Tick
    BY <2>2, <1>3, <1>4 DEF IInv, TypeOK, Counts, Tick
  <2>3. CASE InvokeBuild
    <3>1. Len(snapshots') = Len(snapshots) + 1
      BY <2>3, <1>3 DEF InvokeBuild, Build
    <3>. QED
      BY <2>3, <3>1, <1>3, <1>4 DEF IInv, Counts, InvokeBuild
  <2>4. CASE CountBuild \/ Unregister
    BY <2>4, <1>3, <1>4 DEF IInv, TypeOK, Counts, CountBuild, Unregister
  <2>. QED
    BY <2>1, <2>2, <2>3, <2>4 DEF Service
<1>7. TypeOK'
  <2>1. snapshots' \in Seq(Seq(0 .. NumEdges - 1))
    <3>1. CASE InvokeBuild
      BY <3>1 DEF InvokeBuild, Build, IInv, TypeOK
    <3>2. CASE ~ InvokeBuild
      BY <3>2, <1>3 DEF Service, Acknowledge, NotifyStarted, Register, Tick, CountBuild, Unregister
    <3>. QED
      BY <3>1, <3>2
  <2>2. m_num_invocations' \in 0 .. MaxBuilds + 1
    BY <1>3 DEF IInv, TypeOK, Counts, Service, Acknowledge, NotifyStarted, Register, Tick, InvokeBuild,
                CountBuild, Unregister
  <2>3. /\ m_terminate' \in BOOLEAN /\ joinable' \in BOOLEAN /\ asleep' \in BOOLEAN
        /\ terminate' \in BOOLEAN
        /\ bpc' \in {"none", "start", "notify", "init", "wait", "build", "count", "destroy", "done"}
    BY DEF IInv, TypeOK, Service, Acknowledge, NotifyStarted, Register, Tick, InvokeBuild, CountBuild,
           Unregister
  <2>. QED
    BY <2>1, <2>2, <2>3, <1>1 DEF IInv, TypeOK, workerVars
<1>. QED
  BY <1>2, <1>5, <1>6, <1>7 DEF IInv
-----------------------------------------------------------------------------
(* Main *)

(* Main starts and stops the service, and wakes up. *)
LEMMA MainServiceIInv ==
    ASSUME IInv,
           StartService \/ AwaitStart \/ SpuriousWakeup \/ StopService \/ JoinService \/ FinalInit
             \/ FinalDestroy
    PROVE  IInv'
<1> USE DEF libraryVars, mainVars
<1>1. UNCHANGED <<workerVars, stored, snapshots, m_num_invocations, terminate, mi>>
  BY DEF StartService, AwaitStart, SpuriousWakeup, StopService, JoinService, FinalInit, FinalDestroy,
         serviceVars
<1>2. Chunks' /\ Inserted'
  BY <1>1, SameWorkers DEF IInv
<1>3. Lifecycle'
  BY <1>1 DEF IInv, Lifecycle, StartService, AwaitStart, SpuriousWakeup, StopService, JoinService,
              FinalInit, FinalDestroy, workerVars
<1>4. Handshake'
  <2>1. CASE StartService
    BY <2>1 DEF IInv, Handshake, StartService
  <2>2. CASE AwaitStart
    BY <2>2 DEF IInv, TypeOK, Handshake, AwaitStart
  <2>3. CASE SpuriousWakeup
    BY <2>3 DEF IInv, Handshake, SpuriousWakeup
  <2>4. CASE StopService
    BY <2>4 DEF IInv, TypeOK, Handshake, StopService
  <2>5. CASE JoinService \/ FinalInit \/ FinalDestroy
    BY <2>5 DEF IInv, Handshake, JoinService, FinalInit, FinalDestroy, serviceVars
  <2>. QED
    BY <2>1, <2>2, <2>3, <2>4, <2>5
<1>5. m_num_invocations \in Nat /\ Len(snapshots) \in Nat
  BY ServiceAssumption DEF IInv, TypeOK
<1>6. Counts'
  <2>1. CASE StartService
    BY <2>1, <1>1, <1>5 DEF IInv, Counts, Handshake, StartService
  <2>2. CASE AwaitStart \/ SpuriousWakeup
    BY <2>2, <1>1, <1>5 DEF IInv, Counts, AwaitStart, SpuriousWakeup
  <2>3. CASE StopService
    BY <2>3, <1>1, <1>5 DEF IInv, TypeOK, Counts, Handshake, StopService
  <2>4. CASE JoinService \/ FinalInit \/ FinalDestroy
    BY <2>4, <1>1, <1>5 DEF IInv, Counts, JoinService, FinalInit, FinalDestroy, serviceVars
  <2>. QED
    BY <2>1, <2>2, <2>3, <2>4
<1>7. TypeOK'
  <2>1. /\ m_terminate' \in BOOLEAN /\ joinable' \in BOOLEAN /\ asleep' \in BOOLEAN
        /\ bpc' \in {"none", "start", "notify", "init", "wait", "build", "count", "destroy", "done"}
        /\ mpc' \in {"ctor", "ctor_wait", "spawn", "join", "stop", "stop_join",
                     "final_init", "final_build", "final_destroy", "done"}
    BY DEF IInv, TypeOK, StartService, AwaitStart, SpuriousWakeup, StopService, JoinService, FinalInit,
           FinalDestroy, serviceVars
  <2>2. m_num_build_invocations' \in 0 .. MaxBuilds + 2
    BY ServiceAssumption DEF IInv, TypeOK, StartService, AwaitStart, SpuriousWakeup, StopService,
           JoinService, FinalInit, FinalDestroy
  <2>. QED
    BY <2>1, <2>2, <1>1 DEF IInv, TypeOK, workerVars
<1>. QED
  BY <1>2, <1>3, <1>4, <1>6, <1>7 DEF IInv

(* It starts and joins the workers. *)
LEMMA MainWorkersIInv ==
    ASSUME IInv, SpawnWorker \/ JoinWorker
    PROVE  IInv'
<1> USE DEF libraryVars
<1>1. UNCHANGED <<serviceVars, libraryVars, m_num_build_invocations, start_chunk_next, pos, end>>
  BY DEF SpawnWorker, JoinWorker, workerVars
<1>2. mi \in Workers /\ Workers = 0 .. NumThreads - 1 /\ NumThreads \in Nat \ {0}
  BY ServiceAssumption DEF IInv, TypeOK, Workers
<1>3. /\ mpc \in {"spawn", "join"} /\ mpc' \in {mpc, "join", "stop"} /\ mi' \in Workers
      /\ mpc' # "stop_join"
  BY <1>2 DEF SpawnWorker, JoinWorker, NextWorker
<1>4. Handshake' /\ Counts'
  BY <1>1, <1>3 DEF IInv, Handshake, Counts, serviceVars
<1>5. CASE SpawnWorker
  <2>1. wpc' = [wpc EXCEPT ![mi] = "init"] /\ wpc[mi] = "none" /\ mpc = "spawn"
    BY <1>2, <1>5 DEF SpawnWorker, Goto, IInv, Lifecycle
  <2>2. TypeOK'
    BY <1>1, <1>3, <2>1 DEF IInv, TypeOK, serviceVars
  <2>3. Chunks' /\ Inserted'
    BY <1>1, <1>2, <2>1, MovedWorker DEF IInv
  <2>4. Lifecycle'
    <3>1. \A v \in Workers : v # mi => wpc'[v] = wpc[v]
      BY <2>1 DEF IInv, TypeOK
    <3>2. \A v \in Workers : v >= mi => wpc[v] = "none"
      BY <2>1 DEF IInv, Lifecycle
    <3>3. CASE mi < NumThreads - 1
      <4>1. mi' = mi + 1 /\ mpc' = "spawn"
        BY <3>3, <1>5, <2>1 DEF SpawnWorker, NextWorker
      <4>2. \A v \in Workers : v >= mi' => wpc'[v] = "none"
        BY <4>1, <3>1, <3>2, <1>2
      <4>. QED
        BY <4>1, <4>2 DEF Lifecycle
    <3>4. CASE ~ (mi < NumThreads - 1)
      <4>1. mi' = 0 /\ mpc' = "join"
        BY <3>4, <1>5 DEF SpawnWorker, NextWorker
      <4>2. \A v \in Workers : ~ (v < mi')
        BY <4>1, <1>2
      <4>. QED
        BY <4>1, <4>2 DEF Lifecycle
    <3>. QED
      BY <3>3, <3>4
  <2>. QED
    BY <1>4, <2>2, <2>3, <2>4 DEF IInv
<1>6. CASE JoinWorker
  <2>1. UNCHANGED workerVars /\ wpc[mi] = "done" /\ mpc = "join"
    BY <1>6 DEF JoinWorker
  <2>2. TypeOK'
    BY <1>1, <1>3, <2>1 DEF IInv, TypeOK, serviceVars, workerVars
  <2>3. Chunks' /\ Inserted'
    BY <1>1, <2>1, SameWorkers DEF IInv
  <2>4. Lifecycle'
    BY <1>2, <1>6, <2>1 DEF IInv, Lifecycle, JoinWorker, NextWorker, workerVars
  <2>. QED
    BY <1>4, <2>2, <2>3, <2>4 DEF IInv
<1>. QED
  BY <1>5, <1>6

(* It builds the last snapshot. *)
LEMMA FinalBuildIInv ==
    ASSUME IInv, FinalBuild
    PROVE  IInv'
<1> USE DEF FinalBuild
<1>1. Chunks' /\ Inserted'
  BY SameWorkers DEF IInv
<1>2. Handshake' /\ Lifecycle'
  BY DEF IInv, Handshake, Lifecycle, serviceVars, workerVars
<1>3. /\ snapshots \in Seq(Seq(0 .. NumEdges - 1)) /\ stored \in Seq(0 .. NumEdges - 1)
      /\ m_num_invocations \in 0 .. MaxBuilds + 1 /\ MaxBuilds \in Nat
  BY ServiceAssumption DEF IInv, TypeOK
<1>4. /\ snapshots' \in Seq(Seq(0 .. NumEdges - 1)) /\ Len(snapshots') = Len(snapshots) + 1
      /\ Len(snapshots) \in Nat /\ snapshots'[Len(snapshots')] = stored
  BY <1>3 DEF Build
<1>5. Counts'
  BY <1>3, <1>4 DEF IInv, Counts, Handshake, serviceVars
<1>6. TypeOK'
  <2>1. m_num_build_invocations' \in 0 .. MaxBuilds + 2
    BY <1>3, <1>4 DEF IInv, Counts, Handshake
  <2>. QED
    BY <2>1, <1>4 DEF IInv, TypeOK, serviceVars, workerVars
<1>. QED
  BY <1>1, <1>2, <1>5, <1>6 DEF IInv

-----------------------------------------------------------------------------
(* Every step of the experiment keeps the invariant. *)
LEMMA NextIInv == IInv /\ [Next]_vars => IInv'
<1> SUFFICES ASSUME IInv, [Next]_vars PROVE IInv'
  OBVIOUS
<1>1. CASE Next
  <2>1. CASE Main \/ SpuriousWakeup
    BY <2>1, MainServiceIInv, MainWorkersIInv, FinalBuildIInv DEF Main
  <2>2. CASE Service /\ UNCHANGED <<mainVars, workerVars>>
    BY <2>2, ServiceIInv
  <2>3. CASE \E w \in Workers : Worker(w)
    BY <2>3, EnterLeaveIInv, FetchChunkIInv, InsertEdgeIInv DEF Worker
  <2>4. CASE Finished
    BY <2>4, SameWorkers
       DEF Finished, vars, IInv, TypeOK, Handshake, Counts, Lifecycle, serviceVars, libraryVars, mainVars,
           workerVars
  <2>. QED
    BY <1>1, <2>1, <2>2, <2>3, <2>4 DEF Next
<1>2. CASE UNCHANGED vars
  BY <1>2, SameWorkers
     DEF vars, IInv, TypeOK, Handshake, Counts, Lifecycle, serviceVars, libraryVars, mainVars, workerVars
<1>. QED
  BY <1>1, <1>2

(* The invariant holds in every state of the experiment: the variables     *)
(* keep their types, main and the service agree on where they are, and     *)
(* each position handed out is stored once or in the rest of one worker.   *)
THEOREM Invariance == Spec => []IInv
  BY InitIInv, NextIInv, PTL DEF Spec

(* The sequence of the updates stored is a numbering of those updates. *)
LEMMA StoredDistinct ==
    ASSUME IInv
    PROVE  Cardinality({stored[i] : i \in DOMAIN stored}) = Len(stored)
<1> DEFINE R == {stored[i] : i \in DOMAIN stored}
<1>1. Len(stored) \in Nat /\ DOMAIN stored = 1 .. Len(stored) /\ stored \in Seq(Edges)
  BY StoredType DEF IInv, TypeOK, Edges
<1>2. [i \in 1 .. Len(stored) |-> stored[i]] \in Bijection(1 .. Len(stored), R)
  BY <1>1 DEF IInv, Inserted, Bijection, Injection, Surjection, IsInjective
<1>3. ExistsBijection(1 .. Len(stored), R)
  BY <1>2 DEF ExistsBijection
<1>. QED
  BY <1>1, <1>3, FS_CountingElements

(* Once the workers have been joined the whole stream is stored. *)
LEMMA StoredComplete ==
    ASSUME IInv, mpc \in {"stop", "stop_join", "final_init", "final_build", "final_destroy", "done"}
    PROVE  Len(stored) = NumEdges
<1> DEFINE R == {stored[i] : i \in DOMAIN stored}
<1>1. \A w \in Workers : Rest(w) = {}
  BY DEF IInv, Lifecycle, Rest
<1>2. 0 \in Workers /\ wpc[0] = "done"
  BY ServiceAssumption DEF IInv, Lifecycle, Workers
<1>3. start_chunk_next >= NumEdges /\ start_chunk_next \in Nat /\ NumEdges \in Nat
  BY <1>2, StreamAssumption DEF IInv, Chunks, TypeOK
<1>4. R = Edges
  <2>1. R \subseteq Edges
    BY StoredType DEF IInv
  <2>2. ASSUME NEW e \in Edges PROVE e \in R
    <3>1. e < start_chunk_next
      BY <1>3 DEF Edges
    <3>. QED
      BY <3>1, <1>1 DEF IInv, Inserted
  <2>. QED
    BY <2>1, <2>2
<1>5. Cardinality(Edges) = NumEdges
  BY <1>3, FS_Interval DEF Edges
<1>. QED
  BY <1>4, <1>5, StoredDistinct

(* No edge of the stream is inserted twice, and all of them have been      *)
(* inserted once the workers of execute() have been joined, whatever the   *)
(* number of workers, the length of the stream and the granularity.        *)
THEOREM EachEdgeOnceHolds == Spec => []EachEdgeOnce
<1>1. IInv => EachEdgeOnce
  BY StoredDistinct, StoredComplete DEF EachEdgeOnce
<1>. QED
  BY <1>1, Invariance, PTL

(* When execute() ends the service has ended too, the last snapshot holds  *)
(* the whole stream, and the number of snapshots reported is exact.        *)
THEOREM LastSnapshotCompleteHolds == Spec => []LastSnapshotComplete
<1>1. IInv => LastSnapshotComplete
  BY StoredComplete DEF LastSnapshotComplete, IInv, Counts, Handshake
<1>. QED
  BY <1>1, Invariance, PTL
=============================================================================
