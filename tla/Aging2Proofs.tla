---------------------------- MODULE Aging2Proofs ----------------------------
(***************************************************************************)
(* Proofs about Aging2, for any number of workers, log, blocks and sizes   *)
(* of the buffers and of the chunks: the handshake of the master with the  *)
(* workers, the order in which the updates reach the library, the barrier  *)
(* between the batches, the counters and the reports, and the graph that   *)
(* is left at the end.                                                     *)
(***************************************************************************)
EXTENDS Aging2, FiniteSetTheorems, SequenceTheorems, TLAPS

Executing == {"buffer", "check", "call", "count", "cas", "store"}
Labels == {"none", "fetch", "waiting", "load", "remove", "exiting", "exited"} \cup Executing
Deadlocked == m_results.thread_deadlocked

(* The steps of the master. *)
Steps ==
    {<<"ctor", "spawn">>, <<"ctor", "wait">>,
     <<"load", "first">>, <<"load", "set">>, <<"load", "notify">>, <<"load", "next">>, <<"load", "wait">>, <<"load", "swap">>,
     <<"latency", "prepare">>, <<"latency", "set">>, <<"latency", "notify">>, <<"latency", "wait">>,
     <<"run", "start">>, <<"run", "set">>, <<"run", "notify">>, <<"run", "running">>, <<"run", "record">>,
     <<"run", "drain">>, <<"run", "end">>,
     <<"remove", "set">>, <<"remove", "notify">>, <<"remove", "wait">>, <<"store", "results">>,
     <<"dtor", "set">>, <<"dtor", "notify">>, <<"dtor", "join">>, <<"done", "done">>,
     <<"error", "busy">>, <<"error", "assert">>, <<"error", "mismatch">>}

(* Those outside of the loops over the workers. *)
Outside == {"first", "next", "swap", "prepare", "start", "running", "end", "results", "done"}

(* The values of the variables that the proofs need. *)
Types ==
    /\ mpc \in Steps /\ mi \in W /\ (mpc[2] \in Outside => mi = 0)
    /\ m_stop_experiment \in BOOLEAN
    /\ m_results \in [timeout_hit : BOOLEAN, memfp_threshold_passed : BOOLEAN, thread_deadlocked : BOOLEAN]
    /\ front \in {1, 2} /\ arrays \in [{1, 2} -> 0 .. NumBlocks]
    /\ next_block \in 1 .. NumBlocks + 1 /\ num_edges \in Nat
    /\ DOMAIN m_task = W /\ DOMAIN task = W /\ \A w \in W : m_task[w].type \in TaskOp
    /\ pc \in [W -> Labels] /\ lpos \in [W -> Nat]

-----------------------------------------------------------------------------
(* The handshake *)

(* The loop that hands out the tasks has not come to the worker w. *)
Unset(w) == (mpc[2] = "set" /\ w >= mi) \/ (mpc[2] = "notify" /\ w > mi)

(* The master counts on w being idle. *)
Free(w) ==
    \/ Unset(w)
    \/ mpc[2] \in {"wait", "record", "drain"} /\ w < mi
    \/ mpc[1] \in {"ctor", "dtor"} /\ w # mi
    \/ mpc[2] \in {"spawn", "first", "swap", "prepare", "start", "end", "results", "done"}

(* What the slot of w holds, at each phase.  Only an expired drain leaves  *)
(* a task behind.                                                          *)
Slot(w) ==
    /\ Free(w) => IsIdle(w) \/ (Deadlocked /\ m_task[w].type = "EXECUTE_UPDATES")
    /\ m_task[w].type = "START" => mpc = <<"ctor", "wait">> /\ w = mi /\ pc[w] = "fetch"
    /\ m_task[w].type = "LOAD_EDGES" =>
          /\ (mpc[1] = "load" \/ mpc = <<"error", "busy">>) /\ ~ Free(w)
          /\ m_task[w] = Task("LOAD_EDGES", front, BlockSize(arrays[front])) /\ arrays[front] # 0
    /\ m_task[w].type = "SET_ARRAY_LATENCIES" => mpc[1] \in {"latency", "error"}
    /\ m_task[w].type = "EXECUTE_UPDATES" =>
          \/ mpc[1] \in {"run", "error"} /\ mpc # <<"run", "start">>
          \/ Deadlocked /\ Unset(w) /\ mpc[1] \in {"load", "remove", "dtor"}
          \/ Deadlocked /\ mpc[1] = "dtor" /\ w > mi
    /\ m_task[w].type = "REMOVE_VERTICES" => (mpc[1] = "remove" \/ mpc = <<"error", "busy">>) /\ Mode = "execute"
    /\ m_task[w].type = "STOP" => mpc \in {<<"dtor", "notify">>, <<"dtor", "join">>} /\ w = mi

(* Where the worker w is, with what its slot holds. *)
Place(w) ==
    /\ IsIdle(w) => pc[w] \in {"none", "waiting", "exited"}
    /\ pc[w] = "none" => IsIdle(w) /\ mpc[1] = "ctor" /\ (w > mi \/ (w = mi /\ mpc[2] = "spawn"))
    /\ pc[w] = "load" => m_task[w].type = "LOAD_EDGES" /\ task[w] = m_task[w] /\ lpos[w] <= task[w].sz
    /\ pc[w] \in Executing => m_task[w].type = "EXECUTE_UPDATES" \/ (Deadlocked /\ m_task[w].type = "STOP")
    /\ pc[w] = "remove" => m_task[w].type = "REMOVE_VERTICES"
    /\ pc[w] = "exiting" => m_task[w].type = "STOP"
    /\ pc[w] = "exited" =>
          /\ IsIdle(w)
          /\ \/ mpc[1] \in {"done", "error"}
             \/ mpc[1] = "dtor" /\ w < mi
             \/ mpc \in {<<"dtor", "notify">>, <<"dtor", "join">>} /\ w = mi

(* The blocks that have been handed to the workers, or are being so. *)
Given ==
    IF mpc \in {<<"load", "set">>, <<"load", "notify">>, <<"load", "next">>} \/ num_edges = 0
      THEN next_block - 1 ELSE next_block - 2

(* The two arrays: the workers read from the one in front, and the loader  *)
(* is at most a block ahead of them.                                       *)
Arrays ==
    /\ mpc[1] = "ctor" \/ mpc = <<"load", "first">> => next_block = 1 /\ num_edges = 0
    /\ mpc[1] = "load" /\ mpc[2] # "first" => arrays[front] = Given /\ Given > 0
    /\ num_edges > 0 =>
          /\ next_block > 1 /\ num_edges = BlockSize(next_block - 1)
          /\ arrays[IF mpc \in {<<"load", "wait">>, <<"load", "swap">>} THEN Back(front) ELSE front] = next_block - 1
    /\ num_edges = 0 => next_block \in {1, NumBlocks + 1}
    /\ mpc \in {<<"load", "set">>, <<"load", "notify">>, <<"load", "next">>} => num_edges > 0
    /\ mpc[1] \notin {"ctor", "load", "error"} => Given > 0

(* A stop is what starts the drain, and is never taken back. *)
Stopping ==
    /\ mpc = <<"run", "drain">> => m_stop_experiment
    /\ Deadlocked => m_stop_experiment
    /\ mpc[1] \in {"remove", "store"} => Mode = "execute"
    /\ mpc \in {<<"error", "busy">>, <<"error", "assert">>} => Deadlocked

(* The reports: a worker goes beyond the last one it knows of, the entries *)
(* that the winners are about to record are distinct, and the last one is  *)
(* recorded or about to be.                                                *)
Reporting ==
    /\ DOMAIN ex = W /\ DOMAIN m_reported_times = 1 .. ReportedTimesSz
    /\ \A w \in W : pc[w] = "cas" => ex[w].coeff > ex[w].last
    /\ \A w \in W : pc[w] = "store" => 0 < ex[w].coeff /\ ex[w].coeff <= m_last_time_reported
    /\ \A u, w \in W : pc[u] = "store" /\ pc[w] = "store" /\ ex[u].coeff = ex[w].coeff => u = w
    /\ m_last_time_reported \in 1 .. ReportedTimesSz =>
          \/ m_reported_times[m_last_time_reported] # NotReported
          \/ \E w \in W : AboutToRecord(w, m_last_time_reported)

Handshake ==
    /\ Types /\ Arrays /\ Stopping
    /\ \A w \in W : Slot(w) /\ Place(w)

-----------------------------------------------------------------------------
(* The updates *)

End(b) == IF b = 0 THEN 0 ELSE BlockEnd[b]

(* The worker w has been through the updates of the log up to this one. *)
Loaded(w) ==
    IF mpc[1] = "load" /\ (Unset(w) \/ (m_task[w].type = "LOAD_EDGES" /\ pc[w] \in {"waiting", "load"}))
      THEN End(Given - 1) + (IF pc[w] = "load" THEN lpos[w] ELSE 0)
      ELSE End(Given)

(* The buffer that w executes, and the updates of its buffers that it has  *)
(* not executed yet.                                                       *)
Cur(w) == IF ReleaseMemory THEN 1 ELSE ex[w].i
Executed(w, b, p) == pc[w] \in Executing /\ (b < Cur(w) \/ (b = Cur(w) /\ p <= ex[w].pos))
In(w, b, p) == b \in 1 .. Len(m_updates[w]) /\ p \in 1 .. Len(m_updates[w][b])
Waits(w, b, p) == In(w, b, p) /\ ~ Executed(w, b, p)

(* The loops of main_execute_updates are inside the buffers, and           *)
(* main_load_edges has a buffer to append to.                              *)
Loops(w) ==
    /\ pc[w] = "load" => Len(m_updates[w]) > 0
    /\ pc[w] \in Executing =>
        /\ ex[w].i \in 1 .. ex[w].end + 1
        /\ Len(m_updates[w]) = IF ReleaseMemory THEN ex[w].end - ex[w].i + 1 ELSE ex[w].end
        /\ ex[w].start <= ex[w].pos
        /\ pc[w] = "buffer" => ex[w].pos = ex[w].start /\ (ex[w].i <= ex[w].end => ex[w].start <= Len(Operations(w)))
                               /\ (ex[w].i > ex[w].end => ex[w].pos = 0)
        /\ pc[w] # "buffer" => ex[w].i <= ex[w].end /\ ex[w].start < Len(Operations(w)) /\ ex[w].pos <= ChunkEnd(w)
        /\ pc[w] = "call" => ex[w].pos < ChunkEnd(w)
        /\ pc[w] \in {"count", "cas", "store"} => m_stop_experiment \/ ex[w].pos = ChunkEnd(w)

Before(b, p, c, q) == b < c \/ (b = c /\ p < q)

(* The updates of w, in its buffers in the order of the log: applied are   *)
(* those it has been through and that do not wait in a buffer.             *)
Buffered(w) ==
    /\ \A b, c, p, q \in Nat : In(w, b, p) /\ In(w, c, q) /\ Before(b, p, c, q) => m_updates[w][b][p] < m_updates[w][c][q]
    /\ \A b, p \in Nat : In(w, b, p) => OwnedBy(m_updates[w][b][p], w) /\ m_updates[w][b][p] <= Loaded(w)
    /\ \A op \in Ops : OwnedBy(op, w) =>
          (op \in Range(applied) <=> op <= Loaded(w) /\ \A b, p \in Nat : Waits(w, b, p) => m_updates[w][b][p] # op)
    /\ \A op \in Ops, b, p \in Nat : OwnedBy(op, w) /\ op \in Range(applied) /\ Waits(w, b, p) => op < m_updates[w][b][p]

(* Until the experiment is stopped, but for the update already called. *)
Runs(w) == ~ m_stop_experiment \/ pc[w] = "call"

(* The updates in the library, and the edges they leave there until the    *)
(* vertices are removed.                                                   *)
LastApplied(op, e) ==
    /\ op \in Range(applied) /\ Endpoints(op) = e /\ IsInsertion(op)
    /\ \A q \in Range(applied) : Endpoints(q) = e => q <= op
Removing == Mode = "execute" /\ (mpc[1] \in {"remove", "store", "dtor", "done"} \/ mpc \in {<<"error", "busy">>, <<"error", "assert">>})
Stored == ~ Removing => \A e : e \in edges <=> \E op \in Ops : LastApplied(op, e)

(* A worker that has run its task has no update left, so that all updates  *)
(* of the blocks that have been handed out are in the library when the run *)
(* ends, those of the whole log when no block is left.                     *)
Emptied(w) == mpc[1] = "run" /\ mpc[2] # "start" /\ ~ Unset(w) /\ (IsIdle(w) \/ pc[w] = "fetch") => m_updates[w] = <<>>
AppliedUpTo(n) == \A op \in Ops : op <= n => op \in Range(applied)
Ending == {"remove", "store", "dtor", "done"}
Complete ==
    /\ mpc[1] \in Ending /\ ~ m_stop_experiment => AppliedUpTo(Len(Log))
    /\ Mode = "execute" /\ mpc[1] \in {"latency", "run"} => num_edges = 0
Emptying == Complete /\ \A w \in W : Emptied(w)

(* In mode small_batch, the blocks before the one of an update in a buffer *)
(* are in the library.                                                     *)
Covered(op) == \E c \in 1 .. NumBlocks : op > End(c - 1) /\ op <= End(c) /\ AppliedUpTo(End(c - 1))
Behind(w) == \A b, p \in Nat : In(w, b, p) => Covered(m_updates[w][b][p])
Previous == mpc[1] = "load" /\ mpc[2] # "first" /\ ~ m_stop_experiment => AppliedUpTo(End(Given - 1))
Barrier == Mode = "small_batch" => Previous /\ \A w \in W : Runs(w) => Behind(w)

(* Each update in the library is counted once, by its worker, and by the   *)
(* master when the chunk it belongs to is over.                            *)
Mine(w) == {op \in Range(applied) : OwnedBy(op, w)}
Counting ==
    /\ DOMAIN m_num_operations = W /\ Len(applied) = Cardinality(Range(applied))
    /\ \A w \in W : m_num_operations[w] = Cardinality(Mine(w))
Chunk(w) == {Operations(w)[k] : k \in ex[w].start + 1 .. ex[w].pos}
Open(w) == IF pc[w] \in {"check", "call", "count"} THEN Chunk(w) ELSE {}
Pending == {op \in Ops : \E w \in W : op \in Open(w)}
Performed == ~ m_stop_experiment => m_num_operations_performed = Cardinality(Range(applied) \ Pending)

(* The vertices: those of the edges inserted, and then all but those that  *)
(* the workers have removed.                                               *)
Inserted(v) == \E op \in Range(applied) : IsInsertion(op) /\ v \in Endpoints(op)
RemovedUpTo(w) ==
    IF mpc[1] = "remove" /\ (Unset(w) \/ (m_task[w].type = "REMOVE_VERTICES" /\ pc[w] \in {"waiting", "remove"}))
      THEN IF pc[w] = "remove" THEN lpos[w] ELSE 0
      ELSE Len(TempVertices)
Removed(v) == \E k \in 1 .. Len(TempVertices) : TempVertices[k] = v /\ k <= RemovedUpTo(v % NumThreads)
RemovalTask(w) ==
    /\ m_task[w].type = "REMOVE_VERTICES" => m_task[w].sz = Len(TempVertices)
    /\ pc[w] = "remove" => task[w].sz = Len(TempVertices) /\ lpos[w] <= Len(TempVertices)
Insertions == ~ Removing => vertices = {v \in Vertices : Inserted(v)}
Remains == Removing /\ ~ m_stop_experiment =>
    edges = PresentAfter(Len(Log)) /\ vertices = {v \in Vertices : ~ Removed(v)}
Removal == Insertions /\ Remains /\ \A w \in W : RemovalTask(w)

(* The times that are reported. *)
Timely == \A k \in 1 .. ReportedTimesSz :
    m_reported_times[k] # NotReported => m_reported_times[k] * ReportsPerOps >= k * FinalEdges
Reached == ~ m_stop_experiment =>
    /\ \A w \in W : pc[w] \in {"cas", "store"} => Len(applied) * ReportsPerOps >= ex[w].coeff * FinalEdges
    /\ Timely

Locals == [i : Nat, end : Nat, start : Nat, pos : Nat, coeff : Nat, last : Nat]
UpdateTypes ==
    /\ m_updates \in [W -> Seq(Seq(Ops))] /\ applied \in Seq(Ops)
    /\ ex \in [W -> Locals] /\ m_num_operations_performed \in Nat /\ m_last_time_reported \in Nat

Updates ==
    /\ UpdateTypes
    /\ \A w \in W : Loops(w) /\ (Runs(w) => Buffered(w))

IInv == Handshake /\ Updates /\ Stored /\ Emptying /\ Barrier /\ Counting /\ Performed /\ Removal /\ Reporting /\ Reached /\ PerEdgeOrder /\ (Mode = "small_batch" => BatchBarrier)

-----------------------------------------------------------------------------
(* The parameters *)

(* The workers are numbered from 0. *)
LEMMA Workers ==
    /\ NumThreads \in Nat /\ 0 \in W /\ W \subseteq Nat
    /\ \A w \in W : w <= NumThreads - 1 /\ w >= 0 /\ (w < NumThreads - 1 => w + 1 \in W)
  BY ParameterAssumption DEF W

(* The blocks follow each other in the log. *)
LEMMA Blocks ==
    /\ NumBlocks \in Nat /\ NumBlocks > 0 /\ Len(Log) \in Nat /\ Len(Log) > 0
    /\ End(0) = 0 /\ End(NumBlocks) = Len(Log)
    /\ \A b \in 0 .. NumBlocks : End(b) \in Nat /\ End(b) <= Len(Log)
    /\ \A b \in 1 .. NumBlocks : /\ BlockEnd[b] = End(b) /\ BlockFirst(b) = End(b - 1) + 1 /\ BlockSize(b) = End(b) - End(b - 1)
                                 /\ End(b - 1) \in Nat /\ BlockSize(b) \in Nat /\ BlockSize(b) > 0
    /\ \A b, c \in 0 .. NumBlocks : b < c => End(b) < End(c)
<1>1. NumBlocks \in Nat /\ NumBlocks > 0 /\ Len(Log) \in Nat /\ Len(Log) > 0 /\ NumBlocks = Len(BlockEnd)
  BY LogAssumption DEF NumBlocks
<1>2. ASSUME NEW b \in 1 .. NumBlocks PROVE BlockEnd[b] \in Nat /\ BlockEnd[b] > 0 /\ BlockEnd[b] <= Len(Log)
  <2>1. BlockEnd \in Seq(1 .. Len(Log)) /\ b \in 1 .. Len(BlockEnd)
    BY <1>1, <1>2, LogAssumption DEF Ops
  <2>2. BlockEnd[b] \in 1 .. Len(Log)
    BY <2>1, ElementOfSeq
  <2>. QED
    BY <1>1, <2>2
<1>3. \A b, c \in 1 .. NumBlocks : b < c => BlockEnd[b] < BlockEnd[c]
  BY LogAssumption
<1>4. End(0) = 0 /\ \A b \in 1 .. NumBlocks : End(b) = BlockEnd[b]
  BY <1>1 DEF End
<1>5. End(NumBlocks) = Len(Log)
  BY <1>1, <1>4, LogAssumption
<1>6. ASSUME NEW b \in 0 .. NumBlocks PROVE End(b) \in Nat /\ End(b) <= Len(Log)
  BY <1>1, <1>2, <1>4
<1>7. ASSUME NEW b \in 0 .. NumBlocks, NEW c \in 0 .. NumBlocks, b < c PROVE End(b) < End(c)
  <2>1. CASE b = 0
    BY <1>1, <1>2, <1>4, <1>7, <2>1
  <2>2. CASE b # 0
    BY <1>1, <1>3, <1>4, <1>7, <2>2
  <2>. QED
    BY <2>1, <2>2
<1>8. ASSUME NEW b \in 1 .. NumBlocks
      PROVE  /\ BlockEnd[b] = End(b) /\ BlockFirst(b) = End(b - 1) + 1 /\ BlockSize(b) = End(b) - End(b - 1)
             /\ End(b - 1) \in Nat /\ BlockSize(b) \in Nat /\ BlockSize(b) > 0
  <2>1. b - 1 \in 0 .. NumBlocks /\ b \in 0 .. NumBlocks /\ b - 1 < b
    BY <1>1
  <2>2. End(b - 1) \in Nat /\ End(b) \in Nat /\ End(b - 1) < End(b)
    BY <1>6, <1>7, <2>1
  <2>3. BlockFirst(b) = End(b - 1) + 1
    <3>1. CASE b = 1
      BY <1>4, <3>1 DEF BlockFirst
    <3>2. CASE b # 1
      BY <1>1, <1>4, <3>2 DEF BlockFirst
    <3>. QED
      BY <3>1, <3>2
  <2>. QED
    BY <1>4, <2>2, <2>3 DEF BlockSize
<1>. QED
  BY <1>1, <1>4, <1>5, <1>6, <1>7, <1>8

(* Each update is in one block. *)
LEMMA BlockFound ==
    ASSUME NEW b \in 1 .. NumBlocks, NEW op \in Nat, op > End(b - 1), op <= End(b)
    PROVE  BlockOf(op) = b
<1>1. op \in BlockFirst(b) .. BlockEnd[b]
  <2>1. BlockFirst(b) = End(b - 1) + 1 /\ BlockEnd[b] = End(b) /\ End(b - 1) \in Nat /\ b \in 0 .. NumBlocks
    BY Blocks
  <2>2. End(b) \in Nat
    BY <2>1, Blocks
  <2>. QED
    BY <2>1, <2>2
<1>2. ASSUME NEW c \in 1 .. NumBlocks, op \in BlockFirst(c) .. BlockEnd[c] PROVE c = b
  <2>1. b - 1 \in 0 .. NumBlocks /\ c - 1 \in 0 .. NumBlocks /\ b \in 0 .. NumBlocks /\ c \in 0 .. NumBlocks
    BY Blocks
  <2>2. End(b) \in Nat /\ End(c) \in Nat /\ End(b - 1) \in Nat /\ End(c - 1) \in Nat
    BY <2>1, Blocks
  <2>3. op > End(c - 1) /\ op <= End(c)
    <3>1. BlockFirst(c) = End(c - 1) + 1 /\ BlockEnd[c] = End(c)
      BY Blocks
    <3>. QED
      BY <1>2, <2>2, <3>1
  <2>4. ~ (c < b)
    <3>1. c < b => c = b - 1 \/ c < b - 1
      BY <2>1
    <3>2. c < b - 1 => End(c) < End(b - 1)
      BY <2>1, Blocks
    <3>. QED
      BY <2>2, <2>3, <3>1, <3>2
  <2>5. ~ (b < c)
    <3>1. b < c => b = c - 1 \/ b < c - 1
      BY <2>1
    <3>2. b < c - 1 => End(b) < End(c - 1)
      BY <2>1, Blocks
    <3>. QED
      BY <2>2, <2>3, <3>1, <3>2
  <2>. QED
    BY <2>4, <2>5
<1>. QED
  BY <1>1, <1>2 DEF BlockOf

-----------------------------------------------------------------------------
(* The handshake: the steps of the workers *)

(* A worker empties its slot, and nothing else changes there. *)
LEMMA HandshakeEmptied ==
    ASSUME Handshake, NEW w \in W, UNCHANGED masterVars, UNCHANGED <<arrays, m_stop_experiment, task, lpos>>,
           m_task' = [m_task EXCEPT ![w] = IdleTask],
           \/ pc' = [pc EXCEPT ![w] = "waiting"]
           \/ pc[w] = "exiting" /\ pc' = [pc EXCEPT ![w] = "exited"]
    PROVE  Handshake'
<1>1. /\ UNCHANGED <<mpc, mi, front, num_edges, next_block, m_results, arrays, m_stop_experiment, task, lpos>>
  BY DEF masterVars, loaderVars, statusVars
<1>2. Types'
  BY <1>1 DEF Handshake, Types, Labels, IdleTask, Task, TaskOp
<1>3. Arrays' /\ Stopping'
  BY <1>1 DEF Handshake, Arrays, Stopping, Given, Deadlocked
<1>4. ASSUME NEW u \in W PROVE Slot(u)' /\ Place(u)'
  <2>1. Slot(u) /\ Place(u) /\ Types
    BY DEF Handshake
  <2>2. CASE u # w
    <3>1. m_task'[u] = m_task[u] /\ pc'[u] = pc[u] /\ task'[u] = task[u] /\ lpos'[u] = lpos[u]
      BY <1>1, <2>1, <2>2 DEF Types
    <3>. QED
      BY <1>1, <2>1, <3>1 DEF Slot, Place, Free, Unset, IsIdle, Deadlocked
  <2>3. CASE u = w
    <3>1. m_task'[u].type = "IDLE"
      BY <2>1, <2>3 DEF Types, IdleTask, Task
    <3>2. CASE pc'[u] = "waiting"
      BY <3>1, <3>2 DEF Slot, Place, IsIdle, Executing
    <3>3. CASE pc[u] = "exiting" /\ pc'[u] = "exited"
      <4>1. mpc \in {<<"dtor", "notify">>, <<"dtor", "join">>} /\ u = mi
        BY <2>1, <3>3 DEF Slot, Place
      <4>. QED
        BY <1>1, <3>1, <3>3, <4>1 DEF Slot, Place, IsIdle, Executing
    <3>. QED
      BY <2>1, <2>3, <3>2, <3>3 DEF Types
  <2>. QED
    BY <2>2, <2>3
<1>. QED
  BY <1>2, <1>3, <1>4 DEF Handshake

(* A worker goes on with the task that it has. *)
LEMMA HandshakeGoesOn ==
    ASSUME Handshake, NEW w \in W, UNCHANGED masterVars, UNCHANGED <<arrays, m_stop_experiment, m_task>>,
           pc' \in [W -> Labels], lpos' \in [W -> Nat], DOMAIN task' = W, Place(w)',
           \A u \in W : u # w => pc'[u] = pc[u] /\ task'[u] = task[u] /\ lpos'[u] = lpos[u],
           m_task[w].type # "START"
    PROVE  Handshake'
<1>1. UNCHANGED <<mpc, mi, front, num_edges, next_block, m_results, arrays, m_stop_experiment, m_task>>
  BY DEF masterVars, loaderVars, statusVars
<1>2. Types'
  BY <1>1 DEF Handshake, Types
<1>3. Arrays' /\ Stopping'
  BY <1>1 DEF Handshake, Arrays, Stopping, Given, Deadlocked
<1>4. ASSUME NEW u \in W PROVE Slot(u)' /\ Place(u)'
  <2>1. Slot(u) /\ Place(u)
    BY DEF Handshake
  <2>2. Slot(u)'
    BY <1>1, <2>1 DEF Slot, Free, Unset, IsIdle, Deadlocked
  <2>3. u # w => Place(u)'
    BY <1>1, <2>1 DEF Place, IsIdle, Deadlocked
  <2>. QED
    BY <2>2, <2>3
<1>. QED
  BY <1>2, <1>3, <1>4 DEF Handshake

(* The size of the block in front. *)
LEMMA FrontSize ==
    ASSUME Types, arrays[front] # 0
    PROVE  arrays[front] \in 1 .. NumBlocks /\ BlockSize(arrays[front]) \in Nat /\ BlockSize(arrays[front]) > 0
<1>1. arrays[front] \in 0 .. NumBlocks
  BY DEF Types
<1>2. NumBlocks \in Nat
  BY Blocks
<1>3. arrays[front] \in 1 .. NumBlocks
  BY <1>1, <1>2
<1>. QED
  BY <1>3, Blocks

(* The steps of the workers keep the handshake. *)
LEMMA HandshakeWorker ==
    ASSUME Handshake, NEW w \in W, WorkerStep(w) \/ SpuriousWakeup(w), UNCHANGED masterVars
    PROVE  Handshake'
<1>1. Types /\ Slot(w) /\ Place(w)
  BY DEF Handshake
<1>2. UNCHANGED <<mpc, mi, m_results>>
  BY DEF masterVars, statusVars
<1>3. CASE FetchTask(w)
  BY <1>3, HandshakeEmptied DEF FetchTask, localVars
<1>4. CASE Exit(w)
  BY <1>4, HandshakeEmptied DEF Exit, localVars
<1>5. CASE WakeUp(w)
  <2>1. UNCHANGED <<m_task, arrays, m_stop_experiment>> /\ pc[w] = "waiting"
    BY <1>5 DEF WakeUp
  <2>2. CASE m_task[w].type = "IDLE"
    <3>1. UNCHANGED <<pc, task, lpos>>
      BY <1>5, <2>2 DEF WakeUp, localVars
    <3>2. Place(w)'
      BY <1>1, <1>2, <2>1, <3>1 DEF Place, IsIdle, Deadlocked
    <3>. QED
      BY <1>1, <2>1, <2>2, <3>1, <3>2, HandshakeGoesOn DEF Types
  <2>3. CASE m_task[w].type # "IDLE"
    <3> DEFINE t == m_task[w]
    <3>1. /\ task' = [task EXCEPT ![w] = m_task[w]] /\ lpos' = [lpos EXCEPT ![w] = 0]
          /\ pc' = [pc EXCEPT ![w] =
                     CASE t.type = "LOAD_EDGES" -> "load"
                       [] t.type = "EXECUTE_UPDATES" -> "buffer"
                       [] t.type = "REMOVE_VERTICES" -> "remove"
                       [] t.type = "SET_ARRAY_LATENCIES" -> "fetch"
                       [] t.type = "STOP" -> "exiting"]
      BY <1>5, <2>3 DEF WakeUp
    <3>2. m_task[w].type \in {"STOP", "LOAD_EDGES", "EXECUTE_UPDATES", "REMOVE_VERTICES", "SET_ARRAY_LATENCIES"}
      BY <1>1, <2>1, <2>3 DEF Types, TaskOp, Slot
    <3>3. pc'[w] = CASE t.type = "LOAD_EDGES" -> "load"
                     [] t.type = "EXECUTE_UPDATES" -> "buffer"
                     [] t.type = "REMOVE_VERTICES" -> "remove"
                     [] t.type = "SET_ARRAY_LATENCIES" -> "fetch"
                     [] t.type = "STOP" -> "exiting"
      BY <1>1, <3>1 DEF Types
    <3>4. task'[w] = m_task[w] /\ lpos'[w] = 0
      BY <1>1, <3>1 DEF Types
    <3>5. pc'[w] \in {"load", "buffer", "remove", "fetch", "exiting"}
      BY <3>2, <3>3
    <3>6. Place(w)'
      <4>1. m_task[w].type = "LOAD_EDGES" => m_task[w].sz \in Nat
        BY <1>1, FrontSize DEF Slot, Task
      <4>. QED
        BY <2>1, <2>3, <3>2, <3>3, <3>4, <4>1 DEF Place, IsIdle, Executing
    <3>7. pc' \in [W -> Labels]
      BY <1>1, <3>1, <3>3, <3>5 DEF Types, Labels, Executing
    <3>. QED
      BY <1>1, <2>1, <3>1, <3>2, <3>6, <3>7, HandshakeGoesOn DEF Types
  <2>. QED
    BY <2>2, <2>3
<1>6. CASE SpuriousWakeup(w)
  <2>1. UNCHANGED <<m_task, arrays, m_stop_experiment, pc, task, lpos>>
    BY <1>6 DEF SpuriousWakeup, localVars
  <2>. QED
    BY <1>2, <2>1 DEF Handshake, Types, Arrays, Stopping, Slot, Place, Free, Unset, IsIdle, Deadlocked, Given, masterVars, loaderVars
<1>7. CASE LoadEdges(w) \/ RemoveVertex(w)
  <2>1. /\ UNCHANGED <<m_task, arrays, m_stop_experiment, pc, task>> /\ lpos' = [lpos EXCEPT ![w] = @ + 1]
        /\ pc[w] \in {"load", "remove"} /\ lpos[w] < task[w].sz
    BY <1>7 DEF LoadEdges, RemoveVertex, syncVars
  <2>2. lpos'[w] = lpos[w] + 1 /\ lpos[w] \in Nat
    BY <1>1, <2>1 DEF Types
  <2>3. pc[w] = "load" => task[w].sz \in Nat
    BY <1>1, FrontSize DEF Place, Slot, Task
  <2>4. Place(w)'
    BY <1>1, <1>2, <2>1, <2>2, <2>3 DEF Place, IsIdle, Deadlocked
  <2>5. m_task[w].type # "START"
    BY <1>1, <2>1 DEF Slot
  <2>. QED
    BY <1>1, <2>1, <2>2, <2>4, <2>5, HandshakeGoesOn DEF Types
<1>8. CASE LoopDone(w)
  <2>1. /\ UNCHANGED <<m_task, arrays, m_stop_experiment, lpos, task>> /\ pc' = [pc EXCEPT ![w] = "fetch"]
        /\ pc[w] \in {"load", "remove"}
    BY <1>8 DEF LoopDone, syncVars, localVars
  <2>2. Place(w)' /\ m_task[w].type # "START"
    BY <1>1, <2>1 DEF Place, Slot, IsIdle, Executing, Types
  <2>. QED
    BY <1>1, <2>1, <2>2, HandshakeGoesOn DEF Types, Labels
<1>9. CASE NextChunk(w) \/ CheckStop(w) \/ CallLibrary(w) \/ CountChunk(w) \/ ReportTime(w) \/ StoreTime(w)
  <2>1. /\ UNCHANGED <<m_task, arrays, m_stop_experiment, lpos, task>> /\ pc[w] \in Executing
        /\ \E label \in Executing \cup {"fetch"} : pc' = [pc EXCEPT ![w] = label]
    <3>1. CASE NextChunk(w)
      BY <1>1, <3>1 DEF NextChunk, syncVars, Executing, Types
    <3>2. CASE CheckStop(w)
      BY <3>2 DEF CheckStop, syncVars, localVars, Executing
    <3>3. CASE CallLibrary(w)
      BY <3>3 DEF CallLibrary, syncVars, Executing
    <3>4. CASE CountChunk(w)
      BY <3>4 DEF CountChunk, syncVars, Executing
    <3>5. CASE ReportTime(w)
      BY <3>5 DEF ReportTime, syncVars, Executing
    <3>6. CASE StoreTime(w)
      BY <3>6 DEF StoreTime, syncVars, Executing
    <3>. QED
      BY <1>9, <3>1, <3>2, <3>3, <3>4, <3>5, <3>6
  <2>2. PICK label \in Executing \cup {"fetch"} : pc' = [pc EXCEPT ![w] = label]
    BY <2>1
  <2>3. m_task[w].type \notin {"IDLE", "START"}
    BY <1>1, <2>1 DEF Place, Slot, Executing
  <2>4. Place(w)'
    BY <1>1, <1>2, <2>1, <2>2, <2>3 DEF Place, IsIdle, Executing, Types, Deadlocked
  <2>. QED
    BY <1>1, <2>1, <2>2, <2>3, <2>4, HandshakeGoesOn DEF Types, Labels
<1>. QED
  BY <1>3, <1>4, <1>5, <1>6, <1>7, <1>8, <1>9 DEF WorkerStep

-----------------------------------------------------------------------------
(* The handshake: the steps of the master *)

(* The loop over the workers. *)
LEMMA NextWorker ==
    ASSUME mi \in W, NEW again, NEW leave, ForEachWorker(again, leave)
    PROVE  /\ mi' \in W
           /\ \/ mpc' = again /\ mi' = mi + 1
              \/ mpc' = leave /\ mi' = 0 /\ \A u \in W : u <= mi
<1>1. CASE mi < NumThreads - 1
  BY <1>1, Workers DEF ForEachWorker
<1>2. CASE ~ (mi < NumThreads - 1)
  BY <1>2, Workers DEF ForEachWorker
<1>. QED
  BY <1>1, <1>2

(* The constructor starts the workers one after the other. *)
LEMMA HandshakeSpawn ==
    ASSUME Handshake, Spawn
    PROVE  Handshake'
<1>1. /\ mpc = <<"ctor", "spawn">> /\ mpc' = <<"ctor", "wait">>
      /\ m_task' = [m_task EXCEPT ![mi] = Task("START", 0, 0)] /\ pc' = [pc EXCEPT ![mi] = "fetch"]
      /\ UNCHANGED <<mi, front, num_edges, next_block, m_results, arrays, m_stop_experiment, task, lpos>>
  BY DEF Spawn, At, workersLocal, localVars, loaderVars, statusVars
<1>2. Types
  BY DEF Handshake
<1>3. Types'
  BY <1>1, <1>2 DEF Types, Steps, Outside, Labels, TaskOp, Task
<1>4. Arrays' /\ Stopping'
  BY <1>1 DEF Handshake, Arrays, Stopping, Given, Deadlocked
<1>5. ASSUME NEW u \in W PROVE Slot(u)' /\ Place(u)'
  <2>1. Slot(u) /\ Place(u)
    BY DEF Handshake
  <2>2. CASE u # mi
    <3>1. m_task'[u] = m_task[u] /\ pc'[u] = pc[u]
      BY <1>1, <1>2, <2>2 DEF Types
    <3>. QED
      BY <1>1, <2>1, <2>2, <3>1, Workers DEF Slot, Place, Free, Unset, IsIdle, Deadlocked
  <2>3. CASE u = mi
    <3>1. m_task'[u].type = "START" /\ pc'[u] = "fetch"
      BY <1>1, <1>2, <2>3 DEF Types, Task
    <3>. QED
      BY <1>1, <2>3, <3>1, Workers DEF Slot, Place, Free, Unset, IsIdle, Deadlocked, Executing
  <2>. QED
    BY <2>2, <2>3
<1>. QED
  BY <1>3, <1>4, <1>5 DEF Handshake

(* The slots and the workers are left alone. *)
slotVars == <<m_task, pc, task, lpos>>
blockVars == <<front, num_edges, next_block, arrays>>
stopVars == <<m_stop_experiment, m_results>>

(* A wait that is over, for a worker: the slot is empty. *)
LEMMA HandshakeWaited ==
    ASSUME Handshake, IsIdle(mi), NEW again, NEW leave, ForEachWorker(again, leave), UNCHANGED <<slotVars, blockVars, stopVars>>,
           \/ /\ mpc = <<"ctor", "wait">> /\ again = <<"ctor", "spawn">> /\ leave = <<"load", "first">>
           \/ /\ mpc = <<"load", "wait">> /\ again = mpc /\ leave = <<"load", "swap">>
           \/ /\ mpc = <<"latency", "wait">> /\ again = mpc /\ leave = <<"run", "start">>
           \/ /\ mpc = <<"remove", "wait">> /\ again = mpc /\ leave = <<"store", "results">>
           \/ /\ mpc = <<"run", "record">> /\ again = mpc /\ leave \in {<<"run", "drain">>, <<"run", "end">>}
              /\ leave = <<"run", "drain">> => m_stop_experiment
           \/ /\ mpc = <<"run", "drain">> /\ again = mpc /\ leave = <<"run", "end">>
    PROVE  Handshake'
<1>1. Types /\ mi \in W
  BY DEF Handshake, Types
<1>2. /\ mi' \in W
      /\ \/ mpc' = again /\ mi' = mi + 1
         \/ mpc' = leave /\ mi' = 0 /\ \A u \in W : u <= mi
  BY <1>1, NextWorker
<1>3. UNCHANGED <<m_task, pc, task, lpos, front, num_edges, next_block, arrays, m_stop_experiment, m_results>>
  BY DEF slotVars, blockVars, stopVars
<1>4. Types'
  BY <1>1, <1>2, <1>3 DEF Types, Steps, Outside
<1>5. Arrays' /\ Stopping'
  BY <1>2, <1>3 DEF Handshake, Arrays, Stopping, Given, Deadlocked
<1>6. ASSUME NEW u \in W PROVE Slot(u)' /\ Place(u)'
  <2>1. Slot(u) /\ Place(u) /\ (u < mi \/ u = mi \/ u > mi)
    BY <1>1, Workers DEF Handshake
  <2>2. /\ mi \in Nat /\ u \in Nat /\ mi' \in Nat /\ (u < mi' => u <= mi)
        /\ mpc' = again => (u > mi' => u > mi) /\ (u = mi' => u > mi)
    BY <1>1, <1>2, Workers
  <2>3. CASE mpc = <<"ctor", "wait">>
    <3>1. Slot(u)'
      BY <1>2, <1>3, <2>1, <2>2, <2>3 DEF Slot, Free, Unset, IsIdle, Deadlocked
    <3>2. Place(u)'
      BY <1>2, <1>3, <2>1, <2>2, <2>3 DEF Place, IsIdle, Deadlocked
    <3>. QED
      BY <3>1, <3>2
  <2>4. CASE mpc = <<"load", "wait">>
    <3>1. Slot(u)'
      BY <1>2, <1>3, <2>1, <2>2, <2>4 DEF Slot, Free, Unset, IsIdle, Deadlocked
    <3>2. Place(u)'
      BY <1>2, <1>3, <2>1, <2>2, <2>4 DEF Place, IsIdle, Deadlocked
    <3>. QED
      BY <3>1, <3>2
  <2>5. CASE mpc = <<"latency", "wait">>
    <3>1. Slot(u)'
      BY <1>2, <1>3, <2>1, <2>2, <2>5 DEF Slot, Free, Unset, IsIdle, Deadlocked
    <3>2. Place(u)'
      BY <1>2, <1>3, <2>1, <2>2, <2>5 DEF Place, IsIdle, Deadlocked
    <3>. QED
      BY <3>1, <3>2
  <2>6. CASE mpc = <<"remove", "wait">>
    <3>1. Slot(u)'
      BY <1>2, <1>3, <2>1, <2>2, <2>6 DEF Slot, Free, Unset, IsIdle, Deadlocked
    <3>2. Place(u)'
      BY <1>2, <1>3, <2>1, <2>2, <2>6 DEF Place, IsIdle, Deadlocked
    <3>. QED
      BY <3>1, <3>2
  <2>7. CASE mpc = <<"run", "record">>
    <3>1. Slot(u)'
      BY <1>2, <1>3, <2>1, <2>2, <2>7 DEF Slot, Free, Unset, IsIdle, Deadlocked
    <3>2. Place(u)'
      BY <1>2, <1>3, <2>1, <2>2, <2>7 DEF Place, IsIdle, Deadlocked
    <3>. QED
      BY <3>1, <3>2
  <2>8. CASE mpc = <<"run", "drain">>
    <3>1. Slot(u)'
      BY <1>2, <1>3, <2>1, <2>2, <2>8 DEF Slot, Free, Unset, IsIdle, Deadlocked
    <3>2. Place(u)'
      BY <1>2, <1>3, <2>1, <2>2, <2>8 DEF Place, IsIdle, Deadlocked
    <3>. QED
      BY <3>1, <3>2
  <2>. QED
    BY <2>3, <2>4, <2>5, <2>6, <2>7, <2>8
<1>. QED
  BY <1>4, <1>5, <1>6 DEF Handshake

(* The master fills a slot. *)
LEMMA HandshakeFilled ==
    ASSUME Handshake, NEW phase, NEW t, mpc = <<phase, "set">>, mpc' = <<phase, "notify">>,
           m_task' = [m_task EXCEPT ![mi] = t],
           UNCHANGED <<mi, pc, task, lpos, blockVars, stopVars>>,
           \/ IsIdle(mi) /\ phase = "load" /\ t = Task("LOAD_EDGES", front, num_edges)
           \/ IsIdle(mi) /\ phase = "latency" /\ t.type = "SET_ARRAY_LATENCIES"
           \/ IsIdle(mi) /\ phase = "run" /\ t.type = "EXECUTE_UPDATES"
           \/ IsIdle(mi) /\ phase = "remove" /\ t.type = "REMOVE_VERTICES"
           \/ phase = "dtor" /\ t.type = "STOP"
    PROVE  Handshake'
<1>1. Types /\ mi \in W /\ Arrays
  BY DEF Handshake, Types
<1>2. UNCHANGED <<mi, pc, task, lpos, front, num_edges, next_block, arrays, m_stop_experiment, m_results>>
  BY DEF blockVars, stopVars
<1>3. m_task'[mi] = t /\ t.type \in TaskOp
  BY <1>1 DEF Types, TaskOp, Task
<1>4. Types'
  BY <1>1, <1>2, <1>3 DEF Types, Steps, Outside
<1>5. Arrays' /\ Stopping'
  BY <1>2 DEF Handshake, Arrays, Stopping, Given, Deadlocked
<1>6. ASSUME NEW u \in W PROVE Slot(u)' /\ Place(u)'
  <2>1. Slot(u) /\ Place(u) /\ mi \in Nat /\ u \in Nat
    BY <1>1, Workers DEF Handshake
  <2>2. CASE u # mi
    <3>1. m_task'[u] = m_task[u]
      BY <1>1, <2>2 DEF Types
    <3>2. Slot(u)'
      BY <1>2, <2>1, <2>2, <3>1 DEF Slot, Free, Unset, IsIdle, Deadlocked
    <3>3. Place(u)'
      BY <1>2, <2>1, <2>2, <3>1 DEF Place, IsIdle, Deadlocked
    <3>. QED
      BY <3>2, <3>3
  <2>3. CASE u = mi
    <3>1. m_task'[u] = t
      BY <1>3, <2>3
    <3>2. pc[u] \in {"waiting", "exited"} \/ (Deadlocked /\ phase = "dtor" /\ m_task[u].type = "EXECUTE_UPDATES")
      BY <2>1, <2>3 DEF Slot, Place, Free, Unset, IsIdle
    <3>3. pc[u] # "exited"
      BY <2>1, <2>3, <1>1 DEF Place, Types, Steps
    <3>4. phase = "load" => arrays[front] # 0 /\ num_edges = BlockSize(arrays[front])
      BY <1>1 DEF Arrays, Given, Types
    <3>5. phase = "remove" => Mode = "execute"
      BY DEF Handshake, Stopping
    <3>6. Slot(u)'
      BY <1>2, <2>1, <2>3, <3>1, <3>4, <3>5 DEF Slot, Free, Unset, IsIdle, Deadlocked, Task
    <3>7. pc[u] \notin {"none", "load", "remove", "exiting"} /\ (pc[u] \in Executing => Deadlocked /\ phase = "dtor")
      BY <2>1, <3>2 DEF Place, Executing
    <3>8. Place(u)'
      BY <1>2, <3>1, <3>3, <3>7 DEF Place, IsIdle, Deadlocked, Task
    <3>. QED
      BY <3>6, <3>8
  <2>. QED
    BY <2>2, <2>3
<1>. QED
  BY <1>4, <1>5, <1>6 DEF Handshake

(* The master finds a slot that is not empty. *)
LEMMA HandshakeBusy ==
    ASSUME Handshake, mpc[2] = "set", ~ IsIdle(mi), mpc' = <<"error", "busy">> \/ (mpc[1] = "dtor" /\ mpc' = <<"error", "assert">>),
           UNCHANGED <<mi, slotVars, blockVars, stopVars>>
    PROVE  Handshake' /\ Deadlocked
<1>1. Types /\ mi \in W /\ Slot(mi)
  BY DEF Handshake, Types
<1>2. UNCHANGED <<mi, m_task, pc, task, lpos, front, num_edges, next_block, arrays, m_stop_experiment, m_results>>
  BY DEF slotVars, blockVars, stopVars
<1>3. Deadlocked
  BY <1>1, Workers DEF Slot, Free, Unset
<1>4. Types'
  BY <1>1, <1>2 DEF Types, Steps, Outside
<1>5. Stopping'
  BY <1>2, <1>3 DEF Handshake, Stopping, Deadlocked
<1>6. Arrays'
  <2>1. mpc \in {<<"load", "set">>, <<"latency", "set">>, <<"run", "set">>, <<"remove", "set">>, <<"dtor", "set">>}
    BY <1>1 DEF Types, Steps, Outside
  <2>2. Given > 0 /\ Arrays
    BY <2>1 DEF Handshake, Arrays
  <2>. QED
    BY <1>2, <2>1, <2>2 DEF Arrays, Given
<1>7. ASSUME NEW u \in W PROVE Slot(u)' /\ Place(u)'
  <2>1. Slot(u) /\ Place(u)
    BY DEF Handshake
  <2>2. Slot(u)'
    BY <1>2, <2>1 DEF Slot, Free, Unset, IsIdle, Deadlocked
  <2>3. Place(u)'
    BY <1>1, <1>2, <2>1 DEF Place, IsIdle, Deadlocked, Types, Steps
  <2>. QED
    BY <2>2, <2>3
<1>. QED
  BY <1>3, <1>4, <1>5, <1>6, <1>7 DEF Handshake

(* The master wakes up a worker and goes on with the next one. *)
LEMMA HandshakeNotified ==
    ASSUME Handshake, NEW phase, NEW leave, ForEachWorker(<<phase, "set">>, leave), mpc = <<phase, "notify">>,
           UNCHANGED <<slotVars, blockVars, stopVars>>,
           \/ phase = "load" /\ leave = <<"load", "next">>
           \/ phase = "latency" /\ leave = <<"latency", "wait">>
           \/ phase = "run" /\ leave = <<"run", "running">>
           \/ phase = "remove" /\ leave = <<"remove", "wait">>
    PROVE  Handshake'
<1>1. Types /\ mi \in W
  BY DEF Handshake, Types
<1>2. /\ mi' \in W
      /\ \/ mpc' = <<phase, "set">> /\ mi' = mi + 1
         \/ mpc' = leave /\ mi' = 0 /\ \A u \in W : u <= mi
  BY <1>1, NextWorker
<1>3. UNCHANGED <<m_task, pc, task, lpos, front, num_edges, next_block, arrays, m_stop_experiment, m_results>>
  BY DEF slotVars, blockVars, stopVars
<1>4. Types'
  BY <1>1, <1>2, <1>3 DEF Types, Steps, Outside
<1>5. Arrays' /\ Stopping'
  BY <1>2, <1>3 DEF Handshake, Arrays, Stopping, Given, Deadlocked
<1>6. ASSUME NEW u \in W PROVE Slot(u)' /\ Place(u)'
  <2>1. Slot(u) /\ Place(u) /\ u \in Nat /\ mi \in Nat /\ (mi' = mi + 1 => (u >= mi' <=> u > mi))
    BY <1>1, Workers DEF Handshake
  <2>2. Unset(u)' = Unset(u)
    BY <1>2, <2>1 DEF Unset
  <2>3. Free(u)' = Free(u)
    BY <1>2, <2>1, <2>2 DEF Free, Unset
  <2>4. Slot(u)'
    BY <1>2, <1>3, <2>1, <2>2, <2>3 DEF Slot, IsIdle, Deadlocked
  <2>5. Place(u)'
    BY <1>2, <1>3, <2>1 DEF Place, IsIdle, Deadlocked
  <2>. QED
    BY <2>4, <2>5
<1>. QED
  BY <1>4, <1>5, <1>6 DEF Handshake

(* The loader: the first block. *)
LEMMA HandshakeLoadFirst ==
    ASSUME Handshake, LoadFirst
    PROVE  Handshake'
<1>1. /\ mpc = <<"load", "first">> /\ mpc' = LoopHead(num_edges') /\ LoadBlock(front)
      /\ UNCHANGED <<mi, front, m_results, m_task, pc, task, lpos, m_stop_experiment>>
  BY DEF LoadFirst, At, workersLocal, localVars, statusVars, syncVars
<1>2. Types /\ Arrays /\ next_block = 1
  BY <1>1 DEF Handshake, Arrays
<1>3. NumBlocks \in Nat /\ NumBlocks > 0 /\ BlockSize(1) \in Nat /\ BlockSize(1) > 0
  BY Blocks
<1>4. arrays' = [arrays EXCEPT ![front] = 1] /\ num_edges' = BlockSize(1) /\ next_block' = 2
  BY <1>1, <1>2, <1>3 DEF LoadBlock
<1>5. mpc' = <<"load", "set">>
  BY <1>1, <1>3, <1>4 DEF LoopHead
<1>6. Types'
  BY <1>1, <1>2, <1>3, <1>4, <1>5 DEF Types, Steps, Outside
<1>7. Arrays'
  <2>1. arrays'[front'] = 1
    BY <1>1, <1>2, <1>4 DEF Types
  <2>2. Given' = 1
    BY <1>4, <1>5 DEF Given
  <2>. QED
    BY <1>3, <1>4, <1>5, <2>1, <2>2 DEF Arrays
<1>8. Stopping'
  BY <1>1, <1>5 DEF Handshake, Stopping, Deadlocked
<1>9. ASSUME NEW u \in W PROVE Slot(u)' /\ Place(u)'
  <2>1. Slot(u) /\ Place(u) /\ mi = 0 /\ u >= 0
    BY <1>1, Workers DEF Handshake, Types, Outside
  <2>2. Slot(u)'
    BY <1>1, <1>5, <2>1 DEF Slot, Free, Unset, IsIdle, Deadlocked
  <2>3. Place(u)'
    BY <1>1, <1>5, <2>1 DEF Place, IsIdle, Deadlocked
  <2>. QED
    BY <2>2, <2>3
<1>. QED
  BY <1>6, <1>7, <1>8, <1>9 DEF Handshake

(* The loader does not disturb the workers that read the array in front. *)
LEMMA SlotsLoadNext ==
    ASSUME Handshake, mpc = <<"load", "next">>, mpc' = <<"load", "wait">>, arrays'[front] = arrays[front],
           UNCHANGED <<mi, front, m_results, m_task, pc, task, lpos, m_stop_experiment>>
    PROVE  Stopping' /\ \A u \in W : Slot(u)' /\ Place(u)'
<1>1. mi = 0
  BY DEF Handshake, Types, Outside
<1>2. Stopping'
  BY DEF Handshake, Stopping, Deadlocked
<1>3. ASSUME NEW u \in W PROVE Slot(u)' /\ Place(u)'
  <2>1. Slot(u) /\ Place(u) /\ ~ (u < mi)
    BY <1>1, Workers DEF Handshake
  <2>2. Slot(u)'
    BY <2>1 DEF Slot, Free, Unset, IsIdle, Deadlocked
  <2>3. Place(u)'
    BY <2>1 DEF Place, IsIdle, Deadlocked
  <2>. QED
    BY <2>2, <2>3
<1>. QED
  BY <1>2, <1>3

(* The loader: the next block, in the other array. *)
LEMMA HandshakeLoadNext ==
    ASSUME Handshake, LoadNext
    PROVE  Handshake' /\ arrays'[front] = arrays[front]
<1>1. /\ mpc = <<"load", "next">> /\ mpc' = <<"load", "wait">> /\ LoadBlock(Back(front))
      /\ UNCHANGED <<mi, front, m_results, m_task, pc, task, lpos, m_stop_experiment>>
  BY DEF LoadNext, At, workersLocal, localVars, statusVars, syncVars
<1>2. Types /\ Arrays /\ num_edges > 0 /\ next_block > 1 /\ next_block \in Nat /\ arrays[front] = next_block - 1
  BY <1>1 DEF Handshake, Arrays, Types, Given
<1>3. Back(front) \in {1, 2} /\ Back(front) # front
  BY <1>2 DEF Types, Back
<1>4. NumBlocks \in Nat
  BY Blocks
<1>5. CASE next_block <= NumBlocks
  <2>1. arrays' = [arrays EXCEPT ![Back(front)] = next_block] /\ num_edges' = BlockSize(next_block) /\ next_block' = next_block + 1
    BY <1>1, <1>5 DEF LoadBlock
  <2>2. num_edges' \in Nat /\ num_edges' > 0
    BY <1>2, <1>5, <2>1, Blocks
  <2>3. arrays'[front] = arrays[front] /\ arrays'[Back(front)'] = next_block
    BY <1>1, <1>2, <1>3, <2>1 DEF Types, Back
  <2>4. Types'
    BY <1>1, <1>2, <1>3, <1>4, <1>5, <2>1, <2>2 DEF Types, Steps, Outside
  <2>5. Arrays'
    <3>1. Given' = Given /\ Given > 0
      BY <1>1, <1>2, <2>1, <2>2 DEF Given
    <3>. QED
      BY <1>1, <1>2, <2>1, <2>2, <2>3, <3>1 DEF Arrays, Given
  <2>. QED
    BY <1>1, <2>3, <2>4, <2>5, SlotsLoadNext DEF Handshake
<1>6. CASE ~ (next_block <= NumBlocks)
  <2>1. num_edges' = 0 /\ UNCHANGED <<arrays, next_block>>
    BY <1>1, <1>6 DEF LoadBlock
  <2>2. next_block = NumBlocks + 1
    BY <1>2, <1>4, <1>6 DEF Types
  <2>3. Types'
    BY <1>1, <1>2, <2>1 DEF Types, Steps, Outside
  <2>4. Arrays'
    BY <1>1, <1>2, <2>1, <2>2 DEF Arrays, Given
  <2>. QED
    BY <1>1, <2>1, <2>3, <2>4, SlotsLoadNext DEF Handshake
<1>. QED
  BY <1>5, <1>6

(* The two arrays are swapped. *)
LEMMA HandshakeSwap ==
    ASSUME Handshake, SwapArrays
    PROVE  Handshake'
<1>1. /\ mpc = <<"load", "swap">> /\ front' = Back(front)
      /\ mpc' = IF Mode = "execute" THEN LoopHead(num_edges) ELSE AfterLoad
      /\ UNCHANGED <<mi, num_edges, next_block, arrays, m_results, m_task, pc, task, lpos, m_stop_experiment>>
  BY DEF SwapArrays, At, workersLocal, localVars, statusVars, syncVars
<1>2. Types /\ Arrays /\ arrays[front] = Given /\ Given > 0
  BY <1>1 DEF Handshake, Arrays
<1>3. Back(front) \in {1, 2}
  BY <1>2 DEF Types, Back
<1>4. /\ mpc' \in {<<"load", "set">>, <<"latency", "prepare">>, <<"run", "start">>}
      /\ mpc' = <<"load", "set">> => num_edges > 0
  BY <1>1, ModeAssumption DEF LoopHead, AfterLoad
<1>5. Types'
  BY <1>1, <1>2, <1>3, <1>4 DEF Types, Steps, Outside
<1>6. Arrays'
  <2>1. CASE mpc' = <<"load", "set">>
    <3>1. num_edges > 0 /\ arrays'[front'] = next_block - 1 /\ next_block > 1 /\ next_block \in Nat
      BY <1>1, <1>2, <1>4, <2>1 DEF Arrays, Types
    <3>2. Given' = next_block - 1
      BY <1>1, <2>1 DEF Given
    <3>. QED
      BY <1>1, <1>2, <2>1, <3>1, <3>2 DEF Arrays
  <2>2. CASE mpc' # <<"load", "set">>
    <3>1. mpc'[1] \notin {"ctor", "load"} /\ mpc' \notin {<<"load", "wait">>, <<"load", "swap">>, <<"load", "first">>, <<"load", "notify">>, <<"load", "next">>}
      BY <1>4, <2>2
    <3>2. Given' = Given
      BY <1>1, <2>2, <3>1 DEF Given
    <3>. QED
      BY <1>1, <1>2, <2>2, <3>1, <3>2 DEF Arrays
  <2>. QED
    BY <2>1, <2>2
<1>7. Stopping'
  BY <1>1, <1>4 DEF Handshake, Stopping, Deadlocked
<1>8. ASSUME NEW u \in W PROVE Slot(u)' /\ Place(u)'
  <2>1. Slot(u) /\ Place(u) /\ mi = 0 /\ u >= 0
    BY <1>1, Workers DEF Handshake, Types, Outside
  <2>2. Slot(u)'
    BY <1>1, <1>4, <2>1 DEF Slot, Free, Unset, IsIdle, Deadlocked
  <2>3. Place(u)'
    BY <1>1, <1>4, <2>1 DEF Place, IsIdle, Deadlocked
  <2>. QED
    BY <2>2, <2>3
<1>. QED
  BY <1>5, <1>6, <1>7, <1>8 DEF Handshake

(* The steps of the master between two loops over the workers. *)
LEMMA HandshakeBetween ==
    ASSUME Handshake, UNCHANGED <<slotVars, blockVars, m_stop_experiment>>, m_results' = m_results \/ mpc[1] = "store",
           m_results' \in [timeout_hit : BOOLEAN, memfp_threshold_passed : BOOLEAN, thread_deadlocked : BOOLEAN], Deadlocked' = Deadlocked, mi' = mi,
           \/ mpc = <<"latency", "prepare">> /\ mpc' \in {<<"latency", "set">>, <<"error", "mismatch">>}
           \/ mpc = <<"run", "start">> /\ mpc' = <<"run", "set">>
           \/ mpc = <<"run", "running">> /\ mpc' = <<"run", "record">>
           \/ mpc = <<"run", "end">> /\ mpc' = <<"remove", "set">> /\ Mode = "execute"
           \/ mpc = <<"run", "end">> /\ mpc' = LoopHead(num_edges) /\ Mode # "execute"
           \/ mpc = <<"store", "results">> /\ mpc' = <<"dtor", "set">>
    PROVE  Handshake'
<1>1. UNCHANGED <<m_task, pc, task, lpos, front, num_edges, next_block, arrays, m_stop_experiment>>
  BY DEF slotVars, blockVars
<1>2. Types /\ mi = 0 /\ Arrays /\ Given > 0
  BY DEF Handshake, Types, Outside, Arrays
<1>3. /\ mpc' \in {<<"latency", "set">>, <<"error", "mismatch">>, <<"run", "set">>, <<"run", "record">>, <<"remove", "set">>, <<"dtor", "set">>, <<"load", "set">>}
      /\ mpc' = <<"load", "set">> => mpc = <<"run", "end">> /\ num_edges > 0
      /\ mpc' = <<"remove", "set">> => Mode = "execute"
  BY DEF LoopHead
<1>4. Types'
  BY <1>1, <1>2, <1>3 DEF Types, Steps, Outside
<1>5. Arrays'
  <2>1. CASE mpc' = <<"load", "set">>
    <3>1. num_edges > 0 /\ arrays'[front'] = next_block - 1 /\ next_block > 1 /\ next_block \in Nat
      BY <1>1, <1>2, <1>3, <2>1 DEF Arrays, Types
    <3>2. Given' = next_block - 1
      BY <1>1, <2>1 DEF Given
    <3>. QED
      BY <1>1, <1>2, <2>1, <3>1, <3>2 DEF Arrays
  <2>2. CASE mpc' # <<"load", "set">>
    <3>1. mpc'[1] \notin {"ctor", "load"} /\ mpc[1] \notin {"ctor", "load"}
      BY <1>3, <2>2
    <3>2. Given' = Given
      BY <1>1, <3>1 DEF Given
    <3>. QED
      BY <1>1, <1>2, <3>1, <3>2 DEF Arrays
  <2>. QED
    BY <2>1, <2>2
<1>6. Stopping'
  BY <1>1, <1>3 DEF Handshake, Stopping, Deadlocked
<1>7. ASSUME NEW u \in W PROVE Slot(u)' /\ Place(u)'
  <2>1. Slot(u) /\ Place(u) /\ mi = 0 /\ u \in Nat
    BY <1>2, Workers DEF Handshake
  <2>2. Slot(u)'
    <3>1. CASE mpc = <<"run", "running">>
      <4>1. mpc' = <<"run", "record">>
        BY <3>1
      <4>2. ~ Free(u)' /\ ~ (u < mi)
        BY <2>1, <4>1 DEF Free, Unset
      <4>. QED
        BY <1>1, <2>1, <3>1, <4>1, <4>2 DEF Slot, IsIdle
    <3>2. CASE mpc # <<"run", "running">>
      <4>1. Free(u) /\ mpc' # <<"run", "record">>
        BY <3>2 DEF Free, LoopHead
      <4>2. IsIdle(u) \/ (Deadlocked /\ m_task[u].type = "EXECUTE_UPDATES" /\ mpc[1] = "run")
        BY <2>1, <4>1, <3>2 DEF Slot, Unset
      <4>3. mpc' \in {<<"latency", "set">>, <<"run", "set">>, <<"remove", "set">>, <<"dtor", "set">>, <<"load", "set">>} => Unset(u)'
        BY <2>1 DEF Unset
      <4>4. CASE IsIdle(u)
        BY <1>1, <4>4 DEF Slot, IsIdle
      <4>5. CASE ~ IsIdle(u)
        <5>1. Deadlocked' /\ m_task'[u].type = "EXECUTE_UPDATES" /\ mpc[1] = "run"
          BY <1>1, <4>2, <4>5
        <5>2. mpc' \in {<<"run", "set">>, <<"remove", "set">>, <<"dtor", "set">>, <<"load", "set">>}
          BY <1>3, <4>1, <5>1 DEF LoopHead
        <5>. QED
          BY <4>3, <5>1, <5>2 DEF Slot, IsIdle
      <4>. QED
        BY <4>4, <4>5
    <3>. QED
      BY <3>1, <3>2
  <2>3. Place(u)'
    BY <1>1, <1>3, <2>1 DEF Place, IsIdle
  <2>. QED
    BY <2>2, <2>3
<1>. QED
  BY <1>4, <1>5, <1>6, <1>7 DEF Handshake

(* A tick of wait_and_record and a drain that expires. *)
LEMMA HandshakeExpired ==
    ASSUME Handshake, UNCHANGED <<slotVars, blockVars>>, mpc \in {<<"run", "record">>, <<"run", "drain">>}, mi' \in W, ~ IsIdle(mi),
           m_results' \in [timeout_hit : BOOLEAN, memfp_threshold_passed : BOOLEAN, thread_deadlocked : BOOLEAN],
           m_stop_experiment' \in BOOLEAN, m_stop_experiment => m_stop_experiment',
           \/ /\ mpc' \in {<<"run", "record">>, <<"run", "drain">>} /\ mi' = 0 /\ UNCHANGED m_results
              /\ mpc' = <<"run", "drain">> => m_stop_experiment'
           \/ /\ mpc' \in {<<"run", "drain">>, <<"run", "end">>} /\ Deadlocked' /\ m_stop_experiment'
              /\ mpc = <<"run", "drain">> /\ ForEachWorker(<<"run", "drain">>, <<"run", "end">>)
    PROVE  Handshake'
<1>1. UNCHANGED <<m_task, pc, task, lpos, front, num_edges, next_block, arrays>>
  BY DEF slotVars, blockVars
<1>2. Types /\ Arrays /\ Stopping /\ mi \in W
  BY DEF Handshake, Types
<1>3. mpc' \in {<<"run", "record">>, <<"run", "drain">>, <<"run", "end">>} /\ (mpc' = <<"run", "end">> => mi' = 0)
  BY <1>2, NextWorker
<1>4. Types'
  BY <1>1, <1>2, <1>3 DEF Types, Steps, Outside
<1>5. Arrays'
  BY <1>1, <1>2, <1>3 DEF Arrays, Given
<1>6. Stopping'
  BY <1>1, <1>2, <1>3 DEF Stopping, Deadlocked
<1>7. ASSUME NEW u \in W PROVE Slot(u)' /\ Place(u)'
  <2>1. Slot(u) /\ Place(u) /\ Slot(mi) /\ u \in Nat /\ mi \in Nat /\ (mpc' = <<"run", "end">> => u <= mi) /\ (u < mi' => mi' = 0 \/ u <= mi)
    BY <1>2, Workers, NextWorker DEF Handshake
  <2>2. Deadlocked => Deadlocked'
    BY DEF Deadlocked
  <2>3. IsIdle(u) \/ m_task[u].type = "EXECUTE_UPDATES"
    BY <1>2, <2>1 DEF Slot, IsIdle, Types, TaskOp
  <2>4. Slot(u)'
    BY <1>1, <1>3, <2>1, <2>2, <2>3 DEF Slot, Free, Unset, IsIdle
  <2>5. Place(u)'
    BY <1>1, <1>3, <2>1, <2>2 DEF Place, IsIdle
  <2>. QED
    BY <2>4, <2>5
<1>. QED
  BY <1>4, <1>5, <1>6, <1>7 DEF Handshake

(* The destructor has joined a worker. *)
LEMMA HandshakeJoin ==
    ASSUME Handshake, Join
    PROVE  Handshake'
<1>1. /\ mpc = <<"dtor", "join">> /\ pc[mi] = "exited" /\ ForEachWorker(<<"dtor", "set">>, <<"done", "done">>)
      /\ UNCHANGED <<m_task, pc, task, lpos, front, num_edges, next_block, arrays, m_stop_experiment, m_results>>
  BY DEF Join, At, workerVars, syncVars, localVars, loaderVars, statusVars
<1>2. Types /\ Arrays /\ mi \in W
  BY DEF Handshake, Types
<1>3. /\ mi' \in W
      /\ \/ mpc' = <<"dtor", "set">> /\ mi' = mi + 1
         \/ mpc' = <<"done", "done">> /\ mi' = 0 /\ \A u \in W : u <= mi
  BY <1>1, <1>2, NextWorker
<1>4. Types'
  BY <1>1, <1>2, <1>3 DEF Types, Steps, Outside
<1>5. Arrays' /\ Stopping'
  BY <1>1, <1>2, <1>3 DEF Handshake, Arrays, Stopping, Given, Deadlocked
<1>6. ASSUME NEW u \in W PROVE Slot(u)' /\ Place(u)'
  <2>1. /\ Slot(u) /\ Place(u) /\ u \in Nat /\ mi \in Nat
        /\ mi' = mi + 1 => (u >= mi' <=> u > mi) /\ (u < mi' <=> u <= mi) /\ (u > mi' => u > mi)
    BY <1>2, Workers DEF Handshake
  <2>2. u = mi => IsIdle(u)
    BY <1>1, <2>1 DEF Place
  <2>3. Slot(u)'
    BY <1>1, <1>3, <2>1, <2>2 DEF Slot, Free, Unset, IsIdle, Deadlocked
  <2>4. Place(u)'
    BY <1>1, <1>3, <2>1, <2>2 DEF Place, IsIdle, Deadlocked
  <2>. QED
    BY <2>3, <2>4
<1>. QED
  BY <1>4, <1>5, <1>6 DEF Handshake

(* Aging2Worker::stop wakes up the worker. *)
LEMMA HandshakeNotifyStop ==
    ASSUME Handshake, NotifyStop
    PROVE  Handshake'
<1>1. /\ mpc = <<"dtor", "notify">> /\ mpc' = <<"dtor", "join">>
      /\ UNCHANGED <<mi, m_task, pc, task, lpos, front, num_edges, next_block, arrays, m_stop_experiment, m_results>>
  BY DEF NotifyStop, At, workersLocal, localVars, loaderVars, statusVars
<1>2. Types' /\ Arrays' /\ Stopping'
  BY <1>1 DEF Handshake, Types, Steps, Outside, Arrays, Stopping, Given, Deadlocked
<1>3. ASSUME NEW u \in W PROVE Slot(u)' /\ Place(u)'
  <2>1. Slot(u) /\ Place(u) /\ u \in Nat /\ mi \in Nat
    BY <1>1, Workers DEF Handshake, Types
  <2>2. Slot(u)'
    BY <1>1, <2>1 DEF Slot, Free, Unset, IsIdle, Deadlocked
  <2>3. Place(u)'
    BY <1>1, <2>1 DEF Place, IsIdle, Deadlocked
  <2>. QED
    BY <2>2, <2>3
<1>. QED
  BY <1>2, <1>3 DEF Handshake

(* A step that changes none of the variables of the handshake. *)
LEMMA HandshakeStutters ==
    ASSUME Handshake, UNCHANGED <<mpc, mi, slotVars, blockVars, stopVars>>
    PROVE  Handshake'
<1>1. UNCHANGED <<mpc, mi, m_task, pc, task, lpos, front, num_edges, next_block, arrays, m_stop_experiment, m_results>>
  BY DEF slotVars, blockVars, stopVars
<1>2. Types' /\ Arrays' /\ Stopping'
  BY <1>1 DEF Handshake, Types, Arrays, Stopping, Given, Deadlocked
<1>3. ASSUME NEW u \in W PROVE Slot(u)' /\ Place(u)'
  BY <1>1 DEF Handshake, Slot, Place, Free, Unset, IsIdle, Deadlocked
<1>. QED
  BY <1>2, <1>3 DEF Handshake

(* The slots at the beginning. *)
LEMMA HandshakeInit == Init => Handshake
<1> SUFFICES ASSUME Init PROVE Handshake
  OBVIOUS
<1>1. Types
  <2>1. NumBlocks \in Nat /\ NumBlocks > 0 /\ 0 \in W
    BY Workers, Blocks
  <2>2. mpc \in Steps /\ mi = 0 /\ m_stop_experiment \in BOOLEAN
    BY DEF Init, WorkerInit, Steps
  <2>3. m_results \in [timeout_hit : BOOLEAN, memfp_threshold_passed : BOOLEAN, thread_deadlocked : BOOLEAN]
    BY DEF Init
  <2>4. front \in {1, 2} /\ arrays \in [{1, 2} -> 0 .. NumBlocks] /\ next_block \in 1 .. NumBlocks + 1 /\ num_edges \in Nat
    BY <2>1 DEF Init, WorkerInit
  <2>5. DOMAIN m_task = W /\ DOMAIN task = W /\ \A w \in W : m_task[w].type \in TaskOp
    BY DEF Init, WorkerInit, IdleTask, Task, TaskOp
  <2>6. pc \in [W -> Labels] /\ lpos \in [W -> Nat]
    BY DEF Init, WorkerInit, Labels
  <2>. QED
    BY <2>1, <2>2, <2>3, <2>4, <2>5, <2>6 DEF Types
<1>2. Arrays /\ Stopping
  BY DEF Init, WorkerInit, Arrays, Stopping, Given, Deadlocked
<1>3. ASSUME NEW u \in W PROVE Slot(u) /\ Place(u)
  <2>1. IsIdle(u) /\ pc[u] = "none" /\ mpc = <<"ctor", "spawn">> /\ mi = 0 /\ u >= 0
    BY Workers DEF Init, WorkerInit, IsIdle, IdleTask, Task
  <2>. QED
    BY <2>1, Workers DEF Slot, Place, IsIdle, Executing
<1>. QED
  BY <1>1, <1>2, <1>3 DEF Handshake

(* The steps of the master keep the handshake. *)
LEMMA HandshakeMaster ==
    ASSUME Handshake, MasterStep
    PROVE  Handshake'
<1>1. CASE Spawn
  BY <1>1, HandshakeSpawn
<1>2. ASSUME NEW phase, NEW more, NEW leave, WaitWorker(phase, more, leave),
             \/ phase = "ctor" /\ more = <<"ctor", "spawn">> /\ leave = <<"load", "first">>
             \/ phase = "load" /\ more = <<"load", "wait">> /\ leave = <<"load", "swap">>
             \/ phase = "latency" /\ more = <<"latency", "wait">> /\ leave = <<"run", "start">>
             \/ phase = "remove" /\ more = <<"remove", "wait">> /\ leave = <<"store", "results">>
      PROVE  Handshake'
  <2>1. mpc = <<phase, "wait">> /\ UNCHANGED <<slotVars, blockVars, stopVars>>
    BY <1>2 DEF WaitWorker, At, workersLocal, localVars, loaderVars, statusVars, slotVars, blockVars, stopVars
  <2>2. CASE IsIdle(mi)
    <3>1. ForEachWorker(more, leave)
      BY <1>2, <2>2 DEF WaitWorker
    <3>. QED
      BY <1>2, <2>1, <2>2, <3>1, HandshakeWaited
  <2>3. CASE ~ IsIdle(mi)
    BY <1>2, <2>1, <2>3, HandshakeStutters DEF WaitWorker
  <2>. QED
    BY <2>2, <2>3
<1>3. ASSUME NEW phase, NEW t, SetTask(phase, t),
             \/ phase = "load" /\ t = Task("LOAD_EDGES", front, num_edges)
             \/ phase = "latency" /\ t.type = "SET_ARRAY_LATENCIES"
             \/ phase = "run" /\ t.type = "EXECUTE_UPDATES"
             \/ phase = "remove" /\ t.type = "REMOVE_VERTICES"
      PROVE  Handshake'
  <2>1. mpc = <<phase, "set">> /\ UNCHANGED <<mi, pc, task, lpos, blockVars, stopVars>>
    BY <1>3 DEF SetTask, At, workersLocal, localVars, loaderVars, statusVars, blockVars, stopVars
  <2>2. CASE IsIdle(mi)
    <3>1. m_task' = [m_task EXCEPT ![mi] = t] /\ mpc' = <<phase, "notify">>
      BY <1>3, <2>2 DEF SetTask
    <3>. QED
      BY <1>3, <2>1, <2>2, <3>1, HandshakeFilled
  <2>3. CASE ~ IsIdle(mi)
    <3>1. UNCHANGED m_task /\ mpc' = <<"error", "busy">>
      BY <1>3, <2>3 DEF SetTask
    <3>. QED
      BY <2>1, <2>3, <3>1, HandshakeBusy DEF slotVars
  <2>. QED
    BY <2>2, <2>3
<1>4. ASSUME NEW phase, NEW leave, NotifyWorker(phase, leave),
             \/ phase = "load" /\ leave = <<"load", "next">>
             \/ phase = "latency" /\ leave = <<"latency", "wait">>
             \/ phase = "run" /\ leave = <<"run", "running">>
             \/ phase = "remove" /\ leave = <<"remove", "wait">>
      PROVE  Handshake'
  <2>1. /\ mpc = <<phase, "notify">> /\ UNCHANGED <<slotVars, blockVars, stopVars>>
        /\ ForEachWorker(<<phase, "set">>, leave)
    BY <1>4 DEF NotifyWorker, At, workersLocal, localVars, loaderVars, statusVars, slotVars, blockVars, stopVars
  <2>. QED
    BY <1>4, <2>1, HandshakeNotified
<1>5. CASE LoadFirst
  BY <1>5, HandshakeLoadFirst
<1>6. CASE LoadNext
  BY <1>6, HandshakeLoadNext
<1>7. CASE SwapArrays
  BY <1>7, HandshakeSwap
<1>8. CASE PrepareLatencies \/ StartRun \/ SetRunning \/ EndRun \/ StoreResults
  <2>1. UNCHANGED <<slotVars, blockVars, m_stop_experiment, mi>> /\ (m_results' = m_results \/ mpc[1] = "store")
    BY <1>8 DEF PrepareLatencies, StartRun, SetRunning, EndRun, StoreResults, At, slotVars, blockVars, workerVars, syncVars,
                workersLocal, localVars, loaderVars, statusVars
  <2>2. /\ m_results' \in [timeout_hit : BOOLEAN, memfp_threshold_passed : BOOLEAN, thread_deadlocked : BOOLEAN]
        /\ Deadlocked' = Deadlocked
    <3>1. m_results \in [timeout_hit : BOOLEAN, memfp_threshold_passed : BOOLEAN, thread_deadlocked : BOOLEAN]
      BY DEF Handshake, Types
    <3>2. CASE StoreResults
      BY <3>1, <3>2 DEF StoreResults, Deadlocked
    <3>3. CASE PrepareLatencies \/ StartRun \/ SetRunning \/ EndRun
      BY <3>1, <3>3 DEF PrepareLatencies, StartRun, SetRunning, EndRun, Deadlocked, statusVars
    <3>. QED
      BY <1>8, <3>2, <3>3
  <2>3. \/ mpc = <<"latency", "prepare">> /\ mpc' \in {<<"latency", "set">>, <<"error", "mismatch">>}
        \/ mpc = <<"run", "start">> /\ mpc' = <<"run", "set">>
        \/ mpc = <<"run", "running">> /\ mpc' = <<"run", "record">>
        \/ mpc = <<"run", "end">> /\ mpc' = <<"remove", "set">> /\ Mode = "execute"
        \/ mpc = <<"run", "end">> /\ mpc' = LoopHead(num_edges) /\ Mode # "execute"
        \/ mpc = <<"store", "results">> /\ mpc' = <<"dtor", "set">>
    BY <1>8 DEF PrepareLatencies, StartRun, SetRunning, EndRun, StoreResults, At
  <2>. QED
    BY <2>1, <2>2, <2>3, HandshakeBetween
<1>9. CASE RecordIdle \/ DrainIdle
  <2>1. IsIdle(mi) /\ UNCHANGED <<slotVars, blockVars, stopVars>>
    BY <1>9 DEF RecordIdle, DrainIdle, workerVars, syncVars, localVars, loaderVars, statusVars, slotVars, blockVars, stopVars
  <2>2. CASE RecordIdle
    <3>1. mpc = <<"run", "record">> /\ ForEachWorker(mpc, IF m_stop_experiment THEN <<"run", "drain">> ELSE <<"run", "end">>)
      BY <2>2 DEF RecordIdle, At
    <3>2. CASE m_stop_experiment
      BY <2>1, <3>1, <3>2, HandshakeWaited
    <3>3. CASE ~ m_stop_experiment
      BY <2>1, <3>1, <3>3, HandshakeWaited
    <3>. QED
      BY <3>2, <3>3
  <2>3. CASE DrainIdle
    BY <2>1, <2>3, HandshakeWaited DEF DrainIdle, At
  <2>. QED
    BY <1>9, <2>2, <2>3
<1>10. CASE RecordTick
  <2>1. /\ mpc = <<"run", "record">> /\ ~ IsIdle(mi) /\ mi' = 0 /\ UNCHANGED <<slotVars, blockVars, m_results>>
        /\ \E hit \in SUBSET StopReasons : m_stop_experiment' = (m_stop_experiment \/ hit # {})
        /\ mpc' = IF m_stop_experiment' THEN <<"run", "drain">> ELSE <<"run", "record">>
    BY <1>10 DEF RecordTick, At, workersLocal, localVars, loaderVars, syncVars, slotVars, blockVars
  <2>2. m_results \in [timeout_hit : BOOLEAN, memfp_threshold_passed : BOOLEAN, thread_deadlocked : BOOLEAN]
    BY DEF Handshake, Types
  <2>. QED
    BY <2>1, <2>2, Workers, HandshakeExpired
<1>11. CASE DrainExpired
  <2>1. /\ mpc = <<"run", "drain">> /\ ~ IsIdle(mi) /\ UNCHANGED <<slotVars, blockVars, m_stop_experiment>>
        /\ m_results' = [m_results EXCEPT !.thread_deadlocked = TRUE]
        /\ ForEachWorker(<<"run", "drain">>, <<"run", "end">>)
    BY <1>11 DEF DrainExpired, At, workerVars, syncVars, localVars, loaderVars, slotVars, blockVars
  <2>2. m_results \in [timeout_hit : BOOLEAN, memfp_threshold_passed : BOOLEAN, thread_deadlocked : BOOLEAN] /\ m_stop_experiment /\ mi \in W
    BY <2>1 DEF Handshake, Types, Stopping
  <2>3. m_results' \in [timeout_hit : BOOLEAN, memfp_threshold_passed : BOOLEAN, thread_deadlocked : BOOLEAN] /\ Deadlocked'
    BY <2>1, <2>2 DEF Deadlocked
  <2>4. mi' \in W /\ mpc' \in {<<"run", "drain">>, <<"run", "end">>}
    BY <2>1, <2>2, NextWorker
  <2>. QED
    BY <2>1, <2>2, <2>3, <2>4, HandshakeExpired
<1>12. CASE SetStop
  <2>1. mpc = <<"dtor", "set">> /\ UNCHANGED <<mi, pc, task, lpos, blockVars, stopVars>>
    BY <1>12 DEF SetStop, At, workersLocal, localVars, loaderVars, statusVars, blockVars, stopVars
  <2>2. CASE IsIdle(mi) \/ ~ Asserts
    <3>1. m_task' = [m_task EXCEPT ![mi] = Task("STOP", 0, 0)] /\ mpc' = <<"dtor", "notify">> /\ Task("STOP", 0, 0).type = "STOP"
      BY <1>12, <2>2 DEF SetStop, Task
    <3>. QED
      BY <2>1, <3>1, HandshakeFilled
  <2>3. CASE ~ (IsIdle(mi) \/ ~ Asserts)
    <3>1. UNCHANGED m_task /\ mpc' = <<"error", "assert">>
      BY <1>12, <2>3 DEF SetStop
    <3>. QED
      BY <2>1, <2>3, <3>1, HandshakeBusy DEF slotVars
  <2>. QED
    BY <2>2, <2>3
<1>13. CASE NotifyStop
  BY <1>13, HandshakeNotifyStop
<1>14. CASE Join
  BY <1>14, HandshakeJoin
<1>15. CASE SetTask("latency", Task("SET_ARRAY_LATENCIES", SliceInsertions(mi), SliceDeletions(mi)))
  <2>1. Task("SET_ARRAY_LATENCIES", SliceInsertions(mi), SliceDeletions(mi)).type = "SET_ARRAY_LATENCIES"
    BY DEF Task
  <2>. QED
    BY <1>3, <1>15, <2>1
<1>16. CASE SetTask("run", Task("EXECUTE_UPDATES", 0, 0)) \/ SetTask("remove", Task("REMOVE_VERTICES", 0, Len(TempVertices)))
  <2>1. Task("EXECUTE_UPDATES", 0, 0).type = "EXECUTE_UPDATES" /\ Task("REMOVE_VERTICES", 0, Len(TempVertices)).type = "REMOVE_VERTICES"
    BY DEF Task
  <2>. QED
    BY <1>3, <1>16, <2>1
<1>17. CASE SetTask("load", Task("LOAD_EDGES", front, num_edges))
  BY <1>3, <1>17
<1>. QED
  BY <1>1, <1>2, <1>4, <1>5, <1>6, <1>7, <1>8, <1>9, <1>10, <1>11, <1>12, <1>13, <1>14, <1>15, <1>16, <1>17 DEF MasterStep

(* Every step keeps the handshake. *)
LEMMA HandshakeNext ==
    ASSUME Handshake, [Next]_vars
    PROVE  Handshake'
<1>1. CASE MasterStep
  BY <1>1, HandshakeMaster
<1>2. CASE MasterSpuriousWakeup
  BY <1>2, HandshakeStutters DEF MasterSpuriousWakeup, workersLocal, localVars, masterVars, loaderVars, statusVars, slotVars, blockVars, stopVars
<1>3. ASSUME NEW w \in W, WorkerStep(w) \/ SpuriousWakeup(w), UNCHANGED masterVars PROVE Handshake'
  BY <1>3, HandshakeWorker
<1>4. CASE UNCHANGED vars
  BY <1>4, HandshakeStutters DEF vars, workerVars, syncVars, localVars, masterVars, loaderVars, statusVars, slotVars, blockVars, stopVars
<1>. QED
  BY <1>1, <1>2, <1>3, <1>4 DEF Next, Finished

-----------------------------------------------------------------------------
(* The theorems about the handshake *)

(* No task is handed to a worker that is busy, STOP included, unless a     *)
(* stopped worker outlived the five minutes of wait_and_record: for any    *)
(* number of workers and any log, in both modes, with and without          *)
(* assertions (Aging2Worker::set_task_async and stop).                     *)
THEOREM BusyOnlyAfterExpiredDrainHolds == Spec => []BusyOnlyAfterExpiredDrain
<1>1. Init => Handshake
  BY HandshakeInit
<1>2. Handshake /\ [Next]_vars => Handshake'
  BY HandshakeNext
<1>3. Handshake => BusyOnlyAfterExpiredDrain
  BY DEF Handshake, Stopping, Deadlocked, BusyOnlyAfterExpiredDrain
<1>. QED
  BY <1>1, <1>2, <1>3, PTL DEF Spec

(* The array that the workers partition is not overwritten: the loader     *)
(* decompresses the next block into the other one, for any number of       *)
(* workers and of blocks (load_edges, execute_synchronized_small_batch).   *)
THEOREM BlockStableWhileLoadingHolds == Spec => BlockStableWhileLoading
<1>1. Init => Handshake
  BY HandshakeInit
<1>2. Handshake /\ [Next]_vars => Handshake'
  BY HandshakeNext
<1>3. ASSUME Handshake, [Next]_vars, NEW w \in W, m_task[w].type = "LOAD_EDGES"
      PROVE  arrays'[m_task[w].payload] = arrays[m_task[w].payload]
  <2>1. Slot(w) /\ Place(w) /\ m_task[w].payload = front
    BY <1>3 DEF Handshake, Slot, Task
  <2>2. CASE LoadNext
    BY <1>3, <2>1, <2>2, HandshakeLoadNext
  <2>3. CASE LoadFirst
    <3>1. mpc = <<"load", "first">>
      BY <2>3 DEF LoadFirst, At
    <3>. QED
      BY <1>3, <2>1, <3>1 DEF Slot, Free, IsIdle
  <2>4. ASSUME NEW u \in W, WorkerStep(u) \/ SpuriousWakeup(u) PROVE UNCHANGED arrays
    BY <2>4 DEF WorkerStep, SpuriousWakeup, FetchTask, WakeUp, LoadEdges, LoopDone, NextChunk, CheckStop, CallLibrary,
                CountChunk, ReportTime, StoreTime, RemoveVertex, Exit
  <2>5. CASE MasterStep /\ ~ LoadNext /\ ~ LoadFirst
    BY <2>5 DEF MasterStep, Spawn, WaitWorker, SetTask, NotifyWorker, SwapArrays, PrepareLatencies, StartRun, SetRunning,
                RecordIdle, RecordTick, DrainIdle, DrainExpired, EndRun, StoreResults, SetStop, NotifyStop, Join, workerVars
  <2>. QED
    BY <1>3, <2>2, <2>3, <2>4, <2>5 DEF Next, MasterSpuriousWakeup, Finished, vars, workerVars
<1>4. Handshake /\ [Next]_vars =>
        [\A w \in W : m_task[w].type = "LOAD_EDGES" => arrays'[m_task[w].payload] = arrays[m_task[w].payload]]_vars
  BY <1>3
<1>. QED
  BY <1>1, <1>2, <1>4, PTL DEF Spec, BlockStableWhileLoading

-----------------------------------------------------------------------------
(* The updates that a worker has been through *)

(* The worker goes through its block from the first update to the last. *)
LEMMA LoadedWorker ==
    ASSUME Handshake, NEW w \in W, WorkerStep(w) \/ SpuriousWakeup(w), UNCHANGED masterVars, NEW u \in W
    PROVE  /\ u # w \/ ~ LoadEdges(w) => Loaded(u)' = Loaded(u)
           /\ LoadEdges(w) /\ ~ m_stop_experiment =>
                Loaded(w)' = Loaded(w) + 1 /\ Loaded(w) \in Nat /\ BlockFirst(arrays[task[w].payload]) + lpos[w] = Loaded(w) + 1
<1>1. Types /\ Slot(w) /\ Place(w) /\ Arrays /\ Handshake'
  BY HandshakeWorker DEF Handshake
<1>2. UNCHANGED <<mpc, mi, front, num_edges, next_block>>
  BY DEF masterVars, loaderVars
<1>3. Given' = Given /\ Unset(u)' = Unset(u) /\ Unset(w)' = Unset(w)
  BY <1>2 DEF Given, Unset
<1>4. ASSUME u # w PROVE Loaded(u)' = Loaded(u)
  <2>1. m_task'[u] = m_task[u] /\ pc'[u] = pc[u] /\ lpos'[u] = lpos[u]
    BY <1>1, <1>4 DEF Types, WorkerStep, SpuriousWakeup, FetchTask, WakeUp, LoadEdges, LoopDone, NextChunk, CheckStop, CallLibrary,
                CountChunk, ReportTime, StoreTime, RemoveVertex, Exit, syncVars, localVars
  <2>. QED
    BY <1>2, <1>3, <2>1 DEF Loaded, End
<1>5. ASSUME ~ LoadEdges(w) PROVE Loaded(w)' = Loaded(w)
  <2>1. CASE FetchTask(w)
    <3>1. pc[w] = "fetch" /\ pc'[w] = "waiting" /\ m_task'[w].type = "IDLE"
      BY <1>1, <2>1 DEF FetchTask, Types, IdleTask, Task
    <3>. QED
      BY <1>2, <1>3, <3>1 DEF Loaded, End
  <2>2. CASE Exit(w)
    <3>1. pc[w] = "exiting" /\ pc'[w] = "exited" /\ m_task'[w].type = "IDLE"
      BY <1>1, <2>2 DEF Exit, Types, IdleTask, Task
    <3>. QED
      BY <1>2, <1>3, <3>1 DEF Loaded, End
  <2>3. CASE WakeUp(w)
    <3>1. UNCHANGED m_task /\ pc[w] = "waiting"
      BY <2>3 DEF WakeUp
    <3>2. CASE IsIdle(w)
      BY <1>2, <1>3, <2>3, <3>1, <3>2 DEF WakeUp, IsIdle, Loaded, End, localVars
    <3>3. CASE ~ IsIdle(w)
      <4>1. m_task[w].type # "START" /\ m_task[w].type \in TaskOp /\ m_task[w].type # "IDLE"
        BY <1>1, <3>1, <3>3 DEF Slot, Types, IsIdle
      <4>2. /\ lpos'[w] = 0 /\ pc'[w] \in {"load", "buffer", "remove", "fetch", "exiting"}
            /\ m_task[w].type = "LOAD_EDGES" <=> pc'[w] = "load"
        BY <1>1, <2>3, <4>1 DEF WakeUp, Types, TaskOp
      <4>3. Unset(w) => m_task[w].type = "EXECUTE_UPDATES"
        BY <1>1, <3>3 DEF Slot, Free
      <4>. QED
        BY <1>2, <1>3, <3>1, <4>2, <4>3 DEF Loaded, End
    <3>. QED
      BY <3>2, <3>3
  <2>4. CASE LoopDone(w)
    <3>1. UNCHANGED <<m_task, lpos>> /\ pc'[w] = "fetch" /\ lpos[w] = task[w].sz /\ pc[w] \in {"load", "remove"}
      BY <1>1, <2>4 DEF LoopDone, syncVars, localVars, Types
    <3>2. CASE pc[w] = "load" /\ mpc[1] = "load"
      <4>1. m_task[w] = Task("LOAD_EDGES", front, BlockSize(arrays[front])) /\ task[w] = m_task[w] /\ ~ Free(w) /\ arrays[front] # 0
        BY <1>1, <3>2 DEF Place, Slot
      <4>2. ~ Unset(w) /\ lpos[w] = BlockSize(arrays[front]) /\ m_task[w].type = "LOAD_EDGES" /\ mpc[2] # "first"
        BY <3>1, <4>1 DEF Free, Task
      <4>3. arrays[front] = Given /\ Given \in 1 .. NumBlocks
        BY <1>1, <3>2, <4>1, <4>2, FrontSize DEF Arrays
      <4>4. BlockSize(Given) = End(Given) - End(Given - 1) /\ End(Given - 1) \in Nat /\ Given \in 0 .. NumBlocks /\ End(Given) \in Nat
        BY <4>3, Blocks
      <4>5. Loaded(w) = End(Given - 1) + BlockSize(Given)
        BY <3>2, <4>2, <4>3 DEF Loaded
      <4>6. Loaded(w)' = End(Given')
        BY <1>2, <1>3, <3>1, <4>2 DEF Loaded, End
      <4>. QED
        BY <1>3, <4>4, <4>5, <4>6
    <3>3. CASE mpc[1] # "load"
      BY <1>2, <1>3, <3>3 DEF Loaded, End
    <3>4. CASE pc[w] = "remove"
      BY <1>1, <1>2, <1>3, <3>1, <3>4 DEF Loaded, End, Place
    <3>. QED
      BY <3>1, <3>2, <3>3, <3>4
  <2>5. CASE NextChunk(w) \/ CheckStop(w) \/ CallLibrary(w) \/ CountChunk(w) \/ ReportTime(w) \/ StoreTime(w)
    <3>1. UNCHANGED m_task /\ pc[w] \notin {"waiting", "load"} /\ pc'[w] \notin {"waiting", "load"}
      BY <1>1, <2>5 DEF NextChunk, CheckStop, CallLibrary, CountChunk, ReportTime, StoreTime, syncVars, Types
    <3>. QED
      BY <1>2, <1>3, <3>1 DEF Loaded, End
  <2>6. CASE RemoveVertex(w)
    <3>1. UNCHANGED <<m_task, pc>> /\ pc[w] = "remove"
      BY <2>6 DEF RemoveVertex, syncVars
    <3>. QED
      BY <1>2, <1>3, <3>1 DEF Loaded, End
  <2>7. CASE SpuriousWakeup(w)
    BY <1>2, <1>3, <2>7 DEF SpuriousWakeup, Loaded, End, localVars
  <2>. QED
    BY <1>5, <2>1, <2>2, <2>3, <2>4, <2>5, <2>6, <2>7 DEF WorkerStep
<1>6. ASSUME LoadEdges(w), ~ m_stop_experiment
      PROVE  Loaded(w)' = Loaded(w) + 1 /\ Loaded(w) \in Nat /\ BlockFirst(arrays[task[w].payload]) + lpos[w] = Loaded(w) + 1
  <2>1. UNCHANGED <<m_task, pc>> /\ lpos'[w] = lpos[w] + 1 /\ pc[w] = "load" /\ lpos[w] \in Nat
    BY <1>1, <1>6 DEF LoadEdges, syncVars, Types
  <2>2. m_task[w] = Task("LOAD_EDGES", front, BlockSize(arrays[front])) /\ task[w] = m_task[w] /\ ~ Free(w) /\ arrays[front] # 0
    BY <1>1, <2>1 DEF Place, Slot
  <2>3. mpc[1] = "load"
    BY <1>1, <1>6, <2>1 DEF Place, Slot, Stopping, Handshake
  <2>4. ~ Unset(w) /\ m_task[w].type = "LOAD_EDGES" /\ mpc[2] # "first" /\ task[w].payload = front
    BY <2>2 DEF Free, Task
  <2>5. arrays[front] = Given /\ Given \in 1 .. NumBlocks
    BY <1>1, <2>2, <2>3, <2>4, FrontSize DEF Arrays
  <2>6. BlockFirst(Given) = End(Given - 1) + 1 /\ End(Given - 1) \in Nat
    BY <2>5, Blocks
  <2>7. Loaded(w) = End(Given - 1) + lpos[w]
    BY <2>1, <2>3, <2>4 DEF Loaded
  <2>8. Loaded(w)' = End(Given - 1) + lpos'[w]
    BY <1>2, <1>3, <2>1, <2>3, <2>4 DEF Loaded, End
  <2>. QED
    BY <2>1, <2>4, <2>5, <2>6, <2>7, <2>8
<1>. QED
  BY <1>4, <1>5, <1>6

(* The steps of the master, but for those of the loader, with what they    *)
(* leave alone.                                                            *)
LEMMA MasterLeaves ==
    ASSUME MasterStep
    PROVE  /\ UNCHANGED <<m_updates, applied, ex, edges, task, lpos>>
           /\ m_stop_experiment => m_stop_experiment'
           /\ UNCHANGED pc \/ (mpc = <<"ctor", "spawn">> /\ pc' = [pc EXCEPT ![mi] = "fetch"])
           /\ \/ UNCHANGED <<front, num_edges, next_block>>
              \/ LoadFirst \/ LoadNext \/ SwapArrays
<1>1. UNCHANGED <<m_updates, applied, ex, edges, task, lpos>>
  BY DEF MasterStep, Spawn, WaitWorker, LoadFirst, LoadNext, SetTask, NotifyWorker, SwapArrays, PrepareLatencies, StartRun, SetRunning,
         RecordIdle, RecordTick, DrainIdle, DrainExpired, EndRun, StoreResults, SetStop, NotifyStop, Join, workerVars, workersLocal, localVars, libraryVars
<1>2. m_stop_experiment => m_stop_experiment'
  BY DEF MasterStep, Spawn, WaitWorker, LoadFirst, LoadNext, SetTask, NotifyWorker, SwapArrays, PrepareLatencies, StartRun, SetRunning,
         RecordIdle, RecordTick, DrainIdle, DrainExpired, EndRun, StoreResults, SetStop, NotifyStop, Join, workerVars
<1>3. UNCHANGED pc \/ (mpc = <<"ctor", "spawn">> /\ pc' = [pc EXCEPT ![mi] = "fetch"])
  BY DEF MasterStep, Spawn, WaitWorker, LoadFirst, LoadNext, SetTask, NotifyWorker, SwapArrays, PrepareLatencies, StartRun, SetRunning,
         RecordIdle, RecordTick, DrainIdle, DrainExpired, EndRun, StoreResults, SetStop, NotifyStop, Join, workerVars, At
<1>4. \/ UNCHANGED <<front, num_edges, next_block>>
      \/ LoadFirst \/ LoadNext \/ SwapArrays
  BY DEF MasterStep, Spawn, WaitWorker, SetTask, NotifyWorker, PrepareLatencies, StartRun, SetRunning,
         RecordIdle, RecordTick, DrainIdle, DrainExpired, EndRun, StoreResults, SetStop, NotifyStop, Join, loaderVars
<1>. QED
  BY <1>1, <1>2, <1>3, <1>4

(* How the phases follow each other. *)
LEMMA Phases ==
    ASSUME MasterStep, Types
    PROVE  \/ mpc[1] # "load" /\ mpc'[1] # "load"
           \/ mpc = <<"ctor", "wait">> /\ mpc' = <<"load", "first">> /\ mi' = 0 /\ UNCHANGED m_task
           \/ LoadFirst \/ SetTask("load", Task("LOAD_EDGES", front, num_edges)) \/ NotifyWorker("load", <<"load", "next">>)
           \/ LoadNext \/ WaitWorker("load", <<"load", "wait">>, <<"load", "swap">>) \/ SwapArrays
           \/ EndRun /\ mpc' = <<"load", "set">> /\ num_edges > 0
<1>1. CASE WaitWorker("ctor", <<"ctor", "spawn">>, <<"load", "first">>)
  <2>1. mpc = <<"ctor", "wait">> /\ UNCHANGED m_task /\ mi \in W
    BY <1>1 DEF WaitWorker, At, Types
  <2>2. mpc' \in {<<"ctor", "spawn">>, <<"ctor", "wait">>} \/ (mpc' = <<"load", "first">> /\ mi' = 0)
    BY <1>1, <2>1, NextWorker DEF WaitWorker
  <2>. QED
    BY <2>1, <2>2
<1>2. CASE Spawn \/ PrepareLatencies \/ StartRun \/ SetRunning \/ RecordTick \/ StoreResults \/ SetStop \/ NotifyStop
  BY <1>2 DEF Spawn, PrepareLatencies, StartRun, SetRunning, RecordTick, StoreResults, SetStop, NotifyStop, At
<1>3. CASE RecordIdle \/ DrainIdle \/ DrainExpired \/ Join
  BY <1>3 DEF RecordIdle, DrainIdle, DrainExpired, Join, At, ForEachWorker
<1>4. CASE EndRun
  BY <1>4 DEF EndRun, LoopHead, AfterLoad, At
<1>5. CASE \E t : SetTask("latency", t) \/ SetTask("run", t) \/ SetTask("remove", t)
  BY <1>5 DEF SetTask, At
<1>6. CASE \/ NotifyWorker("latency", <<"latency", "wait">>) \/ NotifyWorker("run", <<"run", "running">>)
           \/ NotifyWorker("remove", <<"remove", "wait">>)
  BY <1>6 DEF NotifyWorker, At, ForEachWorker
<1>7. CASE \/ WaitWorker("latency", <<"latency", "wait">>, <<"run", "start">>)
           \/ WaitWorker("remove", <<"remove", "wait">>, <<"store", "results">>)
  BY <1>7 DEF WaitWorker, At, ForEachWorker
<1>. QED
  BY <1>1, <1>2, <1>3, <1>4, <1>5, <1>6, <1>7 DEF MasterStep

(* The master moves on only when the workers are done with a block. *)
LEMMA LoadedMaster ==
    ASSUME Handshake, MasterStep, NEW u \in W, Runs(u)'
    PROVE  Loaded(u)' = Loaded(u)
<1>1. Types /\ Slot(u) /\ Place(u) /\ Arrays /\ Stopping /\ mi \in W
  BY DEF Handshake, Types
<1>2. Types' /\ Slot(u)' /\ Place(u)' /\ Arrays' /\ Stopping'
  BY HandshakeMaster DEF Handshake
<1>3. UNCHANGED lpos /\ (UNCHANGED pc \/ mpc = <<"ctor", "spawn">>)
  BY MasterLeaves
<1>4. u \in Nat /\ mi \in Nat /\ mi' \in Nat
  BY <1>1, <1>2, Workers DEF Types
<1>5. CASE mpc[1] # "load" /\ mpc'[1] # "load"
  <2>1. UNCHANGED <<num_edges, next_block>>
    BY <1>5, MasterLeaves DEF LoadFirst, LoadNext, SwapArrays, At
  <2>2. Given' = Given
    BY <1>5, <2>1 DEF Given
  <2>. QED
    BY <1>5, <2>2 DEF Loaded, End
<1>6. CASE mpc = <<"ctor", "wait">> /\ mpc' = <<"load", "first">> /\ mi' = 0 /\ UNCHANGED m_task
  <2>1. UNCHANGED <<num_edges, next_block>>
    BY <1>6, MasterLeaves DEF LoadFirst, LoadNext, SwapArrays, At
  <2>2. Given' = Given
    BY <1>6, <2>1 DEF Given
  <2>3. ~ Unset(u)' /\ m_task'[u].type # "LOAD_EDGES"
    BY <1>2, <1>6 DEF Unset, Slot, Free
  <2>. QED
    BY <1>6, <2>2, <2>3 DEF Loaded, End
<1>7. CASE LoadFirst
  <2>1. mpc = <<"load", "first">> /\ mpc' = LoopHead(num_edges') /\ LoadBlock(front) /\ UNCHANGED <<m_task, pc>>
    BY <1>7 DEF LoadFirst, At, syncVars
  <2>2. next_block = 1 /\ num_edges = 0 /\ mi = 0 /\ mi' = 0
    BY <1>1, <1>7, <2>1 DEF Arrays, Types, Outside, LoadFirst
  <2>3. next_block' = 2 /\ num_edges' > 0
    BY <2>1, <2>2, Blocks DEF LoadBlock
  <2>4. mpc' = <<"load", "set">>
    BY <2>1, <2>3 DEF LoopHead
  <2>5. Given = 0 /\ Given' = 1
    BY <2>1, <2>2, <2>3, <2>4 DEF Given
  <2>6. ~ Unset(u) /\ Unset(u)' /\ m_task[u].type # "LOAD_EDGES" /\ pc[u] # "load"
    BY <1>1, <1>4, <2>1, <2>2, <2>4 DEF Unset, Slot, Free, Place
  <2>7. Loaded(u) = End(0) /\ Loaded(u)' = End(0) + 0 /\ End(0) = 0
    BY <2>1, <2>4, <2>5, <2>6 DEF Loaded, End
  <2>. QED
    BY <2>7
<1>8. CASE SetTask("load", Task("LOAD_EDGES", front, num_edges))
  <2>1. mpc = <<"load", "set">> /\ UNCHANGED <<mi, num_edges, next_block, pc>> /\ num_edges > 0
    BY <1>1, <1>8 DEF SetTask, At, loaderVars, Arrays
  <2>2. CASE IsIdle(mi)
    <3>1. m_task' = [m_task EXCEPT ![mi] = Task("LOAD_EDGES", front, num_edges)] /\ mpc' = <<"load", "notify">>
      BY <1>8, <2>2 DEF SetTask
    <3>2. Given' = Given
      BY <2>1, <3>1 DEF Given
    <3>3. CASE u = mi
      <4>1. Unset(u) /\ ~ Unset(u)' /\ m_task'[u].type = "LOAD_EDGES" /\ pc[u] \in {"none", "waiting", "exited"}
        BY <1>1, <1>4, <2>1, <2>2, <3>1, <3>3 DEF Unset, Types, Task, Place
      <4>2. pc[u] = "waiting"
        BY <1>1, <2>1, <4>1 DEF Place
      <4>. QED
        BY <2>1, <3>1, <3>2, <4>1, <4>2 DEF Loaded, End
    <3>4. CASE u # mi
      <4>1. m_task'[u] = m_task[u] /\ Unset(u)' = Unset(u)
        BY <1>1, <1>4, <2>1, <3>1, <3>4 DEF Unset, Types
      <4>. QED
        BY <1>3, <2>1, <3>1, <3>2, <4>1 DEF Loaded, End
    <3>. QED
      BY <3>3, <3>4
  <2>3. CASE ~ IsIdle(mi)
    <3>1. UNCHANGED m_task /\ mpc' = <<"error", "busy">>
      BY <1>8, <2>3 DEF SetTask
    <3>2. pc[u] = "call"
      BY <1>2, <2>1, <3>1 DEF Runs, Stopping
    <3>3. Unset(u)
      BY <1>1, <2>1, <3>2 DEF Place, Slot, Executing
    <3>4. Given' = Given - 1
      BY <1>1, <2>1, <3>1 DEF Given, Types
    <3>5. Loaded(u) = End(Given - 1) + 0
      BY <2>1, <3>2, <3>3 DEF Loaded
    <3>6. Loaded(u)' = End(Given - 1)
      BY <3>1, <3>4 DEF Loaded, End
    <3>7. End(Given - 1) \in Nat
      <4>1. Given \in 1 .. NumBlocks
        BY <1>1, <2>1, Blocks DEF Given, Types, Arrays
      <4>. QED
        BY <4>1, Blocks
    <3>. QED
      BY <3>5, <3>6, <3>7
  <2>. QED
    BY <2>2, <2>3
<1>9. CASE NotifyWorker("load", <<"load", "next">>)
  <2>1. mpc = <<"load", "notify">> /\ UNCHANGED <<m_task, pc, num_edges, next_block>> /\ ForEachWorker(<<"load", "set">>, <<"load", "next">>)
    BY <1>9 DEF NotifyWorker, At, loaderVars
  <2>2. \/ mpc' = <<"load", "set">> /\ mi' = mi + 1
        \/ mpc' = <<"load", "next">> /\ mi' = 0 /\ \A v \in W : v <= mi
    BY <1>1, <2>1, NextWorker
  <2>3. Unset(u)' = Unset(u)
    BY <1>4, <2>1, <2>2 DEF Unset
  <2>4. Given' = Given
    BY <2>1, <2>2 DEF Given
  <2>. QED
    BY <1>3, <2>1, <2>2, <2>3, <2>4 DEF Loaded, End
<1>10. CASE LoadNext
  <2>1. mpc = <<"load", "next">> /\ mpc' = <<"load", "wait">> /\ LoadBlock(Back(front)) /\ UNCHANGED <<m_task, pc>>
    BY <1>10 DEF LoadNext, At, syncVars
  <2>2. next_block \in Nat /\ Given = next_block - 1
    BY <1>1, <2>1 DEF Types, Given
  <2>3. Given' = Given
    <3>1. CASE next_block <= NumBlocks
      <4>1. next_block \in 1 .. NumBlocks /\ num_edges' = BlockSize(next_block) /\ next_block' = next_block + 1
        BY <1>1, <2>1, <3>1, Blocks DEF LoadBlock, Types
      <4>2. num_edges' # 0
        BY <4>1, Blocks
      <4>. QED
        BY <2>1, <2>2, <4>1, <4>2 DEF Given
    <3>2. CASE ~ (next_block <= NumBlocks)
      BY <2>1, <2>2, <3>2 DEF LoadBlock, Given
    <3>. QED
      BY <3>1, <3>2
  <2>4. ~ Unset(u) /\ ~ Unset(u)'
    BY <2>1 DEF Unset
  <2>. QED
    BY <1>3, <2>1, <2>3, <2>4 DEF Loaded, End
<1>11. CASE WaitWorker("load", <<"load", "wait">>, <<"load", "swap">>)
  <2>1. mpc = <<"load", "wait">> /\ UNCHANGED <<m_task, pc, num_edges, next_block>> /\ mpc' \in {<<"load", "wait">>, <<"load", "swap">>}
    BY <1>11 DEF WaitWorker, At, loaderVars, ForEachWorker
  <2>2. Given' = Given /\ ~ Unset(u) /\ ~ Unset(u)'
    BY <2>1 DEF Given, Unset
  <2>. QED
    BY <1>3, <2>1, <2>2 DEF Loaded, End
<1>12. CASE SwapArrays
  <2>1. /\ mpc = <<"load", "swap">> /\ UNCHANGED <<m_task, pc, num_edges, next_block, mi>>
        /\ mpc' = IF Mode = "execute" THEN LoopHead(num_edges) ELSE AfterLoad
    BY <1>12 DEF SwapArrays, At, syncVars
  <2>2. /\ mpc' \in {<<"load", "set">>, <<"latency", "prepare">>, <<"run", "start">>}
        /\ mpc' = <<"load", "set">> => num_edges > 0
    BY <2>1, ModeAssumption DEF LoopHead, AfterLoad
  <2>3. ~ Unset(u) /\ m_task[u].type # "LOAD_EDGES" /\ mi = 0
    BY <1>1, <2>1 DEF Unset, Slot, Free, Types, Outside
  <2>4. Loaded(u) = End(Given)
    BY <2>1, <2>3 DEF Loaded
  <2>5. CASE mpc' = <<"load", "set">>
    <3>1. Unset(u)' /\ pc'[u] # "load"
      BY <1>1, <1>4, <2>1, <2>3, <2>5 DEF Unset, Place
    <3>2. Given' - 1 = Given /\ num_edges > 0
      BY <1>1, <2>1, <2>2, <2>5 DEF Given, Types
    <3>3. Loaded(u)' = End(Given) + 0
      BY <2>5, <3>1, <3>2 DEF Loaded, End
    <3>4. End(Given) \in Nat
      <4>1. Given \in 0 .. NumBlocks
        BY <1>1, <2>1, <3>2, Blocks DEF Given, Types, Arrays
      <4>. QED
        BY <4>1, Blocks
    <3>. QED
      BY <2>4, <3>3, <3>4
  <2>6. CASE mpc' # <<"load", "set">>
    <3>1. Given' = Given /\ mpc'[1] # "load"
      BY <2>1, <2>2, <2>6 DEF Given
    <3>. QED
      BY <2>4, <3>1 DEF Loaded, End
  <2>. QED
    BY <2>5, <2>6
<1>13. CASE EndRun /\ mpc' = <<"load", "set">> /\ num_edges > 0
  <2>1. mpc = <<"run", "end">> /\ UNCHANGED <<m_task, pc, num_edges, next_block, mi>> /\ mi = 0
    BY <1>1, <1>13 DEF EndRun, At, workerVars, syncVars, loaderVars, Types, Outside
  <2>2. Loaded(u) = End(Given)
    BY <2>1 DEF Loaded
  <2>3. Unset(u)' /\ pc'[u] # "load"
    BY <1>1, <1>4, <1>13, <2>1 DEF Unset, Place, Slot
  <2>4. Given' - 1 = Given
    BY <1>1, <1>13, <2>1 DEF Given, Types
  <2>5. Loaded(u)' = End(Given) + 0
    BY <1>13, <2>3, <2>4 DEF Loaded, End
  <2>6. End(Given) \in Nat
    <3>1. Given \in 0 .. NumBlocks
      BY <1>1, <1>13, <2>1, Blocks DEF Given, Types, Arrays
    <3>. QED
      BY <3>1, Blocks
  <2>. QED
    BY <2>2, <2>5, <2>6
<1>. QED
  BY <1>1, <1>5, <1>6, <1>7, <1>8, <1>9, <1>10, <1>11, <1>12, <1>13, Phases

-----------------------------------------------------------------------------
(* The loops of the workers *)

(* The end of a chunk is inside the buffer. *)
LEMMA ChunkBounds ==
    ASSUME NEW w \in W, ex[w].start \in Nat, Len(Operations(w)) \in Nat
    PROVE  /\ ChunkEnd(w) \in Nat /\ ChunkEnd(w) <= Len(Operations(w))
           /\ ex[w].start <= Len(Operations(w)) => ex[w].start <= ChunkEnd(w)
           /\ ex[w].start < Len(Operations(w)) => ex[w].start < ChunkEnd(w)
<1> DEFINE a == ex[w].start + Granularity  b == Len(Operations(w))
<1>1. a \in Nat /\ b \in Nat /\ a > ex[w].start
  BY ParameterAssumption
<1>2. Min({a, b}) = CHOOSE x \in {a, b} : \A y \in {a, b} : x <= y
  BY DEF Min
<1>3. \E x \in {a, b} : \A y \in {a, b} : x <= y
  BY <1>1
<1>4. Min({a, b}) \in {a, b} /\ \A y \in {a, b} : Min({a, b}) <= y
  BY <1>2, <1>3
<1>5. ChunkEnd(w) = Min({a, b})
  BY DEF ChunkEnd
<1>. QED
  BY <1>1, <1>4, <1>5

(* The coefficient of a report is a natural number. *)
LEMMA CoeffNat == ASSUME NEW n \in Nat PROVE AgingCoeff(n) \in Nat
<1>1. n * ReportsPerOps \in Nat /\ FinalEdges \in Nat /\ FinalEdges > 0
  BY ParameterAssumption
<1>. QED
  BY <1>1 DEF AgingCoeff

(* The buffer that a worker executes. *)
LEMMA CurBuffer ==
    ASSUME UpdateTypes, NEW w \in W, Loops(w), pc[w] \in Executing, ex[w].i <= ex[w].end
    PROVE  /\ Cur(w) \in 1 .. Len(m_updates[w]) /\ Operations(w) = m_updates[w][Cur(w)]
           /\ Operations(w) \in Seq(Ops) /\ Len(Operations(w)) \in Nat
<1>1. m_updates[w] \in Seq(Seq(Ops)) /\ ex[w] \in Locals
  BY DEF UpdateTypes
<1>2. ex[w].i \in Nat /\ ex[w].end \in Nat /\ ex[w].i >= 1
  BY <1>1 DEF Locals, Loops
<1>3. Cur(w) \in 1 .. Len(m_updates[w])
  BY <1>1, <1>2, ParameterAssumption DEF Loops, Cur
<1>4. Operations(w) = m_updates[w][Cur(w)]
  BY DEF Operations, Cur
<1>. QED
  BY <1>1, <1>3, <1>4

(* What the invariant says of the updates of a worker depends on these. *)
LEMMA BufferedSame ==
    ASSUME NEW w \in W, Buffered(w), Loaded(w)' = Loaded(w),
           \A b, p \in Nat : In(w, b, p)' <=> In(w, b, p),
           \A b, p \in Nat : In(w, b, p) => m_updates'[w][b][p] = m_updates[w][b][p],
           \A b, p \in Nat : Waits(w, b, p)' <=> Waits(w, b, p),
           \A op \in Ops : OwnedBy(op, w) => (op \in Range(applied)' <=> op \in Range(applied))
    PROVE  Buffered(w)'
<1>1. \A b, p \in Nat : Waits(w, b, p) => In(w, b, p)
  BY DEF Waits
<1>2. \A b, c, p, q \in Nat : In(w, b, p)' /\ In(w, c, q)' /\ Before(b, p, c, q) => m_updates'[w][b][p] < m_updates'[w][c][q]
  BY DEF Buffered
<1>3. \A b, p \in Nat : In(w, b, p)' => OwnedBy(m_updates'[w][b][p], w) /\ m_updates'[w][b][p] <= Loaded(w)'
  BY DEF Buffered
<1>4. \A op \in Ops : OwnedBy(op, w) =>
          (op \in Range(applied)' <=> op <= Loaded(w)' /\ \A b, p \in Nat : Waits(w, b, p)' => m_updates'[w][b][p] # op)
  BY <1>1 DEF Buffered
<1>5. \A op \in Ops, b, p \in Nat : OwnedBy(op, w) /\ op \in Range(applied)' /\ Waits(w, b, p)' => op < m_updates'[w][b][p]
  BY <1>1 DEF Buffered
<1>. QED
  BY <1>2, <1>3, <1>4, <1>5 DEF Buffered, Before, OwnedBy

(* The same, when the buffers are left alone. *)
LEMMA BufferedKept ==
    ASSUME NEW w \in W, Buffered(w), Loaded(w)' = Loaded(w), m_updates'[w] = m_updates[w],
           \A b, p \in Nat : Waits(w, b, p)' <=> Waits(w, b, p),
           \A op \in Ops : OwnedBy(op, w) => (op \in Range(applied)' <=> op \in Range(applied))
    PROVE  Buffered(w)'
<1>1. \A b, p \in Nat : In(w, b, p)' <=> In(w, b, p)
  BY DEF In
<1>. QED
  BY <1>1, BufferedSame

(* The worker has nothing to do with its updates at this step. *)
LEMMA UpdatesElsewhere ==
    ASSUME NEW w \in W, Loops(w), Runs(w) => Buffered(w), Loaded(w)' = Loaded(w),
           m_updates'[w] = m_updates[w], UNCHANGED <<applied, m_stop_experiment>>,
           \/ pc[w] \notin Executing /\ pc'[w] \notin Executing \cup {"load"}
           \/ pc'[w] = pc[w] /\ ex'[w] = ex[w]
    PROVE  Loops(w)' /\ (Runs(w)' => Buffered(w)')
<1>1. Runs(w)' => Runs(w)
  BY DEF Runs, Executing
<1>2. \A b, p \in Nat : Waits(w, b, p)' <=> Waits(w, b, p)
  BY DEF Waits, In, Executed, Cur
<1>3. Loops(w)'
  BY DEF Loops, Operations, ChunkEnd
<1>. QED
  BY <1>1, <1>2, <1>3, BufferedKept

(* CheckStop *)
LEMMA UpdatesCheckStop ==
    ASSUME Updates, NEW w \in W, CheckStop(w), pc \in [W -> Labels], Loaded(w)' = Loaded(w)
    PROVE  Loops(w)' /\ (Runs(w)' => Buffered(w)')
<1>1. /\ pc[w] = "check" /\ UNCHANGED <<m_updates, ex, applied, m_stop_experiment>>
      /\ pc'[w] = IF m_stop_experiment \/ ex[w].pos = ChunkEnd(w) THEN "count" ELSE "call"
  BY DEF CheckStop, localVars, libraryVars
<1>2. ex[w].pos \in Nat /\ ex[w].start \in Nat /\ Loops(w) /\ (Runs(w) => Buffered(w)) /\ UpdateTypes
  BY DEF Updates, UpdateTypes, Locals
<1>3. ex[w].i <= ex[w].end
  BY <1>1, <1>2 DEF Loops, Executing
<1>4. ChunkEnd(w) \in Nat
  BY <1>1, <1>2, <1>3, CurBuffer, ChunkBounds DEF Executing
<1>5. Operations(w)' = Operations(w) /\ ChunkEnd(w)' = ChunkEnd(w)
  BY <1>1 DEF Operations, ChunkEnd
<1>6. Loops(w)'
  BY <1>1, <1>2, <1>4, <1>5 DEF Loops, Executing
<1>7. \A b, p \in Nat : Waits(w, b, p)' <=> Waits(w, b, p)
  BY <1>1 DEF Waits, In, Executed, Cur, Executing
<1>8. Runs(w)' => Runs(w)
  BY <1>1 DEF Runs
<1>. QED
  BY <1>1, <1>2, <1>6, <1>7, <1>8, BufferedKept

(* CountChunk, ReportTime, StoreTime *)
LEMMA UpdatesCountChunk ==
    ASSUME Updates, NEW w \in W, CountChunk(w) \/ ReportTime(w) \/ StoreTime(w), pc \in [W -> Labels], Loaded(w)' = Loaded(w)
    PROVE  /\ Loops(w)' /\ (Runs(w)' => Buffered(w)')
           /\ ex' \in [W -> Locals] /\ m_num_operations_performed' \in Nat /\ m_last_time_reported' \in Nat
<1>1. UNCHANGED <<m_updates, applied, m_stop_experiment>> /\ pc[w] \in {"count", "cas", "store"}
  BY DEF CountChunk, ReportTime, StoreTime, libraryVars
<1>2. /\ UpdateTypes /\ Loops(w) /\ (Runs(w) => Buffered(w)) /\ ex[w] \in Locals /\ ex \in [W -> Locals]
      /\ m_num_operations_performed \in Nat /\ m_last_time_reported \in Nat
  BY DEF Updates, UpdateTypes
<1>3. ex[w].i <= ex[w].end /\ ex[w].pos \in Nat /\ ex[w].start \in Nat /\ ex[w].i \in Nat /\ ex[w].end \in Nat /\ ex[w].start < Len(Operations(w))
  BY <1>1, <1>2 DEF Loops, Executing, Locals
<1>4. ChunkEnd(w) \in Nat /\ ChunkEnd(w) <= Len(Operations(w)) /\ ex[w].start < ChunkEnd(w) /\ Len(Operations(w)) \in Nat
  BY <1>1, <1>2, <1>3, CurBuffer, ChunkBounds DEF Executing
<1>5. NextStart(w) \in Locals /\ NextStart(w) = [ex[w] EXCEPT !.start = ChunkEnd(w), !.pos = ChunkEnd(w)]
  BY <1>2, <1>4 DEF NextStart, Locals
<1>6. /\ m_num_operations_performed' \in Nat /\ m_last_time_reported' \in Nat /\ ex' \in [W -> Locals]
      /\ \/ pc'[w] \in {"cas", "store"} /\ ex'[w].i = ex[w].i /\ ex'[w].end = ex[w].end /\ ex'[w].start = ex[w].start /\ ex'[w].pos = ex[w].pos
         \/ pc'[w] = "buffer" /\ ex'[w].i = ex[w].i /\ ex'[w].end = ex[w].end /\ ex'[w].start = ChunkEnd(w) /\ ex'[w].pos = ChunkEnd(w)
  <2>1. CASE CountChunk(w)
    <3> DEFINE coeff == AgingCoeff(m_num_operations_performed)
    <3>1. coeff \in Nat
      BY <1>2, CoeffNat
    <3>2. /\ m_num_operations_performed' = m_num_operations_performed + (ChunkEnd(w) - ex[w].start) /\ UNCHANGED m_last_time_reported
          /\ ex' = [ex EXCEPT ![w] = IF coeff > ex[w].last THEN [@ EXCEPT !.coeff = coeff] ELSE NextStart(w)]
          /\ pc' = [pc EXCEPT ![w] = IF coeff > ex[w].last THEN "cas" ELSE "buffer"] /\ pc[w] = "count"
      BY <2>1 DEF CountChunk
    <3> HIDE DEF coeff
    <3>3. m_num_operations_performed' \in Nat /\ m_last_time_reported' \in Nat
      BY <1>2, <1>3, <1>4, <3>2
    <3>4. CASE coeff > ex[w].last
      BY <1>2, <3>1, <3>2, <3>3, <3>4 DEF Locals
    <3>5. CASE ~ (coeff > ex[w].last)
      <4>1. ex' = [ex EXCEPT ![w] = NextStart(w)] /\ pc' = [pc EXCEPT ![w] = "buffer"]
        BY <3>2, <3>5
      <4>2. ex'[w] = NextStart(w) /\ ex' \in [W -> Locals] /\ pc'[w] = "buffer"
        BY <1>2, <1>5, <4>1
      <4>. QED
        BY <1>2, <1>5, <3>3, <4>2 DEF Locals
    <3>. QED
      BY <3>4, <3>5
  <2>2. CASE ReportTime(w) /\ m_last_time_reported = ex[w].last
    <3>1. UNCHANGED <<m_num_operations_performed, ex>> /\ pc'[w] = "store" /\ m_last_time_reported' = ex[w].coeff
      BY <2>2 DEF ReportTime
    <3>. QED
      BY <1>2, <3>1 DEF Locals
  <2>3. CASE ReportTime(w) /\ m_last_time_reported # ex[w].last
    <3>1. /\ UNCHANGED <<m_num_operations_performed, m_last_time_reported>> /\ pc'[w] = "buffer"
          /\ ex' = [ex EXCEPT ![w] = [NextStart(w) EXCEPT !.last = m_last_time_reported]]
      BY <2>3 DEF ReportTime
    <3>2. [NextStart(w) EXCEPT !.last = m_last_time_reported] \in Locals
      BY <1>2, <1>5 DEF Locals
    <3>3. ex' \in [W -> Locals] /\ ex'[w] = [NextStart(w) EXCEPT !.last = m_last_time_reported]
      BY <1>2, <3>1, <3>2
    <3>. QED
      BY <1>2, <1>5, <3>1, <3>3 DEF Locals
  <2>4. CASE StoreTime(w)
    <3>1. /\ UNCHANGED <<m_num_operations_performed, m_last_time_reported>> /\ pc'[w] = "buffer"
          /\ ex' = [ex EXCEPT ![w] = NextStart(w)]
      BY <2>4 DEF StoreTime
    <3>2. ex' \in [W -> Locals] /\ ex'[w] = NextStart(w)
      BY <1>2, <1>5, <3>1
    <3>. QED
      BY <1>2, <1>5, <3>1, <3>2 DEF Locals
  <2>. QED
    BY <2>1, <2>2, <2>3, <2>4
<1>7. Cur(w)' = Cur(w) /\ Operations(w)' = Operations(w)
  BY <1>1, <1>6 DEF Cur, Operations
<1>8. Loops(w)'
  <2>1. CASE pc'[w] = "buffer"
    BY <1>1, <1>2, <1>3, <1>4, <1>6, <1>7, <2>1 DEF Loops, Executing
  <2>2. CASE pc'[w] \in {"cas", "store"}
    <3>1. ChunkEnd(w)' = ChunkEnd(w)
      BY <1>6, <1>7, <2>2 DEF ChunkEnd
    <3>. QED
      BY <1>1, <1>2, <1>3, <1>4, <1>6, <1>7, <2>2, <3>1 DEF Loops, Executing
  <2>. QED
    BY <1>6, <2>1, <2>2
<1>9. ASSUME Runs(w)' PROVE Buffered(w)'
  <2>1. ~ m_stop_experiment
    BY <1>1, <1>6, <1>9 DEF Runs
  <2>2. ex[w].pos = ChunkEnd(w)
    BY <1>1, <1>2, <2>1 DEF Loops, Executing
  <2>3. \A b, p \in Nat : Waits(w, b, p)' <=> Waits(w, b, p)
    BY <1>1, <1>6, <1>7, <2>2 DEF Waits, In, Executed, Executing
  <2>. QED
    BY <1>1, <1>2, <2>1, <2>3, BufferedKept DEF Runs
<1>. QED
  BY <1>6, <1>8, <1>9

(* A worker wakes up with a task. *)
LEMMA UpdatesWakeUp ==
    ASSUME Handshake, Updates, NEW w \in W, WakeUp(w), ~ IsIdle(w), Loaded(w)' = Loaded(w)
    PROVE  /\ Loops(w)' /\ (Runs(w)' => Buffered(w)')
           /\ ex' \in [W -> Locals] /\ m_updates' \in [W -> Seq(Seq(Ops))]
<1>1. Types /\ Slot(w) /\ UpdateTypes /\ Loops(w) /\ (Runs(w) => Buffered(w)) /\ pc[w] = "waiting"
  BY DEF Handshake, Updates, WakeUp
<1>2. m_updates \in [W -> Seq(Seq(Ops))] /\ ex \in [W -> Locals] /\ m_updates[w] \in Seq(Seq(Ops)) /\ Len(m_updates[w]) \in Nat
  BY <1>1 DEF UpdateTypes
<1>3. m_task[w].type \in {"STOP", "LOAD_EDGES", "EXECUTE_UPDATES", "REMOVE_VERTICES", "SET_ARRAY_LATENCIES"}
  BY <1>1 DEF Types, TaskOp, Slot, IsIdle
<1>4. /\ m_updates' = [m_updates EXCEPT ![w] = IF m_task[w].type = "LOAD_EDGES" /\ @ = <<>> THEN << <<>> >> ELSE @]
      /\ ex' = [ex EXCEPT ![w] = [i |-> 1, end |-> Len(m_updates[w]), start |-> 0, pos |-> 0, coeff |-> 0, last |-> 0]]
      /\ UNCHANGED <<applied, m_stop_experiment>>
      /\ pc' = [pc EXCEPT ![w] = CASE m_task[w].type = "LOAD_EDGES" -> "load"
                                   [] m_task[w].type = "EXECUTE_UPDATES" -> "buffer"
                                   [] m_task[w].type = "REMOVE_VERTICES" -> "remove"
                                   [] m_task[w].type = "SET_ARRAY_LATENCIES" -> "fetch"
                                   [] m_task[w].type = "STOP" -> "exiting"]
  BY DEF WakeUp, IsIdle, libraryVars
<1>5. /\ pc'[w] \in {"load", "buffer", "remove", "fetch", "exiting"}
      /\ pc'[w] = "buffer" => m_task[w].type = "EXECUTE_UPDATES"
      /\ pc'[w] = "load" => m_task[w].type = "LOAD_EDGES"
  BY <1>1, <1>3, <1>4 DEF Types
<1>6. m_updates'[w] = IF m_task[w].type = "LOAD_EDGES" /\ m_updates[w] = <<>> THEN << <<>> >> ELSE m_updates[w]
  BY <1>2, <1>4
<1>7. << <<>> >> \in Seq(Seq(Ops)) /\ Len(<< <<>> >>) = 1 /\ << <<>> >>[1] = <<>>
  OBVIOUS
<1>8. m_updates' \in [W -> Seq(Seq(Ops))]
  BY <1>2, <1>4, <1>7
<1>9. ex' \in [W -> Locals] /\ ex'[w].i = 1 /\ ex'[w].end = Len(m_updates[w]) /\ ex'[w].start = 0 /\ ex'[w].pos = 0
  BY <1>2, <1>4 DEF Locals
<1>10. Loops(w)'
  <2>1. CASE pc'[w] = "buffer"
    <3>1. m_updates'[w] = m_updates[w]
      BY <1>5, <1>6, <2>1
    <3>2. Len(m_updates[w]) >= 1 => m_updates[w][1] \in Seq(Ops)
      BY <1>2
    <3>3. Len(m_updates[w]) >= 1 => Operations(w)' = m_updates[w][1] /\ 0 <= Len(Operations(w)')
      BY <1>9, <3>1, <3>2 DEF Operations
    <3>. QED
      BY <1>2, <1>9, <2>1, <3>1, <3>3 DEF Loops
  <2>2. CASE pc'[w] = "load"
    BY <1>2, <1>5, <1>6, <1>7, <2>2 DEF Loops, Executing
  <2>. QED
    BY <1>5, <2>1, <2>2 DEF Loops, Executing
<1>11. ASSUME Runs(w)' PROVE Buffered(w)'
  <2>1. Buffered(w)
    BY <1>1, <1>4, <1>5, <1>11 DEF Runs
  <2>2. \A b, p \in Nat : In(w, b, p)' <=> In(w, b, p)
    BY <1>6, <1>7 DEF In
  <2>3. \A b, p \in Nat : In(w, b, p) => m_updates'[w][b][p] = m_updates[w][b][p]
    BY <1>6 DEF In
  <2>4. \A b, p \in Nat : ~ Executed(w, b, p)
    BY <1>1 DEF Executed, Executing
  <2>5. \A b, p \in Nat : In(w, b, p)' => ~ Executed(w, b, p)'
    <3>1. Cur(w)' = 1
      BY <1>9 DEF Cur
    <3>2. \A b, p \in Nat : In(w, b, p)' => b >= 1 /\ p >= 1
      BY DEF In
    <3>. QED
      BY <1>9, <3>1, <3>2 DEF Executed
  <2>6. \A b, p \in Nat : Waits(w, b, p)' <=> Waits(w, b, p)
    BY <2>2, <2>4, <2>5 DEF Waits
  <2>. QED
    BY <1>4, <2>1, <2>2, <2>3, <2>6, BufferedSame
<1>. QED
  BY <1>8, <1>9, <1>10, <1>11

(* The first buffer is released. *)
LEMMA BufferedShifted ==
    ASSUME NEW w \in W, Buffered(w), Loaded(w)' = Loaded(w), UNCHANGED applied,
           \A b, p \in Nat : In(w, b, p)' <=> b >= 1 /\ In(w, b + 1, p),
           \A b, p \in Nat : In(w, b, p)' => m_updates'[w][b][p] = m_updates[w][b + 1][p],
           \A b, p \in Nat : Waits(w, b, p)' <=> b >= 1 /\ Waits(w, b + 1, p),
           \A p \in Nat : ~ Waits(w, 1, p)
    PROVE  Buffered(w)'
<1>1. \A b, p \in Nat : (Waits(w, b, p) => In(w, b, p)) /\ (Waits(w, b, p)' => In(w, b, p)')
  BY DEF Waits
<1>2. ASSUME NEW b \in Nat, NEW c \in Nat, NEW p \in Nat, NEW q \in Nat, In(w, b, p)', In(w, c, q)', Before(b, p, c, q)
      PROVE  m_updates'[w][b][p] < m_updates'[w][c][q]
  <2>1. Before(b + 1, p, c + 1, q) /\ b + 1 \in Nat /\ c + 1 \in Nat
    BY <1>2 DEF Before
  <2>. QED
    BY <1>2, <2>1 DEF Buffered
<1>3. \A b, p \in Nat : In(w, b, p)' => OwnedBy(m_updates'[w][b][p], w) /\ m_updates'[w][b][p] <= Loaded(w)'
  BY DEF Buffered
<1>4. ASSUME NEW op \in Ops, OwnedBy(op, w)
      PROVE  op \in Range(applied)' <=> op <= Loaded(w)' /\ \A b, p \in Nat : Waits(w, b, p)' => m_updates'[w][b][p] # op
  <2>1. ASSUME \A b, p \in Nat : Waits(w, b, p)' => m_updates'[w][b][p] # op, NEW b \in Nat, NEW p \in Nat, Waits(w, b, p)
        PROVE  m_updates[w][b][p] # op
    <3>1. b > 1
      <4>1. In(w, b, p)
        BY <2>1 DEF Waits
      <4>2. b \in 1 .. Len(m_updates[w])
        BY <4>1, Zenon DEF In
      <4>3. b >= 1
        BY <4>2
      <4>4. b # 1
        BY <2>1, Zenon
      <4>. QED
        BY <4>3, <4>4
    <3>2. b - 1 \in Nat /\ b - 1 >= 1 /\ (b - 1) + 1 = b
      BY <3>1
    <3>3. Waits(w, b - 1, p)'
      BY <2>1, <3>2
    <3>. QED
      BY <1>1, <2>1, <3>2, <3>3
  <2>2. ASSUME \A b, p \in Nat : Waits(w, b, p) => m_updates[w][b][p] # op, NEW b \in Nat, NEW p \in Nat, Waits(w, b, p)'
        PROVE  m_updates'[w][b][p] # op
    BY <1>1, <2>2
  <2>. QED
    BY <1>4, <2>1, <2>2 DEF Buffered
<1>5. \A op \in Ops, b, p \in Nat : OwnedBy(op, w) /\ op \in Range(applied)' /\ Waits(w, b, p)' => op < m_updates'[w][b][p]
  BY <1>1 DEF Buffered
<1>. QED
  BY <1>2, <1>3, <1>4, <1>5 DEF Buffered, Before, OwnedBy

(* The locals of main_execute_updates at the next buffer. *)
LEMMA LocalsReset ==
    ASSUME NEW r \in Locals, NEW n \in Nat
    PROVE  [r EXCEPT !.i = n, !.start = 0, !.pos = 0] \in Locals
  BY DEF Locals

(* The next buffer. *)
LEMMA NextBufferLocals ==
    ASSUME NEW w \in W, ex[w] \in Locals
    PROVE  /\ NextBuffer(w) \in Locals /\ NextBuffer(w).i = ex[w].i + 1 /\ NextBuffer(w).end = ex[w].end
           /\ NextBuffer(w).start = 0 /\ NextBuffer(w).pos = 0
<1>1. NextBuffer(w).i = ex[w].i + 1 /\ NextBuffer(w).end = ex[w].end /\ NextBuffer(w).start = 0 /\ NextBuffer(w).pos = 0
  BY DEF Locals, NextBuffer
<1>2. PICK n \in Nat : n = ex[w].i + 1
  BY DEF Locals
<1>3. NextBuffer(w) = [ex[w] EXCEPT !.i = n, !.start = 0, !.pos = 0]
  BY <1>2 DEF NextBuffer
<1>. QED
  BY <1>1, <1>3, LocalsReset

(* NextChunk *)
LEMMA UpdatesNextChunk ==
    ASSUME Updates, NEW w \in W, NextChunk(w), pc \in [W -> Labels], Loaded(w)' = Loaded(w)
    PROVE  /\ Loops(w)' /\ (Runs(w)' => Buffered(w)')
           /\ ex' \in [W -> Locals] /\ m_updates' \in [W -> Seq(Seq(Ops))]
<1>1. pc[w] = "buffer" /\ UNCHANGED <<applied, m_stop_experiment>> /\ pc[w] \in Executing
  BY DEF NextChunk, libraryVars, Executing
<1>2. /\ UpdateTypes /\ Loops(w) /\ (Runs(w) => Buffered(w)) /\ ex[w] \in Locals /\ ex \in [W -> Locals]
      /\ m_updates \in [W -> Seq(Seq(Ops))] /\ m_updates[w] \in Seq(Seq(Ops)) /\ Len(m_updates[w]) \in Nat
  BY DEF Updates, UpdateTypes
<1>3. /\ ex[w].i \in Nat /\ ex[w].end \in Nat /\ ex[w].start \in Nat /\ ex[w].pos = ex[w].start
      /\ ex[w].i >= 1 /\ ex[w].i <= ex[w].end + 1
      /\ Len(m_updates[w]) = IF ReleaseMemory THEN ex[w].end - ex[w].i + 1 ELSE ex[w].end
  BY <1>1, <1>2 DEF Loops, Locals
<1>4. Runs(w)' => ~ m_stop_experiment
  BY <1>1 DEF Runs, NextChunk
<1>5. CASE ex[w].i > ex[w].end
  <2>1. m_updates' = [m_updates EXCEPT ![w] = <<>>] /\ pc' = [pc EXCEPT ![w] = "fetch"] /\ UNCHANGED ex
    BY <1>3, <1>5 DEF NextChunk
  <2>2. m_updates'[w] = <<>> /\ pc'[w] = "fetch" /\ m_updates' \in [W -> Seq(Seq(Ops))]
    BY <1>2, <2>1
  <2>3. Loops(w)'
    BY <2>2 DEF Loops, Executing
  <2>4. \A b, p \in Nat : ~ In(w, b, p)' /\ ~ Waits(w, b, p)'
    BY <2>2 DEF In, Waits
  <2>5. \A b, p \in Nat : ~ Waits(w, b, p)
    <3>1. CASE ReleaseMemory
      BY <1>3, <1>5, <3>1 DEF Waits, In
    <3>2. CASE ~ ReleaseMemory
      BY <1>1, <1>3, <1>5, <3>2 DEF Waits, In, Executed, Cur
    <3>. QED
      BY <3>1, <3>2
  <2>6. Runs(w)' => Buffered(w)'
    <3> SUFFICES ASSUME Runs(w)' PROVE Buffered(w)'
      OBVIOUS
    <3>1. Buffered(w)
      BY <1>2, <1>4 DEF Runs
    <3>2. \A op \in Ops : OwnedBy(op, w) => (op \in Range(applied) <=> op <= Loaded(w))
      BY <2>5, <3>1 DEF Buffered
    <3>. QED
      BY <1>1, <2>4, <3>2 DEF Buffered, OwnedBy
  <2>. QED
    BY <1>2, <2>1, <2>2, <2>3, <2>6
<1>6. CASE ex[w].i <= ex[w].end
  <2>1. /\ Cur(w) \in 1 .. Len(m_updates[w]) /\ Operations(w) = m_updates[w][Cur(w)]
        /\ Operations(w) \in Seq(Ops) /\ Len(Operations(w)) \in Nat
    BY <1>1, <1>2, <1>6, CurBuffer
  <2>2. ex[w].start <= Len(Operations(w))
    BY <1>1, <1>2, <1>6 DEF Loops
  <2>3. CASE ex[w].start < Len(Operations(w))
    <3>1. UNCHANGED <<ex, m_updates>> /\ pc'[w] = "check"
      BY <1>3, <1>6, <2>1, <2>3 DEF NextChunk
    <3>2. ChunkEnd(w) \in Nat /\ ex[w].start < ChunkEnd(w)
      BY <1>3, <2>1, <2>3, ChunkBounds
    <3>3. Operations(w)' = Operations(w) /\ ChunkEnd(w)' = ChunkEnd(w)
      BY <3>1 DEF Operations, ChunkEnd
    <3>4. Loops(w)'
      BY <1>1, <1>2, <1>3, <1>6, <2>3, <3>1, <3>2, <3>3 DEF Loops, Executing
    <3>5. \A b, p \in Nat : Waits(w, b, p)' <=> Waits(w, b, p)
      BY <1>1, <3>1 DEF Waits, In, Executed, Cur, Executing
    <3>6. Runs(w)' => Runs(w)
      BY <1>1, <3>1 DEF Runs
    <3>. QED
      BY <1>1, <1>2, <3>1, <3>4, <3>5, <3>6, BufferedKept
  <2>4. CASE ex[w].start = Len(Operations(w))
    <3>1. /\ m_updates' = [m_updates EXCEPT ![w] = IF ReleaseMemory THEN Tail(@) ELSE @]
          /\ ex' = [ex EXCEPT ![w] = NextBuffer(w)] /\ UNCHANGED pc
      <4>1. ~ (ex[w].i > ex[w].end) /\ ~ (ex[w].start < Len(Operations(w)))
        BY <1>3, <1>6, <2>1, <2>4
      <4>. QED
        BY <4>1 DEF NextChunk
    <3>2. /\ ex' \in [W -> Locals] /\ ex'[w].i = ex[w].i + 1 /\ ex'[w].end = ex[w].end /\ ex'[w].start = 0 /\ ex'[w].pos = 0
      BY <1>2, <3>1, NextBufferLocals
    <3>3. Runs(w)' => Runs(w)
      BY <1>1, <3>1 DEF Runs
    <3>4. CASE ReleaseMemory
      <4>1. m_updates'[w] = Tail(m_updates[w]) /\ Cur(w) = 1 /\ Cur(w)' = 1 /\ m_updates[w] # <<>>
        BY <1>2, <2>1, <3>1, <3>4 DEF Cur
      <4>2. /\ Tail(m_updates[w]) \in Seq(Seq(Ops)) /\ Len(Tail(m_updates[w])) = Len(m_updates[w]) - 1
            /\ \A b \in 1 .. Len(Tail(m_updates[w])) : Tail(m_updates[w])[b] = m_updates[w][b + 1]
        BY <1>2, <4>1
      <4>3. m_updates' \in [W -> Seq(Seq(Ops))]
        BY <1>2, <3>1, <3>4, <4>2
      <4>4. ex'[w].i <= ex'[w].end => Operations(w)' \in Seq(Ops) /\ 0 <= Len(Operations(w)')
        <5>1. ASSUME ex'[w].i <= ex'[w].end PROVE 1 \in 1 .. Len(m_updates'[w])
          BY <1>3, <3>2, <3>4, <4>1, <4>2, <5>1
        <5>2. Operations(w)' = m_updates'[w][1]
          BY <3>4 DEF Operations
        <5>3. m_updates'[w] \in Seq(Seq(Ops))
          BY <4>3
        <5>. QED
          BY <5>1, <5>2, <5>3
      <4>5. Loops(w)'
        <5>1. Len(m_updates'[w]) = ex'[w].end - ex'[w].i + 1 /\ ex'[w].i \in 1 .. ex'[w].end + 1
          <6>1. Len(m_updates'[w]) = Len(m_updates[w]) - 1
            BY <4>1, <4>2
          <6>2. Len(m_updates[w]) = ex[w].end - ex[w].i + 1
            BY <1>3, <3>4
          <6>. QED
            BY <1>3, <1>6, <3>2, <6>1, <6>2
        <5>2. pc'[w] = "buffer"
          BY <1>1, <3>1
        <5>. QED
          BY <3>2, <3>4, <4>4, <5>1, <5>2 DEF Loops
      <4>6. \A b, p \in Nat : In(w, b, p)' <=> b >= 1 /\ In(w, b + 1, p)
        BY <1>2, <4>1, <4>2 DEF In
      <4>7. \A b, p \in Nat : In(w, b, p)' => m_updates'[w][b][p] = m_updates[w][b + 1][p]
        BY <1>2, <4>1, <4>2 DEF In
      <4>8. \A p \in Nat : ~ Waits(w, 1, p)
        BY <1>1, <1>3, <2>1, <2>4, <4>1 DEF Waits, In, Executed
      <4>9. \A b, p \in Nat : In(w, b, p)' => ~ Executed(w, b, p)'
        <5>1. \A b, p \in Nat : In(w, b, p)' => b >= 1 /\ p >= 1
          BY DEF In
        <5>. QED
          BY <3>2, <4>1, <5>1 DEF Executed
      <4>10. \A b, p \in Nat : b >= 1 => ~ Executed(w, b + 1, p)
        BY <4>1 DEF Executed
      <4>11. \A b, p \in Nat : Waits(w, b, p)' <=> b >= 1 /\ Waits(w, b + 1, p)
        BY <4>6, <4>9, <4>10 DEF Waits
      <4>. QED
        BY <1>1, <1>2, <3>2, <3>3, <4>3, <4>5, <4>6, <4>7, <4>8, <4>11, BufferedShifted
    <3>5. CASE ~ ReleaseMemory
      <4>1. m_updates'[w] = m_updates[w] /\ Cur(w) = ex[w].i /\ Cur(w)' = ex[w].i + 1 /\ m_updates' \in [W -> Seq(Seq(Ops))]
        BY <1>2, <3>1, <3>2, <3>5 DEF Cur
      <4>2. ex'[w].i <= ex'[w].end => 0 <= Len(Operations(w)')
        <5>1. ASSUME ex'[w].i <= ex'[w].end PROVE ex'[w].i \in 1 .. Len(m_updates[w])
          BY <1>3, <3>2, <3>5, <5>1
        <5>2. Operations(w)' = m_updates[w][ex'[w].i]
          BY <3>5, <4>1 DEF Operations
        <5>3. ASSUME ex'[w].i <= ex'[w].end PROVE Operations(w)' \in Seq(Ops)
          BY <1>2, <5>1, <5>2, <5>3
        <5>. QED
          BY <5>3
      <4>3. Loops(w)'
        BY <1>1, <1>3, <1>6, <3>1, <3>2, <3>5, <4>1, <4>2 DEF Loops
      <4>4. \A b, p \in Nat : In(w, b, p)' <=> In(w, b, p)
        BY <4>1 DEF In
      <4>5. \A b, p \in Nat : In(w, b, p) => (Executed(w, b, p)' <=> Executed(w, b, p))
        <5>1. ASSUME NEW b \in Nat, NEW p \in Nat, In(w, b, p) PROVE p >= 1 /\ (b = Cur(w) => p <= ex[w].pos)
          BY <1>3, <2>1, <2>4, <5>1 DEF In
        <5>. QED
          BY <1>1, <1>3, <3>1, <3>2, <4>1, <5>1 DEF Executed
      <4>6. \A b, p \in Nat : Waits(w, b, p)' <=> Waits(w, b, p)
        BY <4>4, <4>5 DEF Waits
      <4>. QED
        BY <1>1, <1>2, <3>2, <3>3, <4>1, <4>3, <4>6, BufferedKept
    <3>. QED
      BY <3>4, <3>5
  <2>. QED
    BY <1>3, <2>1, <2>2, <2>3, <2>4
<1>. QED
  BY <1>3, <1>5, <1>6

(* The buffers t are those of s with op at the position q of c, the last. *)
Extended(t, s, op, c, q) ==
    /\ t[c][q] = op
    /\ \A b, p \in Nat : /\ (b \in 1 .. Len(t) /\ p \in 1 .. Len(t[b])) <=> (b \in 1 .. Len(s) /\ p \in 1 .. Len(s[b])) \/ (b = c /\ p = q)
                         /\ b \in 1 .. Len(s) /\ p \in 1 .. Len(s[b]) => t[b][p] = s[b][p] /\ Before(b, p, c, q)

(* A buffer is extended, or a new one is added. *)
LEMMA Appended ==
    ASSUME NEW s \in Seq(Seq(Ops)), Len(s) > 0, NEW op \in Ops
    PROVE  /\ Append2Last(s, op) \in Seq(Seq(Ops)) /\ Len(Append2Last(s, op)) > 0
           /\ \E c, q \in Nat : Extended(Append2Last(s, op), s, op, c, q)
<1> DEFINE n == Len(s)
<1>1. n \in Nat /\ n \in 1 .. Len(s) /\ s[n] \in Seq(Ops) /\ Len(s[n]) \in Nat
  OBVIOUS
<1>2. CASE Len(s[n]) > LastMaxSz
  <2>1. Append2Last(s, op) = Append(s, <<op>>)
    BY <1>2 DEF Append2Last
  <2>2. <<op>> \in Seq(Ops) /\ Len(<<op>>) = 1 /\ <<op>>[1] = op
    OBVIOUS
  <2>3. /\ Append(s, <<op>>) \in Seq(Seq(Ops)) /\ Len(Append(s, <<op>>)) = n + 1 /\ Append(s, <<op>>)[n + 1] = <<op>>
        /\ \A b \in 1 .. n : Append(s, <<op>>)[b] = s[b]
    BY <2>2
  <2>4. Extended(Append2Last(s, op), s, op, n + 1, 1)
    <3>1. ASSUME NEW b \in Nat, NEW p \in Nat, b \in 1 .. n
          PROVE  /\ b \in 1 .. n + 1 /\ Append2Last(s, op)[b] = s[b] /\ b # n + 1 /\ Before(b, p, n + 1, 1)
      BY <1>1, <2>1, <2>3, <3>1 DEF Before
    <3>2. ASSUME NEW b \in Nat, b \in 1 .. n + 1, b \notin 1 .. n PROVE b = n + 1
      BY <1>1, <3>2
    <3>3. Len(Append2Last(s, op)) = n + 1 /\ Append2Last(s, op)[n + 1] = <<op>> /\ n + 1 \notin 1 .. n /\ n + 1 \in 1 .. n + 1
      BY <1>1, <2>1, <2>3
    <3>4. \A p \in Nat : p \in 1 .. 1 <=> p = 1
      OBVIOUS
    <3>. QED
      BY <2>2, <3>1, <3>2, <3>3, <3>4 DEF Extended
  <2>5. n + 1 \in Nat /\ 1 \in Nat /\ n + 1 > 0
    BY <1>1
  <2>. QED
    BY <2>1, <2>3, <2>4, <2>5
<1>3. CASE ~ (Len(s[n]) > LastMaxSz)
  <2> DEFINE t == [s EXCEPT ![n] = Append(s[n], op)]  m == Len(s[n])
  <2>1. Append2Last(s, op) = t
    BY <1>3 DEF Append2Last
  <2>2. /\ Append(s[n], op) \in Seq(Ops) /\ Len(Append(s[n], op)) = m + 1 /\ Append(s[n], op)[m + 1] = op
        /\ \A p \in 1 .. m : Append(s[n], op)[p] = s[n][p]
    BY <1>1
  <2>3. t \in Seq(Seq(Ops)) /\ Len(t) = n /\ t[n] = Append(s[n], op) /\ \A b \in 1 .. n : b # n => t[b] = s[b]
    BY <1>1, <2>2
  <2>4. m \in Nat
    BY <1>1
  <2> HIDE DEF t, m
  <2>5. ASSUME NEW b \in Nat, NEW p \in Nat
        PROVE  /\ (b \in 1 .. Len(t) /\ p \in 1 .. Len(t[b])) <=>
                    (b \in 1 .. Len(s) /\ p \in 1 .. Len(s[b])) \/ (b = n /\ p = m + 1)
               /\ b \in 1 .. Len(s) /\ p \in 1 .. Len(s[b]) => t[b][p] = s[b][p] /\ Before(b, p, n, m + 1)
    <3>1. CASE b = n
      <4>1. p \in 1 .. m + 1 <=> p \in 1 .. m \/ p = m + 1
        BY <2>4
      <4>2. Len(s[b]) = m /\ Len(t[b]) = m + 1 /\ b \in 1 .. Len(t) /\ b \in 1 .. Len(s)
        BY <1>1, <2>2, <2>3, <3>1 DEF m
      <4>3. p \in 1 .. m => t[b][p] = s[b][p] /\ Before(b, p, n, m + 1)
        BY <2>2, <2>3, <2>4, <3>1 DEF Before
      <4>. QED
        BY <3>1, <4>1, <4>2, <4>3
    <3>2. CASE b # n
      <4>1. b \in 1 .. Len(s) => t[b] = s[b] /\ b < n
        BY <1>1, <2>3, <3>2
      <4>2. b \in 1 .. Len(t) <=> b \in 1 .. Len(s)
        BY <2>3
      <4>. QED
        BY <3>2, <4>1, <4>2 DEF Before
    <3>. QED
      BY <3>1, <3>2
  <2>6. t[n][m + 1] = op /\ n \in Nat /\ m + 1 \in Nat /\ Len(t) > 0
    BY <1>1, <2>2, <2>3, <2>4
  <2>7. Extended(t, s, op, n, m + 1)
    BY <2>5, <2>6 DEF Extended
  <2>. QED
    BY <2>1, <2>3, <2>6, <2>7
<1>. QED
  BY <1>2, <1>3

(* The worker stores an update of its own. *)
LEMMA BufferedAppended ==
    ASSUME NEW w \in W, Buffered(w), NEW op \in Ops, OwnedBy(op, w), Loaded(w) \in Nat, op = Loaded(w) + 1, Loaded(w)' = op, UNCHANGED applied,
           m_updates \in [W -> Seq(Seq(Ops))],
           pc[w] \notin Executing, pc'[w] \notin Executing, NEW c \in Nat, NEW q \in Nat, m_updates'[w][c][q] = op,
           \A b, p \in Nat : In(w, b, p)' <=> In(w, b, p) \/ (b = c /\ p = q),
           \A b, p \in Nat : In(w, b, p) => m_updates'[w][b][p] = m_updates[w][b][p] /\ Before(b, p, c, q)
    PROVE  Buffered(w)'
<1>1. \A b, p \in Nat : (Waits(w, b, p) <=> In(w, b, p)) /\ (Waits(w, b, p)' <=> In(w, b, p)')
  BY DEF Waits, Executed
<1>2. ASSUME NEW b \in Nat, NEW p \in Nat, In(w, b, p)
      PROVE  m_updates[w][b][p] \in Ops /\ m_updates[w][b][p] \in Nat /\ m_updates[w][b][p] <= Loaded(w)
  <2>1. m_updates[w] \in Seq(Seq(Ops)) /\ b \in 1 .. Len(m_updates[w]) /\ p \in 1 .. Len(m_updates[w][b])
    BY <1>2 DEF In
  <2>2. m_updates[w][b] \in Seq(Ops)
    BY <2>1
  <2>3. m_updates[w][b][p] \in Ops
    BY <2>1, <2>2
  <2>. QED
    BY <1>2, <2>3 DEF Buffered, Ops
<1>3. ASSUME NEW b \in Nat, NEW d \in Nat, NEW p \in Nat, NEW r \in Nat, In(w, b, p)', In(w, d, r)', Before(b, p, d, r)
      PROVE  m_updates'[w][b][p] < m_updates'[w][d][r]
  <2>1. CASE In(w, b, p) /\ In(w, d, r)
    BY <1>3, <2>1 DEF Buffered
  <2>2. CASE In(w, b, p) /\ d = c /\ r = q
    BY <1>2, <2>2
  <2>3. CASE b = c /\ p = q /\ In(w, d, r)
    <3>1. Before(d, r, c, q)
      BY <2>3
    <3>. QED
      BY <1>3, <2>3, <3>1 DEF Before
  <2>4. CASE b = c /\ p = q /\ d = c /\ r = q
    BY <1>3, <2>4 DEF Before
  <2>. QED
    BY <1>3, <2>1, <2>2, <2>3, <2>4
<1>4. ASSUME NEW b \in Nat, NEW p \in Nat, In(w, b, p)' PROVE OwnedBy(m_updates'[w][b][p], w) /\ m_updates'[w][b][p] <= Loaded(w)'
  <2>1. CASE In(w, b, p)
    BY <1>2, <2>1 DEF Buffered
  <2>2. CASE b = c /\ p = q
    BY <2>2
  <2>. QED
    BY <1>4, <2>1, <2>2
<1>5. ASSUME NEW x \in Ops, OwnedBy(x, w)
      PROVE  x \in Range(applied) <=> x <= Loaded(w)' /\ \A b, p \in Nat : Waits(w, b, p)' => m_updates'[w][b][p] # x
  <2>1. x \in Nat
    BY DEF Ops
  <2>2. CASE x = op
    <3>1. x \notin Range(applied)
      BY <1>5, <2>2 DEF Buffered
    <3>2. Waits(w, c, q)' /\ m_updates'[w][c][q] = x
      BY <1>1, <2>2
    <3>. QED
      BY <3>1, <3>2
  <2>3. CASE x # op
    <3>1. x <= Loaded(w)' <=> x <= Loaded(w)
      BY <2>1, <2>3
    <3>2. (\A b, p \in Nat : Waits(w, b, p)' => m_updates'[w][b][p] # x) <=> (\A b, p \in Nat : Waits(w, b, p) => m_updates[w][b][p] # x)
      BY <1>1, <2>3
    <3>. QED
      BY <1>5, <3>1, <3>2 DEF Buffered
  <2>. QED
    BY <2>2, <2>3
<1>6. ASSUME NEW x \in Ops, NEW b \in Nat, NEW p \in Nat, OwnedBy(x, w), x \in Range(applied), Waits(w, b, p)'
      PROVE  x < m_updates'[w][b][p]
  <2>1. x <= Loaded(w) /\ x \in Nat
    BY <1>6 DEF Buffered, Ops
  <2>2. CASE In(w, b, p)
    BY <1>1, <1>6, <2>2 DEF Buffered
  <2>3. CASE b = c /\ p = q
    BY <2>1, <2>3
  <2>. QED
    BY <1>1, <1>6, <2>2, <2>3
<1>. QED
  BY <1>3, <1>4, <1>5, <1>6 DEF Buffered, Before, OwnedBy

(* The worker leaves an update to another one. *)
LEMMA BufferedSkipped ==
    ASSUME NEW w \in W, Buffered(w), NEW op \in Ops, ~ OwnedBy(op, w), Loaded(w) \in Nat, op = Loaded(w) + 1, Loaded(w)' = op,
           UNCHANGED <<applied, m_updates, pc, ex>>, m_updates \in [W -> Seq(Seq(Ops))]
    PROVE  Buffered(w)'
<1>1. \A b, p \in Nat : (Waits(w, b, p)' <=> Waits(w, b, p)) /\ (In(w, b, p)' <=> In(w, b, p))
  BY DEF Waits, In, Executed, Cur
<1>2. ASSUME NEW b \in Nat, NEW p \in Nat, In(w, b, p) PROVE m_updates[w][b][p] <= op
  <2>1. m_updates[w] \in Seq(Seq(Ops)) /\ b \in 1 .. Len(m_updates[w]) /\ p \in 1 .. Len(m_updates[w][b])
    BY <1>2 DEF In
  <2>2. m_updates[w][b] \in Seq(Ops)
    BY <2>1
  <2>3. m_updates[w][b][p] \in Ops
    BY <2>1, <2>2
  <2>. QED
    BY <1>2, <2>3 DEF Buffered, Ops
<1>3. \A x \in Ops : OwnedBy(x, w) => (x <= Loaded(w)' <=> x <= Loaded(w))
  BY DEF Ops
<1>4. \A x \in Ops : OwnedBy(x, w) =>
          (x \in Range(applied) <=> x <= Loaded(w)' /\ \A b, p \in Nat : Waits(w, b, p)' => m_updates'[w][b][p] # x)
  BY <1>1, <1>3 DEF Buffered
<1>5. \A b, c, p, q \in Nat : In(w, b, p)' /\ In(w, c, q)' /\ Before(b, p, c, q) => m_updates'[w][b][p] < m_updates'[w][c][q]
  BY <1>1 DEF Buffered
<1>6. \A b, p \in Nat : In(w, b, p)' => OwnedBy(m_updates'[w][b][p], w) /\ m_updates'[w][b][p] <= Loaded(w)'
  BY <1>1, <1>2 DEF Buffered
<1>7. \A x \in Ops, b, p \in Nat : OwnedBy(x, w) /\ x \in Range(applied) /\ Waits(w, b, p)' => x < m_updates'[w][b][p]
  BY <1>1 DEF Buffered
<1>. QED
  BY <1>4, <1>5, <1>6, <1>7 DEF Buffered, Before, OwnedBy

(* main_load_edges reads updates of the log. *)
LEMMA LoadsOps ==
    ASSUME Handshake, NEW w \in W, LoadEdges(w)
    PROVE  BlockFirst(arrays[task[w].payload]) + lpos[w] \in Ops
<1> DEFINE op == BlockFirst(arrays[task[w].payload]) + lpos[w]
<1>1. Types /\ Slot(w) /\ Place(w) /\ pc[w] = "load" /\ lpos[w] < task[w].sz
  BY DEF Handshake, LoadEdges
<1>2. m_task[w] = Task("LOAD_EDGES", front, BlockSize(arrays[front])) /\ task[w] = m_task[w] /\ arrays[front] # 0
  BY <1>1 DEF Place, Slot
<1>3. arrays[front] \in 1 .. NumBlocks /\ task[w].payload = front /\ task[w].sz = BlockSize(arrays[front]) /\ lpos[w] \in Nat
  BY <1>1, <1>2, FrontSize DEF Types, Task
<1> DEFINE b == arrays[front]
<1>4. /\ BlockFirst(b) = End(b - 1) + 1 /\ BlockSize(b) = End(b) - End(b - 1) /\ End(b - 1) \in Nat
      /\ Len(Log) \in Nat /\ b \in 0 .. NumBlocks
  BY <1>3, Blocks
<1>5. End(b) \in Nat /\ End(b) <= Len(Log)
  BY <1>4, Blocks
<1>6. op = BlockFirst(b) + lpos[w]
  BY <1>3
<1> HIDE DEF op, b
<1>7. op \in 1 .. Len(Log)
  BY <1>1, <1>3, <1>4, <1>5, <1>6 DEF b
<1>. QED
  BY <1>7 DEF Ops, op

(* A worker that wakes up has not called the library. *)
LEMMA WakesElsewhere ==
    ASSUME Types, NEW w \in W, Slot(w), WakeUp(w)
    PROVE  pc'[w] \notin {"check", "call", "count", "cas", "store"}
<1>1. CASE IsIdle(w)
  BY <1>1 DEF WakeUp, IsIdle
<1>2. CASE ~ IsIdle(w)
  <2>1. m_task[w].type \in {"STOP", "LOAD_EDGES", "EXECUTE_UPDATES", "REMOVE_VERTICES", "SET_ARRAY_LATENCIES"}
    BY <1>2 DEF Types, TaskOp, Slot, IsIdle, WakeUp
  <2>. QED
    BY <1>2, <2>1 DEF WakeUp, IsIdle, Types
<1>. QED
  BY <1>1, <1>2

(* LoadEdges *)
LEMMA UpdatesLoadEdges ==
    ASSUME Handshake, Updates, NEW w \in W, LoadEdges(w), UNCHANGED masterVars
    PROVE  Loops(w)' /\ (Runs(w)' => Buffered(w)') /\ m_updates' \in [W -> Seq(Seq(Ops))]
<1> DEFINE op == BlockFirst(arrays[task[w].payload]) + lpos[w]
<1>1. Types /\ Slot(w) /\ Place(w) /\ UpdateTypes /\ Loops(w) /\ (Runs(w) => Buffered(w))
  BY DEF Handshake, Updates
<1>2. pc[w] = "load" /\ lpos[w] < task[w].sz /\ UNCHANGED <<pc, ex, applied, m_stop_experiment>>
  BY DEF LoadEdges, libraryVars
<1>3. m_updates \in [W -> Seq(Seq(Ops))] /\ m_updates[w] \in Seq(Seq(Ops)) /\ Len(m_updates[w]) > 0
  BY <1>1, <1>2 DEF UpdateTypes, Loops
<1>4. op \in Ops
  BY LoadsOps
<1>5. ASSUME Runs(w)' PROVE Buffered(w) /\ Loaded(w) \in Nat /\ op = Loaded(w) + 1 /\ Loaded(w)' = op
  <2>1. ~ m_stop_experiment
    BY <1>2, <1>5 DEF Runs
  <2>2. Loaded(w)' = Loaded(w) + 1 /\ Loaded(w) \in Nat /\ op = Loaded(w) + 1
    BY <2>1, LoadedWorker DEF WorkerStep
  <2>. QED
    BY <1>1, <2>1, <2>2 DEF Runs
<1>6. CASE OwnedBy(op, w)
  <2>1. m_updates' = [m_updates EXCEPT ![w] = Append2Last(@, op)]
    BY <1>6 DEF LoadEdges
  <2> HIDE DEF op
  <2>2. m_updates'[w] = Append2Last(m_updates[w], op)
    BY <1>3, <2>1
  <2>3. m_updates'[w] \in Seq(Seq(Ops)) /\ Len(m_updates'[w]) > 0
    BY <1>3, <1>4, <2>2, Appended
  <2>4. m_updates' \in [W -> Seq(Seq(Ops))]
    BY <1>3, <2>1, <2>2, <2>3
  <2>5. Loops(w)'
    BY <1>2, <2>3 DEF Loops, Executing
  <2>6. PICK c, q \in Nat :
          /\ m_updates'[w][c][q] = op
          /\ \A b, p \in Nat : /\ In(w, b, p)' <=> In(w, b, p) \/ (b = c /\ p = q)
                               /\ In(w, b, p) => m_updates'[w][b][p] = m_updates[w][b][p] /\ Before(b, p, c, q)
    <3> DEFINE s == m_updates[w]  t == m_updates'[w]
    <3>1. s \in Seq(Seq(Ops)) /\ Len(s) > 0 /\ t = Append2Last(s, op)
      BY <1>3, <2>2
    <3>2. \A b, p \in Nat : /\ In(w, b, p) <=> b \in 1 .. Len(s) /\ p \in 1 .. Len(s[b])
                            /\ In(w, b, p)' <=> b \in 1 .. Len(t) /\ p \in 1 .. Len(t[b])
      BY DEF In
    <3> HIDE DEF s, t
    <3>3. \E c, q \in Nat : Extended(t, s, op, c, q)
      BY <1>4, <3>1, Appended
    <3>4. \E c, q \in Nat :
            /\ t[c][q] = op
            /\ \A b, p \in Nat : /\ In(w, b, p)' <=> In(w, b, p) \/ (b = c /\ p = q)
                                 /\ In(w, b, p) => t[b][p] = s[b][p] /\ Before(b, p, c, q)
      BY <3>2, <3>3 DEF Extended
    <3>. QED
      BY <3>4 DEF s, t
  <2>7. pc[w] \notin Executing /\ pc'[w] \notin Executing
    BY <1>2 DEF Executing
  <2>8. Runs(w)' => Buffered(w)'
    BY <1>2, <1>3, <1>4, <1>5, <1>6, <2>6, <2>7, BufferedAppended
  <2>. QED
    BY <2>4, <2>5, <2>8
<1>7. CASE ~ OwnedBy(op, w)
  <2>1. UNCHANGED m_updates
    BY <1>7 DEF LoadEdges
  <2> HIDE DEF op
  <2>2. Loops(w)'
    BY <1>1, <1>2, <2>1 DEF Loops, Executing
  <2>3. Runs(w)' => Buffered(w)'
    BY <1>2, <1>3, <1>4, <1>5, <1>7, <2>1, BufferedSkipped
  <2>. QED
    BY <1>3, <2>1, <2>2, <2>3
<1>. QED
  BY <1>6, <1>7

-----------------------------------------------------------------------------
(* The calls of the library *)

(* How far a worker has come in the log. *)
LEMMA LoadedNat ==
    ASSUME Handshake, NEW w \in W
    PROVE  Loaded(w) \in Nat /\ Given \in 0 .. NumBlocks
<1>1. Types /\ Arrays /\ Slot(w)
  BY DEF Handshake
<1>2. NumBlocks \in Nat /\ next_block \in 1 .. NumBlocks + 1 /\ num_edges \in Nat /\ (num_edges > 0 => next_block > 1)
  BY <1>1, Blocks DEF Types, Arrays
<1>3. Given \in 0 .. NumBlocks
  BY <1>1, <1>2 DEF Given, Arrays
<1>4. CASE mpc[1] = "load" /\ (Unset(w) \/ (m_task[w].type = "LOAD_EDGES" /\ pc[w] \in {"waiting", "load"}))
  <2>1. mpc[2] # "first"
    BY <1>1, <1>4 DEF Unset, Slot, Free
  <2>2. Given \in 1 .. NumBlocks
    BY <1>1, <1>2, <1>3, <1>4, <2>1 DEF Arrays
  <2>3. End(Given - 1) \in Nat /\ lpos[w] \in Nat
    BY <1>1, <2>2, Blocks DEF Types
  <2>. QED
    BY <1>3, <1>4, <2>3 DEF Loaded
<1>5. CASE ~ (mpc[1] = "load" /\ (Unset(w) \/ (m_task[w].type = "LOAD_EDGES" /\ pc[w] \in {"waiting", "load"})))
  <2>1. End(Given) \in Nat
    BY <1>3, Blocks
  <2>. QED
    BY <1>3, <1>5, <2>1 DEF Loaded
<1>. QED
  BY <1>4, <1>5

(* The updates of the log. *)
LEMMA LogEntries ==
    ASSUME NEW op \in Ops
    PROVE  Log[op].src \in Nat /\ Log[op].dst \in Nat /\ op \in Nat /\ op >= 1
<1>1. Log \in Seq([src : Nat, dst : Nat, weight : {-1, 0, 1}]) /\ op \in 1 .. Len(Log)
  BY LogAssumption DEF Ops
<1>2. Log[op] \in [src : Nat, dst : Nat, weight : {-1, 0, 1}]
  BY <1>1, ElementOfSeq
<1>. QED
  BY <1>1, <1>2

(* All updates of an edge belong to the same worker. *)
LEMMA SameOwner ==
    ASSUME NEW x \in Ops, NEW y \in Ops, Endpoints(x) = Endpoints(y), NEW w, OwnedBy(x, w)
    PROVE  OwnedBy(y, w)
<1>1. Log[x].src \in Nat /\ Log[x].dst \in Nat /\ Log[y].src \in Nat /\ Log[y].dst \in Nat
  BY LogEntries
<1>2. \/ Log[x].src = Log[y].src /\ Log[x].dst = Log[y].dst
      \/ Log[x].src = Log[y].dst /\ Log[x].dst = Log[y].src
  BY DEF Endpoints
<1>3. Log[x].src + Log[x].dst = Log[y].src + Log[y].dst
  BY <1>1, <1>2
<1>. QED
  BY <1>3 DEF OwnedBy

(* Each update has a worker. *)
LEMMA Owner ==
    ASSUME NEW op \in Ops
    PROVE  \E w \in W : OwnedBy(op, w)
<1>1. Log[op].src + Log[op].dst \in Nat /\ NumThreads \in Nat /\ NumThreads > 0
  BY LogEntries, ParameterAssumption
<1>2. (Log[op].src + Log[op].dst) % NumThreads \in 0 .. NumThreads - 1
  BY <1>1
<1>. QED
  BY <1>2 DEF W, OwnedBy

(* What is in the library after one more update. *)
LEMMA RangeAppended ==
    ASSUME applied \in Seq(Ops), NEW op \in Ops, applied' = Append(applied, op)
    PROVE  /\ applied' \in Seq(Ops) /\ Len(applied') = Len(applied) + 1 /\ applied'[Len(applied) + 1] = op /\ Len(applied) \in Nat
           /\ \A i \in 1 .. Len(applied) : applied'[i] = applied[i]
           /\ \A x : x \in Range(applied)' <=> x \in Range(applied) \/ x = op
           /\ \A x : x \in Range(applied) <=> \E i \in 1 .. Len(applied) : applied[i] = x
<1>1. /\ applied' \in Seq(Ops) /\ Len(applied') = Len(applied) + 1 /\ applied'[Len(applied) + 1] = op /\ Len(applied) \in Nat
      /\ \A i \in 1 .. Len(applied) : applied'[i] = applied[i]
  OBVIOUS
<1>2. \A x : x \in Range(applied) <=> \E i \in 1 .. Len(applied) : applied[i] = x
  BY DEF Range
<1>3. \A x : x \in Range(applied)' <=> \E i \in 1 .. Len(applied') : applied'[i] = x
  BY <1>1 DEF Range
<1>4. \A i : i \in 1 .. Len(applied') <=> i \in 1 .. Len(applied) \/ i = Len(applied) + 1
  BY <1>1
<1>. QED
  BY <1>1, <1>2, <1>3, <1>4

(* The update that a worker is about to apply is the first of those that   *)
(* wait for it, and the previous ones of the worker have been applied.     *)
LEMMA FirstWaiting ==
    ASSUME Handshake, Updates, NEW w \in W, pc[w] = "call"
    PROVE  /\ CurrentOp(w) = m_updates[w][Cur(w)][ex[w].pos + 1] /\ CurrentOp(w) \in Ops /\ OwnedBy(CurrentOp(w), w)
           /\ CurrentOp(w) <= Loaded(w) /\ Cur(w) \in Nat /\ ex[w].pos \in Nat /\ Waits(w, Cur(w), ex[w].pos + 1)
           /\ \A b, p \in Nat : Waits(w, b, p) => (b = Cur(w) /\ p = ex[w].pos + 1) \/ Before(Cur(w), ex[w].pos + 1, b, p)
           /\ \A x \in Ops : OwnedBy(x, w) => (x \in Range(applied) <=> x < CurrentOp(w))
<1> DEFINE op == CurrentOp(w)  c == Cur(w)  q == ex[w].pos + 1
<1>1. UpdateTypes /\ Loops(w) /\ Buffered(w) /\ pc[w] \in Executing /\ ex[w] \in Locals /\ m_updates[w] \in Seq(Seq(Ops))
  BY DEF Updates, Runs, Executing, UpdateTypes
<1>2. ex[w].i <= ex[w].end /\ ex[w].pos < ChunkEnd(w) /\ ex[w].start < Len(Operations(w)) /\ ex[w].pos \in Nat /\ ex[w].start \in Nat
  BY <1>1 DEF Loops, Executing, Locals
<1>3. /\ c \in 1 .. Len(m_updates[w]) /\ Operations(w) = m_updates[w][c]
      /\ Operations(w) \in Seq(Ops) /\ Len(Operations(w)) \in Nat
  BY <1>1, <1>2, CurBuffer
<1>4. ChunkEnd(w) \in Nat /\ ChunkEnd(w) <= Len(Operations(w))
  BY <1>2, <1>3, ChunkBounds
<1>5. q \in 1 .. Len(m_updates[w][c]) /\ q \in Nat /\ c \in Nat
  BY <1>2, <1>3, <1>4
<1>6. op = m_updates[w][c][q] /\ op \in Ops
  BY <1>3, <1>5 DEF CurrentOp
<1>7. In(w, c, q) /\ ~ Executed(w, c, q)
  BY <1>2, <1>3, <1>5 DEF In, Executed
<1>8. Waits(w, c, q)
  BY <1>7 DEF Waits
<1>9. OwnedBy(op, w) /\ op <= Loaded(w)
  BY <1>1, <1>5, <1>6, <1>7 DEF Buffered
<1>10. ASSUME NEW b \in Nat, NEW p \in Nat, Waits(w, b, p) PROVE (b = c /\ p = q) \/ Before(c, q, b, p)
  BY <1>1, <1>2, <1>5, <1>10 DEF Waits, Executed, Before
<1>11. ASSUME NEW x \in Ops, OwnedBy(x, w) PROVE x \in Range(applied) <=> x < op
  <2>1. x \in Nat /\ op \in Nat
    BY <1>6, LogEntries
  <2>2. x \in Range(applied) => x < op
    BY <1>1, <1>5, <1>6, <1>8, <1>11 DEF Buffered
  <2>3. ASSUME x < op PROVE x \in Range(applied)
    <3>1. ASSUME NEW b \in Nat, NEW p \in Nat, Waits(w, b, p) PROVE m_updates[w][b][p] # x
      <4>1. CASE b = c /\ p = q
        BY <1>6, <2>1, <2>3, <4>1
      <4>2. CASE Before(c, q, b, p)
        <5>1. In(w, b, p)
          BY <3>1 DEF Waits
        <5>2. op < m_updates[w][b][p]
          BY <1>1, <1>5, <1>6, <1>7, <4>2, <5>1 DEF Buffered
        <5>. QED
          BY <2>1, <2>3, <5>2
      <4>. QED
        BY <1>10, <3>1, <4>1, <4>2
    <3>2. x <= Loaded(w)
      BY <1>9, <2>1, <2>3, LoadedNat
    <3>. QED
      BY <1>1, <1>11, <3>1, <3>2 DEF Buffered
  <2>. QED
    BY <2>2, <2>3
<1>. QED
  BY <1>2, <1>5, <1>6, <1>8, <1>9, <1>10, <1>11

(* The updates of the same edge that are in the library, at a call. *)
LEMMA CallOrder ==
    ASSUME Handshake, Updates, NEW w \in W, pc[w] = "call", NEW x \in Ops, Endpoints(x) = Endpoints(CurrentOp(w))
    PROVE  x \in Range(applied) <=> x < CurrentOp(w)
<1>1. CurrentOp(w) \in Ops /\ OwnedBy(CurrentOp(w), w) /\ \A y \in Ops : OwnedBy(y, w) => (y \in Range(applied) <=> y < CurrentOp(w))
  BY FirstWaiting
<1>2. OwnedBy(x, w)
  BY <1>1, SameOwner
<1>. QED
  BY <1>1, <1>2

(* One more field of the locals. *)
LEMMA LocalsPos == ASSUME NEW r \in Locals, NEW n \in Nat PROVE [r EXCEPT !.pos = n] \in Locals
  BY DEF Locals

(* CallLibrary, for the worker that calls. *)
LEMMA UpdatesCallLibrary ==
    ASSUME Handshake, Updates, NEW w \in W, CallLibrary(w), Loaded(w)' = Loaded(w)
    PROVE  Loops(w)' /\ (Runs(w)' => Buffered(w)') /\ applied' \in Seq(Ops) /\ ex' \in [W -> Locals]
<1> DEFINE op == CurrentOp(w)  c == Cur(w)  q == ex[w].pos + 1
<1>1. /\ pc[w] = "call" /\ applied' = Append(applied, op) /\ UNCHANGED <<m_updates, m_stop_experiment>>
      /\ ex' = [ex EXCEPT ![w].pos = @ + 1] /\ pc' = [pc EXCEPT ![w] = "check"]
  BY DEF CallLibrary
<1>2. /\ UpdateTypes /\ Loops(w) /\ Buffered(w) /\ ex[w] \in Locals /\ ex \in [W -> Locals] /\ applied \in Seq(Ops)
      /\ pc'[w] = "check" /\ m_updates[w] \in Seq(Seq(Ops))
  BY <1>1 DEF Handshake, Types, Updates, UpdateTypes, Runs
<1>3. /\ op = m_updates[w][c][q] /\ op \in Ops /\ OwnedBy(op, w) /\ op <= Loaded(w) /\ c \in Nat /\ q \in Nat
      /\ Waits(w, c, q) /\ ex[w].pos \in Nat
      /\ \A b, p \in Nat : Waits(w, b, p) => (b = c /\ p = q) \/ Before(c, q, b, p)
      /\ \A x \in Ops : OwnedBy(x, w) => (x \in Range(applied) <=> x < op)
  BY <1>1, FirstWaiting
<1>4. applied' \in Seq(Ops) /\ \A x : x \in Range(applied)' <=> x \in Range(applied) \/ x = op
  BY <1>1, <1>2, <1>3, RangeAppended
<1>5. /\ ex' \in [W -> Locals] /\ ex'[w].i = ex[w].i /\ ex'[w].end = ex[w].end /\ ex'[w].start = ex[w].start /\ ex'[w].pos = q
  <2>1. ex' = [ex EXCEPT ![w] = [ex[w] EXCEPT !.pos = q]]
    BY <1>1
  <2>2. [ex[w] EXCEPT !.pos = q] \in Locals
    BY <1>2, <1>3, LocalsPos
  <2>3. ex' \in [W -> Locals] /\ ex'[w] = [ex[w] EXCEPT !.pos = q]
    BY <1>2, <2>1, <2>2
  <2>. QED
    BY <1>2, <2>3 DEF Locals
<1>6. Operations(w)' = Operations(w) /\ ChunkEnd(w)' = ChunkEnd(w) /\ c' = c
  BY <1>1, <1>5 DEF Operations, ChunkEnd, Cur
<1>7. Loops(w)'
  <2>1. ChunkEnd(w) \in Nat
    <3>1. ex[w].start \in Nat /\ ex[w].i <= ex[w].end
      BY <1>1, <1>2 DEF Loops, Executing, Locals
    <3>. QED
      BY <1>1, <1>2, <3>1, CurBuffer, ChunkBounds DEF Executing
  <2>2. ex[w].start \in Nat /\ ex[w].start <= ex[w].pos /\ ex[w].pos < ChunkEnd(w)
    BY <1>1, <1>2 DEF Loops, Executing, Locals
  <2>3. ex[w].start <= ex[w].pos + 1 /\ ex[w].pos + 1 <= ChunkEnd(w)
    BY <1>3, <2>1, <2>2
  <2>. QED
    BY <1>1, <1>2, <1>5, <1>6, <2>1, <2>2, <2>3 DEF Loops, Executing
<1> HIDE DEF op, c, q
<1>8. \A b, p \in Nat : In(w, b, p)' <=> In(w, b, p)
  BY <1>1 DEF In
<1>9. \A b, p \in Nat : Waits(w, b, p)' <=> Waits(w, b, p) /\ ~ (b = c /\ p = q)
  BY <1>1, <1>2, <1>3, <1>5, <1>6, <1>8 DEF Waits, Executed, Executing, c, q
<1>10. \A b, p \in Nat : Waits(w, b, p)' => op < m_updates[w][b][p]
  <2>1. ASSUME NEW b \in Nat, NEW p \in Nat, Waits(w, b, p)' PROVE op < m_updates[w][b][p]
    <3>1. Before(c, q, b, p) /\ In(w, b, p) /\ In(w, c, q)
      BY <1>3, <1>9, <2>1 DEF Waits
    <3>. QED
      BY <1>2, <1>3, <3>1 DEF Buffered
  <2>. QED
    BY <2>1
<1>11. ASSUME NEW x \in Ops, OwnedBy(x, w)
       PROVE  x \in Range(applied)' <=> x <= Loaded(w)' /\ \A b, p \in Nat : Waits(w, b, p)' => m_updates'[w][b][p] # x
  <2>1. x \in Nat /\ op \in Nat /\ Loaded(w) \in Nat
    BY <1>3, LogEntries, LoadedNat
  <2>2. CASE x = op
    <3>1. \A b, p \in Nat : Waits(w, b, p)' => m_updates'[w][b][p] # x
      BY <1>1, <1>10, <2>1, <2>2
    <3>. QED
      BY <1>3, <1>4, <2>2, <3>1
  <2>3. CASE x # op
    <3>1. x \in Range(applied)' <=> x \in Range(applied)
      BY <1>4, <2>3
    <3>2. (\A b, p \in Nat : Waits(w, b, p)' => m_updates'[w][b][p] # x) <=> (\A b, p \in Nat : Waits(w, b, p) => m_updates[w][b][p] # x)
      BY <1>1, <1>3, <1>9, <2>3
    <3>. QED
      BY <1>2, <1>11, <3>1, <3>2 DEF Buffered
  <2>. QED
    BY <2>2, <2>3
<1>12. \A x \in Ops, b, p \in Nat : OwnedBy(x, w) /\ x \in Range(applied)' /\ Waits(w, b, p)' => x < m_updates'[w][b][p]
  BY <1>1, <1>2, <1>4, <1>9, <1>10 DEF Buffered
<1>13. Buffered(w)'
  <2>1. \A b, d, p, r \in Nat : In(w, b, p)' /\ In(w, d, r)' /\ Before(b, p, d, r) => m_updates'[w][b][p] < m_updates'[w][d][r]
    BY <1>1, <1>2, <1>8 DEF Buffered
  <2>2. \A b, p \in Nat : In(w, b, p)' => OwnedBy(m_updates'[w][b][p], w) /\ m_updates'[w][b][p] <= Loaded(w)'
    BY <1>1, <1>2, <1>8 DEF Buffered
  <2>. QED
    BY <1>11, <1>12, <2>1, <2>2 DEF Buffered, Before, OwnedBy
<1>. QED
  BY <1>4, <1>5, <1>7, <1>13

(* What a step of the worker w leaves to the others. *)
LEMMA OtherWorkers ==
    ASSUME Types, UpdateTypes, NEW w \in W, WorkerStep(w) \/ SpuriousWakeup(w), NEW u \in W, u # w
    PROVE  /\ m_updates'[u] = m_updates[u] /\ ex'[u] = ex[u] /\ pc'[u] = pc[u] /\ m_task'[u] = m_task[u]
           /\ task'[u] = task[u] /\ lpos'[u] = lpos[u]
<1>1. DOMAIN m_updates = W /\ DOMAIN ex = W /\ DOMAIN pc = W /\ DOMAIN m_task = W /\ DOMAIN task = W /\ DOMAIN lpos = W
  BY DEF Types, UpdateTypes
<1>2. pc'[u] = pc[u] /\ m_task'[u] = m_task[u]
  BY <1>1 DEF WorkerStep, SpuriousWakeup, FetchTask, WakeUp, LoadEdges, LoopDone, NextChunk, CheckStop, CallLibrary,
              CountChunk, ReportTime, StoreTime, RemoveVertex, Exit, syncVars, localVars
<1>3. m_updates'[u] = m_updates[u]
  BY <1>1 DEF WorkerStep, SpuriousWakeup, FetchTask, WakeUp, LoadEdges, LoopDone, NextChunk, CheckStop, CallLibrary,
              CountChunk, ReportTime, StoreTime, RemoveVertex, Exit, localVars
<1>4. ex'[u] = ex[u]
  BY <1>1 DEF WorkerStep, SpuriousWakeup, FetchTask, WakeUp, LoadEdges, LoopDone, NextChunk, CheckStop, CallLibrary,
              CountChunk, ReportTime, StoreTime, RemoveVertex, Exit, localVars
<1>5. task'[u] = task[u] /\ lpos'[u] = lpos[u]
  BY <1>1 DEF WorkerStep, SpuriousWakeup, FetchTask, WakeUp, LoadEdges, LoopDone, NextChunk, CheckStop, CallLibrary,
              CountChunk, ReportTime, StoreTime, RemoveVertex, Exit, localVars
<1>. QED
  BY <1>2, <1>3, <1>4, <1>5

(* What the workers leave alone but for the updates of a call. *)
LEMMA WorkerLeaves ==
    ASSUME NEW w \in W, WorkerStep(w) \/ SpuriousWakeup(w)
    PROVE  /\ UNCHANGED m_stop_experiment
           /\ UNCHANGED applied \/ CallLibrary(w)
           /\ UNCHANGED m_num_operations_performed \/ CountChunk(w)
           /\ UNCHANGED m_last_time_reported \/ ReportTime(w)
           /\ UNCHANGED edges \/ CallLibrary(w) \/ RemoveVertex(w)
  BY DEF WorkerStep, SpuriousWakeup, FetchTask, WakeUp, LoadEdges, LoopDone, NextChunk, CheckStop, CallLibrary,
         CountChunk, ReportTime, StoreTime, RemoveVertex, Exit, libraryVars, reportVars

(* A call leaves the updates of the other workers alone. *)
LEMMA UpdatesOtherCalls ==
    ASSUME Handshake, Updates, NEW w \in W, CallLibrary(w), NEW u \in W, u # w, Loaded(u)' = Loaded(u)
    PROVE  Loops(u)' /\ (Runs(u)' => Buffered(u)')
<1> DEFINE op == CurrentOp(w)
<1>1. /\ pc[w] = "call" /\ applied' = Append(applied, op) /\ UNCHANGED <<m_updates, m_stop_experiment>>
      /\ applied \in Seq(Ops) /\ Loops(u) /\ (Runs(u) => Buffered(u))
  BY DEF CallLibrary, Updates, UpdateTypes
<1>2. op \in Ops /\ OwnedBy(op, w)
  BY <1>1, FirstWaiting
<1>3. ex'[u] = ex[u] /\ pc'[u] = pc[u]
  BY OtherWorkers DEF WorkerStep, Handshake, Updates
<1>4. \A x : x \in Range(applied)' <=> x \in Range(applied) \/ x = op
  BY <1>1, <1>2, RangeAppended
<1>5. ~ OwnedBy(op, u)
  BY <1>2 DEF OwnedBy
<1>6. \A x \in Ops : OwnedBy(x, u) => (x \in Range(applied)' <=> x \in Range(applied))
  BY <1>4, <1>5
<1>7. \A b, p \in Nat : Waits(u, b, p)' <=> Waits(u, b, p)
  BY <1>1, <1>3 DEF Waits, In, Executed, Cur
<1>8. Loops(u)' /\ (Runs(u)' => Runs(u))
  BY <1>1, <1>3 DEF Loops, Operations, ChunkEnd, Runs
<1>. QED
  BY <1>1, <1>6, <1>7, <1>8, BufferedKept

(* The steps of the workers keep the updates in order. *)
LEMMA UpdatesWorker ==
    ASSUME Handshake, Updates, NEW w \in W, WorkerStep(w) \/ SpuriousWakeup(w), UNCHANGED masterVars
    PROVE  Updates'
<1>1. Types /\ pc \in [W -> Labels] /\ UpdateTypes /\ \A u \in W : Loops(u) /\ (Runs(u) => Buffered(u))
  BY DEF Handshake, Types, Updates
<1>2. \A u \in W : u # w \/ ~ LoadEdges(w) => Loaded(u)' = Loaded(u)
  BY LoadedWorker
<1>3. ASSUME NEW u \in W, u # w PROVE Loops(u)' /\ (Runs(u)' => Buffered(u)')
  <2>1. m_updates'[u] = m_updates[u] /\ ex'[u] = ex[u] /\ pc'[u] = pc[u] /\ Loaded(u)' = Loaded(u)
    BY <1>1, <1>2, <1>3, OtherWorkers
  <2>2. CASE CallLibrary(w)
    BY <1>3, <2>1, <2>2, UpdatesOtherCalls
  <2>3. CASE ~ CallLibrary(w)
    <3>1. UNCHANGED <<applied, m_stop_experiment>>
      BY <2>3, WorkerLeaves
    <3>. QED
      BY <1>1, <2>1, <3>1, UpdatesElsewhere
  <2>. QED
    BY <2>2, <2>3
<1>4. CASE LoadEdges(w)
  <2>1. Loops(w)' /\ (Runs(w)' => Buffered(w)') /\ m_updates' \in [W -> Seq(Seq(Ops))]
    BY <1>4, UpdatesLoadEdges
  <2>2. UNCHANGED <<applied, ex, m_num_operations_performed, m_last_time_reported>>
    BY <1>4 DEF LoadEdges, libraryVars, reportVars
  <2>. QED
    BY <1>1, <1>3, <2>1, <2>2 DEF Updates, UpdateTypes
<1>5. CASE CallLibrary(w)
  <2>1. Loops(w)' /\ (Runs(w)' => Buffered(w)') /\ applied' \in Seq(Ops) /\ ex' \in [W -> Locals]
    BY <1>2, <1>5, UpdatesCallLibrary DEF CallLibrary, LoadEdges
  <2>2. UNCHANGED <<m_updates, m_num_operations_performed, m_last_time_reported>>
    BY <1>5 DEF CallLibrary, reportVars
  <2>. QED
    BY <1>1, <1>3, <2>1, <2>2 DEF Updates, UpdateTypes
<1>6. CASE NextChunk(w)
  <2>1. Loops(w)' /\ (Runs(w)' => Buffered(w)') /\ ex' \in [W -> Locals] /\ m_updates' \in [W -> Seq(Seq(Ops))]
    BY <1>1, <1>2, <1>6, UpdatesNextChunk DEF NextChunk, LoadEdges
  <2>2. UNCHANGED <<applied, m_num_operations_performed, m_last_time_reported>>
    BY <1>6 DEF NextChunk, reportVars, libraryVars
  <2>. QED
    BY <1>1, <1>3, <2>1, <2>2 DEF Updates, UpdateTypes
<1>7. CASE CheckStop(w)
  <2>1. Loops(w)' /\ (Runs(w)' => Buffered(w)')
    BY <1>1, <1>2, <1>7, UpdatesCheckStop DEF CheckStop, LoadEdges
  <2>2. UNCHANGED <<applied, m_updates, ex, m_num_operations_performed, m_last_time_reported>>
    BY <1>7 DEF CheckStop, reportVars, libraryVars, localVars
  <2>. QED
    BY <1>1, <1>3, <2>1, <2>2 DEF Updates, UpdateTypes
<1>8. CASE CountChunk(w) \/ ReportTime(w) \/ StoreTime(w)
  <2>1. /\ Loops(w)' /\ (Runs(w)' => Buffered(w)')
        /\ ex' \in [W -> Locals] /\ m_num_operations_performed' \in Nat /\ m_last_time_reported' \in Nat
    BY <1>1, <1>2, <1>8, UpdatesCountChunk DEF CountChunk, ReportTime, StoreTime, LoadEdges
  <2>2. UNCHANGED <<applied, m_updates>>
    BY <1>8 DEF CountChunk, ReportTime, StoreTime, libraryVars
  <2>. QED
    BY <1>1, <1>3, <2>1, <2>2 DEF Updates, UpdateTypes
<1>9. CASE WakeUp(w) /\ ~ IsIdle(w)
  <2>1. Loops(w)' /\ (Runs(w)' => Buffered(w)') /\ ex' \in [W -> Locals] /\ m_updates' \in [W -> Seq(Seq(Ops))]
    BY <1>2, <1>9, UpdatesWakeUp DEF WakeUp, LoadEdges
  <2>2. UNCHANGED <<applied, m_num_operations_performed, m_last_time_reported>>
    BY <1>9 DEF WakeUp, reportVars, libraryVars
  <2>. QED
    BY <1>1, <1>3, <2>1, <2>2 DEF Updates, UpdateTypes
<1>10. CASE (WakeUp(w) /\ IsIdle(w)) \/ FetchTask(w) \/ LoopDone(w) \/ RemoveVertex(w) \/ Exit(w) \/ SpuriousWakeup(w)
  <2>1. UNCHANGED <<applied, m_updates, ex, m_num_operations_performed, m_last_time_reported, m_stop_experiment>>
    BY <1>10 DEF WakeUp, IsIdle, FetchTask, LoopDone, RemoveVertex, Exit, SpuriousWakeup, reportVars, libraryVars, localVars
  <2>2. pc'[w] = pc[w] \/ (pc[w] \notin Executing /\ pc'[w] \notin Executing \cup {"load"})
    BY <1>1, <1>10 DEF WakeUp, IsIdle, FetchTask, LoopDone, RemoveVertex, Exit, SpuriousWakeup, Executing
  <2>3. ~ LoadEdges(w)
    <3>1. CASE SpuriousWakeup(w) \/ Exit(w) \/ FetchTask(w) \/ LoopDone(w)
      <4>1. lpos'[w] = lpos[w] /\ lpos[w] \in Nat
        BY <1>1, <3>1 DEF SpuriousWakeup, Exit, FetchTask, LoopDone, localVars, Types
      <4>2. LoadEdges(w) => lpos'[w] = lpos[w] + 1
        BY <1>1 DEF LoadEdges, Types
      <4>. QED
        BY <4>1, <4>2
    <3>2. CASE WakeUp(w) \/ RemoveVertex(w)
      BY <3>2 DEF WakeUp, RemoveVertex, LoadEdges
    <3>. QED
      BY <1>10, <3>1, <3>2
  <2>4. Loops(w)' /\ (Runs(w)' => Buffered(w)')
    BY <1>1, <1>2, <2>1, <2>2, <2>3, UpdatesElsewhere
  <2>. QED
    BY <1>1, <1>3, <2>1, <2>4 DEF Updates, UpdateTypes
<1>. QED
  BY <1>4, <1>5, <1>6, <1>7, <1>8, <1>9, <1>10 DEF WorkerStep

(* So do the steps of the master. *)
LEMMA UpdatesMaster ==
    ASSUME Handshake, Updates, MasterStep
    PROVE  Updates'
<1>1. /\ UNCHANGED <<m_updates, applied, ex>> /\ (m_stop_experiment => m_stop_experiment')
      /\ UNCHANGED pc \/ (mpc = <<"ctor", "spawn">> /\ pc' = [pc EXCEPT ![mi] = "fetch"])
  BY MasterLeaves
<1>2. UNCHANGED m_num_operations_performed /\ (UNCHANGED m_last_time_reported \/ m_last_time_reported' = 0)
  BY DEF MasterStep, Spawn, WaitWorker, LoadFirst, LoadNext, SetTask, NotifyWorker, SwapArrays, PrepareLatencies, StartRun, SetRunning,
         RecordIdle, RecordTick, DrainIdle, DrainExpired, EndRun, StoreResults, SetStop, NotifyStop, Join, workerVars, workersLocal, reportVars
<1>3. ASSUME NEW u \in W PROVE Loops(u)' /\ (Runs(u)' => Buffered(u)')
  <2>1. Loops(u) /\ (Runs(u) => Buffered(u)) /\ Place(u) /\ Types
    BY DEF Updates, Handshake
  <2>2. pc'[u] = pc[u] \/ (pc[u] \in {"none", "waiting", "exited"} /\ pc'[u] = "fetch")
    <3>1. CASE UNCHANGED pc
      BY <3>1
    <3>2. CASE mpc = <<"ctor", "spawn">> /\ pc' = [pc EXCEPT ![mi] = "fetch"]
      <4>1. CASE u = mi
        <5>1. pc'[u] = "fetch"
          BY <2>1, <3>2, <4>1 DEF Types
        <5>2. IsIdle(u)
          BY <2>1, <3>2 DEF Handshake, Slot, Free
        <5>3. pc[u] \in {"none", "waiting", "exited"}
          BY <2>1, <5>2 DEF Place
        <5>. QED
          BY <5>1, <5>3
      <4>2. CASE u # mi
        BY <2>1, <3>2, <4>2 DEF Types
      <4>. QED
        BY <4>1, <4>2
    <3>. QED
      BY <1>1, <3>1, <3>2
  <2>3. Runs(u)' => Runs(u)
    BY <1>1, <2>2 DEF Runs
  <2>4. \A b, p \in Nat : Waits(u, b, p)' <=> Waits(u, b, p)
    BY <1>1, <2>2 DEF Waits, In, Executed, Cur, Executing
  <2>5. Loops(u)'
    BY <1>1, <2>1, <2>2 DEF Loops, Operations, ChunkEnd, Executing
  <2>6. Runs(u)' => Loaded(u)' = Loaded(u)
    BY LoadedMaster
  <2>. QED
    BY <1>1, <2>1, <2>3, <2>4, <2>5, <2>6, BufferedKept
<1>. QED
  BY <1>1, <1>2, <1>3 DEF Updates, UpdateTypes

(* At the start there is nothing in the buffers. *)
LEMMA UpdatesInit == ASSUME Init PROVE Updates
<1>1. /\ m_updates = [w \in W |-> <<>>] /\ applied = <<>> /\ pc = [w \in W |-> "none"]
      /\ ex = [w \in W |-> [i |-> 1, end |-> 0, start |-> 0, pos |-> 0, coeff |-> 0, last |-> 0]]
      /\ m_num_operations_performed = 0 /\ m_last_time_reported = 0
      /\ mpc = <<"ctor", "spawn">> /\ num_edges = 0 /\ next_block = 1
  BY DEF Init, WorkerInit
<1>2. [i |-> 1, end |-> 0, start |-> 0, pos |-> 0, coeff |-> 0, last |-> 0] \in Locals
  BY DEF Locals
<1>3. UpdateTypes
  <2>1. ex \in [W -> Locals]
    BY <1>1, <1>2
  <2>2. m_updates \in [W -> Seq(Seq(Ops))] /\ applied \in Seq(Ops)
    BY <1>1
  <2>. QED
    BY <1>1, <2>1, <2>2 DEF UpdateTypes
<1>4. ASSUME NEW w \in W PROVE Loops(w) /\ Buffered(w)
  <2>1. m_updates[w] = <<>> /\ pc[w] = "none" /\ Range(applied) = {}
    BY <1>1 DEF Range
  <2>2. \A b, p \in Nat : ~ In(w, b, p) /\ ~ Waits(w, b, p)
    BY <2>1 DEF In, Waits
  <2>3. Given = 0
    BY <1>1 DEF Given
  <2>4. Loaded(w) = 0
    BY <1>1, <2>3 DEF Loaded, End
  <2>5. \A op \in Ops : ~ (op <= 0)
    BY LogEntries
  <2>6. Loops(w)
    BY <2>1 DEF Loops, Executing
  <2>. QED
    BY <2>1, <2>2, <2>4, <2>5, <2>6 DEF Buffered
<1>. QED
  BY <1>3, <1>4 DEF Updates

(* The rest of the steps changes nothing of this. *)
LEMMA UpdatesStutters ==
    ASSUME Updates, UNCHANGED <<mpc, mi, num_edges, next_block, m_task, pc, lpos, m_updates, ex, applied, m_stop_experiment,
                                m_num_operations_performed, m_last_time_reported>>
    PROVE  Updates'
<1>1. ASSUME NEW u \in W PROVE Loops(u)' /\ (Runs(u)' => Buffered(u)')
  <2>1. Given' = Given /\ Unset(u)' = Unset(u)
    BY DEF Given, Unset
  <2>2. Loaded(u)' = Loaded(u)
    BY <2>1 DEF Loaded, End
  <2>. QED
    BY <2>2, UpdatesElsewhere DEF Updates
<1>. QED
  BY <1>1 DEF Updates, UpdateTypes

(* Every step keeps the updates in order. *)
LEMMA UpdatesNext ==
    ASSUME Handshake, Updates, [Next]_vars
    PROVE  Updates'
<1>1. CASE MasterStep
  BY <1>1, UpdatesMaster
<1>2. CASE MasterSpuriousWakeup
  BY <1>2, UpdatesStutters DEF MasterSpuriousWakeup, workersLocal, localVars, libraryVars, masterVars, loaderVars
<1>3. ASSUME NEW w \in W, WorkerStep(w) \/ SpuriousWakeup(w), UNCHANGED masterVars PROVE Updates'
  BY <1>3, UpdatesWorker
<1>4. CASE UNCHANGED vars
  BY <1>4, UpdatesStutters DEF vars, workerVars, syncVars, localVars, reportVars, libraryVars, masterVars, loaderVars
<1>. QED
  BY <1>1, <1>2, <1>3, <1>4 DEF Next, Finished

-----------------------------------------------------------------------------
(* The reports *)

(* The step of a worker that neither wins a report nor records one. *)
LEMMA ReportingElsewhere ==
    ASSUME Handshake, Updates, Reporting, NEW w \in W, WorkerStep(w) \/ SpuriousWakeup(w),
           pc[w] # "store", pc'[w] # "store", UNCHANGED <<m_last_time_reported, m_reported_times>>,
           DOMAIN ex' = W, pc'[w] = "cas" => ex'[w].coeff > ex'[w].last
    PROVE  Reporting'
<1>1. \A u \in W : u # w => ex'[u] = ex[u] /\ pc'[u] = pc[u]
  BY OtherWorkers DEF Handshake, Updates
<1>2. \A u \in W : pc'[u] = "store" => pc[u] = "store" /\ ex'[u] = ex[u] /\ u # w
  BY <1>1
<1>3. \A u \in W : AboutToRecord(u, m_last_time_reported) => AboutToRecord(u, m_last_time_reported)'
  BY <1>1 DEF AboutToRecord
<1>4. \A u, v \in W : pc'[u] = "store" /\ pc'[v] = "store" /\ ex'[u].coeff = ex'[v].coeff => u = v
  BY <1>2 DEF Reporting
<1>5. \A u \in W : pc'[u] = "cas" => ex'[u].coeff > ex'[u].last
  BY <1>1 DEF Reporting
<1>6. \A u \in W : pc'[u] = "store" => 0 < ex'[u].coeff /\ ex'[u].coeff <= m_last_time_reported'
  BY <1>2 DEF Reporting
<1>7. m_last_time_reported' \in 1 .. ReportedTimesSz =>
          m_reported_times'[m_last_time_reported'] # NotReported \/ \E u \in W : AboutToRecord(u, m_last_time_reported)'
  BY <1>3 DEF Reporting
<1>8. DOMAIN ex' = W /\ DOMAIN m_reported_times' = 1 .. ReportedTimesSz
  BY DEF Reporting
<1>. QED
  BY <1>4, <1>5, <1>6, <1>7, <1>8 DEF Reporting

(* The worker wins a report: nobody is about to record the same entry, as  *)
(* m_last_time_reported has never been that far in this run.               *)
LEMMA ReportingWon ==
    ASSUME Handshake, Updates, Reporting, NEW w \in W, ReportTime(w), m_last_time_reported = ex[w].last
    PROVE  Reporting'
<1>1. /\ pc[w] = "cas" /\ pc' = [pc EXCEPT ![w] = "store"] /\ m_last_time_reported' = ex[w].coeff
      /\ UNCHANGED <<ex, m_reported_times>>
  BY DEF ReportTime
<1>2. pc \in [W -> Labels] /\ ex \in [W -> Locals] /\ m_last_time_reported \in Nat
  BY DEF Handshake, Types, Updates, UpdateTypes
<1>3. \A u \in W : ex[u].coeff \in Nat
  BY <1>2 DEF Locals
<1>4. m_last_time_reported < ex[w].coeff
  BY <1>1, <1>2, <1>3 DEF Reporting
<1>5. pc'[w] = "store" /\ \A u \in W : u # w => pc'[u] = pc[u]
  BY <1>1, <1>2
<1>6. \A u \in W : u # w /\ pc'[u] = "store" => 0 < ex[u].coeff /\ ex[u].coeff <= m_last_time_reported
  BY <1>5 DEF Reporting
<1>7. \A u \in W : pc'[u] = "store" => 0 < ex'[u].coeff /\ ex'[u].coeff <= m_last_time_reported'
  BY <1>1, <1>2, <1>3, <1>4, <1>6
<1>8. \A u, v \in W : pc'[u] = "store" /\ pc'[v] = "store" /\ ex'[u].coeff = ex'[v].coeff => u = v
  <2>1. \A u, v \in W : u # w /\ v # w /\ pc'[u] = "store" /\ pc'[v] = "store" /\ ex'[u].coeff = ex'[v].coeff => u = v
    BY <1>1, <1>5 DEF Reporting
  <2>2. \A u \in W : u # w /\ pc'[u] = "store" => ex'[u].coeff # ex'[w].coeff
    BY <1>1, <1>2, <1>3, <1>4, <1>6
  <2>. QED
    BY <2>1, <2>2
<1>9. \A u \in W : pc'[u] = "cas" => ex'[u].coeff > ex'[u].last
  BY <1>1, <1>5 DEF Reporting
<1>10. AboutToRecord(w, m_last_time_reported)'
  BY <1>1, <1>5 DEF AboutToRecord
<1>. QED
  BY <1>1, <1>7, <1>8, <1>9, <1>10 DEF Reporting

(* The winner records the time. *)
LEMMA ReportingStored ==
    ASSUME Handshake, Updates, Reporting, NEW w \in W, StoreTime(w)
    PROVE  Reporting'
<1>1. /\ pc[w] = "store" /\ pc' = [pc EXCEPT ![w] = "buffer"] /\ ex' = [ex EXCEPT ![w] = NextStart(w)]
      /\ m_reported_times' = [m_reported_times EXCEPT ![ex[w].coeff] = Len(applied)] /\ UNCHANGED m_last_time_reported
  BY DEF StoreTime
<1>2. pc \in [W -> Labels] /\ ex \in [W -> Locals] /\ Len(applied) \in Nat
  BY DEF Handshake, Types, Updates, UpdateTypes
<1>3. pc'[w] = "buffer" /\ DOMAIN ex' = W /\ DOMAIN m_reported_times' = 1 .. ReportedTimesSz
      /\ \A u \in W : u # w => pc'[u] = pc[u] /\ ex'[u] = ex[u]
  BY <1>1, <1>2 DEF Reporting
<1>4. Len(applied) # NotReported
  BY <1>2 DEF NotReported
<1>5. ASSUME m_last_time_reported \in 1 .. ReportedTimesSz
      PROVE  m_reported_times'[m_last_time_reported] # NotReported \/ \E u \in W : AboutToRecord(u, m_last_time_reported)'
  <2>1. CASE ex[w].coeff = m_last_time_reported
    <3>1. m_reported_times'[m_last_time_reported] = Len(applied)
      BY <1>1, <1>5, <2>1 DEF Reporting
    <3>. QED
      BY <1>4, <3>1
  <2>2. CASE ex[w].coeff # m_last_time_reported
    <3>1. m_reported_times'[m_last_time_reported] = m_reported_times[m_last_time_reported]
      BY <1>1, <1>5, <2>2 DEF Reporting
    <3>2. \A u \in W : AboutToRecord(u, m_last_time_reported) => u # w /\ AboutToRecord(u, m_last_time_reported)'
      BY <1>1, <1>3, <2>2 DEF AboutToRecord
    <3>. QED
      BY <1>5, <3>1, <3>2 DEF Reporting
  <2>. QED
    BY <2>1, <2>2
<1>6. \A u \in W : pc'[u] = "store" => u # w /\ pc[u] = "store" /\ ex'[u] = ex[u]
  BY <1>3
<1>7. \A u, v \in W : pc'[u] = "store" /\ pc'[v] = "store" /\ ex'[u].coeff = ex'[v].coeff => u = v
  BY <1>6 DEF Reporting
<1>8. \A u \in W : pc'[u] = "store" => 0 < ex'[u].coeff /\ ex'[u].coeff <= m_last_time_reported'
  BY <1>1, <1>6 DEF Reporting
<1>9. \A u \in W : pc'[u] = "cas" => ex'[u].coeff > ex'[u].last
  BY <1>3 DEF Reporting
<1>10. m_last_time_reported' \in 1 .. ReportedTimesSz =>
          m_reported_times'[m_last_time_reported'] # NotReported \/ \E u \in W : AboutToRecord(u, m_last_time_reported)'
  BY <1>1, <1>5
<1>. QED
  BY <1>3, <1>7, <1>8, <1>9, <1>10 DEF Reporting

(* A worker that reports goes beyond the last report that it knows of. *)
LEMMA ReportingWorker ==
    ASSUME Handshake, Updates, Reporting, NEW w \in W, WorkerStep(w) \/ SpuriousWakeup(w)
    PROVE  Reporting'
<1>1. Types /\ pc \in [W -> Labels] /\ ex \in [W -> Locals] /\ Slot(w)
  BY DEF Handshake, Types, Updates, UpdateTypes
<1>2. CASE ReportTime(w) /\ m_last_time_reported = ex[w].last
  BY <1>2, ReportingWon
<1>3. CASE StoreTime(w)
  BY <1>3, ReportingStored
<1>4. CASE ReportTime(w) /\ m_last_time_reported # ex[w].last
  <2>1. /\ pc[w] = "cas" /\ pc' = [pc EXCEPT ![w] = "buffer"] /\ DOMAIN ex' = DOMAIN ex
        /\ UNCHANGED <<m_last_time_reported, m_reported_times>>
    BY <1>4 DEF ReportTime
  <2>2. pc'[w] = "buffer" /\ DOMAIN ex' = W
    BY <1>1, <2>1
  <2>. QED
    BY <1>4, <2>1, <2>2, ReportingElsewhere DEF WorkerStep
<1>5. CASE ~ ReportTime(w) /\ ~ StoreTime(w)
  <2>1. UNCHANGED <<m_last_time_reported, m_reported_times>>
    BY <1>5 DEF WorkerStep, SpuriousWakeup, FetchTask, WakeUp, LoadEdges, LoopDone, NextChunk, CheckStop, CallLibrary,
                CountChunk, RemoveVertex, Exit, reportVars
  <2>2. DOMAIN ex' = W
    BY <1>1, <1>5 DEF WorkerStep, SpuriousWakeup, FetchTask, WakeUp, LoadEdges, LoopDone, NextChunk, CheckStop, CallLibrary,
                CountChunk, RemoveVertex, Exit, localVars
  <2>3. CASE CountChunk(w)
    <3> DEFINE coeff == AgingCoeff(m_num_operations_performed)
    <3>1. /\ ex' = [ex EXCEPT ![w] = IF coeff > ex[w].last THEN [@ EXCEPT !.coeff = coeff] ELSE NextStart(w)]
          /\ pc' = [pc EXCEPT ![w] = IF coeff > ex[w].last THEN "cas" ELSE "buffer"] /\ pc[w] = "count"
      BY <2>3 DEF CountChunk
    <3> HIDE DEF coeff
    <3>2. pc'[w] \in {"cas", "buffer"} /\ (pc'[w] = "cas" => coeff > ex[w].last)
      BY <1>1, <3>1
    <3>3. pc'[w] = "cas" => ex'[w] = [ex[w] EXCEPT !.coeff = coeff]
      BY <1>1, <3>1, <3>2
    <3>4. pc'[w] = "cas" => ex'[w].coeff > ex'[w].last
      BY <1>1, <3>2, <3>3 DEF Locals
    <3>. QED
      BY <2>1, <2>2, <2>3, <3>1, <3>2, <3>4, ReportingElsewhere DEF WorkerStep
  <2>4. CASE SpuriousWakeup(w)
    BY <2>1, <2>4 DEF SpuriousWakeup, localVars, Reporting, AboutToRecord
  <2>5. CASE WorkerStep(w) /\ ~ CountChunk(w)
    <3>1. pc'[w] \notin {"cas", "store"} /\ pc[w] # "store"
      <4>1. CASE WakeUp(w)
        BY <1>1, <4>1, WakesElsewhere DEF WakeUp
      <4>2. CASE ~ WakeUp(w)
        BY <1>1, <1>5, <2>5, <4>2 DEF WorkerStep, FetchTask, LoadEdges, LoopDone, NextChunk, CheckStop, CallLibrary, RemoveVertex, Exit
      <4>. QED
        BY <4>1, <4>2
    <3>. QED
      BY <2>1, <2>2, <2>5, <3>1, ReportingElsewhere
  <2>. QED
    BY <2>3, <2>4, <2>5
<1>. QED
  BY <1>2, <1>3, <1>4, <1>5

(* No worker executes its updates when a run starts and the last report is *)
(* forgotten: a worker that has outlived a drain would have been refused   *)
(* the block that it loads before the run.                                 *)
LEMMA ReportingMaster ==
    ASSUME Handshake, Reporting, MasterStep
    PROVE  Reporting'
<1>1. UNCHANGED <<ex, m_reported_times>>
  BY DEF MasterStep, Spawn, WaitWorker, LoadFirst, LoadNext, SetTask, NotifyWorker, SwapArrays, PrepareLatencies, StartRun, SetRunning,
         RecordIdle, RecordTick, DrainIdle, DrainExpired, EndRun, StoreResults, SetStop, NotifyStop, Join, workerVars, workersLocal, localVars, reportVars
<1>2. UNCHANGED pc \/ (mpc = <<"ctor", "spawn">> /\ pc' = [pc EXCEPT ![mi] = "fetch"])
  BY MasterLeaves
<1>3. \A u \in W : pc'[u] \in {"cas", "store"} => pc'[u] = pc[u]
  BY <1>2 DEF Handshake, Types
<1>4. CASE StartRun
  <2>1. At("run", "start") /\ m_last_time_reported' = 0 /\ UNCHANGED pc
    BY <1>4 DEF StartRun
  <2>2. ASSUME NEW u \in W PROVE pc[u] # "store"
    <3>1. Slot(u) /\ Place(u) /\ mpc = <<"run", "start">>
      BY <2>1 DEF Handshake, At
    <3>2. m_task[u].type \notin {"EXECUTE_UPDATES", "STOP"}
      BY <3>1 DEF Slot, Unset
    <3>. QED
      BY <3>1, <3>2 DEF Place, Executing
  <2>. QED
    BY <1>1, <2>1, <2>2 DEF Reporting
<1>5. CASE ~ StartRun
  <2>1. UNCHANGED m_last_time_reported
    BY <1>5 DEF MasterStep, Spawn, WaitWorker, LoadFirst, LoadNext, SetTask, NotifyWorker, SwapArrays, PrepareLatencies, SetRunning,
         RecordIdle, RecordTick, DrainIdle, DrainExpired, EndRun, StoreResults, SetStop, NotifyStop, Join, workerVars, reportVars
  <2>2. \A u \in W : pc[u] = "store" => pc'[u] = "store"
    <3>1. mpc = <<"ctor", "spawn">> => pc[mi] # "store"
      <4>1. Types /\ mi \in W /\ Slot(mi) /\ Place(mi)
        BY DEF Handshake, Types
      <4>. QED
        BY <4>1 DEF Slot, Place, Free, Unset, Stopping, IsIdle, Executing
    <3>. QED
      BY <1>2, <3>1 DEF Handshake, Types
  <2>. QED
    BY <1>1, <1>3, <2>1, <2>2 DEF Reporting, AboutToRecord
<1>. QED
  BY <1>4, <1>5

(* Every step keeps the reports in order. *)
LEMMA ReportingNext ==
    ASSUME Handshake, Updates, Reporting, [Next]_vars
    PROVE  Reporting'
<1>1. CASE MasterSpuriousWakeup \/ UNCHANGED vars
  BY <1>1 DEF MasterSpuriousWakeup, vars, workerVars, workersLocal, localVars, reportVars, Reporting, AboutToRecord
<1>. QED
  BY <1>1, ReportingWorker, ReportingMaster DEF Next, Finished

(* At the start nothing is reported. *)
LEMMA ReportingInit == ASSUME Init PROVE Reporting
  BY DEF Init, WorkerInit, Reporting

(* During a run the reports only advance, and the entry of a coefficient   *)
(* belongs to the worker that won it until it has recorded its time: the   *)
(* compare-and-exchange lets one worker win, and although the store comes  *)
(* later and the stores of several winners may come in any order, none     *)
(* overwrites another, whatever the number of workers                      *)
(* (main_execute_updates and do_run_experiment).                           *)
THEOREM ReportsAdvanceHolds == Spec => ReportsAdvance
<1> DEFINE J == Handshake /\ Updates /\ Reporting
           Advance ==
             /\ m_last_time_reported' # m_last_time_reported =>
                  At("run", "start") \/ m_last_time_reported' > m_last_time_reported
             /\ \A k \in 1 .. ReportedTimesSz, u, w \in W :
                  AboutToRecord(u, k) /\ AboutToRecord(w, k) => u = w /\ k <= m_last_time_reported
             /\ \A k \in 1 .. ReportedTimesSz :
                  m_reported_times'[k] # m_reported_times[k] => \E w \in W : AboutToRecord(w, k)
<1>1. Init => J
  BY HandshakeInit, UpdatesInit, ReportingInit
<1>2. J /\ [Next]_vars => J'
  BY HandshakeNext, UpdatesNext, ReportingNext
<1>3. ASSUME J, [Next]_vars PROVE Advance
  <2>1. ASSUME NEW k \in 1 .. ReportedTimesSz, NEW u \in W, NEW w \in W, AboutToRecord(u, k), AboutToRecord(w, k)
        PROVE  u = w /\ k <= m_last_time_reported
    BY <1>3, <2>1 DEF Reporting, AboutToRecord
  <2>2. \/ StartRun
        \/ \E w \in W : ReportTime(w) /\ m_last_time_reported = ex[w].last
        \/ UNCHANGED m_last_time_reported
    <3>1. CASE MasterStep
      BY <3>1 DEF MasterStep, Spawn, WaitWorker, LoadFirst, LoadNext, SetTask, NotifyWorker, SwapArrays, PrepareLatencies, SetRunning,
           RecordIdle, RecordTick, DrainIdle, DrainExpired, EndRun, StoreResults, SetStop, NotifyStop, Join, workerVars, reportVars
    <3>2. ASSUME NEW w \in W, WorkerStep(w) \/ SpuriousWakeup(w)
          PROVE  UNCHANGED m_last_time_reported \/ (ReportTime(w) /\ m_last_time_reported = ex[w].last)
      BY <3>2, WorkerLeaves DEF ReportTime
    <3>3. CASE MasterSpuriousWakeup \/ UNCHANGED vars
      BY <3>3 DEF MasterSpuriousWakeup, vars, workerVars, reportVars
    <3>. QED
      BY <1>3, <3>1, <3>2, <3>3 DEF Next, Finished
  <2>3. m_last_time_reported' # m_last_time_reported => At("run", "start") \/ m_last_time_reported' > m_last_time_reported
    <3>1. ASSUME NEW w \in W, ReportTime(w), m_last_time_reported = ex[w].last PROVE m_last_time_reported' > m_last_time_reported
      <4>1. pc[w] = "cas" /\ m_last_time_reported' = ex[w].coeff
        BY <3>1 DEF ReportTime
      <4>. QED
        BY <1>3, <3>1, <4>1 DEF Reporting
    <3>. QED
      BY <2>2, <3>1 DEF StartRun
  <2>4. UNCHANGED m_reported_times \/ \E w \in W : StoreTime(w)
    <3>1. CASE MasterStep
      BY <3>1 DEF MasterStep, Spawn, WaitWorker, LoadFirst, LoadNext, SetTask, NotifyWorker, SwapArrays, PrepareLatencies, StartRun, SetRunning,
           RecordIdle, RecordTick, DrainIdle, DrainExpired, EndRun, StoreResults, SetStop, NotifyStop, Join, workerVars, workersLocal, reportVars
    <3>2. ASSUME NEW w \in W, WorkerStep(w) \/ SpuriousWakeup(w) PROVE UNCHANGED m_reported_times \/ StoreTime(w)
      BY <3>2 DEF WorkerStep, SpuriousWakeup, FetchTask, WakeUp, LoadEdges, LoopDone, NextChunk, CheckStop, CallLibrary,
                  CountChunk, ReportTime, RemoveVertex, Exit, reportVars
    <3>3. CASE MasterSpuriousWakeup \/ UNCHANGED vars
      BY <3>3 DEF MasterSpuriousWakeup, vars, workerVars, workersLocal, reportVars
    <3>. QED
      BY <1>3, <3>1, <3>2, <3>3 DEF Next, Finished
  <2>5. ASSUME NEW k \in 1 .. ReportedTimesSz, m_reported_times'[k] # m_reported_times[k]
        PROVE  \E w \in W : AboutToRecord(w, k)
    <3>1. PICK w \in W : StoreTime(w)
      BY <2>4, <2>5
    <3>2. pc[w] = "store" /\ m_reported_times' = [m_reported_times EXCEPT ![ex[w].coeff] = Len(applied)]
      BY <3>1 DEF StoreTime
    <3>3. ex[w].coeff = k
      BY <1>3, <2>5, <3>2 DEF Reporting
    <3>. QED
      BY <3>2, <3>3 DEF AboutToRecord
  <2>. QED
    BY <2>1, <2>3, <2>5
<1>4. J /\ [Next]_vars => [Advance]_vars
  BY <1>3
<1>. QED
  BY <1>1, <1>2, <1>4, PTL DEF Spec, ReportsAdvance

-----------------------------------------------------------------------------
(* What reaches the library. *)
LEMMA AppliedNext ==
    ASSUME [Next]_vars
    PROVE  UNCHANGED applied \/ \E w \in W : CallLibrary(w)
  BY MasterLeaves, WorkerLeaves DEF Next, MasterSpuriousWakeup, Finished, vars, workerVars, workersLocal, libraryVars

(* One more update keeps the order of the others. *)
LEMMA PerEdgeOrderNext ==
    ASSUME Handshake, Updates, PerEdgeOrder, [Next]_vars
    PROVE  PerEdgeOrder'
<1>1. CASE UNCHANGED applied
  BY <1>1 DEF PerEdgeOrder
<1>2. ASSUME NEW w \in W, CallLibrary(w) PROVE PerEdgeOrder'
  <2> DEFINE op == CurrentOp(w)  n == Len(applied)
  <2>1. pc[w] = "call" /\ applied' = Append(applied, op) /\ applied \in Seq(Ops)
    BY <1>2 DEF CallLibrary, Updates, UpdateTypes
  <2>2. op \in Ops
    BY <2>1, FirstWaiting
  <2>3. \A x \in Ops : Endpoints(x) = Endpoints(op) => (x \in Range(applied) <=> x < op)
    BY <2>1, CallOrder
  <2> HIDE DEF op
  <2>4. /\ Len(applied') = n + 1 /\ applied'[n + 1] = op /\ n \in Nat
        /\ \A i \in 1 .. n : applied'[i] = applied[i]
        /\ \A x : x \in Range(applied) <=> \E i \in 1 .. n : applied[i] = x
    BY <2>1, <2>2, RangeAppended
  <2> HIDE DEF n
  <2>5. ASSUME NEW i \in 1 .. Len(applied'), NEW x \in Ops, Endpoints(x) = Endpoints(applied'[i])
        PROVE  (\E j \in 1 .. i - 1 : applied'[j] = x) <=> x < applied'[i]
    <3>1. CASE i = n + 1
      <4>1. (\E j \in 1 .. i - 1 : applied'[j] = x) <=> x \in Range(applied)
        BY <2>4, <3>1
      <4>. QED
        BY <2>3, <2>4, <2>5, <3>1, <4>1
    <3>2. CASE i # n + 1
      <4>1. i \in 1 .. n /\ 1 .. i - 1 \subseteq 1 .. n
        BY <2>4, <3>2
      <4>2. applied'[i] = applied[i] /\ \A j \in 1 .. i - 1 : applied'[j] = applied[j]
        BY <2>4, <4>1
      <4>3. (\E j \in 1 .. i - 1 : applied[j] = x) <=> x < applied[i]
        BY <2>5, <4>1, <4>2 DEF PerEdgeOrder, n
      <4>. QED
        BY <4>2, <4>3
    <3>. QED
      BY <3>1, <3>2
  <2>. QED
    BY <2>5 DEF PerEdgeOrder, Endpoints
<1>. QED
  BY <1>1, <1>2, AppliedNext

(* The updates of each edge take effect in the order of the log, none of   *)
(* them twice and none skipped, for any number of workers, any log and any *)
(* sizes of the buffers and of the chunks, in both modes, and also when    *)
(* the experiment is stopped or a worker outlives the drain                *)
(* (main_load_edges, main_execute_updates).                                *)
THEOREM PerEdgeOrderHolds == Spec => []PerEdgeOrder
<1>1. Init => Handshake /\ Updates /\ PerEdgeOrder
  <2>1. Init => applied = <<>>
    BY DEF Init, WorkerInit
  <2>. QED
    BY <2>1, HandshakeInit, UpdatesInit DEF PerEdgeOrder
<1>2. Handshake /\ Updates /\ PerEdgeOrder /\ [Next]_vars => Handshake' /\ Updates' /\ PerEdgeOrder'
  BY HandshakeNext, UpdatesNext, PerEdgeOrderNext
<1>. QED
  BY <1>1, <1>2, PTL DEF Spec

-----------------------------------------------------------------------------
(* The edges in the library *)

(* Vertices are only removed once the updates are over. *)
LEMMA RemovingNext ==
    ASSUME Types, [Next]_vars, Removing
    PROVE  Removing'
<1>1. /\ mpc[1] \in {"remove", "store", "dtor", "done"} \/ mpc \in {<<"error", "busy">>, <<"error", "assert">>}
      /\ Mode = "execute" /\ mpc \in Steps
  BY DEF Removing, Types
<1>2. CASE UNCHANGED mpc
  BY <1>2 DEF Removing
<1>3. CASE SetTask("remove", Task("REMOVE_VERTICES", 0, Len(TempVertices))) \/ NotifyWorker("remove", <<"remove", "wait">>)
           \/ WaitWorker("remove", <<"remove", "wait">>, <<"store", "results">>) \/ Join
  BY <1>1, <1>3 DEF SetTask, NotifyWorker, WaitWorker, Join, ForEachWorker, Removing
<1>4. CASE StoreResults \/ SetStop \/ NotifyStop
  BY <1>1, <1>4 DEF StoreResults, SetStop, NotifyStop, Removing
<1>5. MasterStep => \/ SetTask("remove", Task("REMOVE_VERTICES", 0, Len(TempVertices))) \/ NotifyWorker("remove", <<"remove", "wait">>)
                    \/ WaitWorker("remove", <<"remove", "wait">>, <<"store", "results">>) \/ Join
                    \/ StoreResults \/ SetStop \/ NotifyStop
  BY <1>1 DEF MasterStep, Spawn, WaitWorker, LoadFirst, SetTask, NotifyWorker, LoadNext, SwapArrays, PrepareLatencies, StartRun, SetRunning,
              RecordIdle, RecordTick, DrainIdle, DrainExpired, EndRun, At
<1>. QED
  BY <1>2, <1>3, <1>4, <1>5 DEF Next, MasterSpuriousWakeup, Finished, vars, masterVars

(* The steps that change the edges: a call, or the removal of a vertex. *)
LEMMA EdgesNext ==
    ASSUME Handshake, [Next]_vars, ~ Removing
    PROVE  UNCHANGED <<edges, applied>> \/ \E w \in W : CallLibrary(w)
<1>1. ASSUME NEW w \in W PROVE ~ RemoveVertex(w)
  <2>1. Slot(w) /\ Place(w)
    BY DEF Handshake
  <2>2. pc[w] # "remove"
    BY <2>1 DEF Slot, Place, Removing
  <2>. QED
    BY <2>2 DEF RemoveVertex
<1>2. MasterStep => UNCHANGED <<edges, applied>>
  BY MasterLeaves
<1>. QED
  BY <1>1, <1>2, WorkerLeaves DEF Next, MasterSpuriousWakeup, Finished, vars, workerVars, workersLocal, libraryVars

(* Each edge in the library is there because of the last of its updates. *)
LEMMA StoredNext ==
    ASSUME Handshake, Updates, Stored, [Next]_vars
    PROVE  Stored'
<1>1. SUFFICES ASSUME ~ Removing' PROVE \A e : e \in edges' <=> \E x \in Ops : LastApplied(x, e)'
  BY DEF Stored, LastApplied
<1>2. ~ Removing /\ \A e : e \in edges <=> \E x \in Ops : LastApplied(x, e)
  BY <1>1, RemovingNext DEF Stored, Handshake
<1>3. CASE UNCHANGED <<edges, applied>>
  BY <1>2, <1>3 DEF LastApplied
<1>4. ASSUME NEW w \in W, CallLibrary(w), NEW e PROVE e \in edges' <=> \E x \in Ops : LastApplied(x, e)'
  <2>0. PICK op \in Ops : op = CurrentOp(w)
    BY <1>4, FirstWaiting DEF CallLibrary
  <2>1. /\ pc[w] = "call" /\ applied' = Append(applied, op) /\ applied \in Seq(Ops)
        /\ edges' = IF IsInsertion(op) THEN edges \cup {Endpoints(op)} ELSE edges \ {Endpoints(op)}
    BY <1>4, <2>0 DEF CallLibrary, Updates, UpdateTypes
  <2>2. op \in Ops /\ op \in Nat /\ \A x \in Ops : x \in Nat
    BY LogEntries
  <2>3. \A x \in Ops : Endpoints(x) = Endpoints(op) => (x \in Range(applied) <=> x < op)
    BY <2>0, <2>1, CallOrder
  <2>4. (\A x : x \in Range(applied)' <=> x \in Range(applied) \/ x = op) /\ Range(applied) \subseteq Ops
    BY <2>1, <2>2, RangeAppended DEF Range
  <2>5. CASE e = Endpoints(op)
    <3>1. ASSUME NEW x \in Ops, LastApplied(x, e)' PROVE x = op /\ IsInsertion(op)
      <4>1. x \in Range(applied)' /\ Endpoints(x) = e /\ IsInsertion(x) /\ op <= x
        BY <2>4, <2>5, <3>1 DEF LastApplied
      <4>. QED
        BY <2>2, <2>3, <2>4, <2>5, <4>1
    <3>2. ASSUME IsInsertion(op) PROVE LastApplied(op, e)'
      <4>1. \A y \in Range(applied)' : Endpoints(y) = e => y <= op
        <5>1. ASSUME NEW y \in Range(applied)', Endpoints(y) = e PROVE y <= op
          <6>1. y = op \/ (y \in Ops /\ y \in Range(applied))
            BY <2>4, <5>1
          <6>2. y = op \/ y < op
            BY <2>3, <2>5, <5>1, <6>1
          <6>3. y \in Nat /\ op \in Nat
            BY <2>2, <6>1
          <6>. QED
            BY <6>2, <6>3
        <5>. QED
          BY <5>1
      <4>. QED
        BY <2>4, <2>5, <3>2, <4>1 DEF LastApplied
    <3>3. e \in edges' <=> IsInsertion(op)
      BY <2>1, <2>5
    <3>. QED
      BY <2>2, <3>1, <3>2, <3>3
  <2>6. CASE e # Endpoints(op)
    <3>1. \A x \in Ops : LastApplied(x, e)' <=> LastApplied(x, e)
      BY <2>4, <2>6 DEF LastApplied
    <3>2. e \in edges' <=> e \in edges
      BY <2>1, <2>6
    <3>. QED
      BY <1>2, <3>1, <3>2
  <2>. QED
    BY <2>5, <2>6
<1>. QED
  BY <1>2, <1>3, <1>4, EdgesNext

(* What the log says about an update, and what the library holds of the    *)
(* previous ones.                                                          *)
LEMMA AcceptsNext ==
    ASSUME Handshake, Updates, Stored, NEW w \in W, pc[w] = "call", ~ Removing
    PROVE  LibraryAccepts(CurrentOp(w))
<1> DEFINE op == CurrentOp(w)  e == Endpoints(CurrentOp(w))
<1>1. op \in Ops /\ op \in Nat /\ op >= 1 /\ op <= Len(Log) /\ Len(Log) \in Nat
  BY FirstWaiting, LogEntries, Blocks DEF Ops
<1>2. \A x \in Ops : Endpoints(x) = e => (x \in Range(applied) <=> x < op)
  BY CallOrder
<1>3. e \in edges <=> \E x \in Ops : LastApplied(x, e)
  BY DEF Stored
<1>4. applied \in Seq(Ops)
  BY DEF Updates, UpdateTypes
<1>5. Range(applied) \subseteq Ops
  BY <1>4 DEF Range
<1>6. IsInsertion(op) <=> e \notin PresentAfter(op - 1)
  BY <1>1, LogAssumption
<1> HIDE DEF op
<1>7. ASSUME NEW x \in Ops, LastApplied(x, e) PROVE e \in PresentAfter(op - 1)
  <2>1. x \in 1 .. op - 1 /\ IsInsertion(x) /\ Endpoints(x) = e /\ x \in Nat
    BY <1>1, <1>2, <1>7, LogEntries DEF LastApplied
  <2>2. ASSUME NEW j \in x + 1 .. op - 1 PROVE Endpoints(j) # Endpoints(x)
    <3>1. j \in Ops /\ j < op /\ j > x
      BY <1>1, <2>1, <2>2 DEF Ops
    <3>. QED
      BY <1>2, <1>7, <2>1, <3>1 DEF LastApplied
  <2>. QED
    BY <2>1, <2>2 DEF PresentAfter
<1>8. ASSUME e \in PresentAfter(op - 1) PROVE \E x \in Ops : LastApplied(x, e)
  <2>1. PICK x \in 1 .. op - 1 : IsInsertion(x) /\ Endpoints(x) = e /\ \A j \in x + 1 .. op - 1 : Endpoints(j) # Endpoints(x)
    BY <1>8 DEF PresentAfter
  <2>2. x \in Ops /\ x < op /\ x \in Nat
    BY <1>1 DEF Ops
  <2>3. x \in Range(applied)
    BY <1>2, <2>1, <2>2
  <2>4. ASSUME NEW y \in Range(applied), Endpoints(y) = e PROVE y <= x
    <3>1. y \in Ops /\ y < op /\ y \in Nat
      BY <1>2, <1>5, <2>4, LogEntries
    <3>. QED
      BY <1>1, <2>1, <2>2, <2>4, <3>1
  <2>. QED
    BY <2>1, <2>2, <2>3, <2>4 DEF LastApplied
<1>. QED
  BY <1>3, <1>6, <1>7, <1>8 DEF LibraryAccepts, op

(* Without an expired drain the workers are done when the vertices are     *)
(* removed.                                                                *)
LEMMA NoDeadlockNext ==
    ASSUME ~ DrainMayExpire => ~ Deadlocked, [Next]_vars, Types
    PROVE  ~ DrainMayExpire => ~ Deadlocked'
<1>1. CASE UNCHANGED m_results
  BY <1>1 DEF Deadlocked
<1>2. CASE StoreResults
  BY <1>2 DEF StoreResults, Deadlocked, Types
<1>3. CASE DrainExpired
  BY <1>3 DEF DrainExpired
<1>4. MasterStep => UNCHANGED m_results \/ StoreResults \/ DrainExpired
  BY DEF MasterStep, Spawn, WaitWorker, LoadFirst, SetTask, NotifyWorker, LoadNext, SwapArrays, PrepareLatencies, StartRun, SetRunning,
         RecordIdle, RecordTick, DrainIdle, EndRun, SetStop, NotifyStop, Join, statusVars
<1>. QED
  BY <1>1, <1>2, <1>3, <1>4 DEF Next, MasterSpuriousWakeup, Finished, vars, masterVars, statusVars

(* A worker that calls the library while the vertices are removed has      *)
(* outlived the drain.                                                     *)
LEMMA CallsWhileRemoving ==
    ASSUME Handshake, NEW w \in W, pc[w] = "call", Removing
    PROVE  Deadlocked /\ Mode = "execute"
<1>1. Slot(w) /\ Place(w) /\ Stopping /\ Types
  BY DEF Handshake
<1>2. m_task[w].type = "EXECUTE_UPDATES" \/ Deadlocked
  BY <1>1 DEF Place, Executing
<1>. QED
  BY <1>1, <1>2 DEF Slot, Stopping, Removing

(* The loops `while(!add_edge_v2(edge))' and `while(!remove_edge(edge))'   *)
(* are never entered in vain: the edge to insert is absent and the edge to *)
(* delete is present, for any number of workers and any log, in the        *)
(* schedule that the experiment uses, and in Aging2Master::execute as long *)
(* as no worker outlives the drain (graph_insert_edge, graph_remove_edge). *)
THEOREM LibraryCallCanSucceedHolds ==
    ASSUME Mode = "small_batch" \/ ~ DrainMayExpire
    PROVE  Spec => []LibraryCallCanSucceed
<1> DEFINE J == Handshake /\ Updates /\ Stored /\ (~ DrainMayExpire => ~ Deadlocked)
<1>1. Init => J
  <2>1. ASSUME Init PROVE edges = {} /\ applied = <<>> /\ ~ Deadlocked
    BY <2>1 DEF Init, WorkerInit, Deadlocked
  <2>2. ASSUME Init PROVE Stored
    <3>1. edges = {} /\ Range(applied) = {}
      BY <2>1, <2>2 DEF Range
    <3>. QED
      BY <3>1 DEF Stored, LastApplied
  <2>. QED
    BY <2>1, <2>2, HandshakeInit, UpdatesInit
<1>2. J /\ [Next]_vars => J'
  BY HandshakeNext, UpdatesNext, StoredNext, NoDeadlockNext DEF Handshake
<1>3. J => LibraryCallCanSucceed
  <2>1. ASSUME J, NEW w \in W, pc[w] = "call" PROVE ~ Removing
    BY <2>1, CallsWhileRemoving
  <2>. QED
    BY <2>1, AcceptsNext DEF LibraryCallCanSucceed
<1>. QED
  BY <1>1, <1>2, <1>3, PTL DEF Spec

-----------------------------------------------------------------------------
(* The end of a run, and the barrier between the batches *)

(* A worker empties its buffers before it asks for the next task. *)
LEMMA EmptiedWorker ==
    ASSUME Handshake, UpdateTypes, NEW w \in W, WorkerStep(w) \/ SpuriousWakeup(w), UNCHANGED masterVars, NEW u \in W, Emptied(u)
    PROVE  Emptied(u)'
<1>1. Types /\ Slot(u) /\ Place(u) /\ Place(u)' /\ pc \in [W -> Labels] /\ DOMAIN m_task = W /\ DOMAIN m_updates = W
  BY HandshakeWorker DEF Handshake, Types, UpdateTypes
<1>2. UNCHANGED <<mpc, mi>> /\ Unset(u)' = Unset(u)
  BY DEF masterVars, Unset
<1>3. CASE u # w
  <2>1. m_updates'[u] = m_updates[u] /\ pc'[u] = pc[u] /\ m_task'[u] = m_task[u]
    BY <1>1, <1>3, OtherWorkers
  <2>. QED
    BY <1>2, <2>1 DEF Emptied, IsIdle
<1>4. CASE u = w
  <2>1. SUFFICES ASSUME mpc[1] = "run", mpc[2] # "start", ~ Unset(u), IsIdle(u)' \/ pc'[u] = "fetch" PROVE m_updates'[u] = <<>>
    BY <1>2 DEF Emptied
  <2>2. m_task[u].type \in {"IDLE", "EXECUTE_UPDATES"}
    BY <1>1, <2>1 DEF Types, TaskOp, Slot
  <2>3. pc[u] \notin {"load", "remove", "exiting"}
    BY <1>1, <2>2 DEF Place
  <2>4. CASE NextChunk(u)
    <3>1. pc[u] = "buffer" /\ UNCHANGED m_task
      BY <2>4 DEF NextChunk, syncVars
    <3>2. ~ IsIdle(u)
      BY <1>1, <3>1 DEF Place
    <3>3. pc'[u] = "fetch"
      BY <2>1, <3>1, <3>2 DEF IsIdle
    <3>4. m_updates' = [m_updates EXCEPT ![u] = <<>>]
      BY <1>1, <2>4, <3>1, <3>3 DEF NextChunk
    <3>. QED
      BY <1>1, <3>4
  <2>5. CASE FetchTask(u) \/ SpuriousWakeup(u)
    <3>1. UNCHANGED m_updates /\ (pc[u] = "fetch" \/ UNCHANGED <<pc, m_task>>)
      BY <2>5 DEF FetchTask, SpuriousWakeup, localVars
    <3>. QED
      BY <2>1, <3>1 DEF Emptied, IsIdle
  <2>6. CASE WakeUp(u)
    <3>1. CASE IsIdle(u)
      BY <2>1, <2>6, <3>1 DEF WakeUp, IsIdle, localVars, Emptied
    <3>2. CASE ~ IsIdle(u)
      <4>1. m_task[u].type = "EXECUTE_UPDATES" /\ UNCHANGED m_task
        BY <2>2, <2>6, <3>2 DEF IsIdle, WakeUp
      <4>2. pc'[u] = "buffer"
        BY <1>1, <2>6, <4>1 DEF WakeUp
      <4>. QED
        BY <2>1, <3>2, <4>1, <4>2 DEF IsIdle
    <3>. QED
      BY <3>1, <3>2
  <2>7. CASE CheckStop(u) \/ CallLibrary(u) \/ CountChunk(u) \/ ReportTime(u) \/ StoreTime(u)
    <3>1. pc'[u] \in Executing /\ pc'[u] # "fetch"
      BY <1>1, <2>7 DEF CheckStop, CallLibrary, CountChunk, ReportTime, StoreTime, Executing
    <3>. QED
      BY <1>1, <2>1, <3>1 DEF Place, Executing
  <2>8. CASE LoadEdges(u) \/ LoopDone(u) \/ RemoveVertex(u) \/ Exit(u)
    BY <2>3, <2>8 DEF LoadEdges, LoopDone, RemoveVertex, Exit
  <2>. QED
    BY <1>4, <2>4, <2>5, <2>6, <2>7, <2>8 DEF WorkerStep
<1>. QED
  BY <1>3, <1>4

(* How the master comes to the steps of a run. *)
LEMMA PhasesRun ==
    ASSUME MasterStep, Types, mpc'[1] = "run", mpc'[2] # "start"
    PROVE  \/ mpc = <<"run", "start">> /\ mpc' = <<"run", "set">> /\ mi' = mi
           \/ SetTask("run", Task("EXECUTE_UPDATES", 0, 0))
           \/ NotifyWorker("run", <<"run", "running">>)
           \/ mpc[1] = "run" /\ mpc[2] \in {"running", "record", "drain"} /\ mpc'[2] \in {"record", "drain", "end"} /\ UNCHANGED <<m_task, pc>>
<1>1. CASE StartRun \/ SetRunning \/ RecordTick
  BY <1>1 DEF StartRun, SetRunning, RecordTick, At, workerVars, syncVars
<1>2. CASE RecordIdle \/ DrainIdle \/ DrainExpired
  BY <1>2 DEF RecordIdle, DrainIdle, DrainExpired, ForEachWorker, At, workerVars, syncVars
<1>3. ~ (LoadFirst \/ LoadNext \/ SwapArrays \/ EndRun \/ PrepareLatencies \/ StoreResults \/ SetStop \/ NotifyStop \/ Spawn)
  <2>1. \A n : LoopHead(n) \in {<<"load", "set">>, <<"latency", "prepare">>, <<"run", "start">>, <<"dtor", "set">>}
    BY DEF LoopHead, AfterLoad
  <2>2. AfterLoad \in {<<"latency", "prepare">>, <<"run", "start">>}
    BY DEF AfterLoad
  <2>3. ~ (LoadFirst \/ LoadNext \/ SwapArrays \/ EndRun)
    BY <2>1, <2>2 DEF LoadFirst, LoadNext, SwapArrays, EndRun
  <2>. QED
    BY <2>3 DEF PrepareLatencies, StoreResults, SetStop, NotifyStop, Spawn
<1>4. ASSUME NEW phase \in {"load", "latency", "remove"}, NEW t PROVE ~ SetTask(phase, t)
  BY <1>4 DEF SetTask
<1>5. ~ (NotifyWorker("load", <<"load", "next">>) \/ NotifyWorker("latency", <<"latency", "wait">>) \/ NotifyWorker("remove", <<"remove", "wait">>))
  BY DEF NotifyWorker, ForEachWorker
<1>6. ~ (\/ WaitWorker("ctor", <<"ctor", "spawn">>, <<"load", "first">>) \/ WaitWorker("load", <<"load", "wait">>, <<"load", "swap">>)
         \/ WaitWorker("latency", <<"latency", "wait">>, <<"run", "start">>) \/ WaitWorker("remove", <<"remove", "wait">>, <<"store", "results">>) \/ Join)
  BY DEF WaitWorker, ForEachWorker, At, Join
<1>. QED
  BY <1>1, <1>2, <1>3, <1>4, <1>5, <1>6 DEF MasterStep

(* The master starts the next run only once the buffers are empty. *)
LEMMA EmptiedMaster ==
    ASSUME Handshake, MasterStep, NEW u \in W, Emptied(u)
    PROVE  Emptied(u)'
<1>1. SUFFICES ASSUME mpc'[1] = "run", mpc'[2] # "start", ~ Unset(u)', IsIdle(u)' \/ pc'[u] = "fetch" PROVE m_updates'[u] = <<>>
  BY DEF Emptied
<1>2. Types /\ Place(u) /\ mi \in W /\ u \in Nat /\ mi \in Nat /\ UNCHANGED m_updates /\ DOMAIN m_task = W
  BY Workers, MasterLeaves DEF Handshake, Types
<1>3. CASE mpc = <<"run", "start">> /\ mpc' = <<"run", "set">> /\ mi' = mi
  <2>1. mi = 0
    BY <1>2, <1>3 DEF Types, Outside
  <2>. QED
    BY <1>1, <1>2, <1>3, <2>1 DEF Unset
<1>4. CASE SetTask("run", Task("EXECUTE_UPDATES", 0, 0))
  <2>1. /\ mpc = <<"run", "set">> /\ UNCHANGED <<mi, pc>> /\ mpc' = <<"run", "notify">> /\ IsIdle(mi)
        /\ m_task' = [m_task EXCEPT ![mi] = Task("EXECUTE_UPDATES", 0, 0)]
    BY <1>1, <1>4 DEF SetTask, At
  <2>2. CASE u = mi
    BY <1>1, <1>2, <2>1, <2>2 DEF Task, IsIdle, Place
  <2>3. CASE u # mi
    <3>1. m_task'[u] = m_task[u] /\ ~ Unset(u)
      BY <1>1, <1>2, <2>1, <2>3 DEF Unset
    <3>. QED
      BY <1>1, <1>2, <2>1, <3>1 DEF Emptied, IsIdle
  <2>. QED
    BY <2>2, <2>3
<1>5. CASE NotifyWorker("run", <<"run", "running">>)
  <2>1. mpc = <<"run", "notify">> /\ UNCHANGED <<m_task, pc>> /\ ForEachWorker(<<"run", "set">>, <<"run", "running">>)
    BY <1>5 DEF NotifyWorker, At
  <2>2. ~ Unset(u)
    <3>1. CASE mi < NumThreads - 1
      BY <1>1, <1>2, <2>1, <3>1 DEF ForEachWorker, Unset
    <3>2. CASE ~ (mi < NumThreads - 1)
      BY <1>2, <2>1, <3>2, Workers DEF Unset
    <3>. QED
      BY <3>1, <3>2
  <2>. QED
    BY <1>1, <1>2, <2>1, <2>2 DEF Emptied, IsIdle
<1>6. CASE mpc[1] = "run" /\ mpc[2] \in {"running", "record", "drain"} /\ mpc'[2] \in {"record", "drain", "end"} /\ UNCHANGED <<m_task, pc>>
  BY <1>1, <1>2, <1>6 DEF Emptied, Unset, IsIdle
<1>. QED
  BY <1>1, <1>2, <1>3, <1>4, <1>5, <1>6, PhasesRun

(* The updates that have been handed out are in the library when a run     *)
(* that is not stopped ends.                                               *)
LEMMA RunEnded ==
    ASSUME Handshake, Updates, \A w \in W : Emptied(w), mpc = <<"run", "end">>, ~ m_stop_experiment
    PROVE  AppliedUpTo(End(Given))
<1>1. ASSUME NEW op \in Ops, op <= End(Given) PROVE op \in Range(applied)
  <2>1. PICK w \in W : OwnedBy(op, w)
    BY Owner
  <2>2. Slot(w) /\ Stopping /\ Buffered(w) /\ Emptied(w)
    BY DEF Handshake, Updates, Runs
  <2>3. IsIdle(w)
    BY <2>2 DEF Slot, Free, Stopping
  <2>4. m_updates[w] = <<>>
    BY <2>2, <2>3 DEF Emptied, Unset
  <2>5. \A b, p \in Nat : ~ Waits(w, b, p)
    BY <2>4 DEF Waits, In
  <2>6. Loaded(w) = End(Given)
    BY DEF Loaded
  <2>. QED
    BY <1>1, <2>1, <2>2, <2>5, <2>6 DEF Buffered
<1>. QED
  BY <1>1 DEF AppliedUpTo

(* The phases after the last run. *)
LEMMA PhasesEnding ==
    ASSUME MasterStep, Types, mpc'[1] \in Ending
    PROVE  mpc[1] \in Ending \/ (mpc = <<"run", "end">> /\ EndRun) \/ (LoadFirst /\ num_edges' = 0)
<1>1. MasterStep => \/ LoadFirst \/ EndRun \/ mpc[1] \in Ending \/ SwapArrays
  BY DEF MasterStep, Spawn, WaitWorker, SetTask, NotifyWorker, LoadNext, PrepareLatencies, StoreResults, StartRun, SetRunning, RecordTick,
         RecordIdle, DrainIdle, DrainExpired, SetStop, NotifyStop, Join, ForEachWorker, At, Ending
<1>2. CASE LoadFirst
  <2>1. mpc' = LoopHead(num_edges') /\ mpc'[1] \in Ending
    BY <1>2 DEF LoadFirst
  <2>2. CASE num_edges' > 0
    BY <2>1, <2>2 DEF LoopHead, Ending
  <2>3. CASE ~ (num_edges' > 0)
    <3>1. num_edges' = 0 \/ (next_block <= NumBlocks /\ num_edges' = BlockSize(next_block))
      BY <1>2 DEF LoadFirst, LoadBlock
    <3>2. next_block \in 1 .. NumBlocks + 1 /\ NumBlocks \in Nat
      BY Blocks DEF Types
    <3>3. next_block <= NumBlocks => BlockSize(next_block) > 0
      BY <3>2, Blocks
    <3>. QED
      BY <1>2, <2>3, <3>1, <3>3
  <2>. QED
    BY <2>2, <2>3
<1>3. CASE EndRun
  BY <1>3 DEF EndRun, At
<1>4. CASE SwapArrays
  <2>1. mpc' \in {LoopHead(num_edges), AfterLoad} /\ (mpc' = LoopHead(num_edges) => Mode = "execute" \/ mpc' = AfterLoad)
    BY <1>4 DEF SwapArrays
  <2>. QED
    BY <2>1 DEF LoopHead, AfterLoad, Ending
<1>. QED
  BY <1>1, <1>2, <1>3, <1>4

(* At the end of the experiment no block is left. *)
LEMMA EmptyingNext ==
    ASSUME Handshake, Updates, Emptying, [Next]_vars
    PROVE  Emptying'
<1>1. Types /\ Arrays /\ UpdateTypes /\ applied \in Seq(Ops) /\ Complete /\ \A u \in W : Emptied(u)
  BY DEF Handshake, Updates, UpdateTypes, Emptying
<1>2. ASSUME NEW w \in W, WorkerStep(w) \/ SpuriousWakeup(w), UNCHANGED masterVars PROVE Emptying'
  <2>1. \A u \in W : Emptied(u)'
    BY <1>1, <1>2, EmptiedWorker
  <2>2. UNCHANGED <<mpc, num_edges, m_stop_experiment>>
    BY <1>2, WorkerLeaves DEF masterVars, loaderVars
  <2>3. \A x : x \in Range(applied) => x \in Range(applied)'
    <3>1. CASE UNCHANGED applied
      BY <3>1
    <3>2. CASE CallLibrary(w)
      <4>1. applied' = Append(applied, CurrentOp(w)) /\ CurrentOp(w) \in Ops
        BY <3>2, FirstWaiting DEF CallLibrary
      <4>. QED
        BY <1>1, <4>1, RangeAppended
    <3>. QED
      BY <1>2, <3>1, <3>2, WorkerLeaves
  <2>4. Complete'
    BY <1>1, <2>2, <2>3 DEF Complete, AppliedUpTo
  <2>. QED
    BY <2>1, <2>4 DEF Emptying
<1>3. CASE MasterStep
  <2>1. \A u \in W : Emptied(u)'
    BY <1>1, <1>3, EmptiedMaster
  <2>2. UNCHANGED applied /\ (m_stop_experiment => m_stop_experiment')
    BY <1>3, MasterLeaves
  <2>3. ASSUME mpc'[1] \in Ending, ~ m_stop_experiment' PROVE AppliedUpTo(Len(Log))
    <3>1. CASE mpc[1] \in Ending
      BY <1>1, <2>2, <2>3, <3>1 DEF Complete
    <3>2. CASE mpc = <<"run", "end">> /\ EndRun
      <4>1. AppliedUpTo(End(Given))
        BY <1>1, <2>2, <2>3, <3>2, RunEnded
      <4>2. num_edges = 0
        <5>1. CASE Mode = "execute"
          BY <1>1, <3>2, <5>1 DEF Complete
        <5>2. CASE Mode # "execute"
          <6>1. mpc' = LoopHead(num_edges) /\ num_edges \in Nat
            BY <1>1, <3>2, <5>2 DEF EndRun, Types
          <6>2. ~ (num_edges > 0)
            BY <2>3, <6>1 DEF LoopHead, Ending
          <6>. QED
            BY <6>1, <6>2
        <5>. QED
          BY <5>1, <5>2
      <4>3. Given > 0 /\ next_block \in {1, NumBlocks + 1} /\ Given = next_block - 1 /\ NumBlocks \in Nat
        BY <1>1, <3>2, <4>2, Blocks DEF Arrays, Given
      <4>4. Given = NumBlocks
        BY <4>3
      <4>. QED
        BY <4>1, <4>4, Blocks
    <3>3. CASE LoadFirst /\ num_edges' = 0
      <4>1. next_block = 1
        BY <1>1, <3>3 DEF LoadFirst, At, Arrays
      <4>2. num_edges' = BlockSize(1) /\ BlockSize(1) > 0
        BY <3>3, <4>1, Blocks DEF LoadFirst, LoadBlock
      <4>. QED
        BY <3>3, <4>2
    <3>. QED
      BY <1>1, <1>3, <2>3, <3>1, <3>2, <3>3, PhasesEnding
  <2>4. ASSUME Mode = "execute", mpc'[1] \in {"latency", "run"} PROVE num_edges' = 0
    <3>1. CASE LoadFirst
      <4>1. mpc' = LoopHead(num_edges') /\ (num_edges' = 0 \/ (num_edges' = BlockSize(next_block) /\ next_block <= NumBlocks))
        BY <3>1 DEF LoadFirst, LoadBlock
      <4>2. next_block \in 1 .. NumBlocks + 1 /\ NumBlocks \in Nat
        BY <1>1, Blocks DEF Types
      <4>3. next_block <= NumBlocks => BlockSize(next_block) > 0
        BY <4>2, Blocks
      <4>. QED
        BY <2>4, <4>1, <4>3 DEF LoopHead
    <3>2. CASE SwapArrays
      <4>1. mpc' = LoopHead(num_edges) /\ UNCHANGED num_edges /\ num_edges \in Nat
        BY <1>1, <2>4, <3>2 DEF SwapArrays, Types
      <4>. QED
        BY <2>4, <4>1 DEF LoopHead
    <3>3. CASE ~ LoadFirst /\ ~ SwapArrays /\ ~ LoadNext
      <4>1. UNCHANGED num_edges
        BY <1>3, <3>3, MasterLeaves
      <4>2. mpc[1] \in {"latency", "run"}
        BY <1>3, <2>4, <3>3 DEF MasterStep, Spawn, WaitWorker, SetTask, NotifyWorker, PrepareLatencies, StoreResults, StartRun, SetRunning,
           RecordTick, RecordIdle, DrainIdle, DrainExpired, EndRun, SetStop, NotifyStop, Join, ForEachWorker, At
      <4>. QED
        BY <1>1, <2>4, <4>1, <4>2 DEF Complete
    <3>4. CASE LoadNext
      BY <2>4, <3>4 DEF LoadNext
    <3>. QED
      BY <3>1, <3>2, <3>3, <3>4
  <2>5. Complete'
    BY <2>2, <2>3, <2>4 DEF Complete, AppliedUpTo
  <2>. QED
    BY <2>1, <2>5 DEF Emptying
<1>4. CASE MasterSpuriousWakeup \/ UNCHANGED vars
  <2>1. UNCHANGED <<mpc, mi, num_edges, m_stop_experiment, applied, m_task, pc, m_updates>>
    BY <1>4 DEF MasterSpuriousWakeup, vars, workerVars, syncVars, localVars, libraryVars, workersLocal, masterVars, loaderVars
  <2>. QED
    BY <2>1 DEF Emptying, Complete, Emptied, AppliedUpTo, Unset, IsIdle
<1>. QED
  BY <1>2, <1>3, <1>4 DEF Next, Finished

(* What a worker loads belongs to the block that has been handed out. *)
LEMMA LoadsGiven ==
    ASSUME Handshake, NEW w \in W, LoadEdges(w), ~ m_stop_experiment
    PROVE  /\ mpc[1] = "load" /\ mpc[2] # "first" /\ Given \in 1 .. NumBlocks
           /\ BlockFirst(arrays[task[w].payload]) + lpos[w] > End(Given - 1)
           /\ BlockFirst(arrays[task[w].payload]) + lpos[w] <= End(Given)
<1>1. Types /\ Slot(w) /\ Place(w) /\ Arrays /\ Stopping /\ pc[w] = "load" /\ lpos[w] < task[w].sz /\ lpos[w] \in Nat
  BY DEF Handshake, Types, LoadEdges
<1>2. m_task[w] = Task("LOAD_EDGES", front, BlockSize(arrays[front])) /\ task[w] = m_task[w] /\ ~ Free(w) /\ arrays[front] # 0
  BY <1>1 DEF Place, Slot
<1>3. mpc[1] = "load"
  BY <1>1 DEF Place, Slot, Stopping
<1>4. mpc[2] # "first" /\ task[w].payload = front /\ task[w].sz = BlockSize(arrays[front])
  BY <1>2 DEF Free, Task
<1>5. arrays[front] = Given /\ Given \in 1 .. NumBlocks
  BY <1>1, <1>2, <1>3, <1>4, FrontSize DEF Arrays
<1>6. BlockFirst(Given) = End(Given - 1) + 1 /\ BlockSize(Given) = End(Given) - End(Given - 1) /\ End(Given - 1) \in Nat /\ Given \in 0 .. NumBlocks
  BY <1>5, Blocks
<1>7. End(Given) \in Nat
  BY <1>6, Blocks
<1>8. lpos[w] < End(Given) - End(Given - 1) /\ BlockFirst(arrays[task[w].payload]) = End(Given - 1) + 1
  BY <1>1, <1>4, <1>5, <1>6
<1>. QED
  BY <1>1, <1>3, <1>4, <1>5, <1>6, <1>7, <1>8

(* The updates in the buffers were there before, but for the one that is   *)
(* loaded.                                                                 *)
LEMMA Held ==
    ASSUME Handshake, Updates, NEW w \in W, WorkerStep(w) \/ SpuriousWakeup(w), UNCHANGED masterVars,
           NEW b \in Nat, NEW p \in Nat, In(w, b, p)'
    PROVE  \/ \E c, q \in Nat : In(w, c, q) /\ m_updates'[w][b][p] = m_updates[w][c][q]
           \/ LoadEdges(w) /\ m_updates'[w][b][p] = BlockFirst(arrays[task[w].payload]) + lpos[w]
<1>1. Types /\ Place(w) /\ UpdateTypes /\ Loops(w) /\ m_updates \in [W -> Seq(Seq(Ops))] /\ m_updates[w] \in Seq(Seq(Ops))
  BY DEF Handshake, Updates, UpdateTypes
<1>2. CASE m_updates'[w] = m_updates[w]
  BY <1>2 DEF In
<1>3. CASE m_updates'[w] = <<>>
  BY <1>3 DEF In
<1>4. CASE WakeUp(w) /\ m_updates'[w] # m_updates[w]
  <2>1. m_updates'[w] = << <<>> >>
    BY <1>1, <1>4 DEF WakeUp, localVars
  <2>. QED
    BY <2>1 DEF In
<1>5. CASE NextChunk(w) /\ m_updates'[w] # m_updates[w] /\ m_updates'[w] # <<>>
  <2>1. m_updates'[w] = Tail(m_updates[w]) /\ ex[w].i <= ex[w].end /\ pc[w] \in Executing
    BY <1>1, <1>5 DEF NextChunk, Executing
  <2>2. Cur(w) \in 1 .. Len(m_updates[w])
    BY <1>1, <2>1, CurBuffer
  <2>3. m_updates[w] # <<>>
    BY <2>2
  <2>4. /\ Len(Tail(m_updates[w])) = Len(m_updates[w]) - 1 /\ Len(m_updates[w]) \in Nat
        /\ \A k \in 1 .. Len(Tail(m_updates[w])) : Tail(m_updates[w])[k] = m_updates[w][k + 1]
    BY <1>1, <2>3
  <2>5. In(w, b + 1, p) /\ m_updates'[w][b][p] = m_updates[w][b + 1][p] /\ b + 1 \in Nat
    BY <2>1, <2>4 DEF In
  <2>. QED
    BY <2>5
<1>6. CASE LoadEdges(w) /\ m_updates'[w] # m_updates[w]
  <2> DEFINE op == BlockFirst(arrays[task[w].payload]) + lpos[w]
  <2>1. m_updates' = [m_updates EXCEPT ![w] = Append2Last(@, op)] /\ pc[w] = "load"
    BY <1>6 DEF LoadEdges
  <2>2. m_updates'[w] = Append2Last(m_updates[w], op) /\ Len(m_updates[w]) > 0
    BY <1>1, <2>1 DEF Loops
  <2>3. op \in Ops
    BY <1>6, LoadsOps
  <2> HIDE DEF op
  <2>4. PICK c, q \in Nat : Extended(m_updates'[w], m_updates[w], op, c, q)
    BY <1>1, <2>2, <2>3, Appended
  <2>5. b \in 1 .. Len(m_updates'[w]) /\ p \in 1 .. Len(m_updates'[w][b])
    BY DEF In
  <2>6. CASE b \in 1 .. Len(m_updates[w]) /\ p \in 1 .. Len(m_updates[w][b])
    BY <2>4, <2>6 DEF Extended, In
  <2>7. CASE b = c /\ p = q
    BY <1>6, <2>4, <2>7 DEF Extended, op
  <2>. QED
    BY <2>4, <2>5, <2>6, <2>7 DEF Extended
<1>7. (WorkerStep(w) \/ SpuriousWakeup(w)) /\ m_updates'[w] # m_updates[w] => WakeUp(w) \/ NextChunk(w) \/ LoadEdges(w)
  BY DEF WorkerStep, SpuriousWakeup, FetchTask, LoopDone, CheckStop, CallLibrary, CountChunk, ReportTime, StoreTime, RemoveVertex, Exit, localVars
<1>. QED
  BY <1>2, <1>3, <1>4, <1>5, <1>6, <1>7

(* The workers never take an update back. *)
LEMMA AppliedGrows ==
    ASSUME Handshake, Updates, [Next]_vars
    PROVE  \A x : x \in Range(applied) => x \in Range(applied)'
<1>1. CASE UNCHANGED applied
  BY <1>1
<1>2. ASSUME NEW w \in W, CallLibrary(w) PROVE \A x : x \in Range(applied) => x \in Range(applied)'
  <2>1. applied' = Append(applied, CurrentOp(w)) /\ CurrentOp(w) \in Ops /\ applied \in Seq(Ops)
    BY <1>2, FirstWaiting DEF CallLibrary, Updates, UpdateTypes
  <2>. QED
    BY <2>1, RangeAppended
<1>. QED
  BY <1>1, <1>2, AppliedNext

(* The steps of the workers keep the barrier. *)
LEMMA BarrierWorker ==
    ASSUME Handshake, Updates, Barrier, Mode = "small_batch", NEW w \in W, WorkerStep(w) \/ SpuriousWakeup(w), UNCHANGED masterVars
    PROVE  Barrier'
<1>1. Types /\ UpdateTypes /\ Previous /\ \A u \in W : Runs(u) => Behind(u)
  BY DEF Handshake, Updates, Barrier
<1>2. UNCHANGED <<mpc, mi, num_edges, next_block, m_stop_experiment>> /\ Given' = Given
  BY WorkerLeaves DEF masterVars, loaderVars, Given
<1>3. \A x : x \in Range(applied) => x \in Range(applied)'
  BY AppliedGrows DEF Next
<1>4. \A n : AppliedUpTo(n) => AppliedUpTo(n)'
  BY <1>3 DEF AppliedUpTo
<1>5. Previous'
  <2>1. ASSUME mpc[1] = "load", mpc[2] # "first", ~ m_stop_experiment PROVE AppliedUpTo(End(Given - 1))'
    <3>1. PICK n : n = End(Given - 1)
      OBVIOUS
    <3>2. AppliedUpTo(n)'
      BY <1>1, <1>4, <2>1, <3>1 DEF Previous
    <3>. QED
      BY <1>2, <3>1, <3>2 DEF AppliedUpTo, End
  <2>. QED
    BY <1>2, <2>1 DEF Previous
<1>6. ASSUME NEW x, Covered(x) PROVE Covered(x)'
  BY <1>4, <1>6 DEF Covered, End
<1>7. ASSUME NEW u \in W, Runs(u)' PROVE Behind(u)'
  <2>1. Runs(u)
    <3>1. CASE u # w
      BY <1>1, <1>2, <1>7, <3>1, OtherWorkers DEF Runs
    <3>2. CASE u = w
      <4>1. pc'[w] = "call" /\ pc[w] # "call" => CheckStop(w)
        BY <1>1, WakesElsewhere DEF Handshake, Types, WorkerStep, SpuriousWakeup, FetchTask, LoadEdges, LoopDone, NextChunk, CallLibrary,
           CountChunk, ReportTime, StoreTime, RemoveVertex, Exit
      <4>2. CheckStop(w) /\ pc'[w] = "call" => ~ m_stop_experiment
        BY <1>1 DEF CheckStop, Types
      <4>. QED
        BY <1>2, <1>7, <3>2, <4>1, <4>2 DEF Runs
    <3>. QED
      BY <3>1, <3>2
  <2>2. Behind(u)
    BY <1>1, <2>1
  <2>3. ASSUME NEW b \in Nat, NEW p \in Nat, In(u, b, p)' PROVE Covered(m_updates[u][b][p])'
    <3>1. PICK x : x = m_updates'[u][b][p]
      OBVIOUS
    <3>2. Covered(x)
      <4>1. CASE \E c, q \in Nat : In(u, c, q) /\ m_updates'[u][b][p] = m_updates[u][c][q]
        BY <2>2, <3>1, <4>1 DEF Behind
      <4>2. CASE u # w
        BY <1>1, <2>2, <2>3, <3>1, <4>2, OtherWorkers DEF Behind, In
      <4>3. CASE u = w /\ LoadEdges(w) /\ m_updates'[w][b][p] = BlockFirst(arrays[task[w].payload]) + lpos[w]
        <5>1. ~ m_stop_experiment
          BY <2>1, <4>3 DEF Runs, LoadEdges
        <5>2. mpc[1] = "load" /\ mpc[2] # "first" /\ Given \in 1 .. NumBlocks /\ x > End(Given - 1) /\ x <= End(Given)
          BY <3>1, <4>3, <5>1, LoadsGiven
        <5>3. AppliedUpTo(End(Given - 1))
          BY <1>1, <5>1, <5>2 DEF Previous
        <5>. QED
          BY <5>2, <5>3 DEF Covered
      <4>. QED
        BY <2>3, <4>1, <4>2, <4>3, Held
    <3>3. Covered(x)'
      BY <1>6, <3>2
    <3>. QED
      BY <3>1, <3>3 DEF Covered, AppliedUpTo, End
  <2>. QED
    BY <2>3 DEF Behind
<1>. QED
  BY <1>5, <1>7 DEF Barrier

(* The block that the workers are given is the one after those that are    *)
(* in the library.                                                         *)
LEMMA PreviousMaster ==
    ASSUME Handshake, Updates, Previous, \A u \in W : Emptied(u), Mode = "small_batch", MasterStep
    PROVE  Previous'
<1>1. Types /\ Arrays /\ Arrays' /\ Types' /\ UNCHANGED applied /\ (m_stop_experiment => m_stop_experiment')
  BY HandshakeMaster, MasterLeaves DEF Handshake
<1>2. NumBlocks \in Nat /\ next_block \in Nat /\ num_edges \in Nat /\ End(0) = 0
  BY <1>1, Blocks DEF Types
<1>3. SUFFICES ASSUME mpc'[1] = "load", mpc'[2] # "first", ~ m_stop_experiment' PROVE AppliedUpTo(End(Given' - 1))
  BY <1>1 DEF Previous, AppliedUpTo, End
<1>4. ~ m_stop_experiment
  BY <1>1, <1>3
<1>5. ASSUME mpc[1] = "load", mpc[2] # "first", Given' = Given PROVE AppliedUpTo(End(Given' - 1))
  BY <1>4, <1>5 DEF Previous
<1>6. CASE LoadFirst
  <2>1. mpc = <<"load", "first">> /\ mpc' = LoopHead(num_edges') /\ LoadBlock(front)
    BY <1>6 DEF LoadFirst, At
  <2>2. next_block = 1
    BY <1>1, <2>1 DEF Arrays
  <2>3. next_block' = 2 /\ num_edges' > 0
    BY <2>1, <2>2, Blocks DEF LoadBlock
  <2>4. mpc' = <<"load", "set">>
    BY <2>1, <2>3 DEF LoopHead
  <2>5. Given' = 1
    BY <2>3, <2>4 DEF Given
  <2>6. \A op \in Ops : ~ (op <= 0)
    BY LogEntries
  <2>. QED
    BY <1>2, <2>5, <2>6 DEF AppliedUpTo
<1>7. CASE SetTask("load", Task("LOAD_EDGES", front, num_edges))
  <2>1. mpc = <<"load", "set">> /\ mpc' = <<"load", "notify">> /\ UNCHANGED <<num_edges, next_block>>
    BY <1>3, <1>7 DEF SetTask, At, loaderVars
  <2>2. Given' = Given
    BY <2>1 DEF Given
  <2>. QED
    BY <1>5, <2>1, <2>2
<1>8. CASE NotifyWorker("load", <<"load", "next">>)
  <2>1. mpc = <<"load", "notify">> /\ mpc' \in {<<"load", "set">>, <<"load", "next">>} /\ UNCHANGED <<num_edges, next_block>>
    BY <1>8 DEF NotifyWorker, ForEachWorker, At, loaderVars
  <2>2. Given' = Given
    BY <2>1 DEF Given
  <2>. QED
    BY <1>5, <2>1, <2>2
<1>9. CASE LoadNext
  <2>1. mpc = <<"load", "next">> /\ mpc' = <<"load", "wait">> /\ LoadBlock(Back(front))
    BY <1>9 DEF LoadNext, At
  <2>2. Given = next_block - 1
    BY <2>1 DEF Given
  <2>3. CASE next_block <= NumBlocks
    <3>1. next_block' = next_block + 1 /\ num_edges' = BlockSize(next_block) /\ next_block \in 1 .. NumBlocks
      BY <1>1, <1>2, <2>1, <2>3 DEF LoadBlock, Types
    <3>2. num_edges' > 0
      BY <3>1, Blocks
    <3>3. Given' = next_block' - 2
      BY <2>1, <3>2 DEF Given
    <3>. QED
      BY <1>2, <1>5, <2>1, <2>2, <3>1, <3>3
  <2>4. CASE ~ (next_block <= NumBlocks)
    <3>1. next_block' = next_block /\ num_edges' = 0
      BY <2>1, <2>4 DEF LoadBlock
    <3>2. Given' = Given
      BY <2>2, <3>1 DEF Given
    <3>. QED
      BY <1>5, <2>1, <3>2
  <2>. QED
    BY <2>3, <2>4
<1>10. CASE WaitWorker("load", <<"load", "wait">>, <<"load", "swap">>)
  <2>1. mpc = <<"load", "wait">> /\ mpc' \in {<<"load", "wait">>, <<"load", "swap">>} /\ UNCHANGED <<num_edges, next_block>>
    BY <1>10 DEF WaitWorker, ForEachWorker, At, loaderVars
  <2>2. Given' = Given
    BY <2>1 DEF Given
  <2>. QED
    BY <1>5, <2>1, <2>2
<1>11. CASE SwapArrays
  BY <1>3, <1>11 DEF SwapArrays, AfterLoad
<1>12. CASE EndRun /\ mpc' = <<"load", "set">> /\ num_edges > 0
  <2>1. mpc = <<"run", "end">> /\ UNCHANGED <<num_edges, next_block>>
    BY <1>12 DEF EndRun, At, loaderVars
  <2>2. AppliedUpTo(End(Given))
    BY <1>4, <2>1, RunEnded
  <2>3. Given = next_block - 2 /\ Given' = next_block - 1
    BY <1>12, <2>1 DEF Given
  <2>4. Given' - 1 = Given
    BY <1>2, <2>3
  <2>. QED
    BY <2>2, <2>4
<1>. QED
  BY <1>1, <1>3, <1>6, <1>7, <1>8, <1>9, <1>10, <1>11, <1>12, Phases

(* Every step keeps the barrier. *)
LEMMA BarrierNext ==
    ASSUME Handshake, Updates, Emptying, Barrier, [Next]_vars
    PROVE  Barrier'
<1>1. SUFFICES ASSUME Mode = "small_batch" PROVE Barrier'
  BY DEF Barrier
<1>2. CASE MasterStep
  <2>1. Previous'
    BY <1>1, <1>2, PreviousMaster DEF Barrier, Emptying
  <2>2. /\ UNCHANGED <<m_updates, applied>> /\ (m_stop_experiment => m_stop_experiment')
        /\ UNCHANGED pc \/ pc' = [pc EXCEPT ![mi] = "fetch"]
    BY <1>2, MasterLeaves
  <2>3. ASSUME NEW u \in W, Runs(u)' PROVE Behind(u)'
    <3>1. Runs(u)
      BY <2>2, <2>3 DEF Runs, Handshake, Types
    <3>2. Behind(u)
      BY <1>1, <3>1 DEF Barrier
    <3>. QED
      BY <2>2, <3>2 DEF Behind, Covered, AppliedUpTo, In, End
  <2>. QED
    BY <2>1, <2>3 DEF Barrier
<1>3. ASSUME NEW w \in W, WorkerStep(w) \/ SpuriousWakeup(w), UNCHANGED masterVars PROVE Barrier'
  BY <1>1, <1>3, BarrierWorker
<1>4. CASE MasterSpuriousWakeup \/ UNCHANGED vars
  <2>1. UNCHANGED <<mpc, num_edges, next_block, m_stop_experiment, applied, pc, m_updates>>
    BY <1>4 DEF MasterSpuriousWakeup, vars, workerVars, localVars, libraryVars, workersLocal, masterVars, loaderVars
  <2>. QED
    BY <2>1 DEF Barrier, Previous, Runs, Behind, Covered, AppliedUpTo, In, End, Given
<1>. QED
  BY <1>2, <1>3, <1>4 DEF Next, Finished

(* The updates of the blocks before the one of a call are in the library. *)
LEMMA BatchBarrierNext ==
    ASSUME Handshake, Updates, Barrier, Mode = "small_batch", BatchBarrier, [Next]_vars
    PROVE  BatchBarrier'
<1>1. CASE UNCHANGED applied
  <2>1. ASSUME NEW i \in 1 .. Len(applied'), NEW x \in 1 .. BlockFirst(BlockOf(applied'[i])) - 1
        PROVE  \E j \in 1 .. i - 1 : applied'[j] = x
    <3>1. i \in 1 .. Len(applied) /\ x \in 1 .. BlockFirst(BlockOf(applied[i])) - 1
      BY <1>1, <2>1
    <3>2. \E j \in 1 .. i - 1 : applied[j] = x
      BY <3>1 DEF BatchBarrier
    <3>. QED
      BY <1>1, <3>2
  <2>. QED
    BY <2>1 DEF BatchBarrier, BlockOf, BlockFirst
<1>2. ASSUME NEW w \in W, CallLibrary(w) PROVE BatchBarrier'
  <2>1. PICK op \in Ops : op = CurrentOp(w)
    BY <1>2, FirstWaiting DEF CallLibrary
  <2> DEFINE n == Len(applied)
  <2>2. pc[w] = "call" /\ applied' = Append(applied, op) /\ applied \in Seq(Ops)
    BY <1>2, <2>1 DEF CallLibrary, Updates, UpdateTypes
  <2>3. op = m_updates[w][Cur(w)][ex[w].pos + 1] /\ Cur(w) \in Nat /\ ex[w].pos + 1 \in Nat /\ In(w, Cur(w), ex[w].pos + 1)
    BY <2>1, <2>2, FirstWaiting DEF Waits
  <2>4. Covered(op)
    BY <2>2, <2>3 DEF Barrier, Runs, Behind
  <2>5. PICK c \in 1 .. NumBlocks : op > End(c - 1) /\ op <= End(c) /\ AppliedUpTo(End(c - 1))
    BY <2>4 DEF Covered
  <2>6. BlockOf(op) = c
    BY <2>5, BlockFound, LogEntries
  <2>7. BlockFirst(BlockOf(op)) - 1 = End(c - 1) /\ End(c - 1) \in Nat /\ End(c - 1) <= Len(Log)
    <3>1. BlockFirst(c) = End(c - 1) + 1 /\ End(c - 1) \in Nat /\ c - 1 \in 0 .. NumBlocks
      BY Blocks
    <3>2. End(c - 1) <= Len(Log)
      BY <3>1, Blocks
    <3>. QED
      BY <2>6, <3>1, <3>2
  <2>8. /\ Len(applied') = n + 1 /\ applied'[n + 1] = op /\ n \in Nat
        /\ \A i \in 1 .. n : applied'[i] = applied[i]
        /\ \A x : x \in Range(applied) <=> \E i \in 1 .. n : applied[i] = x
    BY <2>2, RangeAppended
  <2>9. ASSUME NEW i \in 1 .. Len(applied'), NEW x \in 1 .. BlockFirst(BlockOf(applied'[i])) - 1
        PROVE  \E j \in 1 .. i - 1 : applied'[j] = x
    <3>1. CASE i = n + 1
      <4>1. x \in 1 .. End(c - 1) /\ x \in Nat
        BY <2>7, <2>8, <2>9, <3>1
      <4>2. x \in Ops /\ x <= End(c - 1)
        BY <2>7, <4>1, Blocks DEF Ops
      <4>3. x \in Range(applied)
        BY <2>5, <4>2 DEF AppliedUpTo
      <4>. QED
        BY <2>8, <3>1, <4>3
    <3>2. CASE i # n + 1
      <4>1. i \in 1 .. n /\ 1 .. i - 1 \subseteq 1 .. n
        BY <2>8, <3>2
      <4>2. applied'[i] = applied[i] /\ \A j \in 1 .. i - 1 : applied'[j] = applied[j]
        BY <2>8, <4>1
      <4>3. \E j \in 1 .. i - 1 : applied[j] = x
        BY <2>9, <4>1, <4>2 DEF BatchBarrier
      <4>. QED
        BY <4>2, <4>3
    <3>. QED
      BY <3>1, <3>2
  <2>. QED
    BY <2>9 DEF BatchBarrier, BlockOf, BlockFirst
<1>. QED
  BY <1>1, <1>2, AppliedNext

(* At the start no block has been handed out. *)
LEMMA EmptyingInit == ASSUME Init PROVE Emptying /\ Barrier
<1>1. /\ m_updates = [w \in W |-> <<>>] /\ applied = <<>> /\ mpc = <<"ctor", "spawn">>
  BY DEF Init, WorkerInit
<1>2. \A w \in W, b, p \in Nat : ~ In(w, b, p)
  BY <1>1 DEF In
<1>. QED
  BY <1>1, <1>2 DEF Emptying, Complete, Emptied, Barrier, Previous, Behind, Ending

(* In the schedule of the experiment the batches are separated by a        *)
(* barrier, for any number of workers and of blocks, whatever their sizes, *)
(* and also when the experiment is stopped: an update of a block takes     *)
(* effect only after all those of the previous ones                        *)
(* (execute_synchronized_small_batch).                                     *)
THEOREM BatchBarrierHolds ==
    ASSUME Mode = "small_batch"
    PROVE  Spec => []BatchBarrier
<1> DEFINE J == Handshake /\ Updates /\ Emptying /\ Barrier /\ BatchBarrier
<1>1. Init => J
  <2>1. Init => applied = <<>>
    BY DEF Init, WorkerInit
  <2>. QED
    BY <2>1, HandshakeInit, UpdatesInit, EmptyingInit DEF BatchBarrier
<1>2. J /\ [Next]_vars => J'
  BY HandshakeNext, UpdatesNext, EmptyingNext, BarrierNext, BatchBarrierNext
<1>3. J => BatchBarrier
  OBVIOUS
<1>. QED
  BY <1>1, <1>2, <1>3, PTL DEF Spec

-----------------------------------------------------------------------------
(* The counters *)

(* The updates in the library are finitely many. *)
LEMMA AppliedFinite ==
    ASSUME applied \in Seq(Ops)
    PROVE  Range(applied) \subseteq Ops /\ IsFiniteSet(Ops) /\ Cardinality(Ops) = Len(Log) /\ \A S \in SUBSET Ops : IsFiniteSet(S)
<1>1. Range(applied) \subseteq Ops
  BY DEF Range
<1>2. Len(Log) \in Nat /\ Len(Log) > 0
  BY Blocks
<1>3. IsFiniteSet(1 .. Len(Log)) /\ Cardinality(1 .. Len(Log)) = Len(Log)
  <2>1. 1 \in Int /\ Len(Log) \in Int
    BY <1>2
  <2>2. IsFiniteSet(1 .. Len(Log)) /\ Cardinality(1 .. Len(Log)) = IF 1 > Len(Log) THEN 0 ELSE Len(Log) - 1 + 1
    BY <2>1, FS_Interval
  <2>. QED
    BY <1>2, <2>2
<1>4. IsFiniteSet(Ops) /\ Cardinality(Ops) = Len(Log)
  BY <1>3 DEF Ops
<1>. QED
  BY <1>1, <1>4, FS_Subset

(* A call adds an update that is not in the library yet. *)
LEMMA CallAdds ==
    ASSUME Handshake, Updates, NEW w \in W, CallLibrary(w)
    PROVE  \E op \in Ops : /\ op = CurrentOp(w) /\ OwnedBy(op, w) /\ op \notin Range(applied) /\ Range(applied') = Range(applied) \cup {op}
                           /\ Len(applied') = Len(applied) + 1
<1>1. PICK op \in Ops : op = CurrentOp(w) /\ OwnedBy(op, w)
  BY FirstWaiting DEF CallLibrary
<1>2. pc[w] = "call" /\ applied' = Append(applied, op) /\ applied \in Seq(Ops) /\ op \in Nat
  BY <1>1, LogEntries DEF CallLibrary, Updates, UpdateTypes
<1>3. op \notin Range(applied)
  BY <1>1, <1>2, CallOrder
<1>4. Len(applied') = Len(applied) + 1 /\ \A x : x \in Range(applied') <=> x \in Range(applied) \/ x = op
  BY <1>2, RangeAppended
<1>. QED
  BY <1>1, <1>3, <1>4

(* Every step counts the updates that it applies. *)
LEMMA CountingNext ==
    ASSUME Handshake, Updates, Counting, [Next]_vars
    PROVE  Counting'
<1>1. ASSUME NEW w \in W, CallLibrary(w) PROVE Counting'
  <2>1. PICK op \in Ops : /\ OwnedBy(op, w) /\ op \notin Range(applied) /\ Range(applied') = Range(applied) \cup {op}
                          /\ Len(applied') = Len(applied) + 1
    BY <1>1, CallAdds
  <2>2. Range(applied) \subseteq Ops /\ IsFiniteSet(Range(applied)) /\ \A u \in W : IsFiniteSet(Mine(u))
    <3>1. applied \in Seq(Ops)
      BY DEF Updates, UpdateTypes
    <3>2. \A u \in W : Mine(u) \in SUBSET Ops
      BY <3>1, AppliedFinite DEF Mine
    <3>. QED
      BY <3>1, <3>2, AppliedFinite
  <2>3. Cardinality(Range(applied')) = Cardinality(Range(applied)) + 1
    BY <2>1, <2>2, FS_AddElement
  <2>4. m_num_operations' = [m_num_operations EXCEPT ![w] = @ + 1]
    BY <1>1 DEF CallLibrary
  <2>5. ASSUME NEW u \in W PROVE m_num_operations'[u] = Cardinality(Mine(u)')
    <3>1. CASE u = w
      <4>1. Mine(u)' = Mine(u) \cup {op}
        BY <2>1, <3>1 DEF Mine
      <4>2. op \notin Mine(u)
        BY <2>1 DEF Mine
      <4>3. Cardinality(Mine(u)') = Cardinality(Mine(u)) + 1
        BY <2>2, <4>1, <4>2, FS_AddElement
      <4>. QED
        BY <2>4, <3>1, <4>3 DEF Counting
    <3>2. CASE u # w
      <4>1. ~ OwnedBy(op, u)
        BY <2>1, <3>2 DEF OwnedBy
      <4>2. Mine(u)' = Mine(u)
        BY <2>1, <4>1 DEF Mine
      <4>. QED
        BY <2>4, <3>2, <4>2 DEF Counting
    <3>. QED
      BY <3>1, <3>2
  <2>. QED
    BY <2>1, <2>3, <2>4, <2>5 DEF Counting
<1>2. CASE UNCHANGED <<applied, m_num_operations>>
  BY <1>2 DEF Counting, Mine
<1>3. MasterStep => UNCHANGED <<applied, m_num_operations>>
  BY DEF MasterStep, Spawn, WaitWorker, LoadFirst, LoadNext, SetTask, NotifyWorker, SwapArrays, PrepareLatencies, StartRun, SetRunning,
         RecordIdle, RecordTick, DrainIdle, DrainExpired, EndRun, StoreResults, SetStop, NotifyStop, Join, workerVars, workersLocal, localVars, libraryVars
<1>4. ASSUME NEW w \in W, WorkerStep(w) \/ SpuriousWakeup(w) PROVE UNCHANGED <<applied, m_num_operations>> \/ CallLibrary(w)
  BY <1>4 DEF WorkerStep, SpuriousWakeup, FetchTask, WakeUp, LoadEdges, LoopDone, NextChunk, CheckStop,
              CountChunk, ReportTime, StoreTime, RemoveVertex, Exit, localVars, libraryVars
<1>. QED
  BY <1>1, <1>2, <1>3, <1>4 DEF Next, MasterSpuriousWakeup, Finished, vars, workerVars, workersLocal, localVars, libraryVars

(* The updates of a chunk that have been executed are in the library, and  *)
(* all different.                                                          *)
LEMMA ChunkApplied ==
    ASSUME Handshake, Updates, NEW w \in W, Runs(w), pc[w] \in {"check", "call", "count"}
    PROVE  /\ Chunk(w) \subseteq Range(applied) /\ \A op \in Chunk(w) : op \in Ops /\ OwnedBy(op, w)
           /\ IsFiniteSet(Chunk(w)) /\ Cardinality(Chunk(w)) = ex[w].pos - ex[w].start
<1> DEFINE c == Cur(w)  n == ex[w].start  m == ex[w].pos
<1>1. UpdateTypes /\ Loops(w) /\ Buffered(w) /\ pc[w] \in Executing /\ ex[w] \in Locals /\ m_updates[w] \in Seq(Seq(Ops))
  BY DEF Updates, Executing, UpdateTypes
<1>2. ex[w].i <= ex[w].end /\ m <= ChunkEnd(w) /\ n <= m /\ m \in Nat /\ n \in Nat
  BY <1>1 DEF Loops, Executing, Locals
<1>3. /\ c \in 1 .. Len(m_updates[w]) /\ Operations(w) = m_updates[w][c]
      /\ Operations(w) \in Seq(Ops) /\ Len(Operations(w)) \in Nat
  BY <1>1, <1>2, CurBuffer
<1>4. ChunkEnd(w) \in Nat /\ ChunkEnd(w) <= Len(Operations(w))
  BY <1>2, <1>3, ChunkBounds
<1> HIDE DEF c
<1>5. ASSUME NEW k \in n + 1 .. m
      PROVE  /\ k \in Nat /\ c \in Nat /\ In(w, c, k) /\ Executed(w, c, k) /\ Operations(w)[k] = m_updates[w][c][k]
             /\ k \in 1 .. Len(Operations(w)) /\ Operations(w)[k] \in Ops
  <2>1. k \in Nat /\ k \in 1 .. Len(Operations(w)) /\ k <= m
    BY <1>2, <1>3, <1>4
  <2>2. Operations(w)[k] \in Ops
    BY <1>3, <2>1, ElementOfSeq
  <2>. QED
    BY <1>1, <1>2, <1>3, <2>1, <2>2 DEF In, Executed, c
<1>6. ASSUME NEW k \in n + 1 .. m PROVE OwnedBy(Operations(w)[k], w) /\ Operations(w)[k] \in Range(applied)
  <2>1. OwnedBy(Operations(w)[k], w) /\ Operations(w)[k] <= Loaded(w)
    BY <1>1, <1>5 DEF Buffered
  <2>2. ASSUME NEW b \in Nat, NEW p \in Nat, Waits(w, b, p) PROVE m_updates[w][b][p] # Operations(w)[k]
    <3>1. In(w, b, p) /\ ~ Executed(w, b, p)
      BY <2>2 DEF Waits
    <3>2. Before(c, k, b, p)
      BY <1>1, <1>2, <1>5, <3>1 DEF Executed, Before, c
    <3>3. m_updates[w][c][k] < m_updates[w][b][p]
      BY <1>1, <1>5, <3>1, <3>2 DEF Buffered
    <3>4. m_updates[w][c][k] \in Nat
      BY <1>5, LogEntries
    <3>. QED
      BY <1>5, <3>3, <3>4
  <2>. QED
    BY <1>1, <1>5, <2>1, <2>2 DEF Buffered
<1>7. ASSUME NEW k \in n + 1 .. m, NEW l \in n + 1 .. m, k # l PROVE Operations(w)[k] # Operations(w)[l]
  <2>1. k \in Nat /\ l \in Nat /\ Operations(w)[k] \in Nat /\ Operations(w)[l] \in Nat
    BY <1>5, LogEntries
  <2>2. k < l => Operations(w)[k] < Operations(w)[l]
    BY <1>1, <1>5 DEF Buffered, Before
  <2>3. l < k => Operations(w)[l] < Operations(w)[k]
    BY <1>1, <1>5 DEF Buffered, Before
  <2>. QED
    BY <1>7, <2>1, <2>2, <2>3
<1>8. IsFiniteSet(Chunk(w)) /\ Cardinality(Chunk(w)) = m - n
  <2> DEFINE S == n + 1 .. m  f == [k \in S |-> Operations(w)[k]]
  <2>1. f \in Bijection(S, Chunk(w))
    BY <1>7 DEF Bijection, Injection, Surjection, IsInjective, Chunk
  <2>2. ExistsBijection(S, Chunk(w))
    BY <2>1 DEF ExistsBijection
  <2>3. IsFiniteSet(S) /\ Cardinality(S) = m - n
    <3>1. n + 1 \in Int /\ m \in Int
      BY <1>2
    <3>2. IsFiniteSet(S) /\ Cardinality(S) = IF n + 1 > m THEN 0 ELSE m - (n + 1) + 1
      BY <3>1, FS_Interval
    <3>. QED
      BY <1>2, <3>2
  <2>. QED
    BY <2>2, <2>3, FS_Bijection
<1>. QED
  BY <1>5, <1>6, <1>8 DEF Chunk

(* An open chunk of a worker: only its calls and its counter change it. *)
LEMMA OpenKept ==
    ASSUME Handshake, Updates, NEW w \in W, WorkerStep(w) \/ SpuriousWakeup(w), ~ CallLibrary(w), ~ CountChunk(w), NEW u \in W
    PROVE  Open(u)' = Open(u)
<1>1. Types /\ UpdateTypes /\ Slot(w) /\ Place(w) /\ Loops(w) /\ pc \in [W -> Labels]
  BY DEF Handshake, Types, Updates
<1>2. CASE u # w
  <2>1. m_updates'[u] = m_updates[u] /\ ex'[u] = ex[u] /\ pc'[u] = pc[u]
    BY <1>1, <1>2, OtherWorkers
  <2>. QED
    BY <2>1 DEF Open, Chunk, Operations
<1>3. CASE u = w
  <2>1. CASE CheckStop(w)
    <3>1. pc[w] = "check" /\ pc'[w] \in {"count", "call"} /\ UNCHANGED <<m_updates, ex>>
      BY <1>1, <2>1 DEF CheckStop, localVars
    <3>. QED
      BY <1>3, <3>1 DEF Open, Chunk, Operations
  <2>2. CASE NextChunk(w)
    <3>1. pc[w] = "buffer" /\ ex[w].pos = ex[w].start /\ (pc'[w] = "check" => UNCHANGED ex) /\ pc'[w] \in {"fetch", "check", "buffer"}
      BY <1>1, <2>2 DEF NextChunk, Loops, Executing
    <3>2. ex[w].start + 1 .. ex[w].pos = {}
      <4>1. ex[w].start \in Nat
        BY <1>1 DEF UpdateTypes, Locals
      <4>. QED
        BY <3>1, <4>1
    <3>3. pc'[w] = "check" => Chunk(w)' = {}
      BY <3>1, <3>2 DEF Chunk
    <3>. QED
      BY <1>3, <3>1, <3>3 DEF Open
  <2>3. CASE WakeUp(w)
    <3>1. pc[w] = "waiting" /\ pc'[w] \notin {"check", "call", "count"}
      BY <1>1, <2>3, WakesElsewhere DEF WakeUp
    <3>. QED
      BY <1>3, <3>1 DEF Open
  <2>4. CASE FetchTask(w) \/ LoadEdges(w) \/ LoopDone(w) \/ ReportTime(w) \/ StoreTime(w) \/ RemoveVertex(w) \/ Exit(w)
    <3>1. pc[w] \notin {"check", "call", "count"} /\ pc'[w] \notin {"check", "call", "count"}
      BY <1>1, <2>4 DEF FetchTask, LoadEdges, LoopDone, ReportTime, StoreTime, RemoveVertex, Exit
    <3>. QED
      BY <1>3, <3>1 DEF Open
  <2>5. CASE SpuriousWakeup(w)
    BY <2>5 DEF SpuriousWakeup, localVars, Open, Chunk, Operations
  <2>. QED
    BY <2>1, <2>2, <2>3, <2>4, <2>5 DEF WorkerStep
<1>. QED
  BY <1>2, <1>3

(* The master leaves the chunks alone. *)
LEMMA OpenMaster ==
    ASSUME Handshake, MasterStep, NEW u \in W
    PROVE  Open(u)' = Open(u)
<1>1. UNCHANGED <<m_updates, ex>>
  BY MasterLeaves
<1>2. CASE pc'[u] = pc[u]
  BY <1>1, <1>2 DEF Open, Chunk, Operations
<1>3. CASE mpc = <<"ctor", "spawn">> /\ pc' = [pc EXCEPT ![mi] = "fetch"] /\ u = mi
  <2>1. Types /\ Slot(u) /\ Place(u)
    BY DEF Handshake
  <2>2. pc'[u] = "fetch"
    BY <1>3, <2>1 DEF Types
  <2>3. IsIdle(u)
    BY <1>3, <2>1 DEF Slot, Free
  <2>4. pc[u] \notin {"check", "call", "count"}
    BY <2>1, <2>3 DEF Place
  <2>. QED
    BY <2>2, <2>4 DEF Open
<1>. QED
  BY <1>2, <1>3, MasterLeaves DEF Handshake, Types

(* A call adds its update to the chunk of the worker. *)
LEMMA OpenCall ==
    ASSUME Handshake, Updates, NEW w \in W, CallLibrary(w)
    PROVE  \A u \in W : Open(u)' = IF u = w THEN Open(u) \cup {CurrentOp(w)} ELSE Open(u)
<1> DEFINE n == ex[w].start  m == ex[w].pos
<1>1. Types /\ UpdateTypes /\ Loops(w) /\ pc[w] = "call" /\ pc'[w] = "check" /\ ex[w] \in Locals /\ UNCHANGED m_updates
      /\ ex' = [ex EXCEPT ![w].pos = @ + 1]
  BY DEF Handshake, Types, Updates, UpdateTypes, CallLibrary
<1>2. n \in Nat /\ m \in Nat /\ n <= m
  BY <1>1 DEF Loops, Executing, Locals
<1>3. ex'[w].start = n /\ ex'[w].pos = m + 1 /\ ex'[w].i = ex[w].i
  BY <1>1 DEF UpdateTypes, Locals
<1>4. Operations(w)' = Operations(w)
  BY <1>1, <1>3 DEF Operations
<1>5. Chunk(w)' = Chunk(w) \cup {CurrentOp(w)}
  <2>1. n + 1 .. m + 1 = (n + 1 .. m) \cup {m + 1}
    BY <1>2
  <2>2. Chunk(w)' = {Operations(w)[k] : k \in n + 1 .. m + 1}
    BY <1>3, <1>4 DEF Chunk
  <2>. QED
    BY <2>1, <2>2 DEF Chunk, CurrentOp
<1>6. Open(w)' = Open(w) \cup {CurrentOp(w)}
  BY <1>1, <1>5 DEF Open
<1>7. ASSUME NEW u \in W, u # w PROVE Open(u)' = Open(u)
  <2>1. m_updates'[u] = m_updates[u] /\ ex'[u] = ex[u] /\ pc'[u] = pc[u]
    BY <1>1, <1>7, OtherWorkers DEF WorkerStep
  <2>. QED
    BY <2>1 DEF Open, Chunk, Operations
<1>. QED
  BY <1>6, <1>7

(* The counter of the master, when a chunk is over. *)
LEMMA PerformedCount ==
    ASSUME Handshake, Updates, Performed, NEW w \in W, CountChunk(w), ~ m_stop_experiment
    PROVE  m_num_operations_performed' = Cardinality(Range(applied') \ Pending')
<1> DEFINE A == Range(applied) \ Pending  B == Chunk(w)
<1>1. /\ Types /\ UpdateTypes /\ Loops(w) /\ pc[w] = "count" /\ pc'[w] \in {"cas", "buffer"} /\ UNCHANGED applied
      /\ m_num_operations_performed' = m_num_operations_performed + (ChunkEnd(w) - ex[w].start) /\ applied \in Seq(Ops)
  BY DEF Handshake, Types, Updates, UpdateTypes, CountChunk, libraryVars
<1>2. ex[w].pos = ChunkEnd(w)
  BY <1>1 DEF Loops, Executing
<1>3. ASSUME NEW u \in W, NEW x \in Open(u) PROVE x \in Ops /\ OwnedBy(x, u) /\ x \in Range(applied)
  BY <1>3, ChunkApplied DEF Open, Runs
<1>4. B \subseteq Range(applied) /\ IsFiniteSet(B) /\ Cardinality(B) = ChunkEnd(w) - ex[w].start /\ Open(w) = B
  BY <1>1, <1>2, ChunkApplied DEF Runs, Open
<1>5. ASSUME NEW u \in W PROVE Open(u)' = IF u = w THEN {} ELSE Open(u)
  <2>1. u = w => Open(u)' = {}
    BY <1>1 DEF Open
  <2>2. ASSUME u # w PROVE Open(u)' = Open(u)
    <3>1. m_updates'[u] = m_updates[u] /\ ex'[u] = ex[u] /\ pc'[u] = pc[u]
      BY <1>1, <2>2, OtherWorkers DEF WorkerStep
    <3>. QED
      BY <3>1 DEF Open, Chunk, Operations
  <2>. QED
    BY <2>1, <2>2
<1>6. ASSUME NEW x PROVE x \in Pending' <=> x \in Pending /\ x \notin B
  <2>1. x \in Pending' <=> x \in Ops /\ \E u \in W : u # w /\ x \in Open(u)
    BY <1>5 DEF Pending
  <2>2. ASSUME NEW u \in W, u # w, x \in Open(u) PROVE x \notin B
    BY <1>3, <1>4, <2>2 DEF OwnedBy
  <2>3. x \in Pending /\ x \notin B => \E u \in W : u # w /\ x \in Open(u)
    BY <1>4 DEF Pending
  <2>. QED
    BY <2>1, <2>2, <2>3 DEF Pending
<1>7. Range(applied') \ Pending' = A \cup B /\ A \cap B = {}
  <2>1. B \subseteq Pending
    BY <1>3, <1>4 DEF Pending
  <2>. QED
    BY <1>1, <1>4, <1>6, <2>1
<1>8. IsFiniteSet(A) /\ Cardinality(A) = m_num_operations_performed
  BY <1>1, AppliedFinite DEF Performed
<1>9. Cardinality(A \cup B) = Cardinality(A) + Cardinality(B)
  <2>1. Cardinality(A \cup B) = Cardinality(A) + Cardinality(B) - Cardinality(A \cap B)
    BY <1>4, <1>8, FS_Union
  <2>2. Cardinality(A) \in Nat /\ Cardinality(B) \in Nat /\ Cardinality(A \cap B) = 0
    BY <1>4, <1>7, <1>8, FS_CardinalityType, FS_EmptySet
  <2>. QED
    BY <2>1, <2>2
<1>. QED
  BY <1>1, <1>4, <1>7, <1>8, <1>9

(* The counter of the master is right at every step. *)
LEMMA PerformedNext ==
    ASSUME Handshake, Updates, Performed, [Next]_vars
    PROVE  Performed'
<1>1. SUFFICES ASSUME ~ m_stop_experiment' PROVE m_num_operations_performed' = Cardinality(Range(applied') \ Pending')
  BY DEF Performed
<1>2. CASE UNCHANGED <<applied, m_num_operations_performed>> /\ ~ m_stop_experiment /\ \A u \in W : Open(u)' = Open(u)
  <2>1. Pending' = Pending
    BY <1>2 DEF Pending
  <2>. QED
    BY <1>2, <2>1 DEF Performed
<1>3. CASE MasterStep
  <2>1. UNCHANGED applied /\ (m_stop_experiment => m_stop_experiment')
    BY <1>3, MasterLeaves
  <2>2. UNCHANGED m_num_operations_performed
    BY <1>3 DEF MasterStep, Spawn, WaitWorker, LoadFirst, LoadNext, SetTask, NotifyWorker, SwapArrays, PrepareLatencies, StartRun, SetRunning,
         RecordIdle, RecordTick, DrainIdle, DrainExpired, EndRun, StoreResults, SetStop, NotifyStop, Join, workerVars, workersLocal, reportVars
  <2>. QED
    BY <1>1, <1>2, <1>3, <2>1, <2>2, OpenMaster
<1>4. ASSUME NEW w \in W, WorkerStep(w) \/ SpuriousWakeup(w) PROVE m_num_operations_performed' = Cardinality(Range(applied') \ Pending')
  <2>1. UNCHANGED m_stop_experiment
    BY <1>4, WorkerLeaves
  <2>2. CASE CountChunk(w)
    BY <1>1, <2>1, <2>2, PerformedCount
  <2>3. CASE CallLibrary(w)
    <3>1. PICK op \in Ops : op = CurrentOp(w) /\ op \notin Range(applied) /\ Range(applied') = Range(applied) \cup {op}
      BY <2>3, CallAdds
    <3>2. \A u \in W : Open(u)' = IF u = w THEN Open(u) \cup {op} ELSE Open(u)
      BY <2>3, <3>1, OpenCall
    <3>3. \A x : x \in Pending' <=> x \in Pending \/ x = op
      BY <3>2 DEF Pending
    <3>4. Range(applied') \ Pending' = Range(applied) \ Pending
      BY <3>1, <3>3
    <3>5. UNCHANGED m_num_operations_performed
      BY <2>3 DEF CallLibrary, reportVars
    <3>. QED
      BY <1>1, <2>1, <3>4, <3>5 DEF Performed
  <2>4. CASE ~ CountChunk(w) /\ ~ CallLibrary(w)
    <3>1. UNCHANGED <<applied, m_num_operations_performed>>
      BY <1>4, <2>4, WorkerLeaves
    <3>. QED
      BY <1>1, <1>2, <1>4, <2>1, <2>4, <3>1, OpenKept
  <2>. QED
    BY <2>2, <2>3, <2>4
<1>5. CASE MasterSpuriousWakeup \/ UNCHANGED vars
  <2>1. UNCHANGED <<applied, m_num_operations_performed, m_stop_experiment, pc, ex, m_updates>>
    BY <1>5 DEF MasterSpuriousWakeup, vars, workerVars, workersLocal, localVars, reportVars, libraryVars
  <2>2. \A u \in W : Open(u)' = Open(u)
    BY <2>1 DEF Open, Chunk, Operations
  <2>. QED
    BY <1>1, <1>2, <2>1, <2>2
<1>. QED
  BY <1>3, <1>4, <1>5 DEF Next, Finished

-----------------------------------------------------------------------------
(* The reports *)

(* What a coefficient is worth, for more than the n updates it comes from. *)
LEMMA CoeffReached ==
    ASSUME NEW n \in Nat, NEW m \in Nat, n <= m
    PROVE  AgingCoeff(n) \in Nat /\ m * ReportsPerOps >= AgingCoeff(n) * FinalEdges
<1>1. ReportsPerOps \in Nat /\ FinalEdges \in Nat /\ FinalEdges > 0
  BY ParameterAssumption
<1>2. n * ReportsPerOps \in Nat /\ m * ReportsPerOps \in Nat
  BY <1>1
<1>3. n * ReportsPerOps <= m * ReportsPerOps
  BY <1>1
<1>4. ASSUME NEW a \in Nat, NEW b \in Nat, b > 0 PROVE (a \div b) * b <= a /\ a \div b \in Nat /\ (a \div b) * b \in Nat
  BY <1>4
<1>5. AgingCoeff(n) * FinalEdges <= n * ReportsPerOps /\ AgingCoeff(n) \in Nat /\ AgingCoeff(n) * FinalEdges \in Nat
  BY <1>1, <1>2, <1>4 DEF AgingCoeff
<1>. QED
  BY <1>2, <1>3, <1>5

(* No more updates are counted than there are in the library. *)
LEMMA PerformedAtMost ==
    ASSUME Updates, Counting, Performed, ~ m_stop_experiment
    PROVE  m_num_operations_performed \in Nat /\ Len(applied) \in Nat /\ m_num_operations_performed <= Len(applied)
<1>1. applied \in Seq(Ops) /\ m_num_operations_performed \in Nat
  BY DEF Updates, UpdateTypes
<1>2. IsFiniteSet(Range(applied)) /\ Range(applied) \ Pending \in SUBSET Range(applied)
  BY <1>1, AppliedFinite
<1>3. Cardinality(Range(applied) \ Pending) <= Cardinality(Range(applied))
  BY <1>2, FS_Subset
<1>. QED
  BY <1>1, <1>3 DEF Performed, Counting

(* More updates keep a time that is reached. *)
LEMMA ReachedLater ==
    ASSUME NEW n \in Nat, NEW m \in Nat, n <= m, NEW k \in Nat, n * ReportsPerOps >= k * FinalEdges
    PROVE  m * ReportsPerOps >= k * FinalEdges
<1>1. ReportsPerOps \in Nat /\ FinalEdges \in Nat
  BY ParameterAssumption
<1>2. n * ReportsPerOps <= m * ReportsPerOps
  BY <1>1
<1>3. n * ReportsPerOps \in Nat /\ m * ReportsPerOps \in Nat /\ k * FinalEdges \in Nat
  BY <1>1
<1>. QED
  BY <1>2, <1>3

(* The coefficients that the workers are about to report. *)
LEMMA ReachedWorker ==
    ASSUME Handshake, Updates, Counting, Performed, Reporting, Reached, NEW w \in W, WorkerStep(w) \/ SpuriousWakeup(w), ~ m_stop_experiment
    PROVE  /\ \A u \in W : pc'[u] \in {"cas", "store"} => Len(applied') * ReportsPerOps >= ex'[u].coeff * FinalEdges
           /\ Timely'
<1>1. Types /\ pc \in [W -> Labels] /\ Slot(w) /\ UpdateTypes /\ ex \in [W -> Locals] /\ UNCHANGED m_stop_experiment
  BY WorkerLeaves DEF Handshake, Types, Updates, UpdateTypes
<1>2. m_num_operations_performed \in Nat /\ Len(applied) \in Nat /\ m_num_operations_performed <= Len(applied)
  BY PerformedAtMost
<1>3. Len(applied') \in Nat /\ Len(applied) <= Len(applied')
  <2>1. CASE CallLibrary(w)
    <3>1. Len(applied') = Len(applied) + 1
      BY <2>1, CallAdds
    <3>. QED
      BY <1>2, <3>1
  <2>2. CASE UNCHANGED applied
    BY <1>2, <2>2
  <2>. QED
    BY <2>1, <2>2, WorkerLeaves
<1>4. ASSUME NEW u \in W, pc'[u] \in {"cas", "store"} PROVE Len(applied') * ReportsPerOps >= ex'[u].coeff * FinalEdges
  <2>1. CASE pc[u] \in {"cas", "store"} /\ ex'[u] = ex[u]
    <3>1. ex[u].coeff \in Nat /\ Len(applied) * ReportsPerOps >= ex[u].coeff * FinalEdges
      BY <1>1, <2>1 DEF Reached, Locals
    <3>. QED
      BY <1>2, <1>3, <2>1, <3>1, ReachedLater
  <2>2. CASE u # w
    BY <1>1, <1>4, <2>1, <2>2, OtherWorkers
  <2>3. CASE CountChunk(w) /\ u = w
    <3>1. ex'[u].coeff = AgingCoeff(m_num_operations_performed)
      <4>1. pc'[u] = IF AgingCoeff(m_num_operations_performed) > ex[w].last THEN "cas" ELSE "buffer"
        BY <1>1, <2>3 DEF CountChunk
      <4>2. ex'[u] = [ex[w] EXCEPT !.coeff = AgingCoeff(m_num_operations_performed)]
        BY <1>1, <1>4, <2>3, <4>1 DEF CountChunk
      <4>. QED
        BY <1>1, <4>2 DEF Locals
    <3>2. AgingCoeff(m_num_operations_performed) \in Nat /\ Len(applied) * ReportsPerOps >= AgingCoeff(m_num_operations_performed) * FinalEdges
      BY <1>2, CoeffReached
    <3>. QED
      BY <1>2, <1>3, <3>1, <3>2, ReachedLater
  <2>4. CASE SpuriousWakeup(w)
    BY <1>1, <1>4, <2>1, <2>4 DEF SpuriousWakeup, localVars
  <2>5. CASE u = w /\ ReportTime(w)
    <3>1. pc[u] = "cas" /\ UNCHANGED ex
      BY <1>1, <1>4, <2>5 DEF ReportTime
    <3>. QED
      BY <2>1, <3>1
  <2>6. CASE u = w /\ WorkerStep(w) /\ ~ CountChunk(w) /\ ~ ReportTime(w)
    <3>1. ~ WakeUp(w)
      BY <1>1, <1>4, <2>6, WakesElsewhere
    <3>2. ~ (FetchTask(w) \/ LoadEdges(w) \/ LoopDone(w) \/ NextChunk(w) \/ CheckStop(w) \/ CallLibrary(w) \/ StoreTime(w) \/ RemoveVertex(w) \/ Exit(w))
      BY <1>1, <1>4, <2>6 DEF FetchTask, LoadEdges, LoopDone, NextChunk, CheckStop, CallLibrary, StoreTime, RemoveVertex, Exit
    <3>. QED
      BY <2>6, <3>1, <3>2 DEF WorkerStep
  <2>. QED
    BY <2>2, <2>3, <2>4, <2>5, <2>6
<1>5. Timely'
  <2>1. CASE UNCHANGED m_reported_times
    BY <1>1, <2>1 DEF Reached, Timely
  <2>2. CASE StoreTime(w)
    <3>1. pc[w] = "store" /\ m_reported_times' = [m_reported_times EXCEPT ![ex[w].coeff] = Len(applied)]
      BY <2>2 DEF StoreTime
    <3>2. Len(applied) * ReportsPerOps >= ex[w].coeff * FinalEdges
      BY <3>1 DEF Reached
    <3>3. ASSUME NEW k \in 1 .. ReportedTimesSz, m_reported_times'[k] # NotReported PROVE m_reported_times'[k] * ReportsPerOps >= k * FinalEdges
      <4>1. CASE k = ex[w].coeff
        BY <3>1, <3>2, <4>1 DEF Reporting
      <4>2. CASE k # ex[w].coeff
        <5>1. m_reported_times'[k] = m_reported_times[k]
          BY <3>1, <4>2 DEF Reporting
        <5>. QED
          BY <3>3, <5>1 DEF Reached, Timely
      <4>. QED
        BY <4>1, <4>2
    <3>. QED
      BY <3>3 DEF Timely
  <2>. QED
    BY <2>1, <2>2 DEF WorkerStep, SpuriousWakeup, FetchTask, WakeUp, LoadEdges, LoopDone, NextChunk, CheckStop, CallLibrary,
                      CountChunk, ReportTime, RemoveVertex, Exit, reportVars
<1>. QED
  BY <1>4, <1>5

(* Every step keeps the times that are reached. *)
LEMMA ReachedNext ==
    ASSUME Handshake, Updates, Counting, Performed, Reporting, Reached, [Next]_vars
    PROVE  Reached'
<1>1. SUFFICES ASSUME ~ m_stop_experiment'
               PROVE  /\ \A u \in W : pc'[u] \in {"cas", "store"} => Len(applied') * ReportsPerOps >= ex'[u].coeff * FinalEdges
                      /\ Timely'
  BY DEF Reached
<1>2. CASE MasterStep
  <2>1. /\ UNCHANGED <<applied, ex>> /\ (m_stop_experiment => m_stop_experiment')
        /\ UNCHANGED pc \/ pc' = [pc EXCEPT ![mi] = "fetch"]
    BY <1>2, MasterLeaves
  <2>2. UNCHANGED m_reported_times
    BY <1>2 DEF MasterStep, Spawn, WaitWorker, LoadFirst, LoadNext, SetTask, NotifyWorker, SwapArrays, PrepareLatencies, StartRun, SetRunning,
         RecordIdle, RecordTick, DrainIdle, DrainExpired, EndRun, StoreResults, SetStop, NotifyStop, Join, workerVars, workersLocal, reportVars
  <2>3. \A u \in W : pc'[u] \in {"cas", "store"} => pc[u] \in {"cas", "store"}
    BY <2>1 DEF Handshake, Types
  <2>. QED
    BY <1>1, <2>1, <2>2, <2>3 DEF Reached, Timely
<1>3. ASSUME NEW w \in W, WorkerStep(w) \/ SpuriousWakeup(w)
      PROVE  /\ \A u \in W : pc'[u] \in {"cas", "store"} => Len(applied') * ReportsPerOps >= ex'[u].coeff * FinalEdges
             /\ Timely'
  <2>1. ~ m_stop_experiment
    BY <1>1, <1>3, WorkerLeaves
  <2>. QED
    BY <1>3, <2>1, ReachedWorker
<1>4. CASE MasterSpuriousWakeup \/ UNCHANGED vars
  <2>1. UNCHANGED <<applied, m_stop_experiment, pc, ex, m_reported_times>>
    BY <1>4 DEF MasterSpuriousWakeup, vars, workerVars, workersLocal, localVars, reportVars, libraryVars
  <2>. QED
    BY <1>1, <2>1 DEF Reached, Timely
<1>. QED
  BY <1>2, <1>3, <1>4 DEF Next, Finished

(* At the start nothing has been applied, counted or reported. *)
LEMMA CountingInit == ASSUME Init PROVE Counting /\ Performed /\ Reporting /\ Reached
<1>1. /\ applied = <<>> /\ m_num_operations = [w \in W |-> 0] /\ m_num_operations_performed = 0 /\ pc = [w \in W |-> "none"]
      /\ m_reported_times = [k \in 1 .. ReportedTimesSz |-> NotReported] /\ Reporting
  BY ReportingInit DEF Init, WorkerInit
<1>2. Range(applied) = {} /\ Len(applied) = 0
  BY <1>1 DEF Range
<1>3. Cardinality({}) = 0 /\ {} \ Pending = {} /\ \A w \in W : Mine(w) = {}
  BY <1>2, FS_EmptySet DEF Mine
<1>. QED
  BY <1>1, <1>2, <1>3 DEF Counting, Performed, Reached, Timely

(* Unless the experiment is stopped, a time recorded for `k times the      *)
(* final graph' is recorded when at least that many updates are in the     *)
(* library, for any number of workers and any granularity: the counter     *)
(* that a report is computed from, to which the workers add a chunk at a   *)
(* time, is never ahead of the updates (main_execute_updates).  And when   *)
(* store_results reads the times, stopped or not, the last one is there.   *)
THEOREM ReportedTimesReachedHolds == Spec => []ReportedTimesReached
<1> DEFINE J == Handshake /\ Updates /\ Counting /\ Performed /\ Reporting /\ Reached
<1>1. Init => J
  BY HandshakeInit, UpdatesInit, CountingInit
<1>2. J /\ [Next]_vars => J'
  BY HandshakeNext, UpdatesNext, CountingNext, PerformedNext, ReportingNext, ReachedNext
<1>3. J => ReportedTimesReached
  <2>1. ASSUME J, ~ m_stop_experiment PROVE Timely
    BY <2>1 DEF Reached
  <2>2. ASSUME J, At("store", "results"), ~ m_results.thread_deadlocked, NEW k \in 1 .. ReportedTimesSz, m_last_time_reported = k
        PROVE  m_reported_times[k] # NotReported
    <3>1. ASSUME NEW w \in W PROVE pc[w] \notin Executing
      <4>1. IsIdle(w) /\ Place(w)
        BY <2>2 DEF Handshake, Slot, Free, At, Deadlocked
      <4>. QED
        BY <4>1 DEF Place, IsIdle, Executing
    <3>. QED
      BY <2>2, <3>1 DEF Reporting, AboutToRecord, Executing
  <2>. QED
    BY <2>1, <2>2 DEF ReportedTimesReached, Timely
<1>. QED
  BY <1>1, <1>2, <1>3, PTL DEF Spec

-----------------------------------------------------------------------------
(* The vertices *)

(* The temporary vertices, and who removes them. *)
LEMMA Temporary ==
    /\ Len(TempVertices) \in Nat
    /\ \A k \in 1 .. Len(TempVertices) : TempVertices[k] \in Nat /\ TempVertices[k] % NumThreads \in W /\ TempVertices[k] \in Range(TempVertices)
    /\ \A v \in Range(TempVertices) : \E k \in 1 .. Len(TempVertices) : TempVertices[k] = v
<1>1. TempVertices \in Seq(Nat)
  BY LogAssumption
<1>2. Len(TempVertices) \in Nat /\ DOMAIN TempVertices = 1 .. Len(TempVertices)
  BY <1>1
<1>3. ASSUME NEW k \in 1 .. Len(TempVertices) PROVE TempVertices[k] \in Nat /\ TempVertices[k] % NumThreads \in W
  <2>1. TempVertices[k] \in Nat
    BY <1>1, <1>3, ElementOfSeq
  <2>2. NumThreads \in Nat /\ NumThreads > 0
    BY ParameterAssumption
  <2>. QED
    BY <2>1, <2>2 DEF W
<1>. QED
  BY <1>2, <1>3 DEF Range

(* The tasks of the workers that remove the vertices. *)
LEMMA RemovalTaskWorker ==
    ASSUME Handshake, UpdateTypes, NEW w \in W, WorkerStep(w) \/ SpuriousWakeup(w), NEW u \in W, RemovalTask(u)
    PROVE  RemovalTask(u)'
<1>1. Types /\ pc \in [W -> Labels] /\ lpos \in [W -> Nat] /\ Slot(w) /\ DOMAIN m_task = W /\ DOMAIN task = W /\ Len(TempVertices) \in Nat
  BY Temporary DEF Handshake, Types
<1>2. CASE u # w
  <2>1. m_task'[u] = m_task[u] /\ pc'[u] = pc[u] /\ task'[u] = task[u] /\ lpos'[u] = lpos[u]
    BY <1>1, <1>2, OtherWorkers
  <2>. QED
    BY <2>1 DEF RemovalTask
<1>3. CASE u = w
  <2>1. CASE FetchTask(w) \/ Exit(w)
    BY <1>1, <1>3, <2>1 DEF FetchTask, Exit, RemovalTask, IdleTask, Task
  <2>2. CASE SpuriousWakeup(w)
    BY <1>3, <2>2 DEF SpuriousWakeup, RemovalTask, localVars
  <2>3. CASE WakeUp(w)
    <3>1. CASE IsIdle(w)
      BY <1>3, <2>3, <3>1 DEF WakeUp, IsIdle, RemovalTask, localVars
    <3>2. CASE ~ IsIdle(w)
      <4>1. m_task[w].type \in {"STOP", "LOAD_EDGES", "EXECUTE_UPDATES", "REMOVE_VERTICES", "SET_ARRAY_LATENCIES"}
        BY <1>1, <2>3, <3>2 DEF Types, TaskOp, Slot, IsIdle, WakeUp
      <4>2. task'[w] = m_task[w] /\ lpos'[w] = 0 /\ UNCHANGED m_task
        BY <1>1, <2>3, <3>2 DEF WakeUp, IsIdle
      <4>3. pc'[w] = "remove" => m_task[w].type = "REMOVE_VERTICES"
        BY <1>1, <2>3, <3>2, <4>1 DEF WakeUp, IsIdle
      <4>. QED
        BY <1>1, <1>3, <4>2, <4>3 DEF RemovalTask
    <3>. QED
      BY <3>1, <3>2
  <2>4. CASE RemoveVertex(w)
    <3>1. pc[w] = "remove" /\ lpos[w] < task[w].sz /\ lpos'[w] = lpos[w] + 1 /\ UNCHANGED <<m_task, pc, task>>
      BY <1>1, <2>4 DEF RemoveVertex, syncVars
    <3>2. lpos[w] + 1 <= Len(TempVertices)
      <4>1. task[w].sz = Len(TempVertices) /\ lpos[w] \in Nat
        BY <1>1, <1>3, <3>1 DEF RemovalTask
      <4>. QED
        BY <1>1, <3>1, <4>1
    <3>. QED
      BY <1>3, <3>1, <3>2 DEF RemovalTask
  <2>5. CASE LoadEdges(w) \/ LoopDone(w) \/ NextChunk(w) \/ CheckStop(w) \/ CallLibrary(w) \/ CountChunk(w) \/ ReportTime(w) \/ StoreTime(w)
    <3>1. pc'[w] # "remove" /\ UNCHANGED m_task
      BY <1>1, <2>5 DEF LoadEdges, LoopDone, NextChunk, CheckStop, CallLibrary, CountChunk, ReportTime, StoreTime, syncVars
    <3>. QED
      BY <1>3, <3>1 DEF RemovalTask
  <2>. QED
    BY <2>1, <2>2, <2>3, <2>4, <2>5 DEF WorkerStep
<1>. QED
  BY <1>2, <1>3

(* The master hands out all temporary vertices. *)
LEMMA RemovalTaskMaster ==
    ASSUME Handshake, MasterStep, NEW u \in W, RemovalTask(u)
    PROVE  RemovalTask(u)'
<1>1. Types /\ DOMAIN m_task = W /\ pc \in [W -> Labels]
  BY DEF Handshake, Types
<1>2. UNCHANGED <<task, lpos>> /\ (pc'[u] = pc[u] \/ pc'[u] = "fetch")
  BY <1>1, MasterLeaves
<1>3. m_task'[u].type = "REMOVE_VERTICES" => m_task'[u] = m_task[u] \/ m_task'[u].sz = Len(TempVertices)
  <2>1. CASE UNCHANGED m_task
    BY <2>1
  <2>2. CASE SetTask("remove", Task("REMOVE_VERTICES", 0, Len(TempVertices)))
    BY <1>1, <2>2 DEF SetTask, Task
  <2>3. ASSUME NEW phase, NEW t, SetTask(phase, t), t.type # "REMOVE_VERTICES"
        PROVE  m_task'[u].type = "REMOVE_VERTICES" => m_task'[u] = m_task[u]
    BY <1>1, <2>3 DEF SetTask
  <2>4. CASE SetTask("load", Task("LOAD_EDGES", front, num_edges)) \/ SetTask("run", Task("EXECUTE_UPDATES", 0, 0))
             \/ SetTask("latency", Task("SET_ARRAY_LATENCIES", SliceInsertions(mi), SliceDeletions(mi)))
    BY <2>3, <2>4 DEF Task
  <2>5. CASE Spawn \/ SetStop
    BY <1>1, <2>5 DEF Spawn, SetStop, Task
  <2>. QED
    BY <2>1, <2>2, <2>4, <2>5 DEF MasterStep, WaitWorker, LoadFirst, LoadNext, NotifyWorker, SwapArrays, PrepareLatencies, StartRun, SetRunning,
         RecordIdle, RecordTick, DrainIdle, DrainExpired, EndRun, StoreResults, NotifyStop, Join, workerVars, syncVars
<1>. QED
  BY <1>2, <1>3 DEF RemovalTask

(* Until the vertices are removed, the library holds those of the edges    *)
(* that have been inserted.                                                *)
LEMMA InsertionsNext ==
    ASSUME Handshake, Updates, Insertions, [Next]_vars
    PROVE  Insertions'
<1>1. SUFFICES ASSUME ~ Removing' PROVE vertices' = {v \in Vertices : Inserted(v)'}
  BY DEF Insertions, Inserted
<1>2. ~ Removing /\ vertices = {v \in Vertices : Inserted(v)}
  BY <1>1, RemovingNext DEF Insertions, Handshake
<1>3. CASE UNCHANGED <<vertices, applied>>
  BY <1>2, <1>3 DEF Inserted
<1>4. ASSUME NEW w \in W, CallLibrary(w) PROVE vertices' = {v \in Vertices : Inserted(v)'}
  <2>1. PICK op \in Ops : op = CurrentOp(w) /\ Range(applied') = Range(applied) \cup {op}
    BY <1>4, CallAdds
  <2>2. vertices' = IF IsInsertion(op) THEN vertices \cup Endpoints(op) ELSE vertices
    BY <1>4, <2>1 DEF CallLibrary
  <2>3. Endpoints(op) \subseteq Vertices
    BY DEF Vertices
  <2>4. \A v : Inserted(v)' <=> Inserted(v) \/ (IsInsertion(op) /\ v \in Endpoints(op))
    BY <2>1 DEF Inserted
  <2>. QED
    BY <1>2, <2>2, <2>3, <2>4
<1>5. ASSUME NEW w \in W PROVE ~ RemoveVertex(w)
  <2>1. Slot(w) /\ Place(w)
    BY DEF Handshake
  <2>2. pc[w] # "remove"
    BY <1>2, <2>1 DEF Slot, Place, Removing
  <2>. QED
    BY <2>2 DEF RemoveVertex
<1>6. ASSUME NEW w \in W, WorkerStep(w) \/ SpuriousWakeup(w) PROVE UNCHANGED <<vertices, applied>> \/ CallLibrary(w)
  BY <1>5, <1>6 DEF WorkerStep, SpuriousWakeup, FetchTask, WakeUp, LoadEdges, LoopDone, NextChunk, CheckStop, CountChunk, ReportTime, StoreTime, Exit, libraryVars
<1>7. MasterStep => UNCHANGED <<vertices, applied>>
  BY DEF MasterStep, Spawn, WaitWorker, LoadFirst, LoadNext, SetTask, NotifyWorker, SwapArrays, PrepareLatencies, StartRun, SetRunning,
         RecordIdle, RecordTick, DrainIdle, DrainExpired, EndRun, StoreResults, SetStop, NotifyStop, Join, workerVars, workersLocal, libraryVars
<1>. QED
  BY <1>3, <1>4, <1>6, <1>7 DEF Next, MasterSpuriousWakeup, Finished, vars, workerVars, workersLocal, libraryVars

(* Without a stop, the master removes the vertices while the workers that  *)
(* have their task do so and the others are idle.                          *)
LEMMA RemovingPlace ==
    ASSUME Handshake, Removing, ~ m_stop_experiment, NEW w \in W
    PROVE  /\ ~ Deadlocked /\ mpc[1] \in Ending
           /\ IsIdle(w) \/ m_task[w].type \in {"REMOVE_VERTICES", "STOP"}
           /\ m_task[w].type = "REMOVE_VERTICES" => mpc[1] = "remove"
           /\ m_task[w].type = "STOP" => mpc[1] = "dtor"
           /\ Unset(w) => IsIdle(w)
           /\ pc[w] \notin Executing /\ pc[w] # "load"
<1>1. Types /\ Slot(w) /\ Place(w) /\ Stopping
  BY DEF Handshake
<1>2. ~ Deadlocked /\ mpc[1] \in Ending /\ Mode = "execute"
  BY <1>1 DEF Stopping, Removing, Ending
<1>3. IsIdle(w) \/ m_task[w].type \in {"REMOVE_VERTICES", "STOP"}
  BY <1>1, <1>2 DEF Types, TaskOp, Slot, IsIdle, Ending
<1>4. m_task[w].type = "REMOVE_VERTICES" => mpc[1] = "remove"
  BY <1>1, <1>2 DEF Slot, Ending
<1>5. m_task[w].type = "STOP" => mpc[1] = "dtor"
  BY <1>1 DEF Slot
<1>6. Unset(w) => IsIdle(w)
  BY <1>1, <1>2 DEF Slot, Free
<1>7. pc[w] \notin Executing /\ pc[w] # "load"
  BY <1>1, <1>2, <1>3 DEF Place, IsIdle, Executing
<1>. QED
  BY <1>2, <1>3, <1>4, <1>5, <1>6, <1>7

(* The steps of a worker that does not remove a vertex. *)
LEMMA RemovedKept ==
    ASSUME Handshake, UpdateTypes, Removing, ~ m_stop_experiment, NEW w \in W, WorkerStep(w) \/ SpuriousWakeup(w), ~ RemoveVertex(w),
           UNCHANGED masterVars, NEW u \in W, RemovalTask(u)
    PROVE  RemovedUpTo(u)' = RemovedUpTo(u)
<1>1. Types /\ pc \in [W -> Labels] /\ lpos \in [W -> Nat] /\ Slot(u) /\ Place(u) /\ DOMAIN m_task = W /\ DOMAIN task = W
  BY DEF Handshake, Types
<1>2. UNCHANGED <<mpc, mi>> /\ Unset(u)' = Unset(u)
  BY DEF masterVars, Unset
<1>3. CASE u # w
  <2>1. m_task'[u] = m_task[u] /\ pc'[u] = pc[u] /\ lpos'[u] = lpos[u]
    BY <1>1, <1>3, OtherWorkers
  <2>. QED
    BY <1>2, <2>1 DEF RemovedUpTo
<1>4. CASE u = w
  <2>1. CASE mpc[1] # "remove"
    BY <1>2, <2>1 DEF RemovedUpTo
  <2>2. CASE FetchTask(w) /\ mpc[1] = "remove"
    <3>1. pc[w] = "fetch" /\ pc'[w] = "waiting" /\ m_task'[w].type = "IDLE"
      BY <1>1, <2>2 DEF FetchTask, IdleTask, Task
    <3>2. ~ Unset(w)
      BY <1>1, <1>4, <3>1, RemovingPlace DEF Place
    <3>. QED
      BY <1>2, <1>4, <3>1, <3>2 DEF RemovedUpTo
  <2>3. CASE WakeUp(w) /\ mpc[1] = "remove"
    <3>1. CASE IsIdle(w)
      BY <1>2, <1>4, <2>3, <3>1 DEF WakeUp, IsIdle, localVars, RemovedUpTo
    <3>2. CASE ~ IsIdle(w)
      <4>1. m_task[w].type = "REMOVE_VERTICES" /\ ~ Unset(w)
        BY <2>3, <3>2, RemovingPlace
      <4>2. pc[w] = "waiting" /\ pc'[w] = "remove" /\ lpos'[w] = 0 /\ UNCHANGED m_task
        BY <1>1, <2>3, <4>1 DEF WakeUp
      <4>. QED
        BY <1>2, <1>4, <2>3, <4>1, <4>2 DEF RemovedUpTo
    <3>. QED
      BY <3>1, <3>2
  <2>4. CASE LoopDone(w) /\ mpc[1] = "remove"
    <3>1. pc[w] = "remove" /\ pc'[w] = "fetch" /\ lpos[w] = task[w].sz /\ UNCHANGED m_task
      BY <1>1, <2>4, RemovingPlace DEF LoopDone, syncVars
    <3>2. m_task[w].type = "REMOVE_VERTICES" /\ ~ Unset(w) /\ task[w].sz = Len(TempVertices)
      <4>1. m_task[w].type = "REMOVE_VERTICES" /\ task[w].sz = Len(TempVertices)
        BY <1>1, <1>4, <3>1 DEF Place, RemovalTask
      <4>. QED
        BY <4>1, RemovingPlace DEF IsIdle
    <3>. QED
      BY <1>2, <1>4, <2>4, <3>1, <3>2 DEF RemovedUpTo
  <2>5. CASE SpuriousWakeup(w)
    BY <1>2, <1>4, <2>5 DEF SpuriousWakeup, localVars, RemovedUpTo
  <2>6. ~ (LoadEdges(w) \/ NextChunk(w) \/ CheckStop(w) \/ CallLibrary(w) \/ CountChunk(w) \/ ReportTime(w) \/ StoreTime(w))
    BY RemovingPlace DEF LoadEdges, NextChunk, CheckStop, CallLibrary, CountChunk, ReportTime, StoreTime, Executing
  <2>7. Exit(w) => mpc[1] # "remove"
    BY <1>1, <1>4, RemovingPlace DEF Exit, Place
  <2>. QED
    BY <2>1, <2>2, <2>3, <2>4, <2>5, <2>6, <2>7 DEF WorkerStep
<1>. QED
  BY <1>3, <1>4

(* A step that removes a vertex. *)
LEMMA RemovedStep ==
    ASSUME Handshake, UpdateTypes, Removing, Remains, ~ m_stop_experiment, NEW w \in W, RemovalTask(w), RemoveVertex(w), UNCHANGED masterVars
    PROVE  edges' = edges /\ vertices' = {v \in Vertices : ~ Removed(v)'}
<1> DEFINE t == TempVertices[lpos[w] + 1]
<1>1. /\ Types /\ pc \in [W -> Labels] /\ lpos \in [W -> Nat] /\ Place(w) /\ UNCHANGED <<mpc, mi, m_task, pc>>
      /\ pc[w] = "remove" /\ lpos[w] < task[w].sz /\ lpos' = [lpos EXCEPT ![w] = @ + 1]
  BY DEF Handshake, Types, masterVars, RemoveVertex, syncVars
<1>2. edges = PresentAfter(Len(Log)) /\ vertices = {v \in Vertices : ~ Removed(v)}
  BY DEF Remains
<1>3. task[w].sz = Len(TempVertices) /\ m_task[w].type = "REMOVE_VERTICES" /\ mpc[1] = "remove"
  BY <1>1, RemovingPlace DEF Place, RemovalTask
<1>4. lpos[w] \in Nat /\ lpos[w] + 1 \in 1 .. Len(TempVertices)
  BY <1>1, <1>3, Temporary
<1>5. t \in Range(TempVertices) /\ t % NumThreads \in W
  BY <1>4, Temporary
<1>6. {e \in edges : t \in e} = {}
  <2>1. \A e \in edges : e \cap Range(TempVertices) = {}
    BY <1>2, LogAssumption
  <2>. QED
    BY <1>5, <2>1
<1>7. edges' = edges /\ vertices' = IF t % NumThreads = w THEN vertices \ {t} ELSE vertices
  BY <1>6 DEF RemoveVertex
<1>8. \A u \in W : RemovedUpTo(u)' = IF u = w THEN lpos[w] + 1 ELSE RemovedUpTo(u)
  <2>1. \A u \in W : Unset(u)' = Unset(u) /\ (u # w => lpos'[u] = lpos[u])
    BY <1>1 DEF Unset
  <2>2. lpos'[w] = lpos[w] + 1
    BY <1>1
  <2>. QED
    BY <1>1, <1>3, <2>1, <2>2 DEF RemovedUpTo
<1>9. RemovedUpTo(w) = lpos[w]
  BY <1>1, <1>3 DEF RemovedUpTo
<1>10. ASSUME NEW v PROVE Removed(v)' <=> Removed(v) \/ (v = t /\ t % NumThreads = w)
  <2>1. ASSUME NEW k \in 1 .. Len(TempVertices), TempVertices[k] = v
        PROVE  k <= RemovedUpTo(v % NumThreads)' <=> k <= RemovedUpTo(v % NumThreads) \/ (v % NumThreads = w /\ k = lpos[w] + 1)
    <3>1. v % NumThreads \in W
      BY <2>1, Temporary
    <3>2. CASE v % NumThreads = w
      <4>1. k \in Nat
        BY Temporary
      <4>2. k <= lpos[w] + 1 <=> k <= lpos[w] \/ k = lpos[w] + 1
        BY <1>4, <4>1
      <4>. QED
        BY <1>8, <1>9, <3>1, <3>2, <4>2
    <3>3. CASE v % NumThreads # w
      BY <1>8, <3>1, <3>3
    <3>. QED
      BY <3>2, <3>3
  <2>. QED
    BY <1>4, <2>1 DEF Removed
<1>. QED
  BY <1>2, <1>7, <1>10

(* The master leaves the phase only once all temporary vertices have been  *)
(* through the hands of the workers.                                       *)
LEMMA RemovedMaster ==
    ASSUME Handshake, Handshake', Removing, ~ m_stop_experiment, ~ m_stop_experiment', MasterStep, NEW u \in W
    PROVE  RemovedUpTo(u)' = RemovedUpTo(u)
<1>1. Types /\ Types' /\ Slot(u) /\ Place(u) /\ Stopping' /\ mi \in W /\ mi \in Nat /\ u \in Nat /\ DOMAIN m_task = W /\ ~ Deadlocked
  BY Workers, RemovingPlace DEF Handshake, Types
<1>2. mpc[1] \in Ending /\ mpc \in Steps
  BY <1>1, RemovingPlace DEF Types
<1>3. mpc' \notin {<<"error", "busy">>, <<"error", "assert">>}
  BY <1>1 DEF Stopping
<1>4. UNCHANGED lpos /\ UNCHANGED pc
  BY <1>2, MasterLeaves DEF Ending
<1>5. CASE SetTask("remove", Task("REMOVE_VERTICES", 0, Len(TempVertices)))
  <2>1. /\ mpc = <<"remove", "set">> /\ mpc' = <<"remove", "notify">> /\ UNCHANGED mi /\ IsIdle(mi)
        /\ m_task' = [m_task EXCEPT ![mi] = Task("REMOVE_VERTICES", 0, Len(TempVertices))]
    BY <1>3, <1>5 DEF SetTask, At
  <2>2. CASE u = mi
    <3>1. pc[u] = "waiting" /\ m_task'[u].type = "REMOVE_VERTICES"
      BY <1>1, <2>1, <2>2 DEF Place, Task
    <3>2. Unset(u)
      BY <1>1, <2>1, <2>2 DEF Unset
    <3>. QED
      BY <1>4, <2>1, <3>1, <3>2 DEF RemovedUpTo
  <2>3. CASE u # mi
    <3>1. m_task'[u] = m_task[u] /\ (Unset(u)' <=> Unset(u))
      BY <1>1, <2>1, <2>3 DEF Unset
    <3>. QED
      BY <1>4, <2>1, <3>1 DEF RemovedUpTo
  <2>. QED
    BY <2>2, <2>3
<1>6. CASE NotifyWorker("remove", <<"remove", "wait">>)
  <2>1. mpc = <<"remove", "notify">> /\ UNCHANGED m_task /\ ForEachWorker(<<"remove", "set">>, <<"remove", "wait">>)
    BY <1>6 DEF NotifyWorker, At
  <2>2. mpc'[1] = "remove" /\ (Unset(u)' <=> Unset(u))
    <3>1. CASE mi < NumThreads - 1
      BY <1>1, <2>1, <3>1 DEF ForEachWorker, Unset
    <3>2. CASE ~ (mi < NumThreads - 1)
      BY <1>1, <2>1, <3>2, Workers DEF ForEachWorker, Unset
    <3>. QED
      BY <3>1, <3>2
  <2>. QED
    BY <1>4, <2>1, <2>2 DEF RemovedUpTo
<1>7. CASE WaitWorker("remove", <<"remove", "wait">>, <<"store", "results">>)
  <2>1. mpc = <<"remove", "wait">> /\ UNCHANGED m_task
    BY <1>7 DEF WaitWorker, At
  <2>2. CASE mpc' = mpc
    BY <1>4, <2>1, <2>2 DEF RemovedUpTo, Unset
  <2>3. CASE mpc' # mpc
    <3>1. IsIdle(mi) /\ ~ (mi < NumThreads - 1) /\ mpc' = <<"store", "results">>
      BY <1>7, <2>1, <2>3 DEF WaitWorker, ForEachWorker
    <3>2. IsIdle(u)
      <4>1. u = mi \/ u < mi
        BY <1>1, <3>1, Workers
      <4>. QED
        BY <1>1, <2>1, <3>1, <4>1 DEF Slot, Free
    <3>. QED
      BY <2>1, <3>1, <3>2 DEF RemovedUpTo, Unset, IsIdle
  <2>. QED
    BY <2>2, <2>3
<1>8. CASE StoreResults \/ SetStop \/ NotifyStop \/ Join
  <2>1. mpc[1] # "remove" /\ mpc'[1] # "remove"
    BY <1>8 DEF StoreResults, SetStop, NotifyStop, Join, ForEachWorker, At
  <2>. QED
    BY <2>1 DEF RemovedUpTo
<1>9. \/ SetTask("remove", Task("REMOVE_VERTICES", 0, Len(TempVertices))) \/ NotifyWorker("remove", <<"remove", "wait">>)
      \/ WaitWorker("remove", <<"remove", "wait">>, <<"store", "results">>) \/ StoreResults \/ SetStop \/ NotifyStop \/ Join
  BY <1>2 DEF MasterStep, Spawn, WaitWorker, LoadFirst, SetTask, NotifyWorker, LoadNext, SwapArrays, PrepareLatencies, StartRun, SetRunning,
              RecordIdle, RecordTick, DrainIdle, DrainExpired, EndRun, At, Ending
<1>. QED
  BY <1>5, <1>6, <1>7, <1>8, <1>9

(* The edges and the vertices, once all updates are in the library: a      *)
(* deletion comes after an insertion of the same edge.                     *)
LEMMA AllApplied ==
    ASSUME Updates, AppliedUpTo(Len(Log))
    PROVE  /\ Range(applied) = Ops
           /\ \A v \in Vertices : Inserted(v)
           /\ \A e : (\E op \in Ops : LastApplied(op, e)) <=> e \in PresentAfter(Len(Log))
<1>1. Range(applied) = Ops
  <2>1. applied \in Seq(Ops)
    BY DEF Updates, UpdateTypes
  <2>2. \A op \in Ops : op <= Len(Log)
    BY Blocks DEF Ops
  <2>. QED
    BY <2>1, <2>2, AppliedFinite DEF AppliedUpTo
<1>2. ASSUME NEW v \in Vertices PROVE Inserted(v)
  <2>1. PICK op \in Ops : v \in Endpoints(op)
    BY <1>2 DEF Vertices
  <2>2. CASE IsInsertion(op)
    BY <1>1, <2>1, <2>2 DEF Inserted
  <2>3. CASE ~ IsInsertion(op)
    <3>1. Endpoints(op) \in PresentAfter(op - 1)
      BY <2>3, LogAssumption
    <3>2. PICK i \in 1 .. op - 1 : IsInsertion(i) /\ Endpoints(i) = Endpoints(op)
      BY <3>1 DEF PresentAfter
    <3>3. i \in Ops
      BY <3>2, Blocks DEF Ops
    <3>. QED
      BY <1>1, <2>1, <3>2, <3>3 DEF Inserted
  <2>. QED
    BY <2>2, <2>3
<1>3. ASSUME NEW e, NEW op \in Ops, LastApplied(op, e) PROVE e \in PresentAfter(Len(Log))
  <2>1. Endpoints(op) = e /\ IsInsertion(op) /\ op \in Nat /\ op \in 1 .. Len(Log) /\ Len(Log) \in Nat
    BY <1>3, LogEntries, Blocks DEF LastApplied, Ops
  <2>2. ASSUME NEW j \in op + 1 .. Len(Log) PROVE Endpoints(j) # Endpoints(op)
    <3>1. j \in Ops /\ j > op
      BY <2>1 DEF Ops
    <3>. QED
      BY <1>1, <1>3, <2>1, <3>1 DEF LastApplied
  <2>. QED
    BY <2>1, <2>2 DEF PresentAfter
<1>4. ASSUME NEW e, e \in PresentAfter(Len(Log)) PROVE \E op \in Ops : LastApplied(op, e)
  <2>1. PICK op \in 1 .. Len(Log) : IsInsertion(op) /\ Endpoints(op) = e /\ \A j \in op + 1 .. Len(Log) : Endpoints(j) # Endpoints(op)
    BY <1>4 DEF PresentAfter
  <2>2. op \in Ops /\ op \in Nat /\ Len(Log) \in Nat
    BY Blocks DEF Ops
  <2>3. ASSUME NEW y \in Ops, Endpoints(y) = e PROVE y <= op
    <3>1. y \in Nat /\ y <= Len(Log)
      BY <2>2 DEF Ops
    <3>. QED
      BY <2>1, <2>2, <2>3, <3>1
  <2>. QED
    BY <1>1, <2>1, <2>2, <2>3 DEF LastApplied
<1>. QED
  BY <1>1, <1>2, <1>3, <1>4

(* The removal of the vertices starts with all of them. *)
LEMMA RemovalStarts ==
    ASSUME Handshake, Updates, Stored, Emptying', Updates', Insertions, ~ Removing, Removing', ~ m_stop_experiment', Stopping', MasterStep
    PROVE  edges' = PresentAfter(Len(Log)) /\ vertices' = {v \in Vertices : ~ Removed(v)'}
<1>1. Types /\ mpc \in Steps /\ Mode = "execute"
  BY DEF Handshake, Types, Removing
<1>2. mpc'[1] \in Ending
  BY DEF Removing, Stopping, Ending
<1>3. EndRun /\ mpc = <<"run", "end">> /\ mpc' = <<"remove", "set">> /\ mi' = mi
  <2>1. mpc[1] \notin Ending
    BY <1>1 DEF Removing, Ending
  <2>2. ~ (LoadFirst /\ num_edges' = 0)
    BY <1>1, <1>2 DEF LoadFirst, LoopHead, AfterLoad, Ending
  <2>. QED
    BY <1>1, <1>2, <2>1, <2>2, PhasesEnding DEF EndRun
<1>4. UNCHANGED <<edges, vertices, applied, pc>>
  BY <1>3 DEF EndRun, workerVars, libraryVars
<1>5. AppliedUpTo(Len(Log))
  BY <1>2, <1>4 DEF Emptying, Complete, AppliedUpTo
<1>6. edges = PresentAfter(Len(Log)) /\ vertices = Vertices
  <2>1. \A e : e \in edges <=> e \in PresentAfter(Len(Log))
    BY <1>5, AllApplied DEF Stored
  <2>2. vertices = Vertices
    BY <1>5, AllApplied DEF Insertions
  <2>. QED
    BY <2>1, <2>2
<1>7. ASSUME NEW u \in W PROVE RemovedUpTo(u)' = 0
  <2>1. mi = 0 /\ u \in Nat
    BY <1>1, <1>3, Workers DEF Types, Outside
  <2>2. Unset(u)'
    BY <1>3, <2>1 DEF Unset
  <2>3. pc'[u] # "remove"
    <3>1. Slot(u) /\ Place(u)
      BY DEF Handshake
    <3>. QED
      BY <1>3, <1>4, <3>1 DEF Slot, Place
  <2>. QED
    BY <1>3, <2>2, <2>3 DEF RemovedUpTo
<1>8. ASSUME NEW v PROVE ~ Removed(v)'
  <2>1. ASSUME NEW k \in 1 .. Len(TempVertices), TempVertices[k] = v PROVE ~ (k <= RemovedUpTo(v % NumThreads)')
    <3>1. v % NumThreads \in W /\ k \in Nat /\ k > 0
      BY <2>1, Temporary
    <3>. QED
      BY <1>7, <3>1
  <2>. QED
    BY <2>1 DEF Removed
<1>. QED
  BY <1>4, <1>6, <1>8

(* Every step keeps what is left in the library. *)
LEMMA RemovalNext ==
    ASSUME Handshake, Updates, Stored, Emptying, Removal, [Next]_vars
    PROVE  Removal'
<1>1. Handshake' /\ Updates' /\ Emptying' /\ Insertions' /\ UpdateTypes /\ Types
  BY HandshakeNext, UpdatesNext, EmptyingNext, InsertionsNext DEF Removal, Updates, Handshake
<1>2. Stopping' /\ Insertions /\ Remains /\ \A u \in W : RemovalTask(u)
  BY <1>1 DEF Handshake, Removal
<1>3. ASSUME Removing, ~ m_stop_experiment, UNCHANGED <<edges, vertices>>, \A u \in W : RemovedUpTo(u)' = RemovedUpTo(u)
      PROVE  edges' = PresentAfter(Len(Log)) /\ vertices' = {v \in Vertices : ~ Removed(v)'}
  <2>1. ASSUME NEW v PROVE Removed(v)' <=> Removed(v)
    <3>1. \A k \in 1 .. Len(TempVertices) : TempVertices[k] = v => v % NumThreads \in W
      BY Temporary
    <3>. QED
      BY <1>3, <3>1 DEF Removed
  <2>2. edges = PresentAfter(Len(Log)) /\ vertices = {v \in Vertices : ~ Removed(v)}
    BY <1>2, <1>3 DEF Remains
  <2>. QED
    BY <1>3, <2>1, <2>2
<1>4. CASE MasterStep
  <2>1. \A u \in W : RemovalTask(u)'
    BY <1>2, <1>4, RemovalTaskMaster
  <2>2. UNCHANGED <<edges, vertices>> /\ (m_stop_experiment => m_stop_experiment')
    <3>1. UNCHANGED vertices
      BY <1>4 DEF MasterStep, Spawn, WaitWorker, LoadFirst, LoadNext, SetTask, NotifyWorker, SwapArrays, PrepareLatencies, StartRun, SetRunning,
         RecordIdle, RecordTick, DrainIdle, DrainExpired, EndRun, StoreResults, SetStop, NotifyStop, Join, workerVars, workersLocal, libraryVars
    <3>. QED
      BY <1>4, <3>1, MasterLeaves
  <2>3. ASSUME Removing', ~ m_stop_experiment' PROVE edges' = PresentAfter(Len(Log)) /\ vertices' = {v \in Vertices : ~ Removed(v)'}
    <3>1. CASE Removing
      BY <1>1, <1>3, <1>4, <2>2, <2>3, <3>1, RemovedMaster
    <3>2. CASE ~ Removing
      BY <1>1, <1>2, <1>4, <2>3, <3>2, RemovalStarts
    <3>. QED
      BY <3>1, <3>2
  <2>. QED
    BY <1>1, <2>1, <2>3 DEF Removal, Remains, Removed, Inserted
<1>5. ASSUME NEW w \in W, WorkerStep(w) \/ SpuriousWakeup(w), UNCHANGED masterVars PROVE Removal'
  <2>1. \A u \in W : RemovalTask(u)'
    BY <1>1, <1>2, <1>5, RemovalTaskWorker
  <2>2. UNCHANGED m_stop_experiment /\ (Removing' <=> Removing)
    BY <1>5, WorkerLeaves DEF masterVars, Removing
  <2>3. ASSUME Removing', ~ m_stop_experiment' PROVE edges' = PresentAfter(Len(Log)) /\ vertices' = {v \in Vertices : ~ Removed(v)'}
    <3>1. Removing /\ ~ m_stop_experiment
      BY <2>2, <2>3
    <3>2. CASE RemoveVertex(w)
      <4>1. edges' = edges /\ vertices' = {v \in Vertices : ~ Removed(v)'}
        BY <1>1, <1>2, <1>5, <3>1, <3>2, RemovedStep
      <4>. QED
        BY <1>2, <3>1, <4>1 DEF Remains
    <3>3. CASE ~ RemoveVertex(w)
      <4>1. \A u \in W : RemovedUpTo(u)' = RemovedUpTo(u)
        BY <1>1, <1>2, <1>5, <3>1, <3>3, RemovedKept
      <4>2. ~ CallLibrary(w)
        BY <3>1, RemovingPlace DEF CallLibrary, Executing
      <4>3. UNCHANGED <<edges, vertices>>
        BY <1>5, <3>3, <4>2 DEF WorkerStep, SpuriousWakeup, FetchTask, WakeUp, LoadEdges, LoopDone, NextChunk, CheckStop, CountChunk, ReportTime, StoreTime, Exit, libraryVars
      <4>. QED
        BY <1>3, <3>1, <4>1, <4>3
    <3>. QED
      BY <3>2, <3>3
  <2>. QED
    BY <1>1, <2>1, <2>3 DEF Removal, Remains, Removed, Inserted
<1>6. CASE MasterSpuriousWakeup \/ UNCHANGED vars
  <2>1. UNCHANGED <<edges, vertices, applied, m_stop_experiment, pc, task, lpos, m_task, mpc, mi>>
    BY <1>6 DEF MasterSpuriousWakeup, vars, workerVars, workersLocal, localVars, syncVars, libraryVars, masterVars
  <2>2. (\A u \in W : RemovedUpTo(u)' = RemovedUpTo(u) /\ RemovalTask(u)') /\ (Removing' <=> Removing)
    BY <1>2, <2>1 DEF RemovedUpTo, Unset, RemovalTask, Removing
  <2>3. ASSUME Removing', ~ m_stop_experiment' PROVE edges' = PresentAfter(Len(Log)) /\ vertices' = {v \in Vertices : ~ Removed(v)'}
    BY <1>3, <2>1, <2>2, <2>3
  <2>. QED
    BY <1>1, <2>2, <2>3 DEF Removal, Remains, Removed, Inserted
<1>. QED
  BY <1>4, <1>5, <1>6 DEF Next, Finished

(* At the start the library is empty. *)
LEMMA RemovalInit == ASSUME Init PROVE Stored /\ Removal
<1>1. /\ edges = {} /\ vertices = {} /\ applied = <<>> /\ mpc = <<"ctor", "spawn">>
      /\ m_task = [w \in W |-> IdleTask] /\ pc = [w \in W |-> "none"]
  BY DEF Init, WorkerInit
<1>2. edges = {} /\ vertices = {} /\ Range(applied) = {} /\ ~ Removing
  BY <1>1 DEF Range, Removing
<1>3. \A w \in W : RemovalTask(w)
  BY <1>1 DEF RemovalTask, IdleTask, Task
<1>. QED
  BY <1>2, <1>3 DEF Stored, LastApplied, Removal, Insertions, Inserted, Remains

(* When the experiment ends, and it has not been stopped, every update of  *)
(* the log has been applied once and counted once, by the master and by    *)
(* the worker it belongs to, and the library holds exactly the edges of    *)
(* the final graph and, after remove_vertices, exactly its vertices, for   *)
(* any number of workers, log, temporary vertices and sizes of the buffers *)
(* and of the chunks, and in both modes.                                   *)
THEOREM FinalGraphHolds == Spec => []FinalGraph
<1> DEFINE J == Handshake /\ Updates /\ Stored /\ Emptying /\ Counting /\ Performed /\ Removal
<1>1. Init => J
  BY HandshakeInit, UpdatesInit, EmptyingInit, CountingInit, RemovalInit
<1>2. J /\ [Next]_vars => J'
  BY HandshakeNext, UpdatesNext, StoredNext, EmptyingNext, CountingNext, PerformedNext, RemovalNext
<1>3. ASSUME J, mpc[1] = "done", ~ m_stop_experiment PROVE FinalGraph
  <2>1. Range(applied) = Ops /\ \A e : (\E op \in Ops : LastApplied(op, e)) <=> e \in PresentAfter(Len(Log))
    BY <1>3, AllApplied DEF Emptying, Complete, Ending
  <2>2. applied \in Seq(Ops) /\ mpc \in Steps /\ Stopping /\ Types
    BY <1>3 DEF Updates, UpdateTypes, Handshake, Types
  <2>3. Cardinality(Ops) = Len(Log)
    BY <2>2, AppliedFinite
  <2>4. Len(applied) = Len(Log)
    BY <1>3, <2>1, <2>3 DEF Counting
  <2>5. \A w \in W : m_num_operations[w] = Cardinality({op \in Ops : OwnedBy(op, w)})
    BY <1>3, <2>1 DEF Counting, Mine
  <2>6. m_num_operations_performed = Len(Log)
    <3>1. ASSUME NEW w \in W PROVE Open(w) = {}
      <4>1. Slot(w) /\ Place(w)
        BY <1>3 DEF Handshake
      <4>2. IsIdle(w)
        BY <1>3, <2>2, <4>1 DEF Slot, Free, Stopping, Steps
      <4>. QED
        BY <4>1, <4>2 DEF Place, Open
    <3>2. Range(applied) \ Pending = Ops
      BY <2>1, <3>1 DEF Pending
    <3>. QED
      BY <1>3, <2>3, <3>2 DEF Performed
  <2>7. CASE Mode = "small_batch"
    <3>1. \A e : e \in edges <=> e \in PresentAfter(Len(Log))
      BY <1>3, <2>1, <2>7 DEF Stored, Removing
    <3>2. edges = PresentAfter(Len(Log))
      BY <3>1
    <3>. QED
      BY <2>4, <2>5, <2>6, <2>7, <3>2 DEF FinalGraph
  <2>8. CASE Mode = "execute"
    <3>1. edges = PresentAfter(Len(Log)) /\ vertices = {v \in Vertices : ~ Removed(v)}
      BY <1>3, <2>8 DEF Removal, Remains, Removing
    <3>2. \A w \in W : RemovedUpTo(w) = Len(TempVertices)
      BY <1>3 DEF RemovedUpTo
    <3>3. ASSUME NEW v PROVE Removed(v) <=> v \in Range(TempVertices)
      <4>1. ASSUME NEW k \in 1 .. Len(TempVertices), TempVertices[k] = v PROVE k <= RemovedUpTo(v % NumThreads)
        <5>1. v % NumThreads \in W
          BY <4>1, Temporary
        <5>. QED
          BY <3>2, <5>1, Temporary
      <4>. QED
        BY <4>1, Temporary DEF Removed
    <3>. QED
      BY <2>4, <2>5, <2>6, <3>1, <3>3 DEF FinalGraph
  <2>. QED
    BY <2>7, <2>8, ModeAssumption
<1>4. J => FinalGraph
  BY <1>3 DEF FinalGraph
<1>. QED
  BY <1>1, <1>2, <1>4, PTL DEF Spec

-----------------------------------------------------------------------------
(* The inductive invariant, with all its parts: the handshake, the updates *)
(* in the buffers and in the library, the barrier, the counters, the       *)
(* vertices and the reports, for every value of the parameters.            *)
THEOREM Invariance == Spec => []IInv
<1>1. Init => IInv
  <2>1. ASSUME Init PROVE PerEdgeOrder /\ BatchBarrier
    <3>1. applied = <<>>
      BY <2>1 DEF Init, WorkerInit
    <3>. QED
      BY <3>1 DEF PerEdgeOrder, BatchBarrier
  <2>. QED
    BY <2>1, HandshakeInit, UpdatesInit, EmptyingInit, CountingInit, RemovalInit DEF IInv
<1>2. IInv /\ [Next]_vars => IInv'
  <2>1. ASSUME IInv, [Next]_vars, Mode = "small_batch" PROVE BatchBarrier'
    BY <2>1, BatchBarrierNext DEF IInv
  <2>. QED
    BY <2>1, HandshakeNext, UpdatesNext, StoredNext, EmptyingNext, BarrierNext, CountingNext, PerformedNext, RemovalNext, ReportingNext,
       ReachedNext, PerEdgeOrderNext DEF IInv
<1>. QED
  BY <1>1, <1>2, PTL DEF Spec

-----------------------------------------------------------------------------
(* The length of m_reported_times *)

(* The coefficient of as many updates as there are in the log, at most. *)
LEMMA CoeffBound ==
    ASSUME NEW k \in Nat, NEW n \in Nat, n <= Len(Log), n * ReportsPerOps >= k * FinalEdges
    PROVE  k < ReportedTimesSz
<1> DEFINE L == Len(Log)  F == FinalEdges  R == ReportsPerOps  c == (L + F - 1) \div F
<1>1. L \in Nat /\ F \in Nat /\ F > 0 /\ R \in Nat
  BY ParameterAssumption, Blocks
<1>2. c \in Nat /\ L <= c * F
  <2>1. ASSUME NEW a \in Nat, NEW b \in Nat, b > 0 PROVE a \div b \in Nat /\ a < (a \div b) * b + b
    BY <2>1
  <2>2. L + F - 1 \in Nat
    BY <1>1
  <2>3. c \in Nat /\ L + F - 1 < c * F + F /\ c * F \in Nat
    BY <1>1, <2>1, <2>2
  <2>. QED
    BY <1>1, <2>3
<1> HIDE DEF c
<1>3. ASSUME NEW x \in Nat, NEW y \in Nat, NEW z \in Nat, x <= y PROVE x * z <= y * z
  BY <1>3
<1>4. n * R <= (c * R) * F
  <2>1. n <= c * F /\ c * F \in Nat /\ (c * F) * R = (c * R) * F
    BY <1>1, <1>2
  <2>. QED
    BY <1>1, <1>3, <2>1
<1>5. k * F <= (c * R) * F /\ c * R \in Nat
  <2>1. n * R \in Nat /\ k * F \in Nat /\ c * R \in Nat /\ (c * R) * F \in Nat
    BY <1>1, <1>2
  <2>. QED
    BY <1>4, <2>1
<1>6. ASSUME NEW x \in Nat, NEW y \in Nat, NEW z \in Nat, z > 0, x * z <= y * z PROVE x <= y
  BY <1>6
<1>7. k <= c * R
  BY <1>1, <1>5, <1>6
<1>8. ReportedTimesSz = R * c + 1 /\ R * c = c * R
  BY <1>1, <1>2 DEF ReportedTimesSz, c
<1>. QED
  BY <1>5, <1>7, <1>8

(* The report that a worker is about to record has a slot. *)
ReportInBounds ==
    ~ m_stop_experiment => \A w \in W : pc[w] \in {"cas", "store"} => ex[w].coeff \in 1 .. ReportedTimesSz

(* Until the experiment is stopped no time is recorded outside of          *)
(* m_reported_times, whatever the parameters of its length                 *)
(* (m_num_reports_per_operations * ceil(num_operations / num_edges) + 1):  *)
(* the operations that a report is computed from are never counted twice   *)
(* (main_execute_updates, the constructor of Aging2Master).                *)
THEOREM ReportInBoundsHolds == Spec => []ReportInBounds
<1>1. ASSUME IInv, ~ m_stop_experiment, NEW w \in W, pc[w] \in {"cas", "store"} PROVE ex[w].coeff \in 1 .. ReportedTimesSz
  <2>1. applied \in Seq(Ops) /\ ex[w] \in Locals /\ Len(applied) \in Nat
    BY <1>1 DEF IInv, Updates, UpdateTypes
  <2>2. Len(applied) <= Len(Log)
    <3>1. Cardinality(Range(applied)) <= Cardinality(Ops)
      BY <2>1, AppliedFinite, FS_Subset
    <3>. QED
      BY <1>1, <2>1, <3>1, AppliedFinite DEF IInv, Counting
  <2>3. ex[w].coeff \in Nat /\ ex[w].coeff > 0
    BY <1>1, <2>1 DEF IInv, Reporting, Locals
  <2>4. ex[w].coeff < ReportedTimesSz
    BY <1>1, <2>1, <2>2, <2>3, CoeffBound DEF IInv, Reached
  <2>5. ReportedTimesSz \in Nat
    <3>1. Len(Log) + FinalEdges - 1 \in Nat /\ FinalEdges \in Nat /\ FinalEdges > 0 /\ ReportsPerOps \in Nat
      BY ParameterAssumption, Blocks
    <3>2. (Len(Log) + FinalEdges - 1) \div FinalEdges \in Nat
      BY <3>1
    <3>. QED
      BY <3>1, <3>2 DEF ReportedTimesSz
  <2>. QED
    BY <2>3, <2>4, <2>5
<1>2. IInv => ReportInBounds
  BY <1>1 DEF ReportInBounds
<1>. QED
  BY <1>2, Invariance, PTL
=============================================================================
