---------------------------- MODULE Aging2Worker ----------------------------
(***************************************************************************)
(* The background threads of the Aging2 experiment                         *)
(* (experiment/details/aging2_worker.cpp) and the state they share with    *)
(* the master: one task slot per worker, guarded by the worker's mutex and *)
(* condition variable, the atomics of Aging2Master and the library.        *)
(*                                                                         *)
(* The updates of the graphlog are identified by their position in Log.    *)
(* A critical section is one step; a notify_all issued after the unlock is *)
(* a step of its own.  sleepers[w] is the set of threads blocked on the    *)
(* condition variable of worker w ("M" the master, "W" the worker).        *)
(***************************************************************************)
EXTENDS Integers, Sequences, FiniteSets, FiniteSetsExt, SequencesExt

CONSTANTS
    NumThreads,      \* m_num_threads, the number of workers
    Log,             \* the updates of the graphlog, in the order of the file
    BlockEnd,        \* BlockEnd[b] is the position of the last update of block b
    FinalEdges,      \* internal.edges.final: the edges of the final graph
    ReportsPerOps,   \* m_num_reports_per_operations
    Granularity,     \* m_worker_granularity
    LastMaxSz,       \* last_max_sz: a buffer with more updates than this is full
    ReleaseMemory,   \* m_release_driver_memory
    MeasureLatency,  \* m_measure_latency
    TempVertices     \* the vertices that do not belong to the final graph

W == 0 .. NumThreads - 1
Ops == 1 .. Len(Log)
NumBlocks == Len(BlockEnd)

IsInsertion(op) == Log[op].weight >= 0
Endpoints(op) == {Log[op].src, Log[op].dst}
Vertices == UNION {Endpoints(op) : op \in Ops}

BlockFirst(b) == IF b = 1 THEN 1 ELSE BlockEnd[b - 1] + 1
BlockSize(b) == BlockEnd[b] - BlockFirst(b) + 1

(* The edges stored once the first n updates of the log have been applied. *)
PresentAfter(n) ==
    {Endpoints(op) : op \in {i \in 1 .. n : /\ IsInsertion(i)
                                            /\ \A j \in i + 1 .. n : Endpoints(j) # Endpoints(i)}}

(* A graphlog inserts an edge only when it is absent, deletes one only     *)
(* when it is present and leaves no edge attached to a temporary vertex.   *)
ASSUME LogAssumption ==
    /\ Log \in Seq([src : Nat, dst : Nat, weight : {-1, 0, 1}]) /\ Len(Log) > 0
    /\ \A op \in Ops : IsInsertion(op) <=> Endpoints(op) \notin PresentAfter(op - 1)
    /\ BlockEnd \in Seq(Ops) /\ NumBlocks > 0 /\ BlockEnd[NumBlocks] = Len(Log)
    /\ \A b, c \in 1 .. NumBlocks : b < c => BlockEnd[b] < BlockEnd[c]
    /\ TempVertices \in Seq(Nat)
    /\ \A e \in PresentAfter(Len(Log)) : e \cap Range(TempVertices) = {}

ASSUME ParameterAssumption ==
    /\ NumThreads \in Nat \ {0}
    /\ FinalEdges \in Nat \ {0} /\ ReportsPerOps \in Nat \ {0}
    /\ Granularity \in Nat \ {0} /\ LastMaxSz \in Nat
    /\ ReleaseMemory \in BOOLEAN /\ MeasureLatency \in BOOLEAN

(* The length of m_reported_times. *)
ReportedTimesSz == ReportsPerOps * ((Len(Log) + FinalEdges - 1) \div FinalEdges) + 1

NotReported == -1
NullPtr == -1

VARIABLES
    \* ---- one per worker
    m_task,       \* the task slot: type, payload (an array of the master) and its size
    sleepers,     \* threads blocked on m_condvar
    pc,           \* where the background thread is
    task,         \* the local copy of the task being executed
    lpos,         \* loop index of main_load_edges and main_remove_vertices
    m_updates,    \* the buffers of updates to execute
    ex,           \* locals of main_execute_updates
    m_num_edge_insertions,
    m_num_edge_deletions,
    m_num_operations,
    m_latency_insertions,  \* next slot of m_latencies, or NullPtr
    m_latency_deletions,
    \* ---- owned by the master, read or updated by the workers
    arrays,       \* the block held by each of the two arrays of the loader (0 = none)
    m_stop_experiment,
    m_num_operations_performed,
    m_last_time_reported,
    m_reported_times,      \* entry k: updates in the library when time k was recorded
    \* ---- the library under test
    edges,        \* the edges stored
    vertices,     \* the vertices stored
    applied,      \* history: the updates applied, in the order they took effect
    latencies     \* history: how often each slot of m_latencies was written

localVars == <<task, lpos, m_updates, ex, m_num_edge_insertions, m_num_edge_deletions,
               m_num_operations, m_latency_insertions, m_latency_deletions>>
reportVars == <<m_num_operations_performed, m_last_time_reported, m_reported_times>>
libraryVars == <<edges, vertices, applied, latencies>>
syncVars == <<m_task, sleepers>>
workerVars == <<syncVars, pc, localVars, arrays, m_stop_experiment, reportVars, libraryVars>>

TaskOp == {"IDLE", "START", "STOP", "LOAD_EDGES", "EXECUTE_UPDATES", "REMOVE_VERTICES",
           "SET_ARRAY_LATENCIES"}
Task(type, payload, sz) == [type |-> type, payload |-> payload, sz |-> sz]
IdleTask == Task("IDLE", 0, 0)
\* Mutant: a worker that executes its updates is taken for idle.
IsIdleOrExecuting(w) == m_task[w].type \in {"IDLE", "EXECUTE_UPDATES"}
IsIdle(w) == m_task[w].type = "IDLE"

WorkerInit ==
    /\ m_task = [w \in W |-> IdleTask]
    /\ sleepers = [w \in W |-> {}]
    /\ pc = [w \in W |-> "none"]
    /\ task = [w \in W |-> IdleTask]
    /\ lpos = [w \in W |-> 0]
    /\ m_updates = [w \in W |-> <<>>]
    /\ ex = [w \in W |-> [i |-> 1, end |-> 0, start |-> 0, pos |-> 0, coeff |-> 0, last |-> 0]]
    /\ m_num_edge_insertions = [w \in W |-> 0]
    /\ m_num_edge_deletions = [w \in W |-> 0]
    /\ m_num_operations = [w \in W |-> 0]
    /\ m_latency_insertions = [w \in W |-> NullPtr]
    /\ m_latency_deletions = [w \in W |-> NullPtr]
    /\ arrays = [a \in {1, 2} |-> 0]
    /\ m_stop_experiment = FALSE
    /\ m_num_operations_performed = 0
    /\ m_last_time_reported = 0
    /\ m_reported_times = [k \in 1 .. ReportedTimesSz |-> NotReported]
    /\ edges = {} /\ vertices = {} /\ applied = <<>>
    /\ latencies = [s \in 0 .. Len(Log) - 1 |-> 0]

-----------------------------------------------------------------------------
\* Mutant: the worker publishes IDLE and goes to sleep without waking up the master.
FetchTaskNoNotify(w) ==
    /\ pc[w] = "fetch"
    /\ m_task' = [m_task EXCEPT ![w] = IdleTask]
    /\ sleepers' = [sleepers EXCEPT ![w] = @ \cup {"W"}]
    /\ pc' = [pc EXCEPT ![w] = "waiting"]
    /\ UNCHANGED <<localVars, arrays, m_stop_experiment, reportVars, libraryVars>>

(* main_thread: publish IDLE, wake up the master and sleep until the next  *)
(* task: the predicate is false, the slot has just been emptied.           *)
FetchTask(w) ==
    /\ pc[w] = "fetch"
    /\ m_task' = [m_task EXCEPT ![w] = IdleTask]
    /\ sleepers' = [sleepers EXCEPT ![w] = {"W"}]
    /\ pc' = [pc EXCEPT ![w] = "waiting"]
    /\ UNCHANGED <<localVars, arrays, m_stop_experiment, reportVars, libraryVars>>

(* A condition variable may wake up for no reason. *)
SpuriousWakeup(w) ==
    /\ "W" \in sleepers[w]
    /\ sleepers' = [sleepers EXCEPT ![w] = @ \ {"W"}]
    /\ UNCHANGED <<m_task, pc, localVars, arrays, m_stop_experiment, reportVars, libraryVars>>

(* Awake: re-evaluate the predicate with the mutex held, and copy the task. *)
WakeUp(w) ==
    /\ pc[w] = "waiting" /\ "W" \notin sleepers[w]
    /\ UNCHANGED <<m_task, arrays, m_stop_experiment, reportVars, libraryVars, m_num_operations,
                   m_num_edge_insertions, m_num_edge_deletions>>
    /\ IF m_task[w].type = "IDLE"
         THEN /\ sleepers' = [sleepers EXCEPT ![w] = @ \cup {"W"}]
              /\ UNCHANGED <<pc, localVars>>
         ELSE LET t == m_task[w] IN
              /\ task' = [task EXCEPT ![w] = t]
              /\ lpos' = [lpos EXCEPT ![w] = 0]
              /\ pc' = [pc EXCEPT ![w] =
                     CASE t.type = "LOAD_EDGES" -> "load"
                       [] t.type = "EXECUTE_UPDATES" -> "buffer"
                       [] t.type = "REMOVE_VERTICES" -> "remove"
                       [] t.type = "SET_ARRAY_LATENCIES" -> "fetch"
                       [] t.type = "STOP" -> "exiting"]
              /\ m_updates' = [m_updates EXCEPT ![w] =
                     IF t.type = "LOAD_EDGES" /\ @ = <<>> THEN << <<>> >> ELSE @]
              /\ ex' = [ex EXCEPT ![w] =
                     [i |-> 1, end |-> Len(m_updates[w]), start |-> 0, pos |-> 0, coeff |-> 0, last |-> 0]]
              /\ IF t.type = "SET_ARRAY_LATENCIES"
                   THEN /\ m_latency_insertions' = [m_latency_insertions EXCEPT ![w] = t.payload]
                        /\ m_latency_deletions' = [m_latency_deletions EXCEPT ![w] = t.sz]
                   ELSE UNCHANGED <<m_latency_insertions, m_latency_deletions>>
              /\ UNCHANGED sleepers

\* Mutant: partition by the source only.
OwnedBySource(op, w) == Log[op].src % NumThreads = w

(* main_load_edges: std::hash<uint64_t> is the identity; both orientations *)
(* of an edge belong to the same worker.                                   *)
OwnedBy(op, w) == (Log[op].src + Log[op].dst) % NumThreads = w

\* Mutant: the update that finds the buffer full is not stored in the new one.
Append2LastDropped(buffers, op) ==
    LET n == Len(buffers) IN
    IF Len(buffers[n]) > LastMaxSz THEN Append(buffers, <<>>)
                                   ELSE [buffers EXCEPT ![n] = Append(@, op)]

(* The last buffer takes updates until it holds more than last_max_sz.     *)
Append2Last(buffers, op) ==
    LET n == Len(buffers) IN
    IF Len(buffers[n]) > LastMaxSz THEN Append(buffers, <<op>>)
                                   ELSE [buffers EXCEPT ![n] = Append(@, op)]

(* main_load_edges, one iteration of its loop over the array.              *)
LoadEdges(w) ==
    LET op == BlockFirst(arrays[task[w].payload]) + lpos[w] IN
    /\ pc[w] = "load" /\ lpos[w] < task[w].sz
    /\ lpos' = [lpos EXCEPT ![w] = @ + 1]
    /\ IF OwnedBy(op, w)
         THEN /\ m_updates' = [m_updates EXCEPT ![w] = Append2Last(@, op)]
              /\ m_num_edge_insertions' =
                     [m_num_edge_insertions EXCEPT ![w] = @ + IF IsInsertion(op) THEN 1 ELSE 0]
              /\ m_num_edge_deletions' =
                     [m_num_edge_deletions EXCEPT ![w] = @ + IF IsInsertion(op) THEN 0 ELSE 1]
         ELSE UNCHANGED <<m_updates, m_num_edge_insertions, m_num_edge_deletions>>
    /\ UNCHANGED <<syncVars, pc, task, ex, m_num_operations, m_latency_insertions,
                   m_latency_deletions, arrays, m_stop_experiment, reportVars, libraryVars>>

(* The loop of main_load_edges or of main_remove_vertices is over.         *)
LoopDone(w) ==
    /\ pc[w] \in {"load", "remove"} /\ lpos[w] = task[w].sz
    /\ pc' = [pc EXCEPT ![w] = "fetch"]
    /\ UNCHANGED <<syncVars, localVars, arrays, m_stop_experiment, reportVars, libraryVars>>

-----------------------------------------------------------------------------
(* main_execute_updates *)

(* If the driver's memory is released, the current buffer is always the    *)
(* first one; otherwise it is the one at the index of the outer loop.      *)
Operations(w) == m_updates[w][IF ReleaseMemory THEN 1 ELSE ex[w].i]

(* The end (exclusive) of the chunk that starts at ex[w].start. *)
ChunkEnd(w) == Min({ex[w].start + Granularity, Len(Operations(w))})

(* The next iteration of the outer loop. *)
NextBuffer(w) == [ex[w] EXCEPT !.i = @ + 1, !.start = 0, !.pos = 0]

(* The head of the two nested loops: start a chunk, leave the buffer, or   *)
(* leave the function once all buffers have been visited.                  *)
NextChunk(w) ==
    /\ pc[w] = "buffer"
    /\ \/ /\ ex[w].i > ex[w].end
          /\ m_updates' = [m_updates EXCEPT ![w] = <<>>]
          /\ pc' = [pc EXCEPT ![w] = "fetch"]
          /\ UNCHANGED ex
       \/ /\ ex[w].i <= ex[w].end /\ ex[w].start < Len(Operations(w))
          /\ pc' = [pc EXCEPT ![w] = "check"]
          /\ UNCHANGED <<ex, m_updates>>
       \/ /\ ex[w].i <= ex[w].end /\ ex[w].start = Len(Operations(w))
          /\ m_updates' = [m_updates EXCEPT ![w] = IF ReleaseMemory THEN Tail(@) ELSE @]
          /\ ex' = [ex EXCEPT ![w] = NextBuffer(w)]
          /\ UNCHANGED pc
    /\ UNCHANGED <<syncVars, task, lpos, m_num_edge_insertions, m_num_edge_deletions,
                   m_num_operations, m_latency_insertions, m_latency_deletions, arrays,
                   m_stop_experiment, reportVars, libraryVars>>

\* Mutant: the loop on the updates of a chunk leaves out the last one.
CheckStopOffByOne(w) ==
    /\ pc[w] = "check"
    /\ pc' = [pc EXCEPT ![w] =
           IF m_stop_experiment \/ ex[w].pos = ChunkEnd(w) - 1 THEN "count" ELSE "call"]
    /\ UNCHANGED <<syncVars, localVars, arrays, m_stop_experiment, reportVars, libraryVars>>

(* graph_execute_batch_updates0: test the stop flag before each update.    *)
CheckStop(w) ==
    /\ pc[w] = "check"
    /\ pc' = [pc EXCEPT ![w] =
           IF m_stop_experiment \/ ex[w].pos = ChunkEnd(w) THEN "count" ELSE "call"]
    /\ UNCHANGED <<syncVars, localVars, arrays, m_stop_experiment, reportVars, libraryVars>>

CurrentOp(w) == Operations(w)[ex[w].pos + 1]

(* What the interface of the libraries says of the two calls: add_edge_v2  *)
(* fails when the edge exists already, remove_edge when it does not exist. *)
LibraryAccepts(op) == IsInsertion(op) <=> Endpoints(op) \notin edges

(* graph_insert_edge, graph_remove_edge: the worker repeats the call until *)
(* the library accepts it; the latency goes to the worker's next slot.     *)
CallLibrary(w) ==
    LET op == CurrentOp(w)
        slot == IF IsInsertion(op) THEN m_latency_insertions[w] ELSE m_latency_deletions[w] IN
    /\ pc[w] = "call" /\ LibraryAccepts(op)
    /\ edges' = IF IsInsertion(op) THEN edges \cup {Endpoints(op)} ELSE edges \ {Endpoints(op)}
    /\ vertices' = IF IsInsertion(op) THEN vertices \cup Endpoints(op) ELSE vertices
    /\ applied' = Append(applied, op)
    /\ IF m_latency_insertions[w] = NullPtr
         THEN UNCHANGED <<latencies, m_latency_insertions, m_latency_deletions>>
         ELSE /\ latencies' = [latencies EXCEPT ![slot] = @ + 1]
              /\ IF IsInsertion(op)
                   THEN /\ m_latency_insertions' = [m_latency_insertions EXCEPT ![w] = @ + 1]
                        /\ UNCHANGED m_latency_deletions
                   ELSE /\ m_latency_deletions' = [m_latency_deletions EXCEPT ![w] = @ + 1]
                        /\ UNCHANGED m_latency_insertions
    /\ m_num_operations' = [m_num_operations EXCEPT ![w] = @ + 1]
    /\ ex' = [ex EXCEPT ![w].pos = @ + 1]
    /\ pc' = [pc EXCEPT ![w] = "check"]
    /\ UNCHANGED <<syncVars, task, lpos, m_updates, m_num_edge_insertions, m_num_edge_deletions,
                   arrays, m_stop_experiment, reportVars>>

(* How many times the final graph fits in n updates, times the reports.    *)
AgingCoeff(n) == (n * ReportsPerOps) \div FinalEdges

NextStart(w) == [ex[w] EXCEPT !.start = ChunkEnd(w), !.pos = ChunkEnd(w)]

(* m_num_operations_performed.fetch_add(end - start), also when the chunk  *)
(* has been interrupted by the stop flag.                                  *)
CountChunk(w) ==
    LET coeff == AgingCoeff(m_num_operations_performed)
        report == coeff > ex[w].last IN
    /\ pc[w] = "count"
    /\ m_num_operations_performed' = m_num_operations_performed + (ChunkEnd(w) - ex[w].start)
    /\ ex' = [ex EXCEPT ![w] = IF report THEN [@ EXCEPT !.coeff = coeff] ELSE NextStart(w)]
    /\ pc' = [pc EXCEPT ![w] = IF report THEN "cas" ELSE "buffer"]
    /\ UNCHANGED <<syncVars, task, lpos, m_updates, m_num_edge_insertions, m_num_edge_deletions,
                   m_num_operations, m_latency_insertions, m_latency_deletions, arrays,
                   m_stop_experiment, m_last_time_reported, m_reported_times, libraryVars>>

\* Mutant: store the coefficient instead of compare-and-swap it.
ReportTimeStore(w) ==
    /\ pc[w] = "cas"
    /\ m_last_time_reported' = ex[w].coeff
    /\ pc' = [pc EXCEPT ![w] = "store"]
    /\ UNCHANGED <<syncVars, localVars, arrays, m_stop_experiment, m_num_operations_performed,
                   m_reported_times, libraryVars>>

(* compare_exchange_strong on m_last_time_reported: the winner goes on to  *)
(* record the time and keeps its lastset_coeff, the loser refreshes it and *)
(* skips this report.                                                      *)
ReportTime(w) ==
    /\ pc[w] = "cas"
    /\ \/ /\ m_last_time_reported = ex[w].last
          /\ m_last_time_reported' = ex[w].coeff
          /\ pc' = [pc EXCEPT ![w] = "store"]
          /\ UNCHANGED ex
       \/ /\ m_last_time_reported # ex[w].last
          /\ ex' = [ex EXCEPT ![w] = [NextStart(w) EXCEPT !.last = m_last_time_reported]]
          /\ pc' = [pc EXCEPT ![w] = "buffer"]
          /\ UNCHANGED m_last_time_reported
    /\ UNCHANGED <<syncVars, task, lpos, m_updates, m_num_edge_insertions, m_num_edge_deletions,
                   m_num_operations, m_latency_insertions, m_latency_deletions, arrays,
                   m_stop_experiment, m_num_operations_performed, m_reported_times, libraryVars>>

(* The winner reads the clock and then records the time with a plain store *)
(* in the entry of its coefficient; meanwhile the other workers go on, and *)
(* may report a later coefficient.  Nobody else reads or writes that entry *)
(* in between, so the clock is read in the step that stores it.            *)
StoreTime(w) ==
    /\ pc[w] = "store"
    /\ m_reported_times' = [m_reported_times EXCEPT ![ex[w].coeff] = Len(applied)]
    /\ ex' = [ex EXCEPT ![w] = NextStart(w)]
    /\ pc' = [pc EXCEPT ![w] = "buffer"]
    /\ UNCHANGED <<syncVars, task, lpos, m_updates, m_num_edge_insertions, m_num_edge_deletions,
                   m_num_operations, m_latency_insertions, m_latency_deletions, arrays,
                   m_stop_experiment, m_num_operations_performed, m_last_time_reported,
                   libraryVars>>

-----------------------------------------------------------------------------
(* main_remove_vertices, one iteration.  The library (external) may refuse *)
(* to remove a vertex with edges attached, or remove those edges too.      *)
RemoveVertex(w) ==
    LET v == TempVertices[lpos[w] + 1]
        attached == {e \in edges : v \in e} IN
    /\ pc[w] = "remove" /\ lpos[w] < task[w].sz
    /\ lpos' = [lpos EXCEPT ![w] = @ + 1]
    /\ IF v % NumThreads = w
         THEN \/ /\ vertices' = vertices \ {v}
                 /\ edges' = edges \ attached
              \/ /\ attached # {}
                 /\ UNCHANGED <<vertices, edges>>
         ELSE UNCHANGED <<vertices, edges>>
    /\ UNCHANGED <<syncVars, pc, task, m_updates, ex, m_num_edge_insertions, m_num_edge_deletions,
                   m_num_operations, m_latency_insertions, m_latency_deletions, arrays,
                   m_stop_experiment, reportVars, applied, latencies>>

(* The end of main_thread, after a STOP. *)
Exit(w) ==
    /\ pc[w] = "exiting"
    /\ m_task' = [m_task EXCEPT ![w] = IdleTask]
    /\ sleepers' = [sleepers EXCEPT ![w] = {}]
    /\ pc' = [pc EXCEPT ![w] = "exited"]
    /\ UNCHANGED <<localVars, arrays, m_stop_experiment, reportVars, libraryVars>>

(* The steps a scheduled worker eventually takes. *)
WorkerStep(w) ==
    \/ FetchTask(w) \/ WakeUp(w) \/ LoadEdges(w) \/ LoopDone(w)
    \/ NextChunk(w) \/ CheckStop(w) \/ CallLibrary(w) \/ CountChunk(w)
    \/ ReportTime(w) \/ StoreTime(w) \/ RemoveVertex(w) \/ Exit(w)
=============================================================================
