---------------------------- MODULE Aging2Master ----------------------------
(***************************************************************************)
(* The Aging2 experiment: the master (experiment/details/aging2_master.cpp)*)
(* reads the graphlog block by block into two arrays, hands each block to  *)
(* the workers, runs the updates and watches over them.                    *)
(*                                                                         *)
(* Mode "small_batch" is execute_synchronized_small_batch, the schedule    *)
(* Aging2Experiment::execute uses: every block is loaded, executed, and    *)
(* only then replaced by the next one.  Mode "execute" is                  *)
(* Aging2Master::execute: load the whole log, execute it, remove the       *)
(* temporary vertices and store the results.                               *)
(***************************************************************************)
EXTENDS Aging2Worker

CONSTANTS
    Mode,            \* which execute function the experiment calls
    StopReasons,     \* the reasons the configuration allows to stop for
    DrainMayExpire,  \* whether a worker may outlive the five minutes it has to stop
    Asserts          \* whether the build keeps the assertions (no -DNDEBUG)

ASSUME ModeAssumption ==
    /\ Mode \in {"small_batch", "execute"}
    /\ StopReasons \subseteq {"TIMEOUT_HIT", "MEMORY_FOOTPRINT"}
    /\ DrainMayExpire \in BOOLEAN /\ Asserts \in BOOLEAN

VARIABLES
    mpc,            \* the phase of the master and the step in it
    mi,             \* index of the loop over m_workers
    front,          \* which of the two arrays `array1' points to
    num_edges,      \* the updates loaded by the last call of loader.load
    next_block,     \* the position of the loader in the log
    m_random_vertex_id,
    m_latencies_num_insertions,
    m_latencies_num_deletions,
    m_experiment_running,
    m_stop_reason,
    m_results       \* the flags of Aging2Result

loaderVars == <<front, num_edges, next_block, m_random_vertex_id>>
latencyVars == <<m_latencies_num_insertions, m_latencies_num_deletions>>
statusVars == <<m_experiment_running, m_stop_reason, m_results>>
masterVars == <<mpc, mi, loaderVars, latencyVars, statusVars>>
vars == <<workerVars, masterVars>>

(* What the workers do is left alone by the steps of the master. *)
workersLocal == <<localVars, libraryVars, m_num_operations_performed, m_reported_times>>

At(phase, step) == mpc = <<phase, step>>
Back(a) == 3 - a

Init ==
    /\ WorkerInit
    /\ mpc = <<"ctor", "spawn">> /\ mi = 0
    /\ front = 1 /\ num_edges = 0 /\ next_block = 1 /\ m_random_vertex_id = 0
    /\ m_latencies_num_insertions = 0 /\ m_latencies_num_deletions = 0
    /\ m_experiment_running = FALSE /\ m_stop_reason = "NOT_SET"
    /\ m_results = [timeout_hit |-> FALSE, memfp_threshold_passed |-> FALSE,
                    thread_deadlocked |-> FALSE]

(* One iteration of `for(auto w : m_workers)': the next worker, or leave.  *)
ForEachWorker(again, leave) ==
    IF mi < NumThreads - 1 THEN mi' = mi + 1 /\ mpc' = again
                           ELSE mi' = 0 /\ mpc' = leave

-----------------------------------------------------------------------------
(* init_workers, Aging2Worker::start *)
Spawn ==
    /\ At("ctor", "spawn")
    /\ m_task' = [m_task EXCEPT ![mi] = Task("START", 0, 0)]
    /\ pc' = [pc EXCEPT ![mi] = "fetch"]
    /\ mpc' = <<"ctor", "wait">>
    /\ UNCHANGED <<sleepers, workersLocal, arrays, m_stop_experiment, m_last_time_reported, mi,
                   loaderVars, latencyVars, statusVars>>

(* Aging2Worker::wait(), in each phase that waits for all workers.         *)
WaitWorker(phase, again, leave) ==
    /\ At(phase, "wait") /\ "M" \notin sleepers[mi]
    /\ IF IsIdle(mi)
         THEN /\ ForEachWorker(again, leave)
              /\ UNCHANGED sleepers
         ELSE /\ sleepers' = [sleepers EXCEPT ![mi] = @ \cup {"M"}]
              /\ UNCHANGED <<mpc, mi>>
    /\ UNCHANGED <<m_task, pc, workersLocal, arrays, m_stop_experiment, m_last_time_reported,
                   loaderVars, latencyVars, statusVars>>

(* Aging2Worker::set_task_async: fill the slot, with the mutex held, ...   *)
SetTask(phase, t) ==
    /\ At(phase, "set")
    /\ IF IsIdle(mi)
         THEN /\ m_task' = [m_task EXCEPT ![mi] = t]
              /\ mpc' = <<phase, "notify">>
         ELSE /\ mpc' = <<"error", "busy">>
              /\ UNCHANGED m_task
    /\ UNCHANGED <<sleepers, pc, workersLocal, arrays, m_stop_experiment, m_last_time_reported,
                   mi, loaderVars, latencyVars, statusVars>>

(* ... then wake up the worker, and go on with the next one.               *)
NotifyWorker(phase, leave) ==
    /\ At(phase, "notify")
    /\ sleepers' = [sleepers EXCEPT ![mi] = {}]
    /\ ForEachWorker(<<phase, "set">>, leave)
    /\ UNCHANGED <<m_task, pc, workersLocal, arrays, m_stop_experiment, m_last_time_reported,
                   loaderVars, latencyVars, statusVars>>

-----------------------------------------------------------------------------
(* EdgeLoader::load: decompress the next block into an array; 0 at the end *)
LoadBlock(array) ==
    IF next_block <= NumBlocks
      THEN /\ arrays' = [arrays EXCEPT ![array] = next_block]
           /\ num_edges' = BlockSize(next_block)
           /\ next_block' = next_block + 1
      ELSE /\ num_edges' = 0
           /\ UNCHANGED <<arrays, next_block>>

(* What follows the loading of the blocks: in mode execute only once the   *)
(* log is exhausted, in mode small_batch after each block.                 *)
AfterLoad == IF MeasureLatency THEN <<"latency", "prepare">> ELSE <<"run", "start">>

(* The head of the loop on the blocks, when n updates have been loaded.    *)
LoopHead(n) ==
    IF n > 0 THEN <<"load", "set">>
             ELSE IF Mode = "execute" THEN AfterLoad ELSE <<"dtor", "set">>

LoadFirst ==
    /\ At("load", "first")
    /\ LoadBlock(front)
    /\ mpc' = LoopHead(num_edges')
    /\ UNCHANGED <<syncVars, pc, workersLocal, m_stop_experiment, m_last_time_reported, mi, front,
                   m_random_vertex_id, latencyVars, statusVars>>

(* set_random_vertex_id: the source of the first edge with a weight > 0,   *)
(* that is an edge of the final graph.                                     *)
RandomVertexId(b) ==
    LET final == {op \in BlockFirst(b) .. BlockEnd[b] : Log[op].weight > 0} IN
    IF m_random_vertex_id # 0 \/ final = {} THEN m_random_vertex_id ELSE Log[Min(final)].src

\* Mutant: load the next block over the one the workers are reading.
LoadNextSameArray ==
    /\ At("load", "next")
    /\ m_random_vertex_id' = RandomVertexId(arrays[front])
    /\ LoadBlock(front)
    /\ mpc' = <<"load", "wait">>
    /\ UNCHANGED <<syncVars, pc, workersLocal, m_stop_experiment, m_last_time_reported, mi, front,
                   latencyVars, statusVars>>

(* The next block goes to the array the workers are not reading.           *)
LoadNext ==
    /\ At("load", "next")
    /\ m_random_vertex_id' = RandomVertexId(arrays[front])
    /\ LoadBlock(Back(front))
    /\ mpc' = <<"load", "wait">>
    /\ UNCHANGED <<syncVars, pc, workersLocal, m_stop_experiment, m_last_time_reported, mi, front,
                   latencyVars, statusVars>>

SwapArrays ==
    /\ At("load", "swap")
    /\ front' = Back(front)
    /\ mpc' = IF Mode = "execute" THEN LoopHead(num_edges) ELSE AfterLoad
    /\ UNCHANGED <<syncVars, pc, workersLocal, arrays, m_stop_experiment, m_last_time_reported, mi,
                   num_edges, next_block, m_random_vertex_id, latencyVars, statusVars>>

-----------------------------------------------------------------------------
(* prepare_latencies: count the updates and give each worker its slices    *)
PrepareLatencies ==
    LET ins == m_latencies_num_insertions + SumFunction(m_num_edge_insertions)
        del == m_latencies_num_deletions + SumFunction(m_num_edge_deletions) IN
    /\ At("latency", "prepare")
    /\ m_latencies_num_insertions' = ins
    /\ m_latencies_num_deletions' = del
    /\ mpc' = IF Asserts /\ ins + del # Len(Log) THEN <<"error", "mismatch">> ELSE <<"latency", "set">>
    /\ UNCHANGED <<syncVars, pc, workersLocal, arrays, m_stop_experiment, m_last_time_reported, mi,
                   loaderVars, statusVars>>

SliceInsertions(w) == SumFunctionOnSet(m_num_edge_insertions, 0 .. w - 1)
\* Mutant: the slices of the deletions start where those of the insertions do.
SliceDeletionsNoBase(w) == SumFunctionOnSet(m_num_edge_deletions, 0 .. w - 1)
SliceDeletions(w) ==
    m_latencies_num_insertions + SumFunctionOnSet(m_num_edge_deletions, 0 .. w - 1)

-----------------------------------------------------------------------------
(* do_run_experiment *)
StartRun ==
    /\ At("run", "start")
    /\ m_last_time_reported' = 0
    /\ mpc' = <<"run", "set">>
    /\ UNCHANGED <<syncVars, pc, workersLocal, arrays, m_stop_experiment, mi, loaderVars,
                   latencyVars, statusVars>>

SetRunning ==
    /\ At("run", "running")
    /\ m_experiment_running' = TRUE
    /\ mpc' = <<"run", "record">>
    /\ UNCHANGED <<workerVars, mi, loaderVars, latencyVars, m_stop_reason, m_results>>

\* Mutant: leave as soon as one worker is done.
RecordIdleAny ==
    /\ At("run", "record") /\ IsIdle(mi)
    /\ mi' = 0
    /\ mpc' = IF m_stop_experiment THEN <<"run", "drain">> ELSE <<"run", "end">>
    /\ UNCHANGED <<workerVars, loaderVars, latencyVars, statusVars>>

(* wait_and_record, a tick that found all workers up to mi idle.           *)
RecordIdle ==
    /\ At("run", "record") /\ IsIdle(mi)
    /\ ForEachWorker(<<"run", "record">>,
                     IF m_stop_experiment THEN <<"run", "drain">> ELSE <<"run", "end">>)
    /\ UNCHANGED <<workerVars, loaderVars, latencyVars, statusVars>>

(* wait_and_record, a tick that expired on a busy worker: check the memory *)
(* threshold first, then the timeout.                                      *)
RecordTick ==
    /\ At("run", "record") /\ ~ IsIdle(mi)
    /\ mi' = 0
    /\ \E hit \in SUBSET StopReasons :
         /\ m_stop_experiment' = (m_stop_experiment \/ hit # {})
         /\ m_stop_reason' = CASE "TIMEOUT_HIT" \in hit -> "TIMEOUT_HIT"
                               [] hit = {"MEMORY_FOOTPRINT"} -> "MEMORY_FOOTPRINT"
                               [] hit = {} -> m_stop_reason
    /\ mpc' = IF m_stop_experiment' THEN <<"run", "drain">> ELSE <<"run", "record">>
    /\ UNCHANGED <<syncVars, pc, workersLocal, arrays, m_last_time_reported, loaderVars,
                   latencyVars, m_experiment_running, m_results>>

(* The experiment has been stopped: each worker has five minutes.          *)
DrainIdle ==
    /\ At("run", "drain") /\ IsIdle(mi)
    /\ ForEachWorker(<<"run", "drain">>, <<"run", "end">>)
    /\ UNCHANGED <<workerVars, loaderVars, latencyVars, statusVars>>

DrainExpired ==
    /\ At("run", "drain") /\ ~ IsIdle(mi) /\ DrainMayExpire
    /\ m_results' = [m_results EXCEPT !.thread_deadlocked = TRUE]
    /\ ForEachWorker(<<"run", "drain">>, <<"run", "end">>)
    /\ UNCHANGED <<workerVars, loaderVars, latencyVars, m_experiment_running, m_stop_reason>>

(* The end of do_run_experiment: back to the loop on the blocks, or on to  *)
(* the removal of the vertices.                                            *)
EndRun ==
    /\ At("run", "end")
    /\ mpc' = IF Mode = "execute" THEN <<"remove", "set">> ELSE LoopHead(num_edges)
    /\ UNCHANGED <<workerVars, mi, loaderVars, latencyVars, statusVars>>

-----------------------------------------------------------------------------
(* store_results, only called by Aging2Master::execute *)
StoreResults ==
    /\ At("store", "results")
    /\ m_results' = [m_results EXCEPT !.timeout_hit = (m_stop_reason = "TIMEOUT_HIT"),
                                      !.memfp_threshold_passed = (m_stop_reason = "MEMORY_FOOTPRINT")]
    /\ mpc' = <<"dtor", "set">>
    /\ UNCHANGED <<workerVars, mi, loaderVars, latencyVars, m_experiment_running, m_stop_reason>>

(* ~Aging2Worker, Aging2Worker::stop: without assertions STOP overwrites   *)
(* whatever the slot holds.                                                *)
SetStop ==
    /\ At("dtor", "set")
    /\ IF IsIdle(mi) \/ ~ Asserts
         THEN /\ m_task' = [m_task EXCEPT ![mi] = Task("STOP", 0, 0)]
              /\ mpc' = <<"dtor", "notify">>
         ELSE /\ mpc' = <<"error", "assert">>
              /\ UNCHANGED m_task
    /\ UNCHANGED <<sleepers, pc, workersLocal, arrays, m_stop_experiment, m_last_time_reported, mi,
                   loaderVars, latencyVars, statusVars>>

NotifyStop ==
    /\ At("dtor", "notify")
    /\ sleepers' = [sleepers EXCEPT ![mi] = {}]
    /\ mpc' = <<"dtor", "join">>
    /\ UNCHANGED <<m_task, pc, workersLocal, arrays, m_stop_experiment, m_last_time_reported, mi,
                   loaderVars, latencyVars, statusVars>>

Join ==
    /\ At("dtor", "join") /\ pc[mi] = "exited"
    /\ ForEachWorker(<<"dtor", "set">>, <<"done", "done">>)
    /\ UNCHANGED <<workerVars, loaderVars, latencyVars, statusVars>>

MasterStep ==
    \/ Spawn \/ WaitWorker("ctor", <<"ctor", "spawn">>, <<"load", "first">>)
    \/ LoadFirst
    \/ SetTask("load", Task("LOAD_EDGES", front, num_edges))
    \/ NotifyWorker("load", <<"load", "next">>)
    \/ LoadNext \/ WaitWorker("load", <<"load", "wait">>, <<"load", "swap">>) \/ SwapArrays
    \/ PrepareLatencies
    \/ SetTask("latency", Task("SET_ARRAY_LATENCIES", SliceInsertions(mi), SliceDeletions(mi)))
    \/ NotifyWorker("latency", <<"latency", "wait">>)
    \/ WaitWorker("latency", <<"latency", "wait">>, <<"run", "start">>)
    \/ StartRun
    \/ SetTask("run", Task("EXECUTE_UPDATES", 0, 0))
    \/ NotifyWorker("run", <<"run", "running">>) \/ SetRunning
    \/ RecordIdle \/ RecordTick \/ DrainIdle \/ DrainExpired \/ EndRun
    \/ SetTask("remove", Task("REMOVE_VERTICES", 0, Len(TempVertices)))
    \/ NotifyWorker("remove", <<"remove", "wait">>)
    \/ WaitWorker("remove", <<"remove", "wait">>, <<"store", "results">>)
    \/ StoreResults \/ SetStop \/ NotifyStop \/ Join

(* The master may be woken up for no reason too. *)
MasterSpuriousWakeup ==
    /\ "M" \in sleepers[mi]
    /\ sleepers' = [sleepers EXCEPT ![mi] = @ \ {"M"}]
    /\ UNCHANGED <<m_task, pc, workersLocal, arrays, m_stop_experiment, m_last_time_reported,
                   masterVars>>

Finished == mpc[1] \in {"done", "error"} /\ UNCHANGED vars

Next ==
    \/ MasterStep \/ MasterSpuriousWakeup
    \/ \E w \in W : (WorkerStep(w) \/ SpuriousWakeup(w)) /\ UNCHANGED masterVars
    \/ Finished

(* The operating system runs every thread that can run; the library        *)
(* eventually accepts a call that can succeed.  Spurious wake-ups are not  *)
(* something a thread can count on.                                        *)
Fairness ==
    /\ WF_vars(MasterStep)
    /\ \A w \in W : WF_vars(WorkerStep(w) /\ UNCHANGED masterVars)

Spec == Init /\ [][Next]_vars /\ Fairness
=============================================================================
