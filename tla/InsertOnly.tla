----------------------------- MODULE InsertOnly -----------------------------
(***************************************************************************)
(* The experiment InsertOnly (experiment/insert_only.cpp): the workers     *)
(* take chunks of the edge stream from a shared counter and insert their   *)
(* edges, while the service BuildThread creates snapshots.                 *)
(*                                                                         *)
(* The edges of the stream are identified by their position, from 0.       *)
(***************************************************************************)
EXTENDS BuildThread, FiniteSetsExt

CONSTANTS
    NumEdges,             \* m_stream->num_edges()
    SchedulerGranularity  \* m_scheduler_granularity, as configured

ASSUME StreamAssumption == NumEdges \in Nat /\ SchedulerGranularity \in Nat \ {0}

Workers == 0 .. NumThreads - 1

VARIABLES
    mpc,                  \* where execute() is
    mi,                   \* the loops on the threads
    m_num_build_invocations,
    start_chunk_next,     \* the next chunk
    wpc,                  \* where each worker is
    pos, end              \* the rest of its chunk

mainVars == <<mpc, mi, m_num_build_invocations>>
workerVars == <<start_chunk_next, wpc, pos, end>>
vars == <<serviceVars, libraryVars, mainVars, workerVars>>

(* The granularity is reduced if there are too few insertions.             *)
Granularity ==
    IF NumEdges \div NumThreads < SchedulerGranularity THEN Max({NumEdges \div NumThreads, 1})
                                                       ELSE SchedulerGranularity

Init ==
    /\ ServiceInit
    /\ mpc = "ctor" /\ mi = 0 /\ m_num_build_invocations = 0
    /\ start_chunk_next = 0
    /\ wpc = [w \in Workers |-> "none"]
    /\ pos = [w \in Workers |-> 0] /\ end = [w \in Workers |-> 0]

-----------------------------------------------------------------------------
(* The workers: the lambda of execute_round_robin *)

Goto(w, label) == wpc' = [wpc EXCEPT ![w] = label]

Enter(w) ==
    /\ wpc[w] = "init"
    /\ OnThreadInit(w, <<"worker", w>>)
    /\ Goto(w, "fetch")
    /\ UNCHANGED <<stored, snapshots, serviceVars, mainVars, start_chunk_next, pos, end>>

FetchChunk(w) ==
    /\ wpc[w] = "fetch"
    /\ start_chunk_next' = start_chunk_next + Granularity
    /\ IF start_chunk_next < NumEdges
         THEN /\ pos' = [pos EXCEPT ![w] = start_chunk_next]
              /\ end' = [end EXCEPT ![w] = Min({start_chunk_next + Granularity, NumEdges})]
              /\ Goto(w, "insert")
         ELSE Goto(w, "destroy") /\ UNCHANGED <<pos, end>>
    /\ UNCHANGED <<serviceVars, libraryVars, mainVars>>

(* run_sequential: add_edge_v2 *)
InsertEdge(w) ==
    /\ wpc[w] = "insert"
    /\ IF pos[w] < end[w]
         THEN /\ stored' = Append(stored, pos[w])
              /\ pos' = [pos EXCEPT ![w] = @ + 1]
              /\ UNCHANGED wpc
         ELSE Goto(w, "fetch") /\ UNCHANGED <<stored, pos>>
    /\ UNCHANGED <<registered, snapshots, serviceVars, mainVars, start_chunk_next, end>>

Leave(w) ==
    /\ wpc[w] = "destroy"
    /\ OnThreadDestroy(w, <<"worker", w>>)
    /\ Goto(w, "done")
    /\ UNCHANGED <<stored, snapshots, serviceVars, mainVars, start_chunk_next, pos, end>>

Worker(w) == Enter(w) \/ FetchChunk(w) \/ InsertEdge(w) \/ Leave(w)

-----------------------------------------------------------------------------
(* execute() *)

(* BuildThread::BuildThread, start *)
StartService ==
    /\ mpc = "ctor"
    /\ IF Enabled THEN joinable' = TRUE /\ bpc' = "start" /\ mpc' = "ctor_wait"
                  ELSE mpc' = "spawn" /\ UNCHANGED <<joinable, bpc>>
    /\ UNCHANGED <<m_terminate, m_num_invocations, asleep, terminate, libraryVars, mi,
                   m_num_build_invocations, workerVars>>

AwaitStart ==
    /\ mpc = "ctor_wait" /\ ~ asleep
    /\ IF m_terminate THEN asleep' = TRUE /\ UNCHANGED mpc
                      ELSE mpc' = "spawn" /\ UNCHANGED asleep
    /\ UNCHANGED <<m_terminate, m_num_invocations, joinable, bpc, terminate, libraryVars, mi,
                   m_num_build_invocations, workerVars>>

NextWorker(leave) ==
    IF mi < NumThreads - 1 THEN mi' = mi + 1 /\ UNCHANGED mpc ELSE mi' = 0 /\ mpc' = leave

SpawnWorker ==
    /\ mpc = "spawn"
    /\ Goto(mi, "init")
    /\ NextWorker("join")
    /\ UNCHANGED <<serviceVars, libraryVars, m_num_build_invocations, start_chunk_next, pos, end>>

\* Mutant: do not wait for the workers.
JoinWorkerDetached ==
    /\ mpc = "join"
    /\ NextWorker("stop")
    /\ UNCHANGED <<serviceVars, libraryVars, m_num_build_invocations, workerVars>>

JoinWorker ==
    /\ mpc = "join" /\ wpc[mi] = "done"
    /\ NextWorker("stop")
    /\ UNCHANGED <<serviceVars, libraryVars, m_num_build_invocations, workerVars>>

\* Mutant: the flag m_terminate is not raised.
StopServiceUnset ==
    /\ mpc = "stop"
    /\ mpc' = IF ~ m_terminate THEN "stop_join" ELSE "final_init"
    /\ UNCHANGED <<m_terminate, m_num_invocations, joinable, asleep, bpc, terminate, libraryVars, mi,
                   m_num_build_invocations, workerVars>>

(* BuildThread::stop: nothing to do if the service was never started.      *)
StopService ==
    /\ mpc = "stop"
    /\ IF ~ m_terminate THEN m_terminate' = TRUE /\ mpc' = "stop_join"
                        ELSE ~ joinable /\ mpc' = "final_init" /\ UNCHANGED m_terminate
    /\ UNCHANGED <<m_num_invocations, joinable, asleep, bpc, terminate, libraryVars, mi,
                   m_num_build_invocations, workerVars>>

\* Mutant: return without waiting for the service to terminate.
JoinServiceDetached ==
    /\ mpc = "stop_join"
    /\ joinable' = FALSE
    /\ m_num_build_invocations' = m_num_invocations
    /\ mpc' = "final_init"
    /\ UNCHANGED <<m_terminate, m_num_invocations, asleep, bpc, terminate, libraryVars, mi, workerVars>>

JoinService ==
    /\ mpc = "stop_join" /\ bpc = "done"
    /\ joinable' = FALSE
    /\ m_num_build_invocations' = m_num_invocations
    /\ mpc' = "final_init"
    /\ UNCHANGED <<m_terminate, m_num_invocations, asleep, bpc, terminate, libraryVars, mi, workerVars>>

(* The last invocation of #build(), by main with the thread id 0.          *)
FinalInit ==
    /\ mpc = "final_init"
    /\ OnThreadInit(0, <<"main", 0>>)
    /\ mpc' = "final_build"
    /\ UNCHANGED <<stored, snapshots, serviceVars, mi, m_num_build_invocations, workerVars>>

FinalBuild ==
    /\ mpc = "final_build"
    /\ Build
    /\ m_num_build_invocations' = m_num_build_invocations + 1
    /\ mpc' = "final_destroy"
    /\ UNCHANGED <<registered, stored, serviceVars, mi, workerVars>>

FinalDestroy ==
    /\ mpc = "final_destroy"
    /\ OnThreadDestroy(0, <<"main", 0>>)
    /\ mpc' = "done"
    /\ UNCHANGED <<stored, snapshots, serviceVars, mi, m_num_build_invocations, workerVars>>

Main ==
    \/ StartService \/ AwaitStart \/ SpawnWorker \/ JoinWorker \/ StopService \/ JoinService
    \/ FinalInit \/ FinalBuild \/ FinalDestroy

SpuriousWakeup ==
    /\ asleep /\ asleep' = FALSE
    /\ UNCHANGED <<m_terminate, m_num_invocations, joinable, bpc, terminate, libraryVars, mainVars,
                   workerVars>>

Finished == mpc = "done" /\ UNCHANGED vars

Next ==
    \/ Main \/ SpuriousWakeup \/ Finished
    \/ Service /\ UNCHANGED <<mainVars, workerVars>>
    \/ \E w \in Workers : Worker(w)

(* Every thread runs; the service is not assumed to tick before it is told *)
(* to stop, but it then notices.                                           *)
Spec ==
    /\ Init /\ [][Next]_vars
    /\ WF_vars(Main) /\ WF_vars(Service /\ UNCHANGED <<mainVars, workerVars>>)
    /\ \A w \in Workers : WF_vars(Worker(w))

-----------------------------------------------------------------------------
(* The values of the variables. *)
TypeOK ==
    /\ m_terminate \in BOOLEAN /\ joinable \in BOOLEAN /\ asleep \in BOOLEAN /\ terminate \in BOOLEAN
    /\ m_num_invocations \in 0 .. MaxBuilds + 1 /\ m_num_build_invocations \in 0 .. MaxBuilds + 2
    /\ bpc \in {"none", "start", "notify", "init", "wait", "build", "count", "destroy", "done"}
    /\ stored \in Seq(0 .. NumEdges - 1) /\ snapshots \in Seq(Seq(0 .. NumEdges - 1))
    /\ mpc \in {"ctor", "ctor_wait", "spawn", "join", "stop", "stop_join",
                "final_init", "final_build", "final_destroy", "done"}
    /\ mi \in Workers /\ start_chunk_next \in Nat
    /\ wpc \in [Workers -> {"none", "init", "fetch", "insert", "destroy", "done"}]
    /\ pos \in [Workers -> 0 .. NumEdges] /\ end \in [Workers -> 0 .. NumEdges]

(* However the chunks are handed out, no edge of the stream is inserted    *)
(* twice, and when execute() ends all of them have been inserted.          *)
EachEdgeOnce ==
    /\ Cardinality({stored[i] : i \in DOMAIN stored}) = Len(stored)
    /\ mpc \in {"stop", "done"} => Len(stored) = NumEdges

(* The last snapshot holds the whole stream: the build of execute() begins *)
(* after all insertions, and no build of the service is still running or   *)
(* follows it.                                                             *)
LastSnapshotComplete ==
    mpc = "done" => /\ bpc \in {"none", "done"}
                    /\ Len(snapshots[Len(snapshots)]) = NumEdges
                    /\ m_num_build_invocations = Len(snapshots)

(* The experiment ends: the service notices that it has to stop.           *)
Terminates == <>(mpc = "done")
=============================================================================
