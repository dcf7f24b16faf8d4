--------------------------- MODULE MixedWorkload ---------------------------
(***************************************************************************)
(* The mixed workload (experiment/mixed_workload.cpp): a thread started by *)
(* std::async runs Aging2Experiment::execute, which creates the master of  *)
(* the Aging2 experiment, runs it and deletes it, while the caller polls   *)
(* its progress and runs the Graphalytics experiment in the meanwhile.     *)
(*                                                                         *)
(* The two threads share the plain pointer Aging2Experiment::m_master.     *)
(* progress_so_far loads it for the test against nullptr and then to call  *)
(* the master: these are two steps.                                        *)
(***************************************************************************)
EXTENDS Aging2, GraphalyticsSequential

CONSTANTS
    UpperProgress    \* no kernel is started once this share of the log is done, in percent:
                     \* 16 with HAVE_LIVEGRAPH, 90 without

VARIABLES
    m_master,        \* "null", "valid", or "deleted": the object has been destroyed
    future,          \* aging_result_future: "running", "result" or "exception"
    apc,             \* where the thread of the analytics is
    loop             \* the loop it polls the progress from

agingVars == <<vars, m_master, future>>
analyticsVars == <<graphalyticsVars, apc, loop>>
mixedVars == <<agingVars, analyticsVars>>

MixedInit ==
    /\ Init /\ GraphalyticsInit
    /\ m_master = "null" /\ future = "running"
    /\ apc = "sleep" /\ loop = "loading"

-----------------------------------------------------------------------------
(* Aging2Experiment::execute: m_master = new Aging2Master, ...             *)
AssignMaster ==
    /\ mpc[1] \notin {"ctor", "done"} /\ m_master = "null"
    /\ m_master' = "valid"
    /\ UNCHANGED <<vars, future>>

(* ... m_master->execute_synchronized_small_batch(), whose updates are run *)
(* by the workers, and the destructor.  The constructor precedes the       *)
(* assignment; with the last step of the destructor the object is gone.    *)
RunMaster ==
    /\ \/ (m_master = "valid" \/ mpc[1] = "ctor") /\ (MasterStep \/ MasterSpuriousWakeup)
       \/ \E w \in W : (WorkerStep(w) \/ SpuriousWakeup(w)) /\ UNCHANGED masterVars
    /\ m_master' = IF mpc'[1] = "done" THEN "deleted" ELSE m_master
    /\ UNCHANGED future

(* m_master = nullptr *)
ResetMaster ==
    /\ mpc[1] = "done" /\ m_master = "deleted"
    /\ m_master' = "null"
    /\ UNCHANGED <<vars, future>>

(* return result, or the exception thrown by a busy worker: then the       *)
(* master is not deleted.                                                  *)
SetFuture ==
    /\ future = "running"
    /\ \/ mpc[1] = "done" /\ m_master = "null" /\ future' = "result"
       \/ mpc = <<"error", "busy">> /\ future' = "exception"
    /\ UNCHANGED <<vars, m_master>>

-----------------------------------------------------------------------------
(* The number of operations progress_so_far may return (out of Len(Log)):  *)
(* when the master is gone the memory may hold anything.                   *)
Progress ==
    IF m_master = "valid" THEN {IF m_experiment_running THEN m_num_operations_performed ELSE 0}
                          ELSE 0 .. Len(Log)

(* What the two loops do with the progress: the first one waits for a      *)
(* tenth of the log, the second one ends at UpperProgress.                 *)
Compare(progress) ==
    apc' = CASE loop = "loading" -> IF 10 * progress > Len(Log) THEN "loaded" ELSE "wait_for"
             [] loop = "reading" -> IF 100 * progress < UpperProgress * Len(Log) THEN "wait_for"
                                                                                 ELSE "read_finish"

Sleep == apc = "sleep" /\ apc' = "test" /\ UNCHANGED <<graphalyticsVars, loop>>

(* progress_so_far: if(m_master == nullptr) return 0.0; ...                *)
TestMaster ==
    /\ apc = "test"
    /\ IF m_master = "null" THEN Compare(0) ELSE apc' = "call"
    /\ UNCHANGED <<graphalyticsVars, loop>>

(* ... else return m_master->progress_so_far()                             *)
CallMaster ==
    /\ apc = "call"
    /\ \E progress \in Progress : Compare(progress)
    /\ UNCHANGED <<graphalyticsVars, loop>>

(* aging_result_future.wait_for(0) *)
WaitFor ==
    /\ apc = "wait_for"
    /\ CASE loop = "loading" -> /\ apc' = IF future = "running" THEN "sleep" ELSE "loaded"
                                /\ UNCHANGED graphalyticsVars
         [] loop = "reading" -> IF future = "running" THEN apc' = "execute" /\ Begin
                                ELSE apc' = "read_finish" /\ UNCHANGED graphalyticsVars
    /\ UNCHANGED loop

(* m_graphalytics.mixed_workload_finished_loading() *)
FinishedLoading ==
    /\ apc = "loaded"
    /\ apc' = "test" /\ loop' = "reading"
    /\ UNCHANGED graphalyticsVars

(* m_graphalytics.execute() *)
Analytics ==
    /\ apc = "execute"
    /\ IF Executing THEN Execute /\ UNCHANGED apc ELSE apc' = "test" /\ UNCHANGED graphalyticsVars
    /\ UNCHANGED loop

(* mixed_workload_read_finish(), future.wait() and future.get()            *)
ReadFinish ==
    /\ apc = "read_finish" /\ future # "running"
    /\ apc' = IF future = "result" THEN "returned" ELSE "thrown"
    /\ UNCHANGED <<graphalyticsVars, loop>>

AnalyticsStep ==
    \/ Sleep \/ TestMaster \/ CallMaster \/ WaitFor \/ FinishedLoading \/ Analytics \/ ReadFinish

MixedNext ==
    \/ (AssignMaster \/ RunMaster \/ ResetMaster \/ SetFuture) /\ UNCHANGED analyticsVars
    \/ AnalyticsStep /\ UNCHANGED agingVars
    \/ apc \in {"returned", "thrown"} /\ UNCHANGED mixedVars

MixedSpec == MixedInit /\ [][MixedNext]_mixedVars

-----------------------------------------------------------------------------
(* The progress is asked to a master that exists: neither one destroyed by *)
(* the thread of the updates after the test against nullptr, nor the null  *)
(* pointer that the thread assigns next ("Poor mans synchronization to     *)
(* ensure AgingExperiment was able to setup the master etc").              *)
MasterAliveWhenCalled == apc = "call" => m_master = "valid"
=============================================================================
