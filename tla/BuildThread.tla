----------------------------- MODULE BuildThread -----------------------------
(***************************************************************************)
(* The service that periodically invokes the method #build() of the        *)
(* library (experiment/details/build_thread.cpp), and the state it shares  *)
(* with the thread that starts and stops it, here "main".                  *)
(*                                                                         *)
(* The service sleeps with wait_for, that also returns when the period is  *)
(* over: a step it may take at any time.  Only main sleeps for good.       *)
(***************************************************************************)
EXTENDS Integers, Sequences, FiniteSets

CONSTANTS
    NumThreads,   \* the workers of the experiment; the service has the next thread id
    Enabled,      \* whether the frequency is > 0
    MaxBuilds     \* bound: the periodic invocations of #build()

ASSUME ServiceAssumption == NumThreads \in Nat \ {0} /\ Enabled \in BOOLEAN /\ MaxBuilds \in Nat

VARIABLES
    m_terminate,        \* signals both that the service has started and that it shall stop
    m_num_invocations,
    joinable,           \* m_thread.joinable()
    asleep,             \* whether main is blocked on m_condvar
    bpc,                \* where the service is
    terminate,          \* its local copy of m_terminate
    registered,         \* the library: the threads that hold each thread id
    stored,             \* the library: the updates stored, in order
    snapshots           \* history: for each build(), what was stored when it began

serviceVars == <<m_terminate, m_num_invocations, joinable, asleep, bpc, terminate>>
libraryVars == <<registered, stored, snapshots>>

ServiceInit ==
    /\ m_terminate = TRUE /\ m_num_invocations = 0 /\ joinable = FALSE
    /\ asleep = FALSE /\ bpc = "none" /\ terminate = FALSE
    /\ registered = [i \in 0 .. NumThreads |-> {}]
    /\ stored = <<>> /\ snapshots = <<>>

(* on_thread_init and on_thread_destroy do nothing unless a library says   *)
(* otherwise: the threads registered are kept to check that the calls      *)
(* match.                                                                  *)
OnThreadInit(i, t) == registered' = [registered EXCEPT ![i] = @ \cup {t}]
OnThreadDestroy(i, t) == registered' = [registered EXCEPT ![i] = @ \ {t}]

(* build does nothing either by default; a library with snapshots takes    *)
(* one of what is stored.                                                  *)
Build == snapshots' = Append(snapshots, stored)

-----------------------------------------------------------------------------
(* main_thread: acknowledge the start, ... *)
Acknowledge ==
    /\ bpc = "start"
    /\ m_terminate' = FALSE /\ terminate' = FALSE
    /\ bpc' = "notify"
    /\ UNCHANGED <<m_num_invocations, joinable, asleep, libraryVars>>

NotifyStarted ==
    /\ bpc = "notify"
    /\ asleep' = FALSE
    /\ bpc' = "init"
    /\ UNCHANGED <<m_terminate, m_num_invocations, joinable, terminate, libraryVars>>

Register ==
    /\ bpc = "init"
    /\ OnThreadInit(NumThreads, <<"build", 0>>)
    /\ bpc' = "wait"
    /\ UNCHANGED <<m_terminate, m_num_invocations, joinable, asleep, terminate, stored, snapshots>>

(* ... wait for the period, or to be told to stop, ... *)
Tick ==
    /\ bpc = "wait" /\ (m_terminate \/ m_num_invocations < MaxBuilds)
    /\ terminate' = m_terminate
    /\ bpc' = "build"
    /\ UNCHANGED <<m_terminate, m_num_invocations, joinable, asleep, libraryVars>>

(* ... invoke #build(), also when it has been told to stop, ... *)
InvokeBuild ==
    /\ bpc = "build"
    /\ Build
    /\ bpc' = "count"
    /\ UNCHANGED <<m_terminate, m_num_invocations, joinable, asleep, terminate, registered, stored>>

CountBuild ==
    /\ bpc = "count"
    /\ m_num_invocations' = m_num_invocations + 1
    /\ bpc' = IF terminate THEN "destroy" ELSE "wait"
    /\ UNCHANGED <<m_terminate, joinable, asleep, terminate, libraryVars>>

Unregister ==
    /\ bpc = "destroy"
    /\ OnThreadDestroy(NumThreads, <<"build", 0>>)
    /\ bpc' = "done"
    /\ UNCHANGED <<m_terminate, m_num_invocations, joinable, asleep, terminate, stored, snapshots>>

Service ==
    \/ Acknowledge \/ NotifyStarted \/ Register \/ Tick \/ InvokeBuild \/ CountBuild \/ Unregister
=============================================================================
