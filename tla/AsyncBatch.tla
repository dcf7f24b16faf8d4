----------------------------- MODULE AsyncBatch -----------------------------
(***************************************************************************)
(* AsyncBatch (experiment/details/async_batch.cpp): a ring of batches      *)
(* filled by the owner and applied to the library by a background thread.  *)
(* The owner is the producer "P", the background thread the consumer "C".  *)
(*                                                                         *)
(* A critical section on m_thread_mutex is one step; the notify_all that   *)
(* follow an unlock, and the accesses to the batches, made without the     *)
(* mutex, are steps of their own.                                          *)
(***************************************************************************)
EXTENDS Integers, Sequences

CONSTANTS
    BatchesSz,    \* m_batches_sz, the number of batches in the ring
    BatchSz,      \* m_batch_sz, the number of updates in a batch
    Updates,      \* the updates: add_edge and remove_edge only differ in the payload
    Garbage,      \* the content of an entry never written
    MaxUpdates    \* bound: how many updates the owner hands over

\* The checks of the constructor.
ASSUME SizeAssumption ==
    /\ BatchesSz \in Nat /\ BatchesSz >= 1
    /\ BatchSz \in Nat /\ BatchSz >= 1

ASSUME UpdatesAssumption == Garbage \notin Updates /\ MaxUpdates \in Nat

Slots == 0 .. BatchesSz - 1

VARIABLES
    m_batches,              \* the content of each batch
    m_batches_num_entries,  \* the filled entries of each batch sent
    m_batch_index,          \* the batch being filled
    m_batch_pos,            \* the next free entry in it
    m_send_index,           \* the batch being applied
    m_send_upto,            \* batches to apply, or the start/stop handshake
    sleepers,               \* the threads blocked on m_thread_condvar
    ppc, caller, synchronise,  \* the owner: where it is, who called flush, and how
    cpc, cpos, cnum,        \* the background thread: where it is, and the loop of batch()
    accepted,               \* history: the updates handed over
    applied,                \* history: the updates applied to the library
    base                    \* history: updates handed over before the batch in each slot

batchVars == <<m_batches, m_batches_num_entries, m_batch_index, m_batch_pos>>
ownerVars == <<ppc, caller, synchronise>>
threadVars == <<cpc, cpos, cnum, m_send_index>>
vars == <<batchVars, m_send_index, m_send_upto, sleepers, ownerVars, cpc, cpos, cnum, accepted,
          applied, base>>

Init ==
    /\ m_batches = [s \in Slots |-> [i \in 1 .. BatchSz |-> Garbage]]
    /\ m_batches_num_entries = [s \in Slots |-> 0]
    /\ m_batch_index = 0 /\ m_batch_pos = 0
    /\ m_send_index = 0 /\ m_send_upto = 0
    /\ sleepers = {}
    /\ ppc = "ctor" /\ caller = "user" /\ synchronise = FALSE
    /\ cpc = "none" /\ cpos = 0 /\ cnum = 0
    /\ accepted = <<>> /\ applied = <<>>
    /\ base = [s \in Slots |-> 0]

(* The next batch in the ring. *)
NextIndex(i) == (i + 1) % BatchesSz

-----------------------------------------------------------------------------
(* The owner *)

(* The constructor starts the thread, ... *)
Construct ==
    /\ ppc = "ctor"
    /\ m_send_upto' = 1
    /\ cpc' = "init"
    /\ ppc' = "ctor_wait"
    /\ UNCHANGED <<batchVars, m_send_index, sleepers, caller, synchronise, cpos, cnum, accepted,
                   applied, base>>

(* ... and waits for its acknowledgement. *)
AwaitStart ==
    /\ ppc = "ctor_wait" /\ "P" \notin sleepers
    /\ IF m_send_upto = 0 THEN ppc' = "ready" /\ UNCHANGED sleepers
                          ELSE sleepers' = sleepers \cup {"P"} /\ UNCHANGED ppc
    /\ UNCHANGED <<batchVars, m_send_upto, caller, synchronise, threadVars, accepted, applied, base>>

(* add_edge, remove_edge: write the next entry of the current batch.       *)
AddUpdate(u) ==
    /\ ppc \in {"ready", "add"} /\ m_batch_pos < BatchSz /\ Len(accepted) < MaxUpdates
    /\ m_batches' = [m_batches EXCEPT ![m_batch_index][m_batch_pos + 1] = u]
    /\ m_batch_pos' = m_batch_pos + 1
    /\ accepted' = Append(accepted, u)
    /\ ppc' = "ready"
    /\ UNCHANGED <<m_batches_num_entries, m_batch_index, m_send_upto, sleepers, caller, synchronise,
                   threadVars, applied, base>>

(* The three ways to reach flush: the batch is full, the owner asks for    *)
(* it, the destructor.                                                     *)
CallFlush(who, sync) ==
    /\ ppc = "ready"
    /\ who = "add" => m_batch_pos = BatchSz /\ Len(accepted) < MaxUpdates
    /\ caller' = who /\ synchronise' = sync
    /\ ppc' = "flush"
    /\ UNCHANGED <<batchVars, m_send_upto, sleepers, threadVars, accepted, applied, base>>

\* Mutant: send also the last batch of the ring.
RingFullAll == m_send_upto >= BatchesSz

(* One batch is always left to the owner. *)
RingFull == m_send_upto >= BatchesSz - 1

(* flush: wait for a free batch, then send the current one, if not empty.  *)
SendBatch ==
    /\ ppc = "flush" /\ "P" \notin sleepers
    /\ IF RingFull
         THEN /\ sleepers' = sleepers \cup {"P"}
              /\ UNCHANGED <<batchVars, m_send_upto, ppc, base>>
         ELSE /\ IF m_batch_pos > 0
                   THEN /\ m_batches_num_entries' =
                               [m_batches_num_entries EXCEPT ![m_batch_index] = m_batch_pos]
                        /\ m_batch_pos' = 0
                        /\ m_batch_index' = NextIndex(m_batch_index)
                        /\ base' = [base EXCEPT ![NextIndex(m_batch_index)] = Len(accepted)]
                        /\ m_send_upto' = m_send_upto + 1
                   ELSE UNCHANGED <<m_batches_num_entries, m_batch_pos, m_batch_index, m_send_upto, base>>
              /\ ppc' = "notify"
              /\ UNCHANGED <<m_batches, sleepers>>
    /\ UNCHANGED <<caller, synchronise, threadVars, accepted, applied>>

(* Where flush returns to: its caller, add_edge or the destructor. *)
Return == IF caller = "user" THEN "ready" ELSE caller

\* Mutant: the background thread is not told that there are updates to process.
NotifyThreadNone ==
    /\ ppc = "notify"
    /\ ppc' = IF synchronise THEN "sync" ELSE Return
    /\ UNCHANGED <<sleepers, batchVars, m_send_upto, caller, synchronise, threadVars, accepted,
                   applied, base>>

NotifyThread ==
    /\ ppc = "notify"
    /\ sleepers' = {}
    /\ ppc' = IF synchronise THEN "sync" ELSE Return
    /\ UNCHANGED <<batchVars, m_send_upto, caller, synchronise, threadVars, accepted, applied, base>>

\* Mutant: flush(true) is content with a free batch.
SynchroniseOne ==
    /\ ppc = "sync" /\ "P" \notin sleepers
    /\ IF ~ RingFull THEN ppc' = Return /\ UNCHANGED sleepers
                     ELSE sleepers' = sleepers \cup {"P"} /\ UNCHANGED ppc
    /\ UNCHANGED <<batchVars, m_send_upto, caller, synchronise, threadVars, accepted, applied, base>>

(* flush(true): wait for all batches to be sent. *)
Synchronise ==
    /\ ppc = "sync" /\ "P" \notin sleepers
    /\ IF m_send_upto = 0 THEN ppc' = Return /\ UNCHANGED sleepers
                          ELSE sleepers' = sleepers \cup {"P"} /\ UNCHANGED ppc
    /\ UNCHANGED <<batchVars, m_send_upto, caller, synchronise, threadVars, accepted, applied, base>>

(* The rest of the destructor. *)
Terminate ==
    /\ ppc = "dtor"
    /\ m_send_upto' = -1
    /\ ppc' = "dtor_notify"
    /\ UNCHANGED <<batchVars, sleepers, caller, synchronise, threadVars, accepted, applied, base>>

NotifyTerminate ==
    /\ ppc = "dtor_notify"
    /\ sleepers' = {}
    /\ ppc' = "join"
    /\ UNCHANGED <<batchVars, m_send_upto, caller, synchronise, threadVars, accepted, applied, base>>

Join ==
    /\ ppc = "join" /\ cpc = "done"
    /\ ppc' = "gone"
    /\ UNCHANGED <<batchVars, m_send_upto, sleepers, caller, synchronise, threadVars, accepted, applied,
                   base>>

-----------------------------------------------------------------------------
(* The background thread *)

Acknowledge ==
    /\ cpc = "init"
    /\ m_send_upto' = 0
    /\ cpc' = "init_notify"
    /\ UNCHANGED <<batchVars, m_send_index, sleepers, ownerVars, cpos, cnum, accepted, applied, base>>

NotifyStarted ==
    /\ cpc = "init_notify"
    /\ sleepers' = {}
    /\ cpc' = "wait"
    /\ UNCHANGED <<batchVars, m_send_index, m_send_upto, ownerVars, cpos, cnum, accepted, applied, base>>

(* Wait, with the mutex held and `upto' in m_send_upto, for a job: sleep,  *)
(* terminate, or invoke the method batch() on the next batch.              *)
AwaitJob(upto, awake) ==
    \/ /\ upto = 0
       /\ m_send_upto' = 0 /\ cpc' = "wait" /\ sleepers' = awake \cup {"C"}
       /\ UNCHANGED <<cpos, cnum>>
    \/ /\ upto = -1
       /\ m_send_upto' = -2 /\ cpc' = "last" /\ sleepers' = awake
       /\ UNCHANGED <<cpos, cnum>>
    \/ /\ upto \notin {0, -1}
       /\ m_send_upto' = upto /\ cpc' = "batch" /\ sleepers' = awake
       /\ cpos' = 0 /\ cnum' = m_batches_num_entries[m_send_index]

WaitJob ==
    /\ cpc = "wait" /\ "C" \notin sleepers
    /\ AwaitJob(m_send_upto, sleepers)
    /\ UNCHANGED <<batchVars, m_send_index, ownerVars, accepted, applied, base>>

(* UpdateInterface::batch(force = true): one update at the time, repeated  *)
(* until it succeeds.                                                      *)
ApplyUpdate ==
    /\ cpc = "batch" /\ cpos < cnum
    /\ applied' = Append(applied, m_batches[m_send_index][cpos + 1])
    /\ cpos' = cpos + 1
    /\ UNCHANGED <<batchVars, m_send_index, m_send_upto, sleepers, ownerVars, cpc, cnum, accepted, base>>

\* Mutant: count the job as done without moving to the next batch.
AdvanceIndexStuck ==
    /\ cpc = "batch" /\ cpos = cnum
    /\ cpc' = "count"
    /\ UNCHANGED <<m_send_index, batchVars, m_send_upto, sleepers, ownerVars, cpos, cnum, accepted,
                   applied, base>>

AdvanceIndex ==
    /\ cpc = "batch" /\ cpos = cnum
    /\ m_send_index' = NextIndex(m_send_index)
    /\ cpc' = "count"
    /\ UNCHANGED <<batchVars, m_send_upto, sleepers, ownerVars, cpos, cnum, accepted, applied, base>>

(* A job less: wake up flush, and wait for the next job. *)
JobDone ==
    /\ cpc = "count"
    /\ AwaitJob(m_send_upto - 1, {})
    /\ UNCHANGED <<batchVars, m_send_index, ownerVars, accepted, applied, base>>

NotifyLast ==
    /\ cpc = "last"
    /\ sleepers' = {}
    /\ cpc' = "done"
    /\ UNCHANGED <<batchVars, m_send_index, m_send_upto, ownerVars, cpos, cnum, accepted, applied, base>>

-----------------------------------------------------------------------------
(* add_edge, remove_edge, once flush has made room. *)
FinishAdd == ppc = "add" /\ \E u \in Updates : AddUpdate(u)

Owner ==
    \/ FinishAdd \/ Construct \/ AwaitStart \/ SendBatch \/ NotifyThread \/ Synchronise
    \/ Terminate \/ NotifyTerminate \/ Join

(* What the owner chooses to do with the object. *)
Request ==
    \/ ppc = "ready" /\ \E u \in Updates : AddUpdate(u)
    \/ CallFlush("add", FALSE)
    \/ \E sync \in BOOLEAN : CallFlush("user", sync)
    \/ CallFlush("dtor", TRUE)

Thread ==
    \/ Acknowledge \/ NotifyStarted \/ WaitJob \/ ApplyUpdate \/ AdvanceIndex \/ JobDone
    \/ NotifyLast

SpuriousWakeup ==
    /\ \E t \in sleepers : sleepers' = sleepers \ {t}
    /\ UNCHANGED <<batchVars, m_send_index, m_send_upto, ownerVars, cpc, cpos, cnum, accepted,
                   applied, base>>

Destroyed == ppc = "gone" /\ UNCHANGED vars

Next == Owner \/ Request \/ Thread \/ SpuriousWakeup \/ Destroyed

(* Both threads run whenever they can; nothing is assumed of the requests, *)
(* nor of the spurious wake-ups.                                           *)
Spec == Init /\ [][Next]_vars /\ WF_vars(Owner) /\ WF_vars(Thread)

-----------------------------------------------------------------------------
(* The values of the variables. *)
TypeOK ==
    /\ m_batches \in [Slots -> [1 .. BatchSz -> Updates \cup {Garbage}]]
    /\ m_batches_num_entries \in [Slots -> 0 .. BatchSz]
    /\ m_batch_index \in Slots /\ m_batch_pos \in 0 .. BatchSz
    /\ m_send_index \in Slots /\ m_send_upto \in -2 .. BatchesSz
    /\ sleepers \subseteq {"P", "C"}
    /\ ppc \in {"ctor", "ctor_wait", "ready", "add", "flush", "notify", "sync", "dtor",
                "dtor_notify", "join", "gone"}
    /\ caller \in {"user", "add", "dtor"} /\ synchronise \in BOOLEAN
    /\ cpc \in {"none", "init", "init_notify", "wait", "batch", "count", "last", "done"}
    /\ cpos \in 0 .. BatchSz /\ cnum \in 0 .. BatchSz
    /\ accepted \in Seq(Updates) /\ applied \in Seq(Updates)
    /\ base \in [Slots -> Nat]

(* The batch read by the background thread, without the mutex, is never    *)
(* the one the owner is filling, without the mutex either.                 *)
NoSlotRace == cpc = "batch" => m_batch_index # m_send_index

(* The updates are applied in the order they were handed over, none twice  *)
(* and none lost.                                                          *)
AppliedInOrder ==
    /\ Len(applied) <= Len(accepted)
    /\ \A i \in 1 .. Len(applied) : applied[i] = accepted[i]

(* flush(true) returns, and the destructor goes on, only once every update *)
(* handed over is in the library.                                          *)
SyncFlushDrains ==
    [][ppc = "sync" /\ ppc' # "sync" => Len(applied) = Len(accepted)]_vars

(* The ring of batches implements the queue of updates. *)
Queue == INSTANCE UpdateQueue WITH closed <- (ppc = "gone")
ImplementsQueue == Queue!QueueSpec

(* Every call of flush returns, and once the destructor is invoked the     *)
(* thread terminates and is joined: neither the owner nor the background   *)
(* thread misses a wake-up while it waits for the other.                   *)
OwnerReturns ==
    /\ ppc = "flush" ~> ppc \in {"ready", "dtor"}
    /\ ppc = "dtor" ~> ppc = "gone"
=============================================================================
