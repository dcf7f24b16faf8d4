-------------------------- MODULE AsyncBatchProofs --------------------------
(***************************************************************************)
(* Proofs about AsyncBatch, for every size of the ring and of its batches  *)
(* the constructor accepts.                                                *)
(***************************************************************************)
EXTENDS AsyncBatch, TLAPS

(* The batches sent and not yet applied.  While the background thread is   *)
(* in "count" it has left a batch that m_send_upto still counts; before    *)
(* the start and after the end m_send_upto is only used to handshake.      *)
Jobs ==
    IF cpc = "count" THEN m_send_upto - 1
    ELSE IF cpc \in {"init_notify", "wait", "batch"} /\ m_send_upto > 0 THEN m_send_upto
    ELSE 0

(* How far a slot is ahead of the one being applied. *)
Ahead(s) == IF s >= m_send_index THEN s - m_send_index ELSE s - m_send_index + BatchesSz

(* Where the two threads are with respect to each other. *)
Handshake ==
    /\ ppc = "ctor" => cpc = "none" /\ m_send_upto = 0
    /\ ppc = "ctor_wait" => \/ cpc = "init" /\ m_send_upto = 1
                            \/ cpc \in {"init_notify", "wait"} /\ m_send_upto = 0
    /\ ppc \in {"ready", "add", "flush", "notify", "sync"} =>
          /\ cpc \in {"init_notify", "wait", "batch", "count"}
          /\ m_send_upto \in 0 .. BatchesSz - 1
    /\ ppc = "dtor" => cpc \in {"init_notify", "wait"} /\ m_send_upto = 0
    /\ ppc \in {"dtor_notify", "join"} =>
          \/ cpc \in {"init_notify", "wait"} /\ m_send_upto = -1
          \/ cpc \in {"last", "done"} /\ m_send_upto = -2
    /\ ppc = "gone" => cpc = "done" /\ m_send_upto = -2
    /\ cpc \in {"batch", "count"} => m_send_upto >= 1
    /\ caller = "dtor" => synchronise

(* The slots in flight are those from m_send_index to the one before       *)
(* m_batch_index, around the ring.                                         *)
Ring == Jobs < BatchesSz /\ Ahead(m_batch_index) = Jobs

(* A batch in flight holds a segment of the updates handed over, followed  *)
(* by the segment of the next slot.                                        *)
InFlight(s) ==
    /\ m_batches_num_entries[s] \in 1 .. BatchSz
    /\ base[NextIndex(s)] = base[s] + m_batches_num_entries[s]
    /\ base[s] + m_batches_num_entries[s] <= Len(accepted)
    /\ \A i \in 1 .. m_batches_num_entries[s] : m_batches[s][i] = accepted[base[s] + i]
Sent == \A s \in Slots : Ahead(s) < Jobs => InFlight(s)

(* The batch being filled holds the last updates handed over. *)
Filling ==
    /\ base[m_batch_index] + m_batch_pos = Len(accepted)
    /\ \A i \in 1 .. m_batch_pos : m_batches[m_batch_index][i] = accepted[base[m_batch_index] + i]
    /\ ppc \in {"notify", "sync", "dtor", "dtor_notify", "join", "gone"} => m_batch_pos = 0

(* How far the background thread is in the updates handed over. *)
Applying ==
    /\ cpc = "batch" => cnum = m_batches_num_entries[m_send_index] /\ cpos <= cnum
    /\ Len(applied) = base[m_send_index] + (IF cpc = "batch" THEN cpos ELSE 0)
    /\ \A i \in 1 .. Len(applied) : applied[i] = accepted[i]

IInv == TypeOK /\ Handshake /\ Ring /\ Sent /\ Filling /\ Applying

-----------------------------------------------------------------------------
(* The index of the next batch: one more, or 0 after the last slot. *)
LEMMA NextIndexValue ==
    ASSUME NEW i \in Slots
    PROVE  /\ NextIndex(i) \in Slots
           /\ NextIndex(i) = IF i = BatchesSz - 1 THEN 0 ELSE i + 1
<1>1. CASE i = BatchesSz - 1
  <2>1. (i + 1) % BatchesSz = 0
    BY <1>1, SizeAssumption, SMT DEF Slots
  <2>. QED
    BY <2>1, <1>1, SizeAssumption DEF Slots, NextIndex
<1>2. CASE i # BatchesSz - 1
  <2>1. (i + 1) % BatchesSz = i + 1
    BY <1>2, SizeAssumption, SMT DEF Slots
  <2>. QED
    BY <2>1, <1>2, SizeAssumption DEF Slots, NextIndex
<1>. QED
  BY <1>1, <1>2

(* A step that leaves the batches alone keeps what is in flight. *)
LEMMA SameRing ==
    ASSUME Ring, Sent, Jobs' = Jobs, UNCHANGED <<batchVars, m_send_index, accepted, base>>
    PROVE  Ring' /\ Sent'
  BY DEF Ring, Sent, InFlight, Ahead, NextIndex, batchVars

(* A step that also leaves alone where the two threads are in their batch  *)
(* keeps what is being filled and applied.                                 *)
LEMMA SameData ==
    ASSUME Filling, Applying, UNCHANGED <<batchVars, m_send_index, accepted, base, applied, cpos, cnum>>,
           cpc = "batch" <=> cpc' = "batch",
           ppc' \in {"notify", "sync", "dtor", "dtor_notify", "join", "gone"} => m_batch_pos = 0
    PROVE  Filling' /\ Applying'
  BY DEF Filling, Applying, batchVars

(* The invariant holds when the constructor starts. *)
LEMMA InitIInv == Init => IInv
<1> SUFFICES ASSUME Init PROVE IInv
  OBVIOUS
<1>1. TypeOK
  <2>1. m_batches \in [Slots -> [1 .. BatchSz -> Updates \cup {Garbage}]]
    BY DEF Init
  <2>2. m_batches_num_entries \in [Slots -> 0 .. BatchSz] /\ base \in [Slots -> Nat]
    BY SizeAssumption DEF Init
  <2>3. /\ m_batch_index \in Slots /\ m_batch_pos \in 0 .. BatchSz
        /\ m_send_index \in Slots /\ m_send_upto \in -2 .. BatchesSz
        /\ sleepers \subseteq {"P", "C"} /\ cpos \in 0 .. BatchSz /\ cnum \in 0 .. BatchSz
    BY SizeAssumption DEF Init, Slots
  <2>4. ppc = "ctor" /\ caller = "user" /\ synchronise = FALSE /\ cpc = "none"
    BY DEF Init
  <2>5. /\ accepted \in Seq(Updates) /\ applied \in Seq(Updates)
    BY DEF Init
  <2>. QED
    BY <2>1, <2>2, <2>3, <2>4, <2>5 DEF TypeOK
<1>2. Handshake
  BY DEF Init, Handshake
<1>3. Jobs = 0
  BY DEF Init, Jobs
<1>4. Ring /\ Sent
  BY <1>3, SizeAssumption DEF Init, Ring, Sent, Ahead, Slots
<1>5. Filling /\ Applying
  BY SizeAssumption DEF Init, Filling, Applying, Slots
<1>. QED
  BY <1>1, <1>2, <1>4, <1>5 DEF IInv

(* The steps of the owner that only change where it is. *)
LEMMA OwnerMoves ==
    ASSUME IInv,
           \/ AwaitStart \/ NotifyThread \/ Synchronise \/ NotifyTerminate \/ Join
           \/ \E who \in {"user", "add", "dtor"}, sync \in BOOLEAN :
                 CallFlush(who, sync) /\ (who = "dtor" => sync)
    PROVE  IInv'
<1>. USE DEF batchVars, threadVars
<1>1. TypeOK'
  <2>1. CASE AwaitStart \/ Synchronise \/ NotifyTerminate \/ Join
    BY <2>1 DEF IInv, TypeOK, AwaitStart, Synchronise, NotifyTerminate, Join, Return
  <2>2. CASE NotifyThread
    BY <2>2 DEF IInv, TypeOK, NotifyThread, Return
  <2>3. CASE \E who \in {"user", "add", "dtor"}, sync \in BOOLEAN :
                 CallFlush(who, sync) /\ (who = "dtor" => sync)
    BY <2>3 DEF IInv, TypeOK, CallFlush
  <2>. QED
    BY <2>1, <2>2, <2>3
<1>2. Handshake'
  <2>1. CASE AwaitStart \/ Synchronise \/ NotifyTerminate \/ Join
    <3>1. CASE AwaitStart
      BY <3>1, SizeAssumption DEF IInv, TypeOK, Handshake, AwaitStart
    <3>2. CASE Synchronise
      BY <3>2, SizeAssumption DEF IInv, TypeOK, Handshake, Synchronise, Return
    <3>3. CASE NotifyTerminate \/ Join
      BY <3>3, SizeAssumption DEF IInv, TypeOK, Handshake, NotifyTerminate, Join
    <3>. QED
      BY <2>1, <3>1, <3>2, <3>3
  <2>2. CASE NotifyThread
    BY <2>2 DEF IInv, TypeOK, Handshake, NotifyThread, Return
  <2>3. CASE \E who \in {"user", "add", "dtor"}, sync \in BOOLEAN :
                 CallFlush(who, sync) /\ (who = "dtor" => sync)
    BY <2>3 DEF IInv, TypeOK, Handshake, CallFlush
  <2>. QED
    BY <2>1, <2>2, <2>3
<1>3. /\ UNCHANGED <<batchVars, m_send_index, m_send_upto, cpc, cpos, cnum, accepted, applied, base>>
      /\ Jobs' = Jobs
  BY DEF Jobs, AwaitStart, NotifyThread, Synchronise, NotifyTerminate, Join, CallFlush
<1>4. Ring' /\ Sent'
  BY <1>3, SameRing DEF IInv
<1>5. Filling' /\ Applying'
  <2>1. ppc' \in {"notify", "sync", "dtor", "dtor_notify", "join", "gone"} => m_batch_pos = 0
    BY DEF IInv, Filling, AwaitStart, NotifyThread, Synchronise, NotifyTerminate, Join, CallFlush,
           Return, TypeOK, Handshake
  <2>. QED
    BY <1>3, <2>1, SameData DEF IInv
<1>. QED
  BY <1>1, <1>2, <1>4, <1>5 DEF IInv

(* The steps that only wake up a thread, or nobody. *)
LEMMA WakeUps ==
    ASSUME IInv, NotifyStarted \/ NotifyLast \/ SpuriousWakeup \/ UNCHANGED vars
    PROVE  IInv'
<1>. USE DEF batchVars, ownerVars, vars
<1>1. TypeOK'
  BY DEF IInv, TypeOK, NotifyStarted, NotifyLast, SpuriousWakeup
<1>2. Handshake'
  BY DEF IInv, Handshake, NotifyStarted, NotifyLast, SpuriousWakeup
<1>3. Ring' /\ Sent'
  <2>1. Jobs' = Jobs
    BY DEF Jobs, NotifyStarted, NotifyLast, SpuriousWakeup
  <2>. QED
    BY <2>1, SameRing DEF IInv, NotifyStarted, NotifyLast, SpuriousWakeup
<1>4. Filling' /\ Applying'
  BY DEF IInv, Filling, Applying, NotifyStarted, NotifyLast, SpuriousWakeup
<1>. QED
  BY <1>1, <1>2, <1>3, <1>4 DEF IInv

(* The steps that start and stop the background thread: m_send_upto        *)
(* changes, but it counts no batch.                                        *)
LEMMA StartAndStop ==
    ASSUME IInv, Construct \/ Acknowledge \/ Terminate
    PROVE  IInv'
<1>. USE DEF batchVars, ownerVars, threadVars
<1>1. TypeOK'
  <2>1. m_send_upto' \in {-1, 0, 1}
    BY DEF Construct, Acknowledge, Terminate
  <2>2. m_send_upto' \in -2 .. BatchesSz
    BY <2>1, SizeAssumption
  <2>. QED
    BY <2>2 DEF IInv, TypeOK, Construct, Acknowledge, Terminate
<1>2. Handshake'
  BY DEF IInv, TypeOK, Handshake, Construct, Acknowledge, Terminate
<1>3. Ring' /\ Sent'
  <2>1. Jobs' = Jobs
    BY DEF IInv, Handshake, Jobs, Construct, Acknowledge, Terminate
  <2>. QED
    BY <2>1, SameRing DEF IInv, Construct, Acknowledge, Terminate
<1>4. Filling' /\ Applying'
  BY DEF IInv, Handshake, Filling, Applying, Construct, Acknowledge, Terminate
<1>. QED
  BY <1>1, <1>2, <1>3, <1>4 DEF IInv

-----------------------------------------------------------------------------
(* Around the ring, a slot is told by how far it is ahead of the one being *)
(* applied, and the next slot is one further.                              *)
LEMMA AheadFacts ==
    ASSUME TypeOK, NEW s \in Slots
    PROVE  /\ Ahead(s) \in 0 .. BatchesSz - 1
           /\ Ahead(s) = 0 <=> s = m_send_index
           /\ Ahead(s) < BatchesSz - 1 => Ahead(NextIndex(s)) = Ahead(s) + 1
           /\ \A t \in Slots : Ahead(t) = Ahead(s) => t = s
<1>. BatchesSz \in Nat /\ BatchesSz >= 1 /\ m_send_index \in 0 .. BatchesSz - 1 /\ s \in 0 .. BatchesSz - 1
  BY SizeAssumption DEF TypeOK, Slots
<1>1. Ahead(s) \in 0 .. BatchesSz - 1 /\ (Ahead(s) = 0 <=> s = m_send_index)
  BY DEF Ahead
<1>2. ASSUME Ahead(s) < BatchesSz - 1 PROVE Ahead(NextIndex(s)) = Ahead(s) + 1
  <2>1. NextIndex(s) = IF s = BatchesSz - 1 THEN 0 ELSE s + 1
    BY NextIndexValue
  <2>. HIDE DEF NextIndex
  <2>. QED
    BY <1>2, <2>1 DEF Ahead
<1>3. ASSUME NEW t \in Slots, Ahead(t) = Ahead(s) PROVE t = s
  BY <1>3 DEF Ahead, Slots
<1>. QED
  BY <1>1, <1>2, <1>3

(* An update is applied only after it was handed over. *)
LEMMA AppliedBehind ==
    ASSUME IInv
    PROVE  /\ Len(applied) \in Nat /\ Len(accepted) \in Nat /\ Len(applied) <= Len(accepted)
           /\ Jobs \in Nat /\ (m_send_index = m_batch_index <=> Jobs = 0)
<1>1. /\ m_send_index \in Slots /\ m_batch_index \in Slots /\ base \in [Slots -> Nat]
      /\ Len(applied) \in Nat /\ Len(accepted) \in Nat
  BY DEF IInv, TypeOK
<1>2. Jobs \in Nat /\ (m_send_index = m_batch_index <=> Jobs = 0)
  BY <1>1, AheadFacts DEF IInv, Ring
<1>3. CASE Jobs = 0
  <2>1. cpc # "batch"
    BY <1>3 DEF IInv, Handshake, Jobs, TypeOK
  <2>. QED
    BY <2>1, <1>1, <1>2, <1>3 DEF IInv, Applying, Filling, TypeOK
<1>4. CASE Jobs # 0
  <2>1. InFlight(m_send_index)
    BY <1>1, <1>2, <1>4, AheadFacts DEF IInv, Sent
  <2>. QED
    BY <2>1, <1>1, <1>2 DEF IInv, Applying, InFlight, TypeOK
<1>. QED
  BY <1>1, <1>2, <1>3, <1>4

(* add_edge and remove_edge write in the batch of the owner, that is not   *)
(* in flight.                                                              *)
LEMMA AddStep ==
    ASSUME IInv, NEW u \in Updates, AddUpdate(u)
    PROVE  IInv'
<1>. USE DEF batchVars, threadVars
<1>1. /\ accepted \in Seq(Updates) /\ accepted' \in Seq(Updates)
      /\ Len(accepted) \in Nat /\ Len(accepted') = Len(accepted) + 1
      /\ accepted'[Len(accepted) + 1] = u
      /\ \A k \in 1 .. Len(accepted) : accepted'[k] = accepted[k]
  BY DEF IInv, TypeOK, AddUpdate
<1>2. /\ m_batch_index \in Slots /\ m_batch_pos \in 0 .. BatchSz - 1
      /\ m_batches \in [Slots -> [1 .. BatchSz -> Updates \cup {Garbage}]]
      /\ m_batches_num_entries \in [Slots -> 0 .. BatchSz] /\ base \in [Slots -> Nat]
  BY SizeAssumption DEF IInv, TypeOK, AddUpdate
<1>3. /\ m_batches' \in [Slots -> [1 .. BatchSz -> Updates \cup {Garbage}]]
      /\ m_batches'[m_batch_index][m_batch_pos + 1] = u
      /\ \A i \in 1 .. m_batch_pos : m_batches'[m_batch_index][i] = m_batches[m_batch_index][i]
      /\ \A s \in Slots \ {m_batch_index} : m_batches'[s] = m_batches[s]
  BY <1>2, SizeAssumption DEF AddUpdate
<1>4. TypeOK'
  BY <1>1, <1>2, <1>3, SizeAssumption DEF IInv, TypeOK, AddUpdate
<1>5. Handshake'
  BY DEF IInv, Handshake, AddUpdate
<1>6. Jobs' = Jobs /\ Ring' /\ \A s : Ahead(s)' = Ahead(s)
  BY DEF IInv, Ring, Jobs, Ahead, AddUpdate
<1>7. Sent'
  <2> SUFFICES ASSUME NEW s \in Slots, Ahead(s) < Jobs PROVE InFlight(s)'
    BY <1>6 DEF Sent
  <2>1. InFlight(s) /\ s # m_batch_index
    BY AppliedBehind, AheadFacts DEF IInv, Sent, Ring
  <2>2. NextIndex(s) \in Slots /\ NextIndex(s)' = NextIndex(s)
    BY NextIndexValue DEF NextIndex
  <2>. QED
    BY <2>1, <2>2, <1>1, <1>2, <1>3 DEF InFlight, AddUpdate
<1>8. Filling'
  <2>1. base[m_batch_index] + m_batch_pos = Len(accepted) /\ base[m_batch_index] \in Nat
    BY <1>2 DEF IInv, Filling
  <2>2. ASSUME NEW i \in 1 .. m_batch_pos + 1
        PROVE  m_batches'[m_batch_index][i] = accepted'[base[m_batch_index] + i]
    <3>1. CASE i = m_batch_pos + 1
      BY <3>1, <2>1, <1>1, <1>2, <1>3
    <3>2. CASE i \in 1 .. m_batch_pos
      <4>1. base[m_batch_index] + i \in 1 .. Len(accepted)
        BY <3>2, <2>1, <1>2
      <4>. QED
        BY <3>2, <4>1, <1>1, <1>3 DEF IInv, Filling
    <3>. QED
      BY <3>1, <3>2, <1>2
  <2>. QED
    BY <2>1, <2>2, <1>1, <1>2 DEF Filling, AddUpdate
<1>9. Applying'
  BY AppliedBehind, <1>1 DEF IInv, Applying, AddUpdate
<1>. QED
  BY <1>4, <1>5, <1>6, <1>7, <1>8, <1>9 DEF IInv

(* flush sends the batch of the owner, and takes a slot that is free. *)
LEMMA SendStep ==
    ASSUME IInv, SendBatch
    PROVE  IInv'
<1>. USE DEF batchVars, threadVars
<1>1. CASE RingFull
  <2>1. TypeOK' /\ Handshake'
    BY <1>1 DEF IInv, TypeOK, Handshake, SendBatch
  <2>2. Jobs' = Jobs
    BY <1>1 DEF Jobs, SendBatch
  <2>3. Ring' /\ Sent'
    BY <1>1, <2>2, SameRing DEF IInv, SendBatch
  <2>4. Filling' /\ Applying'
    BY <1>1 DEF IInv, Filling, Applying, SendBatch
  <2>. QED
    BY <2>1, <2>3, <2>4 DEF IInv
<1>2. CASE ~ RingFull /\ ~ (m_batch_pos > 0)
  <2>1. TypeOK' /\ Handshake'
    BY <1>2 DEF IInv, TypeOK, Handshake, SendBatch
  <2>2. Jobs' = Jobs
    BY <1>2 DEF Jobs, SendBatch
  <2>3. Ring' /\ Sent'
    BY <1>2, <2>2, SameRing DEF IInv, SendBatch
  <2>4. Filling' /\ Applying'
    BY <1>2 DEF IInv, TypeOK, Filling, Applying, SendBatch
  <2>. QED
    BY <2>1, <2>3, <2>4 DEF IInv
<1>3. CASE ~ RingFull /\ m_batch_pos > 0
  <2>. DEFINE b == m_batch_index
              n == NextIndex(m_batch_index)
  <2>1. /\ b \in Slots /\ n \in Slots /\ m_send_index \in Slots /\ m_batch_pos \in 1 .. BatchSz
        /\ m_batches_num_entries \in [Slots -> 0 .. BatchSz] /\ base \in [Slots -> Nat]
        /\ Len(accepted) \in Nat
    BY <1>3, NextIndexValue DEF IInv, TypeOK
  <2>2. /\ m_batches_num_entries' = [m_batches_num_entries EXCEPT ![b] = m_batch_pos]
        /\ m_batch_pos' = 0 /\ m_batch_index' = n /\ m_send_upto' = m_send_upto + 1
        /\ base' = [base EXCEPT ![n] = Len(accepted)]
        /\ ppc = "flush" /\ ppc' = "notify"
        /\ UNCHANGED <<m_batches, sleepers, caller, synchronise, m_send_index, cpc, cpos, cnum,
                       accepted, applied>>
    BY <1>3 DEF SendBatch
  <2>. HIDE DEF n
  <2>3. m_send_upto \in 0 .. BatchesSz - 2 /\ cpc \in {"init_notify", "wait", "batch", "count"}
    BY <1>3, <2>2, SizeAssumption DEF IInv, Handshake, RingFull
  <2>4. Jobs \in 0 .. BatchesSz - 2 /\ Jobs' = Jobs + 1
    BY <2>2, <2>3, SizeAssumption DEF IInv, Handshake, Jobs
  <2>5. /\ Ahead(b) = Jobs /\ Ahead(n) = Jobs + 1 /\ b # n
        /\ \A s : Ahead(s)' = Ahead(s)
    <3>1. Ahead(b) = Jobs
      BY DEF IInv, Ring
    <3>2. Ahead(n) = Jobs + 1
      BY <3>1, <2>1, <2>4, SizeAssumption, AheadFacts DEF IInv, n
    <3>. QED
      BY <3>1, <3>2, <2>2, <2>4 DEF Ahead
  <2>6. TypeOK'
    BY <2>1, <2>2, <2>3, SizeAssumption DEF IInv, TypeOK
  <2>7. Handshake'
    BY <2>2, <2>3, SizeAssumption DEF IInv, Handshake
  <2>8. Ring'
    BY <2>2, <2>4, <2>5, SizeAssumption DEF Ring
  <2>9. Sent'
    <3> SUFFICES ASSUME NEW s \in Slots, Ahead(s) < Jobs + 1 PROVE InFlight(s)'
      BY <2>4, <2>5 DEF Sent
    <3>1. NextIndex(s) \in Slots /\ NextIndex(s)' = NextIndex(s)
      BY NextIndexValue DEF NextIndex
    <3>2. Ahead(s) \in 0 .. Jobs /\ (Ahead(s) = Jobs => s = b) /\ Ahead(NextIndex(s)) = Ahead(s) + 1
      BY <2>1, <2>4, <2>5, AheadFacts, SizeAssumption DEF IInv
    <3>3. s # n
      BY <3>2, <2>4, <2>5
    <3>4. CASE s = b
      <4>1. /\ m_batches_num_entries'[s] = m_batch_pos /\ base'[s] = base[s] /\ base'[n] = Len(accepted)
            /\ NextIndex(s) = n
        BY <2>1, <2>2, <3>3, <3>4 DEF n
      <4>2. /\ base[s] + m_batch_pos = Len(accepted)
            /\ \A i \in 1 .. m_batch_pos : m_batches[s][i] = accepted[base[s] + i]
        BY <3>4 DEF IInv, Filling
      <4>. QED
        BY <4>1, <4>2, <3>1, <2>1, <2>2 DEF InFlight
    <3>5. CASE s # b
      <4>1. InFlight(s) /\ NextIndex(s) # n
        BY <3>2, <3>5, <2>4, <2>5 DEF IInv, Sent
      <4>2. /\ m_batches_num_entries'[s] = m_batches_num_entries[s] /\ base'[s] = base[s]
            /\ base'[NextIndex(s)] = base[NextIndex(s)]
        BY <4>1, <3>1, <3>3, <3>5, <2>1, <2>2
      <4>. QED
        BY <4>1, <4>2, <3>1, <2>2 DEF InFlight
    <3>. QED
      BY <3>4, <3>5
  <2>10. Filling'
    BY <2>1, <2>2 DEF Filling
  <2>11. Applying'
    <3>1. Ahead(m_send_index) = 0
      BY <2>1, AheadFacts DEF IInv
    <3>2. m_send_index # n /\ (cpc = "batch" => m_send_index # b)
      BY <3>1, <2>3, <2>4, <2>5 DEF IInv, Handshake, Jobs
    <3>3. /\ base'[m_send_index] = base[m_send_index]
          /\ cpc = "batch" => m_batches_num_entries'[m_send_index] = m_batches_num_entries[m_send_index]
      BY <3>2, <2>1, <2>2
    <3>. QED
      BY <3>3, <2>2 DEF IInv, Applying
  <2>. QED
    BY <2>6, <2>7, <2>8, <2>9, <2>10, <2>11 DEF IInv
<1>. QED
  BY <1>1, <1>2, <1>3

(* The background thread, with the mutex, finds nothing to do, terminates  *)
(* or takes the batch at m_send_index: the batches in flight are the same. *)
LEMMA JobStep ==
    ASSUME IInv, WaitJob \/ JobDone
    PROVE  IInv'
<1>. USE DEF batchVars, ownerVars
<1>. DEFINE upto == IF cpc = "count" THEN m_send_upto - 1 ELSE m_send_upto
<1>1. /\ UNCHANGED <<batchVars, m_send_index, ownerVars, accepted, applied, base>>
      /\ cpc \in {"wait", "count"}
      /\ \E awake \in SUBSET {"P", "C"} : AwaitJob(upto, awake)
  BY DEF IInv, TypeOK, WaitJob, JobDone
<1>2. upto \in -1 .. BatchesSz - 1 /\ (cpc = "count" => upto >= 0)
  BY <1>1, SizeAssumption DEF IInv, TypeOK, Handshake
<1>3. Jobs = IF upto > 0 THEN upto ELSE 0
  BY <1>1, <1>2 DEF Jobs
<1>4. /\ m_batches_num_entries \in [Slots -> 0 .. BatchSz] /\ m_send_index \in Slots
      /\ m_send_upto \in Int
  BY DEF IInv, TypeOK
<1>5. \/ upto = 0 /\ m_send_upto' = 0 /\ cpc' = "wait" /\ UNCHANGED <<cpos, cnum>>
      \/ upto = -1 /\ m_send_upto' = -2 /\ cpc' = "last" /\ UNCHANGED <<cpos, cnum>>
      \/ /\ upto > 0 /\ m_send_upto' = upto /\ cpc' = "batch"
         /\ cpos' = 0 /\ cnum' = m_batches_num_entries[m_send_index]
  <2>. PICK awake \in SUBSET {"P", "C"} : AwaitJob(upto, awake)
    BY <1>1
  <2>. HIDE DEF upto
  <2>. QED
    BY <1>2 DEF AwaitJob
<1>6. sleepers' \subseteq {"P", "C"}
  BY <1>1 DEF AwaitJob
<1>7. TypeOK'
  <2>1. m_send_upto' \in -2 .. BatchesSz /\ cpos' \in 0 .. BatchSz /\ cnum' \in 0 .. BatchSz
    BY <1>2, <1>4, <1>5, SizeAssumption DEF IInv, TypeOK
  <2>2. cpc' \in {"wait", "last", "batch"}
    BY <1>5
  <2>. QED
    BY <2>1, <2>2, <1>1, <1>6 DEF IInv, TypeOK
<1>8. Handshake'
  <2>1. ppc \notin {"ctor", "gone"}
    BY <1>1 DEF IInv, Handshake
  <2>2. CASE cpc = "count"
    <3>1. ppc \in {"ready", "add", "flush", "notify", "sync"} /\ upto \in 0 .. BatchesSz - 1
      BY <2>1, <2>2, <1>2 DEF IInv, Handshake, TypeOK
    <3>. QED
      BY <3>1, <1>1, <1>5 DEF IInv, Handshake
  <2>3. CASE cpc = "wait"
    BY <2>1, <2>3, <1>1, <1>2, <1>5 DEF IInv, Handshake, TypeOK
  <2>. QED
    BY <2>2, <2>3, <1>1
<1>9. Jobs' = Jobs
  BY <1>2, <1>3, <1>5 DEF Jobs
<1>10. Ring' /\ Sent'
  BY <1>1, <1>9, SameRing DEF IInv
<1>11. Filling'
  BY <1>1 DEF IInv, Filling
<1>12. Applying'
  BY <1>1, <1>4, <1>5 DEF IInv, TypeOK, Applying
<1>. QED
  BY <1>7, <1>8, <1>10, <1>11, <1>12 DEF IInv

(* The background thread applies the next update of a batch in flight. *)
LEMMA ApplyStep ==
    ASSUME IInv, ApplyUpdate
    PROVE  IInv' /\ applied' = Append(applied, accepted[Len(applied) + 1])
                /\ Len(applied) < Len(accepted)
<1>. USE DEF batchVars, ownerVars
<1>1. /\ UNCHANGED <<batchVars, m_send_index, m_send_upto, sleepers, ownerVars, cpc, cnum, accepted,
                     base>>
      /\ cpc = "batch" /\ cpos < cnum /\ cpos' = cpos + 1
      /\ applied' = Append(applied, m_batches[m_send_index][cpos + 1])
  BY DEF ApplyUpdate
<1>2. /\ m_send_index \in Slots /\ base \in [Slots -> Nat] /\ Len(accepted) \in Nat
      /\ cpos \in 0 .. BatchSz /\ cnum \in 0 .. BatchSz
      /\ accepted \in Seq(Updates) /\ applied \in Seq(Updates)
  BY DEF IInv, TypeOK
<1>3. InFlight(m_send_index) /\ cnum = m_batches_num_entries[m_send_index]
  <2>1. Jobs > 0
    BY <1>1 DEF IInv, TypeOK, Handshake, Jobs
  <2>. QED
    BY <2>1, <1>1, <1>2, AheadFacts DEF IInv, Sent, Applying
<1>4. /\ Len(applied) = base[m_send_index] + cpos /\ Len(applied) < Len(accepted)
      /\ m_batches[m_send_index][cpos + 1] = accepted[Len(applied) + 1]
  <2>1. Len(applied) = base[m_send_index] + cpos /\ base[m_send_index] \in Nat
    BY <1>1, <1>2 DEF IInv, Applying
  <2>2. cpos + 1 \in 1 .. m_batches_num_entries[m_send_index]
    BY <1>1, <1>2, <1>3
  <2>3. m_batches[m_send_index][cpos + 1] = accepted[base[m_send_index] + (cpos + 1)]
    BY <2>2, <1>3 DEF InFlight
  <2>4. base[m_send_index] + (cpos + 1) = Len(applied) + 1
    BY <2>1, <1>2
  <2>. QED
    BY <2>1, <2>2, <2>3, <2>4, <1>2, <1>3 DEF InFlight
<1>5. applied' = Append(applied, accepted[Len(applied) + 1]) /\ accepted[Len(applied) + 1] \in Updates
  BY <1>1, <1>2, <1>4
<1>6. TypeOK'
  <2>1. applied' \in Seq(Updates) /\ cpos' \in 0 .. BatchSz
    BY <1>1, <1>2, <1>5, SizeAssumption
  <2>. QED
    BY <2>1, <1>1 DEF IInv, TypeOK
<1>7. Handshake'
  BY <1>1 DEF IInv, Handshake
<1>8. Ring' /\ Sent'
  <2>1. Jobs' = Jobs
    BY <1>1 DEF Jobs
  <2>. QED
    BY <2>1, <1>1, SameRing DEF IInv
<1>9. Filling'
  BY <1>1 DEF IInv, Filling
<1>10. Applying'
  <2>1. /\ Len(applied') = Len(applied) + 1
        /\ \A i \in 1 .. Len(applied') :
              applied'[i] = IF i = Len(applied) + 1 THEN accepted[Len(applied) + 1] ELSE applied[i]
    BY <1>2, <1>5
  <2>2. \A i \in 1 .. Len(applied') : applied'[i] = accepted'[i]
    BY <2>1, <1>1, <1>2 DEF IInv, Applying
  <2>3. Len(applied') = base'[m_send_index'] + cpos' /\ cpos' <= cnum'
    BY <2>1, <1>1, <1>2, <1>4
  <2>. QED
    BY <2>2, <2>3, <1>1, <1>3 DEF Applying
<1>. QED
  BY <1>4, <1>5, <1>6, <1>7, <1>8, <1>9, <1>10 DEF IInv

(* Once a batch is applied its slot becomes the farthest from the one      *)
(* being applied, and all the others are one nearer.                       *)
LEMMA AdvanceStep ==
    ASSUME IInv, AdvanceIndex
    PROVE  IInv'
<1>. USE DEF batchVars, ownerVars
<1>1. /\ UNCHANGED <<batchVars, m_send_upto, sleepers, ownerVars, cpos, cnum, accepted, applied, base>>
      /\ cpc = "batch" /\ cpc' = "count" /\ cpos = cnum
      /\ m_send_index' = NextIndex(m_send_index)
  BY DEF AdvanceIndex
<1>2. /\ m_send_index \in Slots /\ m_send_index' \in Slots /\ m_batch_index \in Slots
      /\ m_send_upto \in Int /\ m_send_upto >= 1
      /\ m_send_index' = IF m_send_index = BatchesSz - 1 THEN 0 ELSE m_send_index + 1
  BY <1>1, NextIndexValue DEF IInv, TypeOK, Handshake
<1>3. /\ Jobs = m_send_upto /\ Jobs' = Jobs - 1 /\ Jobs \in 1 .. BatchesSz - 1
  BY <1>1, <1>2, SizeAssumption DEF IInv, Ring, Jobs
<1>4. \A s \in Slots : Ahead(s)' = IF s = m_send_index THEN BatchesSz - 1 ELSE Ahead(s) - 1
  BY <1>2, SizeAssumption DEF Ahead, Slots
<1>5. TypeOK'
  BY <1>1, <1>2 DEF IInv, TypeOK
<1>6. Handshake'
  BY <1>1 DEF IInv, Handshake
<1>7. Ring'
  <2>1. m_batch_index # m_send_index
    BY <1>3, AppliedBehind
  <2>2. Ahead(m_batch_index)' = Jobs - 1
    BY <2>1, <1>1, <1>2, SizeAssumption DEF IInv, Ring, Ahead, Slots
  <2>. QED
    BY <2>2, <1>1, <1>3, SizeAssumption DEF Ring, Ahead
<1>8. Sent'
  <2> SUFFICES ASSUME NEW s \in Slots, Ahead(s)' < Jobs - 1 PROVE InFlight(s)'
    BY <1>3 DEF Sent
  <2>1. Ahead(s) < Jobs
    BY <1>2, <1>3, <1>4, AheadFacts, SizeAssumption DEF IInv
  <2>. QED
    BY <2>1, <1>1 DEF IInv, Sent, InFlight, NextIndex
<1>9. Filling'
  BY <1>1 DEF IInv, Filling
<1>10. Applying'
  <2>1. InFlight(m_send_index)
    BY <1>2, <1>3, AheadFacts DEF IInv, Sent
  <2>2. Len(applied) = base[m_send_index']
    BY <2>1, <1>1 DEF IInv, Applying, InFlight
  <2>. QED
    BY <2>2, <1>1, <1>2 DEF IInv, TypeOK, Applying
<1>. QED
  BY <1>5, <1>6, <1>7, <1>8, <1>9, <1>10 DEF IInv

-----------------------------------------------------------------------------
(* Every step preserves the invariant. *)
LEMMA NextIInv == IInv /\ [Next]_vars => IInv'
<1> SUFFICES ASSUME IInv, [Next]_vars PROVE IInv'
  OBVIOUS
<1>1. CASE Owner
  BY <1>1, AddStep, StartAndStop, OwnerMoves, SendStep DEF Owner, FinishAdd
<1>2. CASE Request
  BY <1>2, AddStep, OwnerMoves DEF Request
<1>3. CASE Thread
  BY <1>3, StartAndStop, WakeUps, JobStep, ApplyStep, AdvanceStep DEF Thread
<1>4. CASE SpuriousWakeup \/ Destroyed \/ UNCHANGED vars
  BY <1>4, WakeUps DEF Destroyed
<1>. QED
  BY <1>1, <1>2, <1>3, <1>4 DEF Next

(* The invariant holds in every reachable state. *)
THEOREM Invariance == Spec => []IInv
  BY InitIInv, NextIInv, PTL DEF Spec

(* Every variable of AsyncBatch keeps its type, the indices of the ring    *)
(* and the entries of a batch within their bounds included.                *)
THEOREM TypeCorrect == Spec => []TypeOK
<1>1. IInv => TypeOK
  BY DEF IInv
<1>. QED
  BY Invariance, <1>1, PTL

(* Whatever the size of the ring, the thread that applies a batch and the  *)
(* owner that fills one never share a slot.                                *)
THEOREM SlotsDisjoint == Spec => []NoSlotRace
<1>1. ASSUME IInv, cpc = "batch" PROVE m_batch_index # m_send_index
  <2>1. Jobs # 0
    BY <1>1 DEF IInv, TypeOK, Handshake, Jobs
  <2>. QED
    BY <1>1, <2>1, AppliedBehind
<1>2. IInv => NoSlotRace
  BY <1>1 DEF NoSlotRace
<1>. QED
  BY Invariance, <1>2, PTL

(* What has been applied is a prefix of what has been handed over. *)
THEOREM InOrder == Spec => []AppliedInOrder
<1>1. IInv => AppliedInOrder
  BY AppliedBehind DEF IInv, Applying, AppliedInOrder
<1>. QED
  BY Invariance, <1>1, PTL

(* Once the batch of the owner is empty and no batch is in flight nothing  *)
(* is left to apply.                                                       *)
LEMMA Drained ==
    ASSUME IInv, Jobs = 0, m_batch_pos = 0
    PROVE  Len(applied) = Len(accepted)
<1>1. m_send_index = m_batch_index
  BY AppliedBehind
<1>2. cpc # "batch"
  BY DEF IInv, Handshake, Jobs, TypeOK
<1>. QED
  BY <1>1, <1>2 DEF IInv, TypeOK, Applying, Filling

(* flush(true) leaves its wait only when all the updates are applied. *)
THEOREM FlushDrains == Spec => SyncFlushDrains
<1>1. ASSUME IInv, [Next]_vars PROVE [ppc = "sync" /\ ppc' # "sync" => Len(applied) = Len(accepted)]_vars
  <2> SUFFICES ASSUME Next, ppc = "sync", ppc' # "sync" PROVE Len(applied) = Len(accepted)
    BY <1>1
  <2>1. Synchronise
    BY DEF Next, Owner, Request, Thread, FinishAdd, Construct, AwaitStart, SendBatch, NotifyThread,
           Terminate, NotifyTerminate, Join, AddUpdate, CallFlush, Acknowledge, NotifyStarted,
           WaitJob, ApplyUpdate, AdvanceIndex, JobDone, NotifyLast, SpuriousWakeup, Destroyed, vars,
           ownerVars
  <2>2. m_send_upto = 0
    BY <2>1 DEF Synchronise
  <2>3. Jobs = 0 /\ m_batch_pos = 0
    BY <2>2, <1>1 DEF IInv, Handshake, Jobs, Filling
  <2>. QED
    BY <2>3, <1>1, Drained
<1>. QED
  BY Invariance, <1>1, PTL DEF Spec, SyncFlushDrains

(* The ring of batches, with its two threads, implements the queue of      *)
(* updates: a call of add_edge or remove_edge accepts one, batch() applies *)
(* them, and the destructor returns once there is none left.               *)
THEOREM Refinement == Spec => ImplementsQueue
<1>1. Init => Queue!QueueInit
  BY DEF Init, Queue!QueueInit
<1>2. ASSUME IInv, [Next]_vars PROVE [Queue!QueueNext]_<<accepted, applied, ppc = "gone">>
  <2>1. ASSUME NEW u \in Updates, AddUpdate(u) PROVE Queue!Accept(u)
    BY <2>1 DEF AddUpdate, Queue!Accept
  <2>2. CASE ApplyUpdate
    <3>1. applied' = Append(applied, accepted[Len(applied) + 1]) /\ Len(applied) < Len(accepted)
      BY <2>2, <1>2, ApplyStep
    <3>2. ppc # "gone" /\ UNCHANGED <<accepted, ppc>>
      BY <2>2, <1>2 DEF ApplyUpdate, ownerVars, IInv, Handshake
    <3>3. Queue!Apply
      BY <3>1, <3>2 DEF Queue!Apply
    <3>. QED
      BY <3>3 DEF Queue!QueueNext
  <2>3. CASE Join
    <3>1. Jobs = 0 /\ m_batch_pos = 0
      BY <2>3, <1>2 DEF Join, IInv, Jobs, Filling
    <3>2. Len(applied) = Len(accepted)
      BY <3>1, <1>2, Drained
    <3>3. Queue!Close
      BY <2>3, <3>2 DEF Join, Queue!Close
    <3>. QED
      BY <3>3 DEF Queue!QueueNext
  <2>4. CASE \/ Construct \/ AwaitStart \/ SendBatch \/ NotifyThread \/ Synchronise \/ Terminate
             \/ NotifyTerminate \/ \E who, sync : CallFlush(who, sync)
    <3>1. UNCHANGED <<accepted, applied>> /\ ppc # "gone" /\ ppc' # "gone"
      BY <2>4, <1>2 DEF IInv, TypeOK, Construct, AwaitStart, SendBatch, NotifyThread, Synchronise,
                        Terminate, NotifyTerminate, CallFlush, Return
    <3>. QED
      BY <3>1
  <2>5. CASE \/ Acknowledge \/ NotifyStarted \/ WaitJob \/ AdvanceIndex \/ JobDone \/ NotifyLast
             \/ SpuriousWakeup \/ UNCHANGED vars
    <3>1. UNCHANGED <<accepted, applied, ppc>>
      BY <2>5 DEF Acknowledge, NotifyStarted, WaitJob, AdvanceIndex, JobDone, NotifyLast,
                  SpuriousWakeup, vars, ownerVars
    <3>. QED
      BY <3>1
  <2>6. CASE \E u \in Updates : AddUpdate(u)
    BY <2>1, <2>6 DEF Queue!QueueNext
  <2>. QED
    BY <1>2, <2>2, <2>3, <2>4, <2>5, <2>6
       DEF Next, Owner, Request, Thread, FinishAdd, Destroyed
<1>. QED
  BY Invariance, <1>1, <1>2, PTL DEF Spec, ImplementsQueue, Queue!QueueSpec
=============================================================================
