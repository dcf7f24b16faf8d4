------------------------------- MODULE Aging2 -------------------------------
(***************************************************************************)
(* What the Aging2 experiment promises to the driver: the updates of the   *)
(* graphlog reach the library exactly once and, edge by edge, in the order *)
(* of the log, although they are spread over independent workers, and the  *)
(* experiment ends.                                                        *)
(***************************************************************************)
EXTENDS Aging2Master

(* The values of the variables. *)
TypeOK ==
    /\ \A w \in W : /\ m_task[w].type \in TaskOp /\ task[w].type \in TaskOp
                    /\ sleepers[w] \subseteq {"M", "W"}
                    /\ \A b \in 1 .. Len(m_updates[w]) : Range(m_updates[w][b]) \subseteq Ops
                    /\ m_num_edge_insertions[w] \in 0 .. Len(Log)
                    /\ m_num_edge_deletions[w] \in 0 .. Len(Log)
    /\ pc \in [W -> {"none", "fetch", "waiting", "load", "buffer", "check", "call", "count",
                     "cas", "store", "remove", "exiting", "exited"}]
    /\ mi \in W /\ front \in {1, 2} /\ arrays \in [{1, 2} -> 0 .. NumBlocks]
    /\ next_block \in 1 .. NumBlocks + 1
    /\ m_num_operations_performed \in 0 .. Len(Log)
    /\ m_last_time_reported \in 0 .. ReportedTimesSz
    /\ m_reported_times \in [1 .. ReportedTimesSz -> {NotReported} \cup 0 .. Len(Log)]
    /\ m_stop_experiment = (m_stop_reason # "NOT_SET")
    /\ Range(applied) \subseteq Ops

(* While a worker has a block to partition, the array it reads from is not *)
(* overwritten: the loader, that decompresses the next block at the same   *)
(* time, writes to the other array (load_edges and                         *)
(* execute_synchronized_small_batch).                                      *)
BlockStableWhileLoading ==
    [][ \A w \in W : m_task[w].type = "LOAD_EDGES" =>
            arrays'[m_task[w].payload] = arrays[m_task[w].payload] ]_vars

(* The updates of each edge take effect in the order of the log, none of   *)
(* them twice and none skipped: when one does, the ones that have taken    *)
(* effect are those that precede it in the log, so that insertions and     *)
(* deletions of the same edge are never reordered by the partitioning      *)
(* among the workers.                                                      *)
PerEdgeOrder ==
    \A i \in 1 .. Len(applied) : \A op \in Ops :
        Endpoints(op) = Endpoints(applied[i]) =>
            ((\E j \in 1 .. i - 1 : applied[j] = op) <=> op < applied[i])

(* A worker inside the loops `while(!add_edge_v2(edge))' or                *)
(* `while(!remove_edge(edge))' is not there for ever: the edge it inserts  *)
(* is absent and the edge it deletes is present.                           *)
LibraryCallCanSucceed ==
    \A w \in W : pc[w] = "call" => LibraryAccepts(CurrentOp(w))

(* When the experiment ends and it has not been stopped, every update of   *)
(* the log has been applied and counted, by the master and by the worker   *)
(* it belongs to, and the library holds the final graph, without temporary *)
(* vertices if remove_vertices has been invoked.                           *)
FinalGraph ==
    mpc[1] = "done" /\ ~ m_stop_experiment =>
        /\ Len(applied) = Len(Log)
        /\ edges = PresentAfter(Len(Log))
        /\ m_num_operations_performed = Len(Log)
        /\ \A w \in W : m_num_operations[w] = Cardinality({op \in Ops : OwnedBy(op, w)})
        /\ Mode = "execute" => vertices = Vertices \ Range(TempVertices)

(* In mode small_batch the batches are separated by a barrier: an update   *)
(* of a block takes effect only after all updates of the previous blocks.  *)
BlockOf(op) == CHOOSE b \in 1 .. NumBlocks : op \in BlockFirst(b) .. BlockEnd[b]
BatchBarrier ==
    \A i \in 1 .. Len(applied) : \A op \in 1 .. BlockFirst(BlockOf(applied[i])) - 1 :
        \E j \in 1 .. i - 1 : applied[j] = op

(* During a run the reports only advance, and no time recorded by a worker *)
(* is overwritten by another: between the exchange and the store of the    *)
(* time, that other workers may overtake, the entry of the coefficient     *)
(* belongs to the worker that won it.                                      *)
AboutToRecord(w, k) == pc[w] = "store" /\ ex[w].coeff = k
ReportsAdvance ==
    [][ /\ m_last_time_reported' # m_last_time_reported =>
              At("run", "start") \/ m_last_time_reported' > m_last_time_reported
        /\ \A k \in 1 .. ReportedTimesSz, u, w \in W :
              AboutToRecord(u, k) /\ AboutToRecord(w, k) => u = w /\ k <= m_last_time_reported
        /\ \A k \in 1 .. ReportedTimesSz :
              m_reported_times'[k] # m_reported_times[k] => \E w \in W : AboutToRecord(w, k) ]_vars

(* A time recorded for `k times the final graph' is recorded when at least *)
(* that many updates are in the library, unless the experiment is stopped; *)
(* and when store_results reads the times, also after a stop, no worker is *)
(* still to record the one that m_last_time_reported names.                *)
ReportedTimesReached ==
    /\ ~ m_stop_experiment =>
          \A k \in 1 .. ReportedTimesSz :
             m_reported_times[k] # NotReported => m_reported_times[k] * ReportsPerOps >= k * FinalEdges
    /\ At("store", "results") /\ ~ m_results.thread_deadlocked =>
          \A k \in 1 .. ReportedTimesSz : m_last_time_reported = k => m_reported_times[k] # NotReported

(* No task is handed to a busy worker ("Service busy", "Background thread  *)
(* already busy"), STOP included, unless a stopped worker outlived the     *)
(* five minutes of wait_and_record, and then the result says so.           *)
BusyOnlyAfterExpiredDrain ==
    mpc \in {<<"error", "busy">>, <<"error", "assert">>} => m_results.thread_deadlocked

(* The assertions of prepare_latencies ("Counting mismatch") and of stop   *)
(* ("Service busy") hold.                                                  *)
AssertionsHold == mpc \notin {<<"error", "mismatch">>, <<"error", "assert">>}

(* Each slot of m_latencies is written at most once, insertions below      *)
(* m_latencies_num_insertions and deletions above, and once the experiment *)
(* ends without being stopped no slot is left uninitialised.               *)
LatencySlots ==
    MeasureLatency =>
        /\ \A s \in DOMAIN latencies : latencies[s] <= 1
        /\ \A w \in W : pc[w] = "call" =>
               /\ m_latency_insertions[w] \in 0 .. m_latencies_num_insertions
               /\ m_latency_deletions[w] \in m_latencies_num_insertions .. Len(Log)
               /\ IsInsertion(CurrentOp(w)) => m_latency_insertions[w] < m_latencies_num_insertions
        /\ mpc[1] = "done" /\ ~ m_stop_experiment => \A s \in DOMAIN latencies : latencies[s] = 1

(* The experiment ends, also when it is stopped, unless a worker is stuck. *)
Terminates == <>(mpc[1] = "done" \/ m_results.thread_deadlocked)
=============================================================================
