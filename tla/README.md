# A TLA+ model of the GFE driver

The GFE driver runs updates and Graphalytics queries against dynamic graph
libraries (GTX, LiveGraph, Teseo, ...) and measures them. Its own logic is in the
experiments, which coordinate pools of threads, and in the drivers, which map the
external vertex identifiers to those of a library and retry its transactions. That is
what these modules model: the threads, their locks, condition variables and atomics, the
interleavings of their steps, and what the results and the graph are worth at the end.

## The system

| Component | State | Operations | Who calls it | What is hard | What makes it correct |
|---|---|---|---|---|---|
| **Aging2 experiment** (`experiment/details/aging2_*`) | a task slot per worker, buffers of updates, two arrays of the loader, counters, stop flag, results | load a block, execute the updates, remove vertices, stop | `main_driver`, the mixed workload | hand-over through a condition variable, double buffering, a stop in the middle of a batch, workers stuck in the library | updates of an edge in the order of the log, batches separated by a barrier, the final graph, reports and latencies, termination |
| **AsyncBatch** (`experiment/details/async_batch.*`) | a ring of batches, its two indices, `m_send_upto` | add, remove, flush, destroy; background thread | its owner (one thread) | batches accessed without the mutex, two opposite conditions on one condition variable | no slot shared, no update lost or reordered, `flush(true)` drains, every call returns |
| **BuildThread** (`experiment/details/build_thread.*`) | `m_terminate`, the thread | start, periodic `build()`, stop | InsertOnly | one flag for start and stop, a build in progress at the stop | stop returns, nothing runs afterwards |
| **InsertOnly** (`experiment/insert_only.cpp`) | a shared position in the stream | spawn, fetch a chunk, insert, join, final build | `main_driver` | chunks at the end of the stream, reuse of a thread id | each edge once, the last snapshot is complete |
| **GTX driver, updates** (`library/gtx/gtx_driver.cpp`) | dictionary of the vertices with a lock per entry, two counters, the GTX graph | `add_vertex`, `add_edge*`, `update_edge_v1`, `remove_edge`, `get_weight`, `remove_vertex` | the workers of every experiment | vertices created by concurrent calls, rollbacks, two locks per call | linearizable, one vertex per identifier, both directions of an edge, exact counters, calls return |
| **Mixed workload** (`experiment/mixed_workload.cpp`) | a future, the pointer to the master | run updates and queries together | `main_driver` | a pointer polled by one thread, created and deleted by another | queries start and end with the updates, and only call a master that exists |
| **Graphalytics experiment** (`experiment/graphalytics.cpp`) | the outcome of each kernel | run the enabled kernels, validate their output | `main_driver`, the mixed workload | timeouts and references that are missing | each outcome recorded for its kernel |
| **Network** (`network/`) | connections, server flags | one request and response per operation | remote experiments | connections that come and go, a client that dies, two ways to stop | results reach their caller, the server stops, and not too early |
| **Library interface** (`library/interface.*`) | none | updates, point reads, kernels | the experiments | answers of updates that change nothing | `GraphStore`, `LibraryGraph` |
| **Drivers**: GTX, LiveGraph, Sortledton and its V2, Teseo, GraphOne, LLAMA, Stinger, CSR, adjacency list (`library/*`) | a dictionary between external and internal identifiers, counters, the external structure, a snapshot or a level for the kernels | the interface | the experiments | identifiers with gaps, removed vertices, deltas that are not built yet, counters of their own | the driver is the graph of the interface |
| **Kernels** (same files) | arrays indexed by internal identifiers | BFS, SSSP, WCC, CDLP, LCC, PageRank, scans | Graphalytics experiment | two directions of a search, stale entries of bins, racing parallel loops | equal to the definitions of Graphalytics |
| **Readers, edge stream, configuration, utilities** | files, immutable arrays, options | parse, load, permute | all | pure input | not modelled, but for what they give to the experiments |

The experiments call the libraries through `library/interface.hpp`, from many threads
and without locks of their own: `GraphStore` states what they rely on, and the
libraries are abstracted to it in the models of the experiments. Within an experiment
the threads talk through a mutex and a condition variable per pair, and through atomics.

## Modules

| Module | Models | Instance |
|---|---|---|
| `Aging2Worker`, `Aging2Master`, `Aging2` | the worker threads and the state they share; the master; the properties of their composition | `MCAging2` |
| `Aging2Proofs` | the proofs about Aging2 | |
| `AsyncBatch` | the owner and the background thread | `AsyncBatch.cfg` |
| `UpdateQueue` | what AsyncBatch promises: a queue applied once, in order, and emptied before it is closed | |
| `AsyncBatchProofs` | the proofs about AsyncBatch | |
| `BuildThread`, `InsertOnly` | the service, and the experiment that composes it with its workers | `InsertOnly.cfg` |
| `InsertOnlyProofs` | the proofs about both | |
| `GTXDriver` | the updates of the driver, over a model of TBB's accessors and of GTX's transactions | `MCGTXDriver` |
| `GTXDriverProofs`, `GTXLinearizability`, `GTXCounters` | the proofs about the dictionary; about the edges, and the refinement of `GraphStore`; about the counters | |
| `GraphStore` | what a library promises: calls that take effect at once on one graph | |
| `GraphalyticsSequential` | the Graphalytics experiment: kernels in order, outcomes | |
| `MixedWorkload` | the analytics thread, and the thread of the updates, over all of Aging2 | `MCMixedWorkload` |
| `Message`, `Server`, `Client`, `Network` | the messages and their conversions; the loop and the handlers of the server; the threads of the client; both together | `MCNetwork` |
| `NetworkProofs` | the proofs about the network | |
| `Graphalytics` | the reference: distances, components, labels, coefficients, ranks, as definitions | |
| `GapKernels` | the kernels that most drivers copy from the GAP Benchmark Suite | |
| `DriverStore` | what the drivers share: dictionary, counters, arcs | |
| `LiveGraphDriver`, `GTXKernels`, `SortledtonDriver`, `TeseoDriver`, `CSR`, `GraphOne`, `LlamaKernels`, `Llama`, `StingerDriver`, `AdjacencyList` | a driver each: its updates, reads and kernels | |
| `LibraryGraph` | what the interface promises of an update, one call at a time | |
| `Drivers` | the virtual methods: a driver is loaded and updated, its kernels run in every state | `MCDrivers` |
| `ParallelWCC` | the threads of `CSR::do_wcc` | `MCParallelWCC` |
| `ParallelWCCProofs` | the proofs about ParallelWCC | |

Names follow the source: `m_task`, `m_send_upto`, `m_terminate` are the members of the
classes, `pc`, `ppc`, `mpc` say where a thread is in its function. Conventions:

* A critical section is one step. A `notify_all` after the unlock, an atomic
  read-modify-write, a call of the library and an access outside of the mutex are steps
  of their own. A condition variable is the set of the threads asleep on it; a thread
  that wakes up evaluates its predicate again, and may wake up for no reason.
* A timed wait may expire at any step: clocks are not modelled. The timeout and the memory
  threshold are a choice at each tick of `wait_and_record` (`StopReasons`).
* `std::hash<uint64_t>` is the identity, as in libstdc++. Weights are abstracted to their
  sign, or to small numbers in `GTXDriver`.
* `Log` satisfies what the generator of a graphlog guarantees (`LogAssumption`): an edge is
  inserted only when absent, deleted only when present, and no edge of the final
  graph touches a temporary vertex.
* The operators marked `Mutant` are plausible mistakes in the definition that follows them.
  `PROJECT.json` says which property each of them breaks.

**Aging2.** `MasterStep` follows `execute_synchronized_small_batch` (`Mode =
"small_batch"`, the function that `Aging2Experiment::execute` calls) or `execute`, phase by
phase: `mpc` is the phase and the step, `mi` the worker of the loop. `SetTask`,
`NotifyWorker` and `WaitWorker` are `set_task_async` and `wait`; `RecordTick`, `DrainIdle`
and `DrainExpired` are `wait_and_record`. `WorkerStep` follows `main_thread`: `LoadEdges`
partitions the block, `NextChunk`, `CheckStop`, `CallLibrary`, `CountChunk`, `ReportTime`
(the compare-and-exchange) and `StoreTime` (the store of the time, which other workers may overtake)
are `main_execute_updates`. An assertion or an exception that fails moves the master to
`"error"`. The library (`LibraryAccepts`) accepts an insertion of an absent edge and a deletion
of a present one, as `interface.hpp` says; otherwise the worker repeats the call. A block of the log always fits
in the array of the loader, whose size is the one of the file (`EdgeLoader::load` returns 0 for one that does not,
graphlog_reader.cpp:300), and the break of the builds with LiveGraph (aging2_master.cpp:753) is left out.

**AsyncBatch.** `base` and the two histories `accepted`, `applied` are ghost variables.
`UpdateInterface::batch(force = true)` applies one update per step; the exception it throws
after ten minutes without success is not modelled, as it ends the process.

**GTXDriver.** A call looks for its two entries (`Find`, `NotFound`, `InsertEntry`,
`LockEntry`), runs the body of its transaction (`Body...`), which reads the store and collects
what to write, and commits or is rolled back and repeated. A commit installs the writes if
what the transaction read has not changed; GTX may also roll back on its own
(`MaxRollbacks`). `checked_put_edge` returns whether the edge was new, as the counting of
`m_num_edges` supposes. `new_vertex` is never undone: a rolled back transaction leaves an
unused internal vertex behind. The order of the last two arguments of `get_edge` differs
between `add_edge` and `update_edge_v1`; the constant `GetEdgeDst` says which one is the
destination, and the runs take the order of `add_edge`. With the other one
`Linearizable` fails, because `add_edge` no longer finds existing edges. `get_weight` calls another function,
`get_edge_weight`, with the destination before the label: this is taken to be its order.

**InsertOnly.** The edges are positions of the stream; `stored` is what the library holds,
and a build takes a snapshot of it: the defaults of `interface.cpp` for `on_thread_init`,
`on_thread_destroy` and `build` do nothing, and the model records the calls. The service never ticks more than `MaxBuilds` times
before it is told to stop.

**MixedWorkload.** Extends `Aging2`: the master and the workers are those of the other runs, and their
thread also assigns and deletes `m_master`. `apc` is where the analytics thread is; `progress_so_far`
loads the pointer for its test and again for the call, which are two steps. The kernels of
`GraphalyticsSequential` have any of the outcomes of a run (match, mismatch, no reference, timeout).

**Network.** A socket carries whole requests and responses, in order, and may be cut by the death of the
client, also in the middle of a request. `Message` says what a value becomes on its way: the server stores
a weight as an integer and the client reads its bits as a double. `truth` is a ghost: what the
library did for the last request of each thread. A handler that meets an error it does not
catch ends the process (`loop = "aborted"`). `select` and `accept` do not fail, and what `main_loop` does
between the return of `select` and the next test of `m_server_stop` is one step. Between the end of `main_loop` and the destructor
(`Close`) the socket still listens: a client that connects then is reset, and its call fails.

**Drivers.** A store is a record, an update an operator from a store to a store and an answer, and a
kernel an operator on a view of the store. `Drivers` picks a driver and a graph, loads it, and takes a few
updates; `graph` is what the store represents. A weight, a score and a distance are integers: scores
are multiples of `1 / Unit`, and `Rounding` bounds the error of a rank. The parallel loops of the kernels are
independent iterations, with the exceptions of WCC, whose threads are `ParallelWCC`, and of SSSP,
executed by one thread. The bins of SSSP keep their repetitions, and a frontier that does not fit in its array
leaves no result. The guards `Static`, `Overwrites`, `AnyEndpoint`, `Cascades`, `Analysable` and `StopsEarly` keep the run to the
calls and states for which a driver has a definite and intended answer; what is outside of them is listed under
*Disagreements found*.

**ParallelWCC.** Each read and write of an element that another thread may write is a step. The
iterations are handed out one at a time (64 in the code); the barrier at the end of a loop is `Barrier`.

## Runs

| Run | Shows | Bounds |
|---|---|---|
| `aging2_small_batch` | two workers and the master over two blocks of three updates, with stops and drains that expire | one edge inserted, deleted and inserted again in both orientations, one temporary edge across the blocks; `LastMaxSz = 0` opens a buffer per update, `Granularity = 2` makes whole and partial chunks |
| `aging2_execute` | `execute`, with latencies, memory and timeout stops | the same log; `LastMaxSz = 2`, memory kept |
| `aging2_latency` | *violation* of `AssertionsHold` | latencies in small batches |
| `async_batch_ring` | a ring of 3 batches of 2 updates, 6 updates | the ring fills up, wraps around, and is flushed partly filled, by all three callers of `flush` |
| `gtx_updates` | two threads, four calls among all operations, directed and undirected, one free rollback | seven requests on three vertices; four calls are needed for an `add_edge` that is rolled back and then finds the edge; sources precede destinations, so the locks are taken in one order; `CounterMod` stands for 2^64 and is reached from below by `remove_vertex` |
| `gtx_triangle` | *violation* of `CallsReturn` | three threads insert a triangle |
| `gtx_weights` | *violation* of `SymmetricWeights` | two weights for one edge |
| `insert_only` | two workers, five edges in chunks of two, at most two ticks of the service | the last chunk is partial |
| `drivers` | fourteen drivers, undirected, nine of them directed, and GraphOne and the dense LLAMA with blind writes too | a triangle with three updates, a square with a diagonal and a tail with one, a broom of eleven vertices where BFS goes top-down, bottom-up and top-down again (`Alpha = 4`, `Beta = 3`) and paths cross bins (`Delta = 2`); sparse identifiers in no order; two iterations of CDLP and PageRank |
| `network` | a main thread and two workers, started twice, on three sockets | one call per thread and round; one request of each kind that differs in the code; the client may die and the server be stopped at any step |
| `mixed_workload` | *violation* of `MasterAliveWhenCalled` | one worker, two updates, two kernels |
| `parallel_wcc` | two threads on all 64 undirected graphs of four vertices and three directed ones | four vertices are enough for a hook to be overwritten by a worse one and repaired in a later round |

Two workers are enough for the protocols of the experiments: a worker only shares its slot
with the master, and the atomics with the others. Two concurrent calls meet every
conflict on an entry or an edge. Two threads that insert both orientations of a pair of new vertices
already make a cycle of locks; `gtx_triangle` has three, and no pair twice, because Aging2 gives
both orientations of an edge to the same worker.

What the properties say:

* `PerEdgeOrder`, `BatchBarrier`, `FinalGraph`, `LibraryCallCanSucceed`: the updates of an edge
  keep the order of the log although they are spread over workers and buffers, batches do not
  overlap, an experiment that was not stopped ends with the final graph of the log and has counted each update once,
  in the master and in its worker, and no worker ever repeats a call that only a later update could let succeed.
* `BlockStableWhileLoading`: the array being read is not the one being loaded.
* `ReportsAdvance`, `ReportedTimesReached`, `LatencySlots`: what the results are
  worth. A worker that wins a report stores its time later, so that the entries may be filled out of order; but each has one
  owner, and the last one announced is there when `store_results` reads it. In a run that is stopped a report may stand for updates
  that were cut. `BusyOnlyAfterExpiredDrain`, `AssertionsHold`: when the run-time checks may fail.
* `NoSlotRace`, `AppliedInOrder`, `SyncFlushDrains`, `ImplementsQueue`: the ring of batches is a queue.
* `EndpointsResolved`, `OneVertexPerId`, `CountersExact`, `Linearizable`: the
  dictionary, the store and the counters agree, and the driver implements `GraphStore`; a call takes
  effect when it commits, or when it finds that there is nothing to do. The weights are not part of `GraphStore`.
* `EachEdgeOnce`, `LastSnapshotComplete`: the insertions and the snapshots.
* `ImplementsLibraryGraph`, `CountersExact`: each driver is a graph, whatever its
  dictionary, deltas and levels: every call is a step of the action of `LibraryGraph` for the function called. `BfsCorrect`, `SsspCorrect`, `WccCorrect`, `CdlpCorrect`, `LccCorrect`,
  `PageRankCorrect`, `ScansCorrect`: every implementation of a kernel agrees with its definition, from every
  source, in every state. `SsspCorrect` is about the states where the frontier fits: in the run, all those with an edge. `QueueFits`: no search pushes more vertices than its queue has places for.
* `ResultsPropagated`, `ServesUntilExit`, `ServerStops`: a result reaches the thread that asked for it, and the
  server stops with its last connection and not between two of them.
* `ComponentsExact`: the races of the parallel loops do not matter for the result. `Converges`: the
  rounds end.
* `MasterAliveWhenCalled`: the analytics never call a master that is gone.
* `Terminates`, `OwnerReturns`, `CallsReturn`: nobody waits for ever.

`TypeOK` gives the values of the variables. Those of AsyncBatch, ParallelWCC, InsertOnly, GTXDriver and the network, and
what the proofs need of the one of Aging2 (`Types`, `UpdateTypes`), are parts of the invariants that are proved.

**Fairness.** Weak fairness of each thread: the operating system runs a thread that can run. Nothing is
assumed of the requests, of spurious wake-ups or of expiring waits. In Aging2 a worker is only
enabled in `CallLibrary` when the library can accept the update, so that fairness there
means that a call that can succeed eventually does. In `GTXDriver` the rollbacks without a conflict
are finite, and a conflict means that another transaction has committed. In the network the threads of both
processes run; nothing is assumed of a death or of a call of `stop()`. In ParallelWCC every thread of the
loop runs, and nothing is assumed of the timer. `drivers` and `mixed_workload` check safety only, without
fairness.

## Disagreements found

With a run that shows them:

1. `prepare_latencies` is called once per block, and its assertion fails (`aging2_latency`).
2. Threads that insert a cycle of new vertices through `add_edge_v2` deadlock on the dictionary
   (`gtx_triangle`).
3. An existing undirected edge is updated in one direction only (`gtx_weights`).
4. The analytics may call a master that is being deleted (`mixed_workload`).

Met while modelling, and left out of the runs by a guard, a constant or a choice of the requests:

* *Experiments.* `AsyncBatch` accepts `num_batches = 1`, and then never returns from `flush`
  (async_batch.cpp:143; `BatchesSz = 1` in `AsyncBatch` shows it). `m_timeout_hit` is never set in small batches,
  where `store_results` is commented out (aging2_master.cpp:768). The mixed workload says that the graph has reached
  its final size at a progress of a tenth; between `m_master = nullptr` and the end of the future the progress is 0
  again, so one more round of analytics may run after the updates. The Graphalytics experiment always starts SSSP from vertex
  2592222, and runs scans of one and two hops in place of LCC and CDLP.
* *Network.* `get_weight` is stored as an integer and read as a double (server.cpp:331, client.cpp:247).
  `DUMP_FILE` has no case in the server. PageRank, WCC and the updates do not handle the response ERROR. A connection that
  is cut in the middle of a message makes its handler spin (server.cpp:253), and the server does not end. The comment
  of `stop()`, "Stop once there are no more connections active" (server.cpp:138), is not what the loop does. A
  thread id equal to `max_num_connections` passes the check (client.cpp:186).
* *GTX.* LCC stores the score of a vertex one place after the one it is read from; `wcc()` and `cdlp()` only
  scan the graph; `remove_vertex` does not remove anything, and decrements the counter of the vertices down to its wrap-around (l. 192).
  `add_edge_v2` answers whether the edge is new, as interface.hpp:232 says, where gtx_driver.hpp:118 has "@return always
  true."; `add_edge_v3` always answers true (l. 415), where interface.hpp:238 has "false otherwise (e.g. this edge already
  exists)". `update_edge_v1` reads the weight with the other order of the arguments of `get_edge` (l. 471): with the one of
  `add_edge` it does not find the edge, and writes the weight given in place of the sum. `GraphStore` has the answers of the code.
* *LiveGraph.* `remove_vertex` decrements the counter of the vertices whether or not the vertex exists (l. 179), and
  leaves the edges of the neighbours; `add_edge_v2` counts an edge that it overwrites.
* *Sortledton.* `get_weight` leaks its transaction when a vertex is missing; `add_edge` of V2 creates the vertices.
* *Teseo.* `add_edge_v2` and `add_edge_v3` never return if the edge exists, or if a vertex they have seen was
  removed.
* *GraphOne.* Without the dictionary, `add_edge`, `remove_edge` and `get_weight` take any identifier (l. 379, 453, 261): an edge between
  vertices that do not exist is stored and counted, where interface.hpp:225 has "false if [...] one of the referred vertices does not
  exist". After deletions are archived the degrees are bounds, and some kernels read values that were
  never written.
* *LLAMA.* `remove_vertex` of the dense variant answers true for a vertex that does not exist ("lie", llama-dv.cpp:259). `get_weight` of the dense variant looks for an edge from the source to itself; its `num_vertices` counts the deleted
  vertices; kernels add a row (0, 0) for a removed vertex.
* *Stinger.* BFS, SSSP and PageRank stop at the last vertex with an edge; the dense variant reads
  weights back as the bits of a double and truncates the LCC scores.
* *Adjacency list.* `remove_vertex` has "remove all dangling edges" (l. 222) and erases them from a copy of the lists of the neighbours
  (l. 227, 239): the lists and the counter keep them. `load` holds the mutex (l. 361) that `add_edge_v2` acquires again in a thread-safe instance,
  the default (l. 285): it does not return; the model is of the other instance. Five methods
  declare a lock that takes none (`shared_lock<mutex_t> lock(mutex);`, l. 383, 423, 482, 690, 717).
* *SSSP in the style of GAP.* The frontier is an array with a place for each edge, `frontier[0] = source` is written before any test, and a bin
  is copied with its repetitions (csr.cpp:1259, 1263, 1326, and the copies in the other drivers). In a graph without edges the first write
  is already outside of the array. With edges, the entries of a later bin pile up over the rounds of the current one: four vertices that
  improve in turn the distance of one with four neighbours in the next bin push sixteen entries in a graph of twelve edges.
* *All.* `add_edge_v3` answers true for an edge that exists, in every driver and in the default of interface.hpp:240, where interface.hpp:238 has
  "false otherwise (e.g. this edge already exists)". A vertex without neighbours gets a CDLP label of no vertex. Sortledton V2, Stinger and the adjacency list
  answer true to an `add_edge` that overwrites.

## Proofs

Eight modules hold proofs. `AsyncBatchProofs` proves, for every number of batches and every batch size the constructor
accepts, and any number of updates (`SizeAssumption`, `UpdatesAssumption`):

* `Invariance`: `Spec => []IInv`; `TypeCorrect`: `[]TypeOK`;
* `SlotsDisjoint`: `[]NoSlotRace`; `InOrder`: `[]AppliedInOrder`;
* `FlushDrains`: `SyncFlushDrains`, an action property;
* `Refinement`: `Spec => ImplementsQueue`, the specification of `UpdateQueue`.

None of the properties is inductive. `m_send_upto` has three meanings (the handshake of the
constructor, the batches pending, the handshake of the destructor) and is decremented after
`m_send_index` has advanced; `Handshake` says which one holds where both threads are, and `Jobs`
corrects the count in between. `Ring` then ties the two indices: the slot being filled is exactly
`Jobs` ahead, around the ring, of the one being applied. This gives `NoSlotRace`, as a thread
that applies a batch has at least one job and at most `BatchesSz - 1`. `Sent`, `Filling` and
`Applying` say which segment of `accepted` each slot holds (`base` is where it starts), hence that
what is applied next is the next update. The proof has one lemma per kind of step (`OwnerMoves`,
`WakeUps`, `StartAndStop`, `AddStep`, `SendStep`, `JobStep`, `ApplyStep`, `AdvanceStep`); `Drained`
concludes that no job and an empty batch mean that everything has been applied, the fact behind
`FlushDrains` and the last step of `Refinement`.

`ParallelWCCProofs` proves, for every number of vertices, every graph, and every set of threads
(`GraphAssumption`):

* `Invariance`: `Spec => []IInv`; `TypeCorrect`: `[]TypeOK`;
* `Components`: `[]ComponentsExact`: what `do_wcc` returns are the components of the graph.

A thread acts on values of `comp` that others have replaced in the meantime, so nothing can be said of the array
as a whole while a loop runs. What survives the races is that every value ever written or read names a vertex of the same
component that is not above (`Descending`, `Reaches`, `HookLocal`, `CompressLocal`): no hook joins two components,
and no cycle appears. This gives one half of `ComponentsExact`. For the other half, `Rounds` looks at a
round that has hooked nothing so far: `comp` has not changed since the round began, so what the threads have read is current
(`UpToDate`), every vertex points to a root (`Flat`), and each arc that was visited joins two vertices with the
same parent, or is at hand (`Visited`). When such a round ends all arcs agree (`ArcsAgree`), and so do all connected
vertices. In the compression each vertex has one owner (`Owners`), which is why a vertex that
has been left points to a root (`Compressed`). `Connected` is stated with closed sets, not with paths, as induction over
paths is out of reach of the prover; `ConnectedStable` is the lemma that uses it. There is one lemma per step of a thread.

`InsertOnlyProofs` proves, for every length of the stream, chunk size and number of workers:

* `Invariance`: `Spec => []IInv`;
* `EachEdgeOnceHolds`: `[]EachEdgeOnce`; `LastSnapshotCompleteHolds`: `[]LastSnapshotComplete`.

The stored edges alone do not say why no edge comes twice. `Chunks` says that the unfinished chunks of the
workers are disjoint intervals below the shared position, and that a worker leaves only when that position is at the end;
`Inserted` that each position handed out is stored once, or is in the rest of one worker: `fetch_add`
takes an interval, an insertion moves one position, and with all workers joined nothing is left.
`Handshake`, `Counts` and `Lifecycle` follow the one flag `m_terminate` through start and stop of the service, so that
after the join no build is running, and the build of `execute` is the last one.

`GTXDriverProofs`, `GTXLinearizability` and `GTXCounters` prove, for any set of threads, vertices and requests and any number
of calls and rollbacks (`DriverAssumption`):

* `DictionaryInvariance`: `Spec => []DictInv`; `EndpointsResolvedHolds`: `[]EndpointsResolved`;
  `OneVertexPerIdHolds`: `[]OneVertexPerId`;
* `EdgeInvariance`: `Spec => [](DictInv /\ EdgeInv)`; `LinearizableHolds`: `Spec => Linearizable`, the
  specification of `GraphStore`, if `NoLoops` and `GetEdgeDst = 3`;
* `CountersExactHolds`: `[]CountersExact`, if `NoEdgeLoops`, `GetEdgeDst = 3` and `MaxCalls < CounterMod`.

`DictInv` is about the time between the insertion of an entry and its assignment, when the vertex may be allocated,
rolled back, allocated again and committed. `Entries`: an entry names a committed vertex, or is locked by the call that creates
it; `Store` is the converse. `Creating`: such an entry is unset, and locked by one call; `Created` and `Fresh`: the vertices a call
adds are its own, and uncommitted up to its commit. Hence a call that gets the lock of an entry finds it set, and
an identifier has one vertex. `EdgeInv` adds that stored arcs join committed vertices (`ArcsVisible`) and come in pairs in an undirected
graph (`Symmetric`), and what an open transaction has read and will write (`Transaction`): a commit happens only if what it
read has not changed, so that its answer is the one the graph gives at that moment. There is one lemma per
step; `CommitPerforms` is the linearization point, `NotFoundStep` and `BodyAddStep` the calls that have nothing to do, and
`InvisibleStep` covers the rest. The counters are changed after the commit: `VertexCount` and `EdgeCount` relate them, modulo `CounterMod`, to
the graph and to the calls that are between commit and return. An edge may be removed before its insertion was counted, and then
`m_num_edges` is 2^64 - 1 for a while; fewer than 2^64 calls bound the number of edges, so that the equation modulo `CounterMod` is
one of numbers when no call runs.

The hypotheses are those of the run. On an undirected loop the second arc is the first, so the second `checked_put_edge` or
deletion of a transaction meets what the first just did, and an edge is one arc where two are counted; with `GetEdgeDst = 2` an
`add_edge` does not see that the edge exists.

`Aging2Proofs` proves, for any number of workers, log, blocks, temporary vertices, buffer and chunk sizes, with and without
assertions, latencies and released memory (`LogAssumption`, `ModeAssumption`, ...), and for both modes where none is named:

* `Invariance`: `Spec => []IInv`;
* `BusyOnlyAfterExpiredDrainHolds`: `[]BusyOnlyAfterExpiredDrain`; `BlockStableWhileLoadingHolds`: `BlockStableWhileLoading`, an
  action property;
* `PerEdgeOrderHolds`: `[]PerEdgeOrder`; `BatchBarrierHolds`: `[]BatchBarrier`, if `Mode = "small_batch"`;
  `LibraryCallCanSucceedHolds`: `[]LibraryCallCanSucceed`, if `Mode = "small_batch"` or no drain expires;
* `FinalGraphHolds`: `[]FinalGraph`;
* `ReportsAdvanceHolds`: `ReportsAdvance`, an action property; `ReportedTimesReachedHolds`: `[]ReportedTimesReached`;
  `ReportInBoundsHolds`: `[]ReportInBounds`, no report is written outside of `m_reported_times`.

`Handshake` is what the master and a worker know of each other through the slot: `Slot` gives the task in it at each phase
of the master, `Place` where the worker is with it, `Stopping` that only an expired drain leaves a task behind, and `Arrays` that the loader
is at most one block ahead of the array in front. `Updates` is about the buffers: `Loops` keeps the indices of `main_execute_updates`
inside them, and `Buffered` says that a worker holds its updates in the order of the log, and that of those it has been
through exactly the ones that do not wait in a buffer have been applied. The order of the updates of an edge follows, as an edge has one
worker; so does what the library holds (`Stored`: an edge is present if its last applied update is an insertion), and with
`LogAssumption` that a call can succeed. `Buffered` is stated until the stop (`Runs`), as a stopped worker drops the rest of its
chunk, with the exception of the call that it is in. `Emptying` says that a worker that has run its task has nothing left, hence that after
a run the blocks handed out are applied; `Barrier` that the blocks before the one being loaded or executed are. `Counting` and `Performed` relate
the counters to the applied updates: `m_num_operations_performed` is behind by the chunks that are not over (`Pending`). `Removal` follows the vertices
through `remove_vertices`, where each temporary vertex belongs to one worker. `Reporting` is about the reports: a worker that has won
one and not yet stored its time holds a coefficient that no other worker holds, at most `m_last_time_reported`, and the last one announced is recorded or still held by
somebody; `Reached` says how many updates are in the library then.
There is a lemma per step of a thread and part of the invariant. `aging2_small_batch` and `aging2_execute`, with and without assertions, latencies
and released memory, satisfy `IInv`.

The hypothesis of `LibraryCallCanSucceed` is one of the code: in `execute`, `remove_vertices` follows an expired drain, and
may remove the edge that a worker is still inserting or deleting. `ReportInBounds` ends with the stop, as the chunks
that are cut short are counted as a whole.

`NetworkProofs` proves, for any threads, sockets, calls and outcomes, if the library returns only what the messages carry
(`CarriedOutcomes`: a count, a Boolean, a text or nothing, as the request says, and the failures its caller handles; `GET_WEIGHT` and `DUMP_FILE` carry none, see
*Disagreements found*):

* `Invariance`: `Spec => []IInv`;
* `ResultsPropagatedHolds`: `[]ResultsPropagated`; `ServesUntilExitHolds`: `[]ServesUntilExit`;
* `AbortedOnlyIfKilled`: a handler ends the process only after a client was killed.

`Script` and `Connections` say which threads run at each phase of the client, and that each has a socket of its own, but for the worker 0,
which shares the one of the main thread while that waits for it. `Traffic` follows a request: it is in the socket (`Queued`), with its handler (`Handled`), or
answered with what the library did (`Answered`), and a socket that nobody waits on is empty (`Quiet`). So a thread never finds
the response to another request. `Counted` is the number of active connections; `Serving`
says that, unless somebody has stopped the server, its loop ends only once the answer to the last request of the client is on its way (`Leaving`),
because until then the handler of the first connection is counted.

The proofs changed the model twice. The answers of the server were a `CASE` whose guards overlap, of which TLC takes the first
and the logic any: `Reply` and `Result` are now chains of conditions, as the code is. And a first version of `BodyAdd` kept the answer of an earlier attempt, and the invariant failed on
an `add_edge` that is rolled back and finds the edge when repeated, for which the code answers false (gtx_driver.cpp:214). Three
calls do not reach it, hence the four of `gtx_updates`. Two properties are stated in a form that can be reasoned about without an induction over the
log: `PerEdgeOrder` compares positions in place of filtered logs, and `FinalGraph` has a count per worker in place of their sum.

Only model-checked: all liveness properties (fairness and `ENABLED` are out of reach of the prover); the
drivers and their kernels (`Drivers`), which are recursive definitions; `LatencySlots`, as the slices of `m_latencies` are sums over the workers, and what such a
sum is for any number of them is an induction over data; and the runs that expect a violation.

## Not modelled

The variants of the Aging2 experiment that `Aging2Experiment` has commented out, the memory
measurements and the cool-off; `execute_concurrent_by_timestamp`, which is not called; `mixed_master` and
`update_short_reads_experiment`, which no program runs; a second thread in `BuildThread::stop`; the concurrency of the drivers other than
GTX, which is inside external structures; the variants of GraphOne that ignore `build`; the threads of SSSP; the batches of Stinger; dumps, reports,
statistics and the comparison of results; readers, permutation and compression of the edge stream; configuration; the dummy
library, the microbenchmarks and the stand-alone tools. `PROJECT.json` gives the reason for each, and
lists the hazards that no property covers.

## Plan

1. *Done*: Aging2, AsyncBatch with its proofs, BuildThread and InsertOnly, the updates of the GTX driver.
2. *Done*: the mixed workload over Aging2; the network; all drivers and their kernels against the definitions of
   Graphalytics; the threads of WCC, with the proof that their races are harmless.
3. *Done*: InsertOnly; the dictionary, the edges, the refinement and the counters of the GTX driver; the handshake, the updates, the
   barrier, the final graph and the reports of Aging2; the results and the life of the server in the network: proved for any number
   of threads.
4. *Left*: the threads of SSSP, with their shared bins; the locks of the adjacency list and of LLAMA; the other batch drivers of
   the master.
