----------------------------- MODULE GTXDriver -----------------------------
(***************************************************************************)
(* The updates of GTXDriver (library/gtx/gtx_driver.cpp), invoked by many  *)
(* threads: the dictionary that translates the vertex identifiers, a       *)
(* tbb::concurrent_hash_map whose accessors lock one entry each, in shared *)
(* or exclusive mode, and the transactions of GTX.                         *)
(*                                                                         *)
(* GTX and TBB are external, and modelled by how the driver uses them.  A  *)
(* find or an insert waits for the lock of its entry.  A transaction reads *)
(* the store when its body runs, and its commit either installs what it    *)
(* wrote, if what it read has not changed, or rolls back: the driver       *)
(* retries when commit() returns false as it does after RollbackExcept.    *)
(***************************************************************************)
EXTENDS Integers, Sequences, FiniteSets, Functions

CONSTANTS
    Threads,       \* the threads that invoke the library
    Vertices,      \* the external identifiers of the vertices
    Requests,      \* the calls: operation, endpoints, weight
    Directedness,  \* the values of m_is_directed to consider
    GetEdgeDst,    \* which argument of RWTransaction::get_edge is the destination: 2 or 3
    CounterMod,    \* 2^64: the counters are uint64_t
    MaxCalls,      \* bound: the calls made
    MaxRollbacks,  \* bound: the rollbacks GTX decides on its own
    None           \* no thread, no vertex

ASSUME DriverAssumption ==
    /\ Directedness \subseteq BOOLEAN
    /\ GetEdgeDst \in {2, 3}
    /\ CounterMod \in Nat /\ CounterMod > 1
    /\ MaxCalls \in Nat /\ MaxRollbacks \in Nat
    /\ None \notin Threads /\ None \notin Vertices
    /\ Requests # {}
    /\ \A r \in Requests : /\ r.src \in Vertices /\ r.dst \in Vertices /\ r.weight \in Nat
                           /\ r.op \in {"add_vertex", "add_edge", "add_edge_v2", "add_edge_v3",
                                        "update_edge_v1", "remove_edge", "get_weight"}

NoEntry == -1

VARIABLES
    m_is_directed,
    m_num_vertices,
    m_num_edges,
    dictionary,    \* VertexDictionary: the internal id of each external one, 0 until set
    readers,       \* the threads with a const_accessor on each entry
    writer,        \* the thread with an accessor on it
    vertexData,    \* GTX: the external id in each internal vertex, None if not committed
    edgeData,      \* GTX: the weight of each edge, from internal id to internal id
    pc,            \* where each thread is
    call,          \* the call it executes
    side,          \* the endpoint it is looking for
    id,            \* internal_source_id, internal_destination_id
    creating,      \* the endpoints to create: insert_source, insert_destination
    tx,            \* its transaction: what it read and what it writes
    result,        \* result, removed, inserted
    removals,      \* history: the calls of remove_vertex
    calls, rollbacks  \* the counters of the two bounds

storeVars == <<vertexData, edgeData>>
lockVars == <<dictionary, readers, writer>>
counterVars == <<m_num_vertices, m_num_edges, removals>>
boundVars == <<m_is_directed, calls, rollbacks>>
localVars == <<call, side, id, creating, tx, result>>
vars == <<m_is_directed, m_num_vertices, m_num_edges, dictionary, readers, writer, vertexData,
          edgeData, pc, call, side, id, creating, tx, result, removals, calls, rollbacks>>

EmptyTx == [read |-> <<>>, writes |-> <<>>]

Init ==
    /\ m_is_directed \in Directedness
    /\ m_num_vertices = 0 /\ m_num_edges = 0
    /\ dictionary = [v \in Vertices |-> NoEntry]
    /\ readers = [v \in Vertices |-> {}]
    /\ writer = [v \in Vertices |-> None]
    /\ vertexData = <<>> /\ edgeData = <<>>
    /\ pc = [t \in Threads |-> "idle"]
    /\ call = [t \in Threads |-> CHOOSE r \in Requests : TRUE]
    /\ side = [t \in Threads |-> "src"]
    /\ id = [t \in Threads |-> [src |-> 0, dst |-> 0]]
    /\ creating = [t \in Threads |-> {}]
    /\ tx = [t \in Threads |-> EmptyTx]
    /\ result = [t \in Threads |-> FALSE]
    /\ removals = 0 /\ calls = 0 /\ rollbacks = 0

-----------------------------------------------------------------------------
(* The dictionary *)

(* The operations that create the endpoints of their edge. *)
Upserts == {"add_edge_v2", "add_edge_v3", "update_edge_v1"}

Invoke(t, r) ==
    /\ pc[t] = "idle" /\ calls < MaxCalls
    /\ calls' = calls + 1
    /\ call' = [call EXCEPT ![t] = r]
    /\ pc' = [pc EXCEPT ![t] = IF r.op = "add_vertex" THEN "insert" ELSE "find"]
    /\ side' = [side EXCEPT ![t] = "src"]
    /\ id' = [id EXCEPT ![t] = [src |-> 0, dst |-> 0]]
    /\ creating' = [creating EXCEPT ![t] = {}]
    /\ result' = [result EXCEPT ![t] = FALSE]
    /\ UNCHANGED <<m_is_directed, rollbacks, counterVars, lockVars, storeVars, tx>>

(* The vertex being looked for, and the step after its entry is locked. *)
Target(t) == call[t][side[t]]
NextVertex(t) ==
    IF side[t] = "src" /\ call[t].op # "add_vertex"
    THEN /\ pc' = [pc EXCEPT ![t] = "find"]
         /\ side' = [side EXCEPT ![t] = "dst"]
    ELSE /\ pc' = [pc EXCEPT ![t] = "begin"]
         /\ UNCHANGED side

\* Mutant: the entry is read without waiting for its lock.
FindUnlocked(t) ==
    /\ pc[t] = "find" /\ dictionary[Target(t)] # NoEntry
    /\ readers' = [readers EXCEPT ![Target(t)] = @ \cup {t}]
    /\ id' = [id EXCEPT ![t][side[t]] = dictionary[Target(t)]]
    /\ NextVertex(t)
    /\ UNCHANGED <<dictionary, writer, call, creating, tx, result, counterVars, boundVars, storeVars>>

(* find with a const_accessor. *)
Find(t) ==
    /\ pc[t] = "find" /\ dictionary[Target(t)] # NoEntry
    /\ writer[Target(t)] = None
    /\ readers' = [readers EXCEPT ![Target(t)] = @ \cup {t}]
    /\ id' = [id EXCEPT ![t][side[t]] = dictionary[Target(t)]]
    /\ NextVertex(t)
    /\ UNCHANGED <<dictionary, writer, call, creating, tx, result, counterVars, boundVars, storeVars>>

(* No entry: add_edge_v2 and the like insert it, the others return false   *)
(* (NaN for get_weight).                                                   *)
NotFound(t) ==
    /\ pc[t] = "find" /\ dictionary[Target(t)] = NoEntry
    /\ pc' = [pc EXCEPT ![t] = IF call[t].op \in Upserts THEN "insert" ELSE "return"]
    /\ UNCHANGED <<localVars, counterVars, boundVars, lockVars, storeVars>>

(* insert with an accessor: a new entry is locked as it is created, ... *)
InsertEntry(t) ==
    /\ pc[t] = "insert" /\ dictionary[Target(t)] = NoEntry
    /\ dictionary' = [dictionary EXCEPT ![Target(t)] = 0]
    /\ writer' = [writer EXCEPT ![Target(t)] = t]
    /\ creating' = [creating EXCEPT ![t] = @ \cup {side[t]}]
    /\ NextVertex(t)
    /\ UNCHANGED <<readers, call, id, tx, result, counterVars, boundVars, storeVars>>

\* Mutant: the thread that lost the race to insert the entry creates the vertex all the same.
LockEntryCreates(t) ==
    /\ pc[t] = "insert" /\ dictionary[Target(t)] # NoEntry
    /\ writer[Target(t)] = None /\ readers[Target(t)] = {}
    /\ writer' = [writer EXCEPT ![Target(t)] = t]
    /\ creating' = [creating EXCEPT ![t] = @ \cup {side[t]}]
    /\ NextVertex(t)
    /\ UNCHANGED <<dictionary, readers, call, id, tx, result, counterVars, boundVars, storeVars>>

(* ... the lock of one that exists in the meanwhile is waited for.         *)
LockEntry(t) ==
    /\ pc[t] = "insert" /\ dictionary[Target(t)] # NoEntry
    /\ writer[Target(t)] = None /\ readers[Target(t)] = {}
    /\ writer' = [writer EXCEPT ![Target(t)] = t]
    /\ id' = [id EXCEPT ![t][side[t]] = dictionary[Target(t)]]
    /\ IF call[t].op = "add_vertex" THEN pc' = [pc EXCEPT ![t] = "return"] /\ UNCHANGED side
                                    ELSE NextVertex(t)
    /\ UNCHANGED <<dictionary, readers, call, creating, tx, result, counterVars, boundVars, storeVars>>

-----------------------------------------------------------------------------
(* The transactions *)

Restricted(f, S) == Restrict(f, DOMAIN f \cap S)

(* get_edge(s, second, third): all edges are stored with label 1. *)
GetEdge(s, second, third) ==
    LET dst == IF GetEdgeDst = 2 THEN second ELSE third
        label == IF GetEdgeDst = 2 THEN third ELSE second
    IN  IF label = 1 /\ <<s, dst>> \in DOMAIN edgeData THEN {edgeData[<<s, dst>>]} ELSE {}

(* checked_put_edge: the edge is written; true if it did not exist.        *)
(* checked_delete_edge: true if it did.                                    *)
Exists(arc) == arc \in DOMAIN edgeData
Absent == -1

(* Whether checked_put_edge (expected FALSE) or checked_delete_edge (TRUE) *)
(* succeeded on the edge and then, if undirected, on the opposite one,     *)
(* which the transaction has just written if the edge is a loop.           *)
Succeeds(e, expected) ==
    /\ Exists(<<e.src, e.dst>>) = expected
    /\ m_is_directed \/ (e.src # e.dst /\ Exists(<<e.dst, e.src>>) = expected)

(* The arcs an update touches: the second one only if the first succeeded. *)
Arcs(e, succeeded) ==
    {<<e.src, e.dst>>} \cup IF ~ m_is_directed /\ succeeded THEN {<<e.dst, e.src>>} ELSE {}

(* new_vertex, for each endpoint to create, in the order of the code.      *)
Allocate(t) ==
    LET n == Len(vertexData)
    IN  [src |-> IF "src" \in creating[t] THEN n + 1 ELSE id[t].src,
         dst |-> IF "dst" \notin creating[t] THEN id[t].dst
                 ELSE IF "src" \in creating[t] THEN n + 2 ELSE n + 1]

(* The body writes weight w (Absent: deletes) to arcs. *)
Write(t, arcs, w) ==
    /\ tx' = [tx EXCEPT ![t] = [read |-> Restricted(edgeData, arcs), writes |-> [a \in arcs |-> w]]]
    /\ pc' = [pc EXCEPT ![t] = "commit"]

\* Mutant: add_edge does not look for the edge before it writes it.
BodyAddNoCheck(t) ==
    /\ pc[t] = "begin" /\ call[t].op = "add_edge"
    /\ Write(t, Arcs(id[t], TRUE), call[t].weight)
    /\ result' = [result EXCEPT ![t] = TRUE]
    /\ UNCHANGED <<call, side, id, creating, counterVars, boundVars, lockVars, storeVars>>

(* add_edge: abort and return false if the edge already exists, as it may  *)
(* do when a rollback made it try again.                                   *)
BodyAdd(t) ==
    /\ pc[t] = "begin" /\ call[t].op = "add_edge"
    /\ IF GetEdge(id[t].src, 1, id[t].dst) # {}
         THEN /\ pc' = [pc EXCEPT ![t] = "return"] /\ UNCHANGED tx
              /\ result' = [result EXCEPT ![t] = FALSE]
         ELSE /\ Write(t, Arcs(id[t], TRUE), call[t].weight)
              /\ result' = [result EXCEPT ![t] = TRUE]
    /\ UNCHANGED <<call, side, id, creating, counterVars, boundVars, lockVars, storeVars>>

(* add_edge_v2, add_edge_v3, update_edge_v1: create the vertices, then     *)
(* write the edge; update_edge_v1 first reads the weight it adds to.       *)
BodyUpsert(t) ==
    /\ pc[t] = "begin" /\ call[t].op \in Upserts
    /\ LET e == Allocate(t)
           fresh == ~ Exists(<<e.src, e.dst>>)
           old == IF call[t].op = "update_edge_v1" /\ creating[t] = {} THEN GetEdge(e.src, e.dst, 1) ELSE {}
       IN  /\ id' = [id EXCEPT ![t] = e]
           /\ vertexData' = vertexData \o [i \in 1 .. Cardinality(creating[t]) |-> None]
           /\ Write(t, Arcs(e, fresh), call[t].weight + IF old = {} THEN 0 ELSE CHOOSE w \in old : TRUE)
           /\ result' = [result EXCEPT ![t] = Succeeds(e, FALSE)]
    /\ UNCHANGED <<call, side, creating, edgeData, counterVars, boundVars, lockVars>>

(* add_vertex *)
BodyVertex(t) ==
    /\ pc[t] = "begin" /\ call[t].op = "add_vertex"
    /\ id' = [id EXCEPT ![t] = Allocate(t)]
    /\ vertexData' = Append(vertexData, None)
    /\ Write(t, {}, Absent)
    /\ result' = [result EXCEPT ![t] = TRUE]
    /\ UNCHANGED <<call, side, creating, edgeData, counterVars, boundVars, lockVars>>

\* Mutant: the edge is taken for removed whether it existed or not.
BodyRemoveUnchecked(t) ==
    /\ pc[t] = "begin" /\ call[t].op = "remove_edge"
    /\ Write(t, Arcs(id[t], TRUE), Absent)
    /\ result' = [result EXCEPT ![t] = TRUE]
    /\ UNCHANGED <<call, side, id, creating, counterVars, boundVars, lockVars, storeVars>>

(* remove_edge *)
BodyRemove(t) ==
    /\ pc[t] = "begin" /\ call[t].op = "remove_edge"
    /\ LET removed == Exists(<<id[t].src, id[t].dst>>)
       IN  /\ Write(t, Arcs(id[t], removed), Absent)
           /\ result' = [result EXCEPT ![t] = Succeeds(id[t], TRUE)]
    /\ UNCHANGED <<call, side, id, creating, counterVars, boundVars, lockVars, storeVars>>

(* get_weight, has_edge: a read-only transaction never aborts.  It calls   *)
(* get_edge_weight, another function of GTX than get_edge, which is taken  *)
(* to have the order of its arguments: source, destination, label.         *)
BodyRead(t) ==
    /\ pc[t] = "begin" /\ call[t].op = "get_weight"
    /\ result' = [result EXCEPT ![t] = Exists(<<id[t].src, id[t].dst>>)]
    /\ pc' = [pc EXCEPT ![t] = "return"]
    /\ UNCHANGED <<call, side, id, creating, tx, counterVars, boundVars, lockVars, storeVars>>

Conflict(t) == tx[t].read # Restricted(edgeData, DOMAIN tx[t].writes)

Commit(t) ==
    /\ pc[t] = "commit" /\ ~ Conflict(t)
    /\ LET w == tx[t].writes
           arcs == DOMAIN edgeData \cup DOMAIN w
           new == [a \in arcs |-> IF a \in DOMAIN w THEN w[a] ELSE edgeData[a]]
       IN  edgeData' = Restricted(new, {a \in arcs : new[a] # Absent})
    /\ vertexData' = [i \in DOMAIN vertexData |->
                        IF \E s \in creating[t] : i = id[t][s]
                        THEN call[t][CHOOSE s \in creating[t] : i = id[t][s]] ELSE vertexData[i]]
    /\ pc' = [pc EXCEPT ![t] = "return"]
    /\ UNCHANGED <<localVars, counterVars, boundVars, lockVars>>

(* RollbackExcept, or commit() returned false: try again.  add_vertex does *)
(* not look at what commit() returns: it writes no edge, hence has no      *)
(* conflict, and is only rolled back by the exception.                     *)
Rollback(t) ==
    /\ pc[t] = "commit" /\ (Conflict(t) \/ rollbacks < MaxRollbacks)
    /\ rollbacks' = IF Conflict(t) THEN rollbacks ELSE rollbacks + 1
    /\ pc' = [pc EXCEPT ![t] = "begin"]
    /\ UNCHANGED <<m_is_directed, calls, localVars, counterVars, lockVars, storeVars>>

-----------------------------------------------------------------------------
(* What the call answers: add_edge_v3 and update_edge_v1 always return     *)
(* true.                                                                   *)
Answer(t) == result[t] \/ call[t].op \in {"add_edge_v3", "update_edge_v1"}

\* Mutant: the exclusive locks are never released.
UnlockReaders(t) ==
    /\ readers' = [v \in Vertices |-> readers[v] \ {t}]
    /\ UNCHANGED writer

(* The accessors go out of scope. *)
Unlock(t) ==
    /\ readers' = [v \in Vertices |-> readers[v] \ {t}]
    /\ writer' = [v \in Vertices |-> IF writer[v] = t THEN None ELSE writer[v]]

EdgesDelta(t) ==
    IF ~ result[t] THEN 0
    ELSE IF call[t].op \in Upserts \cup {"add_edge"} THEN 1
    ELSE IF call[t].op = "remove_edge" THEN -1 ELSE 0

(* Count, set the new entries of the dictionary and release the locks: the *)
(* entries are still locked and no call reads the counters, so the order   *)
(* of these assignments is not observable, and they are one step.          *)
Return(t) ==
    /\ pc[t] = "return"
    /\ dictionary' = [v \in Vertices |-> IF \E s \in creating[t] : v = call[t][s]
                        THEN id[t][CHOOSE s \in creating[t] : v = call[t][s]] ELSE dictionary[v]]
    /\ m_num_vertices' = (m_num_vertices + Cardinality(creating[t])) % CounterMod
    /\ m_num_edges' = (m_num_edges + EdgesDelta(t)) % CounterMod
    /\ Unlock(t)
    /\ pc' = [pc EXCEPT ![t] = "idle"]
    /\ UNCHANGED <<localVars, removals, boundVars, storeVars>>

(* remove_vertex: GTX does not implement it. *)
RemoveVertex(t) ==
    /\ pc[t] = "idle" /\ calls < MaxCalls
    /\ calls' = calls + 1
    /\ m_num_vertices' = (m_num_vertices - 1) % CounterMod
    /\ removals' = removals + 1
    /\ UNCHANGED <<m_is_directed, rollbacks, m_num_edges, lockVars, storeVars, pc, localVars>>

Step(t) ==
    \/ Find(t) \/ NotFound(t) \/ InsertEntry(t) \/ LockEntry(t)
    \/ BodyAdd(t) \/ BodyUpsert(t) \/ BodyVertex(t) \/ BodyRemove(t) \/ BodyRead(t)
    \/ Commit(t) \/ Rollback(t) \/ Return(t)

(* The callers have made all their calls. *)
Finished == calls = MaxCalls /\ (\A t \in Threads : pc[t] = "idle") /\ UNCHANGED vars

Next ==
    \/ \E t \in Threads : (\E r \in Requests : Invoke(t, r)) \/ RemoveVertex(t) \/ Step(t)
    \/ Finished

Spec == Init /\ [][Next]_vars /\ \A t \in Threads : WF_vars(Step(t))

-----------------------------------------------------------------------------
Quiescent == \A t \in Threads : pc[t] = "idle"

(* The values of the variables. *)
TypeOK ==
    /\ m_is_directed \in BOOLEAN
    /\ m_num_vertices \in 0 .. CounterMod - 1 /\ m_num_edges \in 0 .. CounterMod - 1
    /\ dictionary \in [Vertices -> Nat \cup {NoEntry}]
    /\ readers \in [Vertices -> SUBSET Threads]
    /\ writer \in [Vertices -> Threads \cup {None}]
    /\ vertexData \in Seq(Vertices \cup {None})
    /\ DOMAIN edgeData \subseteq Nat \X Nat /\ edgeData \in [DOMAIN edgeData -> Nat]
    /\ pc \in [Threads -> {"idle", "find", "insert", "begin", "commit", "return"}]
    /\ call \in [Threads -> Requests]
    /\ side \in [Threads -> {"src", "dst"}]
    /\ id \in [Threads -> [src : Nat, dst : Nat]]
    /\ creating \in [Threads -> SUBSET {"src", "dst"}]
    /\ DOMAIN tx = Threads
    /\ \A t \in Threads : /\ DOMAIN tx[t].writes \subseteq Nat \X Nat
                          /\ tx[t].writes \in [DOMAIN tx[t].writes -> Nat \cup {Absent}]
    /\ result \in [Threads -> BOOLEAN]
    /\ removals \in Nat /\ calls \in 0 .. MaxCalls /\ rollbacks \in 0 .. MaxRollbacks

(* A thread that has the locks of both endpoints knows vertices that are   *)
(* committed in GTX, with the identifiers it was given, or creates them    *)
(* itself: nobody ever uses an entry of the dictionary not yet set.        *)
EndpointsResolved ==
    \A t \in Threads : pc[t] \in {"begin", "commit"} =>
        \A s \in (IF call[t].op = "add_vertex" THEN {"src"} ELSE {"src", "dst"}) \ creating[t] :
            id[t][s] \in DOMAIN vertexData /\ vertexData[id[t][s]] = call[t][s]

(* No vertex is created twice in GTX, however many threads insert its      *)
(* edges at the same time, whatever their transactions do.                 *)
OneVertexPerId ==
    \A i, j \in DOMAIN vertexData : vertexData[i] = vertexData[j] => i = j \/ vertexData[i] = None

(* Between the calls num_vertices and num_edges count what is stored (but  *)
(* for the calls of remove_vertex, that only touch the counter).           *)
CountersExact ==
    Quiescent =>
        /\ m_num_vertices =
              (Cardinality({v \in Vertices : dictionary[v] # NoEntry}) - removals) % CounterMod
        /\ Cardinality(DOMAIN edgeData) = IF m_is_directed THEN m_num_edges ELSE 2 * m_num_edges

(* The weight of an undirected edge is the same in both directions. *)
SymmetricWeights ==
    ~ m_is_directed =>
        \A a \in DOMAIN edgeData : Exists(<<a[2], a[1]>>) => edgeData[a] = edgeData[<<a[2], a[1]>>]

(* Seen through the external identifiers, and with a call taking effect    *)
(* when its transaction commits or when it finds that there is nothing to  *)
(* do, the driver implements the graph of GraphStore, with the answers     *)
(* that it says.  The weights are left out: the two directions of an edge  *)
(* may disagree on it, see SymmetricWeights.                               *)
External(a) == <<vertexData[a[1]], vertexData[a[2]]>>
Graph == INSTANCE GraphStore WITH
    directed <- m_is_directed,
    status <- [t \in Threads |-> IF pc[t] = "idle" THEN "idle"
                                  ELSE IF pc[t] = "return" THEN "done" ELSE "pending"],
    request <- call,
    answer <- [t \in Threads |-> pc[t] = "return" /\ Answer(t)],
    vertices <- {vertexData[i] : i \in DOMAIN vertexData} \ {None},
    edges <- {External(a) : a \in DOMAIN edgeData}
Linearizable == Graph!StoreSpec

(* Every call returns: no thread waits for ever for an entry of the        *)
(* dictionary, nor retries its transaction for ever.                       *)
CallsReturn == \A t \in Threads : pc[t] # "idle" ~> pc[t] = "idle"
=============================================================================
