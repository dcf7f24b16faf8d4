------------------------- MODULE GTXLinearizability -------------------------
(***************************************************************************)
(* Proof that GTXDriver implements GraphStore: the edges of GTX, seen      *)
(* through the external ids of their endpoints, are those of one graph on  *)
(* which every call takes effect at once.                                  *)
(***************************************************************************)
EXTENDS GTXDriverProofs

(* The arcs of the edge of a call. *)
Arc(t) == <<id[t].src, id[t].dst>>
Opposite(t) == <<id[t].dst, id[t].src>>
BothArcs(t) == {Arc(t)} \cup IF m_is_directed THEN {} ELSE {Opposite(t)}

(* Edges join visible vertices, ... *)
ArcsVisible ==
    \A a \in DOMAIN edgeData :
        /\ a[1] \in DOMAIN vertexData /\ vertexData[a[1]] # None
        /\ a[2] \in DOMAIN vertexData /\ vertexData[a[2]] # None

(* ... in both directions if the graph is undirected. *)
Symmetric == ~ m_is_directed => \A a \in DOMAIN edgeData : <<a[2], a[1]>> \in DOMAIN edgeData

(* A transaction about to commit has written the arcs of its edge: the     *)
(* opposite one only if the outcome of the first one called for it.  The   *)
(* result is about the arcs it has read.                                   *)
Transaction(t) ==
    LET R == DOMAIN tx[t].read
        W == DOMAIN tx[t].writes
    IN  pc[t] = "commit" =>
          /\ call[t].op # "get_weight"
          /\ call[t].op = "add_vertex" => W = {} /\ result[t] = TRUE
          /\ call[t].op = "add_edge" =>
                /\ W = Arcs(id[t], TRUE) /\ result[t] = TRUE
                /\ GetEdgeDst = 3 => Arc(t) \notin R
          /\ call[t].op \in Upserts =>
                /\ W = Arcs(id[t], Arc(t) \notin R)
                /\ result[t] <=> Arc(t) \notin R
                                 /\ (m_is_directed \/ (id[t].src # id[t].dst /\ Opposite(t) \notin R))
          /\ call[t].op = "remove_edge" =>
                /\ W = Arcs(id[t], Arc(t) \in R)
                /\ result[t] <=> Arc(t) \in R
                                 /\ (m_is_directed \/ (id[t].src # id[t].dst /\ Opposite(t) \in R))
          /\ \A a \in W : tx[t].writes[a] = Absent <=> call[t].op = "remove_edge"

EdgeInv == ArcsVisible /\ Symmetric /\ \A t \in Threads : Transaction(t)

-----------------------------------------------------------------------------
(* A step of thread t that does not commit keeps the edges, and the        *)
(* transactions of the other threads.                                      *)
LEMMA SameEdges ==
    ASSUME EdgeInv, NEW t \in Threads, Transaction(t)', Grows, UNCHANGED <<edgeData, m_is_directed>>,
           \A u \in Threads : u # t =>
               /\ pc'[u] = pc[u] /\ call'[u] = call[u] /\ id'[u] = id[u] /\ tx'[u] = tx[u]
               /\ result'[u] = result[u]
    PROVE  EdgeInv'
<1>1. ArcsVisible' /\ Symmetric'
  BY DEF EdgeInv, ArcsVisible, Symmetric, Grows
<1>2. ASSUME NEW u \in Threads, u # t PROVE Transaction(u)'
  <2>1. Transaction(u) /\ pc'[u] = pc[u] /\ call'[u] = call[u] /\ id'[u] = id[u] /\ tx'[u] = tx[u]
        /\ result'[u] = result[u]
    BY <1>2 DEF EdgeInv
  <2>. QED
    BY <2>1 DEF Transaction, Arc, Opposite, Arcs
<1>. QED
  BY <1>1, <1>2 DEF EdgeInv

(* An empty graph has no arcs, and no transaction is open. *)
LEMMA InitEdgeInv == Init => EdgeInv
  BY DEF Init, EdgeInv, ArcsVisible, Symmetric, Transaction

(* Before and after the transaction. *)
LEMMA LocalEdgeInv ==
    ASSUME DictInv, EdgeInv, NEW t \in Threads,
           \/ \E r \in Requests : Invoke(t, r)
           \/ Find(t) \/ NotFound(t) \/ InsertEntry(t) \/ LockEntry(t) \/ BodyRead(t) \/ Rollback(t)
           \/ Return(t) \/ RemoveVertex(t)
    PROVE  EdgeInv'
<1> USE DEF storeVars, lockVars, localVars, boundVars
<1>1. UNCHANGED <<edgeData, vertexData, m_is_directed, tx>>
  BY DEF Invoke, Find, NotFound, InsertEntry, LockEntry, BodyRead, Rollback, Return, RemoveVertex
<1>2. Grows
  BY <1>1 DEF Grows
<1>3. /\ \A u \in Threads : u # t => /\ pc'[u] = pc[u] /\ call'[u] = call[u] /\ id'[u] = id[u]
                                     /\ result'[u] = result[u]
      /\ pc'[t] # "commit"
  <2>1. CASE \E r \in Requests : Invoke(t, r)
    BY <2>1 DEF Invoke, DictInv, TypeOK
  <2>2. CASE Find(t) \/ InsertEntry(t)
    <3>1. NextVertex(t)
      BY <2>2 DEF Find, InsertEntry
    <3>2. pc'[t] # "commit" /\ \A u \in Threads : u # t => pc'[u] = pc[u]
      BY <3>1, NextVertexStep DEF DictInv
    <3>3. UNCHANGED <<call, result>> /\ \A u \in Threads : u # t => id'[u] = id[u]
      BY <2>2 DEF Find, InsertEntry, DictInv, TypeOK
    <3>. QED
      BY <3>2, <3>3
  <2>3. CASE LockEntry(t)
    <3>1. pc'[t] # "commit" /\ \A u \in Threads : u # t => pc'[u] = pc[u]
      <4>1. CASE call[t].op = "add_vertex"
        BY <2>3, <4>1 DEF LockEntry, DictInv, TypeOK
      <4>2. CASE call[t].op # "add_vertex"
        BY <2>3, <4>2, NextVertexStep DEF LockEntry, DictInv
      <4>. QED
        BY <4>1, <4>2
    <3>2. UNCHANGED <<call, result>> /\ \A u \in Threads : u # t => id'[u] = id[u]
      BY <2>3 DEF LockEntry, DictInv, TypeOK
    <3>. QED
      BY <3>1, <3>2
  <2>4. CASE NotFound(t) \/ BodyRead(t)
    BY <2>4 DEF NotFound, BodyRead, DictInv, TypeOK
  <2>5. CASE Rollback(t) \/ Return(t) \/ RemoveVertex(t)
    BY <2>5 DEF Rollback, Return, RemoveVertex, DictInv, TypeOK
  <2>. QED
    BY <2>1, <2>2, <2>3, <2>4, <2>5
<1>4. Transaction(t)'
  BY <1>3 DEF Transaction
<1>. QED
  BY <1>1, <1>2, <1>3, <1>4, SameEdges

(* What a transaction reads and writes. *)
LEMMA WriteSets ==
    ASSUME TypeOK, NEW t \in Threads, NEW arcs, arcs \subseteq Nat \X Nat, NEW w \in Nat \cup {Absent},
           Write(t, arcs, w)
    PROVE  /\ DOMAIN tx'[t].writes = arcs /\ DOMAIN tx'[t].read = DOMAIN edgeData \cap arcs
           /\ \A a \in arcs : tx'[t].writes[a] = w
           /\ pc'[t] = "commit"
           /\ \A u \in Threads : u # t => tx'[u] = tx[u] /\ pc'[u] = pc[u]
<1>1. /\ tx'[t] = [read |-> Restricted(edgeData, arcs), writes |-> [a \in arcs |-> w]]
      /\ pc'[t] = "commit"
      /\ \A u \in Threads : u # t => tx'[u] = tx[u] /\ pc'[u] = pc[u]
  BY WriteType
<1>2. tx'[t].writes = [a \in arcs |-> w] /\ tx'[t].read = Restricted(edgeData, arcs)
  BY <1>1
<1>3. DOMAIN tx'[t].read = DOMAIN edgeData \cap arcs
  BY <1>2 DEF Restricted, Restrict
<1>. QED
  BY <1>1, <1>2, <1>3

(* add_edge writes both arcs of a new edge, or nothing at all. *)
LEMMA BodyAddEdgeInv ==
    ASSUME DictInv, EdgeInv, NEW t \in Threads, BodyAdd(t)
    PROVE  EdgeInv'
<1> USE DEF boundVars, storeVars
<1>1. UNCHANGED <<call, id, edgeData, vertexData, m_is_directed>> /\ call[t].op = "add_edge"
  BY DEF BodyAdd
<1>2. Grows
  BY <1>1 DEF Grows
<1>3. CASE GetEdge(id[t].src, 1, id[t].dst) # {}
  <2>1. pc' = [pc EXCEPT ![t] = "return"] /\ result' = [result EXCEPT ![t] = FALSE] /\ UNCHANGED tx
    BY <1>3 DEF BodyAdd
  <2>2. /\ \A u \in Threads : u # t => pc'[u] = pc[u] /\ result'[u] = result[u]
        /\ pc'[t] = "return"
    BY <2>1 DEF DictInv, TypeOK
  <2>3. Transaction(t)'
    BY <2>2 DEF Transaction
  <2>. QED
    BY <1>1, <1>2, <2>1, <2>2, <2>3, SameEdges
<1>4. CASE GetEdge(id[t].src, 1, id[t].dst) = {}
  <2>1. Write(t, Arcs(id[t], TRUE), call[t].weight) /\ result' = [result EXCEPT ![t] = TRUE]
    BY <1>4 DEF BodyAdd
  <2>2. /\ Arcs(id[t], TRUE) \subseteq Nat \X Nat
        /\ call[t].weight \in Nat \cup {Absent} /\ call[t].weight # Absent
    <3>1. call[t].weight \in Nat
      BY CallType DEF DictInv
    <3>2. id[t] \in [src : Nat, dst : Nat]
      BY DEF DictInv, TypeOK
    <3>3. Arcs(id[t], TRUE) \subseteq Nat \X Nat
      BY <3>2, ArcsType, Zenon
    <3>4. call[t].weight \in Nat \cup {Absent} /\ call[t].weight # Absent
      BY <3>1 DEF Absent
    <3>. QED
      BY <3>3, <3>4, Zenon
  <2>3. /\ DOMAIN tx'[t].writes = Arcs(id[t], TRUE)
        /\ DOMAIN tx'[t].read = DOMAIN edgeData \cap Arcs(id[t], TRUE)
        /\ \A a \in Arcs(id[t], TRUE) : tx'[t].writes[a] = call[t].weight
        /\ pc'[t] = "commit"
        /\ \A u \in Threads : u # t => tx'[u] = tx[u] /\ pc'[u] = pc[u]
    <3> DEFINE arcs == Arcs(id[t], TRUE)
    <3>1. arcs \subseteq Nat \X Nat /\ Write(t, arcs, call[t].weight)
      BY <2>1, <2>2
    <3> HIDE DEF arcs
    <3>2. /\ DOMAIN tx'[t].writes = arcs /\ DOMAIN tx'[t].read = DOMAIN edgeData \cap arcs
          /\ \A a \in arcs : tx'[t].writes[a] = call[t].weight
          /\ pc'[t] = "commit"
          /\ \A u \in Threads : u # t => tx'[u] = tx[u] /\ pc'[u] = pc[u]
      BY <3>1, <2>2, WriteSets DEF DictInv
    <3>. QED
      BY <3>2 DEF arcs
  <2>4. result'[t] = TRUE /\ \A u \in Threads : u # t => result'[u] = result[u]
    BY <2>1 DEF DictInv, TypeOK
  <2>5. GetEdgeDst = 3 => Arc(t) \notin DOMAIN edgeData
    BY <1>4 DEF GetEdge, Arc
  <2>6. Transaction(t)'
    <3>1. \A a \in DOMAIN tx'[t].writes : tx'[t].writes[a] # Absent
      BY <2>2, <2>3
    <3>2. Arcs(id[t], TRUE)' = Arcs(id[t], TRUE) /\ Arc(t)' = Arc(t)
      BY <1>1 DEF Arcs, Arc
    <3>. QED
      BY <1>1, <2>3, <2>4, <2>5, <3>1, <3>2 DEF Transaction, Upserts
  <2>. QED
    BY <1>1, <1>2, <2>3, <2>4, <2>6, SameEdges
<1>. QED
  BY <1>3, <1>4

(* remove_edge deletes both arcs of a stored edge, or nothing at all. *)
LEMMA BodyRemoveEdgeInv ==
    ASSUME DictInv, EdgeInv, NEW t \in Threads, BodyRemove(t)
    PROVE  EdgeInv'
<1> USE DEF boundVars, storeVars
<1> DEFINE removed == Arc(t) \in DOMAIN edgeData
<1> DEFINE arcs == Arcs(id[t], removed)
<1>1. UNCHANGED <<call, id, edgeData, vertexData, m_is_directed>> /\ call[t].op = "remove_edge"
  BY DEF BodyRemove
<1>2. Grows
  BY <1>1 DEF Grows
<1>3. Write(t, arcs, Absent) /\ result' = [result EXCEPT ![t] = Succeeds(id[t], TRUE)]
  BY DEF BodyRemove, Exists, Arc
<1>4. arcs \subseteq Nat \X Nat
  BY ArcsType DEF DictInv, TypeOK
<1>5. /\ DOMAIN tx'[t].writes = arcs /\ DOMAIN tx'[t].read = DOMAIN edgeData \cap arcs
      /\ \A a \in arcs : tx'[t].writes[a] = Absent
      /\ pc'[t] = "commit"
      /\ \A u \in Threads : u # t => tx'[u] = tx[u] /\ pc'[u] = pc[u]
  BY <1>3, <1>4, WriteSets DEF DictInv
<1>6. result'[t] = Succeeds(id[t], TRUE) /\ \A u \in Threads : u # t => result'[u] = result[u]
  BY <1>3 DEF DictInv, TypeOK
<1>7. Transaction(t)'
  <2>1. Arc(t) \in arcs /\ (~ m_is_directed /\ removed => Opposite(t) \in arcs)
    BY DEF Arcs, Arc, Opposite
  <2>2. removed <=> Arc(t) \in DOMAIN tx'[t].read
    BY <1>5, <2>1
  <2>3. result'[t] <=> Arc(t) \in DOMAIN tx'[t].read
           /\ (m_is_directed \/ (id[t].src # id[t].dst /\ Opposite(t) \in DOMAIN tx'[t].read))
    BY <1>5, <1>6, <2>1, <2>2 DEF Succeeds, Exists, Arc, Opposite
  <2>4. /\ Arc(t)' = Arc(t) /\ Opposite(t)' = Opposite(t)
        /\ Arcs(id[t], Arc(t) \in DOMAIN tx[t].read)' = arcs
    BY <1>1, <2>2 DEF Arcs, Arc, Opposite
  <2>. QED
    BY <1>1, <1>5, <2>3, <2>4 DEF Transaction, Upserts
<1>. QED
  BY <1>1, <1>2, <1>5, <1>6, <1>7, SameEdges

(* add_vertex writes no arcs. *)
LEMMA BodyVertexEdgeInv ==
    ASSUME DictInv, EdgeInv, NEW t \in Threads, BodyVertex(t)
    PROVE  EdgeInv'
<1>1. /\ UNCHANGED <<call, edgeData, m_is_directed>> /\ call[t].op = "add_vertex"
      /\ Write(t, {}, Absent) /\ result' = [result EXCEPT ![t] = TRUE]
      /\ id' = [id EXCEPT ![t] = Allocate(t)] /\ vertexData' = Append(vertexData, None)
  BY DEF BodyVertex, boundVars
<1>2. Grows
  BY <1>1 DEF Grows, DictInv, TypeOK
<1>3. /\ DOMAIN tx'[t].writes = {} /\ pc'[t] = "commit"
      /\ \A u \in Threads : u # t => tx'[u] = tx[u] /\ pc'[u] = pc[u]
  BY <1>1, WriteSets DEF DictInv
<1>4. /\ result'[t] = TRUE /\ \A u \in Threads : u # t => result'[u] = result[u] /\ id'[u] = id[u]
  BY <1>1 DEF DictInv, TypeOK
<1>5. Transaction(t)'
  BY <1>1, <1>3, <1>4 DEF Transaction, Upserts
<1>. QED
  BY <1>1, <1>2, <1>3, <1>4, <1>5, SameEdges

(* The calls that insert or overwrite write the second arc of a new edge too. *)
LEMMA BodyUpsertEdgeInv ==
    ASSUME DictInv, EdgeInv, NEW t \in Threads, BodyUpsert(t)
    PROVE  EdgeInv'
<1> DEFINE e == Allocate(t)
<1> DEFINE fresh == ~ Exists(<<e.src, e.dst>>)
<1> DEFINE old == IF call[t].op = "update_edge_v1" /\ creating[t] = {} THEN GetEdge(e.src, e.dst, 1) ELSE {}
<1> DEFINE w == call[t].weight + IF old = {} THEN 0 ELSE CHOOSE x \in old : TRUE
<1> DEFINE arcs == Arcs(e, fresh)
<1>1. /\ UNCHANGED <<call, edgeData, m_is_directed>> /\ call[t].op \in Upserts
      /\ id' = [id EXCEPT ![t] = e]
      /\ vertexData' = vertexData \o [i \in 1 .. Cardinality(creating[t]) |-> None]
      /\ Write(t, arcs, w) /\ result' = [result EXCEPT ![t] = Succeeds(e, FALSE)]
  BY DEF BodyUpsert, boundVars
<1>2. Cardinality(creating[t]) \in Nat /\ e \in [src : Nat, dst : Nat]
  BY AllocateIds DEF DictInv
<1>3. Grows
  <2> DEFINE new == [i \in 1 .. Cardinality(creating[t]) |-> None]
  <2>1. new \in Seq(Vertices \cup {None}) /\ Len(new) = Cardinality(creating[t])
    BY <1>2
  <2>2. vertexData \in Seq(Vertices \cup {None})
    BY DEF DictInv, TypeOK
  <2> HIDE DEF new
  <2>3. /\ vertexData' \in Seq(Vertices \cup {None})
        /\ Len(vertexData') = Len(vertexData) + Cardinality(creating[t])
        /\ \A i \in 1 .. Len(vertexData) : vertexData'[i] = vertexData[i]
    BY <2>1, <2>2, <1>1, <1>2, ConcatProperties DEF new
  <2>. QED
    BY <2>2, <2>3, <1>2 DEF Grows
<1>4. w \in Nat \cup {Absent} /\ w # Absent
  <2>1. old = {} \/ (CHOOSE x \in old : TRUE) \in Nat
    BY OldWeight DEF DictInv
  <2>2. call[t].weight \in Nat
    BY CallType DEF DictInv
  <2> HIDE DEF old
  <2>3. w \in Nat
    BY <2>1, <2>2
  <2> HIDE DEF w
  <2>. QED
    BY <2>3 DEF Absent
<1>5. arcs \subseteq Nat \X Nat
  BY <1>2, ArcsType
<1> HIDE DEF w
<1>6. /\ DOMAIN tx'[t].writes = arcs /\ DOMAIN tx'[t].read = DOMAIN edgeData \cap arcs
      /\ \A a \in arcs : tx'[t].writes[a] = w
      /\ pc'[t] = "commit"
      /\ \A u \in Threads : u # t => tx'[u] = tx[u] /\ pc'[u] = pc[u]
  <2> HIDE DEF arcs
  <2>. QED
    BY <1>1, <1>4, <1>5, WriteSets DEF DictInv
<1>7. /\ result'[t] = Succeeds(e, FALSE) /\ id'[t] = e
      /\ \A u \in Threads : u # t => result'[u] = result[u] /\ id'[u] = id[u]
  BY <1>1 DEF DictInv, TypeOK
<1>8. Transaction(t)'
  <2> HIDE DEF e
  <2>1. Arc(t)' = <<e.src, e.dst>> /\ Opposite(t)' = <<e.dst, e.src>>
    BY <1>7 DEF Arc, Opposite
  <2>2. Arc(t)' \in arcs /\ (~ m_is_directed /\ fresh => Opposite(t)' \in arcs)
    BY <2>1 DEF Arcs
  <2>3. fresh <=> Arc(t)' \notin DOMAIN tx'[t].read
    BY <1>6, <2>1, <2>2 DEF Exists
  <2>4. result'[t] <=> Arc(t)' \notin DOMAIN tx'[t].read
           /\ (m_is_directed \/ (e.src # e.dst /\ Opposite(t)' \notin DOMAIN tx'[t].read))
    BY <1>6, <1>7, <2>1, <2>2, <2>3 DEF Succeeds, Exists
  <2>5. Arcs(id[t], Arc(t) \notin DOMAIN tx[t].read)' = arcs
    BY <1>1, <1>7, <2>3 DEF Arcs
  <2> HIDE DEF arcs, fresh
  <2>. QED
    BY <1>1, <1>4, <1>6, <1>7, <2>1, <2>4, <2>5 DEF Transaction, Upserts
<1>. QED
  BY <1>1, <1>3, <1>6, <1>7, <1>8, SameEdges
-----------------------------------------------------------------------------
(* A commit finds the arcs that it has read as they were. *)
LEMMA CommitReads ==
    ASSUME NEW t \in Threads, Commit(t)
    PROVE  DOMAIN tx[t].read = DOMAIN edgeData \cap DOMAIN tx[t].writes
<1>1. tx[t].read = Restricted(edgeData, DOMAIN tx[t].writes)
  BY DEF Commit, Conflict
<1>. QED
  BY <1>1 DEF Restricted, Restrict

(* Hence it adds or removes the edge of its call in both directions, or    *)
(* in the only one of a directed graph.                                    *)
LEMMA CommitEdges ==
    ASSUME DictInv, EdgeInv, NEW t \in Threads, Commit(t)
    PROVE  /\ call[t].op \in Upserts \cup {"add_vertex", "add_edge", "remove_edge"}
           /\ call[t].op = "add_vertex" => DOMAIN edgeData' = DOMAIN edgeData
           /\ call[t].op \in Upserts \cup {"add_edge"} => DOMAIN edgeData' = DOMAIN edgeData \cup BothArcs(t)
           /\ call[t].op = "remove_edge" => DOMAIN edgeData' = DOMAIN edgeData \ BothArcs(t)
<1> DEFINE R == DOMAIN tx[t].read
<1> DEFINE W == DOMAIN tx[t].writes
<1> DEFINE D == DOMAIN edgeData
<1>1. /\ R = D \cap W
      /\ DOMAIN edgeData' = {a \in D \cup W : a \in W => tx[t].writes[a] # Absent}
  BY CommitReads, CommitArcs DEF DictInv
<1>2. Transaction(t) /\ pc[t] = "commit"
  BY DEF EdgeInv, Commit
<1>3. call[t].op \in Upserts \cup {"add_vertex", "add_edge", "remove_edge"}
  BY <1>2, CallType DEF DictInv, Transaction
<1>4. ~ m_is_directed => (Arc(t) \in D <=> Opposite(t) \in D)
  BY DEF EdgeInv, Symmetric, Arc, Opposite
<1>5. Arc(t) \in W \/ call[t].op = "add_vertex"
  BY <1>2, <1>3 DEF Transaction, Arcs, Arc
<1>6. CASE call[t].op = "add_vertex"
  <2>1. W = {}
    BY <1>2, <1>6 DEF Transaction
  <2>. QED
    BY <1>1, <1>6, <2>1 DEF Upserts
<1>7. CASE call[t].op = "add_edge"
  <2>1. W = BothArcs(t) /\ \A a \in W : tx[t].writes[a] # Absent
    BY <1>2, <1>7 DEF Transaction, Arcs, Arc, Opposite, BothArcs
  <2>. QED
    BY <1>1, <1>7, <2>1 DEF Upserts
<1>8. CASE call[t].op \in Upserts
  <2>1. /\ W = {Arc(t)} \cup IF ~ m_is_directed /\ Arc(t) \notin R THEN {Opposite(t)} ELSE {}
        /\ \A a \in W : tx[t].writes[a] # Absent
    BY <1>2, <1>8 DEF Transaction, Arcs, Arc, Opposite, Upserts
  <2>2. DOMAIN edgeData' = D \cup W
    BY <1>1, <2>1
  <2>3. D \cup W = D \cup BothArcs(t)
    BY <1>1, <1>4, <2>1 DEF BothArcs
  <2>. QED
    BY <1>3, <1>8, <2>2, <2>3 DEF Upserts
<1>9. CASE call[t].op = "remove_edge"
  <2>1. /\ W = {Arc(t)} \cup IF ~ m_is_directed /\ Arc(t) \in R THEN {Opposite(t)} ELSE {}
        /\ \A a \in W : tx[t].writes[a] = Absent
    BY <1>2, <1>9 DEF Transaction, Arcs, Arc, Opposite
  <2>2. DOMAIN edgeData' = D \ W
    BY <1>1, <2>1
  <2>3. D \ W = D \ BothArcs(t)
    BY <1>1, <1>4, <2>1 DEF BothArcs
  <2>. QED
    BY <1>3, <1>9, <2>2, <2>3 DEF Upserts
<1>. QED
  BY <1>3, <1>6, <1>7, <1>8, <1>9

(* The endpoints of the edge are visible once it is committed. *)
LEMMA CommitEndpoints ==
    ASSUME DictInv, NEW t \in Threads, Commit(t)
    PROVE  \A s \in Found(t) : /\ id[t][s] \in DOMAIN vertexData' /\ vertexData'[id[t][s]] = call[t][s]
                               /\ call[t][s] \in Vertices /\ call[t][s] # None
<1> SUFFICES ASSUME NEW s \in Found(t)
             PROVE  /\ id[t][s] \in DOMAIN vertexData' /\ vertexData'[id[t][s]] = call[t][s]
                    /\ call[t][s] \in Vertices /\ call[t][s] # None
  OBVIOUS
<1>1. Thread(t) /\ pc[t] = "commit"
  BY DEF DictInv, Commit
<1>2. s \in {"src", "dst"} /\ call[t][s] \in Vertices /\ call[t][s] # None
  <2>1. s \in {"src", "dst"}
    BY <1>1 DEF Found
  <2>. QED
    BY <2>1, CallType DEF DictInv
<1>3. CASE s \in creating[t]
  BY <1>1, <1>2, <1>3, CommitVertices DEF Thread, Created, Committed
<1>4. CASE s \notin creating[t]
  BY <1>1, <1>2, <1>4, CommitVertices DEF Thread, Resolved, Committed, Grows
<1>. QED
  BY <1>3, <1>4

(* A commit installs whole edges, between vertices that are committed. *)
LEMMA CommitEdgeInv ==
    ASSUME DictInv, EdgeInv, NEW t \in Threads, Commit(t)
    PROVE  EdgeInv'
<1> USE DEF localVars, boundVars
<1>1. /\ UNCHANGED <<localVars, m_is_directed>> /\ pc'[t] = "return"
      /\ \A u \in Threads : u # t => pc'[u] = pc[u]
  BY DEF Commit, DictInv, TypeOK
<1>2. \A u \in Threads : Transaction(u)'
  <2> SUFFICES ASSUME NEW u \in Threads PROVE Transaction(u)'
    OBVIOUS
  <2>1. CASE u = t
    BY <1>1, <2>1 DEF Transaction
  <2>2. CASE u # t
    <3>1. Transaction(u) /\ pc'[u] = pc[u]
      BY <1>1, <2>2 DEF EdgeInv
    <3>. QED
      BY <1>1, <3>1 DEF Transaction, Arc, Opposite, Arcs
  <2>. QED
    BY <2>1, <2>2
<1>3. \/ DOMAIN edgeData' = DOMAIN edgeData
      \/ DOMAIN edgeData' = DOMAIN edgeData \ BothArcs(t)
      \/ DOMAIN edgeData' = DOMAIN edgeData \cup BothArcs(t) /\ call[t].op # "add_vertex"
  BY CommitEdges DEF Upserts
<1>4. Symmetric'
  <2>1. ~ m_is_directed => \A a \in Nat \X Nat : a \in BothArcs(t) <=> <<a[2], a[1]>> \in BothArcs(t)
    BY DEF BothArcs, Arc, Opposite
  <2>2. DOMAIN edgeData \subseteq Nat \X Nat /\ BothArcs(t) \subseteq Nat \X Nat
    BY DEF DictInv, TypeOK, BothArcs, Arc, Opposite
  <2>3. ASSUME ~ m_is_directed, NEW a \in DOMAIN edgeData'
        PROVE  <<a[2], a[1]>> \in DOMAIN edgeData'
    <3>1. a \in Nat \X Nat
      BY <1>3, <2>2
    <3>2. a \in DOMAIN edgeData => <<a[2], a[1]>> \in DOMAIN edgeData
      BY <2>3 DEF EdgeInv, Symmetric
    <3>3. a \in BothArcs(t) <=> <<a[2], a[1]>> \in BothArcs(t)
      BY <2>1, <2>3, <3>1
    <3>. QED
      BY <1>3, <2>3, <3>2, <3>3
  <2>. QED
    BY <1>1, <2>3 DEF Symmetric
<1>5. ArcsVisible'
  <2>1. ASSUME NEW a \in DOMAIN edgeData
        PROVE  /\ a[1] \in DOMAIN vertexData' /\ vertexData'[a[1]] # None
               /\ a[2] \in DOMAIN vertexData' /\ vertexData'[a[2]] # None
    BY CommitVertices DEF EdgeInv, ArcsVisible, Grows
  <2>2. ASSUME NEW a \in BothArcs(t), call[t].op # "add_vertex"
        PROVE  /\ a[1] \in DOMAIN vertexData' /\ vertexData'[a[1]] # None
               /\ a[2] \in DOMAIN vertexData' /\ vertexData'[a[2]] # None
    <3>1. Found(t) = {"src", "dst"}
      BY <2>2 DEF Found, Commit
    <3>2. /\ id[t].src \in DOMAIN vertexData' /\ vertexData'[id[t].src] # None
          /\ id[t].dst \in DOMAIN vertexData' /\ vertexData'[id[t].dst] # None
      BY <3>1, CommitEndpoints
    <3>3. a = <<id[t].src, id[t].dst>> \/ a = <<id[t].dst, id[t].src>>
      BY DEF BothArcs, Arc, Opposite
    <3>. QED
      BY <3>2, <3>3
  <2>. QED
    BY <1>3, <2>1, <2>2 DEF ArcsVisible
<1>. QED
  BY <1>2, <1>4, <1>5 DEF EdgeInv

(* Every step keeps what is known of the edges. *)
LEMMA NextEdgeInv == DictInv /\ EdgeInv /\ [Next]_vars => EdgeInv'
<1> SUFFICES ASSUME DictInv, EdgeInv, [Next]_vars PROVE EdgeInv'
  OBVIOUS
<1>1. CASE UNCHANGED vars
  <2>1. ArcsVisible' /\ Symmetric'
    BY <1>1 DEF vars, EdgeInv, ArcsVisible, Symmetric
  <2>2. \A t \in Threads : Transaction(t)'
    BY <1>1 DEF vars, EdgeInv, Transaction, Arc, Opposite, Arcs
  <2>. QED
    BY <2>1, <2>2 DEF EdgeInv
<1>2. ASSUME NEW t \in Threads, (\E r \in Requests : Invoke(t, r)) \/ RemoveVertex(t)
      PROVE  EdgeInv'
  BY <1>2, LocalEdgeInv
<1>3. ASSUME NEW t \in Threads, Step(t) PROVE EdgeInv'
  BY <1>3, LocalEdgeInv, BodyAddEdgeInv, BodyRemoveEdgeInv, BodyVertexEdgeInv, BodyUpsertEdgeInv,
     CommitEdgeInv DEF Step
<1>. QED
  BY <1>1, <1>2, <1>3 DEF Next, Finished

(* The edges of GTX always join visible vertices, in both directions if    *)
(* the graph is undirected: no reader of the graph can meet an edge whose  *)
(* endpoint has no external id, or an undirected edge stored only once.    *)
THEOREM EdgeInvariance == Spec => [](DictInv /\ EdgeInv)
<1>1. Init => DictInv /\ EdgeInv
  BY InitDictInv, InitEdgeInv
<1>2. DictInv /\ EdgeInv /\ [Next]_vars => (DictInv /\ EdgeInv)'
  BY NextDictInv, NextEdgeInv
<1>. QED
  BY <1>1, <1>2, PTL DEF Spec
-----------------------------------------------------------------------------
(* The graph that the callers see *)

Visible == {vertexData[i] : i \in DOMAIN vertexData} \ {None}
Edges == {External(a) : a \in DOMAIN edgeData}
Ends(r) == {<<r.src, r.dst>>} \cup IF m_is_directed THEN {} ELSE {<<r.dst, r.src>>}

(* An edge is visible if and only if the arc between the internal vertices *)
(* of its endpoints is stored.                                             *)
LEMMA ExternalArc ==
    ASSUME DictInv, EdgeInv, NEW i \in DOMAIN vertexData, NEW j \in DOMAIN vertexData,
           vertexData[i] # None, vertexData[j] # None
    PROVE  <<vertexData[i], vertexData[j]>> \in Edges <=> <<i, j>> \in DOMAIN edgeData
<1>1. ASSUME NEW a \in DOMAIN edgeData, External(a) = <<vertexData[i], vertexData[j]>>
      PROVE  a = <<i, j>>
  <2>1. /\ a \in Nat \X Nat /\ a[1] \in DOMAIN vertexData /\ a[2] \in DOMAIN vertexData
        /\ vertexData[a[1]] = vertexData[i] /\ vertexData[a[2]] = vertexData[j]
    BY <1>1 DEF DictInv, TypeOK, EdgeInv, ArcsVisible, External
  <2>2. a[1] = i /\ a[2] = j
    BY <2>1, VertexUnique
  <2>. QED
    BY <2>1, <2>2
<1>2. External(<<i, j>>) = <<vertexData[i], vertexData[j]>>
  BY DEF External
<1>. QED
  BY <1>1, <1>2 DEF Edges

(* A vertex with no entry in the dictionary is not visible, nor are its    *)
(* edges.                                                                  *)
LEMMA NoEntryNotVisible ==
    ASSUME DictInv, NEW v \in Vertices, dictionary[v] = NoEntry
    PROVE  v \notin Visible
<1> SUFFICES ASSUME NEW i \in DOMAIN vertexData, vertexData[i] = v PROVE FALSE
  BY DEF Visible
<1>1. v # None /\ i \in Nat
  BY DriverAssumption, StoreType DEF DictInv
<1>2. dictionary[v] # i
  BY <1>1 DEF NoEntry
<1>3. PICK u \in Threads : pc[u] = "return" /\ \E s \in creating[u] : call[u][s] = v
  BY <1>1, <1>2 DEF DictInv, Store
<1>4. dictionary[v] = 0
  BY <1>3 DEF DictInv, Thread, Creating
<1>. QED
  BY <1>4 DEF NoEntry

(* The edges of the abstract graph join its vertices. *)
LEMMA EdgesJoinVisible ==
    ASSUME EdgeInv, NEW u, NEW v, <<u, v>> \in Edges
    PROVE  u \in Visible /\ v \in Visible
  BY DEF EdgeInv, ArcsVisible, Edges, External, Visible

(* Neither is a vertex before its creator commits. *)
LEMMA CreatedNotVisible ==
    ASSUME DictInv, NEW t \in Threads, pc[t] = "commit", NEW s \in creating[t]
    PROVE  call[t][s] \notin Visible
<1> SUFFICES ASSUME NEW i \in DOMAIN vertexData, vertexData[i] = call[t][s] PROVE FALSE
  BY DEF Visible
<1>1. /\ call[t][s] # None /\ i \in Nat \ {0} /\ dictionary[call[t][s]] = 0
      /\ writer[call[t][s]] = t
  BY CallType, StoreType DEF DictInv, Thread, Creating
<1>2. PICK u \in Threads : pc[u] = "return" /\ \E r \in creating[u] : call[u][r] = call[t][s]
  BY <1>1 DEF DictInv, Store
<1>3. writer[call[t][s]] = u
  BY <1>2 DEF DictInv, Thread, Creating
<1>. QED
  BY <1>1, <1>2, <1>3

(* The vertices after a commit. *)
LEMMA CommitVisible ==
    ASSUME DictInv, NEW t \in Threads, Commit(t)
    PROVE  Visible' = Visible \cup {call[t][s] : s \in Found(t)}
<1>1. /\ DOMAIN vertexData' = DOMAIN vertexData
      /\ \A s \in creating[t] : vertexData'[id[t][s]] = call[t][s]
      /\ \A i \in DOMAIN vertexData :
            (\A s \in creating[t] : i # id[t][s]) => vertexData'[i] = vertexData[i]
      /\ \A i \in DOMAIN vertexData : vertexData[i] # None => vertexData'[i] = vertexData[i]
  BY CommitVertices DEF Grows
<1>2. \A s \in Found(t) : /\ id[t][s] \in DOMAIN vertexData' /\ vertexData'[id[t][s]] = call[t][s]
                          /\ call[t][s] # None
  BY CommitEndpoints
<1>3. creating[t] \subseteq Found(t)
  BY DEF DictInv, Thread, Phase, Commit
<1>4. Visible' \subseteq Visible \cup {call[t][s] : s \in Found(t)}
  <2> SUFFICES ASSUME NEW i \in DOMAIN vertexData, vertexData'[i] # None
               PROVE  vertexData'[i] \in Visible \cup {call[t][s] : s \in Found(t)}
    BY <1>1 DEF Visible
  <2>1. CASE \E s \in creating[t] : i = id[t][s]
    BY <2>1, <1>1, <1>3
  <2>2. CASE \A s \in creating[t] : i # id[t][s]
    BY <2>2, <1>1 DEF Visible
  <2>. QED
    BY <2>1, <2>2
<1>5. Visible \subseteq Visible'
  <2> SUFFICES ASSUME NEW i \in DOMAIN vertexData, vertexData[i] # None
               PROVE  vertexData[i] \in Visible'
    BY DEF Visible
  <2>1. vertexData'[i] = vertexData[i] /\ i \in DOMAIN vertexData'
    BY <1>1
  <2>. QED
    BY <2>1 DEF Visible
<1>6. {call[t][s] : s \in Found(t)} \subseteq Visible'
  BY <1>2 DEF Visible
<1>. QED
  BY <1>4, <1>5, <1>6

(* The edge of the call is visible if and only if its arc is stored, also  *)
(* when its endpoints are not visible yet.                                 *)
LEMMA CommitStored ==
    ASSUME DictInv, EdgeInv, NEW t \in Threads, pc[t] = "commit", call[t].op # "add_vertex"
    PROVE  <<call[t].src, call[t].dst>> \in Edges <=> Arc(t) \in DOMAIN edgeData
<1>1. CASE creating[t] = {}
  <2>1. /\ Committed(id[t].src, call[t].src) /\ Committed(id[t].dst, call[t].dst)
        /\ call[t].src # None /\ call[t].dst # None
    BY <1>1, CallType DEF DictInv, Thread, Resolved, Found
  <2>. QED
    BY <2>1, ExternalArc DEF Committed, Arc
<1>2. CASE creating[t] # {}
  <2>1. PICK s \in creating[t] : s \in {"src", "dst"} /\ Committed(id[t][s], None)
    BY <1>2 DEF DictInv, TypeOK, Thread, Created
  <2>2. <<call[t].src, call[t].dst>> \notin Edges
    BY <2>1, CreatedNotVisible, EdgesJoinVisible
  <2>3. Arc(t) \notin DOMAIN edgeData
    BY <2>1 DEF EdgeInv, ArcsVisible, Arc, Committed
  <2>. QED
    BY <2>2, <2>3
<1>. QED
  BY <1>1, <1>2

(* The edges after a commit. *)
LEMMA CommitVisibleEdges ==
    ASSUME DictInv, EdgeInv, NEW t \in Threads, Commit(t)
    PROVE  /\ call[t].op = "add_vertex" => Edges' = Edges
           /\ call[t].op \in Upserts \cup {"add_edge"} => Edges' = Edges \cup Ends(call[t])
           /\ call[t].op = "remove_edge" => Edges' = Edges \ Ends(call[t])
<1>1. \A a \in DOMAIN edgeData : External(a)' = External(a)
  BY CommitVertices DEF Grows, EdgeInv, ArcsVisible, External
<1>2. CASE call[t].op = "add_vertex"
  <2>1. DOMAIN edgeData' = DOMAIN edgeData
    BY <1>2, CommitEdges
  <2>. QED
    BY <1>1, <1>2, <2>1 DEF Edges, Upserts
<1>3. ASSUME call[t].op # "add_vertex"
      PROVE  /\ id[t].src \in DOMAIN vertexData' /\ vertexData'[id[t].src] = call[t].src
             /\ id[t].dst \in DOMAIN vertexData' /\ vertexData'[id[t].dst] = call[t].dst
             /\ call[t].src # None /\ call[t].dst # None
  <2>1. Found(t) = {"src", "dst"}
    BY <1>3 DEF Found, Commit
  <2>. QED
    BY <2>1, CommitEndpoints
<1>4. CASE call[t].op \in Upserts \cup {"add_edge"}
  <2>1. DOMAIN edgeData' = DOMAIN edgeData \cup BothArcs(t) /\ call[t].op # "add_vertex"
    BY <1>4, CommitEdges DEF Upserts
  <2>2. {External(a)' : a \in BothArcs(t)} = Ends(call[t])
    <3>1. /\ vertexData'[Arc(t)[1]] = call[t].src /\ vertexData'[Arc(t)[2]] = call[t].dst
          /\ vertexData'[Opposite(t)[1]] = call[t].dst /\ vertexData'[Opposite(t)[2]] = call[t].src
      BY <1>3, <2>1 DEF Arc, Opposite
    <3>. QED
      BY <3>1 DEF BothArcs, Ends, External
  <2>3. Edges' = {External(a)' : a \in DOMAIN edgeData'}
    BY DEF Edges
  <2>. QED
    BY <1>1, <1>4, <2>1, <2>2, <2>3 DEF Edges, Upserts
<1>5. CASE call[t].op = "remove_edge"
  <2>1. DOMAIN edgeData' = DOMAIN edgeData \ BothArcs(t) /\ call[t].op # "add_vertex"
    BY <1>5, CommitEdges
  <2>2. Edges' = {External(a) : a \in DOMAIN edgeData \ BothArcs(t)}
    BY <1>1, <2>1 DEF Edges
  <2>3. creating[t] = {} /\ pc[t] = "commit"
    BY <1>5 DEF DictInv, Thread, Phase, Upserts, Commit
  <2>4. /\ Committed(id[t].src, call[t].src) /\ Committed(id[t].dst, call[t].dst)
        /\ call[t].src # None /\ call[t].dst # None
    BY <1>5, <2>3, CallType DEF DictInv, Thread, Resolved, Found
  <2>5. ASSUME NEW a \in DOMAIN edgeData
        PROVE  a \in BothArcs(t) <=> External(a) \in Ends(call[t])
    <3>1. /\ a \in Nat \X Nat /\ a = <<a[1], a[2]>>
          /\ a[1] \in DOMAIN vertexData /\ a[2] \in DOMAIN vertexData
          /\ vertexData[a[1]] # None /\ vertexData[a[2]] # None
      BY DEF DictInv, TypeOK, EdgeInv, ArcsVisible
    <3>2. /\ vertexData[a[1]] = call[t].src <=> a[1] = id[t].src
          /\ vertexData[a[2]] = call[t].dst <=> a[2] = id[t].dst
          /\ vertexData[a[1]] = call[t].dst <=> a[1] = id[t].dst
          /\ vertexData[a[2]] = call[t].src <=> a[2] = id[t].src
      BY <2>4, <3>1, VertexUnique DEF Committed
    <3>. QED
      BY <3>1, <3>2 DEF BothArcs, Arc, Opposite, Ends, External
  <2>. QED
    BY <1>5, <2>2, <2>5 DEF Edges, Upserts
<1>. QED
  BY <1>2, <1>4, <1>5, CommitEdges
-----------------------------------------------------------------------------
(* What a commit does is what the call promises.  The two hypotheses are   *)
(* the ones of the theorem below.                                          *)

(* The calls whose answer is that of the second of two updates, which      *)
(* fails on an undirected loop because the first one has just been made.   *)
NoLoops == \A r \in Requests : r.op \in {"add_edge_v2", "remove_edge"} => r.src # r.dst

(* What a transaction answers when it commits. *)
LEMMA CommitAnswer ==
    ASSUME DictInv, EdgeInv, NEW t \in Threads, Commit(t)
    PROVE  /\ call[t].op \in {"add_vertex", "add_edge"} => result[t] = TRUE
           /\ call[t].op = "add_edge" /\ GetEdgeDst = 3 => Arc(t) \notin DOMAIN edgeData
           /\ call[t].op \in Upserts /\ call[t].src # call[t].dst =>
                 (result[t] <=> Arc(t) \notin DOMAIN edgeData)
           /\ call[t].op = "remove_edge" /\ call[t].src # call[t].dst =>
                 (result[t] <=> Arc(t) \in DOMAIN edgeData)
<1> DEFINE R == DOMAIN tx[t].read
<1> DEFINE W == DOMAIN tx[t].writes
<1> DEFINE D == DOMAIN edgeData
<1>1. R = D \cap W
  BY CommitReads
<1>2. Transaction(t) /\ pc[t] = "commit"
  BY DEF EdgeInv, Commit
<1>3. ~ m_is_directed => (Arc(t) \in D <=> Opposite(t) \in D)
  BY DEF EdgeInv, Symmetric, Arc, Opposite
<1>4. ASSUME call[t].op # "add_vertex", call[t].src # call[t].dst PROVE id[t].src # id[t].dst
  <2>1. Found(t) = {"src", "dst"}
    BY <1>2, <1>4 DEF Found
  <2>2. vertexData'[id[t].src] = call[t].src /\ vertexData'[id[t].dst] = call[t].dst
    BY <2>1, CommitEndpoints
  <2>. QED
    BY <1>4, <2>2
<1>5. call[t].op \in {"add_vertex", "add_edge"} => result[t] = TRUE
  BY <1>2 DEF Transaction
<1>6. call[t].op = "add_edge" /\ GetEdgeDst = 3 => Arc(t) \notin D
  <2>1. call[t].op = "add_edge" /\ GetEdgeDst = 3 => Arc(t) \in W /\ Arc(t) \notin R
    BY <1>2 DEF Transaction, Arcs, Arc
  <2>. QED
    BY <1>1, <2>1
<1>7. ASSUME call[t].op \in Upserts, call[t].src # call[t].dst PROVE result[t] <=> Arc(t) \notin D
  <2>1. id[t].src # id[t].dst
    BY <1>4, <1>7 DEF Upserts
  <2>2. /\ W = {Arc(t)} \cup IF ~ m_is_directed /\ Arc(t) \notin R THEN {Opposite(t)} ELSE {}
        /\ result[t] <=> Arc(t) \notin R /\ (m_is_directed \/ Opposite(t) \notin R)
    BY <1>2, <1>7, <2>1 DEF Transaction, Arcs, Arc, Opposite, Upserts
  <2>. QED
    BY <1>1, <1>3, <2>2
<1>8. ASSUME call[t].op = "remove_edge", call[t].src # call[t].dst PROVE result[t] <=> Arc(t) \in D
  <2>1. id[t].src # id[t].dst
    BY <1>4, <1>8
  <2>2. /\ W = {Arc(t)} \cup IF ~ m_is_directed /\ Arc(t) \in R THEN {Opposite(t)} ELSE {}
        /\ result[t] <=> Arc(t) \in R /\ (m_is_directed \/ Opposite(t) \in R)
    BY <1>2, <1>8, <2>1 DEF Transaction, Arcs, Arc, Opposite
  <2>. QED
    BY <1>1, <1>3, <2>2
<1>. QED
  BY <1>5, <1>6, <1>7, <1>8

(* A commit is the operation of its call on the abstract graph. *)
LEMMA CommitPerforms ==
    ASSUME DictInv, EdgeInv, NoLoops, GetEdgeDst = 3, NEW t \in Threads, Commit(t),
           NEW b \in BOOLEAN, b <=> Answer(t)
    PROVE  Graph!Perform(call[t], b)
<1> DEFINE r == call[t]
<1>1. /\ Found(t) = IF r.op = "add_vertex" THEN {"src"} ELSE {"src", "dst"}
      /\ pc[t] = "commit" /\ Thread(t)
  BY DEF Found, Commit, DictInv
<1>2. Visible' = Visible \cup (IF r.op = "add_vertex" THEN {r.src} ELSE {r.src, r.dst})
  <2>1. Visible' = Visible \cup {r[s] : s \in Found(t)}
    BY CommitVisible
  <2>2. {r[s] : s \in Found(t)} = IF r.op = "add_vertex" THEN {r.src} ELSE {r.src, r.dst}
    BY <1>1
  <2>. QED
    BY <2>1, <2>2
<1>3. r.op # "add_vertex" => (<<r.src, r.dst>> \in Edges <=> Arc(t) \in DOMAIN edgeData)
  BY <1>1, CommitStored
<1>4. r.op \in {"add_edge", "remove_edge"} => r.src \in Visible /\ r.dst \in Visible
  <2>1. ASSUME r.op \in {"add_edge", "remove_edge"} PROVE r.src \in Visible /\ r.dst \in Visible
    <3>1. creating[t] = {}
      BY <1>1, <2>1 DEF Thread, Phase, Upserts
    <3>2. /\ Committed(id[t].src, r.src) /\ Committed(id[t].dst, r.dst) /\ r.src # None /\ r.dst # None
      BY <1>1, <2>1, <3>1, CallType DEF DictInv, Thread, Resolved
    <3>. QED
      BY <3>2 DEF Committed, Visible
  <2>. QED
    BY <2>1
<1>0. r.op \in {"add_edge_v2", "remove_edge"} => r.src # r.dst
  BY CallType DEF NoLoops, DictInv
<1>5. CASE r.op = "add_vertex"
  <2>1. r.src \notin Visible
    BY <1>1, <1>5, CreatedNotVisible DEF Thread, Phase
  <2>2. Edges' = Edges /\ b = TRUE
    BY <1>5, CommitVisibleEdges, CommitAnswer DEF Answer
  <2>. QED
    BY <1>2, <1>5, <2>1, <2>2 DEF Graph!Perform, Visible, Edges
<1>6. CASE r.op = "add_edge"
  <2>1. Edges' = Edges \cup Ends(r) /\ b = TRUE /\ <<r.src, r.dst>> \notin Edges
    BY <1>3, <1>6, CommitVisibleEdges, CommitAnswer DEF Answer
  <2>. QED
    BY <1>2, <1>4, <1>6, <2>1
       DEF Graph!Perform, Graph!Stored, Graph!Insert, Graph!Arcs, Visible, Edges, Ends
<1>7. CASE r.op = "add_edge_v2"
  <2>1. Edges' = Edges \cup Ends(r) /\ (b <=> <<r.src, r.dst>> \notin Edges)
    BY <1>0, <1>3, <1>7, CommitVisibleEdges, CommitAnswer DEF Answer, Upserts
  <2>2. b = (<<r.src, r.dst>> \notin Edges)
    BY <2>1
  <2>. QED
    BY <1>2, <1>7, <2>1, <2>2
       DEF Graph!Perform, Graph!Stored, Graph!Insert, Graph!Arcs, Visible, Edges, Ends
<1>8. CASE r.op \in {"add_edge_v3", "update_edge_v1"}
  <2>1. Edges' = Edges \cup Ends(r) /\ b = TRUE
    BY <1>8, CommitVisibleEdges DEF Answer, Upserts
  <2>. QED
    BY <1>2, <1>8, <2>1
       DEF Graph!Perform, Graph!Stored, Graph!Insert, Graph!Arcs, Visible, Edges, Ends
<1>9. CASE r.op = "remove_edge"
  <2>1. Edges' = Edges \ Ends(r) /\ (b <=> <<r.src, r.dst>> \in Edges)
    BY <1>0, <1>3, <1>9, CommitVisibleEdges, CommitAnswer DEF Answer
  <2>2. Visible' = Visible
    BY <1>2, <1>4, <1>9
  <2>3. b = (<<r.src, r.dst>> \in Edges)
    BY <2>1
  <2>. QED
    BY <1>9, <2>1, <2>2, <2>3 DEF Graph!Perform, Graph!Stored, Graph!Arcs, Visible, Edges, Ends
<1>. QED
  BY <1>5, <1>6, <1>7, <1>8, <1>9, CommitEdges DEF Upserts
-----------------------------------------------------------------------------
(* The steps of the driver as steps of the graph *)

(* Where a thread is, for its caller, and the answer it gets. *)
Status(t) == IF pc[t] = "idle" THEN "idle" ELSE IF pc[t] = "return" THEN "done" ELSE "pending"
Reply(t) == pc[t] = "return" /\ Answer(t)

(* A step takes effect when it performs the call of its thread. *)
LEMMA EffectStep ==
    ASSUME NEW t \in Threads, NEW b \in BOOLEAN, Status(t) = "pending", Status(t)' = "done",
           \A u \in Threads : u # t => Status(u)' = Status(u) /\ Reply(u)' = Reply(u),
           Reply(t)' = b, UNCHANGED <<m_is_directed, call>>, Graph!Perform(call[t], b)
    PROVE  Graph!Effect(t)
<1> DEFINE st == [u \in Threads |-> Status(u)]
<1> DEFINE an == [u \in Threads |-> Reply(u)]
<1>1. st[t] = "pending" /\ st' = [st EXCEPT ![t] = "done"]
  OBVIOUS
<1>2. an' = [an EXCEPT ![t] = b]
  OBVIOUS
<1>. QED
  BY <1>1, <1>2 DEF Graph!Effect, Status, Reply

(* A step is invisible when it changes nothing that a caller sees. *)
LEMMA StutterStep ==
    ASSUME \A u \in Threads : Status(u)' = Status(u) /\ Reply(u)' = Reply(u),
           UNCHANGED <<m_is_directed, call>>, Visible' = Visible, Edges' = Edges
    PROVE  UNCHANGED Graph!storeVars
<1>1. [u \in Threads |-> Status(u)]' = [u \in Threads |-> Status(u)]
  OBVIOUS
<1>2. [u \in Threads |-> Reply(u)]' = [u \in Threads |-> Reply(u)]
  OBVIOUS
<1>. QED
  BY <1>1, <1>2 DEF Graph!storeVars, Status, Reply, Visible, Edges

(* A step of thread t, for the callers of the other threads. *)
Moves(t) ==
    /\ UNCHANGED <<m_is_directed, call>>
    /\ \A u \in Threads : u # t => pc'[u] = pc[u] /\ result'[u] = result[u]

(* The step of a thread does not change the status of the others. *)
LEMMA MovesOthers ==
    ASSUME NEW t \in Threads, Moves(t), NEW u \in Threads, u # t
    PROVE  Status(u)' = Status(u) /\ Reply(u)' = Reply(u)
<1>1. pc'[u] = pc[u] /\ result'[u] = result[u] /\ call' = call
  BY DEF Moves
<1>2. Status(u)' = Status(u)
  BY <1>1 DEF Status
<1>3. Answer(u)' = Answer(u)
  BY <1>1 DEF Answer
<1>4. Reply(u)' = Reply(u)
  BY <1>1, <1>3 DEF Reply
<1>. QED
  BY <1>2, <1>4

(* A call that is done answers what it has performed, ... *)
LEMMA DoneStep ==
    ASSUME NEW t \in Threads, NEW b \in BOOLEAN, Moves(t),
           pc[t] \in {"find", "insert", "begin", "commit"}, pc'[t] = "return", Answer(t)' <=> b,
           Graph!Perform(call[t], b)
    PROVE  Graph!Effect(t)
<1>1. Status(t) = "pending" /\ Status(t)' = "done"
  BY DEF Status
<1>2. Reply(t)' = b
  BY DEF Reply, Answer
<1>3. \A u \in Threads : u # t => Status(u)' = Status(u) /\ Reply(u)' = Reply(u)
  BY MovesOthers
<1>. QED
  BY <1>1, <1>2, <1>3, EffectStep DEF Moves

(* ... and one that is not done is not visible. *)
LEMMA PendingStep ==
    ASSUME NEW t \in Threads, Moves(t),
           pc[t] \in {"find", "insert", "begin", "commit"},
           pc'[t] \in {"find", "insert", "begin", "commit"},
           Visible' = Visible, Edges' = Edges
    PROVE  UNCHANGED Graph!storeVars
<1>1. Status(t)' = Status(t) /\ Reply(t)' = Reply(t)
  BY DEF Status, Reply
<1>. QED
  BY <1>1, MovesOthers, StutterStep DEF Moves

(* The graph is the same when GTX is, ... *)
LEMMA SameGraph ==
    ASSUME UNCHANGED <<vertexData, edgeData>>
    PROVE  Visible' = Visible /\ Edges' = Edges
  BY DEF Visible, Edges, External

(* ... and when a transaction has added vertices that are not committed.   *)
LEMMA UncommittedGraph ==
    ASSUME DictInv, EdgeInv, Grows, UNCHANGED edgeData,
           \A i \in DOMAIN vertexData' : i \notin DOMAIN vertexData => vertexData'[i] = None,
           \A i \in DOMAIN vertexData : vertexData'[i] = vertexData[i]
    PROVE  Visible' = Visible /\ Edges' = Edges
<1>1. Visible' = Visible
  BY DEF Visible, Grows
<1>2. \A a \in DOMAIN edgeData : External(a)' = External(a)
  BY DEF External, EdgeInv, ArcsVisible
<1>. QED
  BY <1>1, <1>2 DEF Edges

-----------------------------------------------------------------------------
(* What the calls promise when they have nothing to do. *)
LEMMA NothingToDo ==
    ASSUME NEW t \in Threads, NEW b \in BOOLEAN, Visible' = Visible, Edges' = Edges,
           \/ call[t].op = "add_vertex" /\ ~ b /\ call[t].src \in Visible
           \/ /\ call[t].op = "add_edge" /\ ~ b
              /\ call[t].src \notin Visible \/ call[t].dst \notin Visible \/ <<call[t].src, call[t].dst>> \in Edges
           \/ /\ call[t].op = "remove_edge" /\ ~ b
              /\ <<call[t].src, call[t].dst>> \notin Edges /\ <<call[t].dst, call[t].src>> \notin Edges
           \/ call[t].op = "get_weight" /\ (b <=> <<call[t].src, call[t].dst>> \in Edges)
    PROVE  Graph!Perform(call[t], b)
<1>1. CASE call[t].op = "add_vertex" /\ ~ b /\ call[t].src \in Visible
  <2>1. b = (call[t].src \notin Visible) /\ Visible' = Visible \cup {call[t].src}
    BY <1>1
  <2>. QED
    BY <1>1, <2>1 DEF Graph!Perform, Visible, Edges
<1>2. CASE /\ call[t].op = "add_edge" /\ ~ b
           /\ call[t].src \notin Visible \/ call[t].dst \notin Visible \/ <<call[t].src, call[t].dst>> \in Edges
  <2>1. b = ({call[t].src, call[t].dst} \subseteq Visible /\ ~ <<call[t].src, call[t].dst>> \in Edges)
    BY <1>2
  <2>. QED
    BY <1>2, <2>1 DEF Graph!Perform, Graph!Stored, Visible, Edges
<1>3. CASE /\ call[t].op = "remove_edge" /\ ~ b
           /\ <<call[t].src, call[t].dst>> \notin Edges /\ <<call[t].dst, call[t].src>> \notin Edges
  <2>1. b = (<<call[t].src, call[t].dst>> \in Edges) /\ Edges' = Edges \ Graph!Arcs(call[t])
    BY <1>3 DEF Graph!Arcs
  <2>. QED
    BY <1>3, <2>1 DEF Graph!Perform, Graph!Stored, Visible, Edges
<1>4. CASE call[t].op = "get_weight" /\ (b <=> <<call[t].src, call[t].dst>> \in Edges)
  <2>1. b = (<<call[t].src, call[t].dst>> \in Edges)
    BY <1>4
  <2>. QED
    BY <1>4, <2>1 DEF Graph!Perform, Graph!Stored, Visible, Edges
<1>. QED
  BY <1>1, <1>2, <1>3, <1>4

(* A call that does not find the entry of an endpoint answers no. *)
LEMMA NotFoundStep ==
    ASSUME DictInv, EdgeInv, NEW t \in Threads, NotFound(t)
    PROVE  Graph!Effect(t) \/ UNCHANGED Graph!storeVars
<1> DEFINE r == call[t]
<1>1. /\ pc'[t] = (IF r.op \in Upserts THEN "insert" ELSE "return") /\ pc[t] = "find" /\ Moves(t)
      /\ UNCHANGED <<result, vertexData, edgeData, call>>
  BY DEF NotFound, Moves, DictInv, TypeOK, localVars, boundVars, storeVars
<1>2. Visible' = Visible /\ Edges' = Edges
  BY <1>1, SameGraph
<1>3. CASE r.op \in Upserts
  BY <1>1, <1>2, <1>3, PendingStep
<1>4. CASE r.op \notin Upserts
  <2>1. r.op \in {"add_edge", "remove_edge", "get_weight"} /\ result[t] = FALSE
    BY <1>1, <1>4, CallType DEF DictInv, Thread, Phase
  <2>2. r.src \notin Visible \/ r.dst \notin Visible
    <3>1. side[t] \in {"src", "dst"} /\ Target(t) \in Vertices /\ Target(t) = r[side[t]]
      BY CallType DEF DictInv, Target
    <3>2. Target(t) \notin Visible
      BY <3>1, NoEntryNotVisible DEF NotFound
    <3>. QED
      BY <3>1, <3>2
  <2>3. <<r.src, r.dst>> \notin Edges /\ <<r.dst, r.src>> \notin Edges
    BY <2>2, EdgesJoinVisible
  <2>4. ~ Answer(t)'
    BY <1>1, <2>1 DEF Answer
  <2>5. PICK b \in BOOLEAN : ~ b
    OBVIOUS
  <2>6. Graph!Perform(call[t], b)
    BY <1>2, <2>1, <2>2, <2>3, <2>5, NothingToDo
  <2>. QED
    BY <1>1, <1>4, <2>4, <2>5, <2>6, DoneStep
<1>. QED
  BY <1>3, <1>4

(* A call that finds the entry of an endpoint goes on, but for add_vertex, *)
(* which answers no.                                                       *)
LEMMA EntryStep ==
    ASSUME DictInv, EdgeInv, NEW t \in Threads, Find(t) \/ InsertEntry(t) \/ LockEntry(t)
    PROVE  Graph!Effect(t) \/ UNCHANGED Graph!storeVars
<1>1. /\ UNCHANGED <<m_is_directed, call, result, vertexData, edgeData>> /\ pc[t] \in {"find", "insert"}
  BY DEF Find, InsertEntry, LockEntry, storeVars, boundVars
<1>2. Visible' = Visible /\ Edges' = Edges
  BY <1>1, SameGraph
<1>3. CASE NextVertex(t)
  <2>1. pc'[t] \in {"find", "begin"} /\ Moves(t)
    BY <1>1, <1>3, NextVertexStep DEF Moves, DictInv
  <2>. QED
    BY <1>1, <1>2, <2>1, PendingStep
<1>4. CASE ~ NextVertex(t)
  <2>1. LockEntry(t) /\ call[t].op = "add_vertex" /\ pc' = [pc EXCEPT ![t] = "return"]
    BY <1>4 DEF Find, InsertEntry, LockEntry
  <2>2. pc'[t] = "return" /\ Moves(t)
    BY <1>1, <2>1 DEF Moves, DictInv, TypeOK
  <2>3. result[t] = FALSE /\ side[t] = "src"
    BY <1>1, <2>1 DEF DictInv, Thread, Phase
  <2>4. call[t].src \in Vertices /\ call[t].src # None /\ Target(t) = call[t].src
    BY <2>3, CallType DEF DictInv, Target
  <2>5. Committed(dictionary[call[t].src], call[t].src)
    BY <2>1, <2>4, UnlockedEntry DEF DictInv, LockEntry
  <2>6. call[t].src \in Visible
    BY <2>4, <2>5 DEF Committed, Visible
  <2>7. ~ Answer(t)'
    BY <1>1, <2>1, <2>3 DEF Answer
  <2>8. PICK b \in BOOLEAN : ~ b
    OBVIOUS
  <2>9. Graph!Perform(call[t], b)
    BY <1>2, <2>1, <2>6, <2>8, NothingToDo
  <2>. QED
    BY <1>1, <2>2, <2>7, <2>8, <2>9, DoneStep
<1>. QED
  BY <1>3, <1>4

(* The edge of a thread about to read it is visible if its arc is stored.  *)
LEMMA BeginStored ==
    ASSUME DictInv, EdgeInv, NEW t \in Threads, pc[t] = "begin", call[t].op \in {"add_edge", "get_weight"}
    PROVE  <<call[t].src, call[t].dst>> \in Edges <=> Arc(t) \in DOMAIN edgeData
<1>1. creating[t] = {} /\ Found(t) = {"src", "dst"}
  BY DEF DictInv, Thread, Phase, Found, Upserts
<1>2. /\ Committed(id[t].src, call[t].src) /\ Committed(id[t].dst, call[t].dst)
      /\ call[t].src # None /\ call[t].dst # None
  BY <1>1, CallType DEF DictInv, Thread, Resolved
<1>. QED
  BY <1>2, ExternalArc DEF Committed, Arc

(* add_edge answers no if the edge exists. *)
LEMMA BodyAddStep ==
    ASSUME DictInv, EdgeInv, GetEdgeDst = 3, NEW t \in Threads, BodyAdd(t)
    PROVE  Graph!Effect(t) \/ UNCHANGED Graph!storeVars
<1>1. /\ UNCHANGED <<m_is_directed, call, vertexData, edgeData>> /\ pc[t] = "begin"
      /\ call[t].op = "add_edge"
  BY DEF BodyAdd, storeVars, boundVars
<1>2. Visible' = Visible /\ Edges' = Edges
  BY <1>1, SameGraph
<1>3. CASE GetEdge(id[t].src, 1, id[t].dst) # {}
  <2>1. pc' = [pc EXCEPT ![t] = "return"] /\ result' = [result EXCEPT ![t] = FALSE]
    BY <1>3 DEF BodyAdd
  <2>2. pc'[t] = "return" /\ Moves(t) /\ result'[t] = FALSE
    BY <1>1, <2>1 DEF Moves, DictInv, TypeOK
  <2>3. Arc(t) \in DOMAIN edgeData
    BY <1>3 DEF GetEdge, Arc
  <2>4. <<call[t].src, call[t].dst>> \in Edges
    BY <1>1, <2>3, BeginStored
  <2>5. ~ Answer(t)'
    BY <1>1, <2>2 DEF Answer
  <2>6. PICK b \in BOOLEAN : ~ b
    OBVIOUS
  <2>7. Graph!Perform(call[t], b)
    BY <1>1, <1>2, <2>4, <2>6, NothingToDo
  <2>. QED
    BY <1>1, <2>2, <2>5, <2>6, <2>7, DoneStep
<1>4. CASE GetEdge(id[t].src, 1, id[t].dst) = {}
  <2>1. pc' = [pc EXCEPT ![t] = "commit"] /\ result' = [result EXCEPT ![t] = TRUE]
    BY <1>4 DEF BodyAdd, Write
  <2>2. pc'[t] = "commit" /\ Moves(t)
    BY <1>1, <2>1 DEF Moves, DictInv, TypeOK
  <2>. QED
    BY <1>1, <1>2, <2>2, PendingStep
<1>. QED
  BY <1>3, <1>4

(* get_weight answers for the edge it reads. *)
LEMMA BodyReadStep ==
    ASSUME DictInv, EdgeInv, NEW t \in Threads, BodyRead(t)
    PROVE  Graph!Effect(t)
<1>0. PICK b \in BOOLEAN : b <=> Arc(t) \in DOMAIN edgeData
  OBVIOUS
<1>1. /\ UNCHANGED <<m_is_directed, call, vertexData, edgeData>> /\ pc[t] = "begin"
      /\ call[t].op = "get_weight" /\ pc' = [pc EXCEPT ![t] = "return"]
      /\ result' = [result EXCEPT ![t] = b]
  BY <1>0 DEF BodyRead, storeVars, boundVars, Exists, Arc
<1>2. Visible' = Visible /\ Edges' = Edges
  BY <1>1, SameGraph
<1>3. pc'[t] = "return" /\ Moves(t) /\ result'[t] = b
  BY <1>1 DEF Moves, DictInv, TypeOK
<1>4. Answer(t)' <=> b
  BY <1>1, <1>3 DEF Answer
<1>5. b <=> <<call[t].src, call[t].dst>> \in Edges
  BY <1>0, <1>1, BeginStored
<1>6. Graph!Perform(call[t], b)
  BY <1>1, <1>2, <1>5, NothingToDo
<1>. QED
  BY <1>1, <1>3, <1>4, <1>6, DoneStep

(* The other transactions are not visible until they commit. *)
LEMMA BodyStep ==
    ASSUME DictInv, EdgeInv, NEW t \in Threads, BodyUpsert(t) \/ BodyVertex(t) \/ BodyRemove(t)
    PROVE  UNCHANGED Graph!storeVars
<1>1. /\ UNCHANGED <<m_is_directed, call, edgeData>> /\ pc[t] = "begin"
      /\ pc' = [pc EXCEPT ![t] = "commit"] /\ \E b : result' = [result EXCEPT ![t] = b]
  BY DEF BodyUpsert, BodyVertex, BodyRemove, Write, storeVars, boundVars
<1>2. pc'[t] = "commit" /\ Moves(t)
  BY <1>1 DEF Moves, DictInv, TypeOK
<1>3. vertexData \in Seq(Vertices \cup {None})
  BY DEF DictInv, TypeOK
<1>4. \E n \in Nat : vertexData' = vertexData \o [i \in 1 .. n |-> None]
  <2>1. CASE BodyUpsert(t)
    BY <2>1, AllocateIds DEF BodyUpsert, DictInv
  <2>2. CASE BodyVertex(t)
    <3>1. vertexData' = Append(vertexData, None)
      BY <2>2 DEF BodyVertex
    <3>2. Append(vertexData, None) = vertexData \o [i \in 1 .. 1 |-> None]
      BY <1>3
    <3>. QED
      BY <3>1, <3>2
  <2>3. CASE BodyRemove(t)
    <3>1. vertexData' = vertexData \o [i \in 1 .. 0 |-> None]
      BY <2>3, <1>3 DEF BodyRemove, storeVars
    <3>. QED
      BY <3>1
  <2>. QED
    BY <2>1, <2>2, <2>3
<1>5. PICK n \in Nat : vertexData' = vertexData \o [i \in 1 .. n |-> None]
  BY <1>4
<1> DEFINE new == [i \in 1 .. n |-> None]
<1>6. /\ Grows
      /\ \A i \in DOMAIN vertexData' : i \notin DOMAIN vertexData => vertexData'[i] = None
      /\ \A i \in DOMAIN vertexData : vertexData'[i] = vertexData[i]
  <2>1. new \in Seq(Vertices \cup {None}) /\ Len(new) = n /\ \A i \in 1 .. n : new[i] = None
    OBVIOUS
  <2>2. vertexData' = vertexData \o new
    BY <1>5
  <2> HIDE DEF new
  <2>3. /\ vertexData' \in Seq(Vertices \cup {None}) /\ Len(vertexData') = Len(vertexData) + n
        /\ \A i \in 1 .. Len(vertexData) + n :
              vertexData'[i] = IF i <= Len(vertexData) THEN vertexData[i] ELSE new[i - Len(vertexData)]
    BY <1>3, <2>1, <2>2, ConcatProperties
  <2>4. Len(vertexData) \in Nat /\ DOMAIN vertexData = 1 .. Len(vertexData)
        /\ DOMAIN vertexData' = 1 .. Len(vertexData) + n
    BY <1>3, <2>3
  <2>5. \A i \in DOMAIN vertexData : i \in DOMAIN vertexData' /\ vertexData'[i] = vertexData[i]
    BY <2>3, <2>4
  <2>6. ASSUME NEW i \in DOMAIN vertexData', i \notin DOMAIN vertexData PROVE vertexData'[i] = None
    <3>1. i \in 1 .. Len(vertexData) + n /\ ~ i <= Len(vertexData) /\ i - Len(vertexData) \in 1 .. n
      BY <2>4, <2>6
    <3>. QED
      BY <2>1, <2>3, <3>1
  <2>. QED
    BY <2>5, <2>6 DEF Grows
<1>7. Visible' = Visible /\ Edges' = Edges
  BY <1>1, <1>6, UncommittedGraph
<1>. QED
  BY <1>1, <1>2, <1>7, PendingStep

(* A commit is where the updates take effect. *)
LEMMA CommitStep ==
    ASSUME DictInv, EdgeInv, NoLoops, GetEdgeDst = 3, NEW t \in Threads, Commit(t)
    PROVE  Graph!Effect(t)
<1>1. UNCHANGED <<m_is_directed, call, result>> /\ pc[t] = "commit" /\ pc' = [pc EXCEPT ![t] = "return"]
  BY DEF Commit, localVars, boundVars
<1>2. pc'[t] = "return" /\ Moves(t)
  BY <1>1 DEF Moves, DictInv, TypeOK
<1>3. PICK b \in BOOLEAN : b <=> Answer(t)
  OBVIOUS
<1>4. Answer(t)' <=> b
  BY <1>1, <1>3 DEF Answer
<1>5. Graph!Perform(call[t], b)
  BY <1>3, CommitPerforms
<1>. QED
  BY <1>1, <1>2, <1>4, <1>5, DoneStep

(* The caller invokes the library and gets its answer. *)
LEMMA InvokeStep ==
    ASSUME DictInv, NEW t \in Threads, NEW r \in Requests, Invoke(t, r)
    PROVE  Graph!Call(t, r)
<1> DEFINE st == [u \in Threads |-> Status(u)]
<1> DEFINE an == [u \in Threads |-> Reply(u)]
<1>1. /\ UNCHANGED <<m_is_directed, vertexData, edgeData>> /\ call' = [call EXCEPT ![t] = r]
      /\ pc[t] = "idle" /\ pc'[t] \in {"find", "insert"}
      /\ \A u \in Threads : u # t => pc'[u] = pc[u] /\ result'[u] = result[u] /\ call'[u] = call[u]
  BY DEF Invoke, DictInv, TypeOK, storeVars
<1>2. Visible' = Visible /\ Edges' = Edges
  BY <1>1, SameGraph
<1>3. st[t] = "idle" /\ st' = [st EXCEPT ![t] = "pending"]
  BY <1>1 DEF Status
<1>4. an' = an
  <2>1. \A u \in Threads : Reply(u)' = Reply(u)
    BY <1>1 DEF Reply, Answer
  <2>. QED
    BY <2>1
<1>. QED
  BY <1>1, <1>2, <1>3, <1>4 DEF Graph!Call, Status, Reply, Visible, Edges

(* Releasing the locks is the response of the call. *)
LEMMA ReturnStep ==
    ASSUME DictInv, NEW t \in Threads, Return(t)
    PROVE  Graph!Respond(t)
<1> DEFINE st == [u \in Threads |-> Status(u)]
<1> DEFINE an == [u \in Threads |-> Reply(u)]
<1>1. /\ UNCHANGED <<m_is_directed, vertexData, edgeData, call, result>>
      /\ pc[t] = "return" /\ pc'[t] = "idle"
      /\ \A u \in Threads : u # t => pc'[u] = pc[u]
  BY DEF Return, DictInv, TypeOK, storeVars, localVars, boundVars
<1>2. Visible' = Visible /\ Edges' = Edges
  BY <1>1, SameGraph
<1>3. st[t] = "done" /\ st' = [st EXCEPT ![t] = "idle"]
  BY <1>1 DEF Status
<1>4. an' = [an EXCEPT ![t] = FALSE]
  <2>1. \A u \in Threads : u # t => Reply(u)' = Reply(u)
    BY <1>1 DEF Reply, Answer
  <2>2. Reply(t)' = FALSE
    BY <1>1 DEF Reply
  <2>. QED
    BY <2>1, <2>2
<1>. QED
  BY <1>1, <1>2, <1>3, <1>4 DEF Graph!Respond, Status, Reply, Visible, Edges

(* A rollback and remove_vertex are not visible. *)
LEMMA InvisibleStep ==
    ASSUME DictInv, NEW t \in Threads, Rollback(t) \/ RemoveVertex(t)
    PROVE  UNCHANGED Graph!storeVars
<1>1. /\ UNCHANGED <<m_is_directed, call, result, vertexData, edgeData>>
      /\ \/ pc[t] = "commit" /\ pc' = [pc EXCEPT ![t] = "begin"]
         \/ pc' = pc
  BY DEF Rollback, RemoveVertex, storeVars, localVars
<1>2. \A u \in Threads : Status(u)' = Status(u) /\ Reply(u)' = Reply(u)
  BY <1>1 DEF Status, Reply, Answer, DictInv, TypeOK
<1>. QED
  BY <1>1, <1>2, SameGraph, StutterStep

(* The driver as constructed represents the empty graph. *)
LEMMA InitStore == Init => Graph!StoreInit
<1> SUFFICES ASSUME Init PROVE Graph!StoreInit
  OBVIOUS
<1>1. m_is_directed \in BOOLEAN /\ call \in [Threads -> Requests]
  BY InitDictInv DEF DictInv, TypeOK
<1>2. Visible = {} /\ Edges = {}
  BY DEF Init, Visible, Edges
<1>3. \A u \in Threads : Status(u) = "idle" /\ Reply(u) = FALSE
  BY DEF Init, Status, Reply
<1>4. /\ [u \in Threads |-> Status(u)] = [u \in Threads |-> "idle"]
      /\ [u \in Threads |-> Reply(u)] = [u \in Threads |-> FALSE]
  BY <1>3
<1>. QED
  BY <1>1, <1>2, <1>4 DEF Graph!StoreInit, Status, Reply, Visible, Edges

(* Each step of the driver is one of GraphStore, or changes nothing of it. *)
LEMMA StepStore ==
    ASSUME DictInv, EdgeInv, NoLoops, GetEdgeDst = 3, [Next]_vars
    PROVE  [Graph!StoreNext]_(Graph!storeVars)
<1>1. CASE UNCHANGED vars
  <2>1. UNCHANGED <<m_is_directed, call, result, pc, vertexData, edgeData>>
    BY <1>1 DEF vars
  <2>2. \A u \in Threads : Status(u)' = Status(u) /\ Reply(u)' = Reply(u)
    BY <2>1 DEF Status, Reply, Answer
  <2>. QED
    BY <2>1, <2>2, SameGraph, StutterStep
<1>2. ASSUME NEW t \in Threads, NEW r \in Requests, Invoke(t, r)
      PROVE  Graph!StoreNext
  BY <1>2, InvokeStep DEF Graph!StoreNext
<1>3. ASSUME NEW t \in Threads, RemoveVertex(t) \/ Step(t)
      PROVE  Graph!StoreNext \/ UNCHANGED Graph!storeVars
  <2>1. Graph!Effect(t) \/ Graph!Respond(t) \/ UNCHANGED Graph!storeVars
    BY <1>3, NotFoundStep, EntryStep, BodyAddStep, BodyReadStep, BodyStep, CommitStep, ReturnStep,
       InvisibleStep DEF Step
  <2>. QED
    BY <2>1 DEF Graph!StoreNext
<1>. QED
  BY <1>1, <1>2, <1>3 DEF Next, Finished

(* The driver implements GraphStore: every call takes effect at one moment *)
(* between its invocation and its return, and answers for the graph it     *)
(* finds there, whatever the threads do, for any set of calls without      *)
(* loops, provided that the third argument of get_edge is the destination, *)
(* as add_edge assumes.                                                    *)
THEOREM LinearizableHolds ==
    ASSUME NoLoops, GetEdgeDst = 3
    PROVE  Spec => Linearizable
<1>1. Init => Graph!StoreInit
  BY InitStore
<1>2. DictInv /\ EdgeInv /\ [Next]_vars => [Graph!StoreNext]_(Graph!storeVars)
  BY StepStore
<1>3. Spec => [](DictInv /\ EdgeInv)
  BY EdgeInvariance
<1>. QED
  BY <1>1, <1>2, <1>3, PTL DEF Spec, Linearizable, Graph!StoreSpec
=============================================================================
