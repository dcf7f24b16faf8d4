---------------------------- MODULE GTXCounters ----------------------------
(***************************************************************************)
(* Proof that m_num_vertices and m_num_edges of GTXDriver count what is    *)
(* stored, although each call counts after its transaction, in any order.  *)
(***************************************************************************)
EXTENDS GTXLinearizability

(* The vertices whose entry is set. *)
Known == {v \in Vertices : dictionary[v] \in Nat \ {0}}

(* The threads that are yet to count d edges, and those before the commit. *)
Uncounted(d) == {t \in Threads : pc[t] = "return" /\ EdgesDelta(t) = d}
Running == {t \in Threads : pc[t] \notin {"idle", "return"}}

VertexCount ==
    /\ IsFiniteSet(Known)
    /\ m_num_vertices = (Cardinality(Known) - removals) % CounterMod

(* There are n edges, fewer than the calls so far, and m_num_edges lags    *)
(* behind by what the threads are yet to count: it may be less than zero,  *)
(* that is 2^64 - 1, when an edge is removed before its insertion is       *)
(* counted.                                                                *)
EdgeCount ==
    /\ IsFiniteSet(DOMAIN edgeData) /\ IsFiniteSet(Running)
    /\ IsFiniteSet(Uncounted(1)) /\ IsFiniteSet(Uncounted(-1))
    /\ \E n \in Nat :
          /\ Cardinality(DOMAIN edgeData) = IF m_is_directed THEN n ELSE 2 * n
          /\ n + Cardinality(Running) <= calls
          /\ m_num_edges =
                (n - Cardinality(Uncounted(1)) + Cardinality(Uncounted(-1))) % CounterMod

CountInv == VertexCount /\ EdgeCount
-----------------------------------------------------------------------------
(* Arithmetic modulo 2^64 *)

(* The remainder of a division. *)
LEMMA Divides ==
    ASSUME NEW a \in Int
    PROVE  \E q \in Int : /\ a = CounterMod * q + (a % CounterMod)
                          /\ a % CounterMod \in 0 .. CounterMod - 1
<1>1. a \div CounterMod \in Int /\ a = CounterMod * (a \div CounterMod) + (a % CounterMod)
  BY DriverAssumption
<1>. QED
  BY <1>1, CounterType

(* A multiple smaller than the modulus is zero. *)
LEMMA SmallMultiple ==
    ASSUME NEW d \in Int, CounterMod * d < CounterMod, CounterMod * d > - CounterMod
    PROVE  d = 0
<1>1. ASSUME d >= 1 PROVE FALSE
  BY <1>1, DriverAssumption
<1>2. ASSUME d <= -1 PROVE FALSE
  BY <1>2, DriverAssumption
<1>. QED
  BY <1>1, <1>2

(* Adding to a counter that has wrapped around is adding to what it counts. *)
LEMMA ModPlus ==
    ASSUME NEW a \in Int, NEW k \in Int
    PROVE  ((a % CounterMod) + k) % CounterMod = (a + k) % CounterMod
<1> DEFINE m == a % CounterMod
<1> DEFINE r == (m + k) % CounterMod
<1> DEFINE s == (a + k) % CounterMod
<1>1. PICK p \in Int : a = CounterMod * p + m /\ m \in 0 .. CounterMod - 1
  BY Divides
<1>2. m \in Int /\ m + k \in Int /\ a + k \in Int
  BY <1>1
<1>3. PICK q \in Int : m + k = CounterMod * q + r /\ r \in 0 .. CounterMod - 1
  <2> HIDE DEF m
  <2>. QED
    BY <1>2, Divides
<1>4. PICK x \in Int : a + k = CounterMod * x + s /\ s \in 0 .. CounterMod - 1
  BY <1>2, Divides
<1> HIDE DEF m, r, s
<1>5. r - s = CounterMod * (x - p - q)
  BY <1>1, <1>2, <1>3, <1>4, DriverAssumption
<1>6. x - p - q = 0
  BY <1>3, <1>4, <1>5, SmallMultiple, DriverAssumption
<1>7. r = s
  BY <1>3, <1>4, <1>5, <1>6, DriverAssumption
<1>. QED
  BY <1>7 DEF m, r, s

(* A counter that has not wrapped around is what it counts. *)
LEMMA ModSmall ==
    ASSUME NEW a \in 0 .. CounterMod - 1
    PROVE  a % CounterMod = a
  BY DriverAssumption

-----------------------------------------------------------------------------
(* The vertices *)

(* Only the return of a call sets entries of the dictionary. *)
LEMMA SameVertexCount ==
    ASSUME VertexCount, Known' = Known, UNCHANGED <<m_num_vertices, removals>>
    PROVE  VertexCount'
  BY DEF VertexCount

(* It counts the entries that it sets. *)
LEMMA ReturnVertexCount ==
    ASSUME DictInv, VertexCount, NEW t \in Threads, Return(t)
    PROVE  VertexCount'
<1> DEFINE new == {call[t][s] : s \in creating[t]}
<1>1. Thread(t) /\ pc[t] = "return" /\ creating[t] \in SUBSET {"src", "dst"}
  BY DEF DictInv, TypeOK, Return
<1>2. /\ \A s \in creating[t] : call[t][s] \in Vertices /\ dictionary[call[t][s]] = 0
      /\ \A r, s \in creating[t] : call[t][r] = call[t][s] => r = s
  BY <1>1, CallType DEF Thread, Creating, DictInv
<1>3. \A s \in creating[t] : id[t][s] \in Nat \ {0}
  BY <1>1, StoreType DEF Thread, Created, Committed, DictInv
<1>4. Known' = Known \cup new /\ Known \cap new = {}
  <2>1. /\ \A s \in creating[t] : dictionary'[call[t][s]] = id[t][s]
        /\ \A v \in Vertices : (\A s \in creating[t] : v # call[t][s]) => dictionary'[v] = dictionary[v]
    BY ReturnEntries
  <2>. QED
    BY <1>2, <1>3, <2>1 DEF Known
<1>5. IsFiniteSet(new) /\ Cardinality(new) = Cardinality(creating[t])
  <2>1. CASE creating[t] = {}
    <3>1. new = {}
      BY <2>1
    <3>. QED
      BY <2>1, <3>1, FS_EmptySet
  <2>2. CASE creating[t] = {"src"}
    <3>1. new = {call[t].src}
      BY <2>2
    <3> HIDE DEF new
    <3>. QED
      BY <2>2, <3>1, FS_Singleton, SidesCount
  <2>3. CASE creating[t] = {"dst"}
    <3>1. new = {call[t].dst}
      BY <2>3
    <3> HIDE DEF new
    <3>. QED
      BY <2>3, <3>1, FS_Singleton, SidesCount
  <2>4. CASE creating[t] = {"src", "dst"}
    <3>1. new = {call[t].src} \cup {call[t].dst} /\ call[t].src # call[t].dst
      BY <1>2, <2>4
    <3>2. IsFiniteSet({call[t].src}) /\ Cardinality({call[t].src}) = 1
      BY FS_Singleton
    <3>3. call[t].dst \notin {call[t].src}
      BY <3>1
    <3> HIDE DEF new
    <3>4. IsFiniteSet(new) /\ Cardinality(new) = 2
      BY <3>1, <3>2, <3>3, FS_AddElement
    <3>. QED
      BY <2>4, <3>4, SidesCount
  <2>. QED
    BY <1>1, <2>1, <2>2, <2>3, <2>4, SidesCount
<1> HIDE DEF new
<1>6. Cardinality(Known) \in Nat /\ Cardinality(new) \in Nat /\ removals \in Nat
  BY <1>5, FS_CardinalityType DEF VertexCount, DictInv, TypeOK
<1>7. IsFiniteSet(Known') /\ Cardinality(Known') = Cardinality(Known) + Cardinality(new)
  <2>1. Cardinality({}) = 0
    BY FS_EmptySet
  <2>. QED
    BY <1>4, <1>5, <1>6, <2>1, FS_Union DEF VertexCount
<1> DEFINE a == Cardinality(Known) - removals
<1>8. m_num_vertices' = (a + Cardinality(new)) % CounterMod
  <2>1. m_num_vertices' = ((a % CounterMod) + Cardinality(new)) % CounterMod
    BY <1>5 DEF Return, VertexCount
  <2>2. a \in Int
    BY <1>6
  <2> HIDE DEF a
  <2>. QED
    BY <1>6, <2>1, <2>2, ModPlus
<1>9. a + Cardinality(new) = Cardinality(Known') - removals'
  BY <1>6, <1>7 DEF Return
<1>. QED
  BY <1>7, <1>8, <1>9 DEF VertexCount

(* remove_vertex only counts. *)
LEMMA RemoveVertexCount ==
    ASSUME DictInv, VertexCount, NEW t \in Threads, RemoveVertex(t)
    PROVE  VertexCount'
<1> DEFINE a == Cardinality(Known) - removals
<1>1. Cardinality(Known) \in Nat /\ removals \in Nat /\ Known' = Known
  BY FS_CardinalityType DEF VertexCount, DictInv, TypeOK, RemoveVertex, lockVars, Known
<1>2. m_num_vertices' = ((a % CounterMod) + (-1)) % CounterMod
  <2>1. a % CounterMod \in Int
    BY <1>1, CounterType
  <2>. QED
    BY <2>1 DEF RemoveVertex, VertexCount
<1>3. m_num_vertices' = (a + (-1)) % CounterMod
  BY <1>1, <1>2, ModPlus
<1>4. a + (-1) = Cardinality(Known') - removals'
  BY <1>1 DEF RemoveVertex
<1>. QED
  BY <1>1, <1>3, <1>4 DEF VertexCount

-----------------------------------------------------------------------------
(* The edges *)

(* The other threads are yet to count what they were. *)
LEMMA MovesUncounted ==
    ASSUME NEW t \in Threads, \A u \in Threads : u # t =>
               pc'[u] = pc[u] /\ result'[u] = result[u] /\ call'[u] = call[u]
    PROVE  /\ Running' \ {t} = Running \ {t}
           /\ Uncounted(1)' \ {t} = Uncounted(1) \ {t} /\ Uncounted(-1)' \ {t} = Uncounted(-1) \ {t}
<1>1. \A u \in Threads : u # t => EdgesDelta(u)' = EdgesDelta(u)
  BY DEF EdgesDelta
<1>. QED
  BY <1>1 DEF Running, Uncounted

(* The sizes of the sets of threads. *)
LEMMA CountTypes ==
    ASSUME EdgeCount
    PROVE  /\ Cardinality(DOMAIN edgeData) \in Nat /\ Cardinality(Running) \in Nat
           /\ Cardinality(Uncounted(1)) \in Nat /\ Cardinality(Uncounted(-1)) \in Nat
  BY FS_CardinalityType DEF EdgeCount

(* Before its commit, and when there is nothing to commit, a thread has no *)
(* edge to count.                                                          *)
LEMMA QuietEdgeCount ==
    ASSUME EdgeCount, NEW t \in Threads, calls \in Nat,
           UNCHANGED <<m_is_directed, m_num_edges>>, DOMAIN edgeData' = DOMAIN edgeData,
           \A u \in Threads : u # t => pc'[u] = pc[u] /\ result'[u] = result[u] /\ call'[u] = call[u],
           pc[t] = "return" => EdgesDelta(t) = 0,
           pc'[t] = "return" => EdgesDelta(t)' = 0,
           \/ pc[t] \notin {"idle", "return"} /\ calls' = calls
           \/ calls' = calls + 1
    PROVE  EdgeCount'
<1>1. /\ Running' \ {t} = Running \ {t}
      /\ Uncounted(1)' \ {t} = Uncounted(1) \ {t} /\ Uncounted(-1)' \ {t} = Uncounted(-1) \ {t}
  BY MovesUncounted
<1>2. Uncounted(1)' = Uncounted(1) /\ Uncounted(-1)' = Uncounted(-1)
  BY <1>1 DEF Uncounted
<1>3. Running' = Running \ {t} \/ Running' = Running \cup {t}
  BY <1>1
<1>4. /\ IsFiniteSet(Running') /\ Cardinality(Running') \in Nat
      /\ Cardinality(Running') <= Cardinality(Running) + 1
      /\ t \in Running => Cardinality(Running') <= Cardinality(Running)
  <2>1. IsFiniteSet(Running) /\ Cardinality(Running) \in Nat
    BY CountTypes DEF EdgeCount
  <2>2. CASE Running' = Running \ {t}
    <3>1. /\ IsFiniteSet(Running \ {t})
          /\ Cardinality(Running \ {t}) = IF t \in Running THEN Cardinality(Running) - 1 ELSE Cardinality(Running)
      BY <2>1, FS_RemoveElement
    <3>2. Cardinality(Running \ {t}) \in Nat
      BY <3>1, FS_CardinalityType
    <3>. QED
      BY <2>1, <2>2, <3>1, <3>2
  <2>3. CASE Running' = Running \cup {t}
    <3>1. /\ IsFiniteSet(Running \cup {t})
          /\ Cardinality(Running \cup {t}) = IF t \in Running THEN Cardinality(Running) ELSE Cardinality(Running) + 1
      BY <2>1, FS_AddElement
    <3>. QED
      BY <2>1, <2>3, <3>1
  <2>. QED
    BY <1>3, <2>2, <2>3
<1>5. pc[t] \notin {"idle", "return"} => t \in Running
  BY DEF Running
<1>6. Cardinality(Running') - calls' <= Cardinality(Running) - calls
  BY <1>4, <1>5, CountTypes
<1>7. PICK n \in Nat : /\ Cardinality(DOMAIN edgeData) = IF m_is_directed THEN n ELSE 2 * n
                       /\ n + Cardinality(Running) <= calls
                       /\ m_num_edges = (n - Cardinality(Uncounted(1)) + Cardinality(Uncounted(-1))) % CounterMod
  BY DEF EdgeCount
<1>8. n + Cardinality(Running') <= calls'
  BY <1>4, <1>6, <1>7, CountTypes
<1>9. /\ Cardinality(DOMAIN edgeData') = IF m_is_directed' THEN n ELSE 2 * n
      /\ m_num_edges' = (n - Cardinality(Uncounted(1)') + Cardinality(Uncounted(-1)')) % CounterMod
  BY <1>2, <1>7
<1>10. IsFiniteSet(DOMAIN edgeData') /\ IsFiniteSet(Uncounted(1)') /\ IsFiniteSet(Uncounted(-1)')
  BY <1>2 DEF EdgeCount
<1>. QED
  BY <1>4, <1>8, <1>9, <1>10 DEF EdgeCount

(* The return of a call counts its edge. *)
LEMMA ReturnEdgeCount ==
    ASSUME DictInv, EdgeCount, NEW t \in Threads, Return(t)
    PROVE  EdgeCount'
<1> DEFINE d == EdgesDelta(t)
<1> DEFINE A == Uncounted(1)
<1> DEFINE R == Uncounted(-1)
<1>1. /\ UNCHANGED <<edgeData, m_is_directed, calls, call, result>> /\ pc[t] = "return" /\ pc'[t] = "idle"
      /\ m_num_edges' = (m_num_edges + d) % CounterMod
      /\ \A u \in Threads : u # t => pc'[u] = pc[u]
  BY DEF Return, DictInv, TypeOK, localVars, boundVars, storeVars
<1>2. d \in {-1, 0, 1}
  BY DEF EdgesDelta
<1>3. A' = A \ {t} /\ R' = R \ {t} /\ Running' = Running
  BY <1>1, MovesUncounted DEF Uncounted, Running
<1>4. (t \in A <=> d = 1) /\ (t \in R <=> d = -1)
  BY <1>1 DEF Uncounted
<1> HIDE DEF A, R, d
<1>5. /\ IsFiniteSet(A) /\ IsFiniteSet(R) /\ Cardinality(A) \in Nat /\ Cardinality(R) \in Nat
  BY CountTypes DEF EdgeCount, A, R
<1>6. /\ IsFiniteSet(A') /\ Cardinality(A') = Cardinality(A) - (IF d = 1 THEN 1 ELSE 0)
      /\ IsFiniteSet(R') /\ Cardinality(R') = Cardinality(R) - (IF d = -1 THEN 1 ELSE 0)
  BY <1>3, <1>4, <1>5, FS_RemoveElement
<1>7. PICK n \in Nat : /\ Cardinality(DOMAIN edgeData) = IF m_is_directed THEN n ELSE 2 * n
                       /\ n + Cardinality(Running) <= calls
                       /\ m_num_edges = (n - Cardinality(A) + Cardinality(R)) % CounterMod
  BY DEF EdgeCount, A, R
<1> DEFINE a == n - Cardinality(A) + Cardinality(R)
<1>8. a \in Int /\ n - Cardinality(A') + Cardinality(R') = a + d
  BY <1>2, <1>5, <1>6
<1>9. m_num_edges' = ((a % CounterMod) + d) % CounterMod
  BY <1>1, <1>7
<1> HIDE DEF a
<1>10. m_num_edges' = (a + d) % CounterMod
  BY <1>2, <1>8, <1>9, ModPlus
<1>11. /\ Cardinality(DOMAIN edgeData') = IF m_is_directed' THEN n ELSE 2 * n
       /\ n + Cardinality(Running') <= calls'
       /\ m_num_edges' = (n - Cardinality(A') + Cardinality(R')) % CounterMod
  BY <1>1, <1>3, <1>7, <1>8, <1>10
<1>12. IsFiniteSet(DOMAIN edgeData') /\ IsFiniteSet(Running')
  BY <1>1, <1>3 DEF EdgeCount
<1>. QED
  BY <1>6, <1>11, <1>12 DEF EdgeCount, A, R

(* An edge is never a loop, which GTX would store once in an undirected    *)
(* graph.                                                                  *)
NoEdgeLoops == \A r \in Requests : r.op # "add_vertex" => r.src # r.dst

(* How many arcs an edge has. *)
LEMMA EdgeArcs ==
    ASSUME DictInv, EdgeInv, NoEdgeLoops, NEW t \in Threads, Commit(t), call[t].op # "add_vertex"
    PROVE  /\ IsFiniteSet(BothArcs(t))
           /\ Cardinality(BothArcs(t)) = IF m_is_directed THEN 1 ELSE 2
           /\ Arc(t) \in DOMAIN edgeData => BothArcs(t) \subseteq DOMAIN edgeData
           /\ Arc(t) \notin DOMAIN edgeData => BothArcs(t) \cap DOMAIN edgeData = {}
<1>1. call[t].src # call[t].dst
  BY CallType DEF NoEdgeLoops, DictInv
<1>2. Found(t) = {"src", "dst"}
  BY DEF Found, Commit
<1>3. vertexData'[id[t].src] = call[t].src /\ vertexData'[id[t].dst] = call[t].dst
  BY <1>2, CommitEndpoints
<1>4. Arc(t) # Opposite(t)
  BY <1>1, <1>3 DEF Arc, Opposite
<1>5. ~ m_is_directed => (Arc(t) \in DOMAIN edgeData <=> Opposite(t) \in DOMAIN edgeData)
  BY DEF EdgeInv, Symmetric, Arc, Opposite
<1>6. IsFiniteSet({Arc(t)}) /\ Cardinality({Arc(t)}) = 1 /\ Opposite(t) \notin {Arc(t)}
  BY <1>4, FS_Singleton
<1>7. IsFiniteSet({Arc(t)} \cup {Opposite(t)}) /\ Cardinality({Arc(t)} \cup {Opposite(t)}) = 2
  BY <1>6, FS_AddElement
<1>8. BothArcs(t) = IF m_is_directed THEN {Arc(t)} ELSE {Arc(t)} \cup {Opposite(t)}
  BY DEF BothArcs
<1>. QED
  BY <1>5, <1>6, <1>7, <1>8

(* What a commit does to the edges, and what is then to be counted. *)
LEMMA CommitDelta ==
    ASSUME DictInv, EdgeInv, NoEdgeLoops, GetEdgeDst = 3, NEW t \in Threads, Commit(t)
    PROVE  \/ DOMAIN edgeData' = DOMAIN edgeData /\ EdgesDelta(t) = 0
           \/ /\ DOMAIN edgeData' = DOMAIN edgeData \cup BothArcs(t)
              /\ BothArcs(t) \cap DOMAIN edgeData = {} /\ EdgesDelta(t) = 1 /\ call[t].op # "add_vertex"
           \/ /\ DOMAIN edgeData' = DOMAIN edgeData \ BothArcs(t)
              /\ BothArcs(t) \subseteq DOMAIN edgeData /\ EdgesDelta(t) = -1 /\ call[t].op # "add_vertex"
<1>1. call[t].op # "add_vertex" => call[t].src # call[t].dst
  BY CallType DEF NoEdgeLoops, DictInv
<1>2. call[t].op \in Upserts \cup {"add_vertex", "add_edge", "remove_edge"}
  BY CommitEdges
<1>3. CASE call[t].op = "add_vertex"
  <2>1. EdgesDelta(t) = 0
    BY <1>3 DEF EdgesDelta, Upserts
  <2>. QED
    BY <1>3, <2>1, CommitEdges
<1>4. CASE call[t].op \in Upserts \cup {"add_edge"}
  <2>1. /\ DOMAIN edgeData' = DOMAIN edgeData \cup BothArcs(t) /\ call[t].op # "add_vertex"
        /\ result[t] <=> Arc(t) \notin DOMAIN edgeData
    BY <1>1, <1>4, CommitEdges, CommitAnswer DEF Upserts
  <2>2. EdgesDelta(t) = IF result[t] THEN 1 ELSE 0
    BY <1>4 DEF EdgesDelta
  <2>3. /\ Arc(t) \in DOMAIN edgeData => BothArcs(t) \subseteq DOMAIN edgeData
        /\ Arc(t) \notin DOMAIN edgeData => BothArcs(t) \cap DOMAIN edgeData = {}
    BY <2>1, EdgeArcs
  <2>. QED
    BY <2>1, <2>2, <2>3
<1>5. CASE call[t].op = "remove_edge"
  <2>1. /\ DOMAIN edgeData' = DOMAIN edgeData \ BothArcs(t) /\ call[t].op # "add_vertex"
        /\ result[t] <=> Arc(t) \in DOMAIN edgeData
    BY <1>1, <1>5, CommitEdges, CommitAnswer
  <2>2. EdgesDelta(t) = IF result[t] THEN -1 ELSE 0
    BY <1>5 DEF EdgesDelta, Upserts
  <2>3. /\ Arc(t) \in DOMAIN edgeData => BothArcs(t) \subseteq DOMAIN edgeData
        /\ Arc(t) \notin DOMAIN edgeData => BothArcs(t) \cap DOMAIN edgeData = {}
    BY <2>1, EdgeArcs
  <2>. QED
    BY <2>1, <2>2, <2>3
<1>. QED
  BY <1>2, <1>3, <1>4, <1>5

(* The commit adds or removes an edge, that is to be counted. *)
LEMMA CommitEdgeCount ==
    ASSUME DictInv, EdgeInv, EdgeCount, NoEdgeLoops, GetEdgeDst = 3, NEW t \in Threads, Commit(t)
    PROVE  EdgeCount'
<1> DEFINE D == DOMAIN edgeData
<1> DEFINE A == Uncounted(1)
<1> DEFINE R == Uncounted(-1)
<1>1. /\ UNCHANGED <<m_is_directed, calls, call, result, m_num_edges>> /\ calls \in Nat
      /\ pc[t] = "commit" /\ pc'[t] = "return" /\ \A u \in Threads : u # t => pc'[u] = pc[u]
  BY DriverAssumption DEF Commit, DictInv, TypeOK, localVars, boundVars, counterVars
<1>2. EdgesDelta(t)' = EdgesDelta(t)
  BY <1>1 DEF EdgesDelta
<1>3. CASE D' = D /\ EdgesDelta(t) = 0
  BY <1>1, <1>2, <1>3, QuietEdgeCount
<1>4. /\ IsFiniteSet(Running') /\ Cardinality(Running') = Cardinality(Running) - 1
      /\ Cardinality(Running) \in Nat
  <2>1. Running' = Running \ {t} /\ t \in Running
    BY <1>1, MovesUncounted DEF Running
  <2>. QED
    BY <2>1, FS_RemoveElement, CountTypes DEF EdgeCount
<1>5. /\ IsFiniteSet(A) /\ IsFiniteSet(R) /\ IsFiniteSet(D)
      /\ Cardinality(A) \in Nat /\ Cardinality(R) \in Nat /\ Cardinality(D) \in Nat
  BY CountTypes DEF EdgeCount
<1>6. PICK n \in Nat : /\ Cardinality(D) = IF m_is_directed THEN n ELSE 2 * n
                       /\ n + Cardinality(Running) <= calls
                       /\ m_num_edges = (n - Cardinality(A) + Cardinality(R)) % CounterMod
  BY DEF EdgeCount
<1>7. call[t].op # "add_vertex" =>
         /\ IsFiniteSet(BothArcs(t)) /\ Cardinality(BothArcs(t)) = IF m_is_directed THEN 1 ELSE 2
  BY EdgeArcs
<1>8. CASE /\ D' = D \cup BothArcs(t) /\ BothArcs(t) \cap D = {}
           /\ EdgesDelta(t) = 1 /\ call[t].op # "add_vertex"
  <2>1. A' = A \cup {t} /\ t \notin A /\ R' = R
    BY <1>1, <1>2, <1>8, MovesUncounted DEF Uncounted
  <2> HIDE DEF A, R, D
  <2>2. /\ IsFiniteSet(A') /\ Cardinality(A') = Cardinality(A) + 1
        /\ IsFiniteSet(R') /\ Cardinality(R') = Cardinality(R)
    BY <1>5, <2>1, FS_AddElement
  <2>3. IsFiniteSet(D') /\ Cardinality(D') = Cardinality(D) + Cardinality(BothArcs(t))
    <3>1. D \cap BothArcs(t) = {} /\ Cardinality({}) = 0
      BY <1>8, FS_EmptySet
    <3>2. /\ IsFiniteSet(D \cup BothArcs(t))
          /\ Cardinality(D \cup BothArcs(t)) =
                Cardinality(D) + Cardinality(BothArcs(t)) - Cardinality(D \cap BothArcs(t))
      BY <1>5, <1>7, <1>8, FS_Union
    <3>3. Cardinality(BothArcs(t)) \in Nat
      BY <1>7, <1>8
    <3>4. Cardinality(D \cap BothArcs(t)) = 0
      BY <3>1, Zenon
    <3>5. Cardinality(D \cup BothArcs(t)) = Cardinality(D) + Cardinality(BothArcs(t))
      BY <1>5, <3>2, <3>3, <3>4
    <3>. QED
      BY <1>8, <3>2, <3>5, Zenon
  <2> DEFINE k == n + 1
  <2>4. /\ k \in Nat /\ k + Cardinality(Running') <= calls'
        /\ Cardinality(D') = IF m_is_directed' THEN k ELSE 2 * k
        /\ k - Cardinality(A') + Cardinality(R') = n - Cardinality(A) + Cardinality(R)
    BY <1>1, <1>4, <1>5, <1>6, <1>7, <1>8, <2>2, <2>3
  <2> HIDE DEF k
  <2>5. m_num_edges' = (k - Cardinality(A') + Cardinality(R')) % CounterMod
    BY <1>1, <1>6, <2>4
  <2>. QED
    BY <1>4, <2>2, <2>3, <2>4, <2>5 DEF EdgeCount, A, R, D
<1>9. CASE /\ D' = D \ BothArcs(t) /\ BothArcs(t) \subseteq D
           /\ EdgesDelta(t) = -1 /\ call[t].op # "add_vertex"
  <2>1. R' = R \cup {t} /\ t \notin R /\ A' = A
    BY <1>1, <1>2, <1>9, MovesUncounted DEF Uncounted
  <2> HIDE DEF A, R, D
  <2>2. /\ IsFiniteSet(R') /\ Cardinality(R') = Cardinality(R) + 1
        /\ IsFiniteSet(A') /\ Cardinality(A') = Cardinality(A)
    BY <1>5, <2>1, FS_AddElement
  <2>3. /\ IsFiniteSet(D') /\ Cardinality(D') = Cardinality(D) - Cardinality(BothArcs(t))
        /\ Cardinality(D') \in Nat
    <3>1. D \cap BothArcs(t) = BothArcs(t)
      BY <1>9
    <3>2. /\ IsFiniteSet(D \ BothArcs(t))
          /\ Cardinality(D \ BothArcs(t)) = Cardinality(D) - Cardinality(D \cap BothArcs(t))
      BY <1>5, FS_Difference
    <3>3. IsFiniteSet(D') /\ Cardinality(D') = Cardinality(D) - Cardinality(BothArcs(t))
      BY <1>9, <3>1, <3>2, Zenon
    <3>. QED
      BY <3>3, FS_CardinalityType
  <2> DEFINE k == n - 1
  <2>4. /\ k \in Nat /\ k + Cardinality(Running') <= calls'
        /\ Cardinality(D') = IF m_is_directed' THEN k ELSE 2 * k
        /\ k - Cardinality(A') + Cardinality(R') = n - Cardinality(A) + Cardinality(R)
    BY <1>1, <1>4, <1>5, <1>6, <1>7, <1>9, <2>2, <2>3
  <2> HIDE DEF k
  <2>5. m_num_edges' = (k - Cardinality(A') + Cardinality(R')) % CounterMod
    BY <1>1, <1>6, <2>4
  <2>. QED
    BY <1>4, <2>2, <2>3, <2>4, <2>5 DEF EdgeCount, A, R, D
<1>. QED
  BY <1>3, <1>8, <1>9, CommitDelta

-----------------------------------------------------------------------------
(* The counters are zero for the empty graph, ... *)
LEMMA InitCountInv == Init => CountInv
<1> SUFFICES ASSUME Init PROVE CountInv
  OBVIOUS
<1>1. Known = {} /\ Running = {} /\ Uncounted(1) = {} /\ Uncounted(-1) = {} /\ DOMAIN edgeData = {}
  BY DEF Init, Known, Running, Uncounted, NoEntry
<1>2. IsFiniteSet({}) /\ Cardinality({}) = 0
  BY FS_EmptySet
<1>3. 0 % CounterMod = 0
  BY ModSmall, DriverAssumption
<1>4. VertexCount
  BY <1>1, <1>2, <1>3 DEF VertexCount, Init
<1>5. EdgeCount
  <2>1. /\ Cardinality(DOMAIN edgeData) = IF m_is_directed THEN 0 ELSE 2 * 0
        /\ 0 + Cardinality(Running) <= calls
        /\ m_num_edges = (0 - Cardinality(Uncounted(1)) + Cardinality(Uncounted(-1))) % CounterMod
    <3>0. Cardinality(Uncounted(1)) = 0 /\ Cardinality(Uncounted(-1)) = 0
      BY <1>1, <1>2, Zenon
    <3>1. 0 - Cardinality(Uncounted(1)) + Cardinality(Uncounted(-1)) = 0
      BY <3>0
    <3>. QED
      BY <1>1, <1>2, <1>3, <3>1 DEF Init
  <2>2. IsFiniteSet(DOMAIN edgeData) /\ IsFiniteSet(Running) /\ IsFiniteSet(Uncounted(1))
        /\ IsFiniteSet(Uncounted(-1)) /\ 0 \in Nat
    BY <1>1, <1>2
  <2>. QED
    BY <2>1, <2>2 DEF EdgeCount
<1>. QED
  BY <1>4, <1>5 DEF CountInv

(* ... and the steps before a commit leave them alone. *)
LEMMA LocalCountInv ==
    ASSUME DictInv, CountInv, NEW t \in Threads,
           \/ Find(t) \/ NotFound(t) \/ InsertEntry(t) \/ LockEntry(t)
           \/ BodyAdd(t) \/ BodyUpsert(t) \/ BodyVertex(t) \/ BodyRemove(t) \/ BodyRead(t) \/ Rollback(t)
    PROVE  CountInv'
<1> USE DEF counterVars, boundVars, storeVars, localVars, lockVars
<1>1. /\ UNCHANGED <<m_num_vertices, m_num_edges, removals, m_is_directed, calls, call, edgeData>>
      /\ pc[t] \in {"find", "insert", "begin", "commit"}
  BY DEF Find, NotFound, InsertEntry, LockEntry, BodyAdd, BodyUpsert, BodyVertex, BodyRemove, BodyRead,
         Rollback
<1>0. calls \in Nat
  BY DriverAssumption DEF DictInv, TypeOK
<1>2. Known' = Known
  <2>1. CASE InsertEntry(t)
    <3>1. Target(t) \in Vertices
      BY CallType DEF DictInv, Target
    <3>2. dictionary' = [dictionary EXCEPT ![Target(t)] = 0] /\ dictionary[Target(t)] = NoEntry
      BY <2>1 DEF InsertEntry
    <3>. QED
      BY <3>1, <3>2 DEF Known, NoEntry, DictInv, TypeOK
  <2>2. CASE ~ InsertEntry(t)
    <3>1. UNCHANGED dictionary
      BY <2>2 DEF Find, NotFound, LockEntry, BodyAdd, BodyUpsert, BodyVertex, BodyRemove, BodyRead, Rollback
    <3>. QED
      BY <3>1 DEF Known
  <2>. QED
    BY <2>1, <2>2
<1>3. /\ \A u \in Threads : u # t => pc'[u] = pc[u] /\ result'[u] = result[u]
      /\ pc'[t] = "return" => ~ result'[t] \/ call[t].op \in {"add_vertex", "get_weight"}
  <2>1. CASE Find(t) \/ InsertEntry(t) \/ LockEntry(t)
    <3>1. UNCHANGED result
      BY <2>1 DEF Find, InsertEntry, LockEntry
    <3>2. CASE NextVertex(t)
      BY <3>1, <3>2, NextVertexStep DEF DictInv
    <3>3. CASE ~ NextVertex(t)
      BY <2>1, <3>1, <3>3 DEF Find, InsertEntry, LockEntry, DictInv, TypeOK
    <3>. QED
      BY <3>2, <3>3
  <2>2. CASE NotFound(t) \/ Rollback(t)
    <3>1. UNCHANGED result /\ result[t] \in BOOLEAN
      BY <2>2 DEF NotFound, Rollback, DictInv, TypeOK
    <3>2. pc[t] = "find" => ~ result[t]
      BY DEF DictInv, Thread, Phase
    <3>. QED
      BY <2>2, <3>1, <3>2 DEF NotFound, Rollback, DictInv, TypeOK
  <2>3. CASE BodyAdd(t)
    <3>1. CASE GetEdge(id[t].src, 1, id[t].dst) # {}
      BY <2>3, <3>1 DEF BodyAdd, DictInv, TypeOK
    <3>2. CASE GetEdge(id[t].src, 1, id[t].dst) = {}
      BY <2>3, <3>2 DEF BodyAdd, Write, DictInv, TypeOK
    <3>. QED
      BY <3>1, <3>2
  <2>4. CASE BodyUpsert(t) \/ BodyVertex(t) \/ BodyRemove(t)
    <3>1. pc' = [pc EXCEPT ![t] = "commit"] /\ \E b : result' = [result EXCEPT ![t] = b]
      BY <2>4 DEF BodyUpsert, BodyVertex, BodyRemove, Write
    <3>. QED
      BY <3>1 DEF DictInv, TypeOK
  <2>5. CASE BodyRead(t)
    BY <2>5 DEF BodyRead, DictInv, TypeOK
  <2>. QED
    BY <2>1, <2>2, <2>3, <2>4, <2>5
<1>4. pc'[t] = "return" => EdgesDelta(t)' = 0
  BY <1>1, <1>3 DEF EdgesDelta, Upserts
<1>5. EdgeCount'
  BY <1>0, <1>1, <1>3, <1>4, QuietEdgeCount DEF CountInv
<1>6. VertexCount'
  BY <1>1, <1>2, SameVertexCount DEF CountInv
<1>. QED
  BY <1>5, <1>6 DEF CountInv

(* A new call. *)
LEMMA CallCountInv ==
    ASSUME DictInv, CountInv, NEW t \in Threads, (\E r \in Requests : Invoke(t, r)) \/ RemoveVertex(t)
    PROVE  CountInv'
<1> USE DEF counterVars, boundVars, storeVars, localVars, lockVars
<1>1. /\ UNCHANGED <<m_num_edges, m_is_directed, edgeData>> /\ calls \in Nat /\ calls' = calls + 1
      /\ pc[t] = "idle" /\ pc'[t] # "return"
      /\ \A u \in Threads : u # t => pc'[u] = pc[u] /\ result'[u] = result[u] /\ call'[u] = call[u]
  <2>1. /\ calls \in Nat
        /\ pc \in [Threads -> {"idle", "find", "insert", "begin", "commit", "return"}]
        /\ result \in [Threads -> BOOLEAN] /\ call \in [Threads -> Requests]
    BY DriverAssumption DEF DictInv, TypeOK
  <2>2. CASE \E r \in Requests : Invoke(t, r)
    BY <2>1, <2>2 DEF Invoke
  <2>3. CASE RemoveVertex(t)
    BY <2>1, <2>3 DEF RemoveVertex
  <2>. QED
    BY <2>2, <2>3
<1>2. EdgeCount'
  BY <1>1, QuietEdgeCount DEF CountInv
<1>3. VertexCount'
  <2>1. CASE \E r \in Requests : Invoke(t, r)
    BY <2>1, SameVertexCount DEF Invoke, CountInv, Known
  <2>2. CASE RemoveVertex(t)
    BY <2>2, RemoveVertexCount DEF CountInv
  <2>. QED
    BY <2>1, <2>2
<1>. QED
  BY <1>2, <1>3 DEF CountInv

(* Every step keeps the counters right. *)
LEMMA NextCountInv ==
    ASSUME NoEdgeLoops, GetEdgeDst = 3, DictInv, EdgeInv, CountInv, [Next]_vars
    PROVE  CountInv'
<1>1. CASE UNCHANGED vars
  <2>1. /\ Known' = Known /\ Running' = Running
        /\ Uncounted(1)' = Uncounted(1) /\ Uncounted(-1)' = Uncounted(-1)
    BY <1>1 DEF vars, Known, Running, Uncounted, EdgesDelta
  <2>. QED
    BY <1>1, <2>1 DEF vars, CountInv, VertexCount, EdgeCount
<1>2. ASSUME NEW t \in Threads, (\E r \in Requests : Invoke(t, r)) \/ RemoveVertex(t)
      PROVE  CountInv'
  BY <1>2, CallCountInv
<1>3. ASSUME NEW t \in Threads, Return(t)
      PROVE  CountInv'
  BY <1>3, ReturnVertexCount, ReturnEdgeCount DEF CountInv
<1>4. ASSUME NEW t \in Threads, Commit(t)
      PROVE  CountInv'
  <2>1. VertexCount'
    BY <1>4, SameVertexCount DEF CountInv, Commit, counterVars, lockVars, Known
  <2>. QED
    BY <1>4, <2>1, CommitEdgeCount DEF CountInv
<1>5. ASSUME NEW t \in Threads, Step(t)
      PROVE  CountInv'
  BY <1>3, <1>4, <1>5, LocalCountInv DEF Step
<1>. QED
  BY <1>1, <1>2, <1>5 DEF Next, Finished

(* Between the calls the counters are exact: nothing that was counted too  *)
(* late, twice, or not at all, is left over when no call is being served,  *)
(* for any set of calls without loops, up to 2^64 of them.                 *)
THEOREM CountersExactHolds ==
    ASSUME NoEdgeLoops, GetEdgeDst = 3, MaxCalls < CounterMod
    PROVE  Spec => []CountersExact
<1>1. Init => CountInv
  BY InitCountInv
<1>2. DictInv /\ EdgeInv /\ CountInv /\ [Next]_vars => CountInv'
  BY NextCountInv
<1>3. ASSUME DictInv, CountInv PROVE CountersExact
  <2> SUFFICES ASSUME Quiescent
               PROVE  /\ m_num_vertices =
                            (Cardinality({v \in Vertices : dictionary[v] # NoEntry}) - removals) % CounterMod
                      /\ Cardinality(DOMAIN edgeData) = IF m_is_directed THEN m_num_edges ELSE 2 * m_num_edges
    BY DEF CountersExact
  <2>1. Known = {v \in Vertices : dictionary[v] # NoEntry}
    <3>1. \A v \in Vertices : dictionary[v] # NoEntry => Committed(dictionary[v], v)
      BY <1>3 DEF DictInv, Entries, Quiescent
    <3>2. \A v \in Vertices : dictionary[v] # NoEntry => dictionary[v] \in Nat \ {0}
      BY <1>3, <3>1, StoreType DEF DictInv, Committed
    <3>. QED
      BY <3>2 DEF Known, NoEntry
  <2>2. Uncounted(1) = {} /\ Uncounted(-1) = {}
    BY DEF Uncounted, Quiescent
  <2>3. PICK n \in Nat : /\ Cardinality(DOMAIN edgeData) = IF m_is_directed THEN n ELSE 2 * n
                         /\ n + Cardinality(Running) <= calls
                         /\ m_num_edges = (n - Cardinality(Uncounted(1)) + Cardinality(Uncounted(-1))) % CounterMod
    BY <1>3 DEF CountInv, EdgeCount
  <2>4. m_num_edges = n % CounterMod
    <3>1. Cardinality(Uncounted(1)) = 0 /\ Cardinality(Uncounted(-1)) = 0
      BY <2>2, FS_EmptySet
    <3>. QED
      BY <2>3, <3>1
  <2>5. n \in 0 .. CounterMod - 1
    <3>1. calls \in Nat /\ calls <= MaxCalls /\ MaxCalls \in Nat /\ CounterMod \in Nat
      BY <1>3, DriverAssumption DEF DictInv, TypeOK
    <3>2. Cardinality(Running) \in Nat
      BY <1>3, CountTypes DEF CountInv
    <3>. QED
      BY <2>3, <3>1, <3>2
  <2>6. m_num_edges = n
    BY <2>4, <2>5, ModSmall
  <2>. QED
    BY <1>3, <2>1, <2>3, <2>6 DEF CountInv, VertexCount
<1>4. Spec => [](DictInv /\ EdgeInv)
  BY EdgeInvariance
<1>. QED
  BY <1>1, <1>2, <1>3, <1>4, PTL DEF Spec
=============================================================================
