-------------------------- MODULE GTXDriverProofs --------------------------
(***************************************************************************)
(* Proofs about GTXDriver, for any number of threads, any vertices and any *)
(* set of calls: the dictionary and GTX agree.                             *)
(***************************************************************************)
EXTENDS GTXDriver, FiniteSetTheorems, SequenceTheorems, TLAPS

(* The internal vertex i is committed in GTX, with the external id v. *)
Committed(i, v) == i \in DOMAIN vertexData /\ vertexData[i] = v

(* The endpoints of its call for which a thread has locked the entry. *)
Found(t) ==
    IF pc[t] \in {"find", "insert"} THEN IF side[t] = "dst" THEN {"src"} ELSE {}
    ELSE IF call[t].op = "add_vertex" THEN {"src"} ELSE {"src", "dst"}

(* How far a thread is: which endpoints it may create, and what it answers *)
(* before its transaction.                                                 *)
Phase(t) ==
    /\ pc[t] = "find" => call[t].op # "add_vertex"
    /\ pc[t] = "insert" => call[t].op \in Upserts \cup {"add_vertex"}
    /\ pc[t] \in {"find", "insert"} => result[t] = FALSE
    /\ pc[t] # "idle" =>
          /\ creating[t] \subseteq Found(t)
          /\ call[t].op = "add_vertex" => side[t] = "src"
          /\ creating[t] # {} => call[t].op \in Upserts \cup {"add_vertex"}
    /\ pc[t] \in {"begin", "commit"} /\ call[t].op = "add_vertex" => creating[t] = {"src"}

(* The endpoints found and not to be created are vertices of GTX. *)
Resolved(t) ==
    pc[t] \in {"find", "insert", "begin", "commit"} =>
        \A s \in Found(t) \ creating[t] : Committed(id[t][s], call[t][s])

(* An entry to be set is locked by the one thread that creates its vertex. *)
Creating(t) ==
    pc[t] # "idle" =>
        /\ \A s \in creating[t] : writer[call[t][s]] = t /\ dictionary[call[t][s]] = 0
        /\ \A r, s \in creating[t] : call[t][r] = call[t][s] => r = s

(* The vertices its transaction adds are not visible until it commits. *)
Created(t) ==
    /\ pc[t] = "commit" =>
          /\ \A s \in creating[t] : Committed(id[t][s], None)
          /\ \A r, s \in creating[t] : id[t][r] = id[t][s] => r = s
    /\ pc[t] = "return" => \A s \in creating[t] : Committed(id[t][s], call[t][s])

Thread(t) == Phase(t) /\ Resolved(t) /\ Creating(t) /\ Created(t)

(* Two transactions never add the same internal vertex. *)
Fresh ==
    \A t, u \in Threads : t # u /\ pc[t] = "commit" /\ pc[u] = "commit" =>
        \A s \in creating[t], r \in creating[u] : id[t][s] # id[u][r]

(* An entry of the dictionary refers to its vertex, or is about to; ... *)
Entries ==
    \A v \in Vertices : dictionary[v] # NoEntry =>
        \/ Committed(dictionary[v], v)
        \/ \E t \in Threads : pc[t] # "idle" /\ writer[v] = t /\ \E s \in creating[t] : call[t][s] = v

(* ... and a vertex of GTX is the one its entry refers to, or is about to. *)
Store ==
    \A i \in DOMAIN vertexData : vertexData[i] # None =>
        \/ dictionary[vertexData[i]] = i
        \/ \E t \in Threads : pc[t] = "return"
              /\ \E s \in creating[t] : call[t][s] = vertexData[i] /\ id[t][s] = i

DictInv == TypeOK /\ (\A t \in Threads : Thread(t)) /\ Fresh /\ Entries /\ Store

-----------------------------------------------------------------------------
(* What is known of a call. *)
LEMMA CallType ==
    ASSUME TypeOK, NEW t \in Threads
    PROVE  /\ call[t] \in Requests
           /\ call[t].src \in Vertices /\ call[t].dst \in Vertices /\ call[t].weight \in Nat
           /\ \A s \in {"src", "dst"} : call[t][s] \in Vertices /\ call[t][s] # None
           /\ call[t].op \in Upserts \cup {"add_vertex", "add_edge", "remove_edge", "get_weight"}
           /\ side[t] \in {"src", "dst"} /\ creating[t] \subseteq {"src", "dst"}
<1>1. call[t] \in Requests /\ side[t] \in {"src", "dst"} /\ creating[t] \subseteq {"src", "dst"}
  BY DEF TypeOK
<1>2. /\ call[t].src \in Vertices /\ call[t].dst \in Vertices /\ call[t].weight \in Nat
      /\ call[t].op \in {"add_vertex", "add_edge", "add_edge_v2", "add_edge_v3", "update_edge_v1",
                         "remove_edge", "get_weight"}
  BY <1>1, DriverAssumption
<1>3. None \notin Vertices
  BY DriverAssumption
<1>. QED
  BY <1>1, <1>2, <1>3 DEF Upserts

(* The store of the vertices is a sequence. *)
LEMMA StoreType ==
    ASSUME TypeOK
    PROVE  /\ Len(vertexData) \in Nat /\ DOMAIN vertexData = 1 .. Len(vertexData)
           /\ \A i \in DOMAIN vertexData : vertexData[i] \in Vertices \cup {None}
<1>1. vertexData \in Seq(Vertices \cup {None})
  BY DEF TypeOK
<1>. QED
  BY <1>1, LenProperties, ElementOfSeq

(* Committed vertices are never changed, only added. *)
Grows ==
    \A i \in DOMAIN vertexData :
        i \in DOMAIN vertexData' /\ (vertexData[i] # None => vertexData'[i] = vertexData[i])

(* A committed vertex stays committed, as GTX never deletes one. *)
LEMMA CommittedStable ==
    ASSUME Grows, NEW i, NEW v, v # None, Committed(i, v)
    PROVE  Committed(i, v)'
  BY DEF Grows, Committed

(* The step of a thread does not disturb the others. *)
LEMMA OtherThread ==
    ASSUME TypeOK, NEW u \in Threads, Thread(u), Grows,
           pc'[u] = pc[u], call'[u] = call[u], side'[u] = side[u], id'[u] = id[u],
           creating'[u] = creating[u], result'[u] = result[u],
           pc[u] = "commit" => \A s \in creating[u] : vertexData'[id[u][s]] = vertexData[id[u][s]],
           pc[u] # "idle" => \A s \in creating[u] : /\ writer'[call[u][s]] = writer[call[u][s]]
                                                    /\ dictionary'[call[u][s]] = dictionary[call[u][s]]
    PROVE  Thread(u)'
<1>1. \A s \in {"src", "dst"} : call[u][s] # None
  BY CallType
<1>2. creating[u] \subseteq {"src", "dst"} /\ Found(u) \subseteq {"src", "dst"} /\ Found(u)' = Found(u)
  BY CallType DEF Found
<1>3. Phase(u)'
  BY <1>2 DEF Thread, Phase
<1>4. Resolved(u)'
  BY <1>1, <1>2, CommittedStable DEF Thread, Resolved
<1>5. Creating(u)'
  BY DEF Thread, Creating
<1>6. Created(u)'
  <2>1. ASSUME pc[u] = "commit" PROVE \A s \in creating[u] : Committed(id[u][s], None)'
    BY <2>1 DEF Thread, Created, Committed, Grows
  <2>2. ASSUME pc[u] = "return" PROVE \A s \in creating[u] : Committed(id[u][s], call[u][s])'
    BY <2>2, <1>1, <1>2, CommittedStable DEF Thread, Created
  <2>. QED
    BY <2>1, <2>2 DEF Thread, Created
<1>. QED
  BY <1>3, <1>4, <1>5, <1>6 DEF Thread

-----------------------------------------------------------------------------
(* The driver as constructed: an empty dictionary over an empty GTX graph. *)
LEMMA InitDictInv == Init => DictInv
<1> SUFFICES ASSUME Init PROVE DictInv
  OBVIOUS
<1>1. TypeOK
  <2>1. edgeData = <<>> /\ DOMAIN edgeData = {} /\ edgeData \in [DOMAIN edgeData -> Nat]
    BY DEF Init
  <2>2. \A t \in Threads : call[t] \in Requests
    BY DriverAssumption DEF Init
  <2>3. \A t \in Threads : /\ DOMAIN tx[t].writes = {}
                           /\ tx[t].writes \in [DOMAIN tx[t].writes -> Nat \cup {Absent}]
    <3>1. \A t \in Threads : tx[t].writes = <<>>
      BY DEF Init, EmptyTx
    <3>2. DOMAIN <<>> = {} /\ <<>> \in [DOMAIN <<>> -> Nat \cup {Absent}]
      OBVIOUS
    <3>. QED
      BY <3>1, <3>2
  <2>4. call \in [Threads -> Requests]
    BY <2>2 DEF Init
  <2>5. vertexData \in Seq(Vertices \cup {None})
    BY DEF Init
  <2>6. m_is_directed \in BOOLEAN /\ 0 \in 0 .. CounterMod - 1 /\ 0 \in 0 .. MaxCalls
        /\ 0 \in 0 .. MaxRollbacks
    BY DriverAssumption DEF Init
  <2>7. /\ dictionary \in [Vertices -> Nat \cup {NoEntry}] /\ readers \in [Vertices -> SUBSET Threads]
        /\ writer \in [Vertices -> Threads \cup {None}]
        /\ pc \in [Threads -> {"idle", "find", "insert", "begin", "commit", "return"}]
        /\ side \in [Threads -> {"src", "dst"}] /\ id \in [Threads -> [src : Nat, dst : Nat]]
        /\ creating \in [Threads -> SUBSET {"src", "dst"}]
        /\ DOMAIN tx = Threads /\ result \in [Threads -> BOOLEAN]
    BY DEF Init
  <2>. QED
    BY <2>1, <2>3, <2>4, <2>5, <2>6, <2>7 DEF TypeOK, Init
<1>2. \A t \in Threads : Thread(t)
  BY DEF Init, Thread, Phase, Resolved, Creating, Created
<1>3. Fresh /\ Entries /\ Store
  BY DEF Init, Fresh, Entries, Store
<1>. QED
  BY <1>1, <1>2, <1>3 DEF DictInv

-----------------------------------------------------------------------------
(* Looking for the endpoints: GTX is left alone. *)

(* A call begins: its thread has found and created nothing yet. *)
LEMMA InvokeDictInv ==
    ASSUME DictInv, NEW t \in Threads, NEW r \in Requests, Invoke(t, r)
    PROVE  DictInv'
<1> USE DEF Invoke, counterVars, lockVars, storeVars
<1>1. TypeOK'
  <2>1. calls' \in 0 .. MaxCalls
    BY DriverAssumption DEF DictInv, TypeOK
  <2>2. call' \in [Threads -> Requests] /\ side' \in [Threads -> {"src", "dst"}]
    BY DEF DictInv, TypeOK
  <2>3. pc' \in [Threads -> {"idle", "find", "insert", "begin", "commit", "return"}]
    BY DEF DictInv, TypeOK
  <2>4. id' \in [Threads -> [src : Nat, dst : Nat]]
    BY DEF DictInv, TypeOK
  <2>5. creating' \in [Threads -> SUBSET {"src", "dst"}] /\ result' \in [Threads -> BOOLEAN]
    BY DEF DictInv, TypeOK
  <2>. QED
    BY <2>1, <2>2, <2>3, <2>4, <2>5 DEF DictInv, TypeOK
<1>2. ASSUME NEW u \in Threads, u # t PROVE Thread(u)'
  <2>1. /\ pc'[u] = pc[u] /\ call'[u] = call[u] /\ side'[u] = side[u] /\ id'[u] = id[u]
        /\ creating'[u] = creating[u] /\ result'[u] = result[u] /\ Grows
    BY <1>2 DEF DictInv, TypeOK, Grows
  <2>. QED
    BY <2>1, OtherThread DEF DictInv
<1>3. Thread(t)'
  <2>1. /\ pc'[t] = (IF r.op = "add_vertex" THEN "insert" ELSE "find") /\ call'[t] = r
        /\ side'[t] = "src" /\ creating'[t] = {} /\ result'[t] = FALSE
    BY DEF DictInv, TypeOK
  <2>. QED
    BY <2>1 DEF Thread, Phase, Resolved, Creating, Created, Found
<1>4. /\ pc[t] = "idle" /\ pc'[t] \notin {"idle", "commit"}
      /\ \A u \in Threads : u # t => /\ pc'[u] = pc[u] /\ call'[u] = call[u]
                                     /\ id'[u] = id[u] /\ creating'[u] = creating[u]
  BY DEF DictInv, TypeOK
<1>5. Fresh'
  BY <1>4 DEF DictInv, Fresh
<1>6. Entries'
  BY <1>4 DEF DictInv, Entries, Committed
<1>7. Store'
  BY <1>4 DEF DictInv, Store
<1>. QED
  BY <1>1, <1>2, <1>3, <1>5, <1>6, <1>7 DEF DictInv

(* The step after the entry of an endpoint is locked. *)
LEMMA NextVertexStep ==
    ASSUME TypeOK, NEW t \in Threads, NextVertex(t)
    PROVE  /\ pc' \in [Threads -> {"idle", "find", "insert", "begin", "commit", "return"}]
           /\ side' \in [Threads -> {"src", "dst"}]
           /\ \A u \in Threads : u # t => pc'[u] = pc[u] /\ side'[u] = side[u]
           /\ \/ side[t] = "src" /\ call[t].op # "add_vertex" /\ pc'[t] = "find" /\ side'[t] = "dst"
              \/ /\ side[t] = "dst" \/ call[t].op = "add_vertex"
                 /\ pc'[t] = "begin" /\ side'[t] = side[t]
  BY DEF TypeOK, NextVertex

(* An entry that is not locked for writing refers to its vertex. *)
LEMMA UnlockedEntry ==
    ASSUME TypeOK, Entries, NEW v \in Vertices, dictionary[v] # NoEntry, writer[v] = None
    PROVE  Committed(dictionary[v], v) /\ dictionary[v] \in Nat
<1>1. None \notin Threads
  BY DriverAssumption
<1>. QED
  BY <1>1 DEF Entries, TypeOK

(* A thread that has found the entry of an endpoint goes on. *)
LEMMA EndpointFound ==
    ASSUME DictInv, NEW t \in Threads, pc[t] \in {"find", "insert"},
           pc[t] = "insert" => call[t].op # "add_vertex",
           dictionary[Target(t)] # NoEntry, writer[Target(t)] = None,
           id' = [id EXCEPT ![t][side[t]] = dictionary[Target(t)]],
           NextVertex(t), result'[t] = result[t], UNCHANGED <<call, creating, vertexData>>
    PROVE  /\ id' \in [Threads -> [src : Nat, dst : Nat]]
           /\ \A u \in Threads : u # t => id'[u] = id[u]
           /\ Phase(t)' /\ Resolved(t)'
<1>1. Target(t) \in Vertices /\ side[t] \in {"src", "dst"} /\ Target(t) = call[t][side[t]]
      /\ id \in [Threads -> [src : Nat, dst : Nat]] /\ creating[t] \subseteq {"src", "dst"}
  BY CallType DEF Target, DictInv, TypeOK
<1>2. Committed(dictionary[Target(t)], Target(t)) /\ dictionary[Target(t)] \in Nat
  BY <1>1, UnlockedEntry DEF DictInv
<1>3. id' \in [Threads -> [src : Nat, dst : Nat]] /\ \A u \in Threads : u # t => id'[u] = id[u]
  BY <1>1, <1>2
<1>4. /\ id'[t][side[t]] = dictionary[Target(t)]
      /\ \A s \in {"src", "dst"} : s # side[t] => id'[t][s] = id[t][s]
  BY <1>1, <1>2
<1>5. /\ Phase(t) /\ Resolved(t) /\ call[t].op # "add_vertex"
  BY DEF DictInv, Thread, Phase
<1>6. \/ side[t] = "src" /\ pc'[t] = "find" /\ side'[t] = "dst"
      \/ side[t] = "dst" /\ pc'[t] = "begin" /\ side'[t] = "dst"
  BY <1>5, NextVertexStep DEF DictInv
<1>7. Phase(t)'
  BY <1>5, <1>6 DEF Phase, Found
<1>8. \A s \in {"src", "dst"} \ creating[t] : s \in Found(t)' => Committed(id'[t][s], call[t][s])
  <2>1. ASSUME NEW s \in {"src", "dst"} \ creating[t], s \in Found(t)', s # side[t]
        PROVE  Committed(id[t][s], call[t][s])
    BY <2>1, <1>5, <1>6, <1>1 DEF Resolved, Found
  <2>. QED
    BY <2>1, <1>1, <1>2, <1>4
<1>9. Resolved(t)'
  <2>1. Found(t)' \subseteq {"src", "dst"}
    BY <1>6 DEF Found
  <2>. QED
    BY <1>8, <2>1 DEF Resolved, Committed
<1>. QED
  BY <1>3, <1>7, <1>9

(* find() of an accessor returned the entry of an endpoint, which is locked. *)
LEMMA FindDictInv ==
    ASSUME DictInv, NEW t \in Threads, Find(t)
    PROVE  DictInv'
<1> USE DEF Find, counterVars, boundVars, storeVars
<1>1. /\ id' \in [Threads -> [src : Nat, dst : Nat]] /\ \A u \in Threads : u # t => id'[u] = id[u]
      /\ Phase(t)' /\ Resolved(t)'
  BY EndpointFound
<1>2. /\ pc' \in [Threads -> {"idle", "find", "insert", "begin", "commit", "return"}]
      /\ side' \in [Threads -> {"src", "dst"}] /\ pc'[t] \in {"find", "begin"}
      /\ \A u \in Threads : u # t => pc'[u] = pc[u] /\ side'[u] = side[u]
  BY NextVertexStep DEF DictInv
<1>3. TypeOK'
  <2>1. readers' \in [Vertices -> SUBSET Threads]
    BY DEF DictInv, TypeOK
  <2>. QED
    BY <1>1, <1>2, <2>1 DEF DictInv, TypeOK
<1>4. ASSUME NEW u \in Threads, u # t PROVE Thread(u)'
  <2>1. Grows
    BY DEF Grows
  <2>. QED
    BY <1>1, <1>2, <1>4, <2>1, OtherThread DEF DictInv
<1>5. Thread(t)'
  <2>1. Creating(t)' /\ Created(t)'
    BY <1>2 DEF DictInv, Thread, Creating, Created
  <2>. QED
    BY <1>1, <2>1 DEF Thread
<1>6. Fresh' /\ Store'
  BY <1>1, <1>2 DEF DictInv, Fresh, Store
<1>7. Entries'
  BY <1>1, <1>2 DEF DictInv, Entries, Committed
<1>. QED
  BY <1>3, <1>4, <1>5, <1>6, <1>7 DEF DictInv

(* find() returned no entry: the call goes on to insert it, or gives up. *)
LEMMA NotFoundDictInv ==
    ASSUME DictInv, NEW t \in Threads, NotFound(t)
    PROVE  DictInv'
<1> USE DEF NotFound, counterVars, boundVars, storeVars, lockVars, localVars
<1>1. /\ pc' \in [Threads -> {"idle", "find", "insert", "begin", "commit", "return"}]
      /\ pc'[t] = (IF call[t].op \in Upserts THEN "insert" ELSE "return")
      /\ \A u \in Threads : u # t => pc'[u] = pc[u]
  BY DEF DictInv, TypeOK
<1>2. TypeOK'
  BY <1>1 DEF DictInv, TypeOK
<1>3. ASSUME NEW u \in Threads, u # t PROVE Thread(u)'
  <2>1. Grows
    BY DEF Grows
  <2>. QED
    BY <1>1, <1>3, <2>1, OtherThread DEF DictInv
<1>4. Thread(t)'
  <2>1. Thread(t) /\ pc[t] = "find"
    BY DEF DictInv
  <2>. QED
    BY <1>1, <2>1 DEF Thread, Phase, Resolved, Creating, Created, Found, Committed
<1>5. Fresh' /\ Store'
  BY <1>1 DEF DictInv, Fresh, Store
<1>6. Entries'
  BY <1>1 DEF DictInv, Entries, Committed
<1>. QED
  BY <1>2, <1>3, <1>4, <1>5, <1>6 DEF DictInv

(* insert() added an unset entry, which its creator locks until it returns. *)
LEMMA InsertEntryDictInv ==
    ASSUME DictInv, NEW t \in Threads, InsertEntry(t)
    PROVE  DictInv'
<1> USE DEF InsertEntry, counterVars, boundVars, storeVars
<1>1. /\ pc' \in [Threads -> {"idle", "find", "insert", "begin", "commit", "return"}]
      /\ side' \in [Threads -> {"src", "dst"}]
      /\ \A u \in Threads : u # t => pc'[u] = pc[u] /\ side'[u] = side[u]
      /\ \/ side[t] = "src" /\ call[t].op # "add_vertex" /\ pc'[t] = "find" /\ side'[t] = "dst"
         \/ /\ side[t] = "dst" \/ call[t].op = "add_vertex"
            /\ pc'[t] = "begin" /\ side'[t] = side[t]
  BY NextVertexStep DEF DictInv
<1>2. /\ creating'[t] = creating[t] \cup {side[t]} /\ creating' \in [Threads -> SUBSET {"src", "dst"}]
      /\ \A u \in Threads : u # t => creating'[u] = creating[u]
  BY DEF DictInv, TypeOK
<1>3. /\ Target(t) \in Vertices /\ Target(t) = call[t][side[t]] /\ side[t] \in {"src", "dst"}
      /\ creating[t] \subseteq {"src", "dst"}
  BY CallType DEF Target, DictInv
<1>4. /\ dictionary'[Target(t)] = 0 /\ writer'[Target(t)] = t
      /\ \A v \in Vertices : v # Target(t) => dictionary'[v] = dictionary[v] /\ writer'[v] = writer[v]
  BY <1>3 DEF DictInv, TypeOK
<1>5. TypeOK'
  <2>1. dictionary' \in [Vertices -> Nat \cup {NoEntry}] /\ writer' \in [Vertices -> Threads \cup {None}]
    BY <1>3 DEF DictInv, TypeOK
  <2>. QED
    BY <1>1, <1>2, <2>1 DEF DictInv, TypeOK
<1>6. \A u \in Threads : pc[u] # "idle" => \A s \in creating[u] : call[u][s] # Target(t)
  BY <1>3 DEF DictInv, Thread, Creating, NoEntry
<1>7. ASSUME NEW u \in Threads, u # t PROVE Thread(u)'
  <2>1. Grows
    BY DEF Grows
  <2>2. \A s \in creating[u] : call[u][s] \in Vertices
    BY CallType DEF DictInv
  <2>3. pc[u] # "idle" => \A s \in creating[u] : /\ writer'[call[u][s]] = writer[call[u][s]]
                                                 /\ dictionary'[call[u][s]] = dictionary[call[u][s]]
    BY <1>4, <1>6, <2>2
  <2>. QED
    BY <1>1, <1>2, <1>7, <2>1, <2>3, OtherThread DEF DictInv
<1>8. Thread(t)'
  <2>1. Phase(t) /\ Resolved(t) /\ Creating(t) /\ pc[t] = "insert"
    BY DEF DictInv, Thread
  <2>2. Phase(t)'
    BY <2>1, <1>1, <1>2, <1>3 DEF Phase, Found
  <2>3. Resolved(t)'
    BY <2>1, <1>1, <1>2, <1>3 DEF Resolved, Phase, Found, Committed
  <2>4. Creating(t)'
    <3>1. \A s \in creating[t] : call[t][s] \in Vertices /\ call[t][s] # Target(t)
      BY <1>6, <2>1, CallType DEF DictInv
    <3>. QED
      BY <3>1, <2>1, <1>2, <1>3, <1>4 DEF Creating
  <2>5. Created(t)'
    BY <1>1 DEF Created
  <2>. QED
    BY <2>2, <2>3, <2>4, <2>5 DEF Thread
<1>9. Fresh' /\ Store' /\ Entries'
  <2>1. \A i \in DOMAIN vertexData : vertexData[i] # None =>
           vertexData[i] \in Vertices /\ vertexData[i] # Target(t)
    <3>1. ASSUME NEW i \in DOMAIN vertexData, vertexData[i] = Target(t) PROVE FALSE
      <4>1. i \in Nat /\ Target(t) # None
        BY <1>3, StoreType, DriverAssumption DEF DictInv
      <4>. QED
        BY <3>1, <4>1, <1>6 DEF DictInv, Store, NoEntry
    <3>. QED
      BY <3>1, StoreType DEF DictInv
  <2>2. Fresh'
    BY <1>1, <1>2 DEF DictInv, Fresh
  <2>3. Store'
    BY <2>1, <1>1, <1>2, <1>4 DEF DictInv, Store
  <2>4. Entries'
    <3>1. \E s \in creating'[t] : call[t][s] = Target(t)
      BY <1>2, <1>3
    <3>2. creating[t] \subseteq creating'[t] /\ pc'[t] # "idle" /\ pc[t] # "idle"
      BY <1>1, <1>2
    <3>. QED
      BY <3>1, <3>2, <1>1, <1>2, <1>4 DEF DictInv, Entries, Committed
  <2>. QED
    BY <2>2, <2>3, <2>4
<1>. QED
  BY <1>5, <1>7, <1>8, <1>9 DEF DictInv

(* insert() met an entry of another call, which is set once it is unlocked. *)
LEMMA LockEntryDictInv ==
    ASSUME DictInv, NEW t \in Threads, LockEntry(t)
    PROVE  DictInv'
<1> USE DEF LockEntry, counterVars, boundVars, storeVars
<1>1. /\ Target(t) \in Vertices /\ Target(t) = call[t][side[t]] /\ side[t] \in {"src", "dst"}
      /\ Committed(dictionary[Target(t)], Target(t)) /\ dictionary[Target(t)] \in Nat
  BY CallType, UnlockedEntry DEF Target, DictInv
<1>2. /\ id' \in [Threads -> [src : Nat, dst : Nat]] /\ \A u \in Threads : u # t => id'[u] = id[u]
      /\ writer' \in [Vertices -> Threads \cup {None}]
      /\ \A v \in Vertices : v # Target(t) => writer'[v] = writer[v]
  <2>1. /\ id \in [Threads -> [src : Nat, dst : Nat]] /\ writer \in [Vertices -> Threads \cup {None}]
        /\ id' = [id EXCEPT ![t][side[t]] = dictionary[Target(t)]]
        /\ writer' = [writer EXCEPT ![Target(t)] = t]
    BY DEF DictInv, TypeOK
  <2>2. id' \in [Threads -> [src : Nat, dst : Nat]] /\ \A u \in Threads : u # t => id'[u] = id[u]
    BY <2>1, <1>1
  <2>. QED
    BY <2>1, <2>2, <1>1
<1>3. /\ pc' \in [Threads -> {"idle", "find", "insert", "begin", "commit", "return"}]
      /\ side' \in [Threads -> {"src", "dst"}] /\ pc'[t] \in {"find", "begin", "return"}
      /\ \A u \in Threads : u # t => pc'[u] = pc[u] /\ side'[u] = side[u]
  <2>1. CASE call[t].op = "add_vertex"
    BY <2>1 DEF DictInv, TypeOK
  <2>2. CASE call[t].op # "add_vertex"
    BY <2>2, NextVertexStep DEF DictInv
  <2>. QED
    BY <2>1, <2>2
<1>4. TypeOK'
  BY <1>2, <1>3 DEF DictInv, TypeOK
<1>5. \A u \in Threads : pc[u] # "idle" => \A s \in creating[u] : call[u][s] # Target(t)
  <2>1. None \notin Threads
    BY DriverAssumption
  <2>. QED
    BY <2>1 DEF DictInv, Thread, Creating
<1>6. ASSUME NEW u \in Threads
      PROVE  /\ \A s \in creating[u] : call[u][s] \in Vertices
             /\ pc[u] # "idle" => \A s \in creating[u] : writer'[call[u][s]] = writer[call[u][s]]
  <2>1. \A s \in creating[u] : call[u][s] \in Vertices
    BY CallType DEF DictInv
  <2>. QED
    BY <2>1, <1>2, <1>5
<1>7. ASSUME NEW u \in Threads, u # t PROVE Thread(u)'
  <2>1. Grows
    BY DEF Grows
  <2>. QED
    BY <1>2, <1>3, <1>6, <1>7, <2>1, OtherThread DEF DictInv
<1>8. Thread(t)'
  <2>1. Phase(t) /\ Resolved(t) /\ Creating(t) /\ pc[t] = "insert"
    BY DEF DictInv, Thread
  <2>2. Creating(t)'
    BY <2>1, <1>6 DEF Creating
  <2>3. CASE call[t].op # "add_vertex"
    <3>1. Phase(t)' /\ Resolved(t)'
      BY <2>3, <2>1, EndpointFound
    <3>2. Created(t)'
      BY <2>3, NextVertexStep DEF DictInv, Created
    <3>. QED
      BY <3>1, <3>2, <2>2 DEF Thread
  <2>4. CASE call[t].op = "add_vertex"
    <3>1. pc'[t] = "return" /\ UNCHANGED side /\ creating[t] = {}
      BY <2>4, <2>1 DEF DictInv, TypeOK, Phase, Found
    <3>2. Phase(t)' /\ Resolved(t)' /\ Created(t)'
      BY <3>1, <2>1 DEF Phase, Resolved, Created
    <3>. QED
      BY <3>2, <2>2 DEF Thread
  <2>. QED
    BY <2>3, <2>4
<1>9. Fresh' /\ Store'
  BY <1>2, <1>3 DEF DictInv, Fresh, Store
<1>10. Entries'
  <2>1. ASSUME NEW v \in Vertices, dictionary[v] # NoEntry, v # Target(t),
               NEW u \in Threads, pc[u] # "idle", writer[v] = u, NEW s \in creating[u], call[u][s] = v
        PROVE  pc'[u] # "idle" /\ writer'[v] = u
    BY <2>1, <1>2, <1>3
  <2>. QED
    BY <2>1, <1>1 DEF DictInv, Entries, Committed
<1>. QED
  BY <1>4, <1>7, <1>8, <1>9, <1>10 DEF DictInv

-----------------------------------------------------------------------------
(* The transactions *)

(* The transaction of a thread is the only thing a body changes, but for   *)
(* the vertices it creates.                                                *)
LEMMA WriteType ==
    ASSUME TypeOK, NEW t \in Threads, NEW arcs, arcs \subseteq Nat \X Nat, NEW w \in Nat \cup {Absent},
           Write(t, arcs, w)
    PROVE  /\ DOMAIN tx' = Threads
           /\ \A u \in Threads : /\ DOMAIN tx'[u].writes \subseteq Nat \X Nat
                                 /\ tx'[u].writes \in [DOMAIN tx'[u].writes -> Nat \cup {Absent}]
           /\ tx'[t] = [read |-> Restricted(edgeData, arcs), writes |-> [a \in arcs |-> w]]
           /\ \A u \in Threads : u # t => tx'[u] = tx[u]
           /\ pc' \in [Threads -> {"idle", "find", "insert", "begin", "commit", "return"}]
           /\ pc'[t] = "commit" /\ \A u \in Threads : u # t => pc'[u] = pc[u]
<1>1. /\ DOMAIN tx' = Threads
      /\ tx'[t] = [read |-> Restricted(edgeData, arcs), writes |-> [a \in arcs |-> w]]
      /\ \A u \in Threads : u # t => tx'[u] = tx[u]
  BY DEF Write, TypeOK
<1>2. tx'[t].writes = [a \in arcs |-> w]
  BY <1>1
<1>3. DOMAIN tx'[t].writes = arcs /\ tx'[t].writes \in [arcs -> Nat \cup {Absent}]
  BY <1>2
<1>4. /\ pc' \in [Threads -> {"idle", "find", "insert", "begin", "commit", "return"}]
      /\ pc'[t] = "commit" /\ \A u \in Threads : u # t => pc'[u] = pc[u]
  BY DEF Write, TypeOK
<1>5. ASSUME NEW u \in Threads
      PROVE  /\ DOMAIN tx'[u].writes \subseteq Nat \X Nat
             /\ tx'[u].writes \in [DOMAIN tx'[u].writes -> Nat \cup {Absent}]
  <2>1. CASE u = t
    BY <2>1, <1>3
  <2>2. CASE u # t
    BY <2>2, <1>1 DEF TypeOK
  <2>. QED
    BY <2>1, <2>2
<1>. QED
  BY <1>1, <1>4, <1>5

(* The arcs between two internal vertices. *)
LEMMA ArcsType ==
    ASSUME NEW e \in [src : Nat, dst : Nat], NEW b
    PROVE  Arcs(e, b) \subseteq Nat \X Nat
  BY DEF Arcs

(* What a body answers. *)
LEMMA SucceedsType ==
    ASSUME NEW e, NEW b \in BOOLEAN
    PROVE  Succeeds(e, b) \in BOOLEAN
  BY DEF Succeeds

(* A body that creates no vertex. *)
LEMMA BodyDictInv ==
    ASSUME DictInv, NEW t \in Threads, BodyAdd(t) \/ BodyRemove(t) \/ BodyRead(t)
    PROVE  DictInv'
<1> USE DEF counterVars, boundVars, storeVars, lockVars
<1>1. /\ UNCHANGED <<call, side, id, creating, counterVars, boundVars, lockVars, storeVars>>
      /\ pc[t] = "begin" /\ call[t].op \in {"add_edge", "remove_edge", "get_weight"}
  BY DEF BodyAdd, BodyRemove, BodyRead
<1>2. \A b : Arcs(id[t], b) \subseteq Nat \X Nat
  BY ArcsType DEF DictInv, TypeOK
<1>3. call[t].weight \in Nat \cup {Absent} /\ Absent \in Nat \cup {Absent}
  BY CallType DEF DictInv
<1>4. /\ DOMAIN tx' = Threads
      /\ \A u \in Threads : /\ DOMAIN tx'[u].writes \subseteq Nat \X Nat
                            /\ tx'[u].writes \in [DOMAIN tx'[u].writes -> Nat \cup {Absent}]
      /\ pc' \in [Threads -> {"idle", "find", "insert", "begin", "commit", "return"}]
      /\ pc'[t] \in {"commit", "return"} /\ \A u \in Threads : u # t => pc'[u] = pc[u]
  <2>1. CASE UNCHANGED tx
    <3>1. pc' = [pc EXCEPT ![t] = "return"] \/ pc' = [pc EXCEPT ![t] = "commit"]
      BY DEF BodyAdd, BodyRemove, BodyRead, Write
    <3>. QED
      BY <2>1, <3>1 DEF DictInv, TypeOK
  <2>2. CASE ~ UNCHANGED tx
    <3>1. \E b \in BOOLEAN, w \in {call[t].weight, Absent} : Write(t, Arcs(id[t], b), w)
      <4>1. CASE BodyAdd(t)
        BY <2>2, <4>1 DEF BodyAdd
      <4>2. CASE BodyRemove(t)
        <5> DEFINE b == Exists(<<id[t].src, id[t].dst>>)
        <5>1. b \in BOOLEAN
          BY DEF Exists
        <5>2. Write(t, Arcs(id[t], b), Absent)
          BY <4>2 DEF BodyRemove
        <5> HIDE DEF b
        <5>. QED
          BY <5>1, <5>2
      <4>. QED
        BY <2>2, <4>1, <4>2 DEF BodyRead
    <3>. QED
      BY <3>1, <1>2, <1>3, WriteType DEF DictInv
  <2>. QED
    BY <2>1, <2>2
<1>5. /\ result' \in [Threads -> BOOLEAN] /\ \A u \in Threads : u # t => result'[u] = result[u]
  <2>1. \E b \in BOOLEAN : result' = [result EXCEPT ![t] = b]
    <3> DEFINE removed == Succeeds(id[t], TRUE)
    <3> DEFINE exists == Exists(<<id[t].src, id[t].dst>>)
    <3>1. removed \in BOOLEAN /\ exists \in BOOLEAN
      <4>1. removed \in BOOLEAN
        BY SucceedsType, Zenon
      <4>2. exists \in BOOLEAN
        BY DEF Exists
      <4>. QED
        BY <4>1, <4>2
    <3>2. \/ result' = [result EXCEPT ![t] = TRUE] \/ result' = [result EXCEPT ![t] = FALSE]
          \/ result' = [result EXCEPT ![t] = removed] \/ result' = [result EXCEPT ![t] = exists]
      BY DEF BodyAdd, BodyRemove, BodyRead
    <3> HIDE DEF removed, exists
    <3>. QED
      BY <3>1, <3>2
  <2>. QED
    BY <2>1 DEF DictInv, TypeOK
<1>6. TypeOK'
  BY <1>1, <1>4, <1>5 DEF DictInv, TypeOK
<1>7. ASSUME NEW u \in Threads, u # t PROVE Thread(u)'
  <2>1. Grows
    BY <1>1 DEF Grows
  <2>. QED
    BY <1>1, <1>4, <1>5, <1>7, <2>1, OtherThread DEF DictInv
<1>8. Thread(t)'
  <2>1. Thread(t) /\ creating[t] = {}
    BY <1>1 DEF DictInv, Thread, Phase, Upserts
  <2>. QED
    BY <1>1, <1>4, <2>1 DEF Thread, Phase, Resolved, Creating, Created, Found, Committed
<1>9. Fresh' /\ Store'
  <2>1. creating[t] = {}
    BY <1>1 DEF DictInv, Thread, Phase, Upserts
  <2>. QED
    BY <1>1, <1>4, <2>1 DEF DictInv, Fresh, Store
<1>10. Entries'
  BY <1>1, <1>4 DEF DictInv, Entries, Committed
<1>. QED
  BY <1>6, <1>7, <1>8, <1>9, <1>10 DEF DictInv

(* How many vertices a call creates. *)
LEMMA SidesCount ==
    /\ Cardinality({}) = 0 /\ Cardinality({"src"}) = 1 /\ Cardinality({"dst"}) = 1
    /\ Cardinality({"src", "dst"}) = 2
    /\ \A S \in SUBSET {"src", "dst"} : S = {} \/ S = {"src"} \/ S = {"dst"} \/ S = {"src", "dst"}
<1>1. Cardinality({}) = 0
  BY FS_EmptySet
<1>2. /\ Cardinality({"src"}) = 1 /\ Cardinality({"dst"}) = 1 /\ IsFiniteSet({"src"})
  BY FS_Singleton
<1>3. {"src", "dst"} = {"src"} \cup {"dst"} /\ "dst" \notin {"src"}
  OBVIOUS
<1>4. Cardinality({"src", "dst"}) = 2
  BY <1>2, <1>3, FS_AddElement
<1>. QED
  BY <1>1, <1>2, <1>4

(* The internal ids of the endpoints of an edge: those found, and new ones *)
(* for those to create.                                                    *)
LEMMA AllocateIds ==
    ASSUME TypeOK, NEW t \in Threads
    PROVE  /\ Allocate(t) \in [src : Nat, dst : Nat] /\ Cardinality(creating[t]) \in Nat
           /\ \A s \in {"src", "dst"} \ creating[t] : Allocate(t)[s] = id[t][s]
           /\ \A s \in creating[t] :
                Allocate(t)[s] \in Len(vertexData) + 1 .. Len(vertexData) + Cardinality(creating[t])
           /\ \A r, s \in creating[t] : Allocate(t)[r] = Allocate(t)[s] => r = s
<1>1. /\ Len(vertexData) \in Nat /\ id[t].src \in Nat /\ id[t].dst \in Nat
      /\ creating[t] \in SUBSET {"src", "dst"}
  BY StoreType DEF TypeOK
<1>2. /\ Allocate(t).src = IF "src" \in creating[t] THEN Len(vertexData) + 1 ELSE id[t].src
      /\ Allocate(t).dst = IF "dst" \notin creating[t] THEN id[t].dst
                           ELSE IF "src" \in creating[t] THEN Len(vertexData) + 2 ELSE Len(vertexData) + 1
  BY DEF Allocate
<1>3. Allocate(t) \in [src : Nat, dst : Nat]
  BY <1>1 DEF Allocate
<1>4. CASE creating[t] = {}
  BY <1>1, <1>2, <1>3, <1>4, SidesCount
<1>5. CASE creating[t] = {"src"}
  BY <1>1, <1>2, <1>3, <1>5, SidesCount
<1>6. CASE creating[t] = {"dst"}
  BY <1>1, <1>2, <1>3, <1>6, SidesCount
<1>7. CASE creating[t] = {"src", "dst"}
  BY <1>1, <1>2, <1>3, <1>7, SidesCount
<1>. QED
  BY <1>1, <1>4, <1>5, <1>6, <1>7, SidesCount

(* A body that creates vertices: they are new to every other transaction,  *)
(* and not visible.                                                        *)
LEMMA CreateDictInv ==
    ASSUME DictInv, NEW t \in Threads, pc[t] = "begin",
           UNCHANGED <<call, side, creating, edgeData, counterVars, boundVars, lockVars>>,
           id' = [id EXCEPT ![t] = Allocate(t)],
           vertexData' \in Seq(Vertices \cup {None}),
           Len(vertexData') = Len(vertexData) + Cardinality(creating[t]),
           \A i \in 1 .. Len(vertexData') :
               vertexData'[i] = IF i <= Len(vertexData) THEN vertexData[i] ELSE None,
           NEW arcs, arcs \subseteq Nat \X Nat, NEW w \in Nat \cup {Absent}, Write(t, arcs, w),
           NEW b \in BOOLEAN, result' = [result EXCEPT ![t] = b]
    PROVE  DictInv'
<1> USE DEF counterVars, boundVars, lockVars
<1>1. /\ DOMAIN tx' = Threads
      /\ \A u \in Threads : /\ DOMAIN tx'[u].writes \subseteq Nat \X Nat
                            /\ tx'[u].writes \in [DOMAIN tx'[u].writes -> Nat \cup {Absent}]
      /\ pc' \in [Threads -> {"idle", "find", "insert", "begin", "commit", "return"}]
      /\ pc'[t] = "commit" /\ \A u \in Threads : u # t => pc'[u] = pc[u]
  BY WriteType DEF DictInv
<1>2. /\ Allocate(t) \in [src : Nat, dst : Nat] /\ Cardinality(creating[t]) \in Nat
      /\ \A s \in {"src", "dst"} \ creating[t] : Allocate(t)[s] = id[t][s]
      /\ \A s \in creating[t] :
            Allocate(t)[s] \in Len(vertexData) + 1 .. Len(vertexData) + Cardinality(creating[t])
      /\ \A r, s \in creating[t] : Allocate(t)[r] = Allocate(t)[s] => r = s
  BY AllocateIds DEF DictInv
<1>3. /\ id' \in [Threads -> [src : Nat, dst : Nat]] /\ id'[t] = Allocate(t)
      /\ result' \in [Threads -> BOOLEAN]
      /\ \A u \in Threads : u # t => id'[u] = id[u] /\ result'[u] = result[u]
  BY <1>2 DEF DictInv, TypeOK
<1>4. TypeOK'
  BY <1>1, <1>3 DEF DictInv, TypeOK
<1>5. /\ Len(vertexData) \in Nat /\ DOMAIN vertexData = 1 .. Len(vertexData)
      /\ DOMAIN vertexData' = 1 .. Len(vertexData')
  BY StoreType, LenProperties DEF DictInv
<1>6. Grows /\ \A i \in DOMAIN vertexData : vertexData'[i] = vertexData[i]
  BY <1>2, <1>5 DEF Grows
<1>7. ASSUME NEW u \in Threads, u # t PROVE Thread(u)'
  <2>1. pc[u] = "commit" => \A s \in creating[u] : vertexData'[id[u][s]] = vertexData[id[u][s]]
    BY <1>6 DEF DictInv, Thread, Created, Committed
  <2>. QED
    BY <1>1, <1>3, <1>6, <1>7, <2>1, OtherThread DEF DictInv
<1>8. \A s \in creating[t] : Committed(id[t][s], None)' /\ ~ (id'[t][s] <= Len(vertexData))
  BY <1>2, <1>3, <1>5 DEF Committed
<1>9. Thread(t)'
  <2>1. Phase(t) /\ Resolved(t) /\ Creating(t)
    BY DEF DictInv, Thread
  <2>2. Found(t)' = Found(t) /\ Found(t) \subseteq {"src", "dst"}
    BY <1>1 DEF Found
  <2>3. Phase(t)' /\ Creating(t)'
    BY <2>1, <2>2, <1>1 DEF Phase, Creating
  <2>4. Resolved(t)'
    <3>1. ASSUME NEW s \in Found(t) \ creating[t] PROVE Committed(id[t][s], call[t][s])'
      <4>1. id'[t][s] = id[t][s] /\ call[t][s] # None
        BY <2>2, <1>2, <1>3, CallType DEF DictInv
      <4>2. Committed(id[t][s], call[t][s])
        BY <2>1 DEF Resolved
      <4>. QED
        BY <4>1, <4>2, <1>6 DEF Committed, Grows
    <3>. QED
      BY <3>1, <2>2 DEF Resolved
  <2>5. Created(t)'
    BY <1>1, <1>2, <1>3, <1>8 DEF Created
  <2>. QED
    BY <2>3, <2>4, <2>5 DEF Thread
<1>10. Fresh'
  <2>1. ASSUME NEW u \in Threads, u # t, pc[u] = "commit", NEW r \in creating[u]
        PROVE  id[u][r] \in DOMAIN vertexData
    BY <2>1 DEF DictInv, Thread, Created, Committed
  <2>2. ASSUME NEW u \in Threads, u # t, pc[u] = "commit", NEW r \in creating[u], NEW s \in creating[t]
        PROVE  id[u][r] # id'[t][s]
    BY <2>1, <2>2, <1>5, <1>8
  <2>. QED
    BY <2>2, <1>1, <1>3 DEF DictInv, Fresh
<1>11. Store'
  <2>1. ASSUME NEW i \in DOMAIN vertexData', vertexData'[i] # None
        PROVE  i \in DOMAIN vertexData /\ vertexData'[i] = vertexData[i]
    BY <2>1, <1>5
  <2>2. ASSUME NEW u \in Threads, pc[u] = "return"
        PROVE  pc'[u] = "return" /\ creating'[u] = creating[u] /\ call'[u] = call[u] /\ id'[u] = id[u]
    BY <2>2, <1>1, <1>3
  <2>. QED
    BY <2>1, <2>2 DEF DictInv, Store
<1>12. Entries'
  BY <1>1, <1>6 DEF DictInv, Entries, Committed, Grows
<1>. QED
  BY <1>4, <1>7, <1>9, <1>10, <1>11, <1>12 DEF DictInv

(* add_vertex allocates a vertex, invisible until its commit. *)
LEMMA BodyVertexDictInv ==
    ASSUME DictInv, NEW t \in Threads, BodyVertex(t)
    PROVE  DictInv'
<1>1. /\ pc[t] = "begin" /\ id' = [id EXCEPT ![t] = Allocate(t)]
      /\ UNCHANGED <<call, side, creating, edgeData, counterVars, boundVars, lockVars>>
      /\ Write(t, {}, Absent) /\ result' = [result EXCEPT ![t] = TRUE]
      /\ vertexData' = Append(vertexData, None)
  BY DEF BodyVertex
<1>2. Cardinality(creating[t]) = 1
  <2>1. creating[t] = {"src"}
    BY DEF BodyVertex, DictInv, Thread, Phase
  <2>. QED
    BY <2>1, SidesCount
<1>3. vertexData \in Seq(Vertices \cup {None})
  BY DEF DictInv, TypeOK
<1>4. /\ vertexData' \in Seq(Vertices \cup {None}) /\ Len(vertexData') = Len(vertexData) + 1
      /\ \A i \in 1 .. Len(vertexData') :
            vertexData'[i] = IF i <= Len(vertexData) THEN vertexData[i] ELSE None
  BY <1>1, <1>3
<1>. QED
  BY <1>1, <1>2, <1>4, CreateDictInv

(* The weight that update_edge_v1 adds to. *)
LEMMA OldWeight ==
    ASSUME TypeOK, NEW a, NEW b, NEW c
    PROVE  GetEdge(a, b, c) = {} \/ (CHOOSE w \in GetEdge(a, b, c) : TRUE) \in Nat
<1>1. \/ GetEdge(a, b, c) = {}
      \/ \E arc \in DOMAIN edgeData : GetEdge(a, b, c) = {edgeData[arc]}
  BY DEF GetEdge
<1>2. \A arc \in DOMAIN edgeData : (CHOOSE w \in {edgeData[arc]} : TRUE) \in Nat
  BY DEF TypeOK
<1>. QED
  BY <1>1, <1>2

(* add_edge_v2, add_edge_v3 and update_edge_v1 allocate what they create. *)
LEMMA BodyUpsertDictInv ==
    ASSUME DictInv, NEW t \in Threads, BodyUpsert(t)
    PROVE  DictInv'
<1> DEFINE e == Allocate(t)
<1> DEFINE c == Cardinality(creating[t])
<1> DEFINE fresh == ~ Exists(<<e.src, e.dst>>)
<1> DEFINE old == IF call[t].op = "update_edge_v1" /\ creating[t] = {} THEN GetEdge(e.src, e.dst, 1) ELSE {}
<1> DEFINE w == call[t].weight + IF old = {} THEN 0 ELSE CHOOSE x \in old : TRUE
<1>1. /\ pc[t] = "begin" /\ id' = [id EXCEPT ![t] = e]
      /\ UNCHANGED <<call, side, creating, edgeData, counterVars, boundVars, lockVars>>
      /\ vertexData' = vertexData \o [i \in 1 .. c |-> None]
      /\ Write(t, Arcs(e, fresh), w) /\ result' = [result EXCEPT ![t] = Succeeds(e, FALSE)]
  BY DEF BodyUpsert
<1>2. c \in Nat /\ e \in [src : Nat, dst : Nat]
  BY AllocateIds DEF DictInv
<1>3. vertexData \in Seq(Vertices \cup {None})
  BY DEF DictInv, TypeOK
<1>4. /\ vertexData' \in Seq(Vertices \cup {None}) /\ Len(vertexData') = Len(vertexData) + c
      /\ \A i \in 1 .. Len(vertexData') :
            vertexData'[i] = IF i <= Len(vertexData) THEN vertexData[i] ELSE None
  <2> DEFINE new == [i \in 1 .. c |-> None]
  <2>1. new \in Seq(Vertices \cup {None}) /\ Len(new) = c /\ \A i \in 1 .. c : new[i] = None
    BY <1>2
  <2> HIDE DEF new, c
  <2>. QED
    BY <2>1, <1>1, <1>2, <1>3, ConcatProperties
<1>5. w \in Nat \cup {Absent}
  <2>1. old = {} \/ (CHOOSE x \in old : TRUE) \in Nat
    BY OldWeight DEF DictInv
  <2> HIDE DEF old
  <2>. QED
    BY <2>1, CallType DEF DictInv
<1>6. Arcs(e, fresh) \subseteq Nat \X Nat
  BY <1>2, ArcsType
<1>7. Succeeds(e, FALSE) \in BOOLEAN
  BY SucceedsType, Zenon
<1> HIDE DEF e, c, fresh, w
<1>. QED
  BY <1>1, <1>4, <1>5, <1>6, <1>7, CreateDictInv DEF e, c

(* What a commit installs: the arcs written with a weight are stored, and  *)
(* those deleted are not.                                                  *)
LEMMA CommitArcs ==
    ASSUME TypeOK, NEW t \in Threads, Commit(t)
    PROVE  /\ DOMAIN edgeData' = {a \in DOMAIN edgeData \cup DOMAIN tx[t].writes :
                                     a \in DOMAIN tx[t].writes => tx[t].writes[a] # Absent}
           /\ DOMAIN edgeData' \subseteq Nat \X Nat /\ edgeData' \in [DOMAIN edgeData' -> Nat]
<1> DEFINE w == tx[t].writes
<1> DEFINE arcs == DOMAIN edgeData \cup DOMAIN w
<1> DEFINE new == [a \in arcs |-> IF a \in DOMAIN w THEN w[a] ELSE edgeData[a]]
<1> DEFINE kept == {a \in arcs : new[a] # Absent}
<1>1. /\ DOMAIN w \subseteq Nat \X Nat /\ w \in [DOMAIN w -> Nat \cup {Absent}]
      /\ DOMAIN edgeData \subseteq Nat \X Nat /\ edgeData \in [DOMAIN edgeData -> Nat]
  BY DEF TypeOK
<1>2. /\ arcs \subseteq Nat \X Nat /\ \A a \in arcs : new[a] \in Nat \cup {Absent}
      /\ \A a \in DOMAIN edgeData : edgeData[a] # Absent
  BY <1>1 DEF Absent
<1>3. edgeData' = [a \in kept |-> new[a]]
  <2>1. edgeData' = Restricted(new, kept)
    BY DEF Commit
  <2>2. DOMAIN new \cap kept = kept
    OBVIOUS
  <2>. QED
    BY <2>1, <2>2 DEF Restricted, Restrict
<1>4. DOMAIN edgeData' = kept /\ \A a \in kept : edgeData'[a] = new[a] /\ new[a] \in Nat
  BY <1>2, <1>3
<1>5. kept = {a \in DOMAIN edgeData \cup DOMAIN w : a \in DOMAIN w => w[a] # Absent}
  BY <1>2
<1>6. DOMAIN edgeData' \subseteq Nat \X Nat
  BY <1>2, <1>4
<1>7. edgeData' \in [DOMAIN edgeData' -> Nat]
  <2> HIDE DEF kept, new
  <2>. QED
    BY <1>3, <1>4
<1>. QED
  BY <1>4, <1>5, <1>6, <1>7

(* The vertices it created become visible, and nothing else changes. *)
LEMMA CommitVertices ==
    ASSUME DictInv, NEW t \in Threads, Commit(t)
    PROVE  /\ vertexData' \in Seq(Vertices \cup {None}) /\ DOMAIN vertexData' = DOMAIN vertexData
           /\ Len(vertexData') = Len(vertexData)
           /\ \A s \in creating[t] : vertexData'[id[t][s]] = call[t][s]
           /\ \A i \in DOMAIN vertexData :
                 (\A s \in creating[t] : i # id[t][s]) => vertexData'[i] = vertexData[i]
           /\ Grows
<1> DEFINE made(i) == \E s \in creating[t] : i = id[t][s]
<1> DEFINE new(i) == IF made(i) THEN call[t][CHOOSE s \in creating[t] : i = id[t][s]] ELSE vertexData[i]
<1>1. vertexData' = [i \in DOMAIN vertexData |-> new(i)]
  BY DEF Commit
<1>2. /\ \A s \in creating[t] : id[t][s] \in DOMAIN vertexData /\ vertexData[id[t][s]] = None
      /\ \A r, s \in creating[t] : id[t][r] = id[t][s] => r = s
  BY DEF Commit, DictInv, Thread, Created, Committed
<1>3. /\ Len(vertexData) \in Nat /\ DOMAIN vertexData = 1 .. Len(vertexData)
      /\ \A i \in DOMAIN vertexData : vertexData[i] \in Vertices \cup {None}
  BY StoreType DEF DictInv
<1>4. \A s \in creating[t] : call[t][s] \in Vertices
  BY CallType DEF DictInv
<1>5. \A s \in creating[t] : new(id[t][s]) = call[t][s]
  <2> SUFFICES ASSUME NEW s \in creating[t] PROVE new(id[t][s]) = call[t][s]
    OBVIOUS
  <2>1. (CHOOSE r \in creating[t] : id[t][s] = id[t][r]) = s
    BY <1>2
  <2>. QED
    BY <2>1
<1>6. \A i \in DOMAIN vertexData : ~ made(i) => new(i) = vertexData[i]
  OBVIOUS
<1>7. \A i \in DOMAIN vertexData : new(i) \in Vertices \cup {None}
  <2> SUFFICES ASSUME NEW i \in DOMAIN vertexData PROVE new(i) \in Vertices \cup {None}
    OBVIOUS
  <2>1. CASE made(i)
    <3>1. PICK s \in creating[t] : i = id[t][s]
      BY <2>1
    <3>. QED
      BY <3>1, <1>4, <1>5
  <2>2. CASE ~ made(i)
    BY <2>2, <1>3
  <2>. QED
    BY <2>1, <2>2
<1> HIDE DEF new
<1>8. DOMAIN vertexData' = DOMAIN vertexData /\ \A i \in DOMAIN vertexData : vertexData'[i] = new(i)
  BY <1>1
<1>9. vertexData' \in [1 .. Len(vertexData) -> Vertices \cup {None}]
  BY <1>1, <1>3, <1>7
<1>10. vertexData' \in Seq(Vertices \cup {None}) /\ Len(vertexData') = Len(vertexData)
  BY <1>3, <1>9
<1>11. Grows
  BY <1>2, <1>6, <1>8 DEF Grows
<1>. QED
  BY <1>2, <1>5, <1>6, <1>8, <1>10, <1>11

(* A commit publishes the vertices that the call created, all at once. *)
LEMMA CommitDictInv ==
    ASSUME DictInv, NEW t \in Threads, Commit(t)
    PROVE  DictInv'
<1> USE DEF counterVars, boundVars, lockVars, localVars
<1>1. /\ vertexData' \in Seq(Vertices \cup {None}) /\ DOMAIN vertexData' = DOMAIN vertexData
      /\ \A s \in creating[t] : vertexData'[id[t][s]] = call[t][s]
      /\ \A i \in DOMAIN vertexData :
            (\A s \in creating[t] : i # id[t][s]) => vertexData'[i] = vertexData[i]
      /\ Grows
  BY CommitVertices
<1>2. /\ UNCHANGED <<localVars, counterVars, boundVars, lockVars>> /\ pc[t] = "commit"
      /\ pc' \in [Threads -> {"idle", "find", "insert", "begin", "commit", "return"}]
      /\ pc'[t] = "return" /\ \A u \in Threads : u # t => pc'[u] = pc[u]
  BY DEF Commit, DictInv, TypeOK
<1>3. TypeOK'
  <2>1. DOMAIN edgeData' \subseteq Nat \X Nat /\ edgeData' \in [DOMAIN edgeData' -> Nat]
    BY CommitArcs DEF DictInv
  <2>. QED
    BY <1>1, <1>2, <2>1 DEF DictInv, TypeOK
<1>4. ASSUME NEW u \in Threads, u # t PROVE Thread(u)'
  <2>1. ASSUME pc[u] = "commit", NEW s \in creating[u]
        PROVE  vertexData'[id[u][s]] = vertexData[id[u][s]]
    <3>1. id[u][s] \in DOMAIN vertexData
      BY <2>1 DEF DictInv, Thread, Created, Committed
    <3>2. \A r \in creating[t] : id[u][s] # id[t][r]
      BY <1>2, <1>4, <2>1 DEF DictInv, Fresh
    <3>. QED
      BY <3>1, <3>2, <1>1
  <2>. QED
    BY <1>1, <1>2, <1>4, <2>1, OtherThread DEF DictInv
<1>5. Thread(t)'
  <2>1. Phase(t) /\ Creating(t) /\ Created(t)
    BY DEF DictInv, Thread
  <2>2. Phase(t)' /\ Creating(t)'
    BY <2>1, <1>2 DEF Phase, Creating, Found
  <2>3. Resolved(t)'
    BY <1>2 DEF Resolved
  <2>4. Created(t)'
    BY <2>1, <1>1, <1>2 DEF Created, Committed
  <2>. QED
    BY <2>2, <2>3, <2>4 DEF Thread
<1>6. Fresh'
  BY <1>2 DEF DictInv, Fresh
<1>7. Entries'
  <2>1. \A v \in Vertices : Committed(dictionary[v], v) => Committed(dictionary[v], v)'
    BY <1>1, <1>2, DriverAssumption DEF Grows, Committed
  <2>. QED
    BY <2>1, <1>2 DEF DictInv, Entries
<1>8. Store'
  <2> SUFFICES ASSUME NEW i \in DOMAIN vertexData, vertexData'[i] # None
               PROVE  \/ dictionary'[vertexData'[i]] = i
                      \/ \E u \in Threads : pc'[u] = "return"
                            /\ \E s \in creating'[u] : call'[u][s] = vertexData'[i] /\ id'[u][s] = i
    BY <1>1 DEF Store
  <2>1. CASE \E s \in creating[t] : i = id[t][s]
    BY <2>1, <1>1, <1>2
  <2>2. CASE \A s \in creating[t] : i # id[t][s]
    <3>1. vertexData'[i] = vertexData[i]
      BY <2>2, <1>1
    <3>2. \A u \in Threads : pc[u] = "return" => pc'[u] = "return"
      BY <1>2
    <3>. QED
      BY <3>1, <3>2, <1>2 DEF DictInv, Store
  <2>. QED
    BY <2>1, <2>2
<1>. QED
  BY <1>3, <1>4, <1>5, <1>6, <1>7, <1>8 DEF DictInv

(* A rollback leaves allocated vertices behind, which no entry names. *)
LEMMA RollbackDictInv ==
    ASSUME DictInv, NEW t \in Threads, Rollback(t)
    PROVE  DictInv'
<1> USE DEF counterVars, lockVars, localVars, storeVars
<1>1. /\ UNCHANGED <<m_is_directed, calls, localVars, counterVars, lockVars, storeVars>> /\ pc[t] = "commit"
      /\ pc' \in [Threads -> {"idle", "find", "insert", "begin", "commit", "return"}]
      /\ pc'[t] = "begin" /\ \A u \in Threads : u # t => pc'[u] = pc[u]
  BY DEF Rollback, DictInv, TypeOK
<1>2. TypeOK'
  <2>1. rollbacks' \in 0 .. MaxRollbacks
    BY DriverAssumption DEF Rollback, DictInv, TypeOK
  <2>. QED
    BY <1>1, <2>1 DEF DictInv, TypeOK
<1>3. ASSUME NEW u \in Threads, u # t PROVE Thread(u)'
  <2>1. Grows
    BY <1>1 DEF Grows
  <2>. QED
    BY <1>1, <1>3, <2>1, OtherThread DEF DictInv
<1>4. Thread(t)'
  <2>1. Thread(t)
    BY DEF DictInv
  <2>. QED
    BY <1>1, <2>1 DEF Thread, Phase, Resolved, Creating, Created, Found, Committed
<1>5. Fresh' /\ Store'
  BY <1>1 DEF DictInv, Fresh, Store
<1>6. Entries'
  BY <1>1 DEF DictInv, Entries, Committed
<1>. QED
  BY <1>2, <1>3, <1>4, <1>5, <1>6 DEF DictInv
-----------------------------------------------------------------------------
(* The end of a call *)

(* The counters are of type uint64_t. *)
LEMMA CounterType ==
    ASSUME NEW n \in Int
    PROVE  n % CounterMod \in 0 .. CounterMod - 1
  BY DriverAssumption

(* The entries that a call sets when it returns. *)
LEMMA ReturnEntries ==
    ASSUME DictInv, NEW t \in Threads, Return(t)
    PROVE  /\ dictionary' \in [Vertices -> Nat \cup {NoEntry}]
           /\ \A s \in creating[t] : dictionary'[call[t][s]] = id[t][s]
           /\ \A v \in Vertices :
                 (\A s \in creating[t] : v # call[t][s]) => dictionary'[v] = dictionary[v]
<1> DEFINE set(v) == \E s \in creating[t] : v = call[t][s]
<1> DEFINE new(v) == IF set(v) THEN id[t][CHOOSE s \in creating[t] : v = call[t][s]] ELSE dictionary[v]
<1>1. dictionary' = [v \in Vertices |-> new(v)]
  BY DEF Return
<1>2. \A r, s \in creating[t] : call[t][r] = call[t][s] => r = s
  BY DEF Return, DictInv, Thread, Creating
<1>3. \A s \in creating[t] : call[t][s] \in Vertices /\ s \in {"src", "dst"} /\ id[t][s] \in Nat
  BY CallType DEF DictInv, TypeOK
<1>4. \A s \in creating[t] : new(call[t][s]) = id[t][s]
  <2> SUFFICES ASSUME NEW s \in creating[t] PROVE new(call[t][s]) = id[t][s]
    OBVIOUS
  <2>1. (CHOOSE r \in creating[t] : call[t][s] = call[t][r]) = s
    BY <1>2
  <2>. QED
    BY <2>1
<1>5. \A v \in Vertices : new(v) \in Nat \cup {NoEntry}
  <2> SUFFICES ASSUME NEW v \in Vertices PROVE new(v) \in Nat \cup {NoEntry}
    OBVIOUS
  <2>1. CASE set(v)
    BY <2>1, <1>3, <1>4
  <2>2. CASE ~ set(v)
    BY <2>2 DEF DictInv, TypeOK
  <2>. QED
    BY <2>1, <2>2
<1>6. \A v \in Vertices : ~ set(v) => new(v) = dictionary[v]
  OBVIOUS
<1> HIDE DEF new
<1>. QED
  BY <1>1, <1>3, <1>4, <1>5, <1>6

(* A call returns: it sets the entries it created, and unlocks them. *)
LEMMA ReturnDictInv ==
    ASSUME DictInv, NEW t \in Threads, Return(t)
    PROVE  DictInv'
<1> USE DEF boundVars, localVars, storeVars
<1>1. /\ dictionary' \in [Vertices -> Nat \cup {NoEntry}]
      /\ \A s \in creating[t] : dictionary'[call[t][s]] = id[t][s]
      /\ \A v \in Vertices : (\A s \in creating[t] : v # call[t][s]) => dictionary'[v] = dictionary[v]
  BY ReturnEntries
<1>2. /\ UNCHANGED <<localVars, removals, boundVars, storeVars>> /\ pc[t] = "return"
      /\ pc' \in [Threads -> {"idle", "find", "insert", "begin", "commit", "return"}]
      /\ pc'[t] = "idle" /\ \A u \in Threads : u # t => pc'[u] = pc[u]
  BY DEF Return, DictInv, TypeOK
<1>3. /\ readers' \in [Vertices -> SUBSET Threads] /\ writer' \in [Vertices -> Threads \cup {None}]
      /\ \A v \in Vertices : writer[v] # t => writer'[v] = writer[v]
  BY DEF Return, Unlock, DictInv, TypeOK
<1>4. TypeOK'
  <2>1. m_num_vertices' \in 0 .. CounterMod - 1
    <3>1. Cardinality(creating[t]) \in Nat
      BY AllocateIds DEF DictInv
    <3>. QED
      BY <3>1, CounterType DEF Return, DictInv, TypeOK
  <2>2. m_num_edges' \in 0 .. CounterMod - 1
    <3>1. EdgesDelta(t) \in Int
      BY DEF EdgesDelta
    <3>. QED
      BY <3>1, CounterType DEF Return, DictInv, TypeOK
  <2>. QED
    BY <1>1, <1>2, <1>3, <2>1, <2>2 DEF DictInv, TypeOK
<1>5. /\ \A s \in creating[t] : /\ call[t][s] \in Vertices /\ writer[call[t][s]] = t
                                /\ dictionary[call[t][s]] = 0 /\ Committed(id[t][s], call[t][s])
  BY <1>2, CallType DEF DictInv, Thread, Creating, Created
<1>6. ASSUME NEW u \in Threads, u # t PROVE Thread(u)'
  <2>1. Grows
    BY <1>2 DEF Grows
  <2>2. ASSUME pc[u] # "idle", NEW s \in creating[u]
        PROVE  /\ writer'[call[u][s]] = writer[call[u][s]]
               /\ dictionary'[call[u][s]] = dictionary[call[u][s]]
    <3>1. call[u][s] \in Vertices /\ writer[call[u][s]] = u
      BY <2>2, CallType DEF DictInv, Thread, Creating
    <3>. QED
      BY <3>1, <1>1, <1>3, <1>5, <1>6
  <2>. QED
    BY <1>2, <1>6, <2>1, <2>2, OtherThread DEF DictInv
<1>7. Thread(t)'
  BY <1>2 DEF Thread, Phase, Resolved, Creating, Created
<1>8. Fresh'
  BY <1>2 DEF DictInv, Fresh
<1>9. Entries'
  <2> SUFFICES ASSUME NEW v \in Vertices, dictionary'[v] # NoEntry
               PROVE  \/ Committed(dictionary[v], v)'
                      \/ \E u \in Threads : /\ pc'[u] # "idle" /\ writer'[v] = u
                                            /\ \E s \in creating'[u] : call'[u][s] = v
    BY DEF Entries
  <2>1. CASE \E s \in creating[t] : v = call[t][s]
    BY <2>1, <1>1, <1>2, <1>5 DEF Committed
  <2>2. CASE \A s \in creating[t] : v # call[t][s]
    <3>1. dictionary'[v] = dictionary[v]
      BY <2>2, <1>1
    <3>2. CASE Committed(dictionary[v], v)
      BY <3>1, <3>2, <1>2 DEF Committed
    <3>3. CASE ~ Committed(dictionary[v], v)
      <4>1. PICK u \in Threads : pc[u] # "idle" /\ writer[v] = u /\ \E s \in creating[u] : call[u][s] = v
        BY <3>1, <3>3 DEF DictInv, Entries
      <4>2. u # t
        BY <4>1, <2>2
      <4>. QED
        BY <4>1, <4>2, <1>2, <1>3
    <3>. QED
      BY <3>2, <3>3
  <2>. QED
    BY <2>1, <2>2
<1>10. Store'
  <2> SUFFICES ASSUME NEW i \in DOMAIN vertexData, vertexData[i] # None
               PROVE  \/ dictionary'[vertexData[i]] = i
                      \/ \E u \in Threads : pc'[u] = "return"
                            /\ \E s \in creating[u] : call[u][s] = vertexData[i] /\ id[u][s] = i
    BY <1>2 DEF Store
  <2>1. vertexData[i] \in Vertices /\ i \in Nat \ {0}
    BY StoreType DEF DictInv
  <2>2. CASE dictionary[vertexData[i]] = i
    <3>1. \A s \in creating[t] : vertexData[i] # call[t][s]
      BY <2>1, <2>2, <1>5
    <3>. QED
      BY <2>1, <2>2, <3>1, <1>1
  <2>3. CASE dictionary[vertexData[i]] # i
    <3>1. PICK u \in Threads : /\ pc[u] = "return"
                               /\ \E s \in creating[u] : call[u][s] = vertexData[i] /\ id[u][s] = i
      BY <2>3 DEF DictInv, Store
    <3>. QED
      BY <3>1, <1>1, <1>2
  <2>. QED
    BY <2>2, <2>3
<1>. QED
  BY <1>4, <1>6, <1>7, <1>8, <1>9, <1>10 DEF DictInv

(* A step that leaves alone the dictionary, GTX and where the threads are. *)
LEMMA SameDictInv ==
    ASSUME DictInv, TypeOK', UNCHANGED <<lockVars, storeVars, pc, localVars>>
    PROVE  DictInv'
<1> USE DEF lockVars, storeVars, localVars
<1>1. \A t \in Threads : Thread(t)'
  BY DEF DictInv, Thread, Phase, Resolved, Creating, Created, Found, Committed
<1>2. Fresh' /\ Store'
  BY DEF DictInv, Fresh, Store
<1>3. Entries'
  BY DEF DictInv, Entries, Committed
<1>. QED
  BY <1>1, <1>2, <1>3 DEF DictInv

(* remove_vertex changes the counter of the vertices and nothing else. *)
LEMMA RemoveVertexDictInv ==
    ASSUME DictInv, NEW t \in Threads, RemoveVertex(t)
    PROVE  DictInv'
<1>1. m_num_vertices' \in 0 .. CounterMod - 1
  BY CounterType DEF RemoveVertex, DictInv, TypeOK
<1>2. calls' \in 0 .. MaxCalls /\ removals' \in Nat
  BY DriverAssumption DEF RemoveVertex, DictInv, TypeOK
<1>3. TypeOK'
  BY <1>1, <1>2 DEF RemoveVertex, DictInv, TypeOK, lockVars, storeVars, localVars
<1>. QED
  BY <1>3, SameDictInv DEF RemoveVertex

(* Every step keeps the invariant. *)
LEMMA NextDictInv == DictInv /\ [Next]_vars => DictInv'
<1> SUFFICES ASSUME DictInv, [Next]_vars PROVE DictInv'
  OBVIOUS
<1>1. CASE UNCHANGED vars
  BY <1>1, SameDictInv DEF vars, lockVars, storeVars, localVars, DictInv, TypeOK
<1>2. ASSUME NEW t \in Threads, (\E r \in Requests : Invoke(t, r)) \/ RemoveVertex(t)
      PROVE  DictInv'
  BY <1>2, InvokeDictInv, RemoveVertexDictInv
<1>3. ASSUME NEW t \in Threads, Step(t) PROVE DictInv'
  BY <1>3, FindDictInv, NotFoundDictInv, InsertEntryDictInv, LockEntryDictInv, BodyDictInv,
     BodyUpsertDictInv, BodyVertexDictInv, CommitDictInv, RollbackDictInv, ReturnDictInv DEF Step
<1>. QED
  BY <1>1, <1>2, <1>3 DEF Next, Finished

(* The invariant holds in every state of the driver: the variables keep    *)
(* their types, an entry of the dictionary refers to the vertex with its   *)
(* id or is locked by the one thread that creates it, and a vertex of GTX  *)
(* is the one its entry refers to.                                         *)
THEOREM DictionaryInvariance == Spec => []DictInv
  BY InitDictInv, NextDictInv, PTL DEF Spec

(* A thread never uses an entry of the dictionary not yet set: both        *)
(* endpoints of its edge are vertices committed in GTX, with the ids it    *)
(* was given, unless it creates them itself.                               *)
THEOREM EndpointsResolvedHolds == Spec => []EndpointsResolved
<1>1. DictInv => EndpointsResolved
  BY DEF DictInv, Thread, Resolved, Found, Committed, EndpointsResolved
<1>. QED
  BY <1>1, DictionaryInvariance, PTL

(* At most one internal vertex is visible for an external id. *)
LEMMA VertexUnique ==
    ASSUME DictInv, NEW i \in DOMAIN vertexData, NEW j \in DOMAIN vertexData,
           vertexData[i] = vertexData[j], vertexData[i] # None
    PROVE  i = j
<1>1. i \in Nat \ {0} /\ j \in Nat \ {0}
  BY StoreType DEF DictInv
<1>2. \A u \in Threads, s \in {"src", "dst"} : pc[u] = "return" /\ s \in creating[u] =>
         /\ dictionary[call[u][s]] = 0 /\ writer[call[u][s]] = u
         /\ \A r \in creating[u] : call[u][r] = call[u][s] => r = s
  BY DEF DictInv, Thread, Creating
<1>3. \A u \in Threads : creating[u] \subseteq {"src", "dst"}
  BY DEF DictInv, TypeOK
<1>4. CASE dictionary[vertexData[i]] = i \/ dictionary[vertexData[i]] = j
  BY <1>1, <1>2, <1>3, <1>4 DEF DictInv, Store
<1>5. CASE dictionary[vertexData[i]] # i /\ dictionary[vertexData[i]] # j
  <2>1. PICK u \in Threads : /\ pc[u] = "return"
                             /\ \E s \in creating[u] : call[u][s] = vertexData[i] /\ id[u][s] = i
    BY <1>5 DEF DictInv, Store
  <2>2. PICK x \in Threads : /\ pc[x] = "return"
                             /\ \E s \in creating[x] : call[x][s] = vertexData[i] /\ id[x][s] = j
    BY <1>5 DEF DictInv, Store
  <2>3. u = x
    BY <2>1, <2>2, <1>2, <1>3
  <2>. QED
    BY <2>1, <2>2, <2>3, <1>2, <1>3
<1>. QED
  BY <1>4, <1>5

(* No vertex is created twice, however many threads insert its edges at    *)
(* the same time and however often their transactions are rolled back.     *)
THEOREM OneVertexPerIdHolds == Spec => []OneVertexPerId
<1>1. DictInv => OneVertexPerId
  BY VertexUnique DEF OneVertexPerId
<1>. QED
  BY <1>1, DictionaryInvariance, PTL
=============================================================================
