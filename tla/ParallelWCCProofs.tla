-------------------------- MODULE ParallelWCCProofs --------------------------
(***************************************************************************)
(* Proofs about ParallelWCC, for every graph, number of vertices and set   *)
(* of threads.                                                             *)
(***************************************************************************)
EXTENDS ParallelWCC, TLAPS

Hooking(t) == pc[t] \in {"arc", "readv", "check", "hook"}
Compressing(t) == pc[t] \in {"read", "jump"}

(* A component is named by one of its vertices, not above any of them. *)
Descending == \A n \in V : comp[n] <= n
Reaches == \A n \in V : Connected(n, comp[n])

(* What a thread has read. *)
HookLocal(t) ==
    /\ Hooking(t) => phase = "hook" /\ u[t] \in V /\ u[t] < next /\ rest[t] \subseteq out[u[t]]
    /\ pc[t] \in {"readv", "check", "hook"} =>
          /\ v[t] \in out[u[t]]
          /\ comp_u[t] \in V /\ Connected(u[t], comp_u[t])
    /\ pc[t] \in {"check", "hook"} =>
          comp_v[t] \in V /\ Connected(v[t], comp_v[t]) /\ comp_u[t] # comp_v[t]

CompressLocal(t) ==
    /\ Compressing(t) => phase = "compress" /\ u[t] \in V /\ u[t] < next
    /\ pc[t] = "jump" =>
          /\ comp_v[t] \in V /\ Connected(u[t], comp_v[t])
          /\ comp[u[t]] # u[t] /\ comp_v[t] <= comp[u[t]]

Owners == \A s, t \in Threads : s # t /\ Compressing(s) /\ Compressing(t) => u[s] # u[t]

(* Every vertex points to the name of its component. *)
Root(n) == comp[comp[n]] = comp[n]
Flat == \A n \in V : Root(n)
ArcsAgree == \A a \in V : \A b \in out[a] : comp[a] = comp[b]

(* The arcs visited by the first loop of a round that has not hooked       *)
(* anything yet, and what the threads that are at an arc have read of it.  *)
AtArc(t, a, b) ==
    /\ Hooking(t) /\ u[t] = a
    /\ b \in rest[t] \/ (pc[t] # "arc" /\ b = v[t])
Visited ==
    \A a \in V : \A b \in out[a] :
        a < next => comp[a] = comp[b] \/ \E t \in Threads : AtArc(t, a, b)
UpToDate(t) ==
    /\ pc[t] \in {"readv", "check", "hook"} => comp_u[t] = comp[u[t]]
    /\ pc[t] \in {"check", "hook"} => comp_v[t] = comp[v[t]]

(* The vertices the second loop has finished with. *)
Compressed ==
    \A n \in V : n < next => Root(n) \/ \E t \in Threads : Compressing(t) /\ u[t] = n

Rounds ==
    /\ phase = "test" => Flat /\ (~ change => ArcsAgree)
    /\ phase = "return" => ArcsAgree
    /\ phase = "hook" /\ ~ change => Flat /\ Visited /\ \A t \in Threads : UpToDate(t)
    /\ phase = "compress" => Compressed
    /\ phase = "compress" /\ ~ change => /\ Flat /\ ArcsAgree
                                         /\ \A t \in Threads : pc[t] # "jump"

IInv ==
    /\ TypeOK /\ Descending /\ Reaches
    /\ \A t \in Threads : HookLocal(t) /\ CompressLocal(t)
    /\ Owners /\ Rounds

-----------------------------------------------------------------------------
(* Being connected is an equivalence, and an arc connects its ends. *)
LEMMA Equivalence ==
    /\ \A a : Connected(a, a)
    /\ \A a, b : Connected(a, b) => Connected(b, a)
    /\ \A a, b, c : Connected(a, b) /\ Connected(b, c) => Connected(a, c)
  BY DEF Connected

LEMMA ArcConnects == ASSUME NEW a \in V, NEW b \in out[a] PROVE Connected(a, b)
  BY DEF Connected, Closed

(* The graph does not change. *)
LEMMA ConnectedStable ==
    ASSUME out' = out PROVE \A a, b : Connected(a, b)' <=> Connected(a, b)
  BY DEF Connected, Closed

LEMMA InitInv == Init => IInv
<1> SUFFICES ASSUME Init PROVE IInv
    OBVIOUS
<1> USE GraphAssumption DEF Init, V
<1>1. TypeOK
    BY DEF TypeOK
<1>2. Descending /\ Owners /\ Rounds
    BY DEF Descending, Owners, Compressing, Rounds, Flat, Root
<1>3. Reaches
    BY Equivalence DEF Reaches
<1>4. \A t \in Threads : HookLocal(t) /\ CompressLocal(t)
    BY DEF HookLocal, CompressLocal, Hooking, Compressing
<1> QED
    BY <1>1, <1>2, <1>3, <1>4 DEF IInv

(* The steps of the master. *)
LEMMA TestInv == IInv /\ Test => IInv'
<1> SUFFICES ASSUME IInv, Test PROVE IInv'
    OBVIOUS
<1> USE DEF IInv, Test
<1>0. TypeOK /\ \A t \in Threads : pc[t] = "idle"
    BY DEF HookLocal, CompressLocal, Hooking, Compressing, TypeOK
<1>1. TypeOK'
  <2>1. change' \in BOOLEAN /\ phase' \in {"test", "hook", "compress", "return", "timeout"}
    BY <1>0 DEF TypeOK
  <2>2. next' \in 0 .. N
    BY GraphAssumption
  <2> QED
    BY <1>0, <2>1, <2>2 DEF TypeOK, local
<1>2. Descending' /\ Owners'
    BY <1>0 DEF Descending, Owners, Compressing, local
<1>3. Reaches'
    BY ConnectedStable DEF Reaches
<1>4. \A t \in Threads : HookLocal(t)' /\ CompressLocal(t)'
    BY <1>0 DEF HookLocal, CompressLocal, Hooking, Compressing, local
<1>5. Rounds'
    BY <1>0, GraphAssumption DEF Rounds, Flat, Root, ArcsAgree, Visited, UpToDate, V
<1> QED
    BY <1>1, <1>2, <1>3, <1>4, <1>5

LEMMA BarrierInv == IInv /\ Barrier => IInv'
<1> SUFFICES ASSUME IInv, Barrier PROVE IInv'
    OBVIOUS
<1> USE DEF IInv, Barrier
<1>1. TypeOK'
    BY GraphAssumption DEF TypeOK, local
<1>2. Descending' /\ Owners'
    BY DEF Descending, Owners, Compressing, local
<1>3. Reaches'
    BY ConnectedStable DEF Reaches
<1>4. \A t \in Threads : HookLocal(t)' /\ CompressLocal(t)'
    BY DEF HookLocal, CompressLocal, Hooking, Compressing, local
<1>5. Rounds'
  <2>1. CASE phase = "hook"
    <3>1. ASSUME ~ change, NEW a \in V, NEW b \in out[a] PROVE comp[a] = comp[b]
      <4>1. a < next
        BY GraphAssumption DEF V
      <4>2. \A t \in Threads : ~ AtArc(t, a, b)
        BY DEF AtArc, Hooking
      <4> QED
        BY <2>1, <3>1, <4>1, <4>2 DEF Rounds, Visited
    <3> QED
        BY <2>1, <3>1, GraphAssumption DEF Rounds, Flat, Root, ArcsAgree, Compressed, V
  <2>2. CASE phase = "compress"
    <3>1. Flat
        BY <2>2, GraphAssumption DEF Rounds, Compressed, Compressing, Flat, V
    <3> QED
        BY <2>2, <3>1 DEF Rounds, Flat, Root, ArcsAgree
  <2> QED
    BY <2>1, <2>2
<1> QED
    BY <1>1, <1>2, <1>3, <1>4, <1>5

(* A step of a thread that leaves comp alone keeps the facts on comp. *)
LEMMA SameComp ==
    ASSUME IInv, UNCHANGED <<out, comp>>
    PROVE  Descending' /\ Reaches'
  BY ConnectedStable DEF IInv, Descending, Reaches

LEMMA FetchInv == ASSUME IInv, NEW t \in Threads, Fetch(t) PROVE IInv'
<1> USE DEF IInv, Fetch
<1>0. next \in V /\ next \in Int /\ out[next] \subseteq V
    BY GraphAssumption DEF TypeOK, V
<1>1. TypeOK'
    BY GraphAssumption, <1>0 DEF TypeOK, V
<1>2. Descending' /\ Reaches'
    BY SameComp
<1>3. ASSUME NEW s \in Threads PROVE HookLocal(s)' /\ CompressLocal(s)'
  <2>1. CASE s = t
    BY <2>1, <1>0 DEF HookLocal, CompressLocal, Hooking, Compressing, TypeOK
  <2>2. CASE s # t
    BY <2>2, <1>0, <1>3, ConnectedStable DEF HookLocal, CompressLocal, Hooking, Compressing, TypeOK, V
  <2> QED
    BY <2>1, <2>2
<1>4. Owners'
    BY <1>0 DEF Owners, Compressing, CompressLocal, TypeOK
<1>5. Rounds'
  <2>1. CASE phase = "hook"
    <3>1. ASSUME ~ change PROVE Visited'
      <4> SUFFICES ASSUME NEW a \in V, NEW b \in out[a], a < next + 1
                   PROVE  comp[a] = comp[b] \/ \E s \in Threads : AtArc(s, a, b)'
        BY DEF Visited
      <4>1. CASE a = next
        BY <4>1, <2>1 DEF AtArc, Hooking, TypeOK
      <4>2. CASE a < next
        <5>1. CASE comp[a] = comp[b]
            BY <5>1
        <5>2. CASE \E s \in Threads : AtArc(s, a, b)
            <6> PICK s \in Threads : AtArc(s, a, b)
                BY <5>2
            <6>1. s # t
                BY DEF AtArc, Hooking
            <6> QED
                BY <6>1 DEF AtArc, Hooking, TypeOK
        <5> QED
            BY <5>1, <5>2, <4>2, <2>1, <3>1 DEF Rounds, Visited
      <4> QED
        BY <4>1, <4>2, <1>0 DEF V
    <3>2. ASSUME ~ change, NEW s \in Threads PROVE UpToDate(s)'
      <4>1. UpToDate(s)
        BY <2>1, <3>2 DEF Rounds
      <4> QED
        BY <4>1, <2>1 DEF UpToDate, TypeOK
    <3> QED
        BY <2>1, <3>1, <3>2 DEF Rounds, Flat, Root
  <2>2. CASE phase = "compress"
    <3>1. Compressed'
      <4> SUFFICES ASSUME NEW n \in V, n < next + 1
                   PROVE  Root(n)' \/ \E s \in Threads : Compressing(s)' /\ u'[s] = n
        BY DEF Compressed
      <4>1. CASE n = next
        BY <4>1, <2>2 DEF Compressing, TypeOK
      <4>2. CASE n < next
        <5>1. CASE Root(n)
            BY <5>1 DEF Root
        <5>2. CASE \E s \in Threads : Compressing(s) /\ u[s] = n
            <6> PICK s \in Threads : Compressing(s) /\ u[s] = n
                BY <5>2
            <6>1. s # t
                BY DEF Compressing
            <6> QED
                BY <6>1 DEF Compressing, TypeOK
        <5> QED
            BY <5>1, <5>2, <4>2, <2>2 DEF Rounds, Compressed
      <4> QED
        BY <4>1, <4>2, <1>0 DEF V
    <3> QED
        BY <2>2, <3>1 DEF Rounds, Flat, Root, ArcsAgree, TypeOK
  <2> QED
    BY <2>1, <2>2
<1> QED
    BY <1>1, <1>2, <1>3, <1>4, <1>5

(* The first loop: a thread that reads leaves the arc it is at, or stays.  *)
LEMMA ReadUInv == ASSUME IInv, NEW t \in Threads, ReadU(t) PROVE IInv'
<1> USE DEF IInv, ReadU, shared
<1> PICK w \in rest[t] : /\ v' = [v EXCEPT ![t] = w]
                         /\ rest' = [rest EXCEPT ![t] = @ \ {w}]
    OBVIOUS
<1>0. phase = "hook" /\ u[t] \in V /\ rest[t] \subseteq out[u[t]] /\ w \in V /\ comp[u[t]] \in V
    BY DEF HookLocal, Hooking, TypeOK
<1>1. TypeOK'
  <2>1. rest' \in [Threads -> SUBSET V]
    BY DEF TypeOK
  <2>2. u[t] \in Int /\ w \in Int /\ comp[u[t]] \in Int
    BY <1>0 DEF V
  <2> QED
    BY <2>1, <2>2 DEF TypeOK
<1>2. Descending' /\ Reaches'
    BY SameComp
<1>3. ASSUME NEW s \in Threads PROVE HookLocal(s)' /\ CompressLocal(s)'
  <2>1. CASE s = t
    BY <2>1, <1>0, ConnectedStable DEF HookLocal, CompressLocal, Hooking, Compressing, TypeOK, Reaches
  <2>2. CASE s # t
    BY <2>2, <1>3, ConnectedStable DEF HookLocal, CompressLocal, Hooking, Compressing, TypeOK
  <2> QED
    BY <2>1, <2>2
<1>4. Owners'
    BY DEF Owners, Compressing, TypeOK
<1>5. Rounds'
  <2>1. ASSUME ~ change PROVE Visited'
    <3> SUFFICES ASSUME NEW a \in V, NEW b \in out[a], a < next
                 PROVE  comp[a] = comp[b] \/ \E s \in Threads : AtArc(s, a, b)'
        BY DEF Visited
    <3>1. CASE comp[a] = comp[b]
        BY <3>1
    <3>2. ASSUME NEW s \in Threads, AtArc(s, a, b) PROVE AtArc(s, a, b)'
        BY <3>2 DEF AtArc, Hooking, TypeOK
    <3> QED
        BY <3>1, <3>2, <1>0, <2>1 DEF Rounds, Visited
  <2>2. ASSUME ~ change, NEW s \in Threads PROVE UpToDate(s)'
    <3>1. UpToDate(s)
        BY <1>0, <2>2 DEF Rounds
    <3> QED
        BY <3>1, <1>0 DEF UpToDate, TypeOK
  <2> QED
    BY <1>0, <2>1, <2>2 DEF Rounds, Flat, Root
<1> QED
    BY <1>1, <1>2, <1>3, <1>4, <1>5

LEMMA LastArcInv == ASSUME IInv, NEW t \in Threads, LastArc(t) PROVE IInv'
<1> USE DEF IInv, LastArc, shared, local
<1>0. phase = "hook"
    BY DEF HookLocal, Hooking
<1>1. TypeOK'
    BY DEF TypeOK
<1>2. Descending' /\ Reaches'
    BY SameComp
<1>3. ASSUME NEW s \in Threads PROVE HookLocal(s)' /\ CompressLocal(s)'
    BY <1>3, ConnectedStable DEF HookLocal, CompressLocal, Hooking, Compressing, TypeOK
<1>4. Owners'
    BY DEF Owners, Compressing, TypeOK
<1>5. Rounds'
  <2>1. ASSUME ~ change PROVE Visited'
    <3> SUFFICES ASSUME NEW a \in V, NEW b \in out[a], a < next
                 PROVE  comp[a] = comp[b] \/ \E s \in Threads : AtArc(s, a, b)'
        BY DEF Visited
    <3>2. ASSUME NEW s \in Threads, AtArc(s, a, b) PROVE AtArc(s, a, b)'
        BY <3>2 DEF AtArc, Hooking, TypeOK
    <3> QED
        BY <3>2, <1>0, <2>1 DEF Rounds, Visited
  <2>2. ASSUME ~ change, NEW s \in Threads PROVE UpToDate(s)'
    BY <1>0, <2>2 DEF Rounds, UpToDate, TypeOK
  <2> QED
    BY <1>0, <2>1, <2>2 DEF Rounds, Flat, Root
<1> QED
    BY <1>1, <1>2, <1>3, <1>4, <1>5

LEMMA ReadVInv == ASSUME IInv, NEW t \in Threads, ReadV(t) PROVE IInv'
<1> USE DEF IInv, ReadV, shared
<1>0. /\ phase = "hook" /\ u[t] \in V /\ v[t] \in out[u[t]] /\ v[t] \in V /\ comp[v[t]] \in V
      /\ Connected(v[t], comp[v[t]])
    BY DEF HookLocal, Hooking, TypeOK, Reaches
<1>1. TypeOK'
    BY <1>0 DEF TypeOK, V
<1>2. Descending' /\ Reaches'
    BY SameComp
<1>3. ASSUME NEW s \in Threads PROVE HookLocal(s)' /\ CompressLocal(s)'
  <2>1. CASE s = t
    BY <2>1, <1>0, ConnectedStable DEF HookLocal, CompressLocal, Hooking, Compressing, TypeOK
  <2>2. CASE s # t
    BY <2>2, <1>3, ConnectedStable DEF HookLocal, CompressLocal, Hooking, Compressing, TypeOK
  <2> QED
    BY <2>1, <2>2
<1>4. Owners'
    BY DEF Owners, Compressing, TypeOK
<1>5. Rounds'
  <2>1. ASSUME ~ change PROVE Visited'
    <3> SUFFICES ASSUME NEW a \in V, NEW b \in out[a], a < next
                 PROVE  comp[a] = comp[b] \/ \E s \in Threads : AtArc(s, a, b)'
        BY DEF Visited
    <3>1. UpToDate(t)
        BY <1>0, <2>1 DEF Rounds
    <3>2. ASSUME NEW s \in Threads, AtArc(s, a, b) PROVE comp[a] = comp[b] \/ AtArc(s, a, b)'
        BY <3>1, <3>2 DEF AtArc, Hooking, TypeOK, UpToDate
    <3> QED
        BY <3>2, <1>0, <2>1 DEF Rounds, Visited
  <2>2. ASSUME ~ change, NEW s \in Threads PROVE UpToDate(s)'
    <3>1. UpToDate(s)
        BY <1>0, <2>2 DEF Rounds
    <3> QED
        BY <3>1 DEF UpToDate, TypeOK
  <2> QED
    BY <1>0, <2>1, <2>2 DEF Rounds, Flat, Root
<1> QED
    BY <1>1, <1>2, <1>3, <1>4, <1>5

(* The larger of two components read by a thread is one of them. *)
LEMMA HighLow ==
    ASSUME IInv, NEW t \in Threads, pc[t] \in {"check", "hook"}
    PROVE  /\ High(t) \in V /\ Low(t) \in V /\ Low(t) < High(t)
           /\ High(t) \in {comp_u[t], comp_v[t]}
           /\ Connected(High(t), Low(t))
<1>1. /\ comp_u[t] \in V /\ comp_v[t] \in V /\ comp_u[t] # comp_v[t]
      /\ u[t] \in V /\ v[t] \in out[u[t]]
      /\ Connected(u[t], comp_u[t]) /\ Connected(v[t], comp_v[t])
    BY DEF IInv, HookLocal, Hooking
<1>2. Connected(u[t], v[t])
    BY <1>1, ArcConnects
<1>3. Connected(comp_u[t], comp_v[t]) /\ Connected(comp_v[t], comp_u[t])
    BY <1>1, <1>2, Equivalence
<1> QED
    BY <1>1, <1>3, GraphAssumption DEF High, Low, V

LEMMA CheckInv == ASSUME IInv, NEW t \in Threads, Check(t) PROVE IInv'
<1> USE DEF IInv, Check, shared, local
<1>0. phase = "hook" /\ u[t] \in V /\ v[t] \in V /\ v[t] \in out[u[t]]
    BY DEF HookLocal, Hooking, TypeOK
<1>1. TypeOK'
    BY DEF TypeOK
<1>2. Descending' /\ Reaches'
    BY SameComp
<1>3. ASSUME NEW s \in Threads PROVE HookLocal(s)' /\ CompressLocal(s)'
    BY <1>3, ConnectedStable DEF HookLocal, CompressLocal, Hooking, Compressing, TypeOK
<1>4. Owners'
    BY DEF Owners, Compressing, TypeOK
<1>5. Rounds'
  <2>1. ASSUME ~ change PROVE comp[High(t)] = High(t)
    <3>1. High(t) \in {comp[u[t]], comp[v[t]]}
        BY <1>0, <2>1, HighLow DEF Rounds, UpToDate
    <3> QED
        BY <3>1, <1>0, <2>1 DEF Rounds, Flat, Root
  <2>2. ASSUME ~ change PROVE Visited'
    <3> SUFFICES ASSUME NEW a \in V, NEW b \in out[a], a < next
                 PROVE  comp[a] = comp[b] \/ \E s \in Threads : AtArc(s, a, b)'
        BY DEF Visited
    <3>2. ASSUME NEW s \in Threads, AtArc(s, a, b) PROVE AtArc(s, a, b)'
        BY <3>2, <2>1, <2>2 DEF AtArc, Hooking, TypeOK
    <3> QED
        BY <3>2, <1>0, <2>2 DEF Rounds, Visited
  <2>3. ASSUME ~ change, NEW s \in Threads PROVE UpToDate(s)'
    BY <1>0, <2>3 DEF Rounds, UpToDate, TypeOK
  <2> QED
    BY <1>0, <2>2, <2>3 DEF Rounds, Flat, Root
<1> QED
    BY <1>1, <1>2, <1>3, <1>4, <1>5

(* A hook joins two connected components, under the smaller name. *)
LEMMA HookInv == ASSUME IInv, NEW t \in Threads, Hook(t) PROVE IInv'
<1> USE DEF IInv, Hook, local
<1>0. phase = "hook" /\ High(t) \in V /\ Low(t) \in V /\ Low(t) < High(t) /\ Connected(High(t), Low(t))
    BY HighLow DEF HookLocal, Hooking
<1>1. TypeOK'
    BY <1>0 DEF TypeOK
<1>2. Descending' /\ Reaches'
    BY <1>0, ConnectedStable DEF Descending, Reaches, TypeOK, V
<1>3. ASSUME NEW s \in Threads PROVE HookLocal(s)' /\ CompressLocal(s)'
    BY <1>0, <1>3, ConnectedStable DEF HookLocal, CompressLocal, Hooking, Compressing, TypeOK
<1>4. Owners'
    BY DEF Owners, Compressing, TypeOK
<1>5. Rounds'
    BY <1>0 DEF Rounds
<1> QED
    BY <1>1, <1>2, <1>3, <1>4, <1>5

(* The second loop: the thread that owns a vertex is the only one that     *)
(* writes it, and the name of a component has nothing to compress.         *)
LEMMA ReadParentInv == ASSUME IInv, NEW t \in Threads, ReadParent(t) PROVE IInv'
<1> USE DEF IInv, ReadParent, shared
<1>0. /\ phase = "compress" /\ u[t] \in V /\ comp[u[t]] \in V /\ comp[comp[u[t]]] \in V
      /\ comp[comp[u[t]]] <= comp[u[t]]
    BY DEF CompressLocal, Compressing, TypeOK, Descending
<1>1. TypeOK'
    BY <1>0 DEF TypeOK, V
<1>2. Descending' /\ Reaches'
    BY SameComp
<1>3. ASSUME NEW s \in Threads PROVE HookLocal(s)' /\ CompressLocal(s)'
  <2>1. CASE s = t
    <3>1. Connected(u[t], comp[comp[u[t]]])
        BY <1>0, Equivalence DEF Reaches
    <3> QED
        BY <2>1, <3>1, <1>0, ConnectedStable DEF HookLocal, CompressLocal, Hooking, Compressing, TypeOK
  <2>2. CASE s # t
    BY <2>2, <1>3, ConnectedStable DEF HookLocal, CompressLocal, Hooking, Compressing, TypeOK
  <2> QED
    BY <2>1, <2>2
<1>4. Owners'
    BY DEF Owners, Compressing, TypeOK
<1>5. Rounds'
  <2>1. Compressed'
    <3> SUFFICES ASSUME NEW n \in V, n < next
                 PROVE  Root(n) \/ \E s \in Threads : Compressing(s)' /\ u'[s] = n
        BY DEF Compressed, Root
    <3>1. ASSUME NEW s \in Threads, Compressing(s), u[s] = n
          PROVE  Root(n) \/ Compressing(s)'
        BY <3>1 DEF Compressing, Root, TypeOK
    <3> QED
        BY <3>1, <1>0 DEF Rounds, Compressed
  <2>2. ASSUME ~ change PROVE \A s \in Threads : pc'[s] # "jump"
    BY <2>2, <1>0 DEF Rounds, Flat, Root, TypeOK
  <2> QED
    BY <1>0, <2>1, <2>2 DEF Rounds, Flat, Root, ArcsAgree
<1> QED
    BY <1>1, <1>2, <1>3, <1>4, <1>5

LEMMA JumpInv == ASSUME IInv, NEW t \in Threads, Jump(t) PROVE IInv'
<1> USE DEF IInv, Jump, local
<1> PICK c \in {comp_v[t], comp[comp[u[t]]]} : comp' = [comp EXCEPT ![u[t]] = c]
    OBVIOUS
<1>0. /\ phase = "compress" /\ change /\ u[t] \in V /\ comp[u[t]] \in V /\ comp[comp[u[t]]] \in V
      /\ comp_v[t] \in V /\ comp_v[t] <= comp[u[t]] /\ comp[comp[u[t]]] <= comp[u[t]]
      /\ comp[u[t]] < u[t]
  <2>1. phase = "compress" /\ change
    BY DEF CompressLocal, Compressing, Rounds, TypeOK
  <2>2. u[t] \in V /\ comp_v[t] \in V /\ comp[u[t]] \in V /\ comp[comp[u[t]]] \in V
    BY DEF CompressLocal, Compressing, TypeOK
  <2> QED
    BY <2>1, <2>2 DEF CompressLocal, Descending, V
<1>1. c \in V /\ c <= comp[u[t]] /\ c < u[t] /\ Connected(u[t], c)
  <2>1. Connected(u[t], comp[comp[u[t]]])
    BY <1>0, Equivalence DEF Reaches
  <2> QED
    BY <1>0, <2>1 DEF CompressLocal, V
<1>2. TypeOK'
    BY <1>0, <1>1 DEF TypeOK
<1>3. Descending' /\ Reaches'
    BY <1>0, <1>1, ConnectedStable DEF Descending, Reaches, TypeOK, V
<1>4. ASSUME NEW s \in Threads PROVE HookLocal(s)' /\ CompressLocal(s)'
  <2>1. CASE s = t
    BY <2>1, <1>0 DEF HookLocal, CompressLocal, Hooking, Compressing, TypeOK
  <2>2. CASE s # t
    <3>1. Compressing(s) => u[s] # u[t]
        BY <2>2, <1>4 DEF Owners, Compressing
    <3> QED
        BY <2>2, <3>1, <1>0, <1>4, ConnectedStable
           DEF HookLocal, CompressLocal, Hooking, Compressing, TypeOK
  <2> QED
    BY <2>1, <2>2
<1>5. Owners'
    BY DEF Owners, Compressing, TypeOK
<1>6. Rounds'
  <2>1. Compressed'
    <3> SUFFICES ASSUME NEW n \in V, n < next
                 PROVE  Root(n)' \/ \E s \in Threads : Compressing(s)' /\ u[s] = n
        BY DEF Compressed
    <3>1. ASSUME NEW s \in Threads, Compressing(s) PROVE Compressing(s)'
        BY <3>1 DEF Compressing, TypeOK
    <3>2. CASE Root(n) /\ n # u[t]
      <4>1. comp[u[t]] # u[t]
        BY <1>0 DEF V
      <4>2. comp[n] \in V /\ comp[n] # u[t]
        BY <3>2, <4>1 DEF Root, TypeOK
      <4> QED
        BY <4>2, <3>2, <1>0 DEF Root, TypeOK
    <3>3. CASE n = u[t]
        BY <3>3, <3>1 DEF Compressing
    <3> QED
        BY <3>1, <3>2, <3>3, <1>0 DEF Rounds, Compressed
  <2> QED
    BY <1>0, <2>1 DEF Rounds
<1> QED
    BY <1>2, <1>3, <1>4, <1>5, <1>6

-----------------------------------------------------------------------------
(* The inductive invariant: the names of the components only ever join     *)
(* connected vertices, and a round that hooks nothing has seen all arcs    *)
(* agree.                                                                  *)
THEOREM Invariance == Spec => []IInv
<1>1. IInv /\ [Next]_vars => IInv'
  <2> SUFFICES ASSUME IInv, [Next]_vars PROVE IInv'
    OBVIOUS
  <2>1. CASE Test
    BY <2>1, TestInv
  <2>2. CASE Barrier
    BY <2>2, BarrierInv
  <2>3. ASSUME NEW t \in Threads, Step(t) PROVE IInv'
    BY <2>3, FetchInv, ReadUInv, LastArcInv, ReadVInv, CheckInv, HookInv, ReadParentInv, JumpInv
       DEF Step
  <2>4. CASE UNCHANGED vars
    BY <2>4 DEF vars, shared, local, IInv, TypeOK, Descending, Reaches, Connected, Closed, HookLocal,
       CompressLocal, Hooking, Compressing, Owners, Rounds, Flat, Root, ArcsAgree, Visited, AtArc,
       UpToDate, Compressed
  <2> QED
    BY <2>1, <2>2, <2>3, <2>4 DEF Next
<1> QED
    BY <1>1, InitInv, PTL DEF Spec

(* The values of the variables, for every graph and set of threads. *)
THEOREM TypeCorrect == Spec => []TypeOK
  BY Invariance, PTL DEF IInv

(* do_wcc returns the connected components, whatever the interleaving of   *)
(* its threads: CSR::do_wcc needs no lock and no atomic operation.         *)
THEOREM Components == Spec => []ComponentsExact
<1>1. IInv => ComponentsExact
  <2> SUFFICES ASSUME IInv, phase = "return", NEW a \in V, NEW b \in V
               PROVE  comp[a] = comp[b] <=> Connected(a, b)
    BY DEF ComponentsExact
  <2>1. ASSUME comp[a] = comp[b] PROVE Connected(a, b)
    <3>1. Connected(a, comp[a]) /\ Connected(b, comp[b])
        BY DEF IInv, Reaches
    <3> QED
        BY <2>1, <3>1, Equivalence
  <2>2. ASSUME Connected(a, b) PROVE comp[a] = comp[b]
    <3> DEFINE S == {n \in V : comp[n] = comp[a]}
    <3>1. Closed(S)
        BY DEF Closed, IInv, Rounds, ArcsAgree, TypeOK
    <3> QED
        BY <2>2, <3>1 DEF Connected
  <2> QED
    BY <2>1, <2>2
<1> QED
    BY <1>1, Invariance, PTL
=============================================================================
