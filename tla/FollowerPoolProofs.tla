------------------------ MODULE FollowerPoolProofs --------------------------
(***************************************************************************)
(* Proofs about FollowerPool and FollowerReads, for any number of nodes,   *)
(* readers and connections per node.                                       *)
(***************************************************************************)
EXTENDS FollowerReads, FiniteSetTheorems, TLAPS

Finite == IsFiniteSet(followers) /\ IsFiniteSet(DOMAIN history)

\* Every pooled connection belongs to an entry of the history.
HistoryCoversPool == \A k \in followers : <<k[1], k[2]>> \in DOMAIN history

\* A reader that holds the mutex looks at an entry of the history.
TargetsKnown == \A r \in Reader : rpc[r] = "scan" => target[r] \in DOMAIN history

\* The indexes sync_followers goes by extend the history, one per node, and it
\* fills a place that it has assigned.
Assigned ==
  spc = "insert" =>
     /\ DOMAIN history \subseteq assigned
     /\ \A p, q \in assigned : p[1] = q[1] => p = q
     /\ fill # {} => place \in assigned

\* sync_followers inserts at the end only.
FillsAtEnd ==
  /\ spc # "insert" => fill = {}
  /\ spc = "idle" => conns = [n \in Node |-> 0]

\* The connection indexes about to be filled for node n.
Filling(n) == IF fill # {} /\ place[1] = n THEN fill ELSE {}

\* What is pooled for a node, made for it and about to be inserted is at most
\* conn_per_roomzin_node.
Counted ==
  \A n \in Node :
     conns[n] + Cardinality(KeysOf(n)) + Cardinality(Filling(n)) <= ConnPerNode

\* No open connection of the node uses an index that is about to be filled.
FillsFree == \A k \in Open : k[3] \notin Filling(k[1])

IInv ==
  /\ TypeOK /\ Finite /\ OneIndexPerNode /\ HistoryCoversPool
  /\ TargetsKnown /\ Assigned /\ FillsAtEnd /\ Counted /\ FillsFree

-----------------------------------------------------------------------------
(* Cardinalities                                                           *)

LEMMA ConnIdxFinite ==
  /\ IsFiniteSet(ConnIdx) /\ Cardinality(ConnIdx) = ConnPerNode
  /\ ConnIdx \subseteq Nat
  <1>1. 0 \in Int /\ ConnPerNode - 1 \in Int /\ ConnPerNode - 1 >= 0
    BY ConnPerNodeAssumption
  <1> QED  BY <1>1, FS_Interval, ConnPerNodeAssumption DEF ConnIdx

LEMMA FiniteParts ==
  ASSUME Finite, NEW n
  PROVE  IsFiniteSet(KeysOf(n)) /\ Cardinality(KeysOf(n)) \in Nat
  <1>1. KeysOf(n) \in SUBSET followers
    BY DEF KeysOf
  <1>2. IsFiniteSet(KeysOf(n))
    BY <1>1, FS_Subset DEF Finite
  <1> QED  BY <1>2, FS_CardinalityType

LEMMA FillingFinite ==
  ASSUME TypeOK, NEW n
  PROVE  IsFiniteSet(Filling(n)) /\ Cardinality(Filling(n)) \in Nat
  <1>1. Filling(n) \in SUBSET ConnIdx
    BY DEF TypeOK, Filling
  <1>2. IsFiniteSet(Filling(n))
    BY <1>1, ConnIdxFinite, FS_Subset
  <1> QED  BY <1>2, FS_CardinalityType

\* The m smallest elements of a set are at most m.
LEMMA SmallestBound ==
  ASSUME NEW S \in SUBSET ConnIdx, NEW m \in Nat
  PROVE  Smallest(S, m) \subseteq S /\ Cardinality(Smallest(S, m)) <= m
  <1> DEFINE Below(x) == {y \in S : y < x}
             T == Smallest(S, m)
             f == [x \in T |-> Cardinality(Below(x))]
  <1>1. ASSUME NEW x PROVE IsFiniteSet(Below(x)) /\ Cardinality(Below(x)) \in Nat
    <2>1. Below(x) \in SUBSET ConnIdx
      OBVIOUS
    <2>2. IsFiniteSet(Below(x))
      BY <2>1, ConnIdxFinite, FS_Subset
    <2> QED  BY <2>2, FS_CardinalityType
  <1>2. ASSUME NEW x \in S, NEW y \in S, x < y
        PROVE  Cardinality(Below(x)) < Cardinality(Below(y))
    <2>0. x \in Nat /\ y \in Nat /\ \A z \in S : z \in Nat
      BY ConnIdxFinite
    <2>1. Below(x) \in SUBSET Below(y) /\ x \in Below(y) /\ x \notin Below(x)
      <3>1. \A z \in S : z < x => z < y
        BY <1>2, <2>0
      <3>2. x < y /\ ~(x < x)
        BY <1>2, <2>0
      <3> QED  BY <3>1, <3>2
    <2>2. Cardinality(Below(x)) <= Cardinality(Below(y))
          /\ Cardinality(Below(x)) # Cardinality(Below(y))
      <3> HIDE DEF Below
      <3> QED  BY <2>1, <1>1, FS_Subset
    <2> QED  BY <2>2, <1>1
  <1>3. T \subseteq S /\ \A x \in T : Cardinality(Below(x)) < m
    BY DEF Smallest
  <1>4. f \in [T -> 0 .. m - 1]
    BY <1>1, <1>3
  <1>5. \A x, y \in T : f[x] = f[y] => x = y
    <2> SUFFICES ASSUME NEW x \in T, NEW y \in T, x # y PROVE f[x] # f[y]
        OBVIOUS
    <2>1. x \in Nat /\ y \in Nat /\ x \in S /\ y \in S
      BY <1>3, ConnIdxFinite
    <2>2. x < y \/ y < x
      BY <2>1
    <2> QED  BY <1>1, <1>2, <2>1, <2>2
  <1>6. f \in Injection(T, 0 .. m - 1)
    BY <1>4, <1>5 DEF Injection, IsInjective
  <1>7. IsFiniteSet(0 .. m - 1) /\ Cardinality(0 .. m - 1) = m
    <2>1. m - 1 \in Int
      OBVIOUS
    <2> QED  BY <2>1, FS_Interval
  <1> QED  BY <1>3, <1>6, <1>7, FS_Injection

\* When nothing is being filled, a node has as many free connection indexes as
\* connections have been made for it.
LEMMA EnoughFree ==
  ASSUME TypeOK, Finite, Counted, NEW n \in Node, fill = {}
  PROVE  conns[n] <= Cardinality(FreeConnIdx(n))
  <1> DEFINE used == {k[3] : k \in KeysOf(n) \cap Open}
             K == KeysOf(n) \cap Open
             f == [k \in K |-> k[3]]
  <1>1. K \in SUBSET KeysOf(n) /\ used \subseteq ConnIdx
    BY DEF KeysOf, TypeOK
  <1>2. IsFiniteSet(K) /\ Cardinality(K) <= Cardinality(KeysOf(n))
    BY <1>1, FiniteParts, FS_Subset
  <1>3. f \in Surjection(K, used)
    BY DEF Surjection
  <1>4. IsFiniteSet(used) /\ Cardinality(used) <= Cardinality(K)
    <2> HIDE DEF used, K, f
    <2> QED  BY <1>2, <1>3, FS_Surjection
  <1>5. ConnIdx = FreeConnIdx(n) \cup used /\ FreeConnIdx(n) \cap used = {}
    BY <1>1 DEF FreeConnIdx
  <1>6. IsFiniteSet(FreeConnIdx(n))
    <2>1. FreeConnIdx(n) \in SUBSET ConnIdx
      BY DEF FreeConnIdx
    <2> QED  BY <2>1, ConnIdxFinite, FS_Subset
  <1>7. ConnPerNode = Cardinality(FreeConnIdx(n)) + Cardinality(used)
    <2> HIDE DEF used
    <2>1. Cardinality(FreeConnIdx(n) \cup used)
            = Cardinality(FreeConnIdx(n)) + Cardinality(used)
                - Cardinality(FreeConnIdx(n) \cap used)
      BY <1>4, <1>6, FS_Union
    <2>2. /\ Cardinality(FreeConnIdx(n)) \in Nat /\ Cardinality(used) \in Nat
          /\ Cardinality(FreeConnIdx(n) \cap used) = 0
          /\ Cardinality(FreeConnIdx(n) \cup used) = ConnPerNode
      BY <1>4, <1>5, <1>6, ConnIdxFinite, FS_EmptySet, FS_CardinalityType
    <2> QED
      BY <2>1, <2>2
  <1>8. conns[n] + Cardinality(KeysOf(n)) <= ConnPerNode
    <2>1. Filling(n) = {}
      BY DEF Filling
    <2>2. conns[n] + Cardinality(KeysOf(n)) + 0 <= ConnPerNode
      BY <2>1, FS_EmptySet DEF Counted
    <2> QED  BY <2>2, FiniteParts DEF TypeOK
  <1>9. /\ Cardinality(FreeConnIdx(n)) \in Nat /\ Cardinality(used) \in Nat
        /\ Cardinality(K) \in Nat /\ Cardinality(KeysOf(n)) \in Nat
        /\ conns[n] \in Nat
    <2> HIDE DEF used, K
    <2> QED
      BY <1>2, <1>4, <1>6, FiniteParts, FS_CardinalityType DEF TypeOK
  <1> HIDE DEF used, K
  <1> QED  BY <1>2, <1>4, <1>7, <1>8, <1>9, ConnPerNodeAssumption

LEMMA KeysBound ==
  ASSUME TypeOK, Finite, Counted, NEW n \in Node
  PROVE  Cardinality(KeysOf(n)) <= ConnPerNode
  <1>1. conns[n] \in Nat /\ Cardinality(KeysOf(n)) \in Nat
        /\ Cardinality(Filling(n)) \in Nat
    BY FiniteParts, FillingFinite DEF TypeOK
  <1> QED  BY <1>1, ConnPerNodeAssumption DEF Counted

-----------------------------------------------------------------------------
(* Types                                                                   *)

LEMMA RotateType ==
  ASSUME NEW s \in ConnIdx, NEW d \in ConnIdx
  PROVE  Rotate(s, d) \in ConnIdx /\ Advance(Rotate(s, d)) \in ConnIdx
  BY ConnPerNodeAssumption DEF Rotate, Advance, ConnIdx

LEMMA HistoryLength ==
  ASSUME Finite PROVE Cardinality(DOMAIN history) \in Nat
  BY FS_CardinalityType DEF Finite

LEMMA TypeInit == Init => TypeOK
  BY ConnPerNodeAssumption DEF Init, TypeOK, Calling, ConnIdx

LEMMA NextIterationType ==
  ASSUME TypeOK, NEW r \in Reader, Calling(r), NextIteration(r)
  PROVE  /\ rpc' \in [Reader -> {"idle", "pick", "scan", "some", "none"}]
         /\ left' \in [Reader -> Nat]
         /\ \A q \in Reader : Calling(q)' => left'[q] > 0
         /\ \A q \in Reader : rpc'[q] = "scan" => q # r /\ rpc[q] = "scan"
  BY DEF TypeOK, NextIteration, Calling

LEMMA TypeStep ==
  TypeOK /\ Finite /\ TargetsKnown /\ Counted /\ FillsAtEnd /\ [Next]_vars => TypeOK'
  <1> SUFFICES ASSUME TypeOK, Finite, TargetsKnown, Counted, FillsAtEnd, [Next]_vars
               PROVE  TypeOK'
      OBVIOUS
  <1>1. ASSUME NEW fs \in SUBSET Node, SyncBegin(fs) PROVE TypeOK'
    <2>1. \A n \in Node : Cardinality(KeysOf(n)) <= ConnPerNode
      BY KeysBound
    <2>2. conns' \in [Node -> 0 .. ConnPerNode]
      BY <1>1, <2>1, FiniteParts, ConnPerNodeAssumption DEF SyncBegin, Required
    <2> QED  BY <1>1, <2>2 DEF SyncBegin, TypeOK, readVars, Calling
  <1>2. CASE SyncConnect
    BY <1>2 DEF SyncConnect, TypeOK, readVars, Calling
  <1>3. CASE SyncLock
    BY <1>3 DEF SyncLock, TypeOK, readVars, Calling
  <1>4. CASE SyncReadHistory
    BY <1>4 DEF SyncReadHistory, TypeOK, readVars, Calling
  <1>5. ASSUME NEW n \in Node, SyncPlace(n) PROVE TypeOK'
    <2>1. FreeConnIdx(n) \in SUBSET ConnIdx /\ conns[n] \in Nat
      BY DEF FreeConnIdx, TypeOK
    <2>2. Smallest(FreeConnIdx(n), conns[n]) \subseteq ConnIdx
      BY <2>1 DEF Smallest
    <2>3. PooledIdx(n) \subseteq Nat /\ KnownIdx(n) \subseteq Nat
      BY DEF PooledIdx, KnownIdx, KeysOf, TypeOK, Place
    <2>4. /\ place' \in Place \cup {NoPlace} /\ (fill' # {} => place' \in Place)
          /\ fill' \subseteq ConnIdx
          /\ freeIdx' \subseteq Nat /\ assigned' \subseteq Place
      BY <1>5, <2>2, <2>3 DEF SyncPlace, TypeOK, Place
    <2>5. conns' \in [Node -> 0 .. ConnPerNode]
      BY <1>5, ConnPerNodeAssumption DEF SyncPlace, TypeOK
    <2> QED  BY <1>5, <2>4, <2>5 DEF SyncPlace, TypeOK, readVars, Calling
  <1>6. CASE SyncInsert
    <2>1. PICK c \in fill :
            /\ followers' = followers \cup {Key(place, c)}
            /\ closed' = closed \ {Key(place, c)}
            /\ history' = [p \in DOMAIN history \cup {place} |->
                             IF p \in DOMAIN history THEN history[p] ELSE c]
            /\ fill' = fill \ {c}
      BY <1>6 DEF SyncInsert
    <2>2. place \in Place /\ c \in ConnIdx
      BY DEF TypeOK
    <2>3. followers' \subseteq Node \X Nat \X ConnIdx /\ closed' \subseteq followers'
      BY <2>1, <2>2 DEF TypeOK, Key, Place
    <2>4. DOMAIN history' \subseteq Place /\ history' \in [DOMAIN history' -> ConnIdx]
      BY <2>1, <2>2 DEF TypeOK
    <2>5. fill' \subseteq ConnIdx
      BY <2>1 DEF TypeOK
    <2> QED
      BY <1>6, <2>2, <2>3, <2>4, <2>5 DEF SyncInsert, TypeOK, readVars, Calling
  <1>7. CASE SyncDone
    BY <1>7 DEF SyncDone, TypeOK, readVars, Calling
  <1>8. ASSUME NEW r \in Reader, ReadBegin(r) PROVE TypeOK'
    BY <1>8, HistoryLength DEF ReadBegin, TypeOK, syncVars, Calling
  <1>9. ASSUME NEW r \in Reader, PickNode(r) PROVE TypeOK'
    <2>1. last' \in Nat
      BY <1>9, HistoryLength DEF PickNode, NextNodeIdx, TypeOK
    <2>2. CASE NextIteration(r) /\ UNCHANGED <<lb, target>>
      BY <1>9, <2>1, <2>2, NextIterationType DEF PickNode, TypeOK, syncVars, Calling
    <2>3. CASE /\ \E p \in DOMAIN history : target' = [target EXCEPT ![r] = p]
               /\ lb' = r /\ rpc' = [rpc EXCEPT ![r] = "scan"] /\ UNCHANGED left
      BY <1>9, <2>1, <2>3 DEF PickNode, TypeOK, syncVars, Calling
    <2> QED  BY <1>9, <2>2, <2>3 DEF PickNode
  <1>10. ASSUME NEW r \in Reader, ScanConns(r) PROVE TypeOK'
    <2>1. followers' \subseteq followers /\ closed' \subseteq followers'
      BY <1>10 DEF ScanConns, TypeOK
    <2>2. target[r] \in DOMAIN history /\ target[r] \in Place
      BY <1>10 DEF ScanConns, TargetsKnown, TypeOK
    <2>3. target' \in [Reader -> Place \cup {NoPlace}] /\ lb' = Free
      BY <1>10 DEF ScanConns, TypeOK
    <2>4. CASE NextIteration(r) /\ UNCHANGED <<history, last>>
      BY <1>10, <2>1, <2>3, <2>4, NextIterationType
         DEF ScanConns, TypeOK, syncVars, Calling
    <2>5. CASE \E h \in ConnIdx :
                 /\ last' = target[r][2]
                 /\ history' = [history EXCEPT ![target[r]] = Advance(Rotate(@, h))]
                 /\ rpc' = [rpc EXCEPT ![r] = "some"]
                 /\ left' = [left EXCEPT ![r] = 0]
      <3>1. PICK h \in ConnIdx :
              history' = [history EXCEPT ![target[r]] = Advance(Rotate(@, h))]
        BY <2>5
      <3>2. history[target[r]] \in ConnIdx
        BY <2>2 DEF TypeOK
      <3>3. DOMAIN history' = DOMAIN history /\ history' \in [DOMAIN history' -> ConnIdx]
        BY <2>2, <3>1, <3>2, RotateType DEF TypeOK
      <3>4. last' \in Nat
        BY <2>2, <2>5 DEF Place
      <3>5. /\ rpc' \in [Reader -> {"idle", "pick", "scan", "some", "none"}]
            /\ left' \in [Reader -> Nat]
            /\ \A q \in Reader : Calling(q)' => left'[q] > 0
        BY <2>5 DEF TypeOK, Calling
      <3> QED
        BY <1>10, <2>1, <2>3, <3>3, <3>4, <3>5 DEF ScanConns, TypeOK, syncVars
    <2> QED  BY <1>10, <2>4, <2>5 DEF ScanConns
  <1>11. ASSUME NEW k \in followers, ConnCloses(k) PROVE TypeOK'
    BY <1>11 DEF ConnCloses, TypeOK, syncVars, readVars, Calling
  <1>12. CASE UNCHANGED vars
    BY <1>12 DEF vars, TypeOK, syncVars, readVars, Calling
  <1> QED
    BY <1>1, <1>2, <1>3, <1>4, <1>5, <1>6, <1>7, <1>8, <1>9, <1>10, <1>11, <1>12
       DEF Next, SyncStep, ReadStep

-----------------------------------------------------------------------------
(* Node indexes                                                            *)

IndexInv == OneIndexPerNode /\ HistoryCoversPool /\ TargetsKnown /\ Assigned

\* Steps that leave alone what IndexInv is about.
LEMMA IndexFrame ==
  ASSUME IndexInv, DOMAIN history' = DOMAIN history, followers' \subseteq followers,
         \A r \in Reader : rpc'[r] = "scan" => rpc[r] = "scan" /\ target'[r] = target[r],
         spc' # "insert" \/ UNCHANGED <<spc, assigned, place, fill>>
  PROVE  IndexInv'
  BY DEF IndexInv, OneIndexPerNode, HistoryCoversPool, TargetsKnown, Assigned

LEMMA IndexStep == TypeOK /\ FillsAtEnd /\ IndexInv /\ [Next]_vars => IndexInv'
  <1> SUFFICES ASSUME TypeOK, FillsAtEnd, IndexInv, [Next]_vars PROVE IndexInv'
      OBVIOUS
  <1>1. ASSUME NEW fs \in SUBSET Node, SyncBegin(fs) PROVE IndexInv'
    BY <1>1, IndexFrame DEF SyncBegin, readVars
  <1>2. CASE SyncConnect
    BY <1>2, IndexFrame DEF SyncConnect, readVars
  <1>3. CASE SyncLock
    BY <1>3, IndexFrame DEF SyncLock, readVars
  <1>4. CASE SyncReadHistory
    <2>1. fill' = {}
      BY <1>4 DEF SyncReadHistory, FillsAtEnd
    <2> QED
      BY <1>4, <2>1 DEF SyncReadHistory, readVars, IndexInv, OneIndexPerNode,
                        HistoryCoversPool, TargetsKnown, Assigned
  <1>5. ASSUME NEW n \in Node, SyncPlace(n) PROVE IndexInv'
    <2>1. OneIndexPerNode' /\ HistoryCoversPool' /\ TargetsKnown'
      BY <1>5 DEF SyncPlace, readVars, IndexInv, OneIndexPerNode, HistoryCoversPool,
                  TargetsKnown
    <2>2. /\ DOMAIN history \subseteq assigned
          /\ \A p, q \in assigned : p[1] = q[1] => p = q
          /\ assigned \subseteq Place
      BY <1>5 DEF SyncPlace, IndexInv, Assigned, TypeOK
    <2>3. ASSUME NEW i \in PooledIdx(n), i # 0 PROVE <<n, i>> \in assigned
      <3>1. PICK k \in KeysOf(n) : k[2] = i
        BY <2>3 DEF PooledIdx
      <3> QED  BY <2>2, <3>1 DEF KeysOf, IndexInv, HistoryCoversPool
    <2>4. ASSUME NEW j \in KnownIdx(n) PROVE <<n, j>> \in assigned
      <3>1. PICK p \in assigned : p[1] = n /\ p[2] = j
        BY DEF KnownIdx
      <3>2. p = <<p[1], p[2]>>
        BY <2>2 DEF Place
      <3> QED  BY <3>1, <3>2
    <2>5. Assigned'
      <3>1. CASE place' \in assigned /\ UNCHANGED assigned
        BY <1>5, <2>2, <3>1 DEF SyncPlace, Assigned
      <3>2. CASE /\ KnownIdx(n) = {}
                 /\ \E j \in freeIdx : /\ place' = <<n, j>>
                                       /\ assigned' = assigned \cup {<<n, j>>}
        <4>1. \A p \in assigned : p[1] # n
          BY <3>2 DEF KnownIdx
        <4> QED  BY <1>5, <2>2, <3>2, <4>1 DEF SyncPlace, Assigned
      <3>3. CASE UNCHANGED <<freeIdx, assigned, place, fill>>
        BY <1>5, <2>2, <3>3 DEF SyncPlace, IndexInv, Assigned
      <3> QED  BY <1>5, <2>3, <2>4, <3>1, <3>2, <3>3 DEF SyncPlace
    <2> QED  BY <2>1, <2>5 DEF IndexInv
  <1>6. CASE SyncInsert
    <2>1. place \in assigned /\ place \in Place
      BY <1>6 DEF SyncInsert, IndexInv, Assigned, TypeOK
    <2>2. /\ DOMAIN history' = DOMAIN history \cup {place}
          /\ \E c \in fill : followers' = followers \cup {Key(place, c)}
          /\ fill' \subseteq fill
      BY <1>6 DEF SyncInsert
    <2>3. \A c : <<Key(place, c)[1], Key(place, c)[2]>> = place
      BY <2>1 DEF Key, Place
    <2>4. HistoryCoversPool'
      BY <2>2, <2>3 DEF IndexInv, HistoryCoversPool
    <2>5. OneIndexPerNode' /\ Assigned'
      BY <1>6, <2>1, <2>2 DEF SyncInsert, IndexInv, OneIndexPerNode, Assigned
    <2>6. TargetsKnown'
      BY <1>6, <2>2 DEF SyncInsert, readVars, IndexInv, TargetsKnown
    <2> QED  BY <2>4, <2>5, <2>6 DEF IndexInv
  <1>7. CASE SyncDone
    BY <1>7, IndexFrame DEF SyncDone, readVars
  <1>8. ASSUME NEW r \in Reader, ReadBegin(r) PROVE IndexInv'
    BY <1>8, IndexFrame DEF ReadBegin, syncVars, TypeOK
  <1>9. ASSUME NEW r \in Reader, PickNode(r) PROVE IndexInv'
    <2>1. OneIndexPerNode' /\ HistoryCoversPool' /\ Assigned'
      BY <1>9 DEF PickNode, syncVars, IndexInv, OneIndexPerNode, HistoryCoversPool,
                  Assigned
    <2>2. TargetsKnown'
      BY <1>9 DEF PickNode, NextIteration, IndexInv, TargetsKnown, TypeOK
    <2> QED  BY <2>1, <2>2 DEF IndexInv
  <1>10. ASSUME NEW r \in Reader, ScanConns(r) PROVE IndexInv'
    <2>1. DOMAIN history' = DOMAIN history /\ followers' \subseteq followers
      BY <1>10 DEF ScanConns, TypeOK
    <2>2. \A q \in Reader : rpc'[q] = "scan" => rpc[q] = "scan" /\ target'[q] = target[q]
      BY <1>10 DEF ScanConns, NextIteration, TypeOK
    <2> QED  BY <1>10, <2>1, <2>2, IndexFrame DEF ScanConns, syncVars
  <1>11. ASSUME NEW k \in followers, ConnCloses(k) PROVE IndexInv'
    BY <1>11, IndexFrame DEF ConnCloses, syncVars, readVars
  <1>12. CASE UNCHANGED vars
    BY <1>12, IndexFrame DEF vars, syncVars, readVars
  <1> QED
    BY <1>1, <1>2, <1>3, <1>4, <1>5, <1>6, <1>7, <1>8, <1>9, <1>10, <1>11, <1>12
       DEF Next, SyncStep, ReadStep

-----------------------------------------------------------------------------
(* Connection indexes                                                      *)

CountInv == Finite /\ FillsAtEnd /\ Counted /\ FillsFree

\* Steps that make no connection, fill nothing and only remove from the pool.
LEMMA CountFrame ==
  ASSUME TypeOK, CountInv, DOMAIN history' = DOMAIN history,
         followers' \subseteq followers, Open' \subseteq Open,
         conns' \in [Node -> 0 .. ConnPerNode],
         \A n \in Node : conns'[n] <= conns[n],
         fill' = fill, fill # {} => place' = place,
         spc' = spc \/ (fill = {} /\ (spc' = "idle" => conns' = [n \in Node |-> 0]))
  PROVE  CountInv'
  <1>1. Finite'
    <2>1. followers' \in SUBSET followers
      OBVIOUS
    <2> QED  BY <2>1, FS_Subset DEF CountInv, Finite
  <1>2. FillsAtEnd'
    <2>1. CASE spc' = spc
      <3>1. spc = "idle" => conns' = [n \in Node |-> 0]
        <4>1. SUFFICES ASSUME spc = "idle", NEW n \in Node PROVE conns'[n] = 0
          OBVIOUS
        <4>2. conns[n] = 0 /\ conns'[n] <= conns[n] /\ conns'[n] \in 0 .. ConnPerNode
          BY <4>1 DEF CountInv, FillsAtEnd
        <4> QED  BY <4>2, ConnPerNodeAssumption
      <3> QED  BY <2>1, <3>1 DEF CountInv, FillsAtEnd
    <2>2. CASE fill = {} /\ (spc' = "idle" => conns' = [n \in Node |-> 0])
      BY <2>2 DEF FillsAtEnd
    <2> QED  BY <2>1, <2>2
  <1>3. \A n : Filling(n)' = Filling(n)
    BY DEF Filling
  <1>4. Counted'
    <2> SUFFICES ASSUME NEW n \in Node
                 PROVE  conns'[n] + Cardinality(KeysOf(n)') + Cardinality(Filling(n)')
                          <= ConnPerNode
        BY DEF Counted
    <2>1. KeysOf(n)' \in SUBSET KeysOf(n)
      BY DEF KeysOf
    <2>2. Cardinality(KeysOf(n)') <= Cardinality(KeysOf(n))
          /\ Cardinality(KeysOf(n)') \in Nat
      BY <2>1, FiniteParts, FS_Subset, FS_CardinalityType DEF CountInv
    <2>3. conns[n] \in Nat /\ conns'[n] \in Nat /\ conns'[n] <= conns[n]
      BY DEF TypeOK
    <2>4. conns[n] + Cardinality(KeysOf(n)) + Cardinality(Filling(n)) <= ConnPerNode
      BY DEF CountInv, Counted
    <2> QED
      BY <1>3, <2>2, <2>3, <2>4, FiniteParts, FillingFinite, ConnPerNodeAssumption
         DEF CountInv
  <1>5. FillsFree'
    BY <1>3 DEF CountInv, FillsFree
  <1> QED  BY <1>1, <1>2, <1>4, <1>5 DEF CountInv

LEMMA SyncBeginCounts ==
  ASSUME TypeOK, CountInv, NEW fs \in SUBSET Node, SyncBegin(fs)
  PROVE  CountInv'
  <1>1. fill = {} /\ fill' = {} /\ followers' = followers
    BY DEF SyncBegin, CountInv, FillsAtEnd
  <1>2. ASSUME NEW n \in Node
        PROVE  conns'[n] + Cardinality(KeysOf(n)') + Cardinality(Filling(n)')
                 <= ConnPerNode
    <2>1. Filling(n)' = {} /\ KeysOf(n)' = KeysOf(n)
      BY <1>1 DEF Filling, KeysOf
    <2>2. /\ Cardinality(KeysOf(n)) \in Nat /\ Cardinality(KeysOf(n)) <= ConnPerNode
          /\ Cardinality(Filling(n)') = 0
      BY <2>1, KeysBound, FiniteParts, FS_EmptySet DEF CountInv
    <2>3. conns'[n] = ConnPerNode - Cardinality(KeysOf(n)) \/ conns'[n] = 0
      BY DEF SyncBegin, Required
    <2> QED  BY <2>1, <2>2, <2>3, ConnPerNodeAssumption
  <1>3. Counted'
    BY <1>2 DEF Counted
  <1>4. FillsFree'
    BY <1>1 DEF FillsFree, Filling
  <1> QED
    BY <1>1, <1>3, <1>4 DEF SyncBegin, CountInv, Finite, FillsAtEnd

LEMMA SyncPlaceCounts ==
  ASSUME TypeOK, CountInv, NEW n \in Node, SyncPlace(n)
  PROVE  CountInv'
  <1>1. /\ fill = {} /\ UNCHANGED <<followers, closed, history, spc>>
        /\ spc = "insert" /\ conns' = [conns EXCEPT ![n] = 0]
    BY DEF SyncPlace
  <1>2. \/ fill' = {}
        \/ fill' = Smallest(FreeConnIdx(n), conns[n]) /\ place'[1] = n
    BY DEF SyncPlace
  <1>3. FreeConnIdx(n) \in SUBSET ConnIdx /\ conns[n] \in Nat
    BY DEF FreeConnIdx, TypeOK
  <1>4. /\ Smallest(FreeConnIdx(n), conns[n]) \subseteq FreeConnIdx(n)
        /\ Cardinality(Smallest(FreeConnIdx(n), conns[n])) <= conns[n]
    BY <1>3, SmallestBound
  <1>5. ASSUME NEW m \in Node
        PROVE  conns'[m] + Cardinality(KeysOf(m)') + Cardinality(Filling(m)')
                 <= ConnPerNode
    <2>1. conns[m] + Cardinality(KeysOf(m)) <= ConnPerNode
      <3>1. Filling(m) = {}
        BY <1>1 DEF Filling
      <3>2. conns[m] + Cardinality(KeysOf(m)) + 0 <= ConnPerNode
        BY <3>1, FS_EmptySet DEF CountInv, Counted
      <3> QED  BY <3>2, FiniteParts DEF CountInv, TypeOK
    <2>2. KeysOf(m)' = KeysOf(m) /\ Cardinality(KeysOf(m)) \in Nat
      BY <1>1, FiniteParts DEF KeysOf, CountInv
    <2>3. CASE Filling(m)' = {}
      <3>1. conns'[m] \in Nat /\ conns[m] \in Nat /\ conns'[m] <= conns[m]
        BY <1>1 DEF TypeOK
      <3> QED  BY <2>1, <2>2, <2>3, <3>1, FS_EmptySet, ConnPerNodeAssumption
    <2>4. CASE Filling(m)' # {}
      <3>1. m = n /\ Filling(m)' = Smallest(FreeConnIdx(n), conns[n])
        BY <1>2, <2>4 DEF Filling
      <3>2. conns'[m] = 0
        BY <1>1, <3>1 DEF TypeOK
      <3>3. Cardinality(Filling(m)') \in Nat
        <4>1. Filling(m)' \in SUBSET ConnIdx
          BY <1>3, <1>4, <3>1
        <4> QED  BY <4>1, ConnIdxFinite, FS_Subset, FS_CardinalityType
      <3> QED  BY <1>3, <1>4, <2>1, <2>2, <3>1, <3>2, <3>3, ConnPerNodeAssumption
    <2> QED  BY <2>3, <2>4
  <1>6. Counted'
    BY <1>5 DEF Counted
  <1>7. FillsFree'
    <2> SUFFICES ASSUME NEW k \in Open' PROVE k[3] \notin Filling(k[1])'
        BY DEF FillsFree
    <2>1. k \in Open /\ k \in followers
      BY <1>1 DEF Open
    <2> QED  BY <1>2, <1>4, <2>1 DEF Filling, FreeConnIdx, KeysOf
  <1> QED
    BY <1>1, <1>6, <1>7 DEF CountInv, Finite, FillsAtEnd

LEMMA SyncInsertCounts ==
  ASSUME TypeOK, CountInv, SyncInsert
  PROVE  CountInv'
  <1>1. PICK c \in fill :
          /\ followers' = followers \cup {Key(place, c)}
          /\ closed' = closed \ {Key(place, c)}
          /\ DOMAIN history' = DOMAIN history \cup {place}
          /\ fill' = fill \ {c}
    BY DEF SyncInsert
  <1>2. UNCHANGED <<place, conns, spc>> /\ spc = "insert" /\ place \in Place
    BY DEF SyncInsert, TypeOK
  <1>3. Finite'
    BY <1>1, FS_AddElement DEF CountInv, Finite
  <1>4. ASSUME NEW n \in Node
        PROVE  conns'[n] + Cardinality(KeysOf(n)') + Cardinality(Filling(n)')
                 <= ConnPerNode
    <2>1. conns[n] + Cardinality(KeysOf(n)) + Cardinality(Filling(n)) <= ConnPerNode
          /\ conns'[n] = conns[n] /\ conns[n] \in Nat
      BY <1>2 DEF CountInv, Counted, TypeOK
    <2>2. /\ IsFiniteSet(KeysOf(n)) /\ Cardinality(KeysOf(n)) \in Nat
          /\ IsFiniteSet(Filling(n)) /\ Cardinality(Filling(n)) \in Nat
      BY FiniteParts, FillingFinite DEF CountInv
    <2>3. CASE place[1] = n
      <3>1. KeysOf(n)' = KeysOf(n) \cup {Key(place, c)}
        BY <1>1, <2>3 DEF KeysOf, Key
      <3>2. Cardinality(KeysOf(n)') \in Nat
            /\ Cardinality(KeysOf(n)') <= Cardinality(KeysOf(n)) + 1
        <4>1. /\ IsFiniteSet(KeysOf(n)')
              /\ \/ Cardinality(KeysOf(n)') = Cardinality(KeysOf(n))
                 \/ Cardinality(KeysOf(n)') = Cardinality(KeysOf(n)) + 1
          BY <2>2, <3>1, FS_AddElement
        <4> QED  BY <2>2, <4>1
      <3>3. Filling(n)' = Filling(n) \ {c} /\ c \in Filling(n)
        BY <1>1, <1>2, <2>3 DEF Filling
      <3>4. Cardinality(Filling(n)') = Cardinality(Filling(n)) - 1
        BY <2>2, <3>3, FS_RemoveElement
      <3> QED  BY <2>1, <2>2, <3>2, <3>4, ConnPerNodeAssumption
    <2>4. CASE place[1] # n
      <3>1. KeysOf(n)' = KeysOf(n) /\ Filling(n)' = {} /\ Filling(n) = {}
        BY <1>1, <1>2, <2>4 DEF KeysOf, Key, Filling
      <3> QED  BY <2>1, <3>1
    <2> QED  BY <2>3, <2>4
  <1>5. Counted'
    BY <1>4 DEF Counted
  <1>6. FillsFree'
    <2> SUFFICES ASSUME NEW k \in Open' PROVE k[3] \notin Filling(k[1])'
        BY DEF FillsFree
    <2>1. CASE k = Key(place, c)
      BY <1>1, <2>1 DEF Key, Filling
    <2>2. CASE k # Key(place, c)
      <3>1. k \in Open
        BY <1>1, <2>2 DEF Open
      <3> QED  BY <1>1, <1>2, <3>1 DEF CountInv, FillsFree, Filling
    <2> QED  BY <2>1, <2>2
  <1> QED
    BY <1>1, <1>2, <1>3, <1>5, <1>6 DEF CountInv, FillsAtEnd

\* A scan removes no open connection and adds none.
LEMMA ScanKeepsOpen ==
  ASSUME TypeOK, NEW r \in Reader, ScanConns(r)
  PROVE  Open \subseteq followers' /\ Open' \subseteq Open /\ followers' \subseteq followers
  <1> DEFINE p == target[r]
             hits == {d \in ConnIdx : KeyAt(p, d) \in Open}
             met == {d \in ConnIdx : \A h \in hits : d < h}
             gone == {KeyAt(p, d) : d \in met}
  <1>1. followers' = followers \ gone /\ closed' = closed \ gone
    BY DEF ScanConns
  <1>2. ASSUME NEW d \in met PROVE KeyAt(p, d) \notin Open
    <2>1. d \in Nat /\ ~(d < d)
      BY ConnIdxFinite
    <2> QED  BY <2>1
  <1>3. gone \cap Open = {}
    BY <1>2
  <1> HIDE DEF gone
  <1> QED  BY <1>1, <1>3 DEF Open

LEMMA CountStep == TypeOK /\ TypeOK' /\ CountInv /\ [Next]_vars => CountInv'
  <1> SUFFICES ASSUME TypeOK, TypeOK', CountInv, [Next]_vars PROVE CountInv'
      OBVIOUS
  <1>0. conns' \in [Node -> 0 .. ConnPerNode] /\ \A n \in Node : conns[n] <= conns[n]
    BY ConnPerNodeAssumption DEF TypeOK
  <1>1. ASSUME NEW fs \in SUBSET Node, SyncBegin(fs) PROVE CountInv'
    BY <1>1, SyncBeginCounts
  <1>2. CASE SyncConnect
    BY <1>0, <1>2, CountFrame DEF SyncConnect, Open, CountInv, FillsAtEnd
  <1>3. CASE SyncLock
    BY <1>0, <1>3, CountFrame DEF SyncLock, Open, CountInv, FillsAtEnd
  <1>4. CASE SyncReadHistory
    BY <1>0, <1>4, CountFrame DEF SyncReadHistory, Open, CountInv, FillsAtEnd
  <1>5. ASSUME NEW n \in Node, SyncPlace(n) PROVE CountInv'
    BY <1>5, SyncPlaceCounts
  <1>6. CASE SyncInsert
    BY <1>6, SyncInsertCounts
  <1>7. CASE SyncDone
    <2>1. conns' = [n \in Node |-> 0]
      BY <1>7 DEF SyncDone, TypeOK
    <2> QED  BY <1>0, <1>7, <2>1, CountFrame DEF SyncDone, Open
  <1>8. ASSUME NEW r \in Reader, ReadBegin(r) PROVE CountInv'
    BY <1>0, <1>8, CountFrame DEF ReadBegin, syncVars, Open
  <1>9. ASSUME NEW r \in Reader, PickNode(r) PROVE CountInv'
    BY <1>0, <1>9, CountFrame DEF PickNode, syncVars, Open
  <1>10. ASSUME NEW r \in Reader, ScanConns(r) PROVE CountInv'
    <2>1. DOMAIN history' = DOMAIN history
      BY <1>10 DEF ScanConns, TypeOK
    <2>2. UNCHANGED syncVars
      BY <1>10 DEF ScanConns
    <2> QED  BY <1>0, <1>10, <2>1, <2>2, ScanKeepsOpen, CountFrame DEF syncVars
  <1>11. ASSUME NEW k \in followers, ConnCloses(k) PROVE CountInv'
    BY <1>0, <1>11, CountFrame DEF ConnCloses, syncVars, Open
  <1>12. CASE UNCHANGED vars
    BY <1>0, <1>12, CountFrame DEF vars, syncVars, Open
  <1> QED
    BY <1>1, <1>2, <1>3, <1>4, <1>5, <1>6, <1>7, <1>8, <1>9, <1>10, <1>11, <1>12
       DEF Next, SyncStep, ReadStep

-----------------------------------------------------------------------------
(* Theorems                                                                *)

\* The inductive invariant of sync_followers and next_follower_conn.
THEOREM Invariance == Spec => []IInv
  <1>1. Init => IInv
    <2> SUFFICES ASSUME Init PROVE IInv
        OBVIOUS
    <2>1. TypeOK
      BY TypeInit
    <2>2. Finite /\ OneIndexPerNode /\ HistoryCoversPool
      BY FS_EmptySet DEF Init, Finite, OneIndexPerNode, HistoryCoversPool
    <2>3. TargetsKnown /\ Assigned /\ FillsAtEnd /\ FillsFree
      BY DEF Init, TargetsKnown, Assigned, FillsAtEnd, FillsFree, Open
    <2>4. Counted
      <3> SUFFICES ASSUME NEW n \in Node
                   PROVE  conns[n] + Cardinality(KeysOf(n)) + Cardinality(Filling(n))
                            <= ConnPerNode
          BY DEF Counted
      <3>1. KeysOf(n) = {} /\ Filling(n) = {} /\ conns[n] = 0
        BY DEF Init, KeysOf, Filling
      <3> QED  BY <3>1, FS_EmptySet, ConnPerNodeAssumption
    <2> QED  BY <2>1, <2>2, <2>3, <2>4 DEF IInv
  <1>2. IInv /\ [Next]_vars => IInv'
    BY TypeStep, IndexStep, CountStep DEF IInv, IndexInv, CountInv
  <1> QED  BY <1>1, <1>2, PTL DEF Spec

\* The state of the follower pool has its type, and the rotating counters of
\* next_follower_conn stay below conn_per_roomzin_node.
THEOREM TypeCorrect == Spec => []TypeOK
  <1>1. IInv => TypeOK
    BY DEF IInv
  <1> QED  BY <1>1, Invariance, PTL

\* sync_followers never gives one node two indexes.
THEOREM NodesHaveOneIndex == Spec => []OneIndexPerNode
  <1>1. IInv => OneIndexPerNode
    BY DEF IInv
  <1> QED  BY <1>1, Invariance, PTL

\* The indexing free_conn_ids[i] of sync_followers never panics, and the
\* subtraction that counts the missing connections never underflows.
THEOREM IndexingIsSafe == Spec => []FreeIdsSuffice
  <1>1. IInv => FreeIdsSuffice
    BY KeysBound, EnoughFree DEF IInv, FreeIdsSuffice
  <1> QED  BY <1>1, Invariance, PTL

\* No step of sync_followers or next_follower_conn takes an open connection out
\* of the pool, or puts another one in its place.
THEOREM OpenConnectionsStay == Spec => OpenConnsKept
  <1>1. IInv /\ [Next]_vars => [KeepsOpen]_vars
    <2> SUFFICES ASSUME IInv, Next, NEW k \in Open
                 PROVE  /\ k \in followers'
                        /\ ~(k[3] \in fill \ fill' /\ place = <<k[1], k[2]>>)
        BY DEF KeepsOpen
    <2>1. ~(k[3] \in fill /\ place = <<k[1], k[2]>>)
      BY DEF IInv, FillsFree, Filling
    <2>2. k \in followers'
      <3>1. ASSUME NEW r \in Reader, ScanConns(r) PROVE k \in followers'
        BY <3>1, ScanKeepsOpen DEF IInv
      <3>2. CASE \E n \in Node : SyncPlace(n)
        BY <3>2 DEF SyncPlace, Open
      <3>3. CASE \E r \in Reader : ReadBegin(r) \/ PickNode(r)
        BY <3>3 DEF ReadBegin, PickNode, Open
      <3>4. CASE \/ \E fs \in SUBSET Node : SyncBegin(fs)
                 \/ SyncConnect \/ SyncLock \/ SyncReadHistory \/ SyncInsert \/ SyncDone
                 \/ \E j \in followers : ConnCloses(j)
        BY <3>4 DEF SyncBegin, SyncConnect, SyncLock, SyncReadHistory, SyncInsert,
                    SyncDone, ConnCloses, Open
      <3> QED  BY <3>1, <3>2, <3>3, <3>4 DEF Next, SyncStep, ReadStep
    <2> QED  BY <2>1, <2>2
  <1> QED  BY <1>1, Invariance, PTL DEF Spec, OpenConnsKept

-----------------------------------------------------------------------------
(* The loops are bounded                                                   *)

\* The steps that a call of next_follower_conn has left at most: two for each
\* entry the history had when it began.
ReadsLeft(r) ==
  IF rpc[r] = "pick" THEN 2 * left[r] + 1 ELSE IF rpc[r] = "scan" THEN 2 * left[r] ELSE 0

\* A step of the call leaves it fewer, and nobody gives it one back: not the
\* sync task, which makes the history longer, nor the other readers, which move
\* last_node_id under it.
ReadAdvances ==
  \A r \in Reader : Calling(r) =>
     (rpc'[r] = rpc[r] /\ left'[r] = left[r]) \/ ReadsLeft(r)' < ReadsLeft(r)

LEMMA OneReadMoves ==
  ASSUME TypeOK, NEW r \in Reader, NEW p, NEW i \in Nat, rpc' = [rpc EXCEPT ![r] = p],
         left' = [left EXCEPT ![r] = i],
         Calling(r) => ReadsLeft(r)' < ReadsLeft(r)
  PROVE  ReadAdvances
  <1>1. \A q \in Reader : q # r => rpc'[q] = rpc[q] /\ left'[q] = left[q]
    BY DEF TypeOK
  <1> QED  BY <1>1 DEF ReadAdvances

LEMMA IterationAdvances ==
  ASSUME TypeOK, NEW r \in Reader, Calling(r), NextIteration(r)
  PROVE  ReadAdvances
  <1>1. left[r] \in Nat /\ left[r] > 0
    BY DEF TypeOK
  <1>2. PICK p \in {"none", "pick"} : rpc' = [rpc EXCEPT ![r] = p]
    BY DEF NextIteration
  <1>3. left' = [left EXCEPT ![r] = left[r] - 1] /\ left[r] - 1 \in Nat
    BY <1>1 DEF NextIteration
  <1>4. left'[r] = left[r] - 1 /\ rpc'[r] = p
    BY <1>2, <1>3 DEF TypeOK
  <1>5. ReadsLeft(r)' < ReadsLeft(r)
    BY <1>1, <1>4 DEF ReadsLeft, Calling
  <1> QED  BY <1>2, <1>3, <1>5, OneReadMoves

\* A read that looks for a connection gives up after two steps per entry of the
\* history, with the locks it was given, whatever is removed, inserted or picked
\* meanwhile.
THEOREM ReadsAreBounded == Spec => [][ReadAdvances]_vars
  <1>1. IInv /\ [Next]_vars => [ReadAdvances]_vars
    <2> SUFFICES ASSUME IInv, Next PROVE ReadAdvances
        OBVIOUS
    <2> USE DEF IInv
    <2>1. ASSUME UNCHANGED readVars PROVE ReadAdvances
      BY <2>1 DEF ReadAdvances, readVars
    <2>2. CASE \/ \E fs \in SUBSET Node : SyncBegin(fs)
               \/ SyncStep \/ \E k \in followers : ConnCloses(k)
      BY <2>1, <2>2 DEF SyncBegin, SyncStep, SyncConnect, SyncLock, SyncReadHistory,
         SyncInsert, SyncDone, SyncPlace, ConnCloses
    <2>3. ASSUME NEW r \in Reader, ReadBegin(r) PROVE ReadAdvances
      <3>1. \A q \in Reader : q # r => rpc'[q] = rpc[q] /\ left'[q] = left[q]
        BY <2>3 DEF ReadBegin, TypeOK
      <3> QED  BY <2>3, <3>1 DEF ReadAdvances, ReadBegin
    <2>4. ASSUME NEW r \in Reader, PickNode(r) PROVE ReadAdvances
      <3>1. CASE NextIteration(r)
        BY <2>4, <3>1, IterationAdvances DEF PickNode, Calling
      <3>2. CASE rpc' = [rpc EXCEPT ![r] = "scan"] /\ UNCHANGED left
        <4>1. /\ left[r] \in Nat /\ rpc[r] = "pick" /\ rpc'[r] = "scan"
              /\ left' = [left EXCEPT ![r] = left[r]] /\ left'[r] = left[r]
          BY <2>4, <3>2 DEF TypeOK, PickNode
        <4>2. ReadsLeft(r)' < ReadsLeft(r)
          BY <4>1 DEF ReadsLeft
        <4> QED  BY <3>2, <4>1, <4>2, OneReadMoves
      <3> QED  BY <2>4, <3>1, <3>2 DEF PickNode
    <2>5. ASSUME NEW r \in Reader, ScanConns(r) PROVE ReadAdvances
      <3>1. CASE NextIteration(r)
        BY <2>5, <3>1, IterationAdvances DEF ScanConns, Calling
      <3>2. CASE rpc' = [rpc EXCEPT ![r] = "some"] /\ left' = [left EXCEPT ![r] = 0]
        <4>1. left[r] \in Nat /\ left[r] > 0 /\ rpc[r] = "scan" /\ rpc'[r] = "some"
          BY <2>5, <3>2 DEF TypeOK, ScanConns, Calling
        <4>2. ReadsLeft(r)' < ReadsLeft(r)
          BY <4>1 DEF ReadsLeft
        <4> QED  BY <3>2, <4>2, OneReadMoves
      <3> QED  BY <2>5, <3>1, <3>2 DEF ScanConns
    <2> QED  BY <2>2, <2>3, <2>4, <2>5 DEF Next, ReadStep
  <1> QED  BY <1>1, Invariance, PTL DEF Spec

Stage(p) ==
  CASE p = "connect" -> 1 [] p = "lock" -> 2 [] p = "assign" -> 3 [] p = "insert" -> 4
    [] OTHER -> 5

\* The nodes whose new connections have no place yet.
Lacking == {n \in Node : conns[n] > 0}

Smaller(S, T) == S \subseteq T /\ S # T

\* A step of sync_followers goes to its next stage, places the connections of
\* one more node, or inserts one more of them; nobody else gives it work.
SyncAdvances ==
  spc # "idle" =>
    \/ UNCHANGED <<spc, conns, fill>>
    \/ Stage(spc') > Stage(spc)
    \/ spc' = spc /\ Smaller(Lacking', Lacking)
    \/ UNCHANGED <<spc, conns>> /\ Smaller(fill', fill)

\* One call of sync_followers is bounded by the nodes and by
\* conn_per_roomzin_node, whatever the readers remove or the connections do
\* meanwhile: it only stops where it waits for a lock.
THEOREM SyncIsBounded == Spec => [][SyncAdvances]_vars
  <1>1. IInv /\ [Next]_vars => [SyncAdvances]_vars
    <2> SUFFICES ASSUME IInv, Next PROVE SyncAdvances
        OBVIOUS
    <2>1. ASSUME UNCHANGED syncVars PROVE SyncAdvances
      BY <2>1 DEF SyncAdvances, syncVars
    <2>2. CASE \/ \E r \in Reader : ReadBegin(r) \/ ReadStep(r)
               \/ \E k \in followers : ConnCloses(k)
      BY <2>1, <2>2 DEF ReadBegin, ReadStep, PickNode, ScanConns, ConnCloses
    <2>3. ASSUME NEW fs \in SUBSET Node, SyncBegin(fs) PROVE SyncAdvances
      BY <2>3 DEF SyncBegin, SyncAdvances
    <2>4. CASE SyncConnect \/ SyncLock \/ SyncReadHistory \/ SyncDone
      BY <2>4 DEF SyncConnect, SyncLock, SyncReadHistory, SyncDone, SyncAdvances, Stage
    <2>5. CASE SyncInsert
      BY <2>5 DEF SyncInsert, SyncAdvances, Smaller
    <2>6. ASSUME NEW n \in Node, SyncPlace(n) PROVE SyncAdvances
      <3>1. /\ n \in Lacking /\ spc' = spc /\ conns' = [conns EXCEPT ![n] = 0]
            /\ conns \in [Node -> 0 .. ConnPerNode]
        BY <2>6 DEF SyncPlace, Lacking, IInv, TypeOK
      <3>2. Lacking' = Lacking \ {n}
        BY <3>1 DEF Lacking
      <3> QED  BY <3>1, <3>2 DEF SyncAdvances, Smaller
    <2> QED  BY <2>2, <2>3, <2>4, <2>5, <2>6 DEF Next, SyncStep
  <1> QED  BY <1>1, Invariance, PTL DEF Spec

-----------------------------------------------------------------------------
(* A read goes once round the history                                      *)

Len == Cardinality(DOMAIN history)

\* last_node_id and the entry a reader looks at are indexes of the history.
LastInRange ==
  /\ last = 0 \/ last < Len
  /\ \A r \in Reader : rpc[r] = "scan" => target[r][2] < Len

\* Where the rest of r's round begins, and the node indexes it visits.
Front(r) == IF rpc[r] = "pick" THEN last + 1 ELSE last
Ahead(r) == {i \in Nat : \E j \in {i, i + Len} : Front(r) <= j /\ j < Front(r) + left[r]}

\* What r has passed had no connection that was open all along: those that
\* were are ahead.
Round(r) ==
  /\ Dense /\ Len # 0
  /\ rpc[r] = "scan" => target[r][2] = last
  /\ \A k \in steady[r] : k \in Open /\ k[2] \in Ahead(r)

RoundInv ==
  /\ LastInRange /\ LoneReadFindsOpen
  /\ \A r \in alone : Calling(r) => Round(r)

LEMMA HistoryGrows ==
  ASSUME TypeOK, [Next]_vars
  PROVE  DOMAIN history \subseteq DOMAIN history'
  <1>1. ASSUME NEW r \in Reader, ScanConns(r) PROVE DOMAIN history' = DOMAIN history
    BY <1>1 DEF ScanConns, TypeOK
  <1>2. CASE SyncInsert
    BY <1>2 DEF SyncInsert
  <1> QED
    BY <1>1, <1>2 DEF Next, SyncStep, ReadStep, SyncBegin, SyncConnect, SyncLock,
       SyncReadHistory, SyncPlace, SyncDone, ReadBegin, PickNode, ConnCloses, vars

LEMMA LenGrows ==
  ASSUME IInv, IInv', [Next]_vars
  PROVE  Len \in Nat /\ Len' \in Nat /\ Len <= Len'
  <1>1. DOMAIN history \in SUBSET DOMAIN history'
    BY HistoryGrows DEF IInv
  <1> QED
    BY <1>1, FS_Subset, FS_CardinalityType DEF Len, IInv, Finite

LEMMA LastStep ==
  ASSUME IInv, IInv', LastInRange, [Next]_vars
  PROVE  LastInRange'
  <1>1. Len \in Nat /\ Len' \in Nat /\ Len <= Len' /\ last \in Nat
    BY LenGrows DEF IInv, TypeOK
  <1>2. ASSUME NEW r \in Reader, rpc[r] = "scan" PROVE target[r][2] \in Nat
    BY <1>2 DEF IInv, TypeOK, TargetsKnown, Place
  <1>3. ASSUME UNCHANGED last,
               \A r \in Reader : rpc'[r] = "scan" => rpc[r] = "scan" /\ target'[r] = target[r]
        PROVE  LastInRange'
    BY <1>1, <1>2, <1>3 DEF LastInRange
  <1>4. ASSUME NEW q \in Reader, PickNode(q) PROVE LastInRange'
    <2>1. last' = NextNodeIdx /\ Len' = Len /\ (NextNodeIdx = 0 \/ NextNodeIdx < Len)
      BY <1>1, <1>4 DEF PickNode, NextNodeIdx, Len
    <2>2. ASSUME NEW r \in Reader, rpc'[r] = "scan" PROVE target'[r][2] < Len
      <3>1. CASE rpc[r] = "scan" /\ target'[r] = target[r]
        BY <3>1 DEF LastInRange
      <3>2. CASE \E p \in DOMAIN history : p[2] = NextNodeIdx /\ target'[r] = p
        <4>1. DOMAIN history # {}
          BY <3>2
        <4>2. Len # 0
          BY <4>1, FS_EmptySet DEF Len, IInv, Finite
        <4> QED  BY <1>1, <2>1, <3>2, <4>2
      <3> QED
        BY <1>4, <2>2, <3>1, <3>2 DEF PickNode, NextIteration, IInv, TypeOK
    <2> QED  BY <2>1, <2>2 DEF LastInRange
  <1>5. ASSUME NEW q \in Reader, ScanConns(q) PROVE LastInRange'
    <2>1. last' = last \/ last' = target[q][2]
      BY <1>5 DEF ScanConns
    <2>2. target[q][2] < Len /\ target[q][2] \in Nat
      BY <1>2, <1>5 DEF LastInRange, ScanConns
    <2>3. \A r \in Reader : rpc'[r] = "scan" => rpc[r] = "scan" /\ target'[r] = target[r]
      BY <1>5 DEF ScanConns, NextIteration, IInv, TypeOK
    <2> QED  BY <1>1, <1>2, <2>1, <2>2, <2>3 DEF LastInRange
  <1>6. CASE \E q \in Reader : ReadBegin(q)
    BY <1>3, <1>6 DEF ReadBegin, IInv, TypeOK
  <1> QED
    BY <1>3, <1>4, <1>5, <1>6 DEF Next, SyncStep, ReadStep, SyncBegin, SyncConnect,
       SyncLock, SyncReadHistory, SyncPlace, SyncInsert, SyncDone, ConnCloses, vars,
       readVars

\* A dense history has an entry for every index below its length.
LEMMA IndexesInRange ==
  ASSUME IInv, Dense, NEW k \in Open
  PROVE  <<k[1], k[2]>> \in DOMAIN history /\ k[2] \in 0 .. Len - 1
  <1>1. <<k[1], k[2]>> \in DOMAIN history
    BY DEF IInv, HistoryCoversPool, Open
  <1>2. <<k[1], k[2]>>[2] \in {p[2] : p \in DOMAIN history}
    BY <1>1
  <1> QED  BY <1>1, <1>2 DEF Dense, Len

\* A call begins with the whole round ahead of it.
LEMMA RoundBegins ==
  ASSUME IInv, LastInRange, NEW r \in Reader, ReadBegin(r), Dense,
         steady'[r] = Open
  PROVE  (Calling(r)' => Round(r)') /\ (rpc'[r] = "none" => steady'[r] = {})
  <1>1. /\ UNCHANGED <<followers, closed, history, last>>
        /\ left'[r] = Len /\ rpc'[r] = IF Len = 0 THEN "none" ELSE "pick"
    BY DEF ReadBegin, IInv, TypeOK, Len
  <1>2. Dense' /\ Len' = Len /\ Open' = Open
    BY <1>1 DEF Dense, Len, Open
  <1>3. Len \in Nat /\ last \in Nat
    BY FS_CardinalityType DEF IInv, Finite, TypeOK, Len
  <1>4. CASE Len = 0
    <2>1. Open = {}
      <3> SUFFICES ASSUME NEW k \in Open PROVE FALSE
          OBVIOUS
      <3>1. k[2] \in 0 .. 0 - 1
        BY <1>4, IndexesInRange
      <3> QED  BY <3>1
    <2> QED  BY <1>1, <1>4, <2>1 DEF Calling
  <1>5. CASE Len # 0
    <2>1. ASSUME NEW k \in Open PROVE k[2] \in Ahead(r)'
      <3>1. k[2] \in 0 .. Len - 1
        BY IndexesInRange
      <3>2. Front(r)' = last + 1 /\ last < Len /\ left'[r] = Len
        BY <1>1, <1>3, <1>5 DEF Front, LastInRange
      <3>3. \E j \in {k[2], k[2] + Len} : last + 1 <= j /\ j < last + 1 + Len
        <4>1. CASE k[2] > last
          BY <1>3, <3>1, <3>2, <4>1
        <4>2. CASE ~(k[2] > last)
          BY <1>3, <3>1, <3>2, <4>2
        <4> QED  BY <4>1, <4>2
      <3> QED  BY <1>2, <3>1, <3>2, <3>3 DEF Ahead
    <2> QED  BY <1>1, <1>2, <1>5, <2>1 DEF Round
  <1> QED  BY <1>4, <1>5

\* The entry with the next index is looked at; what is ahead stays ahead.
LEMMA RoundPicks ==
  ASSUME IInv, LastInRange, NEW r \in Reader, PickNode(r), Round(r),
         steady'[r] = steady[r] \cap Open'
  PROVE  rpc'[r] = "scan" /\ Round(r)'
  <1>1. /\ rpc[r] = "pick" /\ last' = NextNodeIdx
        /\ UNCHANGED <<followers, closed, history>>
    BY DEF PickNode
  <1>2. Dense' /\ Len' = Len /\ Open' = Open
    BY <1>1 DEF Dense, Len, Open, Round
  <1>3. Len \in Nat /\ last \in Nat /\ left[r] \in Nat
    BY FS_CardinalityType DEF IInv, Finite, TypeOK, Len
  <1>4. CASE {p \in DOMAIN history : p[2] = NextNodeIdx} = {}
    <2>1. NextNodeIdx \notin 0 .. Len - 1
      BY <1>4 DEF Round, Dense, Len
    <2>2. Len = 0
      BY <1>3, <2>1 DEF NextNodeIdx, Len
    <2> QED  BY <2>2 DEF Round
  <1>5. CASE {p \in DOMAIN history : p[2] = NextNodeIdx} # {}
    <2>1. /\ rpc'[r] = "scan" /\ left'[r] = left[r]
          /\ target'[r][2] = last'
      BY <1>1, <1>5 DEF PickNode, IInv, TypeOK
    <2>2. ASSUME NEW k \in steady[r] PROVE k[2] \in Ahead(r)'
      <3>1. PICK j \in {k[2], k[2] + Len} : last + 1 <= j /\ j < last + 1 + left[r]
        BY <1>1 DEF Round, Ahead, Front
      <3>2. k[2] \in 0 .. Len - 1
        BY IndexesInRange DEF Round
      <3>3. Front(r)' = NextNodeIdx
        BY <1>1, <2>1 DEF Front
      <3>4. \E i \in {k[2], k[2] + Len} : NextNodeIdx <= i /\ i < NextNodeIdx + left[r]
        <4>1. CASE last + 1 < Len
          BY <1>3, <3>1, <4>1 DEF NextNodeIdx, Len
        <4>2. CASE last + 1 >= Len
          <5>1. NextNodeIdx = 0 /\ last + 1 = Len
            BY <1>3, <3>2, <4>2 DEF NextNodeIdx, Len, LastInRange
          <5>2. k[2] < left[r]
            BY <1>3, <3>1, <3>2, <5>1
          <5> QED  BY <1>3, <3>2, <5>1, <5>2
        <4> QED  BY <1>3, <4>1, <4>2
      <3> QED  BY <1>2, <2>1, <3>2, <3>3, <3>4 DEF Ahead
    <2> QED  BY <1>2, <2>1, <2>2 DEF Round
  <1> QED  BY <1>4, <1>5

\* A scan that finds nothing has passed no connection that was open all along.
LEMMA RoundScans ==
  ASSUME IInv, LastInRange, NEW r \in Reader, ScanConns(r), Round(r),
         steady'[r] = steady[r] \cap Open', DOMAIN history' = DOMAIN history
  PROVE  (Calling(r)' => Round(r)') /\ (rpc'[r] = "none" => steady'[r] = {})
  <1> DEFINE p == target[r]
             hits == {d \in ConnIdx : KeyAt(p, d) \in Open}
  <1>1. Dense' /\ Len' = Len /\ Len # 0
    BY DEF Dense, Len, Round
  <1>2. Len \in Nat /\ last \in Nat /\ left[r] \in Nat /\ left[r] > 0 /\ rpc[r] = "scan"
    BY FS_CardinalityType DEF IInv, Finite, TypeOK, Len, ScanConns, Calling
  <1>3. CASE hits # {}
    BY <1>3 DEF ScanConns, IInv, TypeOK, Calling
  <1>4. CASE hits = {}
    <2>1. /\ last' = last /\ left'[r] = left[r] - 1
          /\ rpc'[r] = IF left[r] = 1 THEN "none" ELSE "pick"
      BY <1>4 DEF ScanConns, NextIteration, IInv, TypeOK
    <2>2. ASSUME NEW k \in steady[r] PROVE k[2] # last
      <3> SUFFICES ASSUME k[2] = last PROVE FALSE
          OBVIOUS
      <3>1. k \in Open /\ <<k[1], k[2]>> \in DOMAIN history
        BY IndexesInRange DEF Round
      <3>2. p \in DOMAIN history /\ p[2] = last
        BY <1>2 DEF IInv, TargetsKnown, Round
      <3>3. p = <<k[1], k[2]>> /\ history[p] \in ConnIdx
        BY <3>1, <3>2 DEF Round, Dense, IInv, TypeOK
      <3>4. k[3] \in ConnIdx /\ k = <<k[1], k[2], k[3]>>
        BY <3>1 DEF IInv, TypeOK, Open
      <3>5. PICK d \in ConnIdx : Rotate(history[p], d) = k[3]
        <4>1. CASE history[p] <= k[3]
          <5>1. k[3] - history[p] \in ConnIdx /\ Rotate(history[p], k[3] - history[p]) = k[3]
            BY <3>3, <3>4, <4>1, ConnPerNodeAssumption DEF ConnIdx, Rotate
          <5> QED  BY <5>1
        <4>2. CASE ~(history[p] <= k[3])
          <5> DEFINE d == k[3] + ConnPerNode - history[p]
          <5>1. d \in ConnIdx /\ Rotate(history[p], d) = k[3]
            BY <3>3, <3>4, <4>2, ConnPerNodeAssumption DEF ConnIdx, Rotate
          <5> QED  BY <5>1
        <4> QED  BY <4>1, <4>2
      <3>6. KeyAt(p, d) = k
        BY <3>3, <3>4, <3>5 DEF KeyAt, Key
      <3> QED  BY <1>4, <3>1, <3>6
    <2>3. ASSUME NEW k \in steady[r]
          PROVE  /\ k[2] \in Nat
                 /\ \E j \in {k[2], k[2] + Len} :
                       last + 1 <= j /\ j < last + 1 + (left[r] - 1)
      <3>1. PICK j \in {k[2], k[2] + Len} : last <= j /\ j < last + left[r]
        BY <1>2 DEF Round, Ahead, Front
      <3>2. k[2] \in 0 .. Len - 1 /\ last < Len
        BY <1>1, <1>2, IndexesInRange DEF Round, LastInRange
      <3>3. j # last
        BY <1>2, <2>2, <3>1, <3>2
      <3> QED  BY <1>2, <3>1, <3>2, <3>3
    <2>4. CASE left[r] = 1
      <3>1. steady[r] = {}
        <4> SUFFICES ASSUME NEW k \in steady[r] PROVE FALSE
            OBVIOUS
        <4>1. PICK j \in {k[2], k[2] + Len} : last + 1 <= j /\ j < last + 1
          BY <1>2, <2>3, <2>4
        <4> QED  BY <1>2, <2>3, <4>1
      <3> QED  BY <2>1, <2>4, <3>1 DEF Calling
    <2>5. CASE left[r] # 1
      <3>1. rpc'[r] = "pick" /\ Front(r)' = last + 1
        BY <2>1, <2>5 DEF Front
      <3>2. \A k \in steady[r] : k[2] \in Ahead(r)'
        BY <1>1, <2>1, <2>3, <3>1 DEF Ahead
      <3> QED  BY <1>1, <3>1, <3>2 DEF Round
    <2> QED  BY <2>4, <2>5
  <1> QED  BY <1>3, <1>4

\* A step of others leaves r where it is.
LEMMA RoundKept ==
  ASSUME IInv, NEW r \in Reader, Calling(r), Round(r),
         UNCHANGED <<last, rpc[r], left[r], target[r]>>,
         DOMAIN history' = DOMAIN history, steady'[r] = steady[r] \cap Open'
  PROVE  Calling(r)' /\ Round(r)'
  <1>1. Dense' /\ Len' = Len
    BY DEF Dense, Len, Round
  <1>2. Ahead(r)' = Ahead(r)
    BY <1>1 DEF Ahead, Front
  <1> QED  BY <1>1, <1>2 DEF Round, Calling

LEMMA OthersMove ==
  ASSUME IInv, Next, NEW r \in Reader, Calling(r), ~PickNode(r), ~ScanConns(r)
  PROVE  UNCHANGED <<rpc[r], left[r], target[r]>>
  <1>1. ASSUME NEW q \in Reader, ReadBegin(q) PROVE UNCHANGED <<rpc[r], left[r], target[r]>>
    <2>1. q # r
      BY <1>1 DEF ReadBegin
    <2> QED  BY <1>1, <2>1 DEF ReadBegin, IInv, TypeOK
  <1>2. ASSUME NEW q \in Reader, PickNode(q) \/ ScanConns(q)
        PROVE  UNCHANGED <<rpc[r], left[r], target[r]>>
    <2>1. q # r
      BY <1>2
    <2> QED  BY <1>2, <2>1 DEF PickNode, ScanConns, NextIteration, IInv, TypeOK
  <1>3. CASE UNCHANGED readVars
    BY <1>3 DEF readVars
  <1> QED
    BY <1>1, <1>2, <1>3 DEF Next, SyncStep, ReadStep, SyncBegin, SyncConnect, SyncLock,
       SyncReadHistory, SyncPlace, SyncInsert, SyncDone, ConnCloses

LEMMA RoundStep ==
  ASSUME IInv, IInv', RoundInv, [ReadsNext]_allVars
  PROVE  RoundInv'
  <1>1. CASE UNCHANGED allVars
    <2>1. UNCHANGED <<followers, closed, history, last, rpc, left, target, steady, alone>>
      BY <1>1 DEF allVars, vars, readVars
    <2>2. LastInRange' /\ LoneReadFindsOpen'
      BY <2>1 DEF RoundInv, LastInRange, LoneReadFindsOpen, Len
    <2>3. ASSUME NEW r \in alone', Calling(r)' PROVE Round(r)'
      <3>1. Round(r)
        BY <2>1, <2>3 DEF RoundInv, Calling
      <3>2. Dense' /\ Len' = Len /\ Open' = Open
        BY <2>1, <3>1 DEF Round, Dense, Len, Open
      <3>3. Ahead(r)' = Ahead(r)
        BY <2>1, <3>2 DEF Ahead, Front
      <3> QED  BY <2>1, <3>1, <3>2, <3>3 DEF Round
    <2> QED  BY <2>2, <2>3 DEF RoundInv
  <1>2. CASE ReadsNext
    <2>1. LastInRange'
      BY <1>2, LastStep DEF RoundInv, ReadsNext
    <2>2. ASSUME NEW r \in alone'
          PROVE  (Calling(r)' => Round(r)') /\ (rpc'[r] = "none" => steady'[r] = {})
      <3>1. r \in Reader /\ steady'[r] = (IF ReadBegin(r) THEN Open
                            ELSE IF Calling(r) THEN steady[r] \cap Open' ELSE {})
        BY <1>2 DEF ReadsNext
      <3>2. CASE ReadBegin(r) /\ Dense
        BY <3>1, <3>2, RoundBegins DEF RoundInv
      <3>3. CASE Calling(r) /\ r \in alone /\ LeavesAlone(r)
        <4>1. Round(r) /\ steady'[r] = steady[r] \cap Open' /\ DOMAIN history' = DOMAIN history
          BY <3>1, <3>3 DEF RoundInv, ReadBegin, LeavesAlone
        <4>2. CASE PickNode(r)
          BY <3>1, <4>1, <4>2, RoundPicks DEF RoundInv, Calling
        <4>3. CASE ScanConns(r)
          BY <3>1, <4>1, <4>3, RoundScans DEF RoundInv
        <4>4. CASE ~PickNode(r) /\ ~ScanConns(r)
          <5>1. UNCHANGED <<rpc[r], left[r], target[r]>>
            BY <1>2, <3>1, <3>3, <4>4, OthersMove DEF ReadsNext
          <5>2. UNCHANGED last
            BY <3>3, <5>1 DEF LeavesAlone
          <5> QED  BY <3>1, <3>3, <4>1, <5>1, <5>2, RoundKept DEF Calling
        <4> QED  BY <4>2, <4>3, <4>4
      <3> QED  BY <1>2, <3>2, <3>3 DEF ReadsNext
    <2> QED  BY <2>1, <2>2 DEF RoundInv, LoneReadFindsOpen
  <1> QED  BY <1>1, <1>2

\* next_follower_conn finds an open connection if there is one throughout its
\* call, as long as the round it makes is dense and left alone: for any number
\* of nodes, of connections per node and of other readers, and whatever the
\* sync task and the clean-ups do to the other connections.
THEOREM LoneReadsFind == ReadsSpec => []LoneReadFindsOpen
  <1>1. ReadsInit => RoundInv
    BY DEF ReadsInit, Init, RoundInv, LastInRange, LoneReadFindsOpen
  <1>2. IInv /\ IInv' /\ RoundInv /\ [ReadsNext]_allVars => RoundInv'
    BY RoundStep
  <1>3. ReadsInit => Init
    BY DEF ReadsInit
  <1>4. [ReadsNext]_allVars => [Next]_vars
    BY DEF ReadsNext, allVars
  <1>5. RoundInv => LoneReadFindsOpen
    BY DEF RoundInv
  <1> QED  BY <1>1, <1>2, <1>3, <1>4, <1>5, Invariance, PTL DEF ReadsSpec, Spec

=============================================================================
