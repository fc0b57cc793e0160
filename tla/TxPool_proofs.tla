---------------------------- MODULE TxPool_proofs ---------------------------
(* Proofs about TxPool for any senders, transactions and limits.            *)
EXTENDS TxPool, FiniteSetTheorems, TLAPS

-----------------------------------------------------------------------------
(* The txSortedMap *)

LEMMA SortedSubset ==
    ASSUME NEW a, NEW m \in SortedMap(a), NEW s, s \subseteq m
    PROVE  s \in SortedMap(a)
  BY DEF SortedMap

LEMMA PutSorted ==
    ASSUME NEW a, NEW m \in SortedMap(a), NEW tx \in Txs, tx.from = a
    PROVE  Put(m, tx) \in SortedMap(a)
  BY DEF SortedMap, Put

LEMMA DroppedSubset == ASSUME NEW m PROVE Dropped(m) \subseteq m
  BY DEF Dropped

LEMMA EnqueueSorted ==
    ASSUME NEW a, NEW m \in SortedMap(a), NEW tx \in Txs, tx.from = a
    PROVE  EnqueuePending(m, tx) \in SortedMap(a)
<1>1. m \ Dropped(m) \in SortedMap(a)
  BY SortedSubset
<1> QED BY <1>1, PutSorted DEF EnqueuePending

\* What enqueuePending leaves: the new transaction, and old ones not dropped.
LEMMA EnqueueMembers ==
    ASSUME NEW m, NEW tx, NEW t \in EnqueuePending(m, tx)
    PROVE  t = tx \/ (t \in m /\ t \notin Dropped(m) /\ t.nonce # tx.nonce)
  BY DEF EnqueuePending, Put

-----------------------------------------------------------------------------
(* The inductive invariant *)

IInv ==
    /\ TypeOK
    /\ MapsAreIndexed
    /\ PendingIsCurrent
    /\ DueIsNotQueued

LEMMA TxFrom == ASSUME NEW tx \in Txs PROVE tx.from \in Senders /\ tx.nonce \in Nat
<1>1. tx \in Transaction
  BY TxsAssumption
<1> QED BY <1>1 DEF Transaction

\* Two maps share a transaction only if they are the same map: a map holds its
\* own sender's transactions, and pending and queued ones differ in nonce.
LEMMA MapsDisjoint ==
    ASSUME IInv, NEW a \in Senders, NEW b \in Senders, NEW t \in pending[a]
    PROVE  /\ t \notin queued[b]
           /\ a # b => t \notin pending[b]
<1>1. /\ pending[a] \in SortedMap(a) /\ pending[b] \in SortedMap(b)
      /\ queued[b] \in SortedMap(b)
  BY DEF IInv, TypeOK
<1>2. t.from = a /\ t.nonce = currentNonces[a]
  BY <1>1 DEF SortedMap, IInv, PendingIsCurrent
<1>3. t \notin queued[b]
  BY <1>1, <1>2 DEF SortedMap, IInv, DueIsNotQueued
<1>4. a # b => t \notin pending[b]
  BY <1>1, <1>2 DEF SortedMap
<1> QED BY <1>3, <1>4

LEMMA AddPendingStep ==
    ASSUME IInv, NEW c \in Clients, NEW tx \in Txs, AddPending(c, tx)
    PROVE  IInv'
<1>1. /\ tx.nonce = currentNonces[tx.from] /\ tx \notin all
      /\ pending' = [pending EXCEPT ![tx.from] = EnqueuePending(@, tx)]
      /\ all' = (all \ Dropped(pending[tx.from])) \cup {tx}
      /\ UNCHANGED <<queued, currentNonces, baseGasPrice, mu>>
      /\ waiting' = waiting \ {c}
  BY DEF AddPending, Runs, Acceptable
<1>2. tx.from \in Senders
  BY TxFrom
<1>3. \A a \in Senders : pending'[a] =
          IF a = tx.from THEN EnqueuePending(pending[a], tx) ELSE pending[a]
  BY <1>1 DEF IInv, TypeOK
<1>4. EnqueuePending(pending[tx.from], tx) \in SortedMap(tx.from)
  BY <1>2, EnqueueSorted DEF IInv, TypeOK
<1>5. TypeOK'
  <2>1. DOMAIN pending' = Senders
    BY <1>1 DEF IInv, TypeOK
  <2>2. \A a \in Senders : pending'[a] \in SortedMap(a)
    BY <1>3, <1>4 DEF IInv, TypeOK
  <2>3. all' \in SUBSET Txs
    BY <1>1 DEF IInv, TypeOK
  <2> QED BY <1>1, <2>1, <2>2, <2>3 DEF IInv, TypeOK, SortedMap
<1>6. MapsAreIndexed'
  <2> SUFFICES ASSUME NEW a \in Senders, NEW t \in pending'[a] \cup queued'[a]
               PROVE  t \in all'
    BY DEF MapsAreIndexed
  <2>1. CASE t \in queued[a]
    <3>1. t \notin Dropped(pending[tx.from])
      BY <1>2, <2>1, MapsDisjoint, DroppedSubset
    <3> QED BY <1>1, <2>1, <3>1 DEF IInv, MapsAreIndexed
  <2>2. CASE t \in pending'[a] /\ a = tx.from
    <3>1. t = tx \/ (t \in pending[a] /\ t \notin Dropped(pending[a]))
      BY <1>3, <2>2, EnqueueMembers
    <3> QED BY <1>1, <2>2, <3>1 DEF IInv, MapsAreIndexed
  <2>3. CASE t \in pending'[a] /\ a # tx.from
    <3>1. t \in pending[a]
      BY <1>3, <2>3
    <3>2. t \notin Dropped(pending[tx.from])
      BY <1>2, <2>3, <3>1, MapsDisjoint, DroppedSubset
    <3> QED BY <1>1, <3>1, <3>2 DEF IInv, MapsAreIndexed
  <2> QED BY <1>1, <2>1, <2>2, <2>3
<1>7. PendingIsCurrent'
  <2> SUFFICES ASSUME NEW a \in Senders, NEW t \in pending'[a]
               PROVE  t.nonce = currentNonces[a]
    BY <1>1 DEF PendingIsCurrent
  <2>1. t \in pending[a] \/ (t = tx /\ a = tx.from)
    BY <1>3, EnqueueMembers
  <2> QED BY <1>1, <2>1 DEF IInv, PendingIsCurrent
<1>8. DueIsNotQueued'
  BY <1>1 DEF IInv, DueIsNotQueued
<1> QED BY <1>5, <1>6, <1>7, <1>8 DEF IInv

LEMMA AddQueuedStep ==
    ASSUME IInv, NEW c \in Clients, NEW tx \in Txs, AddQueued(c, tx)
    PROVE  IInv'
<1>1. /\ tx.nonce > currentNonces[tx.from]
      /\ queued' = [queued EXCEPT ![tx.from] = Put(@, tx)]
      /\ all' = all \cup {tx}
      /\ UNCHANGED <<pending, currentNonces, baseGasPrice, mu>>
      /\ waiting' = waiting \ {c}
  BY DEF AddQueued, Runs
<1>2. tx.from \in Senders /\ tx.nonce \in Nat
  BY TxFrom
<1>3. \A a \in Senders : queued'[a] = IF a = tx.from THEN Put(queued[a], tx) ELSE queued[a]
  BY <1>1 DEF IInv, TypeOK
<1>4. Put(queued[tx.from], tx) \in SortedMap(tx.from)
  BY <1>2, PutSorted DEF IInv, TypeOK
<1>5. \A a \in Senders : \A t \in queued'[a] : t \in queued[a] \/ (t = tx /\ a = tx.from)
  BY <1>3 DEF Put
<1>6. TypeOK'
  <2>1. DOMAIN queued' = Senders
    BY <1>1 DEF IInv, TypeOK
  <2>2. \A a \in Senders : queued'[a] \in SortedMap(a)
    BY <1>3, <1>4 DEF IInv, TypeOK
  <2> QED BY <1>1, <2>1, <2>2 DEF IInv, TypeOK, SortedMap
<1>7. MapsAreIndexed'
  BY <1>1, <1>5 DEF IInv, MapsAreIndexed
<1>8. PendingIsCurrent'
  BY <1>1 DEF IInv, PendingIsCurrent
<1>9. DueIsNotQueued'
  <2>1. currentNonces[tx.from] \in Int
    BY <1>2, BoundsAssumption DEF IInv, TypeOK
  <2>2. tx.nonce # currentNonces[tx.from]
    BY <1>1, <1>2, <2>1
  <2> QED BY <1>1, <1>5, <2>2 DEF IInv, DueIsNotQueued
<1> QED BY <1>6, <1>7, <1>8, <1>9 DEF IInv

LEMMA RemoveStep ==
    ASSUME IInv, NEW c \in Clients, NEW tx \in Txs, Remove(c, tx)
    PROVE  IInv'
<1>1. /\ pending' = [pending EXCEPT ![tx.from] = Without(@, tx.nonce)]
      /\ queued' = [queued EXCEPT ![tx.from] = Without(@, tx.nonce)]
      /\ all' = all \ {tx}
      /\ UNCHANGED <<currentNonces, baseGasPrice, mu>>
      /\ waiting' = waiting \ {c}
  BY DEF Remove, Runs
<1>2. \A a \in Senders :
          /\ pending'[a] = IF a = tx.from THEN Without(pending[a], tx.nonce) ELSE pending[a]
          /\ queued'[a] = IF a = tx.from THEN Without(queued[a], tx.nonce) ELSE queued[a]
  BY <1>1 DEF IInv, TypeOK
<1>3. \A a \in Senders : pending'[a] \subseteq pending[a] /\ queued'[a] \subseteq queued[a]
  BY <1>2 DEF Without
<1>4. TypeOK'
  <2>1. DOMAIN pending' = Senders /\ DOMAIN queued' = Senders
    BY <1>1 DEF IInv, TypeOK
  <2>2. \A a \in Senders : pending'[a] \in SortedMap(a) /\ queued'[a] \in SortedMap(a)
    BY <1>3, SortedSubset DEF IInv, TypeOK
  <2> QED BY <1>1, <2>1, <2>2 DEF IInv, TypeOK, SortedMap
<1>5. MapsAreIndexed'
  <2> SUFFICES ASSUME NEW a \in Senders, NEW t \in pending'[a] \cup queued'[a]
               PROVE  t \in all /\ t # tx
    BY <1>1 DEF MapsAreIndexed
  <2>1. t \in all
    BY <1>3 DEF IInv, MapsAreIndexed
  <2>2. t.from = a
    BY <1>3 DEF IInv, TypeOK, SortedMap
  <2>3. a = tx.from => t.nonce # tx.nonce
    BY <1>2 DEF Without
  <2> QED BY <2>1, <2>2, <2>3
<1>6. PendingIsCurrent' /\ DueIsNotQueued'
  BY <1>1, <1>3 DEF IInv, PendingIsCurrent, DueIsNotQueued
<1> QED BY <1>4, <1>5, <1>6 DEF IInv
LEMMA ResetStep ==
    ASSUME IInv, NEW c \in Clients, NEW n \in [Senders -> 0..MaxNonce], Reset(c, n)
    PROVE  IInv'
<1> DEFINE P(a) == Promoted(a, n[a])
           W(a) == WithPromoted(a, n[a])
<1>1. /\ \A a \in Senders : n[a] >= currentNonces[a]
      /\ currentNonces' = n
      /\ queued' = [a \in Senders |-> queued[a] \ P(a)]
      /\ pending' = [a \in Senders |-> W(a) \ Stale(W(a), n[a])]
      /\ all' = all \ UNION {Forgotten(a, n[a]) : a \in Senders}
      /\ UNCHANGED <<baseGasPrice, mu>>
      /\ waiting' = waiting \ {c}
  BY DEF Reset, Runs
<1>2. ASSUME NEW a \in Senders, NEW t \in P(a)
      PROVE  t \in queued[a] /\ t \in Txs /\ t.from = a /\ t.nonce = n[a]
  BY <1>2 DEF Promoted, IInv, TypeOK, SortedMap
\* What WithPromoted holds.
<1>3. ASSUME NEW a \in Senders, NEW t \in W(a)
      PROVE  \/ t \in P(a)
             \/ t \in pending[a] /\ (P(a) # {} => t \notin Dropped(pending[a]))
  <2>1. CASE P(a) = {}
    BY <1>3, <2>1 DEF WithPromoted
  <2>2. CASE P(a) # {}
    <3> DEFINE p == CHOOSE u \in P(a) : TRUE
    <3>1. p \in P(a)
      BY <2>2
    <3>2. W(a) = EnqueuePending(pending[a], p)
      BY <2>2 DEF WithPromoted
    <3> HIDE DEF p
    <3> QED BY <1>3, <2>2, <3>1, <3>2, EnqueueMembers
  <2> QED BY <2>1, <2>2
<1>4. ASSUME NEW a \in Senders PROVE W(a) \in SortedMap(a)
  <2>1. CASE P(a) = {}
    BY <2>1 DEF WithPromoted, IInv, TypeOK
  <2>2. CASE P(a) # {}
    <3> DEFINE p == CHOOSE u \in P(a) : TRUE
    <3>1. p \in P(a)
      BY <2>2
    <3>2. W(a) = EnqueuePending(pending[a], p)
      BY <2>2 DEF WithPromoted
    <3> HIDE DEF p
    <3>3. p \in Txs /\ p.from = a
      BY <1>2, <3>1
    <3> QED BY <3>2, <3>3, EnqueueSorted DEF IInv, TypeOK
  <2> QED BY <2>1, <2>2
<1>5. \A a \in Senders : /\ pending'[a] = W(a) \ Stale(W(a), n[a])
                       /\ queued'[a] = queued[a] \ P(a)
  BY <1>1
<1> HIDE DEF P, W
<1>6. TypeOK'
  <2>1. DOMAIN pending' = Senders /\ DOMAIN queued' = Senders
    BY <1>1
  <2>2. \A a \in Senders : pending'[a] \in SortedMap(a) /\ queued'[a] \in SortedMap(a)
    BY <1>4, <1>5, SortedSubset DEF IInv, TypeOK
  <2>3. all' \in SUBSET Txs
    BY <1>1 DEF IInv, TypeOK
  <2> QED BY <1>1, <2>1, <2>2, <2>3 DEF IInv, TypeOK, SortedMap
<1>7. PendingIsCurrent'
  <2> SUFFICES ASSUME NEW a \in Senders, NEW t \in pending'[a]
               PROVE  t.nonce = n[a]
    BY <1>1 DEF PendingIsCurrent
  <2>1. t \in W(a) /\ ~(t.nonce < n[a])
    BY <1>5 DEF Stale
  <2>2. CASE t \in P(a)
    BY <1>2, <2>2
  <2>3. CASE t \in pending[a]
    <3>1. t.nonce = currentNonces[a]
      BY <2>3 DEF IInv, PendingIsCurrent
    <3>2. currentNonces[a] \in Int /\ n[a] \in Int
      BY BoundsAssumption DEF IInv, TypeOK
    <3> QED BY <1>1, <2>1, <3>1, <3>2
  <2> QED BY <1>3, <2>1, <2>2, <2>3
<1>8. DueIsNotQueued'
  <2> SUFFICES ASSUME NEW a \in Senders, NEW t \in queued'[a]
               PROVE  t.nonce # n[a]
    BY <1>1 DEF DueIsNotQueued
  <2> QED BY <1>5 DEF P, Promoted
\* Nothing Reset deletes from p.all is still in a map.
<1>9. ASSUME NEW a \in Senders, NEW b \in Senders, NEW t \in Forgotten(b, n[b]),
             t \in pending'[a] \cup queued'[a]
      PROVE  FALSE
  <2>1. \/ t \in Dropped(pending[b]) /\ P(b) # {}
        \/ t \in Stale(W(b), n[b])
    BY <1>9 DEF Forgotten, P, W
  <2>2. CASE t \in Dropped(pending[b]) /\ P(b) # {}
    <3>1. t \in pending[b]
      BY <2>2, DroppedSubset
    <3>2. t \notin queued[a] /\ (a # b => t \notin pending[a])
      BY <3>1, MapsDisjoint
    <3>3. t \in W(a)
      BY <1>5, <1>9, <3>2
    <3>4. t \in P(a) \/ (t \in pending[a] /\ (P(a) # {} => t \notin Dropped(pending[a])))
      BY <1>3, <3>3
    <3>5. t \notin P(a)
      BY <1>2, <3>2
    <3> QED BY <2>2, <3>2, <3>4, <3>5
  <2>3. CASE t \in Stale(W(b), n[b])
    <3>1. t \in W(b) /\ t.nonce < n[b]
      BY <2>3 DEF Stale
    <3>2. t.from = b
      BY <1>4, <3>1 DEF SortedMap
    <3>3. t.from = a
      BY <1>6, <1>9 DEF TypeOK, SortedMap
    <3>4. t \notin pending'[a]
      BY <1>5, <2>3, <3>2, <3>3
    <3>5. t \notin P(b)
      <4>1. n[b] \in Int
        BY BoundsAssumption
      <4> QED BY <1>2, <3>1, <4>1
    <3>6. t \in pending[b]
      BY <1>3, <3>1, <3>5
    <3>7. t \notin queued[a]
      BY <3>6, MapsDisjoint
    <3> QED BY <1>5, <1>9, <3>4, <3>7
  <2> QED BY <2>1, <2>2, <2>3
<1>10. MapsAreIndexed'
  <2> SUFFICES ASSUME NEW a \in Senders, NEW t \in pending'[a] \cup queued'[a]
               PROVE  t \in all'
    BY DEF MapsAreIndexed
  <2>1. t \in pending[a] \cup queued[a]
    BY <1>2, <1>3, <1>5
  <2>2. t \in all
    BY <2>1 DEF IInv, MapsAreIndexed
  <2>3. \A b \in Senders : t \notin Forgotten(b, n[b])
    BY <1>9
  <2> QED BY <1>1, <2>2, <2>3
<1> QED BY <1>6, <1>7, <1>8, <1>10 DEF IInv

-----------------------------------------------------------------------------
(* Theorems *)

LEMMA InitIInv == TxInit => IInv
  BY BoundsAssumption DEF TxInit, IInv, TypeOK, SortedMap, MapsAreIndexed,
     PendingIsCurrent, DueIsNotQueued

\* A step that leaves the maps, the index and the nonces alone.
LEMMA QuietStep ==
    ASSUME IInv, UNCHANGED <<pending, queued, all, currentNonces>>,
           baseGasPrice' \in Prices \cup {0}, waiting' \in SUBSET Clients,
           mu' \in Clients \cup {Free}
    PROVE  IInv'
<1>1. TypeOK'
  BY DEF IInv, TypeOK, SortedMap
<1>2. MapsAreIndexed' /\ PendingIsCurrent' /\ DueIsNotQueued'
  BY DEF IInv, MapsAreIndexed, PendingIsCurrent, DueIsNotQueued
<1> QED BY <1>1, <1>2 DEF IInv

LEMMA NextIInv == IInv /\ [TxNext]_txVars => IInv'
<1> SUFFICES ASSUME IInv, [TxNext]_txVars PROVE IInv'
  OBVIOUS
<1>0. /\ baseGasPrice \in Prices \cup {0} /\ waiting \in SUBSET Clients
      /\ mu \in Clients \cup {Free}
  BY DEF IInv, TypeOK
<1>1. ASSUME NEW c \in Clients, Call(c) PROVE IInv'
  BY <1>0, <1>1, QuietStep DEF Call, poolVars
<1>2. ASSUME NEW c \in Clients, NEW tx \in Txs, AddPending(c, tx) PROVE IInv'
  BY <1>2, AddPendingStep
<1>3. ASSUME NEW c \in Clients, NEW tx \in Txs, AddQueued(c, tx) PROVE IInv'
  BY <1>3, AddQueuedStep
<1>4. ASSUME NEW c \in Clients, NEW tx \in Txs, AddRefused(c, tx) PROVE IInv'
  BY <1>0, <1>4, QuietStep DEF AddRefused, Runs, poolVars
<1>5. ASSUME NEW c \in Clients, NEW tx \in Txs, AddEvicts(c, tx) PROVE IInv'
  BY <1>0, <1>5, QuietStep DEF AddEvicts, poolVars
<1>6. ASSUME NEW c \in Clients, NEW tx \in Txs, Remove(c, tx) PROVE IInv'
  BY <1>6, RemoveStep
<1>7. ASSUME NEW c \in Clients, NEW price \in Prices, SetGasPrice(c, price) PROVE IInv'
  BY <1>0, <1>7, QuietStep DEF SetGasPrice, Runs
<1>8. ASSUME NEW c \in Clients, NEW n \in [Senders -> 0..MaxNonce], Reset(c, n) PROVE IInv'
  BY <1>8, ResetStep
<1>9. ASSUME NEW c \in Clients, Read(c) PROVE IInv'
  BY <1>0, <1>9, QuietStep DEF Read, Runs, poolVars
<1>10. CASE UNCHANGED txVars
  BY <1>0, <1>10, QuietStep DEF txVars, poolVars
<1> QED BY <1>1, <1>2, <1>3, <1>4, <1>5, <1>6, <1>7, <1>8, <1>9, <1>10 DEF TxNext, Operation

THEOREM Invariance == TxSpec => []IInv
  BY InitIInv, NextIInv, PTL DEF TxSpec

\* The pool's maps stay one transaction per nonce, each under its own sender.
THEOREM TypeCorrect == TxSpec => []TypeOK
<1>1. IInv => TypeOK
  BY DEF IInv
<1> QED BY <1>1, Invariance, PTL

\* Everything in the two maps is known by its hash.
THEOREM IndexIsComplete == TxSpec => []MapsAreIndexed
<1>1. IInv => MapsAreIndexed
  BY DEF IInv
<1> QED BY <1>1, Invariance, PTL

\* Pending offers only transactions with their sender's current nonce.
THEOREM PendingIsExecutable == TxSpec => []PendingIsCurrent
<1>1. IInv => PendingIsCurrent
  BY DEF IInv
<1> QED BY <1>1, Invariance, PTL

\* A transaction whose nonce is due has left the queue.
THEOREM DueIsPromoted == TxSpec => []DueIsNotQueued
<1>1. IInv => DueIsNotQueued
  BY DEF IInv
<1> QED BY <1>1, Invariance, PTL

\* The pool never outgrows MaxTxs.
THEOREM CapacityIsKept == TxSpec => []WithinCapacity
<1>1. TxInit => WithinCapacity
  BY FS_EmptySet, BoundsAssumption DEF TxInit, WithinCapacity
<1>2. IInv /\ WithinCapacity /\ [TxNext]_txVars => WithinCapacity'
  <2> SUFFICES ASSUME IInv, WithinCapacity, [TxNext]_txVars PROVE WithinCapacity'
    OBVIOUS
  <2>1. IsFiniteSet(all) /\ Cardinality(all) \in Nat
    BY FiniteAssumption, FS_Subset, FS_CardinalityType DEF IInv, TypeOK
  <2>2. ASSUME all' \subseteq all PROVE WithinCapacity'
    <3>1. Cardinality(all') \in Nat /\ Cardinality(all') <= Cardinality(all)
      BY <2>1, <2>2, FS_Subset, FS_CardinalityType
    <3> QED BY <2>1, <3>1, BoundsAssumption DEF WithinCapacity
  <2>3. ASSUME NEW tx \in Txs, ~AtCapacity, all' \subseteq all \cup {tx} PROVE WithinCapacity'
    <3>1. /\ IsFiniteSet(all \cup {tx})
          /\ \/ Cardinality(all \cup {tx}) = Cardinality(all)
             \/ Cardinality(all \cup {tx}) = Cardinality(all) + 1
      BY <2>1, FS_AddElement
    <3>2. Cardinality(all') \in Nat /\ Cardinality(all') <= Cardinality(all \cup {tx})
      BY <2>3, <3>1, FS_Subset, FS_CardinalityType
    <3>3. Cardinality(all) < MaxTxs
      BY <2>1, <2>3, BoundsAssumption DEF AtCapacity
    <3> QED BY <2>1, <3>1, <3>2, <3>3, BoundsAssumption DEF WithinCapacity
  <2>4. \/ all' \subseteq all
        \/ \E tx \in Txs : ~AtCapacity /\ all' \subseteq all \cup {tx}
    BY DEF TxNext, Operation, Call, AddPending, AddQueued, AddRefused, AddEvicts,
       Remove, SetGasPrice, Reset, Read, txVars, poolVars
  <2> QED BY <2>2, <2>3, <2>4
<1> QED BY <1>1, <1>2, Invariance, PTL DEF TxSpec
=============================================================================
