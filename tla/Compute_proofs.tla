--------------------------- MODULE Compute_proofs ---------------------------
(***************************************************************************)
(* Proofs about the compute market's scheduling: Dispatch, for every set   *)
(* of miners, hardware and tiers' requirements and for any number of tasks *)
(* and completions, and Distributed, for every configuration, checkpoint   *)
(* interval and number of calls.  Each part's invariants and theorems are  *)
(* its own; the two share only the first lemma.                            *)
(***************************************************************************)
EXTENDS Dispatch, Distributed, FiniteSetTheorems, SequenceTheorems, TLAPS

\* Induction over the naturals, for a set of numbers.
LEMMA NatSetInduction ==
    ASSUME NEW T, 0 \in T, \A n \in Nat : n \in T => n + 1 \in T
    PROVE  Nat \subseteq T
<1> SUFFICES ASSUME Nat \ T # {} PROVE FALSE
  OBVIOUS
<1> DEFINE R == {ss \in Nat \X Nat : ss[1] < ss[2]}
<1>1. IsWellFoundedOn(R, Nat)
  <2>1. OpToRel(<, Nat) = R
    BY Zenon DEF OpToRel
  <2> QED BY <2>1, NatLessThanWellFounded, Zenon
<1>2. PICK x \in Nat \ T : \A y \in Nat \ T : <<y, x>> \notin R
  <2> HIDE DEF R
  <2> QED BY <1>1, WFMin
<1>3. x # 0 /\ x - 1 \in Nat
  OBVIOUS
<1>4. <<x - 1, x>> \in R
  BY <1>3
<1>5. x - 1 \in T
  <2> HIDE DEF R
  <2> QED BY <1>2, <1>3, <1>4
<1> QED BY <1>3, <1>5

-----------------------------------------------------------------------------
(* Dispatch: a best candidate exists *)

LEMMA ProductNat == ASSUME NEW m \in Nat, NEW n \in Nat PROVE m * n \in Nat
OBVIOUS

LEMMA ProductMono ==
    ASSUME NEW m \in Nat, NEW n \in Nat, NEW c \in Nat, m <= n
    PROVE  m * c <= n * c
<1>1. (n - m) * c >= 0
  OBVIOUS
<1>2. (n - m) * c = n * c - m * c
  OBVIOUS
<1> QED BY <1>1, <1>2, ProductNat

LEMMA ProductCancel ==
    ASSUME NEW m \in Nat, NEW n \in Nat, NEW c \in Nat \ {0}, m * c <= n * c
    PROVE  m <= n
<1> SUFFICES ASSUME n + 1 <= m PROVE FALSE
  OBVIOUS
<1>1. (n + 1) * c <= m * c
  BY ProductMono
<1>2. (n + 1) * c = n * c + c
  OBVIOUS
<1>3. n * c \in Nat /\ m * c \in Nat
  BY ProductNat
<1> QED BY <1>1, <1>2, <1>3

\* Fractions a/p, b/q and c/r compared by cross multiplication.
LEMMA FractionsTransitive ==
    ASSUME NEW a \in Nat, NEW b \in Nat, NEW c \in Nat,
           NEW p \in Nat \ {0}, NEW q \in Nat \ {0}, NEW r \in Nat \ {0},
           b * p <= a * q, c * q <= b * r
    PROVE  c * p <= a * r
<1>1. /\ a * q \in Nat /\ b * p \in Nat /\ b * r \in Nat /\ c * q \in Nat
      /\ c * p \in Nat /\ a * r \in Nat
  BY ProductNat
<1>2. (b * p) * r <= (a * q) * r /\ (c * q) * p <= (b * r) * p
  BY <1>1, ProductMono
<1>3. (b * p) * r = (b * r) * p
  OBVIOUS
<1>4. (c * q) * p = (c * p) * q /\ (a * q) * r = (a * r) * q
  OBVIOUS
<1>5. (c * p) * q \in Nat /\ (a * r) * q \in Nat /\ (b * r) * p \in Nat
  BY <1>1, ProductNat
<1>6. (c * p) * q <= (a * r) * q
  BY <1>2, <1>3, <1>4, <1>5
<1> QED BY <1>1, <1>6, ProductCancel

\* Among finitely many fractions one is the highest.
LEMMA HighestExists ==
    ASSUME NEW A, IsFiniteSet(A), A # {},
           NEW num \in [A -> Nat], NEW den \in [A -> Nat \ {0}]
    PROVE  \E m \in A : \A n \in A : num[n] * den[m] <= num[m] * den[n]
<1> DEFINE Tops(S) == \E m \in S : \A n \in S : num[n] * den[m] <= num[m] * den[n]
           T == {i \in Nat : \A S \in SUBSET A : Cardinality(S) = i /\ S # {} => Tops(S)}
<1>1. \A S \in SUBSET A : IsFiniteSet(S) /\ Cardinality(S) \in Nat
  BY FS_Subset, FS_CardinalityType
<1>2. 0 \in T
  BY <1>1, FS_EmptySet
<1>3. ASSUME NEW i \in Nat, i \in T PROVE i + 1 \in T
  <2> SUFFICES ASSUME NEW S \in SUBSET A, Cardinality(S) = i + 1, S # {} PROVE Tops(S)
    <3> HIDE DEF Tops
    <3> QED OBVIOUS
  <2>1. PICK x \in S : TRUE
    OBVIOUS
  <2> DEFINE R == S \ {x}
  <2>2. R \in SUBSET A /\ Cardinality(R) = i
    <3>1. IsFiniteSet(S) /\ x \in S
      BY <1>1
    <3>2. Cardinality(R) = Cardinality(S) - 1
      BY <3>1, FS_RemoveElement
    <3> QED BY <3>2
  <2>3. CASE R = {}
    <3>1. S = {x}
      BY <2>3
    <3>2. num[x] * den[x] \in Nat
      BY ProductNat
    <3> QED BY <3>1, <3>2
  <2>4. CASE R # {}
    <3>1. Tops(R)
      <4> HIDE DEF Tops, R
      <4> QED BY <1>3, <2>2, <2>4
    <3>2. PICK m \in R : \A n \in R : num[n] * den[m] <= num[m] * den[n]
      BY <3>1
    <3>3. m \in A /\ m \in S /\ x \in A
      OBVIOUS
    <3>4. /\ num[x] \in Nat /\ den[x] \in Nat \ {0} /\ num[m] \in Nat /\ den[m] \in Nat \ {0}
          /\ num[x] * den[x] \in Nat
      BY <3>3, ProductNat
    <3>5. CASE num[x] * den[m] <= num[m] * den[x]
      <4>1. \A n \in S : num[n] * den[m] <= num[m] * den[n]
        BY <3>2, <3>5
      <4> QED BY <3>3, <4>1
    <3>6. CASE num[m] * den[x] <= num[x] * den[m]
      <4>1. ASSUME NEW n \in R PROVE num[n] * den[x] <= num[x] * den[n]
        <5>1. num[n] \in Nat /\ den[n] \in Nat \ {0} /\ num[n] * den[m] <= num[m] * den[n]
          BY <3>2
        <5> QED BY <3>4, <3>6, <5>1, FractionsTransitive
      <4>2. \A n \in S : num[n] * den[x] <= num[x] * den[n]
        BY <3>4, <4>1
      <4> QED BY <4>2
    <3>7. num[m] * den[x] \in Nat /\ num[x] * den[m] \in Nat
      BY <3>4, ProductNat
    <3> QED BY <3>5, <3>6, <3>7
  <2> QED BY <2>3, <2>4
<1>4. Cardinality(A) \in T
  <2> HIDE DEF T
  <2> QED BY <1>1, <1>2, <1>3, NatSetInduction
<1> QED BY <1>4

-----------------------------------------------------------------------------
(* The inductive invariant *)

\* The registry's index: the first half of RegistryFinds.
Able(t) == {m \in Miners : Recorded(m) /\ records[m].active /\ records[m].cap.level >= t}
IndexExact == \A t \in Tiers : byTier[t] = Able(t)

\* The two tables do not touch each other's variables, so the invariant is in
\* two halves.
DispatcherInv ==
    /\ miners \in [Miners -> MinerInfo \cup {Absent}]
    /\ minersByTier \in [Tiers -> [Miners -> Nat]]
    /\ outstanding \in [Miners -> Nat]
    /\ ListsServe /\ LoadIsOwed

\* A miner the registry does not know has earned nothing.
RegistryInv ==
    /\ records \in [Miners -> MinerRecord \cup {Absent}]
    /\ byTier \in [Tiers -> SUBSET Miners]
    /\ earned \in [Miners -> Nat]
    /\ IndexExact /\ RewardsKept
    /\ \A m \in Miners : ~Recorded(m) => earned[m] = 0

IInv == DispatcherInv /\ RegistryInv

LEMMA DispatcherFrame == DispatcherInv /\ UNCHANGED dispatcher => DispatcherInv'
BY DEF dispatcher, DispatcherInv, ListsServe, LoadIsOwed, Joined

LEMMA RegistryFrame == RegistryInv /\ UNCHANGED registry => RegistryInv'
BY DEF registry, RegistryInv, IndexExact, Able, RewardsKept, Recorded

\* A step that gives miner m the entry r of the same hardware.
LEMMA EntryStep ==
    ASSUME DispatcherInv, NEW m \in Miners, Joined(m), NEW r \in MinerInfo,
           miners' = [miners EXCEPT ![m] = r], UNCHANGED minersByTier,
           r.cap.level = miners[m].cap.level,
           outstanding' \in [Miners -> Nat], r.load <= outstanding'[m],
           \A n \in Miners : n # m => outstanding'[n] = outstanding[n]
    PROVE  DispatcherInv'
<1>1. miners \in [Miners -> MinerInfo \cup {Absent}]
  BY DEF DispatcherInv
<1>2. miners' \in [Miners -> MinerInfo \cup {Absent}]
  BY <1>1
<1>3. miners'[m] = r /\ \A n \in Miners : n # m => miners'[n] = miners[n]
  BY <1>1
<1>4. r # Absent
  BY MinersAssumption
<1>5. \A n \in Miners : Joined(n)' <=> Joined(n)
  BY <1>3, <1>4 DEF Joined
<1>6. LoadIsOwed'
  BY <1>3, <1>5 DEF DispatcherInv, LoadIsOwed, Joined
<1>7. ListsServe'
  BY <1>3, <1>5 DEF DispatcherInv, ListsServe, CanMinerHandle
<1> QED BY <1>2, <1>5, <1>6, <1>7 DEF DispatcherInv

LEMMA RegisterMinerStep ==
    ASSUME DispatcherInv, NEW m \in Miners, NEW h \in Hardware, RegisterMiner(m, h)
    PROVE  DispatcherInv'
<1> DEFINE cap == NewCapability(h)
           r == IF Joined(m) THEN [miners[m] EXCEPT !.cap = cap]
                ELSE [cap |-> cap, load |-> 0, completed |-> 0, failed |-> 0]
<1>1. h.level \in 0..5 /\ h.units \in Nat
  BY HardwareAssumption
<1>2. cap \in Capability /\ cap.level = h.level
  BY <1>1 DEF NewCapability, Capability
<1>3. /\ miners \in [Miners -> MinerInfo \cup {Absent}]
      /\ minersByTier \in [Tiers -> [Miners -> Nat]] /\ outstanding \in [Miners -> Nat]
  BY DEF DispatcherInv
<1>4. r \in MinerInfo /\ r.load <= outstanding[m] /\ r.cap.level = h.level
  <2>1. CASE Joined(m)
    <3>1. miners[m] \in MinerInfo /\ miners[m].load <= outstanding[m]
      BY <1>3, <2>1 DEF DispatcherInv, LoadIsOwed, Joined
    <3> QED BY <1>2, <2>1, <3>1 DEF MinerInfo
  <2>2. CASE ~Joined(m)
    BY <1>2, <1>3, <2>2 DEF MinerInfo
  <2> QED BY <2>1, <2>2
<1>5. /\ miners' = [miners EXCEPT ![m] = r]
      /\ minersByTier' = [t \in Tiers |->
            IF t <= h.level THEN AppendUnique(minersByTier[t], m) ELSE minersByTier[t]]
      /\ UNCHANGED outstanding
  BY <1>2 DEF RegisterMiner, CanMinerHandle
<1> HIDE DEF r, cap
<1>6. /\ miners' \in [Miners -> MinerInfo \cup {Absent}]
      /\ miners'[m] = r /\ \A n \in Miners : n # m => miners'[n] = miners[n]
  BY <1>3, <1>4, <1>5
<1>7. Joined(m)' /\ \A n \in Miners : n # m => (Joined(n)' <=> Joined(n))
  BY <1>4, <1>6, MinersAssumption DEF Joined
<1>8. ASSUME NEW t \in Tiers
      PROVE  /\ minersByTier'[t] \in [Miners -> Nat]
             /\ \A n \in Miners : n # m => minersByTier'[t][n] = minersByTier[t][n]
             /\ minersByTier'[t][m] <= 1
             /\ t <= h.level => minersByTier'[t][m] = 1
  <2>1. minersByTier[t] \in [Miners -> Nat] /\ minersByTier[t][m] <= 1
    BY <1>3 DEF DispatcherInv, ListsServe
  <2>2. minersByTier'[t] = IF t <= h.level /\ minersByTier[t][m] = 0
                           THEN [minersByTier[t] EXCEPT ![m] = 1] ELSE minersByTier[t]
    BY <1>5, <2>1 DEF AppendUnique
  <2> QED BY <2>1, <2>2
<1>10. minersByTier' \in [Tiers -> [Miners -> Nat]]
  BY <1>5, <1>8
<1>11. ListsServe'
  <2> SUFFICES ASSUME NEW t \in Tiers, NEW n \in Miners
               PROVE  /\ minersByTier'[t][n] <= 1
                      /\ minersByTier'[t][n] = 1 => Joined(n)'
                      /\ Joined(n)' /\ t <= miners'[n].cap.level => minersByTier'[t][n] = 1
    BY DEF ListsServe, CanMinerHandle
  <2>1. CASE n = m
    BY <2>1, <1>4, <1>6, <1>7, <1>8
  <2>2. CASE n # m
    BY <2>2, <1>6, <1>7, <1>8 DEF DispatcherInv, ListsServe, CanMinerHandle
  <2> QED BY <2>1, <2>2
<1>12. LoadIsOwed'
  BY <1>4, <1>5, <1>6, <1>7 DEF DispatcherInv, LoadIsOwed, Joined
<1>14. outstanding' \in [Miners -> Nat]
  BY <1>3, <1>5
<1> QED BY <1>6, <1>10, <1>11, <1>12, <1>14 DEF DispatcherInv

LEMMA UnregisterMinerStep ==
    ASSUME DispatcherInv, NEW m \in Miners, UnregisterMiner(m)
    PROVE  DispatcherInv'
<1>1. /\ miners \in [Miners -> MinerInfo \cup {Absent}]
      /\ minersByTier \in [Tiers -> [Miners -> Nat]] /\ outstanding \in [Miners -> Nat]
  BY DEF DispatcherInv
<1>2. /\ miners' = [miners EXCEPT ![m] = Absent]
      /\ minersByTier' = [t \in Tiers |-> RemoveFrom(minersByTier[t], m)]
      /\ UNCHANGED outstanding
  BY DEF UnregisterMiner
<1>3. /\ miners' \in [Miners -> MinerInfo \cup {Absent}]
      /\ ~Joined(m)' /\ \A n \in Miners : n # m => miners'[n] = miners[n]
  BY <1>1, <1>2 DEF Joined
<1>4. \A n \in Miners : n # m => (Joined(n)' <=> Joined(n))
  BY <1>3 DEF Joined
<1>6. ASSUME NEW t \in Tiers
      PROVE  /\ minersByTier'[t] \in [Miners -> Nat]
             /\ minersByTier'[t][m] = 0
             /\ \A n \in Miners : n # m => minersByTier'[t][n] = minersByTier[t][n]
  <2>0. minersByTier[t] \in [Miners -> Nat] /\ minersByTier[t][m] <= 1
    BY <1>1 DEF DispatcherInv, ListsServe
  <2>1. minersByTier[t] \in [Miners -> Nat] /\ minersByTier[t][m] \in {0, 1}
    BY <2>0
  <2>2. minersByTier'[t] = IF minersByTier[t][m] = 0 THEN minersByTier[t]
                           ELSE [minersByTier[t] EXCEPT ![m] = minersByTier[t][m] - 1]
    BY <1>2 DEF RemoveFrom
  <2> QED BY <2>1, <2>2
<1>7. minersByTier' \in [Tiers -> [Miners -> Nat]]
  BY <1>2, <1>6
<1>8. ListsServe'
  <2> SUFFICES ASSUME NEW t \in Tiers, NEW n \in Miners
               PROVE  /\ minersByTier'[t][n] <= 1
                      /\ minersByTier'[t][n] = 1 => Joined(n)'
                      /\ Joined(n)' /\ t <= miners'[n].cap.level => minersByTier'[t][n] = 1
    BY DEF ListsServe, CanMinerHandle
  <2>1. CASE n = m
    BY <2>1, <1>3, <1>6
  <2>2. CASE n # m
    BY <2>2, <1>3, <1>4, <1>6 DEF DispatcherInv, ListsServe, CanMinerHandle
  <2> QED BY <2>1, <2>2
<1>9. LoadIsOwed'
  BY <1>2, <1>3, <1>4 DEF DispatcherInv, LoadIsOwed
<1> QED BY <1>1, <1>2, <1>3, <1>7, <1>8, <1>9 DEF DispatcherInv

LEMMA DispatchStep ==
    ASSUME DispatcherInv, NEW t \in TaskTiers, Dispatch(t)
    PROVE  DispatcherInv'
<1>1. PICK m \in Miners :
          /\ Joined(m)
          /\ miners' = [miners EXCEPT ![m].load = @ + 1]
          /\ outstanding' = [outstanding EXCEPT ![m] = @ + 1]
          /\ UNCHANGED minersByTier
  BY DEF Dispatch, Listed
<1> DEFINE r == [miners[m] EXCEPT !.load = @ + 1]
<1>2. miners[m] \in MinerInfo /\ miners[m].load <= outstanding[m] /\ outstanding \in [Miners -> Nat]
  BY <1>1 DEF DispatcherInv, LoadIsOwed, Joined
<1>3. /\ r \in MinerInfo /\ r.load = miners[m].load + 1 /\ miners[m].load \in Nat
      /\ r.cap = miners[m].cap
  BY <1>2 DEF MinerInfo
<1>4. miners' = [miners EXCEPT ![m] = r]
  BY <1>1
<1>5. /\ outstanding' \in [Miners -> Nat] /\ outstanding'[m] = outstanding[m] + 1
      /\ \A n \in Miners : n # m => outstanding'[n] = outstanding[n]
      /\ outstanding[m] \in Nat
  BY <1>1, <1>2
<1>6. r.load <= outstanding'[m]
  BY <1>2, <1>3, <1>5
<1> HIDE DEF r
<1> QED BY <1>1, <1>3, <1>4, <1>5, <1>6, EntryStep

LEMMA ReleaseStep ==
    ASSUME DispatcherInv, NEW m \in Miners, ReleaseTask(m)
    PROVE  DispatcherInv'
<1>1. /\ outstanding' = [outstanding EXCEPT ![m] = IF @ > 0 THEN @ - 1 ELSE 0]
      /\ UNCHANGED minersByTier
  BY DEF ReleaseTask, Returned
<1>2. /\ outstanding' \in [Miners -> Nat]
      /\ outstanding'[m] = IF outstanding[m] > 0 THEN outstanding[m] - 1 ELSE 0
      /\ \A n \in Miners : n # m => outstanding'[n] = outstanding[n]
      /\ outstanding[m] \in Nat
  BY <1>1 DEF DispatcherInv
<1>3. CASE Joined(m) /\ miners[m].load > 0
  <2> DEFINE r == [miners[m] EXCEPT !.load = @ - 1]
  <2>1. miners' = [miners EXCEPT ![m] = r]
    BY <1>3 DEF ReleaseTask
  <2>2. miners[m] \in MinerInfo /\ miners[m].load <= outstanding[m]
    BY <1>3 DEF DispatcherInv, LoadIsOwed, Joined
  <2>3. /\ r \in MinerInfo /\ r.load = miners[m].load - 1 /\ miners[m].load \in Nat
        /\ r.cap = miners[m].cap
    BY <1>3, <2>2 DEF MinerInfo
  <2>4. r.load <= outstanding'[m]
    BY <1>2, <1>3, <2>2, <2>3
  <2> HIDE DEF r
  <2> QED BY <1>1, <1>2, <1>3, <2>1, <2>3, <2>4, EntryStep
<1>4. CASE ~(Joined(m) /\ miners[m].load > 0)
  <2>1. miners' = miners
    BY <1>4 DEF ReleaseTask
  <2>2. ASSUME NEW n \in Miners, Joined(n) PROVE miners[n].load <= outstanding'[n]
    <3>1. CASE n = m
      <4>1. miners[m] \in MinerInfo
        BY <2>2, <3>1 DEF DispatcherInv, Joined
      <4>2. miners[m].load = 0
        BY <1>4, <2>2, <3>1, <4>1 DEF MinerInfo
      <4> QED BY <1>1, <1>2, <3>1, <4>2
    <3>2. CASE n # m
      BY <1>2, <2>2, <3>2 DEF DispatcherInv, LoadIsOwed
    <3> QED BY <3>1, <3>2
  <2>3. LoadIsOwed'
    BY <2>1, <2>2 DEF LoadIsOwed, Joined
  <2> QED BY <1>1, <1>2, <2>1, <2>3 DEF DispatcherInv, ListsServe, Joined
<1> QED BY <1>3, <1>4

LEMMA RecordStep ==
    ASSUME DispatcherInv, NEW m \in Miners, NEW success \in BOOLEAN,
           RecordCompletion(m, success)
    PROVE  DispatcherInv'
<1> DEFINE done == miners[m].completed + IF success THEN 1 ELSE 0
           bad == miners[m].failed + IF success THEN 0 ELSE 1
           r == [miners[m] EXCEPT !.completed = done, !.failed = bad,
                                  !.cap = [miners[m].cap EXCEPT !.rep = <<done, done + bad>>]]
<1>1. Joined(m) /\ UNCHANGED <<minersByTier, outstanding>>
  BY DEF RecordCompletion
<1>2. /\ miners \in [Miners -> MinerInfo \cup {Absent}] /\ outstanding \in [Miners -> Nat]
      /\ miners[m] \in MinerInfo /\ miners[m].load <= outstanding[m]
  BY <1>1 DEF DispatcherInv, LoadIsOwed, Joined
<1>3. miners' = [miners EXCEPT ![m] = r]
  BY <1>2 DEF RecordCompletion, MinerInfo, Capability
<1>4. /\ miners[m].completed \in Nat /\ miners[m].failed \in Nat /\ miners[m].load \in Nat
      /\ miners[m].cap \in Capability
  BY <1>2 DEF MinerInfo
<1>5. done \in Nat /\ bad \in Nat /\ done + bad \in Nat \ {0}
  BY <1>4
<1> HIDE DEF done, bad
<1>6. [miners[m].cap EXCEPT !.rep = <<done, done + bad>>] \in Capability
  BY <1>4, <1>5 DEF Capability
<1>7. /\ r \in MinerInfo /\ r.load = miners[m].load
      /\ r.cap.level = miners[m].cap.level
  BY <1>2, <1>4, <1>5, <1>6 DEF MinerInfo, Capability
<1> HIDE DEF r
<1> QED BY <1>1, <1>2, <1>3, <1>7, EntryStep

-----------------------------------------------------------------------------
(* The registry's steps *)

\* The rebuilt index is the exact one.
LEMMA RebuiltIsExact ==
    ASSUME records' \in [Miners -> MinerRecord \cup {Absent}],
           byTier' = RebuildTierIndices(records')
    PROVE  byTier' \in [Tiers -> SUBSET Miners] /\ IndexExact'
<1>1. ASSUME NEW t \in Tiers PROVE byTier'[t] = Able(t)'
  <2>1. byTier'[t] = {m \in Miners : /\ records'[m] # Absent
                                     /\ records'[m].active
                                     /\ t <= records'[m].cap.level}
    BY DEF RebuildTierIndices, CanMinerHandle
  <2>2. \A m \in Miners : records'[m] # Absent => records'[m].cap.level \in Int /\ t \in Int
    BY DEF MinerRecord, Capability, Tiers
  <2>3. \A m \in Miners : records'[m] # Absent =>
          (t <= records'[m].cap.level <=> records'[m].cap.level >= t)
    BY <2>2
  <2> QED BY <2>1, <2>3 DEF Able, Recorded
<1>2. byTier' \in [Tiers -> SUBSET Miners]
  BY DEF RebuildTierIndices
<1> QED BY <1>1, <1>2 DEF IndexExact

\* A step that gives miner m the record r, with what it has earned by then.
LEMMA RecordedStep ==
    ASSUME RegistryInv, NEW m \in Miners, NEW r \in MinerRecord,
           records' = [records EXCEPT ![m] = r],
           earned' \in [Miners -> Nat], r.rewards = earned'[m],
           \A n \in Miners : n # m => earned'[n] = earned[n],
           byTier' = RebuildTierIndices(records')
    PROVE  RegistryInv'
<1>1. records \in [Miners -> MinerRecord \cup {Absent}]
  BY DEF RegistryInv
<1>2. records' \in [Miners -> MinerRecord \cup {Absent}]
  BY <1>1
<1>3. records'[m] = r /\ \A n \in Miners : n # m => records'[n] = records[n]
  BY <1>1
<1>4. r # Absent
  BY MinersAssumption
<1>5. Recorded(m)' /\ \A n \in Miners : n # m => (Recorded(n)' <=> Recorded(n))
  BY <1>3, <1>4 DEF Recorded
<1>6. RewardsKept'
  BY <1>3, <1>5 DEF RegistryInv, RewardsKept
<1>7. \A n \in Miners : ~Recorded(n)' => earned'[n] = 0
  BY <1>5 DEF RegistryInv
<1>8. byTier' \in [Tiers -> SUBSET Miners] /\ IndexExact'
  BY <1>2, RebuiltIsExact
<1> QED BY <1>2, <1>6, <1>7, <1>8 DEF RegistryInv

LEMMA RegisterStep ==
    ASSUME RegistryInv, NEW m \in Miners, NEW h \in Hardware, Register(m, h)
    PROVE  RegistryInv'
<1> DEFINE cap == NewCapability(h)
           r == IF Recorded(m) THEN [records[m] EXCEPT !.cap = cap, !.active = TRUE]
                ELSE [cap |-> cap, active |-> TRUE, rewards |-> 0, total |-> 0]
<1>1. h.level \in 0..5 /\ h.units \in Nat
  BY HardwareAssumption
<1>2. cap \in Capability
  BY <1>1 DEF NewCapability, Capability
<1>3. records \in [Miners -> MinerRecord \cup {Absent}] /\ earned \in [Miners -> Nat]
  BY DEF RegistryInv
<1>4. /\ records' = [records EXCEPT ![m] = r] /\ earned' = earned
      /\ byTier' = RebuildTierIndices(records')
  BY DEF Register
<1> HIDE DEF cap
<1>5. r \in MinerRecord /\ r.rewards = earned[m]
  <2>1. CASE Recorded(m)
    <3>1. records[m] \in MinerRecord /\ records[m].rewards = earned[m]
      BY <1>3, <2>1 DEF RegistryInv, RewardsKept, Recorded
    <3> QED BY <1>2, <2>1, <3>1 DEF MinerRecord
  <2>2. CASE ~Recorded(m)
    <3>1. earned[m] = 0
      BY <2>2 DEF RegistryInv
    <3> QED BY <1>2, <2>2, <3>1 DEF MinerRecord
  <2> QED BY <2>1, <2>2
<1> HIDE DEF r
<1> QED BY <1>3, <1>4, <1>5, RecordedStep

LEMMA UnregisterStep ==
    ASSUME RegistryInv, NEW m \in Miners, Unregister(m)
    PROVE  RegistryInv'
<1> DEFINE r == [records[m] EXCEPT !.active = FALSE]
<1>1. /\ records' = [records EXCEPT ![m] = r] /\ earned' = earned
      /\ byTier' = RebuildTierIndices(records') /\ Recorded(m)
  BY DEF Unregister
<1>2. /\ records[m] \in MinerRecord /\ records[m].rewards = earned[m]
      /\ earned \in [Miners -> Nat]
  BY <1>1 DEF RegistryInv, RewardsKept, Recorded
<1>3. r \in MinerRecord /\ r.rewards = earned[m]
  BY <1>2 DEF MinerRecord
<1> HIDE DEF r
<1> QED BY <1>1, <1>2, <1>3, RecordedStep

LEMMA UpdateStep ==
    ASSUME RegistryInv, NEW m \in Miners, NEW h \in Hardware, UpdateCapability(m, h)
    PROVE  RegistryInv'
<1> DEFINE cap == [records[m].cap EXCEPT !.level = h.level, !.units = h.units]
           r == [records[m] EXCEPT !.cap = cap]
<1>1. Recorded(m)
  BY DEF UpdateCapability
<1>2. /\ records[m] \in MinerRecord /\ records[m].rewards = earned[m]
      /\ earned \in [Miners -> Nat]
      /\ records \in [Miners -> MinerRecord \cup {Absent}]
  BY <1>1 DEF RegistryInv, RewardsKept, Recorded
<1>3. /\ records' = [records EXCEPT ![m] = r] /\ earned' = earned
      /\ byTier' = RebuildTierIndices(records')
  BY <1>2 DEF UpdateCapability, MinerRecord, Capability
<1>4. h.level \in 0..5 /\ h.units \in Nat
  BY HardwareAssumption
<1>5. records[m].cap \in Capability
  BY <1>2 DEF MinerRecord
<1>6. cap \in Capability
  BY <1>4, <1>5 DEF Capability
<1> HIDE DEF cap
<1>7. r \in MinerRecord /\ r.rewards = earned[m]
  BY <1>2, <1>6 DEF MinerRecord
<1> HIDE DEF r
<1> QED BY <1>2, <1>3, <1>7, RecordedStep

\* CreditCompletion does not rebuild the index, and need not: neither the level
\* nor the state of the miner changes.
LEMMA CreditStep ==
    ASSUME RegistryInv, NEW m \in Miners, NEW success \in BOOLEAN,
           CreditCompletion(m, success)
    PROVE  RegistryInv'
<1> DEFINE reward == IF success THEN 1 ELSE 0
           was == records[m].cap.rep
           cap == [records[m].cap EXCEPT !.rep = <<9 * was[1] + reward * was[2], 10 * was[2]>>]
           r == [records[m] EXCEPT !.total = records[m].total + 1,
                                   !.rewards = records[m].rewards + reward, !.cap = cap]
<1>1. Recorded(m) /\ byTier' = byTier /\ earned' = [earned EXCEPT ![m] = @ + reward]
  BY DEF CreditCompletion
<1>2. /\ records[m] \in MinerRecord /\ records[m].rewards = earned[m]
      /\ earned \in [Miners -> Nat]
      /\ records \in [Miners -> MinerRecord \cup {Absent}]
  BY <1>1 DEF RegistryInv, RewardsKept, Recorded
<1>3. records' = [records EXCEPT ![m] = r]
  BY <1>2 DEF CreditCompletion, MinerRecord, Capability
<1>4. /\ records[m].cap \in Capability /\ records[m].total \in Nat
      /\ records[m].rewards \in Nat /\ reward \in {0, 1}
  BY <1>2 DEF MinerRecord
<1>5. was[1] \in Nat /\ was[2] \in Nat \ {0}
  BY <1>4 DEF Capability
<1>6. 9 * was[1] + reward * was[2] \in Nat /\ 10 * was[2] \in Nat \ {0}
  BY <1>4, <1>5
<1>7. cap \in Capability /\ cap.level = records[m].cap.level
  <2> HIDE DEF was, reward
  <2> QED BY <1>4, <1>6 DEF Capability
<1> HIDE DEF cap, was, reward
<1>8. /\ r \in MinerRecord /\ r.rewards = earned[m] + reward
      /\ r.cap = cap /\ r.active = records[m].active
  <2>1. records[m].total + 1 \in Nat /\ records[m].rewards + reward \in Nat
    BY <1>4
  <2>2. r.rewards = records[m].rewards + reward
    BY <1>2 DEF MinerRecord
  <2>3. r \in MinerRecord /\ r.cap = cap /\ r.active = records[m].active
    BY <1>2, <1>7, <2>1 DEF MinerRecord
  <2> QED BY <1>2, <2>2, <2>3
<1> HIDE DEF r
<1>9. r # Absent /\ records[m] # Absent
  BY <1>2, <1>8, MinersAssumption
<1>10. /\ records' \in [Miners -> MinerRecord \cup {Absent}]
       /\ records'[m] = r /\ \A n \in Miners : n # m => records'[n] = records[n]
  BY <1>2, <1>3, <1>8
<1>11. /\ earned' \in [Miners -> Nat] /\ earned'[m] = earned[m] + reward
       /\ \A n \in Miners : n # m => earned'[n] = earned[n]
  BY <1>1, <1>2, <1>4
<1>12. Recorded(m)' /\ \A n \in Miners : n # m => (Recorded(n)' <=> Recorded(n))
  BY <1>9, <1>10 DEF Recorded
<1>13. RewardsKept'
  BY <1>8, <1>10, <1>11, <1>12 DEF RegistryInv, RewardsKept
<1>14. \A n \in Miners : ~Recorded(n)' => earned'[n] = 0
  BY <1>11, <1>12 DEF RegistryInv
<1>15. IndexExact'
  <2> SUFFICES ASSUME NEW t \in Tiers, NEW n \in Miners
               PROVE  n \in Able(t)' <=> n \in Able(t)
    BY <1>1 DEF RegistryInv, IndexExact, Able
  <2>1. CASE n = m
    BY <1>1, <1>7, <1>8, <1>10, <1>12, <2>1 DEF Able
  <2>2. CASE n # m
    BY <1>10, <1>12, <2>2 DEF Able
  <2> QED BY <2>1, <2>2
<1> QED BY <1>1, <1>10, <1>11, <1>13, <1>14, <1>15 DEF RegistryInv

-----------------------------------------------------------------------------
(* The invariant *)

LEMMA InitIInv == Init => IInv
<1> SUFFICES ASSUME Init PROVE IInv
  OBVIOUS
<1> USE DEF Init
<1>1. \A m \in Miners : ~Joined(m) /\ ~Recorded(m)
  BY DEF Joined, Recorded
<1>2. ListsServe /\ LoadIsOwed /\ RewardsKept
  BY <1>1 DEF ListsServe, LoadIsOwed, RewardsKept
<1>3. IndexExact
  BY <1>1 DEF IndexExact, Able
<1> QED BY <1>1, <1>2, <1>3 DEF IInv, DispatcherInv, RegistryInv

LEMMA NextIInv == IInv /\ [Next]_vars => IInv'
<1> SUFFICES ASSUME IInv, [Next]_vars PROVE IInv'
  OBVIOUS
<1>1. DispatcherInv /\ RegistryInv
  BY DEF IInv
<1>2. CASE UNCHANGED vars
  BY <1>1, <1>2, DispatcherFrame, RegistryFrame DEF vars, dispatcher, registry, IInv
<1>3. ASSUME NEW m \in Miners, NEW h \in Hardware, RegisterMiner(m, h) PROVE IInv'
  BY <1>1, <1>3, RegisterMinerStep, RegistryFrame DEF RegisterMiner, IInv
<1>4. ASSUME NEW m \in Miners, NEW h \in Hardware, Register(m, h) PROVE IInv'
  BY <1>1, <1>4, RegisterStep, DispatcherFrame DEF Register, IInv
<1>5. ASSUME NEW m \in Miners, NEW h \in Hardware, UpdateCapability(m, h) PROVE IInv'
  BY <1>1, <1>5, UpdateStep, DispatcherFrame DEF UpdateCapability, IInv
<1>6. ASSUME NEW m \in Miners, UnregisterMiner(m) PROVE IInv'
  BY <1>1, <1>6, UnregisterMinerStep, RegistryFrame DEF UnregisterMiner, IInv
<1>7. ASSUME NEW m \in Miners, ReleaseTask(m) PROVE IInv'
  BY <1>1, <1>7, ReleaseStep, RegistryFrame DEF ReleaseTask, IInv
<1>8. ASSUME NEW m \in Miners, Unregister(m) PROVE IInv'
  BY <1>1, <1>8, UnregisterStep, DispatcherFrame DEF Unregister, IInv
<1>9. ASSUME NEW m \in Miners, NEW success \in BOOLEAN, RecordCompletion(m, success) PROVE IInv'
  BY <1>1, <1>9, RecordStep, RegistryFrame DEF RecordCompletion, IInv
<1>10. ASSUME NEW m \in Miners, NEW success \in BOOLEAN, CreditCompletion(m, success) PROVE IInv'
  BY <1>1, <1>10, CreditStep, DispatcherFrame DEF CreditCompletion, IInv
<1>11. ASSUME NEW t \in TaskTiers, Dispatch(t) PROVE IInv'
  <2>1. UNCHANGED registry
    BY <1>11 DEF Dispatch
  <2> QED BY <1>1, <1>11, <2>1, DispatchStep, RegistryFrame DEF IInv
<1> QED BY <1>2, <1>3, <1>4, <1>5, <1>6, <1>7, <1>8, <1>9, <1>10, <1>11 DEF Next

-----------------------------------------------------------------------------
(* What follows from it *)

\* A score is a fraction: no capability and no tier divides by zero.
LEMMA ScoreIsFraction ==
    ASSUME NEW t \in Tiers, NEW cap \in Capability
    PROVE  ScoreNumerator(t, cap) \in Nat /\ ScoreDenominator(t, cap) \in Nat \ {0}
<1> DEFINE need == MinUnits[t]
           surplus == IF cap.units > 5 * need THEN 5 * need ELSE cap.units
<1>1. need \in Nat \ {0}
  BY TiersAssumption
<1>2. cap.units \in Nat /\ cap.rep[1] \in Nat /\ cap.rep[2] \in Nat \ {0}
  BY DEF Capability
<1> HIDE DEF need
<1>3. surplus \in Nat
  BY <1>1, <1>2
<1> HIDE DEF surplus
<1>4. /\ 4 * surplus \in Nat /\ 3 * cap.rep[1] \in Nat /\ 3 * need \in Nat
  BY <1>1, <1>2, <1>3
<1>5. /\ 4 * surplus * cap.rep[2] \in Nat /\ 3 * cap.rep[1] * need \in Nat
      /\ 3 * need * cap.rep[2] \in Nat
  BY <1>1, <1>2, <1>4, ProductNat
<1>6. ScoreNumerator(t, cap)
        = 4 * surplus * cap.rep[2] + 3 * cap.rep[1] * need + 3 * need * cap.rep[2]
  BY DEF ScoreNumerator, surplus, need
<1>7. ScoreDenominator(t, cap) = need * cap.rep[2]
  BY DEF ScoreDenominator, need
<1>8. need * cap.rep[2] \in Nat \ {0}
  BY <1>1, <1>2
<1> QED BY <1>5, <1>6, <1>7, <1>8

\* Whenever the registry has a miner for a tier, GetBestMiner returns one.
LEMMA BestMinerExists ==
    ASSUME RegistryInv, NEW t \in Tiers, Able(t) # {}
    PROVE  GetBestMiner(t) # {}
<1> DEFINE A == GetMinersByTier(t)
           num == [m \in A |-> ScoreNumerator(t, records[m].cap)]
           den == [m \in A |-> ScoreDenominator(t, records[m].cap)]
<1>1. A = Able(t)
  BY DEF RegistryInv, IndexExact, GetMinersByTier, Able
<1>2. IsFiniteSet(A) /\ A # {}
  BY <1>1, MinersAssumption, FS_Subset DEF Able
<1>3. \A m \in A : records[m].cap \in Capability
  BY <1>1 DEF RegistryInv, Able, Recorded, MinerRecord
<1>4. \A m \in A : /\ ScoreNumerator(t, records[m].cap) \in Nat
                   /\ ScoreDenominator(t, records[m].cap) \in Nat \ {0}
  <2> HIDE DEF A
  <2> QED BY <1>3, ScoreIsFraction
<1>5. num \in [A -> Nat] /\ den \in [A -> Nat \ {0}]
  <2> HIDE DEF A
  <2> QED BY <1>4
<1>6. PICK m \in A : \A n \in A : num[n] * den[m] <= num[m] * den[n]
  <2> HIDE DEF A, num, den
  <2> QED BY <1>2, <1>5, HighestExists
<1>7. ASSUME NEW n \in A
      PROVE  ScoreNumerator(t, records[m].cap) * ScoreDenominator(t, records[n].cap)
               >= ScoreNumerator(t, records[n].cap) * ScoreDenominator(t, records[m].cap)
  <2>1. num[n] * den[m] <= num[m] * den[n]
    <3> HIDE DEF A, num, den
    <3> QED BY <1>6
  <2>2. num[n] \in Nat /\ den[m] \in Nat /\ num[m] \in Nat /\ den[n] \in Nat
    <3> HIDE DEF A, num, den
    <3> QED BY <1>5
  <2>3. num[m] * den[n] >= num[n] * den[m]
    <3> HIDE DEF A, num, den
    <3> QED BY <2>1, <2>2, ProductNat
  <2> QED BY <2>3
<1>8. m \in GetBestMiner(t)
  BY <1>7 DEF GetBestMiner
<1> QED BY <1>8

LEMMA IInvImplies == IInv => DispatcherSound /\ RegistrySound
<1> SUFFICES ASSUME IInv PROVE DispatcherSound /\ RegistrySound
  OBVIOUS
<1>1. DispatcherInv /\ RegistryInv
  BY DEF IInv
<1>2. DispatcherSound
  BY <1>1 DEF DispatcherSound, TypeOK, DispatcherInv, RegistryInv
<1>3. \A t \in Tiers : byTier[t] = Able(t) /\ (Able(t) # {} => GetBestMiner(t) # {})
  BY <1>1, BestMinerExists DEF RegistryInv, IndexExact
<1>4. RegistryFinds
  BY <1>3 DEF RegistryFinds, Able
<1> QED BY <1>1, <1>2, <1>4 DEF RegistrySound, RegistryInv

LEMMA Invariance == Spec => []IInv
<1> QED BY InitIInv, NextIInv, PTL DEF Spec

\* The dispatcher's tier lists hold registered miners only, each at most once and
\* in every tier it qualifies for, and no load exceeds the tasks that are out, for
\* any set of miners and whatever order they join, leave, are given tasks and
\* return them in.
THEOREM DispatcherStaysSound == Spec => []DispatcherSound
BY Invariance, IInvImplies, PTL

\* The registry's index never misses a miner nor keeps a retired one,
\* GetBestMiner fails only when no active miner qualifies, and no reward is lost
\* when a miner retires and registers again.
THEOREM RegistryStaysSound == Spec => []RegistrySound
BY Invariance, IInvImplies, PTL

-----------------------------------------------------------------------------
(* Distributed: the parts a size is cut into *)

\* The running sum in closed form.
StartOf(total, n, i) == i * (total \div n) + IF i < total % n THEN i ELSE total % n

LEMMA Division ==
    ASSUME NEW total \in Nat, NEW n \in Nat \ {0}
    PROVE  /\ total \div n \in Nat /\ total % n \in Nat /\ total % n < n
           /\ total = n * (total \div n) + (total % n)
<1>1. total % n \in 0..n - 1
  OBVIOUS
<1>2. total \div n \in Nat
  OBVIOUS
<1>3. total = n * (total \div n) + (total % n)
  OBVIOUS
<1> QED BY <1>1, <1>2, <1>3

LEMMA StartOfNext ==
    ASSUME NEW total \in Nat, NEW n \in Nat \ {0}, NEW i \in Nat
    PROVE  /\ StartOf(total, n, i) \in Nat /\ PartSize(total, n, i) \in Nat
           /\ StartOf(total, n, i + 1) = StartOf(total, n, i) + PartSize(total, n, i)
<1> DEFINE q == total \div n  r == total % n
<1>1. q \in Nat /\ r \in Nat
  BY Division
<1> HIDE DEF q, r
<1>2. i * q \in Nat /\ (i + 1) * q = i * q + q
  BY <1>1
<1>3. /\ StartOf(total, n, i) = i * q + IF i < r THEN i ELSE r
      /\ StartOf(total, n, i + 1) = (i + 1) * q + IF i + 1 < r THEN i + 1 ELSE r
      /\ PartSize(total, n, i) = q + IF i < r THEN 1 ELSE 0
  BY DEF StartOf, PartSize, q, r
<1> QED BY <1>1, <1>2, <1>3

\* A running sum of the sizes, on all of Nat.
Sums(f, total, n) ==
    f = [k \in Nat |-> IF k = 0 THEN 0 ELSE f[k - 1] + PartSize(total, n, k - 1)]

LEMMA PartStartIs ==
    ASSUME NEW total \in Nat, NEW n \in Nat \ {0}, NEW i \in Nat
    PROVE  PartStart(total, n, i) = StartOf(total, n, i)
<1> DEFINE F == [k \in Nat |-> StartOf(total, n, k)]
           f == CHOOSE f : Sums(f, total, n)
<1>1. StartOf(total, n, 0) = 0
  BY Division DEF StartOf
<1>2. \A k \in Nat : F[k] = StartOf(total, n, k)
  OBVIOUS
<1>3. \A k \in Nat : F[k] = IF k = 0 THEN 0 ELSE F[k - 1] + PartSize(total, n, k - 1)
  <2> TAKE k \in Nat
  <2>1. CASE k = 0
    BY <1>1, <2>1
  <2>2. CASE k # 0
    <3>1. k - 1 \in Nat /\ (k - 1) + 1 = k
      BY <2>2
    <3>2. StartOf(total, n, (k - 1) + 1) = StartOf(total, n, k - 1) + PartSize(total, n, k - 1)
      BY <3>1, StartOfNext
    <3>3. F[k] = StartOf(total, n, k) /\ F[k - 1] = StartOf(total, n, k - 1)
      BY <3>1
    <3> HIDE DEF F
    <3> QED BY <2>2, <3>1, <3>2, <3>3
  <2> QED BY <2>1, <2>2
<1>4. F = [k \in Nat |-> F[k]]
  OBVIOUS
<1>5. Sums(F, total, n)
  <2> HIDE DEF F
  <2> QED BY <1>3, <1>4 DEF Sums
<1>6. Sums(f, total, n)
  <2> HIDE DEF F
  <2> QED BY <1>5, Zenon
<1>7. PartStart(total, n, i) = f[i]
  BY Zenon DEF PartStart, Sums
<1> HIDE DEF f
<1> DEFINE T == {k \in Nat : f[k] = F[k]}
<1>8. 0 \in T
  <2>1. f[0] = 0
    BY <1>6 DEF Sums
  <2> QED BY <1>1, <2>1
<1>9. ASSUME NEW k \in Nat, k \in T PROVE k + 1 \in T
  <2> HIDE DEF F
  <2>1. k + 1 \in Nat /\ k + 1 # 0 /\ (k + 1) - 1 = k
    OBVIOUS
  <2>2. f[k + 1] = f[k] + PartSize(total, n, k)
    BY <1>6, <2>1 DEF Sums
  <2>3. F[k + 1] = F[k] + PartSize(total, n, k)
    BY <1>3, <2>1
  <2> QED BY <1>9, <2>1, <2>2, <2>3
<1>10. f[i] = F[i]
  <2>1. Nat \subseteq T
    <3> HIDE DEF T
    <3> QED BY <1>8, <1>9, NatSetInduction
  <2> QED BY <2>1
<1> QED BY <1>2, <1>7, <1>10

LEMMA StartBounds ==
    ASSUME NEW total \in Nat, NEW n \in Nat \ {0}
    PROVE  /\ StartOf(total, n, 0) = 0 /\ StartOf(total, n, n) = total
           /\ \A i \in Nat : \A d \in Nat : StartOf(total, n, i) <= StartOf(total, n, i + d)
<1> DEFINE S(i) == StartOf(total, n, i)
<1>1. S(0) = 0
  BY Division DEF StartOf
<1>2. S(n) = total
  <2> DEFINE q == total \div n  r == total % n
  <2>1. S(n) = n * q + IF n < r THEN n ELSE r
    BY DEF StartOf
  <2>2. n * q + r = total /\ ~(n < r)
    BY Division
  <2> HIDE DEF q, r
  <2> QED BY <2>1, <2>2
<1>3. ASSUME NEW i \in Nat PROVE \A d \in Nat : S(i) <= S(i + d)
  <2> DEFINE T == {d \in Nat : S(i) <= S(i + d)}
  <2>0. \A k \in Nat : S(k) \in Nat /\ S(k) <= S(k + 1)
    BY StartOfNext
  <2> HIDE DEF S
  <2>1. 0 \in T
    BY <2>0
  <2>2. ASSUME NEW d \in Nat, d \in T PROVE d + 1 \in T
    <3>1. i + d \in Nat /\ (i + d) + 1 = i + (d + 1) /\ i + (d + 1) \in Nat
      OBVIOUS
    <3> QED BY <2>0, <2>2, <3>1
  <2>3. Nat \subseteq T
    <3> HIDE DEF T
    <3> QED BY <2>1, <2>2, NatSetInduction
  <2> QED BY <2>3
<1> QED BY <1>1, <1>2, <1>3

\* The parts of a total cut in n, as GenerateShardingPlan and BuildPipelineSchedule
\* cut it.
Parts(total, n) == [i \in 0..(n - 1) |-> Part(total, n, i)]

LEMMA PartsSplit ==
    ASSUME NEW total \in Nat, NEW n \in Nat \ {0}
    PROVE  Split(Parts(total, n), total)
<1> DEFINE S(i) == StartOf(total, n, i)  P == Parts(total, n)
           Z(i) == PartSize(total, n, i)
<1>0. /\ \A i \in Nat : S(i) \in Nat /\ Z(i) \in Nat /\ S(i + 1) = S(i) + Z(i)
      /\ S(0) = 0 /\ S(n) = total
      /\ \A i \in Nat : \A d \in Nat : S(i) <= S(i + d)
  BY StartOfNext, StartBounds
<1>1. /\ DOMAIN P = 0..(n - 1)
      /\ \A i \in 0..(n - 1) : i \in Nat /\ P[i] = S(i)..(S(i + 1) - 1)
  <2> SUFFICES ASSUME NEW i \in 0..(n - 1) PROVE Part(total, n, i) = S(i)..(S(i + 1) - 1)
    BY DEF Parts
  <2>1. i \in Nat
    OBVIOUS
  <2>2. PartStart(total, n, i) = S(i)
    BY <2>1, PartStartIs
  <2>3. Part(total, n, i) = S(i)..(S(i) + Z(i) - 1)
    BY <2>2, Zenon DEF Part
  <2> HIDE DEF S, Z
  <2>4. S(i) + Z(i) - 1 = S(i + 1) - 1
    BY <1>0, <2>1
  <2> QED BY <2>3, <2>4
<1>2. \A i \in Nat : Z(i) <= (total \div n) + 1 /\ total \div n <= Z(i) /\ total \div n \in Nat
  BY Division DEF PartSize
<1> HIDE DEF S, P, Z
<1>3. ASSUME NEW i \in 0..(n - 1), NEW j \in 0..(n - 1), i < j PROVE S(i + 1) <= S(j)
  <2>1. i + 1 \in Nat /\ j - (i + 1) \in Nat /\ (i + 1) + (j - (i + 1)) = j
    BY <1>3
  <2>2. S(i + 1) <= S((i + 1) + (j - (i + 1)))
    BY <1>0, <2>1
  <2> QED BY <2>1, <2>2
<1>4. ASSUME NEW i \in 0..(n - 1), NEW j \in 0..(n - 1), i < j PROVE P[i] \cap P[j] = {}
  <2>1. S(i + 1) <= S(j) /\ S(i + 1) \in Nat /\ S(j) \in Nat /\ i + 1 \in Nat
    BY <1>0, <1>3, <1>4
  <2>2. P[i] = S(i)..(S(i + 1) - 1) /\ P[j] = S(j)..(S(j + 1) - 1)
    BY <1>1
  <2>3. S(i) \in Nat /\ S(j + 1) \in Nat
    BY <1>0
  <2>4. \A x \in P[i] : x < S(i + 1)
    BY <2>1, <2>2, <2>3
  <2>5. \A x \in P[j] : S(j) <= x /\ x \in Int
    BY <2>1, <2>2, <2>3
  <2> QED BY <2>1, <2>4, <2>5
<1>5. ASSUME NEW i \in 0..(n - 1), NEW j \in 0..(n - 1), i # j PROVE P[i] \cap P[j] = {}
  BY <1>4, <1>5
<1>6. ASSUME NEW i \in 0..(n - 1) PROVE Cardinality(P[i]) = Z(i)
  <2>1. S(i) \in Int /\ S(i + 1) - 1 \in Int /\ S(i + 1) = S(i) + Z(i) /\ Z(i) \in Nat
    BY <1>0
  <2>2. P[i] = S(i)..(S(i + 1) - 1)
    BY <1>1
  <2>3. Cardinality(S(i)..(S(i + 1) - 1))
          = IF S(i) > S(i + 1) - 1 THEN 0 ELSE (S(i + 1) - 1) - S(i) + 1
    BY <2>1, FS_Interval
  <2> QED BY <2>1, <2>2, <2>3
<1>7. \A i, j \in 0..(n - 1) : Cardinality(P[i]) <= Cardinality(P[j]) + 1
  <2> TAKE i, j \in 0..(n - 1)
  <2>1. i \in Nat /\ j \in Nat /\ Z(i) \in Nat /\ Z(j) \in Nat
    BY <1>0
  <2>2. Z(i) <= Z(j) + 1
    BY <1>2, <2>1
  <2> QED BY <1>6, <2>2
<1>8. \A x \in 0..(total - 1) : \E i \in 0..(n - 1) : x \in P[i]
  <2> TAKE x \in 0..(total - 1)
  <2> DEFINE T == {k \in Nat : k <= n /\ x < S(k) => \E i \in 0..(n - 1) : x \in P[i]}
  <2>1. 0 \in T
    BY <1>0
  <2>2. ASSUME NEW k \in Nat, k \in T PROVE k + 1 \in T
    <3> SUFFICES ASSUME k + 1 <= n, x < S(k + 1) PROVE \E i \in 0..(n - 1) : x \in P[i]
      OBVIOUS
    <3>1. k \in 0..(n - 1) /\ S(k) \in Nat /\ S(k + 1) \in Nat
      BY <1>0
    <3>2. CASE x < S(k)
      BY <2>2, <3>1, <3>2
    <3>3. CASE S(k) <= x
      <4>1. x \in S(k)..(S(k + 1) - 1)
        BY <3>1, <3>3
      <4> QED BY <1>1, <3>1, <4>1
    <3> QED BY <3>1, <3>2, <3>3
  <2>3. n \in T
    <3> HIDE DEF T
    <3> QED BY <2>1, <2>2, NatSetInduction
  <2>4. x < S(n)
    BY <1>0
  <2> QED BY <2>3, <2>4
<1>9. \A i \in 0..(n - 1) : P[i] \subseteq 0..(total - 1)
  <2> TAKE i \in 0..(n - 1)
  <2>1. i + 1 \in Nat /\ n - (i + 1) \in Nat /\ (i + 1) + (n - (i + 1)) = n
    OBVIOUS
  <2>2. S(i + 1) <= S((i + 1) + (n - (i + 1)))
    BY <1>0, <2>1
  <2>3. S(i + 1) <= total /\ S(i) \in Nat /\ S(i + 1) \in Nat
    BY <1>0, <2>1, <2>2
  <2> QED BY <1>1, <2>3
<1>10. UNION Range(P) = 0..(total - 1)
  <2>1. Range(P) = {P[i] : i \in 0..(n - 1)}
    BY <1>1 DEF Range
  <2> QED BY <1>8, <1>9, <2>1
<1> QED BY <1>1, <1>5, <1>7, <1>10 DEF Split, P

\* DefaultParallelismConfig asks for a stage at least and no more workers than there are.
LEMMA ShapeFits ==
    ASSUME NEW n \in Nat \ {0}
    PROVE  LET c == DefaultParallelismConfig(n)
           IN  /\ c.stages \in Nat \ {0} /\ c.batches \in Nat \ {0}
               /\ c.stages * c.workers <= n
<1>1. CASE n <= 2
  BY <1>1 DEF DefaultParallelismConfig
<1>2. CASE n \in 3..4
  BY <1>2 DEF DefaultParallelismConfig
<1>3. CASE n \in 5..8
  BY <1>3 DEF DefaultParallelismConfig
<1>4. CASE n > 8
  BY <1>4 DEF DefaultParallelismConfig
<1> QED BY <1>1, <1>2, <1>3, <1>4

LEMMA PlanOf ==
    ASSUME cfg \in Configs PROVE PlanIsPartition
<1> DEFINE n == cfg.miners  plan == GenerateShardingPlan(cfg)
           shape == DefaultParallelismConfig(n)
<1>1. n \in Nat \ {0} /\ cfg.layers \in Nat /\ cfg.heads \in Nat
  BY ConfigsAssumption
<1>2. shape.stages \in Nat \ {0} /\ shape.stages * shape.workers <= n
  BY <1>1, ShapeFits
<1>3. /\ [i \in DOMAIN plan |-> plan[i].layers] = Parts(cfg.layers, n)
      /\ [i \in DOMAIN plan |-> plan[i].heads] = Parts(cfg.heads, n)
  BY DEF GenerateShardingPlan, Parts
<1>4. BuildPipelineSchedule(cfg) = Parts(cfg.layers, shape.stages)
  BY DEF BuildPipelineSchedule, Parts
<1>5. /\ Split(Parts(cfg.layers, n), cfg.layers) /\ Split(Parts(cfg.heads, n), cfg.heads)
      /\ Split(Parts(cfg.layers, shape.stages), cfg.layers)
  BY <1>1, <1>2, PartsSplit
<1> QED BY <1>2, <1>3, <1>4, <1>5, Zenon DEF PlanIsPartition

-----------------------------------------------------------------------------
(* The Coordinator *)

\* What a session is, and where a call can be in it.
SessionShape ==
    /\ kind \in {"none", "coordinator", "pipeline"} /\ cfg \in Configs
    /\ call \in Nat /\ cancelled \in BOOLEAN
    /\ kind = "none" => phase = "idle" /\ call = 0
    /\ kind = "coordinator" =>
          phase \in {"idle", "checkpoint", "forward", "reduce", "failing", "complete", "crashed"}
    /\ kind = "coordinator" /\ phase # "idle" => call > 0
    /\ kind = "pipeline" => phase \in {"idle", "feed", "collect", "wait"}
    /\ kind # "pipeline" => running = {} /\ old = {}

\* How far the forward pass has come.
PassInv ==
    /\ layer \in Nat /\ layer <= cfg.layers
    /\ phase \in {"checkpoint", "forward"} => layer < cfg.layers
    /\ phase \in {"reduce", "complete"} => layer = cfg.layers
    /\ phase = "failing" => cancelled

\* CheckpointsExact, that the checkpoint due at the present layer has been taken
\* once the layer is run, and that the first call finds none.
CheckpointsInv ==
    /\ CheckpointsExact
    /\ phase = "forward" /\ CheckpointDue =>
          layer \in DOMAIN checkpoints /\ checkpoints[layer].call = call
    /\ call = 0 => DOMAIN checkpoints = {}
    /\ call = 1 => \A l \in DOMAIN checkpoints : l <= layer

RecoveryRecord ==
    [at : {"none", "search", "mark", "reassign", "done", "error"}, layer : Int, since : Nat]

\* Unless the failure came in the first interval, the search has below it a checkpoint
\* close to the layer at which the failure was reported, and so finds one as close.
Near(r) ==
    /\ r.at = "search" /\ r.since > CheckpointInterval =>
          \E c \in DOMAIN checkpoints : c <= r.layer /\ r.since - c <= CheckpointInterval
    /\ r.at \in {"mark", "reassign", "done"} =>
          r.layer \in DOMAIN checkpoints /\ r.since - r.layer <= CheckpointInterval
    /\ r.at = "reassign" => r.layer >= 0
    /\ r.at = "error" /\ r.layer < 0 => r.since <= CheckpointInterval

RecoveryInv ==
    /\ kind = "coordinator" =>
          /\ recovery \in [Workers -> RecoveryRecord] /\ failed \subseteq Workers
          /\ \A m \in Workers : Near(recovery[m])
    /\ NotAllReassigned

\* A session that is not a coordinator leaves its fields alone.
OtherInv ==
    kind # "coordinator" =>
        status = "initializing" /\ layer = 0 /\ checkpoints = <<>> /\ failed = {}

CoordInv == /\ SessionShape /\ PassInv /\ CheckpointsInv
            /\ StatusIsTrue /\ RecoveryInv /\ OtherInv

LEMMA CfgFacts ==
    ASSUME cfg \in Configs
    PROVE  /\ cfg.miners \in Nat \ {0} /\ cfg.layers \in Nat /\ cfg.heads \in Nat
           /\ cfg.batches \in Nat \ {0}
BY ConfigsAssumption

\* Checkpoints are only added, so a step that leaves the recoveries alone keeps them near.
LEMMA RecoveryFrame ==
    ASSUME RecoveryInv, UNCHANGED <<kind, cfg, recovery, failed>>,
           DOMAIN checkpoints \subseteq DOMAIN checkpoints'
    PROVE  RecoveryInv'
<1>1. Workers' = Workers
  BY DEF Workers
<1>3. NotAllReassigned'
  BY <1>1 DEF RecoveryInv, NotAllReassigned
<1>4. ASSUME kind = "coordinator", NEW m \in Workers PROVE Near(recovery[m])'
  <2>1. Near(recovery[m])
    BY <1>4 DEF RecoveryInv
  <2> QED BY <2>1 DEF Near
<1> QED BY <1>1, <1>3, <1>4 DEF RecoveryInv

LEMMA CoordInit == SessionInit => CoordInv
<1> SUFFICES ASSUME SessionInit PROVE CoordInv
  OBVIOUS
<1> USE DEF SessionInit
<1>1. SessionShape
  BY DEF SessionShape
<1>2. PassInv
  BY CfgFacts DEF PassInv
<1>3. CheckpointsInv
  BY DEF CheckpointsInv, CheckpointsExact
<1>4. StatusIsTrue
  BY DEF StatusIsTrue
<1>5. RecoveryInv
  BY DEF RecoveryInv, NotAllReassigned
<1>6. OtherInv
  BY DEF OtherInv
<1> QED BY <1>1, <1>2, <1>3, <1>4, <1>5, <1>6 DEF CoordInv

\* The caller starts a session.
LEMMA NewSessionStep ==
    ASSUME CoordInv, NewCoordinator \/ NewPipelineExecutor PROVE CoordInv'
<1>0. /\ kind = "none" /\ phase = "idle" /\ call = 0 /\ cfg \in Configs
      /\ status = "initializing" /\ layer = 0 /\ checkpoints = <<>> /\ failed = {}
      /\ UNCHANGED <<cfg, call, cancelled, phase, status, layer, checkpoints, failed,
                     running, old>>
      /\ cancelled \in BOOLEAN /\ running = {} /\ old = {}
  BY DEF CoordInv, SessionShape, OtherInv, NewCoordinator, NewPipelineExecutor,
         coordinator, pipeline, leftover
<1>1. SessionShape'
  BY <1>0 DEF NewCoordinator, NewPipelineExecutor, SessionShape
<1>2. PassInv'
  BY <1>0, CfgFacts DEF PassInv
<1>3. CheckpointsInv'
  BY <1>0 DEF CheckpointsInv, CheckpointsExact
<1>4. StatusIsTrue'
  BY <1>0 DEF StatusIsTrue
<1>5. RecoveryInv'
  <2>1. CASE NewCoordinator
    <3>1. Workers' = Workers /\ 0 \in Workers
      BY <1>0, CfgFacts DEF Workers
    <3>2. recovery' = [m \in Workers |-> [at |-> "none", layer |-> 0, since |-> 0]]
      BY <2>1 DEF NewCoordinator
    <3>3. recovery' \in [Workers -> RecoveryRecord]
      BY <3>2 DEF RecoveryRecord
    <3>4. \A m \in Workers : Near(recovery[m])'
      BY <3>2 DEF Near
    <3>5. NotAllReassigned'
      BY <1>0, <3>1 DEF NotAllReassigned
    <3> QED BY <1>0, <3>1, <3>3, <3>4, <3>5 DEF RecoveryInv
  <2>2. CASE NewPipelineExecutor
    BY <2>2 DEF NewPipelineExecutor, RecoveryInv, NotAllReassigned
  <2> QED BY <2>1, <2>2
<1>6. OtherInv'
  BY <1>0 DEF OtherInv
<1> QED BY <1>1, <1>2, <1>3, <1>4, <1>5, <1>6 DEF CoordInv

\* The actions of a pipeline, and those that leave a coordinator alone.
LEMMA CoordFrame ==
    ASSUME CoordInv, kind = "pipeline", UNCHANGED <<kind, cfg, coordinator>>,
           call' \in Nat, cancelled' \in BOOLEAN,
           phase' \in {"idle", "feed", "collect", "wait"}
    PROVE  CoordInv'
<1>0. /\ status = "initializing" /\ layer = 0 /\ checkpoints = <<>> /\ failed = {}
      /\ cfg \in Configs
      /\ UNCHANGED <<kind, cfg, status, layer, checkpoints, failed>>
  BY DEF CoordInv, OtherInv, SessionShape, coordinator
<1>1. SessionShape'
  BY <1>0 DEF SessionShape
<1>2. PassInv'
  BY <1>0, CfgFacts DEF PassInv
<1>3. CheckpointsInv'
  BY <1>0 DEF CheckpointsInv, CheckpointsExact
<1>4. StatusIsTrue'
  BY <1>0 DEF StatusIsTrue
<1>5. RecoveryInv'
  BY <1>0 DEF RecoveryInv, NotAllReassigned
<1>6. OtherInv'
  BY <1>0 DEF OtherInv
<1> QED BY <1>1, <1>2, <1>3, <1>4, <1>5, <1>6 DEF CoordInv

LEMMA CancelCoord == ASSUME CoordInv, Cancel PROVE CoordInv'
<1>0. /\ phase # "idle" /\ cancelled' = TRUE
      /\ UNCHANGED <<kind, cfg, call, phase, running, old, status, layer, checkpoints, failed, recovery>>
  BY DEF Cancel, coordinator, pipeline, leftover
<1>1. SessionShape'
  BY <1>0 DEF CoordInv, SessionShape
<1>2. PassInv'
  BY <1>0 DEF CoordInv, PassInv
<1>3. CheckpointsInv'
  BY <1>0 DEF CoordInv, CheckpointsInv, CheckpointsExact, CheckpointDue
<1>4. StatusIsTrue'
  BY <1>0 DEF CoordInv, StatusIsTrue
<1>5. RecoveryInv'
  BY <1>0, RecoveryFrame DEF CoordInv
<1>6. OtherInv'
  BY <1>0 DEF CoordInv, OtherInv
<1> QED BY <1>1, <1>2, <1>3, <1>4, <1>5, <1>6 DEF CoordInv

LEMMA ExecuteCoord == ASSUME CoordInv, Execute PROVE CoordInv'
<1>0. /\ kind = "coordinator" /\ phase = "idle" /\ call' = call + 1 /\ cancelled' = FALSE
      /\ status' = "running" /\ layer' = 0
      /\ phase' = IF cfg.layers = 0 THEN "reduce" ELSE "checkpoint"
      /\ UNCHANGED <<kind, cfg, running, old, checkpoints, failed, recovery>>
      /\ cfg \in Configs
  BY DEF Execute, pipeline, leftover, CoordInv, SessionShape
<1>1. SessionShape'
  <2>1. call' \in Nat
    BY <1>0 DEF CoordInv, SessionShape
  <2>2. cancelled' \in BOOLEAN /\ phase' \in {"reduce", "checkpoint"}
    BY <1>0, Zenon
  <2> QED BY <1>0, <2>1, <2>2 DEF CoordInv, SessionShape
<1>2. PassInv'
  BY <1>0, CfgFacts DEF PassInv
<1>3. CheckpointsInv'
  <2>1. \A l \in DOMAIN checkpoints : l \in 1..(cfg.layers - 1) /\ ~(l < 0)
    BY <1>0, CfgFacts DEF CoordInv, CheckpointsInv, CheckpointsExact
  <2>2. call + 1 # 0 /\ (call + 1 = 1 => DOMAIN checkpoints = {})
    BY DEF CoordInv, CheckpointsInv, SessionShape
  <2>3. CheckpointsExact'
    BY <1>0, <2>1 DEF CoordInv, CheckpointsInv, CheckpointsExact
  <2> QED BY <1>0, <2>2, <2>3 DEF CheckpointsInv
<1>4. StatusIsTrue'
  BY <1>0 DEF StatusIsTrue
<1>5. RecoveryInv'
  BY <1>0, RecoveryFrame DEF CoordInv
<1>6. OtherInv'
  BY <1>0 DEF OtherInv
<1> QED BY <1>1, <1>2, <1>3, <1>4, <1>5, <1>6 DEF CoordInv

LEMMA CheckpointCoord == ASSUME CoordInv, Checkpoint PROVE CoordInv'
<1>0. /\ phase = "checkpoint" /\ phase' = "forward" /\ kind = "coordinator"
      /\ UNCHANGED <<kind, cfg, call, cancelled, status, layer, running, old, failed, recovery>>
      /\ cfg \in Configs /\ layer \in Nat /\ layer < cfg.layers /\ cfg.layers \in Nat
      /\ checkpoints' = IF CheckpointDue
                        THEN Put(checkpoints, layer, [call |-> call, layers |-> layer])
                        ELSE checkpoints
  BY CfgFacts DEF Checkpoint, pipeline, leftover, CoordInv, SessionShape, PassInv
<1>1. SessionShape'
  BY <1>0 DEF CoordInv, SessionShape
<1>2. PassInv'
  BY <1>0 DEF CoordInv, PassInv
<1>3. CheckpointsInv'
  <2>1. CASE CheckpointDue
    <3>1. /\ DOMAIN checkpoints' = DOMAIN checkpoints \cup {layer}
          /\ checkpoints'[layer] = [call |-> call, layers |-> layer]
          /\ \A l \in DOMAIN checkpoints : l # layer => checkpoints'[l] = checkpoints[l]
      BY <1>0, <2>1 DEF Put
    <3>2. layer \in 1..(cfg.layers - 1) /\ layer % CheckpointInterval = 0 /\ ~(layer < layer)
      BY <1>0, <2>1 DEF CheckpointDue
    <3>3. CheckpointsExact'
      BY <1>0, <3>1, <3>2 DEF CoordInv, CheckpointsInv, CheckpointsExact
    <3>4. call > 0 /\ (call = 1 => \A l \in DOMAIN checkpoints' : l <= layer)
      BY <1>0, <3>1 DEF CoordInv, CheckpointsInv, SessionShape
    <3> QED BY <1>0, <3>1, <3>3, <3>4 DEF CheckpointsInv
  <2>2. CASE ~CheckpointDue
    BY <1>0, <2>2 DEF CoordInv, CheckpointsInv, CheckpointsExact, CheckpointDue
  <2> QED BY <2>1, <2>2
<1>4. StatusIsTrue'
  BY <1>0 DEF CoordInv, StatusIsTrue
<1>5. RecoveryInv'
  <2>1. DOMAIN checkpoints \subseteq DOMAIN checkpoints'
    BY <1>0 DEF Put
  <2> QED BY <1>0, <2>1, RecoveryFrame DEF CoordInv
<1>6. OtherInv'
  BY <1>0 DEF OtherInv
<1> QED BY <1>1, <1>2, <1>3, <1>4, <1>5, <1>6 DEF CoordInv

LEMMA ForwardCoord == ASSUME CoordInv, Forward PROVE CoordInv'
<1>0. /\ phase = "forward" /\ layer' = layer + 1 /\ kind = "coordinator"
      /\ phase' = IF cancelled THEN "failing"
                  ELSE IF layer + 1 < cfg.layers THEN "checkpoint" ELSE "reduce"
      /\ UNCHANGED <<kind, cfg, call, cancelled, status, checkpoints, running, old, failed, recovery>>
      /\ cfg \in Configs /\ layer \in Nat /\ layer < cfg.layers /\ cfg.layers \in Nat
  BY CfgFacts DEF Forward, pipeline, leftover, CoordInv, SessionShape, PassInv
<1>1. SessionShape'
  <2>1. phase' \in {"failing", "checkpoint", "reduce"}
    BY <1>0, Zenon
  <2> QED BY <1>0, <2>1 DEF CoordInv, SessionShape
<1>2. PassInv'
  BY <1>0 DEF CoordInv, PassInv
<1>3. CheckpointsInv'
  <2>1. \A l \in DOMAIN checkpoints : l \in 1..(cfg.layers - 1) /\ l % CheckpointInterval = 0
    BY DEF CoordInv, CheckpointsInv, CheckpointsExact
  <2>2. ASSUME NEW l \in DOMAIN checkpoints, l < layer + 1 PROVE checkpoints[l].call = call
    <3>1. CASE l < layer
      BY <3>1 DEF CoordInv, CheckpointsInv, CheckpointsExact
    <3>2. CASE l = layer
      <4>1. CheckpointDue
        BY <1>0, <2>1, <3>2 DEF CheckpointDue
      <4> QED BY <1>0, <3>2, <4>1 DEF CoordInv, CheckpointsInv
    <3> QED BY <1>0, <2>1, <2>2, <3>1, <3>2
  <2>3. ASSUME NEW l \in 1..((layer + 1) - 1), l % CheckpointInterval = 0
        PROVE  l \in DOMAIN checkpoints
    <3>1. CASE l \in 1..(layer - 1)
      BY <2>3, <3>1 DEF CoordInv, CheckpointsInv, CheckpointsExact
    <3>2. CASE l = layer
      <4>1. CheckpointDue
        BY <1>0, <2>3, <3>2 DEF CheckpointDue
      <4> QED BY <1>0, <3>2, <4>1 DEF CoordInv, CheckpointsInv
    <3> QED BY <1>0, <3>1, <3>2
  <2>4. CheckpointsExact'
    BY <1>0, <2>2, <2>3 DEF CoordInv, CheckpointsInv, CheckpointsExact
  <2>5. call = 1 => \A l \in DOMAIN checkpoints : l <= layer + 1
    BY <1>0, <2>1 DEF CoordInv, CheckpointsInv
  <2> QED BY <1>0, <2>4, <2>5 DEF CoordInv, CheckpointsInv
<1>4. StatusIsTrue'
  BY <1>0 DEF CoordInv, StatusIsTrue
<1>5. RecoveryInv'
  BY <1>0, RecoveryFrame DEF CoordInv
<1>6. OtherInv'
  BY <1>0 DEF OtherInv
<1> QED BY <1>1, <1>2, <1>3, <1>4, <1>5, <1>6 DEF CoordInv

LEMMA EndCoord == ASSUME CoordInv, EndForward \/ Complete PROVE CoordInv'
<1>0. /\ kind = "coordinator"
      /\ UNCHANGED <<kind, cfg, call, cancelled, layer, checkpoints, running, old, failed, recovery>>
  BY DEF EndForward, Complete, pipeline, leftover, CoordInv, SessionShape
<1>1. SessionShape'
  BY <1>0 DEF EndForward, Complete, CoordInv, SessionShape
<1>2. PassInv'
  BY <1>0 DEF EndForward, Complete, CoordInv, PassInv
<1>3. CheckpointsInv'
  BY <1>0 DEF EndForward, Complete, CoordInv, CheckpointsInv, CheckpointsExact
<1>4. StatusIsTrue'
  BY <1>0 DEF EndForward, Complete, CoordInv, StatusIsTrue, PassInv
<1>5. RecoveryInv'
  BY <1>0, RecoveryFrame DEF CoordInv
<1>6. OtherInv'
  BY <1>0 DEF OtherInv
<1> QED BY <1>1, <1>2, <1>3, <1>4, <1>5, <1>6 DEF CoordInv

\* The greatest multiple of the interval below a layer is close to it.
LEMMA MultipleBelow ==
    ASSUME NEW n \in Nat, NEW c \in Nat \ {0}
    PROVE  \E l \in 0..n : l % c = 0 /\ n - l < c
<1> DEFINE q == n \div c  r == n % c  l == c * q
<1>1. q \in Nat /\ r \in Nat /\ r < c /\ n = c * q + r
  BY Division
<1>2. l \in 0..n /\ n - l < c
  <2> HIDE DEF q, r
  <2>1. c * q \in Nat
    BY <1>1
  <2> QED BY <1>1, <2>1
<1>3. l % c = 0
  <2> HIDE DEF q, r
  <2> QED BY <1>1
<1> QED BY <1>2, <1>3

\* When a failure is reported, a checkpoint close to it has been saved.
LEMMA CheckpointIsClose ==
    ASSUME CoordInv, layer > CheckpointInterval
    PROVE  \E c \in DOMAIN checkpoints :
               c <= cfg.layers - 1 /\ layer - c <= CheckpointInterval
<1>0. layer \in Nat /\ CheckpointInterval \in Nat \ {0} /\ cfg.layers \in Nat
  BY IntervalAssumption, CfgFacts DEF CoordInv, PassInv, SessionShape
<1>1. layer - 1 \in Nat
  BY <1>0
<1>2. PICK l \in 0..(layer - 1) : /\ l % CheckpointInterval = 0
                                  /\ (layer - 1) - l < CheckpointInterval
  BY <1>0, <1>1, MultipleBelow
<1>3. l \in 1..(layer - 1) /\ layer - l <= CheckpointInterval
  BY <1>0, <1>1, <1>2
<1>4. l \in DOMAIN checkpoints
  BY <1>2, <1>3 DEF CoordInv, CheckpointsInv, CheckpointsExact
<1>5. l \in 1..(cfg.layers - 1)
  BY <1>4 DEF CoordInv, CheckpointsInv, CheckpointsExact
<1> QED BY <1>0, <1>3, <1>4, <1>5

\* A step of one recovery leaves the others as they were.
LEMMA RecoveryChanges ==
    ASSUME RecoveryInv, kind = "coordinator", UNCHANGED <<kind, cfg, checkpoints>>,
           NEW m \in Workers, NEW r \in RecoveryRecord, Near(r),
           recovery' = [recovery EXCEPT ![m] = r],
           failed' \subseteq Workers, NotAllReassigned'
    PROVE  RecoveryInv'
<1>1. /\ Workers' = Workers /\ recovery \in [Workers -> RecoveryRecord]
      /\ \A x \in Workers : Near(recovery[x])
  BY DEF Workers, RecoveryInv
<1>2. /\ recovery' \in [Workers -> RecoveryRecord] /\ recovery'[m] = r
      /\ \A x \in Workers : x # m => recovery'[x] = recovery[x]
  BY <1>1
<1>3. ASSUME NEW x \in Workers PROVE Near(recovery[x])'
  <2>1. Near(recovery'[x])
    BY <1>1, <1>2
  <2> QED BY <2>1 DEF Near
<1> QED BY <1>1, <1>2, <1>3 DEF RecoveryInv

\* The search takes the checkpoint it looks at, goes on below it, or gives up.
LEMMA SearchKeepsNear ==
    ASSUME CoordInv, kind = "coordinator", NEW m \in Workers, SearchCheckpoint(m)
    PROVE  RecoveryInv'
<1> DEFINE r == recovery[m]
           found == [r EXCEPT !.at = "mark", !.layer = r.layer]
           below == [r EXCEPT !.layer = r.layer - 1]
           gone == [r EXCEPT !.at = "error"]
<1>0. /\ RecoveryInv /\ recovery \in [Workers -> RecoveryRecord] /\ Near(r)
      /\ failed \subseteq Workers /\ NotAllReassigned
      /\ r.at = "search" /\ UNCHANGED <<kind, cfg, checkpoints, failed>>
      /\ Workers' = Workers /\ CheckpointInterval \in Nat \ {0}
  BY IntervalAssumption DEF CoordInv, RecoveryInv, SearchCheckpoint, Searching, Workers
<1>1. r \in RecoveryRecord /\ r.layer \in Int /\ r.since \in Nat
  BY <1>0 DEF RecoveryRecord
<1>2. \A c \in DOMAIN checkpoints : c \in Int /\ c >= 1
  BY DEF CoordInv, CheckpointsInv, CheckpointsExact
<1>3. \A x \in RecoveryRecord : recovery' = [recovery EXCEPT ![m] = x]
                                    => (x.at # "reassign" => NotAllReassigned')
  <2> SUFFICES ASSUME NEW x \in RecoveryRecord, recovery' = [recovery EXCEPT ![m] = x],
                      failed = Workers
               PROVE  \E w \in Workers : recovery'[w].at \in {"reassign", "error"}
    BY <1>0 DEF NotAllReassigned
  <2>1. PICK w \in Workers : recovery[w].at \in {"reassign", "error"}
    BY <1>0 DEF NotAllReassigned
  <2>2. w # m /\ recovery'[w] = recovery[w]
    BY <1>0, <2>1
  <2> QED BY <2>1, <2>2
<1> DEFINE next == IF r.layer < 0 THEN gone
                   ELSE IF r.layer \in DOMAIN checkpoints THEN found ELSE below
<1>4. recovery' = [recovery EXCEPT ![m] = next]
  BY Zenon DEF SearchCheckpoint, NextLookedAt
<1>5. CASE r.layer < 0
  <2>1. recovery' = [recovery EXCEPT ![m] = gone]
    BY <1>4, <1>5
  <2>2. gone \in RecoveryRecord /\ gone.at = "error" /\ gone.since = r.since /\ gone.layer = r.layer
    BY <1>1 DEF RecoveryRecord
  <2> HIDE DEF gone
  <2>3. r.since <= CheckpointInterval
    BY <1>0, <1>1, <1>2, <1>5 DEF Near
  <2>4. Near(gone)
    BY <2>2, <2>3 DEF Near
  <2> QED BY <1>0, <1>3, <2>1, <2>2, <2>4, RecoveryChanges
<1>6. CASE r.layer >= 0 /\ r.layer \in DOMAIN checkpoints
  <2>1. recovery' = [recovery EXCEPT ![m] = found]
    <3>1. next = found
      <4> HIDE DEF found, below, gone
      <4> QED BY <1>1, <1>6
    <3> QED BY <1>4, <3>1, Zenon
  <2>2. found \in RecoveryRecord /\ found.at = "mark" /\ found.since = r.since /\ found.layer = r.layer
    BY <1>1 DEF RecoveryRecord
  <2> HIDE DEF found
  <2>3. r.since - r.layer <= CheckpointInterval
    <3>1. CASE r.since > CheckpointInterval
      <4>1. PICK c \in DOMAIN checkpoints : c <= r.layer /\ r.since - c <= CheckpointInterval
        BY <1>0, <3>1 DEF Near
      <4> QED BY <1>0, <1>1, <1>2, <4>1
    <3>2. CASE ~(r.since > CheckpointInterval)
      BY <1>0, <1>1, <1>6, <3>2
    <3> QED BY <3>1, <3>2
  <2>4. Near(found)
    BY <1>6, <2>2, <2>3 DEF Near
  <2> QED BY <1>0, <1>3, <2>1, <2>2, <2>4, RecoveryChanges
<1>7. CASE r.layer >= 0 /\ r.layer \notin DOMAIN checkpoints
  <2>1. recovery' = [recovery EXCEPT ![m] = below]
    <3>1. next = below
      <4> HIDE DEF found, below, gone
      <4> QED BY <1>1, <1>7
    <3> QED BY <1>4, <3>1, Zenon
  <2>2. below \in RecoveryRecord /\ below.at = "search" /\ below.since = r.since
        /\ below.layer = r.layer - 1
    BY <1>0, <1>1 DEF RecoveryRecord
  <2> HIDE DEF below
  <2>3. ASSUME r.since > CheckpointInterval
        PROVE  \E c \in DOMAIN checkpoints : c <= r.layer - 1 /\ r.since - c <= CheckpointInterval
    <3>1. PICK c \in DOMAIN checkpoints : c <= r.layer /\ r.since - c <= CheckpointInterval
      BY <1>0, <2>3 DEF Near
    <3>2. c # r.layer
      BY <1>7
    <3>3. c <= r.layer - 1
      BY <1>1, <1>2, <3>1, <3>2
    <3> QED BY <3>1, <3>3
  <2>4. Near(below)
    BY <2>2, <2>3 DEF Near
  <2> QED BY <1>0, <1>3, <2>1, <2>2, <2>4, RecoveryChanges
<1> QED BY <1>1, <1>5, <1>6, <1>7

LEMMA RecoverCoord ==
    ASSUME CoordInv, NEW m \in Workers, Recover(m) PROVE CoordInv'
<1>0. /\ kind = "coordinator"
      /\ UNCHANGED <<kind, cfg, call, cancelled, layer, checkpoints, running, old>>
      /\ status' = "recovering" \/ (status' = status /\ status' \notin {"completed", "failed"})
         \/ (status' = status /\ phase' = phase)
      /\ phase' = phase \/ (phase = "checkpoint" /\ phase' = "crashed")
      /\ Workers' = Workers
      /\ RecoveryInv /\ recovery \in [Workers -> RecoveryRecord] /\ failed \subseteq Workers
      /\ Near(recovery[m]) /\ NotAllReassigned
  <2>1. RecoveryInv /\ StatusIsTrue
    BY DEF CoordInv
  <2>2. kind = "coordinator"
    BY DEF Recover, RecoverFromCheckpoint, SearchCheckpoint, Searching, MapRace, MarkFailed, ReassignShard
  <2>3. recovery \in [Workers -> RecoveryRecord] /\ failed \subseteq Workers
        /\ Near(recovery[m]) /\ NotAllReassigned
    BY <2>1, <2>2 DEF RecoveryInv
  <2>4. UNCHANGED <<kind, cfg, call, cancelled, layer, checkpoints, running, old>>
    BY DEF Recover, RecoverFromCheckpoint, SearchCheckpoint, MapRace, MarkFailed, ReassignShard,
           coordinator, pipeline, leftover
  <2>5. CASE MapRace(m)
    <3>1. phase = "checkpoint" /\ phase' = "crashed" /\ status' = status
      BY <2>5 DEF MapRace, coordinator
    <3>2. status \notin {"completed", "failed"}
      BY <2>1, <3>1 DEF StatusIsTrue
    <3> QED BY <2>1, <2>2, <2>3, <2>4, <3>1, <3>2 DEF Workers
  <2>6. CASE ~MapRace(m)
    <3>1. phase' = phase /\ (status' = status \/ status' = "recovering")
      BY <2>6 DEF Recover, RecoverFromCheckpoint, SearchCheckpoint, MarkFailed, ReassignShard
    <3> QED BY <2>1, <2>2, <2>3, <2>4, <3>1 DEF Workers
  <2> QED BY <2>5, <2>6
<1>1. SessionShape'
  BY <1>0 DEF CoordInv, SessionShape
<1>2. PassInv'
  BY <1>0 DEF CoordInv, PassInv
<1>3. CheckpointsInv'
  BY <1>0 DEF CoordInv, CheckpointsInv, CheckpointsExact, CheckpointDue
<1>4. StatusIsTrue'
  BY <1>0 DEF CoordInv, StatusIsTrue
<1>5. RecoveryInv'
  <2> DEFINE r == recovery[m]
  <2>0. r \in RecoveryRecord /\ r.layer \in Int /\ r.since \in Nat
    BY <1>0 DEF RecoveryRecord
  <2>1. CASE RecoverFromCheckpoint(m)
    <3> DEFINE new == [at |-> "search", layer |-> cfg.layers - 1, since |-> layer]
    <3>1. r.at = "none" /\ recovery' = [recovery EXCEPT ![m] = new] /\ failed' = failed
      BY <2>1 DEF RecoverFromCheckpoint
    <3>2. layer \in Nat /\ cfg.layers \in Nat
      BY CfgFacts DEF CoordInv, PassInv, SessionShape
    <3>3. new \in RecoveryRecord
      BY <3>2 DEF RecoveryRecord
    <3>4. Near(new)
      BY CheckpointIsClose DEF Near
    <3>5. NotAllReassigned'
      BY <1>0, <3>1 DEF NotAllReassigned
    <3> QED BY <1>0, <3>1, <3>3, <3>4, <3>5, RecoveryChanges
  <2>2. CASE SearchCheckpoint(m)
    BY <1>0, <2>2, SearchKeepsNear
  <2>3. CASE MapRace(m)
    BY <1>0, <2>3, RecoveryFrame DEF MapRace, coordinator
  <2>4. CASE MarkFailed(m)
    <3> DEFINE new == [r EXCEPT !.at = "reassign"]
    <3>1. r.at = "mark" /\ recovery' = [recovery EXCEPT ![m] = new] /\ failed' = failed \cup {m}
      BY <1>0, <2>4 DEF MarkFailed
    <3>2. new \in RecoveryRecord /\ new.at = "reassign" /\ new.layer = r.layer /\ new.since = r.since
      BY <2>0 DEF RecoveryRecord
    <3> HIDE DEF new
    <3>3. r.layer >= 0
      BY <1>0, <3>1 DEF Near, CoordInv, CheckpointsInv, CheckpointsExact
    <3>4. Near(new)
      BY <1>0, <3>1, <3>2, <3>3 DEF Near
    <3>5. NotAllReassigned'
      BY <1>0, <3>1, <3>2 DEF NotAllReassigned
    <3> QED BY <1>0, <3>1, <3>2, <3>4, <3>5, RecoveryChanges
  <2>5. CASE ReassignShard(m)
    <3> DEFINE at == IF Healthy(m) = {} THEN "error" ELSE "done"
               new == [r EXCEPT !.at = at]
    <3>1. r.at = "reassign" /\ recovery' = [recovery EXCEPT ![m] = new] /\ failed' = failed
      BY <1>0, <2>5 DEF ReassignShard
    <3>2. /\ new \in RecoveryRecord /\ new.at = at /\ at \in {"error", "done"}
          /\ new.layer = r.layer /\ new.since = r.since
      BY <2>0 DEF RecoveryRecord
    <3>3. failed = Workers => at = "error"
      BY DEF Healthy
    <3> HIDE DEF new, at
    <3>4. Near(new)
      BY <1>0, <2>0, <3>1, <3>2 DEF Near
    <3>5. NotAllReassigned'
      BY <1>0, <3>1, <3>2, <3>3 DEF NotAllReassigned
    <3> QED BY <1>0, <3>1, <3>2, <3>4, <3>5, RecoveryChanges
  <2> QED BY <2>1, <2>2, <2>3, <2>4, <2>5 DEF Recover
<1>6. OtherInv'
  BY <1>0 DEF OtherInv
<1> QED BY <1>1, <1>2, <1>3, <1>4, <1>5, <1>6 DEF CoordInv

-----------------------------------------------------------------------------
(* The PipelineExecutor.  Micro-batches move along one line of places, each    *)
(* from the front of its place to the back of the next.                       *)

\* Micro-batches of a call; top is the last one fed, and each is the result of a stage.
Micro(c, top) == [call : {c}, index : 1..top, by : Nat]

MicroBy(c, top, s) == [call : {c}, index : 1..top, by : {s}]

\* The line is a list of places that hold such micro-batches.
IsLine(line, n, M) == DOMAIN line = 0..n /\ \A r \in 0..n : line[r] \in Seq(M)

\* One micro-batch moves from place r to the next; only its index stays.
Moves(line, next, n, M, r) ==
    /\ line[r] # <<>> /\ next[r] = Tail(line[r])
    /\ \E e \in M : next[r + 1] = Append(line[r + 1], e) /\ e.index = line[r][1].index
    /\ \A q \in 0..n : q # r /\ q # r + 1 => next[q] = line[q]

\* Where the micro-batch at position i of place q was before such a move.
WasAt(line, r, q, i) ==
    IF q = r THEN <<r, i + 1>>
    ELSE IF q = r + 1 /\ i = Len(line[r + 1]) + 1 THEN <<r, 1>> ELSE <<q, i>>

LEMMA MoveTraces ==
    ASSUME NEW n \in Nat, NEW M, NEW line, IsLine(line, n, M),
           NEW next, DOMAIN next = 0..n, NEW r \in 0..(n - 1), Moves(line, next, n, M, r),
           NEW q \in 0..n, NEW i \in DOMAIN next[q]
    PROVE  LET w == WasAt(line, r, q, i)
           IN  /\ w[1] \in 0..n /\ w[2] \in DOMAIN line[w[1]]
               /\ next[q][i].index = line[w[1]][w[2]].index
               /\ next[q] \in Seq(M)
<1>0. /\ r \in 0..n /\ r + 1 \in 0..n /\ r # r + 1
      /\ line[r] \in Seq(M) /\ line[r + 1] \in Seq(M)
      /\ line[r] # <<>> /\ next[r] = Tail(line[r])
  BY DEF IsLine, Moves
<1>1. PICK e \in M : next[r + 1] = Append(line[r + 1], e) /\ e.index = line[r][1].index
  BY DEF Moves
<1>2. CASE q = r
  <2>1. /\ Tail(line[r]) \in Seq(M) /\ i + 1 \in DOMAIN line[r]
        /\ Tail(line[r])[i] = line[r][i + 1]
    BY <1>0, <1>2
  <2> QED BY <1>0, <1>2, <2>1 DEF WasAt
<1>3. CASE q = r + 1
  <2>1. next[q] = Append(line[r + 1], e) /\ next[q] \in Seq(M)
    <3>1. Append(line[r + 1], e) \in Seq(M)
      BY <1>0, AppendProperties
    <3> QED BY <1>1, <1>3, <3>1, Zenon
  <2>2. i \in 1..Len(line[r + 1]) + 1
    BY <1>0, <2>1
  <2>3. CASE i = Len(line[r + 1]) + 1
    <3>1. next[q][i] = e /\ 1 \in DOMAIN line[r]
      BY <1>0, <2>1, <2>3
    <3> QED BY <1>0, <1>1, <1>3, <2>1, <2>3, <3>1 DEF WasAt
  <2>4. CASE i # Len(line[r + 1]) + 1
    <3>1. i \in DOMAIN line[r + 1] /\ next[q][i] = line[r + 1][i]
      BY <1>0, <2>1, <2>2, <2>4
    <3> QED BY <1>0, <1>3, <2>1, <2>4, <3>1 DEF WasAt
  <2> QED BY <2>3, <2>4
<1>4. CASE q # r /\ q # r + 1
  <2>1. next[q] = line[q]
    BY <1>4 DEF Moves
  <2> QED BY <1>4, <2>1 DEF WasAt, IsLine
<1> QED BY <1>2, <1>3, <1>4

\* The order of two micro-batches was the same before the move.
LEMMA MoveKeepsOrder ==
    ASSUME NEW n \in Nat, NEW M, NEW line, IsLine(line, n, M), Ordered(line),
           NEW next, DOMAIN next = 0..n, NEW r \in 0..(n - 1), Moves(line, next, n, M, r)
    PROVE  IsLine(next, n, M) /\ Ordered(next)
<1>0. /\ r \in 0..n /\ r + 1 \in 0..n /\ line[r] \in Seq(M) /\ line[r + 1] \in Seq(M)
      /\ line[r] # <<>> /\ next[r] = Tail(line[r])
  BY DEF IsLine, Moves
<1>1. \A q \in 0..n : next[q] \in Seq(M)
  <2>1. PICK e \in M : next[r + 1] = Append(line[r + 1], e)
    BY DEF Moves
  <2>2. next[r + 1] \in Seq(M) /\ next[r] \in Seq(M)
    BY <1>0, <2>1
  <2> QED BY <2>2 DEF Moves, IsLine
<1>2. IsLine(next, n, M)
  BY <1>1 DEF IsLine
<1>3. ASSUME NEW p \in 0..n, NEW q \in 0..n, NEW i \in DOMAIN next[p], NEW j \in DOMAIN next[q],
             q < p \/ (q = p /\ i < j)
      PROVE  next[p][i].index < next[q][j].index
  <2> DEFINE v == WasAt(line, r, p, i)  w == WasAt(line, r, q, j)
  <2>1. /\ v[1] \in 0..n /\ v[2] \in DOMAIN line[v[1]] /\ next[p][i].index = line[v[1]][v[2]].index
        /\ w[1] \in 0..n /\ w[2] \in DOMAIN line[w[1]] /\ next[q][j].index = line[w[1]][w[2]].index
    BY MoveTraces
  <2>2. i \in 1..Len(next[p]) /\ j \in 1..Len(next[q]) /\ Len(next[p]) \in Nat /\ Len(next[q]) \in Nat
    BY <1>1
  <2>3. Len(line[r + 1]) \in Nat /\ (q = r + 1 => j <= Len(line[r + 1]) + 1)
    <3>1. PICK e \in M : next[r + 1] = Append(line[r + 1], e)
      BY DEF Moves
    <3>2. Len(next[r + 1]) = Len(line[r + 1]) + 1
      BY <1>0, <3>1
    <3> QED BY <1>0, <2>2, <3>2, SMTT(30)
  <2>4. w[1] < v[1] \/ (w[1] = v[1] /\ v[2] < w[2])
    BY <1>3, <2>2, <2>3 DEF WasAt
  <2> HIDE DEF v, w
  <2>5. line[v[1]][v[2]].index < line[w[1]][w[2]].index
    BY <2>1, <2>4 DEF Ordered, IsLine
  <2> QED BY <2>1, <2>5
<1>4. Ordered(next)
  BY <1>3 DEF Ordered
<1> QED BY <1>2, <1>4

LEMMA HeldIs ==
    ASSUME NEW line, NEW x
    PROVE  x \in Held(line) <=> \E r \in DOMAIN line : \E i \in DOMAIN line[r] : x = line[r][i].index
BY DEF Held

\* No micro-batch is lost or made by a move.
LEMMA MoveKeepsHeld ==
    ASSUME NEW n \in Nat, NEW M, NEW line, IsLine(line, n, M),
           NEW next, DOMAIN next = 0..n, NEW r \in 0..(n - 1), Moves(line, next, n, M, r)
    PROVE  Held(next) = Held(line)
<1>0. /\ r \in 0..n /\ r + 1 \in 0..n /\ line[r] \in Seq(M) /\ line[r + 1] \in Seq(M)
      /\ line[r] # <<>> /\ next[r] = Tail(line[r]) /\ DOMAIN line = 0..n
  BY DEF IsLine, Moves
<1>1. PICK e \in M : next[r + 1] = Append(line[r + 1], e) /\ e.index = line[r][1].index
  BY DEF Moves
<1>2. ASSUME NEW q \in 0..n, NEW i \in DOMAIN next[q]
      PROVE  \E p \in 0..n : \E j \in DOMAIN line[p] : next[q][i].index = line[p][j].index
  <2> DEFINE w == WasAt(line, r, q, i)
  <2>1. w[1] \in 0..n /\ w[2] \in DOMAIN line[w[1]] /\ next[q][i].index = line[w[1]][w[2]].index
    BY MoveTraces
  <2> HIDE DEF w
  <2> QED BY <2>1
<1>3. ASSUME NEW p \in 0..n, NEW j \in DOMAIN line[p]
      PROVE  \E q \in 0..n : \E i \in DOMAIN next[q] : next[q][i].index = line[p][j].index
  <2>1. CASE p = r /\ j = 1
    <3>1. Len(line[r + 1]) + 1 \in DOMAIN next[r + 1] /\ next[r + 1][Len(line[r + 1]) + 1] = e
      BY <1>0, <1>1
    <3> QED BY <1>0, <1>1, <2>1, <3>1
  <2>2. CASE p = r /\ j # 1
    <3>1. j - 1 \in DOMAIN next[r] /\ next[r][j - 1] = line[r][j]
      BY <1>0, <2>2
    <3> QED BY <1>0, <2>2, <3>1
  <2>3. CASE p = r + 1
    <3>1. j \in DOMAIN next[r + 1] /\ next[r + 1][j] = line[r + 1][j]
      BY <1>0, <1>1, <2>3
    <3> QED BY <1>0, <2>3, <3>1
  <2>4. CASE p # r /\ p # r + 1
    BY <2>4 DEF Moves
  <2> QED BY <2>1, <2>2, <2>3, <2>4
<1>4. ASSUME NEW x \in Held(next) PROVE x \in Held(line)
  <2>1. PICK q \in 0..n : \E i \in DOMAIN next[q] : x = next[q][i].index
    BY HeldIs
  <2>2. \E p \in 0..n : \E j \in DOMAIN line[p] : x = line[p][j].index
    BY <1>2, <2>1
  <2> QED BY <1>0, <2>2, HeldIs
<1>5. ASSUME NEW x \in Held(line) PROVE x \in Held(next)
  <2>1. PICK p \in 0..n : \E j \in DOMAIN line[p] : x = line[p][j].index
    BY <1>0, HeldIs
  <2>2. \E q \in 0..n : \E i \in DOMAIN next[q] : x = next[q][i].index
    BY <1>3, <2>1
  <2> QED BY <2>2, HeldIs
<1> QED BY <1>4, <1>5

\* The line of n stages with these queues, hands and results.
LineOf(n, qs, hs, out) ==
    [r \in 0..(2 * n + 1) |->
        IF r = 2 * n + 1 THEN out
        ELSE IF r % 2 = 0 THEN qs[r \div 2] ELSE hs[(r + 1) \div 2]]

\* Its places, by name.
Named(line, n, qs, hs, out) ==
    /\ DOMAIN line = 0..(2 * n + 1) /\ line[2 * n + 1] = out
    /\ \A s \in 0..n : line[2 * s] = qs[s]
    /\ \A s \in 1..n : line[2 * s - 1] = hs[s]

LEMMA LineNamed ==
    ASSUME NEW n \in Nat, NEW qs, NEW hs, NEW out
    PROVE  Named(LineOf(n, qs, hs, out), n, qs, hs, out)
<1> DEFINE line == LineOf(n, qs, hs, out)
<1>1. DOMAIN line = 0..(2 * n + 1) /\ line[2 * n + 1] = out
  BY DEF LineOf
<1>2. ASSUME NEW s \in 0..n PROVE line[2 * s] = qs[s]
  <2>1. 2 * s \in 0..(2 * n + 1) /\ 2 * s # 2 * n + 1 /\ (2 * s) % 2 = 0 /\ (2 * s) \div 2 = s
    OBVIOUS
  <2> QED BY <2>1 DEF LineOf
<1>3. ASSUME NEW s \in 1..n PROVE line[2 * s - 1] = hs[s]
  <2>1. /\ 2 * s - 1 \in 0..(2 * n + 1) /\ 2 * s - 1 # 2 * n + 1
        /\ (2 * s - 1) % 2 # 0 /\ ((2 * s - 1) + 1) \div 2 = s
    OBVIOUS
  <2> QED BY <2>1 DEF LineOf
<1> QED BY <1>1, <1>2, <1>3 DEF Named

\* Every place is a queue, a hand or the results.
LEMMA PlaceNamed ==
    ASSUME NEW n \in Nat, NEW r \in 0..(2 * n + 1)
    PROVE  \/ r = 2 * n + 1
           \/ \E s \in 0..n : r = 2 * s
           \/ \E s \in 1..n : r = 2 * s - 1
<1> SUFFICES ASSUME r # 2 * n + 1
             PROVE  (\E s \in 0..n : r = 2 * s) \/ (\E s \in 1..n : r = 2 * s - 1)
  OBVIOUS
<1>1. CASE r % 2 = 0
  <2>1. r \div 2 \in 0..n /\ r = 2 * (r \div 2)
    BY <1>1
  <2> QED BY <2>1
<1>2. CASE r % 2 # 0
  <2>1. (r + 1) \div 2 \in 1..n /\ r = 2 * ((r + 1) \div 2) - 1
    BY <1>2
  <2> QED BY <2>1
<1> QED BY <1>1, <1>2

\* The places hold micro-batches of M.
Holding(n, qs, hs, out, M) ==
    /\ \A s \in 0..n : qs[s] \in Seq(M)
    /\ \A s \in 1..n : hs[s] \in Seq(M)
    /\ out \in Seq(M)

LEMMA HoldingIsLine ==
    ASSUME NEW n \in Nat, NEW qs, NEW hs, NEW out, NEW M, Holding(n, qs, hs, out, M)
    PROVE  IsLine(LineOf(n, qs, hs, out), n + n + 1, M)
<1> DEFINE line == LineOf(n, qs, hs, out)
<1>1. Named(line, n, qs, hs, out)
  BY LineNamed
<1> HIDE DEF line
<1>2. \A r \in 0..(2 * n + 1) : line[r] \in Seq(M)
  BY <1>1, PlaceNamed DEF Named, Holding
<1>3. 2 * n + 1 = n + n + 1
  OBVIOUS
<1> QED BY <1>1, <1>2, <1>3 DEF IsLine, Named, line

\* Two lines that differ in the named places only.
LEMMA SamePlaces ==
    ASSUME NEW n \in Nat, NEW qs, NEW hs, NEW out, NEW ps, NEW gs, NEW res,
           NEW r \in 0..(2 * n + 1),
           r = 2 * n + 1 => out = res,
           \A s \in 0..n : r = 2 * s => qs[s] = ps[s],
           \A s \in 1..n : r = 2 * s - 1 => hs[s] = gs[s]
    PROVE  LineOf(n, qs, hs, out)[r] = LineOf(n, ps, gs, res)[r]
<1> DEFINE line == LineOf(n, qs, hs, out)  next == LineOf(n, ps, gs, res)
<1> SUFFICES line[r] = next[r]
  OBVIOUS
<1>1. Named(line, n, qs, hs, out) /\ Named(next, n, ps, gs, res)
  BY LineNamed
<1> HIDE DEF line, next
<1>2. CASE r = 2 * n + 1
  <2>1. line[2 * n + 1] = out /\ next[2 * n + 1] = res
    BY <1>1 DEF Named
  <2> QED BY <1>2, <2>1
<1>3. CASE \E s \in 0..n : r = 2 * s
  <2>1. PICK s \in 0..n : r = 2 * s
    BY <1>3
  <2>2. line[2 * s] = qs[s] /\ next[2 * s] = ps[s]
    BY <1>1 DEF Named
  <2> QED BY <2>1, <2>2
<1>4. CASE \E s \in 1..n : r = 2 * s - 1
  <2>1. PICK s \in 1..n : r = 2 * s - 1
    BY <1>4
  <2>2. line[2 * s - 1] = hs[s] /\ next[2 * s - 1] = gs[s]
    BY <1>1 DEF Named
  <2> QED BY <2>1, <2>2
<1> QED BY <1>2, <1>3, <1>4, PlaceNamed

LEMMA ReceiveMoves ==
    ASSUME NEW n \in Nat \ {0}, NEW qs, NEW hs, NEW out, NEW M, Holding(n, qs, hs, out, M),
           NEW ps, NEW gs, NEW s \in 1..n, hs[s] = <<>>, qs[s - 1] # <<>>,
           gs[s] = <<Head(qs[s - 1])>>, ps[s - 1] = Tail(qs[s - 1]),
           \A t \in 0..n : t # s - 1 => ps[t] = qs[t],
           \A t \in 1..n : t # s => gs[t] = hs[t]
    PROVE  Moves(LineOf(n, qs, hs, out), LineOf(n, ps, gs, out), n + n + 1, M, 2 * s - 2)
<1> DEFINE line == LineOf(n, qs, hs, out)  next == LineOf(n, ps, gs, out)  r == 2 * s - 2
<1>0. n \in Nat /\ s - 1 \in 0..n /\ r = 2 * (s - 1) /\ r + 1 = 2 * s - 1 /\ n + n + 1 = 2 * n + 1
  OBVIOUS
<1>1. Named(line, n, qs, hs, out) /\ Named(next, n, ps, gs, out)
  BY LineNamed
<1>2. /\ line[r] = qs[s - 1] /\ next[r] = ps[s - 1]
      /\ line[r + 1] = hs[s] /\ next[r + 1] = gs[s]
  <2> HIDE DEF line, next
  <2> QED BY <1>0, <1>1 DEF Named
<1>3. qs[s - 1] \in Seq(M)
  BY <1>0 DEF Holding
<1>4. Head(qs[s - 1]) \in M /\ Head(qs[s - 1]) = qs[s - 1][1]
  BY <1>3
<1>5. gs[s] = Append(hs[s], Head(qs[s - 1]))
  OBVIOUS
<1>6. ASSUME NEW q \in 0..(2 * n + 1), q # r, q # r + 1 PROVE next[q] = line[q]
  <2>1. \A t \in 0..n : q = 2 * t => ps[t] = qs[t]
    BY <1>0, <1>6
  <2>2. \A t \in 1..n : q = 2 * t - 1 => gs[t] = hs[t]
    BY <1>0, <1>6
  <2>3. q \in 0..(2 * n + 1) /\ (q = 2 * n + 1 => out = out)
    BY <1>6
  <2>4. LineOf(n, ps, gs, out)[q] = LineOf(n, qs, hs, out)[q]
    BY ONLY n \in Nat, <2>1, <2>2, <2>3, SamePlaces
  <2> QED BY <2>4
<1> HIDE DEF line, next, r
<1>7. Moves(line, next, n + n + 1, M, r)
  BY <1>0, <1>2, <1>4, <1>5, <1>6 DEF Moves
<1> QED BY <1>7 DEF line, next, r

LEMMA SendMoves ==
    ASSUME NEW n \in Nat \ {0}, NEW qs, NEW hs, NEW out, NEW M, Holding(n, qs, hs, out, M),
           NEW ps, NEW gs, NEW s \in 1..n, hs[s] # <<>>, Len(hs[s]) <= 1, gs[s] = <<>>,
           NEW e \in M, e.index = hs[s][1].index, ps[s] = Append(qs[s], e),
           \A t \in 0..n : t # s => ps[t] = qs[t],
           \A t \in 1..n : t # s => gs[t] = hs[t]
    PROVE  Moves(LineOf(n, qs, hs, out), LineOf(n, ps, gs, out), n + n + 1, M, 2 * s - 1)
<1> DEFINE line == LineOf(n, qs, hs, out)  next == LineOf(n, ps, gs, out)  r == 2 * s - 1
<1>0. n \in Nat /\ s \in 0..n /\ r + 1 = 2 * s /\ n + n + 1 = 2 * n + 1
  OBVIOUS
<1>1. Named(line, n, qs, hs, out) /\ Named(next, n, ps, gs, out)
  BY LineNamed
<1>2. /\ line[r] = hs[s] /\ next[r] = gs[s]
      /\ line[r + 1] = qs[s] /\ next[r + 1] = ps[s]
  <2> HIDE DEF line, next
  <2> QED BY <1>0, <1>1 DEF Named
<1>3. hs[s] \in Seq(M)
  BY DEF Holding
<1>4. gs[s] = Tail(hs[s])
  BY <1>3
<1>6. ASSUME NEW q \in 0..(2 * n + 1), q # r, q # r + 1 PROVE next[q] = line[q]
  <2>1. \A t \in 0..n : q = 2 * t => ps[t] = qs[t]
    BY <1>0, <1>6
  <2>2. \A t \in 1..n : q = 2 * t - 1 => gs[t] = hs[t]
    BY <1>0, <1>6
  <2>3. q \in 0..(2 * n + 1) /\ (q = 2 * n + 1 => out = out)
    BY <1>6
  <2>4. LineOf(n, ps, gs, out)[q] = LineOf(n, qs, hs, out)[q]
    BY ONLY n \in Nat, <2>1, <2>2, <2>3, SamePlaces
  <2> QED BY <2>4
<1> HIDE DEF line, next, r
<1>7. Moves(line, next, n + n + 1, M, r)
  BY <1>0, <1>2, <1>4, <1>6 DEF Moves
<1> QED BY <1>7 DEF line, next, r

LEMMA CollectMoves ==
    ASSUME NEW n \in Nat \ {0}, NEW qs, NEW hs, NEW out, NEW M, Holding(n, qs, hs, out, M),
           NEW ps, NEW res, qs[n] # <<>>,
           res = Append(out, Head(qs[n])), ps[n] = Tail(qs[n]),
           \A t \in 0..n : t # n => ps[t] = qs[t]
    PROVE  Moves(LineOf(n, qs, hs, out), LineOf(n, ps, hs, res), n + n + 1, M, 2 * n)
<1> DEFINE line == LineOf(n, qs, hs, out)  next == LineOf(n, ps, hs, res)  r == 2 * n
<1>0. n \in Nat /\ n \in 0..n /\ n + n + 1 = 2 * n + 1
  OBVIOUS
<1>1. Named(line, n, qs, hs, out) /\ Named(next, n, ps, hs, res)
  BY LineNamed
<1>2. line[r] = qs[n] /\ next[r] = ps[n] /\ line[r + 1] = out /\ next[r + 1] = res
  <2> HIDE DEF line, next
  <2> QED BY <1>0, <1>1 DEF Named
<1>3. qs[n] \in Seq(M)
  BY <1>0 DEF Holding
<1>4. Head(qs[n]) \in M /\ Head(qs[n]) = qs[n][1]
  BY <1>3
<1>6. ASSUME NEW q \in 0..(2 * n + 1), q # r, q # r + 1 PROVE next[q] = line[q]
  <2>1. \A t \in 0..n : q = 2 * t => t # n
    BY <1>0, <1>6
  <2>2. q # 2 * n + 1
    BY <1>6
  <2> QED BY <1>0, <2>1, <2>2, SamePlaces
<1> HIDE DEF line, next, r
<1>7. Moves(line, next, n + n + 1, M, r)
  BY <1>0, <1>2, <1>4, <1>6 DEF Moves
<1> QED BY <1>7 DEF line, next, r

\* Every micro-batch in a channel, in a hand or among the results is of the present
\* call and was fed, and those past the last stage are its results.
PlacesInv ==
    /\ fed \in 0..Batches /\ running \subseteq 1..Stages
    /\ queues \in [0..Stages -> Seq(Micro(call, fed))]
    /\ queues[Stages] \in Seq(MicroBy(call, fed, Stages))
    /\ results \in Seq(MicroBy(call, fed, Stages))
    /\ call > 0 => /\ hand \in [1..Stages -> Seq(Micro(call, fed))]
                   /\ \A s \in 1..Stages : Len(hand[s]) <= 1

\* How far the call has come; one that returned leaves the channels empty.
PhaseInv ==
    /\ phase # "idle" => call > 0
    /\ phase = "idle" => running = {} /\ \A s \in 0..Stages : queues[s] = <<>>
    /\ phase = "feed" => fed < Batches
    /\ phase \in {"collect", "wait"} => fed = Batches

OrderInv == call > 0 => Ordered(Line) /\ (~cancelled => Held(Line) = 1..fed)

\* All of it while no call has failed.
PipeInv ==
    /\ old = {}
    /\ kind = "none" => fed = 0 /\ results = <<>>
    /\ kind = "pipeline" => PlacesInv /\ PhaseInv /\ OrderInv /\ ResultsComplete

LEMMA SeqMono ==
    ASSUME NEW S, NEW T, S \subseteq T, NEW q \in Seq(S)
    PROVE  q \in Seq(T)
<1>1. Len(q) \in Nat /\ q \in [1..Len(q) -> S]
  BY LenProperties
<1>2. q \in [1..Len(q) -> T]
  BY <1>1
<1> QED BY <1>1, <1>2, SeqDef

\* More fed is more that may be held, and a stage's result is one of them.
LEMMA MicroGrows ==
    ASSUME NEW c, NEW a \in Nat, NEW b \in Nat, a <= b, NEW s \in Nat, NEW q
    PROVE  /\ q \in Seq(Micro(c, a)) => q \in Seq(Micro(c, b))
           /\ q \in Seq(MicroBy(c, a, s)) => q \in Seq(MicroBy(c, b, s)) /\ q \in Seq(Micro(c, b))
<1>1. Micro(c, a) \subseteq Micro(c, b)
  BY DEF Micro
<1>2. MicroBy(c, a, s) \subseteq MicroBy(c, b, s)
  BY DEF MicroBy
<1>3. MicroBy(c, a, s) \subseteq Micro(c, b)
  BY DEF Micro, MicroBy
<1> QED BY <1>1, <1>2, <1>3, SeqMono

\* Increasing numbers that fill 1..k count up to k.
LEMMA IncreasingCounts ==
    ASSUME NEW k \in Nat, NEW f, \A i \in 1..k : f[i] \in 1..k,
           \A i, j \in 1..k : i < j => f[i] < f[j]
    PROVE  \A i \in 1..k : f[i] = i
<1> DEFINE L == {i \in Nat : i \in 1..k => f[i] >= i}
           U == {d \in Nat : k - d \in 1..k => f[k - d] <= k - d}
<1>1. Nat \subseteq L
  <2>1. 0 \in L
    OBVIOUS
  <2>2. ASSUME NEW i \in Nat, i \in L PROVE i + 1 \in L
    <3>1. CASE i = 0
      BY <3>1
    <3>2. CASE i # 0 /\ i + 1 \in 1..k
      <4>1. i \in 1..k /\ f[i] < f[i + 1] /\ f[i] >= i /\ f[i] \in 1..k /\ f[i + 1] \in 1..k
        BY <2>2, <3>2
      <4> QED BY <4>1
    <3> QED BY <3>1, <3>2
  <2> HIDE DEF L
  <2> QED BY <2>1, <2>2, NatSetInduction
<1>2. Nat \subseteq U
  <2>1. 0 \in U
    OBVIOUS
  <2>2. ASSUME NEW d \in Nat, d \in U PROVE d + 1 \in U
    <3>1. CASE k - (d + 1) \in 1..k
      <4> DEFINE x == k - (d + 1)
      <4>1. x \in 1..k /\ k - d \in 1..k /\ x < k - d /\ x = (k - d) - 1
        BY <3>1
      <4>2. f[x] < f[k - d] /\ f[k - d] <= k - d /\ f[x] \in 1..k /\ f[k - d] \in 1..k
        BY <2>2, <4>1
      <4>3. f[x] <= x
        BY <4>1, <4>2
      <4> QED BY <4>3
    <3> QED BY <3>1
  <2> HIDE DEF U
  <2> QED BY <2>1, <2>2, NatSetInduction
<1>3. ASSUME NEW i \in 1..k PROVE f[i] = i
  <2>1. f[i] >= i
    BY <1>1
  <2>2. k - i \in U /\ k - (k - i) = i
    BY <1>2
  <2>3. f[i] <= i
    BY <2>2
  <2> QED BY <2>1, <2>3
<1> QED BY <1>3

\* Results in order, as many as there are batches, are the results of them all.
LEMMA OrderedIsComplete ==
    ASSUME NEW c, NEW k \in Nat, NEW s \in Nat, NEW q \in Seq(MicroBy(c, k, s)), Len(q) = k,
           \A i, j \in DOMAIN q : i < j => q[i].index < q[j].index
    PROVE  q = [i \in 1..k |-> [call |-> c, index |-> i, by |-> s]]
<1> DEFINE f == [i \in 1..k |-> q[i].index]
<1>1. q \in [1..k -> MicroBy(c, k, s)]
  BY LenProperties
<1>2. \A i \in 1..k : f[i] \in 1..k /\ q[i] = [call |-> c, index |-> q[i].index, by |-> s]
  BY <1>1 DEF MicroBy
<1>3. \A i, j \in 1..k : i < j => f[i] < f[j]
  BY <1>1
<1> HIDE DEF f
<1>4. \A i \in 1..k : f[i] = i
  BY <1>2, <1>3, IncreasingCounts
<1>5. \A i \in 1..k : q[i] = [call |-> c, index |-> i, by |-> s]
  BY <1>2, <1>4 DEF f
<1> QED BY <1>1, <1>5

\* What the steps of a pipeline rest on.
LEMMA PipeFacts ==
    ASSUME cfg \in Configs, PipeInv, kind = "pipeline"
    PROVE  /\ Stages \in Nat \ {0} /\ Batches \in Nat \ {0}
           /\ PlacesInv /\ PhaseInv /\ OrderInv /\ ResultsComplete
<1>1. Stages \in Nat \ {0} /\ Batches \in Nat \ {0}
  BY CfgFacts, ShapeFits DEF Stages, Batches
<1> QED BY <1>1 DEF PipeInv

LEMMA LineIs == Line = LineOf(Stages, queues, hand, results)
BY DEF Line, LineOf

LEMMA PlacesHold ==
    ASSUME Stages \in Nat \ {0}, PlacesInv, call > 0
    PROVE  Holding(Stages, queues, hand, results, Micro(call, fed))
<1>1. \A s \in 0..Stages : queues[s] \in Seq(Micro(call, fed))
  BY DEF PlacesInv
<1>2. \A s \in 1..Stages : hand[s] \in Seq(Micro(call, fed))
  BY DEF PlacesInv
<1>3. results \in Seq(Micro(call, fed))
  <2>1. fed \in Nat /\ Stages \in Nat /\ results \in Seq(MicroBy(call, fed, Stages))
    BY DEF PlacesInv, Batches
  <2> QED BY <2>1, MicroGrows
<1> QED BY <1>1, <1>2, <1>3 DEF Holding

\* A step that moves one micro-batch along the line keeps it in order.
LEMMA MoveStep ==
    ASSUME Stages \in Nat \ {0}, PlacesInv, OrderInv, call > 0,
           UNCHANGED <<cfg, call, cancelled, fed>>,
           NEW r \in 0..(2 * Stages),
           Moves(LineOf(Stages, queues, hand, results),
                 LineOf(Stages, queues', hand', results'), Stages + Stages + 1, Micro(call, fed), r)
    PROVE  OrderInv'
<1> DEFINE n == Stages + Stages + 1  M == Micro(call, fed)
           line == LineOf(Stages, queues, hand, results)
           next == LineOf(Stages, queues', hand', results')
<1>1. n \in Nat /\ r \in 0..(n - 1) /\ 2 * Stages + 1 = n
  OBVIOUS
<1>2. IsLine(line, n, M) /\ Ordered(line) /\ (~cancelled => Held(line) = 1..fed)
  <2>1. Stages \in Nat /\ Holding(Stages, queues, hand, results, M)
    BY PlacesHold
  <2>2. IsLine(line, n, M)
    BY <2>1, HoldingIsLine
  <2> QED BY <2>2, LineIs DEF OrderInv
<1>3. DOMAIN next = 0..n
  BY <1>1 DEF LineOf
<1>4. Moves(line, next, n, M, r)
  OBVIOUS
<1>5. Line' = next
  BY DEF Line, LineOf, Stages
<1> HIDE DEF line, next, n, M
<1>6. Ordered(next) /\ Held(next) = Held(line)
  BY <1>1, <1>2, <1>3, <1>4, MoveKeepsOrder, MoveKeepsHeld
<1> QED BY <1>2, <1>5, <1>6 DEF OrderInv

LEMMA ReceiveStep ==
    ASSUME cfg \in Configs, call \in Nat, PipeInv, kind = "pipeline", NEW s \in 1..Stages, Receive(s)
    PROVE  PipeInv'
<1> DEFINE M == Micro(call, fed)
<1>0. /\ Stages \in Nat \ {0} /\ Batches \in Nat \ {0}
      /\ PlacesInv /\ PhaseInv /\ OrderInv /\ ResultsComplete
  BY PipeFacts
<1>1. /\ UNCHANGED <<kind, cfg, call, cancelled, phase, running, fed, results, old>>
      /\ Stages' = Stages /\ Batches' = Batches
      /\ s \in running /\ hand[s] = <<>> /\ queues[s - 1] # <<>>
      /\ hand' = [hand EXCEPT ![s] = <<Head(queues[s - 1])>>]
      /\ queues' = [queues EXCEPT ![s - 1] = Tail(queues[s - 1])]
  BY DEF Receive, leftover, Stages, Batches
<1>2. call > 0 /\ phase # "idle"
  BY <1>0, <1>1 DEF PhaseInv
<1>3. /\ queues \in [0..Stages -> Seq(M)] /\ hand \in [1..Stages -> Seq(M)]
      /\ s - 1 \in 0..Stages /\ queues[s - 1] \in Seq(M)
  BY <1>0, <1>2 DEF PlacesInv
<1>4. /\ Head(queues[s - 1]) \in M /\ Tail(queues[s - 1]) \in Seq(M)
      /\ <<Head(queues[s - 1])>> \in Seq(M) /\ Len(<<Head(queues[s - 1])>>) = 1
  BY <1>1, <1>3
<1>5. /\ hand'[s] = <<Head(queues[s - 1])>> /\ queues'[s - 1] = Tail(queues[s - 1])
      /\ \A t \in 0..Stages : t # s - 1 => queues'[t] = queues[t]
      /\ \A t \in 1..Stages : t # s => hand'[t] = hand[t]
  BY <1>1, <1>3
<1>6. PlacesInv'
  <2>1. queues' \in [0..Stages -> Seq(M)] /\ hand' \in [1..Stages -> Seq(M)]
    BY <1>1, <1>3, <1>4
  <2>2. ASSUME NEW t \in 1..Stages PROVE Len(hand'[t]) <= 1
    <3>1. Len(hand[t]) <= 1
      BY <1>0, <1>2 DEF PlacesInv
    <3>2. CASE t = s
      <4>1. hand'[t] = <<Head(queues[s - 1])>>
        BY <1>5, <3>2
      <4>2. Len(hand'[t]) = 1
        BY <1>4, <4>1, Zenon
      <4> QED BY <4>2
    <3>3. CASE t # s
      BY <1>5, <3>1, <3>3
    <3> QED BY <3>2, <3>3
  <2>3. queues'[Stages] = queues[Stages]
    BY <1>0, <1>5
  <2> QED BY <1>0, <1>1, <2>1, <2>2, <2>3 DEF PlacesInv
<1>7. PhaseInv'
  BY <1>0, <1>1, <1>2 DEF PhaseInv
<1>8. OrderInv'
  <2>1. Holding(Stages, queues, hand, results, M)
    BY <1>0, <1>2, PlacesHold
  <2> HIDE DEF M
  <2>2. Moves(LineOf(Stages, queues, hand, results), LineOf(Stages, queues', hand', results),
              Stages + Stages + 1, M, 2 * s - 2)
    BY <1>0, <1>1, <1>5, <2>1, ReceiveMoves
  <2>3. 2 * s - 2 \in 0..(2 * Stages)
    BY <1>0
  <2> QED BY <1>0, <1>1, <1>2, <2>2, <2>3, MoveStep DEF M
<1>9. ResultsComplete'
  BY <1>0, <1>1 DEF ResultsComplete
<1> QED BY <1>1, <1>6, <1>7, <1>8, <1>9 DEF PipeInv

LEMMA SendStep ==
    ASSUME cfg \in Configs, call \in Nat, PipeInv, kind = "pipeline", NEW s \in 1..Stages, Send(s)
    PROVE  PipeInv'
<1> DEFINE M == Micro(call, fed)  e == [hand[s][1] EXCEPT !.by = s]
<1>0. /\ Stages \in Nat \ {0} /\ Batches \in Nat \ {0}
      /\ PlacesInv /\ PhaseInv /\ OrderInv /\ ResultsComplete
  BY PipeFacts
<1>1. /\ UNCHANGED <<kind, cfg, call, cancelled, phase, running, fed, results, old>>
      /\ Stages' = Stages /\ Batches' = Batches
      /\ s \in running /\ hand[s] # <<>>
      /\ hand' = [hand EXCEPT ![s] = <<>>]
      /\ queues' = [queues EXCEPT ![s] = Append(queues[s], e)]
  BY DEF Send, OutQueue, leftover, Stages, Batches
<1>2. call > 0 /\ phase # "idle"
  BY <1>0, <1>1 DEF PhaseInv
<1>3. /\ queues \in [0..Stages -> Seq(M)] /\ hand \in [1..Stages -> Seq(M)]
      /\ s \in 0..Stages /\ queues[s] \in Seq(M) /\ hand[s] \in Seq(M) /\ Len(hand[s]) <= 1
  BY <1>0, <1>2 DEF PlacesInv
<1>4. e \in M /\ e \in MicroBy(call, fed, s) /\ e.index = hand[s][1].index
  <2>1. hand[s][1] \in M
    BY <1>1, <1>3
  <2> QED BY <2>1 DEF Micro, MicroBy
<1> HIDE DEF e
<1>5. /\ hand'[s] = <<>> /\ queues'[s] = Append(queues[s], e)
      /\ \A t \in 0..Stages : t # s => queues'[t] = queues[t]
      /\ \A t \in 1..Stages : t # s => hand'[t] = hand[t]
  BY <1>1, <1>3
<1>6. PlacesInv'
  <2>1. queues' \in [0..Stages -> Seq(M)] /\ hand' \in [1..Stages -> Seq(M)]
    <3>1. Append(queues[s], e) \in Seq(M) /\ <<>> \in Seq(M)
      BY <1>3, <1>4, AppendProperties
    <3> QED BY <1>1, <1>3, <3>1
  <2>2. ASSUME NEW t \in 1..Stages PROVE Len(hand'[t]) <= 1
    <3>1. Len(hand[t]) <= 1
      BY <1>0, <1>2 DEF PlacesInv
    <3>2. CASE t = s
      BY <1>5, <3>2
    <3>3. CASE t # s
      BY <1>5, <3>1, <3>3
    <3> QED BY <3>2, <3>3
  <2>3. queues'[Stages] \in Seq(MicroBy(call, fed, Stages))
    <3>1. CASE s = Stages
      <4>1. Append(queues[s], e) \in Seq(MicroBy(call, fed, s))
        BY <1>0, <1>4, <3>1, AppendProperties DEF PlacesInv
      <4> QED BY <1>5, <3>1, <4>1
    <3>2. CASE s # Stages
      <4>1. Stages \in 0..Stages
        BY <1>0
      <4>2. queues'[Stages] = queues[Stages]
        BY <1>5, <3>2, <4>1
      <4> QED BY <1>0, <4>2 DEF PlacesInv
    <3> QED BY <3>1, <3>2
  <2> QED BY <1>0, <1>1, <2>1, <2>2, <2>3 DEF PlacesInv
<1>7. PhaseInv'
  BY <1>0, <1>1, <1>2 DEF PhaseInv
<1>8. OrderInv'
  <2>1. Holding(Stages, queues, hand, results, M)
    BY <1>0, <1>2, PlacesHold
  <2> HIDE DEF M
  <2>2. Moves(LineOf(Stages, queues, hand, results), LineOf(Stages, queues', hand', results),
              Stages + Stages + 1, M, 2 * s - 1)
    BY <1>0, <1>1, <1>3, <1>4, <1>5, <2>1, SendMoves
  <2>3. 2 * s - 1 \in 0..(2 * Stages)
    BY <1>0
  <2> QED BY <1>0, <1>1, <1>2, <2>2, <2>3, MoveStep DEF M
<1>9. ResultsComplete'
  BY <1>0, <1>1 DEF ResultsComplete
<1> QED BY <1>1, <1>6, <1>7, <1>8, <1>9 DEF PipeInv

\* The results are in order, and before whatever is still in a channel.
LEMMA OrderedResults ==
    ASSUME NEW n \in Nat, NEW qs, NEW hs, NEW out, Ordered(LineOf(n, qs, hs, out))
    PROVE  /\ \A i, j \in DOMAIN out : i < j => out[i].index < out[j].index
           /\ \A s \in 0..n : \A i \in DOMAIN out, j \in DOMAIN qs[s] : out[i].index < qs[s][j].index
<1> DEFINE line == LineOf(n, qs, hs, out)  last == 2 * n + 1
<1>1. Named(line, n, qs, hs, out) /\ Ordered(line)
  BY LineNamed
<1> HIDE DEF line
<1>2. last \in DOMAIN line /\ line[last] = out /\ last \in Nat
  BY <1>1 DEF Named
<1>3. \A i, j \in DOMAIN out : i < j => out[i].index < out[j].index
  BY <1>1, <1>2 DEF Ordered
<1>4. ASSUME NEW s \in 0..n, NEW i \in DOMAIN out, NEW j \in DOMAIN qs[s]
      PROVE  out[i].index < qs[s][j].index
  <2>1. 2 * s \in DOMAIN line /\ line[2 * s] = qs[s] /\ 2 * s < last
    BY <1>1 DEF Named
  <2> HIDE DEF last
  <2> QED BY <1>1, <1>2, <2>1 DEF Ordered
<1> QED BY <1>3, <1>4

LEMMA CollectStep ==
    ASSUME cfg \in Configs, call \in Nat, PipeInv, kind = "pipeline", Collect
    PROVE  PipeInv'
<1> DEFINE M == Micro(call, fed)  B == MicroBy(call, fed, Stages)  last == queues[Stages]
<1>0. /\ Stages \in Nat \ {0} /\ Batches \in Nat \ {0}
      /\ PlacesInv /\ PhaseInv /\ OrderInv /\ ResultsComplete
  BY PipeFacts
<1>1. /\ UNCHANGED <<kind, cfg, call, cancelled, running, hand, fed, old>>
      /\ Stages' = Stages /\ Batches' = Batches
      /\ phase = "collect" /\ last # <<>>
      /\ results' = Append(results, Head(last))
      /\ queues' = [queues EXCEPT ![Stages] = Tail(last)]
      /\ phase' = IF Len(results') = Batches THEN "wait" ELSE "collect"
  BY DEF Collect, AllCollected, leftover, Stages, Batches
<1>2. call > 0 /\ fed = Batches
  BY <1>0, <1>1 DEF PhaseInv
<1>3. /\ queues \in [0..Stages -> Seq(M)] /\ Stages \in 0..Stages
      /\ last \in Seq(M) /\ last \in Seq(B) /\ results \in Seq(B)
  BY <1>0 DEF PlacesInv
<1>4. Head(last) \in B /\ Tail(last) \in Seq(B) /\ Tail(last) \in Seq(M)
  BY <1>1, <1>3
<1>5. /\ queues'[Stages] = Tail(last)
      /\ \A t \in 0..Stages : t # Stages => queues'[t] = queues[t]
  BY <1>1, <1>3
<1>6. PlacesInv'
  <2>1. queues' \in [0..Stages -> Seq(M)]
    BY <1>1, <1>3, <1>4
  <2>2. results' \in Seq(B)
    <3>1. Append(results, Head(last)) \in Seq(B)
      BY <1>3, <1>4, AppendProperties
    <3> QED BY <1>1, <3>1
  <2>3. queues'[Stages] \in Seq(B)
    BY <1>4, <1>5
  <2> QED BY <1>0, <1>1, <2>1, <2>2, <2>3 DEF PlacesInv
<1>7. PhaseInv'
  BY <1>0, <1>1, <1>2 DEF PhaseInv
<1>8. OrderInv'
  <2>1. Holding(Stages, queues, hand, results, M)
    BY <1>0, <1>2, PlacesHold
  <2> HIDE DEF M
  <2>2. Moves(LineOf(Stages, queues, hand, results), LineOf(Stages, queues', hand, results'),
              Stages + Stages + 1, M, 2 * Stages)
    BY <1>0, <1>1, <1>5, <2>1, CollectMoves
  <2>3. 2 * Stages \in 0..(2 * Stages)
    BY <1>0
  <2> QED BY <1>0, <1>1, <1>2, <2>2, <2>3, MoveStep DEF M
<1>9. ResultsComplete'
  <2> SUFFICES ASSUME phase' = "wait"
               PROVE  results' = [i \in 1..Batches |-> [call |-> call, index |-> i, by |-> Stages]]
    BY <1>1 DEF ResultsComplete
  <2>1. Ordered(LineOf(Stages, queues', hand', results'))
    <3>1. Line' = LineOf(Stages, queues', hand', results')
      BY <1>1 DEF Line, LineOf
    <3> QED BY <1>1, <1>2, <1>8, <3>1 DEF OrderInv
  <2>2. \A i, j \in DOMAIN results' : i < j => results'[i].index < results'[j].index
    BY <1>0, <2>1, OrderedResults
  <2>3. results' \in Seq(MicroBy(call, Batches, Stages)) /\ Len(results') = Batches
    BY <1>1, <1>2, <1>6 DEF PlacesInv
  <2> QED BY <1>0, <2>2, <2>3, OrderedIsComplete
<1> QED BY <1>1, <1>6, <1>7, <1>8, <1>9 DEF PipeInv

\* A stage that returns drops what it holds, which leaves the rest in order.
LEMMA DropKeepsOrder ==
    ASSUME NEW line, NEW next, DOMAIN next = DOMAIN line, Ordered(line),
           \A q \in DOMAIN line : next[q] = line[q] \/ next[q] = <<>>
    PROVE  Ordered(next)
<1> SUFFICES ASSUME NEW r \in DOMAIN next, NEW q \in DOMAIN next,
                    NEW i \in DOMAIN next[r], NEW j \in DOMAIN next[q],
                    q < r \/ (q = r /\ i < j)
             PROVE  next[r][i].index < next[q][j].index
  BY DEF Ordered
<1>1. next[r] = line[r] /\ next[q] = line[q]
  OBVIOUS
<1> QED BY <1>1 DEF Ordered

LEMMA LeaveStep ==
    ASSUME cfg \in Configs, call \in Nat, PipeInv, kind = "pipeline", NEW s \in 1..Stages, Leave(s)
    PROVE  PipeInv'
<1> DEFINE M == Micro(call, fed)
<1>0. /\ Stages \in Nat \ {0} /\ Batches \in Nat \ {0}
      /\ PlacesInv /\ PhaseInv /\ OrderInv /\ ResultsComplete
  BY PipeFacts
<1>1. /\ UNCHANGED <<kind, cfg, call, cancelled, phase, queues, fed, results, old>>
      /\ Stages' = Stages /\ Batches' = Batches
      /\ s \in running /\ cancelled /\ running' = running \ {s}
      /\ hand' = [hand EXCEPT ![s] = <<>>]
  BY DEF Leave, leftover, Stages, Batches
<1>2. call > 0 /\ phase # "idle"
  BY <1>0, <1>1 DEF PhaseInv
<1>3. hand \in [1..Stages -> Seq(M)] /\ <<>> \in Seq(M)
  BY <1>0, <1>2 DEF PlacesInv
<1>4. hand'[s] = <<>> /\ \A t \in 1..Stages : t # s => hand'[t] = hand[t]
  BY <1>1, <1>3
<1>5. PlacesInv'
  <2>1. hand' \in [1..Stages -> Seq(M)]
    BY <1>1, <1>3
  <2>2. ASSUME NEW t \in 1..Stages PROVE Len(hand'[t]) <= 1
    <3>1. Len(hand[t]) <= 1
      BY <1>0, <1>2 DEF PlacesInv
    <3>2. CASE t = s
      BY <1>4, <3>2
    <3>3. CASE t # s
      BY <1>4, <3>1, <3>3
    <3> QED BY <3>2, <3>3
  <2> QED BY <1>0, <1>1, <2>1, <2>2 DEF PlacesInv
<1>6. PhaseInv'
  BY <1>0, <1>1, <1>2 DEF PhaseInv
<1>7. OrderInv'
  <2> DEFINE line == LineOf(Stages, queues, hand, results)
             next == LineOf(Stages, queues, hand', results)
  <2>1. Line = line /\ Line' = next
    BY <1>1 DEF Line, LineOf
  <2>2. Ordered(line) /\ Stages \in Nat
    BY <1>0, <1>2, <2>1 DEF OrderInv
  <2>3. Named(line, Stages, queues, hand, results) /\ Named(next, Stages, queues, hand', results)
    BY <2>2, LineNamed
  <2>4. ASSUME NEW q \in 0..(2 * Stages + 1) PROVE next[q] = line[q] \/ next[q] = <<>>
    <3>1. CASE q = 2 * s - 1
      <4> HIDE DEF next
      <4>1. next[2 * s - 1] = hand'[s]
        BY <2>3 DEF Named
      <4> QED BY <1>4, <3>1, <4>1
    <3>2. CASE q # 2 * s - 1
      <4>1. \A t \in 1..Stages : q = 2 * t - 1 => hand'[t] = hand[t]
        BY <1>4, <3>2
      <4>2. LineOf(Stages, queues, hand', results)[q] = LineOf(Stages, queues, hand, results)[q]
        BY <2>2, <4>1, SamePlaces
      <4> QED BY <4>2
    <3> QED BY <3>1, <3>2
  <2> HIDE DEF line, next
  <2>5. Ordered(next)
    BY <2>2, <2>3, <2>4, DropKeepsOrder DEF Named
  <2> QED BY <1>1, <2>1, <2>5 DEF OrderInv
<1>8. ResultsComplete'
  BY <1>0, <1>1 DEF ResultsComplete
<1> QED BY <1>1, <1>5, <1>6, <1>7, <1>8 DEF PipeInv

\* Feeding puts the next index behind all others.
LEMMA FeedKeepsOrder ==
    ASSUME NEW n \in Nat, NEW M, NEW line, IsLine(line, n, M), Ordered(line), NEW k \in Nat,
           \A x \in M : x.index \in 1..k,
           NEW next, DOMAIN next = 0..n, NEW e, e.index = k + 1,
           next[0] = Append(line[0], e), \A q \in 1..n : next[q] = line[q]
    PROVE  Ordered(next) /\ Held(next) = Held(line) \cup {k + 1}
<1>0. DOMAIN line = 0..n /\ 0 \in 0..n /\ \A q \in 0..n : line[q] \in Seq(M)
  BY DEF IsLine
<1>1. /\ line[0] \in Seq(M) /\ Len(line[0]) \in Nat /\ DOMAIN line[0] = 1..Len(line[0])
      /\ DOMAIN next[0] = 1..(Len(line[0]) + 1)
      /\ next[0][Len(line[0]) + 1] = e
      /\ \A i \in 1..Len(line[0]) : next[0][i] = line[0][i]
  <2>1. line[0] \in Seq(M)
    BY <1>0
  <2>2. Append(line[0], e) \in Seq(M \cup {e})
    <3>1. line[0] \in Seq(M \cup {e})
      BY <2>1, SeqMono
    <3> QED BY <3>1
  <2> QED BY <2>1, <2>2
<1>2. ASSUME NEW q \in 0..n, NEW i \in DOMAIN next[q]
      PROVE  \/ q = 0 /\ i = Len(line[0]) + 1 /\ next[q][i].index = k + 1
             \/ /\ i \in DOMAIN line[q] /\ next[q][i] = line[q][i] /\ next[q][i].index \in 1..k
                /\ q = 0 => i \in 1..Len(line[0])
  <2>1. CASE q = 0 /\ i = Len(line[0]) + 1
    BY <1>1, <2>1
  <2>2. CASE q = 0 /\ i # Len(line[0]) + 1
    <3>1. i \in 1..Len(line[0]) /\ line[0][i] \in M
      BY <1>1, <2>2
    <3> QED BY <1>1, <2>2, <3>1
  <2>3. CASE q # 0
    <3>1. next[q] = line[q] /\ i \in DOMAIN line[q]
      BY <2>3
    <3>2. line[q][i] \in M
      BY <1>0, <3>1
    <3> QED BY <2>3, <3>1, <3>2
  <2> QED BY <2>1, <2>2, <2>3
<1>3. ASSUME NEW r \in 0..n, NEW q \in 0..n, NEW i \in DOMAIN next[r], NEW j \in DOMAIN next[q],
             q < r \/ (q = r /\ i < j)
      PROVE  next[r][i].index < next[q][j].index
  <2>1. CASE q = 0 /\ j = Len(line[0]) + 1
    <3>1. ~(r = 0 /\ i = Len(line[0]) + 1)
      BY <1>1, <1>3, <2>1
    <3>2. next[r][i].index \in 1..k
      BY <1>2, <3>1
    <3>3. next[q][j].index = k + 1
      BY <1>1, <2>1
    <3> QED BY <3>2, <3>3
  <2>2. CASE ~(q = 0 /\ j = Len(line[0]) + 1)
    <3>1. j \in DOMAIN line[q] /\ next[q][j] = line[q][j] /\ (q = 0 => j \in 1..Len(line[0]))
      BY <1>2, <2>2
    <3>2. ~(r = 0 /\ i = Len(line[0]) + 1)
      BY <1>1, <1>3, <3>1
    <3>3. i \in DOMAIN line[r] /\ next[r][i] = line[r][i]
      BY <1>2, <3>2
    <3>4. line[r][i].index < line[q][j].index
      BY <1>0, <1>3, <3>1, <3>3 DEF Ordered
    <3> QED BY <3>1, <3>3, <3>4
  <2> QED BY <2>1, <2>2
<1>4. Ordered(next)
  BY <1>3 DEF Ordered
<1>5. ASSUME NEW x \in Held(next) PROVE x \in Held(line) \cup {k + 1}
  <2>1. PICK q \in 0..n : \E i \in DOMAIN next[q] : x = next[q][i].index
    BY HeldIs
  <2>2. PICK i \in DOMAIN next[q] : x = next[q][i].index
    BY <2>1
  <2>3. x = k + 1 \/ (i \in DOMAIN line[q] /\ x = line[q][i].index)
    BY <1>2, <2>2
  <2> QED BY <1>0, <2>3, HeldIs
<1>6. ASSUME NEW x \in Held(line) PROVE x \in Held(next)
  <2>1. PICK q \in 0..n : \E i \in DOMAIN line[q] : x = line[q][i].index
    BY <1>0, HeldIs
  <2>2. PICK i \in DOMAIN line[q] : x = line[q][i].index
    BY <2>1
  <2>3. i \in DOMAIN next[q] /\ next[q][i] = line[q][i]
    <3>1. CASE q = 0
      <4>1. i \in 1..Len(line[0])
        BY <1>1, <2>2, <3>1
      <4> QED BY <1>1, <3>1, <4>1
    <3>2. CASE q # 0
      BY <2>2, <3>2
    <3> QED BY <3>1, <3>2
  <2> QED BY <2>2, <2>3, HeldIs
<1>7. k + 1 \in Held(next)
  <2>1. Len(line[0]) + 1 \in DOMAIN next[0]
    BY <1>1
  <2> QED BY <1>0, <1>1, <2>1, HeldIs
<1> QED BY <1>4, <1>5, <1>6, <1>7

LEMMA SameButFirst ==
    ASSUME NEW n \in Nat, NEW qs, NEW ps, NEW hs, NEW out, NEW q \in 1..(n + n + 1),
           \A t \in 0..n : t # 0 => ps[t] = qs[t]
    PROVE  LineOf(n, ps, hs, out)[q] = LineOf(n, qs, hs, out)[q]
<1>1. q \in 0..(2 * n + 1)
  OBVIOUS
<1>2. q # 2 * n + 1 /\ q % 2 = 0 => q \div 2 \in 0..n /\ q \div 2 # 0
  OBVIOUS
<1> QED BY <1>1, <1>2 DEF LineOf

LEMMA FeedStep ==
    ASSUME cfg \in Configs, call \in Nat, PipeInv, kind = "pipeline", Feed
    PROVE  PipeInv'
<1> DEFINE e == [call |-> call, index |-> fed + 1, by |-> 0]
           M == Micro(call, fed)  N == Micro(call, fed + 1)
<1>0. /\ Stages \in Nat \ {0} /\ Batches \in Nat \ {0} /\ fed \in Nat
      /\ PlacesInv /\ PhaseInv /\ OrderInv /\ ResultsComplete
  BY PipeFacts DEF PlacesInv
<1>1. /\ UNCHANGED <<kind, cfg, call, cancelled, running, hand, results, old>>
      /\ Stages' = Stages /\ Batches' = Batches
      /\ phase = "feed" /\ fed < Batches /\ fed' = fed + 1
      /\ queues' = [queues EXCEPT ![0] = Append(queues[0], e)]
      /\ phase' = IF fed' = Batches THEN "collect" ELSE "feed"
  BY DEF Feed, leftover, Stages, Batches
<1>2. call > 0
  BY <1>0, <1>1 DEF PhaseInv
<1>3. /\ queues \in [0..Stages -> Seq(M)] /\ hand \in [1..Stages -> Seq(M)] /\ 0 \in 0..Stages
      /\ 0 # Stages
  BY <1>0, <1>2 DEF PlacesInv
<1>4. e \in N /\ e.index = fed + 1
  BY <1>0 DEF Micro
<1> HIDE DEF e
<1>5. queues'[0] = Append(queues[0], e) /\ \A t \in 0..Stages : t # 0 => queues'[t] = queues[t]
  BY <1>1, <1>3
<1>6. PlacesInv'
  <2>1. /\ \A q : q \in Seq(M) => q \in Seq(N)
        /\ \A q : q \in Seq(MicroBy(call, fed, Stages)) => q \in Seq(MicroBy(call, fed + 1, Stages))
    <3>1. fed + 1 \in Nat /\ fed <= fed + 1 /\ Stages \in Nat
      BY <1>0
    <3>2. ASSUME NEW q
          PROVE  /\ q \in Seq(Micro(call, fed)) => q \in Seq(Micro(call, fed + 1))
                 /\ q \in Seq(MicroBy(call, fed, Stages))
                       => q \in Seq(MicroBy(call, fed + 1, Stages))
      BY <1>0, <3>1, MicroGrows, Zenon
    <3> QED BY <3>2
  <2>2. \A t \in 0..Stages : queues[t] \in Seq(N)
    BY <1>3, <2>1
  <2>3. Append(queues[0], e) \in Seq(N)
    BY <1>3, <1>4, <2>2, AppendProperties
  <2>4. queues' \in [0..Stages -> Seq(N)]
    BY <1>1, <1>3, <2>2, <2>3
  <2>5. hand \in [1..Stages -> Seq(N)]
    BY <1>3, <2>1
  <2>6. queues'[Stages] = queues[Stages]
    BY <1>0, <1>3, <1>5
  <2>7. /\ queues'[Stages] \in Seq(MicroBy(call, fed + 1, Stages))
        /\ results \in Seq(MicroBy(call, fed + 1, Stages))
    BY <1>0, <2>1, <2>6 DEF PlacesInv
  <2>8. fed + 1 \in 0..Batches /\ running \subseteq 1..Stages /\ \A s \in 1..Stages : Len(hand[s]) <= 1
    BY <1>0, <1>1, <1>2 DEF PlacesInv
  <2> QED BY <1>1, <2>4, <2>5, <2>7, <2>8 DEF PlacesInv
<1>7. PhaseInv'
  BY <1>0, <1>1, <1>2 DEF PhaseInv
<1>8. OrderInv'
  <2> DEFINE n == Stages + Stages + 1
             line == LineOf(Stages, queues, hand, results)
             next == LineOf(Stages, queues', hand, results)
  <2>1. Line = line /\ Line' = next
    BY <1>1 DEF Line, LineOf
  <2>2. Ordered(line) /\ (~cancelled => Held(line) = 1..fed)
    BY <1>0, <1>2, <2>1 DEF OrderInv
  <2>3. n \in Nat /\ Stages \in Nat /\ 2 * Stages + 1 = n
    BY <1>0
  <2>4. Named(line, Stages, queues, hand, results) /\ Named(next, Stages, queues', hand, results)
    BY <2>3, LineNamed
  <2>5. IsLine(line, n, M)
    BY <1>0, <1>2, <2>3, PlacesHold, HoldingIsLine
  <2>6. ASSUME NEW q \in 1..n PROVE next[q] = line[q]
    <3>1. LineOf(Stages, queues', hand, results)[q] = LineOf(Stages, queues, hand, results)[q]
      <4> DEFINE N1 == Stages  ps == queues'
      <4>1. N1 \in Nat /\ q \in 1..(N1 + N1 + 1) /\ \A t \in 0..N1 : t # 0 => ps[t] = queues[t]
        BY <1>5, <2>3
      <4> HIDE DEF N1, ps
      <4>2. LineOf(N1, ps, hand, results)[q] = LineOf(N1, queues, hand, results)[q]
        BY ONLY <4>1, SameButFirst
      <4> QED BY <4>2 DEF N1, ps
    <3> QED BY <3>1
  <2>7. \A x \in M : x.index \in 1..fed
    BY DEF Micro
  <2> HIDE DEF line, next, n, M
  <2>8. /\ DOMAIN next = 0..n /\ line[2 * 0] = queues[0] /\ next[2 * 0] = queues'[0]
    BY <1>3, <2>3, <2>4 DEF Named
  <2>9. next[0] = Append(line[0], e)
    BY <1>5, <2>8
  <2>10. Ordered(next) /\ Held(next) = Held(line) \cup {fed + 1}
    BY <1>0, <1>4, <2>2, <2>3, <2>5, <2>6, <2>7, <2>8, <2>9, FeedKeepsOrder
  <2>11. (1..fed) \cup {fed + 1} = 1..(fed + 1)
    BY <1>0
  <2> QED BY <1>1, <2>1, <2>2, <2>10, <2>11 DEF OrderInv
<1>9. ResultsComplete'
  BY <1>1 DEF ResultsComplete
<1> QED BY <1>1, <1>6, <1>7, <1>8, <1>9 DEF PipeInv

LEMMA EmptyLine ==
    ASSUME NEW n \in Nat, NEW qs, NEW hs, NEW out, out = <<>>,
           \A s \in 0..n : qs[s] = <<>>, \A s \in 1..n : hs[s] = <<>>
    PROVE  Ordered(LineOf(n, qs, hs, out)) /\ Held(LineOf(n, qs, hs, out)) = {}
<1> DEFINE line == LineOf(n, qs, hs, out)
<1>1. Holding(n, qs, hs, out, {})
  <2>1. <<>> \in Seq({})
    OBVIOUS
  <2> QED BY <2>1, Zenon DEF Holding
<1>2. IsLine(line, n + n + 1, {})
  BY <1>1, HoldingIsLine
<1> HIDE DEF line
<1>3. \A r \in DOMAIN line : DOMAIN line[r] = {}
  <2> SUFFICES ASSUME NEW r \in DOMAIN line PROVE DOMAIN line[r] = {}
    OBVIOUS
  <2>1. line[r] \in Seq({})
    BY <1>2 DEF IsLine
  <2> QED BY <2>1
<1>4. Ordered(line)
  BY <1>3 DEF Ordered
<1>5. Held(line) = {}
  BY <1>3, HeldIs
<1> QED BY <1>4, <1>5 DEF line

\* A call starts with nothing left in the channels.
LEMMA ExecutePipelineStep ==
    ASSUME cfg \in Configs, call \in Nat, PipeInv, kind = "pipeline", ExecutePipeline
    PROVE  PipeInv'
<1>0. /\ Stages \in Nat \ {0} /\ Batches \in Nat \ {0}
      /\ PlacesInv /\ PhaseInv /\ OrderInv /\ ResultsComplete
  BY PipeFacts
<1>1. /\ UNCHANGED <<kind, cfg, queues>> /\ Stages' = Stages /\ Batches' = Batches
      /\ phase = "idle" /\ call' = call + 1 /\ cancelled' = FALSE
      /\ phase' = "feed" /\ fed' = 0 /\ results' = <<>>
      /\ running' = 1..Stages /\ hand' = [s \in 1..Stages |-> <<>>]
      /\ old' = old \cup {[call |-> call, stage |-> s, hand |-> hand[s]] : s \in running}
  BY DEF ExecutePipeline, Stages, Batches
<1>2. queues = [s \in 0..Stages |-> <<>>] /\ Stages \in 0..Stages
  BY <1>0, <1>1 DEF PhaseInv, PlacesInv
<1>3. PlacesInv'
  <2>1. queues \in [0..Stages -> Seq(Micro(call + 1, 0))] /\ hand' \in [1..Stages -> Seq(Micro(call + 1, 0))]
    BY <1>1, <1>2
  <2>2. queues[Stages] \in Seq(MicroBy(call + 1, 0, Stages)) /\ <<>> \in Seq(MicroBy(call + 1, 0, Stages))
    BY <1>2
  <2>3. \A s \in 1..Stages : Len(hand'[s]) <= 1
    BY <1>1
  <2> QED BY <1>0, <1>1, <2>1, <2>2, <2>3 DEF PlacesInv
<1>4. PhaseInv'
  BY <1>0, <1>1 DEF PhaseInv
<1>5. OrderInv'
  <2>1. Line' = LineOf(Stages, queues', hand', results')
    BY <1>1 DEF Line, LineOf
  <2>2. /\ \A s \in 0..Stages : queues'[s] = <<>>
        /\ \A s \in 1..Stages : hand'[s] = <<>>
    BY <1>1, <1>2
  <2>3. Ordered(Line') /\ Held(Line') = {}
    BY <1>0, <1>1, <2>1, <2>2, EmptyLine
  <2>4. 1..0 = {}
    OBVIOUS
  <2> QED BY <1>1, <2>3, <2>4 DEF OrderInv
<1>6. ResultsComplete'
  BY <1>1 DEF ResultsComplete
<1>7. old' = {}
  <2>1. running = {} /\ old = {}
    BY <1>0, <1>1 DEF PhaseInv, PipeInv
  <2> QED BY <1>1, <2>1
<1> QED BY <1>1, <1>3, <1>4, <1>5, <1>6, <1>7 DEF PipeInv

\* Once every result is collected no channel holds anything.
LEMMA CollectedLeavesNothing ==
    ASSUME cfg \in Configs, call \in Nat, PipeInv, kind = "pipeline", phase = "wait",
           NEW s \in 0..Stages
    PROVE  queues[s] = <<>>
<1>0. /\ Stages \in Nat \ {0} /\ Batches \in Nat \ {0}
      /\ PlacesInv /\ PhaseInv /\ OrderInv /\ ResultsComplete
  BY PipeFacts
<1>1. /\ call > 0 /\ fed = Batches
      /\ results = [i \in 1..Batches |-> [call |-> call, index |-> i, by |-> Stages]]
  BY <1>0 DEF PhaseInv, ResultsComplete
<1>2. queues[s] \in Seq(Micro(call, Batches))
  BY <1>0, <1>1 DEF PlacesInv
<1>3. Ordered(LineOf(Stages, queues, hand, results))
  BY <1>0, <1>1, LineIs DEF OrderInv
<1>4. Batches \in DOMAIN results /\ results[Batches].index = Batches
  BY <1>0, <1>1
<1> SUFFICES ASSUME queues[s] # <<>> PROVE FALSE
  OBVIOUS
<1>5. 1 \in DOMAIN queues[s] /\ queues[s][1] \in Micro(call, Batches)
  BY <1>2
<1>6. results[Batches].index < queues[s][1].index
  BY <1>0, <1>3, <1>4, <1>5, OrderedResults
<1>7. queues[s][1].index \in 1..Batches
  BY <1>5 DEF Micro
<1> QED BY <1>0, <1>4, <1>6, <1>7

\* The steps that only change the phase, or cancel.
LEMMA PhaseStep ==
    ASSUME cfg \in Configs, call \in Nat, PipeInv, kind = "pipeline",
           Wait \/ Cancel
    PROVE  PipeInv'
<1>0. /\ Stages \in Nat \ {0} /\ Batches \in Nat \ {0}
      /\ PlacesInv /\ PhaseInv /\ OrderInv /\ ResultsComplete
  BY PipeFacts
<1>1. /\ UNCHANGED <<kind, cfg, call, queues, running, hand, fed, results, old>>
      /\ Stages' = Stages /\ Batches' = Batches
  BY DEF Wait, Cancel, pipeline, leftover, Stages, Batches
<1>2. PlacesInv'
  BY <1>0, <1>1 DEF PlacesInv
<1>3. PhaseInv'
  <2>1. CASE Wait
    BY <1>0, <1>1, <2>1, CollectedLeavesNothing DEF Wait, PhaseInv
  <2>2. CASE Cancel
    BY <1>0, <1>1, <2>2 DEF Cancel, PhaseInv
  <2> QED BY <2>1, <2>2
<1>4. OrderInv'
  <2>1. Line' = Line
    BY <1>1 DEF Line
  <2>2. cancelled' = cancelled \/ cancelled' = TRUE
    BY DEF Wait, Cancel
  <2> QED BY <1>0, <1>1, <2>1, <2>2 DEF OrderInv
<1>5. ResultsComplete'
  <2>1. phase' \in {"wait", "idle"} => phase \in {"wait", "idle"}
    BY DEF Wait, Cancel
  <2> QED BY <1>0, <1>1, <2>1 DEF ResultsComplete
<1> QED BY <1>1, <1>2, <1>3, <1>4, <1>5 DEF PipeInv

LEMMA NewPipelineStep ==
    ASSUME CoordInv, PipeInv, NewPipelineExecutor PROVE PipeInv'
<1>1. /\ kind = "none" /\ call = 0 /\ phase = "idle" /\ cfg \in Configs
      /\ fed = 0 /\ results = <<>> /\ running = {}
      /\ kind' = "pipeline" /\ queues' = [s \in 0..Stages |-> <<>>]
      /\ UNCHANGED <<cfg, call, phase, running, fed, results, old>> /\ old = {}
      /\ Stages' = Stages /\ Batches' = Batches
  BY DEF NewPipelineExecutor, leftover, CoordInv, SessionShape, PipeInv, Stages, Batches
<1>2. Stages \in Nat \ {0} /\ Batches \in Nat \ {0}
  BY <1>1, CfgFacts, ShapeFits DEF Stages, Batches
<1>3. PlacesInv'
  <2>1. queues' \in [0..Stages -> Seq(Micro(0, 0))]
    BY <1>1
  <2>2. queues'[Stages] \in Seq(MicroBy(0, 0, Stages)) /\ <<>> \in Seq(MicroBy(0, 0, Stages))
    BY <1>1, <1>2
  <2> QED BY <1>1, <1>2, <2>1, <2>2 DEF PlacesInv
<1>4. PhaseInv'
  BY <1>1 DEF PhaseInv
<1>5. OrderInv' /\ ResultsComplete'
  BY <1>1 DEF OrderInv, ResultsComplete
<1> QED BY <1>1, <1>3, <1>4, <1>5 DEF PipeInv

-----------------------------------------------------------------------------
(* A session *)

SessionInv == CoordInv /\ (spoiled \/ PipeInv)

\* A coordinator's actions, none of which a pipeline can take.
CoordinatorStep ==
    \/ NewCoordinator \/ Execute \/ Checkpoint \/ Forward \/ EndForward \/ Complete
    \/ \E m \in Workers : Recover(m)

PipelineStep ==
    \/ ExecutePipeline \/ Feed \/ Collect \/ Wait \/ CollectFails
    \/ \E s \in 1..Stages : Stage(s)
    \/ \E o \in old : OldStage(o)

LEMMA CoordinatorKeeps == ASSUME SessionInv, CoordinatorStep PROVE SessionInv'
<1>0. CoordInv /\ SessionShape /\ (spoiled \/ PipeInv)
  BY DEF SessionInv, CoordInv
<1>1. CoordInv'
  BY <1>0, NewSessionStep, ExecuteCoord, CheckpointCoord, ForwardCoord, EndCoord, RecoverCoord
     DEF CoordinatorStep
<1>2. kind' = "coordinator" /\ old' = old
  <2>1. CASE NewCoordinator \/ Execute
    BY <2>1 DEF NewCoordinator, Execute, pipeline, leftover
  <2>2. CASE Checkpoint \/ Forward \/ EndForward \/ Complete
    BY <1>0, <2>2 DEF Checkpoint, Forward, EndForward, Complete, SessionShape, pipeline, leftover
  <2>3. CASE \E m \in Workers : Recover(m)
    BY <2>3 DEF Recover, RecoverFromCheckpoint, SearchCheckpoint, Searching, MapRace, MarkFailed,
                ReassignShard, pipeline, leftover
  <2> QED BY <2>1, <2>2, <2>3 DEF CoordinatorStep
<1>3. old' = {}
  BY <1>1, <1>2 DEF CoordInv, SessionShape
<1> QED BY <1>1, <1>2, <1>3 DEF SessionInv, PipeInv

\* Once a call has failed, nothing undoes it.
LEMMA SpoiledStays ==
    ASSUME PipelineStep \/ Cancel \/ NewPipelineExecutor, spoiled PROVE spoiled'
<1>1. CASE ExecutePipeline \/ Feed \/ Collect \/ Wait \/ CollectFails \/ Cancel \/ NewPipelineExecutor
  BY <1>1 DEF ExecutePipeline, Feed, Collect, Wait, CollectFails, Cancel, NewPipelineExecutor,
              pipeline, leftover
<1>2. CASE \E s \in 1..Stages : Stage(s)
  BY <1>2 DEF Stage, Receive, Send, Leave, leftover
<1>3. CASE \E o \in old : OldStage(o)
  BY <1>3 DEF OldStage
<1> QED BY <1>1, <1>2, <1>3 DEF PipelineStep

LEMMA PipelineKeeps == ASSUME SessionInv, PipelineStep PROVE SessionInv'
<1>0. CoordInv /\ SessionShape /\ (spoiled \/ PipeInv)
  BY DEF SessionInv, CoordInv
<1>1. kind = "pipeline" /\ cfg \in Configs /\ call \in Nat /\ cancelled \in BOOLEAN
  <2>1. CASE ExecutePipeline
    BY <1>0, <2>1 DEF ExecutePipeline, SessionShape
  <2>2. CASE Feed \/ Collect \/ Wait \/ CollectFails
    BY <1>0, <2>2 DEF Feed, Collect, Wait, CollectFails, SessionShape
  <2>3. CASE \E s \in 1..Stages : Stage(s)
    <3>1. running # {}
      BY <2>3 DEF Stage, Receive, Send, Leave
    <3> QED BY <1>0, <3>1 DEF SessionShape
  <2>4. CASE \E o \in old : OldStage(o)
    BY <1>0, <2>4 DEF SessionShape
  <2> QED BY <2>1, <2>2, <2>3, <2>4 DEF PipelineStep
<1>2. (spoiled \/ PipeInv)'
  <2>1. CASE spoiled
    BY <2>1, SpoiledStays
  <2>2. CASE PipeInv /\ (ExecutePipeline \/ Feed \/ Collect \/ Wait)
    BY <1>0, <1>1, <2>2, ExecutePipelineStep, FeedStep, CollectStep, PhaseStep
  <2>3. CASE PipeInv /\ \E s \in 1..Stages : Stage(s)
    BY <1>0, <1>1, <2>3, ReceiveStep, SendStep, LeaveStep DEF Stage
  <2>4. CASE PipeInv /\ \E o \in old : OldStage(o)
    BY <2>4 DEF PipeInv
  <2>5. CASE CollectFails
    BY <2>5 DEF CollectFails
  <2> QED BY <1>0, <2>1, <2>2, <2>3, <2>4, <2>5 DEF PipelineStep
<1>3. /\ UNCHANGED <<kind, cfg, coordinator>> /\ call' \in Nat /\ cancelled' \in BOOLEAN
      /\ phase' \in {"idle", "feed", "collect", "wait"}
  <2>1. phase \in {"idle", "feed", "collect", "wait"}
    BY <1>0, <1>1 DEF SessionShape
  <2>2. CASE ExecutePipeline
    <3>1. /\ UNCHANGED <<kind, cfg, coordinator>> /\ call' = call + 1 /\ cancelled' = FALSE
          /\ phase' = "feed"
      BY <2>2, Zenon DEF ExecutePipeline
    <3>2. call' \in Nat
      BY <1>1, <3>1
    <3>3. cancelled' \in BOOLEAN
      BY <3>1, Zenon
    <3> QED BY <3>1, <3>2, <3>3, Zenon
  <2>3. CASE Feed
    BY <1>1, <2>3 DEF Feed
  <2>4. CASE Collect
    BY <1>1, <2>4 DEF Collect
  <2>5. CASE Wait \/ CollectFails
    BY <1>1, <2>5 DEF Wait, CollectFails
  <2>6. CASE \E s \in 1..Stages : Stage(s)
    BY <1>1, <2>1, <2>6 DEF Stage, Receive, Send, Leave
  <2>7. CASE \E o \in old : OldStage(o)
    BY <1>1, <2>1, <2>7 DEF OldStage
  <2> QED BY <2>2, <2>3, <2>4, <2>5, <2>6, <2>7 DEF PipelineStep
<1>4. CoordInv'
  BY <1>0, <1>1, <1>3, CoordFrame
<1> QED BY <1>2, <1>4 DEF SessionInv

LEMMA SessionStep == SessionInv /\ [SessionNext]_sessionVars => SessionInv'
<1> SUFFICES ASSUME SessionInv, [SessionNext]_sessionVars PROVE SessionInv'
  OBVIOUS
<1>0. CoordInv /\ SessionShape /\ (spoiled \/ PipeInv)
  BY DEF SessionInv, CoordInv
<1>1. CASE CoordinatorStep
  BY <1>1, CoordinatorKeeps
<1>2. CASE PipelineStep
  BY <1>2, PipelineKeeps
<1>3. CASE NewPipelineExecutor
  BY <1>0, <1>3, NewSessionStep, NewPipelineStep, SpoiledStays DEF SessionInv
<1>4. CASE Cancel
  <2>1. CoordInv'
    BY <1>0, <1>4, CancelCoord
  <2>2. (spoiled \/ PipeInv)'
    <3>1. CASE kind = "pipeline"
      BY <1>0, <1>4, <3>1, PhaseStep, SpoiledStays DEF SessionShape
    <3>2. CASE kind # "pipeline"
      BY <1>0, <1>4, <3>2, SpoiledStays DEF Cancel, PipeInv, pipeline, leftover
    <3> QED BY <3>1, <3>2
  <2> QED BY <2>1, <2>2 DEF SessionInv
<1>5. CASE UNCHANGED sessionVars
  <2>1. UNCHANGED <<kind, cfg, call, cancelled, phase, status, layer, checkpoints, progress,
                    failed, recovery, queues, running, hand, fed, results, old, spoiled>>
    BY <1>5 DEF sessionVars, coordinator, pipeline, leftover
  <2>2. CoordInv'
    <3>1. SessionShape' /\ PassInv'
      BY <1>0, <2>1 DEF CoordInv, SessionShape, PassInv
    <3>2. CheckpointsInv'
      BY <1>0, <2>1 DEF CoordInv, CheckpointsInv, CheckpointsExact, CheckpointDue
    <3>3. StatusIsTrue' /\ OtherInv'
      BY <1>0, <2>1 DEF CoordInv, StatusIsTrue, OtherInv
    <3>4. RecoveryInv'
      BY <1>0, <2>1, RecoveryFrame DEF CoordInv
    <3> QED BY <3>1, <3>2, <3>3, <3>4 DEF CoordInv
  <2>3. ASSUME PipeInv PROVE PipeInv'
    <3>1. Stages' = Stages /\ Batches' = Batches /\ Line' = Line
      BY <2>1 DEF Stages, Batches, Line
    <3> QED BY <2>1, <2>3, <3>1
            DEF PipeInv, PlacesInv, PhaseInv, OrderInv, ResultsComplete
  <2> QED BY <1>0, <2>1, <2>2, <2>3 DEF SessionInv
<1> QED BY <1>1, <1>2, <1>3, <1>4, <1>5
        DEF SessionNext, Caller, ExecuteStep, CoordinatorStep, PipelineStep

LEMMA SessionInvariant == SessionSpec => []SessionInv
<1>1. SessionInit => SessionInv
  BY CoordInit DEF SessionInit, SessionInv, PipeInv
<1> QED BY <1>1, SessionStep, PTL DEF SessionSpec

\* However layers and heads divide by the number of miners and stages, the sharding
\* plan and the pipeline schedule cut them into disjoint parts that cover everything
\* and differ by at most one, and no stage needs a miner that is not there.
THEOREM PlanPartitions == SessionSpec => []PlanIsPartition
<1>1. SessionInv => PlanIsPartition
  BY PlanOf DEF SessionInv, CoordInv, SessionShape
<1> QED BY <1>1, SessionInvariant, PTL

\* Whatever recoveries run beside Execute, the checkpoints are exact and of the call
\* that runs, the status is never ahead of it, and the miners cannot all have handed
\* their shards to each other.
THEOREM CoordinatorStaysSound == SessionSpec => []CoordinatorSound
<1>1. SessionInv => CoordinatorSound
  BY DEF SessionInv, CoordInv, CheckpointsInv, RecoveryInv, CoordinatorSound
<1> QED BY <1>1, SessionInvariant, PTL

\* However the lookups of a recovery interleave with the forward pass, it resumes at
\* most CheckpointInterval layers before the layer at which the failure was reported,
\* in the first call not ahead of the forward pass either, and finds no checkpoint
\* only if the failure was in the first interval.
THEOREM RecoveryResumesClose == SessionSpec => []RecoveryLosesLittle
<1>1. SessionInv => RecoveryLosesLittle
  <2> SUFFICES ASSUME SessionInv, kind = "coordinator", NEW m \in Workers
               PROVE  LET r == recovery[m]
                      IN  /\ r.at \in {"mark", "reassign", "done"} =>
                                /\ r.since - r.layer <= CheckpointInterval
                                /\ call = 1 => r.layer <= layer
                          /\ r.at = "error" /\ r.layer < 0 => r.since <= CheckpointInterval
    BY DEF RecoveryLosesLittle
  <2>1. Near(recovery[m])
    BY DEF SessionInv, CoordInv, RecoveryInv
  <2>2. call = 1 => \A l \in DOMAIN checkpoints : l <= layer
    BY DEF SessionInv, CoordInv, CheckpointsInv
  <2> QED BY <2>1, <2>2 DEF Near
<1> QED BY <1>1, SessionInvariant, PTL

\* Whatever the stages' goroutines do and however often the executor is used again,
\* as long as no call has failed no micro-batch is duplicated or overtakes another,
\* none is lost while the context is alive, and a call that returns without error
\* returns exactly its own results.
THEOREM PipelineStaysSound == SessionSpec => []PipelineSound
<1>1. SessionInv => PipelineSound
  <2> SUFFICES ASSUME SessionInv, ~spoiled PROVE BatchesInOrder /\ ResultsComplete
    BY DEF PipelineSound
  <2>1. CASE kind = "pipeline"
    BY <2>1 DEF SessionInv, PipeInv, PhaseInv, OrderInv, BatchesInOrder
  <2>2. CASE kind # "pipeline"
    BY <2>2 DEF BatchesInOrder, ResultsComplete
  <2> QED BY <2>1, <2>2
<1> QED BY <1>1, SessionInvariant, PTL

=============================================================================
