------------------------------ MODULE Dispatch ------------------------------
(***************************************************************************)
(* Who works for the chain: the dispatcher of pkg/task/dispatcher.go,      *)
(* which hands tasks to miners by capability, reputation and load, and the *)
(* registry of pkg/compute/registry/miner.go, the chain's record of the    *)
(* same miners.  A node keeps both (cmd/aichain-node/main.go:376) and      *)
(* updates them with separate calls, each under its table's own mutex.     *)
(*                                                                         *)
(* The requirements of the five tiers grow in every respect, so of a       *)
(* capability's hardware only two things matter: level, the highest tier   *)
(* it satisfies, and its compute units.  DispatchDistributed is left out:  *)
(* it needs a task with a DAG, and nothing ever sets Task.dag.             *)
(***************************************************************************)
EXTENDS Integers, FiniteSets, FiniteSetsExt

CONSTANTS
    Miners,         \* miner addresses
    Hardware,       \* what miners may register: records of level and units
    MinUnits,       \* TierRequirements.MinComputeUnits, by tier
    TaskTiers,      \* the tiers of the tasks that are dispatched
    MaxOutstanding, \* bound: tasks a miner is given and has not returned
    MaxRecords,     \* bound: completions recorded, per table
    Absent          \* a miner that a table does not hold

Tiers == 1..5

\* Reputation is a fraction; every miner starts with 1.0, and with uptime 1.0.
Capability == [level : 0..5, units : Nat, rep : Nat \X (Nat \ {0})]

ASSUME HardwareAssumption == Hardware \subseteq [level : 0..5, units : Nat]
ASSUME TiersAssumption ==
    TaskTiers \subseteq Tiers /\ MinUnits \in [Tiers -> Nat \ {0}]
ASSUME BoundsAssumption == MaxOutstanding \in Nat /\ MaxRecords \in Nat

VARIABLES
    miners,       \* d.miners
    minersByTier, \* d.minersByTier: how often a tier lists a miner
    outstanding,  \* tasks given to each miner and not yet released
    records,      \* r.miners
    byTier,       \* r.byTier, as sets: its order is that of a map
    earned        \* the rewards each miner was credited with

dispatcher == <<miners, minersByTier, outstanding>>
registry == <<records, byTier, earned>>
vars == <<miners, minersByTier, outstanding, records, byTier, earned>>

MinerInfo == [cap : Capability, load : Nat, completed : Nat, failed : Nat]

MinerRecord == [cap : Capability, active : BOOLEAN, rewards : Nat, total : Nat]

\* The tables are maps in memory; a nil entry is no miner.
ASSUME MinersAssumption ==
    IsFiniteSet(Miners) /\ Absent \notin MinerInfo /\ Absent \notin MinerRecord

Joined(m) == miners[m] # Absent
Recorded(m) == records[m] # Absent

TypeOK ==
    /\ miners \in [Miners -> MinerInfo \cup {Absent}]
    /\ minersByTier \in [Tiers -> [Miners -> Nat]]
    /\ outstanding \in [Miners -> Nat]
    /\ records \in [Miners -> MinerRecord \cup {Absent}]
    /\ byTier \in [Tiers -> SUBSET Miners]
    /\ earned \in [Miners -> Nat]

Init ==
    /\ miners = [m \in Miners |-> Absent]
    /\ minersByTier = [t \in Tiers |-> [m \in Miners |-> 0]]
    /\ outstanding = [m \in Miners |-> 0]
    /\ records = [m \in Miners |-> Absent]
    /\ byTier = [t \in Tiers |-> {}]
    /\ earned = [m \in Miners |-> 0]

-----------------------------------------------------------------------------
(* Capabilities *)

NewCapability(h) == [level |-> h.level, units |-> h.units, rep |-> <<1, 1>>]

CanMinerHandle(t, cap) == t <= cap.level

\* Score, in tenths, as a numerator and a denominator: four parts the surplus
\* of compute, five-fold at most, three parts reputation, three parts uptime.
ScoreNumerator(t, cap) ==
    LET need    == MinUnits[t]
        surplus == IF cap.units > 5 * need THEN 5 * need ELSE cap.units
    IN  4 * surplus * cap.rep[2] + 3 * cap.rep[1] * need + 3 * need * cap.rep[2]

ScoreDenominator(t, cap) == MinUnits[t] * cap.rep[2]

-----------------------------------------------------------------------------
(* The dispatcher *)

AppendUnique(list, m) == IF list[m] > 0 THEN list ELSE [list EXCEPT ![m] = @ + 1]

\* The first entry of m goes.
RemoveFrom(list, m) == IF list[m] = 0 THEN list ELSE [list EXCEPT ![m] = @ - 1]

\* The miners a tier lists.
Listed(t) == {m \in Miners : minersByTier[t][m] > 0}

\* RegisterMiner adds the miner to the tiers its capability satisfies, and
\* leaves it listed in those only an earlier capability satisfied.
RegisterMiner(m, h) ==
    LET cap == NewCapability(h)
    IN  /\ miners' = [miners EXCEPT ![m] =
              IF Joined(m) THEN [@ EXCEPT !.cap = cap]
              ELSE [cap |-> cap, load |-> 0, completed |-> 0, failed |-> 0]]
        /\ minersByTier' = [t \in Tiers |->
              IF CanMinerHandle(t, cap) THEN AppendUnique(minersByTier[t], m) ELSE minersByTier[t]]
        /\ UNCHANGED <<outstanding, registry>>

\* UnregisterMiner forgets the miner's load; its tasks are still out.
UnregisterMiner(m) ==
    /\ Joined(m)
    /\ miners' = [miners EXCEPT ![m] = Absent]
    /\ minersByTier' = [t \in Tiers |-> RemoveFrom(minersByTier[t], m)]
    /\ UNCHANGED <<outstanding, registry>>

\* Of two listed miners, m scores higher for tier t: the score divided by one
\* more than the tasks the miner has.
Better(t, m, n) ==
    LET c == miners[m].cap
        d == miners[n].cap
    IN  ScoreNumerator(t, c) * ScoreDenominator(t, d) * (1 + miners[n].load)
           > ScoreNumerator(t, d) * ScoreDenominator(t, c) * (1 + miners[m].load)

\* Dispatch skips a listed miner it does not know.  The sort is not stable:
\* any miner of the highest score may come first.
Dispatch(t) ==
    LET candidates == {m \in Listed(t) : Joined(m)}
    IN  \E m \in candidates :
           /\ \A n \in candidates : ~Better(t, n, m)
           /\ outstanding[m] < MaxOutstanding
           /\ miners' = [miners EXCEPT ![m].load = @ + 1]
           /\ outstanding' = [outstanding EXCEPT ![m] = @ + 1]
           /\ UNCHANGED <<minersByTier, registry>>

\* One task fewer is out, of those that are.
Returned(m) == [outstanding EXCEPT ![m] = IF @ > 0 THEN @ - 1 ELSE 0]

\* A mutation: the load of a miner that was released is kept.
ReleaseTaskKeepingLoad(m) ==
    /\ outstanding' = Returned(m)
    /\ UNCHANGED <<miners, minersByTier, registry>>

\* Any release is accepted: the miner may have left, have left and come back
\* with no load, or have nothing out.
ReleaseTask(m) ==
    /\ outstanding' = Returned(m)
    /\ miners' = IF Joined(m) /\ miners[m].load > 0
                 THEN [miners EXCEPT ![m].load = @ - 1] ELSE miners
    /\ UNCHANGED <<minersByTier, registry>>

\* The completions recorded for present miners, for the bound.
Completions ==
    MapThenSumSet(LAMBDA m : IF Joined(m) THEN miners[m].completed + miners[m].failed ELSE 0,
                  Miners)

\* RecordCompletion counts, and makes the success rate the reputation.
RecordCompletion(m, success) ==
    /\ Joined(m)
    /\ Completions < MaxRecords
    /\ LET done   == miners[m].completed + IF success THEN 1 ELSE 0
           failed == miners[m].failed + IF success THEN 0 ELSE 1
       IN  miners' = [miners EXCEPT ![m].completed = done, ![m].failed = failed,
                                    ![m].cap.rep = <<done, done + failed>>]
    /\ UNCHANGED <<minersByTier, outstanding, registry>>

-----------------------------------------------------------------------------
(* The registry *)

RebuildTierIndices(recs) ==
    [t \in Tiers |-> {m \in Miners : /\ recs[m] # Absent
                                     /\ recs[m].active
                                     /\ CanMinerHandle(t, recs[m].cap)}]

\* A mutation: a miner that registers again starts a new record.
RegisterAnew(m, h) ==
    /\ records' = [records EXCEPT ![m] =
          [cap |-> NewCapability(h), active |-> TRUE, rewards |-> 0, total |-> 0]]
    /\ byTier' = RebuildTierIndices(records')
    /\ UNCHANGED <<earned, dispatcher>>

Register(m, h) ==
    /\ records' = [records EXCEPT ![m] =
          IF Recorded(m) THEN [@ EXCEPT !.cap = NewCapability(h), !.active = TRUE]
          ELSE [cap |-> NewCapability(h), active |-> TRUE, rewards |-> 0, total |-> 0]]
    /\ byTier' = RebuildTierIndices(records')
    /\ UNCHANGED <<earned, dispatcher>>

Unregister(m) ==
    /\ Recorded(m)
    /\ records' = [records EXCEPT ![m].active = FALSE]
    /\ byTier' = RebuildTierIndices(records')
    /\ UNCHANGED <<earned, dispatcher>>

\* New hardware, old reputation; a retired miner stays retired.
UpdateCapability(m, h) ==
    /\ Recorded(m)
    /\ records' = [records EXCEPT ![m].cap.level = h.level, ![m].cap.units = h.units]
    /\ byTier' = RebuildTierIndices(records')
    /\ UNCHANGED <<earned, dispatcher>>

\* The completions credited, for the bound.
Credits == MapThenSumSet(LAMBDA m : IF Recorded(m) THEN records[m].total ELSE 0, Miners)

\* Here the reputation is a moving average of weight one tenth.
CreditCompletion(m, success) ==
    /\ Recorded(m)
    /\ Credits < MaxRecords
    /\ LET reward == IF success THEN 1 ELSE 0
       IN  /\ records' = [records EXCEPT ![m].total = @ + 1, ![m].rewards = @ + reward,
                 ![m].cap.rep = <<9 * @[1] + reward * @[2], 10 * @[2]>>]
           /\ earned' = [earned EXCEPT ![m] = @ + reward]
    /\ UNCHANGED <<byTier, dispatcher>>

\* The miners GetMinersByTier and GetBestMiner consider.
GetMinersByTier(t) == {m \in byTier[t] : Recorded(m) /\ records[m].active}

\* GetBestMiner starts from a score of zero, which no miner's is.
GetBestMiner(t) ==
    {m \in GetMinersByTier(t) : \A n \in GetMinersByTier(t) :
        ScoreNumerator(t, records[m].cap) * ScoreDenominator(t, records[n].cap)
           >= ScoreNumerator(t, records[n].cap) * ScoreDenominator(t, records[m].cap)}

Next ==
    \/ \E m \in Miners, h \in Hardware :
          RegisterMiner(m, h) \/ Register(m, h) \/ UpdateCapability(m, h)
    \/ \E m \in Miners : UnregisterMiner(m) \/ ReleaseTask(m) \/ Unregister(m)
    \/ \E m \in Miners, success \in BOOLEAN :
          RecordCompletion(m, success) \/ CreditCompletion(m, success)
    \/ \E t \in TaskTiers : Dispatch(t)

Spec == Init /\ [][Next]_vars

-----------------------------------------------------------------------------
(* Properties *)

\* Every registered miner is listed in each tier its present capability covers,
\* nobody is listed twice, and a miner that left nowhere: RegisterMiner only adds,
\* and UnregisterMiner must find every entry, also those of tiers the capability no
\* longer covers.
ListsServe ==
    \A t \in Tiers, m \in Miners :
        /\ minersByTier[t][m] <= 1
        /\ minersByTier[t][m] = 1 => Joined(m)
        /\ Joined(m) /\ CanMinerHandle(t, miners[m].cap) => minersByTier[t][m] = 1

\* The dispatcher selects "based on capability" (dispatcher.go:14) from the lists
\* "indexed by tier" (:31), and a tier's requirements "define the minimum miner
\* capability" (tiers.go:3): a miner is listed only in tiers it can handle.  The
\* code leaves a miner that registers weaker hardware in the lists of the stronger.
ListedCanHandle ==
    \A t \in Tiers, m \in Miners :
        Joined(m) /\ minersByTier[t][m] > 0 => CanMinerHandle(t, miners[m].cap)

\* The dispatcher never believes a miner busier than it is, whatever miners
\* leave and come back between a task's dispatch and its release: a load that
\* stayed behind would turn work away from the miner for good.
LoadIsOwed == \A m \in Miners : Joined(m) => miners[m].load <= outstanding[m]

\* The registry's index lists the active miners that can handle a tier and no
\* others, so that GetBestMiner fails only when there is none, through every
\* order of registration, retirement, new hardware and return.
RegistryFinds ==
    \A t \in Tiers :
       LET able == {m \in Miners : Recorded(m) /\ records[m].active /\ records[m].cap.level >= t}
       IN  /\ byTier[t] = able
           /\ able # {} => GetBestMiner(t) # {}

\* A miner's record keeps all it earned, also when it retires and registers again.
RewardsKept == \A m \in Miners : Recorded(m) => records[m].rewards = earned[m]

\* The dispatcher's tables agree with each other and with the tasks that are out.
DispatcherSound == TypeOK /\ ListsServe /\ LoadIsOwed

\* The registry finds the miners it has and forgets nothing they earned.
RegistrySound == RegistryFinds /\ RewardsKept

=============================================================================
