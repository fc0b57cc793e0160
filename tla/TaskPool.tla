------------------------------ MODULE TaskPool ------------------------------
(***************************************************************************)
(* The pool of pending AI tasks, pkg/task/taskpool.go: one set of entries  *)
(* behind three indexes, the map by task ID, the fee heap and the list of  *)
(* deadlines.                                                              *)
(*                                                                         *)
(* Every method holds tp.mu throughout, so each is one action; the reads   *)
(* (GetHighestPriorityTasks, GetTasksForMiner, Stats) work on copies and   *)
(* change nothing.  A task ID is a hash of the task's tier, fee and        *)
(* deadline among others, so a task stands for its ID.  The heap is the    *)
(* set of entries it holds, its Pop any entry of highest fee; the order of *)
(* deadlineOrder decides nothing but the order of ExpireDeadlines' result, *)
(* and is left out.                                                        *)
(***************************************************************************)
EXTENDS Integers, FiniteSets

CONSTANTS
    Tasks,          \* the tasks that exist
    Heights,        \* the heights ExpireDeadlines is called with
    ComputeUnits,   \* estimateComputeUnits, by tier
    MaxTasks,       \* tp.maxTasks
    MaxSequence     \* bound on tp.sequenceCounter

ComputeTiers == 1..5

\* name tells apart tasks of different creators or inputs.
TaskShape == [name : STRING, tier : ComputeTiers, fee : Nat, deadline : Nat]

ASSUME TasksAssumption == \A t \in Tasks : t \in TaskShape
ASSUME HeightsAssumption == Heights \subseteq Nat
ASSUME UnitsAssumption == ComputeUnits \in [ComputeTiers -> Nat]
ASSUME LimitsAssumption == MaxTasks \in Nat /\ MaxSequence \in Nat

VARIABLES
    tasks,            \* tp.tasks, as its entries
    prioritized,      \* tp.prioritized
    deadlineOrder,    \* tp.deadlineOrder
    sequenceCounter,  \* tp.sequenceCounter
    minFeeRate,       \* tp.minFeeRate
    lastFeeUpdate     \* tp.lastFeeUpdate is set

taskVars == <<tasks, prioritized, deadlineOrder, sequenceCounter, minFeeRate,
          lastFeeUpdate>>

\* A TaskPoolEntry: a task that is added again gets a new one.
Entry == [task : Tasks, seq : Nat]

TaskTypeOK ==
    /\ tasks \subseteq Entry
    /\ \A e, f \in tasks : e.task = f.task => e = f
    /\ prioritized \subseteq Entry
    /\ deadlineOrder \subseteq Entry
    /\ sequenceCounter \in Nat
    /\ minFeeRate \in Nat
    /\ lastFeeUpdate \in BOOLEAN

TaskInit ==
    /\ tasks = {}
    /\ prioritized = {}
    /\ deadlineOrder = {}
    /\ sequenceCounter = 0
    /\ minFeeRate = 0
    /\ lastFeeUpdate = FALSE

-----------------------------------------------------------------------------
Pooled(t) == \E e \in tasks : e.task = t

FeePerCompute(t) ==
    t.fee \div (IF ComputeUnits[t.tier] = 0 THEN 1 ELSE ComputeUnits[t.tier])

\* The entries of map m without those of the tasks in gone.
Delete(m, gone) == {e \in m : e.task \notin gone}

\* A deadline of zero is none.
HasDeadline(t) == t.deadline > 0

\* A mutation: a task expires at its deadline already.
OverdueEarly(t, currentHeight) == t.deadline > 0 /\ currentHeight >= t.deadline

Overdue(t, currentHeight) == t.deadline > 0 /\ currentHeight > t.deadline

\* The fee gate of AddTask.  Nothing ever raises minFeeRate above zero.
FeeTooLow(t) ==
    FeePerCompute(t) < minFeeRate /\ Cardinality(tasks) >= MaxTasks \div 2

OverLimit(m) == Cardinality(m) > MaxTasks

\* The entries heap.Pop may take from the heap q: Less puts high fees first.
Popped(q) == {e \in q : \A f \in q : FeePerCompute(e.task) >= FeePerCompute(f.task)}

\* AddTask with its trimToSizeLocked.  The pool was within its limit before, so
\* the trimming loop runs at most once.
AddTask(t) ==
    LET entry == [task |-> t, seq |-> sequenceCounter]
        added == tasks \cup {entry}
        queue == prioritized \cup {entry}
    IN  /\ ~Pooled(t)
        /\ ~FeeTooLow(t)
        /\ sequenceCounter < MaxSequence
        /\ sequenceCounter' = sequenceCounter + 1
        /\ deadlineOrder' = IF HasDeadline(t) THEN deadlineOrder \cup {entry}
                                              ELSE deadlineOrder
        /\ \/ ~OverLimit(added) /\ tasks' = added /\ prioritized' = queue
           \/ /\ OverLimit(added)
              /\ \E worst \in Popped(queue) :
                     /\ tasks' = Delete(added, {worst.task})
                     /\ prioritized' = queue \ {worst}
        /\ UNCHANGED <<minFeeRate, lastFeeUpdate>>

\* ExpireDeadlines deletes by task ID and rebuilds the heap from the map.
ExpireDeadlines(currentHeight) ==
    LET expired == {e \in deadlineOrder : Overdue(e.task, currentHeight)}
    IN  /\ tasks' = Delete(tasks, {e.task : e \in expired})
        /\ deadlineOrder' = deadlineOrder \ expired
        /\ prioritized' = tasks'
        /\ UNCHANGED <<sequenceCounter, minFeeRate, lastFeeUpdate>>

\* A mutation: the heap is not rebuilt.
RemoveTaskFromMap(t) ==
    /\ tasks' = Delete(tasks, {t})
    /\ UNCHANGED <<prioritized, deadlineOrder, sequenceCounter, minFeeRate, lastFeeUpdate>>

\* RemoveTask leaves the entry in deadlineOrder.
RemoveTask(t) ==
    /\ tasks' = Delete(tasks, {t})
    /\ prioritized' = tasks'
    /\ UNCHANGED <<deadlineOrder, sequenceCounter, minFeeRate, lastFeeUpdate>>

\* The first call only notes the time; a later one lets the rate decay, by how
\* much depends on the clock.
UpdateMinFeeRate ==
    /\ lastFeeUpdate' = TRUE
    /\ IF lastFeeUpdate THEN minFeeRate' \in 0..minFeeRate ELSE minFeeRate' = minFeeRate
    /\ UNCHANGED <<tasks, prioritized, deadlineOrder, sequenceCounter>>

TaskNext ==
    \/ \E t \in Tasks : AddTask(t) \/ RemoveTask(t)
    \/ \E h \in Heights : ExpireDeadlines(h)
    \/ UpdateMinFeeRate

TaskSpec == TaskInit /\ [][TaskNext]_taskVars

-----------------------------------------------------------------------------
(* Properties *)

\* The heap holds the entries of the map and no others, though AddTask, its trim,
\* RemoveTask and ExpireDeadlines each maintain the two differently: a miner is
\* never offered a task that left the pool, and no task is hidden from miners.
HeapMirrorsMap == prioritized = tasks

\* The pool never holds more than maxTasks, whatever was trimmed before.
WithinLimit == Cardinality(tasks) <= MaxTasks

\* Every pooled task with a deadline has its own entry in deadlineOrder, also
\* when it was removed and added again: only such entries can expire.
DeadlinesTracked == \A e \in tasks : e.task.deadline > 0 => e \in deadlineOrder

\* ExpireDeadlines takes the overdue tasks out of the pool, all of them and no
\* others, however many entries of removed and re-added tasks it finds.
ExpiryIsExact ==
    [][\A h \in Heights : ExpireDeadlines(h) =>
          tasks' = {e \in tasks : ~(e.task.deadline > 0 /\ h > e.task.deadline)}]_taskVars
=============================================================================
