--------------------------- MODULE TaskPool_proofs --------------------------
(***************************************************************************)
(* Proofs about TaskPool, for every set of tasks and every limit, and      *)
(* about TaskStaging, whose Apply works on the same pool.                  *)
(***************************************************************************)
EXTENDS TaskStaging, FiniteSetTheorems, TLAPS

\* The inductive invariant.  WithinLimit needs the map to be finite, and the
\* trim of AddTask needs the heap to mirror the map.
IInv ==
    /\ TaskTypeOK
    /\ HeapMirrorsMap
    /\ IsFiniteSet(tasks) /\ WithinLimit
    /\ DeadlinesTracked

\* Deleting tasks keeps a map's entries unique, finite and within the limit.
LEMMA DeleteFacts ==
    ASSUME IInv, NEW gone
    PROVE  LET m == Delete(tasks, gone)
           IN  /\ m \subseteq tasks
               /\ \A e, f \in m : e.task = f.task => e = f
               /\ IsFiniteSet(m) /\ Cardinality(m) <= MaxTasks
<1> DEFINE m == Delete(tasks, gone)
<1>1. m \subseteq tasks
  BY DEF Delete
<1>2. \A e, f \in m : e.task = f.task => e = f
  BY <1>1 DEF IInv, TaskTypeOK
<1>3. IsFiniteSet(m) /\ Cardinality(m) <= Cardinality(tasks)
  BY <1>1, FS_Subset DEF IInv
<1>4. Cardinality(m) \in Nat /\ Cardinality(tasks) \in Nat
  BY <1>3, FS_CardinalityType DEF IInv
<1>5. Cardinality(m) <= MaxTasks
  BY <1>3, <1>4, LimitsAssumption DEF IInv, WithinLimit
<1> QED BY <1>1, <1>2, <1>3, <1>5

\* Adding a task: the map and the heap take the same entry, and when the pool
\* overflows lose the same one.
LEMMA AddStep ==
    ASSUME IInv, NEW t \in Tasks, AddTask(t)
    PROVE  IInv'
<1> DEFINE entry == [task |-> t, seq |-> sequenceCounter]
           grown == tasks \cup {entry}
<1>1. entry \in Entry /\ entry.task = t
  BY DEF IInv, TaskTypeOK, Entry
<1>2. \A e \in tasks : e.task # t
  BY DEF AddTask, Pooled
<1>3. entry \notin tasks
  BY <1>1, <1>2
<1>4. \A e, f \in grown : e.task = f.task => e = f
  BY <1>1, <1>2 DEF IInv, TaskTypeOK
<1>5. grown \subseteq Entry
  BY <1>1 DEF IInv, TaskTypeOK
<1>6. /\ IsFiniteSet(grown)
      /\ Cardinality(grown) = Cardinality(tasks) + 1
      /\ Cardinality(tasks) \in Nat
  BY <1>3, FS_AddElement, FS_CardinalityType DEF IInv
<1>7. prioritized \cup {entry} = grown
  BY DEF IInv, HeapMirrorsMap
<1>8. /\ tasks' = prioritized' /\ tasks' \subseteq grown
      /\ IsFiniteSet(tasks') /\ Cardinality(tasks') <= MaxTasks
  <2>1. CASE ~OverLimit(grown)
    <3>1. tasks' = grown /\ prioritized' = grown
      BY <2>1, <1>7 DEF AddTask
    <3>2. Cardinality(grown) <= MaxTasks
      BY <2>1, <1>6, LimitsAssumption DEF OverLimit
    <3> QED BY <3>1, <3>2, <1>6
  <2>2. CASE OverLimit(grown)
    <3>1. PICK worst \in Popped(grown) : /\ tasks' = Delete(grown, {worst.task})
                                         /\ prioritized' = grown \ {worst}
      BY <2>2, <1>7 DEF AddTask
    <3>2. worst \in grown
      BY <3>1 DEF Popped
    <3>3. Delete(grown, {worst.task}) = grown \ {worst}
      BY <3>2, <1>4 DEF Delete
    <3>4. /\ IsFiniteSet(grown \ {worst})
          /\ Cardinality(grown \ {worst}) = Cardinality(grown) - 1
      BY <3>2, <1>6, FS_RemoveElement
    <3>5. Cardinality(grown \ {worst}) <= MaxTasks
      BY <3>4, <1>6, LimitsAssumption DEF IInv, WithinLimit
    <3> QED BY <3>1, <3>3, <3>4, <3>5
  <2> QED BY <2>1, <2>2
<1>9. deadlineOrder' = IF HasDeadline(t) THEN deadlineOrder \cup {entry} ELSE deadlineOrder
  BY DEF AddTask
<1>10. TaskTypeOK'
  <2>1. \A e, f \in tasks' : e.task = f.task => e = f
    BY <1>4, <1>8
  <2>2. deadlineOrder' \subseteq Entry
    BY <1>1, <1>9 DEF IInv, TaskTypeOK
  <2>3. sequenceCounter' \in Nat /\ minFeeRate' \in Nat /\ lastFeeUpdate' \in BOOLEAN
    BY DEF IInv, TaskTypeOK, AddTask
  <2> QED BY <2>1, <2>2, <2>3, <1>5, <1>8 DEF TaskTypeOK
<1>11. DeadlinesTracked'
  <2> SUFFICES ASSUME NEW e \in tasks', e.task.deadline > 0
               PROVE  e \in deadlineOrder'
    BY DEF DeadlinesTracked
  <2>1. CASE e = entry
    BY <2>1, <1>1, <1>9 DEF HasDeadline
  <2>2. CASE e \in tasks
    BY <2>2, <1>9 DEF IInv, DeadlinesTracked
  <2> QED BY <2>1, <2>2, <1>8
<1> QED BY <1>8, <1>10, <1>11 DEF IInv, HeapMirrorsMap, WithinLimit

\* Removing a task, whose deadline entry may stay behind.
LEMMA RemoveStep ==
    ASSUME IInv, NEW t \in Tasks, RemoveTask(t)
    PROVE  IInv'
<1>1. tasks' = Delete(tasks, {t}) /\ prioritized' = tasks'
  BY DEF RemoveTask
<1>2. UNCHANGED <<deadlineOrder, sequenceCounter, minFeeRate, lastFeeUpdate>>
  BY DEF RemoveTask
<1>3. TaskTypeOK'
  BY <1>1, <1>2, DeleteFacts DEF IInv, TaskTypeOK
<1>4. DeadlinesTracked'
  BY <1>1, <1>2, DeleteFacts DEF IInv, DeadlinesTracked
<1> QED BY <1>1, <1>3, <1>4, DeleteFacts DEF IInv, HeapMirrorsMap, WithinLimit

\* Expiry: an entry that leaves deadlineOrder takes its task out of the map.
LEMMA ExpireStep ==
    ASSUME IInv, NEW h \in Heights, ExpireDeadlines(h)
    PROVE  IInv'
<1> DEFINE expired == {e \in deadlineOrder : Overdue(e.task, h)}
<1>1. tasks' = Delete(tasks, {e.task : e \in expired}) /\ prioritized' = tasks'
  BY DEF ExpireDeadlines
<1>2. /\ deadlineOrder' = deadlineOrder \ expired
      /\ UNCHANGED <<sequenceCounter, minFeeRate, lastFeeUpdate>>
  BY DEF ExpireDeadlines
<1>3. TaskTypeOK'
  BY <1>1, <1>2, DeleteFacts DEF IInv, TaskTypeOK
<1>4. DeadlinesTracked'
  <2> SUFFICES ASSUME NEW e \in tasks', e.task.deadline > 0
               PROVE  e \in deadlineOrder'
    BY DEF DeadlinesTracked
  <2>1. e \in tasks /\ e.task \notin {f.task : f \in expired}
    BY <1>1 DEF Delete
  <2>2. e \in deadlineOrder /\ e \notin expired
    BY <2>1 DEF IInv, DeadlinesTracked
  <2> QED BY <2>2, <1>2
<1> QED BY <1>1, <1>3, <1>4, DeleteFacts DEF IInv, HeapMirrorsMap, WithinLimit

LEMMA InitIInv == TaskInit => IInv
<1> SUFFICES ASSUME TaskInit PROVE IInv
  OBVIOUS
<1>1. IsFiniteSet(tasks) /\ Cardinality(tasks) = 0
  BY FS_EmptySet DEF TaskInit
<1>2. TaskTypeOK /\ HeapMirrorsMap /\ DeadlinesTracked
  BY DEF TaskInit, TaskTypeOK, HeapMirrorsMap, DeadlinesTracked
<1> QED BY <1>1, <1>2, LimitsAssumption DEF IInv, WithinLimit

LEMMA NextIInv == IInv /\ [TaskNext]_taskVars => IInv'
<1> SUFFICES ASSUME IInv, [TaskNext]_taskVars PROVE IInv'
  OBVIOUS
<1>1. ASSUME NEW t \in Tasks, AddTask(t) PROVE IInv'
  BY <1>1, AddStep
<1>2. ASSUME NEW t \in Tasks, RemoveTask(t) PROVE IInv'
  BY <1>2, RemoveStep
<1>3. ASSUME NEW h \in Heights, ExpireDeadlines(h) PROVE IInv'
  BY <1>3, ExpireStep
<1>4. CASE UpdateMinFeeRate
  <2>1. UNCHANGED <<tasks, prioritized, deadlineOrder, sequenceCounter>>
    BY <1>4 DEF UpdateMinFeeRate
  <2>2. minFeeRate' \in Nat /\ lastFeeUpdate' \in BOOLEAN
    BY <1>4 DEF UpdateMinFeeRate, IInv, TaskTypeOK
  <2>3. TaskTypeOK'
    BY <2>1, <2>2 DEF IInv, TaskTypeOK
  <2> QED BY <2>1, <2>3 DEF IInv, HeapMirrorsMap, WithinLimit, DeadlinesTracked
<1>5. CASE UNCHANGED taskVars
  BY <1>5 DEF taskVars, IInv, TaskTypeOK, HeapMirrorsMap, WithinLimit, DeadlinesTracked
<1> QED BY <1>1, <1>2, <1>3, <1>4, <1>5 DEF TaskNext

\* The invariant of the pool's three indexes, in every reachable state.
THEOREM Invariance == TaskSpec => []IInv
<1> QED BY InitIInv, NextIInv, PTL DEF TaskSpec

\* The pool's maps and counters keep their types, one entry per task ID.
THEOREM TypeCorrect == TaskSpec => []TaskTypeOK
<1>1. IInv => TaskTypeOK
  BY DEF IInv
<1> QED BY Invariance, <1>1, PTL

\* The fee heap offers miners exactly the tasks of the map.
THEOREM HeapIsExact == TaskSpec => []HeapMirrorsMap
<1>1. IInv => HeapMirrorsMap
  BY DEF IInv
<1> QED BY Invariance, <1>1, PTL

\* AddTask's trim keeps the pool within maxTasks.
THEOREM LimitIsKept == TaskSpec => []WithinLimit
<1>1. IInv => WithinLimit
  BY DEF IInv
<1> QED BY Invariance, <1>1, PTL

\* Every pooled task with a deadline can expire.
THEOREM DeadlinesAreTracked == TaskSpec => []DeadlinesTracked
<1>1. IInv => DeadlinesTracked
  BY DEF IInv
<1> QED BY Invariance, <1>1, PTL

\* ExpireDeadlines removes the overdue tasks and no others.
THEOREM ExpiryExact == TaskSpec => ExpiryIsExact
<1>1. ASSUME IInv, NEW h \in Heights, ExpireDeadlines(h)
      PROVE  tasks' = {e \in tasks : ~(e.task.deadline > 0 /\ h > e.task.deadline)}
  <2> DEFINE expired == {e \in deadlineOrder : Overdue(e.task, h)}
  <2>1. tasks' = {e \in tasks : e.task \notin {f.task : f \in expired}}
    BY <1>1 DEF ExpireDeadlines, Delete
  <2>2. ASSUME NEW e \in tasks
        PROVE  e.task \in {f.task : f \in expired} <=> e.task.deadline > 0 /\ h > e.task.deadline
    <3>1. e.task.deadline > 0 => e \in deadlineOrder
      BY <1>1 DEF IInv, DeadlinesTracked
    <3>2. ASSUME e.task.deadline > 0 /\ h > e.task.deadline
          PROVE  e \in expired
      BY <3>1, <3>2 DEF Overdue
    <3>3. ASSUME NEW f \in expired, f.task = e.task
          PROVE  e.task.deadline > 0 /\ h > e.task.deadline
      BY <3>3 DEF Overdue
    <3> QED BY <3>2, <3>3
  <2> QED BY <2>1, <2>2
<1>2. IInv /\ [TaskNext]_taskVars =>
        [\A h \in Heights : ExpireDeadlines(h) =>
            tasks' = {e \in tasks : ~(e.task.deadline > 0 /\ h > e.task.deadline)}]_taskVars
  BY <1>1
<1> QED BY <1>2, Invariance, PTL DEF TaskSpec, ExpiryIsExact
-----------------------------------------------------------------------------
(* Staging *)

\* Where Apply is, and what it has left and has added there.  What is staged
\* does not change while Apply runs, so the additions made and the additions
\* left are the staged ones throughout.
ApplyProgress ==
    /\ at \in {"open", "remove", "add", "submit"}
    /\ toAdd \subseteq Additions /\ toRemove \subseteq Removals /\ toSubmit \subseteq Outcomes
    /\ at = "remove" => todo \subseteq toRemove /\ added = {}
    /\ at = "add" => added \subseteq toAdd /\ todo = toAdd \ added
    /\ at = "submit" => todo \subseteq toSubmit /\ added = toAdd

LEMMA StagingInitProgress == StagingInit => ApplyProgress
<1> QED BY DEF StagingInit, ApplyProgress

LEMMA StagingNextProgress == ApplyProgress /\ [StagingNext]_stagingVars => ApplyProgress'
<1> SUFFICES ASSUME ApplyProgress, [StagingNext]_stagingVars PROVE ApplyProgress'
  OBVIOUS
<1>1. CASE Pool
  BY <1>1 DEF ApplyProgress, Pool, staged, apply
<1>2. CASE Abort
  BY <1>2 DEF ApplyProgress, Abort
<1>3. CASE Apply
  BY <1>3 DEF ApplyProgress, Apply, MayApply, staged
<1>4. CASE ApplyNext
  <2>1. UNCHANGED <<toAdd, toRemove, toSubmit, added>> /\ todo = {}
    BY <1>4 DEF ApplyNext, staged
  <2>2. CASE at = "remove" /\ at' = "add" /\ todo' = toAdd
    BY <2>1, <2>2 DEF ApplyProgress
  <2>3. CASE at = "add" /\ at' = "submit" /\ todo' = toSubmit
    BY <2>1, <2>3 DEF ApplyProgress
  <2>4. CASE at = "submit" /\ at' = "open"
    BY <2>1, <2>4 DEF ApplyProgress
  <2> QED BY <1>4, <2>2, <2>3, <2>4 DEF ApplyNext
<1>5. ASSUME NEW t \in Additions, StageAddition(t) PROVE ApplyProgress'
  BY <1>5 DEF ApplyProgress, StageAddition, apply
<1>6. ASSUME NEW t \in Additions, ApplyAddition(t) PROVE ApplyProgress'
  BY <1>6 DEF ApplyProgress, ApplyAddition, staged
<1>7. ASSUME NEW t \in Additions, ApplyAdditionFails(t) PROVE ApplyProgress'
  BY <1>7 DEF ApplyProgress, ApplyAdditionFails, staged
<1>8. ASSUME NEW t \in Removals, StageRemoval(t) PROVE ApplyProgress'
  BY <1>8 DEF ApplyProgress, StageRemoval, apply
<1>9. ASSUME NEW t \in Removals, ApplyRemoval(t) PROVE ApplyProgress'
  BY <1>9 DEF ApplyProgress, ApplyRemoval, staged
<1>10. ASSUME NEW t \in Assignments, StageAssignment(t) PROVE ApplyProgress'
  BY <1>10 DEF ApplyProgress, StageAssignment, apply
<1>11. ASSUME NEW t \in Outcomes, StageResult(t) PROVE ApplyProgress'
  BY <1>11 DEF ApplyProgress, StageResult, apply
<1>12. ASSUME NEW t \in Outcomes, ApplyResult(t) PROVE ApplyProgress'
  BY <1>12 DEF ApplyProgress, ApplyResult, staged
<1>13. ASSUME NEW t \in Outcomes, ApplyResultFails(t) PROVE ApplyProgress'
  BY <1>13 DEF ApplyProgress, ApplyResultFails, staged
<1>14. ASSUME NEW t \in Outcomes, Submit(t) PROVE ApplyProgress'
  BY <1>14 DEF ApplyProgress, Submit, staged, apply
<1>15. CASE UNCHANGED stagingVars
  BY <1>15 DEF ApplyProgress, stagingVars, staged, apply
<1> QED BY <1>1, <1>2, <1>3, <1>4, <1>5, <1>6, <1>7, <1>8, <1>9, <1>10, <1>11, <1>12,
           <1>13, <1>14, <1>15 DEF StagingNext

\* Apply submits no result before all its additions are made, whoever else
\* uses the pool between its calls and wherever it fails.
THEOREM ResultsComeLast == StagingSpec => []ResultsAfterAdditions
<1>1. ApplyProgress => ResultsAfterAdditions
  BY DEF ApplyProgress, ResultsAfterAdditions
<1> QED BY <1>1, StagingInitProgress, StagingNextProgress, PTL DEF StagingSpec

\* Apply works on the pool through the pool's own operations: with staging the
\* pool still behaves as TaskPool's specification says.
THEOREM StagingImplementsPool == StagingSpec => TaskSpec
<1>1. StagingInit => TaskInit
  BY DEF StagingInit
<1>2. [StagingNext]_stagingVars => [TaskNext]_taskVars
  <2> SUFFICES ASSUME [StagingNext]_stagingVars PROVE [TaskNext]_taskVars
    OBVIOUS
  <2>1. CASE Pool \/ Abort \/ Apply \/ ApplyNext
    BY <2>1 DEF Pool, Abort, Apply, ApplyNext
  <2>2. ASSUME NEW t \in Additions, StageAddition(t) \/ ApplyAddition(t) \/ ApplyAdditionFails(t)
        PROVE  [TaskNext]_taskVars
    <3>1. t \in Tasks
      BY StagedAssumption
    <3> QED BY <2>2, <3>1 DEF StageAddition, ApplyAddition, ApplyAdditionFails, TaskNext
  <2>3. ASSUME NEW t \in Removals, StageRemoval(t) \/ ApplyRemoval(t)
        PROVE  [TaskNext]_taskVars
    <3>1. t \in Tasks
      BY StagedAssumption
    <3> QED BY <2>3, <3>1 DEF StageRemoval, ApplyRemoval, TaskNext
  <2>4. ASSUME NEW t \in Assignments, StageAssignment(t) PROVE [TaskNext]_taskVars
    BY <2>4 DEF StageAssignment
  <2>5. ASSUME NEW t \in Outcomes,
               StageResult(t) \/ ApplyResult(t) \/ ApplyResultFails(t) \/ Submit(t)
        PROVE  [TaskNext]_taskVars
    BY <2>5 DEF StageResult, ApplyResult, ApplyResultFails, Submit
  <2>6. CASE UNCHANGED stagingVars
    BY <2>6 DEF stagingVars
  <2> QED BY <2>1, <2>2, <2>3, <2>4, <2>5, <2>6 DEF StagingNext
<1> QED BY <1>1, <1>2, PTL DEF StagingSpec, TaskSpec

\* Hence the heap mirrors the map, the limit holds and deadlines are tracked
\* while change sets are applied.
THEOREM StagingKeepsIndexes == StagingSpec => [](HeapMirrorsMap /\ WithinLimit /\ DeadlinesTracked)
<1>1. IInv => HeapMirrorsMap /\ WithinLimit /\ DeadlinesTracked
  BY DEF IInv
<1> QED BY <1>1, StagingImplementsPool, Invariance, PTL
=============================================================================
