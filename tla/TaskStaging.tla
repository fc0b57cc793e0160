---------------------------- MODULE TaskStaging ----------------------------
(***************************************************************************)
(* TaskChangeSet, pkg/task/task_staging.go: removals, additions and        *)
(* results are staged, then applied to the task pool and the verifier in   *)
(* one call.                                                               *)
(*                                                                         *)
(* Apply holds the change set's own lock only.  The pool and the verifier  *)
(* lock each call for itself, so Apply is one step per call it makes, in   *)
(* the order the maps happen to be iterated, and other users of the two    *)
(* come between.  It returns at the first call that fails and leaves what  *)
(* it has done.                                                            *)
(***************************************************************************)
EXTENDS TaskPool, Sequences

CONSTANTS
    Additions,   \* tasks that may be staged for addition
    Removals,    \* tasks that may be staged for removal
    Assignments, \* tasks that may be staged for assignment
    Outcomes,    \* tasks whose result may be staged
    Results,     \* a result and its miner
    NoState      \* of ResultVerifier

ASSUME StagedAssumption ==
    Additions \subseteq Tasks /\ Removals \subseteq Tasks /\ Assignments \subseteq Tasks
        /\ Outcomes \subseteq Tasks

VARIABLES
    states, byHeight, finalized, height,  \* the verifier's state
    toAdd, toRemove, toAssign, toSubmit,  \* cs.toAdd and the others
    applied,                              \* cs.applied
    at,                                   \* where the call of Apply is
    todo,                                 \* what is left of the map it iterates
    added                                 \* what the latest Apply has added

verifier == <<states, byHeight, finalized, height>>
staged == <<toAdd, toRemove, toAssign, toSubmit>>
apply == <<applied, at, todo, added>>
stagingVars == <<taskVars, verifier, staged, apply>>

\* Challenges and finalizations do not affect SubmitResult, the only call Apply
\* makes; ResultVerifier has them.
Verifier == INSTANCE ResultVerifier
              WITH Tasks <- Outcomes, Challengers <- {}, ChallengePeriod <- 1,
                   MaxHeight <- 0, MaxChallenges <- 0

StagingInit ==
    /\ TaskInit /\ Verifier!VerifierInit
    /\ toAdd = {} /\ toRemove = {} /\ toAssign = {} /\ toSubmit = {}
    /\ applied = FALSE /\ at = "open" /\ todo = {} /\ added = {}

-----------------------------------------------------------------------------
(* Staging; every one of these takes cs.mu, which Apply holds *)

StageAddition(t) ==
    /\ at = "open"
    /\ toAdd' = toAdd \cup {t}
    /\ UNCHANGED <<taskVars, verifier, toRemove, toAssign, toSubmit, apply>>

StageRemoval(t) ==
    /\ at = "open"
    /\ toRemove' = toRemove \cup {t}
    /\ UNCHANGED <<taskVars, verifier, toAdd, toAssign, toSubmit, apply>>

\* Apply never looks at the assignments.
StageAssignment(t) ==
    /\ at = "open"
    /\ toAssign' = toAssign \cup {t}
    /\ UNCHANGED <<taskVars, verifier, toAdd, toRemove, toSubmit, apply>>

StageResult(t) ==
    /\ at = "open"
    /\ toSubmit' = toSubmit \cup {t}
    /\ UNCHANGED <<taskVars, verifier, toAdd, toRemove, toAssign, apply>>

Abort ==
    /\ at = "open"
    /\ toAdd' = {} /\ toRemove' = {} /\ toAssign' = {} /\ toSubmit' = {}
    /\ applied' = FALSE /\ added' = {}
    /\ UNCHANGED <<taskVars, verifier, at, todo>>

-----------------------------------------------------------------------------
(* Apply *)

MayApply == at = "open" /\ ~applied

Apply ==
    /\ MayApply
    /\ at' = "remove" /\ todo' = toRemove /\ added' = {}
    /\ UNCHANGED <<taskVars, verifier, staged, applied>>

\* The next map of the three, or the end.
ApplyNext ==
    /\ at # "open" /\ todo = {}
    /\ \/ at = "remove" /\ at' = "add" /\ todo' = toAdd /\ UNCHANGED applied
       \/ at = "add" /\ at' = "submit" /\ todo' = toSubmit /\ UNCHANGED applied
       \/ /\ at = "submit"
          /\ at' = "open" /\ applied' = TRUE
          /\ UNCHANGED todo
    /\ UNCHANGED <<taskVars, verifier, staged, added>>

ApplyRemoval(t) ==
    /\ at = "remove" /\ t \in todo
    /\ RemoveTask(t)
    /\ todo' = todo \ {t}
    /\ UNCHANGED <<verifier, staged, applied, at, added>>

ApplyAddition(t) ==
    /\ at = "add" /\ t \in todo
    /\ AddTask(t)
    /\ todo' = todo \ {t} /\ added' = added \cup {t}
    /\ UNCHANGED <<verifier, staged, applied, at>>

\* A mutation: an addition that fails is passed over.
ApplyAdditionFailsOn(t) ==
    /\ at = "add" /\ t \in todo
    /\ Pooled(t) \/ FeeTooLow(t)
    /\ todo' = todo \ {t}
    /\ UNCHANGED <<taskVars, verifier, staged, applied, at, added>>

ApplyAdditionFails(t) ==
    /\ at = "add" /\ t \in todo
    /\ Pooled(t) \/ FeeTooLow(t)
    /\ at' = "open" /\ todo' = {}
    /\ UNCHANGED <<taskVars, verifier, staged, applied, added>>

ApplyResult(t) ==
    /\ at = "submit" /\ t \in todo
    /\ \E r \in Results : Verifier!SubmitResult(t, r)
    /\ todo' = todo \ {t}
    /\ UNCHANGED <<taskVars, staged, applied, at, added>>

ApplyResultFails(t) ==
    /\ at = "submit" /\ t \in todo
    /\ Verifier!Submitted(t)
    /\ at' = "open" /\ todo' = {}
    /\ UNCHANGED <<taskVars, verifier, staged, applied, added>>

-----------------------------------------------------------------------------
(* Everyone else *)

Pool == TaskNext /\ UNCHANGED <<verifier, staged, apply>>

Submit(t) ==
    /\ \E r \in Results : Verifier!SubmitResult(t, r)
    /\ UNCHANGED <<taskVars, staged, apply>>

StagingNext ==
    \/ Pool \/ Abort \/ Apply \/ ApplyNext
    \/ \E t \in Additions : StageAddition(t) \/ ApplyAddition(t) \/ ApplyAdditionFails(t)
    \/ \E t \in Removals : StageRemoval(t) \/ ApplyRemoval(t)
    \/ \E t \in Assignments : StageAssignment(t)
    \/ \E t \in Outcomes : StageResult(t) \/ ApplyResult(t) \/ ApplyResultFails(t) \/ Submit(t)

StagingSpec == StagingInit /\ [][StagingNext]_stagingVars

-----------------------------------------------------------------------------
(* Properties *)

\* Apply may fail half way, and others may add and remove the same tasks between
\* its calls; it still never submits a result before all its additions are made.
ResultsAfterAdditions == at = "submit" => added = toAdd

=============================================================================
