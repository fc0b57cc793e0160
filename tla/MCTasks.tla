------------------------------ MODULE MCTasks -------------------------------
(* Tasks: the pool with the change set that is applied to it, and the miners *)
(* they are handed to.  The two share nothing: a behaviour is of one or of   *)
(* the other, and what the other starts with stays.                          *)
EXTENDS MCTaskStaging, MCDispatch

VARIABLE part

TasksInit == part \in {"pool", "dispatch"} /\ StagingInit /\ Init

TasksNext ==
    \/ part = "pool" /\ StagingNext /\ UNCHANGED <<part, vars>>
    \/ part = "dispatch" /\ Next /\ UNCHANGED <<part, stagingVars>>

TasksSpec == TasksInit /\ [][TasksNext]_<<part, stagingVars, vars>>
=============================================================================
