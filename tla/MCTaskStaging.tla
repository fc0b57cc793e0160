--------------------------- MODULE MCTaskStaging ---------------------------
(* Model-checking instance of TaskStaging over TaskPool: three tasks, two of *)
(* them of the same fee per unit of compute, deadlines none, one and two;    *)
(* the change set adds the first two, removes the second and reports on one. *)
EXTENDS TaskStaging

MCComputeUnits == [tier \in ComputeTiers |-> IF tier = 1 THEN 1 ELSE 2]

TaskA == [name |-> "a", tier |-> 1, fee |-> 1, deadline |-> 0]
TaskB == [name |-> "b", tier |-> 2, fee |-> 3, deadline |-> 1]
TaskC == [name |-> "c", tier |-> 2, fee |-> 5, deadline |-> 2]

MCTasks == {TaskA, TaskB, TaskC}
MCAdditions == {TaskA, TaskB}
MCRemovals == {TaskB}
MCOutcomes == {TaskA}
=============================================================================
