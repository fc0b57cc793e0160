----------------------------- MODULE WebPipeline -----------------------------
(***************************************************************************)
(* The task pipeline of the web node (cmd/aichain-web): handlers publish   *)
(* tasks, the analyzer splits them, the automatic miner and mining         *)
(* requests compete for the subtasks, and dashboards are told of changes.  *)
(*                                                                         *)
(* RealNode.mu is released while a model computes an answer; a step of     *)
(* this module is one critical section.  What is computed is left out: an  *)
(* inference succeeds or fails.  Dashboards reload everything on any       *)
(* event, so an event channel is the number of events waiting in it.       *)
(***************************************************************************)
EXTENDS Naturals, Sequences, FiniteSets, SequencesExt

CONSTANTS Task,        \* tasks users publish
          Parts,       \* Task -> number of questions splitTask finds
          Request,     \* concurrent callers of handleMine
          Client,      \* dashboards
          Capacity,    \* capacity of an event channel
          TokenLength  \* length of LMSTUDIO_TOKEN

ASSUME WebAssumption ==
    /\ Parts \in [Task -> Nat \ {0}]
    /\ Capacity \in Nat \ {0}
    /\ TokenLength \in Nat

AutoMiner == "auto"
Analyzer == "analyzer"
Worker == {AutoMiner} \cup Request
Actor == Task \cup {Analyzer} \cup Worker

VARIABLES miner,         \* the autoMiner goroutine: starting, running or panicked
          tasks,         \* RealNode.tasks: identities, newest first
          status,        \* TaskView.Status
          shown,         \* TaskView.Subtasks, a copy: the statuses it shows
          subtasks,      \* RealNode.subtasks
          blocks,        \* number of blocks
          transactions,  \* tasks paid, in order
          mempoolSize,
          work,          \* the subtask a worker computes, 0 for none
          owed,          \* broadcasts an actor has yet to make
          clients,       \* connected dashboards
          events,        \* events in the channel of a dashboard
          loading,       \* dashboards that took an event and reload
          stale          \* dashboards that have not loaded since the last change

pool == <<tasks, status, shown, subtasks, blocks, transactions, mempoolSize>>
dashboards == <<clients, events, loading, stale>>
vars == <<miner, pool, work, owed, dashboards>>

Live == miner # "panicked"

Init ==
    /\ miner = "starting"
    /\ tasks = <<>>
    /\ status = [t \in Task |-> "None"]
    /\ shown = [t \in Task |-> <<>>]
    /\ subtasks = <<>>
    /\ blocks = 1
    /\ transactions = <<>>
    /\ mempoolSize = 0
    /\ work = [w \in Worker |-> 0]
    /\ owed = [a \in Actor |-> 0]
    /\ clients = {}
    /\ events = [c \in Client |-> 0]
    /\ loading = {}
    /\ stale = {}

-----------------------------------------------------------------------------
(* The first statement of autoMiner slices the token. *)
StartMiner ==
    /\ miner = "starting"
    /\ miner' = IF TokenLength < 20 THEN "panicked" ELSE "running"
    /\ UNCHANGED <<pool, work, owed, dashboards>>

(* A critical section that changes what dashboards show, made by actor a,  *)
(* which then broadcasts n events.                                         *)
Announce(a, n) ==
    /\ owed[a] = 0
    /\ owed' = [owed EXCEPT ![a] = n]
    /\ stale' = stale \cup clients
    /\ UNCHANGED <<miner, clients, events, loading>>

HandlePublishTask(t) ==
    /\ Live /\ status[t] = "None"
    /\ tasks' = <<t>> \o tasks
    /\ status' = [status EXCEPT ![t] = "Pending"]
    /\ mempoolSize' = mempoolSize + 1
    /\ Announce(t, 1)
    /\ UNCHANGED <<shown, subtasks, blocks, transactions, work>>

SplitTask(t) == [i \in 1..Parts[t] |-> [task |-> t, status |-> "Pending"]]

(* The subtasks of a pending task go to the end of the list. *)
SplitInto(sts, t) == IF status[t] = "Pending" THEN sts \o SplitTask(t) ELSE sts

(* One round of the analyzer: every pending task, in the order of the list. *)
TaskAnalyzer ==
    /\ Live /\ \E i \in DOMAIN tasks : status[tasks[i]] = "Pending"
    /\ status' = [t \in Task |-> IF status[t] = "Pending" THEN "Mining" ELSE status[t]]
    /\ shown' = [t \in Task |-> IF status[t] = "Pending"
                                THEN [i \in 1..Parts[t] |-> "Pending"] ELSE shown[t]]
    /\ subtasks' = FoldLeft(SplitInto, subtasks, tasks)
    /\ Announce(Analyzer, 1)
    /\ UNCHANGED <<tasks, blocks, transactions, mempoolSize, work>>

(* Mutant of Claimable: a running subtask may be claimed again. *)
ClaimableAgain(i) == subtasks[i].status \in {"Pending", "Running"}

Claimable(i) == subtasks[i].status = "Pending"

Claim(w, i) ==
    /\ Live /\ work[w] = 0
    /\ Claimable(i)
    /\ subtasks' = [subtasks EXCEPT ![i].status = "Running"]
    /\ work' = [work EXCEPT ![w] = i]
    /\ Announce(w, 1)
    /\ UNCHANGED <<tasks, status, shown, blocks, transactions, mempoolSize>>

(* autoMiner takes the first pending subtask; a request names one. *)
ClaimFirst ==
    /\ miner = "running"
    /\ \E i \in DOMAIN subtasks :
          (\A j \in 1..i - 1 : ~Claimable(j)) /\ Claim(AutoMiner, i)

ClaimNamed(r) == \E i \in DOMAIN subtasks : Claim(r, i)

(* The subtasks of t, in the order of the list. *)
FilterSubtasks(sts, t) ==
    FoldLeft(LAMBDA kept, st : IF st.task = t THEN Append(kept, st) ELSE kept, <<>>, sts)

(* Mutant of AllDone: a subtask that is running counts as done. *)
AllClaimed(sts, t) == \A i \in DOMAIN sts : sts[i].task = t => sts[i].status # "Pending"

AllDone(sts, t) ==
    \A i \in DOMAIN sts : sts[i].task = t => sts[i].status \in {"Completed", "Failed"}

(* Mutant of Outcome: the error is reported and the subtask left alone. *)
OutcomeIgnored(ok) == IF ok THEN "Completed" ELSE "Running"

Outcome(ok) == IF ok THEN "Completed" ELSE "Failed"

(* When all its subtasks have ended the parent is completed and paid. *)
Aggregate(sts, t) ==
    LET seen == FilterSubtasks(sts, t) IN
    IF AllDone(sts, t)
    THEN /\ status' = [status EXCEPT ![t] = "Completed"]
         /\ shown' = [shown EXCEPT ![t] = [i \in DOMAIN seen |-> seen[i].status]]
         /\ blocks' = blocks + 1
         /\ transactions' = Append(transactions, t)
         /\ mempoolSize' = IF mempoolSize > 0 THEN mempoolSize - 1 ELSE 0
    ELSE UNCHANGED <<status, shown, blocks, transactions, mempoolSize>>

(* The answer, an error or the timeout. *)
Finish(w, ok) ==
    LET t == subtasks[work[w]].task
        sts == [subtasks EXCEPT ![work[w]].status = Outcome(ok)]
    IN  /\ Live /\ work[w] # 0
        /\ subtasks' = sts
        /\ work' = [work EXCEPT ![w] = 0]
        /\ Aggregate(sts, t)
        /\ Announce(w, 2)
        /\ UNCHANGED tasks

-----------------------------------------------------------------------------
(* Dashboards *)

(* Mutant of HasRoom: one place of the channel is never used. *)
HasRoomBelow(n) == n + 1 < Capacity

HasRoom(n) == n < Capacity

(* An event that finds a channel full is dropped. *)
Broadcast(a) ==
    /\ Live /\ owed[a] > 0
    /\ owed' = [owed EXCEPT ![a] = @ - 1]
    /\ events' = [c \in Client |-> IF c \in clients /\ HasRoom(events[c])
                                   THEN events[c] + 1 ELSE events[c]]
    /\ UNCHANGED <<miner, pool, work, clients, loading, stale>>

Connect(c) ==
    /\ Live /\ c \notin clients
    /\ clients' = clients \cup {c}
    /\ UNCHANGED <<miner, pool, work, owed, events, loading, stale>>

Disconnect(c) ==
    /\ Live /\ c \in clients
    /\ clients' = clients \ {c}
    /\ events' = [events EXCEPT ![c] = 0]
    /\ loading' = loading \ {c}
    /\ stale' = stale \ {c}
    /\ UNCHANGED <<miner, pool, work, owed>>

Deliver(c) ==
    /\ Live /\ events[c] > 0
    /\ events' = [events EXCEPT ![c] = @ - 1]
    /\ loading' = loading \cup {c}
    /\ UNCHANGED <<miner, pool, work, owed, clients, stale>>

Load(c) ==
    /\ Live /\ c \in loading
    /\ loading' = loading \ {c}
    /\ stale' = stale \ {c}
    /\ UNCHANGED <<miner, pool, work, owed, clients, events>>

Next ==
    \/ StartMiner
    \/ \E t \in Task : HandlePublishTask(t)
    \/ TaskAnalyzer
    \/ ClaimFirst
    \/ \E r \in Request : ClaimNamed(r)
    \/ \E w \in Worker, ok \in BOOLEAN : Finish(w, ok)
    \/ \E a \in Actor : Broadcast(a)
    \/ \E c \in Client : Connect(c) \/ Disconnect(c) \/ Deliver(c) \/ Load(c)

(* The goroutines' loops go on, an inference ends (it has a timeout), and  *)
(* a broadcast never waits.  Nothing is assumed of users and dashboards.   *)
Fairness ==
    /\ WF_vars(StartMiner)
    /\ WF_vars(TaskAnalyzer)
    /\ WF_vars(ClaimFirst)
    /\ \A w \in Worker : WF_vars(\E ok \in BOOLEAN : Finish(w, ok))
    /\ \A a \in Actor : WF_vars(Broadcast(a))

Spec == Init /\ [][Next]_vars /\ Fairness

-----------------------------------------------------------------------------
(* Properties *)

Ended == {"Completed", "Failed"}
Statuses(t) == {subtasks[i].status : i \in {j \in DOMAIN subtasks : subtasks[j].task = t}}

(* A task is completed exactly when it was split and each of its subtasks  *)
(* ended, and then it shows them all as ended, whoever mined them.         *)
CompletedMeansAllEnded ==
    \A t \in Task :
        /\ status[t] = "Completed" <=> Statuses(t) # {} /\ Statuses(t) \subseteq Ended
        /\ status[t] = "Completed" =>
              Len(shown[t]) = Parts[t] /\ \A i \in 1..Parts[t] : shown[t][i] \in Ended

(* Every completed task produced one block and one payment; no other task  *)
(* produced any.                                                           *)
PaidOnce ==
    /\ blocks = 1 + Len(transactions)
    /\ IsInjective(transactions)
    /\ ToSet(transactions) = {t \in Task : status[t] = "Completed"}

(* The reported mempool size is the number of tasks not completed: the     *)
(* floor at zero never hides a lost count.                                 *)
MempoolExact ==
    mempoolSize = Cardinality({t \in Task : status[t] \in {"Pending", "Mining"}})

(* A running subtask has one worker, and a worker's subtask is running:    *)
(* none is computed twice and none is left behind.                         *)
OneWorker ==
    \A i \in DOMAIN subtasks :
        Cardinality({w \in Worker : work[w] = i}) = IF subtasks[i].status = "Running" THEN 1 ELSE 0

(* Dropping events at a full channel loses no news: a dashboard that has   *)
(* not seen the last change still has an event to come.                    *)
ChangeReachesDashboard ==
    \A c \in stale : events[c] > 0 \/ c \in loading \/ \E a \in Actor : owed[a] > 0

(* Every published task is completed in the end, also when inferences fail. *)
TaskCompletes == \A t \in Task : status[t] = "Pending" ~> status[t] = "Completed"

(* The books of the web node balance between any two critical sections:    *)
(* tasks, subtasks, blocks, payments and the mempool counter agree.        *)
BooksBalance == CompletedMeansAllEnded /\ PaidOnce /\ MempoolExact

=============================================================================
