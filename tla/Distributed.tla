---------------------------- MODULE Distributed ----------------------------
(***************************************************************************)
(* Distributed inference, package pkg/compute/distributed: the sharding    *)
(* plan, the Coordinator that runs a model's layers with checkpoints and   *)
(* recovers from failed miners, and the PipelineExecutor whose stages hand *)
(* micro-batches to each other through channels.                           *)
(*                                                                         *)
(* The caller builds a plan or a schedule and runs one of the two over it, *)
(* so a session is one or the other.  A tensor is its origin: the call it  *)
(* is the input of and how many layers it went through.  The all-reduce is *)
(* skipped, since nothing gives a coordinator a ring.                      *)
(***************************************************************************)
EXTENDS Integers, Sequences, FiniteSets, FiniteSetsExt, Functions

CONSTANTS
    Configs,             \* what a caller may ask for
    CheckpointInterval,  \* layers between two checkpoints
    MaxCalls             \* bound on the calls of Execute in a session

ASSUME ConfigsAssumption ==
    Configs \subseteq [miners : Nat \ {0}, layers : Nat, heads : Nat, batches : Nat \ {0}]
ASSUME IntervalAssumption == CheckpointInterval \in Nat \ {0}
ASSUME CallsAssumption == MaxCalls \in Nat

VARIABLES
    kind,         \* "none", "coordinator" or "pipeline"
    cfg,          \* the configuration the session was built from
    call,         \* how often Execute was called
    cancelled,    \* whether the context of the call is done
    phase,        \* where the call of Execute is, or "crashed" with the process
    \* The Coordinator
    status,       \* the session's status
    layer,        \* the layer the forward pass is at
    checkpoints,  \* activations by layer
    progress,     \* LayersCompleted of each miner
    failed,       \* miners whose status is MinerFailed
    recovery,     \* the calls of RecoverFromCheckpoint, one per miner
    \* The PipelineExecutor
    queues,       \* stageQueues, by the number of stages before each
    running,      \* stages whose goroutine has not returned
    hand,         \* the micro-batch a stage works on, if any
    fed,          \* micro-batches fed
    results,      \* what the last stage delivered, in order
    old,          \* goroutines of failed calls that have not returned
    spoiled       \* whether a call has failed, a history variable

coordinator == <<status, layer, checkpoints, progress, failed, recovery>>
leftover == <<old, spoiled>>
pipeline == <<queues, running, hand, fed, results, leftover>>
sessionVars == <<kind, cfg, call, cancelled, phase, coordinator, pipeline>>

-----------------------------------------------------------------------------
(* Sharding *)

\* A mutation: the remainder goes to the first part only.
PartSizeUneven(total, n, i) == total \div n + IF i = 0 THEN total % n ELSE 0

\* The i-th of n parts of total; the first total % n parts get one more.
PartSize(total, n, i) == total \div n + IF i < total % n THEN 1 ELSE 0

\* Where the i-th part starts: the running sum of the parts before it.
PartStart(total, n, i) ==
    LET start[k \in Nat] == IF k = 0 THEN 0 ELSE start[k - 1] + PartSize(total, n, k - 1)
    IN  start[i]

Part(total, n, i) ==
    PartStart(total, n, i)..(PartStart(total, n, i) + PartSize(total, n, i) - 1)

\* Layers, heads, columns and vocabulary are all split the same way.
GenerateShardingPlan(c) ==
    [i \in 0..(c.miners - 1) |-> [layers |-> Part(c.layers, c.miners, i),
                                  heads |-> Part(c.heads, c.miners, i)]]

ValidateShardingPlan(c, plan) ==
    /\ UNION {plan[i].layers : i \in DOMAIN plan} = 0..(c.layers - 1)
    /\ UNION {plan[i].heads : i \in DOMAIN plan} = 0..(c.heads - 1)

DefaultParallelismConfig(n) ==
    CASE n <= 2 -> [stages |-> n, workers |-> 1, batches |-> 4]
      [] n \in 3..4 -> [stages |-> n \div 2, workers |-> 2, batches |-> 8]
      [] n \in 5..8 -> [stages |-> 4, workers |-> n \div 4, batches |-> 16]
      [] n > 8 -> [stages |-> 8, workers |-> n \div 8, batches |-> 32]

Stages == DefaultParallelismConfig(cfg.miners).stages

\* NumMicroBatches, the default's or the caller's own.
Batches == cfg.batches

BuildPipelineSchedule(c) ==
    LET n == DefaultParallelismConfig(c.miners).stages
    IN  [i \in 0..(n - 1) |-> Part(c.layers, n, i)]

-----------------------------------------------------------------------------

SessionInit ==
    /\ kind = "none" /\ cfg \in Configs
    /\ call = 0 /\ cancelled = FALSE /\ phase = "idle"
    /\ status = "initializing" /\ layer = 0 /\ checkpoints = <<>>
    /\ progress = <<>> /\ failed = {} /\ recovery = <<>>
    /\ queues = <<>> /\ running = {} /\ hand = <<>> /\ fed = 0 /\ results = <<>>
    /\ old = {} /\ spoiled = FALSE

Workers == 0..(cfg.miners - 1)

NewCoordinator ==
    /\ kind = "none"
    /\ ValidateShardingPlan(cfg, GenerateShardingPlan(cfg))
    /\ kind' = "coordinator"
    /\ progress' = [m \in Workers |-> 0]
    /\ recovery' = [m \in Workers |-> [at |-> "none", layer |-> 0, since |-> 0]]
    /\ UNCHANGED <<cfg, call, cancelled, phase, status, layer, checkpoints, failed, pipeline>>

NewPipelineExecutor ==
    /\ kind = "none"
    /\ kind' = "pipeline"
    /\ queues' = [s \in 0..Stages |-> <<>>]
    /\ UNCHANGED <<cfg, call, cancelled, phase, coordinator, running, hand, fed, results,
                   leftover>>

\* The caller's context is cancelled or times out.
Cancel ==
    /\ phase \notin {"idle", "crashed"} /\ ~cancelled
    /\ cancelled' = TRUE
    /\ UNCHANGED <<kind, cfg, call, phase, coordinator, pipeline>>

-----------------------------------------------------------------------------
(* The Coordinator *)

Execute ==
    /\ kind = "coordinator" /\ phase = "idle" /\ call < MaxCalls
    /\ call' = call + 1 /\ cancelled' = FALSE
    /\ status' = "running" /\ layer' = 0
    /\ phase' = IF cfg.layers = 0 THEN "reduce" ELSE "checkpoint"
    /\ UNCHANGED <<kind, cfg, checkpoints, progress, failed, recovery, pipeline>>

\* The map f with v stored under k.
Put(f, k, v) == [x \in DOMAIN f \cup {k} |-> IF x = k THEN v ELSE f[x]]

CheckpointDue == layer % CheckpointInterval = 0 /\ layer > 0

\* The start of a turn of pipelineForward's loop.  The map is written with no lock.
Checkpoint ==
    /\ phase = "checkpoint"
    /\ phase' = "forward"
    /\ checkpoints' = IF CheckpointDue
                      THEN Put(checkpoints, layer, [call |-> call, layers |-> layer])
                      ELSE checkpoints
    /\ UNCHANGED <<kind, cfg, call, cancelled, status, layer, progress, failed, recovery, pipeline>>

\* The rest of the turn: the layer runs on miner layer % n, whoever the plan gave
\* the layer to, and the context is looked at.
Forward ==
    /\ phase = "forward"
    /\ layer' = layer + 1
    /\ progress' = [progress EXCEPT ![layer % cfg.miners] = layer + 1]
    /\ phase' = IF cancelled THEN "failing"
                ELSE IF layer + 1 < cfg.layers THEN "checkpoint" ELSE "reduce"
    /\ UNCHANGED <<kind, cfg, call, cancelled, status, checkpoints, failed, recovery, pipeline>>

\* A mutation: a cancelled forward pass leaves the status alone.
EndForwardQuiet ==
    /\ phase \in {"reduce", "failing"}
    /\ status' = IF phase = "reduce" THEN "allreducing" ELSE status
    /\ phase' = IF phase = "reduce" THEN "complete" ELSE "idle"
    /\ UNCHANGED <<kind, cfg, call, cancelled, layer, checkpoints, progress, failed,
                   recovery, pipeline>>

\* The forward pass is over, one way or the other, and Execute sets the status.
EndForward ==
    /\ phase \in {"reduce", "failing"}
    /\ status' = IF phase = "reduce" THEN "allreducing" ELSE "failed"
    /\ phase' = IF phase = "reduce" THEN "complete" ELSE "idle"
    /\ UNCHANGED <<kind, cfg, call, cancelled, layer, checkpoints, progress, failed,
                   recovery, pipeline>>

Complete ==
    /\ phase = "complete"
    /\ status' = "completed" /\ phase' = "idle"
    /\ UNCHANGED <<kind, cfg, call, cancelled, layer, checkpoints, progress, failed,
                   recovery, pipeline>>

\* RecoverFromCheckpoint(m) runs beside Execute.  History: the layer the forward
\* pass is at when the failure is reported.
RecoverFromCheckpoint(m) ==
    /\ kind = "coordinator" /\ phase # "crashed" /\ recovery[m].at = "none"
    /\ status' = "recovering"
    /\ recovery' = [recovery EXCEPT ![m] = [at |-> "search", layer |-> cfg.layers - 1, since |-> layer]]
    /\ UNCHANGED <<kind, cfg, call, cancelled, phase, layer, checkpoints, progress,
                   failed, pipeline>>

Searching(m) == kind = "coordinator" /\ phase # "crashed" /\ recovery[m].at = "search"

\* A mutation: the search runs up from the first layer.
NextLookedAtUp(r) == cfg.layers - 1 - r.layer

\* The layer the search looks at: it runs down from the last one.
NextLookedAt(r) == r.layer

\* One turn of the search, a lookup with no lock.  Whichever call saved the
\* checkpoint, it is taken.
SearchCheckpoint(m) ==
    LET r == recovery[m]
    IN  /\ Searching(m)
        /\ recovery' = [recovery EXCEPT ![m] =
               IF r.layer < 0 THEN [r EXCEPT !.at = "error"]
               ELSE IF NextLookedAt(r) \in DOMAIN checkpoints
               THEN [r EXCEPT !.at = "mark", !.layer = NextLookedAt(r)]
               ELSE [r EXCEPT !.layer = r.layer - 1]]
        /\ UNCHANGED <<kind, cfg, call, cancelled, phase, status, layer, checkpoints,
                       progress, failed, pipeline>>

\* A lookup while the forward pass is writing the map: the runtime may see it, and
\* ends the process.
MapRace(m) ==
    /\ Searching(m) /\ recovery[m].layer >= 0
    /\ phase = "checkpoint" /\ CheckpointDue
    /\ phase' = "crashed"
    /\ UNCHANGED <<kind, cfg, call, cancelled, coordinator, pipeline>>

\* Under the lock, after the search.
MarkFailed(m) ==
    /\ kind = "coordinator" /\ phase # "crashed" /\ recovery[m].at = "mark"
    /\ failed' = failed \cup {m}
    /\ recovery' = [recovery EXCEPT ![m].at = "reassign"]
    /\ UNCHANGED <<kind, cfg, call, cancelled, phase, status, layer, checkpoints,
                   progress, pipeline>>

Healthy(m) == Workers \ (failed \cup {m})

\* The shard goes to the healthy miner with the fewest layers done; the choice is
\* only printed.
ReassignShard(m) ==
    /\ kind = "coordinator" /\ phase # "crashed" /\ recovery[m].at = "reassign"
    /\ recovery' = [recovery EXCEPT ![m].at = IF Healthy(m) = {} THEN "error" ELSE "done"]
    /\ UNCHANGED <<kind, cfg, call, cancelled, phase, status, layer, checkpoints,
                   progress, failed, pipeline>>

-----------------------------------------------------------------------------
(* The PipelineExecutor *)

\* A mutation: one place too few.
CapacityShort == Batches - 1

\* The capacity of every channel.
Capacity == Batches

\* Execute starts a goroutine per stage.  Those of a call that failed may still be
\* running, and what they left is still in the channels.
ExecutePipeline ==
    /\ kind = "pipeline" /\ phase = "idle" /\ call < MaxCalls
    /\ call' = call + 1 /\ cancelled' = FALSE
    /\ phase' = "feed" /\ fed' = 0 /\ results' = <<>>
    /\ old' = old \cup {[call |-> call, stage |-> s, hand |-> hand[s]] : s \in running}
    /\ running' = 1..Stages /\ hand' = [s \in 1..Stages |-> <<>>]
    /\ UNCHANGED <<kind, cfg, coordinator, queues, spoiled>>

\* Feeding does not look at the context.
Feed ==
    /\ phase = "feed" /\ fed < Batches /\ Len(queues[0]) < Capacity
    /\ fed' = fed + 1
    /\ queues' = [queues EXCEPT ![0] = Append(@, [call |-> call, index |-> fed + 1, by |-> 0])]
    /\ phase' = IF fed' = Batches THEN "collect" ELSE "feed"
    /\ UNCHANGED <<kind, cfg, call, cancelled, coordinator, running, hand, results, leftover>>

\* Stage s receives a micro-batch.
Receive(s) ==
    /\ s \in running /\ hand[s] = <<>> /\ queues[s - 1] # <<>>
    /\ hand' = [hand EXCEPT ![s] = <<Head(queues[s - 1])>>]
    /\ queues' = [queues EXCEPT ![s - 1] = Tail(@)]
    /\ UNCHANGED <<kind, cfg, call, cancelled, phase, coordinator, running, fed, results,
                   leftover>>

\* A mutation: the stage sends back to itself.
OutQueueSelf(s) == s - 1

OutQueue(s) == s

\* It computes Result from Data, which no stage updates, and sends it on.
Send(s) ==
    /\ s \in running /\ hand[s] # <<>> /\ Len(queues[OutQueue(s)]) < Capacity
    /\ queues' = [queues EXCEPT ![OutQueue(s)] = Append(@, [hand[s][1] EXCEPT !.by = s])]
    /\ hand' = [hand EXCEPT ![s] = <<>>]
    /\ UNCHANGED <<kind, cfg, call, cancelled, phase, coordinator, running, fed, results,
                   leftover>>

\* It returns when the context is done, with whatever it holds.
Leave(s) ==
    /\ s \in running /\ cancelled
    /\ running' = running \ {s}
    /\ hand' = [hand EXCEPT ![s] = <<>>]
    /\ UNCHANGED <<kind, cfg, call, cancelled, phase, coordinator, queues, fed, results,
                   leftover>>

AllCollected(got) == Len(got) = Batches

Collect ==
    /\ phase = "collect" /\ queues[Stages] # <<>>
    /\ results' = Append(results, Head(queues[Stages]))
    /\ queues' = [queues EXCEPT ![Stages] = Tail(@)]
    /\ phase' = IF AllCollected(results') THEN "wait" ELSE "collect"
    /\ UNCHANGED <<kind, cfg, call, cancelled, coordinator, running, hand, fed, leftover>>

\* Execute returns the context's error; its stages may still be running.
CollectFails ==
    /\ phase = "collect" /\ cancelled
    /\ phase' = "idle" /\ spoiled' = TRUE
    /\ UNCHANGED <<kind, cfg, call, cancelled, coordinator, queues, running, hand, fed, results, old>>

\* wg.Wait returns, and Execute with all results: only a cancelled context makes
\* the stages return.
Wait ==
    /\ phase = "wait" /\ running = {}
    /\ phase' = "idle"
    /\ UNCHANGED <<kind, cfg, call, cancelled, coordinator, pipeline>>

\* A goroutine of a failed call: the context it looks at is done, but the select
\* may as well choose a channel that is ready.
OldReceive(o) ==
    /\ o.hand = <<>> /\ queues[o.stage - 1] # <<>>
    /\ old' = (old \ {o}) \cup {[o EXCEPT !.hand = <<Head(queues[o.stage - 1])>>]}
    /\ queues' = [queues EXCEPT ![o.stage - 1] = Tail(@)]

OldSend(o) ==
    /\ o.hand # <<>> /\ Len(queues[OutQueue(o.stage)]) < Capacity
    /\ old' = (old \ {o}) \cup {[o EXCEPT !.hand = <<>>]}
    /\ queues' = [queues EXCEPT ![OutQueue(o.stage)] = Append(@, [o.hand[1] EXCEPT !.by = o.stage])]

OldLeave(o) == old' = old \ {o} /\ UNCHANGED queues

OldStage(o) ==
    /\ OldReceive(o) \/ OldSend(o) \/ OldLeave(o)
    /\ UNCHANGED <<kind, cfg, call, cancelled, phase, coordinator, running, hand, fed,
                   results, spoiled>>

-----------------------------------------------------------------------------

Caller == NewCoordinator \/ NewPipelineExecutor \/ Execute \/ ExecutePipeline \/ Cancel

ExecuteStep == Checkpoint \/ Forward \/ EndForward \/ Complete \/ Feed \/ Collect \/ Wait

Recover(m) ==
    \/ RecoverFromCheckpoint(m) \/ SearchCheckpoint(m) \/ MapRace(m)
    \/ MarkFailed(m) \/ ReassignShard(m)

Stage(s) == Receive(s) \/ Send(s) \/ Leave(s)

SessionNext ==
    \/ Caller \/ ExecuteStep \/ CollectFails
    \/ \E m \in Workers : Recover(m)
    \/ \E s \in 1..Stages : Stage(s)
    \/ \E o \in old : OldStage(o)

SessionSpec == SessionInit /\ [][SessionNext]_sessionVars

MaxStages == Max({DefaultParallelismConfig(c.miners).stages : c \in Configs})

\* Every goroutine goes on while it can; nobody need cancel.
SessionFairness ==
    /\ WF_sessionVars(ExecuteStep \/ CollectFails)
    /\ \A s \in 1..MaxStages : WF_sessionVars(s <= Stages /\ Stage(s))
    /\ WF_sessionVars(\E o \in old : OldStage(o))

FairSessionSpec == SessionSpec /\ SessionFairness

-----------------------------------------------------------------------------
(* Properties *)

\* However a size divides by the number of miners, the parts GenerateShardingPlan
\* and BuildPipelineSchedule cut are disjoint, cover everything and differ by at
\* most one, and the stages need no more workers than there are miners.
Split(parts, total) ==
    /\ UNION Range(parts) = 0..(total - 1)
    /\ \A i, j \in DOMAIN parts :
          /\ i # j => parts[i] \cap parts[j] = {}
          /\ Cardinality(parts[i]) <= Cardinality(parts[j]) + 1

PlanIsPartition ==
    LET plan  == GenerateShardingPlan(cfg)
        shape == DefaultParallelismConfig(cfg.miners)
    IN  /\ Split([i \in DOMAIN plan |-> plan[i].layers], cfg.layers)
        /\ Split([i \in DOMAIN plan |-> plan[i].heads], cfg.heads)
        /\ Split(BuildPipelineSchedule(cfg), cfg.layers)
        /\ shape.stages * shape.workers <= cfg.miners

\* A checkpoint is the activation before its layer, and every one the present call
\* has passed is there and the present call's, not one an earlier call left.
CheckpointsExact ==
    /\ \A l \in DOMAIN checkpoints :
        /\ checkpoints[l].layers = l /\ l % CheckpointInterval = 0 /\ l \in 1..(cfg.layers - 1)
        /\ l < layer => checkpoints[l].call = call
    /\ \A l \in 1..(layer - 1) : l % CheckpointInterval = 0 => l \in DOMAIN checkpoints

\* Recoveries run beside Execute and overwrite its status; the status is still
\* never ahead of the call: it says completed or failed only when the call is over.
StatusIsTrue ==
    /\ status = "completed" => phase = "idle" /\ layer = cfg.layers
    /\ status = "failed" => phase = "idle" /\ cancelled
    /\ status \in {"running", "allreducing"} => phase # "idle"

\* Although the search looks at one layer at a time with no lock, while the forward
\* pass goes on and saves checkpoints behind it, a recovery never resumes more than
\* CheckpointInterval layers before the layer at which the failure was reported, and
\* fails for want of a checkpoint only when that was in the first interval.  In the
\* first call it does not resume ahead of the forward pass either; in a later one it
\* may, from a checkpoint an earlier call left, against "the last checkpoint before
\* failure" (coordinator.go:247).
RecoveryLosesLittle ==
    kind = "coordinator" => \A m \in Workers :
        LET r == recovery[m]
        IN  /\ r.at \in {"mark", "reassign", "done"} =>
                  /\ r.since - r.layer <= CheckpointInterval
                  /\ call = 1 => r.layer <= layer
            /\ r.at = "error" /\ r.layer < 0 => r.since <= CheckpointInterval

\* When the last miner has failed some recovery says so: they cannot all have
\* handed their shards to each other.
NotAllReassigned ==
    kind = "coordinator" /\ failed = Workers
        => \E m \in Workers : recovery[m].at \in {"reassign", "error"}

\* Where micro-batches are, from the feeder to the collector: the first queue, then
\* the hand of each stage and the queue after it, and the results.
Line ==
    [r \in 0..(2 * Stages + 1) |->
        IF r = 2 * Stages + 1 THEN results
        ELSE IF r % 2 = 0 THEN queues[r \div 2] ELSE hand[(r + 1) \div 2]]

\* No micro-batch is overtaken: whatever is further along the line, or was put in
\* the same place before it, has a smaller index.
Ordered(line) ==
    \A r, q \in DOMAIN line : \A i \in DOMAIN line[r], j \in DOMAIN line[q] :
        q < r \/ (q = r /\ i < j) => line[r][i].index < line[q][j].index

Held(line) == UNION {{line[r][i].index : i \in DOMAIN line[r]} : r \in DOMAIN line}

\* Whatever the stages' goroutines do, no micro-batch is duplicated or overtakes
\* another, and none is lost while the context is alive.
BatchesInOrder ==
    kind = "pipeline" /\ phase \in {"feed", "collect", "wait"} =>
        LET line == Line IN Ordered(line) /\ (~cancelled => Held(line) = 1..fed)

\* A call that returns without error returns all its results: its own, not an
\* earlier call's, each from the last stage and at its index.
ResultsComplete ==
    kind = "pipeline" /\ call > 0 /\ phase \in {"wait", "idle"} =>
        results = [i \in 1..Batches |-> [call |-> call, index |-> i, by |-> Stages]]

\* A context that is done ends the call, however far it had come, if no call before
\* it has failed: after one that has, Feed may find the first channel full and wait
\* for ever.  Only a crash comes before that.
CancelReturns == phase # "idle" /\ cancelled /\ ~spoiled ~> phase \in {"idle", "crashed"}

\* No goroutine outlives its context for ever, that of a failed call included.
StagesLeave ==
    /\ running # {} /\ cancelled ~> running = {} \/ ~cancelled
    /\ old # {} ~> old = {}

\* Unless it is cancelled, a call after calls that succeeded collects every result.
\* It returns them only once it is cancelled: Wait waits for the stages.
AllDelivered == phase = "feed" /\ ~spoiled ~> cancelled \/ AllCollected(results)

\* The coordinator's checkpoints, status and failed miners stay true to the call
\* that runs, whatever recoveries run beside it.
CoordinatorSound == CheckpointsExact /\ StatusIsTrue /\ NotAllReassigned

\* Until a call has failed, the pipeline neither mixes, loses nor duplicates
\* micro-batches, within a call and from one call to the next.
PipelineSound == ~spoiled => BatchesInOrder /\ ResultsComplete

\* Nothing waits for ever but the caller of a call that is not cancelled, or that
\* uses the executor again after one that was: a cancelled call returns, the stages'
\* goroutines end with their contexts, and a call that is not cancelled collects.
OnlyCallerWaits == CancelReturns /\ StagesLeave /\ AllDelivered

=============================================================================
