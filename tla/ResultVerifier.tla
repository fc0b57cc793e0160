--------------------------- MODULE ResultVerifier ---------------------------
(***************************************************************************)
(* The optimistic verification pipeline of pkg/task/verifier.go: a result  *)
(* is submitted once per task, may be challenged until the block at which  *)
(* its window ends, and is accepted by FinalizeResults when the window has *)
(* closed without a challenge.                                             *)
(*                                                                         *)
(* Every method of Verifier holds v.mu from its first to its last line, so *)
(* each is one action.  The calls of one block come with that block's      *)
(* height, which the chain (the environment here) only ever increases.     *)
(* A call that returns an error changes nothing and is not an action.      *)
(***************************************************************************)
EXTENDS Integers, FiniteSets, Sequences

CONSTANTS
    Tasks,            \* task identifiers
    Results,          \* result hash and miner of a submission, as one value
    Challengers,      \* addresses that may dispute a result
    ChallengePeriod,  \* ChallengeConfig.ChallengePeriod, in blocks
    MaxHeight,        \* bound: heights explored
    MaxChallenges,    \* bound: disputes raised against one result
    NoState           \* what a lookup in v.states yields for an unknown task

ASSUME PeriodAssumption == ChallengePeriod \in Nat
ASSUME BoundsAssumption == MaxHeight \in Nat /\ MaxChallenges \in Nat

VARIABLES
    height,     \* the current block height the callers pass
    states,     \* v.states: the VerifierState of each task, or NoState
    byHeight,   \* v.byHeight, as the pairs <<challenge end, task>> it holds
    finalized   \* how often FinalizeResults has returned each task

verifierVars == <<height, states, byHeight, finalized>>

Status == {"Pending", "Challenged", "Accepted", "Rejected"}

VerifierState ==
    [result : Results, submittedAt : Nat, challengeEnds : Nat,
     status : Status, challengers : Seq(Challengers)]

ASSUME NoStateAssumption == NoState \notin VerifierState

Submitted(t) == states[t] # NoState

\* One submission per task (lines 91-93), so a pair enters the index once.
VerifierTypeOK ==
    /\ height \in Nat
    /\ states \in [Tasks -> VerifierState \cup {NoState}]
    /\ byHeight \subseteq Nat \X Tasks
    /\ finalized \in [Tasks -> Nat]

VerifierInit ==
    /\ height = 0
    /\ states = [t \in Tasks |-> NoState]
    /\ byHeight = {}
    /\ finalized = [t \in Tasks |-> 0]

\* A mutation: the result is indexed under its submission height.
SubmitResultMisindexed(t, r) ==
    /\ ~Submitted(t)
    /\ states' = [states EXCEPT ![t] =
          [result |-> r, submittedAt |-> height,
           challengeEnds |-> height + ChallengePeriod,
           status |-> "Pending", challengers |-> <<>>]]
    /\ byHeight' = byHeight \cup {<<height, t>>}
    /\ UNCHANGED <<height, finalized>>

SubmitResult(t, r) ==
    /\ ~Submitted(t)
    /\ LET ends == height + ChallengePeriod
       IN  /\ states' = [states EXCEPT ![t] =
                 [result |-> r, submittedAt |-> height, challengeEnds |-> ends,
                  status |-> "Pending", challengers |-> <<>>]]
           /\ byHeight' = byHeight \cup {<<ends, t>>}
    /\ UNCHANGED <<height, finalized>>

\* A mutation: the window closes one block late.
WindowOpenLate(t) == height <= states[t].challengeEnds + 1

\* The window is closed only strictly after challengeEnds, and a result that
\* was accepted or rejected inside the window may be disputed again.
WindowOpen(t) == height <= states[t].challengeEnds

Challenge(t, c) ==
    /\ Submitted(t)
    /\ WindowOpen(t)
    /\ states[t].status # "Challenged"
    /\ Len(states[t].challengers) < MaxChallenges
    /\ states' = [states EXCEPT ![t].status = "Challenged",
                                ![t].challengers = Append(@, c)]
    /\ UNCHANGED <<height, byHeight, finalized>>

ResolveChallenge(t, resultValid) ==
    /\ Submitted(t)
    /\ states[t].status = "Challenged"
    /\ states' = [states EXCEPT ![t].status =
                     IF resultValid THEN "Accepted" ELSE "Rejected"]
    /\ UNCHANGED <<height, byHeight, finalized>>

\* A mutation: results are due one block early.
DueEarly == {e \in byHeight : e[1] <= height + 1}

\* The index entries FinalizeResults visits and deletes.
Due == {e \in byHeight : e[1] <= height}

\* The tasks it accepts and returns: those due and still unchallenged.
Finalizable(t) ==
    /\ Submitted(t)
    /\ states[t].status = "Pending"
    /\ \E e \in Due : e[2] = t

FinalizeResults ==
    /\ Due # {}
    /\ states' = [t \in Tasks |->
                     IF Finalizable(t) THEN [states[t] EXCEPT !.status = "Accepted"]
                                       ELSE states[t]]
    /\ finalized' = [t \in Tasks |->
                        IF Finalizable(t) THEN finalized[t] + 1 ELSE finalized[t]]
    /\ byHeight' = byHeight \ Due
    /\ UNCHANGED height

\* Environment: the chain grows by one block.
NewBlock ==
    /\ height < MaxHeight
    /\ height' = height + 1
    /\ UNCHANGED <<states, byHeight, finalized>>

VerifierNext ==
    \/ \E t \in Tasks, r \in Results : SubmitResult(t, r)
    \/ \E t \in Tasks, c \in Challengers : Challenge(t, c)
    \/ \E t \in Tasks, resultValid \in BOOLEAN : ResolveChallenge(t, resultValid)
    \/ FinalizeResults
    \/ NewBlock

VerifierSpec == VerifierInit /\ [][VerifierNext]_verifierVars

-----------------------------------------------------------------------------
(* Properties *)

\* The height index is what FinalizeResults works from: no unchallenged result
\* may be missing from it, or it would never be accepted, and an entry always
\* names a submitted result under the height its window ends.
IndexExact ==
    /\ \A t \in Tasks :
          Submitted(t) /\ states[t].status = "Pending"
             => <<states[t].challengeEnds, t>> \in byHeight
    /\ \A e \in byHeight :
          Submitted(e[2]) /\ states[e[2]].challengeEnds = e[1]

\* A result nobody ever disputed is accepted only once its full challenge
\* window has elapsed since its submission.
NoEarlyAcceptance ==
    \A t \in Tasks :
       Submitted(t) /\ states[t].status = "Accepted" /\ states[t].challengers = <<>>
          => height >= states[t].submittedAt + ChallengePeriod

\* FinalizeResults reports a task at most once (its caller pays the miner on
\* that report), even when the result is disputed and re-accepted later.
FinalizedOnce == \A t \in Tasks : finalized[t] <= 1

\* Once the chain is past the window, a verdict never changes again, whatever
\* sequence of late challenges, resolutions and finalizations is attempted.
VerdictFinal ==
    [][\A t \in Tasks :
          (/\ Submitted(t)
           /\ height > states[t].challengeEnds
           /\ states[t].status \in {"Accepted", "Rejected"})
          => states'[t] = states[t]]_verifierVars
=============================================================================
