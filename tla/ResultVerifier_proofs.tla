------------------------ MODULE ResultVerifier_proofs -----------------------
(***************************************************************************)
(* Proofs about ResultVerifier for every set of tasks, results and         *)
(* challengers and every challenge period.                                 *)
(***************************************************************************)
EXTENDS ResultVerifier, TLAPS

\* A submission's window is ChallengePeriod blocks long and began in the past.
WindowExact ==
    \A t \in Tasks : Submitted(t) =>
       /\ states[t].submittedAt <= height
       /\ states[t].challengeEnds = states[t].submittedAt + ChallengePeriod

\* Only a dispute, which records its challenger, leads to these verdicts.
DisputesRecorded ==
    \A t \in Tasks :
       Submitted(t) /\ states[t].status \in {"Challenged", "Rejected"}
          => states[t].challengers # <<>>

\* A task that was reported is not in the index any more.
ReportedUnindexed ==
    \A t \in Tasks :
       finalized[t] > 0 => /\ Submitted(t)
                           /\ <<states[t].challengeEnds, t>> \notin byHeight

\* The inductive invariant.
IInv ==
    /\ VerifierTypeOK
    /\ IndexExact
    /\ WindowExact
    /\ DisputesRecorded
    /\ NoEarlyAcceptance
    /\ ReportedUnindexed
    /\ FinalizedOnce

\* Every state variable keeps its type: VerifierTypeOK is inductive by itself.
LEMMA TypeStep == VerifierTypeOK /\ [VerifierNext]_verifierVars => VerifierTypeOK'
<1> SUFFICES ASSUME VerifierTypeOK, [VerifierNext]_verifierVars PROVE VerifierTypeOK'
  OBVIOUS
<1> USE DEF VerifierTypeOK, VerifierState, Status
<1>1. CASE \E t \in Tasks, r \in Results : SubmitResult(t, r)
  BY <1>1, PeriodAssumption DEF SubmitResult
<1>2. CASE \E t \in Tasks, c \in Challengers : Challenge(t, c)
  <2> PICK t \in Tasks, c \in Challengers : Challenge(t, c)
    BY <1>2
  <2>1. states[t] \in VerifierState
    BY DEF Challenge, Submitted
  <2>2. Append(states[t].challengers, c) \in Seq(Challengers)
    BY <2>1
  <2>3. [states[t] EXCEPT !.status = "Challenged",
                          !.challengers = Append(@, c)] \in VerifierState
    BY <2>1, <2>2
  <2> QED
    BY <2>1, <2>3 DEF Challenge
<1>3. CASE \E t \in Tasks, resultValid \in BOOLEAN : ResolveChallenge(t, resultValid)
  <2> PICK t \in Tasks, resultValid \in BOOLEAN : ResolveChallenge(t, resultValid)
    BY <1>3
  <2>1. states[t] \in VerifierState
    BY DEF ResolveChallenge, Submitted
  <2> QED
    BY <2>1 DEF ResolveChallenge
<1>4. CASE FinalizeResults
  <2>1. ASSUME NEW t \in Tasks, Finalizable(t)
        PROVE  [states[t] EXCEPT !.status = "Accepted"] \in VerifierState
    <3>1. states[t] \in VerifierState
      BY <2>1 DEF Finalizable, Submitted
    <3> QED
      BY <3>1
  <2>2. states' \in [Tasks -> VerifierState \cup {NoState}]
    BY <1>4, <2>1 DEF FinalizeResults
  <2>3. height' \in Nat /\ finalized' \in [Tasks -> Nat] /\ byHeight' \subseteq Nat \X Tasks
    BY <1>4 DEF FinalizeResults
  <2> QED
    BY <2>2, <2>3
<1>5. CASE NewBlock
  BY <1>5 DEF NewBlock
<1>6. CASE UNCHANGED verifierVars
  BY <1>6 DEF verifierVars
<1> QED
  BY <1>1, <1>2, <1>3, <1>4, <1>5, <1>6 DEF VerifierNext

\* Type correctness of the verifier (states, index and report counts).
THEOREM TypeCorrect == VerifierSpec => []VerifierTypeOK
<1>1. VerifierInit => VerifierTypeOK
  BY DEF VerifierInit, VerifierTypeOK
<1> QED
  BY <1>1, TypeStep, PTL DEF VerifierSpec

\* The initial state satisfies the inductive invariant.
LEMMA InitIInv == VerifierInit => IInv
  BY DEF VerifierInit, IInv, VerifierTypeOK, IndexExact, WindowExact, DisputesRecorded,
         NoEarlyAcceptance, ReportedUnindexed, FinalizedOnce, Submitted

\* SubmitResult: only the submitted task's state and index entry change.
LEMMA SubmitStep ==
  ASSUME IInv, NEW t \in Tasks, NEW r \in Results, SubmitResult(t, r)
  PROVE  IInv'
<1> DEFINE ends == height + ChallengePeriod
           new == [result |-> r, submittedAt |-> height, challengeEnds |-> ends,
                   status |-> "Pending", challengers |-> <<>>]
<1>1. VerifierTypeOK'
  BY TypeStep DEF IInv, VerifierNext
<1>2. /\ height' = height /\ finalized' = finalized
      /\ byHeight' = byHeight \cup {<<ends, t>>}
      /\ states' = [states EXCEPT ![t] = new]
      /\ ~Submitted(t)
  BY DEF SubmitResult
<1>3. new # NoState
  <2>1. new \in VerifierState
    BY PeriodAssumption DEF VerifierState, Status, IInv, VerifierTypeOK
  <2> QED
    BY <2>1, NoStateAssumption
<1>4. states'[t] = new /\ \A u \in Tasks \ {t} : states'[u] = states[u]
  BY <1>2 DEF IInv, VerifierTypeOK
<1>5. IndexExact'
  BY <1>2, <1>3, <1>4 DEF IInv, VerifierTypeOK, IndexExact, Submitted
<1>6. WindowExact'
  BY <1>2, <1>3, <1>4 DEF IInv, VerifierTypeOK, WindowExact, Submitted
<1>7. DisputesRecorded' /\ NoEarlyAcceptance'
  BY <1>2, <1>3, <1>4
     DEF IInv, VerifierTypeOK, DisputesRecorded, NoEarlyAcceptance, Submitted
<1>8. ReportedUnindexed'
  <2> SUFFICES ASSUME NEW u \in Tasks, finalized'[u] > 0
               PROVE /\ states'[u] # NoState
                     /\ <<states'[u].challengeEnds, u>> \notin byHeight'
    BY DEF ReportedUnindexed, Submitted
  <2>1. u # t /\ Submitted(u) /\ <<states[u].challengeEnds, u>> \notin byHeight
    BY <1>2 DEF IInv, ReportedUnindexed
  <2> QED
    BY <1>2, <1>4, <2>1 DEF Submitted
<1> QED
  BY <1>1, <1>2, <1>5, <1>6, <1>7, <1>8 DEF IInv, FinalizedOnce

\* A dispute or its resolution changes one task's status and challengers only.
LEMMA DisputeStep ==
  ASSUME IInv, NEW t \in Tasks,
         \/ \E c \in Challengers : Challenge(t, c)
         \/ \E resultValid \in BOOLEAN : ResolveChallenge(t, resultValid)
  PROVE  IInv'
<1>1. VerifierTypeOK'
  BY TypeStep DEF IInv, VerifierNext
<1>2. height' = height /\ byHeight' = byHeight /\ finalized' = finalized
  BY DEF Challenge, ResolveChallenge
<1>3. Submitted(t) /\ states[t] \in VerifierState
  BY DEF Challenge, ResolveChallenge, Submitted, IInv, VerifierTypeOK
<1>4. \A u \in Tasks \ {t} : states'[u] = states[u]
  BY DEF Challenge, ResolveChallenge, IInv, VerifierTypeOK
<1>5. /\ states'[t].submittedAt = states[t].submittedAt
      /\ states'[t].challengeEnds = states[t].challengeEnds
      /\ states'[t].status \in {"Challenged", "Accepted", "Rejected"}
      /\ states'[t].challengers # <<>>
  <2>1. CASE \E c \in Challengers : Challenge(t, c)
    <3> PICK c \in Challengers : Challenge(t, c)
      BY <2>1
    <3>1. Append(states[t].challengers, c) # <<>>
      BY <1>3 DEF VerifierState
    <3> QED
      BY <1>3, <3>1 DEF Challenge, IInv, VerifierTypeOK, VerifierState
  <2>2. CASE \E resultValid \in BOOLEAN : ResolveChallenge(t, resultValid)
    BY <1>3, <2>2
       DEF ResolveChallenge, IInv, VerifierTypeOK, VerifierState, DisputesRecorded
  <2> QED
    BY <2>1, <2>2
<1>6. states'[t] # NoState
  <2>1. CASE \E c \in Challengers : Challenge(t, c)
    <3> PICK c \in Challengers : Challenge(t, c)
      BY <2>1
    <3>1. states'[t] = [states[t] EXCEPT !.status = "Challenged",
                                         !.challengers = Append(@, c)]
      BY DEF Challenge, IInv, VerifierTypeOK
    <3>2. Append(states[t].challengers, c) \in Seq(Challengers)
      BY <1>3 DEF VerifierState
    <3>3. states'[t] \in VerifierState
      BY <1>3, <3>1, <3>2 DEF VerifierState, Status
    <3> QED
      BY <3>3, NoStateAssumption
  <2>2. CASE \E resultValid \in BOOLEAN : ResolveChallenge(t, resultValid)
    <3> PICK resultValid \in BOOLEAN : ResolveChallenge(t, resultValid)
      BY <2>2
    <3>1. states'[t] = [states[t] EXCEPT !.status =
                          IF resultValid THEN "Accepted" ELSE "Rejected"]
      BY DEF ResolveChallenge, IInv, VerifierTypeOK
    <3>2. states'[t] \in VerifierState
      BY <1>3, <3>1 DEF VerifierState, Status
    <3> QED
      BY <3>2, NoStateAssumption
  <2> QED
    BY <2>1, <2>2
<1>7. IndexExact'
  BY <1>2, <1>3, <1>4, <1>5, <1>6 DEF IInv, VerifierTypeOK, IndexExact, Submitted
<1>8. WindowExact' /\ DisputesRecorded' /\ NoEarlyAcceptance'
  BY <1>2, <1>3, <1>4, <1>5, <1>6
     DEF IInv, WindowExact, DisputesRecorded, NoEarlyAcceptance, Submitted
<1>9. ReportedUnindexed'
  BY <1>2, <1>3, <1>4, <1>5, <1>6 DEF IInv, ReportedUnindexed, Submitted
<1> QED
  BY <1>1, <1>2, <1>7, <1>8, <1>9 DEF IInv, FinalizedOnce

\* FinalizeResults accepts what is due and unchallenged, and nothing twice.
LEMMA FinalizeStep ==
  ASSUME IInv, FinalizeResults
  PROVE  IInv'
<1>1. VerifierTypeOK'
  BY TypeStep DEF IInv, VerifierNext
<1>2. height' = height /\ byHeight' = byHeight \ Due
  BY DEF FinalizeResults
<1>3. ASSUME NEW t \in Tasks, ~Finalizable(t)
      PROVE  states'[t] = states[t] /\ finalized'[t] = finalized[t]
  BY <1>3 DEF FinalizeResults
<1>4. ASSUME NEW t \in Tasks, Finalizable(t)
      PROVE  /\ states[t] \in VerifierState
             /\ states'[t] = [states[t] EXCEPT !.status = "Accepted"]
             /\ states'[t] \in VerifierState
             /\ finalized'[t] = finalized[t] + 1
             /\ <<states[t].challengeEnds, t>> \in Due
             /\ states[t].challengeEnds <= height
             /\ finalized[t] = 0
  <2>1. states[t] \in VerifierState
    BY <1>4 DEF Finalizable, Submitted, IInv, VerifierTypeOK
  <2>2. /\ states'[t] = [states[t] EXCEPT !.status = "Accepted"]
        /\ finalized'[t] = finalized[t] + 1
    BY <1>4 DEF FinalizeResults
  <2>3. states'[t] \in VerifierState
    BY <2>1, <2>2 DEF VerifierState, Status
  <2> PICK e \in Due : e[2] = t
    BY <1>4 DEF Finalizable
  <2>4. e = <<states[t].challengeEnds, t>> /\ e \in byHeight /\ e[1] <= height
    BY DEF Due, IInv, IndexExact, VerifierTypeOK
  <2>5. finalized[t] = 0
    BY <2>4 DEF IInv, ReportedUnindexed, FinalizedOnce, VerifierTypeOK
  <2> QED
    BY <2>1, <2>2, <2>3, <2>4, <2>5
<1>5. \A t \in Tasks :
         /\ states'[t] = NoState <=> states[t] = NoState
         /\ states[t] # NoState =>
              /\ states'[t].submittedAt = states[t].submittedAt
              /\ states'[t].challengeEnds = states[t].challengeEnds
              /\ states'[t].challengers = states[t].challengers
  <2> TAKE t \in Tasks
  <2>1. CASE ~Finalizable(t)
    BY <1>3, <2>1
  <2>2. CASE Finalizable(t)
    BY <1>4, <2>2, NoStateAssumption DEF VerifierState
  <2> QED
    BY <2>1, <2>2
<1>6. IndexExact'
  <2>1. ASSUME NEW t \in Tasks, states'[t] # NoState, states'[t].status = "Pending"
        PROVE  <<states'[t].challengeEnds, t>> \in byHeight'
    <3>1. ~Finalizable(t)
      BY <1>4, <2>1 DEF VerifierState
    <3>2. states'[t] = states[t]
      BY <1>3, <3>1
    <3>3. <<states[t].challengeEnds, t>> \in byHeight
      BY <2>1, <3>2 DEF IInv, IndexExact, Submitted
    <3>4. <<states[t].challengeEnds, t>> \notin Due
      BY <2>1, <3>1, <3>2 DEF Finalizable, Submitted
    <3> QED
      BY <1>2, <3>2, <3>3, <3>4
  <2>2. \A e \in byHeight' : states'[e[2]] # NoState /\ states'[e[2]].challengeEnds = e[1]
    BY <1>2, <1>5 DEF IInv, IndexExact, VerifierTypeOK, Submitted
  <2> QED
    BY <2>1, <2>2 DEF IndexExact, Submitted
<1>7. WindowExact'
  BY <1>2, <1>5 DEF IInv, WindowExact, Submitted
<1>8. ASSUME NEW t \in Tasks, states'[t] # NoState
      PROVE  /\ states'[t].status \in {"Challenged", "Rejected"}
                  => states'[t].challengers # <<>>
             /\ states'[t].status = "Accepted" /\ states'[t].challengers = <<>>
                  => height' >= states'[t].submittedAt + ChallengePeriod
  <2>1. CASE ~Finalizable(t)
    BY <1>2, <1>3, <1>8, <2>1 DEF IInv, DisputesRecorded, NoEarlyAcceptance, Submitted
  <2>2. CASE Finalizable(t)
    <3>1. states'[t].status = "Accepted"
      BY <1>4, <2>2 DEF VerifierState
    <3>2. states'[t].submittedAt = states[t].submittedAt
      BY <1>5, <1>8
    <3>3. states[t].submittedAt + ChallengePeriod <= height
      BY <1>4, <2>2 DEF IInv, WindowExact, Finalizable
    <3> QED
      BY <1>2, <3>1, <3>2, <3>3, PeriodAssumption, <1>4, <2>2 DEF VerifierState, IInv, VerifierTypeOK
  <2> QED
    BY <2>1, <2>2
<1>9. ReportedUnindexed' /\ FinalizedOnce'
  <2> SUFFICES ASSUME NEW t \in Tasks
               PROVE /\ finalized'[t] <= 1
                     /\ finalized'[t] > 0 =>
                          /\ states'[t] # NoState
                          /\ <<states'[t].challengeEnds, t>> \notin byHeight'
    BY DEF ReportedUnindexed, FinalizedOnce, Submitted
  <2>1. CASE ~Finalizable(t)
    BY <1>2, <1>3, <2>1 DEF IInv, ReportedUnindexed, FinalizedOnce, Submitted
  <2>2. CASE Finalizable(t)
    <3>1. /\ finalized[t] = 0 /\ finalized'[t] = finalized[t] + 1
          /\ <<states[t].challengeEnds, t>> \in Due
      BY <1>4, <2>2, Zenon
    <3>2. states'[t] # NoState /\ states'[t].challengeEnds = states[t].challengeEnds
      BY <1>5, <2>2 DEF Finalizable, Submitted
    <3>3. <<states'[t].challengeEnds, t>> \notin byHeight'
      BY <1>2, <3>1, <3>2
    <3>4. finalized'[t] <= 1
      BY <3>1
    <3> QED
      BY <3>2, <3>3, <3>4
  <2> QED
    BY <2>1, <2>2
<1> QED
  BY <1>1, <1>6, <1>7, <1>8, <1>9
     DEF IInv, DisputesRecorded, NoEarlyAcceptance, Submitted

\* Every step of the verifier preserves the inductive invariant.
LEMMA IInvStep == IInv /\ [VerifierNext]_verifierVars => IInv'
<1> SUFFICES ASSUME IInv, [VerifierNext]_verifierVars PROVE IInv'
  OBVIOUS
<1>1. CASE \E t \in Tasks, r \in Results : SubmitResult(t, r)
  BY <1>1, SubmitStep
<1>2. CASE \E t \in Tasks, c \in Challengers : Challenge(t, c)
  BY <1>2, DisputeStep
<1>3. CASE \E t \in Tasks, resultValid \in BOOLEAN : ResolveChallenge(t, resultValid)
  BY <1>3, DisputeStep
<1>4. CASE FinalizeResults
  BY <1>4, FinalizeStep
<1>5. CASE NewBlock
  <2>1. height' = height + 1 /\ UNCHANGED <<states, byHeight, finalized>>
    BY <1>5 DEF NewBlock
  <2>2. VerifierTypeOK'
    BY TypeStep DEF IInv
  <2>3. IndexExact' /\ DisputesRecorded' /\ ReportedUnindexed' /\ FinalizedOnce'
    BY <2>1 DEF IInv, IndexExact, DisputesRecorded, ReportedUnindexed,
                FinalizedOnce, Submitted
  <2>4. WindowExact' /\ NoEarlyAcceptance'
    BY <2>1, PeriodAssumption
       DEF IInv, VerifierTypeOK, WindowExact, NoEarlyAcceptance, Submitted, VerifierState
  <2> QED
    BY <2>2, <2>3, <2>4 DEF IInv
<1>6. CASE UNCHANGED verifierVars
  BY <1>6 DEF verifierVars, IInv, VerifierTypeOK, IndexExact, WindowExact, DisputesRecorded,
              NoEarlyAcceptance, ReportedUnindexed, FinalizedOnce, Submitted
<1> QED
  BY <1>1, <1>2, <1>3, <1>4, <1>5, <1>6 DEF VerifierNext

\* The inductive invariant holds in every reachable state.
THEOREM Invariance == VerifierSpec => []IInv
  BY InitIInv, IInvStep, PTL DEF VerifierSpec

\* No result is ever missing from the height index or misfiled in it.
THEOREM IndexIsExact == VerifierSpec => []IndexExact
<1>1. IInv => IndexExact
  BY DEF IInv
<1> QED
  BY <1>1, Invariance, PTL

\* An undisputed result is accepted only after its whole window.
THEOREM NoEarly == VerifierSpec => []NoEarlyAcceptance
<1>1. IInv => NoEarlyAcceptance
  BY DEF IInv
<1> QED
  BY <1>1, Invariance, PTL

\* FinalizeResults reports each task at most once.
THEOREM ReportedOnce == VerifierSpec => []FinalizedOnce
<1>1. IInv => FinalizedOnce
  BY DEF IInv
<1> QED
  BY <1>1, Invariance, PTL

\* After the window a verdict is immutable.
THEOREM VerdictIsFinal == VerifierSpec => VerdictFinal
<1>1. ASSUME IInv, [VerifierNext]_verifierVars, NEW t \in Tasks,
             Submitted(t), height > states[t].challengeEnds,
             states[t].status \in {"Accepted", "Rejected"}
      PROVE  states'[t] = states[t]
  <2>1. states[t] \in VerifierState /\ height \in Nat
    BY <1>1 DEF Submitted, IInv, VerifierTypeOK
  <2>2. ASSUME NEW u \in Tasks, NEW r \in Results, SubmitResult(u, r)
        PROVE  states'[t] = states[t]
    BY <1>1, <2>2 DEF SubmitResult, IInv, VerifierTypeOK
  <2>3. ASSUME NEW u \in Tasks, NEW c \in Challengers, Challenge(u, c)
        PROVE  states'[t] = states[t]
    BY <1>1, <2>1, <2>3 DEF Challenge, WindowOpen, IInv, VerifierTypeOK, VerifierState
  <2>4. ASSUME NEW u \in Tasks, NEW resultValid \in BOOLEAN,
               ResolveChallenge(u, resultValid)
        PROVE  states'[t] = states[t]
    BY <1>1, <2>4 DEF ResolveChallenge, IInv, VerifierTypeOK
  <2>5. CASE FinalizeResults
    BY <1>1, <2>5 DEF FinalizeResults, Finalizable
  <2>6. CASE NewBlock \/ UNCHANGED verifierVars
    BY <2>6 DEF NewBlock, verifierVars
  <2> QED
    BY <1>1, <2>2, <2>3, <2>4, <2>5, <2>6 DEF VerifierNext
<1>2. IInv /\ [VerifierNext]_verifierVars =>
        [\A t \in Tasks :
           (/\ Submitted(t)
            /\ height > states[t].challengeEnds
            /\ states[t].status \in {"Accepted", "Rejected"})
           => states'[t] = states[t]]_verifierVars
  BY <1>1
<1> QED
  BY <1>2, Invariance, PTL DEF VerifierSpec, VerdictFinal
=============================================================================
