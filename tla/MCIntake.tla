------------------------------ MODULE MCIntake ------------------------------
(* What a node takes in from others: transactions and votes.  The pool and   *)
(* the consensus engine share nothing: a behaviour is of one or of the other *)
(* and what the other starts with stays.  In those states none of their fair *)
(* actions is enabled.                                                       *)
EXTENDS MCTxPool, MCConsensus

VARIABLE part

IntakeInit == part \in {"txpool", "consensus"} /\ TxInit /\ Init

IntakeNext ==
    \/ part = "txpool" /\ TxNext /\ UNCHANGED <<part, vars>>
    \/ part = "consensus" /\ Next /\ UNCHANGED <<part, txVars>>

IntakeSpec ==
    /\ IntakeInit /\ [][IntakeNext]_<<part, txVars, vars>>
    /\ TxFairness /\ Fairness
=============================================================================
