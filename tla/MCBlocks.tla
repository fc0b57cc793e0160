------------------------------ MODULE MCBlocks ------------------------------
(* Blocks: what executing one does to the accounts (Ledger), and which ones  *)
(* make up the chain (Chain).  They share nothing here: a behaviour is of    *)
(* one or of the other, and what the other starts with stays.                *)
EXTENDS MCLedger, MCChain

VARIABLE part

BlocksInit == part \in {"ledger", "chain"} /\ Init /\ ChainInit

BlocksNext ==
    \/ part = "ledger" /\ Next /\ UNCHANGED <<part, chainVars>>
    \/ part = "chain" /\ ChainNext /\ UNCHANGED <<part, vars>>

BlocksSpec == BlocksInit /\ [][BlocksNext]_<<part, vars, chainVars>>
=============================================================================
