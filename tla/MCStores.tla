------------------------------ MODULE MCStores ------------------------------
(* What blocks change: the state database, the trie below it, and the        *)
(* verifier of results.  They share nothing here: a behaviour is of one of   *)
(* the three, and what the others start with stays.                          *)
EXTENDS MCStateDB, MCStateTrie, MCResultVerifier

VARIABLE part

StoresInit == part \in {"statedb", "trie", "verifier"} /\ Init /\ TrieInit /\ VerifierInit

StoresNext ==
    \/ part = "statedb" /\ Next /\ UNCHANGED <<part, trieVars, verifierVars>>
    \/ part = "trie" /\ TrieNext /\ UNCHANGED <<part, vars, verifierVars>>
    \/ part = "verifier" /\ VerifierNext /\ UNCHANGED <<part, vars, trieVars>>

StoresSpec == StoresInit /\ [][StoresNext]_<<part, vars, trieVars, verifierVars>>

StoresSymmetry == Symmetry \cup VerifierSymmetry
=============================================================================
