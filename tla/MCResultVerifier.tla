-------------------------- MODULE MCResultVerifier --------------------------
(* Model-checking instance of ResultVerifier. *)
EXTENDS ResultVerifier, TLC

\* Tasks are only compared for equality.
VerifierSymmetry == Permutations(Tasks)
=============================================================================
