------------------------------- MODULE MCChain -------------------------------
EXTENDS Chain

CONSTANTS a1, a2, a3, b1, f1

(* One line of three blocks, a sibling of its first block, which the line  *)
(* outweighs, and a second block that fails.                               *)
MCBlock == {a1, a2, a3, b1, f1}
MCParent == (a1 :> Genesis) @@ (a2 :> a1) @@ (a3 :> a2) @@ (b1 :> Genesis) @@ (f1 :> a1)
MCFailing == {f1}
=============================================================================
