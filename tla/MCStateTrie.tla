----------------------------- MODULE MCStateTrie -----------------------------
(* Model-checking instance of StateTrie. *)
EXTENDS StateTrie

CONSTANTS v1, v2

(* 0x0000 and 0x0001 share three nibbles, 0x1000 none: leaves, extensions  *)
(* and two levels of branches, and an extension below a branch.            *)
MCKeys == {<<0, 0>>, <<0, 1>>, <<16, 0>>}

(* Bound: one key has a second value, which is overwritten before anything *)
(* is read or committed.                                                   *)
TwoValuesWhileFresh ==
    LET c == Contents IN \A k \in Keys : c[k] = v2 => fresh /\ k = <<0, 0>>

(* Bound: nothing follows the last commit. *)
LastCommit == commits < MaxCommits
=============================================================================
