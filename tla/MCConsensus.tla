---------------------------- MODULE MCConsensus ----------------------------
(* Model-checking instance of Consensus: two validators of powers two and    *)
(* one, so that the first has exactly two thirds; an inactive one of none.   *)
EXTENDS Consensus

CONSTANTS v1, v2, inactive, stranger, b1, b2

MCComputePower == [v \in {v1, v2, inactive} |-> IF v = v1 THEN 5 ELSE IF v = v2 THEN 1 ELSE 0]
MCStake == [v \in {v1, v2, inactive} |-> IF v = v2 THEN 2 ELSE 0]

\* Exact tenths; float64 computes the same for numbers of this size.
MCTruncated(x, tenths) == (x * tenths) \div 10

MCSent ==
    [type : {"prevote"}, block : Blocks, validator : {v1, v2}]
    \cup [type : {"prevote", "commit"}, block : {b1}, validator : {inactive, stranger}]
    \cup [type : {"precommit"}, block : {b1}, validator : {v1, v2}]
=============================================================================
