\* The same validators and a word of six values: the powers two and one fit, their
\* sum doubled does not.
CONSTANTS
    v1 = v1
    v2 = v2
    inactive = inactive
    stranger = stranger
    b1 = b1
    b2 = b2
    Validators = {v1, v2, inactive}
    Strangers = {stranger}
    Active = {v1, v2}
    ComputePower <- MCComputePower
    Stake <- MCStake
    Truncated <- MCTruncated
    Blocks = {b1, b2}
    Sent <- MCSent
    Proposed = {b1, None}
    WordSize = 6
    VoteBuffer = 2
    ProposalBuffer = 1
    None = None
SPECIFICATION Spec
INVARIANT ValidHasTwoThirds
CHECK_DEADLOCK FALSE
