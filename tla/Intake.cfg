CONSTANTS
    \* TxPool
    Alice = Alice
    Bob = Bob
    Free = Free
    Clients = {c1, c2}
    Senders <- MCAddrs
    Txs <- MCTxs
    MaxTxs = 4
    MaxAccountTxs = 1
    MaxQueuedNonce = 1
    MaxNonce = 2
    \* Consensus: the first validator has exactly two thirds of the power; channels
    \* of two and one
    v1 = v1
    v2 = v2
    inactive = inactive
    stranger = stranger
    b1 = b1
    b2 = b2
    Validators = {v1, v2, inactive}
    Strangers = {stranger}
    Active = {v1, v2}
    ComputePower <- MCComputePower
    Stake <- MCStake
    Truncated <- MCTruncated
    Blocks = {b1, b2}
    Sent <- MCSent
    Proposed = {b1, None}
    WordSize = 64
    VoteBuffer = 2
    ProposalBuffer = 1
    None = None
SPECIFICATION IntakeSpec
INVARIANTS
    MapsAreIndexed
    PendingIsCurrent
    DueIsNotQueued
    ValidHasQuorum
    CrashHasCause
PROPERTIES
    CallsReturnUnlessFull
    QuorumIsSeen
\* Nonces run out, and a process that has crashed does nothing more.
CHECK_DEADLOCK FALSE
