CONSTANTS
    \* StateDB: two accounts with storage: commit, restart, reload; snapshots two
    \* revisions deep, so that a revert can follow an inner revert that replaced the cells
    Addrs = {a1, a2}
    Slots = {s1}
    Absent = Absent
    MaxBalance = 1
    MaxNonce = 1
    MaxJournal = 2
    MaxRevisions = 2
    MaxCells = 6
    \* StateTrie: two commits, the second of which may be lost half way after the first
    v1 = v1
    v2 = v2
    Keys <- MCKeys
    Values = {v1, v2}
    NoValue = NoValue
    MaxCommits = 2
    \* ResultVerifier: two results with overlapping windows; the chain runs past both
    Tasks = {t1, t2}
    Results = {r1}
    Challengers = {c1, c2}
    ChallengePeriod = 2
    MaxHeight = 5
    MaxChallenges = 2
    NoState = NoState
SPECIFICATION StoresSpec
SYMMETRY StoresSymmetry
CONSTRAINTS
    SnapshotsOfOneAccount
    LastCommit
    TwoValuesWhileFresh
INVARIANTS
    SnapshotsSound
    NoSharedCells
    CommitIsComplete
    
    IndexExact
    NoEarlyAcceptance
PROPERTIES
    RevertRestoresNonces
    FreshTrieIsMap
    VerdictFinal
\* Once the last height is reached and everything is decided nothing is left to do.
CHECK_DEADLOCK FALSE
