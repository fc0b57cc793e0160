\* Keys under which a branch can have an extension below it; two commits.
CONSTANTS
    v1 = v1
    v2 = v2
    Keys <- MCKeys
    Values = {v1, v2}
    NoValue = NoValue
    MaxCommits = 2
SPECIFICATION TrieSpec
CONSTRAINTS
    LastCommit
    TwoValuesWhileFresh
PROPERTY ImplementsMap
