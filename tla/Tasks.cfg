CONSTANTS
    \* TaskStaging: a pool of two for three tasks, and a change set that is staged,
    \* applied and aborted while others use the pool
    Tasks <- MCTasks
    Heights = {2, 3}
    ComputeUnits <- MCComputeUnits
    MaxTasks = 2
    MaxSequence = 4
    Additions <- MCAdditions
    Removals <- MCRemovals
    Assignments <- MCOutcomes
    Outcomes <- MCOutcomes
    Results = {r1}
    NoState = NoState
    \* Dispatch: small and large machines, tasks of two tiers
    Miners = {m1, m2}
    Hardware <- MCHardware
    MinUnits <- MCMinUnits
    TaskTiers = {2, 3}
    MaxOutstanding = 2
    MaxRecords = 1
    Absent = Absent
SPECIFICATION TasksSpec
SYMMETRY Symmetry
INVARIANTS
    HeapMirrorsMap
    ResultsAfterAdditions
    DispatcherSound
    RegistrySound
PROPERTY ExpiryIsExact
