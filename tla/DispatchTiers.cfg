\* Small and large machines, tasks of two tiers, a task of each miner out.
CONSTANTS
    Miners = {m1, m2}
    Hardware <- MCHardware
    MinUnits <- MCMinUnits
    TaskTiers = {2, 3}
    MaxOutstanding = 2
    MaxRecords = 1
    Absent = Absent
SPECIFICATION Spec
INVARIANT ListedCanHandle
