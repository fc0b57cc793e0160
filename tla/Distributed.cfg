\* A checkpoint every second layer; a second call on the same coordinator or executor.
CONSTANTS
    Configs <- MCConfigs
    CheckpointInterval = 2
    MaxCalls = 2
SPECIFICATION FairSessionSpec
CHECK_DEADLOCK FALSE
INVARIANTS
    PlanIsPartition
    CoordinatorSound
    PipelineSound
    RecoveryLosesLittle
PROPERTY OnlyCallerWaits
