CONSTANTS
    NumRanks = 1
    KingBuckets = 3
    RouteRecords = 2
    Epochs = 3
    CheckpointEpochs = 1
    OptionSets <- MC_OneNode
    Shuffled <- Rotated
    Unit = 491520
    InitialWeight = 7
    MaxCrashes = 2
    MaxFailures = 1
SPECIFICATION Spec
INVARIANT
    BatchesFit
CHECK_DEADLOCK FALSE
