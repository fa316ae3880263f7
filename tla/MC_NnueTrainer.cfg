CONSTANTS
    NumRanks = 2
    KingBuckets = 3
    RouteRecords = 2
    Epochs = 3
    CheckpointEpochs = 1
    OptionSets <- MC_OptionSets
    Shuffled <- Rotated
    Unit = 491520
    InitialWeight = 7
    MaxCrashes = 2
    MaxFailures = 1
SPECIFICATION FairSpec
CHECK_DEADLOCK FALSE
INVARIANTS
    EachRecordOncePerEpoch
    RanksMeet
    ReplicasAgree
    LazyIsDense
    CheckpointsBelongTogether
PROPERTIES
    EveryJobEnds
