SPECIFICATION Spec
CONSTANTS
    Positions <- MC_Positions
    Successors <- MC_Successors
    InCheck <- MC_InCheck
    Histories <- MC_Histories
    Repeat = 3
    Capacities = {3, 4}
    MaxPlies = 4
    Batch = 2
    LeafValues = {2}
    Faults = {"alloc", "eval"}
    MaxSimulations = 4
CHECK_DEADLOCK FALSE
INVARIANTS
    FlowIsConserved
    LossIsInFlight
    
    PublishedOnce
