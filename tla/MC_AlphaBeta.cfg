SPECIFICATION Spec
CONSTANTS
    Positions <- MC_Positions
    Games <- MC_Games
    Successors <- MC_Successors
    InCheck <- MC_InCheck
    Noisy <- MC_Noisy
    Slots <- MC_Slots
    Evaluations <- MC_Evaluations
    OptionSets <- MC_OptionSets
    NoMove = NoMove
    Stops <- MC_Stops
    Budgets = {0, 9, 30}
    Overrun = 10
    Repeat = 3
    SafeHeight = 2
    Cycle = 2
    OrderScore = 2000
    Extensions = 2
    QuiescenceDepth = 1
    Aspiration = 1
    MaxDepth = 5
    MaxPath = 12
    Mate = 500
    Infinity = 800
    MaxSearches = 2
INVARIANTS  PublishedIsSearched NodesWithinBudget
CHECK_DEADLOCK FALSE
