CONSTANTS
    MaxHistory = 4
    MaxMoveNumber = 4
    RepetitionCount = 4
    MaxInHand = 18
    Openings <- MC_Openings
    Menu <- MC_Menu
    Slot <- MC_Slot
SPECIFICATION NnueSpec
CHECK_DEADLOCK FALSE
INVARIANTS
    SumIsFresh
    CachesAnswerRight
