CONSTANTS
    MaxHistory = 13
    MaxMoveNumber = 14
    RepetitionCount = 4
    MaxInHand = 18
    WalkFrom = 13
    Openings <- MC_Openings
    Menu <- MC_Menu
SPECIFICATION LawSpec
CHECK_DEADLOCK FALSE
INVARIANTS
    HashIsPosition
    UndosRewind
    FastPathIsTrusted
    RepetitionVerdict
    LegalIsLawful
