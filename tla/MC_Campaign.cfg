SPECIFICATION Spec
CONSTANTS
  Threads = {t1, t2}
  Games = 2
  Budget = 7
  PhaseSeconds = 4
  Batch = 4
  MinPositions = 1
  WindowLimit = 3
  Validation <- MC_Validation
  LaunchDelay = 1
  MaxCrashes = 1
  MaxSequence = 4
  NONE = NONE
SYMMETRY MC_Symmetry
CHECK_DEADLOCK FALSE
INVARIANTS
    
    
    CreditIsBalanced
    GameIdsAreFresh
    ResumeIsAccepted
    ShardsAreWhole
