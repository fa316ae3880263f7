SPECIFICATION FairSpec
CONSTANTS
  Positions = {start, p1}
  StartPos = start
  MaxLines = 3
  Bursts = TRUE
CHECK_DEADLOCK FALSE
INVARIANTS
    SearchedAsAsked
PROPERTIES
    KeepsContract
