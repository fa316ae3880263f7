SPECIFICATION FairSpec
CONSTANTS
  Callers = {c1, c2}
  MaxCount = 2
  BatchSize = 3
  Thread = Thread
  Nobody = Nobody
  NULL = NULL
CHECK_DEADLOCK FALSE
INVARIANTS
    NothingForgotten
    NoWakeUpIsLost
PROPERTIES
    KeepsService
    EveryCallReturns
