SPECIFICATION Spec
CONSTANTS
  Positions = {"start", "A", "P", "C", "E"}
  Moves = {"b", "b+", "c"}
  Legal <- MC_Legal
  After <- MC_After
  Side <- MC_Side
  EngineSides = {NONE, 1}
  Over = {"P"}
  Start = "start"
  Loadable = {"A"}
  Pairs <- MC_Pairs
  MaxUndo = 2
  Models = {"m1", "m2"}
  NONE = NONE
INVARIANTS
  TimelineReplays
  ShownIsCurrent
  QuietScoreIsCurrent
PROPERTIES
  LateAnswersMoveNothing
