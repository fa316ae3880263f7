SPECIFICATION FairSpec
CONSTANTS
  Positions = {start}
  StartPos = start
  MaxLines = 2
  Bursts = TRUE
PROPERTY
  StopIsObeyed
CHECK_DEADLOCK FALSE
