SPECIFICATION Spec
CONSTANTS
  LastTurn = 4
  MaxTurns = 2
  CompactTurns = 1
  MaxClears = 0
  None = None
INVARIANT ReadWhole
CHECK_DEADLOCK FALSE
