SPECIFICATION Spec
CONSTANTS
  LastTurn = 4
  MaxTurns = 2
  CompactTurns = 1
  MaxClears = 1
  None = None
CHECK_DEADLOCK FALSE
INVARIANTS
    ArchiveTraced
    CompactedOnce
    ClearedForGood
    ReadOnce
