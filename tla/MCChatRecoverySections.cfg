SPECIFICATION Spec
CONSTANTS
  Procs <- TwoProcs
  Nodes = 3
  Sections = 2
  MaxRecoveries = 2
  StaleAfter = 3
  LeaseTicks = 1
  MaxFaults = 1
  None = None
INVARIANT SectionsWrittenOnce
CHECK_DEADLOCK FALSE
