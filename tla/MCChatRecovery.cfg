SPECIFICATION FairSpec
CONSTANTS
  Procs <- TwoProcs
  Nodes = 4
  Sections = 1
  MaxRecoveries = 2
  StaleAfter = 3
  LeaseTicks = 1
  MaxFaults = 2
  None = None
CHECK_DEADLOCK FALSE
INVARIANTS
    ResumedExactly
    OneWorker
    AnsweredOnce
PROPERTIES
    EndedForGood
    EndsAfterCheckpoint
