SPECIFICATION Spec
CONSTANTS
    MaxExecutions = 2
    PoolSize = 1
    MaxTakeovers = 2
    MaxRounds = 2
    MaxRestarts = 1
CHECK_DEADLOCK FALSE
INVARIANTS
    TakeoversSafe
    ResumedAsLeft
PROPERTIES
    FinishedStays
    EveryRunSettles
