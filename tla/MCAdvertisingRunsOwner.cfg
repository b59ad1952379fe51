SPECIFICATION Spec
CONSTANTS
    MaxExecutions = 1
    PoolSize = 1
    MaxTakeovers = 1
    MaxRounds = 2
    MaxRestarts = 1
CHECK_DEADLOCK FALSE
INVARIANTS
    OwnerKept
