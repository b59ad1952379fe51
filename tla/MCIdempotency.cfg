SPECIFICATION FairSpec
CONSTANTS
  c1 = c1
  c2 = c2
  c3 = c3
  k1 = k1
  k2 = k2
  f1 = f1
  f2 = f2
  Keys <- TwoKeys
  Prints <- TwoPrints
  Calls <- ThreeCalls
  MaxFaults = 2
  None = None
CHECK_DEADLOCK FALSE
INVARIANTS
    OrphansAreAborted
PROPERTIES
    ImplementsPromise
    EveryCallEnds
