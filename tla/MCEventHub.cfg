SPECIFICATION FairSpec
CONSTANTS
  tab = tab
  Clients <- OneTab
  QueueSize = 2
  MaxSeq = 5
  MaxFaults = 2
INVARIANT NoLeakedSubscriber
INVARIANT MissingOnlyEvicted
PROPERTY InOrder
PROPERTY ImplementsFeed
PROPERTY EveryPageLearnsTheEnd
CHECK_DEADLOCK FALSE
