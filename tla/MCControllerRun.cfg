SPECIFICATION FairSpec
CONSTANTS
  competitor = competitor
  advertising = advertising
  None = None
  Agents <- TwoAgents
  Competitor <- competitor
  MaxRounds = 2
  Sections = 2
  Attempts = 3
CHECK_DEADLOCK FALSE
INVARIANTS
    OnlyVerificationRefused
    StagesSettled
    FollowupsBounded
    ReportComplete
PROPERTIES
    NothingAfterTheEnd
    StreamCloses
