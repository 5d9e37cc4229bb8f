SPECIFICATION SearchFairSpec
CONSTANTS
  Queries = {q1, q2}
  NoQuery = NoQuery
  MaxRecords = 2
  MaxAsks = 3
  MaxFaults = 1
  MaxInFlight = 2
CHECK_DEADLOCK FALSE
INVARIANTS
  SearchTypeOK
  ScreenAnswersTheQuestion
PROPERTIES
  LiveFeedNeverRewinds
  PollingCatchesUp
