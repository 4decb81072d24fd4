SPECIFICATION FairReaderSpec
CONSTANTS
  p1 = p1  p2 = p2
  Parts = {p1, p2}
  Logs <- SomeLogs
  Queries <- SomeQueries
  Limit = 2
  MaxScan = 3
  MaxRounds = 3
  MaxCandidates = 5
  MaxOffset = 3
  MaxChanges = 1
  MaxFailures = 1
  Unset = Unset
CHECK_DEADLOCK FALSE
INVARIANTS NeverSkips ExhaustedMeansAll
PROPERTIES PagingEnds
