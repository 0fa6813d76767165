\* Two calls of connect(), any number of close(), three delays, under fairness.
\* A feed whose threads are done may stop: no deadlock check.
SPECIFICATION FairSpec
CONSTANTS
  niftyId = niftyId
  goldId = goldId
  Securities = {niftyId, goldId}
  Lists <- McLists
  NoThread = NoThread
  Delays = 3
  MaxConnects = 2
INVARIANTS
  TypeOK
  CloseReachesTheRest
PROPERTIES
  FeedReconnects
  ClosedFeedEnds
CHECK_DEADLOCK FALSE
