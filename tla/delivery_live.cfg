\* Progress: one alert, two targets, two calls, a restart with any
\* configuration, sends of two chunks that keep within their lease.
CONSTANTS
  e1 = e1  e2 = e2  t1 = t1  t2 = t2  d1 = d1  d2 = d2  v1 = v1  v2 = v2
  Events = {e1}
  Targets = {t1, t2}
  Dispatchers = {d1, d2}
  NoClaim = NoClaim
  Reopened <- MCReopened
  RetryLists <- MCRetryAll
  DcaDates <- MCNoMerge
  Versions = {v1}
  ChunksOf <- MCTwoChunks
  LeaseTicks = 1
  MaxConcurrent = 1
  MaxCrashes = 1
  SendsOutlastLease = FALSE
  LostReplies = FALSE
SPECIFICATION FairSpec
\* Every alert is closed and no more crashes are allowed: nothing is left to do.
CHECK_DEADLOCK FALSE
INVARIANTS
  TypeOK
  StatusMatchesRows
PROPERTIES
  NothingTwice
  RetriedEventsSettle
