\* One alert in two wordings of two chunks: resumed and repeated sends.
CONSTANTS
  e1 = e1  e2 = e2  t1 = t1  t2 = t2  d1 = d1  d2 = d2  v1 = v1  v2 = v2
  Events = {e1}
  Targets = {t1}
  Dispatchers = {d1, d2}
  NoClaim = NoClaim
  Reopened <- MCReopened
  RetryLists <- MCRetryAll
  DcaDates <- MCNoMerge
  Versions = {v1, v2}
  ChunksOf <- MCTwoChunks
  LeaseTicks = 1
  MaxConcurrent = 1
  MaxCrashes = 1
  SendsOutlastLease = TRUE
  LostReplies = TRUE
SPECIFICATION Spec
\* Every alert is closed and no more crashes are allowed: nothing is left to do.
CHECK_DEADLOCK FALSE
PROPERTIES
  KeepsPromise
  ClosedEventsStayClosed
