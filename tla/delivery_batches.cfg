\* Two DCA reminders of one date, merged or apart, and two calls that share
\* them: claims of part of a batch, results recorded claim by claim,
\* a send of two chunks for one and a single text for both.
CONSTANTS
  e1 = e1  e2 = e2  t1 = t1  t2 = t2  d1 = d1  d2 = d2  v1 = v1  v2 = v2
  Events = {e1, e2}
  Targets = {t1}
  Dispatchers = {d1, d2}
  NoClaim = NoClaim
  Reopened <- MCReopened
  RetryLists <- MCRetryAll
  DcaDates <- MCOneDate
  Versions = {v1}
  ChunksOf <- MCTwoChunks
  LeaseTicks = 1
  MaxConcurrent = 1
  MaxCrashes = 1
  SendsOutlastLease = TRUE
  LostReplies = FALSE
SPECIFICATION Spec
\* Every alert is closed and no more crashes are allowed: nothing is left to do.
CHECK_DEADLOCK FALSE
INVARIANTS
  LiveClaimAccepted
