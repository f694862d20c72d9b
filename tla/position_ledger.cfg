\* A contribution of each kind, two snapshots, skips, NAV jobs and restarts:
\* what an answer may resolve, what may be added on top, and progress.
CONSTANTS
  a1 = a1  a2 = a2  m1 = m1  u1 = u1  k1 = k1  k2 = k2
  Dca = {a1}
  Manual = {m1}
  Unestimated = {u1}
  Tokens = {k1}
  NoDraft = NoDraft
  MaxSyncs = 2
SPECIFICATION FairSpec
\* Everything is resolved and the bounds are used up: nothing is left to do.
CHECK_DEADLOCK FALSE
INVARIANTS
  TypeOK
  NoDoubleCount
  SyncRequiredWhileUnresolved
  CycleMatchesUnits
PROPERTIES
  AppliedToKnownPosition
  ResolvedIsCounted
  KeepsPositionPromise
  PendingEndsUp
