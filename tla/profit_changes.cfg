\* Two thresholds, NAVs and costs, position cycles of which one can be pruned and
\* its id reused, changes around an evaluation and a restart.
CONSTANTS
  Thresholds = {50, 100}
  Navs = {15, 20}
  Costs = {10, 15}
  MaxDate = 3
  Retention = 1
  MaxRules = 1
  MaxChanges = 2
  MaxCrashes = 1
SPECIFICATION FairSpec
INVARIANTS
  TypeOK
  OncePerThreshold
PROPERTIES
  NothingPassedOver
  ReachedAreReminded
  ButtonClosesItsCycle
CHECK_DEADLOCK FALSE
