CONSTANTS
  OpenDays = {1,3,4,5,6}
  Weekdays = {1,2,3,4,5,6}
  Prices = {1,2}
  Lookbacks = {3}
  Thresholds = {50}
  Buffer = 1
  Overlap = 1
  LatestLookback = 9
  Retention = 1
  MaxDay = 6
  MaxRules = 2
SPECIFICATION Spec
INVARIANTS
  TypeOK
  HistoryIsOfCloses
  HighsAreTrue
  FallsAreTold
PROPERTIES
  OncePerHigh
CHECK_DEADLOCK FALSE
