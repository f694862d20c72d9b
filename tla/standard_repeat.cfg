CONSTANTS
  OpenDays = {1,2,3,6}
  Weekdays = {1,2,3,4,6}
  Prices = {1,2}
  Lookbacks = {3}
  Thresholds = {50}
  Buffer = 1
  Overlap = 1
  LatestLookback = 9
  Retention = 2
  MaxDay = 6
  MaxRules = 1
SPECIFICATION Spec
PROPERTIES
  OncePerHigh
CHECK_DEADLOCK FALSE
