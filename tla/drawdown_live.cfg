\* Every close is evaluated in the end, under the fairness of the scheduler.
CONSTANTS
  NoEvent = NoEvent
  Prices <- MCThreePrices
  Tiers = {10}
  Margins = {5}
  Lookback = 2
  History = 1
  Payout = 10
  MaxDate = 3
  MaxRestatements = 0
  MaxDrafts = 0
  MaxCrashes = 1
SPECIFICATION FairSpec
\* After the last date a disabled plan has nothing left to do.
CHECK_DEADLOCK FALSE
PROPERTY
  CatchesUp
