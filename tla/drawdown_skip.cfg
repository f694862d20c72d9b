\* The skip button beside a running check.
CONSTANTS
  NoEvent = NoEvent
  Prices <- MCThreePrices
  Tiers = {10}
  Margins = {5}
  Lookback = 2
  History = 1
  Payout = 10
  MaxDate = 3
  MaxRestatements = 0
  MaxDrafts = 0
  MaxCrashes = 0
SPECIFICATION Spec
\* After the last date a disabled plan has nothing left to do.
CHECK_DEADLOCK FALSE
PROPERTY
  NoReminderForSkipped
