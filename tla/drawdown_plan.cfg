\* Two tiers reached at once or one by one, added, snoozed and skipped, restated prices,
\* a restart, new cycles.
CONSTANTS
  NoEvent = NoEvent
  Prices <- MCTwoPrices
  Tiers = {10, 20}
  Margins = {5, 20}
  Lookback = 2
  History = 1
  Payout = 10
  MaxDate = 3
  MaxRestatements = 1
  MaxDrafts = 1
  MaxCrashes = 1
SPECIFICATION Spec
\* After the last date a disabled plan has nothing left to do.
CHECK_DEADLOCK FALSE
INVARIANTS
  TypeOK
  AdditionsAreExplained
PROPERTIES
  FactsNeverChange
  ReachedTiersRecorded
  PendingTiersReminded
  NoReminderForAdded
  AdditionsJoinActiveCycle
  PeakIsHighest
  RearmOnlyByNewHigh

