\* One rule, added on the first day and due on the second; job, catch-up and
\* /check overlap; fee or amount are changed, the process stops or a dispatch
\* raises.
CONSTANTS
  f = f
  Rules = {f}
  Due <- MCDue
  Callers = {"job", "catchup", "check"}
  Amounts = {1, 2}
  Fees = {0, 1}
  MaxDate = 2
  MaxChanges = 2
  MaxCrashes = 1
SPECIFICATION FairSpec
INVARIANTS
  TypeOK
  DeductionsKept
  ReminderShowsDeduction
PROPERTIES
  RemindedWhenPassed
  DeductionsHappen
