\* The same system: the process stops after a failure row was cleared and before
\* the reminder was reserved.
CONSTANTS
  f = f
  Rules = {f}
  Due <- MCDue
  Callers = {"job", "catchup", "check"}
  Amounts = {1, 2}
  Fees = {0, 1}
  MaxDate = 2
  MaxChanges = 2
  MaxCrashes = 1
SPECIFICATION Spec
INVARIANTS
  NothingForgotten
