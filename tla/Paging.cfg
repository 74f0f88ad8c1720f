SPECIFICATION Spec
CONSTANTS
  Rows = {a, b, c, d, e}
  Limit = 2
  MaxChanges = 3
  NotRead = NotRead
INVARIANTS MissesNothing RepeatsNothing ShowsAsMany FindsPages
CHECK_DEADLOCK FALSE
