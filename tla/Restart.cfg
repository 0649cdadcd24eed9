SPECIFICATION Spec
CHECK_DEADLOCK FALSE

CONSTANTS
  r1 = r1
  r2 = r2
  Runs = {r1, r2}
  Statuses <- MCStatuses
  Canonical <- MCCanonical
  MaxCrashes = 1

INVARIANT StartSucceeds
