CONSTANTS
  Starts = {r1, r2}
  Attempts = 3
  MaxOutages = 0
SPECIFICATION RetrySpec
INVARIANT PendingHasJob
CHECK_DEADLOCK FALSE
