CONSTANTS
  Reviewers = {o1, o2}
  Calls = {k1, k2}
  MaxAmendments = 1
SPECIFICATION ReviewSpec
INVARIANT OnlyChangesAreRefused
CHECK_DEADLOCK FALSE
