CONSTANTS
  Deliveries = {d1, d2}
  Workers = {w1, w2}
  NoDelivery = NoDelivery
  MaxAttempts = 3
  MaxOutages = 2
  MaxConsents = 1
SPECIFICATION MCSpec
INVARIANTS SentWasDelivered AttemptsAreSpent DuplicatesAreExcused
PROPERTIES LeaseIsRespected EventuallySettled
CHECK_DEADLOCK FALSE
