CONSTANTS
  Starts = {r1, r2, r3}
  Attempts = 3
  MaxOutages = 2
SPECIFICATION Spec
INVARIANTS TypeOK StrandedOnlyByRace
PROPERTIES WorkerKeepsCompleted EventuallyDecided
CHECK_DEADLOCK FALSE
