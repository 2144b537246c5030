SPECIFICATION Spec
CONSTANTS
  w1 = w1
  w2 = w2
  Worker <- TwoWorkers
  Stages <- FirstStage
  MaxAttempts = 2
  TTL = 1
  Overrun = TRUE
  MaxTime = 3
  MaxTokens = 3
  MaxCancels = 1
  MaxFaults = 0
SYMMETRY WorkerSymmetry
INVARIANT TypeOK LeaseHonored
PROPERTY KeepsLedger
CHECK_DEADLOCK FALSE
