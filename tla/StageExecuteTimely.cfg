SPECIFICATION Spec
CONSTANTS
  w1 = w1
  w2 = w2
  Worker <- TwoWorkers
  Stages <- LateStages
  MaxAttempts = 2
  TTL = 1
  Overrun = FALSE
  MaxTime = 2
  MaxTokens = 4
  MaxCancels = 1
  MaxFaults = 1
SYMMETRY WorkerSymmetry
VIEW LeaseState
INVARIANT WorkExclusive RetriesInOrder
PROPERTY StaleOutputIsOrphan
CHECK_DEADLOCK FALSE
