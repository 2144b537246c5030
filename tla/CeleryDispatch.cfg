SPECIFICATION CelerySpec
CONSTANTS
  w1 = w1
  w2 = w2
  Worker <- TwoWorkers
  Stages <- StageName
  MaxAttempts = 2
  TTL = 1
  Overrun = TRUE
  MaxTime = 2
  MaxTokens = 4
  MaxCancels = 1
  MaxFaults = 1
  MaxCopies = 1
SYMMETRY WorkerSymmetry
VIEW LiveState
INVARIANT CommandsInOrder SuccessHasResults
CHECK_DEADLOCK FALSE
