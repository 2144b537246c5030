SPECIFICATION WorkerLossSpec
CONSTANTS
  w1 = w1
  w2 = w2
  Worker <- TwoWorkers
  Stages <- StageName
  MaxAttempts = 2
  TTL = 1
  Overrun = FALSE
  MaxTime = 2
  MaxTokens = 6
  MaxCancels = 0
  MaxFaults = 1
  MaxCopies = 0
PROPERTY RunningSettles
CHECK_DEADLOCK FALSE
