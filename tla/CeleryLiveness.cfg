SPECIFICATION CelerySpec
CONSTANTS
  w1 = w1
  w2 = w2
  Worker <- TwoWorkers
  Stages <- StageName
  MaxAttempts = 2
  TTL = 1
  Overrun = FALSE
  MaxTime = 0
  MaxTokens = 6
  MaxCancels = 1
  MaxFaults = 0
  MaxCopies = 1
PROPERTY RunningSettles CancelStands
CHECK_DEADLOCK FALSE
