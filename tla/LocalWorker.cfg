SPECIFICATION LocalSpec
CONSTANTS
  w1 = w1
  w2 = w2
  Worker <- TwoWorkers
  Stages <- StageName
  MaxAttempts = 2
  TTL = 1
  Overrun = FALSE
  MaxTime = 2
  MaxTokens = 4
  MaxCancels = 1
  MaxFaults = 1
  CrashBy = 0
INVARIANT StagesInOrder
PROPERTY ClaimedSettles
CHECK_DEADLOCK FALSE
