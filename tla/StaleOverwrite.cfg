SPECIFICATION Spec
CONSTANTS
  w1 = w1
  w2 = w2
  Worker <- TwoWorkers
  Stages <- ReportStage
  MaxAttempts = 2
  TTL = 1
  Overrun = TRUE
  MaxTime = 3
  MaxTokens = 3
  MaxCancels = 1
  MaxFaults = 1
PROPERTY StaleOutputIsOrphan
CHECK_DEADLOCK FALSE
