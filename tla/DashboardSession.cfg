SPECIFICATION Spec
CONSTANTS
  w1 = w1
  w2 = w2
  c1 = c1
  c2 = c2
  Worker <- TwoWorkers
  Critic <- TwoCritics
  Partial <- LaterRuns
  MaxCancels = 1
  MaxFaults = 1
SYMMETRY SessionSymmetry
INVARIANT DocTypeOK StatusAgrees OneRunShown IdsResolve CritiqueIsOfReport DuplicatesOverlap
PROPERTY ProgressGrows
CHECK_DEADLOCK FALSE
