SPECIFICATION ApiSpec
CONSTANTS
  r1 = r1
  r2 = r2
  r3 = r3
  clip = clip
  corrupt = corrupt
  standard = standard
  custom = custom
  Request <- ThreeRequests
  Content <- Media
  Valid <- Playable
  Earlier = earlier
  None = None
  MaxFaults = 2
  Config <- Configs
  Default = standard
  NoConfig = NoConfig
  Celery = TRUE
  MaxInflight = 1
SYMMETRY RequestSymmetry
INVARIANT ApiTypeOK RowsHaveFiles AnswersAgree NothingLeftBehind AcceptedCanRun RunsItsConfig FindsStageRows ReportServed
CHECK_DEADLOCK FALSE
