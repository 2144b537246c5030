SPECIFICATION Spec
CONSTANTS
  SamplesPerShot = 3
  CompositionFps = 2
  MotionFps = 10
  Clips <- MCClips
  MinShotMs = 150
  LetterboxLstarMax = 5
  LetterboxCoverage = 90
  MinUsablePixelRatio = 30
  Clusters = 5
  DeltaEMerge = 6
  MinSwatchProportion = 10
  KeyRules <- MCKeyRules
  Backend = "fake"
  PersonConfidence = 50
  TrackIouMin = 30
  MinTrackCoverage = 60
  HopMs = 100
  CutSigmaMs = 200
  PercentileLow = 10
  PercentileHigh = 90
  TensionWeights <- MCWeights
  CloseInverse = 20
  Pictures <- MCPictures
  Detections <- MCDetections
  Flows <- MCFlows
  Discontinuity = 20
  Sounds <- MCSounds
  Queries <- MCQueries
INVARIANTS
  TypeOK ShotsCover SamplesInShots OwnFrames LongShotsDecode RefusedOnlyByTie
  TracksFollow MotionInShot TensionFromAvailable PeaksHaveHighest
  VerdictHonest WindowKeepsEnds
