SPECIFICATION EventBridgeSpec
CONSTANTS
  LinearSpeeds <- MCLinearSpeeds
  YawRates     <- MCYawRates
  SpeedLevels  <- MCSpeedLevels
  Gaits        <- MCGaits
  ModeNames    <- MCModeNames
  SelectParameters <- MCSelectParameters
  Malformed = Malformed
  MOVE_STOP_TIMEOUT = 2
INVARIANTS
  EventBridgeTypeOK
  StandDownMeansStill
  ProfileMatchesMode
PROPERTIES
  ModeChangesAtRest
  LyingDownIsCommanded
  WalkingEnds
