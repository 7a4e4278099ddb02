SPECIFICATION LossySpec
CONSTANTS
  LinearSpeeds <- MCLinearSpeeds
  YawRates     <- MCYawRates
  SpeedLevels  <- MCSpeedLevels
  Gaits        <- MCGaits
  ModeNames    <- MCModeNames
  MOVE_STOP_TIMEOUT = 2
INVARIANTS
  DisablingAWalkModeLocks
