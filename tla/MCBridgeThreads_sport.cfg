SPECIFICATION ThreadsSpec
CONSTANTS
  LinearSpeeds <- MCLinearSpeeds
  YawRates     <- MCYawRates
  SpeedLevels  <- MCSpeedLevels
  Gaits        <- MCGaits
  ModeNames    <- MCModeNames
  SelectParameters <- MCSelectParameters
  Malformed = Malformed
  MOVE_STOP_TIMEOUT = 1
  Clients <- MCSportClients
INVARIANTS
  ThreadsTypeOK
  LockedAtRestMeansStopped
PROPERTIES
  WalkingEnds
