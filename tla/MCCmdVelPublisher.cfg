SPECIFICATION LossySpec
CONSTANTS
  LinearSpeeds <- MCLinearSpeeds
  YawRates     <- MCYawRates
  SpeedLevels  <- MCSpeedLevels
  Gaits        <- MCGaits
  ModeNames    <- MCModeNames
  MOVE_STOP_TIMEOUT = 2
INVARIANTS
  CmdVelTypeOK
  LockedMeansStopped
  CapFollowsProfileAndLevel
  OutputWithinCap
  OutputIsActiveMove
  OnlyLostStopsEndanger
PROPERTIES
  OnlyMoveAccelerates
  AutoStop
  RobotStops
  ImplementsVelocityGate
