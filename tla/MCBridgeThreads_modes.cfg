SPECIFICATION ThreadsSpec
CONSTANTS
  LinearSpeeds <- MCCappedSpeeds
  YawRates     <- MCYawRates
  SpeedLevels  <- MCSpeedLevels
  Gaits        <- MCGaits
  ModeNames    <- MCModeNames
  SelectParameters <- MCSelectParameters
  Malformed = Malformed
  MOVE_STOP_TIMEOUT = 1
  Clients <- MCModeClients
INVARIANTS
  ProfileMatchesModeAtRest
  NeverAboveTopSpeed
  ExplicitStopStops
