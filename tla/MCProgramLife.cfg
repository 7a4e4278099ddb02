SPECIFICATION LifeSpec
INVARIANTS
  LifeTypeOK
  AliveWhenUsed
  ReleasedAtExit
PROPERTIES
  ShutdownCompletes
