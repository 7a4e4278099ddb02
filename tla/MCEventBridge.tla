--------------------------- MODULE MCEventBridge ----------------------------
(* A small instance of EventBridge for TLC.                                *)
EXTENDS EventBridge

\* One speed only the sport profile allows, one that every cap allows.
MCLinearSpeeds == {10, 50}
MCYawRates     == {}
MCSpeedLevels  == {-1, 1}
MCGaits        == {0, 1, 5}
MCModeNames    == {"ai", "normal"}

\* An AI mode, a sport mode that also changes the form, and a missing name.
MCSelectParameters ==
  {[name |-> "ai", form |-> ""], [name |-> "normal", form |-> "1"], [name |-> "", form |-> "0"]}

=============================================================================
