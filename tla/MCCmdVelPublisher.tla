------------------------- MODULE MCCmdVelPublisher --------------------------
(* A small instance of CmdVelPublisher and its lossy topic for TLC.        *)
EXTENDS LossyTopic

\* One speed under every cap, and one between each pair of caps and above.
MCLinearSpeeds == {10, 20, 40, 70}
MCYawRates     == {3}
MCSpeedLevels  == {-1, 0, 1}
MCGaits        == {0, 1, 4, 5}
MCModeNames    == {"ai", "normal", "normal-w"}

=============================================================================
