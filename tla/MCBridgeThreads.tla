-------------------------- MODULE MCBridgeThreads ---------------------------
(* Small instances of BridgeThreads for TLC: each configuration names the  *)
(* clients there can be.                                                   *)
EXTENDS BridgeThreads

\* One speed above every cap.
MCLinearSpeeds == {70}
\* For the runs that change the cap: also one that only the sport cap allows.
MCCappedSpeeds == {50, 70}
MCYawRates     == {}
MCSpeedLevels  == {-1, 1}
MCGaits        == {0, 1, 5}
MCModeNames    == {"ai", "normal"}
MCSelectParameters == {[name |-> "normal", form |-> ""]}

\* Every sport API, and the main loop.
MCSportClients ==
  {{"STANDUP", "RECOVERYSTAND", "STANDDOWN", "DAMP", "BALANCESTAND", "STOPMOVE", "MOVE",
    "SWITCHMOVEMODE", "SPEEDLEVEL", "SWITCHGAIT", "FREEWALK", "VISIONWALK", "CLASSICWALK",
    "FASTWALK", "TICK"}}

\* Two threads at a time that change the cap or the mode, and those that could
\* undo a stop.
MCModeClients ==
  {{"DAMP", "BALANCESTAND", "MOVE", "SPEEDLEVEL", "SELECT_MODE", "RELEASE_MODE"},
   {"STANDUP", "STANDDOWN", "SELECT_MODE", "RELEASE_MODE", "RESET"},
   {"DAMP", "BALANCESTAND", "STOPMOVE", "MOVE", "SPEEDLEVEL", "TICK", "RESET"}}

=============================================================================
