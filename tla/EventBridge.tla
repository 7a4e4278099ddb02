----------------------------- MODULE EventBridge ----------------------------
(***************************************************************************)
(* The program of src/main.cpp: the sport handlers, the motion switcher    *)
(* handlers, the reset callback and the main loop, over one CmdVelPublisher*)
(* and one MotionSwitcherBridgeClass.                                      *)
(*                                                                         *)
(* Here each handler, each callback and each turn of the main loop runs    *)
(* without interruption: this is what the handlers mean.  Nothing in the   *)
(* code makes them run so; BridgeThreads interleaves them.                 *)
(***************************************************************************)
EXTENDS CmdVelPublisher, MotionSwitcherBridge

\* The modes a client can select are among those the publisher is modelled for.
ASSUME EventBridgeAssumption ==
  /\ \A parameter \in SelectParameters : parameter.name = "" \/ parameter.name \in ModeNames
  /\ "ai" \in ModeNames

VARIABLE cmdCtl    \* the last command written to /cmd_ctl, 0 before the first

vars == <<cmdVelVars, switcherVars, cmdCtl>>

\* enum class FsmCommand
GetUpLocomotion == 10001
GetDown         == 10002
PassiveDamped   == 10003

\* Mutant: DAMP is not mapped.
FsmCommandOfStands ==
  [api \in {"STANDUP", "RECOVERYSTAND", "BALANCESTAND", "STANDDOWN"} |->
     IF api = "STANDDOWN" THEN GetDown ELSE GetUpLocomotion]

\* CmdCtlPublisher::TryMapSportApiToFsmCommand, on the APIs it maps.
FsmCommandOf ==
  [api \in {"STANDUP", "RECOVERYSTAND", "BALANCESTAND", "STANDDOWN", "DAMP"} |->
     IF api = "STANDDOWN" THEN GetDown
     ELSE IF api = "DAMP" THEN PassiveDamped ELSE GetUpLocomotion]

EventBridgeTypeOK ==
  /\ CmdVelTypeOK
  /\ SwitcherTypeOK
  /\ cmdCtl \in {0, GetUpLocomotion, GetDown, PassiveDamped}

EventBridgeInit == CmdVelInit /\ SwitcherInit /\ cmdCtl = 0

-----------------------------------------------------------------------------
(* Sport requests.                                                         *)

PublishCommand(command) == cmdCtl' = command

PublishFsmCommandIfMapped(api) ==
  IF api \in DOMAIN FsmCommandOf THEN PublishCommand(FsmCommandOf[api]) ELSE UNCHANGED cmdCtl

OnlyPosture == UNCHANGED <<mForm, mModeName, mSilent, response>>

\* The request or event handler of the APIs that lock or unlock the joints, put
\* the posture on record and send a command to the simulated robot.
PostureHandler(api, posture) ==
  /\ IF api = "BALANCESTAND" THEN UnlockJoints ELSE LockJoints
  /\ UNCHANGED m_walkMode
  /\ SetRobotPosture(posture)
  /\ OnlyPosture
  /\ PublishFsmCommandIfMapped(api)

StandUp       == PostureHandler("STANDUP", "StandUp")
StandDown     == PostureHandler("STANDDOWN", "StandDown")
RecoveryStand == PostureHandler("RECOVERYSTAND", "StandUp")
Damp          == PostureHandler("DAMP", "StandDown")
BalanceStand  == PostureHandler("BALANCESTAND", "StandUp")

\* Mutant: the posture follows the move before.
UpdatePostureFromLastMove(velocity) ==
  SetRobotPosture(IF m_lastVelocity # Zero THEN "Walking" ELSE mRobotPosture)

\* The posture follows the velocity that was asked for, not the limited one.
UpdatePostureFromMove(velocity) ==
  SetRobotPosture(IF velocity # Zero THEN "Walking" ELSE mRobotPosture)

\* On locked joints both halves of the handler do nothing.
Move(velocity) ==
  /\ HandleMove(velocity)
  /\ UpdatePostureFromMove(velocity)
  /\ OnlyPosture /\ UNCHANGED cmdCtl

StopMove ==
  /\ HandleStop
  /\ SetRobotPosture("StandUp")
  /\ OnlyPosture /\ UNCHANGED cmdCtl

\* The handlers that do no more than call the publisher.
PublisherOnly == UNCHANGED <<switcherVars, cmdCtl>>

SwitchMoveMode(enabled) == SetContinuousMoveMode(enabled) /\ PublisherOnly
SpeedLevel(level)       == SetSpeedLevel(level) /\ PublisherOnly
SwitchGait(gait)        == SetGait(gait) /\ PublisherOnly
FreeWalk                == SetFreeWalk /\ PublisherOnly
VisionWalk(enabled)     == SetVisionWalk(enabled) /\ PublisherOnly
ClassicWalk(enabled)    == SetClassicWalk(enabled) /\ PublisherOnly
FastWalk(enabled)       == SetFastWalk(enabled) /\ PublisherOnly

SportRequest ==
  \/ StandUp \/ StandDown \/ RecoveryStand \/ Damp \/ BalanceStand
  \/ \E velocity \in ParsedVelocities : Move(velocity)
  \/ StopMove
  \/ \E enabled \in BOOLEAN : SwitchMoveMode(enabled)
  \/ \E level \in SpeedLevels : SpeedLevel(level)
  \/ \E gait \in Gaits : SwitchGait(gait)
  \/ FreeWalk
  \/ \E enabled \in BOOLEAN : VisionWalk(enabled)
  \/ \E enabled \in BOOLEAN : ClassicWalk(enabled)
  \/ \E enabled \in BOOLEAN : FastWalk(enabled)

-----------------------------------------------------------------------------
(* Motion switcher requests: the bridge decides the response, the event    *)
(* handler of main then moves the publisher to the mode's profile.         *)

SelectModeRequest(parameter) ==
  /\ SelectMode(parameter)
  /\ IF SelectModeAccepted(parameter)
     THEN SetMotionModeName(parameter.name)
     ELSE UNCHANGED cmdVelVars
  /\ UNCHANGED cmdCtl

\* Mutant: the publisher is not told.
ReleaseModeSilently ==
  ReleaseMode /\ UNCHANGED cmdVelVars /\ UNCHANGED cmdCtl

ReleaseModeRequest ==
  /\ ReleaseMode
  /\ IF CanChangeMotionMode THEN SetMotionModeName("ai") ELSE UNCHANGED cmdVelVars
  /\ UNCHANGED cmdCtl

\* No event handler of main does anything on these but log.
SwitcherOnly == UNCHANGED <<cmdVelVars, cmdCtl>>

SwitcherRequest ==
  \/ \E parameter \in SelectParameters \cup {Malformed} : SelectModeRequest(parameter)
  \/ ReleaseModeRequest
  \/ CheckMode /\ SwitcherOnly
  \/ \E parameter \in [silent : BOOLEAN] \cup {Malformed} : SetSilent(parameter) /\ SwitcherOnly
  \/ GetSilent /\ SwitcherOnly
  \/ InternalRequest /\ SwitcherOnly

-----------------------------------------------------------------------------
(* The reset callback, the main loop and the clock.                        *)

Reset == CmdVelResetToDefaults /\ SwitcherResetToDefaults /\ UNCHANGED cmdCtl

\* Mutant: a robot that has stopped stays on record as walking.
MainLoopKeepsWalking ==
  /\ Tick \/ (~MoveTimedOut /\ UNCHANGED cmdVelVars)
  /\ SetRobotPosture(IF IsActivelyMoving' THEN "Walking" ELSE mRobotPosture)
  /\ OnlyPosture /\ UNCHANGED cmdCtl

\* One turn: the tick, then the posture that follows from what it left.
MainLoop ==
  /\ Tick \/ (~MoveTimedOut /\ UNCHANGED cmdVelVars)
  /\ SetRobotPosture(IF IsActivelyMoving' THEN "Walking"
                     ELSE IF mRobotPosture = "Walking" THEN "StandUp" ELSE mRobotPosture)
  /\ OnlyPosture /\ UNCHANGED cmdCtl

TimePasses == Elapse /\ PublisherOnly

EventBridgeNext == SportRequest \/ SwitcherRequest \/ Reset \/ MainLoop \/ TimePasses

\* The main loop runs every 10 ms whatever the clients do, and time passes.
EventBridgeFairness == WF_vars(MainLoop) /\ WF_vars(TimePasses)

EventBridgeSpec == EventBridgeInit /\ [][EventBridgeNext]_vars /\ EventBridgeFairness

-----------------------------------------------------------------------------
(* Properties.                                                             *)

\* A robot on record as lying down is not being driven.  This is what makes the
\* posture a fit guard for mode changes.
StandDownMeansStill == mRobotPosture = "StandDown" => twist = Zero

\* The switcher's mode name and the publisher's motion profile are two copies
\* of one fact, changed by two components: they agree.
ProfileMatchesMode == m_motionProfile = MotionProfileFromModeName(mModeName)

\* The mode never changes under a robot that is moving or about to move: the
\* speed cap of a moving robot is the one its speed level gave it.
ModeChangesAtRest ==
  [][(mModeName' # mModeName \/ m_motionProfile' # m_motionProfile) => twist' = Zero]_vars

\* A robot on record as lying down was told to lie down: the handlers' postures and
\* the map from APIs to commands are two lists, in two files, that have to agree on
\* every API.  Only a reset puts the record back and commands nothing.
LyingDownIsCommanded ==
  [][mRobotPosture' = "StandDown" /\ (mRobotPosture' # mRobotPosture \/ cmdCtl' # cmdCtl)
       => cmdCtl' \in {GetDown, PassiveDamped} \/ Reset]_vars

\* A robot that hears of no further MOVE is in the end no longer on record as
\* walking, so that the clients who wait to change its mode can make it lie down.
WalkingEnds ==
  (mRobotPosture = "Walking" /\ ~m_continuousMoveMode /\ moveAge > 0)
    ~> (mRobotPosture # "Walking" \/ m_continuousMoveMode \/ moveAge = 0)

=============================================================================
