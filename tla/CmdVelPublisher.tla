-------------------------- MODULE CmdVelPublisher --------------------------
(***************************************************************************)
(* The class CmdVelPublisher (src/cmd_vel_publisher.cpp): it gates, clamps *)
(* and times out the MOVE velocities it publishes on /cmd_vel_origin.      *)
(*                                                                         *)
(* One action is one call of a public method that runs to its end.  What   *)
(* happens when two threads are inside the object at once is the subject   *)
(* of BridgeThreads.                                                       *)
(*                                                                         *)
(* A velocity is abstracted to [lin, yaw]: lin is hypot(vx, vy) in tenths  *)
(* of m/s (the speed limit scales vx and vy alike, so only the magnitude   *)
(* matters to it), yaw is vyaw.                                            *)
(***************************************************************************)
EXTENDS Integers

CONSTANTS
  LinearSpeeds,        \* magnitudes a MOVE parameter may ask for
  YawRates,            \* yaw rates a MOVE parameter may ask for
  SpeedLevels,         \* levels a SPEEDLEVEL parameter may carry
  Gaits,               \* gaits a SWITCHGAIT parameter may carry
  ModeNames,           \* mode names a SELECT_MODE parameter may carry
  MOVE_STOP_TIMEOUT    \* the 1000 ms of the auto stop, in clock units

ASSUME CmdVelAssumption ==
  /\ LinearSpeeds \subseteq Nat
  /\ YawRates \subseteq Int
  /\ SpeedLevels \subseteq Int
  /\ Gaits \subseteq Int
  /\ MOVE_STOP_TIMEOUT \in Nat \ {0}

AI_LOW_MAX_LINEAR_SPEED  == 15
AI_HIGH_MAX_LINEAR_SPEED == 35
SPORT_MAX_LINEAR_SPEED   == 60

WalkMode      == {"None", "VisionWalk", "FreeWalk", "ClassicWalk", "FastWalk"}
MotionProfile == {"Ai", "Sport"}
MoveVelocity  == [lin : Nat, yaw : Int]
Zero          == [lin |-> 0, yaw |-> 0]

\* What ParseMoveParameter can return: a missing, ill-typed or unparsable
\* key leaves its component at zero.
ParsedVelocities == [lin : LinearSpeeds \cup {0}, yaw : YawRates \cup {0}]

VARIABLES
  m_continuousMoveMode,
  m_jointsLocked,
  m_walkMode,
  m_hasActiveMove,
  m_motionProfile,
  m_speedLevel,
  m_maxLinearSpeed,
  m_lastVelocity,
  moveAge,             \* now - m_lastMoveTime; MOVE_STOP_TIMEOUT stands for "or more"
  twist                \* the last sample written to /cmd_vel_origin

cmdVelVars == <<m_continuousMoveMode, m_jointsLocked, m_walkMode, m_hasActiveMove,
                m_motionProfile, m_speedLevel, m_maxLinearSpeed, m_lastVelocity,
                moveAge, twist>>

CmdVelTypeOK ==
  /\ m_continuousMoveMode \in BOOLEAN
  /\ m_jointsLocked \in BOOLEAN
  /\ m_walkMode \in WalkMode
  /\ m_hasActiveMove \in BOOLEAN
  /\ m_motionProfile \in MotionProfile
  /\ m_speedLevel \in Int
  /\ m_maxLinearSpeed \in Nat
  /\ m_lastVelocity \in MoveVelocity
  /\ moveAge \in 0 .. MOVE_STOP_TIMEOUT
  /\ twist \in MoveVelocity

-----------------------------------------------------------------------------
(* Pure helpers.                                                           *)

MotionProfileFromModeName(name) ==
  IF name \in {"normal", "normal-w"} THEN "Sport" ELSE "Ai"

MaxLinearSpeed(profile, level) ==
  IF profile = "Sport" THEN SPORT_MAX_LINEAR_SPEED
  ELSE IF level = 1 THEN AI_HIGH_MAX_LINEAR_SPEED ELSE AI_LOW_MAX_LINEAR_SPEED

\* Mutant: the excess over the cap is taken for the cap.
LimitToTheExcess(velocity, max) ==
  [velocity EXCEPT !.lin = IF velocity.lin > max THEN max - velocity.lin ELSE velocity.lin]

\* Scaling (vx, vy) by max / magnitude leaves a vector of magnitude max.
ApplySpeedLimit(velocity, max) ==
  [velocity EXCEPT !.lin = IF velocity.lin > max THEN max ELSE velocity.lin]

\* Mutant: whoever may move is taken to be moving.
UnlockedMeansMoving == ~m_jointsLocked

IsActivelyMoving == m_hasActiveMove /\ ~m_jointsLocked

-----------------------------------------------------------------------------
\* The constructor.  m_lastMoveTime starts at the clock's epoch, long ago.
\* The topic carries no sample yet, which a robot reads as no motion.
CmdVelInit ==
  /\ m_continuousMoveMode = FALSE
  /\ m_jointsLocked = TRUE
  /\ m_walkMode = "None"
  /\ m_hasActiveMove = FALSE
  /\ m_motionProfile = "Ai"
  /\ m_speedLevel = -1
  /\ m_maxLinearSpeed = AI_LOW_MAX_LINEAR_SPEED
  /\ m_lastVelocity = Zero
  /\ moveAge = MOVE_STOP_TIMEOUT
  /\ twist = Zero

PublishMove(velocity) == twist' = velocity

PublishStop == PublishMove(Zero)

SetContinuousMoveMode(enabled) ==
  /\ m_continuousMoveMode' = enabled
  /\ moveAge' = IF enabled THEN moveAge ELSE 0
  /\ UNCHANGED <<m_jointsLocked, m_walkMode, m_hasActiveMove, m_motionProfile,
                 m_speedLevel, m_maxLinearSpeed, m_lastVelocity, twist>>

\* Mutant: the new cap waits for the next MOVE.
ApplyCapToNextMove(profile, level) ==
  /\ m_maxLinearSpeed' = MaxLinearSpeed(profile, level)
  /\ UNCHANGED <<m_lastVelocity, twist>>

\* The tail of SetSpeedLevel and SetMotionModeName: recompute the cap and, if a
\* move is under way, publish it again under the new cap.
ApplyCapToActiveMove(profile, level) ==
  /\ m_maxLinearSpeed' = MaxLinearSpeed(profile, level)
  /\ IF IsActivelyMoving
     THEN /\ m_lastVelocity' = ApplySpeedLimit(m_lastVelocity, MaxLinearSpeed(profile, level))
          /\ PublishMove(ApplySpeedLimit(m_lastVelocity, MaxLinearSpeed(profile, level)))
     ELSE UNCHANGED <<m_lastVelocity, twist>>

SetSpeedLevel(level) ==
  /\ m_speedLevel' = level
  /\ IF m_motionProfile = "Sport"
     THEN UNCHANGED <<m_maxLinearSpeed, m_lastVelocity, twist>>
     ELSE ApplyCapToActiveMove(m_motionProfile, level)
  /\ UNCHANGED <<m_continuousMoveMode, m_jointsLocked, m_walkMode, m_hasActiveMove,
                 m_motionProfile, moveAge>>

\* Mutant: the cap is computed for a moving robot only.
SetMotionModeNameOfMovingRobot(name) ==
  LET profile == MotionProfileFromModeName(name) IN
  /\ m_motionProfile' = profile
  /\ IF m_motionProfile = profile \/ ~IsActivelyMoving
     THEN UNCHANGED <<m_maxLinearSpeed, m_lastVelocity, twist>>
     ELSE ApplyCapToActiveMove(profile, m_speedLevel)
  /\ UNCHANGED <<m_continuousMoveMode, m_jointsLocked, m_walkMode, m_hasActiveMove,
                 m_speedLevel, moveAge>>

SetMotionModeName(name) ==
  LET profile == MotionProfileFromModeName(name) IN
  /\ m_motionProfile' = profile
  /\ IF m_motionProfile = profile
     THEN UNCHANGED <<m_maxLinearSpeed, m_lastVelocity, twist>>
     ELSE ApplyCapToActiveMove(profile, m_speedLevel)
  /\ UNCHANGED <<m_continuousMoveMode, m_jointsLocked, m_walkMode, m_hasActiveMove,
                 m_speedLevel, moveAge>>

CmdVelResetToDefaults ==
  /\ m_continuousMoveMode' = FALSE
  /\ m_jointsLocked' = TRUE
  /\ m_walkMode' = "None"
  /\ m_hasActiveMove' = FALSE
  /\ m_motionProfile' = "Ai"
  /\ m_speedLevel' = -1
  /\ m_maxLinearSpeed' = AI_LOW_MAX_LINEAR_SPEED
  /\ m_lastVelocity' = Zero
  /\ moveAge' = 0
  /\ PublishStop

\* Mutant: the stop is not published.
LockJointsSilently ==
  /\ m_jointsLocked' = TRUE
  /\ m_hasActiveMove' = FALSE
  /\ UNCHANGED <<m_continuousMoveMode, m_motionProfile, m_speedLevel,
                 m_maxLinearSpeed, m_lastVelocity, moveAge, twist>>

\* LockJoints and UnlockJoints are called on their own and from SetGait and
\* SetWalkMode, which say what becomes of m_walkMode.
LockJoints ==
  /\ m_jointsLocked' = TRUE
  /\ m_hasActiveMove' = FALSE
  /\ PublishStop
  /\ UNCHANGED <<m_continuousMoveMode, m_motionProfile, m_speedLevel,
                 m_maxLinearSpeed, m_lastVelocity, moveAge>>

UnlockJoints ==
  /\ m_jointsLocked' = FALSE
  /\ UNCHANGED <<m_continuousMoveMode, m_hasActiveMove, m_motionProfile, m_speedLevel,
                 m_maxLinearSpeed, m_lastVelocity, moveAge, twist>>

SetGait(gait) ==
  \/ gait = 0 /\ LockJoints /\ UNCHANGED m_walkMode
  \/ gait \in 1 .. 4 /\ UnlockJoints /\ UNCHANGED m_walkMode
  \/ gait \notin 0 .. 4 /\ UNCHANGED cmdVelVars

SetWalkMode(mode, enabled) ==
  \/ enabled /\ m_walkMode' = mode /\ UnlockJoints
  \/ ~enabled /\ m_walkMode = mode /\ m_walkMode' = "None" /\ LockJoints
  \/ ~enabled /\ m_walkMode # mode /\ UNCHANGED cmdVelVars

SetVisionWalk(enabled)  == SetWalkMode("VisionWalk", enabled)
SetClassicWalk(enabled) == SetWalkMode("ClassicWalk", enabled)
SetFastWalk(enabled)    == SetWalkMode("FastWalk", enabled)
SetFreeWalk             == m_walkMode' = "FreeWalk" /\ UnlockJoints

\* Mutant: the lock is not looked at.
HandleMoveOnLockedJoints(velocity) ==
  /\ m_lastVelocity' = ApplySpeedLimit(velocity, m_maxLinearSpeed)
  /\ moveAge' = 0
  /\ m_hasActiveMove' = TRUE
  /\ PublishMove(ApplySpeedLimit(velocity, m_maxLinearSpeed))
  /\ UNCHANGED <<m_continuousMoveMode, m_jointsLocked, m_walkMode, m_motionProfile,
                 m_speedLevel, m_maxLinearSpeed>>

\* Mutant: the move is published but not remembered as active.
HandleMoveUnmarked(velocity) ==
  /\ ~m_jointsLocked
  /\ m_lastVelocity' = ApplySpeedLimit(velocity, m_maxLinearSpeed)
  /\ moveAge' = 0
  /\ PublishMove(ApplySpeedLimit(velocity, m_maxLinearSpeed))
  /\ UNCHANGED <<m_continuousMoveMode, m_jointsLocked, m_walkMode, m_hasActiveMove,
                 m_motionProfile, m_speedLevel, m_maxLinearSpeed>>

\* The parsed parameter is the argument; a MOVE on locked joints is dropped.
HandleMove(velocity) ==
  /\ ~m_jointsLocked
  /\ m_lastVelocity' = ApplySpeedLimit(velocity, m_maxLinearSpeed)
  /\ moveAge' = 0
  /\ m_hasActiveMove' = TRUE
  /\ PublishMove(ApplySpeedLimit(velocity, m_maxLinearSpeed))
  /\ UNCHANGED <<m_continuousMoveMode, m_jointsLocked, m_walkMode, m_motionProfile,
                 m_speedLevel, m_maxLinearSpeed>>

\* Mutant: the move stays active.
HandleStopUnmarked ==
  /\ PublishStop
  /\ UNCHANGED <<m_continuousMoveMode, m_jointsLocked, m_walkMode, m_hasActiveMove,
                 m_motionProfile, m_speedLevel, m_maxLinearSpeed, m_lastVelocity, moveAge>>

HandleStop ==
  /\ m_hasActiveMove' = FALSE
  /\ PublishStop
  /\ UNCHANGED <<m_continuousMoveMode, m_jointsLocked, m_walkMode, m_motionProfile,
                 m_speedLevel, m_maxLinearSpeed, m_lastVelocity, moveAge>>

\* Mutant: only a robot that goes somewhere is stopped, not one that turns.
LinearMoveTimedOut ==
  /\ ~m_jointsLocked /\ ~m_continuousMoveMode /\ m_hasActiveMove
  /\ m_lastVelocity.lin > 0 /\ moveAge >= MOVE_STOP_TIMEOUT

MoveTimedOut ==
  /\ ~m_jointsLocked /\ ~m_continuousMoveMode /\ m_hasActiveMove
  /\ moveAge >= MOVE_STOP_TIMEOUT

Tick == MoveTimedOut /\ HandleStop

\* The steady clock; ages beyond the timeout are not told apart.
Elapse ==
  /\ moveAge < MOVE_STOP_TIMEOUT
  /\ moveAge' = moveAge + 1
  /\ UNCHANGED <<m_continuousMoveMode, m_jointsLocked, m_walkMode, m_hasActiveMove,
                 m_motionProfile, m_speedLevel, m_maxLinearSpeed, m_lastVelocity, twist>>

CmdVelNext ==
  \/ \E enabled \in BOOLEAN : SetContinuousMoveMode(enabled)
  \/ \E level \in SpeedLevels : SetSpeedLevel(level)
  \/ \E name \in ModeNames : SetMotionModeName(name)
  \/ CmdVelResetToDefaults
  \/ LockJoints /\ UNCHANGED m_walkMode
  \/ UnlockJoints /\ UNCHANGED m_walkMode
  \/ \E gait \in Gaits : SetGait(gait)
  \/ \E enabled \in BOOLEAN : SetVisionWalk(enabled)
  \/ \E enabled \in BOOLEAN : SetClassicWalk(enabled)
  \/ \E enabled \in BOOLEAN : SetFastWalk(enabled)
  \/ SetFreeWalk
  \/ \E velocity \in ParsedVelocities : HandleMove(velocity)
  \/ HandleStop
  \/ Tick
  \/ Elapse

\* main calls Tick every 10 ms and the clock does not stop; nothing obliges a
\* client to call anything.
CmdVelFairness == WF_cmdVelVars(Tick) /\ WF_cmdVelVars(Elapse)

CmdVelSpec == CmdVelInit /\ [][CmdVelNext]_cmdVelVars /\ CmdVelFairness

-----------------------------------------------------------------------------
(* Properties.                                                             *)

\* Locked joints mean a stopped robot: whichever of the calls that lock the
\* joints came last, its stop has been published and nothing published since
\* (LockJoints, the guards of HandleMove, SetSpeedLevel and SetMotionModeName).
LockedMeansStopped == m_jointsLocked => twist = Zero /\ ~m_hasActiveMove

\* The cap in force is the one the motion profile and the speed level call for,
\* although SetSpeedLevel skips the computation in the sport profile and
\* SetMotionModeName skips it when the profile does not change.
CapFollowsProfileAndLevel ==
  m_maxLinearSpeed = MaxLinearSpeed(m_motionProfile, m_speedLevel)

\* The robot is never told to exceed the cap, even one lowered after the MOVE
\* was published.
OutputWithinCap == twist.lin <= m_maxLinearSpeed

\* What was published last is the active move, or a stop if there is none: the
\* flag by which Tick decides is never out of step with the robot.
OutputIsActiveMove ==
  twist = IF m_hasActiveMove THEN m_lastVelocity ELSE Zero

\* Only a MOVE makes the robot go faster or turn otherwise: raising the cap,
\* unlocking the joints or changing mode never revives an old velocity.
Accelerates ==
  twist'.lin > twist.lin \/ twist'.yaw \notin {0, twist.yaw}

OnlyMoveAccelerates ==
  [][Accelerates => \E velocity \in ParsedVelocities : HandleMove(velocity)]_cmdVelVars

\* Auto stop: outside continuous mode a robot that hears of no further MOVE
\* comes to a stop.
AutoStop ==
  (twist # Zero /\ ~m_continuousMoveMode /\ moveAge > 0)
    ~> (twist = Zero \/ m_continuousMoveMode \/ moveAge = 0)

\* README.md, "Walk modes": when VisionWalk, ClassicWalk or FastWalk is called
\* with flag=false, the joints are locked and MOVE is blocked.
DisablingAWalkModeLocks ==
  ~ ENABLED (/\ SetVisionWalk(FALSE) \/ SetClassicWalk(FALSE) \/ SetFastWalk(FALSE)
             /\ ~m_jointsLocked')

\* The publisher is a velocity gate: its profile, level, walk mode, timer and
\* remembered velocity are only ways of keeping the gate's promise.
Gate == INSTANCE VelocityGate
          WITH locked <- m_jointsLocked, cap <- m_maxLinearSpeed, out <- twist

ImplementsVelocityGate == Gate!GateSpec

=============================================================================
