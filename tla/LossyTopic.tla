----------------------------- MODULE LossyTopic -----------------------------
(***************************************************************************)
(* CmdVelPublisher over a topic that loses samples: a Write that returns   *)
(* false (PublishMove in src/cmd_vel_publisher.cpp logs it, if the sample  *)
(* was a stop, and goes on) or a sample the network drops.  Nothing is     *)
(* written again, so the robot goes on with what it heard last.            *)
(***************************************************************************)
EXTENDS CmdVelPublisher

VARIABLES
  robot,       \* the velocity the robot heard last
  stopLost     \* history: is it a stop that the robot missed since?

lossyVars == <<cmdVelVars, robot, stopLost>>

LossyInit == CmdVelInit /\ robot = Zero /\ stopLost = FALSE

-----------------------------------------------------------------------------
(* Which calls write a sample, and what becomes of it.                     *)

\* Every path that ends in PublishMove; the same sample may go out again.
Publishing ==
  \/ CmdVelResetToDefaults
  \/ LockJoints /\ UNCHANGED m_walkMode
  \/ 0 \in Gaits /\ SetGait(0)
  \/ m_walkMode = "VisionWalk" /\ SetVisionWalk(FALSE)
  \/ m_walkMode = "ClassicWalk" /\ SetClassicWalk(FALSE)
  \/ m_walkMode = "FastWalk" /\ SetFastWalk(FALSE)
  \/ \E velocity \in ParsedVelocities : HandleMove(velocity)
  \/ HandleStop
  \/ IsActivelyMoving /\ m_motionProfile # "Sport" /\ \E level \in SpeedLevels : SetSpeedLevel(level)
  \/ /\ IsActivelyMoving
     /\ \E name \in ModeNames :
          m_motionProfile # MotionProfileFromModeName(name) /\ SetMotionModeName(name)

Quiet ==
  \/ \E enabled \in BOOLEAN : SetContinuousMoveMode(enabled)
  \/ UnlockJoints /\ UNCHANGED m_walkMode
  \/ \E gait \in Gaits \ {0} : SetGait(gait)
  \/ \E enabled \in BOOLEAN : (enabled \/ m_walkMode # "VisionWalk") /\ SetVisionWalk(enabled)
  \/ \E enabled \in BOOLEAN : (enabled \/ m_walkMode # "ClassicWalk") /\ SetClassicWalk(enabled)
  \/ \E enabled \in BOOLEAN : (enabled \/ m_walkMode # "FastWalk") /\ SetFastWalk(enabled)
  \/ SetFreeWalk
  \/ /\ ~IsActivelyMoving \/ m_motionProfile = "Sport"
     /\ \E level \in SpeedLevels : SetSpeedLevel(level)
  \/ \E name \in ModeNames :
       /\ ~IsActivelyMoving \/ m_motionProfile = MotionProfileFromModeName(name)
       /\ SetMotionModeName(name)
  \/ Elapse

Delivered == robot' = twist' /\ stopLost' = FALSE

Lost == robot' = robot /\ stopLost' = (stopLost \/ twist' = Zero)

Write == Delivered \/ Lost

LossyNext ==
  \/ Publishing /\ Write
  \/ Tick /\ Write
  \/ Quiet /\ UNCHANGED <<robot, stopLost>>

\* As in CmdVelPublisher; the network owes nobody a delivery.
LossyFairness ==
  WF_lossyVars(Tick /\ Write) /\ WF_lossyVars(Elapse /\ UNCHANGED <<robot, stopLost>>)

LossySpec == LossyInit /\ [][LossyNext]_lossyVars /\ LossyFairness

-----------------------------------------------------------------------------
(* Properties.                                                             *)

\* Only a lost stop can leave a robot moving that nobody drives: a lost MOVE, a
\* lost republication under a new cap, and any number of them, cannot.  So the
\* write that PublishMove ought to try again is the stop, the one it reports.
OnlyLostStopsEndanger ==
  robot # Zero /\ ~IsActivelyMoving => stopLost

\* A robot that hears of no further MOVE stops, not only the topic (AutoStop),
\* however many samples before the stop were lost.
RobotStops ==
  (robot # Zero /\ ~m_continuousMoveMode /\ moveAge > 0)
    ~> (robot = Zero \/ stopLost \/ m_continuousMoveMode \/ moveAge = 0)

=============================================================================
