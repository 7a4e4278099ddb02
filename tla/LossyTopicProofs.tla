-------------------------- MODULE LossyTopicProofs --------------------------
(***************************************************************************)
(* Proofs about LossyTopic: what a robot can be left with when samples of  *)
(* /cmd_vel_origin are lost, for every value of the constants.             *)
(***************************************************************************)
EXTENDS LossyTopic, CmdVelPublisherProofs

LossyIInv ==
  /\ CmdVelIInv
  /\ stopLost \in BOOLEAN
  /\ OnlyLostStopsEndanger

-----------------------------------------------------------------------------
\* The losses are the topic's: the publisher's own step is one of its methods.
LEMMA LossyStepIsCmdVelStep ==
  ASSUME LossyNext
  PROVE  CmdVelNext
  <1>1. CASE Publishing
    BY <1>1 DEF Publishing, CmdVelNext
  <1>2. CASE Tick
    BY <1>2 DEF CmdVelNext
  <1>3. CASE Quiet
    BY <1>3 DEF Quiet, CmdVelNext
  <1> QED BY <1>1, <1>2, <1>3 DEF LossyNext

\* A call that publishes nothing ends no move.
LEMMA QuietKeepsMoving ==
  ASSUME CmdVelIInv, Quiet, IsActivelyMoving
  PROVE  IsActivelyMoving'
  <1> SUFFICES m_hasActiveMove' = m_hasActiveMove /\ (m_jointsLocked' => m_jointsLocked)
    BY DEF IsActivelyMoving
  <1>1. CASE UnlockJoints
    BY <1>1 DEF UnlockJoints
  <1>2. ASSUME NEW enabled \in BOOLEAN, NEW mode,
               enabled \/ m_walkMode # mode, SetWalkMode(mode, enabled)
        PROVE  m_hasActiveMove' = m_hasActiveMove /\ (m_jointsLocked' => m_jointsLocked)
    BY <1>1, <1>2 DEF SetWalkMode, cmdVelVars
  <1>3. CASE \E enabled \in BOOLEAN : SetContinuousMoveMode(enabled)
    BY <1>3 DEF SetContinuousMoveMode
  <1>4. CASE \E gait \in Gaits \ {0} : SetGait(gait)
    BY <1>1, <1>4 DEF SetGait, cmdVelVars
  <1>5. CASE SetFreeWalk
    BY <1>1, <1>5 DEF SetFreeWalk
  <1>6. CASE \E level \in SpeedLevels : SetSpeedLevel(level)
    BY <1>6 DEF SetSpeedLevel
  <1>7. CASE \E name \in ModeNames : SetMotionModeName(name)
    BY <1>7 DEF SetMotionModeName
  <1>8. CASE Elapse
    BY <1>8 DEF Elapse
  <1> QED
    BY <1>1, <1>2, <1>3, <1>4, <1>5, <1>6, <1>7, <1>8
       DEF Quiet, SetVisionWalk, SetClassicWalk, SetFastWalk

\* A sample that ends a move is a stop (<2>2), so that losing any other leaves
\* the robot with a move the publisher still has on record.
LEMMA LossyStep ==
  ASSUME LossyIInv, [LossyNext]_lossyVars
  PROVE  LossyIInv'
  <1> USE DEF LossyIInv
  <1>1. CASE LossyNext
    <2>1. CmdVelIInv'
      BY <1>1, LossyStepIsCmdVelStep, CmdVelStepIInv
    <2>2. IsActivelyMoving' \/ twist' = Zero
      BY <2>1 DEF CmdVelIInv, CmdVelTypeOK, OutputIsActiveMove, IsActivelyMoving
    <2>3. CASE Delivered
      BY <2>1, <2>2, <2>3 DEF Delivered, OnlyLostStopsEndanger
    <2>4. CASE Lost
      BY <2>1, <2>2, <2>4 DEF Lost, OnlyLostStopsEndanger
    <2>5. CASE Quiet /\ UNCHANGED <<robot, stopLost>>
      BY <2>1, <2>5, QuietKeepsMoving DEF OnlyLostStopsEndanger
    <2> QED BY <1>1, <2>3, <2>4, <2>5 DEF LossyNext, Write
  <1>2. CASE UNCHANGED lossyVars
    <2>1. CmdVelIInv'
      BY <1>2, CmdVelStepIInv DEF lossyVars
    <2> QED
      BY <1>2, <2>1 DEF lossyVars, cmdVelVars, OnlyLostStopsEndanger, IsActivelyMoving
  <1> QED BY <1>1, <1>2

\* However many samples are lost, only a lost stop leaves a robot moving that
\* nobody drives.
THEOREM OnlyLostStops == LossySpec => []OnlyLostStopsEndanger
  <1>1. LossyInit => LossyIInv
    BY CmdVelInitIInv DEF LossyInit, LossyIInv, OnlyLostStopsEndanger
  <1>2. LossyIInv /\ [LossyNext]_lossyVars => LossyIInv'
    BY LossyStep
  <1>3. LossyIInv => OnlyLostStopsEndanger
    BY DEF LossyIInv
  <1> QED BY <1>1, <1>2, <1>3, PTL DEF LossySpec

=============================================================================
