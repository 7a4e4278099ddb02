----------------------- MODULE CmdVelPublisherProofs ------------------------
(***************************************************************************)
(* Proofs about CmdVelPublisher, for every set of speeds, yaw rates,       *)
(* levels, gaits and mode names and every timeout.                         *)
(***************************************************************************)
EXTENDS CmdVelPublisher, TLAPS

\* The inductive invariant.  OutputIsActiveMove is the link the others need:
\* SetSpeedLevel and SetMotionModeName publish m_lastVelocity, which is safe
\* only because it is what the topic already carries.
CmdVelIInv ==
  /\ CmdVelTypeOK
  /\ m_jointsLocked => ~m_hasActiveMove
  /\ OutputIsActiveMove
  /\ CapFollowsProfileAndLevel
  /\ OutputWithinCap

-----------------------------------------------------------------------------
(* The pure helpers.                                                       *)

\* The cap is one of the three speeds named in the header.
LEMMA MaxLinearSpeedType ==
  ASSUME NEW profile, NEW level
  PROVE  MaxLinearSpeed(profile, level) \in
           {AI_LOW_MAX_LINEAR_SPEED, AI_HIGH_MAX_LINEAR_SPEED, SPORT_MAX_LINEAR_SPEED}
  BY DEF MaxLinearSpeed

LEMMA MaxLinearSpeedNat ==
  ASSUME NEW profile, NEW level
  PROVE  MaxLinearSpeed(profile, level) \in Nat
  BY MaxLinearSpeedType
     DEF AI_LOW_MAX_LINEAR_SPEED, AI_HIGH_MAX_LINEAR_SPEED, SPORT_MAX_LINEAR_SPEED

\* ApplySpeedLimit obeys the cap, never speeds up, and leaves the turn alone.
LEMMA ApplySpeedLimitFacts ==
  ASSUME NEW velocity \in MoveVelocity, NEW max \in Nat
  PROVE  /\ ApplySpeedLimit(velocity, max) \in MoveVelocity
         /\ ApplySpeedLimit(velocity, max).lin <= max
         /\ ApplySpeedLimit(velocity, max).lin <= velocity.lin
         /\ ApplySpeedLimit(velocity, max).yaw = velocity.yaw
  BY DEF ApplySpeedLimit, MoveVelocity

LEMMA MoveVelocityFacts ==
  /\ Zero \in MoveVelocity
  /\ Zero.lin = 0
  /\ ParsedVelocities \subseteq MoveVelocity
  <1>1. Zero \in MoveVelocity /\ Zero.lin = 0
    BY DEF Zero, MoveVelocity
  <1>2. LinearSpeeds \cup {0} \subseteq Nat /\ YawRates \cup {0} \subseteq Int
    BY CmdVelAssumption
  <1>3. ParsedVelocities \subseteq MoveVelocity
    BY <1>2 DEF MoveVelocity, ParsedVelocities
  <1> QED BY <1>1, <1>3

LEMMA ProfileType ==
  ASSUME NEW name
  PROVE  MotionProfileFromModeName(name) \in MotionProfile
  BY DEF MotionProfileFromModeName, MotionProfile

-----------------------------------------------------------------------------
(* The methods.                                                            *)

LEMMA LockJointsPreserves ==
  ASSUME CmdVelIInv, LockJoints, m_walkMode' \in WalkMode
  PROVE  CmdVelIInv'
  <1>1. m_jointsLocked' = TRUE /\ m_hasActiveMove' = FALSE /\ twist' = Zero
    BY DEF LockJoints, PublishStop, PublishMove
  <1>2. CmdVelTypeOK'
    BY <1>1, MoveVelocityFacts DEF CmdVelIInv, CmdVelTypeOK, LockJoints
  <1>3. OutputIsActiveMove'
    BY <1>1 DEF OutputIsActiveMove
  <1>4. CapFollowsProfileAndLevel' /\ OutputWithinCap'
    BY <1>1, <1>2, MoveVelocityFacts
       DEF CmdVelIInv, CmdVelTypeOK, CapFollowsProfileAndLevel, OutputWithinCap, LockJoints
  <1> QED BY <1>1, <1>2, <1>3, <1>4 DEF CmdVelIInv

LEMMA UnlockJointsPreserves ==
  ASSUME CmdVelIInv, UnlockJoints, m_walkMode' \in WalkMode
  PROVE  CmdVelIInv'
  BY DEF CmdVelIInv, CmdVelTypeOK, OutputIsActiveMove, CapFollowsProfileAndLevel,
         OutputWithinCap, UnlockJoints

LEMMA HandleStopPreserves ==
  ASSUME CmdVelIInv, HandleStop
  PROVE  CmdVelIInv'
  <1>1. m_hasActiveMove' = FALSE /\ twist' = Zero
    BY DEF HandleStop, PublishStop, PublishMove
  <1>2. CmdVelTypeOK'
    BY <1>1, MoveVelocityFacts DEF CmdVelIInv, CmdVelTypeOK, HandleStop
  <1>3. OutputIsActiveMove'
    BY <1>1 DEF OutputIsActiveMove
  <1>4. CapFollowsProfileAndLevel' /\ OutputWithinCap'
    BY <1>1, <1>2, MoveVelocityFacts
       DEF CmdVelIInv, CmdVelTypeOK, CapFollowsProfileAndLevel, OutputWithinCap, HandleStop
  <1> QED BY <1>1, <1>2, <1>3, <1>4 DEF CmdVelIInv

\* Recomputing the cap, for the two callers of ApplyCapToActiveMove.
LEMMA ApplyCapFacts ==
  ASSUME CmdVelIInv, NEW profile, NEW level, ApplyCapToActiveMove(profile, level)
  PROVE  /\ m_maxLinearSpeed' = MaxLinearSpeed(profile, level)
         /\ m_maxLinearSpeed' \in Nat
         /\ m_lastVelocity' \in MoveVelocity
         /\ twist' = IF m_hasActiveMove THEN m_lastVelocity' ELSE Zero
         /\ twist'.lin <= m_maxLinearSpeed' /\ twist'.lin <= twist.lin
         /\ twist'.yaw = twist.yaw
  <1>1. m_maxLinearSpeed' = MaxLinearSpeed(profile, level) /\ m_maxLinearSpeed' \in Nat
    BY MaxLinearSpeedNat DEF ApplyCapToActiveMove
  <1>2. CASE IsActivelyMoving
    <2>1. /\ m_lastVelocity' = ApplySpeedLimit(m_lastVelocity, m_maxLinearSpeed')
          /\ twist' = m_lastVelocity'
          /\ twist = m_lastVelocity
          /\ m_hasActiveMove
      BY <1>1, <1>2 DEF ApplyCapToActiveMove, PublishMove, IsActivelyMoving,
                        CmdVelIInv, OutputIsActiveMove
    <2>2. m_lastVelocity \in MoveVelocity
      BY DEF CmdVelIInv, CmdVelTypeOK
    <2> QED BY <1>1, <2>1, <2>2, ApplySpeedLimitFacts
  <1>3. CASE ~IsActivelyMoving
    <2>1. ~m_hasActiveMove /\ twist = Zero
      BY <1>3 DEF IsActivelyMoving, CmdVelIInv, CmdVelTypeOK, OutputIsActiveMove
    <2>2. UNCHANGED <<m_lastVelocity, twist>>
      BY <1>3 DEF ApplyCapToActiveMove
    <2> QED BY <1>1, <2>1, <2>2, MoveVelocityFacts DEF CmdVelIInv, CmdVelTypeOK
  <1> QED BY <1>2, <1>3

LEMMA SetSpeedLevelPreserves ==
  ASSUME CmdVelIInv, NEW level \in Int, SetSpeedLevel(level)
  PROVE  CmdVelIInv'
  <1>1. CASE m_motionProfile = "Sport"
    BY <1>1 DEF CmdVelIInv, CmdVelTypeOK, OutputIsActiveMove, CapFollowsProfileAndLevel,
                OutputWithinCap, SetSpeedLevel, MaxLinearSpeed
  <1>2. CASE m_motionProfile # "Sport"
    <2>1. ApplyCapToActiveMove(m_motionProfile, level)
      BY <1>2 DEF SetSpeedLevel
    <2> QED
      BY <2>1, ApplyCapFacts
         DEF CmdVelIInv, CmdVelTypeOK, OutputIsActiveMove, CapFollowsProfileAndLevel,
             OutputWithinCap, SetSpeedLevel, MoveVelocity, Zero
  <1> QED BY <1>1, <1>2

LEMMA SetMotionModeNamePreserves ==
  ASSUME CmdVelIInv, NEW name, SetMotionModeName(name)
  PROVE  CmdVelIInv'
  <1> DEFINE profile == MotionProfileFromModeName(name)
  <1>1. CASE m_motionProfile = profile
    BY <1>1 DEF CmdVelIInv, CmdVelTypeOK, OutputIsActiveMove, CapFollowsProfileAndLevel,
                OutputWithinCap, SetMotionModeName
  <1>2. CASE m_motionProfile # profile
    <2>1. ApplyCapToActiveMove(profile, m_speedLevel)
      BY <1>2 DEF SetMotionModeName
    <2> QED
      BY <2>1, ApplyCapFacts, ProfileType
         DEF CmdVelIInv, CmdVelTypeOK, OutputIsActiveMove, CapFollowsProfileAndLevel,
             OutputWithinCap, SetMotionModeName, MoveVelocity, Zero
  <1> QED BY <1>1, <1>2

LEMMA ResetPreserves ==
  ASSUME CmdVelIInv, CmdVelResetToDefaults
  PROVE  CmdVelIInv'
  <1>1. m_jointsLocked' = TRUE /\ m_hasActiveMove' = FALSE /\ twist' = Zero
    BY DEF CmdVelResetToDefaults, PublishStop, PublishMove
  <1>2. CmdVelTypeOK'
    <2>1. m_speedLevel' \in Int /\ m_maxLinearSpeed' \in Nat /\ moveAge' \in 0 .. MOVE_STOP_TIMEOUT
      BY CmdVelAssumption DEF CmdVelResetToDefaults, AI_LOW_MAX_LINEAR_SPEED
    <2>2. m_lastVelocity' \in MoveVelocity /\ twist' \in MoveVelocity
      BY <1>1, MoveVelocityFacts DEF CmdVelResetToDefaults
    <2> QED
      BY <1>1, <2>1, <2>2 DEF CmdVelTypeOK, CmdVelResetToDefaults, WalkMode, MotionProfile
  <1>3. OutputIsActiveMove'
    BY <1>1 DEF OutputIsActiveMove
  <1>4. CapFollowsProfileAndLevel'
    BY DEF CapFollowsProfileAndLevel, CmdVelResetToDefaults, MaxLinearSpeed
  <1>5. OutputWithinCap'
    BY <1>1, <1>2, MoveVelocityFacts DEF CmdVelTypeOK, OutputWithinCap
  <1> QED BY <1>1, <1>2, <1>3, <1>4, <1>5 DEF CmdVelIInv

LEMMA HandleMovePreserves ==
  ASSUME CmdVelIInv, NEW velocity \in ParsedVelocities, HandleMove(velocity)
  PROVE  CmdVelIInv'
  <1>1. /\ m_lastVelocity' = ApplySpeedLimit(velocity, m_maxLinearSpeed)
        /\ twist' = ApplySpeedLimit(velocity, m_maxLinearSpeed)
        /\ m_hasActiveMove' /\ ~m_jointsLocked'
    BY DEF HandleMove, PublishMove, CmdVelIInv, CmdVelTypeOK
  <1>2. velocity \in MoveVelocity /\ m_maxLinearSpeed \in Nat
    BY MoveVelocityFacts DEF CmdVelIInv, CmdVelTypeOK
  <1>3. twist' \in MoveVelocity /\ twist'.lin <= m_maxLinearSpeed
    BY <1>1, <1>2, ApplySpeedLimitFacts
  <1> QED
    BY <1>1, <1>3, CmdVelAssumption
       DEF CmdVelIInv, CmdVelTypeOK, OutputIsActiveMove, CapFollowsProfileAndLevel,
           OutputWithinCap, HandleMove, PublishMove

-----------------------------------------------------------------------------
LEMMA CmdVelInitIInv == CmdVelInit => CmdVelIInv
  <1> SUFFICES ASSUME CmdVelInit PROVE CmdVelIInv
    OBVIOUS
  <1>1. CmdVelTypeOK
    <2>1. m_speedLevel \in Int /\ m_maxLinearSpeed \in Nat /\ moveAge \in 0 .. MOVE_STOP_TIMEOUT
      BY CmdVelAssumption DEF CmdVelInit, AI_LOW_MAX_LINEAR_SPEED
    <2>2. m_lastVelocity \in MoveVelocity /\ twist \in MoveVelocity
      BY MoveVelocityFacts DEF CmdVelInit
    <2> QED
      BY <2>1, <2>2 DEF CmdVelTypeOK, CmdVelInit, WalkMode, MotionProfile
  <1>2. ~m_hasActiveMove /\ OutputIsActiveMove
    BY DEF CmdVelInit, OutputIsActiveMove
  <1>3. CapFollowsProfileAndLevel
    BY DEF CmdVelInit, CapFollowsProfileAndLevel, MaxLinearSpeed
  <1>4. OutputWithinCap
    BY <1>1, MoveVelocityFacts DEF CmdVelInit, CmdVelTypeOK, OutputWithinCap
  <1> QED BY <1>1, <1>2, <1>3, <1>4 DEF CmdVelIInv

\* No call of a public method, and no passing of time, breaks the invariant.
LEMMA CmdVelStepIInv ==
  ASSUME CmdVelIInv, [CmdVelNext]_cmdVelVars
  PROVE  CmdVelIInv'
  <1> USE DEF CmdVelNext
  <1>1. ASSUME NEW enabled \in BOOLEAN, SetContinuousMoveMode(enabled) PROVE CmdVelIInv'
    BY <1>1, CmdVelAssumption
       DEF SetContinuousMoveMode, CmdVelIInv, CmdVelTypeOK, OutputIsActiveMove,
           CapFollowsProfileAndLevel, OutputWithinCap
  <1>2. ASSUME NEW level \in SpeedLevels, SetSpeedLevel(level) PROVE CmdVelIInv'
    BY <1>2, SetSpeedLevelPreserves, CmdVelAssumption
  <1>3. ASSUME NEW name \in ModeNames, SetMotionModeName(name) PROVE CmdVelIInv'
    BY <1>3, SetMotionModeNamePreserves
  <1>4. CASE CmdVelResetToDefaults
    BY <1>4, ResetPreserves
  <1>5. CASE LockJoints /\ UNCHANGED m_walkMode
    BY <1>5, LockJointsPreserves DEF CmdVelIInv, CmdVelTypeOK
  <1>6. CASE UnlockJoints /\ UNCHANGED m_walkMode
    BY <1>6, UnlockJointsPreserves DEF CmdVelIInv, CmdVelTypeOK
  <1>7. CASE UNCHANGED cmdVelVars
    BY <1>7 DEF cmdVelVars, CmdVelIInv, CmdVelTypeOK, OutputIsActiveMove,
                CapFollowsProfileAndLevel, OutputWithinCap
  <1>8. ASSUME NEW gait \in Gaits, SetGait(gait) PROVE CmdVelIInv'
    BY <1>8, <1>5, <1>6, <1>7 DEF SetGait
  <1>9. ASSUME NEW mode \in WalkMode, NEW enabled \in BOOLEAN, SetWalkMode(mode, enabled)
        PROVE  CmdVelIInv'
    BY <1>9, <1>7, LockJointsPreserves, UnlockJointsPreserves DEF SetWalkMode, WalkMode
  <1>10. ASSUME NEW enabled \in BOOLEAN,
                SetVisionWalk(enabled) \/ SetClassicWalk(enabled) \/ SetFastWalk(enabled)
         PROVE  CmdVelIInv'
    BY <1>9, <1>10 DEF SetVisionWalk, SetClassicWalk, SetFastWalk, WalkMode
  <1>11. CASE SetFreeWalk
    BY <1>11, UnlockJointsPreserves DEF SetFreeWalk, WalkMode
  <1>12. ASSUME NEW velocity \in ParsedVelocities, HandleMove(velocity) PROVE CmdVelIInv'
    BY <1>12, HandleMovePreserves
  <1>13. CASE HandleStop \/ Tick
    BY <1>13, HandleStopPreserves DEF Tick
  <1>14. CASE Elapse
    BY <1>14, CmdVelAssumption
       DEF Elapse, CmdVelIInv, CmdVelTypeOK, OutputIsActiveMove,
           CapFollowsProfileAndLevel, OutputWithinCap
  <1> QED
    BY <1>1, <1>2, <1>3, <1>4, <1>5, <1>6, <1>7, <1>8, <1>10, <1>11, <1>12, <1>13, <1>14

\* Type correctness and the strengthening it needs, for every behaviour.
THEOREM CmdVelInvariance == CmdVelSpec => []CmdVelIInv
  <1>1. CmdVelInit => CmdVelIInv
    BY CmdVelInitIInv
  <1>2. CmdVelIInv /\ [CmdVelNext]_cmdVelVars => CmdVelIInv'
    BY CmdVelStepIInv
  <1> QED BY <1>1, <1>2, PTL DEF CmdVelSpec

THEOREM CmdVelTypeCorrect == CmdVelSpec => []CmdVelTypeOK
  <1>1. CmdVelIInv => CmdVelTypeOK
    BY DEF CmdVelIInv
  <1> QED BY <1>1, CmdVelInvariance, PTL

\* The publisher never leaves a robot moving with its joints locked.
THEOREM LockedStopped == CmdVelSpec => []LockedMeansStopped
  <1>1. CmdVelIInv => LockedMeansStopped
    BY DEF CmdVelIInv, LockedMeansStopped, OutputIsActiveMove
  <1> QED BY <1>1, CmdVelInvariance, PTL

\* SetSpeedLevel, SetMotionModeName and ResetToDefaults leave the cap that README.md
\* gives for the profile and the level, in whatever order they are called.
THEOREM CapDocumented == CmdVelSpec => []CapFollowsProfileAndLevel
  <1>1. CmdVelIInv => CapFollowsProfileAndLevel
    BY DEF CmdVelIInv
  <1> QED BY <1>1, CmdVelInvariance, PTL

\* The topic carries m_lastVelocity while a move is active, and zero otherwise: what
\* RepublishActiveMove publishes again is what the robot is doing.
THEOREM OutputActive == CmdVelSpec => []OutputIsActiveMove
  <1>1. CmdVelIInv => OutputIsActiveMove
    BY DEF CmdVelIInv
  <1> QED BY <1>1, CmdVelInvariance, PTL

\* The published speed respects the cap, also when a change of profile or level
\* publishes a velocity again that an earlier cap let through.
THEOREM CapHonoured == CmdVelSpec => []OutputWithinCap
  <1>1. CmdVelIInv => OutputWithinCap
    BY DEF CmdVelIInv
  <1> QED BY <1>1, CmdVelInvariance, PTL

-----------------------------------------------------------------------------
(* Steps.                                                                  *)

\* A call that only locks, unlocks, stops or recaps does not accelerate.
LEMMA NoAcceleration ==
  ASSUME CmdVelIInv,
         \/ twist' = Zero
         \/ twist' = twist
         \/ twist'.lin <= twist.lin /\ twist'.yaw = twist.yaw /\ twist' \in MoveVelocity
  PROVE  ~Accelerates
  BY DEF CmdVelIInv, CmdVelTypeOK, Accelerates, Zero, MoveVelocity

\* CmdVelNext without its MOVE.
StepOtherThanMove ==
  \/ \E enabled \in BOOLEAN : SetContinuousMoveMode(enabled)
  \/ \E level \in SpeedLevels : SetSpeedLevel(level)
  \/ \E name \in ModeNames : SetMotionModeName(name)
  \/ CmdVelResetToDefaults
  \/ LockJoints \/ UnlockJoints
  \/ \E gait \in Gaits : SetGait(gait)
  \/ \E enabled \in BOOLEAN :
       SetVisionWalk(enabled) \/ SetClassicWalk(enabled) \/ SetFastWalk(enabled)
  \/ SetFreeWalk
  \/ HandleStop \/ Tick \/ Elapse
  \/ UNCHANGED cmdVelVars

LEMMA MoveOrOther ==
  ASSUME [CmdVelNext]_cmdVelVars
  PROVE  StepOtherThanMove \/ \E velocity \in ParsedVelocities : HandleMove(velocity)
  BY DEF CmdVelNext, StepOtherThanMove

\* The shapes of a step that is not a MOVE, seen through the gate.
LEMMA StepWithoutMove ==
  ASSUME CmdVelIInv, StepOtherThanMove
  PROVE  \/ Gate!Close \/ Gate!Open \/ Gate!Halt \/ Gate!Recap
         \/ UNCHANGED <<m_jointsLocked, m_maxLinearSpeed, twist>>
  <1> DEFINE Goal == \/ Gate!Close \/ Gate!Open \/ Gate!Halt \/ Gate!Recap
                     \/ UNCHANGED <<m_jointsLocked, m_maxLinearSpeed, twist>>
  <1>1. m_maxLinearSpeed \in Nat
    BY DEF CmdVelIInv, CmdVelTypeOK
  <1>2. Zero = Gate!Still /\ MoveVelocity = Gate!Velocity
    BY DEF Zero, Gate!Still, MoveVelocity, Gate!Velocity
  <1>3. LockJoints => Gate!Close
    BY <1>1, <1>2 DEF LockJoints, PublishStop, PublishMove, Gate!Close
  <1>4. UnlockJoints => Gate!Open
    BY DEF UnlockJoints, Gate!Open
  <1>5. ASSUME NEW profile, NEW level, ApplyCapToActiveMove(profile, level),
               UNCHANGED m_jointsLocked, UNCHANGED m_hasActiveMove
        PROVE  Gate!Recap
    <2>1. twist' \in MoveVelocity
      BY <1>5, ApplyCapFacts, MoveVelocityFacts
    <2> QED BY <1>5, <2>1, <1>2, ApplyCapFacts DEF Gate!Recap
  <1>6. ASSUME NEW level \in SpeedLevels, SetSpeedLevel(level) PROVE Goal
    BY <1>5, <1>6 DEF SetSpeedLevel
  <1>7. ASSUME NEW name \in ModeNames, SetMotionModeName(name) PROVE Goal
    BY <1>5, <1>7 DEF SetMotionModeName
  <1>8. CASE CmdVelResetToDefaults
    BY <1>2, <1>8
       DEF CmdVelResetToDefaults, PublishStop, PublishMove, Gate!Close, AI_LOW_MAX_LINEAR_SPEED
  <1>9. UNCHANGED cmdVelVars => Goal
    BY DEF cmdVelVars
  <1>10. ASSUME NEW gait \in Gaits, SetGait(gait) PROVE Goal
    BY <1>3, <1>4, <1>9, <1>10 DEF SetGait
  <1>11. ASSUME NEW enabled \in BOOLEAN,
                SetVisionWalk(enabled) \/ SetClassicWalk(enabled) \/ SetFastWalk(enabled)
         PROVE  Goal
    BY <1>3, <1>4, <1>9, <1>11
       DEF SetVisionWalk, SetClassicWalk, SetFastWalk, SetWalkMode
  <1>12. CASE SetFreeWalk
    BY <1>4, <1>12 DEF SetFreeWalk
  <1>13. CASE HandleStop \/ Tick
    BY <1>2, <1>13 DEF Tick, HandleStop, PublishStop, PublishMove, Gate!Halt
  <1>14. CASE Elapse \/ \E enabled \in BOOLEAN : SetContinuousMoveMode(enabled)
    BY <1>14 DEF Elapse, SetContinuousMoveMode
  <1> QED
    BY <1>3, <1>4, <1>6, <1>7, <1>8, <1>9, <1>10, <1>11, <1>12, <1>13, <1>14
       DEF StepOtherThanMove

\* Nothing but a MOVE sets a still robot in motion.
LEMMA StillStays ==
  ASSUME CmdVelIInv, StepOtherThanMove, twist = Zero
  PROVE  twist' = Zero
  <1>1. CASE Gate!Close \/ Gate!Halt \/ Gate!Open
               \/ UNCHANGED <<m_jointsLocked, m_maxLinearSpeed, twist>>
    BY <1>1 DEF Gate!Close, Gate!Halt, Gate!Open, Gate!Still, Zero
  <1>2. CASE Gate!Recap
    <2>1. twist' \in [lin : Nat, yaw : Int] /\ twist'.lin <= 0 /\ twist'.yaw = 0
      BY <1>2 DEF Gate!Recap, Gate!Velocity, Zero
    <2>2. twist'.lin = 0 /\ twist' = [lin |-> twist'.lin, yaw |-> twist'.yaw]
      BY <2>1
    <2> QED BY <2>1, <2>2 DEF Zero
  <1> QED BY <1>1, <1>2, StepWithoutMove

\* Nothing but a MOVE speeds the robot up or turns it another way.
THEOREM MoveAlone == CmdVelSpec => OnlyMoveAccelerates
  <1>1. ASSUME CmdVelIInv, [CmdVelNext]_cmdVelVars,
               ~ \E velocity \in ParsedVelocities : HandleMove(velocity)
        PROVE  ~Accelerates
    BY <1>1, MoveOrOther, StepWithoutMove, NoAcceleration
       DEF Gate!Close, Gate!Open, Gate!Halt, Gate!Recap, Gate!Still, Zero,
           Gate!Velocity, MoveVelocity
  <1>2. CmdVelIInv /\ [CmdVelNext]_cmdVelVars
          => [Accelerates => \E velocity \in ParsedVelocities : HandleMove(velocity)]_cmdVelVars
    BY <1>1
  <1> QED BY <1>2, CmdVelInvariance, PTL DEF CmdVelSpec, OnlyMoveAccelerates

LEMMA GateInitially == CmdVelInit => Gate!GateInit
  BY DEF CmdVelInit, Gate!GateInit, Gate!Still, Zero, AI_LOW_MAX_LINEAR_SPEED

LEMMA GateStep ==
  ASSUME CmdVelIInv, [CmdVelNext]_cmdVelVars
  PROVE  [Gate!GateNext]_(Gate!gateVars)
  <1>1. ASSUME NEW velocity \in ParsedVelocities, HandleMove(velocity)
        PROVE  Gate!Drive
    <2>1. velocity \in MoveVelocity /\ m_maxLinearSpeed \in Nat
      BY MoveVelocityFacts DEF CmdVelIInv, CmdVelTypeOK
    <2>2. twist' \in MoveVelocity /\ twist'.lin <= m_maxLinearSpeed
      BY <1>1, <2>1, ApplySpeedLimitFacts DEF HandleMove, PublishMove
    <2> QED
      BY <1>1, <2>2 DEF HandleMove, Gate!Drive, Gate!Velocity, MoveVelocity
  <1> QED
    BY <1>1, MoveOrOther, StepWithoutMove DEF Gate!GateNext, Gate!gateVars

\* The class implements the velocity gate.
THEOREM CmdVelRefinesGate == CmdVelSpec => ImplementsVelocityGate
  <1>1. CmdVelIInv /\ [CmdVelNext]_cmdVelVars => [Gate!GateNext]_(Gate!gateVars)
    BY GateStep
  <1> QED
    BY <1>1, GateInitially, CmdVelInvariance, PTL
       DEF CmdVelSpec, ImplementsVelocityGate, Gate!GateSpec

=============================================================================
