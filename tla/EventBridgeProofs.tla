-------------------------- MODULE EventBridgeProofs --------------------------
(***************************************************************************)
(* Proofs about EventBridge: the program's handlers, each run to its end,  *)
(* keep the posture, the published velocity, the selected mode and the     *)
(* motion profile in step, for every value of the constants.               *)
(***************************************************************************)
EXTENDS EventBridge, CmdVelPublisherProofs

\* The inductive invariant: that of the publisher, and the two facts that tie
\* it to the motion switcher.
EventBridgeIInv ==
  /\ CmdVelIInv
  /\ SwitcherTypeOK
  /\ cmdCtl \in {0, GetUpLocomotion, GetDown, PassiveDamped}
  /\ StandDownMeansStill
  /\ ProfileMatchesMode

-----------------------------------------------------------------------------
(* What a step does to the publisher.                                      *)

SportRequestOtherThanMove ==
  \/ StandUp \/ StandDown \/ RecoveryStand \/ Damp \/ BalanceStand \/ StopMove
  \/ \E enabled \in BOOLEAN : SwitchMoveMode(enabled)
  \/ \E level \in SpeedLevels : SpeedLevel(level)
  \/ \E gait \in Gaits : SwitchGait(gait)
  \/ FreeWalk
  \/ \E enabled \in BOOLEAN : VisionWalk(enabled) \/ ClassicWalk(enabled) \/ FastWalk(enabled)

LEMMA SportSplit ==
  SportRequest <=> SportRequestOtherThanMove
                     \/ \E velocity \in ParsedVelocities : Move(velocity)
  BY DEF SportRequest, SportRequestOtherThanMove

\* The posture handlers lock or unlock and leave the walk mode.
LEMMA PostureHandlerFacts ==
  ASSUME NEW api \in {"STANDUP", "STANDDOWN", "RECOVERYSTAND", "DAMP", "BALANCESTAND"},
         NEW posture \in RobotPosture, PostureHandler(api, posture)
  PROVE  /\ (LockJoints \/ UnlockJoints) /\ UNCHANGED m_walkMode
         /\ mRobotPosture' = posture
         /\ UNCHANGED <<mForm, mModeName, mSilent, response>>
         /\ UNCHANGED m_motionProfile
         /\ cmdCtl' \in {0, GetUpLocomotion, GetDown, PassiveDamped}
  <1>1. cmdCtl' = FsmCommandOf[api] /\ api \in DOMAIN FsmCommandOf
    BY DEF PostureHandler, PublishFsmCommandIfMapped, PublishCommand, FsmCommandOf
  <1>2. FsmCommandOf[api] \in {GetUpLocomotion, GetDown, PassiveDamped}
    BY DEF FsmCommandOf
  <1> QED
    BY <1>1, <1>2
       DEF PostureHandler, SetRobotPosture, OnlyPosture, LockJoints, UnlockJoints

\* STANDDOWN and DAMP also stop the robot.
LEMMA LyingDownStops ==
  ASSUME StandDown \/ Damp
  PROVE  twist' = Zero
  BY DEF StandDown, Damp, PostureHandler, LockJoints, PublishStop, PublishMove

LEMMA SportStep ==
  ASSUME SportRequestOtherThanMove, cmdCtl \in {0, GetUpLocomotion, GetDown, PassiveDamped},
         mRobotPosture \in RobotPosture
  PROVE  /\ [CmdVelNext]_cmdVelVars /\ StepOtherThanMove
         /\ UNCHANGED <<m_motionProfile, mForm, mModeName, mSilent, response>>
         /\ mRobotPosture' \in RobotPosture
         /\ twist' = Zero \/ mRobotPosture' # "StandDown" \/ UNCHANGED mRobotPosture
         /\ cmdCtl' \in {0, GetUpLocomotion, GetDown, PassiveDamped}
  <1> DEFINE Goal ==
         /\ [CmdVelNext]_cmdVelVars /\ StepOtherThanMove
         /\ UNCHANGED <<m_motionProfile, mForm, mModeName, mSilent, response>>
         /\ mRobotPosture' \in RobotPosture
         /\ twist' = Zero \/ mRobotPosture' # "StandDown" \/ UNCHANGED mRobotPosture
         /\ cmdCtl' \in {0, GetUpLocomotion, GetDown, PassiveDamped}
  <1> SUFFICES Goal
    OBVIOUS
  <1>1. CASE StandUp \/ RecoveryStand \/ BalanceStand
    BY <1>1, PostureHandlerFacts
       DEF StandUp, RecoveryStand, BalanceStand, RobotPosture, CmdVelNext, StepOtherThanMove
  <1>2. CASE StandDown \/ Damp
    BY <1>2, PostureHandlerFacts, LyingDownStops
       DEF StandDown, Damp, RobotPosture, CmdVelNext, StepOtherThanMove
  <1>3. CASE StopMove
    BY <1>3 DEF StopMove, HandleStop, SetRobotPosture, OnlyPosture, RobotPosture,
                CmdVelNext, StepOtherThanMove
  <1>4. ASSUME PublisherOnly, UNCHANGED m_motionProfile, [CmdVelNext]_cmdVelVars,
               StepOtherThanMove
        PROVE  Goal
    BY <1>4 DEF PublisherOnly, switcherVars
  <1>5. ASSUME NEW enabled \in BOOLEAN, SwitchMoveMode(enabled) PROVE Goal
    BY <1>4, <1>5 DEF SwitchMoveMode, SetContinuousMoveMode, CmdVelNext, StepOtherThanMove
  <1>6. ASSUME NEW level \in SpeedLevels, SpeedLevel(level) PROVE Goal
    BY <1>4, <1>6 DEF SpeedLevel, SetSpeedLevel, CmdVelNext, StepOtherThanMove
  <1>7. ASSUME NEW gait \in Gaits, SwitchGait(gait) PROVE Goal
    BY <1>4, <1>7
       DEF SwitchGait, SetGait, LockJoints, UnlockJoints, cmdVelVars, CmdVelNext,
           StepOtherThanMove
  <1>8. CASE FreeWalk
    BY <1>4, <1>8 DEF FreeWalk, SetFreeWalk, UnlockJoints, CmdVelNext, StepOtherThanMove
  <1>9. ASSUME NEW enabled \in BOOLEAN,
               VisionWalk(enabled) \/ ClassicWalk(enabled) \/ FastWalk(enabled)
        PROVE  Goal
    <2>1. UNCHANGED m_motionProfile
      BY <1>9 DEF VisionWalk, ClassicWalk, FastWalk, SetVisionWalk, SetClassicWalk,
                  SetFastWalk, SetWalkMode, LockJoints, UnlockJoints, cmdVelVars
    <2> QED
      BY <1>4, <1>9, <2>1
         DEF VisionWalk, ClassicWalk, FastWalk, CmdVelNext, StepOtherThanMove
  <1> QED
    BY <1>1, <1>2, <1>3, <1>5, <1>6, <1>7, <1>8, <1>9 DEF SportRequestOtherThanMove

\* A MOVE that asks for a velocity puts the robot on record as walking; one that
\* asks for none publishes none.
LEMMA MoveStep ==
  ASSUME CmdVelIInv, NEW velocity \in ParsedVelocities, Move(velocity)
  PROVE  /\ CmdVelNext
         /\ UNCHANGED <<m_motionProfile, mForm, mModeName, mSilent, response, cmdCtl>>
         /\ \/ mRobotPosture' = "Walking"
            \/ UNCHANGED mRobotPosture /\ twist' = Zero
  <1>1. HandleMove(velocity) /\ UpdatePostureFromMove(velocity)
    BY DEF Move
  <1>2. CASE velocity = Zero
    <2>1. ApplySpeedLimit(Zero, m_maxLinearSpeed) = Zero
      BY DEF CmdVelIInv, CmdVelTypeOK, ApplySpeedLimit, Zero
    <2> QED
      BY <1>1, <1>2, <2>1
         DEF HandleMove, PublishMove, Move, OnlyPosture, UpdatePostureFromMove,
             SetRobotPosture, CmdVelNext
  <1>3. CASE velocity # Zero
    BY <1>1, <1>3
       DEF HandleMove, Move, OnlyPosture, UpdatePostureFromMove, SetRobotPosture, CmdVelNext
  <1> QED BY <1>2, <1>3

\* The mode and the profile change together, and only in the stand down posture.
LEMMA SelectStep ==
  ASSUME SwitcherTypeOK, NEW parameter \in SelectParameters \cup {Malformed},
         SelectModeRequest(parameter)
  PROVE  /\ [CmdVelNext]_cmdVelVars /\ StepOtherThanMove
         /\ mForm' \in Forms /\ mModeName' \in SelectedModes
         /\ UNCHANGED <<mSilent, mRobotPosture, cmdCtl>>
         /\ \/ /\ mRobotPosture = "StandDown"
               /\ m_motionProfile' = MotionProfileFromModeName(mModeName')
            \/ UNCHANGED <<m_motionProfile, mModeName>>
  <1>1. CASE SelectModeAccepted(parameter)
    <2>1. parameter \in SelectParameters /\ parameter.name \in ModeNames
      BY <1>1, EventBridgeAssumption DEF SelectModeAccepted
    <2>2. /\ SetMotionModeName(parameter.name)
          /\ mModeName' = parameter.name
          /\ mForm' = mForm \/ (mForm' = parameter.form /\ parameter.form # "")
          /\ mRobotPosture = "StandDown"
          /\ UNCHANGED <<mSilent, mRobotPosture, cmdCtl>>
      BY <1>1 DEF SelectModeRequest, SelectMode, SelectModeAccepted, CanChangeMotionMode
    <2>3. mForm' \in Forms /\ mModeName' \in SelectedModes
      BY <2>1, <2>2 DEF SwitcherTypeOK, Forms, SelectedModes
    <2> QED
      BY <2>1, <2>2, <2>3 DEF SetMotionModeName, CmdVelNext, StepOtherThanMove
  <1>2. CASE ~SelectModeAccepted(parameter)
    BY <1>2 DEF SelectModeRequest, SelectMode, SwitcherTypeOK, cmdVelVars, StepOtherThanMove
  <1> QED BY <1>1, <1>2

LEMMA ReleaseStep ==
  ASSUME SwitcherTypeOK, ReleaseModeRequest
  PROVE  /\ [CmdVelNext]_cmdVelVars /\ StepOtherThanMove
         /\ mForm' \in Forms /\ mModeName' \in SelectedModes
         /\ UNCHANGED <<mSilent, mRobotPosture, cmdCtl>>
         /\ \/ /\ mRobotPosture = "StandDown"
               /\ m_motionProfile' = MotionProfileFromModeName(mModeName')
            \/ UNCHANGED <<m_motionProfile, mModeName>>
  <1>1. CASE CanChangeMotionMode
    <2>1. SetMotionModeName("ai") /\ mModeName' = ""
      BY <1>1 DEF ReleaseModeRequest, ReleaseMode
    <2>2. m_motionProfile' = MotionProfileFromModeName(mModeName')
      BY <2>1 DEF SetMotionModeName, MotionProfileFromModeName
    <2> QED
      BY <1>1, <2>1, <2>2, EventBridgeAssumption
         DEF ReleaseModeRequest, ReleaseMode, CanChangeMotionMode, SwitcherTypeOK,
             SelectedModes, CmdVelNext, StepOtherThanMove
  <1>2. CASE ~CanChangeMotionMode
    BY <1>2 DEF ReleaseModeRequest, ReleaseMode, SwitcherTypeOK, cmdVelVars, StepOtherThanMove
  <1> QED BY <1>1, <1>2

\* A turn of the main loop.
LEMMA MainLoopStep ==
  ASSUME CmdVelIInv, SwitcherTypeOK, StandDownMeansStill, MainLoop
  PROVE  /\ [CmdVelNext]_cmdVelVars /\ StepOtherThanMove
         /\ UNCHANGED <<m_motionProfile, mForm, mModeName, mSilent, response, cmdCtl>>
         /\ mRobotPosture' \in RobotPosture
         /\ mRobotPosture' = "StandDown" => mRobotPosture = "StandDown"
  <1>1. Tick \/ UNCHANGED cmdVelVars
    BY DEF MainLoop
  <1>2. /\ [CmdVelNext]_cmdVelVars /\ StepOtherThanMove
        /\ UNCHANGED m_motionProfile
    BY <1>1 DEF CmdVelNext, StepOtherThanMove, Tick, HandleStop, cmdVelVars
  <1>3. mRobotPosture' \in {"Walking", "StandUp", mRobotPosture}
    BY DEF MainLoop, SetRobotPosture
  <1> QED
    BY <1>2, <1>3 DEF MainLoop, OnlyPosture, SwitcherTypeOK, RobotPosture

-----------------------------------------------------------------------------
(* The motion switcher's own requests.                                     *)

ResponseType == [status : StatusCode,
                 data : {NoData} \cup (Forms \X SelectedModes) \cup {<<b>> : b \in BOOLEAN}]

\* Whatever the request, its response is well formed.
LEMMA SwitcherResponse ==
  ASSUME SwitcherTypeOK, SwitcherRequest
  PROVE  response' \in ResponseType /\ mSilent' \in BOOLEAN
  <1>1. ASSUME NEW status \in StatusCode, Respond(status, NoData) PROVE response' \in ResponseType
    BY <1>1 DEF Respond, ResponseType
  <1>2. "Success" \in StatusCode /\ "Busy" \in StatusCode /\ "Parameter" \in StatusCode
    BY DEF StatusCode
  <1>3. ASSUME NEW parameter \in SelectParameters \cup {Malformed}, SelectModeRequest(parameter)
        PROVE  response' \in ResponseType /\ UNCHANGED mSilent
    <2>1. SelectModeStatus(parameter) \in StatusCode
      BY DEF SelectModeStatus, StatusCode
    <2> QED BY <1>1, <1>3, <2>1 DEF SelectModeRequest, SelectMode
  <1>4. CASE ReleaseModeRequest
    BY <1>1, <1>2, <1>4 DEF ReleaseModeRequest, ReleaseMode, SwitcherTypeOK
  <1>5. CASE CheckMode
    BY <1>2, <1>5 DEF CheckMode, Respond, ResponseType, SwitcherTypeOK
  <1>6. ASSUME NEW parameter \in [silent : BOOLEAN] \cup {Malformed}, SetSilent(parameter)
        PROVE  response' \in ResponseType /\ mSilent' \in BOOLEAN
    BY <1>1, <1>2, <1>6 DEF SetSilent, SwitcherTypeOK
  <1>7. CASE GetSilent
    BY <1>2, <1>7 DEF GetSilent, Respond, ResponseType, SwitcherTypeOK
  <1>8. CASE InternalRequest
    BY <1>1, <1>2, <1>8 DEF InternalRequest, SwitcherTypeOK
  <1> QED
    BY <1>3, <1>4, <1>5, <1>6, <1>7, <1>8 DEF SwitcherRequest, SwitcherTypeOK

LEMMA SwitcherStep ==
  ASSUME SwitcherTypeOK, SwitcherRequest
  PROVE  /\ [CmdVelNext]_cmdVelVars /\ StepOtherThanMove
         /\ SwitcherTypeOK'
         /\ UNCHANGED <<mRobotPosture, cmdCtl>>
         /\ \/ /\ mRobotPosture = "StandDown"
               /\ m_motionProfile' = MotionProfileFromModeName(mModeName')
            \/ UNCHANGED <<m_motionProfile, mModeName>>
  <1> DEFINE Goal ==
         /\ [CmdVelNext]_cmdVelVars /\ StepOtherThanMove
         /\ mForm' \in Forms /\ mModeName' \in SelectedModes
         /\ UNCHANGED <<mRobotPosture, cmdCtl>>
         /\ \/ /\ mRobotPosture = "StandDown"
               /\ m_motionProfile' = MotionProfileFromModeName(mModeName')
            \/ UNCHANGED <<m_motionProfile, mModeName>>
  <1> SUFFICES Goal
    BY SwitcherResponse DEF SwitcherTypeOK, ResponseType
  <1>1. ASSUME NEW parameter \in SelectParameters \cup {Malformed}, SelectModeRequest(parameter)
        PROVE  Goal
    BY <1>1, SelectStep
  <1>2. CASE ReleaseModeRequest
    BY <1>2, ReleaseStep
  <1>3. ASSUME SwitcherOnly, UNCHANGED <<mForm, mModeName, mRobotPosture>> PROVE Goal
    BY <1>3 DEF SwitcherOnly, SwitcherTypeOK, cmdVelVars, StepOtherThanMove
  <1>4. CASE (CheckMode \/ GetSilent \/ InternalRequest) /\ SwitcherOnly
    BY <1>3, <1>4 DEF CheckMode, GetSilent, InternalRequest
  <1>5. ASSUME NEW parameter \in [silent : BOOLEAN] \cup {Malformed},
               SetSilent(parameter) /\ SwitcherOnly
        PROVE  Goal
    BY <1>3, <1>5 DEF SetSilent
  <1> QED BY <1>1, <1>2, <1>4, <1>5 DEF SwitcherRequest

LEMMA ResetStep ==
  ASSUME Reset, SwitcherTypeOK
  PROVE  /\ CmdVelNext /\ StepOtherThanMove
         /\ SwitcherTypeOK'
         /\ twist' = Zero
         /\ m_motionProfile' = MotionProfileFromModeName(mModeName')
         /\ UNCHANGED cmdCtl
  <1>1. SwitcherTypeOK'
    BY DEF Reset, SwitcherResetToDefaults, SwitcherTypeOK, Forms, SelectedModes, RobotPosture
  <1> QED
    BY <1>1 DEF Reset, CmdVelResetToDefaults, SwitcherResetToDefaults, PublishStop, PublishMove,
                MotionProfileFromModeName, CmdVelNext, StepOtherThanMove

-----------------------------------------------------------------------------
(* The invariant.                                                          *)

\* Every step of the program is a call of a public method of the publisher, or
\* leaves it alone.
LEMMA BridgeStep ==
  ASSUME EventBridgeIInv, [EventBridgeNext]_vars
  PROVE  /\ [CmdVelNext]_cmdVelVars
         /\ EventBridgeIInv'
         /\ (mModeName' # mModeName \/ m_motionProfile' # m_motionProfile) => twist' = Zero
  <1> DEFINE Goal ==
         /\ [CmdVelNext]_cmdVelVars
         /\ SwitcherTypeOK'
         /\ cmdCtl' \in {0, GetUpLocomotion, GetDown, PassiveDamped}
         /\ StandDownMeansStill' /\ ProfileMatchesMode'
         /\ (mModeName' # mModeName \/ m_motionProfile' # m_motionProfile) => twist' = Zero
  <1> USE DEF EventBridgeIInv
  <1> SUFFICES Goal
    BY CmdVelStepIInv
  <1>1. ASSUME StepOtherThanMove, [CmdVelNext]_cmdVelVars,
               UNCHANGED <<m_motionProfile, mForm, mModeName, mSilent, response>>,
               mRobotPosture' \in RobotPosture,
               twist' = Zero \/ (mRobotPosture' = "StandDown" => mRobotPosture = "StandDown"),
               cmdCtl' \in {0, GetUpLocomotion, GetDown, PassiveDamped}
        PROVE  Goal
    <2>1. StandDownMeansStill'
      BY <1>1, StillStays DEF StandDownMeansStill
    <2> QED BY <1>1, <2>1 DEF SwitcherTypeOK, ProfileMatchesMode
  <1>2. CASE SportRequestOtherThanMove
    <2>1. mRobotPosture \in RobotPosture
      BY DEF SwitcherTypeOK
    <2> QED BY <1>1, <1>2, <2>1, SportStep
  <1>3. ASSUME NEW velocity \in ParsedVelocities, Move(velocity) PROVE Goal
    BY <1>3, MoveStep
       DEF SwitcherTypeOK, StandDownMeansStill, ProfileMatchesMode, RobotPosture
  <1>4. CASE SwitcherRequest
    <2>1. mRobotPosture = "StandDown" => twist' = Zero
      BY <1>4, SwitcherStep, StillStays DEF StandDownMeansStill
    <2> QED
      BY <1>4, <2>1, SwitcherStep DEF StandDownMeansStill, ProfileMatchesMode
  <1>5. CASE Reset
    BY <1>5, ResetStep DEF StandDownMeansStill, ProfileMatchesMode
  <1>6. CASE MainLoop
    BY <1>1, <1>6, MainLoopStep
  <1>7. CASE TimePasses
    <2>1. StepOtherThanMove /\ [CmdVelNext]_cmdVelVars /\ UNCHANGED m_motionProfile
      BY <1>7 DEF TimePasses, Elapse, CmdVelNext, StepOtherThanMove
    <2> QED
      BY <1>1, <1>7, <2>1 DEF TimePasses, PublisherOnly, switcherVars, SwitcherTypeOK
  <1>8. CASE UNCHANGED vars
    <2>1. StepOtherThanMove /\ [CmdVelNext]_cmdVelVars /\ UNCHANGED m_motionProfile
      BY <1>8 DEF vars, cmdVelVars, StepOtherThanMove
    <2> QED
      BY <1>1, <1>8, <2>1 DEF vars, switcherVars, SwitcherTypeOK
  <1> QED
    BY <1>2, <1>3, <1>4, <1>5, <1>6, <1>7, <1>8, SportSplit DEF EventBridgeNext

LEMMA EventBridgeInitIInv == EventBridgeInit => EventBridgeIInv
  <1> SUFFICES ASSUME EventBridgeInit PROVE EventBridgeIInv
    OBVIOUS
  <1>1. CmdVelIInv
    BY CmdVelInitIInv DEF EventBridgeInit
  <1>2. SwitcherTypeOK
    BY DEF EventBridgeInit, SwitcherInit, SwitcherTypeOK, Forms, SelectedModes,
           RobotPosture, StatusCode
  <1>3. StandDownMeansStill /\ ProfileMatchesMode
    BY DEF EventBridgeInit, CmdVelInit, SwitcherInit, StandDownMeansStill,
           ProfileMatchesMode, MotionProfileFromModeName
  <1> QED BY <1>1, <1>2, <1>3 DEF EventBridgeIInv, EventBridgeInit

\* The invariant holds of the whole program.
THEOREM EventBridgeInvariance == EventBridgeSpec => []EventBridgeIInv
  <1>1. EventBridgeInit => EventBridgeIInv
    BY EventBridgeInitIInv
  <1>2. EventBridgeIInv /\ [EventBridgeNext]_vars => EventBridgeIInv'
    BY BridgeStep
  <1> QED BY <1>1, <1>2, PTL DEF EventBridgeSpec

\* Every variable of the program keeps its type.
THEOREM EventBridgeTypeCorrect == EventBridgeSpec => []EventBridgeTypeOK
  <1>1. EventBridgeIInv => EventBridgeTypeOK
    BY DEF EventBridgeIInv, CmdVelIInv, EventBridgeTypeOK
  <1> QED BY <1>1, EventBridgeInvariance, PTL

\* A robot on record as lying down is not being driven.
THEOREM LyingStill == EventBridgeSpec => []StandDownMeansStill
  <1>1. EventBridgeIInv => StandDownMeansStill
    BY DEF EventBridgeIInv
  <1> QED BY <1>1, EventBridgeInvariance, PTL

\* The publisher's profile is always that of the switcher's mode.
THEOREM ProfileInStep == EventBridgeSpec => []ProfileMatchesMode
  <1>1. EventBridgeIInv => ProfileMatchesMode
    BY DEF EventBridgeIInv
  <1> QED BY <1>1, EventBridgeInvariance, PTL

\* The mode and the profile change only at rest.
THEOREM ModeAtRest == EventBridgeSpec => ModeChangesAtRest
  <1>1. EventBridgeIInv /\ [EventBridgeNext]_vars
          => [(mModeName' # mModeName \/ m_motionProfile' # m_motionProfile) => twist' = Zero]_vars
    BY BridgeStep
  <1> QED BY <1>1, EventBridgeInvariance, PTL DEF EventBridgeSpec, ModeChangesAtRest

\* Whoever puts the robot on record as lying down has told it so, but for a reset.
LEMMA LyingStep ==
  ASSUME EventBridgeIInv, [EventBridgeNext]_vars,
         mRobotPosture' = "StandDown", mRobotPosture' # mRobotPosture \/ cmdCtl' # cmdCtl
  PROVE  cmdCtl' \in {GetDown, PassiveDamped} \/ Reset
  <1>1. CASE StandDown \/ Damp
    <2>1. CASE StandDown
      BY <2>1 DEF StandDown, PostureHandler, PublishFsmCommandIfMapped, PublishCommand,
                  FsmCommandOf
    <2>2. CASE Damp
      BY <2>2 DEF Damp, PostureHandler, PublishFsmCommandIfMapped, PublishCommand,
                  FsmCommandOf
    <2> QED BY <1>1, <2>1, <2>2
  <1>2. CASE StandUp \/ RecoveryStand \/ BalanceStand \/ StopMove
    BY <1>2 DEF StandUp, RecoveryStand, BalanceStand, StopMove, PostureHandler, SetRobotPosture
  <1>3. CASE PublisherOnly
    BY <1>3 DEF PublisherOnly, switcherVars
  <1>4. ASSUME NEW velocity \in ParsedVelocities, Move(velocity) PROVE FALSE
    BY <1>4, MoveStep DEF EventBridgeIInv
  <1>5. CASE SwitcherRequest
    BY <1>5, SwitcherStep DEF EventBridgeIInv
  <1>6. CASE MainLoop
    BY <1>6 DEF MainLoop, SetRobotPosture
  <1>7. CASE UNCHANGED vars
    BY <1>7 DEF vars, switcherVars
  <1>8. SportRequestOtherThanMove =>
          \/ StandDown \/ Damp \/ StandUp \/ RecoveryStand \/ BalanceStand \/ StopMove
          \/ PublisherOnly
    BY DEF SportRequestOtherThanMove, SwitchMoveMode, SpeedLevel, SwitchGait, FreeWalk,
           VisionWalk, ClassicWalk, FastWalk
  <1>9. TimePasses => PublisherOnly
    BY DEF TimePasses
  <1> QED
    BY <1>1, <1>2, <1>3, <1>4, <1>5, <1>6, <1>7, <1>8, <1>9, SportSplit DEF EventBridgeNext

\* What the record says of a robot lying down is what the robot was told.
THEOREM LyingCommanded == EventBridgeSpec => LyingDownIsCommanded
  <1>1. EventBridgeIInv /\ [EventBridgeNext]_vars
          => [mRobotPosture' = "StandDown" /\ (mRobotPosture' # mRobotPosture \/ cmdCtl' # cmdCtl)
                => cmdCtl' \in {GetDown, PassiveDamped} \/ Reset]_vars
    BY LyingStep
  <1> QED BY <1>1, EventBridgeInvariance, PTL DEF EventBridgeSpec, LyingDownIsCommanded

\* The whole program, whatever its clients send, drives the robot through the
\* velocity gate.
THEOREM EventBridgeRefinesGate == EventBridgeSpec => ImplementsVelocityGate
  <1>1. EventBridgeInit => Gate!GateInit
    BY GateInitially DEF EventBridgeInit
  <1>2. EventBridgeIInv /\ [EventBridgeNext]_vars => [Gate!GateNext]_(Gate!gateVars)
    BY BridgeStep, GateStep DEF EventBridgeIInv
  <1> QED
    BY <1>1, <1>2, EventBridgeInvariance, PTL
       DEF EventBridgeSpec, ImplementsVelocityGate, Gate!GateSpec

=============================================================================
