------------------------ MODULE MotionSwitcherBridge ------------------------
(***************************************************************************)
(* The class MotionSwitcherBridgeClass (src/motion_switcher_bridge.cpp):   *)
(* it stands in for the robot's motion switcher service, remembers the     *)
(* selected mode, and lets the mode change only in the stand down posture. *)
(*                                                                         *)
(* One action is one request answered from start to end, or one call of a  *)
(* public method; BridgeThreads splits them.  The module is composed with  *)
(* CmdVelPublisher in EventBridge.                                         *)
(***************************************************************************)
EXTENDS Integers

CONSTANTS
  SelectParameters,   \* [name, form] a SELECT_MODE parameter carries; "" if a key is absent
  Malformed           \* stands for a parameter that FromJsonString throws on

RobotPosture == {"StandDown", "StandUp", "Walking"}
StatusCode   == {"Success", "Busy", "Parameter"}

VARIABLES
  mForm,
  mModeName,
  mSilent,
  mRobotPosture,
  response            \* the last one written: its status and its data

switcherVars == <<mForm, mModeName, mSilent, mRobotPosture, response>>

NoData == <<>>

Forms     == ({p.form : p \in SelectParameters} \ {""}) \cup {"0"}
SelectedModes == {p.name : p \in SelectParameters} \cup {"", "ai"}

SwitcherTypeOK ==
  /\ mForm \in Forms
  /\ mModeName \in SelectedModes
  /\ mSilent \in BOOLEAN
  /\ mRobotPosture \in RobotPosture
  /\ response \in [status : StatusCode,
                   data : {NoData} \cup (Forms \X SelectedModes) \cup {<<b>> : b \in BOOLEAN}]

SwitcherInit ==
  /\ mForm = "0"
  /\ mModeName = ""
  /\ mSilent = FALSE
  /\ mRobotPosture = "StandDown"
  /\ response = [status |-> "Success", data |-> NoData]

SetRobotPosture(posture) == mRobotPosture' = posture

\* Mutant: whoever does not walk may change mode.
CanChangeMotionModeStanding == mRobotPosture # "Walking"

CanChangeMotionMode == mRobotPosture = "StandDown"

Respond(status, data) == response' = [status |-> status, data |-> data]

CheckMode ==
  /\ Respond("Success", <<mForm, mModeName>>)
  /\ UNCHANGED <<mForm, mModeName, mSilent, mRobotPosture>>

\* The posture is looked at before the parameter, the parameter before anything
\* is stored; a form that is absent keeps the old one.
SelectModeAccepted(parameter) ==
  CanChangeMotionMode /\ parameter # Malformed /\ parameter.name # ""

SelectModeStatus(parameter) ==
  IF ~CanChangeMotionMode THEN "Busy"
  ELSE IF SelectModeAccepted(parameter) THEN "Success" ELSE "Parameter"

\* Mutant: a form that is absent is stored like any other.
SelectModeWithAnyForm(parameter) ==
  /\ Respond(SelectModeStatus(parameter), NoData)
  /\ IF SelectModeAccepted(parameter)
     THEN mModeName' = parameter.name /\ mForm' = parameter.form
     ELSE UNCHANGED <<mModeName, mForm>>
  /\ UNCHANGED <<mSilent, mRobotPosture>>

SelectMode(parameter) ==
  /\ Respond(SelectModeStatus(parameter), NoData)
  /\ IF SelectModeAccepted(parameter)
     THEN /\ mModeName' = parameter.name
          /\ mForm' = IF parameter.form = "" THEN mForm ELSE parameter.form
     ELSE UNCHANGED <<mModeName, mForm>>
  /\ UNCHANGED <<mSilent, mRobotPosture>>

ReleaseMode ==
  /\ IF CanChangeMotionMode
     THEN mModeName' = "" /\ Respond("Success", NoData)
     ELSE UNCHANGED mModeName /\ Respond("Busy", NoData)
  /\ UNCHANGED <<mForm, mSilent, mRobotPosture>>

SetSilent(parameter) ==
  /\ IF parameter = Malformed
     THEN UNCHANGED mSilent /\ Respond("Parameter", NoData)
     ELSE mSilent' = parameter.silent /\ Respond("Success", NoData)
  /\ UNCHANGED <<mForm, mModeName, mRobotPosture>>

GetSilent ==
  /\ Respond("Success", <<mSilent>>)
  /\ UNCHANGED <<mForm, mModeName, mSilent, mRobotPosture>>

\* The version, the lease and the APIs it does not know: success, with data that
\* depends on nothing and is left out here, and no change.
InternalRequest ==
  /\ Respond("Success", NoData)
  /\ UNCHANGED <<mForm, mModeName, mSilent, mRobotPosture>>

\* The mode a reset restores is "ai", not the "" the constructor starts from.
SwitcherResetToDefaults ==
  /\ mForm' = "0"
  /\ mModeName' = "ai"
  /\ mSilent' = FALSE
  /\ mRobotPosture' = "StandDown"
  /\ UNCHANGED response

=============================================================================
