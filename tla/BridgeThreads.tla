---------------------------- MODULE BridgeThreads ---------------------------
(***************************************************************************)
(* The program of src/main.cpp as its threads run it: the sport service's  *)
(* worker, the motion switcher's subscriber, the reset subscriber and the  *)
(* main loop work on one CmdVelPublisher and one MotionSwitcherBridgeClass *)
(* with no lock and no atomic between them, so that any thread may run     *)
(* between any two accesses to a field of another's.                       *)
(*                                                                         *)
(* A handler is the list of the methods it calls and a method the list of  *)
(* its steps; a step reads or writes one shared field.  What a handler     *)
(* means when nothing comes between is EventBridge, whose properties are   *)
(* asked again here.                                                       *)
(*                                                                         *)
(* Left out because no two threads meet there: /cmd_ctl (only the sport    *)
(* worker writes it, nothing reads it) and the requests of the switcher    *)
(* that touch one field or none but to report it.  A write of a velocity   *)
(* is taken to be whole, and SetRobotPosture, which writes only what       *)
(* differs, to be one write.                                               *)
(***************************************************************************)
EXTENDS Integers, Sequences

CONSTANTS
  LinearSpeeds, YawRates, SpeedLevels, Gaits, ModeNames, MOVE_STOP_TIMEOUT,
  SelectParameters, Malformed,
  Clients        \* what clients send: sets of names of requests, "RESET", "TICK"

ASSUME ThreadsAssumption ==
  /\ LinearSpeeds \subseteq Nat
  /\ YawRates \subseteq Int
  /\ SpeedLevels \subseteq Int
  /\ SelectParameters \subseteq [name : STRING, form : STRING]
  /\ MOVE_STOP_TIMEOUT \in Nat \ {0}

Threads == {"sport", "switcher", "reset", "main"}

VARIABLES
  apis,          \* which of Clients there are; no behaviour changes it
  mem,           \* the fields of the two objects, and the age of m_lastMoveTime
  twist,         \* the last sample written to /cmd_vel_origin
  todo,          \* what each thread has yet to do: methods, each a list of steps
  local,         \* the local variables of each thread's handler
  lastStop,      \* history: the sport request begun last, if it is one of Stops
  overtaken      \* history: has a reset run beside a request of the switcher?

threadVars == <<apis, mem, twist, todo, local, lastStop, overtaken>>

\* The definitions and properties of the components, on the shared memory.
Bridge == INSTANCE EventBridge WITH
  m_continuousMoveMode <- mem.m_continuousMoveMode,
  m_jointsLocked       <- mem.m_jointsLocked,
  m_walkMode           <- mem.m_walkMode,
  m_hasActiveMove      <- mem.m_hasActiveMove,
  m_motionProfile      <- mem.m_motionProfile,
  m_speedLevel         <- mem.m_speedLevel,
  m_maxLinearSpeed     <- mem.m_maxLinearSpeed,
  m_lastVelocity       <- mem.m_lastVelocity,
  moveAge              <- mem.moveAge,
  mForm                <- mem.mForm,
  mModeName            <- mem.mModeName,
  mSilent              <- mem.mSilent,
  mRobotPosture        <- mem.mRobotPosture,
  response             <- [status |-> "Success", data |-> <<>>],
  cmdCtl               <- 0

Stops  == {"STOPMOVE", "STANDDOWN", "DAMP"}
Zero   == Bridge!Zero
Locals == [velocity : Bridge!MoveVelocity, over : BOOLEAN,
           profile : Bridge!MotionProfile, cap : Nat]
Fresh  == [velocity |-> Zero, over |-> FALSE, profile |-> "Ai", cap |-> 0]

ThreadsTypeOK ==
  /\ Bridge!EventBridgeTypeOK
  /\ apis \in Clients
  /\ local \in [Threads -> Locals]
  /\ lastStop \in Stops \cup {"none"} /\ overtaken \in BOOLEAN
  /\ \A t \in Threads : \A i \in 1 .. Len(todo[t]) : todo[t][i] # <<>>

Idle(t) == todo[t] = <<>>

-----------------------------------------------------------------------------
(* Steps.  A step is a tuple: what it does and what it needs to do it.     *)

Set(field, value)          == <<"Set", field, value>>
ReturnIf(field, value)     == <<"ReturnIf", field, value>>
ReturnUnless(field, value) == <<"ReturnUnless", field, value>>
Publish(velocity)          == <<"Publish", velocity>>
Do(what)                   == <<what>>

\* A method, the last of its handler, that has nothing to do.
Nothing == <<Do("Finish")>>

-----------------------------------------------------------------------------
(* CmdVelPublisher's methods.                                              *)

LockJoints ==
  <<Set("m_jointsLocked", TRUE), Set("m_hasActiveMove", FALSE), Publish(Zero)>>

UnlockJoints == <<Set("m_jointsLocked", FALSE)>>

\* Mutant: compared, but not scaled.
CompareOnly == <<Do("CompareWithCap")>>

\* ApplySpeedLimit reads the cap twice, to compare and to scale.
ApplySpeedLimit == <<Do("CompareWithCap"), Do("ScaleToCap")>>

\* PublishMove copies m_lastVelocity into the message before it writes that.
PublishMove == <<Do("CopyLastVelocity"), Do("PublishCopy")>>

ApplyMaxLinearSpeed == <<Do("ReadProfile"), Do("ChooseCap"), Do("StoreCap")>>

RepublishActiveMove ==
  <<ReturnIf("m_jointsLocked", TRUE), ReturnUnless("m_hasActiveMove", TRUE),
    Do("CopyLastVelocity")>> \o ApplySpeedLimit \o
  <<Do("StoreLastVelocity")>> \o PublishMove

\* Mutant: the level is stored for the cap.
SetSpeedLevelAsCap(level) ==
  <<Set("m_speedLevel", level), ReturnIf("m_motionProfile", "Sport"),
    Set("m_maxLinearSpeed", level)>> \o RepublishActiveMove

SetSpeedLevel(level) ==
  <<Set("m_speedLevel", level), ReturnIf("m_motionProfile", "Sport")>>
    \o ApplyMaxLinearSpeed \o RepublishActiveMove

SetMotionModeName(name) ==
  LET profile == Bridge!MotionProfileFromModeName(name) IN
  <<ReturnIf("m_motionProfile", profile), Set("m_motionProfile", profile)>>
    \o ApplyMaxLinearSpeed \o RepublishActiveMove

\* Mutant: the lock is not looked at.
HandleMoveOnLockedJoints(velocity) ==
  <<<<"TakeParameter", velocity>>>> \o ApplySpeedLimit \o
  <<Do("StoreLastVelocity"), Set("moveAge", 0), Set("m_hasActiveMove", TRUE)>>
    \o PublishMove

HandleMove(velocity) ==
  <<ReturnIf("m_jointsLocked", TRUE), <<"TakeParameter", velocity>>>>
    \o ApplySpeedLimit \o
  <<Do("StoreLastVelocity"), Set("moveAge", 0), Set("m_hasActiveMove", TRUE)>>
    \o PublishMove

\* Mutant: the stop is not published.
HandleStopSilently == <<Set("m_hasActiveMove", FALSE)>>

HandleStop == <<Set("m_hasActiveMove", FALSE), Publish(Zero)>>

SetContinuousMoveMode(enabled) ==
  <<Set("m_continuousMoveMode", enabled)>>
    \o (IF enabled THEN <<>> ELSE <<Set("moveAge", 0)>>)

SetGait(gait) ==
  IF gait = 0 THEN LockJoints ELSE IF gait \in 1 .. 4 THEN UnlockJoints ELSE Nothing

SetWalkMode(mode, enabled) ==
  IF enabled THEN <<Set("m_walkMode", mode)>> \o UnlockJoints
  ELSE <<ReturnUnless("m_walkMode", mode), Set("m_walkMode", "None")>> \o LockJoints

Tick ==
  <<ReturnIf("m_jointsLocked", TRUE), ReturnIf("m_continuousMoveMode", TRUE),
    ReturnUnless("m_hasActiveMove", TRUE), ReturnUnless("moveAge", MOVE_STOP_TIMEOUT)>>
    \o HandleStop

ResetPublisher ==
  <<Set("m_continuousMoveMode", FALSE), Set("m_jointsLocked", TRUE),
    Set("m_walkMode", "None"), Set("m_hasActiveMove", FALSE),
    Set("m_motionProfile", "Ai"), Set("m_speedLevel", -1),
    Set("m_maxLinearSpeed", Bridge!AI_LOW_MAX_LINEAR_SPEED),
    Set("m_lastVelocity", Zero), Set("moveAge", 0), Publish(Zero)>>

-----------------------------------------------------------------------------
(* MotionSwitcherBridgeClass's methods.                                    *)

SetRobotPosture(posture) == <<Set("mRobotPosture", posture)>>

ResetSwitcher ==
  <<Set("mForm", "0"), Set("mModeName", "ai"), Set("mSilent", FALSE)>>
    \o SetRobotPosture("StandDown")

\* Response and event handler in one method: a refusal ends both.
SelectMode(parameter) ==
  <<ReturnUnless("mRobotPosture", "StandDown")>> \o
  (IF parameter.name = "" THEN <<>>
   ELSE <<Set("mModeName", parameter.name)>>
          \o (IF parameter.form = "" THEN <<>> ELSE <<Set("mForm", parameter.form)>>)
          \o SetMotionModeName(parameter.name))

\* Mutant: the publisher is not told.
ReleaseModeSilently ==
  <<ReturnUnless("mRobotPosture", "StandDown"), Set("mModeName", "")>>

ReleaseMode ==
  <<ReturnUnless("mRobotPosture", "StandDown"), Set("mModeName", "")>>
    \o SetMotionModeName("ai")

-----------------------------------------------------------------------------
(* What a thread can be given to do.                                       *)

Begin(t, methods) ==
  /\ Idle(t)
  /\ todo' = [todo EXCEPT ![t] = methods]
  /\ UNCHANGED <<apis, mem, twist, local>>

BeginSport(api, methods) ==
  /\ api \in apis
  /\ Begin("sport", methods)
  /\ lastStop' = IF api \in Stops THEN api ELSE "none"
  /\ UNCHANGED overtaken

\* UpdatePostureFromMove, which sees the velocity that was asked for.
UpdatePostureFromMove(velocity) ==
  IF velocity = Zero THEN Nothing
  ELSE <<ReturnIf("m_jointsLocked", TRUE)>> \o SetRobotPosture("Walking")

PostureHandler(api, posture) ==
  BeginSport(api, <<IF api = "BALANCESTAND" THEN UnlockJoints ELSE LockJoints,
                    SetRobotPosture(posture)>>)

StopMove == BeginSport("STOPMOVE", <<HandleStop, SetRobotPosture("StandUp")>>)

Move(velocity) ==
  BeginSport("MOVE", <<HandleMove(velocity), UpdatePostureFromMove(velocity)>>)

SwitchMoveMode(enabled) == BeginSport("SWITCHMOVEMODE", <<SetContinuousMoveMode(enabled)>>)
SpeedLevel(level)       == BeginSport("SPEEDLEVEL", <<SetSpeedLevel(level)>>)
SwitchGait(gait)        == BeginSport("SWITCHGAIT", <<SetGait(gait)>>)
FreeWalk                == BeginSport("FREEWALK", <<SetWalkMode("FreeWalk", TRUE)>>)
VisionWalk(enabled)     == BeginSport("VISIONWALK", <<SetWalkMode("VisionWalk", enabled)>>)
ClassicWalk(enabled)    == BeginSport("CLASSICWALK", <<SetWalkMode("ClassicWalk", enabled)>>)
FastWalk(enabled)       == BeginSport("FASTWALK", <<SetWalkMode("FastWalk", enabled)>>)

SportRequest ==
  \/ \E api \in {"STANDUP", "RECOVERYSTAND", "BALANCESTAND"} : PostureHandler(api, "StandUp")
  \/ \E api \in {"STANDDOWN", "DAMP"} : PostureHandler(api, "StandDown")
  \/ StopMove
  \/ \E velocity \in Bridge!ParsedVelocities : Move(velocity)
  \/ \E enabled \in BOOLEAN : SwitchMoveMode(enabled)
  \/ \E level \in SpeedLevels : SpeedLevel(level)
  \/ \E gait \in Gaits : SwitchGait(gait)
  \/ FreeWalk
  \/ \E enabled \in BOOLEAN : VisionWalk(enabled)
  \/ \E enabled \in BOOLEAN : ClassicWalk(enabled)
  \/ \E enabled \in BOOLEAN : FastWalk(enabled)

SelectModeRequest(parameter) ==
  "SELECT_MODE" \in apis /\ Begin("switcher", <<SelectMode(parameter)>>)

ReleaseModeRequest == "RELEASE_MODE" \in apis /\ Begin("switcher", <<ReleaseMode>>)

SwitcherRequest ==
  /\ (\E parameter \in SelectParameters : SelectModeRequest(parameter)) \/ ReleaseModeRequest
  /\ overtaken' = (overtaken \/ ~Idle("reset"))
  /\ UNCHANGED lastStop

Reset ==
  /\ "RESET" \in apis
  /\ Begin("reset", <<ResetPublisher, ResetSwitcher>>)
  /\ overtaken' = (overtaken \/ ~Idle("switcher"))
  /\ UNCHANGED lastStop

\* Mutant: a robot that has stopped stays on record as walking.
MainLoopKeepsWalking ==
  /\ "TICK" \in apis
  /\ Begin("main",
       <<Tick,
         <<ReturnUnless("m_hasActiveMove", TRUE), ReturnIf("m_jointsLocked", TRUE)>>
           \o SetRobotPosture("Walking")>>)
  /\ UNCHANGED <<lastStop, overtaken>>

\* One turn of the main loop: Tick; if the robot is actively moving, Walking and
\* no more; else, if it is on record as walking, StandUp.
MainLoop ==
  /\ "TICK" \in apis
  /\ Begin("main",
       <<Tick,
         <<ReturnUnless("m_hasActiveMove", TRUE), ReturnIf("m_jointsLocked", TRUE)>>
           \o SetRobotPosture("Walking") \o <<Do("Finish")>>,
         <<ReturnUnless("mRobotPosture", "Walking")>> \o SetRobotPosture("StandUp")>>)
  /\ UNCHANGED <<lastStop, overtaken>>

-----------------------------------------------------------------------------
(* Doing it.                                                               *)

Next1(t) == Head(Head(todo[t]))

\* Local variables live no longer than the handler.
Continue(t, rest, locals) ==
  /\ todo'  = [todo EXCEPT ![t] = rest]
  /\ local' = [local EXCEPT ![t] = IF rest = <<>> THEN Fresh ELSE locals]
  /\ UNCHANGED <<apis, lastStop, overtaken>>

AfterStep(t) ==
  IF Len(Head(todo[t])) = 1 THEN Tail(todo[t])
  ELSE <<Tail(Head(todo[t]))>> \o Tail(todo[t])

Write(t, field, value) ==
  /\ mem' = [mem EXCEPT ![field] = value]
  /\ UNCHANGED twist
  /\ Continue(t, AfterStep(t), local[t])

WriteTwist(t, velocity) ==
  /\ twist' = velocity
  /\ UNCHANGED mem
  /\ Continue(t, AfterStep(t), local[t])

Read(t, locals) ==
  /\ UNCHANGED <<mem, twist>>
  /\ Continue(t, AfterStep(t), locals)

Jump(t, rest) ==
  /\ UNCHANGED <<mem, twist>>
  /\ Continue(t, rest, local[t])

Step(t) ==
  /\ ~Idle(t)
  /\ LET step == Next1(t)
         own  == local[t]
     IN \/ step[1] = "Set" /\ Write(t, step[2], step[3])
        \/ /\ step[1] = "ReturnIf"
           /\ Jump(t, IF mem[step[2]] = step[3] THEN Tail(todo[t]) ELSE AfterStep(t))
        \/ /\ step[1] = "ReturnUnless"
           /\ Jump(t, IF mem[step[2]] = step[3] THEN AfterStep(t) ELSE Tail(todo[t]))
        \/ step[1] = "Finish" /\ Jump(t, <<>>)
        \/ step[1] = "Publish" /\ WriteTwist(t, step[2])
        \/ step[1] = "PublishCopy" /\ WriteTwist(t, own.velocity)
        \/ step[1] = "TakeParameter" /\ Read(t, [own EXCEPT !.velocity = step[2]])
        \/ step[1] = "CopyLastVelocity" /\ Read(t, [own EXCEPT !.velocity = mem.m_lastVelocity])
        \/ /\ step[1] = "CompareWithCap"
           /\ Read(t, [own EXCEPT !.over = own.velocity.lin > mem.m_maxLinearSpeed])
        \/ /\ step[1] = "ScaleToCap"
           /\ Read(t, IF own.over THEN [own EXCEPT !.velocity.lin = mem.m_maxLinearSpeed] ELSE own)
        \/ step[1] = "StoreLastVelocity" /\ Write(t, "m_lastVelocity", own.velocity)
        \/ step[1] = "ReadProfile" /\ Read(t, [own EXCEPT !.profile = mem.m_motionProfile])
        \/ /\ step[1] = "ChooseCap"
           /\ Read(t, [own EXCEPT !.cap = Bridge!MaxLinearSpeed(own.profile, mem.m_speedLevel)])
        \/ step[1] = "StoreCap" /\ Write(t, "m_maxLinearSpeed", own.cap)

Elapse ==
  /\ mem.moveAge < MOVE_STOP_TIMEOUT
  /\ mem' = [mem EXCEPT !.moveAge = @ + 1]
  /\ UNCHANGED <<apis, twist, todo, local, lastStop, overtaken>>

ThreadsInit ==
  /\ apis \in Clients
  /\ mem = [m_continuousMoveMode |-> FALSE, m_jointsLocked |-> TRUE, m_walkMode |-> "None",
            m_hasActiveMove |-> FALSE, m_motionProfile |-> "Ai", m_speedLevel |-> -1,
            m_maxLinearSpeed |-> Bridge!AI_LOW_MAX_LINEAR_SPEED, m_lastVelocity |-> Zero,
            moveAge |-> MOVE_STOP_TIMEOUT,
            mForm |-> "0", mModeName |-> "", mSilent |-> FALSE, mRobotPosture |-> "StandDown"]
  /\ twist = Zero
  /\ todo = [t \in Threads |-> <<>>]
  /\ local = [t \in Threads |-> Fresh]
  /\ lastStop = "none"
  /\ overtaken = FALSE

ThreadsNext ==
  \/ SportRequest \/ SwitcherRequest \/ Reset \/ MainLoop
  \/ \E t \in Threads : Step(t)
  \/ Elapse

\* The operating system runs every thread that has something to do, the main
\* loop comes round, and time passes.  No client has to send anything.
ThreadsFairness ==
  /\ \A t \in Threads : WF_threadVars(Step(t))
  /\ WF_threadVars(MainLoop)
  /\ WF_threadVars(Elapse)

ThreadsSpec == ThreadsInit /\ [][ThreadsNext]_threadVars /\ ThreadsFairness

-----------------------------------------------------------------------------
(* Properties.  Some are asked of all the threads and some of those that a *)
(* run names: the interleavings with the others refute what README.md says.*)

\* No handler leaves a robot moving with its joints locked, although the guard
\* of HandleMove reads the lock long before the velocity is published.
\* (README.md, "Joint lock / unlock": MOVE is published only when unlocked.)
LockedAtRestMeansStopped ==
  Idle("sport") /\ Idle("reset") /\ mem.m_jointsLocked => twist = Zero

\* Once a STOPMOVE, a STANDDOWN or a DAMP is done, and until the next sport
\* request, no thread but the switcher's drives the robot.
\* (README.md, "SwitchMoveMode": they always stop immediately.)
ExplicitStopStops ==
  Idle("sport") /\ lastStop \in Stops /\ "SELECT_MODE" \notin apis => twist = Zero

\* When the switcher has answered, the publisher's profile is that of the stored
\* mode, whatever resets there were: only one that ran beside a request of the
\* switcher can have set the two apart.
\* (README.md, "SpeedLevel": the cap depends on the active mode.)
ProfileMatchesModeAtRest ==
  Idle("switcher") /\ Idle("reset") /\ ~overtaken => Bridge!ProfileMatchesMode

\* No interleaving of the threads, with the cap changed between its two reads in
\* ApplySpeedLimit or after them, drives the robot beyond the greatest cap.
NeverAboveTopSpeed == twist.lin <= Bridge!SPORT_MAX_LINEAR_SPEED

\* A robot that hears of no further MOVE is in the end not on record as walking,
\* whatever the order in which the handlers and the main loop write the posture.
WalkingEnds == Bridge!WalkingEnds

\* README.md, "Mode change gating (posture)": STANDDOWN and DAMP put the robot in
\* the stand down posture.
LyingDownIsRecorded ==
  Idle("sport") /\ lastStop \in {"STANDDOWN", "DAMP"} => mem.mRobotPosture = "StandDown"

\* README.md, "Mode change gating (posture)": if the robot is standing or walking,
\* the stored mode is not changed.
ModeStoredLyingDown ==
  [][mem'.mModeName # mem.mModeName => mem.mRobotPosture = "StandDown"]_threadVars

\* README.md, "SwitchMoveMode": if no new MOVE arrives within 1 second, zero is
\* published.
AutoStopHappens == Bridge!AutoStop

=============================================================================
