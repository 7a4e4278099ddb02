------------------------------ MODULE SportApis -----------------------------
(***************************************************************************)
(* The sport APIs as the service tells them apart (the classifications of  *)
(* src/sdk_event_bridge.cpp) and the handlers src/main.cpp registers for   *)
(* them.  An API id is a name; FREEWALK and CLASSICWALK have one id in the *)
(* Go2 dialect and another in the B2 dialect.                              *)
(***************************************************************************)
InternalApis ==
  {"INTERNAL_API_VERSION", "INTERNAL_API_NOOP", "LEASE_APPLY", "LEASE_RENEWAL"}

TrackedApis ==
  {"DAMP", "MOVE", "BALANCESTAND", "STOPMOVE", "STANDUP", "STANDDOWN", "RECOVERYSTAND",
   "FREEWALK", "B2_FREEWALK", "CLASSICWALK", "B2_CLASSICWALK", "VISIONWALK", "FASTWALK",
   "SWITCHMOVEMODE", "SPEEDLEVEL", "SWITCHGAIT"}

\* "HELLO" stands for the many APIs that the program knows nothing of.
ApiIds == InternalApis \cup TrackedApis \cup {"HELLO"}

IsTrackedSportApi(api) == api \in TrackedApis

RequiresPostureActionDelay(api) == api \in {"STANDUP", "STANDDOWN", "RECOVERYSTAND"}

-----------------------------------------------------------------------------
(* The two handler maps, each the set of its entries <<api, handler>>: no  *)
(* id is registered twice in one (SdkEventBridgeProofs, OneHandlerEach).   *)
(* A handler is named for the action of EventBridge that says what it      *)
(* does; one that only logs does nothing.                                  *)

LogOnly == "LogOnly"

RegisterSportRequestHandler(api, handler) == {<<api, handler>>}
RegisterSportEventHandler(api, handler)   == {<<api, handler>>}

RegisterDampHandler(handler)           == RegisterSportEventHandler("DAMP", handler)
RegisterMoveHandler(handler)           == RegisterSportEventHandler("MOVE", handler)
RegisterBalanceStandHandler(handler)   == RegisterSportEventHandler("BALANCESTAND", handler)
RegisterStopMoveHandler(handler)       == RegisterSportEventHandler("STOPMOVE", handler)
RegisterStandUpHandler(handler)        == RegisterSportEventHandler("STANDUP", handler)
RegisterStandDownHandler(handler)      == RegisterSportEventHandler("STANDDOWN", handler)
RegisterRecoveryStandHandler(handler)  == RegisterSportEventHandler("RECOVERYSTAND", handler)
RegisterVisionWalkHandler(handler)     == RegisterSportEventHandler("VISIONWALK", handler)
RegisterFastWalkHandler(handler)       == RegisterSportEventHandler("FASTWALK", handler)
RegisterSwitchMoveModeHandler(handler) == RegisterSportEventHandler("SWITCHMOVEMODE", handler)
RegisterSpeedLevelHandler(handler)     == RegisterSportEventHandler("SPEEDLEVEL", handler)
RegisterSwitchGaitHandler(handler)     == RegisterSportEventHandler("SWITCHGAIT", handler)

\* Mutant: one dialect only.
RegisterGo2FreeWalkHandler(handler) == RegisterSportEventHandler("FREEWALK", handler)

RegisterFreeWalkHandler(handler) ==
  RegisterSportEventHandler("FREEWALK", handler)
    \cup RegisterSportEventHandler("B2_FREEWALK", handler)

RegisterClassicWalkHandler(handler) ==
  RegisterSportEventHandler("CLASSICWALK", handler)
    \cup RegisterSportEventHandler("B2_CLASSICWALK", handler)

\* RegisterSportEventLogging: the postures act when the request comes, all else
\* when its event does.
mRequestHandlers ==
  RegisterSportRequestHandler("STANDUP", "StandUp")
    \cup RegisterSportRequestHandler("STANDDOWN", "StandDown")
    \cup RegisterSportRequestHandler("RECOVERYSTAND", "RecoveryStand")

mEventHandlers ==
  RegisterDampHandler("Damp") \cup RegisterMoveHandler("Move")
    \cup RegisterSwitchMoveModeHandler("SwitchMoveMode") \cup RegisterSpeedLevelHandler("SpeedLevel")
    \cup RegisterBalanceStandHandler("BalanceStand") \cup RegisterSwitchGaitHandler("SwitchGait")
    \cup RegisterStopMoveHandler("StopMove")
    \cup RegisterStandUpHandler(LogOnly) \cup RegisterStandDownHandler(LogOnly)
    \cup RegisterRecoveryStandHandler(LogOnly)
    \cup RegisterFreeWalkHandler("FreeWalk") \cup RegisterVisionWalkHandler("VisionWalk")
    \cup RegisterClassicWalkHandler("ClassicWalk") \cup RegisterFastWalkHandler("FastWalk")

\* Where DispatchRequest and DispatchEventResult look for whom to call.  main sets
\* no default handlers and none for responses.
HandlersOf(callback) ==
  CASE callback = "request" -> mRequestHandlers
    [] callback = "event" -> mEventHandlers
    [] OTHER -> {}

Acts(callback, api) ==
  \E entry \in HandlersOf(callback) : entry[1] = api /\ entry[2] # LogOnly

=============================================================================
