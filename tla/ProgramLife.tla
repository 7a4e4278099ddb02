---------------------------- MODULE ProgramLife -----------------------------
(***************************************************************************)
(* The life of the program of src/main.cpp: what main makes and in which   *)
(* order, what it takes down after a signal and what the destructors take  *)
(* down at its end, while the service's worker and the two subscribers     *)
(* call back into objects that main owns.                                  *)
(*                                                                         *)
(* "up" is the set of what exists: objects, pointers that are not null,    *)
(* channels that are open, handlers that are registered, flags that are    *)
(* set.  main is a list of methods and a method a list of steps, as in     *)
(* BridgeThreads; what a handler does to the robot is left out.            *)
(*                                                                         *)
(* Of the SDK it is assumed that the stub's destructor and CloseChannel    *)
(* let no further callback begin and then wait for the one in progress.    *)
(***************************************************************************)
EXTENDS Integers, Sequences

Phases == [sport    |-> {"idle", "handle", "check", "send", "respond"},
           switcher |-> {"idle", "handle", "check", "write", "respond"},
           reset    |-> {"idle", "test", "publisher", "switcher"}]

Callbacks == DOMAIN Phases

Channels == {"velChannel", "ctlChannel", "resetChannel", "requestChannel", "responseChannel"}

Things ==
  Channels \cup
  {"factory", "velPointer", "ctlPointer", "sportBridge", "switcherBridge",
   "sportInitialized", "switcherInitialized", "sportStarted", "switcherStarted",
   "sportHandlers", "switcherHandlers", "stub"}

\* The publishers are shared: main's pointer owns one, and so does every handler
\* that captured a copy.  The last owner to go closes the channel.
Owners == [velChannel |-> {"velPointer", "sportHandlers", "switcherHandlers"},
           ctlChannel |-> {"ctlPointer", "sportHandlers"}]

VARIABLES
  g_running,
  up,           \* what exists
  todo,         \* main's methods yet to run, each a list of steps
  phase,        \* how far each callback has come
  crashed       \* has a null pointer been called?

lifeVars == <<g_running, up, todo, phase, crashed>>

-----------------------------------------------------------------------------
(* Steps and methods.                                                      *)

Make(thing)         == <<"Make", thing>>
Drop(thing)         == <<"Drop", thing>>
ReturnIf(thing)     == <<"ReturnIf", thing>>
ReturnUnless(thing) == <<"ReturnUnless", thing>>
Await(callback)     == <<"Await", callback>>

\* The second time there is nothing left to do: to make what is there changes
\* nothing.
InitUnitreeChannelFactoryOnce == <<Make("factory")>>

SportInit ==
  <<ReturnIf("sportInitialized")>> \o InitUnitreeChannelFactoryOnce \o <<Make("sportInitialized")>>

SwitcherInit ==
  <<ReturnIf("switcherInitialized")>> \o InitUnitreeChannelFactoryOnce
    \o <<Make("switcherInitialized")>>

CmdVelInitChannel == <<ReturnIf("velChannel"), Make("velChannel")>>
CmdCtlInitChannel == <<ReturnIf("ctlChannel"), Make("ctlChannel")>>

\* Mutant: the callback is waited for while new ones still come.
CloseChannelLast(channel, callback) == <<ReturnUnless(channel), Await(callback), Drop(channel)>>

\* CloseChannel of a subscriber: no new callback, then none at all.
CloseChannel(channel, callback) == <<ReturnUnless(channel), Drop(channel), Await(callback)>>

ResetInitChannel  == <<ReturnIf("resetChannel"), Make("resetChannel")>>
ResetCloseChannel == CloseChannel("resetChannel", "reset")

\* Start calls Init, which returns at once if main has called it.
SportStart ==
  <<SportInit, <<ReturnIf("sportStarted"), Make("stub"), Make("sportStarted")>>>>

SwitcherStart ==
  <<SwitcherInit,
    <<ReturnIf("switcherStarted"), Make("responseChannel"), Make("requestChannel"),
      Make("switcherStarted")>>>>

\* unique_ptr::reset clears the pointer before it destroys the stub.
SportStop == <<<<Drop("stub"), Await("sport"), Drop("sportStarted")>>>>

SwitcherStop ==
  <<CloseChannel("requestChannel", "switcher"),
    <<Drop("responseChannel"), Drop("switcherStarted")>>>>

StartUp ==
  <<<<Make("velPointer"), Make("ctlPointer"), Make("sportBridge"), Make("switcherBridge")>>,
    SportInit, SwitcherInit, CmdVelInitChannel, CmdCtlInitChannel, ResetInitChannel,
    <<Make("sportHandlers"), Make("switcherHandlers")>>>>
    \o SportStart \o SwitcherStart

\* Mutant: the stops are left to the destructors.
ShutDownByDestructors == <<<<Drop("velPointer"), Drop("ctlPointer")>>>>

ShutDown == SportStop \o SwitcherStop \o <<<<Drop("velPointer"), Drop("ctlPointer")>>>>

\* The end of main's scope: what was declared last goes first.  The pointers,
\* declared first, are null by then.
Destructors ==
  <<ResetCloseChannel>>
    \o SwitcherStop \o <<<<Drop("switcherHandlers"), Drop("switcherBridge"),
                           Drop("switcherInitialized")>>>>
    \o SportStop \o <<<<Drop("sportHandlers"), Drop("sportBridge"), Drop("sportInitialized")>>>>

Main == StartUp \o <<<<<<"Loop">>>>>> \o ShutDown \o Destructors

-----------------------------------------------------------------------------
LifeInit ==
  /\ g_running = TRUE
  /\ up = {}
  /\ todo = Main
  /\ phase = [callback \in Callbacks |-> "idle"]
  /\ crashed = FALSE

HandleShutdownSignal == g_running /\ g_running' = FALSE /\ UNCHANGED <<up, todo, phase, crashed>>

Returned == todo = <<>>

\* Mutant: the destructor of CmdVelPublisher leaves its channel open.
WithoutCommands(things) == things \ {c \in {"ctlChannel"} : Owners[c] \cap things = {}}

\* What is left when the channels without an owner are closed.
Without(things) == things \ {channel \in DOMAIN Owners : Owners[channel] \cap things = {}}

Continue == todo' = IF Len(Head(todo)) = 1 THEN Tail(todo) ELSE <<Tail(Head(todo))>> \o Tail(todo)

MainStep ==
  /\ ~Returned
  /\ LET step == Head(Head(todo)) IN
     \/ step[1] = "Make" /\ up' = up \cup {step[2]} /\ Continue
     \/ step[1] = "Drop" /\ up' = Without(up \ {step[2]}) /\ Continue
     \/ /\ step[1] = "ReturnIf" /\ UNCHANGED up
        /\ IF step[2] \in up THEN todo' = Tail(todo) ELSE Continue
     \/ /\ step[1] = "ReturnUnless" /\ UNCHANGED up
        /\ IF step[2] \in up THEN Continue ELSE todo' = Tail(todo)
     \/ step[1] = "Await" /\ phase[step[2]] = "idle" /\ UNCHANGED up /\ Continue
     \/ step[1] = "Loop" /\ ~g_running /\ UNCHANGED up /\ Continue
  /\ UNCHANGED <<g_running, phase, crashed>>

Advance(callback, from, to) ==
  /\ phase[callback] = from
  /\ phase' = [phase EXCEPT ![callback] = to]
  /\ UNCHANGED <<g_running, up, todo, crashed>>

Crash(callback, from) ==
  /\ phase[callback] = from
  /\ crashed' = TRUE
  /\ UNCHANGED <<g_running, up, todo, phase>>

\* A client's request or a /reset; nobody has to send one.
Call ==
  \/ "stub" \in up /\ Advance("sport", "idle", "handle")
  \/ "requestChannel" \in up /\ Advance("switcher", "idle", "handle")
  \/ "resetChannel" \in up /\ Advance("reset", "idle", "test")

\* SdkEventBridgeClass::HandleInterceptedRequest: the pointer is tested and used.
SportCallback ==
  \/ Advance("sport", "handle", "check")
  \/ "stub" \in up /\ Advance("sport", "check", "send")
  \/ "stub" \notin up /\ Advance("sport", "check", "respond")
  \/ "stub" \in up /\ Advance("sport", "send", "respond")
  \/ "stub" \notin up /\ Crash("sport", "send")
  \/ Advance("sport", "respond", "idle")

\* Mutant: the answer goes out through the other service.
SwitcherCallbackSends ==
  \/ Advance("switcher", "handle", "check")
  \/ "responseChannel" \in up /\ Advance("switcher", "check", "send")

SwitcherCallback ==
  \/ Advance("switcher", "handle", "check")
  \/ "responseChannel" \in up /\ Advance("switcher", "check", "write")
  \/ "responseChannel" \notin up /\ Advance("switcher", "check", "respond")
  \/ Advance("switcher", "write", "respond")
  \/ Advance("switcher", "respond", "idle")

\* main's lambda reads main's pointer, twice.
ResetCallback ==
  \/ "velPointer" \in up /\ Advance("reset", "test", "publisher")
  \/ "velPointer" \notin up /\ Advance("reset", "test", "switcher")
  \/ "velPointer" \in up /\ Advance("reset", "publisher", "switcher")
  \/ "velPointer" \notin up /\ Crash("reset", "publisher")
  \/ Advance("reset", "switcher", "idle")

Ended == crashed \/ (Returned /\ ~g_running)

LifeNext ==
  \/ ~crashed /\ (HandleShutdownSignal \/ MainStep \/ Call)
  \/ ~crashed /\ (SportCallback \/ SwitcherCallback \/ ResetCallback)
  \/ Ended /\ UNCHANGED lifeVars

\* Threads that can go on do; nobody has to call or to send the signal.
LifeFairness ==
  /\ WF_lifeVars(~crashed /\ MainStep)
  /\ WF_lifeVars(~crashed /\ SportCallback)
  /\ WF_lifeVars(~crashed /\ SwitcherCallback)
  /\ WF_lifeVars(~crashed /\ ResetCallback)

LifeSpec == LifeInit /\ [][LifeNext]_lifeVars /\ LifeFairness

-----------------------------------------------------------------------------
(* Properties.                                                             *)

LifeTypeOK ==
  /\ g_running \in BOOLEAN /\ crashed \in BOOLEAN
  /\ up \subseteq Things
  /\ \A callback \in Callbacks : phase[callback] \in Phases[callback]
  /\ \A i \in 1 .. Len(todo) : todo[i] # <<>>

\* What a callback touches in each of its phases, and what has to be there.
Uses(callback, at) ==
  CASE callback = "sport" /\ at = "handle" ->
         {"sportBridge", "sportHandlers", "switcherBridge", "velChannel", "ctlChannel"}
    [] callback = "sport" /\ at \in {"check", "send", "respond"} -> {"sportBridge", "sportHandlers"}
    [] callback = "switcher" /\ at = "handle" -> {"switcherBridge", "switcherHandlers", "velChannel"}
    [] callback = "switcher" /\ at \in {"check", "respond"} -> {"switcherBridge", "switcherHandlers"}
    [] callback = "switcher" /\ at = "write" -> {"switcherBridge", "responseChannel"}
    [] callback = "reset" /\ at = "publisher" -> {"velChannel"}
    [] callback = "reset" /\ at = "switcher" -> {"switcherBridge"}
    [] OTHER -> {}

\* No callback touches what is not yet made or already gone, although the
\* destructors take the objects down in an order that would not allow it (the
\* switcher before the sport service that sets its posture), and although the
\* callbacks begin while main still opens and registers the rest.  The two
\* pointers that are tested and then called are the exception, and that only
\* once the program was told to end.
AliveWhenUsed ==
  /\ \A callback \in Callbacks : Uses(callback, phase[callback]) \subseteq up
  /\ up \cap Channels # {} => "factory" \in up
  /\ crashed => ~g_running

\* When main returns nothing is left open, the publishers included, which have
\* three owners.
ReleasedAtExit == Returned => up = {"factory"}

\* A signal ends the program, whatever its clients go on sending: main waits for
\* every callback and no callback waits for main.
ShutdownCompletes == ~g_running ~> (Returned \/ crashed)

=============================================================================
