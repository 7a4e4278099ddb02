# SdkEventBridge in TLA+

SdkEventBridge stands in for a Unitree robot: it answers the requests of sport and
motion switcher clients and passes what they mean on to a simulated robot over
three ROS 2 topics. This directory models it, checks the models with TLC and
proves theorems about them with TLAPS. Paths such as `src/main.cpp` and
`README.md:181` are those of the repository.

## The system

| Part | State | Operations | What makes it correct |
|---|---|---|---|
| `CmdVelPublisher` (`src/cmd_vel_publisher.cpp`) | continuous mode, joint lock, walk mode, active-move flag, motion profile, speed level, cap, last velocity and its time; no lock, no atomic | lock and unlock, gaits and walk modes, MOVE, STOPMOVE, speed level, profile, `Tick`, reset | locked means stopped; the cap is that of profile and level and is honoured; only a MOVE accelerates; a forgotten MOVE is stopped |
| `MotionSwitcherBridgeClass` (`src/motion_switcher_bridge.cpp`) | form, mode name, silent flag, posture; no lock | CHECK, SELECT and RELEASE_MODE, SET and GET_SILENT, `SetRobotPosture`, reset; Init, Start, Stop | the mode changes only lying down, hence never under a moving robot |
| `SdkEventBridgeClass` (`src/sdk_event_bridge.cpp`) | initialized, started, the server stub | Init, Start, Stop, `HandleInterceptedRequest` | each request is told of once, in order, and answered |
| program (`src/main.cpp`) | the shared objects, `g_running` | start-up, one handler per API, the reset callback, the main loop every 10 ms, shutdown, destructors | posture, mode name, profile and velocity agree; no callback meets an object that is gone; the program ends |
| `CmdCtlPublisher`, `ResetSubscriber` | a channel each | publish a command; call the reset callback | closed once, after the last callback |
| JSON parameters (the `Parse...Parameter` functions, the switcher's own reader) | none | text to value | a request is acted on wholly or not at all; two readers of one text agree |
| `channel_factory_init.hpp` | a static flag | initialise the SDK's factory once | before the first channel |
| `ros_dds_topic.hpp`, the generated `Int32_` | none of interest | | not modelled |

**How they interact.** Four threads meet in the two objects, without a lock or an
atomic between them:

1. the sport service's worker runs `HandleInterceptedRequest`, which calls the handlers
   of `main.cpp`; these call `CmdVelPublisher`, `SetRobotPosture` and `CmdCtlPublisher`,
   and for three posture requests sleep two seconds before answering;
2. the motion switcher's subscriber answers a request and then, in an event handler,
   sets the publisher's profile from the mode name;
3. the reset subscriber puts both objects back to their defaults;
4. the main loop calls `Tick` and then derives the posture from `IsActivelyMoving`.

**What is hard.** Every check-then-act of one thread can be overtaken by another: the
lock against the publication, the timeout against a fresh MOVE, the posture against
the mode. Two facts are kept in two copies (mode name and profile; posture and
velocity), one is cached (the cap), and a velocity is remembered after it stopped
being valid. A worker sleeps in the middle of a request. Three lists of
API ids, in two dialects, have to fit together. A stop is written once, to a topic that
may lose it. Callbacks go on while the program takes down what they use. Nothing is
persisted and no message is retried, so there is no recovery to model. `PROJECT.json` lists
each hazard at its line, with the properties that would catch it or the reason why none does.

## The modules

| Module | Models | Status |
|---|---|---|
| `VelocityGate` | what `/cmd_vel_origin` promises: a lock, a cap, a velocity | abstract specification |
| `CmdVelPublisher` | the publisher, one action per public method | checked, proved |
| `CmdVelPublisherProofs` | its invariant and the refinement | proved |
| `LossyTopic` | the publisher with a topic that loses samples, and the robot behind it | checked, proved |
| `LossyTopicProofs` | what a lost sample can do | proved |
| `Parameters` | what every reader makes of a JSON text, and the speed limit on all doubles | checked, proved |
| `ParametersProofs` | its properties for any numbers and names | proved |
| `MotionSwitcherBridge` | the switcher's state and one action per request | composed below |
| `EventBridge` | `main.cpp`: both objects under every handler, the reset and the main loop, each uninterrupted | checked, proved |
| `EventBridgeProofs` | its invariant | proved |
| `BridgeThreads` | the same handlers as lists of single accesses, interleaved by thread | checked, proved |
| `BridgeThreadsProofs` | its types and top speed, for all threads and clients | proved |
| `BridgeThreadsRestProofs` | what holds when the handlers have ended | proved |
| `SportService` | what a sport client is promised: one request after the other, each with its effect once and before its answer | abstract specification |
| `SportApis` | the API ids, their classifications, the two handler maps `main` fills | used below |
| `SdkEventBridge` | one request from queue to response, the worker, the stub's lifecycle | checked, proved |
| `SdkEventBridgeProofs` | its invariants, the order of callbacks and of requests, what acts and who waits | proved |
| `ProgramLife` | `main` from its first object to the last destructor, under three threads of callbacks | checked, proved |
| `ProgramLifeProofs` | what exists at each place of `main`, and that no callback meets less | proved |

`MC*` modules hold the small instances. A definition that breaks one other on purpose
is introduced by a comment that begins "Mutant:". Each property of a passing run fails
in that run once the mutant takes the place of the definition after it, so that no
property is true of every program.

### State and code

Variables have the names of the fields. Beyond them:

- A velocity is `[lin, yaw]`: `lin` is `hypot(vx, vy)` in tenths of m/s, since the
  speed limit scales `vx` and `vy` alike; `yaw` is `vyaw`, which nothing limits.
- `twist` is the last sample written to `/cmd_vel_origin` (zero before the first),
  `cmdCtl` the last to `/cmd_ctl`, `response` the switcher's last answer.
- `moveAge` is the time since `m_lastMoveTime`, counted up to `MOVE_STOP_TIMEOUT`;
  ages beyond it are treated alike by `Tick` and so by the model.
- JSON parameters are members of small sets. A MOVE parameter that lacks a component
  has it zero, as in `ParseMoveParameter`; an integer or Boolean that does not parse
  makes its handler return, which is a stuttering step; a mode parameter that does not
  parse is `Malformed` and is answered with an error.

**A handler as one action.** In `CmdVelPublisher` and `EventBridge` an action is a
whole method or handler. That is what the code does when no other thread is inside the
same object, and the invariants found there are what the handlers aim at.

**A handler as steps.** `BridgeThreads` makes no such assumption. A handler is the list
of methods it calls, a method the list of its reads and writes of shared fields in the
order of the source, and `Step(t)` does the next one of a thread. No step accesses two
fields; `SetRobotPosture`, which writes only what differs, is taken to be one write.
`PublishMove` too is two steps, the copy of `m_lastVelocity` into the message and the
write of the message, between which another thread may lock, stop or store a velocity
(`main` has initialised the channel before the first handler). `ReturnIf` and
`ReturnUnless` are the early returns. `apis` says which requests the clients of a
behaviour send; `lastStop` and `overtaken` are history variables. The repository
sets no optimisation level, so the two reads of `m_maxLinearSpeed` in `ApplySpeedLimit`
are two reads. Memory is sequentially consistent and each field is written whole: the
data races are undefined behaviour in C++, and the model has the interleavings of it
only. A string torn by two writers is not in it.

**A lost sample.** `LossyTopic` takes every call that ends in `PublishMove` and lets the
sample reach the `robot` or not; a `Write` that returns false and a sample the network
drops are one thing, since the code does the same after both: nothing.

**A text.** In `Parameters` a text is empty, unreadable, JSON that is no object, or an
object whose keys hold typed values. The SDK's `FromJson` is taken to throw on a value of
another type. A double is told apart by its size as the code can tell: zero, within every
cap, beyond every cap, so huge that `hypot` of two overflows, infinite, not a number. Each
request is read by all its readers in one action, since nothing they read is shared.
`NoHalfAppliedRequest` looks at the keys in use: SWITCHMOVEMODE reads a "flag" only where
there is no "data", so that an ill-typed "flag" alone must change nothing, and one beside
a "data", good or bad, is not looked at. Its two mutants are the two ways to get that wrong:
the flag tried after a bad "data", and a flag that cannot be read taken for false.

**The service.** `SdkEventBridge` assumes of the SDK's server stub what the code's use
of it shows: a queue, one worker (it is created without the priority queue), and a
destructor that waits for the worker. Handlers take no time beside the sleep, so time
passes only while the worker sleeps; `waited` counts it for those who queue. `Stop` clears
the pointer at any moment, also between its test and its use in
`HandleInterceptedRequest`; the phase `crashed` is the null pointer that is then called.
The model stops there, which is why its run does not check for deadlock.

**The life of the program.** In `ProgramLife` `up` is the set of what exists and `main` a
list of methods, from the four objects it makes to the destructors that run in reverse
order. A publisher has three owners (main's pointer and the copies in two sets of
handlers), and its channel closes with the last. The stub's destructor and `CloseChannel`
are taken to let no further callback begin and to wait for the one in progress. A callback
has one phase for each thing it touches.

## The runs

Passing:

| Run | Instance | Shows |
|---|---|---|
| `publisher` | speeds 1, 2, 4 and 7 m/s (under every cap, between each two, above all), levels -1, 0, 1, gaits on both sides of 0..4, timeout of 2; any sample may be lost (127,020 states) | `LockedMeansStopped`, `CapFollowsProfileAndLevel`, `OutputWithinCap`, `OutputIsActiveMove`, `OnlyMoveAccelerates`, `AutoStop`, that the publisher implements `VelocityGate`, and of the robot behind the topic `OnlyLostStopsEndanger` and `RobotStops` |
| `parameters` | every text over a number of each size and two names, two requests (58,034 states) | `LimitHoldsForFinite`, `WhatMovesIsWalking`, `MoveIsLongestReadablePrefix`, `SelectIsReadAlike`, `NoHalfAppliedRequest` |
| `bridge` | speeds 1 and 5 m/s, an AI mode, a sport mode, a parameter without a name, a malformed one (365,310 states) | `StandDownMeansStill`, `ProfileMatchesMode`, `ModeChangesAtRest`, `LyingDownIsCommanded`, `WalkingEnds` |
| `threads_sport` | every sport API and the main loop (792,316 states) | `LockedAtRestMeansStopped`, `WalkingEnds` under any interleaving of the two threads |
| `threads_modes` | three sets of clients: MOVE at 5 and 7 m/s and SPEEDLEVEL beside mode changes; mode changes beside resets; MOVE, SPEEDLEVEL and the three stops beside resets and the main loop (5,376,446 states) | `NeverAboveTopSpeed` with the cap changing under the MOVE, `ProfileMatchesModeAtRest`, `ExplicitStopStops` |
| `service` | a STANDUP, a MOVE and one request of any API, in any order; the owner inits, starts and stops at will (68,246 states) | `CallbacksFollowProtocol`, `HandledInOrder`, `ActsOnceBeforeAnswer`, `WaitsOnlyForPostures`, `QueuedIsAnswered`, and that the service implements `SportService` (`KeepsPromise`) |
| `program` | the whole life, a signal at any moment (1,017 states) | `AliveWhenUsed`, `ReleasedAtExit`, `ShutdownCompletes` |

Each also checks its type invariant; `threads_modes` shares that of `threads_sport`.

**Why the bounds are enough.** The publisher compares a speed with three caps, and the
speeds of `publisher` lie on every side of them. A level matters only as 1 or not 1, a
mode only as sport or not, a gait only as 0, 1..4 or other, an age only as before the
timeout or not. A request's text is read without regard to the one before it, so that two
requests (`MaxRequests`) already are every text after every other; the run stops after
them, and does not check for deadlock. In `BridgeThreads` the handlers have the same data,
and each thread begins any number of requests one after the other; what is bounded is
which APIs the run's clients send (`Clients`). All threads with all APIs at once is beyond
TLC (more than 22 million states without an end), so that each property is asked of the
threads it holds for. What the others do to it is the next table. `NeverAboveTopSpeed`
holds for all of them, which `BridgeThreadsProofs` proves. Three requests in
`service` are one in hand, one in the queue and one that comes while it sleeps.

Violated, on purpose: each states what the repository says, and TLC finds the run of
the code that contradicts it.

| Run | Says | What happens |
|---|---|---|
| `publisher_walkmode` | `README.md:217` | `SetWalkMode(mode, false)` locks only if `mode` is the one in force, so after BALANCESTAND a VISIONWALK with `false` leaves the joints unlocked |
| `threads_autostop` | `README.md:177` | `Tick` finds the old MOVE timed out; a new MOVE sets its time and flag; `Tick` clears the flag and publishes its stop; the MOVE is published. The robot moves, the flag says it does not, and auto stop never comes |
| `threads_reset_move` | `README.md:198` | a reset between HandleMove's test of the lock and its publication: moving on locked joints |
| `threads_mode_gate` | `README.md`, "Mode change gating (posture)" | SELECT_MODE finds the robot lying, a STANDUP stores its posture, SELECT_MODE stores the mode of a standing robot |
| `threads_liedown` | `README.md:137` | the main loop stores the posture it decided on before the STANDDOWN: the robot lies and SELECT_MODE answers busy |

### Divergences

Seen in the models and stated by no run of their own:

- `README.md:181` says that STOPMOVE, STANDDOWN and DAMP always stop. With SELECT_MODE
  among the clients `BridgeThreads` reaches a velocity published after a STOPMOVE:
  `SetMotionModeName` found the move active and republishes it
  (`src/cmd_vel_publisher.cpp:122`). A MOVE and a STOPMOVE have to fall within one
  SELECT_MODE handler, and so has the BALANCESTAND before them unless the joints were
  unlocked lying down (FREEWALK, SWITCHGAIT). `ExplicitStopStops` therefore speaks of
  clients without SELECT_MODE.
- `README.md:244` says that other APIs respond immediately. They wait two seconds for each
  posture request that came before them, and for nothing else: `WaitsOnlyForPostures`.
- A reset that runs beside a mode change can leave profile and mode name apart for good
  (`src/main.cpp:383`). `ProfileMatchesModeAtRest` is claimed until then (`overtaken`).
- A SPEEDLEVEL beside a mode change can leave the cap of a profile that is no longer set
  (`src/cmd_vel_publisher.cpp:104`): the sport thread chooses the cap of the AI profile, the
  switcher's sets the sport profile and its cap, and the sport thread stores what it chose.
  A MOVE beside a mode change can leave the robot moving beyond the cap in force: it is
  limited by the old cap and published after the new one is stored. `BridgeThreads` reaches
  both with every thread idle; `NeverAboveTopSpeed` bounds the speed by the greatest cap only.
- A reset puts the posture record to StandDown and sends the robot no FSM command
  (`src/main.cpp:379`). The README says nothing of it; `LyingDownIsCommanded` excepts the reset.
- At shutdown two pointers are tested and then called while another thread clears them:
  the stub (`src/sdk_event_bridge.cpp:313`) and main's publisher in the reset callback
  (`src/main.cpp:416`). `AliveWhenUsed` forbids every such call but these two, and these
  two while no signal has come.
- A velocity with a NaN or an infinity passes the limit as NaN (`LimitHoldsForFinite` says
  exactly when), and a NaN alone does not count as motion.

## Fairness

`MainLoop` and `Tick` are weakly fair: `main` calls them every 10 ms until a signal
arrives, whatever the clients do. The clock is. In `BridgeThreads` every thread that has
something to do goes on, as the operating system sees to; in `SdkEventBridge` the worker
takes and handles what is queued; in `ProgramLife` `main` and each callback go on, and
nobody has to call or to send the signal. In `LossyTopic` no delivery is fair: the network
may lose every sample, and `RobotStops` excuses only the lost stop. No client is fair:
nobody has to send anything. Each liveness property about moving therefore excuses the
client that keeps sending (`moveAge = 0`) or has switched to continuous mode. Strong
fairness is nowhere needed.

## What is proved

For every set of speeds, yaw rates, levels, gaits, mode names and parameters and every
positive timeout (`CmdVelAssumption`, `EventBridgeAssumption`, `ThreadsAssumption`:
naturals, integers, and that the selectable modes are among the publisher's). `ParametersProofs`
assumes that numbers are doubles (`NumbersAssumption`), `SdkEventBridgeProofs` that requests
have a known API and a positive id and that the delay is positive (`ServiceAssumption`).

- `CmdVelPublisherProofs`. The inductive invariant `CmdVelIInv` is the type invariant,
  `OutputIsActiveMove`, `CapFollowsProfileAndLevel`, `OutputWithinCap`, and that a locked
  robot has no active move. None of them is inductive alone: a stop leaves
  `m_lastVelocity` behind, so that a republication is safe only because the flag tells
  whether that velocity is out; `SetSpeedLevel` in the sport profile changes the level
  and not the cap, which is right only because the cap is then the sport cap. From it:
  `CmdVelTypeCorrect`, `LockedStopped`, `CapHonoured`, `CapDocumented`, `OutputActive`,
  the action property `MoveAlone`, and `CmdVelRefinesGate`: every step of the publisher is a step of `VelocityGate` or
  leaves its variables alone.
- `EventBridgeProofs`. Every handler is a step of the publisher, or a stutter of it,
  with something done to the posture or the mode. `EventBridgeIInv` adds to `CmdVelIInv`
  the types of the switcher, `StandDownMeansStill` and `ProfileMatchesMode`. From it
  follow `LyingStill`, `ProfileInStep`, `ModeAtRest` and, the publisher's proof used
  again, `EventBridgeRefinesGate`. `StandDownMeansStill` needs `OutputIsActiveMove`: a mode
  change lying down publishes the remembered velocity again if a move is active, which is
  harmless only because the velocity of an active move is the one already out, and zero.
  `LyingCommanded`: no step but the reset puts the record to StandDown, or keeps it there
  over a new command, unless the last command sent is one to lie down, so that a mode is
  not selected for a robot that only the record has lying; the handlers of one API are filled in at two places of `main`, and nothing else
  keeps them together.
- `LossyTopicProofs`. A step over the lossy topic is a step of the publisher, so
  `CmdVelIInv` carries over; with it `OnlyLostStopsEndanger` is inductive. It needs
  `OutputIsActiveMove`: after a step that leaves no active move what is out is a stop, so
  that its loss is on record, and a step that publishes nothing ends no move.
- `BridgeThreadsProofs`. For all four threads and any clients: `ThreadsTypeCorrect` and
  `TopSpeedHonoured`. The invariant `ThreadsIInv` is about what each thread has yet to do:
  every step that stores or compares has a value of its field's type, `ScaleToCap` comes
  only right after `CompareWithCap`, `StoreLastVelocity` only right after `ScaleToCap` and
  `PublishCopy` only right after `CopyLastVelocity`, a velocity about to be stored or
  published is within the greatest cap, and one about to be scaled is so or is marked as over
  some cap. Each method is shown to be such a list, put together from those it calls. The
  cap may have changed between compare and scale; both values were caps of some profile,
  and that is all that is true: the cap in force at the publication may be lower.
- `BridgeThreadsRestProofs`. `LockedAtRest`, `StopsStop` and `ProfileAtRest` claim
  something only of a thread that has ended, so that an invariant that implies them has to
  say what the thread will yet do. `RestIInv` adds to `ThreadsIInv` four parts. `Roles`:
  which steps each thread never does (the main loop publishes nothing but zero and sets
  neither lock, profile nor mode; only the switcher and the reset set the last two), and
  that without SELECT_MODE the profile stays "Ai", at which `SetMotionModeName` ends before
  it republishes. `Stopping`: until a stopped robot stands still the sport thread's next
  method is the one that stops it. `Locking`: with the joints locked, a method that
  publishes a velocity looks at the lock first, and locking and stopping are neighbours in
  every method. `Pairing`: until the two have overlapped, one at most of switcher and reset
  is at work, and where mode and profile differ the rest of its method makes them agree,
  early returns included. `LockedAtRest` assumes that no client selects modes or resets: the
  first republishes a move it found active (see Divergences), and `threads_reset_move` shows
  what the second does. `StopsStop` and `ProfileAtRest` carry their exceptions in the
  property itself.
- `ParametersProofs`. For any set of numbers and of names and any number of requests:
  `LimitHolds`, `MovingIsWalking`, `MovePrefix`, `SelectAlike`, `NothingHalfApplied`. The
  lemmas are about the readers alone (what `ParseMoveParameter` finds, component by
  component; what the limit does to a velocity of any finite or other doubles; that the
  two readers of a mode find the same), and the steps only store what they return. The
  sizes of doubles are as in the model: the theorem is about the abstraction of `hypot`
  and of the scaling, not about floating point.
- `SdkEventBridgeProofs`. For any set of requests and any delay: `ServiceTypeCorrect`,
  `ProtocolFollowed`, `InOrder`, `ActsOnce` and `WaitsShort`. The invariant has two parts. `WorkerIInv` says for each
  phase what the request in hand has caused, and that every other is finished or not begun;
  a finished request is one of the two courses of the protocol, and what is in hand is a
  prefix of one. `QueueIInv` says that the queue is always the end of `arrivals` (a stop
  empties it, and it is filled from the back only) and that nothing after the request in
  hand has been begun; without it a request could be taken twice. `ActsOnce` needs from the
  handler maps that each API has one handler in each (`OneHandlerEach`) and that exactly the
  postures act on their request and exactly the other tracked ones on their event.
  `WaitsShort` bounds a wait by the postures ahead, which is not inductive: a request in
  the queue gains a tick whenever the worker sleeps, so that `WaitIInv` bounds its wait by
  the sleeps that are over (`SleptFor`) and the time into the present one. The postures
  that a stop dropped are counted as over, which is why the bound survives a restart. The
  sleeper is ahead of everybody in the queue, so that the one bound gives the other when a
  request is taken or dropped. `ServiceRefinesPromise` is the refinement of `SportService`:
  what waits is the queue, what is served is `current`, and a request has acted as often,
  and is answered, as the log of its callbacks says. A posture acts when its request is
  dispatched and any other tracked API in `BuildResponse`; the send is the answer, the event
  after it and the crash are stutters, and the end of the response finishes the request.
- `ProgramLifeProofs`. From no assumption: `ProgramLife` has no constants. `LifeIsTyped`,
  `CallbacksUseWhatIsAlive` and `EverythingIsReleased`. TLC visits all 1,017 states; the proof
  adds the reason. `LifeIInv` says that what exists, and who owns the publishers, is a matter
  of `main`'s place alone: each thing has a lifetime, from the place that makes it to the place
  that ends it (`Lifetime`), and each callback thread a span from the place that begins its
  callbacks to the place that waits for the last one (`CallTime`). `AllFit` checks the list of
  `main`'s methods against these tables: a step makes or ends exactly what is dated there, and
  is early or late enough. `AliveWhenUsed` then comes down to each callback's span lying within
  the lifetimes of what it touches, and fails for the two calls it excuses because their spans
  do not. A method moved out of its span in `main` falsifies `AllFit`.

Only model-checked: what is liveness (`AutoStop`, `RobotStops`, `WalkingEnds`,
`QueuedIsAnswered`, `ShutdownCompletes`), since the prover has neither fairness nor ENABLED.
Every safety invariant and every action property that a passing run checks is a theorem.

## Not modelled, and why

- The robot left moving: no step between the main loop's end and the return of `main`
  publishes a stop, which needs no run to be seen. `ProgramLife` leaves velocities out.
- The ten requests the switcher's queue holds: the queue is the SDK's and what it does
  beyond ten is not in the repository. A dropped request is one never sent.
- A string torn by two writers (`mModeName`): undefined, and no value to give it.
- The end of `main` without an argument (`src/main.cpp:355`): it returns before there is any
  object, so `ProgramLife` begins after it.
- The topic names (a pure function on three literals), the generated message, logging and
  the wording of answers.
- The SDK itself: a queue and one worker, one thread for each subscriber, and a close that
  waits are assumptions, named above where they are made.

## Plan

Done: the publisher, its gate and its lossy topic, the parameters, the composed program,
its threads, the service's request life with the handler maps and what it promises, the
life of the program, and eight proof modules, which state every safety invariant and action
property that the runs check. What could still be added:

1. `ModeGate`: an abstract specification of mode changes (a robot that lies still may
   change mode), refined by `EventBridge` and by the part of `BridgeThreads` for which it
   holds.
2. That a handler of `BridgeThreads` which nobody interrupts does what the action of
   `EventBridge` does, so that the two models of one handler are known to agree.
