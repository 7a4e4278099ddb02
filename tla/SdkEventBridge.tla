--------------------------- MODULE SdkEventBridge ---------------------------
(***************************************************************************)
(* The class SdkEventBridgeClass (src/sdk_event_bridge.cpp): the life of a *)
(* sport request from the server stub's queue to its response, and of the  *)
(* stub itself.  What the handlers do to the robot is EventBridge.         *)
(*                                                                         *)
(* The stub is the SDK's: a queue of requests and one worker that calls    *)
(* HandleInterceptedRequest on each in turn (it is created without the     *)
(* priority queue).  Its destructor is taken to wait for that worker.      *)
(* Handlers take no time beside the two seconds the posture APIs sleep.    *)
(***************************************************************************)
EXTENDS Integers, SequencesExt, SportApis

CONSTANTS
  Requests,           \* the requests clients may send; of those with one id, one is sent
  POSTURE_ACTION_RESPONSE_DELAY

ASSUME ServiceAssumption ==
  /\ Requests \subseteq [id : Nat \ {0}, api : ApiIds]
  /\ POSTURE_ACTION_RESPONSE_DELAY \in Nat \ {0}

None == [id |-> 0, api |-> "none"]

Phases == {"idle", "dispatch", "build", "sleep", "check", "send", "respond", "crashed"}

VARIABLES
  mInitialized,
  mStarted,
  mSportServerStub,   \* does the pointer hold a stub?
  queue,              \* the stub's queue
  current,            \* the request the worker is handling
  phase,              \* how far it has come
  slept,              \* time in the posture sleep
  waited,             \* history: the time each request has been in the queue
  log,                \* history: what each request has caused, in order
  arrivals            \* history: the requests queued, in order

serviceVars == <<mInitialized, mStarted, mSportServerStub, queue, current, phase, slept,
                 waited, log, arrivals>>

Callbacks == {"request", "event", "send", "response"}

ServiceTypeOK ==
  /\ mInitialized \in BOOLEAN /\ mStarted \in BOOLEAN /\ mSportServerStub \in BOOLEAN
  /\ queue \in Seq(Requests) /\ arrivals \in Seq(Requests)
  /\ current \in Requests \cup {None}
  /\ phase \in Phases
  /\ slept \in 0 .. POSTURE_ACTION_RESPONSE_DELAY
  /\ waited \in [Requests -> Nat]
  /\ log \in [Requests -> Seq(Callbacks)]

ServiceInit ==
  /\ mInitialized = FALSE /\ mStarted = FALSE /\ mSportServerStub = FALSE
  /\ queue = <<>> /\ arrivals = <<>>
  /\ current = None /\ phase = "idle"
  /\ slept = 0 /\ waited = [r \in Requests |-> 0]
  /\ log = [r \in Requests |-> <<>>]

-----------------------------------------------------------------------------
(* The owner's thread.                                                     *)

Lifecycle == <<mInitialized, mStarted, mSportServerStub>>
Worker    == <<current, phase, slept>>

Init ==
  /\ ~mInitialized /\ mInitialized' = TRUE
  /\ UNCHANGED <<mStarted, mSportServerStub, queue, Worker, waited, log, arrivals>>

\* Starting again is no error and does nothing.  A stub can only be made anew
\* once the last one's worker is gone.
Start ==
  /\ ~mStarted /\ phase = "idle"
  /\ mInitialized' = TRUE /\ mStarted' = TRUE /\ mSportServerStub' = TRUE
  /\ UNCHANGED <<queue, Worker, waited, log, arrivals>>

\* The pointer is cleared first; the queue goes with the stub, while the worker
\* brings the request in hand to its end.
Stop ==
  /\ mSportServerStub' = FALSE /\ mStarted' = FALSE
  /\ queue' = <<>>
  /\ UNCHANGED <<mInitialized, Worker, waited, log, arrivals>>

-----------------------------------------------------------------------------
(* The clients and the worker.                                             *)

\* With no stub there is nobody to hear the request.
Receive(r) ==
  /\ mSportServerStub
  /\ \A i \in 1 .. Len(arrivals) : arrivals[i].id # r.id
  /\ queue' = Append(queue, r)
  /\ arrivals' = Append(arrivals, r)
  /\ UNCHANGED <<Lifecycle, Worker, waited, log>>

\* Mutant: the stub is made with the priority queue, and the last to come is next.
TakeByPriority ==
  /\ phase = "idle" /\ queue # <<>>
  /\ current' = Last(queue) /\ queue' = Front(queue)
  /\ phase' = "dispatch"
  /\ UNCHANGED <<Lifecycle, slept, waited, log, arrivals>>

Take ==
  /\ phase = "idle" /\ queue # <<>>
  /\ current' = Head(queue) /\ queue' = Tail(queue)
  /\ phase' = "dispatch"
  /\ UNCHANGED <<Lifecycle, slept, waited, log, arrivals>>

Advance(to) ==
  /\ phase' = to
  /\ UNCHANGED <<Lifecycle, queue, waited, arrivals>>

Record(what) == log' = [log EXCEPT ![current] = Append(@, what)]

DispatchRequest ==
  /\ phase = "dispatch"
  /\ Record("request")
  /\ Advance("build")
  /\ UNCHANGED <<current, slept>>

\* Mutant: the event of every tracked API is held back.
DeferEverySuccessEvent == IsTrackedSportApi(current.api)

DeferSuccessEvent == IsTrackedSportApi(current.api) /\ RequiresPostureActionDelay(current.api)

\* Mutant: the event of a posture request is dispatched now and again later.
BuildResponseWithEveryEvent ==
  /\ phase = "build"
  /\ IF IsTrackedSportApi(current.api) THEN Record("event") ELSE UNCHANGED log
  /\ Advance(IF DeferSuccessEvent THEN "sleep" ELSE "check")
  /\ slept' = 0
  /\ UNCHANGED current

\* Every status is a success.  The event of a tracked API is dispatched now,
\* unless it has to wait for the robot to sit or stand.
BuildResponse ==
  /\ phase = "build"
  /\ IF IsTrackedSportApi(current.api) /\ ~DeferSuccessEvent
     THEN Record("event") ELSE UNCHANGED log
  /\ Advance(IF DeferSuccessEvent THEN "sleep" ELSE "check")
  /\ slept' = 0
  /\ UNCHANGED current

DispatchDeferredEvent ==
  /\ phase = "sleep" /\ slept = POSTURE_ACTION_RESPONSE_DELAY
  /\ Record("event")
  /\ Advance("check")
  /\ slept' = 0
  /\ UNCHANGED current

\* Mutant: the test is the wrong way round.
CheckStubInverted ==
  /\ phase = "check"
  /\ Advance(IF mSportServerStub THEN "respond" ELSE "send")
  /\ UNCHANGED <<current, slept, log>>

\* The pointer is tested and then used; Stop may clear it in between.
CheckStub ==
  /\ phase = "check"
  /\ Advance(IF mSportServerStub THEN "send" ELSE "respond")
  /\ UNCHANGED <<current, slept, log>>

\* Mutant: the handler returns once the response is sent.
SendAndReturn ==
  /\ phase = "send"
  /\ IF mSportServerStub
     THEN Record("send") /\ Advance("idle")
     ELSE UNCHANGED log /\ Advance("crashed")
  /\ current' = None
  /\ UNCHANGED slept

Send ==
  /\ phase = "send"
  /\ IF mSportServerStub
     THEN Record("send") /\ Advance("respond")
     ELSE UNCHANGED log /\ Advance("crashed")
  /\ UNCHANGED <<current, slept>>

DispatchResponse ==
  /\ phase = "respond"
  /\ Record("response")
  /\ current' = None
  /\ Advance("idle")
  /\ UNCHANGED slept

\* Mutant: the worker sleeps beyond the delay.
Oversleep ==
  /\ phase = "sleep" /\ slept <= POSTURE_ACTION_RESPONSE_DELAY
  /\ slept' = slept + 1
  /\ UNCHANGED <<Lifecycle, queue, current, phase, waited, log, arrivals>>

\* Time passes while the worker sleeps, for it and for all who queue.
Elapse ==
  /\ phase = "sleep" /\ slept < POSTURE_ACTION_RESPONSE_DELAY
  /\ slept' = slept + 1
  /\ waited' = [r \in Requests |->
                  IF Contains(queue, r) THEN waited[r] + 1 ELSE waited[r]]
  /\ UNCHANGED <<Lifecycle, queue, current, phase, log, arrivals>>

HandleInterceptedRequest ==
  \/ DispatchRequest \/ BuildResponse \/ DispatchDeferredEvent
  \/ CheckStub \/ Send \/ DispatchResponse

ServiceNext ==
  \/ phase # "crashed" /\ (Init \/ Start \/ Stop)
  \/ phase # "crashed" /\ \E r \in Requests : Receive(r)
  \/ Take \/ HandleInterceptedRequest
  \/ Elapse

\* The worker runs and the clock does not stop; nobody has to call or to send.
ServiceFairness ==
  /\ WF_serviceVars(Take) /\ WF_serviceVars(HandleInterceptedRequest)
  /\ WF_serviceVars(Elapse)

ServiceSpec == ServiceInit /\ [][ServiceNext]_serviceVars /\ ServiceFairness

-----------------------------------------------------------------------------
(* Properties.                                                             *)

\* What a request may cause, in this order and each thing once: a tracked one is
\* told to the program as a request and as an event before its client hears of
\* it, and the response is skipped only if the stub was gone.
Protocol(r) ==
  LET told == <<"request">> \o (IF IsTrackedSportApi(r.api) THEN <<"event">> ELSE <<>>)
  IN  {told \o <<"send", "response">>, told \o <<"response">>}

CallbacksFollowProtocol ==
  \A r \in Requests : \E s \in Protocol(r) : IsPrefix(log[r], s)

Done(r) == log[r] # <<>> /\ Last(log[r]) = "response"

\* The handlers of a request see the robot as the requests before it left it:
\* nothing is handled before all that came earlier is done with or was dropped
\* with the stub's queue, and two are never in hand at once.
HandledInOrder ==
  \A i, j \in 1 .. Len(arrivals) :
    i < j /\ log[arrivals[j]] # <<>> /\ log[arrivals[i]] # <<>> => Done(arrivals[i])

\* While the stub lives, whoever is queued is answered, however many sit and
\* stand before.
QueuedIsAnswered ==
  \A r \in Requests :
    Contains(queue, r) ~> (Contains(log[r], "send") \/ ~mSportServerStub)

TimesActed(r) == Cardinality({i \in 1 .. Len(log[r]) : Acts(log[r][i], r.api)})

\* The two handler maps, the list of tracked APIs and the list of delayed ones
\* fit together: a request for a tracked API, in whichever dialect, has acted on
\* the robot exactly once when it is answered, and a posture request before its
\* worker goes to sleep; no other request acts.
\* (README.md, "Stand up / stand down response delay".)
ActsOnceBeforeAnswer ==
  \A r \in Requests :
    LET due == IF IsTrackedSportApi(r.api) THEN 1 ELSE 0
    IN  /\ TimesActed(r) <= due
        /\ (current = r /\ phase = "sleep") \/ Contains(log[r], "send") \/ Done(r) =>
             TimesActed(r) = due

ActionsAhead(r) ==
  Cardinality({i \in 1 .. Len(arrivals) :
                 /\ RequiresPostureActionDelay(arrivals[i].api)
                 /\ \E j \in i + 1 .. Len(arrivals) : arrivals[j] = r})

\* What README.md ("Other sport APIs still respond immediately") comes to with
\* one worker that sleeps: a request waits in the queue for the posture requests
\* that came before it, two seconds each, and for nothing else.
WaitsOnlyForPostures ==
  \A r \in Requests : waited[r] <= POSTURE_ACTION_RESPONSE_DELAY * ActionsAhead(r)

timesActed == [r \in Requests |-> TimesActed(r)]
answered   == {r \in Requests : Contains(log[r], "send")}

\* The service keeps its promise to the clients: the worker's phases, the two kinds
\* of callback, the sleep between them and the stub's coming and going are only a
\* way of serving one request after the other, each with its effect before its
\* answer.
Promise == INSTANCE SportService
             WITH Effective <- {r \in Requests : IsTrackedSportApi(r.api)}, Nobody <- None,
                  pending <- queue, serving <- current,
                  acted <- timesActed, answered <- answered

KeepsPromise == Promise!PromiseSpec

=============================================================================
