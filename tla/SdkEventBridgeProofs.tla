------------------------ MODULE SdkEventBridgeProofs ------------------------
(***************************************************************************)
(* Proofs about SdkEventBridge: what a request causes, and in which order  *)
(* requests are handled, for any set of requests and any delay.            *)
(***************************************************************************)
EXTENDS SdkEventBridge, SequenceTheorems, FiniteSetTheorems, TLAPS

Told(r) ==
  IF IsTrackedSportApi(r.api) THEN <<"request", "event">> ELSE <<"request">>

Finished(r) == {Append(Append(Told(r), "send"), "response"), Append(Told(r), "response")}

\* What the request in hand has caused when the worker has come to a phase.
InHand(r, at) ==
  CASE at = "dispatch"           -> {<<>>}
    [] at \in {"build", "sleep"} -> {<<"request">>}
    [] at = "respond"            -> {Told(r), Append(Told(r), "send")}
    [] OTHER                     -> {Told(r)}

\* The worker has a request in hand while it is at work; all others are done
\* with or not begun.
WorkerIInv ==
  /\ phase = "idle" <=> current = None
  /\ phase = "sleep" =>
       IsTrackedSportApi(current.api) /\ RequiresPostureActionDelay(current.api)
  /\ current # None => log[current] \in InHand(current, phase)
  /\ \A r \in Requests : r # current => log[r] = <<>> \/ log[r] \in Finished(r)

\* The queue is the end of what arrived, and nothing after the request in hand
\* has been begun.
Taken == Len(arrivals) - Len(queue)

QueueIInv ==
  /\ \A i, j \in 1 .. Len(arrivals) : arrivals[i] = arrivals[j] => i = j
  /\ \A r \in Requests :
       log[r] # <<>> \/ r = current => \E i \in 1 .. Len(arrivals) : arrivals[i] = r
  /\ Taken \in Nat
  /\ \A i \in 1 .. Len(queue) : queue[i] = arrivals[Taken + i]
  /\ \A i \in Taken + 1 .. Len(arrivals) : log[arrivals[i]] = <<>> /\ arrivals[i] # current
  /\ \A i, j \in 1 .. Len(arrivals) :
       arrivals[i] = current /\ i < j => log[arrivals[j]] = <<>>

ServiceIInv == ServiceTypeOK /\ WorkerIInv /\ QueueIInv

-----------------------------------------------------------------------------
\* A request is none of the placeholder.
LEMMA NoneIsNoRequest == None \notin Requests
  BY ServiceAssumption DEF None

LEMMA ServiceInitIInv ==
  ASSUME ServiceInit
  PROVE  ServiceIInv
  <1>1. ServiceTypeOK
    <2>1. slept \in 0 .. POSTURE_ACTION_RESPONSE_DELAY /\ phase \in Phases
      BY ServiceAssumption DEF ServiceInit, Phases
    <2>2. queue \in Seq(Requests) /\ arrivals \in Seq(Requests)
      BY EmptySeq DEF ServiceInit
    <2>3. waited \in [Requests -> Nat] /\ log \in [Requests -> Seq(Callbacks)]
      BY EmptySeq DEF ServiceInit
    <2> QED BY <2>1, <2>2, <2>3 DEF ServiceInit, ServiceTypeOK
  <1>2. WorkerIInv
    BY DEF ServiceInit, WorkerIInv
  <1>3. QueueIInv
    BY NoneIsNoRequest DEF ServiceInit, QueueIInv, Taken
  <1> QED BY <1>1, <1>2, <1>3 DEF ServiceIInv

\* A step that records something of the request in hand, and leaves the queue
\* alone, keeps the order of the others.
LEMMA RecordingKeepsQueue ==
  ASSUME ServiceIInv,
         current \in Requests,
         log' = [log EXCEPT ![current] = log'[current]],
         current' \in {current, None},
         UNCHANGED <<queue, arrivals>>
  PROVE  QueueIInv'
  <1> USE DEF ServiceIInv, ServiceTypeOK
  <1>1. \A r \in Requests : r # current => log'[r] = log[r]
    OBVIOUS
  <1>2. \A i \in 1 .. Len(arrivals) : arrivals[i] \in Requests
    BY ElementOfSeq
  <1>3. Taken' = Taken /\ Taken \in Nat /\ Len(arrivals) \in Nat
    BY LenProperties DEF QueueIInv, Taken
  <1>4. PICK k \in 1 .. Len(arrivals) : arrivals[k] = current
    BY DEF QueueIInv
  <1>5. \A i, j \in 1 .. Len(arrivals) : arrivals'[i] = arrivals'[j] => i = j
    BY DEF QueueIInv
  <1>6. \A r \in Requests :
          log'[r] # <<>> \/ r = current' => \E i \in 1 .. Len(arrivals) : arrivals[i] = r
    BY <1>1, <1>4, NoneIsNoRequest DEF QueueIInv
  <1>7. \A i \in 1 .. Len(queue) : queue[i] = arrivals[Taken + i]
    BY DEF QueueIInv
  <1>8. \A i \in Taken + 1 .. Len(arrivals) : log'[arrivals[i]] = <<>> /\ arrivals[i] # current'
    <2> SUFFICES ASSUME NEW i \in Taken + 1 .. Len(arrivals)
                 PROVE  log'[arrivals[i]] = <<>> /\ arrivals[i] # current'
      OBVIOUS
    <2>1. arrivals[i] \in Requests /\ arrivals[i] # current /\ log[arrivals[i]] = <<>>
      BY <1>2, <1>3 DEF QueueIInv
    <2> QED BY <2>1, <1>1, NoneIsNoRequest
  <1>9. \A i, j \in 1 .. Len(arrivals) :
          arrivals[i] = current' /\ i < j => log'[arrivals[j]] = <<>>
    <2> SUFFICES ASSUME NEW i \in 1 .. Len(arrivals), NEW j \in 1 .. Len(arrivals),
                        arrivals[i] = current', i < j
                 PROVE  log'[arrivals[j]] = <<>>
      OBVIOUS
    <2>1. arrivals[i] = current
      BY <1>2, NoneIsNoRequest
    <2>2. log[arrivals[j]] = <<>>
      BY <2>1, Zenon DEF QueueIInv
    <2>3. arrivals[j] = arrivals[i] => i = j
      BY Zenon DEF QueueIInv
    <2>4. i # j
      BY <1>3
    <2>5. arrivals[j] \in Requests /\ arrivals[j] # current
      BY <1>2, <2>1, <2>3, <2>4, Zenon
    <2> QED BY <2>2, <2>5, <1>1, Zenon
  <1> QED BY <1>3, <1>5, <1>6, <1>7, <1>8, <1>9 DEF QueueIInv

\* What Record adds is a callback more of the request in hand.
LEMMA RecordOnlyCurrent ==
  ASSUME ServiceTypeOK, current \in Requests, NEW what \in Callbacks, Record(what)
  PROVE  /\ log' = [log EXCEPT ![current] = log'[current]]
         /\ log'[current] = Append(log[current], what)
         /\ log' \in [Requests -> Seq(Callbacks)]
  <1>1. log[current] \in Seq(Callbacks)
    BY DEF ServiceTypeOK
  <1>2. Append(log[current], what) \in Seq(Callbacks)
    BY <1>1, AppendProperties
  <1> QED BY <1>2 DEF ServiceTypeOK, Record

\* A worker that is not idle has a request in hand.
LEMMA AtWorkIsRequest ==
  ASSUME ServiceIInv, phase # "idle"
  PROVE  current \in Requests /\ current # None
  BY NoneIsNoRequest DEF ServiceIInv, ServiceTypeOK, WorkerIInv

-----------------------------------------------------------------------------
LEMMA InitStep ==
  ASSUME ServiceIInv, Init
  PROVE  ServiceIInv'
  BY DEF ServiceIInv, Init, Worker, ServiceTypeOK, WorkerIInv, QueueIInv, Taken

LEMMA StartStep ==
  ASSUME ServiceIInv, Start
  PROVE  ServiceIInv'
  BY DEF ServiceIInv, Start, Worker, ServiceTypeOK, WorkerIInv, QueueIInv, Taken

LEMMA StopStep ==
  ASSUME ServiceIInv, Stop
  PROVE  ServiceIInv'
  <1> USE DEF Stop, Worker
  <1>1. ServiceTypeOK'
    BY EmptySeq DEF ServiceIInv, ServiceTypeOK
  <1>2. WorkerIInv'
    BY DEF ServiceIInv, WorkerIInv
  <1>3. Len(arrivals) \in Nat /\ Taken' = Len(arrivals)
    BY LenProperties, EmptySeq DEF ServiceIInv, ServiceTypeOK, Taken
  <1>4. QueueIInv'
    BY <1>3, EmptySeq DEF ServiceIInv, QueueIInv
  <1> QED BY <1>1, <1>2, <1>4 DEF ServiceIInv

LEMMA ReceiveStep ==
  ASSUME ServiceIInv, NEW r \in Requests, Receive(r)
  PROVE  ServiceIInv'
  <1> USE DEF Receive, Lifecycle, Worker
  <1>1. queue \in Seq(Requests) /\ arrivals \in Seq(Requests)
    BY DEF ServiceIInv, ServiceTypeOK
  <1>2. /\ queue' \in Seq(Requests) /\ Len(queue') = Len(queue) + 1
        /\ \A i \in 1 .. Len(queue) : queue'[i] = queue[i]
        /\ queue'[Len(queue) + 1] = r
    BY <1>1, AppendProperties
  <1>3. /\ arrivals' \in Seq(Requests) /\ Len(arrivals') = Len(arrivals) + 1
        /\ \A i \in 1 .. Len(arrivals) : arrivals'[i] = arrivals[i]
        /\ arrivals'[Len(arrivals) + 1] = r
    BY <1>1, AppendProperties
  <1>4. Len(queue) \in Nat /\ Len(arrivals) \in Nat /\ Taken' = Taken /\ Taken \in Nat
    BY <1>1, <1>2, <1>3, LenProperties DEF ServiceIInv, QueueIInv, Taken
  <1>5. \A i \in 1 .. Len(arrivals) : arrivals[i] # r
    OBVIOUS
  <1>6. log[r] = <<>> /\ r # current
    BY <1>5 DEF ServiceIInv, QueueIInv
  <1>7. ServiceTypeOK' /\ WorkerIInv'
    BY <1>2, <1>3 DEF ServiceIInv, ServiceTypeOK, WorkerIInv
  <1>8. QueueIInv'
    <2> USE DEF ServiceIInv, QueueIInv
    <2>1. \A i, j \in 1 .. Len(arrivals') : arrivals'[i] = arrivals'[j] => i = j
      BY <1>3, <1>4, <1>5
    <2>2. \A s \in Requests :
            log'[s] # <<>> \/ s = current' => \E i \in 1 .. Len(arrivals') : arrivals'[i] = s
      <3> SUFFICES ASSUME NEW s \in Requests, log[s] # <<>> \/ s = current
                   PROVE  \E i \in 1 .. Len(arrivals') : arrivals'[i] = s
        OBVIOUS
      <3>1. PICK i \in 1 .. Len(arrivals) : arrivals[i] = s
        OBVIOUS
      <3>2. i \in 1 .. Len(arrivals') /\ arrivals'[i] = s
        BY <3>1, <1>3, <1>4
      <3> QED BY <3>2
    <2>3. \A i \in 1 .. Len(queue') : queue'[i] = arrivals'[Taken' + i]
      <3> SUFFICES ASSUME NEW i \in 1 .. Len(queue')
                   PROVE  queue'[i] = arrivals'[Taken + i]
        BY <1>4
      <3>1. Taken + Len(queue) = Len(arrivals)
        BY <1>4 DEF Taken
      <3>2. CASE i = Len(queue) + 1
        <4>1. Taken + i = Len(arrivals) + 1
          BY <3>1, <3>2, <1>4
        <4> QED BY <4>1, <3>2, <1>2, <1>3
      <3>3. CASE i \in 1 .. Len(queue)
        <4>1. Taken + i \in 1 .. Len(arrivals)
          BY <3>1, <3>3, <1>4
        <4>2. queue[i] = arrivals[Taken + i]
          BY <3>3
        <4> QED BY <4>1, <4>2, <3>3, <1>2, <1>3
      <3>4. i = Len(queue) + 1 \/ i \in 1 .. Len(queue)
        <4> HIDE DEF Receive, ServiceIInv, QueueIInv
        <4> QED BY <1>2, <1>4
      <3> QED BY <3>2, <3>3, <3>4
    <2>4. \A i \in Taken' + 1 .. Len(arrivals') :
            log'[arrivals'[i]] = <<>> /\ arrivals'[i] # current'
      BY <1>3, <1>4, <1>6
    <2>5. \A i, j \in 1 .. Len(arrivals') :
            arrivals'[i] = current' /\ i < j => log'[arrivals'[j]] = <<>>
      <3> SUFFICES ASSUME NEW i \in 1 .. Len(arrivals'), NEW j \in 1 .. Len(arrivals'),
                          arrivals'[i] = current', i < j
                   PROVE  log[arrivals'[j]] = <<>>
        OBVIOUS
      <3>1. i \in 1 .. Len(arrivals) /\ arrivals[i] = current
        BY <1>3, <1>4
      <3>2. CASE j = Len(arrivals) + 1
        BY <3>2, <1>3, <1>6
      <3>3. CASE j \in 1 .. Len(arrivals)
        <4>1. log[arrivals[j]] = <<>>
          BY <3>1, <3>3
        <4> QED BY <4>1, <3>3, <1>3
      <3>4. j = Len(arrivals) + 1 \/ j \in 1 .. Len(arrivals)
        <4> HIDE DEF Receive, ServiceIInv, QueueIInv
        <4> QED BY <1>3, <1>4
      <3> QED BY <3>2, <3>3, <3>4
    <2> QED BY <1>4, <2>1, <2>2, <2>3, <2>4, <2>5
  <1> QED BY <1>7, <1>8 DEF ServiceIInv

LEMMA TakeStep ==
  ASSUME ServiceIInv, Take
  PROVE  ServiceIInv'
  <1> USE DEF Take, Lifecycle
  <1>1. queue \in Seq(Requests) /\ arrivals \in Seq(Requests) /\ current = None
    BY DEF ServiceIInv, ServiceTypeOK, WorkerIInv
  <1>2. /\ current' = queue[1] /\ current' \in Requests
        /\ queue' \in Seq(Requests) /\ Len(queue') = Len(queue) - 1
        /\ \A i \in 1 .. Len(queue') : queue'[i] = queue[i + 1]
    BY <1>1, HeadTailProperties
  <1>3. Len(queue) \in Nat \ {0} /\ Len(arrivals) \in Nat
    BY <1>1, LenProperties, EmptySeq
  <1>4. Taken \in Nat /\ Taken + Len(queue) = Len(arrivals) /\ Taken' = Taken + 1
    BY <1>2, <1>3 DEF ServiceIInv, QueueIInv, Taken
  <1>5. Taken + 1 \in 1 .. Len(arrivals) /\ arrivals[Taken + 1] = current'
    BY <1>2, <1>3, <1>4 DEF ServiceIInv, QueueIInv
  <1>6. log[current'] = <<>>
    BY <1>5, <1>3, <1>4 DEF ServiceIInv, QueueIInv
  <1>7. ServiceTypeOK'
    BY <1>2 DEF ServiceIInv, ServiceTypeOK, Phases
  <1>8. WorkerIInv'
    BY <1>1, <1>2, <1>6, NoneIsNoRequest DEF ServiceIInv, WorkerIInv, InHand
  <1>9. QueueIInv'
    <2> USE DEF ServiceIInv, QueueIInv
    <2>1. \A s \in Requests :
            log'[s] # <<>> \/ s = current' => \E i \in 1 .. Len(arrivals') : arrivals'[i] = s
      BY <1>5
    <2>2. \A i \in 1 .. Len(queue') : queue'[i] = arrivals'[Taken' + i]
      <3> SUFFICES ASSUME NEW i \in 1 .. Len(queue')
                   PROVE  queue'[i] = arrivals[Taken' + i]
        OBVIOUS
      <3>1. i + 1 \in 1 .. Len(queue) /\ Taken' + i = Taken + (i + 1)
        BY <1>2, <1>3, <1>4
      <3> QED BY <3>1, <1>2
    <2>3. \A i \in Taken' + 1 .. Len(arrivals') :
            log'[arrivals'[i]] = <<>> /\ arrivals'[i] # current'
      <3> SUFFICES ASSUME NEW i \in Taken' + 1 .. Len(arrivals)
                   PROVE  log[arrivals[i]] = <<>> /\ arrivals[i] # current'
        OBVIOUS
      <3>1. i \in Taken + 1 .. Len(arrivals) /\ i \in 1 .. Len(arrivals) /\ i # Taken + 1
        BY <1>3, <1>4
      <3> QED BY <3>1, <1>5
    <2>4. \A i, j \in 1 .. Len(arrivals') :
            arrivals'[i] = current' /\ i < j => log'[arrivals'[j]] = <<>>
      <3> SUFFICES ASSUME NEW i \in 1 .. Len(arrivals), NEW j \in 1 .. Len(arrivals),
                          arrivals[i] = current', i < j
                   PROVE  log[arrivals[j]] = <<>>
        OBVIOUS
      <3>1. i = Taken + 1
        BY <1>5
      <3>2. j \in Taken + 1 .. Len(arrivals)
        BY <3>1, <1>3, <1>4
      <3> QED BY <3>2
    <2> QED BY <1>4, <2>1, <2>2, <2>3, <2>4
  <1> QED BY <1>7, <1>8, <1>9 DEF ServiceIInv

LEMMA DispatchRequestStep ==
  ASSUME ServiceIInv, DispatchRequest
  PROVE  ServiceIInv'
  <1> USE DEF DispatchRequest, Advance, Lifecycle
  <1>1. current \in Requests /\ current # None
    BY AtWorkIsRequest
  <1>2. /\ log' = [log EXCEPT ![current] = log'[current]]
        /\ log'[current] = <<"request">>
        /\ log' \in [Requests -> Seq(Callbacks)]
    BY <1>1, RecordOnlyCurrent DEF ServiceIInv, WorkerIInv, InHand, Callbacks
  <1>3. ServiceTypeOK'
    BY <1>2 DEF ServiceIInv, ServiceTypeOK, Phases
  <1>4. WorkerIInv'
    BY <1>1, <1>2 DEF ServiceIInv, ServiceTypeOK, WorkerIInv, InHand
  <1>5. QueueIInv'
    BY <1>1, <1>2, RecordingKeepsQueue
  <1> QED BY <1>3, <1>4, <1>5 DEF ServiceIInv

LEMMA BuildResponseStep ==
  ASSUME ServiceIInv, BuildResponse
  PROVE  ServiceIInv'
  <1> USE DEF BuildResponse, Advance, Lifecycle
  <1>1. current \in Requests /\ current # None /\ log[current] = <<"request">>
    BY AtWorkIsRequest DEF ServiceIInv, WorkerIInv, InHand
  <1>2. CASE IsTrackedSportApi(current.api) /\ ~DeferSuccessEvent
    <2>1. /\ log' = [log EXCEPT ![current] = log'[current]]
          /\ log'[current] = <<"request", "event">>
          /\ log' \in [Requests -> Seq(Callbacks)]
      BY <1>1, <1>2, RecordOnlyCurrent DEF ServiceIInv, Callbacks
    <2>2. ServiceTypeOK'
      BY <2>1, <1>2, ServiceAssumption DEF ServiceIInv, ServiceTypeOK, Phases
    <2>3. WorkerIInv'
      BY <1>1, <1>2, <2>1 DEF ServiceIInv, ServiceTypeOK, WorkerIInv, InHand, Told
    <2>4. QueueIInv'
      BY <1>1, <2>1, RecordingKeepsQueue
    <2> QED BY <2>2, <2>3, <2>4 DEF ServiceIInv
  <1>3. CASE ~(IsTrackedSportApi(current.api) /\ ~DeferSuccessEvent)
    <2>1. UNCHANGED <<log, current, queue, arrivals>>
      BY <1>3
    <2>2. ServiceTypeOK'
      BY <2>1, ServiceAssumption DEF ServiceIInv, ServiceTypeOK, Phases
    <2>3. WorkerIInv'
      <3>1. CASE DeferSuccessEvent
        BY <1>1, <2>1, <3>1 DEF ServiceIInv, WorkerIInv, InHand, DeferSuccessEvent
      <3>2. CASE ~IsTrackedSportApi(current.api)
        BY <1>1, <2>1, <3>2 DEF ServiceIInv, WorkerIInv, InHand, Told, DeferSuccessEvent
      <3> QED BY <1>3, <3>1, <3>2
    <2>4. QueueIInv'
      BY <2>1 DEF ServiceIInv, QueueIInv, Taken
    <2> QED BY <2>2, <2>3, <2>4 DEF ServiceIInv
  <1> QED BY <1>2, <1>3

LEMMA DispatchDeferredEventStep ==
  ASSUME ServiceIInv, DispatchDeferredEvent
  PROVE  ServiceIInv'
  <1> USE DEF DispatchDeferredEvent, Advance, Lifecycle
  <1>1. current \in Requests /\ current # None /\ IsTrackedSportApi(current.api)
    BY AtWorkIsRequest DEF ServiceIInv, WorkerIInv
  <1>2. log[current] = <<"request">>
    BY <1>1 DEF ServiceIInv, WorkerIInv, InHand
  <1>3. /\ log' = [log EXCEPT ![current] = log'[current]]
        /\ log'[current] = <<"request", "event">>
        /\ log' \in [Requests -> Seq(Callbacks)]
    BY <1>1, <1>2, RecordOnlyCurrent DEF ServiceIInv, Callbacks
  <1>4. ServiceTypeOK'
    BY <1>3, ServiceAssumption DEF ServiceIInv, ServiceTypeOK, Phases
  <1>5. WorkerIInv'
    BY <1>1, <1>3 DEF ServiceIInv, ServiceTypeOK, WorkerIInv, InHand, Told
  <1>6. QueueIInv'
    BY <1>1, <1>3, RecordingKeepsQueue
  <1> QED BY <1>4, <1>5, <1>6 DEF ServiceIInv

LEMMA CheckStubStep ==
  ASSUME ServiceIInv, CheckStub
  PROVE  ServiceIInv'
  <1> USE DEF CheckStub, Advance, Lifecycle
  <1>1. current # None /\ log[current] = Told(current)
    BY AtWorkIsRequest DEF ServiceIInv, WorkerIInv, InHand
  <1>2. ServiceTypeOK'
    BY DEF ServiceIInv, ServiceTypeOK, Phases
  <1>3. WorkerIInv'
    BY <1>1 DEF ServiceIInv, WorkerIInv, InHand
  <1>4. QueueIInv'
    BY DEF ServiceIInv, QueueIInv, Taken
  <1> QED BY <1>2, <1>3, <1>4 DEF ServiceIInv

LEMMA SendStep ==
  ASSUME ServiceIInv, Send
  PROVE  ServiceIInv'
  <1> USE DEF Send, Advance, Lifecycle
  <1>1. current \in Requests /\ current # None /\ log[current] = Told(current)
    BY AtWorkIsRequest DEF ServiceIInv, WorkerIInv, InHand
  <1>2. CASE mSportServerStub
    <2>1. /\ log' = [log EXCEPT ![current] = log'[current]]
          /\ log'[current] = Append(Told(current), "send")
          /\ log' \in [Requests -> Seq(Callbacks)]
      BY <1>1, <1>2, RecordOnlyCurrent DEF ServiceIInv, Callbacks
    <2>2. ServiceTypeOK'
      BY <1>2, <2>1 DEF ServiceIInv, ServiceTypeOK, Phases
    <2>3. WorkerIInv'
      BY <1>1, <1>2, <2>1 DEF ServiceIInv, ServiceTypeOK, WorkerIInv, InHand
    <2>4. QueueIInv'
      BY <1>1, <1>2, <2>1, RecordingKeepsQueue
    <2> QED BY <2>2, <2>3, <2>4 DEF ServiceIInv
  <1>3. CASE ~mSportServerStub
    <2>1. ServiceTypeOK'
      BY <1>3 DEF ServiceIInv, ServiceTypeOK, Phases
    <2>2. WorkerIInv'
      BY <1>1, <1>3 DEF ServiceIInv, WorkerIInv, InHand
    <2>3. QueueIInv'
      BY <1>3 DEF ServiceIInv, QueueIInv, Taken
    <2> QED BY <2>1, <2>2, <2>3 DEF ServiceIInv
  <1> QED BY <1>2, <1>3

LEMMA DispatchResponseStep ==
  ASSUME ServiceIInv, DispatchResponse
  PROVE  ServiceIInv'
  <1> USE DEF DispatchResponse, Advance, Lifecycle
  <1>1. current \in Requests /\ current # None
    BY AtWorkIsRequest
  <1>2. log[current] \in {Told(current), Append(Told(current), "send")}
    BY <1>1 DEF ServiceIInv, WorkerIInv, InHand
  <1>3. /\ log' = [log EXCEPT ![current] = log'[current]]
        /\ log'[current] = Append(log[current], "response")
        /\ log' \in [Requests -> Seq(Callbacks)]
    BY <1>1, RecordOnlyCurrent DEF ServiceIInv, Callbacks
  <1>4. ServiceTypeOK'
    BY <1>3 DEF ServiceIInv, ServiceTypeOK, Phases
  <1>5. WorkerIInv'
    <2>1. log'[current] \in Finished(current)
      BY <1>2, <1>3 DEF Finished
    <2>2. \A r \in Requests : r # current => log'[r] = log[r]
      BY <1>3 DEF ServiceIInv, ServiceTypeOK
    <2> QED BY <2>1, <2>2 DEF ServiceIInv, WorkerIInv
  <1>6. QueueIInv'
    BY <1>1, <1>3, RecordingKeepsQueue
  <1> QED BY <1>4, <1>5, <1>6 DEF ServiceIInv

LEMMA ElapseStep ==
  ASSUME ServiceIInv, Elapse
  PROVE  ServiceIInv'
  <1> USE DEF Elapse, Lifecycle
  <1>1. ServiceTypeOK'
    BY ServiceAssumption DEF ServiceIInv, ServiceTypeOK
  <1>2. WorkerIInv' /\ QueueIInv'
    BY DEF ServiceIInv, WorkerIInv, QueueIInv, Taken
  <1> QED BY <1>1, <1>2 DEF ServiceIInv

-----------------------------------------------------------------------------
\* The inductive invariant of the service, whoever sends, starts and stops.
THEOREM ServiceInvariance == ServiceSpec => []ServiceIInv
  <1>1. ServiceInit => ServiceIInv
    BY ServiceInitIInv
  <1>2. ServiceIInv /\ [ServiceNext]_serviceVars => ServiceIInv'
    <2> SUFFICES ASSUME ServiceIInv, [ServiceNext]_serviceVars
                 PROVE  ServiceIInv'
      OBVIOUS
    <2>1. CASE Init \/ Start \/ Stop
      BY <2>1, InitStep, StartStep, StopStep
    <2>2. CASE \E r \in Requests : Receive(r)
      BY <2>2, ReceiveStep
    <2>3. CASE Take
      BY <2>3, TakeStep
    <2>4. CASE HandleInterceptedRequest
      BY <2>4, DispatchRequestStep, BuildResponseStep, DispatchDeferredEventStep,
         CheckStubStep, SendStep, DispatchResponseStep DEF HandleInterceptedRequest
    <2>5. CASE Elapse
      BY <2>5, ElapseStep
    <2>6. CASE UNCHANGED serviceVars
      BY <2>6 DEF serviceVars, ServiceIInv, ServiceTypeOK, WorkerIInv, QueueIInv, Taken
    <2> QED BY <2>1, <2>2, <2>3, <2>4, <2>5, <2>6 DEF ServiceNext
  <1> QED BY <1>1, <1>2, PTL DEF ServiceSpec

\* Type correctness for any requests and any delay.
THEOREM ServiceTypeCorrect == ServiceSpec => []ServiceTypeOK
  <1>1. ServiceIInv => ServiceTypeOK
    BY DEF ServiceIInv
  <1> QED BY <1>1, ServiceInvariance, PTL

-----------------------------------------------------------------------------
\* A sequence that agrees with the beginning of another is a prefix of it.
LEMMA PrefixByElements ==
  ASSUME NEW S, NEW s \in Seq(S), NEW t \in Seq(S),
         Len(s) <= Len(t),
         \A i \in 1 .. Len(s) : s[i] = t[i]
  PROVE  IsPrefix(s, t)
  <1>1. Len(s) \in Nat /\ Len(t) \in Nat
    BY LenProperties
  <1>2. \A i \in 1 .. Len(s) : s[i] \in S /\ t[i] \in S
    BY <1>1, ElementOfSeq
  <1>3. /\ SubSeq(s, 1, Len(s)) \in Seq(S) /\ SubSeq(t, 1, Len(s)) \in Seq(S)
        /\ Len(SubSeq(s, 1, Len(s))) = Len(s) /\ Len(SubSeq(t, 1, Len(s))) = Len(s)
        /\ \A i \in 1 .. Len(s) : SubSeq(s, 1, Len(s))[i] = SubSeq(t, 1, Len(s))[i]
    BY <1>1, <1>2, SubSeqProperties
  <1>4. SubSeq(s, 1, Len(s)) = SubSeq(t, 1, Len(s))
    BY <1>3, SeqEqual
  <1> QED BY <1>4 DEF IsPrefix

\* The two courses of a request, written out.
LEMMA ProtocolIsFinished ==
  ASSUME NEW r
  PROVE  Protocol(r) = Finished(r)
  <1>1. CASE IsTrackedSportApi(r.api)
    <2>1. Protocol(r) = {<<"request", "event", "send", "response">>,
                         <<"request", "event", "response">>}
      BY <1>1 DEF Protocol
    <2>2. Finished(r) = {<<"request", "event", "send", "response">>,
                         <<"request", "event", "response">>}
      BY <1>1 DEF Finished, Told
    <2> QED BY <2>1, <2>2
  <1>2. CASE ~IsTrackedSportApi(r.api)
    <2>1. Protocol(r) = {<<"request", "send", "response">>, <<"request", "response">>}
      BY <1>2 DEF Protocol
    <2>2. Finished(r) = {<<"request", "send", "response">>, <<"request", "response">>}
      BY <1>2 DEF Finished, Told
    <2> QED BY <2>1, <2>2
  <1> QED BY <1>1, <1>2

\* Whatever a request in hand has caused is the beginning of one of its courses.
LEMMA InHandIsPrefix ==
  ASSUME NEW r, NEW at \in Phases, NEW s \in InHand(r, at)
  PROVE  \E t \in Finished(r) : IsPrefix(s, t)
  <1> DEFINE t == Append(Append(Told(r), "send"), "response")
             u == Append(Told(r), "response")
  <1>1. CASE s = Append(Told(r), "send")
    <2>1. IsPrefix(s, t)
      <3>1. s \in Seq(Callbacks) /\ t \in Seq(Callbacks)
        BY <1>1 DEF Told, Callbacks
      <3>2. Len(s) <= Len(t) /\ \A i \in 1 .. Len(s) : s[i] = t[i]
        BY <1>1 DEF Told
      <3> QED BY <3>1, <3>2, PrefixByElements
    <2> QED BY <2>1 DEF Finished
  <1>2. CASE s \in {<<>>, <<"request">>, Told(r)}
    <2>1. IsPrefix(s, u)
      <3>1. s \in Seq(Callbacks) /\ u \in Seq(Callbacks)
        <4>1. <<>> \in Seq(Callbacks) /\ <<"request">> \in Seq(Callbacks)
          BY EmptySeq DEF Callbacks
        <4>2. Told(r) \in Seq(Callbacks)
          <5>1. <<"request", "event">> \in Seq(Callbacks)
            BY DEF Callbacks
          <5> QED BY <4>1, <5>1 DEF Told
        <4>3. u \in Seq(Callbacks)
          BY <4>2, AppendProperties DEF Callbacks
        <4> QED BY <1>2, <4>1, <4>2, <4>3
      <3>2. Len(s) <= Len(u) /\ \A i \in 1 .. Len(s) : s[i] = u[i]
        <4>1. CASE s = <<>>
          BY <4>1 DEF Told
        <4>2. CASE s = <<"request">>
          BY <4>2 DEF Told
        <4>3. CASE s = Told(r)
          BY <4>3 DEF Told
        <4> QED BY <1>2, <4>1, <4>2, <4>3
      <3> QED BY <3>1, <3>2, PrefixByElements
    <2> QED BY <2>1 DEF Finished
  <1> QED BY <1>1, <1>2 DEF InHand

\* Each request causes what the protocol says, in its order and each thing once,
\* wherever the owner stops the service.
THEOREM ProtocolFollowed == ServiceSpec => []CallbacksFollowProtocol
  <1>1. ServiceIInv => CallbacksFollowProtocol
    <2> SUFFICES ASSUME ServiceIInv, NEW r \in Requests
                 PROVE  \E t \in Finished(r) : IsPrefix(log[r], t)
      BY ProtocolIsFinished DEF CallbacksFollowProtocol
    <2>1. CASE r = current
      <3>1. log[r] \in InHand(r, phase) /\ phase \in Phases
        BY <2>1, NoneIsNoRequest DEF ServiceIInv, WorkerIInv, ServiceTypeOK
      <3> QED BY <3>1, InHandIsPrefix
    <2>2. CASE log[r] = <<>>
      <3>1. log[r] \in InHand(r, "dispatch") /\ "dispatch" \in Phases
        BY <2>2 DEF InHand, Phases
      <3> QED BY <3>1, InHandIsPrefix
    <2>3. CASE log[r] \in Finished(r)
      <3>1. log[r] \in Seq(Callbacks) /\ Len(log[r]) \in Nat
        BY LenProperties DEF ServiceIInv, ServiceTypeOK
      <3>2. IsPrefix(log[r], log[r])
        BY <3>1, PrefixByElements
      <3> QED BY <2>3, <3>2
    <2> QED BY <2>1, <2>2, <2>3 DEF ServiceIInv, WorkerIInv
  <1> QED BY <1>1, ServiceInvariance, PTL

\* Nothing is handled before all that came earlier is done with or was dropped.
THEOREM InOrder == ServiceSpec => []HandledInOrder
  <1>1. ServiceIInv => HandledInOrder
    <2> SUFFICES ASSUME ServiceIInv,
                        NEW i \in 1 .. Len(arrivals), NEW j \in 1 .. Len(arrivals), i < j,
                        log[arrivals[j]] # <<>>, log[arrivals[i]] # <<>>
                 PROVE  Done(arrivals[i])
      BY DEF HandledInOrder
    <2>1. arrivals[i] \in Requests /\ arrivals[i] # current
      BY ElementOfSeq DEF ServiceIInv, ServiceTypeOK, QueueIInv
    <2>2. log[arrivals[i]] \in Finished(arrivals[i])
      BY <2>1 DEF ServiceIInv, WorkerIInv
    <2> QED BY <2>2 DEF Done, Finished, Told, Last
  <1> QED BY <1>1, ServiceInvariance, PTL

-----------------------------------------------------------------------------
(* What a request does to the robot.                                       *)

\* No API has two handlers in one map: main registers none twice.
LEMMA OneHandlerEach ==
  \A callback : \A a, b \in HandlersOf(callback) : a[1] = b[1] => a = b
  <1>1. \A a, b \in mRequestHandlers : a[1] = b[1] => a = b
    BY DEF mRequestHandlers, RegisterSportRequestHandler
  <1>2. \A a, b \in mEventHandlers : a[1] = b[1] => a = b
    BY DEF mEventHandlers, RegisterSportEventHandler,
           RegisterDampHandler, RegisterMoveHandler, RegisterSwitchMoveModeHandler,
           RegisterSpeedLevelHandler, RegisterBalanceStandHandler, RegisterSwitchGaitHandler,
           RegisterStopMoveHandler, RegisterStandUpHandler, RegisterStandDownHandler,
           RegisterRecoveryStandHandler, RegisterFreeWalkHandler, RegisterVisionWalkHandler,
           RegisterClassicWalkHandler, RegisterFastWalkHandler
  <1> QED BY <1>1, <1>2 DEF HandlersOf

\* Whether a handler that acts is kept under the id.
ActsIn(entries, api) == \E entry \in entries : entry[1] = api /\ entry[2] # LogOnly

LEMMA PosturesAct ==
  \A api : ActsIn(mRequestHandlers, api) <=> RequiresPostureActionDelay(api)
  <1>1. {<<"STANDUP", "StandUp">>, <<"STANDDOWN", "StandDown">>,
         <<"RECOVERYSTAND", "RecoveryStand">>} = mRequestHandlers
    BY DEF mRequestHandlers, RegisterSportRequestHandler
  <1>2. ASSUME NEW api, RequiresPostureActionDelay(api)
        PROVE  ActsIn(mRequestHandlers, api)
    <2>1. \E handler : <<api, handler>> \in mRequestHandlers
      BY <1>1, <1>2 DEF RequiresPostureActionDelay
    <2>2. \A entry \in mRequestHandlers : entry[2] # LogOnly
      BY <1>1 DEF LogOnly
    <2> QED BY <2>1, <2>2 DEF ActsIn
  <1>3. ASSUME NEW api, ActsIn(mRequestHandlers, api)
        PROVE  RequiresPostureActionDelay(api)
    BY <1>1, <1>3 DEF ActsIn, RequiresPostureActionDelay
  <1> QED BY <1>2, <1>3

LEMMA OthersAct ==
  \A api : ActsIn(mEventHandlers, api) <=> IsTrackedSportApi(api) /\ ~RequiresPostureActionDelay(api)
  <1> DEFINE acting ==
        {<<"DAMP", "Damp">>, <<"MOVE", "Move">>, <<"SWITCHMOVEMODE", "SwitchMoveMode">>,
         <<"SPEEDLEVEL", "SpeedLevel">>, <<"BALANCESTAND", "BalanceStand">>,
         <<"SWITCHGAIT", "SwitchGait">>, <<"STOPMOVE", "StopMove">>,
         <<"FREEWALK", "FreeWalk">>, <<"B2_FREEWALK", "FreeWalk">>, <<"VISIONWALK", "VisionWalk">>,
         <<"CLASSICWALK", "ClassicWalk">>, <<"B2_CLASSICWALK", "ClassicWalk">>,
         <<"FASTWALK", "FastWalk">>}
  <1>1. mEventHandlers = acting \cup {<<"STANDUP", LogOnly>>, <<"STANDDOWN", LogOnly>>,
                                      <<"RECOVERYSTAND", LogOnly>>}
    BY DEF mEventHandlers, RegisterSportEventHandler,
           RegisterDampHandler, RegisterMoveHandler, RegisterSwitchMoveModeHandler,
           RegisterSpeedLevelHandler, RegisterBalanceStandHandler, RegisterSwitchGaitHandler,
           RegisterStopMoveHandler, RegisterStandUpHandler, RegisterStandDownHandler,
           RegisterRecoveryStandHandler, RegisterFreeWalkHandler, RegisterVisionWalkHandler,
           RegisterClassicWalkHandler, RegisterFastWalkHandler
  <1>2. acting \subseteq mEventHandlers /\ \A entry \in acting : entry[2] # LogOnly
    <2>1. \A entry \in acting : entry[2] # LogOnly
      BY DEF LogOnly
    <2> HIDE DEF acting
    <2> QED BY <2>1, <1>1
  <1>3. ASSUME NEW api, IsTrackedSportApi(api), ~RequiresPostureActionDelay(api)
        PROVE  \E entry \in acting : entry[1] = api
    <2>1. \E handler : <<api, handler>> \in acting
      BY <1>3 DEF IsTrackedSportApi, TrackedApis, RequiresPostureActionDelay
    <2> HIDE DEF acting
    <2> QED BY <2>1
  <1>4. ASSUME NEW api, ActsIn(mEventHandlers, api)
        PROVE  IsTrackedSportApi(api) /\ ~RequiresPostureActionDelay(api)
    BY <1>1, <1>4 DEF ActsIn, IsTrackedSportApi, TrackedApis, RequiresPostureActionDelay
  <1> HIDE DEF acting
  <1> QED BY <1>2, <1>3, <1>4 DEF ActsIn

\* A posture acts when its request comes, any other tracked API when its event
\* does, and no other API at all.
LEMMA WhenApisAct ==
  ASSUME NEW api \in ApiIds
  PROVE  /\ Acts("request", api) <=> RequiresPostureActionDelay(api)
         /\ Acts("event", api) <=> IsTrackedSportApi(api) /\ ~RequiresPostureActionDelay(api)
         /\ ~Acts("send", api) /\ ~Acts("response", api)
         /\ RequiresPostureActionDelay(api) => IsTrackedSportApi(api)
  <1>1. /\ Acts("request", api) <=> ActsIn(mRequestHandlers, api)
        /\ Acts("event", api) <=> ActsIn(mEventHandlers, api)
        /\ Acts("send", api) <=> ActsIn({}, api)
        /\ Acts("response", api) <=> ActsIn({}, api)
    BY DEF Acts, HandlersOf, ActsIn
  <1>2. ActsIn(mRequestHandlers, api) <=> RequiresPostureActionDelay(api)
    BY PosturesAct
  <1>3. ActsIn(mEventHandlers, api) <=> IsTrackedSportApi(api) /\ ~RequiresPostureActionDelay(api)
    BY OthersAct
  <1>4. ~ActsIn({}, api)
    BY DEF ActsIn
  <1>5. RequiresPostureActionDelay(api) => IsTrackedSportApi(api)
    BY DEF RequiresPostureActionDelay, IsTrackedSportApi, TrackedApis
  <1> QED BY <1>1, <1>2, <1>3, <1>4, <1>5

\* The places in what a request has caused at which it acted.
ActedAt(s, api) == {i \in 1 .. Len(s) : Acts(s[i], api)}

Due(api) == IF IsTrackedSportApi(api) THEN 1 ELSE 0

\* Once told of all it is to be told of, the program has acted as often as is due;
\* sending and the response add nothing.
LEMMA ActedWhenTold ==
  ASSUME NEW r \in Requests, NEW s \in {Told(r), Append(Told(r), "send")} \cup Finished(r)
  PROVE  Cardinality(ActedAt(s, r.api)) = Due(r.api)
  <1>1. /\ r.api \in ApiIds
        /\ Acts("request", r.api) <=> RequiresPostureActionDelay(r.api)
        /\ Acts("event", r.api) <=> IsTrackedSportApi(r.api) /\ ~RequiresPostureActionDelay(r.api)
        /\ ~Acts("send", r.api) /\ ~Acts("response", r.api)
        /\ RequiresPostureActionDelay(r.api) => IsTrackedSportApi(r.api)
    BY WhenApisAct, ServiceAssumption
  <1>2. CASE IsTrackedSportApi(r.api)
    <2>1. s \in {<<"request", "event">>, <<"request", "event", "send">>,
                 <<"request", "event", "response">>, <<"request", "event", "send", "response">>}
      BY <1>2 DEF Told, Finished
    <2>2. ActedAt(s, r.api) = IF RequiresPostureActionDelay(r.api) THEN {1} ELSE {2}
      BY <1>1, <1>2, <2>1 DEF ActedAt
    <2>3. Cardinality({1}) = 1 /\ Cardinality({2}) = 1
      BY FS_Singleton
    <2> QED BY <1>2, <2>2, <2>3 DEF Due
  <1>3. CASE ~IsTrackedSportApi(r.api)
    <2>1. s \in {<<"request">>, <<"request", "send">>,
                 <<"request", "response">>, <<"request", "send", "response">>}
      BY <1>3 DEF Told, Finished
    <2>2. ActedAt(s, r.api) = {}
      BY <1>1, <1>3, <2>1 DEF ActedAt
    <2> QED BY <1>3, <2>2, FS_EmptySet DEF Due
  <1> QED BY <1>2, <1>3

\* Before that it has acted if a posture was asked for.
LEMMA ActedWhenRequested ==
  ASSUME NEW r \in Requests
  PROVE  /\ Cardinality(ActedAt(<<>>, r.api)) = 0
         /\ Cardinality(ActedAt(<<"request">>, r.api)) <= Due(r.api)
         /\ RequiresPostureActionDelay(r.api) =>
              Cardinality(ActedAt(<<"request">>, r.api)) = Due(r.api)
  <1>1. /\ Acts("request", r.api) <=> RequiresPostureActionDelay(r.api)
        /\ RequiresPostureActionDelay(r.api) => IsTrackedSportApi(r.api)
    BY WhenApisAct, ServiceAssumption
  <1>2. ActedAt(<<>>, r.api) = {}
    BY DEF ActedAt
  <1>3. ActedAt(<<"request">>, r.api) = IF RequiresPostureActionDelay(r.api) THEN {1} ELSE {}
    BY <1>1 DEF ActedAt
  <1>4. Cardinality({}) = 0 /\ Cardinality({1}) = 1
    BY FS_EmptySet, FS_Singleton
  <1>5. CASE RequiresPostureActionDelay(r.api)
    <2>1. ActedAt(<<"request">>, r.api) = {1} /\ Due(r.api) = 1
      BY <1>1, <1>3, <1>5 DEF Due
    <2>2. Cardinality(ActedAt(<<"request">>, r.api)) = 1 /\ Cardinality(ActedAt(<<>>, r.api)) = 0
      BY <2>1, <1>2, <1>4, Zenon
    <2> QED BY <2>1, <2>2
  <1>6. CASE ~RequiresPostureActionDelay(r.api)
    <2>1. ActedAt(<<"request">>, r.api) = {} /\ Due(r.api) \in {0, 1}
      BY <1>3, <1>6 DEF Due
    <2>2. Cardinality(ActedAt(<<"request">>, r.api)) = 0 /\ Cardinality(ActedAt(<<>>, r.api)) = 0
      BY <2>1, <1>2, <1>4, Zenon
    <2> QED BY <2>1, <2>2, <1>6
  <1> QED BY <1>5, <1>6

\* A request for a tracked API has acted once when it is answered, a posture before
\* its worker sleeps, whichever callback its handler hangs on; no other acts.
THEOREM ActsOnce == ServiceSpec => []ActsOnceBeforeAnswer
  <1>1. ServiceIInv => ActsOnceBeforeAnswer
    <2> SUFFICES ASSUME ServiceIInv, NEW r \in Requests
                 PROVE  /\ Cardinality(ActedAt(log[r], r.api)) <= Due(r.api)
                        /\ \/ current = r /\ phase = "sleep"
                           \/ Contains(log[r], "send") \/ Done(r)
                           => Cardinality(ActedAt(log[r], r.api)) = Due(r.api)
      BY DEF ActsOnceBeforeAnswer, TimesActed, ActedAt, Due
    <2>1. CASE log[r] \in {Told(r), Append(Told(r), "send")} \cup Finished(r)
      BY <2>1, ActedWhenTold DEF Due
    <2>2. CASE log[r] \in {<<>>, <<"request">>}
      <3>1. ~Contains(log[r], "send") /\ ~Done(r)
        BY <2>2 DEF Contains, Done, Last
      <3>2. current = r /\ phase = "sleep" =>
              log[r] = <<"request">> /\ RequiresPostureActionDelay(r.api)
        BY NoneIsNoRequest DEF ServiceIInv, WorkerIInv, InHand
      <3> QED BY <2>2, <3>1, <3>2, ActedWhenRequested DEF Due
    <2> QED BY <2>1, <2>2, NoneIsNoRequest DEF ServiceIInv, WorkerIInv, InHand
  <1> QED BY <1>1, ServiceInvariance, PTL

-----------------------------------------------------------------------------
(* The service keeps the promise of SportService.                          *)

\* What a request has done and whether it is answered is read off its own log.
LEMMA ReadOffTheLog ==
  /\ timesActed = [r \in Requests |-> Cardinality(ActedAt(log[r], r.api))]
  /\ answered = {r \in Requests : Contains(log[r], "send")}
  /\ timesActed' = [r \in Requests |-> Cardinality(ActedAt(log'[r], r.api))]
  /\ answered' = {r \in Requests : Contains(log'[r], "send")}
  BY DEF timesActed, TimesActed, ActedAt, answered

\* So that a step which records something of the request in hand changes both for
\* that request alone.
LEMMA RecordingActs ==
  ASSUME ServiceIInv, current \in Requests,
         log' = [log EXCEPT ![current] = log'[current]],
         NEW n, Cardinality(ActedAt(log'[current], current.api)) = n
  PROVE  /\ timesActed' = [timesActed EXCEPT ![current] = n]
         /\ answered' = IF Contains(log'[current], "send")
                        THEN answered \cup {current} ELSE answered \ {current}
         /\ timesActed[current] = Cardinality(ActedAt(log[current], current.api))
         /\ current \in answered <=> Contains(log[current], "send")
  <1>1. \A r \in Requests : r # current => log'[r] = log[r]
    BY DEF ServiceIInv, ServiceTypeOK
  <1>2. ASSUME NEW r \in Requests
        PROVE  timesActed'[r] = IF r = current THEN n ELSE timesActed[r]
    BY <1>1, ReadOffTheLog
  <1>3. timesActed' = [r \in Requests |-> IF r = current THEN n ELSE timesActed[r]]
    <2>1. timesActed' = [r \in Requests |-> timesActed'[r]]
      BY ReadOffTheLog
    <2> QED BY <1>2, <2>1, Zenon
  <1>4. timesActed' = [timesActed EXCEPT ![current] = n]
    BY <1>3, ReadOffTheLog
  <1>5. ASSUME NEW r
        PROVE  r \in answered' <=>
                 IF r = current THEN Contains(log'[current], "send") ELSE r \in answered
    BY <1>1, ReadOffTheLog
  <1>6. answered' = IF Contains(log'[current], "send")
                    THEN answered \cup {current} ELSE answered \ {current}
    BY <1>5
  <1> QED BY <1>4, <1>6, ReadOffTheLog

\* The lists an answer is or is not in.
LEMMA AnswersInLists ==
  ASSUME NEW r \in Requests
  PROVE  /\ \A s \in {<<>>, <<"request">>, <<"request", "event">>, Told(r),
                      Append(Told(r), "response")} : ~Contains(s, "send")
         /\ \A s \in {Append(Told(r), "send"),
                      Append(Append(Told(r), "send"), "response")} : Contains(s, "send")
  <1>1. ASSUME NEW s \in {<<>>, <<"request">>, <<"request", "event">>, Told(r),
                          Append(Told(r), "response")}
        PROVE  ~Contains(s, "send")
    BY DEF Contains, Told
  <1>2. Told(r) \in Seq(Callbacks) /\ "send" \in Callbacks /\ "response" \in Callbacks
    <2>1. <<"request">> \in Seq(Callbacks) /\ <<"request", "event">> \in Seq(Callbacks)
      BY DEF Callbacks
    <2> QED BY <2>1, Zenon DEF Told, Callbacks
  <1> DEFINE sent == Append(Told(r), "send")
             ended == Append(sent, "response")
  <1>3. sent \in Seq(Callbacks) /\ Len(sent) \in 1 .. Len(sent) /\ sent[Len(sent)] = "send"
    BY <1>2, AppendProperties, LenProperties
  <1> HIDE DEF sent
  <1>4. Len(sent) \in 1 .. Len(ended) /\ ended[Len(sent)] = "send"
    BY <1>2, <1>3, AppendProperties, LenProperties
  <1>5. Contains(sent, "send") /\ Contains(ended, "send")
    BY <1>3, <1>4 DEF Contains
  <1> QED BY <1>1, <1>5 DEF sent

\* A step that leaves the queue, the request in hand and the log alone.
LEMMA UnseenStep ==
  ASSUME UNCHANGED <<queue, current, log>>
  PROVE  UNCHANGED Promise!promiseVars
  BY ReadOffTheLog DEF Promise!promiseVars

LEMMA ReceiveIsArrive ==
  ASSUME NEW r \in Requests, Receive(r)
  PROVE  Promise!Arrive
  <1>1. UNCHANGED <<timesActed, answered>>
    BY ReadOffTheLog DEF Receive
  <1> QED BY <1>1 DEF Receive, Worker, Promise!Arrive

LEMMA StopIsForget ==
  ASSUME Stop
  PROVE  Promise!Forget
  <1>1. UNCHANGED <<timesActed, answered>>
    BY ReadOffTheLog DEF Stop
  <1> QED BY <1>1 DEF Stop, Worker, Promise!Forget

\* What is taken has done nothing yet.
LEMMA TakeIsBegin ==
  ASSUME ServiceIInv, Take
  PROVE  Promise!Begin
  <1>1. UNCHANGED <<timesActed, answered>>
    BY ReadOffTheLog DEF Take
  <1>2. current = None /\ current' = Head(queue) /\ queue' = Tail(queue) /\ queue # <<>>
    BY DEF Take, ServiceIInv, WorkerIInv
  <1>3. current' \in Requests /\ log[current'] = <<>>
    <2>1. Len(queue) \in Nat \ {0} /\ Len(arrivals) \in Nat /\ current' = queue[1]
      BY <1>2, LenProperties, EmptySeq, HeadTailProperties DEF ServiceIInv, ServiceTypeOK
    <2>2. Taken + 1 \in Taken + 1 .. Len(arrivals) /\ current' = arrivals[Taken + 1]
      BY <2>1 DEF ServiceIInv, QueueIInv, Taken
    <2>3. current' \in Requests
      BY <2>1, ElementOfSeq DEF ServiceIInv, ServiceTypeOK
    <2> QED BY <2>2, <2>3 DEF ServiceIInv, QueueIInv
  <1>4. timesActed[current'] = 0 /\ current' \notin answered
    BY <1>3, ActedWhenRequested, AnswersInLists, ReadOffTheLog
  <1> QED BY <1>1, <1>2, <1>4 DEF Promise!Begin

\* A request that is no posture does nothing when it is dispatched.
LEMMA OthersHaveYetToAct ==
  ASSUME NEW r \in Requests, ~RequiresPostureActionDelay(r.api)
  PROVE  Cardinality(ActedAt(<<"request">>, r.api)) = 0
  <1>1. ActedAt(<<"request">>, r.api) = {}
    BY WhenApisAct, ServiceAssumption DEF ActedAt
  <1> QED BY <1>1, FS_EmptySet

\* A posture acts when its request is dispatched.
LEMMA DispatchRequestActs ==
  ASSUME ServiceIInv, DispatchRequest
  PROVE  Promise!Act \/ UNCHANGED Promise!promiseVars
  <1>1. current \in Requests /\ current # None /\ log[current] = <<>>
    BY AtWorkIsRequest DEF DispatchRequest, ServiceIInv, WorkerIInv, InHand
  <1>2. /\ log' = [log EXCEPT ![current] = log'[current]]
        /\ log'[current] = <<"request">> /\ UNCHANGED <<queue, current>>
    BY <1>1, RecordOnlyCurrent DEF DispatchRequest, Advance, ServiceIInv, Callbacks
  <1>3. /\ timesActed[current] = 0 /\ current \notin answered
        /\ answered' = answered \ {current}
    BY <1>1, <1>2, RecordingActs, ActedWhenRequested, AnswersInLists
  <1>4. answered' = answered
    BY <1>3
  <1>5. CASE RequiresPostureActionDelay(current.api)
    <2>1. Cardinality(ActedAt(<<"request">>, current.api)) = 1 /\ IsTrackedSportApi(current.api)
      BY <1>1, <1>5, ActedWhenRequested, WhenApisAct, ServiceAssumption DEF Due
    <2>2. timesActed' = [timesActed EXCEPT ![current] = 1]
      BY <1>1, <1>2, <2>1, RecordingActs
    <2> QED BY <1>1, <1>2, <1>3, <1>4, <2>1, <2>2 DEF Promise!Act
  <1>6. CASE ~RequiresPostureActionDelay(current.api)
    <2>1. Cardinality(ActedAt(<<"request">>, current.api)) = 0
      BY <1>1, <1>6, OthersHaveYetToAct
    <2>2. timesActed' = [timesActed EXCEPT ![current] = 0]
      BY <1>1, <1>2, <2>1, RecordingActs
    <2>3. timesActed' = timesActed
      BY <1>1, <1>3, <2>2, ReadOffTheLog
    <2> QED BY <1>2, <1>4, <2>3 DEF Promise!promiseVars
  <1> QED BY <1>5, <1>6

\* Every other tracked request acts with its event, unless that is held back.
LEMMA BuildResponseActs ==
  ASSUME ServiceIInv, BuildResponse
  PROVE  Promise!Act \/ UNCHANGED Promise!promiseVars
  <1>1. current \in Requests /\ current # None /\ log[current] = <<"request">>
    BY AtWorkIsRequest DEF BuildResponse, ServiceIInv, WorkerIInv, InHand
  <1>2. UNCHANGED <<queue, current>>
    BY DEF BuildResponse, Advance
  <1>3. CASE IsTrackedSportApi(current.api) /\ ~DeferSuccessEvent
    <2>1. /\ log' = [log EXCEPT ![current] = log'[current]]
          /\ log'[current] = <<"request", "event">>
      BY <1>1, <1>3, RecordOnlyCurrent DEF BuildResponse, ServiceIInv, Callbacks
    <2>2. log'[current] = Told(current) /\ ~RequiresPostureActionDelay(current.api)
      BY <1>3, <2>1 DEF Told, DeferSuccessEvent
    <2>3. Cardinality(ActedAt(log'[current], current.api)) = 1
      BY <1>1, <1>3, <2>2, ActedWhenTold DEF Due
    <2>4. timesActed' = [timesActed EXCEPT ![current] = 1] /\ answered' = answered \ {current}
      BY <1>1, <2>1, <2>2, <2>3, RecordingActs, AnswersInLists
    <2>5. timesActed[current] = 0 /\ current \notin answered
      BY <1>1, <2>2, OthersHaveYetToAct, AnswersInLists, ReadOffTheLog
    <2>6. answered' = answered
      BY <2>4, <2>5
    <2> QED BY <1>1, <1>2, <1>3, <2>4, <2>5, <2>6 DEF Promise!Act
  <1>4. CASE ~(IsTrackedSportApi(current.api) /\ ~DeferSuccessEvent)
    BY <1>2, <1>4, UnseenStep DEF BuildResponse
  <1> QED BY <1>3, <1>4

\* The event of a posture, when it comes, does nothing more.
LEMMA DeferredEventIsUnseen ==
  ASSUME ServiceIInv, DispatchDeferredEvent
  PROVE  UNCHANGED Promise!promiseVars
  <1>1. /\ current \in Requests /\ current # None /\ log[current] = <<"request">>
        /\ IsTrackedSportApi(current.api) /\ RequiresPostureActionDelay(current.api)
    BY AtWorkIsRequest DEF DispatchDeferredEvent, ServiceIInv, WorkerIInv, InHand
  <1>2. /\ log' = [log EXCEPT ![current] = log'[current]]
        /\ log'[current] = Told(current) /\ UNCHANGED <<queue, current>>
    BY <1>1, RecordOnlyCurrent DEF DispatchDeferredEvent, Advance, ServiceIInv, Callbacks, Told
  <1>3. /\ Cardinality(ActedAt(log[current], current.api)) = 1
        /\ Cardinality(ActedAt(log'[current], current.api)) = 1
    BY <1>1, <1>2, ActedWhenRequested, ActedWhenTold DEF Due
  <1>4. /\ timesActed' = [timesActed EXCEPT ![current] = 1] /\ timesActed[current] = 1
        /\ answered' = answered \ {current} /\ current \notin answered
    BY <1>1, <1>2, <1>3, RecordingActs, AnswersInLists
  <1>5. timesActed' = timesActed /\ answered' = answered
    BY <1>1, <1>4, ReadOffTheLog
  <1> QED BY <1>2, <1>5 DEF Promise!promiseVars

\* With all told that is to be told, the request in hand has had its effect.
LEMMA ToldIsServed ==
  ASSUME ServiceIInv, current \in Requests,
         log[current] \in {Told(current), Append(Told(current), "send")}
  PROVE  Promise!Served /\ timesActed[current] = Due(current.api)
  <1>1. timesActed[current] = Due(current.api)
    BY ActedWhenTold, ReadOffTheLog
  <1>2. current # None
    BY NoneIsNoRequest
  <1> QED BY <1>1, <1>2 DEF Promise!Served, Due

\* A response sent is an answer.  If the stub is gone nothing happens that a client
\* could tell.
LEMMA SendIsAnswer ==
  ASSUME ServiceIInv, Send
  PROVE  Promise!Answer \/ UNCHANGED Promise!promiseVars
  <1>1. current \in Requests /\ log[current] = Told(current)
    BY AtWorkIsRequest DEF Send, ServiceIInv, WorkerIInv, InHand
  <1>2. UNCHANGED <<queue, current>>
    BY DEF Send, Advance
  <1>3. CASE mSportServerStub
    <2>1. /\ log' = [log EXCEPT ![current] = log'[current]]
          /\ log'[current] = Append(Told(current), "send")
      BY <1>1, <1>3, RecordOnlyCurrent DEF Send, ServiceIInv, Callbacks
    <2>2. Promise!Served /\ timesActed[current] = Due(current.api)
      BY <1>1, ToldIsServed
    <2>3. Cardinality(ActedAt(log'[current], current.api)) = Due(current.api)
      BY <1>1, <2>1, ActedWhenTold
    <2>4. /\ timesActed' = [timesActed EXCEPT ![current] = Due(current.api)]
          /\ answered' = answered \cup {current} /\ current \notin answered
      BY <1>1, <2>1, <2>3, RecordingActs, AnswersInLists
    <2>5. timesActed' = timesActed
      BY <1>1, <2>2, <2>4, ReadOffTheLog
    <2> QED BY <1>2, <2>2, <2>4, <2>5 DEF Promise!Answer
  <1>4. CASE ~mSportServerStub
    BY <1>2, <1>4, UnseenStep DEF Send
  <1> QED BY <1>3, <1>4

LEMMA ResponseIsFinish ==
  ASSUME ServiceIInv, DispatchResponse
  PROVE  Promise!Finish
  <1>1. /\ current \in Requests
        /\ log[current] \in {Told(current), Append(Told(current), "send")}
    BY AtWorkIsRequest DEF DispatchResponse, ServiceIInv, WorkerIInv, InHand
  <1>2. /\ log' = [log EXCEPT ![current] = log'[current]]
        /\ log'[current] = Append(log[current], "response")
        /\ current' = None /\ UNCHANGED queue
    BY <1>1, RecordOnlyCurrent DEF DispatchResponse, Advance, ServiceIInv, Callbacks
  <1>3. Promise!Served /\ timesActed[current] = Due(current.api)
    BY <1>1, ToldIsServed
  <1>4. Cardinality(ActedAt(log'[current], current.api)) = Due(current.api)
    BY <1>1, <1>2, ActedWhenTold DEF Finished
  <1>5. Contains(log'[current], "send") <=> Contains(log[current], "send")
    BY <1>1, <1>2, AnswersInLists
  <1>6. /\ timesActed' = [timesActed EXCEPT ![current] = Due(current.api)]
        /\ answered' = IF Contains(log[current], "send")
                       THEN answered \cup {current} ELSE answered \ {current}
        /\ current \in answered <=> Contains(log[current], "send")
    BY <1>1, <1>2, <1>4, <1>5, RecordingActs
  <1>7. timesActed' = timesActed /\ answered' = answered
    BY <1>1, <1>3, <1>6, ReadOffTheLog
  <1> QED BY <1>2, <1>3, <1>7 DEF Promise!Finish

LEMMA PromiseInitially ==
  ASSUME ServiceInit
  PROVE  Promise!PromiseInit
  <1>1. \A r \in Requests : log[r] = <<>>
    BY DEF ServiceInit
  <1>2. \A r \in Requests : Cardinality(ActedAt(<<>>, r.api)) = 0 /\ ~Contains(<<>>, "send")
    BY ActedWhenRequested, AnswersInLists
  <1>3. timesActed = [r \in Requests |-> 0] /\ answered = {}
    BY <1>1, <1>2, ReadOffTheLog
  <1> QED BY <1>3 DEF ServiceInit, Promise!PromiseInit

\* The service implements SportService, for any requests and any delay: whatever the
\* owner does to the stub, requests are served one at a time and in order, and each
\* has its effect once and before its answer.
THEOREM ServiceRefinesPromise == ServiceSpec => KeepsPromise
  <1>1. ServiceInit => Promise!PromiseInit
    BY PromiseInitially
  <1>2. ServiceIInv /\ [ServiceNext]_serviceVars => [Promise!PromiseNext]_(Promise!promiseVars)
    <2> SUFFICES ASSUME ServiceIInv, [ServiceNext]_serviceVars
                 PROVE  Promise!PromiseNext \/ UNCHANGED Promise!promiseVars
      OBVIOUS
    <2>1. CASE Init \/ Start \/ CheckStub \/ Elapse
      <3>1. UNCHANGED <<queue, current, log>>
        BY <2>1 DEF Init, Start, CheckStub, Elapse, Advance, Worker
      <3> QED BY <3>1, UnseenStep
    <2>2. CASE Stop
      BY <2>2, StopIsForget DEF Promise!PromiseNext
    <2>3. CASE \E r \in Requests : Receive(r)
      BY <2>3, ReceiveIsArrive DEF Promise!PromiseNext
    <2>4. CASE Take
      BY <2>4, TakeIsBegin DEF Promise!PromiseNext
    <2>5. CASE DispatchRequest
      BY <2>5, DispatchRequestActs DEF Promise!PromiseNext
    <2>6. CASE BuildResponse
      BY <2>6, BuildResponseActs DEF Promise!PromiseNext
    <2>7. CASE DispatchDeferredEvent
      BY <2>7, DeferredEventIsUnseen
    <2>8. CASE Send
      BY <2>8, SendIsAnswer DEF Promise!PromiseNext
    <2>9. CASE DispatchResponse
      BY <2>9, ResponseIsFinish DEF Promise!PromiseNext
    <2>10. CASE UNCHANGED serviceVars
      BY <2>10, UnseenStep DEF serviceVars
    <2> QED BY <2>1, <2>2, <2>3, <2>4, <2>5, <2>6, <2>7, <2>8, <2>9, <2>10
            DEF ServiceNext, HandleInterceptedRequest
  <1> QED BY <1>1, <1>2, ServiceInvariance, PTL
          DEF ServiceSpec, KeepsPromise, Promise!PromiseSpec

-----------------------------------------------------------------------------
(* How long a request waits.                                               *)

Delay == POSTURE_ACTION_RESPONSE_DELAY

IsPosture(i) == RequiresPostureActionDelay(arrivals[i].api)

\* The places of the posture requests that came before the k-th request.
Ahead(k) == {i \in 1 .. k - 1 : IsPosture(i)}

\* Those that left the queue, but for one that the worker has yet to sleep for: the
\* others have slept, or were dropped and never will.
YetToSleep(i) == arrivals[i] = current /\ phase \in {"dispatch", "build", "sleep"}

SleptFor == {i \in 1 .. Taken : IsPosture(i) /\ ~YetToSleep(i)}

Asleep == IF phase = "sleep" THEN slept ELSE 0

Bound == Delay * Cardinality(SleptFor) + Asleep

\* A request in the queue has waited for those that have slept and for the one
\* asleep, at most; one that has left it, for the postures ahead.
WaitIInv ==
  /\ \A r \in Requests : waited[r] = 0 \/ \E k \in 1 .. Len(arrivals) : arrivals[k] = r
  /\ \A k \in 1 .. Taken : waited[arrivals[k]] <= Delay * Cardinality(Ahead(k))
  /\ \A k \in Taken + 1 .. Len(arrivals) : waited[arrivals[k]] <= Bound

LEMMA Times ==
  ASSUME NEW d \in Nat, NEW a \in Nat, NEW b \in Nat
  PROVE  /\ d * a \in Nat /\ d * (a + 1) = d * a + d
         /\ a <= b => d * a <= d * b
  <1>1. d * a \in Nat /\ d * (a + 1) = d * a + d
    OBVIOUS
  <1>2. ASSUME a <= b
        PROVE  d * a <= d * b
    <2>1. PICK c \in Nat : b = a + c
      <3>1. b - a \in Nat /\ b = a + (b - a)
        BY <1>2
      <3> QED BY <3>1
    <2>2. d * b = d * a + d * c /\ d * c \in Nat /\ d * a \in Nat
      BY <2>1
    <2> QED BY <2>2
  <1> QED BY <1>1, <1>2

\* A sleep more makes up for the time into the next one.
LEMMA MoreSleep ==
  ASSUME NEW d \in Nat, NEW n \in Nat, NEW m \in Nat, NEW a \in 0 .. d, NEW b \in 0 .. d,
         n <= m, a <= b \/ n + 1 <= m
  PROVE  d * n + a <= d * m + b
  <1> DEFINE p == d * n
             q == d * m
  <1>1. d * n \in Nat /\ d * m \in Nat /\ d * n <= d * m
    BY Times
  <1>2. n + 1 <= m => d * n + d <= d * m
    <2>1. d * (n + 1) = d * n + d /\ (n + 1 <= m => d * (n + 1) <= d * m)
      BY Times
    <2> QED BY <2>1
  <1>3. p \in Nat /\ q \in Nat /\ p <= q /\ (n + 1 <= m => p + d <= q)
    BY <1>1, <1>2
  <1> HIDE DEF p, q
  <1>4. p + a <= q + b
    BY <1>3
  <1> QED BY <1>4 DEF p, q

\* A subset has no more elements, and fewer if one is missing.
LEMMA FewerInSubset ==
  ASSUME NEW T, IsFiniteSet(T), NEW S, S \subseteq T
  PROVE  /\ Cardinality(S) \in Nat /\ Cardinality(T) \in Nat
         /\ Cardinality(S) <= Cardinality(T)
         /\ \A x \in T \ S : Cardinality(S) + 1 <= Cardinality(T)
  <1>1. IsFiniteSet(S) /\ Cardinality(S) <= Cardinality(T)
    BY FS_Subset
  <1>2. Cardinality(S) \in Nat /\ Cardinality(T) \in Nat
    BY <1>1, FS_CardinalityType
  <1>3. ASSUME NEW x \in T \ S
        PROVE  Cardinality(S) + 1 <= Cardinality(T)
    <2>1. Cardinality(S \cup {x}) = Cardinality(S) + 1
      BY <1>1, <1>3, FS_AddElement
    <2>2. S \cup {x} \subseteq T
      BY <1>3
    <2>3. Cardinality(S \cup {x}) <= Cardinality(T)
      BY <2>2, FS_Subset
    <2> QED BY <2>1, <2>3
  <1> QED BY <1>1, <1>2, <1>3

LEMMA PlacesAreFinite ==
  ASSUME ServiceIInv
  PROVE  /\ Taken \in Nat /\ Len(arrivals) \in Nat /\ Taken <= Len(arrivals)
         /\ IsFiniteSet(SleptFor) /\ Cardinality(SleptFor) \in Nat
         /\ \A k \in Nat : IsFiniteSet(Ahead(k)) /\ Cardinality(Ahead(k)) \in Nat
         /\ Delay \in Nat /\ slept \in 0 .. Delay
         /\ \A k \in 1 .. Len(arrivals) : arrivals[k] \in Requests /\ waited[arrivals[k]] \in Nat
  <1>1. Taken \in Nat /\ Len(arrivals) \in Nat /\ Taken <= Len(arrivals)
    BY LenProperties DEF ServiceIInv, ServiceTypeOK, QueueIInv, Taken
  <1>2. SleptFor \subseteq 1 .. Taken
    BY DEF SleptFor
  <1>3. \A k \in Nat : Ahead(k) \subseteq 1 .. k - 1 /\ k - 1 \in Int
    BY DEF Ahead
  <1>4. Delay \in Nat /\ slept \in 0 .. Delay
    BY ServiceAssumption DEF Delay, ServiceIInv, ServiceTypeOK
  <1>5. \A k \in 1 .. Len(arrivals) : arrivals[k] \in Requests /\ waited[arrivals[k]] \in Nat
    BY ElementOfSeq DEF ServiceIInv, ServiceTypeOK
  <1>6. IsFiniteSet(SleptFor) /\ Cardinality(SleptFor) \in Nat
    <2>1. IsFiniteSet(1 .. Taken)
      BY <1>1, FS_Interval
    <2>2. IsFiniteSet(SleptFor)
      BY <1>2, <2>1, FS_Subset
    <2> QED BY <2>2, FS_CardinalityType
  <1>7. ASSUME NEW k \in Nat
        PROVE  IsFiniteSet(Ahead(k)) /\ Cardinality(Ahead(k)) \in Nat
    <2>1. IsFiniteSet(1 .. k - 1)
      BY <1>3, FS_Interval
    <2>2. IsFiniteSet(Ahead(k))
      BY <1>3, <2>1, FS_Subset
    <2> QED BY <2>2, FS_CardinalityType
  <1> QED BY <1>1, <1>4, <1>5, <1>6, <1>7

\* Where the request in hand stands: it has left the queue.
LEMMA CurrentIsTaken ==
  ASSUME ServiceIInv, phase # "idle"
  PROVE  \E c \in 1 .. Taken : arrivals[c] = current
  <1>1. current \in Requests
    BY AtWorkIsRequest
  <1>2. PICK c \in 1 .. Len(arrivals) : arrivals[c] = current
    BY <1>1 DEF ServiceIInv, QueueIInv
  <1>3. ~(c \in Taken + 1 .. Len(arrivals))
    BY <1>2 DEF ServiceIInv, QueueIInv
  <1>4. Taken \in Nat /\ Len(arrivals) \in Nat /\ Taken <= Len(arrivals)
    BY PlacesAreFinite
  <1>5. c \in 1 .. Taken
    BY <1>3, <1>4
  <1> QED BY <1>2, <1>5

\* Whoever is still in the queue has waited for the postures ahead, at most.
LEMMA WaitedForThoseAhead ==
  ASSUME ServiceIInv, WaitIInv, NEW k \in Taken + 1 .. Len(arrivals)
  PROVE  waited[arrivals[k]] <= Delay * Cardinality(Ahead(k))
  <1> DEFINE n == Cardinality(SleptFor)
             a == Cardinality(Ahead(k))
             w == waited[arrivals[k]]
  <1>0. Taken \in Nat /\ Len(arrivals) \in Nat /\ k \in Nat /\ k \in 1 .. Len(arrivals)
    BY PlacesAreFinite
  <1>1. /\ Taken \in Nat /\ Len(arrivals) \in Nat /\ k \in Nat /\ k \in 1 .. Len(arrivals)
        /\ IsFiniteSet(Ahead(k)) /\ n \in Nat /\ a \in Nat
        /\ Delay \in Nat /\ slept \in 0 .. Delay /\ w \in Nat
    BY <1>0, PlacesAreFinite
  <1>2. SleptFor \subseteq Ahead(k)
    BY <1>1 DEF SleptFor, Ahead
  <1>3. w <= Delay * n + Asleep
    BY DEF WaitIInv, Bound
  <1>4. n <= a
    BY <1>1, <1>2, FewerInSubset
  <1>5. CASE phase # "sleep"
    <2>1. Asleep = 0
      BY <1>5 DEF Asleep
    <2> HIDE DEF n, a, w
    <2>2. Delay * n <= Delay * a /\ Delay * n \in Nat /\ Delay * a \in Nat
      BY <1>1, <1>4, Times
    <2> QED BY <2>1, <2>2, <1>1, <1>3 DEF n, a, w
  <1>6. CASE phase = "sleep"
    <2>1. PICK c \in 1 .. Taken : arrivals[c] = current
      BY <1>6, CurrentIsTaken
    <2>2. c \in Ahead(k) \ SleptFor
      <3>1. IsPosture(c)
        BY <1>6, <2>1 DEF ServiceIInv, WorkerIInv, IsPosture
      <3> QED BY <3>1, <2>1, <1>1, <1>6 DEF Ahead, SleptFor, YetToSleep
    <2>3. n + 1 <= a
      BY <1>1, <1>2, <2>2, FewerInSubset
    <2>4. Asleep <= Delay /\ Asleep \in Nat
      BY <1>1, <1>6 DEF Asleep
    <2> HIDE DEF n, a, w
    <2>5. Delay * (n + 1) <= Delay * a /\ Delay * (n + 1) = Delay * n + Delay /\ Delay * n \in Nat
          /\ Delay * a \in Nat
      BY <1>1, <2>3, Times
    <2> QED BY <2>4, <2>5, <1>1, <1>3 DEF n, a, w
  <1> QED BY <1>5, <1>6

\* The bound is a number, now and in the next state.
LEMMA BoundIsNumber ==
  ServiceIInv => /\ IsFiniteSet(SleptFor) /\ Cardinality(SleptFor) \in Nat
                 /\ Asleep \in 0 .. Delay /\ Delay \in Nat /\ Bound \in Nat
  <1> SUFFICES ASSUME ServiceIInv
               PROVE  /\ IsFiniteSet(SleptFor) /\ Cardinality(SleptFor) \in Nat
                      /\ Asleep \in 0 .. Delay /\ Delay \in Nat /\ Bound \in Nat
    OBVIOUS
  <1>1. /\ IsFiniteSet(SleptFor) /\ Cardinality(SleptFor) \in Nat
        /\ Delay \in Nat /\ slept \in 0 .. Delay
    BY PlacesAreFinite
  <1>2. Asleep \in 0 .. Delay
    BY <1>1 DEF Asleep
  <1>3. Delay * Cardinality(SleptFor) \in Nat
    BY <1>1, Times
  <1> QED BY <1>1, <1>2, <1>3 DEF Bound

LEMMA BoundIsNumberNext ==
  ServiceIInv' => /\ IsFiniteSet(SleptFor') /\ Cardinality(SleptFor') \in Nat
                  /\ Asleep' \in 0 .. Delay /\ Bound' \in Nat
  <1>1. (ServiceIInv => /\ IsFiniteSet(SleptFor) /\ Cardinality(SleptFor) \in Nat
                        /\ Asleep \in 0 .. Delay /\ Delay \in Nat /\ Bound \in Nat)'
    BY BoundIsNumber, PTL
  <1> QED BY <1>1 DEF Delay

\* The bound grows as long as who has slept stays so, and a sleep that ends is one
\* more of those.
LEMMA BoundGrows ==
  ASSUME ServiceIInv, ServiceIInv', SleptFor \subseteq SleptFor',
         Asleep <= Asleep' \/ SleptFor' \ SleptFor # {}
  PROVE  Bound <= Bound'
  <1> DEFINE n == Cardinality(SleptFor)
             m == Cardinality(SleptFor')
  <1>1. /\ n \in Nat /\ m \in Nat /\ Delay \in Nat /\ n <= m
        /\ Asleep \in 0 .. Delay /\ Asleep' \in 0 .. Delay
        /\ \A x \in SleptFor' \ SleptFor : n + 1 <= m
    BY BoundIsNumber, BoundIsNumberNext, FewerInSubset
  <1>2. Bound = Delay * n + Asleep /\ Bound' = Delay * m + Asleep'
    BY DEF Bound, Delay
  <1>3. Asleep <= Asleep' \/ n + 1 <= m
    BY <1>1
  <1> HIDE DEF n, m
  <1> QED BY <1>1, <1>2, <1>3, MoreSleep

\* Then nobody's wait gets too long, if the clock stands still.
LEMMA GoingOnKeepsWaiting ==
  ASSUME ServiceIInv, ServiceIInv', WaitIInv, UNCHANGED <<queue, arrivals, waited>>,
         Bound <= Bound'
  PROVE  WaitIInv'
  <1>1. /\ \A k \in 1 .. Len(arrivals) : waited[arrivals[k]] \in Nat
        /\ Taken \in Nat /\ Len(arrivals) \in Nat /\ Taken' = Taken
    BY PlacesAreFinite DEF Taken
  <1>2. Bound \in Nat /\ Bound' \in Nat
    BY BoundIsNumber, BoundIsNumberNext
  <1>3. \A k \in Taken + 1 .. Len(arrivals) : waited[arrivals[k]] <= Bound'
    BY <1>1, <1>2 DEF WaitIInv
  <1>4. \A k \in Nat : Ahead(k)' = Ahead(k)
    BY DEF Ahead, IsPosture
  <1>5. \A k \in 1 .. Taken : waited[arrivals[k]] <= Delay * Cardinality(Ahead(k)')
    BY <1>1, <1>4 DEF WaitIInv
  <1> QED BY <1>1, <1>3, <1>5 DEF WaitIInv, Delay

\* A worker that goes on forgets no sleep: what it has done with stays done with.
LEMMA HandlerKeepsWaiting ==
  ASSUME ServiceIInv, ServiceIInv', WaitIInv, HandleInterceptedRequest
  PROVE  WaitIInv'
  <1>1. UNCHANGED <<queue, arrivals, waited>>
    BY DEF HandleInterceptedRequest, DispatchRequest, BuildResponse, DispatchDeferredEvent,
           CheckStub, Send, DispatchResponse, Advance
  <1>2. Taken' = Taken /\ \A i : IsPosture(i)' = IsPosture(i)
    BY <1>1 DEF Taken, IsPosture
  <1>3. /\ phase' \in {"dispatch", "build", "sleep"} =>
             phase \in {"dispatch", "build", "sleep"} /\ current' = current
        /\ phase # "sleep" => phase' # "sleep" \/ slept' = 0
    BY DEF HandleInterceptedRequest, DispatchRequest, BuildResponse, DispatchDeferredEvent,
           CheckStub, Send, DispatchResponse, Advance
  <1>4. SleptFor \subseteq SleptFor'
    BY <1>1, <1>2, <1>3 DEF SleptFor, YetToSleep
  <1>5. CASE phase # "sleep"
    <2>1. Asleep <= Asleep'
      BY <1>3, <1>5 DEF Asleep
    <2> QED BY <2>1, <1>1, <1>4, BoundGrows, GoingOnKeepsWaiting
  <1>6. CASE phase = "sleep"
    <2>1. phase' = "check"
      BY <1>6 DEF HandleInterceptedRequest, DispatchRequest, BuildResponse, DispatchDeferredEvent,
                  CheckStub, Send, DispatchResponse, Advance
    <2>2. PICK c \in 1 .. Taken : arrivals[c] = current
      BY <1>6, CurrentIsTaken
    <2>3. IsPosture(c)
      BY <1>6, <2>2 DEF ServiceIInv, WorkerIInv, IsPosture
    <2>4. c \in SleptFor' \ SleptFor
      BY <2>1, <2>2, <2>3, <1>2, <1>6 DEF SleptFor, YetToSleep
    <2> QED BY <2>4, <1>1, <1>4, BoundGrows, GoingOnKeepsWaiting
  <1> QED BY <1>5, <1>6
\* The owner's calls that leave the queue alone change nobody's wait.
LEMMA OwnerKeepsWaiting ==
  ASSUME ServiceIInv, ServiceIInv', WaitIInv, Init \/ Start \/ UNCHANGED serviceVars
  PROVE  WaitIInv'
  <1>1. UNCHANGED <<queue, arrivals, waited, current, phase, slept>>
    BY DEF Init, Start, Worker, serviceVars
  <1>2. Taken' = Taken /\ Asleep' = Asleep
    BY <1>1 DEF Taken, Asleep
  <1>3. SleptFor' = SleptFor
    BY <1>1, <1>2 DEF SleptFor, YetToSleep, IsPosture
  <1>4. Bound' = Bound /\ Bound \in Nat
    BY <1>2, <1>3, BoundIsNumber DEF Bound, Delay
  <1> QED BY <1>1, <1>4, GoingOnKeepsWaiting

\* Whoever is dropped with the queue has waited for those ahead, and waits no more.
LEMMA StopKeepsWaiting ==
  ASSUME ServiceIInv, WaitIInv, Stop
  PROVE  WaitIInv'
  <1>1. Taken' = Len(arrivals) /\ UNCHANGED <<arrivals, waited>>
    BY PlacesAreFinite DEF Stop, Taken
  <1>2. \A k \in Nat : Ahead(k)' = Ahead(k)
    BY <1>1 DEF Ahead, IsPosture
  <1>3. Taken \in Nat /\ Len(arrivals) \in Nat
    BY PlacesAreFinite
  <1>4. \A k \in Taken + 1 .. Len(arrivals) :
          waited[arrivals[k]] <= Delay * Cardinality(Ahead(k))
    BY WaitedForThoseAhead
  <1>5. \A k \in 1 .. Len(arrivals) : waited[arrivals[k]] <= Delay * Cardinality(Ahead(k)')
    BY <1>2, <1>3, <1>4 DEF WaitIInv
  <1>6. \A k \in Taken' + 1 .. Len(arrivals) : FALSE
    BY <1>1, <1>3
  <1> QED BY <1>1, <1>5, <1>6 DEF WaitIInv, Delay

\* A new request has not waited; it is ahead of nobody.
LEMMA ReceiveKeepsWaiting ==
  ASSUME ServiceIInv, ServiceIInv', WaitIInv, NEW r \in Requests, Receive(r)
  PROVE  WaitIInv'
  <1> DEFINE n == Len(arrivals)
  <1>1. /\ Taken \in Nat /\ n \in Nat /\ Taken <= n
        /\ Bound \in Nat
    BY PlacesAreFinite, BoundIsNumber
  <1>2. /\ Len(arrivals') = n + 1 /\ arrivals'[n + 1] = r
        /\ \A i \in 1 .. n : arrivals'[i] = arrivals[i]
        /\ Len(queue') = Len(queue) + 1 /\ Len(queue) \in Nat
    BY AppendProperties, LenProperties DEF Receive, ServiceIInv, ServiceTypeOK
  <1>3. Taken' = Taken
    BY <1>1, <1>2 DEF Taken
  <1>4. UNCHANGED <<current, phase, slept, waited>>
    BY DEF Receive, Worker
  <1>5. SleptFor' = SleptFor
    BY <1>1, <1>2, <1>3, <1>4 DEF SleptFor, YetToSleep, IsPosture
  <1>6. Bound' = Bound
    BY <1>4, <1>5 DEF Bound, Asleep, Delay
  <1>7. \A k \in 1 .. n : Ahead(k)' = Ahead(k)
    BY <1>1, <1>2 DEF Ahead, IsPosture
  <1>8. waited[r] = 0
    BY DEF Receive, WaitIInv
  <1>9. \A k \in 1 .. Taken' : waited'[arrivals'[k]] <= Delay * Cardinality(Ahead(k)')
    BY <1>1, <1>2, <1>3, <1>4, <1>7 DEF WaitIInv
  <1>10. \A k \in Taken' + 1 .. Len(arrivals') : waited'[arrivals'[k]] <= Bound'
    <2> SUFFICES ASSUME NEW k \in Taken + 1 .. n + 1
                 PROVE  waited[arrivals'[k]] <= Bound
      BY <1>2, <1>3, <1>4, <1>6
    <2>1. CASE k = n + 1
      BY <2>1, <1>1, <1>2, <1>8
    <2>2. CASE k # n + 1
      <3>1. k \in Taken + 1 .. n /\ k \in 1 .. n
        BY <2>2, <1>1
      <3> QED BY <3>1, <1>2 DEF WaitIInv
    <2> QED BY <2>1, <2>2
  <1>11. \A q \in Requests : waited'[q] = 0 \/ \E k \in 1 .. Len(arrivals') : arrivals'[k] = q
    <2> SUFFICES ASSUME NEW q \in Requests, waited[q] # 0
                 PROVE  \E k \in 1 .. Len(arrivals') : arrivals'[k] = q
      BY <1>4
    <2>1. PICK k \in 1 .. n : arrivals[k] = q
      BY DEF WaitIInv
    <2>2. k \in 1 .. Len(arrivals') /\ arrivals'[k] = q
      BY <2>1, <1>1, <1>2
    <2> QED BY <2>2
  <1> QED BY <1>9, <1>10, <1>11 DEF WaitIInv, Delay

\* Who is taken has waited for those ahead; the worker has slept for every posture
\* before, so the others' bound stands.
LEMMA TakeKeepsWaiting ==
  ASSUME ServiceIInv, ServiceIInv', WaitIInv, Take
  PROVE  WaitIInv'
  <1>1. /\ Taken \in Nat /\ Len(arrivals) \in Nat /\ Taken <= Len(arrivals)
        /\ Bound \in Nat /\ Bound' \in Nat
        /\ \A k \in 1 .. Len(arrivals) : arrivals[k] \in Requests /\ waited[arrivals[k]] \in Nat
    BY PlacesAreFinite, BoundIsNumber, BoundIsNumberNext
  <1>2. /\ Len(queue) \in Nat \ {0} /\ Len(queue') = Len(queue) - 1
        /\ current' = arrivals[Taken + 1]
    <2>1. queue \in Seq(Requests) /\ queue # <<>> /\ current' = Head(queue) /\ queue' = Tail(queue)
      BY DEF Take, ServiceIInv, ServiceTypeOK
    <2>2. Len(queue) \in Nat \ {0} /\ Len(queue') = Len(queue) - 1 /\ Head(queue) = queue[1]
      BY <2>1, HeadTailProperties, LenProperties, EmptySeq
    <2>3. queue[1] = arrivals[Taken + 1]
      BY <2>2 DEF ServiceIInv, QueueIInv
    <2> QED BY <2>1, <2>2, <2>3
  <1>3. UNCHANGED <<arrivals, waited>> /\ phase = "idle" /\ phase' = "dispatch"
    BY DEF Take
  <1>4. Taken' = Taken + 1 /\ Taken + 1 \in Taken + 1 .. Len(arrivals)
    BY <1>1, <1>2, <1>3 DEF Taken
  <1>5. SleptFor \subseteq SleptFor'
    <2>1. \A i \in 1 .. Taken : arrivals[i] # current'
      BY <1>1, <1>2, <1>4 DEF ServiceIInv, QueueIInv
    <2> QED BY <2>1, <1>1, <1>3, <1>4 DEF SleptFor, YetToSleep, IsPosture
  <1>6. Asleep = 0 /\ Asleep' = 0
    BY <1>3 DEF Asleep
  <1>7. Bound <= Bound'
    BY <1>5, <1>6, BoundGrows
  <1>8. \A k \in Nat : Ahead(k)' = Ahead(k)
    BY <1>3 DEF Ahead, IsPosture
  <1>9. waited[arrivals[Taken + 1]] <= Delay * Cardinality(Ahead(Taken + 1))
    BY <1>4, WaitedForThoseAhead
  <1>10. \A k \in 1 .. Taken + 1 : waited[arrivals[k]] <= Delay * Cardinality(Ahead(k)')
    BY <1>1, <1>8, <1>9 DEF WaitIInv
  <1>11. \A k \in Taken + 2 .. Len(arrivals) : waited[arrivals[k]] <= Bound'
    BY <1>1, <1>7 DEF WaitIInv
  <1>12. \A k \in Taken' + 1 .. Len(arrivals) : waited[arrivals[k]] <= Bound'
    BY <1>1, <1>4, <1>11
  <1> QED BY <1>3, <1>4, <1>10, <1>12 DEF WaitIInv, Delay

\* While the worker sleeps, the wait of those in the queue grows with the bound, and
\* nobody else's does.
LEMMA ElapseKeepsWaiting ==
  ASSUME ServiceIInv, ServiceIInv', WaitIInv, Elapse
  PROVE  WaitIInv'
  <1>1. /\ Taken \in Nat /\ Len(arrivals) \in Nat /\ Taken <= Len(arrivals)
        /\ Bound \in Nat /\ Bound' \in Nat
        /\ \A k \in 1 .. Len(arrivals) : arrivals[k] \in Requests /\ waited[arrivals[k]] \in Nat
    BY PlacesAreFinite, BoundIsNumber, BoundIsNumberNext
  <1>2. UNCHANGED <<queue, arrivals, current, phase>> /\ phase = "sleep" /\ slept' = slept + 1
    BY DEF Elapse
  <1>3. Taken' = Taken
    BY <1>2 DEF Taken
  <1>4. Bound' = Bound + 1
    <2>1. SleptFor' = SleptFor
      BY <1>2, <1>3 DEF SleptFor, YetToSleep, IsPosture
    <2> DEFINE p == Delay * Cardinality(SleptFor)
    <2>2. Cardinality(SleptFor) \in Nat /\ Delay \in Nat /\ slept \in Nat
      BY PlacesAreFinite
    <2>3. p \in Nat
      BY <2>2, Times
    <2>4. Bound = p + slept /\ Bound' = p + slept'
      BY <1>2, <2>1 DEF Bound, Asleep, Delay
    <2> HIDE DEF p
    <2> QED BY <2>2, <2>3, <2>4, <1>2
  <1>5. \A r \in Requests : Contains(queue, r) => \E k \in Taken + 1 .. Len(arrivals) : arrivals[k] = r
    <2> SUFFICES ASSUME NEW r \in Requests, Contains(queue, r)
                 PROVE  \E k \in Taken + 1 .. Len(arrivals) : arrivals[k] = r
      OBVIOUS
    <2>1. PICK i \in 1 .. Len(queue) : queue[i] = r
      BY DEF Contains
    <2>2. Len(queue) \in Nat /\ Taken + Len(queue) = Len(arrivals)
      BY <1>1, LenProperties DEF ServiceIInv, ServiceTypeOK, Taken
    <2>3. Taken + i \in Taken + 1 .. Len(arrivals) /\ arrivals[Taken + i] = r
      BY <2>1, <2>2, <1>1 DEF ServiceIInv, QueueIInv
    <2> QED BY <2>3
  <1>6. \A r \in Requests : waited'[r] = IF Contains(queue, r) THEN waited[r] + 1 ELSE waited[r]
    BY DEF Elapse
  <1>7. \A r \in Requests : waited'[r] = 0 \/ \E k \in 1 .. Len(arrivals) : arrivals[k] = r
    BY <1>1, <1>5, <1>6 DEF WaitIInv
  <1>8. \A k \in Nat : Ahead(k)' = Ahead(k)
    BY <1>2 DEF Ahead, IsPosture
  <1>9. \A k \in 1 .. Taken : waited'[arrivals[k]] <= Delay * Cardinality(Ahead(k)')
    <2> SUFFICES ASSUME NEW k \in 1 .. Taken
                 PROVE  waited'[arrivals[k]] <= Delay * Cardinality(Ahead(k))
      BY <1>8
    <2>1. k \in 1 .. Len(arrivals) /\ ~ \E j \in Taken + 1 .. Len(arrivals) : arrivals[j] = arrivals[k]
      BY <1>1 DEF ServiceIInv, QueueIInv
    <2>2. waited'[arrivals[k]] = waited[arrivals[k]]
      BY <2>1, <1>1, <1>5, <1>6
    <2> QED BY <2>2 DEF WaitIInv
  <1>10. \A k \in Taken + 1 .. Len(arrivals) : waited'[arrivals[k]] <= Bound'
    <2> SUFFICES ASSUME NEW k \in Taken + 1 .. Len(arrivals)
                 PROVE  waited'[arrivals[k]] <= Bound + 1
      BY <1>4
    <2>1. arrivals[k] \in Requests /\ waited[arrivals[k]] \in Nat
      BY <1>1
    <2>2. waited[arrivals[k]] <= Bound
      BY DEF WaitIInv
    <2>3. waited'[arrivals[k]] \in {waited[arrivals[k]], waited[arrivals[k]] + 1}
      BY <2>1, <1>6
    <2> QED BY <2>1, <2>2, <2>3, <1>1
  <1> QED BY <1>2, <1>3, <1>7, <1>9, <1>10 DEF WaitIInv, Delay

\* What everyone has waited is accounted for, in every state.
THEOREM WaitInvariance == ServiceSpec => [](ServiceIInv /\ WaitIInv)
  <1>1. ServiceInit => ServiceIInv /\ WaitIInv
    <2> SUFFICES ASSUME ServiceInit
                 PROVE  ServiceIInv /\ WaitIInv
      OBVIOUS
    <2>1. ServiceIInv
      BY ServiceInitIInv
    <2>2. Len(arrivals) = 0 /\ Taken = 0 /\ \A r \in Requests : waited[r] = 0
      BY EmptySeq DEF ServiceInit, Taken
    <2> QED BY <2>1, <2>2 DEF WaitIInv
  <1>2. ServiceIInv /\ ServiceIInv' /\ WaitIInv /\ [ServiceNext]_serviceVars => WaitIInv'
    <2> SUFFICES ASSUME ServiceIInv, ServiceIInv', WaitIInv, [ServiceNext]_serviceVars
                 PROVE  WaitIInv'
      OBVIOUS
    <2>1. CASE Init \/ Start \/ UNCHANGED serviceVars
      BY <2>1, OwnerKeepsWaiting
    <2>2. CASE Stop
      BY <2>2, StopKeepsWaiting
    <2>3. ASSUME NEW r \in Requests, Receive(r)
          PROVE  WaitIInv'
      BY <2>3, ReceiveKeepsWaiting
    <2>4. CASE Take
      BY <2>4, TakeKeepsWaiting
    <2>5. CASE HandleInterceptedRequest
      BY <2>5, HandlerKeepsWaiting
    <2>6. CASE Elapse
      BY <2>6, ElapseKeepsWaiting
    <2> QED BY <2>1, <2>2, <2>3, <2>4, <2>5, <2>6 DEF ServiceNext
  <1> QED BY <1>1, <1>2, ServiceInvariance, PTL DEF ServiceSpec

\* A request waits for the posture requests that came before it, the delay for each,
\* and for nothing else: however many clients there are, and however often the bridge
\* is stopped and started.
THEOREM WaitsShort == ServiceSpec => []WaitsOnlyForPostures
  <1>1. ServiceIInv /\ WaitIInv => WaitsOnlyForPostures
    <2> SUFFICES ASSUME ServiceIInv, WaitIInv, NEW r \in Requests
                 PROVE  waited[r] <= Delay * ActionsAhead(r)
      BY DEF WaitsOnlyForPostures, Delay
    <2>1. Taken \in Nat /\ Len(arrivals) \in Nat /\ Taken <= Len(arrivals) /\ Delay \in Nat
      BY PlacesAreFinite
    <2>2. CASE \E k \in 1 .. Len(arrivals) : arrivals[k] = r
      <3>1. PICK k \in 1 .. Len(arrivals) : arrivals[k] = r
        BY <2>2
      <3>2. Ahead(k) = {i \in 1 .. Len(arrivals) :
                          /\ RequiresPostureActionDelay(arrivals[i].api)
                          /\ \E j \in i + 1 .. Len(arrivals) : arrivals[j] = r}
        <4>1. \A i, j \in 1 .. Len(arrivals) : arrivals[i] = arrivals[j] => i = j
          BY DEF ServiceIInv, QueueIInv
        <4>2. \A i \in 1 .. Len(arrivals) :
                (\E j \in i + 1 .. Len(arrivals) : arrivals[j] = r) <=> i \in 1 .. k - 1
          BY <2>1, <3>1, <4>1
        <4> QED BY <2>1, <3>1, <4>2 DEF Ahead, IsPosture
      <3>3. ActionsAhead(r) = Cardinality(Ahead(k))
        BY <3>2 DEF ActionsAhead
      <3>4. k \in 1 .. Taken \/ k \in Taken + 1 .. Len(arrivals)
        BY <2>1
      <3>5. waited[arrivals[k]] <= Delay * Cardinality(Ahead(k))
        BY <3>4, WaitedForThoseAhead DEF WaitIInv
      <3> QED BY <3>1, <3>3, <3>5
    <2>3. CASE ~ \E k \in 1 .. Len(arrivals) : arrivals[k] = r
      <3>1. waited[r] = 0
        BY <2>3 DEF WaitIInv
      <3>2. ActionsAhead(r) = Cardinality({})
        <4>1. {i \in 1 .. Len(arrivals) :
                 /\ RequiresPostureActionDelay(arrivals[i].api)
                 /\ \E j \in i + 1 .. Len(arrivals) : arrivals[j] = r} = {}
          BY <2>1, <2>3
        <4> QED BY <4>1 DEF ActionsAhead
      <3> QED BY <2>1, <3>1, <3>2, FS_EmptySet
    <2> QED BY <2>2, <2>3
  <1> QED BY <1>1, WaitInvariance, PTL


=============================================================================
