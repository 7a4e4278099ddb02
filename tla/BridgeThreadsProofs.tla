------------------------- MODULE BridgeThreadsProofs ------------------------
(***************************************************************************)
(* Proofs about BridgeThreads, with all four threads and whatever clients  *)
(* there are: the shared fields keep their types, and no interleaving      *)
(* drives the robot faster than the greatest cap.                          *)
(***************************************************************************)
EXTENDS BridgeThreads, SequenceTheorems, TLAPS

TopSpeed == Bridge!SPORT_MAX_LINEAR_SPEED

Limited == [lin : 0 .. TopSpeed, yaw : Int]

\* What each field may hold.
FieldType ==
  [m_continuousMoveMode |-> BOOLEAN, m_jointsLocked |-> BOOLEAN,
   m_walkMode |-> Bridge!WalkMode, m_hasActiveMove |-> BOOLEAN,
   m_motionProfile |-> Bridge!MotionProfile, m_speedLevel |-> Int,
   m_maxLinearSpeed |-> 0 .. TopSpeed, m_lastVelocity |-> Limited,
   moveAge |-> 0 .. MOVE_STOP_TIMEOUT,
   mForm |-> Bridge!Forms, mModeName |-> Bridge!SelectedModes, mSilent |-> BOOLEAN,
   mRobotPosture |-> Bridge!RobotPosture]

Fields == DOMAIN FieldType

MemoryTyped ==
  /\ mem = [f \in Fields |-> mem[f]]
  /\ \A f \in Fields : mem[f] \in FieldType[f]

LocalTyped(t) ==
  local[t] \in [velocity : Bridge!MoveVelocity, over : BOOLEAN,
                profile : Bridge!MotionProfile, cap : 0 .. TopSpeed]

-----------------------------------------------------------------------------
(* Steps and methods.                                                      *)

\* The steps on a field, and those that need no operand.
FieldSteps == UNION {{<<op, f, v>> : op \in {"Set", "ReturnIf", "ReturnUnless"},
                                     v \in FieldType[f]} : f \in Fields}

PlainDos == {"Finish", "CopyLastVelocity", "CompareWithCap",
             "ReadProfile", "ChooseCap", "StoreCap"}

PlainSteps ==
  FieldSteps \cup {<<op>> : op \in PlainDos} \cup {Publish(Zero)}
    \cup {<<"TakeParameter", v>> : v \in Bridge!ParsedVelocities}

\* These go on with what the step before them has left in the locals.
ChainedSteps == {<<"ScaleToCap">>, <<"StoreLastVelocity">>, <<"PublishCopy">>}

Steps == PlainSteps \cup ChainedSteps

Before(op) ==
  IF op = "ScaleToCap" THEN "CompareWithCap"
  ELSE IF op = "StoreLastVelocity" THEN "ScaleToCap" ELSE "CopyLastVelocity"

\* What is left of a method.
Rest(m) ==
  /\ m \in Seq(Steps) /\ m # <<>>
  /\ \A k \in 2 .. Len(m) : m[k] \in ChainedSteps => m[k - 1] = <<Before(m[k][1])>>

Method(m) == Rest(m) /\ m[1] \notin ChainedSteps

WorkList(w) ==
  /\ w \in Seq(Seq(Steps))
  /\ \A i \in 1 .. Len(w) : Rest(w[i]) /\ (i > 1 => Method(w[i]))

\* A thread about to scale, to store or to publish has the locals to do it.
Prepared(t) ==
  todo[t] # <<>> =>
    LET op == Next1(t)[1] IN
    /\ op = "ScaleToCap" /\ ~local[t].over => local[t].velocity.lin <= TopSpeed
    /\ op \in {"StoreLastVelocity", "PublishCopy"} => local[t].velocity.lin <= TopSpeed

ThreadsIInv ==
  /\ MemoryTyped
  /\ twist \in Limited
  /\ apis \in Clients /\ lastStop \in Stops \cup {"none"} /\ overtaken \in BOOLEAN
  /\ todo \in [Threads -> Seq(Seq(Steps))]
  /\ local = [t \in Threads |-> local[t]]
  /\ \A t \in Threads : WorkList(todo[t]) /\ LocalTyped(t) /\ Prepared(t)

-----------------------------------------------------------------------------
\* A sequence is empty if it has no length.
LEMMA NonEmptySeq ==
  ASSUME NEW S, NEW s \in Seq(S)
  PROVE  s # <<>> <=> Len(s) >= 1
  BY EmptySeq, LenProperties

LEMMA HeadOfSeq ==
  ASSUME NEW S, NEW s \in Seq(S)
  PROVE  Head(s) = s[1]
  OBVIOUS

\* A chained step is no plain one.
LEMMA PlainIsNotChained == PlainSteps \cap ChainedSteps = {}
  <1> SUFFICES ASSUME NEW s \in PlainSteps
               PROVE  s[1] \notin {"ScaleToCap", "StoreLastVelocity", "PublishCopy"}
    BY DEF ChainedSteps
  <1>1. CASE s \in FieldSteps
    BY <1>1 DEF FieldSteps
  <1>2. CASE s \in {<<op>> : op \in PlainDos}
    BY <1>2 DEF PlainDos
  <1>3. CASE s \in {Publish(Zero)} \cup {<<"TakeParameter", v>> : v \in Bridge!ParsedVelocities}
    BY <1>3 DEF Publish
  <1> QED BY <1>1, <1>2, <1>3 DEF PlainSteps

LEMMA PlainMethod ==
  ASSUME NEW m \in Seq(PlainSteps), m # <<>>
  PROVE  Method(m)
  <1>1. m \in Seq(Steps)
    BY SeqMonotonic DEF Steps
  <1>2. Len(m) \in Nat /\ \A k \in 1 .. Len(m) : m[k] \in PlainSteps
    BY LenProperties, ElementOfSeq
  <1>3. Len(m) >= 1
    BY <1>2, EmptySeq
  <1> QED BY <1>1, <1>2, <1>3, PlainIsNotChained DEF Method, Rest

\* Methods are put together from methods; what follows may begin with a chained
\* step if the one before it is there.
LEMMA JoinMethods ==
  ASSUME NEW m, NEW n, Method(m), Rest(n),
         n[1] \in ChainedSteps => m[Len(m)] = <<Before(n[1][1])>>
  PROVE  Method(m \o n)
  <1>1. /\ m \in Seq(Steps) /\ n \in Seq(Steps)
        /\ Len(m) \in Nat \ {0} /\ Len(n) \in Nat \ {0}
    BY LenProperties, EmptySeq DEF Method, Rest
  <1>2. /\ m \o n \in Seq(Steps) /\ Len(m \o n) = Len(m) + Len(n)
        /\ \A i \in 1 .. Len(m) + Len(n) :
             (m \o n)[i] = IF i <= Len(m) THEN m[i] ELSE n[i - Len(m)]
    BY <1>1, ConcatProperties
  <1>3. m \o n # <<>> /\ (m \o n)[1] = m[1]
    BY <1>1, <1>2
  <1>4. ASSUME NEW k \in 2 .. Len(m \o n), (m \o n)[k] \in ChainedSteps
        PROVE  (m \o n)[k - 1] = <<Before((m \o n)[k][1])>>
    <2>1. CASE k <= Len(m)
      BY <2>1, <1>1, <1>2, <1>4 DEF Method, Rest
    <2>2. CASE k = Len(m) + 1
      <3>1. (m \o n)[k] = n[1] /\ (m \o n)[k - 1] = m[Len(m)]
        BY <2>2, <1>1, <1>2
      <3> QED BY <3>1, <1>4
    <2>3. CASE k > Len(m) + 1
      <3>1. /\ (m \o n)[k] = n[k - Len(m)] /\ (m \o n)[k - 1] = n[(k - Len(m)) - 1]
            /\ k - Len(m) \in 2 .. Len(n)
        BY <2>3, <1>1, <1>2
      <3> QED BY <3>1, <1>4 DEF Rest
    <2> QED BY <2>1, <2>2, <2>3, <1>1, <1>2
  <1> QED BY <1>2, <1>3, <1>4 DEF Method, Rest

\* What is left of a method after its first step.
LEMMA TailOfRest ==
  ASSUME NEW m, Rest(m), Len(m) # 1
  PROVE  Rest(Tail(m)) /\ Tail(m)[1] = m[2] /\ Len(m) >= 2
  <1>1. m \in Seq(Steps) /\ Len(m) \in Nat \ {0, 1}
    BY LenProperties, EmptySeq DEF Rest
  <1>2. /\ Tail(m) \in Seq(Steps) /\ Len(Tail(m)) = Len(m) - 1
        /\ \A i \in 1 .. Len(Tail(m)) : Tail(m)[i] = m[i + 1]
    BY <1>1, HeadTailProperties DEF Rest
  <1>3. Tail(m) # <<>>
    <2>1. Len(Tail(m)) >= 1
      BY <1>1, <1>2
    <2> QED BY <2>1, <1>2, NonEmptySeq
  <1>4. ASSUME NEW k \in 2 .. Len(Tail(m)), Tail(m)[k] \in ChainedSteps
        PROVE  Tail(m)[k - 1] = <<Before(Tail(m)[k][1])>>
    <2>1. Tail(m)[k] = m[k + 1] /\ Tail(m)[k - 1] = m[(k + 1) - 1] /\ k + 1 \in 2 .. Len(m)
      BY <1>1, <1>2
    <2> QED BY <2>1, <1>4 DEF Rest
  <1> QED BY <1>1, <1>2, <1>3, <1>4 DEF Rest

-----------------------------------------------------------------------------
(* What a thread has yet to do.                                            *)

\* The step that follows in a work list.
NextOf(w) == Head(Head(w))

\* Whether a step is done or a method left early, a work list remains; and a
\* chained step comes next only after the one it goes on from.
LEMMA WorkGoesOn ==
  ASSUME NEW t \in Threads, todo[t] # <<>>, WorkList(todo[t])
  PROVE  /\ Next1(t) \in Steps
         /\ WorkList(AfterStep(t))
         /\ AfterStep(t) # <<>> /\ NextOf(AfterStep(t)) \in ChainedSteps =>
              Next1(t) = <<Before(NextOf(AfterStep(t))[1])>>
         /\ WorkList(Tail(todo[t]))
         /\ Tail(todo[t]) # <<>> => NextOf(Tail(todo[t])) \notin ChainedSteps
  <1> DEFINE w == todo[t]
             m == Head(w)
  <1>1. w \in Seq(Seq(Steps)) /\ Len(w) \in Nat \ {0} /\ m = w[1]
    BY LenProperties, EmptySeq DEF WorkList
  <1>2. Rest(m) /\ m \in Seq(Steps) /\ Len(m) \in Nat \ {0} /\ Head(m) = m[1] /\ m[1] \in Steps
    BY <1>1, LenProperties, EmptySeq DEF WorkList, Rest
  <1>3. /\ Tail(w) \in Seq(Seq(Steps)) /\ Len(Tail(w)) = Len(w) - 1
        /\ \A i \in 1 .. Len(Tail(w)) : Tail(w)[i] = w[i + 1]
    BY <1>1, HeadTailProperties, EmptySeq
  <1>4. \A i \in 1 .. Len(Tail(w)) : Method(Tail(w)[i])
    BY <1>1, <1>3 DEF WorkList
  <1>5. WorkList(Tail(w))
    BY <1>3, <1>4 DEF WorkList, Method
  <1>6. Tail(w) # <<>> => NextOf(Tail(w)) \notin ChainedSteps
    <2> SUFFICES ASSUME Tail(w) # <<>>
                 PROVE  NextOf(Tail(w)) \notin ChainedSteps
      OBVIOUS
    <2>1. Len(Tail(w)) >= 1 /\ Head(Tail(w)) = Tail(w)[1]
      BY <1>3, NonEmptySeq, HeadOfSeq
    <2>2. Method(Tail(w)[1])
      <3>1. 1 \in 1 .. Len(Tail(w))
        BY <2>1, <1>1, <1>3
      <3> HIDE DEF w
      <3> QED BY <3>1, <1>4
    <2>3. Head(Tail(w)[1]) = Tail(w)[1][1]
      BY <2>2, EmptySeq DEF Method, Rest
    <2> QED BY <2>1, <2>2, <2>3 DEF NextOf, Method
  <1>7. CASE Len(m) = 1
    <2>1. AfterStep(t) = Tail(w)
      BY <1>7 DEF AfterStep
    <2> QED BY <2>1, <1>2, <1>5, <1>6 DEF Next1
  <1>8. CASE Len(m) # 1
    <2>1. AfterStep(t) = <<Tail(m)>> \o Tail(w)
      BY <1>8 DEF AfterStep
    <2>2. Rest(Tail(m)) /\ Tail(m)[1] = m[2] /\ Len(m) >= 2
      BY <1>2, <1>8, TailOfRest
    <2>3. <<Tail(m)>> \in Seq(Seq(Steps)) /\ Len(<<Tail(m)>>) = 1 /\ <<Tail(m)>>[1] = Tail(m)
      BY <2>2 DEF Rest
    <2>4. /\ AfterStep(t) \in Seq(Seq(Steps)) /\ Len(AfterStep(t)) = 1 + Len(Tail(w))
          /\ \A i \in 1 .. 1 + Len(Tail(w)) :
               AfterStep(t)[i] = IF i <= 1 THEN <<Tail(m)>>[i] ELSE Tail(w)[i - 1]
      <3> HIDE DEF w, m
      <3> QED BY <2>1, <2>3, <1>3, ConcatProperties
    <2>5. AfterStep(t)[1] = Tail(m) /\ Head(AfterStep(t)) = Tail(m)
      <3>1. AfterStep(t)[1] = Tail(m)
        <4>1. 1 \in 1 .. 1 + Len(Tail(w))
          BY <1>1, <1>3
        <4>2. AfterStep(t)[1] = <<Tail(m)>>[1]
          <5> HIDE DEF w, m
          <5> QED BY <4>1, <2>4
        <4> QED BY <4>2, <2>3
      <3> QED BY <3>1, <2>4, HeadOfSeq
    <2>6. WorkList(AfterStep(t))
      <3> SUFFICES ASSUME NEW i \in 1 .. Len(AfterStep(t))
                   PROVE  Rest(AfterStep(t)[i]) /\ (i > 1 => Method(AfterStep(t)[i]))
        BY <2>4 DEF WorkList
      <3>1. CASE i = 1
        BY <3>1, <2>2, <2>5
      <3>2. CASE i > 1
        <4>1. AfterStep(t)[i] = Tail(w)[i - 1] /\ i - 1 \in 1 .. Len(Tail(w))
          BY <3>2, <2>4, <1>1, <1>3
        <4> QED BY <4>1, <1>4 DEF Method
      <3> QED BY <3>1, <3>2, <2>4, <1>1, <1>3
    <2>7. NextOf(AfterStep(t)) = m[2]
      BY <2>2, <2>5, HeadOfSeq DEF NextOf, Rest
    <2>8. m[2] \in ChainedSteps => m[1] = <<Before(m[2][1])>>
      BY <1>2, <2>2 DEF Rest
    <2> QED BY <2>6, <2>7, <2>8, <1>2, <1>5, <1>6 DEF Next1
  <1> QED BY <1>7, <1>8

\* A thread goes on with locals that fit what it does next.
LEMMA Continuing ==
  ASSUME ThreadsIInv, NEW t \in Threads, NEW rest, NEW locals,
         Continue(t, rest, locals), WorkList(rest),
         locals \in [velocity : Bridge!MoveVelocity, over : BOOLEAN,
                     profile : Bridge!MotionProfile, cap : 0 .. TopSpeed],
         rest # <<>> =>
           /\ NextOf(rest)[1] = "ScaleToCap" /\ ~locals.over => locals.velocity.lin <= TopSpeed
           /\ NextOf(rest)[1] \in {"StoreLastVelocity", "PublishCopy"} =>
                locals.velocity.lin <= TopSpeed,
         MemoryTyped', twist' \in Limited
  PROVE  ThreadsIInv'
  <1>1. /\ todo' \in [Threads -> Seq(Seq(Steps))] /\ todo'[t] = rest
        /\ \A s \in Threads : s # t => todo'[s] = todo[s]
    BY DEF Continue, ThreadsIInv, WorkList
  <1>2. /\ local' = [s \in Threads |-> local'[s]]
        /\ local'[t] = IF rest = <<>> THEN Fresh ELSE locals
        /\ \A s \in Threads : s # t => local'[s] = local[s]
    <2>1. local' = [local EXCEPT ![t] = IF rest = <<>> THEN Fresh ELSE locals]
      BY DEF Continue
    <2>2. local = [s \in Threads |-> local[s]]
      BY DEF ThreadsIInv
    <2> QED BY <2>1, <2>2
  <1>3. LocalTyped(t)'
    BY <1>2 DEF LocalTyped, Fresh, Zero, Bridge!Zero, Bridge!MoveVelocity, Bridge!MotionProfile,
                TopSpeed, Bridge!SPORT_MAX_LINEAR_SPEED
  <1>4. WorkList(todo[t])' /\ Prepared(t)'
    BY <1>1, <1>2 DEF Prepared, Next1, NextOf, WorkList
  <1>5. \A s \in Threads : s # t => WorkList(todo[s])' /\ LocalTyped(s)' /\ Prepared(s)'
    BY <1>1, <1>2 DEF ThreadsIInv, LocalTyped, Prepared, Next1, WorkList
  <1>6. UNCHANGED <<apis, lastStop, overtaken>>
    BY DEF Continue
  <1> QED BY <1>1, <1>2, <1>3, <1>4, <1>5, <1>6 DEF ThreadsIInv

-----------------------------------------------------------------------------
(* Doing a step.                                                           *)

ChainedNames == {"ScaleToCap", "StoreLastVelocity", "PublishCopy"}

\* A step is chained if its name says so.
LEMMA ChainedByName ==
  ASSUME NEW s \in Steps, s[1] \in ChainedNames
  PROVE  s \in ChainedSteps
  <1>1. CASE s \in FieldSteps
    BY <1>1 DEF FieldSteps, ChainedNames
  <1>2. CASE s \in {<<op>> : op \in PlainDos}
    BY <1>2 DEF PlainDos, ChainedNames
  <1>3. CASE s \in {Publish(Zero)} \cup {<<"TakeParameter", v>> : v \in Bridge!ParsedVelocities}
    BY <1>3 DEF Publish, ChainedNames
  <1> QED BY <1>1, <1>2, <1>3 DEF PlainSteps, Steps

LEMMA NextIsStep ==
  ASSUME NEW w, WorkList(w), w # <<>>
  PROVE  NextOf(w) \in Steps
  <1>1. w \in Seq(Seq(Steps)) /\ Len(w) \in Nat \ {0} /\ Head(w) = w[1]
    BY LenProperties, EmptySeq, HeadOfSeq DEF WorkList
  <1>2. w[1] \in Seq(Steps) /\ w[1] # <<>>
    BY <1>1 DEF WorkList, Rest
  <1> QED BY <1>1, <1>2, HeadTailProperties DEF NextOf

\* What comes after a step, by its name.
LEMMA WhatIsNext ==
  ASSUME NEW t \in Threads, todo[t] # <<>>, WorkList(todo[t])
  PROVE  /\ Next1(t) \in Steps
         /\ WorkList(AfterStep(t)) /\ WorkList(Tail(todo[t])) /\ WorkList(<<>>)
         /\ AfterStep(t) # <<>> =>
              /\ NextOf(AfterStep(t))[1] = "ScaleToCap" => Next1(t)[1] = "CompareWithCap"
              /\ NextOf(AfterStep(t))[1] = "StoreLastVelocity" => Next1(t)[1] = "ScaleToCap"
              /\ NextOf(AfterStep(t))[1] = "PublishCopy" => Next1(t)[1] = "CopyLastVelocity"
         /\ Tail(todo[t]) # <<>> => NextOf(Tail(todo[t]))[1] \notin ChainedNames
  <1>1. /\ Next1(t) \in Steps
        /\ WorkList(AfterStep(t)) /\ WorkList(Tail(todo[t]))
        /\ AfterStep(t) # <<>> /\ NextOf(AfterStep(t)) \in ChainedSteps =>
             Next1(t) = <<Before(NextOf(AfterStep(t))[1])>>
        /\ Tail(todo[t]) # <<>> => NextOf(Tail(todo[t])) \notin ChainedSteps
    BY WorkGoesOn
  <1>2. WorkList(<<>>)
    BY EmptySeq DEF WorkList
  <1>3. Tail(todo[t]) # <<>> => NextOf(Tail(todo[t]))[1] \notin ChainedNames
    BY <1>1, NextIsStep, ChainedByName
  <1>4. ASSUME AfterStep(t) # <<>>, NextOf(AfterStep(t))[1] \in ChainedNames
        PROVE  Next1(t)[1] = Before(NextOf(AfterStep(t))[1])
    BY <1>1, <1>4, NextIsStep, ChainedByName
  <1> QED BY <1>1, <1>2, <1>3, <1>4 DEF ChainedNames, Before

\* What a step on a field, and each other with an operand, carries.
LEMMA Operands ==
  ASSUME NEW s \in Steps
  PROVE  /\ s[1] \in {"Set", "ReturnIf", "ReturnUnless"} => s[2] \in Fields /\ s[3] \in FieldType[s[2]]
         /\ s[1] = "Publish" => s[2] = Zero
         /\ s[1] = "TakeParameter" => s[2] \in Bridge!ParsedVelocities
  <1>1. CASE s \in FieldSteps
    BY <1>1 DEF FieldSteps
  <1>2. CASE s \in {<<op>> : op \in PlainDos} \cup ChainedSteps
    BY <1>2 DEF PlainDos, ChainedSteps
  <1>3. CASE s \in {Publish(Zero)} \cup {<<"TakeParameter", v>> : v \in Bridge!ParsedVelocities}
    BY <1>3 DEF Publish
  <1> QED BY <1>1, <1>2, <1>3 DEF PlainSteps, Steps

LEMMA ParsedIsTyped == Bridge!ParsedVelocities \subseteq Bridge!MoveVelocity
  <1> SUFFICES ASSUME NEW v \in [lin : LinearSpeeds \cup {0}, yaw : YawRates \cup {0}]
               PROVE  v \in [lin : Nat, yaw : Int]
    BY DEF Bridge!ParsedVelocities, Bridge!MoveVelocity
  <1>1. LinearSpeeds \cup {0} \subseteq Nat /\ YawRates \cup {0} \subseteq Int
    BY ThreadsAssumption
  <1> QED BY <1>1

LEMMA SpeedFacts ==
  /\ TopSpeed = 60 /\ Limited \subseteq Bridge!MoveVelocity /\ Zero \in Limited
  /\ \A profile, level : Bridge!MaxLinearSpeed(profile, level) \in 0 .. TopSpeed
  BY DEF TopSpeed, Limited, Zero, Bridge!Zero, Bridge!MoveVelocity, Bridge!MaxLinearSpeed,
         Bridge!SPORT_MAX_LINEAR_SPEED, Bridge!AI_HIGH_MAX_LINEAR_SPEED,
         Bridge!AI_LOW_MAX_LINEAR_SPEED

\* A field that is set to a value of its type.
LEMMA SetKeepsMemory ==
  ASSUME MemoryTyped, NEW f \in Fields, NEW v \in FieldType[f], mem' = [mem EXCEPT ![f] = v]
  PROVE  MemoryTyped'
  BY DEF MemoryTyped

\* The fields that the steps read or write by name.
LEMMA NamedFields ==
  ASSUME MemoryTyped
  PROVE  /\ mem.m_maxLinearSpeed \in 0 .. TopSpeed /\ mem.m_lastVelocity \in Limited
         /\ mem.m_motionProfile \in Bridge!MotionProfile
         /\ mem.moveAge \in 0 .. MOVE_STOP_TIMEOUT
         /\ {"m_lastVelocity", "m_maxLinearSpeed", "moveAge"} \subseteq Fields
         /\ FieldType["m_lastVelocity"] = Limited
         /\ FieldType["m_maxLinearSpeed"] = 0 .. TopSpeed
         /\ FieldType["moveAge"] = 0 .. MOVE_STOP_TIMEOUT
  <1>1. {"m_lastVelocity", "m_maxLinearSpeed", "moveAge", "m_motionProfile"} \subseteq Fields
    BY DEF Fields, FieldType
  <1>2. /\ FieldType["m_lastVelocity"] = Limited
        /\ FieldType["m_maxLinearSpeed"] = 0 .. TopSpeed
        /\ FieldType["moveAge"] = 0 .. MOVE_STOP_TIMEOUT
        /\ FieldType["m_motionProfile"] = Bridge!MotionProfile
    BY DEF FieldType
  <1>3. \A f \in Fields : mem[f] \in FieldType[f]
    BY DEF MemoryTyped
  <1> HIDE DEF Fields, FieldType
  <1> QED BY <1>1, <1>2, <1>3

\* Whatever a thread does next keeps the invariant: it stores no velocity but one
\* that has been scaled since it was compared, and the caps are all within bounds.
LEMMA StepKeepsIInv ==
  ASSUME ThreadsIInv, NEW t \in Threads, Step(t)
  PROVE  ThreadsIInv'
  <1> DEFINE step == Next1(t)
             own  == local[t]
             OwnType == [velocity : Bridge!MoveVelocity, over : BOOLEAN,
                         profile : Bridge!MotionProfile, cap : 0 .. TopSpeed]
  <1>1. /\ todo[t] # <<>> /\ WorkList(todo[t]) /\ MemoryTyped /\ twist \in Limited
        /\ own \in OwnType
        /\ step[1] = "ScaleToCap" /\ ~own.over => own.velocity.lin <= TopSpeed
        /\ step[1] \in {"StoreLastVelocity", "PublishCopy"} => own.velocity.lin <= TopSpeed
    BY DEF ThreadsIInv, LocalTyped, Prepared, Step, Idle
  <1>2. /\ step \in Steps
        /\ WorkList(AfterStep(t)) /\ WorkList(Tail(todo[t])) /\ WorkList(<<>>)
        /\ AfterStep(t) # <<>> =>
             /\ NextOf(AfterStep(t))[1] = "ScaleToCap" => step[1] = "CompareWithCap"
             /\ NextOf(AfterStep(t))[1] = "StoreLastVelocity" => step[1] = "ScaleToCap"
             /\ NextOf(AfterStep(t))[1] = "PublishCopy" => step[1] = "CopyLastVelocity"
        /\ Tail(todo[t]) # <<>> => NextOf(Tail(todo[t]))[1] \notin ChainedNames
    BY <1>1, WhatIsNext
  <1>3. /\ step[1] \in {"Set", "ReturnIf", "ReturnUnless"} =>
             step[2] \in Fields /\ step[3] \in FieldType[step[2]]
        /\ step[1] = "Publish" => step[2] = Zero
        /\ step[1] = "TakeParameter" => step[2] \in Bridge!ParsedVelocities
    BY <1>2, Operands
  <1>4. /\ mem.m_maxLinearSpeed \in 0 .. TopSpeed /\ mem.m_lastVelocity \in Limited
        /\ mem.m_motionProfile \in Bridge!MotionProfile
        /\ {"m_lastVelocity", "m_maxLinearSpeed"} \subseteq Fields
        /\ FieldType["m_lastVelocity"] = Limited
        /\ FieldType["m_maxLinearSpeed"] = 0 .. TopSpeed
    BY <1>1, NamedFields
  <1> DEFINE Leading == {"CompareWithCap", "ScaleToCap", "CopyLastVelocity"}
  <1> HIDE DEF step, own
  <1>5. ASSUME NEW f \in Fields, NEW v \in FieldType[f], Write(t, f, v),
               step[1] \notin Leading
        PROVE  ThreadsIInv'
    <2>1. MemoryTyped' /\ twist' \in Limited
      BY <1>1, <1>5, SetKeepsMemory DEF Write
    <2>2. Continue(t, AfterStep(t), own)
      BY <1>5 DEF Write, own
    <2> QED BY <1>1, <1>2, <1>5, <2>1, <2>2, Continuing
  <1>6. ASSUME NEW v \in Limited, WriteTwist(t, v), step[1] \notin Leading
        PROVE  ThreadsIInv'
    <2>1. MemoryTyped' /\ twist' \in Limited
      BY <1>1, <1>6 DEF WriteTwist, MemoryTyped
    <2>2. Continue(t, AfterStep(t), own)
      BY <1>6 DEF WriteTwist, own
    <2> QED BY <1>1, <1>2, <1>6, <2>1, <2>2, Continuing
  <1>7. ASSUME NEW locals \in OwnType, Read(t, locals),
               step[1] = "CompareWithCap" /\ ~locals.over => locals.velocity.lin <= TopSpeed,
               step[1] \in {"ScaleToCap", "CopyLastVelocity"} => locals.velocity.lin <= TopSpeed
        PROVE  ThreadsIInv'
    <2>1. MemoryTyped' /\ twist' \in Limited
      BY <1>1, <1>7 DEF Read, MemoryTyped
    <2>2. Continue(t, AfterStep(t), locals)
      BY <1>7 DEF Read
    <2> QED BY <1>2, <1>7, <2>1, <2>2, Continuing
  <1>8. ASSUME NEW rest \in {<<>>, AfterStep(t), Tail(todo[t])}, Jump(t, rest),
               step[1] \notin Leading
        PROVE  ThreadsIInv'
    <2>1. MemoryTyped' /\ twist' \in Limited
      BY <1>1, <1>8 DEF Jump, MemoryTyped
    <2>2. Continue(t, rest, own)
      BY <1>8 DEF Jump, own
    <2> QED BY <1>1, <1>2, <1>8, <2>1, <2>2, Continuing DEF ChainedNames
  <1>9. CASE step[1] = "Set" /\ Write(t, step[2], step[3])
    BY <1>3, <1>5, <1>9
  <1>10. CASE \/ step[1] = "ReturnIf"
                 /\ Jump(t, IF mem[step[2]] = step[3] THEN Tail(todo[t]) ELSE AfterStep(t))
              \/ step[1] = "ReturnUnless"
                 /\ Jump(t, IF mem[step[2]] = step[3] THEN AfterStep(t) ELSE Tail(todo[t]))
              \/ step[1] = "Finish" /\ Jump(t, <<>>)
    BY <1>8, <1>10
  <1>11. CASE step[1] = "Publish" /\ WriteTwist(t, step[2])
    BY <1>3, <1>6, <1>11, SpeedFacts
  <1>12. ASSUME step[1] \in {"StoreLastVelocity", "PublishCopy"}
         PROVE  own.velocity \in Limited
    <2>1. own.velocity \in [lin : Nat, yaw : Int] /\ own.velocity.lin <= TopSpeed
      BY <1>1, <1>12 DEF Bridge!MoveVelocity
    <2>2. own.velocity.lin \in 0 .. TopSpeed /\ own.velocity.yaw \in Int
      BY <2>1, SpeedFacts
    <2> QED BY <2>1, <2>2 DEF Limited
  <1>13. CASE step[1] = "PublishCopy" /\ WriteTwist(t, own.velocity)
    BY <1>6, <1>12, <1>13
  <1>14. CASE step[1] = "TakeParameter" /\ Read(t, [own EXCEPT !.velocity = step[2]])
    <2>1. [own EXCEPT !.velocity = step[2]] \in OwnType
      BY <1>1, <1>3, <1>14, ParsedIsTyped
    <2> QED BY <1>7, <1>14, <2>1
  <1>15. CASE step[1] = "CopyLastVelocity" /\ Read(t, [own EXCEPT !.velocity = mem.m_lastVelocity])
    <2>1. mem.m_lastVelocity \in Bridge!MoveVelocity /\ mem.m_lastVelocity.lin <= TopSpeed
      BY <1>4, SpeedFacts DEF Limited
    <2> DEFINE locals == [own EXCEPT !.velocity = mem.m_lastVelocity]
    <2>2. locals \in OwnType /\ locals.velocity = mem.m_lastVelocity
      BY <1>1, <2>1
    <2> HIDE DEF locals
    <2>3. Read(t, locals)
      BY <1>15 DEF locals
    <2> QED BY <1>7, <1>15, <2>1, <2>2, <2>3
  <1>16. CASE /\ step[1] = "CompareWithCap"
              /\ Read(t, [own EXCEPT !.over = own.velocity.lin > mem.m_maxLinearSpeed])
    <2> DEFINE over   == own.velocity.lin > mem.m_maxLinearSpeed
               locals == [own EXCEPT !.over = over]
    <2>1. locals \in OwnType /\ locals.velocity = own.velocity
      <3>1. over \in BOOLEAN
        OBVIOUS
      <3> HIDE DEF over
      <3> QED BY <1>1, <3>1
    <2>2. locals.over = (own.velocity.lin > mem.m_maxLinearSpeed)
      BY <1>1
    <2>3. own.velocity.lin \in Nat
      BY <1>1 DEF Bridge!MoveVelocity
    <2>4. ~locals.over => locals.velocity.lin <= TopSpeed
      BY <2>1, <2>2, <2>3, <1>4, SpeedFacts
    <2> QED BY <1>7, <1>16, <2>1, <2>4
  <1>17. CASE /\ step[1] = "ScaleToCap"
              /\ Read(t, IF own.over THEN [own EXCEPT !.velocity.lin = mem.m_maxLinearSpeed] ELSE own)
    <2>1. CASE own.over
      <3> DEFINE locals == [own EXCEPT !.velocity.lin = mem.m_maxLinearSpeed]
      <3>1. mem.m_maxLinearSpeed \in Nat /\ mem.m_maxLinearSpeed <= TopSpeed
        BY <1>4, SpeedFacts
      <3>2. locals \in OwnType /\ locals.velocity.lin = mem.m_maxLinearSpeed
        BY <1>1, <3>1 DEF Bridge!MoveVelocity
      <3> QED BY <1>7, <1>17, <2>1, <3>1, <3>2
    <2>2. CASE ~own.over
      BY <1>1, <1>7, <1>17, <2>2
    <2> QED BY <2>1, <2>2
  <1>18. CASE step[1] = "StoreLastVelocity" /\ Write(t, "m_lastVelocity", own.velocity)
    BY <1>4, <1>5, <1>12, <1>18
  <1>19. CASE step[1] = "ReadProfile" /\ Read(t, [own EXCEPT !.profile = mem.m_motionProfile])
    <2>1. [own EXCEPT !.profile = mem.m_motionProfile] \in OwnType
      BY <1>1, <1>4
    <2> QED BY <1>7, <1>19, <2>1
  <1>20. CASE /\ step[1] = "ChooseCap"
              /\ Read(t, [own EXCEPT !.cap = Bridge!MaxLinearSpeed(own.profile, mem.m_speedLevel)])
    <2>1. [own EXCEPT !.cap = Bridge!MaxLinearSpeed(own.profile, mem.m_speedLevel)] \in OwnType
      BY <1>1, SpeedFacts
    <2> QED BY <1>7, <1>20, <2>1
  <1>21. CASE step[1] = "StoreCap" /\ Write(t, "m_maxLinearSpeed", own.cap)
    BY <1>1, <1>4, <1>5, <1>21
  <1> QED
    BY <1>9, <1>10, <1>11, <1>13, <1>14, <1>15, <1>16, <1>17, <1>18, <1>19, <1>20, <1>21
       DEF Step, step, own

-----------------------------------------------------------------------------
(* The methods are methods.                                                *)

\* The steps on a field with a value of its type are plain.
LEMMA FieldStep ==
  ASSUME NEW f \in Fields, NEW v \in FieldType[f]
  PROVE  {Set(f, v), ReturnIf(f, v), ReturnUnless(f, v)} \subseteq PlainSteps
  <1>1. {<<"Set", f, v>>, <<"ReturnIf", f, v>>, <<"ReturnUnless", f, v>>} \subseteq FieldSteps
    BY DEF FieldSteps
  <1> QED BY <1>1 DEF PlainSteps, Set, ReturnIf, ReturnUnless

\* What each field may be set to or compared with.
LEMMA FieldValues ==
  /\ \A f \in {"m_continuousMoveMode", "m_jointsLocked", "m_hasActiveMove", "mSilent"} :
       f \in Fields /\ FieldType[f] = BOOLEAN
  /\ "m_walkMode" \in Fields /\ FieldType["m_walkMode"] = Bridge!WalkMode
  /\ "m_motionProfile" \in Fields /\ FieldType["m_motionProfile"] = Bridge!MotionProfile
  /\ "m_speedLevel" \in Fields /\ FieldType["m_speedLevel"] = Int
  /\ "m_maxLinearSpeed" \in Fields /\ FieldType["m_maxLinearSpeed"] = 0 .. TopSpeed
  /\ "m_lastVelocity" \in Fields /\ FieldType["m_lastVelocity"] = Limited
  /\ "moveAge" \in Fields /\ FieldType["moveAge"] = 0 .. MOVE_STOP_TIMEOUT
  /\ "mForm" \in Fields /\ FieldType["mForm"] = Bridge!Forms
  /\ "mModeName" \in Fields /\ FieldType["mModeName"] = Bridge!SelectedModes
  /\ "mRobotPosture" \in Fields /\ FieldType["mRobotPosture"] = Bridge!RobotPosture
  BY DEF Fields, FieldType

LEMMA FieldNames ==
  Fields = {"m_continuousMoveMode", "m_jointsLocked", "m_hasActiveMove", "mSilent",
            "m_walkMode", "m_motionProfile", "m_speedLevel", "m_maxLinearSpeed",
            "m_lastVelocity", "moveAge", "mForm", "mModeName", "mRobotPosture"}
  BY DEF Fields, FieldType

\* The steps without a field that are plain.
LEMMA OtherSteps ==
  /\ \A op \in PlainDos : Do(op) \in PlainSteps
  /\ Publish(Zero) \in PlainSteps
  /\ \A v \in Bridge!ParsedVelocities : <<"TakeParameter", v>> \in PlainSteps
  BY DEF PlainSteps, Do

Methods == {m \in Seq(Steps) : Method(m)}

LEMMA MethodIsRest ==
  ASSUME NEW m \in Methods
  PROVE  Method(m) /\ Rest(m) /\ m[1] \notin ChainedSteps
  BY DEF Methods, Method

LEMMA PlainMethods == \A m \in Seq(PlainSteps) : m # <<>> => m \in Methods
  BY PlainMethod DEF Methods, Method, Rest

LEMMA Join ==
  ASSUME NEW m \in Methods, NEW n \in Methods
  PROVE  m \o n \in Methods
  BY JoinMethods, MethodIsRest DEF Methods, Method, Rest

\* A limited velocity may be stored.
LEMMA LimitThenStore ==
  ASSUME NEW m \in Methods, NEW n \in Seq(Steps), Rest(n), n[1] = Do("StoreLastVelocity")
  PROVE  m \o ApplySpeedLimit \o n \in Methods
  <1>1. <<"CompareWithCap">> \in PlainSteps
    BY OtherSteps DEF PlainDos, Do
  <1>2. ApplySpeedLimit \in Methods
    <2>1. ApplySpeedLimit \in Seq(Steps) /\ ApplySpeedLimit # <<>>
      BY <1>1 DEF ApplySpeedLimit, Do, Steps, ChainedSteps
    <2>2. <<"CompareWithCap">> \notin ChainedSteps
      BY <1>1, PlainIsNotChained
    <2>3. \A k \in 2 .. Len(ApplySpeedLimit) : ApplySpeedLimit[k - 1] = <<Before(ApplySpeedLimit[k][1])>>
      BY DEF ApplySpeedLimit, Do, Before
    <2> QED BY <2>1, <2>2, <2>3 DEF Methods, Method, Rest, ApplySpeedLimit, Do
  <1>3. m \o ApplySpeedLimit \in Methods
    BY <1>2, Join
  <1>4. (m \o ApplySpeedLimit)[Len(m \o ApplySpeedLimit)] = <<"ScaleToCap">>
    <2>1. m \in Seq(Steps) /\ ApplySpeedLimit \in Seq(Steps) /\ Len(ApplySpeedLimit) = 2
          /\ ApplySpeedLimit[2] = <<"ScaleToCap">>
      BY <1>2 DEF Methods, ApplySpeedLimit, Do
    <2>2. Len(m) \in Nat
      BY <2>1, LenProperties
    <2>3. /\ Len(m \o ApplySpeedLimit) = Len(m) + 2
          /\ \A i \in 1 .. Len(m) + 2 :
               (m \o ApplySpeedLimit)[i] = IF i <= Len(m) THEN m[i] ELSE ApplySpeedLimit[i - Len(m)]
      <3>1. /\ Len(m \o ApplySpeedLimit) = Len(m) + Len(ApplySpeedLimit)
            /\ \A i \in 1 .. Len(m) + Len(ApplySpeedLimit) : (m \o ApplySpeedLimit)[i] =
                 IF i <= Len(m) THEN m[i] ELSE ApplySpeedLimit[i - Len(m)]
        BY <2>1, ConcatProperties, Zenon
      <3> QED BY <3>1, <2>1
    <2>4. Len(m) + 2 \in 1 .. Len(m) + 2 /\ ~(Len(m) + 2 <= Len(m)) /\ (Len(m) + 2) - Len(m) = 2
      BY <2>2
    <2> QED BY <2>1, <2>3, <2>4
  <1>5. n[1] = <<"StoreLastVelocity">> /\ Before(n[1][1]) = "ScaleToCap"
    BY DEF Before, Do
  <1>6. Method((m \o ApplySpeedLimit) \o n)
    BY <1>3, <1>4, <1>5, JoinMethods, MethodIsRest
  <1> QED BY <1>6 DEF Methods, Method, Rest

\* Methods of one to four plain steps.
LEMMA Tuples ==
  /\ \A a \in PlainSteps : <<a>> \in Methods
  /\ \A a, b \in PlainSteps : <<a, b>> \in Methods
  /\ \A a, b, c \in PlainSteps : <<a, b, c>> \in Methods
  /\ \A a, b, c, d \in PlainSteps : <<a, b, c, d>> \in Methods
  <1>1. ASSUME NEW a \in PlainSteps
        PROVE  <<a>> \in Methods
    <2>1. <<a>> \in Seq(PlainSteps) /\ <<a>> # <<>>
      OBVIOUS
    <2> QED BY <2>1, PlainMethods, Zenon
  <1>2. ASSUME NEW a \in PlainSteps, NEW b \in PlainSteps
        PROVE  <<a, b>> \in Methods
    <2>1. <<a, b>> \in Seq(PlainSteps) /\ <<a, b>> # <<>>
      OBVIOUS
    <2> QED BY <2>1, PlainMethods, Zenon
  <1>3. ASSUME NEW a \in PlainSteps, NEW b \in PlainSteps, NEW c \in PlainSteps
        PROVE  <<a, b, c>> \in Methods
    <2>1. <<a, b, c>> \in Seq(PlainSteps) /\ <<a, b, c>> # <<>>
      OBVIOUS
    <2> QED BY <2>1, PlainMethods, Zenon
  <1>4. ASSUME NEW a \in PlainSteps, NEW b \in PlainSteps, NEW c \in PlainSteps, NEW d \in PlainSteps
        PROVE  <<a, b, c, d>> \in Methods
    <2>1. <<a, b, c, d>> \in Seq(PlainSteps) /\ <<a, b, c, d>> # <<>>
      OBVIOUS
    <2> QED BY <2>1, PlainMethods, Zenon
  <1> QED BY <1>1, <1>2, <1>3, <1>4

\* The steps of the methods, by the field they are on.
LEMMA StepsOfMethods ==
  /\ \A f \in {"m_continuousMoveMode", "m_jointsLocked", "m_hasActiveMove", "mSilent"} :
       \A b \in BOOLEAN : {Set(f, b), ReturnIf(f, b), ReturnUnless(f, b)} \subseteq PlainSteps
  /\ \A w \in Bridge!WalkMode :
       Set("m_walkMode", w) \in PlainSteps /\ ReturnUnless("m_walkMode", w) \in PlainSteps
  /\ \A p \in Bridge!MotionProfile :
       Set("m_motionProfile", p) \in PlainSteps /\ ReturnIf("m_motionProfile", p) \in PlainSteps
  /\ \A l \in Int : Set("m_speedLevel", l) \in PlainSteps
  /\ \A c \in 0 .. TopSpeed : Set("m_maxLinearSpeed", c) \in PlainSteps
  /\ \A v \in Limited : Set("m_lastVelocity", v) \in PlainSteps
  /\ \A a \in 0 .. MOVE_STOP_TIMEOUT :
       Set("moveAge", a) \in PlainSteps /\ ReturnUnless("moveAge", a) \in PlainSteps
  /\ \A f \in Bridge!Forms : Set("mForm", f) \in PlainSteps
  /\ \A n \in Bridge!SelectedModes : Set("mModeName", n) \in PlainSteps
  /\ \A p \in Bridge!RobotPosture :
       Set("mRobotPosture", p) \in PlainSteps /\ ReturnUnless("mRobotPosture", p) \in PlainSteps
  <1>1. \A f \in {"m_continuousMoveMode", "m_jointsLocked", "m_hasActiveMove", "mSilent"} :
          \A b \in BOOLEAN : {Set(f, b), ReturnIf(f, b), ReturnUnless(f, b)} \subseteq PlainSteps
    BY FieldStep, FieldValues
  <1>2. \A w \in Bridge!WalkMode :
          Set("m_walkMode", w) \in PlainSteps /\ ReturnUnless("m_walkMode", w) \in PlainSteps
    BY FieldStep, FieldValues
  <1>3. \A p \in Bridge!MotionProfile :
          Set("m_motionProfile", p) \in PlainSteps /\ ReturnIf("m_motionProfile", p) \in PlainSteps
    BY FieldStep, FieldValues
  <1>4. \A l \in Int : Set("m_speedLevel", l) \in PlainSteps
    BY FieldStep, FieldValues
  <1>5. \A c \in 0 .. TopSpeed : Set("m_maxLinearSpeed", c) \in PlainSteps
    BY FieldStep, FieldValues
  <1>6. \A v \in Limited : Set("m_lastVelocity", v) \in PlainSteps
    BY FieldStep, FieldValues
  <1>7. \A a \in 0 .. MOVE_STOP_TIMEOUT :
          Set("moveAge", a) \in PlainSteps /\ ReturnUnless("moveAge", a) \in PlainSteps
    BY FieldStep, FieldValues
  <1>8. \A f \in Bridge!Forms : Set("mForm", f) \in PlainSteps
    BY FieldStep, FieldValues
  <1>9. \A n \in Bridge!SelectedModes : Set("mModeName", n) \in PlainSteps
    BY FieldStep, FieldValues
  <1>10. \A p \in Bridge!RobotPosture :
           Set("mRobotPosture", p) \in PlainSteps /\ ReturnUnless("mRobotPosture", p) \in PlainSteps
    BY FieldStep, FieldValues
  <1> QED BY <1>1, <1>2, <1>3, <1>4, <1>5, <1>6, <1>7, <1>8, <1>9, <1>10

\* PublishMove writes what it has just copied.
LEMMA PublishMoveMethod == PublishMove \in Methods
  <1>1. <<"CopyLastVelocity">> \in PlainSteps
    BY OtherSteps DEF PlainDos, Do
  <1>2. PublishMove \in Seq(Steps) /\ PublishMove # <<>>
    BY <1>1 DEF PublishMove, Do, Steps, ChainedSteps
  <1>3. <<"CopyLastVelocity">> \notin ChainedSteps
    BY <1>1, PlainIsNotChained
  <1>4. \A k \in 2 .. Len(PublishMove) : PublishMove[k - 1] = <<Before(PublishMove[k][1])>>
    BY DEF PublishMove, Do, Before
  <1> QED BY <1>2, <1>3, <1>4 DEF Methods, Method, Rest, PublishMove, Do

\* A limited velocity is stored by RepublishActiveMove, and counts as a fresh
\* command in HandleMove.
LEMMA StoringTails ==
  LET republish == <<Do("StoreLastVelocity")>>
      drive     == <<Do("StoreLastVelocity"), Set("moveAge", 0), Set("m_hasActiveMove", TRUE)>>
  IN /\ republish \in Seq(Steps) /\ Rest(republish) /\ republish[1] = Do("StoreLastVelocity")
     /\ drive \in Seq(Steps) /\ Rest(drive) /\ drive[1] = Do("StoreLastVelocity")
  <1> DEFINE st == Do("StoreLastVelocity")
             a  == Set("moveAge", 0)
             b  == Set("m_hasActiveMove", TRUE)
  <1>1. a \in PlainSteps /\ b \in PlainSteps
    <2>1. 0 \in 0 .. MOVE_STOP_TIMEOUT
      BY ThreadsAssumption
    <2>2. a \in PlainSteps
      BY <2>1, StepsOfMethods, Zenon
    <2>3. b \in PlainSteps
      BY StepsOfMethods, Zenon
    <2> QED BY <2>2, <2>3
  <1> HIDE DEF st, a, b
  <1>2. st \in Steps
    BY DEF st, Do, Steps, ChainedSteps
  <1>3. {a, b} \subseteq Steps /\ {a, b} \cap ChainedSteps = {}
    BY <1>1, PlainIsNotChained DEF Steps
  <1>4. <<st>> \in Seq(Steps) /\ Rest(<<st>>) /\ <<st>>[1] = st
    BY <1>2 DEF Rest
  <1>5. <<st, a, b>> \in Seq(Steps) /\ Rest(<<st, a, b>>) /\ <<st, a, b>>[1] = st
    BY <1>2, <1>3 DEF Rest
  <1> QED BY <1>4, <1>5, Zenon DEF st, a, b

LEMMA PostureMethods ==
  /\ \A p \in Bridge!RobotPosture : SetRobotPosture(p) \in Methods
  /\ ResetSwitcher \in Methods
  <1>1. \A p \in Bridge!RobotPosture : SetRobotPosture(p) \in Methods
    BY StepsOfMethods, Tuples DEF SetRobotPosture
  <1>2. <<Set("mForm", "0"), Set("mModeName", "ai"), Set("mSilent", FALSE)>> \in Methods
    <2>1. Set("mForm", "0") \in PlainSteps /\ Set("mModeName", "ai") \in PlainSteps
      BY StepsOfMethods DEF Bridge!Forms, Bridge!SelectedModes
    <2>2. Set("mSilent", FALSE) \in PlainSteps
      BY StepsOfMethods
    <2> QED BY <2>1, <2>2, Tuples
  <1> QED BY <1>1, <1>2, Join DEF ResetSwitcher, Bridge!RobotPosture

LEMMA StopMethods ==
  {Nothing, LockJoints, UnlockJoints, HandleStop, Tick} \subseteq Methods
  <1>1. \A f \in {"m_continuousMoveMode", "m_jointsLocked", "m_hasActiveMove"} :
          \A b \in BOOLEAN : {Set(f, b), ReturnIf(f, b), ReturnUnless(f, b)} \subseteq PlainSteps
    BY StepsOfMethods
  <1>2. Publish(Zero) \in PlainSteps /\ Do("Finish") \in PlainSteps
    BY OtherSteps DEF PlainDos
  <1>3. ReturnUnless("moveAge", MOVE_STOP_TIMEOUT) \in PlainSteps
    BY StepsOfMethods, ThreadsAssumption
  <1>4. Nothing \in Methods /\ LockJoints \in Methods /\ UnlockJoints \in Methods /\ HandleStop \in Methods
    BY <1>1, <1>2, Tuples DEF Nothing, LockJoints, UnlockJoints, HandleStop
  <1>5. <<ReturnIf("m_jointsLocked", TRUE), ReturnIf("m_continuousMoveMode", TRUE),
          ReturnUnless("m_hasActiveMove", TRUE), ReturnUnless("moveAge", MOVE_STOP_TIMEOUT)>> \in Methods
    BY <1>1, <1>3, Tuples
  <1> QED BY <1>4, <1>5, Join DEF Tick

LEMMA ResetPublisherMethod == ResetPublisher \in Methods
  <1> DEFINE s1  == Set("m_continuousMoveMode", FALSE)
             s2  == Set("m_jointsLocked", TRUE)
             s3  == Set("m_walkMode", "None")
             s4  == Set("m_hasActiveMove", FALSE)
             s5  == Set("m_motionProfile", "Ai")
             s6  == Set("m_speedLevel", -1)
             s7  == Set("m_maxLinearSpeed", Bridge!AI_LOW_MAX_LINEAR_SPEED)
             s8  == Set("m_lastVelocity", Zero)
             s9  == Set("moveAge", 0)
             s10 == Publish(Zero)
  <1>1. s1 \in PlainSteps /\ s2 \in PlainSteps /\ s4 \in PlainSteps
    BY StepsOfMethods
  <1>2. s3 \in PlainSteps /\ s5 \in PlainSteps
    BY StepsOfMethods DEF Bridge!WalkMode, Bridge!MotionProfile
  <1>3. s6 \in PlainSteps
    BY StepsOfMethods
  <1>4. s7 \in PlainSteps
    BY StepsOfMethods, SpeedFacts DEF Bridge!AI_LOW_MAX_LINEAR_SPEED
  <1>5. s8 \in PlainSteps
    BY StepsOfMethods, SpeedFacts
  <1>6. s9 \in PlainSteps
    BY StepsOfMethods, ThreadsAssumption
  <1>7. s10 \in PlainSteps
    BY OtherSteps
  <1> HIDE DEF s1, s2, s3, s4, s5, s6, s7, s8, s9, s10
  <1>8. <<s1, s2, s3, s4, s5, s6, s7, s8, s9, s10>> \in Seq(PlainSteps)
    BY <1>1, <1>2, <1>3, <1>4, <1>5, <1>6, <1>7
  <1>9. <<s1, s2, s3, s4, s5, s6, s7, s8, s9, s10>> # <<>>
    OBVIOUS
  <1>10. <<s1, s2, s3, s4, s5, s6, s7, s8, s9, s10>> \in Methods
    BY <1>8, <1>9, PlainMethods, Zenon
  <1> QED BY <1>10, Zenon DEF ResetPublisher, s1, s2, s3, s4, s5, s6, s7, s8, s9, s10

LEMMA CapMethods ==
  /\ ApplyMaxLinearSpeed \in Methods /\ RepublishActiveMove \in Methods
  /\ \A level \in Int : SetSpeedLevel(level) \in Methods
  /\ \A name : SetMotionModeName(name) \in Methods
  <1>1. ApplyMaxLinearSpeed \in Methods
    BY OtherSteps, Tuples DEF ApplyMaxLinearSpeed, PlainDos
  <1>2. RepublishActiveMove \in Methods
    <2>1. <<ReturnIf("m_jointsLocked", TRUE), ReturnUnless("m_hasActiveMove", TRUE),
            Do("CopyLastVelocity")>> \in Methods
      <3>1. ReturnIf("m_jointsLocked", TRUE) \in PlainSteps /\ ReturnUnless("m_hasActiveMove", TRUE) \in PlainSteps
        BY StepsOfMethods
      <3>2. Do("CopyLastVelocity") \in PlainSteps
        BY OtherSteps DEF PlainDos
      <3> QED BY <3>1, <3>2, Tuples
    <2> QED BY <2>1, StoringTails, LimitThenStore, PublishMoveMethod, Join DEF RepublishActiveMove
  <1>3. ASSUME NEW level \in Int
        PROVE  SetSpeedLevel(level) \in Methods
    <2>1. <<Set("m_speedLevel", level), ReturnIf("m_motionProfile", "Sport")>> \in Methods
      <3>1. Set("m_speedLevel", level) \in PlainSteps
        BY StepsOfMethods
      <3>2. ReturnIf("m_motionProfile", "Sport") \in PlainSteps
        BY StepsOfMethods DEF Bridge!MotionProfile
      <3> QED BY <3>1, <3>2, Tuples
    <2> QED BY <2>1, <1>1, <1>2, Join DEF SetSpeedLevel
  <1>4. ASSUME NEW name
        PROVE  SetMotionModeName(name) \in Methods
    <2> DEFINE profile == Bridge!MotionProfileFromModeName(name)
    <2>1. profile \in Bridge!MotionProfile
      BY DEF Bridge!MotionProfileFromModeName, Bridge!MotionProfile
    <2> HIDE DEF profile
    <2>2. <<ReturnIf("m_motionProfile", profile), Set("m_motionProfile", profile)>> \in Methods
      BY <2>1, StepsOfMethods, Tuples
    <2>3. <<ReturnIf("m_motionProfile", profile), Set("m_motionProfile", profile)>>
            \o ApplyMaxLinearSpeed \o RepublishActiveMove \in Methods
      BY <2>2, <1>1, <1>2, Join
    <2> QED BY <2>3 DEF SetMotionModeName, profile
  <1> QED BY <1>1, <1>2, <1>3, <1>4

LEMMA MoveMethods ==
  ASSUME NEW velocity \in Bridge!ParsedVelocities
  PROVE  HandleMove(velocity) \in Methods /\ UpdatePostureFromMove(velocity) \in Methods
  <1>1. ReturnIf("m_jointsLocked", TRUE) \in PlainSteps
    BY StepsOfMethods
  <1>2. <<ReturnIf("m_jointsLocked", TRUE), <<"TakeParameter", velocity>>>> \in Methods
    BY <1>1, OtherSteps, Tuples
  <1>3. HandleMove(velocity) \in Methods
    BY <1>2, StoringTails, LimitThenStore, PublishMoveMethod, Join DEF HandleMove
  <1>4. <<ReturnIf("m_jointsLocked", TRUE)>> \in Methods
    BY <1>1, Tuples
  <1> QED
    BY <1>3, <1>4, StopMethods, PostureMethods, Join DEF UpdatePostureFromMove, Bridge!RobotPosture

LEMMA ModeMethods ==
  /\ \A enabled \in BOOLEAN : SetContinuousMoveMode(enabled) \in Methods
  /\ \A gait : SetGait(gait) \in Methods
  /\ \A mode \in Bridge!WalkMode, enabled \in BOOLEAN : SetWalkMode(mode, enabled) \in Methods
  <1>1. ASSUME NEW enabled \in BOOLEAN
        PROVE  SetContinuousMoveMode(enabled) \in Methods
    <2>1. Set("m_continuousMoveMode", enabled) \in PlainSteps /\ Set("moveAge", 0) \in PlainSteps
      BY StepsOfMethods, ThreadsAssumption
    <2>2. <<Set("m_continuousMoveMode", enabled)>> \in Methods /\ <<Set("moveAge", 0)>> \in Methods
      BY <2>1, Tuples
    <2>3. <<Set("m_continuousMoveMode", enabled)>> \o <<>> = <<Set("m_continuousMoveMode", enabled)>>
      OBVIOUS
    <2> QED BY <2>2, <2>3, Join DEF SetContinuousMoveMode
  <1>2. \A gait : SetGait(gait) \in Methods
    BY StopMethods DEF SetGait
  <1>3. ASSUME NEW mode \in Bridge!WalkMode, NEW enabled \in BOOLEAN
        PROVE  SetWalkMode(mode, enabled) \in Methods
    <2>1. /\ Set("m_walkMode", mode) \in PlainSteps /\ ReturnUnless("m_walkMode", mode) \in PlainSteps
          /\ Set("m_walkMode", "None") \in PlainSteps
      BY StepsOfMethods DEF Bridge!WalkMode
    <2>2. /\ <<Set("m_walkMode", mode)>> \in Methods
          /\ <<ReturnUnless("m_walkMode", mode), Set("m_walkMode", "None")>> \in Methods
      BY <2>1, Tuples
    <2> QED BY <2>2, StopMethods, Join DEF SetWalkMode
  <1> QED BY <1>1, <1>2, <1>3

LEMMA SwitcherMethods ==
  ReleaseMode \in Methods /\ \A parameter \in SelectParameters : SelectMode(parameter) \in Methods
  <1>1. ReturnUnless("mRobotPosture", "StandDown") \in PlainSteps
    BY StepsOfMethods DEF Bridge!RobotPosture
  <1>2. ReleaseMode \in Methods
    <2>1. Set("mModeName", "") \in PlainSteps
      BY StepsOfMethods DEF Bridge!SelectedModes
    <2>2. <<ReturnUnless("mRobotPosture", "StandDown"), Set("mModeName", "")>> \in Methods
      BY <1>1, <2>1, Tuples
    <2> QED BY <2>2, CapMethods, Join DEF ReleaseMode
  <1>3. ASSUME NEW parameter \in SelectParameters
        PROVE  SelectMode(parameter) \in Methods
    <2> DEFINE gate  == <<ReturnUnless("mRobotPosture", "StandDown")>>
               named == <<Set("mModeName", parameter.name)>>
               form  == IF parameter.form = "" THEN <<>> ELSE <<Set("mForm", parameter.form)>>
    <2>1. gate \in Methods
      BY <1>1, Tuples
    <2>2. named \in Methods
      BY StepsOfMethods, Tuples DEF Bridge!SelectedModes
    <2>3. named \o form \in Methods
      <3>1. CASE parameter.form = ""
        <4>1. named \o <<>> = named
          OBVIOUS
        <4> QED BY <3>1, <4>1, <2>2
      <3>2. CASE parameter.form # ""
        <4>1. parameter.form \in Bridge!Forms
          BY <3>2 DEF Bridge!Forms
        <4>2. <<Set("mForm", parameter.form)>> \in Methods
          BY <4>1, StepsOfMethods, Tuples
        <4> HIDE DEF named
        <4> QED BY <3>2, <4>2, <2>2, Join
      <3> QED BY <3>1, <3>2
    <2>4. gate \o <<>> = gate
      OBVIOUS
    <2> HIDE DEF gate, named, form
    <2>5. (named \o form) \o SetMotionModeName(parameter.name) \in Methods
      BY <2>3, CapMethods, Join
    <2>6. gate \o ((named \o form) \o SetMotionModeName(parameter.name)) \in Methods
      BY <2>1, <2>5, Join
    <2> QED BY <2>1, <2>4, <2>6 DEF SelectMode, gate, named, form
  <1> QED BY <1>2, <1>3

-----------------------------------------------------------------------------
(* What a thread can be given to do, and the passing of time.              *)

LEMMA WorkOfMethods ==
  ASSUME NEW methods \in Seq(Methods)
  PROVE  WorkList(methods) /\ (methods # <<>> => NextOf(methods) \notin ChainedSteps)
  <1>1. /\ methods \in Seq(Seq(Steps)) /\ Len(methods) \in Nat
        /\ \A i \in 1 .. Len(methods) : methods[i] \in Methods
    BY SeqMonotonic, LenProperties, ElementOfSeq DEF Methods
  <1>2. WorkList(methods)
    BY <1>1, MethodIsRest DEF WorkList
  <1>3. ASSUME methods # <<>>
        PROVE  NextOf(methods) \notin ChainedSteps
    <2>1. 1 \in 1 .. Len(methods) /\ Head(methods) = methods[1]
      BY <1>1, <1>3, NonEmptySeq, HeadOfSeq
    <2>2. methods[1] \in Methods
      BY <1>1, <2>1
    <2>3. Head(methods[1]) = methods[1][1]
      BY <2>2, HeadOfSeq DEF Methods
    <2> QED BY <2>1, <2>2, <2>3, MethodIsRest DEF NextOf
  <1> QED BY <1>2, <1>3

LEMMA BeginKeepsIInv ==
  ASSUME ThreadsIInv, NEW t \in Threads, NEW methods \in Seq(Methods), Begin(t, methods),
         lastStop' \in Stops \cup {"none"}, overtaken' \in BOOLEAN
  PROVE  ThreadsIInv'
  <1>1. WorkList(methods) /\ (methods # <<>> => NextOf(methods) \notin ChainedSteps)
    BY WorkOfMethods
  <1>2. /\ todo' \in [Threads -> Seq(Seq(Steps))] /\ todo'[t] = methods
        /\ \A s \in Threads : s # t => todo'[s] = todo[s]
    BY <1>1 DEF Begin, ThreadsIInv, WorkList
  <1>3. UNCHANGED <<apis, mem, twist, local>>
    BY DEF Begin
  <1>4. WorkList(todo[t])' /\ Prepared(t)'
    <2>1. methods # <<>> => NextOf(methods)[1] \notin ChainedNames
      BY <1>1, NextIsStep, ChainedByName
    <2> QED BY <1>1, <1>2, <2>1 DEF Prepared, Next1, NextOf, ChainedNames, WorkList
  <1>5. \A s \in Threads : LocalTyped(s)'
    BY <1>3 DEF ThreadsIInv, LocalTyped
  <1>6. \A s \in Threads : s # t => WorkList(todo[s])' /\ Prepared(s)'
    BY <1>2, <1>3 DEF ThreadsIInv, Prepared, Next1, WorkList
  <1>7. MemoryTyped' /\ (local = [s \in Threads |-> local[s]])'
    BY <1>3 DEF ThreadsIInv, MemoryTyped
  <1> QED BY <1>2, <1>3, <1>4, <1>5, <1>6, <1>7 DEF ThreadsIInv

LEMMA SportRequestKeepsIInv ==
  ASSUME ThreadsIInv, SportRequest
  PROVE  ThreadsIInv'
  <1>1. ASSUME NEW api, NEW methods \in Seq(Methods), BeginSport(api, methods)
        PROVE  ThreadsIInv'
    <2>1. lastStop' \in Stops \cup {"none"} /\ overtaken' \in BOOLEAN
      BY <1>1 DEF BeginSport, ThreadsIInv
    <2> QED BY <1>1, <2>1, BeginKeepsIInv DEF BeginSport, Threads
  <1>2. \A p \in {"StandUp", "StandDown"} : SetRobotPosture(p) \in Methods
    BY PostureMethods DEF Bridge!RobotPosture
  <1>3. /\ \A p \in {"StandUp", "StandDown"} :
             <<LockJoints, SetRobotPosture(p)>> \in Seq(Methods)
        /\ <<UnlockJoints, SetRobotPosture("StandUp")>> \in Seq(Methods)
        /\ <<HandleStop, SetRobotPosture("StandUp")>> \in Seq(Methods)
    BY <1>2, StopMethods
  <1>4. \A velocity \in Bridge!ParsedVelocities :
          <<HandleMove(velocity), UpdatePostureFromMove(velocity)>> \in Seq(Methods)
    BY MoveMethods
  <1>5. \A enabled \in BOOLEAN : <<SetContinuousMoveMode(enabled)>> \in Seq(Methods)
    BY ModeMethods
  <1>6. \A level \in SpeedLevels : <<SetSpeedLevel(level)>> \in Seq(Methods)
    BY CapMethods, ThreadsAssumption
  <1>7. \A gait \in Gaits : <<SetGait(gait)>> \in Seq(Methods)
    BY ModeMethods
  <1>8. \A mode \in {"FreeWalk", "VisionWalk", "ClassicWalk", "FastWalk"}, enabled \in BOOLEAN :
          <<SetWalkMode(mode, enabled)>> \in Seq(Methods)
    BY ModeMethods DEF Bridge!WalkMode
  <1>9. CASE \E api \in {"STANDUP", "RECOVERYSTAND"} :
               BeginSport(api, <<LockJoints, SetRobotPosture("StandUp")>>)
    BY <1>1, <1>3, <1>9
  <1>10. CASE \E api \in {"STANDDOWN", "DAMP"} :
                BeginSport(api, <<LockJoints, SetRobotPosture("StandDown")>>)
    BY <1>1, <1>3, <1>10
  <1>11. CASE \/ BeginSport("BALANCESTAND", <<UnlockJoints, SetRobotPosture("StandUp")>>)
              \/ BeginSport("STOPMOVE", <<HandleStop, SetRobotPosture("StandUp")>>)
    BY <1>1, <1>3, <1>11
  <1>12. CASE \E velocity \in Bridge!ParsedVelocities :
                BeginSport("MOVE", <<HandleMove(velocity), UpdatePostureFromMove(velocity)>>)
    BY <1>1, <1>4, <1>12
  <1>13. CASE \E enabled \in BOOLEAN : BeginSport("SWITCHMOVEMODE", <<SetContinuousMoveMode(enabled)>>)
    BY <1>1, <1>5, <1>13
  <1>14. CASE \E level \in SpeedLevels : BeginSport("SPEEDLEVEL", <<SetSpeedLevel(level)>>)
    BY <1>1, <1>6, <1>14
  <1>15. CASE \E gait \in Gaits : BeginSport("SWITCHGAIT", <<SetGait(gait)>>)
    BY <1>1, <1>7, <1>15
  <1>16. CASE BeginSport("FREEWALK", <<SetWalkMode("FreeWalk", TRUE)>>)
    BY <1>1, <1>8, <1>16, Zenon
  <1>17. CASE \E enabled \in BOOLEAN :
                \/ BeginSport("VISIONWALK", <<SetWalkMode("VisionWalk", enabled)>>)
                \/ BeginSport("CLASSICWALK", <<SetWalkMode("ClassicWalk", enabled)>>)
                \/ BeginSport("FASTWALK", <<SetWalkMode("FastWalk", enabled)>>)
    BY <1>1, <1>8, <1>17
  <1> QED
    BY <1>9, <1>10, <1>11, <1>12, <1>13, <1>14, <1>15, <1>16, <1>17
       DEF SportRequest, PostureHandler, StopMove, Move, SwitchMoveMode, SpeedLevel,
           SwitchGait, FreeWalk, VisionWalk, ClassicWalk, FastWalk

LEMMA OtherWorkKeepsIInv ==
  ASSUME ThreadsIInv, SwitcherRequest \/ Reset \/ MainLoop
  PROVE  ThreadsIInv'
  <1>1. CASE SwitcherRequest
    <2>1. lastStop' \in Stops \cup {"none"} /\ overtaken' \in BOOLEAN
      BY <1>1 DEF SwitcherRequest, ThreadsIInv
    <2>2. \E methods \in Seq(Methods) : Begin("switcher", methods)
      <3>1. /\ <<ReleaseMode>> \in Seq(Methods)
            /\ \A parameter \in SelectParameters : <<SelectMode(parameter)>> \in Seq(Methods)
        BY SwitcherMethods
      <3> QED BY <1>1, <3>1 DEF SwitcherRequest, SelectModeRequest, ReleaseModeRequest
    <2> QED BY <2>1, <2>2, BeginKeepsIInv DEF Threads
  <1>2. CASE Reset
    <2>1. lastStop' \in Stops \cup {"none"} /\ overtaken' \in BOOLEAN
      BY <1>2 DEF Reset, ThreadsIInv
    <2>2. <<ResetPublisher, ResetSwitcher>> \in Seq(Methods)
      BY ResetPublisherMethod, PostureMethods
    <2> QED BY <1>2, <2>1, <2>2, BeginKeepsIInv DEF Reset, Threads
  <1>3. CASE MainLoop
    <2> DEFINE walking == <<ReturnUnless("m_hasActiveMove", TRUE), ReturnIf("m_jointsLocked", TRUE)>>
                            \o SetRobotPosture("Walking") \o <<Do("Finish")>>
               standing == <<ReturnUnless("mRobotPosture", "Walking")>> \o SetRobotPosture("StandUp")
    <2>1. lastStop' \in Stops \cup {"none"} /\ overtaken' \in BOOLEAN
      BY <1>3 DEF MainLoop, ThreadsIInv
    <2>2. walking \in Methods
      <3>1. <<ReturnUnless("m_hasActiveMove", TRUE), ReturnIf("m_jointsLocked", TRUE)>> \in Methods
        BY StepsOfMethods, Tuples
      <3>2. SetRobotPosture("Walking") \in Methods
        BY PostureMethods DEF Bridge!RobotPosture
      <3>3. <<Do("Finish")>> \in Methods
        BY StopMethods DEF Nothing
      <3> QED BY <3>1, <3>2, <3>3, Join
    <2>3. standing \in Methods
      <3>1. <<ReturnUnless("mRobotPosture", "Walking")>> \in Methods
        BY StepsOfMethods, Tuples DEF Bridge!RobotPosture
      <3>2. SetRobotPosture("StandUp") \in Methods
        BY PostureMethods DEF Bridge!RobotPosture
      <3> QED BY <3>1, <3>2, Join
    <2>4. Begin("main", <<Tick, walking, standing>>)
      BY <1>3 DEF MainLoop
    <2> HIDE DEF walking, standing
    <2>5. <<Tick, walking, standing>> \in Seq(Methods)
      BY <2>2, <2>3, StopMethods
    <2> QED BY <2>1, <2>4, <2>5, BeginKeepsIInv DEF Threads
  <1> QED BY <1>1, <1>2, <1>3

LEMMA ElapseKeepsIInv ==
  ASSUME ThreadsIInv, Elapse
  PROVE  ThreadsIInv'
  <1>1. MemoryTyped'
    <2>1. mem.moveAge \in 0 .. MOVE_STOP_TIMEOUT /\ mem.moveAge < MOVE_STOP_TIMEOUT
      BY NamedFields DEF ThreadsIInv, Elapse
    <2>2. mem.moveAge + 1 \in 0 .. MOVE_STOP_TIMEOUT
      BY <2>1, ThreadsAssumption
    <2>3. mem' = [mem EXCEPT !["moveAge"] = mem.moveAge + 1]
      BY DEF Elapse
    <2> QED BY <2>2, <2>3, FieldValues, SetKeepsMemory DEF ThreadsIInv
  <1>2. UNCHANGED <<apis, twist, todo, local, lastStop, overtaken>>
    BY DEF Elapse
  <1> QED BY <1>1, <1>2 DEF ThreadsIInv, LocalTyped, Prepared, Next1, WorkList

LEMMA InitIInv == ThreadsInit => ThreadsIInv
  <1> SUFFICES ASSUME ThreadsInit
               PROVE  ThreadsIInv
    OBVIOUS
  <1>1. MemoryTyped
    <2>1. mem = [f \in Fields |-> mem[f]]
      BY DEF ThreadsInit, Fields, FieldType
    <2>2. /\ mem.m_continuousMoveMode = FALSE /\ mem.m_jointsLocked = TRUE
          /\ mem.m_hasActiveMove = FALSE /\ mem.mSilent = FALSE
          /\ mem.m_walkMode = "None" /\ mem.m_motionProfile = "Ai" /\ mem.m_speedLevel = -1
          /\ mem.m_maxLinearSpeed = Bridge!AI_LOW_MAX_LINEAR_SPEED /\ mem.m_lastVelocity = Zero
          /\ mem.moveAge = MOVE_STOP_TIMEOUT
          /\ mem.mForm = "0" /\ mem.mModeName = "" /\ mem.mRobotPosture = "StandDown"
      BY DEF ThreadsInit
    <2>3. Bridge!AI_LOW_MAX_LINEAR_SPEED \in 0 .. TopSpeed /\ MOVE_STOP_TIMEOUT \in 0 .. MOVE_STOP_TIMEOUT
      BY SpeedFacts, ThreadsAssumption DEF Bridge!AI_LOW_MAX_LINEAR_SPEED
    <2>4. /\ "None" \in Bridge!WalkMode /\ "Ai" \in Bridge!MotionProfile
          /\ "0" \in Bridge!Forms /\ "" \in Bridge!SelectedModes /\ "StandDown" \in Bridge!RobotPosture
      BY DEF Bridge!WalkMode, Bridge!MotionProfile, Bridge!Forms, Bridge!SelectedModes,
             Bridge!RobotPosture
    <2>5. -1 \in Int /\ Zero \in Limited
      BY SpeedFacts
    <2>6. ASSUME NEW f \in Fields
          PROVE  mem[f] \in FieldType[f]
      BY <2>2, <2>3, <2>4, <2>5, FieldValues, FieldNames
    <2> QED BY <2>1, <2>6 DEF MemoryTyped
  <1>2. twist \in Limited /\ apis \in Clients /\ lastStop \in Stops \cup {"none"} /\ overtaken \in BOOLEAN
    BY SpeedFacts DEF ThreadsInit
  <1>3. todo \in [Threads -> Seq(Seq(Steps))] /\ \A t \in Threads : todo[t] = <<>>
    BY EmptySeq DEF ThreadsInit
  <1>4. local = [t \in Threads |-> local[t]] /\ \A t \in Threads : local[t] = Fresh
    BY DEF ThreadsInit
  <1>5. \A t \in Threads : LocalTyped(t)
    <2>1. Fresh \in [velocity : Bridge!MoveVelocity, over : BOOLEAN,
                    profile : Bridge!MotionProfile, cap : 0 .. TopSpeed]
      BY DEF Fresh, Zero, Bridge!Zero, Bridge!MoveVelocity, Bridge!MotionProfile,
             TopSpeed, Bridge!SPORT_MAX_LINEAR_SPEED
    <2> QED BY <2>1, <1>4 DEF LocalTyped
  <1>6. \A t \in Threads : WorkList(todo[t]) /\ Prepared(t)
    BY <1>3, EmptySeq DEF WorkList, Prepared
  <1> QED BY <1>1, <1>2, <1>3, <1>4, <1>5, <1>6 DEF ThreadsIInv

-----------------------------------------------------------------------------
(* The theorems.                                                           *)

\* However the threads interleave, and whatever clients there are, each thread
\* is about to do steps on fields with values of their types, and scales or stores
\* a velocity only after the step that compares or scales it.
THEOREM ThreadsInvariance == ThreadsSpec => []ThreadsIInv
  <1>1. ThreadsIInv /\ [ThreadsNext]_threadVars => ThreadsIInv'
    <2> SUFFICES ASSUME ThreadsIInv, [ThreadsNext]_threadVars
                 PROVE  ThreadsIInv'
      OBVIOUS
    <2>1. CASE SportRequest
      BY <2>1, SportRequestKeepsIInv
    <2>2. CASE SwitcherRequest \/ Reset \/ MainLoop
      BY <2>2, OtherWorkKeepsIInv
    <2>3. CASE \E t \in Threads : Step(t)
      BY <2>3, StepKeepsIInv
    <2>4. CASE Elapse
      BY <2>4, ElapseKeepsIInv
    <2>5. CASE UNCHANGED threadVars
      BY <2>5 DEF threadVars, ThreadsIInv, MemoryTyped, LocalTyped, Prepared, Next1, WorkList
    <2> QED BY <2>1, <2>2, <2>3, <2>4, <2>5 DEF ThreadsNext
  <1> QED BY <1>1, InitIInv, PTL DEF ThreadsSpec

\* The shared fields and the locals keep their types, whatever is written when.
THEOREM ThreadsTypeCorrect == ThreadsSpec => []ThreadsTypeOK
  <1>1. ThreadsIInv => ThreadsTypeOK
    <2> SUFFICES ASSUME ThreadsIInv
                 PROVE  ThreadsTypeOK
      OBVIOUS
    <2>1. \A f \in Fields : mem[f] \in FieldType[f]
      BY DEF ThreadsIInv, MemoryTyped
    <2>2. /\ mem.m_continuousMoveMode \in BOOLEAN /\ mem.m_jointsLocked \in BOOLEAN
          /\ mem.m_hasActiveMove \in BOOLEAN /\ mem.mSilent \in BOOLEAN
          /\ mem.m_walkMode \in Bridge!WalkMode
          /\ mem.m_motionProfile \in Bridge!MotionProfile /\ mem.m_speedLevel \in Int
          /\ mem.m_maxLinearSpeed \in 0 .. TopSpeed /\ mem.m_lastVelocity \in Limited
          /\ mem.moveAge \in 0 .. MOVE_STOP_TIMEOUT
          /\ mem.mForm \in Bridge!Forms /\ mem.mModeName \in Bridge!SelectedModes
          /\ mem.mRobotPosture \in Bridge!RobotPosture
      BY <2>1, FieldValues
    <2>3. Bridge!CmdVelTypeOK
      <3>1. mem.m_maxLinearSpeed \in Nat /\ mem.m_lastVelocity \in Bridge!MoveVelocity
            /\ twist \in Bridge!MoveVelocity
        <4>1. TopSpeed = 60 /\ Limited \subseteq Bridge!MoveVelocity /\ twist \in Limited
          BY SpeedFacts DEF ThreadsIInv
        <4>2. mem.m_maxLinearSpeed \in 0 .. 60
          BY <2>2, <4>1, Zenon
        <4>3. mem.m_maxLinearSpeed \in Nat
          BY <4>2
        <4> QED BY <2>2, <4>1, <4>3, Zenon
      <3> QED BY <2>2, <3>1, Zenon DEF Bridge!CmdVelTypeOK
    <2>4. Bridge!SwitcherTypeOK
      <3>1. [status |-> "Success", data |-> <<>>] \in
              [status : Bridge!StatusCode,
               data : {Bridge!NoData} \cup (Bridge!Forms \X Bridge!SelectedModes)
                        \cup {<<b>> : b \in BOOLEAN}]
        BY DEF Bridge!StatusCode, Bridge!NoData
      <3> QED BY <2>2, <3>1, Zenon DEF Bridge!SwitcherTypeOK
    <2>5. Bridge!EventBridgeTypeOK
      BY <2>3, <2>4 DEF Bridge!EventBridgeTypeOK
    <2>6. local \in [Threads -> Locals]
      <3>1. \A t \in Threads : local[t] \in Locals
        <4>1. 0 .. TopSpeed \subseteq Nat
          BY SpeedFacts
        <4>2. \A t \in Threads :
                local[t] \in [velocity : Bridge!MoveVelocity, over : BOOLEAN,
                              profile : Bridge!MotionProfile, cap : 0 .. TopSpeed]
          BY DEF ThreadsIInv, LocalTyped
        <4> HIDE DEF TopSpeed
        <4> QED BY <4>1, <4>2 DEF Locals
      <3> QED BY <3>1 DEF ThreadsIInv
    <2>7. \A t \in Threads : \A i \in 1 .. Len(todo[t]) : todo[t][i] # <<>>
      BY DEF ThreadsIInv, WorkList, Rest
    <2> QED BY <2>5, <2>6, <2>7 DEF ThreadsIInv, ThreadsTypeOK
  <1> QED BY <1>1, ThreadsInvariance, PTL

\* No interleaving drives the robot faster than the cap of the sport profile,
\* although ApplySpeedLimit reads the cap twice and the cap may change between.
THEOREM TopSpeedHonoured == ThreadsSpec => []NeverAboveTopSpeed
  <1>1. ThreadsIInv => NeverAboveTopSpeed
    <2> SUFFICES ASSUME ThreadsIInv
                 PROVE  twist.lin <= TopSpeed
      BY DEF NeverAboveTopSpeed, TopSpeed
    <2>1. TopSpeed = 60 /\ twist \in Limited
      BY SpeedFacts DEF ThreadsIInv
    <2>2. twist \in [lin : 0 .. 60, yaw : Int]
      BY <2>1 DEF Limited
    <2> QED BY <2>1, <2>2
  <1> QED BY <1>1, ThreadsInvariance, PTL

=============================================================================
