----------------------- MODULE BridgeThreadsRestProofs ----------------------
(***************************************************************************)
(* Proofs about BridgeThreads at rest: what holds when the handlers that a *)
(* property is about have ended.  While they run it does not, so that the  *)
(* inductive invariant speaks of what each thread has yet to do: the steps *)
(* that never come up in it, the guards that come before those that would  *)
(* do harm, and what is left of a handler that is about to make good what  *)
(* it has begun.                                                           *)
(***************************************************************************)
EXTENDS BridgeThreadsProofs

Profile(name) == Bridge!MotionProfileFromModeName(name)

InStep == mem.m_motionProfile = Profile(mem.mModeName)

-----------------------------------------------------------------------------
(* Steps that a thread does not do.                                        *)

LockGate    == ReturnIf("m_jointsLocked", TRUE)
LockStep    == Set("m_jointsLocked", TRUE)
ProfileGate == ReturnIf("m_motionProfile", "Ai")
AiStep      == Set("m_motionProfile", "Ai")
AiNameStep  == Set("mModeName", "ai")

Sets(s, field) == s[1] = "Set" /\ s[2] = field
Returns(s)     == s[1] \in {"ReturnIf", "ReturnUnless", "Finish"}

Quiet     == {s \in Steps : s[1] # "PublishCopy"}
KeepsLock == {s \in Steps : ~Sets(s, "m_jointsLocked")}
KeepsMode == {s \in Steps : ~Sets(s, "m_motionProfile") /\ ~Sets(s, "mModeName")}
AiOnly    == {s \in Steps : Sets(s, "m_motionProfile") => s = AiStep}

MainSteps  == Quiet \cap KeepsLock \cap KeepsMode
ResetSteps == {s \in Quiet \cap AiOnly : /\ ~Returns(s)
                                         /\ Sets(s, "mModeName") => s = AiNameStep}

-----------------------------------------------------------------------------
(* What is yet to come in a method, or in what a thread has yet to do.     *)

Has(w, step) == \E j \in 1 .. Len(w) : \E k \in 1 .. Len(w[j]) : w[j][k] = step

\* Nothing but zero is published before the guard.
Guarded(m, guard) ==
  \/ m \in Seq(Quiet)
  \/ \E k \in 1 .. Len(m) : m[k] = guard /\ \A i \in 1 .. k - 1 : m[i] \in Quiet

AllGuarded(w, guard)   == \A j \in 1 .. Len(w) : Guarded(w[j], guard)
LaterGuarded(w, guard) == \A j \in 2 .. Len(w) : Guarded(w[j], guard)

StopNow == <<Publish(Zero)>>

\* The joints are locked only to stop the robot next.
LockAware(m) ==
  \A k \in 1 .. Len(m) : m[k] = LockStep =>
    Len(m) = k + 2 /\ <<m[k + 1], m[k + 2]>> = HandleStop

\* From its k-th step on, a method makes sure that the profile is this one, and
\* leaves early only if it is.
SyncsFrom(m, k, profile) ==
  \E j \in k .. Len(m) :
    /\ m[j] = Set("m_motionProfile", profile)
    /\ \A i \in k .. Len(m) : i # j =>
         /\ m[i] \in KeepsMode
         /\ i < j /\ Returns(m[i]) => m[i] = ReturnIf("m_motionProfile", profile)

\* A method stores the name of a mode, and then makes the profile that of the name.
Names(m) ==
  \E k \in 1 .. Len(m) :
    /\ Sets(m[k], "mModeName")
    /\ \A i \in 1 .. k - 1 : m[i] \in KeepsMode
    /\ SyncsFrom(m, k + 1, Profile(m[k][3]))

-----------------------------------------------------------------------------
(* The inductive invariant.                                                *)

\* Each thread keeps to its steps.  Without a SELECT_MODE the profile stays "Ai",
\* and the switcher leaves early before it would publish.
Roles ==
  /\ todo["main"] \in Seq(Seq(MainSteps))
  /\ todo["sport"] \in Seq(Seq(KeepsMode))
  /\ todo["reset"] \in Seq(Seq(ResetSteps))
  /\ todo["switcher"] \in Seq(Seq(KeepsLock))
  /\ "RESET" \notin apis => Idle("reset")
  /\ "SELECT_MODE" \notin apis =>
       /\ mem.m_motionProfile = "Ai"
       /\ todo["switcher"] \in Seq(Seq(AiOnly))
       /\ AllGuarded(todo["switcher"], ProfileGate)

\* A stop is quiet, and until the robot stands still what stops it is yet to come.
Stopping ==
  "SELECT_MODE" \notin apis /\ lastStop \in Stops =>
    /\ todo["sport"] \in Seq(Seq(Quiet))
    /\ \/ twist = Zero
       \/ ~Idle("sport") /\ Head(todo["sport"]) \in {LockJoints, HandleStop, StopNow}

\* With the joints locked the sport thread looks at the lock before it publishes
\* a velocity, and is about to stop a robot that still moves.
Locking ==
  "SELECT_MODE" \notin apis /\ "RESET" \notin apis =>
    /\ \A j \in 1 .. Len(todo["sport"]) : LockAware(todo["sport"][j])
    /\ LaterGuarded(todo["sport"], LockGate)
    /\ mem.m_jointsLocked =>
         /\ AllGuarded(todo["sport"], LockGate)
         /\ \/ twist = Zero
            \/ ~Idle("sport") /\ Head(todo["sport"]) \in {HandleStop, StopNow}

\* Of the switcher and the reset one at most is at work, and what it has yet to do
\* brings the mode and the profile together where they are apart.
Pairing ==
  ~overtaken =>
    /\ Idle("switcher") \/ Idle("reset")
    /\ Idle("switcher") /\ Idle("reset") => InStep
    /\ ~Idle("reset") =>
         /\ mem.m_motionProfile = "Ai" \/ Has(todo["reset"], AiStep)
         /\ mem.mModeName = "ai" \/ Has(todo["reset"], AiNameStep)
    /\ ~Idle("switcher") =>
         LET m == Head(todo["switcher"]) IN
         /\ Len(todo["switcher"]) = 1
         /\ \/ InStep /\ (m \in Seq(KeepsMode) \/ Names(m))
            \/ SyncsFrom(m, 1, Profile(mem.mModeName))

RestIInv == ThreadsIInv /\ Roles /\ Stopping /\ Locking /\ Pairing

-----------------------------------------------------------------------------
(* What is left after a step.                                              *)

\* What a thread has yet to do, entry by entry.
LEMMA WorkFacts ==
  ASSUME NEW t \in Threads, todo[t] # <<>>, WorkList(todo[t])
  PROVE  LET w == todo[t] IN
         /\ w \in Seq(Seq(Steps)) /\ Len(w) \in Nat \ {0} /\ Head(w) = w[1]
         /\ w[1] \in Seq(Steps) /\ Len(w[1]) \in Nat \ {0}
         /\ Next1(t) = w[1][1] /\ Next1(t) \in Steps
         /\ Tail(w) \in Seq(Seq(Steps)) /\ Len(Tail(w)) = Len(w) - 1
         /\ \A i \in 1 .. Len(w) - 1 : Tail(w)[i] = w[i + 1]
         /\ Tail(w[1]) \in Seq(Steps) /\ Len(Tail(w[1])) = Len(w[1]) - 1
         /\ \A i \in 1 .. Len(w[1]) - 1 : Tail(w[1])[i] = w[1][i + 1]
  <1> DEFINE w == todo[t]
  <1>1. w \in Seq(Seq(Steps)) /\ Len(w) \in Nat \ {0} /\ Head(w) = w[1]
    BY LenProperties, EmptySeq, HeadOfSeq DEF WorkList
  <1>2. w[1] \in Seq(Steps) /\ w[1] # <<>>
    BY <1>1 DEF WorkList, Rest
  <1>3. Len(w[1]) \in Nat \ {0} /\ Head(w[1]) = w[1][1] /\ w[1][1] \in Steps
    BY <1>2, LenProperties, EmptySeq, HeadOfSeq
  <1>4. /\ Tail(w) \in Seq(Seq(Steps)) /\ Len(Tail(w)) = Len(w) - 1
        /\ \A i \in 1 .. Len(w) - 1 : Tail(w)[i] = w[i + 1]
    BY <1>1, HeadTailProperties, EmptySeq
  <1>5. /\ Tail(w[1]) \in Seq(Steps) /\ Len(Tail(w[1])) = Len(w[1]) - 1
        /\ \A i \in 1 .. Len(w[1]) - 1 : Tail(w[1])[i] = w[1][i + 1]
    <2> HIDE DEF w
    <2> QED BY <1>2, <1>3, HeadTailProperties
  <1> QED BY <1>1, <1>2, <1>3, <1>4, <1>5, Zenon DEF Next1

\* What remains when the step is done: the methods that follow, and before them
\* what is left of the first if that is not all.
LEMMA AfterFacts ==
  ASSUME NEW t \in Threads, todo[t] # <<>>, WorkList(todo[t])
  PROVE  LET w == todo[t] IN
         \/ Len(w[1]) = 1 /\ AfterStep(t) = Tail(w)
         \/ /\ Len(w[1]) > 1
            /\ AfterStep(t) = <<Tail(w[1])>> \o Tail(w)
            /\ AfterStep(t) \in Seq(Seq(Steps)) /\ Len(AfterStep(t)) = Len(w)
            /\ AfterStep(t) # <<>> /\ Head(AfterStep(t)) = Tail(w[1])
            /\ AfterStep(t)[1] = Tail(w[1])
            /\ \A i \in 2 .. Len(w) : AfterStep(t)[i] = w[i]
  <1> DEFINE w == todo[t]
             a == AfterStep(t)
  <1>1. /\ w \in Seq(Seq(Steps)) /\ Len(w) \in Nat \ {0} /\ Head(w) = w[1]
        /\ Len(w[1]) \in Nat \ {0} /\ Tail(w[1]) \in Seq(Steps)
        /\ Tail(w) \in Seq(Seq(Steps)) /\ Len(Tail(w)) = Len(w) - 1
        /\ \A i \in 1 .. Len(w) - 1 : Tail(w)[i] = w[i + 1]
    BY WorkFacts
  <1>2. CASE Len(w[1]) = 1
    BY <1>1, <1>2 DEF AfterStep
  <1>3. CASE Len(w[1]) # 1
    <2>1. a = <<Tail(w[1])>> \o Tail(w)
      BY <1>1, <1>3 DEF AfterStep
    <2> HIDE DEF w, a
    <2>2. <<Tail(w[1])>> \in Seq(Seq(Steps)) /\ Len(<<Tail(w[1])>>) = 1 /\ <<Tail(w[1])>>[1] = Tail(w[1])
      BY <1>1
    <2>3. /\ a \in Seq(Seq(Steps)) /\ Len(a) = 1 + Len(Tail(w))
          /\ \A i \in 1 .. 1 + Len(Tail(w)) : a[i] = IF i <= 1 THEN <<Tail(w[1])>>[i] ELSE Tail(w)[i - 1]
      BY <2>1, <2>2, <1>1, ConcatProperties
    <2>4. Len(a) = Len(w) /\ a[1] = Tail(w[1])
      <3>1. 1 \in 1 .. 1 + Len(Tail(w)) /\ Len(a) = Len(w)
        BY <2>3, <1>1
      <3>2. a[1] = IF 1 <= 1 THEN <<Tail(w[1])>>[1] ELSE Tail(w)[1 - 1]
        BY <3>1, <2>3, Zenon
      <3> QED BY <3>1, <3>2, <2>2
    <2>5. a # <<>> /\ Head(a) = Tail(w[1])
      BY <2>3, <2>4, <1>1, NonEmptySeq, HeadOfSeq
    <2>6. ASSUME NEW i \in 2 .. Len(w)
          PROVE  a[i] = w[i]
      <3>1. i \in 1 .. 1 + Len(Tail(w)) /\ ~(i <= 1) /\ i - 1 \in 1 .. Len(w) - 1 /\ (i - 1) + 1 = i
        BY <1>1
      <3>2. a[i] = Tail(w)[i - 1]
        BY <3>1, <2>3
      <3>3. Tail(w)[i - 1] = w[(i - 1) + 1]
        BY <3>1, <1>1
      <3> QED BY <3>1, <3>2, <3>3
    <2>7. Len(w[1]) > 1
      <3>1. Len(w[1]) \in Nat \ {0} /\ Len(w[1]) # 1
        BY <1>1, <1>3, Zenon
      <3> DEFINE n == Len(w[1])
      <3> HIDE DEF n
      <3>2. n \in Nat \ {0} /\ n # 1
        BY <3>1 DEF n
      <3>3. n > 1
        BY <3>2
      <3> QED BY <3>3 DEF n
    <2> QED BY <2>1, <2>3, <2>4, <2>5, <2>6, <2>7 DEF w, a
  <1> QED BY <1>2, <1>3

\* What any step does: to the work of its thread, to the output, to the fields the
\* properties here are about.
LEMMA StepEffect ==
  ASSUME ThreadsIInv, NEW t \in Threads, Step(t)
  PROVE  LET s == Next1(t) IN
         /\ todo[t] # <<>> /\ WorkList(todo[t]) /\ s \in Steps
         /\ UNCHANGED <<apis, lastStop, overtaken>>
         /\ \A u \in Threads : u # t => todo'[u] = todo[u]
         /\ todo'[t] \in {<<>>, Tail(todo[t]), AfterStep(t)}
         /\ ~Returns(s) => todo'[t] = AfterStep(t)
         /\ s[1] = "ReturnIf" =>
              todo'[t] = IF mem[s[2]] = s[3] THEN Tail(todo[t]) ELSE AfterStep(t)
         /\ twist' # twist => s[1] = "PublishCopy" \/ twist' = Zero
         /\ s[1] = "Publish" => twist' = Zero
         /\ \A f \in {"m_jointsLocked", "m_motionProfile", "mModeName"} :
              /\ Sets(s, f) => mem'[f] = s[3]
              /\ ~Sets(s, f) => mem'[f] = mem[f]
  <1> DEFINE s   == Next1(t)
             own == local[t]
  <1>1. todo[t] # <<>> /\ WorkList(todo[t]) /\ MemoryTyped /\ todo \in [Threads -> Seq(Seq(Steps))]
    BY DEF ThreadsIInv, Step, Idle
  <1>2. s \in Steps
    BY <1>1, WhatIsNext
  <1>3. s[1] = "Publish" => s[2] = Zero
    BY <1>2, Operands
  <1>4. /\ {"m_jointsLocked", "m_motionProfile", "mModeName"} \subseteq DOMAIN mem
        /\ s[1] = "Set" => s[2] \in DOMAIN mem
    <2>1. DOMAIN mem = Fields
      BY <1>1 DEF MemoryTyped
    <2>2. s[1] = "Set" => s[2] \in Fields
      BY <1>2, Operands
    <2> QED BY <2>1, <2>2, FieldNames
  <1> HIDE DEF s, own
  <1>5. ASSUME NEW rest, NEW locals, Continue(t, rest, locals)
        PROVE  /\ UNCHANGED <<apis, lastStop, overtaken>> /\ todo'[t] = rest
               /\ \A u \in Threads : u # t => todo'[u] = todo[u]
    BY <1>1, <1>5 DEF Continue
  <1> DEFINE Kept == \A f \in {"m_jointsLocked", "m_motionProfile", "mModeName"} : mem'[f] = mem[f]
             Done == /\ UNCHANGED <<apis, lastStop, overtaken>> /\ todo'[t] = AfterStep(t)
                     /\ \A u \in Threads : u # t => todo'[u] = todo[u]
  <1>6. CASE s[1] = "Set" /\ Write(t, s[2], s[3])
    <2>1. Done /\ twist' = twist
      BY <1>5, <1>6 DEF Write
    <2>2. mem' = [mem EXCEPT ![s[2]] = s[3]]
      BY <1>6 DEF Write
    <2>3. \A f \in {"m_jointsLocked", "m_motionProfile", "mModeName"} :
            /\ Sets(s, f) => mem'[f] = s[3]
            /\ ~Sets(s, f) => mem'[f] = mem[f]
      BY <1>4, <1>6, <2>2 DEF Sets
    <2> QED BY <1>1, <1>2, <1>6, <2>1, <2>3 DEF s, Returns
  <1>7. CASE /\ s[1] = "ReturnIf"
             /\ Jump(t, IF mem[s[2]] = s[3] THEN Tail(todo[t]) ELSE AfterStep(t))
    BY <1>1, <1>2, <1>5, <1>7 DEF Jump, s, Sets, Returns
  <1>8. CASE \/ /\ s[1] = "ReturnUnless"
                /\ Jump(t, IF mem[s[2]] = s[3] THEN AfterStep(t) ELSE Tail(todo[t]))
             \/ s[1] = "Finish" /\ Jump(t, <<>>)
    BY <1>1, <1>2, <1>5, <1>8 DEF Jump, s, Sets, Returns
  <1>9. CASE \/ s[1] = "Publish" /\ WriteTwist(t, s[2])
             \/ s[1] = "PublishCopy" /\ WriteTwist(t, own.velocity)
    BY <1>1, <1>2, <1>3, <1>5, <1>9 DEF WriteTwist, s, Sets, Returns
  <1>10. ASSUME NEW locals, Read(t, locals),
                s[1] \in {"TakeParameter", "CopyLastVelocity", "CompareWithCap", "ScaleToCap",
                          "ReadProfile", "ChooseCap"}
         PROVE  Done /\ Kept /\ twist' = twist
    BY <1>5, <1>10 DEF Read
  <1>11. ASSUME NEW f \in {"m_lastVelocity", "m_maxLinearSpeed"}, NEW v, Write(t, f, v)
         PROVE  Done /\ Kept /\ twist' = twist
    <2>1. Done /\ twist' = twist
      BY <1>5, <1>11 DEF Write
    <2>2. Kept
      BY <1>4, <1>11 DEF Write
    <2> QED BY <2>1, <2>2
  <1>12. CASE s[1] \in {"TakeParameter", "CopyLastVelocity", "CompareWithCap", "ScaleToCap",
                        "ReadProfile", "ChooseCap", "StoreLastVelocity", "StoreCap"}
    <2>1. Done /\ Kept /\ twist' = twist
      <3> HIDE DEF Done, Kept
      <3> QED BY <1>10, <1>11, <1>12, Zenon DEF Step, s, own
    <2> QED BY <1>1, <1>2, <1>12, <2>1 DEF s, Sets, Returns
  <1> QED BY <1>6, <1>7, <1>8, <1>9, <1>12, Zenon DEF Step, s, own

\* What giving a thread its work does.
LEMMA BeginEffect ==
  ASSUME ThreadsIInv, NEW t \in Threads, NEW methods, Begin(t, methods)
  PROVE  /\ Idle(t) /\ todo'[t] = methods /\ \A u \in Threads : u # t => todo'[u] = todo[u]
         /\ UNCHANGED <<apis, mem, twist>>
  BY DEF Begin, ThreadsIInv

-----------------------------------------------------------------------------
(* What a step leaves of what is yet to come.                              *)

LEMMA NarrowSeq ==
  ASSUME NEW S, NEW T, NEW s \in Seq(S), \A i \in 1 .. Len(s) : s[i] \in T
  PROVE  s \in Seq(T)
  <1>1. Len(s) \in Nat /\ s \in [1 .. Len(s) -> S]
    BY LenProperties
  <1>2. s \in [1 .. Len(s) -> T]
    BY <1>1
  <1> QED BY <1>1, <1>2, SeqDef

\* A thread goes on with the same kind of steps.
LEMMA StaysWithin ==
  ASSUME NEW t \in Threads, todo[t] # <<>>, WorkList(todo[t]), NEW S, todo[t] \in Seq(Seq(S))
  PROVE  /\ Next1(t) \in S
         /\ {<<>>, Tail(todo[t]), AfterStep(t)} \subseteq Seq(Seq(S))
  <1> DEFINE w == todo[t]
  <1>1. w \in Seq(Seq(S)) /\ Len(w) \in Nat \ {0} /\ Len(w[1]) \in Nat \ {0} /\ Next1(t) = w[1][1]
    BY WorkFacts
  <1>2. w[1] \in Seq(S) /\ w # <<>>
    <2>1. 1 \in 1 .. Len(w)
      BY <1>1
    <2> HIDE DEF w
    <2> QED BY <2>1, <1>1, ElementOfSeq, EmptySeq
  <1>3. Next1(t) \in S
    <2>1. 1 \in 1 .. Len(w[1])
      BY <1>1
    <2> HIDE DEF w
    <2> QED BY <2>1, <1>1, <1>2, ElementOfSeq
  <1>4. Tail(w) \in Seq(Seq(S)) /\ <<>> \in Seq(Seq(S))
    <2> HIDE DEF w
    <2> QED BY <1>1, <1>2, HeadTailProperties, EmptySeq
  <1>5. AfterStep(t) \in Seq(Seq(S))
    <2>1. CASE AfterStep(t) = Tail(w)
      BY <2>1, <1>4
    <2>2. CASE AfterStep(t) = <<Tail(w[1])>> \o Tail(w)
      <3> HIDE DEF w
      <3>1. Tail(w[1]) \in Seq(S)
        BY <1>1, <1>2, HeadTailProperties, EmptySeq
      <3>2. <<Tail(w[1])>> \in Seq(Seq(S))
        BY <3>1
      <3> QED BY <3>2, <2>2, <1>4, ConcatProperties
    <2> QED BY <2>1, <2>2, AfterFacts
  <1> QED BY <1>3, <1>4, <1>5

LEMMA GuardedTail ==
  ASSUME NEW m \in Seq(Steps), Len(m) \in Nat \ {0}, NEW guard, Guarded(m, guard), m[1] # guard
  PROVE  m[1] \in Quiet /\ (Len(m) > 1 => Guarded(Tail(m), guard))
  <1>1. /\ Tail(m) \in Seq(Steps) /\ Len(Tail(m)) = Len(m) - 1
        /\ \A i \in 1 .. Len(m) - 1 : Tail(m)[i] = m[i + 1]
    BY HeadTailProperties, EmptySeq
  <1>2. CASE m \in Seq(Quiet)
    <2>1. Tail(m) \in Seq(Quiet) /\ m[1] \in Quiet
      <3>1. 1 \in 1 .. Len(m) /\ m # <<>>
        BY EmptySeq
      <3> QED BY <3>1, <1>2, HeadTailProperties, ElementOfSeq
    <2> QED BY <2>1 DEF Guarded
  <1>3. ASSUME NEW k \in 1 .. Len(m), m[k] = guard, \A i \in 1 .. k - 1 : m[i] \in Quiet
        PROVE  m[1] \in Quiet /\ Guarded(Tail(m), guard)
    <2>1. k > 1
      BY <1>3
    <2>2. m[1] \in Quiet
      BY <1>3, <2>1
    <2>3. k - 1 \in 1 .. Len(Tail(m)) /\ Tail(m)[k - 1] = guard
      <3>1. k - 1 \in 1 .. Len(m) - 1 /\ (k - 1) + 1 = k
        BY <2>1
      <3> QED BY <3>1, <1>1, <1>3
    <2>4. ASSUME NEW i \in 1 .. (k - 1) - 1
          PROVE  Tail(m)[i] \in Quiet
      <3>1. i \in 1 .. Len(m) - 1 /\ i + 1 \in 1 .. k - 1
        BY <2>1
      <3>2. Tail(m)[i] = m[i + 1]
        BY <3>1, <1>1
      <3> QED BY <3>1, <3>2, <1>3
    <2> QED BY <2>2, <2>3, <2>4 DEF Guarded
  <1> QED BY <1>2, <1>3 DEF Guarded

\* A handler that has not come to the guard has published nothing but zero; one
\* that has come to it goes on with the methods that follow, or without the guard.
LEMMA GuardsGoOn ==
  ASSUME NEW t \in Threads, todo[t] # <<>>, WorkList(todo[t]), NEW guard,
         LaterGuarded(todo[t], guard)
  PROVE  /\ AllGuarded(<<>>, guard) /\ AllGuarded(Tail(todo[t]), guard)
         /\ LaterGuarded(<<>>, guard) /\ LaterGuarded(Tail(todo[t]), guard)
         /\ LaterGuarded(AfterStep(t), guard)
         /\ AllGuarded(todo[t], guard) /\ Next1(t) # guard =>
              Next1(t) \in Quiet /\ AllGuarded(AfterStep(t), guard)
  <1> DEFINE w == todo[t]
             a == AfterStep(t)
  <1>1. /\ Len(w) \in Nat \ {0} /\ w[1] \in Seq(Steps) /\ Len(w[1]) \in Nat \ {0}
        /\ Next1(t) = w[1][1]
        /\ Len(Tail(w)) = Len(w) - 1 /\ \A i \in 1 .. Len(w) - 1 : Tail(w)[i] = w[i + 1]
    BY WorkFacts
  <1>2. \/ Len(w[1]) = 1 /\ a = Tail(w)
        \/ /\ Len(w[1]) > 1 /\ Len(a) = Len(w) /\ a[1] = Tail(w[1])
           /\ \A i \in 2 .. Len(w) : a[i] = w[i]
    BY AfterFacts
  <1>3. \A j \in 2 .. Len(w) : Guarded(w[j], guard)
    BY DEF LaterGuarded
  <1>4. AllGuarded(<<>>, guard) /\ LaterGuarded(<<>>, guard)
    BY DEF AllGuarded, LaterGuarded
  <1> HIDE DEF w, a
  <1>5. AllGuarded(Tail(w), guard)
    <2> SUFFICES ASSUME NEW j \in 1 .. Len(Tail(w)) PROVE Guarded(Tail(w)[j], guard)
      BY DEF AllGuarded
    <2>1. j \in 1 .. Len(w) - 1 /\ j + 1 \in 2 .. Len(w)
      BY <1>1
    <2> QED BY <2>1, <1>1, <1>3
  <1>6. LaterGuarded(Tail(w), guard)
    BY <1>1, <1>5 DEF AllGuarded, LaterGuarded
  <1>7. LaterGuarded(a, guard)
    BY <1>2, <1>3, <1>6 DEF LaterGuarded
  <1>8. ASSUME AllGuarded(w, guard), Next1(t) # guard
        PROVE  Next1(t) \in Quiet /\ AllGuarded(a, guard)
    <2>1. Guarded(w[1], guard)
      BY <1>1, <1>8 DEF AllGuarded
    <2>2. Next1(t) \in Quiet /\ (Len(w[1]) > 1 => Guarded(Tail(w[1]), guard))
      BY <2>1, <1>1, <1>8, GuardedTail
    <2>3. CASE a = Tail(w)
      BY <2>2, <2>3, <1>5
    <2>4. CASE Len(w[1]) > 1 /\ Len(a) = Len(w) /\ a[1] = Tail(w[1])
      BY <2>2, <2>4, <1>1, <1>7 DEF AllGuarded, LaterGuarded
    <2> QED BY <2>3, <2>4, <1>2
  <1> QED BY <1>4, <1>5, <1>6, <1>7, <1>8, Zenon DEF w, a

LEMMA LockAwareTail ==
  ASSUME NEW m \in Seq(Steps), Len(m) \in Nat \ {0}, LockAware(m)
  PROVE  /\ LockAware(Tail(m))
         /\ m[1] = LockStep => Len(m) = 3 /\ Tail(m) = HandleStop
  <1>1. /\ Tail(m) \in Seq(Steps) /\ Len(Tail(m)) = Len(m) - 1
        /\ \A i \in 1 .. Len(m) - 1 : Tail(m)[i] = m[i + 1]
    BY HeadTailProperties, EmptySeq
  <1>2. ASSUME NEW k \in 1 .. Len(Tail(m)), Tail(m)[k] = LockStep
        PROVE  Len(Tail(m)) = k + 2 /\ <<Tail(m)[k + 1], Tail(m)[k + 2]>> = HandleStop
    <2>1. k + 1 \in 1 .. Len(m) /\ m[k + 1] = LockStep
      BY <1>1, <1>2
    <2>2. Len(m) = (k + 1) + 2 /\ <<m[(k + 1) + 1], m[(k + 1) + 2]>> = HandleStop
      BY <2>1 DEF LockAware
    <2>3. k + 1 \in 1 .. Len(m) - 1 /\ k + 2 \in 1 .. Len(m) - 1
      BY <2>2
    <2>4. Tail(m)[k + 1] = m[(k + 1) + 1] /\ Tail(m)[k + 2] = m[(k + 1) + 2]
      BY <2>3, <1>1
    <2> QED BY <2>2, <2>4, <1>1
  <1>3. ASSUME m[1] = LockStep
        PROVE  Len(m) = 3 /\ Tail(m) = HandleStop
    <2>1. 1 \in 1 .. Len(m)
      OBVIOUS
    <2>2. Len(m) = 1 + 2 /\ <<m[1 + 1], m[1 + 2]>> = HandleStop
      BY <2>1, <1>3 DEF LockAware
    <2>3. Len(m) = 3 /\ <<m[2], m[3]>> = HandleStop
      BY <2>2
    <2>4. Len(Tail(m)) = 2 /\ Tail(m)[1] = m[2] /\ Tail(m)[2] = m[3]
      BY <2>3, <1>1
    <2>5. Tail(m) = <<m[2], m[3]>>
      <3> DEFINE pair == <<m[2], m[3]>>
      <3>1. m[2] \in Steps /\ m[3] \in Steps
        <4>1. 2 \in 1 .. Len(m) /\ 3 \in 1 .. Len(m)
          BY <2>3
        <4> QED BY <4>1, ElementOfSeq
      <3>2. pair \in Seq(Steps) /\ Len(pair) = 2 /\ pair[1] = m[2] /\ pair[2] = m[3]
        BY <3>1
      <3> HIDE DEF pair
      <3>3. \A i \in 1 .. Len(Tail(m)) : Tail(m)[i] = pair[i]
        <4>1. \A i \in 1 .. 2 : i = 1 \/ i = 2
          OBVIOUS
        <4> QED BY <2>4, <3>2, <4>1, Zenon
      <3>4. Tail(m) = pair
        BY <3>2, <3>3, <2>4, <1>1, SeqEqual
      <3> QED BY <3>4 DEF pair
    <2> QED BY <2>3, <2>5
  <1> QED BY <1>2, <1>3 DEF LockAware

\* Whoever locks the joints goes on to stop the robot.
LEMMA LockAwareGoesOn ==
  ASSUME NEW t \in Threads, todo[t] # <<>>, WorkList(todo[t]),
         \A j \in 1 .. Len(todo[t]) : LockAware(todo[t][j])
  PROVE  /\ \A rest \in {<<>>, Tail(todo[t]), AfterStep(t)} :
              \A j \in 1 .. Len(rest) : LockAware(rest[j])
         /\ Next1(t) = LockStep => AfterStep(t) # <<>> /\ Head(AfterStep(t)) = HandleStop
  <1> DEFINE w == todo[t]
             a == AfterStep(t)
  <1>1. /\ Len(w) \in Nat \ {0} /\ w[1] \in Seq(Steps) /\ Len(w[1]) \in Nat \ {0}
        /\ Next1(t) = w[1][1]
        /\ Len(Tail(w)) = Len(w) - 1 /\ \A i \in 1 .. Len(w) - 1 : Tail(w)[i] = w[i + 1]
    BY WorkFacts
  <1>2. \/ Len(w[1]) = 1 /\ a = Tail(w)
        \/ /\ Len(w[1]) > 1 /\ Len(a) = Len(w) /\ a[1] = Tail(w[1])
           /\ a # <<>> /\ Head(a) = Tail(w[1])
           /\ \A i \in 2 .. Len(w) : a[i] = w[i]
    BY AfterFacts
  <1>3. \A j \in 1 .. Len(w) : LockAware(w[j])
    OBVIOUS
  <1> HIDE DEF w, a
  <1>4. LockAware(Tail(w[1])) /\ (w[1][1] = LockStep => Len(w[1]) = 3 /\ Tail(w[1]) = HandleStop)
    <2>1. LockAware(w[1])
      BY <1>1, <1>3
    <2> QED BY <2>1, <1>1, LockAwareTail
  <1>5. \A j \in 1 .. Len(Tail(w)) : LockAware(Tail(w)[j])
    <2> SUFFICES ASSUME NEW j \in 1 .. Len(Tail(w)) PROVE LockAware(Tail(w)[j])
      OBVIOUS
    <2>1. j \in 1 .. Len(w) - 1 /\ j + 1 \in 1 .. Len(w)
      BY <1>1
    <2> QED BY <2>1, <1>1, <1>3
  <1>6. \A j \in 1 .. Len(a) : LockAware(a[j])
    <2>1. CASE a = Tail(w)
      BY <1>5, <2>1, Zenon
    <2>2. CASE /\ Len(a) = Len(w) /\ a[1] = Tail(w[1])
               /\ \A i \in 2 .. Len(w) : a[i] = w[i]
      <3> SUFFICES ASSUME NEW j \in 1 .. Len(w) PROVE LockAware(a[j])
        BY <2>2, Zenon
      <3>1. CASE j = 1
        BY <2>2, <3>1, <1>4, Zenon
      <3>2. CASE j \in 2 .. Len(w)
        BY <2>2, <3>2, <1>3, Zenon
      <3>3. j = 1 \/ j \in 2 .. Len(w)
        BY <1>1
      <3> QED BY <3>1, <3>2, <3>3, Zenon
    <2> QED BY <1>2, <2>1, <2>2, Zenon
  <1>7. \A j \in 1 .. Len(<<>>) : LockAware(<<>>[j])
    OBVIOUS
  <1>8. ASSUME Next1(t) = LockStep
        PROVE  a # <<>> /\ Head(a) = HandleStop
    <2>1. Len(w[1]) = 3 /\ Tail(w[1]) = HandleStop
      BY <1>1, <1>4, <1>8
    <2>2. Len(w[1]) # 1
      BY <2>1
    <2> QED BY <2>1, <2>2, <1>2, Zenon
  <1> QED BY <1>5, <1>6, <1>7, <1>8 DEF w, a

\* What is yet to come is done or still to come.
LEMMA HasGoesOn ==
  ASSUME NEW t \in Threads, todo[t] # <<>>, WorkList(todo[t]), NEW step, Has(todo[t], step)
  PROVE  Next1(t) = step \/ Has(AfterStep(t), step)
  <1> DEFINE w == todo[t]
             a == AfterStep(t)
  <1>1. /\ Len(w) \in Nat \ {0} /\ w[1] \in Seq(Steps) /\ Len(w[1]) \in Nat \ {0}
        /\ Next1(t) = w[1][1]
        /\ Len(Tail(w)) = Len(w) - 1 /\ \A i \in 1 .. Len(w) - 1 : Tail(w)[i] = w[i + 1]
        /\ Len(Tail(w[1])) = Len(w[1]) - 1 /\ \A i \in 1 .. Len(w[1]) - 1 : Tail(w[1])[i] = w[1][i + 1]
        /\ w \in Seq(Seq(Steps))
    BY WorkFacts
  <1>2. \/ Len(w[1]) = 1 /\ a = Tail(w)
        \/ /\ Len(w[1]) > 1 /\ Len(a) = Len(w) /\ a[1] = Tail(w[1])
           /\ \A i \in 2 .. Len(w) : a[i] = w[i]
    BY AfterFacts
  <1>3. PICK j \in 1 .. Len(w) : \E k \in 1 .. Len(w[j]) : w[j][k] = step
    BY DEF Has
  <1>4. PICK k \in 1 .. Len(w[j]) : w[j][k] = step
    BY <1>3
  <1> HIDE DEF w, a
  <1>5. Len(w[j]) \in Nat
    <2>1. w[j] \in Seq(Steps)
      BY <1>1, <1>3, ElementOfSeq
    <2> QED BY <2>1, LenProperties
  <1>6. CASE j = 1 /\ k = 1
    BY <1>1, <1>4, <1>6
  <1>7. CASE j = 1 /\ k > 1
    <2>1. Len(w[1]) > 1 /\ Len(w[1]) # 1
      <3>1. k \in 1 .. Len(w[1]) /\ k > 1 /\ Len(w[1]) \in Nat
        BY <1>1, <1>4, <1>7
      <3>2. \A n \in Nat : \A i \in 1 .. n : i > 1 => n > 1 /\ n # 1
        OBVIOUS
      <3> QED BY <3>1, <3>2, Zenon
    <2>2. Len(a) = Len(w) /\ a[1] = Tail(w[1])
      BY <2>1, <1>2, Zenon
    <2>3. k - 1 \in 1 .. Len(w[1]) - 1 /\ (k - 1) + 1 = k
      BY <1>1, <1>4, <1>7
    <2>4. a[1][k - 1] = step /\ k - 1 \in 1 .. Len(a[1])
      BY <2>2, <2>3, <1>1, <1>4, <1>7
    <2>5. 1 \in 1 .. Len(a)
      BY <2>2, <1>1
    <2> QED BY <2>4, <2>5 DEF Has, a
  <1>8. CASE j > 1
    <2>1. CASE a = Tail(w)
      <3>1. j - 1 \in 1 .. Len(w) - 1 /\ (j - 1) + 1 = j
        BY <1>1, <1>3, <1>8
      <3>2. a[j - 1] = w[j] /\ j - 1 \in 1 .. Len(a)
        BY <3>1, <2>1, <1>1
      <3> QED BY <3>2, <1>4 DEF Has, a
    <2>2. CASE Len(a) = Len(w) /\ \A i \in 2 .. Len(w) : a[i] = w[i]
      <3>1. a[j] = w[j] /\ j \in 1 .. Len(a)
        BY <2>2, <1>1, <1>3, <1>8
      <3> QED BY <3>1, <1>4 DEF Has, a
    <2> QED BY <2>1, <2>2, <1>2
  <1> QED BY <1>3, <1>4, <1>5, <1>6, <1>7, <1>8

\* A method that makes sure of the profile sets it, or leaves the mode alone and
\* goes on to make sure.
LEMMA SyncsTail ==
  ASSUME NEW m \in Seq(Steps), Len(m) \in Nat \ {0}, NEW profile, SyncsFrom(m, 1, profile)
  PROVE  \/ m[1] = Set("m_motionProfile", profile) /\ Tail(m) \in Seq(KeepsMode)
         \/ /\ m[1] \in KeepsMode /\ Len(m) > 1 /\ SyncsFrom(Tail(m), 1, profile)
            /\ Returns(m[1]) => m[1] = ReturnIf("m_motionProfile", profile)
  <1>1. /\ Tail(m) \in Seq(Steps) /\ Len(Tail(m)) = Len(m) - 1
        /\ \A i \in 1 .. Len(m) - 1 : Tail(m)[i] = m[i + 1]
    BY HeadTailProperties, EmptySeq
  <1>2. PICK j \in 1 .. Len(m) :
          /\ m[j] = Set("m_motionProfile", profile)
          /\ \A i \in 1 .. Len(m) : i # j =>
               /\ m[i] \in KeepsMode
               /\ i < j /\ Returns(m[i]) => m[i] = ReturnIf("m_motionProfile", profile)
    BY DEF SyncsFrom
  <1>3. CASE j = 1
    <2>1. \A i \in 1 .. Len(Tail(m)) : Tail(m)[i] \in KeepsMode
      <3> SUFFICES ASSUME NEW i \in 1 .. Len(Tail(m)) PROVE Tail(m)[i] \in KeepsMode
        OBVIOUS
      <3>1. i \in 1 .. Len(m) - 1 /\ i + 1 \in 1 .. Len(m) /\ i + 1 # 1
        BY <1>1
      <3>2. Tail(m)[i] = m[i + 1]
        BY <3>1, <1>1
      <3> QED BY <3>1, <3>2, <1>2, <1>3
    <2>2. Tail(m) \in Seq(KeepsMode)
      BY <2>1, <1>1, NarrowSeq
    <2> QED BY <2>2, <1>2, <1>3
  <1>4. CASE j > 1
    <2>1. /\ m[1] \in KeepsMode /\ Len(m) > 1
          /\ Returns(m[1]) => m[1] = ReturnIf("m_motionProfile", profile)
      BY <1>2, <1>4
    <2>2. j - 1 \in 1 .. Len(Tail(m)) /\ Tail(m)[j - 1] = Set("m_motionProfile", profile)
      <3>1. j - 1 \in 1 .. Len(m) - 1 /\ (j - 1) + 1 = j
        BY <1>4
      <3> QED BY <3>1, <1>1, <1>2
    <2>3. ASSUME NEW i \in 1 .. Len(Tail(m)), i # j - 1
          PROVE  /\ Tail(m)[i] \in KeepsMode
                 /\ i < j - 1 /\ Returns(Tail(m)[i]) =>
                      Tail(m)[i] = ReturnIf("m_motionProfile", profile)
      <3>1. i \in 1 .. Len(m) - 1 /\ i + 1 \in 1 .. Len(m) /\ i + 1 # j /\ (i < j - 1 => i + 1 < j)
        BY <1>1, <2>3
      <3>2. Tail(m)[i] = m[i + 1]
        BY <3>1, <1>1
      <3> QED BY <3>1, <3>2, <1>2
    <2> QED BY <2>1, <2>2, <2>3 DEF SyncsFrom
  <1> QED BY <1>3, <1>4

\* A method that is to store a name stores it, and then makes sure of its profile,
\* or has left the mode alone and goes on.
LEMMA NamesTail ==
  ASSUME NEW m \in Seq(Steps), Len(m) \in Nat \ {0}, Names(m)
  PROVE  \/ /\ Sets(m[1], "mModeName") /\ Len(m) > 1
            /\ SyncsFrom(Tail(m), 1, Profile(m[1][3]))
         \/ m[1] \in KeepsMode /\ Len(m) > 1 /\ Names(Tail(m))
  <1>1. /\ Tail(m) \in Seq(Steps) /\ Len(Tail(m)) = Len(m) - 1
        /\ \A i \in 1 .. Len(m) - 1 : Tail(m)[i] = m[i + 1]
    BY HeadTailProperties, EmptySeq
  <1>2. PICK k \in 1 .. Len(m) :
          /\ Sets(m[k], "mModeName") /\ \A i \in 1 .. k - 1 : m[i] \in KeepsMode
          /\ SyncsFrom(m, k + 1, Profile(m[k][3]))
    BY DEF Names
  <1> DEFINE profile == Profile(m[k][3])
  <1> HIDE DEF profile
  <1>3. PICK j \in k + 1 .. Len(m) :
          /\ m[j] = Set("m_motionProfile", profile)
          /\ \A i \in k + 1 .. Len(m) : i # j =>
               /\ m[i] \in KeepsMode
               /\ i < j /\ Returns(m[i]) => m[i] = ReturnIf("m_motionProfile", profile)
    BY <1>2 DEF SyncsFrom, profile
  <1>4. /\ j - 1 \in k .. Len(Tail(m)) /\ Tail(m)[j - 1] = Set("m_motionProfile", profile)
    <2>1. j - 1 \in 1 .. Len(m) - 1 /\ (j - 1) + 1 = j /\ j - 1 \in k .. Len(m) - 1
      BY <1>3
    <2> QED BY <2>1, <1>1, <1>3
  <1>5. ASSUME NEW i \in k .. Len(Tail(m)), i # j - 1
        PROVE  /\ Tail(m)[i] \in KeepsMode
               /\ i < j - 1 /\ Returns(Tail(m)[i]) =>
                    Tail(m)[i] = ReturnIf("m_motionProfile", profile)
    <2>1. i \in 1 .. Len(m) - 1 /\ i + 1 \in k + 1 .. Len(m) /\ i + 1 # j /\ (i < j - 1 => i + 1 < j)
      BY <1>1, <1>5
    <2>2. Tail(m)[i] = m[i + 1]
      BY <2>1, <1>1
    <2> QED BY <2>1, <2>2, <1>3
  <1>6. SyncsFrom(Tail(m), k, profile)
    BY <1>4, <1>5 DEF SyncsFrom
  <1>7. Len(m) > 1
    BY <1>3
  <1>8. CASE k = 1
    BY <1>2, <1>6, <1>7, <1>8 DEF profile
  <1>9. CASE k > 1
    <2>1. m[1] \in KeepsMode
      BY <1>2, <1>9
    <2>2. k - 1 \in 1 .. Len(Tail(m)) /\ Tail(m)[k - 1] = m[k]
      <3>1. k - 1 \in 1 .. Len(m) - 1 /\ (k - 1) + 1 = k
        BY <1>9
      <3> QED BY <3>1, <1>1
    <2>3. \A i \in 1 .. (k - 1) - 1 : Tail(m)[i] \in KeepsMode
      <3> SUFFICES ASSUME NEW i \in 1 .. (k - 1) - 1 PROVE Tail(m)[i] \in KeepsMode
        OBVIOUS
      <3>1. i \in 1 .. Len(m) - 1 /\ i + 1 \in 1 .. k - 1
        BY <1>9
      <3>2. Tail(m)[i] = m[i + 1]
        BY <3>1, <1>1
      <3> QED BY <3>1, <3>2, <1>2
    <2>4. SyncsFrom(Tail(m), (k - 1) + 1, Profile(Tail(m)[k - 1][3]))
      <3>1. (k - 1) + 1 = k
        OBVIOUS
      <3> QED BY <3>1, <2>2, <1>6 DEF profile
    <2> QED BY <2>1, <2>2, <2>3, <2>4, <1>2, <1>7 DEF Names
  <1> QED BY <1>8, <1>9

-----------------------------------------------------------------------------
(* The kinds of the steps.                                                 *)

LEMMA KindsOfFieldSteps ==
  ASSUME NEW f \in Fields, NEW v \in FieldType[f]
  PROVE  /\ Set(f, v) \in Quiet /\ ~Returns(Set(f, v)) /\ Set(f, v)[3] = v
         /\ \A g : Sets(Set(f, v), g) <=> f = g
         /\ ReturnIf(f, v) \in MainSteps \cap AiOnly
         /\ ReturnUnless(f, v) \in MainSteps \cap AiOnly
  <1>1. {Set(f, v), ReturnIf(f, v), ReturnUnless(f, v)} \subseteq Steps
    BY FieldStep DEF Steps
  <1>2. /\ Set(f, v)[1] = "Set" /\ Set(f, v)[2] = f /\ Set(f, v)[3] = v
        /\ ReturnIf(f, v)[1] = "ReturnIf" /\ ReturnUnless(f, v)[1] = "ReturnUnless"
    BY DEF Set, ReturnIf, ReturnUnless
  <1> QED
    BY <1>1, <1>2, Zenon DEF Quiet, KeepsLock, KeepsMode, AiOnly, MainSteps, Sets, Returns

\* The steps on the fields that no property here is about, and the tests.
LEMMA HarmlessSteps ==
  /\ \A f \in {"m_continuousMoveMode", "m_hasActiveMove", "mSilent"} : \A b \in BOOLEAN :
       Set(f, b) \in MainSteps \cap ResetSteps
  /\ \A f \in {"m_continuousMoveMode", "m_jointsLocked", "m_hasActiveMove"} : \A b \in BOOLEAN :
       ReturnIf(f, b) \in MainSteps /\ ReturnUnless(f, b) \in MainSteps
  /\ \A w \in Bridge!WalkMode :
       Set("m_walkMode", w) \in MainSteps \cap ResetSteps /\ ReturnUnless("m_walkMode", w) \in MainSteps
  /\ \A p \in Bridge!MotionProfile : ReturnIf("m_motionProfile", p) \in MainSteps \cap AiOnly
  /\ \A l \in Int : Set("m_speedLevel", l) \in MainSteps \cap ResetSteps
  /\ \A c \in 0 .. TopSpeed : Set("m_maxLinearSpeed", c) \in MainSteps \cap ResetSteps
  /\ \A v \in Limited : Set("m_lastVelocity", v) \in MainSteps \cap ResetSteps
  /\ \A a \in 0 .. MOVE_STOP_TIMEOUT :
       Set("moveAge", a) \in MainSteps \cap ResetSteps /\ ReturnUnless("moveAge", a) \in MainSteps
  /\ \A f \in Bridge!Forms : Set("mForm", f) \in MainSteps \cap ResetSteps
  /\ \A p \in Bridge!RobotPosture :
       /\ Set("mRobotPosture", p) \in MainSteps \cap ResetSteps
       /\ ReturnUnless("mRobotPosture", p) \in MainSteps \cap AiOnly
  <1>1. ASSUME NEW f \in Fields \ {"m_jointsLocked", "m_motionProfile", "mModeName"},
               NEW v \in FieldType[f]
        PROVE  Set(f, v) \in MainSteps \cap ResetSteps
    <2> DEFINE s == Set(f, v)
    <2>1. s \in Quiet /\ ~Returns(s) /\ \A g : Sets(s, g) <=> f = g
      BY KindsOfFieldSteps
    <2>2. ~Sets(s, "m_jointsLocked") /\ ~Sets(s, "m_motionProfile") /\ ~Sets(s, "mModeName")
      BY <2>1
    <2> HIDE DEF s
    <2>3. s \in MainSteps
      BY <2>1, <2>2 DEF MainSteps, KeepsLock, KeepsMode, Quiet
    <2>4. s \in ResetSteps
      BY <2>1, <2>2 DEF ResetSteps, AiOnly, Quiet
    <2> QED BY <2>3, <2>4 DEF s
  <1>2. \A f \in {"m_continuousMoveMode", "m_hasActiveMove", "mSilent"} : \A b \in BOOLEAN :
          Set(f, b) \in MainSteps \cap ResetSteps
    BY <1>1, FieldValues
  <1>3. \A f \in {"m_continuousMoveMode", "m_jointsLocked", "m_hasActiveMove"} : \A b \in BOOLEAN :
          ReturnIf(f, b) \in MainSteps /\ ReturnUnless(f, b) \in MainSteps
    BY KindsOfFieldSteps, FieldValues
  <1>4. \A w \in Bridge!WalkMode :
          Set("m_walkMode", w) \in MainSteps \cap ResetSteps /\ ReturnUnless("m_walkMode", w) \in MainSteps
    BY <1>1, KindsOfFieldSteps, FieldValues
  <1>5. \A p \in Bridge!MotionProfile : ReturnIf("m_motionProfile", p) \in MainSteps \cap AiOnly
    BY KindsOfFieldSteps, FieldValues
  <1>6. /\ \A l \in Int : Set("m_speedLevel", l) \in MainSteps \cap ResetSteps
        /\ \A c \in 0 .. TopSpeed : Set("m_maxLinearSpeed", c) \in MainSteps \cap ResetSteps
        /\ \A v \in Limited : Set("m_lastVelocity", v) \in MainSteps \cap ResetSteps
        /\ \A f \in Bridge!Forms : Set("mForm", f) \in MainSteps \cap ResetSteps
    BY <1>1, FieldValues
  <1>7. \A a \in 0 .. MOVE_STOP_TIMEOUT :
          Set("moveAge", a) \in MainSteps \cap ResetSteps /\ ReturnUnless("moveAge", a) \in MainSteps
    BY <1>1, KindsOfFieldSteps, FieldValues
  <1>8. \A p \in Bridge!RobotPosture :
          /\ Set("mRobotPosture", p) \in MainSteps \cap ResetSteps
          /\ ReturnUnless("mRobotPosture", p) \in MainSteps \cap AiOnly
    BY <1>1, KindsOfFieldSteps, FieldValues
  <1> QED BY <1>2, <1>3, <1>4, <1>5, <1>6, <1>7, <1>8

\* The steps on the lock, the profile and the name of the mode.
LEMMA TellingSteps ==
  /\ \A b \in BOOLEAN : LET s == Set("m_jointsLocked", b) IN
       s \in Quiet \cap KeepsMode \cap ResetSteps /\ s[3] = b
  /\ \A p \in Bridge!MotionProfile : LET s == Set("m_motionProfile", p) IN
       s \in Quiet \cap KeepsLock /\ s[3] = p
  /\ \A n \in Bridge!SelectedModes : LET s == Set("mModeName", n) IN
       s \in Quiet \cap KeepsLock \cap AiOnly /\ Sets(s, "mModeName") /\ s[3] = n
  /\ AiStep \in ResetSteps /\ AiNameStep \in ResetSteps /\ AiStep # AiNameStep
  <1>1. ASSUME NEW b \in BOOLEAN
        PROVE  Set("m_jointsLocked", b) \in Quiet \cap KeepsMode \cap ResetSteps
               /\ Set("m_jointsLocked", b)[3] = b
    <2> DEFINE s == Set("m_jointsLocked", b)
    <2>1. s \in Quiet /\ ~Returns(s) /\ s[3] = b /\ \A g : Sets(s, g) <=> "m_jointsLocked" = g
      BY KindsOfFieldSteps, FieldValues
    <2>2. ~Sets(s, "m_motionProfile") /\ ~Sets(s, "mModeName")
      BY <2>1
    <2> HIDE DEF s
    <2>3. s \in KeepsMode \cap ResetSteps
      BY <2>1, <2>2 DEF KeepsMode, ResetSteps, AiOnly, Quiet
    <2> QED BY <2>1, <2>3 DEF s
  <1>2. ASSUME NEW p \in Bridge!MotionProfile
        PROVE  /\ Set("m_motionProfile", p) \in Quiet \cap KeepsLock
               /\ Set("m_motionProfile", p)[3] = p
               /\ ~Returns(Set("m_motionProfile", p)) /\ ~Sets(Set("m_motionProfile", p), "mModeName")
    <2> DEFINE s == Set("m_motionProfile", p)
    <2>1. s \in Quiet /\ ~Returns(s) /\ s[3] = p /\ \A g : Sets(s, g) <=> "m_motionProfile" = g
      BY KindsOfFieldSteps, FieldValues
    <2>2. ~Sets(s, "m_jointsLocked") /\ ~Sets(s, "mModeName")
      BY <2>1
    <2> HIDE DEF s
    <2>3. s \in KeepsLock
      BY <2>1, <2>2 DEF KeepsLock, Quiet
    <2> QED BY <2>1, <2>2, <2>3 DEF s
  <1>3. ASSUME NEW n \in Bridge!SelectedModes
        PROVE  /\ Set("mModeName", n) \in Quiet \cap KeepsLock \cap AiOnly
               /\ Sets(Set("mModeName", n), "mModeName") /\ Set("mModeName", n)[3] = n
               /\ ~Returns(Set("mModeName", n))
    <2> DEFINE s == Set("mModeName", n)
    <2>1. s \in Quiet /\ ~Returns(s) /\ s[3] = n /\ \A g : Sets(s, g) <=> "mModeName" = g
      BY KindsOfFieldSteps, FieldValues
    <2>2. ~Sets(s, "m_jointsLocked") /\ ~Sets(s, "m_motionProfile") /\ Sets(s, "mModeName")
      BY <2>1
    <2> HIDE DEF s
    <2>3. s \in KeepsLock \cap AiOnly
      BY <2>1, <2>2 DEF KeepsLock, AiOnly, Quiet
    <2> QED BY <2>1, <2>2, <2>3 DEF s
  <1>4. AiStep \in ResetSteps
    BY <1>2 DEF AiStep, ResetSteps, AiOnly, Quiet, Bridge!MotionProfile
  <1>5. AiNameStep \in ResetSteps
    BY <1>3 DEF AiNameStep, ResetSteps, Quiet, Bridge!SelectedModes
  <1>6. AiStep # AiNameStep
    BY DEF AiStep, AiNameStep, Set
  <1> QED BY <1>1, <1>2, <1>3, <1>4, <1>5, <1>6

\* The steps on no field.
LEMMA FieldlessSteps ==
  /\ \A op \in {"Finish", "CopyLastVelocity", "CompareWithCap", "ScaleToCap", "StoreLastVelocity",
                "ReadProfile", "ChooseCap", "StoreCap"} : Do(op) \in MainSteps \cap AiOnly
  /\ Publish(Zero) \in MainSteps \cap ResetSteps
  /\ \A v \in Bridge!ParsedVelocities : <<"TakeParameter", v>> \in MainSteps
  /\ Do("PublishCopy") \in KeepsLock \cap KeepsMode \cap AiOnly
  <1>1. /\ \A op \in PlainDos \cup ChainedNames : Do(op) \in Steps
        /\ Publish(Zero) \in Steps
        /\ \A v \in Bridge!ParsedVelocities : <<"TakeParameter", v>> \in Steps
    BY OtherSteps DEF Steps, ChainedSteps, ChainedNames, Do
  <1>2. /\ \A op : Do(op)[1] = op
        /\ Publish(Zero)[1] = "Publish"
        /\ \A v : <<"TakeParameter", v>>[1] = "TakeParameter"
    BY DEF Do, Publish
  <1>3. ASSUME NEW s \in Steps, s[1] # "Set"
        PROVE  /\ s \in KeepsLock \cap KeepsMode \cap AiOnly
               /\ s[1] # "PublishCopy" => s \in MainSteps
               /\ s[1] = "Publish" => s \in ResetSteps
    BY <1>3 DEF KeepsLock, KeepsMode, AiOnly, MainSteps, ResetSteps, Quiet, Sets, Returns
  <1> QED BY <1>1, <1>2, <1>3 DEF PlainDos, ChainedNames

-----------------------------------------------------------------------------
(* The methods of the sport thread.                                        *)

\* Steps before which no guard is needed, and steps that do not lock the joints.
Calm      == {s \in Quiet \cap KeepsMode : s # LockStep}
NoLocking == {s \in KeepsMode : s # LockStep}

SportMethods == {m \in Seq(KeepsMode) : m # <<>> /\ Guarded(m, LockGate) /\ LockAware(m)}

LEMMA KindsInclude ==
  /\ MainSteps \subseteq Calm /\ Calm \subseteq NoLocking /\ NoLocking \subseteq KeepsMode
  /\ Calm \subseteq Quiet /\ Do("PublishCopy") \in NoLocking
  /\ Set("m_jointsLocked", FALSE) \in Calm
  /\ LockStep \in Quiet \cap KeepsMode /\ LockGate \in MainSteps
  <1>1. LockStep \in Quiet \cap KeepsMode \cap ResetSteps /\ LockStep[3] = TRUE
    BY TellingSteps, Zenon DEF LockStep
  <1>2. LockStep \notin KeepsLock
    BY KindsOfFieldSteps, FieldValues, Zenon DEF LockStep, KeepsLock, Sets, Set
  <1>3. MainSteps \subseteq Calm
    BY <1>2 DEF MainSteps, Calm
  <1>4. Do("PublishCopy") \in NoLocking
    BY <1>2, FieldlessSteps DEF NoLocking
  <1>5. Set("m_jointsLocked", FALSE) \in Calm
    <2> DEFINE s == Set("m_jointsLocked", FALSE)
    <2>1. s \in Quiet \cap KeepsMode \cap ResetSteps /\ s[3] = FALSE
      BY TellingSteps, Zenon
    <2> HIDE DEF s
    <2>2. s # LockStep
      BY <1>1, <2>1
    <2> QED BY <2>1, <2>2 DEF Calm, s
  <1>6. LockGate \in MainSteps
    BY HarmlessSteps, Zenon DEF LockGate
  <1> QED BY <1>1, <1>3, <1>4, <1>5, <1>6 DEF Calm, NoLocking

LEMMA JoinSeq ==
  ASSUME NEW S, NEW m \in Seq(S), NEW n \in Seq(S)
  PROVE  m \o n \in Seq(S)
  BY ConcatProperties

LEMMA FirstOfJoin ==
  ASSUME NEW S, NEW T, NEW m \in Seq(S), m # <<>>, NEW n \in Seq(T)
  PROVE  m \o n # <<>> /\ (m \o n)[1] = m[1]
  <1>1. m \in Seq(S \cup T) /\ n \in Seq(S \cup T)
    BY SeqMonotonic
  <1>2. Len(m) \in Nat \ {0} /\ Len(n) \in Nat
    BY EmptySeq, LenProperties
  <1>3. /\ m \o n \in Seq(S \cup T) /\ Len(m \o n) = Len(m) + Len(n)
        /\ \A i \in 1 .. Len(m) + Len(n) : (m \o n)[i] = IF i <= Len(m) THEN m[i] ELSE n[i - Len(m)]
    BY <1>1, ConcatProperties
  <1>4. Len(m \o n) >= 1 /\ (m \o n)[1] = m[1]
    BY <1>2, <1>3
  <1> QED BY <1>3, <1>4, NonEmptySeq

\* A method that never publishes a velocity, and one that begins with the guard.
LEMMA GuardedMethods ==
  /\ \A guard : \A m \in Seq(Quiet) : Guarded(m, guard)
  /\ \A guard : \A m \in Seq(Steps) : m # <<>> /\ m[1] = guard => Guarded(m, guard)
  <1>1. ASSUME NEW m \in Seq(Steps), NEW guard, m # <<>>, m[1] = guard
        PROVE  Guarded(m, guard)
    <2>1. 1 \in 1 .. Len(m) /\ \A i \in 1 .. 1 - 1 : m[i] \in Quiet
      BY <1>1, EmptySeq
    <2> QED BY <2>1, <1>1 DEF Guarded
  <1> QED BY <1>1 DEF Guarded

\* What is quiet may come before what is guarded.
LEMMA QuietThenGuarded ==
  ASSUME NEW c \in Seq(Quiet), NEW m \in Seq(Steps), NEW guard, Guarded(m, guard)
  PROVE  Guarded(c \o m, guard)
  <1>1. c \in Seq(Steps)
    BY SeqMonotonic DEF Quiet
  <1>2. Len(c) \in Nat /\ Len(m) \in Nat
    BY LenProperties
  <1>3. Len(c \o m) = Len(c) + Len(m)
        /\ \A i \in 1 .. Len(c) + Len(m) : (c \o m)[i] = IF i <= Len(c) THEN c[i] ELSE m[i - Len(c)]
    BY <1>1, ConcatProperties
  <1>4. CASE m \in Seq(Quiet)
    BY <1>4, JoinSeq DEF Guarded
  <1>5. ASSUME NEW k \in 1 .. Len(m), m[k] = guard, \A i \in 1 .. k - 1 : m[i] \in Quiet
        PROVE  Guarded(c \o m, guard)
    <2>1. Len(c) + k \in 1 .. Len(c \o m) /\ (c \o m)[Len(c) + k] = guard
      BY <1>2, <1>3, <1>5
    <2>2. ASSUME NEW i \in 1 .. (Len(c) + k) - 1
          PROVE  (c \o m)[i] \in Quiet
      <3>1. CASE i <= Len(c)
        <4>1. i \in 1 .. Len(c) /\ (c \o m)[i] = c[i]
          BY <3>1, <1>2, <1>3
        <4> QED BY <4>1, ElementOfSeq
      <3>2. CASE i > Len(c)
        <4>1. i - Len(c) \in 1 .. k - 1 /\ (c \o m)[i] = m[i - Len(c)]
          BY <3>2, <1>2, <1>3
        <4> QED BY <4>1, <1>5
      <3> QED BY <3>1, <3>2, <1>2
    <2> QED BY <2>1, <2>2 DEF Guarded
  <1> QED BY <1>4, <1>5 DEF Guarded

\* Without a step that locks there is nothing to be aware of.
LEMMA NoLockingIsAware == \A m \in Seq(NoLocking) : LockAware(m)
  BY ElementOfSeq DEF LockAware, NoLocking

LEMMA CalmMethod ==
  ASSUME NEW m \in Seq(Calm), m # <<>>
  PROVE  m \in SportMethods
  <1>1. m \in Seq(Quiet) /\ m \in Seq(NoLocking) /\ m \in Seq(KeepsMode)
    BY KindsInclude, SeqMonotonic
  <1> QED BY <1>1, GuardedMethods, NoLockingIsAware DEF SportMethods

LEMMA GateFirst ==
  ASSUME NEW m \in Seq(NoLocking), m # <<>>, m[1] = LockGate
  PROVE  m \in SportMethods
  <1>1. m \in Seq(Steps) /\ m \in Seq(KeepsMode)
    BY KindsInclude, SeqMonotonic DEF NoLocking, KeepsMode
  <1> QED BY <1>1, GuardedMethods, NoLockingIsAware DEF SportMethods

LEMMA CalmThen ==
  ASSUME NEW c \in Seq(Calm), NEW m \in SportMethods
  PROVE  c \o m \in SportMethods
  <1>1. /\ c \in Seq(Quiet) /\ c \in Seq(KeepsMode) /\ c \in Seq(Steps)
        /\ m \in Seq(KeepsMode) /\ m \in Seq(Steps) /\ Guarded(m, LockGate) /\ LockAware(m)
        /\ m # <<>>
    BY KindsInclude, SeqMonotonic DEF SportMethods, KeepsMode, Quiet
  <1>2. c \o m \in Seq(KeepsMode) /\ Guarded(c \o m, LockGate)
    BY <1>1, JoinSeq, QuietThenGuarded
  <1>3. Len(c) \in Nat /\ Len(m) \in Nat \ {0}
    BY <1>1, LenProperties, EmptySeq
  <1>4. /\ c \o m \in Seq(Steps) /\ Len(c \o m) = Len(c) + Len(m)
        /\ \A i \in 1 .. Len(c) + Len(m) : (c \o m)[i] = IF i <= Len(c) THEN c[i] ELSE m[i - Len(c)]
    BY <1>1, ConcatProperties
  <1>5. c \o m # <<>>
    BY <1>3, <1>4, NonEmptySeq
  <1>6. ASSUME NEW k \in 1 .. Len(c \o m), (c \o m)[k] = LockStep
        PROVE  Len(c \o m) = k + 2 /\ <<(c \o m)[k + 1], (c \o m)[k + 2]>> = HandleStop
    <2>1. CASE k <= Len(c)
      <3>1. k \in 1 .. Len(c) /\ c[k] = LockStep
        BY <2>1, <1>3, <1>4, <1>6
      <3>2. c[k] \in Calm
        BY <3>1, ElementOfSeq
      <3> QED BY <3>1, <3>2 DEF Calm
    <2>2. CASE k > Len(c)
      <3> DEFINE n == k - Len(c)
      <3>1. n \in 1 .. Len(m) /\ m[n] = LockStep
        BY <2>2, <1>3, <1>4, <1>6
      <3>2. Len(m) = n + 2 /\ <<m[n + 1], m[n + 2]>> = HandleStop
        BY <3>1, <1>1 DEF LockAware
      <3>3. (c \o m)[k + 1] = m[n + 1] /\ (c \o m)[k + 2] = m[n + 2]
        <4>1. /\ k + 1 \in 1 .. Len(c) + Len(m) /\ ~(k + 1 <= Len(c)) /\ (k + 1) - Len(c) = n + 1
              /\ k + 2 \in 1 .. Len(c) + Len(m) /\ ~(k + 2 <= Len(c)) /\ (k + 2) - Len(c) = n + 2
          BY <2>2, <3>1, <3>2, <1>3
        <4> HIDE DEF n
        <4> QED BY <4>1, <1>4
      <3> QED BY <3>2, <3>3, <1>3, <1>4
    <2> QED BY <2>1, <2>2, <1>3, <1>4
  <1> QED BY <1>2, <1>5, <1>6 DEF SportMethods, LockAware

LEMMA LockJointsAware ==
  /\ LockJoints \in SportMethods /\ LockJoints \in Seq(Quiet)
  /\ HandleStop \in SportMethods /\ HandleStop \in Seq(Quiet)
  <1> DEFINE a == Set("m_hasActiveMove", FALSE)
             b == Publish(Zero)
  <1>1. a \in MainSteps
    BY HarmlessSteps, Zenon
  <1>2. b \in MainSteps
    BY FieldlessSteps
  <1>3. LockStep \in Quiet \cap KeepsMode /\ a \in Calm /\ b \in Calm
    BY <1>1, <1>2, KindsInclude
  <1>4. LockJoints = <<LockStep, a, b>> /\ HandleStop = <<a, b>>
    BY Zenon DEF LockJoints, HandleStop, LockStep
  <1> HIDE DEF a, b
  <1>5. <<a, b>> \in Seq(Calm) /\ <<a, b>> # <<>> /\ <<a, b>> \in Seq(Quiet)
    BY <1>3, KindsInclude
  <1>6. <<LockStep, a, b>> \in Seq(KeepsMode) /\ <<LockStep, a, b>> \in Seq(Quiet)
        /\ <<LockStep, a, b>> # <<>>
    BY <1>3, KindsInclude
  <1>7. LockAware(<<LockStep, a, b>>)
    BY <1>3, <1>4 DEF LockAware, Calm
  <1> QED BY <1>4, <1>5, <1>6, <1>7, CalmMethod, GuardedMethods DEF SportMethods

LEMMA SimpleSportMethods ==
  /\ \A p \in Bridge!RobotPosture : SetRobotPosture(p) \in SportMethods /\ SetRobotPosture(p) \in Seq(Quiet)
  /\ UnlockJoints \in SportMethods /\ UnlockJoints \in Seq(Calm)
  /\ Nothing \in SportMethods
  /\ \A enabled \in BOOLEAN : SetContinuousMoveMode(enabled) \in SportMethods
  /\ \A gait : SetGait(gait) \in SportMethods
  /\ \A mode \in Bridge!WalkMode, enabled \in BOOLEAN : SetWalkMode(mode, enabled) \in SportMethods
  <1>1. ASSUME NEW s \in Calm
        PROVE  <<s>> \in Seq(Calm) /\ <<s>> \in SportMethods
    <2>1. <<s>> \in Seq(Calm) /\ <<s>> # <<>>
      OBVIOUS
    <2> QED BY <2>1, CalmMethod
  <1>2. ASSUME NEW p \in Bridge!RobotPosture
        PROVE  SetRobotPosture(p) \in SportMethods /\ SetRobotPosture(p) \in Seq(Quiet)
    <2>1. Set("mRobotPosture", p) \in Calm
      BY HarmlessSteps, KindsInclude
    <2>2. SetRobotPosture(p) \in Seq(Calm)
      BY <2>1, <1>1 DEF SetRobotPosture
    <2> QED BY <2>1, <2>2, <1>1, KindsInclude, SeqMonotonic DEF SetRobotPosture
  <1>3. UnlockJoints \in SportMethods /\ UnlockJoints \in Seq(Calm)
    BY <1>1, KindsInclude, Zenon DEF UnlockJoints
  <1>4. Nothing \in SportMethods
    BY <1>1, KindsInclude, FieldlessSteps DEF Nothing
  <1>5. ASSUME NEW enabled \in BOOLEAN
        PROVE  SetContinuousMoveMode(enabled) \in SportMethods
    <2> DEFINE s == Set("m_continuousMoveMode", enabled)
               a == Set("moveAge", 0)
    <2>1. s \in Calm /\ a \in Calm
      BY HarmlessSteps, KindsInclude, ThreadsAssumption
    <2>2. SetContinuousMoveMode(enabled) = <<s>> \o (IF enabled THEN <<>> ELSE <<a>>)
      BY Zenon DEF SetContinuousMoveMode
    <2> HIDE DEF s, a
    <2>3. <<s>> \o <<>> \in Seq(Calm) /\ <<s>> \o <<>> # <<>>
      BY <2>1
    <2>4. <<s>> \o <<a>> \in Seq(Calm) /\ <<s>> \o <<a>> # <<>>
      BY <2>1
    <2> QED BY <2>2, <2>3, <2>4, CalmMethod
  <1>6. \A gait : SetGait(gait) \in SportMethods
    BY <1>3, <1>4, LockJointsAware DEF SetGait
  <1>7. ASSUME NEW mode \in Bridge!WalkMode, NEW enabled \in BOOLEAN
        PROVE  SetWalkMode(mode, enabled) \in SportMethods
    <2> DEFINE s == Set("m_walkMode", mode)
               r == ReturnUnless("m_walkMode", mode)
               n == Set("m_walkMode", "None")
    <2>1. s \in Calm /\ r \in Calm /\ n \in Calm
      BY HarmlessSteps, KindsInclude DEF Bridge!WalkMode
    <2>2. SetWalkMode(mode, enabled) =
            IF enabled THEN <<s>> \o UnlockJoints ELSE <<r, n>> \o LockJoints
      BY Zenon DEF SetWalkMode
    <2> HIDE DEF s, r, n
    <2>3. <<s>> \in Seq(Calm) /\ <<r, n>> \in Seq(Calm)
      BY <2>1
    <2> QED BY <2>2, <2>3, <1>3, LockJointsAware, CalmThen
  <1> QED BY <1>2, <1>3, <1>4, <1>5, <1>6, <1>7

\* PublishMove neither locks nor touches the mode.
LEMMA PublishMoveKinds ==
  PublishMove \in Seq(KeepsLock \cap KeepsMode) /\ PublishMove \in Seq(NoLocking)
  <1>1. ASSUME NEW S, Do("CopyLastVelocity") \in S, Do("PublishCopy") \in S
        PROVE  PublishMove \in Seq(S)
    BY <1>1 DEF PublishMove
  <1> QED BY <1>1, FieldlessSteps, KindsInclude DEF MainSteps

LEMMA CapSportMethods ==
  /\ ApplySpeedLimit \in Seq(MainSteps) /\ ApplyMaxLinearSpeed \in Seq(MainSteps)
  /\ RepublishActiveMove \in SportMethods /\ RepublishActiveMove \in Seq(KeepsLock \cap KeepsMode)
  /\ RepublishActiveMove \in Seq(NoLocking)
  /\ \A level \in Int : SetSpeedLevel(level) \in SportMethods
  <1>1. ApplySpeedLimit \in Seq(MainSteps) /\ ApplyMaxLinearSpeed \in Seq(MainSteps)
    BY FieldlessSteps DEF ApplySpeedLimit, ApplyMaxLinearSpeed
  <1> DEFINE a == ReturnIf("m_jointsLocked", TRUE)
             b == ReturnUnless("m_hasActiveMove", TRUE)
             c == Do("CopyLastVelocity")
             d == Do("StoreLastVelocity")
  <1>2. a \in MainSteps /\ b \in MainSteps
    BY HarmlessSteps, Zenon
  <1>3. c \in MainSteps /\ d \in MainSteps
    BY FieldlessSteps
  <1>4. RepublishActiveMove = <<a, b, c>> \o ApplySpeedLimit \o <<d>> \o PublishMove /\ a = LockGate
    BY Zenon DEF RepublishActiveMove, LockGate
  <1> HIDE DEF a, b, c, d
  <1>5. ASSUME NEW S, MainSteps \subseteq S, PublishMove \in Seq(S)
        PROVE  RepublishActiveMove \in Seq(S)
    <2>1. <<a, b, c>> \in Seq(S) /\ <<d>> \in Seq(S)
      BY <1>2, <1>3, <1>5
    <2>2. ApplySpeedLimit \in Seq(S)
      BY <1>1, <1>5, SeqMonotonic
    <2> QED BY <2>1, <2>2, <1>4, <1>5, JoinSeq
  <1>6. RepublishActiveMove \in Seq(KeepsLock \cap KeepsMode) /\ RepublishActiveMove \in Seq(NoLocking)
    BY <1>5, PublishMoveKinds, KindsInclude DEF MainSteps
  <1>7. RepublishActiveMove # <<>> /\ RepublishActiveMove[1] = a
    <2>1. <<a, b, c>> \in Seq(MainSteps) /\ <<a, b, c>> # <<>> /\ <<a, b, c>>[1] = a
      BY <1>2, <1>3
    <2>2. <<a, b, c>> \o ApplySpeedLimit \in Seq(MainSteps) /\ <<a, b, c>> \o ApplySpeedLimit # <<>>
          /\ (<<a, b, c>> \o ApplySpeedLimit)[1] = a
      BY <2>1, <1>1, FirstOfJoin, JoinSeq
    <2> DEFINE m == <<a, b, c>> \o ApplySpeedLimit
    <2>3. <<d>> \in Seq(MainSteps)
      BY <1>3
    <2> HIDE DEF m
    <2>4. m \o <<d>> \in Seq(MainSteps) /\ m \o <<d>> # <<>> /\ (m \o <<d>>)[1] = a
      BY <2>2, <2>3, FirstOfJoin, JoinSeq DEF m
    <2>5. RepublishActiveMove = (m \o <<d>>) \o PublishMove
      BY <1>4 DEF m
    <2> QED BY <2>4, <2>5, PublishMoveKinds, FirstOfJoin
  <1>8. RepublishActiveMove \in SportMethods
    BY <1>4, <1>6, <1>7, GateFirst
  <1>9. ASSUME NEW level \in Int
        PROVE  SetSpeedLevel(level) \in SportMethods
    <2> DEFINE s == Set("m_speedLevel", level)
               r == ReturnIf("m_motionProfile", "Sport")
    <2>1. s \in Calm /\ r \in Calm
      BY HarmlessSteps, KindsInclude DEF Bridge!MotionProfile
    <2>2. SetSpeedLevel(level) = <<s, r>> \o ApplyMaxLinearSpeed \o RepublishActiveMove
      BY Zenon DEF SetSpeedLevel
    <2> HIDE DEF s, r
    <2>3. <<s, r>> \in Seq(Calm)
      BY <2>1
    <2>4. <<s, r>> \o ApplyMaxLinearSpeed \in Seq(Calm)
      BY <2>3, <1>1, KindsInclude, SeqMonotonic, JoinSeq
    <2> QED BY <2>2, <2>4, <1>8, CalmThen
  <1> QED BY <1>1, <1>6, <1>8, <1>9

LEMMA MoveSportMethods ==
  ASSUME NEW velocity \in Bridge!ParsedVelocities
  PROVE  HandleMove(velocity) \in SportMethods /\ UpdatePostureFromMove(velocity) \in SportMethods
  <1> DEFINE a == ReturnIf("m_jointsLocked", TRUE)
             b == <<"TakeParameter", velocity>>
             c == Do("StoreLastVelocity")
             d == Set("moveAge", 0)
             e == Set("m_hasActiveMove", TRUE)
  <1>1. a \in MainSteps /\ e \in MainSteps
    BY HarmlessSteps, Zenon
  <1>2. b \in MainSteps /\ c \in MainSteps
    BY FieldlessSteps
  <1>3. d \in MainSteps
    BY HarmlessSteps, ThreadsAssumption
  <1>4. HandleMove(velocity) = <<a, b>> \o ApplySpeedLimit \o <<c, d, e>> \o PublishMove /\ a = LockGate
    BY Zenon DEF HandleMove, LockGate
  <1>5. UpdatePostureFromMove(velocity) = IF velocity = Zero THEN Nothing ELSE <<a>> \o SetRobotPosture("Walking")
    BY Zenon DEF UpdatePostureFromMove
  <1> HIDE DEF a, b, c, d, e
  <1>6. HandleMove(velocity) \in SportMethods
    <2>1. <<a, b>> \in Seq(NoLocking) /\ <<a, b>> # <<>> /\ <<a, b>>[1] = a /\ <<c, d, e>> \in Seq(NoLocking)
      BY <1>1, <1>2, <1>3, KindsInclude
    <2>2. ApplySpeedLimit \in Seq(NoLocking)
      BY CapSportMethods, KindsInclude, SeqMonotonic
    <2> DEFINE m == <<a, b>> \o ApplySpeedLimit
               n == <<c, d, e>>
    <2>3. m \in Seq(NoLocking) /\ m # <<>> /\ m[1] = a
      BY <2>1, <2>2, JoinSeq, FirstOfJoin
    <2> HIDE DEF m, n
    <2>4. n \in Seq(NoLocking) /\ HandleMove(velocity) = (m \o n) \o PublishMove
      BY <2>1, <1>4 DEF m, n
    <2>5. m \o n \in Seq(NoLocking) /\ m \o n # <<>> /\ (m \o n)[1] = a
      BY <2>3, <2>4, JoinSeq, FirstOfJoin
    <2> HIDE DEF HandleMove
    <2>6. /\ HandleMove(velocity) \in Seq(NoLocking) /\ HandleMove(velocity) # <<>>
          /\ HandleMove(velocity)[1] = a
      BY <2>4, <2>5, PublishMoveKinds, JoinSeq, FirstOfJoin
    <2> QED BY <2>6, <1>4, GateFirst
  <1>7. <<a>> \in Seq(Calm)
    BY <1>1, KindsInclude
  <1> QED BY <1>5, <1>6, <1>7, SimpleSportMethods, CalmThen DEF Bridge!RobotPosture

\* Methods that stop the robot first and publish nothing else.
StopsFirst(methods) ==
  /\ methods \in Seq(Seq(Quiet)) /\ methods # <<>>
  /\ Head(methods) \in {LockJoints, HandleStop}

\* What a sport request gives the thread to do.
LEMMA SportRequestEffect ==
  ASSUME SportRequest
  PROVE  \E methods \in Seq(SportMethods) :
           /\ Begin("sport", methods) /\ overtaken' = overtaken
           /\ lastStop' \in Stops => StopsFirst(methods)
  <1> DEFINE Goal == \E methods \in Seq(SportMethods) :
                       /\ Begin("sport", methods) /\ overtaken' = overtaken
                       /\ lastStop' \in Stops => StopsFirst(methods)
  <1> SUFFICES Goal
    OBVIOUS
  <1>1. ASSUME NEW api, NEW methods \in Seq(SportMethods), BeginSport(api, methods),
               api \in Stops => StopsFirst(methods)
        PROVE  Goal
    <2>1. Begin("sport", methods) /\ overtaken' = overtaken /\ (lastStop' \in Stops => api \in Stops)
      BY <1>1 DEF BeginSport, Stops
    <2> QED BY <1>1, <2>1
  <1>2. \A p \in {"StandUp", "StandDown"} :
          SetRobotPosture(p) \in SportMethods /\ SetRobotPosture(p) \in Seq(Quiet)
    BY SimpleSportMethods DEF Bridge!RobotPosture
  <1>3. \A p \in {"StandUp", "StandDown"} :
          /\ <<LockJoints, SetRobotPosture(p)>> \in Seq(SportMethods) /\ StopsFirst(<<LockJoints, SetRobotPosture(p)>>)
          /\ <<HandleStop, SetRobotPosture(p)>> \in Seq(SportMethods) /\ StopsFirst(<<HandleStop, SetRobotPosture(p)>>)
    <2> TAKE p \in {"StandUp", "StandDown"}
    <2> DEFINE r == SetRobotPosture(p)
    <2>1. r \in SportMethods /\ r \in Seq(Quiet)
      BY <1>2
    <2> HIDE DEF r
    <2> QED BY <2>1, LockJointsAware DEF r, StopsFirst
  <1>4. <<UnlockJoints, SetRobotPosture("StandUp")>> \in Seq(SportMethods)
    BY <1>2, SimpleSportMethods
  <1>5. \A velocity \in Bridge!ParsedVelocities :
          <<HandleMove(velocity), UpdatePostureFromMove(velocity)>> \in Seq(SportMethods)
    BY MoveSportMethods
  <1>6. \A enabled \in BOOLEAN : <<SetContinuousMoveMode(enabled)>> \in Seq(SportMethods)
    BY SimpleSportMethods
  <1>7. \A level \in SpeedLevels : <<SetSpeedLevel(level)>> \in Seq(SportMethods)
    BY CapSportMethods, ThreadsAssumption
  <1>8. \A gait \in Gaits : <<SetGait(gait)>> \in Seq(SportMethods)
    BY SimpleSportMethods
  <1>9. \A mode \in {"FreeWalk", "VisionWalk", "ClassicWalk", "FastWalk"}, enabled \in BOOLEAN :
          <<SetWalkMode(mode, enabled)>> \in Seq(SportMethods)
    BY SimpleSportMethods DEF Bridge!WalkMode
  <1>10. Stops = {"STOPMOVE", "STANDDOWN", "DAMP"}
    BY DEF Stops
  <1> HIDE DEF Goal
  <1>11. CASE \E api \in {"STANDUP", "RECOVERYSTAND"} :
                BeginSport(api, <<LockJoints, SetRobotPosture("StandUp")>>)
    BY <1>1, <1>3, <1>11
  <1>12. CASE \E api \in {"STANDDOWN", "DAMP"} :
                BeginSport(api, <<LockJoints, SetRobotPosture("StandDown")>>)
    BY <1>1, <1>3, <1>12
  <1>13. CASE BeginSport("BALANCESTAND", <<UnlockJoints, SetRobotPosture("StandUp")>>)
    BY <1>1, <1>4, <1>10, <1>13
  <1>14. CASE BeginSport("STOPMOVE", <<HandleStop, SetRobotPosture("StandUp")>>)
    BY <1>1, <1>3, <1>14
  <1>15. CASE \E velocity \in Bridge!ParsedVelocities :
                BeginSport("MOVE", <<HandleMove(velocity), UpdatePostureFromMove(velocity)>>)
    BY <1>1, <1>5, <1>10, <1>15
  <1>16. CASE \E enabled \in BOOLEAN : BeginSport("SWITCHMOVEMODE", <<SetContinuousMoveMode(enabled)>>)
    BY <1>1, <1>6, <1>10, <1>16
  <1>17. CASE \E level \in SpeedLevels : BeginSport("SPEEDLEVEL", <<SetSpeedLevel(level)>>)
    BY <1>1, <1>7, <1>10, <1>17
  <1>18. CASE \E gait \in Gaits : BeginSport("SWITCHGAIT", <<SetGait(gait)>>)
    BY <1>1, <1>8, <1>10, <1>18
  <1>19. CASE BeginSport("FREEWALK", <<SetWalkMode("FreeWalk", TRUE)>>)
    <2>1. <<SetWalkMode("FreeWalk", TRUE)>> \in Seq(SportMethods)
      BY <1>9, Zenon
    <2>2. "FREEWALK" \notin Stops
      BY <1>10
    <2> QED BY <1>1, <1>19, <2>1, <2>2, Zenon
  <1>20. CASE \E enabled \in BOOLEAN :
                \/ BeginSport("VISIONWALK", <<SetWalkMode("VisionWalk", enabled)>>)
                \/ BeginSport("CLASSICWALK", <<SetWalkMode("ClassicWalk", enabled)>>)
                \/ BeginSport("FASTWALK", <<SetWalkMode("FastWalk", enabled)>>)
    BY <1>1, <1>9, <1>10, <1>20
  <1> QED
    BY <1>11, <1>12, <1>13, <1>14, <1>15, <1>16, <1>17, <1>18, <1>19, <1>20
       DEF SportRequest, PostureHandler, StopMove, Move, SwitchMoveMode, SpeedLevel,
           SwitchGait, FreeWalk, VisionWalk, ClassicWalk, FastWalk

-----------------------------------------------------------------------------
(* The main loop and the reset.                                            *)

LEMMA MainLoopEffect ==
  ASSUME MainLoop
  PROVE  \E methods \in Seq(Seq(MainSteps)) :
           Begin("main", methods) /\ UNCHANGED <<lastStop, overtaken>>
  <1> DEFINE t1 == ReturnIf("m_jointsLocked", TRUE)
             t2 == ReturnIf("m_continuousMoveMode", TRUE)
             t3 == ReturnUnless("m_hasActiveMove", TRUE)
             t4 == ReturnUnless("moveAge", MOVE_STOP_TIMEOUT)
             w1 == Set("mRobotPosture", "Walking")
             w2 == Do("Finish")
             u1 == ReturnUnless("mRobotPosture", "Walking")
             u2 == Set("mRobotPosture", "StandUp")
             h1 == Set("m_hasActiveMove", FALSE)
             h2 == Publish(Zero)
  <1>1. t1 \in MainSteps /\ t2 \in MainSteps /\ t3 \in MainSteps /\ h1 \in MainSteps
    BY HarmlessSteps, Zenon
  <1>2. t4 \in MainSteps
    BY HarmlessSteps, ThreadsAssumption
  <1>3. w1 \in MainSteps /\ u1 \in MainSteps /\ u2 \in MainSteps
    BY HarmlessSteps DEF Bridge!RobotPosture
  <1>4. w2 \in MainSteps /\ h2 \in MainSteps
    BY FieldlessSteps
  <1>5. Begin("main", <<<<t1, t2, t3, t4>> \o <<h1, h2>>,
                        <<t3, t1>> \o <<w1>> \o <<w2>>,
                        <<u1>> \o <<u2>>>>)
    BY Zenon DEF MainLoop, Tick, HandleStop, SetRobotPosture
  <1> HIDE DEF t1, t2, t3, t4, w1, w2, u1, u2, h1, h2
  <1>6. /\ <<t1, t2, t3, t4>> \in Seq(MainSteps) /\ <<h1, h2>> \in Seq(MainSteps)
        /\ <<t3, t1>> \in Seq(MainSteps) /\ <<w1>> \in Seq(MainSteps) /\ <<w2>> \in Seq(MainSteps)
        /\ <<u1>> \in Seq(MainSteps) /\ <<u2>> \in Seq(MainSteps)
    BY <1>1, <1>2, <1>3, <1>4
  <1>7. \A a, b, c \in Seq(MainSteps) : <<a, b, c>> \in Seq(Seq(MainSteps))
    OBVIOUS
  <1>8. \A a, b \in Seq(MainSteps) : a \o b \in Seq(MainSteps)
    BY JoinSeq
  <1>9. <<<<t1, t2, t3, t4>> \o <<h1, h2>>, <<t3, t1>> \o <<w1>> \o <<w2>>, <<u1>> \o <<u2>>>>
          \in Seq(Seq(MainSteps))
    BY <1>6, <1>7, <1>8, Zenon
  <1>10. UNCHANGED <<lastStop, overtaken>>
    BY DEF MainLoop
  <1> QED BY <1>5, <1>9, <1>10, Zenon

\* A reset makes the profile "Ai" and the name of the mode "ai", each in a step of
\* its own.
LEMMA ResetEffect ==
  ASSUME Reset
  PROVE  \E methods \in Seq(Seq(ResetSteps)) :
           /\ Begin("reset", methods) /\ "RESET" \in apis /\ lastStop' = lastStop
           /\ overtaken' = (overtaken \/ ~Idle("switcher"))
           /\ Has(methods, AiStep) /\ Has(methods, AiNameStep)
  <1> DEFINE s1  == Set("m_continuousMoveMode", FALSE)
             s2  == Set("m_jointsLocked", TRUE)
             s3  == Set("m_walkMode", "None")
             s4  == Set("m_hasActiveMove", FALSE)
             s6  == Set("m_speedLevel", -1)
             s7  == Set("m_maxLinearSpeed", Bridge!AI_LOW_MAX_LINEAR_SPEED)
             s8  == Set("m_lastVelocity", Zero)
             s9  == Set("moveAge", 0)
             s10 == Publish(Zero)
             r1  == Set("mForm", "0")
             r3  == Set("mSilent", FALSE)
             r4  == Set("mRobotPosture", "StandDown")
  <1>1. s1 \in ResetSteps /\ s4 \in ResetSteps /\ r3 \in ResetSteps
    BY HarmlessSteps, Zenon
  <1>2. s2 \in ResetSteps
    BY TellingSteps, Zenon
  <1>3. s3 \in ResetSteps /\ r1 \in ResetSteps /\ r4 \in ResetSteps
    BY HarmlessSteps DEF Bridge!WalkMode, Bridge!Forms, Bridge!RobotPosture
  <1>4. s6 \in ResetSteps
    BY HarmlessSteps
  <1>5. s7 \in ResetSteps /\ s8 \in ResetSteps
    <2>1. Bridge!AI_LOW_MAX_LINEAR_SPEED \in 0 .. TopSpeed
      BY SpeedFacts DEF Bridge!AI_LOW_MAX_LINEAR_SPEED
    <2>2. Zero \in Limited
      BY SpeedFacts
    <2> QED BY <2>1, <2>2, HarmlessSteps, Zenon
  <1>6. s9 \in ResetSteps
    BY HarmlessSteps, ThreadsAssumption
  <1>7. s10 \in ResetSteps
    BY FieldlessSteps
  <1>8. AiStep \in ResetSteps /\ AiNameStep \in ResetSteps
    BY TellingSteps
  <1>9. Begin("reset", <<<<s1, s2, s3, s4, AiStep, s6, s7, s8, s9, s10>>,
                         <<r1, AiNameStep, r3>> \o <<r4>>>>)
    BY Zenon DEF Reset, ResetPublisher, ResetSwitcher, SetRobotPosture, AiStep, AiNameStep
  <1> HIDE DEF s1, s2, s3, s4, s6, s7, s8, s9, s10, r1, r3, r4
  <1> DEFINE p == <<s1, s2, s3, s4, AiStep, s6, s7, s8, s9, s10>>
             q == <<r1, AiNameStep, r3>> \o <<r4>>
  <1>10. p \in Seq(ResetSteps) /\ Len(p) = 10 /\ p[5] = AiStep
    BY <1>1, <1>2, <1>3, <1>4, <1>5, <1>6, <1>7, <1>8
  <1>11. q \in Seq(ResetSteps) /\ Len(q) = 4 /\ q[2] = AiNameStep
    BY <1>1, <1>3, <1>8
  <1>12. Begin("reset", <<p, q>>)
    BY <1>9
  <1> HIDE DEF p, q
  <1>13. <<p, q>> \in Seq(Seq(ResetSteps)) /\ Len(<<p, q>>) = 2 /\ <<p, q>>[1] = p /\ <<p, q>>[2] = q
    BY <1>10, <1>11
  <1>14. Has(<<p, q>>, AiStep) /\ Has(<<p, q>>, AiNameStep)
    <2>1. 1 \in 1 .. Len(<<p, q>>) /\ 2 \in 1 .. Len(<<p, q>>) /\ 5 \in 1 .. Len(p) /\ 2 \in 1 .. Len(q)
      BY <1>10, <1>11, <1>13
    <2> QED BY <2>1, <1>10, <1>11, <1>13, Zenon DEF Has
  <1> QED BY <1>12, <1>13, <1>14 DEF Reset

-----------------------------------------------------------------------------
(* The methods of the switcher.                                            *)

Straight == {s \in KeepsMode : ~Returns(s)}

\* The test whether the profile is this one, the step that makes it so, and what
\* leaves the mode alone.
LEMMA SyncsStart ==
  ASSUME NEW profile \in Bridge!MotionProfile, NEW post \in Seq(KeepsMode)
  PROVE  SyncsFrom(<<ReturnIf("m_motionProfile", profile), Set("m_motionProfile", profile)>> \o post,
                   1, profile)
  <1> DEFINE r == ReturnIf("m_motionProfile", profile)
             s == Set("m_motionProfile", profile)
             m == <<r, s>> \o post
  <1>1. r \in KeepsMode /\ r \in Steps /\ s \in Steps /\ post \in Seq(Steps)
    BY HarmlessSteps, TellingSteps, SeqMonotonic DEF MainSteps, KeepsMode, Quiet
  <1>2. SyncsFrom(m, 1, profile) <=>
          \E j \in 1 .. Len(m) :
            /\ m[j] = s
            /\ \A i \in 1 .. Len(m) : i # j =>
                 m[i] \in KeepsMode /\ (i < j /\ Returns(m[i]) => m[i] = r)
    BY DEF SyncsFrom
  <1> HIDE DEF r, s
  <1>3. <<r, s>> \in Seq(Steps) /\ Len(<<r, s>>) = 2 /\ <<r, s>>[1] = r /\ <<r, s>>[2] = s
    BY <1>1
  <1>4. Len(post) \in Nat
    BY LenProperties
  <1>5. /\ Len(m) = 2 + Len(post)
        /\ \A i \in 1 .. 2 + Len(post) : m[i] = IF i <= 2 THEN <<r, s>>[i] ELSE post[i - 2]
    <2>1. /\ Len(m) = Len(<<r, s>>) + Len(post)
          /\ \A i \in 1 .. Len(<<r, s>>) + Len(post) :
               m[i] = IF i <= Len(<<r, s>>) THEN <<r, s>>[i] ELSE post[i - Len(<<r, s>>)]
      BY <1>1, <1>3, ConcatProperties, Zenon
    <2> HIDE DEF m
    <2> QED BY <2>1, <1>3
  <1> HIDE DEF m
  <1>6. 1 \in 1 .. Len(m) /\ 2 \in 1 .. Len(m) /\ m[1] = r /\ m[2] = s
    BY <1>3, <1>4, <1>5
  <1>7. ASSUME NEW i \in 1 .. Len(m), i # 2
        PROVE  m[i] \in KeepsMode /\ (i < 2 /\ Returns(m[i]) => m[i] = r)
    <2>1. CASE i = 1
      BY <2>1, <1>1, <1>6
    <2>2. CASE i > 2
      <3>1. i - 2 \in 1 .. Len(post) /\ m[i] = post[i - 2]
        BY <2>2, <1>4, <1>5
      <3> QED BY <2>2, <3>1, ElementOfSeq
    <2> QED BY <2>1, <2>2, <1>4, <1>5, <1>7
  <1> QED BY <1>2, <1>6, <1>7 DEF m, r, s

\* Straight steps may come before.
LEMMA StraightThenSyncs ==
  ASSUME NEW c \in Seq(Straight), NEW m \in Seq(Steps), NEW profile, SyncsFrom(m, 1, profile)
  PROVE  SyncsFrom(c \o m, 1, profile)
  <1>1. c \in Seq(Steps) /\ Len(c) \in Nat /\ Len(m) \in Nat
    BY SeqMonotonic, LenProperties DEF Straight, KeepsMode
  <1>2. Len(c \o m) = Len(c) + Len(m)
        /\ \A i \in 1 .. Len(c) + Len(m) : (c \o m)[i] = IF i <= Len(c) THEN c[i] ELSE m[i - Len(c)]
    BY <1>1, ConcatProperties
  <1>3. PICK j \in 1 .. Len(m) :
          /\ m[j] = Set("m_motionProfile", profile)
          /\ \A i \in 1 .. Len(m) : i # j =>
               /\ m[i] \in KeepsMode
               /\ i < j /\ Returns(m[i]) => m[i] = ReturnIf("m_motionProfile", profile)
    BY DEF SyncsFrom
  <1>4. Len(c) + j \in 1 .. Len(c \o m) /\ (c \o m)[Len(c) + j] = Set("m_motionProfile", profile)
    <2>1. Len(c) + j \in 1 .. Len(c) + Len(m) /\ ~(Len(c) + j <= Len(c)) /\ (Len(c) + j) - Len(c) = j
      BY <1>1, <1>3
    <2> QED BY <2>1, <1>2, <1>3
  <1>5. ASSUME NEW i \in 1 .. Len(c \o m), i # Len(c) + j
        PROVE  /\ (c \o m)[i] \in KeepsMode
               /\ i < Len(c) + j /\ Returns((c \o m)[i]) =>
                    (c \o m)[i] = ReturnIf("m_motionProfile", profile)
    <2>1. CASE i <= Len(c)
      <3>1. i \in 1 .. Len(c) /\ (c \o m)[i] = c[i]
        BY <2>1, <1>1, <1>2
      <3> QED BY <3>1, ElementOfSeq DEF Straight
    <2>2. CASE i > Len(c)
      <3>1. /\ i - Len(c) \in 1 .. Len(m) /\ (c \o m)[i] = m[i - Len(c)] /\ i - Len(c) # j
            /\ i < Len(c) + j => i - Len(c) < j
        BY <2>2, <1>1, <1>2, <1>3, <1>5
      <3> QED BY <3>1, <1>3
    <2> QED BY <2>1, <2>2, <1>1, <1>2
  <1> QED BY <1>4, <1>5 DEF SyncsFrom

\* What leaves the mode alone may come before the step that stores the name.
LEMMA NamesJoin ==
  ASSUME NEW c \in Seq(KeepsMode), NEW s \in Steps, Sets(s, "mModeName"),
         NEW m \in Seq(Steps), SyncsFrom(m, 1, Profile(s[3]))
  PROVE  Names(c \o (<<s>> \o m))
  <1> DEFINE d == <<s>> \o m
             n == Len(c) + 1
             p == Profile(s[3])
  <1>1. c \in Seq(Steps) /\ Len(c) \in Nat /\ Len(m) \in Nat
    BY SeqMonotonic, LenProperties DEF KeepsMode
  <1>2. <<s>> \in Seq(Steps) /\ Len(<<s>>) = 1 /\ <<s>>[1] = s
    OBVIOUS
  <1>3. /\ d \in Seq(Steps) /\ Len(d) = 1 + Len(m)
        /\ \A i \in 1 .. 1 + Len(m) : d[i] = IF i <= 1 THEN s ELSE m[i - 1]
    <2>1. /\ d \in Seq(Steps) /\ Len(d) = Len(<<s>>) + Len(m)
          /\ \A i \in 1 .. Len(<<s>>) + Len(m) : d[i] = IF i <= Len(<<s>>) THEN <<s>>[i] ELSE m[i - Len(<<s>>)]
      BY <1>2, ConcatProperties, Zenon
    <2>2. \A i \in 1 .. 1 + Len(m) : i <= 1 => i = 1
      BY <1>1
    <2> HIDE DEF d
    <2> QED BY <2>1, <2>2, <1>2
  <1> HIDE DEF d
  <1>4. /\ Len(c \o d) = Len(c) + Len(d)
        /\ \A i \in 1 .. Len(c) + Len(d) : (c \o d)[i] = IF i <= Len(c) THEN c[i] ELSE d[i - Len(c)]
    BY <1>1, <1>3, ConcatProperties
  <1>5. n \in 1 .. Len(c \o d) /\ (c \o d)[n] = s
    <2>1. n \in 1 .. Len(c) + Len(d) /\ ~(n <= Len(c)) /\ n - Len(c) = 1 /\ 1 \in 1 .. 1 + Len(m)
      BY <1>1, <1>3
    <2>2. (c \o d)[n] = d[1] /\ d[1] = s
      BY <2>1, <1>3, <1>4
    <2> QED BY <2>1, <2>2, <1>4
  <1>6. ASSUME NEW i \in 1 .. Len(m)
        PROVE  n + i \in n + 1 .. Len(c \o d) /\ (c \o d)[n + i] = m[i]
    <2>1. /\ n + i \in 1 .. Len(c) + Len(d) /\ ~(n + i <= Len(c)) /\ (n + i) - Len(c) = i + 1
          /\ i + 1 \in 1 .. 1 + Len(m) /\ ~(i + 1 <= 1) /\ (i + 1) - 1 = i
      BY <1>1, <1>3
    <2>2. (c \o d)[n + i] = d[i + 1] /\ d[i + 1] = m[i]
      BY <2>1, <1>3, <1>4
    <2> QED BY <2>1, <2>2, <1>4
  <1>7. PICK j \in 1 .. Len(m) :
          /\ m[j] = Set("m_motionProfile", p)
          /\ \A i \in 1 .. Len(m) : i # j =>
               /\ m[i] \in KeepsMode
               /\ i < j /\ Returns(m[i]) => m[i] = ReturnIf("m_motionProfile", p)
    BY DEF SyncsFrom
  <1>8. SyncsFrom(c \o d, n + 1, p)
    <2>1. n + j \in n + 1 .. Len(c \o d) /\ (c \o d)[n + j] = Set("m_motionProfile", p)
      BY <1>6, <1>7
    <2>2. ASSUME NEW i \in n + 1 .. Len(c \o d), i # n + j
          PROVE  /\ (c \o d)[i] \in KeepsMode
                 /\ i < n + j /\ Returns((c \o d)[i]) => (c \o d)[i] = ReturnIf("m_motionProfile", p)
      <3>1. /\ i - n \in 1 .. Len(m) /\ n + (i - n) = i /\ i - n # j
            /\ i < n + j => i - n < j
        BY <1>1, <1>3, <1>4, <2>2
      <3>2. (c \o d)[i] = m[i - n]
        BY <3>1, <1>6
      <3> QED BY <3>1, <3>2, <1>7
    <2> HIDE DEF p, n
    <2> QED BY <2>1, <2>2 DEF SyncsFrom
  <1>9. ASSUME NEW i \in 1 .. n - 1
        PROVE  (c \o d)[i] \in KeepsMode
    <2>1. i \in 1 .. Len(c) /\ (c \o d)[i] = c[i]
      BY <1>1, <1>3, <1>4
    <2> QED BY <2>1, ElementOfSeq
  <1> HIDE DEF n
  <1> QED BY <1>5, <1>8, <1>9 DEF Names, d

\* SetMotionModeName makes sure of the profile, and where that is "Ai" looks at it
\* before it does anything.
LEMMA SetMotionModeNameSyncs ==
  /\ \A name : /\ SetMotionModeName(name) \in Seq(KeepsLock)
               /\ SyncsFrom(SetMotionModeName(name), 1, Profile(name))
  /\ SetMotionModeName("ai") \in Seq(AiOnly) /\ Guarded(SetMotionModeName("ai"), ProfileGate)
  <1> DEFINE post == ApplyMaxLinearSpeed \o RepublishActiveMove
             test(p) == ReturnIf("m_motionProfile", p)
             set(p)  == Set("m_motionProfile", p)
  <1>1. /\ ApplyMaxLinearSpeed \in Seq(KeepsLock \cap KeepsMode)
        /\ RepublishActiveMove \in Seq(KeepsLock \cap KeepsMode)
    BY CapSportMethods, SeqMonotonic DEF MainSteps
  <1>2. post \in Seq(KeepsLock \cap KeepsMode)
    BY <1>1, JoinSeq
  <1>3. post \in Seq(KeepsMode) /\ post \in Seq(KeepsLock) /\ post \in Seq(AiOnly) /\ post \in Seq(Steps)
    BY <1>2, SeqMonotonic DEF KeepsMode, KeepsLock, AiOnly
  <1>4. ASSUME NEW p \in Bridge!MotionProfile
        PROVE  /\ test(p) \in KeepsLock \cap AiOnly \cap Steps /\ set(p) \in KeepsLock \cap Steps
    BY HarmlessSteps, TellingSteps DEF MainSteps, KeepsLock
  <1>5. \A name : Profile(name) \in Bridge!MotionProfile /\ Profile("ai") = "Ai" /\ "Ai" \in Bridge!MotionProfile
    BY DEF Profile, Bridge!MotionProfileFromModeName, Bridge!MotionProfile
  <1>6. ASSUME NEW name
        PROVE  SetMotionModeName(name) = <<test(Profile(name)), set(Profile(name))>> \o post
    <2> DEFINE a == <<test(Profile(name)), set(Profile(name))>>
    <2>1. SetMotionModeName(name) = (a \o ApplyMaxLinearSpeed) \o RepublishActiveMove
      BY Zenon DEF SetMotionModeName, Profile
    <2>2. a \in Seq(Steps)
      BY <1>4, <1>5
    <2>3. ApplyMaxLinearSpeed \in Seq(Steps) /\ RepublishActiveMove \in Seq(Steps)
      BY <1>1, SeqMonotonic DEF KeepsMode
    <2> HIDE DEF a
    <2>4. (a \o ApplyMaxLinearSpeed) \o RepublishActiveMove = a \o (ApplyMaxLinearSpeed \o RepublishActiveMove)
      BY <2>2, <2>3, ConcatAssociative
    <2> QED BY <2>1, <2>4 DEF a
  <1> HIDE DEF post
  <1>7. ASSUME NEW name
        PROVE  /\ SetMotionModeName(name) \in Seq(KeepsLock)
               /\ SyncsFrom(SetMotionModeName(name), 1, Profile(name))
    <2>1. <<test(Profile(name)), set(Profile(name))>> \in Seq(KeepsLock)
      BY <1>4, <1>5
    <2>2. SetMotionModeName(name) \in Seq(KeepsLock)
      BY <2>1, <1>3, <1>6, JoinSeq
    <2>3. SyncsFrom(<<test(Profile(name)), set(Profile(name))>> \o post, 1, Profile(name))
      BY <1>3, <1>5, SyncsStart
    <2> QED BY <2>2, <2>3, <1>6
  <1>8. SetMotionModeName("ai") \in Seq(AiOnly) /\ Guarded(SetMotionModeName("ai"), ProfileGate)
    <2> DEFINE a == <<test("Ai"), set("Ai")>>
    <2>1. SetMotionModeName("ai") = a \o post
      BY <1>5, <1>6
    <2>2. test("Ai") \in AiOnly /\ set("Ai") \in AiOnly
      BY <1>4, <1>5, TellingSteps DEF ResetSteps, AiStep
    <2>3. a \in Seq(AiOnly) /\ a # <<>> /\ a[1] = ProfileGate
      BY <2>2 DEF ProfileGate
    <2> HIDE DEF a
    <2>4. a \o post \in Seq(AiOnly) /\ a \o post # <<>> /\ (a \o post)[1] = ProfileGate
      BY <2>3, <1>3, JoinSeq, FirstOfJoin
    <2>5. a \o post \in Seq(Steps)
      BY <2>4, SeqMonotonic DEF AiOnly
    <2> QED BY <2>1, <2>4, <2>5, GuardedMethods
  <1> QED BY <1>7, <1>8

\* What a request of the switcher gives the thread to do: it leaves the mode alone,
\* or stores a name and makes the profile follow.
LEMMA SwitcherRequestEffect ==
  ASSUME SwitcherRequest
  PROVE  \E m \in Seq(KeepsLock) :
           /\ Begin("switcher", <<m>>) /\ lastStop' = lastStop
           /\ overtaken' = (overtaken \/ ~Idle("reset"))
           /\ m \in Seq(KeepsMode) \/ Names(m)
           /\ "SELECT_MODE" \notin apis => m \in Seq(AiOnly) /\ Guarded(m, ProfileGate)
  <1> DEFINE gate    == ReturnUnless("mRobotPosture", "StandDown")
             name(n) == Set("mModeName", n)
  <1>1. gate \in KeepsLock \cap KeepsMode \cap Quiet \cap AiOnly
    BY HarmlessSteps DEF Bridge!RobotPosture, MainSteps
  <1>2. ASSUME NEW n \in Bridge!SelectedModes
        PROVE  /\ name(n) \in KeepsLock \cap Quiet \cap AiOnly \cap Steps
               /\ Sets(name(n), "mModeName") /\ name(n)[3] = n
    BY TellingSteps DEF Quiet
  <1>3. \A n : SetMotionModeName(n) \in Seq(Steps)
    BY SetMotionModeNameSyncs, SeqMonotonic DEF KeepsLock
  <1>4. ReleaseMode \in Seq(KeepsLock) /\ Names(ReleaseMode)
        /\ ReleaseMode \in Seq(AiOnly) /\ Guarded(ReleaseMode, ProfileGate)
    <2> DEFINE s == name("")
               a == <<gate, s>>
               m == SetMotionModeName("ai")
    <2>1. ReleaseMode = a \o m
      BY Zenon DEF ReleaseMode
    <2>2. /\ s \in KeepsLock \cap Quiet \cap AiOnly \cap Steps
          /\ Sets(s, "mModeName") /\ s[3] = ""
      BY <1>2 DEF Bridge!SelectedModes
    <2>3. Profile("ai") = Profile(s[3])
      BY <2>2 DEF Profile, Bridge!MotionProfileFromModeName
    <2>4. /\ m \in Seq(KeepsLock) /\ m \in Seq(Steps) /\ SyncsFrom(m, 1, Profile(s[3]))
          /\ m \in Seq(AiOnly) /\ Guarded(m, ProfileGate)
      BY <2>3, <1>3, SetMotionModeNameSyncs
    <2> HIDE DEF s, m, gate
    <2>5. a \in Seq(KeepsLock) /\ a \in Seq(Quiet) /\ a \in Seq(AiOnly) /\ <<gate>> \in Seq(KeepsMode)
      <3>1. \A S : gate \in S /\ s \in S => <<gate, s>> \in Seq(S)
        OBVIOUS
      <3>2. \A S : gate \in S => <<gate>> \in Seq(S)
        OBVIOUS
      <3> QED BY <3>1, <3>2, <1>1, <2>2, Zenon
    <2>6. ReleaseMode = <<gate>> \o (<<s>> \o m)
      <3>1. <<gate>> \in Seq(Steps) /\ <<s>> \in Seq(Steps) /\ a = <<gate>> \o <<s>>
        <4>1. gate \in Steps /\ s \in Steps
          BY <1>1, <2>2 DEF Quiet
        <4> QED BY <4>1
      <3> HIDE DEF a
      <3> QED BY <3>1, <2>1, <2>4, ConcatAssociative
    <2>7. Names(ReleaseMode)
      BY <2>2, <2>4, <2>5, <2>6, NamesJoin
    <2> HIDE DEF a
    <2> QED BY <2>1, <2>4, <2>5, <2>7, JoinSeq, QuietThenGuarded
  <1>5. ASSUME NEW parameter \in SelectParameters
        PROVE  /\ SelectMode(parameter) \in Seq(KeepsLock)
               /\ SelectMode(parameter) \in Seq(KeepsMode) \/ Names(SelectMode(parameter))
    <2> DEFINE s    == name(parameter.name)
               form == IF parameter.form = "" THEN <<>> ELSE <<Set("mForm", parameter.form)>>
               m    == SetMotionModeName(parameter.name)
    <2>1. SelectMode(parameter) = <<gate>> \o (IF parameter.name = "" THEN <<>> ELSE <<s>> \o form \o m)
      BY Zenon DEF SelectMode
    <2>2. s \in KeepsLock \cap Steps /\ Sets(s, "mModeName") /\ s[3] = parameter.name
      BY <1>2 DEF Bridge!SelectedModes
    <2>3. m \in Seq(KeepsLock) /\ m \in Seq(Steps) /\ SyncsFrom(m, 1, Profile(s[3]))
      BY <2>2, <1>3, SetMotionModeNameSyncs
    <2>4. form \in Seq(KeepsLock) /\ form \in Seq(Straight) /\ form \in Seq(Steps)
      <3>1. CASE parameter.form = ""
        BY <3>1, EmptySeq
      <3>2. CASE parameter.form # ""
        <4> DEFINE f == Set("mForm", parameter.form)
        <4>1. parameter.form \in Bridge!Forms
          BY <3>2 DEF Bridge!Forms
        <4>2. f \in MainSteps \cap ResetSteps
          BY <4>1, HarmlessSteps
        <4> HIDE DEF f
        <4>3. f \in KeepsLock /\ f \in Straight /\ f \in Steps
          BY <4>2 DEF MainSteps, ResetSteps, Straight, KeepsLock
        <4>4. <<f>> \in Seq(KeepsLock) /\ <<f>> \in Seq(Straight) /\ <<f>> \in Seq(Steps)
          BY <4>3
        <4> QED BY <3>2, <4>4 DEF f
      <3> QED BY <3>1, <3>2
    <2>5. <<gate>> \in Seq(KeepsLock) /\ <<gate>> \in Seq(KeepsMode) /\ <<s>> \in Seq(KeepsLock) /\ <<s>> \in Seq(Steps)
      BY <1>1, <2>2
    <2> HIDE DEF s, form, m, gate
    <2>6. CASE parameter.name = ""
      BY <2>1, <2>5, <2>6, ConcatEmptySeq
    <2>7. CASE parameter.name # ""
      <3>1. (<<s>> \o form) \o m = <<s>> \o (form \o m)
        BY <2>3, <2>4, <2>5, ConcatAssociative
      <3>2. SelectMode(parameter) = <<gate>> \o (<<s>> \o (form \o m))
        BY <2>1, <2>7, <3>1
      <3>3. form \o m \in Seq(Steps) /\ SyncsFrom(form \o m, 1, Profile(s[3]))
        BY <2>3, <2>4, JoinSeq, StraightThenSyncs
      <3>4. Names(SelectMode(parameter))
        BY <3>2, <3>3, <2>2, <2>5, NamesJoin
      <3>5. SelectMode(parameter) \in Seq(KeepsLock)
        BY <3>2, <2>3, <2>4, <2>5, JoinSeq
      <3> QED BY <3>4, <3>5
    <2> QED BY <2>6, <2>7
  <1>6. lastStop' = lastStop /\ overtaken' = (overtaken \/ ~Idle("reset"))
    BY DEF SwitcherRequest
  <1>7. CASE /\ "SELECT_MODE" \in apis
             /\ \E parameter \in SelectParameters : Begin("switcher", <<SelectMode(parameter)>>)
    BY <1>5, <1>6, <1>7
  <1>8. CASE Begin("switcher", <<ReleaseMode>>)
    BY <1>4, <1>6, <1>8
  <1> QED BY <1>7, <1>8 DEF SwitcherRequest, SelectModeRequest, ReleaseModeRequest

-----------------------------------------------------------------------------
(* Each thread keeps to its steps.                                         *)

LEMMA MoreKinds ==
  /\ MainSteps \subseteq AiOnly /\ KeepsMode \subseteq AiOnly /\ ResetSteps \subseteq AiOnly
  /\ MainSteps \subseteq Quiet /\ ResetSteps \subseteq Quiet
  /\ MainSteps \subseteq KeepsLock /\ MainSteps \subseteq KeepsMode
  /\ \A s \in ResetSteps : ~Returns(s) /\ (Sets(s, "mModeName") => s = AiNameStep)
  /\ \A s \in AiOnly : Sets(s, "m_motionProfile") => s = AiStep
  /\ AiStep[3] = "Ai" /\ AiNameStep[3] = "ai"
  BY DEF MainSteps, KeepsMode, KeepsLock, AiOnly, ResetSteps, Quiet, AiStep, AiNameStep, Set

\* The guards are tests that let the thread go on only if the field is not so.
LEMMA GateFacts ==
  /\ LockGate[1] = "ReturnIf" /\ ProfileGate[1] = "ReturnIf"
  /\ ProfileGate[2] = "m_motionProfile" /\ ProfileGate[3] = "Ai"
  BY DEF LockGate, ProfileGate, ReturnIf

LEMMA BeginKeepsRoles ==
  ASSUME RestIInv, NEW t \in Threads, NEW methods, Begin(t, methods),
         t = "main" => methods \in Seq(Seq(MainSteps)),
         t = "sport" => methods \in Seq(Seq(KeepsMode)),
         t = "reset" => methods \in Seq(Seq(ResetSteps)) /\ "RESET" \in apis,
         t = "switcher" =>
           /\ methods \in Seq(Seq(KeepsLock))
           /\ "SELECT_MODE" \notin apis =>
                methods \in Seq(Seq(AiOnly)) /\ AllGuarded(methods, ProfileGate)
  PROVE  Roles'
  <1>1. /\ todo'[t] = methods /\ \A u \in Threads : u # t => todo'[u] = todo[u]
        /\ UNCHANGED <<apis, mem, twist>> /\ Roles
    BY BeginEffect DEF RestIInv
  <1> QED BY <1>1 DEF Roles, Threads, Idle, AllGuarded

LEMMA StepKeepsRoles ==
  ASSUME RestIInv, NEW t \in Threads, Step(t)
  PROVE  Roles'
  <1> DEFINE s == Next1(t)
  <1>1. /\ todo[t] # <<>> /\ WorkList(todo[t]) /\ s \in Steps /\ apis' = apis
        /\ \A u \in Threads : u # t => todo'[u] = todo[u]
        /\ todo'[t] \in {<<>>, Tail(todo[t]), AfterStep(t)}
        /\ s[1] = "ReturnIf" =>
             todo'[t] = IF mem[s[2]] = s[3] THEN Tail(todo[t]) ELSE AfterStep(t)
        /\ Sets(s, "m_motionProfile") => mem'.m_motionProfile = s[3]
        /\ ~Sets(s, "m_motionProfile") => mem'.m_motionProfile = mem.m_motionProfile
    BY StepEffect DEF RestIInv
  <1>2. ASSUME NEW S, todo[t] \in Seq(Seq(S))
        PROVE  s \in S /\ todo'[t] \in Seq(Seq(S))
    BY <1>1, <1>2, StaysWithin
  <1> HIDE DEF s
  <1>3. Roles
    BY DEF RestIInv
  <1>4. /\ todo'["main"] \in Seq(Seq(MainSteps)) /\ todo'["sport"] \in Seq(Seq(KeepsMode))
        /\ todo'["reset"] \in Seq(Seq(ResetSteps)) /\ todo'["switcher"] \in Seq(Seq(KeepsLock))
    BY <1>1, <1>2, <1>3 DEF Roles, Threads
  <1>5. ASSUME "RESET" \notin apis
        PROVE  Idle("reset")'
    BY <1>1, <1>3, <1>5 DEF Roles, Threads, Idle
  <1>6. ASSUME "SELECT_MODE" \notin apis
        PROVE  /\ mem'.m_motionProfile = "Ai" /\ todo'["switcher"] \in Seq(Seq(AiOnly))
               /\ AllGuarded(todo'["switcher"], ProfileGate)
    <2>1. s \in AiOnly /\ todo'["switcher"] \in Seq(Seq(AiOnly))
      BY <1>1, <1>2, <1>3, <1>6, MoreKinds DEF Roles, Threads
    <2>2. mem'.m_motionProfile = "Ai"
      BY <2>1, <1>1, <1>3, <1>6, MoreKinds DEF Roles
    <2>3. CASE t # "switcher"
      BY <2>1, <2>2, <2>3, <1>1, <1>3, <1>6 DEF Roles, Threads
    <2>4. CASE t = "switcher"
      <3>1. AllGuarded(todo[t], ProfileGate) /\ LaterGuarded(todo[t], ProfileGate)
        BY <2>4, <1>3, <1>6 DEF Roles, AllGuarded, LaterGuarded
      <3>2. /\ AllGuarded(<<>>, ProfileGate) /\ AllGuarded(Tail(todo[t]), ProfileGate)
            /\ s # ProfileGate => AllGuarded(AfterStep(t), ProfileGate)
        BY <3>1, <1>1, GuardsGoOn DEF s
      <3>3. s = ProfileGate => todo'[t] = Tail(todo[t])
        BY <1>1, <1>3, <1>6, GateFacts DEF Roles
      <3> QED BY <2>1, <2>2, <2>4, <3>2, <3>3, <1>1
    <2> QED BY <2>3, <2>4
  <1> QED BY <1>1, <1>4, <1>5, <1>6 DEF Roles, AllGuarded

\* Without a SELECT_MODE no thread but the sport thread sets the robot in motion.
LEMMA OthersDoNotDrive ==
  ASSUME RestIInv, NEW t \in Threads, t # "sport", Step(t), "SELECT_MODE" \notin apis
  PROVE  twist' = twist \/ twist' = Zero
  <1> DEFINE s == Next1(t)
  <1>1. /\ todo[t] # <<>> /\ WorkList(todo[t])
        /\ twist' # twist => s[1] = "PublishCopy" \/ twist' = Zero
    BY StepEffect DEF RestIInv
  <1>2. Roles
    BY DEF RestIInv
  <1>3. CASE t \in {"main", "reset"}
    <2>1. s \in Quiet
      BY <1>1, <1>2, <1>3, StaysWithin, MoreKinds DEF Roles
    <2> QED BY <2>1, <1>1 DEF Quiet
  <1>4. CASE t = "switcher"
    <2>1. AllGuarded(todo[t], ProfileGate) /\ LaterGuarded(todo[t], ProfileGate)
      BY <1>2, <1>4 DEF Roles, AllGuarded, LaterGuarded
    <2>2. s = ProfileGate \/ s \in Quiet
      BY <2>1, <1>1, GuardsGoOn
    <2> HIDE DEF s
    <2> QED BY <2>2, <1>1, GateFacts DEF Quiet
  <1> QED BY <1>3, <1>4 DEF Threads

\* How a stop goes on.
LEMMA StopGoesOn ==
  ASSUME NEW t \in Threads, todo[t] # <<>>, WorkList(todo[t])
  PROVE  LET s == Next1(t) IN
         /\ Head(todo[t]) = LockJoints =>
              ~Returns(s) /\ AfterStep(t) # <<>> /\ Head(AfterStep(t)) = HandleStop
         /\ Head(todo[t]) = HandleStop =>
              /\ ~Returns(s) /\ s[1] = "Set"
              /\ AfterStep(t) # <<>> /\ Head(AfterStep(t)) = StopNow
         /\ Head(todo[t]) = StopNow => s[1] = "Publish"
  <1> DEFINE w == todo[t]
             l == LockStep
             a == Set("m_hasActiveMove", FALSE)
             b == Publish(Zero)
  <1>1. Head(w) = w[1] /\ Next1(t) = w[1][1]
    BY WorkFacts
  <1>2. \/ Len(w[1]) = 1 /\ AfterStep(t) = Tail(w)
        \/ Len(w[1]) > 1 /\ AfterStep(t) # <<>> /\ Head(AfterStep(t)) = Tail(w[1])
    BY AfterFacts
  <1>3. LockJoints = <<l, a, b>> /\ HandleStop = <<a, b>> /\ StopNow = <<b>>
    BY Zenon DEF LockJoints, HandleStop, StopNow, LockStep
  <1>4. l[1] = "Set" /\ a[1] = "Set" /\ b[1] = "Publish"
    BY Zenon DEF LockStep, Set, Publish
  <1> HIDE DEF w, l, a, b
  <1>5. CASE w[1] = <<l, a, b>>
    <2>1. Len(w[1]) # 1 /\ Tail(w[1]) = <<a, b>> /\ w[1][1] = l /\ w[1] # <<a, b>> /\ w[1] # <<b>>
      BY <1>5
    <2> QED BY <2>1, <1>1, <1>2, <1>3, <1>4, <1>5 DEF w, Returns
  <1>6. CASE w[1] = <<a, b>>
    <2>1. Len(w[1]) # 1 /\ Tail(w[1]) = <<b>> /\ w[1][1] = a /\ w[1] # <<l, a, b>> /\ w[1] # <<b>>
      BY <1>6
    <2> QED BY <2>1, <1>1, <1>2, <1>3, <1>4, <1>6 DEF w, Returns
  <1>7. CASE w[1] = <<b>>
    <2>1. w[1][1] = b /\ w[1] # <<l, a, b>> /\ w[1] # <<a, b>>
      BY <1>7
    <2> QED BY <2>1, <1>1, <1>3, <1>4 DEF w
  <1> QED BY <1>1, <1>3, <1>5, <1>6, <1>7 DEF w

\* A thread at work that is to stop the robot does its next step towards that.
LEMMA StopStays ==
  ASSUME RestIInv, NEW t \in Threads, Step(t),
         Head(todo[t]) \in {LockJoints, HandleStop, StopNow}
  PROVE  \/ twist' = Zero
         \/ todo'[t] # <<>> /\ Head(todo'[t]) \in {HandleStop, StopNow}
  <1>1. /\ todo[t] # <<>> /\ WorkList(todo[t])
        /\ ~Returns(Next1(t)) => todo'[t] = AfterStep(t)
        /\ Next1(t)[1] = "Publish" => twist' = Zero
    BY StepEffect DEF RestIInv
  <1> QED BY <1>1, StopGoesOn

LEMMA StepKeepsStopping ==
  ASSUME RestIInv, NEW t \in Threads, Step(t)
  PROVE  Stopping'
  <1> SUFFICES ASSUME "SELECT_MODE" \notin apis', lastStop' \in Stops
               PROVE  /\ todo'["sport"] \in Seq(Seq(Quiet))
                      /\ \/ twist' = Zero
                         \/ ~Idle("sport")' /\ Head(todo'["sport"]) \in {LockJoints, HandleStop, StopNow}
    BY DEF Stopping
  <1>1. /\ todo[t] # <<>> /\ WorkList(todo[t])
        /\ UNCHANGED <<apis, lastStop, overtaken>>
        /\ \A u \in Threads : u # t => todo'[u] = todo[u]
        /\ todo'[t] \in {<<>>, Tail(todo[t]), AfterStep(t)}
        /\ twist' # twist => Next1(t)[1] = "PublishCopy" \/ twist' = Zero
    BY StepEffect DEF RestIInv
  <1>2. /\ todo["sport"] \in Seq(Seq(Quiet))
        /\ \/ twist = Zero
           \/ ~Idle("sport") /\ Head(todo["sport"]) \in {LockJoints, HandleStop, StopNow}
    BY <1>1 DEF RestIInv, Stopping
  <1>3. CASE t = "sport"
    <2>1. Next1(t) \in Quiet /\ todo'[t] \in Seq(Seq(Quiet))
      BY <1>1, <1>2, <1>3, StaysWithin
    <2>2. twist' = twist \/ twist' = Zero
      BY <2>1, <1>1 DEF Quiet
    <2>3. CASE twist = Zero
      BY <2>1, <2>2, <2>3, <1>3
    <2>4. CASE Head(todo["sport"]) \in {LockJoints, HandleStop, StopNow}
      BY <2>1, <2>4, <1>3, StopStays DEF Idle
    <2> QED BY <2>3, <2>4, <1>2
  <1>4. CASE t # "sport"
    <2>1. todo'["sport"] = todo["sport"]
      BY <1>1, <1>4 DEF Threads
    <2>2. twist' = twist \/ twist' = Zero
      BY <1>1, <1>4, OthersDoNotDrive
    <2> QED BY <2>1, <2>2, <1>2 DEF Idle
  <1> QED BY <1>3, <1>4

\* A write of the lock locks the joints or unlocks them.
LEMMA LockWrites ==
  ASSUME NEW s \in Steps, Sets(s, "m_jointsLocked")
  PROVE  s = LockStep \/ s[3] = FALSE
  <1>1. s[1] = "Set" /\ s[2] = "m_jointsLocked"
    BY DEF Sets
  <1>2. s[3] \in BOOLEAN
    BY <1>1, Operands, FieldValues
  <1>3. s \in FieldSteps
    <2>1. CASE s \in {<<op>> : op \in PlainDos} \cup ChainedSteps
      BY <2>1, <1>1 DEF PlainDos, ChainedSteps
    <2>2. CASE s \in {Publish(Zero)} \cup {<<"TakeParameter", v>> : v \in Bridge!ParsedVelocities}
      BY <2>2, <1>1 DEF Publish
    <2> QED BY <2>1, <2>2 DEF Steps, PlainSteps
  <1>4. PICK f \in Fields : \E v \in FieldType[f] : \E op \in {"Set", "ReturnIf", "ReturnUnless"} : s = <<op, f, v>>
    BY <1>3 DEF FieldSteps
  <1>5. s = <<s[1], s[2], s[3]>>
    BY <1>4
  <1>6. CASE s[3] = TRUE
    BY <1>1, <1>5, <1>6, Zenon DEF LockStep, Set
  <1> QED BY <1>2, <1>6

LEMMA StepKeepsLocking ==
  ASSUME RestIInv, NEW t \in Threads, Step(t)
  PROVE  Locking'
  <1> DEFINE s == Next1(t)
             w == todo["sport"]
             n == todo'["sport"]
  <1> SUFFICES ASSUME "SELECT_MODE" \notin apis', "RESET" \notin apis'
               PROVE  /\ \A j \in 1 .. Len(n) : LockAware(n[j])
                      /\ LaterGuarded(n, LockGate)
                      /\ mem'.m_jointsLocked =>
                           /\ AllGuarded(n, LockGate)
                           /\ \/ twist' = Zero
                              \/ n # <<>> /\ Head(n) \in {HandleStop, StopNow}
    BY DEF Locking, Idle, AllGuarded, LaterGuarded
  <1>1. /\ todo[t] # <<>> /\ WorkList(todo[t]) /\ s \in Steps
        /\ UNCHANGED <<apis, lastStop, overtaken>>
        /\ \A u \in Threads : u # t => todo'[u] = todo[u]
        /\ todo'[t] \in {<<>>, Tail(todo[t]), AfterStep(t)}
        /\ ~Returns(s) => todo'[t] = AfterStep(t)
        /\ s[1] = "ReturnIf" =>
             todo'[t] = IF mem[s[2]] = s[3] THEN Tail(todo[t]) ELSE AfterStep(t)
        /\ twist' # twist => s[1] = "PublishCopy" \/ twist' = Zero
        /\ Sets(s, "m_jointsLocked") => mem'.m_jointsLocked = s[3]
        /\ ~Sets(s, "m_jointsLocked") => mem'.m_jointsLocked = mem.m_jointsLocked
    BY StepEffect DEF RestIInv
  <1>2. /\ \A j \in 1 .. Len(w) : LockAware(w[j])
        /\ LaterGuarded(w, LockGate)
        /\ mem.m_jointsLocked =>
             /\ AllGuarded(w, LockGate)
             /\ twist = Zero \/ (w # <<>> /\ Head(w) \in {HandleStop, StopNow})
    BY <1>1 DEF RestIInv, Locking, Idle
  <1>3. Roles
    BY DEF RestIInv
  <1>4. CASE t = "sport"
    <2>1. /\ LaterGuarded(n, LockGate) /\ \A j \in 1 .. Len(n) : LockAware(n[j])
          /\ s = LockStep => AfterStep(t) # <<>> /\ Head(AfterStep(t)) = HandleStop
      <3>1. \A rest \in {<<>>, Tail(todo[t]), AfterStep(t)} :
              LaterGuarded(rest, LockGate) /\ \A j \in 1 .. Len(rest) : LockAware(rest[j])
        BY <1>1, <1>2, <1>4, GuardsGoOn, LockAwareGoesOn
      <3>2. s = LockStep => AfterStep(t) # <<>> /\ Head(AfterStep(t)) = HandleStop
        BY <1>1, <1>2, <1>4, LockAwareGoesOn
      <3> QED BY <3>1, <3>2, <1>1, <1>4
    <2>2. CASE s = LockStep
      <3>1. n = AfterStep(t) /\ n # <<>> /\ Head(n) = HandleStop
        <4>1. ~Returns(s)
          BY <2>2 DEF LockStep, Set, Returns
        <4> QED BY <4>1, <2>1, <2>2, <1>1, <1>4
      <3>2. n[1] = HandleStop
        <4>1. n \in Seq(Seq(Steps))
          BY <3>1, <1>1, WhatIsNext DEF WorkList
        <4> QED BY <4>1, <3>1, HeadOfSeq
      <3>3. Guarded(HandleStop, LockGate)
        BY LockJointsAware DEF Guarded
      <3>4. AllGuarded(n, LockGate)
        <4> HIDE DEF n
        <4> QED BY <3>2, <3>3, <2>1 DEF AllGuarded, LaterGuarded
      <3> QED BY <2>1, <3>1, <3>4
    <2>3. ASSUME s # LockStep, mem'.m_jointsLocked
          PROVE  /\ AllGuarded(n, LockGate)
                 /\ twist' = Zero \/ (n # <<>> /\ Head(n) \in {HandleStop, StopNow})
      <3>1. mem.m_jointsLocked = TRUE
        BY <1>1, <2>3, LockWrites DEF RestIInv, ThreadsIInv, MemoryTyped, Fields, FieldType
      <3>2. AllGuarded(w, LockGate)
        BY <3>1, <1>2
      <3>3. /\ AllGuarded(<<>>, LockGate) /\ AllGuarded(Tail(w), LockGate)
            /\ s # LockGate => s \in Quiet /\ AllGuarded(AfterStep(t), LockGate)
        BY <3>2, <1>1, <1>2, <1>4, GuardsGoOn
      <3>4. AllGuarded(n, LockGate) /\ (twist' = twist \/ twist' = Zero)
        <4>1. CASE s = LockGate
          <5>1. LockGate[1] = "ReturnIf" /\ LockGate[2] = "m_jointsLocked" /\ LockGate[3] = TRUE
            <6>1. \A f, v : ReturnIf(f, v)[1] = "ReturnIf" /\ ReturnIf(f, v)[2] = f /\ ReturnIf(f, v)[3] = v
              BY DEF ReturnIf
            <6> QED BY <6>1, Zenon DEF LockGate
          <5>2. s[1] = "ReturnIf" /\ mem[s[2]] = s[3]
            BY <4>1, <3>1, <5>1, Zenon
          <5> QED BY <5>2, <3>3, <1>1, <1>4
        <4>2. CASE s # LockGate
          <5> HIDE DEF s
          <5> QED BY <4>2, <3>3, <1>1, <1>4 DEF Quiet
        <4> QED BY <4>1, <4>2
      <3>5. CASE twist = Zero
        BY <3>4, <3>5
      <3>6. CASE Head(w) \in {HandleStop, StopNow}
        BY <3>4, <3>6, <1>4, StopStays
      <3> QED BY <3>1, <3>5, <3>6, <1>2
    <2> QED BY <2>1, <2>2, <2>3
  <1>5. CASE t # "sport"
    <2>1. n = w
      BY <1>1, <1>5 DEF Threads
    <2>2. twist' = twist \/ twist' = Zero
      BY <1>1, <1>5, OthersDoNotDrive
    <2>3. mem'.m_jointsLocked = mem.m_jointsLocked
      <3>1. t # "reset"
        BY <1>1, <1>3 DEF Roles, Idle
      <3>2. s \in KeepsLock
        BY <3>1, <1>1, <1>3, <1>5, StaysWithin, MoreKinds DEF Roles, Threads
      <3> QED BY <3>2, <1>1 DEF KeepsLock
    <2> QED BY <2>1, <2>2, <2>3, <1>2
  <1> QED BY <1>4, <1>5

-----------------------------------------------------------------------------
(* The mode and the profile.                                               *)

\* A step that writes neither leaves them as they are.
LEMMA ModeKept ==
  ASSUME RestIInv, NEW t \in Threads, Step(t), Next1(t) \in KeepsMode
  PROVE  mem'.m_motionProfile = mem.m_motionProfile /\ mem'.mModeName = mem.mModeName
  <1>1. \A f \in {"m_motionProfile", "mModeName"} : ~Sets(Next1(t), f) => mem'[f] = mem[f]
    BY StepEffect DEF RestIInv
  <1> QED BY <1>1 DEF KeepsMode

\* A reset that is on its way has done or is yet to do both its writes.
LEMMA ResetStepPairs ==
  ASSUME RestIInv, Step("reset"), ~overtaken
  PROVE  /\ Idle("switcher") /\ todo'["switcher"] = todo["switcher"]
         /\ mem'.m_motionProfile = "Ai" \/ Has(todo'["reset"], AiStep)
         /\ mem'.mModeName = "ai" \/ Has(todo'["reset"], AiNameStep)
  <1> DEFINE s == Next1("reset")
             w == todo["reset"]
  <1>1. "reset" \in Threads /\ "switcher" \in Threads
    BY DEF Threads
  <1>2. /\ w # <<>> /\ WorkList(w)
        /\ \A u \in Threads : u # "reset" => todo'[u] = todo[u]
        /\ ~Returns(s) => todo'["reset"] = AfterStep("reset")
        /\ \A f \in {"m_motionProfile", "mModeName"} :
             /\ Sets(s, f) => mem'[f] = s[3]
             /\ ~Sets(s, f) => mem'[f] = mem[f]
    BY <1>1, StepEffect DEF RestIInv
  <1>3. /\ Idle("switcher")
        /\ mem.m_motionProfile = "Ai" \/ Has(w, AiStep)
        /\ mem.mModeName = "ai" \/ Has(w, AiNameStep)
    BY <1>2 DEF RestIInv, Pairing, Idle
  <1>4. s \in ResetSteps
    BY <1>1, <1>2, StaysWithin DEF RestIInv, Roles
  <1>5. /\ todo'["reset"] = AfterStep("reset")
        /\ Sets(s, "m_motionProfile") => s = AiStep
        /\ Sets(s, "mModeName") => s = AiNameStep
    BY <1>2, <1>4, MoreKinds
  <1>6. \A step : Has(w, step) => s = step \/ Has(todo'["reset"], step)
    BY <1>1, <1>2, <1>5, HasGoesOn
  <1>7. /\ Sets(AiStep, "m_motionProfile") /\ AiStep[3] = "Ai"
        /\ Sets(AiNameStep, "mModeName") /\ AiNameStep[3] = "ai"
    BY DEF Sets, AiStep, AiNameStep, Set
  <1> HIDE DEF s, w
  <1>8. mem'.m_motionProfile = "Ai" \/ Has(todo'["reset"], AiStep)
    BY <1>2, <1>3, <1>5, <1>6, <1>7
  <1>9. mem'.mModeName = "ai" \/ Has(todo'["reset"], AiNameStep)
    BY <1>2, <1>3, <1>5, <1>6, <1>7
  <1> QED BY <1>1, <1>2, <1>3, <1>8, <1>9

\* The switcher's one method is done, or goes on.
LEMMA SwitcherGoesOn ==
  ASSUME RestIInv, Step("switcher"), Len(todo["switcher"]) = 1
  PROVE  LET m == Head(todo["switcher"])
             n == todo'["switcher"]
         IN
         /\ m \in Seq(Steps) /\ Len(m) \in Nat \ {0} /\ m[1] = Next1("switcher")
         /\ n # <<>> => Len(n) = 1 /\ Head(n) = Tail(m)
         /\ ~Returns(m[1]) /\ Len(m) > 1 => n # <<>>
         /\ m[1][1] = "ReturnIf" /\ Len(m) > 1 => (mem[m[1][2]] = m[1][3] <=> n = <<>>)
  <1> DEFINE w == todo["switcher"]
             n == todo'["switcher"]
             a == AfterStep("switcher")
             s == Next1("switcher")
  <1>1. "switcher" \in Threads
    BY DEF Threads
  <1>2. /\ w # <<>> /\ WorkList(w)
        /\ n \in {<<>>, Tail(w), a}
        /\ ~Returns(s) => n = a
        /\ s[1] = "ReturnIf" => n = IF mem[s[2]] = s[3] THEN Tail(w) ELSE a
    BY <1>1, StepEffect DEF RestIInv
  <1>3. /\ Head(w) = w[1] /\ w[1] \in Seq(Steps) /\ Len(w[1]) \in Nat \ {0} /\ s = w[1][1]
        /\ Tail(w) \in Seq(Seq(Steps)) /\ Len(Tail(w)) = Len(w) - 1
    BY <1>1, <1>2, WorkFacts
  <1>4. \/ Len(w[1]) = 1 /\ a = Tail(w)
        \/ Len(w[1]) > 1 /\ Len(a) = Len(w) /\ a # <<>> /\ Head(a) = Tail(w[1])
    BY <1>1, <1>2, AfterFacts
  <1>5. Tail(w) = <<>>
    <2>1. Len(Tail(w)) = 0
      BY <1>3
    <2> HIDE DEF w
    <2> QED BY <2>1, <1>3, EmptySeq
  <1>6. Len(w) = 1
    OBVIOUS
  <1> HIDE DEF w, n, a, s
  <1>7. Len(w[1]) = 1 => ~(Len(w[1]) > 1)
    <2>1. \A l \in Nat : l = 1 => ~(l > 1)
      OBVIOUS
    <2> QED BY <2>1, <1>3, Zenon
  <1>8. n # <<>> => Len(n) = 1 /\ Head(n) = Tail(w[1])
    BY <1>2, <1>4, <1>5, <1>6, Zenon
  <1>9. Len(w[1]) > 1 => a # <<>>
    BY <1>4, <1>7, Zenon
  <1>10. /\ ~Returns(w[1][1]) /\ Len(w[1]) > 1 => n # <<>>
         /\ w[1][1][1] = "ReturnIf" /\ Len(w[1]) > 1 => (mem[w[1][1][2]] = w[1][1][3] <=> n = <<>>)
    BY <1>2, <1>3, <1>5, <1>9, Zenon
  <1> QED BY <1>3, <1>8, <1>10, Zenon DEF w, n, s

\* What the switcher has yet to do brings the profile to that of the name.
SwitcherPairs(w) ==
  /\ w = <<>> => InStep
  /\ w # <<>> =>
       /\ Len(w) = 1
       /\ \/ InStep /\ (Head(w) \in Seq(KeepsMode) \/ Names(Head(w)))
          \/ SyncsFrom(Head(w), 1, Profile(mem.mModeName))

LEMMA SwitcherStepPairs ==
  ASSUME RestIInv, Step("switcher"), ~overtaken
  PROVE  /\ Idle("reset") /\ todo'["reset"] = todo["reset"]
         /\ SwitcherPairs(todo["switcher"])'
  <1> DEFINE s == Next1("switcher")
             m == Head(todo["switcher"])
             n == todo'["switcher"]
  <1>1. "reset" \in Threads /\ "switcher" \in Threads /\ todo["switcher"] # <<>>
    BY DEF Threads, Step, Idle
  <1>2. /\ todo'["reset"] = todo["reset"]
        /\ \A f \in {"m_motionProfile", "mModeName"} :
             /\ Sets(s, f) => mem'[f] = s[3]
             /\ ~Sets(s, f) => mem'[f] = mem[f]
    BY <1>1, StepEffect DEF RestIInv
  <1>3. /\ Idle("reset") /\ Len(todo["switcher"]) = 1
        /\ \/ InStep /\ (m \in Seq(KeepsMode) \/ Names(m))
           \/ SyncsFrom(m, 1, Profile(mem.mModeName))
    BY <1>1 DEF RestIInv, Pairing, Idle
  <1>4. /\ m \in Seq(Steps) /\ Len(m) \in Nat \ {0} /\ m[1] = s
        /\ n # <<>> => Len(n) = 1 /\ Head(n) = Tail(m)
        /\ ~Returns(s) /\ Len(m) > 1 => n # <<>>
        /\ s[1] = "ReturnIf" /\ Len(m) > 1 => (mem[s[2]] = s[3] <=> n = <<>>)
    BY <1>3, SwitcherGoesOn
  <1>5. s \in KeepsMode =>
          mem'.m_motionProfile = mem.m_motionProfile /\ mem'.mModeName = mem.mModeName
    BY <1>1, ModeKept
  <1> HIDE DEF s, m, n
  <1>6. ASSUME InStep, m \in Seq(KeepsMode)
        PROVE  SwitcherPairs(todo["switcher"])'
    <2>1. s \in KeepsMode /\ Tail(m) \in Seq(KeepsMode)
      <3>1. 1 \in 1 .. Len(m) /\ m # <<>>
        BY <1>4, EmptySeq
      <3> QED BY <3>1, <1>4, <1>6, HeadTailProperties, ElementOfSeq
    <2>2. InStep'
      BY <2>1, <1>5, <1>6 DEF InStep
    <2> QED BY <2>1, <2>2, <1>4 DEF SwitcherPairs, n
  <1>7. ASSUME InStep, Names(m)
        PROVE  SwitcherPairs(todo["switcher"])'
    <2>1. CASE Sets(s, "mModeName") /\ Len(m) > 1 /\ SyncsFrom(Tail(m), 1, Profile(s[3]))
      <3>1. mem'.mModeName = s[3] /\ ~Returns(s)
        BY <2>1, <1>2 DEF Sets, Returns
      <3> QED BY <2>1, <3>1, <1>4 DEF SwitcherPairs, n
    <2>2. CASE s \in KeepsMode /\ Len(m) > 1 /\ Names(Tail(m))
      <3>1. InStep'
        BY <2>2, <1>5, <1>7 DEF InStep
      <3> QED BY <2>2, <3>1, <1>4 DEF SwitcherPairs, n
    <2> QED BY <2>1, <2>2, <1>4, <1>7, NamesTail
  <1>8. ASSUME SyncsFrom(m, 1, Profile(mem.mModeName))
        PROVE  SwitcherPairs(todo["switcher"])'
    <2> DEFINE p == Profile(mem.mModeName)
    <2>1. CASE s = Set("m_motionProfile", p) /\ Tail(m) \in Seq(KeepsMode)
      <3>1. Sets(s, "m_motionProfile") /\ ~Sets(s, "mModeName") /\ s[3] = p
        <4> HIDE DEF p
        <4> QED BY <2>1 DEF Sets, Set
      <3>2. InStep'
        BY <3>1, <1>2 DEF InStep
      <3> QED BY <2>1, <3>2, <1>4 DEF SwitcherPairs, n
    <2>2. CASE /\ s \in KeepsMode /\ Len(m) > 1 /\ SyncsFrom(Tail(m), 1, p)
               /\ Returns(s) => s = ReturnIf("m_motionProfile", p)
      <3>1. n # <<>> => SwitcherPairs(todo["switcher"])'
        BY <2>2, <1>4, <1>5 DEF SwitcherPairs, n
      <3>2. n = <<>> => InStep'
        <4> SUFFICES ASSUME n = <<>> PROVE InStep'
          OBVIOUS
        <4>1. s = ReturnIf("m_motionProfile", p)
          BY <2>2, <1>4
        <4>2. s[1] = "ReturnIf" /\ s[2] = "m_motionProfile" /\ s[3] = p
          <5> HIDE DEF p
          <5> QED BY <4>1 DEF ReturnIf
        <4>3. mem.m_motionProfile = p
          <5>1. mem[s[2]] = s[3]
            BY <2>2, <4>2, <1>4
          <5> QED BY <4>2, <5>1, Zenon
        <4> QED BY <2>2, <4>3, <1>5 DEF InStep
      <3> QED BY <3>1, <3>2 DEF SwitcherPairs, n
    <2> QED BY <2>1, <2>2, <1>4, <1>8, SyncsTail
  <1> QED BY <1>2, <1>3, <1>6, <1>7, <1>8 DEF n

LEMMA StepKeepsPairing ==
  ASSUME RestIInv, NEW t \in Threads, Step(t)
  PROVE  Pairing'
  <1>1. /\ todo[t] # <<>> /\ WorkList(todo[t]) /\ overtaken' = overtaken
        /\ \A u \in Threads : u # t => todo'[u] = todo[u]
    BY StepEffect DEF RestIInv
  <1> SUFFICES ASSUME ~overtaken PROVE Pairing'
    BY <1>1 DEF Pairing
  <1>2. Pairing /\ Roles
    BY DEF RestIInv
  <1>3. CASE t \in {"sport", "main"}
    <2>1. Next1(t) \in KeepsMode
      BY <1>1, <1>2, <1>3, StaysWithin, MoreKinds DEF Roles
    <2>2. mem'.m_motionProfile = mem.m_motionProfile /\ mem'.mModeName = mem.mModeName
      BY <2>1, ModeKept
    <2>3. todo'["switcher"] = todo["switcher"] /\ todo'["reset"] = todo["reset"]
      BY <1>1, <1>3 DEF Threads
    <2> QED BY <2>2, <2>3, <1>2 DEF Pairing, Idle, InStep
  <1>4. CASE t = "reset"
    <2>1. /\ Idle("switcher") /\ todo'["switcher"] = todo["switcher"]
          /\ mem'.m_motionProfile = "Ai" \/ Has(todo'["reset"], AiStep)
          /\ mem'.mModeName = "ai" \/ Has(todo'["reset"], AiNameStep)
      BY <1>4, ResetStepPairs
    <2>2. todo'["reset"] = <<>> => InStep'
      <3>1. \A step : ~Has(<<>>, step)
        BY DEF Has
      <3> QED BY <2>1, <3>1 DEF InStep, Profile, Bridge!MotionProfileFromModeName
    <2> QED BY <2>1, <2>2 DEF Pairing, Idle
  <1>5. CASE t = "switcher"
    <2>1. /\ Idle("reset") /\ todo'["reset"] = todo["reset"]
          /\ SwitcherPairs(todo["switcher"])'
      BY <1>5, SwitcherStepPairs
    <2> QED BY <2>1 DEF Pairing, Idle, SwitcherPairs
  <1> QED BY <1>3, <1>4, <1>5 DEF Threads

-----------------------------------------------------------------------------
(* What a thread can be given to do, and the passing of time.              *)

\* What leaves the sport thread and the output alone.
LEMMA SportFrame ==
  ASSUME RestIInv, todo'["sport"] = todo["sport"], UNCHANGED <<apis, lastStop, twist>>,
         mem'.m_jointsLocked = mem.m_jointsLocked
  PROVE  Stopping' /\ Locking'
  BY DEF RestIInv, Stopping, Locking, Idle, AllGuarded, LaterGuarded

\* What leaves the switcher, the reset and the mode alone.
LEMMA ModeFrame ==
  ASSUME RestIInv, UNCHANGED overtaken,
         \A t \in {"switcher", "reset"} : todo'[t] = todo[t],
         \A f \in {"m_motionProfile", "mModeName"} : mem'[f] = mem[f]
  PROVE  Pairing'
  BY DEF RestIInv, Pairing, Idle, InStep

LEMMA SportRequestKeeps ==
  ASSUME RestIInv, SportRequest
  PROVE  RestIInv'
  <1>1. PICK methods \in Seq(SportMethods) :
          /\ Begin("sport", methods) /\ overtaken' = overtaken
          /\ lastStop' \in Stops => StopsFirst(methods)
    BY SportRequestEffect
  <1>2. /\ Idle("sport") /\ todo'["sport"] = methods
        /\ \A u \in Threads : u # "sport" => todo'[u] = todo[u]
        /\ UNCHANGED <<apis, mem, twist>> /\ "sport" \in Threads
    BY <1>1, BeginEffect DEF RestIInv, Threads
  <1>3. /\ Len(methods) \in Nat /\ \A j \in 1 .. Len(methods) : methods[j] \in SportMethods
    BY LenProperties, ElementOfSeq
  <1>4. ThreadsIInv'
    BY SportRequestKeepsIInv DEF RestIInv
  <1>5. Roles'
    <2>1. methods \in Seq(Seq(KeepsMode))
      BY SeqMonotonic DEF SportMethods
    <2> QED BY <2>1, <1>1, <1>2, BeginKeepsRoles
  <1>6. Stopping'
    BY <1>1, <1>2 DEF Stopping, StopsFirst, Idle
  <1>7. Locking'
    <2>1. /\ \A j \in 1 .. Len(methods) : LockAware(methods[j])
          /\ AllGuarded(methods, LockGate) /\ LaterGuarded(methods, LockGate)
      BY <1>3 DEF SportMethods, AllGuarded, LaterGuarded
    <2>2. "SELECT_MODE" \notin apis /\ "RESET" \notin apis /\ mem.m_jointsLocked => twist = Zero
      BY <1>2 DEF RestIInv, Locking
    <2> QED BY <2>1, <2>2, <1>2 DEF Locking, AllGuarded, LaterGuarded
  <1>8. Pairing'
    BY <1>1, <1>2, ModeFrame DEF Threads
  <1> QED BY <1>4, <1>5, <1>6, <1>7, <1>8 DEF RestIInv

LEMMA MainLoopKeeps ==
  ASSUME RestIInv, MainLoop
  PROVE  RestIInv'
  <1>1. PICK methods \in Seq(Seq(MainSteps)) :
          Begin("main", methods) /\ UNCHANGED <<lastStop, overtaken>>
    BY MainLoopEffect
  <1>2. /\ \A u \in Threads : u # "main" => todo'[u] = todo[u]
        /\ UNCHANGED <<apis, mem, twist>> /\ "main" \in Threads
    BY <1>1, BeginEffect DEF RestIInv, Threads
  <1>3. ThreadsIInv'
    BY OtherWorkKeepsIInv DEF RestIInv
  <1>4. Roles'
    BY <1>1, <1>2, BeginKeepsRoles
  <1>5. Stopping' /\ Locking' /\ Pairing'
    BY <1>1, <1>2, SportFrame, ModeFrame DEF Threads
  <1> QED BY <1>3, <1>4, <1>5 DEF RestIInv

LEMMA ResetKeeps ==
  ASSUME RestIInv, Reset
  PROVE  RestIInv'
  <1>1. PICK methods \in Seq(Seq(ResetSteps)) :
          /\ Begin("reset", methods) /\ "RESET" \in apis /\ lastStop' = lastStop
          /\ overtaken' = (overtaken \/ ~Idle("switcher"))
          /\ Has(methods, AiStep) /\ Has(methods, AiNameStep)
    BY ResetEffect
  <1>2. /\ todo'["reset"] = methods
        /\ \A u \in Threads : u # "reset" => todo'[u] = todo[u]
        /\ UNCHANGED <<apis, mem, twist>> /\ "reset" \in Threads
    BY <1>1, BeginEffect DEF RestIInv, Threads
  <1>3. ThreadsIInv'
    BY OtherWorkKeepsIInv DEF RestIInv
  <1>4. Roles'
    BY <1>1, <1>2, BeginKeepsRoles
  <1>5. Stopping' /\ Locking'
    BY <1>1, <1>2, SportFrame DEF Threads
  <1>6. Pairing'
    <2>1. methods # <<>>
      BY <1>1 DEF Has
    <2>2. todo'["switcher"] = todo["switcher"]
      BY <1>2 DEF Threads
    <2> QED BY <2>1, <2>2, <1>1, <1>2 DEF Pairing, Idle
  <1> QED BY <1>3, <1>4, <1>5, <1>6 DEF RestIInv

LEMMA SwitcherRequestKeeps ==
  ASSUME RestIInv, SwitcherRequest
  PROVE  RestIInv'
  <1>1. PICK m \in Seq(KeepsLock) :
          /\ Begin("switcher", <<m>>) /\ lastStop' = lastStop
          /\ overtaken' = (overtaken \/ ~Idle("reset"))
          /\ m \in Seq(KeepsMode) \/ Names(m)
          /\ "SELECT_MODE" \notin apis => m \in Seq(AiOnly) /\ Guarded(m, ProfileGate)
    BY SwitcherRequestEffect
  <1>2. /\ Idle("switcher") /\ todo'["switcher"] = <<m>>
        /\ \A u \in Threads : u # "switcher" => todo'[u] = todo[u]
        /\ UNCHANGED <<apis, mem, twist>> /\ "switcher" \in Threads
    BY <1>1, BeginEffect DEF RestIInv, Threads
  <1>3. ThreadsIInv'
    BY OtherWorkKeepsIInv DEF RestIInv
  <1>4. \A x : <<x>> # <<>> /\ Len(<<x>>) = 1 /\ Head(<<x>>) = x /\ <<x>>[1] = x
               /\ \A S : x \in S => <<x>> \in Seq(S)
    OBVIOUS
  <1>5. Roles'
    <2>1. <<m>> \in Seq(Seq(KeepsLock))
      BY <1>4
    <2>2. "SELECT_MODE" \notin apis =>
            <<m>> \in Seq(Seq(AiOnly)) /\ AllGuarded(<<m>>, ProfileGate)
      <3>1. \A j \in 1 .. 1 : j = 1
        OBVIOUS
      <3> QED BY <3>1, <1>1, <1>4, Zenon DEF AllGuarded
    <2> QED BY <2>1, <2>2, <1>1, <1>2, BeginKeepsRoles
  <1>6. Stopping' /\ Locking'
    BY <1>1, <1>2, SportFrame DEF Threads
  <1>7. Pairing'
    <2> SUFFICES ASSUME ~overtaken' PROVE Pairing'
      BY DEF Pairing
    <2>1. ~overtaken /\ Idle("reset") /\ todo'["reset"] = todo["reset"]
      BY <1>1, <1>2 DEF Threads
    <2>2. InStep /\ InStep'
      BY <2>1, <1>2 DEF RestIInv, Pairing, InStep
    <2>3. <<m>> # <<>> /\ Len(<<m>>) = 1 /\ Head(<<m>>) = m
      BY <1>4
    <2> QED BY <2>1, <2>2, <2>3, <1>1, <1>2 DEF Pairing, Idle
  <1> QED BY <1>3, <1>5, <1>6, <1>7 DEF RestIInv

\* Time changes no field but moveAge.
LEMMA ElapseKeeps ==
  ASSUME RestIInv, Elapse
  PROVE  RestIInv'
  <1>1. UNCHANGED <<apis, twist, todo, lastStop, overtaken>>
    BY DEF Elapse
  <1>2. \A f \in {"m_jointsLocked", "m_motionProfile", "mModeName"} : mem'[f] = mem[f]
    <2>1. DOMAIN mem = Fields
      BY DEF RestIInv, ThreadsIInv, MemoryTyped
    <2> QED BY <2>1, FieldNames DEF Elapse
  <1>3. ThreadsIInv'
    BY ElapseKeepsIInv DEF RestIInv
  <1>4. Roles'
    BY <1>1, <1>2 DEF RestIInv, Roles, Idle, AllGuarded
  <1>5. Stopping' /\ Locking' /\ Pairing'
    BY <1>1, <1>2, SportFrame, ModeFrame
  <1> QED BY <1>3, <1>4, <1>5 DEF RestIInv

LEMMA InitRest == ThreadsInit => RestIInv
  <1> SUFFICES ASSUME ThreadsInit PROVE RestIInv
    OBVIOUS
  <1>1. ThreadsIInv
    BY InitIInv
  <1>2. /\ \A t \in Threads : todo[t] = <<>>
        /\ twist = Zero /\ mem.m_motionProfile = "Ai" /\ mem.mModeName = ""
    BY DEF ThreadsInit
  <1>3. /\ \A S : <<>> \in Seq(S)
        /\ \A j \in 1 .. Len(<<>>) : FALSE
        /\ \A guard : AllGuarded(<<>>, guard) /\ LaterGuarded(<<>>, guard)
    BY DEF AllGuarded, LaterGuarded
  <1>4. Roles
    BY <1>2, <1>3, Zenon DEF Roles, Threads, Idle
  <1>5. Stopping
    BY <1>2, <1>3 DEF Stopping, Threads
  <1>6. Locking
    BY <1>2, <1>3, Zenon DEF Locking, Threads
  <1>7. Pairing
    BY <1>2 DEF Pairing, Threads, Idle, InStep, Profile, Bridge!MotionProfileFromModeName
  <1> QED BY <1>1, <1>4, <1>5, <1>6, <1>7 DEF RestIInv

-----------------------------------------------------------------------------
(* The theorems.                                                           *)

\* However the threads interleave, each keeps to its steps, locks the joints only
\* to stop the robot next, and sets the mode and the profile as a pair.
THEOREM RestInvariance == ThreadsSpec => []RestIInv
  <1>1. RestIInv /\ [ThreadsNext]_threadVars => RestIInv'
    <2> SUFFICES ASSUME RestIInv, [ThreadsNext]_threadVars
                 PROVE  RestIInv'
      OBVIOUS
    <2>1. CASE SportRequest
      BY <2>1, SportRequestKeeps
    <2>2. CASE SwitcherRequest
      BY <2>2, SwitcherRequestKeeps
    <2>3. CASE Reset
      BY <2>3, ResetKeeps
    <2>4. CASE MainLoop
      BY <2>4, MainLoopKeeps
    <2>5. ASSUME NEW t \in Threads, Step(t)
          PROVE  RestIInv'
      <3>1. ThreadsIInv'
        BY <2>5, StepKeepsIInv DEF RestIInv
      <3>2. Roles' /\ Stopping' /\ Locking' /\ Pairing'
        BY <2>5, StepKeepsRoles, StepKeepsStopping, StepKeepsLocking, StepKeepsPairing
      <3> QED BY <3>1, <3>2 DEF RestIInv
    <2>6. CASE Elapse
      BY <2>6, ElapseKeeps
    <2>7. CASE UNCHANGED threadVars
      <3>1. ThreadsIInv'
        BY <2>7 DEF threadVars, RestIInv, ThreadsIInv, MemoryTyped, LocalTyped, Prepared, Next1, WorkList
      <3>2. UNCHANGED <<apis, mem, twist, todo, lastStop, overtaken>>
        BY <2>7 DEF threadVars
      <3>3. Roles'
        BY <3>2 DEF RestIInv, Roles, Idle, AllGuarded
      <3>4. Stopping' /\ Locking' /\ Pairing'
        BY <3>2, SportFrame, ModeFrame
      <3> QED BY <3>1, <3>3, <3>4 DEF RestIInv
    <2> QED BY <2>1, <2>2, <2>3, <2>4, <2>5, <2>6, <2>7 DEF ThreadsNext
  <1> QED BY <1>1, InitRest, PTL DEF ThreadsSpec

\* With the joints locked and the sport thread done, the robot stands still, unless
\* somebody selects modes or resets: SetMotionModeName and the reset's handler may
\* publish or lock beside a MOVE that has passed the lock (HandleMove reads it long
\* before it publishes).
THEOREM LockedAtRest ==
  ThreadsSpec => [](apis \cap {"SELECT_MODE", "RESET"} = {} => LockedAtRestMeansStopped)
  <1>1. RestIInv => (apis \cap {"SELECT_MODE", "RESET"} = {} => LockedAtRestMeansStopped)
    BY DEF RestIInv, Locking, Idle, LockedAtRestMeansStopped
  <1> QED BY <1>1, RestInvariance, PTL

\* Once a STOPMOVE, a STANDDOWN or a DAMP is done the robot stands still until the
\* next sport request, whatever the main loop, a reset and a RELEASE_MODE do beside
\* it: with the profile "Ai" SetMotionModeName("ai") ends before it republishes.
THEOREM StopsStop == ThreadsSpec => []ExplicitStopStops
  <1>1. RestIInv => ExplicitStopStops
    BY DEF RestIInv, Stopping, Idle, ExplicitStopStops
  <1> QED BY <1>1, RestInvariance, PTL

\* With the switcher and the reset done the publisher's profile is that of the
\* stored mode, although SetMotionModeName is called only after mModeName is written,
\* if the two have never run beside each other.
THEOREM ProfileAtRest == ThreadsSpec => []ProfileMatchesModeAtRest
  <1>1. RestIInv => ProfileMatchesModeAtRest
    BY DEF RestIInv, Pairing, InStep, Profile, ProfileMatchesModeAtRest, Bridge!ProfileMatchesMode
  <1> QED BY <1>1, RestInvariance, PTL

=============================================================================
