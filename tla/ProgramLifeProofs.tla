-------------------------- MODULE ProgramLifeProofs --------------------------
(***************************************************************************)
(* Proofs about ProgramLife.  A place is a step of main: what exists then  *)
(* is a matter of the place alone, so that everything has a lifetime, from *)
(* one place to another.  A callback runs within the lifetime of all that  *)
(* it touches.                                                             *)
(***************************************************************************)
EXTENDS ProgramLife, SequenceTheorems, TLAPS

\* The j-th step of main's i-th method; the end of main is the first of a
\* method more.
Place(i, j) == 10 * i + j

Methods == 22
TheEnd  == Place(Methods + 1, 1)

\* The places at which a thing exists: from the step after the one that makes it
\* to the one that drops it, or its last owner.
Lifetime ==
  [factory             |-> 23 .. TheEnd,
   velPointer          |-> 12 .. 161,
   ctlPointer          |-> 13 .. 162,
   sportBridge         |-> 14 .. 222,
   switcherBridge      |-> 21 .. 202,
   sportInitialized    |-> 31 .. 223,
   switcherInitialized |-> 41 .. 203,
   velChannel          |-> 51 .. 221,
   ctlChannel          |-> 61 .. 221,
   resetChannel        |-> 71 .. 172,
   sportHandlers       |-> 72 .. 221,
   switcherHandlers    |-> 81 .. 201,
   stub                |-> 93 .. 131,
   sportStarted        |-> 101 .. 133,
   responseChannel     |-> 113 .. 151,
   requestChannel      |-> 114 .. 142,
   switcherStarted     |-> 121 .. 152]

Existing(n) == {thing \in Things : n \in Lifetime[thing]}

\* The places at which a callback may be in progress: from the step after the one
\* that lets it begin to the one that waits for it.
CallTime == [sport |-> 93 .. 132, switcher |-> 114 .. 143, reset |-> 71 .. 173]

LoopPlace == Place(12, 1)

Step ==
  {Make(thing) : thing \in Things} \cup {Drop(thing) : thing \in Things} \cup
  {ReturnIf(thing) : thing \in Things} \cup {ReturnUnless(thing) : thing \in Things} \cup
  {Await(callback) : callback \in Callbacks} \cup {<<"Loop">>}

Method == Seq(Step)

\* t is the rest of main from the j-th step of its i-th method.
Rest(t, i, j) ==
  /\ t \in Seq(Method)
  /\ i \in 1 .. Methods + 1 /\ j \in Nat
  /\ Len(t) = Methods + 1 - i
  /\ i = Methods + 1 => j = 1
  /\ i <= Methods =>
       /\ j \in 1 .. Len(Main[i])
       /\ Len(t[1]) = Len(Main[i]) - j + 1
       /\ \A k \in 1 .. Len(t[1]) : t[1][k] = Main[i][k + j - 1]
       /\ \A k \in 2 .. Len(t) : t[k] = Main[k + i - 1]

\* Beyond the loop the program was told to end; a null pointer is called there
\* only.
LifeAt(n) ==
  /\ up = Existing(n)
  /\ \A callback \in Callbacks :
       /\ phase[callback] \in Phases[callback]
       /\ phase[callback] # "idle" => n \in CallTime[callback]
  /\ n > LoopPlace \/ crashed => ~g_running

LifeIInv ==
  /\ g_running \in BOOLEAN /\ crashed \in BOOLEAN
  /\ DOMAIN phase = Callbacks /\ phase = [callback \in Callbacks |-> phase[callback]]
  /\ \E i, j \in Nat : Rest(todo, i, j) /\ LifeAt(Place(i, j))
-----------------------------------------------------------------------------
(* What each kind of step does to what exists, between one place and the   *)
(* next.                                                                   *)

\* The place after a step, unless the method returns.
After(i, j) == IF j < Len(Main[i]) THEN Place(i, j + 1) ELSE Place(i + 1, 1)

SameThings(S, T) == \A thing \in Things : thing \in S <=> thing \in T

CallsLast(callbacks, n, m) ==
  \A callback \in callbacks : n \in CallTime[callback] => m \in CallTime[callback]

Same(n, m) ==
  /\ SameThings(Existing(m), Existing(n)) /\ CallsLast(Callbacks, n, m)
  /\ m > LoopPlace => n > LoopPlace

Makes(thing, n, m) ==
  /\ SameThings(Existing(m), Existing(n) \cup {thing}) /\ CallsLast(Callbacks, n, m)
  /\ m > LoopPlace => n > LoopPlace

Drops(thing, n, m) ==
  /\ SameThings(Existing(m), Without(Existing(n) \ {thing})) /\ CallsLast(Callbacks, n, m)
  /\ m > LoopPlace => n > LoopPlace

Awaits(callback, n, m) ==
  /\ SameThings(Existing(m), Existing(n)) /\ CallsLast(Callbacks \ {callback}, n, m)
  /\ m > LoopPlace => n > LoopPlace

Loops(n, m) == SameThings(Existing(m), Existing(n)) /\ CallsLast(Callbacks, n, m)

\* A step at place n, with m the place after it and e the next method's first.
Fits(step, n, m, e) ==
  \/ \E thing \in Things : step = Make(thing) /\ Makes(thing, n, m)
  \/ \E thing \in Things : step = Drop(thing) /\ Drops(thing, n, m)
  \/ \E thing \in Things : /\ step = ReturnIf(thing)
                           /\ IF thing \in Existing(n) THEN Same(n, e) ELSE Same(n, m)
  \/ \E thing \in Things : /\ step = ReturnUnless(thing)
                           /\ IF thing \in Existing(n) THEN Same(n, m) ELSE Same(n, e)
  \/ \E callback \in Callbacks : step = Await(callback) /\ Awaits(callback, n, m)
  \/ step = <<"Loop">> /\ Loops(n, m)

AllFit == \A i \in 1 .. Methods : \A j \in 1 .. Len(Main[i]) :
            Fits(Main[i][j], Place(i, j), After(i, j), Place(i + 1, 1))

-----------------------------------------------------------------------------
(* The places.                                                             *)

\* Lists that are written out.
LEMMA Lists ==
  ASSUME NEW S
  PROVE  /\ \A a \in S : <<a>> \in Seq(S) /\ Len(<<a>>) = 1 /\ <<a>>[1] = a
         /\ \A a \in S, b \in S : <<a, b>> \in Seq(S)
         /\ \A a \in S, b \in S, c \in S : <<a, b, c>> \in Seq(S)
         /\ \A a \in S, b \in S, c \in S, d \in S : <<a, b, c, d>> \in Seq(S)
  OBVIOUS

\* Two lists in a row, place by place.
LEMMA Joined ==
  ASSUME NEW S, NEW s \in Seq(S), NEW t \in Seq(S)
  PROVE  /\ s \o t \in Seq(S) /\ Len(s \o t) = Len(s) + Len(t)
         /\ \A k \in 1 .. Len(s) : (s \o t)[k] = s[k]
         /\ \A k \in 1 .. Len(t) : (s \o t)[Len(s) + k] = t[k]
  BY ConcatProperties, LenProperties

LEMMA StepsAreSteps ==
  /\ \A thing \in Things : /\ Make(thing) \in Step /\ Drop(thing) \in Step
                           /\ ReturnIf(thing) \in Step /\ ReturnUnless(thing) \in Step
  /\ \A callback \in Callbacks : Await(callback) \in Step
  /\ <<"Loop">> \in Step
  BY Zenon DEF Step

LEMMA TheThings ==
  /\ {"velChannel", "ctlChannel", "resetChannel", "requestChannel", "responseChannel",
      "factory", "velPointer", "ctlPointer", "sportBridge", "switcherBridge",
      "sportInitialized", "switcherInitialized", "sportStarted", "switcherStarted",
      "sportHandlers", "switcherHandlers", "stub"} = Things
  /\ Callbacks = {"sport", "switcher", "reset"}
  BY DEF Things, Channels, Callbacks, Phases

\* Init returns if it ran before.
LEMMA InitPlaces ==
  /\ SportInit \in Method /\ Len(SportInit) = 3
  /\ SportInit[1] = ReturnIf("sportInitialized") /\ SportInit[2] = Make("factory")
  /\ SportInit[3] = Make("sportInitialized")
  /\ SwitcherInit \in Method /\ Len(SwitcherInit) = 3
  /\ SwitcherInit[1] = ReturnIf("switcherInitialized") /\ SwitcherInit[2] = Make("factory")
  /\ SwitcherInit[3] = Make("switcherInitialized")
  <1>1. ASSUME NEW a \in Step, NEW b \in Step, NEW c \in Step
        PROVE  /\ <<a>> \o <<b>> \o <<c>> \in Method /\ Len(<<a>> \o <<b>> \o <<c>>) = 3
               /\ (<<a>> \o <<b>> \o <<c>>)[1] = a /\ (<<a>> \o <<b>> \o <<c>>)[2] = b
               /\ (<<a>> \o <<b>> \o <<c>>)[3] = c
    <2>1. /\ <<a>> \in Seq(Step) /\ <<b>> \in Seq(Step) /\ <<c>> \in Seq(Step)
          /\ Len(<<a>>) = 1 /\ Len(<<b>>) = 1 /\ Len(<<c>>) = 1
          /\ <<a>>[1] = a /\ <<b>>[1] = b /\ <<c>>[1] = c
      BY Lists, Zenon
    <2>2. /\ <<a>> \o <<b>> \in Seq(Step) /\ Len(<<a>> \o <<b>>) = 2
          /\ (<<a>> \o <<b>>)[1] = a /\ (<<a>> \o <<b>>)[2] = b
      BY <2>1, Joined
    <2> QED BY <2>1, <2>2, Joined DEF Method
  <1>2. /\ ReturnIf("sportInitialized") \in Step /\ Make("factory") \in Step
        /\ Make("sportInitialized") \in Step
        /\ ReturnIf("switcherInitialized") \in Step /\ Make("switcherInitialized") \in Step
    <2>1. {"sportInitialized", "switcherInitialized", "factory"} \subseteq Things
      BY TheThings
    <2> QED BY <2>1, StepsAreSteps, Zenon
  <1>3. /\ SportInit = <<ReturnIf("sportInitialized")>> \o <<Make("factory")>>
                          \o <<Make("sportInitialized")>>
        /\ SwitcherInit = <<ReturnIf("switcherInitialized")>> \o <<Make("factory")>>
                          \o <<Make("switcherInitialized")>>
    BY DEF SportInit, SwitcherInit, InitUnitreeChannelFactoryOnce
  <1>4. /\ SportInit \in Method /\ Len(SportInit) = 3
        /\ SportInit[1] = ReturnIf("sportInitialized") /\ SportInit[2] = Make("factory")
        /\ SportInit[3] = Make("sportInitialized")
    BY <1>1, <1>2, <1>3
  <1>5. /\ SwitcherInit \in Method /\ Len(SwitcherInit) = 3
        /\ SwitcherInit[1] = ReturnIf("switcherInitialized") /\ SwitcherInit[2] = Make("factory")
        /\ SwitcherInit[3] = Make("switcherInitialized")
    BY <1>1, <1>2, <1>3
  <1> QED BY <1>4, <1>5

\* The methods that are written out.
LEMMA MethodsAreMethods ==
  /\ SportInit \in Method /\ SwitcherInit \in Method
  /\ <<Make("velPointer"), Make("ctlPointer"), Make("sportBridge"), Make("switcherBridge")>>
       \in Method
  /\ CmdVelInitChannel \in Method /\ CmdCtlInitChannel \in Method /\ ResetInitChannel \in Method
  /\ <<Make("sportHandlers"), Make("switcherHandlers")>> \in Method
  /\ <<ReturnIf("sportStarted"), Make("stub"), Make("sportStarted")>> \in Method
  /\ <<ReturnIf("switcherStarted"), Make("responseChannel"), Make("requestChannel"),
       Make("switcherStarted")>> \in Method
  /\ <<<<"Loop">>>> \in Method
  /\ <<Drop("stub"), Await("sport"), Drop("sportStarted")>> \in Method
  /\ CloseChannel("requestChannel", "switcher") \in Method /\ ResetCloseChannel \in Method
  /\ <<Drop("responseChannel"), Drop("switcherStarted")>> \in Method
  /\ <<Drop("velPointer"), Drop("ctlPointer")>> \in Method
  /\ <<Drop("switcherHandlers"), Drop("switcherBridge"), Drop("switcherInitialized")>> \in Method
  /\ <<Drop("sportHandlers"), Drop("sportBridge"), Drop("sportInitialized")>> \in Method
  <1>1. \A thing \in {"velChannel", "ctlChannel", "resetChannel", "requestChannel",
          "responseChannel", "velPointer", "ctlPointer", "sportBridge", "switcherBridge",
          "sportInitialized", "switcherInitialized", "sportStarted", "switcherStarted",
          "sportHandlers", "switcherHandlers", "stub"} :
          /\ Make(thing) \in Step /\ Drop(thing) \in Step
          /\ ReturnIf(thing) \in Step /\ ReturnUnless(thing) \in Step
    BY TheThings, StepsAreSteps
  <1>2. /\ \A callback \in {"sport", "switcher", "reset"} : Await(callback) \in Step
        /\ <<"Loop">> \in Step
    BY TheThings, StepsAreSteps
  <1> DEFINE Fours == \A a \in Step, b \in Step, c \in Step, d \in Step : <<a, b, c, d>> \in Method
             Threes == \A a \in Step, b \in Step, c \in Step : <<a, b, c>> \in Method
             Twos == \A a \in Step, b \in Step : <<a, b>> \in Method
             Ones == \A a \in Step : <<a>> \in Method
  <1>3. Ones /\ Twos /\ Threes /\ Fours
    BY Lists, Zenon DEF Method
  <1>4. SportInit \in Method /\ SwitcherInit \in Method
    BY InitPlaces
  <1>5. /\ <<Make("velPointer"), Make("ctlPointer"), Make("sportBridge"), Make("switcherBridge")>>
             \in Method
        /\ <<ReturnIf("switcherStarted"), Make("responseChannel"), Make("requestChannel"),
             Make("switcherStarted")>> \in Method
    BY <1>1, <1>3
  <1>6. /\ <<ReturnIf("sportStarted"), Make("stub"), Make("sportStarted")>> \in Method
        /\ <<Drop("stub"), Await("sport"), Drop("sportStarted")>> \in Method
        /\ CloseChannel("requestChannel", "switcher") \in Method /\ ResetCloseChannel \in Method
        /\ <<Drop("switcherHandlers"), Drop("switcherBridge"), Drop("switcherInitialized")>>
             \in Method
        /\ <<Drop("sportHandlers"), Drop("sportBridge"), Drop("sportInitialized")>> \in Method
    BY <1>1, <1>2, <1>3 DEF CloseChannel, ResetCloseChannel
  <1>7. /\ CmdVelInitChannel \in Method /\ CmdCtlInitChannel \in Method
        /\ ResetInitChannel \in Method
        /\ <<Make("sportHandlers"), Make("switcherHandlers")>> \in Method
        /\ <<Drop("responseChannel"), Drop("switcherStarted")>> \in Method
        /\ <<Drop("velPointer"), Drop("ctlPointer")>> \in Method
        /\ <<<<"Loop">>>> \in Method
    BY <1>1, <1>2, <1>3 DEF CmdVelInitChannel, CmdCtlInitChannel, ResetInitChannel
  <1> QED BY <1>4, <1>5, <1>6, <1>7

LEMMA StartUpPlaces ==
  /\ StartUp \in Seq(Method) /\ Len(StartUp) = 11
  /\ StartUp[1] = <<Make("velPointer"), Make("ctlPointer"), Make("sportBridge"),
                    Make("switcherBridge")>>
  /\ StartUp[2] = SportInit /\ StartUp[3] = SwitcherInit
  /\ StartUp[4] = CmdVelInitChannel /\ StartUp[5] = CmdCtlInitChannel
  /\ StartUp[6] = ResetInitChannel
  /\ StartUp[7] = <<Make("sportHandlers"), Make("switcherHandlers")>>
  /\ StartUp[8] = SportInit
  /\ StartUp[9] = <<ReturnIf("sportStarted"), Make("stub"), Make("sportStarted")>>
  /\ StartUp[10] = SwitcherInit
  /\ StartUp[11] = <<ReturnIf("switcherStarted"), Make("responseChannel"),
                     Make("requestChannel"), Make("switcherStarted")>>
  <1>1. ASSUME NEW a \in Method, NEW b \in Method, NEW c \in Method, NEW d \in Method,
               NEW e \in Method, NEW f \in Method, NEW g \in Method, NEW h \in Method,
               NEW i \in Method
        PROVE  LET all == <<a, b, c, d, e, f, g>> \o <<b, h>> \o <<c, i>>
               IN  /\ all \in Seq(Method) /\ Len(all) = 11
                   /\ all[1] = a /\ all[2] = b /\ all[3] = c /\ all[4] = d /\ all[5] = e
                   /\ all[6] = f /\ all[7] = g /\ all[8] = b /\ all[9] = h /\ all[10] = c
                   /\ all[11] = i
    <2> DEFINE first == <<a, b, c, d, e, f, g>>
               second == <<b, h>>
               third == <<c, i>>
    <2>1. /\ first \in Seq(Method) /\ Len(first) = 7
          /\ first[1] = a /\ first[2] = b /\ first[3] = c /\ first[4] = d /\ first[5] = e
          /\ first[6] = f /\ first[7] = g
      OBVIOUS
    <2>2. /\ second \in Seq(Method) /\ Len(second) = 2 /\ second[1] = b /\ second[2] = h
          /\ third \in Seq(Method) /\ Len(third) = 2 /\ third[1] = c /\ third[2] = i
      OBVIOUS
    <2> HIDE DEF first, second, third
    <2> DEFINE both == first \o second
               all == both \o third
    <2>3. /\ both \in Seq(Method) /\ Len(both) = 9
          /\ \A k \in 1 .. 7 : both[k] = first[k]
          /\ both[8] = b /\ both[9] = h
      <3>1. /\ both \in Seq(Method) /\ Len(both) = Len(first) + Len(second)
            /\ \A k \in 1 .. Len(first) : both[k] = first[k]
            /\ \A k \in 1 .. Len(second) : both[Len(first) + k] = second[k]
        <4>1. first \in Seq(Method) /\ second \in Seq(Method)
          BY <2>1, <2>2
        <4> QED BY <4>1, Joined
      <3> QED BY <2>1, <2>2, <3>1
    <2> HIDE DEF both
    <2>4. /\ all \in Seq(Method) /\ Len(all) = 11
          /\ \A k \in 1 .. 9 : all[k] = both[k]
          /\ all[10] = c /\ all[11] = i
      <3>1. /\ all \in Seq(Method) /\ Len(all) = Len(both) + Len(third)
            /\ \A k \in 1 .. Len(both) : all[k] = both[k]
            /\ \A k \in 1 .. Len(third) : all[Len(both) + k] = third[k]
        <4>1. both \in Seq(Method) /\ third \in Seq(Method)
          BY <2>2, <2>3
        <4> QED BY <4>1, Joined
      <3> HIDE DEF all
      <3> QED BY <2>2, <2>3, <3>1
    <2> HIDE DEF all
    <2>5. \A k \in 1 .. 7 : all[k] = first[k]
      BY <2>3, <2>4
    <2>6. /\ all[1] = a /\ all[2] = b /\ all[3] = c /\ all[4] = d /\ all[5] = e
          /\ all[6] = f /\ all[7] = g /\ all[8] = b /\ all[9] = h
      BY <2>1, <2>3, <2>4, <2>5
    <2> QED BY <2>4, <2>6 DEF first, second, third, both, all
  <1> QED BY <1>1, MethodsAreMethods DEF StartUp, SportStart, SwitcherStart

\* One method more.
LEMMA Appended ==
  ASSUME NEW s \in Seq(Method), NEW a \in Method
  PROVE  /\ s \o <<a>> \in Seq(Method) /\ Len(s \o <<a>>) = Len(s) + 1
         /\ \A k \in 1 .. Len(s) : (s \o <<a>>)[k] = s[k]
         /\ (s \o <<a>>)[Len(s) + 1] = a
  <1> DEFINE last == <<a>>
             all == s \o last
  <1>1. last \in Seq(Method) /\ Len(last) = 1 /\ last[1] = a
    OBVIOUS
  <1> HIDE DEF last
  <1>2. /\ all \in Seq(Method) /\ Len(all) = Len(s) + Len(last)
        /\ \A k \in 1 .. Len(s) : all[k] = s[k]
        /\ \A k \in 1 .. Len(last) : all[Len(s) + k] = last[k]
    <2>1. last \in Seq(Method) /\ s \in Seq(Method)
      BY <1>1
    <2> QED BY <2>1, Joined
  <1> HIDE DEF all
  <1>3. Len(all) = Len(s) + 1 /\ (\A k \in 1 .. Len(s) : all[k] = s[k]) /\ all[Len(s) + 1] = a
    BY <1>1, <1>2
  <1> QED BY <1>2, <1>3 DEF all, last

\* Two methods more.
LEMMA AppendedTwo ==
  ASSUME NEW s \in Seq(Method), NEW a \in Method, NEW b \in Method
  PROVE  /\ s \o <<a, b>> \in Seq(Method) /\ Len(s \o <<a, b>>) = Len(s) + 2
         /\ \A k \in 1 .. Len(s) : (s \o <<a, b>>)[k] = s[k]
         /\ (s \o <<a, b>>)[Len(s) + 1] = a /\ (s \o <<a, b>>)[Len(s) + 2] = b
  <1> DEFINE last == <<a, b>>
             all == s \o last
  <1>1. last \in Seq(Method) /\ Len(last) = 2 /\ last[1] = a /\ last[2] = b
    OBVIOUS
  <1> HIDE DEF last
  <1>2. /\ all \in Seq(Method) /\ Len(all) = Len(s) + Len(last)
        /\ \A k \in 1 .. Len(s) : all[k] = s[k]
        /\ \A k \in 1 .. Len(last) : all[Len(s) + k] = last[k]
    <2>1. last \in Seq(Method) /\ s \in Seq(Method)
      BY <1>1
    <2> QED BY <2>1, Joined
  <1> HIDE DEF all
  <1>3. /\ Len(all) = Len(s) + 2 /\ (\A k \in 1 .. Len(s) : all[k] = s[k])
        /\ all[Len(s) + 1] = a /\ all[Len(s) + 2] = b
    BY <1>1, <1>2
  <1> QED BY <1>2, <1>3 DEF all, last

LEMMA ShutDownPlaces ==
  /\ ShutDown \in Seq(Method) /\ Len(ShutDown) = 4
  /\ ShutDown[1] = <<Drop("stub"), Await("sport"), Drop("sportStarted")>>
  /\ ShutDown[2] = CloseChannel("requestChannel", "switcher")
  /\ ShutDown[3] = <<Drop("responseChannel"), Drop("switcherStarted")>>
  /\ ShutDown[4] = <<Drop("velPointer"), Drop("ctlPointer")>>
  <1>1. ASSUME NEW a \in Method, NEW b \in Method, NEW c \in Method, NEW d \in Method
        PROVE  LET all == <<a>> \o <<b, c>> \o <<d>>
               IN  /\ all \in Seq(Method) /\ Len(all) = 4
                   /\ all[1] = a /\ all[2] = b /\ all[3] = c /\ all[4] = d
    <2> DEFINE first == <<a>>
               most == first \o <<b, c>>
               all == most \o <<d>>
    <2>1. first \in Seq(Method) /\ Len(first) = 1 /\ first[1] = a
      OBVIOUS
    <2> HIDE DEF first
    <2>2. /\ most \in Seq(Method) /\ Len(most) = Len(first) + 2
          /\ (\A k \in 1 .. Len(first) : most[k] = first[k])
          /\ most[Len(first) + 1] = b /\ most[Len(first) + 2] = c
      <3>1. first \in Seq(Method)
        BY <2>1
      <3> QED BY <3>1, AppendedTwo
    <2> HIDE DEF most
    <2>3. /\ all \in Seq(Method) /\ Len(all) = Len(most) + 1
          /\ (\A k \in 1 .. Len(most) : all[k] = most[k]) /\ all[Len(most) + 1] = d
      BY <2>2, Appended, Zenon
    <2> HIDE DEF all
    <2>4. Len(all) = 4 /\ all[1] = a /\ all[2] = b /\ all[3] = c /\ all[4] = d
      BY <2>1, <2>2, <2>3
    <2> QED BY <2>3, <2>4 DEF all, most, first
  <1> QED BY <1>1, MethodsAreMethods DEF ShutDown, SportStop, SwitcherStop

LEMMA DestructorPlaces ==
  /\ Destructors \in Seq(Method) /\ Len(Destructors) = 6
  /\ Destructors[1] = ResetCloseChannel
  /\ Destructors[2] = CloseChannel("requestChannel", "switcher")
  /\ Destructors[3] = <<Drop("responseChannel"), Drop("switcherStarted")>>
  /\ Destructors[4] = <<Drop("switcherHandlers"), Drop("switcherBridge"),
                        Drop("switcherInitialized")>>
  /\ Destructors[5] = <<Drop("stub"), Await("sport"), Drop("sportStarted")>>
  /\ Destructors[6] = <<Drop("sportHandlers"), Drop("sportBridge"), Drop("sportInitialized")>>
  <1>1. ASSUME NEW a \in Method, NEW b \in Method, NEW c \in Method, NEW d \in Method,
               NEW e \in Method, NEW f \in Method
        PROVE  LET all == <<a>> \o <<b, c>> \o <<d>> \o <<e>> \o <<f>>
               IN  /\ all \in Seq(Method) /\ Len(all) = 6
                   /\ all[1] = a /\ all[2] = b /\ all[3] = c /\ all[4] = d /\ all[5] = e
                   /\ all[6] = f
    <2> DEFINE first == <<a>>
               three == first \o <<b, c>>
               four == three \o <<d>>
               five == four \o <<e>>
               all == five \o <<f>>
    <2>1. first \in Seq(Method) /\ Len(first) = 1 /\ first[1] = a
      OBVIOUS
    <2> HIDE DEF first
    <2>2. /\ three \in Seq(Method) /\ Len(three) = Len(first) + 2
          /\ (\A k \in 1 .. Len(first) : three[k] = first[k])
          /\ three[Len(first) + 1] = b /\ three[Len(first) + 2] = c
      <3>1. first \in Seq(Method)
        BY <2>1
      <3> QED BY <3>1, AppendedTwo
    <2> HIDE DEF three
    <2>4. /\ four \in Seq(Method) /\ Len(four) = Len(three) + 1
          /\ (\A k \in 1 .. Len(three) : four[k] = three[k]) /\ four[Len(three) + 1] = d
      BY <2>2, Appended, Zenon
    <2> HIDE DEF four
    <2>6. /\ five \in Seq(Method) /\ Len(five) = Len(four) + 1
          /\ (\A k \in 1 .. Len(four) : five[k] = four[k]) /\ five[Len(four) + 1] = e
      BY <2>4, Appended, Zenon
    <2> HIDE DEF five
    <2>8. /\ all \in Seq(Method) /\ Len(all) = Len(five) + 1
          /\ (\A k \in 1 .. Len(five) : all[k] = five[k]) /\ all[Len(five) + 1] = f
      BY <2>6, Appended, Zenon
    <2> HIDE DEF all
    <2>9. /\ Len(all) = 6 /\ all[1] = a /\ all[2] = b /\ all[3] = c /\ all[4] = d
          /\ all[5] = e /\ all[6] = f
      BY <2>1, <2>2, <2>4, <2>6, <2>8
    <2> QED BY <2>8, <2>9 DEF all, five, four, three, first
  <1> QED BY <1>1, MethodsAreMethods DEF Destructors, SportStop, SwitcherStop

LEMMA MainPlaces ==
  /\ Main \in Seq(Method) /\ Len(Main) = Methods
  /\ \A k \in 1 .. 11 : Main[k] = StartUp[k]
  /\ Main[12] = <<<<"Loop">>>>
  /\ \A k \in 1 .. 4 : Main[12 + k] = ShutDown[k]
  /\ \A k \in 1 .. 6 : Main[16 + k] = Destructors[k]
  <1> DEFINE loop == <<<<"Loop">>>>
             first == StartUp \o <<loop>>
             most == first \o ShutDown
             all == most \o Destructors
  <1>1. /\ StartUp \in Seq(Method) /\ Len(StartUp) = 11 /\ loop \in Method
        /\ ShutDown \in Seq(Method) /\ Len(ShutDown) = 4
        /\ Destructors \in Seq(Method) /\ Len(Destructors) = 6
    BY StartUpPlaces, ShutDownPlaces, DestructorPlaces, MethodsAreMethods
  <1> HIDE DEF loop
  <1>2. /\ first \in Seq(Method) /\ Len(first) = Len(StartUp) + 1
        /\ \A k \in 1 .. Len(StartUp) : first[k] = StartUp[k]
        /\ first[Len(StartUp) + 1] = loop
    BY <1>1, Appended, Zenon
  <1> HIDE DEF first
  <1>3. /\ most \in Seq(Method) /\ Len(most) = Len(first) + Len(ShutDown)
        /\ \A k \in 1 .. Len(first) : most[k] = first[k]
        /\ \A k \in 1 .. Len(ShutDown) : most[Len(first) + k] = ShutDown[k]
    <2>1. first \in Seq(Method) /\ ShutDown \in Seq(Method)
      BY <1>1, <1>2
    <2> QED BY <2>1, Joined
  <1> HIDE DEF most
  <1>4. /\ all \in Seq(Method) /\ Len(all) = Len(most) + Len(Destructors)
        /\ \A k \in 1 .. Len(most) : all[k] = most[k]
        /\ \A k \in 1 .. Len(Destructors) : all[Len(most) + k] = Destructors[k]
    <2>1. most \in Seq(Method) /\ Destructors \in Seq(Method)
      BY <1>1, <1>3
    <2> QED BY <2>1, Joined
  <1>5. Main = all
    BY DEF Main, all, most, first, loop
  <1> HIDE DEF all
  <1>6. Len(first) = 12 /\ Len(most) = 16 /\ Len(all) = 22
    BY <1>1, <1>2, <1>3, <1>4
  <1>7. \A k \in 1 .. 11 : all[k] = StartUp[k]
    <2>1. ASSUME NEW k \in 1 .. 11
          PROVE  all[k] = StartUp[k]
      <3>1. k \in 1 .. 11 /\ k \in 1 .. 12 /\ k \in 1 .. 16
        OBVIOUS
      <3>2. first[k] = StartUp[k]
        BY <3>1, <1>1, <1>2
      <3>3. most[k] = first[k]
        BY <3>1, <1>3, <1>6
      <3>4. all[k] = most[k]
        BY <3>1, <1>4, <1>6
      <3> QED BY <3>2, <3>3, <3>4
    <2> QED BY <2>1
  <1>8. all[12] = loop
    BY <1>1, <1>2, <1>3, <1>4, <1>6
  <1>9. \A k \in 1 .. 4 : all[12 + k] = ShutDown[k]
    <2>1. \A k \in 1 .. 4 : 12 + k \in 1 .. 16 /\ most[12 + k] = ShutDown[k]
      BY <1>1, <1>3, <1>6
    <2> QED BY <2>1, <1>4, <1>6
  <1>10. \A k \in 1 .. 6 : all[16 + k] = Destructors[k]
    BY <1>1, <1>4, <1>6
  <1> QED BY <1>4, <1>5, <1>6, <1>7, <1>8, <1>9, <1>10 DEF Methods, loop

\* The steps of every method.
LEMMA StepsOfMain ==
  /\ Len(Main[1]) = 4 /\ Main[1][1] = Make("velPointer") /\ Main[1][2] = Make("ctlPointer")
  /\ Main[1][3] = Make("sportBridge") /\ Main[1][4] = Make("switcherBridge")
  /\ Len(Main[2]) = 3 /\ Main[2][1] = ReturnIf("sportInitialized")
  /\ Main[2][2] = Make("factory") /\ Main[2][3] = Make("sportInitialized")
  /\ Len(Main[3]) = 3 /\ Main[3][1] = ReturnIf("switcherInitialized")
  /\ Main[3][2] = Make("factory") /\ Main[3][3] = Make("switcherInitialized")
  /\ Len(Main[4]) = 2 /\ Main[4][1] = ReturnIf("velChannel")
  /\ Main[4][2] = Make("velChannel")
  /\ Len(Main[5]) = 2 /\ Main[5][1] = ReturnIf("ctlChannel")
  /\ Main[5][2] = Make("ctlChannel")
  /\ Len(Main[6]) = 2 /\ Main[6][1] = ReturnIf("resetChannel")
  /\ Main[6][2] = Make("resetChannel")
  /\ Len(Main[7]) = 2 /\ Main[7][1] = Make("sportHandlers")
  /\ Main[7][2] = Make("switcherHandlers")
  /\ Len(Main[8]) = 3 /\ Main[8][1] = ReturnIf("sportInitialized")
  /\ Main[8][2] = Make("factory") /\ Main[8][3] = Make("sportInitialized")
  /\ Len(Main[9]) = 3 /\ Main[9][1] = ReturnIf("sportStarted") /\ Main[9][2] = Make("stub")
  /\ Main[9][3] = Make("sportStarted")
  /\ Len(Main[10]) = 3 /\ Main[10][1] = ReturnIf("switcherInitialized")
  /\ Main[10][2] = Make("factory") /\ Main[10][3] = Make("switcherInitialized")
  /\ Len(Main[11]) = 4 /\ Main[11][1] = ReturnIf("switcherStarted")
  /\ Main[11][2] = Make("responseChannel") /\ Main[11][3] = Make("requestChannel")
  /\ Main[11][4] = Make("switcherStarted")
  /\ Len(Main[12]) = 1 /\ Main[12][1] = <<"Loop">>
  /\ Len(Main[13]) = 3 /\ Main[13][1] = Drop("stub") /\ Main[13][2] = Await("sport")
  /\ Main[13][3] = Drop("sportStarted")
  /\ Len(Main[14]) = 3 /\ Main[14][1] = ReturnUnless("requestChannel")
  /\ Main[14][2] = Drop("requestChannel") /\ Main[14][3] = Await("switcher")
  /\ Len(Main[15]) = 2 /\ Main[15][1] = Drop("responseChannel")
  /\ Main[15][2] = Drop("switcherStarted")
  /\ Len(Main[16]) = 2 /\ Main[16][1] = Drop("velPointer")
  /\ Main[16][2] = Drop("ctlPointer")
  /\ Len(Main[17]) = 3 /\ Main[17][1] = ReturnUnless("resetChannel")
  /\ Main[17][2] = Drop("resetChannel") /\ Main[17][3] = Await("reset")
  /\ Len(Main[18]) = 3 /\ Main[18][1] = ReturnUnless("requestChannel")
  /\ Main[18][2] = Drop("requestChannel") /\ Main[18][3] = Await("switcher")
  /\ Len(Main[19]) = 2 /\ Main[19][1] = Drop("responseChannel")
  /\ Main[19][2] = Drop("switcherStarted")
  /\ Len(Main[20]) = 3 /\ Main[20][1] = Drop("switcherHandlers")
  /\ Main[20][2] = Drop("switcherBridge") /\ Main[20][3] = Drop("switcherInitialized")
  /\ Len(Main[21]) = 3 /\ Main[21][1] = Drop("stub") /\ Main[21][2] = Await("sport")
  /\ Main[21][3] = Drop("sportStarted")
  /\ Len(Main[22]) = 3 /\ Main[22][1] = Drop("sportHandlers")
  /\ Main[22][2] = Drop("sportBridge") /\ Main[22][3] = Drop("sportInitialized")
  <1>1. /\ Main[1] = StartUp[1] /\ Main[2] = SportInit /\ Main[3] = SwitcherInit
        /\ Main[4] = CmdVelInitChannel /\ Main[5] = CmdCtlInitChannel
        /\ Main[6] = ResetInitChannel /\ Main[7] = StartUp[7] /\ Main[8] = SportInit
        /\ Main[9] = StartUp[9] /\ Main[10] = SwitcherInit /\ Main[11] = StartUp[11]
    <2>1. /\ Main[1] = StartUp[1] /\ Main[2] = StartUp[2] /\ Main[3] = StartUp[3]
          /\ Main[4] = StartUp[4] /\ Main[5] = StartUp[5] /\ Main[6] = StartUp[6]
          /\ Main[7] = StartUp[7] /\ Main[8] = StartUp[8] /\ Main[9] = StartUp[9]
          /\ Main[10] = StartUp[10] /\ Main[11] = StartUp[11]
      BY MainPlaces
    <2>2. /\ StartUp[2] = SportInit /\ StartUp[3] = SwitcherInit
          /\ StartUp[4] = CmdVelInitChannel /\ StartUp[5] = CmdCtlInitChannel
          /\ StartUp[6] = ResetInitChannel /\ StartUp[8] = SportInit
          /\ StartUp[10] = SwitcherInit
      BY StartUpPlaces, Zenon
    <2> QED BY <2>1, <2>2
  <1>2. /\ Main[13] = ShutDown[1] /\ Main[14] = ShutDown[2] /\ Main[15] = ShutDown[3]
        /\ Main[16] = ShutDown[4] /\ Main[17] = ResetCloseChannel /\ Main[18] = ShutDown[2]
        /\ Main[19] = ShutDown[3] /\ Main[20] = Destructors[4] /\ Main[21] = ShutDown[1]
        /\ Main[22] = Destructors[6]
    <2>1. /\ Main[12 + 1] = ShutDown[1] /\ Main[12 + 2] = ShutDown[2]
          /\ Main[12 + 3] = ShutDown[3] /\ Main[12 + 4] = ShutDown[4]
          /\ Main[16 + 1] = Destructors[1] /\ Main[16 + 2] = Destructors[2]
          /\ Main[16 + 3] = Destructors[3] /\ Main[16 + 4] = Destructors[4]
          /\ Main[16 + 5] = Destructors[5] /\ Main[16 + 6] = Destructors[6]
      BY MainPlaces
    <2> QED BY <2>1, ShutDownPlaces, DestructorPlaces
  <1>3. /\ Len(Main[1]) = 4 /\ Main[1][1] = Make("velPointer")
        /\ Main[1][2] = Make("ctlPointer") /\ Main[1][3] = Make("sportBridge")
        /\ Main[1][4] = Make("switcherBridge")
    BY <1>1, StartUpPlaces
  <1>4. /\ Len(Main[2]) = 3 /\ Main[2][1] = ReturnIf("sportInitialized")
        /\ Main[2][2] = Make("factory") /\ Main[2][3] = Make("sportInitialized")
    BY <1>1, InitPlaces
  <1>5. /\ Len(Main[3]) = 3 /\ Main[3][1] = ReturnIf("switcherInitialized")
        /\ Main[3][2] = Make("factory") /\ Main[3][3] = Make("switcherInitialized")
    BY <1>1, InitPlaces
  <1>6. /\ Len(Main[4]) = 2 /\ Main[4][1] = ReturnIf("velChannel")
        /\ Main[4][2] = Make("velChannel")
    BY <1>1 DEF CmdVelInitChannel
  <1>7. /\ Len(Main[5]) = 2 /\ Main[5][1] = ReturnIf("ctlChannel")
        /\ Main[5][2] = Make("ctlChannel")
    BY <1>1 DEF CmdCtlInitChannel
  <1>8. /\ Len(Main[6]) = 2 /\ Main[6][1] = ReturnIf("resetChannel")
        /\ Main[6][2] = Make("resetChannel")
    BY <1>1 DEF ResetInitChannel
  <1>9. /\ Len(Main[7]) = 2 /\ Main[7][1] = Make("sportHandlers")
        /\ Main[7][2] = Make("switcherHandlers")
    BY <1>1, StartUpPlaces
  <1>10. /\ Len(Main[8]) = 3 /\ Main[8][1] = ReturnIf("sportInitialized")
        /\ Main[8][2] = Make("factory") /\ Main[8][3] = Make("sportInitialized")
    BY <1>1, InitPlaces
  <1>11. /\ Len(Main[9]) = 3 /\ Main[9][1] = ReturnIf("sportStarted")
        /\ Main[9][2] = Make("stub") /\ Main[9][3] = Make("sportStarted")
    BY <1>1, StartUpPlaces
  <1>12. /\ Len(Main[10]) = 3 /\ Main[10][1] = ReturnIf("switcherInitialized")
        /\ Main[10][2] = Make("factory") /\ Main[10][3] = Make("switcherInitialized")
    BY <1>1, InitPlaces
  <1>13. /\ Len(Main[11]) = 4 /\ Main[11][1] = ReturnIf("switcherStarted")
        /\ Main[11][2] = Make("responseChannel") /\ Main[11][3] = Make("requestChannel")
        /\ Main[11][4] = Make("switcherStarted")
    BY <1>1, StartUpPlaces
  <1>14. /\ Len(Main[12]) = 1 /\ Main[12][1] = <<"Loop">>
    BY MainPlaces
  <1>15. /\ Len(Main[13]) = 3 /\ Main[13][1] = Drop("stub") /\ Main[13][2] = Await("sport")
        /\ Main[13][3] = Drop("sportStarted")
    BY <1>2, ShutDownPlaces
  <1>16. /\ Len(Main[14]) = 3 /\ Main[14][1] = ReturnUnless("requestChannel")
        /\ Main[14][2] = Drop("requestChannel") /\ Main[14][3] = Await("switcher")
    BY <1>2, ShutDownPlaces DEF CloseChannel
  <1>17. /\ Len(Main[15]) = 2 /\ Main[15][1] = Drop("responseChannel")
        /\ Main[15][2] = Drop("switcherStarted")
    BY <1>2, ShutDownPlaces
  <1>18. /\ Len(Main[16]) = 2 /\ Main[16][1] = Drop("velPointer")
        /\ Main[16][2] = Drop("ctlPointer")
    BY <1>2, ShutDownPlaces
  <1>19. /\ Len(Main[17]) = 3 /\ Main[17][1] = ReturnUnless("resetChannel")
        /\ Main[17][2] = Drop("resetChannel") /\ Main[17][3] = Await("reset")
    BY <1>2 DEF ResetCloseChannel, CloseChannel
  <1>20. /\ Len(Main[18]) = 3 /\ Main[18][1] = ReturnUnless("requestChannel")
        /\ Main[18][2] = Drop("requestChannel") /\ Main[18][3] = Await("switcher")
    BY <1>2, ShutDownPlaces DEF CloseChannel
  <1>21. /\ Len(Main[19]) = 2 /\ Main[19][1] = Drop("responseChannel")
        /\ Main[19][2] = Drop("switcherStarted")
    BY <1>2, ShutDownPlaces
  <1>22. /\ Len(Main[20]) = 3 /\ Main[20][1] = Drop("switcherHandlers")
        /\ Main[20][2] = Drop("switcherBridge") /\ Main[20][3] = Drop("switcherInitialized")
    BY <1>2, DestructorPlaces
  <1>23. /\ Len(Main[21]) = 3 /\ Main[21][1] = Drop("stub") /\ Main[21][2] = Await("sport")
        /\ Main[21][3] = Drop("sportStarted")
    BY <1>2, ShutDownPlaces
  <1>24. /\ Len(Main[22]) = 3 /\ Main[22][1] = Drop("sportHandlers")
        /\ Main[22][2] = Drop("sportBridge") /\ Main[22][3] = Drop("sportInitialized")
    BY <1>2, DestructorPlaces
  <1> QED BY <1>3, <1>4, <1>5, <1>6, <1>7, <1>8, <1>9, <1>10, <1>11, <1>12, <1>13, <1>14,
              <1>15, <1>16, <1>17, <1>18, <1>19, <1>20, <1>21, <1>22, <1>23, <1>24

\* The lifetimes, one by one.
LEMMA ExistingIs ==
  \A n \in Nat, thing \in Things :
    thing \in Existing(n) <=>
      \/ thing = "factory" /\ 23 <= n /\ n <= 231
      \/ thing = "velPointer" /\ 12 <= n /\ n <= 161
      \/ thing = "ctlPointer" /\ 13 <= n /\ n <= 162
      \/ thing = "sportBridge" /\ 14 <= n /\ n <= 222
      \/ thing = "switcherBridge" /\ 21 <= n /\ n <= 202
      \/ thing = "sportInitialized" /\ 31 <= n /\ n <= 223
      \/ thing = "switcherInitialized" /\ 41 <= n /\ n <= 203
      \/ thing = "velChannel" /\ 51 <= n /\ n <= 221
      \/ thing = "ctlChannel" /\ 61 <= n /\ n <= 221
      \/ thing = "resetChannel" /\ 71 <= n /\ n <= 172
      \/ thing = "sportHandlers" /\ 72 <= n /\ n <= 221
      \/ thing = "switcherHandlers" /\ 81 <= n /\ n <= 201
      \/ thing = "stub" /\ 93 <= n /\ n <= 131
      \/ thing = "sportStarted" /\ 101 <= n /\ n <= 133
      \/ thing = "responseChannel" /\ 113 <= n /\ n <= 151
      \/ thing = "requestChannel" /\ 114 <= n /\ n <= 142
      \/ thing = "switcherStarted" /\ 121 <= n /\ n <= 152
  BY TheThings DEF Existing, Lifetime, TheEnd, Place, Methods

LEMMA CallTimeIs ==
  /\ CallTime["sport"] = 93 .. 132 /\ CallTime["switcher"] = 114 .. 143
  /\ CallTime["reset"] = 71 .. 173
  BY DEF CallTime

\* A channel goes with its last owner.
LEMMA WithoutIs ==
  ASSUME NEW S
  PROVE  \A thing : thing \in Without(S) <=>
           /\ thing \in S
           /\ thing = "velChannel" =>
                "velPointer" \in S \/ "sportHandlers" \in S \/ "switcherHandlers" \in S
           /\ thing = "ctlChannel" => "ctlPointer" \in S \/ "sportHandlers" \in S
  BY DEF Without, Owners

\* How each kind of step comes to fit.
LEMMA MakeFits ==
  \A thing \in Things : \A n, m, e : Makes(thing, n, m) => Fits(Make(thing), n, m, e)
  BY Zenon DEF Fits

LEMMA DropFits ==
  \A thing \in Things : \A n, m, e : Drops(thing, n, m) => Fits(Drop(thing), n, m, e)
  BY Zenon DEF Fits

LEMMA ReturnIfFits ==
  \A thing \in Things : \A n, m, e :
    (IF thing \in Existing(n) THEN Same(n, e) ELSE Same(n, m)) => Fits(ReturnIf(thing), n, m, e)
  BY Zenon DEF Fits

LEMMA ReturnUnlessFits ==
  \A thing \in Things : \A n, m, e :
    (IF thing \in Existing(n) THEN Same(n, m) ELSE Same(n, e))
      => Fits(ReturnUnless(thing), n, m, e)
  BY Zenon DEF Fits

LEMMA AwaitFits ==
  \A callback \in Callbacks : \A n, m, e :
    Awaits(callback, n, m) => Fits(Await(callback), n, m, e)
  BY Zenon DEF Fits

LEMMA LoopFits == \A n, m, e : Loops(n, m) => Fits(<<"Loop">>, n, m, e)
  BY Zenon DEF Fits

LEMMA EveryStepFits == AllFit
  <1>1. /\ Fits(Make("velPointer"), 11, 12, 21)
        /\ Fits(Make("ctlPointer"), 12, 13, 21)
        /\ Fits(Make("sportBridge"), 13, 14, 21)
        /\ Fits(Make("switcherBridge"), 14, 21, 21)
    <2>1. /\ Makes("velPointer", 11, 12)
          /\ Makes("ctlPointer", 12, 13)
          /\ Makes("sportBridge", 13, 14)
          /\ Makes("switcherBridge", 14, 21)
      BY ExistingIs, CallTimeIs, TheThings
        DEF Makes, SameThings, CallsLast, LoopPlace, Place
    <2>2. /\ "velPointer" \in Things /\ "ctlPointer" \in Things
          /\ "sportBridge" \in Things /\ "switcherBridge" \in Things
      BY TheThings
    <2>3. Fits(Make("velPointer"), 11, 12, 21)
      BY <2>1, <2>2, MakeFits, Zenon
    <2>4. Fits(Make("ctlPointer"), 12, 13, 21)
      BY <2>1, <2>2, MakeFits, Zenon
    <2>5. Fits(Make("sportBridge"), 13, 14, 21)
      BY <2>1, <2>2, MakeFits, Zenon
    <2>6. Fits(Make("switcherBridge"), 14, 21, 21)
      BY <2>1, <2>2, MakeFits, Zenon
    <2> QED BY <2>3, <2>4, <2>5, <2>6
  <1>2. /\ Fits(ReturnIf("sportInitialized"), 21, 22, 31)
        /\ Fits(Make("factory"), 22, 23, 31)
        /\ Fits(Make("sportInitialized"), 23, 31, 31)
    <2>1. /\ (IF "sportInitialized" \in Existing(21) THEN Same(21, 31) ELSE Same(21, 22))
          /\ Makes("factory", 22, 23)
          /\ Makes("sportInitialized", 23, 31)
      BY ExistingIs, CallTimeIs, TheThings
        DEF Makes, Same, SameThings, CallsLast, LoopPlace, Place
    <2>2. /\ "sportInitialized" \in Things /\ "factory" \in Things
      BY TheThings
    <2>3. Fits(ReturnIf("sportInitialized"), 21, 22, 31)
      BY <2>1, <2>2, ReturnIfFits, Zenon
    <2>4. Fits(Make("factory"), 22, 23, 31)
      BY <2>1, <2>2, MakeFits, Zenon
    <2>5. Fits(Make("sportInitialized"), 23, 31, 31)
      BY <2>1, <2>2, MakeFits, Zenon
    <2> QED BY <2>3, <2>4, <2>5
  <1>3. /\ Fits(ReturnIf("switcherInitialized"), 31, 32, 41)
        /\ Fits(Make("factory"), 32, 33, 41)
        /\ Fits(Make("switcherInitialized"), 33, 41, 41)
    <2>1. /\ (IF "switcherInitialized" \in Existing(31) THEN Same(31, 41) ELSE Same(31, 32))
          /\ Makes("factory", 32, 33)
          /\ Makes("switcherInitialized", 33, 41)
      BY ExistingIs, CallTimeIs, TheThings
        DEF Makes, Same, SameThings, CallsLast, LoopPlace, Place
    <2>2. /\ "switcherInitialized" \in Things /\ "factory" \in Things
      BY TheThings
    <2>3. Fits(ReturnIf("switcherInitialized"), 31, 32, 41)
      BY <2>1, <2>2, ReturnIfFits, Zenon
    <2>4. Fits(Make("factory"), 32, 33, 41)
      BY <2>1, <2>2, MakeFits, Zenon
    <2>5. Fits(Make("switcherInitialized"), 33, 41, 41)
      BY <2>1, <2>2, MakeFits, Zenon
    <2> QED BY <2>3, <2>4, <2>5
  <1>4. /\ Fits(ReturnIf("velChannel"), 41, 42, 51)
        /\ Fits(Make("velChannel"), 42, 51, 51)
    <2>1. /\ (IF "velChannel" \in Existing(41) THEN Same(41, 51) ELSE Same(41, 42))
          /\ Makes("velChannel", 42, 51)
      BY ExistingIs, CallTimeIs, TheThings
        DEF Makes, Same, SameThings, CallsLast, LoopPlace, Place
    <2>2. /\ "velChannel" \in Things
      BY TheThings
    <2>3. Fits(ReturnIf("velChannel"), 41, 42, 51)
      BY <2>1, <2>2, ReturnIfFits, Zenon
    <2>4. Fits(Make("velChannel"), 42, 51, 51)
      BY <2>1, <2>2, MakeFits, Zenon
    <2> QED BY <2>3, <2>4
  <1>5. /\ Fits(ReturnIf("ctlChannel"), 51, 52, 61)
        /\ Fits(Make("ctlChannel"), 52, 61, 61)
    <2>1. /\ (IF "ctlChannel" \in Existing(51) THEN Same(51, 61) ELSE Same(51, 52))
          /\ Makes("ctlChannel", 52, 61)
      BY ExistingIs, CallTimeIs, TheThings
        DEF Makes, Same, SameThings, CallsLast, LoopPlace, Place
    <2>2. /\ "ctlChannel" \in Things
      BY TheThings
    <2>3. Fits(ReturnIf("ctlChannel"), 51, 52, 61)
      BY <2>1, <2>2, ReturnIfFits, Zenon
    <2>4. Fits(Make("ctlChannel"), 52, 61, 61)
      BY <2>1, <2>2, MakeFits, Zenon
    <2> QED BY <2>3, <2>4
  <1>6. /\ Fits(ReturnIf("resetChannel"), 61, 62, 71)
        /\ Fits(Make("resetChannel"), 62, 71, 71)
    <2>1. /\ (IF "resetChannel" \in Existing(61) THEN Same(61, 71) ELSE Same(61, 62))
          /\ Makes("resetChannel", 62, 71)
      BY ExistingIs, CallTimeIs, TheThings
        DEF Makes, Same, SameThings, CallsLast, LoopPlace, Place
    <2>2. /\ "resetChannel" \in Things
      BY TheThings
    <2>3. Fits(ReturnIf("resetChannel"), 61, 62, 71)
      BY <2>1, <2>2, ReturnIfFits, Zenon
    <2>4. Fits(Make("resetChannel"), 62, 71, 71)
      BY <2>1, <2>2, MakeFits, Zenon
    <2> QED BY <2>3, <2>4
  <1>7. /\ Fits(Make("sportHandlers"), 71, 72, 81)
        /\ Fits(Make("switcherHandlers"), 72, 81, 81)
    <2>1. /\ Makes("sportHandlers", 71, 72)
          /\ Makes("switcherHandlers", 72, 81)
      BY ExistingIs, CallTimeIs, TheThings
        DEF Makes, SameThings, CallsLast, LoopPlace, Place
    <2>2. /\ "sportHandlers" \in Things /\ "switcherHandlers" \in Things
      BY TheThings
    <2>3. Fits(Make("sportHandlers"), 71, 72, 81)
      BY <2>1, <2>2, MakeFits, Zenon
    <2>4. Fits(Make("switcherHandlers"), 72, 81, 81)
      BY <2>1, <2>2, MakeFits, Zenon
    <2> QED BY <2>3, <2>4
  <1>8. /\ Fits(ReturnIf("sportInitialized"), 81, 82, 91)
        /\ Fits(Make("factory"), 82, 83, 91)
        /\ Fits(Make("sportInitialized"), 83, 91, 91)
    <2>1. /\ (IF "sportInitialized" \in Existing(81) THEN Same(81, 91) ELSE Same(81, 82))
          /\ Makes("factory", 82, 83)
          /\ Makes("sportInitialized", 83, 91)
      BY ExistingIs, CallTimeIs, TheThings
        DEF Makes, Same, SameThings, CallsLast, LoopPlace, Place
    <2>2. /\ "sportInitialized" \in Things /\ "factory" \in Things
      BY TheThings
    <2>3. Fits(ReturnIf("sportInitialized"), 81, 82, 91)
      BY <2>1, <2>2, ReturnIfFits, Zenon
    <2>4. Fits(Make("factory"), 82, 83, 91)
      BY <2>1, <2>2, MakeFits, Zenon
    <2>5. Fits(Make("sportInitialized"), 83, 91, 91)
      BY <2>1, <2>2, MakeFits, Zenon
    <2> QED BY <2>3, <2>4, <2>5
  <1>9. /\ Fits(ReturnIf("sportStarted"), 91, 92, 101)
        /\ Fits(Make("stub"), 92, 93, 101)
        /\ Fits(Make("sportStarted"), 93, 101, 101)
    <2>1. /\ (IF "sportStarted" \in Existing(91) THEN Same(91, 101) ELSE Same(91, 92))
          /\ Makes("stub", 92, 93)
          /\ Makes("sportStarted", 93, 101)
      BY ExistingIs, CallTimeIs, TheThings
        DEF Makes, Same, SameThings, CallsLast, LoopPlace, Place
    <2>2. /\ "sportStarted" \in Things /\ "stub" \in Things
      BY TheThings
    <2>3. Fits(ReturnIf("sportStarted"), 91, 92, 101)
      BY <2>1, <2>2, ReturnIfFits, Zenon
    <2>4. Fits(Make("stub"), 92, 93, 101)
      BY <2>1, <2>2, MakeFits, Zenon
    <2>5. Fits(Make("sportStarted"), 93, 101, 101)
      BY <2>1, <2>2, MakeFits, Zenon
    <2> QED BY <2>3, <2>4, <2>5
  <1>10. /\ Fits(ReturnIf("switcherInitialized"), 101, 102, 111)
         /\ Fits(Make("factory"), 102, 103, 111)
         /\ Fits(Make("switcherInitialized"), 103, 111, 111)
    <2>1. /\ (IF "switcherInitialized" \in Existing(101) THEN Same(101, 111) ELSE Same(101, 102))
          /\ Makes("factory", 102, 103)
          /\ Makes("switcherInitialized", 103, 111)
      BY ExistingIs, CallTimeIs, TheThings
        DEF Makes, Same, SameThings, CallsLast, LoopPlace, Place
    <2>2. /\ "switcherInitialized" \in Things /\ "factory" \in Things
      BY TheThings
    <2>3. Fits(ReturnIf("switcherInitialized"), 101, 102, 111)
      BY <2>1, <2>2, ReturnIfFits, Zenon
    <2>4. Fits(Make("factory"), 102, 103, 111)
      BY <2>1, <2>2, MakeFits, Zenon
    <2>5. Fits(Make("switcherInitialized"), 103, 111, 111)
      BY <2>1, <2>2, MakeFits, Zenon
    <2> QED BY <2>3, <2>4, <2>5
  <1>11. /\ Fits(ReturnIf("switcherStarted"), 111, 112, 121)
         /\ Fits(Make("responseChannel"), 112, 113, 121)
         /\ Fits(Make("requestChannel"), 113, 114, 121)
         /\ Fits(Make("switcherStarted"), 114, 121, 121)
    <2>1. /\ (IF "switcherStarted" \in Existing(111) THEN Same(111, 121) ELSE Same(111, 112))
          /\ Makes("responseChannel", 112, 113)
          /\ Makes("requestChannel", 113, 114)
          /\ Makes("switcherStarted", 114, 121)
      BY ExistingIs, CallTimeIs, TheThings
        DEF Makes, Same, SameThings, CallsLast, LoopPlace, Place
    <2>2. /\ "switcherStarted" \in Things /\ "responseChannel" \in Things
          /\ "requestChannel" \in Things
      BY TheThings
    <2>3. Fits(ReturnIf("switcherStarted"), 111, 112, 121)
      BY <2>1, <2>2, ReturnIfFits, Zenon
    <2>4. Fits(Make("responseChannel"), 112, 113, 121)
      BY <2>1, <2>2, MakeFits, Zenon
    <2>5. Fits(Make("requestChannel"), 113, 114, 121)
      BY <2>1, <2>2, MakeFits, Zenon
    <2>6. Fits(Make("switcherStarted"), 114, 121, 121)
      BY <2>1, <2>2, MakeFits, Zenon
    <2> QED BY <2>3, <2>4, <2>5, <2>6
  <1>12. /\ Fits(<<"Loop">>, 121, 131, 131)
    <2>1. /\ Loops(121, 131)
      BY ExistingIs, CallTimeIs, TheThings
        DEF Loops, SameThings, CallsLast, LoopPlace, Place
    <2> QED BY <2>1, LoopFits, Zenon
  <1>13. /\ Fits(Drop("stub"), 131, 132, 141)
         /\ Fits(Await("sport"), 132, 133, 141)
         /\ Fits(Drop("sportStarted"), 133, 141, 141)
    <2>1. /\ Drops("stub", 131, 132)
          /\ Awaits("sport", 132, 133)
          /\ Drops("sportStarted", 133, 141)
      BY ExistingIs, CallTimeIs, TheThings, WithoutIs
        DEF Drops, Awaits, SameThings, CallsLast, LoopPlace, Place
    <2>2. /\ "stub" \in Things /\ "sportStarted" \in Things
          /\ "sport" \in Callbacks
      BY TheThings
    <2>3. Fits(Drop("stub"), 131, 132, 141)
      BY <2>1, <2>2, DropFits, Zenon
    <2>4. Fits(Await("sport"), 132, 133, 141)
      BY <2>1, <2>2, AwaitFits, Zenon
    <2>5. Fits(Drop("sportStarted"), 133, 141, 141)
      BY <2>1, <2>2, DropFits, Zenon
    <2> QED BY <2>3, <2>4, <2>5
  <1>14. /\ Fits(ReturnUnless("requestChannel"), 141, 142, 151)
         /\ Fits(Drop("requestChannel"), 142, 143, 151)
         /\ Fits(Await("switcher"), 143, 151, 151)
    <2>1. /\ (IF "requestChannel" \in Existing(141) THEN Same(141, 142) ELSE Same(141, 151))
          /\ Drops("requestChannel", 142, 143)
          /\ Awaits("switcher", 143, 151)
      BY ExistingIs, CallTimeIs, TheThings, WithoutIs
        DEF Drops, Same, Awaits, SameThings, CallsLast, LoopPlace, Place
    <2>2. /\ "requestChannel" \in Things /\ "switcher" \in Callbacks
      BY TheThings
    <2>3. Fits(ReturnUnless("requestChannel"), 141, 142, 151)
      BY <2>1, <2>2, ReturnUnlessFits, Zenon
    <2>4. Fits(Drop("requestChannel"), 142, 143, 151)
      BY <2>1, <2>2, DropFits, Zenon
    <2>5. Fits(Await("switcher"), 143, 151, 151)
      BY <2>1, <2>2, AwaitFits, Zenon
    <2> QED BY <2>3, <2>4, <2>5
  <1>15. /\ Fits(Drop("responseChannel"), 151, 152, 161)
         /\ Fits(Drop("switcherStarted"), 152, 161, 161)
    <2>1. /\ Drops("responseChannel", 151, 152)
          /\ Drops("switcherStarted", 152, 161)
      BY ExistingIs, CallTimeIs, TheThings, WithoutIs
        DEF Drops, SameThings, CallsLast, LoopPlace, Place
    <2>2. /\ "responseChannel" \in Things /\ "switcherStarted" \in Things
      BY TheThings
    <2>3. Fits(Drop("responseChannel"), 151, 152, 161)
      BY <2>1, <2>2, DropFits, Zenon
    <2>4. Fits(Drop("switcherStarted"), 152, 161, 161)
      BY <2>1, <2>2, DropFits, Zenon
    <2> QED BY <2>3, <2>4
  <1>16. /\ Fits(Drop("velPointer"), 161, 162, 171)
         /\ Fits(Drop("ctlPointer"), 162, 171, 171)
    <2>1. /\ Drops("velPointer", 161, 162)
          /\ Drops("ctlPointer", 162, 171)
      BY ExistingIs, CallTimeIs, TheThings, WithoutIs
        DEF Drops, SameThings, CallsLast, LoopPlace, Place
    <2>2. /\ "velPointer" \in Things /\ "ctlPointer" \in Things
      BY TheThings
    <2>3. Fits(Drop("velPointer"), 161, 162, 171)
      BY <2>1, <2>2, DropFits, Zenon
    <2>4. Fits(Drop("ctlPointer"), 162, 171, 171)
      BY <2>1, <2>2, DropFits, Zenon
    <2> QED BY <2>3, <2>4
  <1>17. /\ Fits(ReturnUnless("resetChannel"), 171, 172, 181)
         /\ Fits(Drop("resetChannel"), 172, 173, 181)
         /\ Fits(Await("reset"), 173, 181, 181)
    <2>1. /\ (IF "resetChannel" \in Existing(171) THEN Same(171, 172) ELSE Same(171, 181))
          /\ Drops("resetChannel", 172, 173)
          /\ Awaits("reset", 173, 181)
      BY ExistingIs, CallTimeIs, TheThings, WithoutIs
        DEF Drops, Same, Awaits, SameThings, CallsLast, LoopPlace, Place
    <2>2. /\ "resetChannel" \in Things /\ "reset" \in Callbacks
      BY TheThings
    <2>3. Fits(ReturnUnless("resetChannel"), 171, 172, 181)
      BY <2>1, <2>2, ReturnUnlessFits, Zenon
    <2>4. Fits(Drop("resetChannel"), 172, 173, 181)
      BY <2>1, <2>2, DropFits, Zenon
    <2>5. Fits(Await("reset"), 173, 181, 181)
      BY <2>1, <2>2, AwaitFits, Zenon
    <2> QED BY <2>3, <2>4, <2>5
  <1>18. /\ Fits(ReturnUnless("requestChannel"), 181, 182, 191)
         /\ Fits(Drop("requestChannel"), 182, 183, 191)
         /\ Fits(Await("switcher"), 183, 191, 191)
    <2>1. /\ (IF "requestChannel" \in Existing(181) THEN Same(181, 182) ELSE Same(181, 191))
          /\ Drops("requestChannel", 182, 183)
          /\ Awaits("switcher", 183, 191)
      BY ExistingIs, CallTimeIs, TheThings, WithoutIs
        DEF Drops, Same, Awaits, SameThings, CallsLast, LoopPlace, Place
    <2>2. /\ "requestChannel" \in Things /\ "switcher" \in Callbacks
      BY TheThings
    <2>3. Fits(ReturnUnless("requestChannel"), 181, 182, 191)
      BY <2>1, <2>2, ReturnUnlessFits, Zenon
    <2>4. Fits(Drop("requestChannel"), 182, 183, 191)
      BY <2>1, <2>2, DropFits, Zenon
    <2>5. Fits(Await("switcher"), 183, 191, 191)
      BY <2>1, <2>2, AwaitFits, Zenon
    <2> QED BY <2>3, <2>4, <2>5
  <1>19. /\ Fits(Drop("responseChannel"), 191, 192, 201)
         /\ Fits(Drop("switcherStarted"), 192, 201, 201)
    <2>1. /\ Drops("responseChannel", 191, 192)
          /\ Drops("switcherStarted", 192, 201)
      BY ExistingIs, CallTimeIs, TheThings, WithoutIs
        DEF Drops, SameThings, CallsLast, LoopPlace, Place
    <2>2. /\ "responseChannel" \in Things /\ "switcherStarted" \in Things
      BY TheThings
    <2>3. Fits(Drop("responseChannel"), 191, 192, 201)
      BY <2>1, <2>2, DropFits, Zenon
    <2>4. Fits(Drop("switcherStarted"), 192, 201, 201)
      BY <2>1, <2>2, DropFits, Zenon
    <2> QED BY <2>3, <2>4
  <1>20. /\ Fits(Drop("switcherHandlers"), 201, 202, 211)
         /\ Fits(Drop("switcherBridge"), 202, 203, 211)
         /\ Fits(Drop("switcherInitialized"), 203, 211, 211)
    <2>1. /\ Drops("switcherHandlers", 201, 202)
          /\ Drops("switcherBridge", 202, 203)
          /\ Drops("switcherInitialized", 203, 211)
      BY ExistingIs, CallTimeIs, TheThings, WithoutIs
        DEF Drops, SameThings, CallsLast, LoopPlace, Place
    <2>2. /\ "switcherHandlers" \in Things /\ "switcherBridge" \in Things
          /\ "switcherInitialized" \in Things
      BY TheThings
    <2>3. Fits(Drop("switcherHandlers"), 201, 202, 211)
      BY <2>1, <2>2, DropFits, Zenon
    <2>4. Fits(Drop("switcherBridge"), 202, 203, 211)
      BY <2>1, <2>2, DropFits, Zenon
    <2>5. Fits(Drop("switcherInitialized"), 203, 211, 211)
      BY <2>1, <2>2, DropFits, Zenon
    <2> QED BY <2>3, <2>4, <2>5
  <1>21. /\ Fits(Drop("stub"), 211, 212, 221)
         /\ Fits(Await("sport"), 212, 213, 221)
         /\ Fits(Drop("sportStarted"), 213, 221, 221)
    <2>1. /\ Drops("stub", 211, 212)
          /\ Awaits("sport", 212, 213)
          /\ Drops("sportStarted", 213, 221)
      BY ExistingIs, CallTimeIs, TheThings, WithoutIs
        DEF Drops, Awaits, SameThings, CallsLast, LoopPlace, Place
    <2>2. /\ "stub" \in Things /\ "sportStarted" \in Things
          /\ "sport" \in Callbacks
      BY TheThings
    <2>3. Fits(Drop("stub"), 211, 212, 221)
      BY <2>1, <2>2, DropFits, Zenon
    <2>4. Fits(Await("sport"), 212, 213, 221)
      BY <2>1, <2>2, AwaitFits, Zenon
    <2>5. Fits(Drop("sportStarted"), 213, 221, 221)
      BY <2>1, <2>2, DropFits, Zenon
    <2> QED BY <2>3, <2>4, <2>5
  <1>22. /\ Fits(Drop("sportHandlers"), 221, 222, 231)
         /\ Fits(Drop("sportBridge"), 222, 223, 231)
         /\ Fits(Drop("sportInitialized"), 223, 231, 231)
    <2>1. /\ Drops("sportHandlers", 221, 222)
          /\ Drops("sportBridge", 222, 223)
          /\ Drops("sportInitialized", 223, 231)
      BY ExistingIs, CallTimeIs, TheThings, WithoutIs
        DEF Drops, SameThings, CallsLast, LoopPlace, Place
    <2>2. /\ "sportHandlers" \in Things /\ "sportBridge" \in Things
          /\ "sportInitialized" \in Things
      BY TheThings
    <2>3. Fits(Drop("sportHandlers"), 221, 222, 231)
      BY <2>1, <2>2, DropFits, Zenon
    <2>4. Fits(Drop("sportBridge"), 222, 223, 231)
      BY <2>1, <2>2, DropFits, Zenon
    <2>5. Fits(Drop("sportInitialized"), 223, 231, 231)
      BY <2>1, <2>2, DropFits, Zenon
    <2> QED BY <2>3, <2>4, <2>5
  <1>23. ASSUME NEW i \in 1 .. Methods, NEW j \in 1 .. Len(Main[i])
         PROVE  Fits(Main[i][j], Place(i, j), After(i, j), Place(i + 1, 1))
    <2>1. CASE i = 1
      BY <1>1, <2>1, StepsOfMain DEF Place, After
    <2>2. CASE i = 2
      BY <1>2, <2>2, StepsOfMain DEF Place, After
    <2>3. CASE i = 3
      BY <1>3, <2>3, StepsOfMain DEF Place, After
    <2>4. CASE i = 4
      BY <1>4, <2>4, StepsOfMain DEF Place, After
    <2>5. CASE i = 5
      BY <1>5, <2>5, StepsOfMain DEF Place, After
    <2>6. CASE i = 6
      BY <1>6, <2>6, StepsOfMain DEF Place, After
    <2>7. CASE i = 7
      BY <1>7, <2>7, StepsOfMain DEF Place, After
    <2>8. CASE i = 8
      BY <1>8, <2>8, StepsOfMain DEF Place, After
    <2>9. CASE i = 9
      BY <1>9, <2>9, StepsOfMain DEF Place, After
    <2>10. CASE i = 10
      BY <1>10, <2>10, StepsOfMain DEF Place, After
    <2>11. CASE i = 11
      BY <1>11, <2>11, StepsOfMain DEF Place, After
    <2>12. CASE i = 12
      BY <1>12, <2>12, StepsOfMain DEF Place, After
    <2>13. CASE i = 13
      BY <1>13, <2>13, StepsOfMain DEF Place, After
    <2>14. CASE i = 14
      BY <1>14, <2>14, StepsOfMain DEF Place, After
    <2>15. CASE i = 15
      BY <1>15, <2>15, StepsOfMain DEF Place, After
    <2>16. CASE i = 16
      BY <1>16, <2>16, StepsOfMain DEF Place, After
    <2>17. CASE i = 17
      BY <1>17, <2>17, StepsOfMain DEF Place, After
    <2>18. CASE i = 18
      BY <1>18, <2>18, StepsOfMain DEF Place, After
    <2>19. CASE i = 19
      BY <1>19, <2>19, StepsOfMain DEF Place, After
    <2>20. CASE i = 20
      BY <1>20, <2>20, StepsOfMain DEF Place, After
    <2>21. CASE i = 21
      BY <1>21, <2>21, StepsOfMain DEF Place, After
    <2>22. CASE i = 22
      BY <1>22, <2>22, StepsOfMain DEF Place, After
    <2> QED BY <2>1, <2>2, <2>3, <2>4, <2>5, <2>6, <2>7, <2>8, <2>9, <2>10, <2>11,
                <2>12, <2>13, <2>14, <2>15, <2>16, <2>17, <2>18, <2>19, <2>20, <2>21, <2>22 DEF Methods
  <1> QED BY <1>23 DEF AllFit

-----------------------------------------------------------------------------
(* The rest of main, step by step.                                         *)

LEMMA LengthsOfMain == \A i \in 1 .. 22 : Len(Main[i]) # 0
  <1>1. /\ Len(Main[1]) = 4 /\ Len(Main[2]) = 3 /\ Len(Main[3]) = 3 /\ Len(Main[4]) = 2
        /\ Len(Main[5]) = 2 /\ Len(Main[6]) = 2 /\ Len(Main[7]) = 2 /\ Len(Main[8]) = 3
        /\ Len(Main[9]) = 3 /\ Len(Main[10]) = 3 /\ Len(Main[11]) = 4 /\ Len(Main[12]) = 1
        /\ Len(Main[13]) = 3 /\ Len(Main[14]) = 3 /\ Len(Main[15]) = 2 /\ Len(Main[16]) = 2
        /\ Len(Main[17]) = 3 /\ Len(Main[18]) = 3 /\ Len(Main[19]) = 2 /\ Len(Main[20]) = 3
        /\ Len(Main[21]) = 3 /\ Len(Main[22]) = 3
    BY StepsOfMain, Zenon
  <1>2. /\ Len(Main[1]) # 0 /\ Len(Main[2]) # 0 /\ Len(Main[3]) # 0 /\ Len(Main[4]) # 0
        /\ Len(Main[5]) # 0 /\ Len(Main[6]) # 0 /\ Len(Main[7]) # 0 /\ Len(Main[8]) # 0
        /\ Len(Main[9]) # 0 /\ Len(Main[10]) # 0 /\ Len(Main[11]) # 0 /\ Len(Main[12]) # 0
        /\ Len(Main[13]) # 0 /\ Len(Main[14]) # 0 /\ Len(Main[15]) # 0 /\ Len(Main[16]) # 0
        /\ Len(Main[17]) # 0 /\ Len(Main[18]) # 0 /\ Len(Main[19]) # 0 /\ Len(Main[20]) # 0
        /\ Len(Main[21]) # 0 /\ Len(Main[22]) # 0
    BY <1>1
  <1>3. ASSUME NEW i \in 1 .. 22 PROVE Len(Main[i]) # 0
    <2>1. \/ i = 1 \/ i = 2 \/ i = 3 \/ i = 4 \/ i = 5 \/ i = 6 \/ i = 7 \/ i = 8
          \/ i = 9 \/ i = 10 \/ i = 11 \/ i = 12 \/ i = 13 \/ i = 14 \/ i = 15 \/ i = 16
          \/ i = 17 \/ i = 18 \/ i = 19 \/ i = 20 \/ i = 21 \/ i = 22
      OBVIOUS
    <2> QED BY <1>2, <2>1, Zenon
  <1> QED BY <1>3

LEMMA NoMethodIsEmpty ==
  /\ Main \in Seq(Method) /\ Len(Main) = 22
  /\ \A i \in 1 .. 22 : Main[i] \in Method /\ Len(Main[i]) \in Nat /\ Len(Main[i]) >= 1
  <1>1. Main \in Seq(Method) /\ Len(Main) = 22
    BY MainPlaces DEF Methods
  <1>2. ASSUME NEW i \in 1 .. 22
        PROVE  Main[i] \in Method /\ Len(Main[i]) \in Nat /\ Len(Main[i]) >= 1
    <2>1. Main[i] \in Method
      BY <1>1, ElementOfSeq
    <2>2. Len(Main[i]) # 0
      BY LengthsOfMain
    <2>3. Len(Main[i]) \in Nat
      BY <2>1 DEF Method
    <2> QED BY <2>1, <2>2, <2>3
  <1> QED BY <1>1, <1>2

LEMMA HeadOfRest ==
  ASSUME NEW t, NEW i \in Nat, NEW j \in Nat, Rest(t, i, j), t # <<>>
  PROVE  /\ i \in 1 .. Methods /\ j \in 1 .. Len(Main[i])
         /\ Head(t) \in Method /\ Head(t) # <<>> /\ Head(t) = t[1]
         /\ Len(t[1]) = Len(Main[i]) - j + 1
         /\ Head(Head(t)) = Main[i][j]
  <1>1. t \in Seq(Method) /\ Len(t) \in Nat \ {0} /\ Len(t) = 23 - i /\ i \in 1 .. 23
    BY EmptySeq, LenProperties DEF Rest, Methods
  <1>2. /\ i \in 1 .. 22 /\ j \in 1 .. Len(Main[i]) /\ Len(t[1]) = Len(Main[i]) - j + 1
        /\ \A k \in 1 .. Len(t[1]) : t[1][k] = Main[i][k + j - 1]
    BY <1>1 DEF Rest, Methods
  <1>3. Head(t) = t[1] /\ t[1] \in Method
    BY <1>1, ElementOfSeq
  <1>4. Len(t[1]) \in Nat \ {0} /\ t[1][1] = Main[i][j]
    <2>1. Len(Main[i]) \in Nat
      BY <1>2, NoMethodIsEmpty
    <2>2. Len(t[1]) \in Nat \ {0} /\ 1 \in 1 .. Len(t[1]) /\ 1 + j - 1 = j
      BY <1>2, <2>1
    <2> QED BY <2>2, <1>2
  <1>5. t[1] # <<>> /\ Head(t[1]) = t[1][1]
    BY <1>3, <1>4 DEF Method
  <1> QED BY <1>2, <1>3, <1>4, <1>5 DEF Methods

\* To return is to go on with the next method.
LEMMA RestOfReturn ==
  ASSUME NEW t, NEW i \in Nat, NEW j \in Nat, Rest(t, i, j), t # <<>>
  PROVE  Rest(Tail(t), i + 1, 1)
  <1>1. t \in Seq(Method) /\ Len(t) = 23 - i /\ i \in 1 .. 22
    BY HeadOfRest DEF Rest, Methods
  <1>2. /\ Tail(t) \in Seq(Method) /\ Len(Tail(t)) = Len(t) - 1
        /\ \A k \in 1 .. Len(Tail(t)) : Tail(t)[k] = t[k + 1]
    BY <1>1
  <1>3. \A k \in 2 .. Len(t) : t[k] = Main[k + i - 1]
    BY <1>1 DEF Rest, Methods
  <1>4. ASSUME NEW k \in 1 .. Len(Tail(t))
        PROVE  Tail(t)[k] = Main[k + i]
    <2>1. k + 1 \in 2 .. Len(t) /\ (k + 1) + i - 1 = k + i
      BY <1>1, <1>2
    <2> QED BY <2>1, <1>2, <1>3
  <1>5. CASE i = 22
    BY <1>1, <1>2, <1>5 DEF Rest, Methods
  <1>6. CASE i < 22
    <2>1. i + 1 \in 1 .. 22 /\ Len(Tail(t)) = 22 - i /\ 1 \in 1 .. Len(Tail(t))
      BY <1>1, <1>2, <1>6
    <2>2. Tail(t)[1] = Main[i + 1]
      BY <2>1, <1>1, <1>4
    <2>3. 1 \in 1 .. Len(Main[i + 1]) /\ Len(Main[i + 1]) \in Nat
      <3>1. Len(Main[i + 1]) \in Nat /\ Len(Main[i + 1]) >= 1
        BY <2>1, NoMethodIsEmpty
      <3> QED BY <3>1
    <2>4. \A k \in 2 .. Len(Tail(t)) : Tail(t)[k] = Main[k + (i + 1) - 1]
      BY <1>1, <1>2, <1>4
    <2>5. /\ Len(Tail(t)[1]) = Len(Main[i + 1]) - 1 + 1
          /\ \A k \in 1 .. Len(Tail(t)[1]) : Tail(t)[1][k] = Main[i + 1][k + 1 - 1]
      <3> DEFINE next == Main[i + 1]
      <3>1. Tail(t)[1] = next /\ Len(next) \in Nat
        BY <2>2, <2>3
      <3> HIDE DEF next
      <3>2. Len(next) = Len(next) - 1 + 1 /\ \A k \in 1 .. Len(next) : next[k] = next[k + 1 - 1]
        BY <3>1
      <3>3. /\ Len(Tail(t)[1]) = Len(next) - 1 + 1
            /\ \A k \in 1 .. Len(Tail(t)[1]) : Tail(t)[1][k] = next[k + 1 - 1]
        BY <3>1, <3>2, Zenon
      <3> QED BY <3>3 DEF next
    <2> QED BY <1>2, <2>1, <2>3, <2>4, <2>5 DEF Rest, Methods
  <1> QED BY <1>1, <1>5, <1>6

\* To continue within a method.
LEMMA RestOfStep ==
  ASSUME NEW t, NEW i \in Nat, NEW j \in Nat, Rest(t, i, j), t # <<>>, Len(Head(t)) # 1
  PROVE  j < Len(Main[i]) /\ Rest(<<Tail(Head(t))>> \o Tail(t), i, j + 1)
  <1> DEFINE rest == Tail(Head(t))
             both == <<rest>> \o Tail(t)
  <1>1. /\ t \in Seq(Method) /\ Len(t) = 23 - i /\ i \in 1 .. 22 /\ j \in 1 .. Len(Main[i])
        /\ Head(t) \in Seq(Step) /\ Head(t) = t[1] /\ Head(t) # <<>>
        /\ Len(t[1]) = Len(Main[i]) - j + 1 /\ Len(Main[i]) \in Nat
        /\ \A k \in 1 .. Len(t[1]) : t[1][k] = Main[i][k + j - 1]
        /\ \A k \in 2 .. Len(t) : t[k] = Main[k + i - 1]
    <2>1. i \in 1 .. 22
      BY HeadOfRest DEF Methods
    <2>2. Len(Main[i]) \in Nat
      BY <2>1, NoMethodIsEmpty
    <2>3. t \in Seq(Method) /\ Len(t) = 23 - i
      BY DEF Rest, Methods
    <2>4. /\ \A k \in 1 .. Len(t[1]) : t[1][k] = Main[i][k + j - 1]
          /\ \A k \in 2 .. Len(t) : t[k] = Main[k + i - 1]
      BY <2>1 DEF Rest, Methods
    <2> QED BY <2>1, <2>2, <2>3, <2>4, HeadOfRest DEF Method
  <1>2. /\ rest \in Method /\ Len(rest) = Len(t[1]) - 1
        /\ \A k \in 1 .. Len(rest) : rest[k] = t[1][k + 1]
    BY <1>1 DEF Method
  <1>3. /\ Tail(t) \in Seq(Method) /\ Len(Tail(t)) = Len(t) - 1
        /\ \A k \in 1 .. Len(Tail(t)) : Tail(t)[k] = t[k + 1]
    BY <1>1
  <1> DEFINE one == <<rest>>
             tail == Tail(t)
  <1>4. one \in Seq(Method) /\ Len(one) = 1 /\ one[1] = rest
    BY <1>2
  <1>5. /\ both \in Seq(Method) /\ Len(both) = Len(one) + Len(tail)
        /\ \A k \in 1 .. Len(one) : both[k] = one[k]
        /\ \A k \in 1 .. Len(tail) : both[Len(one) + k] = tail[k]
    <2>1. one \in Seq(Method) /\ tail \in Seq(Method) /\ both = one \o tail
      BY <1>3, <1>4
    <2> HIDE DEF one, tail, both
    <2> QED BY <2>1, Joined
  <1>6. j < Len(Main[i]) /\ j + 1 \in 1 .. Len(Main[i])
    <2> DEFINE all == Len(Main[i])
               left == Len(t[1])
    <2>1. all \in Nat /\ j \in 1 .. all /\ left = all - j + 1 /\ left # 1
      BY <1>1
    <2> HIDE DEF all, left
    <2>2. j < all /\ j + 1 \in 1 .. all
      BY <2>1
    <2> QED BY <2>2 DEF all
  <1> HIDE DEF one, tail, both, rest
  <1>7. Len(tail) = 22 - i /\ \A k \in 1 .. Len(tail) : tail[k] = t[k + 1]
    BY <1>1, <1>3 DEF tail
  <1>8. Len(both) = 23 - i /\ both[1] = rest /\ \A k \in 1 .. Len(tail) : both[1 + k] = tail[k]
    <2>1. Len(t) = 23 - i /\ i \in 1 .. 22 /\ Len(tail) = 22 - i
      BY <1>1, <1>7
    <2>2. Len(both) = 1 + Len(tail) /\ both[1] = one[1]
      BY <1>4, <1>5
    <2>3. \A k \in 1 .. Len(tail) : both[1 + k] = tail[k]
      BY <1>4, <1>5, Zenon
    <2> QED BY <2>1, <2>2, <2>3, <1>4
  <1>9. ASSUME NEW k \in 2 .. Len(both)
        PROVE  both[k] = Main[k + i - 1]
    <2>1. k - 1 \in 1 .. Len(tail) /\ 1 + (k - 1) = k /\ k \in 2 .. Len(t)
      BY <1>1, <1>7, <1>8
    <2>2. both[k] = tail[k - 1] /\ tail[k - 1] = t[k]
      BY <2>1, <1>7, <1>8
    <2> QED BY <2>1, <2>2, <1>1
  <1>10. Len(t[1]) \in Nat
    BY <1>1, LenProperties
  <1>11. ASSUME NEW k \in 1 .. Len(rest)
         PROVE  rest[k] = Main[i][k + (j + 1) - 1]
    <2> DEFINE left == Len(t[1])
    <2>1. left \in Nat /\ Len(rest) = left - 1 /\ j \in Nat
      BY <1>1, <1>2, <1>10
    <2> HIDE DEF left
    <2>2. k + 1 \in 1 .. left /\ (k + 1) + j - 1 = k + (j + 1) - 1
      BY <2>1
    <2> QED BY <2>2, <1>1, <1>2 DEF left
  <1>12. Len(rest) = Len(Main[i]) - (j + 1) + 1
    BY <1>1, <1>2
  <1>13. Rest(both, i, j + 1)
    BY <1>1, <1>5, <1>6, <1>8, <1>9, <1>11, <1>12 DEF Rest, Methods
  <1> QED BY <1>6, <1>13 DEF both, rest

-----------------------------------------------------------------------------
(* The invariant.                                                          *)

LEMMA ThingsAreTheSame ==
  ASSUME NEW S, NEW T, S \subseteq Things, T \subseteq Things, SameThings(S, T)
  PROVE  S = T
  <1>1. \A x : x \in S <=> x \in T
    BY DEF SameThings
  <1> QED BY <1>1

LEMMA NothingElseExists ==
  /\ \A n : Existing(n) \subseteq Things
  /\ \A S : S \subseteq Things => Without(S) \subseteq Things
  BY DEF Existing, Without

\* A callback begins within its time, and one that finds its pointer null finds it
\* so beyond the loop.
LEMMA CallsInTime ==
  ASSUME NEW n \in Nat
  PROVE  /\ "stub" \in Existing(n) => n \in CallTime["sport"]
         /\ "requestChannel" \in Existing(n) => n \in CallTime["switcher"]
         /\ "resetChannel" \in Existing(n) => n \in CallTime["reset"]
         /\ n \in CallTime["sport"] /\ "stub" \notin Existing(n) => n > LoopPlace
         /\ n \in CallTime["reset"] /\ "velPointer" \notin Existing(n) => n > LoopPlace
  BY ExistingIs, CallTimeIs, TheThings DEF LoopPlace, Place

LEMMA LifeInitially ==
  LifeInit => LifeIInv
  <1> SUFFICES ASSUME LifeInit PROVE LifeIInv
    OBVIOUS
  <1>1. Rest(Main, 1, 1)
    <2>1. Main \in Seq(Method) /\ Len(Main) = 22 /\ Len(Main[1]) = 4
      BY NoMethodIsEmpty, StepsOfMain
    <2>2. /\ \A k \in 1 .. 4 : k + 1 - 1 = k
          /\ \A k \in 2 .. 22 : k + 1 - 1 = k
      OBVIOUS
    <2> QED BY <2>1, <2>2 DEF Rest, Methods
  <1>2. LifeAt(Place(1, 1))
    <2>1. SameThings({}, Existing(11))
      BY ExistingIs DEF SameThings
    <2>2. Existing(11) = {}
      BY <2>1, ThingsAreTheSame, NothingElseExists
    <2>3. \A callback \in Callbacks : phase[callback] = "idle" /\ "idle" \in Phases[callback]
      BY DEF LifeInit, Callbacks, Phases
    <2> QED BY <2>2, <2>3 DEF LifeAt, LifeInit, Place, LoopPlace
  <1>3. phase = [callback \in Callbacks |-> phase[callback]] /\ DOMAIN phase = Callbacks
    BY DEF LifeInit
  <1>4. Rest(todo, 1, 1)
    BY <1>1 DEF LifeInit
  <1> QED BY <1>2, <1>3, <1>4 DEF LifeIInv, LifeInit

\* A step of a callback leaves main where it is.
LEMMA LifeOfAdvance ==
  ASSUME LifeIInv, NEW callback \in Callbacks, NEW from, NEW to \in Phases[callback],
         Advance(callback, from, to),
         \/ from # "idle"
         \/ callback = "sport" /\ "stub" \in up
         \/ callback = "switcher" /\ "requestChannel" \in up
         \/ callback = "reset" /\ "resetChannel" \in up
  PROVE  LifeIInv'
  <1>1. PICK i \in Nat, j \in Nat : Rest(todo, i, j) /\ LifeAt(Place(i, j))
    BY DEF LifeIInv
  <1> DEFINE n == Place(i, j)
  <1>2. n \in Nat
    BY DEF Place
  <1>3. UNCHANGED <<g_running, up, todo, crashed>> /\ phase[callback] = from
        /\ phase' = [phase EXCEPT ![callback] = to]
    BY DEF Advance
  <1>4. n \in CallTime[callback]
    BY <1>1, <1>2, <1>3, CallsInTime DEF LifeAt
  <1>5. /\ DOMAIN phase' = Callbacks /\ phase' = [c \in Callbacks |-> phase'[c]]
        /\ phase'[callback] = to
        /\ \A c \in Callbacks : c # callback => phase'[c] = phase[c]
    BY <1>3 DEF LifeIInv
  <1>6. LifeAt(n)'
    BY <1>1, <1>3, <1>4, <1>5 DEF LifeAt
  <1>7. Rest(todo', i, j)
    BY <1>1, <1>3
  <1> QED BY <1>3, <1>5, <1>6, <1>7 DEF LifeIInv

\* A null pointer is called beyond the loop.
LEMMA LifeOfCrash ==
  ASSUME LifeIInv, NEW callback \in Callbacks, NEW from, Crash(callback, from), from # "idle",
         \/ callback = "sport" /\ "stub" \notin up
         \/ callback = "reset" /\ "velPointer" \notin up
  PROVE  LifeIInv'
  <1>1. PICK i \in Nat, j \in Nat : Rest(todo, i, j) /\ LifeAt(Place(i, j))
    BY DEF LifeIInv
  <1> DEFINE n == Place(i, j)
  <1>2. n \in Nat
    BY DEF Place
  <1>3. UNCHANGED <<g_running, up, todo, phase>> /\ crashed' = TRUE /\ phase[callback] = from
    BY DEF Crash
  <1>4. n > LoopPlace
    BY <1>1, <1>2, <1>3, CallsInTime DEF LifeAt
  <1>5. ~g_running
    BY <1>1, <1>4 DEF LifeAt
  <1>6. LifeAt(n)'
    BY <1>1, <1>3, <1>5 DEF LifeAt
  <1>7. Rest(todo', i, j)
    BY <1>1, <1>3
  <1> QED BY <1>3, <1>6, <1>7 DEF LifeIInv

\* What is left for a step of main to show: what exists after it, that only idle
\* callbacks are out of their time, and that the loop ends by the signal.
LEMMA LifeGoesOn ==
  ASSUME NEW n \in Nat, NEW p \in Nat, LifeAt(n), UNCHANGED <<g_running, phase, crashed>>,
         up' \subseteq Things, SameThings(Existing(p), up'),
         \A callback \in Callbacks :
           \/ phase[callback] = "idle"
           \/ n \in CallTime[callback] => p \in CallTime[callback],
         p > LoopPlace => n > LoopPlace \/ ~g_running
  PROVE  LifeAt(p)'
  <1>1. up' = Existing(p)
    BY ThingsAreTheSame, NothingElseExists
  <1> QED BY <1>1 DEF LifeAt

\* main goes on to the place that its step leads to.
LEMMA LifeOfMain ==
  ASSUME LifeIInv, MainStep
  PROVE  LifeIInv'
  <1>1. PICK i \in Nat, j \in Nat : Rest(todo, i, j) /\ LifeAt(Place(i, j))
    BY DEF LifeIInv
  <1> DEFINE step == Head(Head(todo))
             n == Place(i, j)
             m == After(i, j)
             e == Place(i + 1, 1)
  <1>2. todo # <<>> /\ UNCHANGED <<g_running, phase, crashed>>
    BY DEF MainStep, Returned
  <1>3. /\ i \in 1 .. Methods /\ j \in 1 .. Len(Main[i]) /\ step = Main[i][j]
        /\ Head(todo) = todo[1] /\ Len(todo[1]) = Len(Main[i]) - j + 1
    BY <1>1, <1>2, HeadOfRest
  <1>4. Fits(step, n, m, e)
    BY <1>3, EveryStepFits DEF AllFit
  <1>5. ASSUME todo' = Tail(todo), LifeAt(e)'
        PROVE  LifeIInv'
    <2>1. Rest(todo', i + 1, 1)
      BY <1>1, <1>2, <1>5, RestOfReturn
    <2>2. i + 1 \in Nat /\ 1 \in Nat
      OBVIOUS
    <2> QED BY <2>1, <2>2, <1>2, <1>5 DEF LifeIInv
  <1>6. ASSUME Continue, LifeAt(m)'
        PROVE  LifeIInv'
    <2>1. CASE Len(Head(todo)) = 1
      <3>1. todo' = Tail(todo) /\ ~(j < Len(Main[i]))
        <4>1. Len(Main[i]) \in Nat /\ j \in Nat
          BY <1>3, NoMethodIsEmpty DEF Methods
        <4>2. Len(Main[i]) - j + 1 = 1
          BY <1>3, <2>1
        <4>3. ~(j < Len(Main[i]))
          BY <4>1, <4>2
        <4> QED BY <4>3, <1>6, <2>1 DEF Continue
      <3>2. m = e
        BY <3>1 DEF After
      <3> QED BY <3>1, <3>2, <1>5, <1>6
    <2>2. CASE Len(Head(todo)) # 1
      <3>1. todo' = <<Tail(Head(todo))>> \o Tail(todo)
        BY <1>6, <2>2 DEF Continue
      <3>2. j < Len(Main[i]) /\ Rest(todo', i, j + 1)
        BY <1>1, <1>2, <2>2, <3>1, RestOfStep
      <3>3. m = Place(i, j + 1) /\ j + 1 \in Nat
        BY <3>2 DEF After
      <3> QED BY <3>2, <3>3, <1>2, <1>6 DEF LifeIInv
    <2> QED BY <2>1, <2>2
  <1> HIDE DEF n, m, e
  <1>7. /\ step[1] = "Make" => up' = up \cup {step[2]} /\ Continue
        /\ step[1] = "Drop" => up' = Without(up \ {step[2]}) /\ Continue
        /\ step[1] = "ReturnIf" =>
             up' = up /\ (IF step[2] \in up THEN todo' = Tail(todo) ELSE Continue)
        /\ step[1] = "ReturnUnless" =>
             up' = up /\ (IF step[2] \in up THEN Continue ELSE todo' = Tail(todo))
        /\ step[1] = "Await" => phase[step[2]] = "idle" /\ up' = up /\ Continue
        /\ step[1] = "Loop" => ~g_running /\ up' = up /\ Continue
    BY Zenon DEF MainStep
  <1>8. up = Existing(n) /\ up \subseteq Things
    BY <1>1, NothingElseExists DEF LifeAt, n
  <1>9. n \in Nat /\ m \in Nat /\ e \in Nat
    BY <1>3 DEF n, m, e, Place, After
  <1>10. CASE \E thing \in Things : step = Make(thing) /\ Makes(thing, n, m)
    <2>1. PICK thing \in Things : step = Make(thing) /\ Makes(thing, n, m)
      BY <1>10
    <2>2. up' = up \cup {thing} /\ Continue
      BY <1>7, <2>1 DEF Make
    <2>3. up' \subseteq Things
      BY <1>8, <2>2
    <2>4. LifeAt(m)'
      BY <1>1, <1>2, <1>8, <1>9, <2>1, <2>2, <2>3, LifeGoesOn DEF Makes, CallsLast, n
    <2> QED BY <1>6, <2>2, <2>4
  <1>11. CASE \E thing \in Things : step = Drop(thing) /\ Drops(thing, n, m)
    <2>1. PICK thing \in Things : step = Drop(thing) /\ Drops(thing, n, m)
      BY <1>11
    <2>2. up' = Without(up \ {thing}) /\ Continue
      <3>1. step[1] = "Drop" /\ step[2] = thing
        BY <2>1 DEF Drop
      <3> QED BY <3>1, <1>7, Zenon
    <2>3. up' \subseteq Things
      BY <1>8, <2>2, NothingElseExists
    <2>4. LifeAt(m)'
      BY <1>1, <1>2, <1>8, <1>9, <2>1, <2>2, <2>3, LifeGoesOn DEF Drops, CallsLast, n
    <2> QED BY <1>6, <2>2, <2>4
  <1>12. ASSUME NEW p \in Nat, Same(n, p), up' = up
         PROVE  LifeAt(p)'
    BY <1>1, <1>2, <1>8, <1>9, <1>12, LifeGoesOn DEF Same, CallsLast, n
  <1>13. CASE \E thing \in Things : /\ step = ReturnIf(thing)
                                    /\ IF thing \in Existing(n) THEN Same(n, e) ELSE Same(n, m)
    <2>1. PICK thing \in Things : /\ step = ReturnIf(thing)
                                  /\ IF thing \in up THEN Same(n, e) ELSE Same(n, m)
      BY <1>8, <1>13
    <2>2. up' = up /\ (IF thing \in up THEN todo' = Tail(todo) ELSE Continue)
      BY <1>7, <2>1 DEF ReturnIf
    <2> QED BY <1>5, <1>6, <1>9, <1>12, <2>1, <2>2
  <1>14. CASE \E thing \in Things : /\ step = ReturnUnless(thing)
                                    /\ IF thing \in Existing(n) THEN Same(n, m) ELSE Same(n, e)
    <2>1. PICK thing \in Things : /\ step = ReturnUnless(thing)
                                  /\ IF thing \in up THEN Same(n, m) ELSE Same(n, e)
      BY <1>8, <1>14
    <2>2. up' = up /\ (IF thing \in up THEN Continue ELSE todo' = Tail(todo))
      BY <1>7, <2>1 DEF ReturnUnless
    <2> QED BY <1>5, <1>6, <1>9, <1>12, <2>1, <2>2
  <1>15. CASE \E callback \in Callbacks : step = Await(callback) /\ Awaits(callback, n, m)
    <2>1. PICK callback \in Callbacks : step = Await(callback) /\ Awaits(callback, n, m)
      BY <1>15
    <2>2. phase[callback] = "idle" /\ up' = up /\ Continue
      BY <1>7, <2>1 DEF Await
    <2>3. LifeAt(m)'
      BY <1>1, <1>2, <1>8, <1>9, <2>1, <2>2, LifeGoesOn DEF Awaits, CallsLast, n
    <2> QED BY <1>6, <2>2, <2>3
  <1>16. CASE step = <<"Loop">> /\ Loops(n, m)
    <2>1. ~g_running /\ up' = up /\ Continue
      BY <1>7, <1>16
    <2>2. LifeAt(m)'
      BY <1>1, <1>2, <1>8, <1>9, <1>16, <2>1, LifeGoesOn DEF Loops, CallsLast, n
    <2> QED BY <1>6, <2>1, <2>2
  <1> QED BY <1>4, <1>10, <1>11, <1>13, <1>14, <1>15, <1>16 DEF Fits

\* LifeIInv is inductive: every step of main, of a callback and of the signal.
LEMMA LifeInduction ==
  LifeIInv /\ [LifeNext]_lifeVars => LifeIInv'
  <1> SUFFICES ASSUME LifeIInv, [LifeNext]_lifeVars PROVE LifeIInv'
    OBVIOUS
  <1> USE DEF LifeNext
  <1>1. /\ "sport" \in Callbacks /\ "switcher" \in Callbacks /\ "reset" \in Callbacks
        /\ {"idle", "handle", "check", "send", "respond"} = Phases["sport"]
        /\ {"idle", "handle", "check", "write", "respond"} = Phases["switcher"]
        /\ {"idle", "test", "publisher", "switcher"} = Phases["reset"]
    BY DEF Callbacks, Phases
  <1>2. CASE HandleShutdownSignal
    <2>1. PICK i \in Nat, j \in Nat : Rest(todo, i, j) /\ LifeAt(Place(i, j))
      BY DEF LifeIInv
    <2>2. g_running' = FALSE /\ UNCHANGED <<up, todo, phase, crashed>>
      BY <1>2 DEF HandleShutdownSignal
    <2>3. Rest(todo', i, j) /\ LifeAt(Place(i, j))'
      BY <2>1, <2>2 DEF LifeAt
    <2> QED BY <2>2, <2>3 DEF LifeIInv
  <1>3. CASE MainStep
    BY <1>3, LifeOfMain
  <1>4. CASE Call
    <2>1. CASE "stub" \in up /\ Advance("sport", "idle", "handle")
      BY <1>1, <2>1, LifeOfAdvance
    <2>2. CASE "requestChannel" \in up /\ Advance("switcher", "idle", "handle")
      BY <1>1, <2>2, LifeOfAdvance
    <2>3. CASE "resetChannel" \in up /\ Advance("reset", "idle", "test")
      BY <1>1, <2>3, LifeOfAdvance
    <2> QED BY <1>4, <2>1, <2>2, <2>3 DEF Call
  <1>5. CASE SportCallback
    <2>1. CASE Advance("sport", "handle", "check")
      BY <1>1, <2>1, LifeOfAdvance
    <2>2. CASE Advance("sport", "check", "send")
      BY <1>1, <2>2, LifeOfAdvance
    <2>3. CASE Advance("sport", "check", "respond")
      BY <1>1, <2>3, LifeOfAdvance
    <2>4. CASE Advance("sport", "send", "respond")
      BY <1>1, <2>4, LifeOfAdvance
    <2>5. CASE "stub" \notin up /\ Crash("sport", "send")
      BY <1>1, <2>5, LifeOfCrash
    <2>6. CASE Advance("sport", "respond", "idle")
      BY <1>1, <2>6, LifeOfAdvance
    <2> QED BY <1>5, <2>1, <2>2, <2>3, <2>4, <2>5, <2>6 DEF SportCallback
  <1>6. CASE SwitcherCallback
    <2>1. CASE Advance("switcher", "handle", "check")
      BY <1>1, <2>1, LifeOfAdvance
    <2>2. CASE Advance("switcher", "check", "write")
      BY <1>1, <2>2, LifeOfAdvance
    <2>3. CASE Advance("switcher", "check", "respond")
      BY <1>1, <2>3, LifeOfAdvance
    <2>4. CASE Advance("switcher", "write", "respond")
      BY <1>1, <2>4, LifeOfAdvance
    <2>5. CASE Advance("switcher", "respond", "idle")
      BY <1>1, <2>5, LifeOfAdvance
    <2> QED BY <1>6, <2>1, <2>2, <2>3, <2>4, <2>5 DEF SwitcherCallback
  <1>7. CASE ResetCallback
    <2>1. CASE Advance("reset", "test", "publisher")
      BY <1>1, <2>1, LifeOfAdvance
    <2>2. CASE Advance("reset", "test", "switcher")
      BY <1>1, <2>2, LifeOfAdvance
    <2>3. CASE Advance("reset", "publisher", "switcher")
      BY <1>1, <2>3, LifeOfAdvance
    <2>4. CASE "velPointer" \notin up /\ Crash("reset", "publisher")
      BY <1>1, <2>4, LifeOfCrash
    <2>5. CASE Advance("reset", "switcher", "idle")
      BY <1>1, <2>5, LifeOfAdvance
    <2> QED BY <1>7, <2>1, <2>2, <2>3, <2>4, <2>5 DEF ResetCallback
  <1>8. CASE UNCHANGED lifeVars
    <2>1. PICK i \in Nat, j \in Nat : Rest(todo, i, j) /\ LifeAt(Place(i, j))
      BY DEF LifeIInv
    <2>2. Rest(todo', i, j) /\ LifeAt(Place(i, j))'
      BY <1>8, <2>1 DEF LifeAt, lifeVars
    <2> QED BY <1>8, <2>2 DEF LifeIInv, lifeVars
  <1> QED BY <1>2, <1>3, <1>4, <1>5, <1>6, <1>7, <1>8

\* The argument of the proofs: what exists is a matter of main's place, and a
\* callback is in progress within the time between the two places that begin and
\* await it.
THEOREM LifeInvariance == LifeSpec => []LifeIInv
  <1>1. LifeInit => LifeIInv
    BY LifeInitially
  <1>2. LifeIInv /\ [LifeNext]_lifeVars => LifeIInv'
    BY LifeInduction
  <1> QED BY <1>1, <1>2, PTL DEF LifeSpec

-----------------------------------------------------------------------------
(* What follows from it.                                                   *)

\* Only what main makes exists, and no method of main is left empty.
THEOREM LifeIsTyped == LifeSpec => []LifeTypeOK
  <1>1. LifeIInv => LifeTypeOK
    <2> SUFFICES ASSUME LifeIInv PROVE LifeTypeOK
      OBVIOUS
    <2>1. PICK i \in Nat, j \in Nat : Rest(todo, i, j) /\ LifeAt(Place(i, j))
      BY DEF LifeIInv
    <2>2. up \subseteq Things /\ \A callback \in Callbacks : phase[callback] \in Phases[callback]
      BY <2>1, NothingElseExists DEF LifeAt
    <2>3. ASSUME NEW k \in 1 .. Len(todo)
          PROVE  todo[k] # <<>>
      <3>1. todo # <<>> /\ todo \in Seq(Method) /\ Len(todo) = 23 - i /\ i \in 1 .. 23
        BY <2>1, <2>3, EmptySeq DEF Rest, Methods
      <3>2. CASE k = 1
        BY <2>1, <3>1, <3>2, HeadOfRest
      <3>3. CASE k # 1
        <4>1. k \in 2 .. Len(todo) /\ k + i - 1 \in 1 .. 22
          BY <3>1, <3>3
        <4>2. todo[k] = Main[k + i - 1]
          BY <2>1, <3>1, <4>1 DEF Rest, Methods
        <4>3. Len(todo[k]) >= 1 /\ todo[k] \in Method
          BY <4>1, <4>2, NoMethodIsEmpty
        <4> QED BY <4>3, EmptySeq DEF Method
      <3> QED BY <3>2, <3>3
    <2> QED BY <2>2, <2>3 DEF LifeTypeOK, LifeIInv
  <1> QED BY <1>1, LifeInvariance, PTL

\* What a callback uses lives at every place at which the callback may be.
THEOREM CallbacksUseWhatIsAlive == LifeSpec => []AliveWhenUsed
  <1>1. ASSUME NEW n \in Nat, NEW callback \in Callbacks, n \in CallTime[callback],
               NEW at \in Phases[callback]
        PROVE  Uses(callback, at) \subseteq Existing(n)
    <2>1. CASE callback = "sport"
      BY <1>1, <2>1, ExistingIs, CallTimeIs, TheThings DEF Uses, Phases
    <2>2. CASE callback = "switcher"
      BY <1>1, <2>2, ExistingIs, CallTimeIs, TheThings DEF Uses, Phases
    <2>3. CASE callback = "reset"
      BY <1>1, <2>3, ExistingIs, CallTimeIs, TheThings DEF Uses, Phases
    <2> QED BY <2>1, <2>2, <2>3, TheThings
  <1>2. ASSUME NEW n \in Nat
        PROVE  Existing(n) \cap Channels # {} => "factory" \in Existing(n)
    BY ExistingIs, TheThings, NothingElseExists DEF Channels
  <1>3. LifeIInv => AliveWhenUsed
    <2> SUFFICES ASSUME LifeIInv PROVE AliveWhenUsed
      OBVIOUS
    <2>1. PICK i \in Nat, j \in Nat : Rest(todo, i, j) /\ LifeAt(Place(i, j))
      BY DEF LifeIInv
    <2> DEFINE n == Place(i, j)
    <2>2. n \in Nat
      BY DEF Place
    <2> HIDE DEF n
    <2>3. ASSUME NEW callback \in Callbacks
          PROVE  Uses(callback, phase[callback]) \subseteq up
      <3>1. CASE phase[callback] = "idle"
        BY <3>1, TheThings DEF Uses
      <3>2. CASE phase[callback] # "idle"
        BY <1>1, <2>1, <2>2, <3>2 DEF LifeAt, n
      <3> QED BY <3>1, <3>2
    <2>4. /\ up \cap Channels # {} => "factory" \in up
          /\ crashed => ~g_running
      BY <1>2, <2>1, <2>2 DEF LifeAt, n
    <2> QED BY <2>3, <2>4 DEF AliveWhenUsed
  <1> QED BY <1>3, LifeInvariance, PTL

\* At the end of main every lifetime but the factory's is over.
THEOREM EverythingIsReleased == LifeSpec => []ReleasedAtExit
  <1>1. LifeIInv => ReleasedAtExit
    <2> SUFFICES ASSUME LifeIInv, todo = <<>> PROVE up = {"factory"}
      BY DEF ReleasedAtExit, Returned
    <2>1. PICK i \in Nat, j \in Nat : Rest(todo, i, j) /\ LifeAt(Place(i, j))
      BY DEF LifeIInv
    <2>2. i = 23 /\ j = 1
      BY <2>1, EmptySeq DEF Rest, Methods
    <2>3. Place(i, j) = 231
      BY <2>2 DEF Place
    <2>4. up = Existing(231)
      BY <2>1, <2>3 DEF LifeAt
    <2>5. SameThings(Existing(231), {"factory"}) /\ {"factory"} \subseteq Things
      BY ExistingIs, TheThings DEF SameThings
    <2> QED BY <2>4, <2>5, ThingsAreTheSame, NothingElseExists
  <1> QED BY <1>1, LifeInvariance, PTL

=============================================================================
