----------------------------- MODULE Parameters -----------------------------
(***************************************************************************)
(* How the JSON parameters of requests become the values the handlers act  *)
(* on: the Parse...Parameter functions of src/cmd_vel_publisher.cpp, and   *)
(* what the motion switcher's own reader makes of the same text.           *)
(*                                                                         *)
(* A text is empty, unreadable, JSON that is no object, or an object; an   *)
(* object maps keys to values that carry their type.  The SDK's reader is  *)
(* taken to throw on an unreadable text and on a value of another type.    *)
(*                                                                         *)
(* The gates on the joint lock and the posture, which EventBridge has, are *)
(* taken to be open here: the question is what a text can do when it is    *)
(* acted on.                                                               *)
(***************************************************************************)
EXTENDS Integers

CONSTANTS
  Numbers,       \* numbers that occur in a text, a subset of Doubles
  Names,         \* strings that occur in a text
  MaxRequests    \* bound: the requests of a behaviour

\* A number is told apart by its size: zero; within every cap, and so is a
\* vector of two such; beyond every cap; so huge that hypot of two overflows;
\* infinite; not a number.
Finite  == {"zero", "within", "beyond", "huge"}
Doubles == Finite \cup {"inf", "nan"}

ASSUME NumbersAssumption == Numbers \subseteq Doubles

Number(n) == [type |-> "number", value |-> n]
String(s) == [type |-> "string", value |-> s]
Bool(b)   == [type |-> "bool", value |-> b]

JsonValues ==
  {Number(n) : n \in Numbers} \cup {String(s) : s \in Names} \cup {Bool(b) : b \in BOOLEAN}

Objects(keys) == UNION {[present -> JsonValues] : present \in SUBSET keys}

NoObject == [k \in {} |-> Bool(FALSE)]

Texts(keys) ==
  [kind : {"empty", "unreadable", "other"}, map : {NoObject}]
    \cup [kind : {"object"}, map : Objects(keys)]

\* Other kinds of text hold no key.
Has(text, key) == text.kind = "object" /\ key \in DOMAIN text.map

HasTyped(text, key, type) == Has(text, key) /\ text.map[key].type = type

-----------------------------------------------------------------------------
(* The parsers of CmdVelPublisher.  What they find is a set of at most one *)
(* value: if it is empty they return false.                                *)

Find(text, key, type) == {text.map[k].value : k \in {k \in {key} : HasTyped(text, k, type)}}

\* Mutant: whatever stands there is taken.
ParseAnyParameter(text) == IF Has(text, "data") THEN {text.map["data"].value} ELSE {}

ParseIntParameter(text) == Find(text, "data", "number")

\* Mutant: the key under which the other parsers look.
ParseStringParameterFromData(text, key) == Find(text, "data", "string")

ParseStringParameter(text, key) == Find(text, key, "string")

\* Mutant: the second key is tried whenever the first gave nothing.
ParseBoolParameterFallingBack(text) ==
  IF Find(text, "data", "bool") # {} THEN Find(text, "data", "bool") ELSE Find(text, "flag", "bool")

\* Mutant: a flag that cannot be read counts as one that is off.
ParseBoolParameterDefaulting(text) ==
  IF Has(text, "data") THEN Find(text, "data", "bool")
  ELSE {Find(text, key, "bool") = {TRUE} : key \in {k \in {"flag"} : Has(text, k)}}

\* A "data" that is there decides, be it readable or not.
ParseBoolParameter(text) ==
  IF Has(text, "data") THEN Find(text, "data", "bool") ELSE Find(text, "flag", "bool")

StandStill == [x |-> "zero", y |-> "zero", z |-> "zero"]

\* Mutant: what cannot be read is passed over.
ReadNextComponent(text, read, key) ==
  IF HasTyped(text, key, "number")
  THEN [read EXCEPT !.velocity[key] = text.map[key].value]
  ELSE read

\* The first component of another type throws, and the reading ends with what
\* has been read so far.
ReadComponent(text, read, key) ==
  IF read.thrown \/ ~Has(text, key) THEN read
  ELSE IF HasTyped(text, key, "number")
       THEN [read EXCEPT !.velocity[key] = text.map[key].value]
       ELSE [read EXCEPT !.thrown = TRUE]

ParseMoveParameter(text) ==
  LET x == ReadComponent(text, [velocity |-> StandStill, thrown |-> FALSE], "x")
      y == ReadComponent(text, x, "y")
      z == ReadComponent(text, y, "z")
  IN  z.velocity

-----------------------------------------------------------------------------
(* SELECT_MODE is read twice: by the switcher, which stores the mode, and  *)
(* by the event handler of main, which moves the publisher to its profile. *)

\* The switcher reads a whole mode; a key that is absent leaves its field empty.
ModeIsReadable(text) ==
  /\ text.kind = "object"
  /\ \A key \in {"form", "name"} : Has(text, key) => HasTyped(text, key, "string")

StoredModes(text) ==
  IF ModeIsReadable(text) THEN Find(text, "name", "string") \ {""} ELSE {}

HandledModes(text) ==
  IF StoredModes(text) = {} THEN {} ELSE ParseStringParameter(text, "name")

-----------------------------------------------------------------------------
(* ApplySpeedLimit and the test for motion, on all doubles.                *)

\* hypot of an infinity is infinite, even beside a NaN.
Hypot(a, b) ==
  CASE "inf" \in {a, b}  -> "inf"
    [] "nan" \in {a, b} /\ "inf" \notin {a, b} -> "nan"
    [] {a, b} = {"huge"} -> "inf"
    [] OTHER -> IF "huge" \in {a, b} THEN "huge"
                ELSE IF "beyond" \in {a, b} THEN "beyond" ELSE "within"

\* a * (cap / magnitude): the quotient is zero if the magnitude is infinite, and
\* zero times an infinity is not a number.
Scaled(a, magnitude) ==
  CASE a \in {"nan", "inf"} -> "nan"
    [] a \in Finite /\ (a = "zero" \/ magnitude = "inf") -> "zero"
    [] OTHER -> "within"

Scale(velocity) ==
  LET magnitude == Hypot(velocity.x, velocity.y)
  IN  [velocity EXCEPT !.x = Scaled(@, magnitude), !.y = Scaled(@, magnitude)]

\* Mutant: a magnitude that overflows is left alone.
LimitFiniteMagnitude(velocity) ==
  IF Hypot(velocity.x, velocity.y) \in {"beyond", "huge"} THEN Scale(velocity) ELSE velocity

\* A NaN compares as not greater and is not scaled.
ApplySpeedLimit(velocity) ==
  IF Hypot(velocity.x, velocity.y) \in {"beyond", "huge", "inf"} THEN Scale(velocity) ELSE velocity

Moves(component) == component \notin {"zero", "nan"}

\* Mutant: a robot that only turns does not move.
HasLinearMotion(velocity) == Moves(velocity.x) \/ Moves(velocity.y)

\* abs(NaN) > 0 is false.
HasMotion(velocity) == \E key \in DOMAIN velocity : Moves(velocity[key])

-----------------------------------------------------------------------------
(* Requests.                                                               *)

VARIABLES
  request,        \* the one handled last: its API, its text and its number
  velocity,       \* what ParseMoveParameter made of the last MOVE
  twist,          \* what was published for it
  walking,        \* did it put the robot on record as walking?
  continuous,     \* m_continuousMoveMode
  level,          \* the m_speedLevel that was set, in a set of at most one
  mode,           \* mModeName, likewise
  profile         \* the name SetMotionModeName was last called with, likewise

parameterVars == <<request, velocity, twist, walking, continuous, level, mode, profile>>

Keys == [MOVE |-> {"x", "y", "z"}, SWITCHMOVEMODE |-> {"data", "flag"},
         SPEEDLEVEL |-> {"data"}, SELECT_MODE |-> {"form", "name"}]

MoveState == <<velocity, twist, walking>>
ModeState == <<mode, profile>>

ParametersInit ==
  /\ request = [api |-> "none", text |-> [kind |-> "empty", map |-> NoObject], number |-> 0]
  /\ velocity = StandStill /\ twist = StandStill
  /\ walking = FALSE /\ continuous = FALSE
  /\ level = {} /\ mode = {} /\ profile = {}

Latest(found, old) == IF found = {} THEN old ELSE found

Move(text) ==
  /\ velocity' = ParseMoveParameter(text)
  /\ twist' = ApplySpeedLimit(velocity')
  /\ walking' = HasMotion(velocity')
  /\ UNCHANGED <<continuous, level, ModeState>>

SwitchMoveMode(text) ==
  /\ continuous' = IF ParseBoolParameter(text) = {} THEN continuous
                   ELSE TRUE \in ParseBoolParameter(text)
  /\ UNCHANGED <<MoveState, level, ModeState>>

SpeedLevel(text) ==
  /\ level' = Latest(ParseIntParameter(text), level)
  /\ UNCHANGED <<MoveState, continuous, ModeState>>

SelectMode(text) ==
  /\ mode' = Latest(StoredModes(text), mode)
  /\ profile' = Latest(HandledModes(text), profile)
  /\ UNCHANGED <<MoveState, continuous, level>>

Request(api, text) ==
  /\ request.number < MaxRequests
  /\ request' = [api |-> api, text |-> text, number |-> request.number + 1]
  /\ \/ api = "MOVE" /\ Move(text)
     \/ api = "SWITCHMOVEMODE" /\ SwitchMoveMode(text)
     \/ api = "SPEEDLEVEL" /\ SpeedLevel(text)
     \/ api = "SELECT_MODE" /\ SelectMode(text)

ParametersNext == \E api \in DOMAIN Keys : \E text \in Texts(Keys[api]) : Request(api, text)

ParametersSpec == ParametersInit /\ [][ParametersNext]_parameterVars

-----------------------------------------------------------------------------
(* Properties.                                                             *)

Velocities == [{"x", "y", "z"} -> Numbers \cup {"zero", "within", "nan"}]

ParametersTypeOK ==
  /\ velocity \in Velocities /\ twist \in Velocities
  /\ walking \in BOOLEAN /\ continuous \in BOOLEAN
  /\ level \in SUBSET Numbers
  /\ mode \in SUBSET (Names \ {""})
  /\ profile \in SUBSET (Names \ {""})

\* The cap holds for every finite velocity, also where hypot overflows (the robot
\* is then told to stand), and for no other: what is not finite gets out as NaN.
LimitHoldsForFinite ==
  IF {velocity.x, velocity.y} \subseteq Finite
  THEN {twist.x, twist.y} \subseteq {"zero", "within"}
  ELSE "nan" \in {twist.x, twist.y}

\* The posture is decided on a second reading of the text, before the limit: a
\* velocity that goes out puts the robot on record as walking, so that no mode
\* change is accepted under it.  A NaN alone does not.
WhatMovesIsWalking == (\E key \in {"x", "y", "z"} : Moves(twist[key])) => walking

\* A velocity is what a client asked for up to the first component that cannot
\* be read, and zero from there on: no later component is taken after one that
\* threw, and none of a text that is no object.
MoveIsLongestReadablePrefix ==
  request.api = "MOVE" =>
    LET text == request.text
        keys == <<"x", "y", "z">>
        Readable(i) == \A j \in 1 .. i : Has(text, keys[j]) => HasTyped(text, keys[j], "number")
    IN  \A i \in 1 .. 3 :
          velocity[keys[i]] =
            IF Readable(i) /\ Has(text, keys[i]) THEN text.map[keys[i]].value ELSE "zero"

\* Two readers of one SELECT_MODE, in two components: the mode the switcher has
\* stored is the one the publisher was told, whatever came before.
SelectIsReadAlike == mode = profile

\* The keys whose values a request is acted on: a "data" puts its "flag" out of use.
KeysInUse(text) == DOMAIN text.map \ (IF Has(text, "data") THEN {"flag"} ELSE {})

ValueType == [SPEEDLEVEL |-> "number", SWITCHMOVEMODE |-> "bool", SELECT_MODE |-> "string"]

\* A request other than MOVE that carries no object, or a value of a wrong type
\* under a key in use.
WronglyTyped(api, text) ==
  /\ api \in DOMAIN ValueType
  /\ \/ text.kind # "object"
     \/ \E key \in KeysInUse(text) : text.map[key].type # ValueType[api]

\* Of the requests other than MOVE none is acted on in part: if one of the values
\* it carries is of the wrong type nothing changes, although each reader looks at
\* the keys in its own order.  A flag counts unless there is a "data" beside it,
\* good or bad: then nobody reads the flag.
NoHalfAppliedRequest ==
  [][WronglyTyped(request'.api, request'.text)
       => UNCHANGED <<MoveState, continuous, level, ModeState>>]_parameterVars

=============================================================================
