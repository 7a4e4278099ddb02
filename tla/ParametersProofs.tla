-------------------------- MODULE ParametersProofs --------------------------
(***************************************************************************)
(* Proofs about Parameters: what the readers make of any text, whatever    *)
(* numbers and names occur in it and however many requests there are.      *)
(***************************************************************************)
EXTENDS Parameters, TLAPS

Components == {"x", "y", "z"}

ParametersIInv ==
  /\ ParametersTypeOK
  /\ LimitHoldsForFinite
  /\ WhatMovesIsWalking
  /\ MoveIsLongestReadablePrefix
  /\ SelectIsReadAlike

-----------------------------------------------------------------------------
\* A value that is found under a key has the type that was looked for.
LEMMA NumberIsRead ==
  ASSUME NEW keys, NEW text \in Texts(keys), NEW key, HasTyped(text, key, "number")
  PROVE  text.map[key].value \in Numbers
  <1>1. text.map \in Objects(keys) /\ key \in DOMAIN text.map
    BY DEF HasTyped, Has, Texts
  <1>2. text.map[key] \in JsonValues
    BY <1>1 DEF Objects
  <1> QED BY <1>2 DEF JsonValues, HasTyped, Number, String, Bool

LEMMA StringIsRead ==
  ASSUME NEW keys, NEW text \in Texts(keys), NEW key, HasTyped(text, key, "string")
  PROVE  text.map[key].value \in Names
  <1>1. text.map \in Objects(keys) /\ key \in DOMAIN text.map
    BY DEF HasTyped, Has, Texts
  <1>2. text.map[key] \in JsonValues
    BY <1>1 DEF Objects
  <1> QED BY <1>2 DEF JsonValues, HasTyped, Number, String, Bool

\* What ParseMoveParameter finds for each component.
Readable(text, key) == Has(text, key) => HasTyped(text, key, "number")

Component(text, key) == IF Has(text, key) THEN text.map[key].value ELSE "zero"

LEMMA ParsedMove ==
  ASSUME NEW text
  PROVE  ParseMoveParameter(text) =
           [x |-> IF Readable(text, "x") THEN Component(text, "x") ELSE "zero",
            y |-> IF Readable(text, "x") /\ Readable(text, "y")
                  THEN Component(text, "y") ELSE "zero",
            z |-> IF Readable(text, "x") /\ Readable(text, "y") /\ Readable(text, "z")
                  THEN Component(text, "z") ELSE "zero"]
  <1> DEFINE x == ReadComponent(text, [velocity |-> StandStill, thrown |-> FALSE], "x")
             y == ReadComponent(text, x, "y")
             z == ReadComponent(text, y, "z")
             vx == IF Readable(text, "x") THEN Component(text, "x") ELSE "zero"
             vy == IF Readable(text, "x") /\ Readable(text, "y")
                   THEN Component(text, "y") ELSE "zero"
             vz == IF Readable(text, "x") /\ Readable(text, "y") /\ Readable(text, "z")
                   THEN Component(text, "z") ELSE "zero"
  <1>1. x = [velocity |-> [x |-> vx, y |-> "zero", z |-> "zero"],
             thrown   |-> ~Readable(text, "x")]
    BY DEF ReadComponent, Readable, Component, HasTyped, StandStill
  <1>2. y = [velocity |-> [x |-> vx, y |-> vy, z |-> "zero"],
             thrown   |-> ~(Readable(text, "x") /\ Readable(text, "y"))]
    <2> HIDE DEF x, vx
    <2> QED BY <1>1 DEF ReadComponent, Readable, Component, HasTyped
  <1>3. z.velocity = [x |-> vx, y |-> vy, z |-> vz]
    <2> HIDE DEF x, y, vx, vy
    <2> QED BY <1>2 DEF ReadComponent, Readable, Component, HasTyped
  <1> QED BY <1>3 DEF ParseMoveParameter

LEMMA ParsedMoveType ==
  ASSUME NEW keys, NEW text \in Texts(keys)
  PROVE  ParseMoveParameter(text) \in [Components -> Numbers \cup {"zero"}]
  <1>1. \A key : Readable(text, key) => Component(text, key) \in Numbers \cup {"zero"}
    BY NumberIsRead DEF Readable, Component
  <1> QED BY <1>1, ParsedMove DEF Components

\* The limit: what becomes of a velocity that a text can hold.
LEMMA LimitedMove ==
  ASSUME NEW v \in [Components -> Numbers \cup {"zero"}]
  PROVE  /\ ApplySpeedLimit(v) \in Velocities
         /\ ApplySpeedLimit(v).z = v.z
         /\ {v.x, v.y} \subseteq Finite =>
              {ApplySpeedLimit(v).x, ApplySpeedLimit(v).y} \subseteq {"zero", "within"}
         /\ ~({v.x, v.y} \subseteq Finite) => "nan" \in {ApplySpeedLimit(v).x, ApplySpeedLimit(v).y}
         /\ \A key \in Components : Moves(ApplySpeedLimit(v)[key]) => Moves(v[key])
  <1> DEFINE m == Hypot(v.x, v.y)
  <1>1. v.x \in Doubles /\ v.y \in Doubles
    BY NumbersAssumption DEF Components, Doubles, Finite
  <1>2. CASE m \in {"beyond", "huge", "inf"}
    <2>1. ApplySpeedLimit(v) = [v EXCEPT !.x = Scaled(v.x, m), !.y = Scaled(v.y, m)]
      BY <1>2 DEF ApplySpeedLimit, Scale
    <2>2. \A a \in Doubles :
            /\ a \in Finite => Scaled(a, m) \in {"zero", "within"}
            /\ a \notin Finite => Scaled(a, m) = "nan"
            /\ Moves(Scaled(a, m)) => Moves(a)
      BY DEF Scaled, Doubles, Finite, Moves
    <2>3. Scaled(v.x, m) \in {"zero", "within", "nan"} /\ Scaled(v.y, m) \in {"zero", "within", "nan"}
      BY <1>1, <2>2
    <2>4. /\ ApplySpeedLimit(v).x = Scaled(v.x, m) /\ ApplySpeedLimit(v).y = Scaled(v.y, m)
          /\ ApplySpeedLimit(v).z = v.z
      BY <2>1 DEF Components
    <2>5. ApplySpeedLimit(v) \in Velocities
      BY <2>1, <2>3 DEF Components, Velocities
    <2>6. \A key \in Components : Moves(ApplySpeedLimit(v)[key]) => Moves(v[key])
      BY <1>1, <2>2, <2>4 DEF Components
    <2> HIDE DEF m
    <2> QED BY <1>1, <2>2, <2>4, <2>5, <2>6
  <1>3. CASE m \notin {"beyond", "huge", "inf"}
    <2>1. ApplySpeedLimit(v) = v
      BY <1>3 DEF ApplySpeedLimit
    <2>2. /\ {v.x, v.y} \subseteq Finite => {v.x, v.y} \subseteq {"zero", "within"}
          /\ ~({v.x, v.y} \subseteq Finite) => "nan" \in {v.x, v.y}
      BY <1>1, <1>3 DEF Hypot, Doubles, Finite
    <2> QED BY <2>1, <2>2 DEF Components, Velocities
  <1> QED BY <1>2, <1>3

\* What the switcher stores is what the handler reads, and one name at most.
LEMMA ReadAlike ==
  ASSUME NEW keys, NEW text \in Texts(keys)
  PROVE  /\ StoredModes(text) = HandledModes(text)
         /\ StoredModes(text) \subseteq Names \ {""}
  <1> DEFINE found == Find(text, "name", "string")
  <1>1. found = IF HasTyped(text, "name", "string") THEN {text.map["name"].value} ELSE {}
    BY DEF Find
  <1>2. found \subseteq Names /\ \A a, b \in found : a = b
    BY <1>1, StringIsRead
  <1>3. StoredModes(text) \subseteq found \ {""}
    BY DEF StoredModes
  <1> HIDE DEF found
  <1>4. StoredModes(text) # {} => found = found \ {""} /\ StoredModes(text) = found \ {""}
    BY <1>2, <1>3 DEF StoredModes, found
  <1>5. HandledModes(text) = IF StoredModes(text) = {} THEN {} ELSE found
    BY DEF HandledModes, ParseStringParameter, found
  <1> QED BY <1>2, <1>3, <1>4, <1>5

-----------------------------------------------------------------------------
LEMMA ParametersInitIInv ==
  ASSUME ParametersInit
  PROVE  ParametersIInv
  <1> USE DEF ParametersInit
  <1>1. velocity \in Velocities /\ twist \in Velocities
    BY DEF StandStill, Velocities
  <1>2. velocity.x = "zero" /\ velocity.y = "zero" /\ \A key \in Components : twist[key] = "zero"
    BY DEF StandStill, Components
  <1>3. LimitHoldsForFinite
    BY <1>2 DEF LimitHoldsForFinite, Finite, Components, StandStill
  <1>4. WhatMovesIsWalking
    BY <1>2 DEF WhatMovesIsWalking, Components, Moves
  <1>5. request.api = "none"
    OBVIOUS
  <1> QED BY <1>1, <1>3, <1>4, <1>5
          DEF ParametersIInv, ParametersTypeOK, MoveIsLongestReadablePrefix, SelectIsReadAlike

LEMMA MoveStep ==
  ASSUME ParametersIInv, NEW keys, NEW text \in Texts(keys), Move(text),
         request'.text = text
  PROVE  ParametersIInv'
  <1> USE DEF Move, ModeState
  <1>1. velocity' \in [Components -> Numbers \cup {"zero"}]
    BY ParsedMoveType
  <1>2. /\ twist' \in Velocities /\ twist'.z = velocity'.z
        /\ {velocity'.x, velocity'.y} \subseteq Finite =>
             {twist'.x, twist'.y} \subseteq {"zero", "within"}
        /\ ~({velocity'.x, velocity'.y} \subseteq Finite) => "nan" \in {twist'.x, twist'.y}
        /\ \A key \in Components : Moves(twist'[key]) => Moves(velocity'[key])
    BY <1>1, LimitedMove
  <1>3. ParametersTypeOK'
    <2>1. velocity' \in Velocities
      BY <1>1 DEF Velocities, Components
    <2>2. walking' \in BOOLEAN
      BY DEF HasMotion
    <2> QED BY <1>2, <2>1, <2>2 DEF ParametersIInv, ParametersTypeOK
  <1>4. LimitHoldsForFinite'
    BY <1>2 DEF LimitHoldsForFinite
  <1>5. WhatMovesIsWalking'
    BY <1>1, <1>2 DEF WhatMovesIsWalking, HasMotion, Components
  <1>6. MoveIsLongestReadablePrefix'
    <2> DEFINE keyOf == <<"x", "y", "z">>
               Expected(i) == IF /\ \A j \in 1 .. i : Readable(text, keyOf[j])
                                 /\ Has(text, keyOf[i])
                              THEN text.map[keyOf[i]].value ELSE "zero"
    <2>1. velocity'["x"] = Expected(1)
      BY ParsedMove DEF Component
    <2>2. velocity'["y"] = Expected(2)
      <3>1. (\A j \in 1 .. 2 : Readable(text, keyOf[j]))
              <=> Readable(text, "x") /\ Readable(text, "y")
        OBVIOUS
      <3> QED BY <3>1, ParsedMove DEF Component
    <2>3. velocity'["z"] = Expected(3)
      <3>1. (\A j \in 1 .. 3 : Readable(text, keyOf[j]))
              <=> Readable(text, "x") /\ Readable(text, "y") /\ Readable(text, "z")
        OBVIOUS
      <3> QED BY <3>1, ParsedMove DEF Component
    <2>4. \A i \in 1 .. 3 : velocity'[keyOf[i]] = Expected(i)
      <3> HIDE DEF Expected
      <3> QED BY <2>1, <2>2, <2>3
    <2> QED BY <2>4 DEF MoveIsLongestReadablePrefix, Readable
  <1>7. SelectIsReadAlike'
    BY DEF ParametersIInv, SelectIsReadAlike
  <1> QED BY <1>3, <1>4, <1>5, <1>6, <1>7 DEF ParametersIInv

\* The other requests leave the last MOVE alone.
LEMMA NoMoveKeeps ==
  ASSUME ParametersIInv, UNCHANGED MoveState, request'.api # "MOVE",
         continuous' \in BOOLEAN, level' \in SUBSET Numbers,
         mode' \in SUBSET (Names \ {""}), profile' = mode'
  PROVE  ParametersIInv'
  BY DEF ParametersIInv, MoveState, ParametersTypeOK, LimitHoldsForFinite,
     WhatMovesIsWalking, MoveIsLongestReadablePrefix, SelectIsReadAlike

LEMMA SwitchMoveModeStep ==
  ASSUME ParametersIInv, NEW text, SwitchMoveMode(text), request'.api # "MOVE"
  PROVE  ParametersIInv'
  <1>1. continuous' \in BOOLEAN
    <2>1. CASE ParseBoolParameter(text) = {}
      BY <2>1 DEF SwitchMoveMode, ParametersIInv, ParametersTypeOK
    <2>2. CASE ParseBoolParameter(text) # {}
      <3>1. continuous' = (TRUE \in ParseBoolParameter(text))
        BY <2>2 DEF SwitchMoveMode
      <3> QED BY <3>1
    <2> QED BY <2>1, <2>2
  <1> QED BY <1>1, NoMoveKeeps
          DEF SwitchMoveMode, ModeState, ParametersIInv, ParametersTypeOK, SelectIsReadAlike

LEMMA SpeedLevelStep ==
  ASSUME ParametersIInv, NEW keys, NEW text \in Texts(keys), SpeedLevel(text),
         request'.api # "MOVE"
  PROVE  ParametersIInv'
  <1>1. ParseIntParameter(text) \subseteq Numbers
    BY NumberIsRead DEF ParseIntParameter, Find
  <1>2. level' \in SUBSET Numbers
    BY <1>1 DEF SpeedLevel, Latest, ParametersIInv, ParametersTypeOK
  <1> QED BY <1>2, NoMoveKeeps
          DEF SpeedLevel, ModeState, ParametersIInv, ParametersTypeOK, SelectIsReadAlike

LEMMA SelectModeStep ==
  ASSUME ParametersIInv, NEW keys, NEW text \in Texts(keys), SelectMode(text),
         request'.api # "MOVE"
  PROVE  ParametersIInv'
  <1>1. mode' \in SUBSET (Names \ {""}) /\ profile' = mode'
    BY ReadAlike DEF SelectMode, Latest, ParametersIInv, ParametersTypeOK, SelectIsReadAlike
  <1> QED BY <1>1, NoMoveKeeps DEF SelectMode, ParametersIInv, ParametersTypeOK

\* Whatever texts were sent, the last of each kind was read as it should be.
THEOREM ParametersInvariance == ParametersSpec => []ParametersIInv
  <1>1. ParametersInit => ParametersIInv
    BY ParametersInitIInv
  <1>2. ParametersIInv /\ [ParametersNext]_parameterVars => ParametersIInv'
    <2> SUFFICES ASSUME ParametersIInv, [ParametersNext]_parameterVars
                 PROVE  ParametersIInv'
      OBVIOUS
    <2>1. CASE UNCHANGED parameterVars
      BY <2>1 DEF parameterVars, ParametersIInv, ParametersTypeOK, LimitHoldsForFinite,
         WhatMovesIsWalking, MoveIsLongestReadablePrefix, SelectIsReadAlike
    <2>2. ASSUME NEW api \in DOMAIN Keys, NEW text \in Texts(Keys[api]), Request(api, text)
          PROVE  ParametersIInv'
      <3>1. request'.api = api /\ request'.text = text
        BY <2>2 DEF Request
      <3>2. CASE api = "MOVE" /\ Move(text)
        BY <3>1, <3>2, MoveStep
      <3>3. CASE api = "SWITCHMOVEMODE" /\ SwitchMoveMode(text)
        BY <3>1, <3>3, SwitchMoveModeStep
      <3>4. CASE api = "SPEEDLEVEL" /\ SpeedLevel(text)
        BY <3>1, <3>4, SpeedLevelStep
      <3>5. CASE api = "SELECT_MODE" /\ SelectMode(text)
        BY <3>1, <3>5, SelectModeStep
      <3> QED BY <2>2, <3>2, <3>3, <3>4, <3>5 DEF Request
    <2> QED BY <2>1, <2>2 DEF ParametersNext
  <1> QED BY <1>1, <1>2, PTL DEF ParametersSpec

\* Type correctness for any numbers and names.
THEOREM ParametersTypeCorrect == ParametersSpec => []ParametersTypeOK
  <1>1. ParametersIInv => ParametersTypeOK
    BY DEF ParametersIInv
  <1> QED BY <1>1, ParametersInvariance, PTL

\* The cap holds for every finite velocity, overflowing ones too.
THEOREM LimitHolds == ParametersSpec => []LimitHoldsForFinite
  <1>1. ParametersIInv => LimitHoldsForFinite
    BY DEF ParametersIInv
  <1> QED BY <1>1, ParametersInvariance, PTL

\* Nothing that goes out leaves the record of walking unset.
THEOREM MovingIsWalking == ParametersSpec => []WhatMovesIsWalking
  <1>1. ParametersIInv => WhatMovesIsWalking
    BY DEF ParametersIInv
  <1> QED BY <1>1, ParametersInvariance, PTL

\* A MOVE is what was asked for up to the first component that cannot be read.
THEOREM MovePrefix == ParametersSpec => []MoveIsLongestReadablePrefix
  <1>1. ParametersIInv => MoveIsLongestReadablePrefix
    BY DEF ParametersIInv
  <1> QED BY <1>1, ParametersInvariance, PTL

\* The switcher and the publisher make the same of every SELECT_MODE.
THEOREM SelectAlike == ParametersSpec => []SelectIsReadAlike
  <1>1. ParametersIInv => SelectIsReadAlike
    BY DEF ParametersIInv
  <1> QED BY <1>1, ParametersInvariance, PTL

\* Only keys that its API knows are in the text of a request.
LEMMA KnownKeys ==
  ASSUME NEW keys, NEW text \in Texts(keys), NEW key \in DOMAIN text.map
  PROVE  text.kind = "object" /\ key \in keys /\ Has(text, key)
  <1>1. CASE text.map = NoObject
    BY <1>1 DEF NoObject
  <1>2. CASE text.kind = "object" /\ text.map \in Objects(keys)
    BY <1>2 DEF Objects, Has
  <1> QED BY <1>1, <1>2 DEF Texts

\* What a request that carries a value of the wrong type, MOVE apart, leaves as it was.
LEMMA WrongTypeChangesNothing ==
  ASSUME NEW api \in DOMAIN Keys, NEW text \in Texts(Keys[api]), Request(api, text),
         WronglyTyped(api, text)
  PROVE  UNCHANGED <<MoveState, continuous, level, ModeState>>
  <1>0. /\ api \in {"SPEEDLEVEL", "SWITCHMOVEMODE", "SELECT_MODE"}
        /\ \/ text.kind # "object"
           \/ \E key \in KeysInUse(text) : text.map[key].type # ValueType[api]
    BY DEF WronglyTyped, ValueType
  <1>1. CASE api = "SPEEDLEVEL" /\ SpeedLevel(text)
    <2>1. ParseIntParameter(text) = {}
      BY <1>0, <1>1, KnownKeys DEF ParseIntParameter, Find, HasTyped, Has, Keys, KeysInUse, ValueType
    <2> QED BY <1>1, <2>1 DEF SpeedLevel, Latest
  <1>2. CASE api = "SWITCHMOVEMODE" /\ SwitchMoveMode(text)
    <2>1. ASSUME text.kind # "object"
          PROVE  ParseBoolParameter(text) = {}
      BY <2>1 DEF ParseBoolParameter, Find, HasTyped, Has
    <2>2. ASSUME NEW key \in KeysInUse(text), text.map[key].type # "bool"
          PROVE  ParseBoolParameter(text) = {}
      <3>1. key \in {"data", "flag"} /\ (key = "flag" => ~Has(text, "data")) /\ Has(text, key)
        BY <1>2, <2>2, KnownKeys DEF KeysInUse, Keys
      <3> QED BY <2>2, <3>1 DEF ParseBoolParameter, Find, HasTyped
    <2>3. ParseBoolParameter(text) = {}
      BY <1>0, <1>2, <2>1, <2>2 DEF ValueType
    <2> QED BY <1>2, <2>3 DEF SwitchMoveMode
  <1>3. CASE api = "SELECT_MODE" /\ SelectMode(text)
    <2>1. ~ModeIsReadable(text)
      BY <1>0, <1>3, KnownKeys DEF ModeIsReadable, HasTyped, Has, Keys, KeysInUse, ValueType
    <2>2. StoredModes(text) = {} /\ HandledModes(text) = {}
      BY <2>1 DEF StoredModes, HandledModes
    <2> QED BY <1>3, <2>2 DEF SelectMode, Latest, ModeState
  <1> QED BY <1>0, <1>1, <1>2, <1>3 DEF Request

\* A request other than MOVE that has a value of a wrong type under a key in use, a
\* lone "flag" included, changes nothing: none is acted on in part.
THEOREM NothingHalfApplied == ParametersSpec => NoHalfAppliedRequest
  <1> DEFINE Applied == WronglyTyped(request'.api, request'.text)
                          => UNCHANGED <<MoveState, continuous, level, ModeState>>
  <1>1. [ParametersNext]_parameterVars => [Applied]_parameterVars
    <2> SUFFICES ASSUME NEW api \in DOMAIN Keys, NEW text \in Texts(Keys[api]),
                        Request(api, text)
                 PROVE  Applied
      BY DEF ParametersNext
    <2>1. request'.api = api /\ request'.text = text
      BY DEF Request
    <2> QED BY <2>1, WrongTypeChangesNothing
  <1> QED BY <1>1, PTL DEF ParametersSpec, NoHalfAppliedRequest

=============================================================================
