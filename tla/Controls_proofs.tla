---------------------------- MODULE Controls_proofs ----------------------------
(***************************************************************************)
(* Theorems about what moves controls, for any bounds.                     *)
(*                                                                         *)
(* Sidecar, for any surface, table, step of a motor and races, and any     *)
(* number of hands, moves of the desk and breaks: types, and that the      *)
(* console moves for a hand only.  Macros: a firing plays whole and in     *)
(* order.  Stream Deck: a press fires what is next on its key, once.       *)
(* Gangs: types and the engine's lock.  Then the composition of the four.  *)
(***************************************************************************)
EXTENDS MCControls, FunctionTheorems, FiniteSetTheorems, SequenceTheorems, WellFoundedInduction, TLAPS

-----------------------------------------------------------------------------
(* What the surface reports.                                                *)

Position == [what : {"position"}, of : Faders, at : Level, by : {"hand"}]
            \cup [what : {"position"}, of : Echoing, at : Level, by : {"motor"}]
Touch == [what : {"touch", "release"}, of : Touchy, by : {"hand"}]
Click == [what : {"click"}, of : Encoders, step : {-1, 1}, by : {"hand"}]
Event == Position \cup Touch \cup Click

\* What is of use of an event, whichever it is.
LEMMA EventParts ==
  ASSUME NEW ev \in Event
  PROVE  /\ ev.of \in Controls
         /\ ev.by \in {"hand", "motor"}
         /\ ev.what \in {"position", "touch", "release", "click"}
         /\ ev.what = "position" => ev.at \in Level /\ ev.of \in Faders
         /\ ev.what = "click" => ev.of \in Encoders /\ ev.step \in {-1, 1}
         /\ ev.what \in {"touch", "release"} => ev.of \in Touchy
         /\ ev.by = "motor" => ev.what = "position" /\ ev.of \in Echoing
<1>1. Encoders \subseteq Controls /\ Touchy \subseteq Controls /\ Echoing \subseteq Faders
  BY SidecarAssumption DEF Faders
<1>2. CASE ev \in Position
  BY <1>1, <1>2 DEF Position, Faders
<1>3. CASE ev \in Touch
  BY <1>1, <1>3 DEF Touch
<1>4. CASE ev \in Click
  BY <1>1, <1>4 DEF Click
<1>. QED BY <1>2, <1>3, <1>4 DEF Event

\* The first on a queue and the rest of it.
LEMMA SideEnds ==
  ASSUME NEW S, NEW q \in Seq(S)
  PROVE  /\ q # <<>> => /\ Head(q) \in S /\ Tail(q) \in Seq(S)
                        /\ Len(q) \in Nat \ {0} /\ Head(q) = q[1] /\ Len(Tail(q)) = Len(q) - 1
                        /\ \A i \in 1..Len(Tail(q)) : Tail(q)[i] = q[i + 1] /\ i + 1 \in 1..Len(q)
         /\ \A e \in S : /\ Append(q, e) \in Seq(S) /\ Len(Append(q, e)) = Len(q) + 1
                         /\ \A i \in 1..Len(Append(q, e)) :
                              Append(q, e)[i] = IF i = Len(q) + 1 THEN e ELSE q[i]
OBVIOUS

-----------------------------------------------------------------------------
(* The inductive invariant.                                                 *)

SideEventsOK == /\ sideEvents \in Seq(Event) /\ sideHeld \subseteq Faders
                /\ sideMotor \in [Controls -> Seq(Level)]
                /\ sideCommands \in Seq({"sync", "link", "reconnected"})

\* A motor's echo covers an interval of positions, and in it are the moves that
\* are on their way to a fader that reports them, and those reported.
Interval(s) == s = {} \/ \E lo, hi \in Level : lo <= hi /\ s = lo..hi
EchoesCover ==
  /\ \A b \in Controls : Interval(sideEcho[b])
  /\ \A b \in Controls : sideRamp[b] # Unknown => sidePos[b] # Unknown
  /\ \A b \in Echoing : \A i \in 1..Len(sideMotor[b]) : sideMotor[b][i] \in sideEcho[b]
  /\ \A i \in 1..Len(sideEvents) :
       sideEvents[i].by = "motor" => sideEvents[i].at \in sideEcho[sideEvents[i].of]

\* Between sweeps, an encoder's last click waits or is what was last sent.
Swept == sideOn /\ sideLinked /\ sideCommands = <<>> /\ sidePhase # "sync"
ClicksSent ==
  \A b \in Encoders :
    /\ sideNorm[b] = Unknown => sidePending[b] = Unknown
    /\ InUse(b) /\ Swept /\ sideNorm[b] # Unknown =>
         \/ sidePending[b] = sideNorm[b]
         \/ sidePending[b] = Unknown /\ sideLast[b] = sideNorm[b]

SideInv == SideTypeOK /\ SideEventsOK /\ EchoesCover /\ ClicksSent

\* Constants, as the proofs use them.
LEMMA SideConstants ==
  /\ Encoders \subseteq Controls /\ Touchy \subseteq Faders /\ Echoing \subseteq Faders
  /\ Faders \subseteq Controls /\ Touchy \cap Echoing = {}
  /\ Target \in [Controls -> Parameters] /\ Bottom \in Int /\ Full \in Int
  /\ Middle \in Level /\ MaxStep \in Nat \ {0} /\ Unknown \notin Int /\ Unknown \notin Level
  /\ Level \subseteq Int /\ Bottom \in Level /\ Bottom <= Full
BY SidecarAssumption DEF Faders, Level

-----------------------------------------------------------------------------
(* The motors.                                                              *)

\* A step toward a level is a level.
LEMMA TowardLevel ==
  ASSUME NEW from \in Level, NEW to \in Level
  PROVE  Toward(from, to) \in Level
BY SideConstants DEF Toward, Distance, Level

\* The echo grows by the position, and stays an interval.
LEMMA CoveredGrows ==
  ASSUME NEW b \in Controls, NEW v \in Level, Interval(sideEcho[b]), sideEcho[b] \in SUBSET Level
  PROVE  /\ Interval(Covered(b, v)) /\ Covered(b, v) \in SUBSET Level
         /\ v \in Covered(b, v) /\ sideEcho[b] \subseteq Covered(b, v)
<1>. DEFINE old == sideEcho[b] \cup {v}
            low == CHOOSE x \in old : \A y \in old : x <= y
            high == CHOOSE x \in old : \A y \in old : x >= y
<1>1. old \subseteq Level /\ v \in old /\ Level \subseteq Int
  BY SideConstants
<1>2. PICK l \in old, h \in old : \A y \in old : l <= y /\ y <= h
  <2>1. CASE sideEcho[b] = {}
    BY <1>1, <2>1
  <2>2. CASE sideEcho[b] # {}
    <3>1. PICK lo, hi \in Level : lo <= hi /\ sideEcho[b] = lo..hi
      BY <2>2 DEF Interval
    <3>2. lo \in Int /\ hi \in Int /\ v \in Int
      BY <1>1
    <3>0. lo \in old /\ hi \in old /\ \A y \in old : y = v \/ (y \in Int /\ lo <= y /\ y <= hi)
      BY <3>1, <3>2
    <3>3. \E l \in old : \A y \in old : l <= y
      <4>1. CASE v < lo
        BY <3>0, <3>2, <4>1
      <4>2. CASE ~(v < lo)
        BY <3>0, <3>2, <4>2
      <4>. QED BY <4>1, <4>2
    <3>4. \E h \in old : \A y \in old : y <= h
      <4>1. CASE v > hi
        BY <3>0, <3>2, <4>1
      <4>2. CASE ~(v > hi)
        BY <3>0, <3>2, <4>2
      <4>. QED BY <4>1, <4>2
    <3>. QED BY <3>3, <3>4
  <2>. QED BY <2>1, <2>2
<1>3. low \in old /\ high \in old /\ \A y \in old : low <= y /\ y <= high
  <2>1. \E x \in old : \A y \in old : x <= y
    BY <1>2
  <2>2. \E x \in old : \A y \in old : x >= y
    BY <1>1, <1>2
  <2>3. low \in old /\ \A y \in old : low <= y
    BY <2>1
  <2>4. high \in old /\ \A y \in old : high >= y
    BY <2>2
  <2>. QED BY <1>1, <2>3, <2>4
<1>4. Covered(b, v) = low..high
  BY DEF Covered
<1>. HIDE DEF low, high
<1>5. low \in Level /\ high \in Level /\ low <= high /\ low \in Int /\ high \in Int
  BY <1>1, <1>3
<1>6. low..high \subseteq Level
  BY <1>5, SideConstants DEF Level
<1>7. old \subseteq low..high
  BY <1>1, <1>3, <1>5
<1>. QED BY <1>1, <1>4, <1>5, <1>6, <1>7 DEF Interval

\* What is commanded is in the echo, and widens it.
LEMMA CommandsCovered ==
  ASSUME SideInv, NEW to, CommandMotors(to), DOMAIN to \subseteq Controls,
         \A b \in DOMAIN to : to[b] \in Level
  PROVE  /\ sidePos' \in [Controls -> Level \cup {Unknown}]
         /\ \A b \in Controls : sidePos'[b] = IF b \in DOMAIN to THEN to[b] ELSE sidePos[b]
         /\ sideEcho' \in [Controls -> SUBSET Level]
         /\ \A b \in Controls : Interval(sideEcho'[b]) /\ sideEcho[b] \subseteq sideEcho'[b]
         /\ sideMotor' \in [Controls -> Seq(Level)]
         /\ \A b \in Echoing : \A i \in 1..Len(sideMotor'[b]) : sideMotor'[b][i] \in sideEcho'[b]
         /\ sideLost' \subseteq Controls
<1>1. /\ sidePos \in [Controls -> Level \cup {Unknown}]
      /\ sideEcho \in [Controls -> SUBSET Level] /\ \A b \in Controls : Interval(sideEcho[b])
      /\ sideMotor \in [Controls -> Seq(Level)] /\ sideLost \subseteq Controls
  BY DEF SideInv, SideTypeOK, SideEventsOK, EchoesCover
<1>2. /\ sidePos' = [b \in Controls |-> IF b \in DOMAIN to THEN to[b] ELSE sidePos[b]]
      /\ sideEcho' = [b \in Controls |-> IF b \in DOMAIN to THEN Covered(b, to[b]) ELSE sideEcho[b]]
      /\ sideMotor' = [b \in Controls |-> IF b \in DOMAIN to THEN Append(sideMotor[b], to[b])
                                          ELSE sideMotor[b]]
      /\ sideLost' \subseteq sideLost
  BY DEF CommandMotors
<1>3. ASSUME NEW b \in Controls
      PROVE  /\ Interval(sideEcho'[b]) /\ sideEcho[b] \subseteq sideEcho'[b]
             /\ sideEcho'[b] \in SUBSET Level
  <2>1. CASE b \in DOMAIN to
    <3>1. to[b] \in Level /\ Interval(sideEcho[b]) /\ sideEcho[b] \in SUBSET Level
      BY <1>1, <2>1
    <3>2. sideEcho'[b] = Covered(b, to[b])
      BY <1>2, <2>1
    <3>. QED BY <3>1, <3>2, CoveredGrows
  <2>2. CASE b \notin DOMAIN to
    BY <1>1, <1>2, <2>2
  <2>. QED BY <2>1, <2>2
<1>4. ASSUME NEW b \in Controls
      PROVE  /\ sideMotor'[b] \in Seq(Level)
             /\ b \in Echoing => \A i \in 1..Len(sideMotor'[b]) : sideMotor'[b][i] \in sideEcho'[b]
  <2>1. b \in Echoing => \A i \in 1..Len(sideMotor[b]) : sideMotor[b][i] \in sideEcho[b]
    BY DEF SideInv, EchoesCover
  <2>2. CASE b \in DOMAIN to
    <3>1. to[b] \in Level /\ sideMotor[b] \in Seq(Level)
          /\ Interval(sideEcho[b]) /\ sideEcho[b] \in SUBSET Level
      BY <1>1, <2>2
    <3>2. sideEcho'[b] = Covered(b, to[b]) /\ sideMotor'[b] = Append(sideMotor[b], to[b])
      BY <1>2, <2>2
    <3>3. to[b] \in sideEcho'[b] /\ sideEcho[b] \subseteq sideEcho'[b]
      BY <3>1, <3>2, CoveredGrows
    <3>4. /\ Append(sideMotor[b], to[b]) \in Seq(Level)
          /\ Len(Append(sideMotor[b], to[b])) = Len(sideMotor[b]) + 1
          /\ \A i \in 1..Len(Append(sideMotor[b], to[b])) :
               Append(sideMotor[b], to[b])[i] = IF i = Len(sideMotor[b]) + 1 THEN to[b] ELSE sideMotor[b][i]
      BY <3>1, SideEnds
    <3>5. Len(sideMotor[b]) \in Nat
      BY <3>1
    <3>. QED BY <2>1, <3>2, <3>3, <3>4, <3>5
  <2>3. CASE b \notin DOMAIN to
    BY <1>1, <1>2, <1>3, <2>1, <2>3
  <2>. QED BY <2>2, <2>3
<1>5. \A b \in Echoing : b \in Controls
  BY SideConstants
<1>6. sidePos' \in [Controls -> Level \cup {Unknown}]
  BY <1>1, <1>2
<1>7. sideEcho' \in [Controls -> SUBSET Level] /\ sideMotor' \in [Controls -> Seq(Level)]
  BY <1>2, <1>3, <1>4
<1>. QED BY <1>1, <1>2, <1>3, <1>4, <1>5, <1>6, <1>7

\* A drive is a command to those it moves, and leaves no ramp without a position.
LEMMA DrivesCovered ==
  ASSUME SideInv, NEW bs \in SUBSET Controls, NEW grasped, NEW kept \in [Controls -> Level \cup {Unknown}],
         \A b \in Controls \ bs : kept[b] # Unknown => sidePos[b] # Unknown,
         DriveMotors(bs, grasped, kept)
  PROVE  /\ sidePos' \in [Controls -> Level \cup {Unknown}]
         /\ sideRamp' \in [Controls -> Level \cup {Unknown}]
         /\ \A b \in Controls : sideRamp'[b] # Unknown => sidePos'[b] # Unknown
         /\ sideEcho' \in [Controls -> SUBSET Level]
         /\ \A b \in Controls : Interval(sideEcho'[b]) /\ sideEcho[b] \subseteq sideEcho'[b]
         /\ sideMotor' \in [Controls -> Seq(Level)]
         /\ \A b \in Echoing : \A i \in 1..Len(sideMotor'[b]) : sideMotor'[b][i] \in sideEcho'[b]
         /\ sideLost' \subseteq Controls
<1>. DEFINE moved == {b \in bs : ~Far(b) \/ b \notin grasped}
            to == [b \in moved |-> Toward(FromWhere(b), Value(b))]
<1>1. CommandMotors(to) /\ sideRamp' = [b \in Controls |->
          IF b \notin bs THEN kept[b] ELSE IF Far(b) /\ b \in moved THEN Value(b) ELSE Unknown]
  BY DEF DriveMotors
<1>2. \A b \in Controls : Value(b) \in Level /\ FromWhere(b) \in Level
  BY SideConstants DEF SideInv, SideTypeOK, Value, FromWhere
<1>3. \A b \in moved : Toward(FromWhere(b), Value(b)) \in Level
  BY <1>2, TowardLevel
<1>4. DOMAIN to = moved /\ DOMAIN to \subseteq Controls /\ \A b \in DOMAIN to : to[b] \in Level
  BY <1>3
<1>. HIDE DEF to, moved
<1>5. /\ sidePos' \in [Controls -> Level \cup {Unknown}]
      /\ \A b \in Controls : sidePos'[b] = IF b \in DOMAIN to THEN to[b] ELSE sidePos[b]
      /\ sideEcho' \in [Controls -> SUBSET Level]
      /\ \A b \in Controls : Interval(sideEcho'[b]) /\ sideEcho[b] \subseteq sideEcho'[b]
      /\ sideMotor' \in [Controls -> Seq(Level)]
      /\ \A b \in Echoing : \A i \in 1..Len(sideMotor'[b]) : sideMotor'[b][i] \in sideEcho'[b]
      /\ sideLost' \subseteq Controls
  BY <1>1, <1>4, CommandsCovered
<1>6. sideRamp' \in [Controls -> Level \cup {Unknown}]
  BY <1>1, <1>2
<1>7. ASSUME NEW b \in Controls, sideRamp'[b] # Unknown
      PROVE  sidePos'[b] # Unknown
  <2>1. CASE b \in bs
    <3>1. b \in moved
      BY <1>1, <1>7, <2>1
    <3>. QED BY <1>4, <1>5, <3>1, SideConstants
  <2>2. CASE b \notin bs
    <3>1. b \notin moved
      BY <2>2 DEF moved
    <3>. QED BY <1>1, <1>4, <1>5, <1>7, <2>2, <3>1
  <2>. QED BY <2>1, <2>2
<1>. QED BY <1>5, <1>6, <1>7

-----------------------------------------------------------------------------
(* Every step keeps the invariant.                                          *)

EchoesWiden == \A b \in Controls : sideEcho[b] \subseteq sideEcho'[b]

\* What is left of the reports is covered where the echoes only grow.
LEMMA ReportsCovered ==
  ASSUME SideInv, UNCHANGED sideEvents \/ (sideEvents # <<>> /\ sideEvents' = Tail(sideEvents)),
         EchoesWiden
  PROVE  /\ sideEvents' \in Seq(Event)
         /\ \A i \in 1..Len(sideEvents') :
              sideEvents'[i].by = "motor" => sideEvents'[i].at \in sideEcho'[sideEvents'[i].of]
<1>1. sideEvents \in Seq(Event)
  BY DEF SideInv, SideEventsOK
<1>2. sideEvents' \in Seq(Event) /\ \A i \in 1..Len(sideEvents') :
        \E j \in 1..Len(sideEvents) : sideEvents'[i] = sideEvents[j]
  <2>1. CASE sideEvents' = sideEvents
    BY <1>1, <2>1
  <2>2. CASE sideEvents # <<>> /\ sideEvents' = Tail(sideEvents)
    BY <1>1, <2>2, SideEnds
  <2>. QED BY <2>1, <2>2
<1>3. \A j \in 1..Len(sideEvents) :
        sideEvents[j] \in Event /\ (sideEvents[j].by = "motor" => sideEvents[j].at \in sideEcho[sideEvents[j].of])
  BY <1>1 DEF SideInv, EchoesCover
<1>4. \A j \in 1..Len(sideEvents) : sideEvents[j].of \in Controls
  BY <1>3, EventParts
<1>. QED BY <1>2, <1>3, <1>4 DEF EchoesWiden

\* The event that is taken.
LEMMA TakenEvent ==
  ASSUME SideInv, Taken
  PROVE  /\ Head(sideEvents) \in Event /\ sidePhase = "idle"
         /\ sideEvents # <<>> /\ sideEvents' = Tail(sideEvents)
         /\ Head(sideEvents).by = "motor" => Head(sideEvents).at \in sideEcho[Head(sideEvents).of]
<1>1. sideEvents \in Seq(Event) /\ sideEvents # <<>>
  BY DEF SideInv, SideEventsOK, Taken
<1>2. Head(sideEvents) \in Event /\ Head(sideEvents) = sideEvents[1] /\ 1 \in 1..Len(sideEvents)
  BY <1>1, SideEnds
<1>. QED BY <1>1, <1>2 DEF Taken, SideInv, EchoesCover

\* An encoder's value, unsent: what the service remembers of it stays.
LEMMA ClicksStay ==
  ASSUME SideInv, UNCHANGED <<sideNorm, sidePending, sideLast>>,
         \A b \in Encoders : InUse(b)' /\ Swept' => InUse(b) /\ Swept
  PROVE  ClicksSent'
BY DEF SideInv, ClicksSent

LEMMA SwallowInv == ASSUME SideInv, Swallow PROVE SideInv'
<1>. DEFINE ev == Head(sideEvents)
<1>1. ev \in Event /\ sideEvents # <<>> /\ sideEvents' = Tail(sideEvents)
  BY TakenEvent DEF Swallow
<1>2. ev.of \in Controls
  BY <1>1, EventParts
<1>3. /\ sideTouched' \subseteq sideTouched \cup Controls
      /\ sideLost' \subseteq sideLost \cup {ev.of}
      /\ UNCHANGED <<sideShow, sideLinked, sideMirror, sideSeen, sidePhase, sideSent, sideEcho,
                     sideMoves, sideDecode, sideCommands, sideMotor, sideSurface, sideBounds>>
  BY DEF Swallow
<1>. HIDE DEF ev
<1>4. SideTypeOK'
  BY <1>2, <1>3 DEF SideInv, SideTypeOK, sideShow, sideMoves, sideDecode, sideSurface
<1>5. SideEventsOK' /\ EchoesCover'
  BY <1>1, <1>3, ReportsCovered DEF SideInv, SideEventsOK, EchoesCover, EchoesWiden, sideMoves, sideSurface
<1>6. ClicksSent'
  BY <1>3, ClicksStay DEF InUse, InTable, Swept, sideShow, sideDecode
<1>. QED BY <1>4, <1>5, <1>6 DEF SideInv

LEMMA TakeTouchInv == ASSUME SideInv, TakeTouch PROVE SideInv'
<1>. DEFINE ev == Head(sideEvents)
<1>1. /\ ev \in Event /\ sideEvents # <<>> /\ sideEvents' = Tail(sideEvents) /\ ev.what = "touch"
      /\ ev.by = "motor" => ev.at \in sideEcho[ev.of]
  BY TakenEvent DEF TakeTouch
<1>2. ev.of \in Controls /\ ev.of \in Touchy
  BY <1>1, EventParts
<1>3. /\ \/ UNCHANGED <<sideTouched, sideRamp, sideEcho>>
         \/ /\ sideTouched' = sideTouched \cup {ev.of}
            /\ sideRamp' = [sideRamp EXCEPT ![ev.of] = Unknown]
            /\ sideEcho' = [sideEcho EXCEPT ![ev.of] = {}]
      /\ UNCHANGED <<sideShow, sideLinked, sideMirror, sideSeen, sidePhase, sideSent, sidePos,
                     sideDecode, sideCommands, sideMotor, sideSurface, sideBounds, sideLost>>
  BY DEF TakeTouch
<1>. HIDE DEF ev
<1>4. SideTypeOK'
  <2>1. sideTouched' \in SUBSET Controls /\ sideRamp' \in [Controls -> Level \cup {Unknown}]
        /\ sideEcho' \in [Controls -> SUBSET Level]
    BY <1>2, <1>3 DEF SideInv, SideTypeOK
  <2>. QED BY <1>3, <2>1 DEF SideInv, SideTypeOK, sideShow, sideDecode, sideSurface
<1>5. ASSUME NEW i \in 1..Len(sideEvents')
      PROVE  /\ sideEvents'[i] \in Event
             /\ sideEvents'[i].by = "motor" => sideEvents'[i].at \in sideEcho[sideEvents'[i].of]
  <2>1. sideEvents \in Seq(Event)
    BY DEF SideInv, SideEventsOK
  <2>2. i + 1 \in 1..Len(sideEvents) /\ sideEvents'[i] = sideEvents[i + 1]
    BY <1>1, <1>5, <2>1, SideEnds
  <2>. QED BY <2>1, <2>2 DEF SideInv, EchoesCover
<1>6. SideEventsOK'
  BY <1>1, <1>3, SideEnds DEF SideInv, SideEventsOK, sideSurface
<1>7. \A b \in Echoing : sideEcho'[b] = sideEcho[b] /\ b \in Controls
  BY <1>2, <1>3, SideConstants DEF SideInv, SideTypeOK
<1>8. EchoesCover'
  <2>1. \A i \in 1..Len(sideEvents') :
          sideEvents'[i].by = "motor" => sideEvents'[i].at \in sideEcho'[sideEvents'[i].of]
    BY <1>5, <1>7, EventParts
  <2>2. \A b \in Controls : Interval(sideEcho'[b])
    BY <1>2, <1>3 DEF SideInv, SideTypeOK, EchoesCover, Interval
  <2>3. \A b \in Controls : sideRamp'[b] # Unknown => sidePos'[b] # Unknown
    BY <1>2, <1>3 DEF SideInv, SideTypeOK, EchoesCover
  <2>4. \A b \in Echoing : \A j \in 1..Len(sideMotor'[b]) : sideMotor'[b][j] \in sideEcho'[b]
    BY <1>3, <1>7 DEF SideInv, EchoesCover
  <2>. QED BY <2>1, <2>2, <2>3, <2>4 DEF EchoesCover
<1>9. ClicksSent'
  BY <1>3, ClicksStay DEF InUse, InTable, Swept, sideShow, sideDecode
<1>. QED BY <1>4, <1>6, <1>8, <1>9 DEF SideInv

LEMMA TakeReleaseInv == ASSUME SideInv, TakeRelease PROVE SideInv'
<1>. DEFINE ev == Head(sideEvents)
            bs == IF ev.of \in Motors THEN {ev.of} ELSE {}
<1>1. ev \in Event /\ sideEvents # <<>> /\ sideEvents' = Tail(sideEvents)
  BY TakenEvent DEF TakeRelease
<1>2. ev.of \in Controls /\ bs \in SUBSET Controls
  BY <1>1, EventParts
<1>3. /\ DriveMotors(bs, {}, sideRamp)
      /\ sideTouched' = sideTouched \ {ev.of}
      /\ UNCHANGED <<sideShow, sideLinked, sideMirror, sideSeen, sidePhase, sideSent,
                     sideDecode, sideCommands, sideSurface, sideBounds>>
  BY DEF TakeRelease, Released
<1>. HIDE DEF ev, bs
<1>4. /\ sideRamp \in [Controls -> Level \cup {Unknown}]
      /\ \A b \in Controls : sideRamp[b] # Unknown => sidePos[b] # Unknown
  BY DEF SideInv, SideTypeOK, EchoesCover
<1>5. /\ sidePos' \in [Controls -> Level \cup {Unknown}]
      /\ sideRamp' \in [Controls -> Level \cup {Unknown}]
      /\ \A b \in Controls : sideRamp'[b] # Unknown => sidePos'[b] # Unknown
      /\ sideEcho' \in [Controls -> SUBSET Level]
      /\ \A b \in Controls : Interval(sideEcho'[b]) /\ sideEcho[b] \subseteq sideEcho'[b]
      /\ sideMotor' \in [Controls -> Seq(Level)]
      /\ \A b \in Echoing : \A i \in 1..Len(sideMotor'[b]) : sideMotor'[b][i] \in sideEcho'[b]
      /\ sideLost' \subseteq Controls
  BY <1>2, <1>3, <1>4, DrivesCovered
<1>6. SideTypeOK'
  BY <1>3, <1>5 DEF SideInv, SideTypeOK, sideShow, sideDecode, sideSurface
<1>7. SideEventsOK' /\ EchoesCover'
  BY <1>1, <1>3, <1>5, ReportsCovered DEF SideInv, SideEventsOK, EchoesCover, EchoesWiden, sideSurface
<1>8. ClicksSent'
  BY <1>3, ClicksStay DEF InUse, InTable, Swept, sideShow, sideDecode
<1>. QED BY <1>6, <1>7, <1>8 DEF SideInv

\* A level sent or waiting is a level.
LEMMA SendTypes ==
  ASSUME SideInv, NEW b \in Controls, NEW v \in Level, SendValue(b, v)
  PROVE  /\ sideSent' \in [Parameters -> Level \cup {Unknown}]
         /\ sideLast' \in [Controls -> Level \cup {Unknown}]
         /\ sideMirror' \in [Parameters -> Level] /\ sideSeen' \in BOOLEAN
         /\ \A c \in Controls : c # b \/ b \notin Encoders => sideLast'[c] = sideLast[c]
         /\ b \in Encoders /\ sideLinked => sideLast'[b] = v
<1>1. Target[b] \in Parameters
  BY SideConstants
<1>2. CASE ~sideLinked
  BY <1>2 DEF SendValue, SideInv, SideTypeOK
<1>3. CASE sideLinked
  <2>1. /\ sideLast \in [Controls -> Level \cup {Unknown}]
        /\ sideSent \in [Parameters -> Level \cup {Unknown}] /\ sideMirror \in [Parameters -> Level]
    BY DEF SideInv, SideTypeOK
  <2>2. /\ sideSent' = [sideSent EXCEPT ![Target[b]] = v] /\ sideSeen' = FALSE
        /\ sideMirror' = [sideMirror EXCEPT ![Target[b]] = v]
        /\ sideLast' = IF b \in Encoders THEN [sideLast EXCEPT ![b] = v] ELSE sideLast
    BY <1>3 DEF SendValue
  <2>3. /\ sideLast' \in [Controls -> Level \cup {Unknown}]
        /\ \A c \in Controls : c # b \/ b \notin Encoders => sideLast'[c] = sideLast[c]
        /\ b \in Encoders => sideLast'[b] = v
    BY <2>1, <2>2
  <2>. QED BY <1>1, <2>1, <2>2, <2>3
<1>. QED BY <1>2, <1>3

LEMMA DispatchTypes ==
  ASSUME SideInv, NEW b \in Controls, NEW v \in Level, Dispatch(b, v)
  PROVE  /\ sideSent' \in [Parameters -> Level \cup {Unknown}]
         /\ {sideLast, sidePending}' \subseteq [Controls -> Level \cup {Unknown}]
         /\ sideMirror' \in [Parameters -> Level] /\ sideSeen' \in BOOLEAN
         /\ sideFloor' \subseteq Controls
         /\ \A c \in Controls : c # b => sidePending'[c] = sidePending[c]
         /\ \A c \in Controls : c # b \/ b \notin Encoders => sideLast'[c] = sideLast[c]
         /\ b \in Encoders /\ sideLinked =>
              sidePending'[b] = v \/ (sidePending'[b] = Unknown /\ sideLast'[b] = v)
<1>1. CASE b \in sideFloor
  BY <1>1 DEF Dispatch, SideInv, SideTypeOK
<1>2. CASE b \notin sideFloor
  <2>1. SendValue(b, v) /\ sidePending' = [sidePending EXCEPT ![b] = Unknown] /\ sideFloor' = sideFloor \cup {b}
    BY <1>2 DEF Dispatch
  <2>. QED BY <2>1, SendTypes DEF SideInv, SideTypeOK
<1>. QED BY <1>1, <1>2

LEMMA TakePositionInv == ASSUME SideInv, TakePosition PROVE SideInv'
<1>. DEFINE ev == Head(sideEvents)
<1>1. ev \in Event /\ sideEvents # <<>> /\ sideEvents' = Tail(sideEvents) /\ ev.what = "position"
  BY TakenEvent DEF TakePosition
<1>2. ev.of \in Controls /\ ev.of \in Faders /\ ev.of \notin Encoders /\ ev.at \in Level
  BY <1>1, EventParts DEF Faders
<1>3. /\ \/ UNCHANGED <<sideMoves, sideFloor, sidePending, sideSent, sideLast, sideMirror, sideSeen>>
         \/ /\ sidePos' = [sidePos EXCEPT ![ev.of] = ev.at]
            /\ sideRamp' = [sideRamp EXCEPT ![ev.of] = Unknown]
            /\ Dispatch(ev.of, ev.at)
      /\ sideLost' \subseteq sideLost \cup {ev.of}
      /\ UNCHANGED <<sideShow, sideLinked, sidePhase, sideEcho, sideTouched, sideNorm, sideCommands,
                     sideMotor, sideSurface, sideBounds>>
  BY DEF TakePosition
<1>. HIDE DEF ev
<1>4. /\ sideSent' \in [Parameters -> Level \cup {Unknown}]
      /\ {sideLast, sidePending}' \subseteq [Controls -> Level \cup {Unknown}]
      /\ sideMirror' \in [Parameters -> Level] /\ sideSeen' \in BOOLEAN
      /\ sideFloor' \subseteq Controls
      /\ \A c \in Encoders : sidePending'[c] = sidePending[c] /\ sideLast'[c] = sideLast[c]
  <2>1. CASE UNCHANGED <<sideMoves, sideFloor, sidePending, sideSent, sideLast, sideMirror, sideSeen>>
    BY <2>1 DEF SideInv, SideTypeOK
  <2>2. CASE Dispatch(ev.of, ev.at)
    <3>1. \A c \in Encoders : c \in Controls /\ c # ev.of
      BY <1>2, SideConstants
    <3>. QED BY <1>2, <2>2, <3>1, DispatchTypes
  <2>. QED BY <1>3, <2>1, <2>2
<1>5. /\ {sidePos, sideRamp}' \subseteq [Controls -> Level \cup {Unknown}]
      /\ \A b \in Controls : sideRamp'[b] # Unknown => sidePos'[b] # Unknown
  BY <1>2, <1>3 DEF SideInv, SideTypeOK, EchoesCover, sideMoves
<1>6. SideTypeOK'
  BY <1>2, <1>3, <1>4, <1>5 DEF SideInv, SideTypeOK, sideShow, sideSurface
<1>7. SideEventsOK' /\ EchoesCover'
  BY <1>1, <1>3, <1>5, ReportsCovered DEF SideInv, SideEventsOK, EchoesCover, EchoesWiden, sideSurface
<1>8. ClicksSent'
  BY <1>3, <1>4 DEF SideInv, ClicksSent, InUse, InTable, Swept, sideShow
<1>. QED BY <1>6, <1>7, <1>8 DEF SideInv

\* Where a click starts from is a level, and where it ends.
LEMMA ClickLevel ==
  ASSUME NEW base \in Level, NEW step \in {-1, 1}
  PROVE  Clamped(base + step) \in Level /\ Distance(base, Clamped(base + step)) <= 1
BY SideConstants DEF Clamped, Distance, Level

LEMMA TakeClickInv == ASSUME SideInv, TakeClick PROVE SideInv'
<1>. DEFINE ev == Head(sideEvents)
            base == IF Reseeds(ev.of) THEN Value(ev.of) ELSE sideNorm[ev.of]
            to == Clamped(base + ev.step)
<1>1. ev \in Event /\ sideEvents # <<>> /\ sideEvents' = Tail(sideEvents) /\ ev.what = "click"
  BY TakenEvent DEF TakeClick
<1>2. ev.of \in Encoders /\ ev.of \in Controls /\ ev.step \in {-1, 1}
  BY <1>1, EventParts
<1>3. /\ \/ ~InUse(ev.of) /\ UNCHANGED <<sideDecode, sideSent, sideMirror, sideSeen>>
         \/ /\ sideNorm' = [sideNorm EXCEPT ![ev.of] = to]
            /\ Dispatch(ev.of, to)
      /\ UNCHANGED <<sideShow, sideLinked, sidePhase, sideEcho, sideTouched, sideMoves, sideCommands,
                     sideMotor, sideSurface, sideBounds, sideLost>>
  BY DEF TakeClick
<1>4. to \in Level
  <2>1. Value(ev.of) \in Level
    BY <1>2, SideConstants DEF Value, SideInv, SideTypeOK
  <2>2. sideNorm[ev.of] \in Level \/ Reseeds(ev.of)
    BY <1>2 DEF Reseeds, SideInv, SideTypeOK
  <2>3. base \in Level
    BY <2>1, <2>2
  <2>. QED BY <1>2, <2>3, ClickLevel
<1>. HIDE DEF ev, to
<1>5. CASE UNCHANGED <<sideDecode, sideSent, sideMirror, sideSeen>>
  <2>1. SideTypeOK'
    BY <1>3, <1>5 DEF SideInv, SideTypeOK, sideShow, sideSurface, sideMoves, sideDecode
  <2>2. SideEventsOK' /\ EchoesCover'
    BY <1>1, <1>3, ReportsCovered DEF SideInv, SideEventsOK, EchoesCover, EchoesWiden, sideSurface, sideMoves
  <2>3. ClicksSent'
    BY <1>3, <1>5, ClicksStay DEF InUse, InTable, Swept, sideShow, sideDecode
  <2>. QED BY <2>1, <2>2, <2>3 DEF SideInv
<1>6. CASE sideNorm' = [sideNorm EXCEPT ![ev.of] = to] /\ Dispatch(ev.of, to)
  <2>1. /\ sideSent' \in [Parameters -> Level \cup {Unknown}]
        /\ {sideLast, sidePending}' \subseteq [Controls -> Level \cup {Unknown}]
        /\ sideMirror' \in [Parameters -> Level] /\ sideSeen' \in BOOLEAN
        /\ sideFloor' \subseteq Controls
        /\ \A c \in Controls : c # ev.of => sidePending'[c] = sidePending[c] /\ sideLast'[c] = sideLast[c]
        /\ sideLinked => sidePending'[ev.of] = to \/ (sidePending'[ev.of] = Unknown /\ sideLast'[ev.of] = to)
    BY <1>2, <1>4, <1>6, DispatchTypes
  <2>2. /\ sideNorm' \in [Controls -> Level \cup {Unknown}] /\ sideNorm'[ev.of] = to
        /\ \A c \in Controls : c # ev.of => sideNorm'[c] = sideNorm[c]
    BY <1>2, <1>4, <1>6 DEF SideInv, SideTypeOK
  <2>3. SideTypeOK'
    BY <1>3, <2>1, <2>2 DEF SideInv, SideTypeOK, sideShow, sideSurface, sideMoves
  <2>4. SideEventsOK' /\ EchoesCover'
    BY <1>1, <1>3, ReportsCovered DEF SideInv, SideEventsOK, EchoesCover, EchoesWiden, sideSurface, sideMoves
  <2>5. ASSUME NEW b \in Encoders
        PROVE  /\ sideNorm'[b] = Unknown => sidePending'[b] = Unknown
               /\ InUse(b)' /\ Swept' /\ sideNorm'[b] # Unknown =>
                    \/ sidePending'[b] = sideNorm'[b]
                    \/ sidePending'[b] = Unknown /\ sideLast'[b] = sideNorm'[b]
    <3>1. b \in Controls
      BY SideConstants
    <3>2. InUse(b)' /\ Swept' => InUse(b) /\ Swept /\ sideLinked
      BY <1>3 DEF InUse, InTable, Swept, sideShow
    <3>3. CASE b = ev.of
      BY <1>4, <2>1, <2>2, <3>2, <3>3, SideConstants
    <3>4. CASE b # ev.of
      BY <2>1, <2>2, <3>1, <3>2, <3>4 DEF SideInv, ClicksSent
    <3>. QED BY <3>3, <3>4
  <2>6. ClicksSent'
    BY <2>5 DEF ClicksSent
  <2>. QED BY <2>3, <2>4, <2>6 DEF SideInv
<1>. QED BY <1>3, <1>5, <1>6

LEMMA FlushInv == ASSUME SideInv, NEW b \in Controls, Flush(b) PROVE SideInv'
<1>1. /\ sidePending' = [sidePending EXCEPT ![b] = Unknown] /\ sidePhase' = "flush"
      /\ IF InUse(b) THEN sideFloor' = sideFloor \cup {b} /\ SendValue(b, sidePending[b])
         ELSE UNCHANGED <<sideFloor, sideSent, sideLast, sideMirror, sideSeen>>
      /\ UNCHANGED <<sideShow, sideLinked, sideEcho, sideTouched, sideMoves, sideNorm,
                     sideCommands, sideEvents, sideMotor, sideSurface, sideBounds, sideLost>>
  BY DEF Flush
<1>2. sidePending[b] \in Level /\ sidePhase # "sync"
  BY DEF Flush, Due, AtTick, SideInv, SideTypeOK
<1>3. /\ sideSent' \in [Parameters -> Level \cup {Unknown}]
      /\ sideLast' \in [Controls -> Level \cup {Unknown}]
      /\ sideMirror' \in [Parameters -> Level] /\ sideSeen' \in BOOLEAN
      /\ \A c \in Controls : c # b => sideLast'[c] = sideLast[c]
      /\ InUse(b) /\ b \in Encoders /\ sideLinked => sideLast'[b] = sidePending[b]
      /\ sideFloor' \subseteq Controls
  <2>1. CASE InUse(b)
    BY <1>1, <1>2, <2>1, SendTypes DEF SideInv, SideTypeOK
  <2>2. CASE ~InUse(b)
    BY <1>1, <2>2 DEF SideInv, SideTypeOK
  <2>. QED BY <2>1, <2>2
<1>4. /\ sidePending' \in [Controls -> Level \cup {Unknown}] /\ sidePending'[b] = Unknown
      /\ \A c \in Controls : c # b => sidePending'[c] = sidePending[c]
  BY <1>1 DEF SideInv, SideTypeOK
<1>5. SideTypeOK'
  BY <1>1, <1>3, <1>4 DEF SideInv, SideTypeOK, sideShow, sideSurface, sideMoves
<1>6. SideEventsOK' /\ EchoesCover'
  BY <1>1, ReportsCovered DEF SideInv, SideEventsOK, EchoesCover, EchoesWiden, sideSurface, sideMoves
<1>7. ASSUME NEW c \in Encoders
      PROVE  /\ sideNorm'[c] = Unknown => sidePending'[c] = Unknown
             /\ InUse(c)' /\ Swept' /\ sideNorm'[c] # Unknown =>
                  \/ sidePending'[c] = sideNorm'[c]
                  \/ sidePending'[c] = Unknown /\ sideLast'[c] = sideNorm'[c]
  <2>1. c \in Controls /\ sideNorm' = sideNorm
    BY <1>1, SideConstants
  <2>2. InUse(c)' /\ Swept' => InUse(c) /\ Swept /\ sideLinked
    BY <1>1, <1>2 DEF InUse, InTable, Swept, sideShow
  <2>3. CASE c = b
    BY <1>2, <1>3, <1>4, <2>1, <2>2, <2>3, SideConstants DEF SideInv, ClicksSent
  <2>4. CASE c # b
    BY <1>3, <1>4, <2>1, <2>2, <2>4 DEF SideInv, ClicksSent
  <2>. QED BY <2>3, <2>4
<1>8. ClicksSent'
  BY <1>7 DEF ClicksSent
<1>. QED BY <1>5, <1>6, <1>8 DEF SideInv

LEMMA MotorPollInv == ASSUME SideInv, MotorPoll PROVE SideInv'
<1>. DEFINE bs == {b \in Motors : ~Consumes(b) /\ b \notin sideTouched /\ ~There(b)}
<1>1. /\ sidePending' = IF Flushes THEN sidePending ELSE [b \in Controls |-> Unknown]
      /\ sidePhase' = IF \E b \in Controls : sideRamp'[b] # Unknown THEN "ramps" ELSE "idle"
      /\ sidePhase \in {"idle", "flush"}
      /\ UNCHANGED <<sideShow, sideLinked, sideMirror, sideTouched, sideNorm, sideLast, sideFloor,
                     sideCommands, sideEvents, sideSurface, sideBounds>>
      /\ \/ UNCHANGED <<sideSeen, sideSent, sideEcho, sideMoves, sideMotor, sideLost>>
         \/ /\ sideSeen' = TRUE /\ DriveMotors(bs, sideTouched, sideRamp)
            /\ sideSent' = [a \in Parameters |->
                              IF \E b \in Motors : Target[b] = a /\ Consumes(b) THEN Unknown
                              ELSE sideSent[a]]
  BY DEF MotorPoll, AtTick
<1>2. bs \in SUBSET Controls
  BY SideConstants DEF Motors
<1>. HIDE DEF bs
<1>3. /\ sidePos' \in [Controls -> Level \cup {Unknown}]
      /\ sideRamp' \in [Controls -> Level \cup {Unknown}]
      /\ \A b \in Controls : sideRamp'[b] # Unknown => sidePos'[b] # Unknown
      /\ sideEcho' \in [Controls -> SUBSET Level]
      /\ \A b \in Controls : Interval(sideEcho'[b]) /\ sideEcho[b] \subseteq sideEcho'[b]
      /\ sideMotor' \in [Controls -> Seq(Level)]
      /\ \A b \in Echoing : \A i \in 1..Len(sideMotor'[b]) : sideMotor'[b][i] \in sideEcho'[b]
      /\ sideLost' \subseteq Controls
      /\ sideSent' \in [Parameters -> Level \cup {Unknown}] /\ sideSeen' \in BOOLEAN
  <2>1. CASE UNCHANGED <<sideSeen, sideSent, sideEcho, sideMoves, sideMotor, sideLost>>
    BY <2>1 DEF SideInv, SideTypeOK, SideEventsOK, EchoesCover, sideMoves
  <2>2. CASE /\ sideSeen' = TRUE /\ DriveMotors(bs, sideTouched, sideRamp)
             /\ sideSent' = [a \in Parameters |->
                               IF \E b \in Motors : Target[b] = a /\ Consumes(b) THEN Unknown
                               ELSE sideSent[a]]
    <3>1. /\ sideRamp \in [Controls -> Level \cup {Unknown}]
          /\ \A b \in Controls : sideRamp[b] # Unknown => sidePos[b] # Unknown
      BY DEF SideInv, SideTypeOK, EchoesCover
    <3>2. sideSent' \in [Parameters -> Level \cup {Unknown}]
      BY <2>2 DEF SideInv, SideTypeOK
    <3>. QED BY <1>2, <2>2, <3>1, <3>2, DrivesCovered
  <2>. QED BY <1>1, <2>1, <2>2
<1>4. SideTypeOK'
  BY <1>1, <1>3 DEF SideInv, SideTypeOK, sideShow, sideSurface
<1>5. SideEventsOK' /\ EchoesCover'
  <2>1. /\ sideEvents' \in Seq(Event)
        /\ \A i \in 1..Len(sideEvents') :
             sideEvents'[i].by = "motor" => sideEvents'[i].at \in sideEcho'[sideEvents'[i].of]
    <3>1. sideEvents' = sideEvents /\ EchoesWiden
      BY <1>1, <1>3 DEF EchoesWiden
    <3>. QED BY <3>1, ReportsCovered
  <2>2. sideHeld' \subseteq Faders /\ UNCHANGED sideCommands
    BY <1>1 DEF SideInv, SideEventsOK, sideSurface
  <2>. QED BY <1>1, <1>3, <2>1, <2>2 DEF SideInv, SideEventsOK, EchoesCover
<1>6. ClicksSent'
  <2>1. CASE Flushes
    BY <1>1, <2>1, ClicksStay DEF InUse, InTable, Swept, sideShow
  <2>2. CASE ~Flushes
    <3>1. ~Swept' /\ \A b \in Encoders : sidePending'[b] = Unknown
      BY <1>1, <2>2, SideConstants DEF Flushes, Swept, sideShow
    <3>. QED BY <3>1 DEF ClicksSent
  <2>. QED BY <2>1, <2>2
<1>. QED BY <1>4, <1>5, <1>6 DEF SideInv

LEMMA AdvanceRampsInv == ASSUME SideInv, AdvanceRamps PROVE SideInv'
<1>. DEFINE moved == Ramping \ sideTouched
            next(b) == Toward(sidePos[b], sideRamp[b])
            to == [b \in moved |-> next(b)]
<1>1. /\ sidePhase = "ramps" /\ sidePhase' = "idle" /\ CommandMotors(to)
      /\ sideRamp' = [b \in Controls |-> IF b \in moved /\ next(b) # sideRamp[b]
                                         THEN sideRamp[b] ELSE Unknown]
      /\ UNCHANGED <<sideShow, sideLinked, sideMirror, sideSeen, sideSent, sideTouched, sideDecode,
                     sideCommands, sideEvents, sideSurface, sideBounds>>
  BY DEF AdvanceRamps
<1>2. \A b \in moved : b \in Controls /\ next(b) \in Level
  <2>1. \A b \in moved : b \in Controls /\ sideRamp[b] \in Level /\ sidePos[b] \in Level
    BY SideConstants DEF Ramping, Motors, SideInv, SideTypeOK, EchoesCover
  <2>. QED BY <2>1, TowardLevel
<1>3. DOMAIN to = moved /\ DOMAIN to \subseteq Controls /\ \A b \in DOMAIN to : to[b] \in Level
  BY <1>2
<1>. HIDE DEF to, moved, next
<1>4. /\ sidePos' \in [Controls -> Level \cup {Unknown}]
      /\ \A b \in Controls : sidePos'[b] = IF b \in DOMAIN to THEN to[b] ELSE sidePos[b]
      /\ sideEcho' \in [Controls -> SUBSET Level]
      /\ \A b \in Controls : Interval(sideEcho'[b]) /\ sideEcho[b] \subseteq sideEcho'[b]
      /\ sideMotor' \in [Controls -> Seq(Level)]
      /\ \A b \in Echoing : \A i \in 1..Len(sideMotor'[b]) : sideMotor'[b][i] \in sideEcho'[b]
      /\ sideLost' \subseteq Controls
  BY <1>1, <1>3, CommandsCovered
<1>5. /\ sideRamp' \in [Controls -> Level \cup {Unknown}]
      /\ \A b \in Controls : sideRamp'[b] # Unknown => sidePos'[b] # Unknown
  <2>1. \A b \in Controls : sideRamp'[b] # Unknown => b \in DOMAIN to
    BY <1>1, <1>3
  <2>2. sideRamp' \in [Controls -> Level \cup {Unknown}]
    BY <1>1 DEF SideInv, SideTypeOK
  <2>. QED BY <1>3, <1>4, <2>1, <2>2, SideConstants
<1>6. SideTypeOK'
  BY <1>1, <1>4, <1>5 DEF SideInv, SideTypeOK, sideShow, sideSurface, sideDecode
<1>7. SideEventsOK' /\ EchoesCover'
  <2>1. /\ sideEvents' \in Seq(Event)
        /\ \A i \in 1..Len(sideEvents') :
             sideEvents'[i].by = "motor" => sideEvents'[i].at \in sideEcho'[sideEvents'[i].of]
    <3>1. sideEvents' = sideEvents /\ EchoesWiden
      BY <1>1, <1>4, <1>5 DEF EchoesWiden
    <3>. QED BY <3>1, ReportsCovered
  <2>2. sideHeld' \subseteq Faders /\ UNCHANGED sideCommands
    BY <1>1 DEF SideInv, SideEventsOK, sideSurface
  <2>. QED BY <1>1, <1>4, <1>5, <2>1, <2>2 DEF SideInv, SideEventsOK, EchoesCover
<1>8. ClicksSent'
  BY <1>1, ClicksStay DEF InUse, InTable, Swept, sideShow, sideDecode
<1>. QED BY <1>6, <1>7, <1>8 DEF SideInv

LEMMA TakeCommandInv == ASSUME SideInv, TakeCommand PROVE SideInv'
<1>1. /\ sidePhase = "idle" /\ sideCommands # <<>> /\ sideCommands' = Tail(sideCommands)
      /\ sidePhase' = IF Head(sideCommands) = "link" /\ ~sideLinked THEN "idle" ELSE "sync"
      /\ UNCHANGED <<sideShow, sideLinked, sideMirror, sideSeen, sideSent, sideDecode, sideEvents,
                     sideMotor, sideSurface, sideBounds>>
  BY DEF TakeCommand
<1>2. \/ UNCHANGED <<sideMoves, sideEcho, sideTouched, sideLost>>
      \/ /\ sidePos' = [b \in Controls |-> Unknown] /\ sideRamp' = sidePos'
         /\ sideEcho' = [b \in Controls |-> {}] /\ sideTouched' = {}
         /\ sideLost' = Controls
         /\ \A b \in Controls : sideMotor[b] = <<>> /\ ~Reported(b, "motor")
  BY DEF TakeCommand
<1>3. SideTypeOK'
  BY <1>1, <1>2 DEF SideInv, SideTypeOK, sideShow, sideSurface, sideDecode, sideMoves
<1>4. SideEventsOK'
  BY <1>1 DEF SideInv, SideEventsOK, sideSurface
<1>5. EchoesCover'
  <2>1. CASE UNCHANGED <<sideMoves, sideEcho, sideTouched, sideLost>>
    BY <1>1, <2>1 DEF SideInv, EchoesCover, sideMoves
  <2>2. CASE /\ sidePos' = [b \in Controls |-> Unknown] /\ sideRamp' = sidePos'
             /\ sideEcho' = [b \in Controls |-> {}]
             /\ \A b \in Controls : sideMotor[b] = <<>> /\ ~Reported(b, "motor")
    <3>1. \A i \in 1..Len(sideEvents) : sideEvents[i].of \in Controls /\ i \in DOMAIN sideEvents
      BY EventParts DEF SideInv, SideEventsOK
    <3>2. \A i \in 1..Len(sideEvents) : sideEvents[i].by # "motor"
      BY <2>2, <3>1 DEF Reported
    <3>3. \A b \in Echoing : Len(sideMotor[b]) = 0
      BY <2>2, SideConstants
    <3>. QED BY <1>1, <2>2, <3>2, <3>3 DEF EchoesCover, Interval
  <2>. QED BY <1>2, <2>1, <2>2
<1>6. ClicksSent'
  <2>1. \A b \in Encoders : ~Swept'
    BY <1>1 DEF Swept
  <2>. QED BY <1>1, <2>1 DEF SideInv, ClicksSent, sideDecode
<1>. QED BY <1>3, <1>4, <1>5, <1>6 DEF SideInv

LEMMA SyncSurfaceInv == ASSUME SideInv, SyncSurface PROVE SideInv'
<1>1. /\ sideNorm' = [b \in Controls |-> Unknown] /\ sidePending' = sideNorm'
      /\ \/ DriveMotors(Motors, sideTouched, NoRamps) /\ sidePhase' = "synced"
         \/ sideRamp' = NoRamps /\ sidePhase' = "idle" /\ UNCHANGED <<sidePos, sideEcho, sideMotor, sideLost>>
      /\ UNCHANGED <<sideShow, sideLinked, sideMirror, sideSeen, sideSent, sideTouched, sideLast,
                     sideFloor, sideCommands, sideEvents, sideSurface, sideBounds>>
  BY DEF SyncSurface
<1>2. /\ sidePos' \in [Controls -> Level \cup {Unknown}]
      /\ sideRamp' \in [Controls -> Level \cup {Unknown}]
      /\ \A b \in Controls : sideRamp'[b] # Unknown => sidePos'[b] # Unknown
      /\ sideEcho' \in [Controls -> SUBSET Level]
      /\ \A b \in Controls : Interval(sideEcho'[b]) /\ sideEcho[b] \subseteq sideEcho'[b]
      /\ sideMotor' \in [Controls -> Seq(Level)]
      /\ \A b \in Echoing : \A i \in 1..Len(sideMotor'[b]) : sideMotor'[b][i] \in sideEcho'[b]
      /\ sideLost' \subseteq Controls
  <2>1. /\ NoRamps \in [Controls -> Level \cup {Unknown}]
        /\ \A b \in Controls \ Motors : NoRamps[b] # Unknown => sidePos[b] # Unknown
        /\ \A b \in Controls : NoRamps[b] = Unknown
        /\ Motors \in SUBSET Controls
    BY SideConstants DEF NoRamps, Motors
  <2>2. CASE DriveMotors(Motors, sideTouched, NoRamps)
    BY <2>1, <2>2, DrivesCovered
  <2>3. CASE sideRamp' = NoRamps /\ UNCHANGED <<sidePos, sideEcho, sideMotor, sideLost>>
    BY <2>1, <2>3 DEF SideInv, SideTypeOK, SideEventsOK, EchoesCover
  <2>. QED BY <1>1, <2>2, <2>3
<1>3. SideTypeOK'
  BY <1>1, <1>2 DEF SideInv, SideTypeOK, sideShow, sideSurface
<1>4. SideEventsOK' /\ EchoesCover'
  <2>1. /\ sideEvents' \in Seq(Event)
        /\ \A i \in 1..Len(sideEvents') :
             sideEvents'[i].by = "motor" => sideEvents'[i].at \in sideEcho'[sideEvents'[i].of]
    <3>1. sideEvents' = sideEvents /\ EchoesWiden
      BY <1>1, <1>2 DEF EchoesWiden
    <3>. QED BY <3>1, ReportsCovered
  <2>2. sideHeld' \subseteq Faders /\ UNCHANGED sideCommands
    BY <1>1 DEF SideInv, SideEventsOK, sideSurface
  <2>. QED BY <1>2, <2>1, <2>2 DEF SideInv, SideEventsOK, EchoesCover
<1>5. ClicksSent'
  BY <1>1, SideConstants DEF ClicksSent
<1>. QED BY <1>3, <1>4, <1>5 DEF SideInv

LEMMA SyncSeenInv == ASSUME SideInv, SyncSeen PROVE SideInv'
<1>1. /\ sidePhase = "synced" /\ sidePhase' = "idle" /\ sideSeen' = TRUE
      /\ UNCHANGED <<sideShow, sideLinked, sideMirror, sideGuards, sideMoves, sideDecode,
                     sideCommands, sideEvents, sideMotor, sideSurface, sideBounds, sideLost>>
  BY DEF SyncSeen
<1>2. SideTypeOK'
  BY <1>1 DEF SideInv, SideTypeOK, sideShow, sideSurface, sideGuards, sideMoves, sideDecode
<1>3. SideEventsOK' /\ EchoesCover'
  BY <1>1 DEF SideInv, SideEventsOK, EchoesCover, sideSurface, sideGuards, sideMoves
<1>4. ClicksSent'
  BY <1>1, ClicksStay DEF InUse, InTable, Swept, sideShow, sideDecode
<1>. QED BY <1>2, <1>3, <1>4 DEF SideInv

\* One more report: a hand's, or a motor's where its echo covers it.
LEMMA ReportJoins ==
  ASSUME SideInv, NEW ev \in Event, ev.by = "motor" => ev.at \in sideEcho[ev.of],
         UNCHANGED sideEvents \/ sideEvents' = Append(sideEvents, ev), UNCHANGED sideEcho
  PROVE  /\ sideEvents' \in Seq(Event)
         /\ \A i \in 1..Len(sideEvents') :
              sideEvents'[i].by = "motor" => sideEvents'[i].at \in sideEcho'[sideEvents'[i].of]
<1>1. sideEvents \in Seq(Event) /\ Len(sideEvents) \in Nat
  BY DEF SideInv, SideEventsOK
<1>2. \A i \in 1..Len(sideEvents) :
        sideEvents[i].by = "motor" => sideEvents[i].at \in sideEcho[sideEvents[i].of]
  BY DEF SideInv, EchoesCover
<1>3. CASE sideEvents' = Append(sideEvents, ev)
  <2>1. /\ sideEvents' \in Seq(Event) /\ Len(sideEvents') = Len(sideEvents) + 1
        /\ \A i \in 1..Len(sideEvents') : sideEvents'[i] = IF i = Len(sideEvents) + 1 THEN ev ELSE sideEvents[i]
    BY <1>1, <1>3, SideEnds
  <2>. QED BY <1>1, <1>2, <2>1
<1>4. CASE UNCHANGED sideEvents
  BY <1>1, <1>2, <1>4
<1>. QED BY <1>3, <1>4

LEMMA MotorArrivesInv == ASSUME SideInv, NEW b \in Controls, MotorArrives(b) PROVE SideInv'
<1>. DEFINE ev == [what |-> "position", of |-> b, at |-> Head(sideMotor[b]), by |-> "motor"]
<1>1. /\ sideMotor[b] # <<>> /\ sideMotor' = [sideMotor EXCEPT ![b] = Tail(@)]
      /\ \/ sideLost' = sideLost \cup {b} /\ UNCHANGED <<sideFader, sideEvents>>
         \/ /\ sideFader' = [sideFader EXCEPT ![b] = Head(sideMotor[b])]
            /\ sideEvents' = IF b \notin Echoing THEN sideEvents ELSE Append(sideEvents, ev)
            /\ UNCHANGED sideLost
      /\ UNCHANGED <<sideShow, sideLinked, sideMirror, sideSeen, sidePhase, sideGuards, sideMoves,
                     sideDecode, sideCommands, sidePlugged, sideHeld, sideBounds>>
  BY DEF MotorArrives
<1>2. /\ sideMotor \in [Controls -> Seq(Level)] /\ sideMotor[b] \in Seq(Level)
      /\ Head(sideMotor[b]) \in Level /\ Tail(sideMotor[b]) \in Seq(Level)
      /\ Head(sideMotor[b]) = sideMotor[b][1] /\ 1 \in 1..Len(sideMotor[b])
      /\ \A i \in 1..Len(Tail(sideMotor[b])) :
           Tail(sideMotor[b])[i] = sideMotor[b][i + 1] /\ i + 1 \in 1..Len(sideMotor[b])
  BY <1>1, SideEnds DEF SideInv, SideEventsOK
<1>3. sideMotor' \in [Controls -> Seq(Level)]
  BY <1>1, <1>2
<1>4. \A c \in Echoing : \A i \in 1..Len(sideMotor'[c]) : sideMotor'[c][i] \in sideEcho[c]
  <2>1. \A c \in Echoing : c \in Controls /\ \A i \in 1..Len(sideMotor[c]) : sideMotor[c][i] \in sideEcho[c]
    BY SideConstants DEF SideInv, EchoesCover
  <2>. QED BY <1>1, <1>2, <2>1
<1>5. SideTypeOK'
  <2>1. sideFader' \in [Controls -> Level] /\ sideLost' \subseteq Controls
    BY <1>1, <1>2 DEF SideInv, SideTypeOK
  <2>2. \A c \in Controls : sideMotor'[c] \in Seq(Level)
    BY <1>3
  <2>. QED BY <1>1, <2>1, <2>2
       DEF SideInv, SideTypeOK, sideShow, sideGuards, sideMoves, sideDecode
<1>6. /\ sideEvents' \in Seq(Event)
      /\ \A i \in 1..Len(sideEvents') :
           sideEvents'[i].by = "motor" => sideEvents'[i].at \in sideEcho'[sideEvents'[i].of]
  <2>1. UNCHANGED sideEcho
    BY <1>1 DEF sideGuards
  <2>2. CASE UNCHANGED sideEvents
    BY <2>1, <2>2 DEF SideInv, SideEventsOK, EchoesCover
  <2>3. CASE b \in Echoing /\ sideEvents' = Append(sideEvents, ev)
    <3>1. ev \in Event /\ ev.by = "motor" /\ ev.at = Head(sideMotor[b]) /\ ev.of = b
      BY <1>2, <2>3 DEF Event, Position
    <3>2. Head(sideMotor[b]) \in sideEcho[b]
      BY <1>2, <2>3 DEF SideInv, EchoesCover
    <3>. HIDE DEF ev
    <3>. QED BY <2>1, <2>3, <3>1, <3>2, ReportJoins
  <2>. QED BY <1>1, <2>2, <2>3
<1>7. SideEventsOK' /\ EchoesCover'
  BY <1>1, <1>3, <1>4, <1>6 DEF SideInv, SideEventsOK, EchoesCover, sideGuards, sideMoves
<1>8. ClicksSent'
  BY <1>1, ClicksStay DEF InUse, InTable, Swept, sideShow, sideDecode
<1>. QED BY <1>5, <1>7, <1>8 DEF SideInv

\* A hand changes what it moves and what is reported, nothing of the service's.
LEMMA HandInv ==
  ASSUME SideInv, NEW ev \in Event, ev.by = "hand", Announce(ev) \/ UNCHANGED sideEvents,
         sideFader' \in [Controls -> Level], sideHeld' \subseteq Faders, sideLost' \subseteq Controls,
         UNCHANGED <<sideShow, sideLinked, sideMirror, sideSeen, sidePhase, sideGuards,
                     sideMoves, sideDecode, sideCommands, sideMotor, sidePlugged>>
  PROVE  SideInv'
<1>1. UNCHANGED sideEvents \/ sideEvents' = Append(sideEvents, ev)
  BY DEF Announce
<1>2. UNCHANGED sideEcho
  BY DEF sideGuards
<1>3. /\ sideEvents' \in Seq(Event)
      /\ \A i \in 1..Len(sideEvents') :
           sideEvents'[i].by = "motor" => sideEvents'[i].at \in sideEcho'[sideEvents'[i].of]
  BY <1>1, <1>2, ReportJoins
<1>4. SideTypeOK'
  BY SideConstants DEF SideInv, SideTypeOK, sideShow, sideGuards, sideMoves, sideDecode
<1>5. SideEventsOK' /\ EchoesCover'
  BY <1>3 DEF SideInv, SideEventsOK, EchoesCover, sideGuards, sideMoves
<1>6. ClicksSent'
  BY ClicksStay DEF InUse, InTable, Swept, sideShow, sideDecode
<1>. QED BY <1>4, <1>5, <1>6 DEF SideInv

LEMMA GrabInv == ASSUME SideInv, NEW b \in Controls, Grab(b) PROVE SideInv'
<1>. DEFINE ev == [what |-> "touch", of |-> b, by |-> "hand"]
            unheard == [what |-> "position", of |-> b, at |-> Bottom, by |-> "hand"]
<1>1. /\ b \in Faders /\ sideHeld' = sideHeld \cup {b} /\ UNCHANGED <<sideFader, sideLost>>
      /\ IF b \in Touchy THEN Announce(ev) ELSE UNCHANGED sideEvents
      /\ UNCHANGED <<sideShow, sideLinked, sideMirror, sideSeen, sidePhase, sideGuards,
                     sideMoves, sideDecode, sideCommands, sideMotor, sidePlugged>>
  BY DEF Grab, ByHand
<1>2. sideFader' \in [Controls -> Level] /\ sideHeld' \subseteq Faders /\ sideLost' \subseteq Controls
  BY <1>1 DEF SideInv, SideTypeOK, SideEventsOK
<1>3. b \in Touchy => ev \in Event
  BY DEF Event, Touch
<1>4. unheard \in Event
  BY <1>1, SideConstants DEF Event, Position
<1>5. ev.by = "hand" /\ unheard.by = "hand"
  OBVIOUS
<1>. HIDE DEF ev, unheard
<1>. QED BY <1>1, <1>2, <1>3, <1>4, <1>5, HandInv

LEMMA SlideInv == ASSUME SideInv, NEW b \in Controls, NEW v \in Level, Slide(b, v) PROVE SideInv'
<1>. DEFINE ev == [what |-> "position", of |-> b, at |-> v, by |-> "hand"]
<1>1. /\ b \in sideHeld /\ sideFader' = [sideFader EXCEPT ![b] = v] /\ UNCHANGED sideHeld
      /\ sideLost' = IF sidePlugged THEN sideLost ELSE sideLost \cup {b}
      /\ Announce(ev)
      /\ UNCHANGED <<sideShow, sideLinked, sideMirror, sideSeen, sidePhase, sideGuards,
                     sideMoves, sideDecode, sideCommands, sideMotor, sidePlugged>>
  BY DEF Slide, ByHand
<1>2. sideFader' \in [Controls -> Level] /\ sideHeld' \subseteq Faders /\ sideLost' \subseteq Controls
  BY <1>1 DEF SideInv, SideTypeOK, SideEventsOK
<1>3. ev \in Event /\ ev.by = "hand"
  BY <1>1 DEF Event, Position, SideInv, SideEventsOK
<1>. HIDE DEF ev
<1>. QED BY <1>1, <1>2, <1>3, HandInv

LEMMA LetGoInv == ASSUME SideInv, NEW b \in Controls, LetGo(b) PROVE SideInv'
<1>. DEFINE ev == [what |-> "release", of |-> b, by |-> "hand"]
            unheard == [what |-> "position", of |-> b, at |-> Bottom, by |-> "hand"]
<1>1. /\ b \in sideHeld /\ sideHeld' = sideHeld \ {b}
      /\ IF b \in Touchy THEN Announce(ev) ELSE UNCHANGED sideEvents
      /\ UNCHANGED <<sideShow, sideLinked, sideMirror, sideSeen, sidePhase, sideGuards,
                     sideMoves, sideDecode, sideCommands, sideMotor, sidePlugged, sideFader, sideLost>>
  BY DEF LetGo
<1>2. sideFader' \in [Controls -> Level] /\ sideHeld' \subseteq Faders /\ sideLost' \subseteq Controls
  BY <1>1 DEF SideInv, SideTypeOK, SideEventsOK
<1>3. b \in Touchy => ev \in Event
  BY DEF Event, Touch
<1>4. unheard \in Event
  BY <1>1, SideConstants DEF Event, Position, SideInv, SideEventsOK
<1>5. ev.by = "hand" /\ unheard.by = "hand"
  OBVIOUS
<1>. HIDE DEF ev, unheard
<1>. QED BY <1>1, <1>2, <1>3, <1>4, <1>5, HandInv

LEMMA TurnInv == ASSUME SideInv, NEW b \in Controls, NEW d \in {-1, 1}, Turn(b, d) PROVE SideInv'
<1>. DEFINE ev == [what |-> "click", of |-> b, step |-> d, by |-> "hand"]
<1>1. /\ b \in Encoders /\ Announce(ev)
      /\ UNCHANGED <<sideShow, sideLinked, sideMirror, sideSeen, sidePhase, sideGuards, sideMoves,
                     sideDecode, sideCommands, sideMotor, sidePlugged, sideFader, sideHeld, sideLost>>
  BY DEF Turn, ByHand
<1>2. sideFader' \in [Controls -> Level] /\ sideHeld' \subseteq Faders /\ sideLost' \subseteq Controls
  BY <1>1 DEF SideInv, SideTypeOK, SideEventsOK
<1>3. ev \in Event /\ ev.by = "hand"
  BY <1>1 DEF Event, Click
<1>. HIDE DEF ev
<1>. QED BY <1>1, <1>2, <1>3, HandInv

\* What the console, the app and the clock change beside the motors and reports.
LEMMA DeskMovesInv ==
  ASSUME SideInv, NEW a \in Parameters, NEW v \in Level, DeskMoves(a, v) PROVE SideInv'
<1>1. /\ sideMirror' = [sideMirror EXCEPT ![a] = v] /\ sideSeen' = FALSE
      /\ UNCHANGED <<sideShow, sideLinked, sidePhase, sideGuards, sideMoves, sideDecode, sideCommands,
                     sideEvents, sideMotor, sideSurface, sideHands, sideBreaks, sideLost>>
  BY DEF DeskMoves
<1>2. SideTypeOK'
  BY <1>1 DEF SideInv, SideTypeOK, sideShow, sideSurface, sideGuards, sideMoves, sideDecode
<1>3. SideEventsOK' /\ EchoesCover'
  BY <1>1 DEF SideInv, SideEventsOK, EchoesCover, sideSurface, sideGuards, sideMoves
<1>4. ClicksSent'
  BY <1>1, ClicksStay DEF InUse, InTable, Swept, sideShow, sideDecode
<1>. QED BY <1>2, <1>3, <1>4 DEF SideInv

LEMMA CommandJoins ==
  ASSUME NEW q \in Seq({"sync", "link", "reconnected"}), NEW command \in {"sync", "link", "reconnected"}
  PROVE  Append(q, command) \in Seq({"sync", "link", "reconnected"}) /\ Append(q, command) # <<>>
<1>1. Len(Append(q, command)) = Len(q) + 1 /\ Len(q) \in Nat
  OBVIOUS
<1>. QED BY <1>1

\* A change that could end a sweep's absence tells of a sweep.
LEMMA AppChangesInv == ASSUME SideInv, AppChanges PROVE SideInv'
<1>1. UNCHANGED <<sideTable, sideMirror, sideSeen, sidePhase, sideGuards, sideMoves, sideDecode,
                  sideEvents, sideMotor, sideSurface, sideHands, sideDesks, sideLost>>
  BY DEF AppChanges
<1>2. /\ sideOff' \subseteq Controls
      /\ sideOn' \in BOOLEAN /\ sideLearning' \in BOOLEAN /\ sideLinked' \in BOOLEAN
      /\ \/ sideCommands' = Append(sideCommands, "sync") \/ sideCommands' = Append(sideCommands, "link")
         \/ /\ UNCHANGED sideCommands /\ sideOff \subseteq sideOff'
            /\ sideOn' => sideOn
            /\ sideLinked' => sideLinked
  <2>1. sideOff \subseteq Controls /\ {sideOn, sideLearning, sideLinked} \subseteq BOOLEAN
    BY DEF SideInv, SideTypeOK
  <2>2. \/ sideOn /\ sideOn' = FALSE /\ UNCHANGED <<sideOff, sideLearning, sideLinked, sideCommands>>
        \/ ~sideOn /\ sideOn' = TRUE /\ Tell("sync") /\ UNCHANGED <<sideOff, sideLearning, sideLinked>>
        \/ \E b \in Controls : sideOff' = sideOff \cup {b} /\ UNCHANGED <<sideOn, sideLearning, sideLinked, sideCommands>>
        \/ \E b \in sideOff : sideOff' = sideOff \ {b} /\ Tell("sync") /\ UNCHANGED <<sideOn, sideLearning, sideLinked>>
        \/ sideLearning' \in BOOLEAN /\ UNCHANGED <<sideOn, sideOff, sideLinked, sideCommands>>
        \/ sideLinked /\ sideLinked' = FALSE /\ UNCHANGED <<sideOn, sideOff, sideLearning, sideCommands>>
        \/ ~sideLinked /\ sideLinked' = TRUE /\ Tell("link") /\ UNCHANGED <<sideOn, sideOff, sideLearning>>
    BY DEF AppChanges
  <2>3. sideOff' \subseteq Controls
    BY <2>1, <2>2
  <2>4. sideOn' \in BOOLEAN /\ sideLearning' \in BOOLEAN /\ sideLinked' \in BOOLEAN
    BY <2>1, <2>2
  <2>5. \/ Tell("sync") \/ Tell("link")
        \/ UNCHANGED sideCommands /\ sideOff \subseteq sideOff' /\ (sideOn' => sideOn) /\ (sideLinked' => sideLinked)
    BY <2>2
  <2>. QED BY <2>3, <2>4, <2>5 DEF Tell
<1>3. SideTypeOK'
  BY <1>1, <1>2 DEF SideInv, SideTypeOK, sideSurface, sideGuards, sideMoves, sideDecode
<1>4. SideEventsOK' /\ EchoesCover'
  <2>1. sideCommands' \in Seq({"sync", "link", "reconnected"})
    BY <1>2, CommandJoins DEF SideInv, SideEventsOK
  <2>. QED BY <1>1, <2>1 DEF SideInv, SideEventsOK, EchoesCover, sideSurface, sideGuards, sideMoves
<1>5. \A b \in Encoders : InUse(b)' /\ Swept' => InUse(b) /\ Swept
  <2>1. Append(sideCommands, "sync") # <<>> /\ Append(sideCommands, "link") # <<>>
    BY CommandJoins DEF SideInv, SideEventsOK
  <2>. QED BY <1>1, <1>2, <2>1 DEF InUse, InTable, Swept
<1>6. ClicksSent'
  BY <1>1, <1>5, ClicksStay DEF sideDecode
<1>. QED BY <1>3, <1>4, <1>6 DEF SideInv

LEMMA PlugInv == ASSUME SideInv, Unplug \/ Replug PROVE SideInv'
<1>1. /\ sidePlugged' \in BOOLEAN /\ sideLost' \subseteq Controls
      /\ UNCHANGED <<sideShow, sideLinked, sideMirror, sideSeen, sidePhase, sideGuards, sideMoves,
                     sideDecode, sideEvents, sideMotor, sideFader, sideHeld>>
      /\ UNCHANGED sideCommands \/ sideCommands' = Append(sideCommands, "reconnected")
  BY DEF Unplug, Replug, Tell, SideInv, SideTypeOK
<1>2. SideTypeOK'
  BY <1>1 DEF SideInv, SideTypeOK, sideShow, sideGuards, sideMoves, sideDecode
<1>3. SideEventsOK' /\ EchoesCover'
  <2>1. sideCommands' \in Seq({"sync", "link", "reconnected"})
    BY <1>1, CommandJoins DEF SideInv, SideEventsOK
  <2>. QED BY <1>1, <2>1 DEF SideInv, SideEventsOK, EchoesCover, sideGuards, sideMoves
<1>4. \A b \in Encoders : InUse(b)' /\ Swept' => InUse(b) /\ Swept
  <2>1. Append(sideCommands, "reconnected") # <<>>
    BY CommandJoins DEF SideInv, SideEventsOK
  <2>. QED BY <1>1, <2>1 DEF InUse, InTable, Swept, sideShow
<1>5. ClicksSent'
  BY <1>1, <1>4, ClicksStay DEF sideDecode
<1>. QED BY <1>2, <1>3, <1>5 DEF SideInv

LEMMA FloorPassesInv == ASSUME SideInv, NEW b \in Controls, FloorPasses(b) PROVE SideInv'
<1>1. /\ sideFloor' = sideFloor \ {b}
      /\ UNCHANGED <<sideShow, sideLinked, sideMirror, sideSeen, sidePhase, sideGuards,
                     sideMoves, sideNorm, sideLast, sidePending, sideCommands,
                     sideEvents, sideMotor, sideSurface, sideBounds, sideLost>>
  BY DEF FloorPasses
<1>2. SideTypeOK'
  BY <1>1 DEF SideInv, SideTypeOK, sideShow, sideSurface, sideGuards, sideMoves
<1>3. SideEventsOK' /\ EchoesCover'
  BY <1>1 DEF SideInv, SideEventsOK, EchoesCover, sideSurface, sideGuards, sideMoves
<1>4. ClicksSent'
  BY <1>1, ClicksStay DEF InUse, InTable, Swept, sideShow
<1>. QED BY <1>2, <1>3, <1>4 DEF SideInv

\* An echo is forgotten when nothing of its fader is on its way.
LEMMA WindowPassesInv == ASSUME SideInv, WindowPasses PROVE SideInv'
<1>1. UNCHANGED <<sideShow, sideLinked, sideMirror, sideSeen, sidePhase, sideTouched, sideMoves,
                  sideDecode, sideCommands, sideEvents, sideMotor, sideSurface, sideBounds, sideLost>>
  BY DEF WindowPasses
<1>2. ClicksSent'
  BY <1>1, ClicksStay DEF InUse, InTable, Swept, sideShow, sideDecode
<1>3. CASE \E a \in Parameters : sideSent' = [sideSent EXCEPT ![a] = Unknown] /\ UNCHANGED sideEcho
  <2>1. SideTypeOK'
    BY <1>1, <1>3 DEF SideInv, SideTypeOK, sideShow, sideSurface, sideMoves, sideDecode
  <2>2. SideEventsOK' /\ EchoesCover'
    BY <1>1, <1>3 DEF SideInv, SideEventsOK, EchoesCover, sideSurface, sideMoves
  <2>. QED BY <1>2, <2>1, <2>2 DEF SideInv
<1>4. ASSUME NEW b \in Controls, ~InFlight(b), sideEcho' = [sideEcho EXCEPT ![b] = {}], UNCHANGED sideSent
      PROVE  SideInv'
  <2>1. sideMotor[b] = <<>> /\ ~Reported(b, "motor")
    BY <1>4 DEF InFlight
  <2>2. SideTypeOK'
    BY <1>1, <1>4 DEF SideInv, SideTypeOK, sideShow, sideSurface, sideMoves, sideDecode
  <2>3. \A i \in 1..Len(sideEvents) : i \in DOMAIN sideEvents /\ sideEvents[i].of \in Controls
    BY EventParts DEF SideInv, SideEventsOK
  <2>4. \A i \in 1..Len(sideEvents) : sideEvents[i].by = "motor" => sideEvents[i].of # b
    BY <2>1, <2>3 DEF Reported
  <2>5. \A c \in Controls : c # b => sideEcho'[c] = sideEcho[c]
    BY <1>4 DEF SideInv, SideTypeOK
  <2>6. sideEcho'[b] = {} /\ Len(sideMotor[b]) = 0
    BY <1>4, <2>1 DEF SideInv, SideTypeOK
  <2>7. EchoesCover'
    <3>1. \A c \in Controls : Interval(sideEcho'[c])
      BY <2>5, <2>6 DEF SideInv, EchoesCover, Interval
    <3>2. \A c \in Echoing : \A i \in 1..Len(sideMotor'[c]) : sideMotor'[c][i] \in sideEcho'[c]
      BY <1>1, <2>5, <2>6, SideConstants DEF SideInv, EchoesCover
    <3>3. \A i \in 1..Len(sideEvents') :
            sideEvents'[i].by = "motor" => sideEvents'[i].at \in sideEcho'[sideEvents'[i].of]
      BY <1>1, <2>3, <2>4, <2>5 DEF SideInv, EchoesCover
    <3>4. \A c \in Controls : sideRamp'[c] # Unknown => sidePos'[c] # Unknown
      BY <1>1 DEF SideInv, EchoesCover, sideMoves
    <3>. QED BY <3>1, <3>2, <3>3, <3>4 DEF EchoesCover
  <2>8. SideEventsOK'
    BY <1>1 DEF SideInv, SideEventsOK, sideSurface
  <2>. QED BY <1>2, <2>2, <2>7, <2>8 DEF SideInv
<1>. QED BY <1>3, <1>4 DEF WindowPasses

-----------------------------------------------------------------------------
(* The theorems.                                                            *)

LEMMA SideInitInv == ASSUME SideInit PROVE SideInv
<1>1. SideTypeOK
  <2>1. {sidePos, sideRamp, sideNorm, sideLast, sidePending} \subseteq [Controls -> Level \cup {Unknown}]
    BY DEF SideInit
  <2>2. /\ sideMirror \in [Parameters -> Level] /\ sideFader \in [Controls -> Level]
        /\ sideSent \in [Parameters -> Level \cup {Unknown}] /\ sideEcho \in [Controls -> SUBSET Level]
        /\ \A b \in Controls : sideMotor[b] \in Seq(Level)
    BY SideConstants DEF SideInit
  <2>3. /\ {sideOff, sideTouched, sideFloor, sideHeld, sideLost} \subseteq SUBSET Controls
        /\ {sideOn, sideLearning, sideLinked, sideSeen, sidePlugged} \subseteq BOOLEAN
        /\ sideTable \in Tables /\ sidePhase = "idle"
    BY DEF SideInit
  <2>. QED BY <2>1, <2>2, <2>3 DEF SideTypeOK
<1>2. SideEventsOK
  BY SideConstants DEF SideInit, SideEventsOK
<1>3. EchoesCover
  BY SideConstants DEF SideInit, EchoesCover, Interval
<1>4. ClicksSent
  BY SideConstants DEF SideInit, ClicksSent
<1>. QED BY <1>1, <1>2, <1>3, <1>4 DEF SideInv

LEMMA SideNextInv == ASSUME SideInv, [SideNext]_sideVars PROVE SideInv'
<1>1. CASE TakeEvent
  BY <1>1, SwallowInv, TakeTouchInv, TakeReleaseInv, TakePositionInv, TakeClickInv DEF TakeEvent
<1>2. CASE Sync
  BY <1>2, TakeCommandInv, SyncSurfaceInv, SyncSeenInv DEF Sync
<1>3. CASE Ticking
  BY <1>3, FlushInv, MotorPollInv, AdvanceRampsInv DEF Ticking, Flushing
<1>4. ASSUME NEW b \in Controls, \/ MotorArrives(b) \/ Grab(b) \/ LetGo(b) \/ FloorPasses(b)
                                 \/ \E v \in Level : Slide(b, v)
                                 \/ \E d \in {-1, 1} : Turn(b, d)
      PROVE  SideInv'
  BY <1>4, MotorArrivesInv, GrabInv, LetGoInv, FloorPassesInv, SlideInv, TurnInv
<1>5. CASE \E a \in Parameters, v \in Level : DeskMoves(a, v)
  BY <1>5, DeskMovesInv
<1>6. CASE AppChanges \/ Unplug \/ Replug \/ WindowPasses
  BY <1>6, AppChangesInv, PlugInv, WindowPassesInv
<1>7. CASE UNCHANGED sideVars
  <2>1. SideTypeOK'
    BY <1>7 DEF SideInv, SideTypeOK, sideVars, sideShow, sideSurface, sideGuards, sideMoves, sideDecode
  <2>2. SideEventsOK' /\ EchoesCover'
    BY <1>7 DEF SideInv, SideEventsOK, EchoesCover, sideVars, sideSurface, sideGuards, sideMoves
  <2>3. ClicksSent'
    BY <1>7, ClicksStay DEF sideVars, InUse, InTable, Swept, sideShow, sideDecode
  <2>. QED BY <2>1, <2>2, <2>3 DEF SideInv
<1>. QED BY <1>1, <1>2, <1>3, <1>4, <1>5, <1>6, <1>7 DEF SideNext

LEMMA TailShorter ==
  ASSUME NEW S, NEW q \in Seq(S), q # <<>>
  PROVE  Tail(q) # q /\ \A e : Append(q, e) # Tail(q)
<1>1. Len(q) \in Nat \ {0} /\ Len(Tail(q)) = Len(q) - 1
  BY SideEnds
<1>2. \A e : Len(Append(q, e)) = Len(q) + 1
  OBVIOUS
<1>3. Len(Tail(q)) # Len(q) /\ Len(Tail(q)) # Len(q) + 1
  <2>1. \A n \in Nat : n - 1 # n /\ n - 1 # n + 1
    OBVIOUS
  <2>. QED BY <1>1, <2>1
<1>. QED BY <1>2, <1>3

\* Only the task takes an event off its queue.
LEMMA OthersTakeNone ==
  ASSUME SideInv, [SideNext]_sideVars, sideEvents # <<>>, sideEvents' = Tail(sideEvents)
  PROVE  TakeEvent
<1>1. sideEvents \in Seq(Event)
  BY DEF SideInv, SideEventsOK
<1>2. sideEvents' # sideEvents
  BY <1>1, TailShorter
<1>3. \A e : Append(sideEvents, e) # sideEvents'
  BY <1>1, TailShorter
<1>4. CASE Sync
  BY <1>2, <1>4 DEF Sync, TakeCommand, SyncSurface, SyncSeen
<1>5. CASE Ticking
  BY <1>2, <1>5 DEF Ticking, Flushing, Flush, MotorPoll, AdvanceRamps
<1>6. ASSUME NEW b \in Controls, MotorArrives(b) \/ FloorPasses(b)
      PROVE  FALSE
  BY <1>2, <1>3, <1>6 DEF MotorArrives, FloorPasses
<1>7. ASSUME NEW b \in Controls, \/ Grab(b) \/ LetGo(b)
                                 \/ \E v \in Level : Slide(b, v)
                                 \/ \E d \in {-1, 1} : Turn(b, d)
      PROVE  FALSE
  BY <1>2, <1>3, <1>7 DEF Grab, LetGo, Slide, Turn, Announce
<1>8. CASE \E a \in Parameters, v \in Level : DeskMoves(a, v)
  BY <1>2, <1>8 DEF DeskMoves
<1>9. CASE AppChanges \/ Unplug \/ Replug \/ WindowPasses
  BY <1>2, <1>9 DEF AppChanges, Unplug, Replug, WindowPasses
<1>10. CASE UNCHANGED sideVars
  BY <1>2, <1>10 DEF sideVars
<1>. QED BY <1>4, <1>5, <1>6, <1>7, <1>8, <1>9, <1>10 DEF SideNext

\* A motor's own movement is screened.
LEMMA MotorScreened ==
  ASSUME SideInv, TakeEvent, Head(sideEvents).by = "motor"
  PROVE  UNCHANGED <<sideMirror, sidePending, sideRamp>>
<1>. DEFINE ev == Head(sideEvents)
<1>1. /\ ev \in Event /\ ev.at \in sideEcho[ev.of]
  BY TakenEvent DEF TakeEvent, Swallow, TakeTouch, TakeRelease, TakePosition, TakeClick
<1>2. ev.what = "position"
  BY <1>1, EventParts
<1>3. CASE Swallow
  BY <1>3 DEF Swallow, sideMoves, sideDecode
<1>4. CASE TakePosition
  BY <1>1, <1>4 DEF TakePosition, IsMotorEcho, sideMoves
<1>. QED BY <1>2, <1>3, <1>4 DEF TakeEvent, TakeTouch, TakeRelease, TakeClick

\* A click of an encoder in use, after a sweep.
LEMMA ClickSteps ==
  ASSUME SideInv, TakeEvent, NEW b \in Encoders, Head(sideEvents).of = b,
         Head(sideEvents).what = "click", InUse(b), Listening, sideLinked, sideCommands = <<>>
  PROVE  Distance(GoingTo(b), Goes(b)') <= 1
<1>. DEFINE ev == Head(sideEvents)
            base == IF Reseeds(b) THEN Value(b) ELSE sideNorm[b]
            to == Clamped(base + ev.step)
<1>1. TakeClick
  BY DEF TakeEvent, Swallow, TakeTouch, TakeRelease, TakePosition
<1>2. ev \in Event /\ sidePhase = "idle"
  BY <1>1, TakenEvent DEF TakeClick
<1>3. b \in Controls /\ ev.step \in {-1, 1} /\ Swept
  BY <1>2, EventParts, SideConstants DEF Swept, Listening
<1>4. sideNorm' = [sideNorm EXCEPT ![b] = to] /\ Dispatch(b, to)
  BY <1>1 DEF TakeClick
<1>5. base = GoingTo(b) /\ base \in Level
  <2>1. /\ Value(b) \in Level /\ Unknown \notin Level
        /\ sideNorm[b] \in Level \cup {Unknown} /\ sideLast[b] \in Level \cup {Unknown}
    BY <1>3, SideConstants DEF Value, SideInv, SideTypeOK
  <2>2. /\ sideNorm[b] = Unknown => sidePending[b] = Unknown
        /\ sideNorm[b] # Unknown => \/ sidePending[b] = sideNorm[b]
                                    \/ sidePending[b] = Unknown /\ sideLast[b] = sideNorm[b]
    BY <1>3 DEF SideInv, ClicksSent
  <2>. QED BY <2>1, <2>2 DEF Reseeds, GoingTo
<1>6. to \in Level /\ Distance(base, to) <= 1
  BY <1>3, <1>5, ClickLevel
<1>. HIDE DEF to, base, ev
<1>7. Goes(b)' = to
  <2>1. Target[b] \in Parameters /\ to # Unknown
    BY <1>3, <1>6, SideConstants
  <2>2. CASE b \in sideFloor
    <3>1. sidePending' = [sidePending EXCEPT ![b] = to]
      BY <1>4, <2>2 DEF Dispatch
    <3>2. sidePending'[b] = to
      BY <1>3, <3>1 DEF SideInv, SideTypeOK
    <3>. QED BY <2>1, <3>2 DEF Goes
  <2>3. CASE b \notin sideFloor
    <3>1. sidePending' = [sidePending EXCEPT ![b] = Unknown] /\ sideMirror' = [sideMirror EXCEPT ![Target[b]] = to]
      BY <1>4, <2>3 DEF Dispatch, SendValue
    <3>2. sidePending'[b] = Unknown /\ sideMirror'[Target[b]] = to
      BY <1>3, <2>1, <3>1 DEF SideInv, SideTypeOK
    <3>. QED BY <3>2 DEF Goes, Value
  <2>. QED BY <2>2, <2>3
<1>. QED BY <1>5, <1>6, <1>7

LEMMA HandsOnlyStep ==
  ASSUME SideInv, [SideNext]_sideVars, sideEvents # <<>>, sideEvents' = Tail(sideEvents)
  PROVE  LET ev == Head(sideEvents) IN
         /\ ev.by = "motor" => UNCHANGED <<sideMirror, sidePending, sideRamp>>
         /\ \A b \in Encoders :
              ev.of = b /\ ev.what = "click" /\ InUse(b) /\ Listening /\ sideLinked /\ sideCommands = <<>> =>
                Distance(GoingTo(b), Goes(b)') <= 1
<1>1. TakeEvent
  BY OthersTakeNone
<1>. QED BY <1>1, MotorScreened, ClickSteps

\* Types, for any surface and whatever happens to it.
THEOREM SideTypesCorrect == SideSpec => []SideTypeOK
<1>1. SideInit => SideInv
  BY SideInitInv
<1>2. SideInv /\ [SideNext]_sideVars => SideInv'
  BY SideNextInv
<1>3. SideInv => SideTypeOK
  BY DEF SideInv
<1>. QED BY <1>1, <1>2, <1>3, PTL DEF SideSpec

\* The console moves for a hand only (sidecar_service.rs): however a motor's
\* moves, reports, touches, sweeps and windows fall, a report of the motor's own
\* movement changes nothing, and a click moves the value one step from where it
\* is going.
THEOREM HandsOnlyCorrect == SideSpec => HandsOnly
<1>1. SideInit => SideInv
  BY SideInitInv
<1>2. SideInv /\ [SideNext]_sideVars => SideInv'
  BY SideNextInv
<1>3. SideInv /\ [SideNext]_sideVars =>
        [sideEvents # <<>> /\ sideEvents' = Tail(sideEvents) =>
           LET ev == Head(sideEvents) IN
           /\ ev.by = "motor" => UNCHANGED <<sideMirror, sidePending, sideRamp>>
           /\ \A b \in Encoders :
                ev.of = b /\ ev.what = "click" /\ InUse(b) /\ Listening /\ sideLinked /\ sideCommands = <<>> =>
                  Distance(GoingTo(b), Goes(b)') <= 1]_sideVars
  BY HandsOnlyStep
<1>. QED BY <1>1, <1>2, <1>3, PTL DEF SideSpec, HandsOnly

-----------------------------------------------------------------------------
(* Macros.  What a firing does is compared with the macros put in the      *)
(* place of the steps that fire them, which is a recursion over the depth  *)
(* and, in FlattenSeq, over a macro's steps.  An induction over either is  *)
(* put as: the set of numbers of which the claim fails has no least one.   *)

LEMMA Least ==
  ASSUME NEW T \in SUBSET Nat, T # {}
  PROVE  \E m \in T : \A k \in T : m <= k
<1>. DEFINE R == OpToRel(<, Nat)
<1>1. IsWellFoundedOn(R, Nat)
  BY NatLessThanWellFounded
<1>2. PICK m \in T : \A k \in T : <<k, m>> \notin R
  BY <1>1, WFMin
<1>3. \A k \in T : ~(k < m)
  BY <1>2 DEF OpToRel
<1>4. ASSUME NEW k \in T PROVE m <= k
  <2>1. k \in Nat /\ m \in Nat /\ ~(k < m)
    BY <1>2, <1>3
  <2>. QED BY <2>1
<1>. QED BY <1>2, <1>4

\* The function in FlattenSeq: the first i sequences, one after the other.
Joined(q, n, f) == f = [i \in 1..n |-> IF i = 1 THEN q[i] ELSE f[i - 1] \o q[i]]

LEMMA JoinedExists ==
  ASSUME NEW q, NEW N \in Nat
  PROVE  \E f : Joined(q, N, f)
<1>. DEFINE Bad == {n \in Nat : ~ \E f : Joined(q, n, f)}
<1>1. SUFFICES ASSUME Bad # {} PROVE FALSE
  OBVIOUS
<1>2. PICK m \in Bad : \A k \in Bad : m <= k
  <2>1. Bad \in SUBSET Nat
    OBVIOUS
  <2>. HIDE DEF Bad
  <2>. QED BY <1>1, <2>1, Least
<1>3. m # 0
  <2>. DEFINE e == [i \in 1..0 |-> q[i]]
  <2>1. e = [i \in 1..0 |-> IF i = 1 THEN q[i] ELSE e[i - 1] \o q[i]]
    OBVIOUS
  <2>2. \E f : Joined(q, 0, f)
    BY <2>1 DEF Joined
  <2>. QED BY <2>2
<1>4. m - 1 \in Nat /\ ~(m <= m - 1)
  BY <1>3
<1>5. PICK f : Joined(q, m - 1, f)
  BY <1>2, <1>4
<1>. DEFINE g == [i \in 1..m |-> IF i = 1 THEN q[i] ELSE f[i - 1] \o q[i]]
<1>6. \A i \in 1..(m - 1) : f[i] = IF i = 1 THEN q[i] ELSE f[i - 1] \o q[i]
  <2>. DEFINE F(i) == IF i = 1 THEN q[i] ELSE f[i - 1] \o q[i]
  <2>1. f = [i \in 1..(m - 1) |-> F(i)]
    BY <1>5 DEF Joined
  <2>. HIDE DEF F
  <2>2. \A i \in 1..(m - 1) : f[i] = F(i)
    BY <2>1
  <2>. QED BY <2>2 DEF F
<1>7. \A i \in 1..m : i # 1 => g[i - 1] = f[i - 1]
  <2>1. ASSUME NEW i \in 1..m, i # 1 PROVE i - 1 \in 1..(m - 1) /\ i - 1 \in 1..m
    BY <2>1, <1>4
  <2>2. \A j \in 1..m : g[j] = IF j = 1 THEN q[j] ELSE f[j - 1] \o q[j]
    OBVIOUS
  <2>. QED BY <2>1, <2>2, <1>6
<1>8. Joined(q, m, g)
  <2>1. \A i \in 1..m : (IF i = 1 THEN q[i] ELSE f[i - 1] \o q[i]) = IF i = 1 THEN q[i] ELSE g[i - 1] \o q[i]
    BY <1>7
  <2>2. g = [i \in 1..m |-> IF i = 1 THEN q[i] ELSE g[i - 1] \o q[i]]
    BY <2>1
  <2>. QED BY <2>2 DEF Joined
<1>. QED BY <1>8

\* What the function is, at each place.
LEMMA JoinedAt ==
  ASSUME NEW q, NEW n \in Nat, NEW f, Joined(q, n, f), NEW i \in 1..n
  PROVE  f[i] = IF i = 1 THEN q[i] ELSE f[i - 1] \o q[i]
<1>. DEFINE F(j) == IF j = 1 THEN q[j] ELSE f[j - 1] \o q[j]
<1>1. f = [j \in 1..n |-> F(j)]
  BY DEF Joined
<1>. HIDE DEF F
<1>2. f[i] = F(i)
  BY <1>1
<1>. QED BY <1>2 DEF F

LEMMA JoinedNext ==
  ASSUME NEW q, NEW n \in Nat, NEW f, Joined(q, n, f), NEW i \in 1..n, i # 1
  PROVE  f[i] = f[i - 1] \o q[i]
<1>. DEFINE F(j) == IF j = 1 THEN q[j] ELSE f[j - 1] \o q[j]
<1>1. f = [j \in 1..n |-> F(j)]
  BY DEF Joined
<1>. HIDE DEF F
<1>2. f[i] = F(i)
  BY <1>1
<1>. QED BY <1>2 DEF F

LEMMA FlattenIsJoined ==
  ASSUME NEW S, NEW q \in Seq(Seq(S)), q # <<>>
  PROVE  \E f : Joined(q, Len(q), f) /\ FlattenSeq(q) = f[Len(q)]
<1>1. Len(q) \in Nat /\ Len(q) # 0
  OBVIOUS
<1>2. \E f : Joined(q, Len(q), f)
  BY <1>1, JoinedExists
<1>. QED BY <1>1, <1>2 DEF FlattenSeq, Joined

LEMMA JoinedType ==
  ASSUME NEW S, NEW q \in Seq(Seq(S)), NEW f, Joined(q, Len(q), f)
  PROVE  \A i \in 1..Len(q) : f[i] \in Seq(S)
<1>. DEFINE Bad == {i \in 1..Len(q) : f[i] \notin Seq(S)}
<1>1. SUFFICES ASSUME Bad # {} PROVE FALSE
  OBVIOUS
<1>2. PICK m \in Bad : \A k \in Bad : m <= k
  <2>1. Bad \in SUBSET Nat
    OBVIOUS
  <2>. HIDE DEF Bad
  <2>. QED BY <1>1, <2>1, Least
<1>3. m \in 1..Len(q) /\ q[m] \in Seq(S) /\ Len(q) \in Nat
  BY <1>2
<1>4. m # 1
  BY <1>2, <1>3, JoinedAt
<1>5. m - 1 \in 1..Len(q) /\ ~(m <= m - 1)
  BY <1>3, <1>4
<1>6. f[m - 1] \in Seq(S)
  BY <1>2, <1>5
<1>. HIDE DEF Bad
<1>7. f[m] = f[m - 1] \o q[m]
  BY <1>3, <1>4, JoinedNext, Zenon
<1>8. f[m] \in Seq(S)
  BY <1>3, <1>6, <1>7, ConcatProperties
<1>. QED BY <1>2, <1>8 DEF Bad

LEMMA FlattenType ==
  ASSUME NEW S, NEW q \in Seq(Seq(S))
  PROVE  FlattenSeq(q) \in Seq(S)
<1>1. CASE q = <<>>
  BY <1>1 DEF FlattenSeq
<1>2. CASE q # <<>>
  <2>1. PICK f : Joined(q, Len(q), f) /\ FlattenSeq(q) = f[Len(q)]
    BY <1>2, FlattenIsJoined
  <2>2. Len(q) \in 1..Len(q)
    BY <1>2
  <2>. QED BY <2>1, <2>2, JoinedType
<1>. QED BY <1>1, <1>2

\* The first sequence, and then the others.
LEMMA FlattenHead ==
  ASSUME NEW S, NEW q \in Seq(Seq(S)), q # <<>>
  PROVE  FlattenSeq(q) = Head(q) \o FlattenSeq(Tail(q))
<1>. DEFINE t == Tail(q)
<1>1. t \in Seq(Seq(S)) /\ Len(t) = Len(q) - 1 /\ Head(q) = q[1] /\ q[1] \in Seq(S)
      /\ \A i \in 1..Len(t) : t[i] = q[i + 1]
  OBVIOUS
<1>2. Len(q) \in Nat /\ Len(q) # 0
  OBVIOUS
<1>3. PICK f : Joined(q, Len(q), f) /\ FlattenSeq(q) = f[Len(q)]
  BY FlattenIsJoined
<1>. HIDE DEF t
<1>4. CASE Len(q) = 1
  <2>1. FlattenSeq(q) = q[1]
    BY <1>3, <1>4, JoinedAt
  <2>2. t = <<>>
    BY <1>1, <1>4
  <2>3. FlattenSeq(t) = <<>>
    BY <2>2 DEF FlattenSeq
  <2>. QED BY <1>1, <2>1, <2>3, ConcatEmptySeq DEF t
<1>5. CASE Len(q) # 1
  <2>1. t # <<>> /\ Len(t) \in Nat /\ Len(t) # 0
    BY <1>1, <1>2, <1>5
  <2>2. PICK g : Joined(t, Len(t), g) /\ FlattenSeq(t) = g[Len(t)]
    BY <1>1, <2>1, FlattenIsJoined
  <2>. DEFINE Bad == {i \in 1..Len(t) : f[i + 1] # q[1] \o g[i]}
  <2>3. Bad = {}
    <3>1. SUFFICES ASSUME Bad # {} PROVE FALSE
      BY DEF Bad
    <3>2. PICK m \in Bad : \A k \in Bad : m <= k
      <4>1. 1..Len(t) \subseteq Nat /\ Bad \subseteq 1..Len(t)
        <5>1. 1..Len(t) \subseteq Nat
          BY <2>1
        <5>2. Bad \subseteq 1..Len(t)
          BY Zenon DEF Bad
        <5>. QED BY <5>1, <5>2, Zenon
      <4>. HIDE DEF Bad
      <4>. QED BY <3>1, <4>1, Least
    <3>3. m \in 1..Len(t) /\ m + 1 \in 1..Len(q) /\ m + 1 # 1 /\ m + 1 - 1 = m /\ t[m] = q[m + 1]
      BY <3>2, <1>1, <1>2
    <3>4. f[m + 1] = f[m] \o t[m]
      <4>. DEFINE n == m + 1
      <4>1. n \in 1..Len(q) /\ n # 1 /\ n - 1 = m
        BY <3>3
      <4>. HIDE DEF n, Bad
      <4>2. f[n] = f[n - 1] \o q[n]
        BY <1>2, <1>3, <4>1, JoinedNext, Zenon
      <4>. QED BY <3>3, <4>1, <4>2 DEF n
    <3>5. CASE m = 1
      <4>1. f[1] = q[1] /\ g[1] = t[1]
        BY <1>2, <1>3, <2>1, <2>2, JoinedAt
      <4>. QED BY <3>2, <3>4, <3>5, <4>1
    <3>6. CASE m # 1
      <4>1. m - 1 \in 1..Len(t) /\ ~(m <= m - 1) /\ (m - 1) + 1 = m
        BY <3>3, <3>6
      <4>2. f[m] = q[1] \o g[m - 1]
        BY <3>2, <4>1
      <4>. HIDE DEF Bad
      <4>3. g[m] = g[m - 1] \o t[m]
        BY <2>1, <2>2, <3>3, <3>6, JoinedNext, Zenon
      <4>4. g[m - 1] \in Seq(S) /\ t[m] \in Seq(S)
        <5>1. g[m - 1] \in Seq(S)
          BY <1>1, <2>2, <4>1, JoinedType, Zenon
        <5>2. t[m] \in Seq(S)
          BY <1>1, <3>3
        <5>. QED BY <5>1, <5>2
      <4>5. (q[1] \o g[m - 1]) \o t[m] = q[1] \o (g[m - 1] \o t[m])
        <5>. DEFINE a == q[1]  b == g[m - 1]  c == t[m]
        <5>1. a \in Seq(S) /\ b \in Seq(S) /\ c \in Seq(S)
          BY <1>1, <4>4
        <5>. HIDE DEF a, b, c
        <5>2. (a \o b) \o c = a \o (b \o c)
          BY <5>1, ConcatAssociative, SMTT(60)
        <5>. QED BY <5>2 DEF a, b, c
      <4>. QED BY <3>2, <3>4, <4>2, <4>3, <4>5 DEF Bad
    <3>. QED BY <3>5, <3>6
  <2>4. Len(t) \in 1..Len(t) /\ Len(t) + 1 = Len(q)
    BY <1>1, <1>2, <2>1
  <2>5. f[Len(q)] = q[1] \o g[Len(t)]
    BY <2>3, <2>4
  <2>. QED BY <1>1, <1>3, <2>2, <2>5 DEF t
<1>. QED BY <1>4, <1>5

\* A step, and a list of steps at a depth, with the macros of D in place: f[d]
\* has each macro with its nested ones, as they are at depth d.
Piece(D, f, d, step) ==
  IF step.does # "fire" THEN <<step>>
  ELSE IF step.id \in D THEN f[d + 1][step.id] ELSE <<>>
InPlace(D, f, d, steps) ==
  IF d = MAX_MACRO_DEPTH THEN <<>>
  ELSE FlattenSeq([i \in DOMAIN steps |-> Piece(D, f, d, steps[i])])
UnfoldsFrom(n, ms, f) ==
  f = [d \in n..MAX_MACRO_DEPTH |-> [id \in DOMAIN ms |-> InPlace(DOMAIN ms, f, d, ms[id].steps)]]
Unfolds(ms, f) == UnfoldsFrom(0, ms, f)

LEMMA InPlaceLooksOneDown ==
  ASSUME NEW D, NEW f, NEW g, NEW d, NEW steps, d = MAX_MACRO_DEPTH \/ f[d + 1] = g[d + 1]
  PROVE  InPlace(D, f, d, steps) = InPlace(D, g, d, steps)
<1>1. CASE d = MAX_MACRO_DEPTH
  BY <1>1 DEF InPlace
<1>2. CASE f[d + 1] = g[d + 1]
  <2>1. \A i \in DOMAIN steps : Piece(D, f, d, steps[i]) = Piece(D, g, d, steps[i])
    BY <1>2 DEF Piece
  <2>2. [i \in DOMAIN steps |-> Piece(D, f, d, steps[i])] = [i \in DOMAIN steps |-> Piece(D, g, d, steps[i])]
    BY <2>1
  <2>. QED BY <2>2 DEF InPlace
<1>. QED BY <1>1, <1>2

LEMMA UnfoldsAt ==
  ASSUME NEW n \in 0..MAX_MACRO_DEPTH, NEW ms, NEW f, UnfoldsFrom(n, ms, f), NEW d \in n..MAX_MACRO_DEPTH
  PROVE  f[d] = [id \in DOMAIN ms |-> InPlace(DOMAIN ms, f, d, ms[id].steps)]
<1>. DEFINE F(j) == [id \in DOMAIN ms |-> InPlace(DOMAIN ms, f, j, ms[id].steps)]
<1>1. f = [j \in n..MAX_MACRO_DEPTH |-> F(j)]
  BY DEF UnfoldsFrom
<1>. HIDE DEF F
<1>2. f[d] = F(d)
  BY <1>1
<1>. QED BY <1>2 DEF F

LEMMA UnfoldsThere ==
  ASSUME NEW ms, NEW f, Unfolds(ms, f), NEW d \in 0..MAX_MACRO_DEPTH, NEW id \in DOMAIN ms
  PROVE  f[d][id] = InPlace(DOMAIN ms, f, d, ms[id].steps)
<1>1. 0 \in 0..MAX_MACRO_DEPTH
  BY MacroAssumption
<1>2. f[d] = [x \in DOMAIN ms |-> InPlace(DOMAIN ms, f, d, ms[x].steps)]
  BY <1>1, UnfoldsAt DEF Unfolds
<1>. QED BY <1>2

\* The recursion is well defined: it goes one deeper each time, down to the limit.
LEMMA UnfoldingExists ==
  ASSUME NEW ms
  PROVE  \E f : Unfolds(ms, f)
<1>. DEFINE M == MAX_MACRO_DEPTH
            Bad == {n \in Nat : n <= M /\ ~ \E f : UnfoldsFrom(M - n, ms, f)}
<1>1. M \in Nat
  BY MacroAssumption
<1>2. SUFFICES ASSUME Bad # {} PROVE FALSE
  <2>1. ASSUME Bad = {} PROVE \E f : Unfolds(ms, f)
    <3>1. M - M = 0 /\ M \in Nat /\ M <= M
      BY <1>1
    <3>. DEFINE some(n) == \E f : UnfoldsFrom(M - n, ms, f)
    <3>2. some(M)
      <4>. HIDE DEF some
      <4>1. Bad = {n \in Nat : n <= M /\ ~some(n)}
        BY DEF some
      <4>. QED BY <2>1, <3>1, <4>1
    <3>3. \E f : UnfoldsFrom(0, ms, f)
      BY <3>1, <3>2
    <3>. QED BY <3>3 DEF Unfolds
  <2>. QED BY <2>1
<1>3. PICK m \in Bad : \A k \in Bad : m <= k
  <2>1. Bad \in SUBSET Nat
    OBVIOUS
  <2>. HIDE DEF Bad
  <2>. QED BY <1>2, <2>1, Least
<1>4. m \in Nat /\ m <= M /\ ~ \E f : UnfoldsFrom(M - m, ms, f)
  BY <1>3
<1>5. m # 0
  <2>. DEFINE e == [d \in M..M |-> [id \in DOMAIN ms |-> <<>>]]
  <2>1. \A d \in M..M : \A id \in DOMAIN ms : InPlace(DOMAIN ms, e, d, ms[id].steps) = <<>>
    BY <1>1 DEF InPlace
  <2>2. e = [d \in M..M |-> [id \in DOMAIN ms |-> InPlace(DOMAIN ms, e, d, ms[id].steps)]]
    BY <2>1
  <2>3. UnfoldsFrom(M, ms, e)
    BY <2>2 DEF UnfoldsFrom
  <2>4. M - 0 = M
    BY <1>1
  <2>. QED BY <1>4, <2>3, <2>4
<1>. DEFINE n == M - m
<1>6. n \in Nat /\ n < M /\ n + 1 \in 0..M /\ n + 1 = M - (m - 1) /\ m - 1 \in Nat /\ m - 1 <= M /\ ~(m <= m - 1)
  BY <1>1, <1>4, <1>5
<1>7. PICK f : UnfoldsFrom(n + 1, ms, f)
  <2>1. m - 1 \notin Bad
    BY <1>3, <1>6
  <2>. QED BY <1>6, <2>1
<1>. DEFINE g == [d \in n..M |-> [id \in DOMAIN ms |-> InPlace(DOMAIN ms, f, d, ms[id].steps)]]
<1>. HIDE DEF Bad, n
<1>8. \A d \in (n + 1)..M : g[d] = f[d]
  <2>1. ASSUME NEW d \in (n + 1)..M PROVE d \in n..M
    BY <1>1, <1>6, <2>1
  <2>. QED BY <1>6, <1>7, <2>1, UnfoldsAt
<1>. HIDE DEF g
<1>9. ASSUME NEW d \in n..M, NEW id \in DOMAIN ms
      PROVE  InPlace(DOMAIN ms, f, d, ms[id].steps) = InPlace(DOMAIN ms, g, d, ms[id].steps)
  <2>1. d = M \/ d + 1 \in (n + 1)..M
    BY <1>1, <1>6
  <2>. QED BY <1>8, <2>1, InPlaceLooksOneDown
<1>10. g = [d \in n..M |-> [id \in DOMAIN ms |-> InPlace(DOMAIN ms, g, d, ms[id].steps)]]
  BY <1>9 DEF g
<1>11. UnfoldsFrom(n, ms, g)
  BY <1>10 DEF UnfoldsFrom
<1>. QED BY <1>4, <1>11 DEF n

\* What Inlined is, now and after a step.
LEMMA InlinedUnfolds == Unfolds(macros, Inlined) /\ Unfolds(macros', Inlined')
<1>1. ASSUME NEW ms PROVE
        LET c == CHOOSE f : f = [depth \in 0..MAX_MACRO_DEPTH |->
                   [id \in DOMAIN ms |->
                     IF depth = MAX_MACRO_DEPTH THEN <<>>
                     ELSE FlattenSeq([i \in DOMAIN ms[id].steps |->
                            LET step == ms[id].steps[i] IN
                              IF step.does # "fire" THEN <<step>>
                              ELSE IF step.id \in DOMAIN ms THEN f[depth + 1][step.id] ELSE <<>>])]]
        IN Unfolds(ms, c)
  BY UnfoldingExists DEF Unfolds, UnfoldsFrom, InPlace, Piece
<1>. QED BY <1>1 DEF Inlined

\* Of the macros' types: those of a show, edited.
MacrosOf(ms) == ms \in [DOMAIN ms -> [name : Names, marks : BOOLEAN, steps : Seq(Step)]]

LEMMA PiecesType ==
  ASSUME NEW D, NEW d \in Nat, NEW f, \A id \in D : f[d + 1][id] \in Seq(Step), NEW steps \in Seq(Step)
  PROVE  [i \in DOMAIN steps |-> Piece(D, f, d, steps[i])] \in Seq(Seq(Step))
<1>1. \A i \in 1..Len(steps) : Piece(D, f, d, steps[i]) \in Seq(Step)
  BY DEF Piece
<1>2. DOMAIN steps = 1..Len(steps) /\ Len(steps) \in Nat
  OBVIOUS
<1>. QED BY <1>1, <1>2

LEMMA InPlaceType ==
  ASSUME NEW D, NEW d \in 0..MAX_MACRO_DEPTH, NEW f,
         d # MAX_MACRO_DEPTH => \A id \in D : f[d + 1][id] \in Seq(Step),
         NEW steps \in Seq(Step)
  PROVE  InPlace(D, f, d, steps) \in Seq(Step)
<1>1. CASE d = MAX_MACRO_DEPTH
  BY <1>1 DEF InPlace
<1>2. CASE d # MAX_MACRO_DEPTH
  <2>1. d \in Nat
    BY MacroAssumption
  <2>2. [i \in DOMAIN steps |-> Piece(D, f, d, steps[i])] \in Seq(Seq(Step))
    BY <1>2, <2>1, PiecesType
  <2>. QED BY <1>2, <2>2, FlattenType DEF InPlace
<1>. QED BY <1>1, <1>2

LEMMA UnfoldingType ==
  ASSUME NEW ms, MacrosOf(ms), NEW f, Unfolds(ms, f)
  PROVE  \A d \in 0..MAX_MACRO_DEPTH : \A id \in DOMAIN ms : f[d][id] \in Seq(Step)
<1>. DEFINE M == MAX_MACRO_DEPTH
            Typed(d) == \A id \in DOMAIN ms : f[d][id] \in Seq(Step)
            Bad == {n \in Nat : n <= M /\ ~Typed(M - n)}
<1>1. M \in Nat
  BY MacroAssumption
<1>2. SUFFICES ASSUME Bad # {} PROVE FALSE
  <2>1. ASSUME Bad = {}, NEW d \in 0..M PROVE Typed(d)
    <3>1. M - d \in Nat /\ M - d <= M /\ M - (M - d) = d
      BY <1>1
    <3>. HIDE DEF Typed
    <3>. QED BY <2>1, <3>1
  <2>. QED BY <2>1
<1>3. PICK m \in Bad : \A k \in Bad : m <= k
  <2>1. Bad \in SUBSET Nat
    OBVIOUS
  <2>. HIDE DEF Bad
  <2>. QED BY <1>2, <2>1, Least
<1>. DEFINE n == M - m
<1>4. m \in Nat /\ m <= M /\ n \in 0..M /\ ~Typed(n)
  BY <1>1, <1>3
<1>5. n # M => Typed(n + 1)
  <2>1. ASSUME n # M PROVE m - 1 \in Nat /\ m - 1 <= M /\ M - (m - 1) = n + 1 /\ ~(m <= m - 1)
    BY <1>1, <1>4, <2>1
  <2>. HIDE DEF Typed
  <2>2. n # M => m - 1 \notin Bad
    BY <1>3, <2>1
  <2>. QED BY <2>1, <2>2
<1>. HIDE DEF Bad, n
<1>6. ASSUME NEW id \in DOMAIN ms PROVE f[n][id] \in Seq(Step)
  <2>1. f[n][id] = InPlace(DOMAIN ms, f, n, ms[id].steps)
    BY <1>4, UnfoldsThere
  <2>2. ms[id].steps \in Seq(Step)
    BY DEF MacrosOf
  <2>. QED BY <1>4, <1>5, <2>1, <2>2, InPlaceType
<1>. QED BY <1>4, <1>6

\* Only the steps count: a new name changes nothing.
LEMMA UnfoldingOfSteps ==
  ASSUME NEW ms, NEW ns, NEW f, NEW g, Unfolds(ms, f), Unfolds(ns, g), DOMAIN ms = DOMAIN ns,
         \A id \in DOMAIN ms : ms[id].steps = ns[id].steps
  PROVE  f = g
<1>. DEFINE M == MAX_MACRO_DEPTH
            Bad == {n \in Nat : n <= M /\ f[M - n] # g[M - n]}
<1>1. M \in Nat /\ 0 \in 0..M
  BY MacroAssumption
<1>2. \A d \in 0..M : /\ f[d] = [id \in DOMAIN ms |-> InPlace(DOMAIN ms, f, d, ms[id].steps)]
                      /\ g[d] = [id \in DOMAIN ns |-> InPlace(DOMAIN ns, g, d, ns[id].steps)]
  BY <1>1, UnfoldsAt DEF Unfolds
<1>3. Bad = {}
  <2>1. SUFFICES ASSUME Bad # {} PROVE FALSE
    OBVIOUS
  <2>2. PICK m \in Bad : \A k \in Bad : m <= k
    <3>1. Bad \in SUBSET Nat
      OBVIOUS
    <3>. HIDE DEF Bad
    <3>. QED BY <2>1, <3>1, Least
  <2>. DEFINE n == M - m
  <2>3. m \in Nat /\ m <= M /\ n \in 0..M /\ f[n] # g[n]
    BY <1>1, <2>2
  <2>4. n = M \/ f[n + 1] = g[n + 1]
    <3>1. ASSUME n # M PROVE m - 1 \in Nat /\ m - 1 <= M /\ M - (m - 1) = n + 1 /\ ~(m <= m - 1)
      BY <1>1, <2>3, <3>1
    <3>2. n # M => m - 1 \notin Bad
      BY <2>2, <3>1
    <3>. QED BY <3>1, <3>2
  <2>. HIDE DEF n, Bad
  <2>5. \A id \in DOMAIN ms : InPlace(DOMAIN ms, f, n, ms[id].steps) = InPlace(DOMAIN ns, g, n, ns[id].steps)
    BY <2>4, InPlaceLooksOneDown
  <2>6. /\ f[n] = [id \in DOMAIN ms |-> InPlace(DOMAIN ms, f, n, ms[id].steps)]
        /\ g[n] = [id \in DOMAIN ms |-> InPlace(DOMAIN ns, g, n, ns[id].steps)]
    BY <1>2, <2>3
  <2>7. f[n] = g[n]
    BY <2>5, <2>6
  <2>. QED BY <2>3, <2>7
<1>4. ASSUME NEW d \in 0..M PROVE f[d] = g[d]
  <2>1. M - d \in Nat /\ M - d <= M /\ M - (M - d) = d
    BY <1>1
  <2>. QED BY <1>3, <2>1
<1>5. f = [d \in 0..M |-> f[d]] /\ g = [d \in 0..M |-> g[d]]
  <2>. DEFINE F(d) == [id \in DOMAIN ms |-> InPlace(DOMAIN ms, f, d, ms[id].steps)]
              G(d) == [id \in DOMAIN ns |-> InPlace(DOMAIN ns, g, d, ns[id].steps)]
  <2>1. f = [d \in 0..M |-> F(d)] /\ g = [d \in 0..M |-> G(d)]
    BY DEF Unfolds, UnfoldsFrom
  <2>. HIDE DEF F, G
  <2>. QED BY <2>1
<1>. QED BY <1>4, <1>5

\* What is left to do of the levels of a firing, the innermost first.
LeftOf(D, f, levels) == FlattenSeq([i \in DOMAIN levels |-> InPlace(D, f, Len(levels) - i, levels[i])])
Typed(D, f) == \A d \in 0..MAX_MACRO_DEPTH : \A id \in D : f[d][id] \in Seq(Step)

LEMMA InPlaceTyped ==
  ASSUME NEW D, NEW f, Typed(D, f), NEW d \in 0..MAX_MACRO_DEPTH, NEW steps \in Seq(Step)
  PROVE  InPlace(D, f, d, steps) \in Seq(Step)
<1>1. d # MAX_MACRO_DEPTH => d + 1 \in 0..MAX_MACRO_DEPTH
  BY MacroAssumption
<1>. QED BY <1>1, InPlaceType DEF Typed

\* The first step, and then the others.
LEMMA InPlaceHead ==
  ASSUME NEW D, NEW f, Typed(D, f), NEW d \in 0..(MAX_MACRO_DEPTH - 1), NEW steps \in Seq(Step), steps # <<>>
  PROVE  /\ InPlace(D, f, d, steps) = Piece(D, f, d, Head(steps)) \o InPlace(D, f, d, Tail(steps))
         /\ Piece(D, f, d, Head(steps)) \in Seq(Step)
<1>. DEFINE P(s) == [i \in DOMAIN s |-> Piece(D, f, d, s[i])]
<1>1. d \in Nat /\ d # MAX_MACRO_DEPTH /\ d + 1 \in 0..MAX_MACRO_DEPTH
  BY MacroAssumption
<1>2. \A id \in D : f[d + 1][id] \in Seq(Step)
  BY <1>1 DEF Typed
<1>3. P(steps) \in Seq(Seq(Step))
  BY <1>1, <1>2, PiecesType
<1>4. DOMAIN steps = 1..Len(steps) /\ Len(steps) \in Nat /\ Len(steps) # 0 /\ Head(steps) = steps[1]
      /\ DOMAIN Tail(steps) = 1..(Len(steps) - 1) /\ Len(Tail(steps)) = Len(steps) - 1
      /\ \A i \in 1..(Len(steps) - 1) : Tail(steps)[i] = steps[i + 1]
  OBVIOUS
<1>5. P(steps) # <<>> /\ Head(P(steps)) = Piece(D, f, d, Head(steps)) /\ Len(P(steps)) = Len(steps)
  BY <1>3, <1>4
<1>6. Tail(P(steps)) = P(Tail(steps))
  <2>1. P(Tail(steps)) = [i \in 1..(Len(steps) - 1) |-> Piece(D, f, d, steps[i + 1])]
    BY <1>4
  <2>2. Tail(P(steps)) = [i \in 1..(Len(steps) - 1) |-> P(steps)[i + 1]]
    BY <1>3, <1>5
  <2>3. \A i \in 1..(Len(steps) - 1) : P(steps)[i + 1] = Piece(D, f, d, steps[i + 1])
    BY <1>4
  <2>. QED BY <2>1, <2>2, <2>3
<1>7. FlattenSeq(P(steps)) = Head(P(steps)) \o FlattenSeq(Tail(P(steps)))
  <2>. HIDE DEF P
  <2>. QED BY <1>3, <1>5, FlattenHead
<1>8. InPlace(D, f, d, steps) = FlattenSeq(P(steps)) /\ InPlace(D, f, d, Tail(steps)) = FlattenSeq(P(Tail(steps)))
  BY <1>1 DEF InPlace
<1>9. Head(P(steps)) \in Seq(Step)
  <2>. HIDE DEF P
  <2>. QED BY <1>3, <1>5
<1>. QED BY <1>5, <1>6, <1>7, <1>8, <1>9

LEMMA InPlaceNothing ==
  ASSUME NEW D, NEW f, NEW d
  PROVE  InPlace(D, f, d, <<>>) = <<>>
<1>1. [i \in DOMAIN <<>> |-> Piece(D, f, d, <<>>[i])] = <<>>
  OBVIOUS
<1>2. FlattenSeq(<<>>) = <<>>
  BY DEF FlattenSeq
<1>. QED BY <1>1, <1>2 DEF InPlace

LEMMA LeftOfNothing == ASSUME NEW D, NEW f PROVE LeftOf(D, f, <<>>) = <<>>
<1>1. [i \in DOMAIN <<>> |-> InPlace(D, f, Len(<<>>) - i, <<>>[i])] = <<>>
  OBVIOUS
<1>2. FlattenSeq(<<>>) = <<>>
  BY DEF FlattenSeq
<1>. QED BY <1>1, <1>2 DEF LeftOf

LEMMA LeftsType ==
  ASSUME NEW D, NEW f, Typed(D, f), NEW levels \in Seq(Seq(Step)), Len(levels) <= MAX_MACRO_DEPTH
  PROVE  /\ [i \in DOMAIN levels |-> InPlace(D, f, Len(levels) - i, levels[i])] \in Seq(Seq(Step))
         /\ LeftOf(D, f, levels) \in Seq(Step)
<1>1. DOMAIN levels = 1..Len(levels) /\ Len(levels) \in Nat
  OBVIOUS
<1>2. ASSUME NEW i \in 1..Len(levels)
      PROVE  InPlace(D, f, Len(levels) - i, levels[i]) \in Seq(Step)
  <2>1. Len(levels) - i \in 0..MAX_MACRO_DEPTH /\ levels[i] \in Seq(Step)
    BY <1>1, MacroAssumption
  <2>. QED BY <2>1, InPlaceTyped
<1>3. [i \in DOMAIN levels |-> InPlace(D, f, Len(levels) - i, levels[i])] \in Seq(Seq(Step))
  BY <1>1, <1>2
<1>. QED BY <1>3, FlattenType DEF LeftOf

LEMMA TailAt ==
  ASSUME NEW S, NEW s \in Seq(S), s # <<>>, NEW n, n = Len(s) - 1
  PROVE  Tail(s) = [i \in 1..n |-> s[i + 1]]
<1>1. Tail(s) \in Seq(S) /\ Len(Tail(s)) = n /\ n \in Nat /\ \A i \in 1..n : Tail(s)[i] = s[i + 1]
  OBVIOUS
<1>. DEFINE t == Tail(s)
<1>. HIDE DEF t
<1>2. t \in Seq(S) /\ Len(t) = n /\ n \in Nat /\ \A i \in 1..n : t[i] = s[i + 1]
  BY <1>1 DEF t
<1>3. t = [i \in 1..n |-> t[i]]
  BY <1>2
<1>4. t = [i \in 1..n |-> s[i + 1]]
  BY <1>2, <1>3
<1>. QED BY <1>4 DEF t

\* One more level, on top of the others.
LEMMA LeftOfPushed ==
  ASSUME NEW D, NEW f, Typed(D, f), NEW levels \in Seq(Seq(Step)), NEW steps \in Seq(Step),
         Len(levels) < MAX_MACRO_DEPTH
  PROVE  LeftOf(D, f, <<steps>> \o levels) = InPlace(D, f, Len(levels), steps) \o LeftOf(D, f, levels)
<1>. DEFINE all == <<steps>> \o levels
            L(ls) == [i \in DOMAIN ls |-> InPlace(D, f, Len(ls) - i, ls[i])]
            n == Len(levels)
<1>1. n \in Nat /\ Len(all) = n + 1 /\ all \in Seq(Seq(Step)) /\ all[1] = steps /\ DOMAIN all = 1..(n + 1)
      /\ DOMAIN levels = 1..n /\ \A i \in 1..n : all[i + 1] = levels[i]
  OBVIOUS
<1>2. Len(all) <= MAX_MACRO_DEPTH
  BY <1>1, MacroAssumption
<1>. HIDE DEF all
<1>3. L(all) \in Seq(Seq(Step))
  BY <1>1, <1>2, LeftsType
<1>4. Len(L(all)) = n + 1 /\ L(all) # <<>> /\ Head(L(all)) = InPlace(D, f, n, steps)
  BY <1>1, <1>3
<1>5. Tail(L(all)) = L(levels)
  <2>1. Tail(L(all)) = [i \in 1..n |-> L(all)[i + 1]]
    <3>. DEFINE s == L(all)
    <3>1. s \in Seq(Seq(Step)) /\ n = Len(s) - 1 /\ s # <<>>
      BY <1>1, <1>3, <1>4
    <3>. HIDE DEF s, n
    <3>2. Tail(s) = [i \in 1..n |-> s[i + 1]]
      BY <3>1, TailAt, Zenon
    <3>. QED BY <3>2 DEF s
  <2>2. ASSUME NEW i \in 1..n PROVE L(all)[i + 1] = InPlace(D, f, n - i, levels[i])
    <3>1. i + 1 \in 1..(n + 1) /\ (n + 1) - (i + 1) = n - i
      <4>1. n \in Nat /\ i \in 1..n
        BY <1>1
      <4>. HIDE DEF n
      <4>. QED BY <4>1
    <3>2. \A j \in 1..(n + 1) : L(all)[j] = InPlace(D, f, (n + 1) - j, all[j])
      <4>1. \A j \in DOMAIN all : L(all)[j] = InPlace(D, f, Len(all) - j, all[j])
        OBVIOUS
      <4>. HIDE DEF L, n
      <4>. QED BY <1>1, <4>1
    <3>. HIDE DEF L, n
    <3>. QED BY <1>1, <3>1, <3>2
  <2>3. L(levels) = [i \in 1..n |-> InPlace(D, f, n - i, levels[i])]
    BY <1>1
  <2>. HIDE DEF L, n
  <2>. QED BY <2>1, <2>2, <2>3
<1>6. FlattenSeq(L(all)) = Head(L(all)) \o FlattenSeq(Tail(L(all)))
  <2>. HIDE DEF L
  <2>. QED BY <1>3, <1>4, FlattenHead
<1>. QED BY <1>4, <1>5, <1>6 DEF LeftOf, all

LEMMA StepsAssociate == \A a, b, c \in Seq(Step) : (a \o b) \o c = a \o (b \o c)
BY ConcatAssociative

\* A firing's next step, and what is left after it.
LEMMA LeftOfStep ==
  ASSUME NEW D, NEW f, Typed(D, f), NEW levels \in Seq(Seq(Step)), levels # <<>>, Head(levels) # <<>>,
         Len(levels) <= MAX_MACRO_DEPTH
  PROVE  LET now == Piece(D, f, Len(levels) - 1, Head(Head(levels)))
             then == LeftOf(D, f, <<Tail(Head(levels))>> \o Tail(levels))
         IN  /\ LeftOf(D, f, levels) = now \o then
             /\ now \in Seq(Step) /\ then \in Seq(Step)
<1>. DEFINE h == Head(levels)  t == Tail(levels)  n == Len(t)
<1>1. levels = <<h>> \o t /\ h \in Seq(Step) /\ t \in Seq(Seq(Step)) /\ n = Len(levels) - 1 /\ n \in Nat /\ h # <<>>
      /\ Tail(h) \in Seq(Step)
  <2>1. h \in Seq(Step) /\ t \in Seq(Seq(Step)) /\ n = Len(levels) - 1 /\ n \in Nat /\ h # <<>>
    OBVIOUS
  <2>2. levels = <<h>> \o t
    OBVIOUS
  <2>. HIDE DEF h, t, n
  <2>3. Tail(h) \in Seq(Step)
    BY <2>1
  <2>. QED BY <2>1, <2>2, <2>3
<1>2. n < MAX_MACRO_DEPTH /\ n \in 0..(MAX_MACRO_DEPTH - 1) /\ n \in 0..MAX_MACRO_DEPTH /\ n <= MAX_MACRO_DEPTH
  BY <1>1, MacroAssumption
<1>. HIDE DEF h, t, n
<1>3. LeftOf(D, f, levels) = InPlace(D, f, n, h) \o LeftOf(D, f, t)
  BY <1>1, <1>2, LeftOfPushed DEF n
<1>4. LeftOf(D, f, <<Tail(h)>> \o t) = InPlace(D, f, n, Tail(h)) \o LeftOf(D, f, t)
  BY <1>1, <1>2, LeftOfPushed DEF n
<1>5. InPlace(D, f, n, h) = Piece(D, f, n, Head(h)) \o InPlace(D, f, n, Tail(h)) /\ Piece(D, f, n, Head(h)) \in Seq(Step)
  BY <1>1, <1>2, InPlaceHead
<1>6. InPlace(D, f, n, Tail(h)) \in Seq(Step) /\ LeftOf(D, f, t) \in Seq(Step)
  BY <1>1, <1>2, InPlaceTyped, LeftsType DEF n
<1>7. LeftOf(D, f, levels) = Piece(D, f, n, Head(h)) \o LeftOf(D, f, <<Tail(h)>> \o t)
  <2>. DEFINE a == Piece(D, f, n, Head(h))  b == InPlace(D, f, n, Tail(h))  c == LeftOf(D, f, t)
  <2>1. a \in Seq(Step) /\ b \in Seq(Step) /\ c \in Seq(Step)
    BY <1>5, <1>6
  <2>. HIDE DEF a, b, c
  <2>2. (a \o b) \o c = a \o (b \o c)
    BY <2>1, StepsAssociate, Zenon
  <2>. QED BY <1>3, <1>4, <1>5, <2>2 DEF a, b, c
<1>8. LeftOf(D, f, <<Tail(h)>> \o t) \in Seq(Step)
  <2>. DEFINE S == Step  b == InPlace(D, f, n, Tail(h))  c == LeftOf(D, f, t)
  <2>1. b \in Seq(S) /\ c \in Seq(S) /\ LeftOf(D, f, <<Tail(h)>> \o t) = b \o c
    BY <1>4, <1>6
  <2>. HIDE DEF S, b, c
  <2>2. b \o c \in Seq(S)
    BY <2>1, ConcatProperties
  <2>. QED BY <2>1, <2>2 DEF S
<1>. QED BY <1>1, <1>5, <1>7, <1>8 DEF h, t

\* A macro that has no step left is over.
LEMMA LeftOfEnded ==
  ASSUME NEW D, NEW f, Typed(D, f), NEW levels \in Seq(Seq(Step)), levels # <<>>, Head(levels) = <<>>,
         Len(levels) <= MAX_MACRO_DEPTH
  PROVE  LeftOf(D, f, levels) = LeftOf(D, f, Tail(levels))
<1>. DEFINE t == Tail(levels)
<1>1. levels = <<Head(levels)>> \o t /\ t \in Seq(Seq(Step)) /\ Len(t) = Len(levels) - 1 /\ Len(t) \in Nat
  OBVIOUS
<1>2. Len(t) < MAX_MACRO_DEPTH /\ Len(t) <= MAX_MACRO_DEPTH
  BY <1>1, MacroAssumption
<1>. HIDE DEF t
<1>3. LeftOf(D, f, levels) = InPlace(D, f, Len(t), <<>>) \o LeftOf(D, f, t)
  <2>1. <<>> \in Seq(Step) /\ levels = <<<<>>>> \o t
    BY <1>1
  <2>. QED BY <1>1, <1>2, <2>1, LeftOfPushed
<1>4. LeftOf(D, f, t) \in Seq(Step)
  BY <1>1, <1>2, LeftsType
<1>5. InPlace(D, f, Len(t), <<>>) = <<>>
  BY <1>1, InPlaceNothing
<1>6. <<>> \o LeftOf(D, f, t) = LeftOf(D, f, t)
  <2>. DEFINE l == LeftOf(D, f, t)
  <2>1. l \in Seq(Step)
    BY <1>4
  <2>. HIDE DEF l
  <2>2. <<>> \o l = l
    BY <2>1, ConcatEmptySeq
  <2>. QED BY <2>2 DEF l
<1>. QED BY <1>3, <1>5, <1>6 DEF t

-----------------------------------------------------------------------------
(* The firings.                                                            *)

Run == [phase : {"step", "send", "mirror", "over"}, levels : Seq(Seq(Step)), silent : BOOLEAN,
        value : {0, 1}, did : Seq(Step), plan : Seq(Step), spoilt : BOOLEAN]

\* No firing is deeper than the limit, and what it sends is a parameter's.
Shape(run) ==
  /\ Len(run.levels) <= MAX_MACRO_DEPTH
  /\ run.phase = "over" <=> run.levels = <<>>
  /\ run.phase \in {"send", "mirror"} => /\ Head(run.levels) # <<>>
                                         /\ Head(Head(run.levels)).does \in {"set", "toggle"}

\* What a firing has done and what is ahead of it are its plan.
Ahead(run) == IF run.phase = "mirror" THEN <<Tail(Head(run.levels))>> \o Tail(run.levels) ELSE run.levels
OnPlan(D, f, run) == run.spoilt \/ run.did \o LeftOf(D, f, Ahead(run)) = run.plan

RunsInv ==
  /\ MacrosOf(macros) /\ macroRuns \in Seq(Run) /\ Len(macroRuns) <= MaxRuns
  /\ \A r \in DOMAIN macroRuns : Shape(macroRuns[r]) /\ OnPlan(DOMAIN macros, Inlined, macroRuns[r])

LEMMA StepParts ==
  ASSUME NEW s \in Step
  PROVE  /\ s.does \in {"set", "toggle", "fire", "ask"}
         /\ s.does \in {"set", "toggle"} => s.at \in MacroParams
         /\ s.does = "set" => s.to \in {0, 1}
BY DEF Step

LEMMA InlinedTyped == MacrosOf(macros) => Typed(DOMAIN macros, Inlined)
BY InlinedUnfolds, UnfoldingType DEF Typed

\* As long as the macros have the same steps, so has what they are inlined.
SameSteps == DOMAIN macros' = DOMAIN macros /\ \A id \in DOMAIN macros : macros'[id].steps = macros[id].steps
LEMMA InlinedStays == SameSteps => Inlined' = Inlined
BY InlinedUnfolds, UnfoldingOfSteps DEF SameSteps

\* A firing's step, in general.
LEMMA RunBecomes ==
  ASSUME RunsInv, NEW r \in DOMAIN macroRuns, NEW run \in Run, Becomes(r, run), UNCHANGED macros,
         Shape(run), OnPlan(DOMAIN macros, Inlined, run)
  PROVE  RunsInv' /\ DOMAIN macroRuns' = DOMAIN macroRuns
<1>1. macroRuns' = [macroRuns EXCEPT ![r] = run] /\ macroRuns \in Seq(Run) /\ r \in 1..Len(macroRuns)
      /\ DOMAIN macroRuns = 1..Len(macroRuns)
  BY DEF Becomes, RunsInv
<1>2. macroRuns' \in Seq(Run) /\ Len(macroRuns') = Len(macroRuns) /\ DOMAIN macroRuns' = DOMAIN macroRuns
  BY <1>1
<1>3. \A q \in DOMAIN macroRuns : macroRuns'[q] = IF q = r THEN run ELSE macroRuns[q]
  BY <1>1
<1>4. Inlined' = Inlined
  BY InlinedStays DEF SameSteps
<1>5. \A q \in DOMAIN macroRuns : Shape(macroRuns'[q]) /\ OnPlan(DOMAIN macros, Inlined, macroRuns'[q])
  BY <1>3 DEF RunsInv
<1>. QED BY <1>2, <1>4, <1>5 DEF RunsInv

\* What a firing at work looks like.
LEMMA RunAtWork ==
  ASSUME RunsInv, NEW r \in DOMAIN macroRuns, macroRuns[r].levels # <<>>
  PROVE  LET run == macroRuns[r]  D == DOMAIN macros
             rest == <<Tail(Head(run.levels))>> \o Tail(run.levels) IN
         /\ run \in Run /\ Shape(run) /\ OnPlan(D, Inlined, run)
         /\ Head(run.levels) \in Seq(Step) /\ Tail(run.levels) \in Seq(Seq(Step))
         /\ Len(Tail(run.levels)) = Len(run.levels) - 1 /\ Len(run.levels) \in 1..MAX_MACRO_DEPTH
         /\ Head(run.levels) # <<>> =>
              /\ Current(r) \in Step /\ rest \in Seq(Seq(Step)) /\ rest # <<>> /\ Len(rest) = Len(run.levels)
              /\ LeftOf(D, Inlined, run.levels)
                   = Piece(D, Inlined, Len(run.levels) - 1, Current(r)) \o LeftOf(D, Inlined, rest)
              /\ LeftOf(D, Inlined, rest) \in Seq(Step)
<1>. DEFINE run == macroRuns[r]  D == DOMAIN macros
            rest == <<Tail(Head(run.levels))>> \o Tail(run.levels)
<1>1. run \in Run /\ Shape(run) /\ OnPlan(D, Inlined, run)
  BY DEF RunsInv
<1>2. run.levels \in Seq(Seq(Step))
  BY <1>1 DEF Run
<1>3. Typed(D, Inlined)
  BY InlinedTyped DEF RunsInv
<1>4. Len(run.levels) <= MAX_MACRO_DEPTH
  BY <1>1 DEF Shape
<1>5. Head(run.levels) \in Seq(Step) /\ Tail(run.levels) \in Seq(Seq(Step))
      /\ Len(Tail(run.levels)) = Len(run.levels) - 1 /\ Len(run.levels) \in 1..MAX_MACRO_DEPTH
  BY <1>2, <1>4, MacroAssumption
<1>6. ASSUME Head(run.levels) # <<>>
      PROVE  /\ Current(r) \in Step /\ rest \in Seq(Seq(Step)) /\ rest # <<>> /\ Len(rest) = Len(run.levels)
             /\ LeftOf(D, Inlined, run.levels)
                  = Piece(D, Inlined, Len(run.levels) - 1, Current(r)) \o LeftOf(D, Inlined, rest)
             /\ LeftOf(D, Inlined, rest) \in Seq(Step)
  <2>1. Current(r) = Head(Head(run.levels)) /\ Current(r) \in Step /\ Tail(Head(run.levels)) \in Seq(Step)
    BY <1>5, <1>6 DEF Current
  <2>2. rest \in Seq(Seq(Step)) /\ rest # <<>> /\ Len(rest) = Len(run.levels)
    BY <1>5, <2>1
  <2>. HIDE DEF run, D
  <2>3. /\ LeftOf(D, Inlined, run.levels)
             = Piece(D, Inlined, Len(run.levels) - 1, Head(Head(run.levels))) \o LeftOf(D, Inlined, rest)
        /\ LeftOf(D, Inlined, rest) \in Seq(Step)
    BY <1>2, <1>3, <1>4, <1>6, LeftOfStep DEF run
  <2>. QED BY <2>1, <2>2, <2>3
<1>. QED BY <1>1, <1>5, <1>6

LEMMA StepTakenIs ==
  ASSUME RunsInv, NEW r \in DOMAIN macroRuns, macroRuns[r].levels # <<>>, Head(macroRuns[r].levels) # <<>>
  PROVE  LET run == macroRuns[r]  done == StepTaken(r) IN
         /\ done \in Run /\ done.levels = <<Tail(Head(run.levels))>> \o Tail(run.levels) /\ done.phase = "step"
         /\ done.did = run.did /\ done.plan = run.plan /\ done.spoilt = run.spoilt /\ done.value = run.value
         /\ done.silent = run.silent /\ Shape(done)
<1>. DEFINE run == macroRuns[r]  rest == <<Tail(Head(run.levels))>> \o Tail(run.levels)
<1>1. run \in Run /\ rest \in Seq(Seq(Step)) /\ rest # <<>> /\ Len(rest) = Len(run.levels) /\ Shape(run)
  BY RunAtWork
<1>2. StepTaken(r) = [run EXCEPT !.phase = "step", !.levels = rest]
  BY DEF StepTaken
<1>. HIDE DEF run, rest
<1>3. LET done == StepTaken(r) IN
        /\ done \in Run /\ done.levels = rest /\ done.phase = "step" /\ done.did = run.did /\ done.plan = run.plan
        /\ done.spoilt = run.spoilt /\ done.value = run.value /\ done.silent = run.silent
  BY <1>1, <1>2 DEF Run
<1>4. Shape(StepTaken(r))
  BY <1>1, <1>3 DEF Shape
<1>. QED BY <1>3, <1>4 DEF run, rest

\* A step done: it is on the plan, and the firing goes on behind it.
LEMMA DidOne ==
  ASSUME RunsInv, NEW r \in DOMAIN macroRuns, macroRuns[r].levels # <<>>, Head(macroRuns[r].levels) # <<>>,
         Current(r).does # "fire", macroRuns[r].phase # "mirror"
  PROVE  LET run == macroRuns[r]  rest == <<Tail(Head(run.levels))>> \o Tail(run.levels) IN
         /\ Append(run.did, Current(r)) \in Seq(Step)
         /\ run.spoilt \/ Append(run.did, Current(r)) \o LeftOf(DOMAIN macros, Inlined, rest) = run.plan
<1>. DEFINE run == macroRuns[r]  rest == <<Tail(Head(run.levels))>> \o Tail(run.levels)
            left == LeftOf(DOMAIN macros, Inlined, rest)  did == run.did  cur == Current(r)
<1>1. /\ run \in Run /\ OnPlan(DOMAIN macros, Inlined, run) /\ cur \in Step /\ left \in Seq(Step)
      /\ LeftOf(DOMAIN macros, Inlined, run.levels)
           = Piece(DOMAIN macros, Inlined, Len(run.levels) - 1, cur) \o left
  BY RunAtWork
<1>2. LeftOf(DOMAIN macros, Inlined, run.levels) = <<cur>> \o left
  BY <1>1 DEF Piece
<1>3. run.spoilt \/ did \o (<<cur>> \o left) = run.plan
  BY <1>1, <1>2 DEF OnPlan, Ahead
<1>4. did \in Seq(Step)
  BY <1>1 DEF Run
<1>. HIDE DEF run, left, did, cur
<1>5. Append(did, cur) = did \o <<cur>> /\ <<cur>> \in Seq(Step) /\ Append(did, cur) \in Seq(Step)
  <2>1. <<cur>> \in Seq(Step) /\ Append(did, cur) \in Seq(Step)
    BY <1>1, <1>4
  <2>2. Append(did, cur) = did \o <<cur>>
    BY <1>1, <1>4, AppendIsConcat
  <2>. QED BY <2>1, <2>2
<1>6. (did \o <<cur>>) \o left = did \o (<<cur>> \o left)
  <2>. DEFINE S == Step  one == <<cur>>
  <2>1. did \in Seq(S) /\ one \in Seq(S) /\ left \in Seq(S)
    BY <1>1, <1>4, <1>5
  <2>. HIDE DEF S, one
  <2>2. (did \o one) \o left = did \o (one \o left)
    BY <2>1, ConcatAssociative
  <2>. QED BY <2>2 DEF one
<1>. QED BY <1>3, <1>5, <1>6 DEF run, left, did, cur, rest

LEMMA ResolveRuns ==
  ASSUME RunsInv, NEW r \in DOMAIN macroRuns, Resolve(r), macroMirror \in [MacroParams -> {0, 1}]
  PROVE  RunsInv' /\ DOMAIN macroRuns' = DOMAIN macroRuns
<1>. DEFINE run == macroRuns[r]  cur == Current(r)
            to == IF cur.does = "set" THEN cur.to ELSE 1 - macroMirror[cur.at]
            next == [run EXCEPT !.phase = "send", !.value = to]
<1>1. run.phase = "step" /\ run.levels # <<>> /\ Head(run.levels) # <<>> /\ cur.does \in {"set", "toggle"}
      /\ Becomes(r, next) /\ UNCHANGED macros
  BY DEF Resolve, AtStep
<1>2. run \in Run /\ Shape(run) /\ OnPlan(DOMAIN macros, Inlined, run) /\ cur \in Step
  BY <1>1, RunAtWork
<1>3. cur = Head(Head(run.levels))
  BY DEF Current
<1>4. to \in {0, 1}
  <2>1. cur.at \in MacroParams /\ (cur.does = "set" => cur.to \in {0, 1})
    BY <1>1, <1>2, StepParts
  <2>2. macroMirror[cur.at] \in {0, 1}
    BY <2>1
  <2>. QED BY <2>1, <2>2
<1>. HIDE DEF to, cur, run
<1>5. next \in Run /\ next.levels = run.levels /\ next.phase = "send" /\ next.did = run.did /\ next.plan = run.plan
      /\ next.spoilt = run.spoilt
  BY <1>2, <1>4 DEF Run
<1>. HIDE DEF next
<1>6. Shape(next)
  BY <1>1, <1>2, <1>3, <1>5 DEF Shape
<1>7. OnPlan(DOMAIN macros, Inlined, next)
  BY <1>1, <1>2, <1>5 DEF OnPlan, Ahead
<1>. QED BY <1>1, <1>5, <1>6, <1>7, RunBecomes

LEMMA SendRuns ==
  ASSUME RunsInv, NEW r \in DOMAIN macroRuns, SendParameter(r)
  PROVE  RunsInv' /\ DOMAIN macroRuns' = DOMAIN macroRuns
<1>. DEFINE run == macroRuns[r]  cur == Current(r)  D == DOMAIN macros
            sent == [run EXCEPT !.phase = "mirror", !.did = Append(run.did, cur)]
            failed == [StepTaken(r) EXCEPT !.spoilt = TRUE]
<1>1. run.phase = "send" /\ UNCHANGED macros /\ (Becomes(r, sent) \/ Becomes(r, failed))
  BY DEF SendParameter
<1>2. run \in Run /\ Shape(run)
  BY DEF RunsInv
<1>3. run.levels # <<>> /\ Head(run.levels) # <<>> /\ cur.does \in {"set", "toggle"}
  BY <1>1, <1>2 DEF Shape, Current
<1>4. cur = Head(Head(run.levels))
  BY DEF Current
<1>5. CASE Becomes(r, sent)
  <2>. DEFINE rest == <<Tail(Head(run.levels))>> \o Tail(run.levels)
              did == Append(run.did, cur)
  <2>1. did \in Seq(Step) /\ (run.spoilt \/ did \o LeftOf(D, Inlined, rest) = run.plan)
    BY <1>1, <1>3, DidOne
  <2>. HIDE DEF run, cur, did, D
  <2>2. sent \in Run /\ sent.levels = run.levels /\ sent.phase = "mirror" /\ sent.did = did /\ sent.plan = run.plan
        /\ sent.spoilt = run.spoilt
    BY <1>2, <2>1 DEF Run, did
  <2>. HIDE DEF sent
  <2>3. Shape(sent)
    BY <1>1, <1>2, <1>3, <1>4, <2>2 DEF Shape
  <2>4. OnPlan(D, Inlined, sent)
    BY <2>1, <2>2 DEF OnPlan, Ahead
  <2>. QED BY <1>1, <1>5, <2>2, <2>3, <2>4, RunBecomes DEF D
<1>6. CASE Becomes(r, failed)
  <2>1. StepTaken(r) \in Run /\ Shape(StepTaken(r))
    BY <1>3, StepTakenIs
  <2>. DEFINE done == StepTaken(r)
  <2>. HIDE DEF done
  <2>2. failed = [done EXCEPT !.spoilt = TRUE]
    BY DEF done
  <2>3. failed \in Run /\ failed.spoilt /\ failed.levels = done.levels /\ failed.phase = done.phase
    BY <2>1, <2>2 DEF Run, done
  <2>. HIDE DEF failed
  <2>4. Shape(failed) /\ OnPlan(D, Inlined, failed)
    BY <2>1, <2>3 DEF Shape, OnPlan, done
  <2>. QED BY <1>1, <1>6, <2>3, <2>4, RunBecomes
<1>. QED BY <1>1, <1>5, <1>6

LEMMA MirrorOwnRuns ==
  ASSUME RunsInv, NEW r \in DOMAIN macroRuns, MirrorOwn(r)
  PROVE  RunsInv' /\ DOMAIN macroRuns' = DOMAIN macroRuns
<1>. DEFINE run == macroRuns[r]  done == StepTaken(r)
<1>1. run.phase = "mirror" /\ UNCHANGED macros /\ Becomes(r, done)
  BY DEF MirrorOwn
<1>2. run \in Run /\ Shape(run) /\ OnPlan(DOMAIN macros, Inlined, run)
  BY DEF RunsInv
<1>3. run.levels # <<>> /\ Head(run.levels) # <<>>
  BY <1>1, <1>2 DEF Shape
<1>4. /\ done \in Run /\ done.levels = <<Tail(Head(run.levels))>> \o Tail(run.levels) /\ done.phase = "step"
      /\ done.did = run.did /\ done.plan = run.plan /\ done.spoilt = run.spoilt /\ Shape(done)
  BY <1>3, StepTakenIs
<1>. HIDE DEF run, done
<1>5. OnPlan(DOMAIN macros, Inlined, done)
  BY <1>1, <1>2, <1>4 DEF OnPlan, Ahead
<1>. QED BY <1>1, <1>4, <1>5, RunBecomes

LEMMA AskRuns ==
  ASSUME RunsInv, NEW r \in DOMAIN macroRuns, Ask(r)
  PROVE  RunsInv' /\ DOMAIN macroRuns' = DOMAIN macroRuns
<1>. DEFINE run == macroRuns[r]  cur == Current(r)  done == StepTaken(r)
            asked == [done EXCEPT !.did = Append(done.did, cur)]
<1>1. run.phase = "step" /\ run.levels # <<>> /\ Head(run.levels) # <<>> /\ cur.does = "ask"
      /\ UNCHANGED macros /\ Becomes(r, asked)
  BY DEF Ask, AtStep
<1>2. /\ done \in Run /\ done.levels = <<Tail(Head(run.levels))>> \o Tail(run.levels) /\ done.phase = "step"
      /\ done.did = run.did /\ done.plan = run.plan /\ done.spoilt = run.spoilt /\ Shape(done)
  BY <1>1, StepTakenIs
<1>. DEFINE rest == <<Tail(Head(run.levels))>> \o Tail(run.levels)
            did == Append(run.did, cur)
<1>3. did \in Seq(Step) /\ (run.spoilt \/ did \o LeftOf(DOMAIN macros, Inlined, rest) = run.plan)
  BY <1>1, DidOne
<1>. HIDE DEF run, cur, done, did
<1>4. /\ asked \in Run /\ asked.levels = done.levels /\ asked.phase = "step" /\ asked.did = did
      /\ asked.plan = done.plan /\ asked.spoilt = done.spoilt
  BY <1>2, <1>3 DEF Run, did
<1>. HIDE DEF asked
<1>5. Shape(asked)
  BY <1>2, <1>4 DEF Shape
<1>6. OnPlan(DOMAIN macros, Inlined, asked)
  BY <1>2, <1>3, <1>4 DEF OnPlan, Ahead
<1>. QED BY <1>1, <1>4, <1>5, <1>6, RunBecomes

\* A macro fired in the place of the step that fires it; a step too deep, or of
\* a macro that is gone, is nothing, here and in the plan.
LEMMA FireRuns ==
  ASSUME RunsInv, NEW r \in DOMAIN macroRuns, FireMacro(r)
  PROVE  RunsInv' /\ DOMAIN macroRuns' = DOMAIN macroRuns
<1>. DEFINE run == macroRuns[r]  cur == Current(r)  done == StepTaken(r)  D == DOMAIN macros  n == Len(run.levels)
            rest == <<Tail(Head(run.levels))>> \o Tail(run.levels)
            left == LeftOf(D, Inlined, rest)
            deeper == [done EXCEPT !.levels = <<macros[cur.id].steps>> \o done.levels]
<1>1. run.phase = "step" /\ run.levels # <<>> /\ Head(run.levels) # <<>> /\ cur.does = "fire" /\ UNCHANGED macros
      /\ IF cur.id \in D /\ ~(n >= MAX_MACRO_DEPTH) THEN Becomes(r, deeper) ELSE Becomes(r, done)
  BY DEF FireMacro, AtStep, TooDeep
<1>2. /\ run \in Run /\ OnPlan(D, Inlined, run) /\ left \in Seq(Step) /\ n \in 1..MAX_MACRO_DEPTH
      /\ rest \in Seq(Seq(Step)) /\ Len(rest) = n
      /\ LeftOf(D, Inlined, run.levels) = Piece(D, Inlined, n - 1, cur) \o left
  BY <1>1, RunAtWork
<1>3. /\ done \in Run /\ done.levels = rest /\ done.phase = "step"
      /\ done.did = run.did /\ done.plan = run.plan /\ done.spoilt = run.spoilt /\ Shape(done)
  BY <1>1, StepTakenIs
<1>4. n \in 0..MAX_MACRO_DEPTH /\ (n - 1) + 1 = n
  BY <1>2, MacroAssumption
<1>5. run.spoilt \/ run.did \o LeftOf(D, Inlined, run.levels) = run.plan
  BY <1>1, <1>2 DEF OnPlan, Ahead
<1>6. Piece(D, Inlined, n - 1, cur) = IF cur.id \in D THEN Inlined[n][cur.id] ELSE <<>>
  BY <1>1, <1>4 DEF Piece
<1>7. cur.id \in D => Inlined[n][cur.id] = InPlace(D, Inlined, n, macros[cur.id].steps)
  BY <1>4, InlinedUnfolds, UnfoldsThere
<1>. HIDE DEF run, cur, done, D, n, left, rest
<1>8. CASE cur.id \in D /\ n < MAX_MACRO_DEPTH
  <2>1. macros[cur.id].steps \in Seq(Step)
    BY <1>8 DEF RunsInv, MacrosOf, D
  <2>. DEFINE all == <<macros[cur.id].steps>> \o rest
  <2>2. LeftOf(D, Inlined, all) = InPlace(D, Inlined, n, macros[cur.id].steps) \o left
    BY <1>2, <1>8, <2>1, InlinedTyped, LeftOfPushed DEF RunsInv, D, left
  <2>3. all \in Seq(Seq(Step)) /\ Len(all) = n + 1 /\ all # <<>> /\ n + 1 <= MAX_MACRO_DEPTH
    BY <1>2, <1>8, <2>1, MacroAssumption
  <2>. HIDE DEF all
  <2>4. deeper = [done EXCEPT !.levels = all]
    BY <1>3 DEF all
  <2>. HIDE DEF deeper
  <2>5. /\ deeper \in Run /\ deeper.levels = all /\ deeper.phase = "step" /\ deeper.did = run.did
        /\ deeper.plan = run.plan /\ deeper.spoilt = run.spoilt
    BY <1>3, <2>3, <2>4 DEF Run
  <2>6. Shape(deeper)
    BY <2>3, <2>5 DEF Shape
  <2>7. OnPlan(D, Inlined, deeper)
    BY <1>2, <1>5, <1>6, <1>7, <1>8, <2>2, <2>5 DEF OnPlan, Ahead
  <2>8. Becomes(r, deeper)
    BY <1>1, <1>8, <1>2, MacroAssumption DEF deeper
  <2>. QED BY <1>1, <2>5, <2>6, <2>7, <2>8, RunBecomes DEF D
<1>9. CASE ~(cur.id \in D /\ n < MAX_MACRO_DEPTH)
  <2>1. Becomes(r, done)
    BY <1>1, <1>2, <1>9, MacroAssumption
  <2>2. n = MAX_MACRO_DEPTH \/ cur.id \notin D
    BY <1>2, <1>9, MacroAssumption
  <2>3. Piece(D, Inlined, n - 1, cur) = <<>>
    BY <1>6, <1>7, <2>2 DEF InPlace
  <2>4. LeftOf(D, Inlined, run.levels) = left
    BY <1>2, <2>3, ConcatEmptySeq
  <2>5. OnPlan(D, Inlined, done)
    BY <1>3, <1>5, <2>4 DEF OnPlan, Ahead, left
  <2>. QED BY <1>1, <1>3, <2>1, <2>5, RunBecomes DEF D
<1>. QED BY <1>8, <1>9

LEMMA EndRuns ==
  ASSUME RunsInv, NEW r \in DOMAIN macroRuns, EndMacro(r)
  PROVE  RunsInv' /\ DOMAIN macroRuns' = DOMAIN macroRuns
<1>. DEFINE run == macroRuns[r]  D == DOMAIN macros  outer == Tail(run.levels)
            next == [run EXCEPT !.levels = outer, !.phase = IF outer = <<>> THEN "over" ELSE "step"]
<1>1. run.phase = "step" /\ run.levels # <<>> /\ Head(run.levels) = <<>> /\ UNCHANGED macros /\ Becomes(r, next)
  BY DEF EndMacro, AtStep
<1>2. run \in Run /\ OnPlan(D, Inlined, run) /\ outer \in Seq(Seq(Step)) /\ Len(outer) = Len(run.levels) - 1
      /\ Len(run.levels) \in 1..MAX_MACRO_DEPTH
  BY <1>1, RunAtWork
<1>3. LeftOf(D, Inlined, run.levels) = LeftOf(D, Inlined, outer)
  <2>1. run.levels \in Seq(Seq(Step)) /\ Len(run.levels) <= MAX_MACRO_DEPTH /\ Typed(D, Inlined)
    BY <1>2, InlinedTyped, MacroAssumption DEF Run, RunsInv
  <2>. HIDE DEF D
  <2>. QED BY <1>1, <2>1, LeftOfEnded
<1>. HIDE DEF run, outer, D
<1>4. /\ next \in Run /\ next.levels = outer /\ next.phase = (IF outer = <<>> THEN "over" ELSE "step")
      /\ next.did = run.did /\ next.plan = run.plan /\ next.spoilt = run.spoilt
  BY <1>2 DEF Run
<1>. HIDE DEF next
<1>5. Shape(next)
  <2>1. Len(outer) <= MAX_MACRO_DEPTH
    BY <1>2, MacroAssumption
  <2>. QED BY <1>4, <2>1 DEF Shape
<1>6. OnPlan(D, Inlined, next)
  BY <1>1, <1>2, <1>3, <1>4 DEF OnPlan, Ahead
<1>. QED BY <1>1, <1>4, <1>5, <1>6, RunBecomes DEF D

\* A firing begins: all of its plan is ahead of it.
LEMMA ExecuteRuns ==
  ASSUME RunsInv, NEW id \in DOMAIN macros, Execute(id), Len(macroRuns) < MaxRuns, UNCHANGED macros
  PROVE  /\ RunsInv' /\ Len(macroRuns') = Len(macroRuns) + 1 /\ DOMAIN macroRuns = 1..Len(macroRuns)
         /\ DOMAIN macroRuns' = 1..(Len(macroRuns) + 1)
         /\ \A q \in DOMAIN macroRuns : macroRuns'[q] = macroRuns[q]
         /\ macroRuns'[Len(macroRuns) + 1].phase = "step"
<1>. DEFINE steps == macros[id].steps  D == DOMAIN macros  n == Len(macroRuns)
            run == [phase |-> "step", levels |-> <<steps>>, silent |-> ~macros[id].marks, value |-> 0,
                    did |-> <<>>, plan |-> Inlined[0][id], spoilt |-> FALSE]
<1>1. macroRuns' = Append(macroRuns, run) /\ n \in Nat /\ MaxRuns \in Nat
  BY MacroAssumption DEF Execute, RunsInv
<1>2. steps \in Seq(Step) /\ (~macros[id].marks) \in BOOLEAN
  BY DEF RunsInv, MacrosOf
<1>3. 0 \in 0..MAX_MACRO_DEPTH /\ 0 < MAX_MACRO_DEPTH /\ 1 <= MAX_MACRO_DEPTH
  BY MacroAssumption
<1>4. Typed(D, Inlined)
  BY InlinedTyped DEF RunsInv
<1>5. Inlined[0][id] = InPlace(D, Inlined, 0, steps) /\ Inlined[0][id] \in Seq(Step)
  BY <1>3, <1>4, InlinedUnfolds, UnfoldsThere DEF Typed
<1>6. LeftOf(D, Inlined, <<steps>>) = Inlined[0][id]
  <2>1. <<>> \in Seq(Seq(Step)) /\ Len(<<>>) = 0 /\ <<steps>> \o <<>> = <<steps>>
    OBVIOUS
  <2>. HIDE DEF steps, D
  <2>2. LeftOf(D, Inlined, <<steps>> \o <<>>) = InPlace(D, Inlined, 0, steps) \o LeftOf(D, Inlined, <<>>)
    BY <1>2, <1>3, <1>4, <2>1, LeftOfPushed
  <2>. QED BY <1>5, <2>1, <2>2, LeftOfNothing, ConcatEmptySeq
<1>7. run \in Run
  <2>1. <<steps>> \in Seq(Seq(Step)) /\ <<>> \in Seq(Step)
    BY <1>2
  <2>. HIDE DEF steps
  <2>. QED BY <1>2, <1>5, <2>1 DEF Run
<1>8. run.phase = "step" /\ run.levels = <<steps>> /\ run.did = <<>> /\ run.plan = Inlined[0][id]
  OBVIOUS
<1>. HIDE DEF run, steps, D
<1>9. Shape(run) /\ OnPlan(D, Inlined, run)
  <2>1. Len(<<steps>>) = 1 /\ <<steps>> # <<>>
    OBVIOUS
  <2>2. <<>> \o Inlined[0][id] = Inlined[0][id]
    BY <1>5, ConcatEmptySeq
  <2>. QED BY <1>3, <1>6, <1>8, <2>1, <2>2 DEF Shape, OnPlan, Ahead
<1>10. /\ macroRuns' \in Seq(Run) /\ Len(macroRuns') = n + 1
       /\ DOMAIN macroRuns = 1..n /\ DOMAIN macroRuns' = 1..(n + 1)
       /\ \A q \in 1..n : macroRuns'[q] = macroRuns[q]
       /\ macroRuns'[n + 1] = run
  BY <1>1, <1>7 DEF RunsInv
<1>11. \A q \in 1..(n + 1) : q \in 1..n \/ q = n + 1
  BY <1>1
<1>12. Inlined' = Inlined
  BY InlinedStays DEF SameSteps
<1>13. \A q \in DOMAIN macroRuns' : Shape(macroRuns'[q]) /\ OnPlan(D, Inlined, macroRuns'[q])
  <2>. HIDE DEF n
  <2>. QED BY <1>9, <1>10, <1>11 DEF RunsInv, D
<1>14. n + 1 <= MaxRuns
  BY <1>1
<1>. QED BY <1>8, <1>10, <1>12, <1>13, <1>14 DEF RunsInv, D

\* An edit of the macros takes the firings under way off their plan.
LEMMA SpoilRuns ==
  ASSUME RunsInv, Spoil, MacrosOf(macros)'
  PROVE  /\ RunsInv' /\ DOMAIN macroRuns' = DOMAIN macroRuns
         /\ \A q \in DOMAIN macroRuns : /\ macroRuns'[q].phase = macroRuns[q].phase
                                        /\ macroRuns'[q].levels = macroRuns[q].levels
                                        /\ macroRuns'[q].value = macroRuns[q].value
<1>. DEFINE cut(q) == [macroRuns[q] EXCEPT !.spoilt = @ \/ Running(q)]
<1>1. macroRuns' = [q \in DOMAIN macroRuns |-> cut(q)]
  BY DEF Spoil
<1>2. macroRuns \in Seq(Run) /\ DOMAIN macroRuns = 1..Len(macroRuns) /\ Len(macroRuns) \in Nat
  BY DEF RunsInv
<1>3. ASSUME NEW q \in DOMAIN macroRuns
      PROVE  /\ cut(q) \in Run /\ cut(q).phase = macroRuns[q].phase /\ cut(q).levels = macroRuns[q].levels
             /\ cut(q).value = macroRuns[q].value /\ cut(q).did = macroRuns[q].did /\ cut(q).plan = macroRuns[q].plan
             /\ macroRuns[q].spoilt => cut(q).spoilt
             /\ macroRuns[q].phase # "over" => cut(q).spoilt
  <2>. DEFINE run == macroRuns[q]
  <2>1. run \in Run
    BY <1>2
  <2>2. Running(q) \in BOOLEAN /\ (Running(q) <=> run.phase # "over")
    BY DEF Running
  <2>3. cut(q) = [run EXCEPT !.spoilt = run.spoilt \/ Running(q)]
    OBVIOUS
  <2>. HIDE DEF run, cut
  <2>4. /\ cut(q) \in Run /\ cut(q).phase = run.phase /\ cut(q).levels = run.levels
        /\ cut(q).value = run.value /\ cut(q).did = run.did /\ cut(q).plan = run.plan
        /\ cut(q).spoilt = (run.spoilt \/ Running(q))
    BY <2>1, <2>2, <2>3 DEF Run
  <2>5. /\ run.spoilt => cut(q).spoilt
        /\ Running(q) => cut(q).spoilt
    BY <2>4, Zenon
  <2>. QED BY <2>2, <2>4, <2>5 DEF run
<1>. HIDE DEF cut
<1>4. macroRuns' \in Seq(Run) /\ Len(macroRuns') = Len(macroRuns) /\ DOMAIN macroRuns' = DOMAIN macroRuns
      /\ \A q \in DOMAIN macroRuns : macroRuns'[q] = cut(q)
  BY <1>1, <1>2, <1>3
<1>5. ASSUME NEW q \in DOMAIN macroRuns
      PROVE  Shape(macroRuns'[q]) /\ OnPlan(DOMAIN macros', Inlined', macroRuns'[q])
  <2>. DEFINE old == macroRuns[q]  new == macroRuns'[q]
  <2>1. /\ new.phase = old.phase /\ new.levels = old.levels /\ new.did = old.did /\ new.plan = old.plan
        /\ old.spoilt => new.spoilt
        /\ old.phase # "over" => new.spoilt
    BY <1>3, <1>4
  <2>2. Shape(old) /\ OnPlan(DOMAIN macros, Inlined, old)
    BY DEF RunsInv
  <2>. HIDE DEF old, new
  <2>3. Shape(new)
    BY <2>1, <2>2 DEF Shape
  <2>4. CASE old.phase = "over"
    <3>1. old.levels = <<>>
      BY <2>2, <2>4 DEF Shape
    <3>. QED BY <2>1, <2>2, <2>3, <2>4, <3>1, LeftOfNothing DEF OnPlan, Ahead, new
  <2>5. CASE old.phase # "over"
    BY <2>1, <2>3, <2>5 DEF OnPlan, new
  <2>. QED BY <2>3, <2>4, <2>5 DEF new
<1>6. \A q \in DOMAIN macroRuns : /\ macroRuns'[q].phase = macroRuns[q].phase
                                  /\ macroRuns'[q].levels = macroRuns[q].levels
                                  /\ macroRuns'[q].value = macroRuns[q].value
  BY <1>3, <1>4
<1>. QED BY <1>4, <1>5, <1>6 DEF RunsInv

\* A new name, or nothing.
LEMMA RenamedRuns ==
  ASSUME RunsInv, SameSteps, MacrosOf(macros)', UNCHANGED macroRuns
  PROVE  RunsInv'
<1>1. Inlined' = Inlined /\ DOMAIN macros' = DOMAIN macros
  BY InlinedStays DEF SameSteps
<1>. QED BY <1>1 DEF RunsInv

-----------------------------------------------------------------------------
(* The mirror.                                                             *)

\* A firing has sent a's value and not mirrored it.
Waits(r, a) == r \in DOMAIN macroRuns /\ macroRuns[r].phase = "mirror" /\ Current(r).at = a

\* What waits to be mirrored is what the desk has, and one firing's, unless
\* something else wrote the parameter.
MirrorInv ==
  /\ \A r \in DOMAIN macroRuns : \A a \in MacroParams \ macroCrossed :
       Waits(r, a) => /\ macroDesk[a] = macroRuns[r].value
                      /\ \A q \in DOMAIN macroRuns : Waits(q, a) => q = r
  /\ MirrorTrue

MacroRestOK ==
  /\ macroMirror \in [MacroParams -> {0, 1}] /\ macroDesk \in [MacroParams -> {0, 1}]
  /\ macroMarks \subseteq MacroParams /\ macroCrossed \subseteq MacroParams /\ macroLinked \in BOOLEAN
  /\ macroHands \in 0..MaxMacroHands

MacroInv == RunsInv /\ MacroRestOK /\ MirrorInv

LEMMA UnmirroredWaits ==
  ASSUME NEW a PROVE (Unmirrored(a) <=> \E r \in DOMAIN macroRuns : Waits(r, a))
                     /\ (Unmirrored(a)' <=> \E r \in DOMAIN macroRuns' : Waits(r, a)')
BY DEF Unmirrored, Waits

\* The same firings wait, and the desk and the mirror are as they were.
LEMMA MirrorStays ==
  ASSUME MirrorInv, UNCHANGED <<macroMirror, macroDesk, macroCrossed>>,
         \A r, a : Waits(r, a)' <=> Waits(r, a),
         \A r, a : Waits(r, a) => macroRuns'[r].value = macroRuns[r].value
  PROVE  MirrorInv'
<1>1. \A r, a : Waits(r, a) => r \in DOMAIN macroRuns
  BY DEF Waits
<1>2. \A r, a : Waits(r, a)' => r \in DOMAIN macroRuns'
  BY DEF Waits
<1>3. ASSUME NEW r \in DOMAIN macroRuns', NEW a \in MacroParams \ macroCrossed', Waits(r, a)'
      PROVE  macroDesk'[a] = macroRuns'[r].value /\ \A q \in DOMAIN macroRuns' : Waits(q, a)' => q = r
  BY <1>1, <1>3 DEF MirrorInv
<1>4. \A a : Unmirrored(a)' <=> Unmirrored(a)
  BY <1>1, <1>2, UnmirroredWaits
<1>5. MirrorTrue'
  BY <1>4 DEF MirrorInv, MirrorTrue
<1>. QED BY <1>3, <1>5 DEF MirrorInv

LEMMA OthersWait ==
  ASSUME RunsInv, NEW r \in DOMAIN macroRuns, NEW run, Becomes(r, run)
  PROVE  /\ DOMAIN macroRuns' = DOMAIN macroRuns /\ macroRuns'[r] = run
         /\ \A q \in DOMAIN macroRuns : q # r => macroRuns'[q] = macroRuns[q]
         /\ \A q, a : q # r => (Waits(q, a)' <=> Waits(q, a))
<1>1. macroRuns' = [macroRuns EXCEPT ![r] = run] /\ macroRuns \in Seq(Run)
  BY DEF Becomes, RunsInv
<1>2. /\ DOMAIN macroRuns' = DOMAIN macroRuns /\ macroRuns'[r] = run
      /\ \A q \in DOMAIN macroRuns : q # r => macroRuns'[q] = macroRuns[q]
  BY <1>1
<1>. QED BY <1>2 DEF Waits, Current

\* A step by which the firing neither comes to wait nor ceases to.
LEMMA NeitherWaits ==
  ASSUME RunsInv, MirrorInv, NEW r \in DOMAIN macroRuns, NEW run, Becomes(r, run),
         macroRuns[r].phase # "mirror", run.phase # "mirror",
         UNCHANGED <<macroMirror, macroDesk, macroCrossed>>
  PROVE  MirrorInv'
<1>1. /\ macroRuns'[r] = run
      /\ \A q \in DOMAIN macroRuns : q # r => macroRuns'[q] = macroRuns[q]
      /\ \A q, a : q # r => (Waits(q, a)' <=> Waits(q, a))
  BY OthersWait
<1>2. \A a : ~Waits(r, a) /\ ~Waits(r, a)'
  BY <1>1 DEF Waits
<1>3. \A q, a : Waits(q, a) => q \in DOMAIN macroRuns
  BY DEF Waits
<1>4. \A q, a : Waits(q, a)' <=> Waits(q, a)
  BY <1>1, <1>2
<1>5. \A q, a : Waits(q, a) => macroRuns'[q].value = macroRuns[q].value
  BY <1>1, <1>2, <1>3
<1>. QED BY <1>4, <1>5, MirrorStays

LEMMA SendMirrors ==
  ASSUME MacroInv, NEW r \in DOMAIN macroRuns, SendParameter(r)
  PROVE  MirrorInv' /\ MacroRestOK'
<1>. DEFINE run == macroRuns[r]  cur == Current(r)
            sent == [run EXCEPT !.phase = "mirror", !.did = Append(run.did, cur)]
            failed == [StepTaken(r) EXCEPT !.spoilt = TRUE]
<1>1. run.phase = "send" /\ run \in Run /\ Shape(run) /\ run.value \in {0, 1}
  <2>1. run.phase = "send"
    BY DEF SendParameter
  <2>2. run \in Run /\ Shape(run)
    BY DEF MacroInv, RunsInv
  <2>3. run.value \in {0, 1}
    <3>. HIDE DEF run
    <3>. QED BY <2>2 DEF Run
  <2>. QED BY <2>1, <2>2, <2>3
<1>2. run.levels # <<>> /\ Head(run.levels) # <<>> /\ cur.does \in {"set", "toggle"} /\ cur.at \in MacroParams
  <2>1. run.levels # <<>> /\ Head(run.levels) # <<>> /\ cur.does \in {"set", "toggle"}
    BY <1>1 DEF Shape, Current
  <2>2. cur \in Step
    BY <2>1, RunAtWork DEF MacroInv
  <2>. QED BY <2>1, <2>2, StepParts
<1>3. UNCHANGED <<macroMirror, macroMarks, macroLinked, macroHands>>
  BY DEF SendParameter
<1>4. CASE Becomes(r, failed) /\ UNCHANGED <<macroDesk, macroCrossed>>
  <2>1. StepTaken(r) \in Run /\ StepTaken(r).phase = "step"
    BY <1>2, StepTakenIs DEF MacroInv
  <2>. DEFINE done == StepTaken(r)
  <2>. HIDE DEF done
  <2>2. failed = [done EXCEPT !.spoilt = TRUE]
    BY DEF done
  <2>3. failed.phase = "step"
    BY <2>1, <2>2 DEF Run, done
  <2>. HIDE DEF failed
  <2>4. MirrorInv'
    BY <1>1, <1>3, <1>4, <2>3, NeitherWaits DEF MacroInv
  <2>. QED BY <1>3, <1>4, <2>4 DEF MacroInv, MacroRestOK
<1>5. CASE /\ Becomes(r, sent) /\ Crosses(cur.at)
           /\ macroDesk' = [macroDesk EXCEPT ![cur.at] = run.value]
  <2>. DEFINE at == cur.at
  <2>1. sent.phase = "mirror" /\ sent.levels = run.levels /\ sent.value = run.value
    BY <1>1 DEF Run
  <2>2. Head(Head(sent.levels)).at = at
    BY <2>1 DEF Current
  <2>. HIDE DEF sent
  <2>3. /\ DOMAIN macroRuns' = DOMAIN macroRuns /\ macroRuns'[r] = sent
        /\ \A q \in DOMAIN macroRuns : q # r => macroRuns'[q] = macroRuns[q]
        /\ \A q, a : q # r => (Waits(q, a)' <=> Waits(q, a))
    BY <1>5, OthersWait DEF MacroInv
  <2>4. \A a : ~Waits(r, a) /\ (Waits(r, a)' <=> a = at)
    <3>1. \A a : ~Waits(r, a)
      BY <1>1 DEF Waits
    <3>2. Current(r)' = Head(Head(sent.levels))
      BY <2>3 DEF Current
    <3>. QED BY <2>1, <2>2, <2>3, <3>1, <3>2 DEF Waits
  <2>5. at \in MacroParams
    BY <1>2
  <2>6. macroCrossed' = IF Unmirrored(at) THEN macroCrossed \cup {at} ELSE macroCrossed
    BY <1>5 DEF Crosses
  <2>. HIDE DEF run, at
  <2>7. \A a \in MacroParams : macroDesk'[a] = IF a = at THEN run.value ELSE macroDesk[a]
    BY <1>5 DEF MacroInv, MacroRestOK, at
  <2>8. \A q, a : (Waits(q, a)' => q \in DOMAIN macroRuns) /\ (Waits(q, a) => q \in DOMAIN macroRuns)
    BY <2>3 DEF Waits
  <2>9. ASSUME NEW q \in DOMAIN macroRuns, NEW a \in MacroParams \ macroCrossed', Waits(q, a)'
        PROVE  macroDesk'[a] = macroRuns'[q].value /\ \A p \in DOMAIN macroRuns : Waits(p, a)' => p = q
    <3>1. a \in MacroParams \ macroCrossed
      BY <2>6
    <3>2. CASE a = at
      <4>1. ~Unmirrored(at)
        BY <2>6, <2>9, <3>2
      <4>2. \A p \in DOMAIN macroRuns : ~Waits(p, at)
        BY <4>1, UnmirroredWaits
      <4>3. \A p \in DOMAIN macroRuns : Waits(p, a)' => p = r
        BY <2>3, <3>2, <4>2
      <4>. QED BY <2>1, <2>3, <2>7, <2>9, <3>2, <4>3
    <3>3. CASE a # at
      <4>1. q # r /\ Waits(q, a)
        BY <2>3, <2>4, <2>9, <3>3
      <4>2. \A p \in DOMAIN macroRuns : Waits(p, a)' => Waits(p, a)
        BY <2>3, <2>4, <3>3
      <4>3. macroDesk[a] = macroRuns[q].value /\ \A p \in DOMAIN macroRuns : Waits(p, a) => p = q
        BY <3>1, <4>1 DEF MacroInv, MirrorInv
      <4>. QED BY <2>3, <2>7, <3>3, <4>1, <4>2, <4>3
    <3>. QED BY <3>2, <3>3
  <2>10. MirrorTrue'
    <3>1. ASSUME NEW a \in MacroParams \ macroCrossed'
          PROVE  Unmirrored(a)' \/ macroMirror'[a] = macroDesk'[a]
      <4>1. a \in MacroParams \ macroCrossed
        BY <2>6
      <4>2. CASE a = at
        BY <2>3, <2>4, <4>2, UnmirroredWaits
      <4>3. CASE a # at
        <5>1. Unmirrored(a) \/ macroMirror[a] = macroDesk[a]
          BY <4>1 DEF MacroInv, MirrorInv, MirrorTrue
        <5>2. Unmirrored(a) => Unmirrored(a)'
          BY <2>3, <2>4, UnmirroredWaits
        <5>. QED BY <1>3, <2>7, <4>3, <5>1, <5>2
      <4>. QED BY <4>2, <4>3
    <3>. QED BY <3>1 DEF MirrorTrue
  <2>11. MirrorInv'
    BY <2>3, <2>9, <2>10 DEF MirrorInv
  <2>12. MacroRestOK'
    <3>1. macroDesk' \in [MacroParams -> {0, 1}]
      BY <1>1, <1>5 DEF MacroInv, MacroRestOK, run
    <3>2. macroCrossed' \subseteq MacroParams
      BY <2>5, <2>6 DEF MacroInv, MacroRestOK
    <3>. QED BY <1>3, <3>1, <3>2 DEF MacroInv, MacroRestOK
  <2>. QED BY <2>11, <2>12
<1>. QED BY <1>4, <1>5 DEF SendParameter

LEMMA OwnMirrors ==
  ASSUME MacroInv, NEW r \in DOMAIN macroRuns, MirrorOwn(r)
  PROVE  MirrorInv' /\ MacroRestOK'
<1>. DEFINE run == macroRuns[r]  done == StepTaken(r)  at == Current(r).at
<1>1. run.phase = "mirror" /\ run \in Run /\ Shape(run) /\ run.value \in {0, 1}
  <2>1. run.phase = "mirror"
    BY DEF MirrorOwn
  <2>2. run \in Run /\ Shape(run)
    BY DEF MacroInv, RunsInv
  <2>3. run.value \in {0, 1}
    <3>. HIDE DEF run
    <3>. QED BY <2>2 DEF Run
  <2>. QED BY <2>1, <2>2, <2>3
<1>2. run.levels # <<>> /\ Head(run.levels) # <<>> /\ at \in MacroParams
  <2>1. run.levels # <<>> /\ Head(run.levels) # <<>> /\ Current(r).does \in {"set", "toggle"}
    BY <1>1 DEF Shape, Current
  <2>2. Current(r) \in Step
    BY <2>1, RunAtWork DEF MacroInv
  <2>. QED BY <2>1, <2>2, StepParts
<1>3. /\ UNCHANGED <<macroDesk, macroMarks, macroLinked, macroHands, macroCrossed>>
      /\ macroMirror' = [macroMirror EXCEPT ![at] = run.value] /\ Becomes(r, done)
  BY DEF MirrorOwn
<1>4. done.phase = "step"
  BY <1>2, StepTakenIs DEF MacroInv
<1>5. /\ DOMAIN macroRuns' = DOMAIN macroRuns /\ macroRuns'[r] = done
      /\ \A q \in DOMAIN macroRuns : q # r => macroRuns'[q] = macroRuns[q]
      /\ \A q, a : q # r => (Waits(q, a)' <=> Waits(q, a))
  BY <1>3, OthersWait DEF MacroInv
<1>6. \A a : ~Waits(r, a)'
  BY <1>4, <1>5 DEF Waits
<1>7. \A a : Waits(r, a) <=> a = at
  BY <1>1 DEF Waits
<1>8. macroMirror' \in [MacroParams -> {0, 1}]
      /\ \A a \in MacroParams : macroMirror'[a] = IF a = at THEN run.value ELSE macroMirror[a]
  BY <1>1, <1>2, <1>3 DEF MacroInv, MacroRestOK
<1>. HIDE DEF run, done, at
<1>9. ASSUME NEW q \in DOMAIN macroRuns, NEW a \in MacroParams \ macroCrossed, Waits(q, a)'
      PROVE  macroDesk'[a] = macroRuns'[q].value /\ \A p \in DOMAIN macroRuns : Waits(p, a)' => p = q
  <2>1. q # r /\ Waits(q, a)
    BY <1>5, <1>6, <1>9
  <2>2. macroDesk[a] = macroRuns[q].value /\ \A p \in DOMAIN macroRuns : Waits(p, a) => p = q
    BY <2>1 DEF MacroInv, MirrorInv
  <2>. QED BY <1>3, <1>5, <1>6, <2>1, <2>2
<1>10. ASSUME NEW a \in MacroParams \ macroCrossed
       PROVE  Unmirrored(a)' \/ macroMirror'[a] = macroDesk'[a]
  <2>1. CASE a = at
    <3>1. macroDesk[a] = run.value
      BY <1>7, <2>1 DEF MacroInv, MirrorInv, run
    <3>. QED BY <1>3, <1>8, <2>1, <3>1
  <2>2. CASE a # at
    <3>1. Unmirrored(a) \/ macroMirror[a] = macroDesk[a]
      BY DEF MacroInv, MirrorInv, MirrorTrue
    <3>2. Unmirrored(a) => Unmirrored(a)'
      BY <1>5, <1>7, <2>2, UnmirroredWaits
    <3>. QED BY <1>3, <1>8, <2>2, <3>1, <3>2
  <2>. QED BY <2>1, <2>2
<1>11. MirrorInv'
  BY <1>3, <1>5, <1>9, <1>10 DEF MirrorInv, MirrorTrue
<1>. QED BY <1>3, <1>8, <1>11 DEF MacroInv, MacroRestOK

\* A step of a firing.
LEMMA RunStepInv ==
  ASSUME MacroInv, NEW r \in DOMAIN macroRuns, RunStep(r)
  PROVE  MacroInv' /\ UNCHANGED macros /\ DOMAIN macroRuns' = DOMAIN macroRuns
<1>. DEFINE run == macroRuns[r]
<1>1. RunsInv /\ MacroRestOK /\ MirrorInv /\ macroMirror \in [MacroParams -> {0, 1}]
  BY DEF MacroInv, MacroRestOK
<1>2. CASE Resolve(r)
  <2>. DEFINE to == IF Current(r).does = "set" THEN Current(r).to ELSE 1 - macroMirror[Current(r).at]
              next == [run EXCEPT !.phase = "send", !.value = to]
  <2>1. run.phase = "step" /\ Becomes(r, next) /\ UNCHANGED <<macros, macroRest>> /\ run \in Run
    BY <1>1, <1>2 DEF Resolve, AtStep, RunsInv
  <2>. HIDE DEF run, to
  <2>2. next.phase = "send"
    BY <2>1 DEF Run
  <2>. HIDE DEF next
  <2>3. MirrorInv'
    BY <1>1, <2>1, <2>2, NeitherWaits DEF macroRest, run
  <2>. QED BY <1>1, <1>2, <2>1, <2>3, ResolveRuns DEF MacroInv, MacroRestOK, macroRest
<1>3. CASE SendParameter(r)
  BY <1>1, <1>3, SendRuns, SendMirrors DEF MacroInv, SendParameter
<1>4. CASE MirrorOwn(r)
  BY <1>1, <1>4, MirrorOwnRuns, OwnMirrors DEF MacroInv, MirrorOwn
<1>5. CASE Ask(r)
  <2>. DEFINE done == StepTaken(r)  asked == [done EXCEPT !.did = Append(done.did, Current(r))]
  <2>1. run.phase = "step" /\ run.levels # <<>> /\ Head(run.levels) # <<>> /\ Becomes(r, asked)
        /\ UNCHANGED <<macros, macroRest>>
    BY <1>5 DEF Ask, AtStep
  <2>2. done \in Run /\ done.phase = "step"
    BY <1>1, <2>1, StepTakenIs
  <2>. HIDE DEF done, run
  <2>3. asked.phase = "step"
    BY <2>2 DEF Run
  <2>. HIDE DEF asked
  <2>4. MirrorInv'
    BY <1>1, <2>1, <2>3, NeitherWaits DEF macroRest, run
  <2>. QED BY <1>1, <1>5, <2>1, <2>4, AskRuns DEF MacroInv, MacroRestOK, macroRest
<1>6. CASE FireMacro(r)
  <2>. DEFINE done == StepTaken(r)  deeper == [done EXCEPT !.levels = <<macros[Current(r).id].steps>> \o @]
  <2>1. run.phase = "step" /\ run.levels # <<>> /\ Head(run.levels) # <<>>
        /\ (Becomes(r, deeper) \/ Becomes(r, done)) /\ UNCHANGED <<macros, macroRest>>
    BY <1>6 DEF FireMacro, AtStep
  <2>2. done \in Run /\ done.phase = "step"
    BY <1>1, <2>1, StepTakenIs
  <2>. HIDE DEF done, run
  <2>3. deeper.phase = "step"
    BY <2>2 DEF Run
  <2>. HIDE DEF deeper
  <2>4. MirrorInv'
    BY <1>1, <2>1, <2>2, <2>3, NeitherWaits DEF macroRest, run
  <2>. QED BY <1>1, <1>6, <2>1, <2>4, FireRuns DEF MacroInv, MacroRestOK, macroRest
<1>7. CASE EndMacro(r)
  <2>. DEFINE outer == Tail(run.levels)  next == [run EXCEPT !.levels = outer, !.phase = IF outer = <<>> THEN "over" ELSE "step"]
  <2>1. run.phase = "step" /\ Becomes(r, next) /\ run \in Run
        /\ UNCHANGED <<macros, macroMirror, macroDesk, macroLinked, macroHands, macroCrossed>>
        /\ (macroMarks' = {} \/ macroMarks' = macroMarks)
    BY <1>1, <1>7 DEF EndMacro, AtStep, RunsInv
  <2>. HIDE DEF run, outer
  <2>2. next.phase # "mirror"
    BY <2>1 DEF Run
  <2>. HIDE DEF next
  <2>3. MirrorInv'
    BY <1>1, <2>1, <2>2, NeitherWaits DEF run
  <2>. QED BY <1>1, <1>7, <2>1, <2>3, EndRuns DEF MacroInv, MacroRestOK
<1>. QED BY <1>2, <1>3, <1>4, <1>5, <1>6, <1>7 DEF RunStep

LEMMA ListsAreMacros == \A l \in MacroLists : MacrosOf(l)
<1>. SUFFICES ASSUME NEW l \in MacroLists PROVE MacrosOf(l)
  OBVIOUS
<1>. DEFINE N == {l[id].name : id \in DOMAIN l}
<1>1. l \in [DOMAIN l -> [name : N, marks : BOOLEAN, steps : Seq(Step)]]
  BY MacroAssumption
<1>2. N \subseteq Names
  BY DEF Names
<1>. HIDE DEF N
<1>. QED BY <1>1, <1>2 DEF MacrosOf

\* A firing begins.
LEMMA ExecuteInv ==
  ASSUME MacroInv, NEW id \in DOMAIN macros, Execute(id), Len(macroRuns) < MaxRuns, UNCHANGED <<macros, macroRest>>
  PROVE  MacroInv'
<1>. DEFINE n == Len(macroRuns)
<1>1. /\ RunsInv' /\ DOMAIN macroRuns = 1..n /\ DOMAIN macroRuns' = 1..(n + 1)
      /\ \A q \in DOMAIN macroRuns : macroRuns'[q] = macroRuns[q]
      /\ macroRuns'[n + 1].phase = "step" /\ n \in Nat
  BY ExecuteRuns DEF MacroInv, RunsInv
<1>2. \A q \in DOMAIN macroRuns' : q \in DOMAIN macroRuns \/ q = n + 1
  BY <1>1
<1>3. DOMAIN macroRuns \subseteq DOMAIN macroRuns'
  BY <1>1
<1>. HIDE DEF n
<1>4. \A q, a : Waits(q, a)' <=> Waits(q, a)
  BY <1>1, <1>2, <1>3 DEF Waits, Current
<1>5. \A q, a : Waits(q, a) => macroRuns'[q].value = macroRuns[q].value
  BY <1>1 DEF Waits
<1>6. MirrorInv'
  BY <1>4, <1>5, MirrorStays DEF MacroInv, macroRest
<1>. QED BY <1>1, <1>6 DEF MacroInv, MacroRestOK, macroRest

\* Steps of the firings' owner that leave them, the desk and the mirror alone.
LEMMA SpoilInv ==
  ASSUME MacroInv, Spoil, MacrosOf(macros)', UNCHANGED macroRest
  PROVE  MacroInv'
<1>1. /\ RunsInv' /\ DOMAIN macroRuns' = DOMAIN macroRuns
      /\ \A q \in DOMAIN macroRuns : /\ macroRuns'[q].phase = macroRuns[q].phase
                                     /\ macroRuns'[q].levels = macroRuns[q].levels
                                     /\ macroRuns'[q].value = macroRuns[q].value
  BY SpoilRuns DEF MacroInv
<1>2. \A q, a : Waits(q, a)' <=> Waits(q, a)
  BY <1>1 DEF Waits, Current
<1>3. \A q, a : Waits(q, a) => macroRuns'[q].value = macroRuns[q].value
  BY <1>1 DEF Waits
<1>4. MirrorInv'
  BY <1>2, <1>3, MirrorStays DEF MacroInv, macroRest
<1>. QED BY <1>1, <1>4 DEF MacroInv, MacroRestOK, macroRest

LEMMA RenameInv ==
  ASSUME MacroInv, SameSteps, MacrosOf(macros)', UNCHANGED <<macroRuns, macroMirror, macroDesk, macroCrossed>>,
         MacroRestOK'
  PROVE  MacroInv'
<1>1. RunsInv'
  BY RenamedRuns DEF MacroInv
<1>2. MirrorInv'
  BY DEF MacroInv, MirrorInv, MirrorTrue, Waits, Unmirrored, Current
<1>. QED BY <1>1, <1>2 DEF MacroInv

LEMMA DeskTouchedInv ==
  ASSUME MacroInv, NEW a \in MacroParams, DeskTouched(a)
  PROVE  MacroInv'
<1>1. /\ UNCHANGED <<macros, macroRuns, macroLinked>> /\ macroHands < MaxMacroHands /\ macroHands' = macroHands + 1
      /\ macroDesk' = [macroDesk EXCEPT ![a] = 1 - @]
      /\ macroMirror' = [macroMirror EXCEPT ![a] = macroDesk'[a]]
      /\ macroCrossed' = IF Unmirrored(a) THEN macroCrossed \cup {a} ELSE macroCrossed
      /\ macroMarks' = IF Suppressed THEN macroMarks ELSE macroMarks \cup {a}
  BY DEF DeskTouched, Crosses
<1>2. RunsInv'
  <2>1. SameSteps /\ MacrosOf(macros)'
    BY <1>1 DEF SameSteps, MacroInv, RunsInv
  <2>. QED BY <1>1, <2>1, RenamedRuns DEF MacroInv
<1>3. /\ macroDesk' \in [MacroParams -> {0, 1}] /\ macroMirror' \in [MacroParams -> {0, 1}]
      /\ macroMirror'[a] = macroDesk'[a]
      /\ \A b \in MacroParams \ {a} : macroDesk'[b] = macroDesk[b] /\ macroMirror'[b] = macroMirror[b]
  BY <1>1 DEF MacroInv, MacroRestOK
<1>4. macroHands' \in 0..MaxMacroHands
  BY <1>1, MacroAssumption DEF MacroInv, MacroRestOK
<1>5. MacroRestOK'
  BY <1>1, <1>3, <1>4 DEF MacroInv, MacroRestOK
<1>6. \A r, b : Waits(r, b)' <=> Waits(r, b)
  BY <1>1 DEF Waits, Current
<1>7. \A b : Unmirrored(b)' <=> Unmirrored(b)
  BY <1>1 DEF Unmirrored, Current
<1>8. ASSUME NEW r \in DOMAIN macroRuns, NEW b \in MacroParams \ macroCrossed', Waits(r, b)
      PROVE  macroDesk'[b] = macroRuns[r].value /\ \A q \in DOMAIN macroRuns : Waits(q, b) => q = r
  <2>1. b # a
    BY <1>1, <1>8, UnmirroredWaits
  <2>2. b \in MacroParams \ macroCrossed
    BY <1>1
  <2>. QED BY <1>3, <1>8, <2>1, <2>2 DEF MacroInv, MirrorInv
<1>9. ASSUME NEW b \in MacroParams \ macroCrossed'
      PROVE  Unmirrored(b)' \/ macroMirror'[b] = macroDesk'[b]
  <2>1. b \in MacroParams \ macroCrossed
    BY <1>1
  <2>. QED BY <1>3, <1>7, <2>1 DEF MacroInv, MirrorInv, MirrorTrue
<1>10. MirrorInv'
  BY <1>1, <1>6, <1>8, <1>9 DEF MirrorInv, MirrorTrue
<1>. QED BY <1>2, <1>5, <1>10 DEF MacroInv

LEMMA LinkLostInv == MacroInv /\ LinkLost => MacroInv'
<1>. SUFFICES ASSUME MacroInv, LinkLost PROVE MacroInv'
  OBVIOUS
<1>1. /\ UNCHANGED <<macros, macroRuns, macroMirror, macroDesk, macroMarks, macroCrossed>>
      /\ macroHands < MaxMacroHands /\ macroHands' = macroHands + 1 /\ macroLinked' = FALSE
  BY DEF LinkLost
<1>2. macroHands' \in 0..MaxMacroHands
  BY <1>1, MacroAssumption DEF MacroInv, MacroRestOK
<1>3. MacroRestOK'
  BY <1>1, <1>2 DEF MacroInv, MacroRestOK
<1>4. SameSteps /\ MacrosOf(macros)'
  BY <1>1 DEF SameSteps, MacroInv, RunsInv
<1>. QED BY <1>1, <1>3, <1>4, RenameInv

LEMMA DeleteInv ==
  ASSUME MacroInv, NEW id, DeleteMacro(id), UNCHANGED macroRest
  PROVE  MacroInv'
<1>1. MacrosOf(macros)'
  BY DEF DeleteMacro, MacroInv, RunsInv, MacrosOf
<1>. QED BY <1>1, SpoilInv DEF DeleteMacro

LEMMA MacroInitInv == MacroInit => MacroInv
<1>. SUFFICES ASSUME MacroInit PROVE MacroInv
  OBVIOUS
<1>1. MacrosOf(macros)
  BY ListsAreMacros DEF MacroInit
<1>2. RunsInv
  BY <1>1, MacroAssumption DEF MacroInit, RunsInv
<1>3. MacroRestOK
  BY MacroAssumption DEF MacroInit, MacroRestOK
<1>4. MirrorInv
  BY DEF MacroInit, MirrorInv, MirrorTrue
<1>. QED BY <1>2, <1>3, <1>4 DEF MacroInv

LEMMA MacroNextInv == MacroInv /\ MacroNext => MacroInv'
<1>. SUFFICES ASSUME MacroInv, MacroNext PROVE MacroInv'
  OBVIOUS
<1>1. CASE \E r \in DOMAIN macroRuns : RunStep(r)
  BY <1>1, RunStepInv
<1>2. CASE \E id \in DOMAIN macros : Trigger(id)
  BY <1>2, ExecuteInv DEF Trigger
<1>3. CASE \E id \in DOMAIN macros : DeleteMacro(id) /\ UNCHANGED macroRest
  BY <1>3, DeleteInv
<1>4. CASE \E a \in MacroParams : DeskTouched(a)
  BY <1>4, DeskTouchedInv
<1>5. CASE LinkLost
  BY <1>5, LinkLostInv
<1>. QED BY <1>1, <1>2, <1>3, <1>4, <1>5 DEF MacroNext

LEMMA MacroStutterInv == MacroInv /\ UNCHANGED macroVars => MacroInv'
<1>. SUFFICES ASSUME MacroInv, UNCHANGED macroVars PROVE MacroInv'
  OBVIOUS
<1>1. SameSteps /\ MacrosOf(macros)' /\ MacroRestOK'
  BY DEF SameSteps, MacroInv, RunsInv, MacroRestOK, macroVars
<1>. QED BY <1>1, RenameInv DEF macroVars

LEMMA ConcatIsPrefix ==
  ASSUME NEW S, NEW s \in Seq(S), NEW t \in Seq(S)
  PROVE  IsPrefix(s, s \o t)
<1>1. /\ Len(s) \in Nat /\ Len(t) \in Nat /\ Len(s \o t) = Len(s) + Len(t) /\ s \o t \in Seq(S)
      /\ \A i \in 1..Len(s) : (s \o t)[i] = s[i]
  OBVIOUS
<1>2. Len(s) <= Len(s \o t)
  BY <1>1
<1>. DEFINE u == s \o t  n == Len(s)
<1>. HIDE DEF u, n
<1>3. SubSeq(s, 1, n) = [i \in 1..n |-> s[i]] /\ SubSeq(u, 1, n) = [i \in 1..n |-> u[i]]
  BY <1>1 DEF n, u
<1>4. SubSeq(s, 1, n) = SubSeq(u, 1, n)
  BY <1>1, <1>3 DEF n, u
<1>. QED BY <1>2, <1>4 DEF IsPrefix, n, u

\* What the invariant says of the properties.
LEMMA WholeOfInv == MacroInv => RunsWhole /\ MirrorTrue /\ MacroTypeOK
<1>. SUFFICES ASSUME MacroInv PROVE RunsWhole /\ MirrorTrue /\ MacroTypeOK
  OBVIOUS
<1>1. MirrorTrue
  BY DEF MacroInv, MirrorInv
<1>2. ASSUME NEW r \in DOMAIN macroRuns, ~macroRuns[r].spoilt
      PROVE  IF macroRuns[r].phase = "over" THEN macroRuns[r].did = macroRuns[r].plan
             ELSE IsPrefix(macroRuns[r].did, macroRuns[r].plan)
  <2>. DEFINE run == macroRuns[r]  D == DOMAIN macros  left == LeftOf(D, Inlined, Ahead(run))
  <2>1. run \in Run /\ Shape(run) /\ run.did \o left = run.plan
    <3>1. run \in Run /\ Shape(run) /\ OnPlan(D, Inlined, run)
      BY DEF MacroInv, RunsInv
    <3>. QED BY <1>2, <3>1 DEF OnPlan
  <2>2. run.did \in Seq(Step) /\ run.plan \in Seq(Step) /\ run.levels \in Seq(Seq(Step))
    <3>. HIDE DEF run, left
    <3>. QED BY <2>1 DEF Run
  <2>3. CASE run.phase = "over"
    <3>1. Ahead(run) = <<>>
      BY <2>1, <2>3 DEF Shape, Ahead
    <3>2. left = <<>>
      BY <3>1, LeftOfNothing
    <3>. HIDE DEF left, run
    <3>3. run.did = run.plan
      BY <2>1, <2>2, <3>2, ConcatEmptySeq
    <3>. QED BY <2>3, <3>3 DEF run
  <2>4. CASE run.phase # "over"
    <3>1. left \in Seq(Step)
      <4>1. run.levels # <<>> /\ (run.phase = "mirror" => Head(run.levels) # <<>>)
        BY <2>1, <2>4 DEF Shape
      <4>2. Typed(D, Inlined)
        BY InlinedTyped DEF MacroInv, RunsInv
      <4>3. CASE run.phase = "mirror"
        BY <4>1, <4>3, RunAtWork DEF MacroInv, Ahead
      <4>4. CASE run.phase # "mirror"
        <5>1. Ahead(run) = run.levels /\ Len(run.levels) <= MAX_MACRO_DEPTH
          BY <2>1, <4>4 DEF Ahead, Shape
        <5>. QED BY <5>1, <2>2, <4>2, LeftsType
      <4>. QED BY <4>3, <4>4
    <3>. HIDE DEF left, run
    <3>2. IsPrefix(run.did, run.plan)
      BY <2>1, <2>2, <3>1, ConcatIsPrefix
    <3>. QED BY <2>4, <3>2 DEF run
  <2>. QED BY <2>3, <2>4
<1>3. RunsWhole
  BY <1>2 DEF RunsWhole
<1>4. \A r \in DOMAIN macroRuns :
        /\ macroRuns[r].phase \in {"step", "send", "mirror", "over"}
        /\ \A level \in Range(macroRuns[r].levels) : level \in Seq(Step)
        /\ macroRuns[r].value \in {0, 1}
  <2>. SUFFICES ASSUME NEW r \in DOMAIN macroRuns
                PROVE  /\ macroRuns[r].phase \in {"step", "send", "mirror", "over"}
                       /\ \A level \in Range(macroRuns[r].levels) : level \in Seq(Step)
                       /\ macroRuns[r].value \in {0, 1}
    OBVIOUS
  <2>. DEFINE run == macroRuns[r]
  <2>1. run \in Run
    BY DEF MacroInv, RunsInv
  <2>. HIDE DEF run
  <2>2. run.phase \in {"step", "send", "mirror", "over"} /\ run.value \in {0, 1} /\ run.levels \in Seq(Seq(Step))
    BY <2>1 DEF Run
  <2>3. \A level \in Range(run.levels) : level \in Seq(Step)
    BY <2>2 DEF Range
  <2>. QED BY <2>2, <2>3 DEF run
<1>5. MacroTypeOK
  BY <1>4 DEF MacroTypeOK, MacroInv, RunsInv, MacroRestOK
<1>. QED BY <1>1, <1>3, <1>5

\* A firing plays its steps in order, with the macros it fires in the place of
\* the steps that fire them, each once and none but what a failed send or an edit
\* took off its plan (macro_engine.rs); and what it sent is what the mirror has:
\* for any macros, nested in one another or firing themselves.
THEOREM MacrosPlayWhole == MacroSpec => [](RunsWhole /\ MirrorTrue /\ MacroTypeOK)
<1>1. MacroInv /\ [MacroNext]_macroVars => MacroInv'
  BY MacroNextInv, MacroStutterInv
<1>. QED BY <1>1, MacroInitInv, WholeOfInv, PTL DEF MacroSpec

-----------------------------------------------------------------------------
(* Counting what is on its way, and the cursor's arithmetic.               *)

\* Y is X without j, those beyond j moved down by one.
Closes(n, X, j, Y) == \A i \in 1..(n - 1) : i \in Y <=> (IF i < j THEN i ELSE i + 1) \in X
LEMMA RemovedIndex ==
  ASSUME NEW n \in Nat, NEW X \in SUBSET (1..n), NEW j \in 1..n, NEW Y \in SUBSET (1..(n - 1)),
         Closes(n, X, j, Y)
  PROVE  /\ IsFiniteSet(X) /\ IsFiniteSet(Y) /\ Cardinality(X) \in Nat /\ Cardinality(Y) \in Nat
         /\ Cardinality(X) = Cardinality(Y) + (IF j \in X THEN 1 ELSE 0)
<1>. USE DEF Closes
<1>. DEFINE Z == X \ {j}  f == [i \in Y |-> IF i < j THEN i ELSE i + 1]
<1>1. IsFiniteSet(1..n) /\ IsFiniteSet(1..(n - 1))
  BY FS_Interval
<1>2. IsFiniteSet(X) /\ IsFiniteSet(Y) /\ Cardinality(X) \in Nat /\ Cardinality(Y) \in Nat
  BY <1>1, FS_Subset, FS_CardinalityType
<1>3. Cardinality(Z) = Cardinality(X) - (IF j \in X THEN 1 ELSE 0) /\ IsFiniteSet(Z) /\ Cardinality(Z) \in Nat
  BY <1>2, FS_RemoveElement, FS_CardinalityType
<1>4. f \in Bijection(Y, Z)
  <2>1. f \in [Y -> Z]
    <3>1. ASSUME NEW i \in Y PROVE (IF i < j THEN i ELSE i + 1) \in Z
      OBVIOUS
    <3>. QED BY <3>1
  <2>2. \A a, b \in Y : f[a] = f[b] => a = b
    OBVIOUS
  <2>3. ASSUME NEW z \in Z PROVE \E i \in Y : f[i] = z
    <3>1. CASE z < j
      <4>1. z \in 1..(n - 1) /\ z \in Y
        BY <3>1
      <4>. QED BY <3>1, <4>1
    <3>2. CASE ~(z < j)
      <4>1. z \in 1..n /\ z # j /\ z - 1 \in 1..(n - 1) /\ ~(z - 1 < j) /\ z - 1 + 1 = z
        BY <3>2
      <4>2. z - 1 \in Y
        BY <4>1
      <4>. QED BY <4>1, <4>2
    <3>. QED BY <3>1, <3>2
  <2>. HIDE DEF f, Z
  <2>. QED BY <2>1, <2>2, <2>3 DEF Bijection, Injection, Surjection, IsInjective
<1>5. Cardinality(Y) = Cardinality(Z)
  <2>. HIDE DEF f, Z
  <2>1. ExistsBijection(Y, Z)
    BY <1>4 DEF ExistsBijection
  <2>. QED BY <1>2, <2>1, FS_Bijection
<1>. QED BY <1>2, <1>3, <1>5

LEMMA AddedIndex ==
  ASSUME NEW n \in Nat, NEW X \in SUBSET (1..n), NEW e, NEW Y, Y = X \/ Y = X \cup {e}
  PROVE  /\ IsFiniteSet(X) /\ IsFiniteSet(Y) /\ Cardinality(X) \in Nat /\ Cardinality(Y) \in Nat
         /\ Cardinality(Y) = Cardinality(X) + (IF e \in Y /\ e \notin X THEN 1 ELSE 0)
<1>1. IsFiniteSet(X) /\ Cardinality(X) \in Nat
  <2>1. IsFiniteSet(1..n)
    BY FS_Interval
  <2>. QED BY <2>1, FS_Subset, FS_CardinalityType
<1>2. CASE Y = X
  BY <1>1, <1>2
<1>3. CASE Y = X \cup {e}
  <2>1. /\ IsFiniteSet(X \cup {e})
        /\ Cardinality(X \cup {e}) = IF e \in X THEN Cardinality(X) ELSE Cardinality(X) + 1
    BY <1>1, FS_AddElement
  <2>2. Cardinality(Y) \in Nat
    BY <1>3, <2>1, FS_CardinalityType
  <2>. QED BY <1>1, <1>3, <2>1, <2>2
<1>. QED BY <1>2, <1>3

LEMMA TimesAtLeast ==
  ASSUME NEW n \in Nat, n > 0, NEW d \in Int
  PROVE  /\ d >= 1 => n * d >= n
         /\ d <= -1 => n * d <= -n
<1>1. d >= 1 => n * (d - 1) >= 0
  OBVIOUS
<1>2. d <= -1 => n * (-d - 1) >= 0
  OBVIOUS
<1>3. n * (d - 1) = n * d - n /\ n * (-d - 1) = -(n * d) - n /\ n * d \in Int
  OBVIOUS
<1>. QED BY <1>1, <1>2, <1>3

LEMMA OneRemainder ==
  ASSUME NEW n \in Nat, n > 0, NEW q \in Int, NEW p \in Int, NEW r \in 0..(n - 1), NEW s \in 0..(n - 1),
         n * q + r = n * p + s
  PROVE  r = s
<1>1. n * (q - p) = n * q - n * p /\ n * q \in Int /\ n * p \in Int /\ q - p \in Int
  OBVIOUS
<1>2. n * (q - p) = s - r
  BY <1>1
<1>3. ~(q - p >= 1) /\ ~(q - p <= -1)
  BY <1>1, <1>2, TimesAtLeast
<1>4. q - p = 0
  BY <1>1, <1>3
<1>5. n * 0 = 0
  OBVIOUS
<1>. QED BY <1>2, <1>4, <1>5

\* The cursor goes round.
LEMMA Remainder ==
  ASSUME NEW n \in Nat, n > 0, NEW x \in Nat
  PROVE  /\ x % n \in 0..(n - 1)
         /\ x < n => x % n = x
         /\ (x + 1) % n = ((x % n) + 1) % n
<1>. DEFINE r == x % n  q == x \div n  y == r + 1  s == y % n  p == y \div n  t == (x + 1) % n  u == (x + 1) \div n
<1>1. r \in 0..(n - 1) /\ s \in 0..(n - 1) /\ t \in 0..(n - 1)
  <2>1. x + 1 \in Nat /\ \A z \in Nat : z % n \in 0..(n - 1)
    OBVIOUS
  <2>2. r \in 0..(n - 1) /\ y \in Nat
    BY <2>1
  <2>. HIDE DEF y
  <2>. QED BY <2>1, <2>2
<1>3. /\ x = n * q + r /\ q \in Int
      /\ y = n * p + s /\ p \in Int
      /\ x + 1 = n * u + t /\ u \in Int
  <2>1. \A z \in Nat : z = n * (z \div n) + (z % n) /\ z \div n \in Int
    OBVIOUS
  <2>2. y \in Nat /\ x + 1 \in Nat
    BY <1>1
  <2>. HIDE DEF y
  <2>. QED BY <2>1, <2>2
<1>2. x < n => r = x
  <2>. HIDE DEF r, q
  <2>. SUFFICES ASSUME x < n PROVE r = x
    OBVIOUS
  <2>1. x \in 0..(n - 1) /\ n * 0 + x = x
    OBVIOUS
  <2>2. n * q + r = n * 0 + x
    BY <1>3, <2>1
  <2>3. q \in Int /\ 0 \in Int /\ r \in 0..(n - 1)
    BY <1>1, <1>3
  <2>. QED BY <2>1, <2>2, <2>3, OneRemainder
<1>4. y = r + 1
  OBVIOUS
<1>. HIDE DEF r, q, y, s, p, t, u
<1>5. n * q + n * p = n * (q + p) /\ q + p \in Int /\ n * q \in Int /\ n * p \in Int
  BY <1>3
<1>6. n * u + t = n * (q + p) + s
  <2>. DEFINE a == n * q  b == n * p  c == n * (q + p)  d == n * u
  <2>1. a + b = c /\ a \in Int /\ b \in Int /\ x = a + r /\ y = b + s /\ x + 1 = d + t /\ d \in Int
    BY <1>3, <1>5
  <2>. HIDE DEF a, b, c, d
  <2>2. d + t = c + s
    BY <1>1, <1>4, <2>1
  <2>. QED BY <2>2 DEF c, d
<1>7. t = s
  BY <1>1, <1>3, <1>5, <1>6, OneRemainder
<1>. QED BY <1>1, <1>2, <1>7 DEF r, s, t, y

LEMMA ConcatAt ==
  ASSUME NEW T, NEW a \in Seq(T), NEW b \in Seq(T), NEW j \in 1..(Len(a) + Len(b)), j > Len(a)
  PROVE  (a \o b)[j] = b[j - Len(a)]
<1>1. Len(a) \in Nat /\ Len(b) \in Nat /\ j \in Int /\ ~(j <= Len(a))
  OBVIOUS
<1>. QED BY <1>1, ConcatProperties

LEMMA RemovedAt ==
  ASSUME NEW T, NEW s \in Seq(T), NEW i \in DOMAIN s
  PROVE  /\ RemoveAt(s, i) \in Seq(T) /\ Len(RemoveAt(s, i)) = Len(s) - 1 /\ Len(s) \in Nat /\ i \in 1..Len(s)
         /\ \A j \in 1..(Len(s) - 1) : RemoveAt(s, i)[j] = s[IF j < i THEN j ELSE j + 1]
<1>1. i \in 1..Len(s) /\ Len(s) \in Nat
  OBVIOUS
<1>. DEFINE a == SubSeq(s, 1, i - 1)  b == SubSeq(s, i + 1, Len(s))
<1>2. a \in Seq(T) /\ Len(a) = i - 1 /\ \A j \in 1..(i - 1) : a[j] = s[j]
  BY <1>1
<1>3. b \in Seq(T) /\ Len(b) = Len(s) - i /\ \A j \in 1..(Len(s) - i) : b[j] = s[i + j]
  BY <1>1
<1>4. RemoveAt(s, i) = a \o b
  BY DEF RemoveAt
<1>. HIDE DEF a, b
<1>5. a \o b \in Seq(T) /\ Len(a \o b) = Len(s) - 1
  BY <1>1, <1>2, <1>3
<1>6. ASSUME NEW j \in 1..(Len(s) - 1) PROVE (a \o b)[j] = s[IF j < i THEN j ELSE j + 1]
  <2>1. CASE j < i
    BY <1>1, <1>2, <1>3, <2>1
  <2>2. CASE ~(j < i)
    <3>1. j - (i - 1) \in 1..(Len(s) - i) /\ i + (j - (i - 1)) = j + 1
      BY <1>1, <2>2
    <3>2. (a \o b)[j] = b[j - (i - 1)]
      <4>1. j \in 1..(Len(a) + Len(b)) /\ j > Len(a)
        BY <1>1, <1>2, <1>3, <2>2
      <4>2. (a \o b)[j] = b[j - Len(a)]
        BY <1>2, <1>3, <4>1, ConcatAt
      <4>. QED BY <1>2, <4>2
    <3>3. b[j - (i - 1)] = s[j + 1]
      BY <1>3, <3>1
    <3>. QED BY <2>2, <3>2, <3>3
  <2>. QED BY <2>1, <2>2
<1>. QED BY <1>1, <1>4, <1>5, <1>6

LEMMA InsertedAt ==
  ASSUME NEW T, NEW s \in Seq(T), NEW i \in 1..(Len(s) + 1), NEW e \in T
  PROVE  InsertAt(s, i, e) \in Seq(T) /\ Len(InsertAt(s, i, e)) = Len(s) + 1
<1>. DEFINE a == SubSeq(s, 1, i - 1)  b == SubSeq(s, i, Len(s))
<1>1. a \in Seq(T) /\ Len(a) = i - 1 /\ b \in Seq(T) /\ Len(b) = Len(s) - i + 1 /\ Len(s) \in Nat
  OBVIOUS
<1>2. InsertAt(s, i, e) = a \o <<e>> \o b
  BY DEF InsertAt
<1>. HIDE DEF a, b
<1>3. a \o <<e>> \in Seq(T) /\ Len(a \o <<e>>) = i
  BY <1>1
<1>. DEFINE c == a \o <<e>>
<1>. HIDE DEF c
<1>4. c \o b \in Seq(T) /\ Len(c \o b) = Len(s) + 1
  BY <1>1, <1>3 DEF c
<1>. QED BY <1>2, <1>4 DEF c

-----------------------------------------------------------------------------
(* The Stream Deck: what its state is made of.                             *)

Ids == UNION {DOMAIN l : l \in MacroLists}
Faces == UNION {[S -> Names] : S \in SUBSET Keys}
Nexts == UNION {[S -> Ids \cup {Blank}] : S \in SUBSET Keys}

DeckEvent == [what : {"pressed"}, key : Keys] \cup [what : {"connected", "opened"}]
DeckCommand == [what : {"connect", "disconnect"}] \cup [what : {"paint"}, faces : Faces]
DeckTask ==
  [does : {"press"}, phase : {"take"}, key : Keys, engine : BOOLEAN]
    \cup [does : {"press"}, phase : {"fire"}, key : Keys, engine : BOOLEAN, id : Ids]
    \cup [does : {"press"}, phase : {"run"}, key : Keys, run : Nat]
    \cup [does : {"press", "edit", "all"}, phase : {"name"}, next : Nexts]
    \cup [does : {"rename"}, phase : {"push"}, id : Ids]

DeckQueues == deckQueue \in Seq(DeckCommand) /\ deckEvents \in Seq(DeckEvent) /\ deckTasks \in Seq(DeckTask)
              /\ deckReports \in Seq(SUBSET Keys)
DeckMade ==
  /\ deckOn \in BOOLEAN /\ deckTarget \in BOOLEAN /\ deckWanted \in BOOLEAN /\ deckOpen \in BOOLEAN
  /\ deckPlugged \in BOOLEAN
  /\ deckDown \subseteq Keys /\ deckHeld \subseteq Keys /\ deckMet \subseteq Keys /\ deckCrossed \subseteq Keys
  /\ deckFaces \in [Keys -> Names] /\ deckPending \in [Keys -> Names] \cup {NoFaces}
  /\ deckMoves \in Nat /\ deckTrouble \in Nat /\ deckMoves + deckTrouble <= MaxDeckMoves
  /\ deckPressed \in [Keys -> Int] /\ DOMAIN macros \subseteq Ids

\* A button's cursor stands behind what it has fired since its steps changed.
AtTurn(steps, at, fired) ==
  LET n == Len(steps) IN
    /\ steps \in Seq(Ids) /\ at \in Nat /\ fired \in [from : Nat, ids : Seq(Ids)]
    /\ IF n = 0 THEN at = 0 /\ fired.ids = <<>>
       ELSE /\ at < n /\ at = (fired.from + Len(fired.ids)) % n
            /\ \A i \in 1..Len(fired.ids) : fired.ids[i] = steps[((fired.from + i - 1) % n) + 1]
ButtonsInv ==
  /\ DOMAIN deckSteps = Keys /\ DOMAIN deckAt = Keys /\ DOMAIN deckFired = Keys
  /\ \A k \in Keys : AtTurn(deckSteps[k], deckAt[k], deckFired[k])

\* The presses of a key that have not fired yet, where they are: in reports
\* unread, in events on their way to the window, in tasks that have not begun.
Ups(k) == {i \in DOMAIN deckReports :
             k \in deckReports[i] /\ k \notin (IF i = 1 THEN deckDown ELSE deckReports[i - 1])}
Pressings(k) == {i \in DOMAIN deckEvents : deckEvents[i].what = "pressed" /\ deckEvents[i].key = k}
Taking(k) == {i \in DOMAIN deckTasks : /\ deckTasks[i].does = "press" /\ deckTasks[i].phase = "take"
                                       /\ deckTasks[i].key = k}
Coming(k) == Cardinality(Ups(k)) + Cardinality(Pressings(k)) + Cardinality(Taking(k))

\* The next report has the keys that are held; the last one may not.
LastReport == IF deckReports = <<>> THEN deckDown ELSE deckReports[Len(deckReports)]
Unseen(k) == IF deckOpen /\ deckPlugged /\ k \in deckHeld \ LastReport THEN 1 ELSE 0

\* No press comes twice; undisturbed, none is lost.
PressInv ==
  /\ \A k \in Keys : deckPressed[k] >= Coming(k) + Unseen(k)
  /\ deckTrouble = 0 =>
       /\ deckPlugged /\ deckOn /\ \A i \in DOMAIN deckQueue : deckQueue[i].what # "disconnect"
       /\ ~deckOpen => deckReports = <<>>
       /\ \A k \in Keys \ deckMet : /\ deckSteps[k] # <<>> => deckPressed[k] = Coming(k)
                                    /\ deckOpen => (k \in deckHeld <=> k \in LastReport)

DeckInv == MacroInv /\ DeckQueues /\ DeckMade /\ ButtonsInv /\ PressInv

LEMMA ComingParts ==
  ASSUME DeckQueues, NEW k
  PROVE  /\ IsFiniteSet(Ups(k)) /\ IsFiniteSet(Pressings(k)) /\ IsFiniteSet(Taking(k))
         /\ Cardinality(Ups(k)) \in Nat /\ Cardinality(Pressings(k)) \in Nat /\ Cardinality(Taking(k)) \in Nat
         /\ Ups(k) \in SUBSET (1..Len(deckReports)) /\ Pressings(k) \in SUBSET (1..Len(deckEvents))
         /\ Taking(k) \in SUBSET (1..Len(deckTasks))
         /\ Len(deckReports) \in Nat /\ Len(deckEvents) \in Nat /\ Len(deckTasks) \in Nat
<1>1. /\ Ups(k) \in SUBSET (1..Len(deckReports)) /\ Pressings(k) \in SUBSET (1..Len(deckEvents))
      /\ Taking(k) \in SUBSET (1..Len(deckTasks))
      /\ Len(deckReports) \in Nat /\ Len(deckEvents) \in Nat /\ Len(deckTasks) \in Nat
  BY DEF DeckQueues, Ups, Pressings, Taking
<1>2. \A n \in Nat : IsFiniteSet(1..n)
  BY FS_Interval
<1>3. IsFiniteSet(Ups(k)) /\ IsFiniteSet(Pressings(k)) /\ IsFiniteSet(Taking(k))
  BY <1>1, <1>2, FS_Subset
<1>. QED BY <1>1, <1>3, FS_CardinalityType

\* A task begins, goes on, or ends.
LEMMA TaskSpawned ==
  ASSUME DeckQueues, NEW task \in DeckTask, Spawn(task), NEW k
  PROVE  /\ deckTasks' \in Seq(DeckTask)
         /\ Cardinality(Taking(k))' = Cardinality(Taking(k))
              + (IF task.does = "press" /\ task.phase = "take" /\ task.key = k THEN 1 ELSE 0)
<1>. DEFINE n == Len(deckTasks)  takes == task.does = "press" /\ task.phase = "take" /\ task.key = k
<1>1. /\ deckTasks' \in Seq(DeckTask) /\ DOMAIN deckTasks' = 1..(n + 1) /\ deckTasks'[n + 1] = task /\ n \in Nat
      /\ \A i \in 1..n : deckTasks'[i] = deckTasks[i]
      /\ DOMAIN deckTasks = 1..n
  BY DEF DeckQueues, Spawn
<1>2. \A i \in 1..(n + 1) : i \in 1..n \/ i = n + 1
  BY <1>1
<1>3. 1..n \subseteq 1..(n + 1) /\ n + 1 \in 1..(n + 1) /\ n + 1 \notin 1..n
  BY <1>1
<1>4. n + 1 \notin Taking(k)
  BY <1>1, <1>3 DEF Taking
<1>. HIDE DEF n
<1>5. Taking(k)' = IF takes THEN Taking(k) \cup {n + 1} ELSE Taking(k)
  BY <1>1, <1>2, <1>3 DEF Taking
<1>6. Taking(k) \in SUBSET (1..n)
  BY ComingParts DEF n
<1>7. n + 1 \in Taking(k)' <=> takes
  BY <1>4, <1>5
<1>. HIDE DEF takes
<1>8. Cardinality(Taking(k)') = Cardinality(Taking(k)) + (IF takes THEN 1 ELSE 0)
  <2>. DEFINE X == Taking(k)  Y == Taking(k)'
  <2>. HIDE DEF X, Y
  <2>1. X \in SUBSET (1..n) /\ (Y = X \/ Y = X \cup {n + 1}) /\ (n + 1 \in Y <=> takes) /\ n + 1 \notin X /\ n \in Nat
    BY <1>1, <1>4, <1>5, <1>6, <1>7 DEF X, Y
  <2>2. Cardinality(Y) = Cardinality(X) + (IF n + 1 \in Y /\ n + 1 \notin X THEN 1 ELSE 0)
    BY <2>1, AddedIndex
  <2>. QED BY <2>1, <2>2 DEF X, Y
<1>. QED BY <1>1, <1>8 DEF takes

LEMMA TaskRemoved ==
  ASSUME DeckQueues, NEW i \in DOMAIN deckTasks, deckTasks' = RemoveAt(deckTasks, i), NEW k
  PROVE  /\ deckTasks' \in Seq(DeckTask)
         /\ Cardinality(Taking(k)) = Cardinality(Taking(k))' + (IF i \in Taking(k) THEN 1 ELSE 0)
<1>. DEFINE n == Len(deckTasks)
<1>1. /\ deckTasks' \in Seq(DeckTask) /\ Len(deckTasks') = n - 1 /\ n \in Nat /\ i \in 1..n
      /\ \A j \in 1..(n - 1) : deckTasks'[j] = deckTasks[IF j < i THEN j ELSE j + 1]
  BY RemovedAt DEF DeckQueues
<1>2. DOMAIN deckTasks' = 1..(n - 1) /\ DOMAIN deckTasks = 1..n
  BY <1>1 DEF DeckQueues
<1>3. \A j \in 1..(n - 1) : (IF j < i THEN j ELSE j + 1) \in 1..n
  BY <1>1
<1>. HIDE DEF n
<1>4. \A j \in 1..(n - 1) : j \in Taking(k)' <=> (IF j < i THEN j ELSE j + 1) \in Taking(k)
  BY <1>1, <1>2, <1>3 DEF Taking
<1>5. Taking(k) \in SUBSET (1..n) /\ Taking(k)' \in SUBSET (1..(n - 1))
  BY <1>2 DEF Taking
<1>6. n - 1 \in Int /\ n \in Nat /\ i \in 1..n
  BY <1>1
<1>. DEFINE X == Taking(k)  Y == Taking(k)'
<1>. HIDE DEF X, Y
<1>7. /\ X \in SUBSET (1..n) /\ Y \in SUBSET (1..(n - 1))
      /\ Closes(n, X, i, Y)
  BY <1>4, <1>5 DEF X, Y, Closes
<1>8. Cardinality(X) = Cardinality(Y) + (IF i \in X THEN 1 ELSE 0)
  BY <1>6, <1>7, RemovedIndex
<1>. QED BY <1>1, <1>8 DEF X, Y

LEMMA TaskBecomes ==
  ASSUME DeckQueues, NEW i \in DOMAIN deckTasks, NEW task \in DeckTask, Becoming(i, task), NEW k,
         task.phase # "take"
  PROVE  /\ deckTasks' \in Seq(DeckTask)
         /\ Cardinality(Taking(k)) = Cardinality(Taking(k))' + (IF i \in Taking(k) THEN 1 ELSE 0)
<1>1. /\ deckTasks' \in Seq(DeckTask) /\ DOMAIN deckTasks' = DOMAIN deckTasks /\ deckTasks'[i] = task
      /\ \A j \in DOMAIN deckTasks : j # i => deckTasks'[j] = deckTasks[j]
  BY DEF DeckQueues, Becoming
<1>2. Taking(k)' = Taking(k) \ {i}
  BY <1>1 DEF Taking
<1>3. Cardinality(Taking(k) \ {i}) = IF i \in Taking(k) THEN Cardinality(Taking(k)) - 1 ELSE Cardinality(Taking(k))
  BY ComingParts, FS_RemoveElement
<1>4. Cardinality(Taking(k)) \in Nat
  BY ComingParts
<1>. QED BY <1>1, <1>2, <1>3, <1>4

LEMMA SetInTurn ==
  ASSUME NEW S, IsFiniteSet(S)
  PROVE  LET s == SetToSeq(S) IN
         /\ s \in Seq(S) /\ \A i, j \in DOMAIN s : s[i] = s[j] => i = j
         /\ \A e \in S : \E i \in DOMAIN s : s[i] = e
<1>. DEFINE n == Cardinality(S)  s == SetToSeq(S)
<1>1. n \in Nat /\ ExistsBijection(1..n, S)
  BY FS_CardinalityType
<1>2. \E f \in [1..n -> S] : IsInjective(f)
  BY <1>1 DEF ExistsBijection, Bijection, Injection
<1>3. s \in [1..n -> S] /\ IsInjective(s)
  BY <1>2 DEF SetToSeq
<1>. HIDE DEF s
<1>4. s \in Injection(1..n, S)
  BY <1>3 DEF Injection
<1>5. IsFiniteSet(1..n) /\ Cardinality(1..n) = n
  BY <1>1, FS_Interval
<1>6. s \in Surjection(1..n, S)
  BY <1>4, <1>5, FS_Injection
<1>7. s \in Seq(S) /\ DOMAIN s = 1..n
  BY <1>1, <1>3
<1>8. \A e \in S : \E i \in DOMAIN s : s[i] = e
  BY <1>6, <1>7 DEF Surjection
<1>9. \A i, j \in DOMAIN s : s[i] = s[j] => i = j
  BY <1>3 DEF IsInjective
<1>. QED BY <1>7, <1>8, <1>9 DEF s

\* An event is queued, some are, or one is handled.
LEMMA EventQueued ==
  ASSUME DeckQueues, NEW event \in DeckEvent, deckEvents' = Append(deckEvents, event), NEW k,
         event.what # "pressed"
  PROVE  deckEvents' \in Seq(DeckEvent) /\ Cardinality(Pressings(k))' = Cardinality(Pressings(k))
<1>. DEFINE n == Len(deckEvents)
<1>1. /\ deckEvents' \in Seq(DeckEvent) /\ DOMAIN deckEvents' = 1..(n + 1) /\ deckEvents'[n + 1] = event /\ n \in Nat
      /\ \A i \in 1..n : deckEvents'[i] = deckEvents[i]
      /\ DOMAIN deckEvents = 1..n
  BY DEF DeckQueues
<1>2. \A i \in 1..(n + 1) : i \in 1..n \/ i = n + 1
  BY <1>1
<1>3. 1..n \subseteq 1..(n + 1)
  BY <1>1
<1>. HIDE DEF n
<1>4. Pressings(k)' = Pressings(k)
  BY <1>1, <1>2, <1>3 DEF Pressings
<1>. QED BY <1>1, <1>4

LEMMA EventHandled ==
  ASSUME DeckQueues, deckEvents # <<>>, deckEvents' = Tail(deckEvents), NEW k
  PROVE  /\ deckEvents' \in Seq(DeckEvent) /\ Head(deckEvents) \in DeckEvent
         /\ Cardinality(Pressings(k)) = Cardinality(Pressings(k))'
              + (IF Head(deckEvents).what = "pressed" /\ Head(deckEvents).key = k THEN 1 ELSE 0)
<1>. DEFINE n == Len(deckEvents)
<1>1. /\ deckEvents' \in Seq(DeckEvent) /\ n \in Nat /\ 1 \in 1..n /\ Head(deckEvents) = deckEvents[1]
      /\ DOMAIN deckEvents' = 1..(n - 1) /\ DOMAIN deckEvents = 1..n
      /\ \A i \in 1..(n - 1) : deckEvents'[i] = deckEvents[i + 1]
      /\ Head(deckEvents) \in DeckEvent
  BY DEF DeckQueues
<1>2. \A i \in 1..(n - 1) : i + 1 \in 1..n /\ ~(i < 1)
  BY <1>1
<1>. HIDE DEF n
<1>3. \A i \in 1..(n - 1) : i \in Pressings(k)' <=> (IF i < 1 THEN i ELSE i + 1) \in Pressings(k)
  BY <1>1, <1>2 DEF Pressings
<1>4. Pressings(k) \in SUBSET (1..n) /\ Pressings(k)' \in SUBSET (1..(n - 1))
  BY <1>1 DEF Pressings
<1>. DEFINE X == Pressings(k)  Y == Pressings(k)'
<1>. HIDE DEF X, Y
<1>5. X \in SUBSET (1..n) /\ Y \in SUBSET (1..(n - 1)) /\ Closes(n, X, 1, Y)
  BY <1>3, <1>4 DEF X, Y, Closes
<1>6. Cardinality(X) = Cardinality(Y) + (IF 1 \in X THEN 1 ELSE 0)
  BY <1>1, <1>5, RemovedIndex
<1>7. 1 \in X <=> Head(deckEvents).what = "pressed" /\ Head(deckEvents).key = k
  BY <1>1 DEF X, Pressings
<1>. QED BY <1>1, <1>6, <1>7 DEF X, Y

LEMMA PressesQueued ==
  ASSUME DeckQueues, NEW N \in SUBSET Keys, NEW k,
         deckEvents' = deckEvents \o SetToSeq({[what |-> "pressed", key |-> x] : x \in N})
  PROVE  /\ deckEvents' \in Seq(DeckEvent)
         /\ Cardinality(Pressings(k))' = Cardinality(Pressings(k)) + (IF k \in N THEN 1 ELSE 0)
<1>. DEFINE press(x) == [what |-> "pressed", key |-> x]
            E == {press(x) : x \in N}  s == SetToSeq(E)  n == Len(deckEvents)  f == [x \in N |-> press(x)]
<1>1. IsFiniteSet(E)
  <2>1. IsFiniteSet(N)
    BY DeckAssumption, FS_Subset
  <2>2. f \in Surjection(N, E)
    BY DEF Surjection
  <2>. HIDE DEF f, E
  <2>. QED BY <2>1, <2>2, FS_Surjection
<1>2. E \subseteq DeckEvent
  BY DEF DeckEvent
<1>3. \A e \in E : e.what = "pressed" /\ (e.key = k <=> e = press(k))
  OBVIOUS
<1>4. k \in N <=> press(k) \in E
  <2>1. \A x : press(x) = press(k) => x = k
    <3>1. \A x : press(x).key = x
      OBVIOUS
    <3>. HIDE DEF press
    <3>. QED BY <3>1
  <2>. HIDE DEF press
  <2>. QED BY <2>1
<1>. HIDE DEF E, s, press
<1>5. s \in Seq(E) /\ (\A i, j \in DOMAIN s : s[i] = s[j] => i = j) /\ \A e \in E : \E i \in DOMAIN s : s[i] = e
  BY <1>1, SetInTurn DEF s
<1>6. s \in Seq(DeckEvent) /\ deckEvents \in Seq(DeckEvent) /\ deckEvents' = deckEvents \o s
  BY <1>2, <1>5 DEF DeckQueues, s, E, press
<1>. DEFINE m == Len(s)
<1>7. /\ deckEvents' \in Seq(DeckEvent) /\ DOMAIN deckEvents' = 1..(n + m) /\ DOMAIN deckEvents = 1..n
      /\ DOMAIN s = 1..m /\ n \in Nat /\ m \in Nat
      /\ \A i \in 1..n : deckEvents'[i] = deckEvents[i]
      /\ \A i \in 1..(n + m) : i > n => deckEvents'[i] = s[i - n]
  <2>. DEFINE a == deckEvents
  <2>. HIDE DEF a
  <2>1. a \in Seq(DeckEvent) /\ s \in Seq(DeckEvent) /\ deckEvents' = a \o s
    BY <1>6 DEF a
  <2>2. a \o s \in Seq(DeckEvent) /\ Len(a \o s) = Len(a) + Len(s) /\ Len(a) \in Nat /\ Len(s) \in Nat
    BY <2>1
  <2>3. DOMAIN (a \o s) = 1..(Len(a) + Len(s)) /\ DOMAIN a = 1..Len(a) /\ DOMAIN s = 1..Len(s)
    BY <2>1, <2>2
  <2>4. /\ \A i \in 1..Len(a) : (a \o s)[i] = a[i]
        /\ \A i \in 1..(Len(a) + Len(s)) : i > Len(a) => (a \o s)[i] = s[i - Len(a)]
    BY <2>1, ConcatAt
  <2>. QED BY <2>1, <2>2, <2>3, <2>4 DEF a
<1>. HIDE DEF n, m
<1>8. \A i \in 1..m : s[i].what = "pressed" /\ (s[i].key = k <=> s[i] = press(k))
  BY <1>3, <1>5, <1>7
<1>9. Pressings(k) \in SUBSET (1..n)
  BY <1>7 DEF Pressings
<1>10. \A i \in 1..(n + m) : (i <= n /\ i \in 1..n) \/ (i > n /\ i - n \in 1..m)
  BY <1>7
<1>11. 1..n \subseteq 1..(n + m) /\ \A i \in 1..m : n + i \in 1..(n + m) /\ n + i > n /\ n + i - n = i /\ n + i \notin 1..n
  BY <1>7
<1>12. CASE k \in N
  <2>1. PICK i \in 1..m : s[i] = press(k)
    BY <1>4, <1>5, <1>7, <1>12
  <2>2. \A j \in 1..m : s[j] = press(k) => j = i
    BY <1>5, <1>7, <2>1
  <2>3. n + i \in 1..(n + m) /\ n + i > n /\ n + i \notin Pressings(k) /\ deckEvents'[n + i] = press(k)
    BY <1>7, <1>9, <1>11, <2>1
  <2>4. n + i \in Pressings(k)'
    BY <1>3, <1>4, <1>7, <1>12, <2>3 DEF Pressings
  <2>5. Pressings(k) \subseteq Pressings(k)'
    BY <1>7, <1>11 DEF Pressings
  <2>6. ASSUME NEW j \in Pressings(k)' PROVE j \in Pressings(k) \/ j = n + i
    <3>1. j \in 1..(n + m) /\ deckEvents'[j].what = "pressed" /\ deckEvents'[j].key = k
      BY <1>7 DEF Pressings
    <3>2. CASE j \in 1..n
      BY <1>7, <3>1, <3>2 DEF Pressings
    <3>3. CASE j > n /\ j - n \in 1..m
      <4>1. s[j - n].key = k
        BY <1>7, <3>1, <3>3
      <4>2. j - n = i
        BY <1>8, <2>2, <3>3, <4>1
      <4>3. j \in Int /\ n \in Int
        BY <1>7, <3>1
      <4>. QED BY <4>2, <4>3
    <3>. QED BY <1>10, <3>1, <3>2, <3>3
  <2>7. Pressings(k)' = Pressings(k) \cup {n + i}
    BY <2>4, <2>5, <2>6
  <2>8. IsFiniteSet(Pressings(k))
    BY ComingParts
  <2>9. Cardinality(Pressings(k) \cup {n + i}) = Cardinality(Pressings(k)) + 1
    BY <2>3, <2>8, FS_AddElement
  <2>. QED BY <1>7, <1>12, <2>7, <2>9
<1>13. CASE k \notin N
  <2>1. \A j \in 1..m : s[j].key # k
    BY <1>4, <1>5, <1>7, <1>8, <1>13
  <2>2. Pressings(k)' = Pressings(k)
    <3>1. Pressings(k) \subseteq Pressings(k)'
      BY <1>7, <1>11 DEF Pressings
    <3>2. ASSUME NEW j \in Pressings(k)' PROVE j \in Pressings(k)
      <4>1. j \in 1..(n + m) /\ deckEvents'[j].what = "pressed" /\ deckEvents'[j].key = k
        BY <1>7 DEF Pressings
      <4>2. ~(j > n /\ j - n \in 1..m)
        BY <1>7, <2>1, <4>1
      <4>. QED BY <1>7, <1>10, <4>1, <4>2 DEF Pressings
    <3>. QED BY <3>1, <3>2
  <2>3. Cardinality(Pressings(k)) \in Nat
    BY ComingParts
  <2>. QED BY <1>7, <1>13, <2>2, <2>3
<1>. QED BY <1>12, <1>13

LEMMA Appended ==
  ASSUME NEW T, NEW s \in Seq(T), NEW e \in T
  PROVE  /\ Append(s, e) \in Seq(T) /\ DOMAIN Append(s, e) = 1..(Len(s) + 1) /\ Append(s, e)[Len(s) + 1] = e
         /\ Len(s) \in Nat /\ Len(Append(s, e)) = Len(s) + 1 /\ Append(s, e) # <<>>
         /\ \A i \in 1..Len(s) : Append(s, e)[i] = s[i]
         /\ DOMAIN s = 1..Len(s) /\ (s = <<>> <=> Len(s) = 0)
OBVIOUS

LEMMA Tailed ==
  ASSUME NEW T, NEW s \in Seq(T), s # <<>>
  PROVE  /\ Tail(s) \in Seq(T) /\ Len(s) \in Nat /\ 1 \in 1..Len(s) /\ Head(s) = s[1]
         /\ DOMAIN Tail(s) = 1..(Len(s) - 1) /\ DOMAIN s = 1..Len(s) /\ Len(Tail(s)) = Len(s) - 1
         /\ \A i \in 1..(Len(s) - 1) : Tail(s)[i] = s[i + 1]
         /\ Head(s) \in T /\ (Tail(s) = <<>> <=> Len(s) = 1)
<1>1. Len(s) \in Nat /\ 1 \in 1..Len(s) /\ Head(s) = s[1] /\ DOMAIN s = 1..Len(s) /\ Head(s) \in T
  OBVIOUS
<1>2. Tail(s) \in Seq(T) /\ Len(Tail(s)) = Len(s) - 1
  OBVIOUS
<1>3. DOMAIN Tail(s) = 1..(Len(s) - 1) /\ \A i \in 1..(Len(s) - 1) : Tail(s)[i] = s[i + 1]
  OBVIOUS
<1>4. Tail(s) = <<>> <=> Len(s) - 1 = 0
  <2>. DEFINE t == Tail(s)
  <2>. HIDE DEF t
  <2>1. t \in Seq(T) /\ Len(t) = Len(s) - 1
    BY <1>2 DEF t
  <2>. QED BY <2>1 DEF t
<1>5. Tail(s) = <<>> <=> Len(s) = 1
  BY <1>1, <1>4
<1>. QED BY <1>1, <1>2, <1>3, <1>5

\* A report of the keys comes in, one is read, or they are thrown away.
LEMMA ReportMade ==
  ASSUME DeckQueues, NEW held \in SUBSET Keys, deckReports' = Append(deckReports, held), deckDown' = deckDown, NEW k
  PROVE  /\ deckReports' \in Seq(SUBSET Keys) /\ LastReport' = held /\ deckReports' # <<>>
         /\ Cardinality(Ups(k))' = Cardinality(Ups(k)) + (IF k \in held \ LastReport THEN 1 ELSE 0)
<1>. DEFINE n == Len(deckReports)
<1>1. /\ deckReports' \in Seq(SUBSET Keys) /\ DOMAIN deckReports' = 1..(n + 1) /\ deckReports'[n + 1] = held
      /\ n \in Nat /\ Len(deckReports') = n + 1 /\ deckReports' # <<>>
      /\ \A i \in 1..n : deckReports'[i] = deckReports[i]
      /\ DOMAIN deckReports = 1..n /\ (deckReports = <<>> <=> n = 0)
  <2>. DEFINE T == SUBSET Keys  q == deckReports
  <2>1. q \in Seq(T) /\ held \in T
    BY DEF DeckQueues
  <2>. HIDE DEF T, q
  <2>2. /\ Append(q, held) \in Seq(T) /\ Len(q) \in Nat /\ Len(Append(q, held)) = Len(q) + 1
        /\ DOMAIN Append(q, held) = 1..(Len(q) + 1) /\ DOMAIN q = 1..Len(q)
        /\ Append(q, held)[Len(q) + 1] = held
        /\ \A i \in 1..Len(q) : Append(q, held)[i] = q[i]
    BY <2>1, Appended
  <2>3. (q = <<>> <=> Len(q) = 0) /\ Append(q, held) # <<>>
    BY <2>1
  <2>4. deckReports' = Append(q, held)
    BY DEF q
  <2>. QED BY <2>2, <2>3, <2>4 DEF T, q
<1>2. /\ \A i \in 1..(n + 1) : i \in 1..n \/ i = n + 1
      /\ 1..n \subseteq 1..(n + 1) /\ n + 1 \in 1..(n + 1) /\ n + 1 \notin 1..n
      /\ \A i \in 1..n : i # 1 => i - 1 \in 1..n
      /\ n + 1 = 1 <=> n = 0
      /\ n + 1 - 1 = n
      /\ n # 0 => n \in 1..n
  BY <1>1
<1>3. LastReport' = held
  BY <1>1 DEF LastReport
<1>4. LastReport = IF n = 0 THEN deckDown ELSE deckReports[n]
  BY <1>1 DEF LastReport
<1>. HIDE DEF n
<1>5. \A i \in 1..n : i \in Ups(k)' <=> i \in Ups(k)
  BY <1>1, <1>2 DEF Ups
<1>6. n + 1 \in Ups(k)' <=> k \in held \ LastReport
  BY <1>1, <1>2, <1>4 DEF Ups
<1>7. Ups(k) \in SUBSET (1..n) /\ Ups(k)' \in SUBSET (1..(n + 1))
  BY <1>1 DEF Ups
<1>. DEFINE X == Ups(k)  Y == Ups(k)'
<1>. HIDE DEF X, Y
<1>8. X \in SUBSET (1..n) /\ (Y = X \/ Y = X \cup {n + 1}) /\ n + 1 \notin X /\ (n + 1 \in Y <=> k \in held \ LastReport)
  <2>1. \A i \in 1..n : i \in Y <=> i \in X
    BY <1>5 DEF X, Y
  <2>2. X \in SUBSET (1..n) /\ Y \in SUBSET (1..(n + 1)) /\ (n + 1 \in Y <=> k \in held \ LastReport)
    BY <1>6, <1>7 DEF X, Y
  <2>. QED BY <1>2, <2>1, <2>2
<1>9. Cardinality(Y) = Cardinality(X) + (IF n + 1 \in Y /\ n + 1 \notin X THEN 1 ELSE 0)
  BY <1>1, <1>8, AddedIndex
<1>10. Cardinality(Y) = Cardinality(X) + (IF k \in held \ LastReport THEN 1 ELSE 0)
  BY <1>8, <1>9
<1>. QED BY <1>1, <1>3, <1>10 DEF X, Y

LEMMA ReportRead ==
  ASSUME DeckQueues, deckReports # <<>>, deckReports' = Tail(deckReports), deckDown' = Head(deckReports), NEW k
  PROVE  /\ deckReports' \in Seq(SUBSET Keys) /\ deckDown' \in SUBSET Keys /\ LastReport' = LastReport
         /\ Cardinality(Ups(k)) = Cardinality(Ups(k))' + (IF k \in deckDown' \ deckDown THEN 1 ELSE 0)
<1>. DEFINE n == Len(deckReports)
<1>1. /\ deckReports' \in Seq(SUBSET Keys) /\ n \in Nat /\ 1 \in 1..n /\ Head(deckReports) = deckReports[1]
      /\ DOMAIN deckReports' = 1..(n - 1) /\ DOMAIN deckReports = 1..n /\ Len(deckReports') = n - 1
      /\ \A i \in 1..(n - 1) : deckReports'[i] = deckReports[i + 1]
      /\ Head(deckReports) \in SUBSET Keys /\ (deckReports' = <<>> <=> n = 1)
  BY Tailed DEF DeckQueues
<1>2. /\ \A i \in 1..(n - 1) : i + 1 \in 1..n /\ ~(i < 1) /\ i + 1 # 1 /\ (i + 1) - 1 = i /\ (i # 1 => i - 1 \in 1..(n - 1) /\ (i - 1) + 1 = i)
      /\ n # 1 => n - 1 \in 1..(n - 1) /\ (n - 1) + 1 = n
  BY <1>1
<1>3. LastReport' = LastReport
  BY <1>1, <1>2 DEF LastReport
<1>. HIDE DEF n
<1>4. \A i \in 1..(n - 1) : i \in Ups(k)' <=> i + 1 \in Ups(k)
  <2>. SUFFICES ASSUME NEW i \in 1..(n - 1) PROVE i \in Ups(k)' <=> i + 1 \in Ups(k)
    OBVIOUS
  <2>1. i \in Ups(k)' <=> k \in deckReports[i + 1] /\ k \notin (IF i = 1 THEN deckDown' ELSE deckReports'[i - 1])
    BY <1>1 DEF Ups
  <2>2. i + 1 \in Ups(k) <=> k \in deckReports[i + 1] /\ k \notin deckReports[i]
    BY <1>1, <1>2 DEF Ups
  <2>3. (IF i = 1 THEN deckDown' ELSE deckReports'[i - 1]) = deckReports[i]
    BY <1>1, <1>2
  <2>. QED BY <2>1, <2>2, <2>3
<1>5. \A i \in 1..(n - 1) : i \in Ups(k)' <=> (IF i < 1 THEN i ELSE i + 1) \in Ups(k)
  BY <1>2, <1>4
<1>6. Ups(k) \in SUBSET (1..n) /\ Ups(k)' \in SUBSET (1..(n - 1))
  BY <1>1 DEF Ups
<1>. DEFINE X == Ups(k)  Y == Ups(k)'
<1>. HIDE DEF X, Y
<1>7. X \in SUBSET (1..n) /\ Y \in SUBSET (1..(n - 1)) /\ Closes(n, X, 1, Y)
  BY <1>5, <1>6 DEF X, Y, Closes
<1>8. Cardinality(X) = Cardinality(Y) + (IF 1 \in X THEN 1 ELSE 0)
  BY <1>1, <1>7, RemovedIndex
<1>9. 1 \in X <=> k \in deckDown' \ deckDown
  BY <1>1 DEF X, Ups
<1>. QED BY <1>1, <1>3, <1>8, <1>9 DEF X, Y

LEMMA ReportsGone ==
  ASSUME deckReports' = <<>>, NEW k
  PROVE  /\ deckReports' \in Seq(SUBSET Keys) /\ LastReport' = deckDown' /\ Cardinality(Ups(k))' = 0
<1>1. Ups(k)' = {}
  BY DEF Ups
<1>2. LastReport' = deckDown' /\ deckReports' \in Seq(SUBSET Keys)
  BY DEF LastReport
<1>. QED BY <1>1, <1>2, FS_EmptySet

LEMMA SameComing ==
  ASSUME NEW k
  PROVE  /\ UNCHANGED <<deckReports, deckDown>> => Ups(k)' = Ups(k) /\ LastReport' = LastReport
         /\ UNCHANGED deckEvents => Pressings(k)' = Pressings(k)
         /\ UNCHANGED deckTasks => Taking(k)' = Taking(k)
BY DEF Ups, LastReport, Pressings, Taking

-----------------------------------------------------------------------------
(* The buttons.                                                            *)

LEMMA BlankIsNone == Blank \notin Ids
BY DeckAssumption DEF Ids

LEMMA NextStepIs ==
  ASSUME ButtonsInv, NEW k \in Keys
  PROVE  /\ deckSteps[k] = <<>> => NextStep(k) = Blank
         /\ deckSteps[k] # <<>> => /\ deckAt[k] + 1 \in 1..Len(deckSteps[k])
                                   /\ NextStep(k) = deckSteps[k][deckAt[k] + 1] /\ NextStep(k) \in Ids
         /\ NextStep(k) \in Ids \cup {Blank} /\ (NextStep(k) = Blank <=> deckSteps[k] = <<>>)
<1>. DEFINE s == deckSteps[k]  n == Len(s)
<1>1. s \in Seq(Ids) /\ deckAt[k] \in Nat /\ (n # 0 => deckAt[k] < n) /\ n \in Nat /\ (s = <<>> <=> n = 0)
  BY DEF ButtonsInv, AtTurn
<1>2. s = <<>> => NextStep(k) = Blank
  BY DEF NextStep
<1>3. s # <<>> => /\ deckAt[k] + 1 \in 1..n /\ NextStep(k) = s[deckAt[k] + 1] /\ NextStep(k) \in Ids
  BY <1>1 DEF NextStep
<1>. QED BY <1>2, <1>3, BlankIsNone

\* The cursor is at the step that comes next, and then at the one after it.
LEMMA TakenTurns ==
  ASSUME NEW steps, NEW at, NEW fired, AtTurn(steps, at, fired), steps # <<>>
  PROVE  AtTurn(steps, (at + 1) % Len(steps), [fired EXCEPT !.ids = Append(@, steps[at + 1])])
<1>. DEFINE n == Len(steps)  m == Len(fired.ids)  new == [fired EXCEPT !.ids = Append(@, steps[at + 1])]
<1>1. /\ steps \in Seq(Ids) /\ n \in Nat /\ n > 0 /\ at \in Nat /\ at < n
      /\ fired \in [from : Nat, ids : Seq(Ids)]
  BY DEF AtTurn
<1>2. /\ at = (fired.from + m) % n
      /\ \A i \in 1..m : fired.ids[i] = steps[((fired.from + i - 1) % n) + 1]
  BY <1>1 DEF AtTurn
<1>3. fired.from \in Nat /\ fired.ids \in Seq(Ids) /\ m \in Nat /\ steps[at + 1] \in Ids
  <2>1. at + 1 \in 1..n
    BY <1>1
  <2>. QED BY <1>1, <2>1
<1>4. new \in [from : Nat, ids : Seq(Ids)] /\ new.from = fired.from /\ new.ids = Append(fired.ids, steps[at + 1])
  <2>1. Append(fired.ids, steps[at + 1]) \in Seq(Ids)
    BY <1>3
  <2>. QED BY <1>1, <1>3, <2>1
<1>. HIDE DEF new
<1>5. Len(new.ids) = m + 1 /\ (\A i \in 1..m : new.ids[i] = fired.ids[i]) /\ new.ids[m + 1] = steps[at + 1]
  BY <1>3, <1>4, Appended
<1>. DEFINE from == fired.from
<1>. HIDE DEF n, m, from
<1>6. /\ (at + 1) % n \in 0..(n - 1) /\ (from + m + 1) % n = (at + 1) % n
      /\ from + m \in Nat
  <2>. DEFINE x == from + m
  <2>1. x \in Nat /\ at = x % n /\ at + 1 \in Nat /\ n \in Nat /\ n > 0
    <3>1. from \in Nat /\ m \in Nat
      BY <1>3 DEF from, m
    <3>2. at = (from + m) % n
      BY <1>2 DEF from, n, m
    <3>3. n \in Nat /\ n > 0 /\ at \in Nat
      BY <1>1 DEF n
    <3>. QED BY <3>1, <3>2, <3>3
  <2>. HIDE DEF x
  <2>2. (x + 1) % n = ((x % n) + 1) % n
    BY <2>1, Remainder
  <2>3. (at + 1) % n \in 0..(n - 1)
    BY <2>1, Remainder
  <2>. QED BY <2>1, <2>2, <2>3 DEF x
<1>7. from + (m + 1) = from + m + 1 /\ from + (m + 1) - 1 = from + m /\ \A i \in 1..(m + 1) : i \in 1..m \/ i = m + 1
  BY <1>3 DEF from
<1>8. \A i \in 1..(m + 1) : new.ids[i] = steps[((from + i - 1) % n) + 1]
  <2>1. \A i \in 1..m : new.ids[i] = steps[((from + i - 1) % n) + 1]
    BY <1>2, <1>5 DEF from
  <2>2. new.ids[m + 1] = steps[((from + (m + 1) - 1) % n) + 1]
    BY <1>2, <1>5, <1>7 DEF from
  <2>. QED BY <1>7, <2>1, <2>2
<1>9. (at + 1) % n = (from + (m + 1)) % n /\ (at + 1) % n \in Nat /\ (at + 1) % n < n
  BY <1>1, <1>6, <1>7
<1>10. AtTurn(steps, (at + 1) % n, new)
  <2>. DEFINE at2 == (at + 1) % n
  <2>1. at2 \in Nat /\ at2 < n /\ at2 = (new.from + Len(new.ids)) % n /\ n # 0
    BY <1>1, <1>4, <1>5, <1>9 DEF from
  <2>2. \A i \in 1..Len(new.ids) : new.ids[i] = steps[((new.from + i - 1) % n) + 1]
    BY <1>4, <1>5, <1>8 DEF from
  <2>. HIDE DEF at2
  <2>3. AtTurn(steps, at2, new)
    BY <1>1, <1>4, <2>1, <2>2 DEF AtTurn, n
  <2>. QED BY <2>3 DEF at2
<1>. QED BY <1>10 DEF new, n

LEMMA FreshTurn ==
  ASSUME NEW steps \in Seq(Ids), NEW at \in Nat, at = 0 \/ at < Len(steps)
  PROVE  AtTurn(steps, at, [from |-> at, ids |-> <<>>])
<1>. DEFINE n == Len(steps)  fired == [from |-> at, ids |-> <<>>]
<1>1. fired \in [from : Nat, ids : Seq(Ids)] /\ fired.from = at /\ fired.ids = <<>> /\ Len(fired.ids) = 0 /\ n \in Nat
  OBVIOUS
<1>. HIDE DEF fired
<1>2. n # 0 => at < n
  BY <1>1
<1>3. n # 0 => at = (at + 0) % n
  <2>1. n # 0 => at % n = at
    BY <1>1, <1>2, Remainder
  <2>2. at + 0 = at
    OBVIOUS
  <2>. QED BY <2>1, <2>2
<1>4. \A i \in 1..Len(fired.ids) : FALSE
  BY <1>1
<1>5. n = 0 => at = 0
  BY <1>1
<1>. HIDE DEF n
<1>6. AtTurn(steps, at, fired)
  <2>1. n # 0 => at = (fired.from + Len(fired.ids)) % n
    BY <1>1, <1>3
  <2>. QED BY <1>1, <1>2, <1>4, <1>5, <2>1 DEF AtTurn, n
<1>. QED BY <1>6 DEF fired

LEMMA RemovedStep ==
  ASSUME NEW steps \in Seq(Ids), NEW i \in 1..Len(steps)
  PROVE  RemoveAt(steps, i) \in Seq(Ids) /\ Len(RemoveAt(steps, i)) = Len(steps) - 1
<1>1. i \in DOMAIN steps
  OBVIOUS
<1>. QED BY <1>1, RemovedAt

LEMMA EditTurns ==
  ASSUME ButtonsInv, NEW k \in Keys, DOMAIN macros \subseteq Ids, NEW edit \in Edits(k)
  PROVE  AtTurn(edit.steps, edit.at, [from |-> edit.at, ids |-> <<>>])
<1>. DEFINE steps == deckSteps[k]  at == deckAt[k]  last == Len(steps)
<1>1. steps \in Seq(Ids) /\ at \in Nat /\ last \in Nat /\ (at = 0 \/ at < last)
  BY DEF ButtonsInv, AtTurn
<1>2. ASSUME NEW id \in DOMAIN macros, edit = [steps |-> Append(steps, id), at |-> at]
      PROVE  edit.steps \in Seq(Ids) /\ edit.at \in Nat /\ (edit.at = 0 \/ edit.at < Len(edit.steps))
  <2>1. edit.steps = Append(steps, id) /\ edit.at = at /\ id \in Ids
    BY <1>2
  <2>2. Append(steps, id) \in Seq(Ids) /\ Len(Append(steps, id)) = last + 1
    BY <1>1, <2>1, Appended
  <2>. QED BY <1>1, <2>1, <2>2
<1>3. ASSUME NEW i \in 1..last, edit = [steps |-> RemoveAt(steps, i), at |-> IF at >= last - 1 THEN 0 ELSE at]
      PROVE  edit.steps \in Seq(Ids) /\ edit.at \in Nat /\ (edit.at = 0 \/ edit.at < Len(edit.steps))
  <2>1. edit.steps = RemoveAt(steps, i) /\ edit.at = IF at >= last - 1 THEN 0 ELSE at
    BY <1>3
  <2>2. RemoveAt(steps, i) \in Seq(Ids) /\ Len(RemoveAt(steps, i)) = last - 1
    BY <1>1, RemovedStep
  <2>. QED BY <1>1, <2>1, <2>2
<1>4. ASSUME NEW from \in 1..last, NEW to \in 1..last,
             edit = [steps |-> InsertAt(RemoveAt(steps, from), to, steps[from]), at |-> at]
      PROVE  edit.steps \in Seq(Ids) /\ edit.at \in Nat /\ (edit.at = 0 \/ edit.at < Len(edit.steps))
  <2>1. edit.steps = InsertAt(RemoveAt(steps, from), to, steps[from]) /\ edit.at = at /\ steps[from] \in Ids
    BY <1>1, <1>4
  <2>. DEFINE fewer == RemoveAt(steps, from)
  <2>2. fewer \in Seq(Ids) /\ Len(fewer) = last - 1
    BY <1>1, RemovedStep
  <2>. HIDE DEF fewer, last
  <2>3. to \in 1..(Len(fewer) + 1)
    BY <1>1, <2>2
  <2>4. InsertAt(fewer, to, steps[from]) \in Seq(Ids) /\ Len(InsertAt(fewer, to, steps[from])) = Len(fewer) + 1
    BY <2>1, <2>2, <2>3, InsertedAt
  <2>5. Len(fewer) + 1 = last
    BY <1>1, <2>2
  <2>. QED BY <1>1, <2>1, <2>4, <2>5 DEF fewer
<1>5. edit.steps \in Seq(Ids) /\ edit.at \in Nat /\ (edit.at = 0 \/ edit.at < Len(edit.steps))
  BY <1>2, <1>3, <1>4 DEF Edits
<1>. QED BY <1>5, FreshTurn

LEMMA TakeButtons ==
  ASSUME DeckInv, NEW i \in DOMAIN deckTasks, Take(i)
  PROVE  ButtonsInv'
<1>. DEFINE k == deckTasks[i].key  id == NextStep(k)
<1>1. deckTasks[i] \in DeckTask /\ deckTasks[i].phase = "take"
  BY DEF Take, DeckInv, DeckQueues
<1>2. k \in Keys
  BY <1>1 DEF DeckTask
<1>3. UNCHANGED deckSteps
  BY DEF Take
<1>. HIDE DEF k
<1>4. CASE UNCHANGED <<deckAt, deckFired>>
  BY <1>3, <1>4 DEF DeckInv, ButtonsInv
<1>5. CASE /\ id # Blank /\ deckAt' = [deckAt EXCEPT ![k] = Advanced(k)]
           /\ deckFired' = [deckFired EXCEPT ![k].ids = Append(@, id)]
  <2>1. deckSteps[k] # <<>> /\ id = deckSteps[k][deckAt[k] + 1] /\ AtTurn(deckSteps[k], deckAt[k], deckFired[k])
    BY <1>2, <1>5, NextStepIs DEF DeckInv, ButtonsInv
  <2>2. /\ DOMAIN deckAt' = Keys /\ DOMAIN deckFired' = Keys
        /\ deckAt'[k] = (deckAt[k] + 1) % Len(deckSteps[k])
        /\ deckFired'[k] = [deckFired[k] EXCEPT !.ids = Append(@, id)]
        /\ \A x \in Keys \ {k} : deckAt'[x] = deckAt[x] /\ deckFired'[x] = deckFired[x]
    BY <1>2, <1>5 DEF DeckInv, ButtonsInv, Advanced
  <2>3. AtTurn(deckSteps[k], deckAt'[k], deckFired'[k])
    BY <2>1, <2>2, TakenTurns
  <2>. QED BY <1>3, <2>2, <2>3 DEF DeckInv, ButtonsInv
<1>. QED BY <1>4, <1>5 DEF Take, k

LEMMA EditButtons ==
  ASSUME DeckInv, NEW k \in Keys, EditButton(k)
  PROVE  ButtonsInv'
<1>1. PICK edit \in Edits(k) :
        /\ deckSteps' = [deckSteps EXCEPT ![k] = edit.steps] /\ deckAt' = [deckAt EXCEPT ![k] = edit.at]
        /\ deckFired' = [deckFired EXCEPT ![k] = [from |-> edit.at, ids |-> <<>>]]
  BY DEF EditButton
<1>2. AtTurn(edit.steps, edit.at, [from |-> edit.at, ids |-> <<>>])
  BY EditTurns DEF DeckInv, DeckMade
<1>. QED BY <1>1, <1>2 DEF DeckInv, ButtonsInv

LEMMA OpenButtons ==
  ASSUME DeckInv, OpenShow
  PROVE  ButtonsInv'
<1>1. /\ macros' \in MacroLists /\ deckSteps' = ButtonsOf[macros'] /\ deckAt' = [k \in Keys |-> 0]
      /\ deckFired' = Unfired(deckAt')
  BY DEF OpenShow
<1>2. ButtonsOf[macros'] \in [Keys -> Seq(DOMAIN macros')] /\ DOMAIN macros' \subseteq Ids
  BY <1>1, DeckAssumption DEF Ids
<1>3. deckFired' = [k \in Keys |-> [from |-> 0, ids |-> <<>>]]
  BY <1>1 DEF Unfired
<1>4. \A k \in Keys : AtTurn(deckSteps'[k], 0, [from |-> 0, ids |-> <<>>])
  BY <1>1, <1>2, FreshTurn
<1>. QED BY <1>1, <1>2, <1>3, <1>4 DEF ButtonsInv

LEMMA InitButtons == DeckInit => ButtonsInv
<1>. SUFFICES ASSUME DeckInit PROVE ButtonsInv
  OBVIOUS
<1>1. /\ macros \in MacroLists /\ deckSteps = ButtonsOf[macros] /\ deckAt = [k \in Keys |-> 0]
      /\ deckFired = Unfired(deckAt)
  BY DEF DeckInit, MacroInit
<1>2. ButtonsOf[macros] \in [Keys -> Seq(DOMAIN macros)] /\ DOMAIN macros \subseteq Ids
  BY <1>1, DeckAssumption DEF Ids
<1>3. deckFired = [k \in Keys |-> [from |-> 0, ids |-> <<>>]]
  BY <1>1 DEF Unfired
<1>4. \A k \in Keys : AtTurn(deckSteps[k], 0, [from |-> 0, ids |-> <<>>])
  BY <1>1, <1>2, FreshTurn
<1>. QED BY <1>1, <1>2, <1>3, <1>4 DEF ButtonsInv

-----------------------------------------------------------------------------
(* The deck's types.                                                       *)

DeckTyped == DeckQueues /\ DeckMade

LEMMA TaskTypes ==
  /\ \A k \in Keys, e \in BOOLEAN : [does |-> "press", phase |-> "take", key |-> k, engine |-> e] \in DeckTask
  /\ \A k \in Keys, e \in BOOLEAN, id \in Ids :
       [does |-> "press", key |-> k, engine |-> e, phase |-> "fire", id |-> id] \in DeckTask
  /\ \A k \in Keys, r \in Nat : [does |-> "press", phase |-> "run", key |-> k, run |-> r] \in DeckTask
  /\ \A d \in {"press", "edit", "all"}, f \in Nexts : [does |-> d, phase |-> "name", next |-> f] \in DeckTask
  /\ \A id \in Ids : [does |-> "rename", phase |-> "push", id |-> id] \in DeckTask
BY DEF DeckTask

LEMMA TaskParts ==
  ASSUME NEW t \in DeckTask
  PROVE  /\ t.phase \in {"take", "fire", "run", "name", "push"}
         /\ t.phase \in {"take", "fire", "run"} => t.does = "press" /\ t.key \in Keys
         /\ t.phase \in {"take", "fire"} => t.engine \in BOOLEAN
         /\ t.phase = "fire" => t.id \in Ids
         /\ t.phase = "run" => t.run \in Nat
         /\ t.phase = "name" => t.next \in Nexts
         /\ t.phase = "push" => t.id \in Ids /\ t.does = "rename"
BY DEF DeckTask

LEMMA CommandParts ==
  ASSUME NEW cmd \in DeckCommand
  PROVE  cmd.what \in {"connect", "disconnect", "paint"} /\ (cmd.what = "paint" => cmd.faces \in Faces)
BY DEF DeckCommand

LEMMA NextsType ==
  ASSUME NEW S \in SUBSET Keys, NEW f \in [S -> Ids \cup {Blank}] PROVE f \in Nexts
BY DEF Nexts
LEMMA FacesType ==
  ASSUME NEW S \in SUBSET Keys, NEW f \in [S -> Names] PROVE f \in Faces
BY DEF Faces

LEMMA NamesThere ==
  ASSUME MacrosOf(macros), NEW id, NEW gone \in {Blank, Gone}
  PROVE  NameOf(id, gone) \in Names /\ NewName \in Names
BY DEF NameOf, Names, MacrosOf

\* A queue of the deck's, longer or shorter.
LEMMA TaskSpawns ==
  ASSUME DeckQueues, NEW task \in DeckTask, Spawn(task) PROVE deckTasks' \in Seq(DeckTask)
BY DEF Spawn, DeckQueues
LEMMA TaskGoesOn ==
  ASSUME DeckQueues, NEW i \in DOMAIN deckTasks, NEW task \in DeckTask, Becoming(i, task) PROVE deckTasks' \in Seq(DeckTask)
BY DEF Becoming, DeckQueues
LEMMA TaskEnds ==
  ASSUME DeckQueues, NEW i \in DOMAIN deckTasks, deckTasks' = RemoveAt(deckTasks, i) PROVE deckTasks' \in Seq(DeckTask)
BY RemovedAt DEF DeckQueues
LEMMA ThreadTold ==
  ASSUME DeckQueues, NEW cmd \in DeckCommand, TellThread(cmd) PROVE deckQueue' \in Seq(DeckCommand)
BY DEF TellThread, DeckQueues

LEMMA Roomy == DeckMade /\ Trouble /\ UNCHANGED deckMoves =>
                 deckMoves' \in Nat /\ deckTrouble' \in Nat /\ deckMoves' + deckTrouble' <= MaxDeckMoves
               /\ deckTrouble' # 0
BY DeckAssumption DEF DeckMade, Trouble, Room

LEMMA KeyTyped ==
  ASSUME DeckTyped, NEW k \in Keys, KeyDown(k) \/ KeyUp(k)
  PROVE  DeckTyped'
<1>1. CASE KeyDown(k)
  <2>1. deckHeld' \in SUBSET Keys /\ deckReports' \in Seq(SUBSET Keys)
    BY <1>1 DEF KeyDown, ReportKeys, DeckTyped, DeckMade, DeckQueues
  <2>2. deckMoves' \in Nat /\ deckMoves' + deckTrouble <= MaxDeckMoves
    BY <1>1, DeckAssumption DEF KeyDown, Room, DeckTyped, DeckMade
  <2>3. deckPressed' \in [Keys -> Int]
    BY <1>1 DEF KeyDown, DeckTyped, DeckMade
  <2>. QED BY <1>1, <2>1, <2>2, <2>3 DEF KeyDown, DeckTyped, DeckMade, DeckQueues, macroVars, deckConfig, deckThread
<1>2. CASE KeyUp(k)
  <2>1. deckHeld' \in SUBSET Keys /\ deckReports' \in Seq(SUBSET Keys)
    BY <1>2 DEF KeyUp, ReportKeys, DeckTyped, DeckMade, DeckQueues
  <2>. QED BY <1>2, <2>1
       DEF KeyUp, DeckTyped, DeckMade, DeckQueues, macroVars, deckConfig, deckThread, deckBounds, deckHistory
<1>. QED BY <1>1, <1>2

LEMMA PlugTyped == DeckTyped /\ (PlugPulled \/ PlugBack) => DeckTyped'
<1>. SUFFICES ASSUME DeckTyped, PlugPulled \/ PlugBack PROVE DeckTyped'
  OBVIOUS
<1>1. CASE PlugPulled
  <2>1. /\ deckMoves' \in Nat /\ deckTrouble' \in Nat /\ deckMoves' + deckTrouble' <= MaxDeckMoves
    BY <1>1, Roomy DEF PlugPulled, DeckTyped
  <2>2. deckReports' \in Seq(SUBSET Keys)
    BY <1>1 DEF PlugPulled
  <2>. QED BY <1>1, <2>1, <2>2
       DEF PlugPulled, DeckTyped, DeckMade, DeckQueues, macroVars, deckConfig, deckThread, deckHistory
<1>2. CASE PlugBack
  BY <1>2 DEF PlugBack, DeckTyped, DeckMade, DeckQueues, macroVars, deckConfig, deckThread, deckBounds, deckHistory
<1>. QED BY <1>1, <1>2

LEMMA OpenTyped ==
  ASSUME DeckTyped, Open
  PROVE  /\ deckOpen' \in BOOLEAN /\ deckDown' \in SUBSET Keys /\ deckReports' \in Seq(SUBSET Keys)
         /\ deckFaces' \in [Keys -> Names] /\ deckPending' \in [Keys -> Names] \cup {NoFaces}
         /\ deckEvents' \in Seq(DeckEvent) /\ deckPressed' \in [Keys -> Int] /\ deckMet' \in SUBSET Keys
<1>1. deckFaces' \in [Keys -> Names]
  BY DEF Open, DeckTyped, DeckMade, Blanks, Names
<1>2. deckEvents' \in Seq(DeckEvent)
  BY DEF Open, DeckTyped, DeckQueues, DeckEvent
<1>3. deckPressed' \in [Keys -> Int]
  BY DEF Open, DeckTyped, DeckMade
<1>. QED BY <1>1, <1>2, <1>3 DEF Open, DeckTyped, DeckMade

LEMMA ThreadTyped ==
  DeckTyped /\ (Command \/ FindAgain \/ ReadKeys \/ ReadFails) => DeckTyped'
<1>. SUFFICES ASSUME DeckTyped, Command \/ FindAgain \/ ReadKeys \/ ReadFails PROVE DeckTyped'
  OBVIOUS
<1>1. CASE Command
  <2>. DEFINE cmd == Head(deckQueue)
  <2>1. cmd \in DeckCommand /\ deckQueue' \in Seq(DeckCommand)
    BY <1>1 DEF Command, DeckTyped, DeckQueues
  <2>2. (cmd.what = "paint" => cmd.faces \in Faces)
    BY <2>1, CommandParts
  <2>. HIDE DEF cmd
  <2>3. /\ deckWanted' \in BOOLEAN /\ deckOpen' \in BOOLEAN /\ deckDown' \in SUBSET Keys
        /\ deckReports' \in Seq(SUBSET Keys)
        /\ deckFaces' \in [Keys -> Names] /\ deckPending' \in [Keys -> Names] \cup {NoFaces}
        /\ deckEvents' \in Seq(DeckEvent) /\ deckPressed' \in [Keys -> Int] /\ deckMet' \in SUBSET Keys
    <3>1. CASE Connect
      <4>1. CASE Open
        BY <3>1, <4>1, OpenTyped DEF Connect
      <4>2. CASE StaysShut
        BY <3>1, <4>2 DEF Connect, StaysShut, DeckTyped, DeckMade, DeckQueues
      <4>. QED BY <3>1, <4>1, <4>2 DEF Connect
    <3>2. CASE Disconnect
      BY <3>2 DEF Disconnect, DeckTyped, DeckMade, DeckQueues
    <3>3. CASE cmd.what = "paint" /\ Paint(cmd.faces)
      <4>1. PICK S \in SUBSET Keys : cmd.faces \in [S -> Names]
        BY <2>2, <3>3 DEF Faces
      <4>2. deckFaces \in [Keys -> Names]
        BY DEF DeckTyped, DeckMade
      <4>3. deckFaces' \in [Keys -> Names]
        <5>. DEFINE faces == cmd.faces
        <5>1. faces \in [S -> Names]
          BY <4>1
        <5>2. deckFaces' = [k \in Keys |-> IF deckOpen /\ k \in DOMAIN faces THEN faces[k] ELSE deckFaces[k]]
          BY <3>3 DEF Paint
        <5>. HIDE DEF faces
        <5>. QED BY <4>2, <5>1, <5>2
      <4>. QED BY <3>3, <4>3 DEF Paint, DeckTyped, DeckMade, DeckQueues
    <3>4. CASE cmd.what = "paint" /\ DOMAIN cmd.faces = Keys /\ Keep(cmd.faces)
      <4>1. cmd.faces \in [Keys -> Names]
        BY <2>2, <3>4 DEF Faces
      <4>. QED BY <3>4, <4>1 DEF Keep, DeckTyped, DeckMade, DeckQueues
    <3>. QED BY <1>1, <3>1, <3>2, <3>3, <3>4 DEF Command, cmd
  <2>. QED BY <1>1, <2>1, <2>3 DEF Command, DeckTyped, DeckMade, DeckQueues, macroVars, deckConfig, deckBounds
<1>2. CASE FindAgain
  <2>1. /\ deckOpen' \in BOOLEAN /\ deckDown' \in SUBSET Keys /\ deckReports' \in Seq(SUBSET Keys)
        /\ deckFaces' \in [Keys -> Names] /\ deckPending' \in [Keys -> Names] \cup {NoFaces}
        /\ deckEvents' \in Seq(DeckEvent) /\ deckPressed' \in [Keys -> Int] /\ deckMet' \in SUBSET Keys
    BY <1>2, OpenTyped DEF FindAgain
  <2>. QED BY <1>2, <2>1 DEF FindAgain, DeckTyped, DeckMade, DeckQueues, macroVars, deckConfig, deckBounds
<1>3. CASE ReadKeys
  <2>. DEFINE N == NewlyPressed(deckDown, deckDown')
  <2>1. deckReports' \in Seq(SUBSET Keys) /\ deckDown' \in SUBSET Keys
    BY <1>3, ReportRead DEF ReadKeys, DeckTyped
  <2>2. N \in SUBSET Keys
    BY <2>1 DEF NewlyPressed
  <2>3. deckEvents' = deckEvents \o SetToSeq({[what |-> "pressed", key |-> x] : x \in N})
    BY <1>3 DEF ReadKeys
  <2>. HIDE DEF N
  <2>4. deckEvents' \in Seq(DeckEvent)
    BY <2>2, <2>3, PressesQueued DEF DeckTyped
  <2>. QED BY <1>3, <2>1, <2>4
       DEF ReadKeys, DeckTyped, DeckMade, DeckQueues, macroVars, deckConfig, deckBounds, deckHistory
<1>4. CASE ReadFails
  BY <1>4 DEF ReadFails, DeckTyped, DeckMade, DeckQueues, macroVars, deckConfig, deckDevice, deckBounds, deckHistory
<1>. QED BY <1>1, <1>2, <1>3, <1>4

LEMMA ChangesTyped ==
  ASSUME DeckMade, NEW ks \in SUBSET Keys, Changes(ks) PROVE deckCrossed' \in SUBSET Keys
BY DEF DeckMade, Changes

LEMMA WindowTyped ==
  DeckInv /\ (SyncTarget \/ HandleEvent \/ OpenShow \/ Switch) => DeckTyped'
<1>. SUFFICES ASSUME DeckInv, SyncTarget \/ HandleEvent \/ OpenShow \/ Switch PROVE DeckTyped'
  OBVIOUS
<1>1. DeckQueues /\ DeckMade
  BY DEF DeckInv
<1>2. CASE SyncTarget
  <2>1. [what |-> IF deckOn THEN "connect" ELSE "disconnect"] \in DeckCommand
    BY DEF DeckCommand
  <2>2. deckQueue' \in Seq(DeckCommand)
    BY <1>1, <1>2, <2>1, ThreadTold DEF SyncTarget
  <2>. QED BY <1>1, <1>2, <2>2
       DEF SyncTarget, DeckTyped, DeckMade, DeckQueues, macroVars, deckConfig, deckThread, deckDevice, deckBounds, deckHistory
<1>3. CASE HandleEvent
  <2>. DEFINE event == Head(deckEvents)
  <2>1. event \in DeckEvent /\ deckEvents' \in Seq(DeckEvent)
    BY <1>1, <1>3, EventHandled DEF HandleEvent
  <2>2. deckTasks' \in Seq(DeckTask)
    <3>1. CASE AfterOpening \/ PaintAll
      <4>1. CASE UNCHANGED deckTasks
        BY <1>1, <4>1 DEF DeckQueues
      <4>2. CASE PaintAll
        <5>. DEFINE next == [k \in Keys |-> NextStep(k)]
        <5>1. next \in [Keys -> Ids \cup {Blank}]
          BY NextStepIs DEF DeckInv
        <5>. HIDE DEF next
        <5>2. next \in Nexts
          BY <5>1, NextsType
        <5>3. [does |-> "all", phase |-> "name", next |-> next] \in DeckTask
          BY <5>2, TaskTypes
        <5>4. Spawn([does |-> "all", phase |-> "name", next |-> next])
          BY <4>2 DEF PaintAll, next
        <5>. QED BY <1>1, <5>3, <5>4, TaskSpawns
      <4>. QED BY <3>1, <4>1, <4>2 DEF AfterOpening
    <3>2. CASE event.what = "pressed" /\ Spawn([does |-> "press", phase |-> "take", key |-> event.key, engine |-> macroLinked])
      <4>1. event.key \in Keys /\ macroLinked \in BOOLEAN
        BY <2>1, <3>2 DEF DeckEvent, DeckInv, MacroInv, MacroRestOK
      <4>. HIDE DEF event
      <4>2. [does |-> "press", phase |-> "take", key |-> event.key, engine |-> macroLinked] \in DeckTask
        BY <4>1, TaskTypes
      <4>. QED BY <1>1, <3>2, <4>2, TaskSpawns
    <3>. QED BY <1>3, <3>1, <3>2 DEF HandleEvent
  <2>. QED BY <1>1, <1>3, <2>1, <2>2
       DEF HandleEvent, DeckTyped, DeckMade, DeckQueues, deckConfig, deckThread, deckDevice, deckBounds, deckHistory
<1>4. CASE OpenShow
  <2>1. DOMAIN macros' \subseteq Ids /\ deckOn' \in BOOLEAN
    BY <1>4 DEF OpenShow, Ids
  <2>2. deckEvents' \in Seq(DeckEvent)
    BY <1>1, <1>4 DEF OpenShow, DeckQueues, DeckEvent
  <2>3. deckCrossed' \subseteq Keys
    BY <1>1, <1>4 DEF OpenShow, DeckMade
  <2>4. deckMoves' \in Nat /\ deckTrouble' \in Nat /\ deckMoves' + deckTrouble' <= MaxDeckMoves
    BY <1>1, <1>4, Roomy DEF OpenShow
  <2>. QED BY <1>1, <1>4, <2>1, <2>2, <2>3, <2>4 DEF OpenShow, DeckTyped, DeckMade, DeckQueues, deckThread, deckDevice
<1>5. CASE Switch
  <2>1. deckOn' \in BOOLEAN
    BY <1>1, <1>5 DEF Switch, DeckMade
  <2>2. deckQueue' \in Seq(DeckCommand)
    <3>1. [what |-> "connect"] \in DeckCommand /\ [what |-> "disconnect"] \in DeckCommand
      BY DEF DeckCommand
    <3>2. UNCHANGED deckQueue => deckQueue' \in Seq(DeckCommand)
      BY <1>1 DEF DeckQueues
    <3>. QED BY <1>1, <1>5, <3>1, <3>2, ThreadTold DEF Switch
  <2>4. deckMoves' \in Nat /\ deckTrouble' \in Nat /\ deckMoves' + deckTrouble' <= MaxDeckMoves
    BY <1>1, <1>5, Roomy DEF Switch
  <2>. QED BY <1>1, <1>5, <2>1, <2>2, <2>4
       DEF Switch, DeckTyped, DeckMade, DeckQueues, macroVars, deckThread, deckDevice, deckHistory
<1>. QED BY <1>2, <1>3, <1>4, <1>5

LEMMA MacrosTyped ==
  ASSUME DeckInv, MacroStep \/ (\E k \in Keys : EditButton(k)) \/ (\E id \in DOMAIN macros : Rename(id) \/ Delete(id))
  PROVE  DeckTyped'
<1>1. DeckQueues /\ DeckMade
  BY DEF DeckInv
<1>2. CASE MacroStep
  <2>1. UNCHANGED macros
    BY <1>2, RunStepInv DEF MacroStep, LinkLost, DeckInv
  <2>. QED BY <1>1, <1>2, <2>1 DEF MacroStep, DeckTyped, DeckMade, DeckQueues, deckVars, deckConfig, deckThread,
                                   deckDevice, deckBounds, deckHistory
<1>3. ASSUME NEW k \in Keys, EditButton(k) PROVE DeckTyped'
  <2>1. deckCrossed' \in SUBSET Keys
    <3>1. {k} \in SUBSET Keys /\ Changes({k})
      BY <1>3 DEF EditButton
    <3>. QED BY <1>1, <3>1, ChangesTyped
  <2>2. deckTasks' \in Seq(DeckTask)
    <3>. DEFINE next == [x \in {k} |-> NextStep(k)']
    <3>1. NextStep(k)' \in Ids \cup {Blank}
      <4>1. ButtonsInv'
        BY <1>3, EditButtons
      <4>. DEFINE steps == deckSteps'[k]  at == deckAt'[k]
      <4>2. steps \in Seq(Ids) /\ at \in Nat
        BY <4>1 DEF ButtonsInv, AtTurn
      <4>3. NextStep(k)' = IF steps = <<>> THEN Blank ELSE steps[IF at < Len(steps) THEN at + 1 ELSE Len(steps)]
        BY DEF NextStep
      <4>. HIDE DEF steps, at
      <4>4. steps # <<>> => (IF at < Len(steps) THEN at + 1 ELSE Len(steps)) \in 1..Len(steps)
        BY <4>2
      <4>5. steps # <<>> => steps[IF at < Len(steps) THEN at + 1 ELSE Len(steps)] \in Ids
        BY <4>2, <4>4
      <4>. QED BY <4>3, <4>5
    <3>2. next \in [{k} -> Ids \cup {Blank}] /\ {k} \in SUBSET Keys
      BY <3>1
    <3>3. Spawn([does |-> "edit", phase |-> "name", next |-> next])
      BY <1>3 DEF EditButton
    <3>. HIDE DEF next
    <3>4. next \in Nexts
      BY <3>2, NextsType
    <3>5. [does |-> "edit", phase |-> "name", next |-> next] \in DeckTask
      BY <3>4, TaskTypes
    <3>. QED BY <1>1, <3>3, <3>5, TaskSpawns
  <2>3. deckMoves' \in Nat /\ deckTrouble' \in Nat /\ deckMoves' + deckTrouble' <= MaxDeckMoves
    BY <1>1, <1>3, Roomy DEF EditButton
  <2>. QED BY <1>1, <1>3, <2>1, <2>2, <2>3
       DEF EditButton, DeckTyped, DeckMade, DeckQueues, macroVars, deckThread, deckDevice
<1>4. ASSUME NEW id \in DOMAIN macros, Rename(id) PROVE DeckTyped'
  <2>1. deckTasks' \in Seq(DeckTask)
    <3>1. [does |-> "rename", phase |-> "push", id |-> id] \in DeckTask
      BY <1>1, TaskTypes DEF DeckMade
    <3>. QED BY <1>1, <1>4, <3>1, TaskSpawns DEF Rename
  <2>2. DOMAIN macros' = DOMAIN macros
    BY <1>4 DEF Rename
  <2>3. deckMoves' \in Nat /\ deckTrouble' \in Nat /\ deckMoves' + deckTrouble' <= MaxDeckMoves
    BY <1>1, <1>4, Roomy DEF Rename
  <2>. QED BY <1>1, <1>4, <2>1, <2>2, <2>3
       DEF Rename, DeckTyped, DeckMade, DeckQueues, deckConfig, deckThread, deckDevice, deckHistory
<1>5. ASSUME NEW id \in DOMAIN macros, Delete(id) PROVE DeckTyped'
  <2>2. DOMAIN macros' \subseteq Ids
    BY <1>1, <1>5 DEF Delete, DeleteMacro, DeckMade
  <2>3. deckMoves' \in Nat /\ deckTrouble' \in Nat /\ deckMoves' + deckTrouble' <= MaxDeckMoves
    BY <1>1, <1>5, Roomy DEF Delete
  <2>. QED BY <1>1, <1>5, <2>2, <2>3
       DEF Delete, DeckTyped, DeckMade, DeckQueues, deckConfig, deckThread, deckDevice, deckHistory
<1>. QED BY <1>2, <1>3, <1>4, <1>5

LEMMA TaskTyped ==
  ASSUME DeckInv, NEW i \in DOMAIN deckTasks, Take(i) \/ Fire(i) \/ ReadNext(i) \/ PaintNames(i) \/ PushName(i)
  PROVE  DeckTyped'
<1>. DEFINE task == deckTasks[i]
<1>1. DeckQueues /\ DeckMade /\ task \in DeckTask
  BY DEF DeckInv, DeckQueues
<1>. HIDE DEF task
<1>2. CASE Take(i)
  <2>. DEFINE k == task.key  id == NextStep(k)
  <2>1. task.phase = "take" /\ k \in Keys /\ task.engine \in BOOLEAN
    BY <1>1, <1>2, TaskParts DEF Take, task
  <2>2. id # Blank => id \in Ids
    BY <2>1, NextStepIs DEF DeckInv
  <2>. HIDE DEF k
  <2>3. CASE deckTasks' = RemoveAt(deckTasks, i) /\ UNCHANGED <<deckAt, deckPressed, deckFired, deckCrossed>>
    <3>1. deckTasks' \in Seq(DeckTask)
      BY <1>1, <2>3, TaskEnds
    <3>. QED BY <1>1, <1>2, <2>3, <3>1
         DEF Take, DeckTyped, DeckMade, DeckQueues, macroVars, deckThread, deckDevice, deckBounds
  <2>4. CASE /\ id # Blank /\ deckPressed' = [deckPressed EXCEPT ![k] = @ - 1] /\ Changes({k})
             /\ Becoming(i, [does |-> "press", key |-> k, engine |-> task.engine, phase |-> "fire", id |-> id])
    <3>1. deckTasks' \in Seq(DeckTask)
      <4>1. [does |-> "press", key |-> k, engine |-> task.engine, phase |-> "fire", id |-> id] \in DeckTask
        BY <2>1, <2>2, <2>4, TaskTypes
      <4>. QED BY <1>1, <2>4, <4>1, TaskGoesOn
    <3>2. deckCrossed' \in SUBSET Keys
      BY <1>1, <2>1, <2>4, ChangesTyped
    <3>3. deckPressed' \in [Keys -> Int]
      BY <1>1, <2>1, <2>4 DEF DeckMade
    <3>. QED BY <1>1, <1>2, <3>1, <3>2, <3>3
         DEF Take, DeckTyped, DeckMade, DeckQueues, macroVars, deckThread, deckDevice, deckBounds
  <2>. QED BY <1>2, <2>3, <2>4 DEF Take, k, task
<1>3. CASE Fire(i)
  <2>1. task.phase = "fire" /\ task.key \in Keys
    BY <1>1, <1>3, TaskParts DEF Fire, task
  <2>2. PICK run \in Nat : Becoming(i, [does |-> "press", phase |-> "run", key |-> task.key, run |-> run])
    <3>1. Len(macroRuns) + 1 \in Nat /\ 0 \in Nat
      BY DEF DeckInv, MacroInv, RunsInv
    <3>. QED BY <1>3, <3>1 DEF Fire, task
  <2>3. deckTasks' \in Seq(DeckTask)
    BY <1>1, <2>1, <2>2, TaskTypes, TaskGoesOn
  <2>. QED BY <1>1, <1>3, <2>3
       DEF Fire, DeckTyped, DeckMade, DeckQueues, deckConfig, deckThread, deckDevice, deckBounds, deckHistory
<1>4. CASE ReadNext(i)
  <2>. DEFINE k == task.key  next == [x \in {k} |-> NextStep(k)]
  <2>1. task.phase = "run" /\ k \in Keys
    BY <1>1, <1>4, TaskParts DEF ReadNext, task
  <2>2. next \in [{k} -> Ids \cup {Blank}] /\ {k} \in SUBSET Keys
    BY <2>1, NextStepIs DEF DeckInv
  <2>3. Becoming(i, [does |-> "press", phase |-> "name", next |-> next])
    BY <1>4 DEF ReadNext, task
  <2>. HIDE DEF next
  <2>4. [does |-> "press", phase |-> "name", next |-> next] \in DeckTask
    BY <2>2, NextsType, TaskTypes
  <2>5. deckTasks' \in Seq(DeckTask)
    BY <1>1, <2>3, <2>4, TaskGoesOn
  <2>. QED BY <1>1, <1>4, <2>5
       DEF ReadNext, DeckTyped, DeckMade, DeckQueues, macroVars, deckConfig, deckThread, deckDevice, deckBounds, deckHistory
<1>5. CASE PaintNames(i)
  <2>. DEFINE gone == IF task.does = "edit" THEN Blank ELSE Gone
              faces == [k \in DOMAIN task.next |-> NameOf(task.next[k], gone)]
  <2>1. task.next \in Nexts /\ gone \in {Blank, Gone}
    BY <1>1, <1>5, TaskParts DEF PaintNames, task
  <2>2. TellThread([what |-> "paint", faces |-> faces]) /\ deckTasks' = RemoveAt(deckTasks, i)
    BY <1>5 DEF PaintNames, task
  <2>. HIDE DEF gone
  <2>3. PICK S \in SUBSET Keys : task.next \in [S -> Ids \cup {Blank}]
    BY <2>1 DEF Nexts
  <2>4. faces \in [S -> Names]
    BY <2>1, <2>3, NamesThere DEF DeckInv, MacroInv, RunsInv
  <2>. HIDE DEF faces
  <2>5. [what |-> "paint", faces |-> faces] \in DeckCommand
    BY <2>4, FacesType DEF DeckCommand
  <2>6. deckQueue' \in Seq(DeckCommand) /\ deckTasks' \in Seq(DeckTask)
    BY <1>1, <2>2, <2>5, ThreadTold, TaskEnds
  <2>. QED BY <1>1, <1>5, <2>6
       DEF PaintNames, DeckTyped, DeckMade, DeckQueues, macroVars, deckConfig, deckThread, deckDevice, deckBounds, deckHistory
<1>6. CASE PushName(i)
  <2>. DEFINE shows == {k \in Keys : NextStep(k) = task.id}
              one(k) == [what |-> "paint", faces |-> [x \in {k} |-> NewName]]
              new == {one(k) : k \in shows}
  <2>1. deckQueue' = deckQueue \o SetToSeq(new) /\ deckTasks' = RemoveAt(deckTasks, i)
    BY <1>6 DEF PushName, task
  <2>2. new \subseteq DeckCommand
    <3>1. ASSUME NEW k \in Keys PROVE one(k) \in DeckCommand
      <4>. DEFINE face == [x \in {k} |-> NewName]
      <4>1. face \in [{k} -> Names] /\ {k} \in SUBSET Keys
        BY DEF Names
      <4>. HIDE DEF face
      <4>2. face \in Faces
        BY <4>1, FacesType
      <4>3. [what |-> "paint", faces |-> face] \in DeckCommand
        BY <4>2 DEF DeckCommand
      <4>. QED BY <4>3 DEF face
    <3>. HIDE DEF one
    <3>. QED BY <3>1
  <2>3. IsFiniteSet(new)
    <3>. DEFINE f == [k \in shows |-> one(k)]
    <3>1. f \in Surjection(shows, new)
      BY DEF Surjection
    <3>2. shows \in SUBSET Keys
      OBVIOUS
    <3>. HIDE DEF f, new, shows
    <3>3. IsFiniteSet(shows)
      BY <3>2, DeckAssumption, FS_Subset
    <3>. QED BY <3>1, <3>3, FS_Surjection
  <2>. HIDE DEF new
  <2>4. SetToSeq(new) \in Seq(DeckCommand)
    BY <2>2, <2>3, SetInTurn
  <2>5. deckQueue' \in Seq(DeckCommand) /\ deckTasks' \in Seq(DeckTask)
    BY <1>1, <2>1, <2>4, TaskEnds DEF DeckQueues
  <2>. QED BY <1>1, <1>6, <2>5
       DEF PushName, DeckTyped, DeckMade, DeckQueues, macroVars, deckConfig, deckThread, deckDevice, deckBounds, deckHistory
<1>. QED BY <1>2, <1>3, <1>4, <1>5, <1>6

-----------------------------------------------------------------------------
(* The presses.                                                            *)

LEMMA ComingIs ==
  ASSUME DeckQueues, NEW k PROVE Coming(k) \in Nat /\ Unseen(k) \in {0, 1}
<1>1. /\ Cardinality(Ups(k)) \in Nat /\ Cardinality(Pressings(k)) \in Nat /\ Cardinality(Taking(k)) \in Nat
  BY ComingParts
<1>. QED BY <1>1 DEF Coming, Unseen

LEMMA PressOf ==
  ASSUME PressInv, DeckTyped, NEW k \in Keys
  PROVE  deckPressed[k] \in Int /\ Coming(k) \in Nat /\ Unseen(k) \in {0, 1} /\ deckPressed[k] >= Coming(k) + Unseen(k)
BY ComingIs DEF PressInv, DeckTyped, DeckMade

\* Presses go on from one place to the next, or stay where they are.
LEMMA PressStays ==
  ASSUME PressInv, UNCHANGED <<deckPressed, deckHeld, deckOpen, deckPlugged, deckMet>>, LastReport' = LastReport,
         \A k \in Keys : Coming(k)' = Coming(k),
         deckTrouble' = 0 => /\ deckTrouble = 0 /\ UNCHANGED <<deckOn, deckSteps>>
                             /\ deckReports = <<>> => deckReports' = <<>>
                             /\ \A i \in DOMAIN deckQueue' : deckQueue'[i].what # "disconnect"
  PROVE  PressInv'
<1>1. \A k \in Keys : Unseen(k)' = Unseen(k)
  BY DEF Unseen
<1>2. \A k \in Keys : deckPressed'[k] >= Coming(k)' + Unseen(k)'
  BY <1>1 DEF PressInv
<1>3. ASSUME deckTrouble' = 0
      PROVE  /\ deckPlugged' /\ deckOn' /\ \A i \in DOMAIN deckQueue' : deckQueue'[i].what # "disconnect"
             /\ ~deckOpen' => deckReports' = <<>>
             /\ \A k \in Keys \ deckMet' : /\ deckSteps'[k] # <<>> => deckPressed'[k] = Coming(k)'
                                           /\ deckOpen' => (k \in deckHeld' <=> k \in LastReport')
  BY <1>3 DEF PressInv
<1>. QED BY <1>2, <1>3 DEF PressInv

\* The same reports and events, and as many tasks that have not begun.
LEMMA TasksOnly ==
  ASSUME DeckQueues, UNCHANGED <<deckReports, deckDown, deckEvents>>,
         \A k \in Keys : Cardinality(Taking(k))' = Cardinality(Taking(k))
  PROVE  LastReport' = LastReport /\ \A k \in Keys : Coming(k)' = Coming(k)
<1>1. \A k : Ups(k)' = Ups(k) /\ Pressings(k)' = Pressings(k)
  BY SameComing
<1>2. \A k \in Keys : Coming(k)' = Coming(k)
  BY <1>1 DEF Coming
<1>. QED BY <1>2, SameComing

LEMMA KeyPress ==
  ASSUME DeckInv, NEW k \in Keys, KeyDown(k) \/ KeyUp(k)
  PROVE  PressInv'
<1>1. DeckQueues /\ DeckMade /\ DeckTyped /\ PressInv
  BY DEF DeckInv, DeckTyped
<1>2. /\ UNCHANGED <<deckOn, deckSteps, deckQueue, deckDown, deckOpen, deckPlugged, deckEvents, deckTasks, deckTrouble, deckMet>>
      /\ ReportKeys(deckHeld')
  BY DEF KeyDown, KeyUp, deckConfig, deckThread, deckBounds, deckHistory
<1>3. deckHeld' \in SUBSET Keys
  BY <1>1 DEF KeyDown, KeyUp, DeckMade
<1>4. \A x : Pressings(x)' = Pressings(x) /\ Taking(x)' = Taking(x)
  BY <1>2, SameComing
<1>5. \A x \in Keys : deckPressed[x] \in Int /\ Coming(x) \in Nat /\ deckPressed[x] >= Coming(x) + Unseen(x)
  BY <1>1, PressOf
<1>6. CASE deckOpen /\ deckPlugged
  <2>1. deckReports' = Append(deckReports, deckHeld')
    BY <1>2, <1>6 DEF ReportKeys
  <2>2. LastReport' = deckHeld'
    BY <1>1, <1>2, <1>3, <2>1, ReportMade
  <2>3. ASSUME NEW x \in Keys
        PROVE  Coming(x)' = Coming(x) + (IF x \in deckHeld' \ LastReport THEN 1 ELSE 0) /\ Unseen(x)' = 0
    <3>1. Cardinality(Ups(x))' = Cardinality(Ups(x)) + (IF x \in deckHeld' \ LastReport THEN 1 ELSE 0)
      BY <1>1, <1>2, <1>3, <2>1, ReportMade
    <3>2. /\ Cardinality(Ups(x)) \in Nat /\ Cardinality(Pressings(x)) \in Nat /\ Cardinality(Taking(x)) \in Nat
      BY <1>1, ComingParts
    <3>3. Coming(x)' = Coming(x) + (IF x \in deckHeld' \ LastReport THEN 1 ELSE 0)
      BY <1>4, <3>1, <3>2 DEF Coming
    <3>. QED BY <2>2, <3>3 DEF Unseen
  <2>4. \A x \in Keys : Unseen(x) = IF x \in deckHeld \ LastReport THEN 1 ELSE 0
    BY <1>6 DEF Unseen
  <2>5. deckTrouble = 0 => /\ deckPlugged /\ deckOn /\ \A i \in DOMAIN deckQueue : deckQueue[i].what # "disconnect"
                           /\ \A x \in Keys \ deckMet : /\ deckSteps[x] # <<>> => deckPressed[x] = Coming(x)
                                                        /\ x \in deckHeld <=> x \in LastReport
    BY <1>1, <1>6 DEF PressInv
  <2>6. CASE KeyUp(k)
    <3>1. deckHeld' = deckHeld \ {k} /\ UNCHANGED deckPressed
      BY <2>6 DEF KeyUp, deckHistory
    <3>2. \A x \in Keys : deckPressed'[x] >= Coming(x)' + Unseen(x)'
      BY <1>5, <2>3, <2>4, <3>1
    <3>3. ASSUME deckTrouble = 0, NEW x \in Keys \ deckMet
          PROVE  /\ deckSteps[x] # <<>> => deckPressed'[x] = Coming(x)'
                 /\ x \in deckHeld' <=> x \in LastReport'
      BY <1>5, <2>2, <2>3, <2>5, <3>1, <3>3
    <3>. QED BY <1>2, <1>6, <2>5, <3>2, <3>3 DEF PressInv
  <2>7. CASE KeyDown(k)
    <3>1. k \notin deckHeld /\ deckHeld' = deckHeld \cup {k} /\ deckPressed' = [deckPressed EXCEPT ![k] = @ + 1]
      BY <1>6, <2>7 DEF KeyDown
    <3>2. \A x \in Keys : deckPressed'[x] = IF x = k THEN deckPressed[k] + 1 ELSE deckPressed[x]
      BY <1>1, <3>1 DEF DeckMade
    <3>3. \A x \in Keys : deckPressed'[x] >= Coming(x)' + Unseen(x)'
      <4>1. \A x \in Keys : x # k => (x \in deckHeld' <=> x \in deckHeld)
        BY <3>1
      <4>. QED BY <1>5, <2>3, <2>4, <3>1, <3>2, <4>1
    <3>4. ASSUME deckTrouble = 0, NEW x \in Keys \ deckMet
          PROVE  /\ deckSteps[x] # <<>> => deckPressed'[x] = Coming(x)'
                 /\ x \in deckHeld' <=> x \in LastReport'
      BY <1>5, <2>2, <2>3, <2>5, <3>1, <3>2, <3>4
    <3>. QED BY <1>2, <1>6, <2>5, <3>3, <3>4 DEF PressInv
  <2>. QED BY <2>6, <2>7
<1>7. CASE ~(deckOpen /\ deckPlugged)
  <2>1. UNCHANGED <<deckReports, deckPressed>>
    BY <1>2, <1>7 DEF ReportKeys, KeyDown, KeyUp, deckHistory
  <2>2. \A x : Ups(x)' = Ups(x)
    BY <1>2, <2>1, SameComing
  <2>3. \A x : Coming(x)' = Coming(x) /\ Unseen(x)' = 0 /\ Unseen(x) = 0
    BY <1>2, <1>4, <1>7, <2>2 DEF Coming, Unseen
  <2>. QED BY <1>1, <1>2, <1>7, <2>1, <2>3 DEF PressInv
<1>. QED BY <1>6, <1>7

LEMMA OpenPress ==
  ASSUME DeckInv, Open, ~deckOpen, deckPlugged,
         UNCHANGED <<deckPlugged, deckHeld, deckTasks, deckTrouble, deckOn, deckSteps>>,
         deckTrouble = 0 => \A i \in DOMAIN deckQueue' : deckQueue'[i].what # "disconnect"
  PROVE  PressInv'
<1>1. DeckQueues /\ DeckMade /\ DeckTyped /\ PressInv
  BY DEF DeckInv, DeckTyped
<1>2. /\ deckOpen' = TRUE /\ deckDown' = {} /\ deckReports' = <<>>
      /\ deckEvents' = Append(deckEvents, [what |-> "connected"])
      /\ deckPressed' = [k \in Keys |-> IF k \in deckHeld THEN deckPressed[k] + 1 ELSE deckPressed[k]]
      /\ deckMet' = deckMet \cup deckHeld
  BY DEF Open
<1>3. LastReport' = {}
  BY <1>2, ReportsGone
<1>4. ASSUME NEW x \in Keys
      PROVE  /\ Coming(x) = Coming(x)' + Cardinality(Ups(x)) /\ Coming(x)' \in Nat /\ Cardinality(Ups(x)) \in Nat
             /\ Unseen(x)' = IF x \in deckHeld THEN 1 ELSE 0
  <2>1. Cardinality(Ups(x))' = 0
    BY <1>2, ReportsGone
  <2>2. Cardinality(Pressings(x))' = Cardinality(Pressings(x))
    <3>1. [what |-> "connected"] \in DeckEvent
      BY DEF DeckEvent
    <3>. QED BY <1>1, <1>2, <3>1, EventQueued
  <2>3. Taking(x)' = Taking(x)
    BY SameComing
  <2>4. /\ Cardinality(Ups(x)) \in Nat /\ Cardinality(Pressings(x)) \in Nat /\ Cardinality(Taking(x)) \in Nat
    BY <1>1, ComingParts
  <2>5. Unseen(x)' = IF x \in deckHeld THEN 1 ELSE 0
    BY <1>2, <1>3 DEF Unseen
  <2>. QED BY <2>1, <2>2, <2>3, <2>4, <2>5 DEF Coming
<1>5. \A x \in Keys : deckPressed[x] \in Int /\ Coming(x) \in Nat /\ Unseen(x) \in {0, 1} /\ deckPressed[x] >= Coming(x) + Unseen(x)
  BY <1>1, PressOf
<1>6. \A x \in Keys : deckPressed'[x] >= Coming(x)' + Unseen(x)'
  <2>. SUFFICES ASSUME NEW x \in Keys PROVE deckPressed'[x] >= Coming(x)' + Unseen(x)'
    OBVIOUS
  <2>1. deckPressed'[x] = IF x \in deckHeld THEN deckPressed[x] + 1 ELSE deckPressed[x]
    BY <1>2
  <2>. QED BY <1>4, <1>5, <2>1
<1>7. ASSUME deckTrouble = 0, NEW x \in Keys \ deckMet'
      PROVE  /\ deckSteps[x] # <<>> => deckPressed'[x] = Coming(x)'
             /\ x \in deckHeld' <=> x \in LastReport'
  <2>1. deckReports = <<>> /\ x \in Keys \ deckMet /\ x \notin deckHeld
    BY <1>1, <1>2, <1>7 DEF PressInv
  <2>2. Cardinality(Ups(x)) = 0
    <3>1. Ups(x) = {}
      BY <2>1 DEF Ups
    <3>. QED BY <3>1, FS_EmptySet
  <2>3. deckSteps[x] # <<>> => deckPressed[x] = Coming(x)
    BY <1>1, <1>7, <2>1 DEF PressInv
  <2>. QED BY <1>2, <1>3, <1>4, <2>1, <2>2, <2>3
<1>8. deckTrouble = 0 => deckPlugged /\ deckOn
  BY <1>1 DEF PressInv
<1>. QED BY <1>2, <1>6, <1>7, <1>8 DEF PressInv

\* The deck is closed, or its plug pulled or put back.
LEMMA ShutPress ==
  ASSUME DeckInv, UNCHANGED <<deckPressed, deckEvents, deckTasks>>,
         UNCHANGED <<deckReports, deckDown>> \/ deckReports' = <<>>,
         ~(deckOpen' /\ deckPlugged'), deckTrouble' # 0
  PROVE  PressInv'
<1>1. DeckQueues /\ DeckTyped /\ PressInv
  BY DEF DeckInv, DeckTyped
<1>2. ASSUME NEW x \in Keys PROVE Coming(x)' <= Coming(x) /\ Unseen(x)' = 0 /\ Coming(x)' \in Nat
  <2>1. Cardinality(Ups(x))' = Cardinality(Ups(x)) \/ Cardinality(Ups(x))' = 0
    BY ReportsGone, SameComing
  <2>2. Pressings(x)' = Pressings(x) /\ Taking(x)' = Taking(x)
    BY SameComing
  <2>3. /\ Cardinality(Ups(x)) \in Nat /\ Cardinality(Pressings(x)) \in Nat /\ Cardinality(Taking(x)) \in Nat
    BY <1>1, ComingParts
  <2>. QED BY <2>1, <2>2, <2>3 DEF Coming, Unseen
<1>3. \A x \in Keys : deckPressed[x] \in Int /\ Coming(x) \in Nat /\ Unseen(x) \in {0, 1} /\ deckPressed[x] >= Coming(x) + Unseen(x)
  BY <1>1, PressOf
<1>. QED BY <1>2, <1>3 DEF PressInv

LEMMA TakePress ==
  ASSUME DeckInv, NEW i \in DOMAIN deckTasks, Take(i)
  PROVE  PressInv'
<1>. DEFINE task == deckTasks[i]  k == task.key  id == NextStep(k)
<1>1. DeckQueues /\ DeckMade /\ DeckTyped /\ PressInv /\ ButtonsInv /\ task \in DeckTask
  BY DEF DeckInv, DeckTyped, DeckQueues
<1>. HIDE DEF task
<1>2. task.does = "press" /\ task.phase = "take" /\ k \in Keys /\ task.engine \in BOOLEAN
  BY <1>1, TaskParts DEF Take, task
<1>3. /\ UNCHANGED <<deckOn, deckSteps, deckQueue, deckReports, deckDown, deckHeld, deckOpen, deckPlugged, deckEvents,
                     deckTrouble, deckMet>>
  BY DEF Take, deckThread, deckDevice, deckBounds
<1>4. \A x \in Keys : i \in Taking(x) <=> x = k
  BY <1>2 DEF Taking, task
<1>5. CASE /\ deckTasks' = RemoveAt(deckTasks, i) /\ UNCHANGED deckPressed
           /\ ~deckOn \/ id = Blank
  <2>1. \A x \in Keys : Cardinality(Taking(x)) = Cardinality(Taking(x))' + (IF i \in Taking(x) THEN 1 ELSE 0)
    BY <1>1, <1>5, TaskRemoved
  <2>2. ASSUME NEW x \in Keys
        PROVE  Coming(x) = Coming(x)' + (IF x = k THEN 1 ELSE 0) /\ Coming(x) \in Nat /\ Unseen(x)' = Unseen(x)
               /\ Coming(x)' \in Int
    <3>1. Ups(x)' = Ups(x) /\ Pressings(x)' = Pressings(x) /\ LastReport' = LastReport
      BY <1>3, SameComing
    <3>2. /\ Cardinality(Ups(x)) \in Nat /\ Cardinality(Pressings(x)) \in Nat /\ Cardinality(Taking(x)) \in Nat
      BY <1>1, ComingParts
    <3>3. Cardinality(Taking(x)) = Cardinality(Taking(x))' + (IF x = k THEN 1 ELSE 0) /\ Cardinality(Taking(x))' \in Int
      <4>1. Cardinality(Taking(x))' \in Nat
        <5>1. deckTasks' \in Seq(DeckTask)
          BY <1>1, <1>5, TaskEnds
        <5>2. Taking(x)' \in SUBSET (1..Len(deckTasks')) /\ Len(deckTasks') \in Nat
          BY <5>1 DEF Taking
        <5>3. IsFiniteSet(1..Len(deckTasks'))
          BY <5>2, FS_Interval
        <5>. QED BY <5>2, <5>3, FS_Subset, FS_CardinalityType
      <4>. QED BY <1>4, <2>1, <4>1
    <3>. HIDE DEF k
    <3>4. Coming(x) = Coming(x)' + (IF x = k THEN 1 ELSE 0) /\ Coming(x) \in Nat /\ Coming(x)' \in Int
      BY <3>1, <3>2, <3>3 DEF Coming
    <3>. QED BY <1>3, <3>1, <3>4 DEF Unseen
  <2>3. \A x \in Keys : deckPressed[x] \in Int /\ Unseen(x) \in {0, 1} /\ deckPressed[x] >= Coming(x) + Unseen(x)
    BY <1>1, PressOf
  <2>4. \A x \in Keys : deckPressed'[x] >= Coming(x)' + Unseen(x)'
    BY <1>5, <2>2, <2>3
  <2>5. ASSUME deckTrouble = 0, NEW x \in Keys \ deckMet
        PROVE  /\ deckSteps[x] # <<>> => deckPressed'[x] = Coming(x)'
               /\ deckOpen => (x \in deckHeld <=> x \in LastReport')
    <3>1. deckOn
      BY <1>1, <2>5 DEF PressInv
    <3>2. deckSteps[k] = <<>>
      BY <1>1, <1>2, <1>5, <3>1, NextStepIs
    <3>3. LastReport' = LastReport
      BY <1>3, SameComing
    <3>. HIDE DEF k
    <3>. QED BY <1>1, <1>5, <2>2, <2>5, <3>2, <3>3 DEF PressInv
  <2>6. /\ deckTrouble = 0 => deckPlugged /\ deckOn /\ \A j \in DOMAIN deckQueue : deckQueue[j].what # "disconnect"
        /\ deckTrouble = 0 => (~deckOpen => deckReports = <<>>)
    BY <1>1 DEF PressInv
  <2>. QED BY <1>3, <2>4, <2>5, <2>6 DEF PressInv
<1>6. CASE /\ id # Blank /\ deckPressed' = [deckPressed EXCEPT ![k] = @ - 1]
           /\ Becoming(i, [does |-> "press", key |-> k, engine |-> task.engine, phase |-> "fire", id |-> id])
  <2>. DEFINE next == [does |-> "press", key |-> k, engine |-> task.engine, phase |-> "fire", id |-> id]
  <2>0. next \in DeckTask /\ next.phase # "take"
    <3>1. id \in Ids
      BY <1>1, <1>2, <1>6, NextStepIs
    <3>. HIDE DEF k, id
    <3>. QED BY <1>2, <3>1, TaskTypes
  <2>. HIDE DEF next
  <2>1. deckTasks' \in Seq(DeckTask)
        /\ \A x \in Keys : Cardinality(Taking(x)) = Cardinality(Taking(x))' + (IF i \in Taking(x) THEN 1 ELSE 0)
    <3>1. Becoming(i, next)
      BY <1>6 DEF next
    <3>. QED BY <1>1, <1>2, <2>0, <3>1, TaskBecomes
  <2>2. ASSUME NEW x \in Keys
        PROVE  Coming(x) = Coming(x)' + (IF x = k THEN 1 ELSE 0) /\ Coming(x) \in Nat /\ Unseen(x)' = Unseen(x)
               /\ Coming(x)' \in Int
    <3>1. Ups(x)' = Ups(x) /\ Pressings(x)' = Pressings(x) /\ LastReport' = LastReport
      BY <1>3, SameComing
    <3>2. /\ Cardinality(Ups(x)) \in Nat /\ Cardinality(Pressings(x)) \in Nat /\ Cardinality(Taking(x)) \in Nat
      BY <1>1, ComingParts
    <3>3. Cardinality(Taking(x)) = Cardinality(Taking(x))' + (IF x = k THEN 1 ELSE 0) /\ Cardinality(Taking(x))' \in Int
      <4>1. Cardinality(Taking(x))' \in Nat
        <5>2. Taking(x)' \in SUBSET (1..Len(deckTasks')) /\ Len(deckTasks') \in Nat
          BY <2>1 DEF Taking
        <5>3. IsFiniteSet(1..Len(deckTasks'))
          BY <5>2, FS_Interval
        <5>. QED BY <5>2, <5>3, FS_Subset, FS_CardinalityType
      <4>. QED BY <1>4, <2>1, <4>1
    <3>. HIDE DEF k
    <3>4. Coming(x) = Coming(x)' + (IF x = k THEN 1 ELSE 0) /\ Coming(x) \in Nat /\ Coming(x)' \in Int
      BY <3>1, <3>2, <3>3 DEF Coming
    <3>. QED BY <1>3, <3>1, <3>4 DEF Unseen
  <2>3. \A x \in Keys : deckPressed[x] \in Int /\ Unseen(x) \in {0, 1} /\ deckPressed[x] >= Coming(x) + Unseen(x)
    BY <1>1, PressOf
  <2>. HIDE DEF k
  <2>4. \A x \in Keys : deckPressed'[x] = deckPressed[x] - (IF x = k THEN 1 ELSE 0)
    BY <1>1, <1>2, <1>6 DEF DeckMade
  <2>5. \A x \in Keys : deckPressed'[x] >= Coming(x)' + Unseen(x)'
    BY <2>2, <2>3, <2>4
  <2>6. ASSUME deckTrouble = 0, NEW x \in Keys \ deckMet
        PROVE  /\ deckSteps[x] # <<>> => deckPressed'[x] = Coming(x)'
               /\ deckOpen => (x \in deckHeld <=> x \in LastReport')
    <3>1. LastReport' = LastReport
      BY <1>3, SameComing
    <3>2. /\ deckSteps[x] # <<>> => deckPressed[x] = Coming(x)
          /\ deckOpen => (x \in deckHeld <=> x \in LastReport)
      BY <1>1, <2>6 DEF PressInv
    <3>. QED BY <2>2, <2>3, <2>4, <3>1, <3>2
  <2>7. /\ deckTrouble = 0 => deckPlugged /\ deckOn /\ \A j \in DOMAIN deckQueue : deckQueue[j].what # "disconnect"
        /\ deckTrouble = 0 => (~deckOpen => deckReports = <<>>)
    BY <1>1 DEF PressInv
  <2>. QED BY <1>3, <2>5, <2>6, <2>7 DEF PressInv
<1>. QED BY <1>5, <1>6 DEF Take, task

LEMMA ReadPress == DeckInv /\ ReadKeys => PressInv'
<1>. SUFFICES ASSUME DeckInv, ReadKeys PROVE PressInv'
  OBVIOUS
<1>1. DeckQueues /\ PressInv
  BY DEF DeckInv
<1>2. /\ deckReports # <<>> /\ deckReports' = Tail(deckReports) /\ deckDown' = Head(deckReports)
      /\ UNCHANGED <<deckPressed, deckHeld, deckOpen, deckPlugged, deckMet, deckTrouble, deckOn, deckSteps, deckQueue,
                     deckTasks>>
      /\ deckOpen
  BY DEF ReadKeys, deckConfig, deckBounds, deckHistory
<1>3. LastReport' = LastReport /\ deckDown' \in SUBSET Keys
  BY <1>1, <1>2, ReportRead
<1>4. deckEvents' = deckEvents \o SetToSeq({[what |-> "pressed", key |-> x] : x \in deckDown' \ deckDown})
  BY DEF ReadKeys, NewlyPressed
<1>5. ASSUME NEW k \in Keys PROVE Coming(k)' = Coming(k)
  <2>. DEFINE N == deckDown' \ deckDown
  <2>1. N \in SUBSET Keys
    BY <1>3
  <2>2. deckEvents' = deckEvents \o SetToSeq({[what |-> "pressed", key |-> x] : x \in N})
    BY <1>4
  <2>3. Cardinality(Ups(k)) = Cardinality(Ups(k))' + (IF k \in N THEN 1 ELSE 0)
    BY <1>1, <1>2, ReportRead
  <2>. HIDE DEF N
  <2>4. Cardinality(Pressings(k))' = Cardinality(Pressings(k)) + (IF k \in N THEN 1 ELSE 0)
    BY <1>1, <2>1, <2>2, PressesQueued
  <2>5. Taking(k)' = Taking(k)
    BY <1>2, SameComing
  <2>6. /\ Cardinality(Ups(k)) \in Nat /\ Cardinality(Pressings(k)) \in Nat /\ Cardinality(Taking(k)) \in Nat
    BY <1>1, ComingParts
  <2>7. Cardinality(Ups(k))' \in Nat
    <3>1. deckReports' \in Seq(SUBSET Keys)
      BY <1>1, <1>2, ReportRead
    <3>2. Ups(k)' \in SUBSET (1..Len(deckReports')) /\ Len(deckReports') \in Nat
      BY <3>1 DEF Ups
    <3>3. IsFiniteSet(1..Len(deckReports'))
      BY <3>2, FS_Interval
    <3>. QED BY <3>2, <3>3, FS_Subset, FS_CardinalityType
  <2>. QED BY <2>3, <2>4, <2>5, <2>6, <2>7 DEF Coming
<1>6. deckTrouble = 0 => \A i \in DOMAIN deckQueue : deckQueue[i].what # "disconnect"
  BY <1>1 DEF PressInv
<1>. QED BY <1>1, <1>2, <1>3, <1>5, <1>6, PressStays

LEMMA HandlePress == DeckInv /\ HandleEvent => PressInv'
<1>. SUFFICES ASSUME DeckInv, HandleEvent PROVE PressInv'
  OBVIOUS
<1>. DEFINE event == Head(deckEvents)
<1>1. DeckQueues /\ PressInv /\ deckEvents # <<>> /\ deckEvents' = Tail(deckEvents)
  BY DEF DeckInv, HandleEvent
<1>2. event \in DeckEvent
  BY <1>1, EventHandled
<1>3. UNCHANGED <<deckPressed, deckHeld, deckOpen, deckPlugged, deckMet, deckTrouble, deckOn, deckSteps, deckQueue,
                  deckReports, deckDown>>
  BY DEF HandleEvent, deckConfig, deckThread, deckDevice, deckBounds, deckHistory
<1>4. ASSUME NEW k \in Keys
      PROVE  /\ Cardinality(Pressings(k)) = Cardinality(Pressings(k))'
                  + (IF event.what = "pressed" /\ event.key = k THEN 1 ELSE 0)
             /\ Cardinality(Pressings(k)) \in Nat /\ Cardinality(Pressings(k))' \in Nat
             /\ Cardinality(Taking(k)) \in Nat /\ Cardinality(Ups(k)) \in Nat /\ Ups(k)' = Ups(k)
  <2>1. Cardinality(Pressings(k)) = Cardinality(Pressings(k))' + (IF event.what = "pressed" /\ event.key = k THEN 1 ELSE 0)
        /\ deckEvents' \in Seq(DeckEvent)
    BY <1>1, EventHandled
  <2>2. Pressings(k)' \in SUBSET (1..Len(deckEvents')) /\ Len(deckEvents') \in Nat
    BY <2>1 DEF Pressings
  <2>3. IsFiniteSet(1..Len(deckEvents'))
    BY <2>2, FS_Interval
  <2>4. Cardinality(Pressings(k))' \in Nat
    BY <2>2, <2>3, FS_Subset, FS_CardinalityType
  <2>. QED BY <1>1, <1>3, <2>1, <2>4, ComingParts, SameComing
<1>. HIDE DEF event
<1>5. \A k \in Keys : Coming(k)' = Coming(k)
  <2>1. CASE event.what = "pressed"
             /\ Spawn([does |-> "press", phase |-> "take", key |-> event.key, engine |-> macroLinked])
    <3>. DEFINE task == [does |-> "press", phase |-> "take", key |-> event.key, engine |-> macroLinked]
    <3>1. event.key \in Keys /\ macroLinked \in BOOLEAN
      BY <1>2, <2>1 DEF DeckEvent, DeckInv, MacroInv, MacroRestOK
    <3>2. task \in DeckTask /\ task.does = "press" /\ task.phase = "take" /\ task.key = event.key /\ Spawn(task)
      BY <2>1, <3>1, TaskTypes
    <3>. HIDE DEF task
    <3>3. ASSUME NEW k \in Keys PROVE Coming(k)' = Coming(k)
      <4>1. Cardinality(Taking(k))' = Cardinality(Taking(k)) + (IF event.key = k THEN 1 ELSE 0)
        BY <1>1, <3>2, TaskSpawned
      <4>. QED BY <1>4, <2>1, <4>1 DEF Coming
    <3>. QED BY <3>3
  <2>2. CASE event.what # "pressed" /\ (AfterOpening \/ PaintAll)
    <3>1. ASSUME NEW k \in Keys PROVE Cardinality(Taking(k))' = Cardinality(Taking(k))
      <4>1. CASE UNCHANGED deckTasks
        BY <4>1, SameComing
      <4>2. CASE PaintAll
        <5>. DEFINE next == [x \in Keys |-> NextStep(x)]
        <5>1. next \in [Keys -> Ids \cup {Blank}]
          BY NextStepIs DEF DeckInv
        <5>. HIDE DEF next
        <5>. DEFINE task == [does |-> "all", phase |-> "name", next |-> next]
        <5>2. next \in Nexts
          BY <5>1, NextsType
        <5>3. task \in DeckTask /\ task.phase = "name"
          BY <5>2, TaskTypes
        <5>4. Spawn(task)
          BY <4>2 DEF PaintAll, next
        <5>. HIDE DEF task
        <5>5. Cardinality(Taking(k))' = Cardinality(Taking(k)) + 0
          BY <1>1, <5>3, <5>4, TaskSpawned
        <5>. QED BY <1>4, <5>5
      <4>. QED BY <2>2, <4>1, <4>2 DEF AfterOpening
    <3>. QED BY <1>4, <2>2, <3>1 DEF Coming
  <2>. QED BY <2>1, <2>2 DEF HandleEvent, event
<1>6. LastReport' = LastReport
  BY <1>3, SameComing
<1>7. deckTrouble = 0 => \A i \in DOMAIN deckQueue : deckQueue[i].what # "disconnect"
  BY <1>1 DEF PressInv
<1>. QED BY <1>1, <1>3, <1>5, <1>6, <1>7, PressStays

\* What leaves reports, events and the tasks that have not begun as they are.
LEMMA OtherPress ==
  ASSUME DeckInv, UNCHANGED <<deckPressed, deckHeld, deckOpen, deckPlugged, deckMet, deckReports, deckDown, deckEvents>>,
         \A k \in Keys : Cardinality(Taking(k))' = Cardinality(Taking(k)),
         deckTrouble' = 0 => /\ deckTrouble = 0 /\ UNCHANGED <<deckOn, deckSteps>>
                             /\ \A i \in DOMAIN deckQueue' : deckQueue'[i].what # "disconnect"
  PROVE  PressInv'
<1>1. DeckQueues /\ PressInv
  BY DEF DeckInv
<1>2. LastReport' = LastReport /\ \A k \in Keys : Coming(k)' = Coming(k)
  BY <1>1, TasksOnly
<1>. QED BY <1>1, <1>2, PressStays

LEMMA CalmQueue == DeckInv /\ deckTrouble = 0 => \A i \in DOMAIN deckQueue : deckQueue[i].what # "disconnect"
BY DEF DeckInv, PressInv

LEMMA NotBegun ==
  ASSUME DeckQueues, NEW k
  PROVE  /\ UNCHANGED deckTasks => Cardinality(Taking(k))' = Cardinality(Taking(k))
         /\ \A task \in DeckTask : Spawn(task) /\ task.phase # "take" => Cardinality(Taking(k))' = Cardinality(Taking(k))
         /\ \A i \in DOMAIN deckTasks : deckTasks' = RemoveAt(deckTasks, i) /\ deckTasks[i].phase # "take"
              => Cardinality(Taking(k))' = Cardinality(Taking(k))
         /\ \A i \in DOMAIN deckTasks, task \in DeckTask :
              Becoming(i, task) /\ task.phase # "take" /\ deckTasks[i].phase # "take"
              => Cardinality(Taking(k))' = Cardinality(Taking(k))
<1>1. Cardinality(Taking(k)) \in Nat
  BY ComingParts
<1>2. UNCHANGED deckTasks => Cardinality(Taking(k))' = Cardinality(Taking(k))
  BY SameComing
<1>3. ASSUME NEW task \in DeckTask, Spawn(task), task.phase # "take"
      PROVE  Cardinality(Taking(k))' = Cardinality(Taking(k))
  <2>1. Cardinality(Taking(k))' = Cardinality(Taking(k)) + 0
    BY <1>3, TaskSpawned
  <2>. QED BY <1>1, <2>1
<1>4. ASSUME NEW i \in DOMAIN deckTasks, deckTasks[i].phase # "take" PROVE i \notin Taking(k)
  BY <1>4 DEF Taking
<1>5. ASSUME NEW i \in DOMAIN deckTasks, deckTasks' = RemoveAt(deckTasks, i), deckTasks[i].phase # "take"
      PROVE  Cardinality(Taking(k))' = Cardinality(Taking(k))
  <2>1. deckTasks' \in Seq(DeckTask) /\ Cardinality(Taking(k)) = Cardinality(Taking(k))' + 0
    BY <1>4, <1>5, TaskRemoved
  <2>2. Taking(k)' \in SUBSET (1..Len(deckTasks')) /\ Len(deckTasks') \in Nat
    BY <2>1 DEF Taking
  <2>3. IsFiniteSet(1..Len(deckTasks'))
    BY <2>2, FS_Interval
  <2>4. Cardinality(Taking(k))' \in Nat
    BY <2>2, <2>3, FS_Subset, FS_CardinalityType
  <2>. QED BY <2>1, <2>4
<1>6. ASSUME NEW i \in DOMAIN deckTasks, NEW task \in DeckTask, Becoming(i, task), task.phase # "take",
             deckTasks[i].phase # "take"
      PROVE  Cardinality(Taking(k))' = Cardinality(Taking(k))
  <2>1. deckTasks' \in Seq(DeckTask) /\ Cardinality(Taking(k)) = Cardinality(Taking(k))' + 0
    BY <1>4, <1>6, TaskBecomes
  <2>2. Taking(k)' \in SUBSET (1..Len(deckTasks')) /\ Len(deckTasks') \in Nat
    BY <2>1 DEF Taking
  <2>3. IsFiniteSet(1..Len(deckTasks'))
    BY <2>2, FS_Interval
  <2>4. Cardinality(Taking(k))' \in Nat
    BY <2>2, <2>3, FS_Subset, FS_CardinalityType
  <2>. QED BY <2>1, <2>4
<1>. QED BY <1>2, <1>3, <1>5, <1>6

LEMMA CalmTold ==
  ASSUME DeckQueues, \A i \in DOMAIN deckQueue : deckQueue[i].what # "disconnect", NEW cmd \in DeckCommand,
         cmd.what # "disconnect", TellThread(cmd)
  PROVE  \A i \in DOMAIN deckQueue' : deckQueue'[i].what # "disconnect"
<1>. DEFINE n == Len(deckQueue)
<1>1. /\ DOMAIN deckQueue' = 1..(n + 1) /\ deckQueue'[n + 1] = cmd /\ n \in Nat
      /\ \A i \in 1..n : deckQueue'[i] = deckQueue[i]
      /\ DOMAIN deckQueue = 1..n
  BY Appended DEF DeckQueues, TellThread
<1>2. \A i \in 1..(n + 1) : i \in 1..n \/ i = n + 1
  BY <1>1
<1>. HIDE DEF n
<1>. QED BY <1>1, <1>2

LEMMA TasksPress ==
  ASSUME DeckInv, NEW i \in DOMAIN deckTasks, Fire(i) \/ ReadNext(i) \/ PaintNames(i) \/ PushName(i)
  PROVE  PressInv'
<1>1. DeckQueues /\ deckTasks[i] \in DeckTask
  BY DEF DeckInv, DeckQueues
<1>2. deckTasks' \in Seq(DeckTask) /\ deckQueue' \in Seq(DeckCommand)
  BY TaskTyped DEF DeckTyped, DeckQueues
<1>3. CASE Fire(i) \/ ReadNext(i)
  <2>1. /\ UNCHANGED <<deckPressed, deckHeld, deckOpen, deckPlugged, deckMet, deckReports, deckDown, deckEvents,
                       deckTrouble, deckOn, deckSteps, deckQueue>>
        /\ deckTasks[i].phase # "take"
    BY <1>3 DEF Fire, ReadNext, deckConfig, deckThread, deckDevice, deckBounds, deckHistory
  <2>2. PICK task : Becoming(i, task) /\ task.phase # "take"
    <3>1. CASE Fire(i)
      BY <3>1 DEF Fire
    <3>2. CASE ReadNext(i)
      BY <3>2 DEF ReadNext
    <3>. QED BY <1>3, <3>1, <3>2
  <2>3. task \in DeckTask
    <3>1. deckTasks'[i] = task /\ DOMAIN deckTasks' = DOMAIN deckTasks
      BY <1>1, <2>2 DEF Becoming, DeckQueues
    <3>. QED BY <1>2, <3>1
  <2>4. \A k \in Keys : Cardinality(Taking(k))' = Cardinality(Taking(k))
    BY <1>1, <2>1, <2>2, <2>3, NotBegun
  <2>. QED BY <2>1, <2>4, OtherPress, CalmQueue
<1>4. CASE PaintNames(i) \/ PushName(i)
  <2>1. /\ UNCHANGED <<deckPressed, deckHeld, deckOpen, deckPlugged, deckMet, deckReports, deckDown, deckEvents,
                       deckTrouble, deckOn, deckSteps>>
        /\ deckTasks[i].phase # "take" /\ deckTasks' = RemoveAt(deckTasks, i)
    BY <1>4 DEF PaintNames, PushName, deckConfig, deckThread, deckDevice, deckBounds, deckHistory
  <2>2. \A k \in Keys : Cardinality(Taking(k))' = Cardinality(Taking(k))
    BY <1>1, <2>1, NotBegun
  <2>3. ASSUME deckTrouble = 0 PROVE \A j \in DOMAIN deckQueue' : deckQueue'[j].what # "disconnect"
    <3>1. \A j \in DOMAIN deckQueue : deckQueue[j].what # "disconnect"
      BY <2>3, CalmQueue
    <3>2. CASE PaintNames(i)
      <4>1. PICK cmd : TellThread(cmd) /\ cmd.what = "paint"
        BY <3>2 DEF PaintNames
      <4>2. cmd \in DeckCommand
        <5>1. Len(deckQueue) + 1 \in DOMAIN deckQueue' /\ deckQueue'[Len(deckQueue) + 1] = cmd
          BY <1>1, <4>1 DEF TellThread, DeckQueues
        <5>. QED BY <1>2, <5>1
      <4>. QED BY <1>1, <3>1, <4>1, <4>2, CalmTold
    <3>3. CASE PushName(i)
      <4>. DEFINE shows == {k \in Keys : NextStep(k) = deckTasks[i].id}
                  one(k) == [what |-> "paint", faces |-> [x \in {k} |-> NewName]]
                  new == {one(k) : k \in shows}  s == SetToSeq(new)
      <4>1. deckQueue' = deckQueue \o s
        BY <3>3 DEF PushName
      <4>2. IsFiniteSet(new)
        <5>. DEFINE f == [k \in shows |-> one(k)]
        <5>1. f \in Surjection(shows, new)
          BY DEF Surjection
        <5>2. shows \in SUBSET Keys
          OBVIOUS
        <5>. HIDE DEF f, new, shows
        <5>3. IsFiniteSet(shows)
          BY <5>2, DeckAssumption, FS_Subset
        <5>. QED BY <5>1, <5>3, FS_Surjection
      <4>3. \A c \in new : c.what = "paint"
        <5>1. \A k : one(k).what = "paint"
          OBVIOUS
        <5>. HIDE DEF one
        <5>. QED BY <5>1
      <4>. HIDE DEF new
      <4>4. s \in Seq(new)
        BY <4>2, SetInTurn
      <4>. HIDE DEF s
      <4>. DEFINE q == deckQueue
      <4>5. q \in Seq(DeckCommand \cup new) /\ s \in Seq(DeckCommand \cup new)
        BY <1>1, <4>4 DEF DeckQueues
      <4>. HIDE DEF q
      <4>6. /\ Len(q \o s) = Len(q) + Len(s) /\ Len(q) \in Nat /\ Len(s) \in Nat
            /\ DOMAIN (q \o s) = 1..(Len(q) + Len(s)) /\ DOMAIN q = 1..Len(q) /\ DOMAIN s = 1..Len(s)
            /\ \A j \in 1..Len(q) : (q \o s)[j] = q[j]
        BY <4>5
      <4>7. \A j \in 1..(Len(q) + Len(s)) : j > Len(q) => (q \o s)[j] = s[j - Len(q)]
        BY <4>5, ConcatAt
      <4>8. \A j \in 1..(Len(q) + Len(s)) : j \in 1..Len(q) \/ (j > Len(q) /\ j - Len(q) \in 1..Len(s))
        BY <4>6
      <4>9. \A j \in 1..Len(s) : s[j].what = "paint"
        BY <4>3, <4>4, <4>6
      <4>10. \A j \in 1..Len(q) : q[j].what # "disconnect"
        BY <3>1, <4>6 DEF q
      <4>11. \A j \in DOMAIN (q \o s) : (q \o s)[j].what # "disconnect"
        BY <4>6, <4>7, <4>8, <4>9, <4>10
      <4>. QED BY <4>1, <4>11 DEF q
    <3>. QED BY <1>4, <3>2, <3>3
  <2>. QED BY <2>1, <2>2, <2>3, OtherPress
<1>. QED BY <1>3, <1>4

LEMMA WindowPress ==
  DeckInv /\ (SyncTarget \/ OpenShow \/ Switch \/ MacroStep) => PressInv'
<1>. SUFFICES ASSUME DeckInv, SyncTarget \/ OpenShow \/ Switch \/ MacroStep PROVE PressInv'
  OBVIOUS
<1>1. DeckQueues /\ DeckMade
  BY DEF DeckInv
<1>2. CASE SyncTarget
  <2>1. /\ UNCHANGED <<deckPressed, deckHeld, deckOpen, deckPlugged, deckMet, deckReports, deckDown, deckEvents,
                       deckTrouble, deckOn, deckSteps, deckTasks>>
        /\ TellThread([what |-> IF deckOn THEN "connect" ELSE "disconnect"])
    BY <1>2 DEF SyncTarget, deckConfig, deckThread, deckDevice, deckBounds, deckHistory
  <2>2. ASSUME deckTrouble = 0 PROVE \A j \in DOMAIN deckQueue' : deckQueue'[j].what # "disconnect"
    <3>1. \A j \in DOMAIN deckQueue : deckQueue[j].what # "disconnect"
      BY <2>2, CalmQueue
    <3>2. deckOn
      BY <2>2 DEF DeckInv, PressInv
    <3>. DEFINE cmd == [what |-> "connect"]
    <3>3. cmd \in DeckCommand /\ cmd.what # "disconnect" /\ TellThread(cmd)
      BY <2>1, <3>2 DEF DeckCommand
    <3>. HIDE DEF cmd
    <3>. QED BY <1>1, <3>1, <3>3, CalmTold
  <2>3. \A k \in Keys : Cardinality(Taking(k))' = Cardinality(Taking(k))
    BY <1>1, <2>1, NotBegun
  <2>. QED BY <2>1, <2>2, <2>3, OtherPress
<1>3. CASE OpenShow
  <2>1. /\ UNCHANGED <<deckPressed, deckHeld, deckOpen, deckPlugged, deckMet, deckReports, deckDown, deckTasks>>
        /\ deckEvents' = Append(deckEvents, [what |-> "opened"]) /\ Trouble /\ UNCHANGED deckMoves
    BY <1>3 DEF OpenShow, deckThread, deckDevice
  <2>2. deckTrouble' # 0
    BY <1>1, <2>1, Roomy
  <2>3. LastReport' = LastReport /\ \A k \in Keys : Coming(k)' = Coming(k)
    <3>1. [what |-> "opened"] \in DeckEvent
      BY DEF DeckEvent
    <3>2. \A k \in Keys : Cardinality(Pressings(k))' = Cardinality(Pressings(k))
      BY <1>1, <2>1, <3>1, EventQueued
    <3>3. \A k \in Keys : Ups(k)' = Ups(k) /\ Taking(k)' = Taking(k)
      BY <2>1, SameComing
    <3>. QED BY <2>1, <3>2, <3>3, SameComing DEF Coming
  <2>. QED BY <2>1, <2>2, <2>3, PressStays DEF DeckInv
<1>4. CASE Switch
  <2>1. /\ UNCHANGED <<deckPressed, deckHeld, deckOpen, deckPlugged, deckMet, deckReports, deckDown, deckTasks, deckEvents>>
        /\ Trouble /\ UNCHANGED deckMoves
    BY <1>4 DEF Switch, deckThread, deckDevice, deckHistory
  <2>2. deckTrouble' # 0
    BY <1>1, <2>1, Roomy
  <2>3. \A k \in Keys : Cardinality(Taking(k))' = Cardinality(Taking(k))
    BY <1>1, <2>1, NotBegun
  <2>. QED BY <2>1, <2>2, <2>3, OtherPress
<1>5. CASE MacroStep
  <2>1. UNCHANGED <<deckPressed, deckHeld, deckOpen, deckPlugged, deckMet, deckReports, deckDown, deckEvents,
                    deckTrouble, deckOn, deckSteps, deckTasks, deckQueue>>
    BY <1>5 DEF MacroStep, deckVars, deckConfig, deckThread, deckDevice, deckBounds, deckHistory
  <2>2. \A k \in Keys : Cardinality(Taking(k))' = Cardinality(Taking(k))
    BY <1>1, <2>1, NotBegun
  <2>. QED BY <2>1, <2>2, OtherPress, CalmQueue
<1>. QED BY <1>2, <1>3, <1>4, <1>5

LEMMA EditsPress ==
  ASSUME DeckInv, (\E k \in Keys : EditButton(k)) \/ (\E id \in DOMAIN macros : Rename(id) \/ Delete(id))
  PROVE  PressInv'
<1>1. DeckQueues /\ DeckMade
  BY DEF DeckInv
<1>2. deckTasks' \in Seq(DeckTask)
  BY MacrosTyped DEF DeckTyped, DeckQueues
<1>3. /\ UNCHANGED <<deckPressed, deckHeld, deckOpen, deckPlugged, deckMet, deckReports, deckDown, deckEvents>>
      /\ Trouble /\ UNCHANGED deckMoves
      /\ UNCHANGED deckTasks \/ \E task : Spawn(task) /\ task.phase # "take"
  <2>1. ASSUME NEW k \in Keys, EditButton(k)
        PROVE  /\ UNCHANGED <<deckPressed, deckHeld, deckOpen, deckPlugged, deckMet, deckReports, deckDown, deckEvents>>
               /\ Trouble /\ UNCHANGED deckMoves
               /\ \E task : Spawn(task) /\ task.phase # "take"
    <3>. DEFINE task == [does |-> "edit", phase |-> "name", next |-> [x \in {k} |-> NextStep(k)']]
    <3>1. Spawn(task)
      BY <2>1 DEF EditButton
    <3>2. task.phase # "take"
      OBVIOUS
    <3>. HIDE DEF task
    <3>. QED BY <2>1, <3>1, <3>2 DEF EditButton, deckThread, deckDevice
  <2>2. ASSUME NEW id, Rename(id)
        PROVE  /\ UNCHANGED <<deckPressed, deckHeld, deckOpen, deckPlugged, deckMet, deckReports, deckDown, deckEvents>>
               /\ Trouble /\ UNCHANGED deckMoves
               /\ \E task : Spawn(task) /\ task.phase # "take"
    BY <2>2 DEF Rename, deckThread, deckDevice, deckHistory
  <2>3. ASSUME NEW id, Delete(id)
        PROVE  /\ UNCHANGED <<deckPressed, deckHeld, deckOpen, deckPlugged, deckMet, deckReports, deckDown, deckEvents>>
               /\ Trouble /\ UNCHANGED deckMoves /\ UNCHANGED deckTasks
    BY <2>3 DEF Delete, deckThread, deckDevice, deckHistory
  <2>. QED BY <2>1, <2>2, <2>3
<1>4. deckTrouble' # 0
  BY <1>1, <1>3, Roomy
<1>5. \A k \in Keys : Cardinality(Taking(k))' = Cardinality(Taking(k))
  <2>1. CASE UNCHANGED deckTasks
    BY <1>1, <2>1, NotBegun
  <2>2. ASSUME NEW task, Spawn(task), task.phase # "take"
        PROVE  \A k \in Keys : Cardinality(Taking(k))' = Cardinality(Taking(k))
    <3>1. Len(deckTasks) + 1 \in DOMAIN deckTasks' /\ deckTasks'[Len(deckTasks) + 1] = task
      BY <1>1, <2>2 DEF Spawn, DeckQueues
    <3>2. task \in DeckTask
      BY <1>2, <3>1
    <3>. QED BY <1>1, <2>2, <3>2, NotBegun
  <2>. QED BY <1>3, <2>1, <2>2
<1>. QED BY <1>3, <1>4, <1>5, OtherPress

LEMMA ThreadPress ==
  DeckInv /\ (PlugPulled \/ PlugBack \/ Command \/ FindAgain \/ ReadFails) => PressInv'
<1>. SUFFICES ASSUME DeckInv, PlugPulled \/ PlugBack \/ Command \/ FindAgain \/ ReadFails PROVE PressInv'
  OBVIOUS
<1>1. DeckQueues /\ DeckMade /\ PressInv
  BY DEF DeckInv
<1>2. ~deckPlugged => deckTrouble # 0
  BY <1>1 DEF PressInv
<1>3. CASE PlugPulled
  <2>1. Trouble /\ UNCHANGED deckMoves
    BY <1>3 DEF PlugPulled
  <2>2. deckTrouble' # 0
    BY <1>1, <2>1, Roomy
  <2>. QED BY <1>3, <2>2, ShutPress DEF PlugPulled, deckThread, deckHistory
<1>4. CASE PlugBack
  BY <1>2, <1>4, ShutPress DEF PlugBack, deckThread, deckBounds, deckHistory
<1>5. CASE FindAgain
  BY <1>5, OpenPress, CalmQueue DEF FindAgain, deckConfig, deckBounds
<1>6. CASE ReadFails
  <2>1. UNCHANGED <<deckPressed, deckEvents, deckTasks, deckReports, deckDown>> /\ ~deckOpen' /\ deckTrouble' # 0
    BY <1>2, <1>6 DEF ReadFails, deckDevice, deckBounds, deckHistory
  <2>. QED BY <2>1, ShutPress
<1>7. CASE Command
  <2>. DEFINE cmd == Head(deckQueue)
  <2>1. /\ deckQueue # <<>> /\ deckQueue' = Tail(deckQueue)
        /\ UNCHANGED <<deckOn, deckSteps, deckPlugged, deckHeld, deckTasks, deckTrouble>>
    BY <1>7 DEF Command, deckConfig, deckBounds
  <2>2. ASSUME deckTrouble = 0
        PROVE  cmd.what # "disconnect" /\ \A i \in DOMAIN deckQueue' : deckQueue'[i].what # "disconnect"
    <3>1. \A i \in DOMAIN deckQueue : deckQueue[i].what # "disconnect"
      BY <2>2, CalmQueue
    <3>2. /\ DOMAIN deckQueue' = 1..(Len(deckQueue) - 1) /\ DOMAIN deckQueue = 1..Len(deckQueue) /\ Len(deckQueue) \in Nat
          /\ \A i \in 1..(Len(deckQueue) - 1) : deckQueue'[i] = deckQueue[i + 1]
          /\ cmd = deckQueue[1] /\ 1 \in 1..Len(deckQueue)
      BY <1>1, <2>1, Tailed DEF DeckQueues
    <3>3. \A i \in 1..(Len(deckQueue) - 1) : i + 1 \in 1..Len(deckQueue)
      BY <3>2
    <3>. QED BY <3>1, <3>2, <3>3
  <2>. HIDE DEF cmd
  <2>3. CASE Open /\ ~deckOpen /\ deckPlugged
    BY <2>1, <2>2, <2>3, OpenPress
  <2>4. CASE UNCHANGED <<deckOpen, deckDown, deckReports, deckEvents, deckPressed, deckMet>>
    <3>1. \A k \in Keys : Cardinality(Taking(k))' = Cardinality(Taking(k))
      BY <1>1, <2>1, NotBegun
    <3>. QED BY <2>1, <2>2, <2>4, <3>1, OtherPress
  <2>5. CASE cmd.what = "disconnect" /\ Disconnect
    <3>1. deckTrouble # 0
      BY <2>2, <2>5
    <3>. QED BY <2>1, <2>5, <3>1, ShutPress DEF Disconnect
  <2>6. \/ Open /\ ~deckOpen /\ deckPlugged
        \/ UNCHANGED <<deckOpen, deckDown, deckReports, deckEvents, deckPressed, deckMet>>
        \/ cmd.what = "disconnect" /\ Disconnect
    BY <1>7 DEF Command, Connect, StaysShut, Paint, Keep, cmd
  <2>. QED BY <2>3, <2>4, <2>5, <2>6
<1>. QED BY <1>3, <1>4, <1>5, <1>6, <1>7

LEMMA DeckPress == DeckInv /\ DeckNext => PressInv'
<1>. SUFFICES ASSUME DeckInv, DeckNext PROVE PressInv'
  OBVIOUS
<1>1. CASE \E k \in Keys : KeyDown(k) \/ KeyUp(k)
  BY <1>1, KeyPress
<1>2. CASE \E i \in DOMAIN deckTasks : Take(i) \/ Fire(i) \/ ReadNext(i) \/ PaintNames(i) \/ PushName(i)
  BY <1>2, TakePress, TasksPress
<1>3. CASE (\E k \in Keys : EditButton(k)) \/ (\E id \in DOMAIN macros : Rename(id) \/ Delete(id))
  BY <1>3, EditsPress
<1>4. CASE SyncTarget \/ OpenShow \/ Switch \/ MacroStep
  BY <1>4, WindowPress
<1>5. CASE PlugPulled \/ PlugBack \/ Command \/ FindAgain \/ ReadFails
  BY <1>5, ThreadPress
<1>6. CASE ReadKeys \/ HandleEvent
  BY <1>6, ReadPress, HandlePress
<1>. QED BY <1>1, <1>2, <1>3, <1>4, <1>5, <1>6 DEF DeckNext

LEMMA DeckTypes == DeckInv /\ DeckNext => DeckTyped'
<1>. SUFFICES ASSUME DeckInv, DeckNext PROVE DeckTyped'
  OBVIOUS
<1>0. DeckTyped
  BY DEF DeckInv, DeckTyped
<1>1. CASE \E k \in Keys : KeyDown(k) \/ KeyUp(k)
  BY <1>0, <1>1, KeyTyped
<1>2. CASE \E i \in DOMAIN deckTasks : Take(i) \/ Fire(i) \/ ReadNext(i) \/ PaintNames(i) \/ PushName(i)
  BY <1>2, TaskTyped
<1>3. CASE MacroStep \/ (\E k \in Keys : EditButton(k)) \/ (\E id \in DOMAIN macros : Rename(id) \/ Delete(id))
  BY <1>3, MacrosTyped
<1>4. CASE SyncTarget \/ OpenShow \/ Switch \/ HandleEvent
  BY <1>4, WindowTyped
<1>5. CASE PlugPulled \/ PlugBack
  BY <1>0, <1>5, PlugTyped
<1>6. CASE Command \/ FindAgain \/ ReadFails \/ ReadKeys
  BY <1>0, <1>6, ThreadTyped
<1>. QED BY <1>1, <1>2, <1>3, <1>4, <1>5, <1>6 DEF DeckNext

LEMMA DeckButtons == DeckInv /\ DeckNext => ButtonsInv'
<1>. SUFFICES ASSUME DeckInv, DeckNext PROVE ButtonsInv'
  OBVIOUS
<1>1. CASE \E i \in DOMAIN deckTasks : Take(i)
  BY <1>1, TakeButtons
<1>2. CASE \E k \in Keys : EditButton(k)
  BY <1>2, EditButtons
<1>3. CASE OpenShow
  BY <1>3, OpenButtons
<1>4. CASE UNCHANGED <<deckSteps, deckAt, deckFired>>
  BY <1>4 DEF DeckInv, ButtonsInv
<1>5. \/ \E i \in DOMAIN deckTasks : Take(i)
      \/ \E k \in Keys : EditButton(k)
      \/ OpenShow
      \/ UNCHANGED <<deckSteps, deckAt, deckFired>>
  <2>1. ASSUME NEW k \in Keys, KeyDown(k) \/ KeyUp(k) PROVE UNCHANGED <<deckSteps, deckAt, deckFired>>
    BY <2>1 DEF KeyDown, KeyUp, deckConfig, deckHistory
  <2>2. ASSUME NEW i \in DOMAIN deckTasks, Fire(i) \/ ReadNext(i) \/ PaintNames(i) \/ PushName(i)
        PROVE  UNCHANGED <<deckSteps, deckAt, deckFired>>
    BY <2>2 DEF Fire, ReadNext, PaintNames, PushName, deckConfig, deckHistory
  <2>3. ASSUME NEW id, Rename(id) \/ Delete(id) PROVE UNCHANGED <<deckSteps, deckAt, deckFired>>
    BY <2>3 DEF Rename, Delete, deckConfig, deckHistory
  <2>4. CASE PlugPulled \/ PlugBack \/ Command \/ FindAgain \/ ReadKeys \/ ReadFails
    BY <2>4 DEF PlugPulled, PlugBack, Command, FindAgain, ReadKeys, ReadFails, deckConfig, deckHistory
  <2>5. CASE MacroStep \/ SyncTarget \/ HandleEvent \/ Switch
    BY <2>5 DEF MacroStep, SyncTarget, HandleEvent, Switch, deckVars, deckConfig, deckHistory
  <2>. QED BY <2>1, <2>2, <2>3, <2>4, <2>5 DEF DeckNext
<1>. QED BY <1>1, <1>2, <1>3, <1>4, <1>5

LEMMA DeckMacros == DeckInv /\ DeckNext => MacroInv'
<1>. SUFFICES ASSUME DeckInv, DeckNext PROVE MacroInv'
  OBVIOUS
<1>0. MacroInv
  BY DEF DeckInv
<1>1. CASE UNCHANGED macroVars
  BY <1>0, <1>1, MacroStutterInv
<1>2. CASE (\E r \in DOMAIN macroRuns : RunStep(r)) \/ LinkLost
  BY <1>0, <1>2, RunStepInv, LinkLostInv
<1>3. ASSUME NEW i \in DOMAIN deckTasks, Fire(i) PROVE MacroInv'
  <2>1. Len(macroRuns) < MaxRuns /\ UNCHANGED <<macros, macroRest>>
    BY <1>3 DEF Fire
  <2>2. CASE UNCHANGED macroRuns
    <3>1. UNCHANGED macroVars
      BY <2>1, <2>2 DEF macroVars, macroRest
    <3>. QED BY <1>0, <3>1, MacroStutterInv
  <2>3. CASE deckTasks[i].id \in DOMAIN macros /\ Execute(deckTasks[i].id)
    BY <1>0, <2>1, <2>3, ExecuteInv
  <2>. QED BY <1>3, <2>2, <2>3 DEF Fire
<1>4. ASSUME NEW id \in DOMAIN macros, Rename(id) PROVE MacroInv'
  <2>1. macros' = [macros EXCEPT ![id].name = NewName] /\ UNCHANGED <<macroRuns, macroRest>>
    BY <1>4 DEF Rename
  <2>2. SameSteps /\ MacrosOf(macros)'
    <3>1. MacrosOf(macros) /\ NewName \in Names
      BY <1>0 DEF MacroInv, RunsInv, Names
    <3>2. \A m \in DOMAIN macros : macros[m] \in [name : Names, marks : BOOLEAN, steps : Seq(Step)]
      BY <3>1 DEF MacrosOf
    <3>3. /\ DOMAIN macros' = DOMAIN macros
          /\ \A m \in DOMAIN macros : macros'[m] = IF m = id THEN [macros[m] EXCEPT !.name = NewName] ELSE macros[m]
      BY <2>1, <3>1 DEF MacrosOf
    <3>4. \A m \in DOMAIN macros : macros'[m] \in [name : Names, marks : BOOLEAN, steps : Seq(Step)]
                                   /\ macros'[m].steps = macros[m].steps
      BY <3>1, <3>2, <3>3
    <3>5. macros' = [m \in DOMAIN macros |-> macros'[m]]
      BY <2>1, <3>1 DEF MacrosOf
    <3>. QED BY <3>3, <3>4, <3>5 DEF SameSteps, MacrosOf
  <2>3. MacroRestOK'
    BY <1>0, <2>1 DEF MacroInv, MacroRestOK, macroRest
  <2>. QED BY <1>0, <2>1, <2>2, <2>3, RenameInv DEF macroRest
<1>5. ASSUME NEW id \in DOMAIN macros, Delete(id) PROVE MacroInv'
  BY <1>0, <1>5, DeleteInv DEF Delete
<1>6. CASE OpenShow
  <2>1. MacrosOf(macros)' /\ Spoil /\ UNCHANGED macroRest
    BY <1>6, ListsAreMacros DEF OpenShow
  <2>. QED BY <1>0, <2>1, SpoilInv
<1>7. CASE HandleEvent
  <2>1. /\ UNCHANGED <<macros, macroRuns, macroMirror, macroDesk, macroLinked, macroHands, macroCrossed>>
        /\ macroMarks' = macroMarks \/ macroMarks' = {}
    BY <1>7 DEF HandleEvent
  <2>2. MacroRestOK' /\ SameSteps /\ MacrosOf(macros)'
    BY <1>0, <2>1 DEF MacroInv, MacroRestOK, RunsInv, SameSteps
  <2>. QED BY <1>0, <2>1, <2>2, RenameInv
<1>8. \/ UNCHANGED macroVars
      \/ (\E r \in DOMAIN macroRuns : RunStep(r)) \/ LinkLost
      \/ \E i \in DOMAIN deckTasks : Fire(i)
      \/ \E id \in DOMAIN macros : Rename(id) \/ Delete(id)
      \/ OpenShow \/ HandleEvent
  <2>1. ASSUME NEW k \in Keys, KeyDown(k) \/ KeyUp(k) \/ EditButton(k) PROVE UNCHANGED macroVars
    BY <2>1 DEF KeyDown, KeyUp, EditButton
  <2>2. ASSUME NEW i \in DOMAIN deckTasks, Take(i) \/ ReadNext(i) \/ PaintNames(i) \/ PushName(i)
        PROVE  UNCHANGED macroVars
    BY <2>2 DEF Take, ReadNext, PaintNames, PushName
  <2>4. CASE PlugPulled \/ PlugBack \/ Command \/ FindAgain \/ ReadKeys \/ ReadFails \/ SyncTarget \/ Switch
    BY <2>4 DEF PlugPulled, PlugBack, Command, FindAgain, ReadKeys, ReadFails, SyncTarget, Switch
  <2>. QED BY <2>1, <2>2, <2>4 DEF DeckNext, MacroStep
<1>. QED BY <1>1, <1>2, <1>3, <1>4, <1>5, <1>6, <1>7, <1>8

LEMMA DeckInitInv == DeckInit => DeckInv
<1>. SUFFICES ASSUME DeckInit PROVE DeckInv
  OBVIOUS
<1>1. MacroInv
  BY MacroInitInv DEF DeckInit
<1>2. DeckQueues
  BY DEF DeckInit, DeckQueues
<1>3. DeckMade
  <2>1. DOMAIN macros \subseteq Ids
    BY DEF DeckInit, MacroInit, Ids
  <2>2. Blanks \in [Keys -> Names]
    BY DEF Blanks, Names
  <2>3. /\ deckOn \in BOOLEAN /\ deckTarget \in BOOLEAN /\ deckWanted \in BOOLEAN /\ deckOpen \in BOOLEAN
        /\ deckPlugged \in BOOLEAN /\ deckFaces = Blanks /\ deckPending = NoFaces
        /\ deckDown = {} /\ deckHeld = {} /\ deckMet = {} /\ deckCrossed = {}
    BY DEF DeckInit
  <2>4. deckMoves = 0 /\ deckTrouble = 0 /\ deckPressed = [k \in Keys |-> 0]
    BY DEF DeckInit
  <2>5. deckMoves + deckTrouble <= MaxDeckMoves /\ deckPressed \in [Keys -> Int]
    BY <2>4, DeckAssumption
  <2>. QED BY <2>1, <2>2, <2>3, <2>4, <2>5 DEF DeckMade
<1>4. ButtonsInv
  BY InitButtons
<1>5. PressInv
  <2>1. \A k : Ups(k) = {} /\ Pressings(k) = {} /\ Taking(k) = {}
    BY DEF DeckInit, Ups, Pressings, Taking
  <2>2. \A k \in Keys : Coming(k) = 0 /\ Unseen(k) = 0
    <3>1. Cardinality({}) = 0 /\ ~deckOpen
      BY FS_EmptySet DEF DeckInit
    <3>2. SUFFICES ASSUME NEW k \in Keys PROVE Coming(k) = 0 /\ Unseen(k) = 0
      OBVIOUS
    <3>3. Cardinality(Ups(k)) = 0 /\ Cardinality(Pressings(k)) = 0 /\ Cardinality(Taking(k)) = 0
      BY <2>1, <3>1
    <3>. QED BY <3>1, <3>3 DEF Coming, Unseen
  <2>3. /\ deckPressed = [k \in Keys |-> 0] /\ deckOn /\ deckPlugged /\ deckQueue = <<>> /\ deckReports = <<>> /\ ~deckOpen
    BY DEF DeckInit
  <2>. QED BY <2>2, <2>3 DEF PressInv
<1>. QED BY <1>1, <1>2, <1>3, <1>4, <1>5 DEF DeckInv

LEMMA DeckNextInv == DeckInv /\ [DeckNext]_boardVars => DeckInv'
<1>. SUFFICES ASSUME DeckInv, [DeckNext]_boardVars PROVE DeckInv'
  OBVIOUS
<1>1. CASE DeckNext
  BY <1>1, DeckMacros, DeckTypes, DeckButtons, DeckPress DEF DeckInv, DeckTyped
<1>2. CASE UNCHANGED boardVars
  <2>1. UNCHANGED macroVars /\ UNCHANGED deckVars
    BY <1>2 DEF boardVars
  <2>2. MacroInv'
    BY <2>1, MacroStutterInv DEF DeckInv
  <2>3. UNCHANGED macros
    BY <2>1 DEF macroVars
  <2>4. /\ UNCHANGED <<deckPressed, deckHeld, deckOpen, deckPlugged, deckMet, deckReports, deckDown, deckEvents,
                       deckTrouble, deckOn, deckSteps, deckQueue, deckTasks>>
    BY <2>1 DEF deckVars, deckConfig, deckThread, deckDevice, deckBounds, deckHistory
  <2>5. DeckQueues' /\ DeckMade' /\ ButtonsInv'
    BY <2>1, <2>3 DEF DeckInv, DeckQueues, DeckMade, ButtonsInv, deckVars, deckConfig, deckThread, deckDevice, deckBounds,
                      deckHistory
  <2>6. \A k \in Keys : Cardinality(Taking(k))' = Cardinality(Taking(k))
    BY <2>4, NotBegun DEF DeckInv
  <2>7. PressInv'
    BY <2>4, <2>6, OtherPress, CalmQueue
  <2>. QED BY <2>2, <2>5, <2>7 DEF DeckInv
<1>. QED BY <1>1, <1>2

LEMMA FiresOfInv == DeckInv => FiresInTurn
<1>. SUFFICES ASSUME DeckInv, NEW k \in Keys
              PROVE  /\ \A i \in DOMAIN deckFired[k].ids :
                          deckFired[k].ids[i] = deckSteps[k][((deckFired[k].from + i - 1) % Len(deckSteps[k])) + 1]
                     /\ deckPressed[k] >= 0
                     /\ DeckQuiet /\ deckTrouble = 0 /\ deckSteps[k] # <<>> => k \in deckMet \/ deckPressed[k] = 0
  BY DEF FiresInTurn
<1>1. DeckQueues /\ DeckTyped /\ PressInv /\ AtTurn(deckSteps[k], deckAt[k], deckFired[k])
  BY DEF DeckInv, DeckTyped, ButtonsInv
<1>2. \A i \in DOMAIN deckFired[k].ids :
        deckFired[k].ids[i] = deckSteps[k][((deckFired[k].from + i - 1) % Len(deckSteps[k])) + 1]
  <2>. DEFINE ids == deckFired[k].ids
  <2>1. ids \in Seq(Ids)
    BY <1>1 DEF AtTurn
  <2>2. DOMAIN ids = 1..Len(ids) /\ (ids = <<>> => DOMAIN ids = {})
    BY <2>1
  <2>. QED BY <1>1, <2>2 DEF AtTurn
<1>3. deckPressed[k] >= 0 /\ deckPressed[k] \in Int
  BY <1>1, PressOf
<1>4. ASSUME DeckQuiet, deckTrouble = 0, deckSteps[k] # <<>>, k \notin deckMet PROVE deckPressed[k] = 0
  <2>1. Ups(k) = {} /\ Pressings(k) = {} /\ Taking(k) = {}
    BY <1>4 DEF DeckQuiet, Ups, Pressings, Taking
  <2>2. Coming(k) = 0
    BY <2>1, FS_EmptySet DEF Coming
  <2>. QED BY <1>1, <1>4, <2>2 DEF PressInv
<1>. QED BY <1>2, <1>3, <1>4

LEMMA DeckTypeOfInv == DeckInv => DeckTypeOK
<1>. SUFFICES ASSUME DeckInv PROVE DeckTypeOK
  OBVIOUS
<1>1. MacroTypeOK
  BY WholeOfInv DEF DeckInv
<1>2. \A k \in Keys : deckAt[k] \in 0..Len(deckSteps[k])
  <2>. SUFFICES ASSUME NEW k \in Keys PROVE deckAt[k] \in 0..Len(deckSteps[k])
    OBVIOUS
  <2>1. AtTurn(deckSteps[k], deckAt[k], deckFired[k])
    BY DEF DeckInv, ButtonsInv
  <2>2. deckSteps[k] \in Seq(Ids) /\ deckAt[k] \in Nat /\ Len(deckSteps[k]) \in Nat
        /\ (Len(deckSteps[k]) = 0 => deckAt[k] = 0) /\ (Len(deckSteps[k]) # 0 => deckAt[k] < Len(deckSteps[k]))
    BY <2>1 DEF AtTurn
  <2>. QED BY <2>2
<1>3. \A i \in DOMAIN deckTasks : deckTasks[i].phase \in {"take", "fire", "run", "name", "push"}
  <2>1. \A i \in DOMAIN deckTasks : deckTasks[i] \in DeckTask
    BY DEF DeckInv, DeckQueues
  <2>. QED BY <2>1, TaskParts
<1>4. Range(deckReports) \subseteq SUBSET Keys
  BY DEF DeckInv, DeckQueues, Range
<1>. QED BY <1>1, <1>2, <1>3, <1>4 DEF DeckTypeOK, DeckInv, DeckMade

\* What the invariant says of presses.
LEMMA PressesOfInv == DeckInv => PressesPlay
BY FiresOfInv, WholeOfInv DEF DeckInv, PressesPlay

\* A press plays the macro that is next on its key, whole and in order, and no
\* press plays twice or, undisturbed, not at all (handle_streamdeck_button,
\* macro_engine.rs): for any keys, any shows, any buttons, and any number of
\* presses, edits, plugs pulled and shows opened.
THEOREM DeckPlaysPresses == DeckSpec => []PressesPlay
<1>1. DeckInv /\ [DeckNext]_boardVars => DeckInv'
  BY DeckNextInv
<1>. QED BY <1>1, DeckInitInv, PressesOfInv, PTL DEF DeckSpec

-----------------------------------------------------------------------------
(* Gangs and pan links: types, and who holds the engine's lock.             *)

Gang == [members : SUBSET Channels, mode : GangModes, sections : GangSections, pan : PanModes, paused : BOOLEAN]
Share == Gang \X Addr
Write == Addr \X Int
Job ==
  {Idle}
    \cup [pc : {"gang"}, addr : Addr, new : Int, old : Int, gangs : SUBSET Gang]
    \cup [pc : {"send"}, addr : Addr, new : Int, old : Int, todo : (SUBSET Share) \ {{}}]
    \cup [pc : {"note"}, addr : Addr, new : Int, old : Int, todo : SUBSET Share, sent : Write]
    \cup [pc : {"link"}, addr : Addr, new : Int]
    \cup [pc : {"linksend"}, writes : (SUBSET Write) \ {{}}]
    \cup [pc : {"linknote"}, writes : SUBSET Write, sent : Write]
Reports == [addr : Addr, value : Int, from : {"hand", "app"}]
Moving(j) == j.pc \in {"send", "note"}

\* The lock is with the loop that moves members, or with none.
Locked == \A l \in LinkLoops : engineLock = l <=> Moving(job[l])
GangLevels ==
  /\ desk \in [Addr -> Int] /\ mirror \in [Addr -> Int] /\ settled \in [Addr -> Int]
  /\ virtual \in [Addr -> Int \cup {NoValue}] /\ suppressed \in [Addr -> Int \cup {NoValue}]
  /\ sentLog \in [Addr -> Int \cup {NoValue}] /\ drive \in [Addr -> Int \cup {NoValue}]
GangQueues == inbox \in [LinkLoops -> Seq(Reports)] /\ wire \in Seq(Write)
GangJobs == job \in [LinkLoops -> Job] /\ Locked /\ engineLock \in LinkLoops \cup {NoValue}
GangSets == links \in LinkSets /\ gangs \in [Gangs -> Gang] /\ NoOverlap(gangs)
GangInv == GangSets /\ GangLevels /\ GangQueues /\ GangJobs

LEMMA GangConstants ==
  /\ Inf \in Int /\ Floor \in Int /\ Top \in Int /\ Rail \in Int /\ NoValue \notin Int /\ NoValue \notin LinkLoops
  /\ Start \in [Channels -> Int] /\ MemberSets \subseteq SUBSET Channels /\ Bound \subseteq Channels
  /\ Handled \subseteq Addr
<1>1. Floor..Top \subseteq Int
  BY LevelAssumption
<1>2. Start \in [Channels -> Int]
  BY <1>1, LevelAssumption
<1>. QED BY <1>2, GangAssumption, LevelAssumption

LEMMA JobParts ==
  ASSUME NEW j \in Job
  PROVE  /\ j.pc \in {"idle", "gang", "send", "note", "link", "linksend", "linknote"}
         /\ j.pc \in {"gang", "send", "note", "link"} => j.addr \in Addr /\ j.new \in Int
         /\ j.pc = "idle" <=> j = Idle
         /\ j.pc = "gang" => j.old \in Int /\ j.gangs \subseteq Gang
         /\ j.pc = "send" => j.old \in Int /\ j.todo \subseteq Share /\ j.todo # {}
         /\ j.pc = "note" => j.old \in Int /\ j.todo \subseteq Share /\ j.sent \in Write
         /\ j.pc = "linksend" => j.writes \subseteq Write /\ j.writes # {}
         /\ j.pc = "linknote" => j.writes \subseteq Write /\ j.sent \in Write
<1>1. CASE j = Idle
  BY <1>1 DEF Idle
<1>2. CASE j \in [pc : {"gang"}, addr : Addr, new : Int, old : Int, gangs : SUBSET Gang]
  BY <1>2 DEF Idle
<1>3. CASE j \in [pc : {"send"}, addr : Addr, new : Int, old : Int, todo : (SUBSET Share) \ {{}}]
  <2>1. j.pc = "send" /\ j.addr \in Addr /\ j.new \in Int /\ j.old \in Int /\ j.todo \in (SUBSET Share) \ {{}} /\ j # Idle
    BY <1>3 DEF Idle
  <2>2. j.todo \subseteq Share /\ j.todo # {}
    BY <2>1
  <2>. QED BY <2>1, <2>2
<1>4. CASE j \in [pc : {"note"}, addr : Addr, new : Int, old : Int, todo : SUBSET Share, sent : Write]
  BY <1>4 DEF Idle
<1>5. CASE j \in [pc : {"link"}, addr : Addr, new : Int]
  BY <1>5 DEF Idle
<1>6. CASE j \in [pc : {"linksend"}, writes : (SUBSET Write) \ {{}}]
  <2>1. j.pc = "linksend" /\ j.writes \in (SUBSET Write) \ {{}} /\ j # Idle
    BY <1>6 DEF Idle
  <2>2. j.writes \subseteq Write /\ j.writes # {}
    BY <2>1
  <2>. QED BY <2>1, <2>2
<1>7. CASE j \in [pc : {"linknote"}, writes : SUBSET Write, sent : Write]
  BY <1>7 DEF Idle
<1>. QED BY <1>1, <1>2, <1>3, <1>4, <1>5, <1>6, <1>7 DEF Job

LEMMA LevelArithmetic ==
  ASSUME NEW p, NEW v \in Int, NEW w \in Int, NEW x \in Int \cup {NoValue}
  PROVE  /\ Larger(v, w) \in Int /\ ClampValue(p, v) \in Int /\ ClampGangSend(p, v) \in Int
         /\ GangSeed(p, v) \in Int /\ Delta(p, v, w) \in Int /\ Stands(p, x, v) \in Int
<1>1. /\ Larger(v, w) \in Int /\ ClampValue(p, v) \in Int
      /\ Larger(v, Floor) \in Int /\ Larger(w, Floor) \in Int
  BY GangConstants DEF Larger, ClampValue, At
<1>2. ClampGangSend(p, v) \in Int /\ GangSeed(p, v) \in Int /\ Delta(p, v, w) \in Int
  BY <1>1, GangConstants DEF ClampGangSend, GangSeed, Delta
<1>3. Stands(p, x, v) \in Int
  BY <1>2 DEF Stands
<1>. QED BY <1>1, <1>2, <1>3

LEMMA CopiedLevel == ASSUME NEW g, NEW p, NEW v \in Int PROVE Copied(g, p, v) \in Int
<1>1. (IF Mirrored(g, p) THEN -v ELSE v) \in Int
  OBVIOUS
<1>. QED BY <1>1, LevelArithmetic DEF Copied

LEMMA TargetsTyped ==
  ASSUME NEW gs \in SUBSET Gang, NEW a \in Addr, NEW old, NEW new
  PROVE  Targets(gs, a, old, new) \subseteq Share
<1>1. ASSUME NEW g \in gs, NEW c \in g.members PROVE <<g, <<c, a[2]>>>> \in Share
  <2>1. a[2] \in Params /\ g \in Gang
    BY DEF Addr
  <2>2. c \in Channels
    BY <2>1, <1>1 DEF Gang
  <2>. QED BY <2>1, <2>2 DEF Share, Addr
<1>. QED BY <1>1 DEF Targets

\* How a loop's job may change, and the lock with it.
LEMMA LockStays ==
  ASSUME GangJobs, NEW l \in LinkLoops, NEW j \in Job, job' = [job EXCEPT ![l] = j],
         Moving(j) <=> Moving(job[l]), UNCHANGED engineLock
  PROVE  GangJobs'
BY DEF GangJobs, Locked

LEMMA LockTurns ==
  ASSUME GangJobs, NEW l \in LinkLoops, NEW j \in Job, job' = [job EXCEPT ![l] = j],
         engineLock \in {l, NoValue}, engineLock' = IF Moving(j) THEN l ELSE NoValue
  PROVE  GangJobs'
BY GangConstants DEF GangJobs, Locked

LEMMA LinkTurnJob ==
  ASSUME NEW a \in Addr, NEW v \in Int
  PROVE  LinkTurn(a, v) \in Job /\ ~Moving(LinkTurn(a, v))
BY DEF LinkTurn, Job, Idle, Moving

\* The first on a queue and the rest of it.
LEMMA GangEnds ==
  ASSUME NEW S, NEW q \in Seq(S)
  PROVE  /\ q # <<>> => Head(q) \in S /\ Tail(q) \in Seq(S)
         /\ \A e \in S : Append(q, e) \in Seq(S)
         /\ \A i \in 1..Len(q) : q[i] \in S
OBVIOUS

-----------------------------------------------------------------------------
\* The law.
LEMMA DrivenTyped ==
  ASSUME GangLevels, NEW a \in Addr, NEW old \in Int, NEW new \in Int
  PROVE  DrivenTo(a, old, new) \in [Addr -> Int \cup {NoValue}]
<1>. SUFFICES ASSUME NEW b \in Addr
              PROVE  /\ Stands(b[2], drive[b], settled[b]) + Delta(a[2], old, new) \in Int
                     /\ drive[b] \in Int \cup {NoValue}
  BY DEF DrivenTo
<1>1. settled[b] \in Int /\ drive[b] \in Int \cup {NoValue}
  BY DEF GangLevels
<1>2. Stands(b[2], drive[b], settled[b]) \in Int /\ Delta(a[2], old, new) \in Int
  BY <1>1, LevelArithmetic
<1>. QED BY <1>1, <1>2

\* What a member driven relative to where it stood is driven to.
LEMMA DrivenLevel ==
  ASSUME GangLevels, NEW a \in Addr, NEW old \in Int, NEW new \in Int, NEW s \in Steps(a, old, new), Moves(s[1], a[2]),
         s[2] \in Addr
  PROVE  DrivenTo(a, old, new)[s[2]] \in Int
<1>1. DrivenTo(a, old, new)[s[2]] = Stands(s[2][2], drive[s[2]], settled[s[2]]) + Delta(a[2], old, new)
  BY DEF DrivenTo
<1>2. settled[s[2]] \in Int /\ drive[s[2]] \in Int \cup {NoValue}
  BY DEF GangLevels
<1>3. Stands(s[2][2], drive[s[2]], settled[s[2]]) \in Int /\ Delta(a[2], old, new) \in Int
  BY <1>2, LevelArithmetic
<1>. QED BY <1>1, <1>3

LEMMA SettledTyped ==
  ASSUME GangLevels, gangs \in [Gangs -> Gang], NEW a \in Addr, NEW old \in Int, NEW new \in Int
  PROVE  SettledBy(a, old, new) \in [Addr -> Int]
<1>. DEFINE step(b) == CHOOSE s \in Steps(a, old, new) : s[2] = b
            level(b) == IF b = a THEN new
                        ELSE IF \E s \in Steps(a, old, new) : s[2] = b
                        THEN IF Moves(step(b)[1], a[2]) THEN ClampGangSend(b[2], DrivenTo(a, old, new)[b])
                                                        ELSE Copied(step(b)[1], b[2], new)
                        ELSE settled[b]
            levels == [b \in Addr |-> level(b)]
<1>1. \A b \in Addr : level(b) \in Int
  <2>. SUFFICES ASSUME NEW b \in Addr PROVE level(b) \in Int
    OBVIOUS
  <2>1. settled[b] \in Int
    BY DEF GangLevels
  <2>2. ASSUME \E s \in Steps(a, old, new) : s[2] = b, Moves(step(b)[1], a[2])
        PROVE  ClampGangSend(b[2], DrivenTo(a, old, new)[b]) \in Int
    <3>1. step(b) \in Steps(a, old, new) /\ step(b)[2] = b
      BY <2>2
    <3>. HIDE DEF step
    <3>2. DrivenTo(a, old, new)[b] \in Int
      BY <2>2, <3>1, DrivenLevel
    <3>. QED BY <3>2, LevelArithmetic
  <2>3. Copied(step(b)[1], b[2], new) \in Int
    BY CopiedLevel
  <2>. HIDE DEF step
  <2>. QED BY <2>1, <2>2, <2>3
<1>2. SettledBy(a, old, new) =
        [b \in Addr |->
           IF a[2] = "pan" /\ a[1] \in Bound /\ b[2] = "aux"
           THEN IF b[1] = a[1] THEN new
                ELSE IF b[1] \in PanSiblings(a[1], "fmp") THEN levels[<<b[1], "pan">>]
                ELSE IF b[1] \in PanSiblings(a[1], "sends") THEN new
                ELSE levels[b]
           ELSE levels[b]]
  BY DEF SettledBy
<1>. HIDE DEF level
<1>3. levels \in [Addr -> Int]
  BY <1>1
<1>. HIDE DEF levels
<1>4. \A b \in Addr : <<b[1], "pan">> \in Addr
  BY DEF Addr, Params
<1>5. \A b \in Addr : levels[b] \in Int /\ levels[<<b[1], "pan">>] \in Int
  BY <1>3, <1>4
<1>. QED BY <1>2, <1>5

-----------------------------------------------------------------------------
(* Each step keeps the types.                                               *)

LEMMA HandMoveInv ==
  GangInv /\ (\E a \in Handled : \E v \in LevelsOf(a[2]) : HandMove(a, v)) => GangInv'
<1>. SUFFICES ASSUME GangInv, NEW a \in Handled, NEW v \in LevelsOf(a[2]), HandMove(a, v) PROVE GangInv'
  OBVIOUS
<1>1. a \in Addr /\ v \in Int
  BY GangConstants DEF LevelsOf
<1>2. GangSets /\ GangLevels /\ GangQueues /\ GangJobs
  BY DEF GangInv
<1>3. settled[a] \in Int
  BY <1>1, <1>2 DEF GangLevels
<1>4. settled' = SettledBy(a, settled[a], v) /\ drive' = DrivenTo(a, settled[a], v)
  BY DEF HandMove
<1>5. settled' \in [Addr -> Int] /\ drive' \in [Addr -> Int \cup {NoValue}]
  BY <1>1, <1>2, <1>3, <1>4, SettledTyped, DrivenTyped DEF GangSets
<1>6. /\ desk' = [desk EXCEPT ![a] = v]
      /\ inbox' = [l \in LinkLoops |-> IF l \in links THEN Append(inbox[l], Report(a, v, "hand")) ELSE <<>>]
      /\ UNCHANGED <<links, gangs, mirror, virtual, suppressed, sentLog, engineLock, job, wire>>
  BY DEF HandMove
<1>7. GangLevels'
  BY <1>1, <1>2, <1>5, <1>6 DEF GangLevels
<1>8. inbox' \in [LinkLoops -> Seq(Reports)]
  <2>1. Report(a, v, "hand") \in Reports
    BY <1>1 DEF Report, Reports
  <2>2. \A l \in LinkLoops : inbox[l] \in Seq(Reports)
    BY <1>2 DEF GangQueues
  <2>3. \A l \in LinkLoops : Append(inbox[l], Report(a, v, "hand")) \in Seq(Reports) /\ <<>> \in Seq(Reports)
    BY <2>1, <2>2
  <2>. QED BY <1>6, <2>3
<1>9. GangQueues' /\ GangJobs' /\ GangSets'
  BY <1>2, <1>6, <1>8 DEF GangQueues, GangJobs, GangSets, Locked, NoOverlap
<1>. QED BY <1>7, <1>9 DEF GangInv

LEMMA TogglePausedInv == GangInv /\ (\E g \in Gangs : TogglePaused(g)) => GangInv'
<1>. SUFFICES ASSUME GangInv, NEW g \in Gangs, TogglePaused(g) PROVE GangInv'
  OBVIOUS
<1>1. /\ gangs' = [gangs EXCEPT ![g].paused = ~@]
      /\ UNCHANGED <<links, desk, mirror, virtual, suppressed, sentLog, engineLock, job, inbox, wire, settled, drive>>
  BY DEF TogglePaused
<1>2. GangSets /\ GangLevels /\ GangQueues /\ GangJobs
  BY DEF GangInv
<1>3. gangs[g] \in Gang /\ gangs[g].paused \in BOOLEAN
  BY <1>2 DEF GangSets, Gang
<1>4. [gangs[g] EXCEPT !.paused = ~gangs[g].paused] \in Gang
  BY <1>3 DEF Gang
<1>5. gangs' \in [Gangs -> Gang] /\ \A h \in Gangs : gangs'[h].members = gangs[h].members
  BY <1>1, <1>2, <1>3, <1>4 DEF GangSets, Gang
<1>6. GangSets'
  BY <1>1, <1>2, <1>5 DEF GangSets, NoOverlap
<1>7. GangLevels' /\ GangQueues' /\ GangJobs'
  BY <1>1, <1>2 DEF GangLevels, GangQueues, GangJobs, Locked
<1>. QED BY <1>6, <1>7 DEF GangInv

LEMMA DeskApplyInv == GangInv /\ DeskApply => GangInv'
<1>. SUFFICES ASSUME GangInv, DeskApply PROVE GangInv'
  OBVIOUS
<1>. DEFINE a == Head(wire)[1]
            v == IF a[2] = "fader" /\ Head(wire)[2] > Top THEN Top ELSE Head(wire)[2]
<1>1. /\ wire # <<>> /\ wire' = Tail(wire) /\ desk' = [desk EXCEPT ![a] = v]
      /\ inbox' = IF "pad" \in links THEN [inbox EXCEPT !["pad"] = Append(@, Report(a, v, "app"))] ELSE inbox
      /\ UNCHANGED <<links, gangs, mirror, virtual, suppressed, sentLog, engineLock, job, settled, drive>>
  BY DEF DeskApply, law
<1>2. GangSets /\ GangLevels /\ GangQueues /\ GangJobs
  BY DEF GangInv
<1>3. a \in Addr /\ v \in Int /\ wire' \in Seq(Write)
  <2>1. Head(wire) \in Write /\ Tail(wire) \in Seq(Write)
    BY <1>1, <1>2, GangEnds DEF GangQueues
  <2>. QED BY <1>1, <2>1, GangConstants DEF Write
<1>. HIDE DEF a, v
<1>4. GangLevels'
  BY <1>1, <1>2, <1>3 DEF GangLevels
<1>5. inbox' \in [LinkLoops -> Seq(Reports)]
  <2>1. Report(a, v, "app") \in Reports
    BY <1>3 DEF Report, Reports
  <2>2. inbox["pad"] \in Seq(Reports) /\ "pad" \in LinkLoops
    BY <1>2 DEF GangQueues, LinkLoops
  <2>3. Append(inbox["pad"], Report(a, v, "app")) \in Seq(Reports)
    BY <2>1, <2>2
  <2>. QED BY <1>1, <1>2, <2>2, <2>3 DEF GangQueues
<1>6. GangQueues' /\ GangJobs' /\ GangSets'
  BY <1>1, <1>2, <1>3, <1>5 DEF GangQueues, GangJobs, GangSets, Locked, NoOverlap
<1>. QED BY <1>4, <1>6 DEF GangInv

LEMMA MirrorInboundInv == GangInv => \A l \in LinkLoops : MirrorInbound(l) => GangInv'
<1>. SUFFICES ASSUME GangInv, NEW l \in LinkLoops, MirrorInbound(l) PROVE GangInv'
  OBVIOUS
<1>. DEFINE a == Head(inbox[l]).addr  v == Head(inbox[l]).value
            copy == {gangs[g] : g \in {g \in Gangs : a[1] \in gangs[g].members}}
            next == IF IsEcho(a, v) THEN Idle
                    ELSE IF copy = {} THEN LinkTurn(a, v)
                    ELSE [pc |-> "gang", addr |-> a, new |-> v, old |-> mirror[a], gangs |-> copy]
<1>1. /\ inbox[l] # <<>> /\ job[l] = Idle /\ mirror' = [mirror EXCEPT ![a] = v] /\ job' = [job EXCEPT ![l] = next]
      /\ inbox' = [inbox EXCEPT ![l] = Tail(@)]
      /\ UNCHANGED <<links, gangs, desk, virtual, suppressed, sentLog, engineLock, wire, settled, drive>>
  BY DEF MirrorInbound, law
<1>2. GangSets /\ GangLevels /\ GangQueues /\ GangJobs
  BY DEF GangInv
<1>3. Head(inbox[l]) \in Reports /\ Tail(inbox[l]) \in Seq(Reports)
  BY <1>1, <1>2, GangEnds DEF GangQueues
<1>4. a \in Addr /\ v \in Int /\ copy \subseteq Gang
  BY <1>2, <1>3 DEF Reports, GangSets
<1>. HIDE DEF a, v, copy
<1>5. next \in Job /\ ~Moving(next)
  <2>1. Idle \in Job /\ ~Moving(Idle)
    BY DEF Job, Idle, Moving
  <2>2. LinkTurn(a, v) \in Job /\ ~Moving(LinkTurn(a, v))
    BY <1>4, LinkTurnJob
  <2>3. mirror[a] \in Int
    BY <1>2, <1>4 DEF GangLevels
  <2>. DEFINE g == [pc |-> "gang", addr |-> a, new |-> v, old |-> mirror[a], gangs |-> copy]
  <2>4. g \in Job /\ ~Moving(g)
    BY <1>4, <2>3 DEF Job, Moving
  <2>. HIDE DEF g
  <2>5. next = Idle \/ next = LinkTurn(a, v) \/ next = g
    BY DEF g
  <2>. QED BY <2>1, <2>2, <2>4, <2>5
<1>. HIDE DEF next
<1>6. ~Moving(job[l])
  BY <1>1 DEF Moving, Idle
<1>7. GangJobs'
  BY <1>1, <1>2, <1>5, <1>6, LockStays
<1>8. GangLevels' /\ GangQueues' /\ GangSets'
  BY <1>1, <1>2, <1>3, <1>4 DEF GangLevels, GangQueues, GangSets, NoOverlap
<1>. QED BY <1>7, <1>8 DEF GangInv

LEMMA ProcessGangUpdateInv == GangInv => \A l \in LinkLoops : ProcessGangUpdate(l) => GangInv'
<1>. SUFFICES ASSUME GangInv, NEW l \in LinkLoops, ProcessGangUpdate(l) PROVE GangInv'
  OBVIOUS
<1>. DEFINE j == job[l]
            todo == IF suppressed[j.addr] = j.new THEN {} ELSE Targets(j.gangs, j.addr, j.old, j.new)
            next == IF todo = {} THEN LinkTurn(j.addr, j.new)
                    ELSE [pc |-> "send", addr |-> j.addr, new |-> j.new, old |-> j.old, todo |-> todo]
<1>1. /\ job[l].pc = "gang" /\ engineLock = NoValue /\ engineLock' = LockAfter(todo, l)
      /\ job' = [job EXCEPT ![l] = next] /\ suppressed' = [suppressed EXCEPT ![j.addr] = NoValue]
      /\ UNCHANGED <<links, gangs, desk, mirror, virtual, sentLog, inbox, wire, settled, drive>>
  BY DEF ProcessGangUpdate, law
<1>2. GangSets /\ GangLevels /\ GangQueues /\ GangJobs
  BY DEF GangInv
<1>3. j.addr \in Addr /\ j.new \in Int /\ j.old \in Int /\ j.gangs \subseteq Gang
  BY <1>1, <1>2, JobParts DEF GangJobs
<1>4. todo \subseteq Share
  BY <1>3, TargetsTyped
<1>. HIDE DEF todo
<1>5. next \in Job /\ (Moving(next) <=> todo # {})
  <2>1. CASE todo = {}
    BY <1>3, <2>1, LinkTurnJob
  <2>2. CASE todo # {}
    <3>1. todo \in (SUBSET Share) \ {{}}
      BY <1>4, <2>2
    <3>. QED BY <1>3, <2>2, <3>1 DEF Job, Moving
  <2>. QED BY <2>1, <2>2
<1>. HIDE DEF next
<1>6. engineLock' = IF Moving(next) THEN l ELSE NoValue
  BY <1>1, <1>5 DEF LockAfter
<1>7. GangJobs'
  BY <1>1, <1>2, <1>5, <1>6, LockTurns
<1>8. GangLevels' /\ GangQueues' /\ GangSets'
  BY <1>1, <1>2, <1>3 DEF GangLevels, GangQueues, GangSets, NoOverlap
<1>. QED BY <1>7, <1>8 DEF GangInv

\* A write on its way to the desk and in the log of what was sent.
LEMMA SendTyped ==
  ASSUME GangInv, NEW a \in Addr, NEW v \in Int, Send(a, v)
  PROVE  wire' \in Seq(Write) /\ sentLog' \in [Addr -> Int \cup {NoValue}]
<1>1. wire' = Append(wire, <<a, v>>) /\ sentLog' = [sentLog EXCEPT ![a] = v]
  BY DEF Send
<1>2. wire \in Seq(Write) /\ sentLog \in [Addr -> Int \cup {NoValue}]
  BY DEF GangInv, GangQueues, GangLevels
<1>3. <<a, v>> \in Write
  BY DEF Write
<1>. QED BY <1>1, <1>2, <1>3

LEMMA MoveMemberInv ==
  GangInv => \A l \in LinkLoops : (job[l].pc = "send" /\ \E s \in job[l].todo : MoveMember(l, s)) => GangInv'
<1>. SUFFICES ASSUME GangInv, NEW l \in LinkLoops, job[l].pc = "send", NEW s \in job[l].todo, MoveMember(l, s) PROVE GangInv'
  OBVIOUS
<1>. DEFINE j == job[l]  b == s[2]
            to == Stands(b[2], virtual[b], mirror[b]) + Delta(b[2], j.old, j.new)
            v == IF Moves(s[1], b[2]) THEN ClampGangSend(b[2], to) ELSE Copied(s[1], b[2], j.new)
            next == [pc |-> "note", addr |-> j.addr, new |-> j.new, old |-> j.old, todo |-> j.todo \ {s}, sent |-> <<b, v>>]
<1>1. /\ virtual' = IF Moves(s[1], b[2]) THEN [virtual EXCEPT ![b] = to] ELSE virtual
      /\ Send(b, v) /\ job' = [job EXCEPT ![l] = next]
      /\ UNCHANGED <<links, gangs, desk, mirror, suppressed, engineLock, inbox, settled, drive>>
  BY DEF MoveMember, law
<1>2. GangSets /\ GangLevels /\ GangQueues /\ GangJobs
  BY DEF GangInv
<1>3. j.addr \in Addr /\ j.new \in Int /\ j.old \in Int /\ j.todo \subseteq Share
  BY <1>2, JobParts DEF GangJobs
<1>4. b \in Addr
  BY <1>3 DEF Share
<1>5. to \in Int
  <2>1. mirror[b] \in Int /\ virtual[b] \in Int \cup {NoValue}
    BY <1>2, <1>4 DEF GangLevels
  <2>. HIDE DEF b, j
  <2>2. Stands(b[2], virtual[b], mirror[b]) \in Int /\ Delta(b[2], j.old, j.new) \in Int
    BY <1>3, <2>1, LevelArithmetic
  <2>. QED BY <2>2
<1>. HIDE DEF to
<1>6. v \in Int
  BY <1>3, <1>5, LevelArithmetic, CopiedLevel
<1>. HIDE DEF v, b
<1>7. next \in Job /\ Moving(next)
  BY <1>3, <1>4, <1>6 DEF Job, Write, Moving
<1>8. Moving(job[l])
  BY DEF Moving
<1>. HIDE DEF next
<1>9. GangJobs'
  BY <1>1, <1>2, <1>7, <1>8, LockStays
<1>10. virtual' \in [Addr -> Int \cup {NoValue}]
  BY <1>1, <1>2, <1>4, <1>5 DEF GangLevels
<1>11. wire' \in Seq(Write) /\ sentLog' \in [Addr -> Int \cup {NoValue}]
  BY <1>1, <1>4, <1>6, SendTyped
<1>12. GangLevels' /\ GangQueues' /\ GangSets'
  BY <1>1, <1>2, <1>10, <1>11 DEF GangLevels, GangQueues, GangSets, NoOverlap
<1>. QED BY <1>9, <1>12 DEF GangInv

LEMMA NoteMemberInv == GangInv => \A l \in LinkLoops : NoteMember(l) => GangInv'
<1>. SUFFICES ASSUME GangInv, NEW l \in LinkLoops, NoteMember(l) PROVE GangInv'
  OBVIOUS
<1>. DEFINE j == job[l]
            next == IF j.todo = {} THEN LinkTurn(j.addr, j.new)
                    ELSE [pc |-> "send", addr |-> j.addr, new |-> j.new, old |-> j.old, todo |-> j.todo]
<1>1. /\ job[l].pc = "note" /\ suppressed' = [suppressed EXCEPT ![j.sent[1]] = j.sent[2]]
      /\ mirror' = [mirror EXCEPT ![j.sent[1]] = j.sent[2]] /\ engineLock' = LockAfter(j.todo, l)
      /\ job' = [job EXCEPT ![l] = next]
      /\ UNCHANGED <<links, gangs, desk, virtual, sentLog, inbox, wire, settled, drive>>
  BY DEF NoteMember, law
<1>2. GangSets /\ GangLevels /\ GangQueues /\ GangJobs
  BY DEF GangInv
<1>3. j.addr \in Addr /\ j.new \in Int /\ j.old \in Int /\ j.todo \subseteq Share /\ j.sent[1] \in Addr /\ j.sent[2] \in Int
  BY <1>1, <1>2, JobParts DEF GangJobs, Write
<1>4. engineLock = l
  BY <1>1, <1>2 DEF GangJobs, Locked, Moving
<1>. HIDE DEF j
<1>5. next \in Job /\ (Moving(next) <=> j.todo # {})
  <2>1. CASE j.todo = {}
    BY <1>3, <2>1, LinkTurnJob
  <2>2. CASE j.todo # {}
    <3>1. j.todo \in (SUBSET Share) \ {{}}
      BY <1>3, <2>2
    <3>. QED BY <1>3, <2>2, <3>1 DEF Job, Moving
  <2>. QED BY <2>1, <2>2
<1>. HIDE DEF next
<1>6. engineLock' = IF Moving(next) THEN l ELSE NoValue
  BY <1>1, <1>5 DEF LockAfter
<1>7. GangJobs'
  BY <1>1, <1>2, <1>4, <1>5, <1>6, LockTurns
<1>8. GangLevels' /\ GangQueues' /\ GangSets'
  BY <1>1, <1>2, <1>3 DEF GangLevels, GangQueues, GangSets, NoOverlap
<1>. QED BY <1>7, <1>8 DEF GangInv

LEMMA ComputePanWritesInv == GangInv => \A l \in LinkLoops : ComputePanWrites(l) => GangInv'
<1>. SUFFICES ASSUME GangInv, NEW l \in LinkLoops, ComputePanWrites(l) PROVE GangInv'
  OBVIOUS
<1>. DEFINE c == job[l].addr[1]  new == job[l].new
            fmp == PanSiblings(c, "fmp")  sends == PanSiblings(c, "sends") \ fmp
            writes == {<<<<c, "aux">>, new>>}
                      \cup {<<<<d, "aux">>, ClampValue("pan", mirror[<<d, "pan">>])>> : d \in fmp}
                      \cup {<<<<d, "aux">>, ClampValue("pan", new)>> : d \in sends}
            next == [pc |-> "linksend", writes |-> writes]
<1>1. /\ job[l].pc = "link" /\ job' = [job EXCEPT ![l] = next]
      /\ UNCHANGED <<links, gangs, desk, mirror, virtual, suppressed, sentLog, engineLock, inbox, wire, settled, drive>>
  BY DEF ComputePanWrites, law
<1>2. GangSets /\ GangLevels /\ GangQueues /\ GangJobs
  BY DEF GangInv
<1>3. c \in Channels /\ new \in Int
  BY <1>1, <1>2, JobParts DEF GangJobs, Addr
<1>. HIDE DEF c, new
<1>4. \A section : PanSiblings(c, section) \subseteq Channels
  BY <1>2 DEF GangSets, Gang, PanSiblings
<1>. HIDE DEF fmp, sends
<1>5. fmp \subseteq Channels /\ sends \subseteq Channels
  BY <1>4 DEF fmp, sends
<1>6. \A d \in Channels : /\ <<d, "aux">> \in Addr /\ ClampValue("pan", mirror[<<d, "pan">>]) \in Int
                          /\ ClampValue("pan", new) \in Int
  <2>. SUFFICES ASSUME NEW d \in Channels
                PROVE  /\ <<d, "aux">> \in Addr /\ ClampValue("pan", mirror[<<d, "pan">>]) \in Int
                       /\ ClampValue("pan", new) \in Int
    OBVIOUS
  <2>1. <<d, "aux">> \in Addr /\ <<d, "pan">> \in Addr
    BY DEF Addr, Params
  <2>2. mirror[<<d, "pan">>] \in Int
    BY <1>2, <2>1 DEF GangLevels
  <2>. QED BY <1>3, <2>1, <2>2, LevelArithmetic
<1>7. writes \subseteq Write /\ writes # {}
  <2>1. <<<<c, "aux">>, new>> \in Write
    BY <1>3, <1>6 DEF Write
  <2>2. \A d \in fmp : <<<<d, "aux">>, ClampValue("pan", mirror[<<d, "pan">>])>> \in Write
    BY <1>5, <1>6 DEF Write
  <2>3. \A d \in sends : <<<<d, "aux">>, ClampValue("pan", new)>> \in Write
    BY <1>5, <1>6 DEF Write
  <2>4. <<<<c, "aux">>, new>> \in writes
    OBVIOUS
  <2>5. writes \subseteq Write
    BY <2>1, <2>2, <2>3
  <2>. QED BY <2>4, <2>5
<1>. HIDE DEF writes
<1>8. next \in Job /\ ~Moving(next)
  <2>1. writes \in (SUBSET Write) \ {{}}
    BY <1>7
  <2>. QED BY <2>1 DEF Job, Moving
<1>. HIDE DEF next
<1>9. ~Moving(job[l])
  BY <1>1 DEF Moving
<1>10. GangJobs'
  BY <1>1, <1>2, <1>8, <1>9, LockStays
<1>11. GangLevels' /\ GangQueues' /\ GangSets'
  BY <1>1, <1>2 DEF GangLevels, GangQueues, GangSets, NoOverlap
<1>. QED BY <1>10, <1>11 DEF GangInv

LEMMA SendPanInv ==
  GangInv => \A l \in LinkLoops : (job[l].pc = "linksend" /\ \E w \in job[l].writes : SendPan(l, w)) => GangInv'
<1>. SUFFICES ASSUME GangInv, NEW l \in LinkLoops, job[l].pc = "linksend", NEW w \in job[l].writes, SendPan(l, w)
              PROVE  GangInv'
  OBVIOUS
<1>. DEFINE next == [pc |-> "linknote", writes |-> job[l].writes \ {w}, sent |-> w]
<1>1. /\ Send(w[1], w[2]) /\ job' = [job EXCEPT ![l] = next]
      /\ UNCHANGED <<links, gangs, desk, mirror, virtual, suppressed, engineLock, inbox, settled, drive>>
  BY DEF SendPan, law
<1>2. GangSets /\ GangLevels /\ GangQueues /\ GangJobs
  BY DEF GangInv
<1>3. job[l].writes \subseteq Write /\ w \in Write
  BY <1>2, JobParts DEF GangJobs
<1>4. next \in Job /\ ~Moving(next)
  BY <1>3 DEF Job, Moving
<1>5. ~Moving(job[l])
  BY DEF Moving
<1>. HIDE DEF next
<1>6. GangJobs'
  BY <1>1, <1>2, <1>4, <1>5, LockStays
<1>7. w[1] \in Addr /\ w[2] \in Int
  BY <1>3 DEF Write
<1>8. wire' \in Seq(Write) /\ sentLog' \in [Addr -> Int \cup {NoValue}]
  BY <1>1, <1>7, SendTyped
<1>9. GangLevels' /\ GangQueues' /\ GangSets'
  BY <1>1, <1>2, <1>8 DEF GangLevels, GangQueues, GangSets, NoOverlap
<1>. QED BY <1>6, <1>9 DEF GangInv

LEMMA NotePanInv == GangInv => \A l \in LinkLoops : NotePan(l) => GangInv'
<1>. SUFFICES ASSUME GangInv, NEW l \in LinkLoops, NotePan(l) PROVE GangInv'
  OBVIOUS
<1>. DEFINE j == job[l]  next == IF j.writes = {} THEN Idle ELSE [pc |-> "linksend", writes |-> j.writes]
<1>1. /\ job[l].pc = "linknote" /\ mirror' = [mirror EXCEPT ![j.sent[1]] = j.sent[2]] /\ job' = [job EXCEPT ![l] = next]
      /\ UNCHANGED <<links, gangs, desk, virtual, suppressed, sentLog, engineLock, inbox, wire, settled, drive>>
  BY DEF NotePan, law
<1>2. GangSets /\ GangLevels /\ GangQueues /\ GangJobs
  BY DEF GangInv
<1>3. j.writes \subseteq Write /\ j.sent[1] \in Addr /\ j.sent[2] \in Int
  BY <1>1, <1>2, JobParts DEF GangJobs, Write
<1>4. ~Moving(job[l])
  BY <1>1 DEF Moving
<1>. HIDE DEF j
<1>5. next \in Job /\ ~Moving(next)
  <2>1. CASE j.writes = {}
    BY <2>1 DEF Job, Idle, Moving
  <2>2. CASE j.writes # {}
    <3>1. j.writes \in (SUBSET Write) \ {{}}
      BY <1>3, <2>2
    <3>. QED BY <2>2, <3>1 DEF Job, Moving
  <2>. QED BY <2>1, <2>2
<1>. HIDE DEF next
<1>6. GangJobs'
  BY <1>1, <1>2, <1>4, <1>5, LockStays
<1>7. GangLevels' /\ GangQueues' /\ GangSets'
  BY <1>1, <1>2, <1>3 DEF GangLevels, GangQueues, GangSets, NoOverlap
<1>. QED BY <1>6, <1>7 DEF GangInv

LEMMA ForgetsInv == GangInv /\ (\E a \in Addr : ForgetSuppressed(a) \/ ForgetSent(a)) => GangInv'
<1>. SUFFICES ASSUME GangInv, NEW a \in Addr, ForgetSuppressed(a) \/ ForgetSent(a) PROVE GangInv'
  OBVIOUS
<1>1. /\ suppressed' \in {suppressed, [suppressed EXCEPT ![a] = NoValue]}
      /\ sentLog' \in {sentLog, [sentLog EXCEPT ![a] = NoValue]}
      /\ UNCHANGED <<links, gangs, desk, mirror, virtual, engineLock, job, inbox, wire, settled, drive>>
  BY DEF ForgetSuppressed, ForgetSent, law
<1>2. GangSets /\ GangLevels /\ GangQueues /\ GangJobs
  BY DEF GangInv
<1>. QED BY <1>1, <1>2 DEF GangLevels, GangQueues, GangJobs, GangSets, Locked, NoOverlap, GangInv

LEMMA GangInitInv == GangInit => GangInv
<1>. SUFFICES ASSUME GangInit PROVE GangInv
  OBVIOUS
<1>1. GangSets
  <2>1. gangs \in [Gangs -> GangSettings] /\ NoOverlap(gangs) /\ links \in LinkSets
    BY DEF GangInit
  <2>2. GangSettings \subseteq Gang
    BY GangConstants DEF GangSettings, Gang
  <2>. QED BY <2>1, <2>2 DEF GangSets
<1>2. GangLevels
  <2>1. desk \in [Addr -> Int]
    <3>1. desk = [a \in Addr |-> IF a[2] = "fader" THEN Start[a[1]] ELSE 0]
      BY DEF GangInit
    <3>2. \A a \in Addr : Start[a[1]] \in Int
      BY GangConstants DEF Addr
    <3>. QED BY <3>1, <3>2
  <2>. QED BY <2>1 DEF GangInit, GangLevels
<1>3. GangQueues
  BY DEF GangInit, GangQueues
<1>4. GangJobs
  <2>1. Idle \in Job /\ ~Moving(Idle)
    BY DEF Job, Idle, Moving
  <2>2. engineLock = NoValue /\ job = [l \in LinkLoops |-> Idle]
    BY DEF GangInit
  <2>. QED BY <2>1, <2>2, GangConstants DEF GangJobs, Locked
<1>. QED BY <1>1, <1>2, <1>3, <1>4 DEF GangInv

LEMMA GangNextInv == GangInv /\ [GangNext]_gangVars => GangInv'
<1>. SUFFICES ASSUME GangInv, [GangNext]_gangVars PROVE GangInv'
  OBVIOUS
<1>1. CASE UNCHANGED gangVars
  BY <1>1 DEF gangVars, GangInv, GangSets, GangLevels, GangQueues, GangJobs, Locked, NoOverlap
<1>2. CASE \E l \in LinkLoops : ChainStep(l)
  <2>. SUFFICES ASSUME NEW l \in LinkLoops, ChainStep(l) PROVE GangInv'
    BY <1>2
  <2>. QED BY MirrorInboundInv, ProcessGangUpdateInv, MoveMemberInv, NoteMemberInv, ComputePanWritesInv, SendPanInv,
              NotePanInv DEF ChainStep
<1>3. CASE ~(UNCHANGED gangVars) /\ ~(\E l \in LinkLoops : ChainStep(l))
  BY <1>3, HandMoveInv, TogglePausedInv, DeskApplyInv, ForgetsInv DEF GangNext
<1>. QED BY <1>1, <1>2, <1>3

LEMMA GangTypesOfInv == GangInv => GangTypeOK
<1>. SUFFICES ASSUME GangInv PROVE GangTypeOK
  OBVIOUS
<1>1. GangSets /\ GangLevels /\ GangQueues /\ GangJobs
  BY DEF GangInv
<1>2. JobTypeOK
  <2>. SUFFICES ASSUME NEW l \in LinkLoops
                PROVE  LET j == job[l] IN
                       /\ j.pc \in {"idle", "gang", "send", "note", "link", "linksend", "linknote"}
                       /\ j.pc \in {"gang", "send", "note", "link"} => j.addr \in Addr /\ j.new \in Int
                       /\ j.pc = "send" => j.todo # {}
                       /\ j.pc = "linksend" => j.writes # {}
                       /\ engineLock = l <=> j.pc \in {"send", "note"}
    BY DEF JobTypeOK
  <2>1. job[l] \in Job
    BY <1>1 DEF GangJobs
  <2>2. engineLock = l <=> job[l].pc \in {"send", "note"}
    BY <1>1 DEF GangJobs, Locked, Moving
  <2>. QED BY <2>1, <2>2, JobParts
<1>3. \A l \in LinkLoops : \A i \in 1..Len(inbox[l]) : inbox[l][i].addr \in Addr /\ inbox[l][i].value \in Int
  <2>1. \A l \in LinkLoops : \A i \in 1..Len(inbox[l]) : inbox[l][i] \in Reports
    BY <1>1 DEF GangQueues
  <2>. QED BY <2>1 DEF Reports
<1>4. \A i \in 1..Len(wire) : wire[i][1] \in Addr /\ wire[i][2] \in Int
  <2>1. \A i \in 1..Len(wire) : wire[i] \in Write
    BY <1>1 DEF GangQueues
  <2>. QED BY <2>1 DEF Write
<1>. QED BY <1>1, <1>2, <1>3, <1>4 DEF GangTypeOK, GangSets, GangLevels, GangJobs

-----------------------------------------------------------------------------
(* The four of them side by side, as the run has them.                      *)

ControlsInv == part \in Parts /\ GangInv /\ SideInv /\ DeckInv

\* Firings without the deck leave it as it is, with fewer macros at most.
LEMMA MacrosAloneInv == DeckInv /\ MacroNext /\ UNCHANGED deckVars => DeckInv'
<1>. SUFFICES ASSUME DeckInv, MacroNext, UNCHANGED deckVars PROVE DeckInv'
  OBVIOUS
<1>1. MacroInv'
  BY MacroNextInv DEF DeckInv
<1>2. DOMAIN macros' \subseteq DOMAIN macros
  <2>1. CASE UNCHANGED macros
    BY <2>1
  <2>2. CASE \E id \in DOMAIN macros : DeleteMacro(id)
    BY <2>2 DEF DeleteMacro
  <2>3. ASSUME NEW r, RunStep(r) PROVE UNCHANGED macros
    BY <2>3 DEF RunStep, Resolve, SendParameter, MirrorOwn, Ask, FireMacro, EndMacro
  <2>4. UNCHANGED macros \/ \E id \in DOMAIN macros : DeleteMacro(id)
    BY <2>3 DEF MacroNext, Trigger, DeskTouched, LinkLost
  <2>. QED BY <2>1, <2>2, <2>4
<1>3. DeckQueues' /\ DeckMade' /\ ButtonsInv'
  BY <1>2 DEF DeckInv, DeckQueues, DeckMade, ButtonsInv, deckVars, deckConfig, deckThread, deckDevice, deckBounds,
              deckHistory
<1>4. UNCHANGED <<deckPressed, deckHeld, deckOpen, deckPlugged, deckMet, deckReports, deckDown, deckEvents,
                  deckTrouble, deckOn, deckSteps, deckQueue, deckTasks>>
  BY DEF deckVars, deckConfig, deckThread, deckDevice, deckBounds, deckHistory
<1>5. \A k \in Keys : Cardinality(Taking(k))' = Cardinality(Taking(k))
  BY <1>4, NotBegun DEF DeckInv
<1>6. PressInv'
  BY <1>4, <1>5, OtherPress, CalmQueue
<1>. QED BY <1>1, <1>3, <1>6 DEF DeckInv

LEMMA ControlsInitInv == ControlsInit => ControlsInv
BY GangInitInv, SideInitInv, DeckInitInv DEF ControlsInit, ControlsInv

LEMMA ControlsNextInv == ControlsInv /\ [ControlsNext]_controlsVars => ControlsInv'
<1>. SUFFICES ASSUME ControlsInv, [ControlsNext]_controlsVars PROVE ControlsInv'
  OBVIOUS
<1>1. part' = part
  BY DEF ControlsNext, GangSteps, SideSteps, MacroSteps, DeckSteps, controlsVars
<1>2. [GangNext]_gangVars
  BY DEF ControlsNext, GangSteps, SideSteps, MacroSteps, DeckSteps, controlsVars
<1>3. [SideNext]_sideVars
  BY DEF ControlsNext, GangSteps, SideSteps, MacroSteps, DeckSteps, controlsVars
<1>4. [DeckNext]_boardVars \/ (MacroNext /\ UNCHANGED deckVars)
  BY DEF ControlsNext, GangSteps, SideSteps, MacroSteps, DeckSteps, controlsVars
<1>5. GangInv' /\ SideInv'
  BY <1>2, <1>3, GangNextInv, SideNextInv DEF ControlsInv
<1>6. DeckInv'
  BY <1>4, DeckNextInv, MacrosAloneInv DEF ControlsInv
<1>. QED BY <1>1, <1>5, <1>6 DEF ControlsInv

\* Types, for any channels, gangs, controls, macros and keys (gang_engine.rs,
\* sidecar_service.rs, macro_engine.rs, streamdeck_engine.rs): of the gangs also
\* that the engine's lock is with the loop that is moving members and no other.
THEOREM ControlsTypesCorrect == ControlsSpec => []ControlsTypeOK
<1>1. ControlsInv => ControlsTypeOK
  BY GangTypesOfInv, DeckTypeOfInv DEF ControlsInv, ControlsTypeOK, SideInv
<1>2. ControlsInv /\ [ControlsNext]_controlsVars => ControlsInv'
  BY ControlsNextInv
<1>. QED BY <1>1, <1>2, ControlsInitInv, PTL DEF ControlsSpec

\* Presses play, and firings without a deck play whole (macro_engine.rs): the
\* property as the run checks it, with macros fired by the trigger listener too.
THEOREM PressesPlayCorrect == ControlsSpec => []PressesPlay
<1>1. ControlsInv => PressesPlay
  BY PressesOfInv DEF ControlsInv
<1>2. ControlsInv /\ [ControlsNext]_controlsVars => ControlsInv'
  BY ControlsNextInv
<1>. QED BY <1>1, <1>2, ControlsInitInv, PTL DEF ControlsSpec
=============================================================================
