------------------------------- MODULE Sidecar -------------------------------
(***************************************************************************)
(* The fader sidecar (src/console/sidecar_service.rs, with the device      *)
(* thread of src/console/sidecar_engine.rs): a MIDI surface whose faders   *)
(* and encoders are bound to console parameters.  One task takes the       *)
(* surface's events, the app's commands, a new console link and a tick,    *)
(* one at a time; the mirror of the console changes under it.  A fader has *)
(* a motor that follows the mirror, long ways in small steps; three guards *)
(* (touched, sent_to_console, motor_echo) keep hand, motor and console     *)
(* from chasing each other.                                                *)
(*                                                                         *)
(* Fader positions and console values are the same few levels (the taper   *)
(* is the identity at this resolution).  Elapsed windows are steps of      *)
(* their own.                                                              *)
(***************************************************************************)
EXTENDS Integers, Sequences, FiniteSets

CONSTANTS
  Controls,     \* bindings, each with a control of its own
  Encoders,     \* relative controls, without a motor; the others are faders
  Touchy,       \* faders with touch sensing
  Echoing,      \* faders that report their motor's moves
  Tables,       \* the orders of bindings a show may have
  Target,       \* binding -> parameter
  Parameters,
  Bottom, Full, \* the levels
  MaxStep,      \* MOTOR_MAX_STEP
  Middle,       \* MOTOR_UNKNOWN_POS
  Unknown,      \* no entry in one of the service's maps
  Races,        \* what may happen at an awkward moment: a subset of AllRaces
  MaxHands, MaxDeskMoves, MaxBreaks   \* bounds

\* A change between a sync's reading of the values and of the generation; a
\* desk that returns within SUPPRESSION_WINDOW to a value the sidecar sent; a
\* hand that lets go while its last position waits for the floor to pass; a
\* desk that moves while a position waits.
AllRaces == {"late reading", "desk returns", "quick release", "desk crosses"}
Faders == Controls \ Encoders
Level == Bottom..Full

ASSUME SidecarAssumption ==
  /\ {Encoders, Touchy, Echoing} \subseteq SUBSET Controls
  /\ (Touchy \cup Echoing) \cap Encoders = {} /\ Touchy \cap Echoing = {}
  /\ Tables \subseteq Seq(Controls) /\ Target \in [Controls -> Parameters]
  /\ {Bottom, Full} \subseteq Int /\ Middle \in Level
  /\ MaxStep \in Nat \ {0} /\ Unknown \notin Int /\ Races \subseteq AllRaces
  /\ {MaxHands, MaxDeskMoves, MaxBreaks} \subseteq Nat

VARIABLES
  sideTable,    \* SidecarConfig::bindings, in order
  sideOff,      \* the bindings deleted
  sideOn,       \* SidecarConfig::enabled
  sideLearning, \* LearnShared::active
  sideLinked,   \* senders holds a link
  sideMirror,   \* ConsoleState
  sideSeen,     \* last_generation is the mirror's
  sidePhase,    \* where the task is: "idle", in a tick, in a sync
  sideSent,     \* sent_to_console
  sideEcho,     \* motor_echo: the positions it covers
  sideTouched, sidePos, sideRamp,
  sideNorm,     \* DecodeState::last_norm of an encoder
  sideLast,     \* last_sent_norm of an encoder: the faders' is not read
  sideFloor,    \* sent within CONSOLE_SEND_FLOOR
  sidePending,  \* pending_console
  sideCommands, \* svc_rx, and the change of the link
  sideEvents,   \* hw_rx
  sideMotor,    \* motor moves on their way to each fader
  sidePlugged,  \* the surface is connected
  sideFader,    \* where the faders are
  sideHeld,     \* the faders a hand is on
  sideHands, sideDesks, sideBreaks,
  sideLost      \* history: the service was not told, missed or forgot where the fader is

sideShow == <<sideTable, sideOff, sideOn, sideLearning>>
sideGuards == <<sideSent, sideEcho, sideTouched>>
sideMoves == <<sidePos, sideRamp>>
sideDecode == <<sideNorm, sideLast, sideFloor, sidePending>>
sideSurface == <<sidePlugged, sideFader, sideHeld>>
sideBounds == <<sideHands, sideDesks, sideBreaks>>
sideVars == <<sideShow, sideLinked, sideMirror, sideSeen, sidePhase, sideGuards, sideMoves,
              sideDecode, sideCommands, sideEvents, sideMotor, sideSurface, sideBounds, sideLost>>

SideInit ==
  /\ sideTable \in Tables /\ sideOff = {} /\ sideOn = TRUE /\ sideLearning = FALSE
  /\ sideLinked = TRUE
  /\ sideMirror = [a \in Parameters |-> Bottom] /\ sideSeen = FALSE /\ sidePhase = "idle"
  /\ sideSent = [a \in Parameters |-> Unknown]
  /\ sideEcho = [b \in Controls |-> {}] /\ sideTouched = {}
  /\ sidePos = [b \in Controls |-> Unknown] /\ sideRamp = sidePos /\ sideNorm = sidePos
  /\ sideLast = sidePos /\ sidePending = sidePos /\ sideFloor = {}
  /\ sideCommands = <<"reconnected">> /\ sideEvents = <<>>
  /\ sideMotor = [b \in Controls |-> <<>>]
  /\ sidePlugged = TRUE /\ sideFader = [b \in Controls |-> Bottom] /\ sideHeld = {}
  /\ sideHands = 0 /\ sideDesks = 0 /\ sideBreaks = 0
  /\ sideLost = Controls

InTable(b) == \E i \in DOMAIN sideTable : sideTable[i] = b
InUse(b) == InTable(b) /\ b \notin sideOff
Motors == {b \in Faders : InUse(b)}    \* wants_motor_feedback
Value(b) == sideMirror[Target[b]]
Clamped(v) == IF v < Bottom THEN Bottom ELSE IF v > Full THEN Full ELSE v
Distance(v, w) == IF v < w THEN w - v ELSE v - w

-----------------------------------------------------------------------------
(* The motors                                                              *)

FromWhere(b) == IF sidePos[b] = Unknown THEN Middle ELSE sidePos[b]
Toward(from, to) == IF Distance(from, to) <= MaxStep THEN to
                    ELSE IF from < to THEN from + MaxStep ELSE from - MaxStep

Covered(b, v) == LET old == sideEcho[b] \cup {v}
                     lo == CHOOSE x \in old : \A y \in old : x <= y
                     hi == CHOOSE x \in old : \A y \in old : x >= y
                 IN lo..hi

\* command_motor for each fader in the domain, to the position it gives.
CommandMotors(to) ==
  /\ sidePos' = [b \in Controls |-> IF b \in DOMAIN to THEN to[b] ELSE sidePos[b]]
  /\ sideEcho' = [b \in Controls |-> IF b \in DOMAIN to THEN Covered(b, to[b]) ELSE sideEcho[b]]
  /\ sideMotor' = [b \in Controls |-> IF b \in DOMAIN to THEN Append(sideMotor[b], to[b])
                                      ELSE sideMotor[b]]
  /\ sideLost' = IF sidePlugged THEN sideLost \ DOMAIN to ELSE sideLost

\* drive_motor: a long way begins with its first step, unless the fader is
\* touched; a short one is a single command.  The other faders' ramps are "kept".
NoRamps == [b \in Controls |-> Unknown]
Far(b) == Distance(FromWhere(b), Value(b)) > MaxStep
DriveMotors(bs, touched, kept) ==
  LET moved == {b \in bs : ~Far(b) \/ b \notin touched} IN
  /\ CommandMotors([b \in moved |-> Toward(FromWhere(b), Value(b))])
  /\ sideRamp' = [b \in Controls |-> IF b \notin bs THEN kept[b]
                                     ELSE IF Far(b) /\ b \in moved THEN Value(b) ELSE Unknown]

-----------------------------------------------------------------------------
(* To the console                                                          *)

SendValue(b, v) ==
  IF ~sideLinked THEN UNCHANGED <<sideSent, sideLast, sideMirror, sideSeen>>
  ELSE /\ sideSent' = [sideSent EXCEPT ![Target[b]] = v]
       /\ sideLast' = IF b \in Encoders THEN [sideLast EXCEPT ![b] = v] ELSE sideLast
       /\ sideMirror' = [sideMirror EXCEPT ![Target[b]] = v]
       /\ sideSeen' = FALSE

\* dispatch_value: at most one send per floor, the latest waits.
Dispatch(b, v) ==
  IF b \in sideFloor
  THEN /\ sidePending' = [sidePending EXCEPT ![b] = v]
       /\ UNCHANGED <<sideFloor, sideSent, sideLast, sideMirror, sideSeen>>
  ELSE /\ sidePending' = [sidePending EXCEPT ![b] = Unknown]
       /\ sideFloor' = sideFloor \cup {b}
       /\ SendValue(b, v)

-----------------------------------------------------------------------------
(* Hardware events                                                         *)

Reported(b, who) == \E i \in DOMAIN sideEvents : sideEvents[i].of = b /\ sideEvents[i].by = who
Taken == sidePhase = "idle" /\ sideEvents # <<>> /\ sideEvents' = Tail(sideEvents)
Listening == sideOn /\ ~sideLearning

\* Learn takes everything while armed, a sidecar that is off nothing; only
\* the release of a touch gets through.
Swallow ==
  /\ Taken /\ ~Listening
  /\ LET ev == Head(sideEvents) IN
     /\ sideTouched' = IF ev.what = "release" THEN sideTouched \ {ev.of} ELSE sideTouched
     /\ sideLost' = sideLost \cup {ev.of}
  /\ UNCHANGED <<sideShow, sideLinked, sideMirror, sideSeen, sidePhase, sideSent, sideEcho,
                 sideMoves, sideDecode, sideCommands, sideMotor, sideSurface, sideBounds>>

\* The hand has it: the motor stops.
TakeTouch ==
  /\ Taken /\ Listening
  /\ LET ev == Head(sideEvents) IN
     /\ ev.what = "touch"
     /\ IF ~InUse(ev.of) THEN UNCHANGED <<sideTouched, sideRamp, sideEcho>>
        ELSE /\ sideTouched' = sideTouched \cup {ev.of}
             /\ sideRamp' = [sideRamp EXCEPT ![ev.of] = Unknown]
             /\ sideEcho' = [sideEcho EXCEPT ![ev.of] = {}]
  /\ UNCHANGED <<sideShow, sideLinked, sideMirror, sideSeen, sidePhase, sideSent, sidePos,
                 sideDecode, sideCommands, sideMotor, sideSurface, sideBounds, sideLost>>

\* Let go: the motor goes to where the console is.
ReleasedAlone(b) ==    \* Mutant: the fader stays where the hand left it
  UNCHANGED <<sidePos, sideRamp, sideEcho, sideMotor, sideLost>>
Released(b) == DriveMotors(IF b \in Motors THEN {b} ELSE {}, {}, sideRamp)

TakeRelease ==
  /\ Taken /\ Listening
  /\ LET ev == Head(sideEvents) IN
     /\ ev.what = "release"
     /\ sideTouched' = sideTouched \ {ev.of}
     /\ Released(ev.of)
  /\ UNCHANGED <<sideShow, sideLinked, sideMirror, sideSeen, sidePhase, sideSent,
                 sideDecode, sideCommands, sideSurface, sideBounds>>

\* A position: the motor's own movement, or the operator's.
IsMotorEchoTarget(b, v) == sideEcho[b] # {} /\ v = sidePos[b]  \* Mutant: the last position only
IsMotorEcho(b, v) == v \in sideEcho[b]

TakePosition ==
  /\ Taken /\ Listening
  /\ LET ev == Head(sideEvents) IN
     /\ ev.what = "position"
     /\ IF ~InUse(ev.of) \/ IsMotorEcho(ev.of, ev.at)
        THEN /\ sideLost' = IF ev.by = "hand" THEN sideLost \cup {ev.of} ELSE sideLost
             /\ UNCHANGED <<sideMoves, sideFloor, sidePending, sideSent, sideLast, sideMirror, sideSeen>>
        ELSE /\ sidePos' = [sidePos EXCEPT ![ev.of] = ev.at]
             /\ sideRamp' = [sideRamp EXCEPT ![ev.of] = Unknown]
             /\ Dispatch(ev.of, ev.at)
             /\ sideLost' = IF sidePlugged /\ sideMotor[ev.of] = <<>> THEN sideLost \ {ev.of}
                            ELSE sideLost \cup {ev.of}
  /\ UNCHANGED <<sideShow, sideLinked, sidePhase, sideEcho, sideTouched, sideNorm, sideCommands,
                 sideMotor, sideSurface, sideBounds>>

\* A click starts from the console's value when that has moved away from what
\* the encoder last sent.
SeededOnce(b) == sideNorm[b] = Unknown    \* Mutant: the console is asked once
Reseeds(b) == \/ sideNorm[b] = Unknown
              \/ sideLast[b] # Unknown /\ sideLast[b] # Value(b)

TakeClick ==
  /\ Taken /\ Listening
  /\ LET ev == Head(sideEvents)
         base == IF Reseeds(ev.of) THEN Value(ev.of) ELSE sideNorm[ev.of]
         to == Clamped(base + ev.step)
     IN /\ ev.what = "click"
        /\ IF ~InUse(ev.of)
           THEN UNCHANGED <<sideDecode, sideSent, sideMirror, sideSeen>>
           ELSE /\ sideNorm' = [sideNorm EXCEPT ![ev.of] = to]
                /\ Dispatch(ev.of, to)
  /\ UNCHANGED <<sideShow, sideLinked, sidePhase, sideEcho, sideTouched, sideMoves, sideCommands,
                 sideMotor, sideSurface, sideBounds, sideLost>>

-----------------------------------------------------------------------------
(* The tick: what waits for its floor, the motors, the ramps               *)

AtTick == sidePhase \in {"idle", "flush"}
Flushes == sideOn \/ sidePhase = "flush"    \* looked at once, as the tick begins
Due(b) == Flushes /\ sidePending[b] # Unknown /\ b \notin sideFloor

Flush(b) ==
  /\ AtTick /\ Due(b) /\ sidePhase' = "flush"
  /\ sidePending' = [sidePending EXCEPT ![b] = Unknown]
  /\ IF InUse(b) THEN sideFloor' = sideFloor \cup {b} /\ SendValue(b, sidePending[b])
     ELSE UNCHANGED <<sideFloor, sideSent, sideLast, sideMirror, sideSeen>>
  /\ UNCHANGED <<sideShow, sideLinked, sideEcho, sideTouched, sideMoves, sideNorm,
                 sideCommands, sideEvents, sideMotor, sideSurface, sideBounds, sideLost>>

\* The first fader of its parameter in the table takes the entry of an own
\* send out, and stays where it is.
FirstOf(b) == \E i \in DOMAIN sideTable :
                /\ sideTable[i] = b
                /\ \A j \in 1..(i - 1) :
                     sideTable[j] \notin Motors \/ Target[sideTable[j]] # Target[b]
Consumes(b) == FirstOf(b) /\ sideSent[Target[b]] = Value(b)

There(b) == IF sideRamp[b] # Unknown THEN sideRamp[b] = Value(b) ELSE sidePos[b] = Value(b)

MotorPoll ==
  /\ AtTick /\ \A b \in Controls : ~Due(b)
  /\ sidePending' = IF Flushes THEN sidePending ELSE [b \in Controls |-> Unknown]
  /\ IF ~sideOn \/ sideSeen
     THEN UNCHANGED <<sideSeen, sideSent, sideEcho, sideMoves, sideMotor, sideLost>>
     ELSE /\ sideSeen' = TRUE
          /\ DriveMotors({b \in Motors : ~Consumes(b) /\ b \notin sideTouched /\ ~There(b)},
                         sideTouched, sideRamp)
          /\ sideSent' = [a \in Parameters |->
                            IF \E b \in Motors : Target[b] = a /\ Consumes(b) THEN Unknown
                            ELSE sideSent[a]]
  /\ sidePhase' = IF \E b \in Controls : sideRamp'[b] # Unknown THEN "ramps" ELSE "idle"
  /\ UNCHANGED <<sideShow, sideLinked, sideMirror, sideTouched, sideNorm, sideLast, sideFloor,
                 sideCommands, sideEvents, sideSurface, sideBounds>>

\* One step of every ramp that its binding still wants.
Ramping == {b \in Motors : sideOn /\ sideRamp[b] # Unknown}
AdvanceRamps ==
  /\ sidePhase = "ramps" /\ sidePhase' = "idle"
  /\ LET moved == Ramping \ sideTouched
         next(b) == Toward(sidePos[b], sideRamp[b])
     IN /\ CommandMotors([b \in moved |-> next(b)])
        /\ sideRamp' = [b \in Controls |-> IF b \in moved /\ next(b) # sideRamp[b]
                                           THEN sideRamp[b] ELSE Unknown]
  /\ UNCHANGED <<sideShow, sideLinked, sideMirror, sideSeen, sideSent, sideTouched, sideDecode,
                 sideCommands, sideEvents, sideSurface, sideBounds>>

-----------------------------------------------------------------------------
(* The sweep: console wins                                                 *)

\* SurfaceReconnected forgets the surface first; nothing of before the
\* connection is still on its way to a fader or back.
TakeCommand ==
  /\ sidePhase = "idle" /\ sideCommands # <<>> /\ sideCommands' = Tail(sideCommands)
  /\ Head(sideCommands) = "reconnected" => \A b \in Controls : sideMotor[b] = <<>> /\ ~Reported(b, "motor")
  /\ sidePhase' = IF Head(sideCommands) = "link" /\ ~sideLinked THEN "idle" ELSE "sync"
  /\ IF Head(sideCommands) = "reconnected"
     THEN /\ sidePos' = [b \in Controls |-> Unknown] /\ sideRamp' = sidePos'
          /\ sideEcho' = [b \in Controls |-> {}] /\ sideTouched' = {}
          /\ sideLost' = Controls
     ELSE UNCHANGED <<sideMoves, sideEcho, sideTouched, sideLost>>
  /\ UNCHANGED <<sideShow, sideLinked, sideMirror, sideSeen, sideSent, sideDecode, sideEvents,
                 sideMotor, sideSurface, sideBounds>>

SyncSurface ==
  /\ sidePhase = "sync"
  /\ sideNorm' = [b \in Controls |-> Unknown] /\ sidePending' = sideNorm'
  /\ IF sideOn THEN DriveMotors(Motors, sideTouched, NoRamps) /\ sidePhase' = "synced"
     ELSE /\ sideRamp' = NoRamps /\ sidePhase' = "idle"
          /\ UNCHANGED <<sidePos, sideEcho, sideMotor, sideLost>>
  /\ UNCHANGED <<sideShow, sideLinked, sideMirror, sideSeen, sideSent, sideTouched, sideLast,
                 sideFloor, sideCommands, sideEvents, sideSurface, sideBounds>>

\* The generation is read after the values.
SyncSeen == /\ sidePhase = "synced" /\ sidePhase' = "idle" /\ sideSeen' = TRUE
            /\ UNCHANGED <<sideShow, sideLinked, sideMirror, sideGuards, sideMoves, sideDecode,
                           sideCommands, sideEvents, sideMotor, sideSurface, sideBounds,
                           sideLost>>

-----------------------------------------------------------------------------
(* The surface                                                             *)

Announce(ev) == sideEvents' = IF sidePlugged THEN Append(sideEvents, ev) ELSE sideEvents
InFlight(b) == sideMotor[b] # <<>> \/ \E who \in {"hand", "motor"} : Reported(b, who)

\* A motor does not move a fader out of a hand, and takes longer than the task
\* needs for what the hand reported before.
MotorArrives(b) ==
  /\ sideMotor[b] # <<>> /\ ~Reported(b, "hand")
  /\ sideMotor' = [sideMotor EXCEPT ![b] = Tail(@)]
  /\ IF ~sidePlugged \/ b \in sideHeld
     THEN sideLost' = sideLost \cup {b} /\ UNCHANGED <<sideFader, sideEvents>>
     ELSE /\ sideFader' = [sideFader EXCEPT ![b] = Head(sideMotor[b])]
          /\ sideEvents' = IF b \notin Echoing THEN sideEvents
                           ELSE Append(sideEvents, [what |-> "position", of |-> b,
                                                    at |-> Head(sideMotor[b]), by |-> "motor"])
          /\ UNCHANGED sideLost
  /\ UNCHANGED <<sideShow, sideLinked, sideMirror, sideSeen, sidePhase, sideGuards, sideMoves,
                 sideDecode, sideCommands, sidePlugged, sideHeld, sideBounds>>

ByHand == /\ sideHands < MaxHands /\ sideHands' = sideHands + 1
          /\ UNCHANGED <<sideShow, sideLinked, sideMirror, sideSeen, sidePhase, sideGuards,
                         sideMoves, sideDecode, sideCommands, sideMotor, sidePlugged, sideDesks,
                         sideBreaks>>

Grab(b) == /\ b \in Faders \ sideHeld /\ InTable(b) /\ ByHand
           /\ sideHeld' = sideHeld \cup {b}
           /\ IF b \in Touchy THEN Announce([what |-> "touch", of |-> b, by |-> "hand"])
              ELSE UNCHANGED sideEvents
           /\ UNCHANGED <<sideFader, sideLost>>

Slide(b, v) == /\ b \in sideHeld /\ v # sideFader[b] /\ ByHand
               /\ sideFader' = [sideFader EXCEPT ![b] = v]
               /\ Announce([what |-> "position", of |-> b, at |-> v, by |-> "hand"])
               /\ sideLost' = IF sidePlugged THEN sideLost ELSE sideLost \cup {b}
               /\ UNCHANGED sideHeld

\* A hand stays longer than a motor's move is on its way, and where no touch
\* tells of it longer than what it reports.
LetGo(b) == /\ b \in sideHeld
            /\ sideMotor[b] = <<>> /\ (b \in Touchy \/ ~InFlight(b))
            /\ "quick release" \in Races \/ (sidePending[b] = Unknown /\ ~Reported(b, "hand"))
            /\ sideHeld' = sideHeld \ {b}
            /\ IF b \in Touchy THEN Announce([what |-> "release", of |-> b, by |-> "hand"])
               ELSE UNCHANGED sideEvents
            /\ UNCHANGED <<sideShow, sideLinked, sideMirror, sideSeen, sidePhase, sideGuards,
                           sideMoves, sideDecode, sideCommands, sideMotor, sidePlugged, sideFader,
                           sideBounds, sideLost>>

Turn(b, d) == /\ b \in Encoders /\ InTable(b) /\ ByHand
              /\ Announce([what |-> "click", of |-> b, step |-> d, by |-> "hand"])
              /\ UNCHANGED <<sideFader, sideHeld, sideLost>>

-----------------------------------------------------------------------------
(* The console, the app and the clock                                      *)

ControlsOf(a) == {b \in Controls : Target[b] = a}
DeskMoves(a, v) ==
  /\ sideDesks < MaxDeskMoves /\ sideDesks' = sideDesks + 1
  /\ v # sideMirror[a]
  /\ "late reading" \in Races \/ sidePhase # "synced"
  /\ "desk returns" \in Races \/ v # sideSent[a]
  /\ "desk crosses" \in Races \/ \A b \in ControlsOf(a) : sidePending[b] = Unknown
  /\ sideMirror' = [sideMirror EXCEPT ![a] = v] /\ sideSeen' = FALSE
  /\ UNCHANGED <<sideShow, sideLinked, sidePhase, sideGuards, sideMoves, sideDecode, sideCommands,
                 sideEvents, sideMotor, sideSurface, sideHands, sideBreaks, sideLost>>

Break == sideBreaks < MaxBreaks /\ sideBreaks' = sideBreaks + 1
Tell(command) == sideCommands' = Append(sideCommands, command)

\* The rocker; a binding deleted, and back with another show's table; learn; the
\* link to the console.
AppChanges ==
  /\ \/ sideOn /\ Break /\ sideOn' = FALSE /\ UNCHANGED <<sideOff, sideLearning, sideLinked, sideCommands>>
     \/ ~sideOn /\ sideOn' = TRUE /\ Tell("sync") /\ UNCHANGED <<sideOff, sideLearning, sideLinked, sideBreaks>>
     \/ \E b \in Controls \ sideOff :
          /\ InTable(b) /\ Break /\ sideOff' = sideOff \cup {b}
          /\ UNCHANGED <<sideOn, sideLearning, sideLinked, sideCommands>>
     \/ \E b \in sideOff :
          /\ sideOff' = sideOff \ {b} /\ Tell("sync")
          /\ UNCHANGED <<sideOn, sideLearning, sideLinked, sideBreaks>>
     \/ ~sideLearning /\ Break /\ sideLearning' = TRUE /\ UNCHANGED <<sideOn, sideOff, sideLinked, sideCommands>>
     \/ sideLearning /\ sideLearning' = FALSE /\ UNCHANGED <<sideOn, sideOff, sideLinked, sideCommands, sideBreaks>>
     \/ sideLinked /\ Break /\ sideLinked' = FALSE /\ UNCHANGED <<sideOn, sideOff, sideLearning, sideCommands>>
     \/ ~sideLinked /\ sideLinked' = TRUE /\ Tell("link") /\ UNCHANGED <<sideOn, sideOff, sideLearning, sideBreaks>>
  /\ UNCHANGED <<sideTable, sideMirror, sideSeen, sidePhase, sideGuards, sideMoves, sideDecode,
                 sideEvents, sideMotor, sideSurface, sideHands, sideDesks, sideLost>>

Unplug == /\ sidePlugged /\ Break
          /\ sidePlugged' = FALSE
          /\ sideLost' = Controls
          /\ UNCHANGED <<sideShow, sideLinked, sideMirror, sideSeen, sidePhase, sideGuards,
                         sideMoves, sideDecode, sideCommands, sideEvents, sideMotor, sideFader,
                         sideHeld, sideHands, sideDesks>>

\* The scan for ports is slower than what is on its way.
Replug == /\ ~sidePlugged /\ sideHeld = {} /\ \A b \in Controls : ~InFlight(b)
          /\ sidePlugged' = TRUE /\ Tell("reconnected")
          /\ UNCHANGED <<sideShow, sideLinked, sideMirror, sideSeen, sidePhase, sideGuards,
                         sideMoves, sideDecode, sideEvents, sideMotor, sideFader, sideHeld,
                         sideBounds, sideLost>>

\* CONSOLE_SEND_FLOOR, SUPPRESSION_WINDOW: the window of a send outlasts its
\* floor, and an echo comes within it.
FloorPasses(b) == /\ b \in sideFloor /\ sideFloor' = sideFloor \ {b}
                  /\ UNCHANGED <<sideShow, sideLinked, sideMirror, sideSeen, sidePhase, sideGuards,
                                 sideMoves, sideNorm, sideLast, sidePending, sideCommands,
                                 sideEvents, sideMotor, sideSurface, sideBounds, sideLost>>

WindowPasses ==
  /\ \/ \E a \in Parameters : /\ sideSent[a] # Unknown /\ ControlsOf(a) \cap sideFloor = {}
                              /\ sideSent' = [sideSent EXCEPT ![a] = Unknown] /\ UNCHANGED sideEcho
     \/ \E b \in Controls : /\ sideEcho[b] # {} /\ ~InFlight(b) /\ sideEcho' = [sideEcho EXCEPT ![b] = {}]
                            /\ UNCHANGED sideSent
  /\ UNCHANGED <<sideShow, sideLinked, sideMirror, sideSeen, sidePhase, sideTouched, sideMoves,
                 sideDecode, sideCommands, sideEvents, sideMotor, sideSurface, sideBounds,
                 sideLost>>

-----------------------------------------------------------------------------
TakeEvent == Swallow \/ TakeTouch \/ TakeRelease \/ TakePosition \/ TakeClick
Sync == TakeCommand \/ SyncSurface \/ SyncSeen
Flushing == \E b \in Controls : Flush(b)
Ticking == Flushing \/ MotorPoll \/ AdvanceRamps

SideNext ==
  \/ TakeEvent \/ Sync \/ Ticking
  \/ \E b \in Controls :
       \/ MotorArrives(b) \/ Grab(b) \/ LetGo(b) \/ FloorPasses(b)
       \/ \E v \in Level : Slide(b, v)
       \/ \E d \in {-1, 1} : Turn(b, d)
  \/ \E a \in Parameters, v \in Level : DeskMoves(a, v)
  \/ AppChanges \/ Unplug \/ Replug \/ WindowPasses

SideSpec == SideInit /\ [][SideNext]_sideVars

-----------------------------------------------------------------------------
(* Properties                                                              *)

SideTypeOK ==
  /\ sideTable \in Tables /\ {sideOff, sideTouched, sideFloor, sideHeld, sideLost} \subseteq SUBSET Controls
  /\ {sideOn, sideLearning, sideLinked, sideSeen, sidePlugged} \subseteq BOOLEAN
  /\ sideMirror \in [Parameters -> Level] /\ sideFader \in [Controls -> Level]
  /\ sidePhase \in {"idle", "flush", "ramps", "sync", "synced"}
  /\ sideSent \in [Parameters -> Level \cup {Unknown}]
  /\ sideEcho \in [Controls -> SUBSET Level]
  /\ {sidePos, sideRamp, sideNorm, sideLast, sidePending} \subseteq [Controls -> Level \cup {Unknown}]
  /\ \A b \in Controls : sideMotor[b] \in Seq(Level)

\* Once all is quiet a motor fader stands where the console is, as long as
\* surface, link and switch are there and no hand is on it: whoever moved what,
\* and however pushes were skipped, ramped or left to a release.  Left out is a
\* fader that was moved unseen by the service.
Ready == sideOn /\ ~sideLearning /\ sideLinked /\ sidePlugged /\ sideHeld = {}
SideQuiet ==
  /\ sidePhase = "idle" /\ sideSeen /\ sideEvents = <<>> /\ sideCommands = <<>>
  /\ \A b \in Controls : sideMotor[b] = <<>> /\ sideRamp[b] = Unknown /\ sidePending[b] = Unknown
FaderFollows ==
  SideQuiet /\ Ready => \A b \in Motors : b \in sideLost \/ sideFader[b] = Value(b)

\* Where an encoder's parameter is going: to the value of the clicks that wait,
\* unless the console has left what the encoder sent it.
GoingTo(b) == IF sidePending[b] # Unknown /\ sideLast[b] \in {Unknown, Value(b)}
              THEN sidePending[b] ELSE Value(b)
Goes(b) == IF sidePending[b] # Unknown THEN sidePending[b] ELSE Value(b)

\* The console moves for a hand only: a motor's own movement, reported back,
\* changes nothing, and each click of an encoder moves the value one step from
\* where it is going, whatever has changed the value since the last click.
\* Left out is a click taken between a new link and its sweep.
HandsOnly ==
  [][sideEvents # <<>> /\ sideEvents' = Tail(sideEvents) =>
       LET ev == Head(sideEvents) IN
       /\ ev.by = "motor" => UNCHANGED <<sideMirror, sidePending, sideRamp>>
       /\ \A b \in Encoders :
            ev.of = b /\ ev.what = "click" /\ InUse(b) /\ Listening /\ sideLinked /\ sideCommands = <<>> =>
              Distance(GoingTo(b), Goes(b)') <= 1
    ]_sideVars

\* "On release, snap that motor to console truth so the hand-off never leaves
\* the fader parked on a stale position" (src/console/sidecar_service.rs:286).
HandOffFollows ==
  SideQuiet /\ Ready => \A b \in Motors \cap Touchy : b \in sideLost \/ sideFader[b] = Value(b)
=============================================================================
