------------------------------- MODULE PadLink -------------------------------
(***************************************************************************)
(* The link of the consoles that only speak the Pad protocol               *)
(* (src/console/pad_connection.rs, after the handshake): there is no dump, *)
(* so run_loop asks for one parameter at a time, retries, skips, and then  *)
(* settles into a heartbeat; silence takes the link to Stale and to Lost.  *)
(* A console may drop a query that arrives while another is unanswered,    *)
(* and pushes its configuration when the session changes.                  *)
(*                                                                         *)
(* Parameters are numbered in the order of the sweep; NameQuery is the one *)
(* of the heartbeat.  Time passes in ticks of the loop.                    *)
(***************************************************************************)
EXTENDS Integers, Sequences, FiniteSets

CONSTANTS
  PadParams,      \* how many parameters the console has
  EarlyShapes,    \* how many the handshake may have found
  QueryTimeout, QueryRetries,
  HeartbeatInterval, MissesStale, MissesLost,
  NoQuery,
  MaxPushes, MaxPadTraffic, MaxPadOutages   \* bounds

ASSUME PadAssumption ==
  /\ PadParams \in Nat \ {0} /\ EarlyShapes \subseteq 0..PadParams
  /\ {QueryTimeout, HeartbeatInterval, MissesStale} \subseteq Nat \ {0}
  /\ QueryRetries \in Nat \ {0} /\ MissesLost \in Nat /\ MissesStale < MissesLost
  /\ NoQuery \notin Int
  /\ {MaxPushes, MaxPadTraffic, MaxPadOutages} \subseteq Nat

Swept == 1..PadParams
NameQuery == 0
Push == -1
Queries == Swept \cup {NameQuery}
PadHealths == {"Connecting", "Connected", "Stale", "Lost"}
PadLongest == (MissesLost + 2) * HeartbeatInterval

VARIABLES
  padHealth,   \* ConsoleState::health
  padShape,    \* the channel counts the config has
  padTotal,    \* the sweep goes up to this parameter,
  padNext,     \* and has this one next
  padFlight,   \* in_flight: the parameter asked for
  padAttempts, padFlightAge,
  padBeatAge,  \* since last_heartbeat
  padBeatOut,  \* heartbeat_outstanding
  padMisses,
  padSilent,   \* since last_inbound
  padUp,       \* the console is reachable and the app online
  padPrompt,   \* console and network answer within a tick and lose nothing
  padBusy,     \* the query on its way, or yet to be answered
  padArriving, \* replies, reports and pushes that have arrived, in order
  padPushes, padTraffic, padOutages,
  padKnown     \* history: what the mirror has of the console's session

padSweep == <<padTotal, padNext, padFlight, padAttempts, padFlightAge>>
padBeat == <<padBeatAge, padBeatOut, padMisses>>
padBounds == <<padPushes, padTraffic, padOutages>>
padVars == <<padHealth, padShape, padSweep, padBeat, padSilent, padUp, padPrompt, padBusy,
             padArriving, padBounds, padKnown>>

PadUpTo(n, limit) == IF n < limit THEN n ELSE limit
AtLeast(n, m) == IF n < m THEN m ELSE n

\* What becomes of a query: it is lost on the way to a console that is out of
\* reach, and a console busy with another one drops it.
Asked(query) == IF padUp /\ padBusy = NoQuery THEN query ELSE padBusy

\* send_next_query: from parameter n of a sweep up to total
SendNext(n, total) ==
  /\ padTotal' = total /\ padAttempts' = 0 /\ padFlightAge' = 0
  /\ IF n <= total
     THEN padFlight' = n /\ padNext' = n + 1 /\ padBusy' = Asked(n)
     ELSE padFlight' = NoQuery /\ padNext' = n /\ UNCHANGED padBusy

PadInit ==
  /\ padShape \in EarlyShapes \cup {PadParams}
  /\ padHealth \in {"Connecting", "Connected"}
  /\ padUp \in BOOLEAN /\ padPrompt \in BOOLEAN /\ (padPrompt => padUp)
  /\ padTotal = padShape
  /\ padNext = (IF padShape = 0 THEN 1 ELSE 2)
  /\ padFlight = (IF padShape = 0 THEN NoQuery ELSE 1)
  /\ padBusy = (IF padUp /\ padShape # 0 THEN 1 ELSE NoQuery)
  /\ padAttempts = 0 /\ padFlightAge = 0
  /\ padBeatAge = 0 /\ padBeatOut = FALSE /\ padMisses = 0 /\ padSilent = 0
  \* what the handshake had no time for is still to come
  /\ padArriving = (IF padUp /\ padShape # PadParams THEN <<Push>> ELSE <<>>)
  /\ padPushes = 0 /\ padTraffic = 0 /\ padOutages = 0
  /\ padKnown = {}

Sweeping == padFlight # NoQuery \/ padNext <= padTotal

-----------------------------------------------------------------------------
(* The loop                                                                *)

\* Any inbound traffic proves the link alive.
PadAlive == /\ padMisses' = 0 /\ padBeatOut' = FALSE
            /\ padSilent' = 0 /\ padHealth' = "Connected"

AnswersAny(msg) == padFlight # NoQuery /\ msg \in Swept
Answers(msg) == msg = padFlight

\* What a datagram means for the sweep: a push that changes the shape or the
\* session starts it again, the parameter asked for moves it on.
Resync(msg) == msg = Push

PadReceive ==
  /\ padArriving # <<>> /\ padUp
  /\ LET msg == Head(padArriving) IN
     /\ padArriving' = Tail(padArriving)
     /\ PadAlive
     /\ padShape' = IF Resync(msg) THEN PadParams ELSE padShape
     /\ padKnown' = IF Resync(msg) THEN {} ELSE padKnown \cup ({msg} \cap Swept)
     /\ \/ Resync(msg) /\ SendNext(1, PadParams)
        \/ ~Resync(msg) /\ Answers(msg) /\ SendNext(padNext, padTotal)
        \/ ~Resync(msg) /\ ~Answers(msg) /\ UNCHANGED <<padSweep, padBusy>>
  /\ UNCHANGED <<padBeatAge, padUp, padPrompt, padBounds>>

Stuck == padFlight # NoQuery /\ padFlightAge + 1 >= QueryTimeout
TriedEnoughNever == FALSE
TriedEnough == padAttempts >= QueryRetries

\* Retry or skip whatever is stuck.
QueryTick ==
  \/ ~Stuck /\ padFlightAge' = PadUpTo(padFlightAge + 1, QueryTimeout)
     /\ UNCHANGED <<padTotal, padNext, padFlight, padAttempts, padBusy>>
  \/ Stuck /\ TriedEnough /\ SendNext(padNext, padTotal)
  \/ /\ Stuck /\ ~TriedEnough
     /\ padAttempts' = PadUpTo(padAttempts + 1, QueryRetries) /\ padFlightAge' = 0
     /\ padBusy' = Asked(padFlight)
     /\ UNCHANGED <<padTotal, padNext, padFlight>>

HealthAfter(missed) == IF missed >= MissesLost THEN "Lost"
                       ELSE IF missed >= MissesStale THEN "Stale"
                       ELSE padHealth

SilentBeats == (padSilent + 1) \div HeartbeatInterval
CountMissedBeatAfresh == padMisses + 1
CountMissedBeat == AtLeast(padMisses + 1, SilentBeats)

\* While the sweep goes on the queries are the heartbeat, and silence counts.
SweepTick == /\ QueryTick
             /\ padHealth' = HealthAfter(SilentBeats)
             /\ padBeatAge' = PadUpTo(padBeatAge + 1, HeartbeatInterval)
             /\ UNCHANGED <<padBeatOut, padMisses>>

BeatDueLate == padBeatAge > HeartbeatInterval
BeatDue == padBeatAge + 1 >= HeartbeatInterval

Beat == /\ padBeatAge' = 0 /\ padBeatOut' = TRUE
        /\ padMisses' = IF padBeatOut THEN PadUpTo(CountMissedBeat, MissesLost) ELSE padMisses
        /\ padHealth' = IF padBeatOut THEN HealthAfter(CountMissedBeat) ELSE padHealth
        /\ padBusy' = Asked(NameQuery)

BeatTick == IF BeatDue THEN Beat
            ELSE /\ padBeatAge' = padBeatAge + 1
                 /\ UNCHANGED <<padBeatOut, padMisses, padHealth, padBusy>>

\* A query given up with none to follow ends the sweep in the same tick.
LastSkipped == Stuck /\ TriedEnough /\ padNext > padTotal

\* The select is biased: what has arrived is taken in before a tick.
PadTick ==
  /\ padArriving = <<>> /\ (padPrompt => padBusy = NoQuery)
  /\ padSilent' = PadUpTo(padSilent + 1, PadLongest)
  /\ \/ Sweeping /\ ~LastSkipped /\ SweepTick
     \/ ~Sweeping /\ BeatTick /\ UNCHANGED padSweep
     \/ /\ LastSkipped /\ BeatTick
        /\ padFlight' = NoQuery /\ padAttempts' = 0 /\ padFlightAge' = 0
        /\ UNCHANGED <<padTotal, padNext>>
  /\ UNCHANGED <<padShape, padUp, padPrompt, padArriving, padBounds, padKnown>>

-----------------------------------------------------------------------------
(* The console and the network                                             *)

PadAnswer == /\ padBusy # NoQuery
             /\ padBusy' = NoQuery
             /\ padArriving' = Append(padArriving, padBusy)
             /\ UNCHANGED <<padHealth, padShape, padSweep, padBeat, padSilent, padUp,
                            padPrompt, padBounds, padKnown>>

\* The operator moves something on the console.
PadReport(param) == /\ padUp /\ padTraffic < MaxPadTraffic
                    /\ padTraffic' = padTraffic + 1
                    /\ padArriving' = Append(padArriving, param)
                    /\ UNCHANGED <<padHealth, padShape, padSweep, padBeat, padSilent, padUp,
                                   padPrompt, padBusy, padPushes, padOutages, padKnown>>

\* The console loads another session and says so: what was mirrored before is
\* of no worth.
PadPush == /\ padUp /\ padPushes < MaxPushes
           /\ padPushes' = padPushes + 1
           /\ padArriving' = Append(padArriving, Push)
           /\ UNCHANGED <<padHealth, padShape, padSweep, padBeat, padSilent, padUp, padPrompt,
                          padBusy, padTraffic, padOutages, padKnown>>

PadLose == /\ ~padPrompt /\ padTraffic < MaxPadTraffic
           /\ padTraffic' = padTraffic + 1
           /\ \/ padArriving # <<>> /\ padArriving' = Tail(padArriving) /\ UNCHANGED padBusy
              \/ padBusy # NoQuery /\ padBusy' = NoQuery /\ UNCHANGED padArriving
           /\ UNCHANGED <<padHealth, padShape, padSweep, padBeat, padSilent, padUp, padPrompt,
                          padPushes, padOutages, padKnown>>

\* Out of reach, or offline: what was on its way either way is gone.
PadOutage == /\ ~padPrompt /\ padOutages < MaxPadOutages
             /\ padOutages' = padOutages + 1
             /\ padUp' = ~padUp /\ padBusy' = NoQuery /\ padArriving' = <<>>
             /\ UNCHANGED <<padHealth, padShape, padSweep, padBeat, padSilent, padPrompt,
                            padPushes, padTraffic, padKnown>>

-----------------------------------------------------------------------------
PadNext == \/ PadReceive \/ PadTick
           \/ PadAnswer
           \/ \E param \in Swept : PadReport(param)
           \/ PadPush \/ PadLose \/ PadOutage

PadSpec == PadInit /\ [][PadNext]_padVars

\* The clock goes on, datagrams are taken in, and a console in reach answers.
PadFairSpec == /\ PadSpec /\ WF_padVars(PadTick) /\ WF_padVars(PadReceive)
               /\ WF_padVars(PadAnswer)

-----------------------------------------------------------------------------
(* Properties                                                              *)

PadTypeOK ==
  /\ padHealth \in PadHealths
  /\ padShape \in 0..PadParams /\ padTotal \in 0..PadParams /\ padNext \in 1..(PadParams + 1)
  /\ padFlight \in Swept \cup {NoQuery}
  /\ padAttempts \in 0..QueryRetries /\ padFlightAge \in 0..QueryTimeout
  /\ padBeatAge \in 0..HeartbeatInterval /\ padMisses \in 0..MissesLost
  /\ {padBeatOut, padUp, padPrompt} \subseteq BOOLEAN /\ padSilent \in 0..PadLongest
  /\ padBusy \in Queries \cup {NoQuery} /\ padArriving \in Seq(Queries \cup {Push})
  /\ padKnown \subseteq Swept
  /\ padPushes \in 0..MaxPushes /\ padTraffic \in 0..MaxPadTraffic
  /\ padOutages \in 0..MaxPadOutages

\* The health tells the truth about the console, in the sweep, after it and
\* across its end: shown as lost once it has been silent for MissesLost beats
\* and the one that was under way, and never worse than it started with
\* before MissesStale beats of silence.
PadHealthIsHonest ==
  /\ padSilent >= (MissesLost + 1) * HeartbeatInterval => padHealth = "Lost"
  /\ padSilent < MissesStale * HeartbeatInterval => padHealth \in {"Connecting", "Connected"}

\* A sweep comes to its end whatever is lost, answered late or never: no
\* query is asked for ever.
SweepEnds == Sweeping ~> ~Sweeping

\* The mirror is whole at the end of the sweep when the console answers in
\* time, although it drops a query that finds it busy and may change its
\* session or its channels in the middle: what it has of the session it is in
\* is every parameter.
SweepIsComplete ==
  padPrompt /\ ~Sweeping /\ (\A i \in DOMAIN padArriving : padArriving[i] # Push)
    => padKnown = Swept
=============================================================================
