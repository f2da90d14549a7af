------------------------------- MODULE GpLink --------------------------------
(***************************************************************************)
(* The S-series link (src/console/connection.rs): the run_loop task asks   *)
(* for the channel counts, then for a dump of every parameter, drives the  *)
(* progress bar of the dump, and keeps the link's health with pings when   *)
(* nothing comes in.  The console answers or does not; datagrams are lost; *)
(* offline mode drops both ways.                                           *)
(*                                                                         *)
(* Time passes in ticks of the loop.  Elapsed times stop at the largest    *)
(* value the loop tells apart.                                             *)
(***************************************************************************)
EXTENDS Integers, FiniteSets

CONSTANTS
  CountsWait,       \* the wait for the channel counts, in ticks
  IdleThreshold, PingInterval, MaxUnansweredPings,
  Plateau, Abandon, \* the dump's pause that ends its bar, the wait that gives up
  Never,            \* no ping yet
  MaxTraffic,       \* bound: operator moves, losses
  MaxOutages        \* bound: outages of the console, spells of offline mode

ASSUME GpAssumption ==
  /\ {CountsWait, IdleThreshold, PingInterval, MaxUnansweredPings, Plateau, Abandon}
       \subseteq Nat \ {0}
  /\ Never \notin Int /\ Plateau <= IdleThreshold
  /\ MaxTraffic \in Nat /\ MaxOutages \in Nat

Requests == {"counts", "resend", "ping"}
Replies == {"counts", "param", "pong"}
Healths == {"Connecting", "Connected", "Idle", "Stale", "Lost"}
\* From the last datagram to the ping that loses the link.
Longest == IdleThreshold + (2 * MaxUnansweredPings - 1) * PingInterval

VARIABLES
  gpPhase,      \* "counts", the wait for the channel counts; "mirror"
  gpHealth,     \* ConsoleState::health
  gpConfirmed,  \* ever_confirmed
  gpWaited,     \* ticks spent waiting for the counts
  gpIdle,       \* since last_inbound_at
  gpPingAge,    \* since last_ping_at
  gpUnanswered, \* unanswered_pings
  gpRecovery,   \* recovery_attempted
  gpBar,        \* the dump's bar: "none", "empty", "filling"
  gpDumpAge,    \* since dump_begin
  gpDesk,       \* the console is reachable
  gpOffline,    \* offline_mode
  gpAsked,      \* requests on their way to the console
  gpArriving,   \* replies and reports on their way back
  gpTraffic, gpOutages,
  gpSilence     \* history: ticks since a datagram was taken in or a wait began

gpLoop == <<gpPhase, gpHealth, gpConfirmed, gpWaited, gpIdle, gpPingAge, gpUnanswered,
            gpRecovery, gpBar, gpDumpAge>>
gpWorld == <<gpDesk, gpOffline, gpTraffic, gpOutages>>
gpVars == <<gpLoop, gpWorld, gpAsked, gpArriving, gpSilence>>

GpInit ==
  /\ gpPhase = "counts" /\ gpHealth = "Connecting" /\ gpConfirmed = FALSE /\ gpWaited = 0
  /\ gpIdle = 0 /\ gpPingAge = Never /\ gpUnanswered = 0 /\ gpRecovery = FALSE
  /\ gpBar = "none" /\ gpDumpAge = 0
  /\ gpDesk \in BOOLEAN /\ gpOffline \in BOOLEAN
  /\ gpAsked = (IF gpOffline THEN {} ELSE {"counts"}) /\ gpArriving = {}
  /\ gpTraffic = 0 /\ gpOutages = 0 /\ gpSilence = 0

UpTo(n, limit) == IF n < limit THEN n ELSE limit
Sends(what) == gpAsked' = IF gpOffline THEN gpAsked ELSE gpAsked \cup what

-----------------------------------------------------------------------------
(* The loop                                                                *)

\* The wait ends, answered or not: ask for the dump, start its bar.
BeginsMirror == /\ gpPhase' = "mirror"
                /\ gpBar' = "empty" /\ gpDumpAge' = 0
                /\ gpIdle' = 0 /\ gpPingAge' = Never
                /\ gpUnanswered' = 0 /\ gpRecovery' = FALSE
                /\ gpSilence' = 0
                /\ Sends({"resend"})

\* A datagram comes in while the loop waits for the counts.
ReceiveEarly(reply) ==
  /\ gpPhase = "counts" /\ reply \in gpArriving /\ ~gpOffline
  /\ gpArriving' = gpArriving \ {reply}
  /\ gpConfirmed' = TRUE /\ gpHealth' = "Connected"
  /\ IF reply = "counts" THEN BeginsMirror
     ELSE /\ gpSilence' = 0
          /\ UNCHANGED <<gpPhase, gpBar, gpDumpAge, gpIdle, gpPingAge, gpUnanswered,
                         gpRecovery, gpAsked>>
  /\ UNCHANGED <<gpWorld, gpWaited>>

\* Any inbound traffic counts as alive; a parameter moves the bar.
AliveUnseen == /\ gpIdle' = 0 /\ gpPingAge' = Never /\ gpUnanswered' = 0 /\ gpRecovery' = FALSE
               /\ gpConfirmed' = TRUE
               /\ gpHealth' = IF gpHealth = "Lost" THEN "Lost" ELSE "Connected"
Alive == /\ gpIdle' = 0 /\ gpPingAge' = Never /\ gpUnanswered' = 0 /\ gpRecovery' = FALSE
         /\ gpConfirmed' = TRUE /\ gpHealth' = "Connected"

Receive(reply) ==
  /\ gpPhase = "mirror" /\ reply \in gpArriving /\ ~gpOffline
  /\ gpArriving' = gpArriving \ {reply}
  /\ Alive /\ gpSilence' = 0
  /\ gpBar' = IF reply = "param" /\ gpBar = "empty" THEN "filling" ELSE gpBar
  /\ UNCHANGED <<gpWorld, gpPhase, gpWaited, gpDumpAge, gpAsked>>

\* Inbound OSC dropped.
DropOffline(reply) == /\ reply \in gpArriving /\ gpOffline
                      /\ gpArriving' = gpArriving \ {reply}
                      /\ UNCHANGED <<gpLoop, gpWorld, gpAsked, gpSilence>>

\* The bar ends once the flood has paused, or has not begun for long.
BarEnds == \/ gpBar = "filling" /\ gpIdle + 1 >= Plateau
           \/ gpBar = "empty" /\ gpDumpAge + 1 >= Abandon

PingDue == /\ gpIdle + 1 >= IdleThreshold
           /\ gpPingAge = Never \/ gpPingAge + 1 >= PingInterval

\* The ping that reaches the limit: one recovery resend, then the link is lost.
LastPing == gpUnanswered + 1 >= MaxUnansweredPings

PingRecovers == /\ Sends({"ping", "resend"})
                /\ gpBar' = "empty" /\ gpDumpAge' = 0
                /\ gpRecovery' = TRUE /\ gpUnanswered' = 0
                /\ gpHealth' = "Stale"

PingLosesCounting == /\ Sends({"ping"})
                     /\ gpHealth' = "Lost"
                     /\ gpBar' = "none" /\ gpDumpAge' = 0
                     /\ gpUnanswered' = gpUnanswered + 1
                     /\ UNCHANGED gpRecovery
PingLoses == /\ Sends({"ping"})
             /\ gpHealth' = "Lost"
             /\ gpBar' = "none" /\ gpDumpAge' = 0
             /\ gpUnanswered' = UpTo(gpUnanswered + 1, MaxUnansweredPings)
             /\ UNCHANGED gpRecovery

\* Only an established link earns the green "Idle".
PingHopesGreen == /\ Sends({"ping"})
                  /\ gpHealth' = "Idle"
                  /\ gpUnanswered' = gpUnanswered + 1
                  /\ UNCHANGED gpRecovery
PingHopes == /\ Sends({"ping"})
             /\ gpHealth' = IF gpConfirmed THEN "Idle" ELSE "Connecting"
             /\ gpUnanswered' = gpUnanswered + 1
             /\ UNCHANGED gpRecovery

DumpTick == /\ gpBar' = IF BarEnds THEN "none" ELSE gpBar
            /\ gpDumpAge' = IF gpBar = "none" \/ BarEnds THEN 0 ELSE UpTo(gpDumpAge + 1, Abandon)

Passes == gpSilence' = UpTo(gpSilence + 1, Longest)

Tick == /\ gpPhase = "mirror"
        /\ gpIdle' = UpTo(gpIdle + 1, IdleThreshold)
        /\ IF PingDue
           THEN /\ gpPingAge' = 0
                /\ \/ LastPing /\ ~gpRecovery /\ PingRecovers
                   \/ LastPing /\ gpRecovery /\ PingLoses
                   \/ ~LastPing /\ PingHopes /\ DumpTick
           ELSE /\ gpPingAge' = IF gpPingAge = Never THEN Never
                                ELSE UpTo(gpPingAge + 1, PingInterval)
                /\ DumpTick
                /\ UNCHANGED <<gpHealth, gpUnanswered, gpRecovery, gpAsked>>
        /\ Passes
        /\ UNCHANGED <<gpWorld, gpPhase, gpConfirmed, gpWaited, gpArriving>>

TickEarly == /\ gpPhase = "counts"
             /\ gpWaited' = gpWaited + 1
             /\ IF gpWaited + 1 >= CountsWait THEN BeginsMirror
                ELSE /\ Passes
                     /\ UNCHANGED <<gpPhase, gpBar, gpDumpAge, gpIdle, gpPingAge,
                                    gpUnanswered, gpRecovery, gpAsked>>
             /\ UNCHANGED <<gpWorld, gpHealth, gpConfirmed, gpArriving>>

-----------------------------------------------------------------------------
(* The console and the network                                             *)

ReplyTo(request) == CASE request = "counts" -> "counts"
                      [] request = "resend" -> "param"
                      [] request = "ping" -> "pong"

Answer(request) == /\ request \in gpAsked
                   /\ gpAsked' = gpAsked \ {request}
                   /\ gpArriving' = IF gpDesk THEN gpArriving \cup {ReplyTo(request)}
                                    ELSE gpArriving
                   /\ UNCHANGED <<gpLoop, gpWorld, gpSilence>>

\* The operator moves something, and the console reports it.
DeskMove == /\ gpDesk /\ gpTraffic < MaxTraffic
            /\ gpTraffic' = gpTraffic + 1
            /\ gpArriving' = gpArriving \cup {"param"}
            /\ UNCHANGED <<gpLoop, gpDesk, gpOffline, gpOutages, gpAsked, gpSilence>>

Lose(reply) == /\ gpTraffic < MaxTraffic /\ reply \in gpArriving
               /\ gpTraffic' = gpTraffic + 1
               /\ gpArriving' = gpArriving \ {reply}
               /\ UNCHANGED <<gpLoop, gpDesk, gpOffline, gpOutages, gpAsked, gpSilence>>

Outage == /\ gpOutages < MaxOutages
          /\ gpOutages' = gpOutages + 1
          /\ \/ gpDesk' = ~gpDesk /\ UNCHANGED gpOffline
             \/ gpOffline' = ~gpOffline /\ UNCHANGED gpDesk
          /\ UNCHANGED <<gpLoop, gpTraffic, gpAsked, gpArriving, gpSilence>>

-----------------------------------------------------------------------------
GpReceives(reply) == ReceiveEarly(reply) \/ Receive(reply) \/ DropOffline(reply)
GpTicks == Tick \/ TickEarly
GpNext == \/ GpTicks \/ DeskMove \/ Outage
          \/ \E request \in Requests : Answer(request)
          \/ \E reply \in Replies : GpReceives(reply) \/ Lose(reply)

GpSpec == GpInit /\ [][GpNext]_gpVars

\* The clock goes on, a console that is up gets round to every request, and
\* what has arrived is taken in before the next tick or a later one (the
\* select is biased towards it).
GpFairSpec == /\ GpSpec /\ WF_gpVars(GpTicks)
              /\ \A request \in Requests : WF_gpVars(Answer(request))
              /\ \A reply \in Replies : WF_gpVars(GpReceives(reply))

-----------------------------------------------------------------------------
(* Properties                                                              *)

GpTypeOK ==
  /\ gpPhase \in {"counts", "mirror"} /\ gpHealth \in Healths
  /\ {gpConfirmed, gpRecovery, gpDesk, gpOffline} \subseteq BOOLEAN
  /\ gpWaited \in 0..CountsWait /\ gpIdle \in 0..IdleThreshold
  /\ gpPingAge \in 0..PingInterval \cup {Never}
  /\ gpUnanswered \in 0..MaxUnansweredPings
  /\ gpBar \in {"none", "empty", "filling"} /\ gpDumpAge \in 0..Abandon
  /\ gpAsked \subseteq Requests /\ gpArriving \subseteq Replies
  /\ gpTraffic \in 0..MaxTraffic /\ gpOutages \in 0..MaxOutages
  /\ gpSilence \in 0..Longest

\* The health tells the truth about the console: one that has said nothing
\* for the time it takes to miss every ping before and after the recovery
\* resend is shown as lost, however the link got there; one heard within
\* IdleThreshold is shown as connected; and the green states are only for a
\* console that has answered in this session.
HealthIsHonest ==
  /\ gpPhase = "mirror" /\ gpSilence >= Longest => gpHealth = "Lost"
  /\ gpSilence < IdleThreshold /\ gpConfirmed => gpHealth = "Connected"
  /\ gpHealth \in {"Connected", "Idle"} => gpConfirmed

\* A console that stays up and is listened to is found again, whatever the
\* health had come to.
FoundAgain == <>[](gpDesk /\ ~gpOffline) => []<>(gpHealth = "Connected")

\* "Idle" means pings sent but not yet missed (src/model/state.rs): not shown
\* once a ping has stayed without answer for the whole interval to the next.
IdleMissesNothing == gpHealth = "Idle" => gpSilence < IdleThreshold + PingInterval
=============================================================================
