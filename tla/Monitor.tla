------------------------------- MODULE Monitor -------------------------------
(***************************************************************************)
(* Personal monitoring: musicians' phones (UDP) and browsers (WebSocket)   *)
(* change their sends through the daemon, which pushes the mirror's changes*)
(* to them (src/console/monitor_engine.rs, monitor_event.rs,               *)
(* src/web/mod.rs).  Commands and the poll run in one loop, one at a time; *)
(* what goes either way is on its way for a while, and a phone's packets   *)
(* may be lost.  A phone repeats its Connect as a heartbeat, and keeps a   *)
(* control it has just moved for a moment (ControlHolds.kt).               *)
(*                                                                         *)
(* One send, that every client may control: its level and its on.          *)
(***************************************************************************)
EXTENDS Integers, Sequences

CONSTANTS
  Phones, Browsers,
  LevelValues, DeskChanges, UserChanges,
  StartSend,
  NoSend, NoChange,    \* nothing pushed yet, no own change remembered
  MaxMoves,     \* bound: moves of users and of the desk
  MaxTrouble    \* bound: packets lost, naps

Clients == Phones \cup Browsers

Fields == {"level", "on"}
Send == [Fields -> LevelValues]
Change == [field : Fields, value : LevelValues]

ASSUME MonAssumption == /\ Phones \cap Browsers = {}
                        /\ DeskChanges \cup UserChanges \subseteq Change
                        /\ StartSend \in Send
                        /\ {MaxMoves, MaxTrouble} \subseteq Nat

VARIABLES
  monMirror,     \* the send in the ConsoleState
  monSeen,       \* last_generation is the mirror's generation
  monPushed,     \* last_send_state
  monRecent,     \* last_push_times: pushed within the rate limit
  monOwn,        \* own_changes
  monConnected,  \* the clients seen within the timeout
  monDue,        \* the clients whose next Connect brings a snapshot
  monUp,         \* commands on their way to the daemon
  monDown,       \* states and echoes on their way to a client
  monAwake,      \* the clients that are running
  monShown,      \* what a client shows
  monHeld,       \* the fields a phone keeps
  monMoves, monTrouble,
  monWatched,    \* history: a client was connected at the last complete poll
  monMover       \* history: whose change the mirror's last one was

monDaemon == <<monMirror, monSeen, monPushed, monRecent, monOwn, monConnected, monDue>>
monClients == <<monAwake, monShown, monHeld>>
monBounds == <<monMoves, monTrouble>>
monHistory == <<monWatched, monMover>>
monVars == <<monDaemon, monUp, monDown, monClients, monBounds, monHistory>>

MonInit ==
  /\ monMirror = StartSend /\ monSeen = FALSE /\ monPushed = NoSend /\ monRecent = FALSE
  /\ monOwn = NoChange /\ monConnected = {} /\ monDue = Clients
  /\ monUp = [c \in Clients |-> <<[what |-> "connect"]>>]
  /\ monDown = [c \in Clients |-> <<>>]
  /\ monAwake = Clients /\ monShown = [c \in Clients |-> StartSend]
  /\ monHeld = [c \in Clients |-> {}]
  /\ monMoves = 0 /\ monTrouble = 0
  /\ monWatched = FALSE /\ monMover = NoChange

-----------------------------------------------------------------------------
(* The daemon                                                              *)

Mirror(change, mover) == /\ monMirror' = [monMirror EXCEPT ![change.field] = change.value]
                         /\ monSeen' = FALSE
                         /\ monMover' = mover

\* Published to the clients that are connected when it is sent out.
Publish(event, to) == monDown' = [c \in Clients |-> IF c \in to \cap monAwake
                                                    THEN Append(monDown[c], event)
                                                    ELSE monDown[c]]
FullState == [what |-> "state", send |-> monMirror]

\* A new connection gets the whole state, a heartbeat only now and then.
SnapshotDueNewOnly(c) == c \notin monConnected
SnapshotDue(c) == c \notin monConnected \/ c \in monDue

HandleConnect(c) ==
  /\ IF SnapshotDue(c) THEN Publish(FullState, {c}) /\ monDue' = monDue \ {c}
                       ELSE UNCHANGED <<monDown, monDue>>
  /\ UNCHANGED <<monMirror, monSeen, monPushed, monRecent, monOwn, monHistory>>

\* The mirror first, then the desk; the echo and the memory of whose change
\* it was only if the desk was sent it.
HandleSet(c, change) ==
  /\ Mirror(change, c)
  /\ \/ /\ Publish([what |-> "echo", change |-> change], monConnected \ {c})
        /\ monOwn' = [client |-> c, change |-> change, fresh |-> TRUE]
     \/ UNCHANGED <<monDown, monOwn>>
  /\ UNCHANGED <<monPushed, monRecent, monDue, monWatched>>

Handle(c) ==
  /\ monUp[c] # <<>>
  /\ monUp' = [monUp EXCEPT ![c] = Tail(monUp[c])]
  /\ monConnected' = monConnected \cup {c}
  /\ LET command == Head(monUp[c]) IN
       \/ command.what = "connect" /\ HandleConnect(c)
       \/ command.what = "set" /\ HandleSet(c, command.change)
  /\ UNCHANGED <<monClients, monBounds>>

\* The client left out of a push: the one whose recent change is all there is
\* to push.
OnlyTheirs == /\ monOwn # NoChange /\ monPushed # NoSend
              /\ monMirror[monOwn.change.field] = monOwn.change.value
              /\ \A f \in Fields \ {monOwn.change.field} : monMirror[f] = monPushed[f]
OwnChangeOnly == IF OnlyTheirs /\ monOwn.fresh THEN {monOwn.client} ELSE {}

Push == /\ Publish(FullState, monConnected \ OwnChangeOnly)
        /\ monOwn' = IF OwnChangeOnly = {} THEN NoChange ELSE monOwn
        /\ monPushed' = monMirror
        /\ monRecent' = TRUE

\* A poll that holds something back does not count as complete.
HeldBackNever == FALSE
HeldBack == monConnected # {} /\ monMirror # monPushed /\ monRecent

Poll ==
  /\ ~monSeen /\ ~HeldBack
  /\ monSeen' = TRUE /\ monWatched' = (monConnected # {})
  /\ IF monConnected # {} /\ monMirror # monPushed /\ ~monRecent THEN Push
     ELSE UNCHANGED <<monDown, monOwn, monPushed, monRecent>>
  /\ UNCHANGED <<monMirror, monConnected, monDue, monUp, monClients, monBounds, monMover>>

TimesOut(c) == /\ c \in monConnected \ monAwake
               /\ monConnected' = monConnected \ {c}
               /\ UNCHANGED <<monMirror, monSeen, monPushed, monRecent, monOwn, monDue, monUp,
                              monDown, monClients, monBounds, monHistory>>

\* The rate limit, the memory of an own change and the pause between two
\* snapshots run out.
LimitPasses == /\ monRecent /\ monRecent' = FALSE
               /\ UNCHANGED <<monMirror, monSeen, monPushed, monOwn, monConnected, monDue, monUp,
                              monDown, monClients, monBounds, monHistory>>
OwnAges == /\ monOwn # NoChange /\ monOwn.fresh
           /\ monOwn' = [monOwn EXCEPT !.fresh = FALSE]
           /\ UNCHANGED <<monMirror, monSeen, monPushed, monRecent, monConnected, monDue, monUp,
                          monDown, monClients, monBounds, monHistory>>
ResyncDue(c) == /\ c \in Phones \ monDue /\ monUp[c] = <<>> /\ monDown[c] = <<>>
                /\ monDue' = monDue \cup {c}
                /\ UNCHANGED <<monMirror, monSeen, monPushed, monRecent, monOwn, monConnected,
                               monUp, monDown, monClients, monBounds, monHistory>>

DeskMoves(change) == /\ monMoves < MaxMoves /\ monMoves' = monMoves + 1
                     /\ monMirror[change.field] # change.value
                     /\ Mirror(change, NoChange)
                     /\ UNCHANGED <<monPushed, monRecent, monOwn, monConnected, monDue, monUp,
                                    monDown, monClients, monTrouble, monWatched>>

-----------------------------------------------------------------------------
(* The clients                                                             *)

\* What a client shows moves at once; a phone then keeps it for a moment.
UserMoves(c, change) ==
  /\ c \in monAwake \cap monConnected /\ monMoves < MaxMoves
  /\ monMoves' = monMoves + 1
  /\ monShown[c][change.field] # change.value
  /\ monShown' = [monShown EXCEPT ![c][change.field] = change.value]
  /\ monHeld' = IF c \in Phones THEN [monHeld EXCEPT ![c] = @ \cup {change.field}] ELSE monHeld
  /\ monUp' = [monUp EXCEPT ![c] = Append(@, [what |-> "set", change |-> change])]
  /\ UNCHANGED <<monDaemon, monDown, monAwake, monTrouble, monHistory>>

Release(c) == /\ monHeld[c] # {}
              /\ monHeld' = [monHeld EXCEPT ![c] = {}]
              /\ UNCHANGED <<monDaemon, monUp, monDown, monAwake, monShown, monBounds, monHistory>>

IncomingWhole(event) == IF event.what = "state" THEN event.send
                        ELSE [f \in Fields |-> IF f = event.change.field THEN event.change.value
                                               ELSE NoSend]
Incoming(event) == IF event.what = "state" THEN event.send
                   ELSE [f \in {event.change.field} |-> event.change.value]

Deliver(c) ==
  /\ monDown[c] # <<>>
  /\ monDown' = [monDown EXCEPT ![c] = Tail(@)]
  /\ LET incoming == Incoming(Head(monDown[c])) IN
       monShown' = [monShown EXCEPT ![c] =
                      [f \in Fields |-> IF f \in DOMAIN incoming \ monHeld[c]
                                        THEN incoming[f] ELSE @[f]]]
  /\ UNCHANGED <<monDaemon, monUp, monAwake, monHeld, monBounds, monHistory>>

\* A phone's heartbeat is a Connect, left out here when it would only keep it
\* connected, as a browser's does.
Heartbeat(c) == /\ c \in monAwake \cap Phones /\ monUp[c] = <<>>
                /\ c \in monDue \/ c \notin monConnected
                /\ monUp' = [monUp EXCEPT ![c] = <<[what |-> "connect"]>>]
                /\ UNCHANGED <<monDaemon, monDown, monClients, monBounds, monHistory>>

\* The phone sleeps, or the page is closed; a page opened again connects anew.
Sleep(c) == /\ c \in monAwake /\ monTrouble < MaxTrouble
            /\ monTrouble' = monTrouble + 1
            /\ monAwake' = monAwake \ {c}
            /\ monUp' = [monUp EXCEPT ![c] = <<>>] /\ monDown' = [monDown EXCEPT ![c] = <<>>]
            /\ UNCHANGED <<monDaemon, monShown, monHeld, monMoves, monHistory>>
Wake(c) == /\ c \notin monAwake
           /\ monAwake' = monAwake \cup {c}
           /\ IF c \in Browsers
              THEN /\ monUp' = [monUp EXCEPT ![c] = <<[what |-> "connect"]>>]
                   /\ monDue' = monDue \cup {c}
              ELSE UNCHANGED <<monUp, monDue>>
           /\ UNCHANGED <<monMirror, monSeen, monPushed, monRecent, monOwn, monConnected, monDown,
                          monShown, monHeld, monBounds, monHistory>>

Lose(c) == /\ c \in Phones /\ monTrouble < MaxTrouble
           /\ monTrouble' = monTrouble + 1
           /\ \/ /\ monUp[c] # <<>> /\ monUp' = [monUp EXCEPT ![c] = Tail(@)]
                 /\ UNCHANGED monDown
              \/ /\ monDown[c] # <<>> /\ monDown' = [monDown EXCEPT ![c] = Tail(@)]
                 /\ UNCHANGED monUp
           /\ UNCHANGED <<monDaemon, monClients, monMoves, monHistory>>

-----------------------------------------------------------------------------
MonNext == \/ Poll \/ LimitPasses \/ OwnAges
           \/ \E change \in DeskChanges : DeskMoves(change)
           \/ \E c \in Clients :
                \/ Handle(c) \/ TimesOut(c) \/ ResyncDue(c)
                \/ \E change \in UserChanges : UserMoves(c, change)
                \/ Release(c) \/ Deliver(c) \/ Heartbeat(c) \/ Sleep(c) \/ Wake(c) \/ Lose(c)

MonSpec == MonInit /\ [][MonNext]_monVars

\* The loop takes commands and polls, its clocks go on, a phone that is awake
\* sends its heartbeat, and what is not lost arrives.
MonFairSpec ==
  /\ MonSpec /\ WF_monVars(Poll) /\ WF_monVars(LimitPasses)
  /\ \A c \in Clients : /\ WF_monVars(Handle(c)) /\ WF_monVars(ResyncDue(c))
                        /\ WF_monVars(Release(c)) /\ WF_monVars(Deliver(c))
                        /\ WF_monVars(Heartbeat(c))

-----------------------------------------------------------------------------
(* Properties                                                              *)

MonTypeOK ==
  /\ monMirror \in Send /\ {monSeen, monRecent, monWatched} \subseteq BOOLEAN
  /\ monPushed \in Send \cup {NoSend}
  /\ monOwn \in [client : Clients, change : Change, fresh : BOOLEAN] \cup {NoChange}
  /\ {monConnected, monDue, monAwake} \subseteq SUBSET Clients
  /\ monShown \in [Clients -> Send] /\ monHeld \in [Clients -> SUBSET Fields]
  /\ monMoves \in 0..MaxMoves /\ monTrouble \in 0..MaxTrouble

\* Nothing the rate limit held back is forgotten: when the poll takes the
\* mirror for seen, with a client there to see it, the last push was of what
\* the mirror has.
NothingForgotten == monSeen /\ monWatched => monPushed = monMirror

\* A phone is put right: left awake, it comes to show what the mirror has,
\* whatever was lost, crossed, kept by its hold or left out as its own.
PhonesPutRight == \A c \in Phones : <>[](c \in monAwake) => <>[](monShown[c] = monMirror)

\* A client's change reaches the other clients by the poll, also when the desk
\* could not be sent it and no echo went out (forward_send_change).
Quiet == monSeen /\ \A c \in Clients : monUp[c] = <<>> /\ monDown[c] = <<>>
OthersSeeChange == Quiet /\ monMover \in Clients =>
                     \A c \in (Browsers \cap monAwake) \ {monMover} : monShown[c] = monMirror
=============================================================================
