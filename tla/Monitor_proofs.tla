---------------------------- MODULE Monitor_proofs ----------------------------
(***************************************************************************)
(* Theorems about Monitor for any number of phones and browsers, any       *)
(* levels, moves, losses and naps: types, and that a push the rate limit   *)
(* held back is made good.                                                 *)
(***************************************************************************)
EXTENDS Monitor, TLAPS

-----------------------------------------------------------------------------
(* What is on its way.                                                      *)

Commands == [what : {"connect"}] \cup [what : {"set"}, change : Change]
Events == [what : {"state"}, send : Send] \cup [what : {"echo"}, change : Change]
OnTheWay == monUp \in [Clients -> Seq(Commands)] /\ monDown \in [Clients -> Seq(Events)]
MonTypes == MonTypeOK /\ OnTheWay

\* The first on a queue and the rest of it.
LEMMA Ends ==
  ASSUME NEW S, NEW q \in Seq(S)
  PROVE  /\ q # <<>> => Head(q) \in S /\ Tail(q) \in Seq(S)
         /\ \A e \in S : Append(q, e) \in Seq(S) /\ <<e>> \in Seq(S)
OBVIOUS

\* What the daemon publishes is an event.
LEMMA PublishOK ==
  ASSUME OnTheWay, NEW event \in Events, NEW to, Publish(event, to)
  PROVE  monDown' \in [Clients -> Seq(Events)]
<1>1. \A c \in Clients : monDown[c] \in Seq(Events) /\ Append(monDown[c], event) \in Seq(Events)
  BY Ends DEF OnTheWay
<1>. QED BY <1>1 DEF Publish

\* A write leaves a whole send in the mirror.
LEMMA MirrorOK ==
  ASSUME MonTypes, NEW change \in Change, NEW mover, Mirror(change, mover)
  PROVE  monMirror' \in Send /\ monSeen' \in BOOLEAN
BY DEF MonTypes, MonTypeOK, Mirror, Send, Change

\* A command handled.
LEMMA HandleTypes ==
  ASSUME MonTypes, NEW c \in Clients, Handle(c)
  PROVE  MonTypes'
<1>. DEFINE command == Head(monUp[c])
<1>1. command \in Commands /\ monUp' \in [Clients -> Seq(Commands)]
  BY Ends DEF MonTypes, OnTheWay, Handle
<1>2. monConnected' \subseteq Clients /\ UNCHANGED <<monClients, monBounds>>
  BY DEF Handle, MonTypes, MonTypeOK
<1>3. CASE command.what = "connect" /\ HandleConnect(c)
  <2>1. FullState \in Events
    BY DEF FullState, Events, MonTypes, MonTypeOK
  <2>2. monDown' \in [Clients -> Seq(Events)] /\ monDue' \subseteq Clients
    BY <1>3, <2>1, PublishOK DEF HandleConnect, MonTypes, MonTypeOK, OnTheWay
  <2>3. UNCHANGED <<monMirror, monSeen, monPushed, monRecent, monOwn, monHistory>>
    BY <1>3 DEF HandleConnect
  <2>. QED BY <1>1, <1>2, <2>2, <2>3
       DEF MonTypes, MonTypeOK, OnTheWay, monClients, monBounds, monHistory
<1>4. CASE command.what = "set" /\ HandleSet(c, command.change)
  <2>. DEFINE change == command.change
              echo == [what |-> "echo", change |-> change]
              mine == [client |-> c, change |-> change, fresh |-> TRUE]
  <2>1. change \in Change
    BY <1>1, <1>4 DEF Commands
  <2>. HIDE DEF command, change
  <2>2. echo \in Events /\ mine \in [client : Clients, change : Change, fresh : BOOLEAN]
    BY <2>1 DEF Events
  <2>3. /\ Mirror(change, c)
        /\ \/ Publish(echo, monConnected \ {c}) /\ monOwn' = mine
           \/ UNCHANGED <<monDown, monOwn>>
    BY <1>4 DEF HandleSet, change
  <2>. HIDE DEF echo, mine
  <2>4. monMirror' \in Send /\ monSeen' \in BOOLEAN
    BY <2>1, <2>3, MirrorOK
  <2>5. /\ monDown' \in [Clients -> Seq(Events)]
        /\ monOwn' \in [client : Clients, change : Change, fresh : BOOLEAN] \cup {NoChange}
    BY <2>2, <2>3, PublishOK DEF MonTypes, MonTypeOK, OnTheWay
  <2>6. UNCHANGED <<monPushed, monRecent, monDue, monWatched>>
    BY <1>4 DEF HandleSet
  <2>. QED BY <1>1, <1>2, <2>4, <2>5, <2>6
       DEF MonTypes, MonTypeOK, OnTheWay, monClients, monBounds
<1>. QED BY <1>3, <1>4 DEF Handle

\* What a client is shown.
LEMMA DeliverTypes ==
  ASSUME MonTypes, NEW c \in Clients, Deliver(c)
  PROVE  MonTypes'
<1>. DEFINE event == Head(monDown[c])
            incoming == Incoming(event)
            shown == [f \in Fields |-> IF f \in DOMAIN incoming \ monHeld[c]
                                       THEN incoming[f] ELSE monShown[c][f]]
<1>1. event \in Events /\ monDown' \in [Clients -> Seq(Events)]
  BY Ends DEF MonTypes, OnTheWay, Deliver
<1>2. \A f \in DOMAIN incoming : incoming[f] \in LevelValues
  <2>. HIDE DEF event
  <2>1. CASE event.what = "state"
    BY <1>1, <2>1 DEF Events, Incoming, Send
  <2>2. CASE event.what # "state"
    BY <1>1, <2>2 DEF Events, Incoming, Change
  <2>. QED BY <2>1, <2>2
<1>3. monShown' = [monShown EXCEPT ![c] = shown]
  BY DEF Deliver, MonTypes, MonTypeOK
<1>4. shown \in Send
  <2>1. \A f \in Fields : monShown[c][f] \in LevelValues
    BY DEF MonTypes, MonTypeOK, Send
  <2>. HIDE DEF incoming
  <2>. QED BY <1>2, <2>1 DEF Send
<1>. HIDE DEF shown
<1>5. monShown' \in [Clients -> Send]
  BY <1>3, <1>4 DEF MonTypes, MonTypeOK
<1>6. UNCHANGED <<monDaemon, monUp, monAwake, monHeld, monBounds, monHistory>>
  BY DEF Deliver
<1>. QED BY <1>1, <1>5, <1>6 DEF MonTypes, MonTypeOK, OnTheWay, monDaemon, monBounds, monHistory

\* A poll.
LEMMA PollTypes ==
  ASSUME MonTypes, Poll
  PROVE  MonTypes'
<1>1. CASE Push
  <2>1. FullState \in Events
    BY DEF FullState, Events, MonTypes, MonTypeOK
  <2>2. monDown' \in [Clients -> Seq(Events)] /\ monOwn' \in {monOwn, NoChange}
    BY <1>1, <2>1, PublishOK DEF Push, MonTypes
  <2>3. monPushed' = monMirror /\ monRecent' = TRUE
    BY <1>1 DEF Push
  <2>. QED BY <2>2, <2>3 DEF Poll, MonTypes, MonTypeOK, OnTheWay, monClients, monBounds
<1>2. CASE UNCHANGED <<monDown, monOwn, monPushed, monRecent>>
  BY <1>2 DEF Poll, MonTypes, MonTypeOK, OnTheWay, monClients, monBounds
<1>. QED BY <1>1, <1>2 DEF Poll

\* A user's move.
LEMMA UserMovesTypes ==
  ASSUME MonTypes, NEW c \in Clients, NEW change \in UserChanges, UserMoves(c, change)
  PROVE  MonTypes'
<1>. DEFINE command == [what |-> "set", change |-> change]
<1>1. change \in Change /\ command \in Commands /\ change.field \in Fields
  BY MonAssumption DEF Commands, Change
<1>. HIDE DEF command
<1>2. monUp' \in [Clients -> Seq(Commands)]
  BY <1>1, Ends DEF UserMoves, MonTypes, OnTheWay, command
<1>3. monShown' \in [Clients -> Send]
  <2>1. monShown[c] \in Send /\ change.value \in LevelValues
    BY <1>1 DEF MonTypes, MonTypeOK, Change
  <2>2. [monShown[c] EXCEPT ![change.field] = change.value] \in Send
    BY <1>1, <2>1 DEF Send
  <2>. QED BY <2>2 DEF UserMoves, MonTypes, MonTypeOK
<1>4. monHeld' \in [Clients -> SUBSET Fields]
  BY <1>1 DEF UserMoves, MonTypes, MonTypeOK
<1>5. monMoves' \in 0..MaxMoves
  BY MonAssumption DEF UserMoves, MonTypes, MonTypeOK
<1>6. UNCHANGED <<monDaemon, monDown, monAwake, monTrouble, monHistory>>
  BY DEF UserMoves
<1>. QED BY <1>2, <1>3, <1>4, <1>5, <1>6 DEF MonTypes, MonTypeOK, OnTheWay, monDaemon, monHistory

\* Every step keeps the types.
LEMMA MonTypesNext ==
  ASSUME MonTypes, [MonNext]_monVars
  PROVE  MonTypes'
<1>. USE DEF MonTypes, MonTypeOK, OnTheWay
<1>1. CASE UNCHANGED monVars
  BY <1>1 DEF monVars, monDaemon, monClients, monBounds, monHistory
<1>2. CASE LimitPasses
  BY <1>2 DEF LimitPasses, monClients, monBounds, monHistory
<1>3. CASE OwnAges
  BY <1>3 DEF OwnAges, monClients, monBounds, monHistory
<1>4. ASSUME NEW change \in DeskChanges, DeskMoves(change) PROVE MonTypes'
  <2>1. monMirror' \in Send /\ monSeen' \in BOOLEAN
    BY <1>4, MirrorOK, MonAssumption DEF DeskMoves
  <2>2. monMoves' \in 0..MaxMoves
    BY <1>4, MonAssumption DEF DeskMoves
  <2>. QED BY <1>4, <2>1, <2>2 DEF DeskMoves, monClients
<1>5. ASSUME NEW c \in Clients, TimesOut(c) \/ ResyncDue(c) PROVE MonTypes'
  BY <1>5 DEF TimesOut, ResyncDue, monClients, monBounds, monHistory, Clients
<1>6. ASSUME NEW c \in Clients, Release(c) PROVE MonTypes'
  BY <1>6 DEF Release, monDaemon, monBounds, monHistory
<1>7. ASSUME NEW c \in Clients, Heartbeat(c) PROVE MonTypes'
  <2>1. <<[what |-> "connect"]>> \in Seq(Commands)
    BY DEF Commands
  <2>. QED BY <1>7, <2>1 DEF Heartbeat, monDaemon, monClients, monBounds, monHistory
<1>8. ASSUME NEW c \in Clients, Sleep(c) PROVE MonTypes'
  <2>1. <<>> \in Seq(Commands) /\ <<>> \in Seq(Events)
    OBVIOUS
  <2>2. monTrouble' \in 0..MaxTrouble
    BY <1>8, MonAssumption DEF Sleep
  <2>. QED BY <1>8, <2>1, <2>2 DEF Sleep, monDaemon, monHistory
<1>9. ASSUME NEW c \in Clients, Wake(c) PROVE MonTypes'
  <2>1. <<[what |-> "connect"]>> \in Seq(Commands)
    BY DEF Commands
  <2>2. monUp' \in [Clients -> Seq(Commands)] /\ monDue' \subseteq Clients /\ monAwake' \subseteq Clients
    BY <1>9, <2>1 DEF Wake
  <2>3. UNCHANGED <<monMirror, monSeen, monPushed, monRecent, monOwn, monConnected, monDown,
                    monShown, monHeld, monBounds, monHistory>>
    BY <1>9 DEF Wake
  <2>. QED BY <2>2, <2>3 DEF monBounds, monHistory
<1>10. ASSUME NEW c \in Clients, Lose(c) PROVE MonTypes'
  <2>1. /\ monUp[c] # <<>> => Tail(monUp[c]) \in Seq(Commands)
        /\ monDown[c] # <<>> => Tail(monDown[c]) \in Seq(Events)
    BY Ends
  <2>2. monTrouble' \in 0..MaxTrouble
    BY <1>10, MonAssumption DEF Lose
  <2>. QED BY <1>10, <2>1, <2>2 DEF Lose, monDaemon, monClients, monHistory
<1>. QED BY <1>1, <1>2, <1>3, <1>4, <1>5, <1>6, <1>7, <1>8, <1>9, <1>10, HandleTypes, DeliverTypes,
            PollTypes, UserMovesTypes DEF MonNext

\* Every variable keeps its type, with any number of clients, moves and losses.
THEOREM MonTypeCorrect == MonSpec => []MonTypeOK
<1>1. MonInit => MonTypes
  <2>1. <<[what |-> "connect"]>> \in Seq(Commands) /\ <<>> \in Seq(Events)
    BY DEF Commands
  <2>2. MaxMoves \in Nat /\ MaxTrouble \in Nat /\ StartSend \in Send
    BY MonAssumption
  <2>3. MonInit => OnTheWay
    BY <2>1 DEF MonInit, OnTheWay
  <2>4. MonInit => /\ monShown \in [Clients -> Send] /\ monHeld \in [Clients -> SUBSET Fields]
                   /\ monMirror \in Send /\ monPushed = NoSend /\ monOwn = NoChange
    BY <2>2 DEF MonInit
  <2>5. MonInit => /\ monSeen \in BOOLEAN /\ monRecent \in BOOLEAN /\ monWatched \in BOOLEAN
                   /\ monConnected \subseteq Clients /\ monDue \subseteq Clients
                   /\ monAwake \subseteq Clients
    BY DEF MonInit
  <2>6. MonInit => monMoves \in 0..MaxMoves /\ monTrouble \in 0..MaxTrouble
    BY <2>2 DEF MonInit
  <2>7. MonInit => MonTypeOK
    BY <2>4, <2>5, <2>6 DEF MonTypeOK
  <2>. QED BY <2>3, <2>7 DEF MonTypes
<1>2. MonTypes /\ [MonNext]_monVars => MonTypes'
  BY MonTypesNext
<1>3. MonTypes => MonTypeOK
  BY DEF MonTypes
<1>. QED BY <1>1, <1>2, <1>3, PTL DEF MonSpec

-----------------------------------------------------------------------------
(* Pushes held back.                                                        *)

\* Nothing the rate limit held back is forgotten, whatever the desk and the clients move
\* between two polls: the poll either pushes what the mirror has or leaves it unseen, and
\* whoever writes the mirror makes it unseen again.
THEOREM NothingForgottenCorrect == MonSpec => []NothingForgotten
<1>1. MonInit => NothingForgotten
  BY DEF MonInit, NothingForgotten
<1>2. NothingForgotten /\ [MonNext]_monVars => NothingForgotten'
  <2>. SUFFICES ASSUME NothingForgotten, [MonNext]_monVars PROVE NothingForgotten'
    OBVIOUS
  <2>1. CASE Poll
    <3>1. CASE monConnected = {}
      BY <2>1, <3>1 DEF Poll, NothingForgotten
    <3>2. CASE monConnected # {} /\ monMirror # monPushed
      BY <2>1, <3>2 DEF Poll, HeldBack, Push, NothingForgotten
    <3>3. CASE monMirror = monPushed
      BY <2>1, <3>3 DEF Poll, NothingForgotten
    <3>. QED BY <3>1, <3>2, <3>3
  <2>2. CASE ~Poll
    <3>1. UNCHANGED <<monPushed, monWatched>>
      BY <2>2 DEF MonNext, monVars, monDaemon, monHistory, LimitPasses, OwnAges, DeskMoves, Handle,
        HandleConnect, HandleSet, TimesOut, ResyncDue, UserMoves, Release, Deliver, Heartbeat, Sleep,
        Wake, Lose
    <3>2. UNCHANGED <<monMirror, monSeen>> \/ monSeen' = FALSE
      BY <2>2 DEF MonNext, monVars, monDaemon, monHistory, LimitPasses, OwnAges, DeskMoves, Handle,
        HandleConnect, HandleSet, TimesOut, ResyncDue, UserMoves, Release, Deliver, Heartbeat, Sleep,
        Wake, Lose, Mirror
    <3>. QED BY <3>1, <3>2 DEF NothingForgotten
  <2>. QED BY <2>1, <2>2
<1>. QED BY <1>1, <1>2, PTL DEF MonSpec
=============================================================================
