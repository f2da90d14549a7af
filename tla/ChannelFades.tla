----------------------------- MODULE ChannelFades -----------------------------
(***************************************************************************)
(* What a timed cue does on one channel (recall_cue_timed in               *)
(* src/console/snapshot_engine.rs, run_fade in src/console/fade_engine.rs, *)
(* the override by value and time in src/console/automation_registry.rs).  *)
(*                                                                         *)
(* The channel's task forks one task per timing category and joins them.   *)
(* A mute that goes on is sent before they start, one that goes off after  *)
(* they have ended; a switch is sent before the fade of its category; an   *)
(* aux send is switched off before its level moves and on after it has.    *)
(* A newer cue cuts all of this short anywhere and snaps what is left.     *)
(*                                                                         *)
(* RecallEngine has the calls, the epochs and the gate in full; here the   *)
(* cues claim their epochs and take the gate in the order of their numbers. *)
(* Pre-waits and ticks take any time.                                      *)
(***************************************************************************)
EXTENDS Integers, Sequences, FiniteSets

CONSTANTS
  Categories,     \* timing categories that have a level
  AuxSends,      \* those of them that are one aux send each
  FadeTicks,      \* increments of a fade
  Top,            \* levels are 0..Top
  Scenes,         \* what the desk may be, and the cues played on it in this order
  CueCount,
  Touchable,      \* addresses that a hand or another engine may move
  NoReport,       \* the desk has nothing to report of an address
  MaxTouches      \* bound: moves of the operator's hand and of other engines

Mute == <<"mute", "channel">>            \* 1 is muted
Level(c) == <<"level", c>>
Switch(c) == <<"switch", c>>             \* an EQ's in, an aux send's on
ChannelAddr == {Mute} \cup {Level(c) : c \in Categories} \cup {Switch(c) : c \in Categories}
ValuesOf(a) == IF \E c \in Categories : a = Level(c) THEN 0..Top ELSE 0..1
IsDesk(d) == DOMAIN d = ChannelAddr /\ \A a \in ChannelAddr : d[a] \in ValuesOf(a)
\* A cue: the values in its scope, and the categories whose fade time is not zero.
\* (Without one a switch and a level of a category go out in any order: cues here
\* give such a category a fade.)
IsCue(cue) ==
  /\ DOMAIN cue.values \subseteq ChannelAddr /\ cue.fades \subseteq Categories
  /\ \A a \in DOMAIN cue.values : cue.values[a] \in ValuesOf(a)
  /\ \A c \in Categories \ (AuxSends \cup cue.fades) :
       ~({Level(c), Switch(c)} \subseteq DOMAIN cue.values)

ASSUME ChannelAssumption ==
  /\ AuxSends \subseteq Categories /\ {"channel", "snap"} \cap Categories = {}
  /\ FadeTicks \in Nat \ {0} /\ Top \in Nat \ {0}
  /\ NoReport \notin Int /\ CueCount \in Nat /\ MaxTouches \in Nat
  /\ Touchable \subseteq ChannelAddr
  /\ \A scene \in Scenes :
       /\ IsDesk(scene.desk)
       /\ DOMAIN scene.cues = 1..CueCount
       /\ \A i \in 1..CueCount : IsCue(scene.cues[i])

CueNos == 1..CueCount

VARIABLES
  chCues,     \* the cues, in the order of their presses
  chPressed,  \* recall_epoch: a cue of a smaller number is cancelled
  chTask,     \* the recall and its channel's task
  chStep,     \* the task of a category
  chFade,     \* FadeTarget::start_value and the increment a fade has reached
  chSnaps,    \* snap_set, what is left of it
  chPlan,     \* superseded_plan
  chAuto,     \* AutomationRegistry::inner: the generation of an entry, 0 for none
  chSent,     \* its last_sent and prev_sent
  chDesk,     \* the console
  chMirror,   \* ConsoleState
  chNoted,    \* datagrams sent whose sender has yet to note them
  chReport,   \* the desk's report of a hand's move, under way
  chTouches,
  chOthers,   \* history: addresses written by a hand or another engine since a
              \* cue that names them resolved
  chHands     \* history: addresses a hand has moved

chVars == <<chCues, chPressed, chTask, chStep, chFade, chSnaps, chPlan, chAuto, chSent,
            chDesk, chMirror, chNoted, chReport, chTouches, chOthers, chHands>>
chWorld == <<chReport, chTouches, chOthers, chHands>>

Own(i) == chCues[i].values
Names(i, a) == a \in DOMAIN Own(i)
NoFade == [from |-> 0, at |-> -1]
NoValues == [a \in {} |-> 0]
\* f, and g where f says nothing.
Onto(f, g) == [a \in DOMAIN f \cup DOMAIN g |-> IF a \in DOMAIN f THEN f[a] ELSE g[a]]
Without(f, s) == [a \in DOMAIN f \ s |-> f[a]]

ChannelInit ==
  /\ \E scene \in Scenes : chCues = scene.cues /\ chDesk = scene.desk
  /\ chPressed = 0
  /\ chTask = [i \in CueNos |-> "idle"]
  /\ chStep = [i \in CueNos |-> [c \in Categories |-> "none"]]
  /\ chFade = [i \in CueNos |-> [c \in Categories |-> NoFade]]
  /\ chSnaps = NoValues /\ chPlan = [by |-> 0, values |-> NoValues]
  /\ chAuto = [a \in ChannelAddr |-> 0] /\ chSent = [a \in ChannelAddr |-> <<>>]
  /\ chMirror = chDesk
  /\ chNoted = {} /\ chReport = [a \in ChannelAddr |-> NoReport]
  /\ chTouches = 0 /\ chOthers = {} /\ chHands = {}

-----------------------------------------------------------------------------
(* A cue, from its press to the start of its channel's task                *)

Superseded(i) == i < chPressed
\* A task goes on once its last datagram has been noted.
Noted(i, c) == \A n \in chNoted : <<n.cue, n.task>> # <<i, c>>
StepsOver(i) == \A c \in Categories : chStep[i][c] \in {"none", "over"} /\ Noted(i, c)
Stopped(i) == chTask[i] \in {"joined", "over"} /\ Noted(i, "channel")
Reaches(i, state) == chTask' = [chTask EXCEPT ![i] = state]

\* begin_recall_epoch: the predecessor is cancelled.
Press(i) ==
  /\ i = chPressed + 1
  /\ chPressed' = i /\ Reaches(i, "queued")
  /\ UNCHANGED <<chCues, chStep, chFade, chSnaps, chPlan, chAuto, chSent, chDesk, chMirror,
                 chNoted, chWorld>>

\* The gate is the predecessors' until they have spawned their tasks; those end
\* within a tick of losing their token, before the successor's first datagram.
HasGate(i) == chTask[i] = "queued" /\ \A j \in 1..(i - 1) : Stopped(j)
PlanOf(i) == [by |-> i, values |-> Onto(Own(i), chPlan.values)]

\* Superseded while queued: merge_superseded_plan.
LeaveQueue(i) ==
  /\ HasGate(i) /\ Superseded(i)
  /\ chPlan' = PlanOf(i) /\ Reaches(i, "over")
  /\ UNCHANGED <<chCues, chPressed, chStep, chFade, chSnaps, chAuto, chSent, chDesk, chMirror,
                 chNoted, chWorld>>

\* A fresh generation; what the superseded cue still owes is to be snapped; the
\* live values are captured.
ResolveCue(i) ==
  /\ HasGate(i) /\ ~Superseded(i)
  /\ chFade' = [chFade EXCEPT ![i] = [c \in Categories |->
                                       [NoFade EXCEPT !.from = chMirror[Level(c)]]]]
  /\ chAuto' = [a \in ChannelAddr |-> 0]
  /\ chSnaps' = Without(chPlan.values, DOMAIN Own(i))
  /\ chPlan' = PlanOf(i)
  /\ chOthers' = (chOthers \ DOMAIN Own(i)) \cup {a \in ChannelAddr : chReport[a] # NoReport}
  /\ Reaches(i, "snapping")
  /\ UNCHANGED <<chCues, chPressed, chStep, chSent, chDesk, chMirror, chNoted,
                 chReport, chTouches, chHands>>

\* A datagram of a task of cue i, to be noted.
Datagram(i, task, a, v) ==
  /\ chDesk' = [chDesk EXCEPT ![a] = v]
  /\ chNoted' = chNoted \cup {[cue |-> i, task |-> task, at |-> a, value |-> v]}

SnapOne(i) ==
  /\ chTask[i] = "snapping" /\ ~Superseded(i) /\ Noted(i, "snap")
  /\ \E a \in DOMAIN chSnaps : /\ Datagram(i, "snap", a, chSnaps[a])
                               /\ chSnaps' = Without(chSnaps, {a})
  /\ UNCHANGED <<chCues, chPressed, chTask, chStep, chFade, chPlan, chAuto, chSent, chMirror,
                 chWorld>>

MuteGoes(i, v) == Names(i, Mute) /\ Own(i)[Mute] = v
MutesFirst(i) == MuteGoes(i, 1)

\* Every address of the cue is registered, then the channel's task is spawned
\* and the gate dropped.
SpawnChannel(i) ==
  /\ chTask[i] = "snapping" /\ Noted(i, "snap") /\ (chSnaps = NoValues \/ Superseded(i))
  /\ chSnaps' = NoValues
  /\ chAuto' = [a \in ChannelAddr |-> IF Names(i, a) THEN i ELSE chAuto[a]]
  /\ chSent' = [a \in ChannelAddr |-> IF Names(i, a) THEN <<>> ELSE chSent[a]]
  /\ Reaches(i, IF MutesFirst(i) THEN "muting" ELSE "forking")
  /\ UNCHANGED <<chCues, chPressed, chStep, chFade, chPlan, chDesk, chMirror, chNoted, chWorld>>

-----------------------------------------------------------------------------
(* The channel's task                                                      *)

\* send_one: nothing for a superseded cue, nothing to what the operator took.
MaySend(i, a) == ~Superseded(i) /\ chAuto[a] = i
SendOne(i, task, a) == IF MaySend(i, a) THEN Datagram(i, task, a, Own(i)[a])
                       ELSE UNCHANGED <<chDesk, chNoted>>

ChannelStep == UNCHANGED <<chCues, chPressed, chFade, chSnaps, chSent, chMirror, chWorld>>

MuteFirst(i) == /\ chTask[i] = "muting"
                /\ SendOne(i, "channel", Mute) /\ Reaches(i, "forking")
                /\ ChannelStep /\ UNCHANGED <<chStep, chPlan, chAuto>>

Busy(i, c) == Names(i, Level(c)) \/ Names(i, Switch(c))
ForkGroups(i) ==
  /\ chTask[i] = "forking" /\ Noted(i, "channel")
  /\ chStep' = [chStep EXCEPT ![i] = [c \in Categories |-> IF Busy(i, c) THEN "wait" ELSE "none"]]
  /\ Reaches(i, "moving")
  /\ ChannelStep /\ UNCHANGED <<chPlan, chAuto, chDesk, chNoted>>

\* The groups are awaited; the unmute is skipped when superseded.
AwaitedNot(i) == TRUE  \* mutant
Awaited(i) == StepsOver(i)
JoinGroups(i) ==
  /\ chTask[i] = "moving" /\ Awaited(i)
  /\ Reaches(i, IF MuteGoes(i, 0) /\ ~Superseded(i) THEN "unmuting" ELSE "joined")
  /\ ChannelStep /\ UNCHANGED <<chStep, chPlan, chAuto, chDesk, chNoted>>

MuteLast(i) == /\ chTask[i] = "unmuting"
               /\ SendOne(i, "channel", Mute) /\ Reaches(i, "joined")
               /\ ChannelStep /\ UNCHANGED <<chStep, chPlan, chAuto>>

\* clear_recall_plan, unless superseded.  Mutant: in any case.
LandedAlways(i) == TRUE
Landed(i) == ~Superseded(i)
FinishCue(i) ==
  /\ chTask[i] = "joined" /\ Noted(i, "channel")
  /\ chPlan' = IF Landed(i) /\ chPlan.by = i THEN [by |-> 0, values |-> NoValues] ELSE chPlan
  /\ Reaches(i, "over")
  /\ ChannelStep /\ UNCHANGED <<chStep, chAuto, chDesk, chNoted>>

-----------------------------------------------------------------------------
(* The task of one category: exec_group, exec_sends_group                  *)

Goes(i, c, step) == chStep' = [chStep EXCEPT ![i][c] = step]
GroupStep == UNCHANGED <<chCues, chPressed, chTask, chSnaps, chPlan, chSent, chMirror, chWorld>>

SwitchIs(i, c, v) == Names(i, Switch(c)) /\ Own(i)[Switch(c)] = v
OffFirstSwapped(i, c) == c \in AuxSends /\ SwitchIs(i, c, 1)  \* mutant
OffFirst(i, c) == c \in AuxSends /\ SwitchIs(i, c, 0)
OnLast(i, c) == c \in AuxSends /\ ~OffFirst(i, c) /\ Names(i, Switch(c))
LevelOver(i, c) == Goes(i, c, IF OnLast(i, c) THEN "on" ELSE "over")

PreWaitEnds(i, c) ==
  /\ chStep[i][c] = "wait"
  /\ Goes(i, c, IF Superseded(i) THEN "over" ELSE IF OffFirst(i, c) THEN "off" ELSE "begin")
  /\ GroupStep /\ UNCHANGED <<chFade, chAuto, chDesk, chNoted>>

SwitchOff(i, c) == /\ chStep[i][c] = "off"
                   /\ SendOne(i, c, Switch(c)) /\ Goes(i, c, "begin")
                   /\ GroupStep /\ UNCHANGED <<chFade, chAuto>>

\* A fade starts from the mirror's value at the end of the pre-wait (the one
\* captured by the recall is for a mirror that has none).  Mutant: from that one.
StartOfRecall(i, c) == chFade[i][c].from
StartValue(i, c) == chMirror[Level(c)]
Fades(i, c) == Names(i, Level(c)) /\ c \in chCues[i].fades
BeginGroup(i, c) ==
  /\ chStep[i][c] = "begin" /\ Noted(i, c)
  /\ chFade' = [chFade EXCEPT ![i][c] =
                  IF Fades(i, c) THEN [NoFade EXCEPT !.from = StartValue(i, c)] ELSE NoFade]
  /\ IF Superseded(i) THEN LevelOver(i, c)
     ELSE IF c \notin AuxSends /\ Names(i, Switch(c)) THEN Goes(i, c, "switch")
     ELSE Goes(i, c, "level")
  /\ GroupStep /\ UNCHANGED <<chAuto, chDesk, chNoted>>

\* The switches of a category, before its fades.
SwitchFirst(i, c) == /\ chStep[i][c] = "switch"
                     /\ SendOne(i, c, Switch(c))
                     /\ Goes(i, c, IF Superseded(i) THEN "over" ELSE "level")
                     /\ GroupStep /\ UNCHANGED <<chFade, chAuto>>

\* A level without a fade time, or none at all.
LevelAtOnce(i, c) ==
  /\ chStep[i][c] = "level" /\ Noted(i, c) /\ ~Fades(i, c)
  /\ IF Names(i, Level(c)) THEN SendOne(i, c, Level(c)) ELSE UNCHANGED <<chDesk, chNoted>>
  /\ LevelOver(i, c)
  /\ GroupStep /\ UNCHANGED <<chFade, chAuto>>

\* On the way from a fade's start to its target.
Increment(i, c, k) ==
  LET from == chFade[i][c].from IN
  from + ((Own(i)[Level(c)] - from) * k) \div FadeTicks

\* A tick: it asks the token and the registry, and is as late as it may be.
FadeTick(i, c) ==
  /\ chStep[i][c] = "level" /\ Noted(i, c) /\ Fades(i, c) /\ ~Superseded(i)
  /\ \E k \in (chFade[i][c].at + 1)..FadeTicks :
       /\ chFade' = [chFade EXCEPT ![i][c].at = k]
       /\ IF chAuto[Level(c)] = i THEN Datagram(i, c, Level(c), Increment(i, c, k))
          ELSE UNCHANGED <<chDesk, chNoted>>
  /\ GroupStep /\ UNCHANGED <<chStep, chAuto>>

\* The loop ends on its last increment, and the address is deregistered, or on
\* its token.
FadeEnds(i, c) ==
  /\ chStep[i][c] = "level" /\ Noted(i, c) /\ Fades(i, c)
  /\ \/ /\ chFade[i][c].at = FadeTicks
        /\ chAuto' = [chAuto EXCEPT ![Level(c)] = 0]
     \/ chFade[i][c].at < FadeTicks /\ Superseded(i) /\ UNCHANGED chAuto
  /\ chFade' = [chFade EXCEPT ![i][c] = NoFade] /\ LevelOver(i, c)
  /\ GroupStep /\ UNCHANGED <<chDesk, chNoted>>

SwitchOn(i, c) == /\ chStep[i][c] = "on" /\ Noted(i, c)
                  /\ SendOne(i, c, Switch(c)) /\ Goes(i, c, "over")
                  /\ GroupStep /\ UNCHANGED <<chFade, chAuto>>

\* After a send: note_sent, for the generation that owns the entry, and the
\* optimistic update of the mirror.
NoteSent(n) ==
  /\ n \in chNoted /\ chNoted' = chNoted \ {n}
  /\ chMirror' = [chMirror EXCEPT ![n.at] = n.value]
  /\ chSent' = IF n.task # "snap" /\ chAuto[n.at] = n.cue
               THEN [chSent EXCEPT ![n.at] = SubSeq(<<n.value>> \o @, 1,
                                                    IF @ = <<>> THEN 1 ELSE 2)]
               ELSE chSent
  /\ UNCHANGED <<chCues, chPressed, chTask, chStep, chFade, chSnaps, chPlan, chAuto, chDesk,
                 chWorld>>

-----------------------------------------------------------------------------
(* The operator at the desk, the dispatcher, other engines                 *)

HandMoves(a, v) ==
  /\ chTouches < MaxTouches /\ chTouches' = chTouches + 1
  /\ v # chDesk[a] /\ chDesk' = [chDesk EXCEPT ![a] = v]
  /\ chReport' = [chReport EXCEPT ![a] = v]
  /\ chOthers' = chOthers \cup {a} /\ chHands' = chHands \cup {a}
  /\ UNCHANGED <<chCues, chPressed, chTask, chStep, chFade, chSnaps, chPlan, chAuto, chSent,
                 chMirror, chNoted>>

\* A value among the last two sent may be taken for the cue's own, for 300 ms.
LooksSent(a) == \E k \in 1..Len(chSent[a]) : chSent[a][k] = chReport[a]

\* apply_inbound_parameter, as far as maybe_override.
DispatchReport(a) ==
  /\ chReport[a] # NoReport
  /\ chMirror' = [chMirror EXCEPT ![a] = chReport[a]]
  /\ chReport' = [chReport EXCEPT ![a] = NoReport]
  /\ \/ chAuto' = [chAuto EXCEPT ![a] = 0]
     \/ LooksSent(a) /\ UNCHANGED chAuto
  /\ UNCHANGED <<chCues, chPressed, chTask, chStep, chFade, chSnaps, chPlan, chSent, chDesk,
                 chNoted, chTouches, chOthers, chHands>>

\* A gang, a link, a macro or a musician's phone: the send and its mirror.
OtherEngineMoves(a, v) ==
  /\ chTouches < MaxTouches /\ chTouches' = chTouches + 1
  /\ v # chDesk[a] /\ \A n \in chNoted : n.at # a
  /\ chDesk' = [chDesk EXCEPT ![a] = v] /\ chMirror' = [chMirror EXCEPT ![a] = v]
  /\ chOthers' = chOthers \cup {a}
  /\ UNCHANGED <<chCues, chPressed, chTask, chStep, chFade, chSnaps, chPlan, chAuto, chSent,
                 chNoted, chReport, chHands>>

ChannelNext ==
  \/ \E i \in CueNos :
       \/ Press(i) \/ LeaveQueue(i) \/ ResolveCue(i) \/ SnapOne(i) \/ SpawnChannel(i)
       \/ MuteFirst(i) \/ ForkGroups(i) \/ JoinGroups(i) \/ MuteLast(i) \/ FinishCue(i)
       \/ \E c \in Categories :
            \/ PreWaitEnds(i, c) \/ SwitchOff(i, c) \/ BeginGroup(i, c) \/ SwitchFirst(i, c)
            \/ LevelAtOnce(i, c) \/ FadeTick(i, c) \/ FadeEnds(i, c) \/ SwitchOn(i, c)
  \/ \E n \in chNoted : NoteSent(n)
  \/ \E a \in Touchable :
       DispatchReport(a) \/ \E v \in ValuesOf(a) : HandMoves(a, v) \/ OtherEngineMoves(a, v)

ChannelSpec == ChannelInit /\ [][ChannelNext]_chVars

-----------------------------------------------------------------------------
(* Properties                                                              *)

\* Every variable has its type.
ChannelTypeOK ==
  /\ DOMAIN chCues = CueNos /\ \A i \in CueNos : IsCue(chCues[i])
  /\ chPressed \in 0..CueCount
  /\ chTask \in [CueNos -> {"idle", "queued", "snapping", "muting", "forking", "moving",
                            "unmuting", "joined", "over"}]
  /\ chStep \in [CueNos -> [Categories -> {"none", "wait", "off", "begin", "switch", "level",
                                           "on", "over"}]]
  /\ chFade \in [CueNos -> [Categories -> [from : 0..Top, at : -1..FadeTicks]]]
  /\ \A f \in {chSnaps, chPlan.values} :
       DOMAIN f \subseteq ChannelAddr /\ \A a \in DOMAIN f : f[a] \in ValuesOf(a)
  /\ chPlan.by \in 0..CueCount
  /\ chAuto \in [ChannelAddr -> 0..CueCount]
  /\ \A a \in ChannelAddr :
       /\ {chDesk[a], chMirror[a]} \subseteq ValuesOf(a)
       /\ chReport[a] \in ValuesOf(a) \cup {NoReport}
       /\ Len(chSent[a]) <= 2 /\ \A k \in 1..Len(chSent[a]) : chSent[a][k] \in ValuesOf(a)
  /\ \A n \in chNoted : n.cue \in CueNos /\ n.at \in ChannelAddr /\ n.value \in ValuesOf(n.at)
  /\ chTouches \in 0..MaxTouches /\ chHands \cup chOthers \subseteq ChannelAddr

\* "Mute ON before non-mute params, mute OFF after all others complete", "Send
\* disable before level change, send enable after level change", "Discrete
\* params ... before fade starts" (recall_cue_timed): when a cue's datagram
\* leaves, what had to be on the desk before it is there, unless somebody else
\* has written it since the cue resolved.
DoorsInOrder ==
  [][\A n \in chNoted' \ chNoted :
       LET there(a) == Names(n.cue, a) => chDesk[a] = Own(n.cue)[a] \/ a \in chOthers IN
       n.task # "snap" =>
         /\ n.at = Mute /\ n.value = 0 => \A a \in ChannelAddr \ {Mute} : there(a)
         /\ n.at # Mute /\ MuteGoes(n.cue, 1) => there(Mute)
         /\ \A c \in AuxSends :
              /\ n.at = Switch(c) /\ n.value = 1 => there(Level(c))
              /\ n.at = Level(c) /\ SwitchIs(n.cue, c, 0) => there(Switch(c))
         /\ \A c \in Categories \ AuxSends : n.at = Level(c) => there(Switch(c))]_chVars

\* The value the newest cue that names an address gives it.
NewestNaming(a) == {i \in 1..chPressed : Names(i, a) /\ \A j \in (i + 1)..chPressed : ~Names(j, a)}

\* "the desk ends up as if the cues had played in order" (recall_cue_timed),
\* the mutes and switches that a superseded cue skipped included: once every
\* call is over, an address that nobody else has written has the newest cue's
\* value, on the desk and in the mirror.
AllLand ==
  /\ \A i \in 1..chPressed : chTask[i] = "over"
  /\ \A a \in ChannelAddr : chReport[a] = NoReport
  => \A a \in ChannelAddr \ chOthers : \A i \in NewestNaming(a) :
       chDesk[a] = Own(i)[a] /\ chMirror[a] = Own(i)[a]

\* "so the fade starts from the fader's CURRENT position, not the value
\* captured at recall time" (exec_group): when a group begins after its
\* pre-wait, a fade starts where the desk is, unless a hand has moved that level
\* (its report may cross a send of the cue's own, and leave the mirror behind).
FadesFromHere ==
  [][\A i \in CueNos, c \in Categories :
       chStep[i][c] = "begin" /\ chStep'[i][c] \in {"switch", "level"} /\ Fades(i, c)
       => chFade'[i][c].from = chDesk[Level(c)] \/ Level(c) \in chHands]_chVars
=============================================================================
