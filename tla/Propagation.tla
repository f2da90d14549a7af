---------------------------- MODULE Propagation -----------------------------
(***************************************************************************)
(* One move of the operator and what the app makes of it: the inbound      *)
(* chain (src/console/inbound.rs) mirrors the report, the gang engine      *)
(* (src/console/gang_engine.rs) moves the other members of the channel's   *)
(* gangs, the pan link (src/console/pan_link_engine.rs) moves linked aux   *)
(* send pans, and the desk echoes what it was sent on the Pad link, where  *)
(* the log of sent values (src/console/console_tx.rs) has to tell the echo *)
(* from a hand.  The GP link does not echo.  With both links up every move *)
(* is reported on both, and two loops run the chain at once; the law below *)
(* is for one link, and fails for two as EchoScreened does.                *)
(*                                                                         *)
(* Levels are small integers.  A fader at or below Floor is inaudible: one *)
(* point for a gang, and Inf on the wire.  Pans lie between -Rail and Rail.*)
(*                                                                         *)
(* What should come of it is written as a law: each move of a hand, taken  *)
(* as one step, moves the members of its gangs.  settled and drive follow  *)
(* the law; wherever the chain stands, the desk comes to rest at settled.  *)
(***************************************************************************)
EXTENDS Integers, Sequences, FiniteSets

CONSTANTS
  Channels,    \* input channels
  Gangs,
  MemberSets,  \* what a gang's members may be
  GangModes,   \* "Relative", "Absolute"
  GangSections,\* the linked sections a gang may have: sets of "fmp", "sends"
  PanModes,    \* "Off", "On", "Reversed"
  Bound,       \* the channels with a pan link to the one aux
  Handled,     \* the addresses the operator moves
  LinkSets,    \* the sets of loops to look at
  Start,       \* [Channels -> Int]: the faders' levels
  Inf, Floor, Top, Rail,
  NoValue,
  MaxMoves,    \* bound: moves of the operator
  MaxToggles   \* bound: pauses of a gang

Params == {"fader", "pan", "aux"}      \* Fader, Pan, SendPan(aux)
Addr == Channels \X Params
LinkLoops == {"gp", "pad"}             \* run_loop, ipad_state_mirror_loop

ASSUME GangAssumption ==
  /\ MemberSets \subseteq SUBSET Channels /\ Bound \subseteq Channels
  /\ GangModes \subseteq {"Relative", "Absolute"}
  /\ GangSections \subseteq SUBSET {"fmp", "sends"}
  /\ PanModes \subseteq {"Off", "On", "Reversed"} /\ Handled \subseteq Addr
  /\ LinkSets \subseteq SUBSET LinkLoops
ASSUME LevelAssumption ==
  /\ {Inf, Floor, Top, Rail} \subseteq Int /\ Inf < Floor /\ Floor < Top /\ 0 < Rail
  /\ Start \in [Channels -> Floor..Top]
  /\ NoValue \notin Int \cup LinkLoops /\ MaxMoves \in Nat /\ MaxToggles \in Nat

VARIABLES
  links,       \* the loops that run: GP, Pad or both
  gangs,       \* GangManager::groups
  desk,        \* what the console has
  mirror,      \* ConsoleState
  virtual,     \* GangEngine::gang_virtual
  suppressed,  \* GangEngine::suppression_set
  sentLog,     \* SentLog
  engineLock,  \* the holder of the lock around GangEngine
  job,         \* the report a loop is working on
  inbox,       \* reports of the desk, not yet read by a loop
  wire,        \* datagrams to the desk
  settled,     \* law: where the levels come to rest
  drive,       \* law: where a gang has driven a level, beyond its bounds
  hand,        \* the address the operator is moving
  touched,     \* history: the addresses moved, the gangs paused
  moves, toggles

gangVars == <<links, gangs, desk, mirror, virtual, suppressed, sentLog, engineLock,
              job, inbox, wire, settled, drive, hand, touched, moves, toggles>>
law == <<settled, drive, hand, touched, moves, toggles>>

Idle == [pc |-> "idle"]
Quiet ==
  /\ wire = <<>>
  /\ \A l \in LinkLoops : inbox[l] = <<>> /\ job[l] = Idle

-----------------------------------------------------------------------------
(* Arithmetic of the gang engine. *)

At(v, lo, hi) == IF v < lo THEN lo ELSE IF v > hi THEN hi ELSE v
Larger(v, w) == IF v > w THEN v ELSE w

ClampValue(p, v) == IF p = "fader" THEN v ELSE At(v, -Rail, Rail)
ClampGangSend(p, v) == IF p = "fader" /\ v <= Floor THEN Inf ELSE ClampValue(p, v)
GangSeed(p, v) == IF p = "fader" THEN Larger(v, Floor) ELSE v

(* fader_gang_delta, compute_delta *)
Delta(p, old, new) ==
  IF p = "fader" THEN Larger(new, Floor) - Larger(old, Floor) ELSE new - old

DeadZone(p, old, new) == p = "fader" /\ old <= Floor /\ new <= Floor


(* next_gang_value: where a member is taken to stand before it is moved *)
Stands(p, virt, level) ==
  IF virt # NoValue /\ ClampGangSend(p, virt) = level THEN virt ELSE GangSeed(p, level)

SectionOf(p) == IF p = "aux" THEN "sends" ELSE "fmp"

(* find_gangs_for_channel_and_section, find_gangs_for_channel_pan, and the *)
(* gangs process_gang_update then skips.                                   *)
Carries(g, p) ==
  /\ ~g.paused
  /\ IF p = "pan"
     THEN g.pan # "Off" /\ (g.pan = "Reversed" => Cardinality(g.members) = 2)
     ELSE SectionOf(p) \in g.sections

Mirrored(g, p) == p = "pan" /\ g.pan = "Reversed"
Moves(g, p) == ~Mirrored(g, p) /\ g.mode = "Relative"

(* The members that the gangs gs move for a report, each with its gang. *)
Targets(gs, a, old, new) ==
  UNION {{<<g, <<c, a[2]>>>> : c \in g.members \ {a[1]}} :
         g \in {g \in gs : /\ a[1] \in g.members /\ Carries(g, a[2])
                           /\ ~(Moves(g, a[2]) /\ DeadZone(a[2], old, new))}}

(* A member that gang g does not move relative to where it stands. *)
Copied(g, p, new) == ClampValue(p, IF Mirrored(g, p) THEN -new ELSE new)
-----------------------------------------------------------------------------
(* The law. *)

(* A hand moves a from old to new.  SettledBy: the level of each address   *)
(* that follows; DrivenTo: how far beyond a bound it was driven.           *)
Steps(a, old, new) == Targets({gangs[g] : g \in Gangs}, a, old, new)

DrivenTo(a, old, new) ==
  [b \in Addr |->
     IF \E s \in Steps(a, old, new) : s[2] = b /\ Moves(s[1], a[2])
     THEN Stands(b[2], drive[b], settled[b]) + Delta(a[2], old, new)
     ELSE drive[b]]

PanSiblings(c, section) ==
  UNION {gangs[g].members \ {c} :
         g \in {g \in Gangs : ~gangs[g].paused /\ c \in gangs[g].members
                               /\ section \in gangs[g].sections}}

SettledBy(a, old, new) ==
  LET levels == [b \in Addr |->
        IF b = a THEN new
        ELSE IF \E s \in Steps(a, old, new) : s[2] = b
        THEN LET s == CHOOSE s \in Steps(a, old, new) : s[2] = b IN
             IF Moves(s[1], a[2]) THEN ClampGangSend(b[2], DrivenTo(a, old, new)[b])
                                  ELSE Copied(s[1], b[2], new)
        ELSE settled[b]]
  IN [b \in Addr |->
        IF a[2] = "pan" /\ a[1] \in Bound /\ b[2] = "aux"
        THEN IF b[1] = a[1] THEN new
             ELSE IF b[1] \in PanSiblings(a[1], "fmp") THEN levels[<<b[1], "pan">>]
             ELSE IF b[1] \in PanSiblings(a[1], "sends") THEN new
             ELSE levels[b]
        ELSE levels[b]]

(* A report of the desk; from is not on the wire, EchoScreened looks at it. *)
Report(a, v, from) == [addr |-> a, value |-> v, from |-> from]

(* The operator moves a control.  With the GP link alone a sweep may run   *)
(* ahead of the app; with the Pad link the hand waits for the echoes (see  *)
(* SlowHand).  It does not come back to a value the app has sent within    *)
(* SENT_LOG_WINDOW, and drives no sibling past the top of its travel.      *)
SlowHand(a) == Quiet \/ (links = {"gp"} /\ a = hand)

HandMove(a, v) ==
  /\ moves < MaxMoves /\ v # desk[a] /\ v # sentLog[a] /\ SlowHand(a)
  /\ LET old == settled[a] IN
     /\ settled' = SettledBy(a, old, v)
     /\ drive' = DrivenTo(a, old, v)
  /\ \A b \in Addr : b[2] = "fader" => settled'[b] <= Top
  /\ desk' = [desk EXCEPT ![a] = v]
  /\ inbox' = [l \in LinkLoops |-> IF l \in links THEN Append(inbox[l], Report(a, v, "hand")) ELSE <<>>]
  /\ hand' = a /\ touched' = touched \cup {a} /\ moves' = moves + 1
  /\ UNCHANGED <<links, gangs, mirror, virtual, suppressed, sentLog, engineLock, job, wire, toggles>>

(* GangGroup::paused, a button of the Gangs tab; the models press it       *)
(* between moves.                                                          *)
TogglePaused(g) ==
  /\ toggles < MaxToggles /\ Quiet
  /\ gangs' = [gangs EXCEPT ![g].paused = ~@] /\ toggles' = toggles + 1
  /\ touched' = touched \cup {g}
  /\ UNCHANGED <<links, desk, mirror, virtual, suppressed, sentLog, engineLock, job, inbox, wire,
                 settled, drive, hand, moves>>

(* The desk takes a datagram, and echoes it on the Pad link. *)
DeskApply ==
  /\ wire # <<>>
  /\ LET a == Head(wire)[1]
         v == IF a[2] = "fader" /\ Head(wire)[2] > Top THEN Top ELSE Head(wire)[2] IN
     /\ desk' = [desk EXCEPT ![a] = v]
     /\ inbox' = IF "pad" \in links THEN [inbox EXCEPT !["pad"] = Append(@, Report(a, v, "app"))] ELSE inbox
  /\ wire' = Tail(wire)
  /\ UNCHANGED <<links, gangs, mirror, virtual, suppressed, sentLog, engineLock, job, law>>

-----------------------------------------------------------------------------
(* The chain. *)

IsEcho(a, v) == sentLog[a] = v

(* The pan link's turn, if it has one: process_pan_update. *)
LinkTurn(a, v) ==
  IF a[2] = "pan" /\ a[1] \in Bound THEN [pc |-> "link", addr |-> a, new |-> v] ELSE Idle

(* apply_parameter_change: the mirror, and the copy of the gangs *)
MirrorInbound(l) ==
  /\ inbox[l] # <<>> /\ job[l] = Idle
  /\ LET a == Head(inbox[l]).addr
         v == Head(inbox[l]).value
         copy == {gangs[g] : g \in {g \in Gangs : a[1] \in gangs[g].members}} IN
     /\ mirror' = [mirror EXCEPT ![a] = v]
     /\ job' = [job EXCEPT ![l] =
          IF IsEcho(a, v) THEN Idle
          ELSE IF copy = {} THEN LinkTurn(a, v)
          ELSE [pc |-> "gang", addr |-> a, new |-> v, old |-> mirror[a], gangs |-> copy]]
  /\ inbox' = [inbox EXCEPT ![l] = Tail(@)]
  /\ UNCHANGED <<links, gangs, desk, virtual, suppressed, sentLog, engineLock, wire, law>>

(* The guard is dropped with the last member, or at once without any. *)
LockAfterLookup(todo, l) == NoValue  \* Mutant: the guard covers the look-up only, not the sends
LockAfter(todo, l) == IF todo = {} THEN NoValue ELSE l

(* process_gang_update under the engine's lock: is_suppressed, the targets *)
ProcessGangUpdate(l) ==
  /\ job[l].pc = "gang" /\ engineLock = NoValue
  /\ LET j == job[l]
         todo == IF suppressed[j.addr] = j.new THEN {}
                 ELSE Targets(j.gangs, j.addr, j.old, j.new) IN
     /\ engineLock' = LockAfter(todo, l)
     /\ job' = [job EXCEPT ![l] =
          IF todo = {} THEN LinkTurn(j.addr, j.new)
          ELSE [pc |-> "send", addr |-> j.addr, new |-> j.new, old |-> j.old, todo |-> todo]]
  /\ suppressed' = [suppressed EXCEPT ![job[l].addr] = NoValue]
  /\ UNCHANGED <<links, gangs, desk, mirror, virtual, sentLog, inbox, wire, law>>

Send(a, v) ==
  /\ wire' = Append(wire, <<a, v>>)
  /\ sentLog' = [sentLog EXCEPT ![a] = v]

(* next_gang_value and the send of dispatch_target *)
MoveMember(l, s) ==
  /\ job[l].pc = "send" /\ s \in job[l].todo
  /\ LET j == job[l]
         b == s[2]
         to == Stands(b[2], virtual[b], mirror[b]) + Delta(b[2], j.old, j.new)
         v == IF Moves(s[1], b[2]) THEN ClampGangSend(b[2], to) ELSE Copied(s[1], b[2], j.new) IN
     /\ virtual' = IF Moves(s[1], b[2]) THEN [virtual EXCEPT ![b] = to] ELSE virtual
     /\ Send(b, v)
     /\ job' = [job EXCEPT ![l] = [pc |-> "note", addr |-> j.addr, new |-> j.new, old |-> j.old,
                                   todo |-> j.todo \ {s}, sent |-> <<b, v>>]]
  /\ UNCHANGED <<links, gangs, desk, mirror, suppressed, engineLock, inbox, law>>

NoteMemberUnmirrored(l) ==  \* Mutant: the send is not reflected into the mirror
  /\ job[l].pc = "note"
  /\ LET j == job[l] IN
     /\ suppressed' = [suppressed EXCEPT ![j.sent[1]] = j.sent[2]]
     /\ engineLock' = LockAfter(j.todo, l)
     /\ job' = [job EXCEPT ![l] =
          IF j.todo = {} THEN LinkTurn(j.addr, j.new)
          ELSE [pc |-> "send", addr |-> j.addr, new |-> j.new, old |-> j.old, todo |-> j.todo]]
  /\ UNCHANGED <<links, gangs, desk, mirror, virtual, sentLog, inbox, wire, law>>

(* dispatch_target after the send *)
NoteMember(l) ==
  /\ job[l].pc = "note"
  /\ LET j == job[l] IN
     /\ suppressed' = [suppressed EXCEPT ![j.sent[1]] = j.sent[2]]
     /\ mirror' = [mirror EXCEPT ![j.sent[1]] = j.sent[2]]
     /\ engineLock' = LockAfter(j.todo, l)
     /\ job' = [job EXCEPT ![l] =
          IF j.todo = {} THEN LinkTurn(j.addr, j.new)
          ELSE [pc |-> "send", addr |-> j.addr, new |-> j.new, old |-> j.old, todo |-> j.todo]]
  /\ UNCHANGED <<links, gangs, desk, virtual, sentLog, inbox, wire, law>>

ComputePanWritesCopied(l) ==  \* Mutant: a sibling's send gets the moved channel's pan
  /\ job[l].pc = "link"
  /\ LET c == job[l].addr[1]
         all == {c} \cup PanSiblings(c, "fmp") \cup PanSiblings(c, "sends") IN
     job' = [job EXCEPT ![l] =
       [pc |-> "linksend", writes |-> {<<<<d, "aux">>, ClampValue("pan", job[l].new)>> : d \in all}]]
  /\ UNCHANGED <<links, gangs, desk, mirror, virtual, suppressed, sentLog, engineLock, inbox, wire, law>>

(* compute_pan_writes *)
ComputePanWrites(l) ==
  /\ job[l].pc = "link"
  /\ LET c == job[l].addr[1]
         new == job[l].new
         fmp == PanSiblings(c, "fmp")
         sends == PanSiblings(c, "sends") \ fmp
         writes == {<<<<c, "aux">>, new>>}
                   \cup {<<<<d, "aux">>, ClampValue("pan", mirror[<<d, "pan">>])>> : d \in fmp}
                   \cup {<<<<d, "aux">>, ClampValue("pan", new)>> : d \in sends} IN
     job' = [job EXCEPT ![l] = [pc |-> "linksend", writes |-> writes]]
  /\ UNCHANGED <<links, gangs, desk, mirror, virtual, suppressed, sentLog, engineLock, inbox, wire, law>>

SendPan(l, w) ==
  /\ job[l].pc = "linksend" /\ w \in job[l].writes
  /\ Send(w[1], w[2])
  /\ job' = [job EXCEPT ![l] = [pc |-> "linknote", writes |-> job[l].writes \ {w}, sent |-> w]]
  /\ UNCHANGED <<links, gangs, desk, mirror, virtual, suppressed, engineLock, inbox, law>>

NotePan(l) ==
  /\ job[l].pc = "linknote"
  /\ LET j == job[l] IN
     /\ mirror' = [mirror EXCEPT ![j.sent[1]] = j.sent[2]]
     /\ job' = [job EXCEPT ![l] =
          IF j.writes = {} THEN Idle ELSE [pc |-> "linksend", writes |-> j.writes]]
  /\ UNCHANGED <<links, gangs, desk, virtual, suppressed, sentLog, engineLock, inbox, wire, law>>

(* SUPPRESSION_WINDOW_MS, SENT_LOG_WINDOW; the latter outlasts an echo     *)
(* ("comfortably above a LAN round-trip", console_tx.rs:24).               *)
ForgetSuppressed(a) ==
  /\ suppressed[a] # NoValue
  /\ suppressed' = [suppressed EXCEPT ![a] = NoValue]
  /\ UNCHANGED <<links, gangs, desk, mirror, virtual, sentLog, engineLock, job, inbox, wire, law>>

ForgetSent(a) ==
  /\ sentLog[a] # NoValue
  /\ \A i \in 1..Len(wire) : wire[i][1] # a
  /\ \A i \in 1..Len(inbox["pad"]) : inbox["pad"][i].addr # a
  /\ sentLog' = [sentLog EXCEPT ![a] = NoValue]
  /\ UNCHANGED <<links, gangs, desk, mirror, virtual, suppressed, engineLock, job, inbox, wire, law>>

-----------------------------------------------------------------------------
GangSettings ==
  [members : MemberSets, mode : GangModes, sections : GangSections, pan : PanModes, paused : {FALSE}]

(* No two gangs share a channel: the app warns of it (has_overlap_conflicts). *)
NoOverlap(gs) == \A g, h \in Gangs : g # h => gs[g].members \cap gs[h].members = {}

GangInit ==
  /\ links \in LinkSets
  /\ gangs \in {gs \in [Gangs -> GangSettings] : NoOverlap(gs)}
  /\ desk = [a \in Addr |-> IF a[2] = "fader" THEN Start[a[1]] ELSE 0]
  /\ mirror = desk /\ settled = desk
  /\ virtual = [a \in Addr |-> NoValue] /\ suppressed = virtual /\ sentLog = virtual
  /\ drive = virtual
  /\ engineLock = NoValue
  /\ job = [l \in LinkLoops |-> Idle] /\ inbox = [l \in LinkLoops |-> <<>>] /\ wire = <<>>
  /\ hand = CHOOSE a \in Addr : TRUE
  /\ touched = {}
  /\ moves = 0 /\ toggles = 0

LevelsOf(p) == IF p = "fader" THEN Inf..Top ELSE -Rail..Rail

ChainStep(l) ==
  \/ MirrorInbound(l) \/ ProcessGangUpdate(l) \/ NoteMember(l)
  \/ (job[l].pc = "send" /\ \E s \in job[l].todo : MoveMember(l, s))
  \/ ComputePanWrites(l) \/ NotePan(l)
  \/ (job[l].pc = "linksend" /\ \E w \in job[l].writes : SendPan(l, w))

GangNext ==
  \/ \E a \in Handled : \E v \in LevelsOf(a[2]) : HandMove(a, v)
  \/ \E g \in Gangs : TogglePaused(g)
  \/ DeskApply
  \/ \E l \in LinkLoops : ChainStep(l)
  \/ \E a \in Addr : ForgetSuppressed(a) \/ ForgetSent(a)

GangSpec == GangInit /\ [][GangNext]_gangVars
GangFairSpec ==
  GangSpec /\ WF_gangVars(DeskApply) /\ \A l \in LinkLoops : WF_gangVars(ChainStep(l))

-----------------------------------------------------------------------------
JobTypeOK ==
  \A l \in LinkLoops : LET j == job[l] IN
    /\ j.pc \in {"idle", "gang", "send", "note", "link", "linksend", "linknote"}
    /\ j.pc \in {"gang", "send", "note", "link"} => j.addr \in Addr /\ j.new \in Int
    /\ j.pc = "send" => j.todo # {}
    /\ j.pc = "linksend" => j.writes # {}
    /\ engineLock = l <=> j.pc \in {"send", "note"}

(* Types; the engine's lock is held by the loop that is moving members. *)
GangTypeOK ==
  /\ links \in LinkSets /\ NoOverlap(gangs) /\ engineLock \in LinkLoops \cup {NoValue}
  /\ {desk, mirror, settled} \subseteq [Addr -> Int]
  /\ {virtual, suppressed, sentLog, drive} \subseteq [Addr -> Int \cup {NoValue}]
  /\ \A l \in LinkLoops : \A i \in 1..Len(inbox[l]) :
       inbox[l][i].addr \in Addr /\ inbox[l][i].value \in Int
  /\ \A i \in 1..Len(wire) : wire[i][1] \in Addr /\ wire[i][2] \in Int
  /\ JobTypeOK

(* For the fader a gang follows, in closed form: as long as one hand moves *)
(* one fader of a relative gang, its members stand as far from where they  *)
(* were as it does, however far below the floor they have been             *)
(* (gang_engine.rs:47).                                                    *)
OffsetsSurvive ==
  \A g \in Gangs, a, b \in Addr :
    /\ gangs[g].mode = "Relative" /\ "fmp" \in gangs[g].sections
    /\ {a[1], b[1]} \subseteq gangs[g].members /\ a[2] = "fader" /\ b[2] = "fader"
    /\ {c \in touched : c \in {g} \cup (gangs[g].members \X {"fader"})} = {a} /\ b # a
    => \/ desk[b] = ClampGangSend("fader", Start[b[1]] + Delta("fader", Start[a[1]], desk[a]))
       \/ desk[b] = Start[b[1]] /\ desk[a] = Start[a[1]]



(* console_tx.rs:36: "so an echo of our own engine write is not mistaken   *)
(* for an operator move and re-propagated through gangs / pan link".  The  *)
(* log keeps the last value only, so with two loops at work the echo of    *)
(* the value before it is.                                                 *)
EchoScreened ==
  [][\A l \in LinkLoops :
       /\ job[l] = Idle /\ inbox'[l] = Tail(inbox[l]) /\ inbox[l] # <<>>
       /\ Head(inbox[l]).from = "app"
       => job'[l] = Idle]_gangVars

=============================================================================
