---------------------------- MODULE RecallEngine ----------------------------
(***************************************************************************)
(* The snapshot recall engine (src/console/snapshot_engine.rs) with the    *)
(* parts it drives: the automation registry of timed recalls               *)
(* (src/console/automation_registry.rs), the fade loop                     *)
(* (src/console/fade_engine.rs), the live mirror, and the desk itself.     *)
(*                                                                         *)
(* Every GO, direct recall, undo and palette revert is a process.  A new   *)
(* recall claims an epoch and cancels its predecessor ("latest cue wins"), *)
(* then queues for the recall gate.  What a cancelled recall did not land  *)
(* stays in the plan, and its successor sends it before its own values, so *)
(* that the desk ends up as if the cues had played in order.               *)
(*                                                                         *)
(* The steps are those another thread of the runtime can see: one step is  *)
(* one critical section or one datagram.                                   *)
(***************************************************************************)
EXTENDS Integers, Sequences, FiniteSets

CONSTANTS
  Recalls,        \* the operator's requests: each is issued at most once
  Kind,           \* [Recalls -> Kinds]
  Addr,           \* parameter addresses
  Value,          \* parameter values
  None,           \* no value
  NoOne,          \* no recall
  Init0,          \* the desk's value of every address at the start
  Mid,            \* any value on the way of a fade, short of its end
  Hand,           \* the value the operator's hand leaves a fader at
  Full,           \* the recalls that ignore the scope and so skip no palette
  Own,            \* [Recalls -> [Addr -> Value or None]]: resolve_recall_values
  Row,            \* the console memory a cue's row loads, [Addr -> Value or None]
  Continuous,     \* the addresses that can fade
  Palette,        \* the addresses a linked palette supplies: one slot each
  Group,          \* [Addr -> task group], the (channel, category) of an address
  Ticks,          \* sends of a fade to each target, the last one at its end
  InOrder,        \* recalls reach the gate in the order they claimed epochs
  TasksStopFirst, \* cancelled tasks are gone before the successor has the gate
  MaxMoves,       \* bound: operator moves at the desk
  MaxDrops        \* bound: datagrams that fail or are lost

Kinds == {"recall", "cue", "timed", "rowonly", "undo", "revert"}
Groups == {Group[a] : a \in Addr}
Settings == [Addr -> Value \cup {None}]
Nothing == [a \in Addr |-> None]

ASSUME KindAssumption == Kind \in [Recalls -> Kinds] /\ Full \subseteq Recalls
ASSUME OwnAssumption == /\ Own \in [Recalls -> Settings]
                        /\ \A r \in Recalls :
                             Kind[r] \in {"rowonly", "undo"} => Own[r] = Nothing
ASSUME RowAssumption == Row \in [Recalls -> Settings]
ASSUME ValueAssumption == /\ {Init0, Mid, Hand} \subseteq Value
                          /\ None \notin Value
ASSUME NoOneAssumption == NoOne \notin Recalls
ASSUME TicksAssumption == Ticks \in Nat \ {0}
ASSUME AddrAssumption == /\ Continuous \subseteq Addr /\ Palette \subseteq Addr
                         /\ None \notin Addr
ASSUME BoundsAssumption == /\ MaxMoves \in Nat /\ MaxDrops \in Nat
                           /\ InOrder \in BOOLEAN /\ TasksStopFirst \in BOOLEAN

VARIABLES
  \* fields of SnapshotEngine
  epoch,       \* recall_epoch
  token,       \* recall_cancel: whose token is current
  cancelled,   \* the recalls whose token has been cancelled
  gate,        \* recall_gate: its holder
  queue,       \* recall_gate: its waiters, first come first served
  inFlight,    \* recall_in_flight: an epoch, 0 for none
  plan,        \* superseded_plan: the epoch stamped on it and its end-values
  lastSent,    \* last_sent_palettes
  undo,        \* undo: the recall that stored it and the values it captured
  lastRecalled,\* CueManager::last_recalled, the pointer palette absorption uses
  \* AutomationRegistry
  generation,  \* generation
  registry,    \* inner: the generation of the entry of an address, 0 for none
  \* locals of a recall's future and of its spawned tasks
  pc, ep, gen, todo, own, cur, verdict, capture, task,
  \* outside the engine
  desk,        \* the console's parameter values
  mirror,      \* ConsoleState
  report,      \* the desk's report of an address, not yet dispatched
  loading,     \* console_load_suppression: a memory load is taken to be arriving
  moves, drops,
  grabbed      \* history: automated addresses the operator has taken since a
               \* recall last resolved them

shared == <<epoch, token, cancelled, gate, queue, inFlight, plan, lastSent,
            undo, lastRecalled, generation, registry>>
locals == <<pc, ep, gen, todo, own, cur, verdict, capture, task>>
world == <<desk, mirror, report, loading, moves, drops, grabbed>>
vars == <<shared, locals, world>>

NoPlan == [ep |-> 0, vals |-> Nothing]
NoUndo == [by |-> NoOne, vals |-> Nothing]
IdleTask == [st |-> "off", phase |-> 0, left |-> {}, at |-> None]

Init ==
  /\ epoch = 0 /\ token = NoOne /\ cancelled = {}
  /\ gate = NoOne /\ queue = <<>> /\ inFlight = 0
  /\ plan = NoPlan /\ lastSent = Nothing
  /\ undo = NoUndo /\ lastRecalled = NoOne
  /\ generation = 0 /\ registry = [a \in Addr |-> 0]
  /\ pc = [r \in Recalls |-> "idle"] /\ ep = [r \in Recalls |-> 0]
  /\ gen = [r \in Recalls |-> 0]
  /\ todo = [r \in Recalls |-> Nothing] /\ own = [r \in Recalls |-> Nothing]
  /\ cur = [r \in Recalls |-> None]
  /\ verdict = [r \in Recalls |-> "open"]
  /\ capture = [r \in Recalls |-> Nothing]
  /\ task = [r \in Recalls |-> [g \in Groups |-> IdleTask]]
  /\ desk = [a \in Addr |-> Init0] /\ mirror = [a \in Addr |-> Init0]
  /\ report = Nothing /\ loading = FALSE /\ moves = 0 /\ drops = 0 /\ grabbed = {}

-----------------------------------------------------------------------------
\* The values of f, and those of g where f has none.
Over(f, g) == [a \in Addr |-> IF f[a] # None THEN f[a] ELSE g[a]]
\* The values of f at the addresses where g has none.
Minus(f, g) == [a \in Addr |-> IF g[a] # None THEN None ELSE f[a]]
Named(f) == {a \in Addr : f[a] # None}

HasSnapshot(r) == Kind[r] \in {"recall", "cue", "timed"}
HasRow(r) == Kind[r] \in {"cue", "timed", "rowonly"} /\ Named(Row[r]) # {}
IsCancelled(r) == r \in cancelled
TaskEnded(r, g) == task[r][g].st \in {"off", "done"}
TasksEnded(r) == \A g \in Groups : TaskEnded(r, g)
\* Mutants: the generation is not compared; the registry is not asked.
ActiveForAnyone(a, n) == registry[a] # 0
ActiveAlways(a, n) == TRUE
ActiveFor(a, n) == registry[a] = n

Goto(r, label) == pc' = [pc EXCEPT ![r] = label]
ReleaseGate == gate' = NoOne

\* What a call reports at its end: let cancelled = cancel.is_cancelled().
Outcome(r) == IF IsCancelled(r) THEN "cancelled" ELSE "complete"

\* A recall writes its end-values over those of the plan, which takes its epoch.
\* Mutants: the plan's older values win; they are forgotten.
MergedOlderWins(r, vals) == [ep |-> ep[r], vals |-> Over(plan.vals, vals)]
MergedForgetful(r, vals) == [ep |-> ep[r], vals |-> vals]
Merged(r, vals) == [ep |-> ep[r], vals |-> Over(vals, plan.vals)]

-----------------------------------------------------------------------------
(* Entry: the epoch, the gate, and what a superseded recall leaves behind. *)

\* The predecessor's token is cancelled whether or not it still runs.
SupersedingNobody == cancelled  \* mutant
Superseding == cancelled \cup ({token} \ {NoOne})

\* A claim over a recall in flight forgets the palette record.
RecordKept == lastSent  \* mutant
RecordAtClaim == IF inFlight # 0 THEN Nothing ELSE lastSent

\* begin_recall_epoch, one critical section under the recall_cancel lock.
Claim(r) ==
  /\ pc[r] = "idle" /\ Kind[r] # "revert"
  /\ InOrder => \A q \in Recalls : pc[q] # "claimed"
  /\ cancelled' = Superseding
  /\ lastSent' = RecordAtClaim
  /\ epoch' = epoch + 1
  /\ ep' = [ep EXCEPT ![r] = epoch + 1]
  /\ token' = r
  /\ Goto(r, "claimed")
  /\ UNCHANGED <<gate, queue, inFlight, plan, undo, lastRecalled, generation,
                 registry, gen, todo, own, cur, verdict, capture, task, world>>

\* reload_palette claims no epoch; everyone then waits for recall_gate.lock_owned().
Enqueue(r) ==
  /\ pc[r] = (IF Kind[r] = "revert" THEN "idle" ELSE "claimed")
  /\ queue' = Append(queue, r)
  /\ Goto(r, "queued")
  /\ UNCHANGED <<epoch, token, cancelled, gate, inFlight, plan, lastSent, undo,
                 lastRecalled, generation, registry, ep, gen, todo, own, cur,
                 verdict, capture, task, world>>

GateOpenPastCancelled(r) == gate = NoOne \/ gate \in cancelled  \* mutant
GateOpen(r) == gate = NoOne

\* The gate is fair.  Its new holder looks at its own token first.
Enter(r) ==
  /\ pc[r] = "queued" /\ GateOpen(r) /\ queue # <<>> /\ Head(queue) = r
  /\ TasksStopFirst => \A q \in cancelled \ {r} : TasksEnded(q)
  /\ gate' = r /\ queue' = Tail(queue)
  /\ Goto(r, IF Kind[r] = "revert" THEN "revert"
             ELSE IF IsCancelled(r) THEN "superseded"
             ELSE IF Kind[r] = "undo" THEN "take" ELSE "entered")
  /\ UNCHANGED <<epoch, token, cancelled, inFlight, plan, lastSent, undo,
                 lastRecalled, generation, registry, ep, gen, todo, own, cur,
                 verdict, capture, task, world>>

\* Superseded while queued: merge_superseded_plan, send nothing.  A cue without
\* a snapshot has nothing to merge, and an undo leaves its undo state alone.
LeaveSuperseded(r) ==
  /\ pc[r] = "superseded"
  /\ plan' = IF HasSnapshot(r) THEN Merged(r, Own[r]) ELSE plan
  /\ verdict' = [verdict EXCEPT ![r] = "cancelled"]
  /\ ReleaseGate
  /\ Goto(r, "done")
  /\ UNCHANGED <<epoch, token, cancelled, queue, inFlight, lastSent, undo,
                 lastRecalled, generation, registry, ep, gen, todo, own, cur,
                 capture, task, world>>

MarkInFlight(r) ==
  /\ pc[r] = "entered"
  /\ inFlight' = ep[r]
  /\ Goto(r, IF HasRow(r) THEN "fire"
             ELSE IF Kind[r] = "rowonly" THEN "rowdone" ELSE "resolve")
  /\ UNCHANGED <<epoch, token, cancelled, gate, queue, plan, lastSent, undo,
                 lastRecalled, generation, registry, ep, gen, todo, own, cur,
                 verdict, capture, task, world>>

-----------------------------------------------------------------------------
(* fire_console_memory_if_needed: the desk loads the row and reports what   *)
(* it loaded.  The send is not conditional on the token.                    *)

FireMemory(r) ==
  /\ pc[r] = "fire"
  /\ \/ /\ desk' = Over(Row[r], desk) /\ report' = Over(Row[r], report)
        /\ Goto(r, "forget") /\ UNCHANGED drops
     \/ /\ drops < MaxDrops /\ drops' = drops + 1
        /\ \/ Goto(r, "forget")
           \/ Goto(r, IF Kind[r] = "rowonly" THEN "rowdone" ELSE "resolve")
        /\ UNCHANGED <<desk, report>>
  /\ UNCHANGED <<shared, ep, gen, todo, own, cur, verdict, capture, task,
                 mirror, loading, moves, grabbed>>

\* Once the row has been sent the palette record is cleared and
\* arm_console_load opens the window for the desk's reports.
ForgetPalettes(r) ==
  /\ pc[r] = "forget"
  /\ lastSent' = Nothing
  /\ loading' = TRUE
  /\ Goto(r, "settle")
  /\ UNCHANGED <<epoch, token, cancelled, gate, queue, inFlight, plan, undo,
                 lastRecalled, generation, registry, ep, gen, todo, own, cur,
                 verdict, capture, task, desk, mirror, report, moves, drops,
                 grabbed>>

\* CONSOLE_MEMORY_SETTLE_MS pass, or the recall is superseded.  The desk's
\* reports of the load may still be on their way.
Settle(r) ==
  /\ pc[r] = "settle"
  /\ Goto(r, IF Kind[r] = "rowonly" THEN "rowdone" ELSE "resolve")
  /\ UNCHANGED <<shared, ep, gen, todo, own, cur, verdict, capture, task, world>>

\* A cue without a snapshot drops the gate here; it registers no plan and
\* drains none.
LeaveRowOnly(r) ==
  /\ pc[r] = "rowdone"
  /\ verdict' = [verdict EXCEPT ![r] = Outcome(r)]
  /\ ReleaseGate
  /\ Goto(r, "end")
  /\ UNCHANGED <<epoch, token, cancelled, queue, inFlight, plan, lastSent, undo,
                 lastRecalled, generation, registry, ep, gen, todo, own, cur,
                 capture, task, world>>

-----------------------------------------------------------------------------
(* Resolution, the plan handoff and the send loops of the gated phase.      *)

\* palette_skip_slots: the slots whose palette is the one last pushed there.
Skipped(r) == IF r \in Full THEN {}
              ELSE {a \in Palette : Own[r][a] # None /\ lastSent[a] = Own[r][a]}
Resolved(r) == [a \in Addr |-> IF a \in Skipped(r) THEN None ELSE Own[r][a]]

\* begin_recall of the registry (timed only), palette_skip_and_next,
\* register_recall_plan and the undo capture.  The instant path reads the
\* mirror for undo with try_read, which can fail.
Resolve(r) ==
  /\ pc[r] = "resolve"
  /\ own' = [own EXCEPT ![r] = Resolved(r)]
  /\ todo' = [todo EXCEPT ![r] = Minus(plan.vals, Resolved(r))]
  /\ plan' = Merged(r, Resolved(r))
  /\ \/ capture' = [capture EXCEPT ![r] =
                      [a \in Addr |-> IF Resolved(r)[a] # None
                                      THEN mirror[a] ELSE None]]
     \/ Kind[r] # "timed" /\ UNCHANGED capture
  /\ IF Kind[r] = "timed"
       THEN /\ generation' = generation + 1
            /\ gen' = [gen EXCEPT ![r] = generation + 1]
            /\ registry' = [a \in Addr |-> 0]
       ELSE UNCHANGED <<generation, gen, registry>>
  /\ grabbed' = grabbed \ Named(Resolved(r))
  /\ Goto(r, "snaps")
  /\ UNCHANGED <<epoch, token, cancelled, gate, queue, inFlight, lastSent, undo,
                 lastRecalled, ep, cur, verdict, task, desk, mirror, report,
                 loading, moves, drops>>

Sending == {"snaps", "owns", "undoing", "reverting"}

\* One round of a send loop: look at the token, take an address.
Pick(r, a) ==
  /\ pc[r] \in Sending /\ cur[r] = None /\ todo[r][a] # None
  /\ ~IsCancelled(r) \/ Kind[r] = "revert"
  /\ cur' = [cur EXCEPT ![r] = [at |-> a, st |-> "air"]]
  /\ UNCHANGED <<shared, pc, ep, gen, todo, own, verdict, capture, task, world>>

\* The datagram: it reaches the desk, is lost without the sender knowing (a
\* send timeout counts as sent), or the send fails and the value is skipped.
Transmit(r) ==
  /\ cur[r] # None /\ cur[r].st = "air"
  /\ LET a == cur[r].at IN
     \/ /\ desk' = [desk EXCEPT ![a] = todo[r][a]]
        /\ cur' = [cur EXCEPT ![r].st = "sent"]
        /\ UNCHANGED <<drops, todo>>
     \/ /\ drops < MaxDrops /\ drops' = drops + 1
        /\ \/ /\ cur' = [cur EXCEPT ![r].st = "sent"]
              /\ UNCHANGED todo
           \/ /\ cur' = [cur EXCEPT ![r] = None]
              /\ todo' = [todo EXCEPT ![r][a] = None]
        /\ UNCHANGED desk
  /\ UNCHANGED <<shared, pc, ep, gen, own, verdict, capture, task, mirror,
                 report, loading, moves, grabbed>>

\* A mutant of Reflect: the loop does not move on.
ReflectAgain(r) ==
  /\ cur[r] # None /\ cur[r].st = "sent"
  /\ cur' = [cur EXCEPT ![r] = None]
  /\ UNCHANGED <<shared, pc, ep, gen, todo, own, verdict, capture, task, world>>

\* The optimistic update of the mirror after a send.
Reflect(r) ==
  /\ cur[r] # None /\ cur[r].st = "sent"
  /\ mirror' = [mirror EXCEPT ![cur[r].at] = todo[r][cur[r].at]]
  /\ todo' = [todo EXCEPT ![r][cur[r].at] = None]
  /\ cur' = [cur EXCEPT ![r] = None]
  /\ UNCHANGED <<shared, pc, ep, gen, own, verdict, capture, task, desk, report,
                 loading, moves, drops, grabbed>>

\* A loop ends when it has no address left or sees its token cancelled.
LoopOver(r) == /\ cur[r] = None
               /\ \/ todo[r] = Nothing
                  \/ IsCancelled(r) /\ Kind[r] # "revert"

\* Snaps done: an instant recall sends its own values.
StartOwn(r) ==
  /\ pc[r] = "snaps" /\ Kind[r] # "timed" /\ LoopOver(r)
  /\ todo' = [todo EXCEPT ![r] = own[r]]
  /\ Goto(r, "owns")
  /\ UNCHANGED <<shared, ep, gen, own, cur, verdict, capture, task, world>>

-----------------------------------------------------------------------------
(* Timed recalls: the addresses are registered, one task per group is       *)
(* spawned, and the gate is dropped while the tasks run.                    *)

Targets(r, g) == {a \in Named(own[r]) : Group[a] = g}

Spawn(r) ==
  /\ pc[r] = "snaps" /\ Kind[r] = "timed" /\ LoopOver(r)
  /\ registry' = [a \in Addr |-> IF own[r][a] # None THEN gen[r] ELSE registry[a]]
  /\ task' = [task EXCEPT ![r] =
                [g \in Groups |-> IF Targets(r, g) = {} THEN IdleTask
                                  ELSE [IdleTask EXCEPT !.st = "wait"]]]
  /\ ReleaseGate
  /\ Goto(r, "join")
  /\ UNCHANGED <<epoch, token, cancelled, queue, inFlight, plan, lastSent, undo,
                 lastRecalled, generation, ep, gen, todo, own, cur, verdict,
                 capture, world>>

TaskStep(r, g, t) ==
  /\ task' = [task EXCEPT ![r][g] = t]
  /\ UNCHANGED <<epoch, token, cancelled, gate, queue, inFlight, plan, lastSent,
                 undo, lastRecalled, generation, pc, ep, gen, todo, own, cur,
                 verdict, capture>>

\* The pre-wait is over: its time has passed, every address of the group has
\* been taken, or the recall is superseded.  Then the discrete parameters.
PreWaitOver(r, g) ==
  /\ task[r][g].st = "wait"
  /\ TaskStep(r, g, IF IsCancelled(r) THEN [IdleTask EXCEPT !.st = "done"]
                    ELSE [st |-> "run", phase |-> 0, at |-> None,
                          left |-> Targets(r, g) \ Continuous])
  /\ UNCHANGED <<registry, world>>

\* send_one looks at the token and at the registry; a fade tick looks at the
\* registry only.  A discrete send that sees its token cancelled ends the task.
TaskPick(r, g, a) ==
  LET t == task[r][g] IN
  /\ t.st = "run" /\ a \in t.left
  /\ TaskStep(r, g,
       IF t.phase = 0 /\ IsCancelled(r) THEN [IdleTask EXCEPT !.st = "done"]
       ELSE IF ActiveFor(a, gen[r]) THEN [t EXCEPT !.st = "air", !.at = a]
       ELSE [t EXCEPT !.left = @ \ {a}])
  /\ UNCHANGED <<registry, world>>

TaskValueShort(r, t) == IF t.phase = 0 THEN own[r][t.at] ELSE Mid  \* mutant

\* A fade passes through intermediate values and ends on its target.
TaskValue(r, t) == IF t.phase = 0 \/ t.phase = Ticks THEN own[r][t.at] ELSE Mid

TaskTransmit(r, g) ==
  LET t == task[r][g] IN
  /\ t.st = "air"
  /\ \/ /\ desk' = [desk EXCEPT ![t.at] = TaskValue(r, t)]
        /\ TaskStep(r, g, [t EXCEPT !.st = "sent"])
        /\ UNCHANGED drops
     \/ /\ drops < MaxDrops /\ drops' = drops + 1
        /\ \/ TaskStep(r, g, [t EXCEPT !.st = "sent"])
           \/ TaskStep(r, g, [t EXCEPT !.st = "run", !.left = @ \ {t.at},
                                       !.at = None])
        /\ UNCHANGED desk
  /\ UNCHANGED <<registry, mirror, report, loading, moves, grabbed>>

\* A mutant of TaskReflect: the mirror is not told.
TaskReflectUnseen(r, g) ==
  LET t == task[r][g] IN
  /\ t.st = "sent"
  /\ TaskStep(r, g, [t EXCEPT !.st = "run", !.left = @ \ {t.at}, !.at = None])
  /\ UNCHANGED <<registry, desk, mirror, report, loading, moves, drops, grabbed>>
TaskReflect(r, g) ==
  LET t == task[r][g] IN
  /\ t.st = "sent"
  /\ mirror' = [mirror EXCEPT ![t.at] = TaskValue(r, t)]
  /\ TaskStep(r, g, [t EXCEPT !.st = "run", !.left = @ \ {t.at}, !.at = None])
  /\ UNCHANGED <<registry, desk, report, loading, moves, drops, grabbed>>

\* Between phases the task sleeps a tick and looks at its token.
NextTick(r, g) ==
  LET t == task[r][g]
      fading == Targets(r, g) \cap Continuous
  IN
  /\ t.st = "run" /\ t.left = {}
  /\ t.phase < Ticks /\ fading # {}
  /\ TaskStep(r, g, IF IsCancelled(r) THEN [IdleTask EXCEPT !.st = "done"]
                    ELSE [t EXCEPT !.phase = @ + 1, !.left = fading])
  /\ UNCHANGED <<registry, world>>

\* A fade that ran to its end deregisters its targets, whoever registered them.
CloseTask(r, g) ==
  LET t == task[r][g]
      fading == Targets(r, g) \cap Continuous
  IN
  /\ t.st = "run" /\ t.left = {}
  /\ t.phase = Ticks \/ fading = {}
  /\ registry' = [a \in Addr |-> IF a \in fading THEN 0 ELSE registry[a]]
  /\ TaskStep(r, g, [IdleTask EXCEPT !.st = "done"])
  /\ UNCHANGED world

-----------------------------------------------------------------------------
(* The tail of a recall: its verdict, the palette record, the plan, the     *)
(* undo state, the last-recalled pointer and the in-flight marker.          *)

Sent(r) == \/ pc[r] = "owns" /\ LoopOver(r)
           \/ pc[r] = "join" /\ TasksEnded(r)

\* A send loop or the tasks are over: the recall has its verdict.
Judge(r) ==
  /\ Sent(r)
  /\ verdict' = [verdict EXCEPT ![r] = Outcome(r)]
  /\ todo' = [todo EXCEPT ![r] = Nothing]
  /\ Goto(r, "commit")
  /\ UNCHANGED <<shared, ep, gen, own, cur, capture, task, world>>

\* finish_last_sent_palettes compares the epochs and the token first ...
CommitCheck(r) ==
  /\ pc[r] = "commit"
  /\ Goto(r, IF epoch # ep[r] THEN "unplan"
             ELSE IF IsCancelled(r) THEN "wipe" ELSE "stamp")
  /\ UNCHANGED <<shared, ep, gen, todo, own, cur, verdict, capture, task, world>>

\* ... and then locks and writes the record: next_last_sent, or nothing.
CommitStore(r) ==
  /\ pc[r] \in {"wipe", "stamp"}
  /\ lastSent' = IF pc[r] = "wipe" THEN Nothing
                 ELSE [a \in Addr |-> IF a \in Palette THEN Own[r][a] ELSE None]
  /\ Goto(r, "unplan")
  /\ UNCHANGED <<epoch, token, cancelled, gate, queue, inFlight, plan, undo,
                 lastRecalled, generation, registry, ep, gen, todo, own, cur,
                 verdict, capture, task, world>>

\* clear_recall_plan: only the plan stamped with this recall's own epoch.
PlanOfAnyone(r) == verdict[r] = "complete"  \* mutant
PlanOfItsOwn(r) == verdict[r] = "complete" /\ plan.ep = ep[r]

ClearPlan(r) ==
  /\ pc[r] = "unplan"
  /\ plan' = IF PlanOfItsOwn(r) THEN NoPlan ELSE plan
  /\ Goto(r, "keep")
  /\ UNCHANGED <<epoch, token, cancelled, gate, queue, inFlight, lastSent, undo,
                 lastRecalled, generation, registry, ep, gen, todo, own, cur,
                 verdict, capture, task, world>>

\* The undo state of a completed recall; recall_cue drops the gate after it.
StoreUndo(r) ==
  /\ pc[r] = "keep"
  /\ undo' = IF verdict[r] = "complete" /\ capture[r] # Nothing
             THEN [by |-> r, vals |-> capture[r]] ELSE undo
  /\ gate' = IF Kind[r] = "cue" THEN NoOne ELSE gate
  /\ Goto(r, "mark")
  /\ UNCHANGED <<epoch, token, cancelled, queue, inFlight, plan, lastSent,
                 lastRecalled, generation, registry, ep, gen, todo, own, cur,
                 verdict, capture, task, world>>

MarkLastRecalled(r) ==
  /\ pc[r] = "mark"
  /\ lastRecalled' = IF verdict[r] = "complete" THEN r ELSE lastRecalled
  /\ Goto(r, "end")
  /\ UNCHANGED <<epoch, token, cancelled, gate, queue, inFlight, plan, lastSent,
                 undo, generation, registry, ep, gen, todo, own, cur, verdict,
                 capture, task, world>>

\* The compare-exchange of recall_in_flight; as mutants a store and a subtraction.
MarkerStored(r) == 0
MarkerSubtracted(r) == inFlight - ep[r]
MarkerExchanged(r) == IF inFlight = ep[r] THEN 0 ELSE inFlight

\* The marker is cleared, after which recall drops the gate.
Finish(r) ==
  /\ pc[r] = "end"
  /\ inFlight' = MarkerExchanged(r)
  /\ Goto(r, IF Kind[r] = "recall" THEN "leave" ELSE "done")
  /\ UNCHANGED <<epoch, token, cancelled, gate, queue, plan, lastSent, undo,
                 lastRecalled, generation, registry, ep, gen, todo, own, cur,
                 verdict, capture, task, world>>

Leave(r) ==
  /\ \/ pc[r] = "leave"
     \/ pc[r] \in {"undoing", "reverting"} /\ LoopOver(r)
  /\ ReleaseGate
  /\ verdict' = IF pc[r] = "leave" THEN verdict
                ELSE [verdict EXCEPT ![r] = Outcome(r)]
  /\ todo' = [todo EXCEPT ![r] = Nothing]
  /\ Goto(r, "done")
  /\ UNCHANGED <<epoch, token, cancelled, queue, inFlight, plan, lastSent, undo,
                 lastRecalled, generation, registry, ep, gen, own, cur, capture,
                 task, world>>

-----------------------------------------------------------------------------
(* Undo and palette revert.                                                 *)

\* undo_recall under the gate: the plan is dropped, the undo state consumed;
\* with nothing to undo the call returns, otherwise the values are sent.
TakeUndo(r) ==
  /\ pc[r] = "take"
  /\ plan' = NoPlan
  /\ undo' = NoUndo
  /\ IF undo = NoUndo
       THEN /\ ReleaseGate /\ Goto(r, "done")
            /\ UNCHANGED <<lastSent, todo>>
       ELSE /\ lastSent' = Nothing
            /\ todo' = [todo EXCEPT ![r] = undo.vals]
            /\ Goto(r, "undoing")
            /\ UNCHANGED gate
  /\ own' = [own EXCEPT ![r] = undo.vals]
  /\ UNCHANGED <<epoch, token, cancelled, queue, inFlight, lastRecalled,
                 generation, registry, ep, gen, cur, verdict, capture, task,
                 world>>

\* reload_palette sends the palette's stored values; nothing cancels it.
StartRevert(r) ==
  /\ pc[r] = "revert"
  /\ todo' = [todo EXCEPT ![r] = Own[r]]
  /\ Goto(r, "reverting")
  /\ UNCHANGED <<shared, ep, gen, own, cur, verdict, capture, task, world>>

-----------------------------------------------------------------------------
(* The operator at the desk, and the dispatch of the desk's reports.        *)

Move(a) ==
  /\ moves < MaxMoves /\ moves' = moves + 1
  /\ desk' = [desk EXCEPT ![a] = Hand]
  /\ report' = [report EXCEPT ![a] = Hand]
  /\ UNCHANGED <<shared, locals, mirror, loading, drops, grabbed>>

\* maybe_override, which is asked only outside the window of a memory load: the
\* operator takes an address from the automation that has an entry for it.  (The
\* desk does not echo what the engine sends.)
Overridden(a) == ~loading /\ registry[a] # 0

Dispatch(a) ==
  /\ report[a] # None
  /\ mirror' = [mirror EXCEPT ![a] = report[a]]
  /\ report' = [report EXCEPT ![a] = None]
  /\ IF Overridden(a)
       THEN /\ registry' = [registry EXCEPT ![a] = 0]
            /\ grabbed' = grabbed \cup {a}
       ELSE UNCHANGED <<registry, grabbed>>
  /\ UNCHANGED <<epoch, token, cancelled, gate, queue, inFlight, plan, lastSent,
                 undo, lastRecalled, generation, locals, desk, loading, moves,
                 drops>>

\* CONSOLE_LOAD_SUPPRESSION_MS, long enough for the desk's reports and ten times
\* the settling time, have passed.
LoadOver ==
  /\ loading /\ report = Nothing /\ \A r \in Recalls : pc[r] # "settle"
  /\ loading' = FALSE
  /\ UNCHANGED <<shared, locals, desk, mirror, report, moves, drops, grabbed>>

-----------------------------------------------------------------------------
Gated(r) ==
  \/ Enter(r) \/ LeaveSuperseded(r) \/ MarkInFlight(r)
  \/ FireMemory(r) \/ ForgetPalettes(r) \/ Settle(r) \/ LeaveRowOnly(r)
  \/ Resolve(r) \/ (\E a \in Addr : Pick(r, a)) \/ Transmit(r) \/ Reflect(r)
  \/ StartOwn(r) \/ Spawn(r)
Tasks(r) ==
  \E g \in Groups :
    \/ PreWaitOver(r, g) \/ (\E a \in Addr : TaskPick(r, g, a))
    \/ TaskTransmit(r, g) \/ TaskReflect(r, g)
    \/ NextTick(r, g) \/ CloseTask(r, g)
Tail_(r) ==
  \/ Judge(r) \/ CommitCheck(r) \/ CommitStore(r) \/ ClearPlan(r)
  \/ StoreUndo(r) \/ MarkLastRecalled(r) \/ Finish(r) \/ Leave(r)
Undoing(r) == TakeUndo(r) \/ StartRevert(r)

Process(r) == Enqueue(r) \/ Gated(r) \/ Tasks(r) \/ Tail_(r) \/ Undoing(r)

AllDone == /\ \A r \in Recalls : pc[r] = "done"
           /\ report = Nothing /\ ~loading
Terminated == AllDone /\ UNCHANGED vars

Next ==
  \/ \E r \in Recalls : Claim(r) \/ Process(r)
  \/ \E a \in Addr : Move(a) \/ Dispatch(a)
  \/ LoadOver
  \/ Terminated

Spec == Init /\ [][Next]_vars

\* The runtime polls every ready future and the desk's reports are dispatched;
\* whether the operator presses anything is up to the operator.
Fairness == /\ \A r \in Recalls : WF_vars(Process(r))
            /\ (\A a \in Addr : WF_vars(Dispatch(a))) /\ WF_vars(LoadOver)
FairSpec == Spec /\ Fairness

-----------------------------------------------------------------------------
(* Properties.                                                              *)

Labels == {"idle", "claimed", "queued", "superseded", "entered", "fire", "forget",
           "settle", "rowdone", "resolve", "snaps", "owns", "join", "commit",
           "wipe", "stamp", "unplan", "keep", "mark", "end", "leave", "take",
           "undoing", "revert", "reverting", "done"}
Cursor == {None} \cup [at : Addr, st : {"air", "sent"}]
TaskState == [st : {"off", "wait", "run", "air", "sent", "done"}, phase : Nat,
              left : SUBSET Addr, at : Addr \cup {None}]

\* Every variable of the engine, of its tasks and of the desk has its type.
TypeOK ==
  /\ epoch \in Nat /\ token \in Recalls \cup {NoOne} /\ cancelled \subseteq Recalls
  /\ gate \in Recalls \cup {NoOne} /\ queue \in Seq(Recalls) /\ inFlight \in Nat
  /\ plan \in [ep : Nat, vals : Settings] /\ lastSent \in Settings
  /\ undo \in [by : Recalls \cup {NoOne}, vals : Settings]
  /\ lastRecalled \in Recalls \cup {NoOne}
  /\ generation \in Nat /\ registry \in [Addr -> Nat]
  /\ pc \in [Recalls -> Labels] /\ ep \in [Recalls -> Nat] /\ gen \in [Recalls -> Nat]
  /\ todo \in [Recalls -> Settings] /\ own \in [Recalls -> Settings]
  /\ cur \in [Recalls -> Cursor]
  /\ verdict \in [Recalls -> {"open", "complete", "cancelled"}]
  /\ capture \in [Recalls -> Settings]
  /\ task \in [Recalls -> [Groups -> TaskState]]
  /\ desk \in [Addr -> Value] /\ mirror \in [Addr -> Value]
  /\ report \in Settings /\ loading \in BOOLEAN /\ moves \in Nat /\ drops \in Nat /\ grabbed \subseteq Addr

\* "The last caller always ends holding the highest epoch and the only
\* uncancelled token" (begin_recall_epoch): a recall is superseded exactly when
\* a later one has claimed, and no two hold the same epoch.
LatestWins ==
  \A r \in Recalls : ep[r] # 0 =>
    /\ ep[r] <= epoch
    /\ IsCancelled(r) <=> ep[r] < epoch
    /\ \A q \in Recalls \ {r} : ep[q] # ep[r]

\* The labels of the phase recall_gate serializes, by kind of call: recall
\* keeps the gate to its end, a timed cue drops it when its tasks are spawned.
Bracket(r) ==
  {"superseded", "entered", "fire", "forget", "settle", "rowdone", "resolve",
   "snaps", "owns", "take", "undoing", "revert", "reverting", "leave"}
  \cup (IF Kind[r] \in {"recall", "cue"}
        THEN {"commit", "wipe", "stamp", "unplan", "keep"} ELSE {})
  \cup (IF Kind[r] = "recall" THEN {"mark", "end"} ELSE {})

\* Two calls are never in the gated phase together, whoever was cancelled when
\* and whichever exit each of them took.
GateExclusion == \A r \in Recalls : pc[r] \in Bracket(r) <=> gate = r

\* From its marker to its end the newest recall is the one recall_in_flight
\* names, so a successor that finds 0 there knows nothing is half-applied.
Marked == {"fire", "forget", "settle", "rowdone", "resolve", "snaps", "owns",
           "join", "commit", "wipe", "stamp", "unplan", "keep", "mark", "end"}
InFlightTruth ==
  \A r \in Recalls : pc[r] \in Marked /\ ~IsCancelled(r) => inFlight = ep[r]

\* The timeline the operator asked for: each address has the value of the last
\* recall, in the order of the claims, whose cue sets it.
Ends == [r \in Recalls |->
           IF HasSnapshot(r) \/ Kind[r] = "rowonly" THEN Over(Own[r], Row[r])
           ELSE Nothing]
Setters == [a \in Addr |-> {r \in Recalls : Ends[r][a] # None}]
Latest(S) == CHOOSE r \in S : \A q \in S : ep[q] <= ep[r]
IdealBefore(n) ==
  [a \in Addr |->
     LET S == {r \in Setters[a] : ep[r] \in 1 .. n - 1}
     IN IF S = {} THEN Init0 ELSE Ends[Latest(S)][a]]
Ideal == IdealBefore(epoch + 1)
Quiet == \A r \in Recalls : pc[r] \in {"idle", "done"}

\* "The desk ends up as if the cues had played in order, just faster"
\* (superseded_plan): whenever no call is running.
CueOrder == Quiet => desk = Ideal

\* The engine implements the playback the operator asked for.
Playback == INSTANCE CuePlayback
              WITH ideal <- Ideal, busy <- ~Quiet, Show <- {Ends[r] : r \in Recalls}
PlaysInOrder == Playback!Spec

\* What a superseded cue set is never forgotten: until a later recall completes
\* or an undo drops the plan, every address of a cancelled recall is in the plan.
SupersededKept ==
  \A r \in Recalls :
    /\ HasSnapshot(r) /\ pc[r] = "done" /\ verdict[r] = "cancelled"
    /\ \A q \in Recalls : ep[q] > ep[r] =>
         Kind[q] # "undo" /\ verdict[q] # "complete"
    => Named(Own[r]) \subseteq Named(plan.vals) \cup Palette

\* "Overrides never leak across cues" (automation_registry.rs): an entry goes
\* only when its own recall's fade ends, when the desk reports the address, or
\* when a newer recall begins.
EntryNotStolen ==
  [][\A a \in Addr : registry[a] # 0 /\ registry'[a] = 0 =>
       \/ generation' # generation
       \/ report[a] # None /\ report'[a] = None
       \/ \E r \in Recalls, g \in Groups :
            /\ gen[r] = registry[a]
            /\ task[r][g].st # "done" /\ task'[r][g].st = "done"]_vars

TakesUp(r, g, a) == /\ task[r][g].st # "air" /\ task'[r][g].st = "air"
                    /\ task'[r][g].at = a

\* Once the operator has taken an address from the automation no fade or
\* pre-wait sends to it again until a later recall sets it ("the hands-on
\* console value always wins").
TakenStaysTaken ==
  [][\A r \in Recalls, g \in Groups, a \in Addr :
       TakesUp(r, g, a) => a \notin grabbed]_vars

\* A fade that outlives its recall sends no further tick once a newer timed
\* recall has begun, although that recall registers the same addresses again.
SupersededFadesStop ==
  [][\A r \in Recalls, g \in Groups, a \in Addr :
       TakesUp(r, g, a) => gen[r] = generation]_vars

\* The snap-through of a superseded recall leaves alone what the operator took
\* from it.
SnapSparesHands ==
  [][\A r \in Recalls : pc[r] = "resolve" /\ pc'[r] = "snaps" =>
       Named(todo'[r]) \cap grabbed = {}]_vars

\* "A recall whose epoch is no longer the newest must not touch the record at
\* all" (finish_last_sent_palettes).
StampOnlyNewest ==
  [][\A r \in Recalls : pc[r] \in {"wipe", "stamp"} /\ pc'[r] = "unplan" =>
       ep[r] = epoch \/ lastSent' = lastSent]_vars

\* "A superseded recall leaves the pointer to its successor" (recall): the
\* last-recalled pointer never goes back to an older recall.
PointerForward ==
  [][lastRecalled # NoOne => ep[lastRecalled'] >= ep[lastRecalled]]_vars

\* A recall that skipped the slot at a and completed, and a cue it superseded that
\* links another palette there: the recall may have played the cue over the slot.
PlayedOver(a, v) ==
  \E r, q \in Recalls :
    /\ HasSnapshot(r) /\ verdict[r] = "complete" /\ Own[r][a] = v /\ own[r][a] = None
    /\ HasSnapshot(q) /\ IsCancelled(q) /\ ep[q] < ep[r] /\ Own[q][a] \notin {None, v}

\* A slot is skipped only when the desk holds its palette already, or a recall
\* that skipped it too played a superseded cue over it.
SkipIsSafe ==
  [][\A r \in Recalls : pc[r] = "resolve" /\ pc'[r] = "snaps" =>
       \A a \in Skipped(r) : desk[a] = Own[r][a] \/ PlayedOver(a, Own[r][a])]_vars

\* No newer call is past the gate while a fade's recall, which has given the gate
\* back, is between the comparison and the store of finish_last_sent_palettes.
StampsInTime ==
  \A r, q \in Recalls :
    Kind[r] = "timed" /\ pc[r] = "stamp" /\ ep[q] > ep[r] => pc[q] \in {"claimed", "queued"}

\* "Undo the last recall: cancel any active fades and send the pre-recall
\* values back" (undo_recall).
Undone(u) == /\ Kind[u] = "undo" /\ Quiet /\ own[u] # Nothing
             /\ pc[u] = "done" /\ verdict[u] = "complete" /\ ep[u] = epoch
Before(u) == {r \in Recalls : ep[r] \in 1 .. ep[u] - 1}
UndoRevertsLast ==
  \A u \in Recalls : Undone(u) => desk = IdealBefore(ep[Latest(Before(u))])

\* The same where the undo state is that of the last recall and every recall
\* before the undo ran to its end.
UndoExact ==
  \A u \in Recalls :
    /\ Undone(u)
    /\ own[u] = capture[Latest(Before(u))]
    /\ \A r \in Before(u) : verdict[r] = "complete"
    => desk = IdealBefore(ep[Latest(Before(u))])

\* Every call comes to its end: a superseded recall, a skipped send or a fade
\* cannot wedge the calls that wait behind it for the gate.
Completes == \A r \in Recalls : pc[r] = "claimed" ~> pc[r] = "done"

-----------------------------------------------------------------------------
(* The inductive invariant behind the theorems of RecallEngine_proofs.      *)

\* Which kinds of call pass through which labels.
PathOK ==
  \A r \in Recalls :
    /\ pc[r] = "owns" => Kind[r] \in {"recall", "cue"}
    /\ pc[r] = "join" => Kind[r] = "timed"
    /\ pc[r] \in {"resolve", "snaps", "commit", "wipe", "stamp", "unplan", "keep",
                  "mark"} => HasSnapshot(r)
    /\ pc[r] \in {"entered", "fire", "forget", "settle", "end"} =>
         HasSnapshot(r) \/ Kind[r] = "rowonly"
    /\ pc[r] = "rowdone" => Kind[r] = "rowonly"
    /\ pc[r] = "leave" => Kind[r] = "recall"
    /\ pc[r] \in {"take", "undoing"} => Kind[r] = "undo"
    /\ pc[r] \in {"revert", "reverting"} => Kind[r] = "revert"
    /\ pc[r] \in {"superseded", "claimed"} => Kind[r] # "revert"

\* The datagram of a send loop in progress is of a value the loop still has.
LoopOK == \A r \in Recalls :
            cur[r] # None => pc[r] \in Sending /\ todo[r][cur[r].at] # None

\* A task runs while its recall joins on it, and sends what the recall resolved.
TaskFits(r, t) ==
  IF t.st \in {"off", "done"} THEN t.left = {} /\ t.at = None
  ELSE /\ pc[r] = "join"
       /\ t.left \subseteq Named(own[r])
       /\ t.at # None => t.at \in Named(own[r])
       /\ t.st \in {"air", "sent"} => t.at # None
TasksOK == \A r \in Recalls, g \in Groups : TaskFits(r, task[r][g])
SendOK == LoopOK /\ TasksOK

\* The token is the newest claim's; a call has an epoch from its claim on.
ClaimOK ==
  /\ epoch = 0 <=> token = NoOne
  /\ token # NoOne => ep[token] = epoch
  /\ \A r \in Recalls : /\ pc[r] = "idle" => ep[r] = 0
                        /\ pc[r] # "idle" /\ Kind[r] # "revert" => ep[r] # 0
                        /\ Kind[r] = "revert" => ep[r] = 0
                        /\ ep[r] = 0 => r \notin cancelled

\* A call that found its token alive under the gate entered before any newer
\* call could.
EnteredFirst ==
  \A r, q \in Recalls :
    pc[r] = "entered" /\ ep[q] > ep[r] => pc[q] \in {"claimed", "queued"}

\* Only the newest generation has entries in the registry.
RegistryOK ==
  /\ \A a \in Addr : registry[a] \in {0, generation}
  /\ \A r \in Recalls :
       /\ pc[r] = "snaps" /\ Kind[r] = "timed" => gen[r] = generation /\ gen[r] # 0
       /\ \A g \in Groups : ~TaskEnded(r, g) => gen[r] # 0

\* What the operator took has no entry, and a timed recall that has not spawned
\* its tasks starts from an empty registry.
GrabOK ==
  /\ \A a \in grabbed : registry[a] = 0
  /\ \A r \in Recalls : pc[r] = "snaps" /\ Kind[r] = "timed" =>
       /\ \A a \in Addr : registry[a] = 0
       /\ Named(own[r]) \cap grabbed = {}

\* A call has no verdict before its last send.
VerdictOK ==
  \A r \in Recalls :
    verdict[r] # "open" => pc[r] \in {"commit", "wipe", "stamp", "unplan", "keep",
                                     "mark", "end", "leave", "done"}

\* As EnteredFirst, of an undo that is about to drop the plan.
TakeFirst ==
  \A u, q \in Recalls :
    pc[u] = "take" /\ ep[q] > ep[u] => pc[q] \in {"claimed", "queued"}

\* A call whose end-values have been written into the plan.
Planned(r) == HasSnapshot(r) /\ pc[r] \in {"snaps", "owns", "join", "commit", "wipe",
                "stamp", "unplan", "keep", "mark", "end", "leave", "done"}

\* The plan a completed recall may clear is the plan of no newer call.
PlanOwner ==
  \A r, q \in Recalls :
    HasSnapshot(q) /\ verdict[q] = "complete" /\ plan.ep = ep[q] /\ Planned(r) =>
      ep[r] <= ep[q]

\* SupersededKept, of every call from its merge on.
NoneNewer(r) == \A q \in Recalls : ep[q] > ep[r] =>
                  Kind[q] # "undo" /\ verdict[q] # "complete"
PlanKept ==
  \A r \in Recalls :
    Planned(r) /\ verdict[r] # "complete" /\ NoneNewer(r) =>
      Named(Own[r]) \subseteq Named(plan.vals) \cup Palette
=============================================================================
