------------------------------ MODULE LiveEdits -----------------------------
(***************************************************************************)
(* What becomes of the operator's tweaks between two cues.  The inbound    *)
(* dispatcher (src/console/inbound.rs) mirrors a reported move and marks   *)
(* its cell dirty (src/model/dirty_tracker.rs); the absorb loop            *)
(* (src/console/palette_tracker.rs) folds dirty cells into the palettes    *)
(* that the last-recalled snapshot links; the next recall merges them into *)
(* that snapshot (auto_save_previous_snapshot), opens a suppression        *)
(* bracket around its own sends, and clears the dirty set as it closes it. *)
(*                                                                         *)
(* A value is represented by where it comes from: a move of the operator,  *)
(* the snapshot that sent it (on the way of a fade, too), a palette's      *)
(* stored value, an undo, or a memory of the desk.  What a recall sends,   *)
(* and when it is told to stop, is RecallEngine's subject: here a recall   *)
(* writes whatever it likes inside its bracket.                            *)
(***************************************************************************)
EXTENDS Integers, FiniteSets

CONSTANTS
  Recalls,     \* each is issued at most once
  Kind,        \* [Recalls -> Kinds]
  SnapOf,      \* [Recalls -> Snapshots or None]: a row-only cue, an undo has none
  HasRow,      \* the recalls of cues with a console memory row
  Snapshots, Palettes, Addr,
  Scope,       \* [Snapshots -> SUBSET Addr]
  Links,       \* [Snapshots -> [Addr -> Palettes or None]]: palette_refs
  Memory,      \* the addresses a console memory sets
  AutoUpdate,  \* auto_update_on_recall
  Hands,       \* the operator's moves
  Desk, Before,\* values of a memory, of an undo
  None,
  First,       \* the snapshot that is live at the start
  MaxInputs    \* bound: moves, memories recalled at the desk, reverts

Kinds == {"instant", "timed", "rowonly", "undo"}
Values == Hands \cup Snapshots \cup Palettes \cup {Desk, Before}

ASSUME RecallAssumption ==
  /\ Kind \in [Recalls -> Kinds] /\ HasRow \subseteq Recalls
  /\ SnapOf \in [Recalls -> Snapshots \cup {None}]
  /\ \A r \in Recalls : SnapOf[r] = None <=> Kind[r] \in {"rowonly", "undo"}
ASSUME ShowAssumption ==
  /\ Scope \in [Snapshots -> SUBSET Addr] /\ Memory \subseteq Addr
  /\ Links \in [Snapshots -> [Addr -> Palettes \cup {None}]]
  /\ First \in Snapshots /\ MaxInputs \in Nat /\ AutoUpdate \in BOOLEAN
ASSUME DistinctAssumption ==
  /\ None \notin Values \cup Recalls \cup Addr
  /\ Hands \cap (Snapshots \cup Palettes) = {} /\ Snapshots \cap Palettes = {}
  /\ {Desk, Before} \cap (Hands \cup Snapshots \cup Palettes) = {} /\ Desk # Before

VARIABLES
  mirror,      \* ConsoleState
  pending,     \* the desk's report of an address, not yet dispatched
  disp,        \* the dispatcher between its mirror update and its mark
  dirty,       \* DirtyTracker::dirty
  brackets,    \* the open SuppressionGuards, suppress_depth is their number
  loading,     \* console_load_active
  lastRecalled,\* CueManager::last_recalled
  saved,       \* what auto-save put into a snapshot's data
  working,     \* ChannelPalette::working_values
  gate, cancelled, token,  \* recall_gate and the tokens, as in RecallEngine
  pc, prev, pairs,         \* locals of a recall
  pass,        \* locals of absorb_once
  revert,      \* a palette revert: the palette and how far it is
  left,        \* the moves to come
  inputs,      \* bound: moves, memory loads and reverts so far
  \* history
  live,        \* the snapshot whose recall was the last to complete
  madeOver,    \* [Hands -> the snapshot live when the move was mirrored]
  reverted,    \* the moves a palette revert has taken back
  stale,       \* dirty cells whose value is no longer the operator's
  known        \* what was dirty when a recall entered the gate

tracker == <<dirty, brackets, loading>>
data == <<lastRecalled, saved, working>>
engine == <<gate, cancelled, token, pc, prev, pairs>>
bounds == <<left, inputs>>
history == <<live, madeOver, reverted, stale, known>>
vars == <<mirror, pending, disp, tracker, data, engine, pass, revert, bounds, history>>

Idle == [at |-> None, crossed |-> FALSE]
Asleep == [at |-> "asleep", snap |-> None, cells |-> {},
           vals |-> [a \in Addr |-> None], excused |-> {}]
Empty == [a \in Addr |-> None]

Init ==
  /\ mirror = [a \in Addr |-> First] /\ pending = Empty /\ disp = Idle
  /\ dirty = {} /\ brackets = {} /\ loading = FALSE
  /\ lastRecalled = First
  /\ saved = [s \in Snapshots |-> Empty] /\ working = [p \in Palettes |-> Empty]
  /\ gate = None /\ cancelled = {} /\ token = None
  /\ pc = [r \in Recalls |-> "idle"] /\ prev = [r \in Recalls |-> None]
  /\ pairs = [r \in Recalls |-> {}]
  /\ pass = Asleep /\ revert = [palette |-> None, at |-> "idle"]
  /\ left = Hands /\ inputs = 0
  /\ live = First /\ madeOver = [h \in Hands |-> None]
  /\ reverted = {} /\ stale = {}
  /\ known = [r \in Recalls |-> Empty]

Suppressed == brackets # {}
Goto(r, label) == pc' = [pc EXCEPT ![r] = label]
\* The cells that are dirty, or that an auto-save or a pass has read as dirty.
Marked == dirty \cup pass.cells \cup UNION {pairs[r] : r \in {q \in Recalls : pc[q] = "merge"}}
\* A mark that is on its way may come after a value that is not the operator's.
Cross == disp' = IF disp = Idle THEN Idle ELSE [disp EXCEPT !.crossed = TRUE]
\* A pass that has begun is excused for what it folds from here on.
Excuse == pass' = IF pass.at = "asleep" THEN pass ELSE [pass EXCEPT !.excused = Addr]

-----------------------------------------------------------------------------
(* The desk and the inbound dispatcher.                                    *)

Input == inputs < MaxInputs /\ inputs' = inputs + 1

\* External: the operator moves a control; the desk reports its latest value.
Move(a) ==
  /\ Input /\ left # {}
  /\ LET h == CHOOSE h \in left : TRUE IN
       pending' = [pending EXCEPT ![a] = h] /\ left' = left \ {h}
  /\ UNCHANGED <<mirror, disp, tracker, data, engine, pass, revert, history>>

\* CurrentSnapshot: a memory is recalled at the desk; its values follow.
DeskLoad ==
  /\ Input
  /\ loading' = TRUE
  /\ pending' = [a \in Addr |-> IF a \in Memory THEN Desk ELSE pending[a]]
  /\ UNCHANGED <<mirror, disp, dirty, brackets, data, engine, pass, revert, left, history>>

\* External: the window outlasts the reports of the memory.
LoadOver ==
  /\ loading /\ loading' = FALSE
  /\ \A a \in Addr : pending[a] # Desk
  /\ disp.at # None => mirror[disp.at] # Desk
  /\ UNCHANGED <<mirror, pending, disp, dirty, brackets, data, engine, pass, revert,
                 bounds, history>>

\* apply_parameter_change up to the update of the mirror
MirrorReport(a) ==
  /\ disp = Idle /\ pending[a] # None
  /\ mirror' = [mirror EXCEPT ![a] = pending[a]]
  /\ pending' = [pending EXCEPT ![a] = None]
  /\ disp' = IF pending[a] = mirror[a] THEN Idle ELSE [at |-> a, crossed |-> Suppressed]
  /\ IF pending[a] \in Hands
     THEN /\ madeOver' = [madeOver EXCEPT ![pending[a]] = live]
          /\ stale' = stale \ {a}
     ELSE /\ stale' = stale \cup ({a} \cap Marked)
          /\ UNCHANGED madeOver
  /\ UNCHANGED <<tracker, data, engine, pass, revert, bounds, live, reverted, known>>

\* The load window, then DirtyTracker::mark, which does nothing in a bracket.
Mark ==
  /\ disp # Idle /\ disp' = Idle
  /\ IF loading \/ Suppressed
     THEN UNCHANGED <<dirty, stale>>
     ELSE /\ dirty' = dirty \cup {disp.at}
          /\ stale' = IF disp.crossed THEN stale \cup {disp.at} ELSE stale
  /\ UNCHANGED <<mirror, pending, brackets, loading, data, engine, pass, revert,
                 bounds, live, madeOver, reverted, known>>

-----------------------------------------------------------------------------
(* A recall.                                                               *)

\* begin_recall_epoch
Begin(r) ==
  /\ pc[r] = "idle" /\ Goto(r, "queued")
  /\ token' = r
  /\ cancelled' = IF token = None THEN cancelled ELSE cancelled \cup {token}
  /\ UNCHANGED <<mirror, pending, disp, tracker, data, gate, prev, pairs, pass, revert,
                 bounds, history>>

\* A recall that was cancelled while it waited leaves at once.
Enter(r) ==
  /\ pc[r] = "queued" /\ gate = None
  /\ IF r \in cancelled
     THEN Goto(r, "done") /\ UNCHANGED <<gate, known>>
     ELSE /\ gate' = r /\ Goto(r, IF SnapOf[r] = None THEN "open" ELSE "save")
          /\ known' = [known EXCEPT ![r] =
               [a \in Addr |-> IF a \in dirty \ stale /\ ~Suppressed THEN mirror[a] ELSE None]]
  /\ UNCHANGED <<mirror, pending, disp, tracker, data, cancelled, token, prev, pairs, pass,
                 revert, bounds, live, madeOver, reverted, stale>>

\* auto_save_previous_snapshot.  The pointer cannot move between the first two
\* of its steps: the recall has the gate and no bracket is open.
\* Mutant: a bracket that is still open is not asked about.
SaveCheckUnasked(r) ==
  /\ pc[r] = "save"
  /\ prev' = [prev EXCEPT ![r] = lastRecalled]
  /\ Goto(r, IF ~AutoUpdate \/ lastRecalled = SnapOf[r] THEN "open" ELSE "pairs")
  /\ UNCHANGED <<mirror, pending, disp, tracker, data, gate, cancelled, token, pairs,
                 pass, revert, bounds, history>>
SaveCheck(r) ==
  /\ pc[r] = "save"
  /\ prev' = [prev EXCEPT ![r] = lastRecalled]
  /\ Goto(r, IF ~AutoUpdate \/ Suppressed \/ lastRecalled = SnapOf[r]
             THEN "open" ELSE "pairs")
  /\ UNCHANGED <<mirror, pending, disp, tracker, data, gate, cancelled, token, pairs,
                 pass, revert, bounds, history>>

SavePairs(r) ==
  /\ pc[r] = "pairs"
  /\ pairs' = [pairs EXCEPT ![r] = dirty]
  /\ Goto(r, IF dirty = {} THEN "open" ELSE "merge")
  /\ UNCHANGED <<mirror, pending, disp, tracker, data, gate, cancelled, token, prev,
                 pass, revert, bounds, history>>

SaveMerge(r) ==
  /\ pc[r] = "merge" /\ Goto(r, "drain")
  /\ saved' = [saved EXCEPT ![prev[r]] =
       [a \in Addr |-> IF a \in pairs[r] \cap Scope[prev[r]] THEN mirror[a] ELSE @[a]]]
  /\ UNCHANGED <<mirror, pending, disp, tracker, lastRecalled, working, gate, cancelled,
                 token, prev, pairs, pass, revert, bounds, history>>

SaveDrain(r) ==
  /\ pc[r] = "drain" /\ Goto(r, "open")
  /\ dirty' = {}
  /\ UNCHANGED <<mirror, pending, disp, brackets, loading, data, gate, cancelled, token,
                 prev, pairs, pass, revert, bounds, history>>

\* with_dirty_suppression: suppress().  The locals of the auto-save are gone.
Open(r) ==
  /\ pc[r] = "open" /\ Goto(r, IF r \in HasRow THEN "row" ELSE "send")
  /\ brackets' = brackets \cup {r}
  /\ prev' = [prev EXCEPT ![r] = None] /\ pairs' = [pairs EXCEPT ![r] = {}]
  /\ known' = [known EXCEPT ![r] = Empty]
  /\ Cross /\ Excuse
  /\ UNCHANGED <<mirror, pending, dirty, loading, data, gate, cancelled, token, revert,
                 bounds, live, madeOver, reverted, stale>>

\* fire_console_memory_if_needed; the send may fail, and nothing is armed then.
FireRow(r) ==
  /\ pc[r] = "row" /\ Goto(r, "send")
  /\ \/ /\ loading' = TRUE
        /\ pending' = [a \in Addr |-> IF a \in Memory THEN Desk ELSE pending[a]]
     \/ UNCHANGED <<loading, pending>>
  /\ UNCHANGED <<mirror, disp, dirty, brackets, data, gate, cancelled, token, prev, pairs,
                 pass, revert, bounds, history>>

\* A send with its optimistic mirror update.  A recall sends its own values
\* and those left over by the recalls it superseded.
Sendable(r) ==
  CASE Kind[r] = "undo" -> {Before}
    [] Kind[r] = "rowonly" -> {}
    [] OTHER -> {SnapOf[r]} \cup {SnapOf[q] : q \in {q \in cancelled : SnapOf[q] # None}}
Send(r) ==
  /\ pc[r] \in {"send", "fade"}
  /\ \E a \in Addr, v \in Sendable(r) : mirror' = [mirror EXCEPT ![a] = v]
  /\ UNCHANGED <<pending, disp, tracker, data, engine, pass, revert, bounds, history>>

\* A timed recall and a row-only cue release the gate in their bracket.
ReleaseGate(r) ==
  /\ pc[r] = "send" /\ Kind[r] \in {"timed", "rowonly"}
  /\ gate' = None /\ Goto(r, "fade")
  /\ UNCHANGED <<mirror, pending, disp, tracker, data, cancelled, token, prev, pairs,
                 pass, revert, bounds, history>>

\* The outcome, and the pointer of a completed recall.
\* Mutant: the pointer moves whatever the outcome.
FinishAnyway(r) ==
  /\ pc[r] = (IF Kind[r] \in {"timed", "rowonly"} THEN "fade" ELSE "send")
  /\ Goto(r, "close")
  /\ IF SnapOf[r] = None
     THEN UNCHANGED <<lastRecalled, live>>
     ELSE /\ lastRecalled' = SnapOf[r]
          /\ live' = IF r \in cancelled THEN live ELSE SnapOf[r]
  /\ UNCHANGED <<mirror, pending, disp, tracker, saved, working, gate, cancelled, token,
                 prev, pairs, pass, revert, bounds, madeOver, reverted, stale, known>>
Finish(r) ==
  /\ pc[r] = (IF Kind[r] \in {"timed", "rowonly"} THEN "fade" ELSE "send")
  /\ Goto(r, "close")
  /\ IF SnapOf[r] = None \/ r \in cancelled
     THEN UNCHANGED <<lastRecalled, live>>
     ELSE lastRecalled' = SnapOf[r] /\ live' = SnapOf[r]
  /\ UNCHANGED <<mirror, pending, disp, tracker, saved, working, gate, cancelled, token,
                 prev, pairs, pass, revert, bounds, madeOver, reverted, stale, known>>

\* with_dirty_suppression: drop(guard) and clear() under one lock
\* Mutant: a cancelled recall never ends its suppression.
CloseLeaking(r) ==
  /\ pc[r] = "close" /\ Goto(r, "done")
  /\ brackets' = (IF r \in cancelled THEN brackets ELSE brackets \ {r})
  /\ dirty' = {} /\ stale' = {}
  /\ gate' = IF gate = r THEN None ELSE gate
  /\ UNCHANGED <<mirror, pending, disp, loading, data, cancelled, token, prev, pairs, pass,
                 revert, bounds, live, madeOver, reverted, known>>
Close(r) ==
  /\ pc[r] = "close" /\ Goto(r, "done")
  /\ brackets' = brackets \ {r} /\ dirty' = {} /\ stale' = {}
  /\ gate' = IF gate = r THEN None ELSE gate
  /\ UNCHANGED <<mirror, pending, disp, loading, data, cancelled, token, prev, pairs, pass,
                 revert, bounds, live, madeOver, reverted, known>>

-----------------------------------------------------------------------------
(* The absorb loop: run_absorb_loop and absorb_once, one step per lock.    *)

PassGoto(label) == pass' = [pass EXCEPT !.at = label]
NotThePass == <<mirror, pending, disp, tracker, lastRecalled, saved, engine, revert, bounds,
                history>>

\* Mutant: a pass only when some dirty cell has nothing in the overlay yet.
TickOnFirst ==
  /\ pass.at = "asleep" /\ PassGoto("check")
  /\ \E a \in dirty : LET p == Links[lastRecalled][a] IN p # None /\ working[p][a] = None
  /\ UNCHANGED <<NotThePass, working>>
Tick ==
  /\ pass.at = "asleep" /\ dirty # {} /\ PassGoto("check")
  /\ UNCHANGED <<NotThePass, working>>

\* The two early returns have no await between them.
\* Mutant: no check for a bracket.
AbsorbUnchecked ==
  /\ pass.at = "check"
  /\ IF loading THEN pass' = Asleep ELSE PassGoto("refs")
  /\ UNCHANGED <<NotThePass, working>>
AbsorbCheck ==
  /\ pass.at = "check"
  /\ IF Suppressed \/ loading THEN pass' = Asleep ELSE PassGoto("refs")
  /\ UNCHANGED <<NotThePass, working>>

AbsorbRefs ==
  /\ pass.at = "refs"
  /\ IF Links[lastRecalled] = Empty
     THEN pass' = Asleep
     ELSE pass' = [pass EXCEPT !.at = "cells", !.snap = lastRecalled]
  /\ UNCHANGED <<NotThePass, working>>

AbsorbCells ==
  /\ pass.at = "cells"
  /\ IF dirty = {} THEN pass' = Asleep
     ELSE pass' = [pass EXCEPT !.at = "values", !.cells = dirty]
  /\ UNCHANGED <<NotThePass, working>>

AbsorbValues ==
  /\ pass.at = "values"
  /\ LET linked == {a \in pass.cells : Links[pass.snap][a] # None} IN
       pass' = IF linked = {} THEN Asleep
               ELSE [pass EXCEPT !.at = "fold", !.excused = @ \cup stale,
                      !.vals = [a \in Addr |-> IF a \in linked THEN mirror[a] ELSE None]]
  /\ UNCHANGED <<NotThePass, working>>

\* set_working keeps a diff: a value the palette holds already leaves nothing.
\* What a snapshot sent to a slot it links is what the palette held.
SetWorking(p, a, v) ==
  IF v = p THEN None
  ELSE IF v \in Snapshots /\ Links[v][a] = p THEN working[p][a] ELSE v

AbsorbFold ==
  /\ pass.at = "fold" /\ pass' = Asleep
  /\ working' = [p \in Palettes |-> [a \in Addr |->
       IF pass.vals[a] # None /\ Links[pass.snap][a] = p
       THEN SetWorking(p, a, pass.vals[a]) ELSE working[p][a]]]
  /\ UNCHANGED NotThePass

-----------------------------------------------------------------------------
(* PaletteRevert: the overlay, the dirty cells, then the stored values.    *)

CellsOf(p) == {a \in Addr : \E s \in Snapshots : Links[s][a] = p}

\* The button is enabled while the overlay has changes.
Discard(p) ==
  /\ Input /\ revert.at = "idle" /\ working[p] # Empty /\ revert' = [palette |-> p, at |-> "clear"]
  /\ working' = [working EXCEPT ![p] = Empty]
  /\ Excuse
  /\ UNCHANGED <<mirror, pending, disp, tracker, lastRecalled, saved, engine, left, history>>

\* Mutant: the cells stay dirty.
ClearNothing ==
  /\ revert.at = "clear" /\ revert' = [revert EXCEPT !.at = "reload"]
  /\ reverted' = reverted \cup (Hands \cap {mirror[a] : a \in CellsOf(revert.palette)})
  /\ Excuse /\ Cross
  /\ UNCHANGED <<mirror, pending, tracker, data, engine, bounds, live, madeOver, stale, known>>
ClearChannelSection ==
  /\ revert.at = "clear" /\ revert' = [revert EXCEPT !.at = "reload"]
  /\ dirty' = dirty \ CellsOf(revert.palette)
  /\ reverted' = reverted \cup (Hands \cap {mirror[a] : a \in CellsOf(revert.palette)})
  /\ Excuse /\ Cross
  /\ UNCHANGED <<mirror, pending, brackets, loading, data, engine, bounds, live, madeOver,
                 stale, known>>

\* reload_palette: behind the gate, without a bracket
Reload ==
  /\ revert.at = "reload" /\ gate = None /\ revert' = [revert EXCEPT !.at = "done"]
  /\ mirror' = [a \in Addr |->
       IF a \in CellsOf(revert.palette) THEN revert.palette ELSE mirror[a]]
  /\ stale' = stale \cup (CellsOf(revert.palette) \cap Marked)
  /\ Cross
  /\ UNCHANGED <<pending, tracker, data, engine, pass, bounds, live, madeOver, reverted, known>>

-----------------------------------------------------------------------------
RecallStep(r) ==
  \/ Enter(r) \/ SaveCheck(r) \/ SavePairs(r) \/ SaveMerge(r)
  \/ SaveDrain(r) \/ Open(r) \/ FireRow(r) \/ ReleaseGate(r) \/ Finish(r) \/ Close(r)
Absorb == \/ Tick \/ AbsorbCheck \/ AbsorbRefs \/ AbsorbCells
          \/ AbsorbValues \/ AbsorbFold
Dispatch == Mark \/ \E a \in Addr : MirrorReport(a)
Next ==
  \/ \E a \in Addr : Move(a)
  \/ DeskLoad \/ LoadOver \/ Dispatch \/ Absorb
  \/ \E r \in Recalls : Begin(r) \/ RecallStep(r) \/ Send(r)
  \/ \E p \in Palettes : Discard(p)
  \/ ClearChannelSection \/ Reload

Spec == Init /\ [][Next]_vars

\* The dispatcher and the 150 ms ticker keep running, the window closes, and a
\* recall that has begun ends: RecallEngine shows why.
FairSpec ==
  /\ Spec
  /\ WF_vars(Dispatch) /\ WF_vars(LoadOver) /\ WF_vars(Absorb)
  /\ \A r \in Recalls : WF_vars(RecallStep(r))

-----------------------------------------------------------------------------
TypeOK ==
  /\ mirror \in [Addr -> Values]
  /\ pending \in [Addr -> Hands \cup {Desk, None}]
  /\ disp.at \in Addr \cup {None} /\ disp.crossed \in BOOLEAN
  /\ dirty \subseteq Addr /\ brackets \subseteq Recalls /\ loading \in BOOLEAN
  /\ lastRecalled \in Snapshots
  /\ saved \in [Snapshots -> [Addr -> Values \cup {None}]]
  /\ working \in [Palettes -> [Addr -> Values \cup {None}]]
  /\ gate \in Recalls \cup {None} /\ token \in Recalls \cup {None}
  /\ cancelled \subseteq Recalls
  /\ \A r \in Recalls : r \in brackets <=> pc[r] \in {"row", "send", "fade", "close"}
  /\ pairs \in [Recalls -> SUBSET Addr] /\ left \subseteq Hands /\ inputs <= MaxInputs
  /\ stale \subseteq Addr

\* A move belongs to the snapshot that was live when it was made.
MadeOver(h, s) == h \in Hands /\ madeOver[h] = s

(* No palette bleed (palette_tracker.rs:74-82).  What an absorb pass folds  *)
(* into a palette is a move the operator made over a snapshot that links   *)
(* it, never a value of another cue, of a fade, of an undo or of the desk, *)
(* nor a move that was made over another snapshot or has been reverted.    *)
(* Excused: a pass overtaken by the opening of a bracket or by a revert,   *)
(* which checks neither again, and a cell whose value was overwritten      *)
(* outside any bracket since it was marked.                                *)
FoldsOwn ==
  [][\A p \in Palettes, a \in Addr :
       \/ working'[p][a] \in {working[p][a], None}
       \/ \E s \in Snapshots : Links[s][a] = p /\ MadeOver(working'[p][a], s) /\ working'[p][a] \notin reverted
       \/ a \in pass.excused]_vars

(* What auto-save merges into a snapshot is a move made over that snapshot *)
(* (snapshot_engine.rs:475-485: never ramp samples, never a flood).        *)
SavesOwn ==
  [][\A s \in Snapshots, a \in Addr :
       \/ saved'[s][a] = saved[s][a]
       \/ MadeOver(saved'[s][a], s)
       \/ a \in stale]_vars

(* No tweak is lost: what was dirty when a recall of another snapshot      *)
(* entered the gate is in the data of the snapshot it was made over, if    *)
(* that has it in scope, by the time the recall opens its bracket, unless  *)
(* the operator has moved it again or reverted it.  Where a predecessor's  *)
(* bracket was still open it is the predecessor's to save.                 *)
NoneLost ==
  AutoUpdate => \A r \in Recalls, s \in Snapshots : \A a \in Scope[s] :
    (pc[r] = "open" /\ SnapOf[r] \notin {None, s} /\ MadeOver(known[r][a], s))
      => \/ saved[s][a] = known[r][a]
         \/ mirror[a] # known[r][a] \/ known[r][a] \in reverted

(* The overlay follows the operator: from some time on, what is dirty and  *)
(* linked by the live snapshot has its value in the palette's overlay, the *)
(* last one of a sweep included (palette_tracker.rs:50-57).                *)
Settles ==
  <>[](\A a \in dirty : LET p == Links[lastRecalled][a] IN
         p # None /\ mirror[a] \in Hands => working[p][a] = mirror[a])

(* inbound.rs:170-178: "those are the DESK's changes, not the operator's.  *)
(* Without this gate the flood tail lands in the dirty set and the palette *)
(* absorb loop folds it into whichever palette is live."                   *)
NoFlood ==
  [][\A p \in Palettes, a \in Addr :
       \/ working'[p][a] \in {working[p][a], None}
       \/ working'[p][a] # Desk \/ loading]_vars
=============================================================================
