--------------------------- MODULE LiveEdits_proofs --------------------------
(***************************************************************************)
(* The operator's tweaks are neither lost nor put where they do not        *)
(* belong: theorems about LiveEdits for every number of recalls, snapshots,*)
(* palettes, addresses and moves.                                          *)
(*                                                                         *)
(* A move of the operator is mirrored once, over the snapshot that is live *)
(* then.  From there its cell is marked, saved or folded by steps that     *)
(* each look at the tracker under a lock of their own; the invariant says  *)
(* what each of them may still believe of what an earlier one read.        *)
(***************************************************************************)
EXTENDS LiveEdits, TLAPS

PcLabels == {"idle", "queued", "save", "pairs", "merge", "drain", "open", "row", "send",
             "fade", "close", "done"}
PassLabels == {"asleep", "check", "refs", "cells", "values", "fold"}

\* Types of what TypeOK leaves out: the locals and the history.
LocalsOK ==
  /\ disp \in [at : Addr \cup {None}, crossed : BOOLEAN] /\ (disp.at = None => disp = Idle)
  /\ pc \in [Recalls -> PcLabels] /\ prev \in [Recalls -> Snapshots \cup {None}]
  /\ \A r \in Recalls : pc[r] \in {"pairs", "merge"} => prev[r] \in Snapshots
  /\ pass \in [at : PassLabels, snap : Snapshots \cup {None}, cells : SUBSET Addr,
               vals : [Addr -> Values \cup {None}], excused : SUBSET Addr]
  /\ pass.at \in {"cells", "values", "fold"} => pass.snap \in Snapshots
  /\ revert \in [palette : Palettes \cup {None}, at : {"idle", "clear", "reload", "done"}]
  /\ revert.at # "idle" => revert.palette \in Palettes
  /\ inputs \in Nat /\ live \in Snapshots /\ madeOver \in [Hands -> Snapshots \cup {None}]
  /\ reverted \subseteq Hands /\ known \in [Recalls -> [Addr -> Values \cup {None}]]

\* The holder of the gate, and who saves without a bracket being open.
Saving == {"pairs", "merge", "drain"}
Gated == {"save", "open", "row", "send"} \cup Saving
GateOK ==
  \A r \in Recalls :
    /\ pc[r] \in Gated => gate = r
    /\ pc[r] \in Saving => ~Suppressed /\ prev[r] = live

\* The last-recalled pointer names the live snapshot.
LiveOK == lastRecalled = live

\* Every move of the operator is on the control surface, then in one report, then in
\* the mirror at one address; what has been mirrored is not reported again.
OnceOK ==
  /\ \A h \in left : madeOver[h] = None
  /\ \A a \in Addr : pending[a] \in Hands =>
       /\ pending[a] \notin left /\ madeOver[pending[a]] = None
       /\ \A b \in Addr : pending[b] = pending[a] => b = a
  /\ \A a \in Addr : mirror[a] \in Hands =>
       /\ madeOver[mirror[a]] # None
       /\ \A b \in Addr : mirror[b] = mirror[a] => b = a
  /\ \A h \in reverted : madeOver[h] # None

\* A tweak of the operator to the live snapshot, not taken back.
Mine(v, s) == MadeOver(v, s) /\ v \notin reverted

\* The reports of a memory arrive while its window is open; a mark on its way that
\* nothing has come in between is of the operator's move.
DispOK ==
  /\ \A a \in Addr : pending[a] = Desk => loading
  /\ disp # Idle /\ ~disp.crossed =>
       ~Suppressed /\ (Mine(mirror[disp.at], live) \/ (mirror[disp.at] = Desk /\ loading))

\* Outside the brackets a dirty cell has a tweak of the operator, or is known stale.
DirtyOK == ~Suppressed => \A a \in dirty : a \in stale \/ Mine(mirror[a], live)

\* So has a cell that the auto-save or the absorb pass has read as dirty.
SaveOK ==
  \A r \in Recalls : pc[r] = "merge" =>
    \A a \in pairs[r] : a \in stale \/ MadeOver(mirror[a], live)
PassOK ==
  \/ pass.at = "asleep" \/ pass.excused = Addr
  \/ /\ pass.at # "check" => ~Suppressed
     /\ pass.at \in {"cells", "values", "fold"} => pass.snap = live
     /\ pass.at = "values" =>
          \A a \in pass.cells : a \in stale \/ Mine(mirror[a], live)
     /\ pass.at = "fold" => \A a \in Addr :
          pass.vals[a] # None => a \in pass.excused \/ Mine(pass.vals[a], live)

\* What was dirty when a recall came in is on its way into the live snapshot, or the
\* operator has moved on.
Past(h, a) == mirror[a] # h \/ h \in reverted
KnownOK ==
  \A r \in Recalls, a \in Addr : known[r][a] # None =>
    /\ ~Suppressed /\ MadeOver(known[r][a], live)
    /\ pc[r] \in Saving \cup {"save", "open"}
    /\ pc[r] \in {"save", "pairs"} => a \in dirty \/ Past(known[r][a], a)
    /\ pc[r] = "merge" => a \in pairs[r] \/ Past(known[r][a], a)
    /\ /\ pc[r] = "drain" \/ (pc[r] = "open" /\ AutoUpdate /\ SnapOf[r] \notin {None, live})
       /\ a \in Scope[live]
       => saved[live][a] = known[r][a] \/ Past(known[r][a], a)

IInv == /\ TypeOK /\ LocalsOK /\ GateOK /\ LiveOK /\ OnceOK /\ DispOK /\ DirtyOK
        /\ SaveOK /\ PassOK /\ KnownOK

-----------------------------------------------------------------------------
\* A recall sends values of snapshots, or those it takes back to.
LEMMA SendableValues ==
  ASSUME TypeOK, NEW r \in Recalls, NEW v \in Sendable(r)
  PROVE  v \in Values /\ v \notin Hands /\ v # Desk
<1>1. \A q \in Recalls : SnapOf[q] # None => SnapOf[q] \in Snapshots
  BY RecallAssumption
<1>2. Kind[r] \in Kinds /\ (SnapOf[r] = None <=> Kind[r] \in {"rowonly", "undo"})
  BY RecallAssumption
<1>3. CASE Kind[r] = "undo"
  BY <1>3, DistinctAssumption DEF Sendable, Values
<1>4. CASE Kind[r] = "rowonly"
  BY <1>4 DEF Sendable
<1>5. CASE Kind[r] \in {"instant", "timed"}
  <2>1. Sendable(r) = {SnapOf[r]} \cup {SnapOf[q] : q \in {q \in cancelled : SnapOf[q] # None}}
    BY <1>5 DEF Sendable
  <2>2. SnapOf[r] \in Snapshots
    BY <1>1, <1>2, <1>5
  <2>3. v \in Snapshots
    BY <1>1, <2>1, <2>2 DEF TypeOK
  <2>. QED BY <2>3, DistinctAssumption DEF Values
<1>. QED BY <1>2, <1>3, <1>4, <1>5 DEF Kinds

\* The types hold at the start.
LEMMA TypesInit == Init => TypeOK /\ LocalsOK
<1>. SUFFICES ASSUME Init PROVE TypeOK /\ LocalsOK
  OBVIOUS
<1>. USE ShowAssumption DEF Init
<1>1. TypeOK
  <2>1. mirror \in [Addr -> Values] /\ pending \in [Addr -> Hands \cup {Desk, None}]
    BY DEF Values, Empty
  <2>2. /\ saved \in [Snapshots -> [Addr -> Values \cup {None}]]
        /\ working \in [Palettes -> [Addr -> Values \cup {None}]]
    BY DEF Empty
  <2>3. disp.at \in Addr \cup {None} /\ disp.crossed \in BOOLEAN
    BY DEF Idle
  <2>5. \A r \in Recalls : r \in brackets <=> pc[r] \in {"row", "send", "fade", "close"}
    OBVIOUS
  <2>4. /\ dirty \subseteq Addr /\ brackets \subseteq Recalls /\ loading \in BOOLEAN
        /\ lastRecalled \in Snapshots /\ gate \in Recalls \cup {None}
    OBVIOUS
  <2>6. /\ token \in Recalls \cup {None} /\ cancelled \subseteq Recalls
        /\ left \subseteq Hands /\ stale \subseteq Addr
    OBVIOUS
  <2>7. pairs \in [Recalls -> SUBSET Addr]
    OBVIOUS
  <2>8. inputs <= MaxInputs
    OBVIOUS
  <2>. HIDE DEF Init
  <2>. QED BY <2>1, <2>2, <2>3, <2>4, <2>5, <2>6, <2>7, <2>8 DEF TypeOK
<1>2. /\ disp \in [at : Addr \cup {None}, crossed : BOOLEAN]
      /\ revert \in [palette : Palettes \cup {None}, at : {"idle", "clear", "reload", "done"}]
  BY DEF Idle
<1>3. pass \in [at : PassLabels, snap : Snapshots \cup {None}, cells : SUBSET Addr,
                vals : [Addr -> Values \cup {None}], excused : SUBSET Addr]
  BY DEF Asleep, PassLabels
<1>4. LocalsOK
  BY <1>2, <1>3 DEF LocalsOK, Idle, Asleep, Empty, PcLabels
<1>. QED BY <1>1, <1>4

\* The dispatcher and the desk keep them.
LEMMA TypesInput ==
  ASSUME TypeOK, LocalsOK,
         \/ \E a \in Addr : Move(a) \/ MirrorReport(a)
         \/ DeskLoad \/ LoadOver \/ Mark
  PROVE  TypeOK' /\ LocalsOK'
<1>. USE ShowAssumption DEF tracker, data, engine, bounds, history, TypeOK, LocalsOK
<1>1. ASSUME NEW a \in Addr, Move(a) PROVE TypeOK' /\ LocalsOK'
  <2>1. (CHOOSE h \in left : TRUE) \in left
    BY <1>1 DEF Move
  <2>. QED BY <1>1, <2>1 DEF Move, Input
<1>2. ASSUME NEW a \in Addr, MirrorReport(a) PROVE TypeOK' /\ LocalsOK'
  <2>1. mirror' = [mirror EXCEPT ![a] = pending[a]] /\ pending[a] \in Values
    BY <1>2 DEF MirrorReport, Values
  <2>2. disp' \in [at : Addr \cup {None}, crossed : BOOLEAN] /\ (disp'.at = None => disp' = Idle)
    BY <1>2, DistinctAssumption DEF MirrorReport, Idle, Suppressed
  <2>3. madeOver' \in [Hands -> Snapshots \cup {None}]
    <3>1. CASE pending[a] \in Hands
      BY <1>2, <3>1 DEF MirrorReport
    <3>2. CASE pending[a] \notin Hands
      BY <1>2, <3>2 DEF MirrorReport
    <3>. QED BY <3>1, <3>2
  <2>5. stale' \subseteq Addr
    BY <1>2 DEF MirrorReport
  <2>4. pending' \in [Addr -> Hands \cup {Desk, None}]
    BY <1>2 DEF MirrorReport
  <2>. QED BY <1>2, <2>1, <2>2, <2>3, <2>4, <2>5 DEF MirrorReport
<1>3. CASE DeskLoad
  BY <1>3 DEF DeskLoad, Input
<1>4. CASE LoadOver
  BY <1>4 DEF LoadOver
<1>5. CASE Mark
  <2>1. disp' = Idle /\ disp.at \in Addr
    BY <1>5 DEF Mark
  <2>. QED BY <1>5, <2>1 DEF Mark, Idle
<1>. QED BY <1>1, <1>2, <1>3, <1>4, <1>5

\* A recall that goes on leaves the others where they are, and inside a bracket
\* or outside as it was, unless it opens or closes its own.
LEMMA GotoTypes ==
  ASSUME LocalsOK, NEW r \in Recalls, NEW l \in PcLabels, Goto(r, l)
  PROVE  /\ pc' \in [Recalls -> PcLabels] /\ pc'[r] = l
         /\ \A q \in Recalls : q # r => pc'[q] = pc[q]
BY DEF LocalsOK, Goto

\* So do the recalls.
LEMMA TypesRecall ==
  ASSUME TypeOK, LocalsOK, NEW r \in Recalls, Begin(r) \/ RecallStep(r) \/ Send(r)
  PROVE  TypeOK' /\ LocalsOK'
<1>. USE ShowAssumption DEF tracker, data, engine, bounds, history, TypeOK, LocalsOK, Goto,
         PcLabels
<1>1. CASE Begin(r)
  BY <1>1 DEF Begin
<1>2. CASE Enter(r)
  <2>1. /\ pc' \in [Recalls -> PcLabels]
        /\ \A q \in Recalls : pc'[q] \in {"pairs", "merge"} => prev[q] \in Snapshots
        /\ \A q \in Recalls : pc'[q] \in {"row", "send", "fade", "close"}
                            <=> pc[q] \in {"row", "send", "fade", "close"}
    <3>1. pc[r] = "queued" /\ \E l \in {"done", "open", "save"} : Goto(r, l)
      BY <1>2 DEF Enter
    <3>2. PICK l \in {"done", "open", "save"} : Goto(r, l)
      BY <3>1
    <3>. QED BY <3>1, <3>2, GotoTypes
  <2>2. gate' \in Recalls \cup {None}
    BY <1>2 DEF Enter
  <2>3. known' \in [Recalls -> [Addr -> Values \cup {None}]]
    <3> DEFINE d == [a \in Addr |-> IF a \in dirty \ stale /\ ~Suppressed THEN mirror[a] ELSE None]
    <3>1. d \in [Addr -> Values \cup {None}]
      OBVIOUS
    <3>2. known' = known \/ known' = [known EXCEPT ![r] = d]
      BY <1>2 DEF Enter
    <3>. HIDE DEF d
    <3>. QED BY <3>1, <3>2
  <2>. QED BY <1>2, <2>1, <2>2, <2>3 DEF Enter
<1>3. CASE SaveCheck(r)
  BY <1>3 DEF SaveCheck
<1>4. CASE SavePairs(r)
  BY <1>4 DEF SavePairs
<1>5. CASE SaveMerge(r)
  <2>1. prev[r] \in Snapshots
    BY <1>5 DEF SaveMerge
  <2>2. saved' \in [Snapshots -> [Addr -> Values \cup {None}]]
    BY <1>5, <2>1 DEF SaveMerge
  <2>. QED BY <1>5, <2>2 DEF SaveMerge
<1>6. CASE SaveDrain(r)
  BY <1>6 DEF SaveDrain
<1>7. CASE Open(r)
  <2>1. /\ disp' \in [at : Addr \cup {None}, crossed : BOOLEAN]
        /\ disp'.at = None => disp' = Idle
    BY <1>7 DEF Open, Cross, Idle
  <2>2. /\ pass' \in [at : PassLabels, snap : Snapshots \cup {None}, cells : SUBSET Addr,
                      vals : [Addr -> Values \cup {None}], excused : SUBSET Addr]
        /\ pass'.at = pass.at /\ pass'.snap = pass.snap
    BY <1>7 DEF Open, Excuse
  <2>. QED BY <1>7, <2>1, <2>2 DEF Open, Empty
<1>8. CASE FireRow(r)
  <2>1. loading' \in BOOLEAN /\ pending' \in [Addr -> Hands \cup {Desk, None}]
    <3>1. CASE UNCHANGED <<loading, pending>>
      BY <3>1
    <3>2. ASSUME loading' = TRUE,
                 pending' = [a \in Addr |-> IF a \in Memory THEN Desk ELSE pending[a]]
          PROVE  loading' \in BOOLEAN /\ pending' \in [Addr -> Hands \cup {Desk, None}]
      <4>1. \A a \in Addr : pending[a] \in Hands \cup {Desk, None}
        OBVIOUS
      <4>. QED BY <3>2, <4>1
    <3>. QED BY <1>8, <3>1, <3>2 DEF FireRow
  <2>2. pc' \in [Recalls -> PcLabels]
        /\ (\A q \in Recalls : pc'[q] \in {"pairs", "merge"} => prev[q] \in Snapshots)
        /\ \A q \in Recalls : pc'[q] \in {"row", "send", "fade", "close"}
                            <=> pc[q] \in {"row", "send", "fade", "close"}
    BY <1>8, GotoTypes DEF FireRow
  <2>. QED BY <1>8, <2>1, <2>2 DEF FireRow
<1>9. CASE Send(r)
  BY <1>9, SendableValues DEF Send
<1>10. CASE ReleaseGate(r)
  BY <1>10 DEF ReleaseGate
<1>11. CASE Finish(r)
  <2>1. lastRecalled' \in Snapshots /\ live' \in Snapshots
    <3>1. SnapOf[r] = None \/ SnapOf[r] \in Snapshots
      BY RecallAssumption
    <3>. QED BY <1>11, <3>1 DEF Finish
  <2>2. pc' \in [Recalls -> PcLabels]
        /\ (\A q \in Recalls : pc'[q] \in {"pairs", "merge"} => prev[q] \in Snapshots)
        /\ \A q \in Recalls : pc'[q] \in {"row", "send", "fade", "close"}
                            <=> pc[q] \in {"row", "send", "fade", "close"}
    BY <1>11, GotoTypes DEF Finish
  <2>. QED BY <1>11, <2>1, <2>2 DEF Finish
<1>12. CASE Close(r)
  BY <1>12 DEF Close
<1>. QED BY <1>1, <1>2, <1>3, <1>4, <1>5, <1>6, <1>7, <1>8, <1>9, <1>10, <1>11, <1>12
         DEF RecallStep

\* The locals of an absorb pass.
PassType == [at : PassLabels, snap : Snapshots \cup {None}, cells : SUBSET Addr,
             vals : [Addr -> Values \cup {None}], excused : SUBSET Addr]

\* A value that a pass folds, or nothing.
LEMMA SetWorkingType ==
  ASSUME TypeOK, NEW p \in Palettes, NEW a \in Addr, NEW v \in Values \cup {None}
  PROVE  SetWorking(p, a, v) \in Values \cup {None}
<1>1. v \in Snapshots => Links[v][a] \in Palettes \cup {None}
  BY ShowAssumption
<1>2. working[p][a] \in Values \cup {None}
  BY DEF TypeOK
<1>. QED BY <1>1, <1>2 DEF SetWorking

\* The absorb loop keeps the types.
LEMMA TypesAbsorb == TypeOK /\ LocalsOK /\ Absorb => TypeOK' /\ LocalsOK'
<1>. SUFFICES ASSUME TypeOK, LocalsOK, Absorb PROVE TypeOK' /\ LocalsOK'
  OBVIOUS
<1>. DEFINE Fits(w) == w \in PassType /\ (w.at \in {"cells", "values", "fold"} => w.snap \in Snapshots)
<1>1. Fits(pass)
  BY DEF LocalsOK, PassType
<1>2. Fits(Asleep)
  BY DEF PassType, PassLabels, Asleep
<1>3. lastRecalled \in Snapshots /\ dirty \subseteq Addr /\ stale \subseteq Addr
      /\ mirror \in [Addr -> Values]
  BY DEF TypeOK
<1>4. ASSUME Fits(pass'), working' \in [Palettes -> [Addr -> Values \cup {None}]],
             UNCHANGED NotThePass
      PROVE  TypeOK' /\ LocalsOK'
  <2>. USE DEF NotThePass, tracker, engine, bounds, history
  <2>1. TypeOK'
    BY <1>4 DEF TypeOK
  <2>2. LocalsOK'
    BY <1>4 DEF LocalsOK, PassType
  <2>. QED BY <2>1, <2>2
<1>5. UNCHANGED NotThePass
  BY DEF Absorb, Tick, AbsorbCheck, AbsorbRefs, AbsorbCells, AbsorbValues, AbsorbFold
<1>6. working' \in [Palettes -> [Addr -> Values \cup {None}]]
  <2>1. CASE UNCHANGED working
    BY <2>1 DEF TypeOK
  <2>2. CASE AbsorbFold
    <3>1. \A p \in Palettes, a \in Addr :
            /\ SetWorking(p, a, pass.vals[a]) \in Values \cup {None}
            /\ working[p][a] \in Values \cup {None}
      BY <1>1, SetWorkingType DEF PassType, TypeOK
    <3>. QED BY <2>2, <3>1 DEF AbsorbFold
  <2>. QED BY <2>1, <2>2 DEF Absorb, Tick, AbsorbCheck, AbsorbRefs, AbsorbCells, AbsorbValues
<1>7. Fits(pass')
  <2>1. CASE Tick
    BY <1>1, <2>1 DEF Tick, PassGoto, PassType, PassLabels
  <2>2. CASE AbsorbCheck
    BY <1>1, <1>2, <2>2 DEF AbsorbCheck, PassGoto, PassType, PassLabels
  <2>3. CASE AbsorbRefs
    BY <1>1, <1>2, <1>3, <2>3 DEF AbsorbRefs, PassType, PassLabels
  <2>4. CASE AbsorbCells
    BY <1>1, <1>2, <1>3, <2>4 DEF AbsorbCells, PassType, PassLabels
  <2>5. CASE AbsorbValues
    <3>. DEFINE linked == {a \in pass.cells : Links[pass.snap][a] # None}
    <3>1. [a \in Addr |-> IF a \in linked THEN mirror[a] ELSE None] \in [Addr -> Values \cup {None}]
      BY <1>3
    <3>2. pass' = Asleep \/ pass' = [pass EXCEPT !.at = "fold", !.excused = @ \cup stale,
             !.vals = [a \in Addr |-> IF a \in linked THEN mirror[a] ELSE None]]
      BY <2>5 DEF AbsorbValues
    <3>3. pass.at = "values"
      BY <2>5 DEF AbsorbValues
    <3>. QED BY <1>1, <1>2, <1>3, <3>1, <3>2, <3>3 DEF PassType, PassLabels
  <2>6. CASE AbsorbFold
    BY <1>2, <2>6 DEF AbsorbFold
  <2>. QED BY <2>1, <2>2, <2>3, <2>4, <2>5, <2>6 DEF Absorb
<1>. QED BY <1>4, <1>5, <1>6, <1>7

\* So does a palette's revert.
LEMMA TypesRevert ==
  ASSUME TypeOK, LocalsOK, (\E p \in Palettes : Discard(p)) \/ ClearChannelSection \/ Reload
  PROVE  TypeOK' /\ LocalsOK'
<1>. USE DEF tracker, engine, bounds, history, data
<1>1. ASSUME Cross PROVE disp' \in [at : Addr \cup {None}, crossed : BOOLEAN] /\ (disp'.at = None => disp' = Idle)
                         /\ disp'.at = disp.at
  BY <1>1 DEF Cross, Idle, LocalsOK
<1>2. ASSUME Excuse PROVE pass' \in PassType /\ pass'.at = pass.at /\ pass'.snap = pass.snap
  BY <1>2 DEF Excuse, PassType, LocalsOK
<1>3. ASSUME NEW p \in Palettes, Discard(p) PROVE TypeOK' /\ LocalsOK'
  <2>1. working' \in [Palettes -> [Addr -> Values \cup {None}]]
    BY <1>3 DEF Discard, TypeOK, Empty
  <2>2. revert' \in [palette : Palettes \cup {None}, at : {"idle", "clear", "reload", "done"}]
        /\ (revert'.at # "idle" => revert'.palette \in Palettes)
    BY <1>3 DEF Discard
  <2>3. inputs' \in Nat /\ inputs' <= MaxInputs
    BY <1>3, ShowAssumption DEF Discard, Input, LocalsOK
  <2>4. TypeOK'
    BY <1>3, <2>1, <2>3 DEF Discard, TypeOK
  <2>5. Excuse
    BY <1>3 DEF Discard
  <2>6. LocalsOK'
    BY <1>2, <1>3, <2>2, <2>3, <2>5 DEF Discard, LocalsOK, PassType
  <2>. QED BY <2>4, <2>6
<1>4. CASE ClearChannelSection
  <2>1. reverted' \subseteq Hands /\ dirty' \subseteq Addr
    BY <1>4 DEF ClearChannelSection, TypeOK, LocalsOK
  <2>2. /\ revert' \in [palette : Palettes \cup {None}, at : {"idle", "clear", "reload", "done"}]
        /\ revert'.at # "idle" => revert'.palette \in Palettes
    BY <1>4 DEF ClearChannelSection, LocalsOK
  <2>3. Cross /\ Excuse
    BY <1>4 DEF ClearChannelSection
  <2>4. TypeOK'
    BY <1>1, <1>4, <2>1, <2>3 DEF ClearChannelSection, TypeOK
  <2>5. LocalsOK'
    BY <1>1, <1>2, <1>4, <2>1, <2>2, <2>3 DEF ClearChannelSection, LocalsOK, PassType
  <2>. QED BY <2>4, <2>5
<1>5. CASE Reload
  <2>1. revert.palette \in Palettes
    BY <1>5 DEF Reload, LocalsOK
  <2>2. mirror' \in [Addr -> Values]
    BY <1>5, <2>1 DEF Reload, TypeOK, Values
  <2>3. stale' \subseteq Addr
    BY <1>5 DEF Reload, TypeOK, CellsOf
  <2>4. /\ revert' \in [palette : Palettes \cup {None}, at : {"idle", "clear", "reload", "done"}]
        /\ revert'.at # "idle" => revert'.palette \in Palettes
    BY <1>5, <2>1 DEF Reload, LocalsOK
  <2>5. Cross
    BY <1>5 DEF Reload
  <2>6. TypeOK'
    BY <1>1, <1>5, <2>2, <2>3, <2>5 DEF Reload, TypeOK
  <2>7. LocalsOK'
    BY <1>1, <1>5, <2>4, <2>5 DEF Reload, LocalsOK
  <2>. QED BY <2>6, <2>7
<1>. QED BY <1>3, <1>4, <1>5

\* And a step that changes nothing.
LEMMA TypesStutter == TypeOK /\ LocalsOK /\ UNCHANGED vars => TypeOK' /\ LocalsOK'
BY DEF vars, tracker, data, engine, bounds, history, TypeOK, LocalsOK

\* The types are an invariant of the step.
LEMMA TypesNext == TypeOK /\ LocalsOK /\ [Next]_vars => TypeOK' /\ LocalsOK'
BY TypesInput, TypesRecall, TypesAbsorb, TypesRevert, TypesStutter DEF Next, Dispatch

\* The variables keep their types.
THEOREM TypeCorrect == Spec => []TypeOK
BY TypesInit, TypesNext, PTL DEF Spec

-----------------------------------------------------------------------------
\* The labels of a recall in its bracket.
Bracketed == {"row", "send", "fade", "close"}

\* Whoever is in its bracket suppresses the marks; who is not has none.
LEMMA InBracket ==
  ASSUME TypeOK, NEW r \in Recalls, pc[r] \in Bracketed
  PROVE  Suppressed
BY DEF TypeOK, Bracketed, Suppressed

\* What is not a step of a recall leaves the gate, the brackets and the pointer alone.
Outside == \/ \E a \in Addr : Move(a) \/ MirrorReport(a)
           \/ DeskLoad \/ LoadOver \/ Mark \/ Absorb
           \/ \E p \in Palettes : Discard(p)
           \/ ClearChannelSection \/ Reload \/ (\E r \in Recalls : Send(r)) \/ UNCHANGED vars

\* The gate, the tokens, the locals, the brackets and the pointer are the recalls' own.
LEMMA OutsideFrame ==
  Outside => UNCHANGED <<engine, brackets, live, lastRecalled, known>>
<1>. USE DEF Outside, engine, tracker, data, bounds, history
<1>1. CASE Absorb
  BY <1>1 DEF Absorb, Tick, AbsorbCheck, AbsorbRefs, AbsorbCells, AbsorbValues, AbsorbFold,
              NotThePass
<1>2. ASSUME NEW a \in Addr, Move(a) \/ MirrorReport(a)
      PROVE  UNCHANGED <<engine, brackets, live, lastRecalled, known>>
  BY <1>2 DEF Move, MirrorReport
<1>3. CASE DeskLoad \/ LoadOver \/ Mark
  BY <1>3 DEF DeskLoad, LoadOver, Mark
<1>4. ASSUME NEW p \in Palettes, Discard(p)
      PROVE  UNCHANGED <<engine, brackets, live, lastRecalled, known>>
  BY <1>4 DEF Discard
<1>5. CASE ClearChannelSection \/ Reload
  BY <1>5 DEF ClearChannelSection, Reload
<1>6. ASSUME NEW r \in Recalls, Send(r)
      PROVE  UNCHANGED <<engine, brackets, live, lastRecalled, known>>
  BY <1>6 DEF Send
<1>7. CASE UNCHANGED vars
  BY <1>7 DEF vars
<1>. QED BY <1>1, <1>2, <1>3, <1>4, <1>5, <1>6, <1>7

\* Every step is one of those or a step of one recall.
LEMMA NextCases ==
  ASSUME [Next]_vars
  PROVE  Outside \/ \E r \in Recalls : Begin(r) \/ RecallStep(r)
BY DEF Next, Dispatch, Outside

\* The gate has one holder, and nobody saves while a bracket is open.
LEMMA GateNext ==
  ASSUME TypeOK, LocalsOK, GateOK, LiveOK, [Next]_vars
  PROVE  GateOK'
<1>. USE DEF GateOK, Gated, Saving
<1>1. CASE Outside
  <2>1. UNCHANGED <<pc, gate, prev, brackets, live>>
    BY <1>1, OutsideFrame DEF engine
  <2>. QED BY <2>1 DEF Suppressed
<1>2. ASSUME NEW r \in Recalls, Begin(r) \/ RecallStep(r)
      PROVE  GateOK'
  <2>. USE DEF tracker, data, history, Suppressed
  <2>1. ASSUME NEW l \in PcLabels, Goto(r, l)
        PROVE  pc'[r] = l /\ \A q \in Recalls : q # r => pc'[q] = pc[q]
    BY <2>1, GotoTypes
  <2>. USE DEF PcLabels
  <2>2. CASE Begin(r)
    BY <2>1, <2>2 DEF Begin
  <2>3. CASE Enter(r)
    <3>1. \E l \in {"done", "open", "save"} : Goto(r, l) /\ (l # "done" => gate' = r) /\ (l = "done" => gate' = gate)
      BY <2>3 DEF Enter
    <3>2. UNCHANGED <<brackets, live, prev>> /\ gate = None
      BY <2>3 DEF Enter
    <3>3. \A q \in Recalls : pc[q] \notin Gated
      BY <3>2, DistinctAssumption
    <3>. QED BY <2>1, <3>1, <3>2, <3>3
  <2>4. CASE SaveCheck(r)
    <3>1. pc[r] = "save" /\ gate = r /\ UNCHANGED <<brackets, live, gate>>
      BY <2>4 DEF SaveCheck
    <3>2. \A q \in Recalls : q # r => pc[q] \notin Gated
      BY <3>1
    <3>3. \/ Goto(r, "open")
          \/ Goto(r, "pairs") /\ brackets = {}
      BY <2>4 DEF SaveCheck
    <3>4. prev'[r] = live
      BY <2>4 DEF SaveCheck, LiveOK, LocalsOK
    <3>. QED BY <2>1, <3>1, <3>2, <3>3, <3>4
  <2>5. CASE SavePairs(r)
    BY <2>1, <2>5 DEF SavePairs
  <2>6. CASE SaveMerge(r)
    BY <2>1, <2>6 DEF SaveMerge
  <2>7. CASE SaveDrain(r)
    BY <2>1, <2>7 DEF SaveDrain
  <2>8. CASE Open(r)
    <3>1. pc[r] = "open" /\ gate = r /\ gate' = gate /\ live' = live
      BY <2>8 DEF Open
    <3>2. \A q \in Recalls : q # r => pc[q] \notin Gated
      BY <3>1
    <3>3. pc'[r] \in {"row", "send"} /\ \A q \in Recalls : q # r => pc'[q] = pc[q]
      BY <2>1, <2>8 DEF Open
    <3>. QED BY <3>1, <3>2, <3>3
  <2>9. CASE FireRow(r)
    <3>1. UNCHANGED <<gate, brackets, prev, live>> /\ pc[r] = "row" /\ Goto(r, "send")
      BY <2>9 DEF FireRow
    <3>. QED BY <2>1, <3>1
  <2>10. CASE ReleaseGate(r)
    <3>1. pc[r] = "send" /\ gate = r /\ Goto(r, "fade") /\ UNCHANGED <<prev, brackets, live>>
      BY <2>10 DEF ReleaseGate
    <3>2. \A q \in Recalls : q # r => pc[q] \notin Gated
      BY <3>1
    <3>. QED BY <2>1, <3>1, <3>2
  <2>11. CASE Finish(r)
    <3>1. pc[r] \in {"send", "fade"} /\ Goto(r, "close") /\ UNCHANGED <<gate, prev, brackets>>
      BY <2>11 DEF Finish
    <3>2. \A q \in Recalls : pc[q] \notin Saving
      BY <3>1, InBracket DEF Bracketed
    <3>. QED BY <2>1, <3>1, <3>2
  <2>12. CASE Close(r)
    <3>1. pc[r] = "close" /\ Goto(r, "done") /\ gate' = (IF gate = r THEN None ELSE gate)
          /\ UNCHANGED <<prev, live>>
      BY <2>12 DEF Close
    <3>2. \A q \in Recalls : pc[q] \notin Saving
      BY <3>1, InBracket DEF Bracketed
    <3>. QED BY <2>1, <3>1, <3>2
  <2>. QED BY <1>2, <2>2, <2>3, <2>4, <2>5, <2>6, <2>7, <2>8, <2>9, <2>10, <2>11, <2>12
           DEF RecallStep
<1>. QED BY <1>1, <1>2, NextCases

\* The pointer and the live snapshot move together.
LEMMA LiveNext == LiveOK /\ [Next]_vars => LiveOK'
<1>. SUFFICES ASSUME LiveOK, [Next]_vars PROVE LiveOK'
  OBVIOUS
<1>1. CASE Outside
  BY <1>1, OutsideFrame DEF LiveOK
<1>2. ASSUME NEW r \in Recalls, Begin(r) \/ RecallStep(r)
      PROVE  LiveOK'
  BY <1>2 DEF LiveOK, RecallStep, Begin, Enter, SaveCheck, SavePairs, SaveMerge, SaveDrain,
              Open, FireRow, ReleaseGate, Finish, Close, data, history
<1>. QED BY <1>1, <1>2, NextCases

-----------------------------------------------------------------------------
\* A recall moves nobody's hands: it leaves the mirror and the history of the moves,
\* and all it reports is the memory of its row.
LEMMA RecallFrame ==
  ASSUME TypeOK, NEW r \in Recalls, Begin(r) \/ RecallStep(r)
  PROVE  /\ UNCHANGED <<mirror, left, madeOver, reverted>>
         /\ \A a \in Addr : pending'[a] \in {pending[a], Desk}
<1>. USE DEF bounds, history, tracker, data, engine
<1>1. CASE FireRow(r)
  BY <1>1 DEF FireRow, TypeOK
<1>2. CASE ~FireRow(r)
  BY <1>2 DEF RecallStep, Begin, Enter, SaveCheck, SavePairs, SaveMerge, SaveDrain, Open,
              ReleaseGate, Finish, Close
<1>. QED BY <1>1, <1>2

\* Reports on their way are of moves not mirrored yet, or of the desk.
LEMMA MoveNotMade ==
  ASSUME TypeOK, LocalsOK, OnceOK, NEW a \in Addr, pending[a] # None
  PROVE  \/ pending[a] = Desk /\ Desk \notin Hands
         \/ pending[a] \in Hands /\ madeOver[pending[a]] = None /\ pending[a] \notin reverted
BY DistinctAssumption DEF TypeOK, OnceOK

\* Once mirrored, a move belongs to the same snapshot for good.
LEMMA MadeOnce ==
  ASSUME TypeOK, LocalsOK, OnceOK, [Next]_vars
  PROVE  \A h \in Hands : madeOver[h] # None => madeOver'[h] = madeOver[h]
<1>1. ASSUME NEW a \in Addr, MirrorReport(a)
      PROVE  \A h \in Hands : madeOver[h] # None => madeOver'[h] = madeOver[h]
  <2>1. \/ pending[a] \in Hands /\ madeOver[pending[a]] = None
             /\ madeOver' = [madeOver EXCEPT ![pending[a]] = live]
        \/ madeOver' = madeOver
    BY <1>1, MoveNotMade DEF MirrorReport
  <2>. QED BY <2>1 DEF LocalsOK
<1>2. CASE ~\E a \in Addr : MirrorReport(a)
  <2>1. CASE Outside
    BY <1>2, <2>1 DEF Outside, Move, DeskLoad, LoadOver, Mark, Absorb, Tick, AbsorbCheck,
       AbsorbRefs, AbsorbCells, AbsorbValues, AbsorbFold, NotThePass, Discard,
       ClearChannelSection, Reload, Send, vars, history
  <2>. QED BY <2>1, NextCases, RecallFrame
<1>. QED BY <1>1, <1>2

\* Every move is in one place at a time.
LEMMA OnceInit == Init => OnceOK
<1>. SUFFICES ASSUME Init PROVE OnceOK
  OBVIOUS
<1>1. \A a \in Addr : mirror[a] \notin Hands /\ pending[a] \notin Hands
  BY ShowAssumption, DistinctAssumption DEF Init, Empty, Values
<1>2. \A h \in Hands : madeOver[h] = None
  BY DEF Init
<1>3. left = Hands /\ reverted = {}
  BY DEF Init
<1>. QED BY <1>1, <1>2, <1>3 DEF OnceOK

\* No step gives a move a second place.
LEMMA OnceNext ==
  ASSUME TypeOK, LocalsOK, OnceOK, [Next]_vars
  PROVE  OnceOK'
<1>. USE DEF history, tracker, data, engine, bounds
<1>1. ASSUME NEW a \in Addr, Move(a) PROVE OnceOK'
  <2>1. PICK h \in left : pending' = [pending EXCEPT ![a] = h] /\ left' = left \ {h}
    BY <1>1 DEF Move
  <2>2. UNCHANGED <<mirror, madeOver, reverted>> /\ left \subseteq Hands
    BY <1>1 DEF Move, TypeOK
  <2>3. \A b \in Addr : pending'[b] = (IF b = a THEN h ELSE pending[b])
    BY <2>1 DEF TypeOK
  <2>. QED BY <2>1, <2>2, <2>3 DEF OnceOK
<1>2. ASSUME NEW a \in Addr, MirrorReport(a) PROVE OnceOK'
  <2>1. /\ UNCHANGED <<left, reverted>>
        /\ \A b \in Addr : pending'[b] = (IF b = a THEN None ELSE pending[b])
        /\ \A b \in Addr : mirror'[b] = (IF b = a THEN pending[a] ELSE mirror[b])
    BY <1>2 DEF MirrorReport, TypeOK
  <2>2. None \notin Hands
    BY DistinctAssumption DEF Values
  <2>3. CASE pending[a] \in Hands
    <3>1. \A h \in Hands : madeOver'[h] = (IF h = pending[a] THEN live ELSE madeOver[h])
      BY <1>2, <2>3 DEF MirrorReport, LocalsOK
    <3>2. live # None /\ madeOver[pending[a]] = None
      BY <2>3, DistinctAssumption DEF LocalsOK, Values, OnceOK
    <3>3. \A h \in left' : madeOver'[h] = None
      BY <2>1, <2>3, <3>1 DEF OnceOK, TypeOK
    <3>4. \A b \in Addr : pending'[b] \in Hands =>
            /\ pending'[b] \notin left' /\ madeOver'[pending'[b]] = None
            /\ \A c \in Addr : pending'[c] = pending'[b] => c = b
      BY <2>1, <2>2, <2>3, <3>1 DEF OnceOK
    <3>5. \A b \in Addr : mirror'[b] \in Hands =>
            /\ madeOver'[mirror'[b]] # None
            /\ \A c \in Addr : mirror'[c] = mirror'[b] => c = b
      BY <2>1, <2>3, <3>1, <3>2 DEF OnceOK
    <3>6. \A h \in reverted' : madeOver'[h] # None
      BY <2>1, <3>1, <3>2 DEF OnceOK, LocalsOK
    <3>. QED BY <3>3, <3>4, <3>5, <3>6 DEF OnceOK
  <2>4. CASE pending[a] \notin Hands
    <3>1. madeOver' = madeOver
      BY <1>2, <2>4 DEF MirrorReport
    <3>. QED BY <2>1, <2>2, <2>4, <3>1 DEF OnceOK
  <2>. QED BY <2>3, <2>4
<1>3. CASE DeskLoad
  <2>1. UNCHANGED <<mirror, left, madeOver, reverted>>
    BY <1>3 DEF DeskLoad
  <2>2. \A b \in Addr : pending'[b] \in {pending[b], Desk}
    BY <1>3 DEF DeskLoad
  <2>. QED BY <2>1, <2>2, DistinctAssumption DEF OnceOK
<1>4. ASSUME NEW r \in Recalls, Begin(r) \/ RecallStep(r) PROVE OnceOK'
  BY <1>4, RecallFrame, DistinctAssumption DEF OnceOK
<1>5. ASSUME NEW r \in Recalls, Send(r) PROVE OnceOK'
  <2>1. UNCHANGED <<pending, left, madeOver, reverted>>
    BY <1>5 DEF Send
  <2>2. \A b \in Addr : mirror'[b] = mirror[b] \/ mirror'[b] \notin Hands
    BY <1>5, SendableValues DEF Send, TypeOK
  <2>. QED BY <2>1, <2>2 DEF OnceOK
<1>6. CASE ClearChannelSection
  <2>1. UNCHANGED <<mirror, pending, left, madeOver>>
    BY <1>6 DEF ClearChannelSection
  <2>2. \A h \in reverted' : h \in reverted \/ \E a \in Addr : h = mirror[a] /\ h \in Hands
    BY <1>6 DEF ClearChannelSection, CellsOf
  <2>. QED BY <2>1, <2>2 DEF OnceOK
<1>7. CASE Reload
  <2>1. UNCHANGED <<pending, left, madeOver, reverted>>
    BY <1>7 DEF Reload
  <2>2. revert.palette \in Palettes
    BY <1>7 DEF Reload, LocalsOK
  <2>3. \A b \in Addr : mirror'[b] = mirror[b] \/ mirror'[b] \notin Hands
    BY <1>7, <2>2, DistinctAssumption DEF Reload
  <2>. QED BY <2>1, <2>3 DEF OnceOK
<1>8. CASE UNCHANGED <<mirror, pending, left, madeOver, reverted>>
  BY <1>8 DEF OnceOK
<1>9. LoadOver \/ Mark \/ Absorb \/ (\E p \in Palettes : Discard(p)) \/ UNCHANGED vars
        => UNCHANGED <<mirror, pending, left, madeOver, reverted>>
  BY DEF LoadOver, Mark, Absorb, Tick, AbsorbCheck, AbsorbRefs, AbsorbCells, AbsorbValues,
         AbsorbFold, NotThePass, Discard, vars
<1>. QED BY <1>1, <1>2, <1>3, <1>4, <1>5, <1>6, <1>7, <1>8, <1>9, NextCases DEF Outside

-----------------------------------------------------------------------------
\* A tweak remains one of its snapshot.
LEMMA MadeOverStays ==
  ASSUME TypeOK, LocalsOK, OnceOK, [Next]_vars, NEW s \in Snapshots, NEW v, MadeOver(v, s)
  PROVE  MadeOver(v, s)'
<1>1. s # None
  BY DistinctAssumption DEF Values
<1>. QED BY <1>1, MadeOnce DEF MadeOver

\* What is mirrored is a tweak of the live snapshot, or a memory's.
LEMMA MirrorReportMine ==
  ASSUME TypeOK, LocalsOK, OnceOK, NEW a \in Addr, MirrorReport(a)
  PROVE  /\ mirror'[a] = pending[a] /\ UNCHANGED <<live, reverted, brackets, loading, dirty>>
         /\ \A b \in Addr : b # a => mirror'[b] = mirror[b]
         /\ \/ pending[a] = Desk /\ stale' = stale \cup ({a} \cap Marked)
            \/ Mine(mirror[a], live)' /\ stale' = stale \ {a}
<1>1. /\ mirror'[a] = pending[a] /\ UNCHANGED <<live, reverted, brackets, loading, dirty>>
      /\ \A b \in Addr : b # a => mirror'[b] = mirror[b]
  BY DEF MirrorReport, TypeOK, tracker
<1>2. CASE pending[a] \in Hands
  <2>1. madeOver'[pending[a]] = live /\ stale' = stale \ {a}
    BY <1>2 DEF MirrorReport, LocalsOK
  <2>2. pending[a] \notin reverted
    BY <1>2 DEF OnceOK
  <2>. QED BY <1>1, <1>2, <2>1, <2>2 DEF Mine, MadeOver
<1>3. CASE pending[a] \notin Hands
  <2>1. pending[a] = Desk
    BY <1>3 DEF MirrorReport, TypeOK
  <2>. QED BY <1>1, <1>3, <2>1 DEF MirrorReport
<1>. QED BY <1>2, <1>3

\* A mark on its way is of the operator's move, or something has come in between.
LEMMA DispInit == Init => DispOK
<1>1. Desk # None
  BY DistinctAssumption DEF Values
<1>. QED BY <1>1 DEF Init, DispOK, Empty

\* Whatever comes in between the mirror and the mark crosses the mark.
LEMMA DispNext ==
  ASSUME TypeOK, LocalsOK, OnceOK, DispOK, [Next]_vars
  PROVE  DispOK'
<1>. USE DEF history, tracker, data, engine, bounds
<1>. DEFINE Uncrossed == disp # Idle /\ ~disp.crossed
            Own == ~Suppressed /\ (Mine(mirror[disp.at], live) \/ (mirror[disp.at] = Desk /\ loading))
<1>1. Uncrossed => Own
  BY DEF DispOK
<1>2. \A a \in Addr : pending[a] = Desk => loading
  BY DEF DispOK
<1>3. ASSUME Cross PROVE ~Uncrossed'
  BY <1>3 DEF Cross, LocalsOK, Idle
<1>4. disp # Idle => disp.at \in Addr
  BY DEF LocalsOK
<1>5. Desk # None /\ Desk \notin Hands
  BY DistinctAssumption DEF Values
<1>6. ASSUME NEW a \in Addr, Move(a) PROVE DispOK'
  <2>1. PICK h \in left : pending' = [pending EXCEPT ![a] = h]
    BY <1>6 DEF Move
  <2>2. \A b \in Addr : pending'[b] = Desk => pending[b] = Desk
    BY <1>5, <2>1 DEF TypeOK
  <2>3. UNCHANGED <<mirror, disp, brackets, loading, live, madeOver, reverted>>
    BY <1>6 DEF Move
  <2>. QED BY <1>1, <1>2, <2>2, <2>3 DEF DispOK, Mine, MadeOver, Suppressed
<1>7. ASSUME NEW a \in Addr, MirrorReport(a) PROVE DispOK'
  <2>1. \A b \in Addr : pending'[b] = Desk => pending[b] = Desk
    BY <1>5, <1>7 DEF MirrorReport, TypeOK
  <2>2. disp' = Idle \/ (disp'.at = a /\ disp'.crossed = Suppressed)
    BY <1>7 DEF MirrorReport
  <2>3. Mine(mirror[a], live)' \/ (mirror'[a] = Desk /\ loading)
    BY <1>2, <1>7, MirrorReportMine
  <2>4. UNCHANGED <<brackets, loading>>
    BY <1>7, MirrorReportMine
  <2>. QED BY <1>2, <2>1, <2>2, <2>3, <2>4 DEF DispOK, Suppressed, Idle
<1>8. CASE DeskLoad
  <2>1. loading' /\ UNCHANGED <<mirror, disp, brackets, live, madeOver, reverted>>
    BY <1>8 DEF DeskLoad
  <2>. QED BY <1>1, <2>1 DEF DispOK, Mine, MadeOver, Suppressed
<1>9. CASE LoadOver
  <2>1. /\ \A a \in Addr : pending[a] # Desk
        /\ disp.at # None => mirror[disp.at] # Desk
        /\ UNCHANGED <<pending, mirror, disp, brackets, live, madeOver, reverted>>
    BY <1>9 DEF LoadOver
  <2>2. disp # Idle => disp.at # None
    BY DEF LocalsOK
  <2>. QED BY <1>1, <2>1, <2>2 DEF DispOK, Mine, MadeOver, Suppressed
<1>10. CASE Mark
  <2>1. disp' = Idle /\ UNCHANGED <<pending, loading>>
    BY <1>10 DEF Mark
  <2>. QED BY <1>2, <2>1 DEF DispOK
<1>11. ASSUME NEW r \in Recalls, Send(r) PROVE DispOK'
  <2>1. Suppressed /\ UNCHANGED <<pending, disp, brackets, loading>>
    BY <1>11, InBracket DEF Send, Bracketed
  <2>. QED BY <1>1, <1>2, <2>1 DEF DispOK, Suppressed
<1>12. CASE ClearChannelSection \/ Reload
  <2>1. Cross /\ UNCHANGED <<pending, loading>>
    BY <1>12 DEF ClearChannelSection, Reload
  <2>. QED BY <1>2, <1>3, <2>1 DEF DispOK
<1>13. CASE UNCHANGED <<mirror, pending, disp, brackets, loading, live, madeOver, reverted>>
  BY <1>1, <1>2, <1>13 DEF DispOK, Mine, MadeOver, Suppressed
<1>14. Absorb \/ (\E p \in Palettes : Discard(p)) \/ UNCHANGED vars
        => UNCHANGED <<mirror, pending, disp, brackets, loading, live, madeOver, reverted>>
  BY DEF Absorb, Tick, AbsorbCheck, AbsorbRefs, AbsorbCells, AbsorbValues,
         AbsorbFold, NotThePass, Discard, vars
<1>15. ASSUME NEW r \in Recalls, Begin(r) \/ RecallStep(r) PROVE DispOK'
  <2>1. CASE Open(r)
    <3>1. Cross /\ UNCHANGED <<pending, loading>>
      BY <2>1 DEF Open
    <3>. QED BY <1>2, <1>3, <3>1 DEF DispOK
  <2>2. CASE FireRow(r)
    <3>1. UNCHANGED <<mirror, disp, brackets, live, madeOver, reverted>> /\ (loading' \/ UNCHANGED <<loading, pending>>)
      BY <2>2 DEF FireRow
    <3>. QED BY <1>1, <1>2, <3>1 DEF DispOK, Mine, MadeOver, Suppressed
  <2>3. CASE Finish(r) \/ Close(r)
    <3>1. Suppressed /\ UNCHANGED <<pending, disp, loading>>
      BY <2>3, InBracket DEF Finish, Close, Bracketed
    <3>. QED BY <1>1, <1>2, <3>1 DEF DispOK
  <2>4. Begin(r) \/ Enter(r) \/ SaveCheck(r) \/ SavePairs(r) \/ SaveMerge(r) \/ SaveDrain(r)
          \/ ReleaseGate(r)
        => UNCHANGED <<mirror, pending, disp, brackets, loading, live, madeOver, reverted>>
    BY DEF Begin, Enter, SaveCheck, SavePairs, SaveMerge, SaveDrain, ReleaseGate
  <2>. QED BY <1>13, <1>15, <2>1, <2>2, <2>3, <2>4 DEF RecallStep
<1>. QED BY <1>6, <1>7, <1>8, <1>9, <1>10, <1>11, <1>12, <1>13, <1>14, <1>15, NextCases
         DEF Outside

-----------------------------------------------------------------------------
\* Outside the brackets the live snapshot stays; a cell that someone has read as dirty
\* keeps its value, takes a new tweak or goes stale.
LEMMA CellStays ==
  ASSUME TypeOK, LocalsOK, OnceOK, [Next]_vars, ~Suppressed
  PROVE  /\ live' = live
         /\ reverted' = reverted \/ ClearChannelSection
         /\ \A a \in Marked : \/ a \in stale' \/ Mine(mirror[a], live)'
                              \/ a \notin stale /\ mirror'[a] = mirror[a]
<1>. USE DEF history, tracker, data, engine, bounds
<1>. DEFINE Kept == UNCHANGED <<mirror, live, reverted>> /\ stale \subseteq stale'
<1>0. Marked \subseteq Addr
  BY DEF Marked, TypeOK, LocalsOK
<1>1. ASSUME NEW a \in Addr, MirrorReport(a)
      PROVE  /\ UNCHANGED <<live, reverted>>
             /\ \A b \in Marked : \/ b \in stale' \/ Mine(mirror[b], live)'
                                  \/ b \notin stale /\ mirror'[b] = mirror[b]
  BY <1>0, <1>1, MirrorReportMine
<1>2. CASE Mark
  BY <1>2 DEF Mark
<1>3. ASSUME NEW a \in Addr, Move(a) PROVE Kept
  BY <1>3 DEF Move
<1>4. DeskLoad \/ LoadOver \/ Absorb \/ (\E p \in Palettes : Discard(p)) \/ UNCHANGED vars
        => Kept
  BY DEF DeskLoad, LoadOver, Absorb, Tick, AbsorbCheck, AbsorbRefs, AbsorbCells,
         AbsorbValues, AbsorbFold, NotThePass, Discard, vars
<1>5. CASE ClearChannelSection
  BY <1>5 DEF ClearChannelSection
<1>6. CASE Reload
  <2>1. UNCHANGED <<live, reverted>> /\ stale' = stale \cup (CellsOf(revert.palette) \cap Marked)
    BY <1>6 DEF Reload
  <2>2. \A a \in Addr : a \notin CellsOf(revert.palette) => mirror'[a] = mirror[a]
    BY <1>6 DEF Reload
  <2>. QED BY <1>0, <2>1, <2>2
<1>7. ASSUME NEW r \in Recalls, Begin(r) \/ RecallStep(r) \/ Send(r) PROVE Kept
  <2>1. ~Finish(r) /\ ~Close(r) /\ ~Send(r)
    BY InBracket DEF Finish, Close, Send, Bracketed
  <2>. QED BY <1>7, <2>1 DEF RecallStep, Begin, Enter, SaveCheck, SavePairs, SaveMerge,
           SaveDrain, Open, FireRow, ReleaseGate
<1>. QED BY <1>1, <1>2, <1>3, <1>4, <1>5, <1>6, <1>7, NextCases DEF Outside

\* The start: nothing is dirty.
LEMMA CellsInit == Init => DirtyOK /\ SaveOK /\ PassOK /\ KnownOK
BY DEF Init, DirtyOK, SaveOK, PassOK, KnownOK, Empty, Asleep

\* Outside the brackets the dirty cells are tweaks of the live snapshot.
LEMMA DirtyNext ==
  ASSUME TypeOK, LocalsOK, OnceOK, DispOK, DirtyOK, [Next]_vars
  PROVE  DirtyOK'
<1>. SUFFICES ASSUME ~Suppressed', NEW a \in dirty'
              PROVE  a \in stale' \/ Mine(mirror[a], live)'
  BY DEF DirtyOK
<1>1. CASE \E r \in Recalls : Close(r)
  BY <1>1 DEF Close
<1>2. CASE ~\E r \in Recalls : Close(r)
  <2>1. ~Suppressed
    <3>1. brackets \subseteq brackets'
      <4>1. CASE Outside
        BY <4>1, OutsideFrame
      <4>2. ASSUME NEW r \in Recalls, Begin(r) \/ RecallStep(r) PROVE brackets \subseteq brackets'
        BY <1>2, <4>2 DEF RecallStep, Begin, Enter, SaveCheck, SavePairs, SaveMerge,
           SaveDrain, Open, FireRow, ReleaseGate, Finish, tracker
      <4>. QED BY <4>1, <4>2, NextCases
    <3>. QED BY <3>1 DEF Suppressed
  <2>2. CASE a \in dirty
    <3>1. a \in Marked /\ a \in Addr
      BY <2>2 DEF Marked, TypeOK
    <3>2. a \in stale \/ Mine(mirror[a], live)
      BY <2>1, <2>2 DEF DirtyOK
    <3>3. ASSUME Mine(mirror[a], live), mirror'[a] = mirror[a]
          PROVE  Mine(mirror[a], live)'
      <4>1. MadeOver(mirror[a], live)'
        BY <2>1, <3>3, CellStays, MadeOverStays DEF Mine, LocalsOK, MadeOver
      <4>2. mirror'[a] \notin reverted'
        <5>1. CASE ClearChannelSection
          <6>1. a \notin CellsOf(revert.palette)
            BY <5>1 DEF ClearChannelSection
          <6>2. \A b \in CellsOf(revert.palette) : mirror[b] # mirror[a]
            BY <3>1, <3>3, <6>1 DEF OnceOK, CellsOf, Mine, MadeOver
          <6>. QED BY <3>3, <5>1, <6>2 DEF ClearChannelSection, Mine
        <5>2. CASE ~ClearChannelSection
          BY <2>1, <3>3, <5>2, CellStays DEF Mine
        <5>. QED BY <5>1, <5>2
      <4>. QED BY <4>1, <4>2 DEF Mine
    <3>. QED BY <2>1, <3>1, <3>2, <3>3, CellStays
  <2>3. CASE a \notin dirty
    <3>1. Mark
      <4>1. CASE Outside
        BY <2>3, <4>1 DEF Outside, Move, MirrorReport, DeskLoad, LoadOver, Absorb, Tick,
           AbsorbCheck, AbsorbRefs, AbsorbCells, AbsorbValues, AbsorbFold, NotThePass,
           Discard, ClearChannelSection, Reload, Send, vars, tracker
      <4>2. ASSUME NEW r \in Recalls, Begin(r) \/ RecallStep(r) PROVE FALSE
        BY <1>2, <2>3, <4>2 DEF RecallStep, Begin, Enter, SaveCheck, SavePairs, SaveMerge,
           SaveDrain, Open, FireRow, ReleaseGate, Finish, tracker
      <4>. QED BY <4>1, <4>2, NextCases
    <3>2. a = disp.at /\ disp # Idle /\ ~loading /\ (disp.crossed => a \in stale')
      BY <2>3, <3>1 DEF Mark
    <3>3. UNCHANGED <<mirror, live, madeOver, reverted>>
      BY <3>1 DEF Mark
    <3>4. ~disp.crossed => Mine(mirror[a], live)
      BY <3>2 DEF DispOK
    <3>. QED BY <3>2, <3>3, <3>4 DEF Mine, MadeOver
  <2>. QED BY <2>2, <2>3
<1>. QED BY <1>1, <1>2

-----------------------------------------------------------------------------
\* What an auto-save has read as dirty stays of the snapshot it saves into.
LEMMA SaveNext ==
  ASSUME TypeOK, LocalsOK, GateOK, OnceOK, DirtyOK, SaveOK, [Next]_vars
  PROVE  SaveOK'
<1>. SUFFICES ASSUME NEW r \in Recalls, pc'[r] = "merge", NEW a \in pairs'[r]
              PROVE  a \in stale' \/ MadeOver(mirror[a], live)'
  BY DEF SaveOK
<1>1. CASE SavePairs(r)
  <2>1. pc[r] = "pairs" /\ pairs'[r] = dirty /\ UNCHANGED <<mirror, stale, live, madeOver>>
    BY <1>1 DEF SavePairs, TypeOK, history
  <2>2. a \in stale \/ MadeOver(mirror[a], live)
    BY <2>1 DEF GateOK, Saving, DirtyOK, Mine
  <2>. QED BY <2>1, <2>2 DEF MadeOver
<1>2. CASE ~SavePairs(r)
  <2>1. pc[r] = "merge" /\ pairs'[r] = pairs[r]
    <3>1. CASE Outside
      BY <3>1, OutsideFrame DEF engine
    <3>2. ASSUME NEW q \in Recalls, Begin(q) \/ RecallStep(q)
          PROVE  pc[r] = "merge" /\ pairs'[r] = pairs[r]
      <4>1. CASE q # r
        <5>1. pc'[r] = pc[r]
          BY <3>2, <4>1 DEF RecallStep, Begin, Enter, SaveCheck, SavePairs, SaveMerge,
             SaveDrain, Open, FireRow, ReleaseGate, Finish, Close, Goto, LocalsOK
        <5>2. pairs'[r] = pairs[r]
          BY <3>2, <4>1 DEF RecallStep, Begin, Enter, SaveCheck, SavePairs, SaveMerge,
             SaveDrain, Open, FireRow, ReleaseGate, Finish, Close, TypeOK
        <5>. QED BY <5>1, <5>2
      <4>2. CASE q = r
        <5>1. ~\E l \in PcLabels \ {"merge"} : Goto(r, l)
          BY GotoTypes
        <5>. QED BY <1>2, <3>2, <4>2, <5>1 DEF PcLabels, RecallStep, Begin, Enter, SaveCheck,
             SaveMerge, SaveDrain, Open, FireRow, ReleaseGate, Finish, Close
      <4>. QED BY <4>1, <4>2
    <3>. QED BY <3>1, <3>2, NextCases
  <2>2. ~Suppressed /\ a \in Marked
    BY <2>1 DEF GateOK, Saving, Marked
  <2>3. a \in stale \/ MadeOver(mirror[a], live)
    BY <2>1 DEF SaveOK
  <2>4. ASSUME MadeOver(mirror[a], live), mirror'[a] = mirror[a]
        PROVE  MadeOver(mirror[a], live)'
    BY <2>2, <2>4, CellStays, MadeOverStays DEF LocalsOK, MadeOver
  <2>. QED BY <2>2, <2>3, <2>4, CellStays DEF Mine
<1>. QED BY <1>1, <1>2

\* What an absorb pass has read holds until it folds, or the pass is excused.
LEMMA PassNext ==
  ASSUME TypeOK, LocalsOK, LiveOK, OnceOK, DirtyOK, PassOK, [Next]_vars
  PROVE  PassOK'
<1>1. CASE Excuse
  BY <1>1 DEF Excuse, PassOK, LocalsOK
<1>2. CASE Absorb
  <2>1. UNCHANGED <<brackets, stale, mirror, live, madeOver, reverted, dirty, lastRecalled>>
    BY <1>2 DEF Absorb, Tick, AbsorbCheck, AbsorbRefs, AbsorbCells, AbsorbValues, AbsorbFold,
                NotThePass, tracker, history
  <2>2. CASE pass' = Asleep
    BY <2>2 DEF PassOK, Asleep
  <2>3. CASE Tick
    BY <2>3 DEF Tick, PassGoto, PassOK, LocalsOK
  <2>4. CASE AbsorbCheck
    <3>1. pass' = Asleep \/ (~Suppressed /\ pass' = [pass EXCEPT !.at = "refs"])
      BY <2>4 DEF AbsorbCheck, PassGoto
    <3>. QED BY <2>1, <2>2, <3>1 DEF PassOK, LocalsOK, Suppressed
  <2>5. CASE AbsorbRefs
    BY <2>1, <2>2, <2>5 DEF AbsorbRefs, PassOK, LocalsOK, Suppressed, LiveOK
  <2>6. CASE AbsorbCells
    BY <2>1, <2>2, <2>6 DEF AbsorbCells, PassOK, LocalsOK, Suppressed, DirtyOK, Mine, MadeOver
  <2>7. CASE AbsorbValues
    <3>. DEFINE linked == {a \in pass.cells : Links[pass.snap][a] # None}
    <3>1. CASE pass' = [pass EXCEPT !.at = "fold", !.excused = @ \cup stale,
             !.vals = [a \in Addr |-> IF a \in linked THEN mirror[a] ELSE None]]
      <4>1. /\ pass'.at = "fold" /\ pass'.excused = pass.excused \cup stale /\ pass'.snap = pass.snap
            /\ pass'.vals = [a \in Addr |-> IF a \in linked THEN mirror[a] ELSE None]
        BY <3>1 DEF LocalsOK
      <4>2. pass.excused \subseteq Addr /\ stale \subseteq Addr /\ pass.at = "values"
        BY <2>7 DEF AbsorbValues, LocalsOK, TypeOK
      <4>3. CASE pass.excused = Addr
        BY <4>1, <4>2, <4>3 DEF PassOK
      <4>4. CASE pass.excused # Addr
        <5>1. /\ ~Suppressed /\ pass.snap = live
              /\ \A a \in pass.cells : a \in stale \/ Mine(mirror[a], live)
          BY <4>2, <4>4 DEF PassOK
        <5>2. \A a \in Addr : pass'.vals[a] # None =>
                a \in pass'.excused \/ Mine(pass'.vals[a], live)
          BY <4>1, <5>1
        <5>. QED BY <2>1, <4>1, <5>1, <5>2 DEF PassOK, Suppressed, Mine, MadeOver
      <4>. QED BY <4>3, <4>4
    <3>. QED BY <2>2, <2>7, <3>1 DEF AbsorbValues
  <2>8. CASE AbsorbFold
    BY <2>2, <2>8 DEF AbsorbFold
  <2>. QED BY <1>2, <2>3, <2>4, <2>5, <2>6, <2>7, <2>8 DEF Absorb
<1>3. CASE ~Excuse /\ ~Absorb
  <2>1. ~ClearChannelSection /\ ~(\E p \in Palettes : Discard(p)) /\ ~(\E r \in Recalls : Open(r))
    BY <1>3 DEF ClearChannelSection, Discard, Open
  <2>2. pass' = pass /\ brackets' \subseteq brackets
    <3>1. CASE Outside
      BY <1>3, <2>1, <3>1 DEF Outside, Move, MirrorReport, DeskLoad, LoadOver, Mark, Reload,
         Send, vars, tracker
    <3>2. ASSUME NEW r \in Recalls, Begin(r) \/ RecallStep(r)
          PROVE  pass' = pass /\ brackets' \subseteq brackets
      BY <2>1, <3>2 DEF RecallStep, Begin, Enter, SaveCheck, SavePairs, SaveMerge,
         SaveDrain, FireRow, ReleaseGate, Finish, Close, tracker
    <3>. QED BY <3>1, <3>2, NextCases
  <2>3. CASE pass.at \in {"asleep", "check"} \/ pass.excused = Addr
    BY <2>2, <2>3 DEF PassOK
  <2>4. CASE ~(pass.at \in {"asleep", "check"} \/ pass.excused = Addr)
    <3>1. /\ ~Suppressed
          /\ pass.at \in {"cells", "values", "fold"} => pass.snap = live
          /\ pass.at = "values" => \A a \in pass.cells : a \in stale \/ Mine(mirror[a], live)
          /\ pass.at = "fold" => \A a \in Addr :
               pass.vals[a] # None => a \in pass.excused \/ Mine(pass.vals[a], live)
      BY <2>4 DEF PassOK
    <3>2. ~Suppressed' /\ live' = live /\ reverted' = reverted
      BY <2>1, <2>2, <3>1, CellStays DEF Suppressed
    <3>3. ASSUME NEW v, Mine(v, live)
          PROVE  v \in Hands /\ madeOver'[v] = live' /\ v \notin reverted'
      BY <3>2, <3>3, MadeOverStays DEF Mine, LocalsOK, MadeOver
    <3>4. ASSUME pass.at = "values", NEW a \in pass.cells
          PROVE  a \in stale' \/ Mine(mirror[a], live)'
      <4>1. a \in Marked /\ (a \in stale \/ Mine(mirror[a], live))
        BY <3>1, <3>4 DEF Marked
      <4>2. ASSUME mirror'[a] = mirror[a], Mine(mirror[a], live) PROVE Mine(mirror[a], live)'
        BY <3>3, <4>2 DEF Mine, MadeOver
      <4>. QED BY <3>1, <4>1, <4>2, CellStays
    <3>5. ASSUME pass.at = "fold", NEW a \in Addr, pass.vals[a] # None
          PROVE  a \in pass.excused \/ Mine(pass.vals[a], live)'
      BY <2>2, <3>1, <3>3, <3>5 DEF Mine, MadeOver
    <3>. QED BY <2>2, <3>1, <3>2, <3>4, <3>5 DEF PassOK
  <2>. QED BY <2>3, <2>4
<1>. QED BY <1>1, <1>2, <1>3

-----------------------------------------------------------------------------
\* The operator does not move back to a tweak that is past.
LEMMA PastStays ==
  ASSUME TypeOK, LocalsOK, OnceOK, [Next]_vars, NEW a \in Addr, NEW h \in Hands,
         madeOver[h] # None, Past(h, a)
  PROVE  mirror'[a] # h \/ h \in reverted'
<1>. USE DEF history, tracker, data, engine, bounds, Past
<1>1. ASSUME NEW b \in Addr, MirrorReport(b) PROVE mirror'[a] # h \/ h \in reverted'
  <2>1. mirror'[a] = mirror[a] \/ (b = a /\ mirror'[a] = pending[b])
    BY <1>1 DEF MirrorReport, TypeOK
  <2>2. pending[b] # h
    BY DEF OnceOK
  <2>3. reverted' = reverted
    BY <1>1 DEF MirrorReport
  <2>. QED BY <2>1, <2>2, <2>3
<1>2. ASSUME NEW r \in Recalls, Send(r) PROVE mirror'[a] # h \/ h \in reverted'
  <2>1. mirror'[a] = mirror[a] \/ mirror'[a] \notin Hands
    BY <1>2, SendableValues DEF Send, TypeOK
  <2>. QED BY <1>2, <2>1 DEF Send
<1>3. CASE Reload
  <2>1. mirror'[a] = mirror[a] \/ mirror'[a] \notin Hands
    BY <1>3, DistinctAssumption DEF Reload, LocalsOK
  <2>. QED BY <1>3, <2>1 DEF Reload
<1>4. CASE ClearChannelSection
  BY <1>4 DEF ClearChannelSection
<1>5. CASE UNCHANGED <<mirror, reverted>>
  BY <1>5
<1>6. (\E b \in Addr : Move(b)) \/ DeskLoad \/ LoadOver \/ Mark \/ Absorb
        \/ (\E p \in Palettes : Discard(p)) \/ UNCHANGED vars
        => UNCHANGED <<mirror, reverted>>
  BY DEF Move, DeskLoad, LoadOver, Mark, Absorb, Tick, AbsorbCheck, AbsorbRefs, AbsorbCells,
         AbsorbValues, AbsorbFold, NotThePass, Discard, vars
<1>. QED BY <1>1, <1>2, <1>3, <1>4, <1>5, <1>6, NextCases, RecallFrame DEF Outside

\* What was dirty when a recall came in reaches the snapshot it was made over.
LEMMA KnownNext ==
  ASSUME TypeOK, LocalsOK, GateOK, LiveOK, OnceOK, DirtyOK, KnownOK, [Next]_vars
  PROVE  KnownOK'
<1>. DEFINE Arrived(r, a) ==
       /\ ~Suppressed /\ MadeOver(known[r][a], live)
       /\ pc[r] \in Saving \cup {"save", "open"}
       /\ pc[r] \in {"save", "pairs"} => a \in dirty \/ Past(known[r][a], a)
       /\ pc[r] = "merge" => a \in pairs[r] \/ Past(known[r][a], a)
       /\ /\ pc[r] = "drain" \/ (pc[r] = "open" /\ AutoUpdate /\ SnapOf[r] \notin {None, live})
          /\ a \in Scope[live]
          => saved[live][a] = known[r][a] \/ Past(known[r][a], a)
<1>. SUFFICES ASSUME NEW r \in Recalls, NEW a \in Addr, known'[r][a] # None
              PROVE  Arrived(r, a)'
  BY DEF KnownOK
<1>1. CASE Enter(r) /\ r \notin cancelled
  <2>1. /\ known'[r][a] = mirror[a] /\ a \in dirty \ stale /\ ~Suppressed
        /\ gate = None /\ pc'[r] = (IF SnapOf[r] = None THEN "open" ELSE "save")
        /\ UNCHANGED <<mirror, dirty, brackets, live, madeOver, saved, reverted>>
    BY <1>1 DEF Enter, Goto, LocalsOK, tracker, data
  <2>2. Mine(mirror[a], live)
    BY <2>1 DEF DirtyOK
  <2>. QED BY <2>1, <2>2 DEF Saving, Suppressed, Mine, MadeOver
<1>2. CASE ~(Enter(r) /\ r \notin cancelled)
  <2>1. known'[r] = known[r] /\ ~Open(r)
    <3>1. CASE Outside
      <4>1. known' = known /\ brackets' = brackets
        BY <3>1, OutsideFrame
      <4>2. ASSUME Open(r) PROVE FALSE
        BY <4>1, <4>2 DEF Open, TypeOK
      <4>. QED BY <4>1, <4>2
    <3>2. ASSUME NEW q \in Recalls, Begin(q) \/ RecallStep(q)
          PROVE  known'[r] = known[r] /\ ~Open(r)
      <4>1. ~Open(r)
        BY DEF Open, Empty, LocalsOK
      <4>2. CASE Enter(q)
        <5>1. CASE q \in cancelled
          BY <4>1, <4>2, <5>1 DEF Enter
        <5>2. CASE q \notin cancelled
          BY <1>2, <4>1, <4>2, <5>2 DEF Enter, LocalsOK
        <5>. QED BY <5>1, <5>2
      <4>3. CASE Open(q)
        BY <4>1, <4>3 DEF Open, LocalsOK
      <4>4. CASE ~Enter(q) /\ ~Open(q)
        BY <3>2, <4>1, <4>4 DEF RecallStep, Begin, SaveCheck, SavePairs, SaveMerge, SaveDrain,
           FireRow, ReleaseGate, Finish, Close, history
      <4>. QED BY <4>1, <4>2, <4>3, <4>4
    <3>. QED BY <3>1, <3>2, NextCases
  <2>2. PICK h \in Hands : h = known[r][a] /\ h = known'[r][a] /\ madeOver[h] = live
    BY <2>1 DEF KnownOK, MadeOver
  <2>3. Arrived(r, a) /\ gate = r
    BY <2>1 DEF KnownOK, GateOK, Gated, Saving
  <2>4. live # None /\ live \in Snapshots
    BY DistinctAssumption DEF LocalsOK, Values
  <2>5. live' = live /\ madeOver'[h] = live
    BY <2>2, <2>3, <2>4, CellStays, MadeOnce
  <2>6. MadeOver(h, live)' /\ (Past(h, a) => Past(h, a)')
    BY <2>2, <2>4, <2>5, PastStays DEF MadeOver, Past
  <2>7. \A q \in Recalls : pc[q] \in Gated => q = r
    BY <2>3 DEF GateOK
  <2>8. ~Suppressed'
    <3>1. CASE Outside
      BY <2>3, <3>1, OutsideFrame DEF Suppressed
    <3>2. ASSUME NEW q \in Recalls, Begin(q) \/ RecallStep(q) PROVE brackets' \subseteq brackets
      <4>1. ~Open(q)
        BY <2>1, <2>7 DEF Open, Gated
      <4>. QED BY <3>2, <4>1 DEF RecallStep, Begin, Enter, SaveCheck, SavePairs, SaveMerge,
               SaveDrain, FireRow, ReleaseGate, Finish, Close, tracker
    <3>. QED BY <2>3, <3>1, <3>2, NextCases DEF Suppressed
  <2>9. ASSUME pc[r] \in {"save", "pairs"}, a \in dirty PROVE a \in dirty' \/ Past(h, a)'
    <3>1. CASE ClearChannelSection
      <4>1. CASE a \in CellsOf(revert.palette) /\ mirror[a] = h
        BY <3>1, <4>1 DEF ClearChannelSection, Past
      <4>2. CASE a \notin CellsOf(revert.palette)
        BY <2>9, <3>1, <4>2 DEF ClearChannelSection
      <4>3. CASE mirror[a] # h
        BY <2>6, <4>3 DEF Past
      <4>. QED BY <4>1, <4>2, <4>3
    <3>2. CASE Outside /\ ~ClearChannelSection
      BY <2>9, <3>2 DEF Outside, Move, MirrorReport, DeskLoad, LoadOver, Mark, Absorb, Tick,
         AbsorbCheck, AbsorbRefs, AbsorbCells, AbsorbValues, AbsorbFold, NotThePass, Discard,
         Reload, Send, vars, tracker
    <3>3. ASSUME NEW q \in Recalls, Begin(q) \/ RecallStep(q) PROVE a \in dirty'
      <4>1. ~SaveDrain(q) /\ ~Close(q)
        BY <2>3, <2>7, <2>9, InBracket DEF SaveDrain, Close, Gated, Saving, Bracketed
      <4>. QED BY <2>9, <3>3, <4>1 DEF RecallStep, Begin, Enter, SaveCheck, SavePairs,
               SaveMerge, Open, FireRow, ReleaseGate, Finish, tracker
    <3>. QED BY <3>1, <3>2, <3>3, NextCases
  <2>10. CASE RecallStep(r) \/ Begin(r)
    <3>1. SaveCheck(r) \/ SavePairs(r) \/ SaveMerge(r) \/ SaveDrain(r)
      BY <2>1, <2>3, <2>10 DEF RecallStep, Begin, Enter, FireRow, ReleaseGate, Finish, Close, Saving
    <3>2. CASE SaveCheck(r)
      <4>1. /\ pc[r] = "save"
            /\ \/ pc'[r] = "pairs"
               \/ pc'[r] = "open" /\ (~AutoUpdate \/ SnapOf[r] = live)
        BY <2>3, <3>2 DEF SaveCheck, Goto, LocalsOK, LiveOK
      <4>. QED BY <2>2, <2>3, <2>5, <2>6, <2>8, <2>9, <4>1 DEF Saving
    <3>3. CASE SavePairs(r)
      <4>1. /\ pc[r] = "pairs" /\ pairs'[r] = dirty
            /\ pc'[r] = (IF dirty = {} THEN "open" ELSE "merge")
        BY <3>3 DEF SavePairs, Goto, LocalsOK, TypeOK
      <4>. QED BY <2>2, <2>3, <2>5, <2>6, <2>8, <4>1 DEF Saving
    <3>4. CASE SaveMerge(r)
      <4>1. pc[r] = "merge" /\ pc'[r] = "drain" /\ prev[r] = live
        BY <3>4 DEF SaveMerge, Goto, LocalsOK, GateOK, Saving
      <4>2. saved'[live][a] =
              IF a \in pairs[r] \cap Scope[live] THEN mirror[a] ELSE saved[live][a]
        BY <2>4, <3>4, <4>1 DEF SaveMerge, TypeOK
      <4>3. a \in Scope[live] => saved'[live][a] = h \/ Past(h, a)
        BY <2>2, <2>3, <4>1, <4>2 DEF Past
      <4>. QED BY <2>2, <2>5, <2>6, <2>8, <4>1, <4>3 DEF Saving
    <3>5. CASE SaveDrain(r)
      <4>1. pc[r] = "drain" /\ pc'[r] = "open" /\ UNCHANGED saved
        BY <3>5 DEF SaveDrain, Goto, LocalsOK, data
      <4>. QED BY <2>2, <2>3, <2>5, <2>6, <2>8, <4>1 DEF Saving
    <3>. QED BY <3>1, <3>2, <3>3, <3>4, <3>5
  <2>11. CASE ~(RecallStep(r) \/ Begin(r))
    <3>1. pc'[r] = pc[r] /\ pairs'[r] = pairs[r]
      <4>1. CASE Outside
        BY <4>1, OutsideFrame DEF engine
      <4>2. ASSUME NEW q \in Recalls \ {r}, Begin(q) \/ RecallStep(q)
            PROVE  pc'[r] = pc[r] /\ pairs'[r] = pairs[r]
        <5>1. pc'[r] = pc[r]
          BY <4>2 DEF RecallStep, Begin, Enter, SaveCheck, SavePairs, SaveMerge,
             SaveDrain, Open, FireRow, ReleaseGate, Finish, Close, Goto, LocalsOK
        <5>2. pairs'[r] = pairs[r]
          BY <4>2 DEF RecallStep, Begin, Enter, SaveCheck, SavePairs, SaveMerge,
             SaveDrain, Open, FireRow, ReleaseGate, Finish, Close, TypeOK
        <5>. QED BY <5>1, <5>2
      <4>. QED BY <2>11, <4>1, <4>2, NextCases
    <3>2. saved' = saved
      <4>1. CASE Outside
        BY <4>1 DEF Outside, Move, MirrorReport, DeskLoad, LoadOver, Mark, Absorb, Tick,
           AbsorbCheck, AbsorbRefs, AbsorbCells, AbsorbValues, AbsorbFold, NotThePass, Discard,
           ClearChannelSection, Reload, Send, vars, data
      <4>2. ASSUME NEW q \in Recalls \ {r}, Begin(q) \/ RecallStep(q) PROVE saved' = saved
        <5>1. ~SaveMerge(q)
          BY <2>7 DEF SaveMerge, Gated, Saving
        <5>. QED BY <4>2, <5>1 DEF RecallStep, Begin, Enter, SaveCheck, SavePairs,
             SaveDrain, Open, FireRow, ReleaseGate, Finish, Close, data
      <4>. QED BY <2>11, <4>1, <4>2, NextCases
    <3>. QED BY <2>2, <2>3, <2>5, <2>6, <2>8, <2>9, <3>1, <3>2
  <2>. QED BY <2>10, <2>11
<1>. QED BY <1>1, <1>2

-----------------------------------------------------------------------------
\* The invariant holds at the start, is kept by every step, and so holds always.
LEMMA IInvInit == Init => IInv
<1>. SUFFICES ASSUME Init PROVE IInv
  OBVIOUS
<1>1. GateOK /\ LiveOK
  BY DEF Init, GateOK, LiveOK, Gated, Saving
<1>. QED BY <1>1, TypesInit, OnceInit, DispInit, CellsInit DEF IInv

\* Each step keeps it.
LEMMA IInvNext == IInv /\ [Next]_vars => IInv'
BY TypesNext, GateNext, LiveNext, OnceNext, DispNext, DirtyNext, SaveNext, PassNext, KnownNext
   DEF IInv

\* So it holds always.
LEMMA IInvAlways == Spec => []IInv
BY IInvInit, IInvNext, PTL DEF Spec

\* A tweak that was dirty when a recall of another snapshot came in is in the data of
\* the snapshot it was made over when that recall opens its bracket, unless the operator
\* has moved on: between the two, no report, mark, pass or revert makes auto-save drop it.
THEOREM NoneLostCorrect == Spec => []NoneLost
<1>1. IInv => NoneLost
  <2>. SUFFICES ASSUME IInv, NEW r \in Recalls, NEW s \in Snapshots, NEW a \in Scope[s],
                       AutoUpdate, pc[r] = "open", SnapOf[r] \notin {None, s},
                       MadeOver(known[r][a], s)
                PROVE  \/ saved[s][a] = known[r][a]
                       \/ mirror[a] # known[r][a] \/ known[r][a] \in reverted
    BY DEF NoneLost
  <2>1. a \in Addr
    BY ShowAssumption
  <2>2. known[r][a] # None
    BY DistinctAssumption DEF MadeOver, Values
  <2>3. s = live
    BY <2>1, <2>2 DEF IInv, KnownOK, MadeOver
  <2>. QED BY <2>1, <2>2, <2>3 DEF IInv, KnownOK, Past
<1>. QED BY <1>1, IInvAlways, PTL

\* What auto-save merges into a snapshot is a tweak made over that snapshot, or a cell
\* whose value was overwritten outside any bracket since it was marked.
THEOREM SavesOwnCorrect == Spec => SavesOwn
<1>. DEFINE Own == \A s \in Snapshots, a \in Addr :
       \/ saved'[s][a] = saved[s][a]
       \/ MadeOver(saved'[s][a], s)
       \/ a \in stale
<1>1. IInv /\ [Next]_vars => [Own]_vars
  <2>. SUFFICES ASSUME IInv, [Next]_vars, NEW s \in Snapshots, NEW a \in Addr,
                       saved'[s][a] # saved[s][a]
                PROVE  MadeOver(saved'[s][a], s) \/ a \in stale
    OBVIOUS
  <2>. USE DEF IInv
  <2>1. PICK r \in Recalls : SaveMerge(r)
    <3>1. CASE Outside
      BY <3>1 DEF Outside, Move, MirrorReport, DeskLoad, LoadOver, Mark, Absorb, Tick,
         AbsorbCheck, AbsorbRefs, AbsorbCells, AbsorbValues, AbsorbFold, NotThePass, Discard,
         ClearChannelSection, Reload, Send, vars, data
    <3>2. ASSUME NEW q \in Recalls, Begin(q) \/ RecallStep(q) PROVE SaveMerge(q)
      BY <3>2 DEF RecallStep, Begin, Enter, SaveCheck, SavePairs, SaveDrain, Open, FireRow,
         ReleaseGate, Finish, Close, data
    <3>. QED BY <3>1, <3>2, NextCases
  <2>2. pc[r] = "merge" /\ prev[r] = live
    BY <2>1 DEF SaveMerge, GateOK, Saving
  <2>3. s = live /\ a \in pairs[r] /\ saved'[s][a] = mirror[a]
    BY <2>1, <2>2 DEF SaveMerge, TypeOK
  <2>. QED BY <2>2, <2>3 DEF SaveOK
<1>. QED BY <1>1, IInvAlways, PTL DEF SavesOwn, Spec

\* What an absorb pass folds into a palette is a tweak made over a snapshot that links
\* it and not reverted, unless the pass was overtaken or the cell overwritten.
THEOREM FoldsOwnCorrect == Spec => FoldsOwn
<1>. DEFINE Own == \A p \in Palettes, a \in Addr :
       \/ working'[p][a] \in {working[p][a], None}
       \/ \E s \in Snapshots : Links[s][a] = p /\ MadeOver(working'[p][a], s) /\ working'[p][a] \notin reverted
       \/ a \in pass.excused
<1>1. IInv /\ [Next]_vars => [Own]_vars
  <2>. SUFFICES ASSUME IInv, [Next]_vars, NEW p \in Palettes, NEW a \in Addr,
                       working'[p][a] \notin {working[p][a], None}, a \notin pass.excused
                PROVE  \E s \in Snapshots : /\ Links[s][a] = p /\ MadeOver(working'[p][a], s)
                                            /\ working'[p][a] \notin reverted
    OBVIOUS
  <2>. USE DEF IInv
  <2>1. AbsorbFold
    <3>1. ASSUME NEW q \in Palettes, Discard(q) PROVE FALSE
      BY <3>1 DEF Discard, TypeOK, Empty
    <3>2. CASE Outside
      BY <3>1, <3>2 DEF Outside, Move, MirrorReport, DeskLoad, LoadOver, Mark, Absorb, Tick,
         AbsorbCheck, AbsorbRefs, AbsorbCells, AbsorbValues, NotThePass,
         ClearChannelSection, Reload, Send, vars, data
    <3>3. ASSUME NEW q \in Recalls, Begin(q) \/ RecallStep(q) PROVE FALSE
      BY <3>3 DEF RecallStep, Begin, Enter, SaveCheck, SavePairs, SaveMerge, SaveDrain, Open,
         FireRow, ReleaseGate, Finish, Close, data
    <3>. QED BY <3>2, <3>3, NextCases
  <2>2. /\ pass.at = "fold" /\ pass.vals[a] # None /\ Links[pass.snap][a] = p
        /\ working'[p][a] = SetWorking(p, a, pass.vals[a])
    BY <2>1 DEF AbsorbFold
  <2>3. pass.snap = live /\ Mine(pass.vals[a], live)
    BY <2>2 DEF PassOK
  <2>4. working'[p][a] = pass.vals[a]
    BY <2>2, <2>3, DistinctAssumption DEF SetWorking, Mine, MadeOver
  <2>. QED BY <2>2, <2>3, <2>4 DEF Mine, LocalsOK
<1>. QED BY <1>1, IInvAlways, PTL DEF FoldsOwn, Spec
=============================================================================
