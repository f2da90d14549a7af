----------------------------- MODULE MacroEngine -----------------------------
(***************************************************************************)
(* Macros (src/console/macro_engine.rs, macro_manager.rs): each firing is a *)
(* task of its own that takes the macro's steps one by one, with a delay   *)
(* before each, and descends into the macros that it fires.  Several may   *)
(* run at once, and a macro may be edited or deleted while it runs: the    *)
(* task works on the copy it took, and looks a nested macro up when it     *)
(* comes to it.                                                            *)
(*                                                                         *)
(* A parameter is on or off.  The steps that ask the window for something  *)
(* (GO, connect, recall a palette, QLab) are one kind, "ask".              *)
(***************************************************************************)
EXTENDS Integers, Sequences, SequencesExt

CONSTANTS
  MacroParams,
  MacroLists,        \* the macros of a show: from ids to [name, steps, marks]
  MAX_MACRO_DEPTH,
  MaxRuns,           \* bound: firings
  MaxMacroHands      \* bound: hands at the desk, links lost

Step == [does : {"set"}, at : MacroParams, to : {0, 1}]
        \cup [does : {"toggle"}, at : MacroParams] \cup [does : {"fire"}, id : UNION {DOMAIN l : l \in MacroLists}]
        \cup {[does |-> "ask"]}

ASSUME MacroAssumption ==
  /\ {MAX_MACRO_DEPTH, MaxRuns, MaxMacroHands} \subseteq Nat /\ MAX_MACRO_DEPTH > 0
  /\ \A l \in MacroLists :
       l \in [DOMAIN l -> [name : {l[id].name : id \in DOMAIN l}, marks : BOOLEAN, steps : Seq(Step)]]

VARIABLES
  macros,        \* MacroManager.macros
  macroRuns,     \* the firings, in the order in which they began
  macroMirror, macroDesk,
  macroMarks,    \* the dirty set
  macroLinked,   \* a send to the desk gets through
  macroHands,
  macroCrossed   \* history: parameters written to the desk between a send and its mirroring

macroVars == <<macros, macroRuns, macroMirror, macroDesk, macroMarks, macroLinked, macroHands,
               macroCrossed>>
macroRest == <<macroMirror, macroDesk, macroMarks, macroLinked, macroHands, macroCrossed>>

MacroInit ==
  /\ macros \in MacroLists /\ macroRuns = <<>>
  /\ macroMirror = [a \in MacroParams |-> 0] /\ macroDesk = macroMirror
  /\ macroMarks = {} /\ macroLinked = TRUE /\ macroHands = 0 /\ macroCrossed = {}

-----------------------------------------------------------------------------
(* What a firing should do: the reference, with nested macros in their     *)
(* place.  It is history, as are "did" and "spoilt" below.                 *)

Inlined[depth \in 0..MAX_MACRO_DEPTH] ==
  [id \in DOMAIN macros |->
     IF depth = MAX_MACRO_DEPTH THEN <<>>
     ELSE FlattenSeq([i \in DOMAIN macros[id].steps |->
            LET step == macros[id].steps[i] IN
              IF step.does # "fire" THEN <<step>>
              ELSE IF step.id \in DOMAIN macros THEN Inlined[depth + 1][step.id] ELSE <<>>])]

-----------------------------------------------------------------------------
(* A firing: "levels" holds the steps left in each macro it is in, the     *)
(* innermost first.                                                        *)

Running(r) == macroRuns[r].phase # "over"
Suppressed == \E r \in DOMAIN macroRuns : Running(r) /\ macroRuns[r].silent

Execute(id) ==
  macroRuns' = Append(macroRuns,
    [phase |-> "step", levels |-> <<macros[id].steps>>, silent |-> ~macros[id].marks,
     value |-> 0, did |-> <<>>, plan |-> Inlined[0][id], spoilt |-> FALSE])

Current(r) == Head(Head(macroRuns[r].levels))
StepTaken(r) == LET levels == macroRuns[r].levels IN
                  [macroRuns[r] EXCEPT !.phase = "step", !.levels = <<Tail(Head(levels))>> \o Tail(levels)]
Becomes(r, run) == macroRuns' = [macroRuns EXCEPT ![r] = run]

AtStep(r) == macroRuns[r].phase = "step" /\ macroRuns[r].levels # <<>>

\* The value from the mirror, then the send, then the mirror: three steps.
Resolve(r) ==
  /\ AtStep(r) /\ Head(macroRuns[r].levels) # <<>> /\ Current(r).does \in {"set", "toggle"}
  /\ LET step == Current(r) IN
       Becomes(r, [macroRuns[r] EXCEPT !.phase = "send",
                     !.value = IF step.does = "set" THEN step.to ELSE 1 - macroMirror[step.at]])
  /\ UNCHANGED <<macros, macroRest>>

Unmirrored(a) == \E r \in DOMAIN macroRuns : macroRuns[r].phase = "mirror" /\ Current(r).at = a
Crosses(a) == macroCrossed' = IF Unmirrored(a) THEN macroCrossed \cup {a} ELSE macroCrossed

\* A step whose send fails is counted as skipped, and the next one follows.
SendParameter(r) ==
  /\ macroRuns[r].phase = "send"
  /\ \/ /\ macroLinked
        /\ macroDesk' = [macroDesk EXCEPT ![Current(r).at] = macroRuns[r].value]
        /\ Crosses(Current(r).at)
        /\ Becomes(r, [macroRuns[r] EXCEPT !.phase = "mirror", !.did = Append(@, Current(r))])
     \/ /\ ~macroLinked /\ UNCHANGED <<macroDesk, macroCrossed>>
        /\ Becomes(r, [StepTaken(r) EXCEPT !.spoilt = TRUE])
  /\ UNCHANGED <<macros, macroMirror, macroMarks, macroLinked, macroHands>>

MirrorOwn(r) ==
  /\ macroRuns[r].phase = "mirror"
  /\ macroMirror' = [macroMirror EXCEPT ![Current(r).at] = macroRuns[r].value]
  /\ Becomes(r, StepTaken(r))
  /\ UNCHANGED <<macros, macroDesk, macroMarks, macroLinked, macroHands, macroCrossed>>

Ask(r) ==
  /\ AtStep(r) /\ Head(macroRuns[r].levels) # <<>> /\ Current(r).does = "ask"
  /\ Becomes(r, [StepTaken(r) EXCEPT !.did = Append(@, Current(r))])
  /\ UNCHANGED <<macros, macroRest>>

\* Too deep, or the macro is gone: the step is skipped.
TooDeepByOne(levels) == Len(levels) > MAX_MACRO_DEPTH
TooDeep(levels) == Len(levels) >= MAX_MACRO_DEPTH
FireMacro(r) ==
  /\ AtStep(r) /\ Head(macroRuns[r].levels) # <<>> /\ Current(r).does = "fire"
  /\ LET id == Current(r).id  levels == macroRuns[r].levels IN
       IF id \in DOMAIN macros /\ ~TooDeep(levels)
       THEN Becomes(r, [StepTaken(r) EXCEPT !.levels = <<macros[id].steps>> \o @])
       ELSE Becomes(r, StepTaken(r))
  /\ UNCHANGED <<macros, macroRest>>

\* The end of a macro; that of the outermost one ends the firing, and a silent
\* one wipes the dirty set as it lifts its bracket.
EndMacro(r) ==
  /\ AtStep(r) /\ Head(macroRuns[r].levels) = <<>>
  /\ LET outer == Tail(macroRuns[r].levels) IN
       /\ Becomes(r, [macroRuns[r] EXCEPT !.levels = outer,
                                          !.phase = IF outer = <<>> THEN "over" ELSE "step"])
       /\ macroMarks' = IF outer = <<>> /\ macroRuns[r].silent THEN {} ELSE macroMarks
  /\ UNCHANGED <<macros, macroMirror, macroDesk, macroLinked, macroHands, macroCrossed>>

RunStep(r) == \/ Resolve(r) \/ SendParameter(r) \/ MirrorOwn(r) \/ Ask(r) \/ FireMacro(r)
              \/ EndMacro(r)

-----------------------------------------------------------------------------
(* Around the firings                                                      *)

\* The trigger listener's /macro/fire, in a task of its own.
Trigger(id) == /\ id \in DOMAIN macros /\ Len(macroRuns) < MaxRuns
               /\ Execute(id)
               /\ UNCHANGED <<macros, macroRest>>

\* A hand at the desk, whose report is taken in at once.
DeskTouched(a) == /\ macroHands < MaxMacroHands /\ macroHands' = macroHands + 1
                  /\ macroDesk' = [macroDesk EXCEPT ![a] = 1 - @]
                  /\ macroMirror' = [macroMirror EXCEPT ![a] = macroDesk'[a]]
                  /\ Crosses(a)
                  /\ macroMarks' = IF Suppressed THEN macroMarks ELSE macroMarks \cup {a}
                  /\ UNCHANGED <<macros, macroRuns, macroLinked>>

\* A Disconnect step's request, or the operator's: the sends fail from then on.
LinkLost == /\ macroLinked /\ macroHands < MaxMacroHands /\ macroHands' = macroHands + 1
            /\ macroLinked' = FALSE
            /\ UNCHANGED <<macros, macroRuns, macroMirror, macroDesk, macroMarks, macroCrossed>>

\* The firings that a change of the macros may take off their plan.
Spoil == macroRuns' = [r \in DOMAIN macroRuns |-> [macroRuns[r] EXCEPT !.spoilt = @ \/ Running(r)]]
DeleteMacro(id) == /\ id \in DOMAIN macros
                   /\ macros' = [m \in DOMAIN macros \ {id} |-> macros[m]]
                   /\ Spoil

MacroNext == \/ \E r \in DOMAIN macroRuns : RunStep(r)
             \/ \E id \in DOMAIN macros : Trigger(id)
             \/ \E id \in DOMAIN macros : DeleteMacro(id) /\ UNCHANGED macroRest
             \/ \E a \in MacroParams : DeskTouched(a)
             \/ LinkLost

MacroSpec == MacroInit /\ [][MacroNext]_macroVars

-----------------------------------------------------------------------------
(* Properties                                                              *)

MacroTypeOK ==
  /\ \A r \in DOMAIN macroRuns :
       /\ macroRuns[r].phase \in {"step", "send", "mirror", "over"}
       /\ \A level \in Range(macroRuns[r].levels) : level \in Seq(Step)
       /\ macroRuns[r].value \in {0, 1}
  /\ {macroMirror, macroDesk} \subseteq [MacroParams -> {0, 1}]
  /\ macroMarks \cup macroCrossed \subseteq MacroParams /\ macroLinked \in BOOLEAN
  /\ Len(macroRuns) <= MaxRuns /\ macroHands \in 0..MaxMacroHands

\* A firing does what its macro says, step by step and in order, whatever runs
\* beside it, with the macros it fires in their place as deep as the limit
\* lets it go, and a macro that fires itself comes to its end all the same
\* (execute_with_depth).  Left out is one that the link or an edit cut short.
RunsWhole == \A r \in DOMAIN macroRuns :
  LET run == macroRuns[r] IN
    run.spoilt \/ IF run.phase = "over" THEN run.did = run.plan ELSE IsPrefix(run.did, run.plan)

\* The desk does not echo what a macro sends: the mirror has it all the same
\* (send_parameter), and nothing that did not get through.  Left out is a
\* parameter that was written again between a send and its mirroring.
MirrorTrue == \A a \in MacroParams \ macroCrossed : Unmirrored(a) \/ macroMirror[a] = macroDesk[a]
=============================================================================
