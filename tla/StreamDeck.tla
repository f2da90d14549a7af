------------------------------ MODULE StreamDeck ------------------------------
(***************************************************************************)
(* The Stream Deck (src/console/streamdeck_engine.rs, model/streamdeck.rs, *)
(* ui/app.rs, ui/macros_tab.rs).  A thread owns the device: it takes        *)
(* commands, looks for the device now and then, and reads the keys.  A     *)
(* press goes to the window, which spawns a task: it takes the macro at    *)
(* the button's cursor and advances the cursor under one lock, runs the    *)
(* macro to its end, and only then has the key's face painted with the     *)
(* next.  Edits of a button, of a macro's name and of the show paint too,  *)
(* each from a task of its own.                                            *)
(*                                                                         *)
(* One device; a face is the name of a macro; colours go with it.          *)
(***************************************************************************)
EXTENDS MacroEngine, FiniteSets, TLC

CONSTANTS
  Keys,
  ButtonsOf,      \* with a show's macros, its buttons: the macro ids of each key, in order
  NewName,        \* what a macro may be renamed to
  Blank, Gone,    \* an empty face; "(deleted)"
  NoFaces,        \* no labels are waiting
  MaxDeckMoves    \* bound: keys going down, plugs pulled, switches, edits, shows opened

VARIABLES
  deckOn,         \* StreamDeckConfig.enabled
  deckSteps, deckAt,  \* the buttons: steps and current_step
  deckTarget,     \* streamdeck_target: what the thread has been told
  deckQueue,      \* commands on their way to the thread
  deckWanted, deckOpen, deckDown, deckPending,  \* the thread's wanted, connected, keys_down, pending_labels
  deckPlugged, deckHeld, deckReports, deckFaces,  \* the device
  deckEvents,     \* events on their way to the window
  deckTasks,      \* tasks under way
  deckMoves, deckTrouble,
  deckPressed,    \* history: presses not fired yet, held keys met by an opening counted
  deckMet,        \* history: keys held when the deck was opened
  deckFired,      \* history: the macros that a button has fired since its steps last changed
  deckCrossed     \* history: keys changed while a paint of theirs was being made

deckThread == <<deckWanted, deckOpen, deckDown, deckPending>>
deckDevice == <<deckPlugged, deckHeld, deckReports, deckFaces>>
deckConfig == <<deckOn, deckSteps, deckAt>>
deckHistory == <<deckPressed, deckMet, deckFired, deckCrossed>>
deckBounds == <<deckMoves, deckTrouble>>
deckVars == <<deckConfig, deckTarget, deckQueue, deckThread, deckDevice, deckEvents, deckTasks,
              deckBounds, deckHistory>>
boardVars == <<macroVars, deckVars>>


ASSUME DeckAssumption ==
  /\ Keys # {} /\ IsFiniteSet(Keys) /\ MaxDeckMoves \in Nat
  /\ \A l \in MacroLists : ButtonsOf[l] \in [Keys -> Seq(DOMAIN l)] /\ Blank \notin DOMAIN l

Blanks == [k \in Keys |-> Blank]
Names == {NewName, Blank, Gone} \cup UNION {{l[id].name : id \in DOMAIN l} : l \in MacroLists}
Unfired(at) == [k \in Keys |-> [from |-> at[k], ids |-> <<>>]]

DeckInit ==
  /\ MacroInit
  /\ deckOn = TRUE /\ deckSteps = ButtonsOf[macros] /\ deckAt = [k \in Keys |-> 0]
  /\ deckTarget = FALSE /\ deckQueue = <<>>
  /\ deckWanted = FALSE /\ deckOpen = FALSE /\ deckDown = {} /\ deckPending = NoFaces
  /\ deckPlugged = TRUE /\ deckHeld = {} /\ deckReports = <<>> /\ deckFaces = Blanks
  /\ deckEvents = <<>> /\ deckTasks = <<>> /\ deckMoves = 0 /\ deckTrouble = 0
  /\ deckPressed = [k \in Keys |-> 0] /\ deckMet = {} /\ deckFired = Unfired(deckAt) /\ deckCrossed = {}

-----------------------------------------------------------------------------
(* A button                                                                *)

\* The step under the cursor, or the last one when the cursor is beyond it.
NextStep(k) == IF deckSteps[k] = <<>> THEN Blank
           ELSE LET last == Len(deckSteps[k]) IN
                  deckSteps[k][IF deckAt[k] < last THEN deckAt[k] + 1 ELSE last]
Advanced(k) == (deckAt[k] + 1) % Len(deckSteps[k])
NameOf(id, gone) == IF id = Blank THEN Blank ELSE IF id \in DOMAIN macros THEN macros[id].name ELSE gone

\* The keys that a task is about to paint with what it has already read.
BeingPainted(k) == \E i \in DOMAIN deckTasks :
                     deckTasks[i].phase = "name" /\ k \in DOMAIN deckTasks[i].next
Changes(ks) == deckCrossed' = deckCrossed \cup {k \in ks : BeingPainted(k)}

-----------------------------------------------------------------------------
(* The device                                                              *)

ReportKeys(held) == deckReports' = IF deckOpen /\ deckPlugged THEN Append(deckReports, held) ELSE deckReports

Room == deckMoves + deckTrouble < MaxDeckMoves

KeyDown(k) == /\ k \notin deckHeld /\ Room /\ deckMoves' = deckMoves + 1
              /\ deckHeld' = deckHeld \cup {k} /\ ReportKeys(deckHeld')
              /\ deckPressed' = IF deckOpen /\ deckPlugged THEN [deckPressed EXCEPT ![k] = @ + 1] ELSE deckPressed
              /\ UNCHANGED <<macroVars, deckConfig, deckTarget, deckQueue, deckThread, deckPlugged, deckFaces,
                             deckEvents, deckTasks, deckTrouble, deckMet, deckFired, deckCrossed>>
KeyUp(k) == /\ k \in deckHeld /\ deckHeld' = deckHeld \ {k} /\ ReportKeys(deckHeld')
            /\ UNCHANGED <<macroVars, deckConfig, deckTarget, deckQueue, deckThread, deckPlugged, deckFaces,
                           deckEvents, deckTasks, deckBounds, deckHistory>>

Trouble == Room /\ deckTrouble' = deckTrouble + 1
PlugPulled == /\ deckPlugged /\ Trouble /\ deckPlugged' = FALSE /\ deckReports' = <<>>
          /\ UNCHANGED <<macroVars, deckConfig, deckTarget, deckQueue, deckThread, deckHeld, deckFaces,
                         deckEvents, deckTasks, deckMoves, deckHistory>>
\* The thread's next read fails long before the plug is back.
PlugBack == /\ ~deckPlugged /\ ~deckOpen /\ deckPlugged' = TRUE
          /\ UNCHANGED <<macroVars, deckConfig, deckTarget, deckQueue, deckThread, deckHeld, deckReports,
                         deckFaces, deckEvents, deckTasks, deckBounds, deckHistory>>

-----------------------------------------------------------------------------
(* The thread                                                              *)

\* The device is reset, labels that waited for it are painted, and the window
\* is told.  A key held meanwhile counts as pressed at the next report.
Open == /\ deckOpen' = TRUE /\ deckDown' = {} /\ deckReports' = <<>>
        /\ deckFaces' = IF deckPending = NoFaces THEN Blanks ELSE deckPending
        /\ deckPending' = NoFaces
        /\ deckEvents' = Append(deckEvents, [what |-> "connected"])
        /\ deckPressed' = [k \in Keys |-> IF k \in deckHeld THEN deckPressed[k] + 1 ELSE deckPressed[k]]
        /\ deckMet' = deckMet \cup deckHeld
StaysShut == UNCHANGED <<deckOpen, deckDown, deckPending, deckReports, deckFaces, deckEvents, deckPressed, deckMet>>

Connect == /\ deckWanted' = TRUE
           /\ \/ ~deckOpen /\ deckPlugged /\ Open
              \/ StaysShut   \* already open, not there, or it fails to open
Disconnect == /\ deckWanted' = FALSE /\ deckOpen' = FALSE
              /\ UNCHANGED <<deckDown, deckPending, deckReports, deckFaces, deckEvents, deckPressed, deckMet>>
Paint(faces) == /\ deckFaces' = [k \in Keys |-> IF deckOpen /\ k \in DOMAIN faces THEN faces[k] ELSE deckFaces[k]]
                /\ UNCHANGED <<deckWanted, deckOpen, deckDown, deckPending, deckReports, deckEvents, deckPressed, deckMet>>
\* A deck that is not open keeps a whole set of labels for later.
Keep(faces) == /\ deckPending' = faces
               /\ UNCHANGED <<deckWanted, deckOpen, deckDown, deckReports, deckFaces, deckEvents, deckPressed, deckMet>>

Command ==
  /\ deckQueue # <<>> /\ deckQueue' = Tail(deckQueue)
  /\ LET cmd == Head(deckQueue) IN
       \/ cmd.what = "connect" /\ Connect
       \/ cmd.what = "disconnect" /\ Disconnect
       \/ cmd.what = "paint" /\ (deckOpen \/ DOMAIN cmd.faces # Keys) /\ Paint(cmd.faces)
       \/ cmd.what = "paint" /\ ~deckOpen /\ DOMAIN cmd.faces = Keys /\ Keep(cmd.faces)
  /\ UNCHANGED <<macroVars, deckConfig, deckTarget, deckPlugged, deckHeld, deckTasks, deckBounds,
                 deckFired, deckCrossed>>

\* The scan finds the wanted device again.
FindAgain == /\ deckWanted /\ ~deckOpen /\ deckPlugged /\ Open
             /\ UNCHANGED <<macroVars, deckConfig, deckTarget, deckQueue, deckWanted, deckPlugged, deckHeld,
                            deckTasks, deckBounds, deckFired, deckCrossed>>

\* Each report has all the keys; only one that has gone down is a press.
HeldToo(before, now) == now
NewlyPressed(before, now) == now \ before
ReadKeys ==
  /\ deckOpen /\ deckReports # <<>> /\ deckReports' = Tail(deckReports)
  /\ deckDown' = Head(deckReports)
  /\ deckEvents' = deckEvents \o SetToSeq({[what |-> "pressed", key |-> k] : k \in NewlyPressed(deckDown, deckDown')})
  /\ UNCHANGED <<macroVars, deckConfig, deckTarget, deckQueue, deckWanted, deckOpen, deckPending, deckPlugged,
                 deckHeld, deckFaces, deckTasks, deckBounds, deckHistory>>
ReadFails ==
  /\ deckOpen /\ ~deckPlugged /\ deckOpen' = FALSE
  /\ UNCHANGED <<macroVars, deckConfig, deckTarget, deckQueue, deckWanted, deckDown, deckPending, deckDevice,
                 deckEvents, deckTasks, deckBounds, deckHistory>>

-----------------------------------------------------------------------------
(* The window and the tasks it spawns                                      *)

TellThread(what) == deckQueue' = Append(deckQueue, what)
Spawn(task) == deckTasks' = Append(deckTasks, task)
Becoming(i, task) == deckTasks' = [deckTasks EXCEPT ![i] = task]

\* The window waits for the names of a whole deck.
WindowFree == \A i \in DOMAIN deckTasks : deckTasks[i].does # "all"
PaintAll == Spawn([does |-> "all", phase |-> "name", next |-> [k \in Keys |-> NextStep(k)]])

SyncTarget == /\ WindowFree /\ deckTarget # deckOn /\ deckTarget' = deckOn
        /\ TellThread([what |-> IF deckOn THEN "connect" ELSE "disconnect"])
        /\ UNCHANGED <<macroVars, deckConfig, deckThread, deckDevice, deckEvents, deckTasks, deckBounds, deckHistory>>

AfterOpeningNothing == UNCHANGED deckTasks
AfterOpening == IF deckOpen THEN PaintAll ELSE UNCHANGED deckTasks
HandleEvent ==
  /\ WindowFree /\ deckEvents # <<>> /\ deckEvents' = Tail(deckEvents)
  /\ LET event == Head(deckEvents) IN
       \/ /\ event.what = "pressed" /\ UNCHANGED macroMarks
          /\ Spawn([does |-> "press", phase |-> "take", key |-> event.key, engine |-> macroLinked])
       \/ event.what = "connected" /\ PaintAll /\ UNCHANGED macroMarks
       \/ event.what = "opened" /\ AfterOpening /\ macroMarks' = {}
  /\ UNCHANGED <<macros, macroRuns, macroMirror, macroDesk, macroLinked, macroHands, macroCrossed, deckConfig,
                 deckTarget, deckQueue, deckThread, deckDevice, deckBounds, deckHistory>>

\* A press: the macro taken and the cursor moved on under one lock.
Take(i) ==
  /\ deckTasks[i].does = "press" /\ deckTasks[i].phase = "take"
  /\ LET k == deckTasks[i].key  id == NextStep(k) IN
       IF ~deckOn \/ id = Blank
       THEN deckTasks' = RemoveAt(deckTasks, i) /\ UNCHANGED <<deckAt, deckPressed, deckFired, deckCrossed>>
       ELSE /\ deckAt' = [deckAt EXCEPT ![k] = Advanced(k)]
            /\ deckFired' = [deckFired EXCEPT ![k].ids = Append(@, id)]
            /\ deckPressed' = [deckPressed EXCEPT ![k] = @ - 1]
            /\ Changes({k})
            /\ Becoming(i, [does |-> "press", key |-> k, engine |-> deckTasks[i].engine,
                            phase |-> "fire", id |-> id])
  /\ UNCHANGED <<macroVars, deckOn, deckSteps, deckTarget, deckQueue, deckThread, deckDevice, deckEvents, deckBounds,
                 deckMet>>

\* The macro runs in the task, unless it or the connection has gone.
Fire(i) ==
  /\ deckTasks[i].does = "press" /\ deckTasks[i].phase = "fire" /\ Len(macroRuns) < MaxRuns
  /\ LET task == deckTasks[i]
         waits(run) == Becoming(i, [does |-> "press", phase |-> "run", key |-> task.key, run |-> run]) IN
       IF task.engine /\ task.id \in DOMAIN macros
       THEN Execute(task.id) /\ waits(Len(macroRuns) + 1)
       ELSE waits(0) /\ UNCHANGED macroRuns
  /\ UNCHANGED <<macros, macroRest, deckConfig,
                 deckTarget, deckQueue, deckThread, deckDevice, deckEvents, deckBounds, deckHistory>>

ReadNext(i) ==
  /\ deckTasks[i].does = "press" /\ deckTasks[i].phase = "run"
  /\ deckTasks[i].run # 0 => ~Running(deckTasks[i].run)
  /\ LET k == deckTasks[i].key IN
       Becoming(i, [does |-> "press", phase |-> "name", next |-> [x \in {k} |-> NextStep(k)]])
  /\ UNCHANGED <<macroVars, deckConfig, deckTarget, deckQueue, deckThread, deckDevice, deckEvents, deckBounds, deckHistory>>

\* The names are looked up under another lock, and the paint is queued.
PaintNames(i) ==
  /\ deckTasks[i].phase = "name"
  /\ LET task == deckTasks[i]
         gone == IF task.does = "edit" THEN Blank ELSE Gone IN
       TellThread([what |-> "paint", faces |-> [k \in DOMAIN task.next |-> NameOf(task.next[k], gone)]])
  /\ deckTasks' = RemoveAt(deckTasks, i)
  /\ UNCHANGED <<macroVars, deckConfig, deckTarget, deckThread, deckDevice, deckEvents, deckBounds, deckHistory>>

\* A step added, deleted or moved; a cursor that a deletion leaves beyond the
\* end goes back to the first.
Edits(k) ==
  LET steps == deckSteps[k]  at == deckAt[k]  last == Len(steps) IN
    {[steps |-> Append(steps, id), at |-> at] : id \in DOMAIN macros}
    \cup {[steps |-> RemoveAt(steps, i), at |-> IF at >= last - 1 THEN 0 ELSE at] : i \in 1..last}
    \cup {[steps |-> InsertAt(RemoveAt(steps, from), to, steps[from]), at |-> at] :
            from \in 1..last, to \in 1..last}

EditButton(k) ==
  /\ Trouble
  /\ \E edit \in Edits(k) :
       /\ deckSteps' = [deckSteps EXCEPT ![k] = edit.steps] /\ deckAt' = [deckAt EXCEPT ![k] = edit.at]
       /\ deckFired' = [deckFired EXCEPT ![k] = [from |-> edit.at, ids |-> <<>>]]
  /\ Changes({k})
  /\ Spawn([does |-> "edit", phase |-> "name", next |-> [x \in {k} |-> NextStep(k)']])
  /\ UNCHANGED <<macroVars, deckOn, deckTarget, deckQueue, deckThread, deckDevice, deckEvents, deckMoves, deckPressed, deckMet>>

\* A new name, then the keys that show the macro, under the button's lock.
Rename(id) ==
  /\ Trouble /\ id \in DOMAIN macros /\ macros[id].name # NewName
  /\ macros' = [macros EXCEPT ![id].name = NewName]
  /\ Spawn([does |-> "rename", phase |-> "push", id |-> id])
  /\ UNCHANGED <<macroRuns, macroRest, deckConfig,
                 deckTarget, deckQueue, deckThread, deckDevice, deckEvents, deckMoves, deckHistory>>
PushName(i) ==
  /\ deckTasks[i].phase = "push"
  /\ LET shows == {k \in Keys : NextStep(k) = deckTasks[i].id}
         one(k) == [what |-> "paint", faces |-> [x \in {k} |-> NewName]] IN
       deckQueue' = deckQueue \o SetToSeq({one(k) : k \in shows})
  /\ deckTasks' = RemoveAt(deckTasks, i)
  /\ UNCHANGED <<macroVars, deckConfig, deckTarget, deckThread, deckDevice, deckEvents, deckBounds, deckHistory>>

Delete(id) ==
  /\ Trouble /\ DeleteMacro(id)
  /\ UNCHANGED <<macroRest, deckConfig, deckTarget, deckQueue, deckThread, deckDevice,
                 deckEvents, deckTasks, deckMoves, deckHistory>>

\* Another show, with the deck on or off, and then, in the window, what
\* after_show_switch does.
OpenShow ==
  /\ WindowFree /\ Trouble /\ deckOn' \in BOOLEAN
  /\ macros' \in MacroLists /\ Spoil
  /\ deckSteps' = ButtonsOf[macros'] /\ deckAt' = [k \in Keys |-> 0] /\ deckFired' = Unfired(deckAt')
  /\ deckEvents' = Append(deckEvents, [what |-> "opened"])
  /\ deckCrossed' = IF \E i \in DOMAIN deckTasks : deckTasks[i].phase = "push" THEN Keys
                    ELSE deckCrossed \cup {k \in Keys : BeingPainted(k)}
  /\ UNCHANGED <<macroRest, deckTarget, deckQueue, deckThread, deckDevice, deckTasks, deckMoves,
                 deckPressed, deckMet>>

\* The button tells the thread at once (to connect, if it has seen the device),
\* and SyncTarget tells it again.
Switch == /\ Trouble /\ deckOn' = ~deckOn
          /\ \/ deckOn' /\ TellThread([what |-> "connect"])
             \/ deckOn' /\ UNCHANGED deckQueue
             \/ ~deckOn' /\ TellThread([what |-> "disconnect"])
          /\ UNCHANGED <<macroVars, deckSteps, deckAt, deckTarget, deckThread, deckDevice,
                         deckEvents, deckTasks, deckMoves, deckHistory>>

\* A firing that the trigger listener begins changes nothing of the deck's.
MacroStep == /\ (\E r \in DOMAIN macroRuns : RunStep(r)) \/ LinkLost
             /\ UNCHANGED deckVars

DeckNext == \/ MacroStep
            \/ \E k \in Keys : KeyDown(k) \/ KeyUp(k) \/ EditButton(k)
            \/ PlugPulled \/ PlugBack \/ Command \/ FindAgain \/ ReadKeys \/ ReadFails
            \/ SyncTarget \/ HandleEvent \/ OpenShow \/ Switch
            \/ \E i \in DOMAIN deckTasks : Take(i) \/ Fire(i) \/ ReadNext(i) \/ PaintNames(i) \/ PushName(i)
            \/ \E id \in DOMAIN macros : Rename(id) \/ Delete(id)

DeckSpec == DeckInit /\ [][DeckNext]_boardVars

-----------------------------------------------------------------------------
(* Properties                                                              *)

DeckTypeOK ==
  /\ MacroTypeOK
  /\ {deckOn, deckTarget, deckWanted, deckOpen, deckPlugged} \subseteq BOOLEAN
  /\ \A k \in Keys : deckAt[k] \in 0..Len(deckSteps[k])
  /\ {deckDown, deckHeld, deckMet, deckCrossed} \cup Range(deckReports) \subseteq SUBSET Keys
  /\ deckFaces \in [Keys -> Names] /\ deckPending \in [Keys -> Names] \cup {NoFaces}
  /\ \A i \in DOMAIN deckTasks : deckTasks[i].phase \in {"take", "fire", "run", "name", "push"}
  /\ {deckMoves, deckTrouble} \subseteq Nat /\ deckMoves + deckTrouble <= MaxDeckMoves

\* Every press fires the macro that comes next, one after the other and round
\* again however the presses' tasks overlap, and a key that stays down while
\* another is pressed fires nothing (handle_streamdeck_button, newly_pressed).
\* Undisturbed, no press is lost.
DeckQuiet == /\ deckQueue = <<>> /\ deckEvents = <<>> /\ deckReports = <<>> /\ deckTasks = <<>>
FiresInTurn == \A k \in Keys :
  /\ \A i \in DOMAIN deckFired[k].ids :
       deckFired[k].ids[i] = deckSteps[k][((deckFired[k].from + i - 1) % Len(deckSteps[k])) + 1]
  /\ deckPressed[k] >= 0
  /\ DeckQuiet /\ deckTrouble = 0 /\ deckSteps[k] # <<>> => k \in deckMet \/ deckPressed[k] = 0

\* What is on its way to a key's face.
Owed(k) ==
  \/ \E i \in DOMAIN deckEvents : deckEvents[i].what \in {"connected", "opened"}
  \/ \E i \in DOMAIN deckQueue : deckQueue[i].what = "paint" /\ k \in DOMAIN deckQueue[i].faces
  \/ BeingPainted(k)
  \/ \E i \in DOMAIN deckTasks : deckTasks[i].phase = "push" /\ deckTasks[i].id = NextStep(k)
Firing(k) == \E i \in DOMAIN deckTasks :
               /\ deckTasks[i].does = "press" /\ deckTasks[i].phase \in {"fire", "run"}
               /\ deckTasks[i].key = k

\* An open deck's face is the macro that the next press fires, or it is about
\* to be: whatever presses, edits, plugs pulled and shows opened have crossed,
\* no paint is lost.  Left out is a key that was changed while a paint of it
\* was being made, and a macro that was deleted (nothing repaints it).
FaceRight(k) == deckFaces[k] = NameOf(NextStep(k), Gone)
FaceKept == deckOpen => \A k \in Keys :
  \/ FaceRight(k) \/ Owed(k) \/ Firing(k) \/ k \in deckCrossed
  \/ NextStep(k) \notin DOMAIN macros \cup {Blank}

\* "The LCD on the button always displays the name of the next-to-fire macro
\* so the operator can read what the next press will do"
\* (src/src/model/streamdeck.rs:6): with no paint on its way.  No run checks
\* it: the code does not keep it while a macro runs (README, known divergences).
NextOnFace == deckOpen => \A k \in Keys : FaceRight(k) \/ Owed(k) \/ k \in deckCrossed
=============================================================================
