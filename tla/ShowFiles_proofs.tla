--------------------------- MODULE ShowFiles_proofs ---------------------------
(***************************************************************************)
(* What is on disk is whole and its owner's, what counts as saved is       *)
(* there, and no show is lost to a quit or a switch: theorems about        *)
(* ShowFiles for any number of files, parts, copies and saves at once.     *)
(*                                                                         *)
(* Tasks take the parts of a show one lock at a time, so everything rests  *)
(* on what cannot happen between two parts: a save and a switch keep out   *)
(* of each other's way, the autosave sees that a switch has begun, and the *)
(* outcome of a task is drained before the next may begin.                 *)
(***************************************************************************)
EXTENDS ShowFiles, TLAPS

-----------------------------------------------------------------------------
(* The types, of the tasks and the queue as well.                           *)

SwitchKinds == {"loaded", "created", "corrupt"}
SaveKinds == {"saved", "error"}
Queued == {uiQueue[i] : i \in DOMAIN uiQueue}

\* What can have been written up to now.
Now == [Parts -> [show : Shows, rev : 0..edits]]
Places == 1..(Len(Order) + 1)
SaveTasks == [pc : {"build", "write", "rename", "report"}, target : Files, part : Places,
              content : Now]
Sources == {File(f) : f \in Files}
           \cup {Copy(kind, f, i) : kind \in {"copy", "backup"}, f \in Files, i \in 1..Keep}
Loads == [pc : {"load", "apply", "backup", "report"}, from : Sources \cup {NoContent},
          to : Shows, part : Places, content : Now]
AutoTasks == [pc : {"build", "judge", "write"}, path : Shows, baseline : Now \cup {NoContent},
              prev : Now \cup {NoContent}, part : Places, content : Now, moved : BOOLEAN]
Events == [kind : {"error", "created"}]
          \cup [kind : {"saved"}, path : Files, content : Now]
          \cup [kind : {"loaded"}, path : Files, recovered : BOOLEAN]
          \cup [kind : {"corrupt"}, path : Files]
          \cup [kind : {"autosaved"}, content : Now \cup {NoContent}]

PlainTypes ==
  /\ app \in {"up", "leaving", "down"} /\ session \in Sessions
  /\ consent \in BOOLEAN /\ edits \in 0..MaxEdits
  /\ prompt \in {NoPrompt, ToQuit, ToNew} \cup {ToOpen(File(f), f) : f \in Files}
  /\ dialog \in [path : Shows, recovered : BOOLEAN] /\ (dialog # NoDialog => dialog.path \in Files)
  /\ showPath \in Shows /\ claims \in [Files -> SUBSET Shows]
ShowTypes ==
  /\ memory \in Now
  /\ baseline \in Now \cup {NoContent} /\ lastAuto \in Now \cup {NoContent}
StoreTypes ==
  /\ disk \in [Files -> Now \cup {NoContent, Corrupt}]
  /\ copies \in [Series -> Seq(Now)] /\ \A x \in Series : Len(copies[x]) <= Keep
  /\ backups \in [Files -> Seq(Now)] /\ \A f \in Files : Len(backups[f]) <= Keep
SaveTypes ==
  /\ saves \in [Slots -> SaveTasks \cup {Off}]
  /\ \A s \in Slots : saves[s].pc = "build" => saves[s].part <= Len(Order)
  /\ \A s \in Slots : saves[s].pc \in {"write", "rename", "report"} =>
                        saves[s].part = Len(Order) + 1
SwitchTypes ==
  /\ switch \in Loads \cup {Off}
  /\ switch.pc = "load" => switch.part = 1
  /\ switch.pc = "apply" => switch.part <= Len(Order)
  /\ switch.pc \in {"backup", "report"} => switch.part = Len(Order) + 1
AutoTypes ==
  /\ auto \in AutoTasks \cup {Off}
  /\ auto.pc = "build" => auto.part <= Len(Order)
  /\ auto.pc \in {"judge", "write"} => auto.part = Len(Order) + 1
QueueTypes == uiQueue \in Seq(Events)

\* There is something to be read where a switch is sent.
ReadableIn(files, autosaves, loads, from, to) ==
  /\ to \in Files
  /\ \/ from = File(to) /\ files[to] # NoContent
     \/ \E kind \in {"copy", "backup"}, i \in 1..Keep :
          /\ from = Copy(kind, to, i)
          /\ i <= Len(IF kind = "copy" THEN autosaves[to] ELSE loads[to])
Readable(from, to) == ReadableIn(disk, copies, backups, from, to)
ReadOK ==
  /\ switch.pc = "load" => Readable(switch.from, switch.to)
  /\ switch.pc = "apply" /\ switch.from # NoContent /\ switch.from.kind = "file" =>
       switch.to \in Files /\ disk[switch.to] \in Now
  /\ switch.pc = "backup" => switch.to \in Files /\ disk[switch.to] \in Now
  /\ prompt.after = "open" => Readable(prompt.from, prompt.to)

TypeInv == /\ PlainTypes /\ ShowTypes /\ StoreTypes /\ SaveTypes /\ SwitchTypes /\ AutoTypes
           /\ QueueTypes /\ ReadOK

\* The order of the parts is a sequence of at least one.
LEMMA OrderOK ==
  /\ Order \in Seq(Parts) /\ Len(Order) \in Nat /\ Len(Order) >= 1 /\ DOMAIN Order = 1..Len(Order)
  /\ \A i \in 1..Len(Order) : Order[i] \in Parts
  /\ \A p \in Parts : \E i \in 1..Len(Order) : Order[i] = p
<1>1. /\ Order \in Seq(Parts) /\ Len(Order) \in Nat /\ DOMAIN Order = 1..Len(Order)
      /\ \A i \in 1..Len(Order) : Order[i] \in Parts
  BY FilesAssumption
<1>2. \A p \in Parts : \E i \in 1..Len(Order) : Order[i] = p
  BY <1>1, FilesAssumption
<1>3. PICK p \in Parts : TRUE
  BY FilesAssumption
<1>. QED BY <1>1, <1>2, <1>3

\* An event more at the end of the queue.
LEMMA SendOK ==
  ASSUME QueueTypes, NEW e, uiQueue' = uiQueue \o <<e>>
  PROVE  /\ e \in Events => uiQueue' \in Seq(Events)
         /\ Queued' = Queued \cup {e}
         /\ DOMAIN uiQueue = 1..Len(uiQueue) /\ DOMAIN uiQueue' = 1..(Len(uiQueue) + 1)
         /\ Len(uiQueue) \in Nat /\ uiQueue'[Len(uiQueue) + 1] = e
         /\ \A i \in 1..Len(uiQueue) : uiQueue'[i] = uiQueue[i]
<1>1. uiQueue \in Seq(Events)
  BY DEF QueueTypes
<1>. DEFINE n == Len(uiQueue)
<1>2. n \in Nat /\ DOMAIN uiQueue = 1..n
  BY <1>1
<1>3. /\ DOMAIN uiQueue' = 1..(n + 1) /\ uiQueue'[n + 1] = e
      /\ \A i \in 1..n : uiQueue'[i] = uiQueue[i]
  BY <1>1
<1>4. Queued' = Queued \cup {e}
  <2>1. ASSUME NEW x \in Queued' PROVE x \in Queued \cup {e}
    BY <1>2, <1>3, <2>1 DEF Queued
  <2>2. Queued \subseteq Queued' /\ e \in Queued'
    BY <1>2, <1>3 DEF Queued
  <2>. QED BY <2>1, <2>2
<1>5. e \in Events => uiQueue' \in Seq(Events)
  BY <1>1
<1>. QED BY <1>2, <1>3, <1>4, <1>5

\* An event less at its head.
LEMMA DrainOK ==
  ASSUME QueueTypes, uiQueue # <<>>, uiQueue' = Tail(uiQueue)
  PROVE  /\ Event \in Events /\ uiQueue' \in Seq(Events)
         /\ Event = uiQueue[1] /\ Event \in Queued /\ Queued' \subseteq Queued
         /\ Queued \subseteq Queued' \cup {Event}
         /\ DOMAIN uiQueue = 1..Len(uiQueue) /\ DOMAIN uiQueue' = 1..(Len(uiQueue) - 1)
         /\ Len(uiQueue) \in Nat /\ Len(uiQueue) >= 1
         /\ \A i \in 1..(Len(uiQueue) - 1) : uiQueue'[i] = uiQueue[i + 1]
<1>1. uiQueue \in Seq(Events)
  BY DEF QueueTypes
<1>. DEFINE n == Len(uiQueue)
<1>2. n \in Nat /\ n >= 1 /\ DOMAIN uiQueue = 1..n /\ Event = uiQueue[1] /\ Event \in Events
  BY <1>1 DEF Event
<1>3. /\ DOMAIN uiQueue' = 1..(n - 1) /\ uiQueue' \in Seq(Events)
      /\ \A i \in 1..(n - 1) : uiQueue'[i] = uiQueue[i + 1]
  BY <1>1
<1>4. Queued' \subseteq Queued
  <2>1. SUFFICES ASSUME NEW i \in 1..(n - 1) PROVE uiQueue'[i] \in Queued
    BY <1>3 DEF Queued
  <2>2. i + 1 \in 1..n
    BY <1>2
  <2>. QED BY <1>2, <1>3, <2>2 DEF Queued
<1>5. Queued \subseteq Queued' \cup {Event}
  <2>1. SUFFICES ASSUME NEW i \in 1..n, i # 1 PROVE uiQueue[i] \in Queued'
    BY <1>2 DEF Queued
  <2>2. i - 1 \in 1..(n - 1) /\ uiQueue'[i - 1] = uiQueue[i]
    BY <1>2, <1>3, <2>1
  <2>. QED BY <1>3, <2>2 DEF Queued
<1>6. Event \in Queued
  BY <1>2 DEF Queued
<1>. QED BY <1>2, <1>3, <1>4, <1>5, <1>6

\* Newest puts a copy in front and keeps the others behind it, as many as may be kept.
LEMMA NewestOK ==
  ASSUME NEW S, NEW c \in S, NEW series \in Seq(S), Len(series) <= Keep
  PROVE  /\ Newest(c, series) \in Seq(S)
         /\ Len(Newest(c, series)) <= Keep /\ Len(Newest(c, series)) >= Len(series)
         /\ \A i \in DOMAIN Newest(c, series) :
              \/ Newest(c, series)[i] = c
              \/ \E j \in DOMAIN series : Newest(c, series)[i] = series[j]
<1>. DEFINE n == Len(series)
            k == IF n < Keep THEN n + 1 ELSE Keep
            all == <<c>> \o series
            new == SubSeq(all, 1, k)
<1>1. n \in Nat /\ Keep \in Nat /\ Keep >= 1 /\ DOMAIN series = 1..n
  BY FilesAssumption
<1>2. /\ all \in Seq(S) /\ Len(all) = n + 1 /\ all[1] = c
      /\ \A i \in 2..(n + 1) : all[i] = series[i - 1]
  BY <1>1
<1>3. k \in 1..(n + 1) /\ k <= Keep /\ k >= n
  BY <1>1
<1>4. /\ new \in Seq(S) /\ Len(new) = k /\ DOMAIN new = 1..k
      /\ \A i \in 1..k : new[i] = all[i]
  <2>. HIDE DEF all, k
  <2>. QED BY <1>1, <1>2, <1>3
<1>5. ASSUME NEW i \in 1..k PROVE new[i] = c \/ \E j \in DOMAIN series : new[i] = series[j]
  <2>1. CASE i = 1
    BY <1>2, <1>4, <2>1
  <2>2. CASE i # 1
    <3>1. i \in 2..(n + 1) /\ i - 1 \in 1..n
      BY <1>1, <1>3, <2>2
    <3>. QED BY <1>1, <1>2, <1>4, <3>1
  <2>. QED BY <2>1, <2>2
<1>6. Newest(c, series) = new
  BY DEF Newest
<1>. HIDE DEF new, all, k
<1>. QED BY <1>1, <1>3, <1>4, <1>5, <1>6

-----------------------------------------------------------------------------
(* Which steps change what.                                                 *)

\* An Open, a New, an answer to the prompt or a recovery begins a switch.
Targets == {ToNew} \cup {ToOpen(from, f) : from \in Sources, f \in Files}
Shifts(action, path) ==
  /\ app = "up" /\ MaySwitch /\ BeginSwitch(action, path)
  /\ action.after = "open" => Readable(action.from, action.to)
  /\ UNCHANGED <<memory, edits, copies, backups, saves, uiQueue, dialog>>
  /\ prompt' = NoPrompt
  /\ \/ May("switch in dialog", dialog # NoDialog)
     \/ prompt \notin {NoPrompt, ToQuit}
     \/ action.after = "open" /\ action.to = dialog.path
AnyShift == \E action \in Targets, path \in Shows : Shifts(action, path)

\* What the operator asks for, and the prompt asks about, can be read.
LEMMA PromptTargets ==
  ASSUME TypeInv
  PROVE  /\ prompt \notin {NoPrompt, ToQuit} =>
              prompt \in Targets /\ (prompt.after = "open" => Readable(prompt.from, prompt.to))
         /\ \A f \in Files : ToOpen(File(f), f) \in Targets
         /\ ToNew \in Targets /\ ToNew.after = "new" /\ ToQuit.after = "quit"
         /\ \A from \in Sources, f \in Files :
              LET open == ToOpen(from, f) IN
              open \in Targets /\ open.after = "open" /\ open.from = from /\ open.to = f
<1>1. \A f \in Files : File(f) \in Sources
  BY DEF Sources
<1>2. \A from \in Sources, f \in Files : ToOpen(from, f) \in Targets
  BY DEF Targets
<1>3. prompt \in {NoPrompt, ToQuit, ToNew} \cup {ToOpen(File(f), f) : f \in Files}
  BY DEF TypeInv, PlainTypes
<1>4. prompt.after = "open" => Readable(prompt.from, prompt.to)
  BY DEF TypeInv, ReadOK
<1>5. ToNew \in Targets /\ ToNew.after = "new" /\ ToQuit.after = "quit"
  BY DEF Targets, ToNew, ToQuit
<1>6. \A from \in Sources, f \in Files :
        ToOpen(from, f).after = "open" /\ ToOpen(from, f).from = from /\ ToOpen(from, f).to = f
  BY DEF ToOpen
<1>. QED BY <1>1, <1>2, <1>3, <1>4, <1>5, <1>6

\* So a switch begins with one of those actions, or is left alone.
LEMMA Begins ==
  ASSUME TypeInv,
         \/ New \/ \E f \in Files : Open(f) \/ PromptSave(f)
         \/ PromptDiscard
         \/ \E kind \in {"copy", "backup"}, f \in Files, i \in 1..Keep : Recover(Copy(kind, f, i))
  PROVE  AnyShift \/ UNCHANGED <<switch, auto>>
<1>0. showPath \in Shows
  BY DEF TypeInv, PlainTypes
<1>1. ASSUME NEW action \in Targets, AskOrSwitch(action),
             action.after = "open" => Readable(action.from, action.to)
      PROVE  AnyShift \/ UNCHANGED <<switch, auto>>
  <2>1. CASE HasUnsavedChanges
    BY <1>1, <2>1 DEF AskOrSwitch
  <2>2. CASE ~HasUnsavedChanges
    <3>1. Shifts(action, showPath)
      BY <1>1, <2>2 DEF AskOrSwitch, Shifts, Free, stores, bounds
    <3>. QED BY <1>0, <3>1 DEF AnyShift
  <2>. QED BY <2>1, <2>2
<1>2. CASE New
  BY <1>1, <1>2, PromptTargets DEF New
<1>3. ASSUME NEW f \in Files, Open(f) PROVE AnyShift \/ UNCHANGED <<switch, auto>>
  <2>1. File(f) \in Sources /\ ToOpen(File(f), f) \in Targets
    BY PromptTargets DEF Sources
  <2>2. Readable(File(f), f) /\ AskOrSwitch(ToOpen(File(f), f))
    BY <1>3 DEF Open, Readable, ReadableIn
  <2>. QED BY <1>1, <2>1, <2>2, PromptTargets
<1>4. ASSUME NEW path \in Shows, Asked, Continue(path),
             UNCHANGED <<memory, edits, copies, backups, saves, uiQueue, dialog>>
      PROVE  AnyShift \/ UNCHANGED <<switch, auto>>
  <2>1. CASE prompt = ToQuit
    BY <1>4, <2>1 DEF Continue
  <2>2. CASE prompt # ToQuit
    <3>1. prompt \in Targets /\ (prompt.after = "open" => Readable(prompt.from, prompt.to))
      BY <1>4, <2>2, PromptTargets DEF Asked
    <3>2. Shifts(prompt, path)
      BY <1>4, <2>2, <3>1 DEF Continue, Asked, Shifts
    <3>. QED BY <3>1, <3>2 DEF AnyShift
  <2>. QED BY <2>1, <2>2
<1>5. CASE PromptDiscard
  BY <1>0, <1>4, <1>5 DEF PromptDiscard, stores, bounds
<1>6. ASSUME NEW f \in Files, PromptSave(f) PROVE AnyShift \/ UNCHANGED <<switch, auto>>
  BY <1>4, <1>6 DEF PromptSave, bounds, Shows
<1>7. ASSUME NEW kind \in {"copy", "backup"}, NEW f \in Files, NEW i \in 1..Keep,
             Recover(Copy(kind, f, i))
      PROVE  AnyShift
  <2>. DEFINE from == Copy(kind, f, i)
  <2>1. from \in Sources /\ from.kind = kind /\ from.file = f /\ from.at = i
    BY DEF Sources, Copy
  <2>2. dialog.path = f /\ i <= Len(IF kind = "copy" THEN copies[f] ELSE backups[f])
    BY <1>7, <2>1 DEF Recover
  <2>3. Readable(from, f)
    BY <2>2 DEF Readable, ReadableIn
  <2>4. /\ ToOpen(from, f) \in Targets /\ ToOpen(from, f).after = "open"
        /\ ToOpen(from, f).from = from /\ ToOpen(from, f).to = f
    BY <2>1, PromptTargets
  <2>5. Shifts(ToOpen(from, f), showPath)
    BY <1>7, <2>2, <2>3, <2>4 DEF Recover, Shifts, Free, stores, bounds
  <2>. QED BY <1>0, <2>4, <2>5 DEF AnyShift
<1>. QED BY <1>2, <1>3, <1>5, <1>6, <1>7

\* The managers are touched by an edit, by the switch and by a restart.
LEMMA MemoryMoves ==
  ASSUME [ShowNext]_showVars
  PROVE  /\ UNCHANGED memory \/ (\E p \in Parts : Edit(p)) \/ SwitchApply \/ Restart
         /\ UNCHANGED edits \/ (\E p \in Parts : Edit(p))
<1>. USE DEF ShowNext, showVars, ui, stores, tasks, history, bounds, Operator, SaveTask,
  SwitchTasks, AutosaveTask, DrainEvents, Save, SaveAs, Open, New, AskOrSwitch, Recover, Quit,
  PromptCancel, PromptDiscard, PromptSave, SaveToOriginal, DialogCancel, SaveBuild, SaveWrite,
  SaveRename, SaveReport, SaveFails, SwitchLoad, SwitchBackup, SwitchReport, AutosaveStart,
  AutosaveBuild, AutosaveJudge, AutosaveWrite, AutosaveFails, OnLoaded, OnCreated, OnSaved,
  OnAutosaved, OnCorrupt, OnError, Exit, Crash
<1>1. UNCHANGED memory \/ (\E p \in Parts : Edit(p)) \/ SwitchApply \/ Restart
  OBVIOUS
<1>2. UNCHANGED edits \/ (\E p \in Parts : Edit(p))
  BY DEF Restart, SwitchApply
<1>. QED BY <1>1, <1>2

\* The files by the last step of a save and by the prompt's; the copies by the autosave
\* and by a load.
LEMMA StoreMoves ==
  ASSUME [ShowNext]_showVars
  PROVE  /\ UNCHANGED disk \/ (\E s \in Slots : SaveRename(s)) \/ (\E f \in Files : PromptSave(f))
         /\ UNCHANGED copies \/ AutosaveWrite
         /\ UNCHANGED backups \/ SwitchBackup
<1>. USE DEF ShowNext, showVars, ui, stores, tasks, history, bounds, Operator, SaveTask,
  SwitchTasks, AutosaveTask, DrainEvents, Edit, Save, SaveAs, Open, New, AskOrSwitch, Recover, Quit,
  PromptCancel, PromptDiscard, SaveToOriginal, DialogCancel, SaveBuild, SaveWrite,
  SaveReport, SaveFails, SwitchLoad, SwitchApply, SwitchReport, AutosaveStart,
  AutosaveBuild, AutosaveJudge, AutosaveFails, OnLoaded, OnCreated, OnSaved,
  OnAutosaved, OnCorrupt, OnError, Exit, Crash, Restart
<1>1. UNCHANGED disk \/ (\E s \in Slots : SaveRename(s)) \/ (\E f \in Files : PromptSave(f))
  BY DEF SwitchBackup, AutosaveWrite
<1>2. UNCHANGED copies \/ AutosaveWrite
  BY DEF SwitchBackup, SaveRename, PromptSave
<1>3. UNCHANGED backups \/ SwitchBackup
  BY DEF AutosaveWrite, SaveRename, PromptSave
<1>. QED BY <1>1, <1>2, <1>3

\* A Save, a Save As or the save of what was recovered begins a save.
Starts(target) ==
  /\ app = "up" /\ MaySave /\ StartSave(target)
  /\ UNCHANGED <<memory, edits, disk, copies, backups, showPath, switch, auto, uiQueue>>
  /\ \/ target = showPath
     \/ {memory[p].show : p \in Parts} \subseteq claims'[target]
     \/ dialog.recovered /\ target = dialog.path
AnyStart == \E f \in Files : Starts(f)

\* The app ends.
Stops == Exit \/ Crash

\* Each task moves by its own steps, by what begins it and with the end of the app.
LEMMA TaskMoves ==
  ASSUME TypeInv, [ShowNext]_showVars
  PROVE  /\ UNCHANGED saves \/ AnyStart \/ (\E s \in Slots : SaveTask(s) \/ SaveFails(s)) \/ Stops
         /\ UNCHANGED switch \/ AnyShift \/ SwitchTasks \/ Stops
         /\ UNCHANGED auto \/ AnyShift \/ AutosaveStart \/ AutosaveTask \/ AutosaveFails \/ Stops
<1>. DEFINE Goal ==
         /\ UNCHANGED saves \/ AnyStart \/ (\E s \in Slots : SaveTask(s) \/ SaveFails(s)) \/ Stops
         /\ UNCHANGED switch \/ AnyShift \/ SwitchTasks \/ Stops
         /\ UNCHANGED auto \/ AnyShift \/ AutosaveStart \/ AutosaveTask \/ AutosaveFails \/ Stops
<1>. SUFFICES Goal
  OBVIOUS
<1>1. CASE \/ New \/ \E f \in Files : Open(f) \/ PromptSave(f)
           \/ PromptDiscard
           \/ \E kind \in {"copy", "backup"}, f \in Files, i \in 1..Keep : Recover(Copy(kind, f, i))
  <2>1. UNCHANGED saves
    BY <1>1 DEF New, Open, AskOrSwitch, PromptSave, PromptDiscard, Recover
  <2>. QED BY <1>1, <2>1, Begins
<1>2. CASE SaveToOriginal \/ \E f \in Files : Save(f) \/ SaveAs(f)
  <2>1. dialog.recovered => dialog.path \in Files
    BY DEF TypeInv, PlainTypes, NoDialog
  <2>2. CASE SaveToOriginal \/ \E f \in Files : Save(f)
    BY <2>1, <2>2 DEF SaveToOriginal, Save, AnyStart, Starts, Free, ui, stores, bounds
  <2>3. ASSUME NEW f \in Files, SaveAs(f) PROVE Starts(f) /\ UNCHANGED <<switch, auto>>
    <3>1. claims \in [Files -> SUBSET Shows]
      BY DEF TypeInv, PlainTypes
    <3>2. {memory[p].show : p \in Parts} \subseteq claims'[f]
      BY <2>3, <3>1 DEF SaveAs
    <3>. QED BY <2>3, <3>2 DEF SaveAs, Starts, Free, ui, stores, bounds
  <2>. QED BY <1>2, <2>2, <2>3 DEF AnyStart, SaveToOriginal, Save
<1>3. CASE \/ \E p \in Parts : Edit(p)
           \/ Quit \/ PromptCancel \/ DialogCancel \/ DrainEvents \/ Restart \/ UNCHANGED showVars
  BY <1>3 DEF Edit, Quit, PromptCancel, DialogCancel, DrainEvents, OnLoaded, OnCreated, OnSaved,
     OnAutosaved, OnCorrupt, OnError, Restart, showVars, tasks
<1>4. CASE \E s \in Slots : SaveTask(s) \/ SaveFails(s)
  BY <1>4 DEF SaveTask, SaveBuild, SaveWrite, SaveRename, SaveReport, SaveFails
<1>5. CASE SwitchTasks
  BY <1>5 DEF SwitchTasks, SwitchLoad, SwitchApply, SwitchBackup, SwitchReport
<1>6. CASE AutosaveStart \/ AutosaveTask \/ AutosaveFails
  BY <1>6 DEF AutosaveStart, AutosaveTask, AutosaveBuild, AutosaveJudge, AutosaveWrite, AutosaveFails
<1>7. CASE Stops
  BY <1>7
<1>. HIDE DEF Goal
<1>. QED BY <1>1, <1>2, <1>3, <1>4, <1>5, <1>6, <1>7 DEF ShowNext, Operator, Stops

\* A switch reads a show, or finds the file corrupt.
LEMMA ReadIsContent ==
  ASSUME TypeInv, switch.pc = "load"
  PROVE  /\ switch \in Loads /\ switch.to \in Files
         /\ Read(switch.from) # Corrupt => Read(switch.from) \in Now
         /\ switch.from = File(switch.to) => Read(switch.from) = disk[switch.to]
         /\ \/ switch.from = File(switch.to)
            \/ \E kind \in {"copy", "backup"}, i \in 1..Keep : switch.from = Copy(kind, switch.to, i)
         /\ switch.from # File(switch.to) =>
              \/ \E i \in DOMAIN copies[switch.to] : Read(switch.from) = copies[switch.to][i]
              \/ \E i \in DOMAIN backups[switch.to] : Read(switch.from) = backups[switch.to][i]
<1>1. switch \in Loads /\ Readable(switch.from, switch.to)
  BY DEF TypeInv, SwitchTypes, ReadOK, Off
<1>2. switch.to \in Files /\ switch.to \in Series
  BY <1>1 DEF Readable, ReadableIn, Series
<1>3. CASE switch.from = File(switch.to) /\ disk[switch.to] # NoContent
  <2>1. Read(switch.from) = disk[switch.to]
    BY <1>3 DEF Read, File
  <2>2. disk[switch.to] \in Now \cup {NoContent, Corrupt}
    BY <1>2 DEF TypeInv, StoreTypes
  <2>. QED BY <1>1, <1>2, <1>3, <2>1, <2>2
<1>4. ASSUME NEW i \in 1..Keep, switch.from = Copy("copy", switch.to, i), i <= Len(copies[switch.to])
      PROVE  /\ Read(switch.from) = copies[switch.to][i] /\ i \in DOMAIN copies[switch.to]
             /\ copies[switch.to][i] \in Now /\ switch.from # File(switch.to)
  <2>1. Read(switch.from) = copies[switch.to][i] /\ switch.from # File(switch.to)
    BY <1>4 DEF Read, Copy, File
  <2>2. copies[switch.to] \in Seq(Now)
    BY <1>2 DEF TypeInv, StoreTypes
  <2>. QED BY <1>4, <2>1, <2>2
<1>5. ASSUME NEW i \in 1..Keep, switch.from = Copy("backup", switch.to, i), i <= Len(backups[switch.to])
      PROVE  /\ Read(switch.from) = backups[switch.to][i] /\ i \in DOMAIN backups[switch.to]
             /\ backups[switch.to][i] \in Now /\ switch.from # File(switch.to)
  <2>1. Read(switch.from) = backups[switch.to][i] /\ switch.from # File(switch.to)
    BY <1>5 DEF Read, Copy, File
  <2>2. backups[switch.to] \in Seq(Now)
    BY <1>2 DEF TypeInv, StoreTypes
  <2>. QED BY <1>5, <2>1, <2>2
<1>6. CASE \E i \in 1..Keep : switch.from = Copy("copy", switch.to, i) /\ i <= Len(copies[switch.to])
  <2>1. PICK i \in 1..Keep : switch.from = Copy("copy", switch.to, i) /\ i <= Len(copies[switch.to])
    BY <1>6
  <2>. QED BY <1>1, <1>2, <1>4, <2>1
<1>7. CASE \E i \in 1..Keep : switch.from = Copy("backup", switch.to, i) /\ i <= Len(backups[switch.to])
  <2>1. PICK i \in 1..Keep : switch.from = Copy("backup", switch.to, i) /\ i <= Len(backups[switch.to])
    BY <1>7
  <2>. QED BY <1>1, <1>2, <1>5, <2>1
<1>. QED BY <1>1, <1>3, <1>6, <1>7 DEF Readable, ReadableIn

\* What a task sends its outcome with.
Sends == \/ \E s \in Slots : SaveReport(s) \/ SaveFails(s)
         \/ SwitchLoad \/ SwitchReport
         \/ AutosaveJudge \/ AutosaveWrite \/ AutosaveFails

\* Tasks send their outcome, the UI thread drains it, a new app begins with none.
LEMMA QueueMoves ==
  ASSUME [ShowNext]_showVars
  PROVE  UNCHANGED uiQueue \/ Sends \/ DrainEvents \/ Restart
<1>. USE DEF ShowNext, showVars, ui, stores, tasks, history, bounds, Operator, SaveTask,
  SwitchTasks, AutosaveTask, Edit, Save, SaveAs, Open, New, AskOrSwitch, Recover, Quit, PromptCancel,
  PromptDiscard, PromptSave, SaveToOriginal, DialogCancel, SaveBuild, SaveWrite, SaveRename,
  SwitchApply, SwitchBackup, AutosaveStart, AutosaveBuild, Exit, Crash, Sends
<1>. QED OBVIOUS

\* What may begin a switch.
Requests == \/ New \/ \E f \in Files : Open(f) \/ PromptSave(f)
            \/ PromptDiscard
            \/ \E kind \in {"copy", "backup"}, f \in Files, i \in 1..Keep : Recover(Copy(kind, f, i))

\* What the window knows: the path, the prompt, the dialog.
LEMMA WindowMoves ==
  ASSUME [ShowNext]_showVars
  PROVE  /\ UNCHANGED showPath \/ Requests \/ OnLoaded \/ OnSaved \/ Restart
         /\ UNCHANGED prompt \/ prompt' \in {NoPrompt, ToQuit} \/ New \/ \E f \in Files : Open(f)
         /\ UNCHANGED dialog \/ dialog' = NoDialog \/ OnLoaded \/ OnCorrupt
<1>. USE DEF ShowNext, showVars, ui, stores, tasks, history, bounds, Operator, SaveTask,
  SwitchTasks, AutosaveTask, DrainEvents, Edit, Save, SaveAs, Quit, PromptCancel,
  SaveToOriginal, DialogCancel, SaveBuild, SaveWrite, SaveRename,
  SaveReport, SaveFails, SwitchLoad, SwitchApply, SwitchBackup, SwitchReport, AutosaveStart,
  AutosaveBuild, AutosaveJudge, AutosaveWrite, AutosaveFails, OnCreated, OnAutosaved,
  OnError, Exit, Crash, Requests
<1>1. UNCHANGED showPath \/ Requests \/ OnLoaded \/ OnSaved \/ Restart
  BY DEF OnCorrupt
<1>2. UNCHANGED prompt \/ prompt' \in {NoPrompt, ToQuit} \/ New \/ \E f \in Files : Open(f)
  BY DEF OnCorrupt, OnLoaded, OnSaved, Restart, Recover, PromptDiscard, PromptSave, Continue
<1>3. UNCHANGED dialog \/ dialog' = NoDialog \/ OnLoaded \/ OnCorrupt
  BY DEF OnSaved, Restart, Recover, PromptDiscard, PromptSave, Open, New, AskOrSwitch
<1>. QED BY <1>1, <1>2, <1>3

\* A file keeps the claims it has.
LEMMA ClaimsGrow ==
  ASSUME TypeInv, [ShowNext]_showVars
  PROVE  claims' \in [Files -> SUBSET Shows] /\ \A f \in Files : claims[f] \subseteq claims'[f]
<1>. DEFINE Goal == claims' \in [Files -> SUBSET Shows] /\ \A f \in Files : claims[f] \subseteq claims'[f]
<1>. SUFFICES Goal
  OBVIOUS
<1>0. /\ claims \in [Files -> SUBSET Shows]
      /\ \A c \in Now, p \in Parts : c[p].show \in Shows
      /\ memory \in Now
  BY DEF TypeInv, PlainTypes, ShowTypes, Now
<1>1. ASSUME NEW f \in Files, NEW c \in Now,
             claims' = [claims EXCEPT ![f] = @ \cup {c[p].show : p \in Parts}]
      PROVE  Goal
  BY <1>0, <1>1
<1>2. CASE UNCHANGED claims
  BY <1>0, <1>2
<1>3. CASE \E f \in Files : SaveAs(f)
  BY <1>0, <1>1, <1>3 DEF SaveAs
<1>4. CASE \E f \in Files : PromptSave(f)
  BY <1>0, <1>1, <1>2, <1>4 DEF PromptSave, Claimed
<1>5. CASE SwitchLoad
  <2>. DEFINE c == Read(switch.from)
  <2>1. CASE c = Corrupt
    BY <1>2, <1>5, <2>1 DEF SwitchLoad
  <2>2. CASE c # Corrupt
    <3>1. switch.to \in Files /\ c \in Now
      BY <1>5, <2>2, ReadIsContent DEF SwitchLoad
    <3>2. claims' = [claims EXCEPT ![switch.to] = @ \cup {c[p].show : p \in Parts}]
      BY <1>5, <2>2 DEF SwitchLoad
    <3>. QED BY <1>1, <3>1, <3>2
  <2>. QED BY <2>1, <2>2
<1>6. UNCHANGED claims \/ (\E f \in Files : SaveAs(f) \/ PromptSave(f)) \/ SwitchLoad
  BY DEF ShowNext, showVars, history, Operator, SaveTask, SwitchTasks, AutosaveTask, DrainEvents,
     Edit, Save, Open, New, AskOrSwitch, Recover, Quit, PromptCancel, PromptDiscard, SaveToOriginal,
     DialogCancel, SaveBuild, SaveWrite, SaveRename, SaveReport, SaveFails, SwitchApply,
     SwitchBackup, SwitchReport, AutosaveStart, AutosaveBuild, AutosaveJudge, AutosaveWrite,
     AutosaveFails, OnLoaded, OnCreated, OnSaved, OnAutosaved, OnCorrupt, OnError, Exit, Crash, Restart
<1>. HIDE DEF Goal
<1>. QED BY <1>2, <1>3, <1>4, <1>5, <1>6

-----------------------------------------------------------------------------
(* The types.                                                               *)

\* Only an edit adds to what can have been written.
LEMMA NowGrows ==
  ASSUME TypeInv, [ShowNext]_showVars
  PROVE  /\ Now \subseteq Now' /\ edits' \in 0..MaxEdits /\ (edits' = edits => Now' = Now)
         /\ SaveTasks \subseteq SaveTasks' /\ Loads \subseteq Loads' /\ AutoTasks \subseteq AutoTasks'
         /\ Events \subseteq Events' /\ Empty \in Now'
         /\ Now \subseteq Content /\ NoContent \notin Now /\ Corrupt \notin Now
<1>1. edits \in 0..MaxEdits /\ MaxEdits \in Nat
  BY FilesAssumption DEF TypeInv, PlainTypes
<1>2. edits' \in 0..MaxEdits /\ edits <= edits'
  <2>1. ASSUME NEW p \in Parts, Edit(p) PROVE edits < MaxEdits /\ edits' = edits + 1
    BY <2>1 DEF Edit
  <2>2. edits' = edits \/ (edits < MaxEdits /\ edits' = edits + 1)
    BY <2>1, MemoryMoves
  <2>. QED BY <1>1, <2>2
<1>3. Now \subseteq Now'
  BY <1>1, <1>2 DEF Now
<1>4. edits' = edits => Now' = Now
  BY DEF Now
<1>5. SaveTasks \subseteq SaveTasks' /\ Loads \subseteq Loads'
  BY <1>3 DEF SaveTasks, Loads
<1>6. AutoTasks \subseteq AutoTasks'
  BY <1>3 DEF AutoTasks
<1>7. Events \subseteq Events'
  BY <1>3 DEF Events
<1>8. Empty \in Now'
  BY <1>2, <1>1 DEF Empty, Now, Shows
<1>9. Now \subseteq Content
  BY <1>1 DEF Now, Content
<1>10. NoContent \notin Now /\ Corrupt \notin Now
  BY <1>9, FilesAssumption
<1>. QED BY <1>2, <1>3, <1>4, <1>5, <1>6, <1>7, <1>8, <1>9, <1>10

\* The shows in memory, in the fingerprints and in the files' series.
LEMMA ShowTypesNext ==
  ASSUME TypeInv, [ShowNext]_showVars
  PROVE  ShowTypes'
<1>0. /\ memory \in Now /\ baseline \in Now \cup {NoContent} /\ lastAuto \in Now \cup {NoContent}
      /\ Now \subseteq Now' /\ Empty \in Now' /\ QueueTypes /\ AutoTypes
  BY NowGrows DEF TypeInv, ShowTypes
<1>1. memory' \in Now'
  <2>1. ASSUME NEW p \in Parts, Edit(p) PROVE memory' \in Now'
    <3>1. edits' = edits + 1 /\ memory' = [memory EXCEPT ![p].rev = @ + 1]
      BY <2>1 DEF Edit
    <3>2. edits \in 0..MaxEdits /\ MaxEdits \in Nat
      BY FilesAssumption DEF TypeInv, PlainTypes
    <3>3. memory[p] \in [show : Shows, rev : 0..edits]
      BY <1>0 DEF Now
    <3>4. [memory[p] EXCEPT !.rev = @ + 1] \in [show : Shows, rev : 0..edits']
      BY <3>1, <3>2, <3>3
    <3>5. \A q \in Parts : memory[q] \in [show : Shows, rev : 0..edits']
      BY <1>0, <3>1, <3>2 DEF Now
    <3>. QED BY <1>0, <3>1, <3>4, <3>5 DEF Now
  <2>2. CASE SwitchApply
    <3>1. /\ switch \in Loads /\ switch.part \in 1..Len(Order) /\ switch.content \in Now
      BY <2>2, OrderOK DEF TypeInv, SwitchTypes, SwitchApply, Off, Loads, Places
    <3>2. Order[switch.part] \in Parts
      BY <3>1, OrderOK
    <3>3. memory' \in Now
      BY <1>0, <2>2, <3>1, <3>2 DEF SwitchApply, Now
    <3>. QED BY <1>0, <3>3
  <2>3. CASE Restart
    BY <1>0, <2>3 DEF Restart
  <2>. QED BY <1>0, <2>1, <2>2, <2>3, MemoryMoves
<1>2. ASSUME DrainEvents
      PROVE  baseline' \in Now' \cup {NoContent} /\ lastAuto' \in Now' \cup {NoContent}
  <2>1. ASSUME NEW kind, Drain(kind) PROVE Event \in Events /\ Event.kind = kind
    BY <1>0, <2>1, DrainOK DEF Drain
  <2>2. CASE OnLoaded
    BY <1>0, <2>2 DEF OnLoaded, BaselineOf
  <2>3. CASE OnCreated
    BY <1>0, <2>3 DEF OnCreated
  <2>4. CASE OnSaved
    <3>1. Event.content \in Now
      BY <2>1, <2>4 DEF OnSaved, Events
    <3>. QED BY <1>0, <2>4, <3>1 DEF OnSaved
  <2>5. CASE OnAutosaved
    <3>1. Event.content \in Now \cup {NoContent}
      BY <2>1, <2>5 DEF OnAutosaved, Events
    <3>. QED BY <1>0, <2>5, <3>1 DEF OnAutosaved
  <2>6. CASE OnCorrupt \/ OnError
    BY <1>0, <2>6 DEF OnCorrupt, OnError, ui
  <2>. QED BY <1>2, <2>2, <2>3, <2>4, <2>5, <2>6 DEF DrainEvents
<1>3. \/ DrainEvents \/ Restart \/ UNCHANGED <<baseline, lastAuto>>
      \/ baseline' = memory /\ UNCHANGED lastAuto
  BY DEF ShowNext, showVars, ui, stores, tasks, history, bounds, Operator, SaveTask,
    SwitchTasks, AutosaveTask, Edit, Save, SaveAs, Open, New, AskOrSwitch, Recover, Quit,
    PromptCancel, PromptDiscard, PromptSave, SaveToOriginal, DialogCancel, SaveBuild, SaveWrite,
    SaveRename, SaveReport, SaveFails, SwitchLoad, SwitchApply, SwitchBackup, SwitchReport,
    AutosaveStart, AutosaveBuild, AutosaveJudge, AutosaveWrite, AutosaveFails, Exit, Crash
<1>4. baseline' \in Now' \cup {NoContent} /\ lastAuto' \in Now' \cup {NoContent}
  BY <1>0, <1>2, <1>3 DEF Restart
<1>. QED BY <1>1, <1>4 DEF ShowTypes

\* The files and the copies.
LEMMA StoreTypesNext ==
  ASSUME TypeInv, [ShowNext]_showVars
  PROVE  /\ StoreTypes'
         /\ \A f \in Files : /\ disk'[f] = disk[f] \/ disk'[f] \in Now
                             /\ Len(copies'[f]) >= Len(copies[f]) /\ Len(backups'[f]) >= Len(backups[f])
<1>0. /\ disk \in [Files -> Now \cup {NoContent, Corrupt}]
      /\ copies \in [Series -> Seq(Now)] /\ \A x \in Series : Len(copies[x]) <= Keep
      /\ backups \in [Files -> Seq(Now)] /\ \A f \in Files : Len(backups[f]) <= Keep
      /\ Now \subseteq Now' /\ Files \subseteq Series
  BY NowGrows DEF TypeInv, StoreTypes, Series
<1>1. disk' \in [Files -> Now \cup {NoContent, Corrupt}]
      /\ \A f \in Files : disk'[f] = disk[f] \/ disk'[f] \in Now
  <2>1. ASSUME NEW s \in Slots, SaveRename(s)
        PROVE  \E f \in Files, c \in Now : disk' = [disk EXCEPT ![f] = c]
    <3>1. saves[s] \in SaveTasks
      BY <2>1 DEF SaveRename, TypeInv, SaveTypes, Off
    <3>2. saves[s].target \in Files /\ saves[s].content \in Now
      BY <3>1 DEF SaveTasks
    <3>. QED BY <2>1, <3>2 DEF SaveRename
  <2>2. ASSUME NEW f \in Files, PromptSave(f)
        PROVE  \E g \in Files, c \in Now : disk' = [disk EXCEPT ![g] = c]
    BY <2>2 DEF PromptSave, TypeInv, ShowTypes
  <2>3. ASSUME NEW f \in Files, NEW c \in Now, disk' = [disk EXCEPT ![f] = c]
        PROVE  disk' \in [Files -> Now \cup {NoContent, Corrupt}]
               /\ \A g \in Files : disk'[g] = disk[g] \/ disk'[g] \in Now
    BY <1>0, <2>3
  <2>. QED BY <1>0, <2>1, <2>2, <2>3, StoreMoves
<1>2. /\ copies' \in [Series -> Seq(Now)]
      /\ \A x \in Series : Len(copies'[x]) <= Keep /\ Len(copies'[x]) >= Len(copies[x])
  <2>0. \A x \in Series : Len(copies[x]) \in Nat
    BY <1>0
  <2>1. CASE UNCHANGED copies
    BY <1>0, <2>0, <2>1
  <2>2. CASE AutosaveWrite
    <3>. DEFINE x == SeriesOf(auto.path)
                new == Newest(auto.content, copies[x])
    <3>1. auto.content \in Now /\ auto.path \in Shows
      BY <2>2 DEF AutosaveWrite, TypeInv, AutoTypes, AutoTasks, Off
    <3>2. x \in Series
      BY <3>1 DEF SeriesOf, Series, Shows, TypeInv, PlainTypes
    <3>3. new \in Seq(Now) /\ Len(new) <= Keep /\ Len(new) >= Len(copies[x])
      BY <1>0, <3>1, <3>2, NewestOK
    <3>4. copies' = [copies EXCEPT ![x] = new]
      BY <2>2 DEF AutosaveWrite
    <3>. HIDE DEF new, x
    <3>. QED BY <1>0, <2>0, <3>2, <3>3, <3>4
  <2>. QED BY <2>1, <2>2, StoreMoves
<1>3. /\ backups' \in [Files -> Seq(Now)]
      /\ \A f \in Files : Len(backups'[f]) <= Keep /\ Len(backups'[f]) >= Len(backups[f])
  <2>0. \A f \in Files : Len(backups[f]) \in Nat
    BY <1>0
  <2>1. CASE UNCHANGED backups
    BY <1>0, <2>0, <2>1
  <2>2. CASE SwitchBackup
    <3>. DEFINE f == switch.to
                new == Newest(disk[f], backups[f])
    <3>1. f \in Files /\ disk[f] \in Now
      BY <2>2 DEF SwitchBackup, TypeInv, ReadOK
    <3>3. new \in Seq(Now) /\ Len(new) <= Keep /\ Len(new) >= Len(backups[f])
      BY <1>0, <3>1, NewestOK
    <3>4. backups' = [backups EXCEPT ![f] = new] \/ backups' = backups
      BY <2>2 DEF SwitchBackup
    <3>. HIDE DEF new, f
    <3>5. CASE backups' = [backups EXCEPT ![f] = new]
      BY <1>0, <2>0, <3>1, <3>3, <3>5
    <3>. QED BY <2>1, <3>4, <3>5
  <2>. QED BY <2>1, <2>2, StoreMoves
<1>4. Seq(Now) \subseteq Seq(Now')
  BY <1>0
<1>5. StoreTypes'
  <2>1. disk' \in [Files -> Now' \cup {NoContent, Corrupt}]
    BY <1>0, <1>1
  <2>2. copies' \in [Series -> Seq(Now')] /\ backups' \in [Files -> Seq(Now')]
    BY <1>2, <1>3, <1>4
  <2>. QED BY <1>2, <1>3, <2>1, <2>2 DEF StoreTypes
<1>. QED BY <1>0, <1>1, <1>2, <1>3, <1>5

\* What the window knows.
LEMMA PlainTypesNext ==
  ASSUME TypeInv, [ShowNext]_showVars
  PROVE  PlainTypes'
<1>0. PlainTypes /\ QueueTypes
  BY DEF TypeInv
<1>1. app' \in {"up", "leaving", "down"} /\ session' \in Sessions /\ consent' \in BOOLEAN
  <2>1. MaxSessions \in Nat /\ session \in 1..MaxSessions
    BY <1>0, FilesAssumption DEF PlainTypes, Sessions
  <2>2. CASE Restart
    <3>1. session' = session + 1 /\ session < MaxSessions /\ app' = "up" /\ consent' = FALSE
      BY <2>2 DEF Restart
    <3>2. session' \in 1..MaxSessions
      BY <2>1, <3>1
    <3>. QED BY <3>1, <3>2 DEF Sessions
  <2>3. \/ Restart
        \/ /\ UNCHANGED session /\ app' \in {app, "leaving", "down"}
           /\ consent' \in {consent, TRUE, FALSE}
    BY DEF ShowNext, showVars, ui, stores, tasks, history, bounds, Operator, SaveTask,
      SwitchTasks, AutosaveTask, DrainEvents, Edit, Save, SaveAs, Open, New, AskOrSwitch, Recover,
      Quit, PromptCancel, PromptDiscard, PromptSave, Continue, SaveToOriginal, DialogCancel,
      SaveBuild, SaveWrite, SaveRename, SaveReport, SaveFails, SwitchLoad, SwitchApply, SwitchBackup,
      SwitchReport, AutosaveStart, AutosaveBuild, AutosaveJudge, AutosaveWrite, AutosaveFails,
      OnLoaded, OnCreated, OnSaved, OnAutosaved, OnCorrupt, OnError, Exit, Crash
  <2>. QED BY <1>0, <2>2, <2>3 DEF PlainTypes
<1>2. edits' \in 0..MaxEdits
  BY NowGrows
<1>3. claims' \in [Files -> SUBSET Shows]
  BY ClaimsGrow
<1>4. prompt' \in {NoPrompt, ToQuit, ToNew} \cup {ToOpen(File(f), f) : f \in Files}
  <2>1. CASE UNCHANGED prompt \/ prompt' \in {NoPrompt, ToQuit}
    BY <1>0, <2>1 DEF PlainTypes
  <2>2. CASE New
    BY <1>0, <2>2 DEF New, AskOrSwitch, PlainTypes
  <2>3. CASE \E f \in Files : Open(f)
    BY <1>0, <2>3 DEF Open, AskOrSwitch, PlainTypes
  <2>. QED BY <2>1, <2>2, <2>3, WindowMoves
<1>5. dialog' \in [path : Shows, recovered : BOOLEAN] /\ (dialog' # NoDialog => dialog'.path \in Files)
  <2>0. CASE UNCHANGED dialog
    BY <1>0, <2>0 DEF PlainTypes
  <2>1. CASE dialog' = NoDialog
    BY <2>1 DEF NoDialog, Shows
  <2>2. CASE OnLoaded
    <3>1. dialog' = [dialog EXCEPT !.recovered = @ \/ dialog # NoDialog]
      BY <2>2 DEF OnLoaded, Recovered
    <3>2. CASE dialog = NoDialog
      BY <1>0, <3>1, <3>2 DEF NoDialog, Shows
    <3>3. CASE dialog # NoDialog
      BY <1>0, <3>1, <3>3 DEF PlainTypes
    <3>. QED BY <3>2, <3>3
  <2>3. CASE OnCorrupt
    <3>1. Event \in Events /\ Event.kind = "corrupt"
      BY <1>0, <2>3, DrainOK DEF OnCorrupt, Drain
    <3>2. Event.path \in Files
      BY <3>1 DEF Events
    <3>. QED BY <2>3, <3>2 DEF OnCorrupt, Shows
  <2>. QED BY <2>0, <2>1, <2>2, <2>3, WindowMoves
<1>6. showPath' \in Shows
  <2>0. showPath \in Shows /\ Untitled \in Shows /\ Files \subseteq Shows
    BY <1>0 DEF PlainTypes, Shows
  <2>1. CASE OnLoaded \/ OnSaved
    <3>1. Event \in Events /\ Event.kind \in {"loaded", "saved"}
      BY <1>0, <2>1, DrainOK DEF OnLoaded, OnSaved, Drain
    <3>2. Event.path \in Files
      BY <3>1 DEF Events
    <3>. QED BY <2>0, <2>1, <3>2 DEF OnLoaded, OnSaved
  <2>2. CASE Restart
    BY <2>0, <2>2 DEF Restart
  <2>3. CASE Requests
    BY <2>0, <2>3 DEF Requests, New, Open, AskOrSwitch, PromptSave, PromptDiscard, Recover,
      Continue, BeginSwitch, PathAfter
  <2>. QED BY <2>0, <2>1, <2>2, <2>3, WindowMoves
<1>. QED BY <1>1, <1>2, <1>3, <1>4, <1>5, <1>6 DEF PlainTypes

\* The saves under way.
LEMMA SaveTypesNext ==
  ASSUME TypeInv, [ShowNext]_showVars
  PROVE  SaveTypes'
<1>0. /\ SaveTypes /\ SaveTasks \subseteq SaveTasks' /\ memory \in Now /\ Now \subseteq Now'
      /\ Len(Order) \in Nat /\ Len(Order) >= 1
  BY NowGrows, OrderOK DEF TypeInv, ShowTypes
<1>. DEFINE Fits(t) == /\ t \in SaveTasks \cup {Off}
                       /\ t.pc = "build" => t.part <= Len(Order)
                       /\ t.pc \in {"write", "rename", "report"} => t.part = Len(Order) + 1
<1>1. saves \in [Slots -> SaveTasks \cup {Off}] /\ \A s \in Slots : Fits(saves[s])
  BY <1>0 DEF SaveTypes
<1>2. Fits(Off)
  BY DEF Off
<1>3. ASSUME NEW s \in Slots, NEW t, Fits(t), saves' = [saves EXCEPT ![s] = t], UNCHANGED edits
      PROVE  SaveTypes'
  <2>1. saves' \in [Slots -> SaveTasks \cup {Off}] /\ \A r \in Slots : Fits(saves'[r])
    BY <1>1, <1>3
  <2>2. SaveTasks' = SaveTasks
    BY <1>3 DEF SaveTasks, Now
  <2>. QED BY <2>1, <2>2 DEF SaveTypes
<1>4. CASE UNCHANGED saves
  <2>1. saves' \in [Slots -> SaveTasks' \cup {Off}]
    BY <1>0, <1>1, <1>4
  <2>. QED BY <1>1, <1>4, <2>1 DEF SaveTypes
<1>5. CASE AnyStart
  <2>1. PICK f \in Files : Starts(f)
    BY <1>5 DEF AnyStart
  <2>. DEFINE new == [pc |-> "build", target |-> f, part |-> 1, content |-> Empty]
  <2>2. PICK s \in Slots : saves' = [saves EXCEPT ![s] = new]
    BY <2>1 DEF Starts, StartSave
  <2>3. Empty \in Now /\ UNCHANGED edits
    BY <2>1, FilesAssumption DEF Starts, Empty, Now, Shows, TypeInv, PlainTypes
  <2>4. Fits(new)
    BY <1>0, <2>3 DEF SaveTasks, Places
  <2>. HIDE DEF new, Fits
  <2>. QED BY <1>3, <2>2, <2>3, <2>4
<1>6. ASSUME NEW s \in Slots, SaveTask(s) \/ SaveFails(s) PROVE SaveTypes'
  <2>0. /\ saves[s] # Off => saves[s] \in SaveTasks
        /\ UNCHANGED edits
    BY <1>1, <1>6 DEF SaveTask, SaveBuild, SaveWrite, SaveRename, SaveReport, SaveFails, bounds
  <2>1. CASE SaveBuild(s)
    <3>. DEFINE t == saves[s]
                p == Order[t.part]
                read == [t.content EXCEPT ![p] = memory[p]]
                next == IF t.part = Len(Order) THEN "write" ELSE "build"
                new == [t EXCEPT !.content = read, !.part = @ + 1, !.pc = next]
    <3>1. t \in SaveTasks /\ t.part \in 1..Len(Order) /\ t.content \in Now
      BY <1>1, <2>0, <2>1 DEF SaveBuild, Off, SaveTasks, Places
    <3>2. p \in Parts
      BY <3>1, OrderOK
    <3>3. read \in Now
      BY <1>0, <3>1, <3>2 DEF Now
    <3>4. t.part + 1 \in Places /\ next \in {"write", "build"}
      BY <1>0, <3>1 DEF Places
    <3>5. saves' = [saves EXCEPT ![s] = new]
      BY <2>1, <3>1 DEF SaveBuild, SaveTasks
    <3>6. new \in SaveTasks /\ new.part = t.part + 1 /\ new.pc = next
      <4>. HIDE DEF read, next, p
      <4>. QED BY <3>1, <3>3, <3>4 DEF SaveTasks
    <3>7. Fits(new)
      <4>. HIDE DEF new
      <4>. QED BY <1>0, <3>1, <3>6
    <3>. HIDE DEF new, Fits
    <3>. QED BY <1>3, <2>0, <3>5, <3>7
  <2>2. CASE SaveWrite(s) \/ SaveRename(s)
    <3>. DEFINE new == [saves[s] EXCEPT !.pc = IF SaveWrite(s) THEN "rename" ELSE "report"]
    <3>1. saves[s] \in SaveTasks /\ saves[s].part = Len(Order) + 1
      BY <1>1, <2>0, <2>2 DEF SaveWrite, SaveRename, Off
    <3>2. Fits(new)
      BY <1>0, <3>1 DEF SaveTasks
    <3>3. saves' = [saves EXCEPT ![s] = new]
      BY <2>2, <1>1 DEF SaveWrite, SaveRename
    <3>. HIDE DEF new, Fits
    <3>. QED BY <1>3, <2>0, <3>2, <3>3
  <2>3. CASE SaveReport(s) \/ SaveFails(s)
    <3>1. saves' = [saves EXCEPT ![s] = Off]
      BY <2>3 DEF SaveReport, SaveFails
    <3>. HIDE DEF Fits
    <3>. QED BY <1>2, <1>3, <2>0, <3>1
  <2>. QED BY <1>6, <2>1, <2>2, <2>3 DEF SaveTask
<1>7. CASE Stops
  <2>1. saves' = [s \in Slots |-> Off]
    BY <1>7 DEF Stops, Exit, Crash
  <2>. QED BY <1>2, <2>1 DEF SaveTypes
<1>. QED BY <1>4, <1>5, <1>6, <1>7, TaskMoves

\* A switch that begins, and what it does to an autosave under way.
LEMMA ShiftMakes ==
  ASSUME TypeInv, AnyShift
  PROVE  /\ switch' \in Loads /\ switch'.part = 1 /\ switch'.content = Empty
         /\ \/ /\ switch'.pc = "apply" /\ switch'.from = NoContent /\ switch'.to = Untitled
               /\ showPath' = Untitled
            \/ /\ switch'.pc = "load" /\ switch'.to \in Files /\ switch'.from \in Sources
               /\ Readable(switch'.from, switch'.to)
         /\ auto' = auto \/ (auto # Off /\ auto' = [auto EXCEPT !.moved = TRUE])
         /\ auto' = Off \/ auto'.moved
<1>1. PICK action \in Targets, path \in Shows : Shifts(action, path)
  BY DEF AnyShift
<1>2. /\ switch' = SwitchTask(action) /\ EpochMoves
      /\ showPath' = PathAfter(action, path)
      /\ action.after = "open" => Readable(action.from, action.to)
  BY <1>1 DEF Shifts, BeginSwitch
<1>3. Empty \in Now /\ 1 \in Places
  BY OrderOK DEF Empty, Now, Shows, TypeInv, PlainTypes, Places
<1>4. auto' = auto \/ (auto # Off /\ auto' = [auto EXCEPT !.moved = TRUE])
  BY <1>2 DEF EpochMoves
<1>5. auto' = Off \/ auto'.moved
  <2>1. auto \in AutoTasks \cup {Off}
    BY DEF TypeInv, AutoTypes
  <2>. QED BY <1>2, <2>1 DEF EpochMoves, AutoTasks
<1>6. CASE action = ToNew
  <2>1. switch' = [pc |-> "apply", from |-> NoContent, to |-> Untitled, part |-> 1, content |-> Empty]
    BY <1>2, <1>6 DEF SwitchTask, ToNew
  <2>2. showPath' = Untitled
    BY <1>2, <1>6 DEF PathAfter, ToNew
  <2>. QED BY <1>3, <1>4, <1>5, <2>1, <2>2 DEF Loads, Shows
<1>7. ASSUME NEW from \in Sources, NEW f \in Files, action = ToOpen(from, f)
      PROVE  /\ switch' \in Loads /\ switch'.part = 1 /\ switch'.content = Empty
             /\ switch'.pc = "load" /\ switch'.to \in Files /\ switch'.from \in Sources
             /\ Readable(switch'.from, switch'.to)
  <2>1. switch' = [pc |-> "load", from |-> from, to |-> f, part |-> 1, content |-> Empty]
    BY <1>2, <1>7 DEF SwitchTask, ToOpen
  <2>2. Readable(from, f)
    BY <1>2, <1>7 DEF ToOpen
  <2>. QED BY <1>3, <2>1, <2>2 DEF Loads, Shows
<1>. QED BY <1>4, <1>5, <1>6, <1>7 DEF Targets

\* The switch.
LEMMA SwitchTypesNext ==
  ASSUME TypeInv, [ShowNext]_showVars
  PROVE  SwitchTypes'
<1>0. /\ SwitchTypes /\ Loads \subseteq Loads' /\ Len(Order) \in Nat /\ Len(Order) >= 1
  BY NowGrows, OrderOK DEF TypeInv
<1>1. CASE UNCHANGED switch
  BY <1>0, <1>1 DEF SwitchTypes
<1>2. CASE AnyShift
  <2>1. edits' = edits
    BY <1>2 DEF AnyShift, Shifts
  <2>2. switch' \in Loads'
    BY <1>0, <1>2, ShiftMakes
  <2>. QED BY <1>0, <1>2, <2>2, ShiftMakes DEF SwitchTypes
<1>3. CASE switch' = Off
  BY <1>3 DEF SwitchTypes, Off
<1>4. CASE SwitchLoad /\ Read(switch.from) # Corrupt
  <2>1. switch \in Loads /\ Read(switch.from) \in Now /\ switch.pc = "load"
    BY <1>4, ReadIsContent DEF SwitchLoad
  <2>2. switch' = [switch EXCEPT !.pc = "apply", !.content = Read(switch.from)]
    BY <1>4 DEF SwitchLoad
  <2>3. switch' \in Loads /\ switch'.pc = "apply" /\ switch'.part = switch.part
    BY <2>1, <2>2 DEF Loads
  <2>4. switch.part = 1
    BY <2>1 DEF TypeInv, SwitchTypes
  <2>. QED BY <1>0, <2>3, <2>4 DEF SwitchTypes
<1>5. CASE SwitchApply
  <2>1. switch \in Loads /\ switch.part \in 1..Len(Order)
    BY <1>0, <1>5 DEF SwitchApply, SwitchTypes, Off, Loads, Places
  <2>. DEFINE next == IF switch.part < Len(Order) THEN "apply"
                      ELSE IF switch.from # NoContent /\ switch.from.kind = "file" THEN "backup"
                      ELSE "report"
  <2>3. switch' = [switch EXCEPT !.part = @ + 1, !.pc = next]
    BY <1>5 DEF SwitchApply
  <2>4. /\ switch.part + 1 \in Places
        /\ switch.part < Len(Order) => next = "apply"
        /\ switch.part = Len(Order) => next \in {"backup", "report"}
    BY <1>0, <2>1 DEF Places
  <2>5. next \in {"apply", "backup", "report"}
    OBVIOUS
  <2>2. switch' \in Loads /\ switch'.part = switch.part + 1 /\ switch'.pc = next
    <3>. HIDE DEF next
    <3>. QED BY <2>1, <2>3, <2>4, <2>5 DEF Loads
  <2>6. switch' # Off /\ switch'.part \in 1..(Len(Order) + 1)
    BY <2>2, <2>4 DEF Loads, Places, Off
  <2>. QED BY <1>0, <2>1, <2>2, <2>4, <2>5 DEF SwitchTypes
<1>6. CASE SwitchBackup
  <2>1. switch \in Loads /\ switch.part = Len(Order) + 1
    BY <1>0, <1>6 DEF SwitchBackup, SwitchTypes, Off
  <2>2. switch' \in Loads /\ switch'.pc = "report" /\ switch'.part = Len(Order) + 1
    BY <1>6, <2>1 DEF SwitchBackup, Loads
  <2>. QED BY <1>0, <2>2 DEF SwitchTypes
<1>7. (SwitchLoad /\ Read(switch.from) = Corrupt) \/ SwitchReport \/ Stops => switch' = Off
  BY DEF SwitchLoad, SwitchReport, Stops, Exit, Crash
<1>. QED BY <1>1, <1>2, <1>3, <1>4, <1>5, <1>6, <1>7, TaskMoves DEF SwitchTasks

\* The autosave.
LEMMA AutoTypesNext ==
  ASSUME TypeInv, [ShowNext]_showVars
  PROVE  AutoTypes'
<1>0. /\ AutoTypes /\ AutoTasks \subseteq AutoTasks' /\ Len(Order) \in Nat /\ Len(Order) >= 1
      /\ memory \in Now
  BY NowGrows, OrderOK DEF TypeInv, ShowTypes
<1>1. CASE UNCHANGED auto
  BY <1>0, <1>1 DEF AutoTypes
<1>2. CASE AnyShift
  <2>1. CASE auto # Off /\ auto' = [auto EXCEPT !.moved = TRUE]
    <3>1. auto \in AutoTasks
      BY <1>0, <2>1 DEF AutoTypes
    <3>2. auto' \in AutoTasks /\ auto'.pc = auto.pc /\ auto'.part = auto.part
      BY <2>1, <3>1 DEF AutoTasks
    <3>. QED BY <1>0, <3>2 DEF AutoTypes
  <2>. QED BY <1>1, <1>2, <2>1, ShiftMakes
<1>3. CASE auto' = Off
  BY <1>3 DEF AutoTypes, Off
<1>4. CASE AutosaveStart
  <2>1. /\ showPath \in Shows /\ baseline \in Now \cup {NoContent}
        /\ lastAuto \in Now \cup {NoContent} /\ Empty \in Now
    BY DEF TypeInv, PlainTypes, ShowTypes, Empty, Now, Shows
  <2>2. auto' \in AutoTasks
    BY <1>0, <1>4, <2>1 DEF AutosaveStart, AutoTasks, Places
  <2>3. auto'.pc = "build" /\ auto'.part = 1
    BY <1>4 DEF AutosaveStart
  <2>. QED BY <1>0, <2>2, <2>3 DEF AutoTypes
<1>5. CASE AutosaveBuild
  <2>. DEFINE p == Order[auto.part]
  <2>1. auto \in AutoTasks /\ auto.part \in 1..Len(Order) /\ auto.content \in Now
    BY <1>0, <1>5 DEF AutosaveBuild, AutoTypes, Off, AutoTasks, Places
  <2>2. p \in Parts
    BY <2>1, OrderOK
  <2>3. [auto.content EXCEPT ![p] = memory[p]] \in Now
    BY <1>0, <2>1, <2>2 DEF Now
  <2>4. auto' = [auto EXCEPT !.content = [auto.content EXCEPT ![p] = memory[p]], !.part = @ + 1,
                             !.pc = IF auto.part = Len(Order) THEN "judge" ELSE "build"]
    BY <1>5, <2>1 DEF AutosaveBuild, AutoTasks
  <2>5. /\ auto' \in AutoTasks /\ auto'.part = auto.part + 1
        /\ auto'.pc = IF auto.part = Len(Order) THEN "judge" ELSE "build"
    <3>. DEFINE next == IF auto.part = Len(Order) THEN "judge" ELSE "build"
                read == [auto.content EXCEPT ![p] = memory[p]]
    <3>1. auto' = [auto EXCEPT !.content = read, !.part = @ + 1, !.pc = next]
      BY <2>4
    <3>2. auto.part + 1 \in Places /\ read \in Now /\ next \in {"judge", "build"}
      BY <1>0, <2>1, <2>3 DEF Places
    <3>. HIDE DEF p, read
    <3>3. auto' \in AutoTasks /\ auto'.part = auto.part + 1 /\ auto'.pc = next
      <4>. HIDE DEF next
      <4>. QED BY <2>1, <3>1, <3>2 DEF AutoTasks
    <3>. QED BY <3>3
  <2>. QED BY <1>0, <2>1, <2>5 DEF AutoTypes
<1>6. CASE AutosaveJudge /\ auto' # Off
  <2>1. auto \in AutoTasks /\ auto.part = Len(Order) + 1
    BY <1>0, <1>6 DEF AutosaveJudge, AutoTypes, Off
  <2>2. auto' = [auto EXCEPT !.pc = "write"]
    BY <1>6 DEF AutosaveJudge
  <2>3. auto' \in AutoTasks /\ auto'.pc = "write" /\ auto'.part = auto.part
    BY <2>1, <2>2 DEF AutoTasks
  <2>. QED BY <1>0, <2>1, <2>3 DEF AutoTypes
<1>7. AutosaveWrite \/ AutosaveFails \/ Stops => auto' = Off
  BY DEF AutosaveWrite, AutosaveFails, Stops, Exit, Crash
<1>. QED BY <1>1, <1>2, <1>3, <1>4, <1>5, <1>6, <1>7, TaskMoves DEF AutosaveTask

\* The outcomes tasks send.
LEMMA SendsWhat ==
  ASSUME TypeInv, Sends
  PROVE  \/ UNCHANGED uiQueue
         \/ \E e \in Events :
              /\ uiQueue' = uiQueue \o <<e>>
              /\ \/ \E s \in Slots :
                      /\ saves[s] # Off /\ saves' = [saves EXCEPT ![s] = Off]
                      /\ UNCHANGED <<switch, memory, disk, showPath, baseline>>
                      /\ \/ e.kind = "error"
                         \/ /\ e.kind = "saved"
                            /\ saves[s].pc = "report" /\ saves[s].target \in Files
                            /\ e = [kind |-> "saved", path |-> saves[s].target,
                                    content |-> saves[s].content]
                 \/ /\ switch # Off /\ switch' = Off
                    /\ UNCHANGED <<saves, memory, disk, showPath, baseline>>
                    /\ \/ e.kind = "corrupt" /\ switch.pc = "load" /\ e.path = switch.to
                       \/ switch.pc = "report" /\ e.kind = "created" /\ switch.to = Untitled
                       \/ /\ switch.pc = "report" /\ e.kind = "loaded" /\ e.path = switch.to
                          /\ switch.to \in Files /\ e.recovered = (switch.from.kind # "file")
                 \/ e.kind = "autosaved" /\ UNCHANGED <<saves, switch, memory, disk, showPath, baseline>>
<1>1. ASSUME NEW s \in Slots, SaveFails(s)
      PROVE  \E e \in Events : /\ uiQueue' = uiQueue \o <<e>> /\ e.kind = "error" /\ saves[s] # Off
                               /\ saves' = [saves EXCEPT ![s] = Off]
                               /\ UNCHANGED <<switch, memory, disk, showPath, baseline>>
  <2>. DEFINE e == [kind |-> "error"]
  <2>1. e \in Events /\ e.kind = "error"
    BY DEF Events
  <2>2. uiQueue' = uiQueue \o <<e>>
    BY <1>1 DEF SaveFails, Send
  <2>3. /\ saves[s] # Off /\ saves' = [saves EXCEPT ![s] = Off]
        /\ UNCHANGED <<switch, memory, disk, showPath, baseline>>
    BY <1>1 DEF SaveFails, Off, ui, stores
  <2>. HIDE DEF e
  <2>. QED BY <2>1, <2>2, <2>3
<1>2. ASSUME NEW s \in Slots, SaveReport(s)
      PROVE  LET e == [kind |-> "saved", path |-> saves[s].target, content |-> saves[s].content] IN
             /\ e \in Events /\ uiQueue' = uiQueue \o <<e>>
             /\ saves[s] # Off /\ saves' = [saves EXCEPT ![s] = Off]
             /\ saves[s].pc = "report" /\ saves[s].target \in Files
             /\ UNCHANGED <<switch, memory, disk, showPath, baseline>>
  <2>1. saves[s] \in SaveTasks /\ saves[s] # Off
    BY <1>2 DEF SaveReport, TypeInv, SaveTypes, Off
  <2>. QED BY <1>2, <2>1 DEF SaveReport, Send, SaveTasks, Events, ui, stores
<1>3. ASSUME SwitchLoad, ~UNCHANGED uiQueue
      PROVE  LET e == [kind |-> "corrupt", path |-> switch.to] IN
             /\ e \in Events /\ uiQueue' = uiQueue \o <<e>> /\ switch # Off /\ switch' = Off
             /\ switch.pc = "load" /\ UNCHANGED <<saves, memory, disk, showPath, baseline>>
  <2>1. switch.to \in Files
    BY <1>3, ReadIsContent DEF SwitchLoad
  <2>. QED BY <1>3, <2>1 DEF SwitchLoad, Send, Events, Off, ui, stores
<1>4. ASSUME SwitchReport, switch.to = Untitled
      PROVE  LET e == [kind |-> "created"] IN
             /\ e \in Events /\ uiQueue' = uiQueue \o <<e>> /\ switch # Off /\ switch' = Off
             /\ switch.pc = "report" /\ UNCHANGED <<saves, memory, disk, showPath, baseline>>
  BY <1>4 DEF SwitchReport, Send, Events, Off, ui, stores
<1>5. ASSUME SwitchReport, switch.to # Untitled
      PROVE  LET e == [kind |-> "loaded", path |-> switch.to, recovered |-> switch.from.kind # "file"] IN
             /\ e \in Events /\ uiQueue' = uiQueue \o <<e>> /\ switch # Off /\ switch' = Off
             /\ switch.pc = "report" /\ switch.to \in Files
             /\ UNCHANGED <<saves, memory, disk, showPath, baseline>>
  <2>1. switch.to \in Files
    BY <1>5 DEF SwitchReport, TypeInv, SwitchTypes, Loads, Shows, Off
  <2>. QED BY <1>5, <2>1 DEF SwitchReport, Send, Events, Off, ui, stores
<1>6. ASSUME AutosaveJudge \/ AutosaveWrite \/ AutosaveFails, ~UNCHANGED uiQueue
      PROVE  \E e \in Events : /\ uiQueue' = uiQueue \o <<e>> /\ e.kind = "autosaved"
                               /\ UNCHANGED <<saves, switch, memory, disk, showPath, baseline>>
  <2>1. auto \in AutoTasks
    BY <1>6 DEF AutosaveJudge, AutosaveWrite, AutosaveFails, TypeInv, AutoTypes, Off
  <2>2. PICK c \in {auto.prev, auto.content} : uiQueue' = uiQueue \o <<[kind |-> "autosaved", content |-> c]>>
    BY <1>6 DEF AutosaveJudge, AutosaveWrite, AutosaveFails, Completed, Send, FailedAs
  <2>. DEFINE e == [kind |-> "autosaved", content |-> c]
  <2>3. e \in Events /\ e.kind = "autosaved"
    BY <2>1 DEF Events, AutoTasks
  <2>4. UNCHANGED <<saves, switch, memory, disk, showPath, baseline>>
    BY <1>6 DEF AutosaveJudge, AutosaveWrite, AutosaveFails, ui, stores
  <2>. HIDE DEF e
  <2>5. uiQueue' = uiQueue \o <<e>>
    BY <2>2 DEF e
  <2>. QED BY <2>3, <2>4, <2>5
<1>7. CASE \E s \in Slots : SaveFails(s) \/ SaveReport(s)
  BY <1>1, <1>2, <1>7
<1>8. CASE SwitchLoad
  BY <1>3, <1>8
<1>9. CASE SwitchReport
  BY <1>4, <1>5, <1>9
<1>10. CASE AutosaveJudge \/ AutosaveWrite \/ AutosaveFails
  BY <1>6, <1>10
<1>. QED BY <1>7, <1>8, <1>9, <1>10 DEF Sends

\* The queue.
LEMMA QueueTypesNext ==
  ASSUME TypeInv, [ShowNext]_showVars
  PROVE  QueueTypes'
<1>0. QueueTypes /\ Events \subseteq Events' /\ Seq(Events) \subseteq Seq(Events')
  <2>1. Events \subseteq Events'
    BY NowGrows
  <2>. QED BY <2>1 DEF TypeInv
<1>1. uiQueue' \in Seq(Events)
  <2>1. CASE UNCHANGED uiQueue
    BY <1>0, <2>1 DEF QueueTypes
  <2>2. CASE Sends
    BY <1>0, <2>1, <2>2, SendsWhat, SendOK
  <2>3. CASE DrainEvents
    <3>1. uiQueue # <<>> /\ uiQueue' = Tail(uiQueue)
      BY <2>3 DEF DrainEvents, OnLoaded, OnCreated, OnSaved, OnAutosaved, OnCorrupt, OnError, Drain
    <3>. QED BY <1>0, <3>1, DrainOK
  <2>4. CASE Restart
    BY <2>4 DEF Restart
  <2>. QED BY <2>1, <2>2, <2>3, <2>4, QueueMoves
<1>. QED BY <1>0, <1>1 DEF QueueTypes

\* What can be read now can be read later.
LEMMA StaysReadable ==
  ASSUME TypeInv, [ShowNext]_showVars, NEW from, NEW to, Readable(from, to)
  PROVE  ReadableIn(disk', copies', backups', from, to)
<1>1. /\ to \in Files /\ to \in Series
      /\ disk'[to] = disk[to] \/ disk'[to] \in Now
      /\ Len(copies'[to]) >= Len(copies[to]) /\ Len(backups'[to]) >= Len(backups[to])
  BY StoreTypesNext DEF Readable, ReadableIn, Series
<1>2. /\ Len(copies[to]) \in Nat /\ Len(backups[to]) \in Nat
      /\ Len(copies'[to]) \in Nat /\ Len(backups'[to]) \in Nat
  BY <1>1, StoreTypesNext DEF TypeInv, StoreTypes
<1>3. CASE from = File(to) /\ disk[to] # NoContent
  BY <1>1, <1>3, NowGrows DEF Readable, ReadableIn
<1>4. CASE \E i \in 1..Keep : from = Copy("copy", to, i) /\ i <= Len(copies[to])
  BY <1>1, <1>2, <1>4, FilesAssumption DEF Readable, ReadableIn
<1>5. CASE \E i \in 1..Keep : from = Copy("backup", to, i) /\ i <= Len(backups[to])
  BY <1>1, <1>2, <1>5, FilesAssumption DEF Readable, ReadableIn
<1>. QED BY <1>3, <1>4, <1>5 DEF Readable, ReadableIn

\* What is still to be read is there.
LEMMA ReadOKNext ==
  ASSUME TypeInv, [ShowNext]_showVars
  PROVE  ReadOK'
<1>0. /\ ReadOK /\ Now \subseteq Now' /\ SwitchTypes
      /\ \A f \in Files : disk[f] \in Now => disk'[f] \in Now'
  BY NowGrows, StoreTypesNext DEF TypeInv
<1>. DEFINE Loading == switch'.pc = "load" =>
                         ReadableIn(disk', copies', backups', switch'.from, switch'.to)
            Applying == switch'.pc = "apply" /\ switch'.from # NoContent /\ switch'.from.kind = "file" =>
                          switch'.to \in Files /\ disk'[switch'.to] \in Now'
            Backing == switch'.pc = "backup" => switch'.to \in Files /\ disk'[switch'.to] \in Now'
<1>1. Loading /\ Applying /\ Backing
  <2>1. CASE UNCHANGED switch
    BY <1>0, <2>1, StaysReadable DEF ReadOK
  <2>2. CASE AnyShift
    BY <1>0, <2>2, ShiftMakes, StaysReadable
  <2>3. CASE switch' = Off
    BY <2>3 DEF Off
  <2>4. CASE SwitchLoad /\ Read(switch.from) # Corrupt
    <3>. DEFINE c == Read(switch.from)
    <3>1. /\ switch \in Loads /\ switch.to \in Files /\ c \in Now
          /\ switch.from = File(switch.to) => c = disk[switch.to]
          /\ \/ switch.from = File(switch.to)
             \/ \E kind \in {"copy", "backup"}, i \in 1..Keep : switch.from = Copy(kind, switch.to, i)
      BY <2>4, ReadIsContent DEF SwitchLoad
    <3>2. switch' = [switch EXCEPT !.pc = "apply", !.content = c]
      BY <2>4 DEF SwitchLoad
    <3>3. switch'.pc = "apply" /\ switch'.from = switch.from /\ switch'.to = switch.to
      BY <3>1, <3>2 DEF Loads
    <3>4. switch.from.kind = "file" => disk[switch.to] \in Now
      <4>1. \A kind \in {"copy", "backup"}, i \in 1..Keep : Copy(kind, switch.to, i).kind = kind
        BY DEF Copy
      <4>. QED BY <3>1, <4>1
    <3>. QED BY <1>0, <3>1, <3>3, <3>4
  <2>5. CASE SwitchApply
    <3>1. switch \in Loads
      BY <1>0, <2>5 DEF SwitchApply, SwitchTypes, Off
    <3>2. /\ switch'.pc \in {"apply", "backup", "report"} /\ switch'.from = switch.from
          /\ switch'.to = switch.to
          /\ switch'.pc = "backup" => switch.from # NoContent /\ switch.from.kind = "file"
      BY <2>5, <3>1 DEF SwitchApply, Loads
    <3>. QED BY <1>0, <2>5, <3>2 DEF ReadOK, SwitchApply
  <2>6. CASE SwitchBackup
    <3>1. switch \in Loads
      BY <1>0, <2>6 DEF SwitchBackup, SwitchTypes, Off
    <3>2. switch'.pc = "report"
      BY <2>6, <3>1 DEF SwitchBackup, Loads
    <3>. QED BY <3>2
  <2>7. (SwitchLoad /\ Read(switch.from) = Corrupt) \/ SwitchReport \/ Stops => switch' = Off
    BY DEF SwitchLoad, SwitchReport, Stops, Exit, Crash
  <2>. HIDE DEF Loading, Applying, Backing
  <2>. QED BY <2>1, <2>2, <2>3, <2>4, <2>5, <2>6, <2>7, TaskMoves DEF SwitchTasks
<1>2. prompt'.after = "open" => ReadableIn(disk', copies', backups', prompt'.from, prompt'.to)
  <2>1. CASE UNCHANGED prompt \/ prompt' \in {NoPrompt, ToQuit, ToNew}
    BY <1>0, <2>1, StaysReadable DEF ReadOK, NoPrompt, ToQuit, ToNew
  <2>2. CASE New
    BY <2>1, <2>2 DEF New, AskOrSwitch
  <2>3. ASSUME NEW f \in Files, Open(f) PROVE prompt'.after = "open" => ReadableIn(disk', copies', backups', prompt'.from, prompt'.to)
    <3>1. CASE prompt' = ToOpen(File(f), f)
      <4>1. Readable(File(f), f)
        BY <2>3 DEF Open, Readable, ReadableIn
      <4>2. prompt'.from = File(f) /\ prompt'.to = f
        BY <3>1 DEF ToOpen
      <4>. QED BY <4>1, <4>2, StaysReadable
    <3>. QED BY <2>1, <2>3, <3>1 DEF Open, AskOrSwitch
  <2>. QED BY <2>1, <2>2, <2>3, WindowMoves
<1>. QED BY <1>1, <1>2 DEF ReadOK, Readable

\* Fresh content is unedited.
LEMMA FreshIsNow ==
  ASSUME ShowInit
  PROVE  /\ \A f \in Files : disk[f] \in Now \cup {NoContent, Corrupt}
         /\ \A f \in Files : OldCopies[f] \in Seq(Now)
         /\ Empty \in Now /\ edits = 0
<1>1. edits = 0 /\ disk \in [Files -> Content \cup {NoContent, Corrupt}] /\ disk \in Stored
  BY FilesAssumption DEF ShowInit
<1>2. ASSUME NEW c \in Content, \A p \in Parts : c[p].rev = 0 PROVE c \in Now
  <2>1. \A p \in Parts : c[p] \in [show : Shows, rev : 0..edits]
    <3>1. SUFFICES ASSUME NEW p \in Parts PROVE c[p] \in [show : Shows, rev : 0..edits]
      OBVIOUS
    <3>2. c[p] \in [show : Shows, rev : 0..MaxEdits] /\ c[p].rev = 0
      BY <1>2 DEF Content
    <3>. QED BY <1>1, <3>2
  <2>. QED BY <2>1 DEF Now, Content
<1>3. \A f \in Files : disk[f] \in Now \cup {NoContent, Corrupt}
  BY <1>1, <1>2, FreshAssumption DEF Untouched
<1>4. ASSUME NEW f \in Files PROVE OldCopies[f] \in Seq(Now)
  <2>1. OldCopies[f] \in Seq(Content)
    BY FilesAssumption
  <2>2. \A i \in DOMAIN OldCopies[f] : OldCopies[f][i] \in Now
    <3>1. \A i \in DOMAIN OldCopies[f] : OldCopies[f][i] \in Content
      BY <2>1
    <3>. QED BY <1>2, <3>1, FreshAssumption DEF Untouched
  <2>. QED BY <2>1, <2>2
<1>5. Empty \in Now
  BY <1>1 DEF Empty, Now, Shows
<1>. QED BY <1>1, <1>3, <1>4, <1>5

\* The types hold at first.
LEMMA TypeInvInit ==
  ASSUME ShowInit
  PROVE  TypeInv
<1>. USE DEF ShowInit
<1>1. PlainTypes
  <2>1. claims \in [Files -> SUBSET Shows]
    <3>1. SUFFICES ASSUME NEW f \in Files
                   PROVE  /\ ShowsOf(disk[f]) \subseteq Shows
                          /\ \A i \in DOMAIN OldCopies[f] : ShowsOf(OldCopies[f][i]) \subseteq Shows
      OBVIOUS
    <3>2. \A c \in Now \cup {NoContent, Corrupt} : ShowsOf(c) \subseteq Shows
      BY DEF ShowsOf, Now
    <3>3. disk[f] \in Now \cup {NoContent, Corrupt} /\ OldCopies[f] \in Seq(Now)
      BY FreshIsNow
    <3>4. \A i \in DOMAIN OldCopies[f] : OldCopies[f][i] \in Now
      BY <3>3
    <3>. QED BY <3>2, <3>3, <3>4
  <2>2. session \in Sessions
    BY FilesAssumption DEF Sessions
  <2>3. edits \in 0..MaxEdits /\ app = "up" /\ consent = FALSE
    BY FilesAssumption
  <2>4. dialog \in [path : Shows, recovered : BOOLEAN]
    BY DEF NoDialog, Shows
  <2>. QED BY <2>1, <2>2, <2>3, <2>4 DEF PlainTypes, Shows
<1>2. ShowTypes
  BY FreshIsNow DEF ShowTypes
<1>3. StoreTypes
  <2>1. disk \in [Files -> Now \cup {NoContent, Corrupt}]
    BY FreshIsNow, FilesAssumption
  <2>2. <<>> \in Seq(Now) /\ Len(<<>>) = 0 /\ Keep \in Nat
    BY FilesAssumption
  <2>3. backups \in [Files -> Seq(Now)] /\ \A f \in Files : Len(backups[f]) <= Keep
    BY <2>2
  <2>4. copies \in [Series -> Seq(Now)] /\ \A x \in Series : Len(copies[x]) <= Keep
    <3>1. SUFFICES ASSUME NEW x \in Series PROVE copies[x] \in Seq(Now) /\ Len(copies[x]) <= Keep
      OBVIOUS
    <3>2. copies[x] = IF x \in Files THEN OldCopies[x] ELSE <<>>
      OBVIOUS
    <3>3. CASE x \in Files
      <4>1. OldCopies[x] \in Seq(Now) /\ Len(OldCopies[x]) <= Keep
        BY <3>3, FreshIsNow, FreshAssumption
      <4>. QED BY <3>2, <3>3, <4>1
    <3>4. CASE x \notin Files
      BY <2>2, <3>2, <3>4
    <3>. QED BY <3>3, <3>4
  <2>. QED BY <2>1, <2>3, <2>4 DEF StoreTypes
<1>4. SaveTypes /\ SwitchTypes /\ AutoTypes
  BY DEF SaveTypes, SwitchTypes, AutoTypes, Off
<1>5. QueueTypes
  BY DEF QueueTypes
<1>6. ReadOK
  BY DEF ReadOK, Off, NoPrompt
<1>. QED BY <1>1, <1>2, <1>3, <1>4, <1>5, <1>6 DEF TypeInv

\* And every step keeps them.
LEMMA TypeInvNext ==
  ASSUME TypeInv, [ShowNext]_showVars
  PROVE  TypeInv'
BY PlainTypesNext, ShowTypesNext, StoreTypesNext, SaveTypesNext, SwitchTypesNext, AutoTypesNext,
   QueueTypesNext, ReadOKNext DEF TypeInv

\* What the run checks of the types follows.
LEMMA TypeInvImplies == TypeInv => ShowTypeOK
<1>. SUFFICES ASSUME TypeInv PROVE ShowTypeOK
  OBVIOUS
<1>1. Now \subseteq Content
  BY FilesAssumption DEF Now, Content, TypeInv, PlainTypes
<1>2. Seq(Now) \subseteq Seq(Content)
  BY <1>1
<1>3. /\ memory \in Content /\ baseline \in Content \cup {NoContent}
      /\ lastAuto \in Content \cup {NoContent} /\ disk \in [Files -> Content \cup {NoContent, Corrupt}]
  BY <1>1 DEF TypeInv, ShowTypes, StoreTypes
<1>4. /\ \A x \in Series : copies[x] \in Seq(Content) /\ Len(copies[x]) <= Keep
      /\ \A f \in Files : backups[f] \in Seq(Content) /\ Len(backups[f]) <= Keep
  BY <1>2 DEF TypeInv, StoreTypes
<1>. QED BY <1>3, <1>4 DEF ShowTypeOK, TypeInv, PlainTypes

\* Fields, stores and series keep their types, and no series grows past what is kept,
\* whatever tasks overlap.
THEOREM ShowTypeCorrect == ShowSpec => []ShowTypeOK
<1>1. ShowInit => TypeInv
  BY TypeInvInit
<1>2. TypeInv /\ [ShowNext]_showVars => TypeInv'
  BY TypeInvNext
<1>. QED BY <1>1, <1>2, TypeInvImplies, PTL DEF ShowSpec

-----------------------------------------------------------------------------
(* What keeps out of whose way.                                             *)

\* While the app is down nothing runs.
DownOK == app = "down" => switch = Off /\ auto = Off /\ ~Saving

\* One switch at a time, and none begins before the outcome of the last is drained.
AtMostOne(kinds) ==
  \A i, j \in DOMAIN uiQueue : uiQueue[i].kind \in kinds /\ uiQueue[j].kind \in kinds => i = j
Pending(kinds) == \E e \in Queued : e.kind \in kinds
OneSwitchOK == (switch # Off => ~Pending(SwitchKinds)) /\ AtMostOne(SwitchKinds)

\* Where the operator waits, a save and a switch are never under way together.
WaitsForSwitch == Overlaps \cap {"save in switch", "switch in save"} = {}
ApartOK == ~(InProgress /\ SaveUnderWay)

\* InProgress and SaveUnderWay in terms of what is queued.
LEMMA UnderWay ==
  /\ InProgress <=> switch # Off \/ Pending(SwitchKinds)
  /\ SaveUnderWay <=> Saving \/ Pending(SaveKinds)
  /\ InProgress' <=> switch' # Off \/ Pending(SwitchKinds)'
  /\ SaveUnderWay' <=> Saving' \/ Pending(SaveKinds)'
BY DEF InProgress, SaveUnderWay, Saving, Pending, Queued, SwitchKinds, SaveKinds

\* What an event drained or sent does to the count of its kind.
LEMMA OneOnQueue ==
  ASSUME QueueTypes, NEW kinds, AtMostOne(kinds)
  PROVE  /\ UNCHANGED uiQueue => AtMostOne(kinds)' /\ (Pending(kinds)' <=> Pending(kinds))
         /\ uiQueue # <<>> /\ uiQueue' = Tail(uiQueue) =>
              /\ AtMostOne(kinds)' /\ (Pending(kinds)' => Pending(kinds))
              /\ Event.kind \in kinds => ~Pending(kinds)'
         /\ \A e : uiQueue' = uiQueue \o <<e>> =>
              /\ e.kind \notin kinds => AtMostOne(kinds)' /\ (Pending(kinds)' <=> Pending(kinds))
              /\ ~Pending(kinds) => AtMostOne(kinds)'
         /\ uiQueue' = <<>> => AtMostOne(kinds)' /\ ~Pending(kinds)'
<1>1. CASE UNCHANGED uiQueue
  BY <1>1 DEF AtMostOne, Pending, Queued
<1>2. ASSUME uiQueue # <<>>, uiQueue' = Tail(uiQueue)
      PROVE  /\ AtMostOne(kinds)' /\ (Pending(kinds)' => Pending(kinds))
             /\ Event.kind \in kinds => ~Pending(kinds)'
  <2>. DEFINE n == Len(uiQueue)
  <2>1. /\ n \in Nat /\ n >= 1 /\ DOMAIN uiQueue = 1..n /\ DOMAIN uiQueue' = 1..(n - 1)
        /\ \A i \in 1..(n - 1) : uiQueue'[i] = uiQueue[i + 1]
        /\ Event = uiQueue[1] /\ Queued' \subseteq Queued
    BY <1>2, DrainOK
  <2>. HIDE DEF n
  <2>2. AtMostOne(kinds)'
    <3>1. SUFFICES ASSUME NEW i \in 1..(n - 1), NEW j \in 1..(n - 1),
                          uiQueue'[i].kind \in kinds, uiQueue'[j].kind \in kinds
                   PROVE  i = j
      BY <2>1 DEF AtMostOne
    <3>2. i + 1 \in 1..n /\ j + 1 \in 1..n
      BY <2>1
    <3>3. i + 1 = j + 1
      BY <2>1, <3>1, <3>2 DEF AtMostOne
    <3>. QED BY <3>3
  <2>3. ASSUME Event.kind \in kinds, NEW i \in 1..(n - 1) PROVE uiQueue'[i].kind \notin kinds
    <3>1. i + 1 \in 1..n /\ 1 \in 1..n /\ i + 1 # 1
      BY <2>1
    <3>. QED BY <2>1, <2>3, <3>1 DEF AtMostOne
  <2>. QED BY <2>1, <2>2, <2>3 DEF Pending, Queued
<1>3. ASSUME NEW e, uiQueue' = uiQueue \o <<e>>
      PROVE  /\ e.kind \notin kinds => AtMostOne(kinds)' /\ (Pending(kinds)' <=> Pending(kinds))
             /\ ~Pending(kinds) => AtMostOne(kinds)'
  <2>. DEFINE n == Len(uiQueue)
  <2>1. /\ n \in Nat /\ DOMAIN uiQueue = 1..n /\ DOMAIN uiQueue' = 1..(n + 1)
        /\ \A i \in 1..n : uiQueue'[i] = uiQueue[i]
        /\ uiQueue'[n + 1] = e /\ Queued' = Queued \cup {e}
    BY <1>3, SendOK
  <2>. HIDE DEF n
  <2>2. \A i \in 1..(n + 1) : i \in 1..n \/ i = n + 1
    BY <2>1
  <2>3. e.kind \notin kinds => AtMostOne(kinds)'
    BY <2>1, <2>2 DEF AtMostOne
  <2>4. ~Pending(kinds) => AtMostOne(kinds)'
    BY <2>1, <2>2 DEF AtMostOne, Pending, Queued
  <2>. QED BY <2>1, <2>3, <2>4 DEF Pending
<1>4. CASE uiQueue' = <<>>
  BY <1>4 DEF AtMostOne, Pending, Queued
<1>. QED BY <1>1, <1>2, <1>3, <1>4

\* The app goes down by itself or not at all.
LEMMA DownNext ==
  ASSUME TypeInv, DownOK, [ShowNext]_showVars
  PROVE  /\ DownOK'
         /\ app = "down" => Restart \/ UNCHANGED showVars
<1>1. app' = "down" => app = "down" \/ Stops
  BY DEF ShowNext, showVars, ui, stores, tasks, history, bounds, Operator, SaveTask,
    SwitchTasks, AutosaveTask, DrainEvents, Edit, Save, SaveAs, Open, New, AskOrSwitch, Recover, Quit,
    PromptCancel, PromptDiscard, PromptSave, Continue, SaveToOriginal, DialogCancel, SaveBuild,
    SaveWrite, SaveRename, SaveReport, SaveFails, SwitchLoad, SwitchApply, SwitchBackup, SwitchReport,
    AutosaveStart, AutosaveBuild, AutosaveJudge, AutosaveWrite, AutosaveFails, OnLoaded, OnCreated,
    OnSaved, OnAutosaved, OnCorrupt, OnError, Restart, Stops
<1>2. app = "down" => Restart \/ UNCHANGED showVars
  BY DEF ShowNext, Operator, SaveTask, SwitchTasks, AutosaveTask, DrainEvents, Edit, Save, SaveAs,
    Open, New, AskOrSwitch, Recover, Quit, PromptCancel, PromptDiscard, PromptSave, SaveToOriginal,
    DialogCancel, Free, Asked, SaveBuild, SaveWrite, SaveRename, SaveReport, SaveFails, SwitchLoad,
    SwitchApply, SwitchBackup, SwitchReport, AutosaveStart, AutosaveBuild, AutosaveJudge,
    AutosaveWrite, AutosaveFails, OnLoaded, OnCreated, OnSaved, OnAutosaved, OnCorrupt, OnError,
    Drain, Exit, Crash
<1>3. Restart \/ UNCHANGED showVars => UNCHANGED <<saves, switch, auto>>
  BY DEF Restart, tasks, showVars
<1>4. Stops => switch' = Off /\ auto' = Off /\ saves' = [s \in Slots |-> Off]
  BY DEF Stops, Exit, Crash
<1>. QED BY <1>1, <1>2, <1>3, <1>4 DEF DownOK, Saving

\* A switch is in progress because it was, or because it has just begun; so with saves.
LEMMA ProgressMoves ==
  ASSUME TypeInv, DownOK, OneSwitchOK, [ShowNext]_showVars
  PROVE  /\ InProgress' => InProgress \/ AnyShift
         /\ SaveUnderWay' => SaveUnderWay \/ AnyStart
         /\ OneSwitchOK'
         /\ DrainEvents /\ Event.kind \in SwitchKinds => ~InProgress'
<1>0. QueueTypes /\ AtMostOne(SwitchKinds) /\ (switch # Off => ~Pending(SwitchKinds))
  BY DEF TypeInv, OneSwitchOK
<1>1. switch' # Off => switch # Off \/ AnyShift
  <2>1. SwitchTasks => switch # Off
    BY DEF SwitchTasks, SwitchLoad, SwitchApply, SwitchBackup, SwitchReport, Off
  <2>2. Stops => switch' = Off
    BY DEF Stops, Exit, Crash
  <2>. QED BY <2>1, <2>2, TaskMoves
<1>2. Saving' => Saving \/ AnyStart
  <2>1. ASSUME NEW s \in Slots, SaveTask(s) \/ SaveFails(s) PROVE saves[s] # Off
    BY <2>1 DEF SaveTask, SaveBuild, SaveWrite, SaveRename, SaveReport, SaveFails, Off
  <2>2. Stops => saves' = [s \in Slots |-> Off]
    BY DEF Stops, Exit, Crash
  <2>. QED BY <2>1, <2>2, TaskMoves DEF Saving
<1>3. DrainEvents => uiQueue # <<>> /\ uiQueue' = Tail(uiQueue) /\ UNCHANGED switch
  BY DEF DrainEvents, OnLoaded, OnCreated, OnSaved, OnAutosaved, OnCorrupt, OnError, Drain, tasks
<1>4. Restart => uiQueue' = <<>> /\ UNCHANGED switch
  BY DEF Restart, tasks
<1>5. AnyShift => ~InProgress /\ UNCHANGED uiQueue
  BY DEF AnyShift, Shifts, MaySwitch
<1>6. CASE UNCHANGED uiQueue
  <2>1. AtMostOne(SwitchKinds)' /\ Queued' = Queued /\ (Pending(SwitchKinds)' <=> Pending(SwitchKinds))
    BY <1>0, <1>6, OneOnQueue DEF Queued
  <2>2. Pending(SaveKinds)' <=> Pending(SaveKinds)
    BY <2>1 DEF Pending
  <2>3. ~DrainEvents
    <3>1. DrainEvents => Len(uiQueue') = Len(uiQueue) - 1 /\ Len(uiQueue) \in Nat
      BY <1>0, <1>3 DEF QueueTypes
    <3>. QED BY <1>6, <3>1
  <2>. QED BY <1>0, <1>1, <1>2, <1>5, <2>1, <2>2, <2>3, UnderWay DEF OneSwitchOK
<1>7. ASSUME NEW e \in Events, uiQueue' = uiQueue \o <<e>>,
             \/ e.kind \in SaveKinds /\ Saving /\ UNCHANGED switch
             \/ e.kind \in SwitchKinds /\ switch # Off /\ switch' = Off /\ UNCHANGED saves
             \/ e.kind = "autosaved" /\ UNCHANGED <<switch, saves>>
      PROVE  /\ InProgress' => InProgress \/ AnyShift
             /\ SaveUnderWay' => SaveUnderWay \/ AnyStart
             /\ OneSwitchOK'
             /\ ~DrainEvents
  <2>1. Queued' = Queued \cup {e}
    BY <1>0, <1>7, SendOK
  <2>2. ~DrainEvents
    <3>1. DrainEvents => Len(uiQueue') = Len(uiQueue) - 1 /\ Len(uiQueue) \in Nat
      BY <1>0, <1>3 DEF QueueTypes
    <3>2. Len(uiQueue') = Len(uiQueue) + 1
      BY <1>0, <1>7 DEF QueueTypes
    <3>. QED BY <3>1, <3>2
  <2>3. CASE e.kind \in SwitchKinds
    <3>1. AtMostOne(SwitchKinds)' /\ switch' = Off /\ e.kind \notin SaveKinds
      BY <1>0, <1>7, <2>3, OneOnQueue DEF SwitchKinds, SaveKinds
    <3>2. Pending(SaveKinds)' => Pending(SaveKinds)
      BY <2>1, <3>1 DEF Pending
    <3>. QED BY <1>2, <1>7, <2>2, <2>3, <3>1, <3>2, UnderWay DEF OneSwitchOK, SwitchKinds, SaveKinds
  <2>4. CASE e.kind \notin SwitchKinds
    <3>1. AtMostOne(SwitchKinds)' /\ (Pending(SwitchKinds)' <=> Pending(SwitchKinds))
      BY <1>0, <1>7, <2>4, OneOnQueue
    <3>2. UNCHANGED switch
      BY <1>7, <2>4
    <3>3. Pending(SaveKinds)' => Pending(SaveKinds) \/ Saving
      BY <1>7, <2>1 DEF Pending, SwitchKinds, SaveKinds
    <3>. QED BY <1>0, <1>2, <2>2, <3>1, <3>2, <3>3, UnderWay DEF OneSwitchOK
  <2>. QED BY <2>3, <2>4
<1>8. CASE Sends
  <2>1. CASE UNCHANGED uiQueue
    BY <1>6, <2>1
  <2>2. ASSUME NEW e \in Events, uiQueue' = uiQueue \o <<e>>,
               \/ e.kind \in SaveKinds /\ Saving /\ UNCHANGED switch
               \/ e.kind \in SwitchKinds /\ switch # Off /\ switch' = Off /\ UNCHANGED saves
               \/ e.kind = "autosaved" /\ UNCHANGED <<switch, saves>>
        PROVE  /\ InProgress' => InProgress \/ AnyShift
               /\ SaveUnderWay' => SaveUnderWay \/ AnyStart
               /\ OneSwitchOK'
               /\ DrainEvents /\ Event.kind \in SwitchKinds => ~InProgress'
    BY <1>7, <2>2
  <2>. QED BY <1>8, <2>1, <2>2, SendsWhat DEF Saving, SwitchKinds, SaveKinds
<1>9. CASE DrainEvents
  <2>1. /\ AtMostOne(SwitchKinds)' /\ (Pending(SwitchKinds)' => Pending(SwitchKinds))
        /\ Event.kind \in SwitchKinds => ~Pending(SwitchKinds)'
    BY <1>0, <1>3, <1>9, OneOnQueue
  <2>2. Queued' \subseteq Queued /\ Event \in Queued
    BY <1>0, <1>3, <1>9, DrainOK
  <2>3. (Pending(SaveKinds)' => Pending(SaveKinds)) /\ (Event.kind \in SwitchKinds => switch = Off)
    BY <1>0, <2>2 DEF Pending
  <2>. QED BY <1>0, <1>2, <1>3, <1>9, <2>1, <2>3, UnderWay DEF OneSwitchOK
<1>10. CASE Restart
  <2>1. AtMostOne(SwitchKinds)' /\ ~Pending(SwitchKinds)' /\ Queued' = {}
    BY <1>0, <1>4, <1>10, OneOnQueue DEF Queued
  <2>2. ~Pending(SaveKinds)' /\ ~DrainEvents
    BY <1>10, <2>1 DEF Pending, Restart, DrainEvents, OnLoaded, OnCreated, OnSaved, OnAutosaved,
      OnCorrupt, OnError, Drain
  <2>. QED BY <1>1, <1>2, <1>4, <1>5, <1>10, <2>1, <2>2, UnderWay DEF OneSwitchOK
<1>. QED BY <1>6, <1>8, <1>9, <1>10, QueueMoves

\* So neither begins while the other is under way.
LEMMA ApartNext ==
  ASSUME TypeInv, DownOK, OneSwitchOK, ApartOK, WaitsForSwitch, [ShowNext]_showVars
  PROVE  /\ ApartOK'
         /\ AnyShift => ~InProgress /\ ~SaveUnderWay
         /\ AnyStart => ~InProgress
<1>1. AnyShift => ~InProgress /\ ~SaveUnderWay /\ UNCHANGED <<saves, uiQueue>>
  BY DEF AnyShift, Shifts, MaySwitch, May, WaitsForSwitch
<1>2. AnyStart => ~InProgress /\ UNCHANGED <<switch, uiQueue>>
  BY DEF AnyStart, Starts, MaySave, May, WaitsForSwitch
<1>3. AnyShift => ~SaveUnderWay'
  BY <1>1 DEF SaveUnderWay, Saving
<1>4. AnyStart => ~InProgress'
  BY <1>2 DEF InProgress
<1>. QED BY <1>1, <1>2, <1>3, <1>4, ProgressMoves DEF ApartOK

-----------------------------------------------------------------------------
(* What is on disk is whole and its owner's.  A switch that begins while a   *)
(* recovery dialog is up would move the show under it.                      *)

Waits == WaitsForSwitch /\ "switch in dialog" \notin Overlaps
OwnsBy(named, f, c) == \A p \in Parts : c[p].show \in named[f]
Owns(f, c) == OwnsBy(claims, f, c)
Taken(i, c, d) == c[Order[i]].show = d[Order[i]].show

\* The show in memory is being replaced, or has been and the window does not know it.
Replacing == switch.pc \in {"apply", "backup", "report"} \/ Pending({"loaded", "created"})

PromptOK == prompt.after \in {"new", "open"} => ~InProgress /\ dialog = NoDialog
DialogOK ==
  /\ dialog # NoDialog =>
       /\ switch # Off => switch.to = dialog.path
       /\ \A e \in Queued : e.kind = "loaded" => e.path = dialog.path
       /\ \A e \in Queued : e.kind # "created"
  /\ dialog.recovered => Owns(dialog.path, memory)
DiskOK == \A f \in Files : disk[f] \notin {NoContent, Corrupt} => Whole(disk[f]) /\ Owns(f, disk[f])
CopiesOK ==
  \A x \in Series : \A i \in DOMAIN copies[x] :
    Whole(copies[x][i]) /\ (x \in Files => Owns(x, copies[x][i]))
BackupsOK == \A f \in Files : \A i \in DOMAIN backups[f] : Whole(backups[f][i])
MemoryOK ==
  /\ app # "down" /\ switch.pc # "apply" => Whole(memory)
  /\ app # "down" /\ ~Replacing /\ showPath # Untitled => Owns(showPath, memory)
SwitchOK ==
  switch.pc \in {"apply", "backup", "report"} =>
    /\ Whole(switch.content)
    /\ switch.to # Untitled => Owns(switch.to, switch.content)
    /\ switch.to = Untitled => showPath = Untitled
    /\ \A i \in DOMAIN Order : i < switch.part => Taken(i, memory, switch.content)
EventsOK ==
  \A e \in Queued :
    /\ e.kind = "loaded" => Owns(e.path, memory)
    /\ e.kind = "created" => showPath = Untitled
    /\ e.kind = "saved" => Owns(e.path, memory)
SavesOK ==
  \A s \in Slots : saves[s] # Off =>
    /\ Owns(saves[s].target, memory)
    /\ \A i \in DOMAIN Order : i < saves[s].part => Taken(i, saves[s].content, memory)
AutoOK ==
  /\ auto.pc \in {"build", "judge"} /\ ~auto.moved =>
       /\ ~InProgress
       /\ auto.path # Untitled => Owns(auto.path, memory)
       /\ \A i \in DOMAIN Order : i < auto.part => Taken(i, auto.content, memory)
  /\ auto.pc = "write" => Whole(auto.content) /\ (auto.path # Untitled => Owns(auto.path, auto.content))

WholeInv == /\ DownOK /\ OneSwitchOK /\ ApartOK /\ PromptOK /\ DialogOK /\ DiskOK /\ CopiesOK
            /\ BackupsOK /\ MemoryOK /\ SwitchOK /\ EventsOK /\ SavesOK /\ AutoOK

\* While none is in progress, the show in memory is whole and the path's.
LEMMA MemoryIsWhole ==
  ASSUME TypeInv, WholeInv, app # "down", ~InProgress
  PROVE  Whole(memory) /\ ~Replacing /\ switch = Off /\ (showPath # Untitled => Owns(showPath, memory))
<1>1. switch = Off /\ ~Pending(SwitchKinds)
  BY UnderWay
<1>2. ~Replacing /\ switch.pc # "apply"
  BY <1>1 DEF Replacing, Pending, SwitchKinds, Off
<1>. QED BY <1>1, <1>2 DEF WholeInv, MemoryOK

\* What was read part by part is whole when all of it has been read.
LEMMA AllTaken ==
  ASSUME NEW c, NEW d, \A i \in DOMAIN Order : Taken(i, c, d)
  PROVE  /\ \A p \in Parts : c[p].show = d[p].show
         /\ Whole(d) => Whole(c)
         /\ Whole(c) => Whole(d)
         /\ \A f : Owns(f, c) <=> Owns(f, d)
<1>1. \A p \in Parts : c[p].show = d[p].show
  BY OrderOK DEF Taken
<1>. QED BY <1>1 DEF Whole, Owns, OwnsBy

\* What a file owns it goes on owning.
LEMMA OwnsStays ==
  ASSUME TypeInv, [ShowNext]_showVars
  PROVE  \A f \in Files : \A c : Owns(f, c) => OwnsBy(claims', f, c)
BY ClaimsGrow DEF Owns, OwnsBy

\* The shows in memory change only when a switch puts others there, or with a new app.
SameShows == \A p \in Parts : memory'[p].show = memory[p].show

\* An edit leaves the shows alone.
LEMMA SameShowsUnless ==
  ASSUME TypeInv, [ShowNext]_showVars
  PROVE  SwitchApply \/ Restart \/ SameShows
<1>1. ASSUME NEW p \in Parts, Edit(p) PROVE SameShows
  <2>1. memory \in Now /\ memory' = [memory EXCEPT ![p].rev = @ + 1]
    BY <1>1 DEF Edit, TypeInv, ShowTypes
  <2>2. \A q \in Parts : memory[q] \in [show : Shows, rev : 0..edits]
    BY <2>1 DEF Now
  <2>. QED BY <2>1, <2>2 DEF SameShows, Now
<1>. QED BY <1>1, MemoryMoves DEF SameShows

\* So what a file owns in memory it goes on owning.
LEMMA MemoryStays ==
  ASSUME TypeInv, [ShowNext]_showVars, ~SwitchApply, ~Restart
  PROVE  /\ SameShows
         /\ \A f \in Files : Owns(f, memory) => Owns(f, memory)'
         /\ Whole(memory) => Whole(memory)'
<1>1. SameShows
  BY SameShowsUnless
<1>. QED BY <1>1, ClaimsGrow DEF SameShows, Owns, OwnsBy, Whole

\* Saves keep switches from applying.
LEMMA SavingKeepsMemory ==
  ASSUME TypeInv, WholeInv, [ShowNext]_showVars, SaveUnderWay
  PROVE  ~SwitchApply
<1>1. switch = Off
  BY UnderWay DEF WholeInv, ApartOK
<1>. QED BY <1>1 DEF SwitchApply, Off

\* The prompt's question is asked when nothing is under way.
LEMMA PromptNext ==
  ASSUME TypeInv, WholeInv, Waits, [ShowNext]_showVars
  PROVE  PromptOK'
<1>0. PromptOK /\ DownOK /\ OneSwitchOK /\ ApartOK /\ WaitsForSwitch /\ QueueTypes
  BY DEF WholeInv, Waits, TypeInv
<1>1. CASE UNCHANGED prompt
  <2>1. SUFFICES ASSUME prompt.after \in {"new", "open"} PROVE ~InProgress' /\ dialog' = NoDialog
    BY <1>1 DEF PromptOK
  <2>2. ~InProgress /\ dialog = NoDialog /\ prompt # NoPrompt
    BY <1>0, <2>1 DEF PromptOK, NoPrompt
  <2>3. ~AnyShift
    BY <1>1, <2>2 DEF AnyShift, Shifts
  <2>4. ~OnLoaded /\ ~OnCorrupt
    <3>1. OnLoaded \/ OnCorrupt => Event \in Queued /\ Event.kind \in SwitchKinds
      BY <1>0, DrainOK DEF OnLoaded, OnCorrupt, Drain, SwitchKinds
    <3>. QED BY <2>2, <3>1, UnderWay DEF Pending
  <2>. QED BY <1>0, <2>2, <2>3, <2>4, ProgressMoves, WindowMoves
<1>2. CASE prompt' \in {NoPrompt, ToQuit}
  BY <1>2 DEF PromptOK, NoPrompt, ToQuit
<1>3. ASSUME NEW action, AskOrSwitch(action) PROVE PromptOK'
  <2>1. CASE HasUnsavedChanges
    <3>1. ~InProgress /\ dialog = NoDialog /\ UNCHANGED <<switch, uiQueue, dialog>>
      BY <1>3, <2>1 DEF AskOrSwitch, MaySwitch, May, Waits
    <3>. QED BY <3>1 DEF PromptOK, InProgress
  <2>2. CASE ~HasUnsavedChanges
    BY <1>1, <1>3, <2>2 DEF AskOrSwitch
  <2>. QED BY <2>1, <2>2
<1>. QED BY <1>1, <1>2, <1>3, WindowMoves DEF New, Open

\* While the recovery dialog is up, a switch is to its file.
LEMMA DialogNext ==
  ASSUME TypeInv, WholeInv, Waits, [ShowNext]_showVars
  PROVE  DialogOK'
<1>0. /\ PromptOK /\ DialogOK /\ DownOK /\ OneSwitchOK /\ ApartOK /\ WaitsForSwitch /\ QueueTypes
      /\ SwitchOK /\ EventsOK
      /\ dialog # NoDialog => dialog.path \in Files
  BY DEF WholeInv, Waits, TypeInv, PlainTypes
<1>1. CASE dialog' = NoDialog
  BY <1>1 DEF DialogOK, NoDialog
<1>2. ASSUME UNCHANGED dialog, dialog # NoDialog
      PROVE  /\ switch' # Off => switch'.to = dialog.path
             /\ \A e \in Queued' : e.kind = "loaded" => e.path = dialog.path
             /\ \A e \in Queued' : e.kind # "created"
  <2>0. /\ switch # Off => switch.to = dialog.path
        /\ \A e \in Queued : e.kind = "loaded" => e.path = dialog.path
        /\ \A e \in Queued : e.kind # "created"
        /\ dialog.path \in Files /\ dialog.path # Untitled
    BY <1>0, <1>2, FilesAssumption DEF DialogOK
  <2>1. switch' # Off => switch'.to = dialog.path
    <3>1. CASE AnyShift
      <4>1. PICK action \in Targets, path \in Shows : Shifts(action, path)
        BY <3>1 DEF AnyShift
      <4>2. prompt \in {NoPrompt, ToQuit}
        BY <1>0, <1>2 DEF PromptOK, TypeInv, PlainTypes, ToNew, ToOpen
      <4>3. action.after = "open" /\ action.to = dialog.path
        BY <1>2, <4>1, <4>2 DEF Shifts, May, Waits
      <4>4. switch' = SwitchTask(action)
        BY <4>1 DEF Shifts, BeginSwitch
      <4>. QED BY <4>3, <4>4 DEF SwitchTask
    <3>2. SwitchTasks => switch' = Off \/ (switch # Off /\ switch'.to = switch.to)
      <4>1. SwitchTasks => switch \in Loads
        BY DEF SwitchTasks, SwitchLoad, SwitchApply, SwitchBackup, SwitchReport, TypeInv,
          SwitchTypes, Off
      <4>. QED BY <4>1 DEF SwitchTasks, SwitchLoad, SwitchApply, SwitchBackup, SwitchReport, Loads, Off
    <3>3. Stops => switch' = Off
      BY DEF Stops, Exit, Crash
    <3>. QED BY <2>0, <3>1, <3>2, <3>3, TaskMoves
  <2>2. ASSUME NEW e \in Queued'
        PROVE  (e.kind = "loaded" => e.path = dialog.path) /\ e.kind # "created"
    <3>1. CASE e \in Queued
      BY <2>0, <3>1
    <3>2. CASE Sends /\ e \notin Queued
      <4>1. ~UNCHANGED uiQueue
        BY <2>2, <3>2 DEF Queued
      <4>2. ASSUME NEW g \in Events, uiQueue' = uiQueue \o <<g>> PROVE g = e
        BY <1>0, <2>2, <3>2, <4>2, SendOK
      <4>3. PICK g \in Events :
              /\ uiQueue' = uiQueue \o <<g>>
              /\ \/ g.kind \in {"error", "saved", "corrupt", "autosaved"}
                 \/ switch # Off /\ g.kind = "created" /\ switch.to = Untitled
                 \/ switch # Off /\ g.kind = "loaded" /\ g.path = switch.to
        BY <3>2, <4>1, SendsWhat
      <4>4. g = e
        BY <4>2, <4>3
      <4>. QED BY <2>0, <4>3, <4>4
    <3>3. UNCHANGED uiQueue \/ DrainEvents \/ Restart => Queued' \subseteq Queued
      <4>1. DrainEvents => uiQueue # <<>> /\ uiQueue' = Tail(uiQueue)
        BY DEF DrainEvents, OnLoaded, OnCreated, OnSaved, OnAutosaved, OnCorrupt, OnError, Drain
      <4>2. Restart => Queued' = {}
        BY DEF Restart, Queued
      <4>3. UNCHANGED uiQueue => Queued' = Queued
        BY DEF Queued
      <4>. QED BY <1>0, <4>1, <4>2, <4>3, DrainOK
    <3>. QED BY <2>2, <3>1, <3>2, <3>3, QueueMoves
  <2>. QED BY <2>1, <2>2
<1>3. ASSUME UNCHANGED dialog, dialog.recovered, dialog # NoDialog PROVE Owns(dialog.path, memory)'
  <2>0. dialog.path \in Files /\ Owns(dialog.path, memory)
    BY <1>0, <1>3 DEF DialogOK
  <2>1. CASE SwitchApply
    <3>1. switch \in Loads /\ switch # Off /\ switch.part \in 1..Len(Order)
      BY <2>1, OrderOK DEF SwitchApply, TypeInv, SwitchTypes, Off, Loads, Places
    <3>2. switch.to = dialog.path /\ Owns(dialog.path, switch.content)
      BY <1>0, <1>3, <2>0, <2>1, <3>1, FilesAssumption DEF SwitchOK, SwitchApply, DialogOK
    <3>3. Order[switch.part] \in Parts /\ memory \in Now
      BY <3>1, OrderOK DEF TypeInv, ShowTypes
    <3>4. \A p \in Parts : memory'[p] = memory[p] \/ memory'[p] = switch.content[p]
      BY <2>1, <3>3 DEF SwitchApply, Now
    <3>5. UNCHANGED claims
      BY <2>1 DEF SwitchApply, history
    <3>. QED BY <1>3, <2>0, <3>2, <3>4, <3>5 DEF Owns, OwnsBy
  <2>2. ~Restart
    BY <1>3 DEF Restart
  <2>. QED BY <1>3, <2>0, <2>1, <2>2, MemoryStays
<1>4. CASE UNCHANGED dialog /\ dialog # NoDialog
  BY <1>2, <1>3, <1>4 DEF DialogOK
<1>5. CASE OnLoaded /\ dialog # NoDialog
  <2>1. /\ Event \in Queued /\ Event.kind = "loaded" /\ Queued' \subseteq Queued
        /\ UNCHANGED <<switch, memory, claims>>
    BY <1>0, <1>5, DrainOK DEF OnLoaded, Drain, tasks, history
  <2>2. switch = Off
    BY <1>0, <2>1 DEF OneSwitchOK, Pending, SwitchKinds
  <2>3. Event.path = dialog.path /\ Owns(dialog.path, memory)
    BY <1>0, <1>5, <2>1 DEF DialogOK, EventsOK
  <2>4. dialog'.path = dialog.path
    BY <1>5 DEF OnLoaded, Recovered, TypeInv, PlainTypes
  <2>5. Owns(dialog.path, memory)'
    BY <2>1, <2>3, <2>4 DEF Owns, OwnsBy
  <2>. QED BY <1>0, <1>5, <2>1, <2>2, <2>4, <2>5 DEF DialogOK
<1>6. CASE OnCorrupt
  <2>1. Event.kind \in SwitchKinds /\ DrainEvents /\ dialog' = [path |-> Event.path, recovered |-> FALSE]
    BY <1>6 DEF OnCorrupt, Drain, DrainEvents, SwitchKinds
  <2>2. switch' = Off /\ ~Pending(SwitchKinds)'
    BY <1>0, <2>1, ProgressMoves, UnderWay
  <2>. QED BY <2>1, <2>2 DEF DialogOK, Pending, SwitchKinds
<1>7. ASSUME OnLoaded, dialog = NoDialog PROVE dialog' = NoDialog
  <2>1. dialog' = [dialog EXCEPT !.recovered = @ \/ dialog # NoDialog]
    BY <1>7 DEF OnLoaded, Recovered
  <2>2. dialog'.path = Untitled /\ ~dialog'.recovered
    BY <1>7, <2>1 DEF NoDialog
  <2>3. dialog' \in [path : Shows, recovered : BOOLEAN]
    BY PlainTypesNext DEF PlainTypes
  <2>. QED BY <2>2, <2>3 DEF NoDialog
<1>. QED BY <1>1, <1>4, <1>5, <1>6, <1>7, WindowMoves

\* The save of the prompt writes a whole show, to a file that owns it by then.
LEMMA PromptSaveOwns ==
  ASSUME TypeInv, WholeInv, Waits, NEW f \in Files, PromptSave(f)
  PROVE  /\ Whole(memory) /\ ~InProgress /\ UNCHANGED memory
         /\ OwnsBy(claims', f, memory)
         /\ disk' = [disk EXCEPT ![f] = memory]
<1>1. ~InProgress /\ app # "down"
  BY DEF PromptSave, Asked, MaySave, May, Waits, WaitsForSwitch
<1>2. Whole(memory) /\ (showPath # Untitled => Owns(showPath, memory))
  BY <1>1, MemoryIsWhole
<1>3. claims \in [Files -> SUBSET Shows]
  BY DEF TypeInv, PlainTypes
<1>4. \A p \in Parts : memory[p].show \in claims'[f]
  <2>1. CASE showPath = Untitled
    BY <1>3, <2>1 DEF PromptSave, Claimed
  <2>2. CASE showPath # Untitled
    BY <1>2, <2>2 DEF PromptSave, Owns, OwnsBy
  <2>. QED BY <2>1, <2>2
<1>. QED BY <1>1, <1>2, <1>4 DEF PromptSave, OwnsBy

\* The files.
LEMMA DiskNext ==
  ASSUME TypeInv, WholeInv, Waits, [ShowNext]_showVars
  PROVE  DiskOK'
<1>0. /\ DiskOK /\ DownOK /\ SavesOK /\ disk \in [Files -> Now \cup {NoContent, Corrupt}]
      /\ \A f \in Files : \A c : Owns(f, c) => OwnsBy(claims', f, c)
  BY OwnsStays DEF WholeInv, TypeInv, StoreTypes
<1>1. ASSUME NEW f \in Files, NEW c, disk' = [disk EXCEPT ![f] = c],
             Whole(c), OwnsBy(claims', f, c)
      PROVE  DiskOK'
  <2>1. SUFFICES ASSUME NEW g \in Files, disk'[g] \notin {NoContent, Corrupt}
                 PROVE  Whole(disk'[g]) /\ OwnsBy(claims', g, disk'[g])
    BY DEF DiskOK, Owns, OwnsBy, Whole
  <2>2. CASE g = f
    <3>1. disk'[g] = c
      BY <1>0, <1>1, <2>2
    <3>. QED BY <1>1, <2>2, <3>1 DEF Owns, OwnsBy
  <2>3. CASE g # f
    <3>1. disk'[g] = disk[g]
      BY <1>0, <1>1, <2>3
    <3>2. Whole(disk[g]) /\ Owns(g, disk[g])
      BY <1>0, <2>1, <3>1 DEF DiskOK
    <3>. QED BY <1>0, <3>1, <3>2 DEF Owns, OwnsBy
  <2>. QED BY <2>2, <2>3
<1>2. CASE UNCHANGED disk
  <2>1. \A g \in Files : disk[g] \notin {NoContent, Corrupt} => Whole(disk[g]) /\ OwnsBy(claims', g, disk[g])
    BY <1>0 DEF DiskOK
  <2>. QED BY <1>2, <2>1 DEF DiskOK, Owns, OwnsBy, Whole
<1>3. ASSUME NEW f \in Files, PromptSave(f) PROVE DiskOK'
  <2>1. /\ Whole(memory) /\ OwnsBy(claims', f, memory) /\ disk' = [disk EXCEPT ![f] = memory]
        /\ UNCHANGED memory
    BY <1>3, PromptSaveOwns DEF Owns, OwnsBy
  <2>. QED BY <1>1, <2>1
<1>4. ASSUME NEW s \in Slots, SaveRename(s) PROVE DiskOK'
  <2>. DEFINE f == saves[s].target
              c == saves[s].content
  <2>1. /\ saves[s] \in SaveTasks /\ saves[s] # Off /\ saves[s].part = Len(Order) + 1
        /\ app # "down" /\ disk' = [disk EXCEPT ![f] = c]
    BY <1>4 DEF SaveRename, TypeInv, SaveTypes, Off
  <2>2. f \in Files
    BY <2>1 DEF SaveTasks
  <2>3. Owns(f, memory) /\ \A i \in DOMAIN Order : Taken(i, c, memory)
    BY <1>0, <2>1, OrderOK DEF SavesOK
  <2>4. ~InProgress
    BY <2>1 DEF WholeInv, ApartOK, SaveUnderWay, Saving
  <2>5. Whole(c) /\ Owns(f, c)
    BY <2>1, <2>3, <2>4, AllTaken, MemoryIsWhole
  <2>6. OwnsBy(claims', f, c)
    <3>1. UNCHANGED claims
      BY <1>4 DEF SaveRename, history
    <3>2. \A p \in Parts : c[p].show \in claims'[f]
      BY <2>5, <3>1 DEF Owns, OwnsBy
    <3>. QED BY <1>0, <2>1, <2>2, <2>5, <3>2 DEF Owns, OwnsBy
  <2>. QED BY <1>1, <2>1, <2>2, <2>5, <2>6
<1>. QED BY <1>2, <1>3, <1>4, StoreMoves

\* The copies.
LEMMA CopiesNext ==
  ASSUME TypeInv, WholeInv, [ShowNext]_showVars
  PROVE  CopiesOK' /\ BackupsOK'
<1>0. /\ CopiesOK /\ BackupsOK /\ AutoOK /\ DiskOK
      /\ copies \in [Series -> Seq(Now)] /\ \A x \in Series : Len(copies[x]) <= Keep
      /\ backups \in [Files -> Seq(Now)] /\ \A f \in Files : Len(backups[f]) <= Keep
      /\ \A f \in Files : claims[f] \subseteq claims'[f]
  BY ClaimsGrow DEF WholeInv, TypeInv, StoreTypes
<1>1. ASSUME UNCHANGED copies PROVE CopiesOK'
  <2>1. ASSUME NEW x \in Series, NEW i \in DOMAIN copies[x]
        PROVE  Whole(copies[x][i]) /\ (x \in Files => OwnsBy(claims', x, copies[x][i]))
    BY <1>0 DEF CopiesOK, Owns, OwnsBy
  <2>. QED BY <1>1, <2>1 DEF CopiesOK, Owns, OwnsBy, Whole
<1>2. ASSUME AutosaveWrite PROVE CopiesOK'
  <2>. DEFINE x == SeriesOf(auto.path)
              c == auto.content
              new == Newest(c, copies[x])
  <2>1. c \in Now /\ auto.path \in Shows /\ session \in Sessions
    BY <1>2 DEF AutosaveWrite, TypeInv, PlainTypes, AutoTypes, AutoTasks, Off
  <2>2. x \in Series /\ (x \in Files => auto.path = x /\ auto.path # Untitled)
    BY <2>1, FilesAssumption DEF SeriesOf, Series, Shows
  <2>3. Whole(c) /\ (x \in Files => Owns(x, c))
    BY <1>0, <1>2, <2>2 DEF AutoOK, AutosaveWrite
  <2>4. copies' = [copies EXCEPT ![x] = new]
    BY <1>2 DEF AutosaveWrite
  <2>5. \A i \in DOMAIN new : new[i] = c \/ \E j \in DOMAIN copies[x] : new[i] = copies[x][j]
    BY <1>0, <2>1, <2>2, NewestOK
  <2>. HIDE DEF new, c
  <2>6. ASSUME NEW y \in Series, NEW i \in DOMAIN copies'[y]
        PROVE  /\ Whole(copies'[y][i])
               /\ y \in Files => \A p \in Parts : copies'[y][i][p].show \in claims'[y]
    <3>1. CASE y = x
      <4>1. copies'[y] = new
        BY <1>0, <2>2, <2>4, <3>1
      <4>2. new[i] = c \/ \E j \in DOMAIN copies[x] : new[i] = copies[x][j]
        BY <2>5, <2>6, <4>1
      <4>3. CASE new[i] = c
        BY <1>0, <2>3, <3>1, <4>1, <4>3 DEF Owns, OwnsBy
      <4>4. CASE \E j \in DOMAIN copies[x] : new[i] = copies[x][j]
        BY <1>0, <2>2, <3>1, <4>1, <4>4 DEF CopiesOK, Owns, OwnsBy
      <4>. QED BY <4>2, <4>3, <4>4
    <3>2. CASE y # x
      <4>1. copies'[y] = copies[y]
        BY <1>0, <2>4, <3>2
      <4>. QED BY <1>0, <2>6, <4>1 DEF CopiesOK, Owns, OwnsBy
    <3>. QED BY <3>1, <3>2
  <2>. QED BY <2>6 DEF CopiesOK, Owns, OwnsBy, Whole
<1>3. ASSUME UNCHANGED backups PROVE BackupsOK'
  BY <1>0, <1>3 DEF BackupsOK, Whole
<1>4. ASSUME SwitchBackup PROVE BackupsOK'
  <2>. DEFINE f == switch.to
              new == Newest(disk[f], backups[f])
  <2>1. f \in Files /\ disk[f] \in Now
    BY <1>4 DEF SwitchBackup, TypeInv, ReadOK
  <2>2. Whole(disk[f])
    BY <1>0, <2>1, NowGrows DEF DiskOK
  <2>3. \A i \in DOMAIN new : new[i] = disk[f] \/ \E j \in DOMAIN backups[f] : new[i] = backups[f][j]
    BY <1>0, <2>1, NewestOK
  <2>4. backups' = [backups EXCEPT ![f] = new] \/ UNCHANGED backups
    BY <1>4 DEF SwitchBackup
  <2>. HIDE DEF new, f
  <2>5. ASSUME backups' = [backups EXCEPT ![f] = new], NEW g \in Files, NEW i \in DOMAIN backups'[g]
        PROVE  Whole(backups'[g][i])
    <3>1. backups'[g] = IF g = f THEN new ELSE backups[g]
      BY <1>0, <2>1, <2>5
    <3>. QED BY <1>0, <2>1, <2>2, <2>3, <2>5, <3>1 DEF BackupsOK
  <2>. QED BY <1>3, <2>4, <2>5 DEF BackupsOK, Whole
<1>. QED BY <1>1, <1>2, <1>3, <1>4, StoreMoves

\* The window's path changes with an answer drained, a switch begun or the prompt's save.
LEMMA PathMoves ==
  ASSUME TypeInv, [ShowNext]_showVars
  PROVE  \/ UNCHANGED showPath
         \/ AnyShift /\ (showPath' \in {Untitled, showPath} \/ \E f \in Files : PromptSave(f) /\ showPath' = f)
         \/ \E f \in Files : PromptSave(f) /\ showPath' = f
         \/ OnLoaded \/ OnSaved \/ Restart
<1>1. ASSUME New \/ (\E f \in Files : Open(f)) \/ PromptDiscard
             \/ (\E kind \in {"copy", "backup"}, f \in Files, i \in 1..Keep : Recover(Copy(kind, f, i)))
      PROVE  showPath' \in {Untitled, showPath}
  BY <1>1 DEF New, Open, AskOrSwitch, Recover, PromptDiscard, Continue, BeginSwitch, PathAfter
<1>2. ASSUME NEW f \in Files, PromptSave(f) PROVE showPath' \in {Untitled, f}
  BY <1>2 DEF PromptSave, Continue, BeginSwitch, PathAfter
<1>3. ASSUME NEW f \in Files, PromptSave(f), showPath' # f PROVE AnyShift
  <2>1. switch' # switch
    <3>1. MaySwitch /\ switch' = SwitchTask(prompt)
      BY <1>3 DEF PromptSave, Continue, BeginSwitch
    <3>2. switch = Off
      BY <3>1, UnderWay DEF MaySwitch
    <3>. QED BY <3>1, <3>2 DEF SwitchTask, Off
  <2>. QED BY <1>3, <2>1, Begins
<1>4. ASSUME New \/ (\E f \in Files : Open(f)) \/ PromptDiscard
             \/ (\E kind \in {"copy", "backup"}, f \in Files, i \in 1..Keep : Recover(Copy(kind, f, i))),
             showPath' # showPath
      PROVE  AnyShift
  <2>1. switch' # switch
    <3>1. PICK action \in Targets \cup {prompt} : MaySwitch /\ switch' = SwitchTask(action)
      <4>1. CASE PromptDiscard
        BY <1>4, <4>1 DEF PromptDiscard, Continue, BeginSwitch
      <4>2. CASE New \/ \E f \in Files : Open(f)
        BY <1>4, <4>2, PromptTargets DEF New, Open, AskOrSwitch, BeginSwitch
      <4>3. ASSUME NEW kind \in {"copy", "backup"}, NEW f \in Files, NEW i \in 1..Keep,
                   Recover(Copy(kind, f, i))
            PROVE  \E action \in Targets : MaySwitch /\ switch' = SwitchTask(action)
        <5>1. Copy(kind, f, i) \in Sources /\ Copy(kind, f, i).file = f
          BY DEF Sources, Copy
        <5>. QED BY <4>3, <5>1, PromptTargets DEF Recover, BeginSwitch
      <4>. QED BY <1>4, <4>1, <4>2, <4>3
    <3>2. switch = Off
      BY <3>1, UnderWay DEF MaySwitch
    <3>. QED BY <3>1, <3>2 DEF SwitchTask, Off
  <2>. QED BY <1>4, <2>1, Begins
<1>5. CASE Requests
  BY <1>1, <1>2, <1>3, <1>4, <1>5 DEF Requests
<1>. QED BY <1>5, WindowMoves

\* A replaced show is known to the window with the event that says so.
LEMMA ReplacedWhen ==
  ASSUME TypeInv, [ShowNext]_showVars, Replacing, ~Replacing', app' # "down", ~Restart
  PROVE  OnLoaded \/ OnCreated
<1>0. QueueTypes
  BY DEF TypeInv
<1>1. CASE switch.pc \in {"apply", "backup", "report"}
  <2>1. ~AnyShift /\ ~UNCHANGED switch
    <3>1. AnyShift => switch = Off
      BY UnderWay DEF AnyShift, Shifts, MaySwitch
    <3>. QED BY <1>1, <3>1 DEF Replacing, Off
  <2>2. ~Stops
    BY DEF Stops, Exit, Crash
  <2>3. SwitchBackup => switch'.pc = "report"
    BY DEF SwitchBackup, TypeInv, SwitchTypes, Off, Loads
  <2>4. SwitchApply => switch'.pc \in {"apply", "backup", "report"}
    BY DEF SwitchApply, TypeInv, SwitchTypes, Off, Loads
  <2>5. SwitchReport
    BY <1>1, <2>1, <2>2, <2>3, <2>4, TaskMoves DEF SwitchTasks, SwitchLoad, Replacing
  <2>6. PICK e : uiQueue' = uiQueue \o <<e>> /\ e.kind \in {"loaded", "created"}
    <3>. DEFINE e == IF switch.to = Untitled THEN [kind |-> "created"]
                     ELSE [kind |-> "loaded", path |-> switch.to,
                           recovered |-> switch.from.kind # "file"]
    <3>1. uiQueue' = uiQueue \o <<e>>
      BY <2>5 DEF SwitchReport, Send
    <3>2. e.kind \in {"loaded", "created"}
      OBVIOUS
    <3>. HIDE DEF e
    <3>. QED BY <3>1, <3>2
  <2>7. e \in Queued'
    BY <1>0, <2>6, SendOK
  <2>. QED BY <2>6, <2>7 DEF Replacing, Pending
<1>2. ASSUME NEW e \in Queued, e.kind \in {"loaded", "created"} PROVE OnLoaded \/ OnCreated
  <2>1. e \notin Queued'
    BY <1>2 DEF Replacing, Pending
  <2>2. ~UNCHANGED uiQueue
    BY <1>2, <2>1 DEF Queued
  <2>3. ~Sends
    BY <1>0, <1>2, <2>1, <2>2, SendsWhat, SendOK
  <2>4. DrainEvents
    BY <2>2, <2>3, QueueMoves
  <2>5. uiQueue # <<>> /\ uiQueue' = Tail(uiQueue)
    BY <2>4 DEF DrainEvents, OnLoaded, OnCreated, OnSaved, OnAutosaved, OnCorrupt, OnError, Drain
  <2>6. Event = e
    BY <1>0, <1>2, <2>1, <2>5, DrainOK
  <2>. QED BY <1>2, <2>4, <2>6
       DEF DrainEvents, OnLoaded, OnCreated, OnSaved, OnAutosaved, OnCorrupt, OnError, Drain
<1>. QED BY <1>1, <1>2 DEF Replacing, Pending

\* The managers.
LEMMA MemoryNext ==
  ASSUME TypeInv, WholeInv, Waits, [ShowNext]_showVars
  PROVE  MemoryOK'
<1>0. /\ MemoryOK /\ DownOK /\ OneSwitchOK /\ ApartOK /\ WaitsForSwitch /\ SwitchOK /\ EventsOK
      /\ QueueTypes /\ showPath \in Shows /\ memory \in Now
      /\ \A f \in Files : \A c : Owns(f, c) => OwnsBy(claims', f, c)
  BY OwnsStays DEF WholeInv, Waits, TypeInv, PlainTypes, ShowTypes
<1>1. ASSUME app' # "down", switch'.pc # "apply" PROVE Whole(memory')
  <2>1. CASE Restart
    BY <2>1 DEF Restart, Whole, Empty
  <2>2. CASE SwitchApply
    <3>1. /\ switch \in Loads /\ switch # Off /\ switch.part \in 1..Len(Order)
      BY <2>2, OrderOK DEF SwitchApply, TypeInv, SwitchTypes, Off, Loads, Places
    <3>2. switch.part = Len(Order)
      <4>1. switch.part < Len(Order) => switch'.pc = "apply"
        BY <2>2, <3>1 DEF SwitchApply, Loads
      <4>. QED BY <1>1, <3>1, <4>1, OrderOK
    <3>3. /\ Whole(switch.content)
          /\ \A i \in DOMAIN Order : i < switch.part => Taken(i, memory, switch.content)
      BY <1>0, <2>2 DEF SwitchOK, SwitchApply
    <3>4. memory' = [memory EXCEPT ![Order[switch.part]] = switch.content[Order[switch.part]]]
      BY <2>2 DEF SwitchApply
    <3>5. ASSUME NEW i \in DOMAIN Order PROVE Taken(i, memory', switch.content)
      <4>1. i < switch.part \/ i = switch.part
        BY <3>2, OrderOK
      <4>2. Order[i] \in Parts
        BY OrderOK
      <4>. QED BY <1>0, <3>3, <3>4, <4>1, <4>2 DEF Taken, Now
    <3>. QED BY <3>3, <3>5, AllTaken
  <2>3. CASE ~Restart /\ ~SwitchApply
    <3>1. app # "down"
      BY <1>0, <1>1, <2>3, DownNext DEF showVars
    <3>2. switch.pc # "apply"
      <4>1. AnyShift => switch = Off
        BY UnderWay DEF AnyShift, Shifts, MaySwitch
      <4>2. SwitchLoad \/ SwitchBackup \/ SwitchReport => switch.pc # "apply"
        BY DEF SwitchLoad, SwitchBackup, SwitchReport
      <4>3. Stops => app' = "down"
        BY DEF Stops, Exit, Crash
      <4>. QED BY <1>1, <2>3, <4>1, <4>2, <4>3, TaskMoves DEF SwitchTasks, Off
    <3>3. SameShows
      BY <2>3, MemoryStays
    <3>. QED BY <1>0, <3>1, <3>2, <3>3 DEF MemoryOK, Whole, SameShows
  <2>. QED BY <2>1, <2>2, <2>3
<1>2. ASSUME app' # "down", ~Replacing', showPath' # Untitled
      PROVE  OwnsBy(claims', showPath', memory')
  <2>1. ~Restart
    BY <1>2 DEF Restart
  <2>2. ~SwitchApply
    <3>1. SwitchApply => switch'.pc \in {"apply", "backup", "report"}
      BY DEF SwitchApply, TypeInv, SwitchTypes, Off, Loads
    <3>. QED BY <1>2, <3>1 DEF Replacing
  <2>3. /\ SameShows /\ app # "down"
        /\ \A f \in Files : Owns(f, memory) => OwnsBy(claims', f, memory')
    <3>1. SameShows
      BY <2>1, <2>2, MemoryStays
    <3>2. app # "down"
      BY <1>0, <1>2, <2>1, DownNext DEF showVars
    <3>. QED BY <1>0, <3>1, <3>2 DEF SameShows, OwnsBy
  <2>4. CASE OnLoaded
    <3>1. Event \in Queued /\ Event.kind = "loaded" /\ showPath' = Event.path
      BY <1>0, <2>4, DrainOK DEF OnLoaded, Drain
    <3>2. Event.path \in Files
      BY <1>0, <2>4, <3>1, DrainOK DEF OnLoaded, Drain, Events
    <3>. QED BY <1>0, <2>3, <3>1, <3>2 DEF EventsOK
  <2>5. CASE OnSaved
    <3>1. Event \in Queued /\ Event.kind = "saved" /\ showPath' = Event.path
      BY <1>0, <2>5, DrainOK DEF OnSaved, Drain
    <3>2. Event.path \in Files
      BY <1>0, <2>5, <3>1, DrainOK DEF OnSaved, Drain, Events
    <3>. QED BY <1>0, <2>3, <3>1, <3>2 DEF EventsOK
  <2>6. ASSUME NEW f \in Files, PromptSave(f), showPath' = f
        PROVE  OwnsBy(claims', showPath', memory')
    BY <2>6, PromptSaveOwns
  <2>7. ASSUME showPath' = showPath, ~OnLoaded
        PROVE  OwnsBy(claims', showPath', memory')
    <3>1. showPath \in Files /\ showPath # Untitled
      BY <1>0, <1>2, <2>7 DEF Shows
    <3>2. ~Replacing
      <4>1. ASSUME OnCreated PROVE FALSE
        <5>1. Event \in Queued /\ Event.kind = "created"
          BY <1>0, <4>1, DrainOK DEF OnCreated, Drain
        <5>. QED BY <1>0, <3>1, <5>1 DEF EventsOK
      <4>. QED BY <1>2, <2>1, <2>7, <4>1, ReplacedWhen
    <3>. QED BY <1>0, <2>3, <2>7, <3>1, <3>2 DEF MemoryOK
  <2>. QED BY <1>2, <2>1, <2>4, <2>5, <2>6, <2>7, PathMoves
<1>. QED BY <1>1, <1>2 DEF MemoryOK, Owns, Whole

\* The switch under way.
LEMMA SwitchNext ==
  ASSUME TypeInv, WholeInv, Waits, [ShowNext]_showVars
  PROVE  SwitchOK'
<1>0. /\ MemoryOK /\ DownOK /\ OneSwitchOK /\ ApartOK /\ WaitsForSwitch /\ SwitchOK /\ EventsOK
      /\ QueueTypes /\ showPath \in Shows /\ memory \in Now /\ DiskOK /\ CopiesOK /\ BackupsOK
      /\ \A f \in Files : \A c : Owns(f, c) => OwnsBy(claims', f, c)
      /\ \A f \in Files : claims[f] \subseteq claims'[f]
  BY OwnsStays, ClaimsGrow DEF WholeInv, Waits, TypeInv, PlainTypes, ShowTypes
<1>. DEFINE Fine(c, to, part) ==
         /\ Whole(c)
         /\ to # Untitled => OwnsBy(claims', to, c)
         /\ to = Untitled => showPath' = Untitled
         /\ \A i \in DOMAIN Order : i < part => Taken(i, memory', c)
<1>1. SUFFICES ASSUME switch'.pc \in {"apply", "backup", "report"}
               PROVE  Fine(switch'.content, switch'.to, switch'.part)
  BY DEF SwitchOK, Owns, Whole, Taken
<1>2. switch' \in Loads' /\ switch' # Off
  BY <1>1, SwitchTypesNext DEF SwitchTypes, Off
<1>3. CASE AnyShift
  <2>1. /\ switch'.content = Empty /\ switch'.part = 1 /\ switch'.to = Untitled
        /\ showPath' = Untitled
    BY <1>1, <1>3, ShiftMakes
  <2>2. Whole(Empty)
    BY DEF Whole, Empty
  <2>3. \A i \in DOMAIN Order : ~(i < 1)
    BY OrderOK
  <2>. QED BY <2>1, <2>2, <2>3
<1>4. CASE SwitchLoad
  <2>. DEFINE c == Read(switch.from)
              to == switch.to
  <2>1. c # Corrupt /\ switch \in Loads /\ c \in Now /\ to \in Files /\ to \in Series
    BY <1>2, <1>4, ReadIsContent DEF SwitchLoad, Series
  <2>2. switch' = [switch EXCEPT !.pc = "apply", !.content = c] /\ switch.part = 1
    BY <1>4, <2>1 DEF SwitchLoad, TypeInv, SwitchTypes
  <2>3. switch'.content = c /\ switch'.to = to /\ switch'.part = 1
    BY <2>1, <2>2 DEF Loads
  <2>4. Whole(c)
    <3>1. CASE switch.from = File(to)
      BY <1>0, <1>4, <2>1, <3>1, ReadIsContent, NowGrows DEF DiskOK, SwitchLoad
    <3>2. CASE switch.from # File(to)
      BY <1>0, <1>4, <2>1, <3>2, ReadIsContent DEF CopiesOK, BackupsOK, SwitchLoad
    <3>. QED BY <3>1, <3>2
  <2>5. claims' = [claims EXCEPT ![to] = @ \cup {c[p].show : p \in Parts}]
    BY <1>4, <2>1 DEF SwitchLoad
  <2>6. OwnsBy(claims', to, c)
    BY <2>1, <2>5 DEF OwnsBy, TypeInv, PlainTypes
  <2>7. \A i \in DOMAIN Order : ~(i < 1)
    BY OrderOK
  <2>. HIDE DEF c
  <2>. QED BY <2>1, <2>3, <2>4, <2>6, <2>7, FilesAssumption
<1>5. CASE switch.pc \in {"apply", "backup", "report"} /\ ~AnyShift
  <2>1. switch \in Loads /\ switch # Off /\ InProgress
    BY <1>5, UnderWay DEF TypeInv, SwitchTypes, Off
  <2>2. switch'.content = switch.content /\ switch'.to = switch.to
    <3>1. Stops => switch' = Off
      BY DEF Stops, Exit, Crash
    <3>2. SwitchApply \/ SwitchBackup => switch'.content = switch.content /\ switch'.to = switch.to
      BY <2>1 DEF SwitchApply, SwitchBackup, Loads
    <3>3. SwitchReport => switch' = Off
      BY DEF SwitchReport
    <3>. QED BY <1>2, <1>5, <3>1, <3>2, <3>3, TaskMoves DEF SwitchTasks, SwitchLoad
  <2>3. Fine(switch.content, switch.to, 0)
    <3>1. switch.to = Untitled => showPath' = Untitled
      <4>1. ~OnLoaded
        <5>1. OnLoaded => Event \in Queued /\ Event.kind \in SwitchKinds
          BY <1>0, DrainOK DEF OnLoaded, Drain, SwitchKinds
        <5>. QED BY <1>0, <2>1, <5>1 DEF OneSwitchOK, Pending
      <4>2. ~OnSaved
        <5>1. OnSaved => Event \in Queued /\ Event.kind \in SaveKinds
          BY <1>0, DrainOK DEF OnSaved, Drain, SaveKinds
        <5>. QED BY <1>0, <2>1, <5>1, UnderWay DEF ApartOK, Pending
      <4>3. ~\E f \in Files : PromptSave(f)
        BY <2>1, PromptSaveOwns
      <4>4. Restart => showPath' = Untitled
        BY DEF Restart
      <4>5. switch.to = Untitled => showPath = Untitled
        BY <1>0, <1>5 DEF SwitchOK
      <4>. QED BY <1>5, <4>1, <4>2, <4>3, <4>4, <4>5, PathMoves
    <3>2. Whole(switch.content) /\ (switch.to # Untitled => OwnsBy(claims', switch.to, switch.content))
      BY <1>0, <1>5, <2>1 DEF SwitchOK, Loads, Shows
    <3>3. \A i \in DOMAIN Order : ~(i < 0)
      BY OrderOK
    <3>. QED BY <3>1, <3>2, <3>3
  <2>4. \A i \in DOMAIN Order : i < switch.part => Taken(i, memory, switch.content)
    BY <1>0, <1>5 DEF SwitchOK
  <2>5. CASE SwitchApply
    <3>1. /\ switch.part \in 1..Len(Order) /\ switch'.part = switch.part + 1
          /\ memory' = [memory EXCEPT ![Order[switch.part]] = switch.content[Order[switch.part]]]
      BY <2>1, <2>5, OrderOK DEF SwitchApply, TypeInv, SwitchTypes, Loads, Places
    <3>2. ASSUME NEW i \in DOMAIN Order, i < switch.part + 1 PROVE Taken(i, memory', switch.content)
      <4>1. i < switch.part \/ i = switch.part
        BY <3>1, <3>2, OrderOK
      <4>2. Order[i] \in Parts
        BY OrderOK
      <4>. QED BY <1>0, <2>4, <3>1, <4>1, <4>2 DEF Taken, Now
    <3>. QED BY <2>2, <2>3, <3>1, <3>2
  <2>6. CASE ~SwitchApply
    <3>1. ~Restart
      BY <1>0, <2>1 DEF DownOK, Restart
    <3>2. SameShows
      BY <2>6, <3>1, MemoryStays
    <3>3. \A i \in DOMAIN Order : i < switch.part => Taken(i, memory', switch.content)
      BY <2>4, <3>2, OrderOK DEF Taken, SameShows
    <3>4. switch'.part = switch.part
      <4>1. Stops => switch' = Off
        BY DEF Stops, Exit, Crash
      <4>2. SwitchBackup => switch'.part = switch.part
        BY <2>1 DEF SwitchBackup, Loads
      <4>3. SwitchReport => switch' = Off
        BY DEF SwitchReport
      <4>. QED BY <1>2, <1>5, <2>6, <4>1, <4>2, <4>3, TaskMoves DEF SwitchTasks, SwitchLoad
    <3>. QED BY <2>2, <2>3, <3>3, <3>4
  <2>. QED BY <2>5, <2>6
<1>6. switch.pc \in {"apply", "backup", "report"} \/ AnyShift \/ SwitchLoad
  <2>1. Stops => switch' = Off
    BY DEF Stops, Exit, Crash
  <2>. QED BY <1>1, <1>2, <2>1, TaskMoves DEF SwitchTasks, SwitchApply, SwitchBackup, SwitchReport
<1>. QED BY <1>3, <1>4, <1>5, <1>6

\* What waits in the queue was there, or has just been sent.
LEMMA QueuedMoves ==
  ASSUME TypeInv, [ShowNext]_showVars, NEW e \in Queued'
  PROVE  /\ ~Restart
         /\ \/ e \in Queued
            \/ Sends /\ e \in Events /\ uiQueue' = uiQueue \o <<e>>
<1>0. QueueTypes
  BY DEF TypeInv
<1>1. ~Restart
  BY DEF Restart, Queued
<1>2. CASE UNCHANGED uiQueue
  BY <1>1, <1>2 DEF Queued
<1>3. CASE Sends /\ ~UNCHANGED uiQueue
  <2>1. PICK g \in Events : uiQueue' = uiQueue \o <<g>>
    BY <1>3, SendsWhat
  <2>2. Queued' = Queued \cup {g}
    BY <1>0, <2>1, SendOK
  <2>. QED BY <1>1, <1>3, <2>1, <2>2
<1>4. CASE DrainEvents
  <2>1. uiQueue # <<>> /\ uiQueue' = Tail(uiQueue)
    BY <1>4 DEF DrainEvents, OnLoaded, OnCreated, OnSaved, OnAutosaved, OnCorrupt, OnError, Drain
  <2>. QED BY <1>0, <1>1, <2>1, DrainOK
<1>. QED BY <1>1, <1>2, <1>3, <1>4, QueueMoves

\* What waits is an event.
LEMMA QueuedTypes ==
  ASSUME QueueTypes
  PROVE  Queued \subseteq Events
BY DEF QueueTypes, Queued

\* The outcomes on their way.
LEMMA EventsNext ==
  ASSUME TypeInv, WholeInv, Waits, [ShowNext]_showVars
  PROVE  EventsOK'
<1>0. /\ DownOK /\ OneSwitchOK /\ ApartOK /\ WaitsForSwitch /\ SwitchOK /\ EventsOK /\ SavesOK
      /\ QueueTypes /\ memory \in Now
      /\ \A f \in Files : \A c : Owns(f, c) => OwnsBy(claims', f, c)
      /\ \A f \in Files : claims[f] \subseteq claims'[f]
  BY OwnsStays, ClaimsGrow DEF WholeInv, Waits, TypeInv, ShowTypes
<1>1. SUFFICES ASSUME NEW e \in Queued'
               PROVE  /\ e.kind = "loaded" => OwnsBy(claims', e.path, memory')
                      /\ e.kind = "created" => showPath' = Untitled
                      /\ e.kind = "saved" => OwnsBy(claims', e.path, memory')
  BY DEF EventsOK, Owns
<1>2. ~Restart
  BY QueuedMoves
<1>3. ASSUME e \in Queued
      PROVE  /\ e.kind = "loaded" => OwnsBy(claims', e.path, memory')
             /\ e.kind = "created" => showPath' = Untitled
             /\ e.kind = "saved" => OwnsBy(claims', e.path, memory')
  <2>1. e \in Events
    BY <1>0, <1>3, QueuedTypes
  <2>2. ASSUME e.kind \in {"loaded", "saved"} PROVE OwnsBy(claims', e.path, memory')
    <3>1. e.path \in Files /\ Owns(e.path, memory)
      BY <1>0, <1>3, <2>1, <2>2 DEF EventsOK, Events
    <3>2. ~SwitchApply
      <4>1. CASE e.kind = "loaded"
        BY <1>0, <1>3, <4>1 DEF OneSwitchOK, Pending, SwitchKinds, SwitchApply, Off
      <4>2. CASE e.kind = "saved"
        BY <1>3, <4>2, SavingKeepsMemory, UnderWay DEF Pending, SaveKinds
      <4>. QED BY <2>2, <4>1, <4>2
    <3>. QED BY <1>2, <3>1, <3>2, MemoryStays DEF Owns
  <2>3. ASSUME e.kind = "created" PROVE showPath' = Untitled
    <3>1. showPath = Untitled /\ InProgress
      BY <1>0, <1>3, <2>3, UnderWay DEF EventsOK, Pending, SwitchKinds
    <3>2. ~AnyShift /\ ~\E f \in Files : PromptSave(f)
      BY <3>1, PromptSaveOwns DEF AnyShift, Shifts, MaySwitch
    <3>3. ~OnLoaded
      <4>1. ASSUME OnLoaded PROVE FALSE
        <5>1. uiQueue # <<>> /\ uiQueue' = Tail(uiQueue) /\ Event.kind \in SwitchKinds
          BY <4>1 DEF OnLoaded, Drain, SwitchKinds
        <5>2. ~Pending(SwitchKinds)'
          BY <1>0, <5>1, OneOnQueue DEF OneSwitchOK
        <5>. QED BY <2>3, <5>2 DEF Pending, SwitchKinds
      <4>. QED BY <4>1
    <3>4. ~OnSaved
      <4>1. OnSaved => Event \in Queued /\ Event.kind \in SaveKinds
        BY <1>0, DrainOK DEF OnSaved, Drain, SaveKinds
      <4>. QED BY <1>0, <3>1, <4>1, UnderWay DEF ApartOK, Pending
    <3>. QED BY <1>2, <3>1, <3>2, <3>3, <3>4, PathMoves
  <2>. QED BY <2>2, <2>3
<1>4. ASSUME Sends, e \notin Queued
      PROVE  /\ e.kind = "loaded" => OwnsBy(claims', e.path, memory')
             /\ e.kind = "created" => showPath' = Untitled
             /\ e.kind = "saved" => OwnsBy(claims', e.path, memory')
  <2>1. ~UNCHANGED uiQueue
    BY <1>4 DEF Queued
  <2>2. PICK g \in Events :
          /\ uiQueue' = uiQueue \o <<g>> /\ UNCHANGED <<memory, showPath>>
          /\ \/ g.kind \in {"error", "corrupt", "autosaved"}
             \/ g.kind = "created" /\ switch.pc = "report" /\ switch.to = Untitled
             \/ /\ g.kind = "loaded" /\ g.path = switch.to /\ switch.pc = "report"
                /\ switch.to \in Files
             \/ \E s \in Slots :
                  /\ g.kind = "saved" /\ g.path = saves[s].target /\ saves[s] # Off
                  /\ saves[s].target \in Files
    BY <1>4, <2>1, SendsWhat
  <2>3. g = e
    BY <1>0, <1>1, <1>4, <2>2, SendOK
  <2>4. switch.pc = "report" => \A i \in DOMAIN Order : Taken(i, memory, switch.content)
    BY <1>0, OrderOK DEF SwitchOK, TypeInv, SwitchTypes
  <2>5. ASSUME switch.pc = "report", switch.to \in Files PROVE Owns(switch.to, memory)
    BY <1>0, <2>4, <2>5, AllTaken, FilesAssumption DEF SwitchOK
  <2>6. e.kind = "loaded" => OwnsBy(claims', e.path, memory')
    BY <1>0, <2>2, <2>3, <2>5 DEF Owns, OwnsBy
  <2>7. e.kind = "created" => showPath' = Untitled
    BY <1>0, <2>2, <2>3 DEF SwitchOK
  <2>8. e.kind = "saved" => OwnsBy(claims', e.path, memory')
    BY <1>0, <2>2, <2>3 DEF SavesOK, Owns, OwnsBy
  <2>. QED BY <2>6, <2>7, <2>8
<1>. QED BY <1>3, <1>4, QueuedMoves

\* What becomes of a slot.
LEMMA SlotMoves ==
  ASSUME TypeInv, [ShowNext]_showVars, NEW s \in Slots, saves'[s] # Off
  PROVE  \/ saves'[s] = saves[s]
         \/ /\ saves[s] = Off
            /\ \E f \in Files :
                 /\ Starts(f)
                 /\ saves'[s] = [pc |-> "build", target |-> f, part |-> 1, content |-> Empty]
         \/ /\ SaveBuild(s) /\ saves[s] # Off /\ saves'[s].target = saves[s].target
            /\ saves[s].part \in 1..Len(Order) /\ saves'[s].part = saves[s].part + 1
            /\ LET p == Order[saves[s].part] IN
               saves'[s].content = [saves[s].content EXCEPT ![p] = memory[p]]
            /\ saves'[s].pc \in {"build", "write"}
         \/ /\ SaveWrite(s) \/ SaveRename(s)
            /\ saves[s] # Off /\ saves'[s].target = saves[s].target
            /\ saves'[s].part = saves[s].part /\ saves'[s].content = saves[s].content
            /\ saves'[s].pc = IF SaveWrite(s) THEN "rename" ELSE "report"
<1>0. saves \in [Slots -> SaveTasks \cup {Off}]
  BY DEF TypeInv, SaveTypes
<1>1. CASE UNCHANGED saves
  BY <1>1
<1>2. CASE AnyStart
  <2>1. PICK f \in Files : Starts(f)
    BY <1>2 DEF AnyStart
  <2>2. PICK r \in Slots :
          /\ saves[r] = Off
          /\ saves' = [saves EXCEPT ![r] = [pc |-> "build", target |-> f, part |-> 1, content |-> Empty]]
    BY <2>1 DEF Starts, StartSave
  <2>. QED BY <1>0, <2>1, <2>2
<1>3. ASSUME NEW r \in Slots, r # s, SaveTask(r) \/ SaveFails(r) PROVE saves'[s] = saves[s]
  BY <1>0, <1>3 DEF SaveTask, SaveBuild, SaveWrite, SaveRename, SaveReport, SaveFails
<1>4. ~SaveReport(s) /\ ~SaveFails(s)
  BY <1>0 DEF SaveReport, SaveFails
<1>5. CASE SaveBuild(s)
  <2>1. saves[s] \in SaveTasks /\ saves[s] # Off /\ saves[s].part \in 1..Len(Order)
    BY <1>0, <1>5, OrderOK DEF SaveBuild, TypeInv, SaveTypes, Off, SaveTasks, Places
  <2>. DEFINE t == saves[s]
              p == Order[t.part]
              next == IF t.part = Len(Order) THEN "write" ELSE "build"
  <2>2. saves'[s] = [t EXCEPT !.content[p] = memory[p], !.part = @ + 1, !.pc = next]
    BY <1>0, <1>5 DEF SaveBuild
  <2>3. /\ saves'[s].target = t.target /\ saves'[s].part = t.part + 1 /\ saves'[s].pc = next
        /\ saves'[s].content = [t.content EXCEPT ![p] = memory[p]]
    <3>. HIDE DEF next, p
    <3>. QED BY <2>1, <2>2 DEF SaveTasks
  <2>. QED BY <1>5, <2>1, <2>3
<1>6. CASE SaveWrite(s) \/ SaveRename(s)
  <2>1. saves[s] \in SaveTasks /\ saves[s] # Off
    BY <1>0, <1>6 DEF SaveWrite, SaveRename, Off
  <2>2. saves'[s] = [saves[s] EXCEPT !.pc = IF SaveWrite(s) THEN "rename" ELSE "report"]
    BY <1>0, <1>6, <2>1 DEF SaveWrite, SaveRename
  <2>. QED BY <1>6, <2>1, <2>2 DEF SaveTasks
<1>7. ~Stops
  BY DEF Stops, Exit, Crash
<1>. QED BY <1>1, <1>2, <1>3, <1>4, <1>5, <1>6, <1>7, TaskMoves DEF SaveTask

\* The saves under way.
LEMMA SavesNext ==
  ASSUME TypeInv, WholeInv, Waits, [ShowNext]_showVars
  PROVE  SavesOK'
<1>0. /\ DownOK /\ DialogOK /\ ApartOK /\ WaitsForSwitch /\ SavesOK /\ memory \in Now
      /\ \A f \in Files : \A c : Owns(f, c) => OwnsBy(claims', f, c)
  BY OwnsStays DEF WholeInv, Waits, TypeInv, ShowTypes
<1>1. SUFFICES ASSUME NEW s \in Slots, saves'[s] # Off
               PROVE  /\ OwnsBy(claims', saves'[s].target, memory')
                      /\ \A i \in DOMAIN Order : i < saves'[s].part =>
                           Taken(i, saves'[s].content, memory')
  BY DEF SavesOK, Owns, Taken
<1>2. CASE saves[s] = Off
  <2>1. PICK f \in Files :
          /\ Starts(f)
          /\ saves'[s] = [pc |-> "build", target |-> f, part |-> 1, content |-> Empty]
    BY <1>1, <1>2, SlotMoves
  <2>2. /\ ~InProgress /\ app # "down" /\ UNCHANGED memory
        /\ \/ f = showPath \/ {memory[p].show : p \in Parts} \subseteq claims'[f]
           \/ dialog.recovered /\ f = dialog.path
    BY <1>0, <2>1 DEF Starts, MaySave, May, WaitsForSwitch
  <2>3. OwnsBy(claims', f, memory)
    <3>1. CASE f = showPath
      <4>1. showPath # Untitled
        BY <3>1, FilesAssumption
      <4>. QED BY <1>0, <2>2, <3>1, <4>1, MemoryIsWhole
    <3>2. CASE {memory[p].show : p \in Parts} \subseteq claims'[f]
      BY <3>2 DEF OwnsBy
    <3>3. CASE dialog.recovered /\ f = dialog.path
      BY <1>0, <3>3 DEF DialogOK
    <3>. QED BY <2>2, <3>1, <3>2, <3>3
  <2>4. \A i \in DOMAIN Order : ~(i < 1)
    BY OrderOK
  <2>. QED BY <2>1, <2>2, <2>3, <2>4
<1>3. CASE saves[s] # Off
  <2>1. /\ Owns(saves[s].target, memory) /\ saves[s] \in SaveTasks
        /\ \A i \in DOMAIN Order : i < saves[s].part => Taken(i, saves[s].content, memory)
    BY <1>0, <1>3 DEF SavesOK, TypeInv, SaveTypes
  <2>2. ~SwitchApply /\ ~Restart
    BY <1>0, <1>3, SavingKeepsMemory DEF SaveUnderWay, Saving, DownOK, Restart
  <2>3. SameShows
    BY <2>2, MemoryStays
  <2>4. saves[s].target \in Files /\ saves[s].content \in Now
    BY <2>1 DEF SaveTasks
  <2>5. OwnsBy(claims', saves[s].target, memory')
    BY <1>0, <2>1, <2>3, <2>4 DEF SameShows, OwnsBy
  <2>6. CASE SaveBuild(s)
    <3>1. /\ saves'[s].target = saves[s].target
          /\ saves[s].part \in 1..Len(Order) /\ saves'[s].part = saves[s].part + 1
          /\ saves'[s].content = [saves[s].content EXCEPT ![Order[saves[s].part]] = memory[Order[saves[s].part]]]
      <4>1. saves[s].part \in Nat /\ saves'[s].part = saves[s].part + 1
        <5>1. saves \in [Slots -> SaveTasks \cup {Off}] /\ saves[s].part \in 1..(Len(Order) + 1)
          BY <2>1 DEF TypeInv, SaveTypes, SaveTasks, Places
        <5>2. saves'[s].part = saves[s].part + 1
          BY <2>1, <2>6, <5>1 DEF SaveBuild, SaveTasks
        <5>. QED BY <5>1, <5>2, OrderOK
      <4>2. saves'[s] # saves[s]
        BY <4>1
      <4>. QED BY <1>1, <1>3, <2>6, <4>2, SlotMoves DEF SaveBuild, SaveWrite, SaveRename
    <3>2. ASSUME NEW i \in DOMAIN Order, i < saves[s].part + 1
          PROVE  Taken(i, saves'[s].content, memory')
      <4>1. i < saves[s].part \/ i = saves[s].part
        BY <3>1, <3>2, OrderOK
      <4>2. Order[i] \in Parts
        BY OrderOK
      <4>. QED BY <2>1, <2>3, <2>4, <3>1, <4>1, <4>2 DEF Taken, SameShows, Now
    <3>. QED BY <2>5, <3>1, <3>2
  <2>7. CASE ~SaveBuild(s)
    <3>1. /\ saves'[s].target = saves[s].target /\ saves'[s].part = saves[s].part
          /\ saves'[s].content = saves[s].content
      BY <1>1, <1>3, <2>7, SlotMoves
    <3>. QED BY <2>1, <2>3, <2>5, <3>1, OrderOK DEF Taken, SameShows
  <2>. QED BY <2>6, <2>7
<1>. QED BY <1>2, <1>3

\* The autosave.
LEMMA AutoNext ==
  ASSUME TypeInv, WholeInv, Waits, [ShowNext]_showVars
  PROVE  AutoOK'
<1>0. /\ AutoOK /\ DownOK /\ OneSwitchOK /\ MemoryOK /\ memory \in Now
      /\ \A f \in Files : \A c : Owns(f, c) => OwnsBy(claims', f, c)
  BY OwnsStays DEF WholeInv, Waits, TypeInv, ShowTypes
<1>. DEFINE Reading == auto'.pc \in {"build", "judge"} /\ ~auto'.moved =>
              /\ ~InProgress'
              /\ auto'.path # Untitled => OwnsBy(claims', auto'.path, memory')
              /\ \A i \in DOMAIN Order : i < auto'.part => Taken(i, auto'.content, memory')
            Writing == auto'.pc = "write" =>
              Whole(auto'.content) /\ (auto'.path # Untitled => OwnsBy(claims', auto'.path, auto'.content))
<1>1. SUFFICES Reading /\ Writing
  BY DEF AutoOK, Owns, Whole, Taken
<1>2. auto # Off => auto \in AutoTasks
  BY DEF TypeInv, AutoTypes
<1>3. CASE auto' = Off
  BY <1>3 DEF Off
<1>4. ASSUME auto.pc \in {"build", "judge"}, ~auto.moved, ~AnyShift
      PROVE  /\ ~InProgress' /\ SameShows
             /\ auto.path # Untitled => OwnsBy(claims', auto.path, memory')
             /\ \A i \in DOMAIN Order : i < auto.part => Taken(i, auto.content, memory')
  <2>1. /\ ~InProgress /\ (auto.path # Untitled => Owns(auto.path, memory))
        /\ \A i \in DOMAIN Order : i < auto.part => Taken(i, auto.content, memory)
    BY <1>0, <1>4 DEF AutoOK
  <2>2. ~SwitchApply /\ ~Restart
    BY <1>0, <1>4, <2>1, UnderWay DEF SwitchApply, Off, DownOK, Restart
  <2>3. SameShows
    BY <2>2, MemoryStays
  <2>4. auto.path \in Shows
    BY <1>2, <1>4 DEF AutoTasks, Off
  <2>5. auto.path # Untitled => OwnsBy(claims', auto.path, memory')
    BY <1>0, <2>1, <2>3, <2>4 DEF SameShows, OwnsBy, Shows
  <2>6. \A i \in DOMAIN Order : i < auto.part => Taken(i, auto.content, memory')
    BY <2>1, <2>3, OrderOK DEF Taken, SameShows
  <2>. QED BY <1>0, <1>4, <2>1, <2>3, <2>5, <2>6, ProgressMoves
<1>5. ASSUME auto.pc = "write"
      PROVE  /\ Whole(auto.content)
             /\ auto.path # Untitled => OwnsBy(claims', auto.path, auto.content)
  <2>1. auto.path \in Shows
    BY <1>2, <1>5 DEF AutoTasks, Off
  <2>. QED BY <1>0, <1>5, <2>1 DEF AutoOK, Shows
<1>6. CASE AnyShift
  <2>1. CASE UNCHANGED auto
    BY <1>5, <1>6, <2>1, ShiftMakes DEF Off
  <2>2. CASE auto # Off /\ auto' = [auto EXCEPT !.moved = TRUE]
    <3>1. /\ auto'.pc = auto.pc /\ auto'.path = auto.path /\ auto'.content = auto.content
          /\ auto'.moved
      BY <1>2, <2>2 DEF AutoTasks
    <3>. QED BY <1>5, <3>1
  <2>. QED BY <1>6, <2>1, <2>2, ShiftMakes
<1>7. CASE UNCHANGED auto /\ ~AnyShift
  BY <1>4, <1>5, <1>7
<1>8. CASE AutosaveStart
  <2>1. /\ auto'.pc = "build" /\ auto'.path = showPath /\ auto'.part = 1
        /\ ~InProgress /\ app # "down" /\ UNCHANGED <<switch, uiQueue, memory>>
    BY <1>8 DEF AutosaveStart
  <2>2. ~InProgress'
    BY <2>1 DEF InProgress
  <2>3. showPath # Untitled => Owns(showPath, memory)
    BY <2>1, MemoryIsWhole
  <2>4. showPath # Untitled => OwnsBy(claims', showPath, memory)
    BY <1>0, <2>3 DEF TypeInv, PlainTypes, Shows
  <2>5. \A i \in DOMAIN Order : ~(i < 1)
    BY OrderOK
  <2>. QED BY <2>1, <2>2, <2>4, <2>5
<1>9. CASE AutosaveBuild /\ ~AnyShift
  <2>. DEFINE p == Order[auto.part]
              next == IF auto.part = Len(Order) THEN "judge" ELSE "build"
  <2>1. auto \in AutoTasks /\ auto.part \in 1..Len(Order) /\ auto.content \in Now
    BY <1>2, <1>9, OrderOK DEF AutosaveBuild, TypeInv, AutoTypes, Off, AutoTasks, Places
  <2>2. auto' = [auto EXCEPT !.content[p] = memory[p], !.part = @ + 1, !.pc = next]
    BY <1>9 DEF AutosaveBuild
  <2>3. /\ auto'.pc = next /\ auto'.part = auto.part + 1 /\ auto'.path = auto.path
        /\ auto'.moved = auto.moved /\ auto'.content = [auto.content EXCEPT ![p] = memory[p]]
    <3>. HIDE DEF next, p
    <3>. QED BY <2>1, <2>2 DEF AutoTasks
  <2>4. next \in {"judge", "build"}
    OBVIOUS
  <2>5. ASSUME ~auto.moved
        PROVE  /\ ~InProgress'
               /\ auto.path # Untitled => OwnsBy(claims', auto.path, memory')
               /\ \A i \in DOMAIN Order : i < auto.part + 1 => Taken(i, auto'.content, memory')
    <3>1. /\ ~InProgress' /\ SameShows
          /\ auto.path # Untitled => OwnsBy(claims', auto.path, memory')
          /\ \A i \in DOMAIN Order : i < auto.part => Taken(i, auto.content, memory')
      BY <1>4, <1>9, <2>5 DEF AutosaveBuild
    <3>2. ASSUME NEW i \in DOMAIN Order, i < auto.part + 1 PROVE Taken(i, auto'.content, memory')
      <4>1. i < auto.part \/ i = auto.part
        BY <2>1, <3>2, OrderOK
      <4>2. Order[i] \in Parts
        BY OrderOK
      <4>. QED BY <2>1, <2>3, <3>1, <4>1, <4>2 DEF Taken, SameShows, Now
    <3>. QED BY <3>1, <3>2
  <2>. HIDE DEF next, p
  <2>. QED BY <2>3, <2>4, <2>5
<1>10. CASE AutosaveJudge /\ auto' # Off
  <2>1. /\ auto \in AutoTasks /\ auto.part = Len(Order) + 1 /\ auto.pc = "judge" /\ app # "down"
    BY <1>2, <1>10 DEF AutosaveJudge, TypeInv, AutoTypes, Off
  <2>2. ~auto.moved /\ auto' = [auto EXCEPT !.pc = "write"] /\ UNCHANGED <<memory, claims>>
    BY <1>10 DEF AutosaveJudge, history
  <2>3. auto'.pc = "write" /\ auto'.path = auto.path /\ auto'.content = auto.content
    BY <2>1, <2>2 DEF AutoTasks
  <2>4. /\ ~InProgress /\ (auto.path # Untitled => Owns(auto.path, memory))
        /\ \A i \in DOMAIN Order : Taken(i, auto.content, memory)
    BY <1>0, <2>1, <2>2, OrderOK DEF AutoOK
  <2>5. Whole(auto.content) /\ (auto.path # Untitled => Owns(auto.path, auto.content))
    BY <2>1, <2>4, AllTaken, MemoryIsWhole
  <2>6. auto.path # Untitled => OwnsBy(claims', auto.path, auto.content)
    BY <2>2, <2>5 DEF Owns
  <2>. QED BY <2>3, <2>5, <2>6
<1>11. AutosaveWrite \/ AutosaveFails \/ Stops => auto' = Off
  BY DEF AutosaveWrite, AutosaveFails, Stops, Exit, Crash
<1>. HIDE DEF Reading, Writing
<1>. QED BY <1>3, <1>6, <1>7, <1>8, <1>9, <1>10, <1>11, TaskMoves DEF AutosaveTask

\* At first the files hold what an earlier run left.
LEMMA WholeInit ==
  ASSUME ShowInit
  PROVE  WholeInv
<1>. USE DEF ShowInit
<1>1. Queued = {} /\ ~Saving /\ \A kinds : ~Pending(kinds) /\ AtMostOne(kinds)
  BY DEF Queued, Saving, Pending, AtMostOne
<1>2. DownOK /\ OneSwitchOK /\ ApartOK /\ PromptOK /\ DialogOK /\ SwitchOK /\ EventsOK /\ SavesOK /\ AutoOK
  BY <1>1, UnderWay DEF DownOK, OneSwitchOK, ApartOK, PromptOK, DialogOK, SwitchOK, EventsOK, SavesOK,
    AutoOK, Off, NoPrompt, NoDialog
<1>3. MemoryOK /\ BackupsOK
  BY DEF MemoryOK, BackupsOK, Whole, Empty
<1>4. \A f \in Files : claims[f] = ShowsOf(disk[f]) \cup
                          UNION {ShowsOf(OldCopies[f][i]) : i \in DOMAIN OldCopies[f]}
  OBVIOUS
<1>5. DiskOK
  <2>1. SUFFICES ASSUME NEW f \in Files, disk[f] \notin {NoContent, Corrupt}
                 PROVE  Whole(disk[f]) /\ Owns(f, disk[f])
    BY DEF DiskOK
  <2>2. disk \in Stored /\ disk \in [Files -> Content \cup {NoContent, Corrupt}]
    BY FilesAssumption
  <2>3. disk[f] \in Content
    BY <2>1, <2>2
  <2>4. Whole(disk[f])
    BY <2>2, <2>3, FreshAssumption DEF Untouched
  <2>5. ShowsOf(disk[f]) = {disk[f][p].show : p \in Parts}
    BY <2>1 DEF ShowsOf
  <2>. QED BY <1>4, <2>4, <2>5 DEF Owns, OwnsBy
<1>6. CopiesOK
  <2>1. SUFFICES ASSUME NEW x \in Series, NEW i \in DOMAIN copies[x]
                 PROVE  Whole(copies[x][i]) /\ (x \in Files => Owns(x, copies[x][i]))
    BY DEF CopiesOK
  <2>2. x \in Files /\ copies[x] = OldCopies[x]
    BY <2>1
  <2>3. OldCopies[x] \in Seq(Content)
    BY <2>2, FilesAssumption
  <2>4. OldCopies[x][i] \in Content /\ i \in DOMAIN OldCopies[x]
    BY <2>1, <2>2, <2>3
  <2>5. Whole(copies[x][i])
    BY <2>2, <2>4, FreshAssumption DEF Untouched
  <2>6. copies[x][i] \notin {NoContent, Corrupt}
    BY <2>2, <2>4, FilesAssumption
  <2>7. ShowsOf(copies[x][i]) = {copies[x][i][p].show : p \in Parts}
    BY <2>6 DEF ShowsOf
  <2>8. ShowsOf(copies[x][i]) \subseteq claims[x]
    BY <1>4, <2>2, <2>4
  <2>. QED BY <2>5, <2>7, <2>8 DEF Owns, OwnsBy
<1>. QED BY <1>2, <1>3, <1>5, <1>6 DEF WholeInv

\* Every step keeps the files whole.
LEMMA WholeNext ==
  ASSUME TypeInv, WholeInv, Waits, [ShowNext]_showVars
  PROVE  WholeInv'
<1>1. DownOK' /\ OneSwitchOK' /\ ApartOK'
  BY DownNext, ProgressMoves, ApartNext DEF WholeInv, Waits
<1>. QED BY <1>1, PromptNext, DialogNext, DiskNext, CopiesNext, MemoryNext, SwitchNext, EventsNext,
            SavesNext, AutoNext DEF WholeInv

\* Where the operator waits for a switch before the next save, and the other way round, and
\* opens nothing else while a recovery dialog is up, no file on disk, saved or autosaved, is
\* ever a mixture of shows or a show that is not the file's: for any number of files, parts,
\* saves and copies, whatever fails and wherever the app stops.
THEOREM FilesWholeCorrect ==
  ASSUME Waits
  PROVE  ShowSpec => []FilesWhole
<1>1. ShowInit => TypeInv /\ WholeInv
  BY TypeInvInit, WholeInit
<1>2. TypeInv /\ WholeInv /\ [ShowNext]_showVars => TypeInv' /\ WholeInv'
  BY TypeInvNext, WholeNext
<1>3. TypeInv /\ WholeInv => FilesWhole
  <2>. SUFFICES ASSUME TypeInv, WholeInv PROVE FilesWhole
    OBVIOUS
  <2>1. \A c : c \notin {NoContent, Corrupt} => ShowsOf(c) = {c[p].show : p \in Parts}
    BY DEF ShowsOf
  <2>2. OwnFile
    BY <2>1 DEF OwnFile, WholeInv, DiskOK, Owns, OwnsBy
  <2>3. AutosaveWhole
    <3>1. SUFFICES ASSUME NEW x \in Series, NEW i \in DOMAIN copies[x]
                   PROVE  Whole(copies[x][i]) /\ (x \in Files => ShowsOf(copies[x][i]) \subseteq claims[x])
      BY DEF AutosaveWhole
    <3>2. copies[x] \in Seq(Now)
      BY DEF TypeInv, StoreTypes
    <3>3. copies[x][i] \notin {NoContent, Corrupt}
      <4>1. copies[x][i] \in Now
        BY <3>1, <3>2
      <4>2. Now \subseteq Content
        BY FilesAssumption DEF Now, Content, TypeInv, PlainTypes
      <4>. QED BY <4>1, <4>2, FilesAssumption
    <3>. QED BY <2>1, <3>1, <3>3 DEF WholeInv, CopiesOK, Owns, OwnsBy
  <2>. QED BY <2>2, <2>3 DEF FilesWhole
<1>. QED BY <1>1, <1>2, <1>3, PTL DEF ShowSpec

-----------------------------------------------------------------------------
(* What counts as saved is on disk, and nothing is let go that is not.  The  *)
(* operator waits for every file operation, but may open a show beside a    *)
(* recovery dialog.                                                         *)

Patient == Overlaps \subseteq {"switch in dialog"}

Held(c) == c = Empty \/ \E f \in Files : disk[f] = c
UpTo(c, d) == \A p \in Parts : c[p].rev <= d[p].rev
Copied(i, c, d) == c[Order[i]] = d[Order[i]]

\* One save at a time, and none begins before the outcome of the last is drained.
OneSaveOK ==
  /\ Saving => ~Pending(SaveKinds)
  /\ \A s, t \in Slots : saves[s] # Off /\ saves[t] # Off => s = t
  /\ AtMostOne(SaveKinds)
\* The fingerprint is of the show in memory as it was: a show edited since differs from it.
OlderOK == app # "down" /\ ~Replacing /\ baseline # NoContent => UpTo(baseline, memory)
AtPathOK ==
  app # "down" /\ ~Replacing /\ memory = baseline => memory = Empty \/ AtPath(showPath) = memory
\* The show of the fingerprint is on disk, but for a save that has taken its place.
Landed == (\E s \in Slots : saves[s].pc = "report") \/ Pending({"saved"})
BaselineOK == app # "down" /\ baseline # NoContent => Held(baseline) \/ Landed
SavingOK ==
  \A s \in Slots : saves[s] # Off =>
    /\ \A i \in DOMAIN Order : i < saves[s].part =>
         /\ saves[s].content[Order[i]].rev <= memory[Order[i]].rev
         /\ memory = baseline => Copied(i, saves[s].content, memory)
    /\ saves[s].pc = "report" => disk[saves[s].target] = saves[s].content
SwitchingOK ==
  switch.pc \in {"apply", "backup", "report"} =>
    /\ switch.to = Untitled => switch.content = Empty
    /\ switch.to # Untitled /\ switch.from.kind = "file" => disk[switch.to] = switch.content
    /\ \A i \in DOMAIN Order : i < switch.part => Copied(i, memory, switch.content)
OutcomesOK ==
  \A e \in Queued :
    /\ e.kind = "loaded" /\ ~e.recovered => memory = disk[e.path]
    /\ e.kind = "created" => memory = Empty
    /\ e.kind = "saved" => /\ disk[e.path] = e.content /\ UpTo(e.content, memory)
                           /\ memory = baseline => e.content = memory
LeavingOK == app = "leaving" /\ ~consent => memory = baseline

Orderly == DownOK /\ OneSwitchOK /\ ApartOK /\ OneSaveOK
KeptInv == /\ Orderly /\ OlderOK /\ AtPathOK /\ BaselineOK /\ SavingOK /\ SwitchingOK
           /\ OutcomesOK /\ LeavingOK

\* What a patient operator waits for.
LEMMA PatientWaits ==
  ASSUME Patient
  PROVE  /\ WaitsForSwitch
         /\ \A busy \in BOOLEAN : /\ May("save in save", busy) => ~busy
                                  /\ May("save in switch", busy) => ~busy
                                  /\ May("switch in save", busy) => ~busy
                                  /\ May("edit in switch", busy) => ~busy
         /\ MaySave => ~InProgress /\ ~SaveUnderWay
         /\ MaySwitch => ~InProgress /\ ~SaveUnderWay
<1>1. \A o \in {"save in save", "save in switch", "switch in save", "edit in switch"} : o \notin Overlaps
  BY DEF Patient
<1>. QED BY <1>1 DEF WaitsForSwitch, May, MaySave, MaySwitch

\* What was copied part by part is the same when all of it has been.
LEMMA AllCopied ==
  ASSUME NEW c \in Now, NEW d \in Now
  PROVE  /\ (\A i \in DOMAIN Order : Copied(i, c, d)) => c = d
         /\ (\A i \in DOMAIN Order : c[Order[i]].rev <= d[Order[i]].rev) => UpTo(c, d)
<1>1. ASSUME \A i \in DOMAIN Order : Copied(i, c, d) PROVE c = d
  <2>1. \A p \in Parts : c[p] = d[p]
    BY <1>1, OrderOK DEF Copied
  <2>. QED BY <2>1 DEF Now
<1>2. ASSUME \A i \in DOMAIN Order : c[Order[i]].rev <= d[Order[i]].rev PROVE UpTo(c, d)
  BY <1>2, OrderOK DEF UpTo
<1>. QED BY <1>1, <1>2

\* One save at a time.
LEMMA OrderlyNext ==
  ASSUME TypeInv, Orderly, Patient, [ShowNext]_showVars
  PROVE  Orderly'
<1>0. /\ DownOK /\ OneSwitchOK /\ ApartOK /\ OneSaveOK /\ QueueTypes /\ WaitsForSwitch
      /\ saves \in [Slots -> SaveTasks \cup {Off}]
  BY PatientWaits DEF Orderly, TypeInv, SaveTypes
<1>1. DownOK' /\ OneSwitchOK' /\ ApartOK'
  BY <1>0, DownNext, ProgressMoves, ApartNext
<1>2. CASE AnyStart
  <2>1. PICK f \in Files : Starts(f)
    BY <1>2 DEF AnyStart
  <2>2. ~Saving /\ ~Pending(SaveKinds) /\ UNCHANGED uiQueue
    BY <2>1, PatientWaits, UnderWay DEF Starts
  <2>3. PICK r \in Slots :
          saves' = [saves EXCEPT ![r] = [pc |-> "build", target |-> f, part |-> 1, content |-> Empty]]
    BY <2>1 DEF Starts, StartSave
  <2>4. \A s \in Slots : s # r => saves'[s] = Off
    BY <1>0, <2>2, <2>3 DEF Saving
  <2>5. AtMostOne(SaveKinds)' /\ ~Pending(SaveKinds)'
    BY <1>0, <2>2, OneOnQueue DEF OneSaveOK
  <2>. QED BY <1>1, <2>4, <2>5 DEF Orderly, OneSaveOK
<1>3. ASSUME ~AnyStart PROVE \A s \in Slots : saves'[s] # Off => saves[s] # Off
  BY <1>3, SlotMoves DEF AnyStart
<1>4. ASSUME ~AnyStart
      PROVE  /\ \A s, t \in Slots : saves'[s] # Off /\ saves'[t] # Off => s = t
             /\ Saving' => Saving
  BY <1>0, <1>3, <1>4 DEF OneSaveOK, Saving
<1>5. CASE ~AnyStart /\ UNCHANGED uiQueue
  <2>1. AtMostOne(SaveKinds)' /\ (Pending(SaveKinds)' => Pending(SaveKinds))
    BY <1>0, <1>5, OneOnQueue DEF OneSaveOK
  <2>. QED BY <1>0, <1>1, <1>4, <1>5, <2>1 DEF Orderly, OneSaveOK
<1>6. CASE ~AnyStart /\ (DrainEvents \/ Restart)
  <2>1. (uiQueue # <<>> /\ uiQueue' = Tail(uiQueue)) \/ uiQueue' = <<>>
    BY <1>6 DEF DrainEvents, OnLoaded, OnCreated, OnSaved, OnAutosaved, OnCorrupt, OnError, Drain, Restart
  <2>2. AtMostOne(SaveKinds)' /\ (Pending(SaveKinds)' => Pending(SaveKinds))
    BY <1>0, <2>1, OneOnQueue DEF OneSaveOK
  <2>. QED BY <1>0, <1>1, <1>4, <1>6, <2>2 DEF Orderly, OneSaveOK
<1>7. CASE ~AnyStart /\ Sends /\ ~UNCHANGED uiQueue
  <2>1. PICK e \in Events :
          /\ uiQueue' = uiQueue \o <<e>>
          /\ \/ \E s \in Slots : saves[s] # Off /\ saves' = [saves EXCEPT ![s] = Off]
             \/ e.kind \notin SaveKinds
    BY <1>7, SendsWhat DEF SaveKinds
  <2>2. CASE e.kind \notin SaveKinds
    <3>1. AtMostOne(SaveKinds)' /\ (Pending(SaveKinds)' => Pending(SaveKinds))
      BY <1>0, <2>1, <2>2, OneOnQueue DEF OneSaveOK
    <3>. QED BY <1>0, <1>1, <1>4, <1>7, <3>1 DEF Orderly, OneSaveOK
  <2>3. CASE e.kind \in SaveKinds
    <3>1. PICK s \in Slots : saves[s] # Off /\ saves' = [saves EXCEPT ![s] = Off]
      BY <2>1, <2>3
    <3>2. ~Saving' /\ Saving
      BY <1>0, <3>1 DEF OneSaveOK, Saving
    <3>3. AtMostOne(SaveKinds)'
      BY <1>0, <2>1, <3>2, OneOnQueue DEF OneSaveOK
    <3>. QED BY <1>1, <1>4, <1>7, <3>2, <3>3 DEF Orderly, OneSaveOK
  <2>. QED BY <2>2, <2>3
<1>. QED BY <1>2, <1>5, <1>6, <1>7, QueueMoves

\* The fingerprint is taken with an answer drained, with the prompt's save and at first.
LEMMA BaselineMoves ==
  ASSUME [ShowNext]_showVars
  PROVE  \/ UNCHANGED baseline
         \/ OnLoaded \/ OnCreated \/ OnSaved \/ (\E f \in Files : PromptSave(f)) \/ Restart
BY DEF ShowNext, showVars, ui, stores, tasks, history, bounds, Operator, SaveTask,
  SwitchTasks, AutosaveTask, DrainEvents, Edit, Save, SaveAs, Open, New, AskOrSwitch, Recover, Quit,
  PromptCancel, PromptDiscard, SaveToOriginal, DialogCancel, SaveBuild, SaveWrite,
  SaveRename, SaveReport, SaveFails, SwitchLoad, SwitchApply, SwitchBackup, SwitchReport,
  AutosaveStart, AutosaveBuild, AutosaveJudge, AutosaveWrite, AutosaveFails, OnAutosaved, OnCorrupt,
  OnError, Exit, Crash

\* What is drained, and what is true of it.
LEMMA Drained ==
  ASSUME TypeInv, OutcomesOK, OnLoaded \/ OnCreated \/ OnSaved
  PROVE  /\ UNCHANGED <<memory, disk, saves, switch>> /\ app = "up"
         /\ Event \in Queued
         /\ OnLoaded => /\ showPath' = Event.path /\ Event.path \in Files /\ Event.kind = "loaded"
                        /\ baseline' # NoContent => baseline' = memory /\ memory = disk[Event.path]
         /\ OnCreated => baseline' = memory /\ memory = Empty /\ Event.kind = "created"
         /\ OnSaved => /\ showPath' = Event.path /\ Event.path \in Files /\ Event.kind = "saved"
                       /\ baseline' = Event.content /\ disk[Event.path] = Event.content
                       /\ UpTo(Event.content, memory)
<1>1. Event \in Queued /\ Event \in Events
  BY DrainOK DEF TypeInv, OnLoaded, OnCreated, OnSaved, Drain
<1>2. UNCHANGED <<memory, disk, saves, switch>> /\ app = "up"
  BY DEF OnLoaded, OnCreated, OnSaved, Drain, stores, tasks
<1>3. ASSUME OnLoaded
      PROVE  /\ showPath' = Event.path /\ Event.path \in Files /\ Event.kind = "loaded"
             /\ baseline' # NoContent => baseline' = memory /\ memory = disk[Event.path]
  BY <1>1, <1>3 DEF OnLoaded, Drain, BaselineOf, OutcomesOK, Events
<1>4. ASSUME OnCreated PROVE baseline' = memory /\ memory = Empty /\ Event.kind = "created"
  BY <1>1, <1>4 DEF OnCreated, Drain, OutcomesOK
<1>5. ASSUME OnSaved
      PROVE  /\ showPath' = Event.path /\ Event.path \in Files /\ Event.kind = "saved"
             /\ baseline' = Event.content /\ disk[Event.path] = Event.content
             /\ UpTo(Event.content, memory)
  BY <1>1, <1>5 DEF OnSaved, Drain, OutcomesOK, Events
<1>. QED BY <1>1, <1>2, <1>3, <1>4, <1>5

\* An edit makes the show newer than its fingerprint.
LEMMA EditDiffers ==
  ASSUME TypeInv, KeptInv, Patient, NEW p \in Parts, Edit(p)
  PROVE  /\ ~InProgress /\ memory' # baseline /\ UpTo(memory, memory')
         /\ UNCHANGED <<baseline, disk, saves, switch, uiQueue, showPath, app>>
<1>1. ~InProgress /\ ~Replacing /\ app = "up"
  <2>1. InProgress \in BOOLEAN
    BY DEF InProgress
  <2>2. ~InProgress /\ app = "up"
    BY <2>1, PatientWaits DEF Edit, Free
  <2>. QED BY <2>2, UnderWay DEF Replacing, Pending, SwitchKinds, Off
<1>2. /\ memory \in Now /\ edits \in Nat /\ edits' = edits + 1 /\ edits < MaxEdits /\ MaxEdits \in Nat
      /\ memory' = [memory EXCEPT ![p].rev = @ + 1]
  <2>1. MaxEdits \in Nat
    BY FilesAssumption
  <2>2. memory \in Now /\ edits \in 0..MaxEdits
    BY DEF TypeInv, ShowTypes, PlainTypes
  <2>3. edits' = edits + 1 /\ edits < MaxEdits /\ memory' = [memory EXCEPT ![p].rev = @ + 1]
    BY DEF Edit
  <2>. QED BY <2>1, <2>2, <2>3
<1>3. \A q \in Parts : memory[q] \in [show : Shows, rev : 0..edits] /\ memory[q].rev \in Nat
  BY <1>2 DEF Now
<1>4. memory'[p].rev = memory[p].rev + 1 /\ \A q \in Parts : q # p => memory'[q] = memory[q]
  BY <1>2, <1>3 DEF Now
<1>5. UpTo(memory, memory')
  BY <1>3, <1>4 DEF UpTo
<1>6. memory' # baseline
  <2>1. CASE baseline = NoContent
    <3>1. memory' \in Content
      <4>1. \A q \in Parts : memory'[q] \in [show : Shows, rev : 0..MaxEdits]
        <5>1. ASSUME NEW q \in Parts PROVE memory'[q] \in [show : Shows, rev : 0..MaxEdits]
          <6>1. CASE q = p
            <7>1. memory'[p] = [memory[p] EXCEPT !.rev = @ + 1]
              BY <1>2 DEF Now
            <7>2. memory[p].rev + 1 \in 0..MaxEdits
              BY <1>2, <1>3
            <7>. QED BY <1>3, <6>1, <7>1, <7>2
          <6>2. CASE q # p
            BY <1>2, <1>3, <1>4, <6>2
          <6>. QED BY <6>1, <6>2
        <5>. QED BY <5>1
      <4>. QED BY <1>2, <4>1 DEF Content, Now
    <3>. QED BY <2>1, <3>1, FilesAssumption
  <2>2. CASE baseline # NoContent
    <3>1. UpTo(baseline, memory) /\ baseline \in Now
      BY <1>1, <2>2 DEF KeptInv, OlderOK, TypeInv, ShowTypes
    <3>2. baseline[p].rev <= memory[p].rev /\ baseline[p].rev \in Nat
      <4>1. baseline[p] \in [show : Shows, rev : 0..edits]
        BY <3>1 DEF Now
      <4>. QED BY <1>2, <3>1, <4>1 DEF UpTo
    <3>. QED BY <1>3, <1>4, <3>2
  <2>. QED BY <2>1, <2>2
<1>. QED BY <1>1, <1>5, <1>6 DEF Edit, ui, stores, tasks

\* A save under way leaves the fingerprint, and whatever is pending the files.
LEMMA Untouching ==
  ASSUME TypeInv, KeptInv, Patient, [ShowNext]_showVars
  PROVE  /\ Saving => UNCHANGED baseline \/ Restart
         /\ InProgress \/ Pending(SaveKinds) => UNCHANGED disk
         /\ \A f \in Files : PromptSave(f) => ~InProgress /\ ~SaveUnderWay /\ UNCHANGED memory
         /\ SaveUnderWay => ~SwitchApply
<1>0. Orderly /\ OutcomesOK
  BY DEF KeptInv
<1>1. \A f \in Files : PromptSave(f) => ~InProgress /\ ~SaveUnderWay /\ UNCHANGED memory
  BY PatientWaits DEF PromptSave
<1>2. \A s \in Slots : SaveRename(s) => Saving
  BY DEF SaveRename, Saving, Off
<1>3. InProgress \/ Pending(SaveKinds) => UNCHANGED disk
  BY <1>0, <1>1, <1>2, StoreMoves, UnderWay DEF Orderly, ApartOK, OneSaveOK
<1>4. Saving => UNCHANGED baseline \/ Restart
  <2>1. OnLoaded \/ OnCreated => Pending(SwitchKinds)
    BY <1>0, Drained DEF Pending, SwitchKinds
  <2>2. OnSaved => Pending(SaveKinds)
    BY <1>0, Drained DEF Pending, SaveKinds
  <2>. QED BY <1>0, <1>1, <2>1, <2>2, BaselineMoves, UnderWay DEF Orderly, ApartOK, OneSaveOK
<1>5. SaveUnderWay => ~SwitchApply
  BY <1>0, UnderWay DEF Orderly, ApartOK, SwitchApply, Off
<1>. QED BY <1>1, <1>3, <1>4, <1>5

\* The path is left behind only by a New that begins.
LEMMA PathLeft ==
  ASSUME TypeInv, [ShowNext]_showVars, showPath' # showPath,
         ~OnLoaded, ~OnSaved, ~Restart, \A f \in Files : PromptSave(f) => showPath' # f
  PROVE  switch'.pc = "apply" /\ showPath' = Untitled
<1>1. Requests
  BY WindowMoves
<1>2. ASSUME NEW action, NEW path, BeginSwitch(action, path), showPath' # path
      PROVE  switch'.pc = "apply" /\ showPath' = Untitled
  BY <1>2 DEF BeginSwitch, PathAfter, SwitchTask
<1>3. CASE New \/ \E f \in Files : Open(f)
  BY <1>2, <1>3 DEF New, Open, AskOrSwitch
<1>4. CASE PromptDiscard
  BY <1>2, <1>4 DEF PromptDiscard, Continue
<1>5. ASSUME NEW f \in Files, PromptSave(f) PROVE switch'.pc = "apply" /\ showPath' = Untitled
  BY <1>2, <1>5 DEF PromptSave, Continue
<1>6. CASE \E kind \in {"copy", "backup"}, f \in Files, i \in 1..Keep : Recover(Copy(kind, f, i))
  BY <1>2, <1>6 DEF Recover
<1>. QED BY <1>1, <1>3, <1>4, <1>5, <1>6 DEF Requests

Dated == [Parts -> [show : Shows, rev : Nat]]

\* Revisions are numbers, and a show is as old as itself.
LEMMA UpToOrder ==
  /\ TypeInv => Now \subseteq Dated
  /\ \A c \in Dated : UpTo(c, c)
  /\ \A b, c, d \in Dated : UpTo(b, c) /\ UpTo(c, d) => UpTo(b, d)
<1>1. ASSUME TypeInv PROVE Now \subseteq Dated
  BY <1>1 DEF TypeInv, PlainTypes, Now, Dated
<1>2. ASSUME NEW c \in Dated, NEW p \in Parts PROVE c[p].rev \in Nat
  <2>1. c[p] \in [show : Shows, rev : Nat]
    BY <1>2 DEF Dated
  <2>. QED BY <2>1
<1>3. ASSUME NEW c \in Dated PROVE UpTo(c, c)
  BY <1>2 DEF UpTo
<1>4. ASSUME NEW b \in Dated, NEW c \in Dated, NEW d \in Dated, UpTo(b, c), UpTo(c, d) PROVE UpTo(b, d)
  <2>1. ASSUME NEW p \in Parts PROVE b[p].rev <= d[p].rev
    <3>1. b[p].rev \in Nat /\ c[p].rev \in Nat /\ d[p].rev \in Nat
      BY <1>2
    <3>2. b[p].rev <= c[p].rev /\ c[p].rev <= d[p].rev
      BY <1>4 DEF UpTo
    <3>. QED BY <3>1, <3>2
  <2>. QED BY <2>1 DEF UpTo
<1>. QED BY <1>1, <1>3, <1>4

\* The app is up because it was, and a show that is not being replaced was not,
\* but for the answer that says it has been.
LEMMA StillThere ==
  ASSUME TypeInv, KeptInv, [ShowNext]_showVars, app' # "down", ~Restart
  PROVE  /\ app # "down"
         /\ ~Replacing' /\ ~OnLoaded /\ ~OnCreated => ~Replacing
         /\ ~Replacing' => ~SwitchApply
<1>1. app # "down"
  BY DownNext DEF KeptInv, Orderly, showVars
<1>2. SwitchApply => switch'.pc \in {"apply", "backup", "report"}
  BY DEF SwitchApply, TypeInv, SwitchTypes, Off, Loads
<1>. QED BY <1>1, <1>2, ReplacedWhen DEF Replacing

\* The fingerprint is never ahead of the show.
LEMMA OlderNext ==
  ASSUME TypeInv, KeptInv, Patient, [ShowNext]_showVars
  PROVE  OlderOK'
<1>1. SUFFICES ASSUME app' # "down", ~Replacing', baseline' # NoContent
               PROVE  UpTo(baseline', memory')
  BY DEF OlderOK
<1>2. /\ memory \in Dated /\ memory' \in Dated /\ OutcomesOK
      /\ baseline # NoContent => baseline \in Dated
  <2>1. TypeInv'
    BY TypeInvNext
  <2>2. memory' \in Now' /\ Now' \subseteq Dated
    BY <2>1 DEF TypeInv, ShowTypes, PlainTypes, Now, Dated
  <2>3. memory \in Now /\ baseline \in Now \cup {NoContent}
    BY DEF TypeInv, ShowTypes
  <2>. QED BY <2>2, <2>3, UpToOrder DEF KeptInv
<1>3. CASE Restart
  <2>1. baseline' = memory'
    BY <1>3 DEF Restart
  <2>. QED BY <1>2, <2>1, UpToOrder
<1>4. CASE OnLoaded \/ OnCreated \/ OnSaved
  BY <1>1, <1>2, <1>4, Drained, UpToOrder
<1>5. ASSUME NEW f \in Files, PromptSave(f) PROVE UpTo(baseline', memory')
  <2>1. baseline' = memory /\ memory' = memory
    BY <1>5 DEF PromptSave
  <2>. QED BY <1>2, <2>1, UpToOrder
<1>6. CASE UNCHANGED baseline /\ ~Restart /\ ~OnLoaded /\ ~OnCreated
  <2>1. UpTo(baseline, memory) /\ ~SwitchApply
    BY <1>1, <1>6, StillThere DEF KeptInv, OlderOK
  <2>2. UNCHANGED memory \/ UpTo(memory, memory')
    BY <1>6, <2>1, MemoryMoves, EditDiffers
  <2>. QED BY <1>1, <1>2, <1>6, <2>1, <2>2, UpToOrder
<1>. QED BY <1>3, <1>4, <1>5, <1>6, BaselineMoves

\* A save of the whole show that still is the fingerprint's is a copy of it.
LEMMA SavedIsMemory ==
  ASSUME TypeInv, KeptInv, NEW s \in Slots, saves[s] # Off, saves[s].part = Len(Order) + 1
  PROVE  /\ saves[s].content \in Now /\ saves[s].target \in Files
         /\ UpTo(saves[s].content, memory)
         /\ memory = baseline => saves[s].content = memory
<1>1. saves[s] \in SaveTasks /\ memory \in Now
  BY DEF TypeInv, SaveTypes, ShowTypes
<1>2. saves[s].content \in Now /\ saves[s].target \in Files
  BY <1>1 DEF SaveTasks
<1>3. \A i \in DOMAIN Order : i < saves[s].part
  BY OrderOK
<1>4. \A i \in DOMAIN Order :
        /\ saves[s].content[Order[i]].rev <= memory[Order[i]].rev
        /\ memory = baseline => Copied(i, saves[s].content, memory)
  BY <1>3 DEF KeptInv, SavingOK
<1>. QED BY <1>1, <1>2, <1>4, AllCopied

\* The show at the window's path.
LEMMA AtPathNext ==
  ASSUME TypeInv, KeptInv, Patient, [ShowNext]_showVars
  PROVE  AtPathOK'
<1>1. SUFFICES ASSUME app' # "down", ~Replacing', memory' = baseline', memory' # Empty
               PROVE  showPath' \in Files /\ disk'[showPath'] = memory'
  BY FilesAssumption DEF AtPathOK, AtPath
<1>2. /\ OutcomesOK /\ AtPathOK /\ memory' # NoContent /\ memory # NoContent
      /\ disk \in [Files -> Now \cup {NoContent, Corrupt}] /\ showPath \in Shows
  <2>1. TypeInv'
    BY TypeInvNext
  <2>2. TypeInv' => memory' \in Content
    BY FilesAssumption DEF TypeInv, ShowTypes, PlainTypes, Now, Content
  <2>3. memory \in Content
    BY FilesAssumption DEF TypeInv, ShowTypes, PlainTypes, Now, Content
  <2>. QED BY <2>1, <2>2, <2>3, FilesAssumption DEF KeptInv, TypeInv, StoreTypes, PlainTypes
<1>3. ~Restart
  BY <1>1 DEF Restart
<1>4. CASE OnLoaded \/ OnCreated \/ OnSaved
  BY <1>1, <1>2, <1>4, Drained
<1>5. ASSUME NEW f \in Files, PromptSave(f) PROVE showPath' \in Files /\ disk'[showPath'] = memory'
  <2>1. disk'[f] = memory /\ memory' = memory
    BY <1>2, <1>5 DEF PromptSave
  <2>2. showPath' = f
    BY <1>1, <1>5 DEF PromptSave, Continue, BeginSwitch, PathAfter, SwitchTask, Replacing
  <2>. QED BY <2>1, <2>2
<1>6. CASE UNCHANGED baseline /\ ~OnLoaded /\ ~OnCreated /\ ~OnSaved /\ ~\E f \in Files : PromptSave(f)
  <2>1. app # "down" /\ ~Replacing /\ ~SwitchApply
    BY <1>1, <1>3, <1>6, StillThere
  <2>2. UNCHANGED memory
    BY <1>1, <1>3, <1>6, <2>1, MemoryMoves, EditDiffers
  <2>3. UNCHANGED showPath
    BY <1>1, <1>3, <1>6, PathLeft DEF Replacing
  <2>4. showPath \in Files /\ disk[showPath] = memory
    BY <1>1, <1>2, <1>6, <2>1, <2>2 DEF AtPathOK, AtPath, Shows
  <2>5. ASSUME NEW s \in Slots, SaveRename(s) PROVE disk'[showPath] = memory
    <3>1. saves[s] # Off /\ saves[s].part = Len(Order) + 1
      BY <2>5 DEF SaveRename, Off, TypeInv, SaveTypes
    <3>2. disk' = [disk EXCEPT ![saves[s].target] = saves[s].content]
      BY <2>5 DEF SaveRename
    <3>. QED BY <1>1, <1>2, <1>6, <2>2, <2>4, <3>1, <3>2, SavedIsMemory
  <2>. QED BY <1>6, <2>2, <2>3, <2>4, <2>5, StoreMoves
<1>. QED BY <1>3, <1>4, <1>5, <1>6, BaselineMoves

\* Only the window takes an outcome off the queue.
LEMMA LeavesQueue ==
  ASSUME TypeInv, [ShowNext]_showVars, NEW e \in Queued, e \notin Queued', ~Restart
  PROVE  DrainEvents /\ Event = e
<1>0. QueueTypes
  BY DEF TypeInv
<1>1. ~UNCHANGED uiQueue
  BY DEF Queued
<1>2. ~Sends
  BY <1>0, <1>1, SendsWhat, SendOK
<1>3. DrainEvents
  BY <1>1, <1>2, QueueMoves
<1>4. uiQueue # <<>> /\ uiQueue' = Tail(uiQueue)
  BY <1>3 DEF DrainEvents, OnLoaded, OnCreated, OnSaved, OnAutosaved, OnCorrupt, OnError, Drain
<1>. QED BY <1>0, <1>3, <1>4, DrainOK

\* What has landed is told of until the window knows.
LEMMA LandedStays ==
  ASSUME TypeInv, KeptInv, [ShowNext]_showVars, Landed, app' # "down", ~Restart, ~OnSaved
  PROVE  Landed'
<1>0. QueueTypes /\ saves \in [Slots -> SaveTasks \cup {Off}]
  BY DEF TypeInv, SaveTypes
<1>1. ASSUME NEW e \in Queued, e.kind = "saved" PROVE Landed'
  <2>1. e \in Queued'
    <3>1. Event = e /\ DrainEvents => OnSaved
      BY <1>1 DEF DrainEvents, OnLoaded, OnCreated, OnSaved, OnAutosaved, OnCorrupt, OnError, Drain
    <3>. QED BY <3>1, LeavesQueue
  <2>. QED BY <1>1, <2>1 DEF Landed, Pending
<1>2. ASSUME NEW s \in Slots, saves[s].pc = "report" PROVE Landed'
  <2>1. saves[s] # Off
    BY <1>2 DEF Off
  <2>2. CASE SaveReport(s)
    <3>. DEFINE e == [kind |-> "saved", path |-> saves[s].target, content |-> saves[s].content]
    <3>1. uiQueue' = uiQueue \o <<e>> /\ e.kind = "saved"
      BY <2>2 DEF SaveReport, Send
    <3>. HIDE DEF e
    <3>2. e \in Queued'
      BY <1>0, <3>1, SendOK
    <3>. QED BY <3>1, <3>2 DEF Landed, Pending
  <2>3. CASE ~SaveReport(s)
    <3>1. ASSUME NEW f \in Files, Starts(f) PROVE saves'[s] = saves[s]
      BY <1>0, <2>1, <3>1 DEF Starts, StartSave
    <3>2. ASSUME NEW r \in Slots, r # s, SaveTask(r) \/ SaveFails(r) PROVE saves'[s] = saves[s]
      BY <1>0, <3>2 DEF SaveTask, SaveBuild, SaveWrite, SaveRename, SaveReport, SaveFails
    <3>3. ~SaveTask(s) /\ ~SaveFails(s)
      BY <1>2, <2>3 DEF SaveTask, SaveBuild, SaveWrite, SaveRename, SaveFails
    <3>4. ~Stops
      BY DEF Stops, Exit, Crash
    <3>5. saves'[s] = saves[s]
      BY <3>1, <3>2, <3>3, <3>4, TaskMoves DEF AnyStart
    <3>. QED BY <1>2, <3>5 DEF Landed
  <2>. QED BY <2>2, <2>3
<1>. QED BY <1>1, <1>2 DEF Landed, Pending

\* The show of the fingerprint.
LEMMA BaselineNext ==
  ASSUME TypeInv, KeptInv, Patient, [ShowNext]_showVars
  PROVE  BaselineOK'
<1>1. SUFFICES ASSUME app' # "down", baseline' # NoContent, baseline' # Empty
               PROVE  Landed' \/ \E f \in Files : disk'[f] = baseline'
  BY DEF BaselineOK, Held
<1>2. OutcomesOK /\ disk \in [Files -> Now \cup {NoContent, Corrupt}]
  BY DEF KeptInv, TypeInv, StoreTypes
<1>3. ~Restart
  BY <1>1 DEF Restart
<1>4. CASE OnLoaded \/ OnCreated \/ OnSaved
  BY <1>1, <1>2, <1>4, Drained
<1>5. ASSUME NEW f \in Files, PromptSave(f) PROVE disk'[f] = baseline'
  BY <1>2, <1>5 DEF PromptSave
<1>6. CASE UNCHANGED baseline /\ ~OnSaved /\ ~\E f \in Files : PromptSave(f)
  <2>1. app # "down"
    BY <1>1, <1>3, StillThere
  <2>2. CASE Landed
    BY <1>1, <1>3, <1>6, <2>2, LandedStays
  <2>3. ASSUME NEW s \in Slots, SaveRename(s) PROVE Landed'
    <3>1. saves' = [saves EXCEPT ![s].pc = "report"] /\ saves[s] # Off
      BY <2>3 DEF SaveRename, Off
    <3>2. saves'[s].pc = "report"
      BY <3>1 DEF TypeInv, SaveTypes, SaveTasks
    <3>. QED BY <3>2 DEF Landed
  <2>4. CASE UNCHANGED disk /\ ~Landed
    <3>1. Held(baseline)
      BY <1>1, <1>6, <2>1, <2>4 DEF KeptInv, BaselineOK
    <3>. QED BY <1>1, <1>6, <2>4, <3>1 DEF Held
  <2>. QED BY <1>6, <2>2, <2>3, <2>4, StoreMoves
<1>. QED BY <1>3, <1>4, <1>5, <1>6, BaselineMoves

\* The saves under way copy the show in memory.
LEMMA SavingNext ==
  ASSUME TypeInv, KeptInv, Patient, [ShowNext]_showVars
  PROVE  SavingOK'
<1>0. /\ Orderly /\ SavingOK /\ memory \in Dated /\ memory' \in Dated
      /\ disk \in [Files -> Now \cup {NoContent, Corrupt}]
      /\ saves \in [Slots -> SaveTasks \cup {Off}]
  <2>1. TypeInv'
    BY TypeInvNext
  <2>2. memory' \in Now' /\ Now' \subseteq Dated
    BY <2>1 DEF TypeInv, ShowTypes, PlainTypes, Now, Dated
  <2>3. memory \in Now
    BY DEF TypeInv, ShowTypes
  <2>. QED BY <2>2, <2>3, UpToOrder DEF KeptInv, TypeInv, StoreTypes, SaveTypes
<1>1. SUFFICES ASSUME NEW s \in Slots, saves'[s] # Off
               PROVE  /\ \A i \in DOMAIN Order : i < saves'[s].part =>
                           /\ saves'[s].content[Order[i]].rev <= memory'[Order[i]].rev
                           /\ memory' = baseline' => Copied(i, saves'[s].content, memory')
                      /\ saves'[s].pc = "report" => disk'[saves'[s].target] = saves'[s].content
  BY DEF SavingOK, Copied
<1>. DEFINE t == saves[s]
<1>2. ASSUME t # Off
      PROVE  /\ t \in SaveTasks
             /\ \A i \in DOMAIN Order : i < t.part =>
                  /\ t.content[Order[i]].rev <= memory'[Order[i]].rev
                  /\ memory' = baseline' => memory' = memory /\ Copied(i, t.content, memory')
             /\ t.pc = "report" => disk'[t.target] = t.content
  <2>1. t \in SaveTasks /\ Saving /\ SaveUnderWay
    BY <1>0, <1>2, UnderWay DEF Saving
  <2>2. ~Restart /\ ~SwitchApply
    <3>1. app # "down"
      BY <1>0, <2>1 DEF Orderly, DownOK
    <3>. QED BY <2>1, <3>1, Untouching DEF Restart
  <2>3. UNCHANGED baseline
    BY <2>1, <2>2, Untouching
  <2>4. UpTo(memory, memory') /\ (memory' = baseline' => memory' = memory)
    <3>1. UpTo(memory, memory)
      BY <1>0, UpToOrder
    <3>. QED BY <2>2, <2>3, <3>1, MemoryMoves, EditDiffers
  <2>5. ASSUME NEW i \in DOMAIN Order, i < t.part
        PROVE  /\ t.content[Order[i]].rev <= memory'[Order[i]].rev
               /\ memory' = baseline' => memory' = memory /\ Copied(i, t.content, memory')
    <3>1. t.content[Order[i]].rev <= memory[Order[i]].rev /\ (memory = baseline => Copied(i, t.content, memory))
      BY <1>0, <1>2, <2>5 DEF SavingOK
    <3>2. Order[i] \in Parts /\ t.content \in Dated
      BY <2>1, OrderOK, UpToOrder DEF SaveTasks
    <3>3. \A c \in Dated : c[Order[i]].rev \in Nat
      BY <3>2 DEF Dated
    <3>4. memory[Order[i]].rev <= memory'[Order[i]].rev
      BY <2>4, <3>2 DEF UpTo
    <3>5. t.content[Order[i]].rev \in Nat /\ memory[Order[i]].rev \in Nat /\ memory'[Order[i]].rev \in Nat
      BY <1>0, <3>2, <3>3
    <3>. HIDE DEF t
    <3>6. t.content[Order[i]].rev <= memory'[Order[i]].rev
      BY <3>1, <3>4, <3>5
    <3>. QED BY <2>3, <2>4, <3>1, <3>6
  <2>6. ASSUME t.pc = "report" PROVE disk'[t.target] = t.content
    <3>1. disk[t.target] = t.content
      BY <1>0, <1>2, <2>6 DEF SavingOK
    <3>2. \A r \in Slots : ~SaveRename(r)
      BY <1>0, <1>2, <2>6 DEF SaveRename, Orderly, OneSaveOK, Off
    <3>3. \A f \in Files : ~PromptSave(f)
      BY <2>1, Untouching
    <3>. QED BY <3>1, <3>2, <3>3, StoreMoves
  <2>. QED BY <2>1, <2>5, <2>6
<1>3. CASE saves'[s] = t
  BY <1>1, <1>2, <1>3
<1>4. CASE \E f \in Files : saves'[s] = [pc |-> "build", target |-> f, part |-> 1, content |-> Empty]
  <2>1. \A i \in DOMAIN Order : ~(i < 1)
    BY OrderOK
  <2>. QED BY <1>4, <2>1
<1>5. CASE SaveBuild(s) /\ t # Off /\ saves'[s].target = t.target
           /\ t.part \in 1..Len(Order) /\ saves'[s].part = t.part + 1
           /\ saves'[s].content = [t.content EXCEPT ![Order[t.part]] = memory[Order[t.part]]]
           /\ saves'[s].pc \in {"build", "write"}
  <2>1. memory' = memory /\ t.content \in Dated
    BY <1>2, <1>5, UpToOrder DEF SaveBuild, SaveTasks
  <2>2. ASSUME NEW i \in DOMAIN Order, i < t.part + 1
        PROVE  /\ saves'[s].content[Order[i]].rev <= memory'[Order[i]].rev
               /\ memory' = baseline' => Copied(i, saves'[s].content, memory')
    <3>1. Order[i] \in Parts
      BY OrderOK
    <3>2. i < t.part \/ i = t.part
      BY <1>5, <2>2, OrderOK
    <3>3. CASE Order[i] = Order[t.part]
      <4>1. saves'[s].content[Order[i]] = memory[Order[i]]
        BY <1>5, <2>1, <3>1, <3>3 DEF Dated
      <4>2. memory[Order[i]].rev \in Nat
        BY <1>0, <3>1 DEF Dated
      <4>. HIDE DEF t
      <4>. QED BY <2>1, <4>1, <4>2 DEF Copied
    <3>4. CASE Order[i] # Order[t.part]
      <4>1. saves'[s].content[Order[i]] = t.content[Order[i]] /\ i < t.part
        BY <1>5, <2>1, <3>1, <3>2, <3>4 DEF Dated
      <4>. QED BY <1>2, <1>5, <4>1 DEF Copied
    <3>. QED BY <3>3, <3>4
  <2>. QED BY <1>5, <2>2
<1>6. CASE (SaveWrite(s) \/ SaveRename(s)) /\ t # Off /\ saves'[s].target = t.target
           /\ saves'[s].part = t.part /\ saves'[s].content = t.content
           /\ saves'[s].pc = IF SaveWrite(s) THEN "rename" ELSE "report"
  <2>1. SaveRename(s) => disk'[t.target] = t.content
    BY <1>0, <1>2, <1>6 DEF SaveRename, SaveTasks
  <2>. QED BY <1>2, <1>6, <2>1
<1>. HIDE DEF t
<1>7. t = saves[s]
  BY DEF t
<1>. QED BY <1>1, <1>3, <1>4, <1>5, <1>6, <1>7, SlotMoves

\* A switch under way brings in the file.
LEMMA SwitchingNext ==
  ASSUME TypeInv, KeptInv, Patient, [ShowNext]_showVars
  PROVE  SwitchingOK'
<1>0. Orderly /\ SwitchingOK /\ memory \in Now
  BY DEF KeptInv, TypeInv, ShowTypes
<1>. DEFINE Fine(c, from, to, part) ==
         /\ to = Untitled => c = Empty
         /\ to # Untitled /\ from.kind = "file" => disk'[to] = c
         /\ \A i \in DOMAIN Order : i < part => Copied(i, memory', c)
<1>1. SUFFICES ASSUME switch'.pc \in {"apply", "backup", "report"}
               PROVE  Fine(switch'.content, switch'.from, switch'.to, switch'.part)
  BY DEF SwitchingOK, Copied
<1>2. switch' \in Loads' /\ switch' # Off
  BY <1>1, SwitchTypesNext DEF SwitchTypes, Off
<1>3. CASE AnyShift
  <2>1. switch'.content = Empty /\ switch'.part = 1 /\ switch'.to = Untitled
    BY <1>1, <1>3, ShiftMakes
  <2>2. \A i \in DOMAIN Order : ~(i < 1)
    BY OrderOK
  <2>. QED BY <2>1, <2>2
<1>4. CASE SwitchLoad
  <2>. DEFINE c == Read(switch.from)
              to == switch.to
              from == switch.from
  <2>1. c # Corrupt /\ switch \in Loads /\ to \in Files /\ UNCHANGED disk
    BY <1>2, <1>4, ReadIsContent DEF SwitchLoad, stores
  <2>2. switch' = [switch EXCEPT !.pc = "apply", !.content = c] /\ switch.part = 1
    BY <1>4, <2>1 DEF SwitchLoad, TypeInv, SwitchTypes
  <2>3. switch'.content = c /\ switch'.to = to /\ switch'.from = from /\ switch'.part = 1
    BY <2>1, <2>2 DEF Loads
  <2>4. from.kind = "file" => c = disk[to]
    <3>1. switch.pc = "load"
      BY <1>4 DEF SwitchLoad
    <3>2. \A kind \in {"copy", "backup"}, i \in 1..Keep : Copy(kind, to, i).kind # "file"
      BY DEF Copy
    <3>. HIDE DEF c, to, from
    <3>3. from = File(to) \/ \E kind \in {"copy", "backup"}, i \in 1..Keep : from = Copy(kind, to, i)
      BY <3>1, ReadIsContent DEF to, from
    <3>4. from.kind = "file" => from = File(to)
      BY <3>2, <3>3
    <3>. QED BY <3>1, <3>4, ReadIsContent DEF to, from, c
  <2>5. \A i \in DOMAIN Order : ~(i < 1)
    BY OrderOK
  <2>. HIDE DEF c
  <2>. QED BY <2>1, <2>3, <2>4, <2>5, FilesAssumption
<1>5. CASE switch.pc \in {"apply", "backup", "report"} /\ ~AnyShift
  <2>1. switch \in Loads /\ switch # Off /\ InProgress /\ UNCHANGED disk
    <3>1. switch \in Loads /\ switch # Off
      BY <1>5 DEF TypeInv, SwitchTypes, Off
    <3>. QED BY <3>1, UnderWay, Untouching
  <2>2. switch'.content = switch.content /\ switch'.to = switch.to /\ switch'.from = switch.from
    <3>1. Stops => switch' = Off
      BY DEF Stops, Exit, Crash
    <3>2. SwitchApply \/ SwitchBackup =>
            switch'.content = switch.content /\ switch'.to = switch.to /\ switch'.from = switch.from
      BY <2>1 DEF SwitchApply, SwitchBackup, Loads
    <3>3. SwitchReport => switch' = Off
      BY DEF SwitchReport
    <3>. QED BY <1>2, <1>5, <3>1, <3>2, <3>3, TaskMoves DEF SwitchTasks, SwitchLoad
  <2>3. Fine(switch.content, switch.from, switch.to, 0)
    <3>1. \A i \in DOMAIN Order : ~(i < 0)
      BY OrderOK
    <3>. QED BY <1>0, <1>5, <2>1, <3>1 DEF SwitchingOK
  <2>4. \A i \in DOMAIN Order : i < switch.part => Copied(i, memory, switch.content)
    BY <1>0, <1>5 DEF SwitchingOK
  <2>5. CASE SwitchApply
    <3>1. /\ switch.part \in 1..Len(Order) /\ switch'.part = switch.part + 1
          /\ memory' = [memory EXCEPT ![Order[switch.part]] = switch.content[Order[switch.part]]]
      BY <2>1, <2>5, OrderOK DEF SwitchApply, TypeInv, SwitchTypes, Loads, Places
    <3>2. ASSUME NEW i \in DOMAIN Order, i < switch.part + 1 PROVE Copied(i, memory', switch.content)
      <4>1. i < switch.part \/ i = switch.part
        BY <3>1, <3>2, OrderOK
      <4>2. Order[i] \in Parts
        BY OrderOK
      <4>. QED BY <1>0, <2>4, <3>1, <4>1, <4>2 DEF Copied, Now
    <3>. QED BY <2>2, <2>3, <3>1, <3>2
  <2>6. CASE ~SwitchApply
    <3>1. ~Restart
      BY <1>0, <2>1 DEF Orderly, DownOK, Restart
    <3>2. UNCHANGED memory
      BY <2>1, <2>6, <3>1, MemoryMoves, EditDiffers
    <3>3. switch'.part = switch.part
      <4>1. Stops => switch' = Off
        BY DEF Stops, Exit, Crash
      <4>2. SwitchBackup => switch'.part = switch.part
        BY <2>1 DEF SwitchBackup, Loads
      <4>3. SwitchReport => switch' = Off
        BY DEF SwitchReport
      <4>. QED BY <1>2, <1>5, <2>6, <4>1, <4>2, <4>3, TaskMoves DEF SwitchTasks, SwitchLoad
    <3>. QED BY <2>2, <2>3, <2>4, <3>2, <3>3
  <2>. QED BY <2>5, <2>6
<1>6. switch.pc \in {"apply", "backup", "report"} \/ AnyShift \/ SwitchLoad
  <2>1. Stops => switch' = Off
    BY DEF Stops, Exit, Crash
  <2>. QED BY <1>1, <1>2, <2>1, TaskMoves DEF SwitchTasks, SwitchApply, SwitchBackup, SwitchReport
<1>. QED BY <1>3, <1>4, <1>5, <1>6

\* What an outcome says of the show and the files is true until it is drained.
LEMMA OutcomesNext ==
  ASSUME TypeInv, KeptInv, Patient, [ShowNext]_showVars
  PROVE  OutcomesOK'
<1>0. /\ Orderly /\ OutcomesOK /\ SwitchingOK /\ QueueTypes /\ memory \in Now
  BY DEF KeptInv, TypeInv, ShowTypes
<1>. DEFINE True(e) ==
         /\ e.kind = "loaded" /\ ~e.recovered => memory' = disk'[e.path]
         /\ e.kind = "created" => memory' = Empty
         /\ e.kind = "saved" => /\ disk'[e.path] = e.content /\ UpTo(e.content, memory')
                                /\ memory' = baseline' => e.content = memory'
<1>1. SUFFICES ASSUME NEW e \in Queued' PROVE True(e)
  BY DEF OutcomesOK, UpTo
<1>2. ~Restart
  BY QueuedMoves
<1>3. ASSUME e \in Queued PROVE True(e)
  <2>1. e \in Events
    BY <1>0, <1>3, QueuedTypes
  <2>2. CASE e.kind \in {"loaded", "created"}
    <3>1. Pending(SwitchKinds) /\ InProgress /\ switch = Off
      BY <1>0, <1>3, <2>2, UnderWay DEF Pending, SwitchKinds, Orderly, OneSwitchOK
    <3>2. UNCHANGED <<disk, memory>>
      BY <1>2, <3>1, Untouching, MemoryMoves, EditDiffers DEF SwitchApply, Off
    <3>. QED BY <1>0, <1>3, <2>2, <3>2 DEF OutcomesOK
  <2>3. CASE e.kind = "saved"
    <3>1. Pending(SaveKinds) /\ SaveUnderWay /\ ~Pending(SwitchKinds)
      BY <1>0, <1>3, <2>3, UnderWay DEF Pending, SaveKinds, Orderly, ApartOK
    <3>2. UNCHANGED disk /\ ~SwitchApply /\ \A f \in Files : ~PromptSave(f)
      BY <3>1, Untouching
    <3>3. ~OnLoaded /\ ~OnCreated
      BY <1>0, <3>1, Drained DEF Pending, SwitchKinds
    <3>4. ~OnSaved
      <4>1. ASSUME OnSaved PROVE FALSE
        <5>1. uiQueue # <<>> /\ uiQueue' = Tail(uiQueue) /\ Event.kind \in SaveKinds
          BY <4>1 DEF OnSaved, Drain, SaveKinds
        <5>2. ~Pending(SaveKinds)'
          BY <1>0, <5>1, OneOnQueue DEF Orderly, OneSaveOK
        <5>. QED BY <2>3, <5>2 DEF Pending, SaveKinds
      <4>. QED BY <4>1
    <3>5. UNCHANGED baseline
      BY <1>2, <3>2, <3>3, <3>4, BaselineMoves
    <3>6. /\ disk[e.path] = e.content /\ UpTo(e.content, memory)
          /\ memory = baseline => e.content = memory
      BY <1>0, <1>3, <2>3 DEF OutcomesOK
    <3>7. CASE UNCHANGED memory
      BY <2>3, <3>2, <3>5, <3>6, <3>7
    <3>8. ASSUME NEW p \in Parts, Edit(p) PROVE True(e)
      <4>1. memory' # baseline' /\ UpTo(memory, memory')
        BY <3>5, <3>8, EditDiffers
      <4>2. UpTo(e.content, memory')
        <5>1. memory \in Dated /\ e.content \in Dated
          BY <1>0, <2>1, <2>3, UpToOrder DEF Events
        <5>2. memory' \in Dated
          <6>1. TypeInv'
            BY TypeInvNext
          <6>2. memory' \in Now' /\ Now' \subseteq Dated
            BY <6>1 DEF TypeInv, ShowTypes, PlainTypes, Now, Dated
          <6>. QED BY <6>2
        <5>. QED BY <3>6, <4>1, <5>1, <5>2, UpToOrder
      <4>. QED BY <2>3, <3>2, <3>6, <4>1, <4>2
    <3>. QED BY <1>2, <3>2, <3>7, <3>8, MemoryMoves
  <2>. QED BY <2>2, <2>3
<1>4. ASSUME Sends, e \notin Queued PROVE True(e)
  <2>1. ~UNCHANGED uiQueue
    BY <1>4 DEF Queued
  <2>2. PICK g \in Events :
          /\ uiQueue' = uiQueue \o <<g>> /\ UNCHANGED <<memory, disk, baseline>>
          /\ \/ g.kind \in {"error", "corrupt", "autosaved"}
             \/ g.kind = "created" /\ switch.pc = "report" /\ switch.to = Untitled
             \/ /\ g.kind = "loaded" /\ g.path = switch.to /\ switch.pc = "report"
                /\ switch.to \in Files /\ g.recovered = (switch.from.kind # "file")
             \/ \E s \in Slots :
                  /\ saves[s].pc = "report" /\ saves[s] # Off
                  /\ g = [kind |-> "saved", path |-> saves[s].target, content |-> saves[s].content]
    BY <1>4, <2>1, SendsWhat
  <2>3. g = e
    BY <1>0, <1>1, <1>4, <2>2, SendOK
  <2>4. switch.pc = "report" => switch.content = memory
    <3>1. switch.pc = "report" =>
            switch.content \in Now /\ \A i \in DOMAIN Order : Copied(i, memory, switch.content)
      BY <1>0, OrderOK DEF SwitchingOK, TypeInv, SwitchTypes, Loads, Off
    <3>. QED BY <1>0, <3>1, AllCopied
  <2>5. e.kind = "loaded" /\ ~e.recovered => memory' = disk'[e.path]
    <3>1. SUFFICES ASSUME e.kind = "loaded", ~e.recovered PROVE memory = disk[e.path]
      BY <2>2
    <3>2. switch.pc = "report" /\ e.path = switch.to /\ switch.to # Untitled /\ switch.from.kind = "file"
      <4>1. /\ switch.pc = "report" /\ e.path = switch.to /\ switch.to \in Files
            /\ e.recovered = (switch.from.kind # "file")
        BY <2>2, <2>3, <3>1
      <4>2. switch.from.kind = "file"
        BY <3>1, <4>1, Zenon
      <4>. QED BY <4>1, <4>2, FilesAssumption
    <3>3. disk[switch.to] = switch.content
      BY <1>0, <3>2 DEF SwitchingOK
    <3>. QED BY <2>4, <3>2, <3>3
  <2>6. e.kind = "created" => memory' = Empty
    BY <1>0, <2>2, <2>3, <2>4 DEF SwitchingOK
  <2>7. ASSUME e.kind = "saved"
        PROVE  /\ disk'[e.path] = e.content /\ UpTo(e.content, memory')
               /\ memory' = baseline' => e.content = memory'
    <3>1. PICK s \in Slots :
            /\ saves[s].pc = "report" /\ saves[s] # Off
            /\ g = [kind |-> "saved", path |-> saves[s].target, content |-> saves[s].content]
      BY <2>2, <2>3, <2>7
    <3>2. disk[saves[s].target] = saves[s].content /\ saves[s].part = Len(Order) + 1
      BY <3>1 DEF KeptInv, SavingOK, TypeInv, SaveTypes
    <3>3. e.path = saves[s].target /\ e.content = saves[s].content
      BY <2>3, <3>1
    <3>. QED BY <2>2, <3>1, <3>2, <3>3, SavedIsMemory
  <2>. QED BY <2>5, <2>6, <2>7
<1>. QED BY <1>3, <1>4, QueuedMoves

\* The app leaves with what counts as saved.
LEMMA LeavingNext ==
  ASSUME TypeInv, KeptInv, Patient, [ShowNext]_showVars
  PROVE  LeavingOK'
<1>0. LeavingOK
  BY DEF KeptInv
<1>1. SUFFICES ASSUME app' = "leaving", ~consent' PROVE memory' = baseline'
  BY DEF LeavingOK
<1>2. CASE app = "leaving"
  <2>1. UNCHANGED <<memory, baseline, consent>>
    BY <1>1, <1>2 DEF ShowNext, showVars, ui, stores, tasks, history, bounds, Operator, SaveTask,
      SwitchTasks, AutosaveTask, DrainEvents, Edit, Save, SaveAs, Open, New, AskOrSwitch, Recover, Quit,
      PromptCancel, PromptDiscard, PromptSave, SaveToOriginal, DialogCancel, Free, Asked, SaveBuild,
      SaveWrite, SaveRename, SaveReport, SaveFails, SwitchLoad, SwitchApply, SwitchBackup,
      SwitchReport, AutosaveStart, AutosaveBuild, AutosaveJudge, AutosaveWrite, AutosaveFails,
      OnLoaded, OnCreated, OnSaved, OnAutosaved, OnCorrupt, OnError, Drain, Exit, Crash, Restart
  <2>. QED BY <1>0, <1>1, <1>2, <2>1 DEF LeavingOK
<1>3. CASE app # "leaving"
  <2>1. Quit \/ PromptDiscard \/ \E f \in Files : PromptSave(f)
    BY <1>1, <1>3 DEF ShowNext, showVars, ui, stores, tasks, history, bounds, Operator, SaveTask,
      SwitchTasks, AutosaveTask, DrainEvents, Edit, Save, SaveAs, Open, New, AskOrSwitch, Recover,
      PromptCancel, SaveToOriginal, DialogCancel, SaveBuild,
      SaveWrite, SaveRename, SaveReport, SaveFails, SwitchLoad, SwitchApply, SwitchBackup,
      SwitchReport, AutosaveStart, AutosaveBuild, AutosaveJudge, AutosaveWrite, AutosaveFails,
      OnLoaded, OnCreated, OnSaved, OnAutosaved, OnCorrupt, OnError, Exit, Crash, Restart
  <2>2. Quit => memory' = baseline'
    BY <1>1, <1>3 DEF Quit, HasUnsavedChanges
  <2>3. ~PromptDiscard
    BY <1>1 DEF PromptDiscard
  <2>4. \A f \in Files : PromptSave(f) => memory' = baseline'
    BY DEF PromptSave
  <2>. QED BY <2>1, <2>2, <2>3, <2>4
<1>. QED BY <1>2, <1>3

\* At the start nothing is there to lose.
LEMMA KeptInit ==
  ASSUME ShowInit
  PROVE  KeptInv
<1>. USE DEF ShowInit
<1>1. Queued = {} /\ ~Saving /\ \A kinds : ~Pending(kinds) /\ AtMostOne(kinds)
  BY DEF Queued, Saving, Pending, AtMostOne
<1>2. Orderly
  BY <1>1, UnderWay DEF Orderly, DownOK, OneSwitchOK, ApartOK, OneSaveOK
<1>3. OlderOK
  BY DEF OlderOK, UpTo, Empty
<1>4. AtPathOK /\ BaselineOK /\ LeavingOK
  BY DEF AtPathOK, BaselineOK, LeavingOK, Held
<1>5. SavingOK /\ SwitchingOK /\ OutcomesOK
  BY <1>1 DEF SavingOK, SwitchingOK, OutcomesOK, Off
<1>. QED BY <1>2, <1>3, <1>4, <1>5 DEF KeptInv

\* Every step keeps what is saved.
LEMMA KeptNext ==
  ASSUME TypeInv, KeptInv, Patient, [ShowNext]_showVars
  PROVE  KeptInv'
<1>1. Orderly'
  BY OrderlyNext DEF KeptInv
<1>. QED BY <1>1, OlderNext, AtPathNext, BaselineNext, SavingNext, SwitchingNext, OutcomesNext,
            LeavingNext DEF KeptInv

\* Where the operator waits for a save or a switch before the next, what counts as saved is on
\* disk, at the path the window shows: for any number of files and parts, whatever fails and
\* wherever the app stops (the title's "unsaved changes" and the prompt rest on it).
THEOREM SavedIsOnDiskCorrect ==
  ASSUME Patient
  PROVE  ShowSpec => []SavedIsOnDisk
<1>1. ShowInit => TypeInv /\ KeptInv
  BY TypeInvInit, KeptInit
<1>2. TypeInv /\ KeptInv /\ [ShowNext]_showVars => TypeInv' /\ KeptInv'
  BY TypeInvNext, KeptNext
<1>3. TypeInv /\ KeptInv => SavedIsOnDisk
  <2>. SUFFICES ASSUME KeptInv, app = "up", ~InProgress, memory = baseline
                PROVE  memory = Empty \/ AtPath(showPath) = memory
    BY DEF SavedIsOnDisk
  <2>1. ~Replacing
    BY UnderWay DEF Replacing, Pending, SwitchKinds, Off
  <2>. QED BY <2>1 DEF KeptInv, AtPathOK
<1>. QED BY <1>1, <1>2, <1>3, PTL DEF ShowSpec

\* What counts as saved is on disk, when the app leaves or a switch begins.
LEMMA SavedIsHeld ==
  ASSUME TypeInv, KeptInv, app # "down", memory = baseline, ~Saving
  PROVE  memory = Empty \/ \E f \in Files : disk[f] = memory
<1>0. QueueTypes /\ OutcomesOK /\ BaselineOK /\ memory # NoContent
  BY FilesAssumption DEF KeptInv, TypeInv, ShowTypes, PlainTypes, Now, Content
<1>1. CASE Held(baseline)
  BY <1>1 DEF Held
<1>2. CASE Landed
  <2>1. \A s \in Slots : saves[s].pc # "report"
    BY DEF Saving, Off
  <2>2. PICK e \in Queued : e.kind = "saved"
    BY <1>2, <2>1 DEF Landed, Pending
  <2>3. e.path \in Files
    BY <1>0, <2>2, QueuedTypes DEF Events
  <2>4. disk[e.path] = memory
    BY <1>0, <2>2 DEF OutcomesOK
  <2>. QED BY <2>3, <2>4
<1>. QED BY <1>0, <1>1, <1>2 DEF BaselineOK

\* The app stops, and an Open or a New replaces the show, only with that show on disk or with
\* the operator's consent, though saves end and fail beside the prompt: LeaveKeeps, for any
\* number of files, parts and steps.
THEOREM LeaveKeepsCorrect ==
  ASSUME Patient
  PROVE  ShowSpec => LeaveKeeps
<1>. DEFINE Keeps == app # "down" /\ Replaces /\ ~consent' =>
                       memory = Empty \/ \E f \in Files : disk'[f] = memory
<1>1. ShowInit => TypeInv /\ KeptInv
  BY TypeInvInit, KeptInit
<1>2. TypeInv /\ KeptInv /\ [ShowNext]_showVars => TypeInv' /\ KeptInv'
  BY TypeInvNext, KeptNext
<1>3. TypeInv /\ KeptInv /\ [ShowNext]_showVars => [Keeps]_showVars
  <2>. SUFFICES ASSUME TypeInv, KeptInv, ShowNext, app # "down", Replaces, ~consent'
                PROVE  memory = Empty \/ \E f \in Files : disk'[f] = memory
    OBVIOUS
  <2>1. CASE app' = "down"
    <3>1. Exit
      BY <2>1 DEF ShowNext, ui, stores, tasks, history, bounds, Operator, SaveTask,
        SwitchTasks, AutosaveTask, DrainEvents, Edit, Save, SaveAs, Open, New, AskOrSwitch, Recover,
        Quit, PromptCancel, PromptDiscard, PromptSave, Continue, SaveToOriginal, DialogCancel,
        SaveBuild, SaveWrite, SaveRename, SaveReport, SaveFails, SwitchLoad, SwitchApply,
        SwitchBackup, SwitchReport, AutosaveStart, AutosaveBuild, AutosaveJudge, AutosaveWrite,
        AutosaveFails, OnLoaded, OnCreated, OnSaved, OnAutosaved, OnCorrupt, OnError, Crash, Restart
    <3>2. app = "leaving" /\ ~consent /\ ~Saving /\ UNCHANGED disk
      BY <3>1 DEF Exit, ExitReady, stores, history
    <3>3. memory = baseline
      BY <3>2 DEF KeptInv, LeavingOK
    <3>. QED BY <3>2, <3>3, SavedIsHeld
  <2>2. CASE switch = Off /\ switch' # Off /\ dialog = NoDialog
    <3>1. Requests
      BY <2>2 DEF ShowNext, ui, stores, tasks, history, bounds, Operator, SaveTask,
        SwitchTasks, AutosaveTask, DrainEvents, Edit, Save, SaveAs, Quit, PromptCancel,
        SaveToOriginal, DialogCancel, SaveBuild, SaveWrite, SaveRename, SaveReport, SaveFails,
        SwitchLoad, SwitchApply, SwitchBackup, SwitchReport, AutosaveStart, AutosaveBuild,
        AutosaveJudge, AutosaveWrite, AutosaveFails, OnLoaded, OnCreated, OnSaved, OnAutosaved,
        OnCorrupt, OnError, Exit, Crash, Restart, Off, Requests
    <3>2. ASSUME NEW action, AskOrSwitch(action)
          PROVE  memory = Empty \/ \E f \in Files : disk'[f] = memory
      <4>1. memory = baseline /\ ~SaveUnderWay /\ UNCHANGED disk
        BY <2>2, <3>2, PatientWaits DEF AskOrSwitch, HasUnsavedChanges, stores
      <4>. QED BY <4>1, SavedIsHeld, UnderWay
    <3>3. ~PromptDiscard
      BY DEF PromptDiscard
    <3>4. ASSUME NEW f \in Files, PromptSave(f) PROVE disk'[f] = memory
      BY <3>4 DEF PromptSave, TypeInv, StoreTypes
    <3>5. ~\E kind \in {"copy", "backup"}, f \in Files, i \in 1..Keep : Recover(Copy(kind, f, i))
      BY <2>2 DEF Recover
    <3>. QED BY <3>1, <3>2, <3>3, <3>4, <3>5 DEF Requests, New, Open
  <2>. QED BY <2>1, <2>2 DEF Replaces
<1>. QED BY <1>1, <1>2, <1>3, PTL DEF ShowSpec, LeaveKeeps
=============================================================================
