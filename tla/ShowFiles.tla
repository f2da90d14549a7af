------------------------------ MODULE ShowFiles ------------------------------
(***************************************************************************)
(* How a show reaches the disk and comes back: Save and Save As            *)
(* (src/ui/setup_tab.rs save_show_file), the save of the unsaved-changes   *)
(* prompt, Open and New, the autosave and its recovery (src/ui/app.rs,     *)
(* src/persistence/backup.rs), the replacement of a file in three steps    *)
(* (src/persistence/atomic_write.rs), and quitting.  Saves, the autosave   *)
(* and a switch of shows are tasks that run beside the UI thread and tell  *)
(* it their outcome through a queue; a crash may come between any two      *)
(* steps.                                                                  *)
(*                                                                         *)
(* A show has Parts, each behind a lock of its own (the cue manager, the   *)
(* gangs, ...), which tasks read and replace one at a time.  The content   *)
(* of a part is the show it belongs to and a revision that edits raise; a  *)
(* fingerprint is the content itself.                                      *)
(***************************************************************************)
EXTENDS Integers, Sequences

CONSTANTS
  Files,       \* paths the operator uses
  Parts,
  Order,       \* the parts, in the order tasks go through them
  Slots,       \* saves that may be under way at once
  Stored,      \* what the files may hold when the app first starts
  OldCopies,   \* and the safety copies beside them
  Untitled,    \* the empty path
  NoContent,   \* no file; an autosave task that has read nothing
  Corrupt,     \* a truncated file
  Keep,        \* KEEP_AUTOSAVES, KEEP_BACKUPS
  Overlaps,    \* what the operator does not wait for, a subset of AllOverlaps
  MaxEdits, MaxPresses, MaxFaults, MaxSessions   \* bounds

AllOverlaps == {"save in save", "save in switch", "switch in save", "edit in switch", "switch in dialog"}
Shows == Files \cup {Untitled}
Content == [Parts -> [show : Shows, rev : 0..MaxEdits]]
Empty == [p \in Parts |-> [show |-> Untitled, rev |-> 0]]
Sessions == 1..MaxSessions
Series == Files \cup Sessions    \* untitled shows autosave into a series per run

ASSUME FilesAssumption ==
  /\ Order \in Seq(Parts) /\ Parts # {} /\ \A p \in Parts : \E i \in DOMAIN Order : Order[i] = p
  /\ Stored \subseteq [Files -> Content \cup {NoContent, Corrupt}]
  /\ OldCopies \in [Files -> Seq(Content)]
  /\ Untitled \notin Files /\ {NoContent, Corrupt} \cap Content = {} /\ NoContent # Corrupt
  /\ Files \cap Sessions = {} /\ Overlaps \subseteq AllOverlaps
  /\ Keep \in Nat \ {0} /\ {MaxEdits, MaxPresses, MaxFaults} \subseteq Nat /\ MaxSessions \in Nat \ {0}

VARIABLES
  app,        \* "up", "leaving" (on_exit), "down"
  session,    \* the run of the app
  memory,     \* the managers
  showPath,   \* SetupTabState::show_file_path
  baseline,   \* saved_fingerprint
  lastAuto,   \* last_autosaved_fingerprint
  prompt,     \* unsaved_prompt
  dialog,     \* recovery_dialog: the file that did not load
  disk,       \* the show files
  copies,     \* the autosaves of each series, newest first
  backups,    \* the copies made on load, newest first
  saves,      \* the save tasks
  auto,       \* the autosave task
  switch,     \* the task of an Open or a New
  uiQueue,    \* UiEvents not yet drained
  edits, presses, faults,
  consent,    \* history: the operator let the show in memory go
  claims      \* history: the shows each file was named for

showVars == <<app, session, memory, showPath, baseline, lastAuto, prompt, dialog, disk, copies,
              backups, saves, auto, switch, uiQueue, edits, presses, faults, consent, claims>>
ui == <<showPath, baseline, lastAuto, prompt, dialog>>
stores == <<disk, copies, backups>>
tasks == <<saves, auto, switch>>
history == <<consent, claims>>
bounds == <<edits, presses, faults>>

Off == [pc |-> "off"]
NoPrompt == [after |-> "none"]
NoDialog == [path |-> Untitled, recovered |-> FALSE]
ToQuit == [after |-> "quit"]
ToNew == [after |-> "new"]
ToOpen(from, to) == [after |-> "open", from |-> from, to |-> to]
File(f) == [kind |-> "file", file |-> f]
Copy(kind, f, i) == [kind |-> kind, file |-> f, at |-> i]

Whole(c) == \A p, q \in Parts : c[p].show = c[q].show

(* What an earlier run of the app left: whole shows, no more copies than   *)
(* are kept.  A revision counts the edits since then.                      *)
Untouched(c) == Whole(c) /\ \A p \in Parts : c[p].rev = 0
ASSUME FreshAssumption ==
  /\ \A d \in Stored, f \in Files : d[f] \in Content => Untouched(d[f])
  /\ \A f \in Files : /\ Len(OldCopies[f]) <= Keep
                      /\ \A i \in DOMAIN OldCopies[f] : Untouched(OldCopies[f][i])

SeriesOf(path) == IF path = Untitled THEN session ELSE path
AtPath(path) == IF path = Untitled THEN NoContent ELSE disk[path]

(* show_switch::in_progress: until the UI has applied the outcome and      *)
(* dropped the guard that comes with it.                                   *)
InProgress == switch # Off \/ \E i \in DOMAIN uiQueue : uiQueue[i].kind \in {"loaded", "created", "corrupt"}
Saving == \E s \in Slots : saves[s] # Off
SaveUnderWay == Saving \/ \E i \in DOMAIN uiQueue : uiQueue[i].kind \in {"saved", "error"}

(* The operator waits for one file operation before the next. *)
May(overlap, busy) == overlap \in Overlaps \/ ~busy
MaySave == May("save in switch", InProgress) /\ May("save in save", SaveUnderWay)
MaySwitch == ~InProgress /\ May("switch in save", SaveUnderWay)
Free == app = "up" /\ prompt = NoPrompt   \* the prompt is modal
Press == presses < MaxPresses /\ presses' = presses + 1
Send(events) == uiQueue' = uiQueue \o events

-----------------------------------------------------------------------------
(* The operator. *)

Edit(p) ==
  /\ Free /\ edits < MaxEdits /\ May("edit in switch", InProgress)
  /\ memory' = [memory EXCEPT ![p].rev = @ + 1]
  /\ edits' = edits + 1
  /\ UNCHANGED <<app, session, ui, stores, tasks, uiQueue, presses, faults, history>>

HasUnsavedOfFile == baseline # memory /\ showPath # Untitled  \* Mutant: an untitled show goes unasked
HasUnsavedChanges == baseline # memory

(* save_show_file: a task builds the show and writes it to target. *)
StartSave(target) ==
  \E s \in Slots :
    /\ saves[s] = Off
    /\ saves' = [saves EXCEPT ![s] =
         [pc |-> "build", target |-> target, part |-> 1, content |-> Empty]]

(* Save; with no path yet, and with Save As, the operator names one. *)
Save(target) ==
  /\ Free /\ MaySave /\ Press
  /\ target = showPath
  /\ StartSave(target)
  /\ UNCHANGED <<app, session, memory, ui, stores, auto, switch, uiQueue, edits, faults, history>>

SaveAs(target) ==
  /\ Free /\ MaySave /\ Press
  /\ target # showPath
  /\ StartSave(target)
  /\ claims' = [claims EXCEPT ![target] = @ \cup {memory[p].show : p \in Parts}]
  /\ UNCHANGED <<app, session, memory, ui, stores, auto, switch, uiQueue, edits, faults, consent>>

(* load_show_file, new_show: show_switch::begin on the UI thread (an       *)
(* autosave that is reading sees the epoch move), then a task.  New        *)
(* forgets the path at once; the path of an Open comes with its outcome.   *)
SwitchTask(action) ==
  IF action.after = "new"
  THEN [pc |-> "apply", from |-> NoContent, to |-> Untitled, part |-> 1, content |-> Empty]
  ELSE [pc |-> "load", from |-> action.from, to |-> action.to, part |-> 1, content |-> Empty]

EpochStays == UNCHANGED auto                \* Mutant: the autosave does not notice
EpochMoves == auto' = IF auto = Off THEN auto ELSE [auto EXCEPT !.moved = TRUE]

PathAfterFirst(action, path) ==             \* Mutant: the path moves before the load
  IF action.after = "new" THEN Untitled ELSE action.to
PathAfter(action, path) == IF action.after = "new" THEN Untitled ELSE path
BeginSwitch(action, path) ==
  /\ switch' = SwitchTask(action) /\ EpochMoves
  /\ showPath' = PathAfter(action, path)

(* Open and New ask first when something would be lost. *)
AskOrSwitch(action) ==
  /\ Free /\ MaySwitch /\ May("switch in dialog", dialog # NoDialog) /\ Press
  /\ IF HasUnsavedChanges
     THEN prompt' = action /\ UNCHANGED <<switch, auto, showPath>>
     ELSE BeginSwitch(action, showPath) /\ UNCHANGED prompt
  /\ consent' = FALSE
  /\ UNCHANGED <<app, session, memory, baseline, lastAuto, dialog, stores, saves, uiQueue,
                 edits, faults, claims>>

Open(f) == disk[f] # NoContent /\ AskOrSwitch(ToOpen(File(f), f))
New == AskOrSwitch(ToNew)

(* The window is closed.  The question of a live console link is left out. *)
Quit ==
  /\ Free /\ Press
  /\ IF HasUnsavedChanges
     THEN prompt' = ToQuit /\ UNCHANGED app
     ELSE app' = "leaving" /\ UNCHANGED prompt
  /\ consent' = FALSE
  /\ UNCHANGED <<session, memory, showPath, baseline, lastAuto, dialog, stores, tasks, uiQueue,
                 edits, faults, claims>>

Claimed(target) == [claims EXCEPT ![target] = @ \cup {memory[p].show : p \in Parts}]

(* continue_after_prompt, with the path the show has by then *)
Continue(path) ==
  /\ prompt' = NoPrompt
  /\ IF prompt = ToQuit
     THEN app' = "leaving" /\ showPath' = path /\ UNCHANGED <<switch, auto>>
     ELSE MaySwitch /\ BeginSwitch(prompt, path) /\ UNCHANGED app

Asked == app = "up" /\ prompt # NoPrompt
PromptCancel ==
  /\ Asked /\ prompt' = NoPrompt
  /\ UNCHANGED <<app, session, memory, showPath, baseline, lastAuto, dialog, stores, tasks, uiQueue, bounds, history>>

PromptDiscard ==
  /\ Asked /\ Continue(showPath)
  /\ consent' = TRUE
  /\ UNCHANGED <<session, memory, baseline, lastAuto, dialog, stores, saves, uiQueue, bounds, claims>>

(* save_blocking holds the UI thread from the reading of the show to the   *)
(* rename: of the file it replaces the others see one step.  A save that   *)
(* fails leaves the prompt up.                                             *)
PromptSave(target) ==
  /\ Asked /\ MaySave /\ (showPath # Untitled => target = showPath)
  /\ disk' = [disk EXCEPT ![target] = memory]
  /\ baseline' = memory
  /\ Continue(target)
  /\ claims' = IF showPath = Untitled THEN Claimed(target) ELSE claims
  /\ UNCHANGED <<session, memory, lastAuto, dialog, copies, backups, saves, uiQueue, bounds, consent>>

(* draw_recovery_dialog: load a safety copy in place of the file, save     *)
(* what was recovered there, or give up.  The dialog is not modal.         *)
Recover(from) ==
  /\ Free /\ dialog # NoDialog /\ from.file = dialog.path /\ MaySwitch
  /\ from.at <= Len(IF from.kind = "copy" THEN copies[from.file] ELSE backups[from.file])
  /\ BeginSwitch(ToOpen(from, dialog.path), showPath)
  /\ consent' = FALSE
  /\ UNCHANGED <<app, session, memory, baseline, lastAuto, prompt, dialog, stores, saves, uiQueue,
                 bounds, claims>>

SaveToOriginal ==
  /\ Free /\ dialog.recovered /\ MaySave
  /\ StartSave(dialog.path)
  /\ dialog' = NoDialog
  /\ UNCHANGED <<app, session, memory, showPath, baseline, lastAuto, prompt, stores, auto, switch,
                 uiQueue, bounds, history>>

DialogCancel ==
  /\ Free /\ dialog # NoDialog /\ dialog' = NoDialog
  /\ UNCHANGED <<app, session, memory, showPath, baseline, lastAuto, prompt, stores, tasks, uiQueue,
                 bounds, history>>

-----------------------------------------------------------------------------
(* write_atomically: a temporary file beside the target, synced, renamed   *)
(* over it.  Either half may fail; the target is whole throughout.         *)

Fault == faults < MaxFaults /\ faults' = faults + 1
NoFault == UNCHANGED faults

(* A save's task reads the parts one at a time, writes, renames, reports.  *)
SaveBuild(s) ==
  /\ app # "down" /\ saves[s].pc = "build"
  /\ LET t == saves[s]  p == Order[t.part] IN
     saves' = [saves EXCEPT ![s] = [t EXCEPT !.content[p] = memory[p], !.part = @ + 1,
                 !.pc = IF t.part = Len(Order) THEN "write" ELSE "build"]]
  /\ UNCHANGED <<app, session, memory, ui, stores, auto, switch, uiQueue, bounds, history>>

SaveWrite(s) ==
  /\ app # "down" /\ saves[s].pc = "write"
  /\ saves' = [saves EXCEPT ![s].pc = "rename"]
  /\ UNCHANGED <<app, session, memory, ui, stores, auto, switch, uiQueue, bounds, history>>

SaveRename(s) ==
  /\ app # "down" /\ saves[s].pc = "rename"
  /\ disk' = [disk EXCEPT ![saves[s].target] = saves[s].content]
  /\ saves' = [saves EXCEPT ![s].pc = "report"]
  /\ UNCHANGED <<app, session, memory, ui, copies, backups, auto, switch, uiQueue, bounds, history>>

SaveFails(s) ==
  /\ app # "down" /\ saves[s].pc \in {"write", "rename"} /\ Fault
  /\ saves' = [saves EXCEPT ![s] = Off]
  /\ Send(<<[kind |-> "error"]>>)
  /\ UNCHANGED <<app, session, memory, ui, stores, auto, switch, edits, presses, history>>

SaveReport(s) ==
  /\ app # "down" /\ saves[s].pc = "report"
  /\ saves' = [saves EXCEPT ![s] = Off]
  /\ Send(<<[kind |-> "saved", path |-> saves[s].target, content |-> saves[s].content]>>)
  /\ UNCHANGED <<app, session, memory, ui, stores, auto, switch, bounds, history>>

-----------------------------------------------------------------------------
(* The switch's task. *)

Read(from) ==
  CASE from.kind = "file" -> disk[from.file]
    [] from.kind = "copy" -> copies[from.file][from.at]
    [] from.kind = "backup" -> backups[from.file][from.at]

SwitchLoad ==
  /\ app = "up" /\ switch.pc = "load"
  /\ LET c == Read(switch.from) IN
     IF c = Corrupt
     THEN /\ switch' = Off
          /\ Send(<<[kind |-> "corrupt", path |-> switch.to]>>)
          /\ UNCHANGED claims
     ELSE /\ switch' = [switch EXCEPT !.pc = "apply", !.content = c]
          /\ claims' = [claims EXCEPT ![switch.to] = @ \cup {c[p].show : p \in Parts}]
          /\ UNCHANGED uiQueue
  /\ UNCHANGED <<app, session, memory, ui, stores, saves, auto, bounds, consent>>

(* apply_show *)
SwitchApply ==
  /\ app = "up" /\ switch.pc = "apply"
  /\ LET p == Order[switch.part] IN
     /\ memory' = [memory EXCEPT ![p] = switch.content[p]]
     /\ switch' = [switch EXCEPT !.part = @ + 1,
          !.pc = IF switch.part < Len(Order) THEN "apply"
                 ELSE IF switch.from # NoContent /\ switch.from.kind = "file" THEN "backup"
                 ELSE "report"]
  /\ UNCHANGED <<app, session, ui, stores, saves, auto, uiQueue, bounds, history>>

NewestOfAll(c, series) == <<c>> \o series   \* Mutant: old copies are never removed
Newest(c, series) == SubSeq(<<c>> \o series, 1, IF Len(series) < Keep THEN Len(series) + 1 ELSE Keep)

(* Backup on load: the file is read again, copied and the series pruned;   *)
(* whatever fails is logged.                                               *)
SwitchBackup ==
  /\ app = "up" /\ switch.pc = "backup"
  /\ \/ NoFault /\ backups' = [backups EXCEPT ![switch.to] = Newest(disk[switch.to], @)]
     \/ Fault /\ UNCHANGED backups
  /\ switch' = [switch EXCEPT !.pc = "report"]
  /\ UNCHANGED <<app, session, memory, ui, disk, copies, saves, auto, uiQueue, edits, presses, history>>

SwitchReport ==
  /\ app = "up" /\ switch.pc = "report"
  /\ Send(<<IF switch.to = Untitled THEN [kind |-> "created"]
            ELSE [kind |-> "loaded", path |-> switch.to, recovered |-> switch.from.kind # "file"]>>)
  /\ switch' = Off
  /\ UNCHANGED <<app, session, memory, ui, stores, saves, auto, bounds, history>>

-----------------------------------------------------------------------------
(* maybe_autosave.  The wait for a quiet desk, for an end of the recall    *)
(* under way and for AUTOSAVE_INTERVAL is a step taken at some time, by    *)
(* when the outcome of the last one has long been drained.                 *)
AutosaveStart ==
  /\ app = "up" /\ dialog = NoDialog /\ auto = Off /\ ~InProgress
  /\ \A i \in DOMAIN uiQueue : uiQueue[i].kind # "autosaved"
  /\ auto' = [pc |-> "build", path |-> showPath, baseline |-> baseline, prev |-> lastAuto,
              part |-> 1, content |-> Empty, moved |-> FALSE]
  /\ UNCHANGED <<app, session, memory, ui, stores, saves, switch, uiQueue, bounds, history>>

AutosaveBuild ==
  /\ app # "down" /\ auto.pc = "build"
  /\ LET p == Order[auto.part] IN
     auto' = [auto EXCEPT !.content[p] = memory[p], !.part = @ + 1,
                          !.pc = IF auto.part = Len(Order) THEN "judge" ELSE "build"]
  /\ UNCHANGED <<app, session, memory, ui, stores, saves, switch, uiQueue, bounds, history>>

Completed(fingerprint) == Send(<<[kind |-> "autosaved", content |-> fingerprint]>>)

(* A switch began, nothing to protect, nothing new: nothing is written.    *)
AutosaveJudge ==
  /\ app # "down" /\ auto.pc = "judge"
  /\ IF auto.moved \/ (auto.path = Untitled /\ auto.baseline = auto.content)
     THEN auto' = Off /\ Completed(auto.prev)
     ELSE IF auto.content = auto.prev
     THEN auto' = Off /\ Completed(auto.content)
     ELSE auto' = [auto EXCEPT !.pc = "write"] /\ UNCHANGED uiQueue
  /\ UNCHANGED <<app, session, memory, ui, stores, saves, switch, bounds, history>>

(* write_and_rotate: a copy of a new name; the oldest of its series go.    *)
AutosaveWrite ==
  /\ app # "down" /\ auto.pc = "write"
  /\ copies' = [copies EXCEPT ![SeriesOf(auto.path)] = Newest(auto.content, @)]
  /\ auto' = Off /\ Completed(auto.content)
  /\ UNCHANGED <<app, session, memory, ui, disk, backups, saves, switch, bounds, history>>

FailedAsWritten == auto.content             \* Mutant: a failed autosave is not tried again
FailedAs == auto.prev
AutosaveFails ==
  /\ app # "down" /\ auto.pc = "write" /\ Fault
  /\ auto' = Off /\ Completed(FailedAs)
  /\ UNCHANGED <<app, session, memory, ui, stores, saves, switch, edits, presses, history>>

-----------------------------------------------------------------------------
(* drain_events, one outcome at a time. *)

Event == Head(uiQueue)
Drain(kind) == app = "up" /\ uiQueue # <<>> /\ Event.kind = kind /\ uiQueue' = Tail(uiQueue)

Recovered(event) == [dialog EXCEPT !.recovered = @ \/ dialog # NoDialog]

(* take_saved_baseline; a recovered show is saved nowhere: mark_unsaved.   *)
BaselineOfAny(event) == memory              \* Mutant: a recovered show counts as saved
BaselineOf(event) == IF event.recovered THEN NoContent ELSE memory
OnLoaded ==
  /\ Drain("loaded")
  /\ showPath' = Event.path
  /\ dialog' = Recovered(Event)
  /\ baseline' = BaselineOf(Event)
  /\ UNCHANGED <<app, session, memory, lastAuto, prompt, stores, tasks, bounds, history>>

OnCreated ==
  /\ Drain("created")
  /\ baseline' = memory
  /\ UNCHANGED <<app, session, memory, showPath, lastAuto, prompt, dialog, stores, tasks, bounds, history>>

OnSaved ==
  /\ Drain("saved")
  /\ showPath' = Event.path /\ baseline' = Event.content
  /\ UNCHANGED <<app, session, memory, lastAuto, prompt, dialog, stores, tasks, bounds, history>>

OnAutosaved ==
  /\ Drain("autosaved")
  /\ lastAuto' = Event.content
  /\ UNCHANGED <<app, session, memory, showPath, baseline, prompt, dialog, stores, tasks, bounds, history>>

OnCorrupt ==
  /\ Drain("corrupt")
  /\ dialog' = [path |-> Event.path, recovered |-> FALSE]
  /\ UNCHANGED <<app, session, memory, showPath, baseline, lastAuto, prompt, stores, tasks, bounds, history>>

OnError ==                                  \* ShowFileError: a line of text
  /\ Drain("error")
  /\ UNCHANGED <<app, session, memory, ui, stores, tasks, bounds, history>>

-----------------------------------------------------------------------------
(* on_exit waits for the saves and the autosave; a task that takes longer  *)
(* than its 10 s goes with the process, as in a crash.                     *)
ExitReady == ~Saving /\ auto = Off

Exit ==
  /\ app = "leaving" /\ ExitReady
  /\ app' = "down"
  /\ saves' = [s \in Slots |-> Off] /\ auto' = Off /\ switch' = Off
  /\ UNCHANGED <<session, memory, ui, stores, uiQueue, bounds, history>>

Crash ==
  /\ app # "down" /\ Fault
  /\ app' = "down" /\ consent' = TRUE
  /\ saves' = [s \in Slots |-> Off] /\ auto' = Off /\ switch' = Off
  /\ UNCHANGED <<session, memory, ui, stores, uiQueue, edits, presses, claims>>

Restart ==
  /\ app = "down" /\ session < MaxSessions
  /\ app' = "up" /\ session' = session + 1
  /\ memory' = Empty /\ showPath' = Untitled /\ baseline' = Empty /\ lastAuto' = NoContent
  /\ prompt' = NoPrompt /\ dialog' = NoDialog /\ uiQueue' = <<>> /\ consent' = FALSE
  /\ UNCHANGED <<stores, tasks, bounds, claims>>

ShowsOf(c) == IF c \in {NoContent, Corrupt} THEN {} ELSE {c[p].show : p \in Parts}

ShowInit ==
  /\ app = "up" /\ session = 1
  /\ memory = Empty /\ showPath = Untitled /\ baseline = Empty /\ lastAuto = NoContent
  /\ prompt = NoPrompt /\ dialog = NoDialog
  /\ disk \in Stored
  /\ copies = [x \in Series |-> IF x \in Files THEN OldCopies[x] ELSE <<>>]
  /\ backups = [f \in Files |-> <<>>]
  /\ saves = [s \in Slots |-> Off] /\ auto = Off /\ switch = Off
  /\ uiQueue = <<>>
  /\ edits = 0 /\ presses = 0 /\ faults = 0
  /\ consent = FALSE
  /\ claims = [f \in Files |-> ShowsOf(disk[f]) \cup UNION {ShowsOf(OldCopies[f][i]) : i \in DOMAIN OldCopies[f]}]

Operator ==
  \/ \E p \in Parts : Edit(p)
  \/ \E f \in Files : Save(f) \/ SaveAs(f) \/ Open(f) \/ PromptSave(f)
  \/ \E kind \in {"copy", "backup"}, f \in Files, i \in 1..Keep : Recover(Copy(kind, f, i))
  \/ New \/ Quit \/ PromptCancel \/ PromptDiscard \/ SaveToOriginal \/ DialogCancel

SaveTask(s) == SaveBuild(s) \/ SaveWrite(s) \/ SaveRename(s) \/ SaveReport(s)
SwitchTasks == SwitchLoad \/ SwitchApply \/ SwitchBackup \/ SwitchReport
AutosaveTask == AutosaveBuild \/ AutosaveJudge \/ AutosaveWrite
DrainEvents == OnLoaded \/ OnCreated \/ OnSaved \/ OnAutosaved \/ OnCorrupt \/ OnError

ShowNext ==
  \/ Operator
  \/ \E s \in Slots : SaveTask(s) \/ SaveFails(s)
  \/ SwitchTasks \/ AutosaveStart \/ AutosaveTask \/ AutosaveFails
  \/ DrainEvents \/ Exit \/ Crash \/ Restart

ShowSpec == ShowInit /\ [][ShowNext]_showVars

(* The tasks and the UI thread run on; the autosave's moment comes again   *)
(* and again.  The operator, faults and restarts are under no fairness.    *)
ShowFairSpec ==
  /\ ShowSpec
  /\ \A s \in Slots : WF_showVars(SaveTask(s))
  /\ WF_showVars(SwitchTasks) /\ WF_showVars(AutosaveTask) /\ WF_showVars(DrainEvents)
  /\ SF_showVars(AutosaveStart) /\ WF_showVars(Exit)

-----------------------------------------------------------------------------
(* Types, and: what a task reads is read part by part, in order. *)
ShowTypeOK ==
  /\ app \in {"up", "leaving", "down"} /\ session \in Sessions
  /\ memory \in Content /\ showPath \in Shows
  /\ baseline \in Content \cup {NoContent} /\ lastAuto \in Content \cup {NoContent}
  /\ prompt \in {NoPrompt, ToQuit, ToNew} \cup {ToOpen(File(f), f) : f \in Files}
  /\ dialog \in [path : Shows, recovered : BOOLEAN]
  /\ disk \in [Files -> Content \cup {NoContent, Corrupt}]
  /\ \A x \in Series : copies[x] \in Seq(Content) /\ Len(copies[x]) <= Keep
  /\ \A f \in Files : backups[f] \in Seq(Content) /\ Len(backups[f]) <= Keep
  /\ consent \in BOOLEAN /\ claims \in [Files -> SUBSET Shows]

(* A show file holds one show, never a mixture, and only a show that was   *)
(* opened from that file, recovered for it, or given its name by the       *)
(* operator (audit M6: "the next Save overwrites that file with the wrong  *)
(* show").                                                                 *)
OwnFile ==
  \A f \in Files : disk[f] \notin {NoContent, Corrupt} =>
    Whole(disk[f]) /\ ShowsOf(disk[f]) \subseteq claims[f]

(* An autosave is one show, never half the old and half the new, and in    *)
(* the series of a file only a show of that file (show_switch).            *)
AutosaveWhole ==
  \A x \in Series : \A i \in DOMAIN copies[x] :
    /\ Whole(copies[x][i])
    /\ x \in Files => ShowsOf(copies[x][i]) \subseteq claims[x]

(* No file on disk, saved or autosaved, is a mixture of shows or another    *)
(* show's (save_project, the autosave under show_switch).                  *)
FilesWhole == OwnFile /\ AutosaveWhole

(* What counts as saved is on disk: "the show has unsaved changes when the *)
(* current one differs" from the fingerprint last saved, loaded or created *)
(* (app.rs), and a fresh show has nothing to lose.                         *)
SavedIsOnDisk ==
  app = "up" /\ ~InProgress /\ memory = baseline => memory = Empty \/ AtPath(showPath) = memory

(* The app stops, and a switch replaces the show, without consent, only    *)
(* when the disk holds it: whatever saves were under way have landed.      *)
Replaces == app' = "down" \/ (switch = Off /\ switch' # Off /\ dialog = NoDialog)
LeaveKeeps ==
  [][app # "down" /\ Replaces /\ ~consent' => memory = Empty \/ \E f \in Files : disk'[f] = memory]_showVars

(* Work does not stay in memory alone: unless the app goes down, the show  *)
(* is saved or autosaved in the end, also when a write fails (audit R9).   *)
(* While the recovery dialog is up there are no autosaves.                 *)
OnDisk ==
  \/ memory = Empty
  \/ \E f \in Files : disk[f] = memory
  \/ \E x \in Series : \E i \in DOMAIN copies[x] : copies[x][i] = memory
WorkReachesDisk == []<>(OnDisk \/ dialog # NoDialog \/ app # "up")
=============================================================================
