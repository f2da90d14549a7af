------------------------------- MODULE CueList -------------------------------
(***************************************************************************)
(* The cue list and its playhead (src/console/cue_manager.rs), and the ways*)
(* a press reaches a recall: the transport's tasks                         *)
(* (src/ui/cue_transport.rs) and the loop that handles OSC and MIDI        *)
(* triggers one after the other (src/console/trigger_dispatch.rs).  Either *)
(* way the playhead moves under the manager's lock, and the recall claims  *)
(* its epoch later, in a task of its own; the newest epoch owns the desk   *)
(* (module RecallEngine).                                                  *)
(*                                                                         *)
(* The playhead is a position, counted from 1 here; 0 is no current cue.   *)
(***************************************************************************)
EXTENDS Integers, Sequences, FiniteSets, SequencesExt

CONSTANTS
  CueIds, CueNumbers,
  NoCue,
  StartLists,   \* what the list may be at first
  ShowLists,    \* the lists an Open or a New may bring
  MaxPresses, MaxListEdits   \* bounds

Cue == [id : CueIds, number : CueNumbers]
Ascending(list) == \A i, j \in DOMAIN list : i < j => list[i].number <= list[j].number
Distinct(list) == \A i, j \in DOMAIN list : list[i].id = list[j].id => i = j
CueLists == {list \in Seq(Cue) : Ascending(list) /\ Distinct(list)}

ASSUME CueAssumption ==
  /\ CueNumbers \subseteq Int /\ NoCue \notin CueIds
  /\ StartLists \subseteq CueLists /\ ShowLists \subseteq CueLists
  /\ MaxPresses \in Nat /\ MaxListEdits \in Nat

VARIABLES
  cueList,    \* CueManager::cue_list
  cueAt,      \* current_cue_index
  cueTasks,   \* transport tasks that wait for the manager's lock
  cueTriggers,\* trigger events not yet handled, in order
  cueRecalls, \* cues picked, whose recalls have yet to claim an epoch
  cueOwner,   \* the cue whose recall claimed the newest epoch
  cuePresses, cueEdits,
  cueMade,    \* history: the cue last made current by a press
  cueShifted, \* history: an edit since has changed the list up to the playhead
  cuePicked   \* history: the cue last picked for a recall

cueVars == <<cueList, cueAt, cueTasks, cueTriggers, cueRecalls, cueOwner, cuePresses, cueEdits,
             cueMade, cueShifted, cuePicked>>

CueInit == /\ cueList \in StartLists /\ cueAt = 0
           /\ cueTasks = {} /\ cueTriggers = <<>> /\ cueRecalls = {}
           /\ cueOwner = NoCue /\ cuePresses = 0 /\ cueEdits = 0
           /\ cueMade = NoCue /\ cueShifted = FALSE /\ cuePicked = NoCue

-----------------------------------------------------------------------------
(* Where a press takes the playhead: a position, or 0 when it does nothing *)

IndexOf(list, id) == IF \E i \in DOMAIN list : list[i].id = id
                     THEN CHOOSE i \in DOMAIN list : list[i].id = id
                     ELSE 0

GoNext == IF cueAt < Len(cueList) THEN cueAt + 1 ELSE 0

\* A playhead past the end of the list comes back to its last cue.
GoPrevious == IF cueAt <= 1 THEN 0
              ELSE IF cueAt - 1 <= Len(cueList) THEN cueAt - 1 ELSE Len(cueList)

FirstNumbered(n, i) == cueList[i].number = n /\ \A j \in 1..(i - 1) : cueList[j].number # n
FireNumber(n) == IF \E i \in DOMAIN cueList : FirstNumbered(n, i)
                 THEN CHOOSE i \in DOMAIN cueList : FirstNumbered(n, i)
                 ELSE 0

Target(op) == CASE op.kind \in {"next", "skip"} -> GoNext
                [] op.kind = "previous" -> GoPrevious
                [] op.kind = "number" -> FireNumber(op.of)
                [] op.kind \in {"fire", "set"} -> IndexOf(cueList, op.of)

Buttons == [kind : {"next", "previous", "skip"}, of : {NoCue}] \cup
           [kind : {"fire", "set"}, of : CueIds]
TriggerEvents == [kind : {"next", "previous"}, of : {NoCue}] \cup
                 [kind : {"number"}, of : CueNumbers]

\* The press moves the playhead; all but skip and set go on to a recall of
\* the cue as it is now.
Pick(op) ==
  IF Target(op) = 0
  THEN UNCHANGED <<cueAt, cueRecalls, cueMade, cueShifted, cuePicked>>
  ELSE LET cue == cueList[Target(op)].id
           recalls == op.kind \notin {"skip", "set"}
       IN /\ cueAt' = Target(op) /\ cueMade' = cue /\ cueShifted' = FALSE
          /\ cueRecalls' = IF recalls THEN cueRecalls \cup {[no |-> op.no, cue |-> cue]}
                           ELSE cueRecalls
          /\ cuePicked' = IF recalls THEN cue ELSE cuePicked

-----------------------------------------------------------------------------
(* Presses                                                                 *)

Settled == cueTasks = {} /\ cueTriggers = <<>> /\ cueRecalls = {}
Numbered(op) == [no |-> cuePresses, kind |-> op.kind, of |-> op.of]

PressButton(op) == /\ cuePresses < MaxPresses
                   /\ cueTasks' = cueTasks \cup {Numbered(op)}
                   /\ cuePresses' = cuePresses + 1
                   /\ UNCHANGED <<cueList, cueAt, cueTriggers, cueRecalls, cueOwner, cueEdits,
                                  cueMade, cueShifted, cuePicked>>

ReceiveTrigger(op) == /\ cuePresses < MaxPresses
                      /\ cueTriggers' = Append(cueTriggers, Numbered(op))
                      /\ cuePresses' = cuePresses + 1
                      /\ UNCHANGED <<cueList, cueAt, cueTasks, cueRecalls, cueOwner, cueEdits,
                                     cueMade, cueShifted, cuePicked>>

\* fire_go, fire_prev, fire_skip, fire_cue_by_id, set_current_cue
TaskPicks(op) == /\ op \in cueTasks
                 /\ Pick(op)
                 /\ cueTasks' = cueTasks \ {op}
                 /\ UNCHANGED <<cueList, cueTriggers, cueOwner, cuePresses, cueEdits>>

\* recall_cue_with_label
TriggerPicks == /\ cueTriggers # <<>>
                /\ Pick(Head(cueTriggers))
                /\ cueTriggers' = Tail(cueTriggers)
                /\ UNCHANGED <<cueList, cueTasks, cueOwner, cuePresses, cueEdits>>

\* Palettes cloned, the task gets to recall_cue.
ClaimEpoch(job) == /\ job \in cueRecalls
                   /\ cueRecalls' = cueRecalls \ {job}
                   /\ cueOwner' = job.cue
                   /\ UNCHANGED <<cueList, cueAt, cueTasks, cueTriggers, cuePresses, cueEdits,
                                  cueMade, cueShifted, cuePicked>>

-----------------------------------------------------------------------------
(* Edits                                                                   *)

\* sort_by is stable.
Rank(list, i) == Cardinality({j \in DOMAIN list :
                                \/ list[j].number < list[i].number
                                \/ list[j].number = list[i].number /\ j <= i})
SortedByNumber(list) == [r \in DOMAIN list |->
                           list[CHOOSE i \in DOMAIN list : Rank(list, i) = r]]

WithCue(list, id, n) == SortedByNumber(Append(list, [id |-> id, number |-> n]))
\* retain: of the cues at most one has the id.
WithoutCue(list, id) == RemoveAt(list, IndexOf(list, id))
Renumbered(list, id, n) ==
  SortedByNumber([list EXCEPT ![IndexOf(list, id)] = [id |-> id, number |-> n]])

\* remove_cue brings a playhead past the end back to the last cue.
AfterRemovalKept(list) == cueAt
AfterRemovalFirst(list) == 0
AfterRemoval(list) == IF cueAt > Len(list) THEN Len(list) ELSE cueAt

Shifts(list) == \/ cueAt > Len(list)
                \/ \E i \in 1..cueAt : list[i].id # cueList[i].id

ListEdit(list, at) == /\ cueEdits < MaxListEdits
                      /\ cueEdits' = cueEdits + 1
                      /\ cueShifted' = (cueShifted \/ Shifts(list))
                      /\ cueList' = list /\ cueAt' = at
                      /\ UNCHANGED <<cueTasks, cueTriggers, cueRecalls, cueOwner, cuePresses,
                                     cueMade, cuePicked>>

AddCue(id, n) == IndexOf(cueList, id) = 0 /\ ListEdit(WithCue(cueList, id, n), cueAt)

RemoveCue(id) == /\ IndexOf(cueList, id) # 0
                 /\ ListEdit(WithoutCue(cueList, id), AfterRemoval(WithoutCue(cueList, id)))

UpdateCue(id, n) == /\ IndexOf(cueList, id) # 0
                    /\ ListEdit(Renumbered(cueList, id, n), cueAt)

\* New, Open: the playhead belongs to the old list.
ReplaceCueList == /\ cueEdits < MaxListEdits
                  /\ cueList' \in ShowLists /\ cueAt' = 0
                  /\ cueMade' = NoCue /\ cueShifted' = FALSE
                  /\ cueEdits' = cueEdits + 1
                  /\ UNCHANGED <<cueTasks, cueTriggers, cueRecalls, cueOwner, cuePresses, cuePicked>>

-----------------------------------------------------------------------------
CueProgress == (\E op \in cueTasks : TaskPicks(op)) \/ TriggerPicks
               \/ \E job \in cueRecalls : ClaimEpoch(job)

CueNext == \/ \E op \in Buttons : PressButton(op)
           \/ \E op \in TriggerEvents : ReceiveTrigger(op)
           \/ CueProgress
           \/ \E id \in CueIds, n \in CueNumbers : AddCue(id, n) \/ UpdateCue(id, n)
           \/ \E id \in CueIds : RemoveCue(id)
           \/ ReplaceCueList

CueSpec == CueInit /\ [][CueNext]_cueVars

-----------------------------------------------------------------------------
(* Properties                                                              *)

\* Every variable has its type, the list is in order and free of doubles,
\* and the playhead is within it, whatever was removed or replaced.
CueTypeOK ==
  /\ cueList \in Seq(Cue) /\ Ascending(cueList) /\ Distinct(cueList)
  /\ cueAt \in 0..Len(cueList)
  /\ cueRecalls \subseteq [no : 0..MaxPresses, cue : CueIds]
  /\ cueShifted \in BOOLEAN /\ {cueOwner, cueMade, cuePicked} \subseteq CueIds \cup {NoCue}
  /\ cuePresses \in 0..MaxPresses /\ cueEdits \in 0..MaxListEdits

Nexts == \/ \E op \in cueTasks : op.kind = "next" /\ TaskPicks(op)
         \/ TriggerPicks /\ Head(cueTriggers).kind = "next"
TakesUpAfterLast == cueAt' = IndexOf(cueList, cueMade) + 1

\* GO takes up after the cue that the last press made current, whichever way
\* it came and however many others are on their way, also when the list has
\* been edited further down: none is skipped, none fired twice.
GoFollows == [][Nexts /\ cueAt' # cueAt /\ ~cueShifted /\ cueMade # NoCue
                  => TakesUpAfterLast]_cueVars

\* The playhead stays on its cue wherever an edit takes that cue: the next GO
\* fires the one that follows it (src/ui/cue_transport.rs).
GoFollowsEdits == [][Nexts /\ cueAt' # cueAt /\ IndexOf(cueList, cueMade) # 0
                       => TakesUpAfterLast]_cueVars

\* Once every press has had its way the desk belongs to the cue that was
\* picked last ("latest cue wins", src/console/trigger_dispatch.rs).
LatestCueOwns == Settled => cueOwner = cuePicked
=============================================================================
