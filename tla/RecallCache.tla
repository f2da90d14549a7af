---------------------------- MODULE RecallCache -----------------------------
(***************************************************************************)
(* The look-ahead recall cache (src/console/recall_cache.rs) between the   *)
(* editors of the show, who bump its generation, the precompute loop, who  *)
(* fills it, and the recalls, who read it.                                 *)
(*                                                                         *)
(* What a recall resolves to is a function of the snapshot, the scope and  *)
(* the palettes, so a resolution is represented by their versions: a       *)
(* snapshot's rev counts its changes, stamp is its modified_at.  The scope *)
(* of a recall is held by the cue that overrides it or by the snapshot;    *)
(* the cache knows it by its id only.                                      *)
(***************************************************************************)
EXTENDS Integers, Sequences, FiniteSets

CONSTANTS
  Presses,        \* recalls: each is issued at most once
  Snapshots,
  NCues,          \* the cue list, in order, is 1 .. NCues
  SnapOf,         \* [Cues -> Snapshots]
  Overriding,     \* the cues with a scope_override
  ScopeId,        \* [Snapshots \cup Overriding -> ids]: the id of the scope they hold
  AutoSaved,      \* the snapshots that auto_update_on_recall may write to
  MaxEdits        \* bound: edits of the show and free moves of the playhead

Cues == 1 .. NCues
Lookahead == 2
Holders == Snapshots \cup Overriding
SnapOfHolder(h) == IF h \in Overriding THEN SnapOf[h] ELSE h
HolderOf(c) == IF c \in Overriding THEN c ELSE SnapOf[c]
Key(h) == <<SnapOfHolder(h), ScopeId[h]>>

ASSUME CuesAssumption == /\ NCues \in Nat /\ SnapOf \in [Cues -> Snapshots]
                         /\ Overriding \subseteq Cues
                         /\ Snapshots \cap Cues = {}
ASSUME BoundAssumption == MaxEdits \in Nat /\ AutoSaved \subseteq Snapshots

VARIABLES
  \* CueManager, behind its lock
  rev, stamp,  \* [Snapshots -> Nat]: changes so far; modified_at
  ver,         \* [Holders -> Nat]: changes of a cue's override
  playhead,    \* current_cue_index, 0 for none
  cueWriter,   \* an editor holds the write lock and has yet to bump
  \* PaletteManager, behind its lock
  pals,        \* changes of the palettes so far
  palWriter,   \* what the holder of the write lock has yet to do
  deleting,    \* a palette is out of the snapshots but not yet removed
  \* RecallCache
  generation, entries,
  \* run_precompute_loop and precompute_pass
  loop, seen, last, computedAt, targets, pool,
  \* the recalls
  pc, want, wantPals,
  served,      \* the entry get_valid returned, {} for none
  torn,        \* history: get_valid ran while a palette was being deleted
  \* bounds and history
  edits,
  jumped       \* history: the playhead moved other than to the next cue

cueData == <<rev, stamp, ver, playhead>>
palData == <<pals, palWriter, deleting>>
cache == <<generation, entries>>
looper == <<loop, seen, last, computedAt, targets, pool>>
presses == <<pc, want, wantPals, served, torn>>
vars == <<cueData, cueWriter, palData, cache, looper, presses, edits, jumped>>

NextCue == IF playhead < NCues THEN playhead + 1 ELSE 0
NotSeen == [gen |-> 0, next |-> 0]
Nobody == [holder |-> 0, rev |-> 0, ver |-> 0, stamp |-> 0]
\* What a clone of the snapshot and the scope of h holds.
Read(h) == [holder |-> h, rev |-> rev[SnapOfHolder(h)], ver |-> ver[h],
            stamp |-> stamp[SnapOfHolder(h)]]

Init ==
  /\ rev = [s \in Snapshots |-> 0] /\ stamp = [s \in Snapshots |-> 0]
  /\ ver = [h \in Holders |-> 0] /\ playhead = 0 /\ cueWriter = "none"
  /\ pals = 0 /\ palWriter = "none" /\ deleting = "no"
  /\ generation = 0 /\ entries = {}
  /\ loop = "asleep" /\ seen = NotSeen /\ last = [gen |-> -1, next |-> 0]
  /\ computedAt = 0 /\ targets = {} /\ pool = 0
  /\ pc = [p \in Presses |-> "idle"] /\ want = [p \in Presses |-> Nobody]
  /\ wantPals = [p \in Presses |-> 0] /\ served = [p \in Presses |-> {}]
  /\ torn = [p \in Presses |-> FALSE]
  /\ edits = 0 /\ jumped = FALSE

-----------------------------------------------------------------------------
(* Editors.  A change under the cue lock is followed by its bump before    *)
(* the lock is released; readers of the generation do not take the lock.   *)
Edit == /\ edits < MaxEdits /\ edits' = edits + 1
CueEdit == Edit /\ cueWriter = "none"
PalEdit == Edit /\ palWriter = "none"

\* update_snapshot, update_snapshot_scope, rename_snapshot
UpdateSnapshot(s) ==
  /\ CueEdit /\ cueWriter' = "bump"
  /\ rev' = [rev EXCEPT ![s] = @ + 1] /\ stamp' = [stamp EXCEPT ![s] = @ + 1]
  /\ UNCHANGED <<ver, playhead, palData, cache, looper, presses, jumped>>

\* link_palette and unlink_palette write palette_refs and leave modified_at.
LinkPalette(s) ==
  /\ CueEdit /\ cueWriter' = "bump"
  /\ rev' = [rev EXCEPT ![s] = @ + 1]
  /\ UNCHANGED <<stamp, ver, playhead, palData, cache, looper, presses, jumped>>

\* update_cue with another body of the override
UpdateCue(c) ==
  /\ CueEdit /\ cueWriter' = "bump"
  /\ ver' = [ver EXCEPT ![c] = @ + 1]
  /\ UNCHANGED <<rev, stamp, playhead, palData, cache, looper, presses, jumped>>

CueBump ==
  /\ cueWriter = "bump" /\ cueWriter' = "none"
  /\ generation' = generation + 1
  /\ UNCHANGED <<cueData, palData, entries, looper, presses, edits, jumped>>

\* auto_save_previous_snapshot: a new modified_at and no bump.
\* Mutant: modified_at is not renewed.
AutoSaveUnstamped(s) ==
  /\ CueEdit
  /\ rev' = [rev EXCEPT ![s] = @ + 1]
  /\ UNCHANGED <<stamp, ver, playhead, cueWriter, palData, cache, looper, presses, jumped>>
AutoSave(s) ==
  /\ CueEdit
  /\ rev' = [rev EXCEPT ![s] = @ + 1] /\ stamp' = [stamp EXCEPT ![s] = @ + 1]
  /\ UNCHANGED <<ver, playhead, cueWriter, palData, cache, looper, presses, jumped>>

\* get_palette_mut bumps before its caller writes.
Touch ==
  /\ PalEdit /\ palWriter' = "write" /\ generation' = generation + 1
  /\ UNCHANGED <<cueData, cueWriter, pals, deleting, entries, looper, presses, jumped>>
TouchWrite ==
  /\ palWriter = "write" /\ palWriter' = "none" /\ pals' = pals + 1
  /\ UNCHANGED <<cueData, cueWriter, deleting, cache, looper, presses, edits, jumped>>

\* add_palette, store_all_changes, apply_show: the change, then the bump
Store ==
  /\ PalEdit /\ palWriter' = "bump" /\ pals' = pals + 1
  /\ UNCHANGED <<cueData, cueWriter, deleting, cache, looper, presses, jumped>>
PalBump ==
  /\ palWriter \in {"bump", "bump removal"} /\ palWriter' = "none"
  /\ deleting' = IF palWriter = "bump removal" THEN "no" ELSE deleting
  /\ generation' = generation + 1
  /\ UNCHANGED <<cueData, cueWriter, pals, entries, looper, presses, edits, jumped>>

\* delete_palette: out of the snapshots under the cue lock, with no bump, then
\* out of the palettes under theirs.
DropRefs(S) ==
  /\ CueEdit /\ deleting = "no" /\ deleting' = "half"
  /\ rev' = [s \in Snapshots |-> IF s \in S THEN rev[s] + 1 ELSE rev[s]]
  /\ UNCHANGED <<stamp, ver, playhead, cueWriter, pals, palWriter, cache, looper, presses, jumped>>
RemovePalette ==
  /\ deleting = "half" /\ palWriter = "none" /\ palWriter' = "bump removal" /\ pals' = pals + 1
  /\ UNCHANGED <<cueData, cueWriter, deleting, cache, looper, presses, edits, jumped>>

\* skip_next: nothing at the end of the list.  Mutant: the end is not checked.
SkipNextUnchecked ==
  /\ CueEdit /\ playhead' = playhead + 1
  /\ UNCHANGED <<rev, stamp, ver, cueWriter, palData, cache, looper, presses, jumped>>
SkipNext ==
  /\ CueEdit /\ playhead < NCues /\ playhead' = playhead + 1
  /\ UNCHANGED <<rev, stamp, ver, cueWriter, palData, cache, looper, presses, jumped>>

\* set_current_cue_id
SetCurrentCue(c) ==
  /\ CueEdit /\ playhead' = c /\ jumped' = (jumped \/ c # playhead + 1)
  /\ UNCHANGED <<rev, stamp, ver, cueWriter, palData, cache, looper, presses>>

-----------------------------------------------------------------------------
(* The precompute loop.  It may wake at any moment: by a bump, a poke or   *)
(* its tick.                                                               *)
Wake ==
  /\ loop = "asleep" /\ loop' = "woken"
  /\ seen' = [gen |-> generation, next |-> 0]
  /\ UNCHANGED <<cueData, cueWriter, palData, cache, last, computedAt, targets, pool, presses, edits, jumped>>

\* next_cue, and the comparison with last_computed.
\* Mutant: only the cue is compared.
PeekCueOnly ==
  /\ loop = "woken" /\ cueWriter = "none"
  /\ LET now == [gen |-> seen.gen, next |-> NextCue]
         known == last.gen # -1 /\ now.next = last.next
     IN  /\ loop' = IF known THEN "asleep" ELSE "pass"
         /\ seen' = IF known THEN NotSeen ELSE now
  /\ UNCHANGED <<cueData, cueWriter, palData, cache, last, computedAt, targets, pool, presses, edits, jumped>>
Peek ==
  /\ loop = "woken" /\ cueWriter = "none"
  /\ LET now == [gen |-> seen.gen, next |-> NextCue]
     IN  /\ loop' = IF now = last THEN "asleep" ELSE "pass"
         /\ seen' = IF now = last THEN NotSeen ELSE now
  /\ UNCHANGED <<cueData, cueWriter, palData, cache, last, computedAt, targets, pool, presses, edits, jumped>>

ReadGeneration ==
  /\ loop = "pass" /\ loop' = "reading" /\ computedAt' = generation
  /\ UNCHANGED <<cueData, cueWriter, palData, cache, seen, last, targets, pool, presses, edits, jumped>>

\* upcoming_cues, the effective scope and the snapshot's own scope of each; of
\* two with the same key the first is taken.
Upcoming == LET n == IF playhead + Lookahead <= NCues THEN Lookahead ELSE NCues - playhead
            IN  [i \in 1 .. 2 * n |-> LET c == playhead + (i + 1) \div 2
                                      IN  IF i % 2 = 1 THEN HolderOf(c) ELSE SnapOf[c]]
FirstOfKey(q) == {q[i] : i \in {i \in DOMAIN q : \A j \in 1 .. i - 1 : Key(q[j]) # Key(q[i])}}
ReadTargets ==
  /\ loop = "reading" /\ cueWriter = "none" /\ loop' = "resolving"
  /\ targets' = {Read(h) : h \in FirstOfKey(Upcoming)}
  /\ UNCHANGED <<cueData, cueWriter, palData, cache, seen, last, computedAt, pool, presses, edits, jumped>>

ClonePalettes ==
  /\ loop = "resolving" /\ palWriter = "none" /\ loop' = "installing"
  /\ pool' = pals
  /\ UNCHANGED <<cueData, cueWriter, palData, cache, seen, last, computedAt, targets, presses, edits, jumped>>

\* resolve_for_cache and replace_all.  Mutant: entries carry the generation of
\* the moment they are installed.
Entry(t, g) == [holder |-> t.holder, rev |-> t.rev, ver |-> t.ver, stamp |-> t.stamp,
                gen |-> g, pals |-> pool]
InstallStampedLate ==
  /\ loop = "installing" /\ loop' = "asleep" /\ last' = seen
  /\ entries' = {Entry(t, generation) : t \in targets}
  /\ targets' = {} /\ pool' = 0 /\ computedAt' = 0 /\ seen' = NotSeen
  /\ UNCHANGED <<cueData, cueWriter, palData, generation, presses, edits, jumped>>
Install ==
  /\ loop = "installing" /\ loop' = "asleep" /\ last' = seen
  /\ entries' = IF generation = computedAt THEN {Entry(t, computedAt) : t \in targets}
                                           ELSE entries
  /\ targets' = {} /\ pool' = 0 /\ computedAt' = 0 /\ seen' = NotSeen
  /\ UNCHANGED <<cueData, cueWriter, palData, generation, presses, edits, jumped>>

-----------------------------------------------------------------------------
(* Recalls: the cue or snapshot is cloned under the cue lock, then the     *)
(* palettes under theirs; the cache is asked once the gate is reached.     *)
Press(p, h) ==
  /\ pc[p] = "idle" /\ cueWriter = "none"
  /\ pc' = [pc EXCEPT ![p] = "cloned"] /\ want' = [want EXCEPT ![p] = Read(h)]

\* go_next, then fire_go or recall_cue_with_label
Go(p) ==
  /\ playhead < NCues /\ playhead' = playhead + 1
  /\ Press(p, HolderOf(playhead'))
  /\ UNCHANGED <<rev, stamp, ver, cueWriter, palData, cache, looper, wantPals, served, torn, edits, jumped>>

\* go_previous, fire_cue_id and fire_cue_number
FireCue(p, c) ==
  /\ playhead' = c /\ jumped' = (jumped \/ c # playhead + 1)
  /\ Press(p, HolderOf(c))
  /\ UNCHANGED <<rev, stamp, ver, cueWriter, palData, cache, looper, wantPals, served, torn, edits>>

\* TriggerEvent::SnapshotRecall: the snapshot's own scope
RecallSnapshot(p, s) ==
  /\ Press(p, s)
  /\ UNCHANGED <<cueData, cueWriter, palData, cache, looper, wantPals, served, torn, edits, jumped>>

TakePalettes(p) ==
  /\ pc[p] = "cloned" /\ palWriter = "none"
  /\ pc' = [pc EXCEPT ![p] = "ready"] /\ wantPals' = [wantPals EXCEPT ![p] = pals]
  /\ UNCHANGED <<cueData, cueWriter, palData, cache, looper, want, served, torn, edits, jumped>>

\* get_valid
Valid(w) == {e \in entries : /\ Key(e.holder) = Key(w.holder)
                             /\ e.gen = generation /\ e.stamp = w.stamp}
Serve(p) ==
  /\ pc[p] = "ready" /\ pc' = [pc EXCEPT ![p] = "served"]
  /\ served' = [served EXCEPT ![p] = Valid(want[p])]
  /\ torn' = [torn EXCEPT ![p] = (deleting = "half")]
  /\ UNCHANGED <<cueData, cueWriter, palData, cache, looper, want, wantPals, edits, jumped>>

Editors ==
  \/ \E s \in Snapshots : UpdateSnapshot(s) \/ LinkPalette(s)
  \/ \E c \in Overriding : UpdateCue(c)
  \/ \E s \in AutoSaved : AutoSave(s)
  \/ \E S \in SUBSET Snapshots : S # {} /\ DropRefs(S)
  \/ Touch \/ Store \/ SkipNext
  \/ \E c \in Cues : SetCurrentCue(c)
Finish == CueBump \/ TouchWrite \/ PalBump \/ RemovePalette
Precompute == Wake \/ Peek \/ ReadGeneration \/ ReadTargets \/ ClonePalettes \/ Install
Recalling(p) ==
  \/ Go(p) \/ (\E c \in Cues : FireCue(p, c)) \/ (\E s \in Snapshots : RecallSnapshot(p, s))
  \/ TakePalettes(p) \/ Serve(p)

Next == Editors \/ Finish \/ Precompute \/ \E p \in Presses : Recalling(p)
Spec == Init /\ [][Next]_vars
FairSpec == Spec /\ WF_vars(Finish) /\ WF_vars(Precompute)

-----------------------------------------------------------------------------
Copy == [holder : Holders, rev : Nat, ver : Nat, stamp : Nat]
Resolution == [holder : Holders, rev : Nat, ver : Nat, stamp : Nat, gen : Nat, pals : Nat]
CueTypeOK ==
  /\ rev \in [Snapshots -> Nat] /\ stamp \in [Snapshots -> Nat] /\ ver \in [Holders -> Nat]
  /\ playhead \in 0 .. NCues /\ cueWriter \in {"none", "bump"}
  /\ edits \in 0 .. MaxEdits /\ jumped \in BOOLEAN
CacheTypeOK ==
  /\ pals \in Nat /\ palWriter \in {"none", "write", "bump", "bump removal"}
  /\ deleting \in {"no", "half"} /\ generation \in Nat /\ entries \subseteq Resolution
LoopTypeOK ==
  /\ loop \in {"asleep", "woken", "pass", "reading", "resolving", "installing"}
  /\ seen \in [gen : Nat, next : 0 .. NCues]
  /\ last \in [gen : Nat \cup {-1}, next : 0 .. NCues]
  /\ computedAt \in Nat /\ targets \subseteq Copy /\ pool \in Nat
PressTypeOK ==
  /\ pc \in [Presses -> {"idle", "cloned", "ready", "served"}]
  /\ want \in [Presses -> Copy \cup {Nobody}] /\ wantPals \in [Presses -> Nat]
  /\ served \in [Presses -> SUBSET Resolution] /\ torn \in [Presses -> BOOLEAN]
TypeOK == CueTypeOK /\ CacheTypeOK /\ LoopTypeOK /\ PressTypeOK

\* No two scopes held for one snapshot share an id.
Distinct == \A g, h \in Holders : Key(g) = Key(h) => g = h

(* What the cache serves is never older than what the recall itself has    *)
(* read: the same scope, and the snapshot, the scope and the palettes as   *)
(* new as its own clones or newer, unless a palette is half deleted.  The  *)
(* hazard: the generation is read without a lock, the inputs under two     *)
(* locks one after the other, and edits bump before or after they write.   *)
NeverOlder ==
  \A p \in Presses : ~torn[p] => \A e \in served[p] :
    /\ e.holder = want[p].holder
    /\ e.rev >= want[p].rev /\ e.ver >= want[p].ver /\ e.pals >= wantPals[p]

(* Once the show is left alone the next cue becomes warm and stays so: the *)
(* cache holds an entry of the current generation for the recall GO would  *)
(* make, in the current revision unless auto-save writes to that snapshot. *)
(* Only a playhead that jumps may leave it cold: one that comes back to    *)
(* the cue the loop has compared is not recomputed.                        *)
Warm ==
  NextCue # 0 => LET h == HolderOf(NextCue)
                 IN  \E e \in entries :
                       /\ Key(e.holder) = Key(h) /\ e.gen = generation
                       /\ e.stamp = stamp[SnapOfHolder(h)] \/ SnapOfHolder(h) \in AutoSaved
Warms == <>[](jumped \/ Warm)

(* The fast path's promise, "identical output either way": with no edits   *)
(* at all, what the cache serves is what the recall would have resolved.   *)
HitAsMiss ==
  \A p \in Presses : \A e \in served[p] :
    /\ e.holder = want[p].holder /\ e.rev = want[p].rev
    /\ e.ver = want[p].ver /\ e.pals = wantPals[p]
=============================================================================
