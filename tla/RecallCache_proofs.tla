------------------------- MODULE RecallCache_proofs -------------------------
(***************************************************************************)
(* The recall cache never serves anything older than what the recall has   *)
(* read itself, for every cue list, any number of recalls and edits, as    *)
(* long as no two scopes of a snapshot share an id.                        *)
(***************************************************************************)
EXTENDS RecallCache, TLAPS

\* Nothing carries a generation of the future.
GenOK == computedAt <= generation /\ \A e \in entries : e.gen <= generation

\* Between passes the loop holds nothing.
LoopOK == loop \in {"asleep", "woken", "pass", "reading"} => targets = {}

\* A recall's clone is of the past.
WantOK == \A p \in Presses : pc[p] # "idle" =>
            /\ want[p] \in Copy
            /\ want[p].rev <= rev[SnapOfHolder(want[p].holder)]
            /\ want[p].ver <= ver[want[p].holder]

\* A copy of the current generation and the current modified_at is current.
Fresh(c, g) ==
  /\ c.stamp <= stamp[SnapOfHolder(c.holder)]
  /\ /\ g = generation /\ cueWriter = "none" /\ deleting = "no"
     /\ c.stamp = stamp[SnapOfHolder(c.holder)]
     => c.rev = rev[SnapOfHolder(c.holder)] /\ c.ver = ver[c.holder]
FreshOK == /\ \A e \in entries : Fresh(e, e.gen)
           /\ \A t \in targets : Fresh(t, computedAt)

\* A copy of the current generation is no older than a recall's clone of the
\* same holder and modified_at.
NoOlder(c, g, p) ==
  /\ c.holder = want[p].holder /\ c.stamp = want[p].stamp
  /\ g = generation /\ deleting = "no"
  => c.rev >= want[p].rev /\ c.ver >= want[p].ver
NoOlderOK == \A p \in Presses : pc[p] # "idle" =>
               /\ \A e \in entries : NoOlder(e, e.gen, p)
               /\ \A t \in targets : NoOlder(t, computedAt, p)

\* The same of the palettes.  An editor that has bumped and not yet written
\* has outdated everything that exists.
HasPals(p) == pc[p] \in {"ready", "served"}
FreshPals(n, g) == g = generation =>
  /\ palWriter # "write"
  /\ palWriter = "none" => n = pals
  /\ \A p \in Presses : HasPals(p) => n >= wantPals[p]
PalsOK == /\ \A e \in entries : FreshPals(e.pals, e.gen)
          /\ loop = "installing" => FreshPals(pool, computedAt)
          /\ \A p \in Presses : HasPals(p) => wantPals[p] <= pals

ServedOK == \A p \in Presses : pc[p] # "served" => served[p] = {}

IInv == /\ TypeOK /\ GenOK /\ LoopOK /\ WantOK /\ FreshOK /\ NoOlderOK /\ PalsOK
        /\ ServedOK /\ NeverOlder

-----------------------------------------------------------------------------
\* Every cue has a holder, and every holder a snapshot.
LEMMA HolderFacts ==
  /\ Snapshots \subseteq Holders /\ Overriding \subseteq Holders
  /\ \A h \in Holders : SnapOfHolder(h) \in Snapshots
  /\ \A c \in Cues : HolderOf(c) \in Holders /\ SnapOf[c] \in Snapshots
BY CuesAssumption DEF Holders, SnapOfHolder, HolderOf, Cues

\* Every upcoming scope is held.
LEMMA UpcomingType == ASSUME TypeOK PROVE FirstOfKey(Upcoming) \subseteq Holders
<1>1. ASSUME NEW i \in DOMAIN Upcoming PROVE Upcoming[i] \in Holders
  <2> DEFINE n == IF playhead + Lookahead <= NCues THEN Lookahead ELSE NCues - playhead
             c == playhead + (i + 1) \div 2
  <2>1. n \in Nat /\ n <= 2 /\ playhead + n <= NCues
    BY CuesAssumption DEF TypeOK, CueTypeOK, Lookahead
  <2>2. i \in 1 .. 2 * n
    BY DEF Upcoming
  <2>3. (i + 1) \div 2 \in 1 .. n
    <3>1. n = 0 \/ n = 1 \/ n = 2
      BY <2>1
    <3>2. i \in {1, 2, 3, 4} /\ i <= 2 * n
      BY <2>1, <2>2
    <3> HIDE DEF n
    <3> QED
      BY <3>1, <3>2
  <2>4. c \in Cues
    <3>1. playhead \in Nat /\ NCues \in Nat
      BY CuesAssumption DEF TypeOK, CueTypeOK
    <3> HIDE DEF n
    <3> QED
      BY <2>1, <2>3, <3>1 DEF Cues
  <2>5. Upcoming[i] = IF i % 2 = 1 THEN HolderOf(c) ELSE SnapOf[c]
    BY <2>2 DEF Upcoming
  <2> QED
    BY <2>4, <2>5, HolderFacts
<1>2. QED
  BY <1>1 DEF FirstOfKey

\* Type correctness, part by part.
LEMMA CueTypeNext ==
  ASSUME TypeOK, [Next]_vars
  PROVE  CueTypeOK'
<1>1. ASSUME NEW s \in Snapshots, UpdateSnapshot(s) PROVE CueTypeOK'
  BY <1>1, HolderFacts, CuesAssumption, BoundAssumption DEF UpdateSnapshot, CueEdit, Edit, cueData, palData, cache, looper, presses, TypeOK, CueTypeOK
<1>2. ASSUME NEW s \in Snapshots, LinkPalette(s) PROVE CueTypeOK'
  BY <1>2, HolderFacts, CuesAssumption, BoundAssumption DEF LinkPalette, CueEdit, Edit, cueData, palData, cache, looper, presses, TypeOK, CueTypeOK
<1>3. ASSUME NEW c \in Overriding, UpdateCue(c) PROVE CueTypeOK'
  BY <1>3, HolderFacts, CuesAssumption, BoundAssumption DEF UpdateCue, CueEdit, Edit, cueData, palData, cache, looper, presses, TypeOK, CueTypeOK
<1>4. ASSUME NEW s \in AutoSaved, AutoSave(s) PROVE CueTypeOK'
  BY <1>4, HolderFacts, CuesAssumption, BoundAssumption DEF AutoSave, CueEdit, Edit, cueData, palData, cache, looper, presses, TypeOK, CueTypeOK
<1>5. ASSUME NEW S \in SUBSET Snapshots, DropRefs(S) PROVE CueTypeOK'
  BY <1>5, HolderFacts, CuesAssumption, BoundAssumption DEF DropRefs, CueEdit, Edit, cueData, palData, cache, looper, presses, TypeOK, CueTypeOK
<1>6. CASE Touch
  BY <1>6, HolderFacts, CuesAssumption, BoundAssumption DEF Touch, PalEdit, Edit, cueData, palData, cache, looper, presses, TypeOK, CueTypeOK
<1>7. CASE Store
  BY <1>7, HolderFacts, CuesAssumption, BoundAssumption DEF Store, PalEdit, Edit, cueData, palData, cache, looper, presses, TypeOK, CueTypeOK
<1>8. CASE SkipNext
  BY <1>8, HolderFacts, CuesAssumption, BoundAssumption DEF SkipNext, CueEdit, Edit, cueData, palData, cache, looper, presses, TypeOK, CueTypeOK
<1>9. ASSUME NEW c \in Cues, SetCurrentCue(c) PROVE CueTypeOK'
  <2>1. c \in 0 .. NCues /\ CueTypeOK
    BY CuesAssumption DEF Cues, TypeOK
  <2>2. playhead' = c /\ UNCHANGED <<rev, stamp, ver, cueWriter>>
    BY <1>9 DEF SetCurrentCue
  <2>3. jumped' \in BOOLEAN
    BY <1>9, Zenon DEF SetCurrentCue
  <2>4. edits' \in 0 .. MaxEdits
    BY <1>9, <2>1, BoundAssumption DEF SetCurrentCue, CueEdit, Edit, CueTypeOK
  <2> QED
    BY <2>1, <2>2, <2>3, <2>4 DEF CueTypeOK
<1>10. CASE CueBump
  BY <1>10, HolderFacts, CuesAssumption, BoundAssumption DEF CueBump, cueData, palData, cache, looper, presses, TypeOK, CueTypeOK
<1>11. CASE TouchWrite
  BY <1>11, HolderFacts, CuesAssumption, BoundAssumption DEF TouchWrite, cueData, palData, cache, looper, presses, TypeOK, CueTypeOK
<1>12. CASE PalBump
  BY <1>12, HolderFacts, CuesAssumption, BoundAssumption DEF PalBump, cueData, palData, cache, looper, presses, TypeOK, CueTypeOK
<1>13. CASE RemovePalette
  BY <1>13, HolderFacts, CuesAssumption, BoundAssumption DEF RemovePalette, cueData, palData, cache, looper, presses, TypeOK, CueTypeOK
<1>14. CASE Wake
  BY <1>14, HolderFacts, CuesAssumption, BoundAssumption DEF Wake, NotSeen, cueData, palData, cache, looper, presses, TypeOK, CueTypeOK
<1>15. CASE Peek
  BY <1>15, HolderFacts, CuesAssumption, BoundAssumption DEF Peek, NotSeen, NextCue, cueData, palData, cache, looper, presses, TypeOK, CueTypeOK
<1>16. CASE ReadGeneration
  BY <1>16, HolderFacts, CuesAssumption, BoundAssumption DEF ReadGeneration, cueData, palData, cache, looper, presses, TypeOK, CueTypeOK
<1>17. CASE ReadTargets
  BY <1>17, HolderFacts, CuesAssumption, BoundAssumption DEF ReadTargets, Read, cueData, palData, cache, looper, presses, TypeOK, CueTypeOK
<1>18. CASE ClonePalettes
  BY <1>18, HolderFacts, CuesAssumption, BoundAssumption DEF ClonePalettes, cueData, palData, cache, looper, presses, TypeOK, CueTypeOK
<1>19. CASE Install
  BY <1>19, HolderFacts, CuesAssumption, BoundAssumption DEF Install, Entry, NotSeen, cueData, palData, cache, looper, presses, TypeOK, CueTypeOK
<1>20. ASSUME NEW p \in Presses, Go(p) PROVE CueTypeOK'
  BY <1>20, HolderFacts, CuesAssumption, BoundAssumption DEF Go, Press, Read, cueData, palData, cache, looper, presses, TypeOK, CueTypeOK
<1>21. ASSUME NEW p \in Presses, NEW c \in Cues, FireCue(p, c) PROVE CueTypeOK'
  <2>1. c \in 0 .. NCues /\ CueTypeOK
    BY CuesAssumption DEF Cues, TypeOK
  <2>2. playhead' = c /\ UNCHANGED <<rev, stamp, ver, cueWriter>>
    BY <1>21 DEF FireCue
  <2>3. jumped' \in BOOLEAN
    BY <1>21, Zenon DEF FireCue
  <2>4. edits' \in 0 .. MaxEdits
    BY <1>21, <2>1, BoundAssumption DEF FireCue, Press, CueTypeOK
  <2> QED
    BY <2>1, <2>2, <2>3, <2>4 DEF CueTypeOK
<1>22. ASSUME NEW p \in Presses, NEW s \in Snapshots, RecallSnapshot(p, s) PROVE CueTypeOK'
  BY <1>22, HolderFacts, CuesAssumption, BoundAssumption DEF RecallSnapshot, Press, Read, cueData, palData, cache, looper, presses, TypeOK, CueTypeOK
<1>23. ASSUME NEW p \in Presses, TakePalettes(p) PROVE CueTypeOK'
  BY <1>23, HolderFacts, CuesAssumption, BoundAssumption DEF TakePalettes, cueData, palData, cache, looper, presses, TypeOK, CueTypeOK
<1>24. ASSUME NEW p \in Presses, Serve(p) PROVE CueTypeOK'
  BY <1>24, HolderFacts, CuesAssumption, BoundAssumption DEF Serve, Valid, cueData, palData, cache, looper, presses, TypeOK, CueTypeOK
<1>25. CASE UNCHANGED vars
  BY <1>25, HolderFacts, CuesAssumption, BoundAssumption DEF vars, cueData, palData, cache, looper, presses, TypeOK, CueTypeOK
<1>26. QED
  BY <1>1, <1>2, <1>3, <1>4, <1>5, <1>6, <1>7, <1>8, <1>9, <1>10, <1>11, <1>12, <1>13, <1>14, <1>15, <1>16, <1>17, <1>18, <1>19, <1>20, <1>21, <1>22, <1>23, <1>24, <1>25
  DEF Next, Editors, Finish, Precompute, Recalling

\* Every step keeps the types of the cache.
LEMMA CacheTypeNext ==
  ASSUME TypeOK, [Next]_vars
  PROVE  CacheTypeOK'
<1>1. ASSUME NEW s \in Snapshots, UpdateSnapshot(s) PROVE CacheTypeOK'
  BY <1>1 DEF UpdateSnapshot, CueEdit, Edit, cueData, palData, cache, looper, presses, TypeOK, CacheTypeOK
<1>2. ASSUME NEW s \in Snapshots, LinkPalette(s) PROVE CacheTypeOK'
  BY <1>2 DEF LinkPalette, CueEdit, Edit, cueData, palData, cache, looper, presses, TypeOK, CacheTypeOK
<1>3. ASSUME NEW c \in Overriding, UpdateCue(c) PROVE CacheTypeOK'
  BY <1>3 DEF UpdateCue, CueEdit, Edit, cueData, palData, cache, looper, presses, TypeOK, CacheTypeOK
<1>4. ASSUME NEW s \in AutoSaved, AutoSave(s) PROVE CacheTypeOK'
  BY <1>4 DEF AutoSave, CueEdit, Edit, cueData, palData, cache, looper, presses, TypeOK, CacheTypeOK
<1>5. ASSUME NEW S \in SUBSET Snapshots, DropRefs(S) PROVE CacheTypeOK'
  BY <1>5 DEF DropRefs, CueEdit, Edit, cueData, palData, cache, looper, presses, TypeOK, CacheTypeOK
<1>6. CASE Touch
  BY <1>6 DEF Touch, PalEdit, Edit, cueData, palData, cache, looper, presses, TypeOK, CacheTypeOK
<1>7. CASE Store
  BY <1>7 DEF Store, PalEdit, Edit, cueData, palData, cache, looper, presses, TypeOK, CacheTypeOK
<1>8. CASE SkipNext
  BY <1>8 DEF SkipNext, CueEdit, Edit, cueData, palData, cache, looper, presses, TypeOK, CacheTypeOK
<1>9. ASSUME NEW c \in Cues, SetCurrentCue(c) PROVE CacheTypeOK'
  BY <1>9 DEF SetCurrentCue, CueEdit, Edit, cueData, palData, cache, looper, presses, TypeOK, CacheTypeOK
<1>10. CASE CueBump
  <2>1. generation \in Nat
    BY DEF TypeOK, CacheTypeOK
  <2>2. generation' = generation + 1
    BY <1>10 DEF CueBump
  <2>3. generation' \in Nat
    BY <2>1, <2>2
  <2>4. CacheTypeOK /\ UNCHANGED <<pals, palWriter, deleting, entries>>
    BY <1>10 DEF TypeOK, CueBump, palData, cache
  <2> QED
    BY <2>3, <2>4 DEF CacheTypeOK
<1>11. CASE TouchWrite
  BY <1>11 DEF TouchWrite, cueData, palData, cache, looper, presses, TypeOK, CacheTypeOK
<1>12. CASE PalBump
  <2>1. generation \in Nat
    BY DEF TypeOK, CacheTypeOK
  <2>2. generation' = generation + 1
    BY <1>12 DEF PalBump
  <2>3. generation' \in Nat
    BY <2>1, <2>2
  <2>4. CacheTypeOK /\ deleting' \in {deleting, "no"} /\ palWriter' = "none" /\ UNCHANGED <<pals, entries>>
    BY <1>12 DEF TypeOK, PalBump, palData, cache
  <2> QED
    BY <2>3, <2>4 DEF CacheTypeOK
<1>13. CASE RemovePalette
  <2>1. pals \in Nat
    BY DEF TypeOK, CacheTypeOK
  <2>2. pals' = pals + 1
    BY <1>13 DEF RemovePalette
  <2>3. pals' \in Nat
    BY <2>1, <2>2
  <2>4. CacheTypeOK /\ palWriter' = "bump removal" /\ UNCHANGED <<deleting, generation, entries>>
    BY <1>13 DEF TypeOK, RemovePalette, palData, cache
  <2> QED
    BY <2>3, <2>4 DEF CacheTypeOK
<1>14. CASE Wake
  BY <1>14 DEF Wake, NotSeen, cueData, palData, cache, looper, presses, TypeOK, CacheTypeOK
<1>15. CASE Peek
  BY <1>15 DEF Peek, NotSeen, NextCue, cueData, palData, cache, looper, presses, TypeOK, CacheTypeOK
<1>16. CASE ReadGeneration
  BY <1>16 DEF ReadGeneration, cueData, palData, cache, looper, presses, TypeOK, CacheTypeOK
<1>17. CASE ReadTargets
  BY <1>17 DEF ReadTargets, Read, cueData, palData, cache, looper, presses, TypeOK, CacheTypeOK
<1>18. CASE ClonePalettes
  BY <1>18 DEF ClonePalettes, cueData, palData, cache, looper, presses, TypeOK, CacheTypeOK
<1>19. CASE Install
  <2>1. ASSUME NEW t \in targets PROVE Entry(t, computedAt) \in Resolution
    <3>1. t \in Copy /\ computedAt \in Nat /\ pool \in Nat
      BY DEF TypeOK, LoopTypeOK
    <3> QED
      BY <3>1 DEF Entry, Resolution, Copy
  <2>2. {Entry(t, computedAt) : t \in targets} \subseteq Resolution
    BY <2>1
  <2>3. CacheTypeOK /\ UNCHANGED <<pals, palWriter, deleting, generation>>
    BY <1>19 DEF Install, palData, TypeOK
  <2>4. entries' \subseteq Resolution
    BY <1>19, <2>2, <2>3 DEF Install, CacheTypeOK
  <2> QED
    BY <2>3, <2>4 DEF CacheTypeOK
<1>20. ASSUME NEW p \in Presses, Go(p) PROVE CacheTypeOK'
  BY <1>20 DEF Go, Press, Read, cueData, palData, cache, looper, presses, TypeOK, CacheTypeOK
<1>21. ASSUME NEW p \in Presses, NEW c \in Cues, FireCue(p, c) PROVE CacheTypeOK'
  BY <1>21 DEF FireCue, Press, Read, cueData, palData, cache, looper, presses, TypeOK, CacheTypeOK
<1>22. ASSUME NEW p \in Presses, NEW s \in Snapshots, RecallSnapshot(p, s) PROVE CacheTypeOK'
  BY <1>22 DEF RecallSnapshot, Press, Read, cueData, palData, cache, looper, presses, TypeOK, CacheTypeOK
<1>23. ASSUME NEW p \in Presses, TakePalettes(p) PROVE CacheTypeOK'
  BY <1>23 DEF TakePalettes, cueData, palData, cache, looper, presses, TypeOK, CacheTypeOK
<1>24. ASSUME NEW p \in Presses, Serve(p) PROVE CacheTypeOK'
  BY <1>24 DEF Serve, Valid, cueData, palData, cache, looper, presses, TypeOK, CacheTypeOK
<1>25. CASE UNCHANGED vars
  BY <1>25 DEF vars, cueData, palData, cache, looper, presses, TypeOK, CacheTypeOK
<1>26. QED
  BY <1>1, <1>2, <1>3, <1>4, <1>5, <1>6, <1>7, <1>8, <1>9, <1>10, <1>11, <1>12, <1>13, <1>14, <1>15, <1>16, <1>17, <1>18, <1>19, <1>20, <1>21, <1>22, <1>23, <1>24, <1>25
  DEF Next, Editors, Finish, Precompute, Recalling

\* Every step keeps the types of the precompute loop.
LEMMA LoopTypeNext ==
  ASSUME TypeOK, [Next]_vars
  PROVE  LoopTypeOK'
<1>1. ASSUME NEW s \in Snapshots, UpdateSnapshot(s) PROVE LoopTypeOK'
  BY <1>1 DEF UpdateSnapshot, CueEdit, Edit, cueData, palData, cache, looper, presses, TypeOK, LoopTypeOK
<1>2. ASSUME NEW s \in Snapshots, LinkPalette(s) PROVE LoopTypeOK'
  BY <1>2 DEF LinkPalette, CueEdit, Edit, cueData, palData, cache, looper, presses, TypeOK, LoopTypeOK
<1>3. ASSUME NEW c \in Overriding, UpdateCue(c) PROVE LoopTypeOK'
  BY <1>3 DEF UpdateCue, CueEdit, Edit, cueData, palData, cache, looper, presses, TypeOK, LoopTypeOK
<1>4. ASSUME NEW s \in AutoSaved, AutoSave(s) PROVE LoopTypeOK'
  BY <1>4 DEF AutoSave, CueEdit, Edit, cueData, palData, cache, looper, presses, TypeOK, LoopTypeOK
<1>5. ASSUME NEW S \in SUBSET Snapshots, DropRefs(S) PROVE LoopTypeOK'
  BY <1>5 DEF DropRefs, CueEdit, Edit, cueData, palData, cache, looper, presses, TypeOK, LoopTypeOK
<1>6. CASE Touch
  BY <1>6 DEF Touch, PalEdit, Edit, cueData, palData, cache, looper, presses, TypeOK, LoopTypeOK
<1>7. CASE Store
  BY <1>7 DEF Store, PalEdit, Edit, cueData, palData, cache, looper, presses, TypeOK, LoopTypeOK
<1>8. CASE SkipNext
  BY <1>8 DEF SkipNext, CueEdit, Edit, cueData, palData, cache, looper, presses, TypeOK, LoopTypeOK
<1>9. ASSUME NEW c \in Cues, SetCurrentCue(c) PROVE LoopTypeOK'
  BY <1>9 DEF SetCurrentCue, CueEdit, Edit, cueData, palData, cache, looper, presses, TypeOK, LoopTypeOK
<1>10. CASE CueBump
  BY <1>10 DEF CueBump, cueData, palData, cache, looper, presses, TypeOK, LoopTypeOK
<1>11. CASE TouchWrite
  BY <1>11 DEF TouchWrite, cueData, palData, cache, looper, presses, TypeOK, LoopTypeOK
<1>12. CASE PalBump
  BY <1>12 DEF PalBump, cueData, palData, cache, looper, presses, TypeOK, LoopTypeOK
<1>13. CASE RemovePalette
  BY <1>13 DEF RemovePalette, cueData, palData, cache, looper, presses, TypeOK, LoopTypeOK
<1>14. CASE Wake
  <2>1. generation \in Nat /\ NCues \in Nat
    BY CuesAssumption DEF TypeOK, CacheTypeOK
  <2>2. seen' \in [gen : Nat, next : 0 .. NCues]
    BY <1>14, <2>1 DEF Wake
  <2> QED
    BY <1>14, <2>2 DEF Wake, TypeOK, LoopTypeOK
<1>15. CASE Peek
  <2>1. NextCue \in 0 .. NCues
    BY CuesAssumption DEF NextCue, TypeOK, CueTypeOK
  <2>2. NotSeen \in [gen : Nat, next : 0 .. NCues]
    BY CuesAssumption DEF NotSeen
  <2>3. [gen |-> seen.gen, next |-> NextCue] \in [gen : Nat, next : 0 .. NCues]
    BY <2>1 DEF TypeOK, LoopTypeOK
  <2>4. seen' \in [gen : Nat, next : 0 .. NCues]
    BY <1>15, <2>2, <2>3 DEF Peek
  <2> QED
    BY <1>15, <2>4 DEF Peek, TypeOK, LoopTypeOK
<1>16. CASE ReadGeneration
  BY <1>16 DEF ReadGeneration, TypeOK, LoopTypeOK, CacheTypeOK
<1>17. CASE ReadTargets
  <2>1. \A h \in Holders : Read(h) \in Copy
    BY HolderFacts DEF Read, Copy, TypeOK, CueTypeOK
  <2> QED
    BY <1>17, <2>1, UpcomingType DEF ReadTargets, TypeOK, LoopTypeOK
<1>18. CASE ClonePalettes
  BY <1>18 DEF ClonePalettes, TypeOK, LoopTypeOK, CacheTypeOK
<1>19. CASE Install
  BY <1>19, CuesAssumption DEF Install, NotSeen, TypeOK, LoopTypeOK
<1>20. ASSUME NEW p \in Presses, Go(p) PROVE LoopTypeOK'
  BY <1>20 DEF Go, Press, Read, cueData, palData, cache, looper, presses, TypeOK, LoopTypeOK
<1>21. ASSUME NEW p \in Presses, NEW c \in Cues, FireCue(p, c) PROVE LoopTypeOK'
  BY <1>21 DEF FireCue, Press, Read, cueData, palData, cache, looper, presses, TypeOK, LoopTypeOK
<1>22. ASSUME NEW p \in Presses, NEW s \in Snapshots, RecallSnapshot(p, s) PROVE LoopTypeOK'
  BY <1>22 DEF RecallSnapshot, Press, Read, cueData, palData, cache, looper, presses, TypeOK, LoopTypeOK
<1>23. ASSUME NEW p \in Presses, TakePalettes(p) PROVE LoopTypeOK'
  BY <1>23 DEF TakePalettes, cueData, palData, cache, looper, presses, TypeOK, LoopTypeOK
<1>24. ASSUME NEW p \in Presses, Serve(p) PROVE LoopTypeOK'
  BY <1>24 DEF Serve, Valid, cueData, palData, cache, looper, presses, TypeOK, LoopTypeOK
<1>25. CASE UNCHANGED vars
  BY <1>25 DEF vars, cueData, palData, cache, looper, presses, TypeOK, LoopTypeOK
<1>26. QED
  BY <1>1, <1>2, <1>3, <1>4, <1>5, <1>6, <1>7, <1>8, <1>9, <1>10, <1>11, <1>12, <1>13, <1>14, <1>15, <1>16, <1>17, <1>18, <1>19, <1>20, <1>21, <1>22, <1>23, <1>24, <1>25
  DEF Next, Editors, Finish, Precompute, Recalling

\* Every step keeps the types of the presses.
LEMMA PressTypeNext ==
  ASSUME TypeOK, [Next]_vars
  PROVE  PressTypeOK'
<1>1. ASSUME NEW s \in Snapshots, UpdateSnapshot(s) PROVE PressTypeOK'
  BY <1>1 DEF UpdateSnapshot, CueEdit, Edit, cueData, palData, cache, looper, presses, TypeOK, PressTypeOK
<1>2. ASSUME NEW s \in Snapshots, LinkPalette(s) PROVE PressTypeOK'
  BY <1>2 DEF LinkPalette, CueEdit, Edit, cueData, palData, cache, looper, presses, TypeOK, PressTypeOK
<1>3. ASSUME NEW c \in Overriding, UpdateCue(c) PROVE PressTypeOK'
  BY <1>3 DEF UpdateCue, CueEdit, Edit, cueData, palData, cache, looper, presses, TypeOK, PressTypeOK
<1>4. ASSUME NEW s \in AutoSaved, AutoSave(s) PROVE PressTypeOK'
  BY <1>4 DEF AutoSave, CueEdit, Edit, cueData, palData, cache, looper, presses, TypeOK, PressTypeOK
<1>5. ASSUME NEW S \in SUBSET Snapshots, DropRefs(S) PROVE PressTypeOK'
  BY <1>5 DEF DropRefs, CueEdit, Edit, cueData, palData, cache, looper, presses, TypeOK, PressTypeOK
<1>6. CASE Touch
  BY <1>6 DEF Touch, PalEdit, Edit, cueData, palData, cache, looper, presses, TypeOK, PressTypeOK
<1>7. CASE Store
  BY <1>7 DEF Store, PalEdit, Edit, cueData, palData, cache, looper, presses, TypeOK, PressTypeOK
<1>8. CASE SkipNext
  BY <1>8 DEF SkipNext, CueEdit, Edit, cueData, palData, cache, looper, presses, TypeOK, PressTypeOK
<1>9. ASSUME NEW c \in Cues, SetCurrentCue(c) PROVE PressTypeOK'
  BY <1>9 DEF SetCurrentCue, CueEdit, Edit, cueData, palData, cache, looper, presses, TypeOK, PressTypeOK
<1>10. CASE CueBump
  BY <1>10 DEF CueBump, cueData, palData, cache, looper, presses, TypeOK, PressTypeOK
<1>11. CASE TouchWrite
  BY <1>11 DEF TouchWrite, cueData, palData, cache, looper, presses, TypeOK, PressTypeOK
<1>12. CASE PalBump
  BY <1>12 DEF PalBump, cueData, palData, cache, looper, presses, TypeOK, PressTypeOK
<1>13. CASE RemovePalette
  BY <1>13 DEF RemovePalette, cueData, palData, cache, looper, presses, TypeOK, PressTypeOK
<1>14. CASE Wake
  BY <1>14 DEF Wake, NotSeen, cueData, palData, cache, looper, presses, TypeOK, PressTypeOK
<1>15. CASE Peek
  BY <1>15 DEF Peek, NotSeen, NextCue, cueData, palData, cache, looper, presses, TypeOK, PressTypeOK
<1>16. CASE ReadGeneration
  BY <1>16 DEF ReadGeneration, cueData, palData, cache, looper, presses, TypeOK, PressTypeOK
<1>17. CASE ReadTargets
  BY <1>17 DEF ReadTargets, Read, cueData, palData, cache, looper, presses, TypeOK, PressTypeOK
<1>18. CASE ClonePalettes
  BY <1>18 DEF ClonePalettes, cueData, palData, cache, looper, presses, TypeOK, PressTypeOK
<1>19. CASE Install
  BY <1>19 DEF Install, Entry, NotSeen, cueData, palData, cache, looper, presses, TypeOK, PressTypeOK
<1>20. ASSUME NEW p \in Presses, Go(p) PROVE PressTypeOK'
  <2>1. HolderOf(playhead') \in Holders
    BY <1>20, HolderFacts, CuesAssumption DEF Go, TypeOK, CueTypeOK, Cues
  <2>2. Read(HolderOf(playhead')) \in Copy
    BY <2>1, HolderFacts DEF Read, Copy, TypeOK, CueTypeOK
  <2> QED
    BY <1>20, <2>2 DEF Go, Press, TypeOK, PressTypeOK
<1>21. ASSUME NEW p \in Presses, NEW c \in Cues, FireCue(p, c) PROVE PressTypeOK'
  <2>1. HolderOf(c) \in Holders
    BY <1>21, HolderFacts
  <2>2. Read(HolderOf(c)) \in Copy
    BY <2>1, HolderFacts DEF Read, Copy, TypeOK, CueTypeOK
  <2> QED
    BY <1>21, <2>2 DEF FireCue, Press, TypeOK, PressTypeOK
<1>22. ASSUME NEW p \in Presses, NEW s \in Snapshots, RecallSnapshot(p, s) PROVE PressTypeOK'
  <2>1. s \in Holders
    BY <1>22, HolderFacts
  <2>2. Read(s) \in Copy
    BY <2>1, HolderFacts DEF Read, Copy, TypeOK, CueTypeOK
  <2> QED
    BY <1>22, <2>2 DEF RecallSnapshot, Press, TypeOK, PressTypeOK
<1>23. ASSUME NEW p \in Presses, TakePalettes(p) PROVE PressTypeOK'
  BY <1>23 DEF TakePalettes, TypeOK, PressTypeOK, CacheTypeOK
<1>24. ASSUME NEW p \in Presses, Serve(p) PROVE PressTypeOK'
  BY <1>24 DEF Serve, Valid, TypeOK, PressTypeOK, CacheTypeOK
<1>25. CASE UNCHANGED vars
  BY <1>25 DEF vars, cueData, palData, cache, looper, presses, TypeOK, PressTypeOK
<1>26. QED
  BY <1>1, <1>2, <1>3, <1>4, <1>5, <1>6, <1>7, <1>8, <1>9, <1>10, <1>11, <1>12, <1>13, <1>14, <1>15, <1>16, <1>17, <1>18, <1>19, <1>20, <1>21, <1>22, <1>23, <1>24, <1>25
  DEF Next, Editors, Finish, Precompute, Recalling

\* Generations only grow.
LEMMA GenNext ==
  ASSUME TypeOK, GenOK, [Next]_vars
  PROVE  GenOK'
<1>1. ASSUME NEW s \in Snapshots, UpdateSnapshot(s) PROVE GenOK'
  BY <1>1 DEF UpdateSnapshot, CueEdit, Edit, cueData, palData, cache, looper, presses, GenOK
<1>2. ASSUME NEW s \in Snapshots, LinkPalette(s) PROVE GenOK'
  BY <1>2 DEF LinkPalette, CueEdit, Edit, cueData, palData, cache, looper, presses, GenOK
<1>3. ASSUME NEW c \in Overriding, UpdateCue(c) PROVE GenOK'
  BY <1>3 DEF UpdateCue, CueEdit, Edit, cueData, palData, cache, looper, presses, GenOK
<1>4. ASSUME NEW s \in AutoSaved, AutoSave(s) PROVE GenOK'
  BY <1>4 DEF AutoSave, CueEdit, Edit, cueData, palData, cache, looper, presses, GenOK
<1>5. ASSUME NEW S \in SUBSET Snapshots, DropRefs(S) PROVE GenOK'
  BY <1>5 DEF DropRefs, CueEdit, Edit, cueData, palData, cache, looper, presses, GenOK
<1>6. CASE Touch
  <2>1. generation \in Nat /\ generation' = generation + 1
    BY <1>6 DEF Touch, TypeOK, CacheTypeOK
  <2>2. computedAt \in Nat /\ \A e \in entries : e.gen \in Nat
    BY DEF TypeOK, CacheTypeOK, LoopTypeOK, Resolution
  <2>3. UNCHANGED <<computedAt, entries>>
    BY <1>6 DEF Touch, cache, looper
  <2> QED
    BY <2>1, <2>2, <2>3 DEF GenOK
<1>7. CASE Store
  BY <1>7 DEF Store, PalEdit, Edit, cueData, palData, cache, looper, presses, GenOK
<1>8. CASE SkipNext
  BY <1>8 DEF SkipNext, CueEdit, Edit, cueData, palData, cache, looper, presses, GenOK
<1>9. ASSUME NEW c \in Cues, SetCurrentCue(c) PROVE GenOK'
  BY <1>9 DEF SetCurrentCue, CueEdit, Edit, cueData, palData, cache, looper, presses, GenOK
<1>10. CASE CueBump
  <2>1. generation \in Nat /\ generation' = generation + 1
    BY <1>10 DEF CueBump, TypeOK, CacheTypeOK
  <2>2. computedAt \in Nat /\ \A e \in entries : e.gen \in Nat
    BY DEF TypeOK, CacheTypeOK, LoopTypeOK, Resolution
  <2>3. UNCHANGED <<computedAt, entries>>
    BY <1>10 DEF CueBump, cache, looper
  <2> QED
    BY <2>1, <2>2, <2>3 DEF GenOK
<1>11. CASE TouchWrite
  BY <1>11 DEF TouchWrite, cueData, palData, cache, looper, presses, GenOK
<1>12. CASE PalBump
  <2>1. generation \in Nat /\ generation' = generation + 1
    BY <1>12 DEF PalBump, TypeOK, CacheTypeOK
  <2>2. computedAt \in Nat /\ \A e \in entries : e.gen \in Nat
    BY DEF TypeOK, CacheTypeOK, LoopTypeOK, Resolution
  <2>3. UNCHANGED <<computedAt, entries>>
    BY <1>12 DEF PalBump, cache, looper
  <2> QED
    BY <2>1, <2>2, <2>3 DEF GenOK
<1>13. CASE RemovePalette
  BY <1>13 DEF RemovePalette, cueData, palData, cache, looper, presses, GenOK
<1>14. CASE Wake
  BY <1>14 DEF Wake, NotSeen, cueData, palData, cache, looper, presses, GenOK
<1>15. CASE Peek
  BY <1>15 DEF Peek, NotSeen, NextCue, cueData, palData, cache, looper, presses, GenOK
<1>16. CASE ReadGeneration
  <2>1. generation \in Nat
    BY DEF TypeOK, CacheTypeOK
  <2> QED
    BY <1>16, <2>1 DEF ReadGeneration, cache, GenOK
<1>17. CASE ReadTargets
  BY <1>17 DEF ReadTargets, Read, cueData, palData, cache, looper, presses, GenOK
<1>18. CASE ClonePalettes
  BY <1>18 DEF ClonePalettes, cueData, palData, cache, looper, presses, GenOK
<1>19. CASE Install
  <2>1. generation \in Nat
    BY DEF TypeOK, CacheTypeOK
  <2> QED
    BY <1>19, <2>1 DEF Install, Entry, GenOK
<1>20. ASSUME NEW p \in Presses, Go(p) PROVE GenOK'
  BY <1>20 DEF Go, Press, Read, cueData, palData, cache, looper, presses, GenOK
<1>21. ASSUME NEW p \in Presses, NEW c \in Cues, FireCue(p, c) PROVE GenOK'
  BY <1>21 DEF FireCue, Press, Read, cueData, palData, cache, looper, presses, GenOK
<1>22. ASSUME NEW p \in Presses, NEW s \in Snapshots, RecallSnapshot(p, s) PROVE GenOK'
  BY <1>22 DEF RecallSnapshot, Press, Read, cueData, palData, cache, looper, presses, GenOK
<1>23. ASSUME NEW p \in Presses, TakePalettes(p) PROVE GenOK'
  BY <1>23 DEF TakePalettes, cueData, palData, cache, looper, presses, GenOK
<1>24. ASSUME NEW p \in Presses, Serve(p) PROVE GenOK'
  BY <1>24 DEF Serve, Valid, cueData, palData, cache, looper, presses, GenOK
<1>25. CASE UNCHANGED vars
  BY <1>25 DEF vars, cueData, palData, cache, looper, presses, GenOK
<1>26. QED
  BY <1>1, <1>2, <1>3, <1>4, <1>5, <1>6, <1>7, <1>8, <1>9, <1>10, <1>11, <1>12, <1>13, <1>14, <1>15, <1>16, <1>17, <1>18, <1>19, <1>20, <1>21, <1>22, <1>23, <1>24, <1>25
  DEF Next, Editors, Finish, Precompute, Recalling

\* The loop has targets only while it resolves or installs them.
LEMMA LoopNext ==
  ASSUME LoopOK, [Next]_vars
  PROVE  LoopOK'
<1>1. ASSUME NEW s \in Snapshots, UpdateSnapshot(s) PROVE LoopOK'
  BY <1>1 DEF UpdateSnapshot, CueEdit, Edit, cueData, palData, cache, looper, presses, LoopOK
<1>2. ASSUME NEW s \in Snapshots, LinkPalette(s) PROVE LoopOK'
  BY <1>2 DEF LinkPalette, CueEdit, Edit, cueData, palData, cache, looper, presses, LoopOK
<1>3. ASSUME NEW c \in Overriding, UpdateCue(c) PROVE LoopOK'
  BY <1>3 DEF UpdateCue, CueEdit, Edit, cueData, palData, cache, looper, presses, LoopOK
<1>4. ASSUME NEW s \in AutoSaved, AutoSave(s) PROVE LoopOK'
  BY <1>4 DEF AutoSave, CueEdit, Edit, cueData, palData, cache, looper, presses, LoopOK
<1>5. ASSUME NEW S \in SUBSET Snapshots, DropRefs(S) PROVE LoopOK'
  BY <1>5 DEF DropRefs, CueEdit, Edit, cueData, palData, cache, looper, presses, LoopOK
<1>6. CASE Touch
  BY <1>6 DEF Touch, PalEdit, Edit, cueData, palData, cache, looper, presses, LoopOK
<1>7. CASE Store
  BY <1>7 DEF Store, PalEdit, Edit, cueData, palData, cache, looper, presses, LoopOK
<1>8. CASE SkipNext
  BY <1>8 DEF SkipNext, CueEdit, Edit, cueData, palData, cache, looper, presses, LoopOK
<1>9. ASSUME NEW c \in Cues, SetCurrentCue(c) PROVE LoopOK'
  BY <1>9 DEF SetCurrentCue, CueEdit, Edit, cueData, palData, cache, looper, presses, LoopOK
<1>10. CASE CueBump
  BY <1>10 DEF CueBump, cueData, palData, cache, looper, presses, LoopOK
<1>11. CASE TouchWrite
  BY <1>11 DEF TouchWrite, cueData, palData, cache, looper, presses, LoopOK
<1>12. CASE PalBump
  BY <1>12 DEF PalBump, cueData, palData, cache, looper, presses, LoopOK
<1>13. CASE RemovePalette
  BY <1>13 DEF RemovePalette, cueData, palData, cache, looper, presses, LoopOK
<1>14. CASE Wake
  BY <1>14 DEF Wake, NotSeen, cueData, palData, cache, looper, presses, LoopOK
<1>15. CASE Peek
  BY <1>15 DEF Peek, NotSeen, NextCue, cueData, palData, cache, looper, presses, LoopOK
<1>16. CASE ReadGeneration
  BY <1>16 DEF ReadGeneration, cueData, palData, cache, looper, presses, LoopOK
<1>17. CASE ReadTargets
  BY <1>17 DEF ReadTargets, Read, cueData, palData, cache, looper, presses, LoopOK
<1>18. CASE ClonePalettes
  BY <1>18 DEF ClonePalettes, cueData, palData, cache, looper, presses, LoopOK
<1>19. CASE Install
  BY <1>19 DEF Install, Entry, NotSeen, cueData, palData, cache, looper, presses, LoopOK
<1>20. ASSUME NEW p \in Presses, Go(p) PROVE LoopOK'
  BY <1>20 DEF Go, Press, Read, cueData, palData, cache, looper, presses, LoopOK
<1>21. ASSUME NEW p \in Presses, NEW c \in Cues, FireCue(p, c) PROVE LoopOK'
  BY <1>21 DEF FireCue, Press, Read, cueData, palData, cache, looper, presses, LoopOK
<1>22. ASSUME NEW p \in Presses, NEW s \in Snapshots, RecallSnapshot(p, s) PROVE LoopOK'
  BY <1>22 DEF RecallSnapshot, Press, Read, cueData, palData, cache, looper, presses, LoopOK
<1>23. ASSUME NEW p \in Presses, TakePalettes(p) PROVE LoopOK'
  BY <1>23 DEF TakePalettes, cueData, palData, cache, looper, presses, LoopOK
<1>24. ASSUME NEW p \in Presses, Serve(p) PROVE LoopOK'
  BY <1>24 DEF Serve, Valid, cueData, palData, cache, looper, presses, LoopOK
<1>25. CASE UNCHANGED vars
  BY <1>25 DEF vars, cueData, palData, cache, looper, presses, LoopOK
<1>26. QED
  BY <1>1, <1>2, <1>3, <1>4, <1>5, <1>6, <1>7, <1>8, <1>9, <1>10, <1>11, <1>12, <1>13, <1>14, <1>15, <1>16, <1>17, <1>18, <1>19, <1>20, <1>21, <1>22, <1>23, <1>24, <1>25
  DEF Next, Editors, Finish, Precompute, Recalling

\* Clones stay of the past while the show only moves on.
LEMMA WantKept ==
  ASSUME TypeOK, WantOK, pc' = pc, want' = want, CueTypeOK',
         \A s \in Snapshots : rev'[s] >= rev[s], \A h \in Holders : ver'[h] >= ver[h]
  PROVE  WantOK'
<1>1. ASSUME NEW p \in Presses, pc[p] # "idle"
      PROVE  /\ want[p].rev <= rev'[SnapOfHolder(want[p].holder)]
             /\ want[p].ver <= ver'[want[p].holder]
  <2>1. /\ want[p] \in Copy
        /\ want[p].rev <= rev[SnapOfHolder(want[p].holder)]
        /\ want[p].ver <= ver[want[p].holder]
    BY <1>1 DEF WantOK
  <2>2. /\ want[p].holder \in Holders /\ want[p].rev \in Nat /\ want[p].ver \in Nat
        /\ SnapOfHolder(want[p].holder) \in Snapshots
    BY <2>1, HolderFacts DEF Copy
  <2>3. /\ rev[SnapOfHolder(want[p].holder)] \in Nat /\ rev'[SnapOfHolder(want[p].holder)] \in Nat
        /\ ver[want[p].holder] \in Nat /\ ver'[want[p].holder] \in Nat
    BY <2>2 DEF TypeOK, CueTypeOK
  <2> QED
    BY <2>1, <2>2, <2>3
<1>2. QED
  BY <1>1 DEF WantOK

\* A press is the clone of one recall.
LEMMA PressFacts ==
  ASSUME TypeOK, NEW p \in Presses, NEW h, Press(p, h)
  PROVE  /\ cueWriter = "none" /\ pc[p] = "idle" /\ pc'[p] = "cloned" /\ want'[p] = Read(h)
         /\ \A q \in Presses : q # p => pc'[q] = pc[q] /\ want'[q] = want[q]
BY DEF Press, TypeOK, PressTypeOK

\* What a press wants was read from the cue list and is no newer than it.
LEMMA WantNext ==
  ASSUME TypeOK, WantOK, CueTypeOK', [Next]_vars
  PROVE  WantOK'
<1>1. ASSUME NEW s \in Snapshots, UpdateSnapshot(s) PROVE WantOK'
  <2>1. /\ \A t \in Snapshots : rev'[t] >= rev[t]
        /\ \A h \in Holders : ver'[h] >= ver[h]
    BY <1>1 DEF UpdateSnapshot, CueEdit, TypeOK, CueTypeOK
  <2>2. pc' = pc /\ want' = want
    BY <1>1 DEF UpdateSnapshot, presses
  <2> QED
    BY <2>1, <2>2, WantKept
<1>2. ASSUME NEW s \in Snapshots, LinkPalette(s) PROVE WantOK'
  <2>1. /\ \A t \in Snapshots : rev'[t] >= rev[t]
        /\ \A h \in Holders : ver'[h] >= ver[h]
    BY <1>2 DEF LinkPalette, CueEdit, TypeOK, CueTypeOK
  <2>2. pc' = pc /\ want' = want
    BY <1>2 DEF LinkPalette, presses
  <2> QED
    BY <2>1, <2>2, WantKept
<1>3. ASSUME NEW c \in Overriding, UpdateCue(c) PROVE WantOK'
  <2>1. /\ \A t \in Snapshots : rev'[t] >= rev[t]
        /\ \A h \in Holders : ver'[h] >= ver[h]
    BY <1>3 DEF UpdateCue, CueEdit, TypeOK, CueTypeOK
  <2>2. pc' = pc /\ want' = want
    BY <1>3 DEF UpdateCue, presses
  <2> QED
    BY <2>1, <2>2, WantKept
<1>4. ASSUME NEW s \in AutoSaved, AutoSave(s) PROVE WantOK'
  <2>1. /\ \A t \in Snapshots : rev'[t] >= rev[t]
        /\ \A h \in Holders : ver'[h] >= ver[h]
    BY <1>4 DEF AutoSave, CueEdit, TypeOK, CueTypeOK
  <2>2. pc' = pc /\ want' = want
    BY <1>4 DEF AutoSave, presses
  <2> QED
    BY <2>1, <2>2, WantKept
<1>5. ASSUME NEW S \in SUBSET Snapshots, DropRefs(S) PROVE WantOK'
  <2>1. /\ \A t \in Snapshots : rev'[t] >= rev[t]
        /\ \A h \in Holders : ver'[h] >= ver[h]
    BY <1>5 DEF DropRefs, CueEdit, TypeOK, CueTypeOK
  <2>2. pc' = pc /\ want' = want
    BY <1>5 DEF DropRefs, presses
  <2> QED
    BY <2>1, <2>2, WantKept
<1>6. CASE Touch
  BY <1>6 DEF Touch, PalEdit, Edit, cueData, palData, cache, looper, presses, WantOK
<1>7. CASE Store
  BY <1>7 DEF Store, PalEdit, Edit, cueData, palData, cache, looper, presses, WantOK
<1>8. CASE SkipNext
  BY <1>8 DEF SkipNext, CueEdit, Edit, cueData, palData, cache, looper, presses, WantOK
<1>9. ASSUME NEW c \in Cues, SetCurrentCue(c) PROVE WantOK'
  BY <1>9 DEF SetCurrentCue, CueEdit, Edit, cueData, palData, cache, looper, presses, WantOK
<1>10. CASE CueBump
  BY <1>10 DEF CueBump, cueData, palData, cache, looper, presses, WantOK
<1>11. CASE TouchWrite
  BY <1>11 DEF TouchWrite, cueData, palData, cache, looper, presses, WantOK
<1>12. CASE PalBump
  BY <1>12 DEF PalBump, cueData, palData, cache, looper, presses, WantOK
<1>13. CASE RemovePalette
  BY <1>13 DEF RemovePalette, cueData, palData, cache, looper, presses, WantOK
<1>14. CASE Wake
  BY <1>14 DEF Wake, NotSeen, cueData, palData, cache, looper, presses, WantOK
<1>15. CASE Peek
  BY <1>15 DEF Peek, NotSeen, NextCue, cueData, palData, cache, looper, presses, WantOK
<1>16. CASE ReadGeneration
  BY <1>16 DEF ReadGeneration, cueData, palData, cache, looper, presses, WantOK
<1>17. CASE ReadTargets
  BY <1>17 DEF ReadTargets, Read, cueData, palData, cache, looper, presses, WantOK
<1>18. CASE ClonePalettes
  BY <1>18 DEF ClonePalettes, cueData, palData, cache, looper, presses, WantOK
<1>19. CASE Install
  BY <1>19 DEF Install, Entry, NotSeen, cueData, palData, cache, looper, presses, WantOK
<1>20. ASSUME NEW p \in Presses, Go(p) PROVE WantOK'
  <2>1. HolderOf(playhead') \in Holders
    BY <1>20, HolderFacts, CuesAssumption DEF Go, TypeOK, CueTypeOK, Cues
  <2>2. /\ Read(HolderOf(playhead')) \in Copy /\ Read(HolderOf(playhead')).holder = HolderOf(playhead')
        /\ Read(HolderOf(playhead')).rev = rev[SnapOfHolder(HolderOf(playhead'))] /\ Read(HolderOf(playhead')).ver = ver[HolderOf(playhead')]
        /\ rev[SnapOfHolder(HolderOf(playhead'))] \in Nat /\ ver[HolderOf(playhead')] \in Nat
    BY <2>1, HolderFacts DEF Read, Copy, TypeOK, CueTypeOK
  <2>3. Press(p, HolderOf(playhead'))
    BY <1>20 DEF Go
  <2>4. rev' = rev /\ ver' = ver
    BY <1>20 DEF Go, cueData
  <2> QED
    BY <2>2, <2>3, <2>4, PressFacts DEF WantOK
<1>21. ASSUME NEW p \in Presses, NEW c \in Cues, FireCue(p, c) PROVE WantOK'
  <2>1. HolderOf(c) \in Holders
    BY <1>21, HolderFacts
  <2>2. /\ Read(HolderOf(c)) \in Copy /\ Read(HolderOf(c)).holder = HolderOf(c)
        /\ Read(HolderOf(c)).rev = rev[SnapOfHolder(HolderOf(c))] /\ Read(HolderOf(c)).ver = ver[HolderOf(c)]
        /\ rev[SnapOfHolder(HolderOf(c))] \in Nat /\ ver[HolderOf(c)] \in Nat
    BY <2>1, HolderFacts DEF Read, Copy, TypeOK, CueTypeOK
  <2>3. Press(p, HolderOf(c))
    BY <1>21 DEF FireCue
  <2>4. rev' = rev /\ ver' = ver
    BY <1>21 DEF FireCue, cueData
  <2> QED
    BY <2>2, <2>3, <2>4, PressFacts DEF WantOK
<1>22. ASSUME NEW p \in Presses, NEW s \in Snapshots, RecallSnapshot(p, s) PROVE WantOK'
  <2>1. s \in Holders
    BY <1>22, HolderFacts
  <2>2. /\ Read(s) \in Copy /\ Read(s).holder = s
        /\ Read(s).rev = rev[SnapOfHolder(s)] /\ Read(s).ver = ver[s]
        /\ rev[SnapOfHolder(s)] \in Nat /\ ver[s] \in Nat
    BY <2>1, HolderFacts DEF Read, Copy, TypeOK, CueTypeOK
  <2>3. Press(p, s)
    BY <1>22 DEF RecallSnapshot
  <2>4. rev' = rev /\ ver' = ver
    BY <1>22 DEF RecallSnapshot, cueData
  <2> QED
    BY <2>2, <2>3, <2>4, PressFacts DEF WantOK
<1>23. ASSUME NEW p \in Presses, TakePalettes(p) PROVE WantOK'
  BY <1>23 DEF TakePalettes, cueData, WantOK, TypeOK, PressTypeOK
<1>24. ASSUME NEW p \in Presses, Serve(p) PROVE WantOK'
  BY <1>24 DEF Serve, cueData, WantOK, TypeOK, PressTypeOK
<1>25. CASE UNCHANGED vars
  BY <1>25 DEF vars, cueData, palData, cache, looper, presses, WantOK
<1>26. QED
  BY <1>1, <1>2, <1>3, <1>4, <1>5, <1>6, <1>7, <1>8, <1>9, <1>10, <1>11, <1>12, <1>13, <1>14, <1>15, <1>16, <1>17, <1>18, <1>19, <1>20, <1>21, <1>22, <1>23, <1>24, <1>25
  DEF Next, Editors, Finish, Precompute, Recalling

\* A copy's modified_at stays of the past.
LEMMA StampsGrow ==
  ASSUME TypeOK, FreshOK, CueTypeOK', \A s \in Snapshots : stamp'[s] >= stamp[s]
  PROVE  \A c \in entries \cup targets : c.stamp <= stamp'[SnapOfHolder(c.holder)]
<1>1. ASSUME NEW c \in entries \cup targets
      PROVE  c.stamp <= stamp'[SnapOfHolder(c.holder)]
  <2>1. c.holder \in Holders /\ c.stamp \in Nat
    BY DEF TypeOK, CacheTypeOK, LoopTypeOK, Copy, Resolution
  <2>2. SnapOfHolder(c.holder) \in Snapshots /\ c.stamp <= stamp[SnapOfHolder(c.holder)]
    BY <2>1, HolderFacts DEF FreshOK, Fresh
  <2>3. stamp[SnapOfHolder(c.holder)] \in Nat /\ stamp'[SnapOfHolder(c.holder)] \in Nat
    BY <2>2 DEF TypeOK, CueTypeOK
  <2> QED
    BY <2>1, <2>2, <2>3
<1>2. QED
  BY <1>1

\* After a bump every copy is outdated.
LEMMA Outdated ==
  ASSUME TypeOK, GenOK, generation' = generation + 1
  PROVE  computedAt # generation' /\ \A e \in entries : e.gen # generation'
<1>1. generation \in Nat /\ computedAt \in Nat
  BY DEF TypeOK, CacheTypeOK, LoopTypeOK
<1>2. \A e \in entries : e.gen \in Nat
  BY DEF TypeOK, CacheTypeOK, Resolution
<1>3. QED
  BY <1>1, <1>2 DEF GenOK

\* An installed entry is one of the targets with the palettes of the pass.
LEMMA InstallFacts ==
  ASSUME TypeOK, Install
  PROVE  /\ targets' = {} /\ generation' = generation
         /\ \A e \in entries' : e \in entries \/
              \E t \in targets : /\ e.holder = t.holder /\ e.stamp = t.stamp /\ e.rev = t.rev
                                 /\ e.ver = t.ver /\ e.gen = computedAt /\ e.pals = pool
BY DEF Install, Entry

\* What a reader of the cue list finds there.
LEMMA ReadFacts ==
  ASSUME TypeOK, NEW h \in Holders
  PROVE  /\ Read(h).holder = h /\ Read(h).stamp = stamp[SnapOfHolder(h)]
         /\ Read(h).rev = rev[SnapOfHolder(h)] /\ Read(h).ver = ver[h]
         /\ SnapOfHolder(h) \in Snapshots
         /\ Read(h).rev \in Nat /\ Read(h).ver \in Nat /\ Read(h).stamp \in Nat
BY HolderFacts DEF Read, TypeOK, CueTypeOK

\* A valid entry of the current modified_at is current.
LEMMA FreshNext ==
  ASSUME TypeOK, GenOK, LoopOK, FreshOK, CueTypeOK', [Next]_vars
  PROVE  FreshOK'
<1>1. ASSUME NEW s \in Snapshots, UpdateSnapshot(s) PROVE FreshOK'
  <2>1. cueWriter' = "bump" /\ UNCHANGED <<entries, targets, computedAt>>
    BY <1>1 DEF UpdateSnapshot, cache, looper
  <2>2. \A s_1 \in Snapshots : stamp'[s_1] >= stamp[s_1]
    BY <1>1 DEF UpdateSnapshot, CueEdit, cueData, TypeOK, CueTypeOK
  <2> QED
    BY <2>1, <2>2, StampsGrow DEF FreshOK, Fresh
<1>2. ASSUME NEW s \in Snapshots, LinkPalette(s) PROVE FreshOK'
  <2>1. cueWriter' = "bump" /\ UNCHANGED <<entries, targets, computedAt>>
    BY <1>2 DEF LinkPalette, cache, looper
  <2>2. \A s_1 \in Snapshots : stamp'[s_1] >= stamp[s_1]
    BY <1>2 DEF LinkPalette, CueEdit, cueData, TypeOK, CueTypeOK
  <2> QED
    BY <2>1, <2>2, StampsGrow DEF FreshOK, Fresh
<1>3. ASSUME NEW c \in Overriding, UpdateCue(c) PROVE FreshOK'
  <2>1. cueWriter' = "bump" /\ UNCHANGED <<entries, targets, computedAt>>
    BY <1>3 DEF UpdateCue, cache, looper
  <2>2. \A s_1 \in Snapshots : stamp'[s_1] >= stamp[s_1]
    BY <1>3 DEF UpdateCue, CueEdit, cueData, TypeOK, CueTypeOK
  <2> QED
    BY <2>1, <2>2, StampsGrow DEF FreshOK, Fresh
<1>4. ASSUME NEW s \in AutoSaved, AutoSave(s) PROVE FreshOK'
  <2>1. UNCHANGED <<entries, targets, computedAt, generation, cueWriter, deleting, ver>>
    BY <1>4 DEF AutoSave, cache, looper, palData
  <2>2. /\ \A s_1 \in Snapshots : stamp'[s_1] >= stamp[s_1]
        /\ \A s_1 \in Snapshots : s_1 # s => stamp'[s_1] = stamp[s_1] /\ rev'[s_1] = rev[s_1]
        /\ s \in Snapshots => stamp'[s] > stamp[s]
    BY <1>4 DEF AutoSave, TypeOK, CueTypeOK
  <2>3. ASSUME NEW e \in entries \cup targets, SnapOfHolder(e.holder) = s
        PROVE  e.stamp # stamp'[s]
    <3>1. e.stamp \in Nat /\ e.stamp <= stamp[s]
      BY <2>3 DEF FreshOK, Fresh, TypeOK, CacheTypeOK, LoopTypeOK, Copy, Resolution
    <3>2. s \in Snapshots /\ stamp[s] \in Nat /\ stamp'[s] \in Nat
      BY BoundAssumption DEF TypeOK, CueTypeOK
    <3> QED
      BY <2>2, <3>1, <3>2
  <2>4. \A e \in entries \cup targets : SnapOfHolder(e.holder) \in Snapshots
    BY HolderFacts DEF TypeOK, CacheTypeOK, LoopTypeOK, Copy, Resolution
  <2>5. \A e \in entries \cup targets : e.stamp <= stamp'[SnapOfHolder(e.holder)]
    BY <2>2, StampsGrow
  <2> QED
    BY <2>1, <2>2, <2>3, <2>4, <2>5 DEF FreshOK, Fresh
<1>5. ASSUME NEW S \in SUBSET Snapshots, DropRefs(S) PROVE FreshOK'
  <2>1. deleting' # "no" /\ UNCHANGED <<entries, targets, computedAt, stamp>>
    BY <1>5 DEF DropRefs, cache, looper
  <2> QED
    BY <2>1 DEF FreshOK, Fresh
<1>6. CASE Touch
  <2>1. generation' = generation + 1 /\ UNCHANGED <<entries, targets, computedAt, rev, stamp, ver>>
    BY <1>6 DEF Touch, cache, looper, cueData
  <2>2. computedAt # generation' /\ \A e \in entries : e.gen # generation'
    BY <2>1, Outdated
  <2> QED
    BY <2>1, <2>2 DEF FreshOK, Fresh
<1>7. CASE Store
  BY <1>7 DEF Store, PalEdit, Edit, cueData, palData, cache, looper, presses, FreshOK, Fresh
<1>8. CASE SkipNext
  BY <1>8 DEF SkipNext, CueEdit, Edit, cueData, palData, cache, looper, presses, FreshOK, Fresh
<1>9. ASSUME NEW c \in Cues, SetCurrentCue(c) PROVE FreshOK'
  BY <1>9 DEF SetCurrentCue, CueEdit, Edit, cueData, palData, cache, looper, presses, FreshOK, Fresh
<1>10. CASE CueBump
  <2>1. generation' = generation + 1 /\ UNCHANGED <<entries, targets, computedAt, rev, stamp, ver>>
    BY <1>10 DEF CueBump, cache, looper, cueData
  <2>2. computedAt # generation' /\ \A e \in entries : e.gen # generation'
    BY <2>1, Outdated
  <2> QED
    BY <2>1, <2>2 DEF FreshOK, Fresh
<1>11. CASE TouchWrite
  BY <1>11 DEF TouchWrite, cueData, palData, cache, looper, presses, FreshOK, Fresh
<1>12. CASE PalBump
  <2>1. generation' = generation + 1 /\ UNCHANGED <<entries, targets, computedAt, rev, stamp, ver>>
    BY <1>12 DEF PalBump, cache, looper, cueData
  <2>2. computedAt # generation' /\ \A e \in entries : e.gen # generation'
    BY <2>1, Outdated
  <2> QED
    BY <2>1, <2>2 DEF FreshOK, Fresh
<1>13. CASE RemovePalette
  BY <1>13 DEF RemovePalette, cueData, palData, cache, looper, presses, FreshOK, Fresh
<1>14. CASE Wake
  BY <1>14 DEF Wake, NotSeen, cueData, palData, cache, looper, presses, FreshOK, Fresh
<1>15. CASE Peek
  BY <1>15 DEF Peek, NotSeen, NextCue, cueData, palData, cache, looper, presses, FreshOK, Fresh
<1>16. CASE ReadGeneration
  <2>1. targets = {}
    BY <1>16 DEF ReadGeneration, LoopOK
  <2> QED
    BY <1>16, <2>1 DEF ReadGeneration, cueData, palData, cache, FreshOK, Fresh
<1>17. CASE ReadTargets
  <2>1. UNCHANGED <<rev, stamp, ver, cueWriter, deleting, generation, entries, computedAt>>
    BY <1>17 DEF ReadTargets, cueData, palData, cache
  <2>2. targets' = {Read(h) : h \in FirstOfKey(Upcoming)}
    BY <1>17 DEF ReadTargets
  <2>3. ASSUME NEW t \in targets' PROVE Fresh(t, computedAt)
    <3>1. PICK h \in Holders : t = Read(h)
      BY <2>2, <2>3, UpcomingType
    <3> QED
      BY <3>1, ReadFacts DEF Fresh
  <2> QED
    BY <2>1, <2>3 DEF FreshOK, Fresh
<1>18. CASE ClonePalettes
  BY <1>18 DEF ClonePalettes, cueData, palData, cache, looper, presses, FreshOK, Fresh
<1>19. CASE Install
  <2>1. UNCHANGED <<rev, stamp, ver, cueWriter, deleting, generation>>
    BY <1>19 DEF Install, cueData, palData
  <2> QED
    BY <1>19, <2>1, InstallFacts DEF FreshOK, Fresh
<1>20. ASSUME NEW p \in Presses, Go(p) PROVE FreshOK'
  BY <1>20 DEF Go, Press, Read, cueData, palData, cache, looper, presses, FreshOK, Fresh
<1>21. ASSUME NEW p \in Presses, NEW c \in Cues, FireCue(p, c) PROVE FreshOK'
  BY <1>21 DEF FireCue, Press, Read, cueData, palData, cache, looper, presses, FreshOK, Fresh
<1>22. ASSUME NEW p \in Presses, NEW s \in Snapshots, RecallSnapshot(p, s) PROVE FreshOK'
  BY <1>22 DEF RecallSnapshot, Press, Read, cueData, palData, cache, looper, presses, FreshOK, Fresh
<1>23. ASSUME NEW p \in Presses, TakePalettes(p) PROVE FreshOK'
  BY <1>23 DEF TakePalettes, cueData, palData, cache, looper, presses, FreshOK, Fresh
<1>24. ASSUME NEW p \in Presses, Serve(p) PROVE FreshOK'
  BY <1>24 DEF Serve, Valid, cueData, palData, cache, looper, presses, FreshOK, Fresh
<1>25. CASE UNCHANGED vars
  BY <1>25 DEF vars, cueData, palData, cache, looper, presses, FreshOK, Fresh
<1>26. QED
  BY <1>1, <1>2, <1>3, <1>4, <1>5, <1>6, <1>7, <1>8, <1>9, <1>10, <1>11, <1>12, <1>13, <1>14, <1>15, <1>16, <1>17, <1>18, <1>19, <1>20, <1>21, <1>22, <1>23, <1>24, <1>25
  DEF Next, Editors, Finish, Precompute, Recalling

\* What a press clones is no newer than the copies that are still valid.
LEMMA PressNoOlder ==
  ASSUME TypeOK, WantOK, FreshOK, NoOlderOK, NEW p \in Presses, NEW h \in Holders,
         Press(p, h), UNCHANGED <<entries, targets, computedAt, generation, deleting>>
  PROVE  NoOlderOK'
<1>1. /\ cueWriter = "none" /\ want'[p] = Read(h)
      /\ \A q \in Presses : q # p => pc'[q] = pc[q] /\ want'[q] = want[q]
  BY PressFacts
<1>2. ASSUME NEW c \in entries \cup targets, NEW g, Fresh(c, g)
      PROVE  NoOlder(c, g, p)'
  <2>1. c.holder \in Holders /\ c.rev \in Nat /\ c.ver \in Nat
    BY DEF TypeOK, CacheTypeOK, LoopTypeOK, Copy, Resolution
  <2>2. ASSUME c.holder = want'[p].holder, c.stamp = want'[p].stamp, g = generation',
               deleting' = "no"
        PROVE  c.rev >= want'[p].rev /\ c.ver >= want'[p].ver
    <3>1. c.rev = rev[SnapOfHolder(h)] /\ c.ver = ver[h]
      BY <1>1, <1>2, <2>2, ReadFacts DEF Fresh
    <3> QED
      BY <1>1, <2>1, <3>1, ReadFacts
  <2> QED
    BY <2>2 DEF NoOlder
<1>3. (\A e \in entries : NoOlder(e, e.gen, p)') /\ (\A t \in targets : NoOlder(t, computedAt, p)')
  BY <1>2 DEF FreshOK
<1>4. ASSUME NEW q \in Presses, q # p, pc[q] # "idle"
      PROVE  /\ \A e \in entries : NoOlder(e, e.gen, q)'
             /\ \A t \in targets : NoOlder(t, computedAt, q)'
  BY <1>1, <1>4 DEF NoOlderOK, NoOlder
<1>5. QED
  BY <1>1, <1>3, <1>4 DEF NoOlderOK, NoOlder

\* A valid entry is no older than what a recall has cloned.
LEMMA NoOlderNext ==
  ASSUME TypeOK, GenOK, LoopOK, WantOK, FreshOK, NoOlderOK, [Next]_vars
  PROVE  NoOlderOK'
<1>1. ASSUME NEW s \in Snapshots, UpdateSnapshot(s) PROVE NoOlderOK'
  BY <1>1 DEF UpdateSnapshot, CueEdit, Edit, cueData, palData, cache, looper, presses, NoOlderOK, NoOlder
<1>2. ASSUME NEW s \in Snapshots, LinkPalette(s) PROVE NoOlderOK'
  BY <1>2 DEF LinkPalette, CueEdit, Edit, cueData, palData, cache, looper, presses, NoOlderOK, NoOlder
<1>3. ASSUME NEW c \in Overriding, UpdateCue(c) PROVE NoOlderOK'
  BY <1>3 DEF UpdateCue, CueEdit, Edit, cueData, palData, cache, looper, presses, NoOlderOK, NoOlder
<1>4. ASSUME NEW s \in AutoSaved, AutoSave(s) PROVE NoOlderOK'
  BY <1>4 DEF AutoSave, CueEdit, Edit, cueData, palData, cache, looper, presses, NoOlderOK, NoOlder
<1>5. ASSUME NEW S \in SUBSET Snapshots, DropRefs(S) PROVE NoOlderOK'
  BY <1>5 DEF DropRefs, NoOlderOK, NoOlder, cache, looper, presses
<1>6. CASE Touch
  <2>1. generation' = generation + 1 /\ UNCHANGED <<entries, targets, computedAt, pc, want>>
    BY <1>6 DEF Touch, cache, looper, presses
  <2>2. computedAt # generation' /\ \A e \in entries : e.gen # generation'
    BY <2>1, Outdated
  <2> QED
    BY <2>1, <2>2 DEF NoOlderOK, NoOlder
<1>7. CASE Store
  BY <1>7 DEF Store, PalEdit, Edit, cueData, palData, cache, looper, presses, NoOlderOK, NoOlder
<1>8. CASE SkipNext
  BY <1>8 DEF SkipNext, CueEdit, Edit, cueData, palData, cache, looper, presses, NoOlderOK, NoOlder
<1>9. ASSUME NEW c \in Cues, SetCurrentCue(c) PROVE NoOlderOK'
  BY <1>9 DEF SetCurrentCue, CueEdit, Edit, cueData, palData, cache, looper, presses, NoOlderOK, NoOlder
<1>10. CASE CueBump
  <2>1. generation' = generation + 1 /\ UNCHANGED <<entries, targets, computedAt, pc, want>>
    BY <1>10 DEF CueBump, cache, looper, presses
  <2>2. computedAt # generation' /\ \A e \in entries : e.gen # generation'
    BY <2>1, Outdated
  <2> QED
    BY <2>1, <2>2 DEF NoOlderOK, NoOlder
<1>11. CASE TouchWrite
  BY <1>11 DEF TouchWrite, cueData, palData, cache, looper, presses, NoOlderOK, NoOlder
<1>12. CASE PalBump
  <2>1. generation' = generation + 1 /\ UNCHANGED <<entries, targets, computedAt, pc, want>>
    BY <1>12 DEF PalBump, cache, looper, presses
  <2>2. computedAt # generation' /\ \A e \in entries : e.gen # generation'
    BY <2>1, Outdated
  <2> QED
    BY <2>1, <2>2 DEF NoOlderOK, NoOlder
<1>13. CASE RemovePalette
  BY <1>13 DEF RemovePalette, cueData, palData, cache, looper, presses, NoOlderOK, NoOlder
<1>14. CASE Wake
  BY <1>14 DEF Wake, NotSeen, cueData, palData, cache, looper, presses, NoOlderOK, NoOlder
<1>15. CASE Peek
  BY <1>15 DEF Peek, NotSeen, NextCue, cueData, palData, cache, looper, presses, NoOlderOK, NoOlder
<1>16. CASE ReadGeneration
  <2>1. targets = {}
    BY <1>16 DEF ReadGeneration, LoopOK
  <2> QED
    BY <1>16, <2>1 DEF ReadGeneration, palData, cache, presses, NoOlderOK, NoOlder
<1>17. CASE ReadTargets
  <2>1. UNCHANGED <<deleting, generation, entries, computedAt, pc, want>>
    BY <1>17 DEF ReadTargets, palData, cache, presses
  <2>2. targets' = {Read(h) : h \in FirstOfKey(Upcoming)}
    BY <1>17 DEF ReadTargets
  <2>3. ASSUME NEW t \in targets', NEW p \in Presses, pc[p] # "idle"
        PROVE  NoOlder(t, computedAt, p)
    <3>1. PICK h \in Holders : t = Read(h)
      BY <2>2, <2>3, UpcomingType
    <3> QED
      BY <2>3, <3>1, ReadFacts DEF NoOlder, WantOK, Copy
  <2> QED
    BY <2>1, <2>3 DEF NoOlderOK, NoOlder
<1>18. CASE ClonePalettes
  BY <1>18 DEF ClonePalettes, cueData, palData, cache, looper, presses, NoOlderOK, NoOlder
<1>19. CASE Install
  <2>1. UNCHANGED <<deleting, generation, pc, want>>
    BY <1>19 DEF Install, palData, presses
  <2> QED
    BY <1>19, <2>1, InstallFacts DEF NoOlderOK, NoOlder
<1>20. ASSUME NEW p \in Presses, Go(p) PROVE NoOlderOK'
  <2>1. HolderOf(playhead') \in Holders
    BY <1>20, HolderFacts, CuesAssumption DEF Go, TypeOK, CueTypeOK, Cues
  <2>2. Press(p, HolderOf(playhead')) /\ UNCHANGED <<entries, targets, computedAt, generation, deleting>>
    BY <1>20 DEF Go, cache, looper, palData
  <2> QED
    BY <2>1, <2>2, PressNoOlder
<1>21. ASSUME NEW p \in Presses, NEW c \in Cues, FireCue(p, c) PROVE NoOlderOK'
  <2>1. HolderOf(c) \in Holders
    BY <1>21, HolderFacts
  <2>2. Press(p, HolderOf(c)) /\ UNCHANGED <<entries, targets, computedAt, generation, deleting>>
    BY <1>21 DEF FireCue, cache, looper, palData
  <2> QED
    BY <2>1, <2>2, PressNoOlder
<1>22. ASSUME NEW p \in Presses, NEW s \in Snapshots, RecallSnapshot(p, s) PROVE NoOlderOK'
  <2>1. s \in Holders
    BY <1>22, HolderFacts
  <2>2. Press(p, s) /\ UNCHANGED <<entries, targets, computedAt, generation, deleting>>
    BY <1>22 DEF RecallSnapshot, cache, looper, palData
  <2> QED
    BY <2>1, <2>2, PressNoOlder
<1>23. ASSUME NEW p \in Presses, TakePalettes(p) PROVE NoOlderOK'
  BY <1>23 DEF TakePalettes, palData, cache, looper, NoOlderOK, NoOlder, TypeOK, PressTypeOK
<1>24. ASSUME NEW p \in Presses, Serve(p) PROVE NoOlderOK'
  BY <1>24 DEF Serve, palData, cache, looper, NoOlderOK, NoOlder, TypeOK, PressTypeOK
<1>25. CASE UNCHANGED vars
  BY <1>25 DEF vars, cueData, palData, cache, looper, presses, NoOlderOK, NoOlder
<1>26. QED
  BY <1>1, <1>2, <1>3, <1>4, <1>5, <1>6, <1>7, <1>8, <1>9, <1>10, <1>11, <1>12, <1>13, <1>14, <1>15, <1>16, <1>17, <1>18, <1>19, <1>20, <1>21, <1>22, <1>23, <1>24, <1>25
  DEF Next, Editors, Finish, Precompute, Recalling

\* A valid entry has the palettes of now, or of no earlier than any recall's.
LEMMA PalsNext ==
  ASSUME TypeOK, GenOK, PalsOK, [Next]_vars
  PROVE  PalsOK'
<1>1. ASSUME NEW s \in Snapshots, UpdateSnapshot(s) PROVE PalsOK'
  BY <1>1 DEF UpdateSnapshot, CueEdit, Edit, cueData, palData, cache, looper, presses, PalsOK, FreshPals, HasPals
<1>2. ASSUME NEW s \in Snapshots, LinkPalette(s) PROVE PalsOK'
  BY <1>2 DEF LinkPalette, CueEdit, Edit, cueData, palData, cache, looper, presses, PalsOK, FreshPals, HasPals
<1>3. ASSUME NEW c \in Overriding, UpdateCue(c) PROVE PalsOK'
  BY <1>3 DEF UpdateCue, CueEdit, Edit, cueData, palData, cache, looper, presses, PalsOK, FreshPals, HasPals
<1>4. ASSUME NEW s \in AutoSaved, AutoSave(s) PROVE PalsOK'
  BY <1>4 DEF AutoSave, CueEdit, Edit, cueData, palData, cache, looper, presses, PalsOK, FreshPals, HasPals
<1>5. ASSUME NEW S \in SUBSET Snapshots, DropRefs(S) PROVE PalsOK'
  BY <1>5 DEF DropRefs, CueEdit, Edit, cueData, palData, cache, looper, presses, PalsOK, FreshPals, HasPals
<1>6. CASE Touch
  <2>1. /\ generation' = generation + 1
        /\ UNCHANGED <<entries, computedAt, pool, loop, pals, pc, wantPals>>
    BY <1>6 DEF Touch, palData, cache, looper, presses
  <2>2. computedAt # generation' /\ \A e \in entries : e.gen # generation'
    BY <2>1, Outdated
  <2> QED
    BY <2>1, <2>2 DEF PalsOK, FreshPals, HasPals
<1>7. CASE Store
  <2>1. /\ palWriter' # "none" /\ palWriter' # "write"
        /\ UNCHANGED <<entries, computedAt, pool, loop, generation, pc, wantPals>>
    BY <1>7 DEF Store, cache, looper, presses
  <2>2. pals \in Nat /\ pals' = pals + 1 /\ \A p \in Presses : wantPals[p] \in Nat
    BY <1>7 DEF Store, TypeOK, CacheTypeOK, PressTypeOK
  <2>3. \A p \in Presses : HasPals(p) => wantPals[p] <= pals'
    BY <2>2 DEF PalsOK
  <2> QED
    BY <2>1, <2>3 DEF PalsOK, FreshPals, HasPals
<1>8. CASE SkipNext
  BY <1>8 DEF SkipNext, CueEdit, Edit, cueData, palData, cache, looper, presses, PalsOK, FreshPals, HasPals
<1>9. ASSUME NEW c \in Cues, SetCurrentCue(c) PROVE PalsOK'
  BY <1>9 DEF SetCurrentCue, CueEdit, Edit, cueData, palData, cache, looper, presses, PalsOK, FreshPals, HasPals
<1>10. CASE CueBump
  <2>1. /\ generation' = generation + 1
        /\ UNCHANGED <<entries, computedAt, pool, loop, pals, pc, wantPals>>
    BY <1>10 DEF CueBump, palData, cache, looper, presses
  <2>2. computedAt # generation' /\ \A e \in entries : e.gen # generation'
    BY <2>1, Outdated
  <2> QED
    BY <2>1, <2>2 DEF PalsOK, FreshPals, HasPals
<1>11. CASE TouchWrite
  <2>1. /\ palWriter = "write"
        /\ UNCHANGED <<entries, computedAt, pool, loop, generation, pc, wantPals>>
    BY <1>11 DEF TouchWrite, cache, looper, presses
  <2>2. pals \in Nat /\ pals' = pals + 1 /\ \A p \in Presses : wantPals[p] \in Nat
    BY <1>11 DEF TouchWrite, TypeOK, CacheTypeOK, PressTypeOK
  <2>3. \A p \in Presses : HasPals(p) => wantPals[p] <= pals'
    BY <2>2 DEF PalsOK
  <2> QED
    BY <2>1, <2>3 DEF PalsOK, FreshPals, HasPals
<1>12. CASE PalBump
  <2>1. /\ generation' = generation + 1
        /\ UNCHANGED <<entries, computedAt, pool, loop, pals, pc, wantPals>>
    BY <1>12 DEF PalBump, palData, cache, looper, presses
  <2>2. computedAt # generation' /\ \A e \in entries : e.gen # generation'
    BY <2>1, Outdated
  <2> QED
    BY <2>1, <2>2 DEF PalsOK, FreshPals, HasPals
<1>13. CASE RemovePalette
  <2>1. /\ palWriter' # "none" /\ palWriter' # "write"
        /\ UNCHANGED <<entries, computedAt, pool, loop, generation, pc, wantPals>>
    BY <1>13 DEF RemovePalette, cache, looper, presses
  <2>2. pals \in Nat /\ pals' = pals + 1 /\ \A p \in Presses : wantPals[p] \in Nat
    BY <1>13 DEF RemovePalette, TypeOK, CacheTypeOK, PressTypeOK
  <2>3. \A p \in Presses : HasPals(p) => wantPals[p] <= pals'
    BY <2>2 DEF PalsOK
  <2> QED
    BY <2>1, <2>3 DEF PalsOK, FreshPals, HasPals
<1>14. CASE Wake
  BY <1>14 DEF Wake, palData, cache, presses, PalsOK, FreshPals, HasPals
<1>15. CASE Peek
  BY <1>15 DEF Peek, palData, cache, presses, PalsOK, FreshPals, HasPals
<1>16. CASE ReadGeneration
  BY <1>16 DEF ReadGeneration, palData, cache, presses, PalsOK, FreshPals, HasPals
<1>17. CASE ReadTargets
  BY <1>17 DEF ReadTargets, palData, cache, presses, PalsOK, FreshPals, HasPals
<1>18. CASE ClonePalettes
  <2>1. palWriter = "none" /\ pool' = pals
    BY <1>18 DEF ClonePalettes
  <2>2. UNCHANGED <<pals, palWriter, generation, entries, computedAt, pc, wantPals>>
    BY <1>18 DEF ClonePalettes, palData, cache, presses
  <2>3. pals \in Nat /\ \A p \in Presses : wantPals[p] \in Nat
    BY DEF TypeOK, CacheTypeOK, PressTypeOK
  <2> QED
    BY <2>1, <2>2, <2>3 DEF PalsOK, FreshPals, HasPals
<1>19. CASE Install
  <2>1. loop = "installing" /\ loop' # "installing"
    BY <1>19 DEF Install
  <2>2. UNCHANGED <<pals, palWriter, generation, pc, wantPals>>
    BY <1>19 DEF Install, palData, presses
  <2> QED
    BY <1>19, <2>1, <2>2, InstallFacts DEF PalsOK, FreshPals, HasPals
<1>20. ASSUME NEW p \in Presses, Go(p) PROVE PalsOK'
  <2>1. \A q \in Presses : HasPals(q)' => HasPals(q)
    BY <1>20 DEF Go, Press, HasPals, TypeOK, PressTypeOK
  <2>2. UNCHANGED <<pals, palWriter, generation, entries, computedAt, pool, loop, wantPals>>
    BY <1>20 DEF Go, palData, cache, looper
  <2> QED
    BY <2>1, <2>2 DEF PalsOK, FreshPals
<1>21. ASSUME NEW p \in Presses, NEW c \in Cues, FireCue(p, c) PROVE PalsOK'
  <2>1. \A q \in Presses : HasPals(q)' => HasPals(q)
    BY <1>21 DEF FireCue, Press, HasPals, TypeOK, PressTypeOK
  <2>2. UNCHANGED <<pals, palWriter, generation, entries, computedAt, pool, loop, wantPals>>
    BY <1>21 DEF FireCue, palData, cache, looper
  <2> QED
    BY <2>1, <2>2 DEF PalsOK, FreshPals
<1>22. ASSUME NEW p \in Presses, NEW s \in Snapshots, RecallSnapshot(p, s) PROVE PalsOK'
  <2>1. \A q \in Presses : HasPals(q)' => HasPals(q)
    BY <1>22 DEF RecallSnapshot, Press, HasPals, TypeOK, PressTypeOK
  <2>2. UNCHANGED <<pals, palWriter, generation, entries, computedAt, pool, loop, wantPals>>
    BY <1>22 DEF RecallSnapshot, palData, cache, looper
  <2> QED
    BY <2>1, <2>2 DEF PalsOK, FreshPals
<1>23. ASSUME NEW p \in Presses, TakePalettes(p) PROVE PalsOK'
  <2>1. palWriter = "none" /\ wantPals'[p] = pals /\ pals \in Nat
    BY <1>23 DEF TakePalettes, TypeOK, CacheTypeOK, PressTypeOK
  <2>2. \A q \in Presses : q # p => wantPals'[q] = wantPals[q] /\ (HasPals(q)' <=> HasPals(q))
    BY <1>23 DEF TakePalettes, HasPals, TypeOK, PressTypeOK
  <2>3. UNCHANGED <<pals, palWriter, generation, entries, computedAt, pool, loop>>
    BY <1>23 DEF TakePalettes, palData, cache, looper
  <2> QED
    BY <2>1, <2>2, <2>3 DEF PalsOK, FreshPals
<1>24. ASSUME NEW p \in Presses, Serve(p) PROVE PalsOK'
  <2>1. \A q \in Presses : HasPals(q)' => HasPals(q)
    BY <1>24 DEF Serve, HasPals, TypeOK, PressTypeOK
  <2>2. UNCHANGED <<pals, palWriter, generation, entries, computedAt, pool, loop, wantPals>>
    BY <1>24 DEF Serve, palData, cache, looper
  <2> QED
    BY <2>1, <2>2 DEF PalsOK, FreshPals
<1>25. CASE UNCHANGED vars
  BY <1>25 DEF vars, cueData, palData, cache, looper, presses, PalsOK, FreshPals, HasPals
<1>26. QED
  BY <1>1, <1>2, <1>3, <1>4, <1>5, <1>6, <1>7, <1>8, <1>9, <1>10, <1>11, <1>12, <1>13, <1>14, <1>15, <1>16, <1>17, <1>18, <1>19, <1>20, <1>21, <1>22, <1>23, <1>24, <1>25
  DEF Next, Editors, Finish, Precompute, Recalling

\* A press is served nothing before it is served.
LEMMA ServedNext ==
  ASSUME TypeOK, ServedOK, [Next]_vars
  PROVE  ServedOK'
<1>1. ASSUME NEW s \in Snapshots, UpdateSnapshot(s) PROVE ServedOK'
  BY <1>1 DEF UpdateSnapshot, CueEdit, Edit, cueData, palData, cache, looper, presses, ServedOK
<1>2. ASSUME NEW s \in Snapshots, LinkPalette(s) PROVE ServedOK'
  BY <1>2 DEF LinkPalette, CueEdit, Edit, cueData, palData, cache, looper, presses, ServedOK
<1>3. ASSUME NEW c \in Overriding, UpdateCue(c) PROVE ServedOK'
  BY <1>3 DEF UpdateCue, CueEdit, Edit, cueData, palData, cache, looper, presses, ServedOK
<1>4. ASSUME NEW s \in AutoSaved, AutoSave(s) PROVE ServedOK'
  BY <1>4 DEF AutoSave, CueEdit, Edit, cueData, palData, cache, looper, presses, ServedOK
<1>5. ASSUME NEW S \in SUBSET Snapshots, DropRefs(S) PROVE ServedOK'
  BY <1>5 DEF DropRefs, CueEdit, Edit, cueData, palData, cache, looper, presses, ServedOK
<1>6. CASE Touch
  BY <1>6 DEF Touch, PalEdit, Edit, cueData, palData, cache, looper, presses, ServedOK
<1>7. CASE Store
  BY <1>7 DEF Store, PalEdit, Edit, cueData, palData, cache, looper, presses, ServedOK
<1>8. CASE SkipNext
  BY <1>8 DEF SkipNext, CueEdit, Edit, cueData, palData, cache, looper, presses, ServedOK
<1>9. ASSUME NEW c \in Cues, SetCurrentCue(c) PROVE ServedOK'
  BY <1>9 DEF SetCurrentCue, CueEdit, Edit, cueData, palData, cache, looper, presses, ServedOK
<1>10. CASE CueBump
  BY <1>10 DEF CueBump, cueData, palData, cache, looper, presses, ServedOK
<1>11. CASE TouchWrite
  BY <1>11 DEF TouchWrite, cueData, palData, cache, looper, presses, ServedOK
<1>12. CASE PalBump
  BY <1>12 DEF PalBump, cueData, palData, cache, looper, presses, ServedOK
<1>13. CASE RemovePalette
  BY <1>13 DEF RemovePalette, cueData, palData, cache, looper, presses, ServedOK
<1>14. CASE Wake
  BY <1>14 DEF Wake, NotSeen, cueData, palData, cache, looper, presses, ServedOK
<1>15. CASE Peek
  BY <1>15 DEF Peek, NotSeen, NextCue, cueData, palData, cache, looper, presses, ServedOK
<1>16. CASE ReadGeneration
  BY <1>16 DEF ReadGeneration, cueData, palData, cache, looper, presses, ServedOK
<1>17. CASE ReadTargets
  BY <1>17 DEF ReadTargets, Read, cueData, palData, cache, looper, presses, ServedOK
<1>18. CASE ClonePalettes
  BY <1>18 DEF ClonePalettes, cueData, palData, cache, looper, presses, ServedOK
<1>19. CASE Install
  BY <1>19 DEF Install, Entry, NotSeen, cueData, palData, cache, looper, presses, ServedOK
<1>20. ASSUME NEW p \in Presses, Go(p) PROVE ServedOK'
  <2>1. served' = served /\ \A q \in Presses : pc'[q] # pc[q] => pc[q] = "idle"
    BY <1>20 DEF Go, Press, TypeOK, PressTypeOK
  <2> QED
    BY <2>1 DEF ServedOK
<1>21. ASSUME NEW p \in Presses, NEW c \in Cues, FireCue(p, c) PROVE ServedOK'
  <2>1. served' = served /\ \A q \in Presses : pc'[q] # pc[q] => pc[q] = "idle"
    BY <1>21 DEF FireCue, Press, TypeOK, PressTypeOK
  <2> QED
    BY <2>1 DEF ServedOK
<1>22. ASSUME NEW p \in Presses, NEW s \in Snapshots, RecallSnapshot(p, s) PROVE ServedOK'
  <2>1. served' = served /\ \A q \in Presses : pc'[q] # pc[q] => pc[q] = "idle"
    BY <1>22 DEF RecallSnapshot, Press, TypeOK, PressTypeOK
  <2> QED
    BY <2>1 DEF ServedOK
<1>23. ASSUME NEW p \in Presses, TakePalettes(p) PROVE ServedOK'
  BY <1>23 DEF TakePalettes, ServedOK, TypeOK, PressTypeOK
<1>24. ASSUME NEW p \in Presses, Serve(p) PROVE ServedOK'
  BY <1>24 DEF Serve, ServedOK, TypeOK, PressTypeOK
<1>25. CASE UNCHANGED vars
  BY <1>25 DEF vars, cueData, palData, cache, looper, presses, ServedOK
<1>26. QED
  BY <1>1, <1>2, <1>3, <1>4, <1>5, <1>6, <1>7, <1>8, <1>9, <1>10, <1>11, <1>12, <1>13, <1>14, <1>15, <1>16, <1>17, <1>18, <1>19, <1>20, <1>21, <1>22, <1>23, <1>24, <1>25
  DEF Next, Editors, Finish, Precompute, Recalling

\* A recall is served valid entries only.
LEMMA NeverOlderNext ==
  ASSUME Distinct, TypeOK, WantOK, NoOlderOK, PalsOK, ServedOK, NeverOlder, [Next]_vars
  PROVE  NeverOlder'
<1>1. ASSUME NEW s \in Snapshots, UpdateSnapshot(s) PROVE NeverOlder'
  BY <1>1 DEF UpdateSnapshot, CueEdit, Edit, cueData, palData, cache, looper, presses, NeverOlder
<1>2. ASSUME NEW s \in Snapshots, LinkPalette(s) PROVE NeverOlder'
  BY <1>2 DEF LinkPalette, CueEdit, Edit, cueData, palData, cache, looper, presses, NeverOlder
<1>3. ASSUME NEW c \in Overriding, UpdateCue(c) PROVE NeverOlder'
  BY <1>3 DEF UpdateCue, CueEdit, Edit, cueData, palData, cache, looper, presses, NeverOlder
<1>4. ASSUME NEW s \in AutoSaved, AutoSave(s) PROVE NeverOlder'
  BY <1>4 DEF AutoSave, CueEdit, Edit, cueData, palData, cache, looper, presses, NeverOlder
<1>5. ASSUME NEW S \in SUBSET Snapshots, DropRefs(S) PROVE NeverOlder'
  BY <1>5 DEF DropRefs, CueEdit, Edit, cueData, palData, cache, looper, presses, NeverOlder
<1>6. CASE Touch
  BY <1>6 DEF Touch, PalEdit, Edit, cueData, palData, cache, looper, presses, NeverOlder
<1>7. CASE Store
  BY <1>7 DEF Store, PalEdit, Edit, cueData, palData, cache, looper, presses, NeverOlder
<1>8. CASE SkipNext
  BY <1>8 DEF SkipNext, CueEdit, Edit, cueData, palData, cache, looper, presses, NeverOlder
<1>9. ASSUME NEW c \in Cues, SetCurrentCue(c) PROVE NeverOlder'
  BY <1>9 DEF SetCurrentCue, CueEdit, Edit, cueData, palData, cache, looper, presses, NeverOlder
<1>10. CASE CueBump
  BY <1>10 DEF CueBump, cueData, palData, cache, looper, presses, NeverOlder
<1>11. CASE TouchWrite
  BY <1>11 DEF TouchWrite, cueData, palData, cache, looper, presses, NeverOlder
<1>12. CASE PalBump
  BY <1>12 DEF PalBump, cueData, palData, cache, looper, presses, NeverOlder
<1>13. CASE RemovePalette
  BY <1>13 DEF RemovePalette, cueData, palData, cache, looper, presses, NeverOlder
<1>14. CASE Wake
  BY <1>14 DEF Wake, NotSeen, cueData, palData, cache, looper, presses, NeverOlder
<1>15. CASE Peek
  BY <1>15 DEF Peek, NotSeen, NextCue, cueData, palData, cache, looper, presses, NeverOlder
<1>16. CASE ReadGeneration
  BY <1>16 DEF ReadGeneration, cueData, palData, cache, looper, presses, NeverOlder
<1>17. CASE ReadTargets
  BY <1>17 DEF ReadTargets, Read, cueData, palData, cache, looper, presses, NeverOlder
<1>18. CASE ClonePalettes
  BY <1>18 DEF ClonePalettes, cueData, palData, cache, looper, presses, NeverOlder
<1>19. CASE Install
  BY <1>19 DEF Install, Entry, NotSeen, cueData, palData, cache, looper, presses, NeverOlder
<1>20. ASSUME NEW p \in Presses, Go(p) PROVE NeverOlder'
  <2>1. /\ pc[p] # "served" /\ UNCHANGED <<served, torn, wantPals>>
        /\ \A q \in Presses : q # p => want'[q] = want[q]
    BY <1>20 DEF Go, Press, TypeOK, PressTypeOK
  <2> QED
    BY <2>1 DEF NeverOlder, ServedOK
<1>21. ASSUME NEW p \in Presses, NEW c \in Cues, FireCue(p, c) PROVE NeverOlder'
  <2>1. /\ pc[p] # "served" /\ UNCHANGED <<served, torn, wantPals>>
        /\ \A q \in Presses : q # p => want'[q] = want[q]
    BY <1>21 DEF FireCue, Press, TypeOK, PressTypeOK
  <2> QED
    BY <2>1 DEF NeverOlder, ServedOK
<1>22. ASSUME NEW p \in Presses, NEW s \in Snapshots, RecallSnapshot(p, s) PROVE NeverOlder'
  <2>1. /\ pc[p] # "served" /\ UNCHANGED <<served, torn, wantPals>>
        /\ \A q \in Presses : q # p => want'[q] = want[q]
    BY <1>22 DEF RecallSnapshot, Press, TypeOK, PressTypeOK
  <2> QED
    BY <2>1 DEF NeverOlder, ServedOK
<1>23. ASSUME NEW p \in Presses, TakePalettes(p) PROVE NeverOlder'
  <2>1. /\ pc[p] # "served" /\ UNCHANGED <<served, torn, want>>
        /\ \A q \in Presses : q # p => wantPals'[q] = wantPals[q]
    BY <1>23 DEF TakePalettes, TypeOK, PressTypeOK
  <2> QED
    BY <2>1 DEF NeverOlder, ServedOK
<1>24. ASSUME NEW p \in Presses, Serve(p) PROVE NeverOlder'
  <2>1. /\ pc[p] = "ready" /\ UNCHANGED <<want, wantPals>>
        /\ served'[p] = Valid(want[p]) /\ torn'[p] = (deleting = "half")
        /\ \A q \in Presses : q # p => served'[q] = served[q] /\ torn'[q] = torn[q]
    BY <1>24 DEF Serve, TypeOK, PressTypeOK
  <2>2. ASSUME ~torn'[p], NEW e \in served'[p]
        PROVE  /\ e.holder = want[p].holder
               /\ e.rev >= want[p].rev /\ e.ver >= want[p].ver /\ e.pals >= wantPals[p]
    <3>1. /\ e \in entries /\ Key(e.holder) = Key(want[p].holder)
          /\ e.gen = generation /\ e.stamp = want[p].stamp /\ deleting = "no"
      BY <2>1, <2>2 DEF Valid, TypeOK, CacheTypeOK
    <3>2. e.holder \in Holders /\ want[p].holder \in Holders
      BY <2>1, <3>1 DEF WantOK, Copy, TypeOK, CacheTypeOK, Resolution
    <3>3. e.holder = want[p].holder
      BY <3>1, <3>2 DEF Distinct
    <3>4. e.rev >= want[p].rev /\ e.ver >= want[p].ver
      BY <2>1, <3>1, <3>3 DEF NoOlderOK, NoOlder
    <3>5. e.pals >= wantPals[p]
      BY <2>1, <3>1 DEF PalsOK, FreshPals, HasPals
    <3> QED
      BY <3>3, <3>4, <3>5
  <2> QED
    BY <2>1, <2>2 DEF NeverOlder
<1>25. CASE UNCHANGED vars
  BY <1>25 DEF vars, cueData, palData, cache, looper, presses, NeverOlder
<1>26. QED
  BY <1>1, <1>2, <1>3, <1>4, <1>5, <1>6, <1>7, <1>8, <1>9, <1>10, <1>11, <1>12, <1>13, <1>14, <1>15, <1>16, <1>17, <1>18, <1>19, <1>20, <1>21, <1>22, <1>23, <1>24, <1>25
  DEF Next, Editors, Finish, Precompute, Recalling

\* The inductive invariant holds at the start.
LEMMA InitIInv == Init => IInv
<1> SUFFICES ASSUME Init PROVE IInv
  OBVIOUS
<1>1. CueTypeOK
  <2>1. 0 \in 0 .. NCues /\ 0 \in 0 .. MaxEdits /\ 0 \in Nat
    BY CuesAssumption, BoundAssumption
  <2> QED
    BY <2>1 DEF Init, CueTypeOK
<1>2. CacheTypeOK /\ PressTypeOK
  BY DEF Init, CacheTypeOK, PressTypeOK
<1>3. LoopTypeOK
  BY CuesAssumption DEF Init, NotSeen, LoopTypeOK
<1>4. GenOK /\ LoopOK /\ WantOK /\ FreshOK /\ NoOlderOK /\ PalsOK /\ ServedOK /\ NeverOlder
  BY DEF Init, GenOK, LoopOK, WantOK, FreshOK, NoOlderOK, PalsOK, FreshPals, HasPals,
         ServedOK, NeverOlder
<1>5. QED
  BY <1>1, <1>2, <1>3, <1>4 DEF IInv, TypeOK

\* Every step keeps the inductive invariant.
LEMMA NextIInv == Distinct /\ IInv /\ [Next]_vars => IInv'
<1> SUFFICES ASSUME Distinct, IInv, [Next]_vars PROVE IInv'
  OBVIOUS
<1>1. /\ TypeOK /\ GenOK /\ LoopOK /\ WantOK /\ FreshOK /\ NoOlderOK /\ PalsOK
      /\ ServedOK /\ NeverOlder
  BY DEF IInv
<1>2. CueTypeOK'
  BY <1>1, CueTypeNext
<1>3. TypeOK'
  BY <1>1, <1>2, CacheTypeNext, LoopTypeNext, PressTypeNext DEF TypeOK
<1>4. GenOK' /\ LoopOK' /\ WantOK' /\ ServedOK'
  BY <1>1, <1>2, GenNext, LoopNext, WantNext, ServedNext
<1>5. FreshOK' /\ NoOlderOK' /\ PalsOK'
  BY <1>1, <1>2, FreshNext, NoOlderNext, PalsNext
<1>6. NeverOlder'
  BY <1>1, NeverOlderNext
<1>7. QED
  BY <1>3, <1>4, <1>5, <1>6 DEF IInv

-----------------------------------------------------------------------------
(* Type correctness of the cache, the loop and the recalls, whatever the   *)
(* ids of the scopes.                                                      *)
THEOREM CacheTypeCorrect == Spec => []TypeOK
<1>1. Init => TypeOK
  BY InitIInv DEF IInv
<1>2. TypeOK /\ [Next]_vars => TypeOK'
  BY CueTypeNext, CacheTypeNext, LoopTypeNext, PressTypeNext DEF TypeOK
<1>3. QED
  BY <1>1, <1>2, PTL DEF Spec

(* Where no two scopes of a snapshot share an id, the cache never serves a *)
(* recall a resolution older than the recall's own reads (NeverOlder), for *)
(* any show, any number of recalls, edits and passes of the loop.          *)
THEOREM NeverServedOlder == ASSUME Distinct PROVE Spec => []NeverOlder
<1>1. Init => IInv
  BY InitIInv
<1>2. IInv /\ [Next]_vars => IInv'
  BY NextIInv
<1>3. IInv => NeverOlder
  BY DEF IInv
<1>4. QED
  BY <1>1, <1>2, <1>3, PTL DEF Spec
=============================================================================
