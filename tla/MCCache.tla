------------------------------ MODULE MCCache ------------------------------
(* Two or three cues over two snapshots.                                   *)
EXTENDS RecallCache, TLC

CONSTANTS S, T   \* the snapshots

ShowSnap == 1 :> S @@ 2 :> T
ShowIds == S :> "idS" @@ T :> "idT" @@ 2 :> "id2"

\* Two cues of one snapshot whose overrides were taken from one template, the
\* second after the template had been edited: two scopes with one id.
TwinSnap == 1 :> S @@ 2 :> S @@ 3 :> T
TwinIds == S :> "idS" @@ T :> "idT" @@ 1 :> "tmpl" @@ 2 :> "tmpl"
=============================================================================
