------------------------------ MODULE MCEdits -------------------------------
(* Three snapshots, S live at the start; S and U share a palette on the    *)
(* slot of x, T has another.                                               *)
EXTENDS LiveEdits, TLC

CONSTANTS A, B, S, T, U, P, Q, x, y

AThenB == A :> "timed" @@ B :> "instant"
ToTU == A :> T @@ B :> U
Scopes == S :> Addr @@ T :> {x} @@ U :> {}
PQP == S :> P @@ T :> Q @@ U :> P
SlotOfX == [s \in {S, T, U} |-> [a \in Addr |-> IF a = x THEN PQP[s] ELSE None]]
=============================================================================
