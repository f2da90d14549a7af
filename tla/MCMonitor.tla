------------------------------ MODULE MCMonitor -----------------------------
(* One phone and one browser with an aux send that the desk moves as well. *)
EXTENDS Monitor

CONSTANTS p, b   \* a phone, a browser

LevelTo(v) == [field |-> "level", value |-> v]
OnTo(v) == [field |-> "on", value |-> v]
MovesAtDesk == {LevelTo(0), OnTo(1)}
FaderMoves == {LevelTo(0), LevelTo(1)}
AllDown == [f \in {"level", "on"} |-> 0]
=============================================================================
