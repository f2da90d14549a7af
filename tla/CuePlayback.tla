---------------------------- MODULE CuePlayback ----------------------------
(***************************************************************************)
(* What the recall engine promises to the operator, without its epochs,    *)
(* gate, plan and tasks: recalls may be fired one on top of the other, and *)
(* once the playback has come to rest the desk is where it would be had    *)
(* every recall played to its end before the next one started.             *)
(***************************************************************************)
CONSTANTS Addr, Value, None,
          Show  \* what each recall sets: end-values, None where it sets nothing
VARIABLES desk,   \* the console's parameter values
          ideal,  \* where the recalls fired so far leave them, played in order
          busy    \* some recall is being played

vars == <<desk, ideal, busy>>

Init == /\ desk \in [Addr -> Value] /\ ideal = desk
        /\ busy = FALSE

\* A recall sets some addresses, and is ordered by when it is fired.
Fire == \E end \in Show :
          /\ ideal' = [a \in Addr |-> IF end[a] # None THEN end[a] ELSE ideal[a]]
          /\ busy' = TRUE
          /\ UNCHANGED desk

\* While it plays, the desk goes through whatever values it goes through.
Play == /\ busy /\ UNCHANGED <<ideal, busy>>
        /\ desk' \in [Addr -> Value]

Rest == /\ busy /\ desk = ideal
        /\ busy' = FALSE
        /\ UNCHANGED <<desk, ideal>>

Next == Play \/ Rest \/ Fire

\* A recall is not left playing for ever.
Spec == Init /\ [][Next]_vars /\ []<>~busy
=============================================================================
