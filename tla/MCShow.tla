------------------------------- MODULE MCShow --------------------------------
(* Two show files of two parts each: a is whole and was never saved over, b *)
(* is corrupt and has one old copy.                                         *)
EXTENDS ShowFiles, TLC

CONSTANTS a, b   \* the files

Own(f) == [p \in Parts |-> [show |-> f, rev |-> 0]]
AWholeBCorrupt == {a :> Own(a) @@ b :> Corrupt}
CopyOfB == a :> <<>> @@ b :> <<Own(b)>>
CuesThenGangs == <<"cues", "gangs">>
=============================================================================
