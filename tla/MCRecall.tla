----------------------------- MODULE MCRecall ------------------------------
(* Small shows for RecallEngine: three or four calls, a fader "f", a mute   *)
(* "m" and an EQ slot "eq".  Calls are told apart by their values.          *)
EXTENDS RecallEngine, TLC

Show(f) == [r \in Recalls |-> [a \in Addr |->
              IF <<r, a>> \in DOMAIN f THEN f[<<r, a>>] ELSE None]]
NoRows == Show(<<>>)
EachItsOwn == [a \in Addr |-> a]

\* Three cues that overlap in pairs.
ThreeCues == Show(<<"A", "f">> :> "fA" @@ <<"A", "m">> :> "mA" @@
                  <<"B", "f">> :> "fB" @@ <<"C", "m">> :> "mC")
KindInstant == "A" :> "cue" @@ "B" :> "recall" @@ "C" :> "cue"
KindTimed == "A" :> "timed" @@ "B" :> "timed" @@ "C" :> "cue"

\* Undo after two timed cues of one fader.
KindUndo == "A" :> "timed" @@ "B" :> "timed" @@ "U" :> "undo"
TwoCues == Show(<<"A", "f">> :> "fA" @@ <<"A", "m">> :> "mA" @@ <<"B", "f">> :> "fB")

\* A timed cue with a memory row, a cue with only a row, a palette revert.
KindRows == "A" :> "timed" @@ "B" :> "rowonly" @@ "V" :> "revert"
OwnRows == Show(<<"A", "f">> :> "fA" @@ <<"V", "f">> :> "q")
RowRows == Show(<<"A", "f">> :> "row" @@ <<"B", "f">> :> "row")

\* Three recalls of one EQ slot, the first and the last link the same palette.
KindPalette == "A" :> "recall" @@ "B" :> "timed" @@ "C" :> "cue"
OwnPalette == Show(<<"A", "eq">> :> "p" @@ <<"B", "eq">> :> "q" @@ <<"B", "f">> :> "fB"
                   @@ <<"C", "eq">> :> "p")
\* Four of them, of which the third plays the second over the slot it skips.
KindFour == "A" :> "recall" @@ "B" :> "cue" @@ "C" :> "cue" @@ "D" :> "cue"
OwnFour == Show(<<"A", "eq">> :> "p" @@ <<"B", "eq">> :> "q" @@ <<"C", "eq">> :> "p"
                @@ <<"D", "eq">> :> "p")
\* A fade that stamps late, and two cues after it.
KindLate == "A" :> "timed" @@ "B" :> "cue" @@ "C" :> "cue"
OwnLate == Show(<<"A", "eq">> :> "p" @@ <<"B", "eq">> :> "q" @@ <<"C", "eq">> :> "p")

\* A timed cue superseded by a recall, a timed cue, a cue with a row.
TimedThenInstant == "A" :> "timed" @@ "B" :> "recall"
TimedTwice == "A" :> "timed" @@ "B" :> "timed"
SameFader == Show(<<"A", "f">> :> "fA" @@ <<"B", "f">> :> "fB")
OtherParam == Show(<<"A", "f">> :> "fA" @@ <<"B", "m">> :> "mB")

\* Cues with memory rows, superseded and superseding.
InstantTwice == "A" :> "cue" @@ "B" :> "cue"
RowFirst == "A" :> "rowonly" @@ "B" :> "cue"
RowBetween == "A" :> "timed" @@ "B" :> "rowonly" @@ "C" :> "cue"
OnlyB == Show(<<"B", "m">> :> "mB")
RowOfA == Show(<<"A", "f">> :> "row")
RowOfB == Show(<<"B", "f">> :> "row")
FirstAndLast == Show(<<"A", "f">> :> "fA" @@ <<"C", "m">> :> "mC")

\* A timed cue that sets a fader and an EQ slot, superseded by one EQ recall.
FaderAndSlot == Show(<<"A", "f">> :> "fA" @@ <<"A", "eq">> :> "p" @@ <<"B", "eq">> :> "q")

\* Undo of a timed cue that is still fading, after a recall that completed.
UndoFade == "A" :> "recall" @@ "B" :> "timed" @@ "U" :> "undo"

Values == {"i", "mid", "hand", "fA", "fB", "fC", "mA", "mB", "mC", "p", "q", "row"}
=============================================================================
