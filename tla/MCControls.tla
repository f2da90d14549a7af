------------------------------ MODULE MCControls -----------------------------
(* Small instances of what moves controls: the gangs and pan links (two    *)
(* channels in one gang, with one linked section, over one link), the      *)
(* fader sidecar (a fader with touch sensing, one without, an encoder, one *)
(* of them bound to the one parameter), macros, and the Stream Deck that   *)
(* fires them.  They share no state that the models look at.  One run      *)
(* holds them all: which of them takes steps is chosen at the start, and   *)
(* the others rest in one of their initial states.                         *)
EXTENDS Propagation, Sidecar, StreamDeck

CONSTANTS
  A, B,                 \* channels
  touchy, plain, knob,  \* controls
  k1, k2                \* keys

VARIABLE part
controlsVars == <<part, gangVars, sideVars, boardVars>>

\* Macros for the firings alone (one that fires itself, one that fires it), and
\* the same in short for the deck; each is the other's other show.
Kick == [does |-> "toggle", at |-> "mute"]
Raise == [does |-> "set", at |-> "mute", to |-> 1]
Fires(id) == [does |-> "fire", id |-> id]
Go == [does |-> "ask"]
Nested == "m" :> [name |-> "M", marks |-> FALSE, steps |-> <<Kick, Fires("m")>>]
          @@ "n" :> [name |-> "N", marks |-> TRUE, steps |-> <<Fires("m"), Go>>]
Short == "m" :> [name |-> "M", marks |-> FALSE, steps |-> <<Raise>>]
         @@ "n" :> [name |-> "N", marks |-> TRUE, steps |-> <<Go>>]
TwoLists == {Nested, Short}
OnTwoKeys == [l \in TwoLists |-> IF l = Nested THEN k1 :> <<"n">> @@ k2 :> <<"n">>
                                 ELSE k1 :> <<"m", "n">> @@ k2 :> <<>>]

GangsRest ==
  /\ links = CHOOSE l \in LinkSets : TRUE
  /\ gangs = CHOOSE gs \in [Gangs -> GangSettings] : NoOverlap(gs)
SidecarRests == sideTable = CHOOSE t \in Tables : TRUE

Parts == {"gangs", "sidecar", "macros", "deck"}
ControlsInit ==
  /\ part \in Parts
  /\ GangInit /\ SideInit /\ DeckInit
  /\ part # "gangs" => GangsRest
  /\ part # "sidecar" => SidecarRests
  /\ macros = IF part = "deck" THEN Short ELSE Nested

GangSteps(action) == part = "gangs" /\ action /\ UNCHANGED <<part, sideVars, boardVars>>
SideSteps(action) == part = "sidecar" /\ action /\ UNCHANGED <<part, gangVars, boardVars>>
MacroSteps(action) == part = "macros" /\ action /\ UNCHANGED <<part, gangVars, sideVars, deckVars>>
DeckSteps(action) == part = "deck" /\ action /\ UNCHANGED <<part, gangVars, sideVars>>

ControlsNext == \/ GangSteps(GangNext) \/ SideSteps(SideNext) \/ MacroSteps(MacroNext) \/ DeckSteps(DeckNext)

ControlsSpec == ControlsInit /\ [][ControlsNext]_controlsVars

\* Each with the fairness of its own specification.
ControlsFairSpec ==
  /\ ControlsSpec
  /\ WF_gangVars(GangSteps(DeskApply))
  /\ \A l \in LinkLoops : WF_gangVars(GangSteps(ChainStep(l)))

\* The sidecar alone.
SidecarOnly == ControlsInit /\ part = "sidecar" /\ [][ControlsNext]_controlsVars

\* The types of all.
ControlsTypeOK == part \in Parts /\ GangTypeOK /\ SideTypeOK /\ DeckTypeOK

\* What the operator's surfaces show is what they control: a motor fader stands
\* where its parameter is (sidecar_service.rs), and a key of the deck has the
\* name of the macro it fires next (streamdeck_engine.rs).
SurfacesFollow == FaderFollows /\ FaceKept

\* A press plays the macro that is next, that macro plays whole and in order,
\* and the mirror has what it sent (handle_streamdeck_button, macro_engine.rs).
PressesPlay == FiresInTurn /\ RunsWhole /\ MirrorTrue

Pair == {{A, B}}
OneSection == {{"fmp"}, {"sends"}}
OneLink == {{"gp"}, {"pad"}}
Levels == A :> 2 @@ B :> 1
TwoFadersOnePan == {<<A, "fader">>, <<B, "fader">>, <<A, "pan">>}

OneTouchFader == {<<touchy>>}
OneControl == {<<touchy>>, <<plain>>, <<knob>>}
AllOnOne == [c \in Controls |-> "fader"]
=============================================================================
