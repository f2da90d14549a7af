------------------------------- MODULE MCLinks -------------------------------
(* Small instances of four components that share no state that the models  *)
(* look at: the GP link, the Pad link, the cue list and a channel's fades. *)
(* One run holds all of them: which one takes steps is chosen at the       *)
(* start, and the others rest in one of their initial states.              *)
EXTENDS GpLink, PadLink, CueList, ChannelFades, TLC

VARIABLE part
linksVars == <<part, gpVars, padVars, cueVars, chVars>>

GpRests == ~gpDesk /\ ~gpOffline
PadRests == padShape = 0 /\ ~padUp /\ padHealth = "Connecting"

\* A channel with a fading EQ and an aux send, muted with everything down or
\* open; a cue that brings it in, one that takes it out, one that moves a level.
Shut == [a \in ChannelAddr |-> IF a = Mute THEN 1 ELSE 0]
Open == [a \in ChannelAddr |-> IF a = Mute THEN 0 ELSE IF a[1] = "level" THEN Top ELSE 1]
BringIn == [fades |-> {"eq"},
            values |-> Mute :> 0 @@ Level("eq") :> 2 @@ Switch("eq") :> 1
                       @@ Level("aux") :> 2 @@ Switch("aux") :> 1]
TakeOut == [fades |-> {"aux"},
            values |-> Mute :> 1 @@ Level("eq") :> 0 @@ Level("aux") :> 0 @@ Switch("aux") :> 0]
MoveOne == [fades |-> {"eq"}, values |-> Level("eq") :> 1]
InThenMove == [desk |-> Shut, cues |-> <<BringIn, MoveOne>>]
InThenOut == [desk |-> Shut, cues |-> <<BringIn, TakeOut>>]
OutThenMove == [desk |-> Open, cues |-> <<TakeOut, MoveOne>>]
ThreeScenes == {InThenMove, InThenOut, OutThenMove}
HandsOn == {Mute, Level("eq"), Switch("aux")}
ChannelRests == chCues = InThenMove.cues

Parts == {"gp", "pad", "cues", "channel"}
LinksInit ==
  /\ part \in Parts
  /\ GpInit /\ PadInit /\ CueInit /\ ChannelInit
  /\ part # "gp" => GpRests
  /\ part # "pad" => PadRests
  /\ part # "channel" => ChannelRests

GpSteps(action) == part = "gp" /\ action /\ UNCHANGED <<part, padVars, cueVars, chVars>>
PadSteps(action) == part = "pad" /\ action /\ UNCHANGED <<part, gpVars, cueVars, chVars>>
CueSteps(action) == part = "cues" /\ action /\ UNCHANGED <<part, gpVars, padVars, chVars>>
ChannelSteps(action) == part = "channel" /\ action /\ UNCHANGED <<part, gpVars, padVars, cueVars>>

LinksNext == \/ GpSteps(GpNext) \/ PadSteps(PadNext) \/ CueSteps(CueNext)
             \/ ChannelSteps(ChannelNext)

\* Each link with the fairness of its own specification.
LinksSpec ==
  /\ LinksInit /\ [][LinksNext]_linksVars
  /\ WF_linksVars(GpSteps(GpTicks))
  /\ \A request \in Requests : WF_linksVars(GpSteps(Answer(request)))
  /\ \A reply \in Replies : WF_linksVars(GpSteps(GpReceives(reply)))
  /\ WF_linksVars(PadSteps(PadTick)) /\ WF_linksVars(PadSteps(PadReceive))
  /\ WF_linksVars(PadSteps(PadAnswer))

\* The types of all four, and the playhead within its list.
LinksTypeOK == part \in Parts /\ GpTypeOK /\ PadTypeOK /\ CueTypeOK /\ ChannelTypeOK

\* Neither link's health lies about its console (connection.rs run_loop,
\* pad_connection.rs): lost after the silence that stands for it, healthy after
\* traffic, and no link is green that has never been answered.
LinksHonest == HealthIsHonest /\ PadHealthIsHonest

\* Both loops come through: a console that stays in reach is found again after any
\* loss (connection.rs), and a sweep ends, its lost queries retried or skipped
\* (pad_connection.rs).
LinksRecover == FoundAgain /\ SweepEnds

\* A channel's cue plays as recall_cue_timed says it does: doors, levels and
\* switches in their order, each fade from where the fader is.
PlaysAsWritten == DoorsInOrder /\ FadesFromHere

\* A list of two cues; an empty show and one with another cue to come.
TwoCues == {<<[id |-> "a", number |-> 1], [id |-> "b", number |-> 2]>>}
OtherShows == {<<>>, <<[id |-> "c", number |-> 1]>>}
=============================================================================
