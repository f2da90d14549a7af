---------------------------- MODULE Links_proofs -----------------------------
(***************************************************************************)
(* The health of both links tells the truth, and a sweep of the Pad link   *)
(* leaves nothing out: theorems about GpLink and PadLink for every setting *)
(* of their thresholds, and about the run that holds both.                 *)
(*                                                                         *)
(* Neither loop looks at how long its console has been silent.  The GP     *)
(* loop counts pings, the Pad loop counts heartbeats, and in a sweep looks *)
(* at the clock; the invariants relate these counts to the silence.        *)
(***************************************************************************)
EXTENDS MCLinks, TLAPS

-----------------------------------------------------------------------------
\* What the proofs need of multiplication and division: one more of the same.
LEMMA TimesNext ==
  ASSUME NEW k \in Int, NEW p \in Int
  PROVE  (k + 1) * p = k * p + p
OBVIOUS

\* More of them are not fewer.
LEMMA TimesMonotone ==
  ASSUME NEW k \in Nat, NEW m \in Nat, NEW p \in Nat, k <= m
  PROVE  k * p <= m * p
OBVIOUS

\* Fewer than k whole intervals have passed before the k-th is over.
LEMMA DivBelow ==
  ASSUME NEW x \in Nat, NEW n \in Nat \ {0}, NEW k \in Nat
  PROVE  x \div n \in Nat /\ (x \div n < k <=> x < k * n)
OBVIOUS

-----------------------------------------------------------------------------
(* The GP link.                                                            *)

\* The pings sent into a silence, the recovery's Max included; how long the
\* silence lasts when the n-th goes out.
Pings == (IF gpRecovery THEN MaxUnansweredPings ELSE 0) + gpUnanswered
PingAt(n) == IdleThreshold + (n - 1) * PingInterval

\* Before the channel counts have come nothing is pinged.
EarlyOK ==
  gpPhase = "counts" =>
    /\ gpHealth = (IF gpConfirmed THEN "Connected" ELSE "Connecting")
    /\ gpWaited < CountsWait

\* Then pings go out into a silence, IdleThreshold after the last datagram and every
\* PingInterval from there; the last of them loses the link, and nothing but a datagram
\* brings it back.
SilenceOK ==
  gpPhase = "mirror" =>
    /\ gpIdle = UpTo(gpSilence, IdleThreshold)
    /\ gpHealth \in {"Connected", "Idle"} => gpConfirmed
    /\ gpSilence < IdleThreshold =>
         gpHealth = (IF gpConfirmed THEN "Connected" ELSE "Connecting")
    /\ gpPingAge = Never => gpSilence < IdleThreshold /\ gpUnanswered = 0 /\ ~gpRecovery
    /\ gpPingAge # Never => gpSilence >= IdleThreshold
    /\ gpPingAge # Never /\ gpHealth # "Lost" =>
         /\ gpSilence = PingAt(Pings) + gpPingAge /\ gpPingAge < PingInterval
         /\ gpUnanswered < MaxUnansweredPings /\ Pings >= 1
    /\ gpHealth = "Lost" =>
         gpRecovery /\ gpUnanswered = MaxUnansweredPings /\ gpPingAge # Never

GpInv == GpTypeOK /\ EarlyOK /\ SilenceOK

\* Each ping goes out an interval after the one before.
LEMMA PingAtNext ==
  ASSUME NEW n \in Int
  PROVE  PingAt(n) \in Int /\ PingAt(n + 1) = PingAt(n) + PingInterval /\ PingAt(1) = IdleThreshold
BY GpAssumption, TimesNext DEF PingAt

\* The last ping before the link is lost goes out an interval before Longest.
LEMMA PingAtLast ==
  ASSUME NEW n \in Nat, 1 <= n, n <= 2 * MaxUnansweredPings - 1
  PROVE  PingAt(n) + PingInterval <= Longest /\ Longest \in Nat /\ IdleThreshold <= Longest
<1>. USE GpAssumption
<1>1. n * PingInterval <= (2 * MaxUnansweredPings - 1) * PingInterval
  BY TimesMonotone
<1>2. (n - 1) * PingInterval + PingInterval = n * PingInterval
  BY TimesNext
<1>3. 0 <= (2 * MaxUnansweredPings - 1) * PingInterval
  BY TimesMonotone
<1>4. n * PingInterval \in Nat /\ (2 * MaxUnansweredPings - 1) * PingInterval \in Nat
  OBVIOUS
<1>. QED BY <1>1, <1>2, <1>3, <1>4 DEF PingAt, Longest

\* Longest is a number of ticks, and not before the first ping.
LEMMA LongestOK == Longest \in Nat /\ IdleThreshold <= Longest
<1>1. 1 \in Nat /\ 1 <= 2 * MaxUnansweredPings - 1
  BY GpAssumption
<1>. QED BY <1>1, PingAtLast

\* The types in three parts: flags, words and numbers.
GpFlags == {gpConfirmed, gpRecovery, gpDesk, gpOffline} \subseteq BOOLEAN
GpWords == /\ gpPhase \in {"counts", "mirror"} /\ gpHealth \in Healths
           /\ gpBar \in {"none", "empty", "filling"}
           /\ gpAsked \subseteq Requests /\ gpArriving \subseteq Replies
GpNumbers == /\ gpWaited \in 0..CountsWait /\ gpIdle \in 0..IdleThreshold
             /\ gpPingAge \in 0..PingInterval \cup {Never}
             /\ gpUnanswered \in 0..MaxUnansweredPings /\ gpDumpAge \in 0..Abandon
             /\ gpTraffic \in 0..MaxTraffic /\ gpOutages \in 0..MaxOutages
             /\ gpSilence \in 0..Longest

\* They are the types.
LEMMA GpTypeParts == GpTypeOK <=> GpFlags /\ GpWords /\ GpNumbers
BY DEF GpTypeOK, GpFlags, GpWords, GpNumbers

\* The link begins without a word from the console.
LEMMA GpInvInit == GpInit => GpInv
<1>. SUFFICES ASSUME GpInit PROVE GpInv
  OBVIOUS
<1>1. GpFlags /\ GpWords
  BY DEF GpInit, GpFlags, GpWords, Healths, Requests
<1>2. GpNumbers
  BY GpAssumption, LongestOK DEF GpInit, GpNumbers
<1>3. EarlyOK /\ SilenceOK
  BY GpAssumption DEF GpInit, EarlyOK, SilenceOK
<1>. QED BY <1>1, <1>2, <1>3, GpTypeParts DEF GpInv

\* Asking for the dump starts a silence of its own.
LEMMA BeginsMirrorOK ==
  ASSUME GpTypeOK, gpPhase = "counts", BeginsMirror, UNCHANGED <<gpWorld>>,
         gpConfirmed' \in BOOLEAN, gpWaited' \in 0..CountsWait,
         gpHealth' = (IF gpConfirmed' THEN "Connected" ELSE "Connecting"),
         gpArriving' \subseteq Replies
  PROVE  GpInv'
<1>1. GpFlags /\ GpWords /\ GpNumbers
  BY GpTypeParts
<1>2. GpFlags'
  BY <1>1 DEF BeginsMirror, gpWorld, GpFlags
<1>3. GpWords'
  BY <1>1 DEF BeginsMirror, GpWords, Healths, Requests, Sends
<1>4. GpNumbers'
  BY <1>1, GpAssumption, LongestOK DEF BeginsMirror, gpWorld, GpNumbers
<1>5. EarlyOK' /\ SilenceOK'
  BY GpAssumption DEF BeginsMirror, EarlyOK, SilenceOK, UpTo
<1>. QED BY <1>2, <1>3, <1>4, <1>5, GpTypeParts DEF GpInv, GpTypeOK, GpFlags, GpWords, GpNumbers

\* A datagram ends the silence.
LEMMA ReceiveOK ==
  ASSUME GpInv, NEW reply \in Replies, GpReceives(reply)
  PROVE  GpInv'
<1>0. GpFlags /\ GpWords /\ GpNumbers /\ GpTypeOK /\ EarlyOK /\ SilenceOK
  BY GpTypeParts DEF GpInv
<1>. SUFFICES \/ GpInv'
              \/ GpFlags' /\ GpWords' /\ GpNumbers' /\ EarlyOK' /\ SilenceOK'
  BY DEF GpInv, GpTypeOK, GpFlags, GpWords, GpNumbers
<1>1. CASE ReceiveEarly(reply)
  <2>1. CASE reply = "counts"
    <3>1. gpConfirmed' = TRUE /\ gpWaited' = gpWaited /\ gpHealth' = "Connected"
          /\ BeginsMirror /\ UNCHANGED <<gpWorld>> /\ gpPhase = "counts"
          /\ gpArriving' \subseteq Replies
      BY <1>0, <1>1, <2>1 DEF ReceiveEarly, GpWords
    <3>2. gpWaited \in 0..CountsWait
      BY <1>0 DEF GpNumbers
    <3>. QED BY <1>0, <3>1, <3>2, BeginsMirrorOK
  <2>2. CASE reply # "counts"
    <3>1. GpFlags'
      BY <1>0, <1>1, <2>2 DEF ReceiveEarly, gpWorld, GpFlags
    <3>2. GpWords'
      BY <1>0, <1>1, <2>2 DEF ReceiveEarly, GpWords, Healths
    <3>3. GpNumbers'
      BY <1>0, <1>1, <2>2, LongestOK DEF ReceiveEarly, gpWorld, GpNumbers
    <3>4. EarlyOK' /\ SilenceOK'
      BY <1>0, <1>1, <2>2 DEF ReceiveEarly, EarlyOK, SilenceOK
    <3>. QED BY <3>1, <3>2, <3>3, <3>4
  <2>. QED BY <2>1, <2>2
<1>2. CASE Receive(reply)
  <2>1. GpFlags'
    BY <1>0, <1>2 DEF Receive, Alive, gpWorld, GpFlags
  <2>2. GpWords'
    BY <1>0, <1>2 DEF Receive, Alive, GpWords, Healths
  <2>3. GpNumbers'
    BY <1>0, <1>2, GpAssumption, LongestOK DEF Receive, Alive, gpWorld, GpNumbers
  <2>4. EarlyOK' /\ SilenceOK'
    BY <1>0, <1>2, GpAssumption DEF Receive, Alive, EarlyOK, SilenceOK, UpTo
  <2>. QED BY <2>1, <2>2, <2>3, <2>4
<1>3. CASE DropOffline(reply)
  <2>1. GpFlags' /\ GpWords' /\ GpNumbers'
    BY <1>0, <1>3 DEF DropOffline, gpLoop, gpWorld, GpFlags, GpWords, GpNumbers
  <2>2. EarlyOK' /\ SilenceOK'
    BY <1>0, <1>3 DEF DropOffline, gpLoop, gpWorld, EarlyOK, SilenceOK, Pings
  <2>. QED BY <2>1, <2>2
<1>. QED BY <1>1, <1>2, <1>3 DEF GpReceives

\* A tick of the loop, types first.
LEMMA TickTypes ==
  ASSUME GpTypeOK, Tick
  PROVE  GpFlags' /\ GpWords' /\ GpNumbers'
<1>0. GpFlags /\ GpWords /\ GpNumbers
  BY GpTypeParts
<1>1. gpIdle' \in 0..IdleThreshold /\ gpSilence' \in 0..Longest
  BY <1>0, GpAssumption, LongestOK DEF Tick, Passes, UpTo, GpNumbers
<1>2. gpPingAge' \in 0..PingInterval \cup {Never}
  BY <1>0, GpAssumption DEF Tick, UpTo, GpNumbers
<1>3. ASSUME DumpTick
      PROVE  gpBar' \in {"none", "empty", "filling"} /\ gpDumpAge' \in 0..Abandon
  BY <1>0, <1>3, GpAssumption DEF DumpTick, UpTo, GpWords, GpNumbers
<1>. DEFINE Rest == /\ gpHealth' \in Healths /\ gpRecovery' \in BOOLEAN
                    /\ gpUnanswered' \in 0..MaxUnansweredPings /\ gpAsked' \subseteq Requests
                    /\ gpBar' \in {"none", "empty", "filling"} /\ gpDumpAge' \in 0..Abandon
<1>4. ASSUME PingRecovers PROVE Rest
  BY <1>0, <1>4, GpAssumption DEF PingRecovers, Sends, GpWords, Healths, Requests
<1>5. ASSUME PingLoses PROVE Rest
  <2>1. gpUnanswered' \in 0..MaxUnansweredPings /\ gpDumpAge' \in 0..Abandon
    BY <1>0, <1>5, GpAssumption DEF PingLoses, UpTo, GpNumbers
  <2>2. gpAsked' \subseteq Requests
    BY <1>0, <1>5 DEF PingLoses, Sends, GpWords, Requests
  <2>. QED BY <1>0, <1>5, <2>1, <2>2 DEF PingLoses, GpFlags, Healths
<1>6. ASSUME ~LastPing, PingHopes, DumpTick PROVE Rest
  <2>1. gpUnanswered' \in 0..MaxUnansweredPings
    BY <1>0, <1>6, GpAssumption DEF LastPing, PingHopes, GpNumbers
  <2>2. gpAsked' \subseteq Requests
    BY <1>0, <1>6 DEF PingHopes, Sends, GpWords, Requests
  <2>3. gpHealth' \in Healths /\ gpRecovery' \in BOOLEAN
    BY <1>0, <1>6 DEF PingHopes, GpFlags, Healths
  <2>. QED BY <1>3, <1>6, <2>1, <2>2, <2>3
<1>7. ASSUME ~PingDue PROVE Rest
  BY <1>0, <1>3, <1>7 DEF Tick, GpFlags, GpWords, GpNumbers
<1>8. Rest
  BY <1>4, <1>5, <1>6, <1>7 DEF Tick
<1>. HIDE DEF Rest
<1>9. GpFlags'
  BY <1>0, <1>8 DEF Rest, Tick, GpFlags, gpWorld
<1>10. GpWords'
  BY <1>0, <1>8 DEF Rest, Tick, GpWords
<1>11. GpNumbers'
  BY <1>0, <1>1, <1>2, <1>8 DEF Rest, Tick, GpNumbers, gpWorld
<1>. QED BY <1>9, <1>10, <1>11

\* The pings keep count of the silence.
LEMMA TickSilence ==
  ASSUME GpInv, Tick
  PROVE  EarlyOK' /\ SilenceOK'
<1>. DEFINE I == IdleThreshold
            P == PingInterval
            M == MaxUnansweredPings
<1>0. GpFlags /\ GpWords /\ GpNumbers /\ SilenceOK
  BY GpTypeParts DEF GpInv
<1>1. gpPhase = "mirror" /\ gpPhase' = "mirror" /\ gpConfirmed' = gpConfirmed
  BY DEF Tick
<1>2. I \in Nat /\ I >= 1 /\ P \in Nat /\ P >= 1 /\ M \in Nat /\ M >= 1 /\ Never \notin Int
  BY GpAssumption
<1>3. /\ gpIdle = UpTo(gpSilence, I) /\ gpIdle' = UpTo(gpIdle + 1, I)
      /\ gpSilence' = UpTo(gpSilence + 1, Longest)
      /\ gpSilence \in Nat /\ gpSilence <= Longest /\ Longest \in Nat /\ I <= Longest
  BY <1>0, <1>1, LongestOK DEF SilenceOK, Tick, Passes, GpNumbers
<1>4. gpIdle' = UpTo(gpSilence', I)
  BY <1>2, <1>3 DEF UpTo
<1>5. Pings \in Nat /\ gpUnanswered \in 0..M /\ gpRecovery \in BOOLEAN
  BY <1>0, <1>2 DEF GpNumbers, GpFlags, Pings
\* The silence of a link that is not lost is within Longest, and goes on.
<1>6. ASSUME gpPingAge # Never, gpHealth # "Lost"
      PROVE  /\ gpSilence = PingAt(Pings) + gpPingAge /\ gpPingAge \in 0..(P - 1)
             /\ PingAt(Pings) \in Int /\ PingAt(Pings + 1) = PingAt(Pings) + P
             /\ gpSilence' = gpSilence + 1
  <2>1. /\ gpSilence = PingAt(Pings) + gpPingAge /\ gpPingAge \in 0..(P - 1)
        /\ gpUnanswered < M /\ Pings >= 1
    BY <1>0, <1>1, <1>2, <1>6 DEF SilenceOK, GpNumbers
  <2>2. Pings <= 2 * M - 1
    BY <1>2, <1>5, <2>1 DEF Pings
  <2>3. PingAt(Pings) \in Int /\ PingAt(Pings + 1) = PingAt(Pings) + P
    BY <1>5, PingAtNext
  <2>4. PingAt(Pings) + P <= Longest
    BY <1>5, <2>1, <2>2, PingAtLast
  <2>. QED BY <1>2, <1>3, <2>1, <2>3, <2>4 DEF UpTo
<1>7. CASE ~PingDue
  <2>1. UNCHANGED <<gpHealth, gpUnanswered, gpRecovery>> /\ Pings' = Pings
    BY <1>7 DEF Tick, Pings
  <2>2. CASE gpPingAge = Never
    <3>1. gpPingAge' = Never /\ gpSilence + 1 < I
      BY <1>0, <1>1, <1>2, <1>3, <1>7, <2>2 DEF Tick, PingDue, SilenceOK, UpTo
    <3>2. gpSilence' < I
      BY <1>2, <1>3, <3>1 DEF UpTo
    <3>. QED BY <1>0, <1>1, <1>4, <2>1, <2>2, <3>1, <3>2 DEF SilenceOK, EarlyOK
  <2>3. CASE gpPingAge # Never
    <3>1. gpPingAge' = UpTo(gpPingAge + 1, P) /\ gpPingAge \in 0..P /\ gpSilence >= I
      BY <1>0, <1>1, <1>7, <2>3 DEF Tick, SilenceOK, GpNumbers
    <3>2. gpSilence' >= I /\ gpPingAge' # Never
      BY <1>2, <1>3, <3>1 DEF UpTo
    <3>3. gpPingAge + 1 < P
      BY <1>2, <1>3, <1>7, <2>3, <3>1 DEF PingDue, UpTo
    <3>4. ASSUME gpHealth # "Lost"
          PROVE  gpSilence' = PingAt(Pings) + gpPingAge' /\ gpPingAge' < P
      BY <1>2, <1>6, <2>3, <3>1, <3>3, <3>4 DEF UpTo
    <3>5. gpSilence' \in Int /\ ~(gpSilence' < I)
      BY <1>2, <1>3, <3>2 DEF UpTo
    <3>. QED BY <1>0, <1>1, <1>4, <2>1, <2>3, <3>2, <3>4, <3>5 DEF SilenceOK, EarlyOK, PingAt
  <2>. QED BY <2>2, <2>3
<1>8. CASE PingDue
  <2>1. gpPingAge' = 0 /\ gpPingAge' # Never
    BY <1>2, <1>8 DEF Tick
  <2>2. gpSilence' >= I
    BY <1>2, <1>3, <1>8 DEF PingDue, UpTo
  <2>3. ASSUME gpHealth # "Lost" PROVE gpSilence' = PingAt(Pings + 1)
    <3>1. CASE gpPingAge = Never
      <4>1. Pings = 0 /\ gpSilence < I
        BY <1>0, <1>1, <3>1 DEF SilenceOK, Pings
      <4>2. gpSilence' = I
        BY <1>2, <1>3, <2>2, <4>1 DEF UpTo
      <4>. QED BY <4>1, <4>2, PingAtNext
    <3>2. CASE gpPingAge # Never
      <4>1. gpPingAge + 1 = P
        BY <1>2, <1>6, <1>8, <2>3, <3>2 DEF PingDue
      <4>. QED BY <1>2, <1>6, <2>3, <3>2, <4>1
    <3>. QED BY <3>1, <3>2
  <2>4. gpHealth = "Lost" => gpRecovery /\ gpUnanswered = M
    BY <1>0, <1>1 DEF SilenceOK
  <2>5. CASE LastPing /\ ~gpRecovery /\ PingRecovers
    <3>1. gpHealth # "Lost" /\ gpUnanswered < M
      BY <1>0, <1>1, <1>2, <2>4, <2>5 DEF SilenceOK
    <3>2. gpUnanswered + 1 = M
      BY <1>2, <1>5, <2>5, <3>1 DEF LastPing
    <3>3. Pings' = Pings + 1 /\ Pings' >= 1
      BY <1>2, <1>5, <2>5, <3>2 DEF PingRecovers, Pings
    <3>4. gpSilence' = PingAt(Pings') + 0
      BY <1>5, <2>3, <3>1, <3>3, PingAtNext
    <3>. QED BY <1>1, <1>2, <1>4, <2>1, <2>2, <2>5, <3>3, <3>4
             DEF PingRecovers, SilenceOK, EarlyOK, PingAt
  <2>6. CASE LastPing /\ gpRecovery /\ PingLoses
    <3>1. gpUnanswered' = M
      BY <1>2, <1>5, <2>6 DEF LastPing, PingLoses, UpTo
    <3>2. gpSilence' \in Int /\ ~(gpSilence' < I)
      BY <1>2, <1>3, <2>2 DEF UpTo
    <3>. QED BY <1>1, <1>4, <2>1, <2>2, <2>6, <3>1, <3>2 DEF PingLoses, SilenceOK, EarlyOK
  <2>7. CASE ~LastPing /\ PingHopes
    <3>1. gpUnanswered + 1 < M
      BY <1>2, <1>5, <2>7 DEF LastPing
    <3>2. gpHealth # "Lost"
      BY <1>2, <2>4, <3>1
    <3>3. Pings' = Pings + 1 /\ Pings' >= 1 /\ gpUnanswered' < M
      BY <1>2, <1>5, <2>7, <3>1 DEF PingHopes, Pings
    <3>4. gpSilence' = PingAt(Pings') + 0
      BY <1>5, <2>3, <3>2, <3>3, PingAtNext
    <3>5. gpHealth' = (IF gpConfirmed THEN "Idle" ELSE "Connecting")
      BY <2>7 DEF PingHopes
    <3>. QED BY <1>1, <1>2, <1>4, <2>1, <2>2, <3>3, <3>4, <3>5 DEF SilenceOK, EarlyOK, PingAt
  <2>. QED BY <1>8, <2>5, <2>6, <2>7 DEF Tick
<1>. QED BY <1>7, <1>8

\* So does the wait for the channel counts, and a wait that ends.
LEMMA TickEarlyOK ==
  ASSUME GpInv, TickEarly
  PROVE  GpInv'
<1>0. GpFlags /\ GpWords /\ GpNumbers /\ GpTypeOK /\ EarlyOK /\ SilenceOK
  BY GpTypeParts DEF GpInv
<1>1. gpPhase = "counts" /\ gpWaited \in Nat /\ gpWaited < CountsWait /\ gpWaited' = gpWaited + 1
  BY <1>0 DEF TickEarly, EarlyOK, GpNumbers
<1>2. CASE gpWaited + 1 >= CountsWait
  <2>1. gpConfirmed' \in BOOLEAN /\ gpHealth' = (IF gpConfirmed' THEN "Connected" ELSE "Connecting")
    BY <1>0, <1>1, <1>2 DEF TickEarly, EarlyOK, GpFlags
  <2>2. BeginsMirror /\ UNCHANGED <<gpWorld>> /\ gpArriving' \subseteq Replies
    BY <1>0, <1>1, <1>2 DEF TickEarly, GpWords
  <2>3. gpWaited' \in 0..CountsWait
    BY <1>1, GpAssumption
  <2>. QED BY <1>0, <1>1, <2>1, <2>2, <2>3, BeginsMirrorOK
<1>3. CASE ~(gpWaited + 1 >= CountsWait)
  <2>1. GpFlags' /\ GpWords'
    BY <1>0, <1>3 DEF TickEarly, gpWorld, GpFlags, GpWords
  <2>2. GpNumbers'
    BY <1>0, <1>1, <1>3, GpAssumption, LongestOK DEF TickEarly, gpWorld, Passes, UpTo, GpNumbers
  <2>3. EarlyOK' /\ SilenceOK'
    BY <1>0, <1>1, <1>3, GpAssumption DEF TickEarly, EarlyOK, SilenceOK
  <2>. QED BY <2>1, <2>2, <2>3 DEF GpInv, GpTypeOK, GpFlags, GpWords, GpNumbers
<1>. QED BY <1>2, <1>3

\* The console, the network and the operator leave the loop alone.
LEMMA WorldOK ==
  ASSUME GpInv,
         DeskMove \/ Outage \/ (\E request \in Requests : Answer(request))
           \/ (\E reply \in Replies : Lose(reply)) \/ UNCHANGED gpVars
  PROVE  GpInv'
<1>0. GpFlags /\ GpWords /\ GpNumbers /\ GpTypeOK /\ EarlyOK /\ SilenceOK
  BY GpTypeParts DEF GpInv
<1>1. UNCHANGED <<gpLoop, gpSilence>>
  BY DEF DeskMove, Outage, Answer, Lose, gpVars
<1>2. EarlyOK' /\ SilenceOK'
  BY <1>0, <1>1 DEF gpLoop, EarlyOK, SilenceOK, Pings
<1>3. GpFlags'
  BY <1>0, <1>1 DEF gpLoop, gpWorld, gpVars, DeskMove, Outage, Answer, Lose, GpFlags
<1>4. GpWords'
  <2>1. ASSUME NEW request \in Requests, Answer(request) PROVE GpWords'
    <3>1. ReplyTo(request) \in Replies
      BY DEF ReplyTo, Requests, Replies
    <3>. QED BY <1>0, <1>1, <2>1, <3>1 DEF Answer, gpLoop, GpWords
  <2>. QED BY <1>0, <1>1, <2>1 DEF gpLoop, gpVars, DeskMove, Outage, Lose, GpWords, Replies
<1>5. GpNumbers'
  BY <1>0, <1>1, GpAssumption DEF gpLoop, gpWorld, gpVars, DeskMove, Outage, Answer, Lose, GpNumbers
<1>. QED BY <1>2, <1>3, <1>4, <1>5 DEF GpInv, GpTypeOK, GpFlags, GpWords, GpNumbers

\* Every step of the GP link keeps the invariant.
LEMMA GpInvNext == GpInv /\ [GpNext]_gpVars => GpInv'
<1>. SUFFICES ASSUME GpInv, [GpNext]_gpVars PROVE GpInv'
  OBVIOUS
<1>1. CASE Tick
  <2>1. GpTypeOK
    BY DEF GpInv
  <2>2. GpFlags' /\ GpWords' /\ GpNumbers' /\ EarlyOK' /\ SilenceOK'
    BY <1>1, <2>1, TickTypes, TickSilence
  <2>. QED BY <2>2 DEF GpInv, GpTypeOK, GpFlags, GpWords, GpNumbers
<1>2. CASE TickEarly
  BY <1>2, TickEarlyOK
<1>3. ASSUME NEW reply \in Replies, GpReceives(reply) PROVE GpInv'
  BY <1>3, ReceiveOK
<1>4. CASE DeskMove \/ Outage \/ (\E request \in Requests : Answer(request))
             \/ (\E reply \in Replies : Lose(reply)) \/ UNCHANGED gpVars
  BY <1>4, WorldOK
<1>. QED BY <1>1, <1>2, <1>3, <1>4 DEF GpNext, GpTicks

\* The invariant says of the health what HealthIsHonest asks.
LEMMA GpHonest == GpInv => GpTypeOK /\ HealthIsHonest
<1>. SUFFICES ASSUME GpInv PROVE HealthIsHonest
  BY DEF GpInv
<1>0. GpFlags /\ GpWords /\ GpNumbers /\ EarlyOK /\ SilenceOK
  BY GpTypeParts DEF GpInv
<1>1. ASSUME gpPhase = "mirror", gpSilence >= Longest PROVE gpHealth = "Lost"
  <2>1. SUFFICES ASSUME gpHealth # "Lost" PROVE FALSE
    OBVIOUS
  <2>2. gpSilence \in Nat /\ IdleThreshold \in Nat /\ PingInterval \in Nat /\ MaxUnansweredPings \in Nat
    BY <1>0, GpAssumption, LongestOK DEF GpNumbers
  <2>3. gpPingAge # Never
    BY <1>0, <1>1, <2>2, LongestOK DEF SilenceOK
  <2>4. /\ gpSilence = PingAt(Pings) + gpPingAge /\ gpPingAge < PingInterval
        /\ gpUnanswered < MaxUnansweredPings /\ Pings >= 1 /\ gpPingAge \in Int
    BY <1>0, <1>1, <2>1, <2>3, GpAssumption DEF SilenceOK, GpNumbers
  <2>5. Pings \in Nat /\ Pings <= 2 * MaxUnansweredPings - 1
    BY <1>0, <2>2, <2>4 DEF Pings, GpNumbers, GpFlags
  <2>6. PingAt(Pings) + PingInterval <= Longest /\ PingAt(Pings) \in Int /\ Longest \in Nat
    BY <2>4, <2>5, PingAtLast, PingAtNext, LongestOK
  <2>. QED BY <1>1, <2>2, <2>4, <2>6
<1>2. ASSUME gpSilence < IdleThreshold, gpConfirmed PROVE gpHealth = "Connected"
  BY <1>0, <1>2 DEF EarlyOK, SilenceOK, GpWords
<1>3. ASSUME gpHealth \in {"Connected", "Idle"} PROVE gpConfirmed
  BY <1>0, <1>3 DEF EarlyOK, SilenceOK, GpWords
<1>. QED BY <1>1, <1>2, <1>3 DEF HealthIsHonest

\* The GP link alone: its types, and a health that tells the truth, whatever the
\* thresholds are and however the link got there.
THEOREM GpHealthCorrect == GpSpec => [](GpTypeOK /\ HealthIsHonest)
<1>1. GpSpec => []GpInv
  BY GpInvInit, GpInvNext, PTL DEF GpSpec
<1>. QED BY <1>1, GpHonest, PTL

-----------------------------------------------------------------------------
(* The Pad link.                                                           *)

\* The types in three parts: flags, words and numbers.
PadFlags == {padBeatOut, padUp, padPrompt} \subseteq BOOLEAN
PadWords ==
  /\ padHealth \in PadHealths /\ padFlight \in Swept \cup {NoQuery}
  /\ padBusy \in Queries \cup {NoQuery} /\ padArriving \in Seq(Queries \cup {Push})
  /\ padKnown \subseteq Swept
PadNumbers ==
  /\ padShape \in 0..PadParams /\ padTotal \in 0..PadParams /\ padNext \in 1..(PadParams + 1)
  /\ padAttempts \in 0..QueryRetries /\ padFlightAge \in 0..QueryTimeout
  /\ padBeatAge \in 0..HeartbeatInterval /\ padMisses \in 0..MissesLost
  /\ padSilent \in 0..PadLongest
  /\ padPushes \in 0..MaxPushes /\ padTraffic \in 0..MaxPadTraffic
  /\ padOutages \in 0..MaxPadOutages

\* They are the types.
LEMMA PadTypeParts == PadTypeOK <=> PadFlags /\ PadWords /\ PadNumbers
BY DEF PadTypeOK, PadFlags, PadWords, PadNumbers

\* While no heartbeat is out nothing has been missed, and the silence is no longer than
\* the time since the last beat, or the next beat is due at once.
BeatInOK ==
  ~padBeatOut =>
    /\ padMisses = 0
    /\ padSilent <= padBeatAge \/ padBeatAge = HeartbeatInterval
    /\ padHealth # "Lost" => padSilent < MissesLost * HeartbeatInterval

\* Once one is out there is no sweep, and each beat missed stands for an interval.
BeatOutOK ==
  padBeatOut =>
    /\ ~Sweeping /\ padBeatAge < HeartbeatInterval
    /\ padMisses * HeartbeatInterval + padBeatAge <= padSilent
    /\ padHealth # "Lost" => padSilent <= MissesLost * HeartbeatInterval + padBeatAge

\* The health is not worse than the silence.
SilentOK ==
  padHealth \in {"Stale", "Lost"} => padSilent >= MissesStale * HeartbeatInterval

PadBeatInv == BeatInOK /\ BeatOutOK /\ SilentOK

\* Where the sweep is: what is asked for is the last parameter handed out, and none is
\* left to hand out when nothing is asked for.
SweepOK ==
  /\ padFlight # NoQuery => padFlight = padNext - 1
  /\ padFlight = NoQuery => padNext > padTotal

\* With a console that answers in time: its push is still to come, or the sweep goes up
\* to the last parameter and has found all it has left behind; what it asks for again is
\* not dropped.
PushDue == \E i \in DOMAIN padArriving : padArriving[i] = Push
FoundOK ==
  padPrompt =>
    /\ padUp
    /\ ~PushDue => /\ padTotal = PadParams
                   /\ \A n \in Swept : n < padNext /\ n # padFlight => n \in padKnown
    /\ padFlight # NoQuery /\ padAttempts >= 1 =>
         padBusy = padFlight \/ \E i \in DOMAIN padArriving : padArriving[i] = padFlight

PadInv == PadFlags /\ PadWords /\ PadNumbers /\ PadBeatInv /\ SweepOK /\ FoundOK

\* The spans of silence that the thresholds stand for.
LEMMA Spans ==
  /\ HeartbeatInterval \in Nat /\ HeartbeatInterval >= 1
  /\ MissesStale * HeartbeatInterval \in Nat /\ MissesLost * HeartbeatInterval \in Nat
  /\ HeartbeatInterval <= MissesStale * HeartbeatInterval
  /\ MissesStale * HeartbeatInterval <= MissesLost * HeartbeatInterval
  /\ (MissesLost + 1) * HeartbeatInterval = MissesLost * HeartbeatInterval + HeartbeatInterval
  /\ PadLongest = MissesLost * HeartbeatInterval + 2 * HeartbeatInterval
  /\ PadLongest \in Nat
<1>. DEFINE H == HeartbeatInterval
            S == MissesStale
            L == MissesLost
<1>1. /\ H \in Nat /\ H >= 1 /\ S \in Nat /\ S >= 1 /\ L \in Nat /\ S <= L
  BY PadAssumption
<1>2. S * H \in Nat /\ L * H \in Nat
  BY <1>1
<1>3. 1 * H <= S * H /\ S * H <= L * H
  BY <1>1, TimesMonotone
<1>4. (L + 1) * H = L * H + H /\ (L + 2) * H = L * H + 2 * H
  BY <1>1
<1>. QED BY <1>1, <1>2, <1>3, <1>4 DEF PadLongest

\* NoQuery is no parameter and no push.
LEMMA NoQueryApart ==
  /\ NoQuery \notin Int /\ NoQuery \notin Queries /\ NoQuery # Push
  /\ Swept \subseteq Queries /\ Push \notin Queries /\ NameQuery \in Queries /\ NameQuery \notin Swept
  /\ PadParams \in Nat /\ PadParams >= 1
BY PadAssumption DEF Queries, Swept, Push, NameQuery

\* A query that is sent keeps the types.
LEMMA SendNextTypes ==
  ASSUME PadWords, PadNumbers, NEW n \in 1..(PadParams + 1), NEW total \in 0..PadParams,
         SendNext(n, total)
  PROVE  /\ padTotal' \in 0..PadParams /\ padNext' \in 1..(PadParams + 1)
         /\ padFlight' \in Swept \cup {NoQuery} /\ padBusy' \in Queries \cup {NoQuery}
         /\ padAttempts' \in 0..QueryRetries /\ padFlightAge' \in 0..QueryTimeout
         /\ padFlight' # NoQuery => padFlight' = padNext' - 1
         /\ padFlight' = NoQuery => padNext' > padTotal'
<1>1. padTotal' = total /\ padAttempts' = 0 /\ padFlightAge' = 0
  BY DEF SendNext
<1>2. QueryRetries \in Nat /\ QueryTimeout \in Nat
  BY PadAssumption
<1>3. CASE n <= total
  <2>1. padFlight' = n /\ padNext' = n + 1 /\ padBusy' = Asked(n) /\ n \in Swept
    BY <1>3, NoQueryApart DEF SendNext, Swept
  <2>2. padBusy' \in Queries \cup {NoQuery}
    BY <2>1, NoQueryApart DEF Asked, PadWords
  <2>. QED BY <1>1, <1>2, <1>3, <2>1, <2>2, NoQueryApart
<1>4. CASE ~(n <= total)
  <2>1. padFlight' = NoQuery /\ padNext' = n /\ padBusy' = padBusy
    BY <1>4 DEF SendNext
  <2>. QED BY <1>1, <1>2, <1>4, <2>1, NoQueryApart DEF PadWords
<1>. QED BY <1>3, <1>4

\* The link begins with a sweep, or with a push to come.
LEMMA PadInvInit == PadInit => PadInv
<1>. SUFFICES ASSUME PadInit PROVE PadInv
  OBVIOUS
<1>1. padShape \in 0..PadParams
  <2>1. padShape \in EarlyShapes \cup {PadParams}
    BY DEF PadInit
  <2>2. EarlyShapes \subseteq 0..PadParams /\ PadParams \in 0..PadParams
    BY PadAssumption, NoQueryApart
  <2>. QED BY <2>1, <2>2
<1>2. PadFlags
  BY DEF PadInit, PadFlags
<1>3. 1 \in Swept
  BY NoQueryApart DEF Swept
<1>4. PadWords
  <2>1. padFlight \in Swept \cup {NoQuery} /\ padBusy \in Queries \cup {NoQuery}
    BY <1>3, NoQueryApart DEF PadInit
  <2>2. padArriving \in Seq(Queries \cup {Push})
    <3>1. padArriving = <<Push>> \/ padArriving = <<>>
      BY DEF PadInit
    <3>2. <<Push>> \in Seq(Queries \cup {Push}) /\ <<>> \in Seq(Queries \cup {Push})
      OBVIOUS
    <3>. QED BY <3>1, <3>2
  <2>. QED BY <2>1, <2>2 DEF PadInit, PadWords, PadHealths
<1>5. PadNumbers
  BY <1>1, PadAssumption, Spans DEF PadInit, PadNumbers
<1>6. PadBeatInv
  <2>1. /\ ~padBeatOut /\ padMisses = 0 /\ padSilent = 0 /\ padBeatAge = 0
        /\ padHealth \in {"Connecting", "Connected"}
    BY DEF PadInit
  <2>2. 0 < MissesLost * HeartbeatInterval
    BY Spans
  <2>. QED BY <2>1, <2>2 DEF PadBeatInv, BeatInOK, BeatOutOK, SilentOK
<1>7. SweepOK
  BY NoQueryApart DEF PadInit, SweepOK
<1>8. FoundOK
  <2>1. CASE padUp /\ padShape # PadParams
    <3>1. padArriving = <<Push>> /\ padAttempts = 0
      BY <2>1 DEF PadInit
    <3>2. 1 \in DOMAIN padArriving /\ padArriving[1] = Push
      BY <3>1
    <3>. QED BY <2>1, <3>1, <3>2 DEF FoundOK, PushDue
  <2>2. CASE padUp /\ padShape = PadParams
    <3>1. padTotal = PadParams /\ padNext = 2 /\ padFlight = 1 /\ padAttempts = 0
      BY <2>2, NoQueryApart DEF PadInit
    <3>2. \A n \in Swept : n < padNext /\ n # padFlight => n \in padKnown
      BY <3>1 DEF Swept
    <3>. QED BY <2>2, <3>1, <3>2 DEF FoundOK
  <2>3. CASE ~padUp
    BY <2>3 DEF FoundOK, PadInit
  <2>. QED BY <2>1, <2>2, <2>3
<1>. QED BY <1>2, <1>4, <1>5, <1>6, <1>7, <1>8 DEF PadInv

\* What comes in keeps the types and ends the silence; a push starts the sweep anew,
\* and what was asked for moves it on.
LEMMA PadReceiveOK ==
  ASSUME PadInv, PadReceive
  PROVE  PadInv'
<1>0. PadFlags /\ PadWords /\ PadNumbers /\ SweepOK /\ FoundOK
  BY DEF PadInv
<1>. DEFINE msg == Head(padArriving)
            q == padArriving
<1>1. /\ q # <<>> /\ q \in Seq(Queries \cup {Push}) /\ padUp
      /\ padArriving' = Tail(q) /\ PadAlive
      /\ UNCHANGED <<padBeatAge, padUp, padPrompt, padBounds>>
      /\ padShape' = (IF Resync(msg) THEN PadParams ELSE padShape)
      /\ padKnown' = (IF Resync(msg) THEN {} ELSE padKnown \cup ({msg} \cap Swept))
  BY <1>0 DEF PadReceive, PadWords
<1>2. /\ msg \in Queries \cup {Push} /\ Tail(q) \in Seq(Queries \cup {Push})
      /\ Len(q) \in Nat /\ Len(q) >= 1 /\ msg = q[1] /\ Len(Tail(q)) = Len(q) - 1
      /\ \A i \in 1..(Len(q) - 1) : Tail(q)[i] = q[i + 1]
  BY <1>1
<1>3. \/ Resync(msg) /\ SendNext(1, PadParams)
      \/ ~Resync(msg) /\ Answers(msg) /\ SendNext(padNext, padTotal)
      \/ ~Resync(msg) /\ ~Answers(msg) /\ UNCHANGED <<padSweep, padBusy>>
  BY DEF PadReceive
<1>4. /\ padTotal' \in 0..PadParams /\ padNext' \in 1..(PadParams + 1)
      /\ padFlight' \in Swept \cup {NoQuery} /\ padBusy' \in Queries \cup {NoQuery}
      /\ padAttempts' \in 0..QueryRetries /\ padFlightAge' \in 0..QueryTimeout
      /\ SweepOK'
  <2>1. CASE Resync(msg) /\ SendNext(1, PadParams)
    <3>1. 1 \in 1..(PadParams + 1) /\ PadParams \in 0..PadParams
      BY NoQueryApart
    <3>. QED BY <1>0, <2>1, <3>1, SendNextTypes DEF SweepOK
  <2>2. CASE SendNext(padNext, padTotal)
    <3>1. padNext \in 1..(PadParams + 1) /\ padTotal \in 0..PadParams
      BY <1>0 DEF PadNumbers
    <3>. QED BY <1>0, <2>2, <3>1, SendNextTypes DEF SweepOK
  <2>3. CASE UNCHANGED <<padSweep, padBusy>>
    BY <1>0, <2>3 DEF padSweep, PadWords, PadNumbers, SweepOK
  <2>. QED BY <1>3, <2>1, <2>2, <2>3
<1>5. PadFlags'
  BY <1>0, <1>1 DEF PadAlive, PadFlags
<1>6. PadWords'
  <2>1. padKnown' \subseteq Swept
    BY <1>0, <1>1 DEF PadWords
  <2>. QED BY <1>1, <1>2, <1>4, <2>1 DEF PadAlive, PadWords, PadHealths
<1>7. PadNumbers'
  <2>1. padShape' \in 0..PadParams
    BY <1>0, <1>1, NoQueryApart DEF PadNumbers
  <2>2. padMisses' \in 0..MissesLost /\ padSilent' \in 0..PadLongest
    BY <1>1, Spans, PadAssumption DEF PadAlive
  <2>. QED BY <1>0, <1>1, <1>4, <2>1, <2>2 DEF padBounds, PadNumbers
<1>8. PadBeatInv'
  <2>1. /\ ~padBeatOut' /\ padMisses' = 0 /\ padSilent' = 0 /\ padBeatAge' \in Nat
        /\ padHealth' = "Connected"
    BY <1>0, <1>1 DEF PadAlive, PadNumbers
  <2>2. 0 < MissesLost * HeartbeatInterval
    BY Spans
  <2>. QED BY <2>1, <2>2 DEF PadBeatInv, BeatInOK, BeatOutOK, SilentOK
<1>9. FoundOK'
  <2>. SUFFICES ASSUME padPrompt PROVE FoundOK'
    BY <1>1 DEF FoundOK
  <2>1. Resync(msg) <=> msg = Push
    BY DEF Resync
  <2>2. ASSUME ~PushDue', ~Resync(msg) PROVE ~PushDue
    <3>1. SUFFICES ASSUME NEW i \in DOMAIN q, q[i] = Push PROVE FALSE
      BY DEF PushDue
    <3>2. i # 1 /\ i \in 1..Len(q)
      BY <1>1, <1>2, <2>1, <2>2, <3>1
    <3>3. i - 1 \in DOMAIN padArriving' /\ padArriving'[i - 1] = Push
      BY <1>1, <1>2, <3>1, <3>2
    <3>. QED BY <2>2, <3>3 DEF PushDue
  <2>3. CASE Resync(msg) /\ SendNext(1, PadParams)
    <3>1. /\ padTotal' = PadParams /\ padFlight' = 1 /\ padNext' = 2 /\ padAttempts' = 0
      BY <2>3, NoQueryApart DEF SendNext
    <3>2. \A n \in Swept : n < padNext' /\ n # padFlight' => n \in padKnown'
      BY <3>1 DEF Swept
    <3>. QED BY <1>1, <3>1, <3>2 DEF FoundOK
  <2>4. CASE ~Resync(msg) /\ Answers(msg) /\ SendNext(padNext, padTotal)
    <3>1. padTotal' = padTotal /\ padAttempts' = 0 /\ padFlight' \in {padNext, NoQuery}
          /\ (padFlight' = padNext => padNext' = padNext + 1)
          /\ (padFlight' = NoQuery => padNext' = padNext)
      BY <1>0, <2>4, NoQueryApart DEF SendNext, PadNumbers
    <3>2. msg = padFlight /\ padFlight # Push /\ (padFlight \in Swept \/ padFlight = NoQuery)
      BY <1>0, <2>1, <2>4 DEF Answers, PadWords
    <3>3. padFlight \in Swept => padFlight \in padKnown'
      BY <1>1, <2>4, <3>2
    <3>4. padKnown \subseteq padKnown'
      BY <1>1, <2>4
    <3>5. ASSUME ~PushDue'
          PROVE  /\ padTotal = PadParams
                 /\ \A n \in Swept : n < padNext => n \in padKnown'
      BY <1>0, <2>2, <2>4, <3>3, <3>4, <3>5 DEF FoundOK
    <3>6. \A n \in Swept : n < padNext' /\ n # padFlight' => n < padNext
      BY <1>0, <3>1 DEF PadNumbers, Swept
    <3>. QED BY <1>1, <3>1, <3>5, <3>6 DEF FoundOK
  <2>5. CASE ~Resync(msg) /\ ~Answers(msg) /\ UNCHANGED <<padSweep, padBusy>>
    <3>1. padKnown \subseteq padKnown' /\ msg # padFlight
      BY <1>1, <2>5 DEF Answers
    <3>2. UNCHANGED <<padTotal, padNext, padFlight, padAttempts, padBusy>>
      BY <2>5 DEF padSweep
    <3>3. ASSUME NEW i \in DOMAIN q, q[i] = padFlight
          PROVE  \E j \in DOMAIN padArriving' : padArriving'[j] = padFlight
      <4>1. i # 1 /\ i \in 1..Len(q)
        BY <1>1, <1>2, <3>1, <3>3
      <4>2. i - 1 \in DOMAIN padArriving' /\ padArriving'[i - 1] = padFlight
        BY <1>1, <1>2, <3>3, <4>1
      <4>. QED BY <4>2
    <3>. QED BY <1>0, <1>1, <2>2, <2>5, <3>1, <3>2, <3>3 DEF FoundOK
  <2>. QED BY <1>3, <2>3, <2>4, <2>5
<1>. QED BY <1>4, <1>5, <1>6, <1>7, <1>8, <1>9 DEF PadInv

\* Fewer than k whole intervals of silence at the tick means that the k-th is not over.
LEMMA SilentBeatsBelow ==
  ASSUME PadNumbers
  PROVE  /\ SilentBeats \in Nat
         /\ \A k \in Nat : SilentBeats < k <=> padSilent + 1 < k * HeartbeatInterval
<1>1. padSilent + 1 \in Nat /\ HeartbeatInterval \in Nat \ {0}
  BY Spans DEF PadNumbers
<1>2. 0 \in Nat
  OBVIOUS
<1>3. \A k \in Nat : /\ (padSilent + 1) \div HeartbeatInterval \in Nat
                     /\ (padSilent + 1) \div HeartbeatInterval < k
                          <=> padSilent + 1 < k * HeartbeatInterval
  BY <1>1, DivBelow
<1>. QED BY <1>2, <1>3 DEF SilentBeats

\* A tick keeps the numbers and the place of the sweep.
LEMMA PadTickTypes ==
  ASSUME PadInv, PadTick
  PROVE  PadFlags' /\ PadWords' /\ PadNumbers' /\ SweepOK'
<1>0. PadFlags /\ PadWords /\ PadNumbers /\ SweepOK
  BY DEF PadInv
<1>1. /\ UNCHANGED <<padShape, padUp, padPrompt, padArriving, padBounds, padKnown>>
      /\ padSilent' = PadUpTo(padSilent + 1, PadLongest)
  BY DEF PadTick
<1>2. padSilent' \in 0..PadLongest
  BY <1>0, <1>1, Spans DEF PadUpTo, PadNumbers
<1>3. ASSUME NEW k \in Nat PROVE HealthAfter(k) \in PadHealths
  BY <1>0 DEF HealthAfter, PadWords, PadHealths
<1>4. SilentBeats \in Nat
  BY <1>0, SilentBeatsBelow, PadAssumption
<1>5. AtLeast(padMisses + 1, SilentBeats) \in Nat
  BY <1>0, <1>4 DEF AtLeast, PadNumbers
<1>. DEFINE Place == /\ padTotal' \in 0..PadParams /\ padNext' \in 1..(PadParams + 1)
                     /\ padFlight' \in Swept \cup {NoQuery} /\ padBusy' \in Queries \cup {NoQuery}
                     /\ padAttempts' \in 0..QueryRetries /\ padFlightAge' \in 0..QueryTimeout
                     /\ SweepOK'
            Rest == /\ padHealth' \in PadHealths /\ padBeatOut' \in BOOLEAN
                    /\ padBeatAge' \in 0..HeartbeatInterval /\ padMisses' \in 0..MissesLost
<1>6. ASSUME QueryTick PROVE Place
  <2>1. CASE ~Stuck /\ UNCHANGED <<padTotal, padNext, padFlight, padAttempts, padBusy>>
             /\ padFlightAge' = PadUpTo(padFlightAge + 1, QueryTimeout)
    <3>1. padFlightAge' \in 0..QueryTimeout
      BY <1>0, <2>1, PadAssumption DEF PadUpTo, PadNumbers
    <3>. QED BY <1>0, <2>1, <3>1 DEF PadWords, PadNumbers, SweepOK
  <2>2. CASE SendNext(padNext, padTotal)
    <3>1. padNext \in 1..(PadParams + 1) /\ padTotal \in 0..PadParams
      BY <1>0 DEF PadNumbers
    <3>. QED BY <1>0, <2>2, <3>1, SendNextTypes DEF SweepOK
  <2>3. CASE /\ Stuck /\ ~TriedEnough /\ padFlightAge' = 0 /\ padBusy' = Asked(padFlight)
             /\ padAttempts' = PadUpTo(padAttempts + 1, QueryRetries)
             /\ UNCHANGED <<padTotal, padNext, padFlight>>
    <3>1. padBusy' \in Queries \cup {NoQuery}
      BY <1>0, <2>3, NoQueryApart DEF Asked, PadWords
    <3>2. padAttempts' \in 0..QueryRetries /\ padFlightAge' \in 0..QueryTimeout
      BY <1>0, <2>3, PadAssumption DEF PadUpTo, PadNumbers
    <3>. QED BY <1>0, <2>3, <3>1, <3>2 DEF PadWords, PadNumbers, SweepOK
  <2>. QED BY <1>6, <2>1, <2>2, <2>3 DEF QueryTick
<1>7. ASSUME BeatTick PROVE Rest /\ padBusy' \in Queries \cup {NoQuery}
  <2>1. CASE BeatDue
    <3>1. padMisses' \in 0..MissesLost
      BY <1>0, <1>5, <1>7, <2>1, PadAssumption DEF BeatTick, Beat, CountMissedBeat, PadUpTo, PadNumbers
    <3>2. padHealth' \in PadHealths
      BY <1>0, <1>3, <1>5, <1>7, <2>1 DEF BeatTick, Beat, CountMissedBeat, PadWords
    <3>3. padBusy' \in Queries \cup {NoQuery}
      BY <1>0, <1>7, <2>1, NoQueryApart DEF BeatTick, Beat, Asked, PadWords
    <3>4. padBeatOut' \in BOOLEAN /\ padBeatAge' \in 0..HeartbeatInterval
      BY <1>7, <2>1, Spans DEF BeatTick, Beat
    <3>. QED BY <3>1, <3>2, <3>3, <3>4
  <2>2. CASE ~BeatDue
    <3>1. padBeatAge' \in 0..HeartbeatInterval
      BY <1>0, <1>7, <2>2, Spans DEF BeatTick, BeatDue, PadNumbers
    <3>2. UNCHANGED <<padBeatOut, padMisses, padHealth, padBusy>>
      BY <1>7, <2>2 DEF BeatTick
    <3>. QED BY <1>0, <3>1, <3>2 DEF PadFlags, PadWords, PadNumbers
  <2>. QED BY <2>1, <2>2
<1>8. Place /\ Rest
  <2>1. CASE Sweeping /\ ~LastSkipped /\ SweepTick
    <3>1. padBeatAge' \in 0..HeartbeatInterval
      BY <1>0, <2>1, Spans DEF SweepTick, PadUpTo, PadNumbers
    <3>2. padHealth' \in PadHealths
      BY <1>3, <1>4, <2>1 DEF SweepTick
    <3>3. UNCHANGED <<padBeatOut, padMisses>> /\ QueryTick
      BY <2>1 DEF SweepTick
    <3>. QED BY <1>0, <1>6, <3>1, <3>2, <3>3 DEF PadFlags, PadNumbers
  <2>2. CASE BeatTick /\ UNCHANGED padSweep
    <3>1. UNCHANGED <<padTotal, padNext, padFlight, padAttempts, padFlightAge>>
      BY <2>2 DEF padSweep
    <3>. QED BY <1>0, <1>7, <2>2, <3>1 DEF PadWords, PadNumbers, SweepOK
  <2>3. CASE /\ LastSkipped /\ BeatTick
             /\ padFlight' = NoQuery /\ padAttempts' = 0 /\ padFlightAge' = 0
             /\ UNCHANGED <<padTotal, padNext>>
    <3>1. padNext > padTotal
      BY <2>3 DEF LastSkipped
    <3>2. 0 \in 0..QueryRetries /\ 0 \in 0..QueryTimeout
      BY PadAssumption
    <3>. QED BY <1>0, <1>7, <2>3, <3>1, <3>2 DEF PadNumbers, SweepOK
  <2>. QED BY <2>1, <2>2, <2>3 DEF PadTick
<1>. HIDE DEF Place, Rest
<1>9. PadFlags'
  BY <1>0, <1>1, <1>8 DEF Rest, PadFlags
<1>10. PadWords'
  BY <1>0, <1>1, <1>8 DEF Place, Rest, PadWords
<1>11. PadNumbers'
  BY <1>0, <1>1, <1>2, <1>8 DEF Place, Rest, PadNumbers, padBounds
<1>. QED BY <1>8, <1>9, <1>10, <1>11 DEF Place

\* What the count of missed beats makes of the health.
LEMMA HealthAfterOK ==
  ASSUME NEW k \in Nat
  PROVE  /\ HealthAfter(k) # "Lost" => k < MissesLost
         /\ HealthAfter(k) \in {"Stale", "Lost"} =>
              k >= MissesStale \/ padHealth \in {"Stale", "Lost"}
BY PadAssumption DEF HealthAfter

\* In the sweep the clock keeps count of the silence.
LEMMA SweepTickBeat ==
  ASSUME PadInv, Sweeping, SweepTick, padSilent' = PadUpTo(padSilent + 1, PadLongest)
  PROVE  PadBeatInv'
<1>. DEFINE H == HeartbeatInterval
<1>0. PadNumbers /\ BeatInOK /\ BeatOutOK /\ SilentOK
  BY DEF PadInv, PadBeatInv
<1>1. ~padBeatOut /\ ~padBeatOut' /\ padMisses = 0 /\ padMisses' = 0
  BY <1>0 DEF BeatInOK, BeatOutOK, SweepTick
<1>2. /\ padSilent \in Nat /\ padSilent <= padSilent' /\ padSilent' <= padSilent + 1
      /\ padSilent' \in Nat /\ (padSilent' = padSilent + 1 \/ padSilent' = PadLongest)
  BY <1>0, Spans DEF PadNumbers, PadUpTo
<1>3. padHealth' = HealthAfter(SilentBeats) /\ SilentBeats \in Nat
  BY <1>0, SilentBeatsBelow DEF SweepTick
<1>4. padHealth' # "Lost" => padSilent' < MissesLost * H
  <2>1. MissesLost \in Nat
    BY PadAssumption
  <2>2. padHealth' # "Lost" => padSilent + 1 < MissesLost * H
    BY <1>0, <1>3, <2>1, HealthAfterOK, SilentBeatsBelow
  <2>. QED BY <1>2, <2>2, Spans
<1>5. padSilent' <= padBeatAge' \/ padBeatAge' = H
  BY <1>0, <1>1, <1>2, Spans DEF BeatInOK, SweepTick, PadUpTo, PadNumbers
<1>6. SilentOK'
  <2>1. ASSUME SilentBeats >= MissesStale PROVE padSilent' >= MissesStale * H
    <3>1. MissesStale \in Nat /\ ~(SilentBeats < MissesStale)
      BY <1>3, <2>1, PadAssumption
    <3>2. ~(padSilent + 1 < MissesStale * H)
      BY <1>0, <3>1, SilentBeatsBelow
    <3>. QED BY <1>2, <3>2, Spans
  <2>2. ASSUME padHealth \in {"Stale", "Lost"} PROVE padSilent' >= MissesStale * H
    BY <1>0, <1>2, <2>2, Spans DEF SilentOK
  <2>. QED BY <1>3, <2>1, <2>2, HealthAfterOK DEF SilentOK
<1>. QED BY <1>1, <1>4, <1>5, <1>6 DEF PadBeatInv, BeatInOK, BeatOutOK

\* After it the missed beats do, and the clock makes up for what the sweep has not counted.
LEMMA BeatTickBeat ==
  ASSUME PadInv, BeatTick, ~Sweeping', padSilent' = PadUpTo(padSilent + 1, PadLongest)
  PROVE  PadBeatInv'
<1>. DEFINE H == HeartbeatInterval
            L == MissesLost
<1>0. PadFlags /\ PadNumbers /\ BeatInOK /\ BeatOutOK /\ SilentOK
  BY DEF PadInv, PadBeatInv
<1>1. /\ padSilent \in Nat /\ padSilent <= padSilent' /\ padSilent' <= padSilent + 1
      /\ padSilent' \in Nat /\ (padSilent' = padSilent + 1 \/ padSilent' = PadLongest)
  BY <1>0, Spans DEF PadNumbers, PadUpTo
<1>2. /\ padMisses \in Nat /\ padMisses <= L /\ L \in Nat /\ padBeatAge \in Nat /\ padBeatAge <= H
      /\ padMisses * H \in Nat /\ padMisses * H <= L * H /\ padBeatOut \in BOOLEAN
  <2>1. /\ padMisses \in Nat /\ padMisses <= L /\ L \in Nat /\ padBeatAge \in Nat /\ padBeatAge <= H
        /\ padBeatOut \in BOOLEAN
    BY <1>0, PadAssumption DEF PadNumbers, PadFlags
  <2>2. padMisses * H \in Nat /\ padMisses * H <= L * H
    BY <2>1, Spans, TimesMonotone
  <2>. QED BY <2>1, <2>2
<1>3. CASE ~BeatDue
  <2>1. /\ padBeatAge + 1 < H /\ padBeatAge' = padBeatAge + 1
        /\ UNCHANGED <<padBeatOut, padMisses, padHealth>>
    BY <1>2, <1>3, Spans DEF BeatTick, BeatDue
  <2>2. BeatInOK'
    <3>1. SUFFICES ASSUME ~padBeatOut PROVE BeatInOK'
      BY <2>1 DEF BeatInOK
    <3>2. padSilent <= padBeatAge /\ padMisses = 0
      BY <1>0, <2>1, <3>1, Spans, <1>2 DEF BeatInOK
    <3>3. padSilent' <= padBeatAge' /\ padSilent' < L * H
      BY <1>1, <1>2, <2>1, <3>2, Spans
    <3>. QED BY <2>1, <3>2, <3>3 DEF BeatInOK
  <2>3. BeatOutOK'
    <3>1. SUFFICES ASSUME padBeatOut PROVE BeatOutOK'
      BY <2>1 DEF BeatOutOK
    <3>2. padMisses * H + padBeatAge <= padSilent
          /\ (padHealth # "Lost" => padSilent <= L * H + padBeatAge)
      BY <1>0, <3>1 DEF BeatOutOK
    <3>3. padMisses * H + padBeatAge' <= padSilent'
      BY <1>1, <1>2, <2>1, <3>2, Spans
    <3>4. padHealth # "Lost" => padSilent' <= L * H + padBeatAge'
      BY <1>1, <1>2, <2>1, <3>2, Spans
    <3>. QED BY <2>1, <3>3, <3>4 DEF BeatOutOK
  <2>4. SilentOK'
    BY <1>0, <1>1, <2>1, Spans DEF SilentOK
  <2>. QED BY <2>2, <2>3, <2>4 DEF PadBeatInv
<1>4. CASE BeatDue /\ ~padBeatOut
  <2>1. /\ padBeatAge' = 0 /\ padBeatOut' = TRUE /\ padMisses' = 0 /\ padHealth' = padHealth
        /\ (padHealth # "Lost" => padSilent < L * H)
    BY <1>0, <1>4 DEF BeatTick, Beat, BeatInOK
  <2>2. 0 * H = 0
    BY Spans
  <2>3. padHealth # "Lost" => padSilent' <= L * H + 0
    BY <1>1, <2>1, Spans
  <2>4. BeatInOK' /\ BeatOutOK'
    BY <1>1, <2>1, <2>2, <2>3, Spans DEF BeatInOK, BeatOutOK
  <2>5. SilentOK'
    BY <1>0, <1>1, <2>1, Spans DEF SilentOK
  <2>. QED BY <2>4, <2>5 DEF PadBeatInv
<1>5. CASE BeatDue /\ padBeatOut
  <2>. DEFINE C == CountMissedBeat
  <2>1. /\ padBeatAge' = 0 /\ padBeatOut' = TRUE /\ padMisses' = PadUpTo(C, L)
        /\ padHealth' = HealthAfter(C)
    BY <1>5 DEF BeatTick, Beat
  <2>2. /\ padBeatAge + 1 = H /\ padMisses * H + padBeatAge <= padSilent
    BY <1>0, <1>2, <1>5, Spans DEF BeatOutOK, BeatDue
  <2>3. SilentBeats \in Nat /\ C \in Nat /\ C >= SilentBeats /\ C \in {padMisses + 1, SilentBeats}
    BY <1>0, <1>2, SilentBeatsBelow DEF CountMissedBeat, AtLeast
  <2>4. C * H \in Nat /\ C * H <= padSilent + 1
    <3>1. (padMisses + 1) * H <= padSilent + 1
      <4>1. padMisses \in Int /\ H \in Int
        BY <1>2, Spans
      <4>2. (padMisses + 1) * H = padMisses * H + H
        BY <4>1, TimesNext
      <4>. QED BY <1>1, <1>2, <2>2, <4>2, Spans
    <3>2. SilentBeats * H <= padSilent + 1
      <4>1. ~(SilentBeats < SilentBeats)
        BY <2>3
      <4>2. ~(padSilent + 1 < SilentBeats * H)
        BY <1>0, <2>3, <4>1, SilentBeatsBelow
      <4>3. SilentBeats * H \in Int
        BY <2>3, Spans
      <4>. QED BY <1>1, <4>2, <4>3
    <3>3. C * H \in Nat
      BY <2>3, Spans
    <3>. QED BY <2>3, <3>1, <3>2, <3>3
  <2>5. padMisses' * H <= padSilent'
    <3>1. padMisses' \in Nat /\ padMisses' <= C /\ padMisses' <= L
      BY <1>2, <2>1, <2>3 DEF PadUpTo
    <3>2. H \in Nat
      BY Spans
    <3>3. padMisses' * H <= C * H /\ padMisses' * H <= L * H
      <4>1. ASSUME NEW m \in Nat, NEW c \in Nat, m <= c PROVE m * H <= c * H
        BY <3>2, <4>1, TimesMonotone
      <4>2. C \in Nat /\ L \in Nat
        BY <1>2, <2>3
      <4>. HIDE DEF C, L
      <4>. QED BY <3>1, <4>1, <4>2
    <3>4. padMisses' * H \in Int
      <4>1. ASSUME NEW m \in Nat PROVE m * H \in Int
        BY <3>2
      <4>. QED BY <3>1, <4>1
    <3>. QED BY <1>1, <2>4, <3>3, <3>4, Spans
  <2>6. padHealth' # "Lost" => padSilent' <= L * H + 0
    <3>1. SUFFICES ASSUME padHealth' # "Lost" PROVE padSilent' <= L * H + 0
      OBVIOUS
    <3>2. C < L
      BY <2>1, <2>3, <3>1, HealthAfterOK
    <3>3. SilentBeats < L
      BY <1>2, <2>3, <3>2
    <3>4. padSilent + 1 < L * H
      BY <1>0, <1>2, <3>3, SilentBeatsBelow
    <3>. QED BY <1>1, <3>4, Spans
  <2>7. BeatInOK' /\ BeatOutOK'
    <3>1. padMisses' * H + 0 <= padSilent'
      BY <1>1, <1>2, <2>1, <2>3, <2>5, Spans DEF PadUpTo
    <3>. QED BY <2>1, <2>6, <3>1, Spans DEF BeatInOK, BeatOutOK
  <2>8. SilentOK'
    <3>1. ASSUME C >= MissesStale PROVE padSilent' >= MissesStale * H
      <4>1. MissesStale * H <= C * H
        BY <2>3, <3>1, PadAssumption, TimesMonotone
      <4>. QED BY <1>1, <2>4, <4>1, Spans
    <3>2. ASSUME padHealth \in {"Stale", "Lost"} PROVE padSilent' >= MissesStale * H
      BY <1>0, <1>1, <3>2, Spans DEF SilentOK
    <3>. QED BY <2>1, <2>3, <3>1, <3>2, HealthAfterOK DEF SilentOK
  <2>. QED BY <2>7, <2>8 DEF PadBeatInv
<1>. QED BY <1>3, <1>4, <1>5, <1>2

\* A tick gives up no query that a prompt console could still answer: none is asked for
\* a second time before its first has been answered or dropped.
LEMMA PadTickFound ==
  ASSUME PadInv, PadTick
  PROVE  FoundOK'
<1>0. PadWords /\ PadNumbers /\ FoundOK
  BY DEF PadInv
<1>1. UNCHANGED <<padShape, padUp, padPrompt, padArriving, padBounds, padKnown>>
  BY DEF PadTick
<1>. SUFFICES ASSUME padPrompt PROVE FoundOK'
  BY <1>1 DEF FoundOK
<1>2. padArriving = <<>> /\ padBusy = NoQuery /\ padUp
  BY <1>0 DEF PadTick, FoundOK
<1>3. DOMAIN padArriving = {} /\ ~PushDue /\ ~PushDue'
  BY <1>1, <1>2 DEF PushDue
<1>4. /\ padTotal = PadParams
      /\ \A n \in Swept : n < padNext /\ n # padFlight => n \in padKnown
  BY <1>0, <1>3 DEF FoundOK
<1>5. padFlight # NoQuery => ~(padAttempts >= 1) /\ ~TriedEnough
  <2>1. padFlight # NoQuery => ~(padAttempts >= 1)
    BY <1>0, <1>2, <1>3 DEF FoundOK
  <2>. QED BY <1>0, <2>1, PadAssumption DEF TriedEnough, PadNumbers
<1>6. ~(Stuck /\ TriedEnough) /\ ~LastSkipped
  BY <1>5 DEF Stuck, LastSkipped
<1>7. UNCHANGED <<padTotal, padNext, padFlight>>
      /\ (padFlight' # NoQuery /\ padAttempts' >= 1 => padBusy' = padFlight')
  <2>1. CASE SweepTick
    <3>1. CASE UNCHANGED <<padTotal, padNext, padFlight, padAttempts, padBusy>>
      BY <1>5, <3>1
    <3>2. CASE padBusy' = Asked(padFlight) /\ UNCHANGED <<padTotal, padNext, padFlight>>
      BY <1>2, <3>2 DEF Asked
    <3>. QED BY <1>6, <2>1, <3>1, <3>2 DEF SweepTick, QueryTick
  <2>2. CASE UNCHANGED padSweep
    BY <1>5, <2>2 DEF padSweep
  <2>. QED BY <1>6, <2>1, <2>2 DEF PadTick
<1>. QED BY <1>1, <1>2, <1>3, <1>4, <1>7 DEF FoundOK

\* A tick keeps the invariant.
LEMMA PadTickOK ==
  ASSUME PadInv, PadTick
  PROVE  PadInv'
<1>1. padSilent' = PadUpTo(padSilent + 1, PadLongest)
  BY DEF PadTick
<1>2. CASE Sweeping /\ SweepTick
  BY <1>1, <1>2, PadTickTypes, PadTickFound, SweepTickBeat DEF PadInv
<1>3. CASE ~Sweeping /\ BeatTick /\ UNCHANGED padSweep
  <2>1. ~Sweeping'
    BY <1>3 DEF Sweeping, padSweep
  <2>. QED BY <1>1, <1>3, <2>1, PadTickTypes, PadTickFound, BeatTickBeat DEF PadInv
<1>4. CASE LastSkipped /\ BeatTick /\ padFlight' = NoQuery /\ UNCHANGED <<padTotal, padNext>>
  <2>1. ~Sweeping'
    <3>1. padNext \in Int /\ padTotal \in Int /\ padNext > padTotal
      BY <1>4 DEF PadInv, PadNumbers, LastSkipped
    <3>. QED BY <1>4, <3>1 DEF Sweeping
  <2>. QED BY <1>1, <1>4, <2>1, PadTickTypes, PadTickFound, BeatTickBeat DEF PadInv
<1>. QED BY <1>2, <1>3, <1>4 DEF PadTick

\* What the console, the network and the operator do is not seen before it has arrived.
LEMMA PadWorldOK ==
  ASSUME PadInv,
         PadAnswer \/ (\E param \in Swept : PadReport(param)) \/ PadPush \/ PadLose \/ PadOutage
           \/ UNCHANGED padVars
  PROVE  PadInv'
<1>0. PadFlags /\ PadWords /\ PadNumbers /\ PadBeatInv /\ SweepOK /\ FoundOK
  BY DEF PadInv
<1>1. UNCHANGED <<padHealth, padShape, padSweep, padBeat, padSilent, padPrompt, padKnown>>
  BY DEF PadAnswer, PadReport, PadPush, PadLose, PadOutage, padVars
<1>2. UNCHANGED <<padTotal, padNext, padFlight, padAttempts, padFlightAge, padBeatAge, padBeatOut,
                  padMisses>>
  BY <1>1 DEF padSweep, padBeat
<1>3. PadFlags'
  BY <1>0, <1>1, <1>2 DEF PadAnswer, PadReport, PadPush, PadLose, PadOutage, padVars, PadFlags
<1>4. PadBeatInv' /\ SweepOK'
  BY <1>0, <1>1, <1>2 DEF PadBeatInv, BeatInOK, BeatOutOK, SilentOK, Sweeping, SweepOK
<1>5. PadNumbers'
  <2>1. /\ padPushes' \in 0..MaxPushes /\ padTraffic' \in 0..MaxPadTraffic
        /\ padOutages' \in 0..MaxPadOutages
    <3>1. /\ padPushes \in 0..MaxPushes /\ padTraffic \in 0..MaxPadTraffic
          /\ padOutages \in 0..MaxPadOutages
          /\ MaxPushes \in Nat /\ MaxPadTraffic \in Nat /\ MaxPadOutages \in Nat
      BY <1>0, PadAssumption DEF PadNumbers
    <3>. QED BY <3>1 DEF PadAnswer, PadReport, PadPush, PadLose, PadOutage, padVars, padBounds
  <2>. QED BY <1>0, <1>1, <1>2, <2>1 DEF PadNumbers
<1>. DEFINE q == padArriving
            Msgs == Queries \cup {Push}
<1>6. q \in Seq(Msgs) /\ padBusy \in Queries \cup {NoQuery}
  BY <1>0 DEF PadWords
<1>7. padArriving' \in Seq(Msgs) /\ padBusy' \in Queries \cup {NoQuery}
  <2>1. CASE PadAnswer
    BY <1>6, <2>1 DEF PadAnswer
  <2>2. ASSUME NEW param \in Swept, PadReport(param)
        PROVE  padArriving' \in Seq(Msgs) /\ padBusy' \in Queries \cup {NoQuery}
    BY <1>6, <2>2, NoQueryApart DEF PadReport
  <2>3. CASE PadPush
    BY <1>6, <2>3 DEF PadPush
  <2>4. CASE PadLose
    BY <1>6, <2>4 DEF PadLose
  <2>5. CASE PadOutage
    BY <2>5 DEF PadOutage
  <2>6. CASE UNCHANGED padVars
    BY <1>6, <2>6 DEF padVars
  <2>. QED BY <2>1, <2>2, <2>3, <2>4, <2>5, <2>6
<1>8. PadWords'
  BY <1>0, <1>1, <1>2, <1>7 DEF PadWords
<1>9. FoundOK'
  <2>. SUFFICES ASSUME padPrompt PROVE FoundOK'
    BY <1>1 DEF FoundOK
  <2>1. padUp' = padUp /\ padUp
    BY <1>0 DEF FoundOK, PadAnswer, PadReport, PadPush, PadLose, PadOutage, padVars
  <2>2. ASSUME NEW msg, padArriving' = Append(q, msg)
        PROVE  /\ PushDue => PushDue'
               /\ msg = Push => PushDue'
               /\ \A i \in DOMAIN q : \E j \in DOMAIN padArriving' : padArriving'[j] = q[i]
               /\ \E j \in DOMAIN padArriving' : padArriving'[j] = msg
    <3>1. /\ DOMAIN padArriving' = 1..(Len(q) + 1) /\ DOMAIN q = 1..Len(q) /\ Len(q) \in Nat
          /\ padArriving'[Len(q) + 1] = msg
          /\ \A i \in 1..Len(q) : padArriving'[i] = q[i]
      BY <1>6, <2>2
    <3>. QED BY <3>1 DEF PushDue
  <2>3. CASE PadAnswer
    <3>1. padArriving' = Append(q, padBusy) /\ padBusy' = NoQuery /\ padBusy # NoQuery
      BY <2>3 DEF PadAnswer
    <3>. QED BY <1>0, <1>1, <1>2, <2>1, <2>2, <3>1 DEF FoundOK
  <2>4. ASSUME NEW param \in Swept, PadReport(param) PROVE FoundOK'
    <3>1. padArriving' = Append(q, param) /\ padBusy' = padBusy
      BY <2>4 DEF PadReport
    <3>. QED BY <1>0, <1>1, <1>2, <2>1, <2>2, <3>1 DEF FoundOK
  <2>5. CASE PadPush
    <3>1. padArriving' = Append(q, Push) /\ padBusy' = padBusy
      BY <2>5 DEF PadPush
    <3>. QED BY <1>0, <1>1, <1>2, <2>1, <2>2, <3>1 DEF FoundOK
  <2>6. CASE UNCHANGED padVars
    BY <1>0, <1>1, <1>2, <2>6 DEF padVars, FoundOK, PushDue
  <2>. QED BY <2>3, <2>4, <2>5, <2>6 DEF PadLose, PadOutage
<1>. QED BY <1>3, <1>4, <1>5, <1>8, <1>9 DEF PadInv

\* Every step of the Pad link keeps the invariant.
LEMMA PadInvNext == PadInv /\ [PadNext]_padVars => PadInv'
<1>. SUFFICES ASSUME PadInv, [PadNext]_padVars PROVE PadInv'
  OBVIOUS
<1>1. CASE PadReceive
  BY <1>1, PadReceiveOK
<1>2. CASE PadTick
  BY <1>2, PadTickOK
<1>3. CASE PadAnswer \/ (\E param \in Swept : PadReport(param)) \/ PadPush \/ PadLose \/ PadOutage
             \/ UNCHANGED padVars
  BY <1>3, PadWorldOK
<1>. QED BY <1>1, <1>2, <1>3 DEF PadNext

\* The invariant says of the health and of the sweep what the properties ask.
LEMMA PadHonest == PadInv => PadTypeOK /\ PadHealthIsHonest /\ SweepIsComplete
<1>. SUFFICES ASSUME PadInv PROVE PadTypeOK /\ PadHealthIsHonest /\ SweepIsComplete
  OBVIOUS
<1>0. PadFlags /\ PadWords /\ PadNumbers /\ BeatInOK /\ BeatOutOK /\ SilentOK /\ SweepOK /\ FoundOK
  BY DEF PadInv, PadBeatInv
<1>1. PadTypeOK
  BY <1>0, PadTypeParts
<1>2. PadHealthIsHonest
  <2>1. ASSUME padHealth # "Lost" PROVE padSilent < (MissesLost + 1) * HeartbeatInterval
    <3>1. padSilent \in Nat /\ padBeatAge \in Nat /\ padBeatOut \in BOOLEAN
      BY <1>0 DEF PadNumbers, PadFlags
    <3>2. CASE padBeatOut
      BY <1>0, <2>1, <3>1, <3>2, Spans DEF BeatOutOK
    <3>3. CASE ~padBeatOut
      BY <1>0, <2>1, <3>1, <3>3, Spans DEF BeatInOK
    <3>. QED BY <3>2, <3>3
  <2>2. padSilent \in Int /\ (MissesLost + 1) * HeartbeatInterval \in Int
        /\ MissesStale * HeartbeatInterval \in Int
    BY <1>0, Spans DEF PadNumbers
  <2>3. padHealth \in {"Connecting", "Connected"} \/ padHealth \in {"Stale", "Lost"}
    BY <1>0 DEF PadWords, PadHealths
  <2>. QED BY <1>0, <2>1, <2>2, <2>3 DEF PadHealthIsHonest, SilentOK
<1>3. SweepIsComplete
  <2>. SUFFICES ASSUME padPrompt, ~Sweeping, ~PushDue PROVE padKnown = Swept
    BY DEF SweepIsComplete, PushDue
  <2>1. padFlight = NoQuery /\ padNext > PadParams
    BY <1>0 DEF Sweeping, FoundOK, PadNumbers
  <2>2. \A n \in Swept : n < padNext /\ n # padFlight
    BY <1>0, <2>1, NoQueryApart DEF PadNumbers, Swept
  <2>. QED BY <1>0, <2>2 DEF FoundOK, PadWords
<1>. QED BY <1>1, <1>2, <1>3

\* The Pad link alone: its types, a health that tells the truth across the end of the
\* sweep, and a sweep that leaves nothing out, for every number of parameters and
\* every setting of its thresholds.
THEOREM PadLinkCorrect == PadSpec => [](PadTypeOK /\ PadHealthIsHonest /\ SweepIsComplete)
<1>1. PadSpec => []PadInv
  BY PadInvInit, PadInvNext, PTL DEF PadSpec
<1>. QED BY <1>1, PadHonest, PTL

-----------------------------------------------------------------------------
(* The run that holds both.                                                *)

\* A step of the run is a step of each link, or leaves it alone.
LEMMA LinksStep == [LinksNext]_linksVars => [GpNext]_gpVars /\ [PadNext]_padVars
BY DEF LinksNext, GpSteps, PadSteps, CueSteps, ChannelSteps, linksVars

\* Neither link's health lies, wherever the run is.
THEOREM LinksHonestCorrect == LinksSpec => []LinksHonest
<1>1. LinksSpec => GpInit /\ [][GpNext]_gpVars /\ PadInit /\ [][PadNext]_padVars
  <2>1. LinksInit => GpInit /\ PadInit
    BY DEF LinksInit
  <2>. QED BY <2>1, LinksStep, PTL DEF LinksSpec
<1>2. GpSpec => []HealthIsHonest
  BY GpHealthCorrect, PTL
<1>3. PadSpec => []PadHealthIsHonest
  BY PadLinkCorrect, PTL
<1>4. HealthIsHonest /\ PadHealthIsHonest => LinksHonest
  BY DEF LinksHonest
<1>. QED BY <1>1, <1>2, <1>3, <1>4, PTL DEF GpSpec, PadSpec

\* A prompt console's sweep is complete, wherever the run is.
THEOREM SweepIsCompleteCorrect == LinksSpec => []SweepIsComplete
<1>1. LinksSpec => PadInit /\ [][PadNext]_padVars
  <2>1. LinksInit => PadInit
    BY DEF LinksInit
  <2>. QED BY <2>1, LinksStep, PTL DEF LinksSpec
<1>2. PadSpec => []SweepIsComplete
  BY PadLinkCorrect, PTL
<1>. QED BY <1>1, <1>2, PTL DEF PadSpec
=============================================================================
