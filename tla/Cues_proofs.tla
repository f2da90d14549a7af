----------------------------- MODULE Cues_proofs -----------------------------
(***************************************************************************)
(* The cue list and a channel's fades.  The list stays sorted and free of  *)
(* doubles under every edit, and GO follows the cue that the last press    *)
(* made current.  On a channel cues play in order: what has to be on the   *)
(* desk before a datagram leaves is there, and what a superseded cue still *)
(* owes is held for its successors until it lands.                         *)
(***************************************************************************)
EXTENDS Links_proofs, FunctionTheorems, FiniteSetTheorems, SequenceTheorems, TLAPS

-----------------------------------------------------------------------------
(* Sorting by number.                                                      *)

\* What stands before a cue or where it is, once the list is sorted.
NotAfter(list, i) == {j \in DOMAIN list :
                        \/ list[j].number < list[i].number
                        \/ list[j].number = list[i].number /\ j <= i}

\* Numbers can be compared.
LEMMA NumbersAreInts ==
  ASSUME NEW list \in Seq(Cue), NEW i \in DOMAIN list
  PROVE  list[i] \in Cue /\ list[i].number \in Int /\ list[i].id \in CueIds
<1>1. list[i] \in Cue
  OBVIOUS
<1>2. list[i].number \in CueNumbers /\ list[i].id \in CueIds
  BY <1>1 DEF Cue
<1>. QED BY <1>1, <1>2, CueAssumption

\* A cue's rank is a place in the list.
LEMMA RankIsPlace ==
  ASSUME NEW list \in Seq(Cue), NEW i \in DOMAIN list
  PROVE  /\ IsFiniteSet(NotAfter(list, i)) /\ Rank(list, i) = Cardinality(NotAfter(list, i))
         /\ Rank(list, i) \in 1..Len(list)
<1>1. DOMAIN list = 1..Len(list) /\ Len(list) \in Nat
  OBVIOUS
<1>2. IsFiniteSet(1..Len(list)) /\ Cardinality(1..Len(list)) = Len(list)
  <2>1. 1 \in Int /\ Len(list) \in Int
    BY <1>1
  <2>2. IsFiniteSet(1..Len(list))
        /\ Cardinality(1..Len(list)) = IF 1 > Len(list) THEN 0 ELSE Len(list) - 1 + 1
    BY <2>1, FS_Interval
  <2>. QED BY <1>1, <2>2
<1>3. NotAfter(list, i) \in SUBSET (1..Len(list)) /\ i \in NotAfter(list, i)
  BY <1>1, NumbersAreInts DEF NotAfter
<1>4. IsFiniteSet(NotAfter(list, i)) /\ Cardinality(NotAfter(list, i)) <= Len(list)
  BY <1>2, <1>3, FS_Subset
<1>5. Cardinality(NotAfter(list, i)) \in Nat /\ Cardinality(NotAfter(list, i)) # 0
  BY <1>3, <1>4, FS_CardinalityType, FS_EmptySet
<1>6. Rank(list, i) = Cardinality(NotAfter(list, i))
  BY DEF Rank, NotAfter
<1>. QED BY <1>1, <1>4, <1>5, <1>6

\* Ranks are in the order of the numbers, and of the places where numbers are equal.
LEMMA RankInOrder ==
  ASSUME NEW list \in Seq(Cue), NEW i \in DOMAIN list, NEW j \in DOMAIN list,
         list[i].number < list[j].number \/ (list[i].number = list[j].number /\ i < j)
  PROVE  Rank(list, i) < Rank(list, j)
<1>1. DOMAIN list = 1..Len(list) /\ \A k \in DOMAIN list : list[k].number \in Int
  BY NumbersAreInts
<1>2. NotAfter(list, i) \in SUBSET NotAfter(list, j) /\ j \in NotAfter(list, j) /\ j \notin NotAfter(list, i)
  BY <1>1 DEF NotAfter
<1>3. Cardinality(NotAfter(list, i)) <= Cardinality(NotAfter(list, j))
      /\ Cardinality(NotAfter(list, i)) # Cardinality(NotAfter(list, j))
  BY <1>2, RankIsPlace, FS_Subset
<1>. QED BY <1>1, <1>3, RankIsPlace

\* Every place is the rank of one cue.
LEMMA RankOfOne ==
  ASSUME NEW list \in Seq(Cue), NEW r \in DOMAIN list
  PROVE  \E i \in DOMAIN list : Rank(list, i) = r
<1>. DEFINE D == 1..Len(list)
            f == [i \in D |-> Rank(list, i)]
<1>1. DOMAIN list = D /\ Len(list) \in Nat /\ IsFiniteSet(D)
  BY FS_Interval
<1>2. \A k \in D : list[k].number \in Int
  BY <1>1, NumbersAreInts
<1>3. f \in [D -> D]
  BY <1>1, RankIsPlace
<1>4. \A i, j \in D : i # j => f[i] # f[j]
  <2>. SUFFICES ASSUME NEW i \in D, NEW j \in D, i # j PROVE f[i] # f[j]
    OBVIOUS
  <2>1. Rank(list, i) < Rank(list, j) \/ Rank(list, j) < Rank(list, i)
    BY <1>1, <1>2, RankInOrder
  <2>. QED BY <1>1, <2>1, RankIsPlace
<1>5. f \in Injection(D, D)
  BY <1>3, <1>4 DEF Injection, IsInjective
<1>6. f \in Surjection(D, D)
  BY <1>1, <1>5, FS_Injection
<1>. QED BY <1>1, <1>6 DEF Surjection

\* Sorted, a list is as long as before and in order, and its cues are the same.
LEMMA SortedIsSorted ==
  ASSUME NEW list \in Seq(Cue), Distinct(list)
  PROVE  /\ SortedByNumber(list) \in Seq(Cue) /\ Len(SortedByNumber(list)) = Len(list)
         /\ Ascending(SortedByNumber(list)) /\ Distinct(SortedByNumber(list))
<1>. DEFINE At(r) == CHOOSE i \in DOMAIN list : Rank(list, i) = r
            sorted == SortedByNumber(list)
<1>1. \A r \in DOMAIN list : At(r) \in DOMAIN list /\ Rank(list, At(r)) = r
  BY RankOfOne
<1>. HIDE DEF At
<1>2. sorted = [r \in DOMAIN list |-> list[At(r)]]
  BY DEF SortedByNumber, At
<1>3. sorted \in Seq(Cue) /\ Len(sorted) = Len(list) /\ DOMAIN sorted = DOMAIN list
  BY <1>1, <1>2
<1>. HIDE DEF sorted
<1>4. Ascending(sorted)
  <2>. SUFFICES ASSUME NEW r \in DOMAIN list, NEW s \in DOMAIN list, r < s
                PROVE  sorted[r].number <= sorted[s].number
    BY <1>3 DEF Ascending
  <2>1. ~(list[At(s)].number < list[At(r)].number)
    BY <1>1, RankInOrder
  <2>2. list[At(s)].number \in Int /\ list[At(r)].number \in Int
    BY <1>1, NumbersAreInts
  <2>. QED BY <1>2, <2>1, <2>2
<1>5. Distinct(sorted)
  BY <1>1, <1>2, <1>3 DEF Distinct
<1>. QED BY <1>3, <1>4, <1>5 DEF sorted

-----------------------------------------------------------------------------
(* The cue list.                                                           *)

\* A place in the list, or none.
LEMMA IndexIsPlace ==
  ASSUME NEW list \in Seq(Cue), NEW id
  PROVE  /\ IndexOf(list, id) \in 0..Len(list)
         /\ IndexOf(list, id) # 0 => list[IndexOf(list, id)].id = id
         /\ IndexOf(list, id) = 0 => \A i \in DOMAIN list : list[i].id # id
<1>1. CASE \E i \in DOMAIN list : list[i].id = id
  <2>1. PICK k \in DOMAIN list : k = IndexOf(list, id) /\ list[k].id = id
    BY <1>1 DEF IndexOf
  <2>. QED BY <2>1
<1>2. CASE ~\E i \in DOMAIN list : list[i].id = id
  BY <1>2 DEF IndexOf
<1>. QED BY <1>1, <1>2

\* In a list without doubles a cue is found where it is.
LEMMA IndexFinds ==
  ASSUME NEW list \in Seq(Cue), Distinct(list), NEW k \in DOMAIN list
  PROVE  IndexOf(list, list[k].id) = k
BY IndexIsPlace DEF Distinct

\* A cue added, removed or renumbered leaves the list sorted and free of doubles; the
\* length follows.
LEMMA ListAfterEdit ==
  ASSUME NEW list \in Seq(Cue), Ascending(list), Distinct(list),
         NEW id \in CueIds, NEW n \in CueNumbers
  PROVE  /\ IndexOf(list, id) = 0 =>
              /\ WithCue(list, id, n) \in CueLists
              /\ Len(WithCue(list, id, n)) = Len(list) + 1
         /\ IndexOf(list, id) # 0 =>
              /\ WithoutCue(list, id) \in CueLists
              /\ Len(WithoutCue(list, id)) = Len(list) - 1
              /\ Renumbered(list, id, n) \in CueLists
              /\ Len(Renumbered(list, id, n)) = Len(list)
<1>. DEFINE cue == [id |-> id, number |-> n]
            at == IndexOf(list, id)
<1>1. cue \in Cue
  BY DEF Cue
<1>2. ASSUME at = 0
      PROVE  WithCue(list, id, n) \in CueLists /\ Len(WithCue(list, id, n)) = Len(list) + 1
  <2>. DEFINE longer == Append(list, cue)
  <2>1. \A i \in DOMAIN list : list[i].id # id
    BY <1>2, IndexIsPlace
  <2>2. /\ longer \in Seq(Cue) /\ Len(longer) = Len(list) + 1
        /\ \A i \in 1..Len(list) : longer[i] = list[i]
        /\ longer[Len(list) + 1] = cue /\ cue.id = id
    BY <1>1, AppendProperties
  <2>. HIDE DEF longer, cue
  <2>3. Distinct(longer)
    BY <2>1, <2>2 DEF Distinct
  <2>. QED BY <2>2, <2>3, SortedIsSorted DEF WithCue, CueLists, longer, cue
<1>3. ASSUME at # 0
      PROVE  Renumbered(list, id, n) \in CueLists /\ Len(Renumbered(list, id, n)) = Len(list)
  <2>. DEFINE changed == [list EXCEPT ![at] = cue]
  <2>1. at \in DOMAIN list /\ list[at].id = id
    BY <1>3, IndexIsPlace
  <2>2. /\ changed \in Seq(Cue) /\ Len(changed) = Len(list)
        /\ \A i \in DOMAIN list : changed[i].id = list[i].id
    BY <1>1, <2>1
  <2>. HIDE DEF changed, cue
  <2>3. Distinct(changed)
    BY <2>2 DEF Distinct
  <2>. QED BY <2>2, <2>3, SortedIsSorted DEF Renumbered, CueLists, changed, cue
<1>4. ASSUME at # 0
      PROVE  WithoutCue(list, id) \in CueLists /\ Len(WithoutCue(list, id)) = Len(list) - 1
  <2>. DEFINE shorter == WithoutCue(list, id)
              first == SubSeq(list, 1, at - 1)
              rest == SubSeq(list, at + 1, Len(list))
  <2>1. at \in 1..Len(list) /\ Len(list) \in Nat /\ at \in Int
    BY <1>3, <1>4, IndexIsPlace
  <2>. HIDE DEF at
  <2>2. /\ first \in Seq(Cue) /\ Len(first) = at - 1
        /\ \A i \in 1..(at - 1) : first[i] = list[i]
    BY <2>1, SubSeqProperties
  <2>3. /\ rest \in Seq(Cue) /\ Len(rest) = Len(list) - at
        /\ \A i \in 1..(Len(list) - at) : rest[i] = list[at + i]
    BY <2>1, SubSeqProperties
  <2>4. shorter = first \o rest
    BY DEF WithoutCue, RemoveAt, at
  <2>. HIDE DEF first, rest, shorter
  <2>. DEFINE Was(i) == IF i < at THEN i ELSE i + 1
  <2>5. shorter \in Seq(Cue) /\ Len(shorter) = Len(list) - 1
    <3>1. shorter \in Seq(Cue) /\ Len(shorter) = Len(first) + Len(rest)
      BY <2>2, <2>3, <2>4, ConcatProperties
    <3>. QED BY <2>1, <2>2, <2>3, <3>1
  <2>6. ASSUME NEW i \in DOMAIN shorter
        PROVE  Was(i) \in DOMAIN list /\ shorter[i] = list[Was(i)]
    <3>1. i \in 1..(Len(list) - 1)
      BY <2>5
    <3>2. CASE i < at
      <4>1. shorter[i] = first[i]
        BY <2>1, <2>2, <2>3, <2>4, <3>1, <3>2, ConcatProperties
      <4>. QED BY <2>1, <2>2, <3>1, <3>2, <4>1
    <3>3. CASE i >= at
      <4>1. shorter[i] = rest[i - Len(first)]
        BY <2>1, <2>2, <2>3, <2>4, <3>1, <3>3, ConcatProperties
      <4>2. i - Len(first) = i - at + 1 /\ i - at + 1 \in 1..(Len(list) - at)
        BY <2>1, <2>2, <3>1, <3>3
      <4>3. rest[i - at + 1] = list[i + 1]
        <5>1. at + (i - at + 1) = i + 1
          BY <2>1, <3>1
        <5>. QED BY <2>3, <4>2, <5>1
      <4>. QED BY <2>1, <3>1, <3>3, <4>1, <4>2, <4>3
    <3>. QED BY <2>1, <3>1, <3>2, <3>3
  <2>7. ASSUME NEW i \in DOMAIN shorter, NEW j \in DOMAIN shorter
        PROVE  /\ i < j => Was(i) < Was(j)
               /\ Was(i) = Was(j) => i = j
    <3>1. i \in Int /\ j \in Int
      BY <2>5
    <3>. QED BY <2>1, <3>1
  <2>. HIDE DEF Was
  <2>8. Distinct(shorter)
    BY <2>6, <2>7 DEF Distinct
  <2>9. Ascending(shorter)
    BY <2>6, <2>7 DEF Ascending
  <2>. QED BY <2>5, <2>8, <2>9 DEF CueLists, shorter
<1>. QED BY <1>2, <1>3, <1>4

\* What a press asks for.
Kinds == {"next", "previous", "skip", "fire", "set", "number"}
Ops == [no : 0..MaxPresses, kind : Kinds, of : CueIds \cup CueNumbers \cup {NoCue}]
CueTypes == CueTypeOK /\ cueTasks \subseteq Ops /\ cueTriggers \in Seq(Ops)

\* Until an edit reaches up to the playhead, it is on the cue that a press put it on.
MadeOK == ~cueShifted /\ cueMade # NoCue =>
            cueAt \in DOMAIN cueList /\ cueList[cueAt].id = cueMade
CueInv == CueTypes /\ MadeOK

\* A press takes the playhead to a place in the list, or nowhere.
LEMMA TargetIsPlace ==
  ASSUME CueTypes, NEW op \in Ops
  PROVE  Target(op) \in 0..Len(cueList)
<1>1. cueList \in Seq(Cue) /\ cueAt \in 0..Len(cueList) /\ Len(cueList) \in Nat
  BY DEF CueTypes, CueTypeOK
<1>2. GoNext \in 0..Len(cueList) /\ GoPrevious \in 0..Len(cueList)
  BY <1>1 DEF GoNext, GoPrevious
<1>3. FireNumber(op.of) \in 0..Len(cueList)
  BY <1>1 DEF FireNumber
<1>4. IndexOf(cueList, op.of) \in 0..Len(cueList)
  BY <1>1, IndexIsPlace
<1>5. op.kind \in Kinds
  BY DEF Ops
<1>. QED BY <1>2, <1>3, <1>4, <1>5 DEF Target, Kinds

\* Picking a cue keeps types and playhead in step.
LEMMA PickInv ==
  ASSUME CueInv, NEW op \in Ops, Pick(op),
         UNCHANGED <<cueList, cueOwner, cuePresses, cueEdits>>,
         cueTasks' \subseteq Ops, cueTriggers' \in Seq(Ops)
  PROVE  CueInv'
<1>1. CASE Target(op) = 0
  BY <1>1 DEF Pick, CueInv, CueTypes, CueTypeOK, MadeOK
<1>2. CASE Target(op) # 0
  <2>1. cueList \in Seq(Cue) /\ Target(op) \in DOMAIN cueList /\ Target(op) \in 0..Len(cueList)
    BY <1>2, TargetIsPlace DEF CueInv, CueTypes, CueTypeOK
  <2>2. cueList[Target(op)].id \in CueIds
    BY <2>1, NumbersAreInts
  <2>3. [no |-> op.no, cue |-> cueList[Target(op)].id] \in [no : 0..MaxPresses, cue : CueIds]
    BY <2>2 DEF Ops
  <2>4. /\ cueAt' = Target(op) /\ cueMade' = cueList[Target(op)].id /\ cueShifted' = FALSE
        /\ cueRecalls' \subseteq [no : 0..MaxPresses, cue : CueIds]
        /\ cuePicked' \in CueIds \cup {NoCue}
    <3>1. cueRecalls \subseteq [no : 0..MaxPresses, cue : CueIds] /\ cuePicked \in CueIds \cup {NoCue}
      BY DEF CueInv, CueTypes, CueTypeOK
    <3>. QED BY <1>2, <2>2, <2>3, <3>1 DEF Pick
  <2>. QED BY <2>1, <2>2, <2>4 DEF CueInv, CueTypes, CueTypeOK, MadeOK
<1>. QED BY <1>1, <1>2

\* So does an edit to a list in order, with the playhead in it.
LEMMA EditInv ==
  ASSUME CueInv, NEW list, NEW at \in 0..Len(list), list \in CueLists, ListEdit(list, at),
         cueAt <= Len(list) => at = cueAt
  PROVE  CueInv'
<1>1. list \in Seq(Cue) /\ Ascending(list) /\ Distinct(list)
  BY DEF CueLists
<1>2. CueTypeOK'
  BY <1>1, CueAssumption DEF CueInv, CueTypes, CueTypeOK, ListEdit
<1>3. MadeOK'
  <2>. SUFFICES ASSUME ~cueShifted', cueMade # NoCue
                PROVE  at \in DOMAIN list /\ list[at].id = cueMade
    BY DEF ListEdit, MadeOK
  <2>1. ~cueShifted /\ ~Shifts(list) /\ cueAt \in DOMAIN cueList /\ cueList[cueAt].id = cueMade
    BY DEF ListEdit, CueInv, MadeOK
  <2>2. cueAt \in 1..Len(list) /\ list[cueAt].id = cueList[cueAt].id
    BY <1>1, <2>1 DEF Shifts, CueInv, CueTypes, CueTypeOK
  <2>. QED BY <1>1, <2>1, <2>2
<1>. QED BY <1>2, <1>3 DEF CueInv, CueTypes, ListEdit

\* Both are an invariant of the list.
LEMMA CueInvNext ==
  ASSUME CueInv, [CueNext]_cueVars
  PROVE  CueInv'
<1>. CueTypes /\ MadeOK
  BY DEF CueInv
<1>. cueList \in Seq(Cue) /\ Ascending(cueList) /\ Distinct(cueList) /\ cueAt \in 0..Len(cueList)
  BY DEF CueTypes, CueTypeOK
<1>1. ASSUME NEW op \in Buttons, PressButton(op) PROVE CueInv'
  <2>1. cuePresses' \in 0..MaxPresses /\ Numbered(op) \in Ops
    BY <1>1, CueAssumption
       DEF PressButton, Numbered, Ops, Kinds, Buttons, CueTypes, CueTypeOK
  <2>. QED BY <1>1, <2>1 DEF PressButton, CueInv, CueTypes, CueTypeOK, MadeOK
<1>2. ASSUME NEW op \in TriggerEvents, ReceiveTrigger(op) PROVE CueInv'
  <2>1. cuePresses' \in 0..MaxPresses /\ Numbered(op) \in Ops
    BY <1>2, CueAssumption
       DEF ReceiveTrigger, Numbered, Ops, Kinds, TriggerEvents, CueTypes, CueTypeOK
  <2>2. cueTriggers' \in Seq(Ops)
    BY <1>2, <2>1, AppendProperties DEF ReceiveTrigger, CueTypes
  <2>. QED BY <1>2, <2>1, <2>2 DEF ReceiveTrigger, CueInv, CueTypes, CueTypeOK, MadeOK
<1>3. ASSUME NEW op \in cueTasks, TaskPicks(op) PROVE CueInv'
  BY <1>3, PickInv DEF TaskPicks, CueTypes
<1>4. CASE TriggerPicks
  <2>1. Head(cueTriggers) \in Ops /\ Tail(cueTriggers) \in Seq(Ops)
    BY <1>4, HeadTailProperties DEF TriggerPicks, CueTypes
  <2>. QED BY <1>4, <2>1, PickInv DEF TriggerPicks, CueTypes
<1>5. ASSUME NEW job \in cueRecalls, ClaimEpoch(job) PROVE CueInv'
  BY <1>5 DEF ClaimEpoch, CueInv, CueTypes, CueTypeOK, MadeOK
<1>6. ASSUME NEW id \in CueIds, NEW n \in CueNumbers, AddCue(id, n) PROVE CueInv'
  <2>1. WithCue(cueList, id, n) \in CueLists /\ Len(WithCue(cueList, id, n)) = Len(cueList) + 1
    BY <1>6, ListAfterEdit DEF AddCue
  <2>. QED BY <1>6, <2>1, EditInv DEF AddCue
<1>7. ASSUME NEW id \in CueIds, NEW n \in CueNumbers, UpdateCue(id, n) PROVE CueInv'
  <2>1. Renumbered(cueList, id, n) \in CueLists /\ Len(Renumbered(cueList, id, n)) = Len(cueList)
    BY <1>7, ListAfterEdit DEF UpdateCue
  <2>. QED BY <1>7, <2>1, EditInv DEF UpdateCue
<1>8. ASSUME NEW id \in CueIds, RemoveCue(id) PROVE CueInv'
  <2>. DEFINE list == WithoutCue(cueList, id)
  <2>1. IndexOf(cueList, id) # 0 /\ IndexOf(cueList, id) \in DOMAIN cueList
    BY <1>8, IndexIsPlace DEF RemoveCue
  <2>2. \E n \in CueNumbers : TRUE
    BY <2>1, NumbersAreInts DEF Cue
  <2>3. list \in CueLists /\ Len(list) = Len(cueList) - 1
    BY <2>1, <2>2, ListAfterEdit
  <2>4. Len(cueList) \in Nat /\ Len(cueList) >= 1
    BY <2>1
  <2>. HIDE DEF list
  <2>5. AfterRemoval(list) \in 0..Len(list) /\ (cueAt <= Len(list) => AfterRemoval(list) = cueAt)
    BY <2>3, <2>4 DEF AfterRemoval
  <2>6. ListEdit(list, AfterRemoval(list))
    BY <1>8 DEF RemoveCue, list
  <2>. QED BY <2>3, <2>5, <2>6, EditInv
<1>9. CASE ReplaceCueList
  <2>1. cueList' \in Seq(Cue) /\ Ascending(cueList') /\ Distinct(cueList')
    BY <1>9, CueAssumption DEF ReplaceCueList, CueLists
  <2>2. cueEdits' \in 0..MaxListEdits
    BY <1>9, CueAssumption DEF ReplaceCueList, CueTypes, CueTypeOK
  <2>3. cueAt' \in 0..Len(cueList')
    BY <1>9, <2>1 DEF ReplaceCueList
  <2>4. CueTypeOK'
    BY <1>9, <2>1, <2>2, <2>3 DEF ReplaceCueList, CueTypes, CueTypeOK
  <2>. QED BY <1>9, <2>4 DEF ReplaceCueList, CueInv, CueTypes, MadeOK
<1>10. CASE UNCHANGED cueVars
  BY <1>10 DEF cueVars, CueInv, CueTypes, CueTypeOK, MadeOK
<1>. QED BY <1>1, <1>2, <1>3, <1>4, <1>5, <1>6, <1>7, <1>8, <1>9, <1>10 DEF CueNext, CueProgress

\* It holds at first.
LEMMA CueInvInit == CueInit => CueInv
<1>. SUFFICES ASSUME CueInit PROVE CueInv
  OBVIOUS
<1>1. cueList \in Seq(Cue) /\ Ascending(cueList) /\ Distinct(cueList)
  BY CueAssumption DEF CueInit, CueLists
<1>2. cueAt \in 0..Len(cueList) /\ 0 \in 0..MaxPresses /\ 0 \in 0..MaxListEdits
  BY <1>1, CueAssumption DEF CueInit
<1>3. CueTypeOK
  BY <1>1, <1>2 DEF CueInit, CueTypeOK
<1>4. cueTasks \subseteq Ops /\ cueTriggers \in Seq(Ops) /\ MadeOK
  BY DEF CueInit, MadeOK
<1>. QED BY <1>3, <1>4 DEF CueInv, CueTypes

\* A next takes up after the cue that the last press made current.
LEMMA NextFollows ==
  ASSUME CueInv, Nexts, cueAt' # cueAt, ~cueShifted, cueMade # NoCue
  PROVE  TakesUpAfterLast
<1>. CueTypes /\ cueList \in Seq(Cue) /\ Distinct(cueList)
  BY DEF CueInv, CueTypes, CueTypeOK
<1>1. PICK op : op.kind = "next" /\ Pick(op)
  BY DEF Nexts, TaskPicks, TriggerPicks
<1>2. Target(op) = GoNext /\ cueAt' = GoNext /\ GoNext # 0
  BY <1>1 DEF Target, Pick
<1>3. cueAt \in DOMAIN cueList /\ cueList[cueAt].id = cueMade
  BY DEF CueInv, MadeOK
<1>4. IndexOf(cueList, cueMade) = cueAt
  BY <1>3, IndexFinds
<1>. QED BY <1>2, <1>4 DEF GoNext, TakesUpAfterLast

\* The list alone: its types, sorted and free of doubles, the playhead within it.
THEOREM CueTypeCorrect == CueSpec => []CueTypeOK
<1>1. CueInv => CueTypeOK
  BY DEF CueInv, CueTypes
<1>. QED BY <1>1, CueInvInit, CueInvNext, PTL DEF CueSpec

\* GO takes up after the cue that the last press made current, whatever presses,
\* triggers and edits are on their way, wherever the run is.
THEOREM GoFollowsCorrect == LinksSpec => GoFollows
<1>. DEFINE Follows == Nexts /\ cueAt' # cueAt /\ ~cueShifted /\ cueMade # NoCue
                         => TakesUpAfterLast
<1>1. CueInv => Follows
  BY NextFollows
<1>2. LinksInit => CueInit
  BY DEF LinksInit
<1>3. [LinksNext]_linksVars => [CueNext]_cueVars
  BY DEF LinksNext, GpSteps, PadSteps, CueSteps, ChannelSteps, linksVars
<1>4. LinksSpec => []CueInv
  BY <1>2, <1>3, CueInvInit, CueInvNext, PTL DEF LinksSpec
<1>5. CueInv /\ [CueNext]_cueVars => [Follows]_cueVars
  BY <1>1
<1>6. LinksSpec => [][Follows]_cueVars
  BY <1>3, <1>4, <1>5, PTL DEF LinksSpec
<1>. QED BY <1>6 DEF GoFollows

-----------------------------------------------------------------------------
(* A channel: addresses and increments.                                    *)

\* A channel's addresses are its mute, its levels and its switches.
LEMMA Addresses ==
  /\ Mute \in ChannelAddr /\ ValuesOf(Mute) = 0..1
  /\ \A c \in Categories : /\ Level(c) \in ChannelAddr /\ ValuesOf(Level(c)) = 0..Top
                           /\ Switch(c) \in ChannelAddr /\ ValuesOf(Switch(c)) = 0..1
  /\ \A a \in ChannelAddr : \/ a = Mute
                            \/ \E c \in Categories : a \in {Level(c), Switch(c)}
  /\ \A a \in ChannelAddr : ValuesOf(a) \subseteq Int
<1>1. Mute \in ChannelAddr /\ \A c \in Categories : Level(c) \in ChannelAddr /\ Switch(c) \in ChannelAddr
  BY DEF ChannelAddr
<1>2. \A a \in ChannelAddr : a = Mute \/ \E c \in Categories : a \in {Level(c), Switch(c)}
  BY DEF ChannelAddr
<1>3. \A c \in Categories : ValuesOf(Level(c)) = 0..Top
  BY DEF ValuesOf
<1>4. ValuesOf(Mute) = 0..1
  BY DEF ValuesOf, Mute, Level
<1>5. \A c \in Categories : ValuesOf(Switch(c)) = 0..1
  BY DEF ValuesOf, Switch, Level
<1>6. \A a : ValuesOf(a) \subseteq Int
  BY ChannelAssumption DEF ValuesOf
<1>. QED BY <1>1, <1>2, <1>3, <1>4, <1>5, <1>6

\* They all differ.
LEMMA AddressesDiffer ==
  \A c, d \in Categories : /\ Level(c) # Switch(d) /\ Level(c) # Mute /\ Switch(c) # Mute
                           /\ Level(c) = Level(d) => c = d
                           /\ Switch(c) = Switch(d) => c = d
BY DEF Level, Switch, Mute

\* A part of a difference lies between nothing and the whole of it.
LEMMA PartOfDifference ==
  ASSUME NEW d \in Int, NEW n \in Nat \ {0}, NEW k \in 0..n
  PROVE  /\ (d * k) \div n \in Int
         /\ d >= 0 => (d * k) \div n \in 0..d
         /\ d <= 0 => (d * k) \div n \in d..0
         /\ k = n => (d * k) \div n = d
<1>. DEFINE q == (d * k) \div n
<1>1. d * k \in Int /\ q \in Int /\ n * q <= d * k /\ d * k < n * q + n
  OBVIOUS
<1>2. CASE d >= 0
  <2>1. 0 <= d * k /\ d * k <= d * n
    BY <1>2
  <2>. QED BY <1>1, <1>2, <2>1
<1>3. CASE d <= 0
  <2>1. d * n <= d * k /\ d * k <= 0
    BY <1>3
  <2>. QED BY <1>1, <1>3, <2>1
<1>. QED BY <1>1, <1>2, <1>3

-----------------------------------------------------------------------------
(* A channel: the types of its variables.                                  *)

Tasks == {"idle", "queued", "snapping", "muting", "forking", "moving", "unmuting", "joined", "over"}
Steps == {"none", "wait", "off", "begin", "switch", "level", "on", "over"}
Notes == [cue : CueNos, task : {"channel", "snap"} \cup Categories, at : ChannelAddr, value : Int]
IsValues(f) == DOMAIN f \subseteq ChannelAddr /\ \A a \in DOMAIN f : f[a] \in ValuesOf(a)

ScoreTypes == /\ DOMAIN chCues = CueNos /\ \A i \in CueNos : IsCue(chCues[i])
              /\ chPressed \in 0..CueCount
TaskTypes == chTask \in [CueNos -> Tasks] /\ chStep \in [CueNos -> [Categories -> Steps]]
\* A step that sends has something to send.
StepTypes == \A i \in CueNos :
               /\ chTask[i] = "muting" => MuteGoes(i, 1)
               /\ chTask[i] = "unmuting" => MuteGoes(i, 0)
               /\ \A c \in Categories :
                    /\ chStep[i][c] = "off" => OffFirst(i, c)
                    /\ chStep[i][c] = "switch" => c \notin AuxSends /\ Names(i, Switch(c))
                    /\ chStep[i][c] = "on" => OnLast(i, c)
FadeTypes == chFade \in [CueNos -> [Categories -> [from : 0..Top, at : -1..FadeTicks]]]
PlanTypes == IsValues(chSnaps) /\ IsValues(chPlan.values) /\ chPlan.by \in 0..CueCount
AutoTypes == /\ chAuto \in [ChannelAddr -> 0..CueCount]
             /\ DOMAIN chSent = ChannelAddr
             /\ \A a \in ChannelAddr : chSent[a] \in Seq(ValuesOf(a)) /\ Len(chSent[a]) <= 2
DeskTypes == /\ IsDesk(chDesk) /\ IsDesk(chMirror)
             /\ chNoted \subseteq Notes /\ \A n \in chNoted : n.value \in ValuesOf(n.at)
WorldTypes == /\ DOMAIN chReport = ChannelAddr
              /\ \A a \in ChannelAddr : chReport[a] \in ValuesOf(a) \cup {NoReport}
              /\ chTouches \in 0..MaxTouches /\ chHands \cup chOthers \subseteq ChannelAddr
ChTypes == /\ ScoreTypes /\ TaskTypes /\ StepTypes /\ FadeTypes /\ PlanTypes /\ AutoTypes
           /\ DeskTypes /\ WorldTypes

\* Together they are the types that the run checks, and a little more.
LEMMA TypesEnough == ChTypes => ChannelTypeOK
<1>. SUFFICES ASSUME ChTypes PROVE ChannelTypeOK
  OBVIOUS
<1>1. \A a \in ChannelAddr : \A k \in 1..Len(chSent[a]) : chSent[a][k] \in ValuesOf(a)
  BY DEF ChTypes, AutoTypes
<1>2. \A f \in {chSnaps, chPlan.values} :
        DOMAIN f \subseteq ChannelAddr /\ \A a \in DOMAIN f : f[a] \in ValuesOf(a)
  BY DEF ChTypes, PlanTypes, IsValues
<1>3. \A n \in chNoted : n.cue \in CueNos /\ n.at \in ChannelAddr /\ n.value \in ValuesOf(n.at)
  BY DEF ChTypes, DeskTypes, Notes
<1>4. \A a \in ChannelAddr : {chDesk[a], chMirror[a]} \subseteq ValuesOf(a)
  BY DEF ChTypes, DeskTypes, IsDesk
<1>. QED
  BY <1>1, <1>2, <1>3, <1>4
     DEF ChTypes, ScoreTypes, TaskTypes, Tasks, Steps, FadeTypes, PlanTypes, AutoTypes,
         WorldTypes, ChannelTypeOK

\* A cue's own values are values of its addresses.
LEMMA OwnOK ==
  ASSUME ScoreTypes, NEW i \in CueNos
  PROVE  /\ IsValues(Own(i)) /\ DOMAIN Own(i) \subseteq ChannelAddr
         /\ \A a : Names(i, a) => a \in ChannelAddr /\ Own(i)[a] \in ValuesOf(a)
BY DEF ScoreTypes, IsCue, Own, Names, IsValues

\* A datagram of a value of its address.
LEMMA DatagramTypes ==
  ASSUME DeskTypes, NEW i \in CueNos, NEW task \in {"channel", "snap"} \cup Categories,
         NEW a \in ChannelAddr, NEW v \in ValuesOf(a),
         Datagram(i, task, a, v), chMirror' = chMirror
  PROVE  DeskTypes'
<1>1. IsDesk(chDesk)'
  BY DEF DeskTypes, IsDesk, Datagram
<1>2. [cue |-> i, task |-> task, at |-> a, value |-> v] \in Notes
  BY Addresses DEF Notes
<1>. QED BY <1>1, <1>2 DEF DeskTypes, Datagram

\* The same of what a task of the channel sends, or does not.
LEMMA SendTypes ==
  ASSUME DeskTypes, ScoreTypes, NEW i \in CueNos,
         NEW task \in {"channel", "snap"} \cup Categories, NEW a, Names(i, a),
         SendOne(i, task, a), chMirror' = chMirror
  PROVE  DeskTypes'
<1>1. a \in ChannelAddr /\ Own(i)[a] \in ValuesOf(a)
  BY OwnOK
<1>2. CASE MaySend(i, a)
  <2>1. Datagram(i, task, a, Own(i)[a])
    BY <1>2 DEF SendOne
  <2>. QED BY <1>1, <2>1, DatagramTypes
<1>3. CASE ~MaySend(i, a)
  <2>1. UNCHANGED <<chDesk, chNoted>>
    BY <1>3 DEF SendOne
  <2>. QED BY <2>1 DEF DeskTypes, IsDesk
<1>. QED BY <1>2, <1>3

\* On its way a fade stays between its start and its target, and ends on it.
LEMMA IncrementIsLevel ==
  ASSUME ScoreTypes, FadeTypes, NEW i \in CueNos, NEW c \in Categories, Names(i, Level(c)),
         NEW k \in 0..FadeTicks
  PROVE  /\ Increment(i, c, k) \in 0..Top
         /\ Increment(i, c, FadeTicks) = Own(i)[Level(c)]
<1>. DEFINE from == chFade[i][c].from
            target == Own(i)[Level(c)]
<1>1. from \in 0..Top /\ target \in 0..Top /\ Top \in Nat /\ FadeTicks \in Nat \ {0}
  BY OwnOK, Addresses, ChannelAssumption DEF FadeTypes
<1>2. target - from \in Int
  BY <1>1
<1>. HIDE DEF from, target
<1>3. /\ ((target - from) * k) \div FadeTicks \in Int
      /\ target - from >= 0 => ((target - from) * k) \div FadeTicks \in 0..(target - from)
      /\ target - from <= 0 => ((target - from) * k) \div FadeTicks \in (target - from)..0
  BY <1>1, <1>2, PartOfDifference
<1>4. ((target - from) * FadeTicks) \div FadeTicks = target - from
  BY <1>1, <1>2, PartOfDifference
<1>5. Increment(i, c, k) = from + ((target - from) * k) \div FadeTicks
  BY DEF Increment, from, target
<1>6. Increment(i, c, FadeTicks) = from + ((target - from) * FadeTicks) \div FadeTicks
  BY DEF Increment, from, target
<1>7. Increment(i, c, FadeTicks) = target
  BY <1>1, <1>4, <1>6
<1>8. Increment(i, c, k) \in 0..Top
  <2>. DEFINE part0 == ((target - from) * k) \div FadeTicks
  <2>1. part0 \in Int /\ (target - from >= 0 => part0 \in 0..(target - from))
        /\ (target - from <= 0 => part0 \in (target - from)..0)
    BY <1>3
  <2>2. Increment(i, c, k) = from + part0
    BY <1>5
  <2>. HIDE DEF part0
  <2>. QED BY <1>1, <2>1, <2>2
<1>. QED BY <1>7, <1>8 DEF target

\* Where a task or a step goes.
LEMMA ReachesTypes ==
  ASSUME TaskTypes, StepTypes, NEW i \in CueNos, NEW state \in Tasks,
         Reaches(i, state), UNCHANGED <<chStep, chCues>>,
         state = "muting" => MuteGoes(i, 1), state = "unmuting" => MuteGoes(i, 0)
  PROVE  TaskTypes' /\ StepTypes'
<1>1. TaskTypes'
  BY DEF TaskTypes, Reaches
<1>2. \A j \in CueNos : chTask'[j] = chTask[j] \/ (j = i /\ chTask'[j] = state)
  BY DEF TaskTypes, Reaches
<1>. QED BY <1>1, <1>2 DEF StepTypes, MuteGoes, Names, Own, OffFirst, OnLast, SwitchIs

\* The same of a category's step.
LEMMA GoesTypes ==
  ASSUME TaskTypes, StepTypes, NEW i \in CueNos, NEW c \in Categories, NEW step \in Steps,
         Goes(i, c, step), UNCHANGED <<chTask, chCues>>,
         step = "off" => OffFirst(i, c), step = "on" => OnLast(i, c),
         step = "switch" => c \notin AuxSends /\ Names(i, Switch(c))
  PROVE  TaskTypes' /\ StepTypes'
<1>1. TaskTypes'
  BY DEF TaskTypes, Goes
<1>2. \A j \in CueNos, d \in Categories :
        chStep'[j][d] = chStep[j][d] \/ (j = i /\ d = c /\ chStep'[j][d] = step)
  BY DEF TaskTypes, Goes
<1>. QED BY <1>1, <1>2 DEF StepTypes, MuteGoes, Names, Own, OffFirst, OnLast, SwitchIs

\* One plan laid onto another.
LEMMA OntoTypes ==
  ASSUME NEW f, NEW g, IsValues(f), IsValues(g)
  PROVE  /\ IsValues(Onto(f, g)) /\ DOMAIN Onto(f, g) = DOMAIN f \cup DOMAIN g
         /\ \A a \in DOMAIN f : Onto(f, g)[a] = f[a]
         /\ \A a \in DOMAIN g \ DOMAIN f : Onto(f, g)[a] = g[a]
BY DEF Onto, IsValues

\* A plan without some addresses.
LEMMA WithoutTypes ==
  ASSUME NEW f, IsValues(f), NEW s
  PROVE  /\ IsValues(Without(f, s)) /\ DOMAIN Without(f, s) = DOMAIN f \ s
         /\ \A a \in DOMAIN f \ s : Without(f, s)[a] = f[a]
BY DEF Without, IsValues

\* The empty plan.
LEMMA NoValuesTypes == IsValues(NoValues) /\ DOMAIN NoValues = {}
BY DEF IsValues, NoValues

\* What a step leaves alone keeps its type.
LEMMA TypesKept ==
  /\ ScoreTypes /\ UNCHANGED <<chCues, chPressed>> => ScoreTypes'
  /\ TaskTypes /\ StepTypes /\ UNCHANGED <<chTask, chStep, chCues>> => TaskTypes' /\ StepTypes'
  /\ FadeTypes /\ UNCHANGED chFade => FadeTypes'
  /\ PlanTypes /\ UNCHANGED <<chSnaps, chPlan>> => PlanTypes'
  /\ AutoTypes /\ UNCHANGED <<chAuto, chSent>> => AutoTypes'
  /\ DeskTypes /\ UNCHANGED <<chDesk, chMirror, chNoted>> => DeskTypes'
  /\ WorldTypes /\ UNCHANGED <<chReport, chTouches, chOthers, chHands>> => WorldTypes'
<1>1. ScoreTypes /\ UNCHANGED <<chCues, chPressed>> => ScoreTypes'
  BY DEF ScoreTypes
<1>2. TaskTypes /\ StepTypes /\ UNCHANGED <<chTask, chStep, chCues>> => TaskTypes' /\ StepTypes'
  BY DEF TaskTypes, StepTypes, MuteGoes, Names, Own, OffFirst, OnLast, SwitchIs
<1>3. FadeTypes /\ UNCHANGED chFade => FadeTypes'
  BY DEF FadeTypes
<1>4. PlanTypes /\ UNCHANGED <<chSnaps, chPlan>> => PlanTypes'
  BY DEF PlanTypes
<1>5. AutoTypes /\ UNCHANGED <<chAuto, chSent>> => AutoTypes'
  BY DEF AutoTypes
<1>6. DeskTypes /\ UNCHANGED <<chDesk, chMirror, chNoted>> => DeskTypes'
  BY DEF DeskTypes
<1>7. WorldTypes /\ UNCHANGED <<chReport, chTouches, chOthers, chHands>> => WorldTypes'
  BY DEF WorldTypes
<1>. QED BY <1>1, <1>2, <1>3, <1>4, <1>5, <1>6, <1>7

\* At the start.
LEMMA ChTypesInit == ChannelInit => ChTypes
<1>. SUFFICES ASSUME ChannelInit PROVE ChTypes
  OBVIOUS
<1>1. PICK scene \in Scenes : chCues = scene.cues /\ chDesk = scene.desk
  BY DEF ChannelInit
<1>2. ScoreTypes
  BY <1>1, ChannelAssumption DEF ChannelInit, ScoreTypes, CueNos
<1>3. TaskTypes /\ FadeTypes
  BY ChannelAssumption DEF ChannelInit, TaskTypes, Tasks, Steps, FadeTypes, NoFade
<1>8. StepTypes
  BY DEF ChannelInit, StepTypes
<1>4. PlanTypes
  <2>1. chPlan.by = 0 /\ chPlan.values = NoValues /\ chSnaps = NoValues
    BY DEF ChannelInit
  <2>. QED BY <2>1, NoValuesTypes, ChannelAssumption DEF PlanTypes
<1>5. AutoTypes
  <2>1. chAuto \in [ChannelAddr -> 0..CueCount] /\ DOMAIN chSent = ChannelAddr
    BY ChannelAssumption DEF ChannelInit
  <2>2. \A a \in ChannelAddr : chSent[a] = <<>>
    BY DEF ChannelInit
  <2>3. \A a \in ChannelAddr : <<>> \in Seq(ValuesOf(a)) /\ Len(<<>>) <= 2
    OBVIOUS
  <2>. QED BY <2>1, <2>2, <2>3 DEF AutoTypes
<1>6. DeskTypes
  BY <1>1, ChannelAssumption DEF ChannelInit, DeskTypes
<1>7. WorldTypes
  BY ChannelAssumption DEF ChannelInit, WorldTypes
<1>. QED BY <1>2, <1>3, <1>8, <1>4, <1>5, <1>6, <1>7 DEF ChTypes

\* A cue's way to its channel's task.
LEMMA CueStepTypes ==
  ASSUME ChTypes, NEW i \in CueNos,
         \/ Press(i) \/ LeaveQueue(i) \/ ResolveCue(i) \/ SnapOne(i) \/ SpawnChannel(i)
  PROVE  ChTypes'
<1>. /\ ScoreTypes /\ TaskTypes /\ StepTypes /\ FadeTypes /\ PlanTypes /\ AutoTypes
     /\ DeskTypes /\ WorldTypes
  BY DEF ChTypes
<1>. \A state \in Tasks :
       /\ Reaches(i, state) /\ UNCHANGED <<chStep, chCues>>
       /\ state = "muting" => MuteGoes(i, 1)
       /\ state = "unmuting" => MuteGoes(i, 0)
       => TaskTypes' /\ StepTypes'
  BY ReachesTypes
<1>. \A t \in {"queued", "over", "snapping", "muting", "forking"} : t \in Tasks
  BY DEF Tasks
<1>. IsValues(Own(i)) /\ DOMAIN Own(i) \subseteq ChannelAddr
  BY OwnOK
<1>plan. IsValues(PlanOf(i).values) /\ PlanOf(i).by \in 0..CueCount
  <2>1. IsValues(Onto(Own(i), chPlan.values))
    BY OntoTypes DEF PlanTypes
  <2>. QED BY <2>1, ChannelAssumption DEF PlanOf, CueNos
<1>1. CASE Press(i)
  <2>1. chPressed' \in 0..CueCount
    BY <1>1, ChannelAssumption DEF Press, CueNos
  <2>2. ScoreTypes'
    BY <1>1, <2>1 DEF Press, ScoreTypes
  <2>3. TaskTypes' /\ StepTypes'
    BY <1>1 DEF Press
  <2>. QED BY <1>1, <2>2, <2>3, TypesKept DEF Press, chWorld, ChTypes
<1>2. CASE LeaveQueue(i)
  <2>1. PlanTypes'
    BY <1>2, <1>plan DEF LeaveQueue, PlanTypes
  <2>2. TaskTypes' /\ StepTypes'
    BY <1>2 DEF LeaveQueue
  <2>. QED BY <1>2, <2>1, <2>2, TypesKept DEF LeaveQueue, chWorld, ChTypes
<1>3. CASE ResolveCue(i)
  <2>1. PlanTypes'
    <3>1. IsValues(Without(chPlan.values, DOMAIN Own(i)))
      BY WithoutTypes DEF PlanTypes
    <3>. QED BY <1>3, <3>1, <1>plan DEF ResolveCue, PlanTypes
  <2>2. FadeTypes'
    <3>1. \A c \in Categories : chMirror[Level(c)] \in 0..Top
      BY Addresses DEF DeskTypes, IsDesk
    <3>2. [c \in Categories |-> [NoFade EXCEPT !.from = chMirror[Level(c)]]]
            \in [Categories -> [from : 0..Top, at : -1..FadeTicks]]
      BY <3>1, ChannelAssumption DEF NoFade
    <3>. QED BY <1>3, <3>2 DEF ResolveCue, FadeTypes
  <2>3. AutoTypes'
    BY <1>3, ChannelAssumption DEF ResolveCue, AutoTypes
  <2>4. WorldTypes'
    BY <1>3 DEF ResolveCue, WorldTypes
  <2>5. TaskTypes' /\ StepTypes'
    BY <1>3 DEF ResolveCue
  <2>. QED BY <1>3, <2>1, <2>2, <2>3, <2>4, <2>5, TypesKept DEF ResolveCue, ChTypes
<1>4. CASE SnapOne(i)
  <2>1. PICK a \in DOMAIN chSnaps : /\ Datagram(i, "snap", a, chSnaps[a])
                                    /\ chSnaps' = Without(chSnaps, {a})
    BY <1>4 DEF SnapOne
  <2>2. a \in ChannelAddr /\ chSnaps[a] \in ValuesOf(a)
    BY DEF PlanTypes, IsValues
  <2>3. chMirror' = chMirror
    BY <1>4 DEF SnapOne
  <2>4. DeskTypes'
    BY <2>1, <2>2, <2>3, DatagramTypes
  <2>5. PlanTypes'
    BY <1>4, <2>1, WithoutTypes DEF SnapOne, PlanTypes
  <2>. QED BY <1>4, <2>4, <2>5, TypesKept DEF SnapOne, chWorld, ChTypes
<1>5. CASE SpawnChannel(i)
  <2>1. AutoTypes'
    <3>1. chAuto' \in [ChannelAddr -> 0..CueCount]
      BY <1>5, ChannelAssumption DEF SpawnChannel, AutoTypes, CueNos
    <3>2. DOMAIN chSent' = ChannelAddr
          /\ \A a \in ChannelAddr : chSent'[a] = <<>> \/ chSent'[a] = chSent[a]
      BY <1>5 DEF SpawnChannel
    <3>3. \A a \in ChannelAddr : <<>> \in Seq(ValuesOf(a)) /\ Len(<<>>) <= 2
      OBVIOUS
    <3>. QED BY <3>1, <3>2, <3>3 DEF AutoTypes
  <2>2. PlanTypes'
    BY <1>5, NoValuesTypes DEF SpawnChannel, PlanTypes
  <2>3. TaskTypes' /\ StepTypes'
    BY <1>5 DEF SpawnChannel, MutesFirst
  <2>. QED BY <1>5, <2>1, <2>2, <2>3, TypesKept DEF SpawnChannel, chWorld, ChTypes
<1>. QED BY <1>1, <1>2, <1>3, <1>4, <1>5

\* The channel's task.
LEMMA TaskStepTypes ==
  ASSUME ChTypes, NEW i \in CueNos,
         \/ MuteFirst(i) \/ ForkGroups(i) \/ JoinGroups(i) \/ MuteLast(i) \/ FinishCue(i)
  PROVE  ChTypes'
<1>. /\ ScoreTypes /\ TaskTypes /\ StepTypes /\ FadeTypes /\ PlanTypes /\ AutoTypes
     /\ DeskTypes /\ WorldTypes
  BY DEF ChTypes
<1>. \A state \in Tasks :
       /\ Reaches(i, state) /\ UNCHANGED <<chStep, chCues>>
       /\ state = "muting" => MuteGoes(i, 1)
       /\ state = "unmuting" => MuteGoes(i, 0)
       => TaskTypes' /\ StepTypes'
  BY ReachesTypes
<1>. \A t \in {"forking", "moving", "unmuting", "joined", "over"} : t \in Tasks
  BY DEF Tasks
<1>1. CASE MuteFirst(i)
  <2>1. SendOne(i, "channel", Mute) /\ chMirror' = chMirror /\ chTask[i] = "muting"
    BY <1>1 DEF MuteFirst, ChannelStep
  <2>2. Names(i, Mute)
    BY <2>1 DEF StepTypes, MuteGoes
  <2>3. DeskTypes'
    BY <2>1, <2>2, SendTypes
  <2>4. TaskTypes' /\ StepTypes'
    BY <1>1 DEF MuteFirst, ChannelStep
  <2>. QED BY <1>1, <2>3, <2>4, TypesKept DEF MuteFirst, ChannelStep, chWorld, ChTypes
<1>2. CASE ForkGroups(i)
  <2>1. TaskTypes'
    <3>1. \A t \in {"wait", "none"} : t \in Steps
      BY DEF Steps
    <3>. QED BY <1>2, <3>1 DEF ForkGroups, TaskTypes, Reaches
  <2>2. StepTypes'
    <3>1. \A j \in CueNos : \/ j # i /\ chTask'[j] = chTask[j] /\ chStep'[j] = chStep[j]
                            \/ /\ j = i /\ chTask'[j] = "moving"
                               /\ \A c \in Categories : chStep'[j][c] \in {"wait", "none"}
      BY <1>2 DEF ForkGroups, TaskTypes, Reaches
    <3>2. chCues' = chCues
      BY <1>2 DEF ForkGroups, ChannelStep
    <3>. QED
      BY <3>1, <3>2 DEF StepTypes, MuteGoes, Names, Own, OffFirst, OnLast, SwitchIs
  <2>. QED BY <1>2, <2>1, <2>2, TypesKept DEF ForkGroups, ChannelStep, chWorld, ChTypes
<1>3. CASE JoinGroups(i)
  <2>1. TaskTypes' /\ StepTypes'
    BY <1>3 DEF JoinGroups, ChannelStep
  <2>. QED BY <1>3, <2>1, TypesKept DEF JoinGroups, ChannelStep, chWorld, ChTypes
<1>4. CASE MuteLast(i)
  <2>1. SendOne(i, "channel", Mute) /\ chMirror' = chMirror /\ chTask[i] = "unmuting"
    BY <1>4 DEF MuteLast, ChannelStep
  <2>2. Names(i, Mute)
    BY <2>1 DEF StepTypes, MuteGoes
  <2>3. DeskTypes'
    BY <2>1, <2>2, SendTypes
  <2>4. TaskTypes' /\ StepTypes'
    BY <1>4 DEF MuteLast, ChannelStep
  <2>. QED BY <1>4, <2>3, <2>4, TypesKept DEF MuteLast, ChannelStep, chWorld, ChTypes
<1>5. CASE FinishCue(i)
  <2>1. PlanTypes'
    BY <1>5, NoValuesTypes, ChannelAssumption DEF FinishCue, ChannelStep, PlanTypes
  <2>2. TaskTypes' /\ StepTypes'
    BY <1>5 DEF FinishCue, ChannelStep
  <2>. QED BY <1>5, <2>1, <2>2, TypesKept DEF FinishCue, ChannelStep, chWorld, ChTypes
<1>. QED BY <1>1, <1>2, <1>3, <1>4, <1>5

\* The task of a category.
LEMMA GroupStepTypes ==
  ASSUME ChTypes, NEW i \in CueNos, NEW c \in Categories,
         \/ PreWaitEnds(i, c) \/ SwitchOff(i, c) \/ BeginGroup(i, c) \/ SwitchFirst(i, c)
         \/ LevelAtOnce(i, c) \/ FadeTick(i, c) \/ FadeEnds(i, c) \/ SwitchOn(i, c)
  PROVE  ChTypes'
<1>. /\ ScoreTypes /\ TaskTypes /\ StepTypes /\ FadeTypes /\ PlanTypes /\ AutoTypes
     /\ DeskTypes /\ WorldTypes
  BY DEF ChTypes
<1>a. \A step \in Steps :
       /\ Goes(i, c, step) /\ UNCHANGED <<chTask, chCues>>
       /\ step = "off" => OffFirst(i, c)
       /\ step = "on" => OnLast(i, c)
       /\ step = "switch" => c \notin AuxSends /\ Names(i, Switch(c))
       => TaskTypes' /\ StepTypes'
  BY GoesTypes
<1>b. \A t \in {"over", "off", "begin", "switch", "level", "on"} : t \in Steps
  BY DEF Steps
<1>c. LevelOver(i, c) /\ UNCHANGED <<chTask, chCues>> => TaskTypes' /\ StepTypes'
  BY <1>a, <1>b DEF LevelOver
<1>d. ASSUME NEW task \in {"channel", "snap"} \cup Categories, NEW a, SendOne(i, task, a), Names(i, a),
             chMirror' = chMirror
      PROVE  DeskTypes'
  BY <1>d, SendTypes
<1>rest. GroupStep => /\ ScoreTypes' /\ PlanTypes' /\ WorldTypes' /\ UNCHANGED <<chTask, chCues>>
                      /\ chMirror' = chMirror /\ chSent' = chSent
  BY TypesKept DEF GroupStep, chWorld
<1>1. CASE PreWaitEnds(i, c)
  <2>1. TaskTypes' /\ StepTypes'
    BY <1>1, <1>a, <1>b, <1>rest DEF PreWaitEnds
  <2>. QED BY <1>1, <2>1, <1>rest, TypesKept DEF PreWaitEnds, ChTypes
<1>2. CASE SwitchOff(i, c)
  <2>1. TaskTypes' /\ StepTypes'
    BY <1>2, <1>a, <1>b, <1>rest DEF SwitchOff
  <2>2. DeskTypes'
    <3>1. Names(i, Switch(c))
      BY <1>2 DEF SwitchOff, StepTypes, OffFirst, SwitchIs
    <3>. QED BY <1>2, <3>1, <1>d, <1>rest DEF SwitchOff
  <2>. QED BY <1>2, <2>1, <2>2, <1>rest, TypesKept DEF SwitchOff, ChTypes
<1>3. CASE BeginGroup(i, c)
  <2>1. TaskTypes' /\ StepTypes'
    BY <1>3, <1>a, <1>b, <1>c, <1>rest DEF BeginGroup
  <2>2. FadeTypes'
    <3>1. chMirror[Level(c)] \in 0..Top
      BY Addresses DEF DeskTypes, IsDesk
    <3>2. [NoFade EXCEPT !.from = StartValue(i, c)] \in [from : 0..Top, at : -1..FadeTicks]
          /\ NoFade \in [from : 0..Top, at : -1..FadeTicks]
      BY <3>1, ChannelAssumption DEF NoFade, StartValue
    <3>3. PICK fade \in [from : 0..Top, at : -1..FadeTicks] : chFade' = [chFade EXCEPT ![i][c] = fade]
      BY <1>3, <3>2 DEF BeginGroup
    <3>. QED BY <3>3 DEF FadeTypes
  <2>. QED BY <1>3, <2>1, <2>2, <1>rest, TypesKept DEF BeginGroup, ChTypes
<1>4. CASE SwitchFirst(i, c)
  <2>1. TaskTypes' /\ StepTypes'
    BY <1>4, <1>a, <1>b, <1>rest DEF SwitchFirst
  <2>2. DeskTypes'
    <3>1. Names(i, Switch(c))
      BY <1>4 DEF SwitchFirst, StepTypes
    <3>. QED BY <1>4, <3>1, <1>d, <1>rest DEF SwitchFirst
  <2>. QED BY <1>4, <2>1, <2>2, <1>rest, TypesKept DEF SwitchFirst, ChTypes
<1>5. CASE LevelAtOnce(i, c)
  <2>1. TaskTypes' /\ StepTypes'
    BY <1>5, <1>c, <1>rest DEF LevelAtOnce
  <2>2. DeskTypes'
    <3>1. CASE Names(i, Level(c))
      BY <1>5, <3>1, <1>d, <1>rest DEF LevelAtOnce
    <3>2. CASE ~Names(i, Level(c))
      BY <1>5, <3>2, <1>rest, TypesKept DEF LevelAtOnce
    <3>. QED BY <3>1, <3>2
  <2>. QED BY <1>5, <2>1, <2>2, <1>rest, TypesKept DEF LevelAtOnce, ChTypes
<1>6. CASE FadeTick(i, c)
  <2>1. PICK k \in (chFade[i][c].at + 1)..FadeTicks :
          /\ chFade' = [chFade EXCEPT ![i][c].at = k]
          /\ IF chAuto[Level(c)] = i THEN Datagram(i, c, Level(c), Increment(i, c, k))
             ELSE UNCHANGED <<chDesk, chNoted>>
    BY <1>6 DEF FadeTick
  <2>2. k \in 0..FadeTicks /\ k \in -1..FadeTicks /\ chFade[i][c] \in [from : 0..Top, at : -1..FadeTicks]
    BY ChannelAssumption DEF FadeTypes
  <2>3. FadeTypes'
    <3>1. [chFade[i][c] EXCEPT !.at = k] \in [from : 0..Top, at : -1..FadeTicks]
      BY <2>2
    <3>. QED BY <2>1, <3>1 DEF FadeTypes
  <2>4. DeskTypes'
    <3>1. CASE chAuto[Level(c)] = i
      <4>1. Names(i, Level(c))
        BY <1>6 DEF FadeTick, Fades
      <4>2. Level(c) \in ChannelAddr /\ Increment(i, c, k) \in ValuesOf(Level(c))
        BY <2>2, <4>1, IncrementIsLevel, Addresses
      <4>3. Datagram(i, c, Level(c), Increment(i, c, k)) /\ chMirror' = chMirror
        BY <1>6, <2>1, <3>1, <1>rest DEF FadeTick
      <4>. QED BY <4>2, <4>3, DatagramTypes
    <3>2. CASE chAuto[Level(c)] # i
      BY <1>6, <2>1, <3>2, <1>rest, TypesKept DEF FadeTick
    <3>. QED BY <3>1, <3>2
  <2>. QED BY <1>6, <2>3, <2>4, <1>rest, TypesKept DEF FadeTick, ChTypes
<1>7. CASE FadeEnds(i, c)
  <2>1. TaskTypes' /\ StepTypes'
    BY <1>7, <1>c, <1>rest DEF FadeEnds
  <2>2. FadeTypes'
    <3>1. NoFade \in [from : 0..Top, at : -1..FadeTicks]
      BY ChannelAssumption DEF NoFade
    <3>. QED BY <1>7, <3>1 DEF FadeEnds, FadeTypes
  <2>3. AutoTypes'
    <3>1. chAuto' = chAuto \/ chAuto' = [chAuto EXCEPT ![Level(c)] = 0]
      BY <1>7 DEF FadeEnds
    <3>2. 0 \in 0..CueCount
      BY ChannelAssumption
    <3>3. chAuto' \in [ChannelAddr -> 0..CueCount]
      BY <3>1, <3>2 DEF AutoTypes
    <3>. QED BY <1>7, <3>3, <1>rest DEF FadeEnds, AutoTypes
  <2>. QED BY <1>7, <2>1, <2>2, <2>3, <1>rest, TypesKept DEF FadeEnds, ChTypes
<1>8. CASE SwitchOn(i, c)
  <2>1. TaskTypes' /\ StepTypes'
    BY <1>8, <1>a, <1>b, <1>rest DEF SwitchOn
  <2>2. DeskTypes'
    <3>1. Names(i, Switch(c))
      BY <1>8 DEF SwitchOn, StepTypes, OnLast
    <3>. QED BY <1>8, <3>1, <1>d, <1>rest DEF SwitchOn
  <2>. QED BY <1>8, <2>1, <2>2, <1>rest, TypesKept DEF SwitchOn, ChTypes
<1>. QED BY <1>1, <1>2, <1>3, <1>4, <1>5, <1>6, <1>7, <1>8

\* The log of what was sent keeps the last two.
LEMMA LogTypes ==
  ASSUME NEW S, NEW log \in Seq(S), Len(log) <= 2, NEW v \in S
  PROVE  /\ SubSeq(<<v>> \o log, 1, IF log = <<>> THEN 1 ELSE 2) \in Seq(S)
         /\ Len(SubSeq(<<v>> \o log, 1, IF log = <<>> THEN 1 ELSE 2)) <= 2
<1>1. <<v>> \o log \in Seq(S) /\ Len(<<v>> \o log) = 1 + Len(log)
  OBVIOUS
<1>2. log # <<>> => Len(log) >= 1
  BY EmptySeq
<1>. DEFINE n == IF log = <<>> THEN 1 ELSE 2
<1>3. n \in 1..2 /\ n <= Len(<<v>> \o log)
  BY <1>1, <1>2
<1>. HIDE DEF n
<1>4. SubSeq(<<v>> \o log, 1, n) \in Seq(S) /\ Len(SubSeq(<<v>> \o log, 1, n)) = n
  BY <1>1, <1>3
<1>. QED BY <1>3, <1>4 DEF n

\* Notes, reports, hands and other engines.
LEMMA WorldStepTypes ==
  ASSUME ChTypes,
         \/ \E n \in chNoted : NoteSent(n)
         \/ \E a \in Touchable :
              DispatchReport(a) \/ \E v \in ValuesOf(a) : HandMoves(a, v) \/ OtherEngineMoves(a, v)
  PROVE  ChTypes'
<1>. /\ ScoreTypes /\ TaskTypes /\ StepTypes /\ FadeTypes /\ PlanTypes /\ AutoTypes
     /\ DeskTypes /\ WorldTypes
  BY DEF ChTypes
<1>. Touchable \subseteq ChannelAddr
  BY ChannelAssumption
<1>1. ASSUME NEW n \in chNoted, NoteSent(n) PROVE ChTypes'
  <2>1. n.at \in ChannelAddr /\ n.value \in ValuesOf(n.at)
    BY DEF DeskTypes, Notes
  <2>2. DeskTypes'
    BY <1>1, <2>1 DEF NoteSent, DeskTypes, IsDesk
  <2>3. AutoTypes'
    <3>. DEFINE log == SubSeq(<<n.value>> \o chSent[n.at], 1, IF chSent[n.at] = <<>> THEN 1 ELSE 2)
    <3>1. log \in Seq(ValuesOf(n.at)) /\ Len(log) <= 2
      BY <2>1, LogTypes DEF AutoTypes
    <3>2. chSent' = chSent \/ chSent' = [chSent EXCEPT ![n.at] = log]
      BY <1>1 DEF NoteSent
    <3>3. chAuto' = chAuto
      BY <1>1 DEF NoteSent
    <3>. HIDE DEF log
    <3>. QED BY <2>1, <3>1, <3>2, <3>3 DEF AutoTypes
  <2>. QED BY <1>1, <2>2, <2>3, TypesKept DEF NoteSent, chWorld, ChTypes
<1>2. ASSUME NEW a \in Touchable, DispatchReport(a) PROVE ChTypes'
  <2>1. DeskTypes'
    BY <1>2 DEF DispatchReport, DeskTypes, IsDesk, WorldTypes
  <2>2. AutoTypes'
    <3>1. chAuto' \in [ChannelAddr -> 0..CueCount]
      BY <1>2, ChannelAssumption DEF DispatchReport, AutoTypes
    <3>. QED BY <1>2, <3>1 DEF DispatchReport, AutoTypes
  <2>3. WorldTypes'
    BY <1>2 DEF DispatchReport, WorldTypes
  <2>. QED BY <1>2, <2>1, <2>2, <2>3, TypesKept DEF DispatchReport, ChTypes
<1>3. ASSUME NEW a \in Touchable, NEW v \in ValuesOf(a), HandMoves(a, v) PROVE ChTypes'
  <2>1. DeskTypes'
    BY <1>3 DEF HandMoves, DeskTypes, IsDesk
  <2>2. WorldTypes'
    BY <1>3, ChannelAssumption DEF HandMoves, WorldTypes
  <2>. QED BY <1>3, <2>1, <2>2, TypesKept DEF HandMoves, ChTypes
<1>4. ASSUME NEW a \in Touchable, NEW v \in ValuesOf(a), OtherEngineMoves(a, v) PROVE ChTypes'
  <2>1. DeskTypes'
    BY <1>4 DEF OtherEngineMoves, DeskTypes, IsDesk
  <2>2. WorldTypes'
    BY <1>4, ChannelAssumption DEF OtherEngineMoves, WorldTypes
  <2>. QED BY <1>4, <2>1, <2>2, TypesKept DEF OtherEngineMoves, ChTypes
<1>. QED BY <1>1, <1>2, <1>3, <1>4

\* Every step keeps the types.
LEMMA ChTypesNext ==
  ASSUME ChTypes, [ChannelNext]_chVars
  PROVE  ChTypes'
<1>1. CASE UNCHANGED chVars
  BY <1>1, TypesKept DEF ChTypes, chVars
<1>2. CASE ChannelNext
  BY <1>2, CueStepTypes, TaskStepTypes, GroupStepTypes, WorldStepTypes DEF ChannelNext
<1>. QED BY <1>1, <1>2

\* A channel alone: every variable has its type, for every set of categories, scale of
\* levels, length of fades and row of cues; a fade's increments are levels.
THEOREM ChannelTypeCorrect == ChannelSpec => []ChannelTypeOK
<1>1. ChannelSpec => []ChTypes
  BY ChTypesInit, ChTypesNext, PTL DEF ChannelSpec
<1>. QED BY <1>1, TypesEnough, PTL

\* The types of all four components, wherever the run is.
THEOREM LinksTypeCorrect == LinksSpec => []LinksTypeOK
<1>1. LinksInit => part \in Parts /\ GpInit /\ PadInit /\ CueInit /\ ChannelInit
  BY DEF LinksInit
<1>2. [LinksNext]_linksVars => /\ [GpNext]_gpVars /\ [PadNext]_padVars
                               /\ [CueNext]_cueVars /\ [ChannelNext]_chVars
  BY DEF LinksNext, GpSteps, PadSteps, CueSteps, ChannelSteps, linksVars
<1>3. part \in Parts /\ [LinksNext]_linksVars => (part \in Parts)'
  BY DEF LinksNext, GpSteps, PadSteps, CueSteps, ChannelSteps, linksVars
<1>4. LinksSpec => GpSpec /\ PadSpec /\ CueSpec /\ ChannelSpec
  BY <1>1, <1>2, PTL DEF LinksSpec, GpSpec, PadSpec, CueSpec, ChannelSpec
<1>5. LinksSpec => [](part \in Parts)
  BY <1>1, <1>3, PTL DEF LinksSpec
<1>6. part \in Parts /\ GpTypeOK /\ PadTypeOK /\ CueTypeOK /\ ChannelTypeOK => LinksTypeOK
  BY DEF LinksTypeOK
<1>. QED
  BY <1>4, <1>5, <1>6, GpHealthCorrect, PadLinkCorrect, CueTypeCorrect, ChannelTypeCorrect, PTL

-----------------------------------------------------------------------------
(* A channel: who may do what, and when.                                   *)

Claimed(i) == chTask[i] \notin {"idle", "queued"}

\* A cue that has left the gate's queue has it to itself: those before it have stopped.
LineOK == \A i \in CueNos :
            /\ chTask[i] = "idle" <=> i > chPressed
            /\ Claimed(i) => \A j \in 1..(i - 1) : Stopped(j)

\* The tasks of the categories run while the channel's task waits for them.
ForkOf(i) ==
  \A c \in Categories :
    /\ chTask[i] \in {"idle", "queued", "snapping", "muting", "forking"} => chStep[i][c] = "none"
    /\ chTask[i] \in {"unmuting", "joined", "over"} => chStep[i][c] \in {"none", "over"}
    /\ chTask[i] \in {"moving", "unmuting", "joined"} /\ chStep[i][c] = "none" => ~Busy(i, c)
ForkOK == \A i \in CueNos : ForkOf(i)

\* Whose datagrams are still to be noted.
NoteOK(n) ==
  \/ n.task = "snap" /\ chTask[n.cue] = "snapping"
  \/ n.task = "channel" /\ n.at = Mute /\ chTask[n.cue] \in {"forking", "joined"}
  \/ /\ n.task \in Categories /\ n.at \in {Level(n.task), Switch(n.task)}
     /\ chTask[n.cue] = "moving"
     /\ chStep[n.cue][n.task] \in {"begin", "level", "on", "over"}
NotesOK == \A n \in chNoted : NoteOK(n)

LineInv == LineOK /\ ForkOK /\ NotesOK

\* The three kinds of tasks differ.
LEMMA TaskTags == /\ "channel" \notin Categories /\ "snap" \notin Categories
                  /\ \A c \in Categories : c # "channel" /\ c # "snap"
BY ChannelAssumption

\* What is still to be noted, well typed.
LEMMA NoteTypes ==
  ASSUME ChTypes, NEW n \in chNoted
  PROVE  /\ n.cue \in CueNos /\ n.at \in ChannelAddr /\ n.value \in ValuesOf(n.at)
         /\ n.task \in {"channel", "snap"} \cup Categories
BY DEF ChTypes, DeskTypes, Notes

\* At the gate nothing is still to be noted.
LEMMA AtGate ==
  ASSUME ChTypes, LineInv, NEW i \in CueNos, HasGate(i)
  PROVE  chNoted = {}
<1>. SUFFICES ASSUME NEW n \in chNoted PROVE FALSE
  OBVIOUS
<1>1. n.cue \in CueNos /\ n.cue \in Int /\ i \in Int /\ NoteOK(n)
  BY DEF ChTypes, DeskTypes, Notes, LineInv, NotesOK, CueNos
<1>2. chTask[i] = "queued" /\ \A j \in 1..(i - 1) : Stopped(j)
  BY DEF HasGate
<1>3. CASE n.cue < i
  <2>1. Stopped(n.cue)
    BY <1>1, <1>2, <1>3 DEF CueNos
  <2>. QED BY <1>1, <2>1, TaskTags DEF Stopped, Noted, NoteOK
<1>4. CASE n.cue = i
  BY <1>1, <1>2, <1>4 DEF NoteOK
<1>5. CASE n.cue > i
  <2>1. Claimed(n.cue)
    BY <1>1 DEF NoteOK, Claimed
  <2>2. Stopped(i)
    BY <1>1, <1>5, <2>1 DEF LineInv, LineOK, CueNos
  <2>. QED BY <1>2, <2>2 DEF Stopped
<1>. QED BY <1>1, <1>3, <1>4, <1>5

\* Past it, datagrams of its holder only.
LEMMA HoldersNotes ==
  ASSUME ChTypes, LineInv, NEW i \in CueNos, Claimed(i), chTask[i] \notin {"joined", "over"},
         NEW n \in chNoted
  PROVE  n.cue = i
<1>1. n.cue \in CueNos /\ n.cue \in Int /\ i \in Int /\ NoteOK(n)
  BY DEF ChTypes, DeskTypes, Notes, LineInv, NotesOK, CueNos
<1>3. CASE n.cue < i
  <2>1. Stopped(n.cue)
    BY <1>1, <1>3 DEF CueNos, LineInv, LineOK
  <2>. QED BY <1>1, <2>1, TaskTags DEF Stopped, Noted, NoteOK
<1>5. CASE n.cue > i
  <2>1. Claimed(n.cue)
    BY <1>1 DEF NoteOK, Claimed
  <2>2. Stopped(i)
    BY <1>1, <1>5, <2>1 DEF LineInv, LineOK, CueNos
  <2>. QED BY <2>2 DEF Stopped
<1>. QED BY <1>1, <1>3, <1>5

\* A step of one cue, which takes its place in the line as the others keep theirs.
LEMMA StepInLine ==
  ASSUME ChTypes, ChTypes', LineInv, NEW i \in CueNos, UNCHANGED <<chPressed, chCues>>,
         \A j \in CueNos \ {i} : chTask'[j] = chTask[j] /\ chStep'[j] = chStep[j],
         chTask'[i] = "idle" <=> chTask[i] = "idle",
         Claimed(i)' => \A j \in 1..(i - 1) : Stopped(j),
         chTask[i] \in {"joined", "over"} => chTask'[i] \in {"joined", "over"},
         \A n \in chNoted' : n \notin chNoted =>
            n.cue = i /\ (n.task = "channel" => chTask[i] \notin {"joined", "over"}),
         \A n \in chNoted' : n.cue = i => NoteOK(n)',
         ForkOf(i)'
  PROVE  LineInv'
<1>1. LineOK'
  <2>1. \A j \in CueNos : chTask'[j] = "idle" <=> j > chPressed'
    BY DEF LineInv, LineOK
  <2>2. ASSUME NEW k \in CueNos, Claimed(k)', NEW j \in 1..(k - 1) PROVE Stopped(j)'
    <3>1. j \in CueNos
      BY ChannelAssumption DEF CueNos
    <3>2. Stopped(j)
      BY <2>2 DEF Claimed, LineInv, LineOK
    <3>3. chTask'[j] \in {"joined", "over"}
      BY <3>1, <3>2 DEF Stopped
    <3>4. ASSUME NEW n \in chNoted', n.cue = j, n.task = "channel" PROVE FALSE
      <4>1. n \notin chNoted
        BY <3>2, <3>4 DEF Stopped, Noted
      <4>2. n.cue = i /\ chTask[i] \notin {"joined", "over"}
        BY <3>4, <4>1
      <4>. QED BY <3>2, <3>4, <4>2 DEF Stopped
    <3>5. Noted(j, "channel")'
      BY <3>4 DEF Noted
    <3>. QED BY <3>3, <3>5 DEF Stopped
  <2>. QED BY <2>1, <2>2 DEF LineOK
<1>2. ForkOK'
  <2>1. \A j \in CueNos \ {i} : ForkOf(j)'
    BY DEF LineInv, ForkOK, ForkOf, Busy, Names, Own
  <2>. QED BY <2>1 DEF ForkOK
<1>3. NotesOK'
  <2>1. ASSUME NEW n \in chNoted', n.cue # i PROVE NoteOK(n)'
    <3>1. n \in chNoted
      BY <2>1
    <3>2. n.cue \in CueNos \ {i}
      BY <2>1, <3>1, NoteTypes
    <3>. QED BY <3>1, <3>2 DEF LineInv, NotesOK, NoteOK
  <2>. QED BY <2>1 DEF NotesOK
<1>. QED BY <1>1, <1>2, <1>3 DEF LineInv

\* A step of a category's task.
LEMMA GroupInLine ==
  ASSUME ChTypes, ChTypes', LineInv, NEW i \in CueNos, NEW c \in Categories, NEW step \in Steps,
         GroupStep, chStep[i][c] \notin {"none", "over"}, step # "none",
         Goes(i, c, step) \/ (chStep' = chStep /\ chStep[i][c] = step),
         \A n \in chNoted' : \/ n \in chNoted
                             \/ n.cue = i /\ n.task = c /\ n.at \in {Level(c), Switch(c)},
         (\A n \in chNoted : <<n.cue, n.task>> # <<i, c>>) \/ step \in {"begin", "level", "on", "over"},
         chNoted' = chNoted \/ step \in {"begin", "level", "on", "over"}
  PROVE  LineInv' /\ chTask[i] = "moving"
<1>1. chTask[i] = "moving" /\ chTask' = chTask /\ UNCHANGED <<chPressed, chCues>>
  BY DEF LineInv, ForkOK, ForkOf, ChTypes, TaskTypes, Tasks, GroupStep
<1>2. /\ \A j \in CueNos \ {i} : chStep'[j] = chStep[j]
      /\ \A d \in Categories \ {c} : chStep'[i][d] = chStep[i][d]
      /\ chStep'[i][c] = step
  BY DEF Goes, ChTypes, TaskTypes
<1>3. ForkOf(i)'
  BY <1>1, <1>2 DEF LineInv, ForkOK, ForkOf, Busy, Names, Own
<1>4. ASSUME NEW n \in chNoted', n.cue = i PROVE NoteOK(n)'
  <2>1. CASE n \in chNoted
    <3>1. n.task \in Categories /\ n.at \in {Level(n.task), Switch(n.task)}
          /\ chStep[i][n.task] \in {"begin", "level", "on", "over"}
      BY <1>1, <1>4, <2>1 DEF LineInv, NotesOK, NoteOK
    <3>. QED BY <1>1, <1>2, <1>4, <2>1, <3>1 DEF NoteOK
  <2>2. CASE n \notin chNoted
    BY <1>1, <1>2, <1>4, <2>2 DEF NoteOK
  <2>. QED BY <2>1, <2>2
<1>5. \A j \in 1..(i - 1) : Stopped(j)
  BY <1>1 DEF LineInv, LineOK, Claimed
<1>6. \A n \in chNoted' : n \notin chNoted =>
        n.cue = i /\ (n.task = "channel" => chTask[i] \notin {"joined", "over"})
  BY <1>1
<1>7. LineInv'
  BY <1>1, <1>2, <1>3, <1>4, <1>5, <1>6, StepInLine
<1>. QED BY <1>1, <1>7

\* A step of the channel's task, or on the way to it.
LEMMA TaskInLine ==
  ASSUME ChTypes, ChTypes', LineInv, NEW i \in CueNos, NEW state \in Tasks,
         Reaches(i, state), UNCHANGED <<chPressed, chCues>>,
         \A j \in CueNos \ {i} : chStep'[j] = chStep[j],
         Claimed(i) \/ HasGate(i), state \notin {"idle", "queued"},
         chTask[i] \in {"joined", "over"} => state \in {"joined", "over"},
         \A n \in chNoted' : n \notin chNoted => n.cue = i /\ chTask[i] \notin {"joined", "over"},
         \A n \in chNoted' : n.cue = i => NoteOK(n)',
         ForkOf(i)'
  PROVE  LineInv'
<1>1. chTask'[i] = state /\ \A j \in CueNos \ {i} : chTask'[j] = chTask[j]
  BY DEF Reaches, ChTypes, TaskTypes
<1>2. \A j \in 1..(i - 1) : Stopped(j)
  BY DEF LineInv, LineOK, HasGate
<1>3. chTask'[i] = "idle" <=> chTask[i] = "idle"
  BY <1>1 DEF Claimed, HasGate
<1>4. \A n \in chNoted' : n \notin chNoted =>
        n.cue = i /\ (n.task = "channel" => chTask[i] \notin {"joined", "over"})
  OBVIOUS
<1>5. Claimed(i)' => \A j \in 1..(i - 1) : Stopped(j)
  BY <1>2
<1>6. chTask[i] \in {"joined", "over"} => chTask'[i] \in {"joined", "over"}
  BY <1>1
<1>. QED BY <1>1, <1>3, <1>4, <1>5, <1>6, StepInLine

\* From its press to its channel's task.
LEMMA CueStepInLine ==
  ASSUME ChTypes, ChTypes', LineInv, NEW i \in CueNos,
         \/ Press(i) \/ LeaveQueue(i) \/ ResolveCue(i) \/ SnapOne(i) \/ SpawnChannel(i)
  PROVE  LineInv'
<1>. \A t \in {"queued", "over", "snapping", "muting", "forking"} : t \in Tasks
  BY DEF Tasks
<1>fork. ASSUME UNCHANGED <<chStep, chCues>>, NEW t \in Tasks, Reaches(i, t),
                chTask[i] \in {"idle", "queued", "snapping"}, t \notin {"moving", "unmuting", "joined"}
         PROVE  ForkOf(i)' /\ \A j \in CueNos \ {i} : chStep'[j] = chStep[j]
  <2>1. chTask'[i] = t
    BY <1>fork DEF Reaches, ChTypes, TaskTypes
  <2>. QED BY <1>fork, <2>1 DEF LineInv, ForkOK, ForkOf, Busy, Names, Own
<1>1. CASE Press(i)
  <2>0. i = chPressed + 1 /\ chPressed' = i /\ i \in Int /\ chPressed \in Int
    BY <1>1 DEF Press, CueNos, ChTypes, ScoreTypes
  <2>1. chTask[i] = "idle" /\ chTask'[i] = "queued" /\ \A j \in CueNos \ {i} : chTask'[j] = chTask[j]
    BY <1>1, <2>0 DEF LineInv, LineOK, Press, Reaches, ChTypes, TaskTypes
  <2>2. UNCHANGED <<chNoted, chStep, chCues>> /\ Reaches(i, "queued")
    BY <1>1 DEF Press
  <2>3. LineOK'
    <3>1. \A j \in CueNos : chTask'[j] = "idle" <=> j > chPressed'
      BY <2>0, <2>1 DEF LineInv, LineOK, CueNos
    <3>2. ASSUME NEW k \in CueNos, Claimed(k)', NEW j \in 1..(k - 1) PROVE Stopped(j)'
      <4>1. Claimed(k) /\ j \in CueNos
        BY <2>1, <3>2, ChannelAssumption DEF Claimed, CueNos
      <4>2. Stopped(j)
        BY <4>1 DEF LineInv, LineOK
      <4>. QED BY <2>1, <2>2, <4>1, <4>2 DEF Stopped, Noted
    <3>. QED BY <3>1, <3>2 DEF LineOK
  <2>4. ForkOK'
    <3>1. \A j \in CueNos \ {i} : ForkOf(j)'
      BY <2>1, <2>2 DEF LineInv, ForkOK, ForkOf, Busy, Names, Own
    <3>2. ForkOf(i)'
      BY <2>1, <2>2, <1>fork
    <3>. QED BY <3>1, <3>2 DEF ForkOK
  <2>5. NotesOK'
    <3>. SUFFICES ASSUME NEW n \in chNoted PROVE NoteOK(n)'
      BY <2>2 DEF NotesOK
    <3>1. n.cue \in CueNos /\ NoteOK(n)
      BY NoteTypes DEF LineInv, NotesOK
    <3>. QED BY <2>1, <2>2, <3>1 DEF NoteOK
  <2>. QED BY <2>3, <2>4, <2>5 DEF LineInv
<1>2. CASE LeaveQueue(i)
  <2>1. /\ HasGate(i) /\ Reaches(i, "over")
        /\ UNCHANGED <<chNoted, chStep, chCues, chPressed>> /\ chTask[i] = "queued"
    BY <1>2 DEF LeaveQueue, HasGate
  <2>2. chNoted = {}
    BY <2>1, AtGate
  <2>. QED BY <2>1, <2>2, <1>fork, TaskInLine
<1>3. CASE ResolveCue(i)
  <2>1. /\ HasGate(i) /\ Reaches(i, "snapping")
        /\ UNCHANGED <<chNoted, chStep, chCues, chPressed>> /\ chTask[i] = "queued"
    BY <1>3 DEF ResolveCue, HasGate
  <2>2. chNoted = {}
    BY <2>1, AtGate
  <2>. QED BY <2>1, <2>2, <1>fork, TaskInLine
<1>4. CASE SnapOne(i)
  <2>1. PICK a \in DOMAIN chSnaps : Datagram(i, "snap", a, chSnaps[a])
    BY <1>4 DEF SnapOne
  <2>2. chTask[i] = "snapping" /\ UNCHANGED <<chTask, chStep, chCues, chPressed>>
    BY <1>4 DEF SnapOne
  <2>3. \A n \in chNoted' : n \notin chNoted => n.cue = i /\ n.task = "snap"
    BY <2>1 DEF Datagram
  <2>4. ASSUME NEW n \in chNoted', n.cue = i PROVE NoteOK(n)'
    <3>1. CASE n \in chNoted
      BY <2>2, <2>4, <3>1 DEF LineInv, NotesOK, NoteOK
    <3>. QED BY <2>2, <2>3, <2>4, <3>1 DEF NoteOK
  <2>5. ForkOf(i)'
    BY <2>2 DEF LineInv, ForkOK, ForkOf, Busy, Names, Own
  <2>6. Claimed(i)' => \A j \in 1..(i - 1) : Stopped(j)
    BY <2>2 DEF LineInv, LineOK, Claimed
  <2>. QED BY <2>2, <2>3, <2>4, <2>5, <2>6, StepInLine
<1>5. CASE SpawnChannel(i)
  <2>1. /\ chTask[i] = "snapping" /\ Noted(i, "snap")
        /\ UNCHANGED <<chNoted, chStep, chCues, chPressed>>
    BY <1>5 DEF SpawnChannel
  <2>2. PICK t \in {"muting", "forking"} : Reaches(i, t)
    BY <1>5 DEF SpawnChannel
  <2>3. \A n \in chNoted : n.cue # i
    BY <2>1 DEF LineInv, NotesOK, NoteOK, Noted
  <2>4. ForkOf(i)' /\ \A j \in CueNos \ {i} : chStep'[j] = chStep[j]
    BY <2>1, <2>2, <1>fork
  <2>. QED BY <2>1, <2>2, <2>3, <2>4, TaskInLine DEF Claimed
<1>. QED BY <1>1, <1>2, <1>3, <1>4, <1>5

\* What a step that may send has sent.
LEMMA SentOwn ==
  ASSUME NEW i, NEW task, NEW a, SendOne(i, task, a)
  PROVE  \A n \in chNoted' : n \notin chNoted =>
           n = [cue |-> i, task |-> task, at |-> a, value |-> Own(i)[a]] /\ MaySend(i, a)
BY DEF SendOne, Datagram

\* The channel's task.
LEMMA TaskStepInLine ==
  ASSUME ChTypes, ChTypes', LineInv, NEW i \in CueNos,
         \/ MuteFirst(i) \/ ForkGroups(i) \/ JoinGroups(i) \/ MuteLast(i) \/ FinishCue(i)
  PROVE  LineInv'
<1>. \A t \in {"forking", "moving", "unmuting", "joined", "over"} : t \in Tasks
  BY DEF Tasks
<1>now. \A t \in Tasks : Reaches(i, t) => chTask'[i] = t
  BY DEF Reaches, ChTypes, TaskTypes
<1>rest. ChannelStep => UNCHANGED <<chPressed, chCues>>
  BY DEF ChannelStep
<1>fork. ForkOf(i)
  BY DEF LineInv, ForkOK
<1>mute. ASSUME SendOne(i, "channel", Mute), chTask[i] \in {"muting", "unmuting"},
                NEW t \in {"forking", "joined"}, Reaches(i, t)
         PROVE  /\ \A n \in chNoted' : n \notin chNoted => n.cue = i
                /\ \A n \in chNoted' : n.cue = i => NoteOK(n)'
  <2>1. \A n \in chNoted' : n \notin chNoted => n.cue = i /\ n.task = "channel" /\ n.at = Mute
    BY <1>mute, SentOwn
  <2>2. \A n \in chNoted : n.cue # i
    BY <1>mute DEF LineInv, NotesOK, NoteOK
  <2>. QED BY <2>1, <2>2, <1>now, <1>mute DEF NoteOK
<1>1. CASE MuteFirst(i)
  <2>1. /\ chTask[i] = "muting" /\ SendOne(i, "channel", Mute) /\ Reaches(i, "forking")
        /\ ChannelStep /\ chStep' = chStep
    BY <1>1 DEF MuteFirst
  <2>2. ForkOf(i)'
    BY <2>1, <1>now, <1>fork DEF ForkOf
  <2>3. Claimed(i)
    BY <2>1 DEF Claimed
  <2>. QED BY <2>1, <2>2, <2>3, <1>mute, <1>rest, TaskInLine
<1>2. CASE ForkGroups(i)
  <2>1. /\ chTask[i] = "forking" /\ Noted(i, "channel") /\ Reaches(i, "moving")
        /\ ChannelStep /\ chNoted' = chNoted
        /\ chStep' = [chStep EXCEPT ![i] = [c \in Categories |-> IF Busy(i, c) THEN "wait" ELSE "none"]]
    BY <1>2 DEF ForkGroups
  <2>2. \A n \in chNoted : n.cue # i
    BY <2>1 DEF LineInv, NotesOK, NoteOK, Noted
  <2>3. ForkOf(i)'
    <3>1. \A c \in Categories : chStep'[i][c] = IF Busy(i, c) THEN "wait" ELSE "none"
      BY <2>1 DEF ChTypes, TaskTypes
    <3>2. \A c \in Categories : Busy(i, c)' <=> Busy(i, c)
      BY <2>1 DEF Busy, Names, Own, ChannelStep
    <3>. QED BY <2>1, <3>1, <3>2, <1>now DEF ForkOf
  <2>4. Claimed(i) /\ \A j \in CueNos \ {i} : chStep'[j] = chStep[j]
    BY <2>1 DEF Claimed, ChTypes, TaskTypes
  <2>. QED BY <2>1, <2>2, <2>3, <2>4, <1>rest, TaskInLine
<1>3. CASE JoinGroups(i)
  <2>1. /\ chTask[i] = "moving" /\ StepsOver(i) /\ ChannelStep /\ UNCHANGED <<chNoted, chStep>>
        /\ \E t \in {"unmuting", "joined"} : Reaches(i, t)
    BY <1>3 DEF JoinGroups, Awaited
  <2>2. PICK t \in {"unmuting", "joined"} : Reaches(i, t)
    BY <2>1
  <2>3. \A n \in chNoted : n.cue # i
    BY <2>1 DEF LineInv, NotesOK, NoteOK, StepsOver, Noted
  <2>4. ForkOf(i)'
    <3>1. \A c \in Categories : Busy(i, c)' <=> Busy(i, c)
      BY <2>1 DEF Busy, Names, Own, ChannelStep
    <3>. QED BY <2>1, <2>2, <3>1, <1>now, <1>fork DEF ForkOf, StepsOver
  <2>5. Claimed(i)
    BY <2>1 DEF Claimed
  <2>. QED BY <2>1, <2>2, <2>3, <2>4, <2>5, <1>rest, TaskInLine
<1>4. CASE MuteLast(i)
  <2>1. /\ chTask[i] = "unmuting" /\ SendOne(i, "channel", Mute) /\ Reaches(i, "joined")
        /\ ChannelStep /\ chStep' = chStep
    BY <1>4 DEF MuteLast
  <2>2. ForkOf(i)'
    <3>1. \A c \in Categories : Busy(i, c)' <=> Busy(i, c)
      BY <2>1 DEF Busy, Names, Own, ChannelStep
    <3>. QED BY <2>1, <3>1, <1>now, <1>fork DEF ForkOf
  <2>3. Claimed(i)
    BY <2>1 DEF Claimed
  <2>. QED BY <2>1, <2>2, <2>3, <1>mute, <1>rest, TaskInLine
<1>5. CASE FinishCue(i)
  <2>1. /\ chTask[i] = "joined" /\ Noted(i, "channel") /\ Reaches(i, "over")
        /\ ChannelStep /\ UNCHANGED <<chNoted, chStep>>
    BY <1>5 DEF FinishCue
  <2>2. \A n \in chNoted : n.cue # i
    BY <2>1 DEF LineInv, NotesOK, NoteOK, Noted
  <2>3. ForkOf(i)'
    BY <2>1, <1>now, <1>fork DEF ForkOf
  <2>4. Claimed(i)
    BY <2>1 DEF Claimed
  <2>. QED BY <2>1, <2>2, <2>3, <2>4, <1>rest, TaskInLine
<1>. QED BY <1>1, <1>2, <1>3, <1>4, <1>5

\* The task of a category; it moves while the channel's task waits.
LEMMA GroupStepInLine ==
  ASSUME ChTypes, ChTypes', LineInv, NEW i \in CueNos, NEW c \in Categories,
         \/ PreWaitEnds(i, c) \/ SwitchOff(i, c) \/ BeginGroup(i, c) \/ SwitchFirst(i, c)
         \/ LevelAtOnce(i, c) \/ FadeTick(i, c) \/ FadeEnds(i, c) \/ SwitchOn(i, c)
  PROVE  LineInv' /\ chTask[i] = "moving"
<1>. \A t \in {"over", "off", "begin", "switch", "level", "on"} : t \in Steps
  BY DEF Steps
<1>none. chStep[i][c] \notin {"begin", "level", "on", "over"} => Noted(i, c)
  BY TaskTags DEF Noted, LineInv, NotesOK, NoteOK
<1>noted. Noted(i, c) => \A n \in chNoted : <<n.cue, n.task>> # <<i, c>>
  BY DEF Noted
<1>own. ASSUME NEW a \in {Level(c), Switch(c)}, SendOne(i, c, a)
        PROVE  \A n \in chNoted' : \/ n \in chNoted
                                   \/ n.cue = i /\ n.task = c /\ n.at \in {Level(c), Switch(c)}
  BY <1>own, SentOwn
<1>over. ASSUME LevelOver(i, c) PROVE \E step \in {"on", "over"} : Goes(i, c, step)
  BY <1>over DEF LevelOver
<1>1. CASE PreWaitEnds(i, c)
  <2>1. /\ chStep[i][c] = "wait" /\ GroupStep /\ chNoted' = chNoted
        /\ \E step \in {"over", "off", "begin"} : Goes(i, c, step)
    BY <1>1 DEF PreWaitEnds
  <2>2. PICK step \in {"over", "off", "begin"} : Goes(i, c, step)
    BY <2>1
  <2>. QED BY <2>1, <2>2, <1>none, <1>noted, GroupInLine
<1>2. CASE SwitchOff(i, c)
  <2>1. /\ chStep[i][c] = "off" /\ GroupStep /\ SendOne(i, c, Switch(c)) /\ Goes(i, c, "begin")
    BY <1>2 DEF SwitchOff
  <2>. QED BY <2>1, <1>own, GroupInLine
<1>3. CASE BeginGroup(i, c)
  <2>1. /\ chStep[i][c] = "begin" /\ Noted(i, c) /\ GroupStep /\ chNoted' = chNoted
        /\ \E step \in {"on", "over", "switch", "level"} : Goes(i, c, step)
    BY <1>3, <1>over DEF BeginGroup
  <2>2. PICK step \in {"on", "over", "switch", "level"} : Goes(i, c, step)
    BY <2>1
  <2>. QED BY <2>1, <2>2, <1>noted, GroupInLine
<1>4. CASE SwitchFirst(i, c)
  <2>1. /\ chStep[i][c] = "switch" /\ GroupStep /\ SendOne(i, c, Switch(c))
        /\ \E step \in {"over", "level"} : Goes(i, c, step)
    BY <1>4 DEF SwitchFirst
  <2>2. PICK step \in {"over", "level"} : Goes(i, c, step)
    BY <2>1
  <2>. QED BY <2>1, <2>2, <1>own, GroupInLine
<1>5. CASE LevelAtOnce(i, c)
  <2>1. /\ chStep[i][c] = "level" /\ GroupStep
        /\ SendOne(i, c, Level(c)) \/ chNoted' = chNoted
        /\ \E step \in {"on", "over"} : Goes(i, c, step)
    BY <1>5, <1>over DEF LevelAtOnce
  <2>2. PICK step \in {"on", "over"} : Goes(i, c, step)
    BY <2>1
  <2>3. \A n \in chNoted' : \/ n \in chNoted
                            \/ n.cue = i /\ n.task = c /\ n.at \in {Level(c), Switch(c)}
    BY <2>1, <1>own
  <2>. QED BY <2>1, <2>2, <2>3, GroupInLine
<1>6. CASE FadeTick(i, c)
  <2>1. chStep[i][c] = "level" /\ GroupStep /\ chStep' = chStep
    BY <1>6 DEF FadeTick
  <2>2. \A n \in chNoted' : \/ n \in chNoted
                            \/ n.cue = i /\ n.task = c /\ n.at \in {Level(c), Switch(c)}
    BY <1>6 DEF FadeTick, Datagram
  <2>. QED BY <2>1, <2>2, GroupInLine
<1>7. CASE FadeEnds(i, c)
  <2>1. /\ chStep[i][c] = "level" /\ Noted(i, c) /\ GroupStep /\ chNoted' = chNoted
        /\ \E step \in {"on", "over"} : Goes(i, c, step)
    BY <1>7, <1>over DEF FadeEnds
  <2>2. PICK step \in {"on", "over"} : Goes(i, c, step)
    BY <2>1
  <2>. QED BY <2>1, <2>2, GroupInLine
<1>8. CASE SwitchOn(i, c)
  <2>1. /\ chStep[i][c] = "on" /\ GroupStep /\ SendOne(i, c, Switch(c)) /\ Goes(i, c, "over")
    BY <1>8 DEF SwitchOn
  <2>. QED BY <2>1, <1>own, GroupInLine
<1>. QED BY <1>1, <1>2, <1>3, <1>4, <1>5, <1>6, <1>7, <1>8

\* Nobody else is in the line.
LEMMA OthersInLine ==
  ASSUME LineInv, UNCHANGED <<chPressed, chCues, chTask, chStep>>, chNoted' \subseteq chNoted
  PROVE  LineInv'
<1>1. LineOK'
  BY DEF LineInv, LineOK, Claimed, Stopped, Noted
<1>2. ForkOK'
  BY DEF LineInv, ForkOK, ForkOf, Busy, Names, Own
<1>3. NotesOK'
  BY DEF LineInv, NotesOK, NoteOK
<1>. QED BY <1>1, <1>2, <1>3 DEF LineInv

\* At the start nobody is in the line.
LEMMA LineInvInit == ChannelInit => LineInv
BY ChannelAssumption DEF ChannelInit, LineInv, LineOK, ForkOK, ForkOf, NotesOK, Claimed, CueNos

\* Every step keeps the line.
LEMMA LineInvNext ==
  ASSUME ChTypes, LineInv, [ChannelNext]_chVars
  PROVE  LineInv'
<1>0. ChTypes'
  BY ChTypesNext
<1>1. CASE UNCHANGED chVars
  BY <1>1, OthersInLine DEF chVars
<1>2. CASE ChannelNext
  <2>1. ASSUME NEW n \in chNoted, NoteSent(n) PROVE LineInv'
    BY <2>1, OthersInLine DEF NoteSent
  <2>2. ASSUME NEW a \in Touchable, DispatchReport(a) PROVE LineInv'
    BY <2>2, OthersInLine DEF DispatchReport
  <2>3. ASSUME NEW a \in Touchable, NEW v \in ValuesOf(a), HandMoves(a, v) \/ OtherEngineMoves(a, v)
        PROVE  LineInv'
    BY <2>3, OthersInLine DEF HandMoves, OtherEngineMoves
  <2>. QED
    BY <1>0, <1>2, <2>1, <2>2, <2>3, CueStepInLine, TaskStepInLine, GroupStepInLine DEF ChannelNext
<1>. QED BY <1>1, <1>2

-----------------------------------------------------------------------------
(* A channel: the desk and its mirror.                                     *)

NoteAt(a) == \E n \in chNoted : n.at = a

\* A report under way is of a hand's move; what is to be noted is on the desk, and
\* what is not is in the mirror, except where a hand has been.
ReportOK == \A a \in ChannelAddr : chReport[a] # NoReport => a \in chOthers \cap chHands
SentOK == \A n \in chNoted : chDesk[n.at] = n.value \/ n.at \in chOthers \cap chHands
MirrorOK == \A a \in ChannelAddr : chMirror[a] = chDesk[a] \/ NoteAt(a) \/ a \in chHands
DeskInv == ReportOK /\ SentOK /\ MirrorOK

\* The desk is written by the newest cue, in the addresses that it names or has to
\* snap, and not over a datagram that is still to be noted; by hands, and by others.
Active(i) == Claimed(i) /\ chTask[i] # "over"
CueWrites(a, v) ==
  /\ chPressed \in CueNos /\ Active(chPressed) /\ ~NoteAt(a)
  /\ Names(chPressed, a) \/ a \in DOMAIN chSnaps
  /\ chDesk' = [chDesk EXCEPT ![a] = v]
  /\ \E n : n.at = a /\ n.value = v /\ chNoted' = chNoted \cup {n}
  /\ UNCHANGED <<chMirror, chWorld>>
Quiet == UNCHANGED <<chDesk, chMirror, chNoted, chReport, chOthers, chHands>>
StepKind ==
  \/ Quiet
  \/ \E n \in chNoted : NoteSent(n)
  \/ \E a \in Touchable :
       DispatchReport(a) \/ \E v \in ValuesOf(a) : HandMoves(a, v) \/ OtherEngineMoves(a, v)
  \/ \E i \in CueNos : ResolveCue(i)
  \/ \E a \in ChannelAddr : \E v \in ValuesOf(a) : CueWrites(a, v)

\* A cue that plays and is not superseded is the newest.
LEMMA NewestPlays ==
  ASSUME ChTypes, LineInv, NEW i \in CueNos, chTask[i] # "idle", ~Superseded(i)
  PROVE  i = chPressed
<1>1. ~(i > chPressed) /\ ~(i < chPressed) /\ i \in Int /\ chPressed \in Int
  BY DEF LineInv, LineOK, Superseded, CueNos, ChTypes, ScoreTypes
<1>. QED BY <1>1

\* A category's datagrams do not stand in another's way.
LEMMA CategoryFree ==
  ASSUME ChTypes, LineInv, NEW i \in CueNos, NEW c \in Categories, chTask[i] = "moving",
         Noted(i, c), NEW a \in {Level(c), Switch(c)}
  PROVE  ~NoteAt(a)
<1>. SUFFICES ASSUME NEW n \in chNoted, n.at = a PROVE FALSE
  BY DEF NoteAt
<1>1. n.cue = i
  BY HoldersNotes DEF Claimed
<1>2. n.task \in Categories /\ n.at \in {Level(n.task), Switch(n.task)} /\ n.task # c
  BY <1>1 DEF LineInv, NotesOK, NoteOK, Noted
<1>. QED BY <1>2, AddressesDiffer

\* The channel's own are alone.
LEMMA ChannelFree ==
  ASSUME ChTypes, LineInv, NEW i \in CueNos,
         \/ chTask[i] \in {"muting", "unmuting"}
         \/ chTask[i] = "snapping" /\ Noted(i, "snap")
         \/ chTask[i] = "forking" /\ Noted(i, "channel")
  PROVE  chNoted = {}
<1>. SUFFICES ASSUME NEW n \in chNoted PROVE FALSE
  OBVIOUS
<1>1. n.cue = i
  BY HoldersNotes DEF Claimed
<1>. QED BY <1>1 DEF LineInv, NotesOK, NoteOK, Noted

\* A send of a value that the cue names is a write, or nothing.
LEMMA SendKind ==
  ASSUME ChTypes, LineInv, NEW i \in CueNos, NEW task, NEW a, Names(i, a), ~NoteAt(a),
         SendOne(i, task, a), UNCHANGED <<chMirror, chWorld>>, Active(i)
  PROVE  StepKind
<1>1. a \in ChannelAddr /\ Own(i)[a] \in ValuesOf(a)
  BY OwnOK DEF ChTypes
<1>2. CASE MaySend(i, a)
  <2>1. i = chPressed
    BY <1>2, NewestPlays DEF MaySend, Active, Claimed
  <2>2. Datagram(i, task, a, Own(i)[a])
    BY <1>2 DEF SendOne
  <2>3. CueWrites(a, Own(i)[a])
    BY <2>1, <2>2 DEF CueWrites, Datagram
  <2>. QED BY <1>1, <2>3 DEF StepKind
<1>3. CASE ~MaySend(i, a)
  BY <1>3 DEF SendOne, StepKind, Quiet, chWorld
<1>. QED BY <1>2, <1>3

\* Every step is one of these.
LEMMA StepKinds ==
  ASSUME ChTypes, LineInv, [ChannelNext]_chVars
  PROVE  StepKind
<1>1. CASE UNCHANGED chVars
  BY <1>1 DEF StepKind, Quiet, chVars
<1>2. ASSUME NEW i \in CueNos, \/ Press(i) \/ LeaveQueue(i) \/ ForkGroups(i) \/ JoinGroups(i)
                               \/ FinishCue(i) \/ SpawnChannel(i)
      PROVE  StepKind
  BY <1>2 DEF Press, LeaveQueue, ForkGroups, JoinGroups, FinishCue, SpawnChannel,
              ChannelStep, chWorld, StepKind, Quiet
<1>3. ASSUME NEW i \in CueNos, SnapOne(i) PROVE StepKind
  <2>1. PICK a \in DOMAIN chSnaps : Datagram(i, "snap", a, chSnaps[a])
    BY <1>3 DEF SnapOne
  <2>2. chTask[i] = "snapping" /\ ~Superseded(i) /\ chNoted = {} /\ UNCHANGED <<chMirror, chWorld>>
    BY <1>3, ChannelFree DEF SnapOne
  <2>3. i = chPressed /\ Active(i)
    BY <2>2, NewestPlays DEF Active, Claimed
  <2>4. a \in ChannelAddr /\ chSnaps[a] \in ValuesOf(a)
    BY DEF ChTypes, PlanTypes, IsValues
  <2>5. CueWrites(a, chSnaps[a])
    BY <2>1, <2>2, <2>3 DEF CueWrites, Datagram, NoteAt
  <2>. QED BY <2>4, <2>5 DEF StepKind
<1>4. ASSUME NEW i \in CueNos, MuteFirst(i) \/ MuteLast(i) PROVE StepKind
  <2>1. chTask[i] \in {"muting", "unmuting"} /\ SendOne(i, "channel", Mute)
        /\ UNCHANGED <<chMirror, chWorld>>
    BY <1>4 DEF MuteFirst, MuteLast, ChannelStep
  <2>2. Names(i, Mute) /\ ~NoteAt(Mute) /\ Active(i)
    BY <2>1, ChannelFree DEF ChTypes, StepTypes, MuteGoes, NoteAt, Active, Claimed
  <2>. QED BY <2>1, <2>2, SendKind
<1>5. ASSUME NEW i \in CueNos, NEW c \in Categories, NEW a \in {Level(c), Switch(c)},
             chTask[i] = "moving", Noted(i, c), Names(i, a), SendOne(i, c, a), GroupStep
      PROVE  StepKind
  <2>1. ~NoteAt(a) /\ Active(i)
    BY <1>5, CategoryFree DEF Active, Claimed
  <2>. QED BY <1>5, <2>1, SendKind DEF GroupStep
<1>6. ASSUME NEW i \in CueNos, NEW c \in Categories,
             PreWaitEnds(i, c) \/ BeginGroup(i, c) \/ FadeEnds(i, c)
      PROVE  StepKind
  BY <1>6 DEF PreWaitEnds, BeginGroup, FadeEnds, GroupStep, chWorld, StepKind, Quiet
<1>moves. ASSUME NEW i \in CueNos, NEW c \in Categories, chStep[i][c] \notin {"none", "over"}
          PROVE  chTask[i] = "moving"
  BY <1>moves DEF LineInv, ForkOK, ForkOf, ChTypes, TaskTypes, Tasks
<1>7. ASSUME NEW i \in CueNos, NEW c \in Categories,
             SwitchOff(i, c) \/ SwitchFirst(i, c) \/ SwitchOn(i, c)
      PROVE  StepKind
  <2>1. /\ chStep[i][c] \in {"off", "switch", "on"} /\ SendOne(i, c, Switch(c)) /\ GroupStep
        /\ chStep[i][c] = "on" => Noted(i, c)
    BY <1>7 DEF SwitchOff, SwitchFirst, SwitchOn
  <2>2. chTask[i] = "moving" /\ Names(i, Switch(c))
    BY <2>1, <1>moves DEF ChTypes, StepTypes, OffFirst, OnLast, SwitchIs
  <2>3. Noted(i, c)
    BY <2>1, TaskTags DEF Noted, LineInv, NotesOK, NoteOK
  <2>. QED BY <2>1, <2>2, <2>3, <1>5
<1>8. ASSUME NEW i \in CueNos, NEW c \in Categories, LevelAtOnce(i, c) PROVE StepKind
  <2>1. chStep[i][c] = "level" /\ Noted(i, c) /\ GroupStep /\ chTask[i] = "moving"
    BY <1>8, <1>moves DEF LevelAtOnce
  <2>2. CASE Names(i, Level(c))
    BY <1>8, <2>1, <2>2, <1>5 DEF LevelAtOnce
  <2>3. CASE ~Names(i, Level(c))
    BY <1>8, <2>1, <2>3 DEF LevelAtOnce, GroupStep, chWorld, StepKind, Quiet
  <2>. QED BY <2>2, <2>3
<1>9. ASSUME NEW i \in CueNos, NEW c \in Categories, FadeTick(i, c) PROVE StepKind
  <2>1. /\ chStep[i][c] = "level" /\ Noted(i, c) /\ GroupStep /\ chTask[i] = "moving"
        /\ ~Superseded(i) /\ Names(i, Level(c))
    BY <1>9, <1>moves DEF FadeTick, Fades
  <2>2. PICK k \in (chFade[i][c].at + 1)..FadeTicks :
          IF chAuto[Level(c)] = i THEN Datagram(i, c, Level(c), Increment(i, c, k))
          ELSE UNCHANGED <<chDesk, chNoted>>
    BY <1>9 DEF FadeTick
  <2>3. CASE chAuto[Level(c)] = i
    <3>1. i = chPressed /\ Active(i) /\ ~NoteAt(Level(c))
      BY <2>1, NewestPlays, CategoryFree DEF Active, Claimed
    <3>2. k \in 0..FadeTicks
      BY <2>2, ChannelAssumption DEF ChTypes, FadeTypes
    <3>3. Level(c) \in ChannelAddr /\ Increment(i, c, k) \in ValuesOf(Level(c))
      BY <2>1, <3>2, Addresses, IncrementIsLevel DEF ChTypes
    <3>4. CueWrites(Level(c), Increment(i, c, k))
      BY <2>1, <2>2, <2>3, <3>1 DEF CueWrites, Datagram, GroupStep
    <3>. QED BY <3>3, <3>4 DEF StepKind
  <2>4. CASE chAuto[Level(c)] # i
    BY <2>1, <2>2, <2>4 DEF GroupStep, chWorld, StepKind, Quiet
  <2>. QED BY <2>3, <2>4
<1>10. CASE \E i \in CueNos : ResolveCue(i)
  BY <1>10 DEF StepKind
<1>11. CASE \/ \E n \in chNoted : NoteSent(n)
            \/ \E a \in Touchable :
                 DispatchReport(a) \/ \E v \in ValuesOf(a) : HandMoves(a, v) \/ OtherEngineMoves(a, v)
  BY <1>11 DEF StepKind
<1>. QED BY <1>1, <1>2, <1>3, <1>4, <1>6, <1>7, <1>8, <1>9, <1>10, <1>11 DEF ChannelNext

\* The desk and its mirror at the start.
LEMMA DeskInvInit == ChannelInit => DeskInv
BY DEF ChannelInit, DeskInv, ReportOK, SentOK, MirrorOK

\* And after every step.
LEMMA DeskInvNext ==
  ASSUME ChTypes, LineInv, DeskInv, [ChannelNext]_chVars
  PROVE  DeskInv'
<1>. /\ DOMAIN chDesk = ChannelAddr /\ DOMAIN chMirror = ChannelAddr /\ DOMAIN chReport = ChannelAddr
     /\ \A n \in chNoted : n.at \in ChannelAddr
  BY NoteTypes DEF ChTypes, DeskTypes, WorldTypes, IsDesk
<1>. Touchable \subseteq ChannelAddr
  BY ChannelAssumption
<1>. ReportOK /\ SentOK /\ MirrorOK
  BY DEF DeskInv
<1>0. StepKind
  BY StepKinds
<1>1. CASE Quiet
  BY <1>1 DEF Quiet, DeskInv, ReportOK, SentOK, MirrorOK, NoteAt
<1>2. ASSUME NEW n \in chNoted, NoteSent(n) PROVE DeskInv'
  <2>1. /\ chNoted' = chNoted \ {n} /\ chMirror' = [chMirror EXCEPT ![n.at] = n.value]
        /\ UNCHANGED <<chDesk, chReport, chOthers, chHands>>
    BY <1>2 DEF NoteSent, chWorld
  <2>2. ReportOK' /\ SentOK'
    BY <2>1 DEF ReportOK, SentOK
  <2>3. MirrorOK'
    BY <2>1 DEF MirrorOK, SentOK, NoteAt
  <2>. QED BY <2>2, <2>3 DEF DeskInv
<1>3. ASSUME NEW a \in Touchable, DispatchReport(a) PROVE DeskInv'
  BY <1>3 DEF DispatchReport, DeskInv, ReportOK, SentOK, MirrorOK, NoteAt
<1>4. ASSUME NEW a \in Touchable, NEW v \in ValuesOf(a), HandMoves(a, v) PROVE DeskInv'
  <2>1. /\ chDesk' = [chDesk EXCEPT ![a] = v] /\ chReport' = [chReport EXCEPT ![a] = v]
        /\ chOthers' = chOthers \cup {a} /\ chHands' = chHands \cup {a}
        /\ UNCHANGED <<chMirror, chNoted>>
    BY <1>4 DEF HandMoves
  <2>2. ReportOK'
    BY <2>1 DEF ReportOK
  <2>3. SentOK'
    BY <2>1 DEF SentOK
  <2>4. MirrorOK'
    BY <2>1 DEF MirrorOK, NoteAt
  <2>. QED BY <2>2, <2>3, <2>4 DEF DeskInv
<1>5. ASSUME NEW a \in Touchable, NEW v \in ValuesOf(a), OtherEngineMoves(a, v) PROVE DeskInv'
  <2>1. /\ chDesk' = [chDesk EXCEPT ![a] = v] /\ chMirror' = [chMirror EXCEPT ![a] = v]
        /\ chOthers' = chOthers \cup {a} /\ \A n \in chNoted : n.at # a
        /\ UNCHANGED <<chNoted, chReport, chHands>>
    BY <1>5 DEF OtherEngineMoves
  <2>2. ReportOK'
    BY <2>1 DEF ReportOK
  <2>3. SentOK'
    BY <2>1 DEF SentOK
  <2>4. MirrorOK'
    BY <2>1 DEF MirrorOK, NoteAt
  <2>. QED BY <2>2, <2>3, <2>4 DEF DeskInv
<1>6. ASSUME NEW i \in CueNos, ResolveCue(i) PROVE DeskInv'
  <2>1. chNoted = {} /\ UNCHANGED <<chDesk, chMirror, chNoted, chReport, chHands>>
        /\ chOthers' = (chOthers \ DOMAIN Own(i)) \cup {a \in ChannelAddr : chReport[a] # NoReport}
    BY <1>6, AtGate DEF ResolveCue
  <2>. QED BY <2>1 DEF DeskInv, ReportOK, SentOK, MirrorOK, NoteAt
<1>7. ASSUME NEW a \in ChannelAddr, NEW v \in ValuesOf(a), CueWrites(a, v) PROVE DeskInv'
  <2>1. /\ chDesk' = [chDesk EXCEPT ![a] = v] /\ \A n \in chNoted : n.at # a
        /\ UNCHANGED <<chMirror, chReport, chOthers, chHands>>
    BY <1>7 DEF CueWrites, chWorld, NoteAt
  <2>2. PICK m : m.at = a /\ m.value = v /\ chNoted' = chNoted \cup {m}
    BY <1>7 DEF CueWrites
  <2>3. ReportOK'
    BY <2>1 DEF ReportOK
  <2>4. SentOK'
    BY <2>1, <2>2 DEF SentOK
  <2>5. MirrorOK'
    BY <2>1, <2>2 DEF MirrorOK, NoteAt
  <2>. QED BY <2>3, <2>4, <2>5 DEF DeskInv
<1>. QED BY <1>0, <1>1, <1>2, <1>3, <1>4, <1>5, <1>6, <1>7 DEF StepKind

-----------------------------------------------------------------------------
(* A channel: what has landed.                                             *)

\* The value has been sent, and is on the desk unless somebody else has written there.
Lands(a, v) == a \in chOthers \/ (chDesk[a] = v /\ (chMirror[a] = v \/ NoteAt(a)))
There(i, a) == Names(i, a) => Lands(a, Own(i)[a])

\* What has landed stays, until the cue's next write there or a cue that names it resolves.
LEMMA LandsStays ==
  ASSUME ChTypes, LineInv, DeskInv, [ChannelNext]_chVars, NEW a \in ChannelAddr, NEW v,
         Lands(a, v), NoteAt(a)' => NoteAt(a),
         \A i \in CueNos : ResolveCue(i) => ~Names(i, a)
  PROVE  Lands(a, v)'
<1>. /\ DOMAIN chDesk = ChannelAddr /\ DOMAIN chMirror = ChannelAddr
     /\ \A n \in chNoted : n.at \in ChannelAddr
  BY NoteTypes DEF ChTypes, DeskTypes, IsDesk
<1>. Touchable \subseteq ChannelAddr
  BY ChannelAssumption
<1>0. StepKind
  BY StepKinds
<1>1. CASE Quiet
  BY <1>1 DEF Quiet, Lands, NoteAt
<1>2. ASSUME NEW n \in chNoted, NoteSent(n) PROVE Lands(a, v)'
  <2>1. /\ chNoted' = chNoted \ {n} /\ chMirror' = [chMirror EXCEPT ![n.at] = n.value]
        /\ UNCHANGED <<chDesk, chOthers>>
    BY <1>2 DEF NoteSent, chWorld
  <2>2. CASE n.at = a
    BY <2>1, <2>2 DEF Lands, DeskInv, SentOK
  <2>3. CASE n.at # a
    BY <2>1, <2>3 DEF Lands, NoteAt
  <2>. QED BY <2>2, <2>3
<1>3. ASSUME NEW b \in Touchable, DispatchReport(b) PROVE Lands(a, v)'
  BY <1>3 DEF DispatchReport, Lands, NoteAt, DeskInv, ReportOK
<1>4. ASSUME NEW b \in Touchable, NEW w \in ValuesOf(b), HandMoves(b, w) PROVE Lands(a, v)'
  BY <1>4 DEF HandMoves, Lands, NoteAt
<1>5. ASSUME NEW b \in Touchable, NEW w \in ValuesOf(b), OtherEngineMoves(b, w) PROVE Lands(a, v)'
  BY <1>5 DEF OtherEngineMoves, Lands, NoteAt
<1>6. ASSUME NEW i \in CueNos, ResolveCue(i) PROVE Lands(a, v)'
  <2>1. a \in chOthers => a \in chOthers'
    BY <1>6 DEF ResolveCue, Names
  <2>. QED BY <1>6, <2>1 DEF ResolveCue, Lands, NoteAt
<1>7. ASSUME NEW b \in ChannelAddr, NEW w \in ValuesOf(b), CueWrites(b, w) PROVE Lands(a, v)'
  <2>1. /\ chDesk' = [chDesk EXCEPT ![b] = w] /\ ~NoteAt(b)
        /\ UNCHANGED <<chMirror, chOthers>>
    BY <1>7 DEF CueWrites, chWorld
  <2>2. PICK m : m.at = b /\ m.value = w /\ chNoted' = chNoted \cup {m}
    BY <1>7 DEF CueWrites
  <2>3. b # a
    BY <2>1, <2>2 DEF NoteAt
  <2>4. NoteAt(a) => NoteAt(a)'
    BY <2>2 DEF NoteAt
  <2>. QED BY <2>1, <2>3, <2>4 DEF Lands
<1>. QED BY <1>0, <1>1, <1>2, <1>3, <1>4, <1>5, <1>6, <1>7 DEF StepKind

\* While the newest cue plays, the others have stopped or wait for their press.
LEMMA Alone ==
  ASSUME ChTypes, LineInv, NEW i \in CueNos, ~Superseded(i), Claimed(i), NEW j \in CueNos, j # i
  PROVE  chTask[j] \in {"idle", "joined", "over"}
<1>1. i = chPressed /\ i \in Int /\ j \in Int
  BY NewestPlays DEF Claimed, CueNos
<1>2. CASE j > i
  BY <1>1, <1>2 DEF LineInv, LineOK
<1>3. CASE j < i
  <2>1. Stopped(j)
    BY <1>1, <1>3 DEF LineInv, LineOK, CueNos
  <2>. QED BY <2>1 DEF Stopped
<1>. QED BY <1>1, <1>2, <1>3

\* A step that leaves the newest cue alone: nothing is sent, and an entry is lost to a
\* hand only.
Rests(i) ==
  /\ UNCHANGED <<chCues, chPressed, chSnaps, chPlan>>
  /\ chTask'[i] = chTask[i] /\ chStep'[i] = chStep[i] /\ chFade'[i] = chFade[i]
  /\ chNoted' \subseteq chNoted /\ chOthers \subseteq chOthers'
  /\ \A a \in ChannelAddr : chAuto'[a] = chAuto[a] \/ a \in chOthers
GroupSteps(i, c) ==
  \/ PreWaitEnds(i, c) \/ SwitchOff(i, c) \/ BeginGroup(i, c) \/ SwitchFirst(i, c)
  \/ LevelAtOnce(i, c) \/ FadeTick(i, c) \/ FadeEnds(i, c) \/ SwitchOn(i, c)
TaskSteps(i) ==
  \/ SnapOne(i) \/ SpawnChannel(i)
  \/ MuteFirst(i) \/ ForkGroups(i) \/ JoinGroups(i) \/ MuteLast(i) \/ FinishCue(i)
  \/ \E c \in Categories : GroupSteps(i, c)

WorldSteps ==
  \/ \E n \in chNoted : NoteSent(n)
  \/ \E a \in Touchable :
       DispatchReport(a) \/ \E v \in ValuesOf(a) : HandMoves(a, v) \/ OtherEngineMoves(a, v)

\* The steps in these groups.
LEMMA StepGroups ==
  ASSUME ChannelNext
  PROVE  \/ \E j \in CueNos : Press(j) \/ LeaveQueue(j) \/ ResolveCue(j) \/ TaskSteps(j)
         \/ WorldSteps
BY DEF ChannelNext, TaskSteps, GroupSteps, WorldSteps

\* Only a press makes another cue the newest.
LEMMA PressedKept ==
  ASSUME [ChannelNext]_chVars
  PROVE  chPressed' = chPressed \/ \E j \in CueNos : Press(j)
<1>1. ASSUME NEW j \in CueNos, TaskSteps(j) PROVE chPressed' = chPressed
  <2>1. ASSUME NEW c \in Categories, GroupSteps(j, c) PROVE chPressed' = chPressed
    BY <2>1 DEF GroupSteps, PreWaitEnds, SwitchOff, BeginGroup, SwitchFirst, LevelAtOnce,
                FadeTick, FadeEnds, SwitchOn, GroupStep
  <2>. QED
    BY <1>1, <2>1 DEF TaskSteps, SnapOne, SpawnChannel, MuteFirst, ForkGroups, JoinGroups, MuteLast,
                      FinishCue, ChannelStep
<1>2. ASSUME WorldSteps PROVE chPressed' = chPressed
  BY <1>2 DEF WorldSteps, NoteSent, DispatchReport, HandMoves, OtherEngineMoves
<1>3. ASSUME NEW j \in CueNos, LeaveQueue(j) \/ ResolveCue(j) PROVE chPressed' = chPressed
  BY <1>3 DEF LeaveQueue, ResolveCue
<1>4. CASE UNCHANGED chVars
  BY <1>4 DEF chVars
<1>. QED BY <1>1, <1>2, <1>3, <1>4, StepGroups

\* Such a cue has just resolved, or did before: then it takes a step, or rests.
LEMMA NewestSteps ==
  ASSUME ChTypes, LineInv, DeskInv, [ChannelNext]_chVars,
         NEW i \in CueNos, ~Superseded(i)', Claimed(i)'
  PROVE  \/ ResolveCue(i)
         \/ ~Superseded(i) /\ Claimed(i) /\ (Rests(i) \/ TaskSteps(i))
<1>types. chTask \in [CueNos -> Tasks] /\ chAuto \in [ChannelAddr -> 0..CueCount]
  BY DEF ChTypes, TaskTypes, AutoTypes
<1>line. LineInv'
  BY LineInvNext
<1>1. CASE UNCHANGED chVars
  BY <1>1 DEF chVars, Rests, Superseded, Claimed
<1>2. ASSUME NEW j \in CueNos, Press(j) PROVE FALSE
  <2>1. j = chPressed + 1 /\ chPressed' = j /\ chTask'[j] = "queued" /\ i \in Int /\ j \in Int
    BY <1>2, <1>types DEF Press, Reaches, CueNos
  <2>2. i = j
    <3>1. ~(i < j)
      BY <2>1 DEF Superseded
    <3>2. ~(i > j)
      BY <2>1, <1>line DEF LineInv, LineOK, Claimed
    <3>. QED BY <2>1, <3>1, <3>2
  <2>. QED BY <2>1, <2>2 DEF Claimed
<1>old. CASE Claimed(i) /\ ~Superseded(i)
  <2>0. i = chPressed /\ \A j \in CueNos \ {i} : chTask[j] \in {"idle", "joined", "over"}
    BY <1>old, NewestPlays, Alone DEF Claimed
  <2>1. ASSUME NEW j \in CueNos, LeaveQueue(j) \/ ResolveCue(j) PROVE FALSE
    <3>1. chTask[j] = "queued"
      BY <2>1 DEF LeaveQueue, ResolveCue, HasGate
    <3>. QED BY <2>0, <3>1, <1>old DEF Claimed
  <2>2. ASSUME NEW j \in CueNos \ {i}, FinishCue(j) PROVE Rests(i)
    <3>1. chTask[j] = "joined" /\ ChannelStep /\ UNCHANGED <<chStep, chAuto, chDesk, chNoted>>
          /\ Reaches(j, "over")
      BY <2>2 DEF FinishCue
    <3>2. Superseded(j)
      BY <2>0, <3>1, NewestPlays
    <3>3. chPlan' = chPlan
      BY <2>2, <3>2 DEF FinishCue, Landed
    <3>4. chTask'[i] = chTask[i]
      BY <3>1, <1>types DEF Reaches
    <3>. QED BY <3>1, <3>3, <3>4 DEF ChannelStep, chWorld, Rests
  <2>3. ASSUME NEW j \in CueNos \ {i}, \/ SnapOne(j) \/ SpawnChannel(j) \/ MuteFirst(j)
                                       \/ ForkGroups(j) \/ JoinGroups(j) \/ MuteLast(j)
        PROVE  FALSE
    BY <2>0, <2>3 DEF SnapOne, SpawnChannel, MuteFirst, ForkGroups, JoinGroups, MuteLast
  <2>4. ASSUME NEW j \in CueNos \ {i}, NEW c \in Categories, GroupSteps(j, c) PROVE FALSE
    <3>1. ChTypes'
      BY ChTypesNext
    <3>2. chTask[j] = "moving"
      BY <2>4, <3>1, GroupStepInLine DEF GroupSteps
    <3>. QED BY <2>0, <3>2
  <2>5. ASSUME NEW n \in chNoted, NoteSent(n) PROVE Rests(i)
    BY <2>5 DEF NoteSent, chWorld, Rests
  <2>6. ASSUME NEW a \in Touchable, DispatchReport(a) PROVE Rests(i)
    <3>1. a \in ChannelAddr /\ a \in chOthers
      BY <2>6, ChannelAssumption DEF DispatchReport, DeskInv, ReportOK
    <3>2. \A b \in ChannelAddr : chAuto'[b] = chAuto[b] \/ b \in chOthers
      BY <2>6, <3>1, <1>types DEF DispatchReport
    <3>. QED BY <2>6, <3>2 DEF DispatchReport, Rests
  <2>7. ASSUME NEW a \in Touchable, NEW v \in ValuesOf(a), HandMoves(a, v) \/ OtherEngineMoves(a, v)
        PROVE  Rests(i)
    BY <2>7 DEF HandMoves, OtherEngineMoves, Rests
  <2>8. CASE ChannelNext
    <3>1. ASSUME NEW j \in CueNos \ {i}, TaskSteps(j) PROVE Rests(i)
      BY <3>1, <2>2, <2>3, <2>4 DEF TaskSteps
    <3>2. WorldSteps => Rests(i)
      BY <2>5, <2>6, <2>7 DEF WorldSteps
    <3>. QED BY <2>8, <3>1, <3>2, <1>2, <1>old, <2>1, StepGroups
  <2>. QED BY <1>1, <1>old, <2>8
<1>new. CASE ~Claimed(i)
  <2>1. ASSUME NEW j \in CueNos, LeaveQueue(j) PROVE FALSE
    <3>1. chTask'[i] = chTask[i] \/ i = j
      BY <2>1, <1>types DEF LeaveQueue, Reaches
    <3>. QED BY <2>1, <3>1, <1>new DEF LeaveQueue, Claimed, Superseded
  <2>2. ASSUME NEW j \in CueNos, ResolveCue(j) PROVE ResolveCue(i)
    <3>1. chTask'[i] = chTask[i] \/ i = j
      BY <2>2, <1>types DEF ResolveCue, Reaches
    <3>. QED BY <2>2, <3>1, <1>new DEF Claimed
  <2>3. ASSUME NEW j \in CueNos, \/ SnapOne(j) \/ SpawnChannel(j) \/ MuteFirst(j)
                                 \/ ForkGroups(j) \/ JoinGroups(j) \/ MuteLast(j) \/ FinishCue(j)
        PROVE  FALSE
    <3>1. Claimed(j)
      BY <2>3 DEF SnapOne, SpawnChannel, MuteFirst, ForkGroups, JoinGroups, MuteLast, FinishCue,
                  Claimed
    <3>2. i # j => chTask'[i] = chTask[i]
      BY <2>3, <1>types DEF SnapOne, SpawnChannel, MuteFirst, ForkGroups, JoinGroups, MuteLast,
                            FinishCue, Reaches
    <3>. QED BY <3>1, <3>2, <1>new DEF Claimed
  <2>4. ASSUME NEW j \in CueNos, NEW c \in Categories, GroupSteps(j, c) PROVE FALSE
    <3>1. chTask' = chTask
      BY <2>4 DEF GroupSteps, PreWaitEnds, SwitchOff, BeginGroup, SwitchFirst, LevelAtOnce,
                  FadeTick, FadeEnds, SwitchOn, GroupStep
    <3>. QED BY <3>1, <1>new DEF Claimed
  <2>5. ASSUME WorldSteps PROVE FALSE
    <3>1. chTask' = chTask
      BY <2>5 DEF WorldSteps, NoteSent, DispatchReport, HandMoves, OtherEngineMoves
    <3>. QED BY <3>1, <1>new DEF Claimed
  <2>6. CASE UNCHANGED chVars
    BY <2>6, <1>new DEF chVars, Claimed
  <2>7. CASE ChannelNext
    <3>1. ASSUME NEW j \in CueNos, TaskSteps(j) PROVE FALSE
      BY <3>1, <2>3, <2>4 DEF TaskSteps
    <3>. QED BY <2>7, <3>1, <1>2, <2>1, <2>2, <2>5, StepGroups
  <2>. QED BY <2>6, <2>7
<1>3. Superseded(i) => Superseded(i)'
  BY <1>2, PressedKept DEF Superseded
<1>. QED BY <1>old, <1>new, <1>3

\* The newest cue keeps its entries, except those that somebody has taken and those
\* whose fade is over.
Playing(i) == ~Superseded(i) /\ Claimed(i)
LevelOut(i, a) == \E c \in Categories : a = Level(c) /\ chStep[i][c] \in {"on", "over"}
OwnedOf(i) ==
  chTask[i] \in {"muting", "forking", "moving", "unmuting", "joined"}
  => \A a \in ChannelAddr : Names(i, a) => chAuto[a] = i \/ a \in chOthers \/ LevelOut(i, a)
OwnedOK == \A i \in CueNos : Playing(i) => OwnedOf(i)

\* At the start no cue plays.
LEMMA NonePlays == ChannelInit => \A i \in CueNos : ~Playing(i)
BY DEF ChannelInit, Playing, Claimed

\* What the newest cue does to its entries.
LEMMA OwnedNext ==
  ASSUME ChTypes, LineInv, DeskInv, OwnedOK, [ChannelNext]_chVars
  PROVE  OwnedOK'
<1>. SUFFICES ASSUME NEW i \in CueNos, ~Superseded(i)', Claimed(i)' PROVE OwnedOf(i)'
  BY DEF OwnedOK, Playing
<1>types. /\ chTask \in [CueNos -> Tasks] /\ chAuto \in [ChannelAddr -> 0..CueCount]
          /\ chStep \in [CueNos -> [Categories -> Steps]]
  BY DEF ChTypes, TaskTypes, AutoTypes
<1>1. CASE ResolveCue(i)
  BY <1>1, <1>types DEF ResolveCue, Reaches, OwnedOf
<1>2. CASE ~Superseded(i) /\ Claimed(i) /\ Rests(i)
  <2>1. OwnedOf(i)
    BY <1>2 DEF OwnedOK, Playing
  <2>2. \A a \in ChannelAddr : (LevelOut(i, a) => LevelOut(i, a)') /\ (Names(i, a)' => Names(i, a))
    BY <1>2 DEF LevelOut, Rests, Names, Own
  <2>. QED BY <1>2, <2>1, <2>2 DEF OwnedOf, Rests
<1>3. CASE ~Superseded(i) /\ Claimed(i) /\ TaskSteps(i)
  <2>1. OwnedOf(i)
    BY <1>3 DEF OwnedOK, Playing
  <2>2. CASE SnapOne(i)
    BY <2>2 DEF SnapOne, OwnedOf
  <2>3. CASE SpawnChannel(i)
    BY <2>3 DEF SpawnChannel, OwnedOf, Names, Own
  <2>4. ASSUME \/ MuteFirst(i) \/ ForkGroups(i) \/ JoinGroups(i) \/ MuteLast(i) \/ FinishCue(i)
        PROVE  OwnedOf(i)'
    <3>1. /\ chAuto' = chAuto /\ chOthers' = chOthers /\ chCues' = chCues
          /\ chTask[i] \in {"muting", "forking", "moving", "unmuting", "joined"}
      BY <2>4 DEF MuteFirst, ForkGroups, JoinGroups, MuteLast, FinishCue, ChannelStep, chWorld
    <3>2. chStep' = chStep \/ \A c \in Categories : chStep[i][c] = "none"
      <4>1. chStep' = chStep \/ chTask[i] = "forking"
        BY <2>4 DEF MuteFirst, ForkGroups, JoinGroups, MuteLast, FinishCue
      <4>. QED BY <4>1 DEF LineInv, ForkOK, ForkOf
    <3>3. \A a \in ChannelAddr : (LevelOut(i, a) => LevelOut(i, a)') /\ (Names(i, a)' => Names(i, a))
      BY <3>1, <3>2 DEF LevelOut, Names, Own
    <3>. QED BY <2>1, <3>1, <3>3 DEF OwnedOf
  <2>5. ASSUME NEW c \in Categories, GroupSteps(i, c) PROVE OwnedOf(i)'
    <3>1. GroupStep /\ chTask[i] = "moving"
      <4>1. ChTypes'
        BY ChTypesNext
      <4>2. GroupStep
        BY <2>5 DEF GroupSteps, PreWaitEnds, SwitchOff, BeginGroup, SwitchFirst, LevelAtOnce,
                    FadeTick, FadeEnds, SwitchOn
      <4>. QED BY <2>5, <4>1, <4>2, GroupStepInLine DEF GroupSteps
    <3>2. \A d \in Categories : chStep[i][d] \in {"on", "over"} => chStep'[i][d] \in {"on", "over"}
      <4>1. \A step \in Steps : Goes(i, c, step) =>
              /\ chStep'[i][c] = step
              /\ \A d \in Categories \ {c} : chStep'[i][d] = chStep[i][d]
        BY <1>types DEF Goes
      <4>2. \A d \in Categories \ {c} : chStep'[i][d] = chStep[i][d]
        BY <2>5, <1>types DEF GroupSteps, PreWaitEnds, SwitchOff, BeginGroup, SwitchFirst,
                    LevelAtOnce, FadeTick, FadeEnds, SwitchOn, LevelOver, Goes
      <4>3. chStep[i][c] \in {"on", "over"} => Goes(i, c, "over")
        BY <2>5 DEF GroupSteps, PreWaitEnds, SwitchOff, BeginGroup, SwitchFirst,
                    LevelAtOnce, FadeTick, FadeEnds, SwitchOn
      <4>4. chStep[i][c] \in {"on", "over"} => chStep'[i][c] = "over"
        BY <4>3, <1>types DEF Goes
      <4>. QED BY <4>2, <4>4
    <3>3. \A a \in ChannelAddr : (LevelOut(i, a) => LevelOut(i, a)') /\ (Names(i, a)' => Names(i, a))
      BY <3>1, <3>2 DEF LevelOut, Names, Own, GroupStep
    <3>4. CASE FadeEnds(i, c)
      <4>1. LevelOut(i, Level(c))'
        <5>1. \E step \in {"on", "over"} : Goes(i, c, step)
          BY <3>4 DEF FadeEnds, LevelOver
        <5>2. chStep'[i][c] \in {"on", "over"}
          BY <5>1, <1>types DEF Goes
        <5>. QED BY <5>2 DEF LevelOut
      <4>2. \A a \in ChannelAddr : chAuto'[a] = chAuto[a] \/ a = Level(c)
        BY <3>4, <1>types DEF FadeEnds
      <4>. QED BY <2>1, <3>1, <3>3, <4>1, <4>2 DEF OwnedOf, GroupStep, chWorld
    <3>5. CASE ~FadeEnds(i, c)
      <4>1. chAuto' = chAuto
        BY <2>5, <3>5 DEF GroupSteps, PreWaitEnds, SwitchOff, BeginGroup, SwitchFirst,
                          LevelAtOnce, FadeTick, SwitchOn
      <4>. QED BY <2>1, <3>1, <3>3, <4>1 DEF OwnedOf, GroupStep, chWorld
    <3>. QED BY <3>4, <3>5
  <2>. QED BY <1>3, <2>2, <2>3, <2>4, <2>5 DEF TaskSteps
<1>. QED BY <1>1, <1>2, <1>3, NewestSteps

\* What a playing cue has landed stays, until its next write there.
LEMMA ThereStays ==
  ASSUME ChTypes, LineInv, DeskInv, [ChannelNext]_chVars, NEW i \in CueNos, Playing(i),
         chCues' = chCues, NEW a \in ChannelAddr, There(i, a), NoteAt(a)' => NoteAt(a)
  PROVE  There(i, a)'
<1>1. ASSUME NEW j \in CueNos, ResolveCue(j) PROVE FALSE
  <2>1. chTask[j] = "queued" /\ j # i
    BY <1>1 DEF ResolveCue, HasGate, Playing, Claimed
  <2>. QED BY <2>1, Alone DEF Playing
<1>2. Names(i, a)' => Names(i, a) /\ Own(i)' = Own(i)
  BY DEF Names, Own
<1>3. CASE Names(i, a)
  <2>1. Lands(a, Own(i)[a])
    BY <1>3 DEF There
  <2>2. Lands(a, Own(i)[a])'
    <3>. DEFINE v == Own(i)[a]
    <3>1. Lands(a, v)
      BY <2>1
    <3>2. v' = v
      BY DEF Own
    <3>. HIDE DEF v
    <3>3. PICK w : w = v
      OBVIOUS
    <3>4. Lands(a, w)'
      BY <1>1, <3>1, <3>3, LandsStays
    <3>5. Lands(a, v)'
      BY <3>2, <3>3, <3>4 DEF Lands, NoteAt
    <3>. QED BY <3>5 DEF v
  <2>. QED BY <1>2, <2>2 DEF There
<1>4. CASE ~Names(i, a)
  BY <1>2, <1>4 DEF There
<1>. QED BY <1>3, <1>4

\* A step that may send adds a note of its own address only.
LEMMA OtherAddresses ==
  ASSUME NEW i, NEW task, NEW a, SendOne(i, task, a)
  PROVE  \A b : b # a => (NoteAt(b)' => NoteAt(b))
BY SentOwn DEF NoteAt

\* A playing cue's send lands, if somebody else's has not.
LEMMA SendLands ==
  ASSUME ChTypes, OwnedOK, NEW i \in CueNos, Playing(i), chTask[i] \in {"muting", "moving", "unmuting"},
         NEW task, NEW a, ~LevelOut(i, a), SendOne(i, task, a), UNCHANGED <<chCues, chOthers>>
  PROVE  There(i, a)'
<1>1. Names(i, a)' <=> Names(i, a)
  BY DEF Names, Own
<1>2. CASE Names(i, a)
  <2>1. a \in ChannelAddr /\ DOMAIN chDesk = ChannelAddr
    BY <1>2, OwnOK DEF ChTypes, DeskTypes, IsDesk
  <2>2. CASE MaySend(i, a)
    <3>0. Datagram(i, task, a, Own(i)[a])
      BY <2>2 DEF SendOne
    <3>1. chDesk'[a] = Own(i)[a] /\ NoteAt(a)'
      <4>1. chDesk'[a] = Own(i)[a]
        BY <2>1, <3>0 DEF Datagram
      <4>2. [cue |-> i, task |-> task, at |-> a, value |-> Own(i)[a]] \in chNoted'
        BY <3>0 DEF Datagram
      <4>. QED BY <4>1, <4>2 DEF NoteAt
    <3>. QED BY <3>1 DEF There, Lands, Own
  <2>3. CASE ~MaySend(i, a)
    <3>1. chAuto[a] # i
      BY <2>3 DEF MaySend, Playing
    <3>2. a \in chOthers
      BY <1>2, <2>1, <3>1 DEF OwnedOK, OwnedOf
    <3>. QED BY <3>2 DEF There, Lands
  <2>. QED BY <2>2, <2>3
<1>3. CASE ~Names(i, a)
  BY <1>1, <1>3 DEF There
<1>. QED BY <1>2, <1>3

\* What a category of the newest cue has behind it, and what the channel's task has.
GroupDone(i, c) ==
  /\ OffFirst(i, c) /\ chStep[i][c] \in {"begin", "level", "over"} => There(i, Switch(c))
  /\ c \notin AuxSends /\ chStep[i][c] \in {"level", "over"} => There(i, Switch(c))
  /\ chStep[i][c] \in {"on", "over"} => There(i, Level(c))
  /\ chStep[i][c] = "over" => There(i, Switch(c))
  /\ chStep[i][c] \in {"switch", "level"} /\ chFade[i][c].at = FadeTicks => There(i, Level(c))
TaskDone(i) ==
  /\ chTask[i] \in {"forking", "moving", "unmuting", "joined"} /\ MuteGoes(i, 1) => There(i, Mute)
  /\ chTask[i] = "unmuting" => \A a \in ChannelAddr \ {Mute} : There(i, a)
  /\ chTask[i] \in {"joined", "over"} => \A a \in ChannelAddr : There(i, a)
DoneOf(i) == TaskDone(i) /\ \A c \in Categories : GroupDone(i, c)
DoneOK == \A i \in CueNos : Playing(i) => DoneOf(i)

\* A category's task leaves the rest of the channel where it is.
LEMMA GroupLeaves ==
  ASSUME ChTypes, LineInv, DeskInv, [ChannelNext]_chVars, NEW i \in CueNos, NEW c \in Categories,
         Playing(i), DoneOf(i), GroupSteps(i, c)
  PROVE  /\ chTask[i] = "moving" /\ GroupStep /\ TaskDone(i)'
         /\ \A d \in Categories \ {c} : GroupDone(i, d)'
         /\ \A a \in ChannelAddr : There(i, a) /\ (NoteAt(a)' => NoteAt(a)) => There(i, a)'
<1>0. ChTypes'
  BY ChTypesNext
<1>1. GroupStep /\ chTask[i] = "moving"
  <2>1. GroupStep
    BY DEF GroupSteps, PreWaitEnds, SwitchOff, BeginGroup, SwitchFirst, LevelAtOnce,
           FadeTick, FadeEnds, SwitchOn
  <2>. QED BY <1>0, <2>1, GroupStepInLine DEF GroupSteps
<1>2. UNCHANGED <<chCues, chTask, chPressed>>
  BY <1>1 DEF GroupStep
<1>3. \A a \in ChannelAddr : There(i, a) /\ (NoteAt(a)' => NoteAt(a)) => There(i, a)'
  BY <1>2, ThereStays
<1>4. \A b : b \notin {Level(c), Switch(c)} => (NoteAt(b)' => NoteAt(b))
  <2>1. \A a \in {Level(c), Switch(c)} : SendOne(i, c, a) =>
          \A b : b # a => (NoteAt(b)' => NoteAt(b))
    BY OtherAddresses
  <2>2. CASE FadeTick(i, c)
    BY <2>2 DEF FadeTick, Datagram, NoteAt
  <2>3. CASE PreWaitEnds(i, c) \/ BeginGroup(i, c) \/ FadeEnds(i, c)
    BY <2>3 DEF PreWaitEnds, BeginGroup, FadeEnds, NoteAt
  <2>4. CASE SwitchOff(i, c) \/ SwitchFirst(i, c) \/ SwitchOn(i, c)
    BY <2>1, <2>4 DEF SwitchOff, SwitchFirst, SwitchOn
  <2>5. CASE LevelAtOnce(i, c)
    BY <2>1, <2>5 DEF LevelAtOnce, NoteAt
  <2>. QED BY <2>2, <2>3, <2>4, <2>5 DEF GroupSteps
<1>5. TaskDone(i)'
  <2>1. There(i, Mute) => There(i, Mute)'
    BY <1>3, <1>4, Addresses, AddressesDiffer
  <2>2. MuteGoes(i, 1)' => MuteGoes(i, 1)
    BY <1>2 DEF MuteGoes, Names, Own
  <2>. QED BY <1>1, <1>2, <2>1, <2>2 DEF DoneOf, TaskDone
<1>6. ASSUME NEW d \in Categories \ {c} PROVE GroupDone(i, d)'
  <2>1. chStep'[i][d] = chStep[i][d]
    BY DEF GroupSteps, PreWaitEnds, SwitchOff, BeginGroup, SwitchFirst,
           LevelAtOnce, FadeTick, FadeEnds, SwitchOn, LevelOver, Goes, ChTypes, TaskTypes
  <2>2. chFade'[i][d] = chFade[i][d]
    BY DEF GroupSteps, PreWaitEnds, SwitchOff, BeginGroup, SwitchFirst,
           LevelAtOnce, FadeTick, FadeEnds, SwitchOn, ChTypes, FadeTypes
  <2>3. /\ There(i, Level(d)) => There(i, Level(d))'
        /\ There(i, Switch(d)) => There(i, Switch(d))'
    BY <1>3, <1>4, Addresses, AddressesDiffer
  <2>4. OffFirst(i, d)' => OffFirst(i, d)
    BY <1>2 DEF OffFirst, SwitchIs, Names, Own
  <2>. QED BY <2>1, <2>2, <2>3, <2>4 DEF DoneOf, GroupDone
<1>. QED BY <1>1, <1>3, <1>5, <1>6

\* A category's own step.
LEMMA GroupDoneNext ==
  ASSUME ChTypes, LineInv, DeskInv, OwnedOK, [ChannelNext]_chVars,
         NEW i \in CueNos, NEW c \in Categories, Playing(i), DoneOf(i), GroupSteps(i, c)
  PROVE  GroupDone(i, c)'
<1>. DEFINE lev == Level(c)
            swi == Switch(c)
<1>0. /\ chTask[i] = "moving" /\ GroupStep /\ ~Superseded(i)
      /\ UNCHANGED <<chCues, chOthers>>
  BY GroupLeaves DEF GroupStep, chWorld, Playing
<1>stay. \A a \in {lev, swi} : There(i, a) /\ (NoteAt(a)' => NoteAt(a)) => There(i, a)'
  BY GroupLeaves, Addresses
<1>away. \A a \in {lev, swi} : SendOne(i, c, a) => \A b : b # a => (NoteAt(b)' => NoteAt(b))
  BY OtherAddresses
<1>land. \A a \in {lev, swi} : SendOne(i, c, a) /\ ~LevelOut(i, a) => There(i, a)'
  BY <1>0, SendLands
<1>out. /\ ~LevelOut(i, swi)
        /\ chStep[i][c] \notin {"on", "over"} => ~LevelOut(i, lev)
  BY AddressesDiffer DEF LevelOut
<1>apart. lev # swi
  BY AddressesDiffer
<1>same. /\ OffFirst(i, c)' <=> OffFirst(i, c)
         /\ Names(i, swi)' <=> Names(i, swi)
         /\ Names(i, lev)' <=> Names(i, lev)
  BY <1>0 DEF OffFirst, SwitchIs, Names, Own
<1>goes. \A step \in Steps : Goes(i, c, step) => chStep'[i][c] = step
  BY DEF Goes, ChTypes, TaskTypes
<1>steps. \A t \in {"over", "off", "begin", "switch", "level", "on"} : t \in Steps
  BY DEF Steps
<1>done. GroupDone(i, c)
  BY DEF DoneOf
<1>. HIDE DEF lev, swi
<1>shape. ASSUME /\ OffFirst(i, c) /\ chStep'[i][c] \in {"begin", "level", "over"} => There(i, swi)'
                 /\ c \notin AuxSends /\ chStep'[i][c] \in {"level", "over"} => There(i, swi)'
                 /\ chStep'[i][c] \in {"on", "over"} => There(i, lev)'
                 /\ chStep'[i][c] = "over" => There(i, swi)'
                 /\ chStep'[i][c] \in {"switch", "level"} /\ chFade'[i][c].at = FadeTicks
                      => There(i, lev)'
          PROVE  GroupDone(i, c)'
  BY <1>shape, <1>same DEF GroupDone, lev, swi
<1>old. /\ OffFirst(i, c) /\ chStep[i][c] \in {"begin", "level", "over"} => There(i, swi)
        /\ c \notin AuxSends /\ chStep[i][c] \in {"level", "over"} => There(i, swi)
        /\ chStep[i][c] \in {"on", "over"} => There(i, lev)
        /\ chStep[i][c] = "over" => There(i, swi)
        /\ chStep[i][c] \in {"switch", "level"} /\ chFade[i][c].at = FadeTicks => There(i, lev)
  BY <1>done DEF GroupDone, lev, swi
<1>aux. OffFirst(i, c) \/ OnLast(i, c) => c \in AuxSends
  BY DEF OffFirst, OnLast
<1>unnamed. ~Names(i, swi) => There(i, swi)'
  BY <1>same DEF There
<1>over. ASSUME LevelOver(i, c), chStep[i][c] = "level", NoteAt(swi)' => NoteAt(swi), There(i, lev)'
         PROVE  GroupDone(i, c)'
  <2>1. CASE OnLast(i, c)
    <3>1. chStep'[i][c] = "on"
      BY <2>1, <1>over, <1>goes, <1>steps DEF LevelOver
    <3>. QED BY <3>1, <1>over, <1>shape, <2>1, <1>aux
  <2>2. CASE ~OnLast(i, c)
    <3>1. chStep'[i][c] = "over"
      BY <2>2, <1>over, <1>goes, <1>steps DEF LevelOver
    <3>2. There(i, swi)'
      <4>1. OffFirst(i, c) \/ c \notin AuxSends => There(i, swi)
        BY <1>over, <1>old
      <4>2. OffFirst(i, c) \/ c \notin AuxSends \/ ~Names(i, swi)
        BY <2>2 DEF OnLast, swi
      <4>. QED BY <4>1, <4>2, <1>over, <1>stay, <1>unnamed
    <3>. QED BY <3>1, <3>2, <1>over, <1>shape
  <2>. QED BY <2>1, <2>2
<1>1. CASE PreWaitEnds(i, c)
  <2>1. Goes(i, c, IF OffFirst(i, c) THEN "off" ELSE "begin")
    BY <1>1, <1>0 DEF PreWaitEnds
  <2>2. chStep'[i][c] = "off" \/ (chStep'[i][c] = "begin" /\ ~OffFirst(i, c))
    BY <2>1, <1>goes, <1>steps
  <2>. QED BY <2>2, <1>shape
<1>2. CASE SwitchOff(i, c)
  <2>1. chStep'[i][c] = "begin" /\ SendOne(i, c, swi)
    BY <1>2, <1>goes, <1>steps DEF SwitchOff, swi
  <2>. QED BY <2>1, <1>land, <1>out, <1>shape
<1>3. CASE BeginGroup(i, c)
  <2>1. /\ chStep[i][c] = "begin" /\ chNoted' = chNoted
        /\ \/ c \notin AuxSends /\ Names(i, swi) /\ Goes(i, c, "switch")
           \/ (c \in AuxSends \/ ~Names(i, swi)) /\ Goes(i, c, "level")
    BY <1>3, <1>0 DEF BeginGroup, swi
  <2>2. chFade'[i][c].at # FadeTicks
    <3>1. \A from : [NoFade EXCEPT !.from = from].at = -1
      BY DEF NoFade
    <3>2. NoFade.at = -1 /\ -1 # FadeTicks
      BY ChannelAssumption DEF NoFade
    <3>3. PICK fade : chFade' = [chFade EXCEPT ![i][c] = fade] /\ fade.at = -1
      BY <1>3, <3>1, <3>2 DEF BeginGroup
    <3>4. chFade'[i][c] = fade
      BY <3>3 DEF ChTypes, FadeTypes
    <3>. QED BY <3>2, <3>3, <3>4
  <2>3. \/ c \notin AuxSends /\ chStep'[i][c] = "switch"
        \/ (c \in AuxSends \/ ~Names(i, swi)) /\ chStep'[i][c] = "level"
    BY <2>1, <1>goes, <1>steps
  <2>4. OffFirst(i, c) => There(i, swi)'
    BY <2>1, <1>old, <1>stay DEF NoteAt
  <2>. QED BY <2>2, <2>3, <2>4, <1>aux, <1>unnamed, <1>shape
<1>4. CASE SwitchFirst(i, c)
  <2>1. /\ chStep[i][c] = "switch" /\ chStep'[i][c] = "level" /\ SendOne(i, c, swi)
        /\ chFade' = chFade
    BY <1>4, <1>0, <1>goes, <1>steps DEF SwitchFirst, swi
  <2>2. There(i, swi)'
    BY <2>1, <1>land, <1>out
  <2>3. chFade[i][c].at = FadeTicks => There(i, lev)'
    BY <2>1, <1>old, <1>stay, <1>away, <1>apart
  <2>. QED BY <2>1, <2>2, <2>3, <1>shape
<1>5. CASE LevelAtOnce(i, c)
  <2>1. chStep[i][c] = "level" /\ LevelOver(i, c)
    BY <1>5 DEF LevelAtOnce
  <2>2. CASE Names(i, lev)
    <3>1. SendOne(i, c, lev)
      BY <1>5, <2>2 DEF LevelAtOnce, lev
    <3>. QED BY <2>1, <3>1, <1>land, <1>out, <1>away, <1>apart, <1>over
  <2>3. CASE ~Names(i, lev)
    <3>1. chNoted' = chNoted /\ There(i, lev)'
      BY <1>5, <2>3, <1>same DEF LevelAtOnce, There, lev
    <3>. QED BY <2>1, <3>1, <1>over DEF NoteAt
  <2>. QED BY <2>2, <2>3
<1>6. CASE FadeTick(i, c)
  <2>1. PICK k \in (chFade[i][c].at + 1)..FadeTicks :
          /\ chFade' = [chFade EXCEPT ![i][c].at = k]
          /\ IF chAuto[lev] = i THEN Datagram(i, c, lev, Increment(i, c, k))
             ELSE UNCHANGED <<chDesk, chNoted>>
    BY <1>6 DEF FadeTick, lev
  <2>2. chStep[i][c] = "level" /\ chStep' = chStep /\ Names(i, lev)
    BY <1>6 DEF FadeTick, Fades, lev
  <2>3. NoteAt(swi)' => NoteAt(swi)
    BY <2>1, <1>apart DEF Datagram, NoteAt
  <2>4. chFade'[i][c].at = k
    BY <2>1 DEF ChTypes, FadeTypes
  <2>5. ASSUME k = FadeTicks PROVE There(i, lev)'
    <3>1. Increment(i, c, k) = Own(i)[lev] /\ lev \in ChannelAddr
      BY <2>2, <2>5, IncrementIsLevel, Addresses, ChannelAssumption DEF ChTypes, lev
    <3>2. CASE chAuto[lev] = i
      <4>1. Datagram(i, c, lev, Own(i)[lev])
        BY <2>1, <3>1, <3>2
      <4>2. SendOne(i, c, lev)
        BY <4>1, <3>2, <1>0 DEF SendOne, MaySend
      <4>. QED BY <4>2, <2>2, <1>land, <1>out
    <3>3. CASE chAuto[lev] # i
      <4>1. UNCHANGED <<chDesk, chNoted>>
        BY <2>1, <3>3
      <4>2. SendOne(i, c, lev)
        BY <4>1, <3>3 DEF SendOne, MaySend
      <4>. QED BY <4>2, <2>2, <1>land, <1>out
    <3>. QED BY <3>2, <3>3
  <2>. QED BY <2>2, <2>3, <2>4, <2>5, <1>old, <1>stay, <1>shape
<1>7. CASE FadeEnds(i, c)
  <2>1. /\ chStep[i][c] = "level" /\ LevelOver(i, c) /\ chNoted' = chNoted
        /\ chFade[i][c].at = FadeTicks
    BY <1>7, <1>0 DEF FadeEnds
  <2>2. There(i, lev)'
    BY <2>1, <1>old, <1>stay DEF NoteAt
  <2>. QED BY <2>1, <2>2, <1>over DEF NoteAt
<1>8. CASE SwitchOn(i, c)
  <2>1. chStep[i][c] = "on" /\ chStep'[i][c] = "over" /\ SendOne(i, c, swi)
    BY <1>8, <1>goes, <1>steps DEF SwitchOn, swi
  <2>2. There(i, swi)' /\ There(i, lev)'
    BY <2>1, <1>land, <1>out, <1>old, <1>stay, <1>away, <1>apart
  <2>. QED BY <2>1, <2>2, <1>shape
<1>. QED BY <1>1, <1>2, <1>3, <1>4, <1>5, <1>6, <1>7, <1>8 DEF GroupSteps

\* After every step.
LEMMA DoneNext ==
  ASSUME ChTypes, LineInv, DeskInv, OwnedOK, DoneOK, [ChannelNext]_chVars
  PROVE  DoneOK'
<1>. SUFFICES ASSUME NEW i \in CueNos, ~Superseded(i)', Claimed(i)' PROVE DoneOf(i)'
  BY DEF DoneOK, Playing
<1>now. \A t \in Tasks : Reaches(i, t) => chTask'[i] = t
  BY DEF Reaches, ChTypes, TaskTypes
<1>tasks. \A t \in {"snapping", "muting", "forking", "moving", "unmuting", "joined", "over"} : t \in Tasks
  BY DEF Tasks
<1>fork. \A c \in Categories :
           /\ chTask[i] \in {"idle", "queued", "snapping", "muting", "forking"} => chStep[i][c] = "none"
           /\ chTask[i] = "moving" /\ chStep[i][c] = "none" => ~Busy(i, c)
  BY DEF LineInv, ForkOK, ForkOf
<1>idle. (\A c \in Categories : chStep'[i][c] \in {"none", "wait"}) => \A c \in Categories : GroupDone(i, c)'
  BY DEF GroupDone
<1>1. CASE ResolveCue(i)
  <2>1. chTask'[i] = "snapping" /\ chStep' = chStep /\ chTask[i] = "queued"
    BY <1>1, <1>now, <1>tasks DEF ResolveCue, HasGate
  <2>. QED BY <2>1, <1>fork, <1>idle DEF DoneOf, TaskDone
<1>2. ASSUME Playing(i), DoneOf(i), Rests(i) PROVE DoneOf(i)'
  <2>1. \A a \in ChannelAddr : There(i, a) => There(i, a)'
    BY <1>2, ThereStays DEF Rests, NoteAt
  <2>2. \A c \in Categories : GroupDone(i, c)'
    BY <1>2, <2>1, Addresses DEF Rests, DoneOf, GroupDone, OffFirst, SwitchIs, Names, Own
  <2>3. TaskDone(i)'
    BY <1>2, <2>1, Addresses DEF Rests, DoneOf, TaskDone, MuteGoes, Names, Own
  <2>. QED BY <2>2, <2>3 DEF DoneOf
<1>3. ASSUME Playing(i), DoneOf(i), TaskSteps(i) PROVE DoneOf(i)'
  <2>cues. chCues' = chCues
    <3>1. ASSUME NEW c \in Categories, GroupSteps(i, c) PROVE chCues' = chCues
      BY <3>1, GroupLeaves, <1>3 DEF GroupStep
    <3>. QED BY <3>1, <1>3 DEF TaskSteps, SnapOne, SpawnChannel, MuteFirst, ForkGroups, JoinGroups,
                            MuteLast, FinishCue, ChannelStep
  <2>names. /\ \A a : Names(i, a)' <=> Names(i, a)
            /\ \A v : MuteGoes(i, v)' <=> MuteGoes(i, v)
            /\ \A c : OffFirst(i, c)' <=> OffFirst(i, c)
    BY <2>cues DEF MuteGoes, OffFirst, SwitchIs, Names, Own
  <2>stay. \A a \in ChannelAddr : There(i, a) /\ (NoteAt(a)' => NoteAt(a)) => There(i, a)'
    BY <1>3, <2>cues, ThereStays
  <2>. ~Superseded(i)
    BY <1>3 DEF Playing
  <2>0. \A c \in Categories : GroupDone(i, c) /\ TaskDone(i)
    BY <1>3 DEF DoneOf
  <2>1. CASE SnapOne(i)
    <3>1. chTask[i] = "snapping" /\ UNCHANGED <<chTask, chStep>>
      BY <2>1 DEF SnapOne
    <3>. QED BY <3>1, <1>fork, <1>idle DEF DoneOf, TaskDone
  <2>2. CASE SpawnChannel(i)
    <3>1. chTask[i] = "snapping" /\ chStep' = chStep
          /\ chTask'[i] = IF MuteGoes(i, 1) THEN "muting" ELSE "forking"
      BY <2>2, <1>now, <1>tasks DEF SpawnChannel, MutesFirst
    <3>. QED BY <3>1, <2>names, <1>fork, <1>idle DEF DoneOf, TaskDone
  <2>3. CASE MuteFirst(i)
    <3>1. /\ chTask[i] = "muting" /\ chTask'[i] = "forking" /\ chStep' = chStep
          /\ SendOne(i, "channel", Mute) /\ UNCHANGED <<chCues, chOthers>>
      BY <2>3, <1>now, <1>tasks DEF MuteFirst, ChannelStep, chWorld
    <3>2. There(i, Mute)'
      <4>1. ~LevelOut(i, Mute)
        BY AddressesDiffer DEF LevelOut
      <4>. QED BY <1>3, <3>1, <4>1, SendLands
    <3>. QED BY <3>1, <3>2, <1>fork, <1>idle DEF DoneOf, TaskDone
  <2>4. CASE ForkGroups(i)
    <3>1. /\ chTask[i] = "forking" /\ chTask'[i] = "moving" /\ chNoted' = chNoted
          /\ chStep' = [chStep EXCEPT ![i] = [c \in Categories |-> IF Busy(i, c) THEN "wait" ELSE "none"]]
      BY <2>4, <1>now, <1>tasks DEF ForkGroups
    <3>2. \A c \in Categories : chStep'[i][c] \in {"none", "wait"}
      BY <3>1 DEF ChTypes, TaskTypes
    <3>3. There(i, Mute) => There(i, Mute)'
      BY <3>1, <2>stay, Addresses DEF NoteAt
    <3>4. MuteGoes(i, 1) => There(i, Mute)
      BY <1>3, <3>1 DEF DoneOf, TaskDone
    <3>. QED BY <3>1, <3>2, <3>3, <3>4, <2>names, <1>idle DEF DoneOf, TaskDone
  <2>5. CASE JoinGroups(i)
    <3>1. /\ chTask[i] = "moving" /\ StepsOver(i) /\ UNCHANGED <<chNoted, chStep, chFade>>
          /\ chTask'[i] = IF MuteGoes(i, 0) THEN "unmuting" ELSE "joined"
      BY <2>5, <1>now, <1>tasks DEF JoinGroups, Awaited, ChannelStep
    <3>2. \A a \in ChannelAddr : There(i, a) => There(i, a)'
      BY <3>1, <2>stay DEF NoteAt
    <3>3. \A c \in Categories : There(i, Level(c)) /\ There(i, Switch(c))
      <4>. SUFFICES ASSUME NEW c \in Categories PROVE There(i, Level(c)) /\ There(i, Switch(c))
        OBVIOUS
      <4>1. CASE chStep[i][c] = "over"
        BY <1>3, <4>1 DEF DoneOf, GroupDone
      <4>2. CASE chStep[i][c] = "none"
        BY <3>1, <4>2, <1>fork DEF Busy, There
      <4>. QED BY <3>1, <4>1, <4>2 DEF StepsOver
    <3>4. \A a \in ChannelAddr \ {Mute} : There(i, a)'
      BY <3>2, <3>3, Addresses
    <3>5. MuteGoes(i, 1) => There(i, Mute)'
      BY <1>3, <3>1, <3>2, Addresses DEF DoneOf, TaskDone
    <3>6. ~MuteGoes(i, 0) => There(i, Mute)'
      <4>1. Names(i, Mute) => Own(i)[Mute] \in 0..1
        BY OwnOK, Addresses DEF ChTypes
      <4>2. Names(i, Mute) /\ ~MuteGoes(i, 0) => MuteGoes(i, 1)
        BY <4>1 DEF MuteGoes
      <4>3. ~Names(i, Mute) => There(i, Mute)'
        BY <2>names DEF There
      <4>. QED BY <3>5, <4>2, <4>3
    <3>7. \A c \in Categories : GroupDone(i, c)'
      BY <1>3, <3>1, <3>2, <2>names, Addresses DEF DoneOf, GroupDone
    <3>8. TaskDone(i)'
      BY <3>1, <3>4, <3>5, <3>6, <2>names DEF TaskDone
    <3>. QED BY <3>7, <3>8 DEF DoneOf
  <2>6. CASE MuteLast(i)
    <3>1. /\ chTask[i] = "unmuting" /\ chTask'[i] = "joined" /\ UNCHANGED <<chStep, chFade>>
          /\ SendOne(i, "channel", Mute) /\ UNCHANGED <<chCues, chOthers>>
      BY <2>6, <1>now, <1>tasks DEF MuteLast, ChannelStep, chWorld
    <3>2. There(i, Mute)'
      <4>1. ~LevelOut(i, Mute)
        BY AddressesDiffer DEF LevelOut
      <4>. QED BY <1>3, <3>1, <4>1, SendLands
    <3>3. \A a \in ChannelAddr \ {Mute} : There(i, a) => There(i, a)'
      BY <3>1, <2>stay, OtherAddresses
    <3>4. \A a \in ChannelAddr : There(i, a)'
      BY <1>3, <3>1, <3>2, <3>3 DEF DoneOf, TaskDone
    <3>. QED BY <3>1, <3>4, Addresses DEF DoneOf, GroupDone, TaskDone
  <2>7. CASE FinishCue(i)
    <3>1. /\ chTask[i] = "joined" /\ chTask'[i] = "over" /\ UNCHANGED <<chStep, chFade, chNoted>>
      BY <2>7, <1>now, <1>tasks DEF FinishCue, ChannelStep
    <3>2. \A a \in ChannelAddr : There(i, a)'
      BY <1>3, <3>1, <2>stay DEF DoneOf, TaskDone, NoteAt
    <3>. QED BY <3>1, <3>2, Addresses DEF DoneOf, GroupDone, TaskDone
  <2>8. ASSUME NEW c \in Categories, GroupSteps(i, c) PROVE DoneOf(i)'
    BY <1>3, <2>8, GroupLeaves, GroupDoneNext DEF DoneOf
  <2>. QED BY <1>3, <2>1, <2>2, <2>3, <2>4, <2>5, <2>6, <2>7, <2>8 DEF TaskSteps
<1>4. ~Superseded(i) /\ Claimed(i) => Playing(i) /\ DoneOf(i)
  BY DEF Playing, DoneOK
<1>. QED BY <1>1, <1>2, <1>3, <1>4, NewestSteps

-----------------------------------------------------------------------------
(* A channel: doors, levels and switches in their order.                   *)

ChInv == ChTypes /\ LineInv /\ DeskInv /\ OwnedOK /\ DoneOK

\* At the start.
LEMMA ChInvInit == ChannelInit => ChInv
BY ChTypesInit, LineInvInit, DeskInvInit, NonePlays DEF ChInv, OwnedOK, DoneOK

\* After every step.
LEMMA ChInvNext ==
  ASSUME ChInv, [ChannelNext]_chVars
  PROVE  ChInv'
BY ChTypesNext, LineInvNext, DeskInvNext, OwnedNext, DoneNext DEF ChInv

\* What the order asks of the datagram n.
DoorsOf(n) ==
  LET there(a) == Names(n.cue, a) => chDesk[a] = Own(n.cue)[a] \/ a \in chOthers IN
  n.task # "snap" =>
    /\ n.at = Mute /\ n.value = 0 => \A a \in ChannelAddr \ {Mute} : there(a)
    /\ n.at # Mute /\ MuteGoes(n.cue, 1) => there(Mute)
    /\ \A c \in AuxSends :
         /\ n.at = Switch(c) /\ n.value = 1 => there(Level(c))
         /\ n.at = Level(c) /\ SwitchIs(n.cue, c, 0) => there(Switch(c))
    /\ \A c \in Categories \ AuxSends : n.at = Level(c) => there(Switch(c))
DoorsHold == \A n \in chNoted' \ chNoted : DoorsOf(n)

\* What has landed is there.
LEMMA DoorsLanded ==
  ASSUME NEW n,
         n.at = Mute /\ n.value = 0 => \A a \in ChannelAddr \ {Mute} : There(n.cue, a),
         n.at # Mute /\ MuteGoes(n.cue, 1) => There(n.cue, Mute),
         \A c \in AuxSends :
            /\ n.at = Switch(c) /\ n.value = 1 => There(n.cue, Level(c))
            /\ n.at = Level(c) /\ SwitchIs(n.cue, c, 0) => There(n.cue, Switch(c)),
         \A c \in Categories \ AuxSends : n.at = Level(c) => There(n.cue, Switch(c))
  PROVE  DoorsOf(n)
BY DEF DoorsOf, There, Lands

\* A datagram of the channel's task.
LEMMA TaskDoors ==
  ASSUME ChInv, NEW i \in CueNos, NEW n, n.task = "channel", n.cue = i, n.at = Mute,
         n.value = Own(i)[Mute], Playing(i), chTask[i] \in {"muting", "unmuting"}
  PROVE  DoorsOf(n)
<1>0. chTask[i] = "muting" => Own(i)[Mute] = 1
  BY DEF ChInv, ChTypes, StepTypes, MuteGoes
<1>1. n.value = 0 => chTask[i] = "unmuting"
  BY <1>0
<1>2. chTask[i] = "unmuting" => \A a \in ChannelAddr \ {Mute} : There(i, a)
  BY DEF ChInv, DoneOK, DoneOf, TaskDone
<1>. QED BY <1>1, <1>2, AddressesDiffer, DoorsLanded, ChannelAssumption

\* A datagram of a category's task.
LEMMA GroupDoors ==
  ASSUME ChInv, NEW i \in CueNos, NEW c \in Categories, NEW n, n.cue = i, Playing(i),
         chTask[i] = "moving",
         \/ n.at = Level(c) /\ chStep[i][c] = "level"
         \/ /\ n.at = Switch(c) /\ n.value = Own(i)[Switch(c)]
            /\ chStep[i][c] \in {"off", "switch", "on"}
  PROVE  DoorsOf(n)
<1>1. DoneOf(i)
  BY DEF ChInv, DoneOK
<1>2. MuteGoes(i, 1) => There(i, Mute)
  BY <1>1 DEF DoneOf, TaskDone
<1>3. GroupDone(i, c)
  BY <1>1 DEF DoneOf
<1>4. n.at # Mute
  BY AddressesDiffer
<1>5. ASSUME NEW d \in AuxSends, n.at = Switch(d), n.value = 1 PROVE There(i, Level(d))
  <2>1. d = c /\ c \in AuxSends
    BY <1>5, AddressesDiffer, ChannelAssumption
  <2>2. chStep[i][c] = "on"
    BY <1>5, <2>1, AddressesDiffer DEF ChInv, ChTypes, StepTypes, OffFirst, SwitchIs
  <2>. QED BY <1>3, <2>1, <2>2 DEF GroupDone
<1>6. ASSUME NEW d \in AuxSends, n.at = Level(d), SwitchIs(i, d, 0) PROVE There(i, Switch(d))
  <2>1. d = c /\ c \in AuxSends /\ chStep[i][c] = "level"
    BY <1>6, AddressesDiffer, ChannelAssumption
  <2>2. OffFirst(i, c)
    BY <1>6, <2>1 DEF OffFirst
  <2>. QED BY <1>3, <2>1, <2>2 DEF GroupDone
<1>7. ASSUME NEW d \in Categories \ AuxSends, n.at = Level(d) PROVE There(i, Switch(d))
  <2>1. d = c /\ c \notin AuxSends /\ chStep[i][c] = "level"
    BY <1>7, AddressesDiffer
  <2>. QED BY <1>3, <2>1 DEF GroupDone
<1>. QED BY <1>2, <1>4, <1>5, <1>6, <1>7, DoorsLanded

\* Every datagram that leaves.
LEMMA DoorsNext ==
  ASSUME ChInv, [ChannelNext]_chVars
  PROVE  DoorsHold
<1>. ChTypes /\ LineInv /\ DeskInv
  BY DEF ChInv
<1>. SUFFICES ASSUME NEW n \in chNoted', n \notin chNoted PROVE DoorsOf(n)
  BY DEF DoorsHold
<1>1. ASSUME NEW i \in CueNos, SnapOne(i) PROVE DoorsOf(n)
  <2>1. n.task = "snap"
    BY <1>1 DEF SnapOne, Datagram
  <2>. QED BY <2>1 DEF DoorsOf
<1>2. ASSUME NEW i \in CueNos, MuteFirst(i) \/ MuteLast(i) PROVE DoorsOf(n)
  <2>1. chTask[i] \in {"muting", "unmuting"} /\ SendOne(i, "channel", Mute)
    BY <1>2 DEF MuteFirst, MuteLast
  <2>2. n = [cue |-> i, task |-> "channel", at |-> Mute, value |-> Own(i)[Mute]] /\ MaySend(i, Mute)
    BY <2>1, SentOwn
  <2>3. Playing(i)
    BY <2>1, <2>2 DEF Playing, Claimed, MaySend
  <2>. QED BY <2>1, <2>2, <2>3, TaskDoors
<1>3. ASSUME NEW i \in CueNos, NEW c \in Categories, GroupSteps(i, c) PROVE DoorsOf(n)
  <2>1. chTask[i] = "moving"
    <3>1. ChTypes'
      BY ChTypesNext
    <3>. QED BY <1>3, <3>1, GroupStepInLine DEF GroupSteps
  <2>2. CASE SwitchOff(i, c) \/ SwitchFirst(i, c) \/ SwitchOn(i, c)
    <3>1. chStep[i][c] \in {"off", "switch", "on"} /\ SendOne(i, c, Switch(c))
      BY <2>2 DEF SwitchOff, SwitchFirst, SwitchOn
    <3>2. n = [cue |-> i, task |-> c, at |-> Switch(c), value |-> Own(i)[Switch(c)]]
          /\ MaySend(i, Switch(c))
      BY <3>1, SentOwn
    <3>3. Playing(i)
      BY <2>1, <3>2 DEF Playing, Claimed, MaySend
    <3>. QED BY <2>1, <3>1, <3>2, <3>3, GroupDoors
  <2>3. CASE LevelAtOnce(i, c)
    <3>1. chStep[i][c] = "level" /\ SendOne(i, c, Level(c))
      BY <2>3 DEF LevelAtOnce
    <3>2. n = [cue |-> i, task |-> c, at |-> Level(c), value |-> Own(i)[Level(c)]]
          /\ MaySend(i, Level(c))
      BY <3>1, SentOwn
    <3>3. Playing(i)
      BY <2>1, <3>2 DEF Playing, Claimed, MaySend
    <3>. QED BY <2>1, <3>1, <3>2, <3>3, GroupDoors
  <2>4. CASE FadeTick(i, c)
    <3>1. chStep[i][c] = "level" /\ ~Superseded(i) /\ n.cue = i /\ n.at = Level(c)
      BY <2>4 DEF FadeTick, Datagram
    <3>2. Playing(i)
      BY <2>1, <3>1 DEF Playing, Claimed
    <3>. QED BY <2>1, <3>1, <3>2, GroupDoors
  <2>5. CASE PreWaitEnds(i, c) \/ BeginGroup(i, c) \/ FadeEnds(i, c)
    BY <2>5 DEF PreWaitEnds, BeginGroup, FadeEnds
  <2>. QED BY <1>3, <2>2, <2>3, <2>4, <2>5 DEF GroupSteps
<1>4. ASSUME NEW i \in CueNos, \/ Press(i) \/ LeaveQueue(i) \/ ResolveCue(i) \/ SpawnChannel(i)
                               \/ ForkGroups(i) \/ JoinGroups(i) \/ FinishCue(i)
      PROVE  DoorsOf(n)
  BY <1>4 DEF Press, LeaveQueue, ResolveCue, SpawnChannel, ForkGroups, JoinGroups, FinishCue
<1>5. ASSUME WorldSteps PROVE DoorsOf(n)
  BY <1>5 DEF WorldSteps, NoteSent, DispatchReport, HandMoves, OtherEngineMoves
<1>6. CASE UNCHANGED chVars
  BY <1>6 DEF chVars
<1>7. ASSUME NEW i \in CueNos, TaskSteps(i) PROVE DoorsOf(n)
  BY <1>7, <1>1, <1>2, <1>3, <1>4 DEF TaskSteps
<1>. QED BY <1>4, <1>5, <1>6, <1>7, StepGroups

\* Where a fade starts.
FadesHold ==
  \A i \in CueNos, c \in Categories :
    chStep[i][c] = "begin" /\ chStep'[i][c] \in {"switch", "level"} /\ Fades(i, c)
    => chFade'[i][c].from = chDesk[Level(c)] \/ Level(c) \in chHands

\* Every fade that begins.
LEMMA FadesNext ==
  ASSUME ChInv, [ChannelNext]_chVars
  PROVE  FadesHold
<1>. ChTypes /\ LineInv /\ DeskInv
  BY DEF ChInv
<1>. SUFFICES ASSUME NEW i \in CueNos, NEW c \in Categories, chStep[i][c] = "begin",
                     chStep'[i][c] \in {"switch", "level"}, Fades(i, c)
              PROVE  chFade'[i][c].from = chDesk[Level(c)] \/ Level(c) \in chHands
  BY DEF FadesHold
<1>types. /\ chStep \in [CueNos -> [Categories -> Steps]]
          /\ chFade \in [CueNos -> [Categories -> [from : 0..Top, at : -1..FadeTicks]]]
  BY DEF ChTypes, TaskTypes, FadeTypes
<1>1. ASSUME NEW j \in CueNos, \/ Press(j) \/ LeaveQueue(j) \/ ResolveCue(j) \/ SpawnChannel(j)
                               \/ SnapOne(j) \/ MuteFirst(j) \/ JoinGroups(j) \/ MuteLast(j)
                               \/ FinishCue(j)
      PROVE  FALSE
  BY <1>1 DEF Press, LeaveQueue, ResolveCue, SpawnChannel, SnapOne, MuteFirst, JoinGroups, MuteLast,
              FinishCue
<1>2. ASSUME NEW j \in CueNos, ForkGroups(j) PROVE FALSE
  <2>1. chStep'[i][c] \in {chStep[i][c], "wait", "none"}
    BY <1>2, <1>types DEF ForkGroups
  <2>. QED BY <2>1
<1>3. ASSUME WorldSteps PROVE FALSE
  BY <1>3 DEF WorldSteps, NoteSent, DispatchReport, HandMoves, OtherEngineMoves
<1>4. CASE UNCHANGED chVars
  BY <1>4 DEF chVars
<1>5. ASSUME NEW j \in CueNos, NEW d \in Categories, GroupSteps(j, d), ~BeginGroup(j, d) PROVE FALSE
  <2>1. chStep[j][d] # "begin" /\ (chStep' = chStep \/ \E step \in Steps : Goes(j, d, step))
    BY <1>5 DEF GroupSteps, PreWaitEnds, SwitchOff, SwitchFirst, LevelAtOnce, FadeTick, FadeEnds,
                SwitchOn, LevelOver, Steps
  <2>2. chStep'[i][c] = chStep[i][c]
    BY <2>1, <1>types DEF Goes
  <2>. QED BY <2>2
<1>6. ASSUME NEW j \in CueNos, NEW d \in Categories, BeginGroup(j, d)
      PROVE  chFade'[i][c].from = chDesk[Level(c)] \/ Level(c) \in chHands
  <2>1. i = j /\ c = d
    <3>1. \E step \in Steps : Goes(j, d, step)
      BY <1>6 DEF BeginGroup, LevelOver, Steps
    <3>2. chStep'[i][c] = chStep[i][c] \/ (i = j /\ c = d)
      BY <3>1, <1>types DEF Goes
    <3>. QED BY <3>2
  <2>2. chTask[i] = "moving" /\ Noted(i, c)
    BY <1>6, <2>1 DEF BeginGroup, LineInv, ForkOK, ForkOf, ChTypes, TaskTypes, Tasks
  <2>3. ~NoteAt(Level(c)) /\ Level(c) \in ChannelAddr
    BY <2>2, CategoryFree, Addresses
  <2>4. chMirror[Level(c)] = chDesk[Level(c)] \/ Level(c) \in chHands
    BY <2>3 DEF DeskInv, MirrorOK
  <2>5. chFade'[i][c].from = chMirror[Level(c)]
    <3>1. chFade' = [chFade EXCEPT ![i][c] = [NoFade EXCEPT !.from = chMirror[Level(c)]]]
      BY <1>6, <2>1 DEF BeginGroup, StartValue
    <3>2. chFade'[i][c] = [NoFade EXCEPT !.from = chMirror[Level(c)]]
      BY <3>1, <1>types
    <3>. QED BY <3>2 DEF NoFade
  <2>. QED BY <2>4, <2>5
<1>7. ASSUME NEW j \in CueNos, TaskSteps(j)
      PROVE  chFade'[i][c].from = chDesk[Level(c)] \/ Level(c) \in chHands
  BY <1>7, <1>1, <1>2, <1>5, <1>6 DEF TaskSteps
<1>. QED BY <1>1, <1>3, <1>4, <1>7, StepGroups

\* A cue plays on its channel as it is written, wherever the run is: what has to be on
\* the desk before a datagram leaves is there, for doors, levels and switches, through
\* pre-waits, cuts by newer cues, hands and other engines; a fade starts where the
\* desk is.
THEOREM PlaysAsWrittenCorrect == LinksSpec => PlaysAsWritten
<1>1. LinksInit => ChannelInit
  BY DEF LinksInit
<1>2. [LinksNext]_linksVars => [ChannelNext]_chVars
  BY DEF LinksNext, GpSteps, PadSteps, CueSteps, ChannelSteps, linksVars
<1>3. LinksSpec => []ChInv
  BY <1>1, <1>2, ChInvInit, ChInvNext, PTL DEF LinksSpec
<1>4. ChInv /\ [ChannelNext]_chVars => [DoorsHold]_chVars /\ [FadesHold]_chVars
  BY DoorsNext, FadesNext
<1>5. LinksSpec => [][DoorsHold]_chVars /\ [][FadesHold]_chVars
  BY <1>2, <1>3, <1>4, PTL DEF LinksSpec
<1>6. [][DoorsHold]_chVars => DoorsInOrder
  BY DEF DoorsHold, DoorsOf, DoorsInOrder
<1>7. [][FadesHold]_chVars => FadesFromHere
  BY DEF FadesHold, FadesFromHere
<1>. QED BY <1>5, <1>6, <1>7 DEF PlaysAsWritten

-----------------------------------------------------------------------------
(* A channel: what a superseded cue leaves to its successors.              *)

\* While the newest cue plays, the plan is its own and holds its values; what else the
\* plan has is to be snapped, or has landed.  Once it is over the plan is empty.
SnapsOf(i) ==
  /\ \A a \in DOMAIN chSnaps : a \in DOMAIN chPlan.values /\ chSnaps[a] = chPlan.values[a]
  /\ chTask[i] # "snapping" => DOMAIN chSnaps = {}
  /\ \A a \in DOMAIN chPlan.values :
       ~Names(i, a) => a \in DOMAIN chSnaps \/ Lands(a, chPlan.values[a])
PlanIs(i) ==
  IF chTask[i] = "over" THEN DOMAIN chPlan.values = {}
  ELSE /\ chPlan.by = i /\ SnapsOf(i)
       /\ \A a : Names(i, a) => a \in DOMAIN chPlan.values /\ chPlan.values[a] = Own(i)[a]
HoldsOK == \A i \in CueNos : Playing(i) => PlanIs(i)

\* Of an address that no later cue of the line names, the plan has the cue's value, or
\* it has landed.
LastNaming(i, a) ==
  /\ Claimed(i) /\ Names(i, a)
  /\ \A j \in CueNos : j > i /\ Claimed(j) => ~Names(j, a)
Kept(a, v) == IF a \in DOMAIN chPlan.values THEN chPlan.values[a] = v ELSE Lands(a, v)
PlanOK == \A i \in CueNos, a \in ChannelAddr : LastNaming(i, a) => Kept(a, Own(i)[a])

\* A plan laid onto another, and what is left of a plan.
LEMMA PlanOfIs ==
  ASSUME NEW i \in CueNos
  PROVE  /\ PlanOf(i).by = i
         /\ DOMAIN PlanOf(i).values = DOMAIN Own(i) \cup DOMAIN chPlan.values
         /\ \A a \in DOMAIN Own(i) : PlanOf(i).values[a] = Own(i)[a]
         /\ \A a \in DOMAIN chPlan.values \ DOMAIN Own(i) : PlanOf(i).values[a] = chPlan.values[a]
<1>1. PlanOf(i).by = i /\ PlanOf(i).values = Onto(Own(i), chPlan.values)
  BY DEF PlanOf
<1>2. PICK f : f = Own(i)
  OBVIOUS
<1>3. PICK g : g = chPlan.values
  OBVIOUS
<1>4. /\ DOMAIN Onto(f, g) = DOMAIN f \cup DOMAIN g
      /\ \A a \in DOMAIN f : Onto(f, g)[a] = f[a]
      /\ \A a \in DOMAIN g \ DOMAIN f : Onto(f, g)[a] = g[a]
  BY DEF Onto
<1>. QED BY <1>1, <1>2, <1>3, <1>4

\* What has landed of an address that the newest cue does not name stays.
LEMMA LandsKept ==
  ASSUME ChTypes, LineInv, DeskInv, [ChannelNext]_chVars, NEW i \in CueNos, Playing(i),
         NEW a \in ChannelAddr, NEW v, Lands(a, v), NoteAt(a)' => NoteAt(a)
  PROVE  Lands(a, v)'
<1>1. ASSUME NEW j \in CueNos, ResolveCue(j) PROVE FALSE
  <2>1. chTask[j] = "queued" /\ j # i
    BY <1>1 DEF ResolveCue, HasGate, Playing, Claimed
  <2>. QED BY <2>1, Alone DEF Playing
<1>. QED BY <1>1, LandsStays

\* A cue's own datagrams, its snaps apart, are of addresses that it names.
LEMMA OwnNotes ==
  ASSUME ChInv, NEW i \in CueNos, TaskSteps(i), ~SnapOne(i), NEW a, ~Names(i, a)
  PROVE  NoteAt(a)' => NoteAt(a)
<1>1. ASSUME NEW task, NEW b, Names(i, b), SendOne(i, task, b) PROVE NoteAt(a)' => NoteAt(a)
  BY <1>1, OtherAddresses
<1>types. ChTypes /\ StepTypes
  BY DEF ChInv, ChTypes
<1>2. CASE MuteFirst(i) \/ MuteLast(i)
  <2>1. SendOne(i, "channel", Mute) /\ Names(i, Mute)
    BY <1>2, <1>types DEF MuteFirst, MuteLast, StepTypes, MuteGoes
  <2>. QED BY <2>1, <1>1
<1>3. CASE SpawnChannel(i) \/ ForkGroups(i) \/ JoinGroups(i) \/ FinishCue(i)
  BY <1>3 DEF SpawnChannel, ForkGroups, JoinGroups, FinishCue, NoteAt
<1>4. ASSUME NEW c \in Categories, GroupSteps(i, c) PROVE NoteAt(a)' => NoteAt(a)
  <2>1. CASE SwitchOff(i, c) \/ SwitchFirst(i, c) \/ SwitchOn(i, c)
    <3>1. SendOne(i, c, Switch(c)) /\ Names(i, Switch(c))
      BY <2>1, <1>types DEF SwitchOff, SwitchFirst, SwitchOn, StepTypes, OffFirst, OnLast, SwitchIs
    <3>. QED BY <3>1, <1>1
  <2>2. CASE LevelAtOnce(i, c)
    BY <2>2, <1>1 DEF LevelAtOnce, NoteAt
  <2>3. CASE FadeTick(i, c)
    <3>1. Names(i, Level(c))
      BY <2>3 DEF FadeTick, Fades
    <3>2. a # Level(c)
      BY <3>1
    <3>. QED BY <2>3, <3>2 DEF FadeTick, Datagram, NoteAt
  <2>4. CASE PreWaitEnds(i, c) \/ BeginGroup(i, c) \/ FadeEnds(i, c)
    BY <2>4 DEF PreWaitEnds, BeginGroup, FadeEnds, NoteAt
  <2>. QED BY <1>4, <2>1, <2>2, <2>3, <2>4 DEF GroupSteps
<1>. QED BY <1>2, <1>3, <1>4 DEF TaskSteps

\* The newest cue's plan, after every step.
LEMMA HoldsNext ==
  ASSUME ChInv, HoldsOK, [ChannelNext]_chVars
  PROVE  HoldsOK'
<1>. ChTypes /\ LineInv /\ DeskInv /\ DoneOK /\ OwnedOK
  BY DEF ChInv
<1>. SUFFICES ASSUME NEW i \in CueNos, ~Superseded(i)', Claimed(i)' PROVE PlanIs(i)'
  BY DEF HoldsOK, Playing
<1>values. IsValues(Own(i)) /\ IsValues(chPlan.values) /\ IsValues(chSnaps)
  BY OwnOK DEF ChTypes, PlanTypes
<1>now. \A t \in Tasks : Reaches(i, t) => chTask'[i] = t
  BY DEF Reaches, ChTypes, TaskTypes
<1>tasks. \A t \in {"snapping", "muting", "forking", "moving", "unmuting", "joined", "over"} : t \in Tasks
  BY DEF Tasks
<1>1. CASE ResolveCue(i)
  <2>1. /\ chTask'[i] = "snapping" /\ chPlan' = PlanOf(i) /\ chCues' = chCues
        /\ chSnaps' = Without(chPlan.values, DOMAIN Own(i))
    BY <1>1, <1>now, <1>tasks DEF ResolveCue
  <2>2. /\ DOMAIN chSnaps' = DOMAIN chPlan.values \ DOMAIN Own(i)
        /\ \A a \in DOMAIN chPlan.values \ DOMAIN Own(i) : chSnaps'[a] = chPlan.values[a]
    <3>1. PICK f : f = chPlan.values
      OBVIOUS
    <3>2. PICK s : s = DOMAIN Own(i)
      OBVIOUS
    <3>3. DOMAIN Without(f, s) = DOMAIN f \ s /\ \A a \in DOMAIN f \ s : Without(f, s)[a] = f[a]
      BY DEF Without
    <3>. QED BY <2>1, <3>1, <3>2, <3>3
  <2>3. /\ chPlan'.by = i /\ DOMAIN chPlan'.values = DOMAIN Own(i) \cup DOMAIN chPlan.values
        /\ \A a \in DOMAIN Own(i) : chPlan'.values[a] = Own(i)[a]
        /\ \A a \in DOMAIN chPlan.values \ DOMAIN Own(i) : chPlan'.values[a] = chPlan.values[a]
    BY <2>1, PlanOfIs
  <2>4. Own(i)' = Own(i) /\ \A a : Names(i, a)' <=> a \in DOMAIN Own(i)
    BY <2>1 DEF Names, Own
  <2>5. SnapsOf(i)'
    BY <2>1, <2>2, <2>3, <2>4 DEF SnapsOf
  <2>. QED BY <2>1, <2>3, <2>4, <2>5 DEF PlanIs
<1>2. ASSUME Playing(i), PlanIs(i), UNCHANGED <<chCues, chSnaps, chPlan>>,
             chTask[i] = "over" <=> chTask'[i] = "over",
             chTask[i] # "snapping" => chTask'[i] # "snapping",
             chTask'[i] # "snapping" => DOMAIN chSnaps = {} \/ chTask[i] = "over",
             \A a \in ChannelAddr : ~Names(i, a) => (NoteAt(a)' => NoteAt(a))
      PROVE  PlanIs(i)'
  <2>1. Own(i)' = Own(i) /\ \A a : Names(i, a)' <=> Names(i, a)
    BY <1>2 DEF Names, Own
  <2>2. CASE chTask[i] = "over"
    BY <1>2, <2>2 DEF PlanIs
  <2>3. CASE chTask[i] # "over"
    <3>1. SnapsOf(i)
      BY <1>2, <2>3 DEF PlanIs
    <3>2. ASSUME NEW a \in DOMAIN chPlan.values, ~Names(i, a), Lands(a, chPlan.values[a])
          PROVE  Lands(a, chPlan.values[a])'
      <4>1. a \in ChannelAddr
        BY <1>values DEF IsValues
      <4>2. PICK v : v = chPlan.values[a]
        OBVIOUS
      <4>3. Lands(a, v)'
        BY <1>2, <3>2, <4>1, <4>2, LandsKept
      <4>4. chPlan'.values[a] = v
        BY <1>2, <4>2
      <4>. QED BY <4>3, <4>4 DEF Lands, NoteAt
    <3>3. SnapsOf(i)'
      BY <1>2, <2>1, <2>3, <3>1, <3>2 DEF SnapsOf
    <3>. QED BY <1>2, <2>1, <2>3, <3>3 DEF PlanIs
  <2>. QED BY <2>2, <2>3
<1>3. CASE Playing(i) /\ PlanIs(i) /\ Rests(i)
  <2>1. DOMAIN chSnaps = {} \/ chTask[i] \in {"snapping", "over"}
    BY <1>3 DEF PlanIs, SnapsOf
  <2>. QED BY <1>2, <1>3, <2>1 DEF Rests, NoteAt
<1>4. CASE Playing(i) /\ PlanIs(i) /\ TaskSteps(i)
  <2>. ~Superseded(i)
    BY <1>4 DEF Playing
  <2>1. CASE SnapOne(i)
    <3>1. PICK a \in DOMAIN chSnaps : /\ Datagram(i, "snap", a, chSnaps[a])
                                      /\ chSnaps' = Without(chSnaps, {a})
      BY <2>1 DEF SnapOne
    <3>2. /\ chTask[i] = "snapping" /\ UNCHANGED <<chTask, chPlan, chCues>> /\ SnapsOf(i)
          /\ chPlan.by = i
          /\ \A b : Names(i, b) => b \in DOMAIN chPlan.values /\ chPlan.values[b] = Own(i)[b]
      BY <1>4, <2>1 DEF SnapOne, PlanIs
    <3>3. a \in ChannelAddr /\ DOMAIN chDesk = ChannelAddr
      BY <1>values DEF IsValues, ChTypes, DeskTypes, IsDesk
    <3>4. chDesk'[a] = chSnaps[a] /\ NoteAt(a)'
      <4>1. chDesk'[a] = chSnaps[a]
        BY <3>1, <3>3 DEF Datagram
      <4>2. [cue |-> i, task |-> "snap", at |-> a, value |-> chSnaps[a]] \in chNoted'
        BY <3>1 DEF Datagram
      <4>. QED BY <4>1, <4>2 DEF NoteAt
    <3>5. /\ DOMAIN chSnaps' = DOMAIN chSnaps \ {a}
          /\ \A b \in DOMAIN chSnaps \ {a} : chSnaps'[b] = chSnaps[b]
      BY <3>1, <1>values, WithoutTypes
    <3>6. \A b : b # a => (NoteAt(b)' => NoteAt(b))
      BY <3>1 DEF Datagram, NoteAt
    <3>7. Own(i)' = Own(i) /\ \A b : Names(i, b)' <=> Names(i, b)
      BY <3>2 DEF Names, Own
    <3>8. ASSUME NEW b \in DOMAIN chPlan.values, ~Names(i, b)
          PROVE  b \in DOMAIN chSnaps' \/ Lands(b, chPlan.values[b])'
      <4>0. PICK v : v = chPlan.values[b]
        OBVIOUS
      <4>1. chPlan'.values[b] = v /\ b \in ChannelAddr
        BY <3>2, <4>0, <1>values DEF IsValues
      <4>2. b \in DOMAIN chSnaps \/ Lands(b, v)
        BY <3>2, <3>8, <4>0 DEF SnapsOf
      <4>3. CASE b = a
        <5>1. chSnaps[a] = v
          BY <3>1, <3>2, <4>0, <4>3 DEF SnapsOf
        <5>. QED BY <3>4, <4>1, <4>3, <5>1 DEF Lands
      <4>4. CASE b # a /\ b \in DOMAIN chSnaps
        BY <3>5, <4>4
      <4>5. CASE b # a /\ Lands(b, v)
        <5>1. Lands(b, v)'
          BY <1>4, <3>6, <4>1, <4>5, LandsKept
        <5>. QED BY <4>1, <5>1 DEF Lands, NoteAt
      <4>. QED BY <4>2, <4>3, <4>4, <4>5
    <3>9. SnapsOf(i)'
      BY <3>2, <3>5, <3>7, <3>8 DEF SnapsOf
    <3>. QED BY <3>2, <3>7, <3>9 DEF PlanIs
  <2>2. CASE FinishCue(i)
    <3>1. chTask[i] = "joined" /\ chTask'[i] = "over"
      BY <2>2, <1>now, <1>tasks DEF FinishCue
    <3>2. chPlan.by = i
      BY <1>4, <3>1 DEF PlanIs
    <3>3. chPlan' = [by |-> 0, values |-> NoValues]
      BY <2>2, <3>2 DEF FinishCue, Landed
    <3>4. DOMAIN chPlan'.values = {}
      BY <3>3, NoValuesTypes
    <3>. QED BY <3>1, <3>4 DEF PlanIs
  <2>3. CASE ~SnapOne(i) /\ ~FinishCue(i)
    <3>1. \A a : ~Names(i, a) => (NoteAt(a)' => NoteAt(a))
      BY <1>4, <2>3, OwnNotes
    <3>2. CASE SpawnChannel(i)
      <4>1. /\ chTask[i] = "snapping" /\ chTask'[i] \in {"muting", "forking"}
            /\ chSnaps = NoValues /\ UNCHANGED <<chCues, chSnaps, chPlan>>
        BY <3>2, <1>now, <1>tasks DEF SpawnChannel
      <4>. QED BY <1>2, <1>4, <3>1, <4>1, NoValuesTypes
    <3>3. CASE MuteFirst(i) \/ ForkGroups(i) \/ JoinGroups(i) \/ MuteLast(i)
      <4>1. /\ chTask[i] \in {"muting", "forking", "moving", "unmuting"}
            /\ chTask'[i] \in {"forking", "moving", "unmuting", "joined"}
            /\ UNCHANGED <<chCues, chSnaps, chPlan>>
        BY <3>3, <1>now, <1>tasks DEF MuteFirst, ForkGroups, JoinGroups, MuteLast, ChannelStep
      <4>2. DOMAIN chSnaps = {}
        BY <1>4, <4>1 DEF PlanIs, SnapsOf
      <4>. QED BY <1>2, <1>4, <3>1, <4>1, <4>2
    <3>4. ASSUME NEW c \in Categories, GroupSteps(i, c) PROVE PlanIs(i)'
      <4>1. chTask[i] = "moving" /\ GroupStep
        BY <1>4, <3>4, GroupLeaves DEF DoneOK
      <4>2. UNCHANGED <<chCues, chSnaps, chPlan, chTask>> /\ DOMAIN chSnaps = {}
        BY <1>4, <4>1 DEF GroupStep, PlanIs, SnapsOf
      <4>. QED BY <1>2, <1>4, <3>1, <4>1, <4>2
    <3>. QED BY <1>4, <2>3, <3>2, <3>3, <3>4 DEF TaskSteps
  <2>. QED BY <2>1, <2>2, <2>3
<1>5. ~Superseded(i) /\ Claimed(i) => Playing(i) /\ PlanIs(i)
  BY DEF Playing, HoldsOK
<1>. QED BY <1>1, <1>3, <1>4, <1>5, NewestSteps

\* Only a cue that leaves the queue, or one that is done, changes the plan and the line.
LEMMA PlanSteps ==
  ASSUME ChInv, [ChannelNext]_chVars
  PROVE  \/ \E j \in CueNos : LeaveQueue(j) \/ ResolveCue(j)
         \/ \E j \in CueNos : FinishCue(j) /\ Landed(j) /\ chPlan.by = j
         \/ UNCHANGED <<chPlan, chCues>> /\ \A i \in CueNos : Claimed(i)' <=> Claimed(i)
<1>. ChTypes /\ LineInv /\ DeskInv
  BY DEF ChInv
<1>now. \A i \in CueNos, t \in Tasks : Reaches(i, t) =>
          chTask'[i] = t /\ \A j \in CueNos \ {i} : chTask'[j] = chTask[j]
  BY DEF Reaches, ChTypes, TaskTypes
<1>tasks. \A t \in Tasks \ {"idle", "queued"} : t \notin {"idle", "queued"}
  OBVIOUS
<1>names. /\ "queued" \in Tasks
          /\ \A t \in {"muting", "forking", "moving", "unmuting", "joined", "over"} :
               t \in Tasks \ {"idle", "queued"}
  BY DEF Tasks
<1>moved. ASSUME NEW i \in CueNos, Claimed(i), NEW t \in Tasks \ {"idle", "queued"}, Reaches(i, t)
          PROVE  \A j \in CueNos : Claimed(j)' <=> Claimed(j)
  BY <1>moved, <1>now DEF Claimed
<1>still. chTask' = chTask => \A j \in CueNos : Claimed(j)' <=> Claimed(j)
  BY DEF Claimed
<1>1. ASSUME NEW i \in CueNos, Press(i)
      PROVE  UNCHANGED <<chPlan, chCues>> /\ \A j \in CueNos : Claimed(j)' <=> Claimed(j)
  <2>1. i = chPressed + 1 /\ chTask'[i] = "queued" /\ UNCHANGED <<chPlan, chCues>>
        /\ \A j \in CueNos \ {i} : chTask'[j] = chTask[j]
    BY <1>1, <1>now, <1>names DEF Press
  <2>2. chTask[i] = "idle"
    BY <2>1 DEF LineInv, LineOK, CueNos, ChTypes, ScoreTypes
  <2>. QED BY <2>1, <2>2 DEF Claimed
<1>2. ASSUME NEW i \in CueNos, SnapOne(i)
      PROVE  UNCHANGED <<chPlan, chCues>> /\ \A j \in CueNos : Claimed(j)' <=> Claimed(j)
  BY <1>2, <1>still DEF SnapOne
<1>3. ASSUME NEW i \in CueNos, \/ SpawnChannel(i) \/ MuteFirst(i) \/ ForkGroups(i) \/ JoinGroups(i)
                               \/ MuteLast(i) \/ (FinishCue(i) /\ ~(Landed(i) /\ chPlan.by = i))
      PROVE  UNCHANGED <<chPlan, chCues>> /\ \A j \in CueNos : Claimed(j)' <=> Claimed(j)
  <2>1. /\ UNCHANGED <<chPlan, chCues>> /\ Claimed(i)
        /\ \E t \in {"muting", "forking", "moving", "unmuting", "joined", "over"} : Reaches(i, t)
    BY <1>3 DEF SpawnChannel, MuteFirst, ForkGroups, JoinGroups, MuteLast, FinishCue, ChannelStep,
                Claimed
  <2>. QED BY <2>1, <1>moved, <1>names
<1>4. ASSUME NEW i \in CueNos, NEW c \in Categories, GroupSteps(i, c)
      PROVE  UNCHANGED <<chPlan, chCues>> /\ \A j \in CueNos : Claimed(j)' <=> Claimed(j)
  <2>1. GroupStep
    BY <1>4 DEF GroupSteps, PreWaitEnds, SwitchOff, BeginGroup, SwitchFirst, LevelAtOnce,
                FadeTick, FadeEnds, SwitchOn
  <2>. QED BY <2>1, <1>still DEF GroupStep
<1>5. ASSUME WorldSteps
      PROVE  UNCHANGED <<chPlan, chCues>> /\ \A j \in CueNos : Claimed(j)' <=> Claimed(j)
  BY <1>5, <1>still DEF WorldSteps, NoteSent, DispatchReport, HandMoves, OtherEngineMoves
<1>6. CASE UNCHANGED chVars
  BY <1>6, <1>still DEF chVars
<1>7. CASE ChannelNext
  <2>1. ASSUME NEW j \in CueNos, TaskSteps(j)
        PROVE  \/ FinishCue(j) /\ Landed(j) /\ chPlan.by = j
               \/ UNCHANGED <<chPlan, chCues>> /\ \A i \in CueNos : Claimed(i)' <=> Claimed(i)
    BY <2>1, <1>2, <1>3, <1>4 DEF TaskSteps
  <2>. QED BY <1>7, <2>1, <1>1, <1>5, StepGroups
<1>. QED BY <1>6, <1>7

\* Datagrams are of addresses that the plan has.
LEMMA SentIsPlanned ==
  ASSUME ChInv, HoldsOK, [ChannelNext]_chVars, NEW a, a \notin DOMAIN chPlan.values
  PROVE  NoteAt(a)' => NoteAt(a)
<1>. ChTypes /\ LineInv
  BY DEF ChInv
<1>0. StepKind
  BY StepKinds
<1>1. ASSUME NEW b \in ChannelAddr, NEW w \in ValuesOf(b), CueWrites(b, w)
      PROVE  NoteAt(a)' => NoteAt(a)
  <2>1. chPressed \in CueNos /\ Playing(chPressed) /\ chTask[chPressed] # "over"
    BY <1>1 DEF CueWrites, Active, Playing, Superseded, ChTypes, ScoreTypes
  <2>2. PlanIs(chPressed) /\ (Names(chPressed, b) \/ b \in DOMAIN chSnaps)
    BY <1>1, <2>1 DEF HoldsOK, CueWrites
  <2>3. b \in DOMAIN chPlan.values
    BY <2>1, <2>2 DEF PlanIs, SnapsOf
  <2>4. a # b
    BY <2>3
  <2>5. PICK m : m.at = b /\ chNoted' = chNoted \cup {m}
    BY <1>1 DEF CueWrites
  <2>. QED BY <2>4, <2>5 DEF NoteAt
<1>2. CASE chNoted' \subseteq chNoted
  BY <1>2 DEF NoteAt
<1>3. CASE WorldSteps \/ Quiet \/ \E i \in CueNos : ResolveCue(i)
  BY <1>3, <1>2 DEF WorldSteps, Quiet, ResolveCue, NoteSent, DispatchReport, HandMoves, OtherEngineMoves
<1>. QED BY <1>0, <1>1, <1>3 DEF StepKind, WorldSteps

\* What superseded cues leave, after every step.
LEMMA PlanNext ==
  ASSUME ChInv, HoldsOK, PlanOK, [ChannelNext]_chVars
  PROVE  PlanOK'
<1>. ChTypes /\ LineInv /\ DeskInv /\ DoneOK /\ OwnedOK
  BY DEF ChInv
<1>. SUFFICES ASSUME NEW i \in CueNos, NEW a \in ChannelAddr, LastNaming(i, a)'
              PROVE  Kept(a, Own(i)[a])'
  BY DEF PlanOK
<1>. PICK v : v = Own(i)[a]
  OBVIOUS
<1>ints. \A j \in CueNos : j \in Int
  BY DEF CueNos
<1>kept. ASSUME LastNaming(i, a), UNCHANGED <<chCues, chPlan>>,
                \A j \in CueNos : ResolveCue(j) => ~Names(j, a)
         PROVE  Kept(a, Own(i)[a])'
  <2>1. Kept(a, v) /\ Own(i)'[a] = v
    BY <1>kept DEF PlanOK, Own
  <2>2. CASE a \in DOMAIN chPlan.values
    BY <1>kept, <2>1, <2>2 DEF Kept
  <2>3. CASE a \notin DOMAIN chPlan.values
    <3>1. NoteAt(a)' => NoteAt(a)
      BY <2>3, SentIsPlanned
    <3>2. Lands(a, v)'
      BY <1>kept, <2>1, <2>3, <3>1, LandsStays DEF Kept
    <3>. QED BY <1>kept, <2>1, <2>3, <3>2 DEF Kept, Lands, NoteAt
  <2>. QED BY <2>2, <2>3
<1>1. ASSUME NEW j \in CueNos, LeaveQueue(j) \/ ResolveCue(j) PROVE Kept(a, Own(i)[a])'
  <2>1. /\ chTask[j] = "queued" /\ chPlan' = PlanOf(j) /\ UNCHANGED <<chCues, chNoted>>
        /\ \E t \in Tasks \ {"idle", "queued"} : Reaches(j, t)
    BY <1>1 DEF LeaveQueue, ResolveCue, HasGate, Tasks
  <2>2. Claimed(j)' /\ \A k \in CueNos \ {j} : Claimed(k)' <=> Claimed(k)
    BY <2>1 DEF Reaches, Claimed, ChTypes, TaskTypes
  <2>3. \A k \in CueNos : Claimed(k) => k < j
    <3>. SUFFICES ASSUME NEW k \in CueNos, Claimed(k), k > j PROVE FALSE
      BY <2>1, <1>ints DEF Claimed
    <3>1. Stopped(j)
      BY <1>ints DEF LineInv, LineOK, CueNos
    <3>. QED BY <2>1, <3>1 DEF Stopped
  <2>4. Own(i)' = Own(i) /\ \A k : Names(k, a)' <=> Names(k, a)
    BY <2>1 DEF Own, Names
  <2>5. /\ DOMAIN chPlan'.values = DOMAIN Own(j) \cup DOMAIN chPlan.values
        /\ \A b \in DOMAIN Own(j) : chPlan'.values[b] = Own(j)[b]
        /\ \A b \in DOMAIN chPlan.values \ DOMAIN Own(j) : chPlan'.values[b] = chPlan.values[b]
    BY <2>1, PlanOfIs
  <2>6. CASE Names(j, a)
    <3>1. i = j
      BY <2>2, <2>3, <2>4, <2>6, <1>ints DEF LastNaming
    <3>. QED BY <2>4, <2>5, <2>6, <3>1 DEF Names, Kept
  <2>7. CASE ~Names(j, a)
    <3>1. i # j /\ LastNaming(i, a)
      <4>1. i # j
        BY <2>4, <2>7 DEF LastNaming
      <4>2. Claimed(i) /\ Names(i, a)
        BY <2>2, <2>4, <4>1 DEF LastNaming
      <4>3. ASSUME NEW k \in CueNos, k > i, Claimed(k) PROVE ~Names(k, a)
        BY <2>2, <2>4, <2>7, <4>3 DEF LastNaming
      <4>. QED BY <4>1, <4>2, <4>3 DEF LastNaming
    <3>2. Kept(a, v)
      BY <3>1 DEF PlanOK
    <3>3. CASE a \in DOMAIN chPlan.values
      BY <2>4, <2>5, <2>7, <3>2, <3>3 DEF Kept, Names
    <3>4. CASE a \notin DOMAIN chPlan.values
      <4>1. Lands(a, v)
        BY <3>2, <3>4 DEF Kept
      <4>2. \A k \in CueNos : ResolveCue(k) => ~Names(k, a)
        <5>. SUFFICES ASSUME NEW k \in CueNos, ResolveCue(k) PROVE k = j
          BY <2>7
        <5>1. chTask[k] = "queued" /\ chTask'[k] = "snapping"
          BY DEF ResolveCue, HasGate, Reaches, ChTypes, TaskTypes
        <5>. QED BY <2>2, <5>1 DEF Claimed
      <4>3. Lands(a, v)'
        BY <2>1, <4>1, <4>2, LandsStays DEF NoteAt
      <4>4. a \notin DOMAIN chPlan'.values
        BY <2>5, <2>7, <3>4 DEF Names
      <4>. QED BY <2>4, <4>3, <4>4 DEF Kept, Lands, NoteAt
    <3>. QED BY <3>3, <3>4
  <2>. QED BY <2>6, <2>7
<1>2. ASSUME NEW j \in CueNos, FinishCue(j), Landed(j), chPlan.by = j PROVE Kept(a, Own(i)[a])'
  <2>1. /\ chTask[j] = "joined" /\ chTask'[j] = "over" /\ \A k \in CueNos \ {j} : chTask'[k] = chTask[k]
        /\ UNCHANGED <<chCues, chNoted>>
        /\ chPlan' = [by |-> 0, values |-> NoValues]
    BY <1>2 DEF FinishCue, Reaches, ChannelStep, ChTypes, TaskTypes
  <2>2. Playing(j) /\ j = chPressed
    BY <1>2, <2>1, NewestPlays DEF Playing, Claimed, Landed
  <2>3. \A k \in CueNos : Claimed(k)' <=> Claimed(k)
    BY <2>1 DEF Claimed
  <2>4. \A k \in CueNos : Claimed(k) => ~(k > j)
    BY <2>2, <1>ints DEF LineInv, LineOK, Claimed
  <2>5. Own(i)' = Own(i) /\ \A k : Names(k, a)' <=> Names(k, a)
    BY <2>1 DEF Own, Names
  <2>6. LastNaming(i, a)
    BY <2>3, <2>5 DEF LastNaming
  <2>7. PlanIs(j) /\ DoneOf(j)
    BY <2>2 DEF HoldsOK, DoneOK
  <2>8. Lands(a, v)
    <3>1. CASE Names(j, a)
      <4>1. i = j
        BY <2>2, <2>4, <2>6, <3>1, <1>ints DEF LastNaming, Playing
      <4>. QED BY <2>1, <2>7, <3>1, <4>1 DEF DoneOf, TaskDone, There
    <3>2. CASE ~Names(j, a) /\ a \in DOMAIN chPlan.values
      <4>1. Lands(a, chPlan.values[a])
        BY <2>1, <2>7, <3>2 DEF PlanIs, SnapsOf
      <4>2. chPlan.values[a] = v
        BY <2>6, <3>2 DEF PlanOK, Kept
      <4>. QED BY <4>1, <4>2
    <3>3. CASE a \notin DOMAIN chPlan.values
      BY <2>6, <3>3 DEF PlanOK, Kept
    <3>. QED BY <3>1, <3>2, <3>3
  <2>9. Lands(a, v)'
    BY <2>1, <2>2, <2>8, LandsKept DEF NoteAt
  <2>10. a \notin DOMAIN chPlan'.values
    BY <2>1, NoValuesTypes
  <2>. QED BY <2>5, <2>9, <2>10 DEF Kept, Lands, NoteAt
<1>3. ASSUME UNCHANGED <<chPlan, chCues>>, \A j \in CueNos : Claimed(j)' <=> Claimed(j)
      PROVE  Kept(a, Own(i)[a])'
  <2>1. LastNaming(i, a)
    BY <1>3 DEF LastNaming, Names, Own
  <2>2. ASSUME NEW j \in CueNos, ResolveCue(j) PROVE FALSE
    <3>1. chTask[j] = "queued" /\ chTask'[j] = "snapping"
      BY <2>2 DEF ResolveCue, HasGate, Reaches, ChTypes, TaskTypes
    <3>. QED BY <1>3, <3>1 DEF Claimed
  <2>. QED BY <1>3, <2>1, <2>2, <1>kept
<1>. QED BY <1>1, <1>2, <1>3, PlanSteps

\* At the start there is no plan, and no cue to hold one for.
LEMMA PlanInit == ChannelInit => HoldsOK /\ PlanOK
BY NonePlays DEF ChannelInit, HoldsOK, PlanOK, LastNaming, Claimed

\* Once every call is over, what the line's cues gave has landed.
LEMMA PlanLands == ChInv /\ HoldsOK /\ PlanOK => AllLand
<1>. SUFFICES ASSUME ChInv, HoldsOK, PlanOK,
                     \A i \in 1..chPressed : chTask[i] = "over",
                     NEW a \in ChannelAddr \ chOthers, NEW i \in NewestNaming(a)
              PROVE  chDesk[a] = Own(i)[a] /\ chMirror[a] = Own(i)[a]
  BY DEF AllLand
<1>. ChTypes /\ LineInv
  BY DEF ChInv
<1>1. chPressed \in 0..CueCount /\ CueCount \in Nat
  BY ChannelAssumption DEF ChTypes, ScoreTypes
<1>2. /\ i \in 1..chPressed /\ i \in CueNos /\ Names(i, a)
      /\ \A j \in (i + 1)..chPressed : ~Names(j, a)
  BY <1>1 DEF NewestNaming, CueNos
<1>3. chPressed \in CueNos /\ chTask[chPressed] = "over"
  BY <1>1, <1>2 DEF CueNos
<1>4. Playing(chPressed)
  BY <1>1, <1>3 DEF Playing, Superseded, Claimed
<1>5. DOMAIN chPlan.values = {}
  BY <1>3, <1>4 DEF HoldsOK, PlanIs
<1>6. \A j \in CueNos : chTask[j] \notin {"idle", "over"} => FALSE
  <2>. SUFFICES ASSUME NEW j \in CueNos, chTask[j] \notin {"idle", "over"} PROVE FALSE
    OBVIOUS
  <2>1. j \in 1..chPressed
    BY <1>1 DEF LineInv, LineOK, CueNos
  <2>. QED BY <2>1
<1>7. LastNaming(i, a)
  <2>1. Claimed(i)
    BY <1>2 DEF Claimed
  <2>2. ASSUME NEW j \in CueNos, j > i, Claimed(j) PROVE ~Names(j, a)
    <3>1. ~(j > chPressed)
      BY <2>2 DEF LineInv, LineOK, Claimed
    <3>2. j \in (i + 1)..chPressed
      BY <1>1, <1>2, <2>2, <3>1 DEF CueNos
    <3>. QED BY <1>2, <3>2
  <2>. QED BY <1>2, <2>1, <2>2 DEF LastNaming
<1>8. Lands(a, Own(i)[a])
  BY <1>2, <1>5, <1>7 DEF PlanOK, Kept
<1>9. ~NoteAt(a)
  <2>. SUFFICES ASSUME NEW n \in chNoted PROVE FALSE
    BY DEF NoteAt
  <2>1. n.cue \in CueNos
    BY NoteTypes
  <2>2. chTask[n.cue] \in {"snapping", "forking", "joined", "moving"}
    BY DEF LineInv, NotesOK, NoteOK
  <2>. QED BY <1>6, <2>1, <2>2
<1>. QED BY <1>8, <1>9 DEF Lands

\* Wherever the run is: once every call is over and every report has come in, an address
\* that nobody else has written since has the value of the newest cue that names it, on
\* the desk and in the mirror, however many cues before it were cut short.
THEOREM AllLandCorrect == LinksSpec => []AllLand
<1>1. LinksInit => ChannelInit
  BY DEF LinksInit
<1>2. [LinksNext]_linksVars => [ChannelNext]_chVars
  BY DEF LinksNext, GpSteps, PadSteps, CueSteps, ChannelSteps, linksVars
<1>3. ChannelInit => ChInv /\ HoldsOK /\ PlanOK
  BY ChInvInit, PlanInit
<1>4. ChInv /\ HoldsOK /\ PlanOK /\ [ChannelNext]_chVars => ChInv' /\ HoldsOK' /\ PlanOK'
  BY ChInvNext, HoldsNext, PlanNext
<1>. QED BY <1>1, <1>2, <1>3, <1>4, PlanLands, PTL DEF LinksSpec

\* The channel alone, with any cues in any scenes: every call's doors and fades are in
\* order, and all that the cues gave lands.
THEOREM ChannelCorrect == ChannelSpec => []AllLand /\ DoorsInOrder /\ FadesFromHere
<1>1. ChannelInit => ChInv /\ HoldsOK /\ PlanOK
  BY ChInvInit, PlanInit
<1>2. ChInv /\ HoldsOK /\ PlanOK /\ [ChannelNext]_chVars => ChInv' /\ HoldsOK' /\ PlanOK'
  BY ChInvNext, HoldsNext, PlanNext
<1>3. ChInv /\ [ChannelNext]_chVars => [DoorsHold]_chVars /\ [FadesHold]_chVars
  BY DoorsNext, FadesNext
<1>4. ChannelSpec => [](ChInv /\ HoldsOK /\ PlanOK)
  BY <1>1, <1>2, PTL DEF ChannelSpec
<1>5. ChannelSpec => [][DoorsHold]_chVars /\ [][FadesHold]_chVars
  BY <1>3, <1>4, PTL DEF ChannelSpec
<1>6. [][DoorsHold]_chVars => DoorsInOrder
  BY DEF DoorsHold, DoorsOf, DoorsInOrder
<1>7. [][FadesHold]_chVars => FadesFromHere
  BY DEF FadesHold, FadesFromHere
<1>8. ChannelSpec => []AllLand
  BY <1>4, PlanLands, PTL
<1>. QED BY <1>5, <1>6, <1>7, <1>8
=============================================================================
