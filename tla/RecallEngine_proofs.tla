------------------------ MODULE RecallEngine_proofs ------------------------
(***************************************************************************)
(* Theorems of RecallEngine, for any show, any number of calls, any fades, *)
(* operator moves and failing datagrams, whether or not recalls reach the  *)
(* gate in order.                                                          *)
(*                                                                         *)
(* The plan: what a superseded cue set stays in it until a newer call      *)
(* completes or an undo drops it.                                          *)
(*                                                                         *)
(* The refinement: RecallEngine implements CuePlayback.  However many cues *)
(* are fired on top of one another, once they are over the desk is where   *)
(* it would be had they played in order.  That is about plain shows, in    *)
(* which nothing but recalls touches the desk: each hypothesis of          *)
(* PlainShow excludes a source of disorder that the engine does not claim  *)
(* to handle, or handles elsewhere.                                        *)
(***************************************************************************)
EXTENDS RecallEngine, TLAPS

\* Laying one setting over another, or taking it away, is again a setting.
LEMMA SettingsType ==
  ASSUME NEW f \in Settings, NEW g \in Settings
  PROVE  Over(f, g) \in Settings /\ Minus(f, g) \in Settings /\ Nothing \in Settings
  BY DEF Settings, Over, Minus, Nothing

\* What a recall resolves is a part of what its snapshot stores.
LEMMA ResolvedType ==
  ASSUME NEW r \in Recalls
  PROVE  Own[r] \in Settings /\ Row[r] \in Settings /\ Resolved(r) \in Settings
  BY OwnAssumption, RowAssumption DEF Settings, Resolved

\* What is merged into the plan is a plan.
LEMMA MergedType ==
  ASSUME TypeOK, NEW r \in Recalls, NEW f \in Settings
  PROVE  Merged(r, f) \in [ep : Nat, vals : Settings]
<1>1. Over(f, plan.vals) \in Settings
  BY SettingsType DEF TypeOK
<1>. QED BY <1>1 DEF TypeOK, Merged

\* The step of a spawned task keeps the tasks well-formed.
LEMMA TaskStepType ==
  ASSUME TypeOK, NEW r \in Recalls, NEW g \in Groups, NEW t \in TaskState,
         TaskStep(r, g, t)
  PROVE  /\ task' \in [Recalls -> [Groups -> TaskState]]
         /\ UNCHANGED <<epoch, token, cancelled, gate, queue, inFlight, plan,
                        lastSent, undo, lastRecalled, generation, pc, ep, gen,
                        todo, own, cur, verdict, capture>>
  BY DEF TypeOK, TaskStep

\* A task idles, starts and stops as a task.
LEMMA IdleTaskType ==
  /\ IdleTask \in TaskState /\ [IdleTask EXCEPT !.st = "done"] \in TaskState
  /\ [IdleTask EXCEPT !.st = "wait"] \in TaskState
  BY DEF IdleTask, TaskState

-----------------------------------------------------------------------------
\* The typing of the initial state.
LEMMA TypeInit == Init => TypeOK
<1>. SUFFICES ASSUME Init PROVE TypeOK
  OBVIOUS
<1>1. Nothing \in Settings
  BY DEF Nothing, Settings
<1>2. desk \in [Addr -> Value] /\ mirror \in [Addr -> Value]
  BY ValueAssumption DEF Init
<1>3. task \in [Recalls -> [Groups -> TaskState]]
  BY IdleTaskType DEF Init
<1>4. queue \in Seq(Recalls)
  BY DEF Init
<1>5. cur \in [Recalls -> Cursor]
  BY DEF Init, Cursor
<1>6. pc \in [Recalls -> Labels]
  BY DEF Init, Labels
<1>. QED BY <1>1, <1>2, <1>3, <1>4, <1>5, <1>6 DEF Init, TypeOK, NoPlan, NoUndo

\* Every step keeps the types.  A send is of a value the loop still has, which
\* is what SendOK is for.
LEMMA TypeNext == TypeOK /\ SendOK /\ [Next]_vars => TypeOK'
<1>. SUFFICES ASSUME TypeOK, SendOK, [Next]_vars PROVE TypeOK'
  OBVIOUS
<1>. USE DEF TypeOK, shared, locals, world, Goto, ReleaseGate
<1>1. ASSUME NEW r \in Recalls, Claim(r) PROVE TypeOK'
  <2>1. cancelled' \in SUBSET Recalls /\ token' \in Recalls \cup {NoOne}
    BY <1>1 DEF Claim, Superseding
  <2>2. lastSent' \in Settings
    BY <1>1, SettingsType DEF Claim, RecordAtClaim
  <2>3. epoch' \in Nat /\ ep' \in [Recalls -> Nat] /\ pc' \in [Recalls -> Labels]
    BY <1>1 DEF Claim, Labels
  <2>. QED BY <1>1, <2>1, <2>2, <2>3 DEF Claim
<1>2. ASSUME NEW r \in Recalls, Enqueue(r) PROVE TypeOK'
  BY <1>2 DEF Enqueue, Labels
<1>3. ASSUME NEW r \in Recalls, Enter(r) PROVE TypeOK'
  <2>1. queue' \in Seq(Recalls)
    BY <1>3 DEF Enter
  <2>2. pc' \in [Recalls -> Labels]
    BY <1>3 DEF Enter, Labels
  <2>. QED BY <1>3, <2>1, <2>2 DEF Enter
<1>4. ASSUME NEW r \in Recalls, LeaveSuperseded(r) PROVE TypeOK'
  BY <1>4, MergedType, ResolvedType DEF LeaveSuperseded, Labels
<1>5. ASSUME NEW r \in Recalls, MarkInFlight(r) PROVE TypeOK'
  BY <1>5 DEF MarkInFlight, Labels
<1>6. ASSUME NEW r \in Recalls, FireMemory(r) PROVE TypeOK'
  <2>1. Over(Row[r], desk) \in [Addr -> Value]
    BY ResolvedType, ValueAssumption DEF Over, Settings
  <2>2. Over(Row[r], report) \in Settings
    BY ResolvedType, SettingsType
  <2>3. desk' \in [Addr -> Value] /\ report' \in Settings /\ drops' \in Nat
    BY <1>6, <2>1, <2>2 DEF FireMemory
  <2>4. pc' \in [Recalls -> Labels]
    BY <1>6 DEF FireMemory, Labels
  <2>. QED BY <1>6, <2>3, <2>4 DEF FireMemory
<1>7. ASSUME NEW r \in Recalls, ForgetPalettes(r) PROVE TypeOK'
  BY <1>7, SettingsType DEF ForgetPalettes, Labels
<1>8. ASSUME NEW r \in Recalls, Settle(r) PROVE TypeOK'
  BY <1>8 DEF Settle, Labels
<1>9. ASSUME NEW r \in Recalls, LeaveRowOnly(r) PROVE TypeOK'
  BY <1>9 DEF LeaveRowOnly, Outcome, Labels
<1>10. ASSUME NEW r \in Recalls, Resolve(r) PROVE TypeOK'
  <2>1. plan' \in [ep : Nat, vals : Settings]
    BY <1>10, MergedType, ResolvedType DEF Resolve
  <2>2. own' \in [Recalls -> Settings] /\ todo' \in [Recalls -> Settings]
    BY <1>10, SettingsType, ResolvedType DEF Resolve
  <2>3. [a \in Addr |-> IF Resolved(r)[a] # None THEN mirror[a] ELSE None] \in Settings
    BY DEF Settings
  <2>4. capture' \in [Recalls -> Settings]
    BY <1>10, <2>3 DEF Resolve
  <2>5. /\ generation' \in Nat /\ gen' \in [Recalls -> Nat]
        /\ registry' \in [Addr -> Nat]
    <3>. HIDE DEF TypeOK
    <3>1. generation \in Nat /\ gen \in [Recalls -> Nat] /\ registry \in [Addr -> Nat]
      BY DEF TypeOK
    <3>2. \/ /\ generation' = generation + 1
             /\ gen' = [gen EXCEPT ![r] = generation + 1]
             /\ registry' = [a \in Addr |-> 0]
          \/ UNCHANGED <<generation, gen, registry>>
      BY <1>10 DEF Resolve
    <3>. QED BY <3>1, <3>2
  <2>6. pc' \in [Recalls -> Labels] /\ grabbed' \in SUBSET Addr
    BY <1>10 DEF Resolve, Labels
  <2>. QED BY <1>10, <2>1, <2>2, <2>4, <2>5, <2>6 DEF Resolve
<1>11. ASSUME NEW r \in Recalls, NEW a \in Addr, Pick(r, a) PROVE TypeOK'
  BY <1>11 DEF Pick, Cursor
<1>12. ASSUME NEW r \in Recalls, Transmit(r) PROVE TypeOK'
  <2>1. cur[r] \in [at : Addr, st : {"air", "sent"}]
    BY <1>12 DEF Transmit, Cursor
  <2>2. todo[r][cur[r].at] \in Value
    BY <1>12, <2>1 DEF Transmit, SendOK, LoopOK, TasksOK, TaskFits, Named, Settings
  <2>3. desk' \in [Addr -> Value]
    <3>1. \/ desk' = [desk EXCEPT ![cur[r].at] = todo[r][cur[r].at]]
          \/ desk' = desk
      BY <1>12 DEF Transmit
    <3>. QED BY <3>1, <2>1, <2>2
  <2>4. drops' \in Nat
    BY <1>12 DEF Transmit
  <2>5. cur' \in [Recalls -> Cursor]
    <3>1. \/ cur' = [cur EXCEPT ![r] = [cur[r] EXCEPT !.st = "sent"]]
          \/ cur' = [cur EXCEPT ![r] = None]
      BY <1>12 DEF Transmit
    <3>2. [cur[r] EXCEPT !.st = "sent"] \in Cursor /\ None \in Cursor
      BY <2>1 DEF Cursor
    <3>. QED BY <3>1, <3>2
  <2>6. todo' \in [Recalls -> Settings]
    <3>1. \/ todo' = [todo EXCEPT ![r] = [todo[r] EXCEPT ![cur[r].at] = None]]
          \/ todo' = todo
      BY <1>12 DEF Transmit
    <3>2. [todo[r] EXCEPT ![cur[r].at] = None] \in Settings
      BY <2>1 DEF Settings
    <3>3. todo \in [Recalls -> Settings]
      OBVIOUS
    <3>. HIDE DEF TypeOK
    <3>. QED BY <3>1, <3>2, <3>3
  <2>. QED BY <1>12, <2>3, <2>4, <2>5, <2>6 DEF Transmit
<1>13. ASSUME NEW r \in Recalls, Reflect(r) PROVE TypeOK'
  BY <1>13 DEF Reflect, SendOK, LoopOK, Cursor, Settings
<1>14. ASSUME NEW r \in Recalls, StartOwn(r) PROVE TypeOK'
  BY <1>14 DEF StartOwn, Labels
<1>15. ASSUME NEW r \in Recalls, Spawn(r) PROVE TypeOK'
  BY <1>15, IdleTaskType DEF Spawn, Labels
<1>16. ASSUME NEW r \in Recalls, NEW g \in Groups, PreWaitOver(r, g) PROVE TypeOK'
  BY <1>16, TaskStepType, IdleTaskType DEF PreWaitOver, Targets, Named, TaskState
<1>17. ASSUME NEW r \in Recalls, NEW g \in Groups, NEW a \in Addr, TaskPick(r, g, a) PROVE TypeOK'
  <2>. DEFINE t == task[r][g]
  <2>1. t \in TaskState
    OBVIOUS
  <2>2. [t EXCEPT !.st = "air", !.at = a] \in TaskState
    BY <2>1 DEF TaskState
  <2>3. [t EXCEPT !.left = @ \ {a}] \in TaskState
    BY <2>1 DEF TaskState
  <2>4. PICK u \in TaskState : TaskStep(r, g, u)
    BY <1>17, <2>2, <2>3, IdleTaskType DEF TaskPick
  <2>. QED BY <1>17, <2>4, TaskStepType DEF TaskPick
<1>18. ASSUME NEW r \in Recalls, NEW g \in Groups, TaskTransmit(r, g) PROVE TypeOK'
  <2>. DEFINE t == task[r][g]
  <2>1. t \in TaskState
    OBVIOUS
  <2>2. t.at \in Addr /\ TaskValue(r, t) \in Value
    BY <1>18, <2>1, ValueAssumption DEF TaskTransmit, TaskValue, TaskState, SendOK, LoopOK, TasksOK, TaskFits, Named, Settings
  <2>3. [t EXCEPT !.st = "sent"] \in TaskState
    BY <2>1 DEF TaskState
  <2>4. [t EXCEPT !.st = "run", !.left = @ \ {t.at}, !.at = None] \in TaskState
    BY <2>1 DEF TaskState
  <2>5. PICK u \in TaskState : TaskStep(r, g, u)
    BY <1>18, <2>3, <2>4 DEF TaskTransmit
  <2>6. desk' \in [Addr -> Value]
    <3>1. desk' = [desk EXCEPT ![t.at] = TaskValue(r, t)] \/ desk' = desk
      BY <1>18 DEF TaskTransmit
    <3>. QED BY <3>1, <2>2
  <2>7. drops' \in Nat
    BY <1>18 DEF TaskTransmit
  <2>. QED BY <1>18, <2>5, <2>6, <2>7, TaskStepType DEF TaskTransmit
<1>19. ASSUME NEW r \in Recalls, NEW g \in Groups, TaskReflect(r, g) PROVE TypeOK'
  <2>. DEFINE t == task[r][g]
  <2>1. t \in TaskState
    OBVIOUS
  <2>2. t.at \in Addr /\ TaskValue(r, t) \in Value
    BY <1>19, <2>1, ValueAssumption DEF TaskReflect, TaskValue, TaskState, SendOK, LoopOK, TasksOK, TaskFits, Named, Settings
  <2>3. [t EXCEPT !.st = "run", !.left = @ \ {t.at}, !.at = None] \in TaskState
    BY <2>1 DEF TaskState
  <2>4. PICK u \in TaskState : TaskStep(r, g, u)
    BY <1>19, <2>3 DEF TaskReflect
  <2>5. mirror' \in [Addr -> Value]
    BY <1>19, <2>2 DEF TaskReflect
  <2>. QED BY <1>19, <2>4, <2>5, TaskStepType DEF TaskReflect
<1>20. ASSUME NEW r \in Recalls, NEW g \in Groups, NextTick(r, g) PROVE TypeOK'
  <2>. DEFINE t == task[r][g]
  <2>1. t \in TaskState
    OBVIOUS
  <2>2. Targets(r, g) \cap Continuous \in SUBSET Addr
    BY DEF Targets, Named
  <2>3. [t EXCEPT !.phase = @ + 1, !.left = Targets(r, g) \cap Continuous] \in TaskState
    <3>. HIDE DEF TypeOK, t
    <3>1. [t EXCEPT !.phase = @ + 1] \in TaskState
      BY <2>1 DEF TaskState
    <3>. QED BY <2>2, <3>1 DEF TaskState
  <2>4. PICK u \in TaskState : TaskStep(r, g, u)
    BY <1>20, <2>3, IdleTaskType DEF NextTick
  <2>. QED BY <1>20, <2>4, TaskStepType DEF NextTick
<1>21. ASSUME NEW r \in Recalls, NEW g \in Groups, CloseTask(r, g) PROVE TypeOK'
  BY <1>21, TaskStepType, IdleTaskType DEF CloseTask
<1>22. ASSUME NEW r \in Recalls, Judge(r) PROVE TypeOK'
  BY <1>22, SettingsType DEF Judge, Outcome, Labels
<1>23. ASSUME NEW r \in Recalls, CommitCheck(r) PROVE TypeOK'
  BY <1>23 DEF CommitCheck, Labels
<1>24. ASSUME NEW r \in Recalls, CommitStore(r) PROVE TypeOK'
  BY <1>24, SettingsType, ResolvedType DEF CommitStore, Settings, Labels
<1>25. ASSUME NEW r \in Recalls, ClearPlan(r) PROVE TypeOK'
  BY <1>25, SettingsType DEF ClearPlan, PlanOfItsOwn, NoPlan, Labels
<1>26. ASSUME NEW r \in Recalls, StoreUndo(r) PROVE TypeOK'
  BY <1>26 DEF StoreUndo, Labels
<1>27. ASSUME NEW r \in Recalls, MarkLastRecalled(r) PROVE TypeOK'
  BY <1>27 DEF MarkLastRecalled, Labels
<1>28. ASSUME NEW r \in Recalls, Finish(r) PROVE TypeOK'
  BY <1>28 DEF Finish, MarkerExchanged, Labels
<1>29. ASSUME NEW r \in Recalls, Leave(r) PROVE TypeOK'
  BY <1>29, SettingsType DEF Leave, Outcome, Labels
<1>30. ASSUME NEW r \in Recalls, TakeUndo(r) PROVE TypeOK'
  BY <1>30, SettingsType DEF TakeUndo, NoPlan, NoUndo, Labels
<1>31. ASSUME NEW r \in Recalls, StartRevert(r) PROVE TypeOK'
  BY <1>31, ResolvedType DEF StartRevert, Labels
<1>32. ASSUME NEW a \in Addr, Move(a) PROVE TypeOK'
  BY <1>32, ValueAssumption DEF Move, Settings
<1>33. ASSUME NEW a \in Addr, Dispatch(a) PROVE TypeOK'
  BY <1>33 DEF Dispatch, Overridden, Settings
<1>34. CASE UNCHANGED vars
  BY <1>34 DEF vars
<1>35. CASE LoadOver
  BY <1>35 DEF LoadOver
<1>. QED BY <1>1, <1>2, <1>3, <1>4, <1>5, <1>6, <1>7, <1>8, <1>9, <1>10, <1>11, <1>12, <1>13, <1>14, <1>15, <1>16, <1>17, <1>18, <1>19, <1>20, <1>21, <1>22, <1>23, <1>24, <1>25, <1>26, <1>27, <1>28, <1>29, <1>30, <1>31, <1>32, <1>33, <1>34, <1>35 DEF Next, Process, Gated, Tasks, Tail_, Undoing, Terminated

-----------------------------------------------------------------------------
\* The steps of sends and tasks, and the desk's, leave the control state alone.
control == <<epoch, token, cancelled, gate, queue, inFlight, pc, ep>>

\* Which actions change the control state, for the lemmas about it.
LEMMA NextControl ==
  ASSUME [Next]_vars
  PROVE  \/ \E r \in Recalls :
              \/ Claim(r) \/ Enqueue(r) \/ Enter(r) \/ LeaveSuperseded(r)
              \/ MarkInFlight(r) \/ FireMemory(r) \/ ForgetPalettes(r) \/ Settle(r)
              \/ LeaveRowOnly(r) \/ Resolve(r) \/ StartOwn(r) \/ Spawn(r) \/ Judge(r)
              \/ CommitCheck(r) \/ CommitStore(r) \/ ClearPlan(r) \/ StoreUndo(r)
              \/ MarkLastRecalled(r) \/ Finish(r) \/ Leave(r) \/ TakeUndo(r)
              \/ StartRevert(r)
         \/ UNCHANGED control
<1>. USE DEF control, shared, locals, world
<1>1. ASSUME NEW r \in Recalls, NEW a \in Addr, Pick(r, a)
      PROVE  UNCHANGED control
  BY <1>1 DEF Pick
<1>2. ASSUME NEW a \in Addr, Move(a) \/ Dispatch(a)
      PROVE  UNCHANGED control
  BY <1>2 DEF Move, Dispatch, Overridden
<1>5. CASE LoadOver
  BY <1>5 DEF LoadOver
<1>3. ASSUME NEW r \in Recalls, Transmit(r) \/ Reflect(r) \/ Tasks(r)
      PROVE  UNCHANGED control
  BY <1>3 DEF Transmit, Reflect, Tasks, PreWaitOver, TaskPick, TaskTransmit,
              TaskReflect, NextTick, CloseTask, TaskStep
<1>4. CASE UNCHANGED vars
  BY <1>4 DEF vars
<1>. HIDE DEF control
<1>. QED BY <1>1, <1>2, <1>3, <1>4, <1>5
         DEF Next, Process, Gated, Tail_, Undoing, Terminated

\* Every call stays on the path of its kind.
LEMMA PathNext == TypeOK /\ PathOK /\ [Next]_vars => PathOK'
<1>. SUFFICES ASSUME TypeOK, PathOK, [Next]_vars PROVE PathOK'
  OBVIOUS
<1>. USE DEF TypeOK, PathOK, shared, locals, world, Goto, HasSnapshot, HasRow, Sent
<1>1. ASSUME NEW r \in Recalls, Claim(r) PROVE PathOK'
  BY <1>1 DEF Claim
<1>2. ASSUME NEW r \in Recalls, Enqueue(r) PROVE PathOK'
  BY <1>2 DEF Enqueue
<1>3. ASSUME NEW r \in Recalls, Enter(r) PROVE PathOK'
  BY <1>3, KindAssumption DEF Enter, Kinds
<1>4. ASSUME NEW r \in Recalls, LeaveSuperseded(r) PROVE PathOK'
  BY <1>4 DEF LeaveSuperseded
<1>5. ASSUME NEW r \in Recalls, MarkInFlight(r) PROVE PathOK'
  BY <1>5 DEF MarkInFlight
<1>6. ASSUME NEW r \in Recalls, FireMemory(r) PROVE PathOK'
  <2>1. /\ pc[r] = "fire"
        /\ \/ Goto(r, "forget")
           \/ Goto(r, IF Kind[r] = "rowonly" THEN "rowdone" ELSE "resolve")
    BY <1>6 DEF FireMemory
  <2>. QED BY <2>1
<1>7. ASSUME NEW r \in Recalls, ForgetPalettes(r) PROVE PathOK'
  BY <1>7 DEF ForgetPalettes
<1>8. ASSUME NEW r \in Recalls, Settle(r) PROVE PathOK'
  BY <1>8 DEF Settle
<1>9. ASSUME NEW r \in Recalls, LeaveRowOnly(r) PROVE PathOK'
  BY <1>9 DEF LeaveRowOnly
<1>10. ASSUME NEW r \in Recalls, Resolve(r) PROVE PathOK'
  BY <1>10 DEF Resolve
<1>11. ASSUME NEW r \in Recalls, StartOwn(r) PROVE PathOK'
  BY <1>11 DEF StartOwn
<1>12. ASSUME NEW r \in Recalls, Spawn(r) PROVE PathOK'
  BY <1>12 DEF Spawn
<1>13. ASSUME NEW r \in Recalls, Judge(r) PROVE PathOK'
  BY <1>13 DEF Judge
<1>14. ASSUME NEW r \in Recalls, CommitCheck(r) PROVE PathOK'
  BY <1>14 DEF CommitCheck
<1>15. ASSUME NEW r \in Recalls, CommitStore(r) PROVE PathOK'
  BY <1>15 DEF CommitStore
<1>16. ASSUME NEW r \in Recalls, ClearPlan(r) PROVE PathOK'
  BY <1>16 DEF ClearPlan
<1>17. ASSUME NEW r \in Recalls, StoreUndo(r) PROVE PathOK'
  BY <1>17 DEF StoreUndo
<1>18. ASSUME NEW r \in Recalls, MarkLastRecalled(r) PROVE PathOK'
  BY <1>18 DEF MarkLastRecalled
<1>19. ASSUME NEW r \in Recalls, Finish(r) PROVE PathOK'
  BY <1>19 DEF Finish
<1>20. ASSUME NEW r \in Recalls, Leave(r) PROVE PathOK'
  BY <1>20 DEF Leave
<1>21. ASSUME NEW r \in Recalls, TakeUndo(r) PROVE PathOK'
  BY <1>21 DEF TakeUndo
<1>22. ASSUME NEW r \in Recalls, StartRevert(r) PROVE PathOK'
  BY <1>22 DEF StartRevert
<1>23. ASSUME UNCHANGED control PROVE PathOK'
  BY <1>23 DEF control
<1>. HIDE DEF TypeOK, PathOK
<1>. QED BY NextControl, <1>1, <1>2, <1>3, <1>4, <1>5, <1>6, <1>7, <1>8, <1>9, <1>10, <1>11, <1>12, <1>13, <1>14, <1>15, <1>16, <1>17, <1>18, <1>19, <1>20, <1>21, <1>22, <1>23

\* Each exit of the gated phase gives the gate back, and only the holder moves
\* inside it.
LEMMA GateNext == TypeOK /\ PathOK /\ GateExclusion /\ [Next]_vars => GateExclusion'
<1>. SUFFICES ASSUME TypeOK, PathOK, GateExclusion, [Next]_vars PROVE GateExclusion'
  OBVIOUS
<1>. USE DEF TypeOK, PathOK, GateExclusion, Bracket, shared, locals, world, Goto, ReleaseGate, HasSnapshot, HasRow, GateOpen, Sent
<1>1. ASSUME NEW r \in Recalls, Claim(r) PROVE GateExclusion'
  BY <1>1 DEF Claim
<1>2. ASSUME NEW r \in Recalls, Enqueue(r) PROVE GateExclusion'
  BY <1>2 DEF Enqueue
<1>3. ASSUME NEW r \in Recalls, Enter(r) PROVE GateExclusion'
  BY <1>3, NoOneAssumption DEF Enter
<1>4. ASSUME NEW r \in Recalls, LeaveSuperseded(r) PROVE GateExclusion'
  BY <1>4, NoOneAssumption DEF LeaveSuperseded
<1>5. ASSUME NEW r \in Recalls, MarkInFlight(r) PROVE GateExclusion'
  BY <1>5 DEF MarkInFlight
<1>6. ASSUME NEW r \in Recalls, FireMemory(r) PROVE GateExclusion'
  BY <1>6 DEF FireMemory
<1>7. ASSUME NEW r \in Recalls, ForgetPalettes(r) PROVE GateExclusion'
  BY <1>7 DEF ForgetPalettes
<1>8. ASSUME NEW r \in Recalls, Settle(r) PROVE GateExclusion'
  BY <1>8 DEF Settle
<1>9. ASSUME NEW r \in Recalls, LeaveRowOnly(r) PROVE GateExclusion'
  BY <1>9, NoOneAssumption DEF LeaveRowOnly
<1>10. ASSUME NEW r \in Recalls, Resolve(r) PROVE GateExclusion'
  BY <1>10 DEF Resolve
<1>11. ASSUME NEW r \in Recalls, StartOwn(r) PROVE GateExclusion'
  BY <1>11 DEF StartOwn
<1>12. ASSUME NEW r \in Recalls, Spawn(r) PROVE GateExclusion'
  BY <1>12, NoOneAssumption DEF Spawn
<1>13. ASSUME NEW r \in Recalls, Judge(r) PROVE GateExclusion'
  BY <1>13 DEF Judge
<1>14. ASSUME NEW r \in Recalls, CommitCheck(r) PROVE GateExclusion'
  BY <1>14 DEF CommitCheck
<1>15. ASSUME NEW r \in Recalls, CommitStore(r) PROVE GateExclusion'
  BY <1>15 DEF CommitStore
<1>16. ASSUME NEW r \in Recalls, ClearPlan(r) PROVE GateExclusion'
  BY <1>16 DEF ClearPlan
<1>17. ASSUME NEW r \in Recalls, StoreUndo(r) PROVE GateExclusion'
  BY <1>17, NoOneAssumption DEF StoreUndo
<1>18. ASSUME NEW r \in Recalls, MarkLastRecalled(r) PROVE GateExclusion'
  BY <1>18 DEF MarkLastRecalled
<1>19. ASSUME NEW r \in Recalls, Finish(r) PROVE GateExclusion'
  BY <1>19 DEF Finish
<1>20. ASSUME NEW r \in Recalls, Leave(r) PROVE GateExclusion'
  BY <1>20, NoOneAssumption DEF Leave
<1>21. ASSUME NEW r \in Recalls, TakeUndo(r) PROVE GateExclusion'
  <2>1. /\ pc[r] = "take"
        /\ \/ gate' = NoOne /\ pc' = [pc EXCEPT ![r] = "done"]
           \/ gate' = gate /\ pc' = [pc EXCEPT ![r] = "undoing"]
    BY <1>21 DEF TakeUndo
  <2>2. pc \in [Recalls -> Labels] /\ gate = r
    BY <2>1
  <2>. HIDE DEF TypeOK, PathOK
  <2>. QED BY <2>1, <2>2, NoOneAssumption
<1>22. ASSUME NEW r \in Recalls, StartRevert(r) PROVE GateExclusion'
  BY <1>22 DEF StartRevert
<1>23. ASSUME UNCHANGED control PROVE GateExclusion'
  BY <1>23 DEF control
<1>. HIDE DEF TypeOK, PathOK, GateExclusion
<1>. QED BY NextControl, <1>1, <1>2, <1>3, <1>4, <1>5, <1>6, <1>7, <1>8, <1>9, <1>10, <1>11, <1>12, <1>13, <1>14, <1>15, <1>16, <1>17, <1>18, <1>19, <1>20, <1>21, <1>22, <1>23

\* A claim gives a new epoch and cancels exactly the recalls before it.
LEMMA ClaimNext == TypeOK /\ PathOK /\ ClaimOK /\ LatestWins /\ [Next]_vars => (ClaimOK /\ LatestWins)'
<1>. SUFFICES ASSUME TypeOK, PathOK, ClaimOK, LatestWins, [Next]_vars PROVE (ClaimOK /\ LatestWins)'
  OBVIOUS
<1>. USE DEF TypeOK, PathOK, ClaimOK, LatestWins, IsCancelled, Goto, shared, locals, world, Sent
<1>1. ASSUME NEW r \in Recalls, Claim(r) PROVE (ClaimOK /\ LatestWins)'
  <2>1. /\ Kind[r] # "revert" /\ pc[r] = "idle" /\ ep[r] = 0 /\ r \notin cancelled
        /\ epoch' = epoch + 1 /\ token' = r
        /\ ep' = [ep EXCEPT ![r] = epoch + 1]
        /\ pc' = [pc EXCEPT ![r] = "claimed"]
    BY <1>1 DEF Claim
  <2>2. token # r
    BY <2>1, NoOneAssumption
  <2>3. cancelled' = cancelled \cup ({token} \ {NoOne})
    BY <1>1 DEF Claim, Superseding
  <2>4. \A q \in Recalls : q \in cancelled' <=> q \in cancelled \/ q = token
    BY <2>3, NoOneAssumption
  <2>5. ASSUME NEW q \in Recalls, q # r, ep[q] # 0
        PROVE  q \in cancelled' /\ ep[q] <= epoch
    BY <2>4, <2>5, NoOneAssumption
  <2>6. r \notin cancelled'
    BY <2>1, <2>2, <2>4
  <2>7. ClaimOK'
    <3>1. ASSUME NEW q \in Recalls, ep'[q] = 0 PROVE q \notin cancelled'
      BY <2>1, <2>4, <3>1, NoOneAssumption
    <3>. QED BY <2>1, <3>1, NoOneAssumption
  <2>8. LatestWins'
    <3>1. ep \in [Recalls -> Nat] /\ epoch \in Nat
      OBVIOUS
    <3>2. \A q, p \in Recalls : ep[q] # 0 /\ p # q => ep[p] # ep[q]
      OBVIOUS
    <3>. HIDE DEF TypeOK, PathOK, ClaimOK
    <3>3. ASSUME NEW q \in Recalls, q # r, ep'[q] # 0
          PROVE  /\ ep'[q] <= epoch' /\ (q \in cancelled' <=> ep'[q] < epoch')
                 /\ \A p \in Recalls \ {q} : ep'[p] # ep'[q]
      BY <2>1, <2>5, <3>1, <3>2, <3>3
    <3>4. /\ ep'[r] <= epoch' /\ (r \in cancelled' <=> ep'[r] < epoch')
          /\ \A p \in Recalls \ {r} : ep'[p] # ep'[r]
      BY <2>1, <2>5, <2>6, <3>1
    <3>. QED BY <3>3, <3>4
  <2>. QED BY <2>7, <2>8
<1>2. ASSUME NEW r \in Recalls, Enqueue(r) PROVE (ClaimOK /\ LatestWins)'
  BY <1>2 DEF Enqueue
<1>3. ASSUME NEW r \in Recalls, Enter(r) PROVE (ClaimOK /\ LatestWins)'
  BY <1>3 DEF Enter
<1>4. ASSUME NEW r \in Recalls, LeaveSuperseded(r) PROVE (ClaimOK /\ LatestWins)'
  BY <1>4 DEF LeaveSuperseded
<1>5. ASSUME NEW r \in Recalls, MarkInFlight(r) PROVE (ClaimOK /\ LatestWins)'
  BY <1>5 DEF MarkInFlight
<1>6. ASSUME NEW r \in Recalls, FireMemory(r) PROVE (ClaimOK /\ LatestWins)'
  BY <1>6 DEF FireMemory
<1>7. ASSUME NEW r \in Recalls, ForgetPalettes(r) PROVE (ClaimOK /\ LatestWins)'
  BY <1>7 DEF ForgetPalettes
<1>8. ASSUME NEW r \in Recalls, Settle(r) PROVE (ClaimOK /\ LatestWins)'
  BY <1>8 DEF Settle
<1>9. ASSUME NEW r \in Recalls, LeaveRowOnly(r) PROVE (ClaimOK /\ LatestWins)'
  BY <1>9 DEF LeaveRowOnly
<1>10. ASSUME NEW r \in Recalls, Resolve(r) PROVE (ClaimOK /\ LatestWins)'
  BY <1>10 DEF Resolve
<1>11. ASSUME NEW r \in Recalls, StartOwn(r) PROVE (ClaimOK /\ LatestWins)'
  BY <1>11 DEF StartOwn
<1>12. ASSUME NEW r \in Recalls, Spawn(r) PROVE (ClaimOK /\ LatestWins)'
  BY <1>12 DEF Spawn
<1>13. ASSUME NEW r \in Recalls, Judge(r) PROVE (ClaimOK /\ LatestWins)'
  BY <1>13 DEF Judge
<1>14. ASSUME NEW r \in Recalls, CommitCheck(r) PROVE (ClaimOK /\ LatestWins)'
  BY <1>14 DEF CommitCheck
<1>15. ASSUME NEW r \in Recalls, CommitStore(r) PROVE (ClaimOK /\ LatestWins)'
  BY <1>15 DEF CommitStore
<1>16. ASSUME NEW r \in Recalls, ClearPlan(r) PROVE (ClaimOK /\ LatestWins)'
  BY <1>16 DEF ClearPlan
<1>17. ASSUME NEW r \in Recalls, StoreUndo(r) PROVE (ClaimOK /\ LatestWins)'
  BY <1>17 DEF StoreUndo
<1>18. ASSUME NEW r \in Recalls, MarkLastRecalled(r) PROVE (ClaimOK /\ LatestWins)'
  BY <1>18 DEF MarkLastRecalled
<1>19. ASSUME NEW r \in Recalls, Finish(r) PROVE (ClaimOK /\ LatestWins)'
  BY <1>19 DEF Finish
<1>20. ASSUME NEW r \in Recalls, Leave(r) PROVE (ClaimOK /\ LatestWins)'
  BY <1>20 DEF Leave
<1>21. ASSUME NEW r \in Recalls, TakeUndo(r) PROVE (ClaimOK /\ LatestWins)'
  BY <1>21 DEF TakeUndo
<1>22. ASSUME NEW r \in Recalls, StartRevert(r) PROVE (ClaimOK /\ LatestWins)'
  BY <1>22 DEF StartRevert
<1>23. ASSUME UNCHANGED control PROVE (ClaimOK /\ LatestWins)'
  BY <1>23 DEF control
<1>. HIDE DEF TypeOK, PathOK, ClaimOK, LatestWins
<1>. QED BY NextControl, <1>1, <1>2, <1>3, <1>4, <1>5, <1>6, <1>7, <1>8, <1>9, <1>10, <1>11, <1>12, <1>13, <1>14, <1>15, <1>16, <1>17, <1>18, <1>19, <1>20, <1>21, <1>22, <1>23

\* A newer call cannot have passed the gate that an older one holds.
LEMMA EnteredNext == TypeOK /\ GateExclusion /\ ClaimOK /\ LatestWins /\ EnteredFirst /\ [Next]_vars => EnteredFirst'
<1>. SUFFICES ASSUME TypeOK, GateExclusion, ClaimOK, LatestWins, EnteredFirst, [Next]_vars PROVE EnteredFirst'
  OBVIOUS
<1>. USE DEF TypeOK, GateExclusion, Bracket, LatestWins, EnteredFirst, IsCancelled, Goto, shared, locals, world, Sent
<1>1. ASSUME NEW r \in Recalls, Claim(r) PROVE EnteredFirst'
  BY <1>1 DEF Claim
<1>2. ASSUME NEW r \in Recalls, Enqueue(r) PROVE EnteredFirst'
  BY <1>2 DEF Enqueue
<1>3. ASSUME NEW r \in Recalls, Enter(r) PROVE EnteredFirst'
  <2>1. /\ gate = NoOne /\ UNCHANGED <<ep, epoch, cancelled>>
        /\ \E l \in Labels :
             /\ pc' = [pc EXCEPT ![r] = l]
             /\ l = "entered" => ~IsCancelled(r) /\ Kind[r] # "revert"
    BY <1>3 DEF Enter, GateOpen, Labels
  <2>2. \A q \in Recalls : pc[q] # "entered"
    BY <2>1, NoOneAssumption
  <2>3. ASSUME ~IsCancelled(r), Kind[r] # "revert", NEW q \in Recalls
        PROVE  ~(ep[q] > ep[r])
    <3>1. ep[r] # 0
      BY <1>3, <2>3 DEF Enter, ClaimOK
    <3>2. ep[r] <= epoch /\ ~(ep[r] < epoch)
      BY <2>3, <3>1
    <3>3. ep[q] <= epoch \/ ep[q] = 0
      OBVIOUS
    <3>. QED BY <3>2, <3>3
  <2>. QED BY <2>1, <2>2, <2>3
<1>4. ASSUME NEW r \in Recalls, LeaveSuperseded(r) PROVE EnteredFirst'
  BY <1>4 DEF LeaveSuperseded
<1>5. ASSUME NEW r \in Recalls, MarkInFlight(r) PROVE EnteredFirst'
  BY <1>5 DEF MarkInFlight
<1>6. ASSUME NEW r \in Recalls, FireMemory(r) PROVE EnteredFirst'
  <2>1. /\ pc[r] = "fire" /\ UNCHANGED ep
        /\ \E l \in Labels \ {"entered"} : pc' = [pc EXCEPT ![r] = l]
    BY <1>6 DEF FireMemory, Labels
  <2>. HIDE DEF GateExclusion, Bracket, LatestWins, ClaimOK
  <2>. QED BY <2>1
<1>7. ASSUME NEW r \in Recalls, ForgetPalettes(r) PROVE EnteredFirst'
  BY <1>7 DEF ForgetPalettes
<1>8. ASSUME NEW r \in Recalls, Settle(r) PROVE EnteredFirst'
  BY <1>8 DEF Settle
<1>9. ASSUME NEW r \in Recalls, LeaveRowOnly(r) PROVE EnteredFirst'
  BY <1>9 DEF LeaveRowOnly
<1>10. ASSUME NEW r \in Recalls, Resolve(r) PROVE EnteredFirst'
  BY <1>10 DEF Resolve
<1>11. ASSUME NEW r \in Recalls, StartOwn(r) PROVE EnteredFirst'
  BY <1>11 DEF StartOwn
<1>12. ASSUME NEW r \in Recalls, Spawn(r) PROVE EnteredFirst'
  BY <1>12 DEF Spawn
<1>13. ASSUME NEW r \in Recalls, Judge(r) PROVE EnteredFirst'
  BY <1>13 DEF Judge
<1>14. ASSUME NEW r \in Recalls, CommitCheck(r) PROVE EnteredFirst'
  BY <1>14 DEF CommitCheck
<1>15. ASSUME NEW r \in Recalls, CommitStore(r) PROVE EnteredFirst'
  BY <1>15 DEF CommitStore
<1>16. ASSUME NEW r \in Recalls, ClearPlan(r) PROVE EnteredFirst'
  BY <1>16 DEF ClearPlan
<1>17. ASSUME NEW r \in Recalls, StoreUndo(r) PROVE EnteredFirst'
  BY <1>17 DEF StoreUndo
<1>18. ASSUME NEW r \in Recalls, MarkLastRecalled(r) PROVE EnteredFirst'
  BY <1>18 DEF MarkLastRecalled
<1>19. ASSUME NEW r \in Recalls, Finish(r) PROVE EnteredFirst'
  BY <1>19 DEF Finish
<1>20. ASSUME NEW r \in Recalls, Leave(r) PROVE EnteredFirst'
  BY <1>20 DEF Leave
<1>21. ASSUME NEW r \in Recalls, TakeUndo(r) PROVE EnteredFirst'
  <2>1. /\ pc[r] = "take" /\ UNCHANGED ep
        /\ \/ pc' = [pc EXCEPT ![r] = "done"]
           \/ pc' = [pc EXCEPT ![r] = "undoing"]
    BY <1>21 DEF TakeUndo
  <2>2. pc \in [Recalls -> Labels]
    OBVIOUS
  <2>. HIDE DEF TypeOK, GateExclusion, ClaimOK, LatestWins
  <2>. QED BY <2>1, <2>2
<1>22. ASSUME NEW r \in Recalls, StartRevert(r) PROVE EnteredFirst'
  BY <1>22 DEF StartRevert
<1>23. ASSUME UNCHANGED control PROVE EnteredFirst'
  BY <1>23 DEF control
<1>. HIDE DEF TypeOK, GateExclusion, LatestWins, EnteredFirst
<1>. QED BY NextControl, <1>1, <1>2, <1>3, <1>4, <1>5, <1>6, <1>7, <1>8, <1>9, <1>10, <1>11, <1>12, <1>13, <1>14, <1>15, <1>16, <1>17, <1>18, <1>19, <1>20, <1>21, <1>22, <1>23

\* The marker is taken by an older recall only before a newer one has it, and
\* cleared by no other recall.
LEMMA MarkerNext == TypeOK /\ PathOK /\ ClaimOK /\ LatestWins /\ EnteredFirst /\ InFlightTruth /\ [Next]_vars => InFlightTruth'
<1>. SUFFICES ASSUME TypeOK, PathOK, ClaimOK, LatestWins, EnteredFirst, InFlightTruth, [Next]_vars PROVE InFlightTruth'
  OBVIOUS
<1>. USE DEF TypeOK, PathOK, ClaimOK, LatestWins, EnteredFirst, InFlightTruth, Marked, IsCancelled, HasSnapshot, Goto, shared, locals, world, Sent
<1>1. ASSUME NEW r \in Recalls, Claim(r) PROVE InFlightTruth'
  <2>1. /\ pc[r] = "idle" /\ pc' = [pc EXCEPT ![r] = "claimed"]
        /\ ep' = [ep EXCEPT ![r] = epoch + 1]
        /\ cancelled \subseteq cancelled' /\ UNCHANGED inFlight
    BY <1>1 DEF Claim, Superseding
  <2>. QED BY <2>1
<1>2. ASSUME NEW r \in Recalls, Enqueue(r) PROVE InFlightTruth'
  BY <1>2 DEF Enqueue
<1>3. ASSUME NEW r \in Recalls, Enter(r) PROVE InFlightTruth'
  BY <1>3 DEF Enter
<1>4. ASSUME NEW r \in Recalls, LeaveSuperseded(r) PROVE InFlightTruth'
  BY <1>4 DEF LeaveSuperseded
<1>5. ASSUME NEW r \in Recalls, MarkInFlight(r) PROVE InFlightTruth'
  <2>1. /\ pc[r] = "entered" /\ inFlight' = ep[r] /\ UNCHANGED <<ep, cancelled>>
        /\ \A q \in Recalls \ {r} : pc'[q] = pc[q]
    BY <1>5 DEF MarkInFlight
  <2>2. Kind[r] # "revert" /\ ep[r] # 0
    BY <2>1
  <2>3. ASSUME NEW q \in Recalls \ {r}, pc[q] \in Marked, ~IsCancelled(q) PROVE FALSE
    <3>1. Kind[q] # "revert" /\ ep[q] # 0
      BY <2>3
    <3>2. ep[q] = epoch
      BY <2>3, <3>1
    <3>3. ep[r] <= epoch /\ ep[q] # ep[r]
      BY <2>2, <2>3
    <3>4. ep[q] > ep[r]
      BY <3>2, <3>3
    <3>. QED BY <2>1, <2>3, <3>4
  <2>. QED BY <2>1, <2>3
<1>6. ASSUME NEW r \in Recalls, FireMemory(r) PROVE InFlightTruth'
  BY <1>6 DEF FireMemory
<1>7. ASSUME NEW r \in Recalls, ForgetPalettes(r) PROVE InFlightTruth'
  BY <1>7 DEF ForgetPalettes
<1>8. ASSUME NEW r \in Recalls, Settle(r) PROVE InFlightTruth'
  BY <1>8 DEF Settle
<1>9. ASSUME NEW r \in Recalls, LeaveRowOnly(r) PROVE InFlightTruth'
  BY <1>9 DEF LeaveRowOnly
<1>10. ASSUME NEW r \in Recalls, Resolve(r) PROVE InFlightTruth'
  BY <1>10 DEF Resolve
<1>11. ASSUME NEW r \in Recalls, StartOwn(r) PROVE InFlightTruth'
  BY <1>11 DEF StartOwn
<1>12. ASSUME NEW r \in Recalls, Spawn(r) PROVE InFlightTruth'
  BY <1>12 DEF Spawn
<1>13. ASSUME NEW r \in Recalls, Judge(r) PROVE InFlightTruth'
  BY <1>13 DEF Judge
<1>14. ASSUME NEW r \in Recalls, CommitCheck(r) PROVE InFlightTruth'
  BY <1>14 DEF CommitCheck
<1>15. ASSUME NEW r \in Recalls, CommitStore(r) PROVE InFlightTruth'
  BY <1>15 DEF CommitStore
<1>16. ASSUME NEW r \in Recalls, ClearPlan(r) PROVE InFlightTruth'
  BY <1>16 DEF ClearPlan
<1>17. ASSUME NEW r \in Recalls, StoreUndo(r) PROVE InFlightTruth'
  BY <1>17 DEF StoreUndo
<1>18. ASSUME NEW r \in Recalls, MarkLastRecalled(r) PROVE InFlightTruth'
  BY <1>18 DEF MarkLastRecalled
<1>19. ASSUME NEW r \in Recalls, Finish(r) PROVE InFlightTruth'
  BY <1>19 DEF Finish, MarkerExchanged
<1>20. ASSUME NEW r \in Recalls, Leave(r) PROVE InFlightTruth'
  BY <1>20 DEF Leave
<1>21. ASSUME NEW r \in Recalls, TakeUndo(r) PROVE InFlightTruth'
  BY <1>21 DEF TakeUndo
<1>22. ASSUME NEW r \in Recalls, StartRevert(r) PROVE InFlightTruth'
  BY <1>22 DEF StartRevert
<1>23. ASSUME UNCHANGED control PROVE InFlightTruth'
  BY <1>23 DEF control
<1>. HIDE DEF TypeOK, PathOK, ClaimOK, LatestWins, EnteredFirst, InFlightTruth
<1>. QED BY NextControl, <1>1, <1>2, <1>3, <1>4, <1>5, <1>6, <1>7, <1>8, <1>9, <1>10, <1>11, <1>12, <1>13, <1>14, <1>15, <1>16, <1>17, <1>18, <1>19, <1>20, <1>21, <1>22, <1>23

\* A send in progress keeps its value: what a loop sends changes only between
\* two of its sends.
LEMMA LoopNext == TypeOK /\ LoopOK /\ [Next]_vars => LoopOK'
<1>. SUFFICES ASSUME TypeOK, LoopOK, [Next]_vars PROVE LoopOK'
  OBVIOUS
<1>. USE DEF TypeOK, LoopOK, Sending, LoopOver, Goto, shared, locals, world
<1>1. ASSUME NEW r \in Recalls, Claim(r) PROVE LoopOK'
  BY <1>1 DEF Claim
<1>2. ASSUME NEW r \in Recalls, Enqueue(r) PROVE LoopOK'
  BY <1>2 DEF Enqueue
<1>3. ASSUME NEW r \in Recalls, Enter(r) PROVE LoopOK'
  BY <1>3 DEF Enter
<1>4. ASSUME NEW r \in Recalls, LeaveSuperseded(r) PROVE LoopOK'
  BY <1>4 DEF LeaveSuperseded
<1>5. ASSUME NEW r \in Recalls, MarkInFlight(r) PROVE LoopOK'
  BY <1>5 DEF MarkInFlight
<1>6. ASSUME NEW r \in Recalls, FireMemory(r) PROVE LoopOK'
  BY <1>6 DEF FireMemory
<1>7. ASSUME NEW r \in Recalls, ForgetPalettes(r) PROVE LoopOK'
  BY <1>7 DEF ForgetPalettes
<1>8. ASSUME NEW r \in Recalls, Settle(r) PROVE LoopOK'
  BY <1>8 DEF Settle
<1>9. ASSUME NEW r \in Recalls, LeaveRowOnly(r) PROVE LoopOK'
  BY <1>9 DEF LeaveRowOnly
<1>10. ASSUME NEW r \in Recalls, Resolve(r) PROVE LoopOK'
  BY <1>10 DEF Resolve
<1>11. ASSUME NEW r \in Recalls, Transmit(r) PROVE LoopOK'
  <2>1. cur[r] \in [at : Addr, st : {"air", "sent"}] /\ UNCHANGED pc
    BY <1>11 DEF Transmit, Cursor
  <2>2. \/ /\ cur' = [cur EXCEPT ![r] = [cur[r] EXCEPT !.st = "sent"]]
           /\ UNCHANGED todo
        \/ /\ cur' = [cur EXCEPT ![r] = None]
           /\ todo' = [todo EXCEPT ![r] = [todo[r] EXCEPT ![cur[r].at] = None]]
    BY <1>11 DEF Transmit
  <2>3. cur[r] # None /\ [cur[r] EXCEPT !.st = "sent"].at = cur[r].at
    BY <1>11, <2>1 DEF Transmit
  <2>4. cur \in [Recalls -> Cursor] /\ todo \in [Recalls -> Settings]
    OBVIOUS
  <2>. HIDE DEF TypeOK
  <2>. QED BY <2>1, <2>2, <2>3, <2>4
<1>12. ASSUME NEW r \in Recalls, Reflect(r) PROVE LoopOK'
  BY <1>12 DEF Reflect
<1>13. ASSUME NEW r \in Recalls, StartOwn(r) PROVE LoopOK'
  BY <1>13 DEF StartOwn
<1>14. ASSUME NEW r \in Recalls, Spawn(r) PROVE LoopOK'
  BY <1>14 DEF Spawn
<1>15. ASSUME NEW r \in Recalls, Judge(r) PROVE LoopOK'
  BY <1>15 DEF Judge, Sent
<1>16. ASSUME NEW r \in Recalls, CommitCheck(r) PROVE LoopOK'
  BY <1>16 DEF CommitCheck
<1>17. ASSUME NEW r \in Recalls, CommitStore(r) PROVE LoopOK'
  BY <1>17 DEF CommitStore
<1>18. ASSUME NEW r \in Recalls, ClearPlan(r) PROVE LoopOK'
  BY <1>18 DEF ClearPlan
<1>19. ASSUME NEW r \in Recalls, StoreUndo(r) PROVE LoopOK'
  BY <1>19 DEF StoreUndo
<1>20. ASSUME NEW r \in Recalls, MarkLastRecalled(r) PROVE LoopOK'
  BY <1>20 DEF MarkLastRecalled
<1>21. ASSUME NEW r \in Recalls, Finish(r) PROVE LoopOK'
  BY <1>21 DEF Finish
<1>22. ASSUME NEW r \in Recalls, Leave(r) PROVE LoopOK'
  BY <1>22 DEF Leave
<1>23. ASSUME NEW r \in Recalls, TakeUndo(r) PROVE LoopOK'
  BY <1>23 DEF TakeUndo
<1>24. ASSUME NEW r \in Recalls, StartRevert(r) PROVE LoopOK'
  BY <1>24 DEF StartRevert
<1>25. ASSUME NEW r \in Recalls, NEW a \in Addr, Pick(r, a) PROVE LoopOK'
  BY <1>25 DEF Pick
<1>26. ASSUME NEW r \in Recalls, NEW g \in Groups, NEW a \in Addr, TaskPick(r, g, a) PROVE LoopOK'
  BY <1>26 DEF TaskPick, TaskStep
<1>27. ASSUME NEW r \in Recalls, NEW g \in Groups, PreWaitOver(r, g) PROVE LoopOK'
  BY <1>27 DEF PreWaitOver, TaskStep
<1>28. ASSUME NEW r \in Recalls, NEW g \in Groups, TaskTransmit(r, g) PROVE LoopOK'
  BY <1>28 DEF TaskTransmit, TaskStep
<1>29. ASSUME NEW r \in Recalls, NEW g \in Groups, TaskReflect(r, g) PROVE LoopOK'
  BY <1>29 DEF TaskReflect, TaskStep
<1>30. ASSUME NEW r \in Recalls, NEW g \in Groups, NextTick(r, g) PROVE LoopOK'
  BY <1>30 DEF NextTick, TaskStep
<1>31. ASSUME NEW r \in Recalls, NEW g \in Groups, CloseTask(r, g) PROVE LoopOK'
  BY <1>31 DEF CloseTask, TaskStep
<1>32. ASSUME NEW a \in Addr, Move(a) PROVE LoopOK'
  BY <1>32 DEF Move
<1>33. ASSUME NEW a \in Addr, Dispatch(a) PROVE LoopOK'
  BY <1>33 DEF Dispatch, Overridden
<1>34. CASE UNCHANGED vars
  BY <1>34 DEF vars
<1>35. CASE LoadOver
  BY <1>35 DEF LoadOver
<1>. HIDE DEF TypeOK, LoopOK
<1>. QED BY <1>1, <1>2, <1>3, <1>4, <1>5, <1>6, <1>7, <1>8, <1>9, <1>10, <1>11, <1>12, <1>13, <1>14, <1>15, <1>16, <1>17, <1>18, <1>19, <1>20, <1>21, <1>22, <1>23, <1>24, <1>25, <1>26, <1>27, <1>28, <1>29, <1>30, <1>31, <1>32, <1>33, <1>34, <1>35
         DEF Next, Process, Gated, Tasks, Tail_, Undoing, Terminated

\* A step of a task leaves the other tasks, and what their recalls resolved, alone.
LEMMA TaskStepFits ==
  ASSUME TypeOK, TasksOK, NEW r \in Recalls, NEW g \in Groups,
         NEW t \in TaskState, TaskStep(r, g, t), TaskFits(r, t)
  PROVE  TasksOK'
  BY DEF TypeOK, TasksOK, TaskStep, TaskFits

\* A task keeps to what its recall resolved, which does not change while it runs.
LEMMA TasksNext == TypeOK /\ TasksOK /\ [Next]_vars => TasksOK'
<1>. SUFFICES ASSUME TypeOK, TasksOK, [Next]_vars PROVE TasksOK'
  OBVIOUS
<1>. USE DEF TypeOK, TasksOK, TaskFits, Goto, shared, locals, world
<1>1. ASSUME NEW r \in Recalls, Claim(r) PROVE TasksOK'
  BY <1>1 DEF Claim
<1>2. ASSUME NEW r \in Recalls, Enqueue(r) PROVE TasksOK'
  BY <1>2 DEF Enqueue
<1>3. ASSUME NEW r \in Recalls, Enter(r) PROVE TasksOK'
  BY <1>3 DEF Enter
<1>4. ASSUME NEW r \in Recalls, LeaveSuperseded(r) PROVE TasksOK'
  BY <1>4 DEF LeaveSuperseded
<1>5. ASSUME NEW r \in Recalls, MarkInFlight(r) PROVE TasksOK'
  BY <1>5 DEF MarkInFlight
<1>6. ASSUME NEW r \in Recalls, FireMemory(r) PROVE TasksOK'
  BY <1>6 DEF FireMemory
<1>7. ASSUME NEW r \in Recalls, ForgetPalettes(r) PROVE TasksOK'
  BY <1>7 DEF ForgetPalettes
<1>8. ASSUME NEW r \in Recalls, Settle(r) PROVE TasksOK'
  BY <1>8 DEF Settle
<1>9. ASSUME NEW r \in Recalls, LeaveRowOnly(r) PROVE TasksOK'
  BY <1>9 DEF LeaveRowOnly
<1>10. ASSUME NEW r \in Recalls, Resolve(r) PROVE TasksOK'
  BY <1>10 DEF Resolve
<1>11. ASSUME NEW r \in Recalls, Transmit(r) PROVE TasksOK'
  BY <1>11 DEF Transmit
<1>12. ASSUME NEW r \in Recalls, Reflect(r) PROVE TasksOK'
  BY <1>12 DEF Reflect
<1>13. ASSUME NEW r \in Recalls, StartOwn(r) PROVE TasksOK'
  BY <1>13 DEF StartOwn
<1>14. ASSUME NEW r \in Recalls, Spawn(r) PROVE TasksOK'
  BY <1>14 DEF Spawn, IdleTask
<1>15. ASSUME NEW r \in Recalls, Judge(r) PROVE TasksOK'
  BY <1>15 DEF Judge, Sent, TasksEnded, TaskEnded
<1>16. ASSUME NEW r \in Recalls, CommitCheck(r) PROVE TasksOK'
  BY <1>16 DEF CommitCheck
<1>17. ASSUME NEW r \in Recalls, CommitStore(r) PROVE TasksOK'
  BY <1>17 DEF CommitStore
<1>18. ASSUME NEW r \in Recalls, ClearPlan(r) PROVE TasksOK'
  BY <1>18 DEF ClearPlan
<1>19. ASSUME NEW r \in Recalls, StoreUndo(r) PROVE TasksOK'
  BY <1>19 DEF StoreUndo
<1>20. ASSUME NEW r \in Recalls, MarkLastRecalled(r) PROVE TasksOK'
  BY <1>20 DEF MarkLastRecalled
<1>21. ASSUME NEW r \in Recalls, Finish(r) PROVE TasksOK'
  BY <1>21 DEF Finish
<1>22. ASSUME NEW r \in Recalls, Leave(r) PROVE TasksOK'
  BY <1>22 DEF Leave
<1>23. ASSUME NEW r \in Recalls, TakeUndo(r) PROVE TasksOK'
  BY <1>23 DEF TakeUndo
<1>24. ASSUME NEW r \in Recalls, StartRevert(r) PROVE TasksOK'
  BY <1>24 DEF StartRevert
<1>25. ASSUME NEW r \in Recalls, NEW a \in Addr, Pick(r, a) PROVE TasksOK'
  BY <1>25 DEF Pick
<1>26. ASSUME NEW r \in Recalls, NEW g \in Groups, NEW a \in Addr, TaskPick(r, g, a) PROVE TasksOK'
  <2>. DEFINE t == task[r][g]
  <2>1. t \in TaskState /\ TaskFits(r, t)
    OBVIOUS
  <2>2. [IdleTask EXCEPT !.st = "done"] \in TaskState
    BY IdleTaskType
  <2>3. TaskFits(r, [IdleTask EXCEPT !.st = "done"])
    BY DEF IdleTask
  <2>4. ASSUME ActiveFor(a, gen[r]), TaskPick(r, g, a)
        PROVE  TaskFits(r, [t EXCEPT !.st = "air", !.at = a])
    BY <2>1, <2>4, AddrAssumption DEF TaskPick, TaskState
  <2>5. ASSUME TaskPick(r, g, a) PROVE TaskFits(r, [t EXCEPT !.left = @ \ {a}])
    BY <2>1, <2>5 DEF TaskPick, TaskState
  <2>6. /\ [t EXCEPT !.st = "air", !.at = a] \in TaskState
        /\ [t EXCEPT !.left = @ \ {a}] \in TaskState
    BY <2>1 DEF TaskState
  <2>9. \E u \in TaskState : TaskStep(r, g, u) /\ TaskFits(r, u)
    BY <1>26, <2>2, <2>3, <2>4, <2>5, <2>6 DEF TaskPick
  <2>. QED BY <2>9, TaskStepFits
<1>27. ASSUME NEW r \in Recalls, NEW g \in Groups, PreWaitOver(r, g) PROVE TasksOK'
  <2>. DEFINE t == task[r][g]
  <2>1. t \in TaskState /\ TaskFits(r, t)
    OBVIOUS
  <2>2. [IdleTask EXCEPT !.st = "done"] \in TaskState
    BY IdleTaskType
  <2>3. TaskFits(r, [IdleTask EXCEPT !.st = "done"])
    BY DEF IdleTask
  <2>. DEFINE u == [st |-> "run", phase |-> 0, at |-> None,
                    left |-> Targets(r, g) \ Continuous]
  <2>4. u \in TaskState
    BY DEF Targets, Named, TaskState
  <2>5. pc[r] = "join"
    BY <1>27, <2>1 DEF PreWaitOver
  <2>6. TaskFits(r, u)
    BY <2>5 DEF Targets, Named
  <2>9. \E v \in TaskState : TaskStep(r, g, v) /\ TaskFits(r, v)
    BY <1>27, <2>2, <2>3, <2>4, <2>6 DEF PreWaitOver
  <2>. QED BY <2>9, TaskStepFits
<1>28. ASSUME NEW r \in Recalls, NEW g \in Groups, TaskTransmit(r, g) PROVE TasksOK'
  <2>. DEFINE t == task[r][g]
  <2>1. t \in TaskState /\ TaskFits(r, t)
    OBVIOUS
  <2>2. t.st = "air"
    BY <1>28 DEF TaskTransmit
  <2>3. /\ [t EXCEPT !.st = "sent"] \in TaskState
        /\ TaskFits(r, [t EXCEPT !.st = "sent"])
    BY <2>1, <2>2 DEF TaskState
  <2>4. LET u == [t EXCEPT !.st = "run", !.left = @ \ {t.at}, !.at = None]
        IN  u \in TaskState /\ TaskFits(r, u)
    BY <2>1, <2>2 DEF TaskState
  <2>9. \E u \in TaskState : TaskStep(r, g, u) /\ TaskFits(r, u)
    BY <1>28, <2>3, <2>4 DEF TaskTransmit
  <2>. QED BY <2>9, TaskStepFits
<1>29. ASSUME NEW r \in Recalls, NEW g \in Groups, TaskReflect(r, g) PROVE TasksOK'
  <2>. DEFINE t == task[r][g]
  <2>1. t \in TaskState /\ TaskFits(r, t)
    OBVIOUS
  <2>2. t.st = "sent"
    BY <1>29 DEF TaskReflect
  <2>3. LET u == [t EXCEPT !.st = "run", !.left = @ \ {t.at}, !.at = None]
        IN  u \in TaskState /\ TaskFits(r, u)
    BY <2>1, <2>2 DEF TaskState
  <2>9. \E u \in TaskState : TaskStep(r, g, u) /\ TaskFits(r, u)
    BY <1>29, <2>3 DEF TaskReflect
  <2>. QED BY <2>9, TaskStepFits
<1>30. ASSUME NEW r \in Recalls, NEW g \in Groups, NextTick(r, g) PROVE TasksOK'
  <2>. DEFINE t == task[r][g]
  <2>1. t \in TaskState /\ TaskFits(r, t)
    OBVIOUS
  <2>2. [IdleTask EXCEPT !.st = "done"] \in TaskState
    BY IdleTaskType
  <2>3. TaskFits(r, [IdleTask EXCEPT !.st = "done"])
    BY DEF IdleTask
  <2>. DEFINE fading == Targets(r, g) \cap Continuous
              u == [t EXCEPT !.phase = @ + 1, !.left = fading]
  <2>4. fading \in SUBSET Addr /\ fading \subseteq Named(own[r])
    BY DEF Targets, Named
  <2>5. u \in TaskState
    <3>. HIDE DEF t, fading, TypeOK
    <3>1. [t EXCEPT !.phase = @ + 1] \in TaskState
      BY <2>1 DEF TaskState
    <3>. QED BY <2>4, <3>1 DEF TaskState
  <2>6. u.st = t.st /\ u.at = t.at /\ u.left = fading
    BY <2>1 DEF TaskState
  <2>7. t.st = "run"
    BY <1>30 DEF NextTick
  <2>8. TaskFits(r, u)
    <3>. HIDE DEF u, fading, TypeOK
    <3>. QED BY <2>1, <2>4, <2>6, <2>7
  <2>9. \E v \in TaskState : TaskStep(r, g, v) /\ TaskFits(r, v)
    BY <1>30, <2>2, <2>3, <2>5, <2>8 DEF NextTick
  <2>. QED BY <2>9, TaskStepFits
<1>31. ASSUME NEW r \in Recalls, NEW g \in Groups, CloseTask(r, g) PROVE TasksOK'
  BY <1>31, TaskStepFits DEF CloseTask, TaskStep, IdleTask, Targets, Named, TaskState
<1>32. ASSUME NEW a \in Addr, Move(a) PROVE TasksOK'
  BY <1>32 DEF Move
<1>33. ASSUME NEW a \in Addr, Dispatch(a) PROVE TasksOK'
  BY <1>33 DEF Dispatch, Overridden
<1>34. CASE UNCHANGED vars
  BY <1>34 DEF vars
<1>35. CASE LoadOver
  BY <1>35 DEF LoadOver
<1>. HIDE DEF TypeOK, TasksOK
<1>. QED BY <1>1, <1>2, <1>3, <1>4, <1>5, <1>6, <1>7, <1>8, <1>9, <1>10, <1>11, <1>12, <1>13, <1>14, <1>15, <1>16, <1>17, <1>18, <1>19, <1>20, <1>21, <1>22, <1>23, <1>24, <1>25, <1>26, <1>27, <1>28, <1>29, <1>30, <1>31, <1>32, <1>33, <1>34, <1>35
         DEF Next, Process, Gated, Tasks, Tail_, Undoing, Terminated

\* A step of a running task leaves the registry as good as it was.
LEMMA TaskStepRegistry ==
  ASSUME TypeOK, RegistryOK, NEW r \in Recalls, NEW g \in Groups,
         NEW t \in TaskState, TaskStep(r, g, t), ~TaskEnded(r, g),
         \A a \in Addr : registry'[a] \in {0, registry[a]}
  PROVE  RegistryOK'
  BY DEF TypeOK, RegistryOK, TaskStep, TaskEnded

\* A timed recall empties the registry as it begins, so that only entries of the
\* newest generation remain.
LEMMA RegistryNext == TypeOK /\ TasksOK /\ GateExclusion /\ RegistryOK /\ [Next]_vars => RegistryOK'
<1>. SUFFICES ASSUME TypeOK, TasksOK, GateExclusion, RegistryOK, [Next]_vars PROVE RegistryOK'
  OBVIOUS
<1>. USE DEF TypeOK, TasksOK, TaskFits, GateExclusion, Bracket, RegistryOK, TaskEnded, Goto, shared, locals, world
<1>1. ASSUME NEW r \in Recalls, Claim(r) PROVE RegistryOK'
  BY <1>1 DEF Claim
<1>2. ASSUME NEW r \in Recalls, Enqueue(r) PROVE RegistryOK'
  BY <1>2 DEF Enqueue
<1>3. ASSUME NEW r \in Recalls, Enter(r) PROVE RegistryOK'
  BY <1>3 DEF Enter
<1>4. ASSUME NEW r \in Recalls, LeaveSuperseded(r) PROVE RegistryOK'
  BY <1>4 DEF LeaveSuperseded
<1>5. ASSUME NEW r \in Recalls, MarkInFlight(r) PROVE RegistryOK'
  BY <1>5 DEF MarkInFlight
<1>6. ASSUME NEW r \in Recalls, FireMemory(r) PROVE RegistryOK'
  BY <1>6 DEF FireMemory
<1>7. ASSUME NEW r \in Recalls, ForgetPalettes(r) PROVE RegistryOK'
  BY <1>7 DEF ForgetPalettes
<1>8. ASSUME NEW r \in Recalls, Settle(r) PROVE RegistryOK'
  BY <1>8 DEF Settle
<1>9. ASSUME NEW r \in Recalls, LeaveRowOnly(r) PROVE RegistryOK'
  BY <1>9 DEF LeaveRowOnly
<1>10. ASSUME NEW r \in Recalls, Resolve(r) PROVE RegistryOK'
  BY <1>10 DEF Resolve
<1>11. ASSUME NEW r \in Recalls, Transmit(r) PROVE RegistryOK'
  BY <1>11 DEF Transmit
<1>12. ASSUME NEW r \in Recalls, Reflect(r) PROVE RegistryOK'
  BY <1>12 DEF Reflect
<1>13. ASSUME NEW r \in Recalls, StartOwn(r) PROVE RegistryOK'
  BY <1>13 DEF StartOwn
<1>14. ASSUME NEW r \in Recalls, Spawn(r) PROVE RegistryOK'
  BY <1>14 DEF Spawn, TaskStep, IdleTask
<1>15. ASSUME NEW r \in Recalls, Judge(r) PROVE RegistryOK'
  BY <1>15 DEF Judge
<1>16. ASSUME NEW r \in Recalls, CommitCheck(r) PROVE RegistryOK'
  BY <1>16 DEF CommitCheck
<1>17. ASSUME NEW r \in Recalls, CommitStore(r) PROVE RegistryOK'
  BY <1>17 DEF CommitStore
<1>18. ASSUME NEW r \in Recalls, ClearPlan(r) PROVE RegistryOK'
  BY <1>18 DEF ClearPlan
<1>19. ASSUME NEW r \in Recalls, StoreUndo(r) PROVE RegistryOK'
  BY <1>19 DEF StoreUndo
<1>20. ASSUME NEW r \in Recalls, MarkLastRecalled(r) PROVE RegistryOK'
  BY <1>20 DEF MarkLastRecalled
<1>21. ASSUME NEW r \in Recalls, Finish(r) PROVE RegistryOK'
  BY <1>21 DEF Finish
<1>22. ASSUME NEW r \in Recalls, Leave(r) PROVE RegistryOK'
  BY <1>22 DEF Leave
<1>23. ASSUME NEW r \in Recalls, TakeUndo(r) PROVE RegistryOK'
  BY <1>23 DEF TakeUndo
<1>24. ASSUME NEW r \in Recalls, StartRevert(r) PROVE RegistryOK'
  BY <1>24 DEF StartRevert
<1>25. ASSUME NEW r \in Recalls, NEW a \in Addr, Pick(r, a) PROVE RegistryOK'
  BY <1>25 DEF Pick
<1>26. ASSUME NEW r \in Recalls, NEW g \in Groups, NEW a \in Addr, TaskPick(r, g, a) PROVE RegistryOK'
  <2>. DEFINE t == task[r][g]
  <2>1. t \in TaskState /\ UNCHANGED registry
    BY <1>26 DEF TaskPick
  <2>2. ~TaskEnded(r, g)
    BY <1>26 DEF TaskPick
  <2>3. /\ [t EXCEPT !.st = "air", !.at = a] \in TaskState
        /\ [t EXCEPT !.left = @ \ {a}] \in TaskState
    BY <2>1 DEF TaskState
  <2>4. \E u \in TaskState : TaskStep(r, g, u)
    BY <1>26, <2>3, IdleTaskType DEF TaskPick
  <2>. QED BY <2>1, <2>2, <2>4, TaskStepRegistry
<1>27. ASSUME NEW r \in Recalls, NEW g \in Groups, PreWaitOver(r, g) PROVE RegistryOK'
  BY <1>27 DEF PreWaitOver, TaskStep, IdleTask
<1>28. ASSUME NEW r \in Recalls, NEW g \in Groups, TaskTransmit(r, g) PROVE RegistryOK'
  <2>. DEFINE t == task[r][g]
  <2>1. t \in TaskState /\ UNCHANGED registry
    BY <1>28 DEF TaskTransmit
  <2>2. ~TaskEnded(r, g)
    BY <1>28 DEF TaskTransmit
  <2>3. /\ [t EXCEPT !.st = "sent"] \in TaskState
        /\ [t EXCEPT !.st = "run", !.left = @ \ {t.at}, !.at = None] \in TaskState
    BY <2>1 DEF TaskState
  <2>4. \E u \in TaskState : TaskStep(r, g, u)
    BY <1>28, <2>3, IdleTaskType DEF TaskTransmit
  <2>. QED BY <2>1, <2>2, <2>4, TaskStepRegistry
<1>29. ASSUME NEW r \in Recalls, NEW g \in Groups, TaskReflect(r, g) PROVE RegistryOK'
  BY <1>29 DEF TaskReflect, TaskStep, IdleTask
<1>30. ASSUME NEW r \in Recalls, NEW g \in Groups, NextTick(r, g) PROVE RegistryOK'
  BY <1>30 DEF NextTick, TaskStep, IdleTask
<1>31. ASSUME NEW r \in Recalls, NEW g \in Groups, CloseTask(r, g) PROVE RegistryOK'
  BY <1>31 DEF CloseTask, TaskStep, IdleTask
<1>32. ASSUME NEW a \in Addr, Move(a) PROVE RegistryOK'
  BY <1>32 DEF Move
<1>33. ASSUME NEW a \in Addr, Dispatch(a) PROVE RegistryOK'
  <2>1. /\ UNCHANGED <<generation, pc, gen, task>>
        /\ registry' \in {registry, [registry EXCEPT ![a] = 0]}
    BY <1>33 DEF Dispatch
  <2>2. \A b \in Addr : registry'[b] \in {0, generation}
    BY <2>1
  <2>. HIDE DEF TypeOK, TasksOK, GateExclusion
  <2>. QED BY <2>1, <2>2
<1>34. CASE UNCHANGED vars
  BY <1>34 DEF vars
<1>35. CASE LoadOver
  BY <1>35 DEF LoadOver
<1>. HIDE DEF TypeOK, TasksOK, TaskFits, GateExclusion, Bracket, RegistryOK, TaskEnded,
              Goto, shared, locals, world
<1>. QED BY <1>1, <1>2, <1>3, <1>4, <1>5, <1>6, <1>7, <1>8, <1>9, <1>10, <1>11, <1>12, <1>13, <1>14, <1>15, <1>16, <1>17, <1>18, <1>19, <1>20, <1>21, <1>22, <1>23, <1>24, <1>25, <1>26, <1>27, <1>28, <1>29, <1>30, <1>31, <1>32, <1>33, <1>34, <1>35
         DEF Next, Process, Gated, Tasks, Tail_, Undoing, Terminated

\* An entry is set for addresses nobody has taken since the recall began.
LEMMA GrabNext == TypeOK /\ GateExclusion /\ GrabOK /\ [Next]_vars => GrabOK'
<1>. SUFFICES ASSUME TypeOK, GateExclusion, GrabOK, [Next]_vars PROVE GrabOK'
  OBVIOUS
<1>. USE DEF TypeOK, GateExclusion, Bracket, GrabOK, Named, Goto, shared, locals, world
<1>1. ASSUME NEW r \in Recalls, Claim(r) PROVE GrabOK'
  BY <1>1 DEF Claim
<1>2. ASSUME NEW r \in Recalls, Enqueue(r) PROVE GrabOK'
  BY <1>2 DEF Enqueue
<1>3. ASSUME NEW r \in Recalls, Enter(r) PROVE GrabOK'
  BY <1>3 DEF Enter
<1>4. ASSUME NEW r \in Recalls, LeaveSuperseded(r) PROVE GrabOK'
  BY <1>4 DEF LeaveSuperseded
<1>5. ASSUME NEW r \in Recalls, MarkInFlight(r) PROVE GrabOK'
  BY <1>5 DEF MarkInFlight
<1>6. ASSUME NEW r \in Recalls, FireMemory(r) PROVE GrabOK'
  BY <1>6 DEF FireMemory
<1>7. ASSUME NEW r \in Recalls, ForgetPalettes(r) PROVE GrabOK'
  BY <1>7 DEF ForgetPalettes
<1>8. ASSUME NEW r \in Recalls, Settle(r) PROVE GrabOK'
  BY <1>8 DEF Settle
<1>9. ASSUME NEW r \in Recalls, LeaveRowOnly(r) PROVE GrabOK'
  BY <1>9 DEF LeaveRowOnly
<1>10. ASSUME NEW r \in Recalls, Resolve(r) PROVE GrabOK'
  BY <1>10 DEF Resolve
<1>11. ASSUME NEW r \in Recalls, Transmit(r) PROVE GrabOK'
  BY <1>11 DEF Transmit
<1>12. ASSUME NEW r \in Recalls, Reflect(r) PROVE GrabOK'
  BY <1>12 DEF Reflect
<1>13. ASSUME NEW r \in Recalls, StartOwn(r) PROVE GrabOK'
  BY <1>13 DEF StartOwn
<1>14. ASSUME NEW r \in Recalls, Spawn(r) PROVE GrabOK'
  BY <1>14 DEF Spawn
<1>15. ASSUME NEW r \in Recalls, Judge(r) PROVE GrabOK'
  BY <1>15 DEF Judge
<1>16. ASSUME NEW r \in Recalls, CommitCheck(r) PROVE GrabOK'
  BY <1>16 DEF CommitCheck
<1>17. ASSUME NEW r \in Recalls, CommitStore(r) PROVE GrabOK'
  BY <1>17 DEF CommitStore
<1>18. ASSUME NEW r \in Recalls, ClearPlan(r) PROVE GrabOK'
  BY <1>18 DEF ClearPlan
<1>19. ASSUME NEW r \in Recalls, StoreUndo(r) PROVE GrabOK'
  BY <1>19 DEF StoreUndo
<1>20. ASSUME NEW r \in Recalls, MarkLastRecalled(r) PROVE GrabOK'
  BY <1>20 DEF MarkLastRecalled
<1>21. ASSUME NEW r \in Recalls, Finish(r) PROVE GrabOK'
  BY <1>21 DEF Finish
<1>22. ASSUME NEW r \in Recalls, Leave(r) PROVE GrabOK'
  BY <1>22 DEF Leave
<1>23. ASSUME NEW r \in Recalls, TakeUndo(r) PROVE GrabOK'
  BY <1>23 DEF TakeUndo
<1>24. ASSUME NEW r \in Recalls, StartRevert(r) PROVE GrabOK'
  BY <1>24 DEF StartRevert
<1>25. ASSUME NEW r \in Recalls, NEW a \in Addr, Pick(r, a) PROVE GrabOK'
  BY <1>25 DEF Pick
<1>26. ASSUME NEW r \in Recalls, NEW g \in Groups, NEW a \in Addr, TaskPick(r, g, a) PROVE GrabOK'
  BY <1>26 DEF TaskPick, TaskStep
<1>27. ASSUME NEW r \in Recalls, NEW g \in Groups, PreWaitOver(r, g) PROVE GrabOK'
  BY <1>27 DEF PreWaitOver, TaskStep
<1>28. ASSUME NEW r \in Recalls, NEW g \in Groups, TaskTransmit(r, g) PROVE GrabOK'
  <2>1. UNCHANGED <<registry, grabbed, pc, own>>
    BY <1>28 DEF TaskTransmit, TaskStep
  <2>. QED BY <2>1
<1>29. ASSUME NEW r \in Recalls, NEW g \in Groups, TaskReflect(r, g) PROVE GrabOK'
  BY <1>29 DEF TaskReflect, TaskStep
<1>30. ASSUME NEW r \in Recalls, NEW g \in Groups, NextTick(r, g) PROVE GrabOK'
  BY <1>30 DEF NextTick, TaskStep
<1>31. ASSUME NEW r \in Recalls, NEW g \in Groups, CloseTask(r, g) PROVE GrabOK'
  BY <1>31 DEF CloseTask, TaskStep
<1>32. ASSUME NEW a \in Addr, Move(a) PROVE GrabOK'
  BY <1>32 DEF Move
<1>33. ASSUME NEW a \in Addr, Dispatch(a) PROVE GrabOK'
  BY <1>33 DEF Dispatch, Overridden
<1>34. CASE UNCHANGED vars
  BY <1>34 DEF vars
<1>35. CASE LoadOver
  BY <1>35 DEF LoadOver
<1>. HIDE DEF TypeOK, GateExclusion, GrabOK
<1>. QED BY <1>1, <1>2, <1>3, <1>4, <1>5, <1>6, <1>7, <1>8, <1>9, <1>10, <1>11, <1>12, <1>13, <1>14, <1>15, <1>16, <1>17, <1>18, <1>19, <1>20, <1>21, <1>22, <1>23, <1>24, <1>25, <1>26, <1>27, <1>28, <1>29, <1>30, <1>31, <1>32, <1>33, <1>34, <1>35
         DEF Next, Process, Gated, Tasks, Tail_, Undoing, Terminated

-----------------------------------------------------------------------------
\* The inductive invariant.  The safety properties are its last conjuncts; the
\* others say where calls can be and what their sends and entries stand for.
IInv == /\ TypeOK /\ PathOK /\ LoopOK /\ TasksOK /\ ClaimOK /\ EnteredFirst
        /\ RegistryOK /\ GrabOK
        /\ LatestWins /\ GateExclusion /\ InFlightTruth

\* The inductive invariant holds at the start: nothing runs, nothing is claimed.
LEMMA IInvInit == Init => IInv
<1>. SUFFICES ASSUME Init PROVE IInv
  OBVIOUS
<1>1. TypeOK
  BY TypeInit
<1>2. PathOK /\ ClaimOK /\ LatestWins /\ EnteredFirst /\ InFlightTruth
  BY NoOneAssumption DEF Init, PathOK, ClaimOK, LatestWins, EnteredFirst,
                         InFlightTruth, Marked
<1>3. GateExclusion
  BY NoOneAssumption DEF Init, GateExclusion, Bracket
<1>4. LoopOK /\ TasksOK /\ RegistryOK /\ GrabOK
  BY DEF Init, LoopOK, TasksOK, TaskFits, IdleTask, RegistryOK, TaskEnded, GrabOK
<1>. QED BY <1>1, <1>2, <1>3, <1>4 DEF IInv

\* Every step keeps it, each part by the lemma of that part.
LEMMA IInvNext == IInv /\ [Next]_vars => IInv'
<1>. SUFFICES ASSUME IInv, [Next]_vars PROVE IInv'
  OBVIOUS
<1>1. TypeOK' /\ PathOK'
  BY TypeNext, PathNext DEF IInv, SendOK
<1>2. LoopOK' /\ TasksOK' /\ RegistryOK' /\ GrabOK'
  BY LoopNext, TasksNext, RegistryNext, GrabNext DEF IInv
<1>3. ClaimOK' /\ LatestWins'
  BY ClaimNext DEF IInv
<1>4. GateExclusion' /\ EnteredFirst' /\ InFlightTruth'
  BY GateNext, EnteredNext, MarkerNext DEF IInv
<1>. QED BY <1>1, <1>2, <1>3, <1>4 DEF IInv

\* So it holds in every state of every behaviour.
LEMMA IInvAlways == Spec => []IInv
  BY IInvInit, IInvNext, PTL DEF Spec

-----------------------------------------------------------------------------
\* Types: the state of the engine, its tasks and the desk stays well-formed.
THEOREM TypeCorrect == Spec => []TypeOK
<1>1. IInv => TypeOK
  BY DEF IInv
<1>. QED BY <1>1, IInvAlways, PTL

\* begin_recall_epoch: the newest claim has the highest epoch and the only
\* token that is not cancelled, however the claims interleave with the rest.
THEOREM LatestWinsCorrect == Spec => []LatestWins
<1>1. IInv => LatestWins
  BY DEF IInv
<1>. QED BY <1>1, IInvAlways, PTL

\* recall_gate: two calls are never in the gated phase together.
THEOREM GateCorrect == Spec => []GateExclusion
<1>1. IInv => GateExclusion
  BY DEF IInv
<1>. QED BY <1>1, IInvAlways, PTL

\* recall_in_flight: a recall that is neither superseded nor over is marked.
THEOREM MarkerCorrect == Spec => []InFlightTruth
<1>1. IInv => InFlightTruth
  BY DEF IInv
<1>. QED BY <1>1, IInvAlways, PTL

\* Only a timed recall's spawn and its tasks' own steps change a task.
LEMMA NextTask ==
  ASSUME [Next]_vars, task' # task
  PROVE  \E r \in Recalls :
           \/ Spawn(r)
           \/ \E g \in Groups :
                \/ PreWaitOver(r, g) \/ NextTick(r, g) \/ TaskTransmit(r, g)
                \/ TaskReflect(r, g) \/ CloseTask(r, g)
                \/ \E a \in Addr : TaskPick(r, g, a)
<1>. USE DEF shared, locals, world
<1>1. ~UNCHANGED vars
  BY DEF vars
<1>2. ASSUME NEW r \in Recalls,
             \/ Claim(r) \/ Enqueue(r) \/ Enter(r) \/ LeaveSuperseded(r)
             \/ MarkInFlight(r) \/ FireMemory(r) \/ ForgetPalettes(r) \/ Settle(r)
             \/ LeaveRowOnly(r) \/ Resolve(r) \/ StartOwn(r)
      PROVE  FALSE
  BY <1>2 DEF Claim, Enqueue, Enter, LeaveSuperseded, MarkInFlight, FireMemory,
              ForgetPalettes, Settle, LeaveRowOnly, Resolve, StartOwn
<1>3. ASSUME NEW r \in Recalls,
             \/ Transmit(r) \/ Reflect(r) \/ Judge(r) \/ CommitCheck(r)
             \/ CommitStore(r) \/ ClearPlan(r) \/ StoreUndo(r) \/ MarkLastRecalled(r)
             \/ Finish(r) \/ Leave(r) \/ TakeUndo(r) \/ StartRevert(r)
      PROVE  FALSE
  BY <1>3 DEF Transmit, Reflect, Judge, CommitCheck, CommitStore, ClearPlan,
              StoreUndo, MarkLastRecalled, Finish, Leave, TakeUndo, StartRevert
<1>4. ASSUME NEW r \in Recalls, NEW a \in Addr, Pick(r, a) \/ Move(a) \/ Dispatch(a)
      PROVE  FALSE
  BY <1>4 DEF Pick, Move, Dispatch, Overridden
<1>5. ASSUME NEW a \in Addr, Move(a) \/ Dispatch(a) PROVE FALSE
  BY <1>5 DEF Move, Dispatch, Overridden
<1>6. CASE LoadOver
  BY <1>6 DEF LoadOver
<1>. QED BY <1>1, <1>2, <1>3, <1>4, <1>5, <1>6
         DEF Next, Process, Gated, Tasks, Tail_, Undoing, Terminated

\* What a fade takes up has an entry of the fade's own recall.
LEMMA TakenUpFromRegistry ==
  ASSUME IInv, [Next]_vars, NEW r \in Recalls, NEW g \in Groups, NEW a \in Addr,
         TakesUp(r, g, a)
  PROVE  gen[r] # 0 /\ registry[a] = gen[r]
<1>1. task[r][g].st # "air" /\ task'[r][g].st = "air"
  BY DEF TakesUp
<1>2. task \in [Recalls -> [Groups -> TaskState]]
  BY DEF IInv, TypeOK
<1>3. ASSUME NEW q \in Recalls, NEW h \in Groups, NEW t, TaskStep(q, h, t)
      PROVE  q = r /\ h = g /\ t.st = "air"
  BY <1>1, <1>2, <1>3 DEF TaskStep
<1>4. ASSUME NEW q \in Recalls, NEW h \in Groups, NEW b \in Addr, TaskPick(q, h, b)
      PROVE  gen[r] # 0 /\ registry[a] = gen[r]
  <2>1. task[q][h].st = "run" /\ task[q][h] \in TaskState
    BY <1>2, <1>4 DEF TaskPick
  <2>2. /\ [task[q][h] EXCEPT !.left = @ \ {b}].st # "air"
        /\ [IdleTask EXCEPT !.st = "done"].st # "air"
    BY <2>1 DEF TaskState, IdleTask
  <2>3. q = r /\ h = g /\ ActiveFor(b, gen[q])
    BY <1>3, <1>4, <2>2 DEF TaskPick
  <2>4. gen[r] # 0
    BY <1>4, <2>1, <2>3 DEF IInv, RegistryOK, TaskEnded
  <2>5. [task[q][h] EXCEPT !.st = "air", !.at = b].at = b
    BY <2>1 DEF TaskState
  <2>6. TaskStep(r, g, [task[q][h] EXCEPT !.st = "air", !.at = b])
    BY <1>3, <1>4, <2>2, <2>3 DEF TaskPick
  <2>7. a = b
    BY <1>2, <2>5, <2>6 DEF TaskStep, TakesUp
  <2>. QED BY <2>3, <2>4, <2>7 DEF ActiveFor
<1>5. ASSUME NEW q \in Recalls, NEW h \in Groups, PreWaitOver(q, h) \/ NextTick(q, h)
      PROVE  FALSE
  <2>1. task[q][h].st # "air" /\ task[q][h] \in TaskState
    BY <1>2, <1>5 DEF PreWaitOver, NextTick
  <2>. DEFINE t == task[q][h]
              fading == Targets(q, h) \cap Continuous
              u == [t EXCEPT !.phase = @ + 1, !.left = fading]
              w == [st |-> "run", phase |-> 0, at |-> None,
                    left |-> Targets(q, h) \ Continuous]
  <2>2. [IdleTask EXCEPT !.st = "done"].st = "done" /\ w.st = "run"
    BY DEF IdleTask
  <2>3. u.st = t.st
    BY <2>1 DEF TaskState
  <2>4. \/ TaskStep(q, h, [IdleTask EXCEPT !.st = "done"])
        \/ TaskStep(q, h, w) \/ TaskStep(q, h, u)
    BY <1>5 DEF PreWaitOver, NextTick
  <2>. HIDE DEF u, w
  <2>. QED BY <1>3, <2>1, <2>2, <2>3, <2>4
<1>6. ASSUME NEW q \in Recalls, NEW h \in Groups,
             TaskTransmit(q, h) \/ TaskReflect(q, h) \/ CloseTask(q, h)
      PROVE  FALSE
  <2>1. task[q][h] \in TaskState
    BY <1>2
  <2>. DEFINE t == task[q][h]
              u == [t EXCEPT !.st = "run", !.left = @ \ {t.at}, !.at = None]
              w == [t EXCEPT !.st = "sent"]
  <2>2. [IdleTask EXCEPT !.st = "done"].st = "done"
    BY DEF IdleTask
  <2>3. u.st = "run" /\ w.st = "sent"
    BY <2>1 DEF TaskState
  <2>4. \/ TaskStep(q, h, [IdleTask EXCEPT !.st = "done"])
        \/ TaskStep(q, h, w) \/ TaskStep(q, h, u)
    BY <1>6 DEF TaskTransmit, TaskReflect, CloseTask
  <2>. HIDE DEF u, w
  <2>. QED BY <1>3, <2>2, <2>3, <2>4
<1>7. ASSUME NEW q \in Recalls, Spawn(q) PROVE FALSE
  BY <1>1, <1>2, <1>7 DEF Spawn, IdleTask
<1>8. task' # task
  BY <1>1
<1>. QED BY <1>4, <1>5, <1>6, <1>7, <1>8, NextTask

\* A fade of an older recall takes up nothing once a newer timed recall began:
\* whatever it still finds in the registry is not of its generation.
THEOREM SupersededFadesStopCorrect == Spec => SupersededFadesStop
<1>. DEFINE Stop == \A r \in Recalls, g \in Groups, a \in Addr :
                      TakesUp(r, g, a) => gen[r] = generation
<1>1. IInv /\ [Next]_vars => [Stop]_vars
  BY TakenUpFromRegistry DEF IInv, RegistryOK
<1>. QED BY <1>1, IInvAlways, PTL DEF Spec, SupersededFadesStop

\* An address the operator has taken stays the operator's until a later recall
\* sets it: its entry is gone, and no running fade registers it again.
THEOREM TakenStaysTakenCorrect == Spec => TakenStaysTaken
<1>. DEFINE Kept == \A r \in Recalls, g \in Groups, a \in Addr :
                      TakesUp(r, g, a) => a \notin grabbed
<1>1. IInv /\ [Next]_vars => [Kept]_vars
  BY TakenUpFromRegistry DEF IInv, GrabOK
<1>. QED BY <1>1, IInvAlways, PTL DEF Spec, TakenStaysTaken

-----------------------------------------------------------------------------
(* The plan.                                                               *)

\* The labels a call with a snapshot has once its end-values are in the plan.
After == {"snaps", "owns", "join", "commit", "wipe", "stamp", "unplan", "keep",
          "mark", "end", "leave", "done"}
\* The labels at which a call has its verdict.
Judged == {"commit", "wipe", "stamp", "unplan", "keep", "mark", "end", "leave", "done"}

\* A step of one call that leaves the plan, the verdicts and the epochs alone.
Advance(r, l) ==
  /\ pc' = [pc EXCEPT ![r] = l]
  /\ UNCHANGED <<epoch, cancelled, ep, verdict, plan>>
  /\ pc[r] \in After <=> l \in After
  /\ pc[r] \in Judged <=> l \in Judged
  /\ pc[r] \in {"claimed", "queued"} => l = "queued"
  /\ l # "take"

\* Which actions touch the plan, the verdicts and the epochs.
LEMMA NextPlan ==
  ASSUME TypeOK, PathOK, [Next]_vars
  PROVE  \/ \E r \in Recalls :
              \/ Claim(r) \/ Enter(r) \/ LeaveSuperseded(r) \/ Resolve(r)
              \/ Judge(r) \/ LeaveRowOnly(r) \/ Leave(r)
              \/ ClearPlan(r) \/ TakeUndo(r)
              \/ \E l \in Labels : Advance(r, l)
         \/ UNCHANGED <<epoch, cancelled, ep, pc, verdict, plan>>
<1>. USE DEF shared, locals, world, Goto, ReleaseGate
<1>1. ASSUME NEW r \in Recalls,
             \/ Enqueue(r) \/ MarkInFlight(r) \/ ForgetPalettes(r) \/ Settle(r)
             \/ FireMemory(r)
      PROVE  \E l \in Labels : Advance(r, l)
  <2>1. ASSUME Enqueue(r) PROVE Advance(r, "queued")
    BY <2>1 DEF Enqueue, Advance, After, Judged
  <2>2. ASSUME MarkInFlight(r) PROVE \E l \in {"fire", "rowdone", "resolve"} : Advance(r, l)
    BY <2>2 DEF MarkInFlight, Advance, After, Judged
  <2>3. ASSUME ForgetPalettes(r) PROVE Advance(r, "settle")
    BY <2>3 DEF ForgetPalettes, Advance, After, Judged
  <2>4. ASSUME Settle(r) PROVE \E l \in {"rowdone", "resolve"} : Advance(r, l)
    BY <2>4 DEF Settle, Advance, After, Judged
  <2>5. ASSUME FireMemory(r) PROVE \E l \in {"forget", "rowdone", "resolve"} : Advance(r, l)
    BY <2>5 DEF FireMemory, Advance, After, Judged
  <2>. QED BY <1>1, <2>1, <2>2, <2>3, <2>4, <2>5 DEF Labels
<1>2. ASSUME NEW r \in Recalls,
             \/ StartOwn(r) \/ Spawn(r) \/ CommitCheck(r) \/ CommitStore(r)
             \/ StoreUndo(r) \/ MarkLastRecalled(r) \/ Finish(r) \/ StartRevert(r)
      PROVE  \E l \in Labels : Advance(r, l)
  <2>1. ASSUME StartOwn(r) PROVE Advance(r, "owns")
    BY <2>1 DEF StartOwn, Advance, After, Judged
  <2>2. ASSUME Spawn(r) PROVE Advance(r, "join")
    BY <2>2 DEF Spawn, Advance, After, Judged
  <2>3. ASSUME CommitCheck(r) PROVE \E l \in {"unplan", "wipe", "stamp"} : Advance(r, l)
    BY <2>3 DEF CommitCheck, Advance, After, Judged
  <2>4. ASSUME CommitStore(r) PROVE Advance(r, "unplan")
    BY <2>4 DEF CommitStore, Advance, After, Judged
  <2>5. ASSUME StoreUndo(r) PROVE Advance(r, "mark")
    BY <2>5 DEF StoreUndo, Advance, After, Judged
  <2>6. ASSUME MarkLastRecalled(r) PROVE Advance(r, "end")
    BY <2>6 DEF MarkLastRecalled, Advance, After, Judged
  <2>7. ASSUME Finish(r) PROVE \E l \in {"leave", "done"} : Advance(r, l)
    BY <2>7 DEF Finish, Advance, After, Judged
  <2>8. ASSUME StartRevert(r) PROVE Advance(r, "reverting")
    BY <2>8 DEF StartRevert, Advance, After, Judged
  <2>. QED BY <1>2, <2>1, <2>2, <2>3, <2>4, <2>5, <2>6, <2>7, <2>8 DEF Labels
<1>3. ASSUME NEW r \in Recalls, Transmit(r) \/ Reflect(r) \/ Tasks(r)
      PROVE  UNCHANGED <<epoch, cancelled, ep, pc, verdict, plan>>
  BY <1>3 DEF Transmit, Reflect, Tasks, PreWaitOver, TaskPick, TaskTransmit,
              TaskReflect, NextTick, CloseTask, TaskStep
<1>4. ASSUME NEW r \in Recalls, NEW a \in Addr, Pick(r, a)
      PROVE  UNCHANGED <<epoch, cancelled, ep, pc, verdict, plan>>
  BY <1>4 DEF Pick
<1>5. ASSUME NEW a \in Addr, Move(a) \/ Dispatch(a)
      PROVE  UNCHANGED <<epoch, cancelled, ep, pc, verdict, plan>>
  BY <1>5 DEF Move, Dispatch, Overridden
<1>6. CASE LoadOver
  BY <1>6 DEF LoadOver
<1>7. CASE UNCHANGED vars
  BY <1>7 DEF vars
<1>. QED BY <1>1, <1>2, <1>3, <1>4, <1>5, <1>6, <1>7
         DEF Next, Process, Gated, Tail_, Undoing, Terminated

\* A verdict is given once, at the end of the sends, and stays.
LEMMA VerdictNext == IInv /\ VerdictOK /\ [Next]_vars => VerdictOK'
<1>. SUFFICES ASSUME IInv, VerdictOK, [Next]_vars PROVE VerdictOK'
  OBVIOUS
<1>0. TypeOK /\ PathOK
  BY DEF IInv
<1>. USE DEF VerdictOK, TypeOK, Goto
<1>1. ASSUME NEW r \in Recalls,
             Claim(r) \/ Enter(r) \/ Resolve(r) \/ ClearPlan(r) \/ TakeUndo(r)
      PROVE  VerdictOK'
  <2>1. CASE Claim(r) \/ Enter(r)
    BY <1>0, <2>1 DEF Claim, Enter
  <2>2. CASE Resolve(r) \/ ClearPlan(r)
    BY <1>0, <2>2 DEF Resolve, ClearPlan
  <2>3. CASE TakeUndo(r)
    BY <1>0, <2>3 DEF TakeUndo
  <2>. QED BY <1>1, <2>1, <2>2, <2>3
<1>2. ASSUME NEW r \in Recalls, LeaveSuperseded(r) \/ Judge(r) \/ LeaveRowOnly(r)
      PROVE  VerdictOK'
  BY <1>0, <1>2 DEF LeaveSuperseded, Judge, LeaveRowOnly
<1>3. ASSUME NEW r \in Recalls, Leave(r) PROVE VerdictOK'
  BY <1>0, <1>3 DEF Leave
<1>4. ASSUME NEW r \in Recalls, NEW l \in Labels, Advance(r, l) PROVE VerdictOK'
  BY <1>0, <1>4 DEF Advance, Judged
<1>5. ASSUME UNCHANGED <<epoch, cancelled, ep, pc, verdict, plan>> PROVE VerdictOK'
  BY <1>5
<1>. QED BY <1>0, <1>1, <1>2, <1>3, <1>4, <1>5, NextPlan

\* A newer call cannot have passed the gate that an undo holds.
LEMMA TakeNext == IInv /\ TakeFirst /\ [Next]_vars => TakeFirst'
<1>. SUFFICES ASSUME IInv, TakeFirst, [Next]_vars PROVE TakeFirst'
  OBVIOUS
<1>0. TypeOK /\ PathOK
  BY DEF IInv
<1>. USE DEF TakeFirst, Goto
<1>00. pc \in [Recalls -> Labels] /\ ep \in [Recalls -> Nat] /\ epoch \in Nat
  BY <1>0 DEF TypeOK
<1>1. ASSUME NEW r \in Recalls, Claim(r) PROVE TakeFirst'
  BY <1>00, <1>1 DEF Claim
<1>2. ASSUME NEW r \in Recalls, Enter(r) PROVE TakeFirst'
  <2>1. /\ gate = NoOne /\ UNCHANGED ep /\ (Kind[r] = "revert" \/ ep[r] # 0)
        /\ \E l \in Labels :
             /\ pc' = [pc EXCEPT ![r] = l]
             /\ l = "take" => ~IsCancelled(r) /\ Kind[r] # "revert"
    BY <1>2 DEF Enter, GateOpen, Labels, IInv, ClaimOK
  <2>2. \A q \in Recalls : pc[q] # "take"
    <3>1. GateExclusion /\ gate = NoOne
      BY <2>1 DEF IInv
    <3>. QED BY <3>1, NoOneAssumption DEF GateExclusion, Bracket
  <2>3. ASSUME ~IsCancelled(r), Kind[r] # "revert", NEW q \in Recalls
        PROVE  ~(ep[q] > ep[r])
    <3>1. ep[r] # 0 /\ ep[r] <= epoch /\ ~(ep[r] < epoch)
      BY <2>1, <2>3 DEF IInv, LatestWins
    <3>2. ep[q] <= epoch \/ ep[q] = 0
      BY DEF IInv, LatestWins
    <3>. QED BY <1>00, <3>1, <3>2
  <2>. QED BY <1>00, <2>1, <2>2, <2>3
<1>3. ASSUME NEW r \in Recalls,
             \/ LeaveSuperseded(r) \/ Resolve(r) \/ Judge(r) \/ LeaveRowOnly(r)
             \/ Leave(r) \/ ClearPlan(r) \/ TakeUndo(r)
      PROVE  TakeFirst'
  <2>1. /\ pc[r] \notin {"claimed", "queued"} /\ UNCHANGED ep
        /\ \E l \in Labels \ {"take"} : pc' = [pc EXCEPT ![r] = l]
    <3>1. CASE LeaveSuperseded(r) \/ Resolve(r)
      BY <3>1 DEF LeaveSuperseded, Resolve, Labels
    <3>2. CASE Judge(r) \/ LeaveRowOnly(r)
      BY <3>2 DEF Judge, LeaveRowOnly, Sent, Labels
    <3>3. CASE Leave(r) \/ ClearPlan(r)
      BY <3>3 DEF Leave, ClearPlan, Labels
    <3>4. CASE TakeUndo(r)
      BY <3>4 DEF TakeUndo, Labels
    <3>. QED BY <1>3, <3>1, <3>2, <3>3, <3>4
  <2>. QED BY <1>00, <2>1
<1>4. ASSUME NEW r \in Recalls, NEW l \in Labels, Advance(r, l) PROVE TakeFirst'
  BY <1>00, <1>4 DEF Advance
<1>5. ASSUME UNCHANGED <<epoch, cancelled, ep, pc, verdict, plan>> PROVE TakeFirst'
  BY <1>5
<1>. QED BY <1>0, <1>1, <1>2, <1>3, <1>4, <1>5, NextPlan

\* A completed recall was the newest when it completed, and a newer merge puts
\* its own stamp on the plan.
LEMMA OwnerNext == IInv /\ VerdictOK /\ PlanOwner /\ [Next]_vars => PlanOwner'
<1>. SUFFICES ASSUME IInv, VerdictOK, PlanOwner, [Next]_vars PROVE PlanOwner'
  OBVIOUS
<1>0. TypeOK /\ PathOK /\ ClaimOK /\ LatestWins
  BY DEF IInv
<1>00. /\ pc \in [Recalls -> Labels] /\ ep \in [Recalls -> Nat] /\ epoch \in Nat
       /\ verdict \in [Recalls -> {"open", "complete", "cancelled"}]
  BY <1>0 DEF TypeOK
<1>01. \A r, q \in Recalls :
         HasSnapshot(q) /\ verdict[q] = "complete" /\ plan.ep = ep[q] /\ Planned(r) =>
           ep[r] <= ep[q]
  BY DEF PlanOwner
<1>02. \A r \in Recalls : HasSnapshot(r) /\ pc[r] # "idle" => ep[r] # 0
  BY <1>0 DEF ClaimOK, HasSnapshot
<1>. USE DEF Planned
<1>. SUFFICES ASSUME NEW r \in Recalls, NEW q \in Recalls, HasSnapshot(q),
                     verdict'[q] = "complete", plan'.ep = ep'[q], Planned(r)'
              PROVE  ep'[r] <= ep'[q]
  BY DEF PlanOwner, HasSnapshot
<1>1. ASSUME NEW p \in Recalls, Claim(p) PROVE ep'[r] <= ep'[q]
  <2>1. pc[p] = "idle" /\ verdict[p] = "open"
    BY <1>00, <1>1 DEF Claim, VerdictOK
  <2>2. ep' = [ep EXCEPT ![p] = epoch + 1] /\ UNCHANGED <<verdict, plan>>
    BY <1>1 DEF Claim
  <2>3. p # q /\ p # r
    BY <1>00, <1>1, <2>1, <2>2 DEF Claim, Goto
  <2>4. Planned(r)
    BY <1>00, <1>1, <2>3 DEF Claim, Goto, HasSnapshot
  <2>. QED BY <1>00, <1>01, <2>2, <2>3, <2>4
<1>2. ASSUME NEW p \in Recalls, LeaveSuperseded(p) \/ Resolve(p) PROVE ep'[r] <= ep'[q]
  <2>1. UNCHANGED ep /\ pc[p] \in {"superseded", "resolve"} /\ verdict'[p] # "complete"
        /\ verdict[p] = "open" /\ \A c \in Recalls \ {p} : verdict'[c] = verdict[c] /\ pc'[c] = pc[c]
    BY <1>00, <1>2 DEF LeaveSuperseded, Resolve, Goto, VerdictOK
  <2>2. p # q /\ verdict[q] = "complete"
    BY <2>1
  <2>3. HasSnapshot(p) => plan'.ep = ep[p]
    BY <1>2 DEF LeaveSuperseded, Resolve, Merged
  <2>4. ~HasSnapshot(p)
    <3>1. ASSUME HasSnapshot(p) PROVE FALSE
      <4>1. ep[p] = ep[q] /\ ep[p] # 0
        BY <1>02, <2>1, <2>3, <3>1
      <4>. QED BY <1>0, <2>2, <4>1 DEF LatestWins
    <3>. QED BY <3>1
  <2>5. p # r /\ plan' = plan
    BY <1>0, <1>2, <2>4 DEF HasSnapshot, LeaveSuperseded, Resolve, PathOK
  <2>. QED BY <1>01, <2>1, <2>2, <2>5 DEF HasSnapshot
<1>3. ASSUME NEW p \in Recalls, Judge(p) PROVE ep'[r] <= ep'[q]
  <2>1. /\ UNCHANGED <<ep, plan>> /\ verdict' = [verdict EXCEPT ![p] = Outcome(p)]
        /\ pc[p] \in {"owns", "join"} /\ pc' = [pc EXCEPT ![p] = "commit"]
    BY <1>3 DEF Judge, Sent, Goto, shared
  <2>2. Planned(r)
    BY <1>0, <1>00, <2>1 DEF PathOK, HasSnapshot
  <2>3. CASE p = q
    <3>1. ~IsCancelled(q) /\ ep[q] # 0
      BY <1>00, <1>02, <2>1, <2>3 DEF Outcome
    <3>2. ep[q] = epoch
      BY <1>0, <1>00, <3>1 DEF LatestWins
    <3>. QED BY <1>0, <1>00, <2>1, <3>2 DEF LatestWins
  <2>4. CASE p # q
    BY <1>00, <1>01, <2>1, <2>2, <2>4
  <2>. QED BY <2>3, <2>4
<1>4. ASSUME NEW p \in Recalls, LeaveRowOnly(p) \/ Leave(p) PROVE ep'[r] <= ep'[q]
  <2>1. /\ UNCHANGED <<ep, plan>> /\ \A c \in Recalls \ {p} : pc'[c] = pc[c] /\ verdict'[c] = verdict[c]
        /\ pc[p] \in {"rowdone", "leave", "undoing", "reverting"}
        /\ pc[p] = "leave" => verdict' = verdict
    BY <1>00, <1>4 DEF LeaveRowOnly, Leave, Goto
  <2>2. pc[p] # "leave" => ~HasSnapshot(p)
    BY <1>0, <2>1 DEF PathOK, HasSnapshot
  <2>3. Planned(r) /\ verdict[q] = "complete"
    BY <2>1, <2>2 DEF HasSnapshot
  <2>. QED BY <1>01, <2>1, <2>3
<1>5. ASSUME NEW p \in Recalls, ClearPlan(p) \/ TakeUndo(p) PROVE ep'[r] <= ep'[q]
  <2>1. UNCHANGED <<ep, verdict>> /\ plan' \in {plan, NoPlan}
    BY <1>5 DEF ClearPlan, TakeUndo
  <2>2. Planned(r)
    BY <1>0, <1>00, <1>5 DEF ClearPlan, TakeUndo, Goto, PathOK, HasSnapshot
  <2>3. ep[q] # 0
    BY <1>00, <1>02, <2>1 DEF VerdictOK
  <2>. QED BY <1>01, <2>1, <2>2, <2>3 DEF NoPlan
<1>6. ASSUME NEW p \in Recalls, NEW l \in Labels, Advance(p, l) PROVE ep'[r] <= ep'[q]
  BY <1>00, <1>01, <1>6 DEF Advance, After, HasSnapshot
<1>7. ASSUME UNCHANGED <<epoch, cancelled, ep, pc, verdict, plan>> PROVE ep'[r] <= ep'[q]
  BY <1>01, <1>7 DEF HasSnapshot
<1>8. ASSUME NEW p \in Recalls, Enter(p) PROVE ep'[r] <= ep'[q]
  <2>1. /\ UNCHANGED <<ep, verdict, plan>> /\ pc[p] = "queued"
        /\ \E l \in Labels \ After : pc' = [pc EXCEPT ![p] = l]
    BY <1>8 DEF Enter, Goto, Labels, After
  <2>. QED BY <1>00, <1>01, <2>1 DEF After, HasSnapshot
<1>. QED BY <1>0, <1>1, <1>2, <1>3, <1>4, <1>5, <1>6, <1>7, <1>8, NextPlan

\* A merge adds addresses to the plan and takes none away.
LEMMA MergedNamed ==
  ASSUME TypeOK, NEW r \in Recalls, NEW f \in Settings
  PROVE  /\ Named(Merged(r, f).vals) = Named(f) \cup Named(plan.vals)
         /\ Named(f) \subseteq Addr
  BY DEF TypeOK, Merged, Named, Over, Settings

\* What a recall does not resolve is the slots of palettes.
LEMMA ResolvedNamed ==
  ASSUME NEW r \in Recalls
  PROVE  Named(Own[r]) \subseteq Named(Resolved(r)) \cup Palette
  BY DEF Named, Resolved, Skipped

\* What a superseded call left in the plan stays while no newer call completes:
\* a plan that is cleared or dropped is that of a newer call.
LEMMA KeptNext ==
  IInv /\ VerdictOK /\ TakeFirst /\ PlanOwner /\ PlanKept /\ [Next]_vars => PlanKept'
<1>. SUFFICES ASSUME IInv, VerdictOK, TakeFirst, PlanOwner, PlanKept, [Next]_vars
              PROVE  PlanKept'
  OBVIOUS
<1>0. TypeOK /\ PathOK /\ ClaimOK /\ LatestWins
  BY DEF IInv
<1>00. /\ pc \in [Recalls -> Labels] /\ ep \in [Recalls -> Nat] /\ epoch \in Nat
       /\ verdict \in [Recalls -> {"open", "complete", "cancelled"}]
  BY <1>0 DEF TypeOK
<1>02. \A r \in Recalls : HasSnapshot(r) /\ pc[r] # "idle" => ep[r] # 0
  BY <1>0 DEF ClaimOK, HasSnapshot
<1>. SUFFICES ASSUME NEW r \in Recalls, Planned(r)', verdict'[r] # "complete", NoneNewer(r)'
              PROVE  Named(Own[r]) \subseteq Named(plan'.vals) \cup Palette
  BY DEF PlanKept, Named
<1>01. Planned(r) /\ verdict[r] # "complete" /\ NoneNewer(r) =>
         Named(Own[r]) \subseteq Named(plan.vals) \cup Palette
  BY DEF PlanKept
<1>. USE DEF Planned, NoneNewer
<1>1. ASSUME NEW p \in Recalls, Claim(p)
      PROVE  Named(Own[r]) \subseteq Named(plan'.vals) \cup Palette
  <2>1. pc[p] = "idle" /\ verdict[p] = "open" /\ ep[p] = 0
    BY <1>0, <1>00, <1>1 DEF Claim, VerdictOK, ClaimOK
  <2>2. ep' = [ep EXCEPT ![p] = epoch + 1] /\ UNCHANGED <<verdict, plan>>
        /\ pc' = [pc EXCEPT ![p] = "claimed"]
    BY <1>1 DEF Claim, Goto
  <2>3. p # r /\ Planned(r)
    BY <1>00, <2>2 DEF HasSnapshot
  <2>4. NoneNewer(r)
    BY <1>00, <2>1, <2>2, <2>3
  <2>. QED BY <1>01, <2>2, <2>3, <2>4
<1>2. ASSUME NEW p \in Recalls, LeaveSuperseded(p) \/ Resolve(p)
      PROVE  Named(Own[r]) \subseteq Named(plan'.vals) \cup Palette
  <2>1. /\ UNCHANGED ep /\ pc[p] \in {"superseded", "resolve"} /\ verdict[p] = "open"
        /\ \A c \in Recalls \ {p} : verdict'[c] = verdict[c] /\ pc'[c] = pc[c]
    BY <1>00, <1>2 DEF LeaveSuperseded, Resolve, Goto, VerdictOK
  <2>2. \/ plan' = plan /\ ~HasSnapshot(p)
        \/ \E f \in {Own[p], Resolved(p)} : plan' = Merged(p, f)
    BY <1>0, <1>2 DEF LeaveSuperseded, Resolve
  <2>3. Named(plan.vals) \subseteq Named(plan'.vals)
    BY <1>0, <2>2, MergedNamed, ResolvedType
  <2>4. CASE p = r
    <3>1. PICK f \in {Own[r], Resolved(r)} : plan' = Merged(r, f)
      BY <2>2, <2>4 DEF HasSnapshot
    <3>2. Named(f) \subseteq Named(plan'.vals)
      BY <1>0, <3>1, MergedNamed, ResolvedType
    <3>. QED BY <3>1, <3>2, ResolvedNamed
  <2>5. CASE p # r
    <3>1. Planned(r) /\ verdict[r] # "complete"
      BY <2>1, <2>5 DEF HasSnapshot
    <3>2. NoneNewer(r)
      BY <2>1
    <3>. QED BY <1>01, <2>3, <3>1, <3>2
  <2>. QED BY <2>4, <2>5
<1>3. ASSUME NEW p \in Recalls, Judge(p)
      PROVE  Named(Own[r]) \subseteq Named(plan'.vals) \cup Palette
  <2>1. /\ UNCHANGED <<ep, plan>> /\ verdict[p] = "open"
        /\ \A c \in Recalls \ {p} : verdict'[c] = verdict[c] /\ pc'[c] = pc[c]
        /\ pc[p] \in {"owns", "join"}
    BY <1>00, <1>3 DEF Judge, Sent, Goto, shared, VerdictOK
  <2>2. Planned(r) /\ verdict[r] # "complete" /\ NoneNewer(r)
    BY <2>1 DEF HasSnapshot
  <2>. QED BY <1>01, <2>1, <2>2
<1>4. ASSUME NEW p \in Recalls, LeaveRowOnly(p) \/ Leave(p)
      PROVE  Named(Own[r]) \subseteq Named(plan'.vals) \cup Palette
  <2>1. /\ UNCHANGED <<ep, plan>>
        /\ \A c \in Recalls \ {p} : pc'[c] = pc[c] /\ verdict'[c] = verdict[c]
        /\ \/ pc[p] = "leave" /\ verdict' = verdict
           \/ pc[p] \in {"rowdone", "undoing", "reverting"} /\ verdict[p] = "open"
    BY <1>00, <1>4 DEF LeaveRowOnly, Leave, Goto, VerdictOK
  <2>2. pc[p] # "leave" => ~HasSnapshot(p)
    BY <1>0, <2>1 DEF PathOK, HasSnapshot
  <2>3. Planned(r) /\ verdict[r] # "complete"
    BY <2>1, <2>2 DEF HasSnapshot
  <2>4. NoneNewer(r)
    BY <2>1
  <2>. QED BY <1>01, <2>1, <2>3, <2>4
<1>5. ASSUME NEW p \in Recalls, ClearPlan(p)
      PROVE  Named(Own[r]) \subseteq Named(plan'.vals) \cup Palette
  <2>1. /\ UNCHANGED <<ep, verdict>> /\ pc[p] = "unplan"
        /\ plan' = IF verdict[p] = "complete" /\ plan.ep = ep[p] THEN NoPlan ELSE plan
    BY <1>5 DEF ClearPlan, PlanOfItsOwn
  <2>2. Planned(r) /\ verdict[r] # "complete" /\ NoneNewer(r) /\ HasSnapshot(p)
    BY <1>0, <1>00, <1>5, <2>1 DEF ClearPlan, Goto, PathOK, HasSnapshot
  <2>3. ASSUME verdict[p] = "complete", plan.ep = ep[p] PROVE FALSE
    <3>1. ep[r] <= ep[p]
      BY <2>2, <2>3 DEF PlanOwner
    <3>2. p # r /\ ep[p] # 0
      BY <1>02, <2>1, <2>2, <2>3
    <3>3. ep[r] < ep[p]
      BY <1>0, <1>00, <3>1, <3>2 DEF LatestWins
    <3>. QED BY <1>00, <2>2, <2>3, <3>3
  <2>. QED BY <1>01, <2>1, <2>2, <2>3
<1>6. ASSUME NEW p \in Recalls, TakeUndo(p)
      PROVE  Named(Own[r]) \subseteq Named(plan'.vals) \cup Palette
  <2>1. /\ UNCHANGED <<ep, verdict>> /\ pc[p] = "take" /\ Kind[p] = "undo"
        /\ \A c \in Recalls \ {p} : pc'[c] = pc[c]
    BY <1>0, <1>00, <1>6 DEF TakeUndo, PathOK, Goto
  <2>2. Planned(r) /\ p # r
    BY <2>1 DEF HasSnapshot
  <2>3. ep[p] <= ep[r]
    BY <1>00, <2>1, <2>2
  <2>4. ep[p] # 0 /\ ep[p] # ep[r]
    BY <1>0, <2>1, <2>2 DEF ClaimOK, LatestWins
  <2>5. ep[r] > ep[p]
    BY <1>00, <2>3, <2>4
  <2>6. pc[r] \in {"claimed", "queued"}
    BY <2>1, <2>5 DEF TakeFirst
  <2>. QED BY <2>2, <2>6
<1>7. ASSUME NEW p \in Recalls, NEW l \in Labels, Advance(p, l)
      PROVE  Named(Own[r]) \subseteq Named(plan'.vals) \cup Palette
  <2>1. UNCHANGED <<ep, verdict, plan>> /\ Planned(r)
    BY <1>00, <1>7 DEF Advance, After, HasSnapshot
  <2>. QED BY <1>01, <2>1
<1>8. ASSUME UNCHANGED <<epoch, cancelled, ep, pc, verdict, plan>>
      PROVE  Named(Own[r]) \subseteq Named(plan'.vals) \cup Palette
  BY <1>01, <1>8 DEF HasSnapshot
<1>9. ASSUME NEW p \in Recalls, Enter(p)
      PROVE  Named(Own[r]) \subseteq Named(plan'.vals) \cup Palette
  <2>1. /\ UNCHANGED <<ep, verdict, plan>>
        /\ \E l \in Labels \ After : pc' = [pc EXCEPT ![p] = l]
    BY <1>9 DEF Enter, Goto, Labels, After
  <2>2. Planned(r)
    BY <1>00, <2>1 DEF After, HasSnapshot
  <2>. QED BY <1>01, <2>1, <2>2
<1>. QED BY <1>0, <1>1, <1>2, <1>3, <1>4, <1>5, <1>6, <1>7, <1>8, <1>9, NextPlan

-----------------------------------------------------------------------------
\* The invariant of the plan, over that of the engine.
PlanInv == IInv /\ VerdictOK /\ TakeFirst /\ PlanOwner /\ PlanKept

\* It holds at the start, when nothing is planned, and every step keeps it.
LEMMA PlanInvAlways == Spec => []PlanInv
<1>1. Init => PlanInv
  <2>. SUFFICES ASSUME Init PROVE PlanInv
    OBVIOUS
  <2>1. VerdictOK /\ TakeFirst /\ PlanOwner /\ PlanKept
    BY DEF Init, VerdictOK, TakeFirst, PlanOwner, PlanKept, Planned
  <2>. QED BY <2>1, IInvInit DEF PlanInv
<1>2. PlanInv /\ [Next]_vars => PlanInv'
  BY IInvNext, VerdictNext, TakeNext, OwnerNext, KeptNext DEF PlanInv
<1>. QED BY <1>1, <1>2, PTL DEF Spec

\* superseded_plan: what a superseded cue set is in the plan until a later call
\* completes or an undo drops it, whatever was merged, cleared or entered since.
THEOREM SupersededKeptCorrect == Spec => []SupersededKept
<1>1. PlanInv => SupersededKept
  BY DEF PlanInv, PlanKept, SupersededKept, Planned, NoneNewer
<1>. QED BY <1>1, PlanInvAlways, PTL

-----------------------------------------------------------------------------
(* The refinement.                                                         *)

\* Recalls enter the gate in the order they claimed, a cancelled fade is gone
\* before its successor enters, the operator keeps his hands off, every datagram
\* lands, every call plays a snapshot, no cue loads a memory of the console, and
\* no palette slot is skipped.
PlainShow ==
  /\ InOrder /\ TasksStopFirst /\ MaxMoves = 0 /\ MaxDrops = 0
  /\ \A r \in Recalls : HasSnapshot(r) /\ Row[r] = Nothing
  /\ Palette = {} \/ Full = Recalls

-----------------------------------------------------------------------------
(* The inductive invariant of a plain show.                                 *)

\* Nothing but the recalls happens to the desk.
CalmOK == /\ report = Nothing /\ ~loading
          /\ \A r \in Recalls : pc[r] \notin {"fire", "forget", "settle"}

\* The calls stand in line for the gate in the order of their epochs, behind all
\* that have entered it.
LineOK ==
  /\ \A i \in 1 .. Len(queue) : pc[queue[i]] = "queued"
  /\ \A i, j \in 1 .. Len(queue) : i < j => ep[queue[i]] < ep[queue[j]]
  /\ \A r \in Recalls : pc[r] = "queued" => \E i \in 1 .. Len(queue) : queue[i] = r
  /\ \A r \in Recalls : pc[r] = "claimed" => ep[r] = epoch
  /\ \A r, q \in Recalls : pc[r] = "queued" /\ pc[q] \notin {"idle", "claimed", "queued"}
       => ep[q] < ep[r]

\* So the planned calls are the oldest.
PrefixOK ==
  \A r, q \in Recalls : Planned(r) /\ pc[q] # "idle" /\ ~Planned(q) => ep[r] < ep[q]

\* The tasks of one recall run at a time, and while they run nobody holds the gate.
AloneOK ==
  \A r \in Recalls : ~TasksEnded(r) =>
    gate = NoOne /\ \A q \in Recalls \ {r} : TasksEnded(q)

\* A call has the verdict its token had when it was judged.
VerdictTrue ==
  \A r \in Recalls :
    /\ pc[r] = "superseded" \/ verdict[r] = "cancelled" => IsCancelled(r)
    /\ pc[r] \in Judged => verdict[r] # "open"
    /\ pc[r] \in {"snaps", "owns", "join"} => own[r] = Own[r]

\* The plan is that of the last call planned until it completes; whoever sends
\* sends what is in the plan.
StampOK ==
  /\ plan.ep = 0 => plan.vals = Nothing
  /\ plan.ep # 0 => \E r \in Recalls : Planned(r) /\ ep[r] = plan.ep
  /\ \A r \in Recalls :
       /\ Planned(r) /\ plan.ep # 0 => ep[r] <= plan.ep
       /\ Planned(r) /\ plan.ep = ep[r] =>
            \A a \in Addr : Own[r][a] # None => plan.vals[a] = Own[r][a]
       /\ pc[r] \in {"snaps", "owns"} \/ ~TasksEnded(r) => plan.ep = ep[r]
       /\ pc[r] \in {"join", "commit", "wipe", "stamp", "unplan"} /\ ~IsCancelled(r)
            => plan.ep = ep[r]
       /\ pc[r] \in {"keep", "mark", "end", "leave", "done"} /\ ~IsCancelled(r)
            => plan.vals = Nothing

\* What the planned calls, played in order, leave at an address.
Sets(r, a) == Planned(r) /\ Own[r][a] # None
LastSets(r, a) == Sets(r, a) /\ \A q \in Recalls : Sets(q, a) => ep[q] <= ep[r]
Wants(a, v) == \/ v = Init0 /\ \A r \in Recalls : ~Sets(r, a)
               \/ \E r \in Recalls : LastSets(r, a) /\ v = Own[r][a]

\* The plan holds what is wanted, and what it does not name has been played.
WantsOK ==
  \A a \in Addr : Wants(a, IF plan.vals[a] # None THEN plan.vals[a] ELSE desk[a])

\* The send loops: what is left to send is the plan's, what is not left has landed.
SendsOK ==
  \A r \in Recalls :
    /\ cur[r] # None /\ cur[r].st = "sent" => desk[cur[r].at] = todo[r][cur[r].at]
    /\ pc[r] = "snaps" => \A a \in Addr :
         IF todo[r][a] # None THEN Own[r][a] = None /\ todo[r][a] = plan.vals[a]
         ELSE Own[r][a] = None => Wants(a, desk[a])
    /\ pc[r] = "owns" => \A a \in Addr :
         IF todo[r][a] # None THEN todo[r][a] = Own[r][a]
         ELSE IsCancelled(r) \/ Wants(a, desk[a])

\* A task goes through the discrete targets of its group, then Ticks times through
\* the continuous ones; until the recall is superseded the registry holds them all.
ShapeFits(r, g, t) ==
  /\ t.st = "off" => Targets(r, g) = {}
  /\ t.left \subseteq Targets(r, g) /\ t.phase <= Ticks
  /\ IF t.phase = 0 THEN t.left \cap Continuous = {} ELSE t.left \subseteq Continuous
  /\ t.st \in {"air", "sent"} => t.at \in t.left
ShapeOK ==
  \A r \in Recalls : pc[r] = "join" => \A g \in Groups :
    /\ ShapeFits(r, g, task[r][g])
    /\ ~TaskEnded(r, g) /\ ~IsCancelled(r) => \A a \in Targets(r, g) : registry[a] = gen[r]

\* A target that its task is past has its value.
Past(a, t) == \/ t.st = "done"
              \/ /\ t.st \in {"run", "air", "sent"}
                 /\ a \in Continuous => t.phase = Ticks
                 /\ a \notin t.left \/ (t.st = "sent" /\ t.at = a)
LandedOK ==
  \A r \in Recalls : pc[r] = "join" /\ ~IsCancelled(r) => \A a \in Addr :
    IF Own[r][a] = None THEN Wants(a, desk[a])
    ELSE Past(a, task[r][Group[a]]) => desk[a] = Own[r][a]

\* A recall that ran to its end has landed everything that is wanted.
CompleteOK ==
  \A r \in Recalls : Planned(r) /\ verdict[r] = "complete" /\ plan.ep = ep[r] =>
    \A a \in Addr : Wants(a, desk[a])

\* Of the calls fired that set an address one is the latest.
Fired(r, a) == ep[r] # 0 /\ Own[r][a] # None
LatestOK ==
  \A a \in Addr : (\E r \in Recalls : Fired(r, a)) =>
    \E r \in Recalls : Fired(r, a) /\ \A q \in Recalls : Fired(q, a) => ep[q] <= ep[r]

-----------------------------------------------------------------------------
(* The steps of a plain show.                                               *)

\* What the invariant is about.
score == <<epoch, cancelled, gate, queue, ep, pc, plan, own, todo, cur, verdict,
           task, registry, gen, desk>>

\* A step between two labels at which a call only waits for its turn.
Restful(r, l) ==
  \/ pc[r] = "entered" /\ l = "resolve"
  \/ pc[r] \in {"commit", "wipe", "stamp"} /\ l \in {"wipe", "stamp", "unplan"}
  \/ pc[r] \in {"keep", "mark", "end", "leave"} /\ l \in {"mark", "end", "leave", "done"}
Rests(r, l) ==
  /\ Restful(r, l) /\ pc' = [pc EXCEPT ![r] = l]
  /\ gate' \in {gate, NoOne}
  /\ \/ todo' = todo
     \/ pc[r] = "leave" /\ todo' = [todo EXCEPT ![r] = Nothing]
  /\ UNCHANGED <<epoch, cancelled, queue, ep, plan, own, cur, verdict, task,
                 registry, gen, desk, report, loading>>

\* Which steps a plain show has.
LEMMA PlainNext ==
  ASSUME PlainShow, TypeOK, PathOK, CalmOK, [Next]_vars
  PROVE  \/ \E r \in Recalls :
              \/ Claim(r) \/ Enqueue(r) \/ Enter(r) \/ LeaveSuperseded(r) \/ Resolve(r)
              \/ \E a \in Addr : Pick(r, a)
              \/ Transmit(r) \/ Reflect(r) \/ StartOwn(r) \/ Spawn(r) \/ Tasks(r)
              \/ Judge(r) \/ ClearPlan(r) \/ \E l \in Labels : Rests(r, l)
         \/ UNCHANGED <<score, report, loading>>
<1>. USE DEF shared, locals, world, Goto, ReleaseGate
<1>1. \A r \in Recalls :
        pc[r] \notin {"rowdone", "take", "undoing", "revert", "reverting", "fire",
                     "forget", "settle"}
  BY DEF PlainShow, HasSnapshot, PathOK, CalmOK
<1>2. ASSUME NEW r \in Recalls, MarkInFlight(r) PROVE Rests(r, "resolve")
  <2>1. ~HasRow(r) /\ Kind[r] # "rowonly"
    BY DEF PlainShow, HasSnapshot, HasRow, Named, Nothing
  <2>. QED BY <1>2, <2>1 DEF MarkInFlight, Rests, Restful
<1>3. ASSUME NEW r \in Recalls, CommitCheck(r) \/ CommitStore(r)
      PROVE  \E l \in Labels : Rests(r, l)
  <2>1. CASE CommitCheck(r)
    <3>1. \E l \in {"unplan", "wipe", "stamp"} : Rests(r, l)
      BY <2>1 DEF CommitCheck, Rests, Restful
    <3>. QED BY <3>1 DEF Labels
  <2>2. CASE CommitStore(r)
    <3>1. Rests(r, "unplan")
      BY <2>2 DEF CommitStore, Rests, Restful
    <3>. QED BY <3>1 DEF Labels
  <2>. QED BY <1>3, <2>1, <2>2
<1>4. ASSUME NEW r \in Recalls, StoreUndo(r) \/ MarkLastRecalled(r) \/ Finish(r)
      PROVE  \E l \in Labels : Rests(r, l)
  <2>1. CASE StoreUndo(r)
    <3>1. Rests(r, "mark")
      BY <2>1 DEF StoreUndo, Rests, Restful
    <3>. QED BY <3>1 DEF Labels
  <2>2. CASE MarkLastRecalled(r)
    <3>1. Rests(r, "end")
      BY <2>2 DEF MarkLastRecalled, Rests, Restful
    <3>. QED BY <3>1 DEF Labels
  <2>3. CASE Finish(r)
    <3>1. \E l \in {"leave", "done"} : Rests(r, l)
      BY <2>3 DEF Finish, Rests, Restful
    <3>. QED BY <3>1 DEF Labels
  <2>. QED BY <1>4, <2>1, <2>2, <2>3
<1>5. ASSUME NEW r \in Recalls, Leave(r) PROVE \E l \in Labels : Rests(r, l)
  <2>1. Rests(r, "done")
    BY <1>1, <1>5 DEF Leave, Rests, Restful
  <2>. QED BY <2>1 DEF Labels
<1>6. ASSUME NEW r \in Recalls,
             \/ FireMemory(r) \/ ForgetPalettes(r) \/ Settle(r) \/ LeaveRowOnly(r)
             \/ TakeUndo(r) \/ StartRevert(r)
      PROVE  FALSE
  BY <1>1, <1>6 DEF FireMemory, ForgetPalettes, Settle, LeaveRowOnly, TakeUndo, StartRevert
<1>7. ASSUME NEW a \in Addr, Move(a) \/ Dispatch(a) PROVE FALSE
  <2>1. ~(moves < MaxMoves) /\ report[a] = None
    BY DEF PlainShow, TypeOK, CalmOK, Nothing
  <2>. QED BY <1>7, <2>1 DEF Move, Dispatch
<1>8. ~LoadOver
  BY DEF CalmOK, LoadOver
<1>9. ASSUME UNCHANGED vars PROVE UNCHANGED <<score, report, loading>>
  BY <1>9 DEF vars, score
<1>. HIDE DEF shared, locals, world, Goto, ReleaseGate
<1>10. CASE \E r \in Recalls : Claim(r) \/ Process(r)
  <2>1. PICK r \in Recalls : Claim(r) \/ Process(r)
    BY <1>10
  <2>2. CASE Claim(r) \/ Enqueue(r) \/ Tasks(r)
    BY <2>2
  <2>3. CASE Gated(r)
    BY <2>3, <1>2, <1>6 DEF Gated, Labels
  <2>4. CASE Tail_(r)
    BY <2>4, <1>3, <1>4, <1>5 DEF Tail_
  <2>5. CASE Undoing(r)
    BY <2>5, <1>6 DEF Undoing
  <2>. QED BY <2>1, <2>2, <2>3, <2>4, <2>5 DEF Process
<1>. QED BY <1>7, <1>8, <1>9, <1>10 DEF Next, Terminated

\* Where no datagram is lost every one lands.
LEMMA SureTransmit ==
  ASSUME MaxDrops = 0, TypeOK, NEW r \in Recalls, Transmit(r)
  PROVE  /\ cur[r] # None /\ cur[r].st = "air" /\ cur[r].at \in Addr
         /\ desk' = [desk EXCEPT ![cur[r].at] = todo[r][cur[r].at]]
         /\ cur' = [cur EXCEPT ![r] = [at |-> cur[r].at, st |-> "sent"]]
         /\ UNCHANGED <<epoch, cancelled, gate, queue, ep, pc, plan, own, todo, verdict,
                        task, registry, gen, report, loading>>
<1>1. ~(drops < MaxDrops)
  BY DEF TypeOK
<1>2. cur[r] \in [at : Addr, st : {"air", "sent"}] /\ cur[r].st = "air"
  BY DEF Transmit, TypeOK, Cursor
<1>3. [cur[r] EXCEPT !.st = "sent"] = [at |-> cur[r].at, st |-> "sent"]
  BY <1>2
<1>4. cur' = [cur EXCEPT ![r] = [cur[r] EXCEPT !.st = "sent"]]
  BY <1>1 DEF Transmit
<1>5. /\ desk' = [desk EXCEPT ![cur[r].at] = todo[r][cur[r].at]]
      /\ UNCHANGED todo /\ cur[r] # None
  BY <1>1 DEF Transmit
<1>6. UNCHANGED <<epoch, cancelled, gate, queue, ep, pc, plan, own, verdict, task, registry,
                  gen, report, loading>>
  BY DEF Transmit, shared
<1>. QED BY <1>2, <1>3, <1>4, <1>5, <1>6

\* So does every one of a plain show.
LEMMA PlainTransmit ==
  ASSUME PlainShow, TypeOK, NEW r \in Recalls, Transmit(r)
  PROVE  /\ cur[r] # None /\ cur[r].st = "air" /\ cur[r].at \in Addr
         /\ desk' = [desk EXCEPT ![cur[r].at] = todo[r][cur[r].at]]
         /\ cur' = [cur EXCEPT ![r] = [at |-> cur[r].at, st |-> "sent"]]
         /\ UNCHANGED <<epoch, cancelled, gate, queue, ep, pc, plan, own, todo, verdict,
                        task, registry, gen, report, loading>>
  BY SureTransmit DEF PlainShow

\* The steps of a task, and what they change.
TaskSends(r, g, t) ==
  /\ task[r][g].st = "air" /\ t = [task[r][g] EXCEPT !.st = "sent"]
  /\ desk' = [desk EXCEPT ![task[r][g].at] = TaskValue(r, task[r][g])]
  /\ UNCHANGED registry
TaskMoves(r, g, t) ==
  LET s == task[r][g]
      fading == Targets(r, g) \cap Continuous
  IN
  /\ UNCHANGED desk
  /\ \/ /\ s.st \in {"wait", "run"} /\ IsCancelled(r) /\ UNCHANGED registry
        /\ t = [IdleTask EXCEPT !.st = "done"]
     \/ /\ s.st = "wait" /\ UNCHANGED registry
        /\ t = [st |-> "run", phase |-> 0, at |-> None, left |-> Targets(r, g) \ Continuous]
     \/ /\ s.st = "run" /\ UNCHANGED registry
        /\ \E a \in s.left : \/ t = [s EXCEPT !.st = "air", !.at = a]
                             \/ /\ t = [s EXCEPT !.left = @ \ {a}]
                                /\ registry[a] # gen[r]
     \/ /\ s.st = "sent" /\ UNCHANGED registry
        /\ t = [s EXCEPT !.st = "run", !.left = @ \ {s.at}, !.at = None]
     \/ /\ s.st = "run" /\ s.left = {} /\ s.phase < Ticks /\ UNCHANGED registry
        /\ t = [s EXCEPT !.phase = @ + 1, !.left = fading]
     \/ /\ s.st = "run" /\ s.left = {} /\ (s.phase = Ticks \/ fading = {})
        /\ t = [IdleTask EXCEPT !.st = "done"]
        /\ registry' = [a \in Addr |-> IF a \in fading THEN 0 ELSE registry[a]]

\* A step of a recall's tasks is one of those, of one of its groups.
LEMMA SureTask ==
  ASSUME MaxDrops = 0, TypeOK, NEW r \in Recalls, Tasks(r)
  PROVE  /\ \E g \in Groups, t \in TaskState :
              /\ ~TaskEnded(r, g) /\ task' = [task EXCEPT ![r][g] = t]
              /\ TaskSends(r, g, t) \/ TaskMoves(r, g, t)
         /\ UNCHANGED <<epoch, cancelled, gate, queue, ep, pc, plan, own, todo, cur,
                        verdict, gen, report, loading>>
<1>. USE DEF world, TaskStep, TaskEnded
<1>1. ~(drops < MaxDrops)
  BY DEF TypeOK
<1>2. PICK g \in Groups :
        \/ PreWaitOver(r, g) \/ (\E a \in Addr : TaskPick(r, g, a))
        \/ TaskTransmit(r, g) \/ TaskReflect(r, g)
        \/ NextTick(r, g) \/ CloseTask(r, g)
  BY DEF Tasks
<1>. DEFINE s == task[r][g]
            fading == Targets(r, g) \cap Continuous
<1>3. s \in TaskState
  BY DEF TypeOK
<1>4. /\ UNCHANGED <<epoch, cancelled, gate, queue, ep, pc, plan, own, todo, cur,
                     verdict, gen, report, loading>>
      /\ ~TaskEnded(r, g)
  BY <1>2 DEF PreWaitOver, TaskPick, TaskTransmit, TaskReflect, NextTick, CloseTask
<1>5. ASSUME PreWaitOver(r, g)
      PROVE  \E t \in TaskState : task' = [task EXCEPT ![r][g] = t] /\ TaskMoves(r, g, t)
  <2>1. [st |-> "run", phase |-> 0, at |-> None, left |-> Targets(r, g) \ Continuous]
          \in TaskState
    BY DEF Targets, Named, TaskState
  <2>. QED BY <1>5, <2>1, IdleTaskType DEF PreWaitOver, TaskMoves
<1>6. ASSUME NEW a \in Addr, TaskPick(r, g, a)
      PROVE  \E t \in TaskState : task' = [task EXCEPT ![r][g] = t] /\ TaskMoves(r, g, t)
  <2>1. [s EXCEPT !.st = "air", !.at = a] \in TaskState /\ [s EXCEPT !.left = @ \ {a}] \in TaskState
    BY <1>3 DEF TaskState
  <2>. QED BY <1>6, <2>1, IdleTaskType DEF TaskPick, TaskMoves, ActiveFor
<1>7. ASSUME TaskTransmit(r, g)
      PROVE  \E t \in TaskState : task' = [task EXCEPT ![r][g] = t] /\ TaskSends(r, g, t)
  <2>1. [s EXCEPT !.st = "sent"] \in TaskState
    BY <1>3 DEF TaskState
  <2>. QED BY <1>1, <1>7, <2>1 DEF TaskTransmit, TaskSends
<1>8. ASSUME TaskReflect(r, g)
      PROVE  \E t \in TaskState : task' = [task EXCEPT ![r][g] = t] /\ TaskMoves(r, g, t)
  <2>1. [s EXCEPT !.st = "run", !.left = @ \ {s.at}, !.at = None] \in TaskState
    BY <1>3 DEF TaskState
  <2>. QED BY <1>8, <2>1 DEF TaskReflect, TaskMoves
<1>9. ASSUME NextTick(r, g)
      PROVE  \E t \in TaskState : task' = [task EXCEPT ![r][g] = t] /\ TaskMoves(r, g, t)
  <2>1. fading \in SUBSET Addr
    BY DEF Targets, Named
  <2>2. [s EXCEPT !.phase = @ + 1, !.left = fading] \in TaskState
    <3>. HIDE DEF s, fading
    <3>1. [s EXCEPT !.phase = @ + 1] \in TaskState
      BY <1>3 DEF TaskState
    <3>. QED BY <2>1, <3>1 DEF TaskState
  <2>. QED BY <1>9, <2>2, IdleTaskType DEF NextTick, TaskMoves
<1>10. ASSUME CloseTask(r, g)
      PROVE  \E t \in TaskState : task' = [task EXCEPT ![r][g] = t] /\ TaskMoves(r, g, t)
  BY <1>10, IdleTaskType DEF CloseTask, TaskMoves
<1>. QED BY <1>2, <1>4, <1>5, <1>6, <1>7, <1>8, <1>9, <1>10

\* As in a plain show.
LEMMA PlainTask ==
  ASSUME PlainShow, TypeOK, NEW r \in Recalls, Tasks(r)
  PROVE  /\ \E g \in Groups, t \in TaskState :
              /\ ~TaskEnded(r, g) /\ task' = [task EXCEPT ![r][g] = t]
              /\ TaskSends(r, g, t) \/ TaskMoves(r, g, t)
         /\ UNCHANGED <<epoch, cancelled, gate, queue, ep, pc, plan, own, todo, cur,
                        verdict, gen, report, loading>>
  BY SureTask DEF PlainShow

\* In a plain show the front of the line enters, to play or to leave.
LEMMA PlainEnter ==
  ASSUME PlainShow, NEW r \in Recalls, Enter(r)
  PROVE  /\ pc[r] = "queued" /\ gate = NoOne /\ queue # <<>> /\ Head(queue) = r
         /\ \A q \in cancelled \ {r} : TasksEnded(q)
         /\ gate' = r /\ queue' = Tail(queue)
         /\ pc' = [pc EXCEPT ![r] = IF IsCancelled(r) THEN "superseded" ELSE "entered"]
         /\ UNCHANGED <<epoch, cancelled, ep, plan, own, todo, cur, verdict, task,
                        registry, gen, desk, report, loading>>
<1>1. Kind[r] # "revert" /\ Kind[r] # "undo" /\ TasksStopFirst
  BY DEF PlainShow, HasSnapshot
<1>. QED BY <1>1 DEF Enter, GateOpen, Goto, world

\* Both merges of a plain show write all end-values of a recall into the plan.
LEMMA PlainSuperseded ==
  ASSUME PlainShow, NEW r \in Recalls, LeaveSuperseded(r)
  PROVE  /\ pc[r] = "superseded" /\ plan' = Merged(r, Own[r])
         /\ verdict' = [verdict EXCEPT ![r] = "cancelled"]
         /\ gate' = NoOne /\ pc' = [pc EXCEPT ![r] = "done"]
         /\ UNCHANGED <<epoch, cancelled, queue, ep, own, todo, cur, task, registry,
                        gen, desk, report, loading>>
  BY DEF PlainShow, LeaveSuperseded, ReleaseGate, Goto, world
\* Nothing is skipped, so the values a recall resolves are the cue's.
LEMMA PlainResolve ==
  ASSUME PlainShow, NEW r \in Recalls, Resolve(r)
  PROVE  /\ pc[r] = "resolve" /\ plan' = Merged(r, Own[r])
         /\ own' = [own EXCEPT ![r] = Own[r]]
         /\ todo' = [todo EXCEPT ![r] = Minus(plan.vals, Own[r])]
         /\ \/ Kind[r] = "timed" /\ registry' = [a \in Addr |-> 0]
               /\ gen' = [gen EXCEPT ![r] = generation + 1]
            \/ Kind[r] # "timed" /\ UNCHANGED <<registry, gen>>
         /\ pc' = [pc EXCEPT ![r] = "snaps"]
         /\ UNCHANGED <<epoch, cancelled, gate, queue, ep, cur, verdict, task, desk,
                        report, loading>>
<1>1. Skipped(r) = {}
  BY KindAssumption DEF PlainShow, Skipped
<1>2. Resolved(r) = Own[r]
  BY <1>1, OwnAssumption DEF Resolved, Settings
<1>. QED BY <1>2 DEF Resolve, Goto

\* The two hand-overs from a recall's snaps to its own values.
LEMMA PlainStart ==
  ASSUME PlainShow, NEW r \in Recalls, StartOwn(r)
  PROVE  /\ pc[r] = "snaps" /\ cur[r] = None /\ (IsCancelled(r) \/ todo[r] = Nothing)
         /\ todo' = [todo EXCEPT ![r] = own[r]] /\ pc' = [pc EXCEPT ![r] = "owns"]
         /\ UNCHANGED <<epoch, cancelled, gate, queue, ep, plan, own, cur, verdict, task,
                        registry, gen, desk, report, loading>>
  BY DEF StartOwn, LoopOver, Goto, shared, world
\* ... or it registers them, spawns its tasks and drops the gate.
LEMMA PlainSpawn ==
  ASSUME PlainShow, NEW r \in Recalls, Spawn(r)
  PROVE  /\ pc[r] = "snaps" /\ cur[r] = None /\ (IsCancelled(r) \/ todo[r] = Nothing)
         /\ Kind[r] = "timed"
         /\ registry' = [a \in Addr |-> IF own[r][a] # None THEN gen[r] ELSE registry[a]]
         /\ task' = [task EXCEPT ![r] =
                       [g \in Groups |-> IF Targets(r, g) = {} THEN IdleTask
                                         ELSE [IdleTask EXCEPT !.st = "wait"]]]
         /\ gate' = NoOne /\ pc' = [pc EXCEPT ![r] = "join"]
         /\ UNCHANGED <<epoch, cancelled, queue, ep, plan, own, todo, cur, verdict, gen,
                        desk, report, loading>>
  BY DEF Spawn, LoopOver, Goto, ReleaseGate, world

\* Its end: the sends or the tasks are over, and later the plan is cleared.
LEMMA PlainJudge ==
  ASSUME PlainShow, NEW r \in Recalls, Judge(r)
  PROVE  /\ \/ pc[r] = "owns" /\ cur[r] = None /\ (IsCancelled(r) \/ todo[r] = Nothing)
            \/ pc[r] = "join" /\ TasksEnded(r)
         /\ verdict' = [verdict EXCEPT ![r] = Outcome(r)]
         /\ todo' = [todo EXCEPT ![r] = Nothing] /\ pc' = [pc EXCEPT ![r] = "commit"]
         /\ UNCHANGED <<epoch, cancelled, gate, queue, ep, plan, own, cur, task, registry,
                        gen, desk, report, loading>>
  BY DEF Judge, Sent, LoopOver, Goto, shared, world
\* It clears the plan it stamped, if it completed.
LEMMA PlainClear ==
  ASSUME PlainShow, NEW r \in Recalls, ClearPlan(r)
  PROVE  /\ pc[r] = "unplan" /\ pc' = [pc EXCEPT ![r] = "keep"]
         /\ plan' = IF verdict[r] = "complete" /\ plan.ep = ep[r] THEN NoPlan ELSE plan
         /\ UNCHANGED <<epoch, cancelled, gate, queue, ep, own, todo, cur, verdict, task,
                        registry, gen, desk, report, loading>>
  BY DEF ClearPlan, PlanOfItsOwn, Goto, world

\* The claim, the line, and the sends of a loop.
LEMMA PlainClaim ==
  ASSUME PlainShow, NEW r \in Recalls, Claim(r)
  PROVE  /\ pc[r] = "idle" /\ \A q \in Recalls : pc[q] # "claimed"
         /\ cancelled \subseteq cancelled' /\ epoch' = epoch + 1
         /\ ep' = [ep EXCEPT ![r] = epoch + 1] /\ pc' = [pc EXCEPT ![r] = "claimed"]
         /\ UNCHANGED <<gate, queue, plan, own, todo, cur, verdict, task, registry, gen,
                        desk, report, loading>>
  BY DEF PlainShow, Claim, Superseding, Goto, world
\* A call that has claimed goes to the back of the line.
LEMMA PlainEnqueue ==
  ASSUME PlainShow, NEW r \in Recalls, Enqueue(r)
  PROVE  /\ pc[r] = "claimed" /\ pc' = [pc EXCEPT ![r] = "queued"]
         /\ queue' = Append(queue, r)
         /\ UNCHANGED <<epoch, cancelled, gate, ep, plan, own, todo, cur, verdict, task,
                        registry, gen, desk, report, loading>>
  BY DEF PlainShow, HasSnapshot, Enqueue, Goto, world
\* A loop takes up an address ...
LEMMA PlainPick ==
  ASSUME PlainShow, NEW r \in Recalls, NEW a \in Addr, Pick(r, a)
  PROVE  /\ cur' = [cur EXCEPT ![r] = [at |-> a, st |-> "air"]]
         /\ UNCHANGED <<epoch, cancelled, gate, queue, ep, pc, plan, own, todo, verdict,
                        task, registry, gen, desk, report, loading>>
  BY DEF Pick, shared, world
\* ... and has done with it once the datagram has left.
LEMMA PlainReflect ==
  ASSUME PlainShow, TypeOK, NEW r \in Recalls, Reflect(r)
  PROVE  /\ cur[r] # None /\ cur[r].st = "sent" /\ cur[r].at \in Addr
         /\ todo' = [todo EXCEPT ![r] = [todo[r] EXCEPT ![cur[r].at] = None]]
         /\ cur' = [cur EXCEPT ![r] = None]
         /\ UNCHANGED <<epoch, cancelled, gate, queue, ep, pc, plan, own, verdict, task,
                        registry, gen, desk, report, loading>>
<1>1. cur[r] # None /\ cur[r].st = "sent" /\ cur[r].at \in Addr
  BY DEF Reflect, TypeOK, Cursor
<1>. QED BY <1>1 DEF Reflect, shared

-----------------------------------------------------------------------------
(* Its invariant.                                                           *)

PlayInv == /\ IInv /\ VerdictOK /\ CalmOK /\ LineOK /\ PrefixOK /\ AloneOK /\ VerdictTrue
           /\ StampOK /\ WantsOK /\ SendsOK /\ ShapeOK /\ LandedOK /\ CompleteOK /\ LatestOK

\* Types of what the lemmas below are about.
LEMMA PlayTypes ==
  ASSUME PlayInv
  PROVE  /\ TypeOK /\ PathOK /\ CalmOK
         /\ pc \in [Recalls -> Labels] /\ ep \in [Recalls -> Nat] /\ epoch \in Nat
         /\ verdict \in [Recalls -> {"open", "complete", "cancelled"}]
         /\ queue \in Seq(Recalls) /\ gate \in Recalls \cup {NoOne}
         /\ plan \in [ep : Nat, vals : Settings] /\ desk \in [Addr -> Value]
         /\ todo \in [Recalls -> Settings] /\ own \in [Recalls -> Settings]
         /\ cur \in [Recalls -> Cursor] /\ registry \in [Addr -> Nat]
         /\ gen \in [Recalls -> Nat] /\ task \in [Recalls -> [Groups -> TaskState]]
  BY DEF PlayInv, IInv, TypeOK

\* What the engine's invariant says of calls with a snapshot, as all are here: who is
\* past its claim has an epoch of its own, who holds the gate is alone.
LEMMA PlayEpochs ==
  ASSUME PlainShow, PlayInv
  PROVE  /\ \A r \in Recalls : pc[r] = "idle" <=> ep[r] = 0
         /\ \A r \in Recalls : ep[r] <= epoch /\ (ep[r] # 0 => (r \in cancelled <=> ep[r] < epoch))
         /\ \A r, q \in Recalls : ep[r] # 0 /\ ep[r] = ep[q] => r = q
         /\ \A r, q \in Recalls : gate = r /\ pc[q] \in Bracket(q) => q = r
         /\ \A r \in Recalls : gate = r <=> pc[r] \in Bracket(r)
<1>1. \A r \in Recalls : Kind[r] # "revert"
  BY DEF PlainShow, HasSnapshot
<1>. QED BY <1>1, PlayTypes DEF PlayInv, IInv, ClaimOK, LatestWins, GateExclusion, IsCancelled

\* Nothing comes from outside.
LEMMA CalmNext == ASSUME PlainShow, PlayInv, [Next]_vars PROVE CalmOK'
<1>. USE DEF CalmOK
<1>0. TypeOK /\ PathOK /\ CalmOK /\ pc \in [Recalls -> Labels]
  BY PlayTypes
<1>1. UNCHANGED <<report, loading>>
      /\ \/ pc' = pc
         \/ \E r \in Recalls, l \in Labels \ {"fire", "forget", "settle"} :
              pc' = [pc EXCEPT ![r] = l]
  <2>1. ASSUME NEW r \in Recalls,
               \/ Claim(r) \/ Enqueue(r) \/ Enter(r) \/ LeaveSuperseded(r) \/ Resolve(r)
        PROVE  UNCHANGED <<report, loading>>
               /\ \E l \in Labels \ {"fire", "forget", "settle"} : pc' = [pc EXCEPT ![r] = l]
    BY <2>1, PlainClaim, PlainEnqueue, PlainEnter, PlainSuperseded, PlainResolve DEF Labels
  <2>2. ASSUME NEW r \in Recalls,
               \/ StartOwn(r) \/ Spawn(r) \/ Judge(r) \/ ClearPlan(r)
               \/ \E l \in Labels : Rests(r, l)
        PROVE  UNCHANGED <<report, loading>>
               /\ \E l \in Labels \ {"fire", "forget", "settle"} : pc' = [pc EXCEPT ![r] = l]
    BY <2>2, PlainStart, PlainSpawn, PlainJudge, PlainClear DEF Labels, Rests, Restful
  <2>3. ASSUME NEW r \in Recalls,
               \/ Transmit(r) \/ Reflect(r) \/ Tasks(r) \/ \E a \in Addr : Pick(r, a)
        PROVE  UNCHANGED <<report, loading, pc>>
    BY <1>0, <2>3, PlainTransmit, PlainReflect, PlainTask, PlainPick
  <2>4. ASSUME UNCHANGED <<score, report, loading>> PROVE UNCHANGED <<report, loading, pc>>
    BY <2>4 DEF score
  <2>. QED BY <1>0, <2>1, <2>2, <2>3, <2>4, PlainNext
<1>. QED BY <1>0, <1>1

\* Behind the gate a step moves one call on and leaves the line alone.
LEMMA PlainOnward ==
  ASSUME PlainShow, PlayInv, [Next]_vars
  PROVE  \/ \E r \in Recalls : Claim(r) \/ Enqueue(r) \/ Enter(r)
         \/ /\ UNCHANGED <<queue, ep, epoch, cancelled>>
            /\ \/ pc' = pc
               \/ \E r \in Recalls, l \in Labels \ {"idle", "claimed", "queued"} :
                    /\ pc' = [pc EXCEPT ![r] = l]
                    /\ pc[r] \notin {"idle", "claimed", "queued"}
<1>1. ASSUME NEW r \in Recalls, LeaveSuperseded(r) \/ Resolve(r) \/ StartOwn(r) \/ Spawn(r)
      PROVE  /\ UNCHANGED <<queue, ep, epoch, cancelled>>
             /\ \E l \in Labels \ {"idle", "claimed", "queued"} :
                    /\ pc' = [pc EXCEPT ![r] = l]
                    /\ pc[r] \notin {"idle", "claimed", "queued"}
  BY <1>1, PlainSuperseded, PlainResolve, PlainStart, PlainSpawn DEF Labels
<1>2. ASSUME NEW r \in Recalls, Judge(r) \/ ClearPlan(r) \/ \E l \in Labels : Rests(r, l)
      PROVE  /\ UNCHANGED <<queue, ep, epoch, cancelled>>
             /\ \E l \in Labels \ {"idle", "claimed", "queued"} :
                    /\ pc' = [pc EXCEPT ![r] = l]
                    /\ pc[r] \notin {"idle", "claimed", "queued"}
  BY <1>2, PlainJudge, PlainClear DEF Labels, Rests, Restful
<1>3. ASSUME NEW r \in Recalls,
             \/ Transmit(r) \/ Reflect(r) \/ Tasks(r) \/ \E a \in Addr : Pick(r, a)
      PROVE  UNCHANGED <<queue, ep, epoch, cancelled, pc>>
  BY <1>3, PlayTypes, PlainTransmit, PlainReflect, PlainTask, PlainPick
<1>4. ASSUME UNCHANGED <<score, report, loading>>
      PROVE  UNCHANGED <<queue, ep, epoch, cancelled, pc>>
  BY <1>4 DEF score
<1>. QED BY <1>1, <1>2, <1>3, <1>4, PlayTypes, PlainNext

\* A claim waits until the one before it is in the line; the front of the line goes
\* first.
LEMMA LineNext == ASSUME PlainShow, PlayInv, [Next]_vars PROVE LineOK'
<1>. USE DEF LineOK
<1>0. LineOK /\ pc \in [Recalls -> Labels] /\ ep \in [Recalls -> Nat] /\ epoch \in Nat
      /\ queue \in Seq(Recalls)
  BY PlayTypes DEF PlayInv
<1>1. ASSUME NEW r \in Recalls, Claim(r) PROVE LineOK'
  <2>1. /\ pc[r] = "idle" /\ \A q \in Recalls : pc[q] # "claimed"
        /\ UNCHANGED queue /\ epoch' = epoch + 1
        /\ ep' = [ep EXCEPT ![r] = epoch + 1] /\ pc' = [pc EXCEPT ![r] = "claimed"]
    BY <1>1, PlainClaim
  <2>2. \A i \in 1 .. Len(queue) : queue[i] \in Recalls /\ queue[i] # r
    BY <1>0, <2>1
  <2>. QED BY <1>0, <2>1, <2>2
<1>2. ASSUME NEW r \in Recalls, Enqueue(r) PROVE LineOK'
  <2>1. /\ pc[r] = "claimed" /\ pc' = [pc EXCEPT ![r] = "queued"]
        /\ queue' = Append(queue, r) /\ UNCHANGED <<epoch, ep>>
    BY <1>2, PlainEnqueue
  <2>2. ep[r] = epoch /\ \A q \in Recalls : ep[q] <= epoch /\ (q # r => ep[q] < epoch)
    BY <1>0, <2>1, PlayEpochs
  <2>3. /\ Len(queue') = Len(queue) + 1 /\ queue'[Len(queue) + 1] = r
        /\ \A i \in 1 .. Len(queue) : queue'[i] = queue[i] /\ queue[i] \in Recalls /\ queue[i] # r
        /\ Len(queue) \in Nat
    BY <1>0, <2>1
  <2>4. \A i \in 1 .. Len(queue') : i \in 1 .. Len(queue) \/ i = Len(queue) + 1
    BY <2>3
  <2>5. \A i \in 1 .. Len(queue') : pc'[queue'[i]] = "queued"
    BY <1>0, <2>1, <2>3, <2>4
  <2>6. ASSUME NEW i \in 1 .. Len(queue'), NEW j \in 1 .. Len(queue'), i < j
        PROVE  ep'[queue'[i]] < ep'[queue'[j]]
    <3>1. i \in 1 .. Len(queue)
      BY <2>3, <2>6
    <3>2. CASE j \in 1 .. Len(queue)
      BY <1>0, <2>1, <2>3, <2>6, <3>1, <3>2
    <3>3. CASE j = Len(queue) + 1
      BY <2>1, <2>2, <2>3, <3>1, <3>3
    <3>. QED BY <2>4, <3>2, <3>3
  <2>7. ASSUME NEW q \in Recalls, pc'[q] = "queued"
        PROVE  \E i \in 1 .. Len(queue') : queue'[i] = q
    <3>1. CASE q = r
      BY <2>3, <3>1
    <3>2. CASE q # r
      BY <1>0, <2>1, <2>3, <2>7, <3>2
    <3>. QED BY <3>1, <3>2
  <2>8. \A q \in Recalls : pc'[q] = "claimed" => ep'[q] = epoch'
    BY <1>0, <2>1
  <2>9. \A q, p \in Recalls : pc'[q] = "queued" /\ pc'[p] \notin {"idle", "claimed", "queued"}
          => ep'[p] < ep'[q]
    BY <1>0, <2>1, <2>2
  <2>. QED BY <2>5, <2>6, <2>7, <2>8, <2>9
<1>3. ASSUME NEW r \in Recalls, Enter(r) PROVE LineOK'
  <2>1. /\ pc[r] = "queued" /\ queue # <<>> /\ queue[1] = r /\ queue' = Tail(queue)
        /\ UNCHANGED <<epoch, ep>>
        /\ \E l \in Labels \ {"idle", "claimed", "queued"} : pc' = [pc EXCEPT ![r] = l]
    BY <1>0, <1>3, PlainEnter DEF Labels
  <2>2. /\ Len(queue) \in Nat /\ Len(queue) >= 1 /\ Len(queue') = Len(queue) - 1
        /\ \A i \in 1 .. Len(queue') : queue'[i] = queue[i + 1] /\ i + 1 \in 1 .. Len(queue)
        /\ \A i \in 1 .. Len(queue) : queue[i] \in Recalls
    BY <1>0, <2>1
  <2>3. \A i \in 1 .. Len(queue') : ep[r] < ep[queue'[i]] /\ queue'[i] # r
    BY <1>0, <2>1, <2>2
  <2>4. \A i \in 1 .. Len(queue') : pc'[queue'[i]] = "queued"
    BY <1>0, <2>1, <2>2, <2>3
  <2>5. \A i, j \in 1 .. Len(queue') : i < j => ep'[queue'[i]] < ep'[queue'[j]]
    BY <1>0, <2>1, <2>2
  <2>6. ASSUME NEW q \in Recalls, pc'[q] = "queued"
        PROVE  \E i \in 1 .. Len(queue') : queue'[i] = q
    <3>1. q # r /\ pc[q] = "queued"
      BY <1>0, <2>1, <2>6
    <3>2. PICK i \in 1 .. Len(queue) : queue[i] = q
      BY <1>0, <3>1
    <3>3. i # 1 /\ i - 1 \in 1 .. Len(queue')
      BY <2>1, <2>2, <3>1, <3>2
    <3>4. queue'[i - 1] = queue[(i - 1) + 1] /\ (i - 1) + 1 = i
      BY <2>2, <3>2, <3>3
    <3>. QED BY <3>2, <3>3, <3>4
  <2>7. \A q \in Recalls : pc'[q] = "claimed" => ep'[q] = epoch'
    BY <1>0, <2>1
  <2>8. \A q, p \in Recalls : pc'[q] = "queued" /\ pc'[p] \notin {"idle", "claimed", "queued"}
          => ep'[p] < ep'[q]
    BY <1>0, <2>1, <2>3, <2>6
  <2>. QED BY <2>4, <2>5, <2>6, <2>7, <2>8
<1>4. ASSUME UNCHANGED <<queue, ep, epoch, cancelled, pc>> PROVE LineOK'
  BY <1>0, <1>4
<1>5. ASSUME NEW r \in Recalls, NEW l \in Labels \ {"idle", "claimed", "queued"},
             UNCHANGED <<queue, ep, epoch, cancelled>>,
             pc' = [pc EXCEPT ![r] = l], pc[r] \notin {"idle", "claimed", "queued"}
      PROVE  LineOK'
  <2>1. \A i \in 1 .. Len(queue) : queue[i] \in Recalls
    BY <1>0
  <2>. QED BY <1>0, <1>5, <2>1
<1>. QED BY <1>1, <1>2, <1>3, <1>4, <1>5, PlainOnward

\* A merge plans one call more; every other step plans the calls it found planned.
LEMMA PlainPlanned ==
  ASSUME PlainShow, PlayInv, [Next]_vars
  PROVE  \/ \E r \in Recalls : LeaveSuperseded(r) \/ Resolve(r)
         \/ /\ \A r \in Recalls : Planned(r)' <=> Planned(r)
            /\ \A r \in Recalls : Planned(r) => ep'[r] = ep[r]
            /\ \A r \in Recalls : pc'[r] = "idle" => pc[r] = "idle"
            /\ \/ \E r \in Recalls : Claim(r)
               \/ UNCHANGED <<ep, epoch, cancelled>>
<1>. USE DEF Planned, HasSnapshot
<1>0. pc \in [Recalls -> Labels] /\ ep \in [Recalls -> Nat]
  BY PlayTypes
<1>. DEFINE Same == /\ \A r \in Recalls : Planned(r)' <=> Planned(r)
                    /\ \A r \in Recalls : pc'[r] = "idle" => pc[r] = "idle"
<1>1. ASSUME NEW r \in Recalls, NEW l \in Labels, pc' = [pc EXCEPT ![r] = l],
             pc[r] \in After <=> l \in After, l # "idle"
      PROVE  Same
  BY <1>0, <1>1 DEF After
<1>2. ASSUME NEW r \in Recalls, Claim(r)
      PROVE  Same /\ \A q \in Recalls : Planned(q) => ep'[q] = ep[q]
  <2>1. Same
    BY <1>1, <1>2, PlainClaim DEF After, Labels
  <2>. QED BY <1>0, <1>2, <2>1, PlainClaim
<1>3. ASSUME NEW r \in Recalls,
             \/ Enqueue(r) \/ Enter(r) \/ StartOwn(r) \/ Spawn(r)
      PROVE  Same /\ UNCHANGED <<ep, epoch, cancelled>>
  <2>1. \E l \in Labels : /\ pc' = [pc EXCEPT ![r] = l] /\ l # "idle"
                          /\ pc[r] \in After <=> l \in After
    BY <1>3, PlainEnqueue, PlainEnter, PlainStart, PlainSpawn DEF After, Labels
  <2>2. UNCHANGED <<ep, epoch, cancelled>>
    BY <1>3, PlainEnqueue, PlainEnter, PlainStart, PlainSpawn
  <2>. QED BY <1>1, <2>1, <2>2
<1>4. ASSUME NEW r \in Recalls, Judge(r) \/ ClearPlan(r) \/ \E l \in Labels : Rests(r, l)
      PROVE  Same /\ UNCHANGED <<ep, epoch, cancelled>>
  <2>1. \E l \in Labels : /\ pc' = [pc EXCEPT ![r] = l] /\ l # "idle"
                          /\ pc[r] \in After <=> l \in After
    BY <1>4, PlainJudge, PlainClear DEF After, Labels, Rests, Restful
  <2>2. UNCHANGED <<ep, epoch, cancelled>>
    BY <1>4, PlainJudge, PlainClear DEF Rests
  <2>. QED BY <1>1, <2>1, <2>2
<1>5. ASSUME NEW r \in Recalls,
             \/ Transmit(r) \/ Reflect(r) \/ Tasks(r) \/ \E a \in Addr : Pick(r, a)
      PROVE  Same /\ UNCHANGED <<ep, epoch, cancelled>>
  BY <1>5, PlayTypes, PlainTransmit, PlainReflect, PlainTask, PlainPick
<1>6. ASSUME UNCHANGED <<score, report, loading>>
      PROVE  Same /\ UNCHANGED <<ep, epoch, cancelled>>
  BY <1>6 DEF score
<1>. HIDE DEF Planned, HasSnapshot
<1>. QED BY <1>2, <1>3, <1>4, <1>5, <1>6, PlayTypes, PlainNext

\* Only the call in the gate merges: every call behind it in the line is newer, and
\* those ahead of it have merged.
LEMMA MergeIsNewest ==
  ASSUME PlainShow, PlayInv, NEW r \in Recalls, pc[r] \in {"superseded", "resolve"}
  PROVE  /\ \A q \in Recalls \ {r} : pc[q] # "idle" /\ ~Planned(q) => ep[r] < ep[q]
         /\ \A q \in Recalls : Planned(q) => ep[q] < ep[r]
         /\ ep[r] # 0 /\ gate = r /\ ~Planned(r)
<1>0. pc \in [Recalls -> Labels] /\ ep \in [Recalls -> Nat] /\ epoch \in Nat
  BY PlayTypes
<1>1. gate = r /\ ep[r] # 0 /\ ~Planned(r)
  BY PlayEpochs DEF Bracket, Planned
<1>2. ASSUME NEW q \in Recalls \ {r}, pc[q] # "idle", ~Planned(q) PROVE ep[r] < ep[q]
  <2>1. pc[q] \notin Bracket(q)
    BY <1>1, PlayEpochs
  <2>2. pc[q] \in {"claimed", "queued"}
    <3>1. HasSnapshot(q) /\ PathOK /\ CalmOK
      BY PlayTypes DEF PlainShow
    <3>. QED BY <1>0, <1>2, <2>1, <3>1 DEF Planned, Bracket, Labels
  <2>3. CASE pc[q] = "queued"
    BY <2>3 DEF PlayInv, LineOK
  <2>4. CASE pc[q] = "claimed"
    <3>1. ep[q] = epoch
      BY <2>4 DEF PlayInv, LineOK
    <3>. QED BY <1>0, <1>1, <3>1, PlayEpochs
  <2>. QED BY <2>2, <2>3, <2>4
<1>3. \A q \in Recalls : Planned(q) => ep[q] < ep[r]
  BY <1>1 DEF PlayInv, PrefixOK
<1>. QED BY <1>1, <1>2, <1>3

\* The planned calls stay the oldest.
LEMMA PrefixNext == ASSUME PlainShow, PlayInv, [Next]_vars PROVE PrefixOK'
<1>0. /\ pc \in [Recalls -> Labels] /\ ep \in [Recalls -> Nat] /\ epoch \in Nat
      /\ PrefixOK
  BY PlayTypes DEF PlayInv
<1>1. ASSUME NEW r \in Recalls, LeaveSuperseded(r) \/ Resolve(r) PROVE PrefixOK'
  <2>1. /\ pc[r] \in {"superseded", "resolve"} /\ UNCHANGED ep
        /\ \E l \in {"done", "snaps"} : pc' = [pc EXCEPT ![r] = l]
    BY <1>1, PlainSuperseded, PlainResolve
  <2>2. \A q \in Recalls \ {r} : pc'[q] = pc[q] /\ (Planned(q)' <=> Planned(q))
    BY <1>0, <2>1 DEF Planned, HasSnapshot
  <2>3. Planned(r)'
    BY <1>0, <2>1 DEF Planned, HasSnapshot, PlainShow
  <2>. QED BY <1>0, <2>1, <2>2, <2>3, MergeIsNewest DEF PrefixOK
<1>2. ASSUME \A r \in Recalls : Planned(r)' <=> Planned(r),
             \A r \in Recalls : pc'[r] = "idle" => pc[r] = "idle",
             NEW r \in Recalls, Claim(r)
      PROVE  PrefixOK'
  <2>1. ep' = [ep EXCEPT ![r] = epoch + 1] /\ pc' = [pc EXCEPT ![r] = "claimed"]
        /\ pc[r] = "idle"
    BY <1>2, PlainClaim
  <2>2. ~Planned(r) /\ \A q \in Recalls : ep[q] <= epoch
    BY <2>1, PlayEpochs DEF Planned
  <2>3. \A q \in Recalls \ {r} : pc'[q] = pc[q] /\ ep'[q] = ep[q]
    BY <1>0, <2>1
  <2>. QED BY <1>0, <1>2, <2>1, <2>2, <2>3 DEF PrefixOK
<1>3. ASSUME \A r \in Recalls : Planned(r)' <=> Planned(r),
             UNCHANGED <<ep, epoch, cancelled>>
      PROVE  PrefixOK'
  <2>1. \A q \in Recalls : pc'[q] # "idle" => ep[q] # 0 \/ pc[q] # "idle"
    BY <1>3, PlayEpochs, IInvNext DEF PlayInv, IInv, ClaimOK, PlainShow, HasSnapshot
  <2>2. \A q \in Recalls : pc'[q] # "idle" => pc[q] # "idle"
    BY <2>1, PlayEpochs
  <2>. QED BY <1>0, <1>3, <2>2 DEF PrefixOK
<1>. QED BY <1>1, <1>2, <1>3, PlainPlanned

\* While tasks run the gate is free, and who enters it finds them ended.
LEMMA AloneNext == ASSUME PlainShow, PlayInv, [Next]_vars PROVE AloneOK'
<1>0. /\ pc \in [Recalls -> Labels] /\ ep \in [Recalls -> Nat] /\ epoch \in Nat
      /\ task \in [Recalls -> [Groups -> TaskState]] /\ gate \in Recalls \cup {NoOne}
      /\ AloneOK /\ LineOK
  BY PlayTypes DEF PlayInv
<1>. USE DEF AloneOK, TasksEnded, TaskEnded
<1>1. ASSUME NEW r \in Recalls, ~TasksEnded(r) PROVE pc[r] = "join"
  BY <1>1 DEF PlayInv, IInv, TasksOK, TaskFits
<1>2. ASSUME NEW r \in Recalls, Enter(r) PROVE AloneOK'
  <2>1. /\ pc[r] = "queued" /\ UNCHANGED task
        /\ \A q \in cancelled \ {r} : TasksEnded(q)
    BY <1>2, PlainEnter
  <2>2. ASSUME NEW q \in Recalls, ~TasksEnded(q) PROVE FALSE
    <3>1. pc[q] = "join" /\ q # r
      BY <1>1, <2>1, <2>2
    <3>2. ep[q] < ep[r]
      BY <1>0, <2>1, <3>1 DEF LineOK
    <3>3. q \notin cancelled
      BY <2>1, <2>2, <3>1
    <3>. QED BY <1>0, <3>1, <3>2, <3>3, PlayEpochs
  <2>. QED BY <2>1, <2>2
<1>3. ASSUME NEW r \in Recalls, Spawn(r) PROVE AloneOK'
  <2>1. gate = r /\ gate' = NoOne /\ \A q \in Recalls \ {r} : task'[q] = task[q]
    BY <1>0, <1>3, PlainSpawn, PlayEpochs DEF Bracket
  <2>2. \A q \in Recalls : TasksEnded(q)
    BY <1>0, <2>1, NoOneAssumption
  <2>3. \A q \in Recalls \ {r} : TasksEnded(q)'
    BY <2>1, <2>2
  <2>. QED BY <2>1, <2>3
<1>4. ASSUME NEW r \in Recalls, Tasks(r) PROVE AloneOK'
  <2>1. PICK g \in Groups, t \in TaskState :
          ~TaskEnded(r, g) /\ task' = [task EXCEPT ![r][g] = t]
    BY <1>4, PlayTypes, PlainTask
  <2>2. UNCHANGED gate
    BY <1>4, PlayTypes, PlainTask
  <2>3. gate = NoOne /\ \A q \in Recalls \ {r} : TasksEnded(q) /\ task'[q] = task[q]
    BY <1>0, <2>1
  <2>. QED BY <2>2, <2>3
<1>5. ASSUME UNCHANGED task, gate' \in {gate, NoOne} PROVE AloneOK'
  BY <1>0, <1>5
<1>6. ASSUME NEW r \in Recalls,
             \/ Claim(r) \/ Enqueue(r) \/ LeaveSuperseded(r) \/ Resolve(r)
             \/ Transmit(r) \/ Reflect(r) \/ \E a \in Addr : Pick(r, a)
      PROVE  UNCHANGED task /\ gate' \in {gate, NoOne}
  BY <1>6, PlayTypes, PlainClaim, PlainEnqueue, PlainSuperseded, PlainResolve,
     PlainTransmit, PlainReflect, PlainPick
<1>7. ASSUME NEW r \in Recalls,
             \/ StartOwn(r) \/ Judge(r) \/ ClearPlan(r) \/ \E l \in Labels : Rests(r, l)
      PROVE  UNCHANGED task /\ gate' \in {gate, NoOne}
  BY <1>7, PlainStart, PlainJudge, PlainClear DEF Rests
<1>8. ASSUME UNCHANGED <<score, report, loading>>
      PROVE  UNCHANGED task /\ gate' \in {gate, NoOne}
  BY <1>8 DEF score
<1>. QED BY <1>2, <1>3, <1>4, <1>5, <1>6, <1>7, <1>8, PlayTypes, PlainNext

\* A token is never revived, so a verdict stays true.
LEMMA VerdictTrueNext == ASSUME PlainShow, PlayInv, [Next]_vars PROVE VerdictTrue'
<1>0. /\ pc \in [Recalls -> Labels] /\ own \in [Recalls -> Settings]
      /\ verdict \in [Recalls -> {"open", "complete", "cancelled"}]
      /\ VerdictTrue
  BY PlayTypes DEF PlayInv
<1>. USE DEF VerdictTrue, IsCancelled
<1>1. ASSUME NEW r \in Recalls, Claim(r) \/ Enqueue(r) PROVE VerdictTrue'
  <2>1. /\ UNCHANGED <<verdict, own>> /\ cancelled \subseteq cancelled'
        /\ \E l \in {"claimed", "queued"} : pc' = [pc EXCEPT ![r] = l]
    BY <1>1, PlainClaim, PlainEnqueue
  <2>. QED BY <1>0, <2>1 DEF Judged
<1>2. ASSUME NEW r \in Recalls, Enter(r) PROVE VerdictTrue'
  <2>1. UNCHANGED <<verdict, own, cancelled>>
        /\ pc' = [pc EXCEPT ![r] = IF r \in cancelled THEN "superseded" ELSE "entered"]
    BY <1>2, PlainEnter
  <2>. QED BY <1>0, <2>1 DEF Judged
<1>3. ASSUME NEW r \in Recalls, LeaveSuperseded(r) PROVE VerdictTrue'
  <2>1. /\ UNCHANGED <<own, cancelled>> /\ pc[r] = "superseded"
        /\ pc' = [pc EXCEPT ![r] = "done"] /\ verdict' = [verdict EXCEPT ![r] = "cancelled"]
    BY <1>3, PlainSuperseded
  <2>. QED BY <1>0, <2>1 DEF Judged
<1>4. ASSUME NEW r \in Recalls, Resolve(r) PROVE VerdictTrue'
  <2>1. /\ UNCHANGED <<verdict, cancelled>> /\ own' = [own EXCEPT ![r] = Own[r]]
        /\ pc' = [pc EXCEPT ![r] = "snaps"]
    BY <1>4, PlainResolve
  <2>. QED BY <1>0, <2>1 DEF Judged
<1>5. ASSUME NEW r \in Recalls, StartOwn(r) \/ Spawn(r) PROVE VerdictTrue'
  <2>1. /\ UNCHANGED <<verdict, own, cancelled>> /\ pc[r] = "snaps"
        /\ \E l \in {"owns", "join"} : pc' = [pc EXCEPT ![r] = l]
    BY <1>5, PlainStart, PlainSpawn
  <2>. QED BY <1>0, <2>1 DEF Judged
<1>6. ASSUME NEW r \in Recalls, Judge(r) PROVE VerdictTrue'
  <2>1. /\ UNCHANGED <<own, cancelled>> /\ pc[r] \in {"owns", "join"}
        /\ verdict' = [verdict EXCEPT ![r] = IF r \in cancelled THEN "cancelled" ELSE "complete"]
        /\ pc' = [pc EXCEPT ![r] = "commit"]
    BY <1>6, PlainJudge DEF Outcome
  <2>. QED BY <1>0, <2>1 DEF Judged
<1>7. ASSUME NEW r \in Recalls, ClearPlan(r) \/ \E l \in Labels : Rests(r, l)
      PROVE  VerdictTrue'
  <2>1. /\ UNCHANGED <<verdict, own, cancelled>>
        /\ \E l \in Labels \ {"superseded", "snaps", "owns", "join"} :
             pc' = [pc EXCEPT ![r] = l] /\ (l \in Judged => pc[r] \in Judged)
    BY <1>7, PlainClear DEF Rests, Restful, Judged, Labels
  <2>. QED BY <1>0, <2>1
<1>8. ASSUME UNCHANGED <<verdict, own, cancelled, pc>> PROVE VerdictTrue'
  BY <1>0, <1>8
<1>9. ASSUME NEW r \in Recalls,
             \/ Transmit(r) \/ Reflect(r) \/ Tasks(r) \/ \E a \in Addr : Pick(r, a)
      PROVE  UNCHANGED <<verdict, own, cancelled, pc>>
  BY <1>9, PlayTypes, PlainTransmit, PlainReflect, PlainTask, PlainPick
<1>10. ASSUME UNCHANGED <<score, report, loading>>
       PROVE  UNCHANGED <<verdict, own, cancelled, pc>>
  BY <1>10 DEF score
<1>. QED BY <1>1, <1>2, <1>3, <1>4, <1>5, <1>6, <1>7, <1>8, <1>9, <1>10, PlayTypes, PlainNext

\* What the others in the gate, or with tasks, would be doing while a call merges.
LEMMA MergeIsAlone ==
  ASSUME PlainShow, PlayInv, NEW r \in Recalls, pc[r] \in {"superseded", "resolve"}
  PROVE  /\ \A q \in Recalls \ {r} : pc[q] \notin {"snaps", "owns"}
         /\ \A q \in Recalls : TasksEnded(q)
         /\ \A q \in Recalls : Planned(q) => IsCancelled(q)
<1>1. gate = r /\ ep[r] # 0 /\ \A q \in Recalls : Planned(q) => ep[q] < ep[r]
  BY MergeIsNewest
<1>2. \A q \in Recalls : pc[q] \in {"snaps", "owns"} => pc[q] \in Bracket(q)
  BY DEF Bracket
<1>3. \A q \in Recalls : TasksEnded(q)
  BY <1>1, NoOneAssumption DEF PlayInv, AloneOK
<1>4. ASSUME NEW q \in Recalls, Planned(q) PROVE IsCancelled(q)
  <2>1. ep[q] # 0 /\ ep[q] < ep[r] /\ ep[r] <= epoch
    BY <1>1, <1>4, PlayEpochs DEF Planned
  <2>. QED BY <2>1, PlayEpochs, PlayTypes DEF IsCancelled
<1>. QED BY <1>1, <1>2, <1>3, <1>4, PlayEpochs

\* The plan is stamped by the last merge, and cleared by no other call than the one
\* that made it.
LEMMA StampNext == ASSUME PlainShow, PlayInv, [Next]_vars PROVE StampOK'
<1>0. /\ pc \in [Recalls -> Labels] /\ ep \in [Recalls -> Nat] /\ epoch \in Nat
      /\ verdict \in [Recalls -> {"open", "complete", "cancelled"}]
      /\ plan \in [ep : Nat, vals : Settings]
      /\ task \in [Recalls -> [Groups -> TaskState]]
      /\ StampOK
  BY PlayTypes DEF PlayInv
<1>00. /\ \A r \in Recalls : Planned(r) => ep[r] # 0
       /\ \A r \in Recalls : pc[r] \in After <=> Planned(r)
       /\ \A r \in Recalls : ~TasksEnded(r) => pc[r] = "join"
  BY PlayEpochs DEF PlayInv, IInv, TasksOK, TaskFits, TasksEnded, TaskEnded, Planned, After,
                    PlainShow
<1>1. ASSUME NEW r \in Recalls, LeaveSuperseded(r) \/ Resolve(r) PROVE StampOK'
  <2>1. /\ plan' = [ep |-> ep[r], vals |-> Over(Own[r], plan.vals)]
        /\ UNCHANGED <<ep, cancelled, task>> /\ pc[r] \in {"superseded", "resolve"}
        /\ \/ pc[r] = "superseded" /\ pc' = [pc EXCEPT ![r] = "done"]
           \/ pc' = [pc EXCEPT ![r] = "snaps"]
    BY <1>1, PlainSuperseded, PlainResolve DEF Merged
  <2>2. /\ \A q \in Recalls \ {r} : pc'[q] = pc[q] /\ (Planned(q)' <=> Planned(q))
        /\ Planned(r)'
    BY <1>0, <2>1 DEF Planned, HasSnapshot, PlainShow
  <2>3. /\ ep[r] # 0 /\ \A q \in Recalls : Planned(q) => ep[q] < ep[r]
        /\ \A q \in Recalls \ {r} : pc[q] \notin {"snaps", "owns"}
        /\ \A q \in Recalls : TasksEnded(q)
        /\ \A q \in Recalls : Planned(q) => IsCancelled(q)
    BY <2>1, MergeIsNewest, MergeIsAlone
  <2>4. pc[r] = "superseded" => IsCancelled(r)
    BY DEF PlayInv, VerdictTrue
  <2>5. \A q \in Recalls : TasksEnded(q)' /\ (IsCancelled(q)' <=> IsCancelled(q))
    BY <2>1, <2>3 DEF TasksEnded, TaskEnded, IsCancelled
  <2>6. plan'.ep = ep[r] /\ \A a \in Addr : Own[r][a] # None => plan'.vals[a] = Own[r][a]
    BY <2>1 DEF Over
  <2>7. ASSUME NEW q \in Recalls
        PROVE  /\ Planned(q)' /\ plan'.ep # 0 => ep'[q] <= plan'.ep
               /\ Planned(q)' /\ plan'.ep = ep'[q] =>
                    \A a \in Addr : Own[q][a] # None => plan'.vals[a] = Own[q][a]
               /\ pc'[q] \in {"snaps", "owns"} \/ ~TasksEnded(q)' => plan'.ep = ep'[q]
    BY <1>0, <2>1, <2>2, <2>3, <2>5, <2>6
  <2>8. ASSUME NEW q \in Recalls, ~IsCancelled(q)'
        PROVE  pc'[q] \notin {"join", "commit", "wipe", "stamp", "unplan", "keep", "mark",
                              "end", "leave", "done"}
    <3>1. CASE q = r
      BY <1>0, <2>1, <2>4, <2>5, <2>8, <3>1
    <3>2. CASE q # r
      BY <1>00, <2>2, <2>3, <2>5, <2>8, <3>2 DEF After
    <3>. QED BY <3>1, <3>2
  <2>. QED BY <2>1, <2>2, <2>3, <2>6, <2>7, <2>8 DEF StampOK
<1>2. ASSUME NEW r \in Recalls, ClearPlan(r) PROVE StampOK'
  <2>1. /\ pc[r] = "unplan" /\ pc' = [pc EXCEPT ![r] = "keep"]
        /\ plan' = IF verdict[r] = "complete" /\ plan.ep = ep[r] THEN NoPlan ELSE plan
        /\ UNCHANGED <<ep, cancelled, task>>
    BY <1>2, PlainClear
  <2>2. \A q \in Recalls : /\ Planned(q)' <=> Planned(q)
                           /\ TasksEnded(q)' <=> TasksEnded(q)
                           /\ IsCancelled(q)' <=> IsCancelled(q)
    BY <1>0, <2>1 DEF Planned, HasSnapshot, TasksEnded, TaskEnded, IsCancelled
  <2>3. CASE verdict[r] = "complete" /\ plan.ep = ep[r]
    <3>1. plan'.ep = 0 /\ plan'.vals = Nothing
      BY <2>1, <2>3 DEF NoPlan
    <3>2. ASSUME NEW q \in Recalls \ {r}
          PROVE  plan.ep # ep[q]
      BY <1>00, <2>1, <2>3, <3>2, PlayEpochs
    <3>3. \A q \in Recalls : /\ pc'[q] \in {"snaps", "owns"} \/ ~TasksEnded(q)' => FALSE
                             /\ pc'[q] \in {"join", "commit", "wipe", "stamp", "unplan"} =>
                                  IsCancelled(q)'
      BY <1>0, <1>00, <2>1, <2>2, <3>2 DEF StampOK
    <3>. QED BY <1>00, <2>1, <2>2, <3>1, <3>3 DEF StampOK
  <2>4. CASE ~(verdict[r] = "complete" /\ plan.ep = ep[r])
    <3>1. plan' = plan /\ IsCancelled(r)
      <4>1. verdict[r] # "open" /\ (verdict[r] = "cancelled" => IsCancelled(r))
        BY <2>1 DEF PlayInv, VerdictTrue, Judged
      <4>. QED BY <1>0, <2>1, <2>4, <4>1 DEF StampOK
    <3>2. \A q \in Recalls \ {r} : pc'[q] = pc[q]
      BY <1>0, <2>1
    <3>. QED BY <1>0, <1>00, <2>1, <2>2, <3>1, <3>2 DEF StampOK
  <2>. QED BY <2>3, <2>4
<1>3. ASSUME NEW r \in Recalls, Claim(r) PROVE StampOK'
  <2>1. /\ pc[r] = "idle" /\ cancelled \subseteq cancelled' /\ UNCHANGED <<plan, task>>
        /\ ep' = [ep EXCEPT ![r] = epoch + 1] /\ pc' = [pc EXCEPT ![r] = "claimed"]
    BY <1>3, PlainClaim
  <2>2. /\ \A q \in Recalls \ {r} : pc'[q] = pc[q] /\ ep'[q] = ep[q]
        /\ \A q \in Recalls : Planned(q)' <=> Planned(q)
        /\ ~Planned(r) /\ TasksEnded(r)
        /\ \A q \in Recalls : TasksEnded(q)' <=> TasksEnded(q)
        /\ \A q \in Recalls : IsCancelled(q) => IsCancelled(q)'
    BY <1>0, <1>00, <2>1 DEF Planned, HasSnapshot, TasksEnded, TaskEnded, IsCancelled
  <2>. QED BY <1>0, <2>1, <2>2 DEF StampOK
<1>4. ASSUME UNCHANGED <<plan, ep, cancelled>>, NEW r \in Recalls,
             \A q \in Recalls \ {r} : pc'[q] = pc[q] /\ task'[q] = task[q],
             pc[r] \in After <=> pc'[r] \in After,
             pc'[r] \in {"snaps", "owns"} => pc[r] \in {"snaps", "owns"},
             ~TasksEnded(r)' => ~TasksEnded(r) \/ pc[r] \in {"snaps", "owns"},
             pc'[r] \in {"join", "commit", "wipe", "stamp", "unplan"} =>
               pc[r] \in {"snaps", "owns", "join", "commit", "wipe", "stamp", "unplan"},
             pc'[r] \in {"keep", "mark", "end", "leave", "done"} =>
               pc[r] \in {"keep", "mark", "end", "leave", "done"}
      PROVE  StampOK'
  <2>1. \A q \in Recalls : /\ Planned(q)' <=> Planned(q)
                           /\ IsCancelled(q)' <=> IsCancelled(q)
    BY <1>0, <1>4 DEF Planned, HasSnapshot, After, IsCancelled
  <2>2. \A q \in Recalls \ {r} : TasksEnded(q)' <=> TasksEnded(q)
    BY <1>4 DEF TasksEnded, TaskEnded
  <2>. QED BY <1>0, <1>4, <2>1, <2>2 DEF StampOK
<1>5. ASSUME NEW r \in Recalls,
             \/ Enqueue(r) \/ Enter(r) \/ StartOwn(r) \/ Judge(r) \/ \E l \in Labels : Rests(r, l)
      PROVE  StampOK'
  <2>1. UNCHANGED <<plan, ep, cancelled, task>>
    BY <1>5, PlainEnqueue, PlainEnter, PlainStart, PlainJudge DEF Rests
  <2>2. PICK l \in Labels :
          /\ pc' = [pc EXCEPT ![r] = l] /\ (pc[r] \in After <=> l \in After)
          /\ l \in {"snaps", "owns"} => pc[r] \in {"snaps", "owns"}
          /\ l \in {"join", "commit", "wipe", "stamp", "unplan"} =>
               pc[r] \in {"snaps", "owns", "join", "commit", "wipe", "stamp", "unplan"}
          /\ l \in {"keep", "mark", "end", "leave", "done"} =>
               pc[r] \in {"keep", "mark", "end", "leave", "done"}
    <3>1. CASE Enqueue(r) \/ Enter(r)
      BY <3>1, PlainEnqueue, PlainEnter DEF Labels, After
    <3>2. CASE StartOwn(r) \/ Judge(r)
      BY <3>2, PlainStart, PlainJudge DEF Labels, After
    <3>3. CASE \E l \in Labels : Rests(r, l)
      BY <3>3 DEF Rests, Restful, Labels, After
    <3>. QED BY <1>5, <3>1, <3>2, <3>3
  <2>3. TasksEnded(r)' <=> TasksEnded(r)
    BY <2>1 DEF TasksEnded, TaskEnded
  <2>. QED BY <1>0, <1>4, <2>1, <2>2, <2>3
<1>6. ASSUME NEW r \in Recalls, Spawn(r) PROVE StampOK'
  <2>1. /\ UNCHANGED <<plan, ep, cancelled>> /\ pc[r] = "snaps"
        /\ pc' = [pc EXCEPT ![r] = "join"] /\ \A q \in Recalls \ {r} : task'[q] = task[q]
    BY <1>0, <1>6, PlainSpawn
  <2>. QED BY <1>0, <1>4, <2>1 DEF After
<1>7. ASSUME NEW r \in Recalls, Tasks(r) PROVE StampOK'
  <2>1. /\ UNCHANGED <<plan, ep, cancelled, pc>> /\ ~TasksEnded(r)
        /\ \A q \in Recalls \ {r} : task'[q] = task[q]
    BY <1>0, <1>7, PlayTypes, PlainTask DEF TasksEnded
  <2>. QED BY <1>0, <1>4, <2>1
<1>8. ASSUME UNCHANGED <<plan, ep, cancelled, pc, task>> PROVE StampOK'
  BY <1>0, <1>8 DEF StampOK, Planned, HasSnapshot, IsCancelled, TasksEnded, TaskEnded
<1>9. ASSUME NEW r \in Recalls, Transmit(r) \/ Reflect(r) \/ \E a \in Addr : Pick(r, a)
      PROVE  UNCHANGED <<plan, ep, cancelled, pc, task>>
  BY <1>9, PlayTypes, PlainTransmit, PlainReflect, PlainPick
<1>10. ASSUME UNCHANGED <<score, report, loading>>
       PROVE  UNCHANGED <<plan, ep, cancelled, pc, task>>
  BY <1>10 DEF score
<1>. QED BY <1>1, <1>2, <1>3, <1>5, <1>6, <1>7, <1>8, <1>9, <1>10, PlayTypes, PlainNext

-----------------------------------------------------------------------------
\* What is wanted changes only when a recall is planned, which is then the last one.
LEMMA WantsSame ==
  ASSUME \A r \in Recalls : Planned(r)' <=> Planned(r),
         \A r \in Recalls : Planned(r) => ep'[r] = ep[r],
         NEW a \in Addr, NEW v
  PROVE  Wants(a, v)' <=> Wants(a, v)
<1>1. \A r \in Recalls : Sets(r, a)' <=> Sets(r, a)
  BY DEF Sets
<1>2. \A r \in Recalls : Sets(r, a) => ep'[r] = ep[r]
  BY DEF Sets
<1>3. \A r \in Recalls : LastSets(r, a)' <=> LastSets(r, a)
  BY <1>1, <1>2 DEF LastSets
<1>. QED BY <1>1, <1>3 DEF Wants

\* A merge makes the recall's own values the wanted ones.
LEMMA WantsMerge ==
  ASSUME PlainShow, PlayInv, NEW r \in Recalls, LeaveSuperseded(r) \/ Resolve(r),
         NEW a \in Addr, NEW v
  PROVE  Wants(a, v)' <=> IF Own[r][a] # None THEN v = Own[r][a] ELSE Wants(a, v)
<1>0. /\ pc \in [Recalls -> Labels] /\ ep \in [Recalls -> Nat]
  BY PlayTypes
<1>1. /\ pc[r] \in {"superseded", "resolve"} /\ UNCHANGED ep
      /\ \E l \in {"done", "snaps"} : pc' = [pc EXCEPT ![r] = l]
  BY PlainSuperseded, PlainResolve
<1>2. /\ \A q \in Recalls \ {r} : Planned(q)' <=> Planned(q)
      /\ Planned(r)' /\ ~Planned(r)
  BY <1>0, <1>1 DEF Planned, HasSnapshot, PlainShow
<1>3. \A q \in Recalls : Planned(q) => ep[q] < ep[r]
  BY <1>1, MergeIsNewest
<1>4. /\ \A q \in Recalls \ {r} : Sets(q, a)' <=> Sets(q, a)
      /\ Sets(r, a)' <=> Own[r][a] # None
      /\ ~Sets(r, a)
  BY <1>2 DEF Sets
<1>5. \A q \in Recalls : Sets(q, a) => ep[q] < ep[r]
  BY <1>3 DEF Sets
<1>6. CASE Own[r][a] # None
  <2>1. LastSets(r, a)'
    BY <1>0, <1>1, <1>4, <1>5, <1>6 DEF LastSets
  <2>2. \A q \in Recalls \ {r} : ~LastSets(q, a)'
    BY <1>0, <1>1, <1>4, <1>5, <1>6 DEF LastSets
  <2>3. Sets(r, a)'
    BY <1>4, <1>6
  <2>. QED BY <1>6, <2>1, <2>2, <2>3 DEF Wants
<1>7. CASE Own[r][a] = None
  <2>1. \A q \in Recalls : Sets(q, a)' <=> Sets(q, a)
    BY <1>4, <1>7
  <2>2. \A q \in Recalls : LastSets(q, a)' <=> LastSets(q, a)
    BY <1>1, <2>1 DEF LastSets
  <2>. QED BY <1>7, <2>1, <2>2 DEF Wants
<1>. QED BY <1>6, <1>7

\* Whoever sends holds the stamp of the plan and sends what is in the plan.
LEMMA SenderStamped ==
  ASSUME PlainShow, PlayInv, NEW r \in Recalls
  PROVE  /\ cur[r] # None => /\ pc[r] \in {"snaps", "owns"} /\ cur[r].at \in Addr
                             /\ todo[r][cur[r].at] # None
                             /\ todo[r][cur[r].at] = plan.vals[cur[r].at]
         /\ pc[r] \in {"snaps", "owns"} \/ ~TasksEnded(r) =>
              /\ Planned(r) /\ plan.ep = ep[r] /\ ep[r] # 0 /\ own[r] = Own[r]
              /\ \A a \in Addr : own[r][a] # None => plan.vals[a] = own[r][a]
         /\ ~TasksEnded(r) => pc[r] = "join"
<1>1. cur[r] # None => /\ pc[r] \in {"snaps", "owns"} /\ cur[r].at \in Addr
                       /\ todo[r][cur[r].at] # None
  <2>1. cur[r] # None => pc[r] \in Sending /\ todo[r][cur[r].at] # None
    BY DEF PlayInv, IInv, LoopOK
  <2>2. pc[r] \notin {"undoing", "reverting"}
    BY PlayTypes DEF PathOK, PlainShow, HasSnapshot
  <2>3. cur[r] \in Cursor
    BY PlayTypes
  <2>. QED BY <2>1, <2>2, <2>3 DEF Sending, Cursor
<1>2. ~TasksEnded(r) => pc[r] = "join"
  BY DEF PlayInv, IInv, TasksOK, TaskFits, TasksEnded, TaskEnded
<1>3. ASSUME pc[r] \in {"snaps", "owns"} \/ ~TasksEnded(r)
      PROVE  /\ Planned(r) /\ plan.ep = ep[r] /\ ep[r] # 0 /\ own[r] = Own[r]
             /\ \A a \in Addr : own[r][a] # None => plan.vals[a] = own[r][a]
  <2>1. pc[r] \in {"snaps", "owns", "join"}
    BY <1>2, <1>3
  <2>2. Planned(r) /\ ep[r] # 0
    BY <2>1, PlayEpochs DEF Planned, PlainShow
  <2>3. plan.ep = ep[r] /\ own[r] = Own[r]
    BY <1>3, <2>1 DEF PlayInv, StampOK, VerdictTrue
  <2>. QED BY <2>2, <2>3 DEF PlayInv, StampOK
<1>4. ASSUME cur[r] # None PROVE todo[r][cur[r].at] = plan.vals[cur[r].at]
  <2>1. CASE pc[r] = "snaps"
    BY <1>1, <1>4, <2>1 DEF PlayInv, SendsOK
  <2>2. CASE pc[r] = "owns"
    <3>1. todo[r][cur[r].at] = Own[r][cur[r].at]
      BY <1>1, <1>4, <2>2 DEF PlayInv, SendsOK
    <3>. QED BY <1>1, <1>3, <1>4, <2>2, <3>1
  <2>. QED BY <1>1, <1>4, <2>1, <2>2
<1>. QED BY <1>1, <1>2, <1>3, <1>4

\* Around the call that stamped the plan the others are idle: they merge over it, or
\* leave the plan, the desk and the registry alone.
LEMMA OthersIdle ==
  ASSUME PlainShow, PlayInv, [Next]_vars, NEW r \in Recalls, ep[r] # 0, plan.ep = ep[r],
         Planned(r)
  PROVE  \/ (\E q \in Recalls : LeaveSuperseded(q) \/ Resolve(q))
            /\ IsCancelled(r)
         \/ (\E a \in Addr : Pick(r, a)) \/ Transmit(r) \/ Reflect(r) \/ StartOwn(r)
            \/ Spawn(r) \/ Tasks(r) \/ Judge(r) \/ ClearPlan(r) \/ \E l \in Labels : Rests(r, l)
         \/ /\ UNCHANGED <<plan, desk, registry>> /\ (IsCancelled(r) => IsCancelled(r)')
            /\ pc'[r] = pc[r] /\ ep'[r] = ep[r] /\ todo'[r] = todo[r] /\ cur'[r] = cur[r]
            /\ task'[r] = task[r] /\ own'[r] = own[r] /\ gen'[r] = gen[r]
            /\ verdict'[r] = verdict[r]
<1>. DEFINE Same == /\ UNCHANGED <<plan, desk, registry>> /\ (IsCancelled(r) => IsCancelled(r)')
                    /\ pc'[r] = pc[r] /\ ep'[r] = ep[r] /\ todo'[r] = todo[r] /\ cur'[r] = cur[r]
                    /\ task'[r] = task[r] /\ own'[r] = own[r] /\ gen'[r] = gen[r]
                    /\ verdict'[r] = verdict[r]
<1>0. /\ pc \in [Recalls -> Labels] /\ ep \in [Recalls -> Nat]
      /\ task \in [Recalls -> [Groups -> TaskState]] /\ todo \in [Recalls -> Settings]
      /\ cur \in [Recalls -> Cursor] /\ TypeOK
      /\ verdict \in [Recalls -> {"open", "complete", "cancelled"}]
  BY PlayTypes
<1>1. ASSUME NEW q \in Recalls \ {r}
      PROVE  pc[q] \notin {"snaps", "owns"} /\ TasksEnded(q) /\ cur[q] = None /\ ep[q] # ep[r]
  BY <1>1, SenderStamped, PlayEpochs
<1>2. \A q \in Recalls : pc[q] \in {"idle", "claimed", "queued"} => q # r
  BY DEF Planned
<1>3. ASSUME NEW q \in Recalls, LeaveSuperseded(q) \/ Resolve(q) PROVE IsCancelled(r)
  BY <1>3, PlainSuperseded, PlainResolve, MergeIsAlone
<1>4. ASSUME NEW q \in Recalls, Claim(q) \/ Enqueue(q) \/ Enter(q) PROVE Same
  <2>1. q # r /\ cancelled \subseteq cancelled'
    BY <1>2, <1>4, PlainClaim, PlainEnqueue, PlainEnter
  <2>2. /\ UNCHANGED <<plan, desk, registry, todo, cur, task, own, gen, verdict>>
        /\ pc'[r] = pc[r] /\ ep'[r] = ep[r]
    BY <1>0, <1>4, <2>1, PlainClaim, PlainEnqueue, PlainEnter
  <2>. QED BY <2>1, <2>2 DEF IsCancelled
<1>5. ASSUME NEW q \in Recalls \ {r},
             \/ Transmit(q) \/ Reflect(q) \/ StartOwn(q) \/ Spawn(q) \/ Tasks(q)
             \/ \E a \in Addr : Pick(q, a)
      PROVE  Same
  <2>1. ~Transmit(q) /\ ~Reflect(q) /\ ~StartOwn(q) /\ ~Spawn(q) /\ ~Tasks(q)
    BY <1>0, <1>1, PlainTransmit, PlainReflect, PlainStart, PlainSpawn, PlainTask
       DEF TasksEnded
  <2>2. ASSUME NEW a \in Addr, Pick(q, a) PROVE FALSE
    <3>1. pc[q] \in Sending
      BY <2>2 DEF Pick
    <3>. QED BY <1>0, <1>1, <3>1, PlayTypes DEF Sending, PathOK, PlainShow, HasSnapshot
  <2>. QED BY <1>5, <2>1, <2>2
<1>6. ASSUME NEW q \in Recalls \ {r},
             Judge(q) \/ ClearPlan(q) \/ \E l \in Labels : Rests(q, l)
      PROVE  Same
  <2>1. CASE Judge(q)
    BY <1>0, <2>1, PlainJudge DEF IsCancelled
  <2>2. CASE ClearPlan(q)
    BY <1>0, <1>1, <2>2, PlainClear DEF IsCancelled
  <2>3. ASSUME NEW l \in Labels, Rests(q, l) PROVE Same
    BY <1>0, <2>3 DEF Rests, IsCancelled
  <2>. QED BY <1>6, <2>1, <2>2, <2>3
<1>7. ASSUME UNCHANGED <<score, report, loading>> PROVE Same
  BY <1>7 DEF score, IsCancelled
<1>. HIDE DEF Same
<1>8. \/ \E q \in Recalls : LeaveSuperseded(q) \/ Resolve(q)
      \/ (\E a \in Addr : Pick(r, a)) \/ Transmit(r) \/ Reflect(r) \/ StartOwn(r)
            \/ Spawn(r) \/ Tasks(r) \/ Judge(r) \/ ClearPlan(r) \/ \E l \in Labels : Rests(r, l)
      \/ Same
  BY <1>0, <1>4, <1>5, <1>6, <1>7, PlayTypes, PlainNext
<1>. QED BY <1>3, <1>8 DEF Same

\* A step that changes the desk changes it at an address of the plan.
LEMMA DeskInPlan ==
  ASSUME PlainShow, PlayInv, [Next]_vars, NEW a \in Addr, plan.vals[a] = None
  PROVE  desk'[a] = desk[a]
<1>0. TypeOK /\ desk \in [Addr -> Value]
  BY PlayTypes
<1>1. ASSUME NEW r \in Recalls, Transmit(r) PROVE desk'[a] = desk[a]
  BY <1>0, <1>1, PlainTransmit, SenderStamped
<1>2. ASSUME NEW r \in Recalls, Tasks(r) PROVE desk'[a] = desk[a]
  <2>1. PICK g \in Groups, t \in TaskState :
          ~TaskEnded(r, g) /\ (TaskSends(r, g, t) \/ TaskMoves(r, g, t))
    BY <1>0, <1>2, PlainTask
  <2>2. /\ ~TasksEnded(r)
        /\ task[r][g].st = "air" => task[r][g].at \in Named(own[r])
    BY <2>1 DEF TasksEnded, PlayInv, IInv, TasksOK, TaskFits
  <2>3. own[r][a] = None
    BY <2>2, SenderStamped
  <2>. QED BY <1>0, <2>1, <2>2, <2>3 DEF TaskSends, TaskMoves, Named
<1>3. ASSUME NEW r \in Recalls,
             \/ Claim(r) \/ Enqueue(r) \/ Enter(r) \/ LeaveSuperseded(r) \/ Resolve(r)
             \/ Reflect(r) \/ \E b \in Addr : Pick(r, b)
      PROVE  UNCHANGED desk
  BY <1>0, <1>3, PlainClaim, PlainEnqueue, PlainEnter, PlainSuperseded, PlainResolve,
     PlainReflect, PlainPick
<1>4. ASSUME NEW r \in Recalls,
             \/ StartOwn(r) \/ Spawn(r) \/ Judge(r) \/ ClearPlan(r)
             \/ \E l \in Labels : Rests(r, l)
      PROVE  UNCHANGED desk
  BY <1>4, PlainStart, PlainSpawn, PlainJudge, PlainClear DEF Rests
<1>5. ASSUME UNCHANGED <<score, report, loading>> PROVE UNCHANGED desk
  BY <1>5 DEF score
<1>. QED BY <1>1, <1>2, <1>3, <1>4, <1>5, PlayTypes, PlainNext

\* Which steps change the plan.
LEMMA PlanChange ==
  ASSUME PlainShow, PlayInv, [Next]_vars
  PROVE  \/ \E r \in Recalls : LeaveSuperseded(r) \/ Resolve(r)
         \/ \E r \in Recalls : ClearPlan(r) /\ verdict[r] = "complete" /\ plan.ep = ep[r]
         \/ UNCHANGED plan
<1>1. ASSUME NEW r \in Recalls,
             \/ Claim(r) \/ Enqueue(r) \/ Enter(r)
             \/ Transmit(r) \/ Reflect(r) \/ Tasks(r) \/ \E b \in Addr : Pick(r, b)
      PROVE  UNCHANGED plan
  BY <1>1, PlayTypes, PlainClaim, PlainEnqueue, PlainEnter, PlainTransmit, PlainTask,
     PlainReflect, PlainPick
<1>2. ASSUME NEW r \in Recalls,
             StartOwn(r) \/ Spawn(r) \/ Judge(r) \/ \E l \in Labels : Rests(r, l)
      PROVE  UNCHANGED plan
  BY <1>2, PlainStart, PlainSpawn, PlainJudge DEF Rests
<1>3. ASSUME NEW r \in Recalls, ClearPlan(r), ~(verdict[r] = "complete" /\ plan.ep = ep[r])
      PROVE  UNCHANGED plan
  BY <1>3, PlainClear
<1>4. ASSUME UNCHANGED <<score, report, loading>> PROVE UNCHANGED plan
  BY <1>4 DEF score
<1>. QED BY <1>1, <1>2, <1>3, <1>4, PlayTypes, PlainNext

\* A step other than a merge leaves what is wanted.
LEMMA WantsKept ==
  ASSUME PlainShow, PlayInv, [Next]_vars,
         ~\E r \in Recalls : LeaveSuperseded(r) \/ Resolve(r),
         NEW a \in Addr, NEW v
  PROVE  Wants(a, v)' <=> Wants(a, v)
  BY PlainPlanned, WantsSame

\* The plan holds what is wanted.
LEMMA WantsNext == ASSUME PlainShow, PlayInv, [Next]_vars PROVE WantsOK'
<1>. SUFFICES ASSUME NEW a \in Addr
              PROVE  Wants(a, IF plan.vals[a] # None THEN plan.vals[a] ELSE desk[a])'
  BY DEF WantsOK
<1>0. Wants(a, IF plan.vals[a] # None THEN plan.vals[a] ELSE desk[a])
  BY DEF PlayInv, WantsOK
<1>00. plan.vals[a] = None => desk'[a] = desk[a]
  BY DeskInPlan
<1>. DEFINE v == IF plan'.vals[a] # None THEN plan'.vals[a] ELSE desk'[a]
<1>1. CASE \E r \in Recalls : LeaveSuperseded(r) \/ Resolve(r)
  <2>1. PICK r \in Recalls : LeaveSuperseded(r) \/ Resolve(r)
    BY <1>1
  <2>2. plan'.vals[a] = IF Own[r][a] # None THEN Own[r][a] ELSE plan.vals[a]
    BY <2>1, PlainSuperseded, PlainResolve DEF Merged, Over
  <2>4. Own[r][a] = None => v = IF plan.vals[a] # None THEN plan.vals[a] ELSE desk[a]
    BY <1>00, <2>2
  <2>. QED BY <1>0, <2>1, <2>2, <2>4, WantsMerge
<1>2. CASE ~\E r \in Recalls : LeaveSuperseded(r) \/ Resolve(r)
  <2>1. Wants(a, v)
    <3>1. CASE UNCHANGED plan
      BY <1>0, <1>00, <3>1
    <3>2. ASSUME NEW r \in Recalls, ClearPlan(r), verdict[r] = "complete", plan.ep = ep[r]
          PROVE  Wants(a, v)
      <4>1. pc[r] = "unplan" /\ plan' = NoPlan /\ UNCHANGED desk
        BY <3>2, PlainClear
      <4>2. Planned(r)
        BY <4>1 DEF Planned, PlainShow
      <4>3. Wants(a, desk[a])
        BY <3>2, <4>2 DEF PlayInv, CompleteOK
      <4>. QED BY <4>1, <4>3 DEF NoPlan, Nothing
    <3>. QED BY <1>2, <3>1, <3>2, PlanChange
  <2>. QED BY <1>2, <2>1, WantsKept
<1>. QED BY <1>1, <1>2

\* A call comes to send by resolving, and not otherwise.
LEMMA SendersNext ==
  ASSUME PlainShow, PlayInv, [Next]_vars,
         NEW r \in Recalls, pc[r] \notin {"snaps", "owns"}, ~Resolve(r)
  PROVE  pc'[r] \notin {"snaps", "owns"} /\ cur'[r] = None
<1>0. /\ pc \in [Recalls -> Labels] /\ TypeOK
  BY PlayTypes
<1>1. ASSUME NEW q \in Recalls, Resolve(q) \/ StartOwn(q) PROVE pc'[r] \notin {"snaps", "owns"}
  BY <1>0, <1>1, PlainResolve, PlainStart
<1>2. ASSUME NEW q \in Recalls,
             Claim(q) \/ Enqueue(q) \/ Enter(q) \/ LeaveSuperseded(q) \/ Spawn(q)
      PROVE  pc'[r] \notin {"snaps", "owns"}
  BY <1>0, <1>2, PlainClaim, PlainEnqueue, PlainEnter, PlainSuperseded, PlainSpawn
<1>3. ASSUME NEW q \in Recalls, Judge(q) \/ ClearPlan(q) \/ \E l \in Labels : Rests(q, l)
      PROVE  pc'[r] \notin {"snaps", "owns"}
  BY <1>0, <1>3, PlainJudge, PlainClear DEF Rests, Restful
<1>4. ASSUME NEW q \in Recalls,
             \/ Transmit(q) \/ Reflect(q) \/ Tasks(q) \/ \E a \in Addr : Pick(q, a)
      PROVE  UNCHANGED pc
  BY <1>0, <1>4, PlainTransmit, PlainReflect, PlainTask, PlainPick
<1>5. ASSUME UNCHANGED <<score, report, loading>> PROVE UNCHANGED pc
  BY <1>5 DEF score
<1>6. pc'[r] \notin {"snaps", "owns"}
  BY <1>0, <1>1, <1>2, <1>3, <1>4, <1>5, PlayTypes, PlainNext
<1>7. LoopOK' /\ PathOK'
  BY IInvNext DEF PlayInv, IInv, SendOK
<1>. QED BY <1>6, <1>7 DEF LoopOK, PathOK, Sending, PlainShow, HasSnapshot

\* What a loop still has to send is what the plan holds; what it has sent has landed.
LEMMA SendsNext == ASSUME PlainShow, PlayInv, [Next]_vars PROVE SendsOK'
<1>0. /\ pc \in [Recalls -> Labels] /\ todo \in [Recalls -> Settings]
      /\ cur \in [Recalls -> Cursor] /\ desk \in [Addr -> Value] /\ TypeOK
      /\ plan \in [ep : Nat, vals : Settings]
      /\ SendsOK /\ WantsOK
  BY PlayTypes DEF PlayInv
<1>. SUFFICES ASSUME NEW r \in Recalls
     PROVE  /\ cur'[r] # None /\ cur'[r].st = "sent" =>
                 desk'[cur'[r].at] = todo'[r][cur'[r].at]
            /\ pc'[r] = "snaps" => \A a \in Addr :
                 IF todo'[r][a] # None THEN Own[r][a] = None /\ todo'[r][a] = plan'.vals[a]
                 ELSE Own[r][a] = None => Wants(a, desk[a])'
            /\ pc'[r] = "owns" => \A a \in Addr :
                 IF todo'[r][a] # None THEN todo'[r][a] = Own[r][a]
                 ELSE IsCancelled(r)' \/ Wants(a, desk[a])'
  BY DEF SendsOK
<1>1. CASE Resolve(r)
  <2>1. /\ pc[r] = "resolve" /\ pc'[r] = "snaps" /\ UNCHANGED <<desk, cur>>
        /\ todo'[r] = Minus(plan.vals, Own[r]) /\ plan'.vals = Over(Own[r], plan.vals)
    BY <1>0, <1>1, PlainResolve DEF Merged
  <2>2. cur'[r] = None
    BY <2>1, SenderStamped
  <2>3. ASSUME NEW a \in Addr
        PROVE IF todo'[r][a] # None THEN Own[r][a] = None /\ todo'[r][a] = plan'.vals[a]
              ELSE Own[r][a] = None => Wants(a, desk[a])'
    <3>1. CASE todo'[r][a] # None
      BY <2>1, <3>1 DEF Minus, Over
    <3>2. ASSUME todo'[r][a] = None, Own[r][a] = None PROVE Wants(a, desk[a])'
      <4>1. plan.vals[a] = None
        BY <2>1, <3>2 DEF Minus
      <4>2. Wants(a, desk[a])
        BY <1>0, <4>1 DEF WantsOK
      <4>. QED BY <1>1, <2>1, <3>2, <4>2, WantsMerge
    <3>. QED BY <3>1, <3>2
  <2>. QED BY <2>1, <2>2, <2>3
<1>2. CASE ~Resolve(r) /\ pc[r] \notin {"snaps", "owns"}
  BY <1>2, SendersNext
<1>3. CASE pc[r] \in {"snaps", "owns"}
  <2>0. Planned(r) /\ plan.ep = ep[r] /\ ep[r] # 0 /\ own[r] = Own[r] /\ TasksEnded(r)
    BY <1>3, SenderStamped
  <2>1. ~\E q \in Recalls : LeaveSuperseded(q) \/ Resolve(q)
    BY <1>3, PlainSuperseded, PlainResolve, MergeIsAlone
  <2>2. \A a \in Addr : desk'[a] = desk[a] => (Wants(a, desk[a])' <=> Wants(a, desk[a]))
    BY <2>1, WantsKept
  <2>3. ASSUME NEW b \in Addr, Pick(r, b)
        PROVE  /\ cur'[r].st = "air" /\ pc'[r] = pc[r]
               /\ UNCHANGED <<todo, plan, desk, cancelled>>
    BY <1>0, <2>3, PlainPick
  <2>4. CASE Transmit(r)
    <3>. DEFINE b == cur[r].at
    <3>1. /\ b \in Addr /\ desk' = [desk EXCEPT ![b] = todo[r][b]]
          /\ cur'[r] = [at |-> b, st |-> "sent"]
          /\ UNCHANGED <<pc, todo, plan, cancelled>> /\ todo[r][b] # None
      BY <1>0, <2>4, PlainTransmit, SenderStamped
    <3>. HIDE DEF b
    <3>2. desk'[b] = todo[r][b] /\ \A a \in Addr \ {b} : desk'[a] = desk[a]
      BY <1>0, <3>1
    <3>. QED BY <1>0, <2>2, <3>1, <3>2 DEF SendsOK, IsCancelled
  <2>5. CASE Reflect(r)
    <3>. DEFINE b == cur[r].at
    <3>1. /\ b \in Addr /\ cur[r] # None /\ cur[r].st = "sent"
          /\ todo'[r] = [todo[r] EXCEPT ![b] = None] /\ cur'[r] = None
          /\ UNCHANGED <<pc, desk, plan, cancelled>>
      BY <1>0, <2>5, PlainReflect
    <3>2. desk[b] = plan.vals[b] /\ plan.vals[b] # None
      BY <1>0, <3>1, SenderStamped DEF SendsOK
    <3>. HIDE DEF b
    <3>3. Wants(b, desk[b])
      BY <1>0, <3>1, <3>2 DEF WantsOK
    <3>4. todo'[r][b] = None /\ \A a \in Addr \ {b} : todo'[r][a] = todo[r][a]
      BY <1>0, <3>1 DEF Settings
    <3>. QED BY <1>0, <2>2, <3>1, <3>3, <3>4 DEF SendsOK, IsCancelled
  <2>6. CASE StartOwn(r)
    <3>1. /\ pc[r] = "snaps" /\ cur[r] = None /\ (IsCancelled(r) \/ todo[r] = Nothing)
          /\ todo'[r] = Own[r] /\ pc'[r] = "owns" /\ UNCHANGED <<desk, cur, cancelled>>
      BY <1>0, <2>0, <2>6, PlainStart
    <3>2. ASSUME NEW a \in Addr, Own[r][a] = None, ~IsCancelled(r) PROVE Wants(a, desk[a])
      <4>1. todo[r][a] = None
        BY <3>1, <3>2 DEF Nothing
      <4>. QED BY <1>0, <3>1, <3>2, <4>1 DEF SendsOK
    <3>. QED BY <2>2, <3>1, <3>2 DEF IsCancelled
  <2>7. ASSUME \/ Spawn(r) \/ Judge(r) \/ ClearPlan(r) \/ Tasks(r)
               \/ \E l \in Labels : Rests(r, l)
        PROVE  pc'[r] \notin {"snaps", "owns"} /\ cur'[r] = None
    <3>1. ~ClearPlan(r) /\ ~Tasks(r) /\ ~\E l \in Labels : Rests(r, l)
      BY <1>0, <1>3, <2>0, PlainClear, PlainTask DEF Rests, Restful, TasksEnded
    <3>2. Spawn(r) \/ Judge(r)
      BY <2>7, <3>1
    <3>3. CASE Spawn(r)
      BY <1>0, <3>3, PlainSpawn
    <3>4. CASE Judge(r)
      BY <1>0, <1>3, <3>4, PlainJudge
    <3>. QED BY <3>2, <3>3, <3>4
  <2>8. CASE /\ UNCHANGED <<plan, desk>> /\ (IsCancelled(r) => IsCancelled(r)')
             /\ pc'[r] = pc[r] /\ todo'[r] = todo[r] /\ cur'[r] = cur[r]
    BY <1>0, <2>2, <2>8 DEF SendsOK
  <2>9. CASE \E b \in Addr : Pick(r, b)
    BY <1>0, <2>2, <2>3, <2>9 DEF SendsOK, IsCancelled
  <2>. QED BY <2>0, <2>1, <2>4, <2>5, <2>6, <2>7, <2>8, <2>9, OthersIdle
<1>. QED BY <1>1, <1>2, <1>3

\* What a step does to a recall that joins on its tasks.
LEMMA JoinNext ==
  ASSUME PlainShow, PlayInv, [Next]_vars, NEW r \in Recalls, pc'[r] = "join"
  PROVE  \/ Spawn(r)
         \/ pc[r] = "join" /\ ~TasksEnded(r) /\ Tasks(r)
         \/ /\ pc[r] = "join" /\ (IsCancelled(r) => IsCancelled(r)')
            /\ task'[r] = task[r] /\ own'[r] = own[r] /\ gen'[r] = gen[r]
            /\ ~IsCancelled(r) \/ ~TasksEnded(r) => UNCHANGED <<plan, desk, registry>>
<1>. DEFINE Same == /\ pc[r] = "join" /\ (IsCancelled(r) => IsCancelled(r)')
                    /\ task'[r] = task[r] /\ own'[r] = own[r] /\ gen'[r] = gen[r]
<1>0. /\ pc \in [Recalls -> Labels] /\ task \in [Recalls -> [Groups -> TaskState]]
      /\ own \in [Recalls -> Settings] /\ gen \in [Recalls -> Nat] /\ TypeOK
  BY PlayTypes
<1>1. Spawn(r) \/ (pc[r] = "join" /\ ~TasksEnded(r) /\ Tasks(r)) \/ Same
  <2>1. ASSUME NEW q \in Recalls, Claim(q) \/ Enqueue(q) \/ Enter(q) \/ LeaveSuperseded(q)
        PROVE  Same
    BY <1>0, <2>1, PlainClaim, PlainEnqueue, PlainEnter, PlainSuperseded DEF IsCancelled
  <2>2. ASSUME NEW q \in Recalls, Resolve(q) \/ StartOwn(q) PROVE Same
    BY <1>0, <2>2, PlainResolve, PlainStart DEF IsCancelled
  <2>3. ASSUME NEW q \in Recalls, Spawn(q) PROVE Spawn(r) \/ Same
    BY <1>0, <2>3, PlainSpawn DEF IsCancelled
  <2>4. ASSUME NEW q \in Recalls, Judge(q) \/ ClearPlan(q) \/ \E l \in Labels : Rests(q, l)
        PROVE  Same
    BY <1>0, <2>4, PlainJudge, PlainClear DEF Rests, Restful, IsCancelled
  <2>5. ASSUME NEW q \in Recalls, Transmit(q) \/ Reflect(q) \/ \E a \in Addr : Pick(q, a)
        PROVE  Same
    BY <1>0, <2>5, PlainTransmit, PlainReflect, PlainPick DEF IsCancelled
  <2>6. ASSUME NEW q \in Recalls, Tasks(q)
        PROVE  (pc[r] = "join" /\ ~TasksEnded(r) /\ Tasks(r)) \/ Same
    BY <1>0, <2>6, PlainTask DEF IsCancelled, TasksEnded
  <2>7. ASSUME UNCHANGED <<score, report, loading>> PROVE Same
    BY <2>7 DEF score, IsCancelled
  <2>. HIDE DEF Same
  <2>. QED BY <1>0, <2>1, <2>2, <2>3, <2>4, <2>5, <2>6, <2>7, PlayTypes, PlainNext
<1>2. ASSUME pc[r] = "join", ~Tasks(r), ~IsCancelled(r) \/ ~TasksEnded(r)
      PROVE  UNCHANGED <<plan, desk, registry>>
  <2>1. Planned(r) /\ ep[r] # 0 /\ plan.ep = ep[r]
    BY <1>2, PlayEpochs DEF Planned, PlainShow, PlayInv, StampOK
  <2>2. ~\E q \in Recalls : LeaveSuperseded(q) \/ Resolve(q)
    BY <1>2, <2>1, PlainSuperseded, PlainResolve, MergeIsAlone
  <2>3. ~Transmit(r) /\ ~Reflect(r) /\ ~StartOwn(r) /\ ~Spawn(r)
    BY <1>0, <1>2, SenderStamped, PlainTransmit, PlainReflect, PlainStart, PlainSpawn
  <2>4. ASSUME Judge(r) \/ ClearPlan(r) \/ \E l \in Labels : Rests(r, l) PROVE FALSE
    BY <1>0, <1>2, <2>4, PlainJudge, PlainClear DEF Rests, Restful
  <2>5. \A a \in Addr : ~Pick(r, a)
    BY <1>2 DEF Pick, Sending
  <2>. QED BY <1>2, <2>1, <2>2, <2>3, <2>4, <2>5, OthersIdle
<1>3. Tasks(r) => ~TasksEnded(r)
  BY <1>0, PlainTask DEF TasksEnded
<1>. QED BY <1>1, <1>2, <1>3

\* A step of a task keeps the order of its sends.
LEMMA ShapeMoves ==
  ASSUME NEW r \in Recalls, NEW g \in Groups, NEW t,
         task[r][g] \in TaskState, ShapeFits(r, g, task[r][g]),
         TaskSends(r, g, t) \/ TaskMoves(r, g, t)
  PROVE  ShapeFits(r, g, t)
<1>. DEFINE s == task[r][g]
            T == Targets(r, g)
<1>1. CASE TaskSends(r, g, t)
  BY <1>1 DEF TaskSends, ShapeFits, TaskState
<1>2. ASSUME t = [IdleTask EXCEPT !.st = "done"] PROVE ShapeFits(r, g, t)
  BY <1>2, TicksAssumption DEF IdleTask, ShapeFits
<1>3. ASSUME t = [st |-> "run", phase |-> 0, at |-> None, left |-> T \ Continuous]
      PROVE  ShapeFits(r, g, t)
  BY <1>3, TicksAssumption DEF ShapeFits
<1>4. ASSUME NEW a \in s.left, t = [s EXCEPT !.st = "air", !.at = a]
      PROVE  ShapeFits(r, g, t)
  BY <1>4 DEF ShapeFits, TaskState
<1>5. ASSUME NEW a \in s.left, s.st = "run", t = [s EXCEPT !.left = @ \ {a}]
      PROVE  ShapeFits(r, g, t)
  BY <1>5 DEF ShapeFits, TaskState
<1>6. ASSUME t = [s EXCEPT !.st = "run", !.left = @ \ {s.at}, !.at = None]
      PROVE  ShapeFits(r, g, t)
  BY <1>6 DEF ShapeFits, TaskState
<1>7. ASSUME s.st = "run", s.phase < Ticks,
             t = [s EXCEPT !.phase = @ + 1, !.left = T \cap Continuous]
      PROVE  ShapeFits(r, g, t)
  BY <1>7, TicksAssumption DEF ShapeFits, TaskState
<1>. QED BY <1>1, <1>2, <1>3, <1>4, <1>5, <1>6, <1>7 DEF TaskMoves

\* Until a recall is superseded the registry keeps the targets of its running tasks:
\* only a task's own end takes them out.
LEMMA ShapeNext == ASSUME PlainShow, PlayInv, [Next]_vars PROVE ShapeOK'
<1>0. /\ pc \in [Recalls -> Labels] /\ task \in [Recalls -> [Groups -> TaskState]]
      /\ own \in [Recalls -> Settings] /\ registry \in [Addr -> Nat]
      /\ ShapeOK /\ TypeOK
  BY PlayTypes DEF PlayInv
<1>. SUFFICES ASSUME NEW r \in Recalls, pc'[r] = "join", NEW h \in Groups
     PROVE  /\ ShapeFits(r, h, task[r][h])'
            /\ ~TaskEnded(r, h)' /\ ~IsCancelled(r)' =>
                 \A a \in Targets(r, h)' : registry'[a] = gen'[r]
  BY DEF ShapeOK
<1>1. CASE Spawn(r)
  <2>1. /\ own'[r] = own[r] /\ gen'[r] = gen[r]
        /\ registry' = [a \in Addr |-> IF own[r][a] # None THEN gen[r] ELSE registry[a]]
        /\ task'[r][h] = IF Targets(r, h) = {} THEN IdleTask ELSE [IdleTask EXCEPT !.st = "wait"]
    <3>. DEFINE waiting == [g \in Groups |-> IF Targets(r, g) = {} THEN IdleTask
                                             ELSE [IdleTask EXCEPT !.st = "wait"]]
    <3>1. /\ own' = own /\ gen' = gen
          /\ registry' = [a \in Addr |-> IF own[r][a] # None THEN gen[r] ELSE registry[a]]
          /\ task' = [task EXCEPT ![r] = waiting]
      BY <1>1, PlainSpawn
    <3>2. waiting[h] = IF Targets(r, h) = {} THEN IdleTask ELSE [IdleTask EXCEPT !.st = "wait"]
      OBVIOUS
    <3>. HIDE DEF waiting
    <3>. QED BY <1>0, <3>1, <3>2
  <2>2. Targets(r, h)' = Targets(r, h) /\ Targets(r, h) \subseteq Named(own[r])
    BY <2>1 DEF Targets, Named
  <2>3. ShapeFits(r, h, task[r][h])'
    BY <2>1, <2>2, TicksAssumption DEF ShapeFits, IdleTask
  <2>4. \A a \in Targets(r, h)' : registry'[a] = gen'[r]
    BY <2>1, <2>2 DEF Named
  <2>. QED BY <2>3, <2>4
<1>2. CASE /\ pc[r] = "join" /\ (IsCancelled(r) => IsCancelled(r)')
           /\ task'[r] = task[r] /\ own'[r] = own[r] /\ gen'[r] = gen[r]
           /\ ~IsCancelled(r) \/ ~TasksEnded(r) => UNCHANGED <<plan, desk, registry>>
  <2>1. Targets(r, h)' = Targets(r, h)
    BY <1>2 DEF Targets, Named
  <2>2. TaskEnded(r, h)' <=> TaskEnded(r, h)
    BY <1>2 DEF TaskEnded
  <2>3. ShapeFits(r, h, task[r][h])'
    BY <1>0, <1>2, <2>1 DEF ShapeOK, ShapeFits
  <2>. QED BY <1>0, <1>2, <2>1, <2>2, <2>3 DEF ShapeOK, TasksEnded
<1>3. CASE pc[r] = "join" /\ ~TasksEnded(r) /\ Tasks(r)
  <2>1. PICK g \in Groups, t \in TaskState :
          /\ ~TaskEnded(r, g) /\ task' = [task EXCEPT ![r][g] = t]
          /\ TaskSends(r, g, t) \/ TaskMoves(r, g, t)
    BY <1>0, <1>3, PlainTask
  <2>2. UNCHANGED <<cancelled, own, gen>>
    BY <1>0, <1>3, PlainTask
  <2>3. /\ task'[r][g] = t /\ \A k \in Groups \ {g} : task'[r][k] = task[r][k]
        /\ \A k \in Groups : Targets(r, k)' = Targets(r, k)
    BY <1>0, <2>1, <2>2 DEF Targets, Named
  <2>4. /\ UNCHANGED registry
        \/ /\ t.st = "done"
           /\ \A a \in Addr : a \notin Targets(r, g) => registry'[a] = registry[a]
    <3>1. CASE TaskSends(r, g, t)
      BY <3>1 DEF TaskSends
    <3>2. CASE TaskMoves(r, g, t)
      BY <3>2 DEF TaskMoves, IdleTask
    <3>. QED BY <2>1, <3>1, <3>2
  <2>5. CASE h = g
    <3>1. ShapeFits(r, g, t)
      BY <1>0, <1>3, <2>1, ShapeMoves DEF ShapeOK
    <3>2. ShapeFits(r, h, task[r][h])'
      BY <2>3, <2>5, <3>1 DEF ShapeFits
    <3>. QED BY <1>0, <1>3, <2>1, <2>2, <2>3, <2>4, <2>5, <3>2
         DEF ShapeOK, TaskEnded, IsCancelled
  <2>6. CASE h # g
    <3>1. ShapeFits(r, h, task[r][h])'
      BY <1>0, <1>3, <2>3, <2>6 DEF ShapeOK, ShapeFits
    <3>2. \A a \in Targets(r, h) : a \in Addr /\ a \notin Targets(r, g)
      BY <2>6 DEF Targets, Named
    <3>. QED BY <1>0, <1>3, <2>2, <2>3, <2>4, <2>6, <3>1, <3>2
         DEF ShapeOK, TaskEnded, IsCancelled
  <2>. QED BY <2>5, <2>6
<1>. QED BY <1>1, <1>2, <1>3, JoinNext

\* A task is past a target only when it has sent it its last value.
LEMMA PastMoves ==
  ASSUME NEW r \in Recalls, NEW g \in Groups, NEW t, NEW a \in Targets(r, g),
         task[r][g] \in TaskState, ShapeFits(r, g, task[r][g]), TaskMoves(r, g, t),
         ~IsCancelled(r), \A b \in Targets(r, g) : registry[b] = gen[r],
         Past(a, t)
  PROVE  Past(a, task[r][g])
<1>. DEFINE s == task[r][g]
            fading == Targets(r, g) \cap Continuous
<1>0. a \in Addr /\ a # None /\ Ticks # 0 /\ Ticks \in Nat
  BY AddrAssumption, TicksAssumption DEF Targets, Named
<1>2. ASSUME t = [st |-> "run", phase |-> 0, at |-> None, left |-> Targets(r, g) \ Continuous]
      PROVE  FALSE
  BY <1>0, <1>2 DEF Past
<1>3. ASSUME NEW b \in s.left, s.st = "run",
             \/ t = [s EXCEPT !.st = "air", !.at = b]
             \/ t = [s EXCEPT !.left = @ \ {b}] /\ registry[b] # gen[r]
      PROVE  Past(a, s)
  <2>1. t = [s EXCEPT !.st = "air", !.at = b]
    BY <1>3 DEF ShapeFits
  <2>. QED BY <1>3, <2>1 DEF Past, TaskState
<1>4. ASSUME s.st = "sent",
             t = [s EXCEPT !.st = "run", !.left = @ \ {s.at}, !.at = None]
      PROVE  Past(a, s)
  BY <1>4 DEF Past, TaskState
<1>5. ASSUME s.st = "run", s.left = {}, t = [s EXCEPT !.phase = @ + 1, !.left = fading]
      PROVE  Past(a, s)
  BY <1>5 DEF Past, TaskState
<1>6. ASSUME s.st = "run", s.left = {}, s.phase = Ticks \/ fading = {}
      PROVE  Past(a, s)
  BY <1>6 DEF Past
<1>. QED BY <1>2, <1>3, <1>4, <1>5, <1>6 DEF TaskMoves

\* While a recall joins, what it does not set is as wanted, and what its tasks are past
\* has the recall's value.
LEMMA LandedNext == ASSUME PlainShow, PlayInv, [Next]_vars PROVE LandedOK'
<1>0. /\ pc \in [Recalls -> Labels] /\ task \in [Recalls -> [Groups -> TaskState]]
      /\ own \in [Recalls -> Settings] /\ todo \in [Recalls -> Settings]
      /\ desk \in [Addr -> Value] /\ ShapeOK /\ LandedOK /\ SendsOK /\ TypeOK
  BY PlayTypes DEF PlayInv
<1>. SUFFICES ASSUME NEW r \in Recalls, pc'[r] = "join", ~IsCancelled(r)', NEW a \in Addr
     PROVE  IF Own[r][a] = None THEN Wants(a, desk[a])'
            ELSE Past(a, task[r][Group[a]])' => desk'[a] = Own[r][a]
  BY DEF LandedOK
<1>. DEFINE h == Group[a]
<1>1. h \in Groups
  BY DEF Groups
<1>2. ASSUME ~IsCancelled(r), pc[r] \in {"snaps", "join"}, desk'[a] = desk[a],
             Wants(a, desk[a])
      PROVE  Wants(a, desk[a])'
  <2>1. Planned(r)
    BY <1>2 DEF Planned, PlainShow
  <2>2. ~\E q \in Recalls : LeaveSuperseded(q) \/ Resolve(q)
    BY <1>2, <2>1, PlainSuperseded, PlainResolve, MergeIsAlone
  <2>. QED BY <1>2, <2>2, WantsKept
<1>3. CASE Spawn(r)
  <2>1. /\ pc[r] = "snaps" /\ cur[r] = None /\ UNCHANGED <<desk, cancelled>>
        /\ IsCancelled(r) \/ todo[r] = Nothing
    BY <1>3, PlainSpawn
  <2>2. ~IsCancelled(r) /\ todo[r][a] = None /\ own[r] = Own[r]
    BY <2>1, SenderStamped DEF IsCancelled, Nothing
  <2>3. CASE Own[r][a] = None
    BY <1>0, <1>2, <2>1, <2>2, <2>3 DEF SendsOK
  <2>4. CASE Own[r][a] # None
    <3>. DEFINE waiting == [g \in Groups |-> IF Targets(r, g) = {} THEN IdleTask
                                             ELSE [IdleTask EXCEPT !.st = "wait"]]
    <3>1. task' = [task EXCEPT ![r] = waiting]
      BY <1>3, PlainSpawn
    <3>2. Targets(r, h) # {}
      BY <2>2, <2>4 DEF Targets, Named
    <3>3. waiting[h] = [IdleTask EXCEPT !.st = "wait"]
      BY <1>1, <3>2
    <3>. HIDE DEF waiting
    <3>4. task'[r][h] = [IdleTask EXCEPT !.st = "wait"]
      BY <1>0, <3>1, <3>3
    <3>5. ~Past(a, task[r][h])'
      BY <3>4 DEF Past, IdleTask
    <3>. QED BY <2>4, <3>5
  <2>. QED BY <2>3, <2>4
<1>4. CASE /\ pc[r] = "join" /\ (IsCancelled(r) => IsCancelled(r)')
           /\ task'[r] = task[r] /\ own'[r] = own[r] /\ gen'[r] = gen[r]
           /\ ~IsCancelled(r) \/ ~TasksEnded(r) => UNCHANGED <<plan, desk, registry>>
  BY <1>0, <1>2, <1>4 DEF LandedOK, Past
<1>5. CASE pc[r] = "join" /\ ~TasksEnded(r) /\ Tasks(r)
  <2>1. PICK g \in Groups, t \in TaskState :
          /\ ~TaskEnded(r, g) /\ task' = [task EXCEPT ![r][g] = t]
          /\ TaskSends(r, g, t) \/ TaskMoves(r, g, t)
    BY <1>0, <1>5, PlainTask
  <2>2. /\ task'[r][g] = t /\ \A k \in Groups \ {g} : task'[r][k] = task[r][k]
        /\ ~IsCancelled(r) /\ own[r] = Own[r] /\ task[r][g] \in TaskState
    BY <1>0, <1>5, <2>1, PlainTask, SenderStamped DEF IsCancelled
  <2>3. /\ ShapeFits(r, g, task[r][g])
        /\ \A b \in Targets(r, g) : registry[b] = gen[r]
    BY <1>0, <1>5, <2>1, <2>2 DEF ShapeOK
  <2>. DEFINE s == task[r][g]
  <2>4. CASE TaskMoves(r, g, t)
    <3>1. UNCHANGED desk
      BY <2>4 DEF TaskMoves
    <3>2. ASSUME Own[r][a] # None, Past(a, task[r][h])' PROVE Past(a, task[r][h])
      <4>1. CASE h = g
        <5>1. a \in Targets(r, g) /\ Past(a, t)
          BY <2>2, <3>2, <4>1 DEF Targets, Named, Past
        <5>. QED BY <2>2, <2>3, <2>4, <4>1, <5>1, PastMoves
      <4>2. CASE h # g
        BY <1>1, <2>2, <3>2, <4>2 DEF Past
      <4>. QED BY <4>1, <4>2
    <3>. QED BY <1>0, <1>2, <1>5, <2>2, <3>1, <3>2 DEF LandedOK
  <2>5. CASE TaskSends(r, g, t)
    <3>1. /\ s.st = "air" /\ t = [s EXCEPT !.st = "sent"] /\ s.at \in s.left
          /\ desk' = [desk EXCEPT ![s.at] = TaskValue(r, s)]
          /\ s.at \in Addr /\ Group[s.at] = g /\ own[r][s.at] # None
      BY <2>3, <2>5 DEF TaskSends, ShapeFits, Targets, Named
    <3>2. CASE Own[r][a] = None
      BY <1>0, <1>2, <1>5, <2>2, <3>1, <3>2 DEF LandedOK
    <3>3. ASSUME Own[r][a] # None, a # s.at, Past(a, task[r][h])' PROVE desk'[a] = Own[r][a]
      <4>1. Past(a, task[r][h])
        <5>1. CASE h = g
          BY <2>2, <3>1, <3>3, <5>1 DEF Past, TaskState
        <5>2. CASE h # g
          BY <1>1, <2>2, <3>3, <5>2 DEF Past
        <5>. QED BY <5>1, <5>2
      <4>. QED BY <1>0, <1>5, <2>2, <3>1, <3>3, <4>1 DEF LandedOK
    <3>4. ASSUME a = s.at, Past(a, task[r][h])' PROVE desk'[a] = Own[r][a]
      <4>1. Past(a, t) /\ desk'[a] = TaskValue(r, s)
        BY <1>0, <2>2, <3>1, <3>4 DEF Past
      <4>2. s.phase = 0 \/ s.phase = Ticks
        BY <2>2, <2>3, <3>1, <3>4, <4>1 DEF Past, ShapeFits, TaskState
      <4>. QED BY <2>2, <3>4, <4>1, <4>2 DEF TaskValue
    <3>. QED BY <3>2, <3>3, <3>4
  <2>. QED BY <2>1, <2>4, <2>5
<1>. QED BY <1>3, <1>4, <1>5, JoinNext

\* A recall completes when all it was to send has landed; nobody disturbs that before
\* it clears the plan.
LEMMA CompleteNext == ASSUME PlainShow, PlayInv, [Next]_vars PROVE CompleteOK'
<1>0. /\ pc \in [Recalls -> Labels] /\ task \in [Recalls -> [Groups -> TaskState]]
      /\ plan \in [ep : Nat, vals : Settings] /\ ep \in [Recalls -> Nat]
      /\ verdict \in [Recalls -> {"open", "complete", "cancelled"}]
      /\ todo \in [Recalls -> Settings]
      /\ ShapeOK /\ LandedOK /\ SendsOK /\ WantsOK /\ CompleteOK /\ VerdictOK /\ TypeOK
  BY PlayTypes DEF PlayInv
<1>. SUFFICES ASSUME NEW r \in Recalls, Planned(r)', verdict'[r] = "complete",
                     plan'.ep = ep'[r], NEW a \in Addr
              PROVE  Wants(a, desk[a])'
  BY DEF CompleteOK
<1>1. ~\E q \in Recalls : LeaveSuperseded(q) \/ Resolve(q)
  <2>. SUFFICES ASSUME NEW q \in Recalls, LeaveSuperseded(q) \/ Resolve(q) PROVE FALSE
    OBVIOUS
  <2>1. /\ pc[q] \in {"superseded", "resolve"} /\ plan'.ep = ep[q] /\ UNCHANGED ep
        /\ \/ verdict' = [verdict EXCEPT ![q] = "cancelled"]
           \/ pc[q] = "resolve" /\ UNCHANGED verdict
    BY PlainSuperseded, PlainResolve DEF Merged
  <2>2. r = q
    BY <2>1, MergeIsNewest, PlayEpochs
  <2>. QED BY <1>0, <2>1, <2>2 DEF VerdictOK
<1>2. Planned(r) /\ ep'[r] = ep[r] /\ ep[r] # 0
  <2>1. Planned(r) /\ ep'[r] = ep[r]
    BY <1>1, PlainPlanned
  <2>. QED BY <2>1, PlayEpochs DEF Planned
<1>3. UNCHANGED plan
  BY <1>0, <1>1, <1>2, PlanChange, PlainClear DEF NoPlan
<1>4. CASE verdict[r] = "complete" /\ desk'[a] = desk[a]
  BY <1>0, <1>1, <1>2, <1>3, <1>4, WantsKept DEF CompleteOK
<1>5. CASE Judge(r)
  <2>1. /\ \/ pc[r] = "owns" /\ cur[r] = None /\ (IsCancelled(r) \/ todo[r] = Nothing)
           \/ pc[r] = "join" /\ TasksEnded(r)
        /\ verdict' = [verdict EXCEPT ![r] = Outcome(r)] /\ UNCHANGED desk
    BY <1>5, PlainJudge
  <2>2. ~IsCancelled(r)
    BY <1>0, <2>1 DEF Outcome
  <2>3. Wants(a, desk[a])
    <3>1. CASE pc[r] = "owns"
      BY <1>0, <2>1, <2>2, <3>1 DEF SendsOK, Nothing
    <3>2. CASE pc[r] = "join" /\ Own[r][a] = None
      BY <1>0, <2>2, <3>2 DEF LandedOK
    <3>3. CASE pc[r] = "join" /\ Own[r][a] # None
      <4>1. Group[a] \in Groups /\ own[r] = Own[r]
        BY <3>3 DEF Groups, PlayInv, VerdictTrue
      <4>2. task[r][Group[a]].st = "done"
        <5>1. a \in Targets(r, Group[a])
          BY <3>3, <4>1 DEF Targets, Named
        <5>. QED BY <1>0, <2>1, <3>3, <4>1, <5>1 DEF TasksEnded, TaskEnded, ShapeOK, ShapeFits
      <4>3. desk[a] = Own[r][a]
        BY <1>0, <2>2, <3>3, <4>2 DEF LandedOK, Past
      <4>4. plan.vals[a] = Own[r][a]
        BY <1>2, <1>3, <3>3 DEF PlayInv, StampOK
      <4>. QED BY <1>0, <3>3, <4>3, <4>4 DEF WantsOK
    <3>. QED BY <2>1, <3>1, <3>2, <3>3
  <2>. QED BY <1>1, <2>1, <2>3, WantsKept
<1>6. ASSUME ClearPlan(r) \/ \E l \in Labels : Rests(r, l)
      PROVE  verdict[r] = "complete" /\ desk'[a] = desk[a]
  BY <1>0, <1>6, PlainClear DEF Rests
<1>7. ASSUME \/ Transmit(r) \/ Reflect(r) \/ StartOwn(r) \/ Spawn(r) \/ Tasks(r)
             \/ \E b \in Addr : Pick(r, b)
      PROVE  FALSE
  <2>1. pc[r] \in {"snaps", "owns", "join"}
    <3>1. CASE Transmit(r) \/ Reflect(r) \/ StartOwn(r) \/ Spawn(r)
      BY <1>0, <3>1, PlainTransmit, PlainReflect, PlainStart, PlainSpawn, SenderStamped
    <3>2. CASE Tasks(r)
      BY <1>0, <3>2, PlainTask, SenderStamped DEF TasksEnded
    <3>3. CASE \E b \in Addr : Pick(r, b)
      BY <1>0, <3>3 DEF Pick, Sending, PathOK, PlayInv, IInv, PlainShow, HasSnapshot
    <3>. QED BY <1>7, <3>1, <3>2, <3>3
  <2>2. UNCHANGED verdict
    BY <1>0, <1>7, PlainTransmit, PlainReflect, PlainStart, PlainSpawn, PlainTask, PlainPick
  <2>. QED BY <1>0, <2>1, <2>2 DEF VerdictOK
<1>. QED BY <1>1, <1>2, <1>3, <1>4, <1>5, <1>6, <1>7, OthersIdle

\* The last claim is the latest.
LEMMA LatestNext == ASSUME PlainShow, PlayInv, [Next]_vars PROVE LatestOK'
<1>0. ep \in [Recalls -> Nat] /\ epoch \in Nat /\ LatestOK
  BY PlayTypes DEF PlayInv
<1>1. ASSUME NEW r \in Recalls, Claim(r) PROVE LatestOK'
  <2>1. ep' = [ep EXCEPT ![r] = epoch + 1] /\ pc[r] = "idle"
    BY <1>1, PlainClaim
  <2>2. ep[r] = 0 /\ \A q \in Recalls : ep[q] <= epoch
    BY <2>1, PlayEpochs
  <2>3. ASSUME NEW a \in Addr, Own[r][a] # None
        PROVE  Fired(r, a)' /\ \A q \in Recalls : ep'[q] <= ep'[r]
    BY <1>0, <2>1, <2>2, <2>3 DEF Fired
  <2>4. ASSUME NEW a \in Addr, Own[r][a] = None, NEW q \in Recalls
        PROVE  (Fired(q, a)' <=> Fired(q, a)) /\ (Fired(q, a) => ep'[q] = ep[q])
    BY <1>0, <2>1, <2>2, <2>4 DEF Fired
  <2>. QED BY <1>0, <2>3, <2>4 DEF LatestOK
<1>2. ASSUME UNCHANGED ep PROVE LatestOK'
  BY <1>0, <1>2 DEF LatestOK, Fired
<1>3. (\E r \in Recalls : Claim(r)) \/ UNCHANGED ep
  BY PlainPlanned, PlainSuperseded, PlainResolve
<1>. QED BY <1>1, <1>2, <1>3

-----------------------------------------------------------------------------
\* At the start nothing is planned and the desk has what it had.
LEMMA PlayInit == ASSUME PlainShow, Init PROVE PlayInv
<1>. USE DEF Init
<1>1. IInv /\ VerdictOK /\ CalmOK
  BY IInvInit DEF VerdictOK, CalmOK
<1>2. \A r \in Recalls : ~Planned(r)
  BY DEF Planned
<1>3. \A r \in Recalls : TasksEnded(r)
  BY DEF TasksEnded, TaskEnded, IdleTask
<1>4. LineOK /\ PrefixOK /\ AloneOK /\ VerdictTrue
  BY <1>2, <1>3 DEF LineOK, PrefixOK, AloneOK, VerdictTrue, Judged
<1>5. StampOK
  BY <1>2, <1>3 DEF StampOK, NoPlan
<1>6. WantsOK
  BY <1>2 DEF WantsOK, Wants, Sets, NoPlan, Nothing
<1>7. SendsOK /\ ShapeOK /\ LandedOK /\ CompleteOK /\ LatestOK
  BY <1>2 DEF SendsOK, ShapeOK, LandedOK, CompleteOK, LatestOK, Fired
<1>. QED BY <1>1, <1>4, <1>5, <1>6, <1>7 DEF PlayInv

\* Every step of a plain show keeps the invariant.
LEMMA PlayInvNext == ASSUME PlainShow, PlayInv, [Next]_vars PROVE PlayInv'
<1>1. IInv' /\ VerdictOK'
  BY IInvNext, VerdictNext DEF PlayInv
<1>. QED BY <1>1, CalmNext, LineNext, PrefixNext, AloneNext, VerdictTrueNext, StampNext,
            WantsNext, SendsNext, ShapeNext, LandedNext, CompleteNext, LatestNext DEF PlayInv

\* The invariant holds throughout a plain show.
LEMMA PlayInvAlways == ASSUME PlainShow PROVE Spec => []PlayInv
<1>1. Init => PlayInv
  BY PlayInit
<1>2. PlayInv /\ [Next]_vars => PlayInv'
  BY PlayInvNext
<1>. QED BY <1>1, <1>2, PTL DEF Spec

\* The calls fired that set an address, and the value the last of them leaves there.
LEMMA IdealIs ==
  ASSUME PlainShow, PlayInv, NEW a \in Addr
  PROVE  /\ (\A r \in Recalls : ~Fired(r, a)) => Ideal[a] = Init0
         /\ \A r \in Recalls :
              Fired(r, a) /\ (\A q \in Recalls : Fired(q, a) => ep[q] <= ep[r])
              => Ideal[a] = Own[r][a]
<1>. DEFINE S == {r \in Setters[a] : ep[r] \in 1 .. (epoch + 1) - 1}
<1>0. ep \in [Recalls -> Nat] /\ epoch \in Nat
  BY PlayTypes
<1>1. \A r \in Recalls : Ends[r][a] = Own[r][a]
  BY DEF Ends, Over, PlainShow, Nothing
<1>2. Setters[a] = {r \in Recalls : Own[r][a] # None}
  BY <1>1 DEF Setters
<1>3. S = {r \in Recalls : Fired(r, a)}
  BY <1>0, <1>2, PlayEpochs DEF Fired
<1>4. Ideal[a] = IF S = {} THEN Init0 ELSE Ends[Latest(S)][a]
  BY DEF Ideal, IdealBefore
<1>. HIDE DEF S
<1>5. ASSUME NEW r \in Recalls, Fired(r, a),
             \A q \in Recalls : Fired(q, a) => ep[q] <= ep[r]
      PROVE  Latest(S) = r
  <2>1. r \in S /\ \A q \in S : ep[q] <= ep[r]
    BY <1>3, <1>5
  <2>2. \A x \in S : (\A q \in S : ep[q] <= ep[x]) => x = r
    <3>. SUFFICES ASSUME NEW x \in S, \A q \in S : ep[q] <= ep[x] PROVE x = r
      OBVIOUS
    <3>1. x \in Recalls /\ ep[x] <= ep[r] /\ ep[r] <= ep[x] /\ ep[r] # 0
      BY <1>3, <1>5, <2>1 DEF Fired
    <3>. QED BY <1>0, <3>1, PlayEpochs
  <2>3. Latest(S) \in S /\ \A q \in S : ep[q] <= ep[Latest(S)]
    BY <2>1 DEF Latest
  <2>. QED BY <2>2, <2>3
<1>. QED BY <1>1, <1>3, <1>4, <1>5

\* Ideal is where the calls fired so far leave the desk.
IdealOK ==
  \A a \in Addr :
    /\ (\A r \in Recalls : ~Fired(r, a)) => Ideal[a] = Init0
    /\ \A r \in Recalls :
         Fired(r, a) /\ (\A q \in Recalls : Fired(q, a) => ep[q] <= ep[r])
         => Ideal[a] = Own[r][a]

\* When no call runs the desk is where they leave it: the plan is empty, and what is
\* wanted of the calls planned is what is wanted of those fired.
LEMMA QuietDesk == ASSUME PlainShow, PlayInv PROVE CueOrder
<1>. SUFFICES ASSUME Quiet, NEW a \in Addr PROVE desk[a] = Ideal[a]
  <2>1. desk = [a \in Addr |-> desk[a]] /\ Ideal = [a \in Addr |-> Ideal[a]]
    BY PlayTypes DEF Ideal, IdealBefore
  <2>. QED BY <2>1 DEF CueOrder
<1>0. ep \in [Recalls -> Nat] /\ epoch \in Nat /\ plan \in [ep : Nat, vals : Settings]
  BY PlayTypes
<1>1. \A r \in Recalls : (Planned(r) <=> ep[r] # 0) /\ (ep[r] # 0 => pc[r] = "done")
  BY PlayEpochs DEF Quiet, Planned, PlainShow
<1>2. plan.vals = Nothing
  <2>1. CASE plan.ep = 0
    BY <2>1 DEF PlayInv, StampOK
  <2>2. CASE plan.ep # 0
    <3>1. PICK r \in Recalls : Planned(r)
      BY <2>2 DEF PlayInv, StampOK
    <3>2. epoch # 0
      BY <1>0, <1>1, <3>1, PlayEpochs
    <3>3. token \in Recalls /\ ep[token] = epoch
      BY <3>2, PlayTypes DEF PlayInv, IInv, ClaimOK, TypeOK
    <3>4. pc[token] = "done" /\ ~IsCancelled(token)
      BY <1>0, <1>1, <3>2, <3>3, PlayEpochs DEF IsCancelled
    <3>. QED BY <3>3, <3>4 DEF PlayInv, StampOK
  <2>. QED BY <2>1, <2>2
<1>3. Wants(a, desk[a])
  BY <1>2 DEF PlayInv, WantsOK, Nothing
<1>4. \A r \in Recalls : Sets(r, a) <=> Fired(r, a)
  BY <1>1 DEF Sets, Fired
<1>. QED BY <1>3, <1>4, IdealIs DEF Wants, LastSets

\* The properties of the invariant, in the next state.
LEMMA PlayedNext ==
  ASSUME PlainShow
  PROVE  PlayInv' => IdealOK' /\ CueOrder' /\ TypeOK'
<1>1. PlayInv => IdealOK /\ CueOrder /\ TypeOK
  BY IdealIs, QuietDesk, PlayTypes DEF IdealOK
<1>. QED BY <1>1, PTL

\* Which steps there are besides a claim: none when no call runs, and none that both
\* moves a call on and touches the desk.
LEMMA PlayMoves ==
  ASSUME PlainShow, PlayInv, [Next]_vars, ~\E r \in Recalls : Claim(r)
  PROVE  /\ UNCHANGED <<ep, epoch>>
         /\ UNCHANGED pc \/ UNCHANGED desk
         /\ Quiet => UNCHANGED <<pc, desk>>
<1>1. UNCHANGED <<ep, epoch>>
  BY PlainPlanned, PlainSuperseded, PlainResolve
<1>2. ASSUME NEW r \in Recalls, Enqueue(r) \/ Enter(r) \/ LeaveSuperseded(r) \/ Resolve(r)
      PROVE  UNCHANGED desk /\ ~Quiet
  BY <1>2, PlainEnqueue, PlainEnter, PlainSuperseded, PlainResolve DEF Quiet
<1>3. ASSUME NEW r \in Recalls,
             \/ StartOwn(r) \/ Spawn(r) \/ Judge(r) \/ ClearPlan(r)
             \/ \E l \in Labels : Rests(r, l)
      PROVE  UNCHANGED desk /\ ~Quiet
  BY <1>3, PlainStart, PlainSpawn, PlainJudge, PlainClear DEF Rests, Restful, Quiet
<1>4. ASSUME NEW r \in Recalls, Transmit(r) \/ Reflect(r) PROVE UNCHANGED pc /\ ~Quiet
  BY <1>4, PlayTypes, PlainTransmit, PlainReflect, SenderStamped DEF Quiet
<1>5. ASSUME NEW r \in Recalls, Tasks(r) PROVE UNCHANGED pc /\ ~Quiet
  <2>1. ~TasksEnded(r) /\ UNCHANGED pc
    BY <1>5, PlayTypes, PlainTask DEF TasksEnded
  <2>. QED BY <2>1, SenderStamped DEF Quiet
<1>6. ASSUME NEW r \in Recalls, NEW a \in Addr, Pick(r, a) PROVE UNCHANGED pc /\ ~Quiet
  BY <1>6, PlainPick DEF Pick, Sending, Quiet
<1>7. ASSUME UNCHANGED <<score, report, loading>> PROVE UNCHANGED <<pc, desk>>
  BY <1>7 DEF score
<1>. QED BY <1>1, <1>2, <1>3, <1>4, <1>5, <1>6, <1>7, PlayTypes, PlainNext

\* A claim fires its recall: from then on the end-values it sets are the last.
LEMMA ClaimFires ==
  ASSUME PlainShow, PlayInv, [Next]_vars, PlayInv', NEW r \in Recalls, Claim(r)
  PROVE  Playback!Fire
<1>0. /\ ep \in [Recalls -> Nat] /\ epoch \in Nat /\ pc \in [Recalls -> Labels]
      /\ IdealOK /\ IdealOK'
  BY PlayTypes, IdealIs, PlayedNext DEF IdealOK
<1>1. /\ pc[r] = "idle" /\ ep' = [ep EXCEPT ![r] = epoch + 1]
      /\ pc' = [pc EXCEPT ![r] = "claimed"] /\ UNCHANGED desk
  BY PlainClaim
<1>2. ep[r] = 0 /\ \A q \in Recalls : ep[q] <= epoch
  BY <1>1, PlayEpochs
<1>3. \A a \in Addr : Ends[r][a] = Own[r][a]
  BY DEF Ends, Over, PlainShow, Nothing
<1>4. ASSUME NEW a \in Addr
      PROVE  Ideal'[a] = IF Ends[r][a] # None THEN Ends[r][a] ELSE Ideal[a]
  <2>1. CASE Own[r][a] # None
    <3>1. Fired(r, a)' /\ \A q \in Recalls : ep'[q] <= ep'[r]
      BY <1>0, <1>1, <1>2, <2>1 DEF Fired
    <3>. QED BY <1>0, <1>3, <2>1, <3>1 DEF IdealOK
  <2>2. CASE Own[r][a] = None
    <3>1. \A q \in Recalls : (Fired(q, a)' <=> Fired(q, a)) /\ (Fired(q, a) => ep'[q] = ep[q])
      BY <1>0, <1>1, <1>2, <2>2 DEF Fired
    <3>2. CASE \A q \in Recalls : ~Fired(q, a)
      BY <1>0, <1>3, <2>2, <3>1, <3>2 DEF IdealOK
    <3>3. CASE \E q \in Recalls : Fired(q, a)
      <4>1. PICK q \in Recalls : Fired(q, a) /\ \A p \in Recalls : Fired(p, a) => ep[p] <= ep[q]
        BY <3>3 DEF PlayInv, LatestOK
      <4>2. Ideal[a] = Own[q][a]
        BY <1>0, <4>1 DEF IdealOK
      <4>3. Ideal'[a] = Own[q][a]
        BY <1>0, <3>1, <4>1 DEF IdealOK
      <4>. QED BY <1>3, <2>2, <4>2, <4>3
    <3>. QED BY <3>2, <3>3
  <2>. QED BY <2>1, <2>2
<1>5. Ideal' = [a \in Addr |-> IF Ends[r][a] # None THEN Ends[r][a] ELSE Ideal[a]]
  <2>1. Ideal' = [a \in Addr |-> Ideal'[a]]
    BY DEF Ideal, IdealBefore
  <2>. QED BY <1>4, <2>1
<1>6. (~Quiet)' = TRUE
  BY <1>0, <1>1 DEF Quiet
<1>. QED BY <1>1, <1>5, <1>6 DEF Playback!Fire

\* Every step of a plain show is a step of the playback.
LEMMA PlaybackNext ==
  ASSUME PlainShow, PlayInv, [Next]_vars, PlayInv'
  PROVE  [Playback!Next]_(Playback!vars)
<1>1. CASE \E r \in Recalls : Claim(r)
  BY <1>1, ClaimFires DEF Playback!Next
<1>2. CASE ~\E r \in Recalls : Claim(r)
  <2>1. /\ UNCHANGED <<ep, epoch>>
        /\ UNCHANGED pc \/ UNCHANGED desk
        /\ Quiet => UNCHANGED <<pc, desk>>
    BY <1>2, PlayMoves
  <2>2. UNCHANGED Ideal
    BY <2>1 DEF Ideal, IdealBefore, Latest
  <2>3. CASE Quiet
    <3>1. Quiet'
      BY <2>1, <2>3 DEF Quiet
    <3>. QED BY <2>1, <2>2, <2>3, <3>1 DEF Playback!vars
  <2>4. CASE ~Quiet /\ ~Quiet'
    BY <2>2, <2>4, PlayedNext DEF TypeOK, Playback!Next, Playback!Play
  <2>5. CASE ~Quiet /\ Quiet'
    <3>1. ~UNCHANGED pc
      BY <2>5 DEF Quiet
    <3>2. UNCHANGED desk /\ desk' = Ideal'
      BY <2>1, <2>5, <3>1, PlayedNext DEF CueOrder
    <3>. QED BY <2>2, <2>5, <3>2 DEF Playback!Next, Playback!Rest
  <2>. QED BY <2>3, <2>4, <2>5
<1>. QED BY <1>1, <1>2

\* "The desk ends up as if the cues had played in order, just faster": whenever no
\* call runs, however many were fired on top of one another.
THEOREM CueOrderCorrect == ASSUME PlainShow PROVE Spec => []CueOrder
<1>1. PlayInv => CueOrder
  BY QuietDesk
<1>. QED BY <1>1, PlayInvAlways, PTL

\* The engine implements CuePlayback wherever its calls come to an end, which is for
\* the runtime and the desk to see to: a claim fires a recall, and the step that leaves
\* no call running finds the desk at rest where the recalls, in order, leave it.
THEOREM PlaysInOrderCorrect ==
  ASSUME PlainShow
  PROVE  Spec /\ []<>Quiet => PlaysInOrder
<1>1. Init => Playback!Init
  <2>. SUFFICES ASSUME Init PROVE Playback!Init
    OBVIOUS
  <2>1. PlayInv /\ Quiet
    BY PlayInit DEF Init, Quiet
  <2>2. CueOrder
    BY <2>1, QuietDesk
  <2>. QED BY <2>1, <2>2, PlayTypes DEF Playback!Init, CueOrder
<1>2. PlayInv /\ PlayInv' /\ [Next]_vars => [Playback!Next]_(Playback!vars)
  BY PlaybackNext
<1>. QED BY <1>1, <1>2, PlayInvAlways, PTL DEF Spec, PlaysInOrder, Playback!Spec

-----------------------------------------------------------------------------
(* The record of the palettes on the desk.                                  *)

\* A cancelled fade is gone before its successor enters, the operator keeps his
\* hands off, every datagram lands and no palette is reverted.
SlotShow == /\ TasksStopFirst /\ MaxMoves = 0 /\ MaxDrops = 0
            /\ \A r \in Recalls : Kind[r] # "revert"

\* The labels at which a call still sends from under the gate, and those of a call
\* past the gate that has not ended.
Acting == {"entered", "fire", "forget", "settle", "rowdone", "resolve", "snaps", "owns",
           "take", "undoing"}
InPlay == Acting \cup {"join", "commit", "wipe", "stamp", "unplan", "keep", "mark", "end",
                       "leave"}

\* Who is past the gate has no older call beside it that still sends ...
OrderOK ==
  \A r, q \in Recalls :
    pc[r] \in InPlay /\ ep[q] < ep[r] => pc[q] \notin Acting /\ TasksEnded(q)
\* ... and as long as it holds the gate no newer call that is past it.
FrontOK ==
  \A r, q \in Recalls :
    pc[r] \in Bracket(r) \ {"superseded"} /\ ep[q] > ep[r] => pc[q] \in {"claimed", "queued"}

\* A report that is not yet of a known memory load is of one just fired.
ReportOK == report # Nothing /\ ~loading => \E r \in Recalls : pc[r] = "forget"

\* What a recall sends that is not its own is of a cue; of its own it skips slots only.
SetBy(a, v) == \E q \in Recalls : HasSnapshot(q) /\ ep[q] # 0 /\ Own[q][a] = v
SourceOK ==
  /\ \A a \in Addr : plan.vals[a] # None => SetBy(a, plan.vals[a])
  /\ \A r \in Recalls, a \in Addr :
       /\ pc[r] = "snaps" /\ todo[r][a] # None => own[r][a] = None /\ SetBy(a, todo[r][a])
       /\ pc[r] = "owns" /\ todo[r][a] # None => todo[r][a] = own[r][a]
       /\ HasSnapshot(r) => own[r][a] \in {None, Own[r][a]}

\* While an undo or a superseded recall may still send, nothing is recorded.
Loose(r) ==
  \/ pc[r] = "undoing"
  \/ IsCancelled(r) /\ (\/ cur[r] # None
                        \/ \E g \in Groups : task[r][g].st \in {"run", "air", "sent"})
LooseOK == \A r \in Recalls : Loose(r) => lastSent = Nothing

\* A slot that the newest recall skips is as it should be, up to a superseded cue it
\* plays over it.
Holds(a, v) == desk[a] = v \/ PlayedOver(a, v)
Overplayed(r, a) ==
  \E q \in Recalls : /\ HasSnapshot(q) /\ IsCancelled(q) /\ ep[q] < ep[r]
                     /\ Own[q][a] \notin {None, Own[r][a]}
SkippedOK ==
  \A r \in Recalls, a \in Palette :
    /\ ~IsCancelled(r) /\ pc[r] \in {"snaps", "owns", "join"}
    /\ Own[r][a] # None /\ own[r][a] = None
    => Holds(a, Own[r][a]) \/ Overplayed(r, a)

\* What the newest recall has sent of its own is on the desk: in its loop ...
OwnsOK ==
  \A r \in Recalls : ~IsCancelled(r) /\ pc[r] = "owns" =>
    /\ cur[r] # None /\ cur[r].st = "sent" => desk[cur[r].at] = todo[r][cur[r].at]
    /\ \A a \in Addr : own[r][a] # None /\ todo[r][a] = None => desk[a] = own[r][a]
\* ... and in its tasks.
JoinOK ==
  \A r \in Recalls : ~IsCancelled(r) /\ pc[r] = "join" =>
    /\ \A g \in Groups :
         /\ ShapeFits(r, g, task[r][g])
         /\ ~TaskEnded(r, g) => \A a \in Targets(r, g) : registry[a] = gen[r]
    /\ \A a \in Addr :
         own[r][a] # None /\ Past(a, task[r][Group[a]]) => desk[a] = own[r][a]

\* A recall that is about to record its palettes has landed them.
LandedSlots ==
  \A r \in Recalls : pc[r] = "stamp" \/ (pc[r] = "commit" /\ ~IsCancelled(r)) =>
    /\ HasSnapshot(r) /\ verdict[r] = "complete"
    /\ \A a \in Palette : Own[r][a] # None => Holds(a, Own[r][a])

\* What is recorded is on the desk unless a memory was just fired or the newest recall
\* is sending.
Renewing(r) == \/ pc[r] = "forget"
               \/ ~IsCancelled(r) /\ pc[r] \in {"snaps", "owns", "join", "commit", "stamp"}
RecordOK ==
  \A a \in Palette : lastSent[a] # None =>
    Holds(a, lastSent[a]) \/ \E r \in Recalls : Renewing(r)

SlotInv == /\ IInv /\ VerdictOK /\ TakeFirst /\ OrderOK /\ FrontOK /\ ReportOK /\ SourceOK
           /\ LooseOK /\ SkippedOK /\ OwnsOK /\ JoinOK /\ LandedSlots /\ RecordOK

\* Types of what the lemmas below are about.
LEMMA SlotTypes ==
  ASSUME SlotInv
  PROVE  /\ TypeOK /\ PathOK /\ ClaimOK /\ VerdictOK
         /\ pc \in [Recalls -> Labels] /\ ep \in [Recalls -> Nat] /\ epoch \in Nat
         /\ verdict \in [Recalls -> {"open", "complete", "cancelled"}]
         /\ queue \in Seq(Recalls) /\ gate \in Recalls \cup {NoOne}
         /\ plan \in [ep : Nat, vals : Settings] /\ desk \in [Addr -> Value]
         /\ lastSent \in Settings /\ report \in Settings /\ cancelled \subseteq Recalls
         /\ todo \in [Recalls -> Settings] /\ own \in [Recalls -> Settings]
         /\ cur \in [Recalls -> Cursor] /\ registry \in [Addr -> Nat]
         /\ gen \in [Recalls -> Nat] /\ task \in [Recalls -> [Groups -> TaskState]]
  BY DEF SlotInv, IInv, TypeOK

\* Nobody else sends or is about to.
Alone(r) == \A q \in Recalls \ {r} : pc[q] \notin Acting /\ TasksEnded(q)

\* Of what the epochs say: the newest call past the gate is alone, and everyone else
\* is older and superseded or has not begun.
LEMMA NewestAlone ==
  ASSUME SlotShow, SlotInv, NEW r \in Recalls, pc[r] \in InPlay, ~IsCancelled(r)
  PROVE  /\ Alone(r) /\ ep[r] = epoch /\ ep[r] # 0
         /\ \A q \in Recalls \ {r} : ep[q] < ep[r] /\ (ep[q] # 0 => IsCancelled(q))
<1>. USE SlotTypes
<1>1. ep[r] # 0
  BY DEF ClaimOK, InPlay, Acting, SlotShow
<1>2. ep[r] = epoch
  BY <1>1 DEF SlotInv, IInv, LatestWins
<1>3. ASSUME NEW q \in Recalls \ {r} PROVE ep[q] < ep[r]
  <2>1. CASE ep[q] = 0
    BY <1>1, <2>1
  <2>2. CASE ep[q] # 0
    <3>1. ep[q] <= epoch /\ ep[q] # ep[r]
      BY <1>1, <2>2 DEF SlotInv, IInv, LatestWins
    <3>. QED BY <1>2, <3>1
  <2>. QED BY <2>1, <2>2
<1>4. ASSUME NEW q \in Recalls \ {r}, ep[q] # 0 PROVE IsCancelled(q)
  BY <1>2, <1>3, <1>4 DEF SlotInv, IInv, LatestWins
<1>5. Alone(r)
  BY <1>3 DEF Alone, SlotInv, OrderOK
<1>. QED BY <1>1, <1>2, <1>3, <1>4, <1>5

\* So is whoever holds the gate, and a recall about to record what it sent.
LEMMA FrontAlone ==
  ASSUME SlotShow, SlotInv, StampsInTime, NEW r \in Recalls, pc[r] \in InPlay,
         pc[r] = "stamp" \/ pc[r] \in Bracket(r)
  PROVE  Alone(r)
<1>. USE SlotTypes
<1>. SUFFICES ASSUME NEW q \in Recalls \ {r} PROVE pc[q] \notin Acting /\ TasksEnded(q)
  BY DEF Alone
<1>1. ep[r] # 0 /\ pc[r] # "superseded"
  BY DEF ClaimOK, InPlay, Acting, SlotShow
<1>2. ep[q] # ep[r]
  BY <1>1 DEF SlotInv, IInv, LatestWins
<1>3. CASE ep[q] < ep[r]
  BY <1>3 DEF SlotInv, OrderOK
<1>4. CASE ep[q] > ep[r]
  <2>1. pc[q] \in {"claimed", "queued"}
    <3>1. CASE pc[r] \in Bracket(r)
      BY <1>1, <1>4, <3>1 DEF SlotInv, FrontOK
    <3>2. CASE pc[r] = "stamp" /\ pc[r] \notin Bracket(r)
      <4>1. Kind[r] = "timed"
        BY <3>2 DEF PathOK, HasSnapshot, Bracket
      <4>. QED BY <1>4, <3>2, <4>1 DEF StampsInTime
    <3>. QED BY <3>1, <3>2
  <2>2. TasksEnded(q)
    BY <2>1 DEF SlotInv, IInv, TasksOK, TaskFits, TasksEnded, TaskEnded
  <2>. QED BY <2>1, <2>2 DEF Acting
<1>. QED BY <1>2, <1>3, <1>4

\* Where calls come from: only the gate lets a call into play.
LEMMA PlayStarts ==
  ASSUME SlotShow, SlotInv, [Next]_vars, NEW r \in Recalls
  PROVE  /\ pc'[r] \in Acting /\ pc[r] \notin Acting => Enter(r) /\ pc'[r] \in {"entered", "take"}
         /\ pc'[r] \in InPlay /\ pc[r] \notin InPlay => Enter(r) /\ pc'[r] \in {"entered", "take"}
<1>. USE SlotTypes DEF Goto
<1>0. pc \in [Recalls -> Labels]
  OBVIOUS
<1>1. ASSUME NEW q \in Recalls, Claim(q) \/ Enqueue(q) \/ LeaveSuperseded(q) \/ StartRevert(q)
      PROVE  \E l \in Labels : pc' = [pc EXCEPT ![q] = l] /\ l \notin InPlay
  BY <1>1 DEF Claim, Enqueue, LeaveSuperseded, StartRevert, Labels, InPlay, Acting
<1>2. ASSUME NEW q \in Recalls,
             \/ MarkInFlight(q) \/ FireMemory(q) \/ ForgetPalettes(q) \/ Settle(q)
             \/ Resolve(q) \/ StartOwn(q) \/ TakeUndo(q)
      PROVE  \E l \in Labels : pc' = [pc EXCEPT ![q] = l] /\ pc[q] \in Acting
  BY <1>2 DEF MarkInFlight, FireMemory, ForgetPalettes, Settle, Resolve, StartOwn, TakeUndo,
              Labels, Acting
<1>3. ASSUME NEW q \in Recalls,
             \/ LeaveRowOnly(q) \/ Spawn(q) \/ Judge(q) \/ CommitCheck(q) \/ CommitStore(q)
             \/ ClearPlan(q) \/ StoreUndo(q) \/ MarkLastRecalled(q) \/ Finish(q)
      PROVE  \E l \in Labels : /\ pc' = [pc EXCEPT ![q] = l] /\ l \notin Acting
                               /\ pc[q] \in InPlay
  BY <1>3 DEF LeaveRowOnly, Spawn, Judge, Sent, CommitCheck, CommitStore, ClearPlan, StoreUndo,
              MarkLastRecalled, Finish, Labels, InPlay, Acting
<1>4. ASSUME NEW q \in Recalls, Leave(q)
      PROVE  pc' = [pc EXCEPT ![q] = "done"]
  BY <1>4 DEF Leave
<1>5. ASSUME NEW q \in Recalls, Enter(q)
      PROVE  \E l \in {"superseded", "entered", "take"} : pc' = [pc EXCEPT ![q] = l]
  BY <1>5 DEF Enter, SlotShow
<1>6. "done" \notin InPlay /\ "superseded" \notin InPlay /\ Acting \subseteq InPlay
  BY DEF InPlay, Acting
<1>7. CASE \E q \in Recalls : Claim(q) \/ Enqueue(q) \/ LeaveSuperseded(q) \/ StartRevert(q)
  BY <1>0, <1>1, <1>6, <1>7
<1>8. CASE \E q \in Recalls :
             \/ MarkInFlight(q) \/ FireMemory(q) \/ ForgetPalettes(q) \/ Settle(q)
             \/ Resolve(q) \/ StartOwn(q) \/ TakeUndo(q)
  BY <1>0, <1>2, <1>6, <1>8
<1>9. CASE \E q \in Recalls :
             \/ LeaveRowOnly(q) \/ Spawn(q) \/ Judge(q) \/ CommitCheck(q) \/ CommitStore(q)
             \/ ClearPlan(q) \/ StoreUndo(q) \/ MarkLastRecalled(q) \/ Finish(q)
  BY <1>0, <1>3, <1>6, <1>9
<1>10. CASE \E q \in Recalls : Leave(q)
  BY <1>0, <1>4, <1>6, <1>10
<1>11. CASE \E q \in Recalls : Enter(q)
  BY <1>0, <1>5, <1>6, <1>11
<1>12. CASE UNCHANGED control
  BY <1>12 DEF control
<1>. QED BY <1>7, <1>8, <1>9, <1>10, <1>11, <1>12, NextControl

\* A call keeps its epoch, and a cancelled call stays so.
LEMMA EpochsKept ==
  ASSUME SlotInv, [Next]_vars
  PROVE  /\ cancelled \subseteq cancelled'
         /\ \A q \in Recalls : ep[q] # 0 => ep'[q] = ep[q]
         /\ \A q \in Recalls : ep'[q] # ep[q] => Claim(q) /\ ep'[q] = epoch + 1
<1>. USE SlotTypes
<1>1. ASSUME NEW r \in Recalls, Claim(r)
      PROVE  /\ cancelled \subseteq cancelled' /\ pc[r] = "idle"
             /\ ep' = [ep EXCEPT ![r] = epoch + 1]
  BY <1>1 DEF Claim, Superseding
<1>2. ASSUME NEW r \in Recalls,
             \/ Enter(r) \/ LeaveSuperseded(r) \/ Resolve(r)
             \/ Judge(r) \/ LeaveRowOnly(r) \/ Leave(r)
             \/ ClearPlan(r) \/ TakeUndo(r)
             \/ \E l \in Labels : Advance(r, l)
      PROVE  UNCHANGED <<cancelled, ep>>
  BY <1>2 DEF Enter, LeaveSuperseded, Resolve, Judge, LeaveRowOnly, Leave, ClearPlan, TakeUndo,
              Advance, shared
<1>. QED BY <1>1, <1>2, NextPlan DEF ClaimOK

\* Who has a verdict keeps it, and what it resolved.
LEMMA EndsKept ==
  ASSUME SlotInv, [Next]_vars, NEW r \in Recalls
  PROVE  /\ verdict[r] # "open" => verdict'[r] = verdict[r]
         /\ own'[r] # own[r] => Resolve(r) \/ TakeUndo(r)
<1>. USE SlotTypes
<1>0. verdict \in [Recalls -> {"open", "complete", "cancelled"}] /\ own \in [Recalls -> Settings]
  OBVIOUS
<1>1. ASSUME NEW q \in Recalls, LeaveSuperseded(q) \/ Judge(q) \/ LeaveRowOnly(q)
      PROVE  /\ pc[q] \notin Judged /\ UNCHANGED own
             /\ \E v : verdict' = [verdict EXCEPT ![q] = v]
  BY <1>1 DEF LeaveSuperseded, Judge, LeaveRowOnly, Sent, Judged
<1>2. ASSUME NEW q \in Recalls, Leave(q)
      PROVE  /\ UNCHANGED own
             /\ \/ UNCHANGED verdict
                \/ pc[q] \notin Judged /\ \E v : verdict' = [verdict EXCEPT ![q] = v]
  BY <1>2 DEF Leave, Judged
<1>3. ASSUME NEW q \in Recalls, Resolve(q) \/ TakeUndo(q)
      PROVE  /\ UNCHANGED verdict /\ \E v : own' = [own EXCEPT ![q] = v]
  BY <1>3 DEF Resolve, TakeUndo
<1>4. ASSUME NEW q \in Recalls,
             \/ Claim(q) \/ Enqueue(q) \/ Enter(q)
             \/ MarkInFlight(q) \/ FireMemory(q) \/ ForgetPalettes(q) \/ Settle(q)
             \/ StartOwn(q) \/ Spawn(q) \/ Transmit(q) \/ Reflect(q)
             \/ CommitCheck(q) \/ CommitStore(q) \/ ClearPlan(q) \/ StoreUndo(q)
             \/ MarkLastRecalled(q) \/ Finish(q) \/ StartRevert(q) \/ Tasks(q)
      PROVE  UNCHANGED <<own, verdict>>
  <2>1. CASE \/ Claim(q) \/ Enqueue(q) \/ Enter(q)
             \/ MarkInFlight(q) \/ FireMemory(q) \/ ForgetPalettes(q) \/ Settle(q)
             \/ StartOwn(q) \/ Spawn(q) \/ Transmit(q) \/ Reflect(q)
    BY <2>1 DEF Claim, Enqueue, Enter, MarkInFlight, FireMemory, ForgetPalettes, Settle,
                StartOwn, Spawn, Transmit, Reflect
  <2>2. CASE \/ CommitCheck(q) \/ CommitStore(q) \/ ClearPlan(q) \/ StoreUndo(q)
             \/ MarkLastRecalled(q) \/ Finish(q) \/ StartRevert(q)
    BY <2>2 DEF CommitCheck, CommitStore, ClearPlan, StoreUndo, MarkLastRecalled, Finish,
                StartRevert
  <2>3. CASE Tasks(q)
    BY <2>3 DEF Tasks, PreWaitOver, TaskPick, TaskTransmit, TaskReflect, NextTick, CloseTask,
                TaskStep
  <2>. QED BY <1>4, <2>1, <2>2, <2>3
<1>5. ASSUME NEW q \in Recalls, NEW a \in Addr, Pick(q, a) PROVE UNCHANGED <<own, verdict>>
  BY <1>5 DEF Pick
<1>6. ASSUME NEW a \in Addr, Move(a) \/ Dispatch(a) PROVE UNCHANGED <<own, verdict>>
  BY <1>6 DEF Move, Dispatch, locals
<1>7. ASSUME LoadOver \/ UNCHANGED vars PROVE UNCHANGED <<own, verdict>>
  BY <1>7 DEF LoadOver, locals, vars
<1>8. verdict[r] # "open" => pc[r] \in Judged
  BY DEF VerdictOK, Judged
<1>9. CASE UNCHANGED <<own, verdict>>
  BY <1>9
<1>10. CASE \E q \in Recalls : LeaveSuperseded(q) \/ Judge(q) \/ LeaveRowOnly(q) \/ Leave(q)
  BY <1>0, <1>1, <1>2, <1>8, <1>10
<1>11. CASE \E q \in Recalls : Resolve(q) \/ TakeUndo(q)
  BY <1>0, <1>3, <1>11
<1>. QED BY <1>4, <1>5, <1>6, <1>7, <1>9, <1>10, <1>11
         DEF Next, Process, Gated, Tail_, Undoing, Terminated

\* A slot once played over is so for good, and a slot nobody sends to holds.
LEMMA HoldsKept ==
  ASSUME SlotInv, [Next]_vars, NEW a \in Addr, NEW v
  PROVE  /\ PlayedOver(a, v) => PlayedOver(a, v)'
         /\ desk'[a] = desk[a] /\ Holds(a, v) => Holds(a, v)'
<1>. USE SlotTypes
<1>1. ASSUME PlayedOver(a, v) PROVE PlayedOver(a, v)'
  <2>1. PICK r \in Recalls, q \in Recalls :
          /\ HasSnapshot(r) /\ verdict[r] = "complete" /\ Own[r][a] = v /\ own[r][a] = None
          /\ HasSnapshot(q) /\ IsCancelled(q) /\ ep[q] < ep[r] /\ Own[q][a] \notin {None, v}
    BY <1>1 DEF PlayedOver
  <2>2. pc[r] \in Judged /\ ep[r] # 0 /\ ep[q] # 0
    BY <2>1 DEF VerdictOK, Judged, ClaimOK, IsCancelled
  <2>3. ~Resolve(r) /\ ~TakeUndo(r)
    BY <2>2 DEF Resolve, TakeUndo, Judged
  <2>4. own'[r] = own[r] /\ verdict'[r] = "complete" /\ ep'[r] = ep[r] /\ ep'[q] = ep[q]
        /\ IsCancelled(q)'
    BY <2>1, <2>2, <2>3, EndsKept, EpochsKept DEF IsCancelled
  <2>. QED BY <2>1, <2>4 DEF PlayedOver
<1>. QED BY <1>1 DEF Holds

\* What the steps of others change while they neither hold the gate nor have tasks.
LEMMA OthersStep ==
  ASSUME SlotShow, SlotInv, [Next]_vars, NEW r \in Recalls, Alone(r), pc[r] # "forget",
         ~Claim(r), ~Process(r)
  PROVE  /\ UNCHANGED <<desk, registry>>
         /\ pc'[r] = pc[r] /\ own'[r] = own[r] /\ todo'[r] = todo[r] /\ cur'[r] = cur[r]
         /\ task'[r] = task[r] /\ gen'[r] = gen[r] /\ verdict'[r] = verdict[r]
<1>. USE SlotTypes DEF Goto
<1>. DEFINE Kept == /\ UNCHANGED <<desk, registry>>
                    /\ pc'[r] = pc[r] /\ own'[r] = own[r] /\ todo'[r] = todo[r]
                    /\ cur'[r] = cur[r] /\ task'[r] = task[r] /\ gen'[r] = gen[r]
                    /\ verdict'[r] = verdict[r]
<1>0. /\ pc \in [Recalls -> Labels] /\ todo \in [Recalls -> Settings]
      /\ verdict \in [Recalls -> {"open", "complete", "cancelled"}]
  OBVIOUS
<1>1. ASSUME NEW q \in Recalls \ {r}, Claim(q) \/ Enqueue(q) \/ Enter(q) \/ LeaveSuperseded(q)
      PROVE  Kept
  BY <1>0, <1>1 DEF Claim, Enqueue, Enter, LeaveSuperseded, world
<1>2. ASSUME NEW q \in Recalls \ {r},
             \/ Judge(q) \/ CommitCheck(q) \/ CommitStore(q)
             \/ ClearPlan(q) \/ StoreUndo(q) \/ MarkLastRecalled(q) \/ Finish(q) \/ Leave(q)
      PROVE  Kept
  BY <1>0, <1>2 DEF Judge, CommitCheck, CommitStore, ClearPlan, StoreUndo, MarkLastRecalled,
              Finish, Leave, world, shared
<1>3. ASSUME NEW q \in Recalls \ {r},
             \/ MarkInFlight(q) \/ FireMemory(q) \/ ForgetPalettes(q) \/ Settle(q)
             \/ LeaveRowOnly(q) \/ Resolve(q) \/ StartOwn(q) \/ Spawn(q) \/ TakeUndo(q)
      PROVE  FALSE
  BY <1>3 DEF MarkInFlight, FireMemory, ForgetPalettes, Settle, LeaveRowOnly, Resolve, StartOwn,
              Spawn, TakeUndo, Alone, Acting
<1>4. ASSUME NEW q \in Recalls \ {r},
             \/ Transmit(q) \/ Reflect(q) \/ StartRevert(q) \/ \E a \in Addr : Pick(q, a)
      PROVE  FALSE
  <2>1. pc[q] \in Sending \/ pc[q] = "revert"
    BY <1>4 DEF Transmit, Reflect, StartRevert, Pick, SlotInv, IInv, LoopOK
  <2>. QED BY <2>1 DEF Sending, Alone, Acting, PathOK, SlotShow
<1>5. ASSUME NEW q \in Recalls \ {r}, Tasks(q) PROVE FALSE
  <2>1. \E g \in Groups : ~TaskEnded(q, g)
    BY <1>5, SureTask DEF SlotShow
  <2>. QED BY <2>1 DEF Alone, TasksEnded
<1>6. ASSUME NEW a \in Addr, Move(a) PROVE FALSE
  BY <1>6 DEF Move, SlotShow, TypeOK
<1>7. ASSUME NEW a \in Addr, Dispatch(a) PROVE Kept
  <2>1. report # Nothing
    BY <1>7 DEF Dispatch, Nothing
  <2>2. ~Overridden(a)
    <3>1. ASSUME ~loading PROVE FALSE
      <4>1. PICK x \in Recalls : pc[x] = "forget"
        BY <2>1, <3>1 DEF SlotInv, ReportOK
      <4>. QED BY <4>1 DEF Alone, Acting
    <3>. QED BY <3>1 DEF Overridden
  <2>. QED BY <1>7, <2>2 DEF Dispatch, locals
<1>8. ASSUME LoadOver \/ UNCHANGED vars PROVE Kept
  BY <1>8 DEF LoadOver, locals, vars, shared, world
<1>. HIDE DEF Kept
<1>9. ASSUME \E q \in Recalls : Claim(q) \/ Process(q) PROVE Kept
  <2>1. PICK q \in Recalls \ {r} : Claim(q) \/ Process(q)
    BY <1>9
  <2>. QED BY <1>1, <1>2, <1>3, <1>4, <1>5, <2>1 DEF Process, Gated, Tail_, Undoing
<1>10. Kept
  BY <1>6, <1>7, <1>8, <1>9 DEF Next, Terminated
<1>. QED BY <1>10 DEF Kept

\* Tasks start from the gate and end on their own.
LEMMA TasksStay ==
  ASSUME SlotShow, SlotInv, [Next]_vars, NEW q \in Recalls, pc[q] \notin Acting, TasksEnded(q)
  PROVE  TasksEnded(q)'
<1>. USE SlotTypes
<1>1. CASE task' = task
  BY <1>1 DEF TasksEnded, TaskEnded
<1>2. CASE task' # task
  <2>1. PICK r \in Recalls : Spawn(r) \/ Tasks(r)
    BY <1>2, NextTask DEF Tasks
  <2>2. r # q
    BY <2>1, SureTask DEF SlotShow, Spawn, Acting, TasksEnded
  <2>3. task'[q] = task[q]
    BY <2>1, <2>2, SureTask DEF SlotShow, Spawn
  <2>. QED BY <2>3 DEF TasksEnded, TaskEnded
<1>. QED BY <1>1, <1>2

\* The gate admits a call when no older one sends any more, and turns the older ones
\* away after it.
LEMMA OrderNext == ASSUME SlotShow, SlotInv, [Next]_vars PROVE OrderOK'
<1>. USE SlotTypes
<1>. SUFFICES ASSUME NEW r \in Recalls, NEW q \in Recalls, pc'[r] \in InPlay, ep'[q] < ep'[r]
              PROVE  pc'[q] \notin Acting /\ TasksEnded(q)'
  BY DEF OrderOK
<1>1. ep'[q] = ep[q] /\ ep'[r] = ep[r] /\ ep[r] # 0 /\ ep[q] < ep[r]
  <2>1. pc[r] \in InPlay \/ Enter(r)
    BY PlayStarts
  <2>2. ep[r] # 0
    BY <2>1 DEF ClaimOK, InPlay, Acting, Enter, SlotShow
  <2>3. ep'[r] = ep[r] /\ ep[r] <= epoch
    BY <2>2, EpochsKept DEF SlotInv, IInv, LatestWins
  <2>4. ep'[q] = ep[q]
    BY <2>3, EpochsKept
  <2>. QED BY <2>2, <2>3, <2>4
<1>2. pc[q] \notin Acting /\ TasksEnded(q)
  <2>1. CASE pc[r] \in InPlay
    BY <1>1, <2>1 DEF SlotInv, OrderOK
  <2>2. CASE pc[r] \notin InPlay
    <3>1. Enter(r)
      BY <2>2, PlayStarts
    <3>2. pc[q] \notin Acting
      <4>1. gate = NoOne
        BY <3>1 DEF Enter, GateOpen
      <4>2. pc[q] \notin Bracket(q)
        BY <4>1, NoOneAssumption DEF SlotInv, IInv, GateExclusion
      <4>. QED BY <4>2 DEF Bracket, Acting
    <3>3. CASE ep[q] # 0
      <4>1. q \in cancelled \ {r}
        BY <1>1, <3>3 DEF SlotInv, IInv, LatestWins, IsCancelled
      <4>. QED BY <3>1, <3>2, <4>1 DEF Enter, SlotShow
    <3>4. CASE ep[q] = 0
      <4>1. pc[q] = "idle"
        BY <3>4 DEF ClaimOK, SlotShow
      <4>. QED BY <3>2, <4>1 DEF SlotInv, IInv, TasksOK, TaskFits, TasksEnded, TaskEnded
    <3>. QED BY <3>2, <3>3, <3>4
  <2>. QED BY <2>1, <2>2
<1>3. pc'[q] \notin Acting
  <2>. SUFFICES ASSUME pc'[q] \in Acting PROVE FALSE
    OBVIOUS
  <2>1. Enter(q) /\ pc'[q] \in {"entered", "take"}
    BY <1>2, PlayStarts
  <2>2. IsCancelled(q)
    <3>1. ep[q] # 0
      BY <2>1 DEF Enter, ClaimOK, SlotShow
    <3>. QED BY <1>1, <3>1 DEF SlotInv, IInv, LatestWins
  <2>3. pc' = [pc EXCEPT ![q] = "superseded"]
    BY <2>1, <2>2 DEF Enter, Goto, SlotShow
  <2>. QED BY <2>1, <2>3
<1>. QED BY <1>2, <1>3, TasksStay

\* Who waits for the gate leaves the line, and who has it got it, by entering.
LEMMA GateTaken ==
  ASSUME SlotInv, [Next]_vars, NEW r \in Recalls
  PROVE  /\ pc[r] \in {"claimed", "queued"} => Enter(r) \/ pc'[r] \in {"claimed", "queued"}
         /\ gate' = r => gate = r \/ Enter(r)
<1>. USE SlotTypes, NoOneAssumption DEF Goto, ReleaseGate
<1>0. pc \in [Recalls -> Labels]
  OBVIOUS
<1>1. ASSUME NEW q \in Recalls,
             \/ Claim(q) \/ Enqueue(q)
      PROVE  gate' = gate /\ (pc'[r] = pc[r] \/ pc'[r] \in {"claimed", "queued"})
  BY <1>0, <1>1 DEF Claim, Enqueue
<1>2. ASSUME NEW q \in Recalls,
             \/ LeaveSuperseded(q)
             \/ MarkInFlight(q) \/ FireMemory(q) \/ ForgetPalettes(q) \/ Settle(q)
             \/ LeaveRowOnly(q) \/ Resolve(q) \/ StartOwn(q) \/ Spawn(q) \/ Judge(q)
      PROVE  /\ gate' \in {gate, NoOne} /\ pc[q] \notin {"claimed", "queued"}
             /\ \E l \in Labels : pc' = [pc EXCEPT ![q] = l]
  BY <1>2 DEF LeaveSuperseded, MarkInFlight, FireMemory, ForgetPalettes, Settle, LeaveRowOnly,
              Resolve, StartOwn, Spawn, Judge, Sent, Labels, shared
<1>3. ASSUME NEW q \in Recalls,
             \/ CommitCheck(q) \/ CommitStore(q) \/ ClearPlan(q) \/ StoreUndo(q)
             \/ MarkLastRecalled(q) \/ Finish(q) \/ Leave(q) \/ TakeUndo(q)
             \/ StartRevert(q)
      PROVE  /\ gate' \in {gate, NoOne} /\ pc[q] \notin {"claimed", "queued"}
             /\ \E l \in Labels : pc' = [pc EXCEPT ![q] = l]
  BY <1>3 DEF CommitCheck, CommitStore, ClearPlan, StoreUndo, MarkLastRecalled, Finish, Leave,
              TakeUndo, StartRevert, Labels, shared
<1>4. ASSUME NEW q \in Recalls, Enter(q)
      PROVE  gate' = q /\ \E l \in Labels : pc' = [pc EXCEPT ![q] = l]
  BY <1>4 DEF Enter, Labels
<1>5. CASE UNCHANGED control
  BY <1>5 DEF control
<1>. QED BY <1>0, <1>1, <1>2, <1>3, <1>4, <1>5, NextControl

\* The holder of the gate entered before any newer call could.
LEMMA FrontNext == ASSUME SlotShow, SlotInv, [Next]_vars PROVE FrontOK'
<1>. USE SlotTypes
<1>0. IInv' /\ TakeFirst'
  BY IInvNext, TakeNext DEF SlotInv
<1>. SUFFICES ASSUME NEW r \in Recalls, NEW q \in Recalls,
                     pc'[r] \in Bracket(r) \ {"superseded"}, ep'[q] > ep'[r]
              PROVE  pc'[q] \in {"claimed", "queued"}
  BY DEF FrontOK, Bracket
<1>1. pc'[r] \in InPlay /\ gate' = r
  <2>1. pc'[r] \notin {"revert", "reverting"}
    BY <1>0 DEF IInv, PathOK, SlotShow
  <2>. QED BY <1>0, <2>1 DEF Bracket, InPlay, Acting, IInv, GateExclusion
<1>2. CASE Enter(r)
  <2>1. pc'[r] \in {"entered", "take"}
    BY <1>1, <1>2, PlayStarts DEF Enter, InPlay, Acting
  <2>. QED BY <1>0, <2>1 DEF IInv, EnteredFirst, TakeFirst
<1>3. CASE ~Enter(r)
  <2>1. pc[r] \in InPlay /\ gate = r
    BY <1>1, <1>3, PlayStarts, GateTaken
  <2>2. pc[r] \in Bracket(r) \ {"superseded"}
    BY <2>1 DEF SlotInv, IInv, GateExclusion, InPlay, Acting
  <2>3. ep[r] # 0 /\ ep'[r] = ep[r]
    BY <2>1, EpochsKept DEF ClaimOK, InPlay, Acting, SlotShow
  <2>4. CASE ep'[q] = ep[q]
    <3>1. pc[q] \in {"claimed", "queued"}
      BY <2>2, <2>3, <2>4 DEF SlotInv, FrontOK
    <3>2. ~Enter(q)
      BY <2>1, NoOneAssumption DEF Enter, GateOpen
    <3>. QED BY <3>1, <3>2, GateTaken
  <2>5. CASE ep'[q] # ep[q]
    BY <2>5, EpochsKept DEF Claim, Goto
  <2>. QED BY <2>4, <2>5
<1>. QED BY <1>2, <1>3

\* The window of a load opens before the desk's reports are dispatched, and closes after.
LEMMA ReportNext == ASSUME SlotShow, SlotInv, [Next]_vars PROVE ReportOK'
<1>. USE SlotTypes DEF ReportOK, Goto
<1>0. ReportOK /\ pc \in [Recalls -> Labels]
  BY DEF SlotInv
<1>1. ASSUME NEW r \in Recalls, FireMemory(r) PROVE ReportOK'
  <2>1. pc' = [pc EXCEPT ![r] = "forget"]
    BY <1>1 DEF FireMemory, SlotShow, TypeOK
  <2>. QED BY <1>0, <2>1
<1>2. ASSUME NEW r \in Recalls, ForgetPalettes(r) PROVE ReportOK'
  BY <1>2 DEF ForgetPalettes
<1>3. ASSUME NEW r \in Recalls,
             \/ Claim(r) \/ Enqueue(r) \/ Enter(r) \/ LeaveSuperseded(r)
             \/ MarkInFlight(r) \/ Settle(r) \/ LeaveRowOnly(r) \/ Resolve(r) \/ StartOwn(r)
             \/ Spawn(r)
      PROVE  /\ UNCHANGED <<report, loading>> /\ pc[r] # "forget"
             /\ \E l \in Labels : pc' = [pc EXCEPT ![r] = l]
  BY <1>3 DEF Claim, Enqueue, Enter, LeaveSuperseded, MarkInFlight, Settle, LeaveRowOnly, Resolve,
              StartOwn, Spawn, world, Labels
<1>4. ASSUME NEW r \in Recalls,
             \/ Judge(r) \/ CommitCheck(r) \/ CommitStore(r) \/ ClearPlan(r) \/ StoreUndo(r)
             \/ MarkLastRecalled(r) \/ Finish(r) \/ Leave(r) \/ TakeUndo(r) \/ StartRevert(r)
      PROVE  /\ UNCHANGED <<report, loading>> /\ pc[r] # "forget"
             /\ \E l \in Labels : pc' = [pc EXCEPT ![r] = l]
  BY <1>4 DEF Judge, Sent, CommitCheck, CommitStore, ClearPlan, StoreUndo, MarkLastRecalled, Finish,
              Leave, TakeUndo, StartRevert, world, Labels
<1>5. ASSUME NEW r \in Recalls, NEW l \in Labels, pc[r] # "forget",
             UNCHANGED <<report, loading>>, pc' = [pc EXCEPT ![r] = l]
      PROVE  ReportOK'
  BY <1>0, <1>5
<1>6. ASSUME NEW r \in Recalls,
             Transmit(r) \/ Reflect(r) \/ Tasks(r) \/ \E a \in Addr : Pick(r, a)
      PROVE  UNCHANGED <<report, loading, pc>>
  <2>1. CASE Transmit(r) \/ Tasks(r)
    BY <2>1, SureTransmit, SureTask DEF SlotShow
  <2>2. CASE Reflect(r) \/ \E a \in Addr : Pick(r, a)
    BY <2>2 DEF Reflect, Pick, world
  <2>. QED BY <1>6, <2>1, <2>2
<1>7. ASSUME NEW a \in Addr, Move(a) \/ Dispatch(a) PROVE ReportOK'
  <2>1. ~Move(a)
    BY DEF Move, SlotShow, TypeOK
  <2>2. report # Nothing /\ UNCHANGED <<loading, pc>>
    BY <1>7, <2>1 DEF Dispatch, Nothing, locals
  <2>. QED BY <1>0, <2>2
<1>8. ASSUME LoadOver \/ UNCHANGED vars PROVE ReportOK'
  BY <1>0, <1>8 DEF LoadOver, vars, locals, world
<1>. QED BY <1>0, <1>1, <1>2, <1>3, <1>4, <1>5, <1>6, <1>7, <1>8
         DEF Next, Process, Gated, Tail_, Undoing, Terminated

\* What is left to a send loop was there when it began.
Fewer(r) == \A a \in Addr : todo'[r][a] \in {todo[r][a], None}
LEMMA TodoNext ==
  ASSUME SlotShow, SlotInv, [Next]_vars, NEW r \in Recalls
  PROVE  /\ pc'[r] = "snaps" => \/ Resolve(r)
                                \/ /\ pc[r] = "snaps" /\ own'[r] = own[r]
                                   /\ Fewer(r)
         /\ pc'[r] = "owns" => \/ StartOwn(r)
                               \/ /\ pc[r] = "owns" /\ own'[r] = own[r]
                                  /\ Fewer(r)
<1>. USE SlotTypes DEF Goto, Fewer
<1>. DEFINE Goal == /\ pc'[r] = "snaps" => \/ Resolve(r)
                                           \/ /\ pc[r] = "snaps" /\ own'[r] = own[r]
                                              /\ Fewer(r)
                    /\ pc'[r] = "owns" => \/ StartOwn(r)
                                          \/ /\ pc[r] = "owns" /\ own'[r] = own[r]
                                             /\ Fewer(r)
            Kept == pc'[r] = pc[r] /\ own'[r] = own[r] /\ Fewer(r)
<1>0. /\ pc \in [Recalls -> Labels] /\ todo \in [Recalls -> Settings]
      /\ own \in [Recalls -> Settings]
  OBVIOUS
<1>1. ASSUME NEW q \in Recalls, NEW l \in Labels, l \notin {"snaps", "owns"},
             pc' = [pc EXCEPT ![q] = l], UNCHANGED <<own, todo>>
      PROVE  Goal
  BY <1>0, <1>1
<1>2. ASSUME NEW q \in Recalls, NEW l \in Labels, l \notin {"snaps", "owns"}, NEW v, NEW w,
             pc' = [pc EXCEPT ![q] = l], todo' = [todo EXCEPT ![q] = v],
             own' = [own EXCEPT ![q] = w]
      PROVE  Goal
  BY <1>0, <1>2
<1>3. ASSUME NEW q \in Recalls,
             \/ Claim(q) \/ Enqueue(q) \/ Enter(q) \/ LeaveSuperseded(q)
             \/ MarkInFlight(q) \/ FireMemory(q) \/ ForgetPalettes(q) \/ Settle(q)
             \/ LeaveRowOnly(q) \/ Spawn(q)
      PROVE  /\ UNCHANGED <<own, todo>>
             /\ \E l \in Labels : l \notin {"snaps", "owns"} /\ pc' = [pc EXCEPT ![q] = l]
  BY <1>3 DEF Claim, Enqueue, Enter, LeaveSuperseded, MarkInFlight, FireMemory, ForgetPalettes,
              Settle, LeaveRowOnly, Spawn, Labels
<1>4. ASSUME NEW q \in Recalls,
             \/ CommitCheck(q) \/ CommitStore(q) \/ ClearPlan(q) \/ StoreUndo(q)
             \/ MarkLastRecalled(q) \/ Finish(q)
      PROVE  /\ UNCHANGED <<own, todo>>
             /\ \E l \in Labels : l \notin {"snaps", "owns"} /\ pc' = [pc EXCEPT ![q] = l]
  BY <1>4 DEF CommitCheck, CommitStore, ClearPlan, StoreUndo, MarkLastRecalled, Finish, Labels
<1>5. ASSUME NEW q \in Recalls, Judge(q) \/ Leave(q) \/ TakeUndo(q) \/ StartRevert(q)
      PROVE  \E l \in Labels : /\ l \notin {"snaps", "owns"} /\ pc' = [pc EXCEPT ![q] = l]
                               /\ \E v : todo' = [todo EXCEPT ![q] = v]
                               /\ \E w : own' = [own EXCEPT ![q] = w]
  <2>0. own = [own EXCEPT ![q] = own[q]] /\ todo = [todo EXCEPT ![q] = todo[q]]
    BY <1>0
  <2>. QED BY <1>5, <2>0 DEF Judge, Leave, TakeUndo, StartRevert, Labels
<1>6. ASSUME NEW q \in Recalls, Resolve(q) \/ StartOwn(q) PROVE Goal
  <2>1. CASE q = r
    BY <1>0, <1>6, <2>1 DEF Resolve, StartOwn
  <2>2. CASE q # r
    <3>1. /\ \E l \in Labels : pc' = [pc EXCEPT ![q] = l]
          /\ \E v : todo' = [todo EXCEPT ![q] = v]
          /\ own'[r] = own[r]
      BY <1>0, <1>6, <2>2 DEF Resolve, StartOwn, Labels
    <3>. QED BY <1>0, <2>2, <3>1
  <2>. QED BY <2>1, <2>2
<1>7. ASSUME NEW q \in Recalls,
             Transmit(q) \/ Reflect(q) \/ Tasks(q) \/ \E b \in Addr : Pick(q, b)
      PROVE  Kept
  <2>1. CASE Transmit(q) \/ Tasks(q)
    BY <2>1, SureTransmit, SureTask DEF SlotShow
  <2>2. CASE \E b \in Addr : Pick(q, b)
    BY <2>2 DEF Pick
  <2>3. CASE Reflect(q)
    <3>1. todo' = [todo EXCEPT ![q] = [todo[q] EXCEPT ![cur[q].at] = None]]
      BY <2>3 DEF Reflect
    <3>2. Fewer(r)
      BY <1>0, <3>1 DEF Settings
    <3>. QED BY <2>3, <3>2 DEF Reflect
  <2>. QED BY <1>7, <2>1, <2>2, <2>3
<1>8. ASSUME NEW b \in Addr, Move(b) \/ Dispatch(b) PROVE Kept
  BY <1>8 DEF Move, Dispatch, locals
<1>9. ASSUME LoadOver \/ UNCHANGED vars PROVE Kept
  BY <1>9 DEF LoadOver, vars, locals
<1>10. Kept => Goal
  OBVIOUS
<1>. HIDE DEF Goal, Kept
<1>11. Goal
  <2>1. ASSUME NEW q \in Recalls, Judge(q) \/ Leave(q) \/ TakeUndo(q) \/ StartRevert(q)
        PROVE  Goal
    <3>1. PICK l \in Labels : /\ l \notin {"snaps", "owns"} /\ pc' = [pc EXCEPT ![q] = l]
                              /\ \E v : todo' = [todo EXCEPT ![q] = v]
                              /\ \E w : own' = [own EXCEPT ![q] = w]
      BY <1>5, <2>1
    <3>. QED BY <1>2, <3>1
  <2>2. ASSUME NEW q \in Recalls,
               \/ Claim(q) \/ Enqueue(q) \/ Enter(q) \/ LeaveSuperseded(q)
               \/ MarkInFlight(q) \/ FireMemory(q) \/ ForgetPalettes(q) \/ Settle(q)
               \/ LeaveRowOnly(q) \/ Spawn(q)
               \/ CommitCheck(q) \/ CommitStore(q) \/ ClearPlan(q) \/ StoreUndo(q)
               \/ MarkLastRecalled(q) \/ Finish(q)
        PROVE  Goal
    BY <1>1, <1>3, <1>4, <2>2
  <2>. QED BY <1>6, <1>7, <1>8, <1>9, <1>10, <2>1, <2>2
           DEF Next, Process, Gated, Tail_, Undoing, Terminated
<1>. QED BY <1>11 DEF Goal

\* The plan takes its values from cues, and a send loop from the plan or from its own.
LEMMA SourceNext == ASSUME SlotShow, SlotInv, [Next]_vars PROVE SourceOK'
<1>. USE SlotTypes
<1>0. SourceOK
  BY DEF SlotInv
<1>1. \A q \in Recalls : ep[q] # 0 => ep'[q] # 0
  BY EpochsKept
<1>2. ASSUME NEW a \in Addr, plan'.vals[a] # None PROVE SetBy(a, plan.vals[a])'
  <2>1. ASSUME NEW r \in Recalls, NEW v, HasSnapshot(r), ep[r] # 0, v[a] \in {None, Own[r][a]},
               plan' = Merged(r, v)
        PROVE  SetBy(a, plan'.vals[a])
    <3>1. plan'.vals[a] = IF v[a] # None THEN v[a] ELSE plan.vals[a]
      BY <2>1 DEF Merged, Over
    <3>. QED BY <1>0, <1>2, <2>1, <3>1 DEF SetBy, SourceOK
  <2>2. ASSUME NEW r \in Recalls, LeaveSuperseded(r) PROVE SetBy(a, plan'.vals[a])
    <3>1. ep[r] # 0
      BY <2>2 DEF LeaveSuperseded, ClaimOK, SlotShow
    <3>. QED BY <1>0, <1>2, <2>1, <2>2, <3>1 DEF LeaveSuperseded, SourceOK
  <2>3. ASSUME NEW r \in Recalls, Resolve(r) PROVE SetBy(a, plan'.vals[a])
    <3>1. ep[r] # 0 /\ HasSnapshot(r)
      BY <2>3 DEF Resolve, ClaimOK, PathOK, SlotShow
    <3>2. Resolved(r)[a] \in {None, Own[r][a]} /\ plan' = Merged(r, Resolved(r))
      BY <2>3 DEF Resolve, Resolved
    <3>. QED BY <2>1, <3>1, <3>2
  <2>4. ASSUME NEW r \in Recalls, ClearPlan(r) \/ TakeUndo(r) PROVE SetBy(a, plan'.vals[a])
    BY <1>0, <1>2, <2>4 DEF ClearPlan, TakeUndo, NoPlan, Nothing, SourceOK
  <2>5. ASSUME UNCHANGED plan PROVE SetBy(a, plan'.vals[a])
    BY <1>0, <1>2, <2>5 DEF SourceOK
  <2>6. ASSUME NEW r \in Recalls,
               \/ Claim(r) \/ Enter(r) \/ Judge(r) \/ LeaveRowOnly(r) \/ Leave(r)
               \/ \E l \in Labels : Advance(r, l)
        PROVE  UNCHANGED plan
    BY <2>6 DEF Claim, Enter, Judge, LeaveRowOnly, Leave, Advance, shared
  <2>7. SetBy(a, plan'.vals[a])
    BY <2>2, <2>3, <2>4, <2>5, <2>6, NextPlan
  <2>. QED BY <1>1, <2>7 DEF SetBy
<1>3. ASSUME NEW r \in Recalls, NEW a \in Addr, pc'[r] = "snaps", todo'[r][a] # None
      PROVE  own'[r][a] = None /\ SetBy(a, todo[r][a])'
  <2>1. CASE Resolve(r)
    <3>1. /\ own'[r] = Resolved(r) /\ todo'[r] = Minus(plan.vals, Resolved(r))
      BY <2>1 DEF Resolve
    <3>2. own'[r][a] = None /\ todo'[r][a] = plan.vals[a]
      BY <1>3, <3>1 DEF Minus
    <3>. QED BY <1>0, <1>1, <1>3, <3>2 DEF SourceOK, SetBy
  <2>2. CASE /\ pc[r] = "snaps" /\ own'[r] = own[r] /\ Fewer(r)
    <3>1. todo'[r][a] = todo[r][a]
      BY <1>3, <2>2 DEF Fewer
    <3>2. own[r][a] = None /\ SetBy(a, todo[r][a])
      BY <1>0, <1>3, <2>2, <3>1 DEF SourceOK
    <3>. QED BY <1>1, <2>2, <3>1, <3>2 DEF SetBy
  <2>. QED BY <1>3, <2>1, <2>2, TodoNext
<1>4. ASSUME NEW r \in Recalls, NEW a \in Addr, pc'[r] = "owns", todo'[r][a] # None
      PROVE  todo'[r][a] = own'[r][a]
  <2>1. CASE StartOwn(r)
    BY <2>1 DEF StartOwn
  <2>2. CASE /\ pc[r] = "owns" /\ own'[r] = own[r] /\ Fewer(r)
    BY <1>0, <1>4, <2>2 DEF SourceOK, Fewer
  <2>. QED BY <1>4, <2>1, <2>2, TodoNext
<1>5. ASSUME NEW r \in Recalls, NEW a \in Addr, HasSnapshot(r)
      PROVE  own'[r][a] \in {None, Own[r][a]}
  <2>1. CASE Resolve(r)
    BY <2>1 DEF Resolve, Resolved
  <2>2. ~TakeUndo(r)
    BY <1>5 DEF TakeUndo, PathOK, HasSnapshot
  <2>. QED BY <1>0, <1>5, <2>1, <2>2, EndsKept DEF SourceOK
<1>. QED BY <1>2, <1>3, <1>4, <1>5 DEF SourceOK

\* The record is cleared, or it is what a recall stamps.
LEMMA RecordMoves ==
  ASSUME SlotInv, [Next]_vars, lastSent' # lastSent, lastSent' # Nothing
  PROVE  \E r \in Recalls : CommitStore(r) /\ pc[r] = "stamp"
<1>1. ASSUME NEW q \in Recalls,
             \/ Enqueue(q) \/ Enter(q) \/ LeaveSuperseded(q)
             \/ MarkInFlight(q) \/ FireMemory(q) \/ Settle(q)
             \/ LeaveRowOnly(q) \/ Resolve(q) \/ StartOwn(q) \/ Spawn(q) \/ Transmit(q)
             \/ Reflect(q) \/ Tasks(q)
      PROVE  UNCHANGED lastSent
  <2>1. CASE Tasks(q)
    BY <2>1 DEF Tasks, PreWaitOver, TaskPick, TaskTransmit, TaskReflect, NextTick, CloseTask,
                TaskStep
  <2>. QED BY <1>1, <2>1 DEF Enqueue, Enter, LeaveSuperseded, MarkInFlight, FireMemory, Settle,
              LeaveRowOnly, Resolve, StartOwn, Spawn, Transmit, Reflect, shared
<1>2. ASSUME NEW q \in Recalls,
             \/ Judge(q) \/ CommitCheck(q) \/ ClearPlan(q) \/ StoreUndo(q)
             \/ MarkLastRecalled(q) \/ Finish(q) \/ Leave(q) \/ StartRevert(q)
             \/ \E a \in Addr : Pick(q, a)
      PROVE  UNCHANGED lastSent
  BY <1>2 DEF Judge, CommitCheck, ClearPlan, StoreUndo, MarkLastRecalled, Finish, Leave,
              StartRevert, Pick, shared
<1>3. ASSUME NEW q \in Recalls, Claim(q) \/ ForgetPalettes(q) \/ TakeUndo(q)
      PROVE  lastSent' \in {lastSent, Nothing}
  BY <1>3 DEF Claim, RecordAtClaim, ForgetPalettes, TakeUndo
<1>4. ASSUME NEW q \in Recalls, CommitStore(q), pc[q] # "stamp" PROVE lastSent' = Nothing
  BY <1>4 DEF CommitStore
<1>5. ASSUME \/ \E a \in Addr : Move(a) \/ Dispatch(a)
             \/ LoadOver \/ UNCHANGED vars
      PROVE  UNCHANGED lastSent
  BY <1>5 DEF Move, Dispatch, Overridden, LoadOver, vars, shared
<1>. QED BY <1>1, <1>2, <1>3, <1>4, <1>5 DEF Next, Process, Gated, Tail_, Undoing, Terminated

\* A claim clears the record if it supersedes a recall in flight, and moves nobody else.
LEMMA SupersededNext ==
  ASSUME SlotShow, SlotInv, [Next]_vars, NEW r \in Recalls, ~IsCancelled(r), IsCancelled(r)'
  PROVE  /\ pc[r] \in Marked => lastSent' = Nothing
         /\ lastSent' \in {lastSent, Nothing}
         /\ UNCHANGED <<cur, task, desk>> /\ (pc[r] # "idle" => pc'[r] = pc[r])
<1>. USE SlotTypes
<1>1. ASSUME NEW q \in Recalls,
             \/ Enter(q) \/ LeaveSuperseded(q) \/ Resolve(q)
             \/ Judge(q) \/ LeaveRowOnly(q) \/ Leave(q)
             \/ ClearPlan(q) \/ TakeUndo(q)
             \/ \E l \in Labels : Advance(q, l)
      PROVE  FALSE
  BY <1>1 DEF Enter, LeaveSuperseded, Resolve, Judge, LeaveRowOnly, Leave, ClearPlan, TakeUndo,
              Advance, shared, IsCancelled
<1>2. PICK q \in Recalls : Claim(q)
  BY <1>1, NextPlan DEF IsCancelled
<1>3. ASSUME pc[r] \in Marked PROVE inFlight # 0
  <2>1. ep[r] # 0
    BY <1>3 DEF ClaimOK, Marked, SlotShow
  <2>. QED BY <1>3, <2>1 DEF SlotInv, IInv, InFlightTruth
<1>. QED BY <1>2, <1>3 DEF Claim, RecordAtClaim, Goto, world

\* A task starts to send only for a recall that has not been superseded.
LEMMA RunStarts ==
  ASSUME SlotInv, [Next]_vars, NEW r \in Recalls, NEW g \in Groups,
         task[r][g].st \notin {"run", "air", "sent"},
         task'[r][g].st \in {"run", "air", "sent"}
  PROVE  ~IsCancelled(r) /\ UNCHANGED cancelled
<1>. USE SlotTypes
<1>0. task' # task /\ task \in [Recalls -> [Groups -> TaskState]]
  OBVIOUS
<1>1. ASSUME NEW q \in Recalls, Spawn(q) PROVE FALSE
  BY <1>0, <1>1 DEF Spawn, IdleTask
<1>2. ASSUME NEW q \in Recalls, NEW h \in Groups,
             \/ NextTick(q, h) \/ TaskTransmit(q, h) \/ TaskReflect(q, h) \/ CloseTask(q, h)
             \/ \E a \in Addr : TaskPick(q, h, a)
      PROVE  FALSE
  <2>1. task[q][h].st \in {"run", "air", "sent"}
    BY <1>2 DEF NextTick, TaskTransmit, TaskReflect, CloseTask, TaskPick
  <2>2. \E t : task' = [task EXCEPT ![q][h] = t]
    BY <1>2 DEF NextTick, TaskTransmit, TaskReflect, CloseTask, TaskPick, TaskStep
  <2>. QED BY <1>0, <2>1, <2>2
<1>3. PICK q \in Recalls, h \in Groups : PreWaitOver(q, h)
  BY <1>0, <1>1, <1>2, NextTask
<1>4. \E t : task' = [task EXCEPT ![q][h] = t] /\ (IsCancelled(q) => t.st = "done")
  BY <1>3 DEF PreWaitOver, TaskStep, IdleTask
<1>5. UNCHANGED cancelled
  BY <1>3 DEF PreWaitOver, TaskStep
<1>. QED BY <1>0, <1>4, <1>5

\* A loop takes up an address only for a call that has not been superseded.
LEMMA CursorStarts ==
  ASSUME SlotShow, SlotInv, [Next]_vars, NEW r \in Recalls, cur[r] = None, cur'[r] # None
  PROVE  \E a \in Addr : Pick(r, a) /\ ~IsCancelled(r)
<1>. USE SlotTypes
<1>0. cur \in [Recalls -> Cursor] /\ cur' # cur
  OBVIOUS
<1>1. ASSUME NEW q \in Recalls,
             \/ Claim(q) \/ Enqueue(q) \/ Enter(q) \/ LeaveSuperseded(q)
             \/ MarkInFlight(q) \/ FireMemory(q) \/ ForgetPalettes(q) \/ Settle(q)
             \/ LeaveRowOnly(q) \/ Resolve(q) \/ StartOwn(q) \/ Spawn(q) \/ Tasks(q)
      PROVE  UNCHANGED cur
  <2>1. CASE Tasks(q)
    BY <2>1, SureTask DEF SlotShow
  <2>. QED BY <1>1, <2>1 DEF Claim, Enqueue, Enter, LeaveSuperseded, MarkInFlight, FireMemory,
              ForgetPalettes, Settle, LeaveRowOnly, Resolve, StartOwn, Spawn
<1>2. ASSUME NEW q \in Recalls,
             \/ Judge(q) \/ CommitCheck(q) \/ CommitStore(q) \/ ClearPlan(q) \/ StoreUndo(q)
             \/ MarkLastRecalled(q) \/ Finish(q) \/ Leave(q) \/ TakeUndo(q) \/ StartRevert(q)
      PROVE  UNCHANGED cur
  BY <1>2 DEF Judge, CommitCheck, CommitStore, ClearPlan, StoreUndo, MarkLastRecalled, Finish,
              Leave, TakeUndo, StartRevert
<1>3. ASSUME NEW q \in Recalls, Transmit(q) \/ Reflect(q) PROVE FALSE
  <2>1. cur[q] # None /\ \E v : cur' = [cur EXCEPT ![q] = v]
    BY <1>3, SureTransmit DEF SlotShow, Reflect
  <2>. QED BY <1>0, <2>1
<1>4. ASSUME \/ \E a \in Addr : Move(a) \/ Dispatch(a)
             \/ LoadOver \/ UNCHANGED vars
      PROVE  UNCHANGED cur
  BY <1>4 DEF Move, Dispatch, LoadOver, vars, locals
<1>5. ASSUME NEW q \in Recalls, NEW a \in Addr, Pick(q, a) PROVE q = r /\ ~IsCancelled(r)
  BY <1>0, <1>5 DEF Pick, SlotShow
<1>. QED BY <1>0, <1>1, <1>2, <1>3, <1>4, <1>5
         DEF Next, Process, Gated, Tail_, Undoing, Terminated

\* An undo begins by clearing the record.
LEMMA UndoStarts ==
  ASSUME SlotInv, [Next]_vars, NEW r \in Recalls, pc[r] # "undoing", pc'[r] = "undoing"
  PROVE  lastSent' = Nothing
<1>. USE SlotTypes DEF Goto
<1>0. pc \in [Recalls -> Labels]
  OBVIOUS
<1>1. ASSUME NEW q \in Recalls,
             \/ Claim(q) \/ Enqueue(q) \/ Enter(q) \/ LeaveSuperseded(q)
             \/ MarkInFlight(q) \/ FireMemory(q) \/ ForgetPalettes(q) \/ Settle(q)
             \/ LeaveRowOnly(q) \/ Resolve(q) \/ StartOwn(q) \/ Spawn(q)
      PROVE  \E l \in Labels : l # "undoing" /\ pc' = [pc EXCEPT ![q] = l]
  BY <1>1 DEF Claim, Enqueue, Enter, LeaveSuperseded, MarkInFlight, FireMemory,
              ForgetPalettes, Settle, LeaveRowOnly, Resolve, StartOwn, Spawn, Labels
<1>2. ASSUME NEW q \in Recalls,
             \/ Judge(q) \/ CommitCheck(q) \/ CommitStore(q) \/ ClearPlan(q) \/ StoreUndo(q)
             \/ MarkLastRecalled(q) \/ Finish(q) \/ Leave(q) \/ StartRevert(q)
      PROVE  \E l \in Labels : l # "undoing" /\ pc' = [pc EXCEPT ![q] = l]
  BY <1>2 DEF Judge, CommitCheck, CommitStore, ClearPlan, StoreUndo, MarkLastRecalled, Finish,
              Leave, StartRevert, Labels
<1>3. ASSUME NEW q \in Recalls, TakeUndo(q) PROVE lastSent' = Nothing
  BY <1>0, <1>3 DEF TakeUndo
<1>4. ASSUME UNCHANGED control PROVE UNCHANGED pc
  BY <1>4 DEF control
<1>. QED BY <1>0, <1>1, <1>2, <1>3, <1>4, NextControl

\* Nobody who may still send is left when a recall stamps the record.
LEMMA LooseNext == ASSUME SlotShow, SlotInv, StampsInTime, [Next]_vars PROVE LooseOK'
<1>. USE SlotTypes
<1>. SUFFICES ASSUME NEW r \in Recalls, Loose(r)', lastSent' # Nothing PROVE FALSE
  BY DEF LooseOK
<1>1. CASE lastSent' = lastSent
  <2>1. ~Loose(r)
    BY <1>1 DEF SlotInv, LooseOK
  <2>2. ASSUME pc'[r] = "undoing" PROVE FALSE
    BY <2>1, <2>2, UndoStarts DEF Loose
  <2>3. ASSUME IsCancelled(r)', ~IsCancelled(r),
               \/ cur[r] # None \/ \E g \in Groups : task[r][g].st \in {"run", "air", "sent"}
        PROVE  FALSE
    <3>1. pc[r] \in {"snaps", "owns", "join"}
      <4>1. CASE cur[r] # None
        BY <2>1, <4>1 DEF Loose, SlotInv, IInv, LoopOK, Sending, PathOK, SlotShow
      <4>2. CASE \E g \in Groups : task[r][g].st \in {"run", "air", "sent"}
        BY <4>2 DEF SlotInv, IInv, TasksOK, TaskFits
      <4>. QED BY <2>3, <4>1, <4>2
    <3>. QED BY <2>3, <3>1, SupersededNext DEF Marked
  <2>4. ASSUME IsCancelled(r), cur[r] = None, cur'[r] # None PROVE FALSE
    BY <2>4, CursorStarts
  <2>5. ASSUME NEW g \in Groups, IsCancelled(r)', task[r][g].st \notin {"run", "air", "sent"},
               task'[r][g].st \in {"run", "air", "sent"}
        PROVE  FALSE
    BY <2>5, RunStarts DEF IsCancelled
  <2>6. ASSUME IsCancelled(r)', cur'[r] # None PROVE FALSE
    <3>1. CASE IsCancelled(r)
      BY <2>1, <2>4, <2>6, <3>1 DEF Loose
    <3>2. CASE ~IsCancelled(r)
      BY <2>3, <2>6, <3>2, SupersededNext
    <3>. QED BY <3>1, <3>2
  <2>7. ASSUME NEW g \in Groups, IsCancelled(r)', task'[r][g].st \in {"run", "air", "sent"}
        PROVE  FALSE
    BY <2>1, <2>3, <2>5, <2>7 DEF Loose
  <2>. QED BY <2>2, <2>6, <2>7 DEF Loose
<1>2. CASE lastSent' # lastSent
  <2>1. PICK x \in Recalls : CommitStore(x) /\ pc[x] = "stamp"
    BY <1>2, RecordMoves
  <2>2. Alone(x)
    BY <2>1, FrontAlone DEF InPlay
  <2>3. /\ UNCHANGED <<cancelled, cur, task>> /\ pc' = [pc EXCEPT ![x] = "unplan"]
    BY <2>1 DEF CommitStore, Goto
  <2>4. pc[r] # "undoing" /\ cur[r] = None
    BY <2>1, <2>2, <2>3 DEF Alone, Acting, SlotInv, IInv, LoopOK, Sending, PathOK, SlotShow
  <2>5. \A g \in Groups : task[r][g].st \notin {"run", "air", "sent"}
    BY <2>1, <2>2 DEF Alone, TasksEnded, TaskEnded, SlotInv, IInv, TasksOK, TaskFits
  <2>. QED BY <2>1, <2>3, <2>4, <2>5 DEF Loose, IsCancelled
<1>. QED BY <1>1, <1>2

\* The step of a call that has resolved, by its label ...
LEMMA StepOf ==
  ASSUME SlotShow, SlotInv, NEW r \in Recalls, Process(r)
  PROVE  /\ pc[r] \in {"snaps", "owns"} =>
              \/ \E a \in Addr : Pick(r, a)
              \/ Transmit(r) \/ Reflect(r)
              \/ pc[r] = "snaps" /\ (StartOwn(r) \/ Spawn(r))
              \/ pc[r] = "owns" /\ Judge(r)
         /\ pc[r] = "join" => Tasks(r) \/ Judge(r)
         /\ pc[r] = "commit" => CommitCheck(r)
         /\ pc[r] = "stamp" => CommitStore(r)
         /\ pc[r] = "forget" => ForgetPalettes(r)
<1>. USE SlotTypes
<1>. DEFINE L == {"snaps", "owns", "join", "commit", "stamp", "forget"}
<1>1. ASSUME Enqueue(r) \/ Enter(r) \/ LeaveSuperseded(r) \/ MarkInFlight(r) \/ FireMemory(r)
             \/ Settle(r) \/ LeaveRowOnly(r) \/ Resolve(r)
      PROVE  pc[r] \notin L
  BY <1>1 DEF Enqueue, Enter, LeaveSuperseded, MarkInFlight, FireMemory, Settle, LeaveRowOnly,
              Resolve
<1>2. ASSUME ClearPlan(r) \/ StoreUndo(r) \/ MarkLastRecalled(r) \/ Finish(r) \/ Leave(r)
             \/ TakeUndo(r) \/ StartRevert(r)
      PROVE  pc[r] \notin L
  BY <1>2 DEF ClearPlan, StoreUndo, MarkLastRecalled, Finish, Leave, TakeUndo, StartRevert
<1>3. ASSUME Transmit(r) \/ Reflect(r) \/ (\E a \in Addr : Pick(r, a))
      PROVE  pc[r] \in Sending
  BY <1>3 DEF Transmit, Reflect, Pick, SlotInv, IInv, LoopOK
<1>4. ASSUME Tasks(r) PROVE pc[r] = "join"
  BY <1>4, SureTask DEF SlotShow, SlotInv, IInv, TasksOK, TaskFits, TaskEnded
<1>5. /\ ForgetPalettes(r) => pc[r] = "forget"
      /\ StartOwn(r) \/ Spawn(r) => pc[r] = "snaps"
      /\ Judge(r) => pc[r] \in {"owns", "join"}
      /\ CommitCheck(r) => pc[r] = "commit"
      /\ CommitStore(r) => pc[r] \in {"wipe", "stamp"}
  BY DEF ForgetPalettes, StartOwn, Spawn, Judge, Sent, CommitCheck, CommitStore
<1>6. Sending = {"snaps", "owns", "undoing", "reverting"}
  BY DEF Sending
<1>7. CASE Enqueue(r) \/ Undoing(r)
  BY <1>1, <1>2, <1>7 DEF Undoing
<1>8. CASE Gated(r)
  BY <1>1, <1>3, <1>5, <1>6, <1>8 DEF Gated
<1>9. CASE Tasks(r)
  BY <1>4, <1>9
<1>10. CASE Tail_(r)
  BY <1>2, <1>5, <1>10 DEF Tail_
<1>. QED BY <1>7, <1>8, <1>9, <1>10 DEF Process

\* ... and the step that brought it there.
LEMMA StepTo ==
  ASSUME SlotInv, [Next]_vars, NEW r \in Recalls, pc'[r] # pc[r]
  PROVE  /\ pc'[r] = "join" => Spawn(r)
         /\ pc'[r] = "commit" => Judge(r)
         /\ pc'[r] = "stamp" => CommitCheck(r)
<1>. USE SlotTypes DEF Goto
<1>0. pc \in [Recalls -> Labels]
  OBVIOUS
<1>1. ASSUME NEW q \in Recalls,
             \/ Claim(q) \/ Enqueue(q) \/ Enter(q) \/ LeaveSuperseded(q)
             \/ MarkInFlight(q) \/ FireMemory(q) \/ ForgetPalettes(q) \/ Settle(q)
             \/ LeaveRowOnly(q) \/ Resolve(q) \/ StartOwn(q) \/ TakeUndo(q)
      PROVE  \E l \in Labels \ {"join", "commit", "stamp"} : pc' = [pc EXCEPT ![q] = l]
  BY <1>1 DEF Claim, Enqueue, Enter, LeaveSuperseded, MarkInFlight, FireMemory,
              ForgetPalettes, Settle, LeaveRowOnly, Resolve, StartOwn, TakeUndo, Labels
<1>2. ASSUME NEW q \in Recalls,
             \/ CommitStore(q) \/ ClearPlan(q) \/ StoreUndo(q)
             \/ MarkLastRecalled(q) \/ Finish(q) \/ Leave(q) \/ StartRevert(q)
      PROVE  \E l \in Labels \ {"join", "commit", "stamp"} : pc' = [pc EXCEPT ![q] = l]
  BY <1>2 DEF CommitStore, ClearPlan, StoreUndo, MarkLastRecalled, Finish, Leave,
              StartRevert, Labels
<1>3. ASSUME NEW q \in Recalls, Spawn(q) PROVE pc' = [pc EXCEPT ![q] = "join"]
  BY <1>3 DEF Spawn
<1>4. ASSUME NEW q \in Recalls, Judge(q) PROVE pc' = [pc EXCEPT ![q] = "commit"]
  BY <1>4 DEF Judge
<1>5. ASSUME NEW q \in Recalls, CommitCheck(q)
      PROVE  \E l \in {"unplan", "wipe", "stamp"} : pc' = [pc EXCEPT ![q] = l]
  BY <1>5 DEF CommitCheck
<1>6. ASSUME UNCHANGED control PROVE FALSE
  BY <1>6 DEF control
<1>7. CASE \E q \in Recalls : Spawn(q) \/ Judge(q) \/ CommitCheck(q)
  BY <1>0, <1>3, <1>4, <1>5, <1>7
<1>. QED BY <1>0, <1>1, <1>2, <1>6, <1>7, NextControl

\* Only a memory, a send loop and a task change the desk.
LEMMA DeskMoves ==
  ASSUME SlotShow, SlotInv, [Next]_vars, desk' # desk
  PROVE  \E r \in Recalls : FireMemory(r) \/ Transmit(r) \/ Tasks(r)
<1>. USE SlotTypes
<1>1. ASSUME NEW q \in Recalls,
             \/ Claim(q) \/ Enqueue(q) \/ Enter(q) \/ LeaveSuperseded(q)
             \/ MarkInFlight(q) \/ ForgetPalettes(q) \/ Settle(q) \/ LeaveRowOnly(q)
             \/ Resolve(q) \/ Reflect(q) \/ StartOwn(q) \/ Spawn(q)
      PROVE  UNCHANGED desk
  BY <1>1 DEF Claim, Enqueue, Enter, LeaveSuperseded, MarkInFlight, ForgetPalettes, Settle,
              LeaveRowOnly, Resolve, Reflect, StartOwn, Spawn, world
<1>2. ASSUME NEW q \in Recalls,
             \/ Judge(q) \/ CommitCheck(q) \/ CommitStore(q) \/ ClearPlan(q) \/ StoreUndo(q)
             \/ MarkLastRecalled(q) \/ Finish(q) \/ Leave(q) \/ TakeUndo(q) \/ StartRevert(q)
             \/ \E a \in Addr : Pick(q, a)
      PROVE  UNCHANGED desk
  BY <1>2 DEF Judge, CommitCheck, CommitStore, ClearPlan, StoreUndo, MarkLastRecalled, Finish,
              Leave, TakeUndo, StartRevert, Pick, world
<1>3. ASSUME NEW a \in Addr, Move(a) PROVE FALSE
  BY <1>3 DEF Move, SlotShow, TypeOK
<1>4. ASSUME \/ \E a \in Addr : Dispatch(a)
             \/ LoadOver \/ UNCHANGED vars
      PROVE  UNCHANGED desk
  BY <1>4 DEF Dispatch, LoadOver, vars, world
<1>. QED BY <1>1, <1>2, <1>3, <1>4 DEF Next, Process, Gated, Tail_, Undoing, Terminated

\* What happens to the newest call past the gate: a step of its own or nothing.
LEMMA NewestStep ==
  ASSUME SlotShow, SlotInv, [Next]_vars, NEW r \in Recalls,
         pc[r] \in InPlay \ {"forget"}, ~IsCancelled(r)'
  PROVE  /\ ~IsCancelled(r) /\ Alone(r)
         /\ \/ Process(r)
            \/ /\ UNCHANGED <<desk, registry>>
               /\ pc'[r] = pc[r] /\ own'[r] = own[r] /\ todo'[r] = todo[r] /\ cur'[r] = cur[r]
               /\ task'[r] = task[r] /\ gen'[r] = gen[r] /\ verdict'[r] = verdict[r]
<1>1. ~IsCancelled(r)
  BY EpochsKept DEF IsCancelled
<1>2. Alone(r)
  BY <1>1, NewestAlone
<1>3. ~Claim(r)
  BY DEF Claim, InPlay, Acting
<1>. QED BY <1>1, <1>2, <1>3, OthersStep

\* A slot is skipped when the record says so; only the recall's own snaps go over it.
LEMMA SkippedNext == ASSUME SlotShow, SlotInv, StampsInTime, [Next]_vars PROVE SkippedOK'
<1>. USE SlotTypes
<1>. SUFFICES ASSUME NEW r \in Recalls, NEW a \in Palette, ~IsCancelled(r)',
                     pc'[r] \in {"snaps", "owns", "join"},
                     Own[r][a] # None, own'[r][a] = None
              PROVE  Holds(a, Own[r][a])' \/ Overplayed(r, a)'
  BY DEF SkippedOK
<1>0. a \in Addr /\ pc \in [Recalls -> Labels] /\ desk \in [Addr -> Value]
  BY AddrAssumption
<1>1. CASE Resolve(r)
  <2>1. /\ pc[r] = "resolve" /\ own'[r] = Resolved(r) /\ UNCHANGED <<desk, cancelled>>
    BY <1>1 DEF Resolve
  <2>2. a \in Skipped(r)
    BY <1>0, <2>1 DEF Resolved
  <2>3. lastSent[a] = Own[r][a]
    BY <2>2 DEF Skipped
  <2>4. ~IsCancelled(r) /\ pc[r] \in InPlay
    BY <2>1 DEF IsCancelled, InPlay, Acting
  <2>5. ASSUME NEW x \in Recalls, Renewing(x) PROVE FALSE
    <3>1. x # r
      BY <2>1, <2>5 DEF Renewing
    <3>2. pc[x] \notin Acting /\ (ep[x] # 0 => IsCancelled(x))
      BY <2>4, <3>1, NewestAlone DEF Alone
    <3>3. pc[x] # "idle" => ep[x] # 0
      BY DEF ClaimOK, SlotShow
    <3>. QED BY <2>5, <3>2, <3>3 DEF Renewing, Acting
  <2>6. Holds(a, Own[r][a])
    BY <2>3, <2>5 DEF SlotInv, RecordOK
  <2>. QED BY <1>0, <2>1, <2>6, HoldsKept
<1>2. CASE ~Resolve(r)
  <2>1. pc[r] \in {"snaps", "owns", "join"}
    <3>1. CASE pc'[r] = pc[r]
      BY <3>1
    <3>2. CASE pc'[r] # pc[r]
      BY <1>0, <1>2, <3>2, StepTo, TodoNext DEF Spawn, StartOwn
    <3>. QED BY <3>1, <3>2
  <2>2. own'[r] = own[r]
    BY <1>2, <2>1, EndsKept DEF TakeUndo
  <2>3. /\ ~IsCancelled(r)
        /\ Process(r) \/ UNCHANGED desk
    BY <2>1, NewestStep DEF InPlay, Acting
  <2>4. Overplayed(r, a) => Overplayed(r, a)'
    <3>1. ASSUME NEW q \in Recalls, IsCancelled(q), ep[q] < ep[r]
          PROVE  IsCancelled(q)' /\ ep'[q] < ep'[r]
      <4>1. ep[q] # 0 /\ ep[r] # 0
        BY <3>1 DEF IsCancelled, ClaimOK
      <4>. QED BY <3>1, <4>1, EpochsKept DEF IsCancelled
    <3>. QED BY <3>1 DEF Overplayed
  <2>5. Holds(a, Own[r][a]) \/ Overplayed(r, a)
    BY <2>1, <2>2, <2>3 DEF SlotInv, SkippedOK
  <2>6. CASE desk'[a] = desk[a]
    BY <1>0, <2>4, <2>5, <2>6, HoldsKept
  <2>7. CASE desk'[a] # desk[a]
    <3>1. PICK q \in Recalls : FireMemory(q) \/ Transmit(q) \/ Tasks(q)
      BY <2>7, DeskMoves
    <3>2. q = r
      <4>1. Alone(r)
        BY <2>1, NewestStep DEF InPlay, Acting
      <4>2. CASE FireMemory(q)
        BY <2>1, <4>1, <4>2 DEF FireMemory, Alone, Acting
      <4>3. CASE Transmit(q)
        <5>1. pc[q] \in {"snaps", "owns", "undoing"}
          BY <4>3 DEF Transmit, SlotInv, IInv, LoopOK, Sending, PathOK, SlotShow
        <5>. QED BY <4>1, <5>1 DEF Alone, Acting
      <4>4. CASE Tasks(q)
        <5>1. ~TasksEnded(q)
          BY <4>4, SureTask DEF SlotShow, TasksEnded
        <5>. QED BY <4>1, <5>1 DEF Alone
      <4>. QED BY <3>1, <4>2, <4>3, <4>4
    <3>3. CASE Transmit(r)
      <4>1. /\ cur[r] # None /\ cur[r].at = a
            /\ desk'[a] = todo[r][a]
        BY <1>0, <2>7, <3>3, SureTransmit DEF SlotShow
      <4>2. todo[r][a] # None
        BY <4>1 DEF SlotInv, IInv, LoopOK
      <4>3. pc[r] = "snaps"
        <5>1. pc[r] # "join"
          BY <4>1 DEF SlotInv, IInv, LoopOK, Sending
        <5>2. ASSUME pc[r] = "owns" PROVE FALSE
          <6>1. todo[r][a] = own[r][a]
            BY <1>0, <4>2, <5>2 DEF SlotInv, SourceOK
          <6>. QED BY <2>2, <4>2, <6>1
        <5>. QED BY <2>1, <5>1, <5>2
      <4>4. PICK q1 \in Recalls : HasSnapshot(q1) /\ ep[q1] # 0 /\ Own[q1][a] = todo[r][a]
        BY <1>0, <4>2, <4>3 DEF SlotInv, SourceOK, SetBy
      <4>5. CASE todo[r][a] = Own[r][a]
        BY <4>1, <4>5 DEF Holds
      <4>6. CASE todo[r][a] # Own[r][a]
        <5>1. q1 # r /\ pc[r] \in InPlay
          BY <4>3, <4>4, <4>6 DEF InPlay, Acting
        <5>2. ep[q1] < ep[r] /\ IsCancelled(q1)
          BY <2>3, <4>4, <5>1, NewestAlone
        <5>3. Overplayed(r, a)
          BY <4>2, <4>4, <4>6, <5>2 DEF Overplayed
        <5>. QED BY <2>4, <5>3
      <4>. QED BY <4>5, <4>6
    <3>4. CASE Tasks(r)
      <4>1. PICK g \in Groups, t \in TaskState :
              TaskSends(r, g, t) \/ TaskMoves(r, g, t)
        BY <3>4, SureTask DEF SlotShow
      <4>2. task[r][g].st = "air" /\ task[r][g].at = a
        BY <1>0, <2>7, <4>1 DEF TaskSends, TaskMoves
      <4>3. own[r][a] # None
        BY <4>2 DEF SlotInv, IInv, TasksOK, TaskFits, Named
      <4>. QED BY <2>2, <4>3
    <3>5. ~FireMemory(r)
      BY <2>1 DEF FireMemory
    <3>. QED BY <3>1, <3>2, <3>3, <3>4, <3>5
  <2>. QED BY <2>6, <2>7
<1>. QED BY <1>1, <1>2

\* What the newest instant recall has sent stays.
LEMMA OwnsNext == ASSUME SlotShow, SlotInv, [Next]_vars PROVE OwnsOK'
<1>. USE SlotTypes
<1>. SUFFICES ASSUME NEW r \in Recalls, ~IsCancelled(r)', pc'[r] = "owns"
              PROVE  /\ cur'[r] # None /\ cur'[r].st = "sent" =>
                          desk'[cur'[r].at] = todo'[r][cur'[r].at]
                     /\ \A a \in Addr : own'[r][a] # None /\ todo'[r][a] = None =>
                          desk'[a] = own'[r][a]
  BY DEF OwnsOK
<1>0. /\ pc \in [Recalls -> Labels] /\ desk \in [Addr -> Value] /\ todo \in [Recalls -> Settings]
      /\ cur \in [Recalls -> Cursor]
  OBVIOUS
<1>1. CASE StartOwn(r)
  BY <1>0, <1>1 DEF StartOwn, LoopOver
<1>2. CASE ~StartOwn(r)
  <2>1. pc[r] = "owns" /\ own'[r] = own[r]
    BY <1>2, TodoNext
  <2>2. ~IsCancelled(r)
    BY <2>1, NewestStep DEF InPlay, Acting
  <2>3. /\ cur[r] # None /\ cur[r].st = "sent" => desk[cur[r].at] = todo[r][cur[r].at]
        /\ \A a \in Addr : own[r][a] # None /\ todo[r][a] = None => desk[a] = own[r][a]
    BY <2>1, <2>2 DEF SlotInv, OwnsOK
  <2>4. CASE Transmit(r)
    <3>1. /\ cur[r] # None /\ cur[r].at \in Addr
          /\ desk' = [desk EXCEPT ![cur[r].at] = todo[r][cur[r].at]]
          /\ cur'[r] = [at |-> cur[r].at, st |-> "sent"] /\ UNCHANGED todo
      BY <1>0, <2>4, SureTransmit DEF SlotShow
    <3>2. todo[r][cur[r].at] # None
      BY <3>1 DEF SlotInv, IInv, LoopOK
    <3>. QED BY <1>0, <2>1, <2>3, <3>1, <3>2
  <2>5. CASE Reflect(r)
    <3>1. /\ cur[r] # None /\ cur[r].st = "sent" /\ cur'[r] = None /\ UNCHANGED desk
          /\ todo' = [todo EXCEPT ![r] = [todo[r] EXCEPT ![cur[r].at] = None]]
      BY <1>0, <2>5 DEF Reflect
    <3>2. cur[r].at \in Addr /\ todo[r][cur[r].at] # None
      BY <1>0, <3>1 DEF SlotInv, IInv, LoopOK, Cursor
    <3>3. todo[r][cur[r].at] = own[r][cur[r].at]
      BY <2>1, <3>2 DEF SlotInv, SourceOK
    <3>4. \A a \in Addr \ {cur[r].at} : todo'[r][a] = todo[r][a]
      BY <1>0, <3>1 DEF Settings
    <3>. QED BY <2>1, <2>3, <3>1, <3>2, <3>3, <3>4
  <2>6. CASE \E a \in Addr : Pick(r, a)
    <3>1. /\ UNCHANGED <<desk, todo>> /\ cur'[r].st = "air"
      BY <1>0, <2>6 DEF Pick, world
    <3>. QED BY <2>1, <2>3, <3>1
  <2>7. ~Judge(r)
    BY <1>0 DEF Judge, Goto
  <2>8. CASE UNCHANGED desk /\ todo'[r] = todo[r] /\ cur'[r] = cur[r]
    BY <2>1, <2>3, <2>8
  <2>9. Process(r) \/ (UNCHANGED desk /\ todo'[r] = todo[r] /\ cur'[r] = cur[r])
    BY <2>1, NewestStep DEF InPlay, Acting
  <2>. QED BY <2>1, <2>4, <2>5, <2>6, <2>7, <2>8, <2>9, StepOf
<1>. QED BY <1>1, <1>2

\* The tasks of the newest recall: their shape, their entries and what they have sent.
LEMMA FadesNext == ASSUME SlotShow, SlotInv, [Next]_vars PROVE JoinOK'
<1>. USE SlotTypes
<1>. SUFFICES ASSUME NEW r \in Recalls, ~IsCancelled(r)', pc'[r] = "join"
              PROVE  /\ \A h \in Groups :
                          /\ ShapeFits(r, h, task[r][h])'
                          /\ ~TaskEnded(r, h)' => \A a \in Targets(r, h)' : registry'[a] = gen'[r]
                     /\ \A a \in Addr :
                          own'[r][a] # None /\ Past(a, task[r][Group[a]])' => desk'[a] = own'[r][a]
  BY DEF JoinOK
<1>0. /\ pc \in [Recalls -> Labels] /\ task \in [Recalls -> [Groups -> TaskState]]
      /\ own \in [Recalls -> Settings] /\ registry \in [Addr -> Nat] /\ desk \in [Addr -> Value]
      /\ \A a \in Addr : Group[a] \in Groups
  BY DEF Groups
<1>1. CASE pc[r] # "join"
  <2>. DEFINE waiting == [g \in Groups |-> IF Targets(r, g) = {} THEN IdleTask
                                           ELSE [IdleTask EXCEPT !.st = "wait"]]
  <2>1. /\ own' = own /\ gen' = gen
        /\ registry' = [a \in Addr |-> IF own[r][a] # None THEN gen[r] ELSE registry[a]]
        /\ task' = [task EXCEPT ![r] = waiting]
    BY <1>1, StepTo DEF Spawn
  <2>2. \A h \in Groups :
          waiting[h] = IF Targets(r, h) = {} THEN IdleTask ELSE [IdleTask EXCEPT !.st = "wait"]
    OBVIOUS
  <2>. HIDE DEF waiting
  <2>3. \A h \in Groups :
          task'[r][h] = IF Targets(r, h) = {} THEN IdleTask ELSE [IdleTask EXCEPT !.st = "wait"]
    BY <1>0, <2>1, <2>2
  <2>4. ASSUME NEW h \in Groups
        PROVE  /\ ShapeFits(r, h, task[r][h])'
               /\ \A a \in Targets(r, h)' : registry'[a] = gen'[r]
    <3>1. Targets(r, h)' = Targets(r, h) /\ Targets(r, h) \subseteq Named(own[r])
      BY <2>1 DEF Targets, Named
    <3>2. task'[r][h] = IF Targets(r, h) = {} THEN IdleTask ELSE [IdleTask EXCEPT !.st = "wait"]
      BY <2>3
    <3>3. ShapeFits(r, h, task[r][h])'
      <4>1. CASE Targets(r, h) = {}
        BY <3>1, <3>2, <4>1, TicksAssumption DEF ShapeFits, IdleTask
      <4>2. CASE Targets(r, h) # {}
        BY <3>1, <3>2, <4>2, TicksAssumption DEF ShapeFits, IdleTask
      <4>. QED BY <4>1, <4>2
    <3>. QED BY <2>1, <3>1, <3>3 DEF Named
  <2>5. ASSUME NEW a \in Addr, own[r][a] # None PROVE ~Past(a, task[r][Group[a]])'
    <3>1. Targets(r, Group[a]) # {}
      BY <2>5 DEF Targets, Named
    <3>2. task'[r][Group[a]] = [IdleTask EXCEPT !.st = "wait"]
      BY <1>0, <2>3, <3>1
    <3>. QED BY <3>2 DEF Past, IdleTask
  <2>. QED BY <2>1, <2>4, <2>5
<1>2. CASE pc[r] = "join"
  <2>1. ~IsCancelled(r)
    BY <1>2, NewestStep DEF InPlay, Acting
  <2>2. /\ \A g \in Groups :
             /\ ShapeFits(r, g, task[r][g])
             /\ ~TaskEnded(r, g) => \A a \in Targets(r, g) : registry[a] = gen[r]
        /\ \A a \in Addr :
             own[r][a] # None /\ Past(a, task[r][Group[a]]) => desk[a] = own[r][a]
    BY <1>2, <2>1 DEF SlotInv, JoinOK
  <2>3. CASE /\ UNCHANGED <<desk, registry>>
             /\ own'[r] = own[r] /\ task'[r] = task[r] /\ gen'[r] = gen[r]
    BY <2>2, <2>3 DEF Targets, Named, ShapeFits, TaskEnded, Past
  <2>4. CASE Tasks(r)
    <3>1. PICK g \in Groups, t \in TaskState :
            /\ ~TaskEnded(r, g) /\ task' = [task EXCEPT ![r][g] = t]
            /\ TaskSends(r, g, t) \/ TaskMoves(r, g, t)
      BY <2>4, SureTask DEF SlotShow
    <3>2. UNCHANGED <<own, gen>>
      BY <2>4, SureTask DEF SlotShow
    <3>3. /\ task'[r][g] = t /\ \A k \in Groups \ {g} : task'[r][k] = task[r][k]
          /\ \A k \in Groups : Targets(r, k)' = Targets(r, k)
      BY <1>0, <3>1, <3>2 DEF Targets, Named
    <3>4. /\ ShapeFits(r, g, task[r][g]) /\ task[r][g] \in TaskState
          /\ \A b \in Targets(r, g) : registry[b] = gen[r]
      BY <1>0, <2>2, <3>1
    <3>5. \/ UNCHANGED registry
          \/ /\ t.st = "done"
             /\ \A a \in Addr : a \notin Targets(r, g) => registry'[a] = registry[a]
      <4>1. CASE TaskSends(r, g, t)
        BY <4>1 DEF TaskSends
      <4>2. CASE TaskMoves(r, g, t)
        BY <4>2 DEF TaskMoves, IdleTask
      <4>. QED BY <3>1, <4>1, <4>2
    <3>6. ASSUME NEW h \in Groups
          PROVE  /\ ShapeFits(r, h, task[r][h])'
                 /\ ~TaskEnded(r, h)' => \A a \in Targets(r, h)' : registry'[a] = gen'[r]
      <4>1. CASE h = g
        <5>1. ShapeFits(r, g, t)
          BY <3>1, <3>4, ShapeMoves
        <5>2. ShapeFits(r, h, task[r][h])'
          BY <3>3, <4>1, <5>1 DEF ShapeFits
        <5>. QED BY <3>2, <3>3, <3>4, <3>5, <4>1, <5>2 DEF TaskEnded
      <4>2. CASE h # g
        <5>1. ShapeFits(r, h, task[r][h])'
          BY <2>2, <3>3, <4>2 DEF ShapeFits
        <5>2. \A a \in Targets(r, h) : a \in Addr /\ a \notin Targets(r, g)
          BY <4>2 DEF Targets, Named
        <5>. QED BY <2>2, <3>2, <3>3, <3>5, <4>2, <5>1, <5>2 DEF TaskEnded
      <4>. QED BY <4>1, <4>2
    <3>7. ASSUME NEW a \in Addr, own[r][a] # None, Past(a, task[r][Group[a]])'
          PROVE  desk'[a] = own[r][a]
      <4>. DEFINE s == task[r][g]
                  h == Group[a]
      <4>1. CASE TaskMoves(r, g, t)
        <5>1. UNCHANGED desk
          BY <4>1 DEF TaskMoves
        <5>2. CASE h = g
          <6>1. a \in Targets(r, g) /\ Past(a, t)
            BY <3>3, <3>7, <5>2 DEF Targets, Named, Past
          <6>2. Past(a, task[r][g])
            BY <2>1, <3>4, <4>1, <6>1, PastMoves
          <6>. QED BY <2>2, <3>7, <5>1, <5>2, <6>2
        <5>3. CASE h # g
          <6>1. Past(a, task[r][h])
            BY <1>0, <3>3, <3>7, <5>3 DEF Past
          <6>. QED BY <2>2, <3>7, <5>1, <6>1
        <5>. QED BY <5>2, <5>3
      <4>2. CASE TaskSends(r, g, t)
        <5>1. /\ s.st = "air" /\ t = [s EXCEPT !.st = "sent"] /\ s.at \in s.left
              /\ desk' = [desk EXCEPT ![s.at] = TaskValue(r, s)]
              /\ s.at \in Addr /\ Group[s.at] = g
          BY <3>4, <4>2 DEF TaskSends, ShapeFits, Targets, Named
        <5>2. CASE a # s.at
          <6>1. Past(a, task[r][h])
            <7>1. CASE h = g
              BY <3>3, <3>4, <3>7, <5>1, <5>2, <7>1 DEF Past, TaskState
            <7>2. CASE h # g
              BY <1>0, <3>3, <3>7, <7>2 DEF Past
            <7>. QED BY <7>1, <7>2
          <6>. QED BY <1>0, <2>2, <3>7, <5>1, <5>2, <6>1
        <5>3. CASE a = s.at
          <6>1. Past(a, t) /\ desk'[a] = TaskValue(r, s)
            BY <1>0, <3>3, <3>7, <5>1, <5>3 DEF Past
          <6>2. s.phase = 0 \/ s.phase = Ticks
            BY <3>4, <5>1, <5>3, <6>1 DEF Past, ShapeFits, TaskState
          <6>. QED BY <5>3, <6>1, <6>2 DEF TaskValue
        <5>. QED BY <5>2, <5>3
      <4>. QED BY <3>1, <4>1, <4>2
    <3>. QED BY <3>2, <3>6, <3>7
  <2>5. ~Judge(r)
    BY <1>0 DEF Judge, Goto
  <2>. QED BY <1>2, <2>3, <2>4, <2>5, NewestStep, StepOf DEF InPlay, Acting
<1>. QED BY <1>1, <1>2

\* A recall that has sent everything has landed its slots, and keeps them to its stamp.
LEMMA LandedSlotsNext ==
  ASSUME SlotShow, SlotInv, StampsInTime, [Next]_vars
  PROVE  LandedSlots'
<1>. USE SlotTypes
<1>. SUFFICES ASSUME NEW r \in Recalls,
                     pc'[r] = "stamp" \/ (pc'[r] = "commit" /\ ~IsCancelled(r)')
              PROVE  /\ HasSnapshot(r) /\ verdict'[r] = "complete"
                     /\ \A a \in Palette : Own[r][a] # None => Holds(a, Own[r][a])'
  BY DEF LandedSlots
<1>0. /\ pc \in [Recalls -> Labels] /\ Palette \subseteq Addr
      /\ verdict \in [Recalls -> {"open", "complete", "cancelled"}]
  BY AddrAssumption
<1>1. CASE Judge(r)
  <2>1. /\ UNCHANGED <<desk, own, ep, cancelled>> /\ Sent(r)
        /\ pc' = [pc EXCEPT ![r] = "commit"]
        /\ verdict' = [verdict EXCEPT ![r] = Outcome(r)]
    BY <1>1 DEF Judge, Goto, shared, world
  <2>2. pc[r] \in {"owns", "join"} /\ ~IsCancelled(r)
    BY <1>0, <2>1 DEF Sent, IsCancelled
  <2>3. verdict'[r] = "complete"
    BY <1>0, <2>1, <2>2 DEF Outcome
  <2>4. HasSnapshot(r)
    BY <2>2 DEF PathOK, HasSnapshot
  <2>5. ASSUME NEW a \in Palette, Own[r][a] # None PROVE Holds(a, Own[r][a])'
    <3>1. CASE own[r][a] = None
      <4>1. Holds(a, Own[r][a]) \/ Overplayed(r, a)
        BY <2>2, <2>5, <3>1 DEF SlotInv, SkippedOK
      <4>2. CASE Holds(a, Own[r][a])
        BY <1>0, <2>1, <4>2, HoldsKept
      <4>3. CASE Overplayed(r, a)
        BY <2>1, <2>3, <2>4, <3>1, <4>3 DEF Overplayed, Holds, PlayedOver, IsCancelled
      <4>. QED BY <4>1, <4>2, <4>3
    <3>2. CASE own[r][a] # None
      <4>1. own[r][a] = Own[r][a]
        BY <1>0, <2>4, <3>2 DEF SlotInv, SourceOK
      <4>2. CASE pc[r] = "owns"
        <5>1. todo[r][a] = None
          BY <1>0, <2>1, <2>2, <4>2 DEF Sent, LoopOver, Nothing
        <5>. QED BY <1>0, <2>1, <2>2, <3>2, <4>1, <4>2, <5>1 DEF SlotInv, OwnsOK, Holds
      <4>3. CASE pc[r] = "join"
        <5>1. Group[a] \in Groups /\ a \in Targets(r, Group[a])
          BY <1>0, <3>2 DEF Groups, Targets, Named
        <5>2. TaskEnded(r, Group[a]) /\ ShapeFits(r, Group[a], task[r][Group[a]])
          BY <2>1, <2>2, <4>3, <5>1 DEF Sent, TasksEnded, SlotInv, JoinOK
        <5>3. Past(a, task[r][Group[a]])
          BY <5>1, <5>2 DEF TaskEnded, ShapeFits, Past
        <5>. QED BY <1>0, <2>1, <2>2, <3>2, <4>1, <4>3, <5>3 DEF SlotInv, JoinOK, Holds
      <4>. QED BY <2>2, <4>2, <4>3
    <3>. QED BY <3>1, <3>2
  <2>. QED BY <2>3, <2>4, <2>5
<1>2. ASSUME pc[r] = "stamp" \/ (pc[r] = "commit" /\ ~IsCancelled(r)),
             desk' = desk, verdict'[r] = verdict[r]
      PROVE  /\ HasSnapshot(r) /\ verdict'[r] = "complete"
             /\ \A a \in Palette : Own[r][a] # None => Holds(a, Own[r][a])'
  BY <1>0, <1>2, HoldsKept DEF SlotInv, LandedSlots
<1>3. CASE CommitCheck(r)
  <2>1. pc[r] = "commit" /\ UNCHANGED <<desk, verdict>>
    BY <1>3 DEF CommitCheck, world
  <2>2. pc'[r] = IF epoch # ep[r] THEN "unplan" ELSE IF IsCancelled(r) THEN "wipe" ELSE "stamp"
    BY <1>0, <1>3 DEF CommitCheck, Goto
  <2>. QED BY <1>2, <2>1, <2>2
<1>4. CASE pc'[r] = pc[r]
  <2>1. Alone(r) /\ (pc[r] = "commit" => ~IsCancelled(r))
    <3>1. CASE pc[r] = "stamp"
      BY <3>1, FrontAlone DEF InPlay
    <3>2. CASE pc[r] = "commit"
      BY <1>4, <3>2, NewestStep DEF InPlay, Acting
    <3>. QED BY <1>4, <3>1, <3>2
  <2>2. ~Process(r)
    <3>1. ASSUME Process(r) PROVE CommitCheck(r) \/ CommitStore(r)
      BY <1>4, <3>1, StepOf
    <3>2. CommitCheck(r) => pc'[r] # "commit"
      BY <1>0 DEF CommitCheck, Goto
    <3>3. CommitStore(r) => pc'[r] = "unplan"
      BY <1>0 DEF CommitStore, Goto
    <3>4. CommitCheck(r) => pc[r] = "commit"
      BY DEF CommitCheck
    <3>. QED BY <1>4, <3>1, <3>2, <3>3, <3>4
  <2>3. ~Claim(r) /\ pc[r] # "forget"
    BY <1>4 DEF Claim
  <2>4. desk' = desk /\ verdict'[r] = verdict[r]
    BY <2>1, <2>2, <2>3, OthersStep
  <2>. QED BY <1>2, <1>4, <2>1, <2>4
<1>. QED BY <1>1, <1>3, <1>4, StepTo

\* A call moves on by a step of its own.
LEMMA OwnSteps ==
  ASSUME SlotInv, [Next]_vars, NEW r \in Recalls, pc'[r] # pc[r]
  PROVE  Claim(r) \/ Process(r)
<1>. USE SlotTypes DEF Goto
<1>0. pc \in [Recalls -> Labels]
  OBVIOUS
<1>1. ASSUME NEW q \in Recalls,
             \/ Claim(q) \/ Enqueue(q) \/ Enter(q) \/ LeaveSuperseded(q)
             \/ MarkInFlight(q) \/ FireMemory(q) \/ ForgetPalettes(q) \/ Settle(q)
             \/ LeaveRowOnly(q) \/ Resolve(q) \/ StartOwn(q) \/ Spawn(q)
      PROVE  q = r
  <2>1. \E l \in Labels : pc' = [pc EXCEPT ![q] = l]
    BY <1>1 DEF Claim, Enqueue, Enter, LeaveSuperseded, MarkInFlight, FireMemory,
                ForgetPalettes, Settle, LeaveRowOnly, Resolve, StartOwn, Spawn, Labels
  <2>. QED BY <1>0, <2>1
<1>2. ASSUME NEW q \in Recalls,
             \/ Judge(q) \/ CommitCheck(q) \/ CommitStore(q) \/ ClearPlan(q) \/ StoreUndo(q)
             \/ MarkLastRecalled(q) \/ Finish(q) \/ Leave(q) \/ TakeUndo(q) \/ StartRevert(q)
      PROVE  q = r
  <2>1. \E l \in Labels : pc' = [pc EXCEPT ![q] = l]
    BY <1>2 DEF Judge, CommitCheck, CommitStore, ClearPlan, StoreUndo, MarkLastRecalled, Finish,
                Leave, TakeUndo, StartRevert, Labels
  <2>. QED BY <1>0, <2>1
<1>3. ASSUME UNCHANGED control PROVE FALSE
  BY <1>3 DEF control
<1>. QED BY <1>1, <1>2, <1>3, NextControl DEF Process, Gated, Tail_, Undoing

\* A recall that renews the record goes on to do so, unless the record is gone.
LEMMA RenewsOn ==
  ASSUME SlotShow, SlotInv, [Next]_vars, NEW r \in Recalls, Renewing(r), ~CommitStore(r),
         lastSent' # Nothing
  PROVE  Renewing(r)'
<1>. USE SlotTypes
<1>0. pc \in [Recalls -> Labels]
  OBVIOUS
<1>1. CASE pc[r] = "forget"
  <2>1. ~ForgetPalettes(r)
    BY DEF ForgetPalettes
  <2>2. ~Process(r) /\ ~Claim(r)
    BY <1>1, <2>1, StepOf DEF Claim
  <2>. QED BY <1>1, <2>2, OwnSteps DEF Renewing
<1>2. CASE pc[r] # "forget"
  <2>1. ~IsCancelled(r) /\ pc[r] \in {"snaps", "owns", "join", "commit", "stamp"}
    BY <1>2 DEF Renewing
  <2>2. pc[r] \in InPlay \ {"forget"}
    BY <2>1 DEF InPlay, Acting
  <2>3. ~IsCancelled(r)'
    BY <2>1, SupersededNext DEF Marked
  <2>4. CASE pc'[r] = pc[r]
    BY <2>1, <2>3, <2>4 DEF Renewing
  <2>5. CASE StartOwn(r) \/ Spawn(r) \/ Judge(r)
    <3>1. pc'[r] \in {"owns", "join", "commit"}
      BY <1>0, <2>5 DEF StartOwn, Spawn, Judge, Goto
    <3>. QED BY <2>3, <3>1 DEF Renewing
  <2>6. CASE CommitCheck(r)
    <3>1. epoch = ep[r]
      BY <2>1, <2>2, NewestAlone
    <3>2. pc'[r] = "stamp"
      BY <1>0, <2>1, <2>6, <3>1 DEF CommitCheck, Goto
    <3>. QED BY <2>3, <3>2 DEF Renewing
  <2>7. CASE Tasks(r) \/ Transmit(r) \/ Reflect(r) \/ \E a \in Addr : Pick(r, a)
    <3>1. UNCHANGED pc
      BY <2>7, SureTask, SureTransmit DEF SlotShow, Reflect, Pick
    <3>. QED BY <2>4, <3>1
  <2>. QED BY <2>1, <2>2, <2>3, <2>4, <2>5, <2>6, <2>7, NewestStep, StepOf
<1>. QED BY <1>1, <1>2

\* Who sends while something is recorded is the recall that renews it.
LEMMA RecordNext == ASSUME SlotShow, SlotInv, StampsInTime, [Next]_vars PROVE RecordOK'
<1>. USE SlotTypes
<1>. SUFFICES ASSUME NEW a \in Palette, lastSent'[a] # None
              PROVE  Holds(a, lastSent[a])' \/ \E r \in Recalls : Renewing(r)'
  BY DEF RecordOK
<1>0. a \in Addr /\ pc \in [Recalls -> Labels] /\ lastSent' # Nothing
  BY AddrAssumption DEF Nothing
<1>1. CASE \E x \in Recalls : CommitStore(x) /\ pc[x] = "stamp"
  <2>1. PICK x \in Recalls : CommitStore(x) /\ pc[x] = "stamp"
    BY <1>1
  <2>2. /\ lastSent' = [b \in Addr |-> IF b \in Palette THEN Own[x][b] ELSE None]
        /\ UNCHANGED desk
    BY <2>1 DEF CommitStore, world
  <2>3. lastSent'[a] = Own[x][a]
    BY <1>0, <2>2
  <2>4. Holds(a, Own[x][a])
    BY <1>0, <2>1, <2>3 DEF SlotInv, LandedSlots
  <2>5. Holds(a, Own[x][a])'
    BY <1>0, <2>2, <2>4, HoldsKept
  <2>. QED BY <2>3, <2>5 DEF Holds, PlayedOver
<1>2. CASE ~(\E x \in Recalls : CommitStore(x) /\ pc[x] = "stamp")
  <2>1. lastSent' = lastSent
    BY <1>0, <1>2, RecordMoves
  <2>2. CASE \E r \in Recalls : Renewing(r)
    <3>1. PICK r \in Recalls : Renewing(r)
      BY <2>2
    <3>2. ~CommitStore(r)
      BY <1>2, <3>1 DEF CommitStore, Renewing
    <3>. QED BY <1>0, <3>1, <3>2, RenewsOn
  <2>3. CASE Holds(a, lastSent[a])
    <3>1. PICK v : v = lastSent[a]
      OBVIOUS
    <3>2. CASE desk'[a] = desk[a]
      <4>1. Holds(a, v)'
        BY <1>0, <2>3, <3>1, <3>2, HoldsKept DEF Holds, PlayedOver
      <4>. QED BY <2>1, <3>1, <4>1 DEF Holds, PlayedOver
    <3>3. CASE desk'[a] # desk[a]
      <4>1. PICK q \in Recalls : FireMemory(q) \/ Transmit(q) \/ Tasks(q)
        BY <3>3, DeskMoves
      <4>2. ~Loose(q)
        BY <1>0, <2>1 DEF SlotInv, LooseOK
      <4>3. CASE FireMemory(q)
        <5>1. pc'[q] = "forget"
          BY <1>0, <4>3 DEF FireMemory, Goto, SlotShow, TypeOK
        <5>. QED BY <5>1 DEF Renewing
      <4>4. CASE Transmit(q)
        <5>1. cur[q] # None /\ UNCHANGED <<pc, cancelled>>
          BY <4>4, SureTransmit DEF SlotShow
        <5>2. pc[q] \in {"snaps", "owns", "undoing"}
          BY <5>1 DEF SlotInv, IInv, LoopOK, Sending, PathOK, SlotShow
        <5>. QED BY <4>2, <5>1, <5>2 DEF Loose, Renewing, IsCancelled
      <4>5. CASE Tasks(q)
        <5>1. /\ UNCHANGED <<pc, cancelled>>
              /\ \E g \in Groups, t \in TaskState : TaskSends(q, g, t) \/ TaskMoves(q, g, t)
          BY <4>5, SureTask DEF SlotShow
        <5>2. PICK g \in Groups : task[q][g].st = "air"
          BY <3>3, <5>1 DEF TaskSends, TaskMoves
        <5>3. pc[q] = "join"
          BY <5>2 DEF SlotInv, IInv, TasksOK, TaskFits
        <5>. QED BY <4>2, <5>1, <5>2, <5>3 DEF Loose, Renewing, IsCancelled
      <4>. QED BY <4>1, <4>3, <4>4, <4>5
    <3>. QED BY <3>2, <3>3
  <2>. QED BY <1>0, <2>1, <2>2, <2>3 DEF SlotInv, RecordOK
<1>. QED BY <1>1, <1>2

\* At the start nothing is recorded and nobody sends.
LEMMA SlotInit == ASSUME Init PROVE SlotInv
<1>. USE DEF Init
<1>1. IInv /\ VerdictOK /\ TakeFirst
  BY IInvInit DEF VerdictOK, TakeFirst
<1>2. OrderOK /\ FrontOK /\ ReportOK
  BY DEF OrderOK, FrontOK, ReportOK, InPlay, Acting, Bracket
<1>3. SourceOK
  BY DEF SourceOK, NoPlan, Nothing
<1>4. LooseOK /\ SkippedOK /\ OwnsOK /\ JoinOK
  BY DEF LooseOK, SkippedOK, OwnsOK, JoinOK
<1>5. LandedSlots
  BY DEF LandedSlots
<1>6. \A a \in Palette : lastSent[a] = None
  BY AddrAssumption DEF Nothing
<1>. QED BY <1>1, <1>2, <1>3, <1>4, <1>5, <1>6 DEF SlotInv, RecordOK

\* Every step of such a show keeps the invariant, if no stamp comes late.
LEMMA SlotInvNext == ASSUME SlotShow, SlotInv, StampsInTime, [Next]_vars PROVE SlotInv'
<1>1. IInv' /\ VerdictOK' /\ TakeFirst'
  BY IInvNext, VerdictNext, TakeNext DEF SlotInv
<1>. QED BY <1>1, OrderNext, FrontNext, ReportNext, SourceNext, LooseNext, SkippedNext, OwnsNext,
            FadesNext, LandedSlotsNext, RecordNext DEF SlotInv

\* So it holds throughout.
LEMMA SlotInvAlways == ASSUME SlotShow PROVE Spec /\ []StampsInTime => []SlotInv
<1>1. Init => SlotInv
  BY SlotInit
<1>2. SlotInv /\ StampsInTime /\ [Next]_vars => SlotInv'
  BY SlotInvNext
<1>. QED BY <1>1, <1>2, PTL DEF Spec

\* A recall that resolves finds nobody who still sends, so that the record it skips
\* by tells the truth.
LEMMA SkipsNow ==
  ASSUME SlotShow, SlotInv, StampsInTime, [Next]_vars, NEW r \in Recalls,
         pc[r] = "resolve", pc'[r] = "snaps", NEW a \in Skipped(r)
  PROVE  desk[a] = Own[r][a] \/ PlayedOver(a, Own[r][a])
<1>. USE SlotTypes
<1>1. a \in Palette /\ lastSent[a] = Own[r][a] /\ Own[r][a] # None
  BY DEF Skipped
<1>2. Alone(r)
  BY FrontAlone DEF InPlay, Acting, Bracket
<1>3. ASSUME NEW x \in Recalls, Renewing(x) PROVE FALSE
  <2>1. x # r
    BY <1>3 DEF Renewing
  <2>2. pc[x] \notin Acting
    BY <1>2, <2>1 DEF Alone
  <2>3. ~IsCancelled(x) /\ pc[x] \in {"join", "commit", "stamp"}
    BY <1>3, <2>2 DEF Renewing, Acting
  <2>4. Alone(x)
    BY <2>3, NewestAlone DEF InPlay
  <2>. QED BY <2>1, <2>4 DEF Alone, Acting
<1>. QED BY <1>1, <1>3 DEF SlotInv, RecordOK, Holds

\* A slot is skipped only when the desk holds its palette already or a recall that
\* skipped it too played a superseded cue over it.
THEOREM SkipsAreSafe ==
  ASSUME SlotShow
  PROVE  Spec /\ []StampsInTime => SkipIsSafe
<1>. DEFINE Safe == \A r \in Recalls : pc[r] = "resolve" /\ pc'[r] = "snaps" =>
                      \A a \in Skipped(r) : desk[a] = Own[r][a] \/ PlayedOver(a, Own[r][a])
<1>1. SlotInv /\ StampsInTime /\ [Next]_vars => [Safe]_vars
  BY SkipsNow
<1>. QED BY <1>1, SlotInvAlways, PTL DEF Spec, SkipIsSafe

\* Where no recall fades none stamps outside the gate, and none comes late.
COROLLARY InstantSkipsAreSafe ==
  ASSUME SlotShow, \A r \in Recalls : Kind[r] # "timed"
  PROVE  Spec => SkipIsSafe
<1>1. StampsInTime
  BY DEF StampsInTime
<1>. QED BY <1>1, SkipsAreSafe, PTL

=============================================================================
