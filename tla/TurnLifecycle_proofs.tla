------------------------ MODULE TurnLifecycle_proofs ------------------------
(***************************************************************************)
(* Proofs about the turn lifecycle, for any number of turns, turn states   *)
(* and pieces of input.                                                    *)
(***************************************************************************)
EXTENDS TurnProperties, TLAPS

USE DEF Actors, Mail, Items, AllItems, turnVars, stateVars, queueVars, goalVars,
        actorVars, logVars

\* get_or_insert_with leaves an active turn that is a TurnState.
LEMMA GetOrInsertType ==
    ASSUME active \in TurnStates \cup {NoTurn}, fresh \subseteq TurnStates, GetOrInsert
    PROVE  /\ active' \in TurnStates /\ fresh' \subseteq TurnStates
           /\ active # NoTurn => active' = active
BY ConstantsAssumption DEF GetOrInsert, NewTurnState

\* A fresh sub-id is one that no task has used.
LEMMA NewSubIdType == ASSUME Unnamed # {} PROVE NewSubId \in Tasks /\ pc[NewSubId] = "new"
BY DEF NewSubId, Unnamed

USE DEF Running, Finishing, Starting, Aborting, Resting

\* What the type-correctness proof carries.
TypeInv == TypeOK /\ ActorsPrepared

USE DEF StartPcs

\* Type correctness.  TypeOK alone is not inductive: StartAdd needs a turn
\* context to add, AbortClear and FinishTake a turn state to empty.
THEOREM TypeCorrect == Spec => [](TypeOK /\ ActorsPrepared)
<1>1. Init => TypeInv
  <2> SUFFICES ASSUME Init PROVE TypeInv
    OBVIOUS
  <2>1. /\ pend \in [TurnStates -> SUBSET AllItems]
        /\ waiters \in [TurnStates -> SUBSET Tasks]
        /\ phase \in [TurnStates -> {"CurrentTurn", "NextTurn"}]
        /\ kind \in [Tasks -> {"Regular", "Compact"}]
    BY DEF Init
  <2>2. pc \in [Actors -> Running \cup Finishing \cup Starting \cup Aborting \cup Resting]
    BY DEF Init
  <2>3. /\ new \in [Actors -> Tasks \cup {NoTask}]
        /\ ts \in [Actors -> TurnStates \cup {NoTurn}]
        /\ held \in [Actors -> SUBSET AllItems]
        /\ victims \in [Actors -> SUBSET Tasks]
    BY DEF Init
  <2>4. events \in [Tasks -> Seq({"TurnStarted", "TurnComplete", "TurnAborted"})]
    BY DEF Init
  <2>5. goal \in BOOLEAN /\ closing \in BOOLEAN
    BY DEF Init
  <2> QED
    BY <2>1, <2>2, <2>3, <2>4, <2>5 DEF Init, TypeInv, TypeOK, ActorsPrepared, StartPcs
<1>2. TypeInv /\ [Next]_vars => TypeInv'
  <2> SUFFICES ASSUME TypeInv, [Next]_vars PROVE TypeInv'
    OBVIOUS
  <2>1. ASSUME NEW a \in Actors, StartStep(a) PROVE TypeInv'
    <3>1. CASE StartTake(a)
      BY <3>1 DEF StartTake, Goto, TypeInv, TypeOK, ActorsPrepared
    <3>2. CASE StartDrain(a)
      BY <3>2 DEF StartDrain, TakePending, TurnItems, Goto, TypeInv, TypeOK, ActorsPrepared
    <3>3. CASE StartMail(a)
      BY <3>3 DEF StartMail, DrainMailbox, Goto, TypeInv, TypeOK, ActorsPrepared
    <3>4. CASE StartTurn(a)
      BY <3>4, GetOrInsertType DEF StartTurn, Goto, TypeInv, TypeOK, ActorsPrepared
    <3>5. CASE StartExtend(a)
      BY <3>5 DEF StartExtend, Goto, TypeInv, TypeOK, ActorsPrepared
    <3>6. CASE StartAdd(a)
      <4>1. new[a] \in Tasks /\ active' \in TurnStates /\ fresh' \subseteq TurnStates
        BY <3>6, GetOrInsertType DEF StartAdd, TypeInv, TypeOK, ActorsPrepared
      <4>2. contLock' \in Actors \cup {NoTask}
        BY <3>6 DEF StartAdd, TypeInv, TypeOK
      <4>3. /\ pc' \in [Actors -> Running \cup Finishing \cup Starting \cup Aborting \cup Resting]
            /\ \A b \in Actors : pc'[b] \in StartPcs => b # a /\ pc[b] = pc'[b]
            /\ \A b \in Actors : pc'[b] \in {"abort_next", "abort_wait", "abort_clear", "finish_take"}
                  => pc[b] = pc'[b]
        BY <3>6, <4>1 DEF StartAdd, AfterWake, Rest, TypeInv, TypeOK
      <4>4. TypeOK'
        <5>1. tasks' \subseteq Tasks /\ new' \in [Actors -> Tasks \cup {NoTask}]
          BY <3>6, <4>1 DEF StartAdd, TypeInv, TypeOK
        <5>2. pc' \in [Actors -> Running \cup Finishing \cup Starting \cup Aborting \cup Resting]
          BY <4>3
        <5>3. UNCHANGED <<stateVars, queueVars, goal, ts, held, victims, kind,
                          cancelled, events, logVars, closing>>
          BY <3>6 DEF StartAdd
        <5> QED
          BY <4>1, <4>2, <5>1, <5>2, <5>3 DEF TypeInv, TypeOK
      <4>5. ActorsPrepared'
        BY <3>6, <4>1, <4>3, ConstantsAssumption DEF StartAdd, TypeInv, TypeOK, ActorsPrepared
      <4> QED
        BY <4>4, <4>5 DEF TypeInv
    <3>7. CASE WakeCheck(a)
      BY <3>7 DEF WakeCheck, Move, Goto, AfterWake, Rest, TypeInv, TypeOK, ActorsPrepared
    <3>8. CASE WakeReserve(a)
      <4>1. CASE Goto(a, AfterWake(a)) /\ UNCHANGED <<active, fresh, new, held, kind>>
        BY <3>8, <4>1 DEF WakeReserve, Goto, AfterWake, Rest, TypeInv, TypeOK, ActorsPrepared
      <4>2. CASE GetOrInsert /\ NameTask(a, "Regular", {}, "start_take")
        <5>1. NewSubId \in Tasks /\ pc[NewSubId] = "new" /\ active' \in TurnStates /\ fresh' \subseteq TurnStates
          BY <4>2, GetOrInsertType, NewSubIdType DEF NameTask, TypeInv, TypeOK
        <5> QED
          BY <3>8, <4>2, <5>1, ConstantsAssumption, ZenonT(60) DEF WakeReserve, NameTask, TypeInv, TypeOK, ActorsPrepared
      <4> QED
        BY <3>8, <4>1, <4>2 DEF WakeReserve
    <3> QED
      BY <2>1, <3>1, <3>2, <3>3, <3>4, <3>5, <3>6, <3>7, <3>8 DEF StartStep
  <2>2. ASSUME NEW a \in Actors, GoalStep(a) PROVE TypeInv'
    <3>1. CASE GoalLock(a)
      BY <3>1 DEF GoalLock, Goto, TypeInv, TypeOK, ActorsPrepared
    <3>2. CASE GoalCheck(a)
      <4>1. CASE Goto(a, "goal_reserve") /\ UNCHANGED contLock
        BY <3>2, <4>1 DEF GoalCheck, Goto, TypeInv, TypeOK, ActorsPrepared
      <4>2. CASE GoalReturn(a)
        BY <3>2, <4>2 DEF GoalCheck, GoalReturn, Goto, Rest, TypeInv, TypeOK, ActorsPrepared
      <4> QED
        BY <3>2, <4>1, <4>2 DEF GoalCheck
    <3>3. CASE GoalReserve(a)
      BY <3>3, GetOrInsertType DEF GoalReserve, GoalReturn, Goto, Rest, TypeInv, TypeOK, ActorsPrepared
    <3>4. CASE GoalReread(a)
      <4>1. CASE Move(a, "goal_extend")
        BY <4>1 DEF Move, Goto, TypeInv, TypeOK, ActorsPrepared
      <4>2. CASE Move(a, "goal_clear")
        BY <4>2 DEF Move, Goto, TypeInv, TypeOK, ActorsPrepared
      <4> QED
        BY <3>4, <4>1, <4>2 DEF GoalReread
    <3>5. CASE GoalExtend(a)
      BY <3>5 DEF GoalExtend, Goto, TypeInv, TypeOK, ActorsPrepared
    <3>6. CASE GoalConfirm(a)
      <4>1. CASE NameTask(a, "Regular", {}, "start_take") /\ ts' = [ts EXCEPT ![a] = NoTurn]
        <5>1. NewSubId \in Tasks /\ pc[NewSubId] = "new"
          BY <4>1, NewSubIdType DEF NameTask
        <5> QED
          BY <3>6, <4>1, <5>1, ConstantsAssumption, ZenonT(60) DEF GoalConfirm, NameTask, TypeInv, TypeOK, ActorsPrepared
      <4>2. CASE Goto(a, "goal_clear") /\ UNCHANGED <<new, ts, held, kind>>
        BY <3>6, <4>2 DEF GoalConfirm, Goto, TypeInv, TypeOK, ActorsPrepared
      <4> QED
        BY <3>6, <4>1, <4>2 DEF GoalConfirm
    <3>7. CASE GoalClear(a)
      BY <3>7 DEF GoalClear, GoalReturn, Goto, Rest, StillReserved, TypeInv, TypeOK, ActorsPrepared
    <3> QED
      BY <2>2, <3>1, <3>2, <3>3, <3>4, <3>5, <3>6, <3>7 DEF GoalStep
  <2>3. ASSUME NEW a \in Actors, AbortStep(a) PROVE TypeInv'
    <3>1. CASE AbortTake(a)
      BY <3>1 DEF AbortTake, Goto, Rest, TypeInv, TypeOK, ActorsPrepared
    <3>2. CASE AbortCancel(a)
      BY <3>2 DEF AbortCancel, Goto, TypeInv, TypeOK, ActorsPrepared
    <3>3. CASE AbortReport(a)
      <4> PICK v \in victims[a] \cap cancelled :
             /\ victims' = [victims EXCEPT ![a] = @ \ {v}]
             /\ pc' = [pc EXCEPT ![v] = IF @ = "done" THEN @ ELSE "killed",
                                 ![a] = IF victims[a] = {v} THEN "abort_clear" ELSE "abort_next"]
             /\ discarded' = discarded \cup held[v]
             /\ held' = [held EXCEPT ![v] = {}]
             /\ Send(v, "TurnAborted")
        BY <3>3 DEF AbortReport
      <4>1. v \in Tasks
        BY DEF TypeInv, TypeOK
      <4>2. events' \in [Tasks -> Seq({"TurnStarted", "TurnComplete", "TurnAborted"})]
        BY <4>1 DEF Send, TypeInv, TypeOK
      <4>3. /\ pc' \in [Actors -> Running \cup Finishing \cup Starting \cup Aborting \cup Resting]
            /\ \A b \in Actors : pc'[b] \in StartPcs \cup {"finish_take", "abort_wait"} => pc[b] = pc'[b]
            /\ \A b \in Actors : pc'[b] \in {"abort_next", "abort_clear"} => b = a \/ pc[b] = pc'[b]
        BY <4>1 DEF TypeInv, TypeOK
      <4>4. held' \in [Actors -> SUBSET AllItems] /\ discarded' \subseteq AllItems
        BY <4>1 DEF TypeInv, TypeOK
      <4>5. TypeOK'
        BY <3>3, <4>1, <4>2, <4>3, <4>4 DEF AbortReport, TypeInv, TypeOK
      <4>6. ActorsPrepared'
        BY <3>3, <4>3 DEF AbortReport, TypeInv, TypeOK, ActorsPrepared
      <4> QED
        BY <4>5, <4>6 DEF TypeInv
    <3>4. CASE AbortClear(a)
      BY <3>4 DEF AbortClear, Goto, TypeInv, TypeOK, ActorsPrepared
    <3> QED
      BY <2>3, <3>1, <3>2, <3>3, <3>4 DEF AbortStep
  <2>4. ASSUME NEW t \in Tasks, RunStep(t) PROVE TypeInv'
    <3>1. CASE RunStart(t)
      <4>1. PICK p \in {"pre", "flushed"} : pc' = [pc EXCEPT ![t] = p]
        BY <3>1 DEF RunStart, Goto
      <4>2. events' \in [Tasks -> Seq({"TurnStarted", "TurnComplete", "TurnAborted"})]
        BY <3>1 DEF RunStart, Send, TypeInv, TypeOK
      <4>3. held' \in [Actors -> SUBSET AllItems] /\ discarded' \subseteq AllItems
        <5>1. \/ UNCHANGED <<held, discarded>>
              \/ discarded' = discarded \cup held[t] /\ held' = [held EXCEPT ![t] = {}]
          BY <3>1 DEF RunStart
        <5>2. held \in [Actors -> SUBSET AllItems] /\ discarded \subseteq AllItems /\ t \in Actors
          BY DEF TypeInv, TypeOK, Actors
        <5> QED
          BY <5>1, <5>2
      <4>4. pc' \in [Actors -> Running \cup Finishing \cup Starting \cup Aborting \cup Resting]
        BY <4>1 DEF TypeInv, TypeOK
      <4>5. TypeOK'
        BY <3>1, <4>2, <4>3, <4>4 DEF RunStart, TypeInv, TypeOK
      <4>6. ActorsPrepared'
        BY <3>1, <4>1 DEF RunStart, TypeInv, TypeOK, ActorsPrepared
      <4> QED
        BY <4>5, <4>6 DEF TypeInv
    <3>2. CASE RunTurn(t)
      BY <3>2 DEF RunTurn, Goto, TypeInv, TypeOK, ActorsPrepared
    <3>3. CASE Drain(t)
      BY <3>3 DEF Drain, TakePending, TurnItems, Goto, TypeInv, TypeOK, ActorsPrepared
    <3>4. CASE DrainMail(t)
      BY <3>4 DEF DrainMail, DrainMailbox, Goto, TypeInv, TypeOK, ActorsPrepared
    <3>5. CASE Record(t)
      <4>1. CASE Goto(t, "sample")
        BY <3>5, <4>1 DEF Record, Goto, TypeInv, TypeOK, ActorsPrepared
      <4>2. CASE Goto(t, "again")
        BY <3>5, <4>2 DEF Record, Goto, TypeInv, TypeOK, ActorsPrepared
      <4> QED
        BY <3>5, <4>1, <4>2 DEF Record
    <3>6. CASE SampleReturn(t)
      BY <3>6 DEF SampleReturn, Move, Goto, TypeInv, TypeOK, ActorsPrepared
    <3>7. CASE DeferMailbox(t)
      BY <3>7 DEF DeferMailbox, TypeInv, TypeOK, ActorsPrepared
    <3>8. CASE AcceptMailbox(t)
      BY <3>8 DEF AcceptMailbox, TypeInv, TypeOK, ActorsPrepared
    <3>9. CASE RequestApproval(t)
      BY <3>9 DEF RequestApproval, Goto, TypeInv, TypeOK, ActorsPrepared
    <3>10. CASE ApprovalResolved(t)
      BY <3>10 DEF ApprovalResolved, Goto, TypeInv, TypeOK, ActorsPrepared
    <3>11. CASE CheckPending(t)
      <4>1. CASE Move(t, "drain")
        BY <3>11, <4>1 DEF CheckPending, Move, Goto, TypeInv, TypeOK, ActorsPrepared
      <4>2. CASE Move(t, "again")
        BY <3>11, <4>2 DEF CheckPending, Move, Goto, TypeInv, TypeOK, ActorsPrepared
      <4> QED
        BY <3>11, <4>1, <4>2 DEF CheckPending
    <3>12. CASE RunAgain(t)
      BY <3>12 DEF RunAgain, Move, Goto, TypeInv, TypeOK, ActorsPrepared
    <3>13. CASE TaskReturned(t)
      BY <3>13 DEF TaskReturned, Move, Goto, TypeInv, TypeOK, ActorsPrepared
    <3> QED
      BY <2>4, <3>1, <3>2, <3>3, <3>4, <3>5, <3>6, <3>7, <3>8, <3>9, <3>10, <3>11, <3>12, <3>13 DEF RunStep
  <2>5. ASSUME NEW t \in Tasks, FinishStep(t) PROVE TypeInv'
    <3>1. CASE FinishRemove(t)
      <4> tasks' \subseteq tasks
        BY <3>1 DEF FinishRemove
      <4>1. CASE tasks = {t} /\ ts' = [ts EXCEPT ![t] = active] /\ Goto(t, "finish_take")
        <5>1. active \in TurnStates
          BY <4>1 DEF TypeInv, TypeOK, ActorsPrepared
        <5> QED
          BY <3>1, <4>1, <5>1, ConstantsAssumption DEF FinishRemove, Goto, TypeInv, TypeOK, ActorsPrepared
      <4>2. CASE Goto(t, "complete") /\ UNCHANGED ts
        BY <3>1, <4>2 DEF FinishRemove, Goto, TypeInv, TypeOK, ActorsPrepared
      <4> QED
        BY <3>1, <4>1, <4>2 DEF FinishRemove
    <3>2. CASE FinishTake(t)
      BY <3>2 DEF FinishTake, Goto, TypeInv, TypeOK, ActorsPrepared
    <3>3. CASE FinishComplete(t)
      BY <3>3 DEF FinishComplete, Send, Goto, TypeInv, TypeOK, ActorsPrepared
    <3>4. CASE FinishClear(t)
      <4>1. /\ active' \in {active, NoTurn} /\ (tasks # {} => active' = active) /\ UNCHANGED tasks
            /\ ts' = [ts EXCEPT ![t] = NoTurn]
            /\ pc' = [pc EXCEPT ![t] = "wake_check"] \/ pc' = [pc EXCEPT ![t] = "done"]
        BY <3>4 DEF FinishClear, StillReserved, Goto
      <4>2. ActorsPrepared'
        <5>1. \A b \in Actors : b # t => pc'[b] = pc[b] /\ ts'[b] = ts[b] /\ new'[b] = new[b]
          BY <3>4, <4>1 DEF FinishClear, TypeInv, TypeOK
        <5>2. pc'[t] \in {"wake_check", "done"}
          BY <4>1 DEF TypeInv, TypeOK
        <5> QED
          BY <4>1, <5>1, <5>2 DEF TypeInv, ActorsPrepared
      <4>3. /\ active' \in TurnStates \cup {NoTurn} /\ ts' \in [Actors -> TurnStates \cup {NoTurn}]
            /\ pc' \in [Actors -> Running \cup Finishing \cup Starting \cup Aborting \cup Resting]
        BY <4>1 DEF TypeInv, TypeOK
      <4>4. TypeOK'
        BY <3>4, <4>3 DEF FinishClear, TypeInv, TypeOK
      <4> QED
        BY <4>2, <4>4 DEF TypeInv
    <3> QED
      BY <2>5, <3>1, <3>2, <3>3, <3>4 DEF FinishStep
  <2>6. ASSUME NEW t \in Tasks, ReviewerAbort(t) PROVE TypeInv'
    BY <2>6 DEF ReviewerAbort, Goto, TypeInv, TypeOK, ActorsPrepared
  <2>7. CASE LoopOp
    <3>1. ASSUME NEW i \in UserItems, UserInput(i) PROVE TypeInv'
      <4>1. CASE Steer(i) /\ UNCHANGED <<pc, new, held, kind>>
        BY <3>1, <4>1 DEF UserInput, Steer, Steerable, TypeInv, TypeOK, ActorsPrepared
      <4>2. CASE NameTask(Loop, "Regular", {i}, "abort_take") /\ UNCHANGED <<pend, phase>>
        BY <3>1, <4>2, NewSubIdType DEF UserInput, NameTask, TypeInv, TypeOK, ActorsPrepared
      <4> QED
        BY <3>1, <4>1, <4>2 DEF UserInput, Steer, Steerable
    <3>2. ASSUME NEW m \in Mail, ReceiveMail(m) PROVE TypeInv'
      BY <3>2, ConstantsAssumption DEF ReceiveMail, Goto, TypeInv, TypeOK, ActorsPrepared
    <3>3. ASSUME NEW i \in Notes, LoopInject(i) PROVE TypeInv'
      <4>1. CASE Inject(i) /\ UNCHANGED <<pc, held>>
        BY <3>3, <4>1 DEF LoopInject, Inject, TypeInv, TypeOK, ActorsPrepared
      <4>2. CASE active = NoTurn
        BY <3>3, <4>2 DEF LoopInject, Goto, Inject, TypeInv, TypeOK, ActorsPrepared
      <4> QED
        BY <3>3, <4>1, <4>2 DEF LoopInject, Inject
    <3>4. ASSUME NEW t \in Tasks, Approve(t) PROVE TypeInv'
      BY <3>4, ConstantsAssumption DEF Approve, TypeInv, TypeOK, ActorsPrepared
    <3>5. CASE QueueForNextTurn
      BY <3>5 DEF QueueForNextTurn, Goto, TypeInv, TypeOK, ActorsPrepared
    <3>6. CASE Compact
      BY <3>6, NewSubIdType DEF Compact, NameTask, TypeInv, TypeOK, ActorsPrepared
    <3>7. CASE Interrupt
      BY <3>7 DEF Interrupt, Move, Goto, TypeInv, TypeOK, ActorsPrepared
    <3>8. CASE Shutdown
      BY <3>8 DEF Shutdown, Goto, TypeInv, TypeOK, ActorsPrepared
    <3> QED
      BY <2>7, <3>1, <3>2, <3>3, <3>4, <3>5, <3>6, <3>7, <3>8 DEF LoopOp
  <2>8. CASE ClientOp
    <3>1. ASSUME NEW i \in UserItems, ClientSteer(i) PROVE TypeInv'
      BY <3>1, ConstantsAssumption DEF ClientSteer, Steer, Steerable, TypeInv, TypeOK, ActorsPrepared
    <3>2. ASSUME NEW i \in Notes, ClientInject(i) PROVE TypeInv'
      BY <3>2, ConstantsAssumption DEF ClientInject, Inject, TypeInv, TypeOK, ActorsPrepared
    <3>3. CASE SetGoal
      BY <3>3 DEF SetGoal, Goto, TypeInv, TypeOK, ActorsPrepared
    <3>4. CASE ClearGoal
      BY <3>4 DEF ClearGoal, TypeInv, TypeOK, ActorsPrepared
    <3> QED
      BY <2>8, <3>1, <3>2, <3>3, <3>4 DEF ClientOp
  <2>9. CASE UNCHANGED vars
    BY <2>9 DEF vars, TypeInv, TypeOK, ActorsPrepared
  <2> QED
    BY <2>1, <2>2, <2>3, <2>4, <2>5, <2>6, <2>7, <2>8, <2>9 DEF Next
<1>3. TypeInv => TypeOK /\ ActorsPrepared
  BY DEF TypeInv
<1> QED
  BY <1>1, <1>2, <1>3, PTL DEF Spec

-----------------------------------------------------------------------------
(* Ownership of tasks.  Most steps only move an actor; the three lemmas    *)
(* below deal with those, so that the theorem can concentrate on the steps *)
(* that hand a task over.                                                  *)

USE DEF Alive

\* Steps that touch none of the variables the invariant is about.
LEMMA UnrelatedStep ==
    ASSUME TypeOK, OwnInv, UNCHANGED <<active, tasks, pc, new, ts, victims, cancelled, events>>
    PROVE  OwnInv'
<1>1. \A b \in Tasks : Sent(b)' = Sent(b) /\ (Ended(b)' <=> Ended(b))
  BY DEF Sent, Ended
<1>2. RegisteredTasksLive' /\ NoSilentEnd' /\ AbortedIsFinal' /\ ApprovalReachable'
  BY <1>1 DEF OwnInv, RegisteredTasksLive, NoSilentEnd, AbortedIsFinal, ApprovalReachable, TypeOK
<1>3. NamedTasks' /\ DrainedTasks' /\ LiveTasksOwned'
  BY <1>1 DEF OwnInv, NamedTasks, DrainedTasks, LiveTasksOwned, TypeOK
<1> QED
  BY <1>2, <1>3 DEF OwnInv

\* A running task moves on inside its turn.
LEMMA RunningStep ==
    ASSUME TypeOK, OwnInv, NEW t \in Tasks, NEW p \in Alive,
           pc[t] \in Alive, pc' = [pc EXCEPT ![t] = p],
           UNCHANGED <<active, tasks, new, victims, cancelled, events>>,
           p # "approval" => ts' = [ts EXCEPT ![t] = NoTurn],
           p = "approval" => ts' = [ts EXCEPT ![t] = active]
    PROVE  OwnInv'
<1>1. /\ pc'[t] = p /\ \A b \in Actors : b # t => pc'[b] = pc[b] /\ ts'[b] = ts[b]
      /\ p # "approval" => ts'[t] = NoTurn
      /\ p = "approval" => ts'[t] = active
  BY DEF TypeOK
<1>2. \A b \in Tasks : Sent(b)' = Sent(b) /\ (Ended(b)' <=> Ended(b))
  BY DEF Sent, Ended
<1>3. RegisteredTasksLive' /\ ApprovalReachable'
  BY <1>1, <1>2 DEF OwnInv, RegisteredTasksLive, ApprovalReachable, TypeOK
<1>4. NoSilentEnd' /\ AbortedIsFinal'
  BY <1>1, <1>2 DEF OwnInv, NoSilentEnd, AbortedIsFinal
<1>5. NamedTasks'
  BY <1>1 DEF OwnInv, NamedTasks, TypeOK
<1>6. DrainedTasks'
  BY <1>1, <1>2 DEF OwnInv, DrainedTasks, TypeOK
<1>7. LiveTasksOwned'
  BY <1>1, <1>2 DEF OwnInv, LiveTasksOwned
<1> QED
  BY <1>3, <1>4, <1>5, <1>6, <1>7 DEF OwnInv

\* An actor moves on in the lifecycle code without handing a task over: a tail
\* that ends has reported its end, a turn is replaced only while it is empty.
Neutral == Starting \cup {"abort_take", "abort_clear", "clear", "idle", "queue_idle", "stopped"}

\* Such a step keeps every task with its owner.
LEMMA NeutralStep ==
    ASSUME TypeOK, OwnInv, NEW a \in Actors, NEW p,
           pc[a] \in Neutral, pc' = [pc EXCEPT ![a] = p],
           \/ p \in Starting \cup {"abort_clear", "abort_take"}
           \/ p = "done" /\ a \in Tasks
           \/ p \in {"idle", "queue_idle", "stopped"} /\ a \notin Tasks,
           new[a] # NoTask => p \in StartPcs \cup Aborting,
           p \in Aborting => a \notin Tasks,
           UNCHANGED <<tasks, new, victims, cancelled, events>>,
           tasks # {} => active' = active,
           \A b \in Actors : b # a => ts'[b] = ts[b]
    PROVE  OwnInv'
<1>1. pc'[a] = p /\ \A b \in Actors : b # a => pc'[b] = pc[b]
  BY DEF TypeOK
<1>2. \A b \in Tasks : Sent(b)' = Sent(b) /\ (Ended(b)' <=> Ended(b))
  BY DEF Sent, Ended
<1>3. pc[a] \notin Alive \cup {"new", "named", "done", "killed", "complete", "abort_next", "abort_wait"}
  BY DEF Neutral
<1>4. a \in Tasks => Ended(a)
  BY DEF OwnInv, LiveTasksOwned, Neutral
<1>5. RegisteredTasksLive' /\ ApprovalReachable'
  BY <1>1, <1>2, <1>3 DEF OwnInv, RegisteredTasksLive, ApprovalReachable, TypeOK
<1>6. NoSilentEnd'
  BY <1>1, <1>2, <1>4 DEF OwnInv, NoSilentEnd
<1>7. AbortedIsFinal'
  BY <1>1, <1>3 DEF OwnInv, AbortedIsFinal
<1>8. NamedTasks'
  BY <1>1, <1>3 DEF OwnInv, NamedTasks, TypeOK
<1>9. DrainedTasks'
  BY <1>1, <1>2, <1>3 DEF OwnInv, DrainedTasks, TypeOK
<1>10. LiveTasksOwned'
  BY <1>1, <1>2, <1>3, <1>4 DEF OwnInv, LiveTasksOwned
<1> QED
  BY <1>5, <1>6, <1>7, <1>8, <1>9, <1>10 DEF OwnInv

\* An idle actor names the turn it is going to start.
LEMMA NamingStep ==
    ASSUME TypeOK, ActorsPrepared, OwnInv, NEW a \in Actors, NEW k, NEW input, NEW p \in {"start_take", "abort_take"},
           pc[a] \in Starting \cup {"idle"}, new[a] = NoTask,
           NameTask(a, k, input, p),
           p = "abort_take" => a \notin Tasks,
           UNCHANGED <<tasks, victims, cancelled, events>>,
           tasks # {} => active' = active,
           \A b \in Actors : b # a => ts'[b] = ts[b]
    PROVE  OwnInv'
<1> DEFINE n == NewSubId
<1>1. n \in Tasks /\ pc[n] = "new" /\ n # a
  BY NewSubIdType DEF NameTask
<1>2. /\ pc'[a] = p /\ pc'[n] = "named" /\ new'[a] = n
      /\ \A b \in Actors : b # a /\ b # n => pc'[b] = pc[b]
      /\ \A b \in Actors : b # a => new'[b] = new[b]
  BY <1>1 DEF NameTask, TypeOK
<1> HIDE DEF n
<1>3. \A b \in Tasks : Sent(b)' = Sent(b) /\ (Ended(b)' <=> Ended(b))
  BY DEF Sent, Ended
<1>4. /\ a \in Tasks => Ended(a) /\ p = "start_take"
      /\ pc[a] \notin Alive \cup {"new", "named", "done", "killed", "complete", "abort_next", "abort_wait"}
  BY DEF OwnInv, LiveTasksOwned
<1>5. RegisteredTasksLive' /\ ApprovalReachable'
  <2>1. \A t \in tasks : t \in Tasks /\ pc'[t] = pc[t] /\ ts'[t] = ts[t]
    BY <1>1, <1>2, <1>4, ZenonT(60) DEF OwnInv, RegisteredTasksLive, TypeOK
  <2> QED
    BY <1>3, <2>1 DEF OwnInv, RegisteredTasksLive, ApprovalReachable
<1>6. NoSilentEnd'
  BY <1>1, <1>2, <1>3 DEF OwnInv, NoSilentEnd
<1>7. AbortedIsFinal'
  BY <1>1, <1>2 DEF OwnInv, AbortedIsFinal
<1>8. NamedTasks'
  <2>1. \A b \in Actors : new[b] # n
    BY <1>1, ConstantsAssumption DEF OwnInv, NamedTasks
  <2>2. ASSUME NEW b \in Actors, new'[b] # NoTask
        PROVE  pc'[new'[b]] = "named" /\ pc'[b] \in StartPcs \cup Aborting
    <3>1. CASE b = a
      BY <1>1, <1>2, <3>1
    <3>2. CASE b # a
      <4>1. new'[b] \in Tasks /\ pc[new[b]] = "named" /\ new'[b] = new[b]
        BY <1>2, <2>2, <3>2 DEF OwnInv, NamedTasks, TypeOK
      <4>2. new[b] # a /\ new[b] # n
        BY <1>1, <1>4, <4>1
      <4>3. pc[b] \in StartPcs \cup Aborting
        BY <2>2, <4>1 DEF OwnInv, NamedTasks
      <4>4. b # n
        BY <1>1, <4>3
      <4> QED
        BY <1>2, <3>2, <4>1, <4>2, <4>3, <4>4
    <3> QED
      BY <3>1, <3>2
  <2>3. \A b, c \in Actors : b # c /\ new'[b] # NoTask => new'[b] # new'[c]
    BY <1>1, <1>2, <2>1, ConstantsAssumption DEF OwnInv, NamedTasks
  <2>4. \A t \in Tasks : pc'[t] \in {"new", "named"} =>
            t \notin cancelled' /\ events'[t] = << >> /\ ts'[t] = NoTurn
    BY <1>1, <1>2, <1>4 DEF OwnInv, NamedTasks
  <2> QED
    BY <2>2, <2>3, <2>4 DEF NamedTasks
<1>9. DrainedTasks'
  <2>1. \A b \in Actors : \A t \in victims[b] : t \in Tasks /\ pc'[t] = pc[t] /\ ts'[t] = ts[t]
    <3> SUFFICES ASSUME NEW b \in Actors, NEW t \in victims[b]
                 PROVE  t \in Tasks /\ pc'[t] = pc[t] /\ ts'[t] = ts[t]
      OBVIOUS
    <3>1. t \in Tasks
      BY DEF TypeOK
    <3>2. pc[t] \in Alive \cup {"complete", "done"}
      BY DEF OwnInv, DrainedTasks
    <3>3. t # a /\ t # n
      BY <1>1, <1>4, <3>2
    <3> QED
      BY <1>2, <3>1, <3>3
  <2>2. \A b \in Actors : victims[b] # {} => pc'[b] = pc[b]
    BY <1>1, <1>2, <1>4 DEF OwnInv, DrainedTasks
  <2> QED
    BY <1>3, <2>1, <2>2 DEF OwnInv, DrainedTasks
<1>10. LiveTasksOwned'
  BY <1>1, <1>2, <1>3, <1>4 DEF OwnInv, LiveTasksOwned
<1> QED
  BY <1>5, <1>6, <1>7, <1>8, <1>9, <1>10 DEF OwnInv

\* send_event appends one event to the history of a turn.
LEMMA SendStep ==
    ASSUME TypeOK, NEW t \in Tasks, NEW e, Send(t, e)
    PROVE  /\ Len(events'[t]) = Len(events[t]) + 1 /\ events'[t][Len(events[t]) + 1] = e
           /\ \A i \in DOMAIN events'[t] : i = Len(events'[t]) \/ (i \in DOMAIN events[t] /\ events'[t][i] = events[t][i])
           /\ \A i \in DOMAIN events[t] : i \in DOMAIN events'[t] /\ events'[t][i] = events[t][i]
           /\ Sent(t)' = Sent(t) \cup {e}
           /\ \A u \in Tasks : u # t => events'[u] = events[u] /\ Sent(u)' = Sent(u)
<1>1. events'[t] = Append(events[t], e) /\ events[t] \in Seq({"TurnStarted", "TurnComplete", "TurnAborted"})
  BY DEF Send, TypeOK
<1>2. \A u \in Tasks : u # t => events'[u] = events[u]
  BY DEF Send, TypeOK
<1>3. /\ Len(events'[t]) = Len(events[t]) + 1 /\ events'[t][Len(events[t]) + 1] = e
      /\ \A i \in DOMAIN events'[t] : i = Len(events'[t]) \/ (i \in DOMAIN events[t] /\ events'[t][i] = events[t][i])
      /\ \A i \in DOMAIN events[t] : i \in DOMAIN events'[t] /\ events'[t][i] = events[t][i]
      /\ Len(events'[t]) \in DOMAIN events'[t]
  BY <1>1
<1>4. Sent(t)' = Sent(t) \cup {e}
  BY <1>3 DEF Sent
<1> QED
  BY <1>2, <1>3, <1>4 DEF Sent

\* start_task adds the turn it was given to the active turn.
LEMMA AddStep ==
    ASSUME TypeOK, ActorsPrepared, OwnInv, NEW a \in Actors, StartAdd(a)
    PROVE  OwnInv'
<1> PICK n \in Tasks : n = new[a]
  BY DEF StartAdd, TypeOK, ActorsPrepared
<1>1. n \in Tasks /\ pc[n] = "named" /\ n # a /\ active' \in TurnStates /\ (active # NoTurn => active' = active)
  BY GetOrInsertType DEF StartAdd, TypeOK, ActorsPrepared, OwnInv, NamedTasks
<1>2. /\ pc'[n] = "run" /\ \A b \in Actors : b # a /\ b # n => pc'[b] = pc[b]
      /\ pc'[a] = "goal_lock" \/ (a \in Tasks /\ pc'[a] = "done") \/ (a \notin Tasks /\ pc'[a] \in {"idle", "stopped"})
  BY <1>1 DEF StartAdd, AfterWake, Rest, TypeOK
<1>3. new'[a] = NoTask /\ \A b \in Actors : b # a => new'[b] = new[b]
  BY DEF StartAdd, TypeOK
<1>4. /\ tasks' = tasks \cup {n} /\ UNCHANGED <<ts, victims, cancelled, events>> /\ pc[a] = "start_add"
      /\ \A b \in Tasks : Sent(b)' = Sent(b) /\ (Ended(b)' <=> Ended(b))
  BY DEF StartAdd, Sent, Ended
<1>5. /\ n \notin cancelled /\ ts[n] = NoTurn /\ events[n] = << >> /\ Sent(n) = {} /\ ~Ended(n)
      /\ a \in Tasks => Ended(a)
  BY <1>1, <1>4 DEF OwnInv, NamedTasks, LiveTasksOwned, Sent, Ended
<1>6. \A t \in tasks : t \in Tasks /\ pc'[t] = pc[t] /\ t # n /\ t # a
  BY <1>1, <1>2, <1>4 DEF OwnInv, RegisteredTasksLive, TypeOK
<1>7. \A b \in Actors : \A t \in victims[b] : t \in Tasks /\ pc'[t] = pc[t] /\ t # n
  <2> SUFFICES ASSUME NEW b \in Actors, NEW t \in victims[b] PROVE t \in Tasks /\ pc'[t] = pc[t] /\ t # n
    OBVIOUS
  <2>1. t \in Tasks /\ pc[t] \in Alive \cup {"complete", "done"}
    BY DEF TypeOK, OwnInv, DrainedTasks
  <2> QED
    BY <1>1, <1>2, <1>4, <2>1
<1>8. RegisteredTasksLive'
  <2>1. ASSUME NEW t \in tasks PROVE active' # NoTurn /\ pc'[t] \in Alive /\ t \notin cancelled' /\ ~Ended(t)'
    BY <1>1, <1>4, <1>6, ConstantsAssumption DEF OwnInv, RegisteredTasksLive
  <2>2. active' # NoTurn /\ pc'[n] \in Alive /\ n \notin cancelled' /\ ~Ended(n)'
    BY <1>1, <1>2, <1>4, <1>5, ConstantsAssumption
  <2> QED
    BY <1>4, <2>1, <2>2 DEF RegisteredTasksLive
<1>9. ApprovalReachable'
  BY <1>1, <1>2, <1>4, <1>6 DEF OwnInv, ApprovalReachable, RegisteredTasksLive
<1>10. NoSilentEnd'
  BY <1>1, <1>2, <1>4, <1>5 DEF OwnInv, NoSilentEnd
<1>11. AbortedIsFinal'
  <2>1. \A t \in Tasks : t # n => pc'[t] = pc[t] \/ t = a
    BY <1>2
  <2> QED
    BY <1>1, <1>4, <1>5, <2>1 DEF OwnInv, AbortedIsFinal
<1>12. NamedTasks'
  <2>1. ASSUME NEW b \in Actors, new'[b] # NoTask
        PROVE  pc'[new'[b]] = "named" /\ pc'[b] \in StartPcs \cup Aborting
    <3>1. b # a /\ new'[b] = new[b] /\ pc[new[b]] = "named" /\ pc[b] \in StartPcs \cup Aborting /\ new[b] \in Tasks
      BY <1>3, <2>1 DEF OwnInv, NamedTasks, TypeOK
    <3>2. new[b] # n
      BY <2>1, <3>1 DEF OwnInv, NamedTasks
    <3>3. b # n /\ new[b] # a
      BY <1>1, <1>4, <3>1
    <3> QED
      BY <1>2, <3>1, <3>2, <3>3
  <2>2. \A b, c \in Actors : b # c /\ new'[b] # NoTask => new'[b] # new'[c]
    BY <1>3 DEF OwnInv, NamedTasks
  <2>3. \A t \in Tasks : pc'[t] \in {"new", "named"} =>
            t \notin cancelled' /\ events'[t] = << >> /\ ts'[t] = NoTurn
    BY <1>1, <1>2, <1>4 DEF OwnInv, NamedTasks
  <2> QED
    BY <2>1, <2>2, <2>3 DEF NamedTasks
<1>13. DrainedTasks'
  <2>1. \A b \in Actors : victims[b] # {} => pc'[b] = pc[b]
    BY <1>1, <1>2, <1>4 DEF OwnInv, DrainedTasks
  <2> QED
    BY <1>4, <1>7, <2>1 DEF OwnInv, DrainedTasks
<1>14. LiveTasksOwned'
  BY <1>1, <1>2, <1>4, <1>5 DEF OwnInv, LiveTasksOwned
<1> QED
  BY <1>8, <1>9, <1>10, <1>11, <1>12, <1>13, <1>14 DEF OwnInv

\* An aborter takes the active turn and every task in it.
LEMMA TakeStep ==
    ASSUME TypeOK, OwnInv, NEW a \in Actors, a \notin Tasks, pc[a] \in {"idle", "abort_take"},
           pc' = [pc EXCEPT ![a] = "abort_next"],
           tasks' = {}, victims' = [victims EXCEPT ![a] = tasks],
           UNCHANGED <<new, cancelled, events>>,
           \A b \in Actors : b # a => ts'[b] = ts[b]
    PROVE  OwnInv'
<1>1. pc'[a] = "abort_next" /\ \A b \in Actors : b # a => pc'[b] = pc[b]
  BY DEF TypeOK
<1>2. /\ victims'[a] = tasks /\ victims[a] = {} /\ \A b \in Actors : b # a => victims'[b] = victims[b]
  BY DEF TypeOK, OwnInv, DrainedTasks
<1>3. \A b \in Tasks : Sent(b)' = Sent(b) /\ (Ended(b)' <=> Ended(b)) /\ pc'[b] = pc[b] /\ ts'[b] = ts[b]
  BY <1>1 DEF Sent, Ended
<1>4. RegisteredTasksLive' /\ ApprovalReachable'
  BY DEF RegisteredTasksLive, ApprovalReachable
<1>5. NoSilentEnd' /\ AbortedIsFinal'
  BY <1>2, <1>3 DEF OwnInv, NoSilentEnd, AbortedIsFinal
<1>6. NamedTasks'
  BY <1>1, <1>3 DEF OwnInv, NamedTasks, TypeOK
<1>7. DrainedTasks'
  <2>1. \A b \in Actors : victims'[b] # {} => pc'[b] \in {"abort_next", "abort_wait"}
    BY <1>1, <1>2 DEF OwnInv, DrainedTasks
  <2>2. ASSUME NEW b \in Actors, NEW t \in victims'[b]
        PROVE  /\ t \notin tasks'
               /\ pc'[t] \in Alive \cup {"complete", "done"}
               /\ pc'[t] = "complete" => ts'[t] = NoTurn
               /\ "TurnAborted" \notin Sent(t)'
    <3>1. CASE b = a
      <4>1. t \in tasks /\ t \in Tasks
        BY <1>2, <3>1 DEF TypeOK
      <4> QED
        BY <1>3, <4>1 DEF OwnInv, RegisteredTasksLive, Ended
    <3>2. CASE b # a
      <4>1. t \in victims[b] /\ t \in Tasks
        BY <1>2, <3>2 DEF TypeOK
      <4> QED
        BY <1>3, <4>1 DEF OwnInv, DrainedTasks
    <3> QED
      BY <3>1, <3>2
  <2>3. \A b, c \in Actors : b # c => victims'[b] \cap victims'[c] = {}
    BY <1>2 DEF OwnInv, DrainedTasks
  <2> QED
    BY <2>1, <2>2, <2>3 DEF DrainedTasks
<1>8. LiveTasksOwned'
  BY <1>2, <1>3 DEF OwnInv, LiveTasksOwned
<1> QED
  BY <1>4, <1>5, <1>6, <1>7, <1>8 DEF OwnInv

\* handle_task_abort cancels the token of a drained task.
LEMMA CancelStep ==
    ASSUME TypeOK, OwnInv, NEW a \in Actors, AbortCancel(a)
    PROVE  OwnInv'
<1> PICK v \in victims[a] : cancelled' = cancelled \cup {v}
  BY DEF AbortCancel
<1>1. /\ pc[a] = "abort_next" /\ pc'[a] = "abort_wait" /\ a \notin Tasks
      /\ \A b \in Actors : b # a => pc'[b] = pc[b]
      /\ UNCHANGED <<active, tasks, new, ts, victims, events>>
  BY DEF AbortCancel, Goto, TypeOK, OwnInv, LiveTasksOwned
<1>2. v \in Tasks /\ v \notin tasks /\ pc[v] \in Alive \cup {"complete", "done"}
  BY DEF TypeOK, OwnInv, DrainedTasks
<1>3. \A b \in Tasks : Sent(b)' = Sent(b) /\ (Ended(b)' <=> Ended(b)) /\ pc'[b] = pc[b]
  BY <1>1 DEF Sent, Ended
<1>4. RegisteredTasksLive' /\ ApprovalReachable'
  BY <1>1, <1>2, <1>3 DEF OwnInv, RegisteredTasksLive, ApprovalReachable, TypeOK
<1>5. NoSilentEnd' /\ AbortedIsFinal'
  BY <1>1, <1>3 DEF OwnInv, NoSilentEnd, AbortedIsFinal
<1>6. NamedTasks'
  <2>1. \A t \in Tasks : pc'[t] \in {"new", "named"} => t \notin cancelled'
    BY <1>2, <1>3 DEF OwnInv, NamedTasks
  <2> QED
    BY <1>1, <1>3, <2>1 DEF OwnInv, NamedTasks, TypeOK
<1>7. DrainedTasks'
  <2>1. \A b \in Actors : \A t \in victims[b] : t \in Tasks
    BY DEF TypeOK
  <2> QED
    BY <1>1, <1>3, <2>1 DEF OwnInv, DrainedTasks
<1>8. LiveTasksOwned'
  BY <1>1, <1>3 DEF OwnInv, LiveTasksOwned
<1> QED
  BY <1>4, <1>5, <1>6, <1>7, <1>8 DEF OwnInv

\* handle_task_abort kills the task and reports it.
LEMMA ReportStep ==
    ASSUME TypeOK, OwnInv, NEW a \in Actors, AbortReport(a)
    PROVE  OwnInv'
<1> PICK v \in victims[a] \cap cancelled :
         /\ victims' = [victims EXCEPT ![a] = @ \ {v}]
         /\ pc' = [pc EXCEPT ![v] = IF @ = "done" THEN @ ELSE "killed",
                             ![a] = IF victims[a] = {v} THEN "abort_clear" ELSE "abort_next"]
         /\ Send(v, "TurnAborted")
  BY DEF AbortReport
<1>1. /\ pc[a] = "abort_wait" /\ a \notin Tasks /\ UNCHANGED <<active, tasks, new, ts, cancelled>>
  BY DEF AbortReport, OwnInv, LiveTasksOwned
<1>2. /\ v \in Tasks /\ v \notin tasks /\ pc[v] \in Alive \cup {"complete", "done"}
      /\ "TurnAborted" \notin Sent(v)
  BY DEF TypeOK, OwnInv, DrainedTasks
<1>3. /\ pc'[v] \in {"done", "killed"}
      /\ pc'[a] = IF victims[a] = {v} THEN "abort_clear" ELSE "abort_next"
      /\ \A b \in Actors : b # a /\ b # v => pc'[b] = pc[b]
  BY <1>1, <1>2 DEF TypeOK
<1>4. victims'[a] = victims[a] \ {v} /\ \A b \in Actors : b # a => victims'[b] = victims[b] /\ v \notin victims[b]
  BY DEF TypeOK, OwnInv, DrainedTasks
<1>5. /\ Sent(v)' = Sent(v) \cup {"TurnAborted"}
      /\ \A u \in Tasks : u # v => events'[u] = events[u] /\ Sent(u)' = Sent(u)
      /\ \A i \in DOMAIN events'[v] : i = Len(events'[v]) \/ (i \in DOMAIN events[v] /\ events'[v][i] = events[v][i])
  BY <1>2, SendStep
<1>5a. \A u \in Tasks : u # v => pc'[u] = pc[u]
  BY <1>1, <1>3
<1>6. Ended(v)' /\ \A u \in Tasks : u # v => (Ended(u)' <=> Ended(u))
  BY <1>5 DEF Ended
<1>7. RegisteredTasksLive' /\ ApprovalReachable'
  <2>1. \A t \in tasks : t \in Tasks /\ t # v
    BY <1>2 DEF TypeOK
  <2> QED
    BY <1>1, <1>5a, <1>6, <2>1 DEF OwnInv, RegisteredTasksLive, ApprovalReachable
<1>8. NoSilentEnd'
  <2>1. \A u \in Tasks : \A b \in Actors : u # v /\ u \in victims[b] => u \in victims'[b]
    BY <1>4
  <2> QED
    BY <1>5a, <1>6, <2>1 DEF OwnInv, NoSilentEnd
<1>9. AbortedIsFinal'
  <2>1. \A i \in DOMAIN events'[v] : events'[v][i] = "TurnAborted" => i = Len(events'[v])
    BY <1>2, <1>5 DEF Sent
  <2>2. ASSUME NEW u \in Tasks, NEW i \in DOMAIN events'[u], events'[u][i] = "TurnAborted"
        PROVE  i = Len(events'[u]) /\ pc'[u] \in {"done", "killed"}
    <3>1. CASE u = v
      BY <1>3, <2>1, <2>2, <3>1
    <3>2. CASE u # v
      <4>1. events'[u] = events[u] /\ pc'[u] = pc[u]
        BY <1>5, <1>5a, <3>2
      <4> QED
        BY <2>2, <4>1 DEF OwnInv, AbortedIsFinal
    <3> QED
      BY <3>1, <3>2
  <2> QED
    BY <2>2 DEF AbortedIsFinal
<1>10. NamedTasks'
  <2>1. ASSUME NEW b \in Actors, new'[b] # NoTask
        PROVE  pc'[new'[b]] = "named" /\ pc'[b] \in StartPcs \cup Aborting
    <3>1. new'[b] = new[b] /\ pc[new[b]] = "named" /\ pc[b] \in StartPcs \cup Aborting /\ new[b] \in Tasks
      BY <1>1, <2>1 DEF OwnInv, NamedTasks, TypeOK
    <3>2. b # v /\ new[b] # v /\ new[b] # a
      BY <1>1, <1>2, <3>1
    <3> QED
      BY <1>3, <3>1, <3>2
  <2>2. \A b, c \in Actors : b # c /\ new'[b] # NoTask => new'[b] # new'[c]
    BY <1>1 DEF OwnInv, NamedTasks
  <2>3. \A t \in Tasks : pc'[t] \in {"new", "named"} =>
            t \notin cancelled' /\ events'[t] = << >> /\ ts'[t] = NoTurn
    <3>1. \A t \in Tasks : pc'[t] \in {"new", "named"} => t # v
      BY <1>3
    <3> QED
      BY <1>1, <1>5, <1>5a, <3>1, ZenonT(60) DEF OwnInv, NamedTasks
  <2> QED
    BY <2>1, <2>2, <2>3 DEF NamedTasks
<1>11. DrainedTasks'
  <2>1. ASSUME NEW b \in Actors, victims'[b] # {} PROVE pc'[b] \in {"abort_next", "abort_wait"}
    <3>1. CASE b = a
      BY <1>3, <1>4, <2>1, <3>1
    <3>2. CASE b # a
      <4>1. victims[b] # {} /\ pc[b] \in {"abort_next", "abort_wait"}
        BY <1>4, <2>1, <3>2 DEF OwnInv, DrainedTasks
      <4> QED
        BY <1>2, <1>3, <3>2, <4>1
    <3> QED
      BY <3>1, <3>2
  <2>2. \A b \in Actors : \A t \in victims'[b] : t \in victims[b] /\ t # v /\ t \in Tasks
    BY <1>4 DEF TypeOK
  <2>3. \A b, c \in Actors : b # c => victims'[b] \cap victims'[c] = {}
    BY <2>2 DEF OwnInv, DrainedTasks
  <2>4. \A b \in Actors : \A t \in victims'[b] :
          /\ t \notin tasks'
          /\ pc'[t] \in Alive \cup {"complete", "done"}
          /\ pc'[t] = "complete" => ts'[t] = NoTurn
          /\ "TurnAborted" \notin Sent(t)'
    <3> SUFFICES ASSUME NEW b \in Actors, NEW t \in victims'[b]
                 PROVE  /\ t \notin tasks
                        /\ pc'[t] \in Alive \cup {"complete", "done"}
                        /\ pc'[t] = "complete" => ts[t] = NoTurn
                        /\ "TurnAborted" \notin Sent(t)'
      BY <1>1
    <3>1. t \in victims[b] /\ t # v /\ t \in Tasks
      BY <2>2
    <3>2. pc'[t] = pc[t] /\ Sent(t)' = Sent(t)
      BY <1>5, <1>5a, <3>1
    <3> QED
      BY <3>1, <3>2 DEF OwnInv, DrainedTasks
  <2> QED
    BY <2>1, <2>3, <2>4 DEF DrainedTasks
<1>12. LiveTasksOwned'
  <2>1. \A u \in Tasks : \A b \in Actors : u # v /\ u \in victims[b] => u \in victims'[b]
    BY <1>4
  <2> QED
    BY <1>1, <1>2, <1>3, <1>5a, <1>6, <2>1, ZenonT(60) DEF OwnInv, LiveTasksOwned
<1> QED
  BY <1>7, <1>8, <1>9, <1>10, <1>11, <1>12 DEF OwnInv

\* The tokio task of a turn reports its start or its end, or leaves the turn:
\* it owns none of the other tasks, and an aborter that holds it still does.
LEMMA LeavingStep ==
    ASSUME TypeOK, OwnInv, NEW t \in Tasks, NEW p \in Running \cup Finishing \cup {"done"},
           pc[t] \in Alive \cup {"finish_take", "complete"}, pc' = [pc EXCEPT ![t] = p],
           UNCHANGED <<active, new, victims, cancelled>>,
           tasks' \subseteq tasks, tasks \ {t} \subseteq tasks',
           t \in tasks' => p \in Running,
           p \in Running => pc[t] \in Running /\ t \notin (tasks \ tasks') /\ ts'[t] = NoTurn /\ p # "approval",
           p # "finish",
           \A b \in Actors : b # t => ts'[b] = ts[b],
           \A b \in Tasks : b # t => events'[b] = events[b],
           "TurnAborted" \notin Sent(t)', ~Ended(t) /\ p \in Running => ~Ended(t)',
           p = "clear" => Ended(t)',
           (\E b \in Actors : t \in victims[b]) =>
               p \in Running \cup {"done"} \/ (p = "complete" /\ ts'[t] = NoTurn),
           p = "done" => Ended(t)' \/ \E b \in Actors : t \in victims[b]
    PROVE  OwnInv'
<1>1. pc'[t] = p /\ \A b \in Actors : b # t => pc'[b] = pc[b]
  BY DEF TypeOK
<1>2. \A b \in Tasks : b # t => Sent(b)' = Sent(b) /\ (Ended(b)' <=> Ended(b))
  BY DEF Sent, Ended
<1>3. RegisteredTasksLive' /\ ApprovalReachable'
  BY <1>1, <1>2 DEF OwnInv, RegisteredTasksLive, ApprovalReachable, TypeOK
<1>4. NoSilentEnd'
  BY <1>1, <1>2 DEF OwnInv, NoSilentEnd
<1>5. AbortedIsFinal'
  <2>1. \A i \in DOMAIN events'[t] : events'[t][i] # "TurnAborted"
    BY DEF Sent
  <2> QED
    BY <1>1, <2>1 DEF OwnInv, AbortedIsFinal
<1>6. NamedTasks'
  BY <1>1 DEF OwnInv, NamedTasks, TypeOK
<1>7. DrainedTasks'
  <2>1. \A b \in Actors : victims[b] # {} => pc'[b] = pc[b]
    BY <1>1 DEF OwnInv, DrainedTasks
  <2>2. ASSUME NEW b \in Actors, NEW u \in victims[b]
        PROVE  /\ u \notin tasks'
               /\ pc'[u] \in Alive \cup {"complete", "done"}
               /\ pc'[u] = "complete" => ts'[u] = NoTurn
               /\ "TurnAborted" \notin Sent(u)'
    <3>1. u \in Tasks /\ u \notin tasks
      BY DEF TypeOK, OwnInv, DrainedTasks
    <3>2. CASE u = t
      BY <1>1, <3>1, <3>2
    <3>3. CASE u # t
      BY <1>1, <1>2, <3>1, <3>3 DEF OwnInv, DrainedTasks
    <3> QED
      BY <3>2, <3>3
  <2> QED
    BY <2>1, <2>2 DEF OwnInv, DrainedTasks
<1>8. LiveTasksOwned'
  BY <1>1, <1>2 DEF OwnInv, LiveTasksOwned
<1> QED
  BY <1>3, <1>4, <1>5, <1>6, <1>7, <1>8 DEF OwnInv

\* OwnInv is an invariant: every step of the session hands each task from one
\* owner to the next.
LEMMA OwnInvariant == Spec => []OwnInv
<1>1. Init => OwnInv
  <2> SUFFICES ASSUME Init PROVE OwnInv
    OBVIOUS
  <2>1. \A t \in Tasks : pc[t] = "new" /\ events[t] = << >> /\ ts[t] = NoTurn
    BY DEF Init
  <2>2. \A a \in Actors : pc[a] \in {"new", "idle"} /\ new[a] = NoTask /\ victims[a] = {}
    BY DEF Init
  <2>3. RegisteredTasksLive /\ NoSilentEnd /\ AbortedIsFinal /\ ApprovalReachable
    BY <2>1 DEF Init, RegisteredTasksLive, NoSilentEnd, AbortedIsFinal, ApprovalReachable
  <2>4. NamedTasks /\ DrainedTasks /\ LiveTasksOwned
    BY <2>1, <2>2 DEF Init, NamedTasks, DrainedTasks, LiveTasksOwned
  <2> QED
    BY <2>3, <2>4 DEF OwnInv
<1>2. TypeOK /\ ActorsPrepared /\ OwnInv /\ [Next]_vars => OwnInv'
  <2> SUFFICES ASSUME TypeOK, ActorsPrepared, OwnInv, [Next]_vars PROVE OwnInv'
    OBVIOUS
  <2>0. \A a \in Actors : new[a] # NoTask => pc[a] \in StartPcs \cup Aborting
    BY DEF OwnInv, NamedTasks
  <2>1. ASSUME NEW a \in Actors, StartStep(a) PROVE OwnInv'
    <3>1. CASE StartTake(a)
      BY <3>1, NeutralStep DEF StartTake, Goto, Neutral
    <3>2. CASE StartDrain(a)
      BY <3>2, NeutralStep DEF StartDrain, TakePending, Goto, Neutral
    <3>3. CASE StartMail(a)
      BY <3>3, NeutralStep DEF StartMail, DrainMailbox, Goto, Neutral
    <3>4. CASE StartTurn(a)
      <4>1. tasks # {} => active' = active
        BY <3>4, GetOrInsertType DEF StartTurn, TypeOK, ActorsPrepared
      <4>2. \A b \in Actors : b # a => ts'[b] = ts[b]
        BY <3>4 DEF StartTurn, TypeOK
      <4> QED
        BY <3>4, <4>1, <4>2, NeutralStep DEF StartTurn, Goto, Neutral
    <3>5. CASE StartExtend(a)
      <4>1. \A b \in Actors : b # a => ts'[b] = ts[b]
        BY <3>5 DEF StartExtend, TypeOK
      <4> QED
        BY <3>5, <4>1, NeutralStep DEF StartExtend, Goto, Neutral
    <3>6. CASE StartAdd(a)
      BY <3>6, AddStep
    <3>7. CASE WakeCheck(a)
      BY <2>0, <3>7, NeutralStep DEF WakeCheck, Move, Goto, AfterWake, Rest, Neutral
    <3>8. CASE WakeReserve(a)
      <4>0. new[a] = NoTask /\ pc[a] = "wake_reserve"
        BY <2>0, <3>8 DEF WakeReserve
      <4>1. CASE Goto(a, AfterWake(a)) /\ UNCHANGED <<active, fresh, new, held, kind>>
        BY <3>8, <4>0, <4>1, NeutralStep DEF WakeReserve, Goto, AfterWake, Rest, Neutral
      <4>2. CASE active = NoTurn /\ GetOrInsert /\ NameTask(a, "Regular", {}, "start_take")
        <5>1. tasks = {}
          BY <4>2 DEF ActorsPrepared
        <5> QED
          BY <3>8, <4>0, <4>2, <5>1, NamingStep DEF WakeReserve
      <4> QED
        BY <3>8, <4>1, <4>2 DEF WakeReserve
    <3> QED
      BY <2>1, <3>1, <3>2, <3>3, <3>4, <3>5, <3>6, <3>7, <3>8 DEF StartStep
  <2>2. ASSUME NEW a \in Actors, GoalStep(a) PROVE OwnInv'
    <3>0. new[a] = NoTask /\ pc[a] \in Starting
      BY <2>0, <2>2 DEF GoalStep, GoalLock, GoalCheck, GoalReserve, GoalReread, GoalExtend, GoalConfirm, GoalClear
    <3>1. CASE GoalLock(a)
      BY <3>0, <3>1, NeutralStep DEF GoalLock, Goto, Neutral
    <3>2. CASE GoalCheck(a)
      <4>1. pc' = [pc EXCEPT ![a] = "goal_reserve"] \/ pc' = [pc EXCEPT ![a] = Rest(a)]
        BY <3>2 DEF GoalCheck, GoalReturn, Goto
      <4> QED
        BY <3>0, <3>2, <4>1, NeutralStep DEF GoalCheck, Rest, Neutral
    <3>3. CASE GoalReserve(a)
      <4>1. tasks # {} => active' = active
        BY <3>3 DEF GoalReserve, ActorsPrepared
      <4>2. \A b \in Actors : b # a => ts'[b] = ts[b]
        BY <3>3 DEF GoalReserve, TypeOK
      <4>3. pc' = [pc EXCEPT ![a] = "goal_reread"] \/ pc' = [pc EXCEPT ![a] = Rest(a)]
        BY <3>3 DEF GoalReserve, GoalReturn, Goto
      <4> QED
        BY <3>0, <3>3, <4>1, <4>2, <4>3, NeutralStep DEF GoalReserve, Rest, Neutral
    <3>4. CASE GoalReread(a)
      BY <3>0, <3>4, NeutralStep DEF GoalReread, Move, Goto, Neutral
    <3>5. CASE GoalExtend(a)
      BY <3>0, <3>5, NeutralStep DEF GoalExtend, Goto, Neutral
    <3>6. CASE GoalConfirm(a)
      <4>1. CASE NameTask(a, "Regular", {}, "start_take") /\ ts' = [ts EXCEPT ![a] = NoTurn]
        <5>1. \A b \in Actors : b # a => ts'[b] = ts[b]
          BY <4>1 DEF TypeOK
        <5> QED
          BY <3>0, <3>6, <4>1, <5>1, NamingStep DEF GoalConfirm
      <4>2. CASE Goto(a, "goal_clear") /\ UNCHANGED <<new, ts, held, kind>>
        BY <3>0, <3>6, <4>2, NeutralStep DEF GoalConfirm, Goto, Neutral
      <4> QED
        BY <3>6, <4>1, <4>2 DEF GoalConfirm
    <3>7. CASE GoalClear(a)
      <4>1. tasks # {} => active' = active
        BY <3>7 DEF GoalClear, StillReserved
      <4>2. \A b \in Actors : b # a => ts'[b] = ts[b]
        BY <3>7 DEF GoalClear, TypeOK
      <4> QED
        BY <3>0, <3>7, <4>1, <4>2, NeutralStep DEF GoalClear, GoalReturn, Goto, Rest, Neutral
    <3> QED
      BY <2>2, <3>1, <3>2, <3>3, <3>4, <3>5, <3>6, <3>7 DEF GoalStep
  <2>3. ASSUME NEW a \in Actors, AbortStep(a) PROVE OwnInv'
    <3>0. a \notin Tasks
      BY <2>3 DEF AbortStep, AbortTake, AbortCancel, AbortReport, AbortClear, OwnInv, LiveTasksOwned
    <3>1. CASE AbortTake(a)
      <4>1. \A b \in Actors : b # a => ts'[b] = ts[b]
        BY <3>1 DEF AbortTake, TypeOK
      <4>2. CASE tasks # {}
        BY <3>0, <3>1, <4>1, <4>2, TakeStep DEF AbortTake, Goto
      <4>3. CASE tasks = {}
        <5>1. victims[a] = {} /\ UNCHANGED victims
          BY <3>1, <4>3 DEF AbortTake, OwnInv, DrainedTasks, TypeOK
        <5> QED
          BY <3>0, <3>1, <4>1, <4>3, <5>1, NeutralStep DEF AbortTake, Goto, Rest, Neutral
      <4> QED
        BY <4>2, <4>3
    <3>2. CASE AbortCancel(a)
      BY <3>2, CancelStep
    <3>3. CASE AbortReport(a)
      BY <3>3, ReportStep
    <3>4. CASE AbortClear(a)
      <4>1. \A b \in Actors : b # a => ts'[b] = ts[b]
        BY <3>4 DEF AbortClear, TypeOK
      <4> QED
        BY <3>0, <3>4, <4>1, NeutralStep DEF AbortClear, Goto, Neutral
    <3> QED
      BY <2>3, <3>1, <3>2, <3>3, <3>4 DEF AbortStep
  <2>4. ASSUME NEW t \in Tasks, RunStep(t) PROVE OwnInv'
    <3>0. /\ pc[t] \in Alive \ {"approval"} => ts[t] = NoTurn /\ [ts EXCEPT ![t] = NoTurn] = ts
          /\ pc[t] \in Alive => "TurnAborted" \notin Sent(t)
      <4>1. pc[t] \in Alive \ {"approval"} => ts[t] = NoTurn
        BY DEF OwnInv, LiveTasksOwned
      <4>2. ts[t] = NoTurn => [ts EXCEPT ![t] = NoTurn] = ts
        BY DEF TypeOK
      <4>3. pc[t] \in Alive => "TurnAborted" \notin Sent(t)
        BY DEF OwnInv, AbortedIsFinal, Sent
      <4> QED
        BY <4>1, <4>2, <4>3
    <3>1. CASE RunStart(t)
      <4>1. pc[t] = "run" /\ \E p \in {"pre", "flushed"} : pc' = [pc EXCEPT ![t] = p]
        BY <3>1 DEF RunStart, Goto
      <4>2. Sent(t)' = Sent(t) \cup {"TurnStarted"} /\ \A u \in Tasks : u # t => events'[u] = events[u]
        BY <3>1, SendStep DEF RunStart
      <4>3. "TurnAborted" \notin Sent(t)' /\ (~Ended(t) => ~Ended(t)')
        BY <3>0, <4>1, <4>2 DEF Ended
      <4>4. ASSUME NEW p \in {"pre", "flushed"}, pc' = [pc EXCEPT ![t] = p] PROVE OwnInv'
        BY <3>0, <3>1, <4>1, <4>2, <4>3, <4>4, LeavingStep DEF RunStart
      <4> QED
        BY <4>1, <4>4
    <3>2. CASE RunTurn(t)
      <4>1. \E p \in {"drain", "sample", "again"} : pc' = [pc EXCEPT ![t] = p]
        BY <3>2 DEF RunTurn, Goto
      <4> QED
        BY <3>0, <3>2, <4>1, RunningStep DEF RunTurn
    <3>3. CASE Drain(t)
      BY <3>0, <3>3, RunningStep DEF Drain, TakePending, Goto
    <3>4. CASE DrainMail(t)
      BY <3>0, <3>4, RunningStep DEF DrainMail, DrainMailbox, Goto
    <3>5. CASE Record(t)
      <4>1. \E p \in {"sample", "again"} : pc' = [pc EXCEPT ![t] = p]
        BY <3>5 DEF Record, Goto
      <4> QED
        BY <3>0, <3>5, <4>1, RunningStep DEF Record
    <3>6. CASE SampleReturn(t)
      BY <3>0, <3>6, RunningStep DEF SampleReturn, Move, Goto
    <3>7. CASE DeferMailbox(t)
      BY <3>7, UnrelatedStep DEF DeferMailbox
    <3>8. CASE AcceptMailbox(t)
      BY <3>8, UnrelatedStep DEF AcceptMailbox
    <3>9. CASE RequestApproval(t)
      BY <3>9, RunningStep DEF RequestApproval, Goto
    <3>10. CASE ApprovalResolved(t)
      BY <3>10, RunningStep DEF ApprovalResolved, Goto
    <3>11. CASE CheckPending(t)
      <4>1. \E p \in {"drain", "again"} : Move(t, p)
        BY <3>11 DEF CheckPending
      <4> QED
        BY <3>0, <3>11, <4>1, RunningStep DEF CheckPending, Move, Goto
    <3>12. CASE RunAgain(t)
      BY <3>0, <3>12, RunningStep DEF RunAgain, Move, Goto
    <3>13. CASE TaskReturned(t)
      <4>1. CASE t \in cancelled
        <5>1. t \notin tasks /\ \E b \in Actors : t \in victims[b]
          BY <3>13, <4>1 DEF TaskReturned, OwnInv, RegisteredTasksLive, LiveTasksOwned
        <5>2. Sent(t)' = Sent(t) /\ (Ended(t)' <=> Ended(t))
          BY <3>13 DEF TaskReturned, Move, Sent, Ended
        <5> QED
          BY <3>0, <3>13, <4>1, <5>1, <5>2, LeavingStep DEF TaskReturned, Move, Goto
      <4>2. CASE t \notin cancelled
        BY <3>0, <3>13, <4>2, RunningStep DEF TaskReturned, Move, Goto
      <4> QED
        BY <4>1, <4>2
    <3> QED
      BY <2>4, <3>1, <3>2, <3>3, <3>4, <3>5, <3>6, <3>7, <3>8, <3>9, <3>10, <3>11, <3>12, <3>13 DEF RunStep
  <2>5. ASSUME NEW t \in Tasks, FinishStep(t) PROVE OwnInv'
    <3>0. pc[t] \in Alive \cup {"finish_take", "complete"} => "TurnAborted" \notin Sent(t)
      BY DEF OwnInv, AbortedIsFinal, Sent
    <3>1. CASE FinishRemove(t)
      <4>0. Sent(t)' = Sent(t) /\ (Ended(t)' <=> Ended(t)) /\ pc[t] = "finish" /\ ts[t] = NoTurn
        BY <3>1 DEF FinishRemove, Sent, Ended, OwnInv, LiveTasksOwned
      <4>1. CASE tasks = {t} /\ ts' = [ts EXCEPT ![t] = active] /\ Goto(t, "finish_take")
        <5>1. ~\E b \in Actors : t \in victims[b]
          BY <4>1 DEF OwnInv, DrainedTasks
        <5>2. \A b \in Actors : b # t => ts'[b] = ts[b]
          BY <4>1 DEF TypeOK
        <5> QED
          BY <3>0, <3>1, <4>0, <4>1, <5>1, <5>2, LeavingStep DEF FinishRemove, Goto
      <4>2. CASE Goto(t, "complete") /\ UNCHANGED ts
        BY <3>0, <3>1, <4>0, <4>2, LeavingStep DEF FinishRemove, Goto
      <4> QED
        BY <3>1, <4>1, <4>2 DEF FinishRemove
    <3>2. CASE FinishTake(t)
      <4>1. Sent(t)' = Sent(t) /\ (Ended(t)' <=> Ended(t)) /\ pc[t] = "finish_take"
        BY <3>2 DEF FinishTake, Sent, Ended
      <4>2. t \notin tasks /\ ~\E b \in Actors : t \in victims[b]
        BY <4>1 DEF OwnInv, RegisteredTasksLive, DrainedTasks
      <4> QED
        BY <3>0, <3>2, <4>1, <4>2, LeavingStep DEF FinishTake, Goto
    <3>3. CASE FinishComplete(t)
      <4>1. Sent(t)' = Sent(t) \cup {"TurnComplete"} /\ \A u \in Tasks : u # t => events'[u] = events[u]
        BY <3>3, SendStep DEF FinishComplete
      <4>2. pc[t] = "complete" /\ Ended(t)' /\ "TurnAborted" \notin Sent(t)'
        BY <3>0, <3>3, <4>1 DEF FinishComplete, Ended
      <4>3. t \notin tasks /\ ((\E b \in Actors : t \in victims[b]) => ts[t] = NoTurn)
        BY <4>2 DEF OwnInv, RegisteredTasksLive, DrainedTasks
      <4> QED
        BY <3>3, <4>1, <4>2, <4>3, LeavingStep DEF FinishComplete, Goto
    <3>4. CASE FinishClear(t)
      <4>1. tasks # {} => active' = active
        BY <3>4 DEF FinishClear, StillReserved
      <4>2. \A b \in Actors : b # t => ts'[b] = ts[b]
        BY <3>4 DEF FinishClear, TypeOK
      <4>3. \E p \in {"wake_check", "done"} : pc' = [pc EXCEPT ![t] = p]
        BY <3>4 DEF FinishClear, Goto
      <4> QED
        BY <2>0, <3>4, <4>1, <4>2, <4>3, NeutralStep DEF FinishClear, Neutral
    <3> QED
      BY <2>5, <3>1, <3>2, <3>3, <3>4 DEF FinishStep
  <2>6. ASSUME NEW t \in Tasks, ReviewerAbort(t) PROVE OwnInv'
    <3>1. \A b \in Actors : b # Reviewer => ts'[b] = ts[b]
      BY <2>6 DEF ReviewerAbort, TypeOK
    <3> QED
      BY <2>6, <3>1, TakeStep, ConstantsAssumption DEF ReviewerAbort, Goto
  <2>7. CASE LoopOp
    <3>0. Loop \in Actors /\ Loop \notin Tasks /\ (pc[Loop] \in {"idle", "queue_idle"} => new[Loop] = NoTask)
      BY <2>0, ConstantsAssumption
    <3>1. ASSUME NEW i \in UserItems, UserInput(i) PROVE OwnInv'
      <4>1. CASE Steer(i) /\ UNCHANGED <<pc, new, held, kind>>
        BY <3>1, <4>1, UnrelatedStep DEF UserInput
      <4>2. CASE NameTask(Loop, "Regular", {i}, "abort_take") /\ UNCHANGED <<pend, phase>>
        BY <3>0, <3>1, <4>2, NamingStep DEF UserInput
      <4> QED
        BY <3>1, <4>1, <4>2 DEF UserInput
    <3>2. ASSUME NEW m \in Mail, ReceiveMail(m) PROVE OwnInv'
      BY <3>0, <3>2, NeutralStep DEF ReceiveMail, Goto, Neutral
    <3>3. ASSUME NEW i \in Notes, LoopInject(i) PROVE OwnInv'
      <4>1. CASE Inject(i) /\ UNCHANGED <<pc, held>>
        BY <3>3, <4>1, UnrelatedStep DEF LoopInject
      <4>2. CASE Goto(Loop, "queue_idle")
        BY <3>0, <3>3, <4>2, NeutralStep DEF LoopInject, Goto, Neutral
      <4> QED
        BY <3>3, <4>1, <4>2 DEF LoopInject
    <3>4. ASSUME NEW t \in Tasks, Approve(t) PROVE OwnInv'
      BY <3>4, UnrelatedStep DEF Approve
    <3>5. CASE QueueForNextTurn
      BY <3>0, <3>5, NeutralStep DEF QueueForNextTurn, Goto, Neutral
    <3>6. CASE Compact
      BY <3>0, <3>6, NamingStep DEF Compact
    <3>7. CASE Interrupt
      BY <3>0, <3>7, NeutralStep DEF Interrupt, Move, Goto, Neutral
    <3>8. CASE Shutdown
      BY <3>0, <3>8, NeutralStep DEF Shutdown, Goto, Neutral
    <3> QED
      BY <2>7, <3>1, <3>2, <3>3, <3>4, <3>5, <3>6, <3>7, <3>8 DEF LoopOp
  <2>8. CASE ClientOp
    <3>1. ASSUME NEW i \in UserItems, ClientSteer(i) PROVE OwnInv'
      BY <3>1, UnrelatedStep DEF ClientSteer
    <3>2. ASSUME NEW i \in Notes, ClientInject(i) PROVE OwnInv'
      BY <3>2, UnrelatedStep DEF ClientInject
    <3>3. CASE SetGoal
      <4>1. Client \in Actors /\ Client \notin Tasks /\ (pc[Client] = "idle" => new[Client] = NoTask)
        BY <2>0, ConstantsAssumption
      <4> QED
        BY <3>3, <4>1, NeutralStep DEF SetGoal, Goto, Neutral
    <3>4. CASE ClearGoal
      BY <3>4, UnrelatedStep DEF ClearGoal
    <3> QED
      BY <2>8, <3>1, <3>2, <3>3, <3>4 DEF ClientOp
  <2>9. CASE UNCHANGED vars
    BY <2>9, UnrelatedStep DEF vars
  <2> QED
    BY <2>1, <2>2, <2>3, <2>4, <2>5, <2>6, <2>7, <2>8, <2>9 DEF Next
<1> QED
  BY <1>1, <1>2, TypeCorrect, PTL DEF Spec

\* RegisteredTasksLive, NoSilentEnd, AbortedIsFinal and ApprovalReachable for
\* any number of turns and any interleaving of starts, aborts, finishes and
\* approvals: a task is in the active turn, or drained by exactly one aborter,
\* or finishing by itself, and whoever has it reports its end.
THEOREM Ownership ==
    Spec => [](RegisteredTasksLive /\ NoSilentEnd /\ AbortedIsFinal /\ ApprovalReachable)
<1>1. OwnInv => RegisteredTasksLive /\ NoSilentEnd /\ AbortedIsFinal /\ ApprovalReachable
  BY DEF OwnInv
<1> QED
  BY <1>1, OwnInvariant, PTL

\* The whole inductive invariant, as the run turns_goals checks it: no actor's
\* lifecycle code meets a state that another has made impossible to handle.
THEOREM Invariance == Spec => []IndInv
<1>1. TypeOK /\ ActorsPrepared /\ OwnInv => IndInv
  BY DEF IndInv
<1> QED
  BY <1>1, TypeCorrect, OwnInvariant, PTL

\* HandOff: no step drops a running task from the active turn.  Only
\* on_task_finished, take_active_turn and abort_turn_if_active remove tasks.
THEOREM HandOffHolds == Spec => HandOff
<1> DEFINE Step == \A t \in tasks \ tasks' :
                      \/ pc[t] = "finish" /\ pc'[t] \in {"finish_take", "complete"}
                      \/ \E a \in Actors : t \in victims'[a]
<1>1. TypeOK /\ [Next]_vars => [Step]_vars
  <2> SUFFICES ASSUME TypeOK, Next PROVE Step
    OBVIOUS
  <2>1. CASE tasks \subseteq tasks'
    BY <2>1
  <2>2. ASSUME NEW a \in Actors, AbortTake(a) PROVE Step
    <3>1. victims'[a] = tasks
      BY <2>2 DEF AbortTake, TypeOK
    <3> QED
      BY <3>1
  <2>3. ASSUME NEW t \in Tasks, ReviewerAbort(t) PROVE Step
    <3>1. victims'[Reviewer] = tasks
      BY <2>3 DEF ReviewerAbort, TypeOK
    <3> QED
      BY <3>1
  <2>4. ASSUME NEW t \in Tasks, FinishRemove(t) PROVE Step
    <3>1. tasks \ tasks' \subseteq {t} /\ pc[t] = "finish"
      BY <2>4 DEF FinishRemove
    <3>2. pc'[t] \in {"finish_take", "complete"}
      BY <2>4 DEF FinishRemove, Goto, TypeOK
    <3> QED
      BY <3>1, <3>2
  <2>5. ASSUME NEW a \in Actors, StartStep(a) \/ GoalStep(a) PROVE tasks \subseteq tasks'
    BY <2>5 DEF StartStep, StartTake, StartDrain, StartMail, StartTurn, StartExtend, StartAdd,
         WakeCheck, WakeReserve, GoalStep, GoalLock, GoalCheck, GoalReserve, GoalReread,
         GoalExtend, GoalConfirm, GoalClear, Move
  <2>6. ASSUME NEW a \in Actors, AbortStep(a) PROVE tasks \subseteq tasks' \/ AbortTake(a)
    BY <2>6 DEF AbortStep, AbortCancel, AbortReport, AbortClear
  <2>7. ASSUME NEW t \in Tasks, RunStep(t) PROVE tasks \subseteq tasks'
    BY <2>7 DEF RunStep, RunStart, RunTurn, Drain, DrainMail, Record, SampleReturn, DeferMailbox,
         AcceptMailbox, RequestApproval, ApprovalResolved, CheckPending, RunAgain, TaskReturned, Move
  <2>8. ASSUME NEW t \in Tasks, FinishStep(t) PROVE tasks \subseteq tasks' \/ FinishRemove(t)
    BY <2>8 DEF FinishStep, FinishTake, FinishComplete, FinishClear
  <2>9. CASE LoopOp \/ ClientOp
    <3>1. tasks \subseteq tasks'
      BY <2>9 DEF LoopOp, UserInput, ReceiveMail, LoopInject, Approve, QueueForNextTurn, Compact,
           Interrupt, Shutdown, Move, ClientOp, ClientSteer, ClientInject, SetGoal, ClearGoal
    <3> QED
      BY <2>1, <3>1
  <2> QED
    BY <2>1, <2>2, <2>3, <2>4, <2>5, <2>6, <2>7, <2>8, <2>9 DEF Next
<1> QED
  BY <1>1, TypeCorrect, PTL DEF Spec, HandOff

-----------------------------------------------------------------------------
(* Sessions in which only the submission loop starts turns.                *)

\* In such a session a step of an actor that adds no task keeps SoloInv.
LEMMA SoloMove ==
    ASSUME TypeOK, SoloInv, NEW a \in Actors, NEW p,
           pc' = [pc EXCEPT ![a] = p], UNCHANGED <<tasks, new, idle>>,
           p \notin {"wake_reserve", "goal_reserve", "goal_reread", "goal_extend",
                    "goal_confirm", "goal_clear", "queue_idle"},
           p \in StartPcs => a = Loop,
           a = Loop /\ p \in StartPcs \cup {"abort_next", "abort_wait", "abort_clear"} =>
               pc[a] \in StartPcs \cup {"abort_next", "abort_wait", "abort_clear"}
    PROVE  SoloInv'
<1>1. pc'[a] = p /\ \A b \in Actors : b # a => pc'[b] = pc[b]
  BY DEF TypeOK
<1> QED
  BY <1>1 DEF SoloInv, AtMostOneTask

\* Its inductive invariant: only the submission loop adds tasks, and to a turn
\* that it has emptied.
LEMMA SoloInvariant == ASSUME Solo PROVE Spec => []SoloInv
<1>1. Init => SoloInv
  BY ConstantsAssumption DEF Init, SoloInv, AtMostOneTask
<1>2. TypeOK /\ ActorsPrepared /\ SoloInv /\ [Next]_vars => SoloInv'
  <2> SUFFICES ASSUME TypeOK, ActorsPrepared, SoloInv, [Next]_vars PROVE SoloInv'
    OBVIOUS
  <2>0. ~PendingWork
    BY DEF PendingWork, SoloInv, Solo
  <2>1. ASSUME NEW a \in Actors, StartStep(a) PROVE SoloInv'
    <3>1. CASE StartTake(a)
      <4>1. idle' = idle /\ a = Loop
        BY <3>1 DEF StartTake, SoloInv
      <4> QED
        BY <3>1, <4>1, SoloMove DEF StartTake, Goto
    <3>2. CASE StartDrain(a)
      <4>1. a = Loop
        BY <3>2 DEF StartDrain, SoloInv
      <4> QED
        BY <3>2, <4>1, SoloMove DEF StartDrain, TakePending, Goto
    <3>3. CASE StartMail(a)
      <4>1. a = Loop
        BY <3>3 DEF StartMail, SoloInv
      <4> QED
        BY <3>3, <4>1, SoloMove DEF StartMail, DrainMailbox, Goto
    <3>4. CASE StartTurn(a)
      <4>1. a = Loop
        BY <3>4 DEF StartTurn, SoloInv
      <4> QED
        BY <3>4, <4>1, SoloMove DEF StartTurn, Goto
    <3>5. CASE StartExtend(a)
      <4>1. a = Loop
        BY <3>5 DEF StartExtend, SoloInv
      <4> QED
        BY <3>5, <4>1, SoloMove DEF StartExtend, Goto
    <3>6. CASE StartAdd(a)
      <4>1. a = Loop /\ tasks = {} /\ new[a] \in Tasks /\ new[a] # Loop
        BY <3>6, ConstantsAssumption DEF StartAdd, SoloInv, ActorsPrepared, TypeOK
      <4>2. /\ pc'[Loop] \in {"idle", "stopped"} /\ pc'[new[a]] = "run"
            /\ \A b \in Actors : b # Loop /\ b # new[a] => pc'[b] = pc[b]
        BY <3>6, <4>1, ConstantsAssumption DEF StartAdd, AfterWake, Rest, TypeOK
      <4>3. \A b \in Actors \ {Loop} : new'[b] = new[b]
        BY <3>6, <4>1 DEF StartAdd, TypeOK
      <4>4. tasks' = {new[a]} /\ idle' = idle
        BY <3>6, <4>1 DEF StartAdd
      <4> QED
        BY <4>1, <4>2, <4>3, <4>4 DEF SoloInv, AtMostOneTask
    <3>7. CASE WakeCheck(a)
      <4>1. pc[a] = "wake_check" /\ pc' = [pc EXCEPT ![a] = AfterWake(a)]
        BY <2>0, <3>7 DEF WakeCheck, Move, Goto
      <4>2. AfterWake(a) \in {"goal_lock", "done", "stopped", "idle"}
        BY DEF AfterWake, Rest
      <4> QED
        BY <3>7, <4>1, <4>2, SoloMove DEF WakeCheck, Move
    <3>8. CASE WakeReserve(a)
      BY <3>8 DEF WakeReserve, SoloInv
    <3> QED
      BY <2>1, <3>1, <3>2, <3>3, <3>4, <3>5, <3>6, <3>7, <3>8 DEF StartStep
  <2>2. ASSUME NEW a \in Actors, GoalStep(a) PROVE SoloInv'
    <3>1. CASE GoalLock(a)
      BY <3>1, SoloMove DEF GoalLock, Goto
    <3>2. CASE GoalCheck(a)
      <4>1. pc' = [pc EXCEPT ![a] = Rest(a)] /\ Rest(a) \in {"done", "stopped", "idle"}
        BY <3>2 DEF GoalCheck, GoalReturn, Goto, Rest, Solo
      <4> QED
        BY <3>2, <4>1, SoloMove DEF GoalCheck
    <3>3. CASE GoalReserve(a) \/ GoalReread(a) \/ GoalExtend(a) \/ GoalConfirm(a) \/ GoalClear(a)
      BY <3>3 DEF GoalReserve, GoalReread, GoalExtend, GoalConfirm, GoalClear, SoloInv
    <3> QED
      BY <2>2, <3>1, <3>2, <3>3 DEF GoalStep
  <2>3. ASSUME NEW a \in Actors, AbortStep(a) PROVE SoloInv'
    <3>1. CASE AbortTake(a)
      <4>1. \A b \in Actors : b # a => pc'[b] = pc[b]
        BY <3>1 DEF AbortTake, Goto, TypeOK
      <4>2. pc'[a] \in {"abort_next", "done", "stopped", "idle"} \/ (pc'[a] = "start_take" /\ new[a] # NoTask)
        BY <3>1 DEF AbortTake, Goto, Rest, TypeOK
      <4>3. tasks' = {} /\ UNCHANGED <<new, idle>>
        BY <3>1 DEF AbortTake
      <4> QED
        BY <4>1, <4>2, <4>3 DEF SoloInv, AtMostOneTask
    <3>2. CASE AbortCancel(a)
      BY <3>2, SoloMove DEF AbortCancel, Goto
    <3>3. CASE AbortReport(a)
      <4> PICK v \in victims[a] :
             pc' = [pc EXCEPT ![v] = IF @ = "done" THEN @ ELSE "killed",
                              ![a] = IF victims[a] = {v} THEN "abort_clear" ELSE "abort_next"]
        BY <3>3 DEF AbortReport
      <4>1. v \in Tasks /\ v # Loop
        BY ConstantsAssumption DEF TypeOK
      <4>2. \A b \in Actors : pc'[b] = pc[b] \/ pc'[b] \in {"done", "killed"} \/ (b = a /\ pc'[b] \in {"abort_clear", "abort_next"})
        BY <4>1 DEF TypeOK
      <4>3. pc[a] = "abort_wait" /\ UNCHANGED <<tasks, new, idle>>
        BY <3>3 DEF AbortReport
      <4> QED
        BY <4>2, <4>3 DEF SoloInv, AtMostOneTask
    <3>4. CASE AbortClear(a)
      <4>1. new[a] # NoTask => a = Loop
        BY DEF SoloInv
      <4> QED
        BY <3>4, <4>1, SoloMove DEF AbortClear, Goto
    <3> QED
      BY <2>3, <3>1, <3>2, <3>3, <3>4 DEF AbortStep
  <2>4. ASSUME NEW t \in Tasks, RunStep(t) PROVE SoloInv'
    <3>0. t # Loop
      BY ConstantsAssumption
    <3>1. CASE UNCHANGED pc
      BY <2>4, <3>1 DEF RunStep, RunStart, RunTurn, Drain, DrainMail, Record, SampleReturn, DeferMailbox,
         AcceptMailbox, RequestApproval, ApprovalResolved, CheckPending, RunAgain, TaskReturned, Move,
         TakePending, DrainMailbox, SoloInv, AtMostOneTask
    <3>2. CASE \E p \in Running \cup {"finish", "done"} : pc' = [pc EXCEPT ![t] = p]
      <4>1. UNCHANGED <<tasks, new, idle>>
        BY <2>4 DEF RunStep, RunStart, RunTurn, Drain, DrainMail, Record, SampleReturn, DeferMailbox,
         AcceptMailbox, RequestApproval, ApprovalResolved, CheckPending, RunAgain, TaskReturned, Move
      <4> QED
        BY <3>0, <3>2, <4>1, SoloMove
    <3>3. UNCHANGED pc \/ \E p \in Running \cup {"finish", "done"} : pc' = [pc EXCEPT ![t] = p]
      <4>1. CASE RunStart(t) \/ RunTurn(t) \/ Record(t)
        BY <4>1 DEF RunStart, RunTurn, Record, Goto
      <4>2. CASE Drain(t) \/ DrainMail(t) \/ DeferMailbox(t) \/ AcceptMailbox(t) \/ RequestApproval(t) \/ ApprovalResolved(t)
        BY <4>2 DEF Drain, DrainMail, TakePending, DrainMailbox, DeferMailbox, AcceptMailbox,
           RequestApproval, ApprovalResolved, Goto
      <4>3. CASE SampleReturn(t) \/ CheckPending(t) \/ RunAgain(t) \/ TaskReturned(t)
        BY <4>3 DEF SampleReturn, CheckPending, RunAgain, TaskReturned, Move, Goto
      <4> QED
        BY <2>4, <4>1, <4>2, <4>3 DEF RunStep
    <3> QED
      BY <3>1, <3>2, <3>3
  <2>5. ASSUME NEW t \in Tasks, FinishStep(t) PROVE SoloInv'
    <3>0. t # Loop
      BY ConstantsAssumption
    <3>1. \E p \in {"finish_take", "complete", "done", "clear", "wake_check"} : pc' = [pc EXCEPT ![t] = p]
      BY <2>5 DEF FinishStep, FinishRemove, FinishTake, FinishComplete, FinishClear, Goto
    <3>2. tasks' \subseteq tasks /\ UNCHANGED <<new, idle>>
      BY <2>5 DEF FinishStep, FinishRemove, FinishTake, FinishComplete, FinishClear
    <3>3. \A b \in Actors : b # t => pc'[b] = pc[b]
      BY <3>1 DEF TypeOK
    <3>4. pc'[t] \in {"finish_take", "complete", "done", "clear", "wake_check"}
      BY <3>1 DEF TypeOK
    <3> QED
      BY <3>0, <3>2, <3>3, <3>4 DEF SoloInv, AtMostOneTask
  <2>6. ASSUME NEW t \in Tasks, ReviewerAbort(t) PROVE SoloInv'
    <3>1. pc'[Reviewer] = "abort_next" /\ Reviewer # Loop /\ \A b \in Actors : b # Reviewer => pc'[b] = pc[b]
      BY <2>6, ConstantsAssumption DEF ReviewerAbort, Goto, TypeOK
    <3>2. tasks' = {} /\ UNCHANGED <<new, idle>>
      BY <2>6 DEF ReviewerAbort
    <3> QED
      BY <3>1, <3>2 DEF SoloInv, AtMostOneTask
  <2>7. CASE LoopOp
    <3>0. ASSUME NEW k, NEW input, NameTask(Loop, k, input, "abort_take"), UNCHANGED <<tasks, idle>> PROVE SoloInv'
      <4>1. NewSubId \in Tasks /\ NewSubId # Loop
        BY <3>0, NewSubIdType, ConstantsAssumption DEF NameTask
      <4>2. /\ pc'[Loop] = "abort_take" /\ pc'[NewSubId] = "named"
            /\ \A b \in Actors : b # Loop /\ b # NewSubId => pc'[b] = pc[b]
            /\ \A b \in Actors \ {Loop} : new'[b] = new[b]
        BY <3>0, <4>1 DEF NameTask, TypeOK
      <4> QED
        BY <3>0, <4>1, <4>2 DEF SoloInv, AtMostOneTask
    <3>1. ASSUME NEW i \in UserItems, UserInput(i) PROVE SoloInv'
      <4>1. CASE UNCHANGED <<pc, new, held, kind>>
        BY <3>1, <4>1 DEF UserInput, SoloInv, AtMostOneTask
      <4>2. CASE NameTask(Loop, "Regular", {i}, "abort_take")
        BY <3>0, <3>1, <4>2 DEF UserInput
      <4> QED
        BY <3>1, <4>1, <4>2 DEF UserInput
    <3>2. ASSUME NEW m \in Mail, ReceiveMail(m) PROVE SoloInv'
      BY <3>2, SoloMove DEF ReceiveMail, Goto
    <3>3. ASSUME NEW i \in Notes, LoopInject(i) PROVE SoloInv'
      BY <3>3 DEF Solo
    <3>4. ASSUME NEW t \in Tasks, Approve(t) PROVE SoloInv'
      BY <3>4 DEF Approve, SoloInv, AtMostOneTask
    <3>5. CASE QueueForNextTurn
      BY <3>5 DEF QueueForNextTurn, SoloInv
    <3>6. CASE Compact
      BY <3>0, <3>6 DEF Compact
    <3>7. CASE Interrupt
      BY <3>7, SoloMove DEF Interrupt, Move, Goto
    <3>8. CASE Shutdown
      BY <3>8, SoloMove DEF Shutdown, Goto
    <3> QED
      BY <2>7, <3>1, <3>2, <3>3, <3>4, <3>5, <3>6, <3>7, <3>8 DEF LoopOp
  <2>8. CASE ClientOp
    <3>1. UNCHANGED <<pc, new, tasks, idle>>
      BY <2>8 DEF ClientOp, ClientSteer, ClientInject, SetGoal, ClearGoal, Solo
    <3> QED
      BY <3>1 DEF SoloInv, AtMostOneTask
  <2>9. CASE UNCHANGED vars
    BY <2>9 DEF vars, SoloInv, AtMostOneTask
  <2> QED
    BY <2>1, <2>2, <2>3, <2>4, <2>5, <2>6, <2>7, <2>8, <2>9 DEF Next
<1> QED
  BY <1>1, <1>2, TypeCorrect, PTL DEF Spec

\* AtMostOneTask, for a session without mail that triggers turns, injected
\* notes and goals: spawn_task, called from the submission loop alone, has
\* emptied the active turn before start_task adds to it.
THEOREM SoloOneTask == ASSUME Solo PROVE Spec => []AtMostOneTask
<1>1. SoloInv => AtMostOneTask
  BY DEF SoloInv
<1> QED
  BY <1>1, SoloInvariant, PTL
-----------------------------------------------------------------------------
(* Where a piece of input is.                                              *)

\* A step that moves no input.
LEMMA InputStays ==
    ASSUME NEW i, OnePlace(i), UNCHANGED <<held, pend, mailbox, idle, todo, consumed, discarded>>
    PROVE  OnePlace(i)'
BY DEF OnePlace

\* start_task and get_pending_input: an actor takes what is in a queue or in a
\* turn, or puts what it holds into a turn.
LEMMA StartMoves ==
    ASSUME TypeOK, NEW i \in Items, OnePlace(i), NEW a \in Actors, StartStep(a)
    PROVE  OnePlace(i)'
<1>1. CASE StartTake(a)
  BY <1>1 DEF StartTake, TypeOK, OnePlace
<1>2. CASE StartDrain(a)
  BY <1>2 DEF StartDrain, TakePending, TurnItems, TypeOK, OnePlace
<1>3. CASE StartMail(a)
  BY <1>3 DEF StartMail, DrainMailbox, TypeOK, OnePlace
<1>4. CASE StartTurn(a) \/ StartAdd(a) \/ WakeCheck(a)
  BY <1>4, InputStays DEF StartTurn, StartAdd, WakeCheck, Move
<1>5. CASE StartExtend(a)
  BY <1>5 DEF StartExtend, TypeOK, OnePlace
<1>6. CASE WakeReserve(a)
  <2>1. held' = held \/ (NewSubId \in Tasks /\ held' = [held EXCEPT ![NewSubId] = {}])
    BY <1>6, NewSubIdType DEF WakeReserve, NameTask
  <2>2. UNCHANGED <<pend, mailbox, idle, todo, consumed, discarded>>
    BY <1>6 DEF WakeReserve
  <2> QED
    BY <2>1, <2>2 DEF TypeOK, OnePlace
<1> QED
  BY <1>1, <1>2, <1>3, <1>4, <1>5, <1>6 DEF StartStep

\* An abort discards the input of the tasks it kills and of the turn.
LEMMA AbortMoves ==
    ASSUME TypeOK, ActorsPrepared, NEW i \in Items, OnePlace(i), NEW a \in Actors, AbortStep(a)
    PROVE  OnePlace(i)'
<1>1. CASE AbortTake(a) \/ AbortCancel(a)
  BY <1>1, InputStays DEF AbortTake, AbortCancel
<1>2. CASE AbortReport(a)
  <2>1. PICK v \in victims[a] : discarded' = discarded \cup held[v] /\ held' = [held EXCEPT ![v] = {}]
    BY <1>2 DEF AbortReport
  <2>2. v \in Actors
    BY DEF TypeOK
  <2>3. UNCHANGED <<pend, mailbox, idle, todo, consumed>>
    BY <1>2 DEF AbortReport
  <2> QED
    BY <2>1, <2>2, <2>3 DEF TypeOK, OnePlace
<1>3. CASE AbortClear(a)
  <2>1. ts[a] \in TurnStates
    BY <1>3 DEF AbortClear, TypeOK, ActorsPrepared
  <2> QED
    BY <1>3, <2>1 DEF AbortClear, TypeOK, OnePlace
<1> QED
  BY <1>1, <1>2, <1>3 DEF AbortStep

\* A running turn takes its input, records it or fails with it.
LEMMA RunMoves ==
    ASSUME TypeOK, ActorsPrepared, NEW i \in Items, OnePlace(i), NEW t \in Tasks, RunStep(t) \/ FinishStep(t)
    PROVE  OnePlace(i)'
<1>0. t \in Actors
  OBVIOUS
<1>1. CASE RunStart(t)
  BY <1>0, <1>1 DEF RunStart, TypeOK, OnePlace
<1>2. CASE RunTurn(t)
  BY <1>0, <1>2 DEF RunTurn, TypeOK, OnePlace
<1>3. CASE Drain(t)
  BY <1>0, <1>3 DEF Drain, TakePending, TurnItems, TypeOK, OnePlace
<1>4. CASE DrainMail(t)
  BY <1>0, <1>4 DEF DrainMail, DrainMailbox, TypeOK, OnePlace
<1>5. CASE Record(t)
  BY <1>0, <1>5 DEF Record, TypeOK, OnePlace
<1>6. CASE SampleReturn(t) \/ CheckPending(t) \/ RunAgain(t) \/ TaskReturned(t)
  BY <1>6, InputStays DEF SampleReturn, CheckPending, RunAgain, TaskReturned, Move
<1>7. CASE DeferMailbox(t) \/ AcceptMailbox(t) \/ RequestApproval(t) \/ ApprovalResolved(t)
  BY <1>7, InputStays DEF DeferMailbox, AcceptMailbox, RequestApproval, ApprovalResolved
<1>8. CASE FinishRemove(t) \/ FinishComplete(t) \/ FinishClear(t)
  BY <1>8, InputStays DEF FinishRemove, FinishComplete, FinishClear
<1>9. CASE FinishTake(t)
  <2>1. ts[t] \in TurnStates
    BY <1>0, <1>9 DEF FinishTake, TypeOK, ActorsPrepared
  <2> QED
    BY <1>9, <2>1 DEF FinishTake, TypeOK, OnePlace
<1> QED
  BY <1>1, <1>2, <1>3, <1>4, <1>5, <1>6, <1>7, <1>8, <1>9 DEF RunStep, FinishStep

\* A goal continuation puts its prompt, which is no item, into its turn.
LEMMA GoalMoves ==
    ASSUME TypeOK, NEW i \in Items, OnePlace(i), NEW a \in Actors, GoalStep(a)
    PROVE  OnePlace(i)'
<1>1. CASE GoalLock(a) \/ GoalCheck(a) \/ GoalReserve(a) \/ GoalReread(a) \/ GoalClear(a)
  BY <1>1, InputStays DEF GoalLock, GoalCheck, GoalReserve, GoalReread, GoalClear, Move
<1>2. CASE GoalExtend(a)
  <2>1. i # GoalPrompt
    BY ConstantsAssumption
  <2>2. \A s \in TurnStates : i \in pend'[s] <=> i \in pend[s]
    BY <1>2, <2>1 DEF GoalExtend, TypeOK
  <2> QED
    BY <1>2, <2>2 DEF GoalExtend, OnePlace
<1>3. CASE GoalConfirm(a)
  <2>1. held' = held \/ (NewSubId \in Tasks /\ held' = [held EXCEPT ![NewSubId] = {}])
    BY <1>3, NewSubIdType DEF GoalConfirm, NameTask
  <2>2. UNCHANGED <<pend, mailbox, idle, todo, consumed, discarded>>
    BY <1>3 DEF GoalConfirm
  <2> QED
    BY <2>1, <2>2 DEF TypeOK, OnePlace
<1> QED
  BY <1>1, <1>2, <1>3 DEF GoalStep

\* Input enters where the submission loop or the client puts it.
LEMMA SentMoves ==
    ASSUME TypeOK, NEW i \in Items, OnePlace(i), LoopOp \/ ClientOp
    PROVE  OnePlace(i)'
<1>1. ASSUME NEW j \in Items, j \in todo, todo' = todo \ {j}, NEW s,
             pend' = [pend EXCEPT ![s] = @ \cup {j}], UNCHANGED <<held, mailbox, idle, consumed, discarded>>
      PROVE  OnePlace(i)'
  BY <1>1 DEF TypeOK, OnePlace
<1>2. ASSUME NEW j \in UserItems, UserInput(j) PROVE OnePlace(i)'
  <2>1. CASE Steer(j) /\ UNCHANGED held
    BY <1>1, <1>2, <2>1 DEF UserInput, Steer
  <2>2. CASE NameTask(Loop, "Regular", {j}, "abort_take") /\ UNCHANGED pend
    <3>1. NewSubId \in Tasks /\ held' = [held EXCEPT ![NewSubId] = {j}]
      BY <2>2, NewSubIdType DEF NameTask
    <3>2. j \in todo /\ todo' = todo \ {j} /\ UNCHANGED <<pend, mailbox, idle, consumed, discarded>>
      BY <1>2, <2>2 DEF UserInput
    <3> QED
      BY <3>1, <3>2 DEF TypeOK, OnePlace
  <2> QED
    BY <1>2, <2>1, <2>2 DEF UserInput
<1>3. ASSUME NEW m \in Mail, ReceiveMail(m) PROVE OnePlace(i)'
  BY <1>3 DEF ReceiveMail, TypeOK, OnePlace
<1>4. ASSUME NEW j \in Notes, LoopInject(j) PROVE OnePlace(i)'
  <2>1. CASE Inject(j) /\ UNCHANGED held
    BY <1>1, <1>4, <2>1 DEF LoopInject, Inject
  <2>2. CASE held' = [held EXCEPT ![Loop] = {j}] /\ UNCHANGED pend
    BY <1>4, <2>2 DEF LoopInject, TypeOK, OnePlace
  <2> QED
    BY <1>4, <2>1, <2>2 DEF LoopInject
<1>5. CASE QueueForNextTurn
  BY <1>5 DEF QueueForNextTurn, TypeOK, OnePlace
<1>6. CASE Compact
  <2>1. NewSubId \in Tasks /\ held' = [held EXCEPT ![NewSubId] = {}]
    BY <1>6, NewSubIdType DEF Compact, NameTask
  <2>2. UNCHANGED <<pend, mailbox, idle, todo, consumed, discarded>>
    BY <1>6 DEF Compact
  <2> QED
    BY <2>1, <2>2 DEF TypeOK, OnePlace
<1>7. CASE Interrupt \/ Shutdown \/ \E t \in Tasks : Approve(t)
  BY <1>7, InputStays DEF Interrupt, Shutdown, Approve, Move
<1>8. ASSUME NEW j \in UserItems, ClientSteer(j) PROVE OnePlace(i)'
  BY <1>1, <1>8 DEF ClientSteer, Steer
<1>9. ASSUME NEW j \in Notes, ClientInject(j) PROVE OnePlace(i)'
  <2>1. CASE Inject(j) /\ UNCHANGED consumed
    BY <1>1, <1>9, <2>1 DEF ClientInject, Inject
  <2>2. CASE consumed' = consumed \cup {j} /\ UNCHANGED pend
    BY <1>9, <2>2 DEF ClientInject, TypeOK, OnePlace
  <2> QED
    BY <1>9, <2>1, <2>2 DEF ClientInject
<1>10. CASE SetGoal \/ ClearGoal
  BY <1>10, InputStays DEF SetGoal, ClearGoal
<1> QED
  BY <1>2, <1>3, <1>4, <1>5, <1>6, <1>7, <1>8, <1>9, <1>10 DEF LoopOp, ClientOp

\* No piece of input is delivered twice, however many turns, tails, aborts and
\* client calls take it out of a queue and put it into another: every critical
\* section moves an item and none copies it.
THEOREM DeliveredOnce == Spec => []NoDuplicateDelivery
<1>1. Init => NoDuplicateDelivery
  BY DEF Init, NoDuplicateDelivery, OnePlace
<1>2. TypeOK /\ ActorsPrepared /\ NoDuplicateDelivery /\ [Next]_vars => NoDuplicateDelivery'
  <2> SUFFICES ASSUME TypeOK, ActorsPrepared, [Next]_vars, NEW i \in Items, OnePlace(i) PROVE OnePlace(i)'
    BY DEF NoDuplicateDelivery
  <2>1. ASSUME NEW a \in Actors, StartStep(a) \/ GoalStep(a) \/ AbortStep(a) PROVE OnePlace(i)'
    BY <2>1, StartMoves, GoalMoves, AbortMoves
  <2>2. ASSUME NEW t \in Tasks, RunStep(t) \/ FinishStep(t) PROVE OnePlace(i)'
    BY <2>2, RunMoves
  <2>3. ASSUME NEW t \in Tasks, ReviewerAbort(t) PROVE OnePlace(i)'
    BY <2>3, InputStays DEF ReviewerAbort
  <2>4. CASE LoopOp \/ ClientOp
    BY <2>4, SentMoves
  <2>5. CASE UNCHANGED vars
    BY <2>5, InputStays DEF vars
  <2> QED
    BY <2>1, <2>2, <2>3, <2>4, <2>5 DEF Next
<1> QED
  BY <1>1, <1>2, TypeCorrect, PTL DEF Spec

-----------------------------------------------------------------------------
(* Input in sessions in which only the submission loop starts turns.       *)

USE DEF Late, Between, Making

\* A step of one actor that leaves the active turn alone and is not one of the
\* steps that take, make or finish a turn.
LEMMA HandsMove ==
    ASSUME TypeOK, HandsInv, NEW a \in Actors, NEW p, NEW x \in {NoTurn, active, ts[a]},
           pc' = [pc EXCEPT ![a] = p], ts' = [ts EXCEPT ![a] = x],
           UNCHANGED <<active, tasks, fresh>>,
           \A s \in TurnStates : pend[s] = {} => pend'[s] = {},
           \A b \in Actors : b # a => held'[b] = held[b],
           pc[a] \notin Late \cup Making \cup {"new"}, p \notin Late \cup Making \cup {"new"},
           p = "abort_take" => a = Loop,
           a = Loop /\ p \in Between => pc[a] \in Between
    PROVE  HandsInv'
<1>0. ConstantsAssumption
  BY ConstantsAssumption
<1>1. /\ pc'[a] = p /\ \A b \in Actors : b # a => pc'[b] = pc[b]
      /\ ts'[a] = x /\ \A b \in Actors : b # a => ts'[b] = ts[b]
  BY DEF TypeOK
<1>2. FreshUnused'
  <2>1. NoTurn \notin fresh
    BY <1>0 DEF TypeOK, ConstantsAssumption
  <2> QED
    BY <1>1, <2>1 DEF HandsInv, FreshUnused
<1>3. StartsAlone'
  BY <1>1 DEF HandsInv, StartsAlone
<1>4. TailsEmpty'
  <2>1. \A t \in Tasks : pc'[t] \in Late => pc[t] = pc'[t] /\ ts'[t] = ts[t]
    BY <1>1
  <2>2. \A t \in Tasks : pc[t] \in Late => pc[t] = pc'[t] /\ ts'[t] = ts[t]
    BY <1>1
  <2>3. pc'[Loop] \in Making <=> pc[Loop] \in Making
    BY <1>1
  <2>4. \A t \in Tasks : ts[t] \in TurnStates \cup {NoTurn}
    BY DEF TypeOK
  <2>5. \A t \in Tasks : pc'[t] \in Late /\ ts'[t] # NoTurn /\ ts'[t] = active' =>
           tasks' = {} /\ pc'[Loop] \notin Making
    BY <2>1, <2>3 DEF HandsInv, TailsEmpty
  <2>6. \A t \in Tasks : pc'[t] \in {"complete", "clear"} /\ ts'[t] # NoTurn => pend'[ts'[t]] = {}
    BY <2>1, <2>4 DEF HandsInv, TailsEmpty
  <2>7. tasks' = {} /\ active' # NoTurn /\ pc'[Loop] \notin Making =>
           \E t \in Tasks : pc'[t] \in Late /\ ts'[t] = active'
    BY <2>2, <2>3 DEF HandsInv, TailsEmpty
  <2> QED
    BY <2>5, <2>6, <2>7 DEF TailsEmpty
<1>5. \A t \in Tasks : pc'[t] = "new" => held'[t] = {}
  BY <1>1 DEF HandsInv
<1> QED
  BY <1>2, <1>3, <1>4, <1>5 DEF HandsInv

\* start_task in such a session is the submission loop's.
LEMMA StartHands ==
    ASSUME TypeOK, ActorsPrepared, SoloInv, HandsInv, Solo, NEW a \in Actors, StartStep(a)
    PROVE  HandsInv'
<1>0. /\ NoTurn \notin TurnStates /\ Loop \notin Tasks
      /\ ts \in [Actors -> TurnStates \cup {NoTurn}]
      /\ pc \in [Actors -> Running \cup Finishing \cup Starting \cup Aborting \cup Resting]
  BY ConstantsAssumption DEF TypeOK
<1>1. CASE StartTake(a)
  <2>1. a = Loop /\ ts' = [ts EXCEPT ![a] = ts[a]]
    BY <1>0, <1>1 DEF StartTake, SoloInv
  <2> QED
    BY <1>1, <2>1, HandsMove DEF StartTake, Goto, TypeOK
<1>2. CASE StartDrain(a)
  <2>1. a = Loop /\ ts' = [ts EXCEPT ![a] = ts[a]]
    BY <1>0, <1>2 DEF StartDrain, SoloInv
  <2>2. /\ \A s \in TurnStates : pend[s] = {} => pend'[s] = {}
        /\ \A b \in Actors : b # a => held'[b] = held[b]
    BY <1>2 DEF StartDrain, TakePending, TypeOK
  <2> QED
    BY <1>2, <2>1, <2>2, HandsMove DEF StartDrain, TakePending, Goto
<1>3. CASE StartMail(a)
  <2>1. a = Loop /\ ts' = [ts EXCEPT ![a] = ts[a]]
    BY <1>0, <1>3 DEF StartMail, SoloInv
  <2>2. \A b \in Actors : b # a => held'[b] = held[b]
    BY <1>3 DEF StartMail, DrainMailbox, TypeOK
  <2> QED
    BY <1>3, <2>1, <2>2, HandsMove DEF StartMail, DrainMailbox, Goto
<1>4. CASE StartTurn(a)
  <2>1. a = Loop /\ active = NoTurn /\ pc[Loop] = "start_turn" /\ tasks = {}
    BY <1>4 DEF StartTurn, SoloInv, HandsInv, StartsAlone
  <2>2. active' \in fresh /\ fresh' = fresh \ {active'} /\ active' \in TurnStates
    BY <1>4, <2>1 DEF StartTurn, GetOrInsert, NewTurnState, TypeOK
  <2>3. /\ pc'[Loop] = "start_extend" /\ \A b \in Actors : b # Loop => pc'[b] = pc[b]
        /\ ts'[Loop] = active' /\ \A b \in Actors : b # Loop => ts'[b] = ts[b]
        /\ UNCHANGED <<tasks, pend, held>>
    BY <1>0, <1>4, <2>1 DEF StartTurn, Goto
  <2>4. \A t \in Tasks : t # Loop /\ t \in Actors
    BY <1>0
  <2>5. FreshUnused'
    BY <2>2, <2>3 DEF HandsInv, FreshUnused
  <2>6. StartsAlone'
    BY <1>0, <2>2, <2>3 DEF HandsInv, StartsAlone
  <2>7. TailsEmpty'
    <3>1. \A t \in Tasks : ts[t] # active'
      BY <2>2, <2>4 DEF HandsInv, FreshUnused
    <3> QED
      BY <2>3, <2>4, <3>1 DEF HandsInv, TailsEmpty
  <2> QED
    BY <2>3, <2>4, <2>5, <2>6, <2>7 DEF HandsInv
<1>5. CASE StartExtend(a)
  <2>1. a = Loop /\ active = ts[Loop] /\ active # NoTurn /\ pc[Loop] = "start_extend"
    BY <1>5 DEF StartExtend, SoloInv, HandsInv, StartsAlone
  <2>2. /\ pc'[Loop] = "start_add" /\ \A b \in Actors : b # Loop => pc'[b] = pc[b]
        /\ ts'[Loop] = NoTurn /\ \A b \in Actors : b # Loop => ts'[b] = ts[b]
        /\ UNCHANGED <<active, tasks, fresh>>
    BY <1>0, <1>5, <2>1 DEF StartExtend, Goto
  <2>3. /\ \A s \in TurnStates : s # active => pend'[s] = pend[s]
        /\ \A b \in Actors : b # Loop => held'[b] = held[b]
    BY <1>5, <2>1 DEF StartExtend, TypeOK
  <2>4. \A t \in Tasks : t # Loop /\ t \in Actors
    BY <1>0
  <2>5. FreshUnused'
    BY <1>0, <2>2 DEF HandsInv, FreshUnused, TypeOK
  <2>6. StartsAlone'
    BY <2>1, <2>2 DEF HandsInv, StartsAlone
  <2>7. TailsEmpty'
    <3>1. \A t \in Tasks : pc[t] \in Late /\ ts[t] # NoTurn => ts[t] # active
      BY <2>1 DEF HandsInv, TailsEmpty
    <3>2. \A t \in Tasks : ts[t] \in TurnStates \cup {NoTurn}
      BY <1>0
    <3> QED
      BY <2>2, <2>3, <2>4, <3>1, <3>2 DEF HandsInv, TailsEmpty
  <2> QED
    BY <2>2, <2>3, <2>4, <2>5, <2>6, <2>7 DEF HandsInv
<1>6. CASE StartAdd(a)
  <2>1. a = Loop /\ active # NoTurn /\ pc[Loop] = "start_add" /\ new[a] \in Tasks
    BY <1>6 DEF StartAdd, SoloInv, HandsInv, StartsAlone, ActorsPrepared, TypeOK
  <2>2. /\ pc'[new[a]] = "run" /\ pc'[Loop] \in {"idle", "stopped"}
        /\ \A b \in Actors : b # Loop /\ b # new[a] => pc'[b] = pc[b]
    BY <1>0, <1>6, <2>1, ConstantsAssumption DEF StartAdd, AfterWake, Rest
  <2>3. tasks' # {} /\ UNCHANGED <<active, fresh, ts, pend, held>>
    BY <1>6, <2>1 DEF StartAdd, GetOrInsert
  <2>4. \A t \in Tasks : t # Loop /\ t \in Actors
    BY <1>0
  <2>5. FreshUnused'
    BY <2>3 DEF HandsInv, FreshUnused
  <2>6. StartsAlone'
    BY <2>1, <2>2, <2>3 DEF HandsInv, StartsAlone
  <2>7. TailsEmpty'
    <3>1. \A t \in Tasks : pc[t] \in Late /\ ts[t] # NoTurn => ts[t] # active
      BY <2>1 DEF HandsInv, TailsEmpty
    <3>2. \A t \in Tasks : pc'[t] \in Late => pc'[t] = pc[t]
      BY <2>2, <2>4
    <3> QED
      BY <2>3, <3>1, <3>2 DEF HandsInv, TailsEmpty
  <2> QED
    BY <2>2, <2>3, <2>4, <2>5, <2>6, <2>7 DEF HandsInv
<1>7. CASE WakeCheck(a)
  <2>1. pc' = [pc EXCEPT ![a] = AfterWake(a)] /\ AfterWake(a) \in {"goal_lock", "done", "stopped", "idle"}
    BY <1>7 DEF WakeCheck, Move, Goto, AfterWake, Rest, PendingWork, SoloInv, Solo
  <2>2. ts' = [ts EXCEPT ![a] = ts[a]]
    BY <1>0, <1>7 DEF WakeCheck, Move
  <2> QED
    BY <1>7, <2>1, <2>2, HandsMove DEF WakeCheck, Move
<1>8. CASE WakeReserve(a)
  BY <1>8 DEF WakeReserve, SoloInv
<1> QED
  BY <1>1, <1>2, <1>3, <1>4, <1>5, <1>6, <1>7, <1>8 DEF StartStep

\* The goal continuation gives up at once, and an abort leaves the session
\* without a turn.
LEMMA AbortHands ==
    ASSUME TypeOK, ActorsPrepared, OwnInv, SoloInv, HandsInv, Solo, NEW a \in Actors,
           GoalStep(a) \/ AbortStep(a)
    PROVE  HandsInv'
<1>0. /\ NoTurn \notin TurnStates /\ Loop \notin Tasks
      /\ ts \in [Actors -> TurnStates \cup {NoTurn}]
      /\ pc \in [Actors -> Running \cup Finishing \cup Starting \cup Aborting \cup Resting]
      /\ fresh \subseteq TurnStates
  BY ConstantsAssumption DEF TypeOK
<1>1. CASE GoalLock(a) \/ GoalCheck(a)
  <2>1. PICK p \in {"goal_check", "done", "stopped", "idle"} : pc' = [pc EXCEPT ![a] = p]
    BY <1>1 DEF GoalLock, GoalCheck, GoalReturn, Goto, Rest, Solo
  <2>2. ts' = [ts EXCEPT ![a] = ts[a]] /\ pc[a] \in {"goal_lock", "goal_check"}
    BY <1>0, <1>1 DEF GoalLock, GoalCheck
  <2>3. UNCHANGED <<active, tasks, fresh, pend, held>>
    BY <1>1 DEF GoalLock, GoalCheck
  <2> QED
    BY <2>1, <2>2, <2>3, HandsMove
<1>2. CASE GoalReserve(a) \/ GoalReread(a) \/ GoalExtend(a) \/ GoalConfirm(a) \/ GoalClear(a)
  BY <1>2 DEF GoalReserve, GoalReread, GoalExtend, GoalConfirm, GoalClear, SoloInv
<1>3. ASSUME pc[a] \in Aborting PROVE a \notin Tasks
  BY <1>3 DEF OwnInv, LiveTasksOwned
<1>4. CASE AbortTake(a)
  <2>1. a = Loop /\ pc[a] = "abort_take"
    BY <1>4 DEF AbortTake, HandsInv, StartsAlone
  <2>2. /\ pc'[Loop] \notin Making \cup {"abort_take"} /\ \A b \in Actors : b # Loop => pc'[b] = pc[b]
        /\ ts'[Loop] \in {NoTurn, active} /\ \A b \in Actors : b # Loop => ts'[b] = ts[b]
        /\ active' = NoTurn /\ tasks' = {} /\ UNCHANGED <<fresh, pend, held>>
    BY <1>0, <1>4, <2>1 DEF AbortTake, Goto, Rest
  <2>3. \A t \in Tasks : t # Loop /\ t \in Actors
    BY <1>0
  <2>4. FreshUnused'
    BY <1>0, <2>2 DEF HandsInv, FreshUnused
  <2>5. StartsAlone'
    BY <2>2 DEF HandsInv, StartsAlone
  <2>6. TailsEmpty'
    BY <2>2, <2>3 DEF HandsInv, TailsEmpty
  <2> QED
    BY <2>2, <2>3, <2>4, <2>5, <2>6 DEF HandsInv
<1>5. CASE AbortCancel(a)
  <2>1. ts' = [ts EXCEPT ![a] = ts[a]] /\ pc[a] = "abort_next" /\ pc' = [pc EXCEPT ![a] = "abort_wait"]
    BY <1>0, <1>5 DEF AbortCancel, Goto
  <2> QED
    BY <1>5, <2>1, HandsMove DEF AbortCancel
<1>6. CASE AbortReport(a)
  <2>1. PICK v \in victims[a] \cap cancelled :
           /\ pc' = [pc EXCEPT ![v] = IF @ = "done" THEN @ ELSE "killed",
                               ![a] = IF victims[a] = {v} THEN "abort_clear" ELSE "abort_next"]
           /\ held' = [held EXCEPT ![v] = {}]
    BY <1>6 DEF AbortReport
  <2>2. v \in Tasks /\ v # a /\ a \notin Tasks /\ v \in Actors
    BY <1>3, <1>6 DEF AbortReport, TypeOK
  <2>3. pc[v] \in Alive \cup {"complete", "done"} /\ (pc[v] = "complete" => ts[v] = NoTurn)
    BY DEF OwnInv, DrainedTasks
  <2>4. /\ pc'[v] \in {"done", "killed"} /\ pc'[a] \in {"abort_clear", "abort_next"} /\ pc[a] = "abort_wait"
        /\ \A b \in Actors : b # a /\ b # v => pc'[b] = pc[b]
    BY <1>0, <1>6, <2>1, <2>2 DEF AbortReport
  <2>5. UNCHANGED <<active, tasks, fresh, ts, pend>>
    BY <1>6 DEF AbortReport
  <2>6. FreshUnused'
    BY <2>5 DEF HandsInv, FreshUnused
  <2>7. v # Loop
    BY <1>0, <2>2
  <2>8. StartsAlone'
    BY <2>4, <2>5, <2>7 DEF HandsInv, StartsAlone
  <2>9. TailsEmpty'
    <3>1. \A t \in Tasks : pc'[t] \in Late => pc[t] = pc'[t]
      BY <2>2, <2>4
    <3>2. \A t \in Tasks : pc[t] \in Late /\ ts[t] # NoTurn => pc'[t] = pc[t]
      BY <2>2, <2>3, <2>4 DEF Alive
    <3>3. pc'[Loop] \in Making <=> pc[Loop] \in Making
      BY <2>4, <2>7
    <3>4. tasks' = {} /\ active' # NoTurn /\ pc'[Loop] \notin Making =>
             \E t \in Tasks : pc'[t] \in Late /\ ts'[t] = active'
      BY <2>5, <3>2, <3>3 DEF HandsInv, TailsEmpty
    <3> QED
      BY <2>5, <3>1, <3>3, <3>4 DEF HandsInv, TailsEmpty
  <2>10. \A t \in Tasks : pc'[t] = "new" => held'[t] = {}
    BY <2>1, <2>2, <2>4 DEF HandsInv, TypeOK
  <2> QED
    BY <2>6, <2>8, <2>9, <2>10 DEF HandsInv
<1>7. CASE AbortClear(a)
  <2>1. /\ pc[a] = "abort_clear" /\ ts' = [ts EXCEPT ![a] = NoTurn]
        /\ pc' = [pc EXCEPT ![a] = IF new[a] # NoTask THEN "start_take" ELSE "wake_check"]
        /\ UNCHANGED <<active, tasks, fresh, held>>
    BY <1>7 DEF AbortClear, Goto
  <2>2. \A s \in TurnStates : pend[s] = {} => pend'[s] = {}
    BY <1>7 DEF AbortClear, TypeOK
  <2> QED
    BY <2>1, <2>2, HandsMove
<1> QED
  BY <1>1, <1>2, <1>4, <1>5, <1>6, <1>7 DEF GoalStep, AbortStep

\* A turn that is running leaves the turn to its own finish, which takes the
\* leftovers before it clears the turn.
LEMMA RunHands ==
    ASSUME TypeOK, ActorsPrepared, OwnInv, SoloInv, HandsInv, Solo, NEW t \in Tasks, RunStep(t)
    PROVE  HandsInv'
<1>0. /\ t # Loop /\ t \in Actors
      /\ ts \in [Actors -> TurnStates \cup {NoTurn}]
      /\ pc \in [Actors -> Running \cup Finishing \cup Starting \cup Aborting \cup Resting]
  BY ConstantsAssumption DEF TypeOK
<1>1. pc[t] \in Running
  BY DEF RunStep, RunStart, RunTurn, Drain, DrainMail, Record, SampleReturn, DeferMailbox, AcceptMailbox,
     RequestApproval, ApprovalResolved, CheckPending, RunAgain, TaskReturned
<1>2. PICK p \in Running \cup {"finish", "done"} : pc' = [pc EXCEPT ![t] = p]
  <2>1. CASE RunStart(t) \/ RunTurn(t) \/ Record(t)
    BY <2>1 DEF RunStart, RunTurn, Record, Goto
  <2>2. CASE Drain(t) \/ DrainMail(t) \/ RequestApproval(t) \/ ApprovalResolved(t)
    BY <2>2 DEF Drain, DrainMail, TakePending, DrainMailbox, RequestApproval, ApprovalResolved, Goto
  <2>3. CASE DeferMailbox(t) \/ AcceptMailbox(t)
    <3>1. pc' = [pc EXCEPT ![t] = pc[t]]
      BY <1>0, <2>3 DEF DeferMailbox, AcceptMailbox
    <3> QED
      BY <1>1, <3>1
  <2>4. CASE SampleReturn(t) \/ CheckPending(t) \/ RunAgain(t) \/ TaskReturned(t)
    BY <2>4 DEF SampleReturn, CheckPending, RunAgain, TaskReturned, Move, Goto
  <2> QED
    BY <2>1, <2>2, <2>3, <2>4 DEF RunStep
<1>3. PICK x \in {NoTurn, active, ts[t]} : ts' = [ts EXCEPT ![t] = x]
  <2>1. CASE RequestApproval(t) \/ ApprovalResolved(t)
    BY <2>1 DEF RequestApproval, ApprovalResolved
  <2>2. CASE UNCHANGED ts
    BY <1>0, <2>2
  <2> QED
    BY <2>1, <2>2 DEF RunStep, RunStart, RunTurn, Drain, DrainMail, Record, SampleReturn, DeferMailbox,
       AcceptMailbox, CheckPending, RunAgain, TaskReturned, Move
<1>4. UNCHANGED <<active, tasks, fresh>>
  BY DEF RunStep, RunStart, RunTurn, Drain, DrainMail, Record, SampleReturn, DeferMailbox, AcceptMailbox,
     RequestApproval, ApprovalResolved, CheckPending, RunAgain, TaskReturned, Move
<1>5. \A s \in TurnStates : pend[s] = {} => pend'[s] = {}
  <2>1. CASE Drain(t)
    BY <2>1 DEF Drain, TakePending
  <2>2. CASE UNCHANGED pend
    BY <2>2
  <2> QED
    BY <2>1, <2>2 DEF RunStep, RunStart, RunTurn, DrainMail, Record, SampleReturn, DeferMailbox,
       AcceptMailbox, RequestApproval, ApprovalResolved, CheckPending, RunAgain, TaskReturned, Move
<1>6. \A b \in Actors : b # t => held'[b] = held[b]
  <2>1. CASE UNCHANGED held
    BY <2>1
  <2>2. CASE \E X : held' = [held EXCEPT ![t] = X]
    BY <1>0, <2>2 DEF TypeOK
  <2>3. CASE RunStart(t) \/ RunTurn(t) \/ Record(t)
    BY <2>1, <2>2, <2>3 DEF RunStart, RunTurn, Record
  <2>4. CASE Drain(t) \/ DrainMail(t)
    BY <2>2, <2>4 DEF Drain, DrainMail, TakePending, DrainMailbox
  <2> QED
    BY <2>1, <2>3, <2>4 DEF RunStep, SampleReturn, DeferMailbox,
       AcceptMailbox, RequestApproval, ApprovalResolved, CheckPending, RunAgain, TaskReturned, Move
<1> QED
  BY <1>0, <1>1, <1>2, <1>3, <1>4, <1>5, <1>6, HandsMove, ZenonT(60)

\* on_task_finished: the last task of a turn holds on to its turn state, empties
\* it and clears the turn if it is still that one.
LEMMA FinishHands ==
    ASSUME TypeOK, ActorsPrepared, OwnInv, SoloInv, HandsInv, Solo, NEW t \in Tasks, FinishStep(t)
    PROVE  HandsInv'
<1>0. /\ t # Loop /\ t \in Actors /\ Loop \in Actors /\ NoTurn \notin TurnStates /\ Tasks \subseteq Actors
      /\ ts \in [Actors -> TurnStates \cup {NoTurn}]
      /\ pc \in [Actors -> Running \cup Finishing \cup Starting \cup Aborting \cup Resting]
      /\ fresh \subseteq TurnStates /\ active \in TurnStates \cup {NoTurn}
      /\ pend \in [TurnStates -> SUBSET AllItems]
  BY ConstantsAssumption DEF TypeOK
<1>1. /\ \A b \in Actors : b # t => pc'[b] = pc[b] /\ ts'[b] = ts[b]
      /\ pc'[t] \notin Making \cup Between \cup {"new", "abort_take"}
      /\ UNCHANGED <<fresh, held>>
  BY <1>0 DEF FinishStep, FinishRemove, FinishTake, FinishComplete, FinishClear, Goto
<1>2. pc'[Loop] = pc[Loop] /\ ts'[Loop] = ts[Loop]
  BY <1>0, <1>1
<1>3. \A u \in Tasks : pc'[u] = "new" => held'[u] = {}
  BY <1>0, <1>1 DEF HandsInv
<1>4. CASE FinishRemove(t)
  <2>0. ts[t] = NoTurn /\ pc[t] = "finish"
    BY <1>4 DEF FinishRemove, OwnInv, LiveTasksOwned, Alive
  <2>1. UNCHANGED <<active, pend>> /\ tasks' = tasks \ {t}
    BY <1>4 DEF FinishRemove
  <2>2. CASE tasks = {t}
    <3>1. ts'[t] = active /\ pc'[t] = "finish_take" /\ tasks' = {}
      BY <1>0, <1>4, <2>2 DEF FinishRemove, Goto
    <3>2. pc[Loop] \notin Making
      BY <2>2 DEF SoloInv
    <3>3. FreshUnused'
      BY <1>1, <2>1, <3>1 DEF HandsInv, FreshUnused
    <3>4. StartsAlone'
      BY <1>1, <1>2, <2>1 DEF HandsInv, StartsAlone
    <3>5. TailsEmpty'
      <4>1. \A u \in Tasks : pc'[u] \in {"complete", "clear"} /\ ts'[u] # NoTurn => pend'[ts'[u]] = {}
        BY <1>0, <1>1, <2>1, <3>1 DEF HandsInv, TailsEmpty
      <4> QED
        BY <1>2, <3>1, <3>2, <2>1, <4>1 DEF TailsEmpty
    <3> QED
      BY <1>3, <3>3, <3>4, <3>5 DEF HandsInv
  <2>3. CASE tasks # {t}
    <3>1. ts' = ts /\ pc'[t] = "complete"
      BY <1>0, <1>4, <2>3 DEF FinishRemove, Goto
    <3>2. tasks' = {} <=> tasks = {}
      BY <2>1, <2>3
    <3>3. FreshUnused'
      BY <1>1, <2>1, <3>1 DEF HandsInv, FreshUnused
    <3>4. StartsAlone'
      BY <1>1, <1>2, <2>1 DEF HandsInv, StartsAlone
    <3>5. TailsEmpty'
      <4>1. \A u \in Tasks : u # t => pc'[u] = pc[u]
        BY <1>0, <1>1
      <4>2. \A u \in Tasks : pc[u] \in Late => pc'[u] \in Late
        BY <1>0, <1>1, <2>0
      <4>3. tasks' = {} /\ active' # NoTurn /\ pc'[Loop] \notin Making =>
               \E u \in Tasks : pc'[u] \in Late /\ ts'[u] = active'
        BY <1>2, <2>1, <3>1, <3>2, <4>2 DEF HandsInv, TailsEmpty
      <4>4. \A u \in Tasks : pc'[u] \in Late /\ ts'[u] # NoTurn /\ ts'[u] = active' =>
               tasks' = {} /\ pc'[Loop] \notin Making
        BY <1>2, <2>0, <2>1, <3>1, <3>2, <4>1 DEF HandsInv, TailsEmpty
      <4>5. \A u \in Tasks : pc'[u] \in {"complete", "clear"} /\ ts'[u] # NoTurn => pend'[ts'[u]] = {}
        BY <2>0, <2>1, <3>1, <4>1 DEF HandsInv, TailsEmpty
      <4> QED
        BY <4>3, <4>4, <4>5 DEF TailsEmpty
    <3> QED
      BY <1>3, <3>3, <3>4, <3>5 DEF HandsInv
  <2> QED
    BY <2>2, <2>3
<1>5. CASE FinishTake(t) \/ FinishComplete(t)
  <2>1. UNCHANGED <<active, tasks, ts>>
    BY <1>5 DEF FinishTake, FinishComplete
  <2>2. /\ pc[t] \in Late /\ ts[t] # NoTurn => pc'[t] \in Late
        /\ pc'[t] \in {"complete", "clear", "done"} /\ pc[t] \in Late
    BY <1>0, <1>5 DEF FinishTake, FinishComplete, Goto
  <2>3. /\ \A s \in TurnStates : pend[s] = {} => pend'[s] = {}
        /\ pc'[t] \in {"complete", "clear"} /\ ts[t] # NoTurn => pend'[ts[t]] = {}
    <3>1. CASE FinishTake(t)
      BY <1>0, <3>1 DEF FinishTake
    <3>2. CASE FinishComplete(t)
      BY <3>2 DEF FinishComplete, HandsInv, TailsEmpty
    <3> QED
      BY <1>5, <3>1, <3>2
  <2>4. FreshUnused'
    BY <1>1, <2>1 DEF HandsInv, FreshUnused
  <2>5. StartsAlone'
    BY <1>1, <1>2, <2>1 DEF HandsInv, StartsAlone
  <2>6. TailsEmpty'
    <3>1. \A u \in Tasks : u # t => pc'[u] = pc[u]
      BY <1>0, <1>1
    <3>2. \A u \in Tasks : pc[u] \in Late /\ ts[u] # NoTurn => pc'[u] \in Late
      BY <2>2, <3>1
    <3>3. tasks' = {} /\ active' # NoTurn /\ pc'[Loop] \notin Making =>
             \E u \in Tasks : pc'[u] \in Late /\ ts'[u] = active'
      BY <1>2, <2>1, <3>2 DEF HandsInv, TailsEmpty
    <3>4. \A u \in Tasks : pc'[u] \in Late /\ ts'[u] # NoTurn /\ ts'[u] = active' =>
             tasks' = {} /\ pc'[Loop] \notin Making
      BY <1>2, <2>1, <2>2, <3>1 DEF HandsInv, TailsEmpty
    <3>5. \A u \in Tasks : ts[u] \in TurnStates \cup {NoTurn}
      BY <1>0
    <3>6. \A u \in Tasks : pc'[u] \in {"complete", "clear"} /\ ts'[u] # NoTurn => pend'[ts'[u]] = {}
      BY <2>1, <2>3, <3>1, <3>5 DEF HandsInv, TailsEmpty
    <3> QED
      BY <3>3, <3>4, <3>6 DEF TailsEmpty
  <2> QED
    BY <1>3, <2>4, <2>5, <2>6 DEF HandsInv
<1>6. CASE FinishClear(t)
  <2>1. /\ ts'[t] = NoTurn /\ pc'[t] \in {"wake_check", "done"} /\ pc[t] = "clear"
        /\ active' = IF active = ts[t] /\ tasks = {} THEN NoTurn ELSE active
        /\ UNCHANGED <<tasks, pend>>
    BY <1>0, <1>6 DEF FinishClear, StillReserved, Goto
  <2>2. FreshUnused'
    BY <1>0, <1>1, <2>1 DEF HandsInv, FreshUnused
  <2>3. StartsAlone'
    <3>1. pc[Loop] \in Making => active' = active
      BY <2>1 DEF HandsInv, TailsEmpty, StartsAlone
    <3>2. active = NoTurn => active' = NoTurn
      BY <2>1
    <3> QED
      BY <1>1, <1>2, <3>1, <3>2 DEF HandsInv, StartsAlone
  <2>4. TailsEmpty'
    <3>1. \A u \in Tasks : u # t => pc'[u] = pc[u] /\ ts'[u] = ts[u]
      BY <1>0, <1>1
    <3>2. tasks' = {} /\ active' # NoTurn /\ pc'[Loop] \notin Making =>
             \E u \in Tasks : pc'[u] \in Late /\ ts'[u] = active'
      BY <1>2, <2>1, <3>1 DEF HandsInv, TailsEmpty
    <3>3. \A u \in Tasks : pc'[u] \in Late => u # t
      BY <2>1
    <3>4. active' \in {active, NoTurn}
      BY <2>1
    <3> QED
      BY <1>2, <2>1, <3>1, <3>2, <3>3, <3>4 DEF HandsInv, TailsEmpty
  <2> QED
    BY <1>3, <2>2, <2>3, <2>4 DEF HandsInv
<1> QED
  BY <1>4, <1>5, <1>6 DEF FinishStep

\* The ops of the submission loop, the auto-review's interrupt and the client.
LEMMA OpHands ==
    ASSUME TypeOK, ActorsPrepared, OwnInv, SoloInv, HandsInv, Solo,
           LoopOp \/ ClientOp \/ \E t \in Tasks : ReviewerAbort(t)
    PROVE  HandsInv'
<1>0. /\ Loop \in Actors /\ Reviewer \in Actors /\ Reviewer # Loop /\ Tasks \subseteq Actors
      /\ Loop \notin Tasks /\ Reviewer \notin Tasks /\ NoTurn \notin TurnStates
      /\ ts \in [Actors -> TurnStates \cup {NoTurn}]
      /\ pc \in [Actors -> Running \cup Finishing \cup Starting \cup Aborting \cup Resting]
      /\ fresh \subseteq TurnStates /\ active \in TurnStates \cup {NoTurn}
      /\ pend \in [TurnStates -> SUBSET AllItems] /\ held \in [Actors -> SUBSET AllItems]
  BY ConstantsAssumption DEF TypeOK
<1>1. ASSUME NEW k, NEW input, NameTask(Loop, k, input, "abort_take"), pc[Loop] = "idle",
             UNCHANGED <<active, tasks, fresh, ts, pend>>
      PROVE  HandsInv'
  <2>1. NewSubId \in Tasks /\ pc[NewSubId] = "new" /\ NewSubId # Loop
    BY <1>0, <1>1, NewSubIdType DEF NameTask
  <2>2. /\ pc'[NewSubId] = "named" /\ pc'[Loop] = "abort_take"
        /\ \A b \in Actors : b # Loop /\ b # NewSubId => pc'[b] = pc[b]
        /\ \A b \in Actors : b # NewSubId => held'[b] = held[b]
    BY <1>0, <1>1, <2>1 DEF NameTask
  <2>3. FreshUnused'
    BY <1>1 DEF HandsInv, FreshUnused
  <2>4. StartsAlone'
    BY <2>2 DEF HandsInv, StartsAlone
  <2>5. TailsEmpty'
    <3>1. \A u \in Tasks : pc'[u] \in Late <=> pc[u] \in Late
      BY <1>0, <2>1, <2>2
    <3>2. \A u \in Tasks : pc'[u] \in Late => pc'[u] = pc[u]
      BY <1>0, <2>1, <2>2
    <3>3. tasks' = {} /\ active' # NoTurn /\ pc'[Loop] \notin Making =>
             \E u \in Tasks : pc'[u] \in Late /\ ts'[u] = active'
      BY <1>1, <3>1 DEF HandsInv, TailsEmpty
    <3> QED
      BY <1>1, <2>2, <3>2, <3>3 DEF HandsInv, TailsEmpty
  <2>6. \A u \in Tasks : pc'[u] = "new" => held'[u] = {}
    BY <1>0, <2>1, <2>2 DEF HandsInv
  <2> QED
    BY <2>3, <2>4, <2>5, <2>6 DEF HandsInv
<1>2. ASSUME NEW i, Steer(i), UNCHANGED <<active, tasks, fresh, ts, pc, held>>
      PROVE  HandsInv'
  <2>1. tasks # {} /\ \A s \in TurnStates : s # active => pend'[s] = pend[s]
    BY <1>0, <1>2 DEF Steer, Steerable
  <2>2. \A u \in Tasks : pc[u] \in Late /\ ts[u] # NoTurn => ts[u] # active
    BY <2>1 DEF HandsInv, TailsEmpty
  <2>3. \A u \in Tasks : ts[u] \in TurnStates \cup {NoTurn}
    BY <1>0
  <2>4. TailsEmpty'
    BY <1>2, <2>1, <2>2, <2>3 DEF HandsInv, TailsEmpty
  <2>5. FreshUnused' /\ StartsAlone'
    BY <1>2 DEF HandsInv, FreshUnused, StartsAlone
  <2> QED
    BY <1>2, <2>4, <2>5 DEF HandsInv
<1>3. ASSUME UNCHANGED <<active, tasks, fresh, ts, pc, held, pend>> PROVE HandsInv'
  BY <1>3 DEF HandsInv, FreshUnused, StartsAlone, TailsEmpty
<1>4. ASSUME NEW p \in {"abort_take", "wake_check", "idle"}, pc[Loop] = "idle", pc' = [pc EXCEPT ![Loop] = p],
             UNCHANGED <<active, tasks, fresh, ts, held, pend>>
      PROVE  HandsInv'
  <2>1. ts' = [ts EXCEPT ![Loop] = ts[Loop]]
    BY <1>0, <1>4
  <2> QED
    BY <1>0, <1>4, <2>1, HandsMove
<1>5. ASSUME NEW i \in UserItems, UserInput(i) PROVE HandsInv'
  BY <1>1, <1>2, <1>5 DEF UserInput
<1>6. ASSUME NEW m \in Mail, ReceiveMail(m) PROVE HandsInv'
  BY <1>4, <1>6 DEF ReceiveMail, Goto
<1>7. ASSUME NEW i \in Notes PROVE FALSE
  BY <1>7 DEF Solo
<1>8. ASSUME NEW t \in Tasks, Approve(t) PROVE HandsInv'
  BY <1>3, <1>8 DEF Approve
<1>9. CASE QueueForNextTurn
  BY <1>9 DEF QueueForNextTurn, SoloInv
<1>10. CASE Compact
  BY <1>1, <1>10 DEF Compact
<1>11. CASE Interrupt \/ Shutdown
  BY <1>4, <1>11 DEF Interrupt, Shutdown, Move, Goto
<1>12. ASSUME NEW i \in UserItems, ClientSteer(i) PROVE HandsInv'
  BY <1>2, <1>12 DEF ClientSteer
<1>13. CASE SetGoal \/ ClearGoal
  BY <1>3, <1>13 DEF SetGoal, ClearGoal, Solo
<1>14. ASSUME NEW t \in Tasks, ReviewerAbort(t) PROVE HandsInv'
  <2>1. /\ pc'[Reviewer] = "abort_next" /\ \A b \in Actors : b # Reviewer => pc'[b] = pc[b]
        /\ ts'[Reviewer] = active /\ \A b \in Actors : b # Reviewer => ts'[b] = ts[b]
        /\ active' = NoTurn /\ tasks' = {} /\ UNCHANGED <<fresh, pend, held>> /\ tasks # {}
    BY <1>0, <1>14 DEF ReviewerAbort, Goto
  <2>2. FreshUnused'
    BY <1>0, <2>1 DEF HandsInv, FreshUnused
  <2>3. StartsAlone'
    <3>1. pc[Loop] \notin Making
      BY <2>1 DEF SoloInv
    <3> QED
      BY <1>0, <2>1, <3>1 DEF HandsInv, StartsAlone
  <2>4. \A u \in Tasks : u # Reviewer
    BY <1>0
  <2>5. TailsEmpty'
    BY <1>0, <2>1, <2>4 DEF HandsInv, TailsEmpty
  <2> QED
    BY <1>0, <2>1, <2>2, <2>3, <2>4, <2>5 DEF HandsInv
<1> QED
  BY <1>5, <1>6, <1>7, <1>8, <1>9, <1>10, <1>11, <1>12, <1>13, <1>14 DEF LoopOp, ClientOp

\* An item that is in no turn: not sent, over, in a queue or in an actor's hands.
Loose(i) == \/ i \in todo \cup mailbox \cup idle \cup consumed \cup discarded
            \/ \E a \in Actors : i \in held[a]

\* An item is kept if it is loose or pending in a turn state that is in use.
LEMMA KeptIs ==
    ASSUME NEW i
    PROVE  ~Lost(i) <=> Loose(i) \/ \E s \in TurnStates : i \in pend[s] /\ InUse(s)
BY DEF Lost, Loose

\* A step that loses sight of no item: what was loose is kept, and what was
\* pending in a turn state in use is still there or was taken out of it.
LEMMA KeptStep ==
    ASSUME NEW i, ~Lost(i), Loose(i) => ~Lost(i)',
           \A s \in TurnStates : i \in pend[s] /\ InUse(s) =>
              Loose(i)' \/ (i \in pend'[s] /\ InUse(s)')
    PROVE  ~Lost(i)'
<1>1. Loose(i)' => ~Lost(i)'
  BY DEF Lost, Loose
<1>2. ASSUME NEW s \in TurnStates, i \in pend'[s], InUse(s)' PROVE ~Lost(i)'
  BY <1>2 DEF Lost
<1> QED
  BY <1>1, <1>2, KeptIs

\* The turn states in use stay in use when one actor moves that uses none, or
\* that goes on using the one it has.
LEMMA UseStays ==
    ASSUME TypeOK, NEW a \in Actors, NEW p, pc' = [pc EXCEPT ![a] = p], active' = active,
           \A b \in Actors : b # a => ts'[b] = ts[b],
           \/ pc[a] \notin {"start_extend", "abort_next", "abort_wait", "abort_clear", "finish_take"}
           \/ /\ p \in {"start_extend", "abort_next", "abort_wait", "abort_clear", "finish_take"}
              /\ ts'[a] = ts[a]
    PROVE  \A s \in TurnStates : InUse(s) => InUse(s)'
<1>1. pc'[a] = p /\ \A b \in Actors : b # a => pc'[b] = pc[b]
  BY DEF TypeOK
<1> QED
  BY <1>1 DEF InUse

\* A step that moves no input keeps it if it leaves the turn states in use.
LEMMA KeptStays ==
    ASSUME NEW i, ~Lost(i), \A s \in TurnStates : InUse(s) => InUse(s)',
           UNCHANGED <<held, pend, mailbox, idle, todo, consumed, discarded>>
    PROVE  ~Lost(i)'
BY DEF Lost

\* start_task, by the submission loop: what it takes goes with it into the turn
\* it has made.
LEMMA StartKeeps ==
    ASSUME TypeOK, ActorsPrepared, OwnInv, SoloInv, HandsInv, Solo, NEW i \in Items, ~Lost(i),
           NEW a \in Actors, StartStep(a)
    PROVE  ~Lost(i)'
<1>0. /\ ts \in [Actors -> TurnStates \cup {NoTurn}] /\ NoTurn \notin TurnStates
      /\ pc \in [Actors -> Running \cup Finishing \cup Starting \cup Aborting \cup Resting]
      /\ pend \in [TurnStates -> SUBSET AllItems] /\ held \in [Actors -> SUBSET AllItems]
  BY ConstantsAssumption DEF TypeOK
<1>1. CASE StartTake(a)
  <2>1. \A s \in TurnStates : InUse(s) => InUse(s)'
    BY <1>1, UseStays DEF StartTake, Goto
  <2>2. Loose(i) => Loose(i)'
    BY <1>0, <1>1 DEF StartTake, Loose
  <2>3. pend' = pend
    BY <1>1 DEF StartTake
  <2> QED
    BY <2>1, <2>2, <2>3, KeptStep, KeptIs DEF Lost, Loose
<1>2. CASE StartDrain(a)
  <2>1. \A s \in TurnStates : InUse(s) => InUse(s)'
    BY <1>2, UseStays DEF StartDrain, TakePending, Goto
  <2>2. Loose(i) => Loose(i)'
    BY <1>0, <1>2 DEF StartDrain, TakePending, Loose
  <2>3. \A s \in TurnStates : i \in pend[s] => i \in pend'[s] \/ Loose(i)'
    BY <1>0, <1>2 DEF StartDrain, TakePending, TurnItems, Loose
  <2> QED
    BY <2>1, <2>2, <2>3, KeptStep DEF Lost, Loose
<1>3. CASE StartMail(a)
  <2>1. \A s \in TurnStates : InUse(s) => InUse(s)'
    BY <1>3, UseStays DEF StartMail, DrainMailbox, Goto
  <2>2. Loose(i) => Loose(i)'
    BY <1>0, <1>3 DEF StartMail, DrainMailbox, Loose
  <2>3. pend' = pend
    BY <1>3 DEF StartMail
  <2> QED
    BY <2>1, <2>2, <2>3, KeptStep DEF Lost, Loose
<1>4. CASE StartTurn(a)
  <2>1. active # NoTurn => active' = active
    BY <1>4 DEF StartTurn, GetOrInsert
  <2>2. /\ pc[a] = "start_turn" /\ \A b \in Actors : b # a => pc'[b] = pc[b] /\ ts'[b] = ts[b]
        /\ UNCHANGED <<held, pend, mailbox, idle, todo, consumed, discarded>>
    BY <1>0, <1>4 DEF StartTurn, Goto
  <2>3. \A s \in TurnStates : InUse(s) => InUse(s)'
    BY <1>0, <2>1, <2>2 DEF InUse
  <2> QED
    BY <2>2, <2>3, KeptStays
<1>5. CASE StartExtend(a)
  <2>1. a = Loop /\ ts[a] = active /\ active \in TurnStates /\ pc[a] = "start_extend" /\ active' = active
    BY <1>0, <1>5 DEF StartExtend, SoloInv, HandsInv, StartsAlone
  <2>2. /\ pc'[a] = "start_add" /\ \A b \in Actors : b # a => pc'[b] = pc[b] /\ ts'[b] = ts[b]
    BY <1>0, <1>5 DEF StartExtend, Goto
  <2>3. \A s \in TurnStates : InUse(s) => InUse(s)'
    BY <1>0, <2>1, <2>2 DEF InUse
  <2>4. /\ \A s \in TurnStates : i \in pend[s] => i \in pend'[s]
        /\ i \in held[a] => i \in pend'[active]
        /\ \A b \in Actors : b # a => held'[b] = held[b]
        /\ UNCHANGED <<mailbox, idle, todo, consumed, discarded>>
    BY <1>0, <1>5, <2>1 DEF StartExtend
  <2>5. InUse(active)'
    BY <2>1 DEF InUse
  <2>6. i \in pend'[active] => ~Lost(i)'
    BY <2>1, <2>5 DEF Lost
  <2>7. Loose(i) => ~Lost(i)'
    BY <2>4, <2>6 DEF Loose, Lost
  <2> QED
    BY <2>3, <2>4, <2>7, KeptStep
<1>6. CASE StartAdd(a)
  <2>1. a = Loop /\ active # NoTurn /\ pc[Loop] = "start_add" /\ new[a] \in Tasks
    BY <1>6 DEF StartAdd, SoloInv, HandsInv, StartsAlone, ActorsPrepared, TypeOK
  <2>2. active' = active /\ UNCHANGED <<ts, held, pend, mailbox, idle, todo, consumed, discarded>>
    BY <1>6, <2>1 DEF StartAdd, GetOrInsert
  <2>3. \A b \in Actors : b # Loop /\ b # new[a] => pc'[b] = pc[b]
    BY <1>0, <1>6, <2>1 DEF StartAdd
  <2>4. pc[new[a]] = "named"
    BY <2>1, ConstantsAssumption DEF OwnInv, NamedTasks
  <2>5. \A s \in TurnStates : InUse(s) => InUse(s)'
    BY <2>1, <2>2, <2>3, <2>4 DEF InUse
  <2> QED
    BY <2>2, <2>5, KeptStays
<1>7. CASE WakeCheck(a)
  <2>1. pc[a] = "wake_check" /\ \E p : pc' = [pc EXCEPT ![a] = p]
    BY <1>7 DEF WakeCheck, Move, Goto
  <2>2. \A s \in TurnStates : InUse(s) => InUse(s)'
    BY <1>7, <2>1, UseStays DEF WakeCheck, Move
  <2> QED
    BY <1>7, <2>2, KeptStays DEF WakeCheck, Move
<1>8. CASE WakeReserve(a)
  BY <1>8 DEF WakeReserve, SoloInv
<1> QED
  BY <1>1, <1>2, <1>3, <1>4, <1>5, <1>6, <1>7, <1>8 DEF StartStep

\* An abort takes the turn with what is pending in it, and discards that.
LEMMA AbortKeeps ==
    ASSUME TypeOK, ActorsPrepared, OwnInv, SoloInv, HandsInv, Solo, NEW i \in Items, ~Lost(i),
           NEW a \in Actors, GoalStep(a) \/ AbortStep(a)
    PROVE  ~Lost(i)'
<1>0. /\ ts \in [Actors -> TurnStates \cup {NoTurn}] /\ NoTurn \notin TurnStates
      /\ pc \in [Actors -> Running \cup Finishing \cup Starting \cup Aborting \cup Resting]
      /\ pend \in [TurnStates -> SUBSET AllItems] /\ held \in [Actors -> SUBSET AllItems]
      /\ Loop \notin Tasks
  BY ConstantsAssumption DEF TypeOK
<1>1. CASE GoalLock(a) \/ GoalCheck(a)
  <2>1. PICK p : pc' = [pc EXCEPT ![a] = p]
    BY <1>1 DEF GoalLock, GoalCheck, GoalReturn, Goto
  <2>2. /\ pc[a] \in {"goal_lock", "goal_check"} /\ UNCHANGED <<active, ts>>
        /\ UNCHANGED <<held, pend, mailbox, idle, todo, consumed, discarded>>
    BY <1>1 DEF GoalLock, GoalCheck
  <2>3. \A s \in TurnStates : InUse(s) => InUse(s)'
    BY <2>1, <2>2, UseStays
  <2> QED
    BY <2>2, <2>3, KeptStays
<1>2. CASE GoalReserve(a) \/ GoalReread(a) \/ GoalExtend(a) \/ GoalConfirm(a) \/ GoalClear(a)
  BY <1>2 DEF GoalReserve, GoalReread, GoalExtend, GoalConfirm, GoalClear, SoloInv
<1>3. CASE AbortTake(a)
  <2>1. a = Loop /\ pc[Loop] = "abort_take"
    BY <1>3 DEF AbortTake, HandsInv, StartsAlone
  <2>2. /\ \A b \in Actors : b # Loop => pc'[b] = pc[b] /\ ts'[b] = ts[b]
        /\ UNCHANGED <<held, pend, mailbox, idle, todo, consumed, discarded>>
        /\ tasks # {} => pc'[Loop] = "abort_next" /\ ts'[Loop] = active
    BY <1>0, <1>3, <2>1 DEF AbortTake, Goto
  <2>3. \A s \in TurnStates : s # active /\ InUse(s) => InUse(s)'
    BY <2>1, <2>2 DEF InUse
  <2>4. ASSUME NEW s \in TurnStates, s = active, i \in pend[s] PROVE InUse(s)'
    <3>1. CASE tasks # {}
      <4>1. ts'[Loop] = s /\ pc'[Loop] = "abort_next" /\ Loop \in Actors
        BY <2>1, <2>2, <2>4, <3>1
      <4> QED
        BY <4>1 DEF InUse
    <3>2. CASE tasks = {}
      <4>1. PICK t \in Tasks : pc[t] \in Late /\ ts[t] = active
        BY <1>0, <2>1, <2>4, <3>2 DEF HandsInv, TailsEmpty, Making
      <4>2. pc[t] = "finish_take"
        BY <1>0, <2>4, <4>1 DEF HandsInv, TailsEmpty, Late
      <4>3. t \in Actors /\ t # Loop
        BY <1>0 DEF Actors
      <4>4. pc'[t] = "finish_take" /\ ts'[t] = s
        BY <2>2, <2>4, <4>1, <4>2, <4>3
      <4> QED
        BY <4>3, <4>4 DEF InUse
    <3> QED
      BY <3>1, <3>2
  <2>5. \A s \in TurnStates : i \in pend[s] /\ InUse(s) => i \in pend'[s] /\ InUse(s)'
    BY <2>2, <2>3, <2>4
  <2>6. Loose(i) => Loose(i)'
    BY <2>2 DEF Loose
  <2> QED
    BY <2>5, <2>6, KeptStep DEF Lost, Loose
<1>4. CASE AbortCancel(a)
  <2>1. \A s \in TurnStates : InUse(s) => InUse(s)'
    BY <1>4, UseStays DEF AbortCancel, Goto
  <2> QED
    BY <1>4, <2>1, KeptStays DEF AbortCancel
<1>5. CASE AbortReport(a)
  <2>1. PICK v \in victims[a] \cap cancelled :
           /\ pc' = [pc EXCEPT ![v] = IF @ = "done" THEN @ ELSE "killed",
                               ![a] = IF victims[a] = {v} THEN "abort_clear" ELSE "abort_next"]
           /\ discarded' = discarded \cup held[v]
           /\ held' = [held EXCEPT ![v] = {}]
    BY <1>5 DEF AbortReport
  <2>2. v \in Tasks /\ pc[v] \in Alive \cup {"complete", "done"} /\ pc[a] = "abort_wait" /\ v # a
    BY <1>5 DEF AbortReport, OwnInv, DrainedTasks, LiveTasksOwned, TypeOK, Alive
  <2>3. /\ pc'[a] \in {"abort_clear", "abort_next"}
        /\ \A b \in Actors : b # a /\ b # v => pc'[b] = pc[b]
    BY <1>0, <2>1, <2>2
  <2>4. UNCHANGED <<active, ts, pend, mailbox, idle, todo, consumed>>
    BY <1>5 DEF AbortReport
  <2>5. \A s \in TurnStates : InUse(s) => InUse(s)'
    BY <2>2, <2>3, <2>4 DEF InUse, Alive
  <2>6. Loose(i) => Loose(i)'
    BY <1>0, <2>1, <2>2, <2>4 DEF Loose
  <2> QED
    BY <2>4, <2>5, <2>6, KeptStep DEF Lost, Loose
<1>6. CASE AbortClear(a)
  <2>1. /\ pc[a] = "abort_clear" /\ ts[a] \in TurnStates
        /\ \A b \in Actors : b # a => pc'[b] = pc[b] /\ ts'[b] = ts[b]
        /\ UNCHANGED <<active, held, mailbox, idle, todo, consumed>>
        /\ discarded' = discarded \cup pend[ts[a]]
        /\ \A s \in TurnStates : s # ts[a] => pend'[s] = pend[s]
    BY <1>0, <1>6 DEF AbortClear, Goto, ActorsPrepared
  <2>2. \A s \in TurnStates : s # ts[a] /\ InUse(s) => InUse(s)'
    BY <2>1 DEF InUse
  <2>3. i \in pend[ts[a]] => Loose(i)'
    BY <2>1 DEF Loose
  <2>4. Loose(i) => Loose(i)'
    BY <2>1 DEF Loose
  <2>5. \A s \in TurnStates : i \in pend[s] /\ InUse(s) => Loose(i)' \/ (i \in pend'[s] /\ InUse(s)')
    BY <2>1, <2>2, <2>3
  <2> QED
    BY <2>4, <2>5, KeptStep DEF Lost, Loose
<1> QED
  BY <1>1, <1>2, <1>3, <1>4, <1>5, <1>6 DEF GoalStep, AbortStep

\* A running turn keeps what it takes until it has recorded or discarded it.
LEMMA RunKeeps ==
    ASSUME TypeOK, ActorsPrepared, OwnInv, SoloInv, HandsInv, Solo, NEW i \in Items, ~Lost(i),
           NEW t \in Tasks, RunStep(t)
    PROVE  ~Lost(i)'
<1>0. /\ t \in Actors /\ active' = active
      /\ pc \in [Actors -> Running \cup Finishing \cup Starting \cup Aborting \cup Resting]
      /\ ts \in [Actors -> TurnStates \cup {NoTurn}]
      /\ pend \in [TurnStates -> SUBSET AllItems] /\ held \in [Actors -> SUBSET AllItems]
  BY DEF TypeOK, RunStep, RunStart, RunTurn, Drain, DrainMail, Record, SampleReturn, DeferMailbox,
     AcceptMailbox, RequestApproval, ApprovalResolved, CheckPending, RunAgain, TaskReturned, Move
<1>1. pc[t] \in Running
  BY DEF RunStep, RunStart, RunTurn, Drain, DrainMail, Record, SampleReturn, DeferMailbox, AcceptMailbox,
     RequestApproval, ApprovalResolved, CheckPending, RunAgain, TaskReturned
<1>2. PICK p : pc' = [pc EXCEPT ![t] = p]
  <2>1. CASE RunStart(t) \/ RunTurn(t) \/ Record(t)
    BY <2>1 DEF RunStart, RunTurn, Record, Goto
  <2>2. CASE Drain(t) \/ DrainMail(t) \/ RequestApproval(t) \/ ApprovalResolved(t)
    BY <2>2 DEF Drain, DrainMail, TakePending, DrainMailbox, RequestApproval, ApprovalResolved, Goto
  <2>3. CASE DeferMailbox(t) \/ AcceptMailbox(t)
    <3>1. pc' = [pc EXCEPT ![t] = pc[t]]
      BY <1>0, <2>3 DEF DeferMailbox, AcceptMailbox
    <3> QED
      BY <3>1
  <2>4. CASE SampleReturn(t) \/ CheckPending(t) \/ RunAgain(t) \/ TaskReturned(t)
    BY <2>4 DEF SampleReturn, CheckPending, RunAgain, TaskReturned, Move, Goto
  <2> QED
    BY <2>1, <2>2, <2>3, <2>4 DEF RunStep
<1>3. \A b \in Actors : b # t => ts'[b] = ts[b]
  <2>1. CASE RequestApproval(t) \/ ApprovalResolved(t)
    BY <1>0, <2>1 DEF RequestApproval, ApprovalResolved
  <2>2. CASE UNCHANGED ts
    BY <2>2
  <2> QED
    BY <2>1, <2>2 DEF RunStep, RunStart, RunTurn, Drain, DrainMail, Record, SampleReturn, DeferMailbox,
       AcceptMailbox, CheckPending, RunAgain, TaskReturned, Move
<1>4. \A s \in TurnStates : InUse(s) => InUse(s)'
  BY <1>0, <1>1, <1>2, <1>3, UseStays
<1>5. ASSUME Loose(i) => Loose(i)', \A s \in TurnStates : i \in pend[s] => i \in pend'[s] \/ Loose(i)'
      PROVE  ~Lost(i)'
  BY <1>4, <1>5, KeptStep DEF Lost, Loose
<1>6. CASE RunStart(t) \/ RunTurn(t) \/ Record(t)
  <2>1. Loose(i) => Loose(i)'
    <3>1. CASE RunStart(t) \/ RunTurn(t)
      BY <1>0, <3>1 DEF RunStart, RunTurn, Loose
    <3>2. CASE Record(t)
      BY <1>0, <3>2 DEF Record, Loose
    <3> QED
      BY <1>6, <3>1, <3>2
  <2>2. pend' = pend
    BY <1>6 DEF RunStart, RunTurn, Record
  <2> QED
    BY <1>5, <2>1, <2>2
<1>7. CASE Drain(t)
  <2>1. Loose(i) => Loose(i)'
    BY <1>0, <1>7 DEF Drain, TakePending, Loose
  <2>2. \A s \in TurnStates : i \in pend[s] => i \in pend'[s] \/ Loose(i)'
    <3>1. NoTurn \notin TurnStates
      BY ConstantsAssumption
    <3>2. \A s \in TurnStates : s # active => pend'[s] = pend[s]
      BY <1>7 DEF Drain, TakePending
    <3>3. active \in TurnStates => pend[active] \subseteq held'[t]
      BY <1>0, <1>7, <3>1 DEF Drain, TakePending, TurnItems
    <3> QED
      BY <1>0, <3>2, <3>3 DEF Loose
  <2> QED
    BY <1>5, <2>1, <2>2
<1>8. CASE DrainMail(t)
  <2>1. Loose(i) => Loose(i)'
    BY <1>0, <1>8 DEF DrainMail, DrainMailbox, Loose
  <2>2. pend' = pend
    BY <1>8 DEF DrainMail
  <2> QED
    BY <1>5, <2>1, <2>2
<1>9. CASE UNCHANGED <<held, pend, mailbox, idle, todo, consumed, discarded>>
  BY <1>4, <1>9, KeptStays
<1> QED
  BY <1>6, <1>7, <1>8, <1>9 DEF RunStep, SampleReturn, DeferMailbox, AcceptMailbox,
     RequestApproval, ApprovalResolved, CheckPending, RunAgain, TaskReturned, Move

\* on_task_finished records what is left in its turn before it clears it.
LEMMA FinishKeeps ==
    ASSUME TypeOK, ActorsPrepared, OwnInv, SoloInv, HandsInv, Solo, NEW i \in Items, ~Lost(i),
           NEW t \in Tasks, FinishStep(t)
    PROVE  ~Lost(i)'
<1>0. /\ t \in Actors /\ NoTurn \notin TurnStates
      /\ pc \in [Actors -> Running \cup Finishing \cup Starting \cup Aborting \cup Resting]
      /\ ts \in [Actors -> TurnStates \cup {NoTurn}]
      /\ pend \in [TurnStates -> SUBSET AllItems] /\ held \in [Actors -> SUBSET AllItems]
  BY ConstantsAssumption DEF TypeOK
<1>1. CASE FinishRemove(t) \/ FinishComplete(t)
  <2>1. PICK p : pc' = [pc EXCEPT ![t] = p]
    BY <1>1 DEF FinishRemove, FinishComplete, Goto
  <2>2. /\ pc[t] \in {"finish", "complete"} /\ active' = active
        /\ \A b \in Actors : b # t => ts'[b] = ts[b]
        /\ UNCHANGED <<held, pend, mailbox, idle, todo, consumed, discarded>>
    BY <1>0, <1>1 DEF FinishRemove, FinishComplete
  <2>3. \A s \in TurnStates : InUse(s) => InUse(s)'
    BY <1>0, <2>1, <2>2, UseStays
  <2> QED
    BY <2>2, <2>3, KeptStays
<1>2. CASE FinishTake(t)
  <2>1. /\ pc[t] = "finish_take" /\ ts[t] \in TurnStates
        /\ \A b \in Actors : b # t => pc'[b] = pc[b]
        /\ UNCHANGED <<active, ts, held, mailbox, idle, todo, discarded>>
        /\ consumed' = consumed \cup pend[ts[t]]
        /\ \A s \in TurnStates : s # ts[t] => pend'[s] = pend[s]
    BY <1>0, <1>2 DEF FinishTake, Goto, ActorsPrepared
  <2>2. \A s \in TurnStates : s # ts[t] /\ InUse(s) => InUse(s)'
    BY <2>1 DEF InUse
  <2>3. i \in pend[ts[t]] => Loose(i)'
    BY <2>1 DEF Loose
  <2>4. Loose(i) => Loose(i)'
    BY <2>1 DEF Loose
  <2>5. \A s \in TurnStates : i \in pend[s] /\ InUse(s) => Loose(i)' \/ (i \in pend'[s] /\ InUse(s)')
    BY <2>1, <2>2, <2>3
  <2> QED
    BY <2>4, <2>5, KeptStep DEF Lost, Loose
<1>3. CASE FinishClear(t)
  <2>1. /\ pc[t] = "clear" /\ \A b \in Actors : b # t => pc'[b] = pc[b] /\ ts'[b] = ts[b]
        /\ active' = IF active = ts[t] /\ tasks = {} THEN NoTurn ELSE active
        /\ UNCHANGED <<held, pend, mailbox, idle, todo, consumed, discarded>>
    BY <1>0, <1>3 DEF FinishClear, StillReserved, Goto
  <2>2. \A s \in TurnStates : pend[s] # {} /\ InUse(s) => InUse(s)'
    <3>1. ts[t] # NoTurn => pend[ts[t]] = {}
      BY <2>1 DEF HandsInv, TailsEmpty
    <3> QED
      BY <1>0, <2>1, <3>1 DEF InUse
  <2> QED
    BY <2>1, <2>2 DEF Lost
<1> QED
  BY <1>1, <1>2, <1>3 DEF FinishStep

\* The ops put new input into the active turn, a queue, or the context of the
\* turn they start; the auto-review's interrupt holds on to the turn it takes.
LEMMA OpKeeps ==
    ASSUME TypeOK, ActorsPrepared, OwnInv, SoloInv, HandsInv, Solo, NEW i \in Items, ~Lost(i),
           LoopOp \/ ClientOp \/ \E t \in Tasks : ReviewerAbort(t)
    PROVE  ~Lost(i)'
<1>0. /\ Loop \in Actors /\ Reviewer \in Actors /\ Reviewer # Loop /\ Tasks \subseteq Actors
      /\ Loop \notin Tasks /\ Reviewer \notin Tasks /\ NoTurn \notin TurnStates
      /\ ts \in [Actors -> TurnStates \cup {NoTurn}]
      /\ pc \in [Actors -> Running \cup Finishing \cup Starting \cup Aborting \cup Resting]
      /\ active \in TurnStates \cup {NoTurn}
      /\ pend \in [TurnStates -> SUBSET AllItems] /\ held \in [Actors -> SUBSET AllItems]
  BY ConstantsAssumption DEF TypeOK
<1>1. ASSUME NEW k, NEW input, NameTask(Loop, k, input, "abort_take"), pc[Loop] = "idle",
             todo \subseteq todo' \cup input,
             UNCHANGED <<active, ts, pend, mailbox, idle, consumed, discarded>>
      PROVE  ~Lost(i)'
  <2>1. NewSubId \in Tasks /\ pc[NewSubId] = "new" /\ NewSubId # Loop /\ held[NewSubId] = {}
    BY <1>0, <1>1, NewSubIdType DEF NameTask, HandsInv
  <2>2. /\ \A b \in Actors : b # Loop /\ b # NewSubId => pc'[b] = pc[b]
        /\ \A b \in Actors : b # NewSubId => held'[b] = held[b]
        /\ held'[NewSubId] = input
    BY <1>0, <1>1, <2>1 DEF NameTask
  <2>3. \A s \in TurnStates : InUse(s) => InUse(s)'
    BY <1>1, <2>1, <2>2 DEF InUse
  <2>4. Loose(i) => Loose(i)'
    BY <1>0, <1>1, <2>1, <2>2 DEF Loose
  <2> QED
    BY <1>1, <2>3, <2>4, KeptStep DEF Lost, Loose
<1>2. ASSUME NEW j, Steer(j), todo' = todo \ {j},
             UNCHANGED <<active, ts, pc, held, mailbox, idle, consumed, discarded>>
      PROVE  ~Lost(i)'
  <2>1. active \in TurnStates /\ j \in pend'[active] /\ \A s \in TurnStates : pend[s] \subseteq pend'[s]
    BY <1>0, <1>2 DEF Steer, Steerable, ActorsPrepared
  <2>2. \A s : InUse(s)' <=> InUse(s)
    BY <1>2 DEF InUse
  <2>3. InUse(active)
    BY DEF InUse
  <2> QED
    BY <1>2, <2>1, <2>2, <2>3 DEF Lost
<1>3. ASSUME NEW p, pc[Loop] = "idle", pc' = [pc EXCEPT ![Loop] = p], UNCHANGED <<active, ts>>
      PROVE  \A s \in TurnStates : InUse(s) => InUse(s)'
  BY <1>0, <1>3, UseStays
<1>4. ASSUME NEW j \in UserItems, UserInput(j) PROVE ~Lost(i)'
  <2>1. CASE Steer(j) /\ UNCHANGED <<pc, held>>
    BY <1>2, <1>4, <2>1 DEF UserInput
  <2>2. CASE NameTask(Loop, "Regular", {j}, "abort_take") /\ UNCHANGED pend
    BY <1>1, <1>4, <2>2 DEF UserInput
  <2> QED
    BY <1>4, <2>1, <2>2 DEF UserInput
<1>5. ASSUME NEW m \in Mail, ReceiveMail(m) PROVE ~Lost(i)'
  <2>1. \A s \in TurnStates : InUse(s) => InUse(s)'
    BY <1>3, <1>5 DEF ReceiveMail, Goto
  <2> QED
    BY <1>5, <2>1 DEF ReceiveMail, Lost
<1>6. ASSUME NEW j \in Notes PROVE FALSE
  BY <1>6 DEF Solo
<1>7. ASSUME NEW t \in Tasks, Approve(t) PROVE ~Lost(i)'
  BY <1>7, KeptStays DEF Approve, InUse
<1>8. CASE QueueForNextTurn
  BY <1>8 DEF QueueForNextTurn, SoloInv
<1>9. CASE Compact
  BY <1>1, <1>9 DEF Compact
<1>10. CASE Interrupt \/ Shutdown
  <2>1. \A s \in TurnStates : InUse(s) => InUse(s)'
    BY <1>3, <1>10 DEF Interrupt, Shutdown, Move, Goto
  <2> QED
    BY <1>10, <2>1, KeptStays DEF Interrupt, Shutdown, Move
<1>11. ASSUME NEW j \in UserItems, ClientSteer(j) PROVE ~Lost(i)'
  BY <1>2, <1>11 DEF ClientSteer
<1>12. CASE SetGoal \/ ClearGoal
  BY <1>12, KeptStays DEF SetGoal, ClearGoal, Solo, InUse
<1>13. ASSUME NEW t \in Tasks, ReviewerAbort(t) PROVE ~Lost(i)'
  <2>1. /\ pc[Reviewer] = "idle" /\ pc'[Reviewer] = "abort_next" /\ ts'[Reviewer] = active
        /\ \A b \in Actors : b # Reviewer => pc'[b] = pc[b] /\ ts'[b] = ts[b]
        /\ UNCHANGED <<held, pend, mailbox, idle, todo, consumed, discarded>>
    BY <1>0, <1>13 DEF ReviewerAbort, Goto
  <2>2. \A s \in TurnStates : InUse(s) => InUse(s)'
    BY <1>0, <2>1 DEF InUse
  <2> QED
    BY <2>1, <2>2, KeptStays
<1> QED
  BY <1>4, <1>5, <1>6, <1>7, <1>8, <1>9, <1>10, <1>11, <1>12, <1>13 DEF LoopOp, ClientOp

\* Accepted input is never lost in a session without mail that triggers turns,
\* injected notes and goals: it is on its way, was recorded, or went down with a
\* turn that failed or was aborted, through every steer, replacement, interrupt
\* and finish that may meet it.
THEOREM SoloInputKept == ASSUME Solo PROVE Spec => []InputKept
<1>1. Init => HandsInv /\ InputKept
  <2> SUFFICES ASSUME Init PROVE HandsInv /\ InputKept
    OBVIOUS
  <2>1. HandsInv
    BY ConstantsAssumption DEF Init, HandsInv, FreshUnused, StartsAlone, TailsEmpty
  <2>2. InputKept
    BY DEF Init, InputKept, Lost
  <2> QED
    BY <2>1, <2>2
<1>2. TypeOK /\ ActorsPrepared /\ OwnInv /\ SoloInv /\ HandsInv /\ InputKept /\ [Next]_vars
         => HandsInv' /\ InputKept'
  <2> SUFFICES ASSUME TypeOK, ActorsPrepared, OwnInv, SoloInv, HandsInv, InputKept, [Next]_vars
               PROVE  HandsInv' /\ InputKept'
    OBVIOUS
  <2>1. HandsInv'
    <3>1. CASE UNCHANGED vars
      BY <3>1 DEF vars, HandsInv, FreshUnused, StartsAlone, TailsEmpty
    <3> QED
      BY <3>1, StartHands, AbortHands, RunHands, FinishHands, OpHands DEF Next
  <2>2. ASSUME NEW i \in Items PROVE ~Lost(i)'
    <3>0. ~Lost(i)
      BY DEF InputKept
    <3>1. CASE UNCHANGED vars
      BY <3>0, <3>1, KeptStays DEF vars, InUse
    <3> QED
      BY <3>0, <3>1, StartKeeps, AbortKeeps, RunKeeps, FinishKeeps, OpKeeps DEF Next
  <2> QED
    BY <2>1, <2>2 DEF InputKept
<1> QED
  BY <1>1, <1>2, TypeCorrect, OwnInvariant, SoloInvariant, PTL DEF Spec


=============================================================================
