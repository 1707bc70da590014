--------------------------- MODULE TurnLifecycle ---------------------------
(***************************************************************************)
(* The turn and task lifecycle of a session (codex-rs/core): which task is *)
(* running, who may start, replace, interrupt and finish it, and where     *)
(* every piece of input is on its way to the model.                        *)
(*                                                                         *)
(* `Session::active_turn` is a mutex; the functions that use it release it *)
(* at every await.  One action below is one critical section (or one       *)
(* stretch of code that touches no shared state but its own), so the       *)
(* interleavings of the model are those of the program.  The actors are    *)
(* the submission loop, the tokio task that runs each turn (which also     *)
(* runs the tail that may start the next turn), the auto-review helper     *)
(* that interrupts a turn, and the client thread of the app-server.        *)
(***************************************************************************)
EXTENDS Naturals, Sequences

CONSTANTS
    Tasks,         \* turn sub-ids, each naming one task
    TurnStates,    \* TurnState allocations (Arc identities)
    UserItems,     \* user messages
    TriggerMail,   \* inter-agent mail with trigger_turn = true
    QuietMail,     \* inter-agent mail with trigger_turn = false
    Notes,         \* developer notes injected with inject_response_items
    GoalPrompt,    \* the continuation prompt of an active goal
    GoalsEnabled,  \* Feature::Goals
    Ops,           \* which optional operations the environment makes use of
    Loop, Reviewer, Client,    \* the actors that are not turns
    NoTurn, NoTask             \* None

Actors == Tasks \cup {Loop, Reviewer, Client}
Mail   == TriggerMail \cup QuietMail
Items  == UserItems \cup Mail \cup Notes

ASSUME ConstantsAssumption ==
    /\ Loop \notin Tasks /\ Reviewer \notin Tasks /\ Client \notin Tasks
    /\ Loop # Reviewer /\ Loop # Client /\ Reviewer # Client
    /\ NoTurn \notin TurnStates
    /\ NoTask \notin Tasks
    /\ GoalPrompt \notin Items
    /\ UserItems \cap Mail = {} /\ Mail \cap Notes = {}
    /\ TriggerMail \cap QuietMail = {}
    /\ GoalsEnabled \in BOOLEAN
    /\ Ops \subseteq {"Compact", "Interrupt", "Shutdown", "Review", "Approval", "Defer"}

VARIABLES
    active,     \* turn_state of the active turn, or NoTurn
    tasks,      \* ActiveTurn::tasks ({} when there is no active turn)
    fresh,      \* TurnState allocations not made yet
    pend,       \* TurnState::pending_input
    phase,      \* TurnState::mailbox_delivery_phase
    waiters,    \* TurnState::pending_approvals, by the task that waits
    mailbox,    \* InputQueue::mailbox_pending_mails
    idle,       \* InputQueue::idle_pending_input
    goal,       \* the thread has a goal with status Active
    contLock,   \* holder of goal_runtime.continuation_lock, or NoTask
    pc,         \* where each actor is
    new,        \* the turn context an actor is about to start, or NoTask
    ts,         \* the turn_state an actor holds an Arc to, or NoTurn
    held,       \* input an actor has taken out of a queue
    victims,    \* tasks an actor drained from the active turn to abort
    kind,       \* TaskKind of a task
    cancelled,  \* tasks whose cancellation token is set
    events,     \* lifecycle events sent for each turn, in order
    todo,       \* input nobody has sent yet
    consumed,   \* input that reached the hooks and the history
    discarded,  \* input thrown away with an aborted or failed turn
    closing     \* Op::Shutdown was received

turnVars  == <<active, tasks, fresh>>
stateVars == <<pend, phase, waiters>>
queueVars == <<mailbox, idle>>
goalVars  == <<goal, contLock>>
actorVars == <<new, ts, held, victims>>
logVars   == <<todo, consumed, discarded>>
vars == <<active, tasks, fresh, pend, phase, waiters, mailbox, idle, goal,
          contLock, pc, new, ts, held, victims, kind, cancelled, events,
          todo, consumed, discarded, closing>>

\* Program counters of the tokio task that runs a turn, before it has decided
\* to finish (Running) and while it runs on_task_finished.
Running   == {"run", "pre", "drain", "drain_mail", "record", "sample",
              "approval", "check", "again", "flushed"}
Finishing == {"finish", "finish_take", "complete", "clear"}
\* maybe_start_turn_for_pending_work, the goal continuation and start_task.
Starting  == {"wake_check", "wake_reserve", "goal_lock", "goal_check",
              "goal_reserve", "goal_reread", "goal_extend", "goal_confirm", "goal_clear",
              "start_take", "start_drain", "start_mail", "start_turn",
              "start_extend", "start_add"}
Aborting  == {"abort_take", "abort_next", "abort_wait", "abort_clear"}
Resting   == {"new", "named", "done", "killed", "idle", "queue_idle", "stopped"}

Init ==
    /\ active = NoTurn /\ tasks = {} /\ fresh = TurnStates
    /\ pend = [s \in TurnStates |-> {}]
    /\ phase = [s \in TurnStates |-> "CurrentTurn"]
    /\ waiters = [s \in TurnStates |-> {}]
    /\ mailbox = {} /\ idle = {}
    /\ goal = FALSE /\ contLock = NoTask
    /\ pc = [a \in Actors |-> IF a \in Tasks THEN "new" ELSE "idle"]
    /\ new = [a \in Actors |-> NoTask]
    /\ ts = [a \in Actors |-> NoTurn]
    /\ held = [a \in Actors |-> {}]
    /\ victims = [a \in Actors |-> {}]
    /\ kind = [t \in Tasks |-> "Regular"]
    /\ cancelled = {}
    /\ events = [t \in Tasks |-> << >>]
    /\ todo = Items /\ consumed = {} /\ discarded = {}
    /\ closing = FALSE

-----------------------------------------------------------------------------
(* Shared pieces *)

Goto(a, p) == pc' = [pc EXCEPT ![a] = p]

\* A step that changes nothing but where the actor is.
Move(a, p) ==
    /\ Goto(a, p)
    /\ UNCHANGED <<turnVars, stateVars, queueVars, goalVars, actorVars, kind,
                   cancelled, events, logVars, closing>>

Send(t, e) == events' = [events EXCEPT ![t] = Append(@, e)]

\* Where an actor stops when the lifecycle code it was running returns: a
\* turn's tokio task is over, the submission loop takes its next op or, once
\* Op::Shutdown was handled, ends.
Rest(a) == IF a \in Tasks THEN "done"
           ELSE IF a = Loop /\ closing THEN "stopped" ELSE "idle"

\* maybe_continue_goal_if_idle_runtime tries the goal continuation after the
\* pending work; only the tail of a turn and the client call it.
AfterWake(a) == IF a \in Tasks \cup {Client} THEN "goal_lock" ELSE Rest(a)

\* Arc::new and Uuid::new_v4 give an identity that was never used before;
\* which one makes no difference.
NewTurnState == CHOOSE s \in fresh : TRUE
Unnamed == {t \in Tasks : pc[t] = "new"}
NewSubId == CHOOSE t \in Unnamed : TRUE

\* active.get_or_insert_with(ActiveTurn::default)
GetOrInsert ==
    \/ active # NoTurn /\ UNCHANGED <<active, fresh>>
    \/ /\ active = NoTurn /\ fresh # {}
       /\ active' = NewTurnState /\ fresh' = fresh \ {NewTurnState}

\* InputQueue::get_pending_input, the part under the active-turn lock, and
\* the mailbox drain that follows it once the lock is gone.
TurnItems == IF active = NoTurn THEN {} ELSE pend[active]
AcceptsMailbox == active = NoTurn \/ phase[active] = "CurrentTurn"

\* Mutant of TakePending: the pending input is copied, not taken.
TakePendingCopies(a, mailPc, nextPc) ==
    /\ held' = [held EXCEPT ![a] = @ \cup TurnItems]
    /\ UNCHANGED pend
    /\ Goto(a, IF AcceptsMailbox THEN mailPc ELSE nextPc)

TakePending(a, mailPc, nextPc) ==
    /\ held' = [held EXCEPT ![a] = @ \cup TurnItems]
    /\ pend' = [s \in TurnStates |-> IF s = active THEN {} ELSE pend[s]]
    /\ Goto(a, IF AcceptsMailbox THEN mailPc ELSE nextPc)

DrainMailbox(a, nextPc) ==
    /\ held' = [held EXCEPT ![a] = @ \cup mailbox]
    /\ mailbox' = {}
    /\ Goto(a, nextPc)

\* InputQueue::has_pending_input
HasPendingInput == TurnItems # {} \/ (AcceptsMailbox /\ mailbox # {})

\* has_queued_response_items_for_next_turn || has_trigger_turn_mailbox_items
PendingWork == idle # {} \/ mailbox \cap TriggerMail # {}

\* new_turn_with_sub_id: a turn context for a turn that is not running yet;
\* its own input travels in held, under its sub-id.
NameTask(a, k, input, nextPc) ==
    /\ Unnamed # {}
    /\ new' = [new EXCEPT ![a] = NewSubId]
    /\ kind' = [kind EXCEPT ![NewSubId] = k]
    /\ held' = [held EXCEPT ![NewSubId] = input]
    /\ pc' = [pc EXCEPT ![NewSubId] = "named", ![a] = nextPc]

-----------------------------------------------------------------------------
(* start_task, by the actor that calls it *)

\* take_queued_response_items_for_next_turn
StartTake(a) ==
    /\ pc[a] = "start_take"
    /\ held' = [held EXCEPT ![a] = @ \cup idle]
    /\ idle' = {}
    /\ Goto(a, "start_drain")
    /\ UNCHANGED <<turnVars, stateVars, mailbox, goalVars, new, ts, victims,
                   kind, cancelled, events, logVars, closing>>

\* get_pending_input, in two critical sections
StartDrain(a) ==
    /\ pc[a] = "start_drain"
    /\ TakePending(a, "start_mail", "start_turn")
    /\ UNCHANGED <<turnVars, phase, waiters, queueVars, goalVars, new, ts,
                   victims, kind, cancelled, events, logVars, closing>>

StartMail(a) ==
    /\ pc[a] = "start_mail"
    /\ DrainMailbox(a, "start_turn")
    /\ UNCHANGED <<turnVars, stateVars, idle, goalVars, new, ts, victims,
                   kind, cancelled, events, logVars, closing>>

\* The first lock of active_turn: adopt the turn that is there or make one.
StartTurn(a) ==
    /\ pc[a] = "start_turn"
    /\ GetOrInsert
    /\ ts' = [ts EXCEPT ![a] = active']
    /\ Goto(a, "start_extend")
    /\ UNCHANGED <<tasks, stateVars, queueVars, goalVars, new, held, victims,
                   kind, cancelled, events, logVars, closing>>

\* extend_pending_input_for_turn_state, on the turn_state seen before
StartExtend(a) ==
    /\ pc[a] = "start_extend"
    /\ pend' = [pend EXCEPT ![ts[a]] = @ \cup held[a]]
    /\ held' = [held EXCEPT ![a] = {}]
    /\ ts' = [ts EXCEPT ![a] = NoTurn]
    /\ Goto(a, "start_add")
    /\ UNCHANGED <<turnVars, phase, waiters, queueVars, goalVars, new,
                   victims, kind, cancelled, events, logVars, closing>>

\* The second lock: spawn the tokio task and add it to the active turn.
StartAdd(a) ==
    /\ pc[a] = "start_add"
    /\ GetOrInsert
    /\ tasks' = tasks \cup {new[a]}
    /\ pc' = [pc EXCEPT ![new[a]] = "run",
                        ![a] = IF contLock = a THEN Rest(a) ELSE AfterWake(a)]
    /\ contLock' = IF contLock = a THEN NoTask ELSE contLock
    /\ new' = [new EXCEPT ![a] = NoTask]
    /\ UNCHANGED <<stateVars, queueVars, goal, ts, held, victims, kind,
                   cancelled, events, logVars, closing>>

-----------------------------------------------------------------------------
(* maybe_start_turn_for_pending_work_with_sub_id *)

WakeCheck(a) ==
    /\ pc[a] = "wake_check"
    /\ Move(a, IF PendingWork THEN "wake_reserve" ELSE AfterWake(a))

\* Mutant of WakeReserve: the turn is made without a look at the one that is there.
WakeReserveAnew(a) ==
    /\ pc[a] = "wake_reserve" /\ fresh # {}
    /\ active' = NewTurnState /\ fresh' = fresh \ {NewTurnState}
    /\ NameTask(a, "Regular", {}, "start_take")
    /\ UNCHANGED <<tasks, stateVars, queueVars, goalVars, ts, victims,
                   cancelled, events, logVars, closing>>

\* Reserve an empty active turn, unless there is a turn by now.
WakeReserve(a) ==
    /\ pc[a] = "wake_reserve"
    /\ \/ /\ active # NoTurn
          /\ Goto(a, AfterWake(a))
          /\ UNCHANGED <<active, fresh, new, held, kind>>
       \/ /\ active = NoTurn
          /\ GetOrInsert
          /\ NameTask(a, "Regular", {}, "start_take")
    /\ UNCHANGED <<tasks, stateVars, queueVars, goalVars, ts, victims,
                   cancelled, events, logVars, closing>>

-----------------------------------------------------------------------------
(* maybe_start_goal_continuation_turn *)

GoalLock(a) ==
    /\ pc[a] = "goal_lock"
    /\ contLock = NoTask
    /\ contLock' = a
    /\ Goto(a, "goal_check")
    /\ UNCHANGED <<turnVars, stateVars, queueVars, goal, actorVars, kind,
                   cancelled, events, logVars, closing>>

GoalReturn(a) == Goto(a, Rest(a)) /\ contLock' = NoTask

\* goal_continuation_candidate_if_active: idle, no pending work, goal Active.
\* Plan mode and a state db that cannot be read also end it.
GoalCheck(a) ==
    /\ pc[a] = "goal_check"
    /\ \/ /\ GoalsEnabled /\ active = NoTurn /\ ~PendingWork /\ goal
          /\ Goto(a, "goal_reserve") /\ UNCHANGED contLock
       \/ GoalReturn(a)
    /\ UNCHANGED <<turnVars, stateVars, queueVars, goal, actorVars, kind,
                   cancelled, events, logVars, closing>>

GoalReserve(a) ==
    /\ pc[a] = "goal_reserve"
    /\ \/ /\ active # NoTurn
          /\ GoalReturn(a)
          /\ UNCHANGED <<active, fresh, ts>>
       \/ /\ active = NoTurn
          /\ GetOrInsert
          /\ ts' = [ts EXCEPT ![a] = active']
          /\ Goto(a, "goal_reread")
          /\ UNCHANGED contLock
    /\ UNCHANGED <<tasks, stateVars, queueVars, goal, new, held, victims,
                   kind, cancelled, events, logVars, closing>>

\* The reservation is still this actor's and nobody has put a task in it.
StillReserved(a) == active = ts[a] /\ tasks = {}

\* The goal is read again from the state db: it may have stopped, or the read
\* may fail.
GoalReread(a) ==
    /\ pc[a] = "goal_reread"
    /\ \/ goal /\ Move(a, "goal_extend")
       \/ Move(a, "goal_clear")

GoalExtend(a) ==
    /\ pc[a] = "goal_extend"
    /\ pend' = [pend EXCEPT ![ts[a]] = @ \cup {GoalPrompt}]
    /\ Goto(a, "goal_confirm")
    /\ UNCHANGED <<turnVars, phase, waiters, queueVars, goalVars, actorVars,
                   kind, cancelled, events, logVars, closing>>

GoalConfirm(a) ==
    /\ pc[a] = "goal_confirm"
    /\ \/ /\ StillReserved(a)
          /\ NameTask(a, "Regular", {}, "start_take")
          /\ ts' = [ts EXCEPT ![a] = NoTurn]
       \/ /\ ~StillReserved(a)
          /\ Goto(a, "goal_clear")
          /\ UNCHANGED <<new, ts, held, kind>>
    /\ UNCHANGED <<turnVars, stateVars, queueVars, goalVars, victims,
                   cancelled, events, logVars, closing>>

\* clear_reserved_goal_continuation_turn, and the return that follows it
GoalClear(a) ==
    /\ pc[a] = "goal_clear"
    /\ active' = IF StillReserved(a) THEN NoTurn ELSE active
    /\ ts' = [ts EXCEPT ![a] = NoTurn]
    /\ GoalReturn(a)
    /\ UNCHANGED <<tasks, fresh, stateVars, queueVars, goal, new, held,
                   victims, kind, cancelled, events, logVars, closing>>

-----------------------------------------------------------------------------
(* abort_all_tasks and abort_turn_if_active: new[a] # NoTask means the turn *)
(* is Replaced by new[a], otherwise it is Interrupted.                      *)

\* take_active_turn and drain_tasks
AbortTake(a) ==
    /\ pc[a] = "abort_take"
    /\ active' = NoTurn /\ tasks' = {}
    /\ victims' = [victims EXCEPT ![a] = tasks]
    /\ ts' = [ts EXCEPT ![a] = IF tasks = {} THEN NoTurn ELSE active]
    /\ Goto(a, IF tasks # {} THEN "abort_next"
               ELSE IF new[a] # NoTask THEN "start_take" ELSE Rest(a))
    /\ UNCHANGED <<fresh, stateVars, queueVars, goalVars, new, held, kind,
                   cancelled, events, logVars, closing>>

\* handle_task_abort up to the wait: cancel the token.  (Its early return, for
\* a token that is already cancelled, is never taken: see RegisteredTasksLive.)
AbortCancel(a) ==
    /\ pc[a] = "abort_next"
    /\ \E v \in victims[a] : cancelled' = cancelled \cup {v}
    /\ Goto(a, "abort_wait")
    /\ UNCHANGED <<turnVars, stateVars, queueVars, goalVars, actorVars, kind,
                   events, logVars, closing>>

\* Mutants of AbortReport: no TurnAborted for a task that is already over; no
\* handle.abort(); no timeout on the wait.
AbortReportQuiet(a) ==
    /\ pc[a] = "abort_wait"
    /\ \E v \in victims[a] \cap cancelled :
         /\ victims' = [victims EXCEPT ![a] = @ \ {v}]
         /\ pc' = [pc EXCEPT ![v] = IF @ = "done" THEN @ ELSE "killed",
                             ![a] = IF victims[a] = {v} THEN "abort_clear" ELSE "abort_next"]
         /\ discarded' = discarded \cup held[v]
         /\ held' = [held EXCEPT ![v] = {}]
         /\ IF pc[v] = "done" THEN UNCHANGED events ELSE Send(v, "TurnAborted")
    /\ UNCHANGED <<turnVars, stateVars, queueVars, goalVars, new, ts, kind,
                   cancelled, todo, consumed, closing>>

AbortReportDetached(a) ==
    /\ pc[a] = "abort_wait"
    /\ \E v \in victims[a] \cap cancelled :
         /\ victims' = [victims EXCEPT ![a] = @ \ {v}]
         /\ pc' = [pc EXCEPT ![a] = IF victims[a] = {v} THEN "abort_clear" ELSE "abort_next"]
         /\ UNCHANGED <<discarded, held>>
         /\ Send(v, "TurnAborted")
    /\ UNCHANGED <<turnVars, stateVars, queueVars, goalVars, new, ts, kind,
                   cancelled, todo, consumed, closing>>

AbortReportPatient(a) ==
    /\ pc[a] = "abort_wait"
    /\ \E v \in victims[a] \cap cancelled :
         /\ pc[v] = "done"
         /\ victims' = [victims EXCEPT ![a] = @ \ {v}]
         /\ pc' = [pc EXCEPT ![v] = IF @ = "done" THEN @ ELSE "killed",
                             ![a] = IF victims[a] = {v} THEN "abort_clear" ELSE "abort_next"]
         /\ discarded' = discarded \cup held[v]
         /\ held' = [held EXCEPT ![v] = {}]
         /\ Send(v, "TurnAborted")
    /\ UNCHANGED <<turnVars, stateVars, queueVars, goalVars, new, ts, kind,
                   cancelled, todo, consumed, closing>>

\* handle_task_abort after the wait, which ends when the task is done or
\* after 100 ms: handle.abort(), the marker, TurnAborted
AbortReport(a) ==
    /\ pc[a] = "abort_wait"
    /\ \E v \in victims[a] \cap cancelled :
         /\ victims' = [victims EXCEPT ![a] = @ \ {v}]
         /\ pc' = [pc EXCEPT ![v] = IF @ = "done" THEN @ ELSE "killed",
                             ![a] = IF victims[a] = {v} THEN "abort_clear" ELSE "abort_next"]
         /\ discarded' = discarded \cup held[v]
         /\ held' = [held EXCEPT ![v] = {}]
         /\ Send(v, "TurnAborted")
    /\ UNCHANGED <<turnVars, stateVars, queueVars, goalVars, new, ts, kind,
                   cancelled, todo, consumed, closing>>

\* clear_pending, then the next turn: the one that replaces, or pending work
AbortClear(a) ==
    /\ pc[a] = "abort_clear"
    /\ discarded' = discarded \cup pend[ts[a]]
    /\ pend' = [pend EXCEPT ![ts[a]] = {}]
    /\ waiters' = [waiters EXCEPT ![ts[a]] = {}]
    /\ ts' = [ts EXCEPT ![a] = NoTurn]
    /\ Goto(a, IF new[a] # NoTask THEN "start_take" ELSE "wake_check")
    /\ UNCHANGED <<turnVars, phase, queueVars, goalVars, new, held, victims,
                   kind, cancelled, events, todo, consumed, closing>>

\* abort_turn_if_active, spawned by the auto-review of a turn: it takes the
\* turn only while that turn is in it.
ReviewerAbort(t) ==
    /\ "Review" \in Ops
    /\ pc[Reviewer] = "idle"
    /\ t \in tasks
    /\ events[t] # << >>
    /\ active' = NoTurn /\ tasks' = {}
    /\ victims' = [victims EXCEPT ![Reviewer] = tasks]
    /\ ts' = [ts EXCEPT ![Reviewer] = active]
    /\ Goto(Reviewer, "abort_next")
    /\ UNCHANGED <<fresh, stateVars, queueVars, goalVars, new, held, kind,
                   cancelled, events, logVars, closing>>

-----------------------------------------------------------------------------
(* The tokio task of a turn: RegularTask::run and run_turn *)

\* TurnStarted; a compaction does not touch the input queue, and a turn that is
\* cancelled while it waits for the startup prewarm returns with its input.
RunStart(t) ==
    /\ pc[t] = "run"
    /\ Send(t, "TurnStarted")
    /\ \/ /\ Goto(t, IF kind[t] = "Regular" THEN "pre" ELSE "flushed")
          /\ UNCHANGED <<held, discarded>>
       \/ /\ kind[t] = "Regular" /\ t \in cancelled
          /\ discarded' = discarded \cup held[t]
          /\ held' = [held EXCEPT ![t] = {}]
          /\ Goto(t, "flushed")
    /\ UNCHANGED <<turnVars, stateVars, queueVars, goalVars, new, ts, victims, kind,
                   cancelled, todo, consumed, closing>>

\* run_turn up to its loop: the turn's own input is recorded and sampled
\* first; a failed pre-turn compaction or start hook returns without it, a
\* hook may block it.
RunTurn(t) ==
    /\ pc[t] = "pre"
    /\ \/ /\ consumed' = consumed \cup held[t]
          /\ Goto(t, IF held[t] = {} THEN "drain" ELSE "sample")
          /\ UNCHANGED discarded
       \/ /\ held[t] # {}
          /\ consumed' = consumed \cup held[t]
          /\ Goto(t, "again")
          /\ UNCHANGED discarded
       \/ /\ discarded' = discarded \cup held[t]
          /\ Goto(t, "again")
          /\ UNCHANGED consumed
    /\ held' = [held EXCEPT ![t] = {}]
    /\ UNCHANGED <<turnVars, stateVars, queueVars, goalVars, new, ts, victims,
                   kind, cancelled, events, todo, closing>>

\* get_pending_input at the head of the loop
Drain(t) ==
    /\ pc[t] = "drain"
    /\ TakePending(t, "drain_mail", "record")
    /\ UNCHANGED <<turnVars, phase, waiters, queueVars, goalVars, new, ts,
                   victims, kind, cancelled, events, logVars, closing>>

DrainMail(t) ==
    /\ pc[t] = "drain_mail"
    /\ DrainMailbox(t, "record")
    /\ UNCHANGED <<turnVars, stateVars, idle, goalVars, new, ts, victims,
                   kind, cancelled, events, logVars, closing>>

\* run_hooks_and_record_inputs; hooks that block all of it end run_turn
Record(t) ==
    /\ pc[t] = "record"
    /\ consumed' = consumed \cup held[t]
    /\ held' = [held EXCEPT ![t] = {}]
    /\ \/ Goto(t, "sample")
       \/ held[t] # {} /\ Goto(t, "again")
    /\ UNCHANGED <<turnVars, stateVars, queueVars, goalVars, new, ts, victims,
                   kind, cancelled, events, todo, discarded, closing>>

\* run_sampling_request returns: the model is done, it needs a follow-up, or
\* an error such as TurnAborted ends run_turn
SampleReturn(t) ==
    /\ pc[t] = "sample"
    /\ \E p \in {"check", "drain", "again"} : Move(t, p)

\* A final answer defers mail to the next turn unless input is waiting.
DeferMailbox(t) ==
    /\ "Defer" \in Ops
    /\ pc[t] = "sample"
    /\ t \in tasks /\ pend[active] = {}
    /\ phase' = [phase EXCEPT ![active] = "NextTurn"]
    /\ UNCHANGED <<turnVars, pend, waiters, queueVars, goalVars, pc, actorVars,
                   kind, cancelled, events, logVars, closing>>

\* A tool call lets mail into the current turn again.
AcceptMailbox(t) ==
    /\ pc[t] = "sample"
    /\ t \in tasks
    /\ phase' = [phase EXCEPT ![active] = "CurrentTurn"]
    /\ UNCHANGED <<turnVars, pend, waiters, queueVars, goalVars, pc, actorVars,
                   kind, cancelled, events, logVars, closing>>

\* request_command_approval: the sender goes into whatever turn is active;
\* with no active turn it is dropped and the answer is Abort at once.
RequestApproval(t) ==
    /\ "Approval" \in Ops
    /\ pc[t] = "sample"
    /\ active # NoTurn
    /\ waiters' = [waiters EXCEPT ![active] = @ \cup {t}]
    /\ ts' = [ts EXCEPT ![t] = active]
    /\ Goto(t, "approval")
    /\ UNCHANGED <<turnVars, pend, phase, queueVars, goalVars, new, held,
                   victims, kind, cancelled, events, logVars, closing>>

\* The wait ends with an answer or a dropped sender, or with the turn.
ApprovalResolved(t) ==
    /\ pc[t] = "approval"
    /\ t \notin waiters[ts[t]] \/ t \in cancelled
    /\ ts' = [ts EXCEPT ![t] = NoTurn]
    /\ Goto(t, "sample")
    /\ UNCHANGED <<turnVars, stateVars, queueVars, goalVars, new, held,
                   victims, kind, cancelled, events, logVars, closing>>

\* has_pending_input after sampling; a stop hook may ask for another round
CheckPending(t) ==
    /\ pc[t] = "check"
    /\ \/ Move(t, "drain")
       \/ ~HasPendingInput /\ Move(t, "again")

\* RegularTask::run: another run_turn while there is pending input
RunAgain(t) ==
    /\ pc[t] = "again"
    /\ Move(t, IF HasPendingInput THEN "pre" ELSE "flushed")

\* The task is over; a cancelled one leaves its ending to the aborter.
TaskReturned(t) ==
    /\ pc[t] = "flushed"
    /\ Move(t, IF t \in cancelled THEN "done" ELSE "finish")

-----------------------------------------------------------------------------
(* on_task_finished *)

\* Mutant of FinishRemove: a task that is not the last one stays in the map.
FinishRemoveLast(t) ==
    /\ pc[t] = "finish"
    /\ IF tasks = {t}
       THEN ts' = [ts EXCEPT ![t] = active] /\ Goto(t, "finish_take") /\ tasks' = {}
       ELSE Goto(t, "complete") /\ UNCHANGED <<ts, tasks>>
    /\ UNCHANGED <<active, fresh, stateVars, queueVars, goalVars, new, held,
                   victims, kind, cancelled, events, logVars, closing>>

\* remove_task: only the last task of a turn will clear it (ts[t] # NoTurn)
FinishRemove(t) ==
    /\ pc[t] = "finish"
    /\ tasks' = tasks \ {t}
    /\ IF tasks = {t}
       THEN ts' = [ts EXCEPT ![t] = active] /\ Goto(t, "finish_take")
       ELSE Goto(t, "complete") /\ UNCHANGED ts
    /\ UNCHANGED <<active, fresh, stateVars, queueVars, goalVars, new, held,
                   victims, kind, cancelled, events, logVars, closing>>

\* take_pending_input_for_turn_state: leftovers are recorded, not sampled
FinishTake(t) ==
    /\ pc[t] = "finish_take"
    /\ consumed' = consumed \cup pend[ts[t]]
    /\ pend' = [pend EXCEPT ![ts[t]] = {}]
    /\ Goto(t, "complete")
    /\ UNCHANGED <<turnVars, phase, waiters, queueVars, goalVars, actorVars,
                   kind, cancelled, events, todo, discarded, closing>>

\* TurnComplete is sent whether or not the task was still in the turn
FinishComplete(t) ==
    /\ pc[t] = "complete"
    /\ Send(t, "TurnComplete")
    /\ Goto(t, IF ts[t] = NoTurn THEN "done" ELSE "clear")
    /\ UNCHANGED <<turnVars, stateVars, queueVars, goalVars, actorVars, kind,
                   cancelled, logVars, closing>>

\* Mutants of FinishClear: whatever turn is active is dropped; the turn is
\* cleared and nobody looks for pending work.
FinishClearAny(t) ==
    /\ pc[t] = "clear"
    /\ active' = NoTurn /\ tasks' = {} /\ Goto(t, "wake_check")
    /\ ts' = [ts EXCEPT ![t] = NoTurn]
    /\ UNCHANGED <<fresh, stateVars, queueVars, goalVars, new, held,
                   victims, kind, cancelled, events, logVars, closing>>

FinishClearNoWake(t) ==
    /\ pc[t] = "clear"
    /\ active' = IF StillReserved(t) THEN NoTurn ELSE active
    /\ Goto(t, "done")
    /\ ts' = [ts EXCEPT ![t] = NoTurn]
    /\ UNCHANGED <<tasks, fresh, stateVars, queueVars, goalVars, new, held,
                   victims, kind, cancelled, events, logVars, closing>>

\* The turn is cleared if it is still this one and still empty; only then
\* does the tail look for more work.
FinishClear(t) ==
    /\ pc[t] = "clear"
    /\ IF StillReserved(t)
       THEN active' = NoTurn /\ Goto(t, "wake_check")
       ELSE UNCHANGED active /\ Goto(t, "done")
    /\ ts' = [ts EXCEPT ![t] = NoTurn]
    /\ UNCHANGED <<tasks, fresh, stateVars, queueVars, goalVars, new, held,
                   victims, kind, cancelled, events, logVars, closing>>

-----------------------------------------------------------------------------
(* The submission loop: one op at a time *)

\* steer_input, into a turn whose task is a regular one
Steerable == \E t \in tasks : kind[t] = "Regular"

Steer(i) ==
    /\ Steerable
    /\ pend' = [pend EXCEPT ![active] = @ \cup {i}]
    /\ phase' = [phase EXCEPT ![active] = "CurrentTurn"]

\* Op::UserInput: steer the running turn, or start one with spawn_task.  The
\* input of a turn that cannot be steered is refused with an error.
UserInput(i) ==
    /\ pc[Loop] = "idle" /\ i \in todo
    /\ todo' = todo \ {i}
    /\ \/ /\ Steer(i)
          /\ UNCHANGED <<pc, new, held, kind>>
       \/ /\ tasks = {}
          /\ NameTask(Loop, "Regular", {i}, "abort_take")
          /\ UNCHANGED <<pend, phase>>
    /\ UNCHANGED <<turnVars, waiters, queueVars, goalVars, ts, victims,
                   cancelled, events, consumed, discarded, closing>>

\* Op::Compact: spawn_task replaces whatever is running
Compact ==
    /\ "Compact" \in Ops
    /\ pc[Loop] = "idle"
    /\ NameTask(Loop, "Compact", {}, "abort_take")
    /\ UNCHANGED <<turnVars, stateVars, queueVars, goalVars, ts, victims,
                   cancelled, events, logVars, closing>>

\* Op::Interrupt (with no active turn it changes nothing here), and
\* Op::Shutdown, which ends the loop after the same abort
Interrupt ==
    /\ "Interrupt" \in Ops
    /\ pc[Loop] = "idle"
    /\ active # NoTurn
    /\ Move(Loop, "abort_take")

Shutdown ==
    /\ "Shutdown" \in Ops
    /\ pc[Loop] = "idle"
    /\ closing' = TRUE
    /\ Goto(Loop, "abort_take")
    /\ UNCHANGED <<turnVars, stateVars, queueVars, goalVars, actorVars, kind,
                   cancelled, events, logVars>>

\* Op::InterAgentCommunication
ReceiveMail(m) ==
    /\ pc[Loop] = "idle" /\ m \in todo
    /\ todo' = todo \ {m}
    /\ mailbox' = mailbox \cup {m}
    /\ Goto(Loop, IF m \in TriggerMail THEN "wake_check" ELSE "idle")
    /\ UNCHANGED <<turnVars, stateVars, idle, goalVars, actorVars, kind,
                   cancelled, events, consumed, discarded, closing>>

\* inject_response_items: whatever turn is active, with or without a task
Inject(i) == active # NoTurn /\ pend' = [pend EXCEPT ![active] = @ \cup {i}]

\* Op::ApproveGuardianDeniedAction and the reading-view toggle: inject the
\* note or, in a second critical section, queue it for the next turn
LoopInject(i) ==
    /\ pc[Loop] = "idle" /\ i \in todo
    /\ todo' = todo \ {i}
    /\ \/ Inject(i) /\ UNCHANGED <<pc, held>>
       \/ /\ active = NoTurn
          /\ held' = [held EXCEPT ![Loop] = {i}]
          /\ Goto(Loop, "queue_idle")
          /\ UNCHANGED pend
    /\ UNCHANGED <<turnVars, phase, waiters, queueVars, goalVars, new, ts,
                   victims, kind, cancelled, events, consumed, discarded, closing>>

QueueForNextTurn ==
    /\ pc[Loop] = "queue_idle"
    /\ idle' = idle \cup held[Loop]
    /\ held' = [held EXCEPT ![Loop] = {}]
    /\ Goto(Loop, "idle")
    /\ UNCHANGED <<turnVars, stateVars, mailbox, goalVars, new, ts, victims,
                   kind, cancelled, events, logVars, closing>>

\* Op::ExecApproval: notify_approval looks only in the active turn
Approve(t) ==
    /\ pc[Loop] = "idle"
    /\ active # NoTurn /\ t \in waiters[active]
    /\ waiters' = [waiters EXCEPT ![active] = @ \ {t}]
    /\ UNCHANGED <<turnVars, pend, phase, queueVars, goalVars, pc, actorVars,
                   kind, cancelled, events, logVars, closing>>

-----------------------------------------------------------------------------
(* CodexThread, called from the app-server while the loop is running *)

ClientSteer(i) ==
    /\ pc[Client] = "idle" /\ i \in todo
    /\ Steer(i)
    /\ todo' = todo \ {i}
    /\ UNCHANGED <<turnVars, waiters, queueVars, goalVars, pc, actorVars, kind,
                   cancelled, events, consumed, discarded, closing>>

\* inject_user_message_without_turn: inject, or record at once
ClientInject(i) ==
    /\ pc[Client] = "idle" /\ i \in todo
    /\ todo' = todo \ {i}
    /\ \/ Inject(i) /\ UNCHANGED consumed
       \/ active = NoTurn /\ consumed' = consumed \cup {i} /\ UNCHANGED pend
    /\ UNCHANGED <<turnVars, phase, waiters, queueVars, goalVars, pc,
                   actorVars, kind, cancelled, events, discarded, closing>>

\* The goal is set, then continue_active_goal_if_idle runs MaybeContinueIfIdle;
\* clearing it, or the model completing it, needs no turn.
SetGoal ==
    /\ pc[Client] = "idle"
    /\ GoalsEnabled /\ ~goal
    /\ goal' = TRUE
    /\ Goto(Client, "wake_check")
    /\ UNCHANGED <<turnVars, stateVars, queueVars, contLock, actorVars, kind,
                   cancelled, events, logVars, closing>>

ClearGoal ==
    /\ goal
    /\ goal' = FALSE
    /\ UNCHANGED <<turnVars, stateVars, queueVars, contLock, pc, actorVars,
                   kind, cancelled, events, logVars, closing>>

-----------------------------------------------------------------------------
StartStep(a) == StartTake(a) \/ StartDrain(a) \/ StartMail(a) \/ StartTurn(a)
                \/ StartExtend(a) \/ StartAdd(a) \/ WakeCheck(a) \/ WakeReserve(a)
GoalStep(a)  == GoalLock(a) \/ GoalCheck(a) \/ GoalReserve(a) \/ GoalReread(a)
                \/ GoalExtend(a) \/ GoalConfirm(a) \/ GoalClear(a)
AbortStep(a) == AbortTake(a) \/ AbortCancel(a) \/ AbortReport(a) \/ AbortClear(a)

RunStep(t) == RunStart(t) \/ RunTurn(t) \/ Drain(t) \/ DrainMail(t) \/ Record(t)
              \/ SampleReturn(t) \/ DeferMailbox(t) \/ AcceptMailbox(t)
              \/ RequestApproval(t) \/ ApprovalResolved(t) \/ CheckPending(t)
              \/ RunAgain(t) \/ TaskReturned(t)
FinishStep(t) == FinishRemove(t) \/ FinishTake(t) \/ FinishComplete(t) \/ FinishClear(t)

LoopOp == \/ \E i \in UserItems : UserInput(i)
          \/ \E m \in Mail : ReceiveMail(m)
          \/ \E i \in Notes : LoopInject(i)
          \/ \E t \in Tasks : Approve(t)
          \/ QueueForNextTurn \/ Compact \/ Interrupt \/ Shutdown
ClientOp == \/ \E i \in UserItems : ClientSteer(i)
            \/ \E i \in Notes : ClientInject(i)
            \/ SetGoal \/ ClearGoal

Next == \/ \E a \in Actors : StartStep(a) \/ GoalStep(a) \/ AbortStep(a)
        \/ \E t \in Tasks : RunStep(t) \/ FinishStep(t) \/ ReviewerAbort(t)
        \/ LoopOp \/ ClientOp

Spec == Init /\ [][Next]_vars

\* The steps that move a running turn on.
Advance(t) == RunStart(t) \/ RunTurn(t) \/ Drain(t) \/ DrainMail(t) \/ Record(t)
              \/ SampleReturn(t) \/ ApprovalResolved(t) \/ CheckPending(t)
              \/ RunAgain(t) \/ TaskReturned(t)

\* What an actor does next, once it is in the middle of something.  A turn that
\* is interrupted may hang: that is what the timeout of the abort is for.
Progress(a) ==
    \/ StartStep(a) \/ GoalStep(a) \/ AbortStep(a)
    \/ a \in Tasks /\ (FinishStep(a) \/ (a \notin cancelled /\ Advance(a)))
    \/ a = Loop /\ QueueForNextTurn

\* tokio polls every spawned task that can make progress.
RuntimeFairness == \A a \in Actors : WF_vars(Progress(a))

\* The model does not ask for follow-ups for ever, stop hooks do not block for
\* ever, and the pre-turn compaction does not fail for ever.
ModelFairness ==
    \A t \in Tasks :
        /\ SF_vars(SampleReturn(t) /\ pc'[t] = "check" /\ t \notin cancelled)
        /\ SF_vars(CheckPending(t) /\ pc'[t] = "again" /\ t \notin cancelled)
        /\ SF_vars(RunTurn(t) /\ pc'[t] # "again" /\ t \notin cancelled)

FairSpec == Spec /\ RuntimeFairness /\ ModelFairness

=============================================================================
