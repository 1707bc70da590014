-------------------------- MODULE TurnProperties ---------------------------
(***************************************************************************)
(* What the turn lifecycle of TurnLifecycle promises, and the inductive    *)
(* invariant from which TurnLifecycle_proofs derives the safety part.      *)
(***************************************************************************)
EXTENDS TurnLifecycle

\* Every input a turn can hold, and what was sent for a turn so far.
AllItems == Items \cup {GoalPrompt}
Sent(t)  == {events[t][i] : i \in DOMAIN events[t]}
Ended(t) == Sent(t) \cap {"TurnComplete", "TurnAborted"} # {}

\* The types of the state; a note, for one, is never in the mailbox, which
\* holds only inter-agent mail.
TypeOK ==
    /\ active \in TurnStates \cup {NoTurn}
    /\ tasks \subseteq Tasks
    /\ fresh \subseteq TurnStates
    /\ pend \in [TurnStates -> SUBSET AllItems]
    /\ phase \in [TurnStates -> {"CurrentTurn", "NextTurn"}]
    /\ waiters \in [TurnStates -> SUBSET Tasks]
    /\ mailbox \subseteq Mail /\ idle \subseteq AllItems
    /\ goal \in BOOLEAN /\ contLock \in Actors \cup {NoTask}
    /\ pc \in [Actors -> Running \cup Finishing \cup Starting \cup Aborting \cup Resting]
    /\ new \in [Actors -> Tasks \cup {NoTask}]
    /\ ts \in [Actors -> TurnStates \cup {NoTurn}]
    /\ held \in [Actors -> SUBSET AllItems]
    /\ victims \in [Actors -> SUBSET Tasks]
    /\ kind \in [Tasks -> {"Regular", "Compact"}]
    /\ cancelled \subseteq Tasks
    /\ events \in [Tasks -> Seq({"TurnStarted", "TurnComplete", "TurnAborted"})]
    /\ todo \subseteq Items /\ consumed \subseteq AllItems /\ discarded \subseteq AllItems
    /\ closing \in BOOLEAN

StartPcs == {"start_take", "start_drain", "start_mail", "start_turn", "start_extend", "start_add"}

\* What an actor relies on when it is in the middle of start_task, of an abort
\* or of on_task_finished: it has a turn context to start, it has the turn
\* state to clear; and a turn with tasks is there to be drained.
ActorsPrepared ==
    /\ tasks # {} => active # NoTurn
    /\ \A a \in Actors : pc[a] \in StartPcs => new[a] # NoTask
    /\ \A a \in Actors : pc[a] \in {"abort_next", "abort_wait", "abort_clear", "finish_take"}
                            => ts[a] # NoTurn

\* A task in the active turn is one that is really running: its tokio task has
\* not finished, been killed or reported an end, and its token is not
\* cancelled.  Otherwise the session would be busy for ever and steer input
\* into a turn nobody runs.
RegisteredTasksLive ==
    \A t \in tasks : /\ active # NoTurn
                     /\ pc[t] \in Running \cup {"finish"}
                     /\ t \notin cancelled
                     /\ ~Ended(t)

\* No turn stops silently: once its tokio task is over or killed, its end has
\* been reported or an aborter still holds the task and will report it.
NoSilentEnd ==
    \A t \in Tasks : pc[t] \in {"done", "killed"} =>
        Ended(t) \/ \E a \in Actors : t \in victims[a]

\* TurnAborted is the last thing an interrupted turn does: it is sent once,
\* nothing is sent after it, and the tokio task has stopped (handle.abort() is
\* taken to act at once; tokio lets the task run on to its next await).
AbortedIsFinal ==
    \A t \in Tasks : \A i \in DOMAIN events[t] :
        events[t][i] = "TurnAborted" =>
            i = Len(events[t]) /\ pc[t] \in {"done", "killed"}

\* The answer to an approval request reaches the task that waits for it: while
\* the task is in the active turn, its sender was stored in that turn and not
\* in one that was replaced since.
ApprovalReachable ==
    \A t \in tasks : pc[t] = "approval" => ts[t] = active

\* A turn state still in use: by the session or by an actor that will look at
\* it again (start_task extends it, an aborter clears it, a tail empties it).
InUse(s) == s = active \/ \E a \in Actors :
    ts[a] = s /\ pc[a] \in {"start_extend", "abort_next", "abort_wait", "abort_clear", "finish_take"}

\* Where an item of input can be.
Lost(i) == /\ i \notin todo \cup mailbox \cup idle \cup consumed \cup discarded
           /\ \A a \in Actors : i \notin held[a]
           /\ \A s \in TurnStates : i \in pend[s] => ~InUse(s)

\* Input that was accepted is on its way, was recorded, or went down with a
\* turn that failed or was aborted.
InputKept == \A i \in Items : ~Lost(i)

\* An item is in one place: not sent yet, recorded or discarded, in the mailbox,
\* queued for the next turn, in the hands of one actor, or pending in one turn.
OnePlace(i) ==
    /\ i \in todo => i \notin consumed \cup discarded
    /\ i \in consumed \cup discarded \cup todo =>
          i \notin mailbox \cup idle /\ (\A a \in Actors : i \notin held[a])
          /\ (\A s \in TurnStates : i \notin pend[s])
    /\ i \in mailbox => i \notin idle
    /\ \A a \in Actors : i \in held[a] =>
          i \notin mailbox \cup idle /\ (\A b \in Actors \ {a} : i \notin held[b])
          /\ (\A s \in TurnStates : i \notin pend[s])
    /\ \A s \in TurnStates : i \in pend[s] =>
          i \notin mailbox \cup idle /\ (\A r \in TurnStates \ {s} : i \notin pend[r])

\* Input is delivered at most once: no item is in two places.
NoDuplicateDelivery == \A i \in Items : OnePlace(i)

\* The session has at most one task running at a time.
AtMostOneTask == \A t, u \in tasks : t = u

\* A task leaves the active turn only by its own finish or into the hands of
\* an aborter: it is never dropped from the map while it runs.
HandOff == [][\A t \in tasks \ tasks' :
                 \/ pc[t] = "finish" /\ pc'[t] \in {"finish_take", "complete"}
                 \/ \E a \in Actors : t \in victims'[a]]_vars

\* Mail that asks for a turn gets one: it does not stay in the mailbox, unless a
\* turn is running that waits for the user's approval.
TriggerMailDelivered ==
    \A m \in TriggerMail :
        m \in mailbox ~> m \notin mailbox \/ \E t \in tasks : pc[t] = "approval"

\* A task drained by an abort is reported aborted, even if it never reacts to
\* its cancellation.
AbortCompletes ==
    \A t \in Tasks : (\E a \in Actors : t \in victims[a]) ~> "TurnAborted" \in Sent(t)

-----------------------------------------------------------------------------
(* The inductive invariant behind RegisteredTasksLive, NoSilentEnd,        *)
(* AbortedIsFinal and ApprovalReachable: who owns a task.                  *)

\* The task has not begun on_task_finished's first critical section.
Alive    == Running \cup {"finish"}

\* A turn context belongs to the one actor that is about to start it, and is
\* untouched until then.
NamedTasks ==
    /\ \A a \in Actors : new[a] # NoTask =>
          pc[new[a]] = "named" /\ pc[a] \in StartPcs \cup Aborting
    /\ \A a, b \in Actors : a # b /\ new[a] # NoTask => new[a] # new[b]
    /\ \A t \in Tasks : pc[t] \in {"new", "named"} =>
          t \notin cancelled /\ events[t] = << >> /\ ts[t] = NoTurn

\* A drained task belongs to one aborter, which has not reported it yet; it
\* may still be finishing, but it is out of the active turn.
DrainedTasks ==
    /\ \A a \in Actors : victims[a] # {} => pc[a] \in {"abort_next", "abort_wait"}
    /\ \A a \in Actors : \A t \in victims[a] :
          /\ t \notin tasks
          /\ pc[t] \in Alive \cup {"complete", "done"}
          /\ pc[t] = "complete" => ts[t] = NoTurn
          /\ "TurnAborted" \notin Sent(t)
    /\ \A a, b \in Actors : a # b => victims[a] \cap victims[b] = {}

\* A task that has not decided to finish is in the active turn or drained,
\* one that looks for more work has reported its end, and none runs the code
\* of the submission loop.
LiveTasksOwned ==
    \A t \in Tasks :
        /\ pc[t] \in Alive => t \in tasks \/ \E a \in Actors : t \in victims[a]
        /\ pc[t] \in Alive \ {"approval"} => ts[t] = NoTurn
        /\ pc[t] \in Starting \cup {"clear"} => Ended(t)
        /\ pc[t] \notin Aborting \cup {"idle", "queue_idle", "stopped"}

\* Every task has exactly one owner: the actor that will start it, the active
\* turn, its own on_task_finished, or the aborter that drained it.
OwnInv == /\ RegisteredTasksLive /\ NoSilentEnd /\ AbortedIsFinal /\ ApprovalReachable
          /\ NamedTasks /\ DrainedTasks /\ LiveTasksOwned

\* The inductive invariant: the lifecycle code of one actor never meets a
\* state that the code of another has made impossible for it to handle.
IndInv == TypeOK /\ ActorsPrepared /\ OwnInv

\* Nothing but the submission loop starts turns: no pending work wakes an idle
\* session and no goal continues it.
Solo == TriggerMail = {} /\ Notes = {} /\ GoalsEnabled = FALSE

\* Why such a session has at most one task: only the submission loop adds one,
\* and from the moment it has emptied the active turn until it adds the task
\* nobody else does.
SoloInv ==
    /\ AtMostOneTask
    /\ idle = {}
    /\ \A a \in Actors :
          pc[a] \notin {"wake_reserve", "goal_reserve", "goal_reread", "goal_extend",
                       "goal_confirm", "goal_clear", "queue_idle"}
    /\ \A a \in Actors \ {Loop} : new[a] = NoTask /\ pc[a] \notin StartPcs
    /\ pc[Loop] \in StartPcs \cup {"abort_next", "abort_wait", "abort_clear"} => tasks = {}

\* A turn state is fresh until get_or_insert_with makes it the active turn.
FreshUnused == \A s \in fresh : s # active /\ \A a \in Actors : ts[a] # s

\* The tail of a turn, from remove_task to the clearing of the active turn.
Late == {"finish_take", "complete", "clear"}

\* The submission loop holds no turn from the moment it has taken the active
\* one until start_task makes the next, which it then has to itself.
Between == {"abort_next", "abort_wait", "abort_clear", "start_take", "start_drain",
            "start_mail", "start_turn"}
Making  == {"start_extend", "start_add"}
StartsAlone ==
    /\ \A a \in Actors : pc[a] = "abort_take" => a = Loop
    /\ pc[Loop] \in Between => active = NoTurn
    /\ pc[Loop] \in Making => active # NoTurn
    /\ pc[Loop] = "start_extend" => active = ts[Loop]

\* A turn without tasks is being finished by a tail, which has taken the input
\* that was left in it, or is being started by the submission loop.
TailsEmpty ==
    /\ \A t \in Tasks : pc[t] \in Late /\ ts[t] # NoTurn /\ ts[t] = active =>
          tasks = {} /\ pc[Loop] \notin Making
    /\ \A t \in Tasks : pc[t] \in {"complete", "clear"} /\ ts[t] # NoTurn => pend[ts[t]] = {}
    /\ tasks = {} /\ active # NoTurn /\ pc[Loop] \notin Making =>
          \E t \in Tasks : pc[t] \in Late /\ ts[t] = active

\* Why such a session keeps its input: when the active turn is replaced or
\* cleared, what is pending in it is in the hands of the one who does it.
HandsInv == /\ FreshUnused /\ StartsAlone /\ TailsEmpty
            /\ \A t \in Tasks : pc[t] = "new" => held[t] = {}

=============================================================================
