# Verification of the agent runtime (codex-rs)

TLA+ models of the concurrent core of the repository: the turn lifecycle of a
session (`codex-rs/core`), the serialization of client requests
(`codex-rs/app-server`), the sessions, process events and followed output of the
remote execution server (`codex-rs/exec-server`), the rollout file of a thread
(`codex-rs/rollout`, `codex-rs/thread-store`) and the memory pipeline that runs over
the state database (`codex-rs/state`, `codex-rs/memories`).  TLC checks them on small
instances; TLAPS proves their safety properties and the three refinements for every
instance.  All paths below are relative to `src/codex-rs/`.

## 1. The system

| Part | State it keeps | Operations | What makes it correct |
|---|---|---|---|
| Turn lifecycle, `core/src/tasks/mod.rs` | `active_turn: Mutex<Option<ActiveTurn>>` with its tasks and an `Arc<TurnState>` | `start_task`, `abort_all_tasks`, `abort_turn_if_active`, `on_task_finished`, `maybe_start_turn_for_pending_work` | a registered task runs, each turn reports its end, an abort is final |
| Input queue, `core/src/session/input_queue.rs` | pending input per turn state, mailbox and its delivery phase, items for the next turn | push, take, drain, inject, defer, accept | accepted input is delivered once, or goes down with an aborted turn |
| Submission loop, `core/src/session/handlers.rs`; client calls, `core/src/codex_thread.rs` | the op being handled | one handler per `Op`; steering and injecting from other threads | ops interleave safely with the turn they act on |
| Turn execution, `core/src/session/turn.rs`, `core/src/tasks/regular.rs` | the turn's own input | drain, record, sample, check again | pending input is looked at before the turn ends |
| Goal continuation, `core/src/goals.rs` | the goal, `continuation_lock` | reserve, re-read, confirm or clear | a continuation never takes over a turn somebody else uses |
| Approvals, `core/src/session/mod.rs` | senders in the turn state | request, notify, clear | the answer finds the task that waits |
| Request serialization, `app-server/src/request_serialization.rs`, `connection_rpc_gate.rs` | a queue per key, one drain task per key, a gate per connection | enqueue, drain, run, shutdown | order and exclusion per key; nothing starts behind a shut gate |
| Connection loop, `app-server/src/lib.rs`, `message_processor.rs` | the open connections | open, dispatch, close, exit | closing ends, and leaves no handler running |
| Exec-server sessions, `exec-server/src/server/*.rs` | registry, attachment, deadline, notification sender, processes | attach, resume, detach, expire | one owner per session; no process without an owner |
| Exec-server events, `exec-server/src/{local_process,client,rpc,remote_process,connection}.rs` | sequence numbers, notifications in flight, reorder buffer, failure latch | produce, notify, receive, publish, fail | subscribers see the process's events in order, and an end |
| Process output, `exec-server/src/{local_process,process}.rs`; its followers `core/src/unified_exec/process.rs`, `rmcp-client/src/executor_process_transport.rs` | retained output, replay history, live channel, wake channel, all bounded | publish, evict, long-poll read, wake, subscribe, lag, recover | a follower gets the output once and in order, misses only what was evicted, and learns of the end |
| Rollout recorder, `rollout/src/recorder.rs`; its callers `thread-store/src/local/live_writer.rs` | command channel, `pending_items`, deferred file, metadata still to be written | record, flush, persist, shutdown, write with one retry, discard, resume | accepted items are written once and in order; success is reported only for what is written |
| Memory pipeline, `state/src/runtime/memories.rs`, `memories/write/src/{start,phase1,phase2,workspace}.rs` | a job row per thread and one global row with owner and lease, extracted outputs, a workspace with a git baseline | scan, claim, extract, consolidate, heartbeat, reset the baseline, pollute, clear | watermarks and baseline say what was really done; a stale thread is extracted and a polluted one forgotten |

How they interact: the app-server turns a client request into an `Op` of the
session's submission loop or into a call on `CodexThread`; the session starts
turns, whose tools run processes, locally or through an exec-server client; mail
between agents and goals start turns without a client.  Within a session all
interaction is through `active_turn` and the input queue, both mutexes released
at every await; between exec-server client and server it is a JSON-RPC connection
that may end at any time.  Every turn records its items in the rollout of its thread;
the memory pipeline reads the rollouts of idle threads, and its workers, one per
started session and in different processes, meet only in the database and in the
memory workspace.

What is hard: functions that take the same lock twice and rely on nothing having
happened in between (`start_task`, `on_task_finished`, `detach`), tasks that are
cancelled or dropped at an await, timers that fire after what they guard has
changed, wake-ups that everybody leaves to somebody else, writes that fail halfway and
are tried again, buffers that evict what a slow reader has not seen, and leases that
run out under an owner that is only slow.  `PROJECT.json`
lists each such place with its line.

The rest of the repository (terminal UI, configuration, login, plugins, MCP,
sandboxes, network proxy, research tools, telemetry, vendored code) is
presentation, I/O or operating-system code and is not modelled; the parts planned
for later are in section 7.

## 2. Modules

| Module | Models | Run by | Proofs |
|---|---|---|---|
| `TurnLifecycle`, properties in `TurnProperties` | turn lifecycle, input queue, ops, goal continuation, approvals | `MCTurnLifecycle` | `TurnLifecycle_proofs` |
| `KeyedAccess` | abstract: what request handling promises | (refined) | |
| `RequestQueues` | keyed queues, gates, connection loop | `MCRequestQueues` | `RequestQueues_proofs` |
| `ExecSessions` | registry, handler and connection loop of the exec-server | `MCExecSessions` | `ExecSessions_proofs` |
| `EventStream` | abstract: what a subscriber of a process is promised | (refined) | |
| `ExecEvents` | one process's events from pipe to subscriber | `MCExecEvents` | `ExecEvents_proofs` |
| `ProcessOutput` | the output a process retains and its three kinds of follower | `MCProcessOutput` | `ProcessOutput_proofs` |
| `DurableLog` | abstract: what the rollout promises its session | (refined) | |
| `RolloutRecorder` | command channel, writer task and file of a rollout | `MCRolloutRecorder` | `RolloutRecorder_proofs` |
| `MemoryJobs` | job rows, workers, workspace and reset of the memory pipeline | `MCMemoryJobs` | `MemoryJobs_proofs` |

The granularity is the same everywhere: one action is one critical section, or
one stretch of code between two awaits that touches no state but its own.  A
definition whose comment begins with "Mutant of" is not part of a specification;
it is a plausible mistake in the definition that follows it, used to show that
the properties can fail.

### TurnLifecycle

Actors are the tokio tasks of the turns, the submission loop, the auto-review
helper and the client thread.  `pc[a]` is where an actor is; `new[a]`, `ts[a]`,
`held[a]` and `victims[a]` are its locals: the turn context it will start, the
turn state it holds an `Arc` to, the input it has taken out of a queue, the tasks
it drained.  `active`, `tasks`, `pend`, `phase` and `waiters` are `ActiveTurn` and
`TurnState`; turn states have identities because the code compares them with
`Arc::ptr_eq` and because a turn state outlives the turn it was made for.

`start_task` is six actions (`StartTake` .. `StartAdd`), `on_task_finished` four
(`FinishRemove` .. `FinishClear`), an abort four (`AbortTake` .. `AbortClear`), the
goal continuation seven.  `run_turn` keeps its decisions about the queue; what the
model, a hook or a compaction answers is a choice.  `consumed` is input that
reached the hooks and the history, `discarded` input that the code throws away
with an aborted or failed turn: the two make losing something silently visible.

Simplifications, and why they do no harm:

- `handle.abort()` stops a task at once, where tokio lets it run on to its next
  await; what the task could do until then it could do before the abort.
- `tasks` is a set.  `steer_input` looks at the first task of an `IndexMap`; with
  two tasks in the turn the model allows it to be either.
- The checks of `goal_continuation_candidate_if_active` are one step; the code
  re-checks the turn under the lock that reserves it (`GoalReserve`).
- `defer_mailbox_delivery_to_next_turn` finds the turn state under the turn lock and
  then checks and sets it under its own lock; the model does both at once.  A turn
  taken away in between is one whose phase nobody reads again.
- Review, undo and user-shell tasks behave like `Compact` here.  Permission
  requests, elicitations, user-input requests and dynamic tools wait on senders in
  the turn state the way approvals do, and are not repeated.
- The early return of `handle_task_abort` for a cancelled task is never taken
  (`RegisteredTasksLive`) and is left out.
- Which unused identity `Arc::new` or `Uuid::new_v4` returns makes no difference, so
  the model takes a fixed one.

### RequestQueues and KeyedAccess

`present`, `queue` are the map of the serialization queues; a drain task is named by
the request whose `enqueue` spawned it, so that two drain tasks of one key can be
told apart.  `accepting[c]` is the gate, and the requests in state `running` are the
tokens of its `TaskTracker`.  `loop` is the processor loop, which stands still while
it closes a connection (`CloseConnection`, `ShutGate`, `Closed`).  `arrived` and
`quiet` are history for the refinement.  Which unused connection id or request comes
next makes no difference, so the model takes a fixed one (`NewConn`, `NewRequest`).

`KeyedAccess` says what the path promises: a request waits for the earlier requests
of its key that conflict with it, none begins after the gate of its connection is
shut, and a gate reports to be quiet only when none of its requests runs.  Handlers
are taken to return and not to panic.  Only scopes declared as shared reads get
shared access (`from_scope`), which is why `RNext` gives per-connection keys exclusive
access only.  `ArrivalOrder`, a part of `RInv`, is what connects the two: the queue of a key
is the end of what arrived for it, and all that arrived before has been taken.

### ExecSessions

One connection attaches at most once, so its name serves as its `ConnectionId`; the
processes of a session are represented by one process id.  A disconnect interrupts the
request in flight wherever it awaits, because the `select!` in `run_connection` drops the
future: an `exec` between taking the process id and the running child, and an attach
between the removal of an expired session and the end of its processes.
`Drops` is the set of these two awaits at which it may happen.  The first is harmless and
is in every run.  The second leaves processes that nobody will end: `orphaned_process`
shows it, and `sessions` and the theorem about `ProcessesOwned` leave it out.
Time is the deadline of a session turning from `pending` to `passed`.  A resume, its sender
included, is one step, because it happens under the lock of the registry; `detach` is
two, because it does not.

### ExecEvents and EventStream

One process, the tasks that number and send its events, the connection as two queues
(what the transport has received, what the `RpcClient` reader has handed on), the
client's reader task and a consumer that may poll with `Session::read` (`Reads`).
`log` is what the server numbered and `published` what the subscriber got; those two
are the variables of `EventStream`, so the refinement mapping is the identity on
them.  `failed` records how much was published before each `Failed`.  Left out are messages
that can not be decoded, the capacities of the channels and HTTP body streams.  An
undecodable message ends the `RpcClient` reader (`rpc.rs:255-265`) or the client's reader
task (`client.rs:477-487`) as a disconnect does, but ahead of what is queued behind it;
`DrainedBeforeFailure` speaks of connections that carry none.  Retained output and the
reads of it are in `ProcessOutput`.

### ProcessOutput

`events` is everything the process did, and an event's sequence number is its index.
`RunningProcess::output` and the replay history of `ExecProcessEventLog` are suffixes of
it: `keepFrom` and `replayFrom` are where they begin after eviction, and what a read
returns is the set of the numbers it returns (`Retained`, `Page`), given in increasing
order (`InOrder`).  `Publish` is the
critical section under the lock of the process map; `notify_waiters` follows the unlock
and is an action of its own (`due`).  A behaviour has one reader, chosen in `Init`: the
long-poll read of `exec_read` (`PollStart` .. `PollDeadline`), the output task of unified
exec (`TaskStart` .. `TaskWake`) or the MCP transport (`Subscribe` .. `RecoverLagged`).
Readers only read, so two of them do not influence each other.

`exec_read` looks under the lock and begins to wait after releasing it (`PollLook`,
`PollWait`), and `notify_waiters` wakes only who waits already: a chunk published in
between is not noticed.  The read then returns at its deadline (`PollReturns`), without
the chunk, which the next read gets (`NoSilentGap`).  A chunk keeps its size and no
contents.

The transport subscribes some time after `process/start` returned, and nothing in the code
says how many events there have been by then.  `Lead` is the bound: at most that many
events precede the subscription.  Up to `EventCapacity` (256 in the code) nothing the
subscriber could still read has been cut from its replay; this is what `output` and the
theorems about `NoSilentGap` and `EndIsComplete` assume, and `late_subscriber` shows what
happens beyond it.

### RolloutRecorder and DurableLog

A call of the thread store is `RecordItems` followed by `SendBarrier`, or a barrier
alone; a command carries, as history, how much was accepted when it was queued (`at`).  The writer takes a
command (`RecvAdd`, `RecvBarrier`, `RecvNothingToDo`) and goes through
`write_pending_with_recovery`: open, metadata, one action per line, answer.  Each of the
steps that touch the file may fail; `Recover` drains what was written, drops the handle
and tries once more.  `AppendMetadata` is `append_rollout_item_to_path`, a second writer of
the same file that the recorder does not know of.  `Crash` ends the process at any point
and `Resume` opens what the file then holds.

The file is two sequences, the lines of items and the lines of session metadata, each in
the order they were written; a metadata line remembers how many item lines precede it,
so nothing of their common order that a property speaks of is lost.  A line says whether
it can be parsed.  A failed write leaves
the file unchanged or ending inside a line (`torn`); bytes appended after that belong to the
torn line.  A cut exactly before the newline counts as torn as well: the next line is
then lost in any case.  `AddItems` carries one item.  Only the death of the process is
modelled, not of the machine: `flush` hands the bytes to the operating system and does
not sync, and the last `flush` of an open file is taken to succeed because each line
was flushed already.

`DurableLog` has the three variables a session could observe: what was accepted, what is
committed and what was promised to be.  The refinement maps the committed log to the items
in the file.

### MemoryJobs

`job1`, `output` and `job2` are the rows of the database, and every SQL statement that
reads and writes them is one action (the code runs them in `BEGIN IMMEDIATE`
transactions or as one conditional `UPDATE`).  A worker is the startup task of a session:
`Scan`, then phase 1 for each claimed thread, then phase 2 (`ClaimPhase2` ..
`MarkSucceeded`).  `ws` is the set of inputs in the workspace, `edited` whether an agent
has changed it since, `baseline` the commit that the next diff compares with, `digested`
(history) the inputs some agent has completed on.

- The ownership token is the identity of the worker; a crash makes it `Nobody`'s, so that
  a worker that starts again does not own what it had.
- Times are truth values: a lease, a backoff and the cooldown hold or have passed.
  Leases of crashed owners pass for free; a live owner's lease may pass in phase 1, which
  never renews it, and in the labels of `Suspends` in phase 2.
- `Suspends` is `{"agent"}` in the run: the windows from claim to diff and from the last
  heartbeat to the new baseline are taken to be shorter than the lease of an hour.  With
  them in, a suspended worker moves the baseline of its successor.
- The agent is taken to have seen the inputs its worker put into the workspace.
- The run has one thread, so the cap on running jobs is not reached; the cap of a
  worker on its claims is.
- `mark_global_phase2_job_failed_if_unowned` writes a running row that has no token; a
  claim always sets one, so it finds no such row.
- `Scan` looks at the threads within its age window and its limit
  (`max_age_cutoff`, `scan_limit`); threads do not leave them in the model, so
  `ThreadsExtracted` speaks of threads that stay inside.
- The write of the git index may fail after the new baseline is committed
  (`baseline.rs:99-100`): the job then fails with the baseline moved, which is
  `Phase2Fails` at the label `mark`.
- `edited` is one bit, so an agent's edits are not told apart.

`MInv` is the invariant of the rows and of phase 1 (`ClaimsSound`, `RowsSound`), `WorkspaceInv`
that of phase 2 (`LockKept`, `BaselineReady`).

## 3. Runs

Passing runs:

| Run | Instance | What it shows |
|---|---|---|
| `turns_goals` | 2 turns, 2 turn states, goals, approvals, compactions that replace the turn, interrupts, shutdown | the inductive invariant of the proofs, with reservations that are lost and cleared; no turn stops silently, an abort is final, tasks are handed over, never dropped |
| `turns_live` | 2 turns, 3 turn states, an item sent as a message or as a note, mail, approvals, auto-review, final answers | the inductive invariant, with wake-ups; no item of input is in two places; an approval is stored where its answer looks; mail that asks for a turn is delivered; aborts complete because of the timeout |
| `requests` | 3 requests, 2 connections, a shared scope | inductive invariant (`ArrivalOrder` included), exclusion, one drain task; refinement of `KeyedAccess` with connections closing; requests resolve, closing ends |
| `sessions` | 3 connections, 2 sessions, starts of processes dropped with their connection | resumes against timers: no eviction, no early removal, no stale sender; whoever removed a session is there to end its processes; a detached session ends |
| `events` | 2 streams, 1 chunk, reads | invariant and refinement of `EventStream`; the reader drains before it fails a session; the failure is reported, `Closed` arrives |
| `output` | 2 streams, 3 chunks of 2 sizes, buffers of 2, all three kinds of reader, a transport that subscribes within 2 events | inductive invariant; nothing twice or out of order, what is missing was evicted from the retained output, an end only after all output, a read returns, every follower learns of the end |
| `rollout` | 2 callers, 3 items, 2 faults, a crash or stop and a resume | inductive invariant; no accepted item lost or doubled while the writer lives, metadata first, refinement of `DurableLog`, every call answered |
| `memory` | 1 thread in 2 versions, 2 workers, 1 fault | inductive invariant of the rows; the watermark is what was read, the baseline what was consolidated, the marks what the baseline holds; polluted threads are forgotten, stale ones extracted |

Runs in which TLC finds a counterexample to something the repository states (each
quoted under `findings` in `PROJECT.json`):

| Run | Statement | What happens |
|---|---|---|
| `two_tasks` | at most one task per session | a wake-up turn between the two locks of `start_task` and a user turn both add their task |
| `torn_line` | a flushed item is committed, a retry repairs a failed write | the retry after a short write appends to the torn line; the acknowledged item can not be loaded |
| `orphaned_process` | processes left behind by a connection are terminated | a resume removes an expired session and is dropped with its own connection before the shutdown: the processes run on, in no session |
| `late_subscriber` | the event log replays whatever preceded the subscription | a transport that subscribes after the history was cut reaches the end without a chunk that is still retained |

### Other divergences the models contain

The models follow the code here.  No run is devoted to these, and no property speaks of
them; the hazards that name them say so.

- A note injected between the removal of the last task and the drop of its turn is
  accepted and goes down with the turn (`core/src/session/mod.rs:3319` promises to return
  it if no task is running).
- A resume between the two halves of `detach` loses its notification sender, and the
  client gets no output (`exec-server/README.md:183`).
- A read that sees the disconnect publishes `Failed` ahead of events still queued at
  the client (`exec-server/src/client.rs:548` keeps them ordered).
- A worker whose phase-2 lock was taken over keeps its agent until the next heartbeat: two
  consolidations edit one workspace (`memories/README.md:87` speaks of one).  A memory reset
  does not stop workers either, and what they write afterwards is kept.
- A stage-1 owner that crashes does not use up a retry, and a worker with an old scan
  may lower `input_watermark` of a row.

Some properties hold, and are checked or proved, only under a condition.
`TriggerMailDelivered` is checked without interrupts: mail that arrives at a finishing turn
whose empty active turn an interrupt then takes is looked at by nobody until the next turn.
It also lets mail wait for a turn that waits for an approval, since no user has to answer.
`AtMostOneTask` and `InputKept` are proved for sessions in which only the submission loop
starts turns; no passing run checks them.  Elsewhere the first is violated by `two_tasks`,
and the second by mail that is moved into a reserved turn and goes down with it when a user
turn takes the empty turn.  `ProcessesOwned` needs that no shutdown of an expired session is
dropped (`Drops`), `NoSilentGap` and `EndIsComplete` that the transport subscribes in time
(`Lead`); the runs `orphaned_process` and `late_subscriber` are these properties without the
condition.  `NoSilentEnd` asks for an end, not for one: a turn interrupted after it looked at
its token reports `TurnComplete` and then `TurnAborted`.  `BaselineConsolidated` and
`MarkedIsInBaseline` speak of the time before a memory reset.

Deadlock is checked in `memory`, whose workers always start again.  Elsewhere it is
not: a session with nothing to do, a server without connections, a writer nobody calls
and a process that ended really stop, and the identities of a bounded instance run out.
What must not stop is stated as a liveness property instead.

### Bounds

Identities are finite: tasks, turn states, requests, connections, sessions, chunks
(`MaxOutput`).  An actor that needs a new one when none is left stops, which removes
behaviours but adds none.  The races involve two or three actors: two turns suffice
for every pair of start, abort and finish, and two turn states for one that was replaced
while an actor still holds it; the third turn, in `two_tasks`, lets a turn be
replaced while another is being started.  The one item of `turns_live` is sent as a user
message or as a note, whichever comes first; with one of each a third turn would be needed to
deliver the mail.  Mail that starts no turn is in no run: it takes the same ways as the other
but for the wake-up, and the theorems include it.  Three connections let the timer of the first
fire after the second has resumed and left and the third has resumed.  Three requests on
a key give a read, an exclusive request and a read that must not overtake it; the keys
of a single connection, which only ever give exclusive access, are left to the proofs.  One chunk
per stream gives events from all three producers, which is what has to be put in order.
In `output` a chunk may be larger than the retained output, and three chunks and the two
final events overflow the retained output, the replay history and the live channel, so
every kind of eviction, of paging and of lag occurs; `Lead` is as large as the condition
above allows.  In `rollout` two faults are a failed
write and its failed retry, or two commands with one failure each; two callers and three
items let one call queue items while the other waits or shuts the writer down; a second
line of metadata lets the other writer tear a line.  In `memory` two versions let a thread
change while it is extracted and one retry lets the budget run out; the one fault is a crash,
an error, a lease lost by a live worker or the reset, at any point.

### Fairness

- `RuntimeFairness`: weak fairness of each actor's steps (`Progress`), since a tokio task
  is polled while it can make progress and the abort timer fires.  The steps of a
  cancelled turn are not in it: a turn that hangs must not hold up its aborter.
- `ModelFairness`: a turn does not sample for ever (the model eventually needs no
  follow-up, hooks stop blocking, a failing compaction eventually succeeds or its
  turn ends).  The code has no bound on these; delivery of mail after the turn depends
  on it.  It too says nothing of cancelled turns.
- `RFairness`, `SFairness`, `EFairness`: weak fairness of the spawned tasks and timers of
  the other modules.  No client is assumed to send, disconnect or answer, no process to
  exit.  `RFairness` also lets handlers return: the gate's shutdown waits for them.
- `RecFairSpec`: the writer task is polled (`WriterStep`).  Writes return, with or without
  an error; callers, crashes and resumes are free.
- `OFairness`: the tasks of the readers are polled and the timer of a read fires.  The
  process need not write, exit or close: `FollowersEnd` begins with its having closed.
- `MFairness`: sessions keep being started, since nothing else runs the pipeline; the model
  and the agents answer in the end; backoffs, the cooldown and the leases of dead owners
  run out.  A heartbeat need not come, and no live owner loses its lease.

## 4. Proofs

The theorems hold for every value of the constants that satisfies the `ASSUME` of the
module, which only keeps identities apart (`ConstantsAssumption`, `ScopesAssumption`,
`SessionsAssumption`, `EventsAssumption`) and says which bounds and sizes are numbers
(`OutputAssumption`, `RolloutAssumption`, `MemoryAssumption`).  Six theorems have a
hypothesis of their own, which is part of their statement: `Solo` (`SoloOneTask`,
`SoloInputKept`), `Attentive` (`BaselineIsHonest`), `"attach_shutdown" \notin Drops`
(`ProcessesAreOwned`) and `Lead <= EventCapacity` (`NoGap`, `EndComplete`).  The passing
runs satisfy the last three; what happens without a hypothesis is in section 3.

**TurnLifecycle_proofs.**  `TypeCorrect` is proved together with `ActorsPrepared`: the
type of `StartAdd` depends on the actor having a turn context, that of `AbortClear` and
`FinishTake` on its having a turn state.  `RegisteredTasksLive`, `NoSilentEnd`,
`AbortedIsFinal` and `ApprovalReachable` (theorem `Ownership`) are not inductive one by
one: that a registered task is running needs that an aborter's task is not registered,
that two aborters never hold the same task, that a turn context has one starter.
`OwnInv` says so: a task is owned by the actor that will start it (`NamedTasks`), by the
active turn, by its own `on_task_finished` (`LiveTasksOwned`) or by the aborter that
drained it (`DrainedTasks`), and never by two.  The proof has one lemma per kind of
step (naming, adding, taking, cancelling, reporting, running on) and assigns every
action to one.  `Invariance` states the whole, `HandOffHolds` the action property.
`SoloOneTask` proves at most one task under the assumption `Solo` (no trigger mail, no
notes, no goals), with `SoloInv`: from the moment the submission loop has emptied the
turn nobody else adds a task.  `two_tasks` shows that the assumption is needed.

`DeliveredOnce` (no item of input is in two places) needs no more than the types:
`OnePlace` lists every place an item can be in and is inductive, because every action
either takes an item out of one place and puts it into one other or leaves it where it
is.  It holds for every session, goals, notes and wake-ups included.

`SoloInputKept` (no accepted input is lost) is again proved under `Solo`; it does not hold
without (section 3).  Input is lost when a turn state that holds some is in nobody's use
any more, so the proof needs to know who is looking at a turn without tasks.  `HandsInv`
says it: either the submission loop is about to add a task to it, or the tail of a
finished task has still to drop it (`StartsAlone`, `TailsEmpty`).  The one interesting step is an abort
that takes a turn whose last task has just removed itself (`AbortTake` with no tasks):
`TailsEmpty` gives the tail that is still before its `finish_take`, and which records the
input, or after it, and then nothing is pending.

**RequestQueues_proofs.**  `RInv` ties the map to the tasks: a key in the map has one
drain task, a queued request is in the queue of its key exactly once (`QueuedHere`), a
request that was taken and is not over is in the batch of that key's drain task, and a
batch with an exclusive request is that request alone (`TakenJoined`).  `OneDrain` and
`Exclusion` follow.  `AccessRefinement` maps every step to one of `KeyedAccess`: that a request
begins only when the earlier conflicting requests of its key are over needs
`ArrivalOrder`.  A request in a batch arrived before everything in the queue
(`BeforeIsEarlier`), an earlier one that is not over is therefore in the same batch, and two
requests of one batch do not conflict (`TakenMayBegin`).

**ExecSessions_proofs.**  `SInv` adds `Paired` to the safety properties: attachment and
handle name each other while a connection is served, and a timer is left only by a
connection that is gone.  That makes the second detach of a session safe against the
timer of the first.  `SessionSafety` and `DeadlineKept` follow.  `ProcessesAreOwned` is inductive
with `ExpiredHeld`: a connection that has removed an expired entry has no session of its
own, so nothing it does later makes it forget the one it is to shut down.  That nothing
takes the connection away meanwhile is the hypothesis.

**ExecEvents_proofs.**  `EInv`: every notification, wherever it is, carries the event
its number was given for (`NotesNumbered`); what is published and what is about to be
are the numbers `1..last` (`Contiguous`); the flags of the process agree with its log
(`LogShape`).  `EventRefinement` maps every step to a step of `EventStream` or a
stutter: a producer's step is `Produce`, `PublishReady` is `Deliver`.  `SessionEnds` rests
on `OutageInv`: the latch is set before the sessions are taken, and the failure has one
publisher.  `ReaderDrains` rests on `DrainInv`: the end of the connection is the last thing in
each of the two queues, so who has handled it has handled all.

**RolloutRecorder_proofs.**  `RecInv` puts the file, the unwritten suffix of `pending_items` and
the channel one behind the other and says that together they are what was accepted
(`Placed`, `Queued`), that a barrier never overtakes what it waits for (`InHand`) and that the
metadata is kept until it is written (`MetaKept`).  It holds after every failed attempt
because `Recover` drains exactly what was counted as written.  `NothingIsDropped` and
`MetadataFirst` follow.  `LogRefinement`: recording an item is the log's accepting it, a
completed line its commit, an answer its promise; a failed attempt, a reopening and a
short write are stutters, and a crash or stop forgets what was not committed.

**ProcessOutput_proofs.**  `OInv`: a number up to the reader's cursor was given or evicted, and
nothing above the cursor was given; the response a read has computed stays right while
it decides to wait (`LookedSound`); for a subscriber the rest of the replay ends where
the live channel begins, and all before its next event is accounted for unless it is
recovering (`SubscriberSound`); `Closed` is the last event (`ClosedIsLast`).  The proofs use of
eviction only that the buffers are suffixes that never grow at the front, and of paging only
that a page is an initial part of what is retained (`PageFacts`).
For a subscriber this accounts for the events from its subscription on.  Those before it
need `JoinedInTime`: as long as all events fit into the capacity of the log, its history is
cut for its bytes only, as the retained output is and by the same amounts
(`EvictInStep`), so whatever the history lacks is no longer retained either.  With
`Lead <= EventCapacity` that is so until the subscription, and `NoGap` and `EndComplete`
follow (`CoveredIsAccounted`).

**MemoryJobs_proofs.**  `RowsInvariant` proves `MInv`, with crashes, expired leases and the reset at
any step.  `WatermarkIsHonest` follows: a worker that passes the ownership test still has the
claim the row is at, and it has read the rollout since.  `BaselineIsHonest` assumes `Attentive`
(a live worker loses the global lease only while its agent runs) and proves
`BaselineConsolidated` and `MarkedIsInBaseline` from `WorkspaceInv`: outside of the agent only the
owner of the lock touches the workspace, and when there is no baseline, because a worker died
between removing and committing it, the workspace holds inputs that an agent has consolidated.

## 5. What is only model-checked

Liveness (`TriggerMailDelivered`, `AbortCompletes`, `RequestsResolve`, `LoopReturns`,
`DetachedEnds`, `SessionFails`, `ClosedDelivered`, `PollReturns`, `FollowersEnd`,
`CallsAnswered`, `PollutedForgotten`, `ThreadsExtracted`) is out of the prover's reach.
Every safety property of the passing runs is also proved, with restrictions that the runs
share: `BaselineConsolidated` and `MarkedIsInBaseline` for workers that satisfy `Attentive`,
`ProcessesOwned` if no shutdown of an expired session is dropped, `NoSilentGap` and
`EndIsComplete` for a transport that subscribes in time.  Proved and not model-checked are
`AtMostOneTask` and `InputKept` for sessions that satisfy `Solo`.  Without their condition
these properties are false, and section 3 says how.  No module uses RECURSIVE operators.

## 6. What is not modelled

Contents of messages, tools and outputs; the bookkeeping of goals, tokens and telemetry
inside the functions above; panics; memory orderings below the level of locks; loss of
power.  In the parts that are modelled: the teardown after `Op::Shutdown`; server-to-client
requests; the SQLite index of the thread store, listing, forking and archiving of
threads; the head-tail buffer of unified exec and the local output task; the splitting of
an MCP server's output into messages; messages of the exec-server that can not be decoded;
pruning, retention by age and the ranking of
memories, and the watermarks of phase 2, which no decision reads.  The hazards this
leaves open are listed without properties in `PROJECT.json`, with the reason.

By volume most of the repository is terminal UI, protocol types, configuration, command
line, clients of external services and tests.  It has no state shared between actors
beyond the parts above, or it depends on libraries and on the operating system for all it
does, and a model of it would restate the code.

## 7. Plan

Done: turns, requests, sessions and events, since everything else runs inside a turn and
the others are the protocols between processes; then followed output, the rollout and the
memory pipeline, where buffers overflow, writes fail and owners crash; proofs of the safety
properties and of the refinements of all of them.

Next, in this order:

1. An invariant on reserved turns, to prove what holds of input in sessions with goals and
   wake-ups.
2. `app-server/src/outgoing_message.rs` with `thread_state.rs`: server-to-client requests,
   replay on resume, answers after the turn is gone; composed with `RequestQueues` for the
   loop that closes a connection.
3. `core/src/agent/registry.rs` (slots and depth of spawned agents) and the process table of
   `core/src/unified_exec`: limits hold, slots are given back on every path.
4. `state/src/runtime/{agent_jobs,backfill}.rs` (leases), `scheduling/src`,
   `file-watcher/src`.
