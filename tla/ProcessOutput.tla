---------------------------- MODULE ProcessOutput ----------------------------
(***************************************************************************)
(* The output of one process of LocalProcess and the three ways it is      *)
(* followed: the long-poll read of exec_read, the output task of unified   *)
(* exec, which reads when the wake channel changes, and the transport of   *)
(* an MCP server, which subscribes to the event log and falls back to      *)
(* reading when it lags behind.                                            *)
(*                                                                         *)
(* Sequence numbers count all events, so events is the log of everything   *)
(* that happened and an event's number is its index.  The retained output  *)
(* and the replay history are suffixes of it, cut by evicting from the     *)
(* front: keepFrom and replayFrom are their first numbers.                 *)
(***************************************************************************)
EXTENDS Naturals, Sequences, FiniteSets, FiniteSetsExt

CONSTANTS
    Streams,        \* the output streams of the process
    Sizes,          \* sizes of a chunk
    MaxChunks,      \* chunks in all
    RetainedBytes,  \* RETAINED_OUTPUT_BYTES_PER_PROCESS
    EventCapacity,  \* PROCESS_EVENT_CHANNEL_CAPACITY
    PageBytes,      \* max_bytes of a long-poll read
    Lead,           \* events the process may publish before a transport subscribes
    Readers         \* the readers of this instance

ASSUME OutputAssumption ==
    /\ Sizes \subseteq Nat \ {0} /\ PageBytes \subseteq Nat
    /\ MaxChunks \in Nat /\ RetainedBytes \in Nat /\ EventCapacity \in Nat \ {0}
    /\ Lead \in Nat
    /\ Readers \subseteq {"poll", "task", "transport"}
    /\ Streams \cap {"exit", "closed"} = {}

VARIABLES
    events,      \* the events so far: kind and size
    keepFrom,    \* first number that RunningProcess::output may hold
    replayFrom,  \* first number in ExecProcessEventHistory::events
    openStreams, \* the streams that have not ended
    entry,       \* whether the process is in the map
    due,         \* producers that have yet to call notify_waiters
    reader,      \* the reader of this behaviour
    rpc,         \* where it is
    cursor,      \* after_seq of the next read, last_seq of the transport
    got,         \* the numbers of the chunks it was given, in order
    ended,       \* what it knows of the end: "no", "closed" or "failed"
    expired,     \* poll: whether its deadline has passed
    looked,      \* poll: next_seq of the response it computed
    wakeSeen,    \* task: the version of the watch channel it has seen
    replay,      \* transport: the numbers left of its replay
    joined,      \* transport: the number of the first event it was to be given
    live         \* transport: the number of the next event of its live receiver

procVars == <<events, keepFrom, replayFrom, openStreams, entry>>
pollVars == <<expired, looked>>
subVars  == <<replay, joined, live>>
ovars == <<events, keepFrom, replayFrom, openStreams, entry, due, reader, rpc, cursor,
           got, ended, expired, looked, wakeSeen, replay, joined, live>>

Last == Len(events)
IsOutput(k) == events[k].kind = "output"
Exited == \E k \in 1..Last : events[k].kind = "exited"
Closed == \E k \in 1..Last : events[k].kind = "closed"
Chunks == Cardinality({k \in 1..Last : IsOutput(k)})

OInit ==
    /\ events = << >> /\ keepFrom = 1 /\ replayFrom = 1
    /\ openStreams = Streams /\ entry = TRUE /\ due = {}
    /\ reader \in Readers /\ rpc = "start"
    /\ cursor = 0 /\ got = << >> /\ ended = "no"
    /\ expired = FALSE /\ looked = 0 /\ wakeSeen = 0
    /\ replay = << >> /\ joined = 1 /\ live = 1

------------------------------------------------------------------------------
(* The process: what happens under the lock of the process map.            *)

\* The bytes of the events of log whose numbers are in S.
Bytes(log, S) == MapThenSumSet(LAMBDA j : log[j].size, S)

\* Evict from the front until what is left of log from number k on fits: the set of
\* the one number that is then the first.
Evict(log, k, count, bytes) ==
    LET Fits(n) == Len(log) + 1 - n <= count /\ Bytes(log, n..Len(log)) <= bytes
    IN  {n \in k..(Len(log) + 1) : Fits(n) /\ \A m \in k..(n - 1) : ~Fits(m)}

\* The event gets the next number, goes into the retained output and the event log,
\* and the wake channel is sent its number; notify_waiters follows the unlock.  The
\* client subscribes at some time after process/start: Lead bounds how late.
Publish(kind, size, producer) ==
    LET log == Append(events, [kind |-> kind, size |-> size]) IN
    /\ entry
    /\ reader = "transport" /\ rpc = "start" => Last < Lead
    /\ events' = log
    /\ keepFrom' \in Evict(log, keepFrom, Len(log), RetainedBytes)
    /\ replayFrom' \in Evict(log, replayFrom, EventCapacity, RetainedBytes)
    /\ due' = due \cup {producer}

readerVars == <<reader, rpc, cursor, got, ended, pollVars, wakeSeen, subVars>>

StreamOutput(s, size) ==
    /\ s \in openStreams /\ s \notin due /\ Chunks < MaxChunks
    /\ Publish("output", size, s)
    /\ UNCHANGED <<openStreams, entry, readerVars>>

WatchExit ==
    /\ ~Exited
    /\ Publish("exited", 0, "exit")
    /\ UNCHANGED <<openStreams, entry, readerVars>>

FinishOutputStream(s) ==
    /\ s \in openStreams /\ s \notin due
    /\ openStreams' = openStreams \ {s}
    /\ UNCHANGED <<events, keepFrom, replayFrom, entry, due, readerVars>>

MaybeEmitClosed ==
    /\ ~Closed /\ openStreams = {} /\ Exited
    /\ Publish("closed", 0, "closed")
    /\ UNCHANGED <<openStreams, entry, readerVars>>

\* EXITED_PROCESS_RETENTION after the process closed its entry is removed.
RetentionEnds ==
    /\ Closed /\ entry
    /\ entry' = FALSE
    /\ UNCHANGED <<events, keepFrom, replayFrom, openStreams, due, readerVars>>

\* output_notify.notify_waiters(), after the unlock: it wakes the read that is
\* waiting now and nothing else.
NotifyWaiters(p) ==
    /\ p \in due
    /\ due' = due \ {p}
    /\ rpc' = IF rpc = "waiting" THEN "look" ELSE rpc
    /\ UNCHANGED <<procVars, reader, cursor, got, ended, pollVars, wakeSeen, subVars>>

------------------------------------------------------------------------------
(* exec_read.                                                              *)

\* The retained chunks after number `after': what a read without max_bytes returns.
Retained(after) == {k \in keepFrom..Last : IsOutput(k) /\ k > after}

\* The first of them and those behind it, up to the one that exceeds max bytes.
Page(after, max) ==
    LET fresh == Retained(after)
        Breaks(j) == /\ \E i \in fresh : i < j
                     /\ Bytes(events, {i \in fresh : i <= j}) > max
    IN  {k \in fresh : \A j \in fresh : j <= k => ~Breaks(j)}

NextSeq(page) == IF page = {} THEN Last + 1 ELSE Max(page) + 1

\* The chunks of a page as they are pushed: the set of its one increasing sequence.
InOrder(S) ==
    LET n == Cardinality(S)
    IN  {q \in [1..n -> S] : /\ \A k \in S : \E i \in 1..n : q[i] = k
                             /\ \A i, j \in 1..n : i < j => q[i] < q[j]}

\* Mutant of Take: next_seq itself becomes the number to read after.
TakeNext(page, next) ==
    /\ got' \in {got \o q : q \in InOrder(page)}
    /\ cursor' = next

\* The response of a read is given to the reader, which goes on after next_seq - 1.
Take(page, next) ==
    /\ got' \in {got \o q : q \in InOrder(page)}
    /\ cursor' = next - 1

\* A long-poll read begins, with or without a time to wait.
PollStart ==
    /\ reader = "poll" /\ rpc = "start" /\ ended = "no"
    /\ rpc' = "look"
    /\ expired' \in BOOLEAN
    /\ UNCHANGED <<procVars, due, reader, cursor, got, ended, looked, wakeSeen, subVars>>

\* The look at the process, under the lock: answer, or decide to wait.
PollLook(max) ==
    LET page == Page(cursor, max)
        next == NextSeq(page)
    IN
    /\ reader = "poll" /\ rpc = "look" /\ entry
    /\ IF page # {} \/ Closed \/ (Exited /\ cursor < next - 1) \/ expired
       THEN /\ Take(page, next)
            /\ ended' = IF Closed /\ page = {} THEN "closed" ELSE ended
            /\ rpc' = "start"
            /\ UNCHANGED looked
       ELSE /\ looked' = next
            /\ rpc' = "gap"
            /\ UNCHANGED <<cursor, got, ended>>
    /\ UNCHANGED <<procVars, due, reader, expired, wakeSeen, subVars>>

\* The lock is released: wait for a notification, unless the time is over by now.
PollWait ==
    /\ reader = "poll" /\ rpc = "gap"
    /\ IF expired
       THEN rpc' = "start" /\ cursor' = looked - 1
       ELSE rpc' = "waiting" /\ UNCHANGED cursor
    /\ UNCHANGED <<procVars, due, reader, got, ended, pollVars, wakeSeen, subVars>>

\* Mutant of PollDeadline: notified() is awaited without the timeout.
PollDeadlineUnseen ==
    /\ reader = "poll" /\ rpc \in {"look", "gap", "waiting"} /\ ~expired
    /\ expired' = TRUE
    /\ UNCHANGED <<procVars, due, reader, rpc, cursor, got, ended, looked, wakeSeen,
                   subVars>>

PollDeadline ==
    /\ reader = "poll" /\ rpc \in {"look", "gap", "waiting"} /\ ~expired
    /\ expired' = TRUE
    /\ rpc' = IF rpc = "waiting" THEN "look" ELSE rpc
    /\ UNCHANGED <<procVars, due, reader, cursor, got, ended, looked, wakeSeen, subVars>>

\* A read after the entry was removed fails: unknown process id.
ReadFails ==
    /\ ~entry
    /\ \/ reader = "poll" /\ rpc = "look"
       \/ reader = "task" /\ rpc = "read"
       \/ reader = "transport" /\ rpc = "recover"
    /\ ended' = "failed" /\ rpc' = "end"
    /\ UNCHANGED <<procVars, due, reader, cursor, got, pollVars, wakeSeen, subVars>>

------------------------------------------------------------------------------
(* The output task of unified exec: spawn_exec_server_output_task.         *)

\* Mutant of TaskStart: the task waits for a wake-up before its first read.
TaskStartWaiting ==
    /\ reader = "task" /\ rpc = "start"
    /\ wakeSeen' = Last
    /\ rpc' = "wait"
    /\ UNCHANGED <<procVars, due, reader, cursor, got, ended, pollVars, subVars>>

TaskStart ==
    /\ reader = "task" /\ rpc = "start"
    /\ wakeSeen' = Last
    /\ rpc' = "read"
    /\ UNCHANGED <<procVars, due, reader, cursor, got, ended, pollVars, subVars>>

\* Mutant of TaskRead: the task stops when the process has exited.
TaskReadUntilExit ==
    LET page == Retained(cursor) IN
    /\ reader = "task" /\ rpc = "read" /\ entry
    /\ Take(page, NextSeq(page))
    /\ ended' = IF Exited THEN "closed" ELSE ended
    /\ rpc' = IF Exited THEN "end" ELSE "wait"
    /\ UNCHANGED <<procVars, due, reader, pollVars, wakeSeen, subVars>>

\* One read without limit and without waiting; it breaks when the process is closed.
TaskRead ==
    LET page == Retained(cursor) IN
    /\ reader = "task" /\ rpc = "read" /\ entry
    /\ Take(page, NextSeq(page))
    /\ ended' = IF Closed THEN "closed" ELSE ended
    /\ rpc' = IF Closed THEN "end" ELSE "wait"
    /\ UNCHANGED <<procVars, due, reader, pollVars, wakeSeen, subVars>>

\* wake_rx.changed(): the last number sent differs from the one seen.
TaskWake ==
    /\ reader = "task" /\ rpc = "wait" /\ wakeSeen # Last
    /\ wakeSeen' = Last
    /\ rpc' = "read"
    /\ UNCHANGED <<procVars, due, reader, cursor, got, ended, pollVars, subVars>>

------------------------------------------------------------------------------
(* The transport: ExecProcessEventLog::subscribe, recv, recover_lagged_events *)

Subscribe ==
    /\ reader = "transport" /\ rpc = "start"
    /\ replay' = [i \in 1..(Last + 1 - replayFrom) |-> replayFrom + i - 1]
    /\ joined' = replayFrom /\ live' = Last + 1
    /\ rpc' = "recv"
    /\ UNCHANGED <<procVars, due, reader, cursor, got, ended, pollVars, wakeSeen>>

\* Event number k arrives.  Output is passed on if its number is above last_seq;
\* Closed ends the stream.
Receive(k) ==
    /\ cursor' = IF k > cursor THEN k ELSE cursor
    /\ got' = IF IsOutput(k) /\ k > cursor THEN Append(got, k) ELSE got
    /\ ended' = IF events[k].kind = "closed" THEN "closed" ELSE ended
    /\ rpc' = IF events[k].kind = "closed" THEN "end" ELSE "recv"

RecvReplay ==
    /\ reader = "transport" /\ rpc = "recv" /\ replay # << >>
    /\ Receive(Head(replay))
    /\ replay' = Tail(replay)
    /\ UNCHANGED <<procVars, due, reader, pollVars, wakeSeen, joined, live>>

\* The broadcast channel holds the last EventCapacity events.
Lagging == Last + 1 - live > EventCapacity

RecvLive ==
    /\ reader = "transport" /\ rpc = "recv" /\ replay = << >>
    /\ live <= Last /\ ~Lagging
    /\ Receive(live)
    /\ live' = live + 1
    /\ UNCHANGED <<procVars, due, reader, pollVars, wakeSeen, replay, joined>>

\* Mutant of RecvLagged: the lag is logged and receiving goes on.
RecvLaggedGoesOn ==
    /\ reader = "transport" /\ rpc = "recv" /\ replay = << >> /\ Lagging
    /\ live' = Last + 1 - EventCapacity
    /\ UNCHANGED <<procVars, due, reader, rpc, cursor, got, ended, pollVars, wakeSeen,
                   replay, joined>>

RecvLagged ==
    /\ reader = "transport" /\ rpc = "recv" /\ replay = << >> /\ Lagging
    /\ live' = Last + 1 - EventCapacity
    /\ rpc' = "recover"
    /\ UNCHANGED <<procVars, due, reader, cursor, got, ended, pollVars, wakeSeen, replay,
                   joined>>

RecoverLagged ==
    LET page == Retained(cursor)
        next == NextSeq(page)
    IN
    /\ reader = "transport" /\ rpc = "recover" /\ entry
    /\ got' \in {got \o q : q \in InOrder(page)}
    /\ cursor' = IF next - 1 > cursor THEN next - 1 ELSE cursor
    /\ ended' = IF Closed THEN "closed" ELSE ended
    /\ rpc' = IF Closed THEN "end" ELSE "recv"
    /\ UNCHANGED <<procVars, due, reader, pollVars, wakeSeen, subVars>>

------------------------------------------------------------------------------
Produce ==
    \/ \E s \in Streams :
          \/ \E size \in Sizes : StreamOutput(s, size)
          \/ FinishOutputStream(s)
    \/ WatchExit
    \/ MaybeEmitClosed
    \/ RetentionEnds
    \/ \E p \in Streams \cup {"exit", "closed"} : NotifyWaiters(p)

PollSteps == PollStart \/ PollWait \/ PollDeadline \/ \E max \in PageBytes : PollLook(max)
TaskSteps == TaskStart \/ TaskRead \/ TaskWake
TransportSteps == Subscribe \/ RecvReplay \/ RecvLive \/ RecvLagged \/ RecoverLagged

ONext == Produce \/ PollSteps \/ TaskSteps \/ TransportSteps \/ ReadFails

OSpec == OInit /\ [][ONext]_ovars

\* The tasks of the readers are polled and the timer of a read fires; nothing is
\* assumed of the process.
OFairness ==
    /\ WF_ovars(ReadFails)
    /\ WF_ovars(PollStart) /\ WF_ovars(PollWait) /\ WF_ovars(PollDeadline)
    /\ WF_ovars(\E max \in PageBytes : PollLook(max))
    /\ WF_ovars(TaskSteps)
    /\ WF_ovars(TransportSteps)

OFairSpec == OSpec /\ OFairness

------------------------------------------------------------------------------
(* Properties.                                                             *)

Events == [kind : {"output", "exited", "closed"}, size : Sizes \cup {0}]

\* The variables have their shapes; no reader asks for output after a number that
\* no event has yet (a cursor past the end would skip the next chunk).
OTypeOK ==
    /\ events \in Seq(Events)
    /\ keepFrom \in 1..(Last + 1) /\ replayFrom \in 1..(Last + 1)
    /\ openStreams \subseteq Streams /\ entry \in BOOLEAN
    /\ due \subseteq Streams \cup {"exit", "closed"}
    /\ reader \in Readers
    /\ rpc \in {"start", "look", "gap", "waiting", "read", "wait", "recv", "recover", "end"}
    /\ cursor \in 0..Last /\ got \in Seq(1..Last)
    /\ ended \in {"no", "closed", "failed"}
    /\ expired \in BOOLEAN /\ looked \in 0..(Last + 1) /\ wakeSeen \in 0..Last
    /\ replay \in Seq(1..Last) /\ joined \in 1..(Last + 1) /\ live \in 1..(Last + 1)

Given == {got[i] : i \in 1..Len(got)}

\* Output chunk k was given to the reader or can no longer be read by anybody.
Accounted(k) == IsOutput(k) => k \in Given \/ k < keepFrom

\* Every reader is given each chunk at most once and in order, whether it came by
\* replay, by the live channel or by a read that raced with both, and a chunk it
\* went past without being given was evicted from the retained output.
NoSilentGap ==
    /\ \A i, j \in 1..Len(got) : i < j => got[i] < got[j]
    /\ \A k \in 1..cursor : Accounted(k)

\* A reader that learns of the end of the process has been given all of its output
\* that could still be read: for a subscriber, the event log has replayed whatever
\* landed before it was attached.
EndIsComplete == ended = "closed" => Closed /\ \A k \in 1..Last : Accounted(k)

\* What holds however late the transport subscribes: a chunk is accounted for, or is
\* older than the first event of its replay.
Covered(k) == IsOutput(k) => k \in Given \/ k < keepFrom \/ k < joined

InOrderCovered ==
    /\ \A i, j \in 1..Len(got) : i < j => got[i] < got[j]
    /\ \A k \in 1..cursor : Covered(k)

EndCovered == ended = "closed" => Closed /\ \A k \in 1..Last : Covered(k)

\* Closed is the last event: the exit and the end of every stream precede it.
ClosedIsLast ==
    /\ Closed => openStreams = {} /\ Exited
    /\ \A k \in 1..Last : events[k].kind = "closed" => k = Last

\* The response a read computed stays good while the read is between its look at the
\* process and its wait.
LookedSound ==
    rpc = "gap" => looked > cursor /\ \A k \in 1..(looked - 1) : Covered(k)

\* The number of the next event the subscriber is to receive.
NextEvent == live - Len(replay)

\* What is left of the replay ends where the live channel begins, and a subscriber
\* that is not recovering has been given what precedes its next event.
SubscriberSound ==
    /\ NextEvent >= 1
    /\ \A i \in 1..Len(replay) : replay[i] = NextEvent + i - 1
    /\ reader = "transport" /\ rpc = "start" => cursor = 0 /\ joined = 1
    /\ rpc = "recv" => \A k \in 1..(NextEvent - 1) : Covered(k)

\* The inductive invariant of the readers: no cursor runs ahead of the log or behind
\* what was given, through every race of producers, reads, eviction and recovery.
OInv ==
    /\ OTypeOK /\ InOrderCovered /\ EndCovered
    /\ \A i \in 1..Len(got) : got[i] <= cursor
    /\ ClosedIsLast /\ LookedSound /\ SubscriberSound

\* A long-poll read returns, also when the output it waits for was notified between
\* its look at the process and its wait (exec_read creates the waiter after it has
\* released the lock).
PollReturns == rpc \in {"look", "gap", "waiting"} ~> rpc \in {"start", "end"}

\* Once the process has closed, whoever follows it comes to an end: no wake-up of
\* the output task is lost, and a lagging subscriber learns of the end it missed.
FollowersEnd == Closed ~> ended # "no"
=============================================================================
