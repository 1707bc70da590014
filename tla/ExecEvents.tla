----------------------------- MODULE ExecEvents -----------------------------
(***************************************************************************)
(* The events of one exec-server process on their way to the client: the   *)
(* three tasks of local_process.rs that number and send them, the          *)
(* connection, and the client.rs reader that puts them back in order and   *)
(* publishes them, next to the reads of the consumer.                      *)
(*                                                                         *)
(* A task gives an event its number under the lock of the process map and  *)
(* sends the notification after it has released the lock, so notifications *)
(* overtake each other.  An action below is one critical section.          *)
(***************************************************************************)
EXTENDS Naturals, Sequences, FiniteSets

CONSTANTS
    Streams,    \* the stream_output tasks (stdout and stderr)
    ExitTask,   \* the watch_exit task
    MaxOutput,  \* bound: chunks of output
    Reads       \* the consumer polls with Session::read

Tasks == Streams \cup {ExitTask}

ASSUME EventsAssumption ==
    /\ ExitTask \notin Streams /\ MaxOutput \in Nat /\ Reads \in BOOLEAN

VARIABLES
    \* server
    entry,      \* the process in the map: "none", "running" or "gone"
    nextSeq,    \* RunningProcess::next_seq
    log,        \* RunningProcess::events
    open,       \* the streams counted in open_streams
    exited,     \* exit_code.is_some()
    closed,     \* RunningProcess::closed
    retention,  \* the clean-up task: "none", "sleeping" or "over"
    task,       \* where each of the three tasks is
    out,        \* the notification a task is about to send
    \* connection
    wire,       \* notifications the client's connection has not handed on
    down,       \* RpcClient::disconnected_rx
    eof,        \* the RpcClient reader has handed on the disconnect
    inbox,      \* events_rx
    \* client
    user,       \* "idle", "exec", "open" or "dropped": RemoteExecProcess
    route,      \* the session is in Inner::sessions
    latch,      \* Inner::disconnected
    last,       \* last_published_seq
    pending,    \* OrderedSessionEvents::pending
    ready,      \* events the reader is about to publish
    reader,     \* where the reader task is
    read,       \* where Session::read is
    failure,    \* SessionState::failure.is_some()
    published,  \* the sequenced events of SessionState::events
    failed      \* how many of them were before each Failed

serverVars == <<entry, nextSeq, log, open, exited, closed, retention, task, out>>
netVars    == <<wire, down, eof, inbox>>
readVars   == <<read, failure, failed>>
evars == <<entry, nextSeq, log, open, exited, closed, retention, task, out,
           wire, down, eof, inbox, user, route, latch, last, pending, ready,
           reader, read, failure, published, failed>>

NoNote == [seq |-> 0, event |-> "none"]

EInit ==
    /\ entry = "none" /\ nextSeq = 1 /\ log = << >>
    /\ open = Streams /\ exited = FALSE /\ closed = FALSE /\ retention = "none"
    /\ task = [t \in Tasks |-> "none"]
    /\ out = [t \in Tasks |-> NoNote]
    /\ wire = << >> /\ down = FALSE /\ eof = FALSE /\ inbox = << >>
    /\ user = "idle" /\ route = FALSE /\ latch = FALSE
    /\ last = 0 /\ pending = {} /\ ready = << >> /\ reader = "recv"
    /\ read = "idle" /\ failure = FALSE
    /\ published = << >> /\ failed = << >>

TaskAt(t, p) == task' = [task EXCEPT ![t] = p]

-----------------------------------------------------------------------------
(* Server: local_process.rs *)

\* Mutant of Emit: the number is taken after it was increased.
EmitLate(t, e) ==
    /\ nextSeq' = nextSeq + 1
    /\ log' = Append(log, e)
    /\ out' = [out EXCEPT ![t] = [seq |-> nextSeq', event |-> e]]

\* Number an event, publish it locally and prepare its notification.
Emit(t, e) ==
    /\ nextSeq' = nextSeq + 1
    /\ log' = Append(log, e)
    /\ out' = [out EXCEPT ![t] = [seq |-> nextSeq, event |-> e]]

Chunks == Cardinality({i \in 1..Len(log) : log[i] = "Output"})

\* stream_output: a chunk, unless the process has left the map
Chunk(s) ==
    /\ task[s] = "recv" /\ entry = "running" /\ Chunks < MaxOutput
    /\ Emit(s, "Output")
    /\ TaskAt(s, "notify")
    /\ UNCHANGED <<entry, open, exited, closed, retention, netVars, user, route,
                   latch, last, pending, ready, reader, readVars, published>>

\* The stream ends, or a chunk finds no entry; finish_output_stream counts it.
StreamEnds(s) ==
    /\ task[s] = "recv"
    /\ \/ entry = "running" /\ open' = open \ {s} /\ TaskAt(s, "close")
       \/ entry = "gone" /\ TaskAt(s, "done") /\ UNCHANGED open
    /\ UNCHANGED <<entry, nextSeq, log, exited, closed, retention, out, netVars,
                   user, route, latch, last, pending, ready, reader, readVars, published>>

\* watch_exit
Exits(t) ==
    /\ t = ExitTask /\ task[t] = "wait"
    /\ \/ entry = "running" /\ exited' = TRUE /\ Emit(t, "Exited") /\ TaskAt(t, "notify")
       \/ entry = "gone" /\ TaskAt(t, "close") /\ UNCHANGED <<nextSeq, log, exited, out>>
    /\ UNCHANGED <<entry, open, closed, retention, netVars, user, route, latch,
                   last, pending, ready, reader, readVars, published>>

\* Mutant of CanClose: open streams are not waited for.
CanCloseOpen == entry = "running" /\ ~closed /\ exited

\* maybe_emit_closed, by whichever task is last
CanClose == entry = "running" /\ ~closed /\ open = {} /\ exited

Close(t) ==
    /\ task[t] = "close"
    /\ \/ /\ CanClose
          /\ closed' = TRUE /\ retention' = "sleeping"
          /\ Emit(t, "Closed") /\ TaskAt(t, "notify")
       \/ ~CanClose /\ TaskAt(t, "done") /\ UNCHANGED <<closed, retention, nextSeq, log, out>>
    /\ UNCHANGED <<entry, open, exited, netVars, user, route, latch, last,
                   pending, ready, reader, readVars, published>>

\* What the task does after its notification.
AfterNotify(t) == CASE out[t].event = "Output" -> "recv"
                    [] out[t].event = "Exited" -> "close"
                    [] OTHER -> "done"

\* RpcNotificationSender::notify, which goes nowhere without a connection
Notify(t) ==
    /\ task[t] = "notify"
    /\ wire' = IF down THEN wire ELSE Append(wire, out[t])
    /\ TaskAt(t, AfterNotify(t))
    /\ out' = [out EXCEPT ![t] = NoNote]
    /\ UNCHANGED <<entry, nextSeq, log, open, exited, closed, retention, down, eof,
                   inbox, user, route, latch, last, pending, ready, reader, readVars, published>>

\* EXITED_PROCESS_RETENTION is over: a closed process leaves the map.
Evict ==
    /\ retention = "sleeping"
    /\ retention' = "over"
    /\ entry' = IF closed THEN "gone" ELSE entry
    /\ UNCHANGED <<nextSeq, log, open, exited, closed, task, out, netVars, user, route,
                   latch, last, pending, ready, reader, readVars, published>>

\* LocalProcess::shutdown, when the session of the lost connection expires
Shutdown ==
    /\ down /\ entry = "running"
    /\ entry' = "gone"
    /\ UNCHANGED <<nextSeq, log, open, exited, closed, retention, task, out, netVars,
                   user, route, latch, last, pending, ready, reader, readVars, published>>

-----------------------------------------------------------------------------
(* Connection: RpcClient *)

\* The connection is lost with what was not read from it yet.
TransportDown ==
    /\ ~down
    /\ down' = TRUE
    /\ \E n \in 0..Len(wire) : wire' = SubSeq(wire, 1, n)
    /\ UNCHANGED <<serverVars, eof, inbox, user, route, latch, last, pending,
                   ready, reader, readVars, published>>

Forward ==
    /\ wire # << >>
    /\ inbox' = Append(inbox, Head(wire)) /\ wire' = Tail(wire)
    /\ UNCHANGED <<serverVars, down, eof, user, route, latch, last, pending,
                   ready, reader, readVars, published>>

\* RpcClientEvent::Disconnected, then drain_pending
ForwardEof ==
    /\ down /\ wire = << >> /\ ~eof
    /\ eof' = TRUE
    /\ UNCHANGED <<serverVars, wire, down, inbox, user, route, latch, last, pending,
                   ready, reader, readVars, published>>

-----------------------------------------------------------------------------
(* Client: RemoteProcess::start and the end of its process handle *)

\* register_session: refused once the disconnect is recorded
Register ==
    /\ user = "idle" /\ ~latch
    /\ user' = "exec" /\ route' = TRUE
    /\ UNCHANGED <<serverVars, netVars, latch, last, pending, ready, reader, readVars, published>>

\* The exec request reaches the server: start_process spawns the child and the
\* three tasks.
ExecStart ==
    /\ user = "exec" /\ entry = "none" /\ ~down
    /\ entry' = "running"
    /\ task' = [t \in Tasks |-> IF t = ExitTask THEN "wait" ELSE "recv"]
    /\ UNCHANGED <<nextSeq, log, open, exited, closed, retention, out, netVars, user,
                   route, latch, last, pending, ready, reader, readVars, published>>

\* The answer; without one, or with an error, the route is removed.
ExecReturn ==
    /\ user = "exec"
    /\ \/ entry # "none" /\ user' = "open" /\ UNCHANGED <<route, latch>>
       \/ /\ entry = "none" \/ eof
          /\ user' = "dropped" /\ route' = FALSE
          /\ latch' = (latch \/ down)
    /\ UNCHANGED <<serverVars, netVars, last, pending, ready, reader, readVars, published>>

\* Drop for RemoteExecProcess
DropProcess ==
    /\ user = "open" /\ read = "idle"
    /\ user' = "dropped" /\ route' = FALSE
    /\ UNCHANGED <<serverVars, netVars, latch, last, pending, ready, reader, readVars, published>>

-----------------------------------------------------------------------------
(* Client: the reader task *)

Seqs(P) == {e.seq : e \in P}

\* Mutant of Ready: the first of a run is published, the rest waits for the
\* next notification.
ReadyOne(P, n) ==
    \/ n = last /\ last + 1 \notin Seqs(P)
    \/ n = last + 1 /\ n \in Seqs(P)

\* Every number after last up to n is there and the next one is not.
Ready(P, n) ==
    /\ n >= last /\ n + 1 \notin Seqs(P)
    /\ \A m \in (last + 1)..n : m \in Seqs(P)

\* Mutant of Accept: events are published as they come.
AcceptUnordered(e) == ready' = <<e>> /\ last' = e.seq /\ UNCHANGED pending

\* publish_ordered_event, the part under the lock
Accept(e) ==
    LET P == pending \cup {e}
    IN  \E n \in 0..(nextSeq - 1) :
          /\ Ready(P, n)
          /\ ready' = [i \in 1..(n - last) |-> CHOOSE p \in P : p.seq = last + i]
          /\ pending' = {p \in P : p.seq > n}
          /\ last' = n

\* handle_server_notification: a notification without a route, or one that
\* was published already, is ignored.
HandleNotification ==
    /\ reader = "recv" /\ inbox # << >>
    /\ inbox' = Tail(inbox)
    /\ \/ /\ route /\ Head(inbox).seq > last
          /\ Accept(Head(inbox)) /\ reader' = "publish"
       \/ /\ ~route \/ Head(inbox).seq <= last
          /\ UNCHANGED <<ready, pending, last, reader>>
    /\ UNCHANGED <<serverVars, wire, down, eof, user, route, latch, readVars, published>>

PublishReady ==
    /\ reader \in {"publish", "publish_closed"} /\ ready # << >>
    /\ published' = Append(published, Head(ready).event)
    /\ ready' = Tail(ready)
    /\ reader' = IF Head(ready).event = "Closed" THEN "publish_closed" ELSE reader
    /\ UNCHANGED <<serverVars, netVars, user, route, latch, last, pending, readVars>>

\* Only the call that published Closed removes the session.
PublishDone ==
    /\ reader \in {"publish", "publish_closed"} /\ ready = << >>
    /\ reader' = "recv"
    /\ route' = (route /\ reader = "publish")
    /\ UNCHANGED <<serverVars, netVars, user, latch, last, pending, ready, readVars, published>>

\* Mutant of HandleDisconnect: the disconnect overtakes the notifications.
HandleDisconnectFirst ==
    /\ reader = "recv" /\ eof
    /\ latch' = TRUE /\ reader' = "take"
    /\ UNCHANGED <<serverVars, netVars, user, route, last, pending, ready, readVars, published>>

\* RpcClientEvent::Disconnected is behind every notification; the latch is set
\* before the sessions are taken.
HandleDisconnect ==
    /\ reader = "recv" /\ inbox = << >> /\ eof
    /\ latch' = TRUE /\ reader' = "take"
    /\ UNCHANGED <<serverVars, netVars, user, route, last, pending, ready, readVars, published>>

\* Mutant of TakeSessions: the sessions are dropped without a Failed event.
TakeSessionsQuiet ==
    /\ reader = "take"
    /\ route' = FALSE /\ reader' = "ended"
    /\ UNCHANGED <<serverVars, netVars, user, latch, last, pending, ready, readVars, published>>

TakeSessions ==
    /\ reader = "take"
    /\ route' = FALSE /\ reader' = IF route THEN "fail" ELSE "ended"
    /\ UNCHANGED <<serverVars, netVars, user, latch, last, pending, ready, readVars, published>>

\* set_failure, under the lock: only the first caller will publish Failed.
AfterFailure(publish, skip) == IF failure THEN skip ELSE publish

FailSession ==
    /\ reader = "fail"
    /\ failure' = TRUE /\ reader' = AfterFailure("publish_failed", "ended")
    /\ UNCHANGED <<serverVars, netVars, user, route, latch, last, pending, ready, read, published, failed>>

PublishFailed ==
    /\ reader = "publish_failed"
    /\ failed' = Append(failed, Len(published)) /\ reader' = "ended"
    /\ UNCHANGED <<serverVars, netVars, user, route, latch, last, pending, ready, read, failure, published>>

-----------------------------------------------------------------------------
(* Client: Session::read *)

\* A read that the server answers changes nothing here.
ReadCall ==
    /\ Reads /\ user = "open" /\ read = "idle" /\ ~failure
    /\ read' = IF latch \/ down THEN "closed" ELSE "waiting"
    /\ UNCHANGED <<serverVars, netVars, user, route, latch, last, pending, ready,
                   reader, failure, published, failed>>

ReadReturn ==
    /\ read = "waiting"
    /\ \/ ~eof /\ read' = "idle"
       \/ eof /\ read' = "closed"
    /\ UNCHANGED <<serverVars, netVars, user, route, latch, last, pending, ready,
                   reader, failure, published, failed>>

\* The error of a closed transport: record_disconnected and set_failure
ReadFail ==
    /\ read = "closed"
    /\ latch' = TRUE
    /\ failure' = TRUE /\ read' = AfterFailure("publish_failed", "idle")
    /\ UNCHANGED <<serverVars, netVars, user, route, last, pending, ready, reader, published, failed>>

ReadPublishFailed ==
    /\ read = "publish_failed"
    /\ failed' = Append(failed, Len(published)) /\ read' = "idle"
    /\ UNCHANGED <<serverVars, netVars, user, route, latch, last, pending, ready,
                   reader, failure, published>>

-----------------------------------------------------------------------------
StreamStep(s) == StreamEnds(s) \/ Close(s) \/ Notify(s)
ExitStep(t)   == Close(t) \/ Notify(t)
ReaderStep == HandleNotification \/ PublishReady \/ PublishDone
              \/ HandleDisconnect \/ TakeSessions \/ FailSession \/ PublishFailed
ReadStep   == ReadReturn \/ ReadFail \/ ReadPublishFailed

ENext == \/ \E s \in Streams : Chunk(s) \/ StreamStep(s)
         \/ Exits(ExitTask) \/ ExitStep(ExitTask)
         \/ Evict \/ Shutdown
         \/ TransportDown \/ Forward \/ ForwardEof
         \/ Register \/ ExecStart \/ ExecReturn \/ DropProcess
         \/ ReaderStep \/ ReadCall \/ ReadStep

ESpec == EInit /\ [][ENext]_evars

\* tokio polls the tasks, time passes, the transport delivers while it is up.
\* The process may run for ever, so nothing makes it exit or end its output.
EFairness ==
    /\ \A t \in Tasks : WF_evars(Close(t)) /\ WF_evars(Notify(t))
    /\ WF_evars(Evict) /\ WF_evars(Forward) /\ WF_evars(ForwardEof)
    /\ WF_evars(ReaderStep) /\ WF_evars(ReadStep)

EFairSpec == ESpec /\ EFairness

-----------------------------------------------------------------------------
(* Properties *)

Notes == [seq : Nat \ {0}, event : {"Output", "Exited", "Closed"}]

\* The types of the state, on the server, on the connection and in the client.
ETypeOK ==
    /\ entry \in {"none", "running", "gone"} /\ nextSeq \in Nat \ {0}
    /\ log \in Seq({"Output", "Exited", "Closed"})
    /\ open \subseteq Streams /\ exited \in BOOLEAN /\ closed \in BOOLEAN
    /\ retention \in {"none", "sleeping", "over"}
    /\ task \in [Tasks -> {"none", "recv", "wait", "notify", "close", "done"}]
    /\ out \in [Tasks -> Notes \cup {NoNote}]
    /\ wire \in Seq(Notes) /\ inbox \in Seq(Notes) /\ down \in BOOLEAN /\ eof \in BOOLEAN
    /\ user \in {"idle", "exec", "open", "dropped"}
    /\ route \in BOOLEAN /\ latch \in BOOLEAN
    /\ last \in Nat /\ pending \subseteq Notes /\ ready \in Seq(Notes)
    /\ reader \in {"recv", "publish", "publish_closed", "take", "fail", "publish_failed", "ended"}
    /\ read \in {"idle", "waiting", "closed", "publish_failed"}
    /\ failure \in BOOLEAN /\ failed \in Seq(Nat)
    /\ published \in Seq({"Output", "Exited", "Closed"})

\* log and published are the variables of EventStream.
ES == INSTANCE EventStream

\* Whatever order the notifications arrive in, the client publishes the events
\* of the process, each once and in the order the server numbered them, and
\* the server numbers none after Closed.
ImplementsEventStream == ES!VSpec

\* No session waits for a reader that is gone: a process cannot be registered
\* once the reader has taken the sessions (the check of insert_session).
NoDeadSession == reader = "ended" => ~route

\* The reader and a read may both meet the lost connection; Failed is
\* published once.
FailedOnce == Len(failed) <= 1

\* The reader fails a session only when it has published, or kept for a gap,
\* everything that was received before the connection was lost.
DrainedBeforeFailure ==
    reader \in {"take", "fail", "publish_failed", "ended"} =>
        inbox = << >> /\ wire = << >> /\ ready = << >>

\* The consumer was told that the process is over.
ClosedPublished == \E i \in 1..Len(published) : published[i] = "Closed"

\* A consumer learns that the connection is lost: unless it gives the process
\* up, or the process was over, it gets Failed.
SessionFails ==
    down /\ user = "open" ~> failed # << >> \/ ClosedPublished \/ user = "dropped"

\* A process that is over is seen to be over: Closed gets through whatever
\* overtook it, unless the connection is lost or the process is given up.
ClosedDelivered == closed ~> ClosedPublished \/ down \/ user = "dropped"

-----------------------------------------------------------------------------
(* The inductive invariant behind ImplementsEventStream *)

\* A notification carries the event its number was given for.
Numbered(e) == e.seq \in 1..Len(log) /\ e.event = log[e.seq]

\* Every notification carries the event its number was given for.
NotesNumbered ==
    /\ nextSeq = Len(log) + 1
    /\ \A t \in Tasks : task[t] = "notify" => Numbered(out[t])
    /\ \A i \in 1..Len(wire) : Numbered(wire[i])
    /\ \A i \in 1..Len(inbox) : Numbered(inbox[i])
    /\ \A e \in pending : Numbered(e)
    /\ \A i \in 1..Len(ready) : Numbered(ready[i])

\* What is published and what is about to be make up 1..last.
Contiguous ==
    /\ last = Len(published) + Len(ready)
    /\ \A i \in 1..Len(published) : i \in 1..Len(log) /\ published[i] = log[i]
    /\ \A i \in 1..Len(ready) : ready[i].seq = Len(published) + i
    /\ reader \notin {"publish", "publish_closed"} => ready = << >>

\* The flags of the process tell what is in its log, and a stream that may
\* still produce output is counted as open.
LogShape ==
    /\ \A i \in 1..Len(log) : /\ log[i] = "Closed" => closed
                              /\ log[i] = "Exited" => exited
    /\ exited => \E i \in 1..Len(log) : log[i] = "Exited"
    /\ closed => open = {} /\ exited
    /\ \A s \in Streams : task[s] = "recv" => s \in open
    /\ \A s \in Streams : task[s] = "notify" /\ out[s].event = "Output" => s \in open
    /\ task[ExitTask] \in {"none", "wait"} => ~exited
    /\ task[ExitTask] = "notify" => out[ExitTask].event # "Output"
    /\ entry = "none" => open = Streams /\ \A t \in Tasks : task[t] = "none"

\* Numbering under the lock, sending outside it and sorting in the client keep
\* what is published a prefix of what the server numbered.
EInv == ETypeOK /\ NotesNumbered /\ Contiguous /\ LogShape

=============================================================================
