--------------------------- MODULE RolloutRecorder ---------------------------
(***************************************************************************)
(* The rollout file of one thread: RolloutRecorder and its writer task     *)
(* (rollout/src/recorder.rs), and the calls of the local thread store that *)
(* use it (thread-store/src/local/live_writer.rs).  Callers queue commands *)
(* on a bounded channel; the writer keeps the items it has not written in  *)
(* pending_items and tries every write twice, reopening the file in        *)
(* between.  Metadata updates append to the file behind the writer's back. *)
(*                                                                         *)
(* A write of a line succeeds, fails, or fails after part of the line has  *)
(* reached the file.  The process may die at any point and the thread be   *)
(* resumed from the file.  The file is its lines of items and its lines of *)
(* session metadata, each in the order they were written, the latter with  *)
(* the number of item lines before them.  load_rollout_items can not parse *)
(* a line whose bytes follow the rest of an unfinished one: ok is FALSE.   *)
(***************************************************************************)
EXTENDS Naturals, Sequences

CONSTANTS
    Clients,      \* tasks of the session that call the thread store
    Capacity,     \* of the command channel
    MaxItems,     \* items recorded in all
    MaxFaults,    \* writes and opens that fail
    MaxLives,     \* times the recorder is opened
    MaxMetas      \* lines of session metadata in the file

ASSUME RolloutAssumption ==
    /\ Capacity \in Nat \ {0} /\ MaxItems \in Nat /\ MaxFaults \in Nat
    /\ MaxLives \in Nat \ {0} /\ MaxMetas \in Nat

VARIABLES
    cmds,      \* the channel of RolloutCmd
    cmd,       \* the command the writer works on
    wpc,       \* where the writer is in it
    attempt,   \* of write_pending_with_recovery: 1 or 2
    isOpen,    \* RolloutWriterState::writer is Some
    deferred,  \* deferred_log_file_info is Some
    needMeta,  \* RolloutWriterState::meta is Some
    pending,   \* RolloutWriterState::pending_items
    written,   \* written_count of write_pending_items_once
    lines,     \* the complete lines of items in the file
    metas,     \* the complete lines of session metadata in the file
    torn,      \* whether the file ends inside a line
    calls,     \* what each client waits for
    phase,     \* "live", "stopped" or "down"
    lives,     \* recorders opened so far
    recorded,  \* items recorded so far
    faults,    \* failures so far
    accepted,  \* history: the items accepted, in order
    promised   \* history: the items some call reported as committed

writerVars == <<cmd, wpc, attempt, isOpen, deferred, needMeta, pending, written>>
fileVars   == <<lines, metas, torn>>
lifeVars   == <<phase, lives>>
history    == <<accepted, promised>>
rvars == <<cmds, cmd, wpc, attempt, isOpen, deferred, needMeta, pending, written,
           lines, metas, torn, calls, phase, lives, recorded, faults, accepted,
           promised>>

Barriers == {"flush", "persist", "shutdown"}
\* A command has its item or its caller, and, as history, how many items had been
\* accepted when it was queued, its own included.
NoCmd == [op |-> "none", arg |-> 0, at |-> 0]

\* The items in the file, in order, whether or not they can be parsed.
Written == [k \in 1..Len(lines) |-> lines[k].item]

\* What load_rollout_items returns of them: the lines that parse.
Loaded == {lines[k].item : k \in {j \in 1..Len(lines) : lines[j].ok}}

\* get_rollout_history needs the thread id of a line of session metadata.
Loadable == \E k \in 1..Len(metas) : metas[k].ok

RecInit ==
    /\ cmds = << >> /\ cmd = NoCmd /\ wpc = "recv" /\ attempt = 1
    /\ isOpen = FALSE /\ deferred = TRUE /\ needMeta = TRUE
    /\ pending = << >> /\ written = 0
    /\ lines = << >> /\ metas = << >> /\ torn = FALSE
    /\ calls = [c \in Clients |-> "idle"]
    /\ phase = "live" /\ lives = 1
    /\ recorded = 0 /\ faults = 0
    /\ accepted = << >> /\ promised = {}

------------------------------------------------------------------------------
(* Callers.                                                                *)

\* append_items: record_canonical_items queues the item, a flush follows.
RecordItems(c) ==
    /\ phase = "live" /\ calls[c] = "idle"
    /\ Len(cmds) < Capacity /\ recorded < MaxItems
    /\ recorded' = recorded + 1
    /\ cmds' = Append(cmds, [op |-> "add", arg |-> recorded + 1,
                             at |-> Len(accepted) + 1])
    /\ accepted' = Append(accepted, recorded + 1)
    /\ calls' = [calls EXCEPT ![c] = "recorded"]
    /\ UNCHANGED <<writerVars, fileVars, lifeVars, faults, promised>>

\* flush, persist, shutdown: queue the barrier and wait for its answer.
SendBarrier(c, op) ==
    /\ phase = "live" /\ Len(cmds) < Capacity
    /\ \/ calls[c] = "idle"
       \/ calls[c] = "recorded" /\ op = "flush"
    /\ cmds' = Append(cmds, [op |-> op, arg |-> c, at |-> Len(accepted)])
    /\ calls' = [calls EXCEPT ![c] = "waiting"]
    /\ UNCHANGED <<writerVars, fileVars, lifeVars, recorded, faults, history>>

\* The flush of an append finds the channel closed: the append fails.
SendFails(c) ==
    /\ phase = "stopped" /\ calls[c] = "recorded"
    /\ calls' = [calls EXCEPT ![c] = "idle"]
    /\ UNCHANGED <<cmds, writerVars, fileVars, lifeVars, recorded, faults,
                   history>>

------------------------------------------------------------------------------
(* The writer task.                                                        *)

IsDeferred == ~isOpen /\ deferred

\* Mutant of Stop: the callers behind the shutdown keep waiting.
StopSilently(told) ==
    /\ phase' = "stopped"
    /\ cmds' = << >> /\ cmd' = NoCmd /\ wpc' = "recv" /\ attempt' = 1
    /\ isOpen' = FALSE /\ pending' = << >> /\ written' = 0
    /\ accepted' = told
    /\ UNCHANGED <<deferred, needMeta, calls, lives, recorded>>

\* The writer is gone with what it had not written: its channel is closed and
\* the senders of the answers are dropped.
Stop(told) ==
    /\ phase' = "stopped"
    /\ cmds' = << >> /\ cmd' = NoCmd /\ wpc' = "recv" /\ attempt' = 1
    /\ isOpen' = FALSE /\ pending' = << >> /\ written' = 0
    /\ calls' = [c \in Clients |-> IF calls[c] = "waiting" THEN "idle" ELSE calls[c]]
    /\ accepted' = told
    /\ UNCHANGED <<deferred, needMeta, lives, recorded>>

\* The answer to command m: an add has none, an error keeps the writer alive.
Answer(m, ok) ==
    LET c == m.arg IN
    /\ IF m.op = "add" THEN UNCHANGED <<calls, promised>>
       ELSE /\ calls' = [calls EXCEPT ![c] = "idle"]
            /\ promised' = IF ok
                           THEN promised \cup {accepted[k] : k \in 1..m.at}
                           ELSE promised
    /\ cmd' = NoCmd /\ wpc' = "recv" /\ attempt' = 1
    /\ UNCHANGED <<lifeVars, accepted, recorded>>

\* Shutdown answered Ok: the loop breaks.
AnswerAndStop(m) ==
    /\ promised' = promised \cup {accepted[k] : k \in 1..m.at}
    /\ Stop(Written)

\* rx.recv(): add_items and flush_if_materialized, or a barrier.  Nothing is
\* written while the file is deferred and there is nothing to write.
RecvAdd ==
    /\ phase = "live" /\ wpc = "recv" /\ cmds # << >> /\ Head(cmds).op = "add"
    /\ pending' = Append(pending, Head(cmds).arg)
    /\ cmds' = Tail(cmds)
    /\ IF IsDeferred THEN UNCHANGED <<cmd, wpc>>
       ELSE cmd' = Head(cmds) /\ wpc' = "open"
    /\ UNCHANGED <<attempt, isOpen, deferred, needMeta, written, fileVars, calls,
                   lifeVars, recorded, faults, history>>

RecvBarrier ==
    /\ phase = "live" /\ wpc = "recv" /\ cmds # << >> /\ Head(cmds).op \in Barriers
    /\ Head(cmds).op = "persist" \/ ~(IsDeferred /\ pending = << >>)
    /\ cmds' = Tail(cmds)
    /\ cmd' = Head(cmds) /\ wpc' = "open"
    /\ UNCHANGED <<attempt, isOpen, deferred, needMeta, pending, written, fileVars,
                   calls, lifeVars, recorded, faults, history>>

RecvNothingToDo ==
    /\ phase = "live" /\ wpc = "recv" /\ cmds # << >>
    /\ Head(cmds).op \in {"flush", "shutdown"} /\ IsDeferred /\ pending = << >>
    /\ IF Head(cmds).op = "shutdown" THEN AnswerAndStop(Head(cmds))
       ELSE /\ cmds' = Tail(cmds)
            /\ Answer(Head(cmds), TRUE)
            /\ UNCHANGED <<isOpen, deferred, needMeta, pending, written>>
    /\ UNCHANGED <<fileVars, faults>>

\* The items already written leave pending_items whatever happened to the rest.
Drained == SubSeq(pending, written + 1, Len(pending))

\* Mutant of Recover: the items written before the failure stay in pending_items.
RecoverUndrained ==
    /\ isOpen' = FALSE /\ written' = 0
    /\ IF attempt = 1
       THEN /\ attempt' = 2 /\ wpc' = "open"
            /\ UNCHANGED <<cmd, calls, promised, lifeVars, accepted, recorded>>
       ELSE Answer(cmd, FALSE)
    /\ UNCHANGED <<cmds, pending>>

\* Mutant of Recover: the next attempt goes on counting.
RecoverCounting ==
    /\ isOpen' = FALSE /\ pending' = Drained
    /\ IF attempt = 1
       THEN /\ attempt' = 2 /\ wpc' = "open"
            /\ UNCHANGED <<cmd, calls, promised, lifeVars, accepted, recorded>>
       ELSE Answer(cmd, FALSE)
    /\ UNCHANGED <<cmds, written>>

\* Mutant of Recover: the second failure is only logged.
RecoverSwallowed ==
    /\ isOpen' = FALSE /\ pending' = Drained /\ written' = 0
    /\ IF attempt = 1
       THEN /\ attempt' = 2 /\ wpc' = "open"
            /\ UNCHANGED <<cmd, calls, promised, lifeVars, accepted, recorded>>
       ELSE Answer(cmd, TRUE)
    /\ UNCHANGED cmds

\* enter_recovery_mode: the handle is dropped; the second failure is reported.
Recover ==
    /\ isOpen' = FALSE /\ pending' = Drained /\ written' = 0
    /\ IF attempt = 1
       THEN /\ attempt' = 2 /\ wpc' = "open"
            /\ UNCHANGED <<cmd, calls, promised, lifeVars, accepted, recorded>>
       ELSE Answer(cmd, FALSE)
    /\ UNCHANGED cmds

\* A write that fails leaves the file as it was or ending inside the line.
FailedWrite ==
    /\ faults < MaxFaults /\ faults' = faults + 1
    /\ torn' \in {torn, TRUE}
    /\ UNCHANGED <<lines, metas>>

\* A write that succeeds completes a line; what follows an unfinished line is
\* part of that line.
WriteLine(x) ==
    /\ lines' = Append(lines, [item |-> x, ok |-> ~torn])
    /\ torn' = FALSE
    /\ UNCHANGED <<metas, faults>>

WriteMeta ==
    /\ metas' = Append(metas, [at |-> Len(lines), ok |-> ~torn])
    /\ torn' = FALSE
    /\ UNCHANGED <<lines, faults>>

EnsureWriterOpen ==
    /\ wpc = "open"
    /\ \/ /\ isOpen' = TRUE
          /\ deferred' = (deferred /\ isOpen)
          /\ wpc' = "meta"
          /\ UNCHANGED <<cmds, cmd, attempt, pending, written, faults, calls,
                         lifeVars, recorded, history>>
       \/ /\ ~isOpen /\ faults < MaxFaults /\ faults' = faults + 1
          /\ Recover
          /\ UNCHANGED deferred
    /\ UNCHANGED <<needMeta, fileVars>>

\* Mutant of WriteSessionMeta: the metadata is taken out before it is written.
TakeSessionMeta ==
    /\ wpc = "meta"
    /\ needMeta' = FALSE
    /\ \/ /\ IF needMeta THEN WriteMeta ELSE UNCHANGED <<fileVars, faults>>
          /\ wpc' = "items"
          /\ UNCHANGED <<cmds, cmd, attempt, isOpen, pending, written, calls,
                         lifeVars, recorded, history>>
       \/ needMeta /\ FailedWrite /\ Recover
    /\ UNCHANGED deferred

WriteSessionMeta ==
    /\ wpc = "meta"
    /\ \/ /\ IF needMeta THEN WriteMeta ELSE UNCHANGED <<fileVars, faults>>
          /\ needMeta' = FALSE
          /\ wpc' = "items"
          /\ UNCHANGED <<cmds, cmd, attempt, isOpen, pending, written, calls,
                         lifeVars, recorded, history>>
       \/ /\ needMeta /\ FailedWrite /\ Recover
          /\ UNCHANGED needMeta
    /\ UNCHANGED deferred

WriteItem ==
    /\ wpc = "items" /\ written < Len(pending)
    /\ \/ /\ WriteLine(pending[written + 1])
          /\ written' = written + 1
          /\ UNCHANGED <<cmds, cmd, wpc, attempt, isOpen, pending, calls, lifeVars,
                         recorded, history>>
       \/ FailedWrite /\ Recover
    /\ UNCHANGED <<deferred, needMeta>>

\* Everything is written; write_line has flushed each line already.
FinishWrite ==
    /\ wpc = "items" /\ written = Len(pending)
    /\ IF cmd.op = "shutdown" THEN AnswerAndStop(cmd)
       ELSE /\ pending' = << >> /\ written' = 0
            /\ Answer(cmd, TRUE)
            /\ UNCHANGED <<cmds, isOpen, deferred, needMeta>>
    /\ UNCHANGED <<fileVars, faults>>

------------------------------------------------------------------------------
(* The rest of the process, and its end.                                   *)

\* append_rollout_item_to_path, for a change of the thread's metadata: a second
\* writer, whether or not the thread is live.
AppendMetadata ==
    /\ Loadable
    /\ Len(metas) < MaxMetas
    /\ WriteMeta \/ FailedWrite
    /\ UNCHANGED <<cmds, writerVars, calls, lifeVars, recorded, history>>

\* discard_thread drops the recorder: the loop ends with what is pending.
Discard ==
    /\ phase = "live" /\ wpc = "recv" /\ cmds = << >>
    /\ \A c \in Clients : calls[c] = "idle"
    /\ Stop(Written)
    /\ UNCHANGED <<fileVars, faults, promised>>

\* The process dies, perhaps in the middle of a write.
Crash ==
    /\ phase # "down" /\ lives < MaxLives
    /\ phase' = "down"
    /\ cmds' = << >> /\ cmd' = NoCmd /\ wpc' = "recv" /\ attempt' = 1
    /\ isOpen' = FALSE /\ pending' = << >> /\ written' = 0
    /\ torn' \in IF wpc \in {"meta", "items"} THEN {torn, TRUE} ELSE {torn}
    /\ calls' = [c \in Clients |-> "idle"]
    /\ accepted' = Written
    /\ UNCHANGED <<deferred, needMeta, lines, metas, lives, recorded, faults, promised>>

\* resume_thread: the history is loaded and the file opened for appending.
Resume ==
    /\ phase # "live" /\ lives < MaxLives /\ Loadable
    /\ \A c \in Clients : calls[c] = "idle"
    /\ phase' = "live" /\ lives' = lives + 1
    /\ isOpen' = TRUE /\ deferred' = FALSE /\ needMeta' = FALSE
    /\ UNCHANGED <<cmds, cmd, wpc, attempt, pending, written, fileVars, calls,
                   recorded, faults, history>>

RecNext ==
    \/ \E c \in Clients :
          \/ RecordItems(c)
          \/ \E op \in Barriers : SendBarrier(c, op)
          \/ SendFails(c)
    \/ RecvAdd \/ RecvBarrier \/ RecvNothingToDo
    \/ EnsureWriterOpen \/ WriteSessionMeta \/ WriteItem \/ FinishWrite
    \/ AppendMetadata \/ Discard \/ Crash \/ Resume

RecSpec == RecInit /\ [][RecNext]_rvars

\* The writer task is polled while it has something to do.
WriterStep ==
    \/ RecvAdd \/ RecvBarrier \/ RecvNothingToDo
    \/ EnsureWriterOpen \/ WriteSessionMeta \/ WriteItem \/ FinishWrite

RecFairSpec == RecSpec /\ WF_rvars(WriterStep)

------------------------------------------------------------------------------
(* Properties.                                                             *)

Lines == [item : 1..MaxItems, ok : BOOLEAN]
Metas == [at : Nat, ok : BOOLEAN]
Adds == [op : {"add"}, arg : 1..MaxItems, at : Nat]
Calls == [op : Barriers, arg : Clients, at : Nat]
Commands == Adds \cup Calls

\* The writer's state has its shape; write_pending_items_once never counts more
\* items as written than are pending, whatever attempt it is.
RecTypeOK ==
    /\ cmds \in Seq(Commands)
    /\ cmd \in Commands \cup {NoCmd}
    /\ wpc \in {"recv", "open", "meta", "items"}
    /\ attempt \in {1, 2}
    /\ isOpen \in BOOLEAN /\ deferred \in BOOLEAN /\ needMeta \in BOOLEAN
    /\ pending \in Seq(1..MaxItems)
    /\ written \in 0..Len(pending)
    /\ lines \in Seq(Lines) /\ metas \in Seq(Metas) /\ torn \in BOOLEAN
    /\ calls \in [Clients -> {"idle", "recorded", "waiting"}]
    /\ phase \in {"live", "stopped", "down"}
    /\ lives \in 1..MaxLives /\ recorded \in 0..MaxItems /\ faults \in 0..MaxFaults
    /\ accepted \in Seq(1..MaxItems) /\ promised \subseteq 1..MaxItems

\* How many items have reached the writer.
Count == Len(lines) + (Len(pending) - written)

\* What has reached the writer is what was accepted first, in order: the lines of
\* the file, then the suffix of pending_items that is not written.
Placed ==
    /\ Count <= Len(accepted)
    /\ \A k \in 1..Len(lines) : lines[k].item = accepted[k]
    /\ \A k \in written + 1..Len(pending) :
           pending[k] = accepted[Len(lines) + (k - written)]

\* The channel holds the rest in order, and each barrier behind what it waits for.
Queued ==
    /\ \A k \in 1..Len(cmds) :
           /\ cmds[k].at \in Count..Len(accepted)
           /\ cmds[k].op = "add" =>
                  cmds[k].at > Count /\ cmds[k].arg = accepted[cmds[k].at]
    /\ \A j, k \in 1..Len(cmds) : j < k =>
           /\ cmds[j].at <= cmds[k].at
           /\ cmds[k].op = "add" => cmds[j].at < cmds[k].at
    /\ \A n \in Count + 1..Len(accepted) :
           \E k \in 1..Len(cmds) : cmds[k].op = "add" /\ cmds[k].at = n

\* The writer has received all that the command it works on waits for; when it is
\* gone nothing is left with it.
InHand ==
    /\ wpc # "recv" => cmd \in Commands /\ cmd.at <= Count
    /\ phase # "live" => wpc = "recv" /\ cmds = << >> /\ pending = << >>

\* The metadata is kept until it is written, and nothing is written before it.
MetaKept ==
    /\ needMeta => lines = << >> /\ metas = << >>
    /\ ~needMeta => metas # << >> /\ metas[1].at = 0
    /\ wpc = "items" => ~needMeta

\* The inductive invariant of the recorder: over any number of failed attempts, the
\* file, pending_items and the channel hold the accepted items in order, and the
\* count of written items stays within what is pending.
RecInv == RecTypeOK /\ Placed /\ Queued /\ InHand /\ MetaKept

Received == Written \o Drained
QueuedAdds == {k \in 1..Len(cmds) : cmds[k].op = "add"}

\* However often writing, opening and retrying fail, every accepted item is in
\* exactly one place, in order: in the file, in the unwritten suffix of
\* pending_items, or in the channel (write_pending_items_once drains exactly what
\* it wrote; "keep the unwritten suffix so the next barrier can ... retry").
NothingDropped ==
    /\ Len(Received) <= Len(accepted)
    /\ Received = SubSeq(accepted, 1, Len(Received))
    /\ {cmds[k].at : k \in QueuedAdds} = Len(Received) + 1..Len(accepted)
    /\ \A k \in QueuedAdds : cmds[k].arg = accepted[cmds[k].at]
    /\ \A j, k \in QueuedAdds : j < k => cmds[j].at < cmds[k].at

\* The first line of a rollout is its session metadata, also when the first
\* attempts to write it fail: the metadata is kept until it is written.
MetaFirst == lines # << >> => metas # << >> /\ metas[1].at = 0

\* What a call reported as committed can be loaded again.
AckedIsReadable == promised \subseteq Loaded

Log == INSTANCE DurableLog WITH Items <- 1..MaxItems, log <- Written

\* The writer, its retries, a crash and a resume at any point implement the log a
\* session relies on: items committed once and in order, a success reported only
\* for committed items, also when another call shuts the writer down meanwhile.
ImplementsDurableLog == Log!LSpec

\* A call waiting for its barrier is answered: with the result of the write, or
\* with an error when the writer stops before it gets to the barrier.
CallsAnswered == \A c \in Clients : calls[c] = "waiting" ~> calls[c] # "waiting"
=============================================================================
