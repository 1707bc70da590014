-------------------------- MODULE ExecEvents_proofs --------------------------
(***************************************************************************)
(* Proof that the events of an exec-server process reach the consumer as   *)
(* EventStream promises, for any number of streams and any amount of       *)
(* output, whatever order the notifications arrive in.                     *)
(***************************************************************************)
EXTENDS ExecEvents, TLAPS

Kinds == {"Output", "Exited", "Closed"}

\* Appending to a sequence, for use where the provers see only the sequence.
LEMMA AppendFacts ==
    ASSUME NEW S, NEW q \in Seq(S), NEW x \in S
    PROVE  /\ Append(q, x) \in Seq(S) /\ Len(Append(q, x)) = Len(q) + 1
           /\ \A i \in 1..Len(q) : Append(q, x)[i] = q[i]
           /\ Append(q, x)[Len(q) + 1] = x
  OBVIOUS

\* Taking the head off a sequence.
LEMMA TailFacts ==
    ASSUME NEW S, NEW q \in Seq(S), q # << >>
    PROVE  /\ Tail(q) \in Seq(S) /\ Len(Tail(q)) = Len(q) - 1 /\ Head(q) = q[1] /\ Len(q) >= 1
           /\ \A i \in 1..(Len(q) - 1) : Tail(q)[i] = q[i + 1]
  OBVIOUS

\* publish_ordered_event hands on a run of events that starts where the last
\* one ended, each with the number of its place.
LEMMA AcceptFacts ==
    ASSUME EInv, NEW e \in Notes, Numbered(e), Accept(e)
    PROVE  /\ ready' \in Seq(Notes) /\ last' \in Nat /\ pending' \subseteq Notes
           /\ last' = last + Len(ready')
           /\ \A i \in 1..Len(ready') : ready'[i].seq = last + i /\ Numbered(ready'[i])
           /\ \A p \in pending' : Numbered(p)
<1> DEFINE P == pending \cup {e}
<1>1. P \subseteq Notes /\ \A p \in P : Numbered(p)
  BY DEF EInv, ETypeOK, NotesNumbered
<1>2. PICK n \in 0..(nextSeq - 1) :
        /\ n >= last /\ \A m \in (last + 1)..n : m \in Seqs(P)
        /\ ready' = [i \in 1..(n - last) |-> CHOOSE p \in P : p.seq = last + i]
        /\ pending' = {p \in P : p.seq > n}
        /\ last' = n
  BY DEF Accept, Ready
<1>3. last \in Nat /\ n \in Nat /\ n - last \in Nat
  BY <1>2 DEF EInv, ETypeOK
<1>4. ASSUME NEW i \in 1..(n - last)
      PROVE  ready'[i] \in P /\ ready'[i].seq = last + i
  <2>1. last + i \in (last + 1)..n
    BY <1>3
  <2>2. last + i \in Seqs(P)
    BY <1>2, <2>1
  <2>3. \E p \in P : p.seq = last + i
    BY <2>2 DEF Seqs
  <2>4. ready'[i] = CHOOSE p \in P : p.seq = last + i
    BY <1>2
  <2> QED
    BY <2>3, <2>4
<1>5. ready' \in Seq(Notes) /\ Len(ready') = n - last
  <2>1. ready' = [i \in 1..(n - last) |-> ready'[i]]
    BY <1>2
  <2>2. \A i \in 1..(n - last) : ready'[i] \in Notes
    BY <1>1, <1>4
  <2> HIDE DEF P
  <2> QED
    BY <1>3, <2>1, <2>2
<1>6. last' \in Nat /\ last' = last + Len(ready')
  BY <1>2, <1>3, <1>5
<1>7. pending' \subseteq P
  BY <1>2
<1> HIDE DEF P
<1>8. \A i \in 1..Len(ready') : ready'[i].seq = last + i /\ Numbered(ready'[i])
  BY <1>1, <1>4, <1>5
<1> QED
  BY <1>1, <1>5, <1>6, <1>7, <1>8

-----------------------------------------------------------------------------
(* The three parts of the invariant besides the types *)

\* A new event gets the next number; what was numbered before keeps its event.
LEMMA EmitKeeps ==
    ASSUME EInv, NEW t \in Tasks, NEW e \in Kinds, Emit(t, e), TaskAt(t, "notify"),
           UNCHANGED <<wire, inbox, last, pending, ready, reader, published>>
    PROVE  NotesNumbered' /\ Contiguous'
<1>1. /\ nextSeq = Len(log) + 1 /\ nextSeq' = nextSeq + 1
      /\ log' = Append(log, e) /\ log \in Seq(Kinds)
      /\ out'[t] = [seq |-> nextSeq, event |-> e] /\ task'[t] = "notify"
      /\ \A u \in Tasks : u # t => out'[u] = out[u] /\ task'[u] = task[u]
  BY DEF EInv, ETypeOK, NotesNumbered, Emit, TaskAt, Kinds
<1>2. /\ Len(log') = Len(log) + 1 /\ Len(log) \in Nat
      /\ \A i \in 1..Len(log) : i \in 1..Len(log') /\ log'[i] = log[i]
      /\ log'[Len(log) + 1] = e
  BY <1>1, AppendFacts
<1>3. \A n : Numbered(n) => Numbered(n)'
  BY <1>2 DEF Numbered
<1>4. Numbered(out[t])'
  BY <1>1, <1>2 DEF Numbered
<1>5. NotesNumbered'
  <2>1. \A u \in Tasks : task'[u] = "notify" => Numbered(out[u])'
    BY <1>1, <1>3, <1>4 DEF EInv, NotesNumbered, Numbered
  <2>2. nextSeq' = Len(log') + 1
    BY <1>1, <1>2
  <2> QED
    BY <1>3, <2>1, <2>2 DEF EInv, NotesNumbered, Numbered
<1>6. Contiguous'
  BY <1>2 DEF EInv, Contiguous
<1> QED
  BY <1>5, <1>6

\* The client side of the invariant is about these variables.
LEMMA ClientUntouched ==
    ASSUME EInv,
           UNCHANGED <<nextSeq, log, wire, inbox, last, pending, ready, published>>,
           \A t \in Tasks : task'[t] = "notify" => task[t] = "notify" /\ out'[t] = out[t],
           reader' # reader => ready = << >>
    PROVE  NotesNumbered' /\ Contiguous'
<1>1. \A n : Numbered(n) => Numbered(n)'
  BY DEF Numbered
<1>2. NotesNumbered'
  BY <1>1 DEF EInv, NotesNumbered
<1>3. Contiguous'
  BY DEF EInv, Contiguous
<1> QED
  BY <1>2, <1>3

\* Nothing but the tasks of the process touches what LogShape is about.
LEMMA ServerUntouched ==
    ASSUME LogShape, UNCHANGED <<nextSeq, log, open, exited, closed, task, out>>,
           entry' = "none" => entry = "none"
    PROVE  LogShape'
  BY DEF LogShape

-----------------------------------------------------------------------------
(* The tasks of the process *)

\* stream_output numbers a chunk: its stream is still open, so the process is
\* not closed.
LEMMA ChunkKeeps ==
    ASSUME EInv, NEW s \in Streams, Chunk(s)
    PROVE  EInv'
<1>1. s \in Tasks /\ s # ExitTask
  BY EventsAssumption DEF Tasks
<1>2. ETypeOK'
  BY <1>1 DEF EInv, ETypeOK, Chunk, Emit, TaskAt, netVars, readVars, Notes
<1>3. NotesNumbered' /\ Contiguous'
  BY <1>1, EmitKeeps DEF Chunk, Kinds, netVars
<1>4. LogShape'
  <2>1. /\ s \in open /\ ~closed /\ log \in Seq(Kinds) /\ log' = Append(log, "Output")
        /\ UNCHANGED <<entry, open, exited, closed>>
        /\ entry = "running"
        /\ \A u \in Tasks : u # s => out'[u] = out[u] /\ task'[u] = task[u]
        /\ task'[s] = "notify"
    BY <1>1 DEF EInv, ETypeOK, LogShape, Chunk, Emit, TaskAt, Kinds
  <2>2. /\ Len(log') = Len(log) + 1 /\ Len(log) \in Nat
        /\ \A i \in 1..Len(log) : i \in 1..Len(log') /\ log'[i] = log[i]
        /\ log'[Len(log) + 1] = "Output"
    BY <2>1, AppendFacts DEF Kinds
  <2>3. \A i \in 1..Len(log') : i \in 1..Len(log) \/ log'[i] = "Output"
    BY <2>2
  <2>4. \A i \in 1..Len(log') : (log'[i] = "Closed" => closed) /\ (log'[i] = "Exited" => exited)
    BY <2>2, <2>3 DEF EInv, LogShape
  <2>5. exited => \E i \in 1..Len(log') : log'[i] = "Exited"
    BY <2>2 DEF EInv, LogShape
  <2> QED
    BY <1>1, <2>1, <2>4, <2>5 DEF EInv, LogShape, Tasks
<1> QED
  BY <1>2, <1>3, <1>4 DEF EInv

\* finish_output_stream: a stream that has ended produces no more output.
LEMMA StreamEndsKeeps ==
    ASSUME EInv, NEW s \in Streams, StreamEnds(s)
    PROVE  EInv'
<1>1. s \in Tasks /\ s # ExitTask
  BY EventsAssumption DEF Tasks
<1>2. ETypeOK'
  <2>1. open' \subseteq Streams
    BY DEF EInv, ETypeOK, StreamEnds
  <2>2. task' \in [Tasks -> {"none", "recv", "wait", "notify", "close", "done"}]
    BY <1>1 DEF EInv, ETypeOK, StreamEnds, TaskAt
  <2> QED
    BY <2>1, <2>2 DEF EInv, ETypeOK, StreamEnds, netVars, readVars
<1>3. /\ task'[s] \in {"close", "done"} /\ UNCHANGED <<nextSeq, log, out, entry, exited, closed>>
      /\ \A u \in Tasks : u # s => task'[u] = task[u]
      /\ open' \in {open, open \ {s}} /\ entry # "none"
  BY <1>1 DEF EInv, ETypeOK, StreamEnds, TaskAt
<1>4. NotesNumbered' /\ Contiguous'
  BY <1>1, <1>3, ClientUntouched DEF StreamEnds, netVars
<1>5. LogShape'
  BY <1>1, <1>3 DEF EInv, LogShape, Tasks
<1> QED
  BY <1>2, <1>4, <1>5 DEF EInv

\* watch_exit numbers Exited once; a process that left the map has no event.
LEMMA ExitsKeeps ==
    ASSUME EInv, Exits(ExitTask)
    PROVE  EInv'
<1>1. ExitTask \in Tasks /\ ExitTask \notin Streams
  BY EventsAssumption DEF Tasks
<1>2. CASE entry = "running"
  <2>1. /\ exited' = TRUE /\ Emit(ExitTask, "Exited") /\ TaskAt(ExitTask, "notify")
        /\ UNCHANGED <<entry, open, closed, retention, netVars, user, route, latch,
                       last, pending, ready, reader, readVars, published>>
    BY <1>2 DEF Exits
  <2>2. ETypeOK'
    BY <1>1, <2>1 DEF EInv, ETypeOK, Emit, TaskAt, netVars, readVars, Notes
  <2>3. NotesNumbered' /\ Contiguous'
    BY <1>1, <2>1, EmitKeeps DEF Kinds, netVars
  <2>4. /\ ~exited /\ log \in Seq(Kinds) /\ log' = Append(log, "Exited")
        /\ out'[ExitTask].event = "Exited"
        /\ \A u \in Tasks : u # ExitTask => out'[u] = out[u] /\ task'[u] = task[u]
        /\ task'[ExitTask] = "notify"
    BY <1>1, <2>1 DEF EInv, ETypeOK, LogShape, Exits, Emit, TaskAt, Kinds
  <2>5. /\ Len(log') = Len(log) + 1 /\ Len(log) \in Nat
        /\ \A i \in 1..Len(log) : i \in 1..Len(log') /\ log'[i] = log[i]
        /\ log'[Len(log) + 1] = "Exited"
    BY <2>4, AppendFacts DEF Kinds
  <2>6. \A i \in 1..Len(log') : i \in 1..Len(log) \/ log'[i] = "Exited"
    BY <2>5
  <2>7. \A i \in 1..Len(log') : log'[i] = "Closed" => closed
    BY <2>5, <2>6 DEF EInv, LogShape
  <2>8. \E i \in 1..Len(log') : log'[i] = "Exited"
    BY <2>5
  <2>9. LogShape'
    BY <1>1, <1>2, <2>1, <2>4, <2>7, <2>8 DEF EInv, LogShape, Tasks
  <2> QED
    BY <2>2, <2>3, <2>9 DEF EInv
<1>3. CASE entry = "gone"
  <2>1. /\ TaskAt(ExitTask, "close") /\ UNCHANGED <<nextSeq, log, exited, out>>
        /\ UNCHANGED <<entry, open, closed, retention, netVars, user, route, latch,
                       last, pending, ready, reader, readVars, published>>
    BY <1>3 DEF Exits
  <2>2. ETypeOK'
    BY <1>1, <2>1 DEF EInv, ETypeOK, TaskAt, netVars, readVars
  <2>3. /\ task'[ExitTask] = "close" /\ \A u \in Tasks : u # ExitTask => task'[u] = task[u]
    BY <1>1, <2>1 DEF EInv, ETypeOK, TaskAt
  <2>4. NotesNumbered' /\ Contiguous'
    BY <2>1, <2>3, ClientUntouched DEF netVars
  <2>5. LogShape'
    BY <1>1, <1>3, <2>1, <2>3 DEF EInv, LogShape, Tasks
  <2> QED
    BY <2>2, <2>4, <2>5 DEF EInv
<1> QED
  BY <1>2, <1>3 DEF Exits

\* maybe_emit_closed numbers Closed after Exited and after every stream ended.
LEMMA CloseKeeps ==
    ASSUME EInv, NEW t \in Tasks, Close(t)
    PROVE  EInv'
<1>1. entry # "none"
  BY DEF EInv, LogShape, Close
<1>2. CASE CanClose
  <2>1. /\ closed' = TRUE /\ retention' = "sleeping" /\ Emit(t, "Closed") /\ TaskAt(t, "notify")
        /\ entry = "running" /\ open = {} /\ exited
        /\ UNCHANGED <<entry, open, exited, netVars, user, route, latch, last,
                       pending, ready, reader, readVars, published>>
    BY <1>2 DEF Close, CanClose
  <2>2. ETypeOK'
    BY <2>1 DEF EInv, ETypeOK, Emit, TaskAt, netVars, readVars, Notes
  <2>3. NotesNumbered' /\ Contiguous'
    BY <2>1, EmitKeeps DEF Kinds, netVars
  <2>4. /\ log \in Seq(Kinds) /\ log' = Append(log, "Closed") /\ out'[t].event = "Closed"
        /\ \A u \in Tasks : u # t => out'[u] = out[u] /\ task'[u] = task[u]
        /\ task'[t] = "notify"
    BY <2>1 DEF EInv, ETypeOK, Emit, TaskAt, Kinds
  <2>5. /\ Len(log') = Len(log) + 1 /\ Len(log) \in Nat
        /\ \A i \in 1..Len(log) : i \in 1..Len(log') /\ log'[i] = log[i]
        /\ log'[Len(log) + 1] = "Closed"
    BY <2>4, AppendFacts DEF Kinds
  <2>6. \E i \in 1..Len(log') : log'[i] = "Exited"
    BY <2>1, <2>5 DEF EInv, LogShape
  <2>7. LogShape'
    BY <2>1, <2>4, <2>6 DEF EInv, LogShape, Tasks
  <2> QED
    BY <2>2, <2>3, <2>7 DEF EInv
<1>3. CASE ~CanClose
  <2>1. /\ TaskAt(t, "done") /\ UNCHANGED <<closed, retention, nextSeq, log, out>>
        /\ UNCHANGED <<entry, open, exited, netVars, user, route, latch, last,
                       pending, ready, reader, readVars, published>>
    BY <1>3 DEF Close
  <2>2. ETypeOK'
    BY <2>1 DEF EInv, ETypeOK, TaskAt, netVars, readVars
  <2>3. /\ task'[t] = "done" /\ \A u \in Tasks : u # t => task'[u] = task[u]
    BY <2>1 DEF EInv, ETypeOK, TaskAt
  <2>4. NotesNumbered' /\ Contiguous'
    BY <2>1, <2>3, ClientUntouched DEF netVars
  <2>5. LogShape'
    BY <1>1, <2>1, <2>3 DEF EInv, LogShape, Tasks
  <2> QED
    BY <2>2, <2>4, <2>5 DEF EInv
<1> QED
  BY <1>2, <1>3

\* A notification is sent as it was numbered, or lost with the connection.
LEMMA NotifyKeeps ==
    ASSUME EInv, NEW t \in Tasks, Notify(t)
    PROVE  EInv'
<1>1. /\ task[t] = "notify" /\ Numbered(out[t]) /\ entry # "none"
      /\ out[t] \in Notes
  <2>1. task[t] = "notify" /\ Numbered(out[t]) /\ entry # "none"
    BY DEF EInv, NotesNumbered, LogShape, Notify
  <2>2. out[t] # NoNote
    BY <2>1 DEF Numbered, NoNote, EInv, ETypeOK
  <2> QED
    BY <2>1, <2>2 DEF EInv, ETypeOK
<1>2. AfterNotify(t) \in {"recv", "close", "done"}
  BY DEF AfterNotify
<1>3. /\ task'[t] = AfterNotify(t)
      /\ \A u \in Tasks : u # t => task'[u] = task[u] /\ out'[u] = out[u]
  BY DEF Notify, TaskAt, EInv, ETypeOK
<1>4. wire' \in Seq(Notes) /\ \A i \in 1..Len(wire') : Numbered(wire'[i])
  <2>1. CASE down
    BY <2>1 DEF Notify, EInv, ETypeOK, NotesNumbered
  <2>2. CASE ~down
    <3>1. wire' = Append(wire, out[t]) /\ wire \in Seq(Notes)
      BY <2>2 DEF Notify, EInv, ETypeOK
    <3>2. /\ wire' \in Seq(Notes) /\ Len(wire') = Len(wire) + 1 /\ Len(wire) \in Nat
          /\ \A i \in 1..Len(wire) : wire'[i] = wire[i]
          /\ wire'[Len(wire) + 1] = out[t]
      BY <1>1, <3>1, AppendFacts
    <3>3. \A i \in 1..Len(wire) : Numbered(wire[i])
      BY DEF EInv, NotesNumbered
    <3> QED
      BY <1>1, <3>2, <3>3
  <2> QED
    BY <2>1, <2>2
<1>5. ETypeOK'
  <2>1. /\ task' \in [Tasks -> {"none", "recv", "wait", "notify", "close", "done"}]
        /\ out' \in [Tasks -> Notes \cup {NoNote}]
    BY <1>2 DEF Notify, TaskAt, EInv, ETypeOK
  <2> QED
    BY <1>4, <2>1 DEF EInv, ETypeOK, Notify, readVars
<1>6. NotesNumbered' /\ Contiguous'
  <2>1. \A n : Numbered(n) => Numbered(n)'
    BY DEF Numbered, Notify
  <2>2. \A u \in Tasks : task'[u] = "notify" => Numbered(out[u])'
    BY <1>2, <1>3, <2>1 DEF EInv, NotesNumbered
  <2>3. \A i \in 1..Len(wire') : Numbered(wire[i])'
    BY <1>4, <2>1
  <2>4. NotesNumbered'
    BY <2>1, <2>2, <2>3 DEF EInv, NotesNumbered, Notify
  <2> QED
    BY <2>4 DEF EInv, Contiguous, Notify
<1>7. LogShape'
  <2>1. task'[t] = "recv" => t \in Streams /\ t \in open
    BY <1>1, <1>3 DEF EInv, LogShape, AfterNotify, Tasks
  <2> QED
    BY <1>1, <1>2, <1>3, <2>1 DEF EInv, LogShape, Tasks, Notify
<1> QED
  BY <1>5, <1>6, <1>7 DEF EInv

\* The process leaves the map.
LEMMA GoneKeeps ==
    ASSUME EInv, Evict \/ Shutdown
    PROVE  EInv'
<1>1. ETypeOK'
  BY DEF EInv, ETypeOK, Evict, Shutdown, netVars, readVars
<1>2. entry' = "none" => entry = "none"
  BY DEF Evict, Shutdown
<1>3. LogShape'
  BY <1>2, ServerUntouched DEF EInv, Evict, Shutdown
<1>4. NotesNumbered' /\ Contiguous'
  BY ClientUntouched DEF Evict, Shutdown, netVars
<1> QED
  BY <1>1, <1>3, <1>4 DEF EInv

-----------------------------------------------------------------------------
(* The connection *)

\* The connection hands on notifications unchanged, or loses a suffix of them.
LEMMA ConnectionKeeps ==
    ASSUME EInv, TransportDown \/ Forward \/ ForwardEof
    PROVE  EInv'
<1>1. LogShape'
  BY ServerUntouched DEF EInv, TransportDown, Forward, ForwardEof, serverVars
<1>2. /\ wire' \in Seq(Notes) /\ inbox' \in Seq(Notes)
      /\ \A i \in 1..Len(wire') : Numbered(wire'[i])
      /\ \A i \in 1..Len(inbox') : Numbered(inbox'[i])
  <2>0. /\ wire \in Seq(Notes) /\ inbox \in Seq(Notes)
        /\ \A i \in 1..Len(wire) : Numbered(wire[i])
        /\ \A i \in 1..Len(inbox) : Numbered(inbox[i])
    BY DEF EInv, ETypeOK, NotesNumbered
  <2>1. CASE TransportDown
    <3>1. PICK n \in 0..Len(wire) : wire' = SubSeq(wire, 1, n)
      BY <2>1 DEF TransportDown
    <3>2. /\ wire' \in Seq(Notes) /\ Len(wire') = n
          /\ \A i \in 1..n : wire'[i] = wire[i] /\ i \in 1..Len(wire)
      BY <2>0, <3>1
    <3> QED
      BY <2>0, <2>1, <3>2 DEF TransportDown
  <2>2. CASE Forward
    <3>1. /\ wire' = Tail(wire) /\ inbox' = Append(inbox, Head(wire)) /\ wire # << >>
      BY <2>2 DEF Forward
    <3>2. /\ wire' \in Seq(Notes) /\ Len(wire') = Len(wire) - 1 /\ Len(wire) >= 1
          /\ \A i \in 1..(Len(wire) - 1) : wire'[i] = wire[i + 1]
          /\ Head(wire) = wire[1] /\ Len(wire) \in Nat /\ Head(wire) \in Notes
      BY <2>0, <3>1, TailFacts
    <3>3. /\ inbox' \in Seq(Notes) /\ Len(inbox') = Len(inbox) + 1 /\ Len(inbox) \in Nat
          /\ \A i \in 1..Len(inbox) : inbox'[i] = inbox[i]
          /\ inbox'[Len(inbox) + 1] = wire[1]
      BY <2>0, <3>1, <3>2, AppendFacts
    <3>4. \A i \in 1..Len(wire') : i + 1 \in 1..Len(wire)
      BY <3>2
    <3>5. Numbered(wire[1])
      BY <2>0, <3>2
    <3>6. \A i \in 1..Len(wire') : Numbered(wire'[i])
      BY <2>0, <3>2, <3>4
    <3>7. \A i \in 1..Len(inbox') : i \in 1..Len(inbox) \/ i = Len(inbox) + 1
      BY <3>3
    <3>8. \A i \in 1..Len(inbox') : Numbered(inbox'[i])
      BY <2>0, <3>3, <3>5, <3>7
    <3> QED
      BY <3>2, <3>3, <3>6, <3>8
  <2>3. CASE ForwardEof
    BY <2>0, <2>3 DEF ForwardEof
  <2> QED
    BY <2>1, <2>2, <2>3
<1>3. ETypeOK'
  <2>1. down' \in BOOLEAN /\ eof' \in BOOLEAN
    BY DEF EInv, ETypeOK, TransportDown, Forward, ForwardEof
  <2>2. UNCHANGED <<serverVars, user, route, latch, last, pending, ready, reader, readVars, published>>
    BY DEF TransportDown, Forward, ForwardEof
  <2> QED
    BY <1>2, <2>1, <2>2 DEF EInv, ETypeOK, serverVars, readVars
<1>4. NotesNumbered' /\ Contiguous'
  <2>1. /\ UNCHANGED <<log, nextSeq, task, out, last, pending, ready, reader, published>>
    BY DEF TransportDown, Forward, ForwardEof, serverVars
  <2>2. \A n : Numbered(n) => Numbered(n)'
    BY <2>1 DEF Numbered
  <2>3. (\A i \in 1..Len(wire') : Numbered(wire[i])') /\ (\A i \in 1..Len(inbox') : Numbered(inbox[i])')
    BY <1>2, <2>2
  <2>4. NotesNumbered'
    BY <2>1, <2>2, <2>3 DEF EInv, NotesNumbered
  <2> QED
    BY <2>1, <2>4 DEF EInv, Contiguous
<1> QED
  BY <1>1, <1>3, <1>4 DEF EInv

-----------------------------------------------------------------------------
(* The client *)

\* Steps of the client that publish nothing and take nothing from the reader.
ClientStep == \/ Register \/ ExecReturn \/ DropProcess \/ PublishDone
              \/ HandleDisconnect \/ TakeSessions \/ FailSession \/ PublishFailed
              \/ ReadCall \/ ReadStep

\* The other steps of the client leave events and numbers alone, and nothing
\* but PublishDone leaves the publishing loop.
LEMMA ClientStepKeeps ==
    ASSUME EInv, ClientStep
    PROVE  EInv'
<1> USE DEF ClientStep, Register, ExecReturn, DropProcess, PublishDone, HandleDisconnect,
            TakeSessions, FailSession, PublishFailed, ReadCall, ReadStep, ReadReturn,
            ReadFail, ReadPublishFailed
<1>1. UNCHANGED <<serverVars, netVars, last, pending, ready, published>>
  OBVIOUS
<1>2. /\ user' \in {"idle", "exec", "open", "dropped"}
      /\ route' \in BOOLEAN /\ latch' \in BOOLEAN
  BY DEF EInv, ETypeOK, readVars
<1>3. /\ reader' \in {"recv", "publish", "publish_closed", "take", "fail", "publish_failed", "ended"}
      /\ read' \in {"idle", "waiting", "closed", "publish_failed"}
  BY DEF EInv, ETypeOK, readVars, AfterFailure
<1>4. failure' \in BOOLEAN
  BY DEF EInv, ETypeOK, readVars
<1>5. failed' \in Seq(Nat)
  <2>1. failed \in Seq(Nat) /\ Len(published) \in Nat
    BY DEF EInv, ETypeOK
  <2>2. failed' = failed \/ failed' = Append(failed, Len(published))
    BY DEF readVars
  <2> QED
    BY <2>1, <2>2, AppendFacts
<1>6. reader' # reader => ready = << >>
  BY DEF EInv, Contiguous, readVars
<1>7. ETypeOK'
  BY <1>1, <1>2, <1>3, <1>4, <1>5 DEF EInv, ETypeOK, serverVars, netVars
<1>8. NotesNumbered' /\ Contiguous'
  BY <1>1, <1>6, ClientUntouched DEF serverVars, netVars
<1>9. LogShape'
  BY <1>1, ServerUntouched DEF EInv, serverVars
<1> QED
  BY <1>7, <1>8, <1>9 DEF EInv

\* start_process spawns its three tasks.
LEMMA ExecStartKeeps ==
    ASSUME EInv, ExecStart
    PROVE  EInv'
<1>1. ETypeOK'
  BY DEF EInv, ETypeOK, ExecStart, netVars, readVars
<1>2. \A t \in Tasks : task'[t] \in {"wait", "recv"} /\ (task'[t] = "wait" => t = ExitTask)
                        /\ (task'[t] = "recv" => t # ExitTask)
  BY DEF ExecStart
<1>3. NotesNumbered' /\ Contiguous'
  BY <1>2, ClientUntouched DEF ExecStart, netVars
<1>4. LogShape'
  BY <1>2, EventsAssumption DEF EInv, LogShape, ExecStart, Tasks
<1> QED
  BY <1>1, <1>3, <1>4 DEF EInv

\* A notification is ignored, kept for later or completes a run to publish.
LEMMA HandleNotificationKeeps ==
    ASSUME EInv, HandleNotification
    PROVE  EInv'
<1>1. /\ inbox # << >> /\ inbox' = Tail(inbox) /\ reader = "recv" /\ ready = << >>
      /\ UNCHANGED <<serverVars, wire, down, eof, user, route, latch, readVars, published>>
  BY DEF HandleNotification, EInv, Contiguous
<1>2. /\ inbox' \in Seq(Notes) /\ Len(inbox') = Len(inbox) - 1 /\ Len(inbox) >= 1
      /\ \A i \in 1..(Len(inbox) - 1) : inbox'[i] = inbox[i + 1]
      /\ Head(inbox) = inbox[1] /\ Len(inbox) \in Nat /\ Head(inbox) \in Notes
  BY <1>1, TailFacts DEF EInv, ETypeOK
<1>3. /\ Numbered(Head(inbox)) /\ \A i \in 1..Len(inbox') : Numbered(inbox'[i])
  <2>1. \A i \in 1..Len(inbox) : Numbered(inbox[i])
    BY DEF EInv, NotesNumbered
  <2>2. \A i \in 1..Len(inbox') : i + 1 \in 1..Len(inbox)
    BY <1>2
  <2> QED
    BY <1>2, <2>1, <2>2
<1>4. /\ ready' \in Seq(Notes) /\ last' \in Nat /\ pending' \subseteq Notes
      /\ last' = last + Len(ready')
      /\ \A i \in 1..Len(ready') : ready'[i].seq = last + i /\ Numbered(ready'[i])
      /\ \A p \in pending' : Numbered(p)
      /\ reader' = "publish" \/ (reader' = "recv" /\ ready' = << >>)
  <2>1. CASE Accept(Head(inbox)) /\ reader' = "publish"
    BY <1>2, <1>3, <2>1, AcceptFacts
  <2>2. CASE UNCHANGED <<ready, pending, last, reader>>
    BY <1>1, <2>2 DEF EInv, ETypeOK, NotesNumbered
  <2> QED
    BY <2>1, <2>2 DEF HandleNotification
<1>5. LogShape'
  BY <1>1, ServerUntouched DEF EInv, serverVars
<1>6. ETypeOK'
  BY <1>1, <1>2, <1>4 DEF EInv, ETypeOK, serverVars, readVars
<1>7. \A n : Numbered(n) => Numbered(n)'
  BY <1>1 DEF Numbered, serverVars
<1>8. NotesNumbered'
  <2>1. \A i \in 1..Len(inbox') : Numbered(inbox[i])'
    BY <1>3, <1>7
  <2>2. \A i \in 1..Len(ready') : Numbered(ready[i])'
    BY <1>4, <1>7
  <2>3. \A p \in pending' : Numbered(p)'
    BY <1>4, <1>7
  <2> QED
    BY <1>1, <1>7, <2>1, <2>2, <2>3 DEF EInv, NotesNumbered, serverVars
<1>9. Contiguous'
  <2>1. last = Len(published) /\ published' = published /\ Len(published) \in Nat
    BY <1>1 DEF EInv, Contiguous, ETypeOK
  <2> QED
    BY <1>1, <1>4, <2>1 DEF EInv, Contiguous, serverVars
<1> QED
  BY <1>5, <1>6, <1>8, <1>9 DEF EInv

\* What the reader publishes next is the next event of the log.
LEMMA PublishReadyKeeps ==
    ASSUME EInv, PublishReady
    PROVE  /\ EInv' /\ Len(published) < Len(log)
           /\ published' = Append(published, log[Len(published) + 1])
<1>1. /\ ready # << >> /\ ready' = Tail(ready) /\ published' = Append(published, Head(ready).event)
      /\ reader' \in {"publish", "publish_closed"}
      /\ UNCHANGED <<serverVars, netVars, user, route, latch, last, pending, readVars>>
  BY DEF PublishReady
<1>2. /\ ready' \in Seq(Notes) /\ Len(ready') = Len(ready) - 1 /\ Len(ready) >= 1
      /\ \A i \in 1..(Len(ready) - 1) : ready'[i] = ready[i + 1]
      /\ Head(ready) = ready[1] /\ Len(ready) \in Nat
  BY <1>1, TailFacts DEF EInv, ETypeOK
<1>3. /\ published \in Seq(Kinds) /\ Len(published) \in Nat
      /\ log \in Seq(Kinds) /\ Len(log) \in Nat
  BY DEF EInv, ETypeOK, Kinds
<1>4. ready[1].seq = Len(published) + 1 /\ Numbered(ready[1])
  BY <1>2 DEF EInv, NotesNumbered, Contiguous
<1>5. /\ Len(published) + 1 \in 1..Len(log)
      /\ Head(ready).event = log[Len(published) + 1] /\ Head(ready).event \in Kinds
  BY <1>2, <1>3, <1>4 DEF Numbered
<1>6. /\ published' \in Seq(Kinds) /\ Len(published') = Len(published) + 1
      /\ \A i \in 1..Len(published) : published'[i] = published[i]
      /\ published'[Len(published) + 1] = log[Len(published) + 1]
  BY <1>1, <1>3, <1>5, AppendFacts
<1>7. LogShape'
  BY <1>1, ServerUntouched DEF EInv, serverVars
<1>8. ETypeOK'
  BY <1>1, <1>2, <1>6 DEF EInv, ETypeOK, serverVars, netVars, readVars, Kinds
<1>9. \A n : Numbered(n) => Numbered(n)'
  BY <1>1 DEF Numbered, serverVars
<1>10. \A i \in 1..Len(ready') : i + 1 \in 1..Len(ready)
  BY <1>2
<1>11. NotesNumbered'
  <2>1. \A i \in 1..Len(ready') : Numbered(ready[i])'
    BY <1>2, <1>9, <1>10 DEF EInv, NotesNumbered
  <2> QED
    BY <1>1, <1>9, <2>1 DEF EInv, NotesNumbered, serverVars, netVars
<1>12. Contiguous'
  <2>1. last' = Len(published') + Len(ready')
    BY <1>1, <1>2, <1>3, <1>6 DEF EInv, Contiguous
  <2>2. \A i \in 1..Len(published') : i \in 1..Len(published) \/ i = Len(published) + 1
    BY <1>3, <1>6
  <2>3. \A i \in 1..Len(published') : i \in 1..Len(log) /\ published'[i] = log[i]
    BY <1>5, <1>6, <2>2 DEF EInv, Contiguous
  <2>4. \A i \in 1..Len(ready') : ready'[i].seq = Len(published') + i
    <3>1. TAKE i \in 1..Len(ready')
    <3>2. ready[i + 1].seq = Len(published) + (i + 1)
      BY <1>10 DEF EInv, Contiguous
    <3> QED
      BY <1>2, <1>3, <1>6, <3>2
  <2> QED
    BY <1>1, <2>1, <2>3, <2>4 DEF Contiguous, serverVars
<1> QED
  BY <1>1, <1>3, <1>5, <1>7, <1>8, <1>11, <1>12 DEF EInv

-----------------------------------------------------------------------------
(* The invariant of the specification *)

\* Nothing is numbered, sent or published at first.
LEMMA InitEInv == EInit => EInv
<1> SUFFICES ASSUME EInit PROVE EInv
  OBVIOUS
<1>1. ETypeOK
  <2>1. /\ task \in [Tasks -> {"none", "recv", "wait", "notify", "close", "done"}]
        /\ out \in [Tasks -> Notes \cup {NoNote}]
    BY DEF EInit
  <2>2. wire \in Seq(Notes) /\ inbox \in Seq(Notes) /\ ready \in Seq(Notes)
    BY DEF EInit
  <2>3. log \in Seq(Kinds) /\ published \in Seq(Kinds) /\ failed \in Seq(Nat)
    BY DEF EInit
  <2>4. nextSeq \in Nat \ {0} /\ last \in Nat /\ open \subseteq Streams /\ pending \subseteq Notes
    BY DEF EInit
  <2>5. /\ exited \in BOOLEAN /\ closed \in BOOLEAN /\ down \in BOOLEAN /\ eof \in BOOLEAN
        /\ route \in BOOLEAN /\ latch \in BOOLEAN /\ failure \in BOOLEAN
    BY DEF EInit
  <2>6. /\ entry \in {"none", "running", "gone"} /\ retention \in {"none", "sleeping", "over"}
        /\ user \in {"idle", "exec", "open", "dropped"}
        /\ reader \in {"recv", "publish", "publish_closed", "take", "fail", "publish_failed", "ended"}
        /\ read \in {"idle", "waiting", "closed", "publish_failed"}
    BY DEF EInit
  <2> QED
    BY <2>1, <2>2, <2>3, <2>4, <2>5, <2>6 DEF ETypeOK, Kinds
<1>2. NotesNumbered /\ Contiguous
  BY DEF EInit, NotesNumbered, Contiguous
<1>3. LogShape
  BY DEF EInit, LogShape, Tasks
<1> QED
  BY <1>1, <1>2, <1>3 DEF EInv

\* ENext, grouped the way the lemmas above are.
LEMMA Steps ==
    ASSUME ENext
    PROVE  \/ \E s \in Streams : Chunk(s) \/ StreamEnds(s)
           \/ \E t \in Tasks : Close(t) \/ Notify(t)
           \/ Exits(ExitTask) \/ (Evict \/ Shutdown)
           \/ (TransportDown \/ Forward \/ ForwardEof)
           \/ ExecStart \/ ClientStep \/ HandleNotification \/ PublishReady
  BY DEF ENext, StreamStep, ExitStep, ReaderStep, ClientStep, Tasks

\* Every step keeps the invariant, one lemma above per group of actions.
LEMMA StepEInv == EInv /\ [ENext]_evars => EInv'
<1> SUFFICES ASSUME EInv, [ENext]_evars PROVE EInv'
  OBVIOUS
<1>1. CASE ENext
  <2>1. CASE \E s \in Streams : Chunk(s) \/ StreamEnds(s)
    BY <2>1, ChunkKeeps, StreamEndsKeeps
  <2>2. CASE \E t \in Tasks : Close(t) \/ Notify(t)
    BY <2>2, CloseKeeps, NotifyKeeps
  <2>3. CASE Exits(ExitTask) \/ (Evict \/ Shutdown)
    BY <2>3, ExitsKeeps, GoneKeeps
  <2>4. CASE TransportDown \/ Forward \/ ForwardEof
    BY <2>4, ConnectionKeeps
  <2>5. CASE ExecStart \/ ClientStep \/ HandleNotification \/ PublishReady
    BY <2>5, ExecStartKeeps, ClientStepKeeps, HandleNotificationKeeps, PublishReadyKeeps
  <2> QED
    BY <1>1, <2>1, <2>2, <2>3, <2>4, <2>5, Steps
<1>2. CASE UNCHANGED evars
  <2>1. ETypeOK'
    BY <1>2 DEF EInv, ETypeOK, evars
  <2>2. NotesNumbered' /\ Contiguous'
    BY <1>2, ClientUntouched DEF evars
  <2>3. LogShape'
    BY <1>2, ServerUntouched DEF EInv, evars
  <2> QED
    BY <2>1, <2>2, <2>3 DEF EInv
<1> QED
  BY <1>1, <1>2

\* Every notification on its way carries the event its number was given for,
\* what the client has published is a prefix of what the server numbered, and
\* the flags of the process agree with its log: for any number of streams and
\* any amount of output.
THEOREM EventInvariant == ESpec => []EInv
<1>1. EInit => EInv
  BY InitEInv
<1>2. EInv /\ [ENext]_evars => EInv'
  BY StepEInv
<1> QED
  BY <1>1, <1>2, PTL DEF ESpec

-----------------------------------------------------------------------------
(* Refinement of EventStream *)

\* A step of the process that numbers an event is one EventStream allows.
LEMMA EmitProduces ==
    ASSUME EInv, NEW t \in Tasks, NEW e \in Kinds, Emit(t, e), ~closed,
           e = "Exited" => ~exited, e = "Closed" => exited, published' = published
    PROVE  ES!VNext
<1>1. ~ES!Occurs("Closed")
  BY DEF EInv, LogShape, ES!Occurs
<1>2. e = "Exited" => ~ES!Occurs("Exited")
  BY DEF EInv, LogShape, ES!Occurs
<1>3. e = "Closed" => ES!Occurs("Exited")
  BY DEF EInv, LogShape, ES!Occurs
<1>4. ES!Produce(e)
  BY <1>1, <1>2, <1>3 DEF ES!Produce, Emit
<1> QED
  BY <1>4 DEF ES!VNext, Kinds

\* Every step produces an event, delivers the next one or leaves both logs alone.
LEMMA StepRefines == EInv /\ [ENext]_evars => [ES!VNext]_<<log, published>>
<1> SUFFICES ASSUME EInv, [ENext]_evars PROVE ES!VNext \/ UNCHANGED <<log, published>>
  OBVIOUS
<1>1. CASE ENext
  <2>1. ASSUME NEW s \in Streams, Chunk(s) PROVE ES!VNext
    <3>1. s \in Tasks /\ ~closed
      BY <2>1 DEF Tasks, EInv, LogShape, Chunk
    <3> QED
      BY <2>1, <3>1, EmitProduces DEF Chunk, Kinds
  <2>2. ASSUME NEW s \in Streams, StreamEnds(s) PROVE UNCHANGED <<log, published>>
    BY <2>2 DEF StreamEnds
  <2>3. CASE Exits(ExitTask)
    <3>1. ~exited /\ ~closed /\ ExitTask \in Tasks
      BY <2>3 DEF EInv, LogShape, Exits, Tasks
    <3>2. Emit(ExitTask, "Exited") \/ UNCHANGED log
      BY <2>3 DEF Exits
    <3> QED
      BY <2>3, <3>1, <3>2, EmitProduces DEF Exits, Kinds
  <2>4. ASSUME NEW t \in Tasks, Close(t) PROVE ES!VNext \/ UNCHANGED <<log, published>>
    <3>1. CASE CanClose
      BY <2>4, <3>1, EmitProduces DEF Close, CanClose, Kinds
    <3>2. CASE ~CanClose
      BY <2>4, <3>2 DEF Close
    <3> QED
      BY <3>1, <3>2
  <2>5. ASSUME NEW t \in Tasks, Notify(t) PROVE UNCHANGED <<log, published>>
    BY <2>5 DEF Notify
  <2>6. CASE (Evict \/ Shutdown) \/ (TransportDown \/ Forward \/ ForwardEof) \/ ExecStart
    BY <2>6 DEF Evict, Shutdown, TransportDown, Forward, ForwardEof, ExecStart, serverVars
  <2>7. CASE ClientStep
    BY <2>7 DEF ClientStep, Register, ExecReturn, DropProcess, PublishDone, HandleDisconnect,
                TakeSessions, FailSession, PublishFailed, ReadCall, ReadStep, ReadReturn,
                ReadFail, ReadPublishFailed, serverVars
  <2>8. CASE HandleNotification
    BY <2>8 DEF HandleNotification, serverVars
  <2>9. CASE PublishReady
    <3>1. UNCHANGED log
      BY <2>9 DEF PublishReady, serverVars
    <3>2. ES!Deliver
      BY <2>9, <3>1, PublishReadyKeeps DEF ES!Deliver
    <3> QED
      BY <3>2 DEF ES!VNext
  <2> QED
    BY <1>1, <2>1, <2>2, <2>3, <2>4, <2>5, <2>6, <2>7, <2>8, <2>9, Steps
<1>2. CASE UNCHANGED evars
  BY <1>2 DEF evars
<1> QED
  BY <1>1, <1>2

\* The consumer is given the events of the process, each once and in the order
\* the server numbered them, and nothing is numbered after Closed: sending the
\* notifications outside the lock is repaired by publish_ordered_event.
THEOREM EventRefinement == ESpec => ImplementsEventStream
<1>1. EInit => ES!VInit
  BY DEF EInit, ES!VInit
<1>2. EInv /\ [ENext]_evars => [ES!VNext]_<<log, published>>
  BY StepRefines
<1> QED
  BY <1>1, <1>2, EventInvariant, PTL DEF ESpec, ImplementsEventStream, ES!VSpec

-----------------------------------------------------------------------------
(* The end of a session *)

\* Once the reader takes the sessions the latch is set, which keeps new ones
\* out; Failed has one publisher, whoever set the failure first.
OutageInv ==
    /\ reader \in {"take", "fail", "publish_failed", "ended"} => latch
    /\ reader \in {"fail", "publish_failed", "ended"} => ~route
    /\ ~failure => reader # "publish_failed" /\ read # "publish_failed" /\ failed = << >>
    /\ reader = "publish_failed" => read # "publish_failed"
    /\ reader = "publish_failed" \/ read = "publish_failed" => failed = << >>
    /\ FailedOnce

\* Nothing but the reader, a read and register_session matters to OutageInv.
LEMMA StepOutage == EInv /\ OutageInv /\ [ENext]_evars => OutageInv'
<1> SUFFICES ASSUME EInv, OutageInv, [ENext]_evars PROVE OutageInv'
  OBVIOUS
<1>0. failed \in Seq(Nat) /\ Len(published) \in Nat
  BY DEF EInv, ETypeOK
<1>1. CASE ENext
  <2>1. ASSUME UNCHANGED <<route, latch, reader, readVars>> PROVE OutageInv'
    BY <2>1 DEF OutageInv, FailedOnce, readVars
  <2>2. CASE \E s \in Streams : Chunk(s) \/ StreamEnds(s)
    BY <2>1, <2>2 DEF Chunk, StreamEnds
  <2>3. CASE \E t \in Tasks : Close(t) \/ Notify(t)
    BY <2>1, <2>3 DEF Close, Notify
  <2>4. CASE Exits(ExitTask) \/ (Evict \/ Shutdown) \/ ExecStart
    BY <2>1, <2>4 DEF Exits, Evict, Shutdown, ExecStart
  <2>5. CASE TransportDown \/ Forward \/ ForwardEof
    BY <2>1, <2>5 DEF TransportDown, Forward, ForwardEof
  <2>6. CASE HandleNotification \/ PublishReady \/ PublishDone
    BY <2>6 DEF HandleNotification, PublishReady, PublishDone, OutageInv, FailedOnce, readVars
  <2>7. CASE Register \/ ExecReturn \/ DropProcess
    <3>1. UNCHANGED <<reader, readVars>>
      BY <2>7 DEF Register, ExecReturn, DropProcess
    <3>2. latch => latch'
      BY <2>7 DEF Register, ExecReturn, DropProcess
    <3>3. latch /\ ~route => ~route'
      BY <2>7 DEF Register, ExecReturn, DropProcess
    <3> QED
      BY <3>1, <3>2, <3>3 DEF OutageInv, FailedOnce, readVars
  <2>8. CASE HandleDisconnect \/ TakeSessions
    BY <2>8 DEF HandleDisconnect, TakeSessions, OutageInv, FailedOnce, readVars
  <2>9. CASE FailSession \/ ReadFail
    BY <2>9 DEF FailSession, ReadFail, AfterFailure, OutageInv, FailedOnce
  <2>10. CASE PublishFailed \/ ReadPublishFailed
    <3>1. failed = << >> /\ failed' = Append(failed, Len(published))
      BY <2>10 DEF PublishFailed, ReadPublishFailed, OutageInv
    <3>2. Len(failed') = 1
      BY <1>0, <3>1
    <3> QED
      BY <2>10, <3>2 DEF PublishFailed, ReadPublishFailed, OutageInv, FailedOnce
  <2>11. CASE ReadCall \/ ReadReturn
    BY <2>11 DEF ReadCall, ReadReturn, OutageInv, FailedOnce
  <2> QED
    BY <1>1, <2>2, <2>3, <2>4, <2>5, <2>6, <2>7, <2>8, <2>9, <2>10, <2>11, Steps
       DEF ClientStep, ReadStep
<1>2. CASE UNCHANGED evars
  BY <1>2 DEF evars, OutageInv, FailedOnce
<1> QED
  BY <1>1, <1>2

\* No session is left in the map of a reader that is gone, and Failed is
\* published once although the reader and a read both look for the lost
\* connection.
THEOREM SessionEnds == ESpec => [](NoDeadSession /\ FailedOnce)
<1>1. EInit => OutageInv
  BY DEF EInit, OutageInv, FailedOnce
<1>2. EInv /\ OutageInv /\ [ENext]_evars => OutageInv'
  BY StepOutage
<1>3. OutageInv => NoDeadSession /\ FailedOnce
  BY DEF OutageInv, NoDeadSession
<1> QED
  BY <1>1, <1>2, <1>3, EventInvariant, PTL DEF ESpec

\* The disconnect is handed on behind everything that was received before it, and
\* the reader takes the sessions when it has handled that.
DrainInv ==
    /\ eof => down /\ wire = << >>
    /\ reader \in {"take", "fail", "publish_failed", "ended"} => eof /\ inbox = << >>

\* Once the connection is down nothing is put on the wire or into the inbox.
LEMMA StepDrain == EInv /\ DrainInv /\ [ENext]_evars => DrainInv'
<1> SUFFICES ASSUME EInv, DrainInv, [ENext]_evars PROVE DrainInv'
  OBVIOUS
<1>1. CASE ENext
  <2>1. ASSUME UNCHANGED netVars,
               reader' \in {"take", "fail", "publish_failed", "ended"} =>
                   reader \in {"take", "fail", "publish_failed", "ended"}
        PROVE  DrainInv'
    BY <2>1 DEF DrainInv, netVars
  <2>2. CASE \E s \in Streams : Chunk(s) \/ StreamEnds(s)
    BY <2>1, <2>2 DEF Chunk, StreamEnds
  <2>3. CASE \E t \in Tasks : Close(t)
    BY <2>1, <2>3 DEF Close
  <2>4. CASE \E t \in Tasks : Notify(t)
    <3>1. /\ eof' = eof /\ down' = down /\ inbox' = inbox /\ reader' = reader
          /\ (down => wire' = wire)
      BY <2>4 DEF Notify
    <3> QED
      BY <3>1 DEF DrainInv
  <2>5. CASE Exits(ExitTask) \/ (Evict \/ Shutdown) \/ ExecStart
    BY <2>1, <2>5 DEF Exits, Evict, Shutdown, ExecStart
  <2>6. CASE TransportDown
    BY <2>6 DEF TransportDown, DrainInv
  <2>7. CASE Forward
    BY <2>7 DEF Forward, DrainInv
  <2>8. CASE ForwardEof
    BY <2>8 DEF ForwardEof, DrainInv
  <2>9. CASE HandleNotification
    BY <2>9 DEF HandleNotification, DrainInv
  <2>10. CASE HandleDisconnect
    BY <2>10 DEF HandleDisconnect, DrainInv, netVars
  <2>11. CASE \/ PublishReady \/ PublishDone \/ TakeSessions \/ FailSession \/ PublishFailed
              \/ Register \/ ExecReturn \/ DropProcess
              \/ ReadCall \/ ReadReturn \/ ReadFail \/ ReadPublishFailed
    <3>1. UNCHANGED netVars
      BY <2>11 DEF PublishReady, PublishDone, TakeSessions, FailSession, PublishFailed,
         Register, ExecReturn, DropProcess, ReadCall, ReadReturn, ReadFail, ReadPublishFailed
    <3>2. reader' \in {"take", "fail", "publish_failed", "ended"} =>
              reader \in {"take", "fail", "publish_failed", "ended"}
      BY <2>11 DEF PublishReady, PublishDone, TakeSessions, FailSession, PublishFailed,
         Register, ExecReturn, DropProcess, ReadCall, ReadReturn, ReadFail, ReadPublishFailed
    <3> QED
      BY <2>1, <3>1, <3>2
  <2> QED
    BY <1>1, <2>2, <2>3, <2>4, <2>5, <2>6, <2>7, <2>8, <2>9, <2>10, <2>11, Steps
       DEF ClientStep, ReadStep
<1>2. CASE UNCHANGED evars
  BY <1>2 DEF evars, DrainInv
<1> QED
  BY <1>1, <1>2

\* A session is failed only after the notifications received before the connection
\* was lost were handled (client.rs, the reader's loop up to Disconnected).
THEOREM ReaderDrains == ESpec => []DrainedBeforeFailure
<1>1. EInit => DrainInv
  BY DEF EInit, DrainInv
<1>2. EInv /\ DrainInv /\ [ENext]_evars => DrainInv'
  BY StepDrain
<1>3. EInv /\ DrainInv => DrainedBeforeFailure
  BY DEF EInv, Contiguous, DrainInv, DrainedBeforeFailure
<1> QED
  BY <1>1, <1>2, <1>3, EventInvariant, PTL DEF ESpec

=============================================================================
