---------------------------- MODULE ExecSessions ----------------------------
(***************************************************************************)
(* The sessions of the exec-server: SessionRegistry and its entries, the   *)
(* ExecServerHandler of each connection, and the loop of run_connection    *)
(* that drops the request in flight when the transport goes away.  A       *)
(* session outlives its connection: it can be resumed by another one until *)
(* its time to live is over.                                               *)
(*                                                                         *)
(* The registry map is under one lock, the attachment of an entry under    *)
(* another, and the notification sender under a third; an action below is  *)
(* what happens under one of them.  A connection attaches at most once, so *)
(* its name serves as ConnectionId.  The process map of a session is       *)
(* represented by one process id.                                          *)
(***************************************************************************)
EXTENDS Naturals

CONSTANTS
    Conns,      \* connections
    Sessions,   \* session ids (Uuid::new_v4)
    Drops,      \* the awaits at which a request may be dropped with its connection
    NoConn,     \* None
    NoSession   \* None

ASSUME SessionsAssumption ==
    /\ NoConn \notin Conns /\ NoSession \notin Sessions
    /\ Drops \subseteq {"exec", "attach_shutdown"}

VARIABLES
    registry,    \* SessionRegistry::sessions
    used,        \* session ids given out so far
    current,     \* AttachmentState::current_connection_id
    detachedBy,  \* AttachmentState::detached_connection_id
    deadline,    \* detached_expires_at: "none", "pending" or "passed"
    sender,      \* Inner::notifications, by the connection that receives them
    proc,        \* the entry of the process map: "none", "starting", "running"
    handle,      \* ExecServerHandler::session
    ready,       \* ExecServerHandler::initialized
    expired,     \* the entry a resume found expired and has to shut down, or had
    pc,          \* where the task of each connection is
    timer        \* the expire_if_detached task each connection left behind

entryVars == <<current, detachedBy, deadline>>
connVars  == <<handle, ready, expired>>
svars == <<registry, used, current, detachedBy, deadline, sender, proc, handle,
           ready, expired, pc, timer>>

\* The program counters of run_connection while its loop is running.
Serving == {"loop", "exec", "attach_shutdown"}

SInit ==
    /\ registry = {} /\ used = {}
    /\ current = [s \in Sessions |-> NoConn]
    /\ detachedBy = [s \in Sessions |-> NoConn]
    /\ deadline = [s \in Sessions |-> "none"]
    /\ sender = [s \in Sessions |-> NoConn]
    /\ proc = [s \in Sessions |-> "none"]
    /\ handle = [c \in Conns |-> NoSession]
    /\ ready = [c \in Conns |-> FALSE]
    /\ expired = [c \in Conns |-> NoSession]
    /\ pc = [c \in Conns |-> "loop"]
    /\ timer = [c \in Conns |-> "none"]

At(c, p) == pc' = [pc EXCEPT ![c] = p]

-----------------------------------------------------------------------------
(* initialize: SessionRegistry::attach and the handle it returns *)

\* SessionEntry::attach, or the attachment of a new entry, with the sender of
\* the connection
AttachEntry(c, s) ==
    /\ sender' = [sender EXCEPT ![s] = c]
    /\ current' = [current EXCEPT ![s] = c]
    /\ detachedBy' = [detachedBy EXCEPT ![s] = NoConn]
    /\ deadline' = [deadline EXCEPT ![s] = "none"]
    /\ handle' = [handle EXCEPT ![c] = s]

\* initialize may only be sent once per connection, unless it failed
CanInitialize(c) == pc[c] = "loop" /\ handle[c] = NoSession

InitializeNew(c, s) ==
    /\ CanInitialize(c) /\ s \notin used
    /\ registry' = registry \cup {s} /\ used' = used \cup {s}
    /\ AttachEntry(c, s)
    /\ UNCHANGED <<proc, ready, expired, pc, timer>>

\* Mutant of Resume: a session that is attached can be taken over.
ResumeAttached(c, s) ==
    /\ CanInitialize(c) /\ s \in registry
    /\ AttachEntry(c, s)
    /\ UNCHANGED <<registry, used, proc, ready, expired, pc, timer>>

\* A session that is unknown, or attached to a connection, is refused.
Resume(c, s) ==
    /\ CanInitialize(c) /\ s \in registry
    /\ deadline[s] # "passed" /\ current[s] = NoConn
    /\ AttachEntry(c, s)
    /\ UNCHANGED <<registry, used, proc, ready, expired, pc, timer>>

\* AttachOutcome::Expired: the entry is removed here, before its task does it
ResumeExpired(c, s) ==
    /\ CanInitialize(c) /\ s \in registry
    /\ deadline[s] = "passed"
    /\ registry' = registry \ {s}
    /\ expired' = [expired EXCEPT ![c] = s]
    /\ At(c, "attach_shutdown")
    /\ UNCHANGED <<used, entryVars, sender, proc, handle, ready, timer>>

\* LocalProcess::shutdown: the map is drained and what runs is terminated
ShutdownProcesses(s) == proc' = [proc EXCEPT ![s] = "none"]

\* Mutant of AttachShutdown: the error is returned, the processes go on.
AttachShutdownForgets(c) ==
    /\ pc[c] = "attach_shutdown"
    /\ expired' = [expired EXCEPT ![c] = NoSession]
    /\ At(c, "loop")
    /\ UNCHANGED <<registry, used, entryVars, sender, proc, handle, ready, timer>>

AttachShutdown(c) ==
    /\ pc[c] = "attach_shutdown"
    /\ ShutdownProcesses(expired[c])
    /\ expired' = [expired EXCEPT ![c] = NoSession]
    /\ At(c, "loop")
    /\ UNCHANGED <<registry, used, entryVars, sender, handle, ready, timer>>

\* require_session_attached
SessionAttached(c) == handle[c] # NoSession /\ current[handle[c]] = c

\* The `initialized` notification; out of turn it closes the connection.
Initialized(c) ==
    /\ pc[c] = "loop"
    /\ IF SessionAttached(c)
       THEN ready' = [ready EXCEPT ![c] = TRUE] /\ UNCHANGED pc
       ELSE At(c, "closing") /\ UNCHANGED ready
    /\ UNCHANGED <<registry, used, entryVars, sender, proc, handle, expired, timer>>

-----------------------------------------------------------------------------
(* start_process: the id is taken before the child is spawned *)

Exec(c) ==
    /\ pc[c] = "loop" /\ ready[c] /\ SessionAttached(c)
    /\ proc[handle[c]] = "none"
    /\ proc' = [proc EXCEPT ![handle[c]] = "starting"]
    /\ At(c, "exec")
    /\ UNCHANGED <<registry, used, entryVars, sender, connVars, timer>>

\* The child runs, or could not be spawned and the id is free again.
ExecSpawned(c) ==
    /\ pc[c] = "exec"
    /\ \/ proc' = [proc EXCEPT ![handle[c]] = "running"]
       \/ proc' = [proc EXCEPT ![handle[c]] = IF @ = "starting" THEN "none" ELSE @]
    /\ At(c, "loop")
    /\ UNCHANGED <<registry, used, entryVars, sender, connVars, timer>>

\* A child that exits, or is terminated by a request, leaves the map once its
\* output is closed and the retention is over.
ProcessGone(s) ==
    /\ proc[s] = "running"
    /\ proc' = [proc EXCEPT ![s] = "none"]
    /\ UNCHANGED <<registry, used, entryVars, sender, connVars, pc, timer>>

-----------------------------------------------------------------------------
(* The end of a connection *)

\* The transport is gone, between two requests or while one is handled, which
\* is then dropped at the await where it is.
Disconnect(c) ==
    /\ pc[c] \in {"loop"} \cup Drops
    /\ At(c, "closing")
    /\ UNCHANGED <<registry, used, entryVars, sender, proc, connVars, timer>>

\* ExecServerHandler::shutdown and SessionEntry::detach
Detach(c) ==
    /\ pc[c] = "closing"
    /\ \/ /\ ~SessionAttached(c)
          /\ At(c, "gone")
          /\ UNCHANGED entryVars
       \/ /\ SessionAttached(c)
          /\ current' = [current EXCEPT ![handle[c]] = NoConn]
          /\ detachedBy' = [detachedBy EXCEPT ![handle[c]] = c]
          /\ deadline' = [deadline EXCEPT ![handle[c]] = "pending"]
          /\ At(c, "detach_sender")
    /\ UNCHANGED <<registry, used, sender, proc, connVars, timer>>

\* Mutant of DetachSender: the expiry of the session is not scheduled.
DetachNoTimer(c) ==
    /\ pc[c] = "detach_sender"
    /\ sender' = [sender EXCEPT ![handle[c]] = NoConn]
    /\ At(c, "gone")
    /\ UNCHANGED <<registry, used, entryVars, proc, connVars, timer>>

\* SessionHandle::detach after the entry let go of the connection
DetachSender(c) ==
    /\ pc[c] = "detach_sender"
    /\ sender' = [sender EXCEPT ![handle[c]] = NoConn]
    /\ timer' = [timer EXCEPT ![c] = "sleeping"]
    /\ At(c, "gone")
    /\ UNCHANGED <<registry, used, entryVars, proc, connVars>>

\* DETACHED_SESSION_TTL passes.
TtlPasses(s) ==
    /\ deadline[s] = "pending"
    /\ deadline' = [deadline EXCEPT ![s] = "passed"]
    /\ UNCHANGED <<registry, used, current, detachedBy, sender, proc, connVars, pc, timer>>

\* is_detached_connection_expired
DetachedConnectionExpired(s, c) ==
    current[s] = NoConn /\ detachedBy[s] = c /\ deadline[s] = "passed"

\* Mutant of ExpireCheck: the session is removed whoever detached it, and when.
ExpireCheckAny(c) ==
    LET s == handle[c]
    IN  /\ timer[c] = "sleeping"
        /\ detachedBy[s] = c => deadline[s] = "passed"
        /\ IF s \in registry /\ current[s] = NoConn
           THEN registry' = registry \ {s} /\ timer' = [timer EXCEPT ![c] = "shutdown"]
           ELSE UNCHANGED registry /\ timer' = [timer EXCEPT ![c] = "done"]
        /\ UNCHANGED <<used, entryVars, sender, proc, connVars, pc>>

\* expire_if_detached wakes up no earlier than the deadline its connection set;
\* the session may have been resumed, and detached by another one, since.
ExpireCheck(c) ==
    LET s == handle[c]
    IN  /\ timer[c] = "sleeping"
        /\ detachedBy[s] = c => deadline[s] = "passed"
        /\ IF s \in registry /\ DetachedConnectionExpired(s, c)
           THEN registry' = registry \ {s} /\ timer' = [timer EXCEPT ![c] = "shutdown"]
           ELSE UNCHANGED registry /\ timer' = [timer EXCEPT ![c] = "done"]
        /\ UNCHANGED <<used, entryVars, sender, proc, connVars, pc>>

ExpireShutdown(c) ==
    /\ timer[c] = "shutdown"
    /\ ShutdownProcesses(handle[c])
    /\ timer' = [timer EXCEPT ![c] = "done"]
    /\ UNCHANGED <<registry, used, entryVars, sender, connVars, pc>>

-----------------------------------------------------------------------------
SNext ==
    \/ \E c \in Conns, s \in Sessions :
          InitializeNew(c, s) \/ Resume(c, s) \/ ResumeExpired(c, s)
    \/ \E c \in Conns :
          \/ AttachShutdown(c) \/ Initialized(c) \/ Exec(c) \/ ExecSpawned(c)
          \/ Disconnect(c) \/ Detach(c) \/ DetachSender(c)
          \/ ExpireCheck(c) \/ ExpireShutdown(c)
    \/ \E s \in Sessions : ProcessGone(s) \/ TtlPasses(s)

SSpec == SInit /\ [][SNext]_svars

\* Time passes and tokio polls every task that can make progress.  Nothing
\* makes a client disconnect, a child exit or a spawn end.
SFairness ==
    /\ \A c \in Conns : /\ WF_svars(Detach(c)) /\ WF_svars(DetachSender(c))
                        /\ WF_svars(ExpireCheck(c)) /\ WF_svars(ExpireShutdown(c))
    /\ \A s \in Sessions : WF_svars(TtlPasses(s))

SFairSpec == SSpec /\ SFairness

-----------------------------------------------------------------------------
(* Properties *)

\* The types of the state; the registry holds only sessions it has created.
STypeOK ==
    /\ registry \subseteq used /\ used \subseteq Sessions
    /\ current \in [Sessions -> Conns \cup {NoConn}]
    /\ detachedBy \in [Sessions -> Conns \cup {NoConn}]
    /\ deadline \in [Sessions -> {"none", "pending", "passed"}]
    /\ sender \in [Sessions -> Conns \cup {NoConn}]
    /\ proc \in [Sessions -> {"none", "starting", "running"}]
    /\ handle \in [Conns -> Sessions \cup {NoSession}]
    /\ ready \in [Conns -> BOOLEAN]
    /\ expired \in [Conns -> Sessions \cup {NoSession}]
    /\ pc \in [Conns -> Serving \cup {"closing", "detach_sender", "gone"}]
    /\ timer \in [Conns -> {"none", "sleeping", "shutdown", "done"}]

\* A session in use never expires: whatever tasks earlier connections left
\* behind, the session of an attached connection is in the registry.
AttachedIsRegistered == \A s \in Sessions : current[s] # NoConn => s \in registry

\* A connection keeps its session until its own loop ends: the error "session
\* has been resumed by another connection" and the eviction check of
\* run_connection are never met by a connection that is being served.
NeverEvicted ==
    \A c \in Conns : pc[c] \in Serving \cup {"closing"} /\ handle[c] # NoSession =>
        current[handle[c]] = c

\* Output is never sent to a connection that is over: the sender of a session
\* is that of its connection, or of one that is just letting go of it.
SenderNeverStale ==
    \A s \in Sessions : sender[s] # NoConn =>
        \/ current[s] = sender[s]
        \/ pc[sender[s]] = "detach_sender" /\ handle[sender[s]] = s

\* A process whose session is gone is about to be shut down: the task, or the resume,
\* that took the session out of the registry is still there to do it.
ProcessesOwned ==
    \A s \in Sessions : proc[s] = "running" /\ s \notin registry =>
        \E c \in Conns : \/ timer[c] = "shutdown" /\ handle[c] = s
                         \/ expired[c] = s /\ pc[c] = "attach_shutdown"

\* A detached session can be resumed for the whole of its time to live: it is
\* removed only when the deadline set by its last detach has passed.
KeptUntilDeadline ==
    [][\A s \in registry \ registry' : deadline[s] = "passed" /\ current[s] = NoConn]_svars

\* A detached session does not stay for ever: it is resumed or removed.
DetachedEnds ==
    \A s \in Sessions : s \in registry /\ current[s] = NoConn
                            ~> s \notin registry \/ current[s] # NoConn

-----------------------------------------------------------------------------
(* The inductive invariant: a session and its connection point at each     *)
(* other for as long as the connection is served.                          *)

\* The attachment of an entry and the handle of a connection name each other,
\* and a connection leaves a timer behind only when it is gone.
Paired ==
    /\ \A s \in Sessions : current[s] # NoConn =>
          handle[current[s]] = s /\ pc[current[s]] \in Serving \cup {"closing"}
    /\ \A c \in Conns : handle[c] # NoSession => handle[c] \in used
    /\ \A c \in Conns : pc[c] \in {"exec", "detach_sender"} => handle[c] # NoSession
    /\ \A c \in Conns : timer[c] # "none" => handle[c] # NoSession /\ pc[c] = "gone"
    /\ \A c \in Conns : pc[c] = "attach_shutdown" => expired[c] # NoSession /\ handle[c] = NoSession
    /\ \A s \in Sessions : deadline[s] # "none" => current[s] = NoConn

\* The safety of the registry with what it rests on, inductive as a whole.
SInv == /\ STypeOK /\ AttachedIsRegistered /\ NeverEvicted /\ SenderNeverStale
        /\ Paired

=============================================================================
