------------------------- MODULE ExecSessions_proofs -------------------------
(***************************************************************************)
(* Proofs about the sessions of the exec-server, for any number of         *)
(* connections and sessions.                                               *)
(***************************************************************************)
EXTENDS ExecSessions, TLAPS

\* What attach does to an entry that nobody is attached to keeps the invariant,
\* whether the entry is new or resumed.
LEMMA AttachKeeps ==
    ASSUME SInv, NEW c \in Conns, NEW s \in Sessions,
           CanInitialize(c), current[s] = NoConn, AttachEntry(c, s),
           registry' = registry \cup {s}, used' = used \cup {s},
           UNCHANGED <<proc, ready, expired, pc, timer>>
    PROVE  SInv'
<1> USE SessionsAssumption
<1>0. /\ pc[c] = "loop" /\ handle[c] = NoSession /\ timer[c] = "none"
      /\ \A t \in Sessions : current[t] # c
      /\ \A d \in Conns : pc[d] \in Serving \cup {"closing"} => handle[d] # s
  BY DEF SInv, STypeOK, Paired, NeverEvicted, CanInitialize, Serving
<1>1. STypeOK'
  BY DEF SInv, STypeOK, AttachEntry
<1>2. /\ current'[s] = c /\ sender'[s] = c /\ handle'[c] = s /\ deadline'[s] = "none"
      /\ \A t \in Sessions : t # s => current'[t] = current[t] /\ sender'[t] = sender[t]
                                       /\ deadline'[t] = deadline[t]
      /\ \A d \in Conns : d # c => handle'[d] = handle[d]
  BY DEF SInv, STypeOK, AttachEntry
<1>3. AttachedIsRegistered'
  BY <1>2 DEF SInv, AttachedIsRegistered
<1>4. NeverEvicted'
  BY <1>0, <1>2 DEF SInv, STypeOK, NeverEvicted
<1>5. SenderNeverStale'
  <2>1. ASSUME NEW t \in Sessions, t # s, sender[t] # NoConn
        PROVE  \/ current[t] = sender[t]
               \/ pc[sender[t]] = "detach_sender" /\ handle'[sender[t]] = t
    BY <1>0, <1>2, <2>1 DEF SInv, STypeOK, SenderNeverStale
  <2> QED
    BY <1>2, <2>1 DEF SenderNeverStale
<1>6. Paired'
  <2>1. \A t \in Sessions : current'[t] # NoConn =>
          handle'[current'[t]] = t /\ pc[current'[t]] \in Serving \cup {"closing"}
    BY <1>0, <1>2 DEF SInv, STypeOK, Paired, Serving
  <2>2. \A d \in Conns : handle'[d] # NoSession => handle'[d] \in used'
    BY <1>2 DEF SInv, Paired
  <2>3. \A d \in Conns : pc[d] \in {"exec", "detach_sender"} => handle'[d] # NoSession
    BY <1>2 DEF SInv, Paired
  <2>4. \A d \in Conns : timer[d] # "none" => handle'[d] # NoSession /\ pc[d] = "gone"
    BY <1>0, <1>2 DEF SInv, Paired
  <2>5. \A d \in Conns : pc[d] = "attach_shutdown" => expired[d] # NoSession /\ handle'[d] = NoSession
    BY <1>0, <1>2 DEF SInv, Paired
  <2>6. \A t \in Sessions : deadline'[t] # "none" => current'[t] = NoConn
    BY <1>2 DEF SInv, Paired
  <2> QED
    BY <2>1, <2>2, <2>3, <2>4, <2>5, <2>6 DEF Paired
<1> QED
  BY <1>1, <1>3, <1>4, <1>5, <1>6 DEF SInv

\* A step that moves connections only where the invariant allows it, touches
\* no attachment and no handle, and takes from the registry only a session
\* that nobody is attached to.
Quiet ==
    /\ UNCHANGED <<used, current, detachedBy, handle>>
    /\ \A s \in Sessions : deadline'[s] # "none" => deadline[s] # "none"
    /\ \A s \in Sessions : current[s] # NoConn /\ s \in registry => s \in registry'
    /\ \A s \in Sessions : sender'[s] # sender[s] => sender'[s] = NoConn
    /\ \A c \in Conns :
          \/ pc'[c] = pc[c]
          \/ pc[c] \in Serving /\ pc'[c] \in Serving \cup {"closing"}
          \/ pc[c] = "closing" /\ ~SessionAttached(c) /\ pc'[c] = "gone"
          \/ pc[c] = "detach_sender" /\ pc'[c] = "gone" /\ sender'[handle[c]] = NoConn
    /\ \A c \in Conns : pc'[c] = "exec" => handle[c] # NoSession
    /\ \A c \in Conns : timer'[c] # "none" => handle[c] # NoSession /\ pc'[c] = "gone"
    /\ \A c \in Conns : pc'[c] = "attach_shutdown" => expired'[c] # NoSession /\ handle[c] = NoSession

\* Such a step keeps the invariant.
LEMMA QuietStep ==
    ASSUME SInv, STypeOK', Quiet
    PROVE  SInv'
<1> USE SessionsAssumption
<1>1. AttachedIsRegistered'
  BY DEF Quiet, SInv, AttachedIsRegistered
<1>2. NeverEvicted'
  BY DEF Quiet, SInv, NeverEvicted, Serving
<1>3. SenderNeverStale'
  <2> SUFFICES ASSUME NEW s \in Sessions, sender'[s] # NoConn
               PROVE  \/ current[s] = sender'[s]
                      \/ pc'[sender'[s]] = "detach_sender" /\ handle[sender'[s]] = s
    BY DEF Quiet, SenderNeverStale
  <2>1. sender'[s] = sender[s] /\ sender[s] \in Conns
    BY DEF Quiet, SInv, STypeOK
  <2>2. CASE current[s] = sender[s]
    BY <2>1, <2>2
  <2>3. CASE pc[sender[s]] = "detach_sender" /\ handle[sender[s]] = s
    BY <2>1, <2>3 DEF Quiet, Serving
  <2> QED
    BY <2>1, <2>2, <2>3 DEF Quiet, SInv, SenderNeverStale
<1>4. Paired'
  <2>1. \A s \in Sessions : current[s] # NoConn => pc'[current[s]] \in Serving \cup {"closing"}
    <3> SUFFICES ASSUME NEW s \in Sessions, current[s] # NoConn
                 PROVE  pc'[current[s]] \in Serving \cup {"closing"}
      OBVIOUS
    <3>1. current[s] \in Conns /\ handle[current[s]] = s /\ pc[current[s]] \in Serving \cup {"closing"}
      BY DEF Quiet, SInv, STypeOK, Paired
    <3>2. SessionAttached(current[s])
      BY <3>1 DEF Quiet, SessionAttached
    <3> QED
      BY <3>1, <3>2 DEF Quiet, Serving
  <2>2. \A c \in Conns : pc'[c] = "detach_sender" => handle[c] # NoSession
    BY DEF Quiet, SInv, Paired, Serving
  <2> QED
    BY <2>1, <2>2 DEF Quiet, SInv, Paired
<1> QED
  BY <1>1, <1>2, <1>3, <1>4 DEF Quiet, SInv

\* SessionEntry::detach: the session of a connection whose loop has ended is
\* let go, and is the only one that was attached to it.
LEMMA DetachKeeps ==
    ASSUME SInv, NEW c \in Conns, Detach(c)
    PROVE  SInv'
<1> USE SessionsAssumption
<1>1. CASE ~SessionAttached(c) /\ At(c, "gone") /\ UNCHANGED entryVars
  <2>1. STypeOK'
    BY <1>1 DEF Detach, At, entryVars, connVars, SInv, STypeOK
  <2>2. \A d \in Conns : IF d = c THEN pc'[d] = "gone" ELSE pc'[d] = pc[d]
    BY <1>1 DEF At, SInv, STypeOK
  <2>3. timer[c] = "none"
    BY DEF Detach, SInv, Paired
  <2>9. Quiet
    BY <1>1, <2>1, <2>2, <2>3 DEF Quiet, Detach, entryVars, connVars, SInv, Paired, Serving
  <2> QED
    BY <2>9, <2>1, QuietStep
<1>2. CASE /\ SessionAttached(c)
           /\ current' = [current EXCEPT ![handle[c]] = NoConn]
           /\ detachedBy' = [detachedBy EXCEPT ![handle[c]] = c]
           /\ deadline' = [deadline EXCEPT ![handle[c]] = "pending"]
           /\ At(c, "detach_sender")
  <2>1. PICK s \in Sessions : s = handle[c] /\ current[s] = c
    BY <1>2 DEF SessionAttached, SInv, STypeOK
  <2>2. /\ current'[s] = NoConn /\ \A t \in Sessions : t # s => current'[t] = current[t]
        /\ \A t \in Sessions : t # s => deadline'[t] = deadline[t]
        /\ pc'[c] = "detach_sender" /\ \A d \in Conns : d # c => pc'[d] = pc[d]
        /\ pc[c] = "closing" /\ UNCHANGED <<registry, used, sender, proc, handle, ready, expired, timer>>
    BY <1>2, <2>1 DEF At, Detach, connVars, SInv, STypeOK
  <2>3. \A t \in Sessions : t # s => current[t] # c
    BY <2>1 DEF SInv, Paired
  <2>4. \A d \in Conns : d # c /\ pc[d] \in Serving \cup {"closing"} => handle[d] # s
    BY <2>1 DEF SInv, NeverEvicted
  <2>5. STypeOK'
    BY <1>2, <2>2 DEF At, SInv, STypeOK
  <2>6. AttachedIsRegistered'
    BY <2>2 DEF SInv, AttachedIsRegistered
  <2>7. NeverEvicted'
    BY <2>2, <2>4 DEF SInv, STypeOK, NeverEvicted, Serving
  <2>8. SenderNeverStale'
    <3> SUFFICES ASSUME NEW t \in Sessions, sender[t] # NoConn
                 PROVE  \/ current'[t] = sender[t]
                        \/ pc'[sender[t]] = "detach_sender" /\ handle[sender[t]] = t
      BY <2>2 DEF SenderNeverStale
    <3>1. sender[t] \in Conns
      BY DEF SInv, STypeOK
    <3>2. CASE current[t] = sender[t]
      BY <2>1, <2>2, <3>1, <3>2
    <3>3. CASE pc[sender[t]] = "detach_sender" /\ handle[sender[t]] = t
      BY <2>2, <3>1, <3>3
    <3> QED
      BY <3>2, <3>3 DEF SInv, SenderNeverStale
  <2>9. Paired'
    <3>1. \A t \in Sessions : current'[t] # NoConn =>
            handle[current'[t]] = t /\ pc'[current'[t]] \in Serving \cup {"closing"}
      BY <2>2, <2>3 DEF SInv, STypeOK, Paired
    <3>2. \A d \in Conns : pc'[d] \in {"exec", "detach_sender"} => handle[d] # NoSession
      BY <2>1, <2>2 DEF SInv, Paired
    <3>3. \A d \in Conns : timer[d] # "none" => handle[d] # NoSession /\ pc'[d] = "gone"
      BY <2>2 DEF SInv, Paired
    <3>4. \A d \in Conns : pc'[d] = "attach_shutdown" => expired[d] # NoSession /\ handle[d] = NoSession
      BY <2>2 DEF SInv, Paired
    <3>5. \A t \in Sessions : deadline'[t] # "none" => current'[t] = NoConn
      BY <2>2 DEF SInv, Paired
    <3> QED
      BY <2>2, <3>1, <3>2, <3>3, <3>4, <3>5 DEF SInv, Paired
  <2> QED
    BY <2>5, <2>6, <2>7, <2>8, <2>9 DEF SInv
<1> QED
  BY <1>1, <1>2 DEF Detach

\* The step of any connection, process or clock keeps the invariant.
LEMMA StepKeeps ==
    ASSUME SInv, SNext
    PROVE  SInv'
<1> USE SessionsAssumption
<1>1. ASSUME NEW c \in Conns, NEW s \in Sessions, InitializeNew(c, s) PROVE SInv'
  <2>1. current[s] = NoConn
    BY <1>1 DEF InitializeNew, SInv, STypeOK, AttachedIsRegistered
  <2> QED
    BY <1>1, <2>1, AttachKeeps DEF InitializeNew
<1>2. ASSUME NEW c \in Conns, NEW s \in Sessions, Resume(c, s) PROVE SInv'
  <2>1. registry' = registry \cup {s} /\ used' = used \cup {s}
    BY <1>2 DEF Resume, SInv, STypeOK
  <2> QED
    BY <1>2, <2>1, AttachKeeps DEF Resume
<1>3. ASSUME NEW c \in Conns, NEW s \in Sessions, ResumeExpired(c, s) PROVE SInv'
  <2>1. STypeOK'
    BY <1>3 DEF ResumeExpired, At, entryVars, SInv, STypeOK, Serving
  <2>2. /\ pc[c] = "loop" /\ handle[c] = NoSession /\ pc'[c] = "attach_shutdown" /\ expired'[c] = s
        /\ \A d \in Conns : d # c => pc'[d] = pc[d] /\ expired'[d] = expired[d]
    BY <1>3 DEF ResumeExpired, CanInitialize, At, SInv, STypeOK
  <2>3. current[s] = NoConn
    BY <1>3 DEF ResumeExpired, SInv, Paired
  <2>4. \A t \in Sessions : current[t] # NoConn /\ t \in registry => t \in registry'
    BY <1>3, <2>3 DEF ResumeExpired
  <2>5. \A d \in Conns : pc'[d] = "attach_shutdown" => expired'[d] # NoSession /\ handle[d] = NoSession
    BY <2>2 DEF SInv, Paired
  <2>6. \A d \in Conns : timer[d] # "none" => handle[d] # NoSession /\ pc'[d] = "gone"
    BY <2>2 DEF SInv, Paired
  <2>7. \A d \in Conns : pc'[d] = "exec" => handle[d] # NoSession
    BY <2>2 DEF SInv, Paired
  <2>9. Quiet
    BY <1>3, <2>1, <2>2, <2>4, <2>5, <2>6, <2>7 DEF Quiet, ResumeExpired, entryVars, Serving, SInv, Paired
  <2> QED
    BY <2>9, <2>1, QuietStep
<1>4. ASSUME NEW c \in Conns, AttachShutdown(c) PROVE SInv'
  <2>1. STypeOK'
    BY <1>4 DEF AttachShutdown, ShutdownProcesses, At, entryVars, SInv, STypeOK, Serving
  <2>2. /\ pc[c] = "attach_shutdown" /\ pc'[c] = "loop"
        /\ \A d \in Conns : d # c => pc'[d] = pc[d] /\ expired'[d] = expired[d]
    BY <1>4 DEF AttachShutdown, At, SInv, STypeOK
  <2>9. Quiet
    BY <1>4, <2>1, <2>2 DEF Quiet, AttachShutdown, entryVars, Serving, SInv, Paired
  <2> QED
    BY <2>9, <2>1, QuietStep
<1>5. ASSUME NEW c \in Conns, Initialized(c) PROVE SInv'
  <2>1. STypeOK'
    BY <1>5 DEF Initialized, At, entryVars, SInv, STypeOK, Serving
  <2>2. pc[c] = "loop" /\ pc'[c] \in {"loop", "closing"} /\ \A d \in Conns : d # c => pc'[d] = pc[d]
    BY <1>5 DEF Initialized, At, SInv, STypeOK
  <2>9. Quiet
    BY <1>5, <2>1, <2>2 DEF Quiet, Initialized, entryVars, Serving, SInv, Paired
  <2> QED
    BY <2>9, <2>1, QuietStep
<1>6. ASSUME NEW c \in Conns, Exec(c) PROVE SInv'
  <2>1. STypeOK'
    BY <1>6 DEF Exec, At, entryVars, connVars, SInv, STypeOK, Serving, SessionAttached
  <2>2. pc[c] = "loop" /\ pc'[c] = "exec" /\ handle[c] # NoSession /\ \A d \in Conns : d # c => pc'[d] = pc[d]
    BY <1>6 DEF Exec, SessionAttached, At, SInv, STypeOK
  <2>9. Quiet
    BY <1>6, <2>1, <2>2 DEF Quiet, Exec, entryVars, connVars, Serving, SInv, Paired
  <2> QED
    BY <2>9, <2>1, QuietStep
<1>7. ASSUME NEW c \in Conns, ExecSpawned(c) PROVE SInv'
  <2>1. proc' \in [Sessions -> {"none", "starting", "running"}]
    BY <1>7 DEF ExecSpawned, SInv, STypeOK
  <2>2. STypeOK'
    BY <1>7, <2>1 DEF ExecSpawned, At, entryVars, connVars, SInv, STypeOK, Serving
  <2>3. pc[c] = "exec" /\ pc'[c] = "loop" /\ \A d \in Conns : d # c => pc'[d] = pc[d]
    BY <1>7 DEF ExecSpawned, At, SInv, STypeOK
  <2>9. Quiet
    BY <1>7, <2>2, <2>3 DEF Quiet, ExecSpawned, entryVars, connVars, Serving, SInv, Paired
  <2> QED
    BY <2>9, <2>2, QuietStep
<1>8. ASSUME NEW c \in Conns, Disconnect(c) PROVE SInv'
  <2>1. STypeOK'
    BY <1>8 DEF Disconnect, At, entryVars, connVars, SInv, STypeOK
  <2>2. /\ pc[c] \in Serving /\ pc'[c] = "closing"
        /\ \A d \in Conns : d # c => pc'[d] = pc[d] /\ expired'[d] = expired[d]
    BY <1>8 DEF Disconnect, At, connVars, Serving, SInv, STypeOK
  <2>9. Quiet
    BY <1>8, <2>1, <2>2 DEF Quiet, Disconnect, entryVars, connVars, Serving, SInv, Paired
  <2> QED
    BY <2>9, <2>1, QuietStep
<1>9. ASSUME NEW c \in Conns, DetachSender(c) PROVE SInv'
  <2>1. handle[c] \in Sessions /\ pc[c] = "detach_sender"
    BY <1>9 DEF DetachSender, SInv, STypeOK, Paired
  <2>2. STypeOK'
    BY <1>9 DEF DetachSender, At, entryVars, connVars, SInv, STypeOK
  <2>3. /\ pc'[c] = "gone" /\ \A d \in Conns : d # c => pc'[d] = pc[d] /\ timer'[d] = timer[d]
        /\ sender'[handle[c]] = NoConn
        /\ \A s \in Sessions : sender'[s] # sender[s] => sender'[s] = NoConn
    BY <1>9, <2>1 DEF DetachSender, At, SInv, STypeOK
  <2>9. Quiet
    BY <1>9, <2>1, <2>2, <2>3 DEF Quiet, DetachSender, entryVars, connVars, Serving, SInv, Paired
  <2> QED
    BY <2>9, <2>2, QuietStep
<1>10. ASSUME NEW c \in Conns, ExpireCheck(c) PROVE SInv'
  <2>1. /\ UNCHANGED <<used, entryVars, sender, proc, connVars, pc>>
        /\ registry' \subseteq registry
        /\ \A s \in registry : s \notin registry' => current[s] = NoConn
        /\ timer' \in [Conns -> {"none", "sleeping", "shutdown", "done"}]
        /\ timer[c] = "sleeping" /\ \A d \in Conns : d # c => timer'[d] = timer[d]
    BY <1>10 DEF ExpireCheck, DetachedConnectionExpired, SInv, STypeOK
  <2>2. STypeOK'
    BY <2>1 DEF SInv, STypeOK, entryVars, connVars
  <2>9. Quiet
    BY <2>1, <2>2 DEF Quiet, entryVars, connVars, SInv, Paired, Serving
  <2> QED
    BY <2>9, <2>2, QuietStep
<1>11. ASSUME NEW c \in Conns, ExpireShutdown(c) PROVE SInv'
  <2>1. STypeOK'
    BY <1>11 DEF ExpireShutdown, ShutdownProcesses, entryVars, connVars, SInv, STypeOK
  <2>2. timer[c] # "none" /\ \A d \in Conns : d # c => timer'[d] = timer[d]
    BY <1>11 DEF ExpireShutdown, SInv, STypeOK
  <2>9. Quiet
    BY <1>11, <2>1, <2>2 DEF Quiet, ExpireShutdown, entryVars, connVars, SInv, Paired, Serving
  <2> QED
    BY <2>9, <2>1, QuietStep
<1>12. ASSUME NEW s \in Sessions, ProcessGone(s) PROVE SInv'
  <2>1. STypeOK'
    BY <1>12 DEF ProcessGone, entryVars, connVars, SInv, STypeOK
  <2>9. Quiet
    BY <1>12, <2>1 DEF Quiet, ProcessGone, entryVars, connVars, SInv, Paired, Serving
  <2> QED
    BY <2>9, <2>1, QuietStep
<1>13. ASSUME NEW s \in Sessions, TtlPasses(s) PROVE SInv'
  <2>1. STypeOK'
    BY <1>13 DEF TtlPasses, connVars, SInv, STypeOK
  <2>2. \A t \in Sessions : deadline'[t] # "none" => deadline[t] # "none"
    BY <1>13 DEF TtlPasses, SInv, STypeOK
  <2>9. Quiet
    BY <1>13, <2>1, <2>2 DEF Quiet, TtlPasses, connVars, SInv, Paired, Serving
  <2> QED
    BY <2>9, <2>1, QuietStep
<1> QED
  BY <1>1, <1>2, <1>3, <1>4, <1>5, <1>6, <1>7, <1>8, <1>9, <1>10, <1>11, <1>12,
     <1>13, DetachKeeps DEF SNext

\* The inductive invariant of the sessions.
THEOREM SessionInvariant == SSpec => []SInv
<1>1. SInit => SInv
  BY SessionsAssumption DEF SInit, SInv, STypeOK, AttachedIsRegistered, NeverEvicted,
     SenderNeverStale, Paired, Serving
<1>2. SInv /\ [SNext]_svars => SInv'
  <2>1. ASSUME SInv, UNCHANGED svars PROVE SInv'
    BY <2>1 DEF svars, SInv, STypeOK, AttachedIsRegistered, NeverEvicted, SenderNeverStale, Paired
  <2> QED
    BY <2>1, StepKeeps
<1> QED
  BY <1>1, <1>2, PTL DEF SSpec

\* For any number of connections: the session of an attached connection is
\* registered, a served connection keeps its session, and output goes to no
\* connection that is over.
THEOREM SessionSafety == SSpec => [](AttachedIsRegistered /\ NeverEvicted /\ SenderNeverStale)
<1>1. SInv => AttachedIsRegistered /\ NeverEvicted /\ SenderNeverStale
  BY DEF SInv
<1> QED
  BY <1>1, SessionInvariant, PTL

\* No interleaving of the expiry tasks and of resumes removes a session before
\* the deadline its last detach has set.
THEOREM DeadlineKept == SSpec => KeptUntilDeadline
<1>1. SInv /\ [SNext]_svars =>
        [\A s \in registry \ registry' : deadline[s] = "passed" /\ current[s] = NoConn]_svars
  <2> SUFFICES ASSUME SInv, SNext, NEW s \in registry, s \notin registry'
               PROVE  deadline[s] = "passed" /\ current[s] = NoConn
    OBVIOUS
  <2>1. s \in Sessions
    BY DEF SInv, STypeOK
  <2>2. \/ \E c \in Conns, t \in Sessions : ResumeExpired(c, t)
        \/ \E c \in Conns : ExpireCheck(c)
    BY DEF SNext, InitializeNew, Resume, AttachShutdown, Initialized, Exec, ExecSpawned,
       Disconnect, Detach, DetachSender, ExpireShutdown, ProcessGone, TtlPasses
  <2>3. ASSUME NEW c \in Conns, NEW t \in Sessions, ResumeExpired(c, t)
        PROVE  deadline[s] = "passed" /\ current[s] = NoConn
    BY <2>1, <2>3 DEF ResumeExpired, SInv, Paired
  <2>4. ASSUME NEW c \in Conns, ExpireCheck(c)
        PROVE  deadline[s] = "passed" /\ current[s] = NoConn
    BY <2>4 DEF ExpireCheck, DetachedConnectionExpired
  <2> QED
    BY <2>2, <2>3, <2>4
<1> QED
  BY <1>1, SessionInvariant, PTL DEF SSpec, KeptUntilDeadline

-----------------------------------------------------------------------------
(* The processes of a session that is gone *)

\* A connection with an expired entry on its hands has no session of its own and is
\* in the resume that found the entry, which nothing drops.
ExpiredHeld ==
    \A c \in Conns : expired[c] # NoSession =>
        handle[c] = NoSession /\ pc[c] = "attach_shutdown"

\* Who answers for the processes of session s, once it left the registry.
Owner(c, s) == \/ timer[c] = "shutdown" /\ handle[c] = s
               \/ expired[c] = s /\ pc[c] = "attach_shutdown"

\* A step in which no process starts to run outside the registry, no registered
\* session is removed and nobody stops to answer for one.
LEMMA OwnersStay ==
    ASSUME ProcessesOwned, SInv,
           \A s \in Sessions : proc'[s] = "running" /\ proc[s] # "running" => s \in registry',
           \A s \in Sessions : proc'[s] = "running" /\ s \in registry /\ s \notin registry' =>
               \E c \in Conns : Owner(c, s)',
           \A s \in Sessions, c \in Conns : proc'[s] = "running" /\ Owner(c, s) => Owner(c, s)'
    PROVE  ProcessesOwned'
<1> SUFFICES ASSUME NEW s \in Sessions, proc'[s] = "running", s \notin registry'
             PROVE  \E c \in Conns : Owner(c, s)'
  BY DEF ProcessesOwned, Owner
<1>1. proc[s] = "running"
  OBVIOUS
<1>2. CASE s \in registry
  BY <1>2
<1>3. CASE s \notin registry
  BY <1>1, <1>3 DEF ProcessesOwned, Owner
<1> QED
  BY <1>2, <1>3

\* Whoever removes a session answers for its processes until they are shut down.
LEMMA StepOwned ==
    ASSUME "attach_shutdown" \notin Drops, SInv, ExpiredHeld, ProcessesOwned, [SNext]_svars
    PROVE  ExpiredHeld' /\ ProcessesOwned'
<1> USE SessionsAssumption
<1>0. STypeOK /\ Paired /\ NeverEvicted /\ AttachedIsRegistered
  BY DEF SInv
<1>1. ASSUME NEW c \in Conns, NEW s \in Sessions, InitializeNew(c, s) \/ Resume(c, s)
      PROVE  ExpiredHeld' /\ ProcessesOwned'
  <2>1. /\ pc[c] = "loop" /\ registry \subseteq registry'
        /\ UNCHANGED <<proc, expired, pc, timer>>
        /\ \A d \in Conns : d # c => handle'[d] = handle[d]
    BY <1>0, <1>1 DEF InitializeNew, Resume, CanInitialize, AttachEntry, STypeOK
  <2>2. timer[c] = "none" /\ expired[c] = NoSession
    BY <1>0, <2>1 DEF Paired, ExpiredHeld
  <2>3. ExpiredHeld'
    BY <2>1, <2>2 DEF ExpiredHeld
  <2>4. \A t \in Sessions, d \in Conns : Owner(d, t) => Owner(d, t)'
    BY <2>1, <2>2 DEF Owner
  <2> QED
    BY <2>1, <2>3, <2>4, OwnersStay
<1>2. ASSUME NEW c \in Conns, NEW s \in Sessions, ResumeExpired(c, s)
      PROVE  ExpiredHeld' /\ ProcessesOwned'
  <2>1. /\ pc[c] = "loop" /\ handle[c] = NoSession /\ registry' = registry \ {s}
        /\ UNCHANGED <<proc, handle, timer>>
        /\ pc'[c] = "attach_shutdown" /\ expired'[c] = s
        /\ \A d \in Conns : d # c => pc'[d] = pc[d] /\ expired'[d] = expired[d]
    BY <1>0, <1>2 DEF ResumeExpired, CanInitialize, At, STypeOK
  <2>2. timer[c] = "none" /\ expired[c] = NoSession
    BY <1>0, <2>1 DEF Paired, ExpiredHeld
  <2>3. ExpiredHeld'
    BY <2>1 DEF ExpiredHeld
  <2>4. \A t \in Sessions, d \in Conns : Owner(d, t) => Owner(d, t)'
    BY <2>1, <2>2 DEF Owner
  <2>5. Owner(c, s)'
    BY <2>1 DEF Owner
  <2>6. \A t \in Sessions : t \in registry /\ t \notin registry' => t = s
    BY <2>1
  <2> QED
    BY <2>1, <2>3, <2>4, <2>5, <2>6, OwnersStay
<1>3. ASSUME NEW c \in Conns, AttachShutdown(c)
      PROVE  ExpiredHeld' /\ ProcessesOwned'
  <2>1. /\ pc[c] = "attach_shutdown" /\ UNCHANGED <<registry, handle, timer>>
        /\ expired'[c] = NoSession /\ pc'[c] = "loop"
        /\ \A d \in Conns : d # c => pc'[d] = pc[d] /\ expired'[d] = expired[d]
        /\ \A t \in Sessions : proc'[t] = IF t = expired[c] THEN "none" ELSE proc[t]
    BY <1>0, <1>3 DEF AttachShutdown, ShutdownProcesses, At, STypeOK
  <2>2. timer[c] = "none"
    BY <1>0, <2>1 DEF Paired
  <2>3. ExpiredHeld'
    BY <2>1 DEF ExpiredHeld
  <2>4. \A t \in Sessions, d \in Conns : proc'[t] = "running" /\ Owner(d, t) => Owner(d, t)'
    BY <2>1, <2>2 DEF Owner
  <2>5. \A t \in Sessions : proc'[t] = "running" => proc[t] = "running"
    BY <2>1
  <2> QED
    BY <2>1, <2>3, <2>4, <2>5, OwnersStay
<1>4. ASSUME NEW c \in Conns, Initialized(c) \/ Disconnect(c)
      PROVE  ExpiredHeld' /\ ProcessesOwned'
  <2>1. /\ UNCHANGED <<registry, proc, handle, expired, timer>>
        /\ pc[c] \in {"loop", "exec"}
        /\ \A d \in Conns : d # c => pc'[d] = pc[d]
    BY <1>0, <1>4 DEF Initialized, Disconnect, At, connVars, STypeOK
  <2>2. ExpiredHeld'
    BY <2>1 DEF ExpiredHeld
  <2>3. \A t \in Sessions, d \in Conns : Owner(d, t) => Owner(d, t)'
    BY <2>1 DEF Owner
  <2> QED
    BY <2>1, <2>2, <2>3, OwnersStay
<1>5. ASSUME NEW c \in Conns, Exec(c) \/ ExecSpawned(c)
      PROVE  ExpiredHeld' /\ ProcessesOwned'
  <2>1. /\ UNCHANGED <<registry, handle, expired, timer>>
        /\ pc[c] \in {"loop", "exec"} /\ handle[c] # NoSession
        /\ \A d \in Conns : d # c => pc'[d] = pc[d]
        /\ \A t \in Sessions : t # handle[c] => proc'[t] = proc[t]
    BY <1>0, <1>5 DEF Exec, ExecSpawned, SessionAttached, At, connVars, STypeOK, Paired
  <2>2. handle[c] \in registry
    BY <1>0, <2>1 DEF NeverEvicted, AttachedIsRegistered, Serving, STypeOK
  <2>3. expired[c] = NoSession
    BY <2>1 DEF ExpiredHeld
  <2>4. ExpiredHeld'
    BY <2>1, <2>3 DEF ExpiredHeld
  <2>5. \A t \in Sessions, d \in Conns : Owner(d, t) => Owner(d, t)'
    BY <2>1, <2>3 DEF Owner
  <2> QED
    BY <2>1, <2>2, <2>4, <2>5, OwnersStay
<1>6. ASSUME NEW c \in Conns, Detach(c)
      PROVE  ExpiredHeld' /\ ProcessesOwned'
  <2>1. /\ UNCHANGED <<registry, proc, handle, expired, timer>> /\ pc[c] = "closing"
        /\ \A d \in Conns : d # c => pc'[d] = pc[d]
        /\ (pc'[c] = "gone" \/ handle[c] # NoSession)
    BY <1>0, <1>6 DEF Detach, At, connVars, SessionAttached, STypeOK
  <2>2. pc'[c] = "gone" \/ expired[c] = NoSession
    BY <2>1 DEF ExpiredHeld
  <2>3. ExpiredHeld'
    BY <2>1, <2>2 DEF ExpiredHeld
  <2>4. \A t \in Sessions, d \in Conns : Owner(d, t) => Owner(d, t)'
    BY <2>1, <2>2 DEF Owner
  <2> QED
    BY <2>1, <2>3, <2>4, OwnersStay
<1>7. ASSUME NEW c \in Conns, DetachSender(c)
      PROVE  ExpiredHeld' /\ ProcessesOwned'
  <2>1. /\ UNCHANGED <<registry, proc, handle, expired>> /\ pc[c] = "detach_sender"
        /\ pc'[c] = "gone"
        /\ \A d \in Conns : d # c => pc'[d] = pc[d] /\ timer'[d] = timer[d]
    BY <1>0, <1>7 DEF DetachSender, At, connVars, STypeOK
  <2>2. timer[c] = "none" /\ expired[c] = NoSession
    BY <1>0, <2>1 DEF Paired, ExpiredHeld
  <2>3. ExpiredHeld'
    BY <2>1, <2>2 DEF ExpiredHeld
  <2>4. \A t \in Sessions, d \in Conns : Owner(d, t) => Owner(d, t)'
    BY <2>1, <2>2 DEF Owner
  <2> QED
    BY <2>1, <2>3, <2>4, OwnersStay
<1>8. ASSUME NEW c \in Conns, ExpireCheck(c)
      PROVE  ExpiredHeld' /\ ProcessesOwned'
  <2>1. /\ UNCHANGED <<proc, handle, expired, pc>> /\ timer[c] = "sleeping"
        /\ \A d \in Conns : d # c => timer'[d] = timer[d]
        /\ \/ registry' = registry
           \/ registry' = registry \ {handle[c]} /\ timer'[c] = "shutdown"
    BY <1>0, <1>8 DEF ExpireCheck, connVars, STypeOK
  <2>2. ExpiredHeld'
    BY <2>1 DEF ExpiredHeld
  <2>3. \A t \in Sessions, d \in Conns : Owner(d, t) => Owner(d, t)'
    BY <2>1 DEF Owner
  <2>4. \A t \in Sessions : t \in registry /\ t \notin registry' => Owner(c, t)'
    BY <2>1 DEF Owner
  <2> QED
    BY <2>1, <2>2, <2>3, <2>4, OwnersStay
<1>9. ASSUME NEW c \in Conns, ExpireShutdown(c)
      PROVE  ExpiredHeld' /\ ProcessesOwned'
  <2>1. /\ UNCHANGED <<registry, handle, expired, pc>>
        /\ \A d \in Conns : d # c => timer'[d] = timer[d]
        /\ \A t \in Sessions : proc'[t] = IF t = handle[c] THEN "none" ELSE proc[t]
    BY <1>0, <1>9 DEF ExpireShutdown, ShutdownProcesses, connVars, STypeOK
  <2>2. ExpiredHeld'
    BY <2>1 DEF ExpiredHeld
  <2>3. \A t \in Sessions, d \in Conns : proc'[t] = "running" /\ Owner(d, t) => Owner(d, t)'
    BY <2>1 DEF Owner
  <2>4. \A t \in Sessions : proc'[t] = "running" => proc[t] = "running"
    BY <2>1
  <2> QED
    BY <2>1, <2>2, <2>3, <2>4, OwnersStay
<1>10. ASSUME NEW s \in Sessions, ProcessGone(s) \/ TtlPasses(s)
       PROVE  ExpiredHeld' /\ ProcessesOwned'
  <2>1. /\ UNCHANGED <<registry, handle, expired, pc, timer>>
        /\ \A t \in Sessions : proc'[t] = "running" => proc[t] = "running"
    BY <1>0, <1>10 DEF ProcessGone, TtlPasses, connVars, STypeOK
  <2>2. ExpiredHeld'
    BY <2>1 DEF ExpiredHeld
  <2>3. \A t \in Sessions, d \in Conns : Owner(d, t) => Owner(d, t)'
    BY <2>1 DEF Owner
  <2> QED
    BY <2>1, <2>2, <2>3, OwnersStay
<1>11. CASE UNCHANGED svars
  BY <1>11 DEF svars, ExpiredHeld, ProcessesOwned
<1> QED
  BY <1>1, <1>2, <1>3, <1>4, <1>5, <1>6, <1>7, <1>8, <1>9, <1>10, <1>11 DEF SNext

\* A process that runs without a session has someone who is to shut it down
\* (session_registry.rs expire_if_detached, or attach on an expired entry), provided a
\* resume that found its session expired gets to the end of its shutdown.
THEOREM ProcessesAreOwned ==
    ASSUME "attach_shutdown" \notin Drops
    PROVE  SSpec => []ProcessesOwned
<1>1. SInit => ExpiredHeld /\ ProcessesOwned
  BY DEF SInit, ExpiredHeld, ProcessesOwned
<1>2. SInv /\ ExpiredHeld /\ ProcessesOwned /\ [SNext]_svars => ExpiredHeld' /\ ProcessesOwned'
  BY StepOwned
<1> QED
  BY <1>1, <1>2, SessionInvariant, PTL DEF SSpec

==============================================================================
