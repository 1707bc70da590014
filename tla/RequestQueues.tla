---------------------------- MODULE RequestQueues ----------------------------
(***************************************************************************)
(* The request path of the app-server: the processor loop that dispatches  *)
(* requests and closes connections, the serialization queues with one      *)
(* drain task per key, and the gate of each connection.                    *)
(*                                                                         *)
(* A drain task is known by the request whose enqueue spawned it.          *)
(***************************************************************************)
EXTENDS Naturals, Sequences

CONSTANTS
    Requests,       \* client requests of initialized connections
    Conns,          \* connections
    GlobalScopes,   \* serialization scopes shared by all connections
    LocalScopes,    \* scopes whose key includes the connection id
    NoKey           \* requests without a scope

Access == {"Exclusive", "SharedRead"}

\* RequestSerializationQueueKey::from_scope
Key(c, s) == IF s \in LocalScopes THEN <<s, c>> ELSE <<s>>
Keys == {Key(c, s) : c \in Conns, s \in GlobalScopes \cup LocalScopes}

ASSUME ScopesAssumption ==
    /\ NoKey \notin Keys /\ NoKey \notin GlobalScopes \cup LocalScopes
    /\ GlobalScopes \cap LocalScopes = {}

VARIABLES
    info,       \* connection, key and access of each dispatched request
    st,         \* where each request is
    present,    \* keys in the queue map
    queue,      \* VecDeque of each key
    drain,      \* the drain task each request spawned
    batch,      \* requests a drain task has taken and joins
    accepting,  \* ConnectionRpcGate::accepting
    conn,       \* connections of the processor loop: "new", "open", "gone"
    loop,       \* where the processor loop is
    closing,    \* the connection it is closing
    quiet,      \* connections whose gate's shutdown has returned
    arrived     \* history: the requests of each key in the order of enqueue

queueVars == <<present, queue, drain, batch>>
loopVars  == <<conn, loop, closing>>
rvars == <<info, st, present, queue, drain, batch, accepting, conn, loop,
           closing, quiet, arrived>>

RInit ==
    /\ info = [r \in {} |-> r]
    /\ st = [r \in Requests |-> "unsent"]
    /\ present = {} /\ queue = [k \in Keys |-> << >>]
    /\ drain = [r \in Requests |-> "none"]
    /\ batch = [r \in Requests |-> {}]
    /\ accepting = [c \in Conns |-> TRUE]
    /\ conn = [c \in Conns |-> "new"]
    /\ loop = "idle" /\ closing = {}
    /\ quiet = {}
    /\ arrived = [k \in Keys |-> << >>]

-----------------------------------------------------------------------------
(* RequestSerializationQueues *)

\* enqueue: push, or insert the key and spawn its drain task
Enqueue(r, k) ==
    /\ queue' = [queue EXCEPT ![k] = Append(@, r)]
    /\ present' = present \cup {k}
    /\ drain' = [drain EXCEPT ![r] = IF k \in present THEN "none" ELSE "pop"]

Shared(r) == info[r].access = "SharedRead"

\* Mutant of IsBatch: shared reads are collected past a queued write.
IsBatchGreedy(q, n) == n = Len(q)

\* The batch is one exclusive request, or all the shared reads up to the
\* first exclusive one.
IsBatch(q, n) ==
    \/ n = 1 /\ ~Shared(q[1])
    \/ /\ \A i \in 1..n : Shared(q[i])
       /\ n < Len(q) => ~Shared(q[n + 1])

\* drain, the part under the lock: take the next batch
DrainPop(d) ==
    LET k == info[d].key
    IN  /\ drain[d] = "pop"
        /\ \E n \in 1..Len(queue[k]) :
              /\ IsBatch(queue[k], n)
              /\ batch' = [batch EXCEPT ![d] = {queue[k][i] : i \in 1..n}]
              /\ queue' = [queue EXCEPT ![k] = SubSeq(@, n + 1, Len(@))]
        /\ st' = [r \in Requests |-> IF r \in batch'[d] THEN "taken" ELSE st[r]]
        /\ drain' = [drain EXCEPT ![d] = "join"]
        /\ UNCHANGED <<info, present, accepting, loopVars, quiet, arrived>>

\* Mutant of DrainEnd: the key stays in the map.
DrainEndKeepsKey(d) ==
    /\ drain[d] = "pop"
    /\ queue[info[d].key] = << >>
    /\ drain' = [drain EXCEPT ![d] = "ended"]
    /\ UNCHANGED <<info, st, present, queue, batch, accepting, loopVars, quiet, arrived>>

\* The queue is empty: the key is removed and the drain task ends.
DrainEnd(d) ==
    /\ drain[d] = "pop"
    /\ queue[info[d].key] = << >>
    /\ present' = present \ {info[d].key}
    /\ drain' = [drain EXCEPT ![d] = "ended"]
    /\ UNCHANGED <<info, st, queue, batch, accepting, loopVars, quiet, arrived>>

\* Mutant of DrainJoin: the next batch does not wait for this one.
DrainNoJoin(d) ==
    /\ drain[d] = "join"
    /\ batch' = [batch EXCEPT ![d] = {}]
    /\ drain' = [drain EXCEPT ![d] = "pop"]
    /\ UNCHANGED <<info, st, present, queue, accepting, loopVars, quiet, arrived>>

\* join_all: every request of the batch has returned
DrainJoin(d) ==
    /\ drain[d] = "join"
    /\ \A r \in batch[d] : st[r] = "over"
    /\ batch' = [batch EXCEPT ![d] = {}]
    /\ drain' = [drain EXCEPT ![d] = "pop"]
    /\ UNCHANGED <<info, st, present, queue, accepting, loopVars, quiet, arrived>>

-----------------------------------------------------------------------------
(* ConnectionRpcGate *)

\* run, up to the token: a request of a shut gate is dropped unpolled
GateEnter(r) ==
    /\ st[r] = "taken"
    /\ st' = [st EXCEPT ![r] = IF accepting[info[r].conn] THEN "running" ELSE "over"]
    /\ UNCHANGED <<info, queueVars, accepting, loopVars, quiet, arrived>>

\* The handler, whatever its request asks for, returns and the token is
\* dropped.
HandlerReturn(r) ==
    /\ st[r] = "running"
    /\ st' = [st EXCEPT ![r] = "over"]
    /\ UNCHANGED <<info, queueVars, accepting, loopVars, quiet, arrived>>

Inflight(c) == {r \in DOMAIN info : info[r].conn = c /\ st[r] = "running"}

\* Mutant of GateShut: the flag and the tracker are left alone.
GateShutForgets(c) == UNCHANGED accepting

\* shutdown, up to the wait
GateShut(c) == accepting' = [accepting EXCEPT ![c] = FALSE]

-----------------------------------------------------------------------------
(* The processor loop *)

\* A connection or a request gets an id that was not used before; which one makes
\* no difference.
NewConn == CHOOSE c \in Conns : conn[c] = "new"
NewRequest == CHOOSE r \in Requests : st[r] = "unsent"

Open(c) ==
    /\ loop = "idle" /\ conn[c] = "new" /\ c = NewConn
    /\ conn' = [conn EXCEPT ![c] = "open"]
    /\ UNCHANGED <<info, st, queueVars, accepting, loop, closing, quiet, arrived>>

\* dispatch_initialized_client_request: into the queue of its scope, or a
\* task of its own
Dispatch(r, c, s, access) ==
    LET k == IF s = NoKey THEN NoKey ELSE Key(c, s)
    IN  /\ loop = "idle" /\ conn[c] = "open" /\ st[r] = "unsent" /\ r = NewRequest
        /\ info' = [q \in DOMAIN info \cup {r} |->
                      IF q = r THEN [conn |-> c, key |-> k, access |-> access] ELSE info[q]]
        /\ \/ /\ s = NoKey
              /\ st' = [st EXCEPT ![r] = "taken"]
              /\ UNCHANGED <<queue, present, drain, arrived>>
           \/ /\ s # NoKey
              /\ st' = [st EXCEPT ![r] = "queued"]
              /\ Enqueue(r, k)
              /\ arrived' = [arrived EXCEPT ![k] = Append(@, r)]
        /\ UNCHANGED <<batch, accepting, loopVars, quiet>>

\* TransportEvent::ConnectionClosed: the connection leaves the map, its gate
\* is shut, the loop waits for its handlers and cleans up after it.
CloseConnection(c) ==
    /\ loop = "idle" /\ conn[c] = "open"
    /\ conn' = [conn EXCEPT ![c] = "gone"]
    /\ loop' = "shut" /\ closing' = {c}
    /\ UNCHANGED <<info, st, queueVars, accepting, quiet, arrived>>

\* The loop ends: unless it is forced, it shuts the gates that are left.
Exit ==
    /\ loop = "idle"
    /\ closing' = {c \in Conns : conn[c] = "open"}
    /\ loop' \in {"exit", "exited"}
    /\ UNCHANGED <<info, st, queueVars, accepting, conn, quiet, arrived>>

ShutGate(c) ==
    /\ loop \in {"shut", "exit"} /\ c \in closing /\ accepting[c]
    /\ GateShut(c)
    /\ UNCHANGED <<info, st, queueVars, loopVars, quiet, arrived>>

\* Mutant of Closed: the wait for the handlers is missing.
ClosedEarly ==
    /\ loop \in {"shut", "exit"}
    /\ \A c \in closing : ~accepting[c]
    /\ quiet' = quiet \cup closing
    /\ loop' = IF loop = "shut" THEN "idle" ELSE "exited"
    /\ closing' = {}
    /\ UNCHANGED <<info, st, queueVars, accepting, conn, arrived>>

\* tasks.wait() returns; the state of the connection is torn down after it
Closed ==
    /\ loop \in {"shut", "exit"}
    /\ \A c \in closing : ~accepting[c] /\ Inflight(c) = {}
    /\ quiet' = quiet \cup closing
    /\ loop' = IF loop = "shut" THEN "idle" ELSE "exited"
    /\ closing' = {}
    /\ UNCHANGED <<info, st, queueVars, accepting, conn, arrived>>

-----------------------------------------------------------------------------
DrainStep(d) == DrainPop(d) \/ DrainEnd(d) \/ DrainJoin(d)
HandlerStep(r) == GateEnter(r) \/ HandlerReturn(r)

RNext == \/ \E r \in Requests : DrainStep(r) \/ HandlerStep(r)
         \/ \E c \in Conns : Open(c) \/ CloseConnection(c) \/ ShutGate(c)
         \/ \E r \in Requests, c \in Conns, s \in GlobalScopes, access \in Access :
               Dispatch(r, c, s, access)
         \/ \E r \in Requests, c \in Conns, s \in LocalScopes \cup {NoKey} :
               Dispatch(r, c, s, "Exclusive")
         \/ Exit \/ Closed

RSpec == RInit /\ [][RNext]_rvars

\* tokio polls every task that can make progress; a handler returns.
RFairness ==
    /\ \A r \in Requests : WF_rvars(DrainStep(r)) /\ WF_rvars(HandlerStep(r))
    /\ \A c \in Conns : WF_rvars(ShutGate(c))
    /\ WF_rvars(Closed)

RFairSpec == RSpec /\ RFairness

-----------------------------------------------------------------------------
(* Properties *)

\* The types of the state; a request without a key is never in a queue.
RTypeOK ==
    /\ DOMAIN info \subseteq Requests
    /\ \A r \in DOMAIN info : /\ info[r].conn \in Conns /\ info[r].access \in Access
                             /\ info[r].key \in Keys \cup {NoKey}
    /\ st \in [Requests -> {"unsent", "queued", "taken", "running", "over"}]
    /\ present \subseteq Keys /\ queue \in [Keys -> Seq(Requests)]
    /\ drain \in [Requests -> {"none", "pop", "join", "ended"}]
    /\ batch \in [Requests -> SUBSET Requests]
    /\ accepting \in [Conns -> BOOLEAN]
    /\ conn \in [Conns -> {"new", "open", "gone"}]
    /\ loop \in {"idle", "shut", "exit", "exited"} /\ closing \subseteq Conns
    /\ quiet \subseteq Conns
    /\ arrived \in [Keys -> Seq(Requests)]

\* The drain task that the request d spawned has not ended.
Live(d) == drain[d] \in {"pop", "join"}

\* A key in the map has exactly one drain task and a key out of it none: the
\* requests of a key are never handled by two tasks at once, and none is left
\* in a queue that nobody drains.
OneDrainPerKey ==
    /\ \A k \in Keys : queue[k] # << >> => k \in present
    /\ \A k \in present : \E d \in DOMAIN info : Live(d) /\ info[d].key = k
    /\ \A d, e \in DOMAIN info : Live(d) /\ Live(e) /\ info[d].key = info[e].key => d = e
    /\ \A d \in DOMAIN info : Live(d) => info[d].key \in present

\* Two handlers of one key run at the same time only if both are shared reads,
\* whichever connections sent them.
SameKeyExclusion ==
    \A r, q \in DOMAIN info :
        r # q /\ st[r] = "running" /\ st[q] = "running" /\ info[r].key = info[q].key
            /\ info[r].key # NoKey => Shared(r) /\ Shared(q)

\* The refinement mapping: a request waits until its handler is polled behind
\* the gate, whether it is in a queue, in a batch or in a task of its own.
AbsState == [r \in Requests |->
               CASE st[r] = "unsent" -> "absent"
                 [] st[r] \in {"queued", "taken"} -> "waiting"
                 [] OTHER -> st[r]]
KA == INSTANCE KeyedAccess WITH
        state <- AbsState, shut <- {c \in Conns : ~accepting[c]}

\* The queues, gates and the loop implement KeyedAccess: requests of a key
\* begin in order of arrival unless both are shared reads, none begins behind
\* a shut gate, and connection_closed tears down after the last handler.
ImplementsKeyedAccess == KA!ASpec

\* A request that was dispatched is handled or dropped.
RequestsResolve == \A r \in Requests : st[r] # "unsent" ~> st[r] = "over"

\* The processor loop, which waits for the handlers of a connection that
\* closed, gets back to the other connections.
LoopReturns == loop = "shut" ~> loop = "idle"

-----------------------------------------------------------------------------
(* The inductive invariant behind OneDrainPerKey, SameKeyExclusion and the *)
(* refinement: the requests of a key are in its queue or in the batch of   *)
(* its drain task, and leave the queue in the order of their arrival.      *)

\* A request is known from its dispatch on, and only a request with a key
\* spawned a drain task.
Known ==
    /\ DOMAIN info = {r \in Requests : st[r] # "unsent"}
    /\ \A r \in Requests : drain[r] # "none" => r \in DOMAIN info /\ info[r].key \in Keys

\* A queue holds each waiting request of its key once.
Waits(r, k) == r \in DOMAIN info /\ info[r].key = k /\ st[r] = "queued"
QueuedHere ==
    \A k \in Keys : \A i \in 1..Len(queue[k]) :
        /\ Waits(queue[k][i], k)
        /\ \A j \in 1..Len(queue[k]) : i # j => queue[k][i] # queue[k][j]

\* A request that left its queue is joined by the drain task of its key, and
\* what is joined together may run together.
TakenJoined ==
    /\ \A r \in DOMAIN info : info[r].key # NoKey /\ st[r] \in {"taken", "running"} =>
          \E d \in DOMAIN info : drain[d] = "join" /\ info[d].key = info[r].key /\ r \in batch[d]
    /\ \A d \in Requests : batch[d] \subseteq DOMAIN info
    /\ \A d \in Requests : \A r, q \in batch[d] : r = q \/ (Shared(r) /\ Shared(q))

\* q is the end of the sequence a, and Front(q, a) the indices before it.
Front(q, a) == 1..(Len(a) - Len(q))
IsEnd(q, a) ==
    /\ Len(q) <= Len(a)
    /\ \A i \in 1..Len(q) : q[i] = a[(Len(a) - Len(q)) + i]

\* A key's queue is the end of what arrived for it, each request once; all
\* that arrived before has been taken.
Distinct(a) == \A i, j \in DOMAIN a : i # j => a[i] # a[j]
OrderOf(k) ==
    /\ IsEnd(queue[k], arrived[k]) /\ Distinct(arrived[k])
    /\ \A i \in DOMAIN arrived[k] :
          arrived[k][i] \in DOMAIN info /\ info[arrived[k][i]].key = k
    /\ \A i \in Front(queue[k], arrived[k]) : st[arrived[k][i]] # "queued"
ArrivalOrder == \A k \in Keys : OrderOf(k)

\* The requests of a key are, each once and in order of arrival, in its queue
\* or in the batch that the one drain task of the key is joining: enqueue and
\* drain never disagree.
RInv == RTypeOK /\ Known /\ OneDrainPerKey /\ QueuedHere /\ TakenJoined /\ ArrivalOrder

==============================================================================
