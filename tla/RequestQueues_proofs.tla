------------------------ MODULE RequestQueues_proofs ------------------------
(***************************************************************************)
(* Proofs about the request path: for any number of requests, connections  *)
(* and scopes a key has one drain task, two handlers of a key overlap only *)
(* if both are shared reads, and the queues implement KeyedAccess.         *)
(***************************************************************************)
EXTENDS RequestQueues, SequenceTheorems, TLAPS

\* Appending a new element to a sequence without repetitions, as enqueue
\* does, gives a sequence without repetitions.
LEMMA AppendDistinct ==
    ASSUME NEW S, NEW q \in Seq(S), NEW x \in S,
           \A i, j \in 1..Len(q) : i # j => q[i] # q[j],
           \A i \in 1..Len(q) : q[i] # x
    PROVE  \A i, j \in 1..Len(Append(q, x)) : i # j => Append(q, x)[i] # Append(q, x)[j]
<1>1. /\ Len(q) \in Nat /\ Len(Append(q, x)) = Len(q) + 1
      /\ \A i \in 1..Len(q) : Append(q, x)[i] = q[i]
      /\ Append(q, x)[Len(q) + 1] = x
  OBVIOUS
<1>2. PICK p : p = Append(q, x)
  OBVIOUS
<1>3. SUFFICES ASSUME NEW i \in 1..(Len(q) + 1), NEW j \in 1..(Len(q) + 1), i # j
               PROVE  p[i] # p[j]
  BY <1>1, <1>2
<1>4. CASE i \in 1..Len(q) /\ j \in 1..Len(q)
  BY <1>1, <1>2, <1>3, <1>4
<1>5. CASE i = Len(q) + 1 /\ j \in 1..Len(q)
  BY <1>1, <1>2, <1>5
<1>6. CASE j = Len(q) + 1 /\ i \in 1..Len(q)
  BY <1>1, <1>2, <1>6
<1> QED
  BY <1>1, <1>3, <1>4, <1>5, <1>6

\* enqueue appends the request to the queue and to what arrived: the queue is
\* still the end of it, and the part before the queue is the same.
LEMMA EndAppend ==
    ASSUME NEW S, NEW a \in Seq(S), NEW q \in Seq(S), NEW x \in S, IsEnd(q, a)
    PROVE  /\ IsEnd(Append(q, x), Append(a, x))
           /\ Front(Append(q, x), Append(a, x)) = Front(q, a)
<1>1. /\ Len(q) \in Nat /\ Len(a) \in Nat
      /\ Len(Append(q, x)) = Len(q) + 1 /\ Len(Append(a, x)) = Len(a) + 1
      /\ \A i \in 1..Len(q) : Append(q, x)[i] = q[i]
      /\ \A i \in 1..Len(a) : Append(a, x)[i] = a[i]
      /\ Append(q, x)[Len(q) + 1] = x /\ Append(a, x)[Len(a) + 1] = x
  OBVIOUS
<1>2. Len(q) <= Len(a) /\ \A i \in 1..Len(q) : q[i] = a[(Len(a) - Len(q)) + i]
  BY DEF IsEnd
<1>3. ASSUME NEW i \in 1..(Len(q) + 1)
      PROVE  Append(q, x)[i] = Append(a, x)[(Len(a) - Len(q)) + i]
  <2>1. CASE i = Len(q) + 1
    <3>1. (Len(a) - Len(q)) + i = Len(a) + 1
      BY <1>1, <2>1
    <3> QED
      BY <1>1, <2>1, <3>1
  <2>2. CASE i \in 1..Len(q)
    <3>1. (Len(a) - Len(q)) + i \in 1..Len(a)
      BY <1>1, <1>2, <2>2
    <3> QED
      BY <1>1, <1>2, <2>2, <3>1
  <2>3. \A m \in Nat : \A j \in 1..(m + 1) : j = m + 1 \/ j \in 1..m
    OBVIOUS
  <2> QED
    BY <1>1, <2>1, <2>2, <2>3
<1>4. (Len(a) + 1) - (Len(q) + 1) = Len(a) - Len(q) /\ Len(q) + 1 <= Len(a) + 1
  BY <1>1, <1>2
<1> QED
  BY <1>1, <1>3, <1>4 DEF IsEnd, Front

\* The indices before the queue are indices of what arrived.
LEMMA FrontInside ==
    ASSUME NEW S, NEW a \in Seq(S), NEW q \in Seq(S), IsEnd(q, a)
    PROVE  \A i \in Front(q, a) : i \in DOMAIN a
<1>1. Len(q) \in Nat /\ Len(a) \in Nat /\ DOMAIN a = 1..Len(a)
  OBVIOUS
<1> QED
  BY <1>1 DEF Front, IsEnd

\* What is left of a queue after its first n requests were taken.
LEMMA RestLen ==
    ASSUME NEW S, NEW q \in Seq(S), NEW n \in 1..Len(q)
    PROVE  Len(SubSeq(q, n + 1, Len(q))) = Len(q) - n
<1>1. Len(q) \in Nat /\ n \in Nat /\ n <= Len(q)
  OBVIOUS
<1> QED
  BY <1>1

\* The first n requests of the queue q are in B, and B is all that the part
\* of a before p has gained over the part before q.
FirstIn(q, n, B) == \A m \in 1..n : q[m] \in B
FrontGains(p, q, a, B) ==
    \A i \in Front(p, a) : i \in DOMAIN a /\ (i \in Front(q, a) \/ a[i] \in B)

\* drain takes the first n requests of the queue: what is left is still the
\* end of what arrived, and the part before it grew by what was taken.
LEMMA EndTake ==
    ASSUME NEW S, NEW a \in Seq(S), NEW q \in Seq(S), NEW n \in 1..Len(q), IsEnd(q, a),
           NEW p \in Seq(S), p = SubSeq(q, n + 1, Len(q)), NEW B, FirstIn(q, n, B)
    PROVE  IsEnd(p, a) /\ FrontGains(p, q, a, B)
<1>1. Len(q) \in Nat /\ Len(a) \in Nat /\ n \in Nat /\ 1 <= n /\ n <= Len(q) /\ DOMAIN a = 1..Len(a)
  OBVIOUS
<1>2. /\ Len(p) = Len(q) - n
      /\ \A i \in 1..(Len(q) - n) : p[i] = q[n + i] /\ n + i \in 1..Len(q)
  BY <1>1
<1>3. Len(q) <= Len(a) /\ \A i \in 1..Len(q) : q[i] = a[(Len(a) - Len(q)) + i]
  BY DEF IsEnd
<1>4. Len(a) - Len(p) = (Len(a) - Len(q)) + n /\ Len(p) <= Len(a)
  <2>1. \A x, y, z \in Nat : z <= y /\ y <= x => x - (y - z) = (x - y) + z /\ y - z <= x
    OBVIOUS
  <2>2. Len(a) - (Len(q) - n) = (Len(a) - Len(q)) + n /\ Len(q) - n <= Len(a)
    BY <1>1, <1>3, <2>1, Zenon
  <2> QED
    BY <1>2, <2>2, Zenon
<1>5. ASSUME NEW i \in 1..(Len(q) - n)
      PROVE  p[i] = a[((Len(a) - Len(q)) + n) + i]
  <2>1. ((Len(a) - Len(q)) + n) + i = (Len(a) - Len(q)) + (n + i)
    BY <1>1
  <2> QED
    BY <1>2, <1>3, <2>1
<1>6. ASSUME NEW i \in 1..((Len(a) - Len(q)) + n)
      PROVE  i \in 1..Len(a) /\ (i \in 1..(Len(a) - Len(q)) \/ a[i] \in B)
  <2>0. i \in 1..Len(a)
    BY <1>1, <1>3
  <2>1. CASE i \notin 1..(Len(a) - Len(q))
    <3>1. PICK m : m = i - (Len(a) - Len(q))
      OBVIOUS
    <3>2. m \in 1..n /\ m \in 1..Len(q) /\ (Len(a) - Len(q)) + m = i
      BY <1>1, <1>3, <2>1, <3>1
    <3> QED
      BY <1>3, <2>0, <3>2 DEF FirstIn
  <2> QED
    BY <2>0, <2>1
<1> QED
  BY <1>1, <1>2, <1>4, <1>5, <1>6 DEF IsEnd, Front, FrontGains

\* A step of the processor loop that leaves requests and queues alone keeps
\* the invariant, as long as the loop's own state stays well typed.
LEMMA LoopStep ==
    ASSUME RInv, UNCHANGED <<info, st, queueVars, arrived>>,
           accepting' \in [Conns -> BOOLEAN],
           conn' \in [Conns -> {"new", "open", "gone"}],
           loop' \in {"idle", "shut", "exit", "exited"},
           closing' \subseteq Conns, quiet' \subseteq Conns
    PROVE  RInv'
<1>1. RTypeOK' /\ Known'
  BY DEF RInv, RTypeOK, Known, queueVars
<1>2. OneDrainPerKey'
  BY DEF RInv, OneDrainPerKey, Live, queueVars
<1>3. QueuedHere'
  BY DEF RInv, QueuedHere, Waits, queueVars
<1>4. TakenJoined'
  BY DEF RInv, TakenJoined, Shared, queueVars
<1>5. ArrivalOrder'
  <2>1. queue' = queue /\ arrived' = arrived /\ info' = info /\ st' = st
    BY DEF queueVars
  <2> QED
    BY <2>1 DEF RInv, ArrivalOrder, OrderOf
<1> QED
  BY <1>1, <1>2, <1>3, <1>4, <1>5 DEF RInv

\* GateEnter and HandlerReturn move one request that has left its queue on to
\* running or over; it is still in the batch that is being joined.
LEMMA HandlerKeeps ==
    ASSUME RInv, NEW r \in Requests, NEW s \in {"running", "over"},
           st[r] \in {"taken", "running"},
           st' = [st EXCEPT ![r] = s],
           UNCHANGED <<info, queueVars, accepting, loopVars, quiet, arrived>>
    PROVE  RInv'
<1>0. \A q \in Requests : q # r => st'[q] = st[q]
  BY DEF RInv, RTypeOK
<1>1. RTypeOK' /\ Known'
  BY DEF RInv, RTypeOK, Known, queueVars, loopVars
<1>2. OneDrainPerKey'
  BY DEF RInv, OneDrainPerKey, Live, queueVars
<1>3. QueuedHere'
  <2>1. \A q, k : Waits(q, k) => Waits(q, k)'
    BY <1>0 DEF RInv, RTypeOK, Waits
  <2> QED
    BY <2>1 DEF RInv, QueuedHere, queueVars
<1>4. TakenJoined'
  <2>1. \A q \in DOMAIN info : st'[q] \in {"taken", "running"} => st[q] \in {"taken", "running"}
    BY <1>0 DEF RInv, RTypeOK
  <2> QED
    BY <2>1 DEF RInv, TakenJoined, Shared, queueVars
<1>5. ArrivalOrder'
  <2>1. st'[r] # "queued" /\ \A q : st[q] # "queued" => st'[q] # "queued"
    BY DEF RInv, RTypeOK
  <2>2. ASSUME NEW k \in Keys PROVE OrderOf(k)'
    <3>1. queue' = queue /\ arrived' = arrived /\ info' = info
      BY DEF queueVars
    <3> QED
      BY <2>1, <3>1 DEF RInv, ArrivalOrder, OrderOf
  <2> QED
    BY <2>2 DEF ArrivalOrder
<1> QED
  BY <1>1, <1>2, <1>3, <1>4, <1>5 DEF RInv

\* enqueue: a new request goes to the end of its queue, and a drain task is
\* spawned exactly if the key was not in the map.
LEMMA EnqueueKeeps ==
    ASSUME RInv, NEW r \in Requests, NEW k \in Keys, NEW f,
           f.conn \in Conns, f.access \in Access, f.key = k,
           st[r] = "unsent",
           info' = [q \in DOMAIN info \cup {r} |-> IF q = r THEN f ELSE info[q]],
           st' = [st EXCEPT ![r] = "queued"],
           Enqueue(r, k),
           arrived' = [arrived EXCEPT ![k] = Append(@, r)],
           UNCHANGED <<batch, accepting, loopVars, quiet>>
    PROVE  RInv'
<1>0. /\ r \notin DOMAIN info /\ drain[r] = "none"
      /\ DOMAIN info' = DOMAIN info \cup {r} /\ info'[r] = f
      /\ \A q \in DOMAIN info : info'[q] = info[q]
      /\ \A q \in Requests : q # r => st'[q] = st[q] /\ drain'[q] = drain[q]
      /\ st'[r] = "queued"
  BY DEF RInv, RTypeOK, Known, Enqueue
<1>1. RTypeOK'
  <2>1. queue' \in [Keys -> Seq(Requests)] /\ arrived' \in [Keys -> Seq(Requests)]
    BY DEF RInv, RTypeOK, Enqueue
  <2> QED
    BY <1>0, <2>1 DEF RInv, RTypeOK, Enqueue, loopVars
<1>2. Known'
  BY <1>0 DEF RInv, RTypeOK, Known
<1>3. OneDrainPerKey'
  <2>1. \A l \in Keys : queue'[l] # << >> => l \in present'
    BY DEF RInv, RTypeOK, OneDrainPerKey, Enqueue
  <2>2. drain'[r] = IF k \in present THEN "none" ELSE "pop"
    BY DEF RInv, RTypeOK, Enqueue
  <2>3. present' = present \cup {k}
    BY DEF Enqueue
  <2>4. \A d \in DOMAIN info : drain'[d] = drain[d]
    BY <1>0 DEF RInv, RTypeOK
  <2>5. \A l \in present' : \E d \in DOMAIN info' : Live(d)' /\ info'[d].key = l
    BY <1>0, <2>2, <2>3, <2>4 DEF RInv, OneDrainPerKey, Live
  <2>6. \A d, e \in DOMAIN info' : Live(d)' /\ Live(e)' /\ info'[d].key = info'[e].key => d = e
    BY <1>0, <2>2, <2>3, <2>4 DEF RInv, OneDrainPerKey, Live
  <2>7. \A d \in DOMAIN info' : Live(d)' => info'[d].key \in present'
    BY <1>0, <2>2, <2>3, <2>4 DEF RInv, OneDrainPerKey, Live
  <2> QED
    BY <2>1, <2>5, <2>6, <2>7 DEF OneDrainPerKey, Live
<1>4. QueuedHere'
  <2>1. \A l \in Keys : l # k => queue'[l] = queue[l]
    BY DEF RInv, RTypeOK, Enqueue
  <2>2. queue[k] \in Seq(Requests) /\ queue'[k] = Append(queue[k], r)
    BY DEF RInv, RTypeOK, Enqueue
  <2>3. /\ Len(queue'[k]) = Len(queue[k]) + 1 /\ queue'[k][Len(queue[k]) + 1] = r
        /\ \A i \in 1..Len(queue[k]) : queue'[k][i] = queue[k][i]
        /\ Len(queue[k]) \in Nat
    BY <2>2
  <2>4. \A q, l : Waits(q, l) => q # r /\ Waits(q, l)'
    BY <1>0 DEF RInv, RTypeOK, Waits
  <2>5. Waits(r, k)'
    BY <1>0 DEF Waits
  <2>6. SUFFICES ASSUME NEW l \in Keys, NEW i \in 1..Len(queue'[l])
                 PROVE  /\ Waits(queue[l][i], l)'
                        /\ \A j \in 1..Len(queue'[l]) : i # j => queue'[l][i] # queue'[l][j]
    BY DEF QueuedHere
  <2>7. CASE l # k
    BY <2>1, <2>4, <2>7 DEF RInv, QueuedHere
  <2>8. CASE l = k
    <3>1. \A j \in 1..Len(queue'[k]) : j \in 1..Len(queue[k]) \/ j = Len(queue[k]) + 1
      BY <2>3
    <3>2. \A j \in 1..Len(queue[k]) : Waits(queue[k][j], k)
      BY DEF RInv, QueuedHere
    <3>3. \A j, m \in 1..Len(queue[k]) : j # m => queue[k][j] # queue[k][m]
      BY DEF RInv, QueuedHere
    <3>4. \A j \in 1..Len(queue[k]) : queue[k][j] # r
      BY <2>4, <3>2
    <3>5. \A j \in 1..Len(queue'[k]) : i # j => queue'[k][i] # queue'[k][j]
      <4>1. \A m, j \in 1..Len(queue'[k]) : m # j => queue'[k][m] # queue'[k][j]
        BY <2>2, <3>3, <3>4, AppendDistinct
      <4> QED
        BY <2>8, <4>1
    <3>6. Waits(queue[k][i], k)'
      <4>1. CASE i = Len(queue[k]) + 1
        <5>1. queue'[k][i] = r
          BY <2>3, <4>1
        <5> QED
          BY <1>0, <5>1 DEF Waits
      <4>2. CASE i \in 1..Len(queue[k])
        <5>1. PICK q : q = queue[k][i]
          OBVIOUS
        <5>2. Waits(q, k)'
          BY <2>4, <3>2, <4>2, <5>1
        <5>3. queue'[k][i] = q
          BY <2>3, <4>2, <5>1
        <5> QED
          BY <5>2, <5>3 DEF Waits
      <4> QED
        BY <2>8, <3>1, <4>1, <4>2
    <3> QED
      BY <2>8, <3>5, <3>6
  <2> QED
    BY <2>7, <2>8
<1>5. TakenJoined'
  <2>1. \A q \in DOMAIN info' : st'[q] \in {"taken", "running"} =>
           q \in DOMAIN info /\ st[q] \in {"taken", "running"}
    BY <1>0 DEF RInv, RTypeOK
  <2>2. \A d \in DOMAIN info : drain'[d] = drain[d]
    BY <1>0 DEF RInv, RTypeOK
  <2>3. \A q \in DOMAIN info' : info'[q].key # NoKey /\ st'[q] \in {"taken", "running"} =>
          \E d \in DOMAIN info' : drain'[d] = "join" /\ info'[d].key = info'[q].key /\ q \in batch'[d]
    BY <1>0, <2>1, <2>2 DEF RInv, TakenJoined
  <2>4. \A d \in Requests : batch'[d] \subseteq DOMAIN info'
    BY <1>0 DEF RInv, TakenJoined
  <2>5. \A d \in Requests : \A q, p \in batch'[d] : q = p \/ (Shared(q)' /\ Shared(p)')
    BY <1>0 DEF RInv, TakenJoined, Shared
  <2> QED
    BY <2>3, <2>4, <2>5 DEF TakenJoined
<1>6. ArrivalOrder'
  <2>1. ASSUME NEW l \in Keys PROVE OrderOf(l)'
    <3>0. OrderOf(l)
      BY DEF RInv, ArrivalOrder
    <3>1. CASE l # k
      <4>1. queue'[l] = queue[l] /\ arrived'[l] = arrived[l]
        BY <3>1 DEF RInv, RTypeOK, Enqueue
      <4> QED
        <5>1. arrived[l] \in Seq(Requests) /\ queue[l] \in Seq(Requests)
          BY DEF RInv, RTypeOK
        <5>2. \A i \in Front(queue[l], arrived[l]) : i \in DOMAIN arrived[l]
          BY <3>0, <5>1, FrontInside DEF OrderOf
        <5>3. \A q \in DOMAIN info : st[q] # "queued" => st'[q] # "queued"
          BY <1>0 DEF RInv, RTypeOK
        <5> QED
          BY <1>0, <3>0, <4>1, <5>2, <5>3 DEF OrderOf
    <3>2. CASE l = k
      <4>0. PICK a : a = arrived[k]
        OBVIOUS
      <4>1. PICK q : q = queue[k]
        OBVIOUS
      <4>2. a \in Seq(Requests) /\ q \in Seq(Requests)
        BY <4>0, <4>1 DEF RInv, RTypeOK
      <4>3. arrived'[k] = Append(a, r) /\ queue'[k] = Append(q, r)
        BY <4>0, <4>1 DEF RInv, RTypeOK, Enqueue
      <4>4. /\ IsEnd(q, a) /\ Distinct(a)
            /\ \A i \in DOMAIN a : a[i] \in DOMAIN info /\ info[a[i]].key = k
            /\ \A i \in Front(q, a) : st[a[i]] # "queued"
        BY <3>0, <3>2, <4>0, <4>1 DEF OrderOf
      <4>5. IsEnd(queue'[k], arrived'[k]) /\ Front(queue'[k], arrived'[k]) = Front(q, a)
        <5>1. /\ IsEnd(Append(q, r), Append(a, r))
              /\ Front(Append(q, r), Append(a, r)) = Front(q, a)
          BY <4>2, <4>4, EndAppend
        <5> QED
          BY <4>3, <5>1
      <4>6. \A i \in DOMAIN a : a[i] # r /\ a[i] \in Requests /\ arrived'[k][i] = a[i]
        <5>1. \A i \in DOMAIN a : Append(a, r)[i] = a[i] /\ a[i] \in Requests
          BY <4>2
        <5>2. r \notin DOMAIN info
          BY <1>0
        <5> QED
          BY <4>3, <4>4, <5>1, <5>2
      <4>7. Distinct(arrived'[k])
        <5>1. Distinct(Append(a, r))
          BY <4>2, <4>4, <4>6, AppendDistinct DEF Distinct
        <5> QED
          BY <4>3, <5>1
      <4>8. \A i \in DOMAIN arrived'[k] : i \in DOMAIN a \/ arrived'[k][i] = r
        BY <4>2, <4>3
      <4>9. \A i \in DOMAIN arrived'[k] : arrived'[k][i] \in DOMAIN info' /\ info'[arrived'[k][i]].key = k
        BY <1>0, <4>4, <4>6, <4>8
      <4>10. \A i \in Front(q, a) : i \in DOMAIN a
        BY <4>2, <4>4, FrontInside
      <4>11. \A i \in Front(queue'[k], arrived'[k]) : st'[arrived'[k][i]] # "queued"
        <5>1. SUFFICES ASSUME NEW i \in Front(q, a) PROVE st'[arrived'[k][i]] # "queued"
          BY <4>5
        <5>2. i \in DOMAIN a /\ st[a[i]] # "queued"
          BY <4>4, <4>10
        <5>3. a[i] # r /\ a[i] \in Requests /\ arrived'[k][i] = a[i]
          BY <4>6, <5>2
        <5>4. st'[a[i]] = st[a[i]]
          BY <1>0, <5>3
        <5> QED
          BY <5>2, <5>3, <5>4
      <4> QED
        BY <3>2, <4>5, <4>7, <4>9, <4>11 DEF OrderOf
    <3> QED
      BY <3>1, <3>2
  <2> QED
    BY <2>1 DEF ArrivalOrder
<1> QED
  BY <1>1, <1>2, <1>3, <1>4, <1>5, <1>6 DEF RInv

\* A request without a scope has a task of its own; it touches no queue.
LEMMA DirectKeeps ==
    ASSUME RInv, ScopesAssumption, NEW r \in Requests, NEW f,
           f.conn \in Conns, f.access \in Access, f.key = NoKey,
           st[r] = "unsent",
           info' = [q \in DOMAIN info \cup {r} |-> IF q = r THEN f ELSE info[q]],
           st' = [st EXCEPT ![r] = "taken"],
           UNCHANGED <<queue, present, drain, arrived, batch, accepting, loopVars, quiet>>
    PROVE  RInv'
<1>0. /\ r \notin DOMAIN info /\ drain[r] = "none"
      /\ DOMAIN info' = DOMAIN info \cup {r} /\ info'[r] = f
      /\ \A q \in DOMAIN info : info'[q] = info[q]
      /\ \A q \in Requests : q # r => st'[q] = st[q]
  BY DEF RInv, RTypeOK, Known
<1>1. RTypeOK'
  BY <1>0 DEF RInv, RTypeOK, loopVars
<1>2. Known'
  BY <1>0 DEF RInv, RTypeOK, Known
<1>3. OneDrainPerKey'
  BY <1>0 DEF RInv, OneDrainPerKey, Live
<1>4. QueuedHere'
  <2>1. \A q, k : Waits(q, k) => Waits(q, k)'
    BY <1>0 DEF RInv, RTypeOK, Waits
  <2> QED
    BY <2>1 DEF RInv, QueuedHere
<1>5. TakenJoined'
  <2>1. \A q \in DOMAIN info' : info'[q].key # NoKey /\ st'[q] \in {"taken", "running"} =>
          \E d \in DOMAIN info' : drain'[d] = "join" /\ info'[d].key = info'[q].key /\ q \in batch'[d]
    BY <1>0 DEF RInv, RTypeOK, TakenJoined
  <2>2. \A d \in Requests : batch'[d] \subseteq DOMAIN info'
    BY <1>0 DEF RInv, TakenJoined
  <2>3. \A d \in Requests : \A q, p \in batch'[d] : q = p \/ (Shared(q)' /\ Shared(p)')
    BY <1>0 DEF RInv, TakenJoined, Shared
  <2> QED
    BY <2>1, <2>2, <2>3 DEF TakenJoined
<1>6. ArrivalOrder'
  <2>1. \A q \in DOMAIN info : st[q] # "queued" => st'[q] # "queued"
    BY <1>0 DEF RInv, RTypeOK
  <2>2. ASSUME NEW l \in Keys PROVE OrderOf(l)'
    <3>0. OrderOf(l)
      BY DEF RInv, ArrivalOrder
    <3>1. arrived[l] \in Seq(Requests) /\ queue[l] \in Seq(Requests)
      BY DEF RInv, RTypeOK
    <3>2. \A i \in Front(queue[l], arrived[l]) : i \in DOMAIN arrived[l]
      BY <3>0, <3>1, FrontInside DEF OrderOf
    <3>3. arrived' = arrived /\ queue' = queue
      OBVIOUS
    <3> QED
      BY <1>0, <2>1, <3>0, <3>2, <3>3 DEF OrderOf
  <2> QED
    BY <2>2 DEF ArrivalOrder
<1> QED
  BY <1>1, <1>2, <1>3, <1>4, <1>5, <1>6 DEF RInv

\* A drain task belongs to a request with a key that is in the map.
LEMMA DrainHasKey ==
    ASSUME RInv, NEW d \in Requests, Live(d)
    PROVE  d \in DOMAIN info /\ info[d].key \in Keys /\ info[d].key \in present
BY DEF RInv, Known, OneDrainPerKey, Live

\* The pop of a drain task: a batch that may run together leaves the queue
\* and is joined by this task, the only one of the key.
LEMMA PopKeeps ==
    ASSUME RInv, NEW d \in Requests, DrainPop(d)
    PROVE  RInv'
<1>0. PICK k : k = info[d].key
  OBVIOUS
<1>1. d \in DOMAIN info /\ k \in Keys /\ k \in present /\ drain[d] = "pop"
  BY <1>0, DrainHasKey DEF DrainPop, Live
<1>2. PICK n \in 1..Len(queue[k]) :
        /\ IsBatch(queue[k], n)
        /\ batch' = [batch EXCEPT ![d] = {queue[k][i] : i \in 1..n}]
        /\ queue' = [queue EXCEPT ![k] = SubSeq(queue[k], n + 1, Len(queue[k]))]
  <2>1. PICK n \in 1..Len(queue[info[d].key]) :
          /\ IsBatch(queue[info[d].key], n)
          /\ batch' = [batch EXCEPT ![d] = {queue[info[d].key][i] : i \in 1..n}]
          /\ queue' = [queue EXCEPT ![info[d].key] = SubSeq(@, n + 1, Len(@))]
    BY DEF DrainPop
  <2> QED
    BY <1>0, <2>1
<1>3. PICK B : B = {queue[k][i] : i \in 1..n}
  OBVIOUS
<1>4. queue[k] \in Seq(Requests) /\ Len(queue[k]) \in Nat /\ n \in Nat /\ n <= Len(queue[k]) /\ 1 <= n
  BY <1>1, <1>2 DEF RInv, RTypeOK
<1>5. \A r \in B : r \in Requests /\ Waits(r, k)
  BY <1>1, <1>2, <1>3, <1>4 DEF RInv, QueuedHere
<1>6. /\ batch'[d] = B
      /\ \A e \in Requests : e # d => batch'[e] = batch[e] /\ drain'[e] = drain[e]
      /\ drain'[d] = "join"
      /\ st' = [r \in Requests |-> IF r \in B THEN "taken" ELSE st[r]]
      /\ UNCHANGED <<info, present, accepting, loopVars, quiet, arrived>>
  BY <1>2, <1>3 DEF DrainPop, RInv, RTypeOK
<1>7. RTypeOK'
  <2>1. SubSeq(queue[k], n + 1, Len(queue[k])) \in Seq(Requests)
    BY <1>4
  <2>2. queue' \in [Keys -> Seq(Requests)]
    BY <1>1, <1>2, <2>1 DEF RInv, RTypeOK
  <2>3. batch' \in [Requests -> SUBSET Requests] /\ drain' \in [Requests -> {"none", "pop", "join", "ended"}]
    BY <1>2, <1>3, <1>5 DEF RInv, RTypeOK, DrainPop
  <2> QED
    BY <1>6, <2>2, <2>3 DEF RInv, RTypeOK, loopVars
<1>8. Known'
  BY <1>1, <1>5, <1>6 DEF RInv, RTypeOK, Known, Waits
<1>9. OneDrainPerKey'
  <2>1. \A l \in Keys : queue'[l] # << >> => l \in present
    BY <1>1, <1>2 DEF RInv, RTypeOK, OneDrainPerKey
  <2>2. \A e \in DOMAIN info : Live(e)' <=> Live(e)
    BY <1>1, <1>6 DEF Live, RInv, RTypeOK
  <2> QED
    BY <1>6, <2>1, <2>2 DEF RInv, OneDrainPerKey
<1>10. QueuedHere'
  <2>1. \A r, l : Waits(r, l) /\ r \notin B => Waits(r, l)'
    BY <1>6 DEF RInv, RTypeOK, Waits
  <2>2. ASSUME NEW l \in Keys, NEW i \in 1..Len(queue'[l])
        PROVE  /\ Waits(queue[l][i], l)'
               /\ \A j \in 1..Len(queue'[l]) : i # j => queue'[l][i] # queue'[l][j]
    <3>1. CASE l # k
      <4>1. queue'[l] = queue[l]
        BY <1>2, <2>2, <3>1 DEF RInv, RTypeOK
      <4>2. Waits(queue[l][i], l) /\ queue[l][i] \notin B
        BY <1>5, <2>2, <3>1, <4>1 DEF RInv, QueuedHere, Waits
      <4> QED
        BY <2>1, <2>2, <4>1, <4>2 DEF RInv, QueuedHere
    <3>2. CASE l = k
      <4>1. queue'[k] = SubSeq(queue[k], n + 1, Len(queue[k]))
        BY <1>1, <1>2 DEF RInv, RTypeOK
      <4>2. Len(queue'[k]) = Len(queue[k]) - n
        BY <1>2, <1>4, <4>1, RestLen
      <4>3. \A j \in 1..Len(queue'[k]) : queue'[k][j] = queue[k][n + j] /\ n + j \in 1..Len(queue[k])
        BY <1>4, <4>1, <4>2, SMTT(30)
      <4>4. \A j, m \in 1..Len(queue[k]) : j # m => queue[k][j] # queue[k][m]
        BY <1>1 DEF RInv, QueuedHere
      <4>5. \A j \in 1..Len(queue'[k]) : i # j => n + i # n + j
        BY <1>4, <2>2
      <4>6. \A j \in 1..Len(queue'[k]) : i # j => queue'[k][i] # queue'[k][j]
        BY <2>2, <3>2, <4>3, <4>4, <4>5
      <4>7. Waits(queue[k][n + i], k)
        BY <1>1, <2>2, <3>2, <4>3 DEF RInv, QueuedHere
      <4>8. queue[k][n + i] \notin B
        <5>1. \A m \in 1..n : m \in 1..Len(queue[k]) /\ m # n + i
          BY <1>4, <2>2
        <5> QED
          BY <1>3, <2>2, <3>2, <4>3, <4>4, <5>1
      <4>9. PICK r : r = queue[k][n + i]
        OBVIOUS
      <4>10. Waits(r, k)'
        BY <2>1, <4>7, <4>8, <4>9
      <4>11. queue'[k][i] = r
        BY <2>2, <3>2, <4>3, <4>9
      <4>12. Waits(queue[k][i], k)'
        BY <4>10, <4>11 DEF Waits
      <4> QED
        BY <3>2, <4>6, <4>12
    <3> QED
      BY <3>1, <3>2
  <2> QED
    BY <2>2 DEF QueuedHere
<1>11. TakenJoined'
  <2>1. ASSUME NEW r \in DOMAIN info, info[r].key # NoKey, st'[r] \in {"taken", "running"}
        PROVE  \E e \in DOMAIN info : drain'[e] = "join" /\ info[e].key = info[r].key /\ r \in batch'[e]
    <3>1. CASE r \in B
      BY <1>0, <1>1, <1>5, <1>6, <3>1 DEF Waits
    <3>2. CASE r \notin B
      <4>1. st[r] \in {"taken", "running"}
        BY <1>6, <2>1, <3>2 DEF RInv, RTypeOK
      <4>2. PICK e \in DOMAIN info : drain[e] = "join" /\ info[e].key = info[r].key /\ r \in batch[e]
        BY <2>1, <4>1 DEF RInv, TakenJoined
      <4>3. e # d /\ e \in Requests
        BY <1>1, <4>2 DEF RInv, RTypeOK
      <4> QED
        BY <1>6, <4>2, <4>3
    <3> QED
      BY <3>1, <3>2
  <2>2. \A e \in Requests : batch'[e] \subseteq DOMAIN info
    BY <1>5, <1>6 DEF RInv, TakenJoined, Waits
  <2>3. \A r, q \in B : r = q \/ (Shared(r) /\ Shared(q))
    BY <1>2, <1>3, <1>4 DEF IsBatch
  <2>4. \A e \in Requests : \A r, q \in batch'[e] : r = q \/ (Shared(r) /\ Shared(q))
    BY <1>6, <2>3 DEF RInv, TakenJoined
  <2> QED
    BY <1>6, <2>1, <2>2, <2>4 DEF TakenJoined, Shared
<1>12. ArrivalOrder'
  <2>0. \A q \in Requests : st[q] # "queued" \/ q \in B => st'[q] # "queued"
    BY <1>6
  <2>1. ASSUME NEW l \in Keys PROVE OrderOf(l)'
    <3>0. OrderOf(l) /\ arrived[l] \in Seq(Requests)
      BY DEF RInv, ArrivalOrder, RTypeOK
    <3>1. CASE l # k
      <4>1. queue'[l] = queue[l] /\ arrived'[l] = arrived[l] /\ info' = info
        BY <1>2, <1>6, <3>1 DEF RInv, RTypeOK
      <4>2. \A i \in Front(queue[l], arrived[l]) : arrived[l][i] \in Requests
        <5>1. queue[l] \in Seq(Requests) /\ IsEnd(queue[l], arrived[l])
          BY <3>0 DEF OrderOf, RInv, RTypeOK
        <5> QED
          BY <3>0, <5>1, FrontInside
      <4> QED
        BY <2>0, <3>0, <4>1, <4>2 DEF OrderOf
    <3>2. CASE l = k
      <4>0. PICK a : a = arrived[k]
        OBVIOUS
      <4>1. PICK q : q = queue[k]
        OBVIOUS
      <4>2. a \in Seq(Requests) /\ q \in Seq(Requests) /\ n \in 1..Len(q)
        BY <1>2, <1>4, <3>0, <3>2, <4>0, <4>1
      <4>3. queue'[k] = SubSeq(q, n + 1, Len(q)) /\ arrived'[k] = a /\ info' = info
        BY <1>1, <1>2, <1>6, <4>0, <4>1 DEF RInv, RTypeOK
      <4>4. /\ IsEnd(q, a) /\ Distinct(a)
            /\ \A i \in DOMAIN a : a[i] \in DOMAIN info /\ info[a[i]].key = k
            /\ \A i \in Front(q, a) : st[a[i]] # "queued"
        BY <3>0, <3>2, <4>0, <4>1 DEF OrderOf
      <4>5. /\ IsEnd(queue'[k], a)
            /\ FrontGains(queue'[k], q, a, B)
        <5>1. queue'[k] \in Seq(Requests)
          BY <1>1, <1>7 DEF RTypeOK
        <5>2. PICK p : p = queue'[k]
          OBVIOUS
        <5>3. p \in Seq(Requests) /\ p = SubSeq(q, n + 1, Len(q))
          BY <4>3, <5>1, <5>2
        <5>4. IsEnd(p, a) /\ FrontGains(p, q, a, B)
          <6>1. FirstIn(q, n, B)
            BY <1>3, <4>1 DEF FirstIn
          <6>2. IsEnd(q, a) /\ a \in Seq(Requests) /\ q \in Seq(Requests) /\ n \in 1..Len(q)
            BY <4>2, <4>4
          <6> QED
            BY <5>3, <6>1, <6>2, EndTake
        <5> QED
          BY <5>2, <5>4
      <4>6. \A i \in Front(queue'[k], a) : st'[a[i]] # "queued"
        <5>1. \A i \in DOMAIN a : a[i] \in Requests
          BY <4>2
        <5> QED
          BY <2>0, <4>4, <4>5, <5>1 DEF FrontGains
      <4> QED
        BY <3>2, <4>3, <4>4, <4>5, <4>6 DEF OrderOf
    <3> QED
      BY <3>1, <3>2
  <2> QED
    BY <2>1 DEF ArrivalOrder
<1> QED
  BY <1>7, <1>8, <1>9, <1>10, <1>11, <1>12 DEF RInv

\* The end of a drain task: it was the only one of its key, its batch is
\* empty-handed and the key leaves the map with it.
LEMMA EndKeeps ==
    ASSUME RInv, NEW d \in Requests, DrainEnd(d)
    PROVE  RInv'
<1>0. PICK k : k = info[d].key
  OBVIOUS
<1>1. d \in DOMAIN info /\ k \in Keys /\ k \in present /\ drain[d] = "pop" /\ queue[k] = << >>
  BY <1>0, DrainHasKey DEF DrainEnd, Live
<1>2. /\ drain'[d] = "ended" /\ \A e \in Requests : e # d => drain'[e] = drain[e]
      /\ present' = present \ {k}
      /\ UNCHANGED <<info, st, queue, batch, accepting, loopVars, quiet, arrived>>
  BY <1>0 DEF DrainEnd, RInv, RTypeOK
<1>3. RTypeOK' /\ Known'
  BY <1>0, <1>1, <1>2 DEF DrainEnd, RInv, RTypeOK, Known, loopVars
<1>4. OneDrainPerKey'
  <2>1. \A e \in DOMAIN info : Live(e)' <=> Live(e) /\ e # d
    BY <1>1, <1>2 DEF Live, RInv, RTypeOK
  <2>2. \A e \in DOMAIN info : Live(e) /\ info[e].key = k => e = d
    BY <1>0, <1>1 DEF RInv, OneDrainPerKey, Live
  <2> QED
    BY <1>0, <1>1, <1>2, <2>1, <2>2 DEF RInv, OneDrainPerKey
<1>5. QueuedHere'
  BY <1>2 DEF RInv, QueuedHere, Waits
<1>6. TakenJoined'
  <2>1. \A e \in DOMAIN info : drain[e] = "join" => drain'[e] = "join"
    BY <1>1, <1>2 DEF RInv, RTypeOK
  <2> QED
    BY <1>2, <2>1 DEF RInv, TakenJoined, Shared
<1>7. ArrivalOrder'
  <2>1. queue' = queue /\ arrived' = arrived /\ info' = info /\ st' = st
    BY <1>2
  <2> QED
    BY <2>1 DEF RInv, ArrivalOrder, OrderOf
<1> QED
  BY <1>3, <1>4, <1>5, <1>6, <1>7 DEF RInv

\* join_all returned: no request of the batch is left to be joined.
LEMMA JoinKeeps ==
    ASSUME RInv, NEW d \in Requests, DrainJoin(d)
    PROVE  RInv'
<1>1. d \in DOMAIN info /\ drain[d] = "join"
  BY DrainHasKey DEF DrainJoin, Live
<1>2. /\ drain'[d] = "pop" /\ batch'[d] = {}
      /\ \A e \in Requests : e # d => drain'[e] = drain[e] /\ batch'[e] = batch[e]
      /\ UNCHANGED <<info, st, present, queue, accepting, loopVars, quiet, arrived>>
  BY DEF DrainJoin, RInv, RTypeOK
<1>3. RTypeOK' /\ Known'
  BY <1>1, <1>2 DEF DrainJoin, RInv, RTypeOK, Known, loopVars
<1>4. OneDrainPerKey'
  <2>1. \A e \in DOMAIN info : Live(e)' <=> Live(e)
    BY <1>1, <1>2 DEF Live, RInv, RTypeOK
  <2> QED
    BY <1>2, <2>1 DEF RInv, OneDrainPerKey
<1>5. QueuedHere'
  BY <1>2 DEF RInv, QueuedHere, Waits
<1>6. TakenJoined'
  <2>1. \A r \in batch[d] : st[r] = "over"
    BY DEF DrainJoin
  <2>2. \A r \in DOMAIN info : \A e \in DOMAIN info :
          st[r] \in {"taken", "running"} /\ drain[e] = "join" /\ r \in batch[e] =>
             drain'[e] = "join" /\ r \in batch'[e]
    BY <1>2, <2>1 DEF RInv, RTypeOK
  <2>3. \A r \in DOMAIN info : info[r].key # NoKey /\ st[r] \in {"taken", "running"} =>
          \E e \in DOMAIN info : drain'[e] = "join" /\ info[e].key = info[r].key /\ r \in batch'[e]
    BY <2>2 DEF RInv, TakenJoined
  <2>4. \A e \in Requests : batch'[e] \subseteq batch[e]
    BY <1>2
  <2>5. \A e \in Requests : batch'[e] \subseteq DOMAIN info
    BY <2>4 DEF RInv, TakenJoined
  <2>6. \A e \in Requests : \A r, q \in batch'[e] : r = q \/ (Shared(r) /\ Shared(q))
    BY <2>4 DEF RInv, TakenJoined
  <2> QED
    BY <1>2, <2>3, <2>5, <2>6 DEF TakenJoined, Shared
<1>7. ArrivalOrder'
  <2>1. queue' = queue /\ arrived' = arrived /\ info' = info /\ st' = st
    BY <1>2
  <2> QED
    BY <2>1 DEF RInv, ArrivalOrder, OrderOf
<1> QED
  BY <1>3, <1>4, <1>5, <1>6, <1>7 DEF RInv

\* Dispatch sends a request to its queue or to a task of its own.
LEMMA DispatchKeeps ==
    ASSUME RInv, NEW r \in Requests, NEW c \in Conns,
           NEW s \in GlobalScopes \cup LocalScopes \cup {NoKey}, NEW access \in Access,
           Dispatch(r, c, s, access)
    PROVE  RInv'
<1>1. CASE s = NoKey
  <2>1. PICK f : f = [conn |-> c, key |-> NoKey, access |-> access]
    OBVIOUS
  <2>2. f.conn \in Conns /\ f.access \in Access /\ f.key = NoKey
    BY <2>1
  <2> QED
    BY <1>1, <2>1, <2>2, ScopesAssumption, DirectKeeps DEF Dispatch
<1>2. CASE s # NoKey
  <2>1. PICK f : f = [conn |-> c, key |-> Key(c, s), access |-> access]
    OBVIOUS
  <2>2. f.conn \in Conns /\ f.access \in Access /\ f.key = Key(c, s) /\ Key(c, s) \in Keys
    BY <1>2, <2>1 DEF Keys
  <2> QED
    BY <1>2, <2>1, <2>2, EnqueueKeeps DEF Dispatch
<1> QED
  BY <1>1, <1>2

\* The invariant holds in every reachable state of the request path.
THEOREM RequestInvariant == RSpec => []RInv
<1>1. RInit => RInv
  <2> SUFFICES ASSUME RInit PROVE RInv
    OBVIOUS
  <2>1. RTypeOK /\ Known
    BY DEF RInit, RTypeOK, Known
  <2>2. OneDrainPerKey
    BY DEF RInit, OneDrainPerKey, Live
  <2>3. QueuedHere
    BY DEF RInit, QueuedHere
  <2>4. TakenJoined
    BY DEF RInit, TakenJoined
  <2>5. ArrivalOrder
    BY DEF RInit, ArrivalOrder, OrderOf, IsEnd, Distinct, Front
  <2> QED
    BY <2>1, <2>2, <2>3, <2>4, <2>5 DEF RInv
<1>2. RInv /\ [RNext]_rvars => RInv'
  <2> SUFFICES ASSUME RInv, [RNext]_rvars PROVE RInv'
    OBVIOUS
  <2>1. ASSUME NEW r \in Requests, DrainStep(r) PROVE RInv'
    BY <2>1, PopKeeps, EndKeeps, JoinKeeps DEF DrainStep
  <2>2. ASSUME NEW r \in Requests, HandlerStep(r) PROVE RInv'
    <3>1. CASE GateEnter(r)
      <4>1. PICK s \in {"running", "over"} : st' = [st EXCEPT ![r] = s]
        BY <3>1 DEF GateEnter
      <4> QED
        BY <3>1, <4>1, HandlerKeeps DEF GateEnter
    <3>2. CASE HandlerReturn(r)
      BY <3>2, HandlerKeeps DEF HandlerReturn
    <3> QED
      BY <2>2, <3>1, <3>2 DEF HandlerStep
  <2>3. ASSUME NEW c \in Conns, Open(c) PROVE RInv'
    BY <2>3, LoopStep DEF Open, RInv, RTypeOK
  <2>4. ASSUME NEW c \in Conns, CloseConnection(c) PROVE RInv'
    BY <2>4, LoopStep DEF CloseConnection, RInv, RTypeOK
  <2>5. ASSUME NEW c \in Conns, ShutGate(c) PROVE RInv'
    BY <2>5, LoopStep DEF ShutGate, GateShut, loopVars, RInv, RTypeOK
  <2>6. ASSUME NEW r \in Requests, NEW c \in Conns, NEW s \in GlobalScopes, NEW access \in Access,
               Dispatch(r, c, s, access)
        PROVE  RInv'
    BY <2>6, DispatchKeeps
  <2>7. ASSUME NEW r \in Requests, NEW c \in Conns, NEW s \in LocalScopes \cup {NoKey},
               Dispatch(r, c, s, "Exclusive")
        PROVE  RInv'
    BY <2>7, DispatchKeeps DEF Access
  <2>8. CASE Exit
    BY <2>8, LoopStep DEF Exit, RInv, RTypeOK
  <2>9. CASE Closed
    BY <2>9, LoopStep DEF Closed, RInv, RTypeOK
  <2>10. CASE UNCHANGED rvars
    BY <2>10, LoopStep DEF rvars, queueVars, RInv, RTypeOK
  <2> QED
    BY <2>1, <2>2, <2>3, <2>4, <2>5, <2>6, <2>7, <2>8, <2>9, <2>10 DEF RNext
<1> QED
  BY <1>1, <1>2, PTL DEF RSpec

\* Every key in the map has exactly one drain task, whatever the number of
\* requests and connections (enqueue spawns one only when it inserts the key).
THEOREM OneDrain == RSpec => []OneDrainPerKey
<1>1. RInv => OneDrainPerKey
  BY DEF RInv
<1> QED
  BY <1>1, RequestInvariant, PTL

\* Handlers of one key never overlap unless both are shared reads: both are in
\* the batch that the one drain task of the key is joining.
THEOREM Exclusion == RSpec => []SameKeyExclusion
<1>1. RInv => SameKeyExclusion
  <2> SUFFICES ASSUME RInv, NEW r \in DOMAIN info, NEW q \in DOMAIN info, r # q,
                      st[r] = "running", st[q] = "running", info[r].key = info[q].key,
                      info[r].key # NoKey
               PROVE  Shared(r) /\ Shared(q)
    BY DEF SameKeyExclusion
  <2>1. PICK d \in DOMAIN info : drain[d] = "join" /\ info[d].key = info[r].key /\ r \in batch[d]
    BY DEF RInv, TakenJoined
  <2>2. PICK e \in DOMAIN info : drain[e] = "join" /\ info[e].key = info[q].key /\ q \in batch[e]
    BY DEF RInv, TakenJoined
  <2>3. d = e /\ d \in Requests
    BY <2>1, <2>2 DEF RInv, RTypeOK, OneDrainPerKey, Live
  <2> QED
    BY <2>1, <2>2, <2>3 DEF RInv, TakenJoined
<1> QED
  BY <1>1, RequestInvariant, PTL
\* What arrived for the key of a request before it: the indices of the history
\* that the abstract specification looks at.
LEMMA BeforeIsEarlier ==
    ASSUME RInv, ScopesAssumption, NEW r \in DOMAIN info, NEW q \in KA!Before(r)
    PROVE  LET k == info[r].key
           IN  k \in Keys /\ \E j, l \in DOMAIN arrived[k] :
                   j < l /\ arrived[k][j] = q /\ arrived[k][l] = r
<1>1. info[r].key # NoKey /\ info[r].key \in Keys
  BY DEF KA!Before, RInv, RTypeOK
<1>2. PICK a : a = arrived[info[r].key]
  OBVIOUS
<1>3. a \in Seq(Requests) /\ Len(a) \in Nat /\ DOMAIN a = 1..Len(a)
  BY <1>1, <1>2 DEF RInv, RTypeOK
<1>4. q \in {a[i] : i \in {j \in 1..Len(a) : \E l \in (j + 1)..Len(a) : a[l] = r}}
  BY <1>1, <1>2 DEF KA!Before
<1>5. PICK j \in 1..Len(a) : a[j] = q /\ \E l \in (j + 1)..Len(a) : a[l] = r
  BY <1>4
<1>6. PICK l \in (j + 1)..Len(a) : a[l] = r
  BY <1>5
<1>7. j < l /\ l \in 1..Len(a)
  BY <1>3
<1> QED
  BY <1>1, <1>2, <1>3, <1>5, <1>6, <1>7

\* A request that has left its queue waits for nobody: what arrived before it
\* on its key is over, or is joined with it as a shared read.
LEMMA TakenMayBegin ==
    ASSUME RInv, ScopesAssumption, NEW r \in DOMAIN info, st[r] = "taken",
           NEW q \in KA!Before(r), KA!Conflict(q, r)
    PROVE  st[q] = "over"
<1>1. PICK k : k = info[r].key
  OBVIOUS
<1>2. k \in Keys /\ k # NoKey
  BY <1>1, BeforeIsEarlier, ScopesAssumption
<1>3. PICK a : a = arrived[k]
  OBVIOUS
<1>4. PICK p : p = queue[k]
  OBVIOUS
<1>5. PICK j \in DOMAIN a, l \in DOMAIN a : j < l /\ a[j] = q /\ a[l] = r
  BY <1>1, <1>3, BeforeIsEarlier
<1>6. /\ IsEnd(p, a) /\ Distinct(a)
      /\ \A i \in DOMAIN a : a[i] \in DOMAIN info /\ info[a[i]].key = k
      /\ \A i \in Front(p, a) : st[a[i]] # "queued"
  BY <1>2, <1>3, <1>4 DEF RInv, ArrivalOrder, OrderOf
<1>7. /\ a \in Seq(Requests) /\ p \in Seq(Requests)
      /\ Len(a) \in Nat /\ Len(p) \in Nat /\ DOMAIN a = 1..Len(a)
  BY <1>2, <1>3, <1>4 DEF RInv, RTypeOK
<1>8. \A i \in 1..Len(p) : st[p[i]] = "queued"
  BY <1>2, <1>4 DEF RInv, QueuedHere, Waits
<1>9. l \in Front(p, a)
  <2>1. SUFFICES ASSUME l \notin 1..(Len(a) - Len(p)) PROVE FALSE
    BY DEF Front
  <2>2. PICK m : m = l - (Len(a) - Len(p))
    OBVIOUS
  <2>3. m \in 1..Len(p) /\ (Len(a) - Len(p)) + m = l
    <3>1. PICK x \in Nat, y \in Nat : x = Len(a) /\ y = Len(p)
      BY <1>7
    <3>2. l \in 1..x /\ y <= x
      BY <1>6, <1>7, <3>1 DEF IsEnd
    <3>3. l \notin 1..(x - y) /\ m = l - (x - y)
      BY <2>1, <2>2, <3>1
    <3>4. m \in 1..y /\ (x - y) + m = l
      BY <3>2, <3>3
    <3> QED
      BY <3>1, <3>4
  <2>4. p[m] = r
    BY <1>5, <1>6, <2>3 DEF IsEnd
  <2> QED
    BY <1>8, <2>3, <2>4
<1>10. j \in Front(p, a)
  BY <1>5, <1>7, <1>9 DEF Front
<1>11. q \in DOMAIN info /\ q \in Requests /\ info[q].key = k /\ st[q] # "queued" /\ q # r
  BY <1>5, <1>6, <1>7, <1>10 DEF Distinct
<1>12. st[q] \in {"taken", "running", "over"}
  BY <1>11 DEF RInv, RTypeOK, Known
<1>13. SUFFICES ASSUME st[q] \in {"taken", "running"} PROVE FALSE
  BY <1>12
<1>14. PICK d \in DOMAIN info : drain[d] = "join" /\ info[d].key = k /\ r \in batch[d]
  BY <1>1, <1>2 DEF RInv, TakenJoined
<1>15. PICK e \in DOMAIN info : drain[e] = "join" /\ info[e].key = k /\ q \in batch[e]
  BY <1>2, <1>11, <1>13 DEF RInv, TakenJoined
<1>16. d = e /\ d \in Requests
  BY <1>14, <1>15 DEF RInv, RTypeOK, OneDrainPerKey, Live
<1>17. Shared(r) /\ Shared(q)
  BY <1>11, <1>14, <1>15, <1>16 DEF RInv, TakenJoined
<1> QED
  BY <1>17 DEF Shared, KA!Conflict

\* The state that the abstract specification sees.
absVars == <<info, arrived, AbsState, {c \in Conns : ~accepting[c]}, quiet>>

\* Dispatch is the arrival of a request, with its key or without one.
LEMMA DispatchArrives ==
    ASSUME RInv, ScopesAssumption, NEW r \in Requests, NEW c \in Conns,
           NEW s \in GlobalScopes \cup LocalScopes \cup {NoKey}, NEW access \in Access,
           Dispatch(r, c, s, access)
    PROVE  KA!ANext
<1>1. PICK k : k = IF s = NoKey THEN NoKey ELSE Key(c, s)
  OBVIOUS
<1>2. k \in Keys \cup {NoKey}
  BY <1>1 DEF Keys
<1>3. PICK f : f = [conn |-> c, key |-> k, access |-> access]
  OBVIOUS
<1>4. f \in KA!Infos /\ f.key = k
  BY <1>2, <1>3 DEF KA!Infos, Access
<1>5. st[r] = "unsent" /\ st' \in [Requests -> {"unsent", "queued", "taken", "running", "over"}]
  BY DEF Dispatch, RInv, RTypeOK
<1>6. st'[r] \in {"queued", "taken"} /\ \A q \in Requests : q # r => st'[q] = st[q]
  BY DEF Dispatch, RInv, RTypeOK
<1>7. AbsState[r] = "absent" /\ AbsState' = [AbsState EXCEPT ![r] = "waiting"]
  BY <1>5, <1>6 DEF AbsState
<1>8. info' = [q \in DOMAIN info \cup {r} |-> IF q = r THEN f ELSE info[q]]
  BY <1>1, <1>3 DEF Dispatch
<1>9. arrived' = [l \in Keys |-> IF l = f.key THEN Append(arrived[l], r) ELSE arrived[l]]
  <2>1. arrived \in [Keys -> Seq(Requests)]
    BY DEF RInv, RTypeOK
  <2>2. CASE s = NoKey
    BY <1>1, <1>4, <2>1, <2>2, ScopesAssumption DEF Dispatch
  <2>3. CASE s # NoKey
    BY <1>1, <1>4, <2>1, <2>3 DEF Dispatch
  <2> QED
    BY <2>2, <2>3
<1>10. UNCHANGED <<{d \in Conns : ~accepting[d]}, quiet>>
  BY DEF Dispatch
<1>11. KA!Arrive(r, f)
  BY <1>7, <1>8, <1>9, <1>10 DEF KA!Arrive
<1> QED
  BY <1>4, <1>11 DEF KA!ANext

\* A step that leaves the requests, the gates and quiet alone is one the
\* abstract specification does not see, if it only moves requests from a
\* queue into a batch.
LEMMA Unseen ==
    ASSUME RInv, st' \in [Requests -> {"unsent", "queued", "taken", "running", "over"}],
           \A r \in Requests : st'[r] = st[r] \/ (st[r] = "queued" /\ st'[r] = "taken"),
           UNCHANGED <<info, arrived, accepting, quiet>>
    PROVE  UNCHANGED absVars
<1>1. AbsState' = AbsState
  BY DEF AbsState, RInv, RTypeOK
<1> QED
  BY <1>1 DEF absVars

\* Every step of the request path is a step of KeyedAccess or stutters there.
LEMMA AccessStep ==
    ASSUME RInv, RInv', ScopesAssumption, [RNext]_rvars
    PROVE  [KA!ANext]_absVars
<1>0. /\ st \in [Requests -> {"unsent", "queued", "taken", "running", "over"}]
      /\ st' \in [Requests -> {"unsent", "queued", "taken", "running", "over"}]
      /\ accepting \in [Conns -> BOOLEAN] /\ closing \subseteq Conns
      /\ DOMAIN info = {r \in Requests : st[r] # "unsent"}
      /\ \A r \in DOMAIN info : info[r].conn \in Conns
  BY DEF RInv, RTypeOK, Known
<1>1. ASSUME NEW d \in Requests, DrainPop(d) PROVE UNCHANGED absVars
  <2>0. d \in DOMAIN info /\ info[d].key \in Keys
    BY <1>1, DrainHasKey DEF DrainPop, Live
  <2>1. \A r \in Requests : st'[r] = st[r] \/ (r \in batch'[d] /\ st'[r] = "taken")
    BY <1>0, <1>1 DEF DrainPop
  <2>2. \A r \in batch'[d] : st[r] = "queued"
    <3>0. PICK k : k = info[d].key
      OBVIOUS
    <3>1. PICK n \in 1..Len(queue[k]) : batch' = [batch EXCEPT ![d] = {queue[k][i] : i \in 1..n}]
      <4>1. PICK n \in 1..Len(queue[info[d].key]) :
               batch' = [batch EXCEPT ![d] = {queue[info[d].key][i] : i \in 1..n}]
        BY <1>1 DEF DrainPop
      <4> QED
        BY <3>0, <4>1
    <3>2. \A i \in 1..Len(queue[k]) : st[queue[k][i]] = "queued"
      BY <2>0, <3>0 DEF RInv, QueuedHere, Waits
    <3>3. queue[k] \in Seq(Requests) /\ Len(queue[k]) \in Nat
      BY <2>0, <3>0 DEF RInv, RTypeOK
    <3>4. batch'[d] = {queue[k][i] : i \in 1..n}
      BY <3>1 DEF RInv, RTypeOK
    <3>5. \A i \in 1..n : i \in 1..Len(queue[k])
      BY <3>3
    <3> QED
      BY <3>2, <3>4, <3>5
  <2>3. UNCHANGED <<info, arrived, accepting, quiet>>
    BY <1>1 DEF DrainPop
  <2> QED
    BY <1>0, <2>1, <2>2, <2>3, Unseen
<1>2. ASSUME st' = st, UNCHANGED <<info, arrived, accepting, quiet>> PROVE UNCHANGED absVars
  BY <1>0, <1>2, Unseen
<1>3. ASSUME NEW d \in Requests, DrainEnd(d) \/ DrainJoin(d) PROVE UNCHANGED absVars
  BY <1>2, <1>3 DEF DrainEnd, DrainJoin
<1>4. ASSUME NEW r \in Requests, GateEnter(r) PROVE KA!ANext
  <2>1. r \in DOMAIN info /\ st[r] = "taken" /\ info[r].conn \in Conns
    BY <1>0, <1>4 DEF GateEnter
  <2>2. UNCHANGED <<info, arrived, accepting, quiet>>
    BY <1>4 DEF GateEnter
  <2>3. AbsState[r] = "waiting"
    BY <2>1 DEF AbsState
  <2>4. CASE accepting[info[r].conn]
    <3>1. AbsState' = [AbsState EXCEPT ![r] = "running"]
      BY <1>0, <1>4, <2>4 DEF GateEnter, AbsState
    <3>2. \A q \in KA!Before(r) : KA!Conflict(q, r) => AbsState[q] = "over"
      <4>1. SUFFICES ASSUME NEW q \in KA!Before(r), KA!Conflict(q, r) PROVE AbsState[q] = "over"
        OBVIOUS
      <4>2. st[q] = "over"
        BY <2>1, <4>1, TakenMayBegin
      <4>3. q \in Requests
        <5>1. PICK a : a = arrived[info[r].key]
          OBVIOUS
        <5>2. info[r].key \in Keys /\ \E j \in DOMAIN a : a[j] = q
          BY <2>1, <5>1, BeforeIsEarlier
        <5>3. a \in Seq(Requests)
          BY <5>1, <5>2 DEF RInv, RTypeOK
        <5> QED
          BY <5>2, <5>3
      <4> QED
        BY <4>2, <4>3 DEF AbsState
    <3>3. KA!Begin(r)
      BY <2>1, <2>2, <2>3, <2>4, <3>1, <3>2 DEF KA!Begin
    <3> QED
      BY <3>3 DEF KA!ANext
  <2>5. CASE ~accepting[info[r].conn]
    <3>1. AbsState' = [AbsState EXCEPT ![r] = "over"]
      BY <1>0, <1>4, <2>5 DEF GateEnter, AbsState
    <3>2. KA!Skip(r)
      BY <2>1, <2>2, <2>3, <2>5, <3>1 DEF KA!Skip
    <3> QED
      BY <3>2 DEF KA!ANext
  <2> QED
    BY <2>4, <2>5
<1>5. ASSUME NEW r \in Requests, HandlerReturn(r) PROVE KA!ANext
  <2>1. AbsState[r] = "running" /\ AbsState' = [AbsState EXCEPT ![r] = "over"]
    BY <1>0, <1>5 DEF HandlerReturn, AbsState
  <2>2. KA!End(r)
    BY <1>5, <2>1 DEF HandlerReturn, KA!End
  <2> QED
    BY <2>2 DEF KA!ANext
<1>6. ASSUME NEW c \in Conns, Open(c) \/ CloseConnection(c) PROVE UNCHANGED absVars
  BY <1>2, <1>6 DEF Open, CloseConnection
<1>7. ASSUME NEW c \in Conns, ShutGate(c) PROVE KA!ANext
  <2>1. {d \in Conns : ~accepting'[d]} = {d \in Conns : ~accepting[d]} \cup {c}
    BY <1>0, <1>7 DEF ShutGate, GateShut
  <2>2. UNCHANGED <<info, arrived, AbsState, quiet>>
    BY <1>7 DEF ShutGate, AbsState
  <2>3. KA!Shut(c)
    BY <2>1, <2>2 DEF KA!Shut
  <2> QED
    BY <2>3 DEF KA!ANext
<1>8. ASSUME Closed PROVE KA!ANext
  <2>1. closing \subseteq {c \in Conns : ~accepting[c]}
    BY <1>0, <1>8 DEF Closed
  <2>2. \A r \in DOMAIN info : info[r].conn \in closing => AbsState[r] # "running"
    <3>1. \A r \in DOMAIN info : info[r].conn \in closing => st[r] # "running"
      BY <1>8 DEF Closed, Inflight
    <3> QED
      BY <1>0, <3>1 DEF AbsState
  <2>3. quiet' = quiet \cup closing /\ UNCHANGED <<info, arrived, AbsState, {c \in Conns : ~accepting[c]}>>
    BY <1>8 DEF Closed, AbsState
  <2>4. KA!Quiesce(closing)
    BY <2>1, <2>2, <2>3 DEF KA!Quiesce
  <2> QED
    BY <1>0, <2>4 DEF KA!ANext
<1>9. ASSUME Exit PROVE UNCHANGED absVars
  BY <1>2, <1>9 DEF Exit
<1>10. ASSUME NEW r \in Requests, NEW c \in Conns, NEW s \in GlobalScopes, NEW access \in Access,
              Dispatch(r, c, s, access)
       PROVE  KA!ANext
  BY <1>10, DispatchArrives
<1>11. ASSUME NEW r \in Requests, NEW c \in Conns, NEW s \in LocalScopes \cup {NoKey},
              Dispatch(r, c, s, "Exclusive")
       PROVE  KA!ANext
  BY <1>11, DispatchArrives DEF Access
<1>12. CASE UNCHANGED rvars
  BY <1>2, <1>12 DEF rvars
<1> QED
  BY <1>1, <1>3, <1>4, <1>5, <1>6, <1>7, <1>8, <1>9, <1>10, <1>11, <1>12
     DEF RNext, DrainStep, HandlerStep

\* The request path keeps the promise of KeyedAccess for any number of
\* requests, connections and scopes: the requests of a key begin in the order
\* they arrived unless both are shared reads, none begins behind a shut gate, and
\* connection_closed cleans up only after the last handler returned.
THEOREM AccessRefinement == RSpec => ImplementsKeyedAccess
<1>1. RInit => KA!AInit
  BY DEF RInit, KA!AInit, AbsState
<1>2. RInv /\ RInv' /\ [RNext]_rvars => [KA!ANext]_absVars
  BY AccessStep, ScopesAssumption
<1> QED
  BY <1>1, <1>2, RequestInvariant, PTL DEF RSpec, ImplementsKeyedAccess, KA!ASpec, KA!avars, absVars


==============================================================================
