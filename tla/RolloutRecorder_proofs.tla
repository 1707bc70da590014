------------------------ MODULE RolloutRecorder_proofs ------------------------
(***************************************************************************)
(* The rollout recorder for any number of callers, items, failures and     *)
(* lives, and any capacity of its channel: its inductive invariant, that   *)
(* no accepted item is dropped, duplicated or reordered while the writer   *)
(* lives, that the session metadata comes first, and that the recorder     *)
(* implements the durable log.                                             *)
(***************************************************************************)
EXTENDS RolloutRecorder, SequenceTheorems, TLAPS

(* Sequences and commands.                                                 *)

\* What Append does to the commands, the items and the lines.
LEMMA AppendFacts ==
    ASSUME NEW S, NEW s \in Seq(S), NEW x \in S
    PROVE  /\ Append(s, x) \in Seq(S)
           /\ Len(Append(s, x)) = Len(s) + 1
           /\ \A k \in 1..Len(s) : Append(s, x)[k] = s[k]
           /\ Append(s, x)[Len(s) + 1] = x
           /\ Append(s, x) # << >>
  OBVIOUS

\* What Tail, as rx.recv() takes a command, leaves of the channel.
LEMMA TailFacts ==
    ASSUME NEW S, NEW s \in Seq(S), s # << >>
    PROVE  /\ Tail(s) \in Seq(S)
           /\ Len(s) \in Nat \ {0}
           /\ Len(Tail(s)) = Len(s) - 1
           /\ \A k \in 1..Len(Tail(s)) : Tail(s)[k] = s[k + 1]
           /\ Head(s) = s[1] /\ Head(s) \in S
  OBVIOUS

\* The items of a prefix.
LEMMA PrefixFacts ==
    ASSUME NEW S, NEW s \in Seq(S), NEW n \in Nat, n <= Len(s)
    PROVE  {s[k] : k \in 1..n} \subseteq S
  OBVIOUS

\* A command is an item to add or a barrier of a client.
LEMMA CommandFacts ==
    ASSUME NEW m \in Commands
    PROVE  /\ m.at \in Nat
           /\ m.op = "add" => m.arg \in 1..MaxItems
           /\ m.op # "add" => m.op \in Barriers /\ m.arg \in Clients
           /\ m.op = "add" \/ m.op \in Barriers
           /\ m.op \in Barriers => m.op # "add"
  BY DEF Commands, Adds, Calls, Barriers

\* The items of a sequence of lines.
LEMMA ItemsFacts ==
    ASSUME NEW q \in Seq(Lines), NEW w, w = [k \in 1..Len(q) |-> q[k].item]
    PROVE  /\ w \in Seq(1..MaxItems) /\ Len(w) = Len(q)
           /\ \A k \in 1..Len(q) : w[k] = q[k].item
<1>1. Len(q) \in Nat /\ \A k \in 1..Len(q) : q[k] \in Lines
  OBVIOUS
<1>2. \A l \in Lines : l.item \in 1..MaxItems
  BY DEF Lines
<1>3. \A k \in 1..Len(q) : w[k] = q[k].item /\ w[k] \in 1..MaxItems
  BY <1>1, <1>2
<1>4. w = [k \in 1..Len(q) |-> w[k]]
  OBVIOUS
<1>5. w \in Seq(1..MaxItems) /\ Len(w) = Len(q)
  BY <1>1, <1>3, <1>4
<1> QED
  BY <1>3, <1>5

\* The items in the file are a sequence as long as its lines.
LEMMA WrittenFacts ==
    ASSUME lines \in Seq(Lines)
    PROVE  /\ Written \in Seq(1..MaxItems)
           /\ Len(Written) = Len(lines)
           /\ \A k \in 1..Len(lines) : Written[k] = lines[k].item
  BY ItemsFacts DEF Written

\* The suffix of a sequence.
LEMMA SuffixFacts ==
    ASSUME NEW S, NEW s \in Seq(S), NEW n \in 0..Len(s)
    PROVE  /\ SubSeq(s, n + 1, Len(s)) \in Seq(S)
           /\ Len(SubSeq(s, n + 1, Len(s))) = Len(s) - n
           /\ \A k \in 1..Len(s) - n : SubSeq(s, n + 1, Len(s))[k] = s[k + n]
<1>1. Len(s) \in Nat /\ n \in Nat
  OBVIOUS
<1>2. \A k \in n + 1..Len(s) : s[k] \in S
  BY <1>1
<1>3. /\ SubSeq(s, n + 1, Len(s)) \in Seq(S)
      /\ Len(SubSeq(s, n + 1, Len(s))) =
             IF n + 1 <= Len(s) THEN Len(s) - (n + 1) + 1 ELSE 0
      /\ \A k \in 1..Len(s) - (n + 1) + 1 :
             SubSeq(s, n + 1, Len(s))[k] = s[(n + 1) + k - 1]
  BY <1>1, <1>2, SubSeqProperties
<1> QED
  BY <1>1, <1>3

\* A prefix of a sequence, as a sequence.
LEMMA SubPrefixFacts ==
    ASSUME NEW S, NEW s \in Seq(S), NEW n \in Nat, n <= Len(s)
    PROVE  /\ SubSeq(s, 1, n) \in Seq(S)
           /\ Len(SubSeq(s, 1, n)) = n
           /\ \A k \in 1..n : SubSeq(s, 1, n)[k] = s[k]
<1>1. \A k \in 1..n : s[k] \in S
  OBVIOUS
<1>2. /\ SubSeq(s, 1, n) \in Seq(S)
      /\ Len(SubSeq(s, 1, n)) = IF 1 <= n THEN n - 1 + 1 ELSE 0
      /\ \A k \in 1..n - 1 + 1 : SubSeq(s, 1, n)[k] = s[1 + k - 1]
  BY <1>1, SubSeqProperties
<1> QED
  BY <1>2

\* What write_pending_items_once keeps: the items after those it has written.
LEMMA DrainedFacts ==
    ASSUME pending \in Seq(1..MaxItems), written \in 0..Len(pending)
    PROVE  /\ Drained \in Seq(1..MaxItems)
           /\ Len(Drained) = Len(pending) - written
           /\ \A k \in 1..Len(Drained) : Drained[k] = pending[k + written]
  BY SuffixFacts DEF Drained

\* The counters of the writer are numbers.
LEMMA CountFacts ==
    ASSUME RecTypeOK
    PROVE  Count \in Nat /\ Len(lines) \in Nat /\ Len(lines) <= Count
           /\ Len(accepted) \in Nat /\ Len(cmds) \in Nat /\ Len(pending) \in Nat
  BY DEF RecTypeOK, Count

\* A new recorder, its file deferred, satisfies the invariant.
LEMMA InitRec == RecInit => RecInv
<1> SUFFICES ASSUME RecInit PROVE RecInv
  OBVIOUS
<1>1. RecTypeOK
  <2>1. lives \in 1..MaxLives /\ recorded \in 0..MaxItems /\ faults \in 0..MaxFaults
    BY RolloutAssumption DEF RecInit
  <2>2. /\ cmds \in Seq(Commands) /\ pending \in Seq(1..MaxItems) /\ lines \in Seq(Lines)
        /\ metas \in Seq(Metas) /\ accepted \in Seq(1..MaxItems) /\ written \in 0..Len(pending)
    BY DEF RecInit
  <2> QED
    BY <2>1, <2>2 DEF RecInit, RecTypeOK
<1>2. Placed /\ Queued /\ InHand /\ MetaKept
  BY DEF RecInit, Placed, Queued, InHand, MetaKept, Count
<1> QED
  BY <1>1, <1>2 DEF RecInv

------------------------------------------------------------------------------
(* The channel.                                                            *)

\* The head of the channel is the next item, or a barrier all of whose items have
\* been received.
LEMMA HeadFacts ==
    ASSUME RecInv, cmds # << >>
    PROVE  /\ Head(cmds).op = "add" =>
                 /\ Head(cmds).at = Count + 1 /\ Count + 1 <= Len(accepted)
                 /\ Head(cmds).arg = accepted[Count + 1]
           /\ Head(cmds).op # "add" => Head(cmds).at = Count
<1>1. /\ cmds \in Seq(Commands) /\ Count \in Nat /\ Len(accepted) \in Nat /\ Len(cmds) \in Nat
      /\ Head(cmds) = cmds[1] /\ 1 \in 1..Len(cmds) /\ \A k \in 1..Len(cmds) : cmds[k].at \in Nat
  BY CountFacts, TailFacts, CommandFacts DEF RecInv, RecTypeOK
<1>2. ASSUME Head(cmds).at > Count
      PROVE  Head(cmds).op = "add" /\ Head(cmds).at = Count + 1
  <2>1. Count + 1 \in Count + 1..Len(accepted)
    BY <1>1, <1>2 DEF RecInv, Queued
  <2>2. PICK k \in 1..Len(cmds) : cmds[k].op = "add" /\ cmds[k].at = Count + 1
    BY <2>1 DEF RecInv, Queued
  <2>3. k # 1 => cmds[1].at < cmds[k].at
    BY <1>1, <2>2 DEF RecInv, Queued
  <2>4. k = 1
    BY <1>1, <1>2, <2>2, <2>3
  <2> QED
    BY <1>1, <2>2, <2>4
<1>3. Head(cmds).op = "add" => Head(cmds).at > Count
  BY <1>1 DEF RecInv, Queued
<1>4. Head(cmds).at \in Count..Len(accepted)
  BY <1>1 DEF RecInv, Queued
<1>5. Head(cmds).op = "add" => Head(cmds).arg = accepted[Head(cmds).at]
  BY <1>1 DEF RecInv, Queued
<1> QED
  BY <1>1, <1>2, <1>3, <1>4, <1>5

\* rx.recv() keeps the order of what is left in the channel.
LEMMA TailKeeps ==
    ASSUME RecInv, cmds # << >>, cmds' = Tail(cmds), accepted' = accepted,
           Count' = IF Head(cmds).op = "add" THEN Count + 1 ELSE Count
    PROVE  Queued'
<1>1. /\ cmds \in Seq(Commands) /\ Count \in Nat /\ Len(accepted) \in Nat /\ Len(cmds) \in Nat
      /\ Head(cmds) = cmds[1] /\ Len(cmds') = Len(cmds) - 1
      /\ \A k \in 1..Len(cmds') : cmds'[k] = cmds[k + 1] /\ k + 1 \in 1..Len(cmds) /\ 1 < k + 1
      /\ \A k \in 1..Len(cmds) : cmds[k].at \in Nat
      /\ 1 \in 1..Len(cmds)
  BY CountFacts, TailFacts, CommandFacts, SMTT(30) DEF RecInv, RecTypeOK
<1>2. Count' \in Nat
  BY <1>1
<1>3. ASSUME NEW k \in 1..Len(cmds')
      PROVE  /\ cmds'[k].at \in Count'..Len(accepted)
             /\ cmds'[k].op = "add" =>
                  cmds'[k].at > Count' /\ cmds'[k].arg = accepted[cmds'[k].at]
  <2>1. cmds'[k] = cmds[k + 1] /\ k + 1 \in 1..Len(cmds) /\ cmds[k + 1].at \in Nat
    BY <1>1
  <2>2. /\ cmds[1].at <= cmds[k + 1].at /\ cmds[k + 1].at <= Len(accepted)
        /\ cmds[k + 1].op = "add" => cmds[1].at < cmds[k + 1].at
    BY <1>1, <2>1 DEF RecInv, Queued
  <2>3. cmds[1].at = Count'
    BY <1>1, HeadFacts
  <2>4. cmds[k + 1].op = "add" => cmds[k + 1].arg = accepted[cmds[k + 1].at]
    BY <2>1 DEF RecInv, Queued
  <2> QED
    BY <1>1, <1>2, <2>1, <2>2, <2>3, <2>4
<1>4. ASSUME NEW j \in 1..Len(cmds'), NEW k \in 1..Len(cmds'), j < k
      PROVE  /\ cmds'[j].at <= cmds'[k].at
             /\ cmds'[k].op = "add" => cmds'[j].at < cmds'[k].at
  <2>1. /\ cmds'[j] = cmds[j + 1] /\ cmds'[k] = cmds[k + 1] /\ j + 1 < k + 1
        /\ j + 1 \in 1..Len(cmds) /\ k + 1 \in 1..Len(cmds)
    BY <1>1, <1>4
  <2> QED
    BY <2>1 DEF RecInv, Queued
<1>5. ASSUME NEW n \in Count' + 1..Len(accepted)
      PROVE  \E k \in 1..Len(cmds') : cmds'[k].op = "add" /\ cmds'[k].at = n
  <2>1. n \in Count + 1..Len(accepted)
    BY <1>1, <1>2
  <2>2. PICK k \in 1..Len(cmds) : cmds[k].op = "add" /\ cmds[k].at = n
    BY <2>1 DEF RecInv, Queued
  <2>3. k # 1
    BY <1>1, <1>2, <2>1, <2>2, HeadFacts
  <2>4. k - 1 \in 1..Len(cmds') /\ cmds'[k - 1] = cmds[k]
    BY <1>1, <2>3
  <2> QED
    BY <2>2, <2>4
<1> QED
  BY <1>3, <1>4, <1>5 DEF Queued

\* A command queued last keeps the order: an add is the next item, a barrier waits
\* for all that were accepted.
LEMMA SendKeeps ==
    ASSUME RecInv, NEW m \in Commands, cmds' = Append(cmds, m), Count' = Count,
           accepted' \in Seq(1..MaxItems), m.at = Len(accepted'),
           IF m.op = "add" THEN accepted' = Append(accepted, m.arg)
           ELSE accepted' = accepted
    PROVE  Queued'
<1>1. /\ cmds \in Seq(Commands) /\ accepted \in Seq(1..MaxItems)
      /\ Count \in Nat /\ Len(accepted) \in Nat /\ Len(cmds) \in Nat
      /\ m.op = "add" => m.arg \in 1..MaxItems
      /\ \A k \in 1..Len(cmds) : cmds[k].at \in Nat
  BY CountFacts, CommandFacts DEF RecInv, RecTypeOK
<1>2. /\ Len(cmds') = Len(cmds) + 1 /\ cmds'[Len(cmds) + 1] = m
      /\ \A k \in 1..Len(cmds) : cmds'[k] = cmds[k]
  BY <1>1, AppendFacts
<1>3. /\ Len(accepted') = IF m.op = "add" THEN Len(accepted) + 1 ELSE Len(accepted)
      /\ \A k \in 1..Len(accepted) : accepted'[k] = accepted[k]
      /\ m.op = "add" => accepted'[Len(accepted) + 1] = m.arg
  <2>1. CASE m.op = "add"
    <3>1. accepted' = Append(accepted, m.arg) /\ m.arg \in 1..MaxItems
      BY <1>1, <2>1
    <3> QED
      BY <1>1, <2>1, <3>1, AppendFacts
  <2>2. CASE m.op # "add"
    BY <2>2
  <2> QED
    BY <2>1, <2>2
<1>4. Count <= Len(accepted)
  BY DEF RecInv, Placed
<1>5. ASSUME NEW k \in 1..Len(cmds')
      PROVE  /\ cmds'[k].at \in Count'..Len(accepted')
             /\ cmds'[k].op = "add" =>
                  cmds'[k].at > Count' /\ cmds'[k].arg = accepted'[cmds'[k].at]
  <2>1. CASE k = Len(cmds) + 1
    BY <1>1, <1>2, <1>3, <1>4, <2>1
  <2>2. CASE k \in 1..Len(cmds)
    <3>1. /\ cmds[k].at \in Count..Len(accepted)
          /\ cmds[k].op = "add" =>
                  cmds[k].at > Count /\ cmds[k].arg = accepted[cmds[k].at]
      BY <2>2 DEF RecInv, Queued
    <3>2. cmds'[k] = cmds[k]
      BY <1>2, <2>2
    <3>3. cmds[k].at > Count => accepted'[cmds[k].at] = accepted[cmds[k].at]
      BY <1>1, <1>3, <3>1
    <3> QED
      BY <1>1, <1>3, <3>1, <3>2, <3>3
  <2> QED
    BY <1>1, <1>2, <2>1, <2>2
<1>6. ASSUME NEW j \in 1..Len(cmds'), NEW k \in 1..Len(cmds'), j < k
      PROVE  /\ cmds'[j].at <= cmds'[k].at
             /\ cmds'[k].op = "add" => cmds'[j].at < cmds'[k].at
  <2>1. j \in 1..Len(cmds) /\ cmds'[j] = cmds[j]
    BY <1>1, <1>2, <1>6
  <2>2. CASE k = Len(cmds) + 1
    <3>1. cmds[j].at <= Len(accepted)
      BY <1>1, <2>1 DEF RecInv, Queued
    <3> QED
      BY <1>1, <1>2, <1>3, <2>1, <2>2, <3>1
  <2>3. CASE k \in 1..Len(cmds)
    BY <1>2, <1>6, <2>1, <2>3 DEF RecInv, Queued
  <2> QED
    BY <1>1, <1>2, <2>2, <2>3
<1>7. ASSUME NEW n \in Count' + 1..Len(accepted')
      PROVE  \E k \in 1..Len(cmds') : cmds'[k].op = "add" /\ cmds'[k].at = n
  <2>1. CASE n \in Count + 1..Len(accepted)
    <3>1. PICK k \in 1..Len(cmds) : cmds[k].op = "add" /\ cmds[k].at = n
      BY <2>1 DEF RecInv, Queued
    <3> QED
      BY <1>1, <1>2, <3>1
  <2>2. CASE n = Len(accepted) + 1 /\ m.op = "add"
    BY <1>1, <1>2, <1>3, <2>2
  <2> QED
    BY <1>1, <1>3, <2>1, <2>2
<1> QED
  BY <1>5, <1>6, <1>7 DEF Queued

------------------------------------------------------------------------------
(* Callers.                                                                *)

\* record_canonical_items, flush, persist and shutdown only append to the channel.
LEMMA CallersKeep ==
    ASSUME RecInv, NEW c \in Clients,
           RecordItems(c) \/ (\E op \in Barriers : SendBarrier(c, op)) \/ SendFails(c)
    PROVE  RecInv'
<1>1. /\ cmds \in Seq(Commands) /\ accepted \in Seq(1..MaxItems) /\ Len(accepted) \in Nat
      /\ calls \in [Clients -> {"idle", "recorded", "waiting"}] /\ Len(lines) \in Nat
      /\ recorded \in 0..MaxItems /\ Count \in Nat /\ written \in Nat /\ Len(pending) \in Nat
  BY CountFacts DEF RecInv, RecTypeOK
<1>2. UNCHANGED <<writerVars, fileVars, lifeVars, faults, promised>>
  BY DEF RecordItems, SendBarrier, SendFails, history
<1>3. Count' = Count
  BY <1>2 DEF Count, writerVars, fileVars
<1>4. ASSUME cmds' \in Seq(Commands), accepted' \in Seq(1..MaxItems), recorded' \in 0..MaxItems,
             calls' \in [Clients -> {"idle", "recorded", "waiting"}]
      PROVE  RecTypeOK'
  BY <1>2, <1>4 DEF RecInv, RecTypeOK, writerVars, fileVars, lifeVars
<1>5. MetaKept'
  BY <1>2 DEF RecInv, MetaKept, writerVars, fileVars
<1>6. CASE RecordItems(c)
  <2> DEFINE m == [op |-> "add", arg |-> recorded + 1, at |-> Len(accepted) + 1]
  <2>1. recorded + 1 \in 1..MaxItems /\ recorded' = recorded + 1 /\ phase = "live"
    BY <1>1, <1>6, RolloutAssumption DEF RecordItems
  <2>2. m \in Commands
    BY <1>1, <2>1 DEF Commands, Adds
  <2>3. /\ cmds' = Append(cmds, m) /\ accepted' = Append(accepted, m.arg)
        /\ calls' = [calls EXCEPT ![c] = "recorded"]
        /\ m.op = "add" /\ m.at = Len(accepted) + 1 /\ m.arg \in 1..MaxItems
    BY <1>6, <2>1 DEF RecordItems
  <2> HIDE DEF m
  <2>4. /\ accepted' \in Seq(1..MaxItems) /\ Len(accepted') = Len(accepted) + 1
        /\ \A k \in 1..Len(accepted) : accepted'[k] = accepted[k]
    BY <1>1, <2>3, AppendFacts
  <2>5. RecTypeOK'
    <3>1. cmds' \in Seq(Commands)
      BY <1>1, <2>2, <2>3, AppendFacts
    <3>2. calls' \in [Clients -> {"idle", "recorded", "waiting"}] /\ recorded' \in 0..MaxItems
      BY <1>1, <2>1, <2>3
    <3> QED
      BY <1>4, <2>4, <3>1, <3>2
  <2>6. Queued'
    BY <1>3, <2>2, <2>3, <2>4, SendKeeps
  <2>7. Placed'
    <3>1. /\ Count <= Len(accepted)
          /\ \A k \in 1..Len(lines) : lines[k].item = accepted[k]
          /\ \A k \in written + 1..Len(pending) :
                 pending[k] = accepted[Len(lines) + (k - written)]
      BY DEF RecInv, Placed
    <3>2. \A k \in 1..Len(lines) : accepted'[k] = accepted[k]
      BY <1>1, <2>4, <3>1 DEF Count, RecInv, RecTypeOK
    <3>3. \A k \in written + 1..Len(pending) :
             accepted'[Len(lines) + (k - written)] = accepted[Len(lines) + (k - written)]
      BY <1>1, <2>4, <3>1, SMTT(30) DEF Count
    <3>4. Count' <= Len(accepted') /\ UNCHANGED <<lines, pending, written>>
      BY <1>1, <1>2, <1>3, <2>4, <3>1 DEF writerVars, fileVars
    <3> QED
      BY <3>1, <3>2, <3>3, <3>4 DEF Placed
  <2>8. InHand'
    BY <1>2, <1>3, <2>1 DEF RecInv, InHand, writerVars, lifeVars
  <2> QED
    BY <1>5, <2>5, <2>6, <2>7, <2>8 DEF RecInv
<1>7. ASSUME NEW op \in Barriers, SendBarrier(c, op)
      PROVE  RecInv'
  <2> DEFINE m == [op |-> op, arg |-> c, at |-> Len(accepted)]
  <2>1. m \in Commands /\ m.op # "add" /\ m.at = Len(accepted)
    BY <1>1 DEF Commands, Calls, Barriers
  <2>2. /\ cmds' = Append(cmds, m) /\ accepted' = accepted /\ recorded' = recorded
        /\ calls' = [calls EXCEPT ![c] = "waiting"] /\ phase = "live"
    BY <1>7 DEF SendBarrier, history
  <2> HIDE DEF m
  <2>3. RecTypeOK'
    BY <1>1, <1>4, <2>1, <2>2, AppendFacts
  <2>4. Queued'
    BY <1>1, <1>3, <2>1, <2>2, SendKeeps
  <2>5. Placed' /\ InHand'
    BY <1>2, <1>3, <2>2 DEF RecInv, Placed, InHand, writerVars, fileVars, lifeVars
  <2> QED
    BY <1>5, <2>3, <2>4, <2>5 DEF RecInv
<1>8. CASE SendFails(c)
  <2>1. UNCHANGED <<cmds, accepted, recorded>> /\ calls' = [calls EXCEPT ![c] = "idle"]
    BY <1>8 DEF SendFails, history
  <2>2. RecTypeOK'
    BY <1>1, <1>4, <2>1
  <2>3. Placed' /\ Queued' /\ InHand'
    BY <1>2, <1>3, <2>1
       DEF RecInv, Placed, Queued, InHand, writerVars, fileVars, lifeVars
  <2> QED
    BY <1>5, <2>2, <2>3 DEF RecInv
<1> QED
  BY <1>6, <1>7, <1>8

------------------------------------------------------------------------------
(* What the steps of the writer have in common.                            *)

\* Whoever ends the writer leaves the items of the file as the accepted ones.
LEMMA GoneKeeps ==
    ASSUME RecInv, phase' \in {"stopped", "down"}, cmds' = << >>, cmd' = NoCmd,
           wpc' = "recv", attempt' = 1, isOpen' = FALSE, pending' = << >>, written' = 0,
           calls' \in [Clients -> {"idle", "recorded", "waiting"}], torn' \in BOOLEAN,
           accepted' = Written, promised' \subseteq 1..MaxItems,
           UNCHANGED <<deferred, needMeta, lines, metas, lives, recorded, faults>>
    PROVE  RecInv'
<1>1. lines \in Seq(Lines) /\ Len(lines) \in Nat
  BY DEF RecInv, RecTypeOK
<1>2. /\ accepted' \in Seq(1..MaxItems) /\ Len(accepted') = Len(lines)
      /\ \A k \in 1..Len(lines) : accepted'[k] = lines[k].item
  BY <1>1, WrittenFacts
<1>3. Count' = Len(lines)
  BY <1>1 DEF Count
<1>4. RecTypeOK'
  <2>1. cmds' \in Seq(Commands) /\ pending' \in Seq(1..MaxItems) /\ written' \in 0..Len(pending')
    OBVIOUS
  <2> QED
    BY <1>2, <2>1 DEF RecInv, RecTypeOK
<1>5. Placed' /\ Queued'
  BY <1>1, <1>2, <1>3 DEF Placed, Queued
<1>6. InHand' /\ MetaKept'
  BY DEF RecInv, InHand, MetaKept
<1> QED
  BY <1>4, <1>5, <1>6 DEF RecInv

\* A success that names accepted items names items.
LEMMA PromiseFacts ==
    ASSUME RecInv, NEW n \in Nat, n <= Len(accepted)
    PROVE  promised \cup {accepted[k] : k \in 1..n} \subseteq 1..MaxItems
<1>1. accepted \in Seq(1..MaxItems) /\ Len(accepted) \in Nat /\ promised \subseteq 1..MaxItems
  BY DEF RecInv, RecTypeOK
<1>2. {accepted[k] : k \in 1..n} \subseteq 1..MaxItems
  BY <1>1, PrefixFacts
<1> QED
  BY <1>1, <1>2

\* An answer changes the caller and what was promised, and ends the command.
LEMMA AnswerFacts ==
    ASSUME RecInv, NEW m \in Commands, m.at <= Len(accepted), NEW ok \in BOOLEAN,
           Answer(m, ok)
    PROVE  /\ calls' \in [Clients -> {"idle", "recorded", "waiting"}]
           /\ promised' \subseteq 1..MaxItems
           /\ cmd' = NoCmd /\ wpc' = "recv" /\ attempt' = 1
           /\ UNCHANGED <<phase, lives, accepted, recorded>>
<1>1. calls \in [Clients -> {"idle", "recorded", "waiting"}] /\ promised \subseteq 1..MaxItems
  BY DEF RecInv, RecTypeOK
<1>2. m.at \in Nat /\ (m.op # "add" => m.arg \in Clients)
  BY CommandFacts
<1>3. promised \cup {accepted[k] : k \in 1..m.at} \subseteq 1..MaxItems
  BY <1>2, PromiseFacts
<1>4. /\ calls' = calls \/ (m.op # "add" /\ calls' = [calls EXCEPT ![m.arg] = "idle"])
      /\ \/ promised' = promised
         \/ promised' = promised \cup {accepted[k] : k \in 1..m.at}
  BY DEF Answer
<1>5. calls' \in [Clients -> {"idle", "recorded", "waiting"}]
  BY <1>1, <1>2, <1>4
<1>6. promised' \subseteq 1..MaxItems
  BY <1>1, <1>3, <1>4
<1> QED
  BY <1>5, <1>6 DEF Answer, lifeVars

\* A failed attempt, the retry or the answer after it, leaves the same items with
\* the writer: it drains exactly what it wrote.
LEMMA RecoverKeeps ==
    ASSUME RecInv, wpc # "recv", Recover, torn' \in BOOLEAN, faults' \in 0..MaxFaults,
           UNCHANGED <<lines, metas, needMeta, deferred>>
    PROVE  RecInv'
<1>1. /\ pending \in Seq(1..MaxItems) /\ written \in 0..Len(pending) /\ Len(pending) \in Nat
      /\ Len(lines) \in Nat /\ Count \in Nat
      /\ calls \in [Clients -> {"idle", "recorded", "waiting"}] /\ promised \subseteq 1..MaxItems
  BY CountFacts DEF RecInv, RecTypeOK
<1>2. pending' = Drained /\ written' = 0 /\ isOpen' = FALSE /\ cmds' = cmds
  BY DEF Recover
<1>3. /\ pending' \in Seq(1..MaxItems) /\ Len(pending') = Len(pending) - written
      /\ \A k \in 1..Len(pending') : pending'[k] = pending[k + written]
  BY <1>1, <1>2, DrainedFacts
<1>4. Count' = Count
  BY <1>1, <1>2, <1>3 DEF Count
<1>5. cmd \in Commands /\ cmd.at <= Count /\ Count <= Len(accepted) /\ phase = "live"
  BY DEF RecInv, InHand, Placed, RecTypeOK
<1>6. cmd.at <= Len(accepted)
  BY <1>1, <1>5, CountFacts, CommandFacts DEF RecInv
<1>7. /\ calls' \in [Clients -> {"idle", "recorded", "waiting"}]
      /\ promised' \subseteq 1..MaxItems
      /\ UNCHANGED <<phase, lives, accepted, recorded>>
      /\ \/ attempt' = 2 /\ wpc' = "open" /\ cmd' = cmd
         \/ attempt' = 1 /\ wpc' = "recv" /\ cmd' = NoCmd
  <2>1. CASE attempt = 1
    BY <1>1, <2>1 DEF Recover, lifeVars
  <2>2. CASE attempt # 1
    <3>1. Answer(cmd, FALSE)
      BY <2>2 DEF Recover
    <3> QED
      BY <1>5, <1>6, <3>1, AnswerFacts
  <2> QED
    BY <2>1, <2>2
<1>8. RecTypeOK'
  <2>1. written' \in 0..Len(pending')
    BY <1>1, <1>2, <1>3
  <2>2. cmd' \in Commands \cup {NoCmd} /\ attempt' \in {1, 2}
        /\ wpc' \in {"recv", "open", "meta", "items"}
    BY <1>5, <1>7
  <2> QED
    BY <1>2, <1>3, <1>7, <2>1, <2>2 DEF RecInv, RecTypeOK
<1>9. Placed'
  <2>1. \A j \in written + 1..Len(pending) :
           pending[j] = accepted[Len(lines) + (j - written)]
    BY DEF RecInv, Placed
  <2>2. ASSUME NEW k \in written' + 1..Len(pending')
        PROVE  pending'[k] = accepted[Len(lines) + (k - written')]
    <3>1. /\ k \in 1..Len(pending') /\ k + written \in written + 1..Len(pending)
          /\ k - written' = (k + written) - written
      BY <1>1, <1>2, <1>3
    <3>2. pending[k + written] = accepted[Len(lines) + ((k + written) - written)]
      BY <2>1, <3>1
    <3> QED
      BY <1>3, <3>1, <3>2
  <2>3. lines' = lines /\ accepted' = accepted
    BY <1>7
  <2>4. Count' <= Len(accepted') /\ \A k \in 1..Len(lines') : lines'[k].item = accepted'[k]
    BY <1>4, <2>3 DEF RecInv, Placed
  <2> QED
    BY <2>2, <2>3, <2>4 DEF Placed
<1>10. Queued'
  BY <1>2, <1>4, <1>7 DEF RecInv, Queued
<1>11. InHand' /\ MetaKept'
  BY <1>4, <1>5, <1>7 DEF RecInv, InHand, MetaKept
<1> QED
  BY <1>8, <1>9, <1>10, <1>11 DEF RecInv

\* Steps that only touch the metadata, the handle and the program counter.
LEMMA MetaStepKeeps ==
    ASSUME RecInv, UNCHANGED <<cmds, cmd, attempt, pending, written, lines, calls, phase,
                               lives, recorded, accepted, promised>>,
           wpc' \in {"recv", "open", "meta", "items"}, wpc = "recv" => wpc' = "recv",
           isOpen' \in BOOLEAN, deferred' \in BOOLEAN, needMeta' \in BOOLEAN,
           torn' \in BOOLEAN, faults' \in 0..MaxFaults, metas' \in Seq(Metas), MetaKept'
    PROVE  RecInv'
<1>1. Count' = Count
  BY DEF Count
<1>2. RecTypeOK'
  BY DEF RecInv, RecTypeOK
<1>3. Placed' /\ Queued' /\ InHand'
  BY <1>1 DEF RecInv, Placed, Queued, InHand
<1> QED
  BY <1>2, <1>3 DEF RecInv

\* A line of metadata, of the writer or of append_rollout_item_to_path: the first one
\* of a file precedes its items.
LEMMA WriteMetaFacts ==
    ASSUME RecInv, WriteMeta
    PROVE  /\ metas' \in Seq(Metas) /\ metas' # << >> /\ torn' \in BOOLEAN
           /\ faults' \in 0..MaxFaults /\ lines' = lines
           /\ metas'[1].at = 0
<1>1. metas \in Seq(Metas) /\ torn \in BOOLEAN /\ Len(lines) \in Nat /\ faults \in 0..MaxFaults
  BY DEF RecInv, RecTypeOK
<1> DEFINE l == [at |-> Len(lines), ok |-> ~torn]
<1>2. l \in Metas /\ l.at = Len(lines) /\ metas' = Append(metas, l)
  BY <1>1 DEF Metas, WriteMeta
<1> HIDE DEF l
<1>3. /\ metas' \in Seq(Metas) /\ metas' # << >>
      /\ \A k \in 1..Len(metas) : metas'[k] = metas[k]
      /\ metas'[Len(metas) + 1] = l
  BY <1>1, <1>2, AppendFacts
<1>4. metas'[1].at = 0
  <2>1. CASE metas = << >>
    <3>1. Len(lines) = 0 /\ Len(metas) = 0
      BY <2>1 DEF RecInv, MetaKept
    <3> QED
      BY <1>2, <1>3, <3>1
  <2>2. CASE metas # << >>
    <3>1. metas[1].at = 0
      BY <2>2 DEF RecInv, MetaKept, RecTypeOK
    <3>2. 1 \in 1..Len(metas)
      BY <1>1, <2>2
    <3> QED
      BY <1>3, <3>1, <3>2
  <2> QED
    BY <2>1, <2>2
<1> QED
  BY <1>1, <1>3, <1>4 DEF WriteMeta

------------------------------------------------------------------------------
(* The writer task.                                                        *)

\* rx.recv() moves an item from the channel behind the pending ones, or takes a
\* barrier up.
LEMMA RecvKeeps ==
    ASSUME RecInv, RecvAdd \/ RecvBarrier
    PROVE  RecInv'
<1> DEFINE m == Head(cmds)
<1>1. /\ cmds # << >> /\ phase = "live" /\ cmds' = Tail(cmds)
      /\ UNCHANGED <<attempt, isOpen, deferred, needMeta, written, lines, metas, torn, calls,
                     phase, lives, recorded, faults, accepted, promised>>
  BY DEF RecvAdd, RecvBarrier, fileVars, lifeVars, history
<1>2. /\ cmds \in Seq(Commands) /\ pending \in Seq(1..MaxItems) /\ written \in 0..Len(pending)
      /\ accepted \in Seq(1..MaxItems) /\ Count \in Nat
      /\ Len(lines) \in Nat /\ Len(pending) \in Nat /\ Len(accepted) \in Nat
  BY CountFacts DEF RecInv, RecTypeOK
<1>3. m \in Commands /\ cmds' \in Seq(Commands)
  BY <1>1, <1>2, TailFacts
<1>4. /\ m.op = "add" =>
            m.at = Count + 1 /\ Count + 1 <= Len(accepted) /\ m.arg = accepted[Count + 1]
      /\ m.op # "add" => m.at = Count
      /\ m.op = "add" => m.arg \in 1..MaxItems
  BY <1>1, <1>3, HeadFacts, CommandFacts
<1>5. m.op = "add" \/ (m.op # "add" /\ pending' = pending)
  BY <1>3, CommandFacts DEF RecvAdd, RecvBarrier
<1>6. /\ wpc' \in {"recv", "open"} /\ cmd' \in {cmd, m}
      /\ wpc' # "recv" => cmd' = m
      /\ m.op = "add" => pending' = Append(pending, m.arg)
  BY CommandFacts DEF RecvAdd, RecvBarrier, Barriers
<1> HIDE DEF m
<1>7. CASE m.op = "add"
  <2>1. /\ pending' \in Seq(1..MaxItems) /\ Len(pending') = Len(pending) + 1
        /\ \A k \in 1..Len(pending) : pending'[k] = pending[k]
        /\ pending'[Len(pending) + 1] = m.arg
    <3>1. m.arg \in 1..MaxItems /\ pending' = Append(pending, m.arg)
      BY <1>4, <1>6, <1>7
    <3> QED
      BY <1>2, <3>1, AppendFacts
  <2>2. Count' = Count + 1
    BY <1>1, <1>2, <2>1 DEF Count
  <2>3. RecTypeOK'
    <3>1. written' \in 0..Len(pending') /\ cmd' \in Commands \cup {NoCmd}
          /\ wpc' \in {"recv", "open", "meta", "items"}
      BY <1>1, <1>2, <1>3, <1>6, <2>1 DEF RecInv, RecTypeOK
    <3> QED
      BY <1>1, <1>3, <2>1, <3>1 DEF RecInv, RecTypeOK
  <2>4. Placed'
    <3>1. /\ \A k \in 1..Len(lines) : lines[k].item = accepted[k]
          /\ \A k \in written + 1..Len(pending) :
                 pending[k] = accepted[Len(lines) + (k - written)]
      BY DEF RecInv, Placed
    <3>2. ASSUME NEW k \in written + 1..Len(pending')
          PROVE  pending'[k] = accepted[Len(lines) + (k - written)]
      <4>1. CASE k \in written + 1..Len(pending)
        BY <1>2, <2>1, <3>1, <4>1
      <4>2. CASE k = Len(pending) + 1
        <5>1. Len(lines) + (k - written) = Count + 1
          BY <1>2, <4>2 DEF Count
        <5> QED
          BY <1>4, <1>7, <2>1, <4>2, <5>1
      <4> QED
        BY <1>2, <2>1, <4>1, <4>2
    <3>3. Count' <= Len(accepted')
      BY <1>1, <1>4, <1>7, <2>2
    <3> QED
      BY <1>1, <3>1, <3>2, <3>3 DEF Placed
  <2>5. Queued'
    BY <1>1, <1>7, <2>2, TailKeeps DEF m
  <2>6. InHand' /\ MetaKept'
    BY <1>1, <1>2, <1>3, <1>4, <1>6, <1>7, <2>2 DEF RecInv, InHand, MetaKept
  <2> QED
    BY <2>3, <2>4, <2>5, <2>6 DEF RecInv
<1>8. CASE m.op # "add" /\ pending' = pending
  <2>1. Count' = Count
    BY <1>1, <1>8 DEF Count
  <2>2. RecTypeOK'
    <3>1. cmd' \in Commands \cup {NoCmd} /\ wpc' \in {"recv", "open", "meta", "items"}
      BY <1>3, <1>6 DEF RecInv, RecTypeOK
    <3> QED
      BY <1>1, <1>3, <1>8, <3>1 DEF RecInv, RecTypeOK
  <2>3. Placed'
    BY <1>1, <1>8, <2>1 DEF RecInv, Placed
  <2>4. Queued'
    BY <1>1, <1>8, <2>1, TailKeeps DEF m
  <2>5. InHand' /\ MetaKept'
    BY <1>1, <1>2, <1>3, <1>4, <1>6, <1>8, <2>1 DEF RecInv, InHand, MetaKept
  <2> QED
    BY <2>2, <2>3, <2>4, <2>5 DEF RecInv
<1> QED
  BY <1>5, <1>7, <1>8

\* Whatever ends the recorder in an orderly way: Stop drops what is not written.
LEMMA StopKeeps ==
    ASSUME RecInv, Stop(Written), UNCHANGED <<fileVars, faults>>,
           promised' \subseteq 1..MaxItems
    PROVE  RecInv'
<1>1. calls' \in [Clients -> {"idle", "recorded", "waiting"}]
  BY DEF Stop, RecInv, RecTypeOK
<1>2. torn' \in BOOLEAN /\ UNCHANGED <<deferred, needMeta, lines, metas, lives, recorded, faults>>
  BY DEF Stop, fileVars, RecInv, RecTypeOK
<1> QED
  BY <1>1, <1>2, GoneKeeps DEF Stop

\* A shutdown that was answered ends the writer.
LEMMA AnswerAndStopKeeps ==
    ASSUME RecInv, NEW m \in Commands, m.at <= Len(accepted), AnswerAndStop(m),
           UNCHANGED <<fileVars, faults>>
    PROVE  RecInv'
<1>1. m.at \in Nat
  BY CommandFacts
<1>2. promised' \subseteq 1..MaxItems
  BY <1>1, PromiseFacts DEF AnswerAndStop
<1> QED
  BY <1>2, StopKeeps DEF AnswerAndStop

\* A flush or shutdown of a deferred file without items is answered at once.
LEMMA NothingToDoKeeps ==
    ASSUME RecInv, RecvNothingToDo
    PROVE  RecInv'
<1> DEFINE m == Head(cmds)
<1>1. /\ cmds # << >> /\ m.op # "add" /\ phase = "live" /\ pending = << >>
      /\ UNCHANGED <<lines, metas, torn, faults>>
  BY DEF RecvNothingToDo, fileVars
<1>2. m \in Commands /\ Tail(cmds) \in Seq(Commands)
  BY <1>1, TailFacts DEF RecInv, RecTypeOK
<1>3. m.at = Count /\ m.at <= Len(accepted)
  BY <1>1, HeadFacts DEF RecInv, Placed
<1>4. CASE AnswerAndStop(m)
  BY <1>1, <1>2, <1>3, <1>4, AnswerAndStopKeeps DEF fileVars
<1>5. CASE /\ cmds' = Tail(cmds) /\ Answer(m, TRUE)
           /\ UNCHANGED <<isOpen, deferred, needMeta, pending, written>>
  <2>1. /\ calls' \in [Clients -> {"idle", "recorded", "waiting"}]
        /\ promised' \subseteq 1..MaxItems
        /\ cmd' = NoCmd /\ wpc' = "recv" /\ attempt' = 1
        /\ UNCHANGED <<phase, lives, accepted, recorded>>
    BY <1>2, <1>3, <1>5, AnswerFacts
  <2>2. Count' = Count
    BY <1>1, <1>5 DEF Count
  <2>3. RecTypeOK'
    BY <1>1, <1>2, <1>5, <2>1 DEF RecInv, RecTypeOK
  <2>4. Placed'
    BY <1>1, <1>5, <2>1, <2>2 DEF RecInv, Placed
  <2>5. Queued'
    BY <1>1, <1>5, <2>1, <2>2, TailKeeps
  <2>6. InHand' /\ MetaKept'
    BY <1>1, <1>5, <2>1 DEF RecInv, InHand, MetaKept
  <2> QED
    BY <2>3, <2>4, <2>5, <2>6 DEF RecInv
<1> QED
  BY <1>4, <1>5 DEF RecvNothingToDo

\* ensure_writer_open opens the file or counts as a failed attempt.
LEMMA OpenKeeps ==
    ASSUME RecInv, EnsureWriterOpen
    PROVE  RecInv'
<1>1. wpc = "open" /\ UNCHANGED <<needMeta, lines, metas, torn>>
  BY DEF EnsureWriterOpen, fileVars
<1>2. CASE Recover /\ faults < MaxFaults /\ faults' = faults + 1 /\ UNCHANGED deferred
  <2>1. faults' \in 0..MaxFaults
    BY <1>2, RolloutAssumption DEF RecInv, RecTypeOK
  <2>2. torn' \in BOOLEAN
    BY <1>1 DEF RecInv, RecTypeOK
  <2> QED
    BY <1>1, <1>2, <2>1, <2>2, RecoverKeeps
<1>3. CASE /\ isOpen' = TRUE /\ deferred' = (deferred /\ isOpen) /\ wpc' = "meta"
           /\ UNCHANGED <<cmds, cmd, attempt, pending, written, faults, calls,
                          lifeVars, recorded, history>>
  <2>1. /\ torn' \in BOOLEAN /\ faults' \in 0..MaxFaults /\ metas' \in Seq(Metas)
        /\ needMeta' \in BOOLEAN
    BY <1>1, <1>3 DEF RecInv, RecTypeOK
  <2>2. isOpen' \in BOOLEAN /\ deferred' \in BOOLEAN
    BY <1>3 DEF RecInv, RecTypeOK
  <2>3. MetaKept'
    BY <1>1, <1>3 DEF RecInv, MetaKept
  <2> QED
    BY <1>1, <1>3, <2>1, <2>2, <2>3, MetaStepKeeps DEF lifeVars, history
<1> QED
  BY <1>2, <1>3 DEF EnsureWriterOpen

\* write_session_meta keeps the metadata until its line is written.
LEMMA MetaKeeps ==
    ASSUME RecInv, WriteSessionMeta
    PROVE  RecInv'
<1>1. wpc = "meta" /\ deferred' = deferred
  BY DEF WriteSessionMeta
<1>2. CASE needMeta /\ FailedWrite /\ Recover /\ UNCHANGED needMeta
  <2>1. faults' \in 0..MaxFaults
    BY <1>2, RolloutAssumption DEF FailedWrite, RecInv, RecTypeOK
  <2>2. torn' \in BOOLEAN /\ UNCHANGED <<lines, metas>>
    BY <1>2 DEF FailedWrite, RecInv, RecTypeOK
  <2> QED
    BY <1>1, <1>2, <2>1, <2>2, RecoverKeeps
<1>3. CASE /\ IF needMeta THEN WriteMeta ELSE UNCHANGED <<fileVars, faults>>
           /\ needMeta' = FALSE /\ wpc' = "items"
           /\ UNCHANGED <<cmds, cmd, attempt, isOpen, pending, written, calls,
                          lifeVars, recorded, history>>
  <2>1. /\ metas' \in Seq(Metas) /\ metas' # << >> /\ metas'[1].at = 0 /\ torn' \in BOOLEAN
        /\ faults' \in 0..MaxFaults /\ lines' = lines
    <3>1. CASE needMeta
      BY <1>3, <3>1, WriteMetaFacts
    <3>2. CASE ~needMeta
      BY <1>3, <3>2 DEF fileVars, RecInv, RecTypeOK, MetaKept
    <3> QED
      BY <3>1, <3>2
  <2>2. isOpen' \in BOOLEAN /\ deferred' \in BOOLEAN /\ needMeta' \in BOOLEAN
    BY <1>1, <1>3 DEF RecInv, RecTypeOK
  <2>3. MetaKept'
    BY <1>3, <2>1 DEF MetaKept
  <2> QED
    BY <1>1, <1>3, <2>1, <2>2, <2>3, MetaStepKeeps DEF lifeVars, history
<1> QED
  BY <1>2, <1>3 DEF WriteSessionMeta

\* A line written is the next accepted item.
LEMMA WriteItemFacts ==
    ASSUME RecInv, wpc = "items", written < Len(pending), WriteLine(pending[written + 1])
    PROVE  /\ lines' \in Seq(Lines) /\ Len(lines') = Len(lines) + 1
           /\ \A k \in 1..Len(lines) : lines'[k] = lines[k]
           /\ lines'[Len(lines) + 1].item = accepted[Len(lines) + 1]
           /\ Len(lines) + 1 <= Len(accepted)
           /\ torn' \in BOOLEAN /\ UNCHANGED <<metas, faults>>
<1>1. /\ lines \in Seq(Lines) /\ pending \in Seq(1..MaxItems) /\ torn \in BOOLEAN
      /\ written \in Nat /\ Len(pending) \in Nat /\ Len(lines) \in Nat /\ Len(accepted) \in Nat
  BY CountFacts DEF RecInv, RecTypeOK
<1>2. written + 1 \in 1..Len(pending) /\ written + 1 \in written + 1..Len(pending)
  BY <1>1
<1>3. pending[written + 1] \in 1..MaxItems
  BY <1>1, <1>2, ElementOfSeq
<1>4. /\ pending[written + 1] = accepted[Len(lines) + ((written + 1) - written)]
      /\ Len(lines) + (Len(pending) - written) <= Len(accepted)
  BY <1>2 DEF RecInv, Placed, Count
<1>5. (written + 1) - written = 1 /\ Len(lines) + 1 <= Len(accepted)
  BY <1>1, <1>4
<1> DEFINE l == [item |-> pending[written + 1], ok |-> ~torn]
<1>6. l \in Lines /\ l.item = pending[written + 1] /\ lines' = Append(lines, l)
  BY <1>1, <1>3 DEF Lines, WriteLine
<1> HIDE DEF l
<1>7. /\ lines' \in Seq(Lines) /\ Len(lines') = Len(lines) + 1
      /\ \A k \in 1..Len(lines) : lines'[k] = lines[k]
      /\ lines'[Len(lines) + 1] = l
  BY <1>1, <1>6, AppendFacts
<1>8. lines'[Len(lines) + 1].item = accepted[Len(lines) + 1]
  BY <1>4, <1>5, <1>6, <1>7
<1>9. torn' \in BOOLEAN /\ UNCHANGED <<metas, faults>>
  BY DEF WriteLine
<1> QED
  BY <1>5, <1>7, <1>8, <1>9

\* write_line moves one item from pending_items to the file, or fails.
LEMMA ItemKeeps ==
    ASSUME RecInv, WriteItem
    PROVE  RecInv'
<1>1. wpc = "items" /\ written < Len(pending) /\ UNCHANGED <<deferred, needMeta>>
  BY DEF WriteItem
<1>2. CASE FailedWrite /\ Recover
  <2>1. faults' \in 0..MaxFaults
    BY <1>2, RolloutAssumption DEF FailedWrite, RecInv, RecTypeOK
  <2>2. torn' \in BOOLEAN /\ UNCHANGED <<lines, metas>>
    BY <1>2 DEF FailedWrite, RecInv, RecTypeOK
  <2> QED
    BY <1>1, <1>2, <2>1, <2>2, RecoverKeeps
<1>3. CASE /\ WriteLine(pending[written + 1]) /\ written' = written + 1
           /\ UNCHANGED <<cmds, cmd, wpc, attempt, isOpen, pending, calls, lifeVars,
                          recorded, history>>
  <2>1. /\ lines' \in Seq(Lines) /\ Len(lines') = Len(lines) + 1
        /\ \A k \in 1..Len(lines) : lines'[k] = lines[k]
        /\ lines'[Len(lines) + 1].item = accepted[Len(lines) + 1]
        /\ torn' \in BOOLEAN /\ UNCHANGED <<metas, faults>>
    BY <1>1, <1>3, WriteItemFacts
  <2>2. /\ written \in 0..Len(pending) /\ written \in Nat /\ Len(pending) \in Nat
        /\ Len(lines) \in Nat /\ Count \in Nat
    BY CountFacts DEF RecInv, RecTypeOK
  <2>3. Count' = Count /\ written' \in 0..Len(pending)
    BY <1>1, <1>3, <2>1, <2>2 DEF Count
  <2>4. RecTypeOK'
    BY <1>1, <1>3, <2>1, <2>3 DEF RecInv, RecTypeOK, lifeVars, history
  <2>5. UNCHANGED <<accepted, pending, cmds, cmd, phase, wpc>>
    BY <1>3 DEF lifeVars, history
  <2>6. Placed'
    <3>1. ASSUME NEW k \in 1..Len(lines')
          PROVE  lines'[k].item = accepted[k]
      <4>1. CASE k \in 1..Len(lines)
        BY <2>1, <4>1 DEF RecInv, Placed
      <4>2. CASE k = Len(lines) + 1
        BY <2>1, <4>2
      <4> QED
        BY <2>1, <2>2, <4>1, <4>2
    <3>2. ASSUME NEW k \in written' + 1..Len(pending)
          PROVE  pending[k] = accepted[Len(lines') + (k - written')]
      <4>1. /\ k \in written + 1..Len(pending)
            /\ Len(lines') + (k - written') = Len(lines) + (k - written)
        BY <1>3, <2>1, <2>2
      <4> QED
        BY <4>1 DEF RecInv, Placed
    <3>3. Count' <= Len(accepted)
      BY <2>3 DEF RecInv, Placed
    <3> QED
      BY <2>5, <3>1, <3>2, <3>3 DEF Placed
  <2>7. Queued'
    BY <2>3, <2>5 DEF RecInv, Queued
  <2>8. InHand'
    BY <2>3, <2>5 DEF RecInv, InHand
  <2>9. MetaKept'
    BY <1>1, <2>1, <2>5 DEF RecInv, MetaKept
  <2> QED
    BY <2>4, <2>6, <2>7, <2>8, <2>9 DEF RecInv
<1> QED
  BY <1>2, <1>3 DEF WriteItem

\* When everything pending is written the command is answered.
LEMMA FinishKeeps ==
    ASSUME RecInv, FinishWrite
    PROVE  RecInv'
<1>1. wpc = "items" /\ written = Len(pending) /\ UNCHANGED <<fileVars, faults>>
  BY DEF FinishWrite
<1>2. /\ cmd \in Commands /\ cmd.at <= Count /\ Count <= Len(accepted) /\ phase = "live"
      /\ Len(lines) \in Nat /\ Len(pending) \in Nat /\ Count \in Nat /\ Len(accepted) \in Nat
  BY <1>1, CountFacts DEF RecInv, InHand, Placed, RecTypeOK
<1>3. cmd.at <= Len(accepted)
  BY <1>2, CommandFacts
<1>4. CASE AnswerAndStop(cmd)
  BY <1>1, <1>2, <1>3, <1>4, AnswerAndStopKeeps
<1>5. CASE /\ pending' = << >> /\ written' = 0 /\ Answer(cmd, TRUE)
           /\ UNCHANGED <<cmds, isOpen, deferred, needMeta>>
  <2>1. /\ calls' \in [Clients -> {"idle", "recorded", "waiting"}]
        /\ promised' \subseteq 1..MaxItems
        /\ cmd' = NoCmd /\ wpc' = "recv" /\ attempt' = 1
        /\ UNCHANGED <<phase, lives, accepted, recorded, lines, metas, torn, faults>>
    BY <1>1, <1>2, <1>3, <1>5, AnswerFacts DEF fileVars
  <2>2. Count' = Count
    BY <1>1, <1>2, <1>5, <2>1 DEF Count
  <2>3. RecTypeOK'
    <3>1. pending' \in Seq(1..MaxItems) /\ written' \in 0..Len(pending')
      BY <1>5
    <3> QED
      BY <1>5, <2>1, <3>1 DEF RecInv, RecTypeOK
  <2>4. Placed'
    BY <1>5, <2>1, <2>2 DEF RecInv, Placed
  <2>5. Queued'
    BY <1>5, <2>1, <2>2 DEF RecInv, Queued
  <2>6. InHand' /\ MetaKept'
    BY <1>2, <1>5, <2>1 DEF RecInv, InHand, MetaKept
  <2> QED
    BY <2>3, <2>4, <2>5, <2>6 DEF RecInv
<1> QED
  BY <1>4, <1>5 DEF FinishWrite

------------------------------------------------------------------------------
(* The rest of the process, and its end.                                   *)

\* Metadata written behind the back of the writer, discard, a crash and a resume.
LEMMA OthersKeep ==
    ASSUME RecInv, AppendMetadata \/ Discard \/ Crash \/ Resume
    PROVE  RecInv'
<1>1. CASE AppendMetadata
  <2>1. UNCHANGED <<cmds, cmd, wpc, attempt, isOpen, deferred, needMeta, pending, written,
                    calls, phase, lives, recorded, accepted, promised>>
    BY <1>1 DEF AppendMetadata, writerVars, lifeVars, history
  <2>2. metas # << >> /\ ~needMeta
    BY <1>1 DEF AppendMetadata, Loadable, RecInv, MetaKept, RecTypeOK
  <2>3. /\ metas' \in Seq(Metas) /\ metas' # << >> /\ metas'[1].at = 0 /\ torn' \in BOOLEAN
        /\ faults' \in 0..MaxFaults /\ lines' = lines
    <3>1. CASE WriteMeta
      BY <3>1, WriteMetaFacts
    <3>2. CASE FailedWrite
      <4>1. faults' \in 0..MaxFaults
        BY <3>2, RolloutAssumption DEF FailedWrite, RecInv, RecTypeOK
      <4> QED
        BY <2>2, <3>2, <4>1 DEF FailedWrite, RecInv, RecTypeOK, MetaKept
    <3> QED
      BY <1>1, <3>1, <3>2 DEF AppendMetadata
  <2>4. MetaKept'
    BY <2>1, <2>2, <2>3 DEF MetaKept
  <2>5. /\ isOpen' \in BOOLEAN /\ deferred' \in BOOLEAN /\ needMeta' \in BOOLEAN
        /\ wpc' \in {"recv", "open", "meta", "items"}
    BY <2>1 DEF RecInv, RecTypeOK
  <2> QED
    BY <2>1, <2>3, <2>4, <2>5, MetaStepKeeps
<1>2. CASE Discard
  <2>1. promised' \subseteq 1..MaxItems
    BY <1>2 DEF Discard, RecInv, RecTypeOK
  <2> QED
    BY <1>2, <2>1, StopKeeps DEF Discard
<1>3. CASE Crash
  <2>1. torn' \in BOOLEAN
    BY <1>3 DEF Crash, RecInv, RecTypeOK
  <2>2. promised' \subseteq 1..MaxItems /\ calls' \in [Clients -> {"idle", "recorded", "waiting"}]
    BY <1>3 DEF Crash, RecInv, RecTypeOK
  <2> QED
    BY <1>3, <2>1, <2>2, GoneKeeps DEF Crash
<1>4. CASE Resume
  <2>1. UNCHANGED <<cmds, cmd, wpc, attempt, pending, written, lines, metas, torn, calls,
                    recorded, faults, accepted, promised>>
    BY <1>4 DEF Resume, fileVars, history
  <2>2. lives' \in 1..MaxLives /\ phase' = "live"
    BY <1>4, RolloutAssumption DEF Resume, RecInv, RecTypeOK
  <2>3. isOpen' \in BOOLEAN /\ deferred' \in BOOLEAN /\ needMeta' \in BOOLEAN
    BY <1>4 DEF Resume
  <2>4. RecTypeOK'
    BY <2>1, <2>2, <2>3 DEF RecInv, RecTypeOK
  <2>5. Count' = Count
    BY <2>1 DEF Count
  <2>6. Placed' /\ Queued'
    BY <2>1, <2>5 DEF RecInv, Placed, Queued
  <2>7. wpc = "recv"
    BY <1>4 DEF Resume, RecInv, InHand
  <2>8. InHand'
    BY <2>1, <2>2, <2>7 DEF InHand
  <2>9. metas # << >>
    BY <1>4 DEF Resume, Loadable, RecInv, RecTypeOK
  <2>10. metas[1].at = 0
    BY <2>9 DEF RecInv, MetaKept, RecTypeOK
  <2>11. MetaKept'
    BY <1>4, <2>1, <2>7, <2>9, <2>10 DEF Resume, MetaKept
  <2> QED
    BY <2>4, <2>6, <2>8, <2>11 DEF RecInv
<1> QED
  BY <1>1, <1>2, <1>3, <1>4

\* No step of any actor breaks the invariant.
LEMMA RecNextKeeps == RecInv /\ [RecNext]_rvars => RecInv'
<1> SUFFICES ASSUME RecInv, [RecNext]_rvars PROVE RecInv'
  OBVIOUS
<1>1. CASE UNCHANGED rvars
  <2>1. Count' = Count
    BY <1>1 DEF rvars, Count
  <2>2. RecTypeOK'
    BY <1>1 DEF rvars, RecInv, RecTypeOK
  <2>3. Placed' /\ Queued' /\ InHand' /\ MetaKept'
    BY <1>1, <2>1 DEF rvars, RecInv, Placed, Queued, InHand, MetaKept
  <2> QED
    BY <2>2, <2>3 DEF RecInv
<1>2. CASE RecNext
  BY <1>2, CallersKeep, RecvKeeps, NothingToDoKeeps, OpenKeeps, MetaKeeps, ItemKeeps,
     FinishKeeps, OthersKeep DEF RecNext
<1> QED
  BY <1>1, <1>2

\* The file, the unwritten items and the channel agree at every step, over any number
\* of failures, retries, crashes and resumes.
THEOREM RecorderInvariant == RecSpec => []RecInv
<1> QED
  BY InitRec, RecNextKeeps, PTL DEF RecSpec

\* The sequence the invariant describes item by item.
LEMMA ReceivedFacts ==
    ASSUME RecInv
    PROVE  Received = SubSeq(accepted, 1, Len(Received)) /\ Len(Received) = Count
<1>1. /\ lines \in Seq(Lines) /\ pending \in Seq(1..MaxItems) /\ written \in 0..Len(pending)
      /\ accepted \in Seq(1..MaxItems) /\ Len(accepted) \in Nat /\ Len(lines) \in Nat
      /\ Len(pending) \in Nat /\ written \in Nat /\ Count \in Nat
  BY CountFacts DEF RecInv, RecTypeOK
<1>2. /\ Written \in Seq(1..MaxItems) /\ Len(Written) = Len(lines)
      /\ \A k \in 1..Len(lines) : Written[k] = lines[k].item
  BY <1>1, WrittenFacts
<1>3. /\ Drained \in Seq(1..MaxItems) /\ Len(Drained) = Len(pending) - written
      /\ \A k \in 1..Len(Drained) : Drained[k] = pending[k + written]
  BY <1>1, DrainedFacts
<1>4. /\ Received \in Seq(1..MaxItems) /\ Len(Received) = Len(Written) + Len(Drained)
      /\ \A i \in 1..Len(Written) + Len(Drained) :
             Received[i] = IF i <= Len(Written) THEN Written[i] ELSE Drained[i - Len(Written)]
  <2> DEFINE S == 1..MaxItems
  <2>1. Written \in Seq(S) /\ Drained \in Seq(S)
    BY <1>2, <1>3
  <2> HIDE DEF S
  <2>2. /\ Written \o Drained \in Seq(S)
        /\ Len(Written \o Drained) = Len(Written) + Len(Drained)
        /\ \A i \in 1..Len(Written) + Len(Drained) :
               (Written \o Drained)[i] =
                   IF i <= Len(Written) THEN Written[i] ELSE Drained[i - Len(Written)]
    BY <2>1, ConcatProperties
  <2> QED
    BY <2>2 DEF Received, S
<1>5. Len(Received) = Count
  BY <1>1, <1>2, <1>3, <1>4 DEF Count
<1>6. Count <= Len(accepted)
  BY DEF RecInv, Placed
<1>7. ASSUME NEW i \in 1..Count
      PROVE  Received[i] = accepted[i]
  <2>1. CASE i <= Len(lines)
    <3>1. Received[i] = lines[i].item /\ i \in 1..Len(lines)
      BY <1>1, <1>2, <1>3, <1>4, <1>5, <2>1
    <3> QED
      BY <3>1 DEF RecInv, Placed
  <2>2. CASE ~(i <= Len(lines))
    <3> DEFINE j == i - Len(lines)
    <3>1. j \in 1..Len(Drained) /\ j + written \in written + 1..Len(pending)
      BY <1>1, <1>3, <2>2 DEF Count
    <3>2. Received[i] = pending[j + written]
      BY <1>1, <1>2, <1>3, <1>4, <1>5, <2>2, <3>1
    <3>3. pending[j + written] = accepted[Len(lines) + ((j + written) - written)]
      BY <3>1 DEF RecInv, Placed
    <3>4. Len(lines) + ((j + written) - written) = i
      BY <1>1
    <3> QED
      BY <3>2, <3>3, <3>4
  <2> QED
    BY <2>1, <2>2
<1>8. /\ SubSeq(accepted, 1, Count) \in Seq(1..MaxItems)
      /\ Len(SubSeq(accepted, 1, Count)) = Count
      /\ \A i \in 1..Count : SubSeq(accepted, 1, Count)[i] = accepted[i]
  BY <1>1, <1>6, SubPrefixFacts
<1>9. Received = SubSeq(accepted, 1, Count)
  <2>1. Len(Received) = Len(SubSeq(accepted, 1, Count))
    BY <1>5, <1>8
  <2>2. \A i \in 1..Len(Received) : Received[i] = SubSeq(accepted, 1, Count)[i]
    BY <1>5, <1>7, <1>8
  <2> QED
    BY <1>4, <1>8, <2>1, <2>2, SeqEqual
<1> QED
  BY <1>5, <1>9

\* Every accepted item is in exactly one place and in order: in the file, in the
\* unwritten suffix of pending_items, or in the channel, however often
\* write_pending_with_recovery fails and retries.
THEOREM NothingIsDropped == RecSpec => []NothingDropped
<1>1. RecInv => NothingDropped
  <2> SUFFICES ASSUME RecInv PROVE NothingDropped
    OBVIOUS
  <2>1. /\ Received = SubSeq(accepted, 1, Len(Received)) /\ Len(Received) = Count
        /\ Count \in Nat /\ Len(accepted) \in Nat /\ Len(cmds) \in Nat
    BY ReceivedFacts, CountFacts DEF RecInv
  <2>2. {cmds[k].at : k \in QueuedAdds} = Count + 1..Len(accepted)
    <3>1. \A k \in QueuedAdds : cmds[k].at \in Count + 1..Len(accepted)
      <4>1. \A k \in QueuedAdds : cmds[k].at \in Count..Len(accepted) /\ cmds[k].at > Count
        BY DEF RecInv, Queued, QueuedAdds
      <4> QED
        BY <2>1, <4>1
    <3>2. \A n \in Count + 1..Len(accepted) : \E k \in QueuedAdds : cmds[k].at = n
      BY DEF RecInv, Queued, QueuedAdds
    <3> QED
      BY <3>1, <3>2
  <2>3. /\ \A k \in QueuedAdds : cmds[k].arg = accepted[cmds[k].at]
        /\ \A j, k \in QueuedAdds : j < k => cmds[j].at < cmds[k].at
    BY DEF RecInv, Queued, QueuedAdds
  <2>4. Count <= Len(accepted)
    BY DEF RecInv, Placed
  <2> QED
    BY <2>1, <2>2, <2>3, <2>4 DEF NothingDropped
<1> QED
  BY <1>1, RecorderInvariant, PTL

\* The first line of a rollout is its session metadata, whatever fails first.
THEOREM MetadataFirst == RecSpec => []MetaFirst
<1>1. RecInv => MetaFirst
  BY DEF RecInv, RecTypeOK, MetaKept, MetaFirst
<1> QED
  BY <1>1, RecorderInvariant, PTL

------------------------------------------------------------------------------
(* The durable log.                                                        *)

logVars == <<accepted, Written, promised>>

\* A success for what the writer has written is a promise of the log.
LEMMA PromiseStep ==
    ASSUME RecInv, NEW n \in 0..Len(lines), lines' = lines,
           promised' = promised \cup {accepted[k] : k \in 1..n},
           accepted' \in {accepted, Written}
    PROVE  Log!LNext
<1>1. /\ lines \in Seq(Lines) /\ Len(lines) \in Nat
      /\ \A k \in 1..Len(lines) : lines[k].item = accepted[k]
  BY SMTT(30) DEF RecInv, RecTypeOK, Placed
<1>2. Len(Written) = Len(lines) /\ \A k \in 1..Len(lines) : Written[k] = lines[k].item
  BY <1>1, WrittenFacts
<1>3. {accepted[k] : k \in 1..n} = {Written[k] : k \in 1..n}
  BY <1>1, <1>2
<1>4. Written' = Written
  BY DEF Written
<1>5. Log!Promise(n) /\ n \in 0..Len(Written)
  BY <1>2, <1>3, <1>4 DEF Log!Promise
<1> QED
  BY <1>5 DEF Log!LNext

\* An answer promises what is written, or nothing.
LEMMA AnswerStep ==
    ASSUME RecInv, NEW m \in Commands, NEW ok \in BOOLEAN, Answer(m, ok), lines' = lines,
           ok => m.at <= Len(lines)
    PROVE  Log!LNext \/ UNCHANGED logVars
<1>1. m.at \in Nat /\ Len(lines) \in Nat
  BY CommandFacts DEF RecInv, RecTypeOK
<1>2. UNCHANGED <<accepted, Written>>
  BY DEF Answer, Written
<1>3. CASE promised' = promised
  BY <1>2, <1>3 DEF logVars
<1>4. CASE promised' # promised
  <2>1. ok /\ promised' = promised \cup {accepted[k] : k \in 1..m.at}
    BY <1>4 DEF Answer
  <2>2. m.at \in 0..Len(lines)
    BY <1>1, <2>1
  <2> QED
    BY <1>2, <2>1, <2>2, PromiseStep
<1> QED
  BY <1>3, <1>4

\* The retry or the error after a failed attempt commits and promises nothing.
LEMMA RecoverStep ==
    ASSUME RecInv, wpc # "recv", Recover, lines' = lines
    PROVE  UNCHANGED logVars
  BY DEF Recover, Answer, logVars, Written

\* Every step is a step of the log or leaves it as it is.
LEMMA RecStepRefines == RecInv /\ [RecNext]_rvars => [Log!LNext]_logVars
<1> SUFFICES ASSUME RecInv, [RecNext]_rvars PROVE Log!LNext \/ UNCHANGED logVars
  OBVIOUS
<1>1. /\ lines \in Seq(Lines) /\ Len(lines) \in Nat /\ Len(pending) \in Nat /\ written \in Nat
      /\ Len(accepted) \in Nat /\ Count \in Nat
  BY CountFacts DEF RecInv, RecTypeOK
<1>2. Len(Written) = Len(lines) /\ Written \in Seq(1..MaxItems)
      /\ \A k \in 1..Len(lines) : Written[k] = lines[k].item
  BY <1>1, WrittenFacts
<1>3. CASE UNCHANGED rvars
  BY <1>3 DEF rvars, logVars, Written
<1>4. ASSUME NEW c \in Clients, RecordItems(c)
      PROVE  Log!LNext
  <2>1. recorded + 1 \in 1..MaxItems
    BY <1>4, RolloutAssumption DEF RecordItems, RecInv, RecTypeOK
  <2>2. Log!Accept(recorded + 1)
    BY <1>4 DEF RecordItems, Log!Accept, Written, fileVars
  <2> QED
    BY <2>1, <2>2 DEF Log!LNext
<1>5. ASSUME NEW c \in Clients, (\E op \in Barriers : SendBarrier(c, op)) \/ SendFails(c)
      PROVE  UNCHANGED logVars
  BY <1>5 DEF SendBarrier, SendFails, history, fileVars, logVars, Written
<1>6. CASE RecvAdd \/ RecvBarrier \/ Resume
  BY <1>6 DEF RecvAdd, RecvBarrier, Resume, history, fileVars, logVars, Written
<1>7. ASSUME NEW m \in Commands, m.at <= Len(lines), AnswerAndStop(m), lines' = lines
      PROVE  Log!LNext
  <2>1. m.at \in 0..Len(lines)
    BY <1>1, <1>7, CommandFacts
  <2>2. /\ promised' = promised \cup {accepted[k] : k \in 1..m.at}
        /\ accepted' \in {accepted, Written}
    BY <1>7 DEF AnswerAndStop, Stop
  <2> QED
    BY <1>7, <2>1, <2>2, PromiseStep
<1>8. CASE RecvNothingToDo
  <2>1. /\ cmds # << >> /\ Head(cmds).op # "add" /\ pending = << >> /\ lines' = lines
    BY <1>8 DEF RecvNothingToDo, fileVars
  <2>2. Head(cmds) \in Commands
    BY <2>1, TailFacts DEF RecInv, RecTypeOK
  <2>3. Head(cmds).at <= Len(lines)
    BY <1>1, <2>1, HeadFacts DEF Count, RecInv, RecTypeOK
  <2>4. AnswerAndStop(Head(cmds)) \/ Answer(Head(cmds), TRUE)
    BY <1>8 DEF RecvNothingToDo
  <2> QED
    BY <1>7, <2>1, <2>2, <2>3, <2>4, AnswerStep
<1>9. CASE EnsureWriterOpen
  BY <1>9, RecoverStep DEF EnsureWriterOpen, history, fileVars, logVars, Written
<1>10. CASE WriteSessionMeta
  BY <1>10, RecoverStep DEF WriteSessionMeta, WriteMeta, FailedWrite, history, fileVars,
     logVars, Written
<1>11. CASE WriteItem
  <2>1. CASE FailedWrite /\ Recover
    BY <1>11, <2>1, RecoverStep DEF WriteItem, FailedWrite
  <2>2. CASE WriteLine(pending[written + 1]) /\ UNCHANGED <<accepted, promised>>
    <3>1. /\ lines' \in Seq(Lines) /\ Len(lines') = Len(lines) + 1
          /\ \A k \in 1..Len(lines) : lines'[k] = lines[k]
          /\ lines'[Len(lines) + 1].item = accepted[Len(lines) + 1]
          /\ Len(lines) + 1 <= Len(accepted)
      BY <1>11, <2>2, WriteItemFacts DEF WriteItem
    <3>2. /\ Written' \in Seq(1..MaxItems) /\ Len(Written') = Len(lines')
          /\ \A k \in 1..Len(lines') : Written'[k] = lines'[k].item
      <4>1. Written' = [k \in 1..Len(lines') |-> lines'[k].item]
        BY DEF Written
      <4> QED
        BY <3>1, <4>1, ItemsFacts
    <3> DEFINE x == accepted[Len(lines) + 1]
    <3>3. x \in 1..MaxItems
      <4>1. Len(lines) + 1 \in 1..Len(lines')
        BY <1>1, <3>1
      <4>2. Written'[Len(lines) + 1] \in 1..MaxItems
        BY <3>2, <4>1, ElementOfSeq
      <4> QED
        BY <3>1, <3>2, <4>1, <4>2
    <3> HIDE DEF x
    <3>4. /\ Append(Written, x) \in Seq(1..MaxItems)
          /\ Len(Append(Written, x)) = Len(lines) + 1
          /\ \A k \in 1..Len(lines) : Append(Written, x)[k] = Written[k]
          /\ Append(Written, x)[Len(lines) + 1] = x
      BY <1>2, <3>3, AppendFacts
    <3>5. ASSUME NEW k \in 1..Len(Written')
          PROVE  Written'[k] = Append(Written, x)[k]
      <4>1. CASE k \in 1..Len(lines)
        BY <1>1, <1>2, <3>1, <3>2, <3>4, <4>1
      <4>2. CASE k = Len(lines) + 1
        <5>1. Written'[Len(lines) + 1] = lines'[Len(lines) + 1].item
          BY <1>1, <3>1, <3>2
        <5> QED
          BY <3>1, <3>4, <4>2, <5>1 DEF x
      <4>3. Len(Written') = Len(lines) + 1
        BY <3>1, <3>2
      <4>4. k \in 1..Len(lines) \/ k = Len(lines) + 1
        BY <1>1, <4>3
      <4> QED
        BY <4>1, <4>2, <4>4
    <3>6. Written' = Append(Written, x)
      BY <3>1, <3>2, <3>4, <3>5, SeqEqual
    <3>7. Log!Commit
      BY <1>1, <1>2, <2>2, <3>1, <3>6 DEF Log!Commit, x
    <3> QED
      BY <3>7 DEF Log!LNext
  <2> QED
    BY <1>11, <2>1, <2>2 DEF WriteItem, history
<1>12. CASE FinishWrite
  <2>1. wpc = "items" /\ written = Len(pending) /\ lines' = lines
    BY <1>12 DEF FinishWrite, fileVars
  <2>2. cmd \in Commands /\ cmd.at <= Len(lines)
    BY <1>1, <2>1 DEF RecInv, InHand, Count
  <2>3. AnswerAndStop(cmd) \/ Answer(cmd, TRUE)
    BY <1>12 DEF FinishWrite
  <2> QED
    BY <1>7, <2>1, <2>2, <2>3, AnswerStep
<1>13. CASE AppendMetadata
  BY <1>13 DEF AppendMetadata, WriteMeta, FailedWrite, history, logVars, Written
<1>14. CASE Discard \/ Crash
  <2>1. accepted' = Written /\ UNCHANGED <<lines, promised>>
    BY <1>14 DEF Discard, Stop, Crash, fileVars
  <2>2. Log!Lose
    BY <2>1 DEF Log!Lose, Written
  <2> QED
    BY <2>2 DEF Log!LNext
<1> QED
  BY <1>3, <1>4, <1>5, <1>6, <1>8, <1>9, <1>10, <1>11, <1>12, <1>13, <1>14 DEF RecNext

\* The writer, its retries, crashes and resumes implement the log a session relies
\* on: items committed once and in order, success reported only for committed ones.
THEOREM LogRefinement == RecSpec => ImplementsDurableLog
<1>1. RecInit => Log!LInit
  BY DEF RecInit, Log!LInit, Written
<1>2. RecInv /\ [RecNext]_rvars => [Log!LNext]_<<accepted, Written, promised>>
  BY RecStepRefines DEF logVars
<1> QED
  BY <1>1, <1>2, RecorderInvariant, PTL DEF RecSpec, ImplementsDurableLog, Log!LSpec

=============================================================================
