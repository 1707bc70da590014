------------------------- MODULE ProcessOutput_proofs -------------------------
(***************************************************************************)
(* The readers of a process's output for any number of streams and chunks  *)
(* and any capacity of the buffers: the inductive invariant of the model,  *)
(* that no reader skips a chunk that could still be read or is given one   *)
(* twice, and that whoever is told of the end has been given the rest.     *)
(***************************************************************************)
EXTENDS ProcessOutput, FiniteSetTheorems, SequenceTheorems, WellFoundedInduction, TLAPS

(* Numbers, sets of numbers and sequences.                                 *)

\* A set of natural numbers has a least element.
LEMMA Least ==
    ASSUME NEW T, T \subseteq Nat, T # {}
    PROVE  \E x \in T : \A y \in T : x <= y
<1>1. IsWellFoundedOn(OpToRel(<, Nat), Nat)
  BY NatLessThanWellFounded
<1>2. PICK x \in T : \A y \in T : ~(<<y, x>> \in OpToRel(<, Nat))
  BY <1>1, WFMin
<1>3. \A y \in T : ~(y < x)
  BY <1>2 DEF OpToRel
<1>4. \A y \in T : x <= y
  BY <1>3
<1> QED
  BY <1>4

\* A bounded set of numbers has a greatest one, and Max finds it.
LEMMA MaxFacts ==
    ASSUME NEW n \in Nat, NEW S, S \subseteq 1..n, S # {}
    PROVE  Max(S) \in S /\ \A k \in S : k <= Max(S)
<1> DEFINE T == {n - k : k \in S}
<1>1. T \subseteq Nat /\ T # {}
  <2>1. \A k \in S : n - k \in Nat
    OBVIOUS
  <2>2. PICK k \in S : TRUE
    OBVIOUS
  <2>3. n - k \in T
    BY <2>2
  <2> QED
    BY <2>1, <2>3
<1>2. PICK x \in T : \A y \in T : x <= y
  BY <1>1, Least
<1>3. PICK m \in S : x = n - m
  BY <1>2
<1>4. ASSUME NEW k \in S
      PROVE  m >= k
  <2>1. n - k \in T
    BY <1>4
  <2>2. x <= n - k
    BY <1>2, <2>1
  <2> QED
    BY <1>3, <2>2
<1>5. \E y \in S : \A k \in S : y >= k
  BY <1>4
<1>6. Max(S) \in S /\ \A k \in S : Max(S) >= k
  BY <1>5 DEF Max
<1> QED
  BY <1>6

\* What Append does to the events and to the chunks given.
LEMMA AppendFacts ==
    ASSUME NEW S, NEW s \in Seq(S), NEW x \in S
    PROVE  /\ Append(s, x) \in Seq(S)
           /\ Len(Append(s, x)) = Len(s) + 1
           /\ \A k \in 1..Len(s) : Append(s, x)[k] = s[k]
           /\ Append(s, x)[Len(s) + 1] = x
  OBVIOUS

\* What the subscription has left after one event of its replay.
LEMMA TailFacts ==
    ASSUME NEW S, NEW s \in Seq(S), s # << >>
    PROVE  /\ Tail(s) \in Seq(S)
           /\ Len(s) \in Nat \ {0}
           /\ Len(Tail(s)) = Len(s) - 1
           /\ \A k \in 1..Len(Tail(s)) : Tail(s)[k] = s[k + 1]
           /\ Head(s) = s[1] /\ Head(s) \in S
  OBVIOUS

\* A sequence of small numbers is one of larger ones.
LEMMA SeqWider ==
    ASSUME NEW S, NEW T, S \subseteq T, NEW s \in Seq(S)
    PROVE  s \in Seq(T)
  OBVIOUS

\* The members of a sequence.
Elems(s) == {s[i] : i \in 1..Len(s)}

\* A response lists its chunks once each, in the order of their numbers.
LEMMA InOrderFacts ==
    ASSUME NEW n \in Nat, NEW S, S \subseteq 1..n, NEW q \in InOrder(S)
    PROVE  /\ q \in Seq(1..n) /\ Len(q) \in Nat
           /\ Elems(q) = S
           /\ \A i \in 1..Len(q), j \in 1..Len(q) : i < j => q[i] < q[j]
           /\ \A i \in 1..Len(q) : q[i] \in S
<1>1. IsFiniteSet(1..n)
  BY FS_Interval
<1>2. IsFiniteSet(S)
  BY <1>1, FS_Subset
<1>3. Cardinality(S) \in Nat
  BY <1>2, FS_CardinalityType
<1> DEFINE m == Cardinality(S)
<1>4. /\ q \in [1..m -> S] /\ \A k \in S : \E i \in 1..m : q[i] = k
      /\ \A i, j \in 1..m : i < j => q[i] < q[j]
  BY DEF InOrder
<1> HIDE DEF m
<1>5. m \in Nat
  BY <1>3 DEF m
<1>6. q \in Seq(S) /\ Len(q) = m
  BY <1>4, <1>5
<1>7. q \in Seq(1..n)
  BY <1>6, SeqWider
<1>8. {q[i] : i \in 1..m} = S
  BY <1>4
<1>9. Elems(q) = S
  BY <1>6, <1>8 DEF Elems
<1> QED
  BY <1>4, <1>5, <1>6, <1>7, <1>9

\* The members of a concatenation.
LEMMA ConcatElems ==
    ASSUME NEW S, NEW s \in Seq(S), NEW q \in Seq(S)
    PROVE  Elems(s \o q) = Elems(s) \cup Elems(q)
<1> DEFINE r == s \o q
<1>1. /\ Len(s) \in Nat /\ Len(q) \in Nat /\ Len(r) = Len(s) + Len(q)
      /\ \A i \in 1..Len(s) + Len(q) : r[i] = IF i <= Len(s) THEN s[i] ELSE q[i - Len(s)]
  BY ConcatProperties
<1> HIDE DEF r
<1>2. ASSUME NEW i \in 1..Len(s)
      PROVE  s[i] \in Elems(r)
  <2>1. i \in 1..Len(r) /\ r[i] = s[i]
    BY <1>1
  <2> QED
    BY <2>1 DEF Elems
<1>3. ASSUME NEW i \in 1..Len(q)
      PROVE  q[i] \in Elems(r)
  <2>1. Len(s) + i \in 1..Len(s) + Len(q) /\ ~(Len(s) + i <= Len(s))
        /\ (Len(s) + i) - Len(s) = i
    BY <1>1
  <2>2. Len(s) + i \in 1..Len(r) /\ r[Len(s) + i] = q[i]
    BY <1>1, <2>1
  <2> QED
    BY <2>2 DEF Elems
<1>4. ASSUME NEW i \in 1..Len(r)
      PROVE  r[i] \in Elems(s) \cup Elems(q)
  <2>1. CASE i <= Len(s)
    <3>1. i \in 1..Len(s) /\ r[i] = s[i]
      BY <1>1, <2>1
    <3> QED
      BY <3>1 DEF Elems
  <2>2. CASE ~(i <= Len(s))
    <3>1. i - Len(s) \in 1..Len(q) /\ r[i] = q[i - Len(s)]
      BY <1>1, <2>2
    <3> QED
      BY <3>1 DEF Elems
  <2> QED
    BY <2>1, <2>2
<1>5. Elems(r) = Elems(s) \cup Elems(q)
  BY <1>2, <1>3, <1>4 DEF Elems
<1> QED
  BY <1>5 DEF r

\* Two increasing sequences, the second above the first, make one.
LEMMA ConcatFacts ==
    ASSUME NEW n \in Nat, NEW c \in Nat, NEW s \in Seq(1..n), NEW q \in Seq(1..n),
           \A i, j \in 1..Len(s) : i < j => s[i] < s[j],
           \A i, j \in 1..Len(q) : i < j => q[i] < q[j],
           \A i \in 1..Len(s) : s[i] <= c, \A i \in 1..Len(q) : q[i] > c
    PROVE  /\ s \o q \in Seq(1..n)
           /\ \A i, j \in 1..Len(s \o q) : i < j => (s \o q)[i] < (s \o q)[j]
<1> DEFINE r == s \o q
<1>1. Len(s) \in Nat /\ Len(q) \in Nat
  OBVIOUS
<1>2. /\ r \in Seq(1..n) /\ Len(r) = Len(s) + Len(q)
      /\ \A i \in 1..Len(s) + Len(q) : r[i] = IF i <= Len(s) THEN s[i] ELSE q[i - Len(s)]
  <2> DEFINE S == 1..n
  <2>1. s \in Seq(S) /\ q \in Seq(S)
    OBVIOUS
  <2> HIDE DEF S
  <2>2. /\ s \o q \in Seq(S) /\ Len(s \o q) = Len(s) + Len(q)
        /\ \A i \in 1..Len(s) + Len(q) :
               (s \o q)[i] = IF i <= Len(s) THEN s[i] ELSE q[i - Len(s)]
    BY <2>1, ConcatProperties
  <2> QED
    BY <2>2 DEF S
<1>3. /\ \A i \in 1..Len(s) : r[i] = s[i] /\ i \in 1..Len(r)
      /\ \A i \in 1..Len(q) : r[Len(s) + i] = q[i] /\ Len(s) + i \in 1..Len(r)
      /\ \A i \in 1..Len(r) : i \in 1..Len(s) \/ \E j \in 1..Len(q) : i = Len(s) + j
  <2>1. ASSUME NEW i \in 1..Len(s)
        PROVE  r[i] = s[i] /\ i \in 1..Len(r)
    BY <1>1, <1>2
  <2>2. ASSUME NEW i \in 1..Len(q)
        PROVE  r[Len(s) + i] = q[i] /\ Len(s) + i \in 1..Len(r)
    <3>1. Len(s) + i \in 1..Len(s) + Len(q) /\ ~(Len(s) + i <= Len(s)) /\ (Len(s) + i) - Len(s) = i
      BY <1>1
    <3> QED
      BY <1>2, <3>1
  <2>3. ASSUME NEW i \in 1..Len(r), i \notin 1..Len(s)
        PROVE  \E j \in 1..Len(q) : i = Len(s) + j
    <3>1. i - Len(s) \in 1..Len(q) /\ i = Len(s) + (i - Len(s))
      BY <1>1, <1>2, <2>3
    <3> QED
      BY <3>1
  <2> QED
    BY <2>1, <2>2, <2>3
<1>4. /\ \A i \in 1..Len(s) : s[i] \in Nat
      /\ \A i \in 1..Len(q) : q[i] \in Nat
  OBVIOUS
<1> HIDE DEF r
<1>5. ASSUME NEW i \in 1..Len(r), NEW j \in 1..Len(r), i < j
      PROVE  r[i] < r[j]
  <2>1. CASE j \in 1..Len(s)
    <3>1. i \in 1..Len(s)
      BY <1>1, <1>5, <2>1
    <3> QED
      BY <1>3, <1>5, <2>1, <3>1
  <2>2. ASSUME NEW k \in 1..Len(q), j = Len(s) + k
        PROVE  r[i] < r[j]
    <3>1. CASE i \in 1..Len(s)
      <4>1. r[i] = s[i] /\ r[j] = q[k] /\ s[i] <= c /\ c < q[k]
        BY <1>3, <2>2, <3>1
      <4> QED
        BY <1>4, <3>1, <4>1, SMTT(30)
    <3>2. ASSUME NEW l \in 1..Len(q), i = Len(s) + l
          PROVE  r[i] < r[j]
      <4>1. l < k
        BY <1>1, <1>5, <2>2, <3>2
      <4> QED
        BY <1>3, <2>2, <3>2, <4>1
    <3> QED
      BY <1>3, <3>1, <3>2
  <2> QED
    BY <1>3, <2>1, <2>2
<1>6. /\ r \in Seq(1..n)
      /\ \A i, j \in 1..Len(r) : i < j => r[i] < r[j]
  BY <1>2, <1>5 DEF r
<1> QED
  BY <1>6 DEF r

------------------------------------------------------------------------------
(* What a read returns.                                                    *)

\* The numbers of the model are numbers.
LEMMA NumberFacts ==
    ASSUME OInv
    PROVE  /\ Last \in Nat /\ cursor \in Nat /\ cursor <= Last /\ keepFrom \in Nat /\ joined \in Nat
           /\ live \in Nat /\ looked \in Nat /\ replayFrom \in Nat
           /\ Len(replay) \in Nat /\ Len(got) \in Nat
           /\ \A i \in 1..Len(got) : got[i] \in Nat
           /\ events \in Seq(Events) /\ got \in Seq(1..Last) /\ replay \in Seq(1..Last)
<1>1. Last \in Nat
  BY DEF OInv, OTypeOK, Last
<1>2. /\ got \in Seq(1..Last) /\ replay \in Seq(1..Last) /\ events \in Seq(Events)
      /\ cursor \in 0..Last /\ keepFrom \in 1..(Last + 1) /\ replayFrom \in 1..(Last + 1)
      /\ looked \in 0..(Last + 1) /\ joined \in 1..(Last + 1) /\ live \in 1..(Last + 1)
  BY DEF OInv, OTypeOK
<1>3. \A i \in 1..Len(got) : got[i] \in 1..Last
  <2> DEFINE S == 1..Last
  <2>1. got \in Seq(S)
    BY <1>2
  <2> HIDE DEF S
  <2>2. \A i \in 1..Len(got) : got[i] \in S
    BY <2>1
  <2> QED
    BY <2>2 DEF S
<1> QED
  BY <1>1, <1>2, <1>3

\* What is retained behind the cursor, and that the rest was evicted.
LEMMA RetainedFacts ==
    ASSUME OInv
    PROVE  /\ Retained(cursor) \subseteq 1..Last
           /\ \A k \in Retained(cursor) : k > cursor /\ IsOutput(k)
           /\ \A k \in 1..Last : IsOutput(k) /\ k > cursor => k \in Retained(cursor) \/ k < keepFrom
<1>1. Last \in Nat /\ keepFrom \in 1..(Last + 1)
  BY NumberFacts DEF OInv, OTypeOK
<1> HIDE DEF Last
<1> QED
  BY <1>1 DEF Retained

\* A read stops at a number below which it leaves out nothing, and an empty page
\* says that nothing is retained.
LEMMA PageFacts ==
    ASSUME OInv, NEW max
    PROVE  /\ Page(cursor, max) \subseteq Retained(cursor)
           /\ \A k \in Page(cursor, max), j \in Retained(cursor) : j <= k => j \in Page(cursor, max)
           /\ Page(cursor, max) = {} => Retained(cursor) = {}
<1> DEFINE fresh == Retained(cursor)
           Breaks(j) == /\ \E i \in fresh : i < j
                        /\ Bytes(events, {i \in fresh : i <= j}) > max
<1>1. Page(cursor, max) = {k \in fresh : \A j \in fresh : j <= k => ~Breaks(j)}
  BY DEF Page
<1>2. fresh \subseteq Nat
  BY RetainedFacts, NumberFacts
<1>3. \A j : Breaks(j) => \E i \in fresh : i < j
  OBVIOUS
<1> HIDE DEF Breaks, fresh
<1>4. ASSUME NEW k \in Page(cursor, max), NEW j \in fresh, j <= k
      PROVE  j \in Page(cursor, max)
  <2>1. k \in fresh /\ \A i \in fresh : i <= k => ~Breaks(i)
    BY <1>1
  <2>2. \A i \in fresh : i <= j => i <= k
    BY <1>2, <1>4, <2>1
  <2>3. \A i \in fresh : i <= j => ~Breaks(i)
    BY <2>1, <2>2
  <2> QED
    BY <1>1, <2>3
<1>5. ASSUME fresh # {}
      PROVE  Page(cursor, max) # {}
  <2>1. PICK x \in fresh : \A y \in fresh : x <= y
    BY <1>2, <1>5, Least
  <2>2. \A j \in fresh : j <= x => ~Breaks(j)
    BY <1>2, <1>3, <2>1
  <2> QED
    BY <1>1, <2>1, <2>2
<1> QED
  BY <1>1, <1>4, <1>5 DEF fresh

\* next_seq of a response: all that was retained below it is in the response.
LEMMA NextFacts ==
    ASSUME OInv, NEW page, page \subseteq Retained(cursor),
           \A k \in page, j \in Retained(cursor) : j <= k => j \in page,
           page = {} => Retained(cursor) = {}
    PROVE  /\ NextSeq(page) - 1 \in Nat /\ NextSeq(page) \in 1..(Last + 1)
           /\ NextSeq(page) - 1 <= Last /\ NextSeq(page) > cursor
           /\ \A k \in page : k <= NextSeq(page) - 1
           /\ \A k \in 1..(NextSeq(page) - 1) : IsOutput(k) /\ k > cursor => k \in page \/ k < keepFrom
<1>1. /\ Last \in Nat /\ cursor \in Nat /\ cursor <= Last /\ page \subseteq 1..Last
      /\ \A k \in page : k > cursor
      /\ \A k \in 1..Last : IsOutput(k) /\ k > cursor => k \in Retained(cursor) \/ k < keepFrom
  BY NumberFacts, RetainedFacts
<1> HIDE DEF Last
<1>2. CASE page = {}
  <2>1. NextSeq(page) = Last + 1
    BY <1>2 DEF NextSeq
  <2>2. \A k \in 1..Last : IsOutput(k) /\ k > cursor => k < keepFrom
    BY <1>1, <1>2
  <2> QED
    BY <1>1, <1>2, <2>1, <2>2
<1>3. CASE page # {}
  <2> DEFINE m == Max(page)
  <2>1. m \in page /\ \A k \in page : k <= m
    BY <1>1, <1>3, MaxFacts
  <2>2. NextSeq(page) = m + 1
    BY <1>3 DEF NextSeq
  <2> HIDE DEF m
  <2>3. m \in Nat /\ m <= Last /\ m > cursor
    BY <1>1, <2>1
  <2>4. NextSeq(page) - 1 = m
    BY <2>2, <2>3
  <2>5. ASSUME NEW k \in 1..m, IsOutput(k), k > cursor
        PROVE  k \in page \/ k < keepFrom
    <3>1. k \in 1..Last /\ k <= m
      BY <1>1, <2>3
    <3> QED
      BY <1>1, <2>1, <2>5, <3>1
  <2> QED
    BY <1>1, <2>1, <2>2, <2>3, <2>4, <2>5
<1> QED
  BY <1>2, <1>3

\* A response that is passed on adds its chunks behind those given before.
LEMMA GivenFacts ==
    ASSUME OInv, NEW page, page \subseteq Retained(cursor),
           got' \in {got \o q : q \in InOrder(page)}
    PROVE  /\ got' \in Seq(1..Last)
           /\ \A i, j \in 1..Len(got') : i < j => got'[i] < got'[j]
           /\ Given' = Given \cup page
           /\ \A i \in 1..Len(got') : got'[i] <= cursor \/ got'[i] \in page
<1>1. /\ Last \in Nat /\ cursor \in Nat /\ page \subseteq 1..Last /\ \A k \in page : k > cursor
      /\ got \in Seq(1..Last)
  BY NumberFacts, RetainedFacts
<1>2. /\ \A i, j \in 1..Len(got) : i < j => got[i] < got[j]
      /\ \A i \in 1..Len(got) : got[i] <= cursor
  BY DEF OInv, InOrderCovered
<1>3. PICK q \in InOrder(page) : got' = got \o q
  OBVIOUS
<1> HIDE DEF Last
<1>4. /\ q \in Seq(1..Last)
      /\ Elems(q) = page
      /\ \A i, j \in 1..Len(q) : i < j => q[i] < q[j]
      /\ \A i \in 1..Len(q) : q[i] \in page
  <2>0. q \in InOrder(page) /\ Last \in Nat /\ page \subseteq 1..Last
    BY <1>1, <1>3
  <2>1. q \in Seq(1..Last)
    BY <2>0, InOrderFacts
  <2>2. Elems(q) = page
    BY <2>0, InOrderFacts
  <2>3. ASSUME NEW i \in 1..Len(q), NEW j \in 1..Len(q), i < j
        PROVE  q[i] < q[j]
    BY <2>0, <2>3, InOrderFacts
  <2>4. \A i \in 1..Len(q) : q[i] \in page
    BY <2>0, InOrderFacts
  <2> QED
    BY <2>1, <2>2, <2>3, <2>4
<1>5. \A i \in 1..Len(q) : q[i] > cursor
  BY <1>1, <1>4
<1> DEFINE r == got \o q
<1>6. /\ r \in Seq(1..Last)
      /\ \A i, j \in 1..Len(r) : i < j => r[i] < r[j]
      /\ Elems(r) = Elems(got) \cup Elems(q)
  <2>1. Last \in Nat /\ cursor \in Nat /\ got \in Seq(1..Last) /\ q \in Seq(1..Last)
    BY <1>1, <1>4
  <2>2. r \in Seq(1..Last)
    BY <1>2, <1>4, <1>5, <2>1, ConcatFacts
  <2>3. Elems(r) = Elems(got) \cup Elems(q)
    BY <2>1, ConcatElems
  <2>4. ASSUME NEW i \in 1..Len(r), NEW j \in 1..Len(r), i < j
        PROVE  r[i] < r[j]
    BY <1>2, <1>4, <1>5, <2>1, <2>4, ConcatFacts
  <2> QED
    BY <2>2, <2>3, <2>4
<1> HIDE DEF r
<1>7. got' = r
  BY <1>3 DEF r
<1>8. Given = Elems(got) /\ Given' = Elems(r)
  BY <1>7 DEF Given, Elems
<1>9. \A i \in 1..Len(r) : r[i] <= cursor \/ r[i] \in page
  <2>1. \A i \in 1..Len(r) : r[i] \in Elems(r)
    BY DEF Elems
  <2>2. \A k \in Elems(got) : k <= cursor
    BY <1>2 DEF Elems
  <2> QED
    BY <1>4, <1>6, <2>1, <2>2
<1> QED
  BY <1>4, <1>6, <1>7, <1>8, <1>9

\* What is accounted for stays so: chunks are never taken back, the retained output
\* and the subscription only move on.
LEMMA CoveredStays ==
    ASSUME OInv, NEW k \in 1..Last, Covered(k), events'[k] = events[k],
           Given \subseteq Given', keepFrom' \in Nat, joined' \in Nat,
           keepFrom <= keepFrom', joined <= joined'
    PROVE  Covered(k)'
<1>1. k \in Nat /\ keepFrom \in Nat /\ joined \in Nat
  BY NumberFacts
<1>2. IsOutput(k)' = IsOutput(k)
  BY DEF IsOutput
<1> QED
  BY <1>1, <1>2 DEF Covered

------------------------------------------------------------------------------
(* The invariant: the first state, and what a step must leave alone.       *)

\* The part of the type invariant that does not tie a number to the log.
PlainTypes ==
    /\ openStreams \subseteq Streams /\ entry \in BOOLEAN
    /\ due \subseteq Streams \cup {"exit", "closed"}
    /\ reader \in Readers
    /\ rpc \in {"start", "look", "gap", "waiting", "read", "wait", "recv", "recover", "end"}
    /\ ended \in {"no", "closed", "failed"} /\ expired \in BOOLEAN

\* The part that does.
NumberTypes ==
    /\ events \in Seq(Events)
    /\ keepFrom \in 1..(Last + 1) /\ replayFrom \in 1..(Last + 1)
    /\ cursor \in 0..Last /\ got \in Seq(1..Last)
    /\ looked \in 0..(Last + 1) /\ wakeSeen \in 0..Last
    /\ replay \in Seq(1..Last) /\ joined \in 1..(Last + 1) /\ live \in 1..(Last + 1)

\* The two parts are the type invariant.
LEMMA TypeParts == OTypeOK <=> PlainTypes /\ NumberTypes
  BY DEF OTypeOK, PlainTypes, NumberTypes

\* The first state: no events, nothing given.
LEMMA InitOut == ASSUME OInit PROVE OInv
<1>1. events = << >> /\ got = << >> /\ replay = << >> /\ Last = 0 /\ Len(got) = 0 /\ Len(replay) = 0
  BY DEF OInit, Last
<1>2. /\ keepFrom = 1 /\ replayFrom = 1 /\ cursor = 0 /\ looked = 0 /\ wakeSeen = 0
      /\ joined = 1 /\ live = 1 /\ rpc = "start" /\ ended = "no"
  BY DEF OInit
<1>3. PlainTypes
  BY DEF OInit, PlainTypes
<1>4. NumberTypes
  BY <1>1, <1>2 DEF NumberTypes
<1>5. ~Closed /\ \A k \in 1..Last : FALSE
  BY <1>1 DEF Closed
<1>6. ClosedIsLast
  BY <1>5 DEF ClosedIsLast
<1>7. NextEvent = 1
  BY <1>1, <1>2 DEF NextEvent
<1>8. SubscriberSound
  BY <1>1, <1>2, <1>7 DEF SubscriberSound
<1>9. LookedSound /\ EndCovered
  BY <1>2 DEF LookedSound, EndCovered
<1>10. InOrderCovered /\ \A i \in 1..Len(got) : got[i] <= cursor
  BY <1>1, <1>2 DEF InOrderCovered
<1> QED
  BY <1>3, <1>4, <1>6, <1>8, <1>9, <1>10, TypeParts DEF OInv

\* A step that leaves the log alone leaves its closing alone.
LEMMA SameLog ==
    ASSUME OInv, events' = events, openStreams' \subseteq openStreams
    PROVE  /\ Last' = Last /\ Closed' = Closed /\ Exited' = Exited
           /\ \A k : IsOutput(k)' = IsOutput(k)
           /\ ClosedIsLast'
<1>1. Last' = Last /\ Closed' = Closed /\ Exited' = Exited
  BY DEF Last, Closed, Exited
<1>2. \A k : IsOutput(k)' = IsOutput(k)
  BY DEF IsOutput
<1>3. ClosedIsLast
  BY DEF OInv
<1>4. ClosedIsLast'
  BY <1>1, <1>3 DEF ClosedIsLast
<1> QED
  BY <1>1, <1>2, <1>4

\* What is accounted for in such a step.
LEMMA SameAccount ==
    ASSUME OInv, events' = events, keepFrom' = keepFrom, joined' = joined,
           Given \subseteq Given'
    PROVE  \A k : Covered(k) => Covered(k)'
<1>1. \A k : IsOutput(k)' = IsOutput(k)
  BY DEF IsOutput
<1> QED
  BY <1>1 DEF Covered

\* A step that moves neither the log nor what the reader was given, and enters none of
\* the places the invariant speaks of.
LEMMA QuietStep ==
    ASSUME OInv, PlainTypes',
           UNCHANGED <<events, keepFrom, replayFrom, reader, cursor, got, looked, replay, joined>>,
           openStreams' \subseteq openStreams, wakeSeen' \in 0..Last,
           live' \in 1..(Last + 1), live' = live \/ replay = << >>,
           rpc' # "recv" \/ (rpc = "recv" /\ live' = live),
           ended' = "closed" => ended = "closed",
           rpc' = "gap" => rpc = "gap",
           reader = "transport" /\ rpc' = "start" => rpc = "start"
    PROVE  OInv'
<1>1. /\ events' = events /\ keepFrom' = keepFrom /\ replayFrom' = replayFrom
      /\ reader' = reader /\ cursor' = cursor /\ got' = got /\ looked' = looked
      /\ replay' = replay /\ joined' = joined
  OBVIOUS
<1>2. Given' = Given
  BY <1>1 DEF Given
<1>3. /\ Last' = Last /\ Closed' = Closed /\ ClosedIsLast'
  BY <1>1, SameLog
<1>4. \A k : Covered(k) => Covered(k)'
  BY <1>1, <1>2, SameAccount
<1>5. NumberTypes'
  <2>1. NumberTypes
    BY TypeParts DEF OInv
  <2> QED
    BY <1>1, <1>3, <2>1 DEF NumberTypes
<1>6. InOrderCovered' /\ \A i \in 1..Len(got') : got'[i] <= cursor'
  <2>1. InOrderCovered /\ \A i \in 1..Len(got) : got[i] <= cursor
    BY DEF OInv
  <2> QED
    BY <1>1, <1>4, <2>1 DEF InOrderCovered
<1>7. EndCovered'
  <2>1. EndCovered
    BY DEF OInv
  <2> QED
    BY <1>3, <1>4, <2>1 DEF EndCovered
<1>8. LookedSound'
  <2>1. LookedSound
    BY DEF OInv
  <2> QED
    BY <1>1, <1>4, <2>1 DEF LookedSound
<1>9. SubscriberSound'
  <2>1. SubscriberSound
    BY DEF OInv
  <2>2. CASE live' = live
    <3>1. NextEvent' = NextEvent
      BY <1>1, <2>2 DEF NextEvent
    <3> QED
      BY <1>1, <1>4, <2>1, <3>1 DEF SubscriberSound
  <2>3. CASE live' # live
    <3>1. Len(replay) = 0 /\ live' \in Nat \ {0} /\ rpc' # "recv"
      BY <2>3, NumberFacts
    <3>2. Len(replay') = 0
      BY <1>1, <3>1
    <3>3. NextEvent' = live' - 0
      BY <3>2, Zenon DEF NextEvent
    <3>4. NextEvent' >= 1
      <4>1. \A n \in Nat \ {0} : n - 0 >= 1
        OBVIOUS
      <4>2. live' - 0 >= 1
        BY <3>1, <4>1, Zenon
      <4> QED
        BY <3>3, <4>2, Zenon
    <3>5. \A i \in 1..Len(replay') : FALSE
      BY <3>2
    <3> QED
      BY <1>1, <2>1, <3>1, <3>4, <3>5 DEF SubscriberSound
  <2> QED
    BY <2>2, <2>3
<1>10. OTypeOK'
  BY <1>5 DEF OTypeOK, PlainTypes, NumberTypes
<1> QED
  BY <1>3, <1>6, <1>7, <1>8, <1>9, <1>10 DEF OInv

------------------------------------------------------------------------------
(* The process.                                                            *)

\* An event is put into a log that is not closed, and the buffers evict: no reader
\* is disturbed, whatever it was doing.
LEMMA PublishKeeps ==
    ASSUME OInv, NEW kind \in {"output", "exited", "closed"}, NEW size \in Sizes \cup {0},
           NEW producer \in Streams \cup {"exit", "closed"}, Publish(kind, size, producer),
           ~Closed, UNCHANGED <<openStreams, entry, readerVars>>,
           kind = "closed" => openStreams = {} /\ Exited
    PROVE  OInv'
<1> DEFINE e == [kind |-> kind, size |-> size]
<1>1. /\ events' = Append(events, e) /\ due' = due \cup {producer}
      /\ openStreams' = openStreams /\ entry' = entry /\ reader' = reader /\ rpc' = rpc
      /\ cursor' = cursor /\ got' = got /\ ended' = ended /\ expired' = expired
      /\ looked' = looked /\ wakeSeen' = wakeSeen /\ replay' = replay /\ joined' = joined
      /\ live' = live
  BY DEF Publish, readerVars, pollVars, subVars
<1>2. e \in Events /\ e.kind = kind
  BY DEF Events
<1>3. NumberTypes /\ PlainTypes
  BY TypeParts DEF OInv
<1> HIDE DEF e
<1>4. /\ events' \in Seq(Events) /\ Last \in Nat /\ Last' = Last + 1
      /\ \A k \in 1..Last : events'[k] = events[k]
      /\ events'[Last + 1] = e
  BY <1>1, <1>2, <1>3, AppendFacts DEF NumberTypes, Last
<1>5. keepFrom' \in keepFrom..(Last' + 1) /\ replayFrom' \in replayFrom..(Last' + 1)
  BY <1>1 DEF Publish, Evict, Last, e
<1> HIDE DEF Last
<1>6. keepFrom \in Nat \ {0} /\ replayFrom \in Nat \ {0} /\ joined \in Nat
  BY <1>3, <1>4 DEF NumberTypes
<1>7. keepFrom' \in Nat \ {0} /\ keepFrom <= keepFrom' /\ joined <= joined' /\ joined' \in Nat
  BY <1>1, <1>4, <1>5, <1>6
<1>8. Given' = Given
  BY <1>1 DEF Given
<1>9. ASSUME NEW k \in 1..Last, Covered(k)
      PROVE  Covered(k)'
  BY <1>4, <1>7, <1>8, <1>9, CoveredStays
<1>10. PlainTypes'
  BY <1>1, <1>3 DEF PlainTypes
<1>11. NumberTypes'
  <2>1. got' \in Seq(1..Last') /\ replay' \in Seq(1..Last')
    <3> DEFINE S == 1..Last
               T == 1..(Last + 1)
    <3>1. S \subseteq T
      BY <1>4
    <3>2. got \in Seq(S) /\ replay \in Seq(S)
      BY <1>3 DEF NumberTypes
    <3> HIDE DEF S, T
    <3>3. got \in Seq(T) /\ replay \in Seq(T)
      BY <3>1, <3>2, SeqWider
    <3> QED
      BY <1>1, <1>4, <3>3 DEF T
  <2>2. keepFrom' \in 1..(Last' + 1) /\ replayFrom' \in 1..(Last' + 1)
    BY <1>4, <1>5, <1>6
  <2>3. /\ cursor' \in 0..Last' /\ looked' \in 0..(Last' + 1) /\ wakeSeen' \in 0..Last'
        /\ joined' \in 1..(Last' + 1) /\ live' \in 1..(Last' + 1)
    BY <1>1, <1>3, <1>4 DEF NumberTypes
  <2> QED
    BY <1>4, <2>1, <2>2, <2>3 DEF NumberTypes
<1>12. OTypeOK'
  BY <1>10, <1>11 DEF OTypeOK, PlainTypes, NumberTypes
<1>13. InOrderCovered' /\ \A i \in 1..Len(got') : got'[i] <= cursor'
  <2>1. InOrderCovered /\ (\A i \in 1..Len(got) : got[i] <= cursor) /\ cursor \in 0..Last
    BY <1>3 DEF OInv, NumberTypes
  <2>2. \A k \in 1..cursor : k \in 1..Last
    BY <1>4, <2>1
  <2> QED
    BY <1>1, <1>9, <2>1, <2>2 DEF InOrderCovered
<1>14. EndCovered'
  BY <1>1 DEF OInv, EndCovered
<1>15. LookedSound'
  <2>1. LookedSound /\ looked \in 0..(Last + 1)
    BY <1>3 DEF OInv, NumberTypes
  <2>2. \A k \in 1..(looked - 1) : k \in 1..Last
    BY <1>4, <2>1
  <2> QED
    BY <1>1, <1>9, <2>1, <2>2 DEF LookedSound
<1>16. SubscriberSound'
  <2>1. SubscriberSound /\ live \in 1..(Last + 1) /\ Len(replay) \in Nat
    BY <1>3, NumberFacts DEF OInv, NumberTypes
  <2>2. NextEvent' = NextEvent /\ NextEvent = live - Len(replay)
    BY <1>1 DEF NextEvent
  <2>3. \A k \in 1..(NextEvent - 1) : k \in 1..Last
    BY <1>4, <2>1, <2>2
  <2> QED
    BY <1>1, <1>9, <2>1, <2>2, <2>3 DEF SubscriberSound
<1>17. ClosedIsLast'
  <2>1. \A k \in 1..Last : events'[k].kind # "closed"
    BY <1>4 DEF Closed
  <2>2. \A k \in 1..Last' : k \in 1..Last \/ k = Last + 1
    BY <1>4
  <2>3. \A k \in 1..Last' : events'[k].kind = "closed" => k = Last' /\ kind = "closed"
    BY <1>2, <1>4, <2>1, <2>2
  <2>4. Exited => Exited'
    <3>1. \A k \in 1..Last : k \in 1..Last'
      BY <1>4
    <3> QED
      BY <1>4, <3>1 DEF Exited
  <2>5. Closed' => kind = "closed"
    BY <2>3 DEF Closed
  <2> QED
    BY <1>1, <2>3, <2>4, <2>5 DEF ClosedIsLast
<1> QED
  BY <1>12, <1>13, <1>14, <1>15, <1>16, <1>17 DEF OInv

\* A stream with output to come is not closed.
LEMMA StreamOutputKeeps ==
    ASSUME OInv, NEW s \in Streams, NEW size \in Sizes, StreamOutput(s, size)
    PROVE  OInv'
<1>1. ~Closed
  BY DEF StreamOutput, OInv, ClosedIsLast
<1>2. Publish("output", size, s) /\ UNCHANGED <<openStreams, entry, readerVars>>
  BY DEF StreamOutput
<1> QED
  BY <1>1, <1>2, PublishKeeps

\* The exit comes once and before the closing.
LEMMA WatchExitKeeps ==
    ASSUME OInv, WatchExit
    PROVE  OInv'
<1>1. ~Closed
  BY DEF WatchExit, OInv, ClosedIsLast
<1>2. Publish("exited", 0, "exit") /\ UNCHANGED <<openStreams, entry, readerVars>>
  BY DEF WatchExit
<1> QED
  BY <1>1, <1>2, PublishKeeps

\* The closing comes once, when the streams have ended and the process has exited.
LEMMA MaybeEmitClosedKeeps ==
    ASSUME OInv, MaybeEmitClosed
    PROVE  OInv'
<1>1. /\ Publish("closed", 0, "closed") /\ UNCHANGED <<openStreams, entry, readerVars>>
      /\ ~Closed /\ openStreams = {} /\ Exited
  BY DEF MaybeEmitClosed
<1> QED
  BY <1>1, PublishKeeps

\* A stream ends.
LEMMA FinishKeeps ==
    ASSUME OInv, NEW s \in Streams, FinishOutputStream(s)
    PROVE  OInv'
<1>1. /\ openStreams' \subseteq openStreams
      /\ events' = events /\ keepFrom' = keepFrom /\ replayFrom' = replayFrom /\ entry' = entry
      /\ due' = due /\ reader' = reader /\ rpc' = rpc /\ cursor' = cursor /\ got' = got
      /\ ended' = ended /\ expired' = expired /\ looked' = looked /\ wakeSeen' = wakeSeen
      /\ replay' = replay /\ joined' = joined /\ live' = live
  BY DEF FinishOutputStream, readerVars, pollVars, subVars
<1>2. PlainTypes /\ wakeSeen' \in 0..Last /\ live' \in 1..(Last + 1)
  BY <1>1, TypeParts DEF OInv, NumberTypes
<1>3. PlainTypes'
  BY <1>1, <1>2 DEF PlainTypes
<1> QED
  BY <1>1, <1>2, <1>3, QuietStep

\* The entry of a closed process is removed.
LEMMA RetentionEndsKeeps ==
    ASSUME OInv, RetentionEnds
    PROVE  OInv'
<1>1. /\ events' = events /\ keepFrom' = keepFrom /\ replayFrom' = replayFrom
      /\ openStreams' = openStreams /\ entry' = FALSE
      /\ due' = due /\ reader' = reader /\ rpc' = rpc /\ cursor' = cursor /\ got' = got
      /\ ended' = ended /\ expired' = expired /\ looked' = looked /\ wakeSeen' = wakeSeen
      /\ replay' = replay /\ joined' = joined /\ live' = live
  BY DEF RetentionEnds, readerVars, pollVars, subVars
<1>2. PlainTypes /\ wakeSeen' \in 0..Last /\ live' \in 1..(Last + 1)
  BY <1>1, TypeParts DEF OInv, NumberTypes
<1>3. PlainTypes'
  BY <1>1, <1>2 DEF PlainTypes
<1> QED
  BY <1>1, <1>2, <1>3, QuietStep

\* A waiting read is woken.
LEMMA NotifyKeeps ==
    ASSUME OInv, NEW p \in Streams \cup {"exit", "closed"}, NotifyWaiters(p)
    PROVE  OInv'
<1>1. /\ events' = events /\ keepFrom' = keepFrom /\ replayFrom' = replayFrom
      /\ openStreams' = openStreams /\ entry' = entry
      /\ due' \subseteq due /\ reader' = reader /\ (rpc' = rpc \/ rpc' = "look")
      /\ cursor' = cursor /\ got' = got
      /\ ended' = ended /\ expired' = expired /\ looked' = looked /\ wakeSeen' = wakeSeen
      /\ replay' = replay /\ joined' = joined /\ live' = live
  BY DEF NotifyWaiters, procVars, pollVars, subVars
<1>2. PlainTypes /\ wakeSeen' \in 0..Last /\ live' \in 1..(Last + 1)
  BY <1>1, TypeParts DEF OInv, NumberTypes
<1>3. PlainTypes'
  BY <1>1, <1>2 DEF PlainTypes
<1> QED
  BY <1>1, <1>2, <1>3, QuietStep

\* The steps of a read that neither look at the process nor answer, and those of the
\* output task that only wake it.
LEMMA ReaderMovesKeep ==
    ASSUME OInv, PollStart \/ PollDeadline \/ TaskStart \/ TaskWake \/ ReadFails
    PROVE  OInv'
<1>1. /\ events' = events /\ keepFrom' = keepFrom /\ replayFrom' = replayFrom
      /\ openStreams' = openStreams /\ entry' = entry
      /\ due' = due /\ reader' = reader /\ cursor' = cursor /\ got' = got
      /\ looked' = looked /\ replay' = replay /\ joined' = joined /\ live' = live
  BY DEF PollStart, PollDeadline, TaskStart, TaskWake, ReadFails, procVars, pollVars, subVars
<1>2. PlainTypes /\ wakeSeen \in 0..Last /\ live' \in 1..(Last + 1) /\ Last \in Nat
  BY <1>1, TypeParts, NumberFacts DEF OInv, NumberTypes
<1>3. /\ rpc' \in {rpc, "look", "read", "end"}
      /\ ended' \in {ended, "failed"}
  BY DEF PollStart, PollDeadline, TaskStart, TaskWake, ReadFails
<1>4. expired' \in BOOLEAN
  <2>1. expired \in BOOLEAN
    BY <1>2 DEF PlainTypes
  <2> QED
    BY <2>1 DEF PollStart, PollDeadline, TaskStart, TaskWake, ReadFails, pollVars
<1>5. wakeSeen' \in {wakeSeen, Last}
  BY DEF PollStart, PollDeadline, TaskStart, TaskWake, ReadFails
<1>6. wakeSeen' \in 0..Last
  BY <1>2, <1>5
<1>7. PlainTypes'
  BY <1>1, <1>2, <1>3, <1>4 DEF PlainTypes
<1> QED
  BY <1>1, <1>2, <1>3, <1>6, <1>7, QuietStep

\* The subscriber learns that it lags: it is to recover before it goes on.
LEMMA RecvLaggedKeeps ==
    ASSUME OInv, RecvLagged
    PROVE  OInv'
<1>1. /\ events' = events /\ keepFrom' = keepFrom /\ replayFrom' = replayFrom
      /\ openStreams' = openStreams /\ entry' = entry
      /\ due' = due /\ reader' = reader /\ rpc' = "recover" /\ cursor' = cursor /\ got' = got
      /\ ended' = ended /\ expired' = expired /\ looked' = looked /\ wakeSeen' = wakeSeen
      /\ replay' = replay /\ joined' = joined /\ replay = << >>
      /\ live' = Last + 1 - EventCapacity /\ Last + 1 - live > EventCapacity
  BY DEF RecvLagged, Lagging, procVars, pollVars, subVars
<1>2. PlainTypes /\ wakeSeen' \in 0..Last /\ live \in 1..(Last + 1) /\ Last \in Nat
  BY <1>1, TypeParts, NumberFacts DEF OInv, NumberTypes
<1>3. live' \in 1..(Last + 1)
  BY <1>1, <1>2, OutputAssumption
<1>4. PlainTypes'
  BY <1>1, <1>2 DEF PlainTypes
<1> QED
  BY <1>1, <1>2, <1>3, <1>4, QuietStep

------------------------------------------------------------------------------
(* The reads.                                                              *)

\* When nothing retained is left out of a response, all of the log is accounted for.
LEMMA FullPage ==
    ASSUME OInv, NEW page, Retained(cursor) \subseteq page, Given' = Given \cup page,
           events' = events, keepFrom' = keepFrom, joined' = joined
    PROVE  \A k \in 1..Last : Covered(k)'
<1>1. Last \in Nat /\ cursor \in Nat
  BY NumberFacts
<1>2. \A k : Covered(k) => Covered(k)'
  BY SameAccount
<1>3. \A k \in 1..cursor : Covered(k)
  BY DEF OInv, InOrderCovered
<1>4. ASSUME NEW k \in 1..Last, k > cursor
      PROVE  Covered(k)'
  <2>1. IsOutput(k) => k \in page \/ k < keepFrom
    BY <1>4, RetainedFacts
  <2>2. IsOutput(k)' = IsOutput(k)
    BY DEF IsOutput
  <2> QED
    BY <2>1, <2>2 DEF Covered
<1>5. \A k \in 1..Last : k \in 1..cursor \/ k > cursor
  BY <1>1
<1> QED
  BY <1>2, <1>3, <1>4, <1>5

\* A response is passed on: the reader goes on behind it and has lost nothing.
LEMMA TakeKeeps ==
    ASSUME OInv, PlainTypes', NEW page, page \subseteq Retained(cursor),
           \A k \in page, j \in Retained(cursor) : j <= k => j \in page,
           page = {} => Retained(cursor) = {},
           got' \in {got \o q : q \in InOrder(page)}, cursor' = NextSeq(page) - 1,
           UNCHANGED <<events, keepFrom, replayFrom, openStreams, reader, looked, wakeSeen,
                       replay, joined, live>>,
           rpc' # "gap", reader = "transport" => rpc' # "start",
           rpc' = "recv" => Retained(cursor) \subseteq page,
           ended' = "closed" => ended = "closed" \/ (Closed /\ Retained(cursor) \subseteq page)
    PROVE  OInv'
<1>1. /\ events' = events /\ keepFrom' = keepFrom /\ replayFrom' = replayFrom
      /\ openStreams' = openStreams /\ reader' = reader /\ looked' = looked
      /\ wakeSeen' = wakeSeen /\ replay' = replay /\ joined' = joined /\ live' = live
  OBVIOUS
<1>2. /\ got' \in Seq(1..Last)
      /\ \A i, j \in 1..Len(got') : i < j => got'[i] < got'[j]
      /\ Given' = Given \cup page
      /\ \A i \in 1..Len(got') : got'[i] <= cursor \/ got'[i] \in page
  BY GivenFacts
<1>3. /\ cursor' \in Nat /\ cursor' <= Last /\ cursor' >= cursor
      /\ \A k \in page : k <= cursor'
      /\ \A k \in 1..cursor' : IsOutput(k) /\ k > cursor => k \in page \/ k < keepFrom
  <2>1. /\ NextSeq(page) - 1 \in Nat /\ NextSeq(page) \in 1..(Last + 1)
        /\ NextSeq(page) - 1 <= Last /\ NextSeq(page) > cursor
        /\ \A k \in page : k <= NextSeq(page) - 1
        /\ \A k \in 1..(NextSeq(page) - 1) : IsOutput(k) /\ k > cursor => k \in page \/ k < keepFrom
    BY NextFacts
  <2>2. cursor \in Nat /\ Last \in Nat
    BY NumberFacts
  <2>3. NextSeq(page) - 1 >= cursor
    BY <2>1, <2>2
  <2> QED
    BY <2>1, <2>3
<1>4. /\ Last' = Last /\ Closed' = Closed /\ ClosedIsLast'
  BY <1>1, SameLog
<1>5. \A k : Covered(k) => Covered(k)'
  BY <1>1, <1>2, SameAccount
<1>6. /\ Last \in Nat /\ cursor \in Nat /\ NumberTypes
      /\ \A k \in 1..cursor : Covered(k)
  BY NumberFacts, TypeParts DEF OInv, InOrderCovered
<1> HIDE DEF Last
<1>7. NumberTypes'
  <2>1. cursor' \in 0..Last
    BY <1>3, <1>6
  <2> QED
    BY <1>1, <1>2, <1>4, <1>6, <2>1 DEF NumberTypes
<1>8. InOrderCovered'
  <2>1. ASSUME NEW k \in 1..cursor'
        PROVE  Covered(k)'
    <3>1. CASE k <= cursor
      <4>1. k \in 1..cursor
        BY <1>3, <1>6, <3>1
      <4> QED
        BY <1>5, <1>6, <4>1
    <3>2. CASE k > cursor
      <4>1. IsOutput(k) => k \in page \/ k < keepFrom
        BY <1>3, <3>2
      <4>2. IsOutput(k)' = IsOutput(k)
        BY <1>1 DEF IsOutput
      <4> QED
        BY <1>1, <1>2, <4>1, <4>2 DEF Covered
    <3>3. k \in Nat
      BY <1>3
    <3> QED
      BY <1>6, <3>1, <3>2, <3>3
  <2> QED
    BY <1>2, <2>1 DEF InOrderCovered
<1>9. \A i \in 1..Len(got') : got'[i] <= cursor'
  <2>1. ASSUME NEW i \in 1..Len(got')
        PROVE  got'[i] <= cursor'
    <3>1. got'[i] \in Nat
      <4> DEFINE S == 1..Last
      <4>1. got' \in Seq(S)
        BY <1>2
      <4> HIDE DEF S
      <4>2. got'[i] \in S
        BY <4>1
      <4> QED
        BY <1>6, <4>2 DEF S
    <3>2. got'[i] <= cursor \/ got'[i] \in page
      BY <1>2
    <3> QED
      BY <1>3, <1>6, <3>1, <3>2
  <2> QED
    BY <2>1
<1>10. Retained(cursor) \subseteq page => \A k \in 1..Last : Covered(k)'
  BY <1>1, <1>2, FullPage
<1>11. EndCovered'
  <2>1. EndCovered
    BY DEF OInv
  <2> QED
    BY <1>4, <1>5, <1>10, <2>1 DEF EndCovered
<1>12. SubscriberSound'
  <2>1. SubscriberSound /\ live \in 1..(Last + 1) /\ Len(replay) \in Nat
    BY <1>6, NumberFacts DEF OInv, NumberTypes
  <2>2. NextEvent' = NextEvent /\ NextEvent = live - Len(replay)
    BY <1>1 DEF NextEvent
  <2>3. \A k \in 1..(NextEvent - 1) : k \in 1..Last
    BY <1>6, <2>1, <2>2
  <2> QED
    BY <1>1, <1>10, <2>1, <2>2, <2>3 DEF SubscriberSound
<1>13. LookedSound'
  BY DEF LookedSound
<1>14. OTypeOK'
  BY <1>7 DEF OTypeOK, PlainTypes, NumberTypes
<1> QED
  BY <1>4, <1>8, <1>9, <1>11, <1>12, <1>13, <1>14 DEF OInv

\* The output task reads.
LEMMA TaskReadKeeps ==
    ASSUME OInv, TaskRead
    PROVE  OInv'
<1> DEFINE page == Retained(cursor)
<1>1. /\ events' = events /\ keepFrom' = keepFrom /\ replayFrom' = replayFrom
      /\ openStreams' = openStreams /\ entry' = entry /\ due' = due /\ reader' = reader
      /\ expired' = expired /\ looked' = looked /\ wakeSeen' = wakeSeen
      /\ replay' = replay /\ joined' = joined /\ live' = live
  BY DEF TaskRead, procVars, pollVars, subVars
<1>2. /\ got' \in {got \o q : q \in InOrder(page)} /\ cursor' = NextSeq(page) - 1
      /\ reader = "task" /\ rpc' \in {"end", "wait"} /\ ended' \in {ended, "closed"}
      /\ (ended' = "closed" => ended = "closed" \/ Closed)
  BY DEF TaskRead, Take
<1>3. PlainTypes'
  <2>1. PlainTypes
    BY TypeParts DEF OInv
  <2> QED
    BY <1>1, <1>2, <2>1 DEF PlainTypes
<1> QED
  BY <1>1, <1>2, <1>3, TakeKeeps

\* The subscriber recovers by reading all that is retained.
LEMMA RecoverLaggedKeeps ==
    ASSUME OInv, RecoverLagged
    PROVE  OInv'
<1> DEFINE page == Retained(cursor)
<1>1. /\ events' = events /\ keepFrom' = keepFrom /\ replayFrom' = replayFrom
      /\ openStreams' = openStreams /\ entry' = entry /\ due' = due /\ reader' = reader
      /\ expired' = expired /\ looked' = looked /\ wakeSeen' = wakeSeen
      /\ replay' = replay /\ joined' = joined /\ live' = live
  BY DEF RecoverLagged, procVars, pollVars, subVars
<1>2. /\ got' \in {got \o q : q \in InOrder(page)}
      /\ cursor' = IF NextSeq(page) - 1 > cursor THEN NextSeq(page) - 1 ELSE cursor
      /\ rpc' \in {"end", "recv"} /\ ended' \in {ended, "closed"}
      /\ (ended' = "closed" => ended = "closed" \/ Closed)
  BY DEF RecoverLagged
<1>3. cursor' = NextSeq(page) - 1
  <2>1. NextSeq(page) - 1 \in Nat /\ NextSeq(page) \in 1..(Last + 1) /\ NextSeq(page) > cursor
    BY NextFacts
  <2>2. cursor \in Nat
    BY NumberFacts
  <2> HIDE DEF page
  <2> QED
    BY <1>2, <2>1, <2>2
<1>4. PlainTypes'
  <2>1. PlainTypes
    BY TypeParts DEF OInv
  <2> QED
    BY <1>1, <1>2, <2>1 DEF PlainTypes
<1> QED
  BY <1>1, <1>2, <1>3, <1>4, TakeKeeps

\* A long-poll read answers, or computes a response and goes to wait: what it computed
\* then is that nothing is retained that it has not given.
LEMMA PollLookKeeps ==
    ASSUME OInv, NEW max \in PageBytes, PollLook(max)
    PROVE  OInv'
<1> DEFINE page == Page(cursor, max)
<1>1. /\ events' = events /\ keepFrom' = keepFrom /\ replayFrom' = replayFrom
      /\ openStreams' = openStreams /\ entry' = entry /\ due' = due /\ reader' = reader
      /\ expired' = expired /\ wakeSeen' = wakeSeen
      /\ replay' = replay /\ joined' = joined /\ live' = live /\ reader = "poll"
  BY DEF PollLook, procVars, pollVars, subVars
<1>2. /\ page \subseteq Retained(cursor)
      /\ \A k \in page, j \in Retained(cursor) : j <= k => j \in page
      /\ page = {} => Retained(cursor) = {}
  BY PageFacts
<1>3. PlainTypes /\ NumberTypes
  BY TypeParts DEF OInv
<1>4. CASE page # {} \/ Closed \/ (Exited /\ cursor < NextSeq(page) - 1) \/ expired
  <2>1. /\ got' \in {got \o q : q \in InOrder(page)} /\ cursor' = NextSeq(page) - 1
        /\ rpc' = "start" /\ looked' = looked /\ ended' \in {ended, "closed"}
        /\ (ended' = "closed" => ended = "closed" \/ (Closed /\ page = {}))
    BY <1>4 DEF PollLook, Take
  <2>2. PlainTypes'
    BY <1>1, <1>3, <2>1 DEF PlainTypes
  <2> HIDE DEF page
  <2> QED
    BY <1>1, <1>2, <2>1, <2>2, TakeKeeps
<1>5. CASE ~(page # {} \/ Closed \/ (Exited /\ cursor < NextSeq(page) - 1) \/ expired)
  <2>1. /\ page = {} /\ looked' = NextSeq(page) /\ rpc' = "gap"
        /\ cursor' = cursor /\ got' = got /\ ended' = ended
    BY <1>5 DEF PollLook
  <2>2. looked' = Last + 1 /\ Retained(cursor) = {}
    BY <1>2, <2>1 DEF NextSeq
  <2>3. Given' = Given /\ Given' = Given \cup Retained(cursor)
    BY <2>1, <2>2 DEF Given
  <2>4. /\ Last' = Last /\ Closed' = Closed /\ ClosedIsLast'
    BY <1>1, SameLog
  <2>5. /\ \A k : Covered(k) => Covered(k)'
        /\ \A k \in 1..Last : Covered(k)'
    BY <1>1, <2>3, SameAccount, FullPage
  <2>6. Last \in Nat /\ cursor \in Nat /\ cursor <= Last
    BY NumberFacts
  <2>7. PlainTypes'
    BY <1>1, <1>3, <2>1 DEF PlainTypes
  <2> HIDE DEF Last, page
  <2>8. NumberTypes'
    <3>1. looked' \in 0..(Last + 1)
      BY <2>2, <2>6
    <3> QED
      BY <1>1, <1>3, <2>1, <2>4, <3>1 DEF NumberTypes
  <2>9. LookedSound'
    <3>1. looked' > cursor' /\ looked' - 1 = Last
      BY <2>1, <2>2, <2>6
    <3> QED
      BY <2>5, <3>1 DEF LookedSound
  <2>10. InOrderCovered' /\ \A i \in 1..Len(got') : got'[i] <= cursor'
    <3>1. InOrderCovered /\ \A i \in 1..Len(got) : got[i] <= cursor
      BY DEF OInv
    <3> QED
      BY <2>1, <2>5, <3>1 DEF InOrderCovered
  <2>11. EndCovered'
    <3>1. EndCovered
      BY DEF OInv
    <3> QED
      BY <2>1, <2>4, <2>5, <3>1 DEF EndCovered
  <2>12. SubscriberSound'
    <3>1. SubscriberSound
      BY DEF OInv
    <3>2. NextEvent' = NextEvent
      BY <1>1 DEF NextEvent
    <3> QED
      BY <1>1, <2>1, <3>1, <3>2 DEF SubscriberSound
  <2>13. OTypeOK'
    BY <2>7, <2>8 DEF OTypeOK, PlainTypes, NumberTypes
  <2> QED
    BY <2>4, <2>9, <2>10, <2>11, <2>12, <2>13 DEF OInv
<1> QED
  BY <1>4, <1>5

\* A read that finds its time over answers with the response it computed.
LEMMA PollWaitKeeps ==
    ASSUME OInv, PollWait
    PROVE  OInv'
<1>1. /\ events' = events /\ keepFrom' = keepFrom /\ replayFrom' = replayFrom
      /\ openStreams' = openStreams /\ entry' = entry /\ due' = due /\ reader' = reader
      /\ expired' = expired /\ looked' = looked /\ wakeSeen' = wakeSeen /\ got' = got
      /\ ended' = ended
      /\ replay' = replay /\ joined' = joined /\ live' = live /\ reader = "poll"
      /\ rpc = "gap" /\ rpc' \in {"start", "waiting"}
      /\ (rpc' = "waiting" => cursor' = cursor) /\ (rpc' = "start" => cursor' = looked - 1)
  BY DEF PollWait, procVars, pollVars, subVars
<1>2. PlainTypes /\ NumberTypes
  BY TypeParts DEF OInv
<1>3. PlainTypes'
  BY <1>1, <1>2 DEF PlainTypes
<1>4. CASE rpc' = "waiting"
  <2>1. wakeSeen' \in 0..Last /\ live' \in 1..(Last + 1)
    BY <1>1, <1>2 DEF NumberTypes
  <2> QED
    BY <1>1, <1>3, <1>4, <2>1, QuietStep
<1>5. CASE rpc' = "start"
  <2>1. Given' = Given
    BY <1>1 DEF Given
  <2>2. /\ Last' = Last /\ Closed' = Closed /\ ClosedIsLast'
    BY <1>1, SameLog
  <2>3. \A k : Covered(k) => Covered(k)'
    BY <1>1, <2>1, SameAccount
  <2>4. Last \in Nat /\ cursor \in Nat /\ looked \in 0..(Last + 1)
    BY <1>2, NumberFacts DEF NumberTypes
  <2>5. looked > cursor /\ \A k \in 1..(looked - 1) : Covered(k)
    BY <1>1 DEF OInv, LookedSound
  <2> HIDE DEF Last
  <2>6. cursor' \in 0..Last /\ cursor' >= cursor /\ cursor' = looked - 1
    BY <1>1, <1>5, <2>4, <2>5
  <2>7. NumberTypes'
    BY <1>1, <1>2, <2>2, <2>6 DEF NumberTypes
  <2>8. InOrderCovered'
    <3>1. InOrderCovered
      BY DEF OInv
    <3> QED
      BY <1>1, <2>3, <2>5, <2>6, <3>1 DEF InOrderCovered
  <2>9. \A i \in 1..Len(got') : got'[i] <= cursor'
    <3>1. \A i \in 1..Len(got) : got[i] <= cursor /\ got[i] \in Nat
      BY NumberFacts DEF OInv
    <3> QED
      BY <1>1, <2>4, <2>6, <3>1
  <2>10. EndCovered'
    <3>1. EndCovered
      BY DEF OInv
    <3> QED
      BY <1>1, <2>2, <2>3, <3>1 DEF EndCovered
  <2>11. SubscriberSound'
    <3>1. SubscriberSound
      BY DEF OInv
    <3>2. NextEvent' = NextEvent
      BY <1>1 DEF NextEvent
    <3> QED
      BY <1>1, <1>5, <3>1, <3>2 DEF SubscriberSound
  <2>12. LookedSound'
    BY <1>5 DEF LookedSound
  <2>13. OTypeOK'
    BY <1>3, <2>7 DEF OTypeOK, PlainTypes, NumberTypes
  <2> QED
    BY <2>2, <2>8, <2>9, <2>10, <2>11, <2>12, <2>13 DEF OInv
<1> QED
  BY <1>1, <1>4, <1>5

------------------------------------------------------------------------------
(* The subscriber.                                                         *)

\* A function on an initial segment is a sequence.
LEMMA SegmentIsSeq ==
    ASSUME NEW S, NEW m \in Nat, NEW r \in [1..m -> S]
    PROVE  r \in Seq(S) /\ Len(r) = m
  OBVIOUS

\* The replay a subscription begins with.
LEMMA ReplayFacts ==
    ASSUME NEW n \in Nat, NEW f \in 1..(n + 1),
           NEW r, r = [i \in 1..(n + 1 - f) |-> f + i - 1]
    PROVE  /\ r \in Seq(1..n) /\ Len(r) = n + 1 - f
           /\ \A i \in 1..Len(r) : r[i] = f + i - 1
<1> DEFINE m == n + 1 - f
<1>1. m \in Nat
  OBVIOUS
<1>2. \A i \in 1..m : f + i - 1 \in 1..n
  OBVIOUS
<1>3. r = [i \in 1..m |-> f + i - 1]
  OBVIOUS
<1> HIDE DEF m
<1> DEFINE S == 1..n
<1>4. r \in [1..m -> S]
  <2>1. \A i \in 1..m : f + i - 1 \in S
    BY <1>2
  <2> HIDE DEF S
  <2> QED
    BY <1>3, <2>1
<1> HIDE DEF S
<1>5. r \in Seq(S) /\ Len(r) = m
  BY <1>1, <1>4, SegmentIsSeq, Zenon
<1>6. \A i \in 1..m : r[i] = f + i - 1
  BY <1>3
<1>7. \A i \in 1..Len(r) : r[i] = f + i - 1
  BY <1>5, <1>6
<1>8. Len(r) = n + 1 - f
  BY <1>5 DEF m
<1>9. r \in Seq(1..n)
  BY <1>5 DEF S
<1> QED
  BY <1>7, <1>8, <1>9

\* Subscribing fixes where the subscriber begins: the replay history, then the live
\* channel, without a gap between them.
LEMMA SubscribeKeeps ==
    ASSUME OInv, Subscribe
    PROVE  OInv'
<1>1. /\ events' = events /\ keepFrom' = keepFrom /\ replayFrom' = replayFrom
      /\ openStreams' = openStreams /\ entry' = entry /\ due' = due /\ reader' = reader
      /\ expired' = expired /\ looked' = looked /\ wakeSeen' = wakeSeen /\ got' = got
      /\ ended' = ended /\ cursor' = cursor
      /\ joined' = replayFrom /\ live' = Last + 1 /\ reader = "transport"
      /\ rpc = "start" /\ rpc' = "recv"
      /\ replay' = [i \in 1..(Last + 1 - replayFrom) |-> replayFrom + i - 1]
  BY DEF Subscribe, procVars, pollVars
<1>2. PlainTypes /\ NumberTypes
  BY TypeParts DEF OInv
<1>3. PlainTypes'
  BY <1>1, <1>2 DEF PlainTypes
<1>4. /\ Last' = Last /\ Closed' = Closed /\ ClosedIsLast'
  BY <1>1, SameLog
<1>5. Last \in Nat /\ replayFrom \in 1..(Last + 1)
  BY <1>2, NumberFacts DEF NumberTypes
<1> HIDE DEF Last
<1>6. /\ replay' \in Seq(1..Last) /\ Len(replay') = Last + 1 - replayFrom
      /\ \A i \in 1..Len(replay') : replay'[i] = replayFrom + i - 1
  BY <1>1, <1>5, ReplayFacts
<1>7. cursor = 0 /\ joined = 1
  BY <1>1 DEF OInv, SubscriberSound
<1>8. \A k \in 1..Last : Covered(k) => Covered(k)'
  <2>1. /\ Given' = Given /\ \A k : IsOutput(k)' = IsOutput(k)
    BY <1>1 DEF Given, IsOutput
  <2>2. \A k \in 1..Last : k < joined => k < joined'
    BY <1>1, <1>5, <1>7
  <2> QED
    BY <1>1, <2>1, <2>2 DEF Covered
<1>9. NumberTypes'
  <2>1. joined' \in 1..(Last + 1) /\ live' \in 1..(Last + 1)
    BY <1>1, <1>5
  <2> QED
    BY <1>1, <1>2, <1>4, <1>6, <2>1 DEF NumberTypes
<1>10. InOrderCovered' /\ \A i \in 1..Len(got') : got'[i] <= cursor'
  <2>1. InOrderCovered /\ \A i \in 1..Len(got) : got[i] <= cursor
    BY DEF OInv
  <2>2. \A k \in 1..cursor' : FALSE
    BY <1>1, <1>7
  <2> QED
    BY <1>1, <2>1, <2>2 DEF InOrderCovered
<1>11. EndCovered'
  <2>1. EndCovered
    BY DEF OInv
  <2> QED
    BY <1>1, <1>4, <1>8, <2>1 DEF EndCovered
<1>12. NextEvent' = replayFrom
  <2>1. NextEvent' = live' - Len(replay')
    BY DEF NextEvent
  <2>2. NextEvent' = (Last + 1) - (Last + 1 - replayFrom)
    BY <1>1, <1>6, <2>1
  <2> QED
    BY <1>5, <2>2
<1>13. SubscriberSound'
  <2>1. \A k \in 1..(replayFrom - 1) : k < joined'
    BY <1>1, <1>5
  <2>2. \A k \in 1..(NextEvent' - 1) : Covered(k)'
    BY <1>12, <2>1 DEF Covered
  <2>3. NextEvent' >= 1
    BY <1>5, <1>12
  <2>4. \A i \in 1..Len(replay') : replay'[i] = NextEvent' + i - 1
    BY <1>6, <1>12
  <2> QED
    BY <1>1, <2>2, <2>3, <2>4 DEF SubscriberSound
<1>14. LookedSound'
  BY <1>1 DEF LookedSound
<1>15. OTypeOK'
  BY <1>3, <1>9 DEF OTypeOK, PlainTypes, NumberTypes
<1> QED
  BY <1>4, <1>10, <1>11, <1>13, <1>14, <1>15 DEF OInv

\* One event is received: what precedes it was accounted for, it is passed on unless
\* it was given before, and Closed comes after all the rest.
LEMMA ReceiveKeeps ==
    ASSUME OInv, NEW k \in 1..Last, k = NextEvent, Receive(k), rpc = "recv",
           reader = "transport",
           UNCHANGED <<events, keepFrom, replayFrom, openStreams, entry, due, reader, expired,
                       looked, wakeSeen, joined>>,
           replay' \in Seq(1..Last), live' \in 1..(Last + 1), NextEvent' = k + 1,
           \A i \in 1..Len(replay') : replay'[i] = NextEvent' + i - 1
    PROVE  OInv'
<1>1. /\ events' = events /\ keepFrom' = keepFrom /\ replayFrom' = replayFrom
      /\ openStreams' = openStreams /\ entry' = entry /\ due' = due /\ reader' = reader
      /\ expired' = expired /\ looked' = looked /\ wakeSeen' = wakeSeen /\ joined' = joined
  OBVIOUS
<1>2. /\ cursor' = IF k > cursor THEN k ELSE cursor
      /\ got' = IF IsOutput(k) /\ k > cursor THEN Append(got, k) ELSE got
      /\ ended' \in {ended, "closed"} /\ rpc' \in {"end", "recv"}
      /\ (ended' = "closed" => ended = "closed" \/ events[k].kind = "closed")
  BY DEF Receive
<1>3. PlainTypes /\ NumberTypes
  BY TypeParts DEF OInv
<1>4. PlainTypes'
  BY <1>1, <1>2, <1>3 DEF PlainTypes
<1>5. /\ Last' = Last /\ Closed' = Closed /\ ClosedIsLast'
  BY <1>1, SameLog
<1>6. /\ Last \in Nat /\ cursor \in Nat /\ cursor <= Last /\ k \in Nat /\ Len(got) \in Nat
      /\ got \in Seq(1..Last) /\ \A i \in 1..Len(got) : got[i] \in Nat
  BY NumberFacts
<1>7. /\ \A i, j \in 1..Len(got) : i < j => got[i] < got[j]
      /\ \A i \in 1..Len(got) : got[i] <= cursor
      /\ \A j \in 1..cursor : Covered(j)
      /\ \A j \in 1..(k - 1) : Covered(j)
  BY DEF OInv, InOrderCovered, SubscriberSound
<1> HIDE DEF Last
<1>8. /\ got' \in Seq(1..Last)
      /\ \A i, j \in 1..Len(got') : i < j => got'[i] < got'[j]
      /\ \A i \in 1..Len(got') : got'[i] <= cursor'
      /\ Given \subseteq Given'
      /\ (IsOutput(k) /\ k > cursor => k \in Given')
  <2>1. CASE IsOutput(k) /\ k > cursor
    <3> DEFINE S == 1..Last
               n == Len(got)
    <3>1. got \in Seq(S) /\ k \in S
      BY <1>6
    <3> HIDE DEF S
    <3>2. /\ Append(got, k) \in Seq(S) /\ Len(Append(got, k)) = n + 1
          /\ \A i \in 1..n : Append(got, k)[i] = got[i]
          /\ Append(got, k)[n + 1] = k
      BY <3>1, AppendFacts
    <3>3. got' = Append(got, k) /\ cursor' = k
      BY <1>2, <2>1
    <3>4. /\ got' \in Seq(S) /\ Len(got') = n + 1 /\ n \in Nat
          /\ \A i \in 1..n : got'[i] = got[i]
          /\ got'[n + 1] = k
      BY <1>6, <3>2, <3>3
    <3>5. \A i \in 1..n : got'[i] \in Nat /\ got'[i] < k /\ i \in 1..Len(got')
      <4>1. ASSUME NEW i \in 1..n PROVE got[i] \in Nat /\ got[i] <= cursor
        BY <1>6, <1>7, <4>1
      <4>2. k \in Nat /\ cursor \in Nat /\ cursor < k
        BY <1>6, <2>1
      <4>3. ASSUME NEW i \in 1..n PROVE i \in 1..Len(got')
        BY <3>4, <4>3
      <4>4. \A i \in 1..n : got[i] \in Nat /\ got[i] < k
        BY <4>1, <4>2
      <4> QED
        BY <3>4, <4>3, <4>4
    <3>6. \A i \in 1..Len(got') : i \in 1..n \/ i = n + 1
      BY <3>4
    <3> HIDE DEF n
    <3>7. ASSUME NEW i \in 1..Len(got'), NEW j \in 1..Len(got'), i < j
          PROVE  got'[i] < got'[j]
      <4>1. i \in 1..n
        BY <3>4, <3>7
      <4>2. CASE j \in 1..n
        BY <1>7, <3>4, <3>7, <4>1, <4>2 DEF n
      <4>3. CASE j = n + 1
        BY <3>4, <3>5, <4>1, <4>3
      <4> QED
        BY <3>6, <4>2, <4>3
    <3>8. \A i \in 1..Len(got') : got'[i] <= cursor'
      BY <1>6, <3>3, <3>4, <3>5, <3>6
    <3>9. Given \subseteq Given' /\ k \in Given'
      <4>1. \A i \in 1..n : got[i] \in Given'
        BY <3>4, <3>5 DEF Given
      <4>2. n + 1 \in 1..Len(got')
        BY <3>4
      <4>3. k \in Given'
        BY <3>4, <4>2 DEF Given
      <4> QED
        BY <4>1, <4>3 DEF Given, n
    <3> QED
      BY <3>4, <3>7, <3>8, <3>9 DEF S
  <2>2. CASE ~(IsOutput(k) /\ k > cursor)
    <3>1. got' = got /\ cursor' \in Nat /\ cursor <= cursor'
      BY <1>2, <1>6, <2>2
    <3>2. Given' = Given
      BY <3>1 DEF Given
    <3>3. \A i \in 1..Len(got) : got[i] <= cursor'
      BY <1>6, <1>7, <3>1
    <3> QED
      BY <1>6, <1>7, <2>2, <3>1, <3>2, <3>3
  <2> QED
    BY <2>1, <2>2
<1>9. \A j : Covered(j) => Covered(j)'
  BY <1>1, <1>8, SameAccount
<1>10. \A j \in 1..k : Covered(j)'
  <2>1. Covered(k)'
    <3>1. CASE k > cursor
      <4>1. IsOutput(k)' = IsOutput(k)
        BY <1>1 DEF IsOutput
      <4> QED
        BY <1>8, <3>1, <4>1 DEF Covered
    <3>2. CASE k <= cursor
      <4>1. k \in 1..cursor
        BY <1>6, <3>2
      <4> QED
        BY <1>7, <1>9, <4>1
    <3> QED
      BY <1>6, <3>1, <3>2
  <2>2. \A j \in 1..k : j = k \/ j \in 1..(k - 1)
    BY <1>6
  <2> QED
    BY <1>7, <1>9, <2>1, <2>2
<1>11. cursor' \in 0..Last /\ \A j \in 1..cursor' : j \in 1..k \/ j \in 1..cursor
  BY <1>2, <1>6
<1>12. NumberTypes'
  BY <1>1, <1>3, <1>5, <1>8, <1>11 DEF NumberTypes
<1>13. InOrderCovered'
  BY <1>7, <1>8, <1>9, <1>10, <1>11 DEF InOrderCovered
<1>14. EndCovered'
  <2>1. EndCovered /\ ClosedIsLast
    BY DEF OInv
  <2>2. CASE events[k].kind = "closed"
    <3>1. k = Last /\ Closed
      BY <2>1, <2>2 DEF ClosedIsLast, Closed
    <3> QED
      BY <1>5, <1>10, <3>1 DEF EndCovered
  <2>3. CASE events[k].kind # "closed"
    BY <1>2, <1>5, <1>9, <2>1, <2>3 DEF EndCovered
  <2> QED
    BY <2>2, <2>3
<1>15. SubscriberSound'
  <2>1. NextEvent' - 1 = k /\ NextEvent' >= 1
    BY <1>6
  <2> QED
    BY <1>2, <1>10, <2>1 DEF SubscriberSound
<1>16. LookedSound'
  BY <1>2 DEF LookedSound
<1>17. OTypeOK'
  BY <1>4, <1>12 DEF OTypeOK, PlainTypes, NumberTypes
<1> QED
  BY <1>5, <1>8, <1>13, <1>14, <1>15, <1>16, <1>17 DEF OInv

\* An event of the replay.
LEMMA RecvReplayKeeps ==
    ASSUME OInv, RecvReplay
    PROVE  OInv'
<1> DEFINE k == Head(replay)
<1>1. /\ events' = events /\ keepFrom' = keepFrom /\ replayFrom' = replayFrom
      /\ openStreams' = openStreams /\ entry' = entry /\ due' = due /\ reader' = reader
      /\ expired' = expired /\ looked' = looked /\ wakeSeen' = wakeSeen /\ joined' = joined
      /\ live' = live /\ replay' = Tail(replay) /\ replay # << >>
      /\ reader = "transport" /\ rpc = "recv" /\ Receive(k)
  BY DEF RecvReplay, procVars, pollVars
<1>2. /\ Last \in Nat /\ live \in 1..(Last + 1) /\ Len(replay) \in Nat
  BY NumberFacts, TypeParts DEF OInv, NumberTypes
<1>3. /\ replay' \in Seq(1..Last) /\ Len(replay) \in Nat \ {0}
      /\ Len(replay') = Len(replay) - 1
      /\ \A i \in 1..Len(replay') : replay'[i] = replay[i + 1]
      /\ k = replay[1] /\ k \in 1..Last
  <2> DEFINE S == 1..Last
  <2>1. replay \in Seq(S)
    BY NumberFacts
  <2> HIDE DEF S, k
  <2>2. /\ Tail(replay) \in Seq(S) /\ Len(replay) \in Nat \ {0}
        /\ Len(Tail(replay)) = Len(replay) - 1
        /\ \A i \in 1..Len(Tail(replay)) : Tail(replay)[i] = replay[i + 1]
        /\ k = replay[1] /\ k \in S
    BY <1>1, <2>1, TailFacts DEF k
  <2> QED
    BY <1>1, <2>2 DEF S
<1> HIDE DEF Last, k
<1>4. /\ NextEvent = live - Len(replay) /\ NextEvent' = live - Len(replay')
      /\ \A i \in 1..Len(replay) : replay[i] = NextEvent + i - 1
  BY <1>1 DEF NextEvent, OInv, SubscriberSound
<1>5. NextEvent \in Int /\ NextEvent' = NextEvent + 1
  BY <1>2, <1>3, <1>4
<1>6. k = NextEvent
  <2>1. 1 \in 1..Len(replay)
    BY <1>3
  <2>2. replay[1] = NextEvent + 1 - 1
    BY <1>4, <2>1
  <2> QED
    BY <1>3, <1>5, <2>2
<1>7. ASSUME NEW i \in 1..Len(replay')
      PROVE  replay'[i] = NextEvent' + i - 1
  <2>1. i + 1 \in 1..Len(replay) /\ i \in Nat
    BY <1>3
  <2>2. replay'[i] = NextEvent + (i + 1) - 1
    BY <1>3, <1>4, <2>1
  <2> QED
    BY <1>5, <2>1, <2>2
<1> QED
  BY <1>1, <1>2, <1>3, <1>5, <1>6, <1>7, ReceiveKeeps

\* An event of the live channel, when the replay is used up.
LEMMA RecvLiveKeeps ==
    ASSUME OInv, RecvLive
    PROVE  OInv'
<1>1. /\ events' = events /\ keepFrom' = keepFrom /\ replayFrom' = replayFrom
      /\ openStreams' = openStreams /\ entry' = entry /\ due' = due /\ reader' = reader
      /\ expired' = expired /\ looked' = looked /\ wakeSeen' = wakeSeen /\ joined' = joined
      /\ live' = live + 1 /\ replay' = replay /\ replay = << >>
      /\ reader = "transport" /\ rpc = "recv" /\ Receive(live) /\ live <= Last
  BY DEF RecvLive, procVars, pollVars
<1>2. /\ Last \in Nat /\ live \in 1..(Last + 1) /\ Len(replay) = 0 /\ replay \in Seq(1..Last)
  BY <1>1, NumberFacts, TypeParts DEF OInv, NumberTypes
<1> HIDE DEF Last
<1>3. live \in 1..Last /\ live' \in 1..(Last + 1) /\ live - 0 = live /\ live + 1 - 0 = live + 1
  BY <1>1, <1>2
<1>4. Len(replay') = 0 /\ replay' \in Seq(1..Last)
  BY <1>1, <1>2
<1>5. live = NextEvent
  BY <1>2, <1>3, Zenon DEF NextEvent
<1>6. NextEvent' = live + 1
  <2>1. NextEvent' = live' - 0
    BY <1>4, Zenon DEF NextEvent
  <2>2. live' = live + 1
    BY <1>1
  <2>3. \A n \in Nat : (n + 1) - 0 = n + 1
    OBVIOUS
  <2>4. live \in Nat
    BY <1>2
  <2>5. (live + 1) - 0 = live + 1
    BY <2>3, <2>4, Zenon
  <2> QED
    BY <2>1, <2>2, <2>5, Zenon
<1>7. \A i \in 1..Len(replay') : replay'[i] = NextEvent' + i - 1
  BY <1>4
<1> QED
  BY <1>1, <1>3, <1>4, <1>5, <1>6, <1>7, ReceiveKeeps

------------------------------------------------------------------------------
(* The theorems.                                                           *)

\* A step in which nothing changes.
LEMMA OutStutters == ASSUME OInv, UNCHANGED ovars PROVE OInv'
<1>1. /\ events' = events /\ keepFrom' = keepFrom /\ replayFrom' = replayFrom
      /\ openStreams' = openStreams /\ entry' = entry /\ due' = due /\ reader' = reader
      /\ rpc' = rpc /\ cursor' = cursor /\ got' = got /\ ended' = ended
      /\ expired' = expired /\ looked' = looked /\ wakeSeen' = wakeSeen
      /\ replay' = replay /\ joined' = joined /\ live' = live
  BY DEF ovars
<1>2. PlainTypes /\ wakeSeen' \in 0..Last /\ live' \in 1..(Last + 1)
  BY <1>1, TypeParts DEF OInv, NumberTypes
<1>3. PlainTypes'
  BY <1>1, <1>2 DEF PlainTypes
<1> QED
  BY <1>1, <1>2, <1>3, QuietStep

\* Every step of the process and of each of its readers preserves the invariant.
LEMMA OutStep == ASSUME OInv, [ONext]_ovars PROVE OInv'
<1>1. CASE Produce
  <2>1. ASSUME NEW s \in Streams, NEW size \in Sizes, StreamOutput(s, size)
        PROVE  OInv'
    BY <2>1, StreamOutputKeeps
  <2>2. ASSUME NEW s \in Streams, FinishOutputStream(s)
        PROVE  OInv'
    BY <2>2, FinishKeeps
  <2>3. ASSUME NEW p \in Streams \cup {"exit", "closed"}, NotifyWaiters(p)
        PROVE  OInv'
    BY <2>3, NotifyKeeps
  <2> QED
    BY <1>1, <2>1, <2>2, <2>3, WatchExitKeeps, MaybeEmitClosedKeeps, RetentionEndsKeeps
       DEF Produce
<1>2. CASE PollSteps
  <2>1. ASSUME NEW max \in PageBytes, PollLook(max)
        PROVE  OInv'
    BY <2>1, PollLookKeeps
  <2> QED
    BY <1>2, <2>1, ReaderMovesKeep, PollWaitKeeps DEF PollSteps
<1>3. CASE TaskSteps
  BY <1>3, ReaderMovesKeep, TaskReadKeeps DEF TaskSteps
<1>4. CASE TransportSteps
  BY <1>4, SubscribeKeeps, RecvReplayKeeps, RecvLiveKeeps, RecvLaggedKeeps,
     RecoverLaggedKeeps DEF TransportSteps
<1>5. CASE ReadFails
  BY <1>5, ReaderMovesKeep
<1>6. CASE UNCHANGED ovars
  BY <1>6, OutStutters
<1> QED
  BY <1>1, <1>2, <1>3, <1>4, <1>5, <1>6 DEF ONext

\* The cursors, the subscription and the log agree in every reachable state, for any
\* streams, sizes and capacities.
THEOREM OutputInvariant == OSpec => []OInv
<1>1. OInit => OInv
  BY InitOut
<1>2. OInv /\ [ONext]_ovars => OInv'
  BY OutStep
<1> QED
  BY <1>1, <1>2, PTL DEF OSpec

------------------------------------------------------------------------------
(* A transport that subscribes before the event log has cut its history.   *)

\* Its replay begins no later than the retained output, and until it subscribes the
\* history holds whatever the retained output does.
JoinedInTime ==
    /\ joined <= keepFrom
    /\ reader = "transport" /\ rpc = "start" => Last <= Lead /\ replayFrom <= keepFrom

\* The two buffers evict for the same bytes; the number of events makes no difference
\* as long as all of them fit.
LEMMA EvictInStep ==
    ASSUME NEW log, Len(log) \in Nat, Len(log) <= EventCapacity, NEW k \in Nat \ {0},
           NEW j \in Nat \ {0}, j <= k,
           NEW p \in Evict(log, k, Len(log), RetainedBytes),
           NEW n \in Evict(log, j, EventCapacity, RetainedBytes)
    PROVE  n <= p
<1> USE OutputAssumption
<1>1. /\ p \in k..(Len(log) + 1) /\ Bytes(log, p..Len(log)) <= RetainedBytes
      /\ n \in j..(Len(log) + 1)
      /\ \A m \in j..(n - 1) :
            ~(Len(log) + 1 - m <= EventCapacity /\ Bytes(log, m..Len(log)) <= RetainedBytes)
  BY DEF Evict
<1>2. Len(log) + 1 - p <= EventCapacity
  BY <1>1
<1>3. p \notin j..(n - 1)
  BY <1>1, <1>2
<1> QED
  BY <1>1, <1>3

\* An event published while the transport has yet to subscribe stays in its history.
LEMMA PublishInTime ==
    ASSUME OInv, JoinedInTime, Lead <= EventCapacity, NEW kind, NEW size, NEW producer,
           Publish(kind, size, producer), UNCHANGED readerVars
    PROVE  JoinedInTime'
<1> USE OutputAssumption
<1> DEFINE log == Append(events, [kind |-> kind, size |-> size])
<1>1. /\ events' = log /\ joined' = joined /\ reader' = reader /\ rpc' = rpc
      /\ keepFrom' \in Evict(log, keepFrom, Len(log), RetainedBytes)
      /\ replayFrom' \in Evict(log, replayFrom, EventCapacity, RetainedBytes)
      /\ reader = "transport" /\ rpc = "start" => Last < Lead
  BY DEF Publish, readerVars, subVars
<1>2. /\ events \in Seq(Events) /\ Last \in Nat /\ keepFrom \in 1..(Last + 1)
      /\ replayFrom \in 1..(Last + 1) /\ joined \in 1..(Last + 1)
  BY DEF OInv, OTypeOK, Last
<1>3. Len(log) = Last + 1
  BY <1>2 DEF Last
<1> HIDE DEF log
<1>4. keepFrom' \in keepFrom..(Last + 2)
  BY <1>1, <1>2, <1>3 DEF Evict
<1>5. joined' <= keepFrom'
  BY <1>1, <1>2, <1>4 DEF JoinedInTime
<1>6. Last' = Last + 1
  BY <1>1, <1>3 DEF Last
<1>7. ASSUME reader = "transport", rpc = "start"
      PROVE  Last' <= Lead /\ replayFrom' <= keepFrom'
  <2>1. Last + 1 <= Lead /\ Last + 1 <= EventCapacity /\ replayFrom <= keepFrom
    BY <1>1, <1>2, <1>7 DEF JoinedInTime
  <2>2. Len(log) \in Nat /\ Len(log) <= EventCapacity /\ keepFrom \in Nat \ {0}
        /\ replayFrom \in Nat \ {0}
    BY <1>2, <1>3, <2>1
  <2>3. replayFrom' <= keepFrom'
    BY <1>1, <2>1, <2>2, EvictInStep
  <2> QED
    BY <1>6, <2>1, <2>3
<1> QED
  BY <1>1, <1>5, <1>7 DEF JoinedInTime

\* A step that leaves the log and the subscription alone, and does not put the
\* transport back to its start.
LEMMA OthersInTime ==
    ASSUME JoinedInTime, UNCHANGED <<events, keepFrom, replayFrom, reader, joined>>,
           reader = "transport" /\ rpc' = "start" => rpc = "start"
    PROVE  JoinedInTime'
BY DEF JoinedInTime, Last

\* Every step keeps a transport that subscribes in time within the history.
LEMMA InTimeStep ==
    ASSUME OInv, JoinedInTime, Lead <= EventCapacity, [ONext]_ovars
    PROVE  JoinedInTime'
<1>1. CASE Produce
  <2>1. ASSUME NEW s \in Streams, NEW size \in Sizes, StreamOutput(s, size)
        PROVE  JoinedInTime'
    BY <2>1, PublishInTime DEF StreamOutput
  <2>2. ASSUME NEW s \in Streams, FinishOutputStream(s)
        PROVE  JoinedInTime'
    BY <2>2, OthersInTime DEF FinishOutputStream, readerVars, subVars
  <2>3. ASSUME NEW p \in Streams \cup {"exit", "closed"}, NotifyWaiters(p)
        PROVE  JoinedInTime'
    BY <2>3, OthersInTime DEF NotifyWaiters, procVars, subVars
  <2>4. CASE WatchExit
    BY <2>4, PublishInTime DEF WatchExit
  <2>5. CASE MaybeEmitClosed
    BY <2>5, PublishInTime DEF MaybeEmitClosed
  <2>6. CASE RetentionEnds
    BY <2>6, OthersInTime DEF RetentionEnds, readerVars, subVars
  <2> QED
    BY <1>1, <2>1, <2>2, <2>3, <2>4, <2>5, <2>6 DEF Produce
<1>2. CASE PollSteps
  <2>1. ASSUME NEW max \in PageBytes, PollLook(max)
        PROVE  JoinedInTime'
    BY <2>1, OthersInTime DEF PollLook, procVars, subVars
  <2> QED
    BY <1>2, <2>1, OthersInTime
       DEF PollSteps, PollStart, PollWait, PollDeadline, procVars, subVars
<1>3. CASE TaskSteps
  BY <1>3, OthersInTime DEF TaskSteps, TaskStart, TaskRead, TaskWake, procVars, subVars
<1>4. CASE TransportSteps
  <2>1. CASE Subscribe
    BY <2>1 DEF Subscribe, JoinedInTime, procVars
  <2>2. CASE RecvReplay
    BY <2>2, OthersInTime DEF RecvReplay, procVars, Receive
  <2>3. CASE RecvLive
    BY <2>3, OthersInTime DEF RecvLive, procVars, Receive
  <2>4. CASE RecvLagged \/ RecoverLagged
    BY <2>4, OthersInTime DEF RecvLagged, RecoverLagged, procVars, subVars
  <2> QED
    BY <1>4, <2>1, <2>2, <2>3, <2>4 DEF TransportSteps
<1>5. CASE ReadFails
  BY <1>5, OthersInTime DEF ReadFails, procVars, subVars
<1>6. CASE UNCHANGED ovars
  BY <1>6, OthersInTime DEF ovars
<1> QED
  BY <1>1, <1>2, <1>3, <1>4, <1>5, <1>6 DEF ONext

\* What the replay of such a transport leaves out has been evicted altogether.
LEMMA CoveredIsAccounted ==
    ASSUME OInv, JoinedInTime, NEW k \in 1..Last, Covered(k)
    PROVE  Accounted(k)
<1>1. Last \in Nat /\ keepFrom \in 1..(Last + 1) /\ joined \in 1..(Last + 1)
  BY DEF OInv, OTypeOK, Last
<1>2. k < joined => k < keepFrom
  BY <1>1 DEF JoinedInTime
<1> QED
  BY <1>2 DEF Covered, Accounted

\* The invariant of the readers together with that of the subscription.
LEMMA InTimeInvariant ==
    ASSUME Lead <= EventCapacity
    PROVE  OSpec => [](OInv /\ JoinedInTime)
<1>1. OInit => OInv /\ JoinedInTime
  <2>1. OInit => JoinedInTime
    BY OutputAssumption DEF OInit, JoinedInTime, Last
  <2> QED
    BY <2>1, InitOut
<1>2. OInv /\ JoinedInTime /\ [ONext]_ovars => OInv' /\ JoinedInTime'
  BY OutStep, InTimeStep
<1> QED
  BY <1>1, <1>2, PTL DEF OSpec

\* Whichever way the output is followed (local_process.rs exec_read, the output task,
\* the transport), chunks are given in order, once, and one that was passed over had
\* been evicted from the retained output, provided a transport subscribes before the
\* event log has been given more events than it holds.
THEOREM NoGap ==
    ASSUME Lead <= EventCapacity
    PROVE  OSpec => []NoSilentGap
<1>1. OInv /\ JoinedInTime => NoSilentGap
  <2> SUFFICES ASSUME OInv, JoinedInTime PROVE NoSilentGap
    OBVIOUS
  <2>1. InOrderCovered /\ Last \in Nat /\ cursor \in 0..Last
    BY DEF OInv, OTypeOK, Last
  <2>2. \A k \in 1..cursor : k \in 1..Last
    BY <2>1
  <2>3. \A k \in 1..cursor : Accounted(k)
    BY <2>1, <2>2, CoveredIsAccounted DEF InOrderCovered
  <2> QED
    BY <2>1, <2>3 DEF InOrderCovered, NoSilentGap
<1> QED
  BY <1>1, InTimeInvariant, PTL

\* A reader that is told of the end was given all that could still be read, under the
\* same condition on the transport.
THEOREM EndComplete ==
    ASSUME Lead <= EventCapacity
    PROVE  OSpec => []EndIsComplete
<1>1. OInv /\ JoinedInTime => EndIsComplete
  BY CoveredIsAccounted DEF OInv, EndCovered, EndIsComplete
<1> QED
  BY <1>1, InTimeInvariant, PTL

=============================================================================
