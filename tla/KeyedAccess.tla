----------------------------- MODULE KeyedAccess -----------------------------
(***************************************************************************)
(* What the app-server promises about the order in which it handles client *)
(* requests: a request waits for the earlier requests of its key that      *)
(* conflict with it; once a connection's gate is shut none of its requests *)
(* begins, and its state is torn down only when none of them is running.   *)
(***************************************************************************)
EXTENDS Naturals, Sequences

CONSTANTS Requests, Conns, Keys, NoKey

VARIABLES
    info,      \* connection, key and access of each request that arrived
    arrived,   \* requests of each key, in the order they arrived
    state,     \* "absent", "waiting", "running" or "over"
    shut,      \* connections whose gate is shut
    quiet      \* connections whose gate has reported that all is over

avars == <<info, arrived, state, shut, quiet>>

Infos == [conn : Conns, key : Keys \cup {NoKey}, access : {"Exclusive", "SharedRead"}]

AInit ==
    /\ info = [r \in {} |-> r]
    /\ arrived = [k \in Keys |-> << >>]
    /\ state = [r \in Requests |-> "absent"]
    /\ shut = {} /\ quiet = {}

Conflict(q, r) == ~(info[q].access = "SharedRead" /\ info[r].access = "SharedRead")

\* The requests that arrived before r on its key.
Before(r) ==
    IF info[r].key = NoKey THEN {}
    ELSE LET seq == arrived[info[r].key]
         IN  {seq[i] : i \in {j \in 1..Len(seq) : \E l \in (j + 1)..Len(seq) : seq[l] = r}}

Arrive(r, f) ==
    /\ state[r] = "absent"
    /\ state' = [state EXCEPT ![r] = "waiting"]
    /\ info' = [q \in DOMAIN info \cup {r} |-> IF q = r THEN f ELSE info[q]]
    /\ arrived' = [k \in Keys |-> IF k = f.key THEN Append(arrived[k], r) ELSE arrived[k]]
    /\ UNCHANGED <<shut, quiet>>

Begin(r) ==
    /\ state[r] = "waiting"
    /\ info[r].conn \notin shut
    /\ \A q \in Before(r) : Conflict(q, r) => state[q] = "over"
    /\ state' = [state EXCEPT ![r] = "running"]
    /\ UNCHANGED <<info, arrived, shut, quiet>>

End(r) ==
    /\ state[r] = "running"
    /\ state' = [state EXCEPT ![r] = "over"]
    /\ UNCHANGED <<info, arrived, shut, quiet>>

Skip(r) ==
    /\ state[r] = "waiting" /\ info[r].conn \in shut
    /\ state' = [state EXCEPT ![r] = "over"]
    /\ UNCHANGED <<info, arrived, shut, quiet>>

Shut(c) == shut' = shut \cup {c} /\ UNCHANGED <<info, arrived, state, quiet>>

Quiesce(C) ==
    /\ C \subseteq shut
    /\ \A r \in DOMAIN info : info[r].conn \in C => state[r] # "running"
    /\ quiet' = quiet \cup C
    /\ UNCHANGED <<info, arrived, state, shut>>

ANext == \/ \E r \in Requests : \E f \in Infos : Arrive(r, f)
         \/ \E r \in Requests : Begin(r) \/ End(r) \/ Skip(r)
         \/ \E c \in Conns : Shut(c)
         \/ \E C \in SUBSET Conns : Quiesce(C)

ASpec == AInit /\ [][ANext]_avars

==============================================================================
