----------------------------- MODULE DurableLog -----------------------------
(***************************************************************************)
(* What the rollout of a thread promises its session.  Items are accepted  *)
(* in an order and committed in that order, each once.  A call that        *)
(* reports success has committed everything accepted before it.  What is   *)
(* accepted and not committed is lost when the writer goes away; what is   *)
(* committed never is.                                                     *)
(***************************************************************************)
EXTENDS Naturals, Sequences

CONSTANT Items

VARIABLES
    accepted,  \* the items in the order they were accepted
    log,       \* the committed ones
    promised   \* those a caller was told are committed

LInit == accepted = << >> /\ log = << >> /\ promised = {}

Accept(i) ==
    /\ accepted' = Append(accepted, i)
    /\ UNCHANGED <<log, promised>>

Commit ==
    /\ Len(log) < Len(accepted)
    /\ log' = Append(log, accepted[Len(log) + 1])
    /\ UNCHANGED <<accepted, promised>>

\* A success covers the items accepted when the call was made, and perhaps
\* the one call that reports it also ends the writer.
Promise(n) ==
    /\ promised' = promised \cup {log[k] : k \in 1..n}
    /\ accepted' \in {accepted, log}
    /\ UNCHANGED log

Lose == accepted' = log /\ UNCHANGED <<log, promised>>

LNext ==
    \/ \E i \in Items : Accept(i)
    \/ Commit
    \/ \E n \in 0..Len(log) : Promise(n)
    \/ Lose

LSpec == LInit /\ [][LNext]_<<accepted, log, promised>>

=============================================================================
