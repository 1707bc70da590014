----------------------------- MODULE EventStream -----------------------------
(***************************************************************************)
(* What a consumer of an exec-server process is promised: the events the   *)
(* process produced, each once and in order.  Exited comes at most once,   *)
(* Closed comes after it, and nothing comes after Closed.                  *)
(***************************************************************************)
EXTENDS Naturals, Sequences

VARIABLES
    log,       \* the events of the process, in the order they were produced
    published  \* the events the consumer was given

Occurs(e) == \E i \in 1..Len(log) : log[i] = e

VInit == log = << >> /\ published = << >>

Produce(e) ==
    /\ ~Occurs("Closed")
    /\ e = "Exited" => ~Occurs("Exited")
    /\ e = "Closed" => Occurs("Exited")
    /\ log' = Append(log, e)
    /\ UNCHANGED published

Deliver ==
    /\ Len(published) < Len(log)
    /\ published' = Append(published, log[Len(published) + 1])
    /\ UNCHANGED log

VNext == (\E e \in {"Output", "Exited", "Closed"} : Produce(e)) \/ Deliver

VSpec == VInit /\ [][VNext]_<<log, published>>

==============================================================================
