----------------------------- MODULE DurableLog -----------------------------
(***************************************************************************)
(* What a write-behind controller promises, without timers, threads or     *)
(* failures: producers append events to an in-memory log, and ever longer  *)
(* prefixes of that log become durable.  internal/session/write_behind.go  *)
(* (module WriteBehind) implements it.                                     *)
(***************************************************************************)
EXTENDS Naturals, Sequences

VARIABLES accepted,     \* every event the controller took, in order
          durable       \* the events the backend confirmed, in order

vars == <<accepted, durable>>

Init == accepted = <<>> /\ durable = <<>>

\* A producer hands over the next event.
Accept ==
    /\ accepted' = Append(accepted, Len(accepted) + 1)
    /\ UNCHANGED durable

\* A batch becomes durable: the durable log stays a prefix and grows.
Commit ==
    /\ \E n \in (Len(durable) + 1) .. Len(accepted) :
          durable' = SubSeq(accepted, 1, n)
    /\ UNCHANGED accepted

Next == Accept \/ Commit

Spec == Init /\ [][Next]_vars
=============================================================================
