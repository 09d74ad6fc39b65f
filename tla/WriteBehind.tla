---------------------------- MODULE WriteBehind ----------------------------
(***************************************************************************)
(* The write-behind batching controller of internal/session/write_behind.go*)
(*                                                                         *)
(* One mutex protects the controller, so every critical section is one     *)
(* action; everything that runs outside the mutex (the backend's Write,    *)
(* the wait for a channel, a timer callback that was already dispatched    *)
(* when Stop was called) is a state of its own.                            *)
(***************************************************************************)
EXTENDS Naturals, Sequences

CONSTANTS Flushers,       \* goroutines that may call Flush
          NoOne,          \* no goroutine: the nil barrier, no writer
          Background,     \* the writer is the detached background goroutine
          MaxEvents,      \* bound: events the producers enqueue
          MaxFailures,    \* bound: writes the backend rejects
          MaxCancels      \* bound: calls of CancelAutomaticWait

ASSUME WritersDistinct == /\ NoOne \notin Flushers
                          /\ Background \notin Flushers
                          /\ NoOne # Background

ASSUME BoundsAreNat == MaxEvents \in Nat /\ MaxFailures \in Nat /\ MaxCancels \in Nat

VARIABLES
    accepted,   \* history: all events handed to Enqueue, in order
    durable,    \* the events the backend confirmed, in order
    pending,    \* w.pending
    batch,      \* the slice an active write owns; <<>> when no write is active
    writer,     \* who runs opts.Write: NoOne (w.active = false), Background or a flusher
    timer,      \* w.timer: "none", "armed", or "fired" (its callback waits for mu)
    strays,     \* dispatched or orphaned callbacks that are no longer w.timer
    deadline,   \* w.deadline
    paused,     \* w.paused
    barrier,    \* the flusher that owns w.barrier, or NoOne
    pc,         \* where each flusher is inside Flush
    result,     \* what the flusher's last Flush returned
    goal,       \* history: events accepted when the flusher called Flush
    failures,   \* writes the backend has rejected
    cancels     \* CancelAutomaticWait calls made

queue == <<accepted, durable, pending, batch, writer>>
clock == <<timer, strays, deadline>>
calls == <<barrier, pc, result, goal>>
bounds == <<failures, cancels>>
vars  == <<queue, clock, paused, calls, bounds>>

\* No Flush; blocked on doneCh; at drain's loop head; in drain's opts.Write;
\* drain returned, barrier not yet released; blocked on another's barrier; done.
Stages == {"idle", "wait", "drain", "write", "release", "joined", "done"}

Draining == {"wait", "drain", "write", "release"}

FlagsOK == deadline \in BOOLEAN /\ paused \in BOOLEAN

DataOK ==
    /\ accepted \in Seq(Nat) /\ durable \in Seq(Nat)
    /\ pending \in Seq(Nat) /\ batch \in Seq(Nat)
    /\ writer \in Flushers \cup {NoOne, Background}
    /\ timer \in {"none", "armed", "fired"} /\ strays \in Nat
    /\ barrier \in Flushers \cup {NoOne}
    /\ pc \in [Flushers -> Stages]
    /\ result \in [Flushers -> {"none", "ok", "err", "joined"}]
    /\ goal \in [Flushers -> Nat]
    /\ failures \in Nat /\ cancels \in Nat

TypeOK == DataOK /\ FlagsOK

Active == writer # NoOne

Init ==
    /\ accepted = <<>> /\ durable = <<>> /\ pending = <<>> /\ batch = <<>>
    /\ writer = NoOne
    /\ timer = "none" /\ strays = 0 /\ deadline = FALSE /\ paused = FALSE
    /\ barrier = NoOne
    /\ pc = [f \in Flushers |-> "idle"]
    /\ result = [f \in Flushers |-> "none"]
    /\ goal = [f \in Flushers |-> 0]
    /\ failures = 0 /\ cancels = 0

-----------------------------------------------------------------------------
(* Helpers called with mu held. *)

\* armTimerLocked: at most one timer is w.timer.
armTimer ==
    /\ timer' = IF timer = "none" THEN "armed" ELSE timer
    /\ UNCHANGED strays

\* cancelTimerLocked: Stop succeeds on an armed timer; a callback that was
\* already dispatched still runs, and w.timer forgets it either way.
cancelTimer ==
    /\ timer' = "none"
    /\ strays' = IF timer = "fired" THEN strays + 1 ELSE strays

\* Take all of pending as the batch of one write by w.
TakeBatch(w) ==
    /\ batch' = pending /\ pending' = <<>> /\ writer' = w
    /\ deadline' = FALSE

\* close(doneCh): whoever waits for the active write becomes runnable.
Wake(p) == [f \in Flushers |-> IF p[f] = "wait" THEN "drain" ELSE p[f]]

\* Variants of Requeue with a bug: the batch goes behind what arrived
\* meanwhile, or it is forgotten.
RequeueBehind ==
    /\ failures < MaxFailures /\ failures' = failures + 1
    /\ pending' = pending \o batch /\ batch' = <<>> /\ writer' = NoOne
    /\ cancelTimer
    /\ deadline' = FALSE /\ paused' = TRUE
    /\ UNCHANGED <<accepted, durable, cancels>>

RequeueForgets ==
    /\ failures < MaxFailures /\ failures' = failures + 1
    /\ pending' = pending /\ batch' = <<>> /\ writer' = NoOne
    /\ cancelTimer
    /\ deadline' = FALSE /\ paused' = TRUE
    /\ UNCHANGED <<accepted, durable, cancels>>

\* The write failed: the batch goes back in front of what arrived meanwhile,
\* and the automatic path pauses.
Requeue ==
    /\ failures < MaxFailures /\ failures' = failures + 1
    /\ pending' = batch \o pending /\ batch' = <<>> /\ writer' = NoOne
    /\ cancelTimer
    /\ deadline' = FALSE /\ paused' = TRUE
    /\ UNCHANGED <<accepted, durable, cancels>>

-----------------------------------------------------------------------------
(* The producers. *)

Enqueue ==
    /\ Len(accepted) < MaxEvents
    /\ accepted' = Append(accepted, Len(accepted) + 1)
    /\ pending' = Append(pending, Len(accepted) + 1)
    /\ IF barrier # NoOne
       THEN UNCHANGED <<clock, paused>>
       ELSE IF paused
       THEN paused' = FALSE /\ deadline' = FALSE /\ armTimer
       ELSE /\ IF pending = <<>> THEN armTimer ELSE UNCHANGED <<timer, strays>>
            /\ UNCHANGED <<deadline, paused>>
    /\ UNCHANGED <<durable, batch, writer, calls, bounds>>

CancelAutomaticWait ==
    /\ cancels < MaxCancels /\ cancels' = cancels + 1
    /\ cancelTimer /\ deadline' = FALSE
    /\ UNCHANGED <<queue, paused, calls, failures>>

-----------------------------------------------------------------------------
(* The batching timer and the background writer. *)

\* The deadline passes and the runtime dispatches the callback.
TimerFires ==
    /\ timer = "armed" /\ timer' = "fired"
    /\ UNCHANGED <<queue, strays, deadline, paused, calls, bounds>>

\* The callback's critical section after it cleared w.timer.
CallbackBody ==
    /\ timer' = "none"
    /\ IF Active
       THEN deadline' = TRUE /\ UNCHANGED queue
       ELSE IF pending = <<>>
       THEN UNCHANGED <<queue, deadline>>
       ELSE TakeBatch(Background) /\ UNCHANGED <<accepted, durable>>
    /\ UNCHANGED <<paused, calls, bounds>>

\* Variant with a bug: every callback counts as a stray one.
CallbackMiscounts ==
    /\ timer = "fired"
    /\ CallbackBody
    /\ strays' = strays - 1

Callback ==
    /\ timer = "fired"
    /\ CallbackBody
    /\ UNCHANGED strays

\* A callback that lost the race with Stop: it clears w.timer too, and if a
\* newer timer was there that one is orphaned and still runs later.
StrayCallback ==
    /\ strays > 0
    /\ CallbackBody
    /\ strays' = IF timer = "none" THEN strays - 1 ELSE strays

\* Variant with a bug: a deadline that expired during the write is ignored.
BackgroundWrittenStops ==
    /\ writer = Background
    /\ durable' = durable \o batch
    /\ pc' = Wake(pc)
    /\ batch' = <<>> /\ writer' = NoOne
    /\ UNCHANGED <<accepted, pending, clock, paused, barrier, result, goal, bounds>>

BackgroundWritten ==
    /\ writer = Background
    /\ durable' = durable \o batch
    /\ pc' = Wake(pc)
    /\ IF deadline /\ pending # <<>> /\ barrier = NoOne
       THEN TakeBatch(Background) /\ cancelTimer
       ELSE /\ batch' = <<>> /\ writer' = NoOne
            /\ UNCHANGED <<pending, clock>>
    /\ UNCHANGED <<accepted, paused, barrier, result, goal, bounds>>

BackgroundFailed ==
    /\ writer = Background
    /\ Requeue
    /\ pc' = Wake(pc)
    /\ UNCHANGED <<barrier, result, goal>>

-----------------------------------------------------------------------------
(* Flush, called by f. *)

\* Another Flush is in progress: join its barrier.
FlushJoins(f) ==
    /\ pc[f] = "idle" /\ barrier # NoOne
    /\ pc' = [pc EXCEPT ![f] = "joined"]
    /\ result' = [result EXCEPT ![f] = "none"]
    /\ goal' = [goal EXCEPT ![f] = Len(accepted)]
    /\ UNCHANGED <<queue, clock, paused, barrier, bounds>>

\* Install the barrier, and wait for the active write if there is one.
FlushBegins(f) ==
    /\ pc[f] = "idle" /\ barrier = NoOne
    /\ barrier' = f
    /\ cancelTimer /\ deadline' = FALSE /\ paused' = FALSE
    /\ pc' = [pc EXCEPT ![f] = IF Active THEN "wait" ELSE "drain"]
    /\ result' = [result EXCEPT ![f] = "none"]
    /\ goal' = [goal EXCEPT ![f] = Len(accepted)]
    /\ UNCHANGED <<queue, bounds>>

\* drain's loop head while a write is active: wait for its doneCh.
DrainWaits(f) ==
    /\ pc[f] = "drain" /\ Active
    /\ pc' = [pc EXCEPT ![f] = "wait"]
    /\ UNCHANGED <<queue, clock, paused, barrier, result, goal, bounds>>

\* Variant with a bug: the loop head does not look at w.active.
DrainEmptyUnguarded(f) ==
    /\ pc[f] = "drain" /\ pending = <<>>
    /\ pc' = [pc EXCEPT ![f] = "release"]
    /\ result' = [result EXCEPT ![f] = "ok"]
    /\ UNCHANGED <<queue, clock, paused, barrier, goal, bounds>>

\* drain's loop head with nothing left: drain returns nil.
DrainEmpty(f) ==
    /\ pc[f] = "drain" /\ ~Active /\ pending = <<>>
    /\ pc' = [pc EXCEPT ![f] = "release"]
    /\ result' = [result EXCEPT ![f] = "ok"]
    /\ UNCHANGED <<queue, clock, paused, barrier, goal, bounds>>

DrainTakes(f) ==
    /\ pc[f] = "drain" /\ ~Active /\ pending # <<>>
    /\ TakeBatch(f) /\ cancelTimer
    /\ pc' = [pc EXCEPT ![f] = "write"]
    /\ UNCHANGED <<accepted, durable, paused, barrier, result, goal, bounds>>

DrainWritten(f) ==
    /\ pc[f] = "write"
    /\ durable' = durable \o batch /\ batch' = <<>> /\ writer' = NoOne
    /\ pc' = [pc EXCEPT ![f] = "drain"]
    /\ UNCHANGED <<accepted, pending, clock, paused, barrier, result, goal, bounds>>

DrainFailed(f) ==
    /\ pc[f] = "write"
    /\ Requeue
    /\ pc' = [pc EXCEPT ![f] = "release"]
    /\ result' = [result EXCEPT ![f] = "err"]
    /\ UNCHANGED <<barrier, goal>>

\* Variant with a bug: the barrier is reset but never closed.
FlushReleasesSilently(f) ==
    /\ pc[f] = "release"
    /\ barrier' = NoOne
    /\ pc' = [pc EXCEPT ![f] = "done"]
    /\ UNCHANGED <<queue, clock, paused, result, goal, bounds>>

\* barrier = nil and close(barrier): the joined callers return nil.
FlushReleases(f) ==
    /\ pc[f] = "release"
    /\ barrier' = NoOne
    /\ pc' = [g \in Flushers |->
                IF g = f \/ pc[g] = "joined" THEN "done" ELSE pc[g]]
    /\ result' = [g \in Flushers |->
                IF pc[g] = "joined" THEN "joined" ELSE result[g]]
    /\ UNCHANGED <<queue, clock, paused, goal, bounds>>

\* The caller has seen the result and may call Flush again.
FlushReturned(f) ==
    /\ pc[f] = "done"
    /\ pc' = [pc EXCEPT ![f] = "idle"]
    /\ UNCHANGED <<queue, clock, paused, barrier, result, goal, bounds>>

-----------------------------------------------------------------------------
DrainStep(f) ==
    \/ DrainWaits(f) \/ DrainEmpty(f) \/ DrainTakes(f)
    \/ DrainWritten(f) \/ DrainFailed(f)

Flush(f) ==
    \/ FlushJoins(f) \/ FlushBegins(f)
    \/ DrainStep(f)
    \/ FlushReleases(f) \/ FlushReturned(f)

Automatic ==
    \/ TimerFires \/ Callback \/ StrayCallback
    \/ BackgroundWritten \/ BackgroundFailed

Next ==
    \/ Enqueue \/ CancelAutomaticWait
    \/ Automatic
    \/ \E f \in Flushers : Flush(f)

Spec == Init /\ [][Next]_vars

\* The Go runtime runs timers and runnable goroutines, and the backend answers
\* every write; nobody is obliged to enqueue, to flush or to cancel.
Fairness ==
    /\ WF_vars(TimerFires) /\ WF_vars(Callback) /\ WF_vars(StrayCallback)
    /\ WF_vars(BackgroundWritten \/ BackgroundFailed)
    /\ \A f \in Flushers : /\ WF_vars(DrainStep(f))
                           /\ WF_vars(FlushReleases(f))
                           /\ WF_vars(FlushReturned(f))

FairSpec == Spec /\ Fairness

-----------------------------------------------------------------------------
(* Properties. *)

\* Failed writes, requeues, stray timer callbacks and overlapping Flush calls
\* never lose, duplicate or reorder an event: what is durable, what an active
\* write owns and what is pending are, in this order, all accepted events.
NothingLostOrReordered == accepted = (durable \o batch) \o pending

\* A Flush that ran its own drain and returned nil has made every event that
\* was accepted before the call durable.
OwnFlushIsDurable ==
    \A f \in Flushers : result[f] = "ok" => goal[f] <= Len(durable)

\* Nobody drains but the owner of the barrier, so drains never overlap, and the
\* drain keeps the write it started: no callback and no background write takes it.
SingleWriter ==
    \A f \in Flushers : /\ pc[f] = "write" <=> writer = f
                        /\ pc[f] \in Draining <=> barrier = f

\* A failed background write pauses the automatic path; it is resumed by the
\* next Enqueue or Flush.  Otherwise an accepted event becomes durable by the
\* batching timer and the background writer alone, as long as nobody calls
\* Flush and no automatic wait is cancelled.
Untouched == cancels = 0 /\ \A f \in Flushers : pc[f] = "idle" /\ result[f] = "none"
AutomaticDrain ==
    \A n \in 1 .. MaxEvents :
        (Len(accepted) >= n) ~> (Len(durable) >= n \/ paused \/ ~Untouched)

\* The same without "nobody calls Flush": the comment on Enqueue says that an
\* event that arrives under a barrier is picked up by the drain.
EveryEventDrained ==
    \A n \in 1 .. MaxEvents : (Len(accepted) >= n) ~> (Len(durable) >= n \/ paused)

\* Every Flush returns, joined or not, whatever the timers and the background
\* writer do meanwhile.
FlushTerminates ==
    \A f \in Flushers : (pc[f] # "idle") ~> (pc[f] = "idle")

\* The strengthening that makes the safety properties inductive: an active
\* write owns a non-empty batch, and no Flush aims beyond what was accepted.
ActiveOwnsBatch == Active <=> batch # <<>>
GoalsAccepted == \A f \in Flushers : goal[f] <= Len(accepted)

Inv == /\ TypeOK /\ NothingLostOrReordered /\ OwnFlushIsDurable /\ SingleWriter
       /\ ActiveOwnsBatch /\ GoalsAccepted

\* The controller implements the abstract durable log.
Log == INSTANCE DurableLog WITH accepted <- accepted, durable <- durable
Refinement == Log!Spec
=============================================================================
