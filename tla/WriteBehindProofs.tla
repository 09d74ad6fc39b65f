------------------------- MODULE WriteBehindProofs -------------------------
(***************************************************************************)
(* Machine-checked proofs about the write-behind controller, for any set   *)
(* of flushing goroutines and any number of events, failures and cancels.  *)
(***************************************************************************)
EXTENDS WriteBehind, SequenceTheorems, TLAPS

-----------------------------------------------------------------------------
(* Facts about the queue's sequences. *)

\* A proper extension of a sequence by a non-empty one is longer, and the
\* sequence is its prefix (a batch becomes durable).
LEMMA PrefixOfConcat ==
    ASSUME NEW S, NEW s \in Seq(S), NEW t \in Seq(S), NEW u \in Seq(S), t # <<>>
    PROVE  /\ Len(s \o t) \in (Len(s) + 1) .. Len((s \o t) \o u)
           /\ s \o t = SubSeq((s \o t) \o u, 1, Len(s \o t))
<1>1. /\ s \o t \in Seq(S) /\ Len(s \o t) = Len(s) + Len(t)
      /\ Len((s \o t) \o u) = Len(s \o t) + Len(u)
  BY ConcatProperties
<1>2. Len(t) \in Nat \ {0} /\ Len(s) \in Nat /\ Len(u) \in Nat
  BY EmptySeq, LenProperties
<1>3. Len(s \o t) \in 1 .. Len(s \o t)
  BY <1>1, <1>2
<1>4. SubSeq((s \o t) \o u, 1, Len(s \o t)) = SubSeq(s \o t, 1, Len(s \o t))
  BY <1>1, <1>2, <1>3, SubSeqOfConcat1
<1> QED BY <1>1, <1>2, <1>4, SubSeqFull

\* Requeueing moves the batch back in front of what is pending.
LEMMA ConcatAssoc == \A s, t, u \in Seq(Nat) : (s \o t) \o u = s \o (t \o u)
BY ConcatAssociative, SMTT(30)

\* Appending to the pending tail appends to the whole log (Enqueue).
LEMMA AppendLast ==
    \A s, t, u \in Seq(Nat), e \in Nat :
        Append((s \o t) \o u, e) = (s \o t) \o Append(u, e)
<1> TAKE s, t, u \in Seq(Nat), e \in Nat
<1>1. s \o t \in Seq(Nat)
  BY ConcatProperties
<1>2. Append(u, e) = u \o <<e>> /\ <<e>> \in Seq(Nat)
  BY AppendProperties
<1>3. (s \o t) \o u \in Seq(Nat)
  BY <1>1, ConcatProperties
<1>4. Append((s \o t) \o u, e) = ((s \o t) \o u) \o <<e>>
  BY <1>3, AppendProperties
<1>5. ((s \o t) \o u) \o <<e>> = (s \o t) \o (u \o <<e>>)
  BY <1>1, <1>2, ConcatAssoc
<1> QED BY <1>2, <1>4, <1>5

-----------------------------------------------------------------------------
(* What the actions that may start a background write do to the queue. *)

\* A timer callback leaves the queue alone or hands all of pending to the
\* background writer, and then no write was active.
LEMMA CallbackOnQueue ==
    ASSUME CallbackBody
    PROVE  \/ UNCHANGED queue
           \/ /\ ~Active /\ pending # <<>>
              /\ batch' = pending /\ pending' = <<>> /\ writer' = Background
              /\ UNCHANGED <<accepted, durable>>
BY DEF CallbackBody, TakeBatch

\* A finished background write stops, or goes on with all of pending.
LEMMA BackgroundOnQueue ==
    ASSUME BackgroundWritten
    PROVE  /\ writer = Background /\ durable' = durable \o batch
           /\ UNCHANGED accepted
           /\ \/ pending' = pending /\ batch' = <<>> /\ writer' = NoOne
              \/ /\ pending # <<>>
                 /\ pending' = <<>> /\ batch' = pending /\ writer' = Background
BY DEF BackgroundWritten, TakeBatch

\* Its timer is untouched or cancelled.
LEMMA BackgroundOnTimer ==
    ASSUME BackgroundWritten
    PROVE  UNCHANGED <<timer, strays>> \/ cancelTimer
BY DEF BackgroundWritten, clock

-----------------------------------------------------------------------------
(* Type correctness. *)

\* NewWriteBehind starts with an empty queue and no timer.
LEMMA TypeInit == Init => TypeOK
<1> SUFFICES ASSUME Init PROVE TypeOK
  OBVIOUS
<1>1. DataOK
  BY WritersDistinct DEF Init, DataOK, Stages
<1>2. FlagsOK
  BY DEF Init, FlagsOK
<1> QED BY <1>1, <1>2 DEF TypeOK

\* The two flags stay Boolean whichever action runs.
LEMMA FlagsNext == FlagsOK /\ [Next]_vars => FlagsOK'
BY DEF FlagsOK, Next, Automatic, Flush, DrainStep, vars, queue, clock, calls, bounds,
       Enqueue, CancelAutomaticWait, TimerFires, Callback, StrayCallback,
       CallbackBody, TakeBatch, BackgroundWritten, BackgroundFailed, Requeue,
       FlushJoins, FlushBegins, DrainWaits, DrainEmpty, DrainTakes,
       DrainWritten, DrainFailed, FlushReleases, FlushReturned

\* Every action keeps the queue, the timer and the calls well typed.
LEMMA DataNext == DataOK /\ [Next]_vars => DataOK'
<1> SUFFICES ASSUME DataOK, [Next]_vars PROVE DataOK'
  OBVIOUS
<1> USE DEF DataOK, Stages, queue, clock, calls, bounds
<1>1. CASE Enqueue
  <2>1. Len(accepted) + 1 \in Nat
    BY LenProperties
  <2>2. accepted' \in Seq(Nat) /\ pending' \in Seq(Nat)
    BY <1>1, <2>1, AppendProperties DEF Enqueue
  <2> QED BY <1>1, <2>2 DEF Enqueue, armTimer
<1>2. CASE CancelAutomaticWait
  BY <1>2 DEF CancelAutomaticWait, cancelTimer
<1>3. CASE TimerFires
  BY <1>3 DEF TimerFires
<1>4. CASE Callback
  <2>1. timer' \in {"none", "armed", "fired"} /\ UNCHANGED <<strays, calls, bounds>>
    BY <1>4 DEF Callback, CallbackBody
  <2>q. /\ accepted' \in Seq(Nat) /\ durable' \in Seq(Nat) /\ pending' \in Seq(Nat)
        /\ batch' \in Seq(Nat) /\ writer' \in Flushers \cup {NoOne, Background}
    BY <1>4, CallbackOnQueue, EmptySeq DEF Callback
  <2> QED BY <2>1, <2>q
<1>5. CASE StrayCallback
  <2>1. /\ timer' \in {"none", "armed", "fired"} /\ strays' \in Nat
        /\ UNCHANGED <<calls, bounds>>
    BY <1>5 DEF StrayCallback, CallbackBody
  <2>q. /\ accepted' \in Seq(Nat) /\ durable' \in Seq(Nat) /\ pending' \in Seq(Nat)
        /\ batch' \in Seq(Nat) /\ writer' \in Flushers \cup {NoOne, Background}
    BY <1>5, CallbackOnQueue, EmptySeq DEF StrayCallback
  <2> QED BY <2>1, <2>q
<1>6. CASE BackgroundWritten
  <2>1. durable' \in Seq(Nat) /\ pc' \in [Flushers -> Stages]
    BY <1>6, ConcatProperties DEF BackgroundWritten, Wake
  <2>2. timer' \in {"none", "armed", "fired"} /\ strays' \in Nat
    BY <1>6, BackgroundOnTimer DEF cancelTimer
  <2>3. UNCHANGED <<barrier, result, goal, bounds>>
    BY <1>6 DEF BackgroundWritten
  <2>q. /\ accepted' \in Seq(Nat) /\ durable' \in Seq(Nat) /\ pending' \in Seq(Nat)
        /\ batch' \in Seq(Nat) /\ writer' \in Flushers \cup {NoOne, Background}
    BY <1>6, <2>1, BackgroundOnQueue, EmptySeq
  <2> QED BY <2>1, <2>2, <2>3, <2>q
<1>7. CASE BackgroundFailed
  <2>1. pending' \in Seq(Nat) /\ pc' \in [Flushers -> Stages]
    BY <1>7, ConcatProperties DEF BackgroundFailed, Requeue, Wake
  <2> QED BY <1>7, <2>1 DEF BackgroundFailed, Requeue, cancelTimer
<1>8. CASE \E f \in Flushers : Flush(f)
  <2> PICK f \in Flushers : Flush(f)
    BY <1>8
  <2>0. Len(accepted) \in Nat
    BY LenProperties
  <2>1. CASE FlushJoins(f)
    BY <2>0, <2>1 DEF FlushJoins
  <2>2. CASE FlushBegins(f)
    BY <2>0, <2>2 DEF FlushBegins, cancelTimer
  <2>3. CASE DrainWaits(f)
    BY <2>3 DEF DrainWaits
  <2>4. CASE DrainEmpty(f)
    BY <2>4 DEF DrainEmpty
  <2>5. CASE DrainTakes(f)
    BY <2>5 DEF DrainTakes, TakeBatch, cancelTimer
  <2>6. CASE DrainWritten(f)
    <3>1. durable' \in Seq(Nat)
      BY <2>6, ConcatProperties DEF DrainWritten
    <3> QED BY <2>6, <3>1 DEF DrainWritten
  <2>7. CASE DrainFailed(f)
    <3>1. pending' \in Seq(Nat)
      BY <2>7, ConcatProperties DEF DrainFailed, Requeue
    <3> QED BY <2>7, <3>1 DEF DrainFailed, Requeue, cancelTimer
  <2>8. CASE FlushReleases(f)
    BY <2>8 DEF FlushReleases
  <2>9. CASE FlushReturned(f)
    BY <2>9 DEF FlushReturned
  <2> QED BY <2>1, <2>2, <2>3, <2>4, <2>5, <2>6, <2>7, <2>8, <2>9 DEF Flush, DrainStep
<1>9. CASE UNCHANGED vars
  BY <1>9 DEF vars
<1> QED BY <1>1, <1>2, <1>3, <1>4, <1>5, <1>6, <1>7, <1>8, <1>9 DEF Next, Automatic

\* Every step of a producer, a flusher or a timer keeps the types.
LEMMA TypeNext == TypeOK /\ [Next]_vars => TypeOK'
BY FlagsNext, DataNext DEF TypeOK

-----------------------------------------------------------------------------
(* Every step does one of five things to the queue. *)

QEnqueue == /\ accepted' = Append(accepted, Len(accepted) + 1)
            /\ pending' = Append(pending, Len(accepted) + 1)
            /\ UNCHANGED <<durable, batch, writer>>
QTake    == /\ writer = NoOne /\ writer' # NoOne /\ pending # <<>>
            /\ batch' = pending /\ pending' = <<>> /\ UNCHANGED <<accepted, durable>>
QCommit  == /\ writer # NoOne /\ writer' = NoOne /\ durable' = durable \o batch
            /\ batch' = <<>> /\ UNCHANGED <<accepted, pending>>
QRequeue == /\ writer # NoOne /\ writer' = NoOne /\ pending' = batch \o pending
            /\ batch' = <<>> /\ UNCHANGED <<accepted, durable>>
QChain   == /\ UNCHANGED <<accepted, writer>> /\ durable' = durable \o batch
            /\ writer # NoOne /\ pending # <<>> /\ batch' = pending /\ pending' = <<>>

\* The five ways a step changes the queue, and the stutter.
LEMMA QueueSteps ==
    ASSUME [Next]_vars, SingleWriter
    PROVE  QEnqueue \/ QTake \/ QCommit \/ QRequeue \/ QChain \/ UNCHANGED queue
<1>1. CASE Enqueue
  BY <1>1 DEF Enqueue, QEnqueue
<1>2. CASE CancelAutomaticWait \/ TimerFires
  BY <1>2 DEF CancelAutomaticWait, TimerFires
<1>3. CASE Callback \/ StrayCallback
  BY <1>3, CallbackOnQueue, WritersDistinct DEF Callback, StrayCallback, QTake, Active
<1>4. CASE BackgroundWritten
  BY <1>4, BackgroundOnQueue, WritersDistinct DEF QCommit, QChain
<1>5. CASE BackgroundFailed
  BY <1>5, WritersDistinct DEF BackgroundFailed, Requeue, QRequeue
<1>6. CASE \E f \in Flushers : Flush(f)
  <2> PICK f \in Flushers : Flush(f)
    BY <1>6
  <2>1. CASE FlushJoins(f) \/ FlushBegins(f) \/ FlushReleases(f) \/ FlushReturned(f)
    BY <2>1 DEF FlushJoins, FlushBegins, FlushReleases, FlushReturned
  <2>2. CASE DrainWaits(f) \/ DrainEmpty(f)
    BY <2>2 DEF DrainWaits, DrainEmpty
  <2>3. CASE DrainTakes(f)
    BY <2>3, WritersDistinct DEF DrainTakes, TakeBatch, Active, QTake
  <2>4. CASE DrainWritten(f)
    BY <2>4, WritersDistinct DEF DrainWritten, SingleWriter, QCommit
  <2>5. CASE DrainFailed(f)
    BY <2>5, WritersDistinct DEF DrainFailed, Requeue, SingleWriter, QRequeue
  <2> QED BY <2>1, <2>2, <2>3, <2>4, <2>5 DEF Flush, DrainStep
<1>7. CASE UNCHANGED vars
  BY <1>7 DEF vars
<1> QED BY <1>1, <1>2, <1>3, <1>4, <1>5, <1>6, <1>7 DEF Next, Automatic

\* What Enqueue does to the log of this controller.
LEMMA EnqueueExtends ==
    ASSUME durable \in Seq(Nat), batch \in Seq(Nat), pending \in Seq(Nat), NEW e \in Nat
    PROVE  Append((durable \o batch) \o pending, e)
              = (durable \o batch) \o Append(pending, e)
BY AppendLast, Zenon

\* None of them loses, duplicates or reorders an event.
LEMMA OrderNext ==
    ASSUME TypeOK, SingleWriter, ActiveOwnsBatch, NothingLostOrReordered, [Next]_vars
    PROVE  ActiveOwnsBatch' /\ NothingLostOrReordered'
<1> USE DEF NothingLostOrReordered, ActiveOwnsBatch, Active
<1>0. /\ accepted \in Seq(Nat) /\ durable \in Seq(Nat)
      /\ pending \in Seq(Nat) /\ batch \in Seq(Nat)
      /\ <<>> \in Seq(Nat) /\ durable \o batch \in Seq(Nat)
  BY EmptySeq, ConcatProperties DEF TypeOK, DataOK
<1>1. CASE QEnqueue
  <2>1. Len(accepted) + 1 \in Nat
    BY <1>0, LenProperties
  <2>2. ASSUME NEW e \in Nat
        PROVE  Append((durable \o batch) \o pending, e)
                  = (durable \o batch) \o Append(pending, e)
    BY <1>0, EnqueueExtends, Zenon
  <2>3. Append(accepted, Len(accepted) + 1)
           = (durable \o batch) \o Append(pending, Len(accepted) + 1)
    BY <2>1, <2>2
  <2> QED BY <1>1, <2>3 DEF QEnqueue
<1>2. CASE QTake
  <2>1. batch = <<>> /\ durable \o batch = durable
    BY <1>0, <1>2, ConcatEmptySeq DEF QTake
  <2>2. (durable \o pending) \o <<>> = durable \o pending
    BY <1>0, ConcatProperties, ConcatEmptySeq
  <2> QED BY <1>2, <2>1, <2>2 DEF QTake
<1>3. CASE QCommit
  <2>1. (durable \o batch) \o <<>> = durable \o batch
    BY <1>0, ConcatEmptySeq
  <2> QED BY <1>3, <2>1 DEF QCommit
<1>4. CASE QRequeue
  <2>1. durable \o <<>> = durable
    BY <1>0, ConcatEmptySeq
  <2>2. (durable \o batch) \o pending = durable \o (batch \o pending)
    BY ConcatAssoc, ZenonT(60) DEF TypeOK, DataOK
  <2> QED BY <1>4, <2>1, <2>2 DEF QRequeue
<1>5. CASE QChain
  <2>1. (durable \o batch) \o pending \in Seq(Nat)
    BY <1>0, ConcatProperties
  <2>2. ((durable \o batch) \o pending) \o <<>> = (durable \o batch) \o pending
    BY <2>1, ConcatEmptySeq
  <2> QED BY <1>5, <2>2 DEF QChain
<1>6. CASE UNCHANGED queue
  BY <1>6 DEF queue
<1> QED BY <1>1, <1>2, <1>3, <1>4, <1>5, <1>6, QueueSteps

-----------------------------------------------------------------------------
(* Flush. *)

\* At most one drain and one write: preserved because a drain starts only
\* without a barrier, writes only when no write is active, and a finished
\* background write wakes the waiting drain without starting its write.
LEMMA SingleWriterNext ==
    ASSUME TypeOK, SingleWriter, [Next]_vars
    PROVE  SingleWriter'
<1> USE WritersDistinct DEF SingleWriter, Draining, Stages, queue, calls
<1>0. pc \in [Flushers -> Stages]
  BY DEF TypeOK, DataOK
<1>1. CASE Enqueue \/ CancelAutomaticWait \/ TimerFires
  BY <1>1 DEF Enqueue, CancelAutomaticWait, TimerFires
<1>2. CASE Callback \/ StrayCallback
  <2>1. UNCHANGED <<pc, barrier>>
    BY <1>2 DEF Callback, StrayCallback, CallbackBody
  <2>2. writer' = writer \/ (writer = NoOne /\ writer' = Background)
    <3>1. CallbackBody
      BY <1>2 DEF Callback, StrayCallback
    <3>2. writer = NoOne \/ Active
      BY DEF Active
    <3> QED BY <3>1, <3>2, CallbackOnQueue
  <2> QED BY <2>1, <2>2
<1>3. CASE BackgroundWritten \/ BackgroundFailed
  <2>1. writer = Background /\ writer' \in {NoOne, Background}
        /\ pc' = Wake(pc) /\ barrier' = barrier
    BY <1>3, BackgroundOnQueue DEF BackgroundWritten, BackgroundFailed, Requeue
  <2> QED BY <1>0, <2>1 DEF Wake
<1>4. CASE \E f \in Flushers : Flush(f)
  <2> PICK f \in Flushers : Flush(f)
    BY <1>4
  <2>1. CASE FlushJoins(f) \/ FlushBegins(f) \/ FlushReturned(f)
    BY <1>0, <2>1 DEF FlushJoins, FlushBegins, FlushReturned, Active
  <2>2. CASE DrainWaits(f) \/ DrainEmpty(f)
    BY <1>0, <2>2 DEF DrainWaits, DrainEmpty
  <2>3. CASE DrainTakes(f)
    BY <1>0, <2>3 DEF DrainTakes, TakeBatch, Active
  <2>4. CASE DrainWritten(f)
    BY <1>0, <2>4 DEF DrainWritten
  <2>5. CASE DrainFailed(f)
    BY <1>0, <2>5 DEF DrainFailed, Requeue
  <2>6. CASE FlushReleases(f)
    BY <1>0, <2>6 DEF FlushReleases
  <2> QED BY <2>1, <2>2, <2>3, <2>4, <2>5, <2>6 DEF Flush, DrainStep
<1>5. CASE UNCHANGED vars
  BY <1>5 DEF vars
<1> QED BY <1>1, <1>2, <1>3, <1>4, <1>5 DEF Next, Automatic

\* The accepted and the durable log only grow.
LEMMA LogsGrow ==
    ASSUME TypeOK, SingleWriter, [Next]_vars
    PROVE  /\ Len(accepted) \in Nat /\ Len(accepted') \in Nat
           /\ Len(durable) \in Nat /\ Len(durable') \in Nat
           /\ Len(accepted) <= Len(accepted') /\ Len(durable) <= Len(durable')
<1>1. /\ accepted \in Seq(Nat) /\ durable \in Seq(Nat) /\ batch \in Seq(Nat)
      /\ Len(accepted) \in Nat /\ Len(durable) \in Nat /\ Len(batch) \in Nat
  BY LenProperties DEF TypeOK, DataOK
<1>2. Len(durable \o batch) = Len(durable) + Len(batch)
  BY <1>1, ConcatProperties
<1>3. Len(Append(accepted, Len(accepted) + 1)) = Len(accepted) + 1
  BY <1>1, AppendProperties
<1> QED BY <1>1, <1>2, <1>3, QueueSteps
        DEF QEnqueue, QTake, QCommit, QRequeue, QChain, queue

\* Who holds which result and goal changes only in Flush.
LEMMA ResultsChange ==
    ASSUME TypeOK, [Next]_vars, NEW f \in Flushers
    PROVE  \/ goal'[f] = Len(accepted) /\ result'[f] = "none"
           \/ /\ goal'[f] = goal[f]
              /\ \/ result'[f] = result[f] \/ result'[f] # "ok"
                 \/ ~Active /\ pending = <<>>
<1> USE DEF calls
<1>0. result \in [Flushers -> {"none", "ok", "err", "joined"}] /\ goal \in [Flushers -> Nat]
  BY DEF TypeOK, DataOK
<1>1. CASE Enqueue \/ CancelAutomaticWait \/ TimerFires
  BY <1>1 DEF Enqueue, CancelAutomaticWait, TimerFires
<1>2. CASE Callback \/ StrayCallback
  BY <1>2 DEF Callback, StrayCallback, CallbackBody
<1>3. CASE BackgroundWritten \/ BackgroundFailed
  BY <1>3 DEF BackgroundWritten, BackgroundFailed
<1>4. CASE \E g \in Flushers : Flush(g)
  <2> PICK g \in Flushers : Flush(g)
    BY <1>4
  <2>1. CASE FlushJoins(g) \/ FlushBegins(g)
    BY <1>0, <2>1 DEF FlushJoins, FlushBegins
  <2>2. CASE DrainWaits(g) \/ DrainTakes(g) \/ DrainWritten(g) \/ FlushReturned(g)
    BY <2>2 DEF DrainWaits, DrainTakes, DrainWritten, FlushReturned
  <2>3. CASE DrainEmpty(g)
    BY <1>0, <2>3 DEF DrainEmpty
  <2>4. CASE DrainFailed(g)
    BY <1>0, <2>4 DEF DrainFailed
  <2>5. CASE FlushReleases(g)
    BY <1>0, <2>5 DEF FlushReleases
  <2> QED BY <2>1, <2>2, <2>3, <2>4, <2>5 DEF Flush, DrainStep
<1>5. CASE UNCHANGED vars
  BY <1>5 DEF vars
<1> QED BY <1>1, <1>2, <1>3, <1>4, <1>5 DEF Next, Automatic

\* With nothing pending and no write active, everything is durable: so a drain
\* that sees this has reached the goal of its Flush.
LEMMA FlushNext ==
    ASSUME Inv, [Next]_vars
    PROVE  GoalsAccepted' /\ OwnFlushIsDurable'
<1> SUFFICES ASSUME NEW f \in Flushers
             PROVE  /\ goal'[f] <= Len(accepted')
                    /\ result'[f] = "ok" => goal'[f] <= Len(durable')
  BY DEF GoalsAccepted, OwnFlushIsDurable
<1>1. /\ goal[f] \in Nat /\ goal[f] <= Len(accepted)
      /\ result[f] = "ok" => goal[f] <= Len(durable)
      /\ durable \in Seq(Nat)
  BY DEF Inv, TypeOK, DataOK, GoalsAccepted, OwnFlushIsDurable
<1>2. ~Active /\ pending = <<>> => accepted = durable
  BY <1>1, ConcatEmptySeq DEF Inv, ActiveOwnsBatch, NothingLostOrReordered
<1> QED BY <1>1, <1>2, LogsGrow, ResultsChange DEF Inv

-----------------------------------------------------------------------------
(* The inductive invariant and what follows from it. *)

\* A new controller satisfies the inductive invariant.
LEMMA InvInit == Init => Inv
<1> SUFFICES ASSUME Init PROVE Inv
  OBVIOUS
<1>1. TypeOK
  BY TypeInit
<1>2. NothingLostOrReordered
  <2>1. <<>> \in Seq(Nat) /\ <<>> \o <<>> = <<>>
    BY EmptySeq, ConcatEmptySeq
  <2> QED BY <2>1 DEF Init, NothingLostOrReordered
<1>3. OwnFlushIsDurable /\ GoalsAccepted
  BY EmptySeq DEF Init, OwnFlushIsDurable, GoalsAccepted
<1>4. SingleWriter /\ ActiveOwnsBatch
  BY WritersDistinct DEF Init, SingleWriter, Draining, ActiveOwnsBatch, Active
<1> QED BY <1>1, <1>2, <1>3, <1>4 DEF Inv

\* Every step preserves the inductive invariant.
LEMMA InvNext == Inv /\ [Next]_vars => Inv'
<1> SUFFICES ASSUME Inv, [Next]_vars PROVE Inv'
  OBVIOUS
<1>1. TypeOK'
  BY TypeNext DEF Inv
<1>2. SingleWriter'
  BY SingleWriterNext DEF Inv
<1>3. ActiveOwnsBatch' /\ NothingLostOrReordered'
  BY OrderNext DEF Inv
<1>4. GoalsAccepted' /\ OwnFlushIsDurable'
  BY FlushNext
<1> QED BY <1>1, <1>2, <1>3, <1>4 DEF Inv

\* The controller's state is always well typed.
THEOREM TypeCorrect == Spec => []TypeOK
BY TypeInit, TypeNext, PTL DEF Spec

\* The inductive invariant holds in every state of the controller.
LEMMA InvariantHolds == Spec => []Inv
BY InvInit, InvNext, PTL DEF Spec

\* Durable, in-flight and pending events are always exactly the accepted ones,
\* in order, for any number of failed writes, stray timers and flushers.
THEOREM OrderPreserved == Spec => []NothingLostOrReordered
<1>1. Inv => NothingLostOrReordered
  BY DEF Inv
<1> QED BY <1>1, InvariantHolds, PTL

\* A Flush that drained itself and returned nil made its events durable.
THEOREM DrainsAreDurable == Spec => []OwnFlushIsDurable
<1>1. Inv => OwnFlushIsDurable
  BY DEF Inv
<1> QED BY <1>1, InvariantHolds, PTL

\* Drains never overlap, and a drain keeps the write it started.
THEOREM WritesExclusive == Spec => []SingleWriter
<1>1. Inv => SingleWriter
  BY DEF Inv
<1> QED BY <1>1, InvariantHolds, PTL

-----------------------------------------------------------------------------
(* The controller implements the durable log. *)

\* A new controller is an empty durable log.
LEMMA LogInit == Init => Log!Init
BY DEF Init, Log!Init

\* Every step accepts an event, commits a longer prefix, or changes neither.
LEMMA LogStep == Inv /\ [Next]_vars => [Log!Next]_(Log!vars)
<1> SUFFICES ASSUME Inv, [Next]_vars PROVE [Log!Next]_(Log!vars)
  OBVIOUS
<1> USE DEF Log!Next, Log!vars, Inv
<1>1. CASE QEnqueue
  BY <1>1 DEF QEnqueue, Log!Accept
<1>2. CASE QTake \/ QRequeue \/ UNCHANGED queue
  BY <1>2 DEF QTake, QRequeue, queue
<1>3. CASE QCommit \/ QChain
  <2>1. /\ durable \in Seq(Nat) /\ batch \in Seq(Nat) /\ pending \in Seq(Nat)
        /\ accepted = (durable \o batch) \o pending /\ batch # <<>>
    BY <1>3 DEF TypeOK, DataOK, NothingLostOrReordered, ActiveOwnsBatch, Active,
                QCommit, QChain
  <2>2. /\ Len(durable \o batch) \in (Len(durable) + 1) .. Len(accepted)
        /\ durable \o batch = SubSeq(accepted, 1, Len(durable \o batch))
    BY <2>1, PrefixOfConcat
  <2> QED BY <1>3, <2>2 DEF QCommit, QChain, Log!Commit
<1> QED BY <1>1, <1>2, <1>3, QueueSteps

\* The write-behind controller implements the abstract durable log.
THEOREM ImplementsDurableLog == Spec => Refinement
BY LogInit, LogStep, InvariantHolds, PTL DEF Spec, Refinement, Log!Spec
=============================================================================
