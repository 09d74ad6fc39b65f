------------------------- MODULE JobRegistryProofs -------------------------
(***************************************************************************)
(* The safety of the job registry, for any numbers of jobs, owners,        *)
(* listeners, kills and teardowns.  Inv of JobRegistry is inductive; each  *)
(* of its conjuncts is shown to be preserved by a lemma of its own that    *)
(* cites only the conjuncts it needs.                                      *)
(***************************************************************************)
EXTENDS JobRegistry, TLAPS

\* The registry starts with no job, no listener and no teardown.
LEMMA InitInv == Init => Inv
  <1> SUFFICES ASSUME Init PROVE Inv
    OBVIOUS
  <1>1. TypeOK
    BY DEF Init, TypeOK, Statuses, Terminal, Teardowns
  <1>2. RemovedIsSettled /\ ClosedIsEmpty /\ SettledIsTerminal /\ StartedOnly /\ CloseOwnsAll
    BY DEF Init, RemovedIsSettled, ClosedIsEmpty, SettledIsTerminal, StartedOnly,
           CloseOwnsAll, IsTerminal, Terminal
  <1>3. ListenersAccounted
    BY NoJobIsNone DEF Init, ListenersAccounted
  <1> QED
    BY <1>1, <1>2, <1>3 DEF Inv

\* A step of a job or of a caller leaves every variable in its type.
LEMMA JobType ==
    ASSUME TypeOK, NEW j \in Jobs, Job(j) \/ Call(j) PROVE TypeOK'
  <1> USE DEF TypeOK, life, cancels, hearing, ending, bounds, Statuses, Terminal
  <1>1. ASSUME NEW o \in Owners \cup {NoOwner}, StartJob(j, o) PROVE TypeOK'
    BY <1>1 DEF StartJob, Register
  <1>2. CASE RunReturns(j)
    BY <1>2 DEF RunReturns
  <1>3. CASE RunPanics(j)
    BY <1>3 DEF RunPanics
  <1>4. CASE CancelCall(j)
    BY <1>4 DEF CancelCall
  <1>5. CASE ProducerEnds(j)
    BY <1>5 DEF ProducerEnds
  <1>6. CASE Settle(j)
    BY <1>6 DEF Settle
  <1>7. CASE Kill(j)
    BY <1>7 DEF Kill, KillTo
  <1>8. ASSUME NEW l \in Listeners, OnDone(l, j) PROVE TypeOK'
    BY <1>8 DEF OnDone
  <1>9. ASSUME NEW l \in Listeners, Fire(l, j) PROVE TypeOK'
    BY <1>9 DEF Fire
  <1> QED
    BY <1>1, <1>2, <1>3, <1>4, <1>5, <1>6, <1>7, <1>8, <1>9 DEF Job, Call

\* A step of a teardown leaves every variable in its type.
LEMMA TeardownType ==
    ASSUME TypeOK, NEW k \in Teardowns, Teardown(k) PROVE TypeOK'
  <1> USE DEF TypeOK, life, cancels, hearing, ending, bounds, Statuses, Terminal
  <1>1. ASSUME NEW t \in Owners \cup {Everyone}, TeardownBegins(k, t) PROVE TypeOK'
    BY <1>1, BoundsAreTyped DEF TeardownBegins, Owned
  <1>2. CASE TeardownEnds(k)
    BY <1>2 DEF TeardownEnds, TeardownRemoves
  <1>3. CASE TeardownTimesOut(k)
    BY <1>3 DEF TeardownTimesOut
  <1> QED
    BY <1>1, <1>2, <1>3 DEF Teardown

\* Every step leaves every variable in its type.
LEMMA NextType == TypeOK /\ [Next]_vars => TypeOK'
  <1> SUFFICES ASSUME TypeOK, [Next]_vars PROVE TypeOK'
    OBVIOUS
  <1>1. CASE UNCHANGED vars
    BY <1>1 DEF vars, life, cancels, hearing, ending, bounds, TypeOK
  <1>2. ASSUME NEW j \in Jobs, Job(j) \/ Call(j) PROVE TypeOK'
    BY <1>2, JobType
  <1>3. ASSUME NEW k \in Teardowns, Teardown(k) PROVE TypeOK'
    BY <1>3, TeardownType
  <1> QED
    BY <1>1, <1>2, <1>3 DEF Next

\* A job that was never registered or whose Run panicked is not in the registry.
LEMMA NextStarted ==
    ASSUME TypeOK, StartedOnly, SettledIsTerminal, [Next]_vars PROVE StartedOnly'
  <1> USE DEF StartedOnly, SettledIsTerminal, TypeOK, IsTerminal, Terminal, Statuses, Hooked,
          life, cancels, hearing, ending, bounds
  <1>0. CASE UNCHANGED vars
    BY <1>0 DEF vars
  <1>1. ASSUME NEW j \in Jobs, NEW o \in Owners \cup {NoOwner}, StartJob(j, o) PROVE StartedOnly'
    BY <1>1 DEF StartJob, Register
  <1>2. ASSUME NEW j \in Jobs, RunReturns(j) PROVE StartedOnly'
    BY <1>2 DEF RunReturns
  <1>3. ASSUME NEW j \in Jobs, RunPanics(j) PROVE StartedOnly'
    BY <1>3 DEF RunPanics
  <1>4. ASSUME NEW j \in Jobs, CancelCall(j) PROVE StartedOnly'
    BY <1>4 DEF CancelCall
  <1>5. ASSUME NEW j \in Jobs, ProducerEnds(j) PROVE StartedOnly'
    BY <1>5 DEF ProducerEnds
  <1>6. ASSUME NEW j \in Jobs, Settle(j) PROVE StartedOnly'
    BY <1>6 DEF Settle
  <1>7. ASSUME NEW j \in Jobs, Kill(j) PROVE StartedOnly'
    BY <1>7 DEF Kill, KillTo
  <1>8. ASSUME NEW j \in Jobs, NEW l \in Listeners, OnDone(l, j) PROVE StartedOnly'
    BY <1>8 DEF OnDone
  <1>9. ASSUME NEW j \in Jobs, NEW l \in Listeners, Fire(l, j) PROVE StartedOnly'
    BY <1>9 DEF Fire
  <1>10. ASSUME NEW k \in Teardowns, NEW t \in Owners \cup {Everyone}, TeardownBegins(k, t)
         PROVE  StartedOnly'
    BY <1>10 DEF TeardownBegins, Owned
  <1>11. ASSUME NEW k \in Teardowns, TeardownEnds(k) PROVE StartedOnly'
    BY <1>11 DEF TeardownEnds, TeardownRemoves, Removed
  <1>12. ASSUME NEW k \in Teardowns, TeardownTimesOut(k) PROVE StartedOnly'
    BY <1>12 DEF TeardownTimesOut
  <1> QED
    BY <1>0, <1>1, <1>2, <1>3, <1>4, <1>5, <1>6, <1>7, <1>8, <1>9, <1>10, <1>11, <1>12
    DEF Next, Job, Call, Teardown

\* The settled mark and a terminal status go together.
LEMMA NextSettled ==
    ASSUME TypeOK, SettledIsTerminal, [Next]_vars PROVE SettledIsTerminal'
  <1> USE DEF SettledIsTerminal, TypeOK, IsTerminal, Terminal, Statuses, Hooked,
          life, cancels, hearing, ending, bounds
  <1>0. CASE UNCHANGED vars
    BY <1>0 DEF vars
  <1>1. ASSUME NEW j \in Jobs, NEW o \in Owners \cup {NoOwner}, StartJob(j, o) PROVE SettledIsTerminal'
    BY <1>1 DEF StartJob, Register
  <1>2. ASSUME NEW j \in Jobs, RunReturns(j) PROVE SettledIsTerminal'
    BY <1>2 DEF RunReturns
  <1>3. ASSUME NEW j \in Jobs, RunPanics(j) PROVE SettledIsTerminal'
    BY <1>3 DEF RunPanics
  <1>4. ASSUME NEW j \in Jobs, CancelCall(j) PROVE SettledIsTerminal'
    BY <1>4 DEF CancelCall
  <1>5. ASSUME NEW j \in Jobs, ProducerEnds(j) PROVE SettledIsTerminal'
    BY <1>5 DEF ProducerEnds
  <1>6. ASSUME NEW j \in Jobs, Settle(j) PROVE SettledIsTerminal'
    BY <1>6 DEF Settle
  <1>7. ASSUME NEW j \in Jobs, Kill(j) PROVE SettledIsTerminal'
    BY <1>7 DEF Kill, KillTo
  <1>8. ASSUME NEW j \in Jobs, NEW l \in Listeners, OnDone(l, j) PROVE SettledIsTerminal'
    BY <1>8 DEF OnDone
  <1>9. ASSUME NEW j \in Jobs, NEW l \in Listeners, Fire(l, j) PROVE SettledIsTerminal'
    BY <1>9 DEF Fire
  <1>10. ASSUME NEW k \in Teardowns, NEW t \in Owners \cup {Everyone}, TeardownBegins(k, t)
         PROVE  SettledIsTerminal'
    BY <1>10 DEF TeardownBegins, Owned
  <1>11. ASSUME NEW k \in Teardowns, TeardownEnds(k) PROVE SettledIsTerminal'
    BY <1>11 DEF TeardownEnds, TeardownRemoves, Removed
  <1>12. ASSUME NEW k \in Teardowns, TeardownTimesOut(k) PROVE SettledIsTerminal'
    BY <1>12 DEF TeardownTimesOut
  <1> QED
    BY <1>0, <1>1, <1>2, <1>3, <1>4, <1>5, <1>6, <1>7, <1>8, <1>9, <1>10, <1>11, <1>12
    DEF Next, Job, Call, Teardown

\* No job is registered behind a running Close.
LEMMA NextCloseOwns ==
    ASSUME TypeOK, CloseOwnsAll, ClosedIsEmpty, [Next]_vars PROVE CloseOwnsAll'
  <1> USE DEF CloseOwnsAll, ClosedIsEmpty, TypeOK, Teardowns,
          life, cancels, hearing, ending, bounds
  <1>0. CASE UNCHANGED vars
    BY <1>0 DEF vars
  <1>1. ASSUME NEW j \in Jobs, NEW o \in Owners \cup {NoOwner}, StartJob(j, o) PROVE CloseOwnsAll'
    BY <1>1 DEF StartJob, Register
  <1>2. ASSUME NEW j \in Jobs, RunReturns(j) PROVE CloseOwnsAll'
    BY <1>2 DEF RunReturns
  <1>3. ASSUME NEW j \in Jobs, RunPanics(j) PROVE CloseOwnsAll'
    BY <1>3 DEF RunPanics
  <1>4. ASSUME NEW j \in Jobs, CancelCall(j) PROVE CloseOwnsAll'
    BY <1>4 DEF CancelCall
  <1>5. ASSUME NEW j \in Jobs, ProducerEnds(j) PROVE CloseOwnsAll'
    BY <1>5 DEF ProducerEnds
  <1>6. ASSUME NEW j \in Jobs, Settle(j) PROVE CloseOwnsAll'
    BY <1>6 DEF Settle
  <1>7. ASSUME NEW j \in Jobs, Kill(j) PROVE CloseOwnsAll'
    BY <1>7 DEF Kill, KillTo
  <1>8. ASSUME NEW j \in Jobs, NEW l \in Listeners, OnDone(l, j) PROVE CloseOwnsAll'
    BY <1>8 DEF OnDone
  <1>9. ASSUME NEW j \in Jobs, NEW l \in Listeners, Fire(l, j) PROVE CloseOwnsAll'
    BY <1>9 DEF Fire
  <1>10. ASSUME NEW k \in Teardowns, NEW t \in Owners \cup {Everyone}, TeardownBegins(k, t)
         PROVE  CloseOwnsAll'
    BY <1>10 DEF TeardownBegins, Owned
  <1>11. ASSUME NEW k \in Teardowns, TeardownEnds(k) PROVE CloseOwnsAll'
    BY <1>11 DEF TeardownEnds, TeardownRemoves, Removed
  <1>12. ASSUME NEW k \in Teardowns, TeardownTimesOut(k) PROVE CloseOwnsAll'
    BY <1>12 DEF TeardownTimesOut
  <1> QED
    BY <1>0, <1>1, <1>2, <1>3, <1>4, <1>5, <1>6, <1>7, <1>8, <1>9, <1>10, <1>11, <1>12
    DEF Next, Job, Call, Teardown

\* Nothing is registered after a Close.
LEMMA NextClosed ==
    ASSUME TypeOK, CloseOwnsAll, ClosedIsEmpty, [Next]_vars PROVE ClosedIsEmpty'
  <1> USE DEF CloseOwnsAll, ClosedIsEmpty, TypeOK, Teardowns,
          life, cancels, hearing, ending, bounds
  <1>0. CASE UNCHANGED vars
    BY <1>0 DEF vars
  <1>1. ASSUME NEW j \in Jobs, NEW o \in Owners \cup {NoOwner}, StartJob(j, o) PROVE ClosedIsEmpty'
    BY <1>1 DEF StartJob, Register
  <1>2. ASSUME NEW j \in Jobs, RunReturns(j) PROVE ClosedIsEmpty'
    BY <1>2 DEF RunReturns
  <1>3. ASSUME NEW j \in Jobs, RunPanics(j) PROVE ClosedIsEmpty'
    BY <1>3 DEF RunPanics
  <1>4. ASSUME NEW j \in Jobs, CancelCall(j) PROVE ClosedIsEmpty'
    BY <1>4 DEF CancelCall
  <1>5. ASSUME NEW j \in Jobs, ProducerEnds(j) PROVE ClosedIsEmpty'
    BY <1>5 DEF ProducerEnds
  <1>6. ASSUME NEW j \in Jobs, Settle(j) PROVE ClosedIsEmpty'
    BY <1>6 DEF Settle
  <1>7. ASSUME NEW j \in Jobs, Kill(j) PROVE ClosedIsEmpty'
    BY <1>7 DEF Kill, KillTo
  <1>8. ASSUME NEW j \in Jobs, NEW l \in Listeners, OnDone(l, j) PROVE ClosedIsEmpty'
    BY <1>8 DEF OnDone
  <1>9. ASSUME NEW j \in Jobs, NEW l \in Listeners, Fire(l, j) PROVE ClosedIsEmpty'
    BY <1>9 DEF Fire
  <1>10. ASSUME NEW k \in Teardowns, NEW t \in Owners \cup {Everyone}, TeardownBegins(k, t)
         PROVE  ClosedIsEmpty'
    BY <1>10 DEF TeardownBegins, Owned
  <1>11. ASSUME NEW k \in Teardowns, TeardownEnds(k) PROVE ClosedIsEmpty'
    BY <1>11 DEF TeardownEnds, TeardownRemoves, Removed
  <1>12. ASSUME NEW k \in Teardowns, TeardownTimesOut(k) PROVE ClosedIsEmpty'
    BY <1>12 DEF TeardownTimesOut
  <1> QED
    BY <1>0, <1>1, <1>2, <1>3, <1>4, <1>5, <1>6, <1>7, <1>8, <1>9, <1>10, <1>11, <1>12
    DEF Next, Job, Call, Teardown

\* Nothing that may still run leaves the registry.
LEMMA NextRemoved ==
    ASSUME TypeOK, RemovedIsSettled, StartedOnly, CloseOwnsAll, [Next]_vars PROVE RemovedIsSettled'
  <1> USE DEF RemovedIsSettled, StartedOnly, CloseOwnsAll, TypeOK, Teardowns,
          life, cancels, hearing, ending, bounds
  <1>0. CASE UNCHANGED vars
    BY <1>0 DEF vars
  <1>1. ASSUME NEW j \in Jobs, NEW o \in Owners \cup {NoOwner}, StartJob(j, o) PROVE RemovedIsSettled'
    BY <1>1 DEF StartJob, Register
  <1>2. ASSUME NEW j \in Jobs, RunReturns(j) PROVE RemovedIsSettled'
    BY <1>2 DEF RunReturns
  <1>3. ASSUME NEW j \in Jobs, RunPanics(j) PROVE RemovedIsSettled'
    BY <1>3 DEF RunPanics
  <1>4. ASSUME NEW j \in Jobs, CancelCall(j) PROVE RemovedIsSettled'
    BY <1>4 DEF CancelCall
  <1>5. ASSUME NEW j \in Jobs, ProducerEnds(j) PROVE RemovedIsSettled'
    BY <1>5 DEF ProducerEnds
  <1>6. ASSUME NEW j \in Jobs, Settle(j) PROVE RemovedIsSettled'
    BY <1>6 DEF Settle
  <1>7. ASSUME NEW j \in Jobs, Kill(j) PROVE RemovedIsSettled'
    BY <1>7 DEF Kill, KillTo
  <1>8. ASSUME NEW j \in Jobs, NEW l \in Listeners, OnDone(l, j) PROVE RemovedIsSettled'
    BY <1>8 DEF OnDone
  <1>9. ASSUME NEW j \in Jobs, NEW l \in Listeners, Fire(l, j) PROVE RemovedIsSettled'
    BY <1>9 DEF Fire
  <1>10. ASSUME NEW k \in Teardowns, NEW t \in Owners \cup {Everyone}, TeardownBegins(k, t)
         PROVE  RemovedIsSettled'
    BY <1>10 DEF TeardownBegins, Owned
  <1>11. ASSUME NEW k \in Teardowns, TeardownEnds(k) PROVE RemovedIsSettled'
    BY <1>11 DEF TeardownEnds, TeardownRemoves, Removed
  <1>12. ASSUME NEW k \in Teardowns, TeardownTimesOut(k) PROVE RemovedIsSettled'
    BY <1>12 DEF TeardownTimesOut
  <1> QED
    BY <1>0, <1>1, <1>2, <1>3, <1>4, <1>5, <1>6, <1>7, <1>8, <1>9, <1>10, <1>11, <1>12
    DEF Next, Job, Call, Teardown

\* A listener moves from asked over registered and to be called to called.
LEMMA NextListeners ==
    ASSUME TypeOK, ListenersAccounted, SettledIsTerminal, [Next]_vars PROVE ListenersAccounted'
  <1> USE DEF ListenersAccounted, SettledIsTerminal, TypeOK, Terminal, Statuses, IsTerminal,
          life, cancels, hearing, ending, bounds
  <1>0. CASE UNCHANGED vars
    BY <1>0 DEF vars
  <1>1. ASSUME NEW j \in Jobs, NEW o \in Owners \cup {NoOwner}, StartJob(j, o) PROVE ListenersAccounted'
    BY <1>1 DEF StartJob, Register
  <1>2. ASSUME NEW j \in Jobs, RunReturns(j) PROVE ListenersAccounted'
    BY <1>2 DEF RunReturns
  <1>3. ASSUME NEW j \in Jobs, RunPanics(j) PROVE ListenersAccounted'
    BY <1>3 DEF RunPanics
  <1>4. ASSUME NEW j \in Jobs, CancelCall(j) PROVE ListenersAccounted'
    BY <1>4 DEF CancelCall
  <1>5. ASSUME NEW j \in Jobs, ProducerEnds(j) PROVE ListenersAccounted'
    BY <1>5 DEF ProducerEnds
  <1>6. ASSUME NEW j \in Jobs, Settle(j) PROVE ListenersAccounted'
    BY <1>6 DEF Settle
  <1>7. ASSUME NEW j \in Jobs, Kill(j) PROVE ListenersAccounted'
    BY <1>7 DEF Kill, KillTo
  <1>8. ASSUME NEW j \in Jobs, NEW l \in Listeners, OnDone(l, j) PROVE ListenersAccounted'
    <2>1. /\ fired[l] = 0 /\ asked' = [asked EXCEPT ![l] = j]
          /\ UNCHANGED <<fired, status, settled>>
      BY <1>8 DEF OnDone
    <2>2. \A k \in Listeners, i \in Jobs : k \in heard[i] \/ <<k, i>> \in firing => k # l
      BY <1>8, NoJobIsNone DEF OnDone
    <2>3. CASE IsTerminal(j)
      <3>1. j \in settled /\ firing' = firing \cup {<<l, j>>} /\ heard' = heard
        BY <1>8, <2>3 DEF OnDone
      <3> QED
        BY <2>1, <2>2, <3>1
    <2>4. CASE ~IsTerminal(j)
      <3>1. j \notin settled /\ heard' = [heard EXCEPT ![j] = @ \cup {l}] /\ firing' = firing
        BY <1>8, <2>4 DEF OnDone
      <3> QED
        BY <2>1, <2>2, <3>1
    <2> QED
      BY <2>3, <2>4
  <1>9. ASSUME NEW j \in Jobs, NEW l \in Listeners, Fire(l, j) PROVE ListenersAccounted'
    <2>0. <<l, j>> \in firing /\ asked[l] = j /\ fired[l] = 0 /\ j \in settled
      BY <1>9 DEF Fire
    <2>1. /\ fired' = [fired EXCEPT ![l] = fired[l] + 1]
          /\ firing' = firing \ {<<l, j>>}
          /\ UNCHANGED <<heard, asked, status, settled>>
      BY <1>9 DEF Fire
    <2>2. \A i \in Jobs : l \notin heard[i] /\ <<l, i>> \notin firing'
      BY <2>0, <2>1
    <2>3. \A k \in Listeners : k # l => fired'[k] = fired[k]
      BY <2>1
    <2>4. fired'[l] = 1 /\ asked[l] # NoJob
      BY <2>0, <2>1, NoJobIsNone
    <2>5. \A k \in Listeners, i \in Jobs : <<k, i>> \in firing' => <<k, i>> \in firing
      BY <2>1
    <2> QED
      BY <2>1, <2>2, <2>3, <2>4, <2>5
  <1>10. ASSUME NEW k \in Teardowns, NEW t \in Owners \cup {Everyone}, TeardownBegins(k, t)
         PROVE  ListenersAccounted'
    BY <1>10 DEF TeardownBegins, Owned
  <1>11. ASSUME NEW k \in Teardowns, TeardownEnds(k) PROVE ListenersAccounted'
    BY <1>11 DEF TeardownEnds, TeardownRemoves, Removed
  <1>12. ASSUME NEW k \in Teardowns, TeardownTimesOut(k) PROVE ListenersAccounted'
    BY <1>12 DEF TeardownTimesOut
  <1> QED
    BY <1>0, <1>1, <1>2, <1>3, <1>4, <1>5, <1>6, <1>7, <1>8, <1>9, <1>10, <1>11, <1>12
    DEF Next, Job, Call, Teardown

\* Every step preserves the inductive invariant.
LEMMA NextInv == Inv /\ [Next]_vars => Inv'
  BY NextType, NextRemoved, NextClosed, NextSettled, NextStarted, NextCloseOwns, NextListeners
  DEF Inv

\* The inductive invariant holds in every state of the registry.
THEOREM InvHolds == Spec => []Inv
  <1> QED
    BY InitInv, NextInv, PTL DEF Spec

\* Every variable keeps its type, whatever Start, Kill, OnDone, ReleaseOwner
\* and Close do.
THEOREM TypeCorrect == Spec => []TypeOK
  <1>1. Inv => TypeOK
    BY DEF Inv
  <1> QED
    BY <1>1, InvHolds, PTL

\* No teardown, however many run and time out, removes a job that may still
\* run: the delete in ReleaseOwner and the new map of Close.
THEOREM RemovedJobsHaveSettled == Spec => []RemovedIsSettled
  <1>1. Inv => RemovedIsSettled
    BY DEF Inv
  <1> QED
    BY <1>1, InvHolds, PTL

\* The shuttingDown flag keeps every Start out of a closed registry.
THEOREM ClosedStaysEmpty == Spec => []ClosedIsEmpty
  <1>1. Inv => ClosedIsEmpty
    BY DEF Inv
  <1> QED
    BY <1>1, InvHolds, PTL

\* OnDone calls a listener at most once, after its job has settled.
THEOREM ListenersFireOnce == Spec => []FiresOnce
  <1>1. Inv => FiresOnce
    BY DEF Inv, TypeOK, ListenersAccounted, FiresOnce
  <1> QED
    BY <1>1, InvHolds, PTL

\* No kill, outcome or teardown changes the status of a job that has ended:
\* settled stops a second outcome, and everything else looks at the status.
LEMMA NextKeepsTerminal ==
    ASSUME Inv, [Next]_vars
    PROVE  \A j \in Jobs : IsTerminal(j) => status'[j] = status[j]
  <1> SUFFICES ASSUME NEW i \in Jobs, IsTerminal(i) PROVE status'[i] = status[i]
    OBVIOUS
  <1> USE DEF life, cancels, hearing, ending, bounds
  <1>1. TypeOK /\ i \in settled /\ status[i] # "running"
    BY DEF Inv, SettledIsTerminal, IsTerminal, Terminal
  <1>2. CASE UNCHANGED vars
    BY <1>2 DEF vars
  <1>3. ASSUME NEW j \in Jobs, Settle(j) PROVE status'[i] = status[i]
    BY <1>1, <1>3 DEF Settle, TypeOK
  <1>4. ASSUME NEW j \in Jobs, Kill(j) PROVE status'[i] = status[i]
    BY <1>1, <1>4 DEF Kill, KillTo, TypeOK
  <1>5. ASSUME NEW k \in Teardowns, NEW t \in Owners \cup {Everyone}, TeardownBegins(k, t)
        PROVE status'[i] = status[i]
    BY <1>1, <1>5 DEF TeardownBegins
  <1>6. ASSUME NEW j \in Jobs, Job(j) \/ Call(j), ~Settle(j), ~Kill(j) PROVE UNCHANGED status
    BY <1>6 DEF Job, Call, StartJob, Register, RunReturns, RunPanics, CancelCall,
       ProducerEnds, OnDone, Fire
  <1>7. ASSUME NEW k \in Teardowns, TeardownEnds(k) \/ TeardownTimesOut(k)
        PROVE UNCHANGED status
    BY <1>7 DEF TeardownEnds, TeardownRemoves, TeardownTimesOut
  <1> QED
    BY <1>2, <1>3, <1>4, <1>5, <1>6, <1>7 DEF Next, Teardown

\* A job that has ended keeps its status for as long as it is listed.
THEOREM TerminalStatusIsFinal == Spec => TerminalIsFinal
  <1>1. Inv /\ [Next]_vars => [\A j \in Jobs : IsTerminal(j) => status'[j] = status[j]]_vars
    BY NextKeepsTerminal
  <1> QED
    BY <1>1, InvHolds, PTL DEF Spec, TerminalIsFinal
=============================================================================
