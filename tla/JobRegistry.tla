---------------------------- MODULE JobRegistry ----------------------------
(***************************************************************************)
(* The registry of background jobs, internal/jobs/jobs.go, with the        *)
(* producers internal/tool/jobs_tool.go starts.                            *)
(*                                                                         *)
(* One mutex protects the registry, so every critical section is one       *)
(* action.  Outside the mutex, and so steps of their own, are the          *)
(* producer's Run, calls of its Cancel hook, the completion listeners, and *)
(* what ReleaseOwner and Close do after blocking on a job's done channel.  *)
(* Snapshot, List, Read and Wait look at what is modelled and set only the *)
(* reported flag, which nothing here reads.                                *)
(***************************************************************************)
EXTENDS Naturals, FiniteSets

CONSTANTS Jobs,          \* job ids the registry will issue
          NoJob,         \* none of them
          Owners,        \* owner sessions
          NoOwner,       \* the owner of a job anybody may use
          Everyone,      \* Close: the teardown of all owners' jobs
          Listeners,     \* completion listeners, each used for one OnDone
          MaxKills,      \* bound: Kill calls
          MaxTeardowns,  \* bound: ReleaseOwner and Close calls
          MayPanic       \* whether a producer's Run may panic

ASSUME NoJobIsNone == NoJob \notin Jobs
ASSUME OwnersDistinct == NoOwner \notin Owners /\ Everyone \notin Owners /\ NoOwner # Everyone
ASSUME BoundsAreTyped == MayPanic \in BOOLEAN /\ MaxTeardowns \in Nat

VARIABLES
    start,       \* where Start is for a job: before it, in Run, returned, panicked
    owner,       \* j.owner
    listed,      \* the ids in r.jobs
    status,      \* j.status
    settled,     \* jobs whose j.settled is set and whose j.done is closed
    pending,     \* jobs with a pendingCancel reason
    calls,       \* Cancel calls decided under the mutex and not made yet
    cancelled,   \* history: jobs whose Cancel hook was called
    killed,      \* history: jobs Kill found live, not terminal
    outcome,     \* what the producer sent on Done, or "none"
    heard,       \* r.done: the listeners registered for each job
    firing,      \* listeners to be called with a job, outside the mutex
    fired,       \* history: how often each listener was called
    asked,       \* history: the job OnDone took a listener for, or NoJob
    target,      \* whose jobs a ReleaseOwner or Close tears down, NoOwner before it
    teardown,    \* the jobs it awaits; {} when it is not running
    tearing,     \* the teardowns that are running
    phase,       \* "open", "closing" (r.shuttingDown), "closed" (and a Close returned nil)
    kills, teardowns

life    == <<start, owner, listed, status, settled>>
cancels == <<pending, calls, cancelled, killed>>
hearing == <<heard, firing, fired, asked>>
ending  == <<target, teardown, tearing, phase>>
bounds  == <<kills, teardowns>>
vars    == <<life, cancels, outcome, hearing, ending, bounds>>

Terminal == {"completed", "killed", "failed"}
Statuses == {"running", "stopping"} \cup Terminal
Teardowns == 1..MaxTeardowns     \* the ReleaseOwner and Close calls, in their order

IsTerminal(j) == status[j] \in Terminal

\* j.hooks are installed.
Hooked(j) == start[j] = "returned"

TypeOK ==
    /\ start \in [Jobs -> {"new", "run", "returned", "panicked"}]
    /\ owner \in [Jobs -> Owners \cup {NoOwner}]
    /\ status \in [Jobs -> Statuses]
    /\ outcome \in [Jobs -> Terminal \cup {"none"}]
    /\ calls \in [Jobs -> Nat]
    /\ listed \subseteq Jobs /\ settled \subseteq Jobs /\ pending \subseteq Jobs
    /\ cancelled \subseteq Jobs /\ killed \subseteq Jobs
    /\ heard \in [Jobs -> SUBSET Listeners]
    /\ firing \subseteq Listeners \X Jobs
    /\ fired \in [Listeners -> Nat]
    /\ asked \in [Listeners -> Jobs \cup {NoJob}]
    /\ target \in [Teardowns -> Owners \cup {Everyone, NoOwner}]
    /\ teardown \in [Teardowns -> SUBSET Jobs]
    /\ tearing \subseteq Teardowns
    /\ phase \in {"open", "closing", "closed"}
    /\ kills \in Nat /\ teardowns \in Nat

Init ==
    /\ start = [j \in Jobs |-> "new"]
    /\ owner = [j \in Jobs |-> NoOwner]
    /\ listed = {} /\ settled = {}
    /\ status = [j \in Jobs |-> "running"]
    /\ pending = {} /\ calls = [j \in Jobs |-> 0] /\ cancelled = {} /\ killed = {}
    /\ outcome = [j \in Jobs |-> "none"]
    /\ heard = [j \in Jobs |-> {}] /\ firing = {}
    /\ fired = [l \in Listeners |-> 0]
    /\ asked = [l \in Listeners |-> NoJob]
    /\ target = [k \in Teardowns |-> NoOwner]
    /\ teardown = [k \in Teardowns |-> {}] /\ tearing = {}
    /\ phase = "open"
    /\ kills = 0 /\ teardowns = 0

-----------------------------------------------------------------------------
(* Start, and the producer it runs. *)

Register(j, o) ==
    /\ start[j] = "new"
    /\ start' = [start EXCEPT ![j] = "run"]
    /\ owner' = [owner EXCEPT ![j] = o]
    /\ listed' = listed \cup {j}
    /\ UNCHANGED <<status, settled, cancels, outcome, hearing, ending, bounds>>

\* The first critical section of Start; an unowned job has the owner "".  Its
\* mutated form, Register alone, does not look whether Close has begun.
StartJob(j, o) == phase = "open" /\ Register(j, o)

\* Run returned: install the hooks and deliver a cancel that came before them.
RunReturns(j) ==
    /\ start[j] = "run"
    /\ start' = [start EXCEPT ![j] = "returned"]
    /\ calls' = IF status[j] = "stopping" /\ j \in pending
                THEN [calls EXCEPT ![j] = @ + 1] ELSE calls
    /\ UNCHANGED <<owner, listed, status, settled, pending, cancelled, killed, outcome, hearing, ending, bounds>>

\* A panic leaves nothing registered; j.done stays open.
RunPanics(j) ==
    /\ start[j] = "run" /\ MayPanic
    /\ start' = [start EXCEPT ![j] = "panicked"]
    /\ listed' = listed \ {j}
    /\ UNCHANGED <<owner, status, settled, cancels, outcome, hearing,
                   ending, bounds>>

\* Variant with a bug: the call is not counted as made.
CancelCallAgain(j) ==
    /\ calls' = [calls EXCEPT ![j] = @ - 1]
    /\ cancelled' = cancelled \cup {j}
    /\ UNCHANGED <<life, pending, killed, outcome, hearing, ending, bounds>>

\* Somebody calls the Cancel hook.  Start makes its call before it listens to
\* the producer and a teardown before it waits; here a call may also be late.
CancelCall(j) ==
    /\ calls[j] > 0
    /\ calls' = [calls EXCEPT ![j] = @ - 1]
    /\ cancelled' = cancelled \cup {j}
    /\ UNCHANGED <<life, pending, killed, outcome, hearing, ending, bounds>>

\* The producer sends its one outcome: "killed" also when somebody else's
\* signal ended it.
ProducerEnds(j) ==
    /\ Hooked(j) /\ outcome[j] = "none"
    /\ \E o \in Terminal : outcome' = [outcome EXCEPT ![j] = o]
    /\ UNCHANGED <<life, cancels, hearing, ending, bounds>>

\* Variant with a bug: the listeners are not taken over.
SettleDeaf(j) ==
    /\ outcome[j] # "none" /\ j \in listed /\ j \notin settled
    /\ settled' = settled \cup {j}
    /\ status' = [status EXCEPT ![j] = outcome[j]]
    /\ heard' = [heard EXCEPT ![j] = {}]
    /\ UNCHANGED <<start, owner, listed, cancels, outcome, firing, fired, asked, ending, bounds>>

\* fireDone: settle the job once and take over its listeners.
Settle(j) ==
    /\ outcome[j] # "none" /\ j \in listed /\ j \notin settled
    /\ settled' = settled \cup {j}
    /\ status' = [status EXCEPT ![j] = outcome[j]]
    /\ firing' = firing \cup (heard[j] \X {j})
    /\ heard' = [heard EXCEPT ![j] = {}]
    /\ UNCHANGED <<start, owner, listed, cancels, outcome, fired, asked,
                   ending, bounds>>

-----------------------------------------------------------------------------
(* The callers. *)

\* A kill of job j, whose status becomes s.
KillTo(j, s) ==
    /\ kills < MaxKills /\ kills' = kills + 1 /\ j \in listed
    /\ status' = [status EXCEPT ![j] = s]
    /\ IF IsTerminal(j)
       THEN UNCHANGED <<pending, calls, killed>>
       ELSE /\ killed' = killed \cup {j}
            /\ pending' = IF Hooked(j) THEN pending ELSE pending \cup {j}
            /\ calls' = IF Hooked(j) THEN [calls EXCEPT ![j] = @ + 1] ELSE calls
    /\ UNCHANGED <<start, owner, listed, settled, cancelled, outcome, hearing, ending,
                   teardowns>>

\* Variants with a bug: the status is not looked at; a kill before the hooks
\* is forgotten.
KillAnyway(j) == KillTo(j, "stopping")
KillForgets(j) ==
    /\ kills < MaxKills /\ kills' = kills + 1 /\ j \in listed /\ ~IsTerminal(j)
    /\ status' = [status EXCEPT ![j] = "stopping"]
    /\ killed' = killed \cup {j}
    /\ calls' = IF Hooked(j) THEN [calls EXCEPT ![j] = @ + 1] ELSE calls
    /\ UNCHANGED <<start, owner, listed, settled, pending, cancelled, outcome, hearing, ending, teardowns>>

\* Kill, with a reason (jobs_tool.go always gives one).
Kill(j) == KillTo(j, IF status[j] = "running" THEN "stopping" ELSE status[j])

\* OnDone: fire at once for a terminal job, else register.
OnDone(l, j) ==
    /\ asked[l] = NoJob /\ j \in listed
    /\ asked' = [asked EXCEPT ![l] = j]
    /\ IF IsTerminal(j)
       THEN firing' = firing \cup {<<l, j>>} /\ UNCHANGED heard
       ELSE heard' = [heard EXCEPT ![j] = @ \cup {l}] /\ UNCHANGED firing
    /\ UNCHANGED <<life, cancels, outcome, fired, ending, bounds>>

Fire(l, j) ==
    /\ <<l, j>> \in firing
    /\ firing' = firing \ {<<l, j>>}
    /\ fired' = [fired EXCEPT ![l] = @ + 1]
    /\ UNCHANGED <<life, cancels, outcome, heard, asked, ending, bounds>>

-----------------------------------------------------------------------------
(* ReleaseOwner(t) and, for t = Everyone, Close: the call number k.  Nothing *)
(* keeps two of them, of one owner even, from running at the same time.      *)

Owned(t) == {j \in listed : t \in {owner[j], Everyone}}

TeardownBegins(k, t) ==
    /\ k = teardowns + 1 /\ teardowns' = k
    /\ target' = [target EXCEPT ![k] = t]
    /\ tearing' = tearing \cup {k}
    /\ teardown' = [teardown EXCEPT ![k] = Owned(t)]
    /\ phase' = IF t = Everyone /\ phase = "open" THEN "closing" ELSE phase
    /\ status' = [j \in Jobs |-> IF j \in Owned(t) /\ status[j] = "running"
                                 THEN "stopping" ELSE status[j]]
    /\ calls' = [j \in Jobs |-> IF j \in Owned(t) /\ Hooked(j) /\ ~IsTerminal(j)
                                THEN calls[j] + 1 ELSE calls[j]]
    /\ UNCHANGED <<start, owner, listed, settled, pending, cancelled, killed, outcome,
                   hearing, kills>>

\* Remove the jobs that were awaited; Close clears the whole registry.
Removed(k) == IF target[k] = Everyone THEN Jobs ELSE teardown[k]

TeardownRemoves(k) ==
    /\ listed' = listed \ Removed(k)
    /\ heard' = [j \in Jobs |-> IF j \in Removed(k) THEN {} ELSE heard[j]]
    /\ tearing' = tearing \ {k} /\ teardown' = [teardown EXCEPT ![k] = {}]
    /\ phase' = IF target[k] = Everyone THEN "closed" ELSE phase
    /\ UNCHANGED <<start, owner, status, settled, cancels, outcome, firing, fired, asked, target, bounds>>

\* Every awaited job has settled.
TeardownEnds(k) ==
    /\ k \in tearing /\ teardown[k] \subseteq settled
    /\ TeardownRemoves(k)

\* The grace period of 5 s ends first: return an error, remove nothing.
TeardownTimesOut(k) ==
    /\ k \in tearing /\ ~ teardown[k] \subseteq settled
    /\ tearing' = tearing \ {k} /\ teardown' = [teardown EXCEPT ![k] = {}]
    /\ UNCHANGED <<life, cancels, outcome, hearing, target, phase, bounds>>

-----------------------------------------------------------------------------
Job(j) ==
    \/ \E o \in Owners \cup {NoOwner} : StartJob(j, o)
    \/ RunReturns(j) \/ RunPanics(j) \/ CancelCall(j) \/ ProducerEnds(j) \/ Settle(j)

Call(j) ==
    \/ Kill(j)
    \/ \E l \in Listeners : OnDone(l, j) \/ Fire(l, j)

Teardown(k) ==
    \/ \E t \in Owners \cup {Everyone} : TeardownBegins(k, t)
    \/ TeardownEnds(k) \/ TeardownTimesOut(k)

Next ==
    \/ \E j \in Jobs : Job(j) \/ Call(j)
    \/ \E k \in Teardowns : Teardown(k)

Spec == Init /\ [][Next]_vars

\* Goroutines that can run do; Run returns or panics; a producer whose Cancel
\* hook was called ends ("it must ... eventually send on Done", Hooks.Cancel).
Fairness ==
    /\ \A j \in Jobs : /\ WF_vars(RunReturns(j) \/ RunPanics(j))
                       /\ WF_vars(CancelCall(j)) /\ WF_vars(Settle(j))
                       /\ WF_vars(j \in cancelled /\ ProducerEnds(j))
                       /\ \A l \in Listeners : WF_vars(Fire(l, j))
    /\ \A k \in Teardowns : WF_vars(TeardownEnds(k) \/ TeardownTimesOut(k))

FairSpec == Spec /\ Fairness

-----------------------------------------------------------------------------
(* Properties. *)

\* "then exactly one terminal status": a job that has ended keeps its status
\* and its settled mark, whatever kills, outcomes and teardowns race with it.
TerminalIsFinal ==
    [][\A j \in Jobs : IsTerminal(j) => status'[j] = status[j]]_vars

\* A registered job leaves the registry only when it has settled or its Run
\* panicked: no teardown forgets a job that may still run.
RemovedIsSettled ==
    \A j \in Jobs : start[j] \in {"run", "returned"} => j \in listed \cup settled

\* After a successful Close the registry stays empty: no Start that raced with
\* it left a job behind.
ClosedIsEmpty == phase = "closed" => listed = {}

\* Every listener is called at most once, and only after its job has settled.
FiresOnce ==
    \A l \in Listeners :
        /\ fired[l] <= 1
        /\ \A j \in Jobs : <<l, j>> \in firing => fired[l] = 0 /\ j \in settled

\* A listener OnDone accepted is called when the job settles, even when the
\* owner is released or the registry closed at the same time.
ListenersFire ==
    \A l \in Listeners, j \in Jobs :
        (asked[l] = j /\ j \in settled) ~> (fired[l] > 0)

\* A kill of a live job reaches the producer, also when it came before the
\* hooks existed, unless the job ends or its Run panics.
KillReaches ==
    \A j \in Jobs : (j \in killed) ~> (j \in cancelled \cup settled \/ start[j] = "panicked")

\* "ReleaseOwner cancels and awaits every job owned by owner": the same for
\* the jobs of a teardown.
TeardownReaches ==
    \A k \in Teardowns, j \in Jobs :
        (j \in teardown[k]) ~> (j \in cancelled \cup settled \/ start[j] = "panicked")
-----------------------------------------------------------------------------
(* The strengthening that makes the safety properties inductive. *)

\* settled, the done channel and the terminal statuses say the same.
SettledIsTerminal == \A j \in Jobs : j \in settled <=> IsTerminal(j)

\* Only jobs Start has registered are listed, awaited or settled.
StartedOnly ==
    /\ \A j \in Jobs : start[j] = "new" => j \notin listed \cup settled
    /\ \A j \in Jobs : start[j] = "panicked" => j \notin listed

\* A running Close awaits every job there is.
CloseOwnsAll ==
    \A k \in tearing :
        target[k] = Everyone => phase # "open" /\ listed \subseteq teardown[k]

\* A listener is asked for, registered, to be called and called in this order.
ListenersAccounted ==
    \A l \in Listeners :
        /\ asked[l] = NoJob => fired[l] = 0
        /\ fired[l] <= 1
        /\ \A j \in Jobs :
              /\ l \in heard[j] => asked[l] = j /\ fired[l] = 0 /\ j \notin settled
              /\ <<l, j>> \in firing => asked[l] = j /\ fired[l] = 0 /\ j \in settled

Inv == /\ TypeOK /\ RemovedIsSettled /\ ClosedIsEmpty
       /\ SettledIsTerminal /\ StartedOnly /\ CloseOwnsAll /\ ListenersAccounted
=============================================================================
