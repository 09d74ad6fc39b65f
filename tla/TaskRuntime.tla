---------------------------- MODULE TaskRuntime ----------------------------
(***************************************************************************)
(* The registry of background tasks, internal/taskruntime/runtime.go, and  *)
(* the goroutines that feed it: background shells (tool/task_tools.go),    *)
(* monitors (tool/task_control.go) and background agents (tool/agent.go),  *)
(* with killTask and Registry.Wait.                                        *)
(*                                                                         *)
(* There are two registries: taskruntime.Default has the shells and the    *)
(* monitors, and nobody calls Wait on it; the session's own has the agents.*)
(* Their locks, backgroundTasks' lock and a task's own lock are each held  *)
(* for one action.  Registry.Wait is the exception: it looks at the clock  *)
(* and the tasks, and only then starts to sleep on the condition variable, *)
(* and its deadline goroutine broadcasts without the lock.                 *)
(***************************************************************************)
EXTENDS Naturals, FiniteSets

CONSTANTS Shells, Agents, Monitors,  \* the task ids that may be created
          Waiters,                   \* goroutines that may call Registry.Wait
          Scenes,                    \* bound: sets of tasks created in one behaviour
          MaxTasks,                  \* maxBackgroundTasks
          MaxKills                   \* bound: calls of killTask

Tasks == Shells \cup Agents \cup Monitors

ASSUME KindsDisjoint == /\ Shells \cap Agents = {} /\ Shells \cap Monitors = {}
                        /\ Agents \cap Monitors = {}
ASSUME TaskBounds == MaxTasks \in Nat /\ MaxKills \in Nat
ASSUME ScenesOfTasks == Scenes \subseteq SUBSET Tasks

VARIABLES
    scene,     \* the tasks that may be created in this behaviour
    stage,     \* how far the task's own goroutines are
    proc,      \* its process: "none", "live", "exited" (not yet reaped) or "gone"
    orphans,   \* shells and monitors with descendants that outlive the process
    ctxDone,   \* tasks whose context is cancelled
    stopped,   \* backgroundTask.stopped
    verdict,   \* the status the exit goroutine computed
    listed,    \* keys of backgroundTasks.tasks
    closed,    \* tasks whose done channel is closed
    running, done,   \* keys of running and done of the two registries
    status,    \* Task.Status of the registry entry
    output,    \* tasks whose registry entry has output
    killing,   \* killTask calls between stop and FinishExternal
    asked,     \* history: tasks killTask was called for
    kills,     \* killTask calls made
    overlap,   \* history: two starts of a shell overlapped
    wpc,       \* waiters: "idle", "look", "commit" (about to sleep), "asleep"
    late,      \* waiters whose deadline has passed
    rang       \* waiters whose deadline goroutine has broadcast

\* scene never changes; it is part of work so that every action says so.
registry == <<running, done, status, output>>
work     == <<scene, stage, proc, orphans, verdict, closed>>
waiting  == <<wpc, late, rang>>
killer   == <<stopped, killing, asked, kills>>
vars == <<registry, work, ctxDone, listed, overlap, killer, waiting>>

\* A shell: its start was let through, it is listed, registered, its process
\* runs, its exit goroutine has the process' end, has its verdict, has closed
\* done, has finished; or the start failed.
Stages == {"unused", "counted", "listed", "registered", "failed",
           "watch", "joined", "decided", "closed", "ended", "leaked"}

TypeOK ==
    /\ scene \in Scenes /\ stage \in [Tasks -> Stages]
    /\ proc \in [Tasks -> {"none", "live", "exited", "gone"}]
    /\ status \in [Tasks -> {"none", "running", "completed", "failed", "killed"}]
    /\ verdict \in [Tasks -> {"none", "completed", "failed", "killed"}]
    /\ orphans \subseteq Tasks \ Agents /\ ctxDone \subseteq Tasks
    /\ {stopped, listed, closed, killing} \subseteq SUBSET Shells
    /\ running \subseteq Tasks /\ done \subseteq Tasks /\ running \cap done = {}
    /\ output \subseteq running \cup done
    /\ asked \subseteq Tasks /\ kills \in 0 .. MaxKills /\ overlap \in BOOLEAN
    /\ wpc \in [Waiters -> {"idle", "look", "commit", "asleep"}]
    /\ late \subseteq Waiters /\ rang \subseteq late

Init ==
    /\ scene \in Scenes
    /\ stage = [t \in Tasks |-> "unused"] /\ proc = [t \in Tasks |-> "none"]
    /\ status = [t \in Tasks |-> "none"] /\ verdict = [t \in Tasks |-> "none"]
    /\ orphans = {} /\ ctxDone = {} /\ stopped = {} /\ listed = {} /\ closed = {}
    /\ running = {} /\ done = {} /\ output = {}
    /\ killing = {} /\ asked = {} /\ kills = 0 /\ overlap = FALSE
    /\ wpc = [w \in Waiters |-> "idle"] /\ late = {} /\ rang = {}

-----------------------------------------------------------------------------
(* The registry's operations. *)

\* A waiter between its look and the sleep holds the lock of its registry.
MuFree == \A w \in Waiters : wpc[w] # "commit"

At(t, s) == stage[t] = s
New(t) == t \in scene /\ At(t, "unused")
Goes(t, s) == stage' = [stage EXCEPT ![t] = s]

\* RegisterExternal and the registration in SpawnAgent.
Register(t) ==
    /\ running' = running \cup {t}
    /\ status' = [status EXCEPT ![t] = "running"]
    /\ UNCHANGED <<done, output>>

\* The entry of a running task moves to done; that of a task that already
\* ended is overwritten; an unknown id is ignored.  (Nobody sleeps on the
\* condition variable of taskruntime.Default.)
FinishExternal(t, st, out) ==
    /\ running' = running \ {t}
    /\ done' = IF t \in running THEN done \cup {t} ELSE done
    /\ IF t \in running \cup done
       THEN /\ status' = [status EXCEPT ![t] = st]
            /\ output' = IF out THEN output \cup {t} ELSE output \ {t}
       ELSE UNCHANGED <<status, output>>

-----------------------------------------------------------------------------
(* Background shells: startBackgroundBash and its exit goroutine. *)

Active == {t \in listed : t \notin closed}
Starting == {t \in Shells : stage[t] \in {"counted", "listed", "registered"}}

\* Faulty: the limit is compared with <= and lets one task too many through.
CountsOneTooMany(t) ==
    /\ New(t) /\ UNCHANGED listed
    /\ Cardinality(Active) <= MaxTasks
    /\ Goes(t, "counted")
    /\ overlap' = (overlap \/ Starting # {})
    /\ UNCHANGED <<registry, scene, proc, orphans, verdict, closed, ctxDone, killer,
                   waiting>>

\* Listed tasks that ended longer ago than completedRetention are forgotten;
\* the start is refused at the limit; the lock is released after the count.
CountsActive(t) ==
    /\ New(t)
    /\ \E old \in SUBSET (listed \cap closed) : listed' = listed \ old
    /\ Cardinality(Active) < MaxTasks
    /\ Goes(t, "counted")
    /\ overlap' = (overlap \/ Starting # {})
    /\ UNCHANGED <<registry, scene, proc, orphans, verdict, closed, ctxDone, killer,
                   waiting>>

Lists(t) ==
    /\ At(t, "counted") /\ Goes(t, "listed")
    /\ listed' = listed \cup {t}
    /\ UNCHANGED <<registry, scene, proc, orphans, verdict, closed, ctxDone,
                   overlap, killer, waiting>>

RegistersShell(t) ==
    /\ At(t, "listed") /\ Goes(t, "registered")
    /\ Register(t)
    /\ UNCHANGED <<scene, proc, orphans, verdict, closed, ctxDone, listed,
                   overlap, killer, waiting>>

ProcessStarts(t) ==
    /\ At(t, "registered") /\ Goes(t, "watch")
    /\ proc' = [proc EXCEPT ![t] = "live"]
    /\ UNCHANGED <<registry, scene, orphans, verdict, closed, ctxDone, listed,
                   overlap, killer, waiting>>

\* cmd.Start fails: the task is cancelled, taken off the list and reported.
StartFails(t) ==
    /\ At(t, "registered") /\ Goes(t, "failed")
    /\ ctxDone' = ctxDone \cup {t} /\ listed' = listed \ {t}
    /\ UNCHANGED <<registry, scene, proc, orphans, verdict, closed, overlap, killer,
                   waiting>>
StartFailed(t) ==
    /\ At(t, "failed") /\ Goes(t, "ended")
    /\ FinishExternal(t, "failed", FALSE)
    /\ UNCHANGED <<scene, proc, orphans, verdict, closed, ctxDone, listed,
                   overlap, killer, waiting>>

\* The process ends by itself; descendants in its group may live on.
ProcessExits(t) ==
    /\ proc[t] = "live"
    /\ proc' = [proc EXCEPT ![t] = "exited"]
    /\ \/ orphans' = orphans \cup {t}
       \/ UNCHANGED orphans
    /\ UNCHANGED <<registry, scene, stage, verdict, closed, ctxDone, listed,
                   overlap, killer, waiting>>

\* cmd.Wait reaps the process and the exit goroutine has its end.  (The branch
\* for shellCtx only matters if the registry cancels a shell, and killTask asks
\* the registry only for tasks that are no longer listed.)
Joins(t) ==
    /\ At(t, "watch") /\ Goes(t, "joined")
    /\ proc[t] = "exited" /\ proc' = [proc EXCEPT ![t] = "gone"]
    /\ UNCHANGED <<registry, scene, orphans, verdict, closed, ctxDone, listed,
                   overlap, killer, waiting>>

\* Under task.mu: killed if stopped, else failed or completed by the exit code.
Decides(t) ==
    /\ At(t, "joined") /\ Goes(t, "decided")
    /\ \E v \in IF t \in stopped THEN {"killed"} ELSE {"completed", "failed"} :
          verdict' = [verdict EXCEPT ![t] = v]
    /\ UNCHANGED <<registry, scene, proc, orphans, closed, ctxDone, listed,
                   overlap, killer, waiting>>

ClosesDone(t) ==
    /\ At(t, "decided") /\ Goes(t, "closed")
    /\ closed' = closed \cup {t}
    /\ UNCHANGED <<registry, scene, proc, orphans, verdict, ctxDone, listed,
                   overlap, killer, waiting>>

ShellEnds(t) ==
    /\ At(t, "closed") /\ Goes(t, "ended")
    /\ FinishExternal(t, verdict[t], TRUE)
    /\ ctxDone' = ctxDone \cup {t}
    /\ UNCHANGED <<scene, proc, orphans, verdict, closed, listed, overlap,
                   killer, waiting>>

-----------------------------------------------------------------------------
(* Monitors: the goroutine that reads a command's lines. *)

RegistersMonitor(m) ==
    /\ New(m) /\ Goes(m, "registered")
    /\ Register(m)
    /\ UNCHANGED <<scene, proc, orphans, verdict, closed, ctxDone, listed,
                   overlap, killer, waiting>>

\* StdoutPipe fails: the context is cancelled and the entry stays.
PipeFails(m) ==
    /\ At(m, "registered") /\ Goes(m, "leaked")
    /\ ctxDone' = ctxDone \cup {m}
    /\ UNCHANGED <<registry, scene, proc, orphans, verdict, closed, listed,
                   overlap, killer, waiting>>

\* cmd.Start fails.
MonitorFails(m) ==
    /\ At(m, "registered") /\ Goes(m, "ended")
    /\ ctxDone' = ctxDone \cup {m}
    /\ FinishExternal(m, "failed", FALSE)
    /\ UNCHANGED <<scene, proc, orphans, verdict, closed, listed, overlap, killer, waiting>>

\* max_runtime_sec is over.
MonitorTimesOut(m) ==
    /\ At(m, "watch") /\ m \notin ctxDone /\ ctxDone' = ctxDone \cup {m}
    /\ UNCHANGED <<registry, work, listed, overlap, killer, waiting>>

\* exec.CommandContext kills the process, not its descendants.
ContextKills(m) ==
    /\ m \in ctxDone /\ ProcessExits(m)

\* A line is appended to the entry; after it the goroutine looks at the
\* context and leaves if it is cancelled.
ReadsLine(m) ==
    /\ At(m, "watch") /\ output' = output \cup {m}
    /\ IF m \in ctxDone THEN Goes(m, "joined") ELSE UNCHANGED stage
    /\ UNCHANGED <<running, done, status, scene, proc, orphans, verdict, closed, ctxDone,
                   listed, overlap, killer, waiting>>

\* Faulty: the goroutine goes on reading after it reported the end.
MonitorCutReadsOn(m) ==
    /\ At(m, "joined") /\ Goes(m, "watch")
    /\ proc' = [proc EXCEPT ![m] = "exited"]
    /\ FinishExternal(m, "killed", FALSE)
    /\ UNCHANGED <<scene, orphans, verdict, closed, ctxDone, listed, overlap, killer, waiting>>

\* It kills the process and reports an end without the output, and does not
\* wait for the process.
MonitorCut(m) ==
    /\ At(m, "joined") /\ Goes(m, "ended")
    /\ proc' = [proc EXCEPT ![m] = "exited"]
    /\ FinishExternal(m, "killed", FALSE)
    /\ UNCHANGED <<scene, orphans, verdict, closed, ctxDone, listed, overlap, killer, waiting>>

\* Nobody holds the pipe any more and the process is reaped.
MonitorEOF(m) ==
    /\ At(m, "watch") /\ proc[m] = "exited" /\ m \notin orphans
    /\ Goes(m, "closed") /\ proc' = [proc EXCEPT ![m] = "gone"]
    /\ \E v \in IF m \in ctxDone THEN {"killed"} ELSE {"completed", "failed"} :
          verdict' = [verdict EXCEPT ![m] = v]
    /\ UNCHANGED <<registry, scene, orphans, closed, ctxDone, listed, overlap, killer, waiting>>

\* The entry keeps the output it has accumulated.
MonitorEnds(m) ==
    /\ At(m, "closed") /\ Goes(m, "ended")
    /\ FinishExternal(m, verdict[m], m \in output)
    /\ ctxDone' = ctxDone \cup {m}
    /\ UNCHANGED <<scene, proc, orphans, verdict, closed, listed, overlap, killer, waiting>>

-----------------------------------------------------------------------------
(* Background agents: SpawnAgent, called from the Agent tool. *)

\* The agent's context is a child of the context of the tool call.
SpawnAgent(a) ==
    /\ MuFree /\ New(a) /\ Goes(a, "watch")
    /\ Register(a)
    /\ UNCHANGED <<scene, proc, orphans, verdict, closed, ctxDone, listed, overlap,
                   killer, waiting>>

\* The tool call has returned the agent's id, and cancels its context.
CallReturns(a) ==
    /\ stage[a] \in {"watch", "ended"} /\ a \notin ctxDone
    /\ ctxDone' = ctxDone \cup {a}
    /\ UNCHANGED <<registry, work, listed, overlap, killer, waiting>>

\* fn returned: an agent that was cancelled and has nothing to say was killed;
\* one that was cancelled later in its work may fail, or complete with the
\* output it had.
AgentOutcomes(a) ==
    {<<"failed", TRUE>>, <<"failed", FALSE>>, <<"completed", TRUE>>}
        \cup IF a \in ctxDone THEN {<<"killed", FALSE>>} ELSE {<<"completed", FALSE>>}

\* cond.Broadcast: every sleeper looks again.
Broadcast ==
    wpc' = [w \in Waiters |-> IF wpc[w] = "asleep" THEN "look" ELSE wpc[w]]

\* Faulty: the agent's entry stays among the running ones.
AgentEndsInBoth(a) ==
    /\ MuFree /\ At(a, "watch") /\ Goes(a, "ended")
    /\ done' = done \cup {a}
    /\ \E o \in AgentOutcomes(a) :
          /\ status' = [status EXCEPT ![a] = o[1]]
          /\ output' = IF o[2] THEN output \cup {a} ELSE output
    /\ Broadcast
    /\ UNCHANGED <<running, scene, proc, orphans, verdict, closed, ctxDone, listed,
                   overlap, killer, late, rang>>

AgentEnds(a) ==
    /\ MuFree /\ At(a, "watch") /\ Goes(a, "ended")
    /\ running' = running \ {a} /\ done' = done \cup {a}
    /\ \E o \in AgentOutcomes(a) :
          /\ status' = [status EXCEPT ![a] = o[1]]
          /\ output' = IF o[2] THEN output \cup {a} ELSE output
    /\ Broadcast
    /\ UNCHANGED <<scene, proc, orphans, verdict, closed, ctxDone, listed, overlap,
                   killer, late, rang>>

-----------------------------------------------------------------------------
(* killTask, called by the KillTask and TaskStop tools with an id that a    *)
(* start has returned.                                                     *)

Known(t) == stage[t] \notin {"unused", "counted", "listed", "registered", "failed"}

Asks(t) ==
    /\ kills < MaxKills /\ kills' = kills + 1
    /\ Known(t) /\ asked' = asked \cup {t}

\* Faulty: the flag is set and the signal is never sent.
KillSignalsNobody(t) ==
    /\ t \in listed \ killing /\ Asks(t)
    /\ stopped' = stopped \cup {t} /\ killing' = killing \cup {t}
    /\ UNCHANGED <<registry, work, ctxDone, listed, overlap, waiting>>

\* A listed shell is stopped: the flag is set and its process group killed.
\* When nobody is left in the group the call ends with an error.
KillSignals(t) ==
    /\ t \in listed \ killing /\ Asks(t)
    /\ stopped' = stopped \cup {t}
    /\ proc' = [proc EXCEPT ![t] = IF @ = "live" THEN "exited" ELSE @]
    /\ orphans' = orphans \ {t}
    /\ killing' = IF proc[t] # "gone" \/ t \in orphans THEN killing \cup {t} ELSE killing
    /\ UNCHANGED <<registry, scene, stage, verdict, closed, ctxDone, listed, overlap, waiting>>

\* Then its entry is marked killed, whatever it says by now.
KillReports(t) ==
    /\ t \in killing /\ killing' = killing \ {t}
    /\ FinishExternal(t, "killed", FALSE)
    /\ UNCHANGED <<work, ctxDone, listed, overlap, stopped, asked, kills, waiting>>

\* Registry.Kill cancels the context of an agent or a monitor that runs.
KillCancels(t) ==
    /\ t \in running \ listed /\ Asks(t)
    /\ t \in Agents => MuFree
    /\ ctxDone' = ctxDone \cup {t}
    /\ UNCHANGED <<registry, work, listed, overlap, stopped, killing, waiting>>

-----------------------------------------------------------------------------
(* Registry.Wait on the session's registry. *)

Pending == running \cap Agents

WaitStarts(w) ==
    /\ scene \cap Agents # {}
    /\ wpc[w] = "idle" /\ wpc' = [wpc EXCEPT ![w] = "look"]
    /\ late' = late \ {w} /\ rang' = rang \ {w}
    /\ UNCHANGED <<registry, work, ctxDone, listed, overlap, killer>>

DeadlinePasses(w) ==
    /\ wpc[w] # "idle" /\ w \notin late /\ late' = late \cup {w}
    /\ UNCHANGED <<registry, work, ctxDone, listed, overlap, killer, wpc, rang>>

\* Faulty: one broadcast at the deadline.
DeadlineRingsOnce(w) ==
    /\ wpc[w] # "idle" /\ w \in late \ rang /\ rang' = rang \cup {w}
    /\ Broadcast
    /\ UNCHANGED <<registry, work, ctxDone, listed, overlap, killer, late>>

\* The deadline goroutine broadcasts without the lock, every millisecond until
\* Wait returns.
DeadlineRings(w) ==
    /\ wpc[w] # "idle" /\ w \in late /\ rang' = rang \cup {w}
    /\ Broadcast
    /\ UNCHANGED <<registry, work, ctxDone, listed, overlap, killer, late>>

\* Under the lock: return what is done if nothing runs or the deadline passed,
\* else go on to cond.Wait with the lock held.
WaitLooks(w) ==
    /\ MuFree /\ wpc[w] = "look"
    /\ wpc' = [wpc EXCEPT ![w] = IF Pending = {} \/ w \in late THEN "idle" ELSE "commit"]
    /\ UNCHANGED <<registry, work, ctxDone, listed, overlap, killer, late, rang>>

\* cond.Wait: the waiter is on the notify list and releases the lock.
WaitSleeps(w) ==
    /\ wpc[w] = "commit" /\ wpc' = [wpc EXCEPT ![w] = "asleep"]
    /\ UNCHANGED <<registry, work, ctxDone, listed, overlap, killer, late, rang>>

-----------------------------------------------------------------------------
Shell(t) ==
    \/ CountsActive(t) \/ Lists(t) \/ RegistersShell(t)
    \/ ProcessStarts(t) \/ StartFails(t) \/ StartFailed(t)
    \/ ProcessExits(t)
    \/ Joins(t) \/ Decides(t) \/ ClosesDone(t) \/ ShellEnds(t)
    \/ KillSignals(t) \/ KillReports(t)

Monitor(m) ==
    \/ RegistersMonitor(m) \/ PipeFails(m) \/ MonitorFails(m)
    \/ At(m, "registered") /\ ProcessStarts(m)
    \/ ProcessExits(m) \/ MonitorTimesOut(m) \/ ContextKills(m)
    \/ ReadsLine(m) \/ MonitorCut(m) \/ MonitorEOF(m) \/ MonitorEnds(m)
    \/ KillCancels(m)

\* A descendant that outlived its shell or monitor ends.
OrphanEnds(t) ==
    /\ t \in orphans /\ orphans' = orphans \ {t}
    /\ UNCHANGED <<registry, scene, stage, proc, verdict, closed, ctxDone, listed,
                   overlap, killer, waiting>>

Agent(a) == SpawnAgent(a) \/ CallReturns(a) \/ AgentEnds(a) \/ KillCancels(a)

Wait(w) ==
    \/ WaitStarts(w) \/ DeadlinePasses(w) \/ DeadlineRings(w)
    \/ WaitLooks(w) \/ WaitSleeps(w)

Next ==
    \/ \E t \in Shells : Shell(t)
    \/ \E m \in Monitors : Monitor(m)
    \/ \E t \in Shells \cup Monitors : OrphanEnds(t)
    \/ \E a \in Agents : Agent(a)
    \/ \E w \in Waiters : Wait(w)

Spec == Init /\ [][Next]_vars

\* The runtime runs goroutines and timers, a tool call returns, and Go's mutex
\* lets a waiter in that asks again and again.  No process and no agent has to
\* end, and nobody has to start, kill or wait.
Fairness ==
    /\ \A t \in Shells :
          WF_vars(StartFailed(t) \/ Joins(t) \/ Decides(t) \/ ClosesDone(t) \/ ShellEnds(t))
    /\ \A a \in Agents : WF_vars(CallReturns(a))
    /\ \A w \in Waiters : /\ WF_vars(DeadlinePasses(w)) /\ WF_vars(DeadlineRings(w))
                          /\ SF_vars(WaitLooks(w)) /\ WF_vars(WaitSleeps(w))

FairSpec == Spec /\ Fairness

-----------------------------------------------------------------------------
(* Properties. *)

\* No wake-up of an agent's end is lost: nobody sleeps in Wait while no agent
\* runs, though the last agent may end between the waiter's look and its sleep.
NoWaiterStranded == \A w \in Waiters : wpc[w] = "asleep" => Pending # {}

\* Wait returns by its deadline, even when the broadcast comes between the look
\* at the clock and the sleep and is lost.
WaitReturns == \A w \in Waiters : (wpc[w] # "idle") ~> (wpc[w] = "idle")

\* A shell that was stopped while its process lived leaves the running tasks,
\* and its process is gone.
StoppedTaskEnds ==
    \A t \in Shells : (t \in stopped) ~> (t \notin running /\ proc[t] = "gone")

\* An entry that says a task ended keeps its status and its output, unless
\* killTask was called for the task: only a late kill may overwrite them.
EndedKeepsResult ==
    [][\A t \in done : \/ /\ status'[t] = status[t]
                          /\ t \in output => t \in output'
                       \/ t \in asked]_vars

\* The limit on background shells holds as long as starts do not overlap: the
\* count and the entry it allows are two critical sections.
LimitHolds == overlap \/ Cardinality(Active) <= MaxTasks
=============================================================================
