------------------------- MODULE TaskRuntimeProofs -------------------------
(***************************************************************************)
(* Proofs about the background task registry (module TaskRuntime): its     *)
(* tables stay consistent, an ended task keeps its result, no wake-up is   *)
(* lost and the limit on shells holds, for any number of tasks, waiters    *)
(* and kills.                                                              *)
(***************************************************************************)
EXTENDS TaskRuntime, FiniteSetTheorems, TLAPS

\* A task is in one of the registry's maps exactly from its registration on,
\* and as long as its goroutine has not reported the end it is in done only
\* because killTask has put it there.
Unregistered == {"unused", "counted", "listed"}
Placed ==
    \A t \in Tasks :
        /\ stage[t] \in Unregistered <=> t \notin running \cup done
        /\ stage[t] \notin {"ended", "leaked"} /\ t \in done => t \in asked

\* The exit goroutine that has decided knows a status.
Judged == \A t \in Shells \cup Monitors : stage[t] \in {"decided", "closed"} => verdict[t] # "none"

\* A kill that is to be reported was asked for.
KillsAsked == killing \subseteq asked

\* While a waiter is about to sleep or sleeps, some agent runs.
SleepersWait == \A w \in Waiters : wpc[w] \in {"commit", "asleep"} => Pending # {}

RegistryInv == TypeOK /\ Placed /\ Judged /\ KillsAsked

-----------------------------------------------------------------------------
LEMMA RegistryInit == Init => RegistryInv /\ SleepersWait
<1> SUFFICES ASSUME Init PROVE RegistryInv /\ SleepersWait
  OBVIOUS
<1> USE DEF Init
<1>1. TypeOK
  <2>1. /\ stage \in [Tasks -> Stages] /\ proc \in [Tasks -> {"none", "live", "exited", "gone"}]
        /\ status \in [Tasks -> {"none", "running", "completed", "failed", "killed"}]
        /\ verdict \in [Tasks -> {"none", "completed", "failed", "killed"}]
        /\ wpc \in [Waiters -> {"idle", "look", "commit", "asleep"}]
    BY DEF Stages
  <2>2. kills \in 0 .. MaxKills
    BY TaskBounds
  <2>3. {stopped, listed, closed, killing} \subseteq SUBSET Shells
    OBVIOUS
  <2> QED BY <2>1, <2>2, <2>3 DEF TypeOK
<1>2. Placed
  BY DEF Placed, Unregistered
<1>3. \A t \in Tasks : stage[t] = "unused"
  OBVIOUS
<1>4. Judged /\ KillsAsked
  BY <1>3 DEF Judged, KillsAsked, Tasks
<1>5. SleepersWait
  BY DEF SleepersWait
<1> QED BY <1>1, <1>2, <1>4, <1>5 DEF RegistryInv

\* What FinishExternal does to the tables, for a task that is in one of them.
Reported(t) ==
    /\ running' \subseteq Tasks /\ done' \subseteq Tasks /\ running' \cap done' = {}
    /\ output' \subseteq running' \cup done'
    /\ status' \in [Tasks -> {"none", "running", "completed", "failed", "killed"}]
    /\ running' \cup done' = running \cup done
    /\ done' \subseteq done \cup {t}

LEMMA FinishReports ==
    ASSUME RegistryInv, NEW t \in Tasks, NEW out,
           NEW st \in {"completed", "failed", "killed"}, FinishExternal(t, st, out)
    PROVE  Reported(t)
<1> USE DEF Reported
<1>1. CASE t \in running
  BY <1>1 DEF RegistryInv, TypeOK, FinishExternal
<1>2. CASE t \notin running
  BY <1>2 DEF RegistryInv, TypeOK, FinishExternal
<1> QED BY <1>1, <1>2

\* Every step of a shell keeps the tables.
LEMMA ShellKeeps ==
    ASSUME RegistryInv, NEW t \in Shells, Shell(t)
    PROVE  RegistryInv'
<1>0. \A st \in {"completed", "failed", "killed"} : \A out :
          FinishExternal(t, st, out) => Reported(t)
  BY FinishReports DEF Tasks
<1> USE KindsDisjoint, TaskBounds DEF RegistryInv, TypeOK, Placed, Judged, KillsAsked,
        Unregistered, Stages, Tasks, At, New, Goes, registry, work, waiting, killer
<1>1. CASE CountsActive(t)  BY <1>1 DEF CountsActive
<1>2. CASE Lists(t)         BY <1>2 DEF Lists
<1>3. CASE RegistersShell(t) BY <1>3 DEF RegistersShell, Register
<1>4. CASE ProcessStarts(t) BY <1>4 DEF ProcessStarts
<1>5. CASE StartFails(t)    BY <1>5 DEF StartFails
<1>6. CASE StartFailed(t)
  <2>1. Reported(t)
    BY <1>0, <1>6 DEF StartFailed
  <2> QED BY <1>6, <2>1 DEF StartFailed, Reported
<1>7. CASE ProcessExits(t)  BY <1>7 DEF ProcessExits
<1>8. CASE Joins(t)         BY <1>8 DEF Joins
<1>9. CASE Decides(t)       BY <1>9 DEF Decides
<1>10. CASE ClosesDone(t)   BY <1>10 DEF ClosesDone
<1>11. CASE ShellEnds(t)
  <2>1. verdict[t] \in {"completed", "failed", "killed"}
    BY <1>11 DEF ShellEnds
  <2>2. Reported(t)
    BY <1>0, <1>11, <2>1 DEF ShellEnds
  <2> QED BY <1>11, <2>2 DEF ShellEnds, Reported
<1>12. CASE KillSignals(t)  BY <1>12 DEF KillSignals, Asks
<1>13. CASE KillReports(t)
  <2>1. Reported(t)
    BY <1>0, <1>13 DEF KillReports
  <2> QED BY <1>13, <2>1 DEF KillReports, Reported
<1> QED
  BY <1>1, <1>2, <1>3, <1>4, <1>5, <1>6, <1>7, <1>8, <1>9, <1>10, <1>11, <1>12, <1>13
     DEF Shell

\* Every step of a monitor keeps the tables.
LEMMA MonitorKeeps ==
    ASSUME RegistryInv, NEW m \in Monitors, Monitor(m)
    PROVE  RegistryInv'
<1>0. \A st \in {"completed", "failed", "killed"} : \A out :
          FinishExternal(m, st, out) => Reported(m)
  BY FinishReports DEF Tasks
<1> USE KindsDisjoint, TaskBounds DEF RegistryInv, TypeOK, Placed, Judged, KillsAsked,
        Unregistered, Stages, Tasks, At, New, Goes, registry, work, waiting, killer
<1>1. CASE RegistersMonitor(m)  BY <1>1 DEF RegistersMonitor, Register
<1>2. CASE PipeFails(m)         BY <1>2 DEF PipeFails
<1>3. CASE MonitorFails(m)
  <2>1. Reported(m)
    BY <1>0, <1>3 DEF MonitorFails
  <2> QED BY <1>3, <2>1 DEF MonitorFails, Reported
<1>4. CASE ProcessStarts(m)     BY <1>4 DEF ProcessStarts
<1>5. CASE ProcessExits(m)      BY <1>5 DEF ProcessExits
<1>6. CASE MonitorTimesOut(m)   BY <1>6 DEF MonitorTimesOut
<1>7. CASE ContextKills(m)      BY <1>7 DEF ContextKills, ProcessExits
<1>8. CASE ReadsLine(m)         BY <1>8 DEF ReadsLine
<1>9. CASE MonitorCut(m)
  <2>1. Reported(m)
    BY <1>0, <1>9 DEF MonitorCut
  <2> QED BY <1>9, <2>1 DEF MonitorCut, Reported
<1>10. CASE MonitorEOF(m)       BY <1>10 DEF MonitorEOF
<1>11. CASE MonitorEnds(m)
  <2>1. verdict[m] \in {"completed", "failed", "killed"}
    BY <1>11 DEF MonitorEnds
  <2>2. Reported(m)
    BY <1>0, <1>11, <2>1 DEF MonitorEnds
  <2> QED BY <1>11, <2>2 DEF MonitorEnds, Reported
<1>12. CASE KillCancels(m)      BY <1>12 DEF KillCancels, Asks
<1> QED
  BY <1>1, <1>2, <1>3, <1>4, <1>5, <1>6, <1>7, <1>8, <1>9, <1>10, <1>11, <1>12
     DEF Monitor

\* Every step of an agent keeps the tables.
LEMMA AgentKeeps ==
    ASSUME RegistryInv, NEW a \in Agents, Agent(a)
    PROVE  RegistryInv'
<1> USE KindsDisjoint, TaskBounds DEF RegistryInv, TypeOK, Placed, Judged, KillsAsked,
        Unregistered, Stages, Tasks, At, New, Goes, registry, work, waiting, killer
<1>1. CASE SpawnAgent(a)  BY <1>1 DEF SpawnAgent, Register
<1>2. CASE CallReturns(a) BY <1>2 DEF CallReturns
<1>3. CASE AgentEnds(a)
  <2>1. PICK o \in AgentOutcomes(a) :
           /\ status' = [status EXCEPT ![a] = o[1]]
           /\ output' = IF o[2] THEN output \cup {a} ELSE output
    BY <1>3 DEF AgentEnds
  <2>2. o[1] \in {"completed", "failed", "killed"}
    <3>0. \A x \in {"completed", "failed", "killed"}, y \in BOOLEAN :
             <<x, y>> \in {"completed", "failed", "killed"} \X BOOLEAN
      OBVIOUS
    <3>1. AgentOutcomes(a) \subseteq {"completed", "failed", "killed"} \X BOOLEAN
      BY <3>0, Zenon DEF AgentOutcomes
    <3> QED BY <2>1, <3>1
  <2> QED BY <1>3, <2>1, <2>2 DEF AgentEnds, Broadcast
<1>4. CASE KillCancels(a) BY <1>4 DEF KillCancels, Asks
<1> QED BY <1>1, <1>2, <1>3, <1>4 DEF Agent

\* A waiter's steps, and the end of an orphan, leave the tables alone.
LEMMA WaitKeeps ==
    ASSUME RegistryInv, NEW w \in Waiters, Wait(w)
    PROVE  RegistryInv'
<1> USE TaskBounds DEF RegistryInv, TypeOK, Placed, Judged, KillsAsked, registry, work, killer
<1>1. CASE WaitStarts(w)     BY <1>1 DEF WaitStarts
<1>2. CASE DeadlinePasses(w) BY <1>2 DEF DeadlinePasses
<1>3. CASE DeadlineRings(w)  BY <1>3 DEF DeadlineRings, Broadcast
<1>4. CASE WaitLooks(w)      BY <1>4 DEF WaitLooks
<1>5. CASE WaitSleeps(w)     BY <1>5 DEF WaitSleeps
<1> QED BY <1>1, <1>2, <1>3, <1>4, <1>5 DEF Wait

LEMMA OrphanKeeps ==
    ASSUME RegistryInv, NEW t \in Shells \cup Monitors, OrphanEnds(t)
    PROVE  RegistryInv'
BY DEF RegistryInv, TypeOK, Placed, Judged, KillsAsked, OrphanEnds, registry, waiting, killer

LEMMA RegistryStep == RegistryInv /\ [Next]_vars => RegistryInv'
<1> SUFFICES ASSUME RegistryInv, [Next]_vars PROVE RegistryInv'
  OBVIOUS
<1>1. CASE UNCHANGED vars
  BY <1>1 DEF vars, registry, work, waiting, killer, RegistryInv, TypeOK, Placed, Judged,
              KillsAsked
<1>2. CASE Next
  BY <1>2, ShellKeeps, MonitorKeeps, AgentKeeps, WaitKeeps, OrphanKeeps DEF Next
<1> QED BY <1>1, <1>2

LEMMA RegistryInvariant == Spec => []RegistryInv
BY RegistryInit, RegistryStep, PTL DEF Spec

\* The tables are well-formed: no task is both running and done.
THEOREM TypeCorrect == Spec => []TypeOK
BY RegistryInvariant, PTL DEF RegistryInv

-----------------------------------------------------------------------------
(* No lost wake-up. *)

\* Shells and monitors are in another registry than the agents and the waiters.
LEMMA OthersDoNotWake ==
    ASSUME NEW t \in Shells \cup Monitors, Shell(t) \/ Monitor(t) \/ OrphanEnds(t),
           t \notin Agents
    PROVE  Pending' = Pending /\ wpc' = wpc
<1> USE DEF Pending, registry, work, waiting
<1>1. CASE Shell(t)
  <2> USE DEF Register, FinishExternal
  <2>1. CASE CountsActive(t) \/ Lists(t) \/ RegistersShell(t) \/ ProcessStarts(t)
    BY <2>1 DEF CountsActive, Lists, RegistersShell, ProcessStarts
  <2>2. CASE StartFails(t) \/ StartFailed(t) \/ ProcessExits(t) \/ Joins(t)
    BY <2>2 DEF StartFails, StartFailed, ProcessExits, Joins
  <2>3. CASE Decides(t) \/ ClosesDone(t) \/ ShellEnds(t)
    BY <2>3 DEF Decides, ClosesDone, ShellEnds
  <2>4. CASE KillSignals(t) \/ KillReports(t)
    BY <2>4 DEF KillSignals, KillReports
  <2> QED BY <1>1, <2>1, <2>2, <2>3, <2>4 DEF Shell
<1>2. CASE Monitor(t)
  <2> USE DEF Register, FinishExternal
  <2>1. CASE RegistersMonitor(t) \/ PipeFails(t) \/ MonitorFails(t) \/ ProcessStarts(t)
    BY <2>1 DEF RegistersMonitor, PipeFails, MonitorFails, ProcessStarts
  <2>2. CASE ProcessExits(t) \/ MonitorTimesOut(t) \/ ContextKills(t) \/ ReadsLine(t)
    BY <2>2 DEF ProcessExits, MonitorTimesOut, ContextKills, ReadsLine
  <2>3. CASE MonitorCut(t) \/ MonitorEOF(t) \/ MonitorEnds(t) \/ KillCancels(t)
    BY <2>3 DEF MonitorCut, MonitorEOF, MonitorEnds, KillCancels
  <2> QED BY <1>2, <2>1, <2>2, <2>3 DEF Monitor
<1>3. CASE OrphanEnds(t)
  BY <1>3 DEF OrphanEnds
<1> QED BY <1>1, <1>2, <1>3

LEMMA SleepersStep == TypeOK /\ SleepersWait /\ [Next]_vars => SleepersWait'
<1> SUFFICES ASSUME TypeOK, SleepersWait, [Next]_vars PROVE SleepersWait'
  OBVIOUS
<1>0. CASE UNCHANGED vars
  BY <1>0 DEF vars, registry, waiting, SleepersWait, Pending
<1>1. ASSUME NEW t \in Shells \cup Monitors, Shell(t) \/ Monitor(t) \/ OrphanEnds(t)
      PROVE  SleepersWait'
  BY <1>1, OthersDoNotWake, KindsDisjoint DEF SleepersWait
<1>2. ASSUME NEW a \in Agents, Agent(a)
      PROVE  SleepersWait'
  <2> USE DEF SleepersWait, Pending, registry, work, waiting
  <2>1. CASE SpawnAgent(a)
    BY <2>1 DEF SpawnAgent, Register
  <2>2. CASE CallReturns(a) \/ KillCancels(a)
    BY <2>2 DEF CallReturns, KillCancels
  <2>3. CASE AgentEnds(a)
    <3>1. \A w \in Waiters : wpc'[w] \notin {"commit", "asleep"}
      BY <2>3 DEF AgentEnds, MuFree, Broadcast, TypeOK
    <3> QED BY <3>1
  <2> QED BY <1>2, <2>1, <2>2, <2>3 DEF Agent
<1>3. ASSUME NEW w \in Waiters, Wait(w)
      PROVE  SleepersWait'
  <2> USE DEF SleepersWait, Pending, registry, TypeOK
  <2>1. CASE WaitStarts(w)     BY <2>1 DEF WaitStarts
  <2>2. CASE DeadlinePasses(w) BY <2>2 DEF DeadlinePasses
  <2>3. CASE DeadlineRings(w)  BY <2>3 DEF DeadlineRings, Broadcast
  <2>4. CASE WaitLooks(w)      BY <2>4 DEF WaitLooks
  <2>5. CASE WaitSleeps(w)     BY <2>5 DEF WaitSleeps
  <2> QED BY <1>3, <2>1, <2>2, <2>3, <2>4, <2>5 DEF Wait
<1> QED BY <1>0, <1>1, <1>2, <1>3 DEF Next

\* Nobody sleeps in Wait when no agent runs.
THEOREM NobodyStranded == Spec => []NoWaiterStranded
<1>1. SleepersWait => NoWaiterStranded
  BY DEF SleepersWait, NoWaiterStranded
<1> QED BY <1>1, RegistryInit, SleepersStep, TypeCorrect, PTL DEF Spec

-----------------------------------------------------------------------------
(* Ended tasks keep their results. *)

KeepsResults ==
    \A t \in done : \/ /\ status'[t] = status[t]
                       /\ t \in output => t \in output'
                    \/ t \in asked

\* A step that reports the end of task t leaves the other entries alone; if t
\* had ended already, killTask was called for it.
LEMMA FinishKeepsResults ==
    ASSUME RegistryInv, NEW t \in Tasks, NEW st, NEW out, FinishExternal(t, st, out),
           t \in done => t \in asked
    PROVE  KeepsResults
BY DEF KeepsResults, RegistryInv, TypeOK, FinishExternal

LEMMA ResultStep ==
    ASSUME RegistryInv, [Next]_vars
    PROVE  KeepsResults
<1> USE DEF KeepsResults
<1>0. CASE UNCHANGED vars
  BY <1>0 DEF vars, registry
<1>1. ASSUME NEW t \in Tasks, At(t, "failed") \/ At(t, "closed") \/ At(t, "joined")
                               \/ At(t, "registered") \/ t \in killing,
             NEW st, NEW out, FinishExternal(t, st, out)
      PROVE  KeepsResults
  BY <1>1, FinishKeepsResults DEF RegistryInv, Placed, KillsAsked, At
<1>2. ASSUME NEW t \in Tasks, New(t) \/ At(t, "listed"), Register(t)
      PROVE  KeepsResults
  BY <1>2 DEF RegistryInv, TypeOK, Placed, Unregistered, New, At, Register
<1>3. ASSUME NEW t \in Shells, Shell(t)
      PROVE  KeepsResults
  <2> USE <1>1, <1>2 DEF Tasks
  <2>1. CASE UNCHANGED registry
    BY <2>1 DEF registry
  <2>2. CASE RegistersShell(t)
    BY <2>2 DEF RegistersShell
  <2>3. CASE StartFailed(t)
    BY <2>3 DEF StartFailed
  <2>4. CASE ShellEnds(t)
    BY <2>4 DEF ShellEnds
  <2>5. CASE KillReports(t)
    BY <2>5 DEF KillReports
  <2> QED BY <1>3, <2>1, <2>2, <2>3, <2>4, <2>5
          DEF Shell, CountsActive, Lists, ProcessStarts, StartFails, ProcessExits, Joins,
              Decides, ClosesDone, KillSignals
<1>4. ASSUME NEW m \in Monitors, Monitor(m)
      PROVE  KeepsResults
  <2> USE <1>1, <1>2 DEF Tasks
  <2>1. CASE UNCHANGED registry
    BY <2>1 DEF registry
  <2>2. CASE RegistersMonitor(m)
    BY <2>2 DEF RegistersMonitor
  <2>3. CASE MonitorFails(m)
    BY <2>3 DEF MonitorFails
  <2>4. CASE MonitorCut(m)
    BY <2>4 DEF MonitorCut
  <2>5. CASE MonitorEnds(m)
    BY <2>5 DEF MonitorEnds
  <2>6. CASE ReadsLine(m)
    BY <2>6 DEF ReadsLine
  <2> QED BY <1>4, <2>1, <2>2, <2>3, <2>4, <2>5, <2>6
          DEF Monitor, PipeFails, ProcessStarts, ProcessExits, MonitorTimesOut,
              ContextKills, MonitorEOF, KillCancels
<1>5. ASSUME NEW a \in Agents, Agent(a)
      PROVE  KeepsResults
  <2>1. CASE SpawnAgent(a)
    BY <2>1, <1>2 DEF SpawnAgent, Tasks
  <2>2. CASE CallReturns(a) \/ KillCancels(a)
    BY <2>2 DEF CallReturns, KillCancels, registry
  <2>3. CASE AgentEnds(a)
    <3>1. a \in done => a \in asked
      BY <2>3 DEF AgentEnds, At, RegistryInv, Placed, Tasks
    <3>2. \A u \in done : u # a => status'[u] = status[u] /\ (u \in output => u \in output')
      BY <2>3 DEF AgentEnds, RegistryInv, TypeOK
    <3> QED BY <3>1, <3>2
  <2> QED BY <1>5, <2>1, <2>2, <2>3 DEF Agent
<1>6. ASSUME NEW w \in Waiters, Wait(w)
      PROVE  KeepsResults
  BY <1>6 DEF Wait, WaitStarts, DeadlinePasses, DeadlineRings, WaitLooks, WaitSleeps, registry
<1>7. ASSUME NEW t \in Shells \cup Monitors, OrphanEnds(t)
      PROVE  KeepsResults
  BY <1>7 DEF OrphanEnds, registry
<1> QED BY <1>0, <1>3, <1>4, <1>5, <1>6, <1>7 DEF Next

\* Status and output of an ended task are overwritten only after a killTask.
THEOREM ResultsKept == Spec => EndedKeepsResult
<1>1. RegistryInv /\ [Next]_vars => [KeepsResults]_vars
  BY ResultStep
<1>2. EndedKeepsResult <=> [][KeepsResults]_vars
  BY DEF EndedKeepsResult, KeepsResults
<1> QED BY <1>1, <1>2, RegistryInvariant, PTL DEF Spec

-----------------------------------------------------------------------------
(* The limit on background shells. *)

\* While starts do not overlap there is at most one, and a start that was let
\* through has room.
OneStart == \A s, t \in Starting : s = t
RoomLeft == (\E t \in Shells : stage[t] = "counted") => Cardinality(Active) < MaxTasks
LimitInv ==
    /\ IsFiniteSet(listed)
    /\ overlap \/ (OneStart /\ RoomLeft /\ Cardinality(Active) <= MaxTasks)

\* Active tasks only become more by the step that lists one.
LEMMA ActiveShrinks ==
    ASSUME IsFiniteSet(listed), listed' \subseteq listed, Active' \subseteq Active
    PROVE  /\ IsFiniteSet(listed')
           /\ Cardinality(Active) \in Nat /\ Cardinality(Active') \in Nat
           /\ Cardinality(Active') <= Cardinality(Active)
<1>1. IsFiniteSet(listed') /\ IsFiniteSet(Active)
  BY FS_Subset DEF Active
<1> QED BY <1>1, FS_Subset, FS_CardinalityType

\* A step that starts nothing and lists nothing keeps the limit.
LEMMA LimitStays ==
    ASSUME TypeOK, LimitInv, listed' \subseteq listed, Active' \subseteq Active,
           overlap' = overlap, Starting' \subseteq Starting,
           \A t \in Shells : stage'[t] = "counted" => stage[t] = "counted"
    PROVE  LimitInv'
<1>1. /\ IsFiniteSet(listed')
      /\ Cardinality(Active) \in Nat /\ Cardinality(Active') \in Nat
      /\ Cardinality(Active') <= Cardinality(Active)
  BY ActiveShrinks DEF LimitInv
<1>2. CASE overlap
  BY <1>1, <1>2 DEF LimitInv
<1>3. CASE ~overlap
  <2>1. OneStart' /\ Cardinality(Active') <= MaxTasks
    BY <1>1, <1>3, TaskBounds DEF LimitInv, OneStart
  <2>2. RoomLeft'
    BY <1>1, <1>3, TaskBounds DEF LimitInv, RoomLeft
  <2> QED BY <1>1, <2>1, <2>2 DEF LimitInv
<1> QED BY <1>2, <1>3

LEMMA LimitStep == RegistryInv /\ LimitInv /\ [Next]_vars => LimitInv'
<1> SUFFICES ASSUME TypeOK, LimitInv, [Next]_vars PROVE LimitInv'
  BY DEF RegistryInv
<1> USE KindsDisjoint DEF At, New, Goes
<1>0. CASE UNCHANGED vars
  BY <1>0, LimitStays DEF vars, work, Starting, Active
<1>1. ASSUME NEW t \in Shells, CountsActive(t)
      PROVE  LimitInv'
  <2>1. /\ listed' \subseteq listed /\ Active' = Active
        /\ stage' = [stage EXCEPT ![t] = "counted"]
        /\ Cardinality(Active) < MaxTasks /\ overlap' = (overlap \/ Starting # {})
    BY <1>1 DEF CountsActive, Active
  <2>2. IsFiniteSet(listed')
    BY <2>1, FS_Subset DEF LimitInv
  <2>3. Cardinality(Active) \in Nat
    BY <2>1, ActiveShrinks DEF LimitInv
  <2>4. CASE ~overlap'
    <3>1. Starting = {}
      BY <2>1, <2>4
    <3>2. Starting' \subseteq {t}
      BY <2>1, <3>1 DEF Starting, TypeOK, Tasks
    <3> QED BY <2>1, <2>2, <2>3, <3>2, TaskBounds DEF LimitInv, OneStart, RoomLeft
  <2> QED BY <2>2, <2>4 DEF LimitInv
<1>2. ASSUME NEW t \in Shells, Lists(t)
      PROVE  LimitInv'
  <2>1. /\ listed' = listed \cup {t} /\ Active' \subseteq Active \cup {t}
        /\ stage[t] = "counted" /\ stage' = [stage EXCEPT ![t] = "listed"]
        /\ overlap' = overlap /\ Starting' \subseteq Starting /\ t \in Starting
    BY <1>2 DEF Lists, Active, Starting, TypeOK, Tasks
  <2>2. IsFiniteSet(listed') /\ IsFiniteSet(Active)
    BY <2>1, FS_AddElement, FS_Subset DEF LimitInv, Active
  <2>3. /\ IsFiniteSet(Active \cup {t})
        /\ Cardinality(Active \cup {t}) <= Cardinality(Active) + 1
        /\ Cardinality(Active) \in Nat
    <3>1. /\ IsFiniteSet(Active \cup {t})
          /\ \/ Cardinality(Active \cup {t}) = Cardinality(Active)
             \/ Cardinality(Active \cup {t}) = Cardinality(Active) + 1
      BY <2>2, FS_AddElement
    <3>2. Cardinality(Active) \in Nat
      BY <2>2, FS_CardinalityType
    <3> QED BY <3>1, <3>2
  <2>4. Cardinality(Active') \in Nat /\ Cardinality(Active') <= Cardinality(Active) + 1
    BY <2>1, <2>3, FS_Subset, FS_CardinalityType
  <2>5. CASE ~overlap
    <3>1. Cardinality(Active) < MaxTasks /\ OneStart
      BY <2>1, <2>5 DEF LimitInv, RoomLeft
    <3>2. \A u \in Shells : stage'[u] # "counted"
      BY <2>1, <3>1 DEF OneStart, Starting, TypeOK, Tasks
    <3>3. OneStart'
      BY <2>1, <3>1 DEF OneStart
    <3> QED BY <2>2, <2>3, <2>4, <3>1, <3>2, <3>3, TaskBounds DEF LimitInv, RoomLeft
  <2> QED BY <2>1, <2>2, <2>5 DEF LimitInv
<1>3. ASSUME NEW t \in Shells, Shell(t), ~CountsActive(t), ~Lists(t)
      PROVE  LimitInv'
  <2> USE LimitStays DEF Starting, Active, TypeOK, Tasks, work, killer
  <2>1. CASE RegistersShell(t) BY <2>1 DEF RegistersShell
  <2>2. CASE ProcessStarts(t) \/ StartFails(t)
    BY <2>2 DEF ProcessStarts, StartFails
  <2>3. CASE StartFailed(t) \/ ProcessExits(t)
    BY <2>3 DEF StartFailed, ProcessExits
  <2>4. CASE Joins(t) \/ Decides(t)
    BY <2>4 DEF Joins, Decides
  <2>5. CASE ClosesDone(t) \/ ShellEnds(t)
    BY <2>5, ZenonT(60) DEF ClosesDone, ShellEnds
  <2>6. CASE KillSignals(t) \/ KillReports(t)
    BY <2>6 DEF KillSignals, KillReports
  <2> QED BY <1>3, <2>1, <2>2, <2>3, <2>4, <2>5, <2>6 DEF Shell
<1>4. ASSUME NEW m \in Monitors, Monitor(m)
      PROVE  LimitInv'
  <2> USE LimitStays DEF Starting, Active, TypeOK, Tasks, work, killer
  <2>1. CASE RegistersMonitor(m) \/ PipeFails(m)
    BY <2>1 DEF RegistersMonitor, PipeFails
  <2>2. CASE MonitorFails(m) \/ ProcessStarts(m)
    BY <2>2 DEF MonitorFails, ProcessStarts
  <2>3. CASE ProcessExits(m) \/ MonitorTimesOut(m) \/ ContextKills(m)
    BY <2>3 DEF ProcessExits, MonitorTimesOut, ContextKills
  <2>4. CASE ReadsLine(m) \/ MonitorCut(m)
    BY <2>4, ZenonT(60) DEF ReadsLine, MonitorCut
  <2>5. CASE MonitorEOF(m) \/ MonitorEnds(m) \/ KillCancels(m)
    BY <2>5 DEF MonitorEOF, MonitorEnds, KillCancels
  <2> QED BY <1>4, <2>1, <2>2, <2>3, <2>4, <2>5 DEF Monitor
<1>5. ASSUME NEW a \in Agents, Agent(a)
      PROVE  LimitInv'
  <2> USE LimitStays DEF Starting, Active, TypeOK, Tasks, work
  <2>1. CASE SpawnAgent(a) BY <2>1 DEF SpawnAgent
  <2>2. CASE AgentEnds(a)  BY <2>2 DEF AgentEnds
  <2>3. CASE CallReturns(a) \/ KillCancels(a)
    BY <2>3 DEF CallReturns, KillCancels
  <2> QED BY <1>5, <2>1, <2>2, <2>3 DEF Agent
<1>6. ASSUME NEW w \in Waiters, Wait(w)
      PROVE  LimitInv'
  BY <1>6, LimitStays
     DEF Wait, WaitStarts, DeadlinePasses, DeadlineRings, WaitLooks, WaitSleeps,
         Starting, Active, work
<1>7. ASSUME NEW t \in Shells \cup Monitors, OrphanEnds(t)
      PROVE  LimitInv'
  BY <1>7, LimitStays DEF OrphanEnds, Starting, Active
<1> QED BY <1>0, <1>1, <1>2, <1>3, <1>4, <1>5, <1>6, <1>7 DEF Next

LEMMA LimitInit == Init => LimitInv
<1> SUFFICES ASSUME Init PROVE LimitInv
  OBVIOUS
<1>1. listed = {} /\ Active = {} /\ Starting = {} /\ \A t \in Shells : stage[t] # "counted"
  BY DEF Init, Active, Starting, Tasks
<1>2. IsFiniteSet({}) /\ Cardinality({}) = 0
  BY FS_EmptySet
<1> QED BY <1>1, <1>2, TaskBounds DEF LimitInv, OneStart, RoomLeft

\* As long as starts do not overlap there are never more than MaxTasks shells.
THEOREM LimitIsKept == Spec => []LimitHolds
<1>1. LimitInv => LimitHolds
  BY DEF LimitInv, LimitHolds
<1> QED BY <1>1, LimitInit, LimitStep, RegistryInvariant, PTL DEF Spec
=============================================================================
