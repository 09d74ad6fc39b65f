SPECIFICATION FairSpec
CONSTANTS
    Shells = {s1, s2}
    Agents = {a1, a2}
    Monitors = {m1}
    Waiters = {w1, w2}
    Scenes = {{s1, s2}, {s1, m1}, {a1, a2}}
    MaxTasks = 1
    MaxKills = 2
INVARIANTS TypeOK LimitHolds
PROPERTIES WaitReturns StoppedTaskEnds EndedKeepsResult
CHECK_DEADLOCK FALSE
