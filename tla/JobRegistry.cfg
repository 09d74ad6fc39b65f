SPECIFICATION FairSpec
CONSTANTS
    Jobs = {j1}
    Owners = {o1, o2}
    Everyone = Everyone
    Listeners = {l1}
    MaxKills = 2
    MaxTeardowns = 2
    MayPanic = TRUE
    NoJob = NoJob
    NoOwner = NoOwner
INVARIANTS TypeOK RemovedIsSettled
PROPERTIES TerminalIsFinal ListenersFire KillReaches
CHECK_DEADLOCK FALSE
