SPECIFICATION FairSpec
CONSTANTS
    Jobs = {j1}
    Owners = {o1}
    Everyone = Everyone
    Listeners = {}
    MaxKills = 0
    MaxTeardowns = 1
    MayPanic = FALSE
    NoJob = NoJob
    NoOwner = NoOwner
PROPERTY TeardownReaches
CHECK_DEADLOCK FALSE
