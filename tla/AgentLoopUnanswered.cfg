SPECIFICATION Spec
CONSTANTS
    Outputs = {text}
    Elided = Elided
    Cleared = Cleared
    KeepRecent = 2
    KeepHead = 1
    KeepTail = 2
    KeepSummary = 2
    SummaryFloor = 3
    MaxAttempts = 2
    MaxRecoveries = 1
    MaxTurns = 2
    MaxPrompts = 2
    MaxCalls = 3
    MaxIssued = 3
INVARIANTS EveryCallAnswered
CHECK_DEADLOCK FALSE
