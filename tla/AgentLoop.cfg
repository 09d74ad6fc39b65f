SPECIFICATION FairSpec
CONSTANTS
    Outputs = {text}
    Elided = Elided
    Cleared = Cleared
    KeepRecent = 2
    KeepHead = 1
    KeepTail = 2
    KeepSummary = 2
    SummaryFloor = 3
    MaxAttempts = 2
    MaxRecoveries = 1
    MaxTurns = 2
    MaxPrompts = 2
    MaxCalls = 3
    MaxIssued = 3
INVARIANTS TypeOK ModelHasTheWord AssistantNeverTwice AttemptsDoNotMix
PROPERTIES ToolTurnsStayTogether CancelEndsLoop
CHECK_DEADLOCK FALSE
