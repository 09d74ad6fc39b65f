\* Two calls of two turns, three requests, one place in each queue.
CONSTANTS
    Calls = {c1, c2}
    MaxTurns = 2
    MaxAsks = 3
    MaxPending = 1
    MaxTyped = 1
    None = None
SYMMETRY CallSymmetry
SPECIFICATION Spec
INVARIANTS
    TypeOK
    NoPromptLost
    PromptsSerialized
PROPERTIES
    TimeoutsAreOwn
    OnlyALateEndDetaches
CHECK_DEADLOCK FALSE
