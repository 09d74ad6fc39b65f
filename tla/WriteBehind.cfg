CONSTANTS
    Flushers = {f1, f2}
    NoOne = NoOne
    Background = Background
    MaxEvents = 3
    MaxFailures = 2
    MaxCancels = 1
SPECIFICATION FairSpec
INVARIANTS TypeOK NothingLostOrReordered OwnFlushIsDurable
PROPERTIES Refinement FlushTerminates AutomaticDrain
