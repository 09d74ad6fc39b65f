CONSTANTS
    Flushers = {f1}
    NoOne = NoOne
    Background = Background
    MaxEvents = 2
    MaxFailures = 0
    MaxCancels = 0
SPECIFICATION FairSpec
PROPERTIES EveryEventDrained
