\* One session and two messages are enough for two saves to overlap.
SPECIFICATION Spec
CONSTANTS
    Sessions = {s1}
    NoSession = NoSession
    Absent = Absent
    BgSaves = {b1}
    Sync = Sync
    Rec = Rec
    MaxMsgs = 2
    MaxQueue = 0
    MaxStarts = 1
    MaxSaveErrors = 0
    MaxSwitches = 0
    MaxEvents = 3
INVARIANT SaveIsAtomic
CHECK_DEADLOCK FALSE
