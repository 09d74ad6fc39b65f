\* Five messages, process starts, failed saves and switches, at most three of
\* them messages and two of them starts.
SPECIFICATION Spec
SYMMETRY SessionSymmetry
CONSTANTS
    Sessions = {s1, s2}
    NoSession = NoSession
    Absent = Absent
    BgSaves = {b1}
    Sync = Sync
    Rec = Rec
    MaxMsgs = 3
    MaxQueue = 1
    MaxStarts = 2
    MaxSaveErrors = 1
    MaxSwitches = 1
    MaxEvents = 5
INVARIANTS TypeOK  LoneSaveIsAtomic  
  
CHECK_DEADLOCK FALSE
