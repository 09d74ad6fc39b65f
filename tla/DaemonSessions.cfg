\* Two chats on one session, and a call or a crash.
CONSTANTS
    Requests = {r1, r2}
    Calls = {c1}
    Sessions = {s1}
    Stripes = {l1}
    MaxSlots = 2
    MaxCrashes = 1
    MaxEvents = 1
    Earlier = Earlier
    None = None
SPECIFICATION Spec
INVARIANTS
    TypeOK
    CancelReaches
    ToldIsSaved
    DeletedStaysDeleted
PROPERTIES
    CancelStops
    AbandonedGivesBack
