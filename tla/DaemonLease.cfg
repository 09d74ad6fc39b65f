\* A release and an acquire on a session whose lease was taken before.
CONSTANTS
    Requests = {r1}
    Calls = {c1, c2}
    Sessions = {s1}
    Stripes = {l1}
    MaxSlots = 1
    MaxCrashes = 0
    MaxEvents = 2
    Earlier = Earlier
    None = None
SPECIFICATION Spec
PROPERTIES
    OnlyOwnerReleases
