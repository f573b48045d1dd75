SPECIFICATION LockSpec
CONSTANTS
    Proc = {p1, p2}
    None = None
    Stale = 2
    StatTries = 1
    MaxTime = 2
PROPERTIES
    OnlyStaleLocksBroken
