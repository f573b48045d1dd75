\* Three layers, two at once, every command; two processes that want the lock.
SPECIFICATION ShlLockSpec
CONSTANTS
    Layer = {l1, l2, l3}
    NoLayer = NoLayer
    MaxLayer = 2
    Commands = {"create", "block", "delete", "resume", "toggle", "quit"}
    Proc = {p1, p2}
    None = None
    Stale = 2
    StatTries = 1
    MaxTime = 2
SYMMETRY Symmetry
INVARIANTS
    ShlTypeOK
    NoLayerForgotten
    InputHasAReader
    HolderOwnsLock
PROPERTIES
    BlockedStaysQuiet
    ImplementsMboxLock
\* The session may be over.
CHECK_DEADLOCK FALSE
