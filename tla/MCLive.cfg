\* Every call of a delivery and a reader may fail, and each may be killed.
SPECIFICATION LiveSpec
CONSTANTS
    r1 = r1
    d1 = d1
    o1 = o1
    None = None
    NoFile = NoFile
    Proc = {r1, d1}
    Reader = {r1}
    Deliverer = {d1}
    Old = {o1}
    Ino = {1, 2, 3, 4}
    MaxReads = 1
    MaxTries = 2
    MaxLet = 1
    DelEmpty = FALSE
    Fails = {"kill", "open", "fwrite", "fflush", "maillock", "getpwnam", "rename", "unlink", "fopen", "savefile", "copyback"}
    Layer = {l1, l2}
    NoLayer = NoLayer
    MaxLayer = 2
    Commands = {"create", "block", "resume"}
INVARIANTS
    NoTornLetters
    FailureLeavesNothing
PROPERTIES
    WaitingEnds
    DeliveryEnds
    EndedLayersGo
\* Everybody may be through, and the session over.
CHECK_DEADLOCK FALSE
