\* No failures at all.
SPECIFICATION MailSpec
CONSTANTS
    r1 = r1
    d1 = d1
    None = None
    NoFile = NoFile
    Proc = {r1, d1}
    Reader = {r1}
    Deliverer = {d1}
    Old = {}
    Ino = {1, 2, 3, 4}
    MaxReads = 1
    MaxTries = 1
    MaxLet = 2
    DelEmpty = TRUE
    Fails = {}
INVARIANTS
    MailfileStillLocked
\* Everybody may be through.
CHECK_DEADLOCK FALSE
