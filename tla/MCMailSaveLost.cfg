\* rename() fails twice.
SPECIFICATION MailSpec
CONSTANTS
    r1 = r1
    d1 = d1
    o1 = o1
    o2 = o2
    None = None
    NoFile = NoFile
    Proc = {r1, d1}
    Reader = {r1}
    Deliverer = {d1}
    Old = {o1, o2}
    Ino = {1, 2, 3, 4}
    MaxReads = 2
    MaxTries = 1
    MaxLet = 3
    DelEmpty = FALSE
    Fails = {"rename"}
PROPERTIES
    SaveFileKept
\* Everybody may be through.
CHECK_DEADLOCK FALSE
