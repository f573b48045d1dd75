\* Two deliveries and a reader that comes twice, each killed or interrupted at every
\* point, and calls of theirs that fail.
SPECIFICATION MailSpec
CONSTANTS
    r1 = r1
    d1 = d1
    d2 = d2
    o1 = o1
    None = None
    NoFile = NoFile
    Proc = {r1, d1, d2}
    Reader = {r1}
    Deliverer = {d1, d2}
    Old = {o1}
    Ino = {1, 2, 3, 4}
    MaxReads = 2
    MaxTries = 1
    MaxLet = 2
    DelEmpty = TRUE
    Fails = {"kill", "interrupt", "fwrite", "fflush", "maillock", "copyback", "open"}
SYMMETRY Symmetry
\* Every property but the type invariant is about orderly states: what comes after two
\* processes have met in the mailbox, or a table of letters was left half made, is not
\* explored any further.
CONSTRAINT Orderly
INVARIANTS
    MailTypeOK
    NoLetterLost
    RestoredBeforeReading
    ReadsTheMailbox
PROPERTIES
    KeepsPromise
\* Everybody may be through.
CHECK_DEADLOCK FALSE
