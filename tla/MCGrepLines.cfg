\* Lines that two reads bring.
SPECIFICATION GrepSpec
CONSTANTS
    GrepJobs <- Pipes
    BlkSz = 4
    LowerOf <- Lower
    NoGrepFile <- NotThere
INVARIANT
    LinesAsTheyAre
\* fgrep ends.
CHECK_DEADLOCK FALSE
