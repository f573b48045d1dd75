\* Intervals from nought.
SPECIFICATION ToolsSpec
CONSTANTS
    MaxLet = 5
    First = 2
    Rel <- MCRel
    Args <- MCArgs
    Numbers = {1, 2, 3, 4, 5, 6, 7, 8}
    Opt <- MCOpt
    Start <- MCStart
    CpFails = {"write", "kill", "unlink", "link", "rmdir", "open", "creat", "mkdir", "opendir", "mknod", "rename", "chmod"}
    MaxNew = 2
    Node <- MCNode
    DirNode = {"top", "t", "s", "o"}
    LinkNode = {"l"}
    NoNode = "-"
    TopDir = "top"
    OutDir = "o"
    BaseName = {"a", "b", "c", "o"}
    Place <- MCPlace
    RmArgs <- MCRmArgs
    Fds = {1, 2}
    MaxProc = 3
    Movable = {"t", "s", "l"}
    MaxMoves = 2
    TailMax = 4
    Counts = {0, 1, 2}
    BufSize = 2
    Chunk = 1
    LineSize = 2
    BlkSize = 2
    XInputs <- MCInputs
    XOptions <- MCLimits
    CmdSize = 3
    BraceSize = 3
    ArgMax = 5
    CmdCount = 1
    MaxVec = 5
    Operands <- MCOperands
    SortFlags <- MCOrders
    Width = 2
    MaxFile = 13
    DdInputs <- MCDdInputs
    DdOptions <- MCDdOptions
    DdFails = {"read", "write", "short"}
    Char = {"a", "b"}
    CacheSize = 7
    DiffInputs <- MCPairs
    DiffOptions <- MCForms
    HashOf <- MCHash
    Folded <- MCFold
    Blank = 4
    Named = {5, 8}
    MaxContext = 2
    CLen = {2}
    DdirTrees <- MCTrees
    DdirOptions <- MCDdirOptions
    DcScripts <- MCScripts
    SedJobs <- MCSedJobs
    NoSedFile <- MCNoFile
    MaxLnum = 8
    GrepJobs <- MCGrepJobs
    BlkSz = 6
    LowerOf <- MCLower
    NoGrepFile <- MCNoGrepFile
INVARIANT
    RepeatsUpTo
\* The programs end.
CHECK_DEADLOCK FALSE
