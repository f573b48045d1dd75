\* Every command, lists of one command, and an array that has to grow.
SPECIFICATION EdSpec
CONSTANTS
    MaxLine = 3
    MaxText = 1
    Room = 3
    ListLen = 1
    Name = {"a"}
INVARIANTS
    EdTypeOK
    NamesFollowLines
    InPlaceSame
    AlterationsNoted
PROPERTIES
    UndoRestores
    GlobalShrinks
\* Nothing follows what is undefined.
CHECK_DEADLOCK FALSE
