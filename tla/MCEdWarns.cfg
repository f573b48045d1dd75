\* Leaving the editor.
SPECIFICATION EdSpec
CONSTANTS
    MaxLine = 3
    MaxText = 1
    Room = 3
    ListLen = 1
    Name = {"a"}
INVARIANT
    WarnsOfAlterations
\* Nothing follows what is undefined.
CHECK_DEADLOCK FALSE
