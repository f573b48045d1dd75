------------------------------- MODULE Diffdir -------------------------------
(***************************************************************************)
(* diff of two directories (diff/diffdir.c): the names are gone through in *)
(* order, then with -r once more for the directories that are in both.     *)
(* Two files, and two directories, are compared in the same process:       *)
(* stackdiff() sets the variables of diff aside, calls diffany() and puts  *)
(* them back when done() has jumped out of it.  A name is its place among  *)
(* all that are in either directory, and a tree says, for the path of each *)
(* directory that is in both, what is to be found at its names; -l, -N, -s *)
(* and -e are left out.                                                    *)
(***************************************************************************)
EXTENDS Integers, Sequences, SequencesExt

CONSTANTS
    DdirTrees,      \* what may be compared, functions of paths
    DdirOptions     \* records: r, B

DdirKinds == {"only", "types", "binary", "unreadable", "dir", "same", "differ", "blank"}

\* The names that are directories in both trees, and no others, have a sequence
\* of names; a path leads through directories.
ASSUME DdirAssumption ==
    /\ \A t \in DdirTrees :
        /\ <<>> \in DOMAIN t
        /\ \A d \in DOMAIN t :
            /\ d \in Seq(Nat) /\ t[d] \in Seq(DdirKinds)
            /\ \A k \in DOMAIN t[d] : t[d][k] = "dir" => Append(d, k) \in DOMAIN t
            /\ \A n \in DOMAIN d :
                LET up == SubSeq(d, 1, n - 1)
                IN  up \in DOMAIN t /\ d[n] \in DOMAIN t[up] /\ t[up][d[n]] = "dir"
    /\ DdirOptions \subseteq [r : BOOLEAN, B : BOOLEAN]

VARIABLES
    ddTree, ddOpt,
    ddArgv,         \* the directory whose file1 argv[0] points to
    ddFile,         \* file1 and file2, up to efile1 and efile2
    ddEntry,        \* d1: the next name
    ddStack,        \* what the calls of stackdiff() have set aside
    ddStatus,       \* of the process
    ddTold,         \* history: what has been said, and of what
    ddAt            \* "names", "again" for the directories, "file", "done", "exited"

ddirFixed == <<ddTree, ddOpt>>
ddirVars == <<ddirFixed, ddArgv, ddFile, ddEntry, ddStack, ddStatus, ddTold, ddAt>>

ddNames == ddTree[ddFile]
DirHere(k) == Append(ddFile, k)
KindUnder(path) == ddTree[Front(path)][Last(path)]

DdirBegin(trees, options) ==
    /\ ddTree \in trees /\ ddOpt \in options
    /\ ddArgv = <<>> /\ ddFile = <<>> /\ ddEntry = 1 /\ ddStack = <<>>
    /\ ddStatus = 0 /\ ddTold = <<>>
    /\ ddAt = "names"

DdirInit == DdirBegin(DdirTrees, DdirOptions)

-----------------------------------------------------------------------------

StatusOf == [only |-> 1, types |-> 1, binary |-> 1, unreadable |-> 2, dir |-> 0, same |-> 0]

\* only() and compare(), of a name that is not compared line by line
NameTold ==
    /\ ddAt = "names" /\ ddEntry <= Len(ddNames) /\ ddNames[ddEntry] \in DOMAIN StatusOf
    /\ LET kind == ddNames[ddEntry]
       IN  /\ ddTold' = IF kind = "same" THEN ddTold
                       ELSE Append(ddTold, <<kind, DirHere(ddEntry)>>)
           /\ ddStatus' = IF StatusOf[kind] = 0 THEN ddStatus ELSE StatusOf[kind]
    /\ ddEntry' = ddEntry + 1
    /\ UNCHANGED <<ddirFixed, ddArgv, ddFile, ddStack, ddAt>>

\* What argv[0] names after strcpy(efile1, ...)
Named2(k) == IF ddArgv = ddFile THEN DirHere(k) ELSE ddArgv

Setjmp(k) ==
    ddStack' = Append(ddStack, [argv |-> ddArgv, file |-> ddFile, entry |-> k + 1, at |-> ddAt])

\* compare() and stackdiff(), of two files that differ
NameDiffers ==
    /\ ddAt = "names" /\ ddEntry <= Len(ddNames) /\ ddNames[ddEntry] \in {"differ", "blank"}
    /\ Setjmp(ddEntry)
    /\ ddTold' = Append(ddTold, <<"diff", Named2(ddEntry)>>)
    /\ ddFile' = Named2(ddEntry) /\ ddAt' = "file"
    /\ UNCHANGED <<ddirFixed, ddArgv, ddEntry, ddStatus>>

\* diffreg(): with -B a file in which only blank lines differ is no difference.
FileCompared ==
    /\ ddAt = "file"
    /\ ddStatus' = IF KindUnder(ddFile) = "blank" /\ ddOpt.B THEN 0 ELSE 1
    /\ ddAt' = "done"
    /\ UNCHANGED <<ddirFixed, ddArgv, ddFile, ddEntry, ddStack, ddTold>>

\* The end of the names: with -r the list is gone through again.
NamesEnd ==
    /\ ddAt = "names" /\ ddEntry > Len(ddNames)
    /\ ddEntry' = 1
    /\ ddAt' = IF ddOpt.r THEN "again" ELSE "done"
    /\ UNCHANGED <<ddirFixed, ddArgv, ddFile, ddStack, ddStatus, ddTold>>

Subdirectories == {k \in ddEntry..Len(ddNames) : ddNames[k] = "dir"}

\* stackdiff() and diffdir() of a subdirectory
Subdirectory ==
    /\ ddAt = "again" /\ Subdirectories # {}
    /\ LET k == CHOOSE k \in Subdirectories : \A n \in Subdirectories : k <= n
       IN  /\ Setjmp(k)
           /\ ddFile' = Named2(k) /\ ddArgv' = Named2(k)
    /\ ddStatus' = 0
    /\ ddEntry' = 1 /\ ddAt' = "names"
    /\ UNCHANGED <<ddirFixed, ddTold>>

AgainEnd ==
    /\ ddAt = "again" /\ Subdirectories = {}
    /\ ddAt' = "done"
    /\ UNCHANGED <<ddirFixed, ddArgv, ddFile, ddEntry, ddStack, ddStatus, ddTold>>

\* Mutant: stackdiff() forgets to put argv[0] back.
LongjmpKeepsArgv ==
    /\ ddAt = "done" /\ ddStack # <<>>
    /\ LET o == Last(ddStack)
       IN  ddFile' = o.file /\ ddEntry' = o.entry /\ ddAt' = o.at
    /\ ddStack' = Front(ddStack)
    /\ UNCHANGED <<ddirFixed, ddArgv, ddStatus, ddTold>>

\* done() within stackdiff(), which then puts back what it has set aside
Longjmp ==
    /\ ddAt = "done" /\ ddStack # <<>>
    /\ LET o == Last(ddStack)
       IN  ddArgv' = o.argv /\ ddFile' = o.file /\ ddEntry' = o.entry /\ ddAt' = o.at
    /\ ddStack' = Front(ddStack)
    /\ UNCHANGED <<ddirFixed, ddStatus, ddTold>>

\* done()
DdirExit ==
    /\ ddAt = "done" /\ ddStack = <<>>
    /\ ddAt' = "exited"
    /\ UNCHANGED <<ddirFixed, ddArgv, ddFile, ddEntry, ddStack, ddStatus, ddTold>>

DdirNext ==
    \/ NameTold \/ NameDiffers \/ FileCompared \/ NamesEnd
    \/ Subdirectory \/ AgainEnd \/ Longjmp \/ DdirExit

DdirSpec == DdirInit /\ [][DdirNext]_ddirVars

-----------------------------------------------------------------------------
(* Properties *)

DdirTypeOK ==
    /\ Len(ddFile) = Len(ddStack) /\ Len(ddArgv) \in Len(ddFile) - 1..Len(ddFile)
    /\ ddEntry \in Nat \ {0} /\ ddStatus \in 0..2
    /\ ddAt \in {"names", "again", "file", "done", "exited"}

\* What is to be told of: with -r all that is in the two trees, without only what is
\* at the top
ToTell ==
    {p \in UNION {{Append(d, k) : k \in DOMAIN ddTree[d]} : d \in IF ddOpt.r THEN DOMAIN ddTree ELSE {<<>>}} :
        KindUnder(p) # "same"}
Said(p) == <<IF KindUnder(p) \in {"differ", "blank"} THEN "diff" ELSE KindUnder(p), p>>

\* The order: in a directory the names come first, then what is in its
\* subdirectories, one after the other.
ToldBefore(p, q) ==
    \/ Len(p) < Len(q) /\ \A j \in 1..Len(p) : p[j] = q[j]
    \/ \E n \in DOMAIN p \cap DOMAIN q :
        /\ \A j \in 1..n - 1 : p[j] = q[j]
        /\ p[n] # q[n]
        /\ \/ n = Len(p) /\ n < Len(q)
           \/ p[n] < q[n] /\ (n = Len(p) <=> n = Len(q))

\* Each name in the two trees is told of once, with the path it has, in order,
\* whatever diff was called for in between.
TreeIsCompared ==
    ddAt = "exited" =>
        /\ {ddTold[n] : n \in DOMAIN ddTold} = {Said(p) : p \in ToTell}
        /\ \A m, n \in DOMAIN ddTold : m < n => ToldBefore(ddTold[m][2], ddTold[n][2])

ToldDifferences == {n \in DOMAIN ddTold : ddTold[n][1] \in {"only", "types", "binary", "diff"}}

\* "Exit status is 0 for no differences": after a difference was told of, the status
\* is not 0 (without -B).
DiffExitTells == ddAt = "exited" /\ ~ddOpt.B /\ ToldDifferences # {} => ddStatus # 0

===============================================================================
