--------------------------------- MODULE Rm ---------------------------------
(***************************************************************************)
(* rm -r (rm/rm.c) against somebody who moves things in the tree while it  *)
(* is removed.  rm() goes down with the descriptors of the directories it  *)
(* has open, never by a path or by "..": to enter a directory is open()    *)
(* and fchdir(), to leave it is fchdir() to the descriptor of the one      *)
(* before.  When there are no more descriptors a new process goes on.      *)
(***************************************************************************)
EXTENDS Integers, Sequences, FiniteSets, SequencesExt, Functions

CONSTANTS
    Node,       \* files, directories, and symbolic links to OutDir
    DirNode, LinkNode,
    NoNode,
    TopDir,     \* where rm was started
    OutDir,     \* a directory that rm was not asked to remove
    BaseName,
    Place,      \* where each node is at first: a directory and a name
    RmArgs,     \* the operands, names in TopDir
    Fds,        \* numbers of descriptors a process may have for directories
    MaxProc,    \* processes there can be
    Movable,    \* the nodes that somebody else moves
    MaxMoves    \* things that somebody else does

\* Everything has a place in a directory, but for the start of rm, which is not
\* below anything that can be moved.  What is not to be removed is a directory
\* beside the operands or out of the tree altogether.
ASSUME RmAssumption ==
    /\ DirNode \subseteq Node /\ LinkNode \subseteq Node /\ DirNode \cap LinkNode = {}
    /\ NoNode \notin Node
    /\ TopDir \in DirNode /\ OutDir \in DirNode /\ TopDir # OutDir
    /\ RmArgs \in Seq(BaseName)
    /\ Place \in [Node -> (DirNode \X BaseName) \cup {Place[TopDir]}]
    /\ Place[TopDir][1] \notin DirNode
    /\ Place[OutDir] \in {<<TopDir, b>> : b \in BaseName \ Range(RmArgs)} \cup {Place[TopDir]}
    /\ Movable \subseteq {n \in Node : Place[n][1] # OutDir} \ {TopDir, OutDir}
    /\ Fds \subseteq Nat \ {0} /\ MaxProc \in Nat \ {0}

VARIABLES
    loc,        \* the place of each node, or Gone
    calls,      \* the calls of rm(), of all processes
    cwd,        \* the current directory of each process
    leak,       \* descriptors that a process has from the one before
    rmarg,      \* operands that have been taken
    rminter,    \* -i
    rmfd,       \* descriptors a process has for directories
    rmerr,      \* errcnt
    moves

rmVars == <<loc, calls, cwd, leak, rmarg, rminter, rmfd, rmerr, moves>>
processes == <<cwd, leak>>
rmOptions == <<rminter, rmfd>>

Gone == <<NoNode, "">>
Outside == {n \in Node : Place[n][1] = OutDir} \cup {OutDir}

RmTypeOK ==
    /\ loc \in [Node -> (DirNode \X BaseName) \cup {Gone, Place[TopDir]}]
    /\ \A k \in DOMAIN calls :
        /\ calls[k].base \in BaseName
        /\ calls[k].dir \in DirNode \cup {NoNode}
        /\ calls[k].proc \in DOMAIN cwd
    /\ Len(leak) = Len(cwd) /\ Len(cwd) \in 1..MaxProc
    /\ \A p \in DOMAIN leak : leak[p] \in 0..rmfd
    /\ rmarg \in 0..Len(RmArgs)
    /\ rmerr \in BOOLEAN

At(d, b) == IF \E n \in Node : loc[n] = <<d, b>>
            THEN CHOOSE n \in Node : loc[n] = <<d, b>>
            ELSE NoNode
Entries(d) == {b \in BaseName : At(d, b) # NoNode}

Here == Last(cwd)
Call == Last(calls)
In(l) == calls # <<>> /\ Call.at = l
RmTop(f) == [calls EXCEPT ![Len(calls)] = f]
NewCall(b, new, p) ==
    [base |-> b, at |-> "lstat", kind |-> "none", new |-> new, dir |-> NoNode,
     had |-> {}, seen |-> {}, proc |-> p]

RmBegin(inter, fds) ==
    /\ loc = Place
    /\ calls = <<>> /\ cwd = <<TopDir>> /\ leak = <<0>>
    /\ rmarg = 0 /\ rminter \in inter /\ rmfd \in fds
    /\ rmerr = FALSE
    /\ moves = 0

RmInit == RmBegin(BOOLEAN, Fds)

\* main(): the next operand
NextOperand ==
    /\ calls = <<>> /\ rmarg < Len(RmArgs)
    /\ rmarg' = rmarg + 1
    /\ calls' = <<NewCall(RmArgs[rmarg'], FALSE, 1)>>
    /\ UNCHANGED <<loc, processes, rmOptions, rmerr, moves>>

\* rm() returns; the first call of a new process is its last.
RmReturn ==
    /\ calls' = Front(calls)
    /\ IF Call.new THEN cwd' = Front(cwd) /\ leak' = Front(leak) ELSE UNCHANGED processes

-----------------------------------------------------------------------------
\* rmfile(): confirm() with -i, and rmdir() or unlink() in the current directory,
\* as lstat() has found it a while ago.
Removable(f) ==
    LET n == At(Here, f.base)
    IN  /\ n # NoNode
        /\ IF f.kind = "dir" THEN n \in DirNode /\ Entries(n) = {} ELSE n \notin DirNode

RmFile(f) ==
    \/ rminter /\ UNCHANGED <<loc, rmerr>>
    \/ Removable(f) /\ loc' = [loc EXCEPT ![At(Here, f.base)] = Gone] /\ UNCHANGED rmerr
    \/ ~Removable(f) /\ rmerr' = TRUE /\ UNCHANGED loc

Lstat ==
    /\ In("lstat")
    /\ LET n == At(Here, Call.base)
       IN  \/ /\ n = NoNode
              /\ rmerr' = TRUE
              /\ RmReturn
           \/ /\ n \in DirNode
              /\ calls' = RmTop([Call EXCEPT !.kind = "dir", !.at = "open"])
              /\ UNCHANGED <<processes, rmerr>>
           \/ /\ n \notin DirNode \cup {NoNode}
              /\ calls' = RmTop([Call EXCEPT !.kind = "file", !.at = "remove"])
              /\ UNCHANGED <<processes, rmerr>>
           \* confirm()
           \/ /\ n \in DirNode /\ rminter /\ ~Call.new
              /\ RmReturn
              /\ UNCHANGED rmerr
    /\ UNCHANGED <<loc, rmarg, rmOptions, moves>>

OpenDirs == Cardinality({k \in DOMAIN calls :
                            calls[k].proc = Len(cwd) /\ calls[k].dir # NoNode})
NoMoreFds == Last(leak) + OpenDirs >= rmfd

Enter(d) ==
    /\ calls' = RmTop([Call EXCEPT !.dir = d, !.had = Entries(d), !.at = "read"])
    /\ cwd' = [cwd EXCEPT ![Len(cwd)] = d]
    /\ UNCHANGED <<loc, leak, rmarg, rmOptions, rmerr, moves>>

\* Mutant: without O_NOFOLLOW.
OpenFollows ==
    /\ In("open") /\ ~NoMoreFds
    /\ LET n == At(Here, Call.base)
       IN  \/ n \in DirNode /\ Enter(n)
           \/ n \in LinkNode /\ Enter(OutDir)

\* open() with O_DIRECTORY and O_NOFOLLOW, and fchdir()
OpenDirectory ==
    /\ In("open") /\ ~NoMoreFds
    /\ At(Here, Call.base) \in DirNode
    /\ Enter(At(Here, Call.base))

\* It is not a directory any more; rmdir() is tried all the same.
NotADirectory ==
    /\ In("open")
    /\ ~NoMoreFds /\ At(Here, Call.base) \notin DirNode
    /\ RmFile(Call)
    /\ RmReturn
    /\ UNCHANGED <<rmarg, rmOptions, moves>>

ProcLevel == Cardinality({k \in DOMAIN calls : calls[k].proc = Len(cwd)}) - 1

\* EMFILE, and subproc(): the new process closes the directories of the levels
\* below the last one, which is its current directory.
Fork ==
    /\ In("open") /\ NoMoreFds /\ Len(cwd) < MaxProc
    /\ calls' = Append(RmTop([Call EXCEPT !.at = "remove"]),
                       NewCall(Call.base, TRUE, Len(cwd) + 1))
    /\ cwd' = Append(cwd, Here)
    /\ leak' = Append(leak, Last(leak) + (IF ProcLevel > 0 THEN 1 ELSE 0))
    /\ UNCHANGED <<loc, rmarg, rmOptions, rmerr, moves>>

ForkFails ==
    /\ In("open") /\ NoMoreFds /\ Len(cwd) = MaxProc
    /\ RmFile(Call)
    /\ RmReturn
    /\ UNCHANGED <<rmarg, rmOptions, moves>>

\* getdir(): what was there when the directory was opened, and maybe more.
NextEntry ==
    /\ In("read")
    /\ \E b \in Entries(Call.dir) \ Call.seen :
        calls' = Append(RmTop([Call EXCEPT !.seen = @ \cup {b}]),
                        NewCall(b, FALSE, Len(cwd)))
    /\ UNCHANGED <<loc, processes, rmarg, rmOptions, rmerr, moves>>

LastEntry == In("read") /\ (Call.had \cap Entries(Call.dir)) \ Call.seen = {}

OldDir == IF Len(calls) = 1 THEN TopDir
          ELSE IF Call.new THEN Here
          ELSE calls[Len(calls) - 1].dir

\* Mutant: chdir("..").
BackUp ==
    /\ LastEntry
    /\ IF Call.new THEN RmReturn
       ELSE /\ calls' = RmTop([Call EXCEPT !.dir = NoNode, !.at = "remove"])
            /\ cwd' = [cwd EXCEPT ![Len(cwd)] = loc[Call.dir][1]]
            /\ UNCHANGED leak
    /\ UNCHANGED <<loc, rmarg, rmOptions, rmerr, moves>>

\* fchdir(olddir) and close(); a new process has no directory to return to and
\* leaves the removal to the one that waits for it.
Back ==
    /\ LastEntry
    /\ IF Call.new THEN RmReturn
       ELSE /\ calls' = RmTop([Call EXCEPT !.dir = NoNode, !.at = "remove"])
            /\ cwd' = [cwd EXCEPT ![Len(cwd)] = OldDir]
            /\ UNCHANGED leak
    /\ UNCHANGED <<loc, rmarg, rmOptions, rmerr, moves>>

Unlink ==
    /\ In("remove")
    /\ RmFile(Call)
    /\ RmReturn
    /\ UNCHANGED <<rmarg, rmOptions, moves>>

-----------------------------------------------------------------------------
(* Somebody else *)

\* d and the directories above it
Above(d) ==
    LET up[k \in 0..Cardinality(DirNode)] ==
            IF k = 0 THEN d ELSE IF up[k - 1] \in DirNode THEN loc[up[k - 1]][1] ELSE NoNode
    IN  Range(up)

\* Renames what is in the tree, or a symbolic link, to a free name anywhere.
SomebodyMoves ==
    /\ moves < MaxMoves
    /\ \E n \in Movable, d \in DirNode, b \in BaseName :
        /\ loc[n] # Gone /\ loc[d] # Gone /\ n \notin Above(d)
        /\ At(d, b) = NoNode
        /\ loc' = [loc EXCEPT ![n] = <<d, b>>]
    /\ moves' = moves + 1
    /\ UNCHANGED <<calls, processes, rmarg, rmOptions, rmerr>>

RmStep ==
    \/ NextOperand \/ Lstat \/ OpenDirectory \/ NotADirectory \/ Fork \/ ForkFails
    \/ NextEntry \/ Back \/ Unlink

RmNext == RmStep \/ SomebodyMoves

RmSpec == RmInit /\ [][RmNext]_rmVars

-----------------------------------------------------------------------------
(* Properties *)

\* "the tree might be moved during operation and we'd then start to remove files
\* outside": nothing goes that was not in the tree, wherever its directories are
\* moved to and whatever is put in their places.
RmStaysInside == \A n \in Outside : loc[n] = Place[n]

RmEnded == calls = <<>> /\ rmarg = Len(RmArgs)

\* "POSIX.2 specifies that rm shall not fail because it exceeds the maximum number
\* of open file descriptors."
RmNeverForFds == RmEnded /\ moves = 0 /\ ~rminter => ~rmerr

=============================================================================
