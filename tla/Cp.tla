--------------------------------- MODULE Cp ---------------------------------
(***************************************************************************)
(* cp, mv and ln (cp/cp.c, the build for /usr/5bin).  The operands are     *)
(* small trees; a file that is copied is at the same place below the       *)
(* target, so one path names both.  An inode is a device and a number, and *)
(* numbers are used again when a file has no name left.  mv first renames, *)
(* and when the target is on another device it copies the tree and then    *)
(* removes the original.  Modes, owners, times and the text of symbolic    *)
(* links are left out; so is what a file says, but for whose copy it is.   *)
(***************************************************************************)
EXTENDS Integers, Sequences, FiniteSets, SequencesExt, Functions

CONSTANTS
    Rel,        \* the paths there can be below the operands and the target
    Args,       \* the operands but the last, a sequence of paths of one name
    Numbers,    \* the inode numbers of a device
    Opt,        \* the ways to be called, as records
    Start,      \* the file systems to begin with, as records
    CpFails,    \* the calls that may fail, by name
    MaxNew      \* names that somebody else gives to files in the source

VARIABLES
    src, tgt,   \* the inode at each path, below the operands and the target
    inode,      \* of each inode: its kind, and whose data it holds
    tdev,       \* the device of the target directory
    opt,
    cpat,       \* where the program is
    argn,       \* the operand that is copied
    path,       \* the object that is copied or removed
    dsp,        \* what was found at its target
    stack,      \* the directories that are being read
    linktab,    \* d0: for an inode with more names, the path of its first copy
    errcnt, saverrs,
    owed,       \* history: the data that were found in the source
    orig,       \* history: the data each path had at first
    added,      \* history: the names that somebody else has given
    apart       \* history: link() has failed

world == <<src, tgt, inode>>
fixed == <<tdev, opt>>
errors == <<errcnt, saverrs>>
cpHistory == <<owed, orig, added, apart>>
cpVars == <<world, fixed, cpat, argn, path, dsp, stack, linktab, errors, cpHistory>>

Device == {1, 2}
Ino == Device \X Numbers
NoIno == <<0, 0>>
NoPath == <<>>
NoData == 0
Free == [kind |-> "none", data |-> NoData]
Kinds == {"none", "reg", "dir", "special", "door"}

IsDir(node, i) == i # NoIno /\ node[i].kind = "dir"

FilesExist(t, node) == \A p \in Rel : t[p] # NoIno => node[t[p]].kind # "none"
Hollow(t, node) ==
    \A p \in Rel : t[p] # NoIno /\ node[t[p]].kind \in {"dir", "door"} =>
        node[t[p]].data = NoData

\* All that a path goes through are directories.
IsTree(t, node) ==
    \A p \in Rel : t[p] # NoIno => \A n \in 1..Len(p) - 1 : IsDir(node, t[SubSeq(p, 1, n)])

\* A file of the source that is below the target too is at the same place there,
\* or where the source has none and nobody can put one: to copy over it is to
\* write to itself, which cp refuses, or does not happen.
OwnFiles(s, t, node) ==
    \A p, q \in Rel : t[p] # NoIno /\ t[p] = s[q] =>
        \/ s[p] = t[p]
        \/ s[p] = NoIno /\ (Len(p) > 1 => ~IsDir(node, s[Front(p)]))

\* What a file holds says which file it is: two of the source hold different data.
TellsFiles(s, node) ==
    \A p, q \in Rel :
        s[p] # NoIno /\ s[q] # NoIno /\ node[s[p]].data = node[s[q]].data =>
            s[p] = s[q] \/ node[s[p]].data = NoData

GoodStart(s) ==
    /\ {s.src, s.tgt} \subseteq [Rel -> Ino \cup {NoIno}]
    /\ s.inode \in [Ino -> [kind : Kinds, data : Nat]]
    /\ s.tdev \in Device
    /\ FilesExist(s.src, s.inode) /\ FilesExist(s.tgt, s.inode) /\ Hollow(s.src, s.inode)
    /\ IsTree(s.src, s.inode) /\ IsTree(s.tgt, s.inode) /\ TellsFiles(s.src, s.inode)

ASSUME CpAssumption ==
    /\ Rel \subseteq Seq(STRING) \ {NoPath}
    /\ \A p \in Rel : \A n \in 1..Len(p) - 1 : SubSeq(p, 1, n) \in Rel
    /\ Args \in Seq(Rel)
    /\ \A k \in DOMAIN Args : Len(Args[k]) = 1
    /\ \A j, k \in DOMAIN Args : Args[j] = Args[k] => j = k
    /\ MaxNew \in Nat
    /\ IsFiniteSet(Rel)
    /\ \A o \in Opt : o.go = "mv" => o.d
    /\ \A s \in Start :
        /\ GoodStart(s)
        /\ (\E o \in Opt : o.go # "mv") => OwnFiles(s.src, s.tgt, s.inode)

CpTypeOK ==
    /\ {src, tgt} \subseteq [Rel -> Ino \cup {NoIno}]
    /\ \A i \in Ino : inode[i].kind \in Kinds
    /\ tdev \in Device
    /\ argn \in 0..Len(Args) + 1
    /\ path \in Rel \cup {NoPath}
    /\ dsp \in Ino \cup {NoIno}
    /\ \A k \in DOMAIN stack : stack[k].dir \in Rel
    /\ linktab \in [Ino -> Rel \cup {NoPath}]
    /\ errcnt \in BOOLEAN /\ saverrs \in BOOLEAN
    /\ added \in 0..MaxNew

Kids(t, p) == {q \in Rel : t[q] # NoIno /\ Len(q) = Len(p) + 1 /\ IsPrefix(p, q)}
Under(p) == {q \in Rel : IsPrefix(p, q)}
Kind(i) == IF i = NoIno THEN "none" ELSE inode[i].kind
Links(i) == Cardinality({p \in Rel : src[p] = i}) + Cardinality({p \in Rel : tgt[p] = i})
Mv == opt.go = "mv"
Level == Len(path) - 1

CpBegin(starts, options) ==
    /\ \E s \in starts :
        /\ src = s.src /\ tgt = s.tgt /\ inode = s.inode /\ tdev = s.tdev
    /\ opt \in options
    /\ cpat = "next" /\ argn = 0
    /\ path = NoPath /\ dsp = NoIno
    /\ stack = <<>>
    /\ linktab = [i \in Ino |-> NoPath]
    /\ errcnt = FALSE /\ saverrs = FALSE
    /\ owed = {inode[src[p]].data : p \in {q \in Rel : src[q] # NoIno}} \ {NoData}
    /\ orig = [p \in Rel |-> IF src[p] = NoIno THEN NoData ELSE inode[src[p]].data]
    /\ added = 0 /\ apart = FALSE

CpInit == CpBegin(Start, Opt)

-----------------------------------------------------------------------------
(* The system calls *)

May(call) == call \in CpFails

\* The names are s and t now: an inode without a name is free again.
Linked(node, s, t) ==
    /\ src' = s /\ tgt' = t
    /\ inode' = [i \in Ino |->
                    IF \E p \in Rel : s[p] = i \/ t[p] = i THEN node[i] ELSE Free]

UnlinkTgt(p) == Linked(inode, src, [tgt EXCEPT ![p] = NoIno])
UnlinkSrc(p) == Linked(inode, [src EXCEPT ![p] = NoIno], tgt)

\* A number that no file of the device has; Numbers bounds the model.
FreeNumber(d) == \E n \in Numbers : Kind(<<d, n>>) = "none"
NewIno(d) == <<d, CHOOSE n \in Numbers : Kind(<<d, n>>) = "none">>

\* A new inode at p, below the target; what was there has lost this name.
Make(p, kind, data) ==
    LET i == NewIno(tdev)
    IN  /\ FreeNumber(tdev)
        /\ Linked([inode EXCEPT ![i] = [kind |-> kind, data |-> data]],
                  src, [tgt EXCEPT ![p] = i])

-----------------------------------------------------------------------------
(* Errors and returns *)

Fail == errcnt' = TRUE /\ UNCHANGED saverrs
Keep == UNCHANGED <<fixed, argn, cpHistory>>

\* cpmv() returns before its end.
Return == cpat' = IF Level = 0 THEN "next" ELSE "read"
\* cpmv() comes to its end.
Finish(p) == cpat' = IF Len(p) = 1 THEN "last" ELSE "read"

Stop == Fail /\ Return /\ UNCHANGED <<world, path, dsp, stack, linktab>> /\ Keep
Goto(l) == cpat' = l /\ UNCHANGED <<path, stack, linktab, errors>> /\ Keep

-----------------------------------------------------------------------------
(* main(), and what cpmv() and ln() look at first *)

NextArg ==
    /\ cpat = "next"
    /\ saverrs' = (saverrs \/ errcnt)
    /\ errcnt' = FALSE
    /\ argn' = argn + 1
    /\ IF argn = Len(Args)
       THEN cpat' = "end" /\ UNCHANGED <<path, dsp>>
       ELSE cpat' = "go" /\ path' = Args[argn + 1] /\ dsp' = tgt[path']
    /\ UNCHANGED <<world, fixed, stack, linktab, cpHistory>>

\* commoncheck()
Missing == src[path] = NoIno /\ ~(opt.go = "ln" /\ opt.s)
Identical == dsp # NoIno /\ dsp = src[path]

Go ==
    /\ cpat = "go"
    /\ \/ (Missing \/ Identical) /\ Stop
       \/ /\ ~Missing /\ ~Identical
          /\ Goto(IF opt.go = "ln" THEN "ln"
                  ELSE IF Mv /\ Level = 0 THEN "rename" ELSE "copy")
          /\ UNCHANGED <<world, dsp>>

\* -i: the answer is not yes.
Asked ==
    \/ cpat = "rename" /\ ~opt.f
    \/ cpat = "copy" /\ Kind(src[path]) # "dir"
    \/ cpat = "copy" /\ opt.go = "cp" /\ opt.r /\ Kind(dsp) = "dir"

Decline ==
    /\ opt.i /\ dsp # NoIno /\ Asked
    /\ Return
    /\ UNCHANGED <<world, path, dsp, stack, linktab, errors>> /\ Keep

-----------------------------------------------------------------------------
(* tryrename() *)

SameKind == (Kind(dsp) = "dir") = (Kind(src[path]) = "dir")

\* rename() in one device: the target may be replaced by its like, a directory
\* if it is empty.
Rename ==
    /\ cpat = "rename" /\ src[path][1] = tdev
    /\ \/ /\ dsp # NoIno => SameKind /\ Kids(tgt, path) = {}
          /\ Return
          /\ LET moved(p) == p \in Under(path)
             IN  Linked(inode, [p \in Rel |-> IF moved(p) THEN NoIno ELSE src[p]],
                               [p \in Rel |-> IF moved(p) THEN src[p] ELSE tgt[p]])
          /\ UNCHANGED <<path, dsp, stack, linktab, errors>> /\ Keep
       \/ /\ May("rename") \/ (dsp # NoIno /\ ~(SameKind /\ Kids(tgt, path) = {}))
          /\ Stop

\* EXDEV, and trydelete(tgt, 0): a directory that cannot be removed is reported
\* and not counted.
RenameAcross ==
    /\ cpat = "rename" /\ src[path][1] # tdev
    /\ \/ /\ dsp = NoIno
          /\ Goto("copy") /\ UNCHANGED <<world, dsp>>
       \/ /\ dsp # NoIno /\ ~SameKind
          /\ Stop
       \/ /\ dsp # NoIno /\ SameKind /\ Kids(tgt, path) = {}
          /\ UnlinkTgt(path)
          /\ dsp' = NoIno
          /\ Goto("copy")
       \/ /\ dsp # NoIno /\ SameKind /\ Kind(dsp) = "dir"
          /\ Kids(tgt, path) # {} \/ May("rmdir")
          /\ Return
          /\ UNCHANGED <<world, path, dsp, stack, linktab, errors>> /\ Keep
       \/ /\ dsp # NoIno /\ SameKind /\ Kind(dsp) # "dir" /\ May("unlink")
          /\ Stop

-----------------------------------------------------------------------------
(* cpmv() of a directory *)

CopyDirRefused ==
    /\ cpat = "copy" /\ Kind(src[path]) = "dir"
    /\ \/ ~opt.r
       \/ dsp # NoIno /\ Kind(dsp) # "dir"
       \/ dsp = NoIno /\ May("mkdir")
    /\ Stop

\* mkdir() and opendir()
CopyDir ==
    /\ cpat = "copy" /\ Kind(src[path]) = "dir"
    /\ opt.r /\ (dsp # NoIno => Kind(dsp) = "dir")
    /\ IF dsp = NoIno THEN Make(path, "dir", NoData) ELSE UNCHANGED world
    /\ \/ /\ stack' = Append(stack, [dir |-> path, had |-> Kids(src, path),
                                     seen |-> {}, made |-> dsp = NoIno])
          /\ owed' = owed \cup ({inode[src[p]].data : p \in Kids(src, path)} \ {NoData})
          /\ cpat' = "read"
          /\ UNCHANGED errors
       \/ /\ May("opendir")
          /\ Fail /\ Return
          /\ UNCHANGED <<stack, owed>>
    /\ UNCHANGED <<fixed, argn, path, dsp, linktab, orig, added, apart>>

\* permissions(), which cp counts and mv does not
Permissions == UNCHANGED errors \/ (~Mv /\ May("chmod") /\ Fail)

\* readdir(): what was there when the directory was opened, and maybe what has
\* come since.
ReadDir ==
    /\ cpat = "read"
    /\ LET f == Last(stack)
           more == Kids(src, f.dir) \ f.seen
       IN  \/ \E q \in more :
                /\ stack' = [stack EXCEPT ![Len(stack)].seen = @ \cup {q}]
                /\ path' = q /\ dsp' = tgt[q]
                /\ cpat' = "go"
                /\ UNCHANGED errors
           \/ /\ more \cap f.had = {}
              /\ stack' = Front(stack)
              /\ path' = f.dir /\ dsp' = NoIno
              /\ Finish(f.dir)
              /\ IF f.made THEN Permissions ELSE UNCHANGED errors
    /\ UNCHANGED <<world, linktab>> /\ Keep

-----------------------------------------------------------------------------
(* cpmv() of a file *)

Reg(i) == Kind(i) = "reg" \/ ~opt.R
Copying == IF Reg(src[path]) THEN "creat" ELSE "special"

\* Mutant: the link count is compared with 2.
CopyFileOfThree ==
    /\ cpat = "copy" /\ Kind(src[path]) # "dir"
    /\ Goto(IF opt.d /\ Links(src[path]) > 2 THEN "canlink" ELSE Copying)
    /\ UNCHANGED <<world, dsp>>

CopyFile ==
    /\ cpat = "copy" /\ Kind(src[path]) # "dir"
    /\ Goto(IF opt.d /\ Links(src[path]) > 1 THEN "canlink" ELSE Copying)
    /\ UNCHANGED <<world, dsp>>

\* canlink(): the first name is remembered and copied, another is linked to the
\* copy of the first, or copied when that fails.
CanLink ==
    /\ cpat = "canlink"
    /\ LET i == src[path]
           first == linktab[i]
       IN  \/ /\ first = NoPath
              /\ linktab' = [linktab EXCEPT ![i] = path]
              /\ cpat' = Copying
              /\ UNCHANGED <<world, apart>>
           \/ /\ first # NoPath /\ tgt[first] # NoIno /\ tgt[path] = NoIno
              /\ Linked(inode, src, [tgt EXCEPT ![path] = tgt[first]])
              /\ Finish(path)
              /\ UNCHANGED <<linktab, apart>>
           \/ /\ first # NoPath
              /\ tgt[first] = NoIno \/ tgt[path] # NoIno \/ May("link")
              /\ cpat' = Copying
              /\ apart' = TRUE
              /\ UNCHANGED <<world, linktab>>
    /\ UNCHANGED <<fixed, argn, path, dsp, stack, errors, owed, orig, added>>

\* filecopy(): open() and creat(); a file that is there is emptied, or with -f
\* of cp removed if it cannot be written to; a directory is neither.
Creat ==
    /\ cpat = "creat"
    /\ \/ /\ Kind(tgt[path]) # "dir"
          /\ IF tgt[path] = NoIno THEN Make(path, "reg", NoData)
             ELSE UNCHANGED <<src, tgt>> /\ inode' = [inode EXCEPT ![tgt[path]].data = NoData]
          /\ cpat' = "data" /\ UNCHANGED errors
       \/ /\ May("creat") /\ ~Mv /\ opt.f /\ dsp # NoIno /\ Kind(dsp) # "dir"
          /\ Make(path, "reg", NoData)
          /\ cpat' = "data" /\ UNCHANGED errors
       \/ /\ May("open") \/ May("creat") \/ Kind(tgt[path]) = "dir"
          /\ Finish(path) /\ Fail
          /\ UNCHANGED world
    /\ UNCHANGED <<path, dsp, stack, linktab>> /\ Keep

\* Mutant: a write error ends the copy and is not counted.
CopyDataUncounted ==
    /\ cpat = "data"
    /\ \/ /\ inode' = [inode EXCEPT ![tgt[path]].data = inode[src[path]].data]
          /\ Permissions
       \/ /\ May("write") /\ UNCHANGED errors
          /\ UNCHANGED inode
    /\ Finish(path)
    /\ UNCHANGED <<src, tgt, path, dsp, stack, linktab>> /\ Keep

\* fdcopy(), permissions() and close(): a copy is whole or an error is counted.
CopyData ==
    /\ cpat = "data"
    /\ \/ /\ inode' = [inode EXCEPT ![tgt[path]].data = inode[src[path]].data]
          /\ Permissions
       \/ /\ May("write") /\ Fail
          /\ UNCHANGED inode
    /\ Finish(path)
    /\ UNCHANGED <<src, tgt, path, dsp, stack, linktab>> /\ Keep

\* specialcopy(): what is there is removed first; doors are passed over.
Special ==
    /\ cpat = "special"
    /\ \/ /\ Kind(src[path]) = "door"
          /\ UNCHANGED <<world, errors>>
       \/ /\ Kind(src[path]) = "special" /\ Kind(dsp) # "dir"
          /\ Make(path, "special", inode[src[path]].data)
          /\ Permissions
       \/ /\ Kind(src[path]) = "special"
          /\ Fail
          /\ \/ Kind(dsp) = "dir" /\ UNCHANGED world
             \/ dsp # NoIno /\ May("unlink") /\ UNCHANGED world
             \/ Kind(dsp) # "dir" /\ May("mknod") /\ UnlinkTgt(path)
    /\ Finish(path)
    /\ UNCHANGED <<path, dsp, stack, linktab>> /\ Keep

-----------------------------------------------------------------------------
(* The end of cpmv() in level 0, and trydelete(src, 1) *)

\* Mutant: freedslots() is not called.
KeepDslots == UNCHANGED linktab

\* freedslots()
Freedslots == linktab' = [i \in Ino |-> NoPath]

Done == cpat' = "next" /\ Freedslots

EndOfArg ==
    /\ cpat = "last"
    /\ IF Mv /\ ~errcnt
       THEN cpat' = "delete" /\ UNCHANGED linktab
       ELSE Done
    /\ UNCHANGED <<world, path, dsp, stack, errors>> /\ Keep

Deleted == IF stack = <<>> THEN Done ELSE cpat' = "rmread" /\ UNCHANGED linktab

TryDelete ==
    /\ cpat = "delete"
    /\ \/ /\ Kind(src[path]) = "dir"
          /\ stack' = Append(stack, [dir |-> path, had |-> Kids(src, path),
                                     seen |-> {}, made |-> FALSE])
          /\ cpat' = "rmread"
          /\ UNCHANGED <<world, linktab, errors>>
       \/ /\ Kind(src[path]) # "dir"
          /\ UnlinkSrc(path)
          /\ Deleted
          /\ UNCHANGED <<stack, errors>>
       \/ /\ May("unlink")
          /\ stack' = <<>>
          /\ Fail /\ Done
          /\ UNCHANGED world
    /\ UNCHANGED <<path, dsp>> /\ Keep

\* The next entry, or rmdir() at the end; the first failure ends it all.
DeleteNext ==
    /\ cpat = "rmread"
    /\ LET f == Last(stack)
           left == Kids(src, f.dir)
       IN  \/ \E q \in left :
                /\ path' = q
                /\ cpat' = "delete"
                /\ UNCHANGED <<world, stack, linktab>>
           \/ /\ left = {}
              /\ UnlinkSrc(f.dir)
              /\ stack' = Front(stack)
              /\ path' = f.dir
              /\ IF Len(stack) = 1 THEN Done ELSE cpat' = "rmread" /\ UNCHANGED linktab
           \/ /\ left \cap f.had = {}
              /\ left # {} \/ May("rmdir")
              /\ stack' = <<>>
              /\ Done
              /\ UNCHANGED <<world, path>>
    /\ UNCHANGED <<dsp, errors>> /\ Keep

-----------------------------------------------------------------------------
(* ln() *)

LnRefused ==
    /\ cpat = "ln"
    /\ \/ Kind(src[path]) = "dir" /\ ~opt.s
       \/ dsp # NoIno /\ ~opt.s /\ (Kind(dsp) = "dir" \/ May("unlink") \/ (opt.n /\ ~opt.f))
       \/ dsp # NoIno /\ opt.s
    /\ Stop

\* The target is removed first, unless a symbolic link is to be made.
LnUnlink ==
    /\ cpat = "ln"
    /\ ~opt.s /\ Kind(src[path]) # "dir"
    /\ dsp # NoIno /\ Kind(dsp) # "dir" /\ (opt.n => opt.f)
    /\ UnlinkTgt(path)
    /\ dsp' = NoIno
    /\ Goto("ln")

Ln ==
    /\ cpat = "ln" /\ dsp = NoIno
    /\ opt.s \/ Kind(src[path]) # "dir"
    /\ \/ /\ opt.s
          /\ Make(path, "special", NoData)
          /\ UNCHANGED errors
       \/ /\ ~opt.s /\ src[path][1] = tdev
          /\ Linked(inode, src, [tgt EXCEPT ![path] = src[path]])
          /\ UNCHANGED errors
       \/ /\ (src[path][1] # tdev /\ ~opt.s) \/ May("link")
          /\ Fail
          /\ UNCHANGED world
    /\ cpat' = "next"
    /\ UNCHANGED <<path, dsp, stack, linktab>> /\ Keep

-----------------------------------------------------------------------------
(* The world around *)

Kill ==
    /\ cpat \notin {"end", "killed"} /\ May("kill")
    /\ cpat' = "killed"
    /\ UNCHANGED <<world, fixed, argn, path, dsp, stack, linktab, errors, cpHistory>>

\* Somebody makes a new file in a directory of the source, or gives a file
\* there another name.
Somebody ==
    /\ cpat \notin {"end", "killed"} /\ added < MaxNew
    /\ \E p \in Rel :
        /\ src[p] = NoIno /\ Len(p) > 1
        /\ src[Front(p)] # NoIno /\ Kind(src[Front(p)]) = "dir"
        /\ \/ \E i \in Ino :
                /\ Kind(i) = "reg" /\ i \in Range(src)
                /\ Linked(inode, [src EXCEPT ![p] = i], tgt)
           \/ LET i == NewIno(src[Front(p)][1])
              IN  /\ FreeNumber(src[Front(p)][1])
                  /\ Linked([inode EXCEPT ![i] = [kind |-> "reg", data |-> 100 + added]],
                            [src EXCEPT ![p] = i], tgt)
    /\ added' = added + 1
    /\ UNCHANGED <<fixed, cpat, argn, path, dsp, stack, linktab, errors, owed, orig, apart>>

CpStep ==
    \/ NextArg \/ Go \/ Decline \/ Rename \/ RenameAcross
    \/ CopyDirRefused \/ CopyDir \/ ReadDir \/ CopyFile \/ CanLink \/ Creat
    \/ CopyData \/ Special \/ EndOfArg \/ TryDelete \/ DeleteNext
    \/ LnRefused \/ LnUnlink \/ Ln

CpNext == CpStep \/ Kill \/ Somebody

CpSpec == CpInit /\ [][CpNext]_cpVars

-----------------------------------------------------------------------------
(* Properties *)

\* Whatever fails, wherever mv, cp or ln is killed, and whoever makes files in
\* the meantime: all data that were in the source when its directory was opened
\* are in a file with a name, in the source or in the target.
SourceIsSafe ==
    \A c \in owed : \E p \in Rel :
        \/ src[p] # NoIno /\ inode[src[p]].data = c
        \/ tgt[p] # NoIno /\ inode[tgt[p]].data = c

\* "mv will preserve linkage inside the moved tree": when it has ended without
\* an error, what was one file is one file, and what were two files are two.
LinkageKept ==
    Mv /\ cpat = "end" /\ ~saverrs /\ ~apart =>
        \A p, q \in Rel :
            /\ orig[p] # NoData /\ orig[q] # NoData /\ p[1] = q[1]
            /\ src[p] = NoIno /\ src[q] = NoIno
            => /\ inode[tgt[p]].data = orig[p]
               /\ (tgt[p] = tgt[q]) = (orig[p] = orig[q])

\* mv that has not reported an error by its exit status has moved its operands.
ExitTellsTheMove ==
    Mv /\ ~opt.i /\ cpat = "end" /\ ~saverrs => \A k \in DOMAIN Args : src[Args[k]] = NoIno

=============================================================================
