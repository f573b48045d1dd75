---------------------------- MODULE CpRm_proofs ----------------------------
(***************************************************************************)
(* mv, cp and ln lose no data of the source, and mv keeps the links of the *)
(* tree it copies, for every file system to begin with, all operands and   *)
(* options, every call that fails, wherever the program is killed, and     *)
(* however many names somebody else gives.  rm -r removes nothing outside  *)
(* the tree, whatever tree there is, however few descriptors, and however  *)
(* often somebody moves things in it.                                      *)
(***************************************************************************)
EXTENDS Cp, Rm, SequenceLemmas, FiniteSetTheorems

-----------------------------------------------------------------------------
(* The inductive invariant *)

AtFile == {"canlink", "creat", "special", "data"}
AtObject == {"go", "copy"} \cup AtFile
AtTop == {"rename", "ln", "last"}
Labels == AtObject \cup AtTop \cup {"next", "read", "delete", "rmread"}

Halted == cpat \in {"end", "killed"}
Deleting == cpat \in {"delete", "rmread"}

\* In level 0, the target may still be what was there before.
Before == cpat \in {"go", "rename"} /\ stack = <<>>
Copies == cpat \in AtObject \cup {"read", "last"} /\ ~Before

\* The path is that of the operand, or below it.
Below(p) == p[1] = Args[argn][1]
ChildOf(d, q) == Len(q) = Len(d) + 1 /\ IsPrefix(d, q)

Frame == [dir : Rel, had : SUBSET Rel, seen : SUBSET Rel, made : BOOLEAN]
InodeRecord == [kind : Kinds, data : Nat]

CpStates ==
    /\ src \in [Rel -> Ino \cup {NoIno}] /\ tgt \in [Rel -> Ino \cup {NoIno}]
    /\ inode \in [Ino -> InodeRecord]
    /\ tdev \in Device /\ opt \in Opt
    /\ argn \in 0..Len(Args) + 1
    /\ path \in Rel \cup {NoPath} /\ dsp \in Ino \cup {NoIno}
    /\ stack \in Seq(Frame)
    /\ linktab \in [Ino -> Rel \cup {NoPath}]
    /\ errcnt \in BOOLEAN /\ saverrs \in BOOLEAN
    /\ added \in 0..MaxNew

\* Two lists of names, and a source that is a tree whose directories hold no data.
Files ==
    /\ FilesExist(src, inode) /\ FilesExist(tgt, inode)
    /\ Hollow(src, inode)
    /\ IsTree(src, inode)

NoLinks == \A i \in Ino : linktab[i] = NoPath

\* The directories being read are above the path, each a level above the next.
Levels ==
    /\ cpat \in AtObject \cup AtTop \cup {"delete"} =>
        path \in Rel /\ Below(path) /\ Len(path) = Len(stack) + 1
    /\ \A k \in 1..Len(stack) : Below(stack[k].dir) /\ Len(stack[k].dir) = k
    /\ cpat \in AtObject /\ stack # <<>> =>
        path \in stack[Len(stack)].seen /\ ChildOf(stack[Len(stack)].dir, path)
    /\ cpat \in AtTop \cup {"next"} => stack = <<>>
    /\ cpat \in {"read", "rmread"} => stack # <<>>

\* What the place in the program tells of the operand, of the command, of what
\* was found at the target and of the table of linked files.
Position ==
    /\ cpat \in Labels
    /\ argn <= Len(Args) /\ (cpat # "next" => argn >= 1)
    /\ cpat \in {"rename", "delete", "rmread"} => Mv
    /\ cpat = "ln" => opt.go = "ln"
    /\ opt.go = "ln" => NoLinks /\ stack = <<>> /\ cpat \in {"next", "go", "ln"}
    /\ cpat = "next" \/ (cpat \in {"go", "rename", "copy"} /\ stack = <<>>) => NoLinks
    /\ cpat \in {"go", "rename", "copy"} => dsp = tgt[path]
    /\ cpat \in {"rename", "copy"} \cup AtFile => src[path] # NoIno
    /\ cpat = "data" => tgt[path] # NoIno

\* An inode has no name here.
HasNot(t, i) == \A p \in Rel : t[p] # i

\* cp and ln: the source keeps its names, and nothing is written to its files.
SourceHas(c) == \E p \in Rel : src[p] # NoIno /\ inode[src[p]].data = c
CopiesApart ==
    \A i \in Ino :
        linktab[i] # NoPath => tgt[linktab[i]] = NoIno \/ HasNot(src, tgt[linktab[i]])

CopyInv ==
    /\ \A c \in owed : SourceHas(c)
    /\ OwnFiles(src, tgt, inode)
    /\ cpat \in {"copy"} \cup AtFile => tgt[path] # src[path]
    /\ CopiesApart

\* What mv has not copied yet.
Todo(p) ==
    \/ \E k \in 1..Len(stack) : \E q \in stack[k].had \ stack[k].seen : IsPrefix(q, p)
    \/ cpat \in {"go", "copy"} /\ IsPrefix(path, p)
    \/ cpat \in AtFile /\ p = path

\* No operand that is still to come can have this place.
Moved(p) == \A k \in (IF Before THEN argn ELSE argn + 1)..Len(Args) : p[1] # Args[k][1]

InSource(c) ==
    \E p \in Rel :
        /\ src[p] # NoIno /\ inode[src[p]].data = c
        /\ Copies /\ ~errcnt => ~Below(p) \/ Todo(p)
        /\ Deleting => ~Below(p)
InTarget(c) == \E p \in Rel : tgt[p] # NoIno /\ inode[tgt[p]].data = c /\ Moved(p)

\* mv copies into a tree that it makes: a directory that it reads is there, the
\* entries that are to come are not, nor is the object before it is copied.
FreshDir(k) ==
    /\ IsDir(inode, tgt[stack[k].dir])
    /\ stack[k].had \subseteq Kids(src, stack[k].dir)
    /\ \A q \in Rel : ChildOf(stack[k].dir, q) /\ q \notin stack[k].seen => tgt[q] = NoIno

FreshTree ==
    /\ \A k \in 1..Len(stack) : FreshDir(k)
    /\ cpat \in AtObject \ {"data"} => tgt[path] = NoIno
    /\ cpat = "data" =>
        /\ HasNot(src, tgt[path]) /\ inode[tgt[path]].data = NoData
        /\ \A q \in Rel : tgt[q] = tgt[path] => q = path

\* The first copy of a file with more names says the same as the file.
CopiesAgree ==
    \A i \in Ino : linktab[i] # NoPath =>
        /\ src[linktab[i]] = i
        /\ tgt[linktab[i]] # NoIno /\ ~(cpat = "data" /\ path = linktab[i])
            => inode[tgt[linktab[i]]].data = inode[i].data

OwedIsHeld == NoData \notin owed /\ \A c \in owed : InSource(c) \/ InTarget(c)

MoveInv ==
    /\ OwedIsHeld
    /\ IsTree(tgt, inode)
    /\ Copies => FreshTree
    /\ Copies /\ ~errcnt => CopiesAgree

CpInv ==
    /\ CpStates
    /\ SourceIsSafe
    /\ Halted \/ (Files /\ Levels /\ Position /\ (Mv => MoveInv) /\ (~Mv => CopyInv))

-----------------------------------------------------------------------------
(* Paths *)

\* A path is a sequence of one name or more.
LEMMA PathFacts ==
    ASSUME NEW p \in Rel
    PROVE  p \in Seq(STRING) /\ p # NoPath /\ Len(p) \in Nat \ {0} /\ NoPath \notin Rel
<1>1. p \in Seq(STRING) /\ p # <<>> /\ NoPath \notin Rel
  BY CpAssumption DEF NoPath
<1> QED
  BY <1>1, EmptySeq DEF NoPath

\* A prefix has the names of the longer path.
LEMMA PrefixNames ==
    ASSUME NEW p \in Rel, NEW q \in Rel
    PROVE  /\ IsPrefix(p, p)
           /\ IsPrefix(p, q) => p[1] = q[1] /\ Len(p) <= Len(q)
           /\ IsPrefix(p, q) /\ Len(p) = Len(q) => p = q
           /\ Len(p) = 1 /\ p[1] = q[1] => IsPrefix(p, q)
           /\ \A r \in Rel : IsPrefix(p, q) /\ IsPrefix(q, r) => IsPrefix(p, r)
<1>1. p \in Seq(STRING) /\ q \in Seq(STRING) /\ Len(p) \in Nat \ {0} /\ Len(q) \in Nat \ {0}
  BY PathFacts
<1>2. IsPrefix(p, q) <=> Len(p) <= Len(q) /\ \A i \in 1..Len(p) : p[i] = q[i]
  BY <1>1, PrefixFacts
<1>3. IsPrefix(p, p) <=> Len(p) <= Len(p) /\ \A i \in 1..Len(p) : p[i] = p[i]
  BY <1>1, PrefixFacts
<1>4. ASSUME IsPrefix(p, q), Len(p) = Len(q) PROVE p = q
  BY <1>1, <1>2, <1>4, SeqEqual
<1>5. ASSUME NEW r \in Rel, IsPrefix(p, q), IsPrefix(q, r) PROVE IsPrefix(p, r)
  <2>1. r \in Seq(STRING) /\ Len(r) \in Nat
    BY PathFacts
  <2>2. Len(q) <= Len(r) /\ \A i \in 1..Len(q) : q[i] = r[i]
    BY <1>1, <1>5, <2>1, PrefixFacts
  <2>3. Len(p) <= Len(r) /\ \A i \in 1..Len(p) : p[i] = r[i]
    BY <1>1, <1>2, <1>5, <2>1, <2>2
  <2> QED
    BY <1>1, <2>1, <2>3, PrefixFacts
<1>6. IsPrefix(p, p)
  BY <1>1, <1>3
<1>7. IsPrefix(p, q) => p[1] = q[1] /\ Len(p) <= Len(q)
  BY <1>1, <1>2
<1>8. Len(p) = 1 /\ p[1] = q[1] => IsPrefix(p, q)
  BY <1>1, <1>2
<1> QED
  BY <1>4, <1>5, <1>6, <1>7, <1>8

\* The first names of a path are a path.
LEMMA CutNames ==
    ASSUME NEW p \in Rel, NEW n \in 1..Len(p) - 1
    PROVE  /\ SubSeq(p, 1, n) \in Rel /\ Len(SubSeq(p, 1, n)) = n
           /\ IsPrefix(SubSeq(p, 1, n), p)
           /\ \A i \in 1..n : SubSeq(p, 1, n)[i] = p[i]
<1>1. p \in Seq(STRING) /\ Len(p) \in Nat \ {0} /\ n \in Nat \ {0} /\ n <= Len(p)
  BY PathFacts
<1>2. \A i \in 1..n : p[i] \in STRING
  BY <1>1, ElementOfSeq
<1>3. PICK s : s = SubSeq(p, 1, n)
  OBVIOUS
<1>4. s \in Rel /\ s \in Seq(STRING)
  BY <1>3, CpAssumption, PathFacts
<1>5. /\ Len(s) = IF 1 <= n THEN n - 1 + 1 ELSE 0
      /\ \A i \in 1..n - 1 + 1 : s[i] = p[1 + i - 1]
  BY <1>1, <1>2, <1>3, SubSeqProperties
<1>6. Len(s) = n
  BY <1>1, <1>5
<1>7. \A i \in 1..n : i \in 1..n - 1 + 1 /\ 1 + i - 1 = i
  BY <1>1
<1>8. \A i \in 1..n : s[i] = p[i]
  BY <1>5, <1>7
<1>9. IsPrefix(s, p)
  BY <1>1, <1>4, <1>6, <1>8, PrefixFacts
<1> QED
  BY <1>3, <1>4, <1>6, <1>8, <1>9

\* There is one prefix of each length.
LEMMA PrefixIsCut ==
    ASSUME NEW p \in Rel, NEW q \in Rel, IsPrefix(p, q), Len(p) < Len(q)
    PROVE  p = SubSeq(q, 1, Len(p)) /\ Len(p) \in 1..Len(q) - 1
<1>1. p \in Seq(STRING) /\ q \in Seq(STRING) /\ Len(p) \in Nat \ {0} /\ Len(q) \in Nat \ {0}
  BY PathFacts
<1>2. PICK n \in 1..Len(q) - 1 : n = Len(p)
  BY <1>1
<1>3. PICK s : s = SubSeq(q, 1, n)
  OBVIOUS
<1>4. s \in Rel /\ Len(s) = n /\ \A i \in 1..n : s[i] = q[i]
  BY <1>3, CutNames
<1>5. \A i \in 1..n : p[i] = q[i]
  BY <1>1, <1>2, PrefixFacts
<1>6. s \in Seq(STRING)
  BY <1>4, PathFacts
<1>7. p = s
  BY <1>1, <1>2, <1>4, <1>5, <1>6, SeqEqual
<1> QED
  BY <1>2, <1>3, <1>7

\* A path is in its directory, and passes what its directory passes.
LEMMA ChildCuts ==
    ASSUME NEW d \in Rel, NEW q \in Rel, ChildOf(d, q)
    PROVE  /\ d # q /\ d[1] = q[1] /\ Len(q) = Len(d) + 1
           /\ Front(q) = d
           /\ \A n \in 1..Len(q) - 1 : SubSeq(q, 1, n) = IF n = Len(d) THEN d ELSE SubSeq(d, 1, n)
           /\ \A n \in 1..Len(q) - 1 : n # Len(d) => n \in 1..Len(d) - 1
<1>1. Len(d) \in Nat \ {0} /\ Len(q) = Len(d) + 1 /\ IsPrefix(d, q)
  BY PathFacts DEF ChildOf
<1>2. d[1] = q[1] /\ d = SubSeq(q, 1, Len(d))
  BY <1>1, PrefixNames, PrefixIsCut
<1>3. ASSUME NEW n \in 1..Len(q) - 1, n # Len(d)
      PROVE  n \in 1..Len(d) - 1 /\ SubSeq(q, 1, n) = SubSeq(d, 1, n)
  <2>1. n \in 1..Len(d) - 1 /\ n \in 1..Len(q) - 1 /\ n < Len(q) /\ n \in Nat
    BY <1>1, <1>3
  <2>2. PICK s : s = SubSeq(d, 1, n)
    OBVIOUS
  <2>3. s \in Rel /\ Len(s) = n /\ IsPrefix(s, d)
    BY <2>1, <2>2, CutNames
  <2>4. IsPrefix(s, q)
    BY <1>1, <2>3, PrefixNames
  <2>5. Len(s) < Len(q)
    BY <2>1, <2>3
  <2>6. s = SubSeq(q, 1, n)
    BY <2>3, <2>4, <2>5, PrefixIsCut
  <2> QED
    BY <2>1, <2>2, <2>6
<1>4. Front(q) = SubSeq(q, 1, Len(d))
  BY <1>1 DEF Front
<1>5. d # q
  BY <1>1
<1>6. \A n \in 1..Len(q) - 1 : SubSeq(q, 1, n) = IF n = Len(d) THEN d ELSE SubSeq(d, 1, n)
  BY <1>2, <1>3
<1>7. \A n \in 1..Len(q) - 1 : n # Len(d) => n \in 1..Len(d) - 1
  BY <1>3
<1> QED
  BY <1>1, <1>2, <1>4, <1>5, <1>6, <1>7

\* Below a directory, or the directory itself: through one of its entries.
LEMMA ThroughChild ==
    ASSUME NEW d \in Rel, NEW p \in Rel, IsPrefix(d, p), p # d
    PROVE  /\ Len(p) > Len(d)
           /\ d = SubSeq(p, 1, Len(d)) /\ Len(d) \in 1..Len(p) - 1
           /\ \E q \in Rel :
                /\ ChildOf(d, q) /\ IsPrefix(q, p)
                /\ q = p \/ \E n \in 1..Len(p) - 1 : q = SubSeq(p, 1, n)
<1>1. Len(d) \in Nat \ {0} /\ Len(p) \in Nat \ {0}
  BY PathFacts
<1>2. Len(d) <= Len(p) /\ Len(d) # Len(p)
  BY PrefixNames
<1>3. Len(d) < Len(p)
  BY <1>1, <1>2
<1>4. d = SubSeq(p, 1, Len(d)) /\ Len(d) \in 1..Len(p) - 1
  BY <1>3, PrefixIsCut
<1>5. CASE Len(p) = Len(d) + 1
  BY <1>3, <1>4, <1>5, PrefixNames DEF ChildOf
<1>6. CASE Len(p) # Len(d) + 1
  <2>1. PICK n \in 1..Len(p) - 1 : n = Len(d) + 1
    BY <1>1, <1>3, <1>6
  <2>2. PICK q : q = SubSeq(p, 1, n)
    OBVIOUS
  <2>3. q \in Rel /\ Len(q) = n /\ IsPrefix(q, p) /\ \A i \in 1..n : q[i] = p[i]
    BY <2>2, CutNames
  <2>4. d \in Seq(STRING) /\ q \in Seq(STRING) /\ p \in Seq(STRING)
    BY <2>3, PathFacts
  <2>5. \A i \in 1..Len(d) : d[i] = p[i]
    BY <2>4, PrefixFacts
  <2>6. Len(d) <= Len(q) /\ \A i \in 1..Len(d) : d[i] = q[i]
    BY <1>1, <2>1, <2>3, <2>5
  <2>7. IsPrefix(d, q)
    BY <2>4, <2>6, PrefixFacts
  <2> QED
    BY <1>3, <1>4, <2>1, <2>2, <2>3, <2>7 DEF ChildOf
<1> QED
  BY <1>5, <1>6

-----------------------------------------------------------------------------
(* The file system *)

\* The source keeps its names, and every file of it what it is.
SrcKept == src' = src /\ \A q \in Rel : src[q] # NoIno => inode'[src[q]] = inode[src[q]]

\* In the target, only the name p changes; it stands for j now, or for nothing.
TgtStep(p, j) ==
    /\ SrcKept
    /\ tgt' = [tgt EXCEPT ![p] = j]
    /\ \A q \in Rel : q # p /\ tgt[q] # NoIno => inode'[tgt[q]] = inode[tgt[q]]
    /\ inode' \in [Ino -> InodeRecord]

World ==
    /\ src \in [Rel -> Ino \cup {NoIno}] /\ tgt \in [Rel -> Ino \cup {NoIno}]
    /\ inode \in [Ino -> InodeRecord]

LEMMA NoInode == NoIno \notin Ino /\ Free \in InodeRecord
  BY DEF NoIno, Ino, Device, Free, InodeRecord, Kinds, NoData

\* Linked(): a file with a name is what it is, one without is free.
LEMMA LinkedFacts ==
    ASSUME NEW node \in [Ino -> InodeRecord], NEW s \in [Rel -> Ino \cup {NoIno}],
           NEW t \in [Rel -> Ino \cup {NoIno}], Linked(node, s, t)
    PROVE  /\ src' = s /\ tgt' = t
           /\ inode' \in [Ino -> InodeRecord]
           /\ \A q \in Rel : s[q] # NoIno => inode'[s[q]] = node[s[q]]
           /\ \A q \in Rel : t[q] # NoIno => inode'[t[q]] = node[t[q]]
<1>1. src' = s /\ tgt' = t
      /\ inode' = [i \in Ino |->
                    IF \E p \in Rel : s[p] = i \/ t[p] = i THEN node[i] ELSE Free]
  BY DEF Linked
<1>2. inode' \in [Ino -> InodeRecord]
  BY <1>1, NoInode
<1>3. ASSUME NEW q \in Rel, s[q] # NoIno PROVE inode'[s[q]] = node[s[q]]
  <2>1. s[q] \in Ino
    BY <1>3
  <2> QED
    BY <1>1, <2>1
<1>4. ASSUME NEW q \in Rel, t[q] # NoIno PROVE inode'[t[q]] = node[t[q]]
  <2>1. t[q] \in Ino
    BY <1>4
  <2> QED
    BY <1>1, <2>1
<1> QED
  BY <1>1, <1>2, <1>3, <1>4

\* A number that is free is no file's.
LEMMA NewInode ==
    ASSUME World, FilesExist(src, inode), FilesExist(tgt, inode),
           NEW d \in Device, FreeNumber(d)
    PROVE  /\ NewIno(d) \in Ino /\ NewIno(d) # NoIno
           /\ HasNot(src, NewIno(d)) /\ HasNot(tgt, NewIno(d))
<1>1. PICK n : n = CHOOSE m \in Numbers : Kind(<<d, m>>) = "none"
  OBVIOUS
<1>2. n \in Numbers /\ Kind(<<d, n>>) = "none"
  BY <1>1 DEF FreeNumber
<1>3. PICK i : i = <<d, n>>
  OBVIOUS
<1>4. i \in Ino /\ i # NoIno
  BY <1>2, <1>3, NoInode DEF Ino
<1>5. inode[i].kind = "none"
  BY <1>2, <1>3, <1>4 DEF Kind
<1>6. HasNot(src, i) /\ HasNot(tgt, i)
  BY <1>4, <1>5 DEF HasNot, FilesExist
<1>7. NewIno(d) = i
  BY <1>1, <1>3 DEF NewIno
<1> QED
  BY <1>4, <1>6, <1>7

\* A new file below the target.
LEMMA MakeFacts ==
    ASSUME World, FilesExist(src, inode), FilesExist(tgt, inode), tdev \in Device,
           NEW p \in Rel, NEW kind \in Kinds, NEW data \in Nat, Make(p, kind, data)
    PROVE  \E i \in Ino :
               /\ i # NoIno /\ HasNot(src, i) /\ HasNot(tgt, i)
               /\ TgtStep(p, i)
               /\ inode'[i] = [kind |-> kind, data |-> data]
<1>1. PICK i : i = NewIno(tdev)
  OBVIOUS
<1>2. i \in Ino /\ i # NoIno /\ HasNot(src, i) /\ HasNot(tgt, i)
  BY <1>1, NewInode DEF Make
<1>3. PICK node : node = [inode EXCEPT ![i] = [kind |-> kind, data |-> data]]
  OBVIOUS
<1>4. node \in [Ino -> InodeRecord] /\ node[i] = [kind |-> kind, data |-> data]
      /\ \A j \in Ino : j # i => node[j] = inode[j]
  BY <1>2, <1>3 DEF World, InodeRecord
<1>5. PICK t : t = [tgt EXCEPT ![p] = i]
  OBVIOUS
<1>6. t \in [Rel -> Ino \cup {NoIno}] /\ t[p] = i /\ \A q \in Rel : q # p => t[q] = tgt[q]
  BY <1>2, <1>5 DEF World
<1>7. Linked(node, src, t)
  BY <1>1, <1>3, <1>5 DEF Make
<1>8. /\ src' = src /\ tgt' = t /\ inode' \in [Ino -> InodeRecord]
      /\ \A q \in Rel : src[q] # NoIno => inode'[src[q]] = node[src[q]]
      /\ \A q \in Rel : t[q] # NoIno => inode'[t[q]] = node[t[q]]
  BY <1>4, <1>6, <1>7, LinkedFacts DEF World
<1>9. SrcKept
  BY <1>2, <1>4, <1>8 DEF SrcKept, HasNot, World
<1>10. \A q \in Rel : q # p /\ tgt[q] # NoIno => inode'[tgt[q]] = inode[tgt[q]]
  BY <1>2, <1>4, <1>6, <1>8 DEF HasNot, World
<1>11. inode'[i] = [kind |-> kind, data |-> data]
  BY <1>2, <1>4, <1>6, <1>8
<1> QED
  BY <1>2, <1>5, <1>8, <1>9, <1>10, <1>11 DEF TgtStep

\* A name below the target is given to another file, or taken away.
LEMMA RelinkFacts ==
    ASSUME World, NEW p \in Rel, NEW j \in Ino \cup {NoIno},
           Linked(inode, src, [tgt EXCEPT ![p] = j])
    PROVE  TgtStep(p, j) /\ (j # NoIno => inode'[j] = inode[j])
<1>1. PICK t : t = [tgt EXCEPT ![p] = j]
  OBVIOUS
<1>2. t \in [Rel -> Ino \cup {NoIno}] /\ t[p] = j /\ \A q \in Rel : q # p => t[q] = tgt[q]
  BY <1>1 DEF World
<1>3. Linked(inode, src, t)
  BY <1>1
<1>4. /\ src' = src /\ tgt' = t /\ inode' \in [Ino -> InodeRecord]
      /\ \A q \in Rel : src[q] # NoIno => inode'[src[q]] = inode[src[q]]
      /\ \A q \in Rel : t[q] # NoIno => inode'[t[q]] = inode[t[q]]
  BY <1>2, <1>3, LinkedFacts DEF World
<1> QED
  BY <1>1, <1>2, <1>4 DEF TgtStep, SrcKept

LEMMA UnlinkTgtFacts ==
    ASSUME World, NEW p \in Rel, UnlinkTgt(p)
    PROVE  TgtStep(p, NoIno)
  BY RelinkFacts DEF UnlinkTgt

\* Nothing changes at all.
LEMMA SameFacts ==
    ASSUME World, UNCHANGED world
    PROVE  SrcKept /\ \A p \in Rel : TgtStep(p, tgt[p])
  BY DEF World, world, SrcKept, TgtStep

\* Something is written to a file that the source has not.
LEMMA WriteFacts ==
    ASSUME World, NEW p \in Rel, tgt[p] # NoIno, NEW d \in Nat,
           inode' = [inode EXCEPT ![tgt[p]].data = d], UNCHANGED <<src, tgt>>
    PROVE  /\ tgt[p] \in Ino
           /\ inode' \in [Ino -> InodeRecord]
           /\ inode'[tgt[p]].data = d
           /\ \A i \in Ino : inode'[i].kind = inode[i].kind
           /\ \A i \in Ino : i # tgt[p] => inode'[i] = inode[i]
           /\ HasNot(src, tgt[p]) => SrcKept
<1>1. PICK i : i = tgt[p]
  OBVIOUS
<1>2. i \in Ino
  BY <1>1 DEF World
<1>3. inode[i] \in InodeRecord
  BY <1>2 DEF World
<1>4. inode' = [inode EXCEPT ![i] = [inode[i] EXCEPT !.data = d]]
  BY <1>1
<1>5. PICK r : r = [inode[i] EXCEPT !.data = d]
  OBVIOUS
<1>6. r \in InodeRecord /\ r.data = d /\ r.kind = inode[i].kind
  BY <1>3, <1>5 DEF InodeRecord
<1>7. /\ inode' \in [Ino -> InodeRecord] /\ inode'[i] = r
      /\ \A j \in Ino : j # i => inode'[j] = inode[j]
  BY <1>2, <1>4, <1>5, <1>6 DEF World
<1>8. HasNot(src, i) => SrcKept
  BY <1>2, <1>7 DEF HasNot, SrcKept, World
<1>9. \A j \in Ino : inode'[j].kind = inode[j].kind
  BY <1>6, <1>7
<1> QED
  BY <1>1, <1>2, <1>6, <1>7, <1>8, <1>9

\* The source stays a tree, and files with a name exist, when one name changes.
LEMMA FilesStep ==
    ASSUME World, Files, NEW p \in Rel, NEW j \in Ino \cup {NoIno}, TgtStep(p, j),
           j # NoIno => inode'[j].kind # "none"
    PROVE  World' /\ Files'
<1>1. World'
  BY DEF World, TgtStep, SrcKept
<1>2. FilesExist(src, inode)' /\ Hollow(src, inode)'
  BY DEF Files, FilesExist, Hollow, TgtStep, SrcKept
<1>3. FilesExist(tgt, inode)'
  BY DEF Files, FilesExist, TgtStep, World
<1>4. IsTree(src, inode)'
  BY CutNames DEF Files, IsTree, IsDir, TgtStep, SrcKept
<1> QED
  BY <1>1, <1>2, <1>3, <1>4 DEF Files

LEMMA FilesSame ==
    ASSUME Files, UNCHANGED world
    PROVE  Files'
  BY DEF Files, FilesExist, Hollow, IsTree, IsDir, world

\* The same when a file of the target is written to.
LEMMA FilesWritten ==
    ASSUME World, Files, NEW p \in Rel, tgt[p] # NoIno, HasNot(src, tgt[p]), NEW d \in Nat,
           inode' = [inode EXCEPT ![tgt[p]].data = d], UNCHANGED <<src, tgt>>
    PROVE  World' /\ Files'
<1>1. /\ inode' \in [Ino -> InodeRecord] /\ SrcKept
      /\ \A i \in Ino : inode'[i].kind = inode[i].kind
  BY WriteFacts
<1>2. World'
  BY <1>1 DEF World
<1>3. FilesExist(src, inode)' /\ Hollow(src, inode)'
  <2>1. src' = src /\ \A q \in Rel : src[q] # NoIno => inode'[src[q]] = inode[src[q]]
    BY <1>1 DEF SrcKept
  <2> QED
    BY <2>1 DEF Files, FilesExist, Hollow
<1>4. FilesExist(tgt, inode)'
  BY <1>1 DEF Files, FilesExist, World
<1>5. IsTree(src, inode)'
  BY <1>1, CutNames DEF Files, IsTree, IsDir, SrcKept
<1> QED
  BY <1>2, <1>3, <1>4, <1>5 DEF Files

-----------------------------------------------------------------------------
(* The program and its stack of directories *)

Active == CpStates /\ Files /\ Levels /\ Position
Runs == CpStates /\ (Halted \/ (Files /\ Levels /\ Position))

LEMMA ActiveWorld ==
    ASSUME CpStates
    PROVE  World /\ tdev \in Device /\ Len(Args) \in Nat /\ argn \in Nat
           /\ stack \in Seq(Frame) /\ Len(stack) \in Nat /\ (stack # <<>> => Len(stack) >= 1)
           /\ Len(<<>>) = 0 /\ \A k \in 1..Len(stack) : stack[k] \in Frame
<1>1. Len(Args) \in Nat
  BY CpAssumption, LenProperties
<1>2. stack \in Seq(Frame)
  BY DEF CpStates
<1>3. Len(stack) \in Nat /\ \A k \in 1..Len(stack) : stack[k] \in Frame
  BY <1>2, LenProperties, ElementOfSeq
<1>4. (stack # <<>> => Len(stack) >= 1) /\ Len(<<>>) = 0
  BY <1>2, EmptySeq
<1> QED
  BY <1>1, <1>2, <1>3, <1>4 DEF CpStates, World

LEMMA PushFacts ==
    ASSUME CpStates, NEW f \in Frame, stack' = Append(stack, f)
    PROVE  /\ stack' \in Seq(Frame) /\ stack' # <<>>
           /\ Len(stack') = Len(stack) + 1
           /\ stack'[Len(stack) + 1] = f
           /\ \A k \in 1..Len(stack) : stack'[k] = stack[k]
  BY AppendFacts DEF CpStates

LEMMA PopFacts ==
    ASSUME CpStates, stack # <<>>, stack' = Front(stack)
    PROVE  /\ stack' \in Seq(Frame)
           /\ Len(stack') = Len(stack) - 1
           /\ \A k \in 1..Len(stack') : stack'[k] = stack[k] /\ k \in 1..Len(stack)
           /\ Len(stack) = 1 <=> stack' = <<>>
           /\ Last(stack) = stack[Len(stack)] /\ Last(stack) \in Frame
           /\ Len(stack) \in 1..Len(stack)
<1>1. /\ Front(stack) \in Seq(Frame)
      /\ Len(stack) \in Nat \ {0} /\ Len(Front(stack)) = Len(stack) - 1
      /\ \A i \in 1..Len(stack) - 1 : Front(stack)[i] = stack[i]
      /\ Last(stack) = stack[Len(stack)] /\ Last(stack) \in Frame
  BY FrontFacts DEF CpStates
<1>2. stack' \in Seq(Frame) /\ Len(stack') = Len(stack) - 1
  BY <1>1
<1>3. \A k \in 1..Len(stack') : stack'[k] = stack[k] /\ k \in 1..Len(stack)
  BY <1>1
<1>4. Len(stack) = 1 <=> stack' = <<>>
  BY <1>1, <1>2, EmptySeq
<1> QED
  BY <1>1, <1>2, <1>3, <1>4

LEMMA MarkFacts ==
    ASSUME CpStates, stack # <<>>, NEW q \in Rel,
           stack' = [stack EXCEPT ![Len(stack)].seen = @ \cup {q}]
    PROVE  /\ stack' \in Seq(Frame) /\ stack' # <<>> /\ Len(stack') = Len(stack)
           /\ \A k \in 1..Len(stack) :
                /\ stack'[k].dir = stack[k].dir /\ stack'[k].had = stack[k].had
                /\ stack'[k].seen = IF k = Len(stack) THEN stack[k].seen \cup {q} ELSE stack[k].seen
           /\ Last(stack) = stack[Len(stack)] /\ Len(stack) \in 1..Len(stack)
<1>1. PICK n : n = Len(stack)
  OBVIOUS
<1>2. n \in 1..Len(stack) /\ stack[n] \in Frame
  BY <1>1, ActiveWorld
<1>3. PICK f : f = [stack[n] EXCEPT !.seen = stack[n].seen \cup {q}]
  OBVIOUS
<1>4. f \in Frame /\ f.dir = stack[n].dir /\ f.had = stack[n].had
      /\ f.seen = stack[n].seen \cup {q}
  BY <1>2, <1>3 DEF Frame
<1>5. PICK s : s = stack
  OBVIOUS
<1>6. s \in Seq(Frame) /\ n \in 1..Len(s)
  BY <1>1, <1>2, <1>5 DEF CpStates
<1>7. stack' = [s EXCEPT ![n] = f]
  BY <1>1, <1>3, <1>5
<1>8. /\ stack' \in Seq(Frame) /\ Len(stack') = Len(s) /\ stack' # <<>>
      /\ \A j \in 1..Len(s) : stack'[j] = IF j = n THEN f ELSE s[j]
  <2>1. /\ [s EXCEPT ![n] = f] \in Seq(Frame) /\ Len([s EXCEPT ![n] = f]) = Len(s)
        /\ [s EXCEPT ![n] = f] # <<>>
        /\ \A j \in 1..Len(s) : [s EXCEPT ![n] = f][j] = IF j = n THEN f ELSE s[j]
    BY <1>4, <1>6, ReplacedFacts
  <2> QED
    BY <1>7, <2>1
<1>9. Last(stack) = stack[Len(stack)]
  BY DEF Last
<1>10. \A k \in 1..Len(stack) :
        /\ stack'[k].dir = stack[k].dir /\ stack'[k].had = stack[k].had
        /\ stack'[k].seen = IF k = Len(stack) THEN stack[k].seen \cup {q} ELSE stack[k].seen
  <2>1. ASSUME NEW k \in 1..Len(stack) PROVE stack'[k] = IF k = n THEN f ELSE stack[k]
    BY <1>5, <1>8
  <2>2. ASSUME NEW k \in 1..Len(stack)
        PROVE  /\ stack'[k].dir = stack[k].dir /\ stack'[k].had = stack[k].had
               /\ stack'[k].seen = IF k = Len(stack) THEN stack[k].seen \cup {q} ELSE stack[k].seen
    <3>1. CASE k = n
      <4>1. stack'[k] = f
        BY <2>1, <3>1
      <4> QED
        BY <1>1, <1>4, <3>1, <4>1
    <3>2. CASE k # n
      <4>1. stack'[k] = stack[k]
        BY <2>1, <3>2
      <4> QED
        BY <1>1, <3>2, <4>1
    <3> QED
      BY <3>1, <3>2
  <2> QED
    BY <2>2
<1> QED
  BY <1>1, <1>2, <1>5, <1>8, <1>9, <1>10

\* cpmv() or ln() returns before its end, or goes on without an entry.
Leaves ==
    /\ Return /\ UNCHANGED <<world, path, dsp, stack, linktab>> /\ Keep
    /\ errcnt' \in BOOLEAN /\ saverrs' = saverrs

LEMMA StopLeaves ==
    ASSUME Stop PROVE Leaves /\ errcnt' = TRUE
  BY DEF Stop, Fail, Leaves

LEMMA LeavesRuns ==
    ASSUME Active, cpat \in {"go", "rename", "copy", "ln"}, Leaves
    PROVE  Active' /\ (IF stack = <<>> THEN cpat' = "next" ELSE cpat' = "read")
<1>1. CpStates'
  BY DEF Active, CpStates, Leaves, Keep, fixed, cpHistory, world
<1>2. Files'
  BY FilesSame DEF Active, Leaves
<1>3. Level = 0 <=> stack = <<>>
  <2>1. Len(path) = Len(stack) + 1
    BY DEF Active, Levels, AtObject, AtTop
  <2> QED
    BY <2>1, ActiveWorld DEF Active, Level
<1>4. IF stack = <<>> THEN cpat' = "next" ELSE cpat' = "read"
  BY <1>3 DEF Leaves, Return
<1>5. UNCHANGED <<opt, argn, path, stack, linktab>>
  BY DEF Leaves, Keep, fixed
<1>6. Levels'
  BY <1>4, <1>5 DEF Active, Levels, Below, AtObject, AtFile, AtTop
<1>7. stack = <<>> => NoLinks
  BY DEF Active, Position
<1>8. argn >= 1 /\ argn <= Len(Args) /\ (opt.go = "ln" => NoLinks /\ stack = <<>>)
  <2>1. cpat = "ln" => stack = <<>>
    BY DEF Active, Levels, AtTop
  <2>2. opt.go = "ln" => NoLinks /\ stack = <<>>
    BY DEF Active, Position
  <2> QED
    BY <2>1, <2>2 DEF Active, Position
<1>9. Position'
  BY <1>4, <1>5, <1>7, <1>8 DEF Position, Labels, AtObject, AtFile, AtTop, NoLinks, Mv
<1> QED
  BY <1>1, <1>2, <1>4, <1>6, <1>9 DEF Active

\* The object stays the same while it is dealt with.
LEMMA LevelsOn ==
    ASSUME Levels, cpat \in AtObject \cup AtTop, cpat' \in AtObject \cup AtTop,
           cpat' \in AtTop => stack = <<>>, UNCHANGED <<argn, path, stack>>
    PROVE  Levels'
  BY DEF Levels, Below, AtObject, AtFile, AtTop

LEMMA LevelsFinish ==
    ASSUME CpStates, Levels, cpat \in AtFile, Finish(path), UNCHANGED <<argn, path, stack>>
    PROVE  Levels' /\ (IF stack = <<>> THEN cpat' = "last" ELSE cpat' = "read")
<1>1. Len(path) = Len(stack) + 1
  BY DEF Levels, AtObject
<1>2. IF stack = <<>> THEN cpat' = "last" ELSE cpat' = "read"
  BY <1>1, ActiveWorld DEF Finish
<1> QED
  BY <1>2 DEF Levels, Below, AtObject, AtFile, AtTop

LEMMA NextArgRuns ==
    ASSUME Active, NextArg
    PROVE  Runs'
<1>1. cpat = "next" /\ stack = <<>> /\ NoLinks /\ argn \in Nat /\ argn <= Len(Args)
      /\ Len(Args) \in Nat
  BY ActiveWorld DEF Active, NextArg, Levels, Position, AtTop
<1>2. UNCHANGED <<src, tgt, inode, tdev, opt, stack, linktab, added>>
  BY DEF NextArg, world, fixed, cpHistory
<1>3. argn' = argn + 1 /\ errcnt' = FALSE /\ saverrs' = (saverrs \/ errcnt)
  BY DEF NextArg
<1>4. CASE argn = Len(Args)
  <2>1. cpat' = "end" /\ UNCHANGED <<path, dsp>>
    BY <1>4 DEF NextArg
  <2>2. argn' \in 0..Len(Args) + 1
    BY <1>1, <1>3
  <2>3. CpStates'
    BY <1>2, <1>3, <2>1, <2>2 DEF Active, CpStates
  <2> QED
    BY <2>1, <2>3 DEF Runs, Halted
<1>5. CASE argn # Len(Args)
  <2>1. cpat' = "go" /\ path' = Args[argn + 1] /\ dsp' = tgt[path']
    BY <1>5 DEF NextArg
  <2>2. argn + 1 \in 1..Len(Args) /\ argn' \in 0..Len(Args) + 1
    BY <1>1, <1>3, <1>5
  <2>3. path' \in Rel /\ Len(path') = 1
    BY <2>1, <2>2, CpAssumption, ElementOfSeq, LenProperties
  <2>4. CpStates'
    BY <1>2, <1>3, <2>1, <2>2, <2>3 DEF Active, CpStates
  <2>5. Files'
    BY <1>2, FilesSame DEF Active, world
  <2>6. path'[1] = Args[argn'][1] /\ Len(path') = Len(stack') + 1
    BY <1>1, <1>2, <1>3, <2>1, <2>3, ActiveWorld DEF Active
  <2>7. Len(stack') = 0 /\ stack' = <<>>
    BY <1>1, <1>2, ActiveWorld DEF Active
  <2>8. Levels'
    BY <2>1, <2>3, <2>6, <2>7 DEF Levels, Below, AtObject, AtFile, AtTop
  <2>9. NoLinks' /\ opt' = opt
    BY <1>1, <1>2 DEF NoLinks
  <2>10. argn' <= Len(Args) /\ argn' >= 1
    BY <1>3, <2>2
  <2>11. Position'
    BY <1>2, <2>1, <2>7, <2>9, <2>10 DEF Position, Labels, AtObject, AtFile, AtTop, Mv
  <2> QED
    BY <2>4, <2>5, <2>8, <2>11 DEF Runs
<1> QED
  BY <1>4, <1>5

LEMMA GoRuns ==
    ASSUME Active, Go
    PROVE  Active'
<1>1. cpat = "go"
  BY DEF Go
<1>2. CASE Stop
  BY <1>1, <1>2, StopLeaves, LeavesRuns
<1>3. CASE /\ ~Missing /\ ~Identical
           /\ Goto(IF opt.go = "ln" THEN "ln"
                   ELSE IF Mv /\ Level = 0 THEN "rename" ELSE "copy")
           /\ UNCHANGED <<world, dsp>>
  <2>1. UNCHANGED <<src, tgt, inode, tdev, opt, argn, path, dsp, stack, linktab, errcnt, saverrs, added>>
    BY <1>3 DEF Goto, Keep, world, fixed, errors, cpHistory
  <2>2. CpStates' /\ Files'
    BY <2>1, FilesSame DEF Active, CpStates, world
  <2>3. cpat' = IF opt.go = "ln" THEN "ln" ELSE IF Mv /\ Level = 0 THEN "rename" ELSE "copy"
    BY <1>3 DEF Goto
  <2>4. Level = 0 => stack = <<>>
    <3>1. Len(path) = Len(stack) + 1
      BY <1>1 DEF Active, Levels, AtObject
    <3> QED
      BY <3>1, ActiveWorld DEF Active, Level
  <2>5. opt.go = "ln" => stack = <<>>
    BY DEF Active, Position
  <2>6. Levels'
    BY <1>1, <2>1, <2>3, <2>4, <2>5, LevelsOn DEF Active, AtObject, AtTop
  <2>7. stack = <<>> => NoLinks
    BY <1>1 DEF Active, Position
  <2>8. argn <= Len(Args) /\ argn >= 1 /\ dsp = tgt[path]
        /\ (opt.go = "ln" => NoLinks)
    BY <1>1 DEF Active, Position
  <2>9. opt.go # "ln" => src[path] # NoIno
    BY <1>3 DEF Missing
  <2>10. Position'
    BY <2>1, <2>3, <2>5, <2>7, <2>8, <2>9 DEF Position, Labels, AtObject, AtFile, AtTop, NoLinks, Mv
  <2> QED
    BY <2>2, <2>6, <2>10 DEF Active
<1> QED
  BY <1>2, <1>3 DEF Go

LEMMA DeclineLeaves ==
    ASSUME Active, Decline
    PROVE  Leaves /\ cpat \in {"rename", "copy"} /\ dsp # NoIno /\ errcnt' = errcnt
  BY DEF Active, Decline, Asked, Leaves, errors, CpStates

LEMMA DeclineRuns ==
    ASSUME Active, Decline
    PROVE  Active'
  BY DeclineLeaves, LeavesRuns

\* What rename() changes: the names below the operand.
Renamed ==
    /\ Return
    /\ LET moved(p) == p \in Under(path)
       IN  Linked(inode, [p \in Rel |-> IF moved(p) THEN NoIno ELSE src[p]],
                         [p \in Rel |-> IF moved(p) THEN src[p] ELSE tgt[p]])
    /\ UNCHANGED <<path, dsp, stack, linktab, errors>> /\ Keep

LEMMA RenamedFacts ==
    ASSUME World, path \in Rel, Renamed
    PROVE  /\ World'
           /\ \A p \in Rel : src'[p] = IF IsPrefix(path, p) THEN NoIno ELSE src[p]
           /\ \A p \in Rel : tgt'[p] = IF IsPrefix(path, p) THEN src[p] ELSE tgt[p]
           /\ \A p \in Rel : src'[p] # NoIno => inode'[src'[p]] = inode[src'[p]]
           /\ \A p \in Rel : tgt'[p] # NoIno => inode'[tgt'[p]] = inode[tgt'[p]]
<1>1. PICK s : s = [p \in Rel |-> IF p \in Under(path) THEN NoIno ELSE src[p]]
  OBVIOUS
<1>2. PICK t : t = [p \in Rel |-> IF p \in Under(path) THEN src[p] ELSE tgt[p]]
  OBVIOUS
<1>3. s \in [Rel -> Ino \cup {NoIno}] /\ t \in [Rel -> Ino \cup {NoIno}]
  BY <1>1, <1>2 DEF World
<1>4. Linked(inode, s, t)
  BY <1>1, <1>2 DEF Renamed
<1>5. /\ src' = s /\ tgt' = t /\ inode' \in [Ino -> InodeRecord]
      /\ \A q \in Rel : s[q] # NoIno => inode'[s[q]] = inode[s[q]]
      /\ \A q \in Rel : t[q] # NoIno => inode'[t[q]] = inode[t[q]]
  BY <1>3, <1>4, LinkedFacts DEF World
<1>6. \A p \in Rel : p \in Under(path) <=> IsPrefix(path, p)
  BY DEF Under
<1> QED
  BY <1>1, <1>2, <1>3, <1>5, <1>6 DEF World

LEMMA RenamedRuns ==
    ASSUME Active, cpat = "rename", Renamed
    PROVE  Active' /\ cpat' = "next" /\ stack = <<>>
<1>1. stack = <<>> /\ path \in Rel /\ Len(path) = Len(stack) + 1 /\ World
  BY ActiveWorld DEF Active, Levels, AtTop
<1>2. UNCHANGED <<tdev, opt, argn, path, dsp, stack, linktab, errcnt, saverrs, added>>
  BY DEF Renamed, Keep, fixed, errors, cpHistory
<1>3. cpat' = "next"
  BY <1>1, ActiveWorld DEF Renamed, Return, Level, Active
<1>4. /\ World'
      /\ \A p \in Rel : src'[p] = IF IsPrefix(path, p) THEN NoIno ELSE src[p]
      /\ \A p \in Rel : tgt'[p] = IF IsPrefix(path, p) THEN src[p] ELSE tgt[p]
      /\ \A p \in Rel : src'[p] # NoIno => inode'[src'[p]] = inode[src'[p]]
      /\ \A p \in Rel : tgt'[p] # NoIno => inode'[tgt'[p]] = inode[tgt'[p]]
  BY <1>1, RenamedFacts
<1>5. CpStates'
  BY <1>2, <1>4 DEF Active, CpStates, World
<1>6. FilesExist(src, inode)' /\ Hollow(src, inode)' /\ FilesExist(tgt, inode)'
  BY <1>4 DEF Active, Files, FilesExist, Hollow
<1>7. IsTree(src, inode)'
  <2>1. ASSUME NEW p \in Rel, src'[p] # NoIno, NEW n \in 1..Len(p) - 1
        PROVE  IsDir(inode', src'[SubSeq(p, 1, n)])
    <3>1. PICK q : q = SubSeq(p, 1, n)
      OBVIOUS
    <3>2. q \in Rel /\ IsPrefix(q, p)
      BY <3>1, CutNames
    <3>3. ~IsPrefix(path, p) /\ src[p] # NoIno
      BY <1>4, <2>1
    <3>4. ~IsPrefix(path, q)
      BY <1>1, <3>2, <3>3, PrefixNames
    <3>5. IsDir(inode, src[q])
      BY <3>1, <3>3 DEF Active, Files, IsTree
    <3>6. src'[q] = src[q] /\ src[q] # NoIno /\ inode'[src'[q]] = inode[src'[q]]
      BY <1>4, <3>2, <3>4, <3>5 DEF IsDir
    <3> QED
      BY <3>1, <3>5, <3>6 DEF IsDir
  <2> QED
    BY <2>1 DEF IsTree
<1>8. Levels'
  BY <1>1, <1>2, <1>3 DEF Active, Levels, Below, AtObject, AtFile, AtTop
<1>9. Position'
  <2>1. NoLinks /\ argn <= Len(Args) /\ argn >= 1
    BY <1>1 DEF Active, Position
  <2> QED
    BY <1>1, <1>2, <1>3, <2>1 DEF Position, Labels, AtObject, AtFile, AtTop, NoLinks, Mv
<1> QED
  BY <1>1, <1>3, <1>5, <1>6, <1>7, <1>8, <1>9 DEF Active, Files

LEMMA RenameRuns ==
    ASSUME Active, Rename
    PROVE  Active'
<1>1. Renamed \/ Stop
  BY DEF Rename, Renamed
<1>2. cpat = "rename"
  BY DEF Rename
<1> QED
  BY <1>1, <1>2, RenamedRuns, StopLeaves, LeavesRuns

\* EXDEV: nothing is at the target, or it has been removed, or mv gives up.
LEMMA RenameAcrossCases ==
    ASSUME Active, RenameAcross
    PROVE  /\ cpat = "rename"
           /\ \/ /\ dsp = NoIno /\ UNCHANGED <<world, dsp>> /\ Goto("copy")
              \/ /\ Kids(tgt, path) = {} /\ UnlinkTgt(path) /\ dsp' = NoIno /\ Goto("copy")
              \/ Leaves
<1>1. CASE Stop
  BY <1>1, StopLeaves DEF RenameAcross
<1>2. CASE Return /\ UNCHANGED <<world, path, dsp, stack, linktab, errors>> /\ Keep
  BY <1>2 DEF RenameAcross, Active, CpStates, Leaves, errors
<1> QED
  BY <1>1, <1>2 DEF RenameAcross

LEMMA RenameAcrossRuns ==
    ASSUME Active, RenameAcross
    PROVE  Active'
<1>1. cpat = "rename" /\ stack = <<>> /\ path \in Rel /\ World
  BY RenameAcrossCases, ActiveWorld DEF Active, Levels, AtTop
<1>2. CASE Leaves
  BY <1>1, <1>2, LeavesRuns
<1>3. ASSUME Goto("copy"), dsp' \in Ino \cup {NoIno}, dsp' = tgt'[path], World', Files', SrcKept
      PROVE  Active'
  <2>1. /\ cpat' = "copy"
        /\ UNCHANGED <<tdev, opt, argn, path, stack, linktab, errcnt, saverrs, added>>
    BY <1>3 DEF Goto, Keep, fixed, errors, cpHistory
  <2>2. CpStates'
    BY <1>3, <2>1 DEF Active, CpStates, World
  <2>3. Levels'
    BY <1>1, <2>1, LevelsOn DEF Active, AtObject, AtTop
  <2>4. NoLinks /\ argn <= Len(Args) /\ argn >= 1 /\ opt.go # "ln" /\ src'[path] # NoIno
    BY <1>1, <1>3 DEF Active, Position, Mv, SrcKept
  <2>5. Position'
    BY <1>3, <2>1, <2>4 DEF Position, Labels, AtObject, AtFile, AtTop, NoLinks, Mv
  <2> QED
    BY <1>3, <2>2, <2>3, <2>5 DEF Active
<1>4. CASE dsp = NoIno /\ UNCHANGED <<world, dsp>> /\ Goto("copy")
  <2>1. path' = path /\ dsp = tgt[path]
    BY <1>1, <1>4 DEF Goto, Active, Position
  <2>2. World' /\ Files' /\ SrcKept
    BY <1>1, <1>4, FilesSame, SameFacts DEF Active, World, world
  <2> QED
    BY <1>3, <1>4, <2>1, <2>2 DEF world
<1>5. CASE UnlinkTgt(path) /\ dsp' = NoIno /\ Goto("copy")
  <2>1. TgtStep(path, NoIno)
    BY <1>1, <1>5, UnlinkTgtFacts
  <2>2. World' /\ Files' /\ SrcKept
    BY <1>1, <2>1, FilesStep DEF Active, TgtStep
  <2>3. tgt'[path] = NoIno
    BY <1>1, <2>1 DEF TgtStep, World
  <2> QED
    BY <1>3, <1>5, <2>2, <2>3
<1> QED
  BY <1>2, <1>4, <1>5, RenameAcrossCases

LEMMA CopyDirRefusedLeaves ==
    ASSUME CopyDirRefused
    PROVE  cpat = "copy" /\ Leaves /\ errcnt' = TRUE
  BY StopLeaves DEF CopyDirRefused

\* What is in a directory when it is opened.
LEMMA OpenedFrame ==
    ASSUME NEW d \in Rel, NEW made \in BOOLEAN
    PROVE  [dir |-> d, had |-> Kids(src, d), seen |-> {}, made |-> made] \in Frame
  BY DEF Frame, Kids

\* mkdir(), unless the directory is there.
LEMMA CopyDirMakes ==
    ASSUME Active, CopyDir
    PROVE  /\ path \in Rel /\ World' /\ Files'
           /\ \/ dsp # NoIno /\ UNCHANGED world /\ Kind(dsp) = "dir"
              \/ \E i \in Ino : /\ dsp = NoIno /\ i # NoIno /\ HasNot(src, i) /\ HasNot(tgt, i)
                                /\ TgtStep(path, i)
                                /\ inode'[i] = [kind |-> "dir", data |-> NoData]
<1>1. path \in Rel /\ World /\ tdev \in Device
  BY ActiveWorld DEF Active, CopyDir, Levels, AtObject
<1>2. CASE dsp # NoIno
  <2>1. UNCHANGED world /\ Kind(dsp) = "dir"
    BY <1>2 DEF CopyDir
  <2> QED
    BY <1>1, <1>2, <2>1, FilesSame DEF Active, World, world
<1>3. CASE dsp = NoIno
  <2>1. Make(path, "dir", NoData) /\ "dir" \in Kinds /\ NoData \in Nat
    BY <1>3 DEF CopyDir, Kinds, NoData
  <2>2. PICK i \in Ino : /\ i # NoIno /\ HasNot(src, i) /\ HasNot(tgt, i)
                         /\ TgtStep(path, i)
                         /\ inode'[i] = [kind |-> "dir", data |-> NoData]
    BY <1>1, <2>1, MakeFacts DEF Active, Files
  <2>3. inode'[i].kind # "none"
    BY <2>2
  <2>4. World' /\ Files'
    BY <1>1, <2>2, <2>3, FilesStep DEF Active
  <2> QED
    BY <1>1, <1>3, <2>2, <2>4
<1> QED
  BY <1>2, <1>3

LEMMA CopyDirRuns ==
    ASSUME Active, CopyDir
    PROVE  Active'
<1>1. /\ cpat = "copy" /\ path \in Rel /\ Below(path) /\ Len(path) = Len(stack) + 1
      /\ argn <= Len(Args) /\ argn >= 1 /\ opt.go # "ln" /\ (stack = <<>> => NoLinks)
  BY DEF Active, CopyDir, Levels, Position, AtObject
<1>2. UNCHANGED <<tdev, opt, argn, path, dsp, linktab, added>>
  BY DEF CopyDir, fixed
<1>3. World' /\ Files'
  BY CopyDirMakes
<1>4. CASE /\ stack' = Append(stack, [dir |-> path, had |-> Kids(src, path),
                                      seen |-> {}, made |-> dsp = NoIno])
           /\ cpat' = "read"
           /\ UNCHANGED errors
  <2>1. PICK f \in Frame : f = [dir |-> path, had |-> Kids(src, path), seen |-> {}, made |-> dsp = NoIno]
    BY <1>1, OpenedFrame
  <2>2. /\ stack' \in Seq(Frame) /\ stack' # <<>> /\ Len(stack') = Len(stack) + 1
        /\ stack'[Len(stack) + 1] = f
        /\ \A k \in 1..Len(stack) : stack'[k] = stack[k]
    BY <1>4, <2>1, PushFacts DEF Active
  <2>3. CpStates'
    BY <1>2, <1>3, <1>4, <2>2 DEF Active, CpStates, World, errors
  <2>4. \A k \in 1..Len(stack') : Below(stack[k].dir)' /\ Len(stack'[k].dir) = k
    <3>1. ASSUME NEW k \in 1..Len(stack) PROVE Below(stack[k].dir)' /\ Len(stack'[k].dir) = k
      BY <1>2, <2>2 DEF Active, Levels, Below
    <3>2. stack'[Len(stack) + 1].dir = path
      BY <2>1, <2>2
    <3>3. Below(path)'
      BY <1>1, <1>2 DEF Below
    <3>4. ASSUME NEW k \in 1..Len(stack') PROVE k \in 1..Len(stack) \/ k = Len(stack) + 1
      BY <2>2, ActiveWorld DEF Active
    <3>5. ASSUME NEW k \in 1..Len(stack'), k = Len(stack) + 1
          PROVE  Below(stack[k].dir)' /\ Len(stack'[k].dir) = k
      <4>1. stack'[k].dir = path
        BY <3>2, <3>5
      <4> QED
        BY <1>1, <1>2, <3>5, <4>1 DEF Below
    <3> QED
      BY <3>1, <3>4, <3>5
  <2>5. Levels'
    BY <1>4, <2>2, <2>4 DEF Levels, AtObject, AtFile, AtTop
  <2>6. Position'
    BY <1>1, <1>2, <1>4 DEF Position, Labels, AtObject, AtFile, AtTop, Mv
  <2> QED
    BY <1>3, <2>3, <2>5, <2>6 DEF Active
<1>5. CASE Fail /\ Return /\ UNCHANGED stack
  <2>1. CpStates'
    BY <1>2, <1>3, <1>5 DEF Active, CpStates, World, Fail
  <2>2. IF stack = <<>> THEN cpat' = "next" ELSE cpat' = "read"
    BY <1>1, <1>5, ActiveWorld DEF Return, Level, Active
  <2>3. Levels'
    BY <1>2, <1>5, <2>2 DEF Active, Levels, Below, AtObject, AtFile, AtTop
  <2>4. Position'
    BY <1>1, <1>2, <2>2 DEF Position, Labels, AtObject, AtFile, AtTop, NoLinks, Mv
  <2> QED
    BY <1>3, <2>1, <2>3, <2>4 DEF Active
<1> QED
  BY <1>4, <1>5 DEF CopyDir

\* readdir() finds an entry, or the end.
Entry(q) ==
    /\ cpat = "read" /\ q \in Kids(src, Last(stack).dir) \ Last(stack).seen
    /\ stack' = [stack EXCEPT ![Len(stack)].seen = @ \cup {q}]
    /\ path' = q /\ dsp' = tgt[q] /\ cpat' = "go"
    /\ UNCHANGED errors
    /\ UNCHANGED <<world, linktab>> /\ Keep
NoEntry ==
    /\ cpat = "read"
    /\ (Kids(src, Last(stack).dir) \ Last(stack).seen) \cap Last(stack).had = {}
    /\ stack' = Front(stack) /\ path' = Last(stack).dir /\ dsp' = NoIno
    /\ Finish(Last(stack).dir)
    /\ Permissions \/ UNCHANGED errors
    /\ UNCHANGED <<world, linktab>> /\ Keep

LEMMA ReadDirCases ==
    ASSUME ReadDir
    PROVE  (\E q : Entry(q)) \/ NoEntry
<1>1. CASE \E q \in Kids(src, Last(stack).dir) \ Last(stack).seen :
              /\ stack' = [stack EXCEPT ![Len(stack)].seen = @ \cup {q}]
              /\ path' = q /\ dsp' = tgt[q]
              /\ cpat' = "go"
              /\ UNCHANGED errors
  BY <1>1 DEF ReadDir, Entry
<1>2. CASE /\ (Kids(src, Last(stack).dir) \ Last(stack).seen) \cap Last(stack).had = {}
           /\ stack' = Front(stack)
           /\ path' = Last(stack).dir /\ dsp' = NoIno
           /\ Finish(Last(stack).dir)
           /\ IF Last(stack).made THEN Permissions ELSE UNCHANGED errors
  BY <1>2 DEF ReadDir, NoEntry
<1> QED
  BY <1>1, <1>2 DEF ReadDir

\* An error is remembered.
LEMMA PermissionsErrors ==
    ASSUME errcnt \in BOOLEAN, Permissions \/ UNCHANGED errors
    PROVE  /\ errcnt' \in BOOLEAN /\ saverrs' = saverrs
           /\ (Mv => errcnt' = errcnt) /\ (errcnt => errcnt')
  BY DEF Permissions, errors, Fail

LEMMA EntryRuns ==
    ASSUME Active, NEW q, Entry(q)
    PROVE  /\ Active'
           /\ q \in Rel /\ src[q] # NoIno /\ ChildOf(stack[Len(stack)].dir, q)
           /\ Len(stack) \in 1..Len(stack)
<1>1. stack # <<>> /\ Last(stack) = stack[Len(stack)]
  BY DEF Active, Entry, Levels, Last
<1>2. q \in Rel /\ src[q] # NoIno /\ ChildOf(stack[Len(stack)].dir, q)
  BY <1>1 DEF Entry, Kids, ChildOf
<1>3. UNCHANGED <<src, tgt, inode, tdev, opt, argn, linktab, errcnt, saverrs, added>>
  BY DEF Entry, Keep, world, fixed, errors, cpHistory
<1>4. stack' = [stack EXCEPT ![Len(stack)].seen = @ \cup {q}]
      /\ path' = q /\ dsp' = tgt[q] /\ cpat' = "go"
  BY DEF Entry
<1>5. /\ stack' \in Seq(Frame) /\ stack' # <<>> /\ Len(stack') = Len(stack)
      /\ \A k \in 1..Len(stack) :
           /\ stack'[k].dir = stack[k].dir
           /\ stack'[k].seen = IF k = Len(stack) THEN stack[k].seen \cup {q} ELSE stack[k].seen
      /\ Len(stack) \in 1..Len(stack)
  BY <1>1, <1>2, <1>4, MarkFacts DEF Active
<1>6. CpStates'
  BY <1>2, <1>3, <1>4, <1>5 DEF Active, CpStates
<1>7. Files'
  BY <1>3, FilesSame DEF Active, world
<1>8. PICK d \in Rel : d = stack[Len(stack)].dir
  BY <1>5, ActiveWorld DEF Active, Frame
<1>9. /\ Below(d) /\ Len(d) = Len(stack)
      /\ \A k \in 1..Len(stack) : Below(stack[k].dir) /\ Len(stack[k].dir) = k
  BY <1>5, <1>8 DEF Active, Levels
<1>10. d[1] = q[1] /\ Len(q) = Len(d) + 1
  BY <1>2, <1>8, ChildCuts
<1>11. Below(q)' /\ Len(q) = Len(stack') + 1
  BY <1>3, <1>5, <1>9, <1>10 DEF Below
<1>12. \A k \in 1..Len(stack') : Below(stack[k].dir)' /\ Len(stack'[k].dir) = k
  BY <1>3, <1>5, <1>9 DEF Below
<1>13. q \in stack'[Len(stack')].seen /\ ChildOf(stack'[Len(stack')].dir, q)
  BY <1>2, <1>5
<1>14. Levels'
  BY <1>2, <1>4, <1>5, <1>11, <1>12, <1>13 DEF Levels, AtObject, AtFile, AtTop
<1>15. argn <= Len(Args) /\ argn >= 1 /\ opt.go # "ln"
  BY <1>1 DEF Active, Position, Entry
<1>16. Position'
  BY <1>3, <1>4, <1>5, <1>15 DEF Position, Labels, AtObject, AtFile, AtTop, Mv
<1> QED
  BY <1>2, <1>5, <1>6, <1>7, <1>14, <1>16 DEF Active

LEMMA NoEntryRuns ==
    ASSUME Active, NoEntry
    PROVE  Active' /\ cpat' \in {"last", "read"}
<1>1. stack # <<>>
  BY DEF Active, NoEntry, Levels
<1>2. /\ stack' \in Seq(Frame)
      /\ Len(stack') = Len(stack) - 1
      /\ \A k \in 1..Len(stack') : stack'[k] = stack[k] /\ k \in 1..Len(stack)
      /\ Len(stack) = 1 <=> stack' = <<>>
      /\ Last(stack) = stack[Len(stack)] /\ Last(stack) \in Frame
      /\ Len(stack) \in 1..Len(stack)
  BY <1>1, PopFacts DEF Active, NoEntry
<1>3. PICK d \in Rel : d = Last(stack).dir
  BY <1>2 DEF Frame
<1>4. Below(d) /\ Len(d) = Len(stack)
  BY <1>2, <1>3 DEF Active, Levels
<1>5. UNCHANGED <<src, tgt, inode, tdev, opt, argn, linktab, added>>
  BY DEF NoEntry, Keep, world, fixed, cpHistory
<1>6. path' = d /\ dsp' = NoIno /\ (IF Len(d) = 1 THEN cpat' = "last" ELSE cpat' = "read")
  BY <1>3 DEF NoEntry, Finish
<1>7. errcnt' \in BOOLEAN /\ saverrs' = saverrs
  BY PermissionsErrors DEF NoEntry, Active, CpStates
<1>8. CpStates'
  BY <1>2, <1>5, <1>6, <1>7 DEF Active, CpStates
<1>9. Files'
  BY <1>5, FilesSame DEF Active, world
<1>10. \A k \in 1..Len(stack') : Below(stack[k].dir)' /\ Len(stack'[k].dir) = k
  BY <1>2, <1>5 DEF Active, Levels, Below
<1>11. Below(d)' /\ (cpat' = "last" <=> stack' = <<>>) /\ cpat' \in {"last", "read"}
  BY <1>2, <1>4, <1>5, <1>6 DEF Below
<1>12. cpat' = "last" => Len(d) = Len(stack') + 1
  BY <1>2, <1>4, ActiveWorld DEF Active
<1>13. Levels'
  BY <1>6, <1>10, <1>11, <1>12 DEF Levels, Below, AtObject, AtFile, AtTop
<1>14. argn <= Len(Args) /\ argn >= 1 /\ opt.go # "ln"
  BY <1>1 DEF Active, Position, NoEntry
<1>15. Position'
  BY <1>5, <1>11, <1>14 DEF Position, Labels, AtObject, AtFile, AtTop, Mv
<1> QED
  BY <1>8, <1>9, <1>11, <1>13, <1>15 DEF Active

\* While a file is copied, only the file system, the table of linked files and
\* the errors change.
SameObject == UNCHANGED <<tdev, opt, argn, path, dsp, stack, saverrs, added, orig, owed>>

LEMMA AtFileFacts ==
    ASSUME Active, cpat \in {"copy"} \cup AtFile
    PROVE  /\ World /\ tdev \in Device /\ path \in Rel /\ Below(path)
           /\ src[path] \in Ino /\ src[path] # NoIno
           /\ argn <= Len(Args) /\ argn >= 1 /\ opt.go # "ln"
<1>1. path \in Rel /\ Below(path) /\ src[path] # NoIno
      /\ argn <= Len(Args) /\ argn >= 1 /\ opt.go # "ln"
  BY DEF Active, Levels, Position, AtObject, AtFile
<1>2. World /\ tdev \in Device
  BY ActiveWorld DEF Active
<1> QED
  BY <1>1, <1>2 DEF World

\* One step of copying a file, and the one after it.
LEMMA FileGoesOn ==
    ASSUME Active, cpat \in {"copy"} \cup AtFile, cpat' \in AtFile, SameObject,
           linktab' \in [Ino -> Rel \cup {NoPath}], errcnt' \in BOOLEAN, World', Files',
           src'[path] # NoIno, cpat' = "data" => tgt'[path] # NoIno
    PROVE  Active'
<1>1. CpStates'
  BY DEF Active, CpStates, SameObject, World
<1>2. Levels'
  BY LevelsOn DEF Active, SameObject, AtObject, AtFile, AtTop
<1>3. argn <= Len(Args) /\ argn >= 1 /\ opt.go # "ln"
  BY AtFileFacts
<1>4. Position'
  BY <1>3 DEF Position, Labels, AtObject, AtFile, AtTop, Mv, SameObject
<1> QED
  BY <1>1, <1>2, <1>4 DEF Active

LEMMA FileEnds ==
    ASSUME Active, cpat \in AtFile, Finish(path), SameObject, UNCHANGED linktab,
           errcnt' \in BOOLEAN, World', Files'
    PROVE  Active' /\ cpat' \in {"last", "read"}
<1>1. CpStates'
  BY DEF Active, CpStates, SameObject, World
<1>2. Levels' /\ (IF stack = <<>> THEN cpat' = "last" ELSE cpat' = "read")
  BY LevelsFinish DEF Active, SameObject
<1>3. argn <= Len(Args) /\ argn >= 1 /\ opt.go # "ln"
  BY AtFileFacts
<1>4. Position'
  BY <1>2, <1>3 DEF Position, Labels, AtObject, AtFile, AtTop, Mv, SameObject
<1> QED
  BY <1>1, <1>2, <1>4 DEF Active

LEMMA CopyFileRuns ==
    ASSUME Active, CopyFile
    PROVE  Active' /\ cpat' \in {"canlink", "creat", "special"} /\ SameObject
<1>1. cpat = "copy" /\ cpat' \in {"canlink", "creat", "special"}
  BY DEF CopyFile, Goto, Copying
<1>2. SameObject /\ UNCHANGED <<src, tgt, inode, linktab, errcnt>>
  BY DEF CopyFile, Goto, Keep, SameObject, world, fixed, errors, cpHistory
<1>3. World' /\ Files'
  BY <1>1, <1>2, AtFileFacts, FilesSame DEF Active, World, world
<1>4. src'[path] # NoIno /\ linktab' \in [Ino -> Rel \cup {NoPath}] /\ errcnt' \in BOOLEAN
  BY <1>1, <1>2, AtFileFacts DEF Active, CpStates
<1> QED
  BY <1>1, <1>2, <1>3, <1>4, FileGoesOn DEF AtFile

\* canlink()
FirstName ==
    /\ linktab[src[path]] = NoPath
    /\ linktab' = [linktab EXCEPT ![src[path]] = path]
    /\ cpat' = Copying
    /\ UNCHANGED world
OtherName ==
    /\ linktab[src[path]] # NoPath /\ tgt[linktab[src[path]]] # NoIno /\ tgt[path] = NoIno
    /\ Linked(inode, src, [tgt EXCEPT ![path] = tgt[linktab[src[path]]]])
    /\ Finish(path)
    /\ UNCHANGED linktab
NotLinked ==
    /\ linktab[src[path]] # NoPath
    /\ cpat' = Copying /\ apart' = TRUE
    /\ UNCHANGED <<world, linktab>>

LEMMA CanLinkCases ==
    ASSUME CanLink
    PROVE  /\ cpat = "canlink" /\ SameObject /\ errcnt' = errcnt
           /\ (FirstName /\ UNCHANGED apart) \/ (OtherName /\ UNCHANGED apart) \/ NotLinked
<1>1. SameObject /\ errcnt' = errcnt
  BY DEF CanLink, SameObject, fixed, errors
<1>2. (FirstName /\ UNCHANGED apart) \/ (OtherName /\ UNCHANGED apart) \/ NotLinked
  BY DEF CanLink, FirstName, OtherName, NotLinked
<1> QED
  BY <1>1, <1>2 DEF CanLink

LEMMA OtherNameFacts ==
    ASSUME Active, cpat = "canlink", OtherName
    PROVE  \E j \in Ino :
               /\ j = tgt[linktab[src[path]]] /\ linktab[src[path]] \in Rel
               /\ TgtStep(path, j) /\ inode'[j] = inode[j]
<1>1. World /\ path \in Rel /\ src[path] \in Ino
  BY AtFileFacts DEF AtFile
<1>2. linktab[src[path]] \in Rel /\ tgt[linktab[src[path]]] \in Ino
  BY <1>1 DEF Active, CpStates, World, OtherName
<1>3. PICK j \in Ino : j = tgt[linktab[src[path]]]
  BY <1>2
<1>4. Linked(inode, src, [tgt EXCEPT ![path] = j]) /\ j # NoIno
  BY <1>3 DEF OtherName
<1>5. TgtStep(path, j) /\ inode'[j] = inode[j]
  BY <1>1, <1>4, RelinkFacts
<1> QED
  BY <1>2, <1>3, <1>5

LEMMA CanLinkRuns ==
    ASSUME Active, CanLink
    PROVE  Active'
<1>1. /\ cpat = "canlink" /\ SameObject /\ errcnt' = errcnt
      /\ FirstName \/ OtherName \/ NotLinked
  BY CanLinkCases
<1>2. World /\ path \in Rel /\ src[path] \in Ino /\ src[path] # NoIno
  BY <1>1, AtFileFacts DEF AtFile
<1>3. errcnt' \in BOOLEAN
  BY <1>1 DEF Active, CpStates
<1>4. CASE FirstName \/ NotLinked
  <2>1. cpat' \in {"creat", "special"} /\ UNCHANGED world
    BY <1>4 DEF FirstName, NotLinked, Copying
  <2>2. linktab' \in [Ino -> Rel \cup {NoPath}]
    BY <1>2, <1>4 DEF FirstName, NotLinked, Active, CpStates
  <2>3. World' /\ Files' /\ src'[path] # NoIno
    BY <1>2, <2>1, FilesSame DEF Active, World, world
  <2> QED
    BY <1>1, <1>3, <2>1, <2>2, <2>3, FileGoesOn DEF AtFile
<1>5. CASE OtherName
  <2>1. PICK j \in Ino : TgtStep(path, j) /\ inode'[j] = inode[j] /\ j = tgt[linktab[src[path]]]
                         /\ linktab[src[path]] \in Rel
    BY <1>1, <1>5, OtherNameFacts
  <2>2. inode'[j].kind # "none"
    BY <1>5, <2>1 DEF Active, Files, FilesExist, OtherName
  <2>3. World' /\ Files'
    BY <1>2, <2>1, <2>2, FilesStep DEF Active
  <2>4. Finish(path) /\ UNCHANGED linktab
    BY <1>5 DEF OtherName
  <2> QED
    BY <1>1, <1>3, <2>3, <2>4, FileEnds DEF AtFile
<1> QED
  BY <1>1, <1>4, <1>5

\* filecopy(): a new file, or one that is emptied, or a failure.
NewFile ==
    /\ tgt[path] = NoIno \/ ~Mv
    /\ Make(path, "reg", NoData)
    /\ cpat' = "data" /\ UNCHANGED errors
Emptied ==
    /\ tgt[path] # NoIno
    /\ UNCHANGED <<src, tgt>> /\ inode' = [inode EXCEPT ![tgt[path]].data = NoData]
    /\ cpat' = "data" /\ UNCHANGED errors
FileFails == Finish(path) /\ Fail /\ UNCHANGED world

LEMMA CreatCases ==
    ASSUME Creat
    PROVE  /\ cpat = "creat" /\ SameObject /\ UNCHANGED <<linktab, apart>>
           /\ NewFile \/ Emptied \/ FileFails
<1>1. NewFile \/ Emptied \/ FileFails
  BY DEF Creat, NewFile, Emptied, FileFails
<1>2. saverrs' = saverrs
  BY <1>1 DEF NewFile, Emptied, FileFails, Fail, errors
<1> QED
  BY <1>1, <1>2 DEF Creat, SameObject, Keep, fixed, cpHistory

\* A file of the target that is to be written to is none of the source.
NotShared == tgt[path] # NoIno => HasNot(src, tgt[path])

LEMMA NewFileFacts ==
    ASSUME Active, cpat = "creat", NewFile
    PROVE  /\ World' /\ Files'
           /\ \E i \in Ino : /\ i # NoIno /\ HasNot(src, i) /\ HasNot(tgt, i)
                             /\ TgtStep(path, i) /\ inode'[i].data = NoData
<1>1. World /\ path \in Rel /\ tdev \in Device
  BY AtFileFacts DEF AtFile
<1>2. Make(path, "reg", NoData) /\ "reg" \in Kinds /\ NoData \in Nat
  BY DEF NewFile, Kinds, NoData
<1>3. PICK i \in Ino : /\ i # NoIno /\ HasNot(src, i) /\ HasNot(tgt, i)
                       /\ TgtStep(path, i)
                       /\ inode'[i] = [kind |-> "reg", data |-> NoData]
  BY <1>1, <1>2, MakeFacts DEF Active, Files
<1>4. inode'[i].kind # "none" /\ inode'[i].data = NoData
  BY <1>3
<1>5. World' /\ Files'
  BY <1>1, <1>3, <1>4, FilesStep DEF Active
<1> QED
  BY <1>3, <1>4, <1>5

LEMMA CreatRuns ==
    ASSUME Active, NotShared, Creat
    PROVE  Active'
<1>1. /\ cpat = "creat" /\ SameObject /\ UNCHANGED <<linktab, apart>>
      /\ NewFile \/ Emptied \/ FileFails
  BY CreatCases
<1>2. World /\ path \in Rel /\ src[path] \in Ino /\ src[path] # NoIno
  BY <1>1, AtFileFacts DEF AtFile
<1>3. linktab' \in [Ino -> Rel \cup {NoPath}] /\ errcnt \in BOOLEAN
  BY <1>1 DEF Active, CpStates
<1>4. CASE NewFile
  <2>1. World' /\ Files'
    BY <1>1, <1>4, NewFileFacts
  <2>2. PICK i \in Ino : i # NoIno /\ TgtStep(path, i)
    BY <1>1, <1>4, NewFileFacts
  <2>3. src'[path] # NoIno /\ tgt'[path] # NoIno
    BY <1>2, <2>2 DEF TgtStep, SrcKept, World
  <2>4. cpat' = "data" /\ errcnt' = errcnt
    BY <1>4 DEF NewFile, errors
  <2> QED
    BY <1>1, <1>3, <2>1, <2>3, <2>4, FileGoesOn DEF AtFile
<1>5. CASE Emptied
  <2>1. tgt[path] # NoIno /\ HasNot(src, tgt[path]) /\ NoData \in Nat
        /\ inode' = [inode EXCEPT ![tgt[path]].data = NoData] /\ UNCHANGED <<src, tgt>>
    BY <1>5 DEF Emptied, NotShared, NoData
  <2>2. World' /\ Files'
    BY <1>2, <2>1, FilesWritten DEF Active
  <2>3. cpat' = "data" /\ errcnt' = errcnt
    BY <1>5 DEF Emptied, errors
  <2> QED
    BY <1>1, <1>2, <1>3, <2>1, <2>2, <2>3, FileGoesOn DEF AtFile
<1>6. CASE FileFails
  <2>1. World' /\ Files'
    BY <1>2, <1>6, FilesSame DEF Active, FileFails, World, world
  <2>2. Finish(path) /\ errcnt' \in BOOLEAN
    BY <1>6 DEF FileFails, Fail
  <2> QED
    BY <1>1, <2>1, <2>2, FileEnds DEF AtFile
<1> QED
  BY <1>1, <1>4, <1>5, <1>6

\* fdcopy(): all of it is written, or an error is counted.
Written ==
    /\ inode' = [inode EXCEPT ![tgt[path]].data = inode[src[path]].data]
    /\ errcnt' \in BOOLEAN /\ (Mv => errcnt' = errcnt)
NotWritten == errcnt' = TRUE /\ UNCHANGED inode

LEMMA CopyDataCases ==
    ASSUME CpStates, CopyData
    PROVE  /\ cpat = "data" /\ SameObject /\ UNCHANGED <<src, tgt, linktab, apart>>
           /\ Finish(path)
           /\ Written \/ NotWritten
<1>1. CASE inode' = [inode EXCEPT ![tgt[path]].data = inode[src[path]].data] /\ Permissions
  <2>1. errcnt' \in BOOLEAN /\ saverrs' = saverrs /\ (Mv => errcnt' = errcnt)
    BY <1>1, PermissionsErrors DEF CpStates
  <2> QED
    BY <1>1, <2>1 DEF CopyData, SameObject, Keep, fixed, cpHistory, Written
<1>2. CASE Fail /\ UNCHANGED inode
  BY <1>2 DEF CopyData, SameObject, Keep, fixed, cpHistory, Fail, NotWritten
<1> QED
  BY <1>1, <1>2 DEF CopyData

LEMMA CopyDataRuns ==
    ASSUME Active, NotShared, CopyData
    PROVE  Active' /\ cpat' \in {"last", "read"}
<1>1. /\ cpat = "data" /\ SameObject /\ UNCHANGED <<src, tgt, linktab, apart>>
      /\ Finish(path)
      /\ Written \/ NotWritten
  BY CopyDataCases DEF Active
<1>2. World /\ path \in Rel /\ src[path] \in Ino /\ tgt[path] # NoIno
  BY <1>1, AtFileFacts DEF AtFile, Active, Position
<1>3. inode[src[path]].data \in Nat
  BY <1>2 DEF World, InodeRecord
<1>4. CASE Written
  <2>1. World' /\ Files'
    BY <1>1, <1>2, <1>3, <1>4, FilesWritten DEF Active, Written, NotShared
  <2> QED
    BY <1>1, <1>4, <2>1, FileEnds DEF AtFile, Written
<1>5. CASE NotWritten
  <2>1. World' /\ Files'
    BY <1>1, <1>2, <1>5, FilesSame DEF Active, NotWritten, World, world
  <2> QED
    BY <1>1, <1>5, <2>1, FileEnds DEF AtFile, NotWritten
<1> QED
  BY <1>1, <1>4, <1>5

\* specialcopy(): a door is passed over, another is made, or it fails.
Passed == Kind(src[path]) = "door" /\ UNCHANGED <<world, errors>>
NewSpecial ==
    /\ Make(path, "special", inode[src[path]].data)
    /\ errcnt' \in BOOLEAN /\ (Mv => errcnt' = errcnt)
SpecialFails == errcnt' = TRUE /\ (UNCHANGED world \/ UnlinkTgt(path))

LEMMA SpecialCases ==
    ASSUME CpStates, Special
    PROVE  /\ cpat = "special" /\ SameObject /\ UNCHANGED <<linktab, apart>>
           /\ Finish(path)
           /\ Passed \/ NewSpecial \/ SpecialFails
<1>1. SameObject \/ saverrs' # saverrs
  BY DEF Special, SameObject, Keep, fixed, cpHistory
<1>2. CASE Passed
  BY <1>1, <1>2 DEF Special, Passed, errors, Keep, cpHistory
<1>3. CASE Make(path, "special", inode[src[path]].data) /\ Permissions
  <2>1. errcnt' \in BOOLEAN /\ saverrs' = saverrs /\ (Mv => errcnt' = errcnt)
    BY <1>3, PermissionsErrors DEF CpStates
  <2> QED
    BY <1>1, <1>3, <2>1 DEF Special, NewSpecial, Keep, cpHistory
<1>4. CASE Fail /\ (UNCHANGED world \/ UnlinkTgt(path))
  BY <1>1, <1>4 DEF Special, SpecialFails, Fail, Keep, cpHistory
<1> QED
  BY <1>2, <1>3, <1>4 DEF Special, Passed

LEMMA NewSpecialFacts ==
    ASSUME Active, cpat = "special", NewSpecial
    PROVE  /\ World' /\ Files'
           /\ \E i \in Ino : /\ i # NoIno /\ HasNot(src, i) /\ HasNot(tgt, i)
                             /\ TgtStep(path, i) /\ inode'[i].data = inode[src[path]].data
<1>1. World /\ path \in Rel /\ tdev \in Device /\ src[path] \in Ino
  BY AtFileFacts DEF AtFile
<1>2. "special" \in Kinds /\ inode[src[path]].data \in Nat
  BY <1>1 DEF World, InodeRecord, Kinds
<1>3. PICK d \in Nat : d = inode[src[path]].data
  BY <1>2
<1>4. Make(path, "special", d)
  BY <1>3 DEF NewSpecial
<1>5. PICK i \in Ino : /\ i # NoIno /\ HasNot(src, i) /\ HasNot(tgt, i)
                       /\ TgtStep(path, i)
                       /\ inode'[i] = [kind |-> "special", data |-> d]
  BY <1>1, <1>2, <1>4, MakeFacts DEF Active, Files
<1>6. inode'[i].kind # "none" /\ inode'[i].data = d
  BY <1>5
<1>7. World' /\ Files'
  BY <1>1, <1>5, <1>6, FilesStep DEF Active
<1> QED
  BY <1>3, <1>5, <1>6, <1>7

LEMMA SpecialRuns ==
    ASSUME Active, Special
    PROVE  Active' /\ cpat' \in {"last", "read"}
<1>1. /\ cpat = "special" /\ SameObject /\ UNCHANGED <<linktab, apart>>
      /\ Finish(path)
      /\ Passed \/ NewSpecial \/ SpecialFails
  BY SpecialCases DEF Active
<1>2. World /\ path \in Rel /\ errcnt \in BOOLEAN
  BY <1>1, AtFileFacts DEF AtFile, Active, CpStates
<1>3. CASE NewSpecial
  BY <1>1, <1>3, NewSpecialFacts, FileEnds DEF AtFile, NewSpecial
<1>4. CASE UNCHANGED world
  <2>1. World' /\ Files' /\ errcnt' \in BOOLEAN
    BY <1>1, <1>2, <1>4, FilesSame DEF Active, World, world, Passed, NewSpecial, SpecialFails, errors
  <2> QED
    BY <1>1, <2>1, FileEnds DEF AtFile
<1>5. CASE UnlinkTgt(path) /\ errcnt' = TRUE
  <2>1. World' /\ Files'
    BY <1>2, <1>5, UnlinkTgtFacts, FilesStep DEF Active
  <2> QED
    BY <1>1, <1>5, <2>1, FileEnds DEF AtFile
<1> QED
  BY <1>1, <1>3, <1>4, <1>5 DEF Passed, SpecialFails

\* One operand is done.
LEMMA DoneRuns ==
    ASSUME Active, Done, stack' = <<>>, UNCHANGED <<tdev, opt, argn, dsp, saverrs, added>>,
           cpat # "next", path' \in Rel \cup {NoPath}, errcnt' \in BOOLEAN, World', Files'
    PROVE  Active' /\ cpat' = "next"
<1>1. cpat' = "next" /\ linktab' = [i \in Ino |-> NoPath]
  BY DEF Done, Freedslots
<1>2. CpStates'
  BY <1>1, EmptySeq DEF Active, CpStates, World
<1>3. Len(stack') = 0
  BY EmptySeq
<1>4. Levels'
  BY <1>1, <1>3 DEF Levels, AtObject, AtFile, AtTop
<1>5. NoLinks' /\ argn' <= Len(Args) /\ argn' >= 1
  BY <1>1 DEF Active, Position, NoLinks
<1>6. Position'
  BY <1>1, <1>5 DEF Position, Labels, AtObject, AtFile, AtTop, Mv
<1> QED
  BY <1>1, <1>2, <1>4, <1>6 DEF Active

LEMMA EndOfArgRuns ==
    ASSUME Active, EndOfArg
    PROVE  /\ Active' /\ UNCHANGED <<world, stack, errcnt, argn, opt, owed, path>>
           /\ cpat' = "next" \/ (cpat' = "delete" /\ ~errcnt)
<1>1. cpat = "last" /\ UNCHANGED <<world, path, dsp, stack, errors>> /\ Keep
  BY DEF EndOfArg
<1>2. UNCHANGED <<src, tgt, inode, tdev, opt, argn, path, dsp, stack, errcnt, saverrs, added, owed>>
  BY <1>1 DEF Keep, world, fixed, errors, cpHistory
<1>3. stack = <<>> /\ path \in Rel /\ errcnt \in BOOLEAN /\ World
  BY <1>1, ActiveWorld DEF Active, Levels, AtTop, CpStates
<1>4. World' /\ Files'
  BY <1>1, <1>2, <1>3, FilesSame DEF Active, World
<1>5. CASE Mv /\ ~errcnt
  <2>1. cpat' = "delete" /\ UNCHANGED linktab
    BY <1>5 DEF EndOfArg
  <2>2. CpStates'
    BY <1>2, <2>1 DEF Active, CpStates
  <2>3. Levels'
    BY <1>1, <1>2, <2>1 DEF Active, Levels, Below, AtObject, AtFile, AtTop
  <2>4. argn <= Len(Args) /\ argn >= 1 /\ opt.go # "ln"
    BY <1>1 DEF Active, Position
  <2>5. Position'
    BY <1>2, <1>5, <2>1, <2>4 DEF Position, Labels, AtObject, AtFile, AtTop, Mv
  <2> QED
    BY <1>1, <1>2, <1>4, <1>5, <2>1, <2>2, <2>3, <2>5 DEF Active
<1>6. CASE ~(Mv /\ ~errcnt)
  <2>1. Done
    BY <1>6 DEF EndOfArg
  <2> QED
    BY <1>1, <1>2, <1>3, <1>4, <2>1, DoneRuns
<1> QED
  BY <1>5, <1>6

\* A name of the source is removed, of a file or of an empty directory.
LEMMA UnlinkSrcFacts ==
    ASSUME World, Files, NEW p \in Rel, UnlinkSrc(p),
           ~IsDir(inode, src[p]) \/ Kids(src, p) = {}
    PROVE  /\ World' /\ Files' /\ tgt' = tgt
           /\ \A q \in Rel : src'[q] = IF q = p THEN NoIno ELSE src[q]
           /\ \A q \in Rel : src'[q] # NoIno => inode'[src'[q]] = inode[src'[q]]
           /\ \A q \in Rel : tgt[q] # NoIno => inode'[tgt[q]] = inode[tgt[q]]
<1>1. PICK s : s = [src EXCEPT ![p] = NoIno]
  OBVIOUS
<1>2. s \in [Rel -> Ino \cup {NoIno}] /\ \A q \in Rel : s[q] = IF q = p THEN NoIno ELSE src[q]
  BY <1>1 DEF World
<1>3. Linked(inode, s, tgt)
  BY <1>1 DEF UnlinkSrc
<1>4. /\ src' = s /\ tgt' = tgt /\ inode' \in [Ino -> InodeRecord]
      /\ \A q \in Rel : s[q] # NoIno => inode'[s[q]] = inode[s[q]]
      /\ \A q \in Rel : tgt[q] # NoIno => inode'[tgt[q]] = inode[tgt[q]]
  BY <1>2, <1>3, LinkedFacts DEF World
<1>5. World'
  BY <1>2, <1>4 DEF World
<1>6. FilesExist(src, inode)' /\ Hollow(src, inode)' /\ FilesExist(tgt, inode)'
  BY <1>2, <1>4 DEF Files, FilesExist, Hollow
<1>7. ASSUME NEW q \in Rel, src'[q] # NoIno, NEW n \in 1..Len(q) - 1
      PROVE  IsDir(inode', src'[SubSeq(q, 1, n)])
  <2>1. PICK r : r = SubSeq(q, 1, n)
    OBVIOUS
  <2>2. r \in Rel /\ IsPrefix(r, q) /\ Len(r) = n /\ src[q] # NoIno
    BY <1>2, <1>4, <1>7, <2>1, CutNames
  <2>3. IsDir(inode, src[r])
    BY <2>1, <2>2 DEF Files, IsTree
  <2>4. r # p
    <3>1. SUFFICES ASSUME r = p, Kids(src, p) = {} PROVE FALSE
      BY <2>3
    <3>2. q # p
      <4>1. n < Len(q)
        BY PathFacts
      <4> QED
        BY <2>2, <3>1, <4>1, PathFacts
    <3>3. PICK c \in Rel : /\ ChildOf(p, c)
                           /\ c = q \/ \E m \in 1..Len(q) - 1 : c = SubSeq(q, 1, m)
      BY <2>2, <3>1, <3>2, ThroughChild
    <3>4. src[c] # NoIno
      BY <2>2, <3>3 DEF Files, IsTree, IsDir
    <3> QED
      BY <3>1, <3>3, <3>4 DEF Kids, ChildOf
  <2>5. src'[r] = src[r] /\ src[r] # NoIno /\ inode'[src'[r]] = inode[src'[r]]
    BY <1>2, <1>4, <2>2, <2>3, <2>4 DEF IsDir
  <2> QED
    BY <2>1, <2>3, <2>5 DEF IsDir
<1>8. IsTree(src, inode)'
  BY <1>7 DEF IsTree
<1> QED
  BY <1>2, <1>4, <1>5, <1>6, <1>8 DEF Files

\* trydelete(src, 1): a directory is entered, another file removed, or it ends.
EntersDir ==
    /\ stack' = Append(stack, [dir |-> path, had |-> Kids(src, path), seen |-> {}, made |-> FALSE])
    /\ cpat' = "rmread" /\ UNCHANGED <<world, linktab, errors>>
RemovesFile ==
    /\ ~IsDir(inode, src[path]) /\ UnlinkSrc(path) /\ Deleted /\ UNCHANGED <<stack, errors>>
GivesUp == stack' = <<>> /\ Fail /\ Done /\ UNCHANGED world

LEMMA TryDeleteCases ==
    ASSUME TryDelete
    PROVE  /\ cpat = "delete" /\ UNCHANGED <<path, dsp>> /\ Keep
           /\ EntersDir \/ RemovesFile \/ GivesUp
  BY DEF TryDelete, EntersDir, RemovesFile, GivesUp, Kind, IsDir

LEMMA TryDeleteRuns ==
    ASSUME Active, TryDelete
    PROVE  Active' /\ cpat' \in {"next", "rmread"}
<1>1. /\ cpat = "delete" /\ UNCHANGED <<path, dsp>> /\ Keep
      /\ EntersDir \/ RemovesFile \/ GivesUp
  BY TryDeleteCases
<1>2. UNCHANGED <<path, dsp, tdev, opt, argn, added>>
  BY <1>1 DEF Keep, fixed, cpHistory
<1>3. /\ path \in Rel /\ Below(path) /\ Len(path) = Len(stack) + 1 /\ Mv
      /\ argn <= Len(Args) /\ argn >= 1 /\ opt.go # "ln" /\ World
  BY <1>1, ActiveWorld DEF Active, Levels, Position
<1>4. CASE EntersDir
  <2>1. PICK f \in Frame : f = [dir |-> path, had |-> Kids(src, path), seen |-> {}, made |-> FALSE]
    BY <1>3, OpenedFrame
  <2>2. /\ stack' \in Seq(Frame) /\ stack' # <<>> /\ Len(stack') = Len(stack) + 1
        /\ stack'[Len(stack) + 1] = f
        /\ \A k \in 1..Len(stack) : stack'[k] = stack[k]
    BY <1>4, <2>1, PushFacts DEF Active, EntersDir
  <2>3. UNCHANGED <<src, tgt, inode, linktab, errcnt, saverrs>> /\ cpat' = "rmread"
    BY <1>4 DEF EntersDir, world, errors
  <2>4. CpStates' /\ Files'
    BY <1>2, <2>2, <2>3, FilesSame DEF Active, CpStates, world
  <2>5. ASSUME NEW k \in 1..Len(stack')
        PROVE  Below(stack[k].dir)' /\ Len(stack'[k].dir) = k
    <3>1. k \in 1..Len(stack) \/ k = Len(stack) + 1
      BY <2>2, ActiveWorld DEF Active
    <3>2. CASE k \in 1..Len(stack)
      BY <1>2, <2>2, <3>2 DEF Active, Levels, Below
    <3>3. CASE k = Len(stack) + 1
      <4>1. stack'[k].dir = path
        BY <2>1, <2>2, <3>3
      <4> QED
        BY <1>2, <1>3, <3>3, <4>1 DEF Below
    <3> QED
      BY <3>1, <3>2, <3>3
  <2>6. Levels'
    BY <2>2, <2>3, <2>5 DEF Levels, AtObject, AtFile, AtTop
  <2>7. Position'
    BY <1>2, <1>3, <2>3 DEF Position, Labels, AtObject, AtFile, AtTop, Mv
  <2> QED
    BY <2>3, <2>4, <2>6, <2>7 DEF Active
<1>5. CASE RemovesFile
  <2>1. World' /\ Files'
    BY <1>3, <1>5, UnlinkSrcFacts DEF Active, RemovesFile
  <2>2. UNCHANGED <<stack, errcnt, saverrs>> /\ Deleted /\ errcnt \in BOOLEAN
    BY <1>5 DEF RemovesFile, errors, Active, CpStates
  <2>3. CASE stack = <<>>
    BY <1>1, <1>2, <1>3, <2>1, <2>2, <2>3, DoneRuns DEF Deleted
  <2>4. CASE stack # <<>>
    <3>1. cpat' = "rmread" /\ UNCHANGED linktab
      BY <2>2, <2>4 DEF Deleted
    <3>2. CpStates'
      BY <1>2, <2>1, <2>2, <3>1 DEF Active, CpStates, World
    <3>3. Levels'
      BY <1>2, <2>2, <2>4, <3>1 DEF Active, Levels, Below, AtObject, AtFile, AtTop
    <3>4. Position'
      BY <1>2, <1>3, <3>1 DEF Position, Labels, AtObject, AtFile, AtTop, Mv
    <3> QED
      BY <2>1, <3>1, <3>2, <3>3, <3>4 DEF Active
  <2> QED
    BY <2>3, <2>4
<1>6. CASE GivesUp
  <2>1. World' /\ Files'
    BY <1>3, <1>6, FilesSame DEF Active, GivesUp, World, world
  <2> QED
    BY <1>1, <1>2, <1>3, <1>6, <2>1, DoneRuns DEF GivesUp, Fail
<1> QED
  BY <1>1, <1>4, <1>5, <1>6

\* The next entry is removed, or the directory, or it ends.
NextKid(q) ==
    /\ q \in Kids(src, Last(stack).dir)
    /\ path' = q /\ cpat' = "delete" /\ UNCHANGED <<world, stack, linktab>>
RemovesDir ==
    /\ Kids(src, Last(stack).dir) = {}
    /\ UnlinkSrc(Last(stack).dir)
    /\ stack' = Front(stack) /\ path' = Last(stack).dir
    /\ IF Len(stack) = 1 THEN Done ELSE cpat' = "rmread" /\ UNCHANGED linktab
DirStays == stack' = <<>> /\ Done /\ UNCHANGED <<world, path>>

LEMMA DeleteNextCases ==
    ASSUME DeleteNext
    PROVE  /\ cpat = "rmread" /\ UNCHANGED <<dsp, errors>> /\ Keep
           /\ (\E q : NextKid(q)) \/ RemovesDir \/ DirStays
<1>1. cpat = "rmread" /\ UNCHANGED <<dsp, errors>> /\ Keep
  BY DEF DeleteNext
<1>2. CASE \E q \in Kids(src, Last(stack).dir) :
                /\ path' = q
                /\ cpat' = "delete"
                /\ UNCHANGED <<world, stack, linktab>>
  BY <1>1, <1>2 DEF NextKid
<1>3. CASE ~(\E q \in Kids(src, Last(stack).dir) :
                /\ path' = q
                /\ cpat' = "delete"
                /\ UNCHANGED <<world, stack, linktab>>)
  BY <1>1, <1>3 DEF DeleteNext, RemovesDir, DirStays
<1> QED
  BY <1>2, <1>3

LEMMA DeleteNextRuns ==
    ASSUME Active, DeleteNext
    PROVE  Active' /\ cpat' \in {"next", "rmread", "delete"}
<1>1. /\ cpat = "rmread" /\ UNCHANGED <<dsp, errors>> /\ Keep
      /\ (\E q : NextKid(q)) \/ RemovesDir \/ DirStays
  BY DeleteNextCases
<1>2. UNCHANGED <<dsp, tdev, opt, argn, added, errcnt, saverrs>>
  BY <1>1 DEF Keep, fixed, cpHistory, errors
<1>3. /\ stack # <<>> /\ Mv /\ argn <= Len(Args) /\ argn >= 1 /\ opt.go # "ln"
      /\ World /\ errcnt \in BOOLEAN
  BY <1>1, ActiveWorld DEF Active, Levels, Position, CpStates
<1>4. PICK n : n = Len(stack)
  OBVIOUS
<1>5. n \in 1..Len(stack) /\ Last(stack) = stack[n] /\ stack[n] \in Frame
  BY <1>3, <1>4, ActiveWorld DEF Active, Last
<1>6. PICK d \in Rel : d = Last(stack).dir
  BY <1>5 DEF Frame
<1>7. Below(d) /\ Len(d) = Len(stack)
  BY <1>4, <1>5, <1>6 DEF Active, Levels
<1>8. ASSUME NEW q, NextKid(q) PROVE Active' /\ cpat' = "delete"
  <2>1. q \in Rel /\ ChildOf(d, q)
    BY <1>6, <1>8 DEF NextKid, Kids, ChildOf
  <2>2. UNCHANGED <<src, tgt, inode, stack, linktab>> /\ path' = q /\ cpat' = "delete"
    BY <1>8 DEF NextKid, world
  <2>3. CpStates' /\ Files'
    BY <1>2, <2>1, <2>2, FilesSame DEF Active, CpStates, world
  <2>4. Below(q)' /\ Len(q) = Len(stack') + 1
    BY <1>2, <1>7, <2>1, <2>2, ChildCuts DEF Below
  <2>5. Levels'
    BY <1>2, <2>1, <2>2, <2>4 DEF Active, Levels, Below, AtObject, AtFile, AtTop
  <2>6. Position'
    BY <1>2, <1>3, <2>2 DEF Position, Labels, AtObject, AtFile, AtTop, Mv
  <2> QED
    BY <2>2, <2>3, <2>5, <2>6 DEF Active
<1>9. CASE RemovesDir
  <2>1. World' /\ Files'
    BY <1>3, <1>6, <1>9, UnlinkSrcFacts DEF Active, RemovesDir
  <2>2. /\ stack' \in Seq(Frame)
        /\ \A k \in 1..Len(stack') : stack'[k] = stack[k] /\ k \in 1..Len(stack)
        /\ Len(stack) = 1 <=> stack' = <<>>
    BY <1>3, <1>9, PopFacts DEF Active, RemovesDir
  <2>3. path' = d
    BY <1>6, <1>9 DEF RemovesDir
  <2>4. CASE Len(stack) = 1
    BY <1>1, <1>2, <1>3, <1>9, <2>1, <2>2, <2>3, <2>4, DoneRuns DEF RemovesDir
  <2>5. CASE Len(stack) # 1
    <3>1. cpat' = "rmread" /\ UNCHANGED linktab /\ stack' # <<>>
      BY <1>9, <2>2, <2>5 DEF RemovesDir
    <3>2. CpStates'
      BY <1>2, <2>1, <2>2, <2>3, <3>1 DEF Active, CpStates, World
    <3>3. \A k \in 1..Len(stack') : Below(stack[k].dir)' /\ Len(stack'[k].dir) = k
      BY <1>2, <2>2 DEF Active, Levels, Below
    <3>4. Levels'
      BY <3>1, <3>3 DEF Levels, AtObject, AtFile, AtTop
    <3>5. Position'
      BY <1>2, <1>3, <3>1 DEF Position, Labels, AtObject, AtFile, AtTop, Mv
    <3> QED
      BY <2>1, <3>1, <3>2, <3>4, <3>5 DEF Active
  <2> QED
    BY <2>4, <2>5
<1>10. CASE DirStays
  <2>1. World' /\ Files' /\ path' \in Rel \cup {NoPath}
    BY <1>3, <1>10, FilesSame DEF Active, CpStates, DirStays, World, world
  <2> QED
    BY <1>1, <1>2, <1>3, <1>10, <2>1, DoneRuns DEF DirStays
<1> QED
  BY <1>1, <1>8, <1>9, <1>10

LEMMA LnRefusedLeaves ==
    ASSUME LnRefused
    PROVE  cpat = "ln" /\ Leaves
  BY StopLeaves DEF LnRefused

\* ln changes the name in the target, and nothing in the source.
LEMMA LnUnlinkRuns ==
    ASSUME Active, LnUnlink
    PROVE  Active' /\ TgtStep(path, NoIno) /\ path \in Rel /\ owed' = owed
<1>1. cpat = "ln" /\ UnlinkTgt(path) /\ dsp' = NoIno /\ Goto("ln")
  BY DEF LnUnlink
<1>2. UNCHANGED <<tdev, opt, argn, path, stack, linktab, errcnt, saverrs, added, owed>> /\ cpat' = "ln"
  BY <1>1 DEF Goto, Keep, fixed, errors, cpHistory
<1>3. /\ path \in Rel /\ World /\ stack = <<>> /\ NoLinks /\ opt.go = "ln"
      /\ argn <= Len(Args) /\ argn >= 1
  BY <1>1, ActiveWorld DEF Active, Levels, Position, AtTop
<1>4. TgtStep(path, NoIno)
  BY <1>1, <1>3, UnlinkTgtFacts
<1>5. World' /\ Files'
  BY <1>3, <1>4, FilesStep DEF Active
<1>6. CpStates'
  BY <1>1, <1>2, <1>5 DEF Active, CpStates, World
<1>7. Levels'
  BY <1>1, <1>2, <1>3, LevelsOn DEF Active, AtTop
<1>8. Position'
  BY <1>2, <1>3 DEF Position, Labels, AtObject, AtFile, AtTop, NoLinks, Mv
<1> QED
  BY <1>2, <1>3, <1>4, <1>5, <1>6, <1>7, <1>8 DEF Active

LEMMA LnCases ==
    ASSUME Active, Ln
    PROVE  /\ path \in Rel /\ owed' = owed
           /\ \/ UNCHANGED world
              \/ \E j \in Ino : /\ TgtStep(path, j) /\ inode'[j].kind # "none"
                                /\ HasNot(src, j) \/ j = src[path]
<1>1. cpat = "ln" /\ path \in Rel /\ World /\ tdev \in Device /\ owed' = owed
  BY ActiveWorld DEF Active, Levels, Ln, AtTop, Keep, cpHistory
<1>2. CASE Make(path, "special", NoData)
  <2>1. "special" \in Kinds /\ NoData \in Nat
    BY DEF Kinds, NoData
  <2>2. PICK i \in Ino : /\ i # NoIno /\ HasNot(src, i) /\ TgtStep(path, i)
                         /\ inode'[i] = [kind |-> "special", data |-> NoData]
    BY <1>1, <1>2, <2>1, MakeFacts DEF Active, Files
  <2>3. inode'[i].kind # "none"
    BY <2>2
  <2> QED
    BY <1>1, <2>2, <2>3
<1>3. CASE src[path][1] = tdev /\ Linked(inode, src, [tgt EXCEPT ![path] = src[path]])
  <2>1. src[path] # NoIno /\ src[path] \in Ino
    BY <1>1, <1>3 DEF World, NoIno, Device
  <2>2. PICK j \in Ino : j = src[path]
    BY <2>1
  <2>3. TgtStep(path, j) /\ inode'[j] = inode[j]
    BY <1>1, <1>3, <2>1, <2>2, RelinkFacts
  <2>4. inode'[j].kind # "none"
    BY <1>1, <2>1, <2>2, <2>3 DEF Active, Files, FilesExist
  <2> QED
    BY <1>1, <2>2, <2>3, <2>4
<1>4. CASE UNCHANGED world
  BY <1>1, <1>4
<1> QED
  BY <1>2, <1>3, <1>4 DEF Ln

LEMMA LnRuns ==
    ASSUME Active, Ln
    PROVE  Active'
<1>1. cpat = "ln" /\ cpat' = "next" /\ UNCHANGED <<path, dsp, stack, linktab>> /\ Keep
  BY DEF Ln
<1>2. UNCHANGED <<path, dsp, stack, linktab, tdev, opt, argn, added>>
  BY <1>1 DEF Keep, fixed, cpHistory
<1>3. errcnt' \in BOOLEAN /\ saverrs' = saverrs
  BY DEF Ln, errors, Fail, Active, CpStates
<1>4. /\ path \in Rel /\ World /\ stack = <<>> /\ NoLinks
      /\ argn <= Len(Args) /\ argn >= 1
  BY <1>1, ActiveWorld DEF Active, Levels, Position, AtTop
<1>5. World' /\ Files'
  <2>1. CASE UNCHANGED world
    BY <1>4, <2>1, FilesSame DEF Active, World, world
  <2>2. ASSUME NEW j \in Ino, TgtStep(path, j), inode'[j].kind # "none" PROVE World' /\ Files'
    BY <1>4, <2>2, FilesStep DEF Active
  <2> QED
    BY <2>1, <2>2, LnCases
<1>6. CpStates'
  BY <1>2, <1>3, <1>5 DEF Active, CpStates, World
<1>7. Levels'
  BY <1>1, <1>2, <1>4 DEF Active, Levels, Below, AtObject, AtFile, AtTop
<1>8. Position'
  BY <1>1, <1>2, <1>4 DEF Position, Labels, AtObject, AtFile, AtTop, NoLinks, Mv
<1> QED
  BY <1>5, <1>6, <1>7, <1>8 DEF Active

LEMMA KillRuns ==
    ASSUME Runs, Kill
    PROVE  CpStates' /\ Halted' /\ UNCHANGED <<world, owed>>
  BY DEF Runs, Kill, CpStates, Halted, world, fixed, errors, cpHistory

\* Somebody gives a file of the source, or a new one, a name in a directory there.
SrcGrows(p, i) ==
    /\ src[p] = NoIno /\ Len(p) > 1 /\ IsDir(inode, src[Front(p)])
    /\ i # NoIno /\ inode'[i].kind = "reg"
    /\ src' = [src EXCEPT ![p] = i] /\ tgt' = tgt
    /\ inode' \in [Ino -> InodeRecord]
    /\ \A q \in Rel : src[q] # NoIno => inode'[src[q]] = inode[src[q]]
    /\ \A q \in Rel : tgt[q] # NoIno => inode'[tgt[q]] = inode[tgt[q]]
    /\ HasNot(tgt, i) \/ \E q \in Rel : src[q] = i

LEMMA SomebodyFacts ==
    ASSUME CpStates, Files, Somebody
    PROVE  \E p \in Rel, i \in Ino : SrcGrows(p, i)
<1>1. PICK p \in Rel :
        /\ src[p] = NoIno /\ Len(p) > 1
        /\ src[Front(p)] # NoIno /\ Kind(src[Front(p)]) = "dir"
        /\ \/ \E i \in Ino :
                /\ Kind(i) = "reg" /\ i \in Range(src)
                /\ Linked(inode, [src EXCEPT ![p] = i], tgt)
           \/ LET i == NewIno(src[Front(p)][1])
              IN  /\ FreeNumber(src[Front(p)][1])
                  /\ Linked([inode EXCEPT ![i] = [kind |-> "reg", data |-> 100 + added]],
                            [src EXCEPT ![p] = i], tgt)
  BY DEF Somebody
<1>2. World /\ IsDir(inode, src[Front(p)])
  BY <1>1, ActiveWorld DEF IsDir, Kind
<1>3. ASSUME NEW i \in Ino, Kind(i) = "reg", i \in Range(src),
             Linked(inode, [src EXCEPT ![p] = i], tgt)
      PROVE  SrcGrows(p, i)
  <2>1. i # NoIno /\ inode[i].kind = "reg"
    BY <1>3, NoInode DEF Kind
  <2>2. PICK s : s = [src EXCEPT ![p] = i]
    OBVIOUS
  <2>3. s \in [Rel -> Ino \cup {NoIno}] /\ s[p] = i /\ \A q \in Rel : q # p => s[q] = src[q]
    BY <1>2, <2>2 DEF World
  <2>4. Linked(inode, s, tgt)
    BY <1>3, <2>2
  <2>5. /\ src' = s /\ tgt' = tgt /\ inode' \in [Ino -> InodeRecord]
        /\ \A q \in Rel : s[q] # NoIno => inode'[s[q]] = inode[s[q]]
        /\ \A q \in Rel : tgt[q] # NoIno => inode'[tgt[q]] = inode[tgt[q]]
    BY <1>2, <2>3, <2>4, LinkedFacts DEF World
  <2>6. \E q \in Rel : src[q] = i
    BY <1>2, <1>3 DEF Range, World
  <2>7. inode'[i].kind = "reg"
    BY <2>1, <2>3, <2>5
  <2>8. \A q \in Rel : src[q] # NoIno => inode'[src[q]] = inode[src[q]]
    BY <1>1, <2>3, <2>5
  <2> QED
    BY <1>1, <1>2, <2>1, <2>2, <2>5, <2>6, <2>7, <2>8 DEF SrcGrows
<1>4. ASSUME FreeNumber(src[Front(p)][1]), NEW i, i = NewIno(src[Front(p)][1]),
             Linked([inode EXCEPT ![i] = [kind |-> "reg", data |-> 100 + added]],
                    [src EXCEPT ![p] = i], tgt)
      PROVE  i \in Ino /\ SrcGrows(p, i)
  <2>1. Front(p) \in Rel
    <3>1. PICK m \in 1..Len(p) - 1 : m = Len(p) - 1
      BY <1>1, PathFacts
    <3>2. SubSeq(p, 1, m) \in Rel
      BY CutNames
    <3> QED
      BY <3>1, <3>2 DEF Front
  <2>2. src[Front(p)] \in Ino
    BY <1>1, <1>2, <2>1 DEF World
  <2>3. PICK dev \in Device : dev = src[Front(p)][1]
    BY <2>2 DEF Ino
  <2>4. i \in Ino /\ i # NoIno /\ HasNot(src, i) /\ HasNot(tgt, i)
    BY <1>2, <1>4, <2>3, NewInode DEF Files
  <2>5. PICK node : node = [inode EXCEPT ![i] = [kind |-> "reg", data |-> 100 + added]]
    OBVIOUS
  <2>6. 100 + added \in Nat
    BY CpAssumption DEF CpStates
  <2>7. /\ node \in [Ino -> InodeRecord] /\ node[i] = [kind |-> "reg", data |-> 100 + added]
        /\ \A j \in Ino : j # i => node[j] = inode[j]
    BY <1>2, <2>4, <2>5, <2>6 DEF World, InodeRecord, Kinds
  <2>8. PICK s : s = [src EXCEPT ![p] = i]
    OBVIOUS
  <2>9. s \in [Rel -> Ino \cup {NoIno}] /\ s[p] = i /\ \A q \in Rel : q # p => s[q] = src[q]
    BY <1>2, <2>4, <2>8 DEF World
  <2>10. Linked(node, s, tgt)
    BY <1>4, <2>5, <2>8
  <2>11. /\ src' = s /\ tgt' = tgt /\ inode' \in [Ino -> InodeRecord]
         /\ \A q \in Rel : s[q] # NoIno => inode'[s[q]] = node[s[q]]
         /\ \A q \in Rel : tgt[q] # NoIno => inode'[tgt[q]] = node[tgt[q]]
    BY <1>2, <2>7, <2>9, <2>10, LinkedFacts DEF World
  <2>12. inode'[i].kind = "reg"
    BY <2>4, <2>7, <2>9, <2>11
  <2>13. \A q \in Rel : src[q] # NoIno => inode'[src[q]] = inode[src[q]]
    BY <1>1, <1>2, <2>4, <2>7, <2>9, <2>11 DEF HasNot, World
  <2>14. \A q \in Rel : tgt[q] # NoIno => inode'[tgt[q]] = inode[tgt[q]]
    BY <1>2, <2>4, <2>7, <2>11 DEF HasNot, World
  <2> QED
    BY <1>1, <1>2, <2>4, <2>8, <2>11, <2>12, <2>13, <2>14 DEF SrcGrows
<1> QED
  BY <1>1, <1>3, <1>4

LEMMA SomebodyRuns ==
    ASSUME Active, Somebody
    PROVE  Active' /\ UNCHANGED <<tdev, opt, cpat, argn, path, dsp, stack, linktab, errcnt, owed>>
<1>1. UNCHANGED <<tdev, opt, cpat, argn, path, dsp, stack, linktab, errcnt, saverrs, owed>>
      /\ added' \in 0..MaxNew
  BY CpAssumption DEF Somebody, fixed, errors, Active, CpStates
<1>2. PICK p \in Rel, i \in Ino : SrcGrows(p, i)
  BY SomebodyFacts DEF Active
<1>3. World
  BY ActiveWorld DEF Active
<1>4. /\ src[p] = NoIno /\ Len(p) > 1 /\ IsDir(inode, src[Front(p)]) /\ inode'[i].kind = "reg"
      /\ i # NoIno
      /\ tgt' = tgt /\ inode' \in [Ino -> InodeRecord]
      /\ \A q \in Rel : src[q] # NoIno => inode'[src[q]] = inode[src[q]]
      /\ \A q \in Rel : tgt[q] # NoIno => inode'[tgt[q]] = inode[tgt[q]]
      /\ \A q \in Rel : src'[q] = IF q = p THEN i ELSE src[q]
      /\ src' \in [Rel -> Ino \cup {NoIno}]
  BY <1>2, <1>3 DEF SrcGrows, World
<1>5. CpStates'
  BY <1>1, <1>3, <1>4 DEF Active, CpStates, World
<1>6. FilesExist(src, inode)' /\ Hollow(src, inode)' /\ FilesExist(tgt, inode)'
  BY <1>4 DEF Active, Files, FilesExist, Hollow
<1>7. \A q \in Rel : IsDir(inode, src[q]) => IsDir(inode', src'[q])
  BY <1>4 DEF IsDir
<1>8. ASSUME NEW q \in Rel, src'[q] # NoIno, NEW n \in 1..Len(q) - 1
      PROVE  IsDir(inode', src'[SubSeq(q, 1, n)])
  <2>1. PICK r : r = SubSeq(q, 1, n)
    OBVIOUS
  <2>2. r \in Rel
    BY <2>1, CutNames
  <2>3. CASE q # p
    <3>1. src[q] # NoIno
      BY <1>4, <1>8, <2>3
    <3>2. IsDir(inode, src[r])
      BY <2>1, <3>1 DEF Active, Files, IsTree
    <3> QED
      BY <1>7, <2>1, <2>2, <3>2
  <2>4. CASE q = p
    <3>1. PICK m \in 1..Len(p) - 1 : m = Len(p) - 1
      <4>1. Len(p) \in Nat \ {0} /\ Len(p) > 1
        BY <1>4, PathFacts
      <4> QED
        BY <4>1
    <3>2. PICK d : d = Front(p)
      OBVIOUS
    <3>3. d = SubSeq(p, 1, m)
      BY <3>1, <3>2 DEF Front
    <3>4. d \in Rel /\ Len(d) = m /\ IsPrefix(d, p)
      BY <3>3, CutNames
    <3>5. ChildOf(d, p)
      BY <3>1, <3>4, PathFacts DEF ChildOf
    <3>6. r = IF n = Len(d) THEN d ELSE SubSeq(d, 1, n)
      BY <2>1, <2>4, <3>4, <3>5, ChildCuts
    <3>7. n # Len(d) => n \in 1..Len(d) - 1
      BY <2>4, <3>4, <3>5, ChildCuts
    <3>8. IsDir(inode, src[d])
      BY <1>4, <3>2
    <3>9. IsDir(inode, src[r])
      BY <3>4, <3>6, <3>7, <3>8 DEF Active, Files, IsTree, IsDir
    <3> QED
      BY <1>7, <2>1, <2>2, <3>9
  <2> QED
    BY <2>3, <2>4
<1>9. Files'
  BY <1>6, <1>8 DEF Files, IsTree
<1>10. Levels'
  BY <1>1 DEF Active, Levels, Below
<1>11. Position'
  <2>1. \A q \in Rel : src[q] # NoIno => src'[q] # NoIno
    BY <1>4
  <2>2. cpat \in {"rename", "copy"} \cup AtFile => path \in Rel
    BY DEF Active, Levels, AtObject, AtTop
  <2> QED
    BY <1>1, <1>4, <2>1, <2>2 DEF Active, Position, NoLinks, Mv
<1> QED
  BY <1>1, <1>5, <1>9, <1>10, <1>11 DEF Active


-----------------------------------------------------------------------------
(* cp and ln: the source keeps its files *)

LEMMA FrontIsPath ==
    ASSUME NEW p \in Rel, Len(p) > 1
    PROVE  Front(p) \in Rel /\ ChildOf(Front(p), p)
<1>1. Len(p) \in Nat \ {0}
  BY PathFacts
<1>2. PICK m \in 1..Len(p) - 1 : m = Len(p) - 1
  BY <1>1
<1>3. PICK d : d = SubSeq(p, 1, m)
  OBVIOUS
<1>4. d \in Rel /\ Len(d) = m /\ IsPrefix(d, p)
  BY <1>3, CutNames
<1>5. ChildOf(d, p)
  BY <1>1, <1>2, <1>4 DEF ChildOf
<1>6. d = Front(p)
  BY <1>2, <1>3 DEF Front
<1> QED
  BY <1>4, <1>5, <1>6

\* A name of the target that changes leaves the source what it is.
LEMMA OwnStep ==
    ASSUME World, OwnFiles(src, tgt, inode), NEW p \in Rel, NEW j \in Ino \cup {NoIno},
           TgtStep(p, j), j = NoIno \/ HasNot(src, j) \/ j = src[p]
    PROVE  OwnFiles(src, tgt, inode)' /\ \A c : SourceHas(c) => SourceHas(c)'
<1>1. /\ src' = src /\ tgt' = [tgt EXCEPT ![p] = j]
      /\ \A q \in Rel : src[q] # NoIno => inode'[src[q]] = inode[src[q]]
  BY DEF TgtStep, SrcKept
<1>2. \A q \in Rel : tgt'[q] = IF q = p THEN j ELSE tgt[q]
  BY <1>1 DEF World
<1>3. \A q \in Rel : ~IsDir(inode, src[q]) => ~IsDir(inode', src[q])
  BY <1>1 DEF IsDir
<1>4. ASSUME NEW a \in Rel, NEW b \in Rel, tgt'[a] # NoIno, tgt'[a] = src'[b]
      PROVE  src'[a] = tgt'[a] \/ (src'[a] = NoIno /\ (Len(a) > 1 => ~IsDir(inode', src'[Front(a)])))
  <2>1. CASE a = p
    <3>1. tgt'[a] = j /\ j = src[b] /\ j # NoIno
      BY <1>1, <1>2, <1>4, <2>1
    <3>2. j = src[p]
      BY <3>1 DEF HasNot
    <3> QED
      BY <1>1, <2>1, <3>1, <3>2
  <2>2. CASE a # p
    <3>1. tgt[a] # NoIno /\ tgt[a] = src[b] /\ tgt'[a] = tgt[a]
      BY <1>1, <1>2, <1>4, <2>2
    <3>2. src[a] = tgt[a] \/ (src[a] = NoIno /\ (Len(a) > 1 => ~IsDir(inode, src[Front(a)])))
      BY <3>1 DEF OwnFiles
    <3> QED
      BY <1>1, <1>3, <3>1, <3>2, FrontIsPath
  <2> QED
    BY <2>1, <2>2
<1>5. \A c : SourceHas(c) => SourceHas(c)'
  BY <1>1 DEF SourceHas
<1> QED
  BY <1>4, <1>5 DEF OwnFiles

LEMMA ApartStep ==
    ASSUME World, CpStates, CopiesApart, NEW p \in Rel, NEW j \in Ino \cup {NoIno},
           TgtStep(p, j), j = NoIno \/ HasNot(src, j) \/ NoLinks, linktab' = linktab
    PROVE  CopiesApart'
<1>1. src' = src /\ \A q \in Rel : tgt'[q] = IF q = p THEN j ELSE tgt[q]
  BY DEF TgtStep, SrcKept, World
<1>2. \A i \in Ino : linktab[i] # NoPath => linktab[i] \in Rel
  BY DEF CpStates
<1> QED
  BY <1>1, <1>2 DEF CopiesApart, HasNot, NoLinks

\* Nothing of the file system changes.
LEMMA CopySame ==
    ASSUME CopyInv, UNCHANGED <<src, tgt, inode>>,
           cpat' \in {"copy"} \cup AtFile => tgt[path'] # src[path'],
           CopiesApart \/ NoLinks' => CopiesApart',
           \A c \in owed' : c \in owed \/ SourceHas(c)
    PROVE  CopyInv'
  BY DEF CopyInv, SourceHas, OwnFiles, IsDir

\* What is written to is none of the source.
LEMMA CopyNotShared ==
    ASSUME Active, CopyInv, cpat \in {"copy"} \cup AtFile
    PROVE  NotShared
<1>1. path \in Rel /\ src[path] # NoIno
  BY AtFileFacts
<1>2. tgt[path] # src[path] /\ OwnFiles(src, tgt, inode)
  BY DEF CopyInv
<1>3. ASSUME tgt[path] # NoIno, NEW q \in Rel, src[q] = tgt[path] PROVE FALSE
  BY <1>1, <1>2, <1>3 DEF OwnFiles
<1> QED
  BY <1>3 DEF NotShared, HasNot

\* The target of the object changes.
LEMMA CopyStep ==
    ASSUME Active, CopyInv, path \in Rel, NEW j \in Ino \cup {NoIno}, TgtStep(path, j),
           j = NoIno \/ HasNot(src, j) \/ (j = src[path] /\ NoLinks),
           linktab' = linktab,
           cpat' \in {"copy"} \cup AtFile => path' = path /\ j # src[path],
           \A c \in owed' : c \in owed \/ SourceHas(c)
    PROVE  CopyInv'
<1>1. World /\ CpStates
  BY ActiveWorld DEF Active
<1>2. OwnFiles(src, tgt, inode)' /\ \A c : SourceHas(c) => SourceHas(c)'
  BY <1>1, OwnStep DEF CopyInv
<1>3. CopiesApart'
  BY <1>1, ApartStep DEF CopyInv
<1>4. src' = src /\ tgt'[path] = j
  BY <1>1 DEF TgtStep, SrcKept, World
<1>5. \A c \in owed' : SourceHas(c)'
  BY <1>2 DEF CopyInv
<1> QED
  BY <1>2, <1>3, <1>4, <1>5 DEF CopyInv

LEMMA CopyLeaves ==
    ASSUME CopyInv, Leaves
    PROVE  CopyInv'
<1>1. UNCHANGED <<src, tgt, inode, linktab, owed>> /\ cpat' \in {"next", "read"}
  BY DEF Leaves, Return, Keep, world, cpHistory
<1>2. CopiesApart => CopiesApart'
  BY <1>1 DEF CopiesApart, HasNot
<1> QED
  BY <1>1, <1>2 DEF CopyInv, SourceHas, OwnFiles, IsDir, AtFile

LEMMA CopyNextArg ==
    ASSUME CopyInv, NextArg
    PROVE  CopyInv'
<1>1. UNCHANGED <<src, tgt, inode, linktab, owed>> /\ cpat' \in {"go", "end"}
  BY DEF NextArg, world, cpHistory
<1>2. CopiesApart => CopiesApart'
  BY <1>1 DEF CopiesApart, HasNot
<1> QED
  BY <1>1, <1>2 DEF CopyInv, SourceHas, OwnFiles, IsDir, AtFile

LEMMA CopyGo ==
    ASSUME Active, CopyInv, Go
    PROVE  CopyInv'
<1>1. CASE Stop
  BY <1>1, StopLeaves, CopyLeaves
<1>2. CASE ~Missing /\ ~Identical /\ UNCHANGED <<world, path, linktab, owed>>
           /\ cpat' \in {"ln", "rename", "copy"}
  <2>1. Active' /\ cpat = "go"
    BY GoRuns DEF Go
  <2>2. dsp = tgt[path] /\ (cpat' = "copy" => src'[path'] # NoIno)
    BY <2>1 DEF Active, Position
  <2>3. cpat' = "copy" => tgt[path'] # src[path']
    BY <1>2, <2>2 DEF Identical, world
  <2>4. CopiesApart => CopiesApart'
    BY <1>2 DEF CopiesApart, HasNot, world
  <2> QED
    BY <1>2, <2>3, <2>4 DEF CopyInv, SourceHas, OwnFiles, IsDir, AtFile, world
<1> QED
  BY <1>1, <1>2 DEF Go, Goto, Keep, cpHistory

LEMMA CopyCopyDir ==
    ASSUME Active, CopyInv, CopyDir
    PROVE  CopyInv'
<1>1. cpat' \in {"read", "next"} /\ linktab' = linktab /\ cpat' \notin {"copy"} \cup AtFile
  BY DEF CopyDir, Return, AtFile
<1>2. \A c \in owed' : c \in owed \/ SourceHas(c)
  <2>1. owed' = owed \/ owed' = owed \cup ({inode[src[p]].data : p \in Kids(src, path)} \ {NoData})
    BY DEF CopyDir
  <2> QED
    BY <2>1 DEF Kids, SourceHas
<1>3. path \in Rel
  BY CopyDirMakes
<1>4. CASE UNCHANGED world
  <2>1. CopiesApart => CopiesApart'
    BY <1>1, <1>4 DEF CopiesApart, HasNot, world
  <2> QED
    BY <1>1, <1>2, <1>4, <2>1, CopySame DEF world, CopyInv
<1>5. CASE \E i \in Ino : HasNot(src, i) /\ TgtStep(path, i)
  BY <1>1, <1>2, <1>3, <1>5, CopyStep
<1> QED
  BY <1>4, <1>5, CopyDirMakes

LEMMA CopyReadDir ==
    ASSUME CopyInv, ReadDir
    PROVE  CopyInv'
<1>1. UNCHANGED <<src, tgt, inode, linktab, owed>> /\ cpat' \in {"go", "last", "read"}
  BY DEF ReadDir, Finish, Keep, world, cpHistory
<1>2. CopiesApart => CopiesApart'
  BY <1>1 DEF CopiesApart, HasNot
<1> QED
  BY <1>1, <1>2 DEF CopyInv, SourceHas, OwnFiles, IsDir, AtFile

LEMMA CopyCopyFile ==
    ASSUME CopyInv, CopyFile
    PROVE  CopyInv'
<1>1. UNCHANGED <<src, tgt, inode, linktab, owed, path>> /\ cpat = "copy"
  BY DEF CopyFile, Goto, Keep, world, cpHistory
<1>2. CopiesApart => CopiesApart'
  BY <1>1 DEF CopiesApart, HasNot
<1> QED
  BY <1>1, <1>2 DEF CopyInv, SourceHas, OwnFiles, IsDir

LEMMA CopyCanLink ==
    ASSUME Active, CopyInv, CanLink
    PROVE  CopyInv'
<1>1. /\ cpat = "canlink" /\ SameObject
      /\ FirstName \/ OtherName \/ NotLinked
  BY CanLinkCases
<1>2. World /\ CpStates /\ path \in Rel /\ src[path] \in Ino
  BY <1>1, AtFileFacts DEF Active, AtFile
<1>3. NotShared /\ tgt[path] # src[path]
  BY <1>1, CopyNotShared DEF AtFile, CopyInv
<1>4. CASE FirstName
  <2>1. UNCHANGED <<src, tgt, inode, path, owed>>
    BY <1>1, <1>4 DEF FirstName, world, SameObject
  <2>2. \A i \in Ino : linktab'[i] = IF i = src[path] THEN path ELSE linktab[i]
    BY <1>2, <1>4 DEF FirstName, CpStates
  <2>3. CopiesApart'
    BY <1>3, <2>1, <2>2 DEF CopiesApart, CopyInv, HasNot, NotShared
  <2> QED
    BY <1>3, <2>1, <2>3, CopySame DEF CopyInv
<1>5. CASE OtherName
  <2>1. PICK j \in Ino : j = tgt[linktab[src[path]]] /\ TgtStep(path, j)
    BY <1>1, <1>5, OtherNameFacts
  <2>2. j = NoIno \/ HasNot(src, j)
    BY <1>2, <1>5, <2>1 DEF CopyInv, CopiesApart, OtherName
  <2>3. cpat' \notin {"copy"} \cup AtFile /\ linktab' = linktab /\ owed' = owed
    BY <1>1, <1>5 DEF OtherName, Finish, AtFile, SameObject
  <2> QED
    BY <1>2, <2>1, <2>2, <2>3, CopyStep
<1>6. CASE NotLinked
  <2>1. UNCHANGED <<src, tgt, inode, linktab, path, owed>>
    BY <1>1, <1>6 DEF NotLinked, world, SameObject
  <2>2. CopiesApart => CopiesApart'
    BY <2>1 DEF CopiesApart, HasNot
  <2> QED
    BY <1>3, <2>1, <2>2, CopySame DEF CopyInv
<1> QED
  BY <1>1, <1>4, <1>5, <1>6

\* A file that the source has not is written to.
LEMMA CopyWritten ==
    ASSUME Active, CopyInv, cpat \in AtFile, NEW d \in Nat, tgt[path] # NoIno,
           inode' = [inode EXCEPT ![tgt[path]].data = d],
           UNCHANGED <<src, tgt, path, linktab, owed>>
    PROVE  CopyInv'
<1>1. World /\ path \in Rel
  BY AtFileFacts
<1>2. HasNot(src, tgt[path]) /\ tgt[path] # src[path]
  BY CopyNotShared DEF NotShared, CopyInv
<1>3. SrcKept /\ \A i \in Ino : inode'[i].kind = inode[i].kind
  BY <1>1, <1>2, WriteFacts
<1>4. \A q \in Rel : ~IsDir(inode, src[q]) => ~IsDir(inode', src[q])
  BY <1>3 DEF SrcKept, IsDir
<1>5. OwnFiles(src, tgt, inode)'
  <2>1. ASSUME NEW a \in Rel, NEW b \in Rel, tgt[a] # NoIno, tgt[a] = src[b]
        PROVE  src[a] = tgt[a] \/ (src[a] = NoIno /\ (Len(a) > 1 => ~IsDir(inode', src[Front(a)])))
    <3>1. src[a] = tgt[a] \/ (src[a] = NoIno /\ (Len(a) > 1 => ~IsDir(inode, src[Front(a)])))
      BY <2>1 DEF CopyInv, OwnFiles
    <3> QED
      BY <1>4, <3>1, FrontIsPath
  <2> QED
    BY <2>1 DEF OwnFiles
<1>6. \A c \in owed : SourceHas(c)'
  <2>1. src' = src /\ \A q \in Rel : src[q] # NoIno => inode'[src[q]] = inode[src[q]]
    BY <1>3 DEF SrcKept
  <2>2. ASSUME NEW c \in owed PROVE SourceHas(c)'
    <3>1. PICK q \in Rel : src[q] # NoIno /\ inode[src[q]].data = c
      BY <2>2 DEF CopyInv, SourceHas
    <3>2. src'[q] # NoIno /\ inode'[src'[q]].data = c
      BY <2>1, <3>1
    <3> QED
      BY <3>2 DEF SourceHas
  <2> QED
    BY <2>2
<1>7. CopiesApart'
  BY DEF CopyInv, CopiesApart, HasNot
<1> QED
  BY <1>2, <1>5, <1>6, <1>7 DEF CopyInv

\* The world stays, and the object ends.
LEMMA CopyEnds ==
    ASSUME CopyInv, UNCHANGED <<src, tgt, inode, linktab, owed>>, Finish(path)
    PROVE  CopyInv'
<1>1. cpat' \notin {"copy"} \cup AtFile
  BY DEF Finish, AtFile
<1>2. CopiesApart => CopiesApart'
  BY DEF CopiesApart, HasNot
<1> QED
  BY <1>1, <1>2, CopySame DEF CopyInv

LEMMA CopyCreat ==
    ASSUME Active, CopyInv, Creat
    PROVE  CopyInv'
<1>1. /\ cpat = "creat" /\ SameObject /\ linktab' = linktab
      /\ NewFile \/ Emptied \/ FileFails
  BY CreatCases
<1>2. path \in Rel /\ src[path] # NoIno /\ path' = path /\ owed' = owed
  BY <1>1, AtFileFacts DEF AtFile, SameObject
<1>3. CASE NewFile
  <2>1. PICK i \in Ino : HasNot(src, i) /\ TgtStep(path, i)
    BY <1>1, <1>3, NewFileFacts
  <2> QED
    BY <1>1, <1>2, <2>1, CopyStep DEF HasNot
<1>4. CASE Emptied
  BY <1>1, <1>2, <1>4, CopyWritten DEF Emptied, AtFile, NoData
<1>5. CASE FileFails
  BY <1>1, <1>2, <1>5, CopyEnds DEF FileFails, world
<1> QED
  BY <1>1, <1>3, <1>4, <1>5

LEMMA CopyCopyData ==
    ASSUME Active, CopyInv, CopyData
    PROVE  CopyInv'
<1>1. /\ cpat = "data" /\ SameObject /\ UNCHANGED <<src, tgt, linktab>> /\ Finish(path)
      /\ Written \/ NotWritten
  BY CopyDataCases DEF Active
<1>2. World /\ path \in Rel /\ src[path] \in Ino /\ tgt[path] # NoIno
      /\ path' = path /\ owed' = owed
  BY <1>1, AtFileFacts DEF AtFile, SameObject, Active, Position
<1>3. CASE Written
  <2>1. PICK d : d = inode[src[path]].data
    OBVIOUS
  <2>2. d \in Nat
    BY <1>2, <2>1 DEF World, InodeRecord
  <2>3. inode' = [inode EXCEPT ![tgt[path]].data = d]
    BY <1>3, <2>1 DEF Written
  <2> QED
    BY <1>1, <1>2, <2>2, <2>3, CopyWritten DEF AtFile
<1>4. CASE NotWritten
  BY <1>1, <1>2, <1>4, CopyEnds DEF NotWritten
<1> QED
  BY <1>1, <1>3, <1>4

LEMMA CopySpecial ==
    ASSUME Active, CopyInv, Special
    PROVE  CopyInv'
<1>1. /\ cpat = "special" /\ SameObject /\ linktab' = linktab /\ Finish(path)
      /\ Passed \/ NewSpecial \/ SpecialFails
  BY SpecialCases DEF Active
<1>2. World /\ path \in Rel /\ owed' = owed
  BY <1>1, AtFileFacts DEF AtFile, SameObject
<1>3. cpat' \notin {"copy"} \cup AtFile
  BY <1>1 DEF Finish, AtFile
<1>4. CASE UNCHANGED world
  BY <1>1, <1>2, <1>4, CopyEnds DEF world
<1>5. CASE NewSpecial
  <2>1. PICK i \in Ino : HasNot(src, i) /\ TgtStep(path, i)
    BY <1>1, <1>5, NewSpecialFacts
  <2> QED
    BY <1>1, <1>2, <1>3, <2>1, CopyStep
<1>6. CASE UnlinkTgt(path)
  <2>1. TgtStep(path, NoIno)
    BY <1>2, <1>6, UnlinkTgtFacts
  <2> QED
    BY <1>1, <1>2, <1>3, <2>1, CopyStep
<1> QED
  BY <1>1, <1>4, <1>5, <1>6 DEF Passed, SpecialFails

LEMMA CopyEndOfArg ==
    ASSUME CopyInv, ~Mv, EndOfArg
    PROVE  CopyInv'
<1>1. UNCHANGED <<src, tgt, inode, owed>> /\ cpat' = "next" /\ Freedslots
  BY DEF EndOfArg, Done, Keep, world, cpHistory
<1>2. NoLinks'
  BY <1>1 DEF Freedslots, NoLinks
<1>3. CopiesApart'
  BY <1>2 DEF NoLinks, CopiesApart
<1> QED
  BY <1>1, <1>3, CopySame DEF AtFile

LEMMA CopyLn ==
    ASSUME Active, CopyInv, LnUnlink \/ Ln
    PROVE  CopyInv'
<1>1. cpat' \in {"ln", "next"} /\ linktab' = linktab /\ cpat = "ln"
  BY DEF LnUnlink, Ln, Goto
<1>2. NoLinks /\ cpat' \notin {"copy"} \cup AtFile
  BY <1>1 DEF Active, Position, AtFile
<1>3. CASE LnUnlink
  BY <1>1, <1>2, <1>3, LnUnlinkRuns, CopyStep
<1>4. CASE Ln
  <2>1. path \in Rel /\ owed' = owed
    BY <1>4, LnCases
  <2>2. CASE UNCHANGED world
    <3>1. CopiesApart => CopiesApart'
      BY <1>1, <2>2 DEF CopiesApart, HasNot, world
    <3> QED
      BY <1>2, <2>1, <2>2, <3>1, CopySame DEF world, CopyInv
  <2>3. CASE \E j \in Ino : TgtStep(path, j) /\ (HasNot(src, j) \/ j = src[path])
    BY <1>1, <1>2, <2>1, <2>3, CopyStep
  <2> QED
    BY <1>4, <2>2, <2>3, LnCases
<1> QED
  BY <1>3, <1>4

\* The names that somebody else gives are none that cp writes through.
LEMMA CopySomebody ==
    ASSUME Active, CopyInv, Somebody
    PROVE  CopyInv'
<1>1. UNCHANGED <<cpat, path, linktab, owed>>
  BY SomebodyRuns
<1>2. PICK p \in Rel, i \in Ino : SrcGrows(p, i)
  BY SomebodyFacts DEF Active
<1>3. World
  BY ActiveWorld DEF Active
<1>4. /\ src[p] = NoIno /\ Len(p) > 1 /\ IsDir(inode, src[Front(p)])
      /\ i # NoIno /\ inode'[i].kind = "reg" /\ tgt' = tgt
      /\ \A q \in Rel : src[q] # NoIno => inode'[src[q]] = inode[src[q]]
      /\ \A q \in Rel : src'[q] = IF q = p THEN i ELSE src[q]
      /\ HasNot(tgt, i) \/ \E q \in Rel : src[q] = i
  BY <1>2, <1>3 DEF SrcGrows, World
<1>5. \A q \in Rel : ~IsDir(inode, src[q]) => ~IsDir(inode', src'[q])
  BY <1>4 DEF IsDir
<1>6. ASSUME NEW a \in Rel, NEW b \in Rel, tgt[a] # NoIno, tgt[a] = src'[b]
      PROVE  src'[a] = tgt[a] \/ (src'[a] = NoIno /\ (Len(a) > 1 => ~IsDir(inode', src'[Front(a)])))
  <2>1. PICK e \in Rel : tgt[a] = src[e]
    BY <1>4, <1>6 DEF HasNot
  <2>2. src[a] = tgt[a] \/ (src[a] = NoIno /\ (Len(a) > 1 => ~IsDir(inode, src[Front(a)])))
    BY <1>6, <2>1 DEF CopyInv, OwnFiles
  <2>3. CASE src[a] = tgt[a]
    BY <1>4, <1>6, <2>3
  <2>4. CASE src[a] = NoIno /\ (Len(a) > 1 => ~IsDir(inode, src[Front(a)]))
    <3>1. a # p
      BY <1>4, <2>4
    <3> QED
      BY <1>4, <1>5, <2>4, <3>1, FrontIsPath
  <2> QED
    BY <2>2, <2>3, <2>4
<1>7. OwnFiles(src, tgt, inode)'
  BY <1>4, <1>6 DEF OwnFiles
<1>8. \A c \in owed' : SourceHas(c)'
  BY <1>1, <1>4 DEF CopyInv, SourceHas
<1>9. CopiesApart'
  <2>1. \A l \in Ino : linktab[l] # NoPath => linktab[l] \in Rel
    BY DEF Active, CpStates
  <2> QED
    BY <1>1, <1>4, <2>1 DEF CopyInv, CopiesApart, HasNot
<1>10. cpat' \in {"copy"} \cup AtFile => tgt'[path'] # src'[path']
  <2>1. cpat \in {"copy"} \cup AtFile => path \in Rel /\ src[path] # NoIno
    BY AtFileFacts
  <2> QED
    BY <1>1, <1>4, <2>1 DEF CopyInv
<1> QED
  BY <1>7, <1>8, <1>9, <1>10 DEF CopyInv

\* Every step of cp and of ln.
LEMMA CopyPreserved ==
    ASSUME Active, ~Mv, CopyInv, CpStep \/ Somebody
    PROVE  CopyInv'
<1>1. CASE Leaves
  BY <1>1, CopyLeaves
<1>2. cpat \notin {"rename", "delete", "rmread"}
  BY DEF Active, Position
<1>3. CASE Go \/ NextArg \/ CopyDir \/ ReadDir \/ CopyFile
  BY <1>3, CopyGo, CopyNextArg, CopyCopyDir, CopyReadDir, CopyCopyFile
<1>4. CASE CanLink \/ Creat \/ CopyData \/ Special
  BY <1>4, CopyCanLink, CopyCreat, CopyCopyData, CopySpecial
<1>5. CASE EndOfArg \/ LnUnlink \/ Ln \/ Somebody
  BY <1>5, CopyEndOfArg, CopyLn, CopySomebody
<1>6. CASE Decline \/ CopyDirRefused \/ LnRefused
  BY <1>1, <1>6, DeclineLeaves, CopyDirRefusedLeaves, LnRefusedLeaves
<1>7. CASE Rename \/ RenameAcross \/ TryDelete \/ DeleteNext
  BY <1>2, <1>7 DEF Rename, RenameAcross, TryDelete, DeleteNext
<1> QED
  BY <1>3, <1>4, <1>5, <1>6, <1>7 DEF CpStep

-----------------------------------------------------------------------------
(* mv: what is owed is still to be copied, or it is copied *)

\* Two operands have two names.
LEMMA ArgsDiffer ==
    ASSUME NEW j \in DOMAIN Args, NEW k \in DOMAIN Args, Args[j][1] = Args[k][1]
    PROVE  j = k
<1>1. DOMAIN Args = 1..Len(Args) /\ Args \in Seq(Rel)
  BY CpAssumption, LenProperties
<1>2. Args[j] \in Rel /\ Args[k] \in Rel /\ Len(Args[j]) = 1 /\ Len(Args[k]) = 1
  BY <1>1, CpAssumption, ElementOfSeq
<1>3. Args[j] = Args[k]
  BY <1>2, PrefixNames
<1> QED
  BY <1>3, CpAssumption

LEMMA MovedOn ==
    ASSUME CpStates, argn' = argn, Before' => Before, NEW p, Moved(p)
    PROVE  Moved(p)'
<1>1. argn \in Nat /\ Len(Args) \in Nat
  BY ActiveWorld
<1>2. \A k \in argn + 1..Len(Args) : k \in argn..Len(Args)
  BY <1>1
<1> QED
  BY <1>2 DEF Moved

\* What is below the operand that is copied is below no other that is to come.
LEMMA MovedNow ==
    ASSUME Active, argn >= 1, NEW p, Below(p), ~Before
    PROVE  Moved(p)
<1>1. argn \in Nat /\ Len(Args) \in Nat /\ argn <= Len(Args) /\ DOMAIN Args = 1..Len(Args)
  BY ActiveWorld, CpAssumption, LenProperties DEF Active, Position
<1>2. ASSUME NEW k \in argn + 1..Len(Args) PROVE p[1] # Args[k][1]
  <2>1. argn \in DOMAIN Args /\ k \in DOMAIN Args /\ argn # k
    BY <1>1
  <2> QED
    BY <2>1, ArgsDiffer DEF Below
<1> QED
  BY <1>2 DEF Moved

\* A file that is still in the source, with what is still to be done.
LEMMA SourceStep ==
    ASSUME SrcKept, argn' = argn, NEW p \in Rel, NEW c,
           src[p] # NoIno, inode[src[p]].data = c,
           Copies /\ ~errcnt => ~Below(p) \/ Todo(p),
           Copies' /\ ~errcnt' => Copies /\ ~errcnt /\ (Todo(p) => Todo(p)'),
           Deleting' => ~Below(p)
    PROVE  InSource(c)'
<1>1. src'[p] # NoIno /\ inode'[src'[p]].data = c
  BY DEF SrcKept
<1>2. Below(p)' <=> Below(p)
  BY DEF Below
<1> QED
  BY <1>1, <1>2 DEF InSource

\* A file in the target that is not the one whose name changes.
LEMMA TargetStep ==
    ASSUME CpStates, NEW t \in Rel, NEW j, TgtStep(t, j), argn' = argn, Before' => Before,
           tgt[t] = NoIno \/ ~Moved(t) \/ UNCHANGED world, NEW c, InTarget(c)
    PROVE  InTarget(c)'
<1>1. PICK p \in Rel : tgt[p] # NoIno /\ inode[tgt[p]].data = c /\ Moved(p)
  BY DEF InTarget
<1>2. Moved(p)'
  BY <1>1, MovedOn
<1>3. tgt'[p] # NoIno /\ inode'[tgt'[p]].data = c
  <2>1. CASE UNCHANGED world
    BY <1>1, <2>1 DEF world
  <2>2. CASE p # t
    BY <1>1, <2>2 DEF TgtStep, CpStates
  <2> QED
    BY <1>1, <2>1, <2>2
<1> QED
  BY <1>2, <1>3 DEF InTarget

\* The same when no name changes.
LEMMA TargetSame ==
    ASSUME CpStates, UNCHANGED world, argn' = argn, Before' => Before, NEW c, InTarget(c)
    PROVE  InTarget(c)'
<1>1. PICK p \in Rel : tgt[p] # NoIno /\ inode[tgt[p]].data = c /\ Moved(p)
  BY DEF InTarget
<1>2. Moved(p)'
  BY <1>1, MovedOn
<1> QED
  BY <1>1, <1>2 DEF InTarget, world

\* A directory that is read is as it was, but for an entry that has been seen.
LEMMA FreshSame ==
    ASSUME UNCHANGED world, NEW k, FreshDir(k),
           stack'[k].dir = stack[k].dir, stack'[k].had = stack[k].had,
           stack[k].seen \subseteq stack'[k].seen
    PROVE  FreshDir(k)'
<1>1. IsDir(inode, tgt[stack[k].dir])'
  BY DEF FreshDir, world
<1>2. (stack[k].had \subseteq Kids(src, stack[k].dir))'
  BY DEF FreshDir, world, Kids
<1>3. (\A q \in Rel : ChildOf(stack[k].dir, q) /\ q \notin stack[k].seen => tgt[q] = NoIno)'
  BY DEF FreshDir, world, ChildOf
<1> QED
  BY <1>1, <1>2, <1>3 DEF FreshDir

\* cpmv() returns with an error, or in level 0.
LEMMA MoveLeaves ==
    ASSUME Active, Mv, MoveInv, cpat \in {"go", "rename", "copy"}, Leaves,
           errcnt' \/ stack = <<>>
    PROVE  MoveInv'
<1>1. UNCHANGED <<src, tgt, inode, argn, stack, linktab, owed, path>> /\ UNCHANGED world
  BY DEF Leaves, Keep, world, cpHistory
<1>2. Active' /\ IF stack = <<>> THEN cpat' = "next" ELSE cpat' = "read"
  BY LeavesRuns
<1>3. ~Before' /\ ~Deleting' /\ (Copies' => stack # <<>> /\ cpat' = "read" /\ errcnt')
  BY <1>2 DEF Before, Deleting, Copies, AtObject, AtFile
<1>4. stack # <<>> => Copies
  BY DEF Active, Levels, Copies, Before, AtObject, AtTop
<1>5. OwedIsHeld'
  <2>1. ASSUME NEW c \in owed, InSource(c) PROVE InSource(c)'
    BY <1>1, <1>3, <2>1 DEF InSource
  <2>2. ASSUME NEW c \in owed, InTarget(c) PROVE InTarget(c)'
    BY <1>1, <1>3, <2>2, TargetSame DEF Active
  <2> QED
    BY <1>1, <2>1, <2>2 DEF MoveInv, OwedIsHeld
<1>6. IsTree(tgt, inode)'
  BY <1>1 DEF MoveInv, IsTree, IsDir
<1>7. Copies' => FreshTree'
  <2>1. ASSUME Copies', NEW k \in 1..Len(stack) PROVE FreshDir(k)'
    BY <1>1, <1>3, <1>4, <2>1, FreshSame DEF MoveInv, FreshTree
  <2> QED
    BY <1>1, <1>3, <2>1 DEF FreshTree, AtObject, AtFile
<1> QED
  BY <1>3, <1>5, <1>6, <1>7 DEF MoveInv

LEMMA MoveNextArg ==
    ASSUME Active, MoveInv, NextArg, cpat' # "end"
    PROVE  MoveInv'
<1>1. UNCHANGED <<src, tgt, inode, stack, linktab, owed>> /\ argn' = argn + 1
      /\ cpat = "next" /\ cpat' = "go"
  BY DEF NextArg, world, cpHistory
<1>2. stack = <<>> /\ argn \in Nat
  BY <1>1, ActiveWorld DEF Active, Levels
<1>3. Before' /\ ~Copies' /\ ~Deleting' /\ ~Before
  BY <1>1, <1>2 DEF Before, Copies, Deleting
<1>4. OwedIsHeld'
  <2>1. ASSUME NEW c \in owed, InSource(c) PROVE InSource(c)'
    BY <1>1, <1>3, <2>1 DEF InSource
  <2>2. ASSUME NEW p, Moved(p) PROVE Moved(p)'
    BY <1>1, <1>3, <2>2 DEF Moved
  <2>3. ASSUME NEW c \in owed, InTarget(c) PROVE InTarget(c)'
    BY <1>1, <2>2, <2>3 DEF InTarget
  <2> QED
    BY <1>1, <2>1, <2>3 DEF MoveInv, OwedIsHeld
<1>5. IsTree(tgt, inode)'
  BY <1>1 DEF MoveInv, IsTree, IsDir
<1> QED
  BY <1>3, <1>4, <1>5 DEF MoveInv

LEMMA MoveGo ==
    ASSUME Active, Mv, MoveInv, Go
    PROVE  MoveInv'
<1>1. Active' /\ cpat = "go"
  BY GoRuns DEF Go
<1>2. CASE Stop
  BY <1>1, <1>2, StopLeaves, MoveLeaves
<1>3. CASE /\ cpat' = (IF opt.go = "ln" THEN "ln" ELSE IF Mv /\ Level = 0 THEN "rename" ELSE "copy")
           /\ UNCHANGED <<world, path, stack, linktab, errors>> /\ Keep
  <2>1. UNCHANGED <<src, tgt, inode, argn, stack, linktab, owed, path, errcnt>> /\ UNCHANGED world
    BY <1>3 DEF world, Keep, cpHistory, errors
  <2>2. cpat' = IF Level = 0 THEN "rename" ELSE "copy"
    BY <1>3 DEF Mv
  <2>3. Level = 0 <=> stack = <<>>
    <3>1. Len(path) = Len(stack) + 1
      BY <1>1 DEF Active, Levels, AtObject
    <3> QED
      BY <3>1, ActiveWorld DEF Active, Level
  <2>4. cpat' = IF stack = <<>> THEN "rename" ELSE "copy"
    BY <2>2, <2>3
  <2>5. (Before' <=> Before) /\ (Copies' <=> Copies) /\ ~Deleting /\ ~Deleting'
    BY <1>1, <2>1, <2>4 DEF Before, Copies, Deleting, AtObject, AtFile
  <2>6. ASSUME Copies, NEW p, Todo(p) PROVE Todo(p)'
    <3>1. cpat' = "copy"
      BY <1>1, <2>4, <2>6 DEF Copies, Before
    <3> QED
      BY <1>1, <2>1, <2>6, <3>1 DEF Todo, AtFile
  <2>7. OwedIsHeld'
    <3>1. ASSUME NEW c \in owed, InSource(c) PROVE InSource(c)'
      BY <2>1, <2>5, <2>6, <3>1 DEF InSource, Below
    <3>2. ASSUME NEW c \in owed, InTarget(c) PROVE InTarget(c)'
      BY <2>1, <2>5, <3>2, TargetSame DEF Active
    <3> QED
      BY <2>1, <3>1, <3>2 DEF MoveInv, OwedIsHeld
  <2>8. IsTree(tgt, inode)'
    BY <2>1 DEF MoveInv, IsTree, IsDir
  <2>9. Copies' => FreshTree'
    <3>1. ASSUME Copies', NEW k \in 1..Len(stack) PROVE FreshDir(k)'
      BY <2>1, <2>5, <3>1, FreshSame DEF MoveInv, FreshTree
    <3>2. Copies' => tgt[path] = NoIno
      BY <1>1, <2>5 DEF MoveInv, FreshTree, AtObject
    <3>3. cpat' # "data"
      BY <2>4
    <3> QED
      BY <2>1, <3>1, <3>2, <3>3 DEF FreshTree
  <2>10. Copies' /\ ~errcnt' => CopiesAgree'
    BY <1>1, <2>1, <2>5 DEF MoveInv, CopiesAgree
  <2> QED
    BY <2>7, <2>8, <2>9, <2>10 DEF MoveInv
<1> QED
  BY <1>2, <1>3 DEF Go, Goto

\* In level 0 the path is a single name, that of the operand.
LEMMA TopPath ==
    ASSUME Active, cpat \in {"go", "rename", "copy"}, stack = <<>>
    PROVE  /\ path \in Rel /\ Len(path) = 1 /\ Below(path) /\ argn >= 1 /\ NoLinks
           /\ \A p \in Rel : Below(p) <=> IsPrefix(path, p)
<1>1. path \in Rel /\ Below(path) /\ Len(path) = Len(stack) + 1
  BY DEF Active, Levels, AtObject, AtTop
<1>2. Len(path) = 1
  BY <1>1, ActiveWorld DEF Active
<1>3. argn >= 1 /\ NoLinks
  BY DEF Active, Position
<1>4. \A p \in Rel : Below(p) <=> IsPrefix(path, p)
  BY <1>1, <1>2, PrefixNames DEF Below
<1> QED
  BY <1>1, <1>2, <1>3, <1>4

\* Before the operand is renamed, what is in the target is of no operand to come.
LEMMA BelowNotMoved ==
    ASSUME Active, Before, argn >= 1, NEW p, Below(p)
    PROVE  ~Moved(p)
<1>1. argn \in Nat /\ Len(Args) \in Nat /\ argn <= Len(Args)
  BY ActiveWorld DEF Active, Position
<1>2. argn \in argn..Len(Args)
  BY <1>1
<1> QED
  BY <1>2 DEF Moved, Below

LEMMA MoveRenamed ==
    ASSUME Active, MoveInv, cpat = "rename", Renamed
    PROVE  MoveInv'
<1>1. Active' /\ cpat' = "next" /\ stack = <<>>
  BY RenamedRuns
<1>2. /\ path \in Rel /\ Len(path) = 1 /\ Below(path) /\ argn >= 1
      /\ \A p \in Rel : Below(p) <=> IsPrefix(path, p)
  BY <1>1, TopPath
<1>3. /\ \A p \in Rel : src'[p] = IF IsPrefix(path, p) THEN NoIno ELSE src[p]
      /\ \A p \in Rel : tgt'[p] = IF IsPrefix(path, p) THEN src[p] ELSE tgt[p]
      /\ \A p \in Rel : src'[p] # NoIno => inode'[src'[p]] = inode[src'[p]]
      /\ \A p \in Rel : tgt'[p] # NoIno => inode'[tgt'[p]] = inode[tgt'[p]]
  BY <1>2, RenamedFacts, ActiveWorld DEF Active
<1>4. UNCHANGED <<owed, argn>>
  BY DEF Renamed, Keep, cpHistory
<1>5. Before /\ ~Before' /\ ~Copies' /\ ~Deleting'
  BY <1>1 DEF Before, Copies, Deleting, AtObject, AtFile
<1>6. ASSUME NEW p, Below(p) PROVE Moved(p)'
  <2>1. argn \in Nat /\ Len(Args) \in Nat /\ argn <= Len(Args) /\ DOMAIN Args = 1..Len(Args)
    BY ActiveWorld, CpAssumption, LenProperties DEF Active, Position
  <2>2. ASSUME NEW k \in argn + 1..Len(Args) PROVE p[1] # Args[k][1]
    <3>1. argn \in DOMAIN Args /\ k \in DOMAIN Args /\ argn # k
      BY <1>2, <2>1
    <3> QED
      BY <1>6, <3>1, ArgsDiffer DEF Below
  <2> QED
    BY <1>4, <1>5, <2>2 DEF Moved
<1>7. ASSUME NEW c \in owed, InSource(c) PROVE InSource(c)' \/ InTarget(c)'
  <2>1. PICK p \in Rel : src[p] # NoIno /\ inode[src[p]].data = c
    BY <1>7 DEF InSource
  <2>2. CASE IsPrefix(path, p)
    <3>1. tgt'[p] # NoIno /\ inode'[tgt'[p]].data = c
      BY <1>3, <2>1, <2>2
    <3> QED
      BY <1>2, <1>6, <2>2, <3>1 DEF InTarget
  <2>3. CASE ~IsPrefix(path, p)
    <3>1. src'[p] # NoIno /\ inode'[src'[p]].data = c
      BY <1>3, <2>1, <2>3
    <3> QED
      BY <1>5, <3>1 DEF InSource
  <2> QED
    BY <2>2, <2>3
<1>8. ASSUME NEW c \in owed, InTarget(c) PROVE InTarget(c)'
  <2>1. PICK p \in Rel : tgt[p] # NoIno /\ inode[tgt[p]].data = c /\ Moved(p)
    BY <1>8 DEF InTarget
  <2>2. ~IsPrefix(path, p)
    BY <1>2, <1>5, <2>1, BelowNotMoved
  <2>3. tgt'[p] # NoIno /\ inode'[tgt'[p]].data = c
    BY <1>3, <2>1, <2>2
  <2>4. Moved(p)'
    BY <1>4, <1>5, <2>1, MovedOn DEF Active
  <2> QED
    BY <2>3, <2>4 DEF InTarget
<1>9. OwedIsHeld'
  BY <1>4, <1>7, <1>8 DEF MoveInv, OwedIsHeld
<1>10. ASSUME NEW p \in Rel, tgt'[p] # NoIno, NEW n \in 1..Len(p) - 1
       PROVE  IsDir(inode', tgt'[SubSeq(p, 1, n)])
  <2>1. PICK r : r = SubSeq(p, 1, n)
    OBVIOUS
  <2>2. r \in Rel /\ IsPrefix(r, p)
    BY <2>1, CutNames
  <2>3. IsPrefix(path, r) <=> IsPrefix(path, p)
    BY <1>2, <2>2, PrefixNames
  <2>4. CASE IsPrefix(path, p)
    <3>1. src[p] # NoIno
      BY <1>3, <1>10, <2>4
    <3>2. IsDir(inode, src[r])
      BY <2>1, <3>1 DEF Active, Files, IsTree
    <3> QED
      BY <1>3, <2>1, <2>2, <2>3, <2>4, <3>2 DEF IsDir
  <2>5. CASE ~IsPrefix(path, p)
    <3>1. tgt[p] # NoIno
      BY <1>3, <1>10, <2>5
    <3>2. IsDir(inode, tgt[r])
      BY <2>1, <3>1 DEF MoveInv, IsTree
    <3> QED
      BY <1>3, <2>1, <2>2, <2>3, <2>5, <3>2 DEF IsDir
  <2> QED
    BY <2>4, <2>5
<1>11. IsTree(tgt, inode)'
  BY <1>10 DEF IsTree
<1> QED
  BY <1>5, <1>9, <1>11 DEF MoveInv

LEMMA MoveRename ==
    ASSUME Active, Mv, MoveInv, Rename
    PROVE  MoveInv'
<1>1. CASE Renamed
  BY <1>1, MoveRenamed DEF Rename
<1>2. CASE Stop
  BY <1>2, StopLeaves, MoveLeaves DEF Rename
<1> QED
  BY <1>1, <1>2 DEF Rename, Renamed

\* A name goes that no other goes through.
LEMMA TreeLoses ==
    ASSUME World, IsTree(tgt, inode), NEW t \in Rel, TgtStep(t, NoIno), Kids(tgt, t) = {}
    PROVE  IsTree(tgt, inode)'
<1>1. ASSUME NEW p \in Rel, tgt'[p] # NoIno, NEW n \in 1..Len(p) - 1
      PROVE  IsDir(inode', tgt'[SubSeq(p, 1, n)])
  <2>1. PICK r : r = SubSeq(p, 1, n)
    OBVIOUS
  <2>2. r \in Rel /\ IsPrefix(r, p) /\ Len(r) = n
    BY <2>1, CutNames
  <2>3. tgt[p] # NoIno /\ p # t
    BY <1>1 DEF TgtStep, World
  <2>4. IsDir(inode, tgt[r])
    BY <2>1, <2>3 DEF IsTree
  <2>5. r # t
    <3>1. SUFFICES ASSUME r = t PROVE FALSE
      OBVIOUS
    <3>2. PICK q \in Rel : ChildOf(t, q) /\ (q = p \/ \E m \in 1..Len(p) - 1 : q = SubSeq(p, 1, m))
      BY <2>2, <2>3, <3>1, ThroughChild
    <3>3. tgt[q] # NoIno
      BY <2>3, <3>2 DEF IsTree, IsDir
    <3>4. q \in Kids(tgt, t)
      BY <3>2, <3>3 DEF Kids, ChildOf
    <3> QED
      BY <3>4
  <2>6. tgt'[r] = tgt[r]
    BY <2>2, <2>5 DEF TgtStep, World
  <2> QED
    BY <2>1, <2>2, <2>4, <2>5, <2>6 DEF TgtStep, IsDir
<1> QED
  BY <1>1 DEF IsTree

\* On another device nothing is in the way, and the operand is to be copied.
LEMMA MoveStarts ==
    ASSUME Active, MoveInv, Active', cpat = "rename", cpat' = "copy", stack = <<>>,
           UNCHANGED <<path, stack, argn, linktab, owed>>, dsp' = NoIno,
           TgtStep(path, NoIno), IsTree(tgt, inode)'
    PROVE  MoveInv'
<1>1. /\ path \in Rel /\ Below(path) /\ argn >= 1 /\ NoLinks
      /\ \A p \in Rel : Below(p) <=> IsPrefix(path, p)
  BY TopPath
<1>2. Before /\ ~Copies /\ ~Before' /\ ~Deleting'
  BY DEF Before, Copies, Deleting
<1>3. ASSUME NEW c \in owed, InSource(c) PROVE InSource(c)'
  <2>1. PICK p \in Rel : src[p] # NoIno /\ inode[src[p]].data = c
    BY <1>3 DEF InSource
  <2>2. src'[p] # NoIno /\ inode'[src'[p]].data = c
    BY <2>1 DEF TgtStep, SrcKept
  <2>3. Below(p)' => Todo(p)'
    BY <1>1 DEF Todo, Below
  <2> QED
    BY <1>2, <2>2, <2>3 DEF InSource
<1>4. ASSUME NEW c \in owed, InTarget(c) PROVE InTarget(c)'
  BY <1>1, <1>2, <1>4, BelowNotMoved, TargetStep DEF Active
<1>5. OwedIsHeld'
  BY <1>3, <1>4 DEF MoveInv, OwedIsHeld
<1>6. tgt'[path'] = NoIno
  BY DEF Active, Position
<1>7. FreshTree'
  <2>1. Len(stack') = 0 /\ 1..Len(stack') = {}
    BY EmptySeq
  <2> QED
    BY <1>6, <2>1 DEF FreshTree
<1>8. CopiesAgree'
  BY <1>1 DEF CopiesAgree, NoLinks
<1> QED
  BY <1>5, <1>7, <1>8 DEF MoveInv

LEMMA MoveRenameAcross ==
    ASSUME Active, Mv, MoveInv, RenameAcross
    PROVE  MoveInv'
<1>1. Active' /\ cpat = "rename" /\ stack = <<>>
  BY RenameAcrossRuns, RenameAcrossCases DEF Active, Levels, AtTop
<1>2. World /\ path \in Rel
  BY <1>1, ActiveWorld, TopPath DEF Active
<1>3. CASE dsp = NoIno /\ UNCHANGED <<world, dsp>> /\ Goto("copy")
  <2>1. tgt[path] = NoIno
    BY <1>1, <1>3 DEF Active, Position
  <2>2. TgtStep(path, NoIno)
    BY <1>2, <1>3, <2>1, SameFacts
  <2>3. IsTree(tgt, inode)'
    BY <1>3 DEF MoveInv, IsTree, IsDir, world
  <2> QED
    BY <1>1, <1>3, <2>2, <2>3, MoveStarts DEF Goto, Keep, cpHistory
<1>4. CASE Kids(tgt, path) = {} /\ UnlinkTgt(path) /\ dsp' = NoIno /\ Goto("copy")
  <2>1. TgtStep(path, NoIno)
    BY <1>2, <1>4, UnlinkTgtFacts
  <2>2. IsTree(tgt, inode)'
    BY <1>2, <1>4, <2>1, TreeLoses DEF MoveInv
  <2> QED
    BY <1>1, <1>4, <2>1, <2>2, MoveStarts DEF Goto, Keep, cpHistory
<1>5. CASE Leaves
  BY <1>1, <1>5, MoveLeaves
<1> QED
  BY <1>3, <1>4, <1>5, RenameAcrossCases

\* While mv copies, the target of the object is in a directory that is there.
LEMMA MoveObject ==
    ASSUME Active, Mv, MoveInv, cpat \in {"copy"} \cup AtFile
    PROVE  /\ World /\ CpStates /\ path \in Rel /\ Below(path) /\ argn >= 1
           /\ src[path] \in Ino /\ src[path] # NoIno
           /\ Copies /\ ~Before /\ ~Deleting /\ FreshTree
           /\ cpat # "data" => tgt[path] = NoIno
           /\ Moved(path)
<1>1. /\ World /\ path \in Rel /\ Below(path) /\ src[path] \in Ino /\ src[path] # NoIno
      /\ argn >= 1
  BY AtFileFacts
<1>2. ~Before /\ Copies /\ ~Deleting
  BY DEF Before, Copies, Deleting, AtObject, AtFile
<1>3. FreshTree /\ (cpat # "data" => tgt[path] = NoIno)
  BY <1>2 DEF MoveInv, FreshTree, AtObject
<1>4. Moved(path)
  BY <1>1, <1>2, MovedNow
<1> QED
  BY <1>1, <1>2, <1>3, <1>4 DEF Active

\* The object's target goes through directories.
LEMMA TreeGrows ==
    ASSUME Active, Mv, MoveInv, cpat \in {"copy"} \cup AtFile, tgt[path] = NoIno,
           NEW j \in Ino \cup {NoIno}, TgtStep(path, j)
    PROVE  IsTree(tgt, inode)'
<1>1. World /\ path \in Rel /\ FreshTree
  BY MoveObject
<1>2. \A q \in Rel : q # path => tgt'[q] = tgt[q]
  BY <1>1 DEF TgtStep, World
<1>3. \A q \in Rel : IsDir(inode, tgt[q]) => IsDir(inode', tgt'[q])
  BY <1>1, <1>2 DEF IsDir, TgtStep
<1>4. ASSUME NEW n \in 1..Len(path) - 1 PROVE IsDir(inode, tgt[SubSeq(path, 1, n)])
  <2>1. Len(path) = Len(stack) + 1 /\ Len(stack) \in Nat
    BY ActiveWorld DEF Active, Levels, AtObject
  <2>2. Len(stack) \in 1..Len(stack) /\ stack # <<>>
    BY <2>1, EmptySeq
  <2>3. PICK d : d = stack[Len(stack)].dir
    OBVIOUS
  <2>4. d \in Rel /\ ChildOf(d, path)
    BY <2>2, <2>3, ActiveWorld DEF Active, Levels, AtObject, Frame
  <2>5. IsDir(inode, tgt[d])
    BY <1>1, <2>2, <2>3 DEF FreshTree, FreshDir
  <2>6. SubSeq(path, 1, n) = IF n = Len(d) THEN d ELSE SubSeq(d, 1, n)
    BY <1>1, <2>4, ChildCuts
  <2>7. n # Len(d) => n \in 1..Len(d) - 1
    BY <1>1, <2>4, ChildCuts
  <2>8. n # Len(d) => IsDir(inode, tgt[SubSeq(d, 1, n)])
    BY <2>4, <2>5, <2>7 DEF MoveInv, IsTree, IsDir
  <2> QED
    BY <2>5, <2>6, <2>8
<1>5. ASSUME NEW p \in Rel, tgt'[p] # NoIno, NEW n \in 1..Len(p) - 1
      PROVE  IsDir(inode', tgt'[SubSeq(p, 1, n)])
  <2>1. SubSeq(p, 1, n) \in Rel
    BY CutNames
  <2>2. CASE p = path
    BY <1>3, <1>4, <2>1, <2>2
  <2>3. CASE p # path
    <3>1. tgt[p] # NoIno
      BY <1>2, <1>5, <2>3
    <3>2. IsDir(inode, tgt[SubSeq(p, 1, n)])
      BY <3>1 DEF MoveInv, IsTree
    <3> QED
      BY <1>3, <2>1, <3>2
  <2> QED
    BY <2>2, <2>3
<1> QED
  BY <1>5 DEF IsTree

\* The directories that are being read are where they were, and the entries that
\* are to come are still not there.
LEMMA FreshDirsStay ==
    ASSUME Active, Mv, MoveInv, cpat \in {"copy"} \cup AtFile, tgt[path] = NoIno,
           NEW j \in Ino \cup {NoIno}, TgtStep(path, j), NEW k \in 1..Len(stack),
           stack'[k] = stack[k]
    PROVE  FreshDir(k)'
<1>1. World /\ path \in Rel /\ FreshTree
  BY MoveObject
<1>2. src' = src /\ \A q \in Rel : q # path => tgt'[q] = tgt[q]
  BY <1>1 DEF TgtStep, SrcKept, World
<1>3. FreshDir(k)
  BY <1>1 DEF FreshTree
<1>4. stack[k] \in Frame /\ stack[k].dir \in Rel /\ Len(stack) \in Nat /\ k \in Nat
  BY ActiveWorld DEF Active, Frame
<1>5. IsDir(inode, tgt[stack[k].dir])'
  BY <1>1, <1>2, <1>3, <1>4 DEF FreshDir, IsDir, TgtStep
<1>6. (stack[k].had \subseteq Kids(src, stack[k].dir))'
  BY <1>2, <1>3 DEF FreshDir, Kids
<1>7. ASSUME NEW q \in Rel, ChildOf(stack[k].dir, q), q \notin stack[k].seen
      PROVE  tgt'[q] = NoIno
  <2>1. Len(q) = k + 1 /\ Len(path) = Len(stack) + 1
    BY <1>7 DEF Active, Levels, ChildOf, AtObject
  <2>2. k = Len(stack) => path \in stack[k].seen
    BY <1>4, EmptySeq DEF Active, Levels, AtObject
  <2>3. q # path
    BY <1>4, <1>7, <2>1, <2>2
  <2> QED
    BY <1>2, <1>3, <1>7, <2>3 DEF FreshDir
<1> QED
  BY <1>5, <1>6, <1>7 DEF FreshDir, ChildOf

\* An entry that is found is the next object.
LEMMA TodoOnEntry ==
    ASSUME Active, NEW q, Entry(q), NEW p, Todo(p)
    PROVE  Todo(p)'
<1>1. Len(stack) \in 1..Len(stack) /\ q \in Rel /\ stack # <<>> /\ cpat = "read"
  BY EntryRuns DEF Entry, Active, Levels
<1>2. /\ Len(stack') = Len(stack)
      /\ \A k \in 1..Len(stack) :
            /\ stack'[k].had = stack[k].had
            /\ stack'[k].seen = IF k = Len(stack) THEN stack[k].seen \cup {q} ELSE stack[k].seen
  BY <1>1, MarkFacts DEF Entry, Active
<1>3. path' = q /\ cpat' = "go"
  BY DEF Entry
<1>4. PICK k \in 1..Len(stack) : \E r \in stack[k].had \ stack[k].seen : IsPrefix(r, p)
  BY <1>1 DEF Todo, AtFile
<1>5. PICK r \in stack[k].had \ stack[k].seen : IsPrefix(r, p)
  BY <1>4
<1>6. CASE r = q
  BY <1>3, <1>5, <1>6 DEF Todo
<1>7. CASE r # q
  <2>1. r \in stack'[k].had \ stack'[k].seen /\ k \in 1..Len(stack')
    BY <1>2, <1>5, <1>7
  <2> QED
    BY <1>5, <2>1 DEF Todo
<1> QED
  BY <1>6, <1>7

\* A directory is left when all it had when it was opened has been seen.
LEMMA TodoOnNoEntry ==
    ASSUME Active, NoEntry, FreshTree, NEW p, Todo(p)
    PROVE  Todo(p)'
<1>1. cpat = "read" /\ stack # <<>>
  BY DEF NoEntry, Active, Levels
<1>2. /\ Len(stack') = Len(stack) - 1
      /\ \A k \in 1..Len(stack') : stack'[k] = stack[k] /\ k \in 1..Len(stack)
      /\ Last(stack) = stack[Len(stack)] /\ Len(stack) \in 1..Len(stack)
  BY <1>1, PopFacts DEF NoEntry, Active
<1>3. stack[Len(stack)].had \subseteq stack[Len(stack)].seen
  <2>1. (Kids(src, stack[Len(stack)].dir) \ stack[Len(stack)].seen) \cap stack[Len(stack)].had = {}
    BY <1>2 DEF NoEntry
  <2>2. stack[Len(stack)].had \subseteq Kids(src, stack[Len(stack)].dir)
    BY <1>2 DEF FreshTree, FreshDir
  <2> QED
    BY <2>1, <2>2
<1>4. PICK k \in 1..Len(stack) : \E r \in stack[k].had \ stack[k].seen : IsPrefix(r, p)
  BY <1>1 DEF Todo, AtFile
<1>5. k # Len(stack)
  BY <1>3, <1>4
<1>6. k \in 1..Len(stack')
  BY <1>2, <1>5
<1> QED
  BY <1>2, <1>4, <1>6 DEF Todo

\* What is below a directory that is opened is below one of its entries.
LEMMA TodoOnOpen ==
    ASSUME Active, NEW f \in Frame, f.had = Kids(src, path), f.seen = {},
           stack' = Append(stack, f), path \in Rel, cpat = "copy"
    PROVE  /\ \A q \in Kids(src, path), p \in Rel : IsPrefix(q, p) => Todo(p)'
           /\ \A p \in Rel : Todo(p) /\ src[p] # NoIno /\ p # path => Todo(p)'
<1>1. /\ Len(stack') = Len(stack) + 1 /\ stack'[Len(stack) + 1] = f
      /\ \A k \in 1..Len(stack) : stack'[k] = stack[k]
      /\ Len(stack) \in Nat
  BY PushFacts, ActiveWorld DEF Active
<1>2. ASSUME NEW q \in Kids(src, path), NEW p \in Rel, IsPrefix(q, p) PROVE Todo(p)'
  <2>1. Len(stack) + 1 \in 1..Len(stack') /\ q \in stack'[Len(stack) + 1].had
        /\ q \notin stack'[Len(stack) + 1].seen
    BY <1>1
  <2> QED
    BY <1>2, <2>1 DEF Todo
<1>3. ASSUME NEW p \in Rel, Todo(p), src[p] # NoIno, p # path PROVE Todo(p)'
  <2>1. CASE \E k \in 1..Len(stack) : \E q \in stack[k].had \ stack[k].seen : IsPrefix(q, p)
    <3>1. PICK k \in 1..Len(stack) : \E q \in stack[k].had \ stack[k].seen : IsPrefix(q, p)
      BY <2>1
    <3>2. k \in 1..Len(stack') /\ stack'[k] = stack[k]
      BY <1>1
    <3> QED
      BY <3>1, <3>2 DEF Todo
  <2>2. CASE IsPrefix(path, p)
    <3>1. PICK q \in Rel : /\ ChildOf(path, q) /\ IsPrefix(q, p)
                           /\ q = p \/ \E n \in 1..Len(p) - 1 : q = SubSeq(p, 1, n)
      BY <1>3, <2>2, ThroughChild
    <3>2. src[q] # NoIno
      BY <1>3, <3>1 DEF Active, Files, IsTree, IsDir
    <3>3. q \in Kids(src, path)
      BY <3>1, <3>2 DEF Kids, ChildOf
    <3> QED
      BY <1>2, <3>1, <3>3
  <2> QED
    BY <1>3, <2>1, <2>2 DEF Todo, AtFile
<1> QED
  BY <1>2, <1>3

\* A file has nothing below it, and is to be copied until it has been.
LEMMA TodoOnFile ==
    ASSUME Active, cpat \in {"copy"} \cup AtFile, cpat = "copy" => Kind(src[path]) # "dir",
           path \in Rel, UNCHANGED <<path, stack>>,
           NEW p \in Rel, src[p] # NoIno, Todo(p), cpat' \in AtFile \/ p # path
    PROVE  Todo(p)'
<1>1. CASE \E k \in 1..Len(stack) : \E q \in stack[k].had \ stack[k].seen : IsPrefix(q, p)
  BY <1>1 DEF Todo
<1>2. CASE (cpat = "copy" /\ IsPrefix(path, p)) \/ p = path
  <2>1. p = path
    <3>1. SUFFICES ASSUME p # path PROVE FALSE
      OBVIOUS
    <3>2. path = SubSeq(p, 1, Len(path)) /\ Len(path) \in 1..Len(p) - 1
      BY <1>2, <3>1, ThroughChild
    <3>3. IsDir(inode, src[path])
      BY <3>2 DEF Active, Files, IsTree
    <3> QED
      BY <1>2, <3>1, <3>3 DEF IsDir, Kind
  <2> QED
    BY <2>1 DEF Todo
<1> QED
  BY <1>1, <1>2 DEF Todo, AtFile

LEMMA MoveCopyDir ==
    ASSUME Active, Mv, MoveInv, CopyDir
    PROVE  MoveInv'
<1>1. cpat = "copy" /\ Kind(src[path]) = "dir" /\ UNCHANGED <<argn, path, dsp, linktab>>
  BY DEF CopyDir
<1>2. /\ World /\ CpStates /\ path \in Rel /\ Below(path) /\ argn >= 1
      /\ src[path] \in Ino /\ src[path] # NoIno
      /\ Copies /\ ~Before /\ ~Deleting /\ FreshTree
      /\ tgt[path] = NoIno
  BY <1>1, MoveObject
<1>3. dsp = NoIno
  BY <1>1, <1>2 DEF Active, Position
<1>4. PICK i \in Ino : i # NoIno /\ TgtStep(path, i) /\ inode'[i] = [kind |-> "dir", data |-> NoData]
  BY <1>3, CopyDirMakes
<1>5. IsTree(tgt, inode)'
  BY <1>1, <1>2, <1>4, TreeGrows
<1>6. ASSUME NEW k \in 1..Len(stack), stack'[k] = stack[k] PROVE FreshDir(k)'
  BY <1>1, <1>2, <1>4, <1>6, FreshDirsStay
<1>7. ~Before' /\ ~Deleting' /\ cpat' \in {"read", "next"} /\ cpat' \notin AtObject
      /\ Below(path)'
  BY <1>1, <1>2 DEF CopyDir, Return, Before, Deleting, AtObject, AtFile, Below
<1>8. ASSUME NEW c \in owed, InTarget(c) PROVE InTarget(c)'
  BY <1>1, <1>2, <1>4, <1>7, <1>8, TargetStep
<1>9. CASE errcnt' = TRUE /\ UNCHANGED <<stack, owed>>
  <2>1. ASSUME NEW c \in owed, InSource(c) PROVE InSource(c)'
    <3>1. PICK p \in Rel : src[p] # NoIno /\ inode[src[p]].data = c
      BY <2>1 DEF InSource
    <3>2. src'[p] # NoIno /\ inode'[src'[p]].data = c
      BY <1>4, <3>1 DEF TgtStep, SrcKept
    <3> QED
      BY <1>7, <1>9, <3>2 DEF InSource
  <2>2. OwedIsHeld'
    BY <1>8, <1>9, <2>1 DEF MoveInv, OwedIsHeld
  <2>3. FreshTree'
    BY <1>6, <1>7, <1>9 DEF FreshTree, AtObject, AtFile
  <2> QED
    BY <1>5, <1>9, <2>2, <2>3 DEF MoveInv
<1>10. ASSUME /\ stack' = Append(stack, [dir |-> path, had |-> Kids(src, path),
                                         seen |-> {}, made |-> dsp = NoIno])
              /\ owed' = owed \cup ({inode[src[p]].data : p \in Kids(src, path)} \ {NoData})
              /\ UNCHANGED errors /\ cpat' = "read"
       PROVE  MoveInv'
  <2>1. PICK f : f = [dir |-> path, had |-> Kids(src, path), seen |-> {}, made |-> dsp = NoIno]
    OBVIOUS
  <2>2. f \in Frame /\ f.dir = path /\ f.had = Kids(src, path) /\ f.seen = {}
    BY <1>2, <2>1, OpenedFrame
  <2>3. stack' = Append(stack, f)
    BY <1>10, <2>1
  <2>4. /\ Len(stack') = Len(stack) + 1 /\ stack'[Len(stack) + 1] = f
        /\ \A k \in 1..Len(stack) : stack'[k] = stack[k]
        /\ Len(stack) \in Nat
    BY <1>2, <2>2, <2>3, PushFacts, ActiveWorld
  <2>5. errcnt' = errcnt
    BY <1>10 DEF errors
  <2>6. \A q \in Rel : tgt'[q] = IF q = path THEN i ELSE tgt[q]
    BY <1>2, <1>4 DEF TgtStep, World
  <2>7. src' = src /\ \A q \in Rel : src[q] # NoIno => inode'[src[q]] = inode[src[q]]
    BY <1>4 DEF TgtStep, SrcKept
  <2>8. \A q \in Kids(src, path), p \in Rel : IsPrefix(q, p) => Todo(p)'
    BY <1>1, <1>2, <2>2, <2>3, TodoOnOpen
  <2>9. inode[src[path]].data = NoData
    BY <1>1, <1>2 DEF Active, Files, Hollow, Kind
  <2>10. \A p \in Rel : Todo(p) /\ src[p] # NoIno /\ p # path => Todo(p)'
    BY <1>1, <1>2, <2>2, <2>3, TodoOnOpen
  <2>11. ASSUME NEW c \in owed, InSource(c) PROVE InSource(c)'
    <3>1. PICK p \in Rel : /\ src[p] # NoIno /\ inode[src[p]].data = c
                           /\ Copies /\ ~errcnt => ~Below(p) \/ Todo(p)
      BY <2>11 DEF InSource
    <3>2. p # path
      BY <2>9, <3>1 DEF MoveInv, OwedIsHeld
    <3>3. SrcKept
      BY <1>4 DEF TgtStep
    <3> QED
      BY <1>1, <1>2, <1>7, <2>5, <2>10, <3>1, <3>2, <3>3, SourceStep
  <2>12. ASSUME NEW c, NEW q \in Kids(src, path), c = inode[src[q]].data PROVE InSource(c)'
    <3>1. q \in Rel /\ src[q] # NoIno
      BY DEF Kids
    <3>2. Todo(q)'
      BY <2>8, <3>1, PrefixNames
    <3> QED
      BY <1>7, <2>7, <2>12, <3>1, <3>2 DEF InSource
  <2>13. OwedIsHeld'
    <3>1. \A c \in owed' : c \in owed \/ (c # NoData /\ InSource(c)')
      BY <1>10, <2>12
    <3>2. \A c \in owed : c # NoData /\ (InSource(c) \/ InTarget(c))
      BY DEF MoveInv, OwedIsHeld
    <3>3. \A c \in owed' : c # NoData /\ (InSource(c)' \/ InTarget(c)')
      BY <1>8, <2>11, <3>1, <3>2
    <3> QED
      BY <3>3 DEF OwedIsHeld
  <2>14. ASSUME NEW k, k = Len(stack) + 1 PROVE FreshDir(k)'
    <3>1. stack'[k].dir = path /\ stack'[k].had = Kids(src, path)
      BY <2>2, <2>4, <2>14
    <3>2. IsDir(inode', tgt'[path])
      BY <1>2, <1>4, <2>6 DEF IsDir
    <3>3. ASSUME NEW q \in Rel, ChildOf(path, q) PROVE tgt'[q] = NoIno
      <4>1. q # path /\ Len(path) \in 1..Len(q) - 1 /\ path = SubSeq(q, 1, Len(path))
        BY <1>2, <3>3, ChildCuts, ThroughChild DEF ChildOf
      <4>2. tgt[q] = NoIno
        BY <1>2, <4>1 DEF MoveInv, IsTree, IsDir
      <4> QED
        BY <2>6, <4>1, <4>2
    <3> QED
      BY <1>1, <2>7, <3>1, <3>2, <3>3 DEF FreshDir, Kids, ChildOf
  <2>15. FreshTree'
    <3>1. ASSUME NEW k \in 1..Len(stack') PROVE FreshDir(k)'
      BY <1>6, <2>4, <2>14
    <3> QED
      BY <1>7, <3>1 DEF FreshTree, AtObject, AtFile
  <2>16. ASSUME ~errcnt' PROVE CopiesAgree'
    <3>1. CopiesAgree
      BY <1>2, <2>5, <2>16 DEF MoveInv
    <3>2. ASSUME NEW l \in Ino, linktab[l] # NoPath, tgt'[linktab[l]] # NoIno
          PROVE  inode'[tgt'[linktab[l]]].data = inode'[l].data
      <4>1. linktab[l] \in Rel /\ src[linktab[l]] = l /\ l # NoIno
        BY <1>2, <3>1, <3>2, NoInode DEF CopiesAgree, CpStates
      <4>2. inode'[l] = inode[l]
        BY <2>7, <4>1
      <4>3. CASE linktab[l] = path
        BY <1>4, <2>6, <2>9, <4>1, <4>2, <4>3
      <4>4. CASE linktab[l] # path
        <5>1. tgt[linktab[l]] # NoIno /\ tgt'[linktab[l]] = tgt[linktab[l]]
              /\ inode'[tgt[linktab[l]]] = inode[tgt[linktab[l]]]
          BY <1>4, <2>6, <3>2, <4>1, <4>4 DEF TgtStep
        <5> QED
          BY <1>1, <3>1, <3>2, <4>2, <5>1 DEF CopiesAgree
      <4> QED
        BY <4>3, <4>4
    <3> QED
      BY <1>1, <2>7, <3>1, <3>2 DEF CopiesAgree
  <2> QED
    BY <1>5, <2>13, <2>15, <2>16 DEF MoveInv
<1> QED
  BY <1>9, <1>10 DEF CopyDir, Fail

LEMMA MoveEntry ==
    ASSUME Active, Mv, MoveInv, NEW q, Entry(q)
    PROVE  MoveInv'
<1>1. /\ q \in Rel /\ ChildOf(stack[Len(stack)].dir, q) /\ Len(stack) \in 1..Len(stack)
      /\ q \notin stack[Len(stack)].seen /\ stack # <<>> /\ cpat = "read"
  BY EntryRuns DEF Entry, Last, Active, Levels
<1>2. /\ Len(stack') = Len(stack) /\ stack' # <<>>
      /\ \A k \in 1..Len(stack) :
            /\ stack'[k].dir = stack[k].dir /\ stack'[k].had = stack[k].had
            /\ stack'[k].seen = IF k = Len(stack) THEN stack[k].seen \cup {q} ELSE stack[k].seen
  BY <1>1, MarkFacts DEF Entry, Active
<1>3. /\ path' = q /\ cpat' = "go" /\ UNCHANGED <<src, tgt, inode, argn, linktab, owed, errcnt>>
      /\ UNCHANGED world
  BY DEF Entry, world, Keep, cpHistory, errors
<1>4. /\ Copies /\ Copies' /\ ~Before /\ ~Before' /\ ~Deleting /\ ~Deleting'
  BY <1>1, <1>2, <1>3 DEF Copies, Before, Deleting, AtObject
<1>5. \A p : Todo(p) => Todo(p)'
  BY TodoOnEntry
<1>6. OwedIsHeld'
  <2>1. ASSUME NEW c \in owed, InSource(c) PROVE InSource(c)'
    BY <1>3, <1>4, <1>5, <2>1 DEF InSource, Below
  <2>2. ASSUME NEW c \in owed, InTarget(c) PROVE InTarget(c)'
    BY <1>3, <1>4, <2>2, TargetSame DEF Active
  <2> QED
    BY <1>3, <2>1, <2>2 DEF MoveInv, OwedIsHeld
<1>7. IsTree(tgt, inode)'
  BY <1>3 DEF MoveInv, IsTree, IsDir
<1>8. FreshTree'
  <2>1. ASSUME NEW k \in 1..Len(stack) PROVE FreshDir(k)'
    <3>1. FreshDir(k)
      BY <1>4 DEF MoveInv, FreshTree
    <3>2. stack[k].seen \subseteq stack'[k].seen
      BY <1>2
    <3> QED
      BY <1>2, <1>3, <3>1, <3>2, FreshSame
  <2>2. tgt[q] = NoIno
    BY <1>1, <1>4 DEF MoveInv, FreshTree, FreshDir
  <2> QED
    BY <1>2, <1>3, <2>1, <2>2 DEF FreshTree
<1>9. ~errcnt' => CopiesAgree'
  BY <1>1, <1>3, <1>4 DEF MoveInv, CopiesAgree
<1> QED
  BY <1>4, <1>6, <1>7, <1>8, <1>9 DEF MoveInv

LEMMA MoveNoEntry ==
    ASSUME Active, Mv, MoveInv, NoEntry
    PROVE  MoveInv'
<1>1. /\ cpat = "read" /\ stack # <<>> /\ cpat' \in {"last", "read"}
      /\ UNCHANGED <<src, tgt, inode, argn, linktab, owed>> /\ UNCHANGED world
  BY NoEntryRuns DEF NoEntry, world, Keep, cpHistory, Active, Levels
<1>2. errcnt' = errcnt
  BY PermissionsErrors DEF NoEntry, Active, CpStates
<1>3. /\ Len(stack') = Len(stack) - 1
      /\ \A k \in 1..Len(stack') : stack'[k] = stack[k] /\ k \in 1..Len(stack)
      /\ Last(stack) = stack[Len(stack)] /\ Len(stack) \in 1..Len(stack)
  BY <1>1, PopFacts DEF NoEntry, Active
<1>4. /\ Copies /\ ~Before /\ ~Before' /\ ~Deleting /\ ~Deleting' /\ FreshTree
  BY <1>1 DEF Copies, Before, Deleting, AtObject, MoveInv
<1>5. \A p : Todo(p) => Todo(p)'
  BY <1>4, TodoOnNoEntry
<1>6. OwedIsHeld'
  <2>1. ASSUME NEW c \in owed, InSource(c) PROVE InSource(c)'
    BY <1>1, <1>2, <1>4, <1>5, <2>1 DEF InSource, Below
  <2>2. ASSUME NEW c \in owed, InTarget(c) PROVE InTarget(c)'
    BY <1>1, <1>4, <2>2, TargetSame DEF Active
  <2> QED
    BY <1>1, <2>1, <2>2 DEF MoveInv, OwedIsHeld
<1>7. IsTree(tgt, inode)'
  BY <1>1 DEF MoveInv, IsTree, IsDir
<1>8. FreshTree'
  <2>1. ASSUME NEW k \in 1..Len(stack') PROVE FreshDir(k)'
    BY <1>1, <1>3, <1>4, FreshSame DEF FreshTree
  <2> QED
    BY <1>1, <2>1 DEF FreshTree, AtObject, AtFile
<1>9. ~errcnt' => CopiesAgree'
  BY <1>1, <1>2, <1>4 DEF MoveInv, CopiesAgree
<1> QED
  BY <1>4, <1>6, <1>7, <1>8, <1>9 DEF MoveInv

\* A file that is to be copied stays so, from step to step of its copy.
LEMMA MoveGoesOn ==
    ASSUME Active, Mv, MoveInv, cpat \in {"copy", "canlink", "creat"}, cpat' \in AtFile,
           cpat = "copy" => Kind(src[path]) # "dir",
           NEW j \in Ino \cup {NoIno}, TgtStep(path, j), UNCHANGED <<argn, path, stack, owed, errcnt>>,
           cpat' # "data" => j = NoIno,
           cpat' = "data" => /\ j # NoIno /\ HasNot(src, j) /\ HasNot(tgt, j)
                             /\ inode'[j].data = NoData,
           \A i \in Ino : linktab'[i] = linktab[i] \/ (i = src[path] /\ linktab'[i] = path)
    PROVE  MoveInv'
<1>1. /\ World /\ CpStates /\ path \in Rel /\ src[path] \in Ino /\ src[path] # NoIno
      /\ Copies /\ ~Before /\ ~Deleting /\ FreshTree
      /\ tgt[path] = NoIno
  BY MoveObject DEF AtFile
<1>2. ~Before' /\ ~Deleting' /\ Copies'
  BY DEF Before, Deleting, Copies, AtFile, AtObject
<1>3. src' = src /\ \A q \in Rel : tgt'[q] = IF q = path THEN j ELSE tgt[q]
  BY <1>1 DEF TgtStep, SrcKept, World
<1>4. \A p \in Rel : src[p] # NoIno /\ Todo(p) => Todo(p)'
  BY <1>1, TodoOnFile DEF AtFile
<1>5. OwedIsHeld'
  <2>1. ASSUME NEW c \in owed, InSource(c) PROVE InSource(c)'
    <3>1. PICK p \in Rel : /\ src[p] # NoIno /\ inode[src[p]].data = c
                           /\ Copies /\ ~errcnt => ~Below(p) \/ Todo(p)
      BY <2>1 DEF InSource
    <3>2. SrcKept
      BY DEF TgtStep
    <3> QED
      BY <1>1, <1>2, <1>4, <3>1, <3>2, SourceStep
  <2>2. ASSUME NEW c \in owed, InTarget(c) PROVE InTarget(c)'
    BY <1>1, <1>2, <2>2, TargetStep
  <2> QED
    BY <2>1, <2>2 DEF MoveInv, OwedIsHeld
<1>6. IsTree(tgt, inode)'
  BY <1>1, TreeGrows DEF AtFile
<1>7. FreshTree'
  <2>1. ASSUME NEW k \in 1..Len(stack) PROVE FreshDir(k)'
    BY <1>1, FreshDirsStay DEF AtFile
  <2>2. cpat' = "data" =>
            /\ HasNot(src', tgt'[path]) /\ inode'[tgt'[path]].data = NoData
            /\ \A q \in Rel : tgt'[q] = tgt'[path] => q = path
    BY <1>1, <1>3 DEF HasNot
  <2>3. cpat' # "data" => tgt'[path] = NoIno
    BY <1>1, <1>3
  <2> QED
    BY <2>1, <2>2, <2>3 DEF FreshTree, HasNot
<1>8. ASSUME ~errcnt' PROVE CopiesAgree'
  <2>1. CopiesAgree /\ cpat # "data"
    BY <1>1, <1>8 DEF MoveInv
  <2>2. ASSUME NEW l \in Ino, linktab'[l] # NoPath
        PROVE  /\ linktab'[l] \in Rel /\ src[linktab'[l]] = l /\ inode'[l] = inode[l]
               /\ tgt'[linktab'[l]] # NoIno /\ ~(cpat' = "data" /\ path = linktab'[l])
                    => inode'[tgt'[linktab'[l]]].data = inode[l].data
    <3>1. CASE linktab'[l] = path
      <4>1. src[path] = l
        BY <1>1, <2>1, <2>2, <3>1 DEF CopiesAgree
      <4>2. inode'[l] = inode[l]
        BY <1>1, <4>1 DEF TgtStep, SrcKept
      <4>3. cpat' = "data" \/ tgt'[path] = NoIno
        BY <1>1, <1>3
      <4> QED
        BY <1>1, <3>1, <4>1, <4>2, <4>3
    <3>2. CASE linktab'[l] # path
      <4>1. linktab'[l] = linktab[l] /\ linktab[l] \in Rel
        BY <1>1, <2>2, <3>2 DEF CpStates
      <4>2. src[linktab[l]] = l /\ l # NoIno
        BY <2>1, <2>2, <4>1, NoInode DEF CopiesAgree
      <4>3. inode'[l] = inode[l]
        BY <4>1, <4>2 DEF TgtStep, SrcKept
      <4>4. tgt'[linktab[l]] = tgt[linktab[l]]
        BY <1>3, <3>2, <4>1
      <4>5. tgt[linktab[l]] # NoIno => /\ inode[tgt[linktab[l]]].data = inode[l].data
                                       /\ inode'[tgt[linktab[l]]] = inode[tgt[linktab[l]]]
        BY <2>1, <2>2, <3>2, <4>1 DEF CopiesAgree, TgtStep
      <4> QED
        BY <4>1, <4>2, <4>3, <4>4, <4>5
    <3> QED
      BY <3>1, <3>2
  <2> QED
    BY <1>3, <2>2 DEF CopiesAgree
<1> QED
  BY <1>5, <1>6, <1>7, <1>8 DEF MoveInv

\* A file is copied, or another name of its copy is made, or an error is counted.
LEMMA MoveFileDone ==
    ASSUME Active, Mv, MoveInv, cpat \in AtFile, cpat # "data",
           NEW j \in Ino \cup {NoIno}, TgtStep(path, j), Finish(path),
           UNCHANGED <<argn, path, stack, owed, linktab>>,
           \/ errcnt'
           \/ /\ j # NoIno => inode'[j].data = inode[src[path]].data
              /\ j = NoIno => inode[src[path]].data = NoData,
           errcnt => errcnt'
    PROVE  MoveInv'
<1>1. /\ World /\ CpStates /\ path \in Rel /\ src[path] \in Ino /\ src[path] # NoIno
      /\ Copies /\ ~Before /\ ~Deleting /\ FreshTree
      /\ tgt[path] = NoIno /\ Moved(path)
  BY MoveObject
<1>2. ~Before' /\ ~Deleting' /\ cpat' \in {"last", "read"}
  BY DEF Before, Deleting, Finish
<1>3. src' = src /\ \A q \in Rel : tgt'[q] = IF q = path THEN j ELSE tgt[q]
  BY <1>1 DEF TgtStep, SrcKept, World
<1>4. Moved(path)'
  BY <1>1, <1>2, MovedOn
<1>5. ASSUME NEW p \in Rel, p # path, Todo(p) PROVE Todo(p)'
  BY <1>5 DEF Todo, AtFile
<1>6. ASSUME NEW c \in owed, InSource(c) PROVE InSource(c)' \/ InTarget(c)'
  <2>1. PICK p \in Rel : /\ src[p] # NoIno /\ inode[src[p]].data = c
                         /\ Copies /\ ~errcnt => ~Below(p) \/ Todo(p)
    BY <1>6 DEF InSource
  <2>2. CASE p # path \/ errcnt'
    <3>1. SrcKept
      BY DEF TgtStep
    <3> QED
      BY <1>1, <1>2, <1>5, <2>1, <2>2, <3>1, SourceStep
  <2>3. CASE p = path /\ ~errcnt'
    <3>1. c # NoData
      BY <1>6 DEF MoveInv, OwedIsHeld
    <3>2. j # NoIno /\ inode'[j].data = c
      BY <2>1, <2>3, <3>1
    <3>3. tgt'[path] # NoIno /\ inode'[tgt'[path]].data = c
      BY <1>1, <1>3, <3>2
    <3> QED
      BY <1>1, <1>4, <3>3 DEF InTarget
  <2> QED
    BY <2>2, <2>3
<1>7. ASSUME NEW c \in owed, InTarget(c) PROVE InTarget(c)'
  BY <1>1, <1>2, <1>7, TargetStep
<1>8. OwedIsHeld'
  BY <1>6, <1>7 DEF MoveInv, OwedIsHeld
<1>9. IsTree(tgt, inode)'
  BY <1>1, TreeGrows
<1>10. FreshTree'
  <2>1. ASSUME NEW k \in 1..Len(stack) PROVE FreshDir(k)'
    BY <1>1, FreshDirsStay
  <2> QED
    BY <1>2, <2>1 DEF FreshTree, AtObject, AtFile
<1>11. ASSUME ~errcnt' PROVE CopiesAgree'
  <2>1. CopiesAgree /\ ~errcnt
    BY <1>1, <1>11 DEF MoveInv
  <2>2. ASSUME NEW l \in Ino, linktab[l] # NoPath
        PROVE  /\ src[linktab[l]] = l
               /\ tgt'[linktab[l]] # NoIno => inode'[tgt'[linktab[l]]].data = inode'[l].data
    <3>1. linktab[l] \in Rel /\ src[linktab[l]] = l /\ l # NoIno
      BY <1>1, <2>1, <2>2, NoInode DEF CopiesAgree, CpStates
    <3>2. inode'[l] = inode[l]
      BY <3>1 DEF TgtStep, SrcKept
    <3>3. CASE linktab[l] = path
      BY <1>3, <1>11, <3>1, <3>2, <3>3
    <3>4. CASE linktab[l] # path
      <4>1. tgt'[linktab[l]] = tgt[linktab[l]]
        BY <1>3, <3>1, <3>4
      <4>2. tgt[linktab[l]] # NoIno => /\ inode[tgt[linktab[l]]].data = inode[l].data
                                       /\ inode'[tgt[linktab[l]]] = inode[tgt[linktab[l]]]
        BY <2>1, <2>2, <3>1, <3>4 DEF CopiesAgree, TgtStep
      <4> QED
        BY <3>1, <3>2, <4>1, <4>2
    <3> QED
      BY <3>3, <3>4
  <2> QED
    BY <1>3, <2>2 DEF CopiesAgree
<1> QED
  BY <1>8, <1>9, <1>10, <1>11 DEF MoveInv

LEMMA MoveCopyFile ==
    ASSUME Active, Mv, MoveInv, CopyFile
    PROVE  MoveInv'
<1>1. cpat = "copy" /\ Kind(src[path]) # "dir" /\ UNCHANGED <<world, linktab, errors>>
  BY DEF CopyFile, Goto
<1>2. cpat' \in {"canlink", "creat", "special"} /\ SameObject
  BY CopyFileRuns
<1>3. World /\ tgt[path] = NoIno /\ path \in Rel
  BY <1>1, MoveObject
<1>4. TgtStep(path, NoIno)
  BY <1>1, <1>3, SameFacts
<1> QED
  BY <1>1, <1>2, <1>4, MoveGoesOn DEF AtFile, SameObject, errors

LEMMA MoveCanLink ==
    ASSUME Active, Mv, MoveInv, CanLink
    PROVE  MoveInv'
<1>1. /\ cpat = "canlink" /\ SameObject /\ errcnt' = errcnt
      /\ FirstName \/ OtherName \/ NotLinked
  BY CanLinkCases
<1>2. /\ World /\ CpStates /\ tgt[path] = NoIno /\ path \in Rel /\ src[path] \in Ino
      /\ Copies
  BY <1>1, MoveObject DEF AtFile
<1>3. Copying \in {"creat", "special"}
  BY DEF Copying
<1>4. CASE FirstName
  <2>1. TgtStep(path, NoIno)
    BY <1>2, <1>4, SameFacts DEF FirstName
  <2>2. \A i \in Ino : linktab'[i] = linktab[i] \/ (i = src[path] /\ linktab'[i] = path)
    BY <1>2, <1>4 DEF FirstName, CpStates
  <2> QED
    BY <1>1, <1>3, <1>4, <2>1, <2>2, MoveGoesOn DEF AtFile, SameObject, FirstName
<1>5. CASE NotLinked
  <2>1. TgtStep(path, NoIno)
    BY <1>2, <1>5, SameFacts DEF NotLinked
  <2> QED
    BY <1>1, <1>3, <1>5, <2>1, MoveGoesOn DEF AtFile, SameObject, NotLinked
<1>6. CASE OtherName
  <2>1. PICK j \in Ino : /\ j = tgt[linktab[src[path]]]
                         /\ TgtStep(path, j) /\ inode'[j] = inode[j]
    BY <1>1, <1>6, OtherNameFacts
  <2>2. j # NoIno
    BY <1>6, <2>1 DEF OtherName
  <2>3. ~errcnt => inode[j].data = inode[src[path]].data
    BY <1>1, <1>2, <1>6, <2>1, <2>2 DEF MoveInv, CopiesAgree, OtherName
  <2>4. errcnt' \/ inode'[j].data = inode[src[path]].data
    BY <1>1, <2>1, <2>3, <1>2 DEF CpStates
  <2> QED
    BY <1>1, <1>6, <2>1, <2>2, <2>4, MoveFileDone DEF AtFile, SameObject, OtherName
<1> QED
  BY <1>1, <1>4, <1>5, <1>6

LEMMA MoveCreat ==
    ASSUME Active, Mv, MoveInv, Creat
    PROVE  MoveInv'
<1>1. /\ cpat = "creat" /\ SameObject /\ linktab' = linktab
      /\ NewFile \/ Emptied \/ FileFails
  BY CreatCases
<1>2. World /\ tgt[path] = NoIno /\ path \in Rel
  BY <1>1, MoveObject DEF AtFile
<1>3. CASE NewFile
  <2>1. PICK i \in Ino : /\ i # NoIno /\ HasNot(src, i) /\ HasNot(tgt, i)
                         /\ TgtStep(path, i) /\ inode'[i].data = NoData
    BY <1>1, <1>3, NewFileFacts
  <2>2. cpat' = "data" /\ errcnt' = errcnt
    BY <1>3 DEF NewFile, errors
  <2> QED
    BY <1>1, <2>1, <2>2, MoveGoesOn DEF AtFile, SameObject
<1>4. CASE Emptied
  BY <1>2, <1>4 DEF Emptied
<1>5. CASE FileFails
  <2>1. TgtStep(path, NoIno)
    BY <1>2, <1>5, SameFacts DEF FileFails
  <2>2. errcnt' = TRUE /\ Finish(path)
    BY <1>5 DEF FileFails, Fail
  <2> QED
    BY <1>1, <2>1, <2>2, MoveFileDone DEF AtFile, SameObject
<1> QED
  BY <1>1, <1>3, <1>4, <1>5

LEMMA MoveSpecial ==
    ASSUME Active, Mv, MoveInv, Special
    PROVE  MoveInv'
<1>1. /\ cpat = "special" /\ SameObject /\ linktab' = linktab /\ Finish(path)
      /\ Passed \/ NewSpecial \/ SpecialFails
  BY SpecialCases DEF Active
<1>2. World /\ tgt[path] = NoIno /\ path \in Rel /\ src[path] # NoIno
  BY <1>1, MoveObject DEF AtFile
<1>3. CASE Passed
  <2>1. TgtStep(path, NoIno) /\ errcnt' = errcnt
    BY <1>2, <1>3, SameFacts DEF Passed, errors
  <2>2. inode[src[path]].data = NoData
    BY <1>2, <1>3 DEF Passed, Kind, Active, Files, Hollow
  <2> QED
    BY <1>1, <2>1, <2>2, MoveFileDone DEF AtFile, SameObject
<1>4. CASE NewSpecial
  <2>1. PICK i \in Ino : /\ i # NoIno /\ TgtStep(path, i)
                         /\ inode'[i].data = inode[src[path]].data
    BY <1>1, <1>4, NewSpecialFacts
  <2>2. errcnt' = errcnt
    BY <1>4 DEF NewSpecial
  <2> QED
    BY <1>1, <2>1, <2>2, MoveFileDone DEF AtFile, SameObject
<1>5. CASE SpecialFails
  <2>1. TgtStep(path, NoIno)
    BY <1>2, <1>5, SameFacts, UnlinkTgtFacts DEF SpecialFails
  <2>2. errcnt' = TRUE
    BY <1>5 DEF SpecialFails
  <2> QED
    BY <1>1, <2>1, <2>2, MoveFileDone DEF AtFile, SameObject
<1> QED
  BY <1>1, <1>3, <1>4, <1>5

LEMMA MoveCopyData ==
    ASSUME Active, Mv, MoveInv, CopyData
    PROVE  MoveInv'
<1>1. /\ cpat = "data" /\ SameObject /\ UNCHANGED <<src, tgt, linktab>> /\ Finish(path)
      /\ Written \/ NotWritten
  BY CopyDataCases DEF Active
<1>2. /\ World /\ CpStates /\ path \in Rel /\ src[path] \in Ino /\ src[path] # NoIno
      /\ Copies /\ ~Before /\ ~Deleting /\ FreshTree /\ Moved(path)
  BY <1>1, MoveObject DEF AtFile
<1>3. /\ HasNot(src, tgt[path]) /\ inode[tgt[path]].data = NoData
      /\ \A q \in Rel : tgt[q] = tgt[path] => q = path
      /\ tgt[path] # NoIno
  BY <1>1, <1>2 DEF FreshTree, Active, Position
<1>4. ~Before' /\ ~Deleting' /\ cpat' \in {"last", "read"}
      /\ UNCHANGED <<argn, path, stack, owed>>
  BY <1>1 DEF Before, Deleting, Finish, SameObject
<1>5. \A p : Moved(p) => Moved(p)'
  BY <1>2, <1>4, MovedOn
<1>6. ASSUME NEW p \in Rel, p # path, Todo(p) PROVE Todo(p)'
  BY <1>1, <1>4, <1>6 DEF Todo, AtFile
<1>7. CASE NotWritten
  <2>1. UNCHANGED world /\ errcnt'
    BY <1>1, <1>7 DEF NotWritten, world
  <2>2. ASSUME NEW c \in owed, InSource(c) PROVE InSource(c)'
    BY <1>1, <1>4, <2>1, <2>2 DEF InSource, world
  <2>3. ASSUME NEW c \in owed, InTarget(c) PROVE InTarget(c)'
    BY <1>2, <1>4, <2>1, <2>3, TargetSame
  <2>4. OwedIsHeld'
    BY <1>4, <2>2, <2>3 DEF MoveInv, OwedIsHeld
  <2>5. IsTree(tgt, inode)'
    BY <2>1 DEF MoveInv, IsTree, IsDir, world
  <2>6. ASSUME NEW k \in 1..Len(stack) PROVE FreshDir(k)'
    BY <1>2, <1>4, <2>1, FreshSame DEF FreshTree
  <2>7. FreshTree'
    BY <1>4, <2>6 DEF FreshTree, AtObject, AtFile
  <2> QED
    BY <2>1, <2>4, <2>5, <2>7 DEF MoveInv
<1>8. CASE Written
  <2>1. PICK d : d = inode[src[path]].data
    OBVIOUS
  <2>2. d \in Nat
    BY <1>2, <2>1 DEF World, InodeRecord
  <2>3. inode' = [inode EXCEPT ![tgt[path]].data = d] /\ errcnt' = errcnt
    BY <1>8, <2>1 DEF Written
  <2>4. /\ inode'[tgt[path]].data = d
        /\ \A i \in Ino : inode'[i].kind = inode[i].kind
        /\ \A i \in Ino : i # tgt[path] => inode'[i] = inode[i]
        /\ SrcKept
    BY <1>1, <1>2, <1>3, <2>2, <2>3, WriteFacts
  <2>5. \A q \in Rel : tgt[q] # NoIno /\ q # path => inode'[tgt[q]] = inode[tgt[q]]
    BY <1>2, <1>3, <2>4 DEF World
  <2>6. \A q \in Rel : IsDir(inode, tgt[q]) => IsDir(inode', tgt[q])
    BY <1>2, <2>4 DEF IsDir, World
  <2>7. ASSUME NEW c \in owed, InSource(c) PROVE InSource(c)' \/ InTarget(c)'
    <3>1. PICK p \in Rel : /\ src[p] # NoIno /\ inode[src[p]].data = c
                           /\ Copies /\ ~errcnt => ~Below(p) \/ Todo(p)
      BY <2>7 DEF InSource
    <3>2. CASE p # path
      BY <1>2, <1>4, <1>6, <2>3, <2>4, <3>1, <3>2, SourceStep
    <3>3. CASE p = path
      <4>1. tgt'[path] # NoIno /\ inode'[tgt'[path]].data = c
        BY <1>1, <1>3, <2>1, <2>4, <3>1, <3>3
      <4> QED
        BY <1>2, <1>5, <4>1 DEF InTarget
    <3> QED
      BY <3>2, <3>3
  <2>8. ASSUME NEW c \in owed, InTarget(c) PROVE InTarget(c)'
    <3>1. PICK p \in Rel : tgt[p] # NoIno /\ inode[tgt[p]].data = c /\ Moved(p)
      BY <2>8 DEF InTarget
    <3>2. p # path
      BY <1>3, <2>8, <3>1 DEF MoveInv, OwedIsHeld
    <3> QED
      BY <1>1, <1>5, <2>5, <3>1, <3>2 DEF InTarget
  <2>9. OwedIsHeld'
    BY <1>4, <2>7, <2>8 DEF MoveInv, OwedIsHeld
  <2>10. IsTree(tgt, inode)'
    <3>1. ASSUME NEW p \in Rel, tgt[p] # NoIno, NEW n \in 1..Len(p) - 1
          PROVE  IsDir(inode', tgt[SubSeq(p, 1, n)])
      BY <2>6, <3>1, CutNames DEF MoveInv, IsTree
    <3> QED
      BY <1>1, <3>1 DEF IsTree
  <2>11. ASSUME NEW k \in 1..Len(stack) PROVE FreshDir(k)'
    <3>1. FreshDir(k) /\ stack[k].dir \in Rel
      BY <1>2, ActiveWorld DEF FreshTree, Frame
    <3>2. IsDir(inode, tgt[stack[k].dir])'
      BY <1>1, <1>4, <2>6, <3>1 DEF FreshDir
    <3> QED
      BY <1>1, <1>4, <3>1, <3>2 DEF FreshDir, Kids
  <2>12. FreshTree'
    BY <1>4, <2>11 DEF FreshTree, AtObject, AtFile
  <2>13. ASSUME ~errcnt' PROVE CopiesAgree'
    <3>1. CopiesAgree
      BY <1>2, <2>3, <2>13 DEF MoveInv
    <3>2. ASSUME NEW l \in Ino, linktab[l] # NoPath, tgt[linktab[l]] # NoIno
          PROVE  inode'[tgt[linktab[l]]].data = inode'[l].data
      <4>1. linktab[l] \in Rel /\ src[linktab[l]] = l /\ l # NoIno
        BY <1>2, <3>1, <3>2, NoInode DEF CopiesAgree, CpStates
      <4>2. inode'[l] = inode[l]
        BY <2>4, <4>1 DEF SrcKept
      <4>3. CASE linktab[l] = path
        BY <2>1, <2>4, <4>1, <4>2, <4>3
      <4>4. CASE linktab[l] # path
        BY <2>5, <3>1, <3>2, <4>1, <4>2, <4>4 DEF CopiesAgree
      <4> QED
        BY <4>3, <4>4
    <3> QED
      BY <1>1, <3>1, <3>2 DEF CopiesAgree
  <2> QED
    BY <2>9, <2>10, <2>12, <2>13 DEF MoveInv
<1> QED
  BY <1>1, <1>7, <1>8

LEMMA MoveEndOfArg ==
    ASSUME Active, MoveInv, EndOfArg
    PROVE  MoveInv'
<1>1. /\ cpat = "last" /\ stack = <<>>
      /\ UNCHANGED <<src, tgt, inode, stack, errcnt, argn, owed, path>> /\ UNCHANGED world
      /\ cpat' = "next" \/ (cpat' = "delete" /\ ~errcnt)
  BY EndOfArgRuns DEF EndOfArg, Active, Levels, AtTop, world
<1>2. Copies /\ ~Before /\ ~Before' /\ ~Copies'
  BY <1>1 DEF Copies, Before, AtObject, AtFile
<1>3. ASSUME NEW p PROVE ~Todo(p)
  <2>1. 1..Len(stack) = {}
    BY <1>1, EmptySeq
  <2> QED
    BY <1>1, <2>1 DEF Todo, AtFile
<1>4. ASSUME NEW c \in owed, InSource(c) PROVE InSource(c)'
  <2>1. PICK p \in Rel : /\ src[p] # NoIno /\ inode[src[p]].data = c
                         /\ Copies /\ ~errcnt => ~Below(p) \/ Todo(p)
    BY <1>4 DEF InSource
  <2>2. Deleting' => ~Below(p)
    BY <1>1, <1>2, <1>3, <2>1 DEF Deleting
  <2>3. Below(p)' <=> Below(p)
    BY <1>1 DEF Below
  <2> QED
    BY <1>1, <1>2, <2>1, <2>2, <2>3 DEF InSource
<1>5. ASSUME NEW c \in owed, InTarget(c) PROVE InTarget(c)'
  BY <1>1, <1>2, <1>5, TargetSame DEF Active
<1>6. IsTree(tgt, inode)'
  BY <1>1 DEF MoveInv, IsTree, IsDir
<1> QED
  BY <1>1, <1>2, <1>4, <1>5, <1>6 DEF MoveInv, OwedIsHeld

\* While the original is removed, what goes is below the operand: every other name
\* of the source stays, the target is as it was, and so is what the names left in
\* either of them stand for.
Removes ==
    /\ cpat' \in {"next", "delete", "rmread"} /\ UNCHANGED <<argn, owed, tgt>>
    /\ \A q \in Rel : src'[q] = src[q] \/ Below(q)
    /\ \A q \in Rel : src'[q] # NoIno => inode'[src'[q]] = inode[src'[q]]
    /\ \A q \in Rel : tgt[q] # NoIno => inode'[tgt[q]] = inode[tgt[q]]

\* So nothing owed goes: it is in the target, or outside the operand.
LEMMA MoveRemoves ==
    ASSUME Active, MoveInv, Deleting, Removes
    PROVE  MoveInv'
<1>1. ~Before /\ ~Before' /\ ~Copies'
  BY DEF Before, Copies, Deleting, AtObject, AtFile, Removes
<1>2. ASSUME NEW c \in owed, InSource(c) PROVE InSource(c)'
  <2>1. PICK p \in Rel : src[p] # NoIno /\ inode[src[p]].data = c /\ ~Below(p)
    BY <1>2 DEF InSource
  <2>2. src'[p] # NoIno /\ inode'[src'[p]].data = c
    BY <2>1 DEF Removes
  <2>3. Below(p)' <=> Below(p)
    BY DEF Below, Removes
  <2> QED
    BY <1>1, <2>1, <2>2, <2>3 DEF InSource
<1>3. ASSUME NEW c \in owed, InTarget(c) PROVE InTarget(c)'
  <2>1. PICK p \in Rel : tgt[p] # NoIno /\ inode[tgt[p]].data = c /\ Moved(p)
    BY <1>3 DEF InTarget
  <2>2. Moved(p)'
    BY <1>1, <2>1, MovedOn DEF Active, Removes
  <2> QED
    BY <2>1, <2>2 DEF InTarget, Removes
<1>4. IsTree(tgt, inode)'
  <2>1. ASSUME NEW p \in Rel, tgt[p] # NoIno, NEW n \in 1..Len(p) - 1
        PROVE  IsDir(inode', tgt[SubSeq(p, 1, n)])
    <3>1. SubSeq(p, 1, n) \in Rel /\ IsDir(inode, tgt[SubSeq(p, 1, n)])
      BY <2>1, CutNames DEF MoveInv, IsTree
    <3> QED
      BY <3>1 DEF IsDir, Removes
  <2> QED
    BY <2>1 DEF IsTree, Removes
<1> QED
  BY <1>1, <1>2, <1>3, <1>4 DEF MoveInv, OwedIsHeld, Removes

\* trydelete() enters a directory, removes a file or gives up.
LEMMA TryDeleteRemoves ==
    ASSUME Active, TryDelete
    PROVE  Deleting /\ Removes
<1>1. /\ cpat = "delete" /\ UNCHANGED <<argn, owed, path>>
      /\ EntersDir \/ RemovesFile \/ GivesUp
  BY TryDeleteCases DEF Keep, cpHistory
<1>2. cpat' \in {"next", "rmread"} /\ Deleting
  BY <1>1, TryDeleteRuns DEF Deleting
<1>3. World /\ Files /\ path \in Rel /\ Below(path)
  BY <1>1, ActiveWorld DEF Active, Levels
<1>4. CASE UNCHANGED world
  BY <1>1, <1>2, <1>4 DEF Removes, world
<1>5. CASE RemovesFile
  <2>1. /\ tgt' = tgt
        /\ \A q \in Rel : src'[q] = IF q = path THEN NoIno ELSE src[q]
        /\ \A q \in Rel : src'[q] # NoIno => inode'[src'[q]] = inode[src'[q]]
        /\ \A q \in Rel : tgt[q] # NoIno => inode'[tgt[q]] = inode[tgt[q]]
    BY <1>3, <1>5, UnlinkSrcFacts DEF RemovesFile
  <2>2. \A q \in Rel : src'[q] = src[q] \/ Below(q)
    BY <1>3, <2>1
  <2> QED
    BY <1>1, <1>2, <2>1, <2>2 DEF Removes
<1> QED
  BY <1>1, <1>4, <1>5 DEF EntersDir, GivesUp

\* rmread() removes a directory when nothing is left in it.
LEMMA DeleteNextRemoves ==
    ASSUME Active, DeleteNext
    PROVE  Deleting /\ Removes
<1>1. /\ cpat = "rmread" /\ UNCHANGED <<argn, owed>>
      /\ (\E q : NextKid(q)) \/ RemovesDir \/ DirStays
  BY DeleteNextCases DEF Keep, cpHistory
<1>2. cpat' \in {"next", "rmread", "delete"} /\ Deleting
  BY <1>1, DeleteNextRuns DEF Deleting
<1>3. CASE UNCHANGED world
  BY <1>1, <1>2, <1>3 DEF Removes, world
<1>4. CASE RemovesDir
  <2>1. stack # <<>> /\ Len(stack) \in 1..Len(stack) /\ Last(stack) = stack[Len(stack)]
    <3>1. stack # <<>>
      BY <1>1 DEF Active, Levels
    <3> QED
      BY <1>4, <3>1, PopFacts DEF RemovesDir, Active
  <2>2. PICK d : d = Last(stack).dir
    OBVIOUS
  <2>3. d \in Rel /\ Below(d)
    BY <2>1, <2>2, ActiveWorld DEF Active, Levels, Frame
  <2>4. Kids(src, d) = {} /\ UnlinkSrc(d) /\ World /\ Files
    BY <1>4, <2>2, ActiveWorld DEF RemovesDir, Active
  <2>5. /\ tgt' = tgt
        /\ \A q \in Rel : src'[q] = IF q = d THEN NoIno ELSE src[q]
        /\ \A q \in Rel : src'[q] # NoIno => inode'[src'[q]] = inode[src'[q]]
        /\ \A q \in Rel : tgt[q] # NoIno => inode'[tgt[q]] = inode[tgt[q]]
    BY <2>3, <2>4, UnlinkSrcFacts
  <2>6. \A q \in Rel : src'[q] = src[q] \/ Below(q)
    BY <2>3, <2>5
  <2> QED
    BY <1>1, <1>2, <2>5, <2>6 DEF Removes
<1> QED
  BY <1>1, <1>3, <1>4 DEF NextKid, DirStays

\* Somebody else only adds to the source.
LEMMA MoveSomebody ==
    ASSUME Active, Mv, MoveInv, Somebody
    PROVE  MoveInv'
<1>1. /\ UNCHANGED <<cpat, argn, path, stack, linktab, errcnt, owed>>
      /\ World /\ CpStates
  BY SomebodyRuns, ActiveWorld DEF Active
<1>2. PICK p \in Rel, i \in Ino : SrcGrows(p, i)
  BY SomebodyFacts DEF Active
<1>3. /\ src[p] = NoIno /\ tgt' = tgt
      /\ \A q \in Rel : src[q] # NoIno => inode'[src[q]] = inode[src[q]] /\ src'[q] = src[q]
      /\ \A q \in Rel : src'[q] = IF q = p THEN i ELSE src[q]
      /\ \A q \in Rel : tgt[q] # NoIno => inode'[tgt[q]] = inode[tgt[q]]
      /\ HasNot(tgt, i) \/ \E q \in Rel : src[q] = i
  BY <1>1, <1>2 DEF SrcGrows, World
<1>4. (Before' <=> Before) /\ (Copies' <=> Copies) /\ (Deleting' <=> Deleting)
      /\ (\A q : Below(q)' <=> Below(q)) /\ (\A q : Todo(q)' <=> Todo(q))
      /\ (\A q : Moved(q)' <=> Moved(q))
  BY <1>1 DEF Before, Copies, Deleting, Below, Todo, Moved
<1>5. ASSUME NEW c \in owed, InSource(c) PROVE InSource(c)'
  BY <1>1, <1>3, <1>4, <1>5 DEF InSource
<1>6. ASSUME NEW c \in owed, InTarget(c) PROVE InTarget(c)'
  BY <1>3, <1>4, <1>6 DEF InTarget
<1>7. OwedIsHeld'
  BY <1>1, <1>5, <1>6 DEF MoveInv, OwedIsHeld
<1>8. \A q \in Rel : IsDir(inode, tgt[q]) => IsDir(inode', tgt[q])
  BY <1>3 DEF IsDir
<1>9. IsTree(tgt, inode)'
  <2>1. ASSUME NEW q \in Rel, tgt[q] # NoIno, NEW n \in 1..Len(q) - 1
        PROVE  IsDir(inode', tgt[SubSeq(q, 1, n)])
    BY <1>8, <2>1, CutNames DEF MoveInv, IsTree
  <2> QED
    BY <1>3, <2>1 DEF IsTree
<1>10. ASSUME Copies PROVE FreshTree'
  <2>1. FreshTree
    BY <1>10 DEF MoveInv
  <2>2. ASSUME NEW k \in 1..Len(stack) PROVE FreshDir(k)'
    <3>1. FreshDir(k) /\ stack[k].dir \in Rel
      BY <2>1, ActiveWorld DEF FreshTree, Frame, Active
    <3>2. IsDir(inode, tgt[stack[k].dir])'
      BY <1>1, <1>3, <1>8, <3>1 DEF FreshDir
    <3>3. (stack[k].had \subseteq Kids(src, stack[k].dir))'
      <4>1. Kids(src, stack[k].dir) \subseteq Kids(src', stack[k].dir)
        BY <1>3 DEF Kids
      <4> QED
        BY <1>1, <3>1, <4>1 DEF FreshDir
    <3> QED
      BY <1>1, <1>3, <3>1, <3>2, <3>3 DEF FreshDir, ChildOf
  <2>3. ASSUME cpat = "data"
        PROVE  HasNot(src', tgt[path]) /\ inode'[tgt[path]].data = NoData
    <3>1. path \in Rel /\ tgt[path] # NoIno /\ HasNot(src, tgt[path])
          /\ inode[tgt[path]].data = NoData
      BY <1>10, <2>1, <2>3, AtFileFacts DEF FreshTree, Active, Position, AtFile
    <3> QED
      BY <1>3, <3>1 DEF HasNot
  <2>4. cpat \in AtObject \ {"data"} => tgt[path] = NoIno
    BY <2>1 DEF FreshTree
  <2>5. cpat = "data" => \A q \in Rel : tgt[q] = tgt[path] => q = path
    BY <2>1 DEF FreshTree
  <2> QED
    BY <1>1, <1>3, <2>2, <2>3, <2>4, <2>5 DEF FreshTree
<1>11. ASSUME Copies, ~errcnt PROVE CopiesAgree'
  <2>1. CopiesAgree
    BY <1>11 DEF MoveInv
  <2>2. ASSUME NEW l \in Ino, linktab[l] # NoPath
        PROVE  /\ src'[linktab[l]] = l
               /\ tgt[linktab[l]] # NoIno /\ ~(cpat = "data" /\ path = linktab[l])
                    => inode'[tgt[linktab[l]]].data = inode'[l].data
    <3>1. linktab[l] \in Rel /\ src[linktab[l]] = l /\ l # NoIno
      BY <1>1, <2>1, <2>2, NoInode DEF CopiesAgree, CpStates
    <3>2. src'[linktab[l]] = l /\ inode'[l] = inode[l]
      BY <1>3, <3>1
    <3>3. tgt[linktab[l]] # NoIno => inode'[tgt[linktab[l]]] = inode[tgt[linktab[l]]]
      BY <1>3, <3>1
    <3> QED
      BY <2>1, <2>2, <3>2, <3>3 DEF CopiesAgree
  <2> QED
    BY <1>1, <1>3, <2>2 DEF CopiesAgree
<1> QED
  BY <1>1, <1>4, <1>7, <1>9, <1>10, <1>11 DEF MoveInv

\* Every step of mv.
LEMMA MovePreserved ==
    ASSUME Active, Mv, MoveInv, CpStep \/ Somebody, cpat' # "end"
    PROVE  MoveInv'
<1>1. CASE NextArg \/ Go \/ Rename \/ RenameAcross
  BY <1>1, MoveNextArg, MoveGo, MoveRename, MoveRenameAcross
<1>2. CASE Decline
  <2>1. Leaves /\ cpat \in {"rename", "copy"} /\ dsp # NoIno
    BY <1>2, DeclineLeaves
  <2>2. CASE cpat = "rename"
    BY <2>1, <2>2, MoveLeaves DEF Active, Levels, AtTop
  <2>3. CASE cpat = "copy"
    BY <2>1, <2>3, MoveObject DEF Active, Position
  <2> QED
    BY <2>1, <2>2, <2>3
<1>3. CASE CopyDirRefused
  BY <1>3, CopyDirRefusedLeaves, MoveLeaves
<1>4. CASE CopyDir \/ ReadDir
  BY <1>4, MoveCopyDir, ReadDirCases, MoveEntry, MoveNoEntry
<1>5. CASE CopyFile \/ CanLink \/ Creat \/ CopyData \/ Special
  BY <1>5, MoveCopyFile, MoveCanLink, MoveCreat, MoveCopyData, MoveSpecial
<1>6. CASE EndOfArg \/ TryDelete \/ DeleteNext \/ Somebody
  BY <1>6, MoveEndOfArg, TryDeleteRemoves, DeleteNextRemoves, MoveRemoves, MoveSomebody
<1>7. CASE LnRefused \/ LnUnlink \/ Ln
  <2>1. cpat = "ln"
    BY <1>7 DEF LnRefused, LnUnlink, Ln
  <2> QED
    BY <2>1 DEF Active, Position, Mv
<1> QED
  BY <1>1, <1>2, <1>3, <1>4, <1>5, <1>6, <1>7 DEF CpStep

-----------------------------------------------------------------------------
(* The invariant *)

\* The program stays where it can be, or it ends and has touched nothing.
LEMMA ActivePreserved ==
    ASSUME Active, CpStep \/ Somebody, ~Mv => CopyInv, Mv => MoveInv
    PROVE  Active' \/ (cpat' = "end" /\ CpStates' /\ UNCHANGED <<world, owed>>)
<1>1. CASE NextArg
  <2>1. Runs' /\ cpat' \in {"go", "end"} /\ UNCHANGED <<world, owed>>
    BY <1>1, NextArgRuns DEF NextArg, cpHistory
  <2>2. cpat' = "go" => ~Halted'
    BY DEF Halted
  <2> QED
    BY <2>1, <2>2 DEF Runs, Active
<1>2. CASE Go \/ Decline \/ Rename \/ RenameAcross
  BY <1>2, GoRuns, DeclineRuns, RenameRuns, RenameAcrossRuns
<1>3. CASE CopyDirRefused \/ LnRefused
  BY <1>3, CopyDirRefusedLeaves, LnRefusedLeaves, LeavesRuns
<1>4. CASE CopyDir \/ ReadDir
  BY <1>4, CopyDirRuns, ReadDirCases, EntryRuns, NoEntryRuns
<1>5. cpat \in AtFile => NotShared
  <2>1. CASE ~Mv
    BY <2>1, CopyNotShared
  <2>2. CASE Mv
    BY <2>2, MoveObject DEF NotShared, FreshTree
  <2> QED
    BY <2>1, <2>2
<1>6. CASE CopyFile \/ CanLink \/ Special
  BY <1>6, CopyFileRuns, CanLinkRuns, SpecialRuns
<1>7. CASE Creat \/ CopyData
  <2>1. NotShared
    BY <1>5, <1>7 DEF Creat, CopyData, AtFile
  <2> QED
    BY <1>7, <2>1, CreatRuns, CopyDataRuns
<1>8. CASE EndOfArg \/ TryDelete \/ DeleteNext
  BY <1>8, EndOfArgRuns, TryDeleteRuns, DeleteNextRuns
<1>9. CASE LnUnlink \/ Ln \/ Somebody
  BY <1>9, LnUnlinkRuns, LnRuns, SomebodyRuns
<1> QED
  BY <1>1, <1>2, <1>3, <1>4, <1>6, <1>7, <1>8, <1>9 DEF CpStep

LEMMA OptKept ==
    ASSUME CpStep \/ Somebody
    PROVE  opt' = opt
  BY DEF CpStep, Keep, fixed, Somebody, NextArg, Go, Stop, Goto, Decline, Rename, RenameAcross,
         CopyDirRefused, CopyDir, ReadDir, CopyFile, CanLink, Creat, CopyData, Special,
         EndOfArg, TryDelete, DeleteNext, LnRefused, LnUnlink, Ln

\* What is owed has a name, in the source or in the target.
LEMMA OwedIsSafe ==
    ASSUME (Mv /\ MoveInv) \/ (~Mv /\ CopyInv)
    PROVE  SourceIsSafe
<1>1. CASE MoveInv
  BY <1>1 DEF MoveInv, OwedIsHeld, InSource, InTarget, SourceIsSafe
<1>2. CASE CopyInv
  BY <1>2 DEF CopyInv, SourceHas, SourceIsSafe
<1> QED
  BY <1>1, <1>2

LEMMA CpInitially ==
    ASSUME CpInit
    PROVE  CpInv
<1>1. PICK s \in Start : src = s.src /\ tgt = s.tgt /\ inode = s.inode /\ tdev = s.tdev
  BY DEF CpInit, CpBegin
<1>2. /\ opt \in Opt /\ cpat = "next" /\ argn = 0
      /\ path = NoPath /\ dsp = NoIno /\ stack = <<>>
      /\ linktab = [i \in Ino |-> NoPath]
      /\ errcnt = FALSE /\ saverrs = FALSE
      /\ owed = {inode[src[p]].data : p \in {q \in Rel : src[q] # NoIno}} \ {NoData}
      /\ added = 0
  BY DEF CpInit, CpBegin
<1>3. GoodStart(s)
  BY <1>1, CpAssumption
<1>4. World /\ tdev \in Device /\ Files /\ IsTree(tgt, inode)
  BY <1>1, <1>3 DEF GoodStart, World, InodeRecord, Files
<1>5. Len(Args) \in Nat /\ Len(stack) = 0 /\ stack \in Seq(Frame) /\ 1..Len(stack) = {}
  BY <1>2, CpAssumption, LenProperties, EmptySeq
<1>6. CpStates
  <2>1. 0 \in 0..Len(Args) + 1 /\ 0 \in 0..MaxNew
    BY <1>5, CpAssumption
  <2>2. linktab \in [Ino -> Rel \cup {NoPath}]
    BY <1>2
  <2> QED
    BY <1>2, <1>4, <1>5, <2>1, <2>2 DEF CpStates, World
<1>7. Levels
  BY <1>2, <1>5 DEF Levels, AtObject, AtFile, AtTop
<1>8. NoLinks
  BY <1>2 DEF NoLinks
<1>9. Position
  BY <1>2, <1>5, <1>8 DEF Position, Labels, AtObject, AtFile, AtTop
<1>10. ~Copies /\ ~Deleting
  BY <1>2 DEF Copies, Deleting, AtObject, AtFile
<1>11. ASSUME Mv PROVE MoveInv
  <2>1. ASSUME NEW c \in owed PROVE InSource(c)
    BY <1>2, <1>10, <2>1 DEF InSource
  <2> QED
    BY <1>2, <1>4, <1>10, <2>1 DEF MoveInv, OwedIsHeld
<1>12. ASSUME ~Mv PROVE CopyInv
  <2>1. ASSUME NEW c \in owed PROVE SourceHas(c)
    BY <1>2, <2>1 DEF SourceHas
  <2>2. CopiesApart
    BY <1>8 DEF CopiesApart, NoLinks
  <2>3. OwnFiles(src, tgt, inode)
    BY <1>1, <1>2, <1>12, CpAssumption DEF Mv
  <2> QED
    BY <1>2, <2>1, <2>2, <2>3 DEF CopyInv, AtFile
<1>13. SourceIsSafe
  BY <1>11, <1>12, OwedIsSafe
<1> QED
  BY <1>4, <1>6, <1>7, <1>9, <1>11, <1>12, <1>13 DEF CpInv

LEMMA CpStutters ==
    ASSUME CpInv, UNCHANGED cpVars
    PROVE  CpInv'
<1>1. /\ UNCHANGED <<src, tgt, inode, tdev, opt, cpat, argn, path, dsp, stack, linktab>>
      /\ UNCHANGED <<errcnt, saverrs, owed, orig, added, apart>>
  BY DEF cpVars, world, fixed, errors, cpHistory
<1>2. CpStates' /\ SourceIsSafe' /\ (Halted' <=> Halted) /\ (Mv' <=> Mv)
  BY <1>1 DEF CpInv, CpStates, SourceIsSafe, Halted, Mv
<1>3. Files => Files'
  BY <1>1 DEF Files, FilesExist, Hollow, IsTree, IsDir
<1>4. Levels => Levels'
  BY <1>1 DEF Levels, Below, ChildOf
<1>5. Position => Position'
  BY <1>1 DEF Position, NoLinks, Mv
<1>6. CopyInv => CopyInv'
  BY <1>1 DEF CopyInv, SourceHas, OwnFiles, IsDir, CopiesApart, HasNot
<1>7. (Before' <=> Before) /\ (Copies' <=> Copies) /\ (Deleting' <=> Deleting)
      /\ (\A q : Below(q)' <=> Below(q)) /\ (\A q : Todo(q)' <=> Todo(q))
      /\ (\A q : Moved(q)' <=> Moved(q))
  BY <1>1 DEF Before, Copies, Deleting, Below, Todo, Moved
<1>8. OwedIsHeld => OwedIsHeld'
  BY <1>1, <1>7 DEF OwedIsHeld, InSource, InTarget
<1>9. FreshTree => FreshTree'
  BY <1>1 DEF FreshTree, FreshDir, IsDir, Kids, ChildOf, HasNot
<1>10. CopiesAgree => CopiesAgree'
  BY <1>1 DEF CopiesAgree
<1>11. IsTree(tgt, inode) => IsTree(tgt, inode)'
  BY <1>1 DEF IsTree, IsDir
<1>12. MoveInv => MoveInv'
  BY <1>1, <1>7, <1>8, <1>9, <1>10, <1>11 DEF MoveInv
<1> QED
  BY <1>2, <1>3, <1>4, <1>5, <1>6, <1>12 DEF CpInv

LEMMA CpStepKeeps ==
    ASSUME CpInv, [CpNext]_cpVars
    PROVE  CpInv'
<1>1. CASE UNCHANGED cpVars
  BY <1>1, CpStutters
<1>2. CASE Halted /\ CpNext
  BY <1>2 DEF Halted, CpNext, CpStep, Kill, Somebody, NextArg, Go, Decline, Asked, Rename,
       RenameAcross, CopyDirRefused, CopyDir, ReadDir, CopyFile, CanLink, Creat, CopyData,
       Special, EndOfArg, TryDelete, DeleteNext, LnRefused, LnUnlink, Ln
<1>3. CASE Active /\ Kill
  <2>1. CpStates' /\ Halted' /\ UNCHANGED <<world, owed>>
    BY <1>3, KillRuns DEF Runs, Active
  <2> QED
    BY <2>1 DEF CpInv, SourceIsSafe, world
<1>4. CASE Active /\ (CpStep \/ Somebody) /\ (~Mv => CopyInv) /\ (Mv => MoveInv)
  <2>1. Active' \/ (cpat' = "end" /\ CpStates' /\ UNCHANGED <<world, owed>>)
    BY <1>4, ActivePreserved
  <2>2. Mv' <=> Mv
    BY <1>4, OptKept DEF Mv
  <2>3. CASE cpat' # "end"
    <3>1. (~Mv' => CopyInv') /\ (Mv' => MoveInv')
      BY <1>4, <2>2, <2>3, CopyPreserved, MovePreserved
    <3>2. SourceIsSafe'
      BY <3>1, OwedIsSafe, PTL
    <3> QED
      BY <2>1, <2>3, <3>1, <3>2 DEF CpInv, Active
  <2>4. CASE cpat' = "end"
    <3>1. ~Active'
      BY <2>4 DEF Active, Position, Labels, AtObject, AtFile, AtTop
    <3>2. SourceIsSafe'
      BY <2>1, <3>1 DEF CpInv, SourceIsSafe, world
    <3> QED
      BY <2>1, <2>4, <3>1, <3>2 DEF CpInv, Halted
  <2> QED
    BY <2>3, <2>4
<1> QED
  BY <1>1, <1>2, <1>3, <1>4 DEF CpInv, Active, CpNext

\* Whatever fails and whenever it is killed, the program is where cpmv(), ln() or
\* trydelete() can be, and mv's tree is copied, being copied, or still to be.
THEOREM CpInvariant == CpSpec => []CpInv
<1>1. CpInit => CpInv
  BY CpInitially
<1>2. CpInv /\ [CpNext]_cpVars => CpInv'
  BY CpStepKeeps
<1> QED
  BY <1>1, <1>2, PTL DEF CpSpec

\* cp.c loses no data: mv removes its operand only after all of it is copied, and
\* neither mv, cp nor ln writes to a file that the source has.
THEOREM NothingLost == CpSpec => []SourceIsSafe
<1>1. CpInv => SourceIsSafe
  BY DEF CpInv
<1> QED
  BY <1>1, CpInvariant, PTL

\* The variables keep their types: the inodes and names, the stack of directories
\* that are being read and the table d0 of linked files.
THEOREM CpTyped == CpSpec => []CpTypeOK
<1>1. CpInv => CpTypeOK
  <2>1. SUFFICES ASSUME CpInv PROVE CpTypeOK
    OBVIOUS
  <2>2. CpStates
    BY <2>1 DEF CpInv
  <2>3. \A i \in Ino : inode[i].kind \in Kinds
    BY <2>2 DEF CpStates, InodeRecord
  <2>4. \A k \in DOMAIN stack : stack[k].dir \in Rel
    <3>1. stack \in Seq(Frame)
      BY <2>2 DEF CpStates
    <3>2. \A k \in DOMAIN stack : stack[k] \in Frame
      BY <3>1, LenProperties, ElementOfSeq
    <3> QED
      BY <3>2 DEF Frame
  <2> QED
    BY <2>2, <2>3, <2>4 DEF CpTypeOK, CpStates
<1> QED
  BY <1>1, CpInvariant, PTL

-----------------------------------------------------------------------------
(* mv preserves linkage *)

\* There was a file with data at this place.
Had(p) == orig[p] # NoData
SameFile(p, q) == q # p /\ q[1] = p[1] /\ orig[q] = orig[p]

\* Its operand has been dealt with, or is copied and now removed.
Earlier(p) ==
    \E k \in 1..(IF cpat = "next" \/ Deleting THEN argn ELSE argn - 1) : p[1] = Args[k][1]
Departed(p) == Had(p) /\ (src[p] = NoIno \/ (Deleting /\ Below(p)))
Placed(p) == tgt[p] # NoIno /\ inode[tgt[p]].data = orig[p]

\* What mv has not removed yet is as it was found, and linked as it was.
AsFound ==
    /\ \A p \in Rel : Had(p) /\ ~Earlier(p) => src[p] # NoIno /\ inode[src[p]].data = orig[p]
    /\ \A p, q \in Rel :
        Had(p) /\ orig[p] = orig[q] /\ ~Earlier(p) /\ ~Earlier(q) => src[p] = src[q]

\* What it has removed is in the target, and linked as it was.
Settled ==
    /\ \A p \in Rel : Departed(p) => Placed(p)
    /\ \A p, q \in Rel : Departed(p) /\ Departed(q) /\ SameFile(p, q) => tgt[p] = tgt[q]

\* What it has copied of the operand is in the target, and a file with other
\* names, copied or not, is linked there to its first copy.
FirstCopies ==
    \A p \in Rel : Had(p) /\ Below(p) /\ ~Todo(p) =>
        /\ Placed(p)
        /\ \A q \in Rel : SameFile(p, q) =>
            linktab[src[p]] # NoPath /\ tgt[p] = tgt[linktab[src[p]]]

\* A file is copied if it is the first of its names, or the only one.
FirstIsCopied ==
    cpat \in {"creat", "special", "data"} /\ Had(path) =>
        linktab[src[path]] = path \/ \A q \in Rel : ~SameFile(path, q)

LinkInv == AsFound /\ Settled /\ (Copies => FirstCopies) /\ FirstIsCopied

\* As long as nothing has failed.
NoFailure == ~saverrs /\ (cpat = "end" \/ ~errcnt) /\ ~apart
LinkSafe == Mv /\ cpat # "killed" /\ NoFailure => LinkInv

\* No step takes a failure back, but for the next operand, that saves it.
LEMMA FailuresStay ==
    ASSUME CpStep \/ Somebody, cpat # "end"
    PROVE  /\ orig' = orig
           /\ NoFailure' => ~saverrs /\ ~errcnt /\ ~apart
           /\ NoFailure' /\ cpat # "next" => ~errcnt'
<1>1. CASE NextArg
  BY <1>1 DEF NextArg, NoFailure, cpHistory
<1>2. CASE CpStep /\ ~NextArg
  <2>1. orig' = orig /\ (apart' = apart \/ apart' = TRUE)
    BY <1>2 DEF CpStep, Keep, cpHistory, Go, Stop, Goto, Decline, Rename, RenameAcross,
         CopyDirRefused, CopyDir, ReadDir, CopyFile, CanLink, Creat, CopyData, Special,
         EndOfArg, TryDelete, DeleteNext, LnRefused, LnUnlink, Ln
  <2>2. saverrs' = saverrs /\ (errcnt' = errcnt \/ errcnt' = TRUE)
    BY <1>2 DEF CpStep, errors, Fail, Permissions, Go, Stop, Goto, Decline, Rename, RenameAcross,
         CopyDirRefused, CopyDir, ReadDir, CopyFile, CanLink, Creat, CopyData, Special,
         EndOfArg, TryDelete, DeleteNext, LnRefused, LnUnlink, Ln
  <2>3. cpat' # "end"
    BY <1>2 DEF CpStep, Return, Finish, Done, Deleted, Copying, Go, Stop, Goto, Decline, Rename,
         RenameAcross, CopyDirRefused, CopyDir, ReadDir, CopyFile, CanLink, Creat, CopyData,
         Special, EndOfArg, TryDelete, DeleteNext, LnRefused, LnUnlink, Ln
  <2> QED
    BY <2>1, <2>2, <2>3 DEF NoFailure
<1>3. CASE Somebody
  BY <1>3 DEF Somebody, NoFailure, errors
<1> QED
  BY <1>1, <1>2, <1>3 DEF CpStep

\* The operands that have been dealt with stay so.
LEMMA EarlierStays ==
    ASSUME CpStates, argn' = argn,
           cpat = "next" \/ Deleting => cpat' = "next" \/ Deleting',
           NEW p, Earlier(p)
    PROVE  Earlier(p)'
<1>1. argn \in Nat /\ 1..argn - 1 \subseteq 1..argn
  BY ActiveWorld
<1> QED
  BY <1>1 DEF Earlier

\* While an operand is copied it is none of them, as two operands have two names.
LEMMA BelowIsLate ==
    ASSUME Active, argn >= 1, cpat # "next", ~Deleting, NEW p, Below(p)
    PROVE  ~Earlier(p)
<1>1. argn \in Nat /\ Len(Args) \in Nat /\ argn <= Len(Args) /\ DOMAIN Args = 1..Len(Args)
  BY ActiveWorld, CpAssumption, LenProperties DEF Active, Position
<1>2. ASSUME NEW k \in 1..argn - 1 PROVE p[1] # Args[k][1]
  <2>1. argn \in DOMAIN Args /\ k \in DOMAIN Args /\ argn # k
    BY <1>1
  <2> QED
    BY <2>1, ArgsDiffer DEF Below
<1> QED
  BY <1>2 DEF Earlier

\* An operand that is removed, or done with, is one of them.
LEMMA BelowIsEarlier ==
    ASSUME CpStates, argn >= 1, argn' = argn, cpat' = "next" \/ Deleting', NEW p, Below(p)
    PROVE  Earlier(p)'
<1>1. argn \in Nat /\ argn \in 1..argn
  BY ActiveWorld
<1> QED
  BY <1>1 DEF Earlier, Below

\* Nothing of what is still to be removed has changed.
LEMMA AsFoundStays ==
    ASSUME AsFound, orig' = orig, \A p \in Rel : Earlier(p) => Earlier(p)',
           \A p \in Rel : ~Earlier(p)' /\ src[p] # NoIno =>
               src'[p] = src[p] /\ inode'[src[p]].data = inode[src[p]].data
    PROVE  AsFound'
<1>1. ASSUME NEW p \in Rel, Had(p)', ~Earlier(p)'
      PROVE  /\ src[p] # NoIno /\ src'[p] = src[p]
             /\ inode'[src[p]].data = orig[p]
  BY <1>1 DEF AsFound, Had
<1>2. ASSUME NEW p \in Rel, Had(p)', ~Earlier(p)'
      PROVE  src'[p] # NoIno /\ inode'[src'[p]].data = orig'[p]
  <2>1. src[p] # NoIno /\ src'[p] = src[p] /\ inode'[src[p]].data = orig[p]
    BY <1>1, <1>2
  <2> QED
    BY <2>1
<1>3. ASSUME NEW p \in Rel, NEW q \in Rel, Had(p)', orig'[p] = orig'[q], ~Earlier(p)', ~Earlier(q)'
      PROVE  src'[p] = src'[q]
  <2>1. Had(p) /\ Had(q)' /\ orig[p] = orig[q] /\ ~Earlier(p) /\ ~Earlier(q)
    BY <1>3 DEF Had
  <2>2. src[p] = src[q]
    BY <2>1 DEF AsFound
  <2> QED
    BY <1>1, <1>3, <2>1, <2>2
<1> QED
  BY <1>2, <1>3 DEF AsFound

\* Nothing of what has been removed, and is in the target, has changed.
LEMMA SettledStays ==
    ASSUME Settled, orig' = orig, \A p \in Rel : Departed(p)' => Departed(p),
           \A p \in Rel : Departed(p) /\ tgt[p] # NoIno =>
               tgt'[p] = tgt[p] /\ inode'[tgt[p]].data = inode[tgt[p]].data
    PROVE  Settled'
<1>1. ASSUME NEW p \in Rel, Departed(p)'
      PROVE  /\ Departed(p) /\ tgt[p] # NoIno /\ tgt'[p] = tgt[p]
             /\ inode'[tgt[p]].data = orig[p]
  BY <1>1 DEF Settled, Placed
<1>2. ASSUME NEW p \in Rel, Departed(p)' PROVE tgt'[p] # NoIno /\ inode'[tgt'[p]].data = orig'[p]
  <2>1. tgt[p] # NoIno /\ tgt'[p] = tgt[p] /\ inode'[tgt[p]].data = orig[p]
    BY <1>1, <1>2
  <2> QED
    BY <2>1
<1>3. ASSUME NEW p \in Rel, NEW q \in Rel, Departed(p)', Departed(q)', SameFile(p, q)'
      PROVE  tgt'[p] = tgt'[q]
  <2>1. Departed(p) /\ Departed(q) /\ SameFile(p, q)
    BY <1>1, <1>3 DEF SameFile
  <2>2. tgt[p] = tgt[q]
    BY <2>1 DEF Settled
  <2> QED
    BY <1>1, <1>3, <2>2
<1> QED
  BY <1>2, <1>3 DEF Settled, Placed

\* No file changes, and the program does not begin to remove an operand.
LEMMA LinksSame ==
    ASSUME CpStates, AsFound, Settled, orig' = orig, argn' = argn, UNCHANGED world,
           ~Deleting', cpat = "next" \/ Deleting => cpat' = "next"
    PROVE  AsFound' /\ Settled'
<1>1. \A p \in Rel : Earlier(p) => Earlier(p)'
  BY EarlierStays
<1>2. AsFound'
  BY <1>1, AsFoundStays DEF world
<1>3. \A p \in Rel : Departed(p)' => Departed(p)
  BY DEF Departed, Had, world
<1> QED
  BY <1>2, <1>3, SettledStays DEF world

\* While mv copies, only the target of the object changes.
LEMMA LinksOnCopy ==
    ASSUME Active, Mv, MoveInv, AsFound, Settled, cpat \in {"copy"} \cup AtFile,
           NEW j, TgtStep(path, j), argn' = argn, orig' = orig, ~Deleting'
    PROVE  AsFound' /\ Settled'
<1>1. /\ CpStates /\ World /\ path \in Rel /\ src[path] # NoIno /\ ~Deleting /\ cpat # "next"
  BY MoveObject DEF AtFile
<1>2. \A p \in Rel : Earlier(p) => Earlier(p)'
  BY <1>1, EarlierStays
<1>3. SrcKept
  BY DEF TgtStep
<1>4. AsFound'
  BY <1>2, <1>3, AsFoundStays DEF SrcKept
<1>5. \A p \in Rel : Departed(p)' => Departed(p)
  BY <1>3 DEF Departed, Had, SrcKept
<1>6. ~Departed(path)
  BY <1>1 DEF Departed
<1>7. \A p \in Rel : Departed(p) /\ tgt[p] # NoIno =>
            tgt'[p] = tgt[p] /\ inode'[tgt[p]].data = inode[tgt[p]].data
  BY <1>1, <1>6 DEF TgtStep, World
<1> QED
  BY <1>4, <1>5, <1>7, SettledStays

\* The object, as it was found.
LEMMA ObjectAsFound ==
    ASSUME Active, Mv, MoveInv, AsFound, cpat \in {"copy"} \cup AtFile
    PROVE  /\ Had(path) => inode[src[path]].data = orig[path]
           /\ \A q \in Rel : Had(path) /\ SameFile(path, q) => src[q] = src[path]
           /\ ~Earlier(path) /\ Had(path) \in BOOLEAN
<1>1. path \in Rel /\ Below(path) /\ argn >= 1 /\ ~Deleting /\ cpat # "next"
  BY MoveObject DEF AtFile
<1>2. ~Earlier(path)
  BY <1>1, BelowIsLate
<1>3. ASSUME NEW q \in Rel, Had(path), SameFile(path, q) PROVE src[q] = src[path]
  <2>1. Below(q)
    BY <1>1, <1>3 DEF SameFile, Below
  <2>2. ~Earlier(q)
    BY <1>1, <2>1, BelowIsLate
  <2> QED
    BY <1>1, <1>2, <1>3, <2>2 DEF AsFound, SameFile
<1> QED
  BY <1>1, <1>2, <1>3 DEF AsFound, Had

\* What has been copied stays as it is while the object is copied.
LEMMA CopiesOnCopy ==
    ASSUME Active, Mv, MoveInv, AsFound, FirstCopies, cpat \in {"copy"} \cup AtFile,
           NEW j, TgtStep(path, j), tgt[path] = NoIno \/ (cpat = "data" /\ j = tgt[path]),
           argn' = argn, orig' = orig, path' = path,
           \A i \in Ino : linktab[i] # NoPath => linktab'[i] = linktab[i],
           \A p \in Rel : p # path /\ Had(p) /\ Below(p) /\ Todo(p) => Todo(p)',
           Had(path) /\ ~Todo(path)' =>
               /\ j # NoIno /\ inode'[j].data = orig[path]
               /\ \A q \in Rel : SameFile(path, q) =>
                    linktab'[src[path]] # NoPath /\ j = tgt'[linktab'[src[path]]]
    PROVE  FirstCopies'
<1>1. /\ CpStates /\ World /\ path \in Rel /\ src[path] \in Ino /\ FreshTree
      /\ argn >= 1 /\ ~Deleting /\ cpat # "next"
  BY MoveObject DEF AtFile
<1>2. /\ src' = src
      /\ \A q \in Rel : tgt'[q] = IF q = path THEN j ELSE tgt[q]
      /\ \A q \in Rel : q # path /\ tgt[q] # NoIno => inode'[tgt[q]] = inode[tgt[q]]
  BY <1>1 DEF TgtStep, SrcKept, World
<1>3. ASSUME NEW p \in Rel, Had(p), Below(p), ~Todo(p)', p # path
      PROVE  /\ tgt'[p] # NoIno /\ inode'[tgt'[p]].data = orig[p]
             /\ \A q \in Rel : SameFile(p, q) =>
                  linktab'[src[p]] # NoPath /\ tgt'[p] = tgt'[linktab'[src[p]]]
  <2>1. ~Todo(p)
    BY <1>3
  <2>2. tgt[p] # NoIno /\ inode[tgt[p]].data = orig[p] /\ tgt'[p] = tgt[p]
    BY <1>2, <1>3, <2>1 DEF FirstCopies, Placed
  <2>3. ASSUME NEW q \in Rel, SameFile(p, q)
        PROVE  linktab'[src[p]] # NoPath /\ tgt'[p] = tgt'[linktab'[src[p]]]
    <3>1. linktab[src[p]] # NoPath /\ tgt[p] = tgt[linktab[src[p]]]
      BY <1>3, <2>1, <2>3 DEF FirstCopies
    <3>2. src[p] \in Ino
      <4>1. ~Earlier(p)
        BY <1>1, <1>3, BelowIsLate
      <4> QED
        BY <1>1, <1>3, <4>1 DEF AsFound, World
    <3>3. PICK r : r = linktab[src[p]]
      OBVIOUS
    <3>4. r \in Rel /\ linktab'[src[p]] = r
      BY <1>1, <3>1, <3>2, <3>3 DEF CpStates
    <3>5. r # path
      <4>1. SUFFICES ASSUME r = path PROVE FALSE
        OBVIOUS
      <4>2. tgt[p] = tgt[path]
        BY <3>1, <3>3, <4>1
      <4>3. cpat = "data"
        BY <2>2, <4>2
      <4> QED
        BY <1>1, <1>3, <4>2, <4>3 DEF FreshTree
    <3> QED
      BY <1>2, <1>3, <3>1, <3>3, <3>4, <3>5
  <2> QED
    BY <1>2, <1>3, <2>2, <2>3
<1>4. ASSUME NEW p \in Rel, Had(p)', Below(p)', ~Todo(p)'
      PROVE  /\ Placed(p)'
             /\ \A q \in Rel : SameFile(p, q)' =>
                  linktab'[src'[p]] # NoPath /\ tgt'[p] = tgt'[linktab'[src'[p]]]
  <2>1. Had(p) /\ Below(p) /\ \A q : SameFile(p, q)' <=> SameFile(p, q)
    BY <1>4 DEF Had, Below, SameFile
  <2>2. CASE p = path
    <3>1. tgt'[path] = j
      BY <1>1, <1>2
    <3> QED
      BY <1>2, <1>4, <2>1, <2>2, <3>1 DEF Placed
  <2>3. CASE p # path
    BY <1>2, <1>3, <1>4, <2>1, <2>3 DEF Placed
  <2> QED
    BY <2>2, <2>3
<1> QED
  BY <1>4 DEF FirstCopies

\* The same while directories are read.
LEMMA CopiesSame ==
    ASSUME FirstCopies, UNCHANGED world, UNCHANGED <<linktab, argn, orig>>,
           \A p \in Rel : Todo(p) => Todo(p)'
    PROVE  FirstCopies'
<1>1. ASSUME NEW p \in Rel, Had(p)', Below(p)', ~Todo(p)'
      PROVE  /\ Placed(p)'
             /\ \A q \in Rel : SameFile(p, q)' =>
                  linktab'[src'[p]] # NoPath /\ tgt'[p] = tgt'[linktab'[src'[p]]]
  <2>1. Had(p) /\ Below(p) /\ ~Todo(p) /\ \A q : SameFile(p, q)' <=> SameFile(p, q)
    BY <1>1 DEF Had, Below, SameFile
  <2> QED
    BY <2>1 DEF FirstCopies, Placed, world
<1> QED
  BY <1>1 DEF FirstCopies

\* The steps between two operands, and into one.
LEMMA LinkNextArg ==
    ASSUME Active, LinkInv, NextArg, orig' = orig
    PROVE  LinkInv'
<1>1. /\ cpat = "next" /\ cpat' \in {"go", "end"} /\ argn' = argn + 1 /\ argn \in Nat
      /\ UNCHANGED world /\ stack' = <<>>
  BY ActiveWorld DEF NextArg, Active, Levels, AtTop
<1>2. ~Deleting /\ ~Deleting' /\ ~Copies'
  BY <1>1 DEF Deleting, Copies, Before, AtObject, AtFile
<1>3. argn' - 1 = argn
  BY <1>1
<1>4. \A p \in Rel : Earlier(p) => Earlier(p)'
  BY <1>1, <1>2, <1>3 DEF Earlier
<1>5. AsFound'
  BY <1>1, <1>4, AsFoundStays DEF world, LinkInv
<1>6. \A p \in Rel : Departed(p)' => Departed(p)
  BY <1>1, <1>2 DEF Departed, Had, world
<1>7. Settled'
  BY <1>1, <1>6, SettledStays DEF world, LinkInv
<1>8. FirstIsCopied'
  BY <1>1 DEF FirstIsCopied
<1> QED
  BY <1>2, <1>5, <1>7, <1>8 DEF LinkInv

\* cpmv() goes on with the object, or leaves it without an error: in level 0.
LEMMA LinkGo ==
    ASSUME Active, Mv, LinkInv, Go, orig' = orig, ~errcnt'
    PROVE  LinkInv'
<1>1. /\ cpat = "go"
      /\ cpat' = (IF opt.go = "ln" THEN "ln" ELSE IF Mv /\ Level = 0 THEN "rename" ELSE "copy")
      /\ UNCHANGED <<world, path, stack, linktab, errors>> /\ argn' = argn
  BY StopLeaves DEF Go, Goto, Keep
<1>2. cpat' \in {"rename", "copy"} /\ ~Deleting'
  BY <1>1 DEF Mv, Deleting
<1>3. AsFound' /\ Settled'
  BY <1>1, <1>2, LinksSame DEF LinkInv, Active, Deleting
<1>4. ASSUME Copies' PROVE FirstCopies'
  <2>1. stack # <<>> /\ cpat' = "copy"
    <3>1. Level = 0 <=> stack = <<>>
      <4>1. Len(path) = Len(stack) + 1
        BY <1>1 DEF Active, Levels, AtObject
      <4> QED
        BY <4>1, ActiveWorld DEF Active, Level
    <3>2. cpat' = "rename" => ~Copies'
      BY DEF Copies, AtObject, AtFile
    <3> QED
      BY <1>1, <1>4, <3>1, <3>2 DEF Mv
  <2>2. Copies
    BY <1>1, <2>1 DEF Copies, Before, AtObject
  <2>3. \A p \in Rel : Todo(p) => Todo(p)'
    BY <1>1, <2>1 DEF Todo, AtFile
  <2> QED
    BY <1>1, <2>2, <2>3, CopiesSame DEF LinkInv
<1>5. FirstIsCopied'
  BY <1>2 DEF FirstIsCopied
<1> QED
  BY <1>3, <1>4, <1>5 DEF LinkInv

\* The operand is left before anything of it was copied.
LEMMA LinkLeaves ==
    ASSUME Active, LinkInv, cpat \in {"go", "rename"}, stack = <<>>, Leaves, orig' = orig
    PROVE  LinkInv'
<1>1. cpat' = "next" /\ UNCHANGED world /\ argn' = argn
  BY LeavesRuns DEF Leaves, Keep
<1>2. ~Deleting /\ ~Deleting' /\ ~Copies' /\ FirstIsCopied'
  BY <1>1 DEF Deleting, Copies, AtObject, AtFile, FirstIsCopied
<1>3. AsFound' /\ Settled'
  BY <1>1, <1>2, LinksSame DEF LinkInv, Active
<1> QED
  BY <1>2, <1>3 DEF LinkInv

\* -i: only the operand itself can be there.
LEMMA LinkDecline ==
    ASSUME Active, Mv, MoveInv, LinkInv, Decline, orig' = orig
    PROVE  LinkInv'
<1>1. Leaves /\ cpat \in {"rename", "copy"} /\ dsp # NoIno
  BY DeclineLeaves
<1>2. cpat # "copy"
  BY <1>1, MoveObject DEF Active, Position
<1>3. stack = <<>>
  BY <1>1, <1>2 DEF Active, Levels, AtTop
<1> QED
  BY <1>1, <1>2, <1>3, LinkLeaves

\* rename(): the names move, and the files are the same.
LEMMA LinkRename ==
    ASSUME Active, Mv, LinkInv, Rename, orig' = orig, ~errcnt'
    PROVE  LinkInv'
<1>1. cpat = "rename" /\ Renamed
  BY StopLeaves DEF Rename, Renamed
<1>2. Active' /\ cpat' = "next" /\ stack = <<>> /\ argn' = argn
  BY <1>1, RenamedRuns DEF Renamed, Keep
<1>3. /\ path \in Rel /\ Below(path) /\ argn >= 1
      /\ \A p \in Rel : Below(p) <=> IsPrefix(path, p)
  BY <1>1, <1>2, TopPath
<1>4. /\ \A p \in Rel : src'[p] = IF Below(p) THEN NoIno ELSE src[p]
      /\ \A p \in Rel : tgt'[p] = IF Below(p) THEN src[p] ELSE tgt[p]
      /\ \A p \in Rel : src'[p] # NoIno => inode'[src'[p]] = inode[src'[p]]
      /\ \A p \in Rel : tgt'[p] # NoIno => inode'[tgt'[p]] = inode[tgt'[p]]
  BY <1>1, <1>3, RenamedFacts, ActiveWorld DEF Active
<1>5. ~Deleting /\ ~Deleting' /\ ~Copies' /\ FirstIsCopied' /\ CpStates
  BY <1>1, <1>2 DEF Deleting, Copies, AtObject, AtFile, FirstIsCopied, Active
<1>6. ASSUME NEW p \in Rel, ~Earlier(p)' PROVE ~Below(p)
  BY <1>2, <1>3, <1>5, <1>6, BelowIsEarlier
<1>7. \A p \in Rel : Earlier(p) => Earlier(p)'
  BY <1>1, <1>2, <1>5, EarlierStays
<1>8. AsFound'
  <2>1. ASSUME NEW p \in Rel, ~Earlier(p)', src[p] # NoIno
        PROVE  src'[p] = src[p] /\ inode'[src[p]].data = inode[src[p]].data
    <3>1. src'[p] = src[p]
      BY <1>4, <1>6, <2>1
    <3> QED
      BY <1>4, <2>1, <3>1
  <2> QED
    BY <1>7, <2>1, AsFoundStays DEF LinkInv
<1>9. ASSUME NEW p \in Rel, Departed(p)'
      PROVE  /\ Placed(p)' /\ Had(p)
             /\ ~Below(p) => Departed(p) /\ tgt'[p] = tgt[p]
  <2>1. Had(p) /\ src'[p] = NoIno
    BY <1>5, <1>9 DEF Departed, Had
  <2>2. CASE Below(p)
    <3>1. ~Earlier(p)
      BY <1>1, <1>3, <1>5, <2>2, BelowIsLate
    <3>2. src[p] # NoIno /\ inode[src[p]].data = orig[p]
      BY <2>1, <3>1 DEF LinkInv, AsFound
    <3>3. tgt'[p] = src[p]
      BY <1>4, <2>2
    <3>4. inode'[tgt'[p]] = inode[src[p]]
      BY <1>4, <3>2, <3>3
    <3> QED
      BY <2>1, <2>2, <3>2, <3>3, <3>4 DEF Placed
  <2>3. CASE ~Below(p)
    <3>1. src[p] = NoIno /\ tgt'[p] = tgt[p]
      BY <1>4, <2>1, <2>3
    <3>2. Departed(p) /\ Placed(p)
      BY <2>1, <3>1 DEF Departed, LinkInv, Settled
    <3>3. inode'[tgt'[p]] = inode[tgt[p]]
      BY <1>4, <3>1, <3>2 DEF Placed
    <3> QED
      BY <2>1, <3>1, <3>2, <3>3 DEF Placed
  <2> QED
    BY <2>2, <2>3
<1>10. ASSUME NEW p \in Rel, NEW q \in Rel, Departed(p)', Departed(q)', SameFile(p, q)'
       PROVE  tgt'[p] = tgt'[q]
  <2>1. SameFile(p, q) /\ (Below(q) <=> Below(p)) /\ Had(p)
    BY <1>9, <1>10 DEF SameFile, Below
  <2>2. CASE Below(p)
    <3>1. ~Earlier(p) /\ ~Earlier(q)
      BY <1>1, <1>3, <1>5, <2>1, <2>2, BelowIsLate
    <3>2. src[p] = src[q]
      BY <2>1, <3>1 DEF LinkInv, AsFound, SameFile
    <3> QED
      BY <1>4, <2>1, <2>2, <3>2
  <2>3. CASE ~Below(p)
    <3>1. Departed(p) /\ Departed(q) /\ tgt'[p] = tgt[p] /\ tgt'[q] = tgt[q]
      BY <1>9, <1>10, <2>1, <2>3
    <3> QED
      BY <2>1, <3>1 DEF LinkInv, Settled
  <2> QED
    BY <2>2, <2>3
<1>11. Settled'
  BY <1>9, <1>10 DEF Settled
<1> QED
  BY <1>5, <1>8, <1>11 DEF LinkInv

\* The copy begins, with an empty target and all of the operand still to be copied.
LEMMA LinkRenameAcross ==
    ASSUME Active, Mv, LinkInv, RenameAcross, orig' = orig
    PROVE  LinkInv'
<1>1. cpat = "rename" /\ stack = <<>> /\ CpStates
  BY RenameAcrossCases DEF Active, Levels, AtTop
<1>2. /\ World /\ path \in Rel /\ argn >= 1 /\ src[path] # NoIno
      /\ \A p \in Rel : Below(p) <=> IsPrefix(path, p)
  BY <1>1, ActiveWorld, TopPath DEF Active, Position
<1>3. CASE Leaves
  BY <1>1, <1>3, LinkLeaves
<1>4. CASE TgtStep(path, NoIno) /\ Goto("copy")
  <2>1. /\ cpat' = "copy" /\ ~Deleting /\ ~Deleting' /\ argn' = argn
        /\ UNCHANGED <<path, stack>>
    BY <1>1, <1>4 DEF Deleting, Goto, Keep
  <2>2. \A p \in Rel : Earlier(p) => Earlier(p)'
    BY <1>1, <2>1, EarlierStays
  <2>3. AsFound'
    BY <1>4, <2>2, AsFoundStays DEF LinkInv, TgtStep, SrcKept
  <2>4. ~Departed(path)
    BY <1>2, <2>1 DEF Departed
  <2>5. \A p \in Rel : Departed(p)' => Departed(p)
    BY <1>4, <2>1 DEF Departed, Had, TgtStep, SrcKept
  <2>6. \A p \in Rel : Departed(p) /\ tgt[p] # NoIno =>
            tgt'[p] = tgt[p] /\ inode'[tgt[p]].data = inode[tgt[p]].data
    BY <1>2, <1>4, <2>4 DEF TgtStep, World
  <2>7. Settled'
    BY <2>5, <2>6, SettledStays DEF LinkInv
  <2>8. \A p \in Rel : Below(p)' => Todo(p)'
    BY <1>2, <2>1 DEF Todo, Below
  <2>9. FirstCopies' /\ FirstIsCopied'
    BY <2>1, <2>8 DEF FirstCopies, FirstIsCopied
  <2> QED
    BY <2>3, <2>7, <2>9 DEF LinkInv
<1>5. dsp = NoIno /\ UNCHANGED world => TgtStep(path, NoIno)
  BY <1>1, <1>2, SameFacts DEF Active, Position
<1>6. UnlinkTgt(path) => TgtStep(path, NoIno)
  BY <1>2, UnlinkTgtFacts
<1> QED
  BY <1>3, <1>4, <1>5, <1>6, RenameAcrossCases

\* A directory is made: it has no data, and what is below it is still to come.
LEMMA LinkCopyDir ==
    ASSUME Active, Mv, MoveInv, LinkInv, CopyDir, orig' = orig, ~errcnt'
    PROVE  LinkInv'
<1>1. cpat = "copy" /\ Kind(src[path]) = "dir" /\ UNCHANGED <<argn, path, linktab>>
  BY DEF CopyDir
<1>2. /\ World /\ path \in Rel /\ src[path] # NoIno /\ Copies /\ tgt[path] = NoIno /\ FreshTree
  BY <1>1, MoveObject DEF AtFile
<1>3. dsp = NoIno
  BY <1>1, <1>2 DEF Active, Position
<1>4. PICK i \in Ino : TgtStep(path, i)
  BY <1>3, CopyDirMakes
<1>5. PICK f : f = [dir |-> path, had |-> Kids(src, path), seen |-> {}, made |-> dsp = NoIno]
  OBVIOUS
<1>6. f \in Frame /\ f.had = Kids(src, path) /\ f.seen = {}
  BY <1>2, <1>5, OpenedFrame
<1>7. stack' = Append(stack, f) /\ cpat' = "read"
  BY <1>5 DEF CopyDir, Fail
<1>8. AsFound' /\ Settled'
  BY <1>1, <1>4, <1>7, LinksOnCopy DEF LinkInv, Deleting
<1>9. ~Had(path)
  <2>1. inode[src[path]].data = NoData
    BY <1>1, <1>2 DEF Active, Files, Hollow, Kind
  <2> QED
    BY <1>1, <2>1, ObjectAsFound DEF LinkInv, Had
<1>10. ASSUME NEW p \in Rel, p # path, Had(p), Below(p), Todo(p) PROVE Todo(p)'
  <2>1. argn >= 1 /\ ~Deleting /\ cpat # "next"
    BY <1>1, MoveObject
  <2>2. src[p] # NoIno
    BY <1>10, <2>1, BelowIsLate DEF LinkInv, AsFound
  <2> QED
    BY <1>1, <1>2, <1>6, <1>7, <1>10, <2>2, TodoOnOpen
<1>11. FirstCopies'
  BY <1>1, <1>2, <1>4, <1>9, <1>10, CopiesOnCopy DEF LinkInv
<1> QED
  BY <1>7, <1>8, <1>11 DEF LinkInv, FirstIsCopied

\* A directory is read.
LEMMA LinkReadDir ==
    ASSUME Active, Mv, MoveInv, LinkInv, ReadDir, orig' = orig
    PROVE  LinkInv'
<1>1. /\ cpat = "read" /\ UNCHANGED <<world, linktab>> /\ argn' = argn
      /\ (\E q : Entry(q)) \/ NoEntry
  BY ReadDirCases DEF ReadDir, Keep
<1>2. Copies /\ FreshTree /\ ~Deleting
  BY <1>1 DEF Copies, Before, MoveInv, Deleting
<1>3. cpat' \in {"go", "last", "read"} /\ ~Deleting'
  BY <1>1 DEF Entry, NoEntry, Finish, Deleting
<1>4. AsFound' /\ Settled'
  BY <1>1, <1>2, <1>3, LinksSame DEF LinkInv, Active
<1>5. \A p \in Rel : Todo(p) => Todo(p)'
  BY <1>1, <1>2, TodoOnEntry, TodoOnNoEntry
<1>6. FirstCopies'
  BY <1>1, <1>2, <1>5, CopiesSame DEF LinkInv
<1> QED
  BY <1>3, <1>4, <1>6 DEF LinkInv, FirstIsCopied

\* One step of copying a file; the last one places it.
LEMMA LinkOfFile ==
    ASSUME Active, Mv, MoveInv, LinkInv, cpat \in {"copy"} \cup AtFile,
           cpat = "copy" => Kind(src[path]) # "dir", SameObject,
           NEW j, TgtStep(path, j), tgt[path] = NoIno \/ (cpat = "data" /\ j = tgt[path]),
           cpat' \in AtFile \cup {"last", "read"},
           \A i \in Ino : linktab[i] # NoPath => linktab'[i] = linktab[i],
           Had(path) /\ cpat' \notin AtFile =>
               /\ j # NoIno /\ inode'[j].data = orig[path]
               /\ \A q \in Rel : SameFile(path, q) =>
                    linktab'[src[path]] # NoPath /\ j = tgt'[linktab'[src[path]]]
    PROVE  AsFound' /\ Settled' /\ FirstCopies'
<1>1. ~Deleting' /\ UNCHANGED <<argn, orig, path, stack>>
  BY DEF Deleting, AtFile, SameObject
<1>2. AsFound' /\ Settled'
  BY <1>1, LinksOnCopy DEF LinkInv
<1>3. path \in Rel /\ argn >= 1 /\ ~Deleting /\ cpat # "next" /\ Copies
  BY MoveObject DEF AtFile
<1>4. ASSUME NEW p \in Rel, p # path, Had(p), Below(p), Todo(p) PROVE Todo(p)'
  <2>1. src[p] # NoIno
    BY <1>3, <1>4, BelowIsLate DEF LinkInv, AsFound
  <2> QED
    BY <1>1, <1>3, <1>4, <2>1, TodoOnFile
<1>5. cpat' \in AtFile => Todo(path)'
  BY <1>1 DEF Todo
<1>6. FirstCopies'
  BY <1>1, <1>3, <1>4, <1>5, CopiesOnCopy DEF LinkInv
<1> QED
  BY <1>2, <1>6

\* A file that has one name when it is reached has no other that was found.
LEMMA OneName ==
    ASSUME Active, Mv, MoveInv, AsFound, cpat = "copy", ~(Links(src[path]) > 1), Had(path),
           NEW q \in Rel
    PROVE  ~SameFile(path, q)
<1>1. SUFFICES ASSUME SameFile(path, q) PROVE FALSE
  OBVIOUS
<1>2. path \in Rel /\ src[q] = src[path] /\ q # path
  BY <1>1, ObjectAsFound, MoveObject DEF SameFile
<1>3. PICK i : i = src[path]
  OBVIOUS
<1>4. PICK S : S = {p \in Rel : src[p] = i}
  OBVIOUS
<1>5. PICK T : T = {p \in Rel : tgt[p] = i}
  OBVIOUS
<1>6. IsFiniteSet(S) /\ IsFiniteSet(T)
  BY <1>4, <1>5, CpAssumption, FS_Subset
<1>7. Cardinality(S) \in Nat /\ Cardinality(T) \in Nat
  BY <1>6, FS_CardinalityType
<1>8. path \in S /\ q \in S
  BY <1>2, <1>3, <1>4
<1>9. Cardinality(S) # 0 /\ Cardinality(S) # 1
  <2>1. Cardinality(S) # 0
    BY <1>6, <1>8, FS_EmptySet
  <2>2. Cardinality(S) = 1 => \E x : S = {x}
    BY <1>6, FS_Singleton
  <2> QED
    BY <1>2, <1>8, <2>1, <2>2
<1>10. Links(i) = Cardinality(S) + Cardinality(T)
  BY <1>4, <1>5 DEF Links
<1> QED
  BY <1>3, <1>7, <1>9, <1>10

\* A file goes to the table if it has more than one name, else it is copied.
LEMMA LinkCopyFile ==
    ASSUME Active, Mv, MoveInv, LinkInv, CopyFile, orig' = orig
    PROVE  LinkInv'
<1>1. /\ cpat = "copy" /\ Kind(src[path]) # "dir" /\ UNCHANGED <<world, linktab>>
      /\ cpat' = IF opt.d /\ Links(src[path]) > 1 THEN "canlink" ELSE Copying
  BY DEF CopyFile, Goto
<1>2. cpat' \in AtFile /\ SameObject
  BY CopyFileRuns DEF AtFile
<1>3. /\ World /\ tgt[path] = NoIno /\ path \in Rel /\ Copies
  BY <1>1, MoveObject
<1>4. TgtStep(path, NoIno)
  BY <1>1, <1>3, SameFacts
<1>5. AsFound' /\ Settled' /\ FirstCopies'
  BY <1>1, <1>2, <1>3, <1>4, LinkOfFile
<1>6. opt.d
  BY CpAssumption DEF Active, CpStates, Mv
<1>7. FirstIsCopied'
  <2>1. SUFFICES ASSUME cpat' # "canlink", Had(path)
                 PROVE  \A q \in Rel : ~SameFile(path, q)
    BY <1>2 DEF FirstIsCopied, SameObject, SameFile, Had
  <2>2. ~(Links(src[path]) > 1)
    BY <1>1, <1>6, <2>1
  <2> QED
    BY <1>1, <2>1, <2>2, OneName DEF LinkInv
<1> QED
  BY <1>5, <1>7 DEF LinkInv

\* The first name goes to the table and is copied, and another is linked to its copy.
LEMMA LinkCanLink ==
    ASSUME Active, Mv, MoveInv, LinkInv, CanLink, orig' = orig, ~errcnt, ~apart'
    PROVE  LinkInv'
<1>1. /\ cpat = "canlink" /\ SameObject
      /\ FirstName \/ OtherName \/ NotLinked
  BY CanLinkCases
<1>2. /\ World /\ CpStates /\ tgt[path] = NoIno /\ path \in Rel /\ src[path] \in Ino
      /\ Copies
  BY <1>1, MoveObject DEF AtFile
<1>3. Copying \in {"creat", "special"}
  BY DEF Copying
<1>4. CASE FirstName
  <2>1. TgtStep(path, NoIno) /\ cpat' \in {"creat", "special"}
    BY <1>2, <1>3, <1>4, SameFacts DEF FirstName
  <2>2. /\ \A i \in Ino : linktab[i] # NoPath => linktab'[i] = linktab[i]
        /\ linktab'[src[path]] = path /\ src' = src
    BY <1>2, <1>4 DEF FirstName, CpStates, world
  <2>3. AsFound' /\ Settled' /\ FirstCopies'
    BY <1>1, <1>2, <2>1, <2>2, LinkOfFile DEF AtFile
  <2>4. FirstIsCopied'
    BY <1>1, <2>2 DEF FirstIsCopied, SameObject
  <2> QED
    BY <2>3, <2>4 DEF LinkInv
<1>5. CASE OtherName
  <2>1. PICK j \in Ino : /\ j = tgt[linktab[src[path]]] /\ linktab[src[path]] \in Rel
                         /\ TgtStep(path, j) /\ inode'[j] = inode[j]
    BY <1>1, <1>5, OtherNameFacts
  <2>2. /\ j # NoIno /\ linktab' = linktab /\ linktab[src[path]] # NoPath
        /\ cpat' \in {"last", "read"}
    BY <1>5, <2>1 DEF OtherName, Finish
  <2>3. inode[j].data = inode[src[path]].data
    BY <1>1, <1>2, <2>1, <2>2 DEF MoveInv, CopiesAgree
  <2>4. Had(path) => inode'[j].data = orig[path]
    BY <1>1, <2>1, <2>3, ObjectAsFound DEF LinkInv, AtFile
  <2>5. j = tgt'[linktab[src[path]]]
    BY <1>2, <2>1 DEF TgtStep, World
  <2>6. AsFound' /\ Settled' /\ FirstCopies'
    BY <1>1, <1>2, <2>1, <2>2, <2>4, <2>5, LinkOfFile DEF AtFile
  <2> QED
    BY <2>2, <2>6 DEF LinkInv, FirstIsCopied
<1> QED
  BY <1>1, <1>4, <1>5 DEF NotLinked

\* A file is created, and its data are still to come.
LEMMA LinkCreat ==
    ASSUME Active, Mv, MoveInv, LinkInv, Creat, orig' = orig, ~errcnt'
    PROVE  LinkInv'
<1>1. /\ cpat = "creat" /\ SameObject /\ linktab' = linktab
      /\ NewFile \/ Emptied \/ FileFails
  BY CreatCases
<1>2. tgt[path] = NoIno /\ path \in Rel /\ Copies
  BY <1>1, MoveObject DEF AtFile
<1>3. NewFile
  BY <1>1, <1>2 DEF Emptied, FileFails, Fail
<1>4. PICK i \in Ino : TgtStep(path, i)
  BY <1>1, <1>3, NewFileFacts
<1>5. cpat' = "data" /\ src' = src
  BY <1>3, <1>4 DEF NewFile, TgtStep, SrcKept
<1>6. AsFound' /\ Settled' /\ FirstCopies'
  BY <1>1, <1>2, <1>4, <1>5, LinkOfFile DEF AtFile
<1>7. FirstIsCopied'
  BY <1>1, <1>5 DEF LinkInv, FirstIsCopied, SameObject, SameFile, Had
<1> QED
  BY <1>6, <1>7 DEF LinkInv

\* The copy of a file, when it is whole, is the first one, or the only one.
LEMMA LinkPlaced ==
    ASSUME Active, Mv, MoveInv, LinkInv, cpat \in {"special", "data"}, SameObject,
           linktab' = linktab, NEW j, TgtStep(path, j), Finish(path),
           tgt[path] = NoIno \/ (cpat = "data" /\ j = tgt[path]),
           Had(path) => j # NoIno /\ inode'[j].data = inode[src[path]].data
    PROVE  LinkInv'
<1>1. World /\ path \in Rel /\ path # NoPath
  BY MoveObject, PathFacts DEF AtFile
<1>2. cpat' \in {"last", "read"}
  BY DEF Finish
<1>3. tgt'[path] = j
  BY <1>1 DEF TgtStep, World
<1>4. ASSUME Had(path), NEW q \in Rel, SameFile(path, q)
      PROVE  linktab[src[path]] # NoPath /\ j = tgt'[linktab[src[path]]]
  BY <1>1, <1>3, <1>4 DEF LinkInv, FirstIsCopied
<1>5. Had(path) => inode'[j].data = orig[path]
  BY ObjectAsFound DEF LinkInv, AtFile
<1>6. AsFound' /\ Settled' /\ FirstCopies'
  BY <1>2, <1>4, <1>5, LinkOfFile DEF AtFile
<1> QED
  BY <1>2, <1>6 DEF LinkInv, FirstIsCopied

\* A special file is made as a whole, or fails.
LEMMA LinkSpecial ==
    ASSUME Active, Mv, MoveInv, LinkInv, Special, orig' = orig, ~errcnt'
    PROVE  LinkInv'
<1>1. /\ cpat = "special" /\ SameObject /\ linktab' = linktab /\ Finish(path)
      /\ Passed \/ NewSpecial \/ SpecialFails
  BY SpecialCases DEF Active
<1>2. World /\ tgt[path] = NoIno /\ path \in Rel /\ src[path] # NoIno
  BY <1>1, MoveObject DEF AtFile
<1>3. CASE Passed
  <2>1. TgtStep(path, NoIno)
    BY <1>2, <1>3, SameFacts DEF Passed
  <2>2. inode[src[path]].data = NoData
    BY <1>2, <1>3 DEF Passed, Kind, Active, Files, Hollow
  <2>3. ~Had(path)
    BY <1>1, <2>2, ObjectAsFound DEF LinkInv, Had, AtFile
  <2> QED
    BY <1>1, <1>2, <2>1, <2>3, LinkPlaced
<1>4. CASE NewSpecial
  <2>1. PICK i \in Ino : i # NoIno /\ TgtStep(path, i) /\ inode'[i].data = inode[src[path]].data
    BY <1>1, <1>4, NewSpecialFacts
  <2> QED
    BY <1>1, <1>2, <2>1, LinkPlaced
<1> QED
  BY <1>1, <1>3, <1>4 DEF SpecialFails

\* The data are written, and the file is copied, or the copy fails.
LEMMA LinkCopyData ==
    ASSUME Active, Mv, MoveInv, LinkInv, CopyData, orig' = orig, ~errcnt'
    PROVE  LinkInv'
<1>1. /\ cpat = "data" /\ SameObject /\ UNCHANGED <<src, tgt, linktab>> /\ Finish(path)
      /\ Written \/ NotWritten
  BY CopyDataCases DEF Active
<1>2. /\ World /\ path \in Rel /\ src[path] \in Ino /\ Copies /\ FreshTree
  BY <1>1, MoveObject DEF AtFile
<1>3. /\ HasNot(src, tgt[path]) /\ tgt[path] # NoIno
      /\ \A q \in Rel : tgt[q] = tgt[path] => q = path
  BY <1>1, <1>2 DEF FreshTree, Active, Position
<1>4. PICK d : d = inode[src[path]].data
  OBVIOUS
<1>5. d \in Nat /\ inode' = [inode EXCEPT ![tgt[path]].data = d]
  BY <1>1, <1>2, <1>4 DEF World, InodeRecord, Written, NotWritten
<1>6. /\ inode'[tgt[path]].data = d /\ inode' \in [Ino -> InodeRecord]
      /\ \A i \in Ino : i # tgt[path] => inode'[i] = inode[i]
      /\ SrcKept
  BY <1>1, <1>2, <1>3, <1>5, WriteFacts
<1>7. TgtStep(path, tgt[path])
  <2>1. tgt' = [tgt EXCEPT ![path] = tgt[path]]
    BY <1>1, <1>2 DEF World
  <2>2. \A q \in Rel : q # path /\ tgt[q] # NoIno => inode'[tgt[q]] = inode[tgt[q]]
    BY <1>2, <1>3, <1>6 DEF World
  <2> QED
    BY <1>6, <2>1, <2>2 DEF TgtStep
<1> QED
  BY <1>1, <1>3, <1>4, <1>6, <1>7, LinkPlaced

\* The operand is copied, and mv begins to remove it.
LEMMA LinkEndOfArg ==
    ASSUME Active, Mv, LinkInv, EndOfArg, orig' = orig, ~errcnt'
    PROVE  LinkInv'
<1>1. /\ cpat = "last" /\ stack = <<>> /\ UNCHANGED <<src, tgt, inode, argn>>
      /\ cpat' = "delete"
  BY EndOfArgRuns DEF EndOfArg, Active, Levels, AtTop, world, errors
<1>2. Copies /\ ~Deleting /\ Deleting' /\ ~Copies' /\ FirstIsCopied' /\ CpStates /\ argn >= 1
  BY <1>1 DEF Copies, Before, Deleting, AtObject, AtFile, FirstIsCopied, Active, Position
<1>3. ASSUME NEW p PROVE ~Todo(p)
  <2>1. 1..Len(stack) = {}
    BY <1>1, EmptySeq
  <2> QED
    BY <1>1, <2>1 DEF Todo, AtFile
<1>4. \A p \in Rel : Earlier(p) => Earlier(p)'
  BY <1>1, <1>2, EarlierStays
<1>5. AsFound'
  BY <1>1, <1>4, AsFoundStays DEF LinkInv
<1>6. \A p \in Rel : Departed(p)' => Departed(p) \/ (Had(p) /\ Below(p))
  BY <1>1 DEF Departed, Had, Below
<1>7. ASSUME NEW p \in Rel, Departed(p)' PROVE Placed(p)
  BY <1>2, <1>3, <1>6, <1>7 DEF LinkInv, Settled, FirstCopies
<1>8. ASSUME NEW p \in Rel, NEW q \in Rel, Departed(p)', Departed(q)', SameFile(p, q)'
      PROVE  tgt[p] = tgt[q]
  <2>1. SameFile(p, q) /\ SameFile(q, p) /\ (Below(p) <=> Below(q))
    BY <1>8 DEF SameFile, Below
  <2>2. CASE Below(p)
    <3>1. Had(p) /\ Had(q) /\ ~Earlier(p) /\ ~Earlier(q)
      BY <1>1, <1>2, <1>8, <2>1, <2>2, BelowIsLate DEF Departed, Had
    <3>2. src[p] = src[q]
      BY <2>1, <3>1 DEF LinkInv, AsFound, SameFile
    <3>3. tgt[p] = tgt[linktab[src[p]]] /\ tgt[q] = tgt[linktab[src[q]]]
      BY <1>2, <1>3, <2>1, <2>2, <3>1 DEF LinkInv, FirstCopies
    <3> QED
      BY <3>2, <3>3
  <2>3. CASE ~Below(p)
    BY <1>6, <1>8, <2>1, <2>3 DEF LinkInv, Settled
  <2> QED
    BY <2>2, <2>3
<1>9. Settled'
  BY <1>1, <1>7, <1>8 DEF Settled, Placed
<1> QED
  BY <1>2, <1>5, <1>9 DEF LinkInv

\* What is removed has been copied.
LEMMA LinkRemoves ==
    ASSUME Active, LinkInv, Deleting, Removes, orig' = orig
    PROVE  LinkInv'
<1>1. /\ ~Copies' /\ FirstIsCopied' /\ CpStates /\ argn >= 1
      /\ cpat' = "next" \/ Deleting'
  BY DEF Removes, Copies, Deleting, AtObject, AtFile, FirstIsCopied, Active, Position
<1>2. \A p \in Rel : Earlier(p) => Earlier(p)'
  BY <1>1, EarlierStays DEF Removes
<1>3. \A p \in Rel : Below(p) => Earlier(p)'
  BY <1>1, BelowIsEarlier DEF Removes
<1>4. AsFound'
  BY <1>2, <1>3, AsFoundStays DEF LinkInv, Removes
<1>5. \A p \in Rel : Departed(p)' => Departed(p)
  BY DEF Departed, Had, Below, Removes
<1>6. Settled'
  BY <1>5, SettledStays DEF LinkInv, Removes
<1> QED
  BY <1>1, <1>4, <1>6 DEF LinkInv

\* Somebody else only adds to the source.
LEMMA LinkSomebody ==
    ASSUME Active, Mv, MoveInv, LinkInv, Somebody, orig' = orig
    PROVE  LinkInv'
<1>1. /\ UNCHANGED <<cpat, argn, path, stack, linktab>> /\ World /\ CpStates
  BY SomebodyRuns, ActiveWorld DEF Active
<1>2. PICK r \in Rel, i \in Ino : SrcGrows(r, i)
  BY SomebodyFacts DEF Active
<1>3. /\ tgt' = tgt
      /\ \A q \in Rel : src[q] # NoIno => inode'[src[q]] = inode[src[q]] /\ src'[q] = src[q]
      /\ \A q \in Rel : tgt[q] # NoIno => inode'[tgt[q]] = inode[tgt[q]]
  BY <1>1, <1>2 DEF SrcGrows, World
<1>4. (Copies' <=> Copies) /\ (Deleting' <=> Deleting)
      /\ (\A q : Below(q)' <=> Below(q)) /\ (\A q : Todo(q)' <=> Todo(q))
      /\ (\A q : Earlier(q)' <=> Earlier(q)) /\ (\A q : Had(q)' <=> Had(q))
      /\ (\A p, q : SameFile(p, q)' <=> SameFile(p, q))
  BY <1>1 DEF Before, Copies, Deleting, Below, Todo, Earlier, Had, SameFile
<1>5. AsFound'
  BY <1>3, <1>4, AsFoundStays DEF LinkInv
<1>6. \A p \in Rel : Departed(p)' => Departed(p)
  BY <1>3, <1>4 DEF Departed
<1>7. Settled'
  BY <1>3, <1>6, SettledStays DEF LinkInv
<1>8. ASSUME Copies PROVE FirstCopies'
  <2>1. ~Deleting /\ cpat # "next" /\ argn >= 1
    BY <1>8 DEF Copies, Deleting, AtObject, AtFile, Active, Position
  <2>2. ASSUME NEW p \in Rel, Had(p), Below(p), ~Todo(p)
        PROVE  /\ Placed(p)' /\ src'[p] = src[p]
               /\ \A q \in Rel : SameFile(p, q) =>
                    linktab[src[p]] # NoPath /\ tgt[p] = tgt[linktab[src[p]]]
    <3>1. src[p] # NoIno
      BY <2>1, <2>2, BelowIsLate DEF LinkInv, AsFound
    <3>2. Placed(p)
      BY <1>8, <2>2 DEF LinkInv, FirstCopies
    <3>3. Placed(p)'
      BY <1>3, <3>2 DEF Placed
    <3> QED
      BY <1>3, <1>8, <2>2, <3>1, <3>3 DEF LinkInv, FirstCopies
  <2> QED
    BY <1>1, <1>3, <1>4, <2>2 DEF FirstCopies
<1>9. FirstIsCopied'
  <2>1. SUFFICES ASSUME cpat \in {"creat", "special", "data"}, Had(path)
                 PROVE  src'[path] = src[path]
    BY <1>1, <1>4 DEF LinkInv, FirstIsCopied, SameFile, Had
  <2>2. path \in Rel /\ src[path] # NoIno
    BY <2>1, MoveObject DEF AtFile
  <2> QED
    BY <1>3, <2>2
<1> QED
  BY <1>4, <1>5, <1>7, <1>8, <1>9 DEF LinkInv

\* Every step of mv, when nothing has failed.
LEMMA LinkPreserved ==
    ASSUME Active, Mv, MoveInv, LinkInv, CpStep \/ Somebody, orig' = orig, ~errcnt, ~apart',
           cpat # "next" => ~errcnt'
    PROVE  LinkInv'
<1>1. CASE NextArg \/ Somebody
  BY <1>1, LinkNextArg, LinkSomebody
<1>2. CASE LnRefused \/ LnUnlink \/ Ln
  <2>1. cpat = "ln"
    BY <1>2 DEF LnRefused, LnUnlink, Ln
  <2> QED
    BY <2>1 DEF Active, Position, Mv
<1>3. CASE CpStep /\ ~NextArg /\ ~(LnRefused \/ LnUnlink \/ Ln)
  <2>1. ~errcnt'
    BY <1>3 DEF CpStep, Go, Decline, Asked, Rename, RenameAcross, CopyDirRefused, CopyDir, ReadDir,
         CopyFile, CanLink, Creat, CopyData, Special, EndOfArg, TryDelete, DeleteNext
  <2>2. CASE Go \/ Decline \/ Rename \/ RenameAcross
    BY <2>1, <2>2, LinkGo, LinkDecline, LinkRename, LinkRenameAcross
  <2>3. CASE CopyDirRefused \/ CopyDir \/ ReadDir
    BY <2>1, <2>3, CopyDirRefusedLeaves, LinkCopyDir, LinkReadDir
  <2>4. CASE CopyFile \/ CanLink \/ Creat \/ CopyData \/ Special
    BY <2>1, <2>4, LinkCopyFile, LinkCanLink, LinkCreat, LinkCopyData, LinkSpecial
  <2>5. CASE EndOfArg
    BY <2>1, <2>5, LinkEndOfArg
  <2>6. CASE TryDelete \/ DeleteNext
    BY <2>6, TryDeleteRemoves, DeleteNextRemoves, LinkRemoves
  <2> QED
    BY <1>3, <2>2, <2>3, <2>4, <2>5, <2>6 DEF CpStep
<1> QED
  BY <1>1, <1>2, <1>3

\* At first nothing is copied or removed.
LEMMA LinkInitially ==
    ASSUME CpInit
    PROVE  LinkInv
<1>1. PICK s \in Start : src = s.src /\ tgt = s.tgt /\ inode = s.inode
  BY DEF CpInit, CpBegin
<1>2. /\ cpat = "next" /\ argn = 0
      /\ orig = [p \in Rel |-> IF src[p] = NoIno THEN NoData ELSE inode[src[p]].data]
  BY DEF CpInit, CpBegin
<1>3. TellsFiles(src, inode)
  BY <1>1, CpAssumption DEF GoodStart
<1>4. ASSUME NEW p \in Rel, Had(p) PROVE src[p] # NoIno /\ inode[src[p]].data = orig[p]
  BY <1>2, <1>4 DEF Had
<1>5. ASSUME NEW p \in Rel, NEW q \in Rel, Had(p), orig[p] = orig[q] PROVE src[p] = src[q]
  BY <1>3, <1>4, <1>5 DEF TellsFiles, Had
<1>6. AsFound
  BY <1>4, <1>5 DEF AsFound
<1>7. \A p \in Rel : ~Departed(p)
  BY <1>2, <1>4 DEF Departed, Deleting
<1> QED
  BY <1>2, <1>6, <1>7 DEF LinkInv, Settled, Copies, AtObject, AtFile, FirstIsCopied

\* The invariant is about the variables alone.
LEMMA LinkStutters ==
    ASSUME LinkSafe, UNCHANGED cpVars
    PROVE  LinkSafe'
<1>1. /\ UNCHANGED <<src, tgt, inode, opt, cpat, argn, path, stack, linktab>>
      /\ UNCHANGED <<errcnt, saverrs, orig, apart>>
  BY DEF cpVars, world, fixed, errors, cpHistory
<1>2. /\ (Copies' <=> Copies) /\ (Deleting' <=> Deleting) /\ (Mv' <=> Mv)
      /\ (\A q : Below(q)' <=> Below(q)) /\ (\A q : Todo(q)' <=> Todo(q))
      /\ (\A q : Earlier(q)' <=> Earlier(q)) /\ (\A q : Had(q)' <=> Had(q))
      /\ (\A p, q : SameFile(p, q)' <=> SameFile(p, q))
  BY <1>1 DEF Before, Copies, Deleting, Mv, Below, Todo, Earlier, Had, SameFile
<1>3. AsFound => AsFound'
  BY <1>1, <1>2 DEF AsFound
<1>4. Settled => Settled'
  BY <1>1, <1>2 DEF Settled, Departed, Placed
<1>5. FirstCopies => FirstCopies'
  BY <1>1, <1>2 DEF FirstCopies, Placed
<1>6. FirstIsCopied => FirstIsCopied'
  BY <1>1 DEF FirstIsCopied, SameFile, Had
<1>7. NoFailure' <=> NoFailure
  BY <1>1 DEF NoFailure
<1> QED
  BY <1>1, <1>2, <1>3, <1>4, <1>5, <1>6, <1>7 DEF LinkSafe, LinkInv

\* Every step of mv keeps it; a kill ends what it promises.
LEMMA LinkStepKeeps ==
    ASSUME CpInv, LinkSafe, [CpNext]_cpVars
    PROVE  LinkSafe'
<1>1. CASE UNCHANGED cpVars
  BY <1>1, LinkStutters
<1>2. CASE Halted /\ CpNext
  BY <1>2 DEF Halted, CpNext, CpStep, Kill, Somebody, NextArg, Go, Decline, Asked, Rename,
       RenameAcross, CopyDirRefused, CopyDir, ReadDir, CopyFile, CanLink, Creat, CopyData,
       Special, EndOfArg, TryDelete, DeleteNext, LnRefused, LnUnlink, Ln
<1>3. CASE Kill
  BY <1>3 DEF Kill, LinkSafe
<1>4. CASE ~Halted /\ (CpStep \/ Somebody)
  <2>1. SUFFICES ASSUME Mv', NoFailure' PROVE LinkInv'
    BY DEF LinkSafe
  <2>2. Mv
    BY <1>4, <2>1, OptKept DEF Mv
  <2>3. Active /\ MoveInv /\ cpat \notin {"end", "killed"}
    BY <1>4, <2>2 DEF CpInv, Active, Halted
  <2>4. orig' = orig /\ ~saverrs /\ ~errcnt /\ ~apart /\ (cpat # "next" => ~errcnt')
    BY <1>4, <2>1, <2>3, FailuresStay
  <2>5. LinkInv
    BY <2>2, <2>3, <2>4 DEF LinkSafe, NoFailure
  <2>6. ~apart'
    BY <2>1 DEF NoFailure
  <2> QED
    BY <1>4, <2>2, <2>3, <2>4, <2>5, <2>6, LinkPreserved
<1> QED
  BY <1>1, <1>2, <1>3, <1>4 DEF CpNext

\* mv "will preserve linkage inside the moved tree": cpmv() and canlink() have made
\* one file of what was one file, and two of what were two, with the data of each.
THEOREM LinksAreKept == CpSpec => []LinkageKept
<1>1. CpInit => LinkSafe
  BY LinkInitially DEF LinkSafe
<1>2. CpInv /\ LinkSafe /\ [CpNext]_cpVars => LinkSafe'
  BY LinkStepKeeps
<1>3. LinkSafe => LinkageKept
  <2>1. SUFFICES ASSUME LinkSafe, Mv, cpat = "end", ~saverrs, ~apart,
                        NEW p \in Rel, NEW q \in Rel,
                        orig[p] # NoData, orig[q] # NoData, p[1] = q[1],
                        src[p] = NoIno, src[q] = NoIno
                 PROVE  /\ inode[tgt[p]].data = orig[p]
                        /\ (tgt[p] = tgt[q]) <=> (orig[p] = orig[q])
    BY DEF LinkageKept
  <2>2. Settled
    BY <2>1 DEF LinkSafe, NoFailure, LinkInv
  <2>3. Departed(p) /\ Departed(q)
    BY <2>1 DEF Departed, Had
  <2>4. inode[tgt[p]].data = orig[p] /\ inode[tgt[q]].data = orig[q]
    BY <2>2, <2>3 DEF Settled, Placed
  <2>5. orig[p] = orig[q] => tgt[p] = tgt[q]
    BY <2>1, <2>2, <2>3 DEF Settled, SameFile
  <2> QED
    BY <2>4, <2>5
<1> QED
  BY <1>1, <1>2, <1>3, CpInvariant, PTL DEF CpSpec

-----------------------------------------------------------------------------
(* rm: the invariant *)

\* The directories that rm may enter.
Good == DirNode \ {TopDir, OutDir}

CallRecord ==
    [base : BaseName, at : {"lstat", "open", "read", "remove"},
     kind : {"none", "dir", "file"}, new : BOOLEAN, dir : DirNode \cup {NoNode},
     had : SUBSET BaseName, seen : SUBSET BaseName, proc : Nat]

\* The states of rm itself.
RmStates ==
    /\ loc \in [Node -> (DirNode \X BaseName) \cup {Gone, Place[TopDir]}]
    /\ calls \in Seq(CallRecord)
    /\ cwd \in Seq(DirNode) /\ leak \in Seq(Nat)
    /\ Len(leak) = Len(cwd) /\ Len(cwd) \in 1..MaxProc
    /\ rmarg \in 0..Len(RmArgs)
    /\ rmfd \in Fds /\ rminter \in BOOLEAN /\ rmerr \in BOOLEAN

\* The first operand's call is the first of the first process; a call is below one
\* that reads a directory, or the first of a new process, and the processes wait
\* for each other in the order of their birth.
CallNests(k) ==
    /\ calls[k].dir # NoNode <=> calls[k].at = "read"
    /\ k = 1 => ~calls[k].new /\ calls[k].proc = 1 /\ calls[k].base \in Range(RmArgs)
    /\ k > 1 /\ calls[k].new => calls[k].proc = calls[k - 1].proc + 1
    /\ k > 1 /\ ~calls[k].new =>
        calls[k].proc = calls[k - 1].proc /\ calls[k - 1].dir # NoNode
    /\ calls[k].proc \in 1..Len(cwd)
    /\ \A j \in 1..k - 1 :
        calls[j].proc <= calls[k].proc /\ (calls[k].new => calls[j].proc < calls[k].proc)

CallsNest ==
    /\ IF calls = <<>> THEN Len(cwd) = 1 ELSE calls[Len(calls)].proc = Len(cwd)
    /\ \A k \in DOMAIN calls : CallNests(k)

\* The deepest call of its process.
Deepest(k) == k = Len(calls) \/ calls[k + 1].new

\* No process is ever in OutDir; each is in the directory that its deepest call
\* has open, or in the one of the call above it, and only with an operand it is
\* where rm was started.
CallInside(k) ==
    /\ calls[k].dir # NoNode => cwd[calls[k].proc] = calls[k].dir
    /\ calls[k].dir = NoNode /\ k = 1 => cwd[calls[k].proc] = TopDir
    /\ calls[k].dir = NoNode /\ k > 1 /\ ~calls[k].new =>
        cwd[calls[k].proc] = calls[k - 1].dir
    /\ cwd[calls[k].proc] = TopDir => calls[k].base \in Range(RmArgs)

DirsInside ==
    /\ \A k \in DOMAIN calls : calls[k].dir \in Good \cup {NoNode}
    /\ \A p \in DOMAIN cwd : cwd[p] \in Good \cup {TopDir}
    /\ calls = <<>> => cwd[1] = TopDir
    /\ \A k \in DOMAIN calls : Deepest(k) => CallInside(k)

\* A process that has opened a directory had a descriptor left for it.
FdsSpare ==
    /\ \A p \in DOMAIN leak : leak[p] <= rmfd
    /\ \A k \in DOMAIN calls : calls[k].dir # NoNode => leak[calls[k].proc] < rmfd

Unmoved == \A n \in Outside \cup {TopDir} : loc[n] = Place[n]

RmInv == RmStates /\ CallsNest /\ DirsInside /\ FdsSpare /\ Unmoved

-----------------------------------------------------------------------------
(* The calls of rm() *)

\* While rm() runs there is a last call, of the last process.
LEMMA LastCall ==
    ASSUME RmStates, CallsNest, calls # <<>>
    PROVE  /\ Len(calls) \in Nat \ {0} /\ DOMAIN calls = 1..Len(calls)
           /\ Call = calls[Len(calls)] /\ Call \in CallRecord
           /\ DOMAIN cwd = 1..Len(cwd) /\ DOMAIN leak = 1..Len(cwd)
           /\ Here = cwd[Len(cwd)] /\ Last(leak) = leak[Len(cwd)]
           /\ Call.proc = Len(cwd) /\ Deepest(Len(calls))
<1>1. calls \in Seq(CallRecord) /\ cwd \in Seq(DirNode) /\ leak \in Seq(Nat)
      /\ Len(cwd) = Len(leak)
  BY DEF RmStates
<1>2. Len(calls) \in Nat \ {0} /\ Call = calls[Len(calls)] /\ Call \in CallRecord
  BY <1>1, FrontFacts DEF Call
<1> QED
  BY <1>1, <1>2 DEF Here, Last, CallsNest, CallNests, Deepest

\* The first call of a process is below a call of the process before.
LEMMA NewProcess ==
    ASSUME RmStates, CallsNest, calls # <<>>, Call.new
    PROVE  /\ Len(calls) > 1 /\ Len(cwd) > 1
           /\ calls[Len(calls) - 1].proc = Len(cwd) - 1
           /\ \A k \in 1..Len(calls) - 1 : calls[k].proc \in 1..Len(cwd) - 1
<1>1. /\ Len(calls) \in Nat \ {0} /\ DOMAIN calls = 1..Len(calls)
      /\ Call = calls[Len(calls)] /\ Call.proc = Len(cwd) /\ Len(cwd) \in Nat
  BY LastCall DEF RmStates
<1>2. Len(calls) # 1
  BY <1>1 DEF CallsNest, CallNests
<1>3. Len(calls) - 1 \in DOMAIN calls /\ Len(calls) > 1
  BY <1>1, <1>2
<1>4. \A k \in 1..Len(calls) - 1 : calls[k].proc \in 1..Len(cwd)
  BY <1>1 DEF CallsNest, CallNests
<1>5. Call.proc = calls[Len(calls) - 1].proc + 1
  BY <1>1, <1>3 DEF CallsNest, CallNests
<1>6. \A k \in 1..Len(calls) - 1 : calls[k].proc < Call.proc
  BY <1>1, <1>3 DEF CallsNest, CallNests
<1> QED
  BY <1>1, <1>3, <1>4, <1>5, <1>6

\* Any other call but the first is below one of its process.
LEMMA OldProcess ==
    ASSUME RmStates, CallsNest, calls # <<>>, ~Call.new, Len(calls) # 1
    PROVE  /\ Len(calls) - 1 \in 1..Len(calls)
           /\ calls[Len(calls) - 1].proc = Len(cwd)
           /\ calls[Len(calls) - 1].dir # NoNode
<1>1. /\ Len(calls) \in Nat \ {0} /\ DOMAIN calls = 1..Len(calls)
      /\ Call = calls[Len(calls)] /\ Call.proc = Len(cwd)
  BY LastCall
<1>2. Len(calls) \in DOMAIN calls /\ Len(calls) > 1
  BY <1>1
<1> QED
  BY <1>1, <1>2 DEF CallsNest, CallNests

-----------------------------------------------------------------------------
(* What is in the current directory is inside *)

LEMMA NamesAreInside ==
    ASSUME RmInv, calls # <<>>, NEW n, n = At(Here, Call.base), n # NoNode
    PROVE  n \in Node \ (Outside \cup {TopDir})
<1>1. Here \in Good \cup {TopDir} /\ (Here = TopDir => Call.base \in Range(RmArgs))
  BY LastCall DEF RmInv, DirsInside, CallInside, RmStates
<1>2. n \in Node /\ loc[n] = <<Here, Call.base>>
  BY DEF At
<1>3. n \notin Outside \cup {TopDir} \/ Place[n] = <<Here, Call.base>>
  BY <1>2 DEF RmInv, Unmoved
<1>4. n # TopDir
  BY <1>1, <1>3, RmAssumption DEF Good
<1>5. n # OutDir
  <2>1. SUFFICES ASSUME n = OutDir PROVE FALSE
    OBVIOUS
  <2>2. Place[OutDir] = <<Here, Call.base>> /\ Place[OutDir] # Place[TopDir]
    BY <1>1, <1>3, <2>1, RmAssumption DEF Good, Outside
  <2>3. PICK b \in BaseName \ Range(RmArgs) : Place[OutDir] = <<TopDir, b>>
    BY <2>2, RmAssumption
  <2> QED
    BY <1>1, <2>2, <2>3
<1>6. ~(n \in Node /\ Place[n][1] = OutDir)
  BY <1>1, <1>3, RmAssumption DEF Good, Outside
<1> QED
  BY <1>2, <1>4, <1>5, <1>6 DEF Outside

LEMMA RmFileKeeps ==
    ASSUME RmInv, calls # <<>>, RmFile(Call)
    PROVE  /\ loc' \in [Node -> (DirNode \X BaseName) \cup {Gone, Place[TopDir]}]
           /\ rmerr' \in BOOLEAN
           /\ Unmoved'
<1> DEFINE n == At(Here, Call.base)
<1>1. loc' = loc \/ (n # NoNode /\ loc' = [loc EXCEPT ![n] = Gone])
  BY DEF RmFile, Removable
<1>2. rmerr' \in BOOLEAN
  BY DEF RmFile, RmInv, RmStates
<1>3. CASE loc' = loc
  BY <1>2, <1>3 DEF RmInv, RmStates, Unmoved
<1>4. CASE n # NoNode /\ loc' = [loc EXCEPT ![n] = Gone]
  <2>1. n \in Node \ (Outside \cup {TopDir})
    BY <1>4, NamesAreInside
  <2>2. Outside \cup {TopDir} \subseteq Node
    BY RmAssumption DEF Outside
  <2> QED
    BY <1>2, <1>4, <2>1, <2>2 DEF RmInv, RmStates, Unmoved
<1> QED
  BY <1>1, <1>3, <1>4

-----------------------------------------------------------------------------
(* rm() returns *)

LEMMA Returned ==
    ASSUME RmStates, CallsNest, calls # <<>>, RmReturn
    PROVE  /\ calls' \in Seq(CallRecord) /\ Len(calls') = Len(calls) - 1
           /\ DOMAIN calls' = 1..Len(calls) - 1
           /\ \A k \in 1..Len(calls) - 1 : calls'[k] = calls[k]
           /\ cwd' \in Seq(DirNode) /\ leak' \in Seq(Nat)
           /\ Len(cwd') = IF Call.new THEN Len(cwd) - 1 ELSE Len(cwd)
           /\ Len(leak') = Len(cwd') /\ Len(cwd') \in 1..MaxProc
           /\ DOMAIN cwd' = 1..Len(cwd') /\ DOMAIN leak' = 1..Len(cwd')
           /\ \A p \in 1..Len(cwd') : cwd'[p] = cwd[p] /\ leak'[p] = leak[p]
<1>1. calls \in Seq(CallRecord) /\ cwd \in Seq(DirNode) /\ leak \in Seq(Nat)
      /\ Len(cwd) \in 1..MaxProc /\ MaxProc \in Nat /\ Len(leak) = Len(cwd)
      /\ DOMAIN cwd = 1..Len(cwd) /\ DOMAIN leak = 1..Len(cwd)
  BY LastCall, RmAssumption DEF RmStates
<1>2. /\ calls' \in Seq(CallRecord) /\ Len(calls') = Len(calls) - 1
      /\ DOMAIN calls' = 1..Len(calls) - 1
      /\ \A k \in 1..Len(calls) - 1 : calls'[k] = calls[k]
  <2>1. calls' = Front(calls)
    BY DEF RmReturn
  <2> QED
    BY <1>1, <2>1, FrontFacts
<1>3. CASE ~Call.new
  <2>1. cwd' = cwd /\ leak' = leak
    BY <1>3 DEF RmReturn, processes
  <2> QED
    BY <1>1, <1>2, <1>3, <2>1
<1>4. CASE Call.new
  <2>1. cwd' = Front(cwd) /\ leak' = Front(leak)
    BY <1>4 DEF RmReturn
  <2>2. Len(cwd) > 1
    BY <1>4, NewProcess
  <2>3. cwd # <<>> /\ leak # <<>>
    BY <1>1, EmptySeq
  <2>4. /\ cwd' \in Seq(DirNode) /\ Len(cwd') = Len(cwd) - 1
        /\ DOMAIN cwd' = 1..Len(cwd) - 1
        /\ \A p \in 1..Len(cwd) - 1 : cwd'[p] = cwd[p]
    BY <1>1, <2>1, <2>3, FrontFacts
  <2>5. /\ leak' \in Seq(Nat) /\ Len(leak') = Len(cwd) - 1
        /\ DOMAIN leak' = 1..Len(cwd) - 1
        /\ \A p \in 1..Len(cwd) - 1 : leak'[p] = leak[p]
    BY <1>1, <2>1, <2>3, FrontFacts
  <2> QED
    BY <1>1, <1>2, <1>4, <2>2, <2>4, <2>5
<1> QED
  BY <1>3, <1>4

LEMMA ReturnKeeps ==
    ASSUME RmInv, calls # <<>>, Call.dir = NoNode \/ Call.new,
           RmReturn, UNCHANGED rmfd
    PROVE  CallsNest' /\ DirsInside' /\ FdsSpare'
<1>a. RmStates /\ CallsNest
  BY DEF RmInv
<1>b. DOMAIN cwd = 1..Len(cwd) /\ DOMAIN leak = 1..Len(cwd) /\ Len(cwd) \in Nat
  BY <1>a, LastCall DEF RmStates
<1>d. Len(calls) \in Nat \ {0} /\ DOMAIN calls = 1..Len(calls)
  BY <1>a, LastCall
<1>e. PICK m \in Nat : m = Len(calls) - 1
  <2>1. Len(calls) - 1 \in Nat
    BY <1>d
  <2> QED
    BY <2>1
<1>1. DOMAIN calls = 1..m + 1 /\ Len(calls) = m + 1 /\ Len(calls) - 1 = m
  BY <1>d, <1>e
<1>c. Call = calls[Len(calls)] /\ Call.proc = Len(cwd)
  BY <1>a, LastCall
<1>2. /\ Len(calls') = m /\ DOMAIN calls' = 1..m
      /\ \A k \in 1..m : calls'[k] = calls[k]
  BY <1>a, <1>1, Returned
<1>3. /\ Len(cwd') = IF Call.new THEN Len(cwd) - 1 ELSE Len(cwd)
      /\ DOMAIN cwd' = 1..Len(cwd') /\ DOMAIN leak' = 1..Len(cwd')
      /\ \A p \in 1..Len(cwd') :
            p \in 1..Len(cwd) /\ cwd'[p] = cwd[p] /\ leak'[p] = leak[p]
  <2>1. /\ Len(cwd') = IF Call.new THEN Len(cwd) - 1 ELSE Len(cwd)
        /\ DOMAIN cwd' = 1..Len(cwd') /\ DOMAIN leak' = 1..Len(cwd')
        /\ \A p \in 1..Len(cwd') : cwd'[p] = cwd[p] /\ leak'[p] = leak[p]
        /\ Len(cwd') \in 1..MaxProc
    BY <1>a, Returned
  <2>2. Len(cwd') \in Nat
    <3>1. MaxProc \in Nat
      BY RmAssumption
    <3> QED
      BY <2>1, <3>1
  <2>3. Len(cwd') <= Len(cwd)
    <3>1. Len(cwd') = Len(cwd) - 1 \/ Len(cwd') = Len(cwd)
      BY <2>1
    <3>2. Len(cwd) \in Nat
      BY <1>b
    <3> QED
      BY <3>1, <3>2
  <2>4. \A p \in 1..Len(cwd') : p \in 1..Len(cwd)
    BY <1>b, <2>2, <2>3
  <2> QED
    BY <2>1, <2>4
<1>4. \A k \in 1..m : calls[k].proc \in 1..Len(cwd')
  <2>1. CASE Call.new
    BY <1>3, <1>1, <2>1, NewProcess DEF RmInv
  <2>2. CASE ~Call.new
    BY <1>1, <1>3, <2>2 DEF RmInv, CallsNest, CallNests
  <2> QED
    BY <2>1, <2>2
<1>5. IF calls' = <<>> THEN Len(cwd') = 1 ELSE calls'[m].proc = Len(cwd')
  <2>1. CASE Call.new
    <3>1. m > 0 /\ calls[m].proc = Len(cwd')
      BY <1>3, <1>1, <2>1, NewProcess DEF RmInv
    <3>2. calls' # <<>>
      BY <1>2, <3>1
    <3> QED
      BY <1>1, <1>2, <3>1, <3>2
  <2>2. CASE ~Call.new /\ m = 0
    <3>1. calls' = <<>>
      <4>1. calls' \in Seq(CallRecord) /\ Len(calls') = 0
        BY <1>2, <2>2, Returned DEF RmInv
      <4> QED
        BY <4>1, EmptySeq
    <3>2. Call.proc = 1
      <4>0. m = 0
        BY <2>2
      <4>1. Len(calls) = 1 /\ 1 \in DOMAIN calls
        BY <1>1, <4>0
      <4> QED
        BY <1>c, <4>1 DEF RmInv, CallsNest, CallNests
    <3>3. Len(cwd') = Len(cwd)
      BY <1>3, <2>2
    <3> QED
      BY <1>c, <3>1, <3>2, <3>3
  <2>3. CASE ~Call.new /\ m # 0
    <3>1. calls[m].proc = Len(cwd')
      BY <1>1, <1>3, <2>3, OldProcess DEF RmInv
    <3>2. calls' # <<>> /\ m \in 1..m
      BY <1>1, <1>2, <2>3
    <3> QED
      BY <1>2, <3>1, <3>2
  <2> QED
    BY <2>1, <2>2, <2>3
<1>6. CallsNest'
  <2>1. ASSUME NEW k \in 1..m
        PROVE  CallNests(k)'
    <3>1. k \in DOMAIN calls /\ calls'[k] = calls[k]
      BY <1>1, <1>2
    <3>2. \A j \in 1..k - 1 : calls'[j] = calls[j]
      BY <1>1, <1>2
    <3>3. k > 1 => calls'[k - 1] = calls[k - 1]
      BY <1>1, <3>2
    <3> QED
      BY <1>4, <3>1, <3>2, <3>3 DEF RmInv, CallsNest, CallNests
  <2> QED
    BY <1>2, <1>5, <2>1 DEF CallsNest, CallNests
<1>7. DirsInside'
  <2>1. \A k \in DOMAIN calls' : calls'[k].dir \in Good \cup {NoNode}
    BY <1>1, <1>2 DEF RmInv, DirsInside, CallInside
  <2>2. \A p \in DOMAIN cwd' : cwd'[p] \in Good \cup {TopDir}
    <3>1. \A p \in 1..Len(cwd') : p \in DOMAIN cwd
      BY <1>b, <1>3
    <3> QED
      BY <1>3, <3>1 DEF RmInv, DirsInside, CallInside
  <2>3. calls' = <<>> => cwd'[1] = TopDir
    <3>1. SUFFICES ASSUME calls' = <<>> PROVE cwd'[1] = TopDir
      OBVIOUS
    <3>2. m = 0 /\ Len(calls) = 1
      BY <1>1, <1>2, <3>1, EmptySeq
    <3>6. 1 \in DOMAIN calls /\ Deepest(1)
      BY <1>1, <3>2 DEF Deepest
    <3>3. ~calls[1].new /\ calls[1].proc = 1 /\ Call = calls[1]
      BY <1>c, <3>2, <3>6 DEF RmInv, CallsNest, CallNests
    <3>4. calls[1].dir = NoNode
      BY <3>3
    <3>5. cwd[1] = TopDir
      BY <3>3, <3>4, <3>6 DEF RmInv, DirsInside, CallInside
    <3> QED
      BY <1>b, <1>c, <1>3, <3>3, <3>5
  <2>4. ASSUME NEW k \in 1..m, Deepest(k)'
        PROVE  CallInside(k)
    <3>1. CASE k = m /\ ~Call.new
      <4>0. k = m
        BY <3>1
      <4>1. /\ calls[k].dir # NoNode /\ calls[k].proc = Len(cwd)
            /\ Len(calls) > 1 /\ k = Len(calls) - 1 /\ k \in DOMAIN calls
        <5>1. Len(calls) > 1 /\ k = Len(calls) - 1 /\ k \in DOMAIN calls
          BY <1>1, <4>0
        <5> QED
          BY <3>1, <5>1, OldProcess DEF RmInv
      <4>2. cwd[Len(cwd)] = calls[k].dir
        <5>1. Call.dir = NoNode /\ Deepest(Len(calls)) /\ Len(calls) \in DOMAIN calls
          BY <1>1, <3>1 DEF Deepest
        <5> QED
          BY <1>c, <3>1, <4>1, <5>1 DEF RmInv, DirsInside, CallInside
      <4>3. calls[k].dir # TopDir
        BY <4>1, RmAssumption DEF RmInv, DirsInside, CallInside, Good
      <4> QED
        BY <4>1, <4>2, <4>3 DEF CallInside
    <3>2. CASE ~(k = m /\ ~Call.new)
      <4>1. Deepest(k) /\ k \in DOMAIN calls
        <5>1. CASE k = m
          <6>1. k + 1 = Len(calls) /\ k \in DOMAIN calls
            BY <1>1, <5>1
          <6>2. calls[k + 1].new
            BY <1>c, <3>2, <5>1, <6>1
          <6> QED
            BY <6>1, <6>2 DEF Deepest
        <5>2. CASE k # m
          <6>1. calls'[k + 1].new /\ k + 1 \in 1..m
            BY <1>1, <1>2, <2>4, <5>2 DEF Deepest
          <6>2. calls[k + 1].new
            BY <1>2, <6>1
          <6> QED
            BY <1>1, <6>2 DEF Deepest
        <5> QED
          BY <5>1, <5>2
      <4> QED
        BY <4>1 DEF RmInv, DirsInside, CallInside
    <3> QED
      BY <3>1, <3>2
  <2>5. ASSUME NEW k \in 1..m, Deepest(k)'
        PROVE  CallInside(k)'
    <3>1. calls'[k] = calls[k] /\ cwd'[calls[k].proc] = cwd[calls[k].proc]
      BY <1>2, <1>3, <1>4
    <3>2. k > 1 => calls'[k - 1] = calls[k - 1]
      BY <1>1, <1>2
    <3> QED
      BY <2>4, <2>5, <3>1, <3>2 DEF CallInside
  <2> QED
    BY <1>2, <2>1, <2>2, <2>3, <2>5 DEF DirsInside, CallInside
<1>8. FdsSpare'
  <2>1. \A p \in 1..Len(cwd') : p \in DOMAIN leak
    BY <1>b, <1>3
  <2>2. \A k \in 1..m : calls[k].proc \in DOMAIN leak /\ k \in DOMAIN calls
    BY <1>1, <1>4, <2>1
  <2> QED
    BY <1>2, <1>3, <1>4, <2>1, <2>2 DEF RmInv, FdsSpare
<1> QED
  BY <1>6, <1>7, <1>8

-----------------------------------------------------------------------------
(* rm() goes on, in a directory d *)

LEMMA TopKeeps ==
    ASSUME RmInv, calls # <<>>, NEW f \in CallRecord, NEW d \in Good \cup {TopDir},
           calls' = RmTop(f), cwd' = [cwd EXCEPT ![Len(cwd)] = d],
           leak' = leak, rmfd' = rmfd,
           f.base = Call.base, f.new = Call.new, f.proc = Call.proc,
           f.dir \in Good \cup {NoNode}, f.dir # NoNode <=> f.at = "read",
           f.dir # NoNode => d = f.dir /\ Last(leak) < rmfd,
           f.dir = NoNode /\ Len(calls) = 1 => d = TopDir,
           f.dir = NoNode /\ Len(calls) > 1 /\ ~Call.new => d = calls[Len(calls) - 1].dir,
           d = TopDir => Call.base \in Range(RmArgs)
    PROVE  /\ calls' \in Seq(CallRecord)
           /\ cwd' \in Seq(DirNode) /\ leak' \in Seq(Nat)
           /\ Len(leak') = Len(cwd') /\ Len(cwd') \in 1..MaxProc
           /\ CallsNest' /\ DirsInside' /\ FdsSpare'
<1>1. RmStates /\ CallsNest /\ DirsInside /\ FdsSpare
  BY DEF RmInv
<1>2. PICK m \in Nat \ {0} : m = Len(calls)
  BY <1>1, LastCall
<1>3. PICK n \in Nat \ {0} : n = Len(cwd)
  <2>1. Len(cwd) \in Nat \ {0}
    <3>1. MaxProc \in Nat
      BY RmAssumption
    <3> QED
      BY <1>1, <3>1 DEF RmStates
  <2> QED
    BY <2>1
<1>4. Call = calls[m] /\ Call.proc = n /\ Here = cwd[n] /\ Last(leak) = leak[n]
  BY <1>1, <1>2, <1>3, LastCall
<1>5. DOMAIN calls = 1..m /\ DOMAIN cwd = 1..n /\ DOMAIN leak = 1..n
  BY <1>1, <1>2, <1>3, LastCall
<1>6. d \in DirNode
  BY RmAssumption DEF Good
<1>7. /\ calls' \in Seq(CallRecord) /\ Len(calls') = m
      /\ calls' # <<>> /\ DOMAIN calls' = 1..m
      /\ \A k \in 1..m : calls'[k] = IF k = m THEN f ELSE calls[k]
  <2>1. calls \in Seq(CallRecord) /\ m \in 1..Len(calls)
    BY <1>1, <1>2 DEF RmStates
  <2>2. calls' = [calls EXCEPT ![m] = f]
    BY <1>2 DEF RmTop
  <2> QED
    BY <1>2, <2>1, <2>2, ReplacedFacts
<1>8. /\ cwd' \in Seq(DirNode) /\ Len(cwd') = n /\ DOMAIN cwd' = 1..n
      /\ \A p \in 1..n : cwd'[p] = IF p = n THEN d ELSE cwd[p]
  <2>1. cwd \in Seq(DirNode) /\ n \in 1..Len(cwd)
    BY <1>1, <1>3 DEF RmStates
  <2> QED
    BY <1>3, <1>6, <2>1, ReplacedFacts
<1>9. \A k \in 1..m : /\ calls'[k].base = calls[k].base /\ calls'[k].new = calls[k].new
                      /\ calls'[k].proc = calls[k].proc
  BY <1>4, <1>7
<1>10. \A k \in 1..m - 1 : calls'[k] = calls[k]
  BY <1>7
<1>11. calls'[m] = f
  BY <1>7
<1>12. CallsNest'
  <2>1. calls'[m].proc = n
    BY <1>4, <1>11
  <2>2. ASSUME NEW k \in 1..m
        PROVE  CallNests(k)'
    <3>1. calls'[k].dir # NoNode <=> calls'[k].at = "read"
      <4>1. CASE k = m
        BY <1>11, <4>1
      <4>2. CASE k # m
        BY <1>1, <1>5, <1>7, <4>2 DEF CallsNest, CallNests
      <4> QED
        BY <4>1, <4>2
    <3>2. /\ calls'[k].new = calls[k].new /\ calls'[k].proc = calls[k].proc
          /\ calls'[k].base = calls[k].base
      BY <1>9
    <3>3. \A j \in 1..k - 1 : calls'[j] = calls[j]
      BY <1>10
    <3>4. k > 1 => calls'[k - 1] = calls[k - 1]
      BY <3>3
    <3>5. CallNests(k)
      BY <1>1, <1>5 DEF CallsNest
    <3> QED
      BY <1>3, <1>8, <3>1, <3>2, <3>3, <3>4, <3>5 DEF CallNests
  <2> QED
    BY <1>7, <1>8, <2>1, <2>2 DEF CallsNest, CallNests
<1>13. DirsInside'
  <2>1. \A k \in 1..m : calls'[k].dir \in Good \cup {NoNode}
    BY <1>1, <1>5, <1>7 DEF DirsInside, CallInside
  <2>2. \A p \in 1..n : cwd'[p] \in Good \cup {TopDir}
    BY <1>1, <1>5, <1>8 DEF DirsInside, CallInside
  <2>3. ASSUME NEW k \in 1..m, Deepest(k)'
        PROVE  CallInside(k)'
    <3>1. CASE k = m
      <4>1. calls'[k] = f /\ cwd'[f.proc] = d
        BY <1>4, <1>8, <1>11, <3>1
      <4>2. k > 1 => calls'[k - 1] = calls[Len(calls) - 1]
        BY <1>2, <1>10, <3>1
      <4>3. (k = 1 => Len(calls) = 1) /\ (k > 1 => Len(calls) > 1)
        BY <1>2, <3>1
      <4> QED
        BY <4>1, <4>2, <4>3 DEF CallInside
    <3>2. CASE k # m
      <4>1. k + 1 \in 1..m /\ k \in 1..m - 1
        BY <3>2
      <4>2. calls'[k + 1].new
        BY <1>7, <2>3, <3>2 DEF Deepest
      <4>3. calls[k + 1].new
        BY <1>9, <4>1, <4>2
      <4>4. Deepest(k) /\ k \in DOMAIN calls
        BY <1>5, <4>3 DEF Deepest
      <4>5. calls[k].proc \in 1..n /\ calls[k].proc # n
        <5>1. calls[k].proc \in 1..n
          BY <1>1, <1>3, <4>4 DEF CallsNest, CallNests
        <5>2. calls[k].proc < calls[k + 1].proc
          <6>1. k \in 1..(k + 1) - 1 /\ k + 1 \in DOMAIN calls
            BY <1>5, <4>1
          <6> QED
            BY <1>1, <4>3, <6>1 DEF CallsNest, CallNests
        <5>3. calls[k + 1].proc \in 1..n
          BY <1>1, <1>3, <1>5, <4>1 DEF CallsNest, CallNests
        <5> QED
          BY <5>1, <5>2, <5>3
      <4>6. calls'[k] = calls[k] /\ cwd'[calls[k].proc] = cwd[calls[k].proc]
        BY <1>8, <1>10, <4>1, <4>5
      <4>7. k > 1 => calls'[k - 1] = calls[k - 1]
        BY <1>10, <4>1
      <4> QED
        BY <1>1, <4>4, <4>6, <4>7 DEF DirsInside, CallInside
    <3> QED
      BY <3>1, <3>2
  <2> QED
    BY <1>7, <1>8, <2>1, <2>2, <2>3 DEF DirsInside, CallInside
<1>14. FdsSpare'
  <2>1. ASSUME NEW k \in 1..m, calls'[k].dir # NoNode
        PROVE  leak[calls'[k].proc] < rmfd
    <3>1. CASE k = m
      BY <1>4, <1>11, <2>1, <3>1
    <3>2. CASE k # m
      BY <1>1, <1>5, <1>7, <2>1, <3>2 DEF FdsSpare
    <3> QED
      BY <3>1, <3>2
  <2> QED
    BY <1>1, <1>7, <2>1 DEF FdsSpare
<1> QED
  BY <1>1, <1>3, <1>7, <1>8, <1>12, <1>13, <1>14 DEF RmStates

-----------------------------------------------------------------------------
(* rm() is called for an entry, or in a new process *)

LEMMA PushKeeps ==
    ASSUME RmInv, calls # <<>>, NEW f \in CallRecord, NEW c \in CallRecord,
           calls' = Append(RmTop(f), c), rmfd' = rmfd,
           f.base = Call.base, f.dir = Call.dir, f.new = Call.new, f.proc = Call.proc,
           f.dir # NoNode <=> f.at = "read", c.dir = NoNode, c.at # "read",
           \/ /\ ~c.new /\ f.dir # NoNode /\ c.proc = Len(cwd)
              /\ cwd' = cwd /\ leak' = leak
           \/ /\ c.new /\ c.base = f.base /\ c.proc = Len(cwd) + 1 /\ Len(cwd) < MaxProc
              /\ cwd' = Append(cwd, Here)
              /\ \E l \in 0..rmfd : leak' = Append(leak, l)
    PROVE  /\ calls' \in Seq(CallRecord)
           /\ cwd' \in Seq(DirNode) /\ leak' \in Seq(Nat)
           /\ Len(leak') = Len(cwd') /\ Len(cwd') \in 1..MaxProc
           /\ CallsNest' /\ DirsInside' /\ FdsSpare'
<1>1. RmStates /\ CallsNest /\ DirsInside /\ FdsSpare
  BY DEF RmInv
<1>2. PICK m \in Nat \ {0} : m = Len(calls)
  BY <1>1, LastCall
<1>3. PICK n \in Nat \ {0} : n = Len(cwd) /\ n \in 1..MaxProc
  <2>1. Len(cwd) \in Nat \ {0}
    <3>1. MaxProc \in Nat
      BY RmAssumption
    <3> QED
      BY <1>1, <3>1 DEF RmStates
  <2> QED
    BY <1>1, <2>1 DEF RmStates
<1>4. Call = calls[m] /\ Call.proc = n /\ Here = cwd[n]
  BY <1>1, <1>2, <1>3, LastCall
<1>5. DOMAIN calls = 1..m /\ DOMAIN cwd = 1..n /\ DOMAIN leak = 1..n
  BY <1>1, <1>2, <1>3, LastCall
<1>6. /\ calls' \in Seq(CallRecord) /\ Len(calls') = m + 1
      /\ calls' # <<>> /\ DOMAIN calls' = 1..m + 1
      /\ calls'[m + 1] = c /\ calls'[m] = f
      /\ \A k \in 1..m - 1 : calls'[k] = calls[k]
  <2>1. calls \in Seq(CallRecord) /\ m \in 1..Len(calls)
    BY <1>1, <1>2 DEF RmStates
  <2>2. PICK t : t = [calls EXCEPT ![m] = f]
    OBVIOUS
  <2>3. t \in Seq(CallRecord) /\ Len(t) = m
        /\ \A k \in 1..m : t[k] = IF k = m THEN f ELSE calls[k]
    BY <1>2, <2>1, <2>2, ReplacedFacts
  <2>4. calls' = Append(t, c)
    BY <1>2, <2>2 DEF RmTop
  <2>5. /\ Append(t, c) \in Seq(CallRecord) /\ Append(t, c) # <<>>
        /\ Len(Append(t, c)) = m + 1 /\ DOMAIN Append(t, c) = 1..m + 1
        /\ Append(t, c)[m + 1] = c /\ \A k \in 1..m : Append(t, c)[k] = t[k]
    BY <2>3, AppendFacts
  <2>6. /\ calls' \in Seq(CallRecord) /\ calls' # <<>>
        /\ Len(calls') = m + 1 /\ DOMAIN calls' = 1..m + 1
        /\ calls'[m + 1] = c /\ \A k \in 1..m : calls'[k] = t[k]
    BY <2>4, <2>5
  <2> QED
    BY <2>3, <2>6
<1>7. PICK q \in {n, n + 1} : /\ q \in 1..MaxProc /\ c.proc = q
                              /\ q = IF c.new THEN n + 1 ELSE n
  BY <1>3, RmAssumption
<1>8. /\ cwd' \in Seq(DirNode) /\ Len(cwd') = q /\ DOMAIN cwd' = 1..q
      /\ cwd'[q] = cwd[n] /\ \A p \in 1..n : cwd'[p] = cwd[p]
  <2>1. cwd \in Seq(DirNode) /\ cwd[n] \in DirNode
    BY <1>1, <1>3, ElementOfSeq DEF RmStates
  <2>2. CASE ~c.new
    BY <1>3, <1>5, <1>7, <2>1, <2>2
  <2>3. CASE c.new
    <3>1. cwd' = Append(cwd, cwd[n]) /\ q = n + 1
      BY <1>4, <1>7, <2>3
    <3> QED
      BY <1>3, <2>1, <3>1, AppendFacts
  <2> QED
    BY <2>2, <2>3
<1>9. /\ leak' \in Seq(Nat) /\ Len(leak') = q /\ DOMAIN leak' = 1..q
      /\ leak'[q] <= rmfd /\ \A p \in 1..n : leak'[p] = leak[p]
  <2>1. leak \in Seq(Nat) /\ Len(leak) = n /\ rmfd \in Nat
    BY <1>1, <1>3, RmAssumption DEF RmStates
  <2>2. CASE ~c.new
    BY <1>1, <1>5, <1>7, <2>1, <2>2 DEF FdsSpare
  <2>3. CASE c.new
    <3>1. PICK l \in 0..rmfd : leak' = Append(leak, l)
      BY <2>3
    <3>2. q = n + 1
      BY <1>7, <2>3
    <3>3. l \in Nat /\ l <= rmfd
      BY <2>1
    <3> QED
      BY <2>1, <3>1, <3>2, <3>3, AppendFacts
  <2> QED
    BY <2>2, <2>3
<1>10. \A k \in 1..m : /\ calls'[k].base = calls[k].base /\ calls'[k].new = calls[k].new
                       /\ calls'[k].proc = calls[k].proc /\ calls'[k].dir = calls[k].dir
  <2>1. ASSUME NEW k \in 1..m
        PROVE  /\ calls'[k].base = calls[k].base /\ calls'[k].new = calls[k].new
               /\ calls'[k].proc = calls[k].proc /\ calls'[k].dir = calls[k].dir
    <3>1. CASE k = m
      BY <1>4, <1>6, <3>1
    <3>2. CASE k # m
      BY <1>6, <3>2
    <3> QED
      BY <3>1, <3>2
  <2> QED
    BY <2>1
<1>15. \A k \in 1..m : (k > 1 => k - 1 \in 1..m) /\ \A j \in 1..k - 1 : j \in 1..m
  OBVIOUS
<1>11. \A k \in 1..m : calls[k].proc \in 1..n
  BY <1>1, <1>3, <1>5 DEF CallsNest, CallNests
<1>12. CallsNest'
  <2>1. ASSUME NEW k \in 1..m
        PROVE  CallNests(k)'
    <3>1. calls'[k].dir # NoNode <=> calls'[k].at = "read"
      <4>1. CASE k = m
        BY <1>6, <4>1
      <4>2. CASE k # m
        BY <1>1, <1>5, <1>6, <4>2 DEF CallsNest, CallNests
      <4> QED
        BY <4>1, <4>2
    <3>2. /\ calls'[k].new = calls[k].new /\ calls'[k].proc = calls[k].proc
          /\ calls'[k].base = calls[k].base
      BY <1>10
    <3>3. \A j \in 1..k - 1 : calls'[j].proc = calls[j].proc
      BY <1>10, <1>15
    <3>4. k > 1 => calls'[k - 1].proc = calls[k - 1].proc
                    /\ calls'[k - 1].dir = calls[k - 1].dir
      BY <1>10, <1>15
    <3>5. calls[k].proc \in 1..q
      BY <1>7, <1>11
    <3>6. CallNests(k)
      BY <1>1, <1>5 DEF CallsNest
    <3> QED
      BY <1>8, <3>1, <3>2, <3>3, <3>4, <3>5, <3>6 DEF CallNests
  <2>2. /\ c.proc \in 1..q /\ m + 1 # 1 /\ m + 1 > 1 /\ m + 1 - 1 = m
        /\ c.new => c.proc = calls'[m].proc + 1
        /\ ~c.new => c.proc = calls'[m].proc /\ calls'[m].dir # NoNode
        /\ \A j \in 1..m : calls'[j].proc <= c.proc /\ (c.new => calls'[j].proc < c.proc)
    <3>1. calls'[m] = f /\ f.proc = n
      BY <1>4, <1>6
    <3>2. q = n \/ (q = n + 1 /\ c.new)
      BY <1>7
    <3>3. \A j \in 1..m : calls'[j].proc \in 1..n
      BY <1>10, <1>11
    <3>4. c.proc \in 1..q /\ m + 1 # 1 /\ m + 1 > 1 /\ m + 1 - 1 = m
      BY <1>7
    <3>5. c.new => c.proc = calls'[m].proc + 1
      BY <1>7, <3>1
    <3>6. ~c.new => c.proc = calls'[m].proc /\ calls'[m].dir # NoNode
      BY <1>3, <1>7, <3>1
    <3>7. \A j \in 1..m : calls'[j].proc <= c.proc /\ (c.new => calls'[j].proc < c.proc)
      <4>1. \A p \in 1..n : p <= q /\ (q = n + 1 => p < q)
        BY <1>7
      <4>2. c.proc = q /\ (c.new => q = n + 1)
        BY <1>7
      <4> QED
        BY <3>3, <4>1, <4>2
    <3> QED
      BY <3>4, <3>5, <3>6, <3>7
  <2>3. ASSUME NEW k \in 1..m + 1
        PROVE  CallNests(k)'
    <3>1. CASE k \in 1..m
      BY <2>1, <3>1
    <3>2. CASE k = m + 1
      <4>1. calls'[k] = c /\ k # 1 /\ k > 1 /\ k - 1 = m
        BY <1>6, <2>2, <3>2
      <4> QED
        BY <1>8, <2>2, <4>1 DEF CallNests
    <3>3. k \in 1..m \/ k = m + 1
      OBVIOUS
    <3> QED
      BY <3>1, <3>2, <3>3
  <2> QED
    BY <1>6, <1>7, <1>8, <2>3 DEF CallsNest
<1>13. DirsInside'
  <2>1. \A k \in 1..m + 1 : calls'[k].dir \in Good \cup {NoNode}
    <3>1. \A k \in 1..m : calls'[k].dir \in Good \cup {NoNode}
      BY <1>1, <1>5, <1>10 DEF DirsInside, CallInside
    <3> QED
      BY <1>6, <3>1
  <2>2. \A p \in 1..q : cwd'[p] \in Good \cup {TopDir}
    <3>1. \A p \in 1..n : cwd'[p] \in Good \cup {TopDir}
      BY <1>1, <1>5, <1>8 DEF DirsInside, CallInside
    <3>2. cwd'[q] \in Good \cup {TopDir}
      BY <1>1, <1>5, <1>8 DEF DirsInside, CallInside
    <3>3. \A p \in 1..q : p \in 1..n \/ p = q
      BY <1>7
    <3> QED
      BY <3>1, <3>2, <3>3
  <2>3. Deepest(m) /\ m \in DOMAIN calls
    BY <1>2, <1>5 DEF Deepest
  <2>4. /\ f.dir # NoNode => cwd[n] = f.dir
        /\ cwd[n] = TopDir => f.base \in Range(RmArgs)
    BY <1>1, <1>4, <2>3 DEF DirsInside, CallInside
  <2>5. ~c.new => cwd[n] = calls'[m].dir /\ cwd[n] # TopDir
    <3>1. ~c.new => f.dir # NoNode
      OBVIOUS
    <3>2. f.dir \in Good \cup {NoNode}
      BY <1>1, <1>4, <2>3 DEF DirsInside, CallInside
    <3> QED
      BY <1>6, <2>4, <3>1, <3>2 DEF Good
  <2>6. ASSUME NEW k \in 1..m + 1, Deepest(k)'
        PROVE  CallInside(k)'
    <3>1. CASE k = m + 1
      <4>1. calls'[k] = c /\ k # 1 /\ k - 1 = m
        BY <1>6, <3>1
      <4>2. cwd'[c.proc] = cwd[n]
        BY <1>7, <1>8
      <4>3. cwd[n] = TopDir => c.new /\ c.base \in Range(RmArgs)
        BY <2>4, <2>5
      <4> QED
        BY <2>5, <4>1, <4>2, <4>3 DEF CallInside
    <3>2. CASE k \in 1..m
      <4>1. Deepest(k) /\ k \in DOMAIN calls
        <5>1. calls'[k + 1].new
          BY <1>6, <2>6, <3>2 DEF Deepest
        <5>2. CASE k = m
          BY <2>3, <5>2
        <5>3. CASE k # m
          <6>1. k + 1 \in 1..m
            BY <3>2, <5>3
          <6>2. calls[k + 1].new
            BY <1>10, <5>1, <6>1
          <6> QED
            BY <1>5, <3>2, <6>2 DEF Deepest
        <5> QED
          BY <5>2, <5>3
      <4>2. /\ calls'[k].base = calls[k].base /\ calls'[k].new = calls[k].new
            /\ calls'[k].dir = calls[k].dir
            /\ cwd'[calls'[k].proc] = cwd[calls[k].proc]
        <5>1. /\ calls'[k].base = calls[k].base /\ calls'[k].new = calls[k].new
              /\ calls'[k].dir = calls[k].dir /\ calls'[k].proc = calls[k].proc
          BY <1>10, <3>2
        <5>2. cwd'[calls[k].proc] = cwd[calls[k].proc]
          BY <1>8, <1>11, <3>2
        <5> QED
          BY <5>1, <5>2
      <4>3. k > 1 => calls'[k - 1].dir = calls[k - 1].dir
        BY <1>10, <1>15, <3>2
      <4>4. CallInside(k)
        BY <1>1, <4>1 DEF DirsInside
      <4> QED
        BY <4>2, <4>3, <4>4 DEF CallInside
    <3> QED
      BY <3>1, <3>2
  <2> QED
    BY <1>6, <1>8, <2>1, <2>2, <2>6 DEF DirsInside, CallInside
<1>14. FdsSpare'
  <2>1. \A p \in 1..q : leak'[p] <= rmfd
    <3>1. \A p \in 1..n : leak'[p] <= rmfd
      BY <1>1, <1>5, <1>9 DEF FdsSpare
    <3>2. \A p \in 1..q : p \in 1..n \/ p = q
      BY <1>7
    <3> QED
      BY <1>9, <3>1, <3>2
  <2>2. \A k \in 1..m : calls'[k].dir # NoNode => leak'[calls'[k].proc] < rmfd
    <3>1. ASSUME NEW k \in 1..m, calls'[k].dir # NoNode
          PROVE  leak'[calls'[k].proc] < rmfd
      <4>1. calls'[k].proc = calls[k].proc /\ calls[k].dir # NoNode
        BY <1>10, <3>1
      <4>2. leak[calls[k].proc] < rmfd
        BY <1>1, <1>5, <4>1 DEF FdsSpare
      <4>3. leak'[calls[k].proc] = leak[calls[k].proc]
        BY <1>9, <1>11
      <4> QED
        BY <4>1, <4>2, <4>3
    <3> QED
      BY <3>1
  <2>3. \A k \in 1..m + 1 : calls'[k].dir # NoNode => leak'[calls'[k].proc] < rmfd
    BY <1>6, <2>2
  <2> QED
    BY <1>6, <1>9, <2>1, <2>3 DEF FdsSpare
<1> QED
  BY <1>6, <1>7, <1>8, <1>9, <1>12, <1>13, <1>14

-----------------------------------------------------------------------------
(* The actions *)

\* The last call and the current directory.
LEMMA AtTheTop ==
    ASSUME RmInv, calls # <<>>
    PROVE  /\ Call \in CallRecord
           /\ Here \in Good \cup {TopDir} /\ Here = cwd[Len(cwd)]
           /\ Call.dir \in Good \cup {NoNode}
           /\ Call.dir # NoNode <=> Call.at = "read"
           /\ Call.dir # NoNode => Here = Call.dir /\ Last(leak) < rmfd
           /\ Call.dir = NoNode /\ Len(calls) = 1 => Here = TopDir
           /\ Call.dir = NoNode /\ Len(calls) > 1 /\ ~Call.new =>
               Here = calls[Len(calls) - 1].dir
           /\ Here = TopDir \/ Len(calls) = 1 => Call.base \in Range(RmArgs)
           /\ Len(calls) = 1 => ~Call.new
<1>1. RmStates /\ CallsNest /\ DirsInside /\ FdsSpare
  BY DEF RmInv
<1>2. /\ Len(calls) \in DOMAIN calls /\ Call = calls[Len(calls)] /\ Call \in CallRecord
      /\ Len(cwd) \in DOMAIN cwd /\ Here = cwd[Len(cwd)] /\ Last(leak) = leak[Len(cwd)]
      /\ Call.proc = Len(cwd) /\ Deepest(Len(calls))
  <2>1. Len(calls) \in DOMAIN calls
    BY <1>1, LastCall
  <2>2. Len(cwd) \in DOMAIN cwd
    <3>1. Len(cwd) \in 1..Len(cwd)
      <4>1. MaxProc \in Nat
        BY RmAssumption
      <4> QED
        BY <1>1, <4>1 DEF RmStates
    <3> QED
      BY <1>1, <3>1, LastCall
  <2> QED
    BY <1>1, <2>1, <2>2, LastCall
<1>3. CallNests(Len(calls)) /\ CallInside(Len(calls))
  BY <1>1, <1>2 DEF CallsNest, DirsInside
<1>4. Here \in Good \cup {TopDir} /\ Call.dir \in Good \cup {NoNode}
  BY <1>1, <1>2 DEF DirsInside
<1>5. Call.dir # NoNode => Last(leak) < rmfd
  BY <1>1, <1>2 DEF FdsSpare
<1>6. /\ Call.dir # NoNode <=> Call.at = "read"
      /\ Len(calls) = 1 => ~Call.new /\ Call.base \in Range(RmArgs)
  BY <1>2, <1>3 DEF CallNests
<1> QED
  BY <1>2, <1>3, <1>4, <1>5, <1>6 DEF CallInside

LEMMA InitInv == RmInit => RmInv
<1> SUFFICES ASSUME RmInit PROVE RmInv
  OBVIOUS
<1>1. loc = Place /\ calls = <<>> /\ cwd = <<TopDir>> /\ leak = <<0>> /\ rmarg = 0
      /\ rminter \in BOOLEAN /\ rmfd \in Fds /\ rmerr = FALSE
  BY DEF RmInit, RmBegin
<1>2. calls \in Seq(CallRecord) /\ DOMAIN calls = {}
  BY <1>1
<1>3. cwd \in Seq(DirNode) /\ Len(cwd) = 1 /\ DOMAIN cwd = {1} /\ cwd[1] = TopDir
  BY <1>1, RmAssumption
<1>4. leak \in Seq(Nat) /\ Len(leak) = 1 /\ DOMAIN leak = {1} /\ leak[1] = 0
  BY <1>1
<1>5. RmStates
  <2>1. Place \in [Node -> (DirNode \X BaseName) \cup {Gone, Place[TopDir]}]
    BY RmAssumption
  <2>2. 0 \in 0..Len(RmArgs) /\ 1 \in 1..MaxProc
    BY RmAssumption, LenProperties
  <2> QED
    BY <1>1, <1>2, <1>3, <1>4, <2>1, <2>2 DEF RmStates
<1>6. CallsNest /\ DirsInside
  BY <1>1, <1>2, <1>3 DEF CallsNest, DirsInside
<1>7. FdsSpare
  <2>1. rmfd \in Nat
    BY <1>1, RmAssumption
  <2> QED
    BY <1>2, <1>4, <2>1 DEF FdsSpare
<1> QED
  BY <1>1, <1>5, <1>6, <1>7 DEF RmInv, Unmoved

LEMMA NextOperandInv ==
    ASSUME RmInv, NextOperand
    PROVE  RmInv'
<1>1. RmStates /\ DirsInside /\ CallsNest /\ calls = <<>>
  BY DEF RmInv, NextOperand
<1>2. rmarg' = rmarg + 1 /\ rmarg' \in 1..Len(RmArgs)
  BY <1>1, RmAssumption, LenProperties DEF NextOperand, RmStates
<1>3. RmArgs[rmarg'] \in BaseName /\ RmArgs[rmarg'] \in Range(RmArgs)
  BY <1>2, RmAssumption, ElementOfSeq, LenProperties DEF Range
<1> DEFINE c == NewCall(RmArgs[rmarg'], FALSE, 1)
<1>4. c \in CallRecord /\ c.dir = NoNode /\ c.at = "lstat" /\ ~c.new /\ c.proc = 1
      /\ c.base = RmArgs[rmarg']
  BY <1>3 DEF NewCall, CallRecord
<1>5. calls' = <<c>> /\ UNCHANGED <<loc, cwd, leak, rminter, rmfd, rmerr>>
  BY DEF NextOperand, processes, rmOptions
<1> HIDE DEF c
<1>6. calls' \in Seq(CallRecord) /\ Len(calls') = 1 /\ DOMAIN calls' = {1}
      /\ calls'[1] = c /\ calls' # <<>>
  BY <1>4, <1>5
<1>7. Len(cwd) = 1 /\ cwd[1] = TopDir
  BY <1>1 DEF CallsNest, DirsInside
<1>8. RmStates'
  BY <1>1, <1>2, <1>5, <1>6 DEF RmStates
<1>9. CallsNest'
  <2>1. CallNests(1)'
    BY <1>3, <1>4, <1>5, <1>6, <1>7 DEF CallNests
  <2> QED
    BY <1>4, <1>5, <1>6, <1>7, <2>1 DEF CallsNest
<1>10. DirsInside'
  <2>1. CallInside(1)'
    BY <1>3, <1>4, <1>5, <1>6, <1>7 DEF CallInside
  <2> QED
    BY <1>1, <1>4, <1>5, <1>6, <2>1 DEF DirsInside
<1>11. FdsSpare'
  BY <1>4, <1>5, <1>6 DEF RmInv, FdsSpare
<1> QED
  BY <1>5, <1>8, <1>9, <1>10, <1>11 DEF RmInv, Unmoved

\* What is left to show when the calls, the current directories and the
\* descriptors are in order.
LEMMA StepInv ==
    ASSUME RmInv,
           calls' \in Seq(CallRecord),
           cwd' \in Seq(DirNode), leak' \in Seq(Nat),
           Len(leak') = Len(cwd'), Len(cwd') \in 1..MaxProc,
           CallsNest', DirsInside', FdsSpare', Unmoved',
           loc' \in [Node -> (DirNode \X BaseName) \cup {Gone, Place[TopDir]}],
           rmerr' \in BOOLEAN,
           UNCHANGED <<rmarg, rminter, rmfd>>
    PROVE  RmInv'
BY DEF RmInv, RmStates

LEMMA ReturnInv ==
    ASSUME RmInv, calls # <<>>, Call.dir = NoNode \/ Call.new, RmReturn,
           (loc' = loc /\ rmerr' \in BOOLEAN) \/ RmFile(Call),
           UNCHANGED <<rmarg, rminter, rmfd>>
    PROVE  RmInv'
<1>1. /\ calls' \in Seq(CallRecord)
      /\ cwd' \in Seq(DirNode) /\ leak' \in Seq(Nat)
      /\ Len(leak') = Len(cwd') /\ Len(cwd') \in 1..MaxProc
  BY Returned DEF RmInv
<1>2. CallsNest' /\ DirsInside' /\ FdsSpare'
  BY ReturnKeeps
<1>3. /\ loc' \in [Node -> (DirNode \X BaseName) \cup {Gone, Place[TopDir]}]
      /\ rmerr' \in BOOLEAN /\ Unmoved'
  <2>1. CASE loc' = loc /\ rmerr' \in BOOLEAN
    BY <2>1 DEF RmInv, RmStates, Unmoved
  <2>2. CASE RmFile(Call)
    BY <2>2, RmFileKeeps
  <2> QED
    BY <2>1, <2>2
<1> QED
  BY <1>1, <1>2, <1>3, StepInv

\* Only what is done to the last call is new, in the directory d.
LEMMA TopInv ==
    ASSUME RmInv, calls # <<>>, NEW f \in CallRecord, NEW d \in Good \cup {TopDir},
           calls' = RmTop(f), cwd' = [cwd EXCEPT ![Len(cwd)] = d],
           f.base = Call.base, f.new = Call.new, f.proc = Call.proc,
           f.dir \in Good \cup {NoNode}, f.dir # NoNode <=> f.at = "read",
           f.dir # NoNode => d = f.dir /\ Last(leak) < rmfd,
           f.dir = NoNode /\ Len(calls) = 1 => d = TopDir,
           f.dir = NoNode /\ Len(calls) > 1 /\ ~Call.new => d = calls[Len(calls) - 1].dir,
           d = TopDir => Call.base \in Range(RmArgs),
           UNCHANGED <<loc, leak, rmarg, rminter, rmfd, rmerr>>
    PROVE  RmInv'
<1>1. leak' = leak /\ rmfd' = rmfd
  OBVIOUS
<1>2. /\ calls' \in Seq(CallRecord)
      /\ cwd' \in Seq(DirNode) /\ leak' \in Seq(Nat)
      /\ Len(leak') = Len(cwd') /\ Len(cwd') \in 1..MaxProc
      /\ CallsNest' /\ DirsInside' /\ FdsSpare'
  BY <1>1, TopKeeps
<1>3. /\ loc' \in [Node -> (DirNode \X BaseName) \cup {Gone, Place[TopDir]}]
      /\ rmerr' \in BOOLEAN /\ Unmoved'
  BY DEF RmInv, RmStates, Unmoved
<1> QED
  BY <1>2, <1>3, StepInv

\* The next thing to do in the directory that rm() is in.
LEMMA GoesOnInv ==
    ASSUME RmInv, calls # <<>>, Call.dir = NoNode,
           NEW kind \in {"none", "dir", "file"}, NEW at \in {"lstat", "open", "remove"},
           calls' = RmTop([Call EXCEPT !.kind = kind, !.at = at]),
           UNCHANGED <<loc, cwd, leak, rmarg, rminter, rmfd, rmerr>>
    PROVE  RmInv'
<1>1. PICK f : f = [Call EXCEPT !.kind = kind, !.at = at]
  OBVIOUS
<1>2. /\ f \in CallRecord /\ f.dir = NoNode /\ f.at # "read"
      /\ f.base = Call.base /\ f.new = Call.new /\ f.proc = Call.proc
  <2>1. Call \in CallRecord
    BY AtTheTop
  <2> QED
    BY <1>1, <2>1 DEF CallRecord
<1>3. /\ Here \in Good \cup {TopDir}
      /\ Len(calls) = 1 => Here = TopDir
      /\ Len(calls) > 1 /\ ~Call.new => Here = calls[Len(calls) - 1].dir
      /\ Here = TopDir => Call.base \in Range(RmArgs)
      /\ Here = cwd[Len(cwd)]
  BY AtTheTop
<1>4. cwd' = [cwd EXCEPT ![Len(cwd)] = Here]
  BY <1>3, LenProperties DEF RmInv, RmStates
<1> QED
  BY <1>1, <1>2, <1>3, <1>4, TopInv

LEMMA LstatInv ==
    ASSUME RmInv, Lstat
    PROVE  RmInv'
<1>1. calls # <<>> /\ Call.at = "lstat"
  BY DEF Lstat, In
<1>2. Call.dir = NoNode
  BY <1>1, AtTheTop
<1>3. UNCHANGED <<rmarg, rminter, rmfd, loc>>
  BY DEF Lstat, rmOptions
<1>4. CASE RmReturn /\ rmerr' \in {TRUE, rmerr}
  <2>1. rmerr' \in BOOLEAN
    BY <1>4 DEF RmInv, RmStates
  <2> QED
    BY <1>1, <1>2, <1>3, <1>4, <2>1, ReturnInv
<1>5. CASE /\ calls' = RmTop([Call EXCEPT !.kind = "dir", !.at = "open"])
           /\ UNCHANGED <<processes, rmerr>>
  BY <1>1, <1>2, <1>3, <1>5, GoesOnInv DEF processes
<1>6. CASE /\ calls' = RmTop([Call EXCEPT !.kind = "file", !.at = "remove"])
           /\ UNCHANGED <<processes, rmerr>>
  BY <1>1, <1>2, <1>3, <1>6, GoesOnInv DEF processes
<1> QED
  BY <1>4, <1>5, <1>6 DEF Lstat

\* A directory that has been found is inside, and there was a descriptor for it.
LEMMA OpenDirectoryInv ==
    ASSUME RmInv, OpenDirectory
    PROVE  RmInv'
<1>1. calls # <<>> /\ Call.at = "open" /\ Call.dir = NoNode /\ Call \in CallRecord
  BY AtTheTop DEF OpenDirectory, In
<1>2. PICK d : d = At(Here, Call.base)
  OBVIOUS
<1>3. d \in Good /\ d # NoNode
  <2>1. d \in DirNode /\ d # NoNode
    BY <1>2, RmAssumption DEF OpenDirectory
  <2>2. d \in Node \ (Outside \cup {TopDir})
    BY <1>1, <1>2, <2>1, NamesAreInside
  <2> QED
    BY <2>1, <2>2 DEF Good, Outside
<1>4. Last(leak) < rmfd
  <2>1. OpenDirs \in Nat
    <3>1. DOMAIN calls = 1..Len(calls) /\ Len(calls) \in Nat
      BY <1>1, LastCall DEF RmInv
    <3>2. IsFiniteSet(1..Len(calls))
      BY <3>1, FS_Interval
    <3>3. IsFiniteSet({k \in DOMAIN calls :
                            calls[k].proc = Len(cwd) /\ calls[k].dir # NoNode})
      BY <3>1, <3>2, FS_Subset
    <3> QED
      BY <3>3, FS_CardinalityType DEF OpenDirs
  <2>2. Last(leak) \in Nat /\ rmfd \in Nat
    <3>1. Len(cwd) \in 1..Len(leak) /\ Last(leak) = leak[Len(cwd)]
      <4>1. MaxProc \in Nat
        BY RmAssumption
      <4> QED
        BY <1>1, <4>1, LastCall DEF RmInv, RmStates
    <3> QED
      BY <3>1, ElementOfSeq, RmAssumption DEF RmInv, RmStates
  <2>3. ~(Last(leak) + OpenDirs >= rmfd)
    BY DEF OpenDirectory, NoMoreFds
  <2> QED
    BY <2>1, <2>2, <2>3
<1>5. Entries(d) \subseteq BaseName
  BY DEF Entries
<1>6. PICK f : f = [Call EXCEPT !.dir = d, !.had = Entries(d), !.at = "read"]
  OBVIOUS
<1>7. /\ f \in CallRecord /\ f.dir = d /\ f.at = "read"
      /\ f.base = Call.base /\ f.new = Call.new /\ f.proc = Call.proc
  <2>1. d \in DirNode
    BY <1>3 DEF Good
  <2> QED
    BY <1>1, <1>5, <1>6, <2>1 DEF CallRecord
<1>8. /\ calls' = RmTop(f) /\ cwd' = [cwd EXCEPT ![Len(cwd)] = d]
      /\ UNCHANGED <<loc, leak, rmarg, rminter, rmfd, rmerr>>
  BY <1>2, <1>6 DEF OpenDirectory, Enter, rmOptions
<1>9. d \in Good \cup {TopDir} /\ d # TopDir
  BY <1>3 DEF Good
<1> QED
  BY <1>1, <1>3, <1>4, <1>7, <1>8, <1>9, TopInv

\* A new process has the descriptor of the directory before its own too.
LEMMA ForkInv ==
    ASSUME RmInv, Fork
    PROVE  RmInv'
<1>1. calls # <<>> /\ Call.at = "open" /\ Call.dir = NoNode /\ Call \in CallRecord
  BY AtTheTop DEF Fork, In
<1>2. RmStates /\ CallsNest /\ FdsSpare
  BY DEF RmInv
<1>3. /\ Len(calls) \in Nat \ {0} /\ DOMAIN calls = 1..Len(calls)
      /\ DOMAIN leak = 1..Len(cwd) /\ Last(leak) = leak[Len(cwd)]
  BY <1>1, <1>2, LastCall
<1>4. Len(cwd) \in 1..Len(leak) /\ Len(cwd) \in Nat
  <2>1. MaxProc \in Nat
    BY RmAssumption
  <2> QED
    BY <1>2, <2>1 DEF RmStates
<1>5. Last(leak) \in Nat /\ rmfd \in Nat /\ Last(leak) <= rmfd
  <2>1. leak \in Seq(Nat) /\ rmfd \in Nat
    BY <1>2, RmAssumption DEF RmStates
  <2>2. leak[Len(cwd)] \in Nat
    BY <1>4, <2>1, ElementOfSeq
  <2>3. Len(cwd) \in DOMAIN leak
    BY <1>4, <2>1, LenProperties
  <2> QED
    BY <1>2, <1>3, <2>1, <2>2, <2>3 DEF FdsSpare
<1>6. ProcLevel > 0 => Last(leak) < rmfd
  <2> DEFINE mine == {k \in DOMAIN calls : calls[k].proc = Len(cwd)}
  <2>1. SUFFICES ASSUME ~(Last(leak) < rmfd) PROVE ~(ProcLevel > 0)
    OBVIOUS
  <2>2. Call.new \/ Len(calls) = 1
    <3>1. SUFFICES ASSUME ~Call.new, Len(calls) # 1 PROVE FALSE
      OBVIOUS
    <3>2. /\ Len(calls) - 1 \in 1..Len(calls) /\ calls[Len(calls) - 1].proc = Len(cwd)
          /\ calls[Len(calls) - 1].dir # NoNode
      BY <1>1, <1>2, <3>1, OldProcess
    <3> QED
      BY <1>2, <1>3, <2>1, <3>2 DEF FdsSpare
  <2>3. mine \subseteq {Len(calls)}
    <3>1. CASE Len(calls) = 1
      BY <1>3, <3>1
    <3>2. CASE Call.new
      <4>1. \A k \in 1..Len(calls) - 1 : calls[k].proc \in 1..Len(cwd) - 1
        BY <1>1, <1>2, <3>2, NewProcess
      <4>2. \A p \in 1..Len(cwd) - 1 : p # Len(cwd)
        BY <1>4
      <4>3. \A k \in 1..Len(calls) : k \in 1..Len(calls) - 1 \/ k = Len(calls)
        <5>1. Len(calls) \in Nat
          BY <1>3
        <5> QED
          BY <5>1
      <4> QED
        BY <1>3, <4>1, <4>2, <4>3
    <3> QED
      BY <2>2, <3>1, <3>2
  <2>4. Cardinality(mine) <= 1 /\ Cardinality(mine) \in Nat
    <3>1. IsFiniteSet({Len(calls)}) /\ Cardinality({Len(calls)}) = 1
      BY FS_Singleton
    <3>2. IsFiniteSet(mine) /\ Cardinality(mine) <= Cardinality({Len(calls)})
      BY <2>3, <3>1, FS_Subset
    <3> QED
      BY <3>1, <3>2, FS_CardinalityType
  <2>5. ProcLevel = Cardinality(mine) - 1
    BY DEF ProcLevel
  <2> HIDE DEF mine
  <2> QED
    BY <2>4, <2>5
<1>7. PICK l \in 0..rmfd : leak' = Append(leak, l)
  <2>1. Last(leak) + (IF ProcLevel > 0 THEN 1 ELSE 0) \in 0..rmfd
    BY <1>5, <1>6
  <2> QED
    BY <2>1 DEF Fork
<1>8. PICK f : f = [Call EXCEPT !.at = "remove"]
  OBVIOUS
<1>9. /\ f \in CallRecord /\ f.dir = Call.dir /\ f.at = "remove"
      /\ f.base = Call.base /\ f.new = Call.new /\ f.proc = Call.proc
  BY <1>1, <1>8 DEF CallRecord
<1>10. PICK c : c = NewCall(Call.base, TRUE, Len(cwd) + 1)
  OBVIOUS
<1>11. /\ c \in CallRecord /\ c.dir = NoNode /\ c.at = "lstat" /\ c.new
       /\ c.base = f.base /\ c.proc = Len(cwd) + 1
  BY <1>1, <1>4, <1>9, <1>10 DEF NewCall, CallRecord
<1>12. /\ calls' = Append(RmTop(f), c) /\ cwd' = Append(cwd, Here) /\ Len(cwd) < MaxProc
       /\ UNCHANGED <<loc, rmarg, rminter, rmfd, rmerr>>
  BY <1>8, <1>10 DEF Fork, rmOptions
<1>13. /\ calls' \in Seq(CallRecord)
       /\ cwd' \in Seq(DirNode) /\ leak' \in Seq(Nat)
       /\ Len(leak') = Len(cwd') /\ Len(cwd') \in 1..MaxProc
       /\ CallsNest' /\ DirsInside' /\ FdsSpare'
  BY <1>1, <1>7, <1>9, <1>11, <1>12, PushKeeps
<1>14. /\ loc' \in [Node -> (DirNode \X BaseName) \cup {Gone, Place[TopDir]}]
       /\ rmerr' \in BOOLEAN /\ Unmoved'
  BY <1>12 DEF RmInv, RmStates, Unmoved
<1> QED
  BY <1>12, <1>13, <1>14, StepInv

LEMMA NextEntryInv ==
    ASSUME RmInv, NextEntry
    PROVE  RmInv'
<1>1. calls # <<>> /\ Call.at = "read" /\ Call.dir # NoNode /\ Call \in CallRecord
  BY AtTheTop DEF NextEntry, In
<1>2. PICK b \in Entries(Call.dir) \ Call.seen :
        calls' = Append(RmTop([Call EXCEPT !.seen = @ \cup {b}]), NewCall(b, FALSE, Len(cwd)))
  BY DEF NextEntry
<1>3. b \in BaseName
  BY DEF Entries
<1>4. PICK f : f = [Call EXCEPT !.seen = @ \cup {b}]
  OBVIOUS
<1>5. /\ f \in CallRecord /\ f.dir = Call.dir /\ f.at = "read"
      /\ f.base = Call.base /\ f.new = Call.new /\ f.proc = Call.proc
  BY <1>1, <1>3, <1>4 DEF CallRecord
<1>6. PICK c : c = NewCall(b, FALSE, Len(cwd))
  OBVIOUS
<1>7. c \in CallRecord /\ c.dir = NoNode /\ c.at = "lstat" /\ ~c.new /\ c.proc = Len(cwd)
  <2>1. Len(cwd) \in Nat
    BY LenProperties DEF RmInv, RmStates
  <2> QED
    BY <1>3, <1>6, <2>1 DEF NewCall, CallRecord
<1>8. /\ calls' = Append(RmTop(f), c)
      /\ UNCHANGED <<loc, cwd, leak, rmarg, rminter, rmfd, rmerr>>
  BY <1>2, <1>4, <1>6 DEF NextEntry, processes, rmOptions
<1>9. /\ calls' \in Seq(CallRecord)
      /\ cwd' \in Seq(DirNode) /\ leak' \in Seq(Nat)
      /\ Len(leak') = Len(cwd') /\ Len(cwd') \in 1..MaxProc
      /\ CallsNest' /\ DirsInside' /\ FdsSpare'
  BY <1>1, <1>5, <1>7, <1>8, PushKeeps
<1>10. /\ loc' \in [Node -> (DirNode \X BaseName) \cup {Gone, Place[TopDir]}]
       /\ rmerr' \in BOOLEAN /\ Unmoved'
  BY <1>8 DEF RmInv, RmStates, Unmoved
<1> QED
  BY <1>8, <1>9, <1>10, StepInv

\* The way back is to the directory that the call above has open.
LEMMA BackInv ==
    ASSUME RmInv, Back
    PROVE  RmInv'
<1>1. calls # <<>> /\ Call.at = "read" /\ Call.dir # NoNode /\ Call \in CallRecord
  BY AtTheTop DEF Back, LastEntry, In
<1>2. UNCHANGED <<loc, rmarg, rminter, rmfd, rmerr>>
  BY DEF Back, rmOptions
<1>3. CASE Call.new
  <2>1. RmReturn
    BY <1>3 DEF Back
  <2>2. loc' = loc /\ rmerr' \in BOOLEAN
    BY <1>2 DEF RmInv, RmStates
  <2> QED
    BY <1>1, <1>2, <1>3, <2>1, <2>2, ReturnInv
<1>4. CASE ~Call.new
  <2>1. PICK d : d = OldDir
    OBVIOUS
  <2>2. /\ d \in Good \cup {TopDir}
        /\ Len(calls) = 1 => d = TopDir
        /\ Len(calls) > 1 => d = calls[Len(calls) - 1].dir
        /\ d = TopDir => Call.base \in Range(RmArgs)
    <3>1. CASE Len(calls) = 1
      BY <1>1, <2>1, <3>1, AtTheTop DEF OldDir
    <3>2. CASE Len(calls) # 1
      <4>1. d = calls[Len(calls) - 1].dir
        BY <1>4, <2>1, <3>2 DEF OldDir
      <4>2. Len(calls) - 1 \in DOMAIN calls /\ calls[Len(calls) - 1].dir # NoNode
        BY <1>1, <1>4, <3>2, OldProcess, LastCall DEF RmInv
      <4>3. d \in Good
        BY <4>1, <4>2 DEF RmInv, DirsInside
      <4> QED
        BY <3>2, <4>1, <4>3 DEF Good
    <3> QED
      BY <3>1, <3>2
  <2>3. PICK f : f = [Call EXCEPT !.dir = NoNode, !.at = "remove"]
    OBVIOUS
  <2>4. /\ f \in CallRecord /\ f.dir = NoNode /\ f.at = "remove"
        /\ f.base = Call.base /\ f.new = Call.new /\ f.proc = Call.proc
    BY <1>1, <2>3 DEF CallRecord
  <2>5. /\ calls' = RmTop(f) /\ cwd' = [cwd EXCEPT ![Len(cwd)] = d]
        /\ UNCHANGED <<loc, leak, rmarg, rminter, rmfd, rmerr>>
    BY <1>2, <1>4, <2>1, <2>3 DEF Back
  <2> QED
    BY <1>1, <2>2, <2>4, <2>5, TopInv
<1> QED
  BY <1>3, <1>4

LEMMA RemovalInv ==
    ASSUME RmInv, NotADirectory \/ ForkFails \/ Unlink
    PROVE  RmInv'
<1>1. /\ calls # <<>> /\ Call.at \in {"open", "remove"} /\ RmFile(Call) /\ RmReturn
      /\ UNCHANGED <<rmarg, rminter, rmfd>>
  BY DEF NotADirectory, ForkFails, Unlink, In, rmOptions
<1>2. Call.dir = NoNode
  BY <1>1, AtTheTop
<1> QED
  BY <1>1, <1>2, ReturnInv

\* What somebody moves is inside; where it goes does not matter.
LEMMA SomebodyMovesInv ==
    ASSUME RmInv, SomebodyMoves
    PROVE  RmInv'
<1>1. PICK n \in Movable, d \in DirNode, b \in BaseName : loc' = [loc EXCEPT ![n] = <<d, b>>]
  BY DEF SomebodyMoves
<1>2. n \notin Outside \cup {TopDir}
  BY RmAssumption DEF Outside
<1>3. n \in Node /\ Outside \cup {TopDir} \subseteq Node
  BY RmAssumption DEF Outside
<1>4. UNCHANGED <<calls, cwd, leak, rmarg, rminter, rmfd, rmerr>>
  BY DEF SomebodyMoves, processes, rmOptions
<1>5. /\ loc' \in [Node -> (DirNode \X BaseName) \cup {Gone, Place[TopDir]}]
      /\ Unmoved'
  BY <1>1, <1>2, <1>3 DEF RmInv, RmStates, Unmoved
<1>6. CallsNest' /\ DirsInside' /\ FdsSpare'
  BY <1>4 DEF RmInv, CallsNest, CallNests, DirsInside, CallInside, Deepest, FdsSpare
<1>7. RmStates'
  BY <1>4, <1>5 DEF RmInv, RmStates
<1> QED
  BY <1>5, <1>6, <1>7 DEF RmInv

LEMMA NextInv ==
    ASSUME RmInv, [RmNext]_rmVars
    PROVE  RmInv'
<1>1. CASE RmStep
  BY <1>1, NextOperandInv, LstatInv, OpenDirectoryInv, ForkInv, NextEntryInv, BackInv,
     RemovalInv DEF RmStep
<1>2. CASE SomebodyMoves
  BY <1>2, SomebodyMovesInv
<1>3. CASE UNCHANGED rmVars
  <2>1. UNCHANGED <<loc, calls, cwd, leak, rmarg, rminter, rmfd, rmerr>>
    BY <1>3 DEF rmVars
  <2>2. CallsNest' /\ DirsInside' /\ FdsSpare'
    BY <2>1 DEF RmInv, CallsNest, CallNests, DirsInside, CallInside, Deepest, FdsSpare
  <2> QED
    BY <2>1, <2>2 DEF RmInv, RmStates, Unmoved
<1> QED
  BY <1>1, <1>2, <1>3 DEF RmNext

-----------------------------------------------------------------------------
(* The theorems *)

\* The inductive invariant: it holds in every state that rm can be in.
THEOREM RmInvariant == RmSpec => []RmInv
BY InitInv, NextInv, PTL DEF RmSpec

\* rm -r removes nothing that was not in the tree, whatever somebody moves where
\* while it runs, and however few descriptors and processes it has.
THEOREM StaysInside == RmSpec => []RmStaysInside
<1>1. RmInv => RmStaysInside
  BY DEF RmInv, Unmoved, RmStaysInside
<1> QED
  BY <1>1, RmInvariant, PTL

\* The states of rm are well formed: the descriptors that a process has from the
\* one before are never more than it may have.
THEOREM WellFormed == RmSpec => []RmTypeOK
<1>1. RmInv => RmTypeOK
  <2> SUFFICES ASSUME RmInv PROVE RmTypeOK
    OBVIOUS
  <2>1. ASSUME NEW k \in DOMAIN calls
        PROVE  /\ calls[k].base \in BaseName
               /\ calls[k].dir \in DirNode \cup {NoNode}
               /\ calls[k].proc \in DOMAIN cwd
    <3>1. calls[k] \in CallRecord
      BY ElementOfSeq, LenProperties DEF RmInv, RmStates
    <3>2. DOMAIN cwd = 1..Len(cwd)
      BY LenProperties DEF RmInv, RmStates
    <3>3. calls[k].proc \in 1..Len(cwd)
      BY DEF RmInv, CallsNest, CallNests
    <3> QED
      BY <3>1, <3>2, <3>3 DEF CallRecord
  <2>2. ASSUME NEW p \in DOMAIN leak
        PROVE  leak[p] \in 0..rmfd
    <3>1. leak[p] \in Nat /\ rmfd \in Nat
      BY ElementOfSeq, LenProperties, RmAssumption DEF RmInv, RmStates
    <3>2. leak[p] <= rmfd
      BY DEF RmInv, FdsSpare
    <3> QED
      BY <3>1, <3>2
  <2> QED
    BY <2>1, <2>2 DEF RmInv, RmStates, RmTypeOK
<1> QED
  BY <1>1, RmInvariant, PTL
=============================================================================
