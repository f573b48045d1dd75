----------------------------- MODULE Mail_proofs -----------------------------
(***************************************************************************)
(* What Mail promises for every number of deliveries, of letters there are *)
(* at the start, of tries and of sessions, whoever is killed at whatever   *)
(* point:                                                                  *)
(*                                                                         *)
(*   MailTyped            files, names, the table of letters: well formed  *)
(*   MailboxRead          what is read is the mailbox                      *)
(*   MailKept             no letter is lost                                *)
(*   PutBackFirst         the save file is put back before mail is read    *)
(*   FailedLeavesNothing  a delivery that fails leaves no part of a letter *)
(*   NothingTorn          nothing but whole letters is in the mailbox      *)
(*   PromiseKept          Mail implements Mailbox                          *)
(*                                                                         *)
(* For the second to the fourth and for PromiseKept the owner runs one     *)
(* session at a time, and for MailKept, PutBackFirst and PromiseKept the   *)
(* calls that cksaved() and copyback() do not check, or have no answer to, *)
(* succeed, for PromiseKept also the removal of the save file; for         *)
(* NothingTorn only the copy in cksaved().  They speak of the mailbox as   *)
(* long as it is Sound, and of a session as long as no interrupt has left  *)
(* the table of letters half made.  The invariants say for each label what *)
(* the process there has open and which file holds which letters.          *)
(***************************************************************************)
EXTENDS Mail, SequenceLemmas, FiniteSetTheorems

\* The owner has one terminal.
OneReader == \A r, s \in Reader : r = s

\* What is not reported when the save file is put back, rename(), which leaves two
\* files that cksaved() does not tell apart, and the second name for a save file.
SureCalls == {"copystream", "rename", "fopen"} \cap Fails = {}

\* Nor is a save file left that mail would be put back from twice.
SureFiles == SureCalls /\ {"unlink", "savefile"} \cap Fails = {}

-----------------------------------------------------------------------------
(* The invariant *)

DelivererLabel == {"idle", "find", "lock", "lstat", "open", "fail", "from", "rest",
                   "unlock", "flush", "done"}
ReaderLabel == {"idle", "saved?", "cksave", "restore", "append", "remove", "restored",
                "stat", "fopen", "load", "copyin", "loaded", "prompt", "reload",
                "copymore", "reloaded", "command", "rewrite", "newmail", "opensave",
                "copyout", "rename", "empty", "copied", "done"}

\* Between lock() and unlock().
Held == {"lstat", "open", "fail", "from", "rest",
         "restore", "append", "remove", "restored", "copyin", "loaded", "copymore",
         "reloaded", "newmail", "opensave", "copyout", "rename", "empty", "copied"}

\* Before the mailbox has been copied.
Fresh == {"saved?", "cksave", "restore", "append", "remove", "restored", "stat", "fopen",
          "load", "copyin"}

\* A file has one name.
StoreTyped ==
    /\ data \in [Ino -> Seq(Block)]
    /\ dir \in [Name -> Ino \cup {NoFile}]
    /\ \A n, m \in Name : dir[n] = dir[m] /\ dir[n] # NoFile => n = m
    /\ runs \in [Proc -> 0..MaxReads + MaxTries]
    /\ fd \in [Proc -> Ino \cup {NoFile}]
    /\ accepted \in Seq(Letter) /\ purged \subseteq Letter
    /\ crowd \in BOOLEAN /\ killed \in BOOLEAN /\ cut \in BOOLEAN

DeliverTyped ==
    /\ status \in [Deliverer -> {"queued", "sent", "failed"}]
    /\ pos \in [Deliverer -> Nat]
    /\ seen \in [Deliverer -> Ino \cup {NoFile}]
    /\ errno \in [Deliverer -> BOOLEAN]

ReaderTyped ==
    /\ tmp \in [Reader -> Seq(Block)] /\ let \in [Reader -> Seq(Nat)]
    /\ del \in [Reader -> SUBSET Nat]
    /\ size \in [Reader -> Nat] /\ newsize \in [Reader -> Nat] /\ at \in [Reader -> Nat]
    /\ ofd \in [Reader -> Ino \cup {NoFile}] /\ sname \in [Reader -> {"save", "alt"}]

\* Who is in the mailbox has been given the lock, and what is open is a file.
AtTyped ==
    /\ pc \in [Proc -> DelivererLabel \cup ReaderLabel]
    /\ \A d \in Deliverer :
        /\ pc[d] \in DelivererLabel
        /\ pc[d] \in {"from", "rest", "flush"} => fd[d] \in Ino
    /\ \A r \in Reader :
        /\ pc[r] \in ReaderLabel
        /\ pc[r] \in {"load", "copyin", "append"} => fd[r] \in Ino
        /\ pc[r] \in {"append", "copyout"} => ofd[r] \in Ino
    /\ \A p \in Proc : pc[p] \in Held => locked[p]

\* Between the first copy of the mailbox and the last look at it.
Reading0 == {"loaded", "prompt", "reload", "copymore", "reloaded", "command", "rewrite",
             "newmail"}

\* A temporary file t and the table l of its letters: where they begin, and the
\* end; the letters d are deleted.
TableOK(t, l, d) ==
    /\ t \in Seq(Block) /\ l \in Seq(Nat) /\ l # <<>>
    /\ d \subseteq 1..Len(l) - 1 /\ Len(l) - 1 <= MaxLet
    /\ \A i \in 1..Len(l) : l[i] <= Len(t)

TablesTyped ==
    \A r \in Reader :
        /\ TableOK(tmp[r], let[r], del[r])
        /\ pc[r] \in Fresh => let[r] = <<0>>
        /\ pc[r] \in Reading0 /\ ~cut => End(r) = Len(tmp[r])

TypeInv ==
    /\ MboxLockTypeOK /\ StoreTyped /\ DeliverTyped /\ ReaderTyped
    /\ AtTyped /\ TablesTyped

\* Nobody is in the mailbox beside another.
Exclusive == \A p, q \in Proc : Inside(p) /\ Inside(q) => p = q

\* Every letter but what is counted for one by copyback() begins with a From line.
FromEntries(t, l) ==
    \A i \in 1..Len(l) - 1 : l[i] < Len(t) /\ IsFrom(t[l[i] + 1])

\* A delivery writes at the end of the mailbox, behind what the owner has read.
Writes(d) ==
    /\ pc[d] \in {"from", "rest", "flush"} => dir["mail"] = fd[d]
    /\ pc[d] \in {"rest", "flush"} =>
        /\ Size(fd[d]) = pos[d] + 1 /\ data[fd[d]][pos[d] + 1] = From(d)
        /\ \A r \in Reader : pc[r] \in Reading0 => Len(tmp[r]) <= pos[d]

\* The mailbox the owner has opened and the one that has been read stay in place.
ReadsOn(r) ==
    /\ pc[r] \in {"load", "copyin"} => dir["mail"] = fd[r]
    /\ pc[r] \in Reading0 =>
        /\ dir["mail"] # NoFile /\ IsPrefix(tmp[r], data[dir["mail"]])
        /\ FromEntries(tmp[r], let[r])

Apart ==
    /\ Exclusive
    /\ \A d \in Deliverer : Writes(d)
    /\ \A r \in Reader : ReadsOn(r)

ReadInv == TypeInv /\ (Orderly => Apart)

\* What has a name, and what was accepted and not deleted is in S.
Holds(n) == IF dir[n] = NoFile THEN {} ELSE Whole(data[dir[n]])
In(S) == ToSet(accepted) \subseteq purged \cup S

\* From here to the end of copyback() the letters are in the mailbox, and what was
\* saved is not wanted any more.
PutBack == {"restored", "stat", "fopen", "load", "copyin", "opensave"} \cup Reading0

\* The first n blocks of t are the last of s.
EndsWith(s, t, n) ==
    n <= Len(s) /\ n <= Len(t) /\ \A k \in 1..n : s[Len(s) - n + k] = t[k]

\* What the save file and the mailbox hold at each point of a session.
Copies(r) ==
    /\ pc[r] \in {"saved?", "cksave", "restore"} => at[r] = 0
    /\ pc[r] = "append" =>
        /\ dir["save"] = fd[r] /\ dir["mail"] = ofd[r]
        /\ EndsWith(data[ofd[r]], data[fd[r]], at[r])
    /\ pc[r] = "remove" => Holds("save") \subseteq Holds("mail")
    /\ pc[r] \in {"opensave", "copyout"} =>
        dir["mail"] # NoFile /\ tmp[r] = data[dir["mail"]]
    /\ pc[r] = "copyout" =>
        /\ dir["save"] = ofd[r] /\ sname[r] = "save"
        /\ Size(ofd[r]) = at[r] /\ IsPrefix(data[ofd[r]], Kept(r))
    /\ pc[r] = "rename" =>
        /\ dir["mail"] = NoFile /\ sname[r] = "save"
        /\ dir["save"] # NoFile => Size(dir["save"]) = at[r]
    /\ pc[r] = "empty" => dir["mail"] # NoFile /\ Size(dir["mail"]) = 0
    /\ pc[r] \in PutBack \cup {"copyout", "empty", "copied"} => In(Holds("mail"))
    /\ "unlink" \notin Fails /\ pc[r] \in PutBack =>
        (dir["save"] = NoFile \/ Size(dir["save"]) = 0)

SafeInv ==
    /\ ReadInv
    /\ Orderly => (\A r \in Reader : Copies(r)) /\ In(Holds("mail") \cup Holds("save"))

-----------------------------------------------------------------------------
(* The steps *)

DeliveryStep(d) ==
    /\ StartDelivery(d) \/ SendMbox(d) \/ ExitFlush(d) \/ KillDelivery(d)
    /\ UNCHANGED readervars

ReadingStep(r) ==
    /\ StartReading(r) \/ ReadMail(r) \/ KillReading(r)
    /\ UNCHANGED delivervars

\* What a process does to the lock it does for itself.
LEMMA LockSteps ==
    ASSUME MboxLockTypeOK, NEW p \in Proc,
           \/ Ask(p) \/ Take(p) \/ Break(p) \/ Mailunlock(p) \/ Die(p) \/ Again(p)
           \/ UNCHANGED mboxlock
    PROVE  /\ MboxLockTypeOK'
           /\ \A q \in Proc \ {p} : locked'[q] = locked[q]
           /\ Take(p) => locked'[p]
           /\ Ask(p) \/ Break(p) \/ UNCHANGED mboxlock => UNCHANGED locked
  BY DEF MboxLockTypeOK, mboxlock, Ask, Take, Break, Mailunlock, Die, Again

\* A number for a new file is one that no file has.
LEMMA NewInoFacts ==
    ASSUME Unused # {}
    PROVE  NewIno \in Ino /\ NewIno \notin Linked /\ NewIno \notin Open
<1>1. PICK U : U = Unused
  OBVIOUS
<1>2. U \subseteq Nat /\ U # {}
  BY <1>1, StoreAssumption DEF Unused
<1>3. \E i \in U : \A j \in U : i <= j
  BY <1>2, LeastNumber
<1>4. NewIno \in U
  BY <1>1, <1>3 DEF NewIno
<1> QED
  BY <1>1, <1>4 DEF Unused

LEMMA Writing ==
    ASSUME data \in [Ino -> Seq(Block)], NEW i, NEW b \in Block, Append1(i, b)
    PROVE  /\ data' \in [Ino -> Seq(Block)]
           /\ i \in Ino => data'[i] = Append(data[i], b)
           /\ \A j \in Ino : j # i => data'[j] = data[j]
<1>1. i \in Ino => Append(data[i], b) \in Seq(Block)
  BY AppendFacts
<1> QED
  BY <1>1 DEF Append1

LEMMA Cutting ==
    ASSUME NEW S, NEW s \in Seq(S), NEW n \in Nat
    PROVE  /\ CutTo(s, n) \in Seq(S)
           /\ Len(CutTo(s, n)) = IF n < Len(s) THEN n ELSE Len(s)
           /\ \A k \in 1..Len(CutTo(s, n)) : CutTo(s, n)[k] = s[k]
<1>1. PICK l \in Nat : l = Len(s)
  BY LenProperties
<1>2. \A k \in 1..l : s[k] \in S
  BY <1>1, ElementOfSeq
<1>3. PICK m \in Nat : m = (IF n < l THEN n ELSE l) /\ m <= l
  OBVIOUS
<1>4. \A k \in 1..m : s[k] \in S
  BY <1>2, <1>3
<1>5. CutTo(s, n) = SubSeq(s, 1, m)
  BY <1>1, <1>3 DEF CutTo
<1>6. /\ SubSeq(s, 1, m) \in Seq(S) /\ Len(SubSeq(s, 1, m)) = IF 1 <= m THEN m - 1 + 1 ELSE 0
      /\ \A k \in 1..m - 1 + 1 : SubSeq(s, 1, m)[k] = s[1 + k - 1]
  BY <1>4, SubSeqProperties
<1>7. Len(SubSeq(s, 1, m)) = m
  BY <1>6
<1>8. \A k \in 1..m : SubSeq(s, 1, m)[k] = s[k]
  BY <1>6
<1> QED
  BY <1>1, <1>3, <1>5, <1>6, <1>7, <1>8

LEMMA WriterBlocks ==
    ASSUME NEW d \in Deliverer
    PROVE  From(d) \in Block /\ Rest(d) \in Block /\ d \in Letter /\ d \in Proc
  BY StoreAssumption DEF From, Rest, Block, Letter

LEMMA DeliveryLabels ==
    ASSUME MboxLockTypeOK, AtTyped, NEW d \in Deliverer, DeliveryStep(d)
    PROVE  /\ MboxLockTypeOK'
           /\ \A q \in Proc \ {d} : locked'[q] = locked[q] /\ pc'[q] = pc[q]
           /\ pc' \in [Proc -> DelivererLabel \cup ReaderLabel]
           /\ pc'[d] \in DelivererLabel
           /\ pc'[d] \in Held => locked'[d]
<1> USE WriterBlocks
<1>1. MboxLockTypeOK' /\ \A q \in Proc \ {d} : locked'[q] = locked[q]
  <2>1. \/ Ask(d) \/ Take(d) \/ Break(d) \/ Mailunlock(d) \/ Die(d) \/ Again(d)
        \/ UNCHANGED mboxlock
    BY DEF DeliveryStep, StartDelivery, SendMbox, FindUser, UserUnknown, LockMbox,
           LockMboxFails, LookAtMbox, CreateMbox, OpenMbox, OpenMboxFails, BailOut,
           WriteFrom, WriteRest, WriteFails, UnlockMbox, DoneDelivery, ExitFlush,
           KillDelivery, SignalDelivery, CrashDelivery, AskThen, TakeAt, Release
  <2> QED
    BY <2>1, LockSteps
<1>2. PICK l \in DelivererLabel : pc' = [pc EXCEPT ![d] = l]
    BY DEF DeliveryStep, StartDelivery, SendMbox, FindUser, UserUnknown, LockMbox,
           LockMboxFails, LookAtMbox, CreateMbox, OpenMbox, OpenMboxFails, BailOut,
           WriteFrom, WriteRest, WriteFails, UnlockMbox, DoneDelivery, ExitFlush,
           KillDelivery, SignalDelivery, CrashDelivery, AskThen, TakeAt, Goto, Exit,
           DelivererLabel
<1>3. pc \in [Proc -> DelivererLabel \cup ReaderLabel]
  BY DEF AtTyped
<1>4. pc' \in [Proc -> DelivererLabel \cup ReaderLabel] /\ pc'[d] = l
      /\ \A q \in Proc \ {d} : pc'[q] = pc[q]
  BY <1>2, <1>3
<1>5. \/ l \notin Held
      \/ Take(d)
      \/ pc[d] \in Held /\ UNCHANGED locked
  BY <1>4 DEF DeliveryStep, StartDelivery, SendMbox, FindUser, UserUnknown, LockMbox,
           LockMboxFails, LookAtMbox, CreateMbox, OpenMbox, OpenMboxFails, BailOut,
           WriteFrom, WriteRest, WriteFails, UnlockMbox, DoneDelivery, ExitFlush,
           KillDelivery, SignalDelivery, CrashDelivery, AskThen, TakeAt, Goto, Exit,
           Held, mboxlock
<1>6. l \in Held => locked'[d]
  <2>1. Take(d) => locked'[d]
    BY LockSteps
  <2> QED
    BY <1>5, <2>1 DEF AtTyped
<1> QED
  BY <1>1, <1>2, <1>4, <1>6

\* What a delivery does to the files.
LEMMA DeliveryFiles ==
    ASSUME NEW d \in Deliverer, DeliveryStep(d)
    PROVE  \/ UNCHANGED <<data, dir, accepted>>
           \/ CreateMbox(d) /\ UNCHANGED accepted
           \/ WriteFrom(d) /\ UNCHANGED <<dir, accepted>>
           \/ /\ pc[d] \in {"rest", "flush"} /\ UNCHANGED dir
              /\ Append1(fd[d], Rest(d)) /\ accepted' = Append(accepted, d)
           \/ /\ pc[d] = "rest" /\ UNCHANGED <<dir, accepted>>
              /\ data' = [data EXCEPT ![fd[d]] = CutTo(@, pos[d])]
  BY DEF DeliveryStep, StartDelivery, SendMbox, FindUser, UserUnknown, LockMbox,
           LockMboxFails, LookAtMbox, CreateMbox, OpenMbox, OpenMboxFails, BailOut,
           WriteFrom, WriteRest, WriteFails, UnlockMbox, DoneDelivery, ExitFlush,
           KillDelivery, SignalDelivery, CrashDelivery, files, history

LEMMA CreatedTyped ==
    ASSUME StoreTyped, NEW n \in Name, dir[n] = NoFile, Unused # {},
           dir' = [dir EXCEPT ![n] = NewIno], data' = [data EXCEPT ![NewIno] = <<>>]
    PROVE  /\ data' \in [Ino -> Seq(Block)] /\ dir' \in [Name -> Ino \cup {NoFile}]
           /\ \A a, b \in Name : dir'[a] = dir'[b] /\ dir'[a] # NoFile => a = b
<1>1. NewIno \in Ino /\ NewIno \notin Linked
  BY NewInoFacts
<1>2. <<>> \in Seq(Block)
  BY EmptySeq
<1>3. data' \in [Ino -> Seq(Block)]
  BY <1>2 DEF StoreTyped
<1>4. dir' \in [Name -> Ino \cup {NoFile}]
  BY <1>1 DEF StoreTyped
<1>5. \A a \in Name : dir[a] # NewIno
  BY <1>1, StoreAssumption DEF Linked
<1>6. \A a, b \in Name : dir'[a] = dir'[b] /\ dir'[a] # NoFile => a = b
  BY <1>5 DEF StoreTyped
<1> QED
  BY <1>3, <1>4, <1>6

LEMMA DeliveryTyped ==
    ASSUME TypeInv, NEW d \in Deliverer, DeliveryStep(d)
    PROVE  TypeInv'
<1> USE WriterBlocks
<1>1. StoreTyped /\ DeliverTyped /\ AtTyped /\ MboxLockTypeOK
  BY DEF TypeInv
<1>2. /\ MboxLockTypeOK'
      /\ \A q \in Proc \ {d} : locked'[q] = locked[q] /\ pc'[q] = pc[q]
      /\ pc' \in [Proc -> DelivererLabel \cup ReaderLabel]
      /\ pc'[d] \in DelivererLabel
      /\ pc'[d] \in Held => locked'[d]
  BY <1>1, DeliveryLabels
<1>3. /\ data' \in [Ino -> Seq(Block)] /\ dir' \in [Name -> Ino \cup {NoFile}]
      /\ \A n, m \in Name : dir'[n] = dir'[m] /\ dir'[n] # NoFile => n = m
      /\ accepted' \in Seq(Letter)
  <2>1. CASE UNCHANGED <<data, dir, accepted>>
    BY <1>1, <2>1 DEF StoreTyped
  <2>2. CASE CreateMbox(d) /\ UNCHANGED accepted
    <3>1. CASE dir["mail"] = NoFile
      BY <1>1, <2>2, <3>1, CreatedTyped DEF CreateMbox, StoreTyped, Name
    <3>2. CASE dir["mail"] # NoFile
      BY <1>1, <2>2, <3>2 DEF CreateMbox, StoreTyped, files
    <3> QED
      BY <3>1, <3>2
  <2>3. CASE WriteFrom(d) /\ UNCHANGED <<dir, accepted>>
    <3>1. data' \in [Ino -> Seq(Block)]
      BY <1>1, <2>3, Writing DEF WriteFrom, StoreTyped
    <3> QED
      BY <1>1, <2>3, <3>1 DEF StoreTyped
  <2>4. CASE /\ UNCHANGED dir
             /\ Append1(fd[d], Rest(d)) /\ accepted' = Append(accepted, d)
    <3>1. data' \in [Ino -> Seq(Block)]
      BY <1>1, <2>4, Writing DEF StoreTyped
    <3>2. accepted' \in Seq(Letter)
      BY <1>1, <2>4, AppendFacts DEF StoreTyped
    <3> QED
      BY <1>1, <2>4, <3>1, <3>2 DEF StoreTyped
  <2>5. CASE /\ UNCHANGED <<dir, accepted>>
             /\ data' = [data EXCEPT ![fd[d]] = CutTo(@, pos[d])]
    <3>1. data' \in [Ino -> Seq(Block)]
      <4>1. \A i \in Ino : data[i] \in Seq(Block) /\ pos[d] \in Nat
        BY <1>1 DEF StoreTyped, DeliverTyped
      <4>2. \A i \in Ino : CutTo(data[i], pos[d]) \in Seq(Block)
        BY <4>1, Cutting
      <4>3. data \in [Ino -> Seq(Block)]
        BY <1>1 DEF StoreTyped
      <4> QED
        BY <2>5, <4>2, <4>3
    <3> QED
      BY <1>1, <2>5, <3>1 DEF StoreTyped
  <2> QED
    BY <2>1, <2>2, <2>3, <2>4, <2>5, DeliveryFiles
<1>4. /\ fd' \in [Proc -> Ino \cup {NoFile}] /\ \A q \in Proc \ {d} : fd'[q] = fd[q]
      /\ pc'[d] \in {"from", "rest", "flush"} => fd'[d] \in Ino
  <2>1. \/ UNCHANGED fd /\ (pc'[d] \in {"from", "rest", "flush"} => pc[d] \in {"from", "rest"})
        \/ fd' = [fd EXCEPT ![d] = NoFile] /\ pc'[d] \in {"idle", "done"}
        \/ Unused # {} /\ fd' = [fd EXCEPT ![d] = NewIno]
        \/ seen[d] # NoFile /\ fd' = [fd EXCEPT ![d] = seen[d]]
    <3>1. pc \in [Proc -> DelivererLabel \cup ReaderLabel]
      BY <1>1 DEF AtTyped
    <3> QED
      BY <3>1 DEF DeliveryStep, StartDelivery, SendMbox, FindUser, UserUnknown, LockMbox,
           LockMboxFails, LookAtMbox, CreateMbox, OpenMbox, OpenMboxFails, BailOut,
           WriteFrom, WriteRest, WriteFails, UnlockMbox, DoneDelivery, ExitFlush,
           KillDelivery, SignalDelivery, CrashDelivery, Goto, AskThen, TakeAt, Exit, files
  <2>2. Unused # {} => NewIno \in Ino
    BY NewInoFacts
  <2>3. seen[d] # NoFile => seen[d] \in Ino
    BY <1>1 DEF DeliverTyped
  <2>4. fd \in [Proc -> Ino \cup {NoFile}] /\ (pc[d] \in {"from", "rest"} => fd[d] \in Ino)
    BY <1>1 DEF StoreTyped, AtTyped
  <2> QED
    BY <2>1, <2>2, <2>3, <2>4
<1>5. runs' \in [Proc -> 0..MaxReads + MaxTries]
  <2>1. runs' = runs \/ (runs[d] < MaxTries /\ runs' = [runs EXCEPT ![d] = @ + 1])
    BY DEF DeliveryStep, StartDelivery, SendMbox, FindUser, UserUnknown, LockMbox,
           LockMboxFails, LookAtMbox, CreateMbox, OpenMbox, OpenMboxFails, BailOut,
           WriteFrom, WriteRest, WriteFails, UnlockMbox, DoneDelivery, ExitFlush,
           KillDelivery, SignalDelivery, CrashDelivery
  <2>2. runs \in [Proc -> 0..MaxReads + MaxTries] /\ MaxReads \in Nat /\ MaxTries \in Nat
    BY <1>1, StoreAssumption DEF StoreTyped
  <2> QED
    BY <2>1, <2>2
<1>6. /\ UNCHANGED <<purged, cut>> /\ crowd' \in BOOLEAN /\ killed' \in BOOLEAN
      /\ cut' \in BOOLEAN
  BY <1>1 DEF DeliveryStep, StartDelivery, SendMbox, FindUser, UserUnknown, LockMbox,
           LockMboxFails, LookAtMbox, CreateMbox, OpenMbox, OpenMboxFails, BailOut,
           WriteFrom, WriteRest, WriteFails, UnlockMbox, DoneDelivery, ExitFlush,
           KillDelivery, SignalDelivery, CrashDelivery, history, TakeAt, StoreTyped
<1>7. DeliverTyped'
  <2>1. status' \in [Deliverer -> {"queued", "sent", "failed"}]
    <3>1. status' = status \/ \E x \in {"sent", "failed"} : status' = [status EXCEPT ![d] = x]
      BY DEF DeliveryStep, StartDelivery, SendMbox, FindUser, UserUnknown, LockMbox,
           LockMboxFails, LookAtMbox, CreateMbox, OpenMbox, OpenMboxFails, BailOut,
           WriteFrom, WriteRest, WriteFails, UnlockMbox, DoneDelivery, ExitFlush,
           KillDelivery, SignalDelivery, CrashDelivery, Exit, delivervars
    <3> QED
      BY <1>1, <3>1 DEF DeliverTyped
  <2>2. seen' = seen \/ seen' = [seen EXCEPT ![d] = dir["mail"]]
    BY DEF DeliveryStep, StartDelivery, SendMbox, FindUser, UserUnknown, LockMbox,
           LockMboxFails, LookAtMbox, CreateMbox, OpenMbox, OpenMboxFails, BailOut,
           WriteFrom, WriteRest, WriteFails, UnlockMbox, DoneDelivery, ExitFlush,
           KillDelivery, SignalDelivery, CrashDelivery, Exit, delivervars
  <2>3. errno' \in [Deliverer -> BOOLEAN]
    <3>1. errno' = errno \/ errno' = [errno EXCEPT ![d] = TRUE]
          \/ errno' = [errno EXCEPT ![d] = FALSE]
      BY DEF DeliveryStep, StartDelivery, SendMbox, FindUser, UserUnknown, LockMbox,
           LockMboxFails, LookAtMbox, CreateMbox, OpenMbox, OpenMboxFails, BailOut,
           WriteFrom, WriteRest, WriteFails, UnlockMbox, DoneDelivery, ExitFlush,
           KillDelivery, SignalDelivery, CrashDelivery, Exit, delivervars
    <3> QED
      BY <1>1, <3>1, Zenon DEF DeliverTyped
  <2>4. pos' = pos \/ (pc[d] = "from" /\ pos' = [pos EXCEPT ![d] = Size(fd[d])])
    BY DEF DeliveryStep, StartDelivery, SendMbox, FindUser, UserUnknown, LockMbox,
           LockMboxFails, LookAtMbox, CreateMbox, OpenMbox, OpenMboxFails, BailOut,
           WriteFrom, WriteRest, WriteFails, UnlockMbox, DoneDelivery, ExitFlush,
           KillDelivery, SignalDelivery, CrashDelivery, Exit, delivervars
  <2>5. dir["mail"] \in Ino \cup {NoFile}
    BY <1>1 DEF StoreTyped, Name
  <2>6. pc[d] = "from" => Size(fd[d]) \in Nat
    BY <1>1, LenProperties DEF StoreTyped, AtTyped, Size
  <2> QED
    BY <1>1, <2>1, <2>2, <2>3, <2>4, <2>5, <2>6 DEF DeliverTyped
<1>8. StoreTyped'
  BY <1>1, <1>3, <1>4, <1>5, <1>6 DEF StoreTyped
<1>9. ReaderTyped' /\ TablesTyped'
  <2>1. UNCHANGED <<tmp, let, del, size, newsize, ofd, sname, at>>
    BY DEF DeliveryStep, readervars
  <2>2. \A r \in Reader : pc'[r] = pc[r]
    BY <1>2, StoreAssumption
  <2>3. \A r \in Reader : nlet(r)' = nlet(r) /\ End(r)' = End(r)
    BY <2>1 DEF nlet, End
  <2> QED
    BY <1>6, <2>1, <2>2, <2>3 DEF TypeInv, ReaderTyped, TablesTyped
<1>10. AtTyped'
  <2>1. \A q \in Deliverer \ {d} : pc'[q] = pc[q] /\ fd'[q] = fd[q]
    BY <1>2, <1>4, StoreAssumption
  <2>2. \A r \in Reader : pc'[r] = pc[r] /\ fd'[r] = fd[r]
    BY <1>2, <1>4, StoreAssumption
  <2>3. UNCHANGED ofd
    BY DEF DeliveryStep, readervars
  <2>4. \A p \in Proc : pc'[p] \in Held => locked'[p]
    BY <1>1, <1>2 DEF AtTyped
  <2> QED
    BY <1>1, <1>2, <1>4, <2>1, <2>2, <2>3, <2>4 DEF AtTyped
<1> QED
  BY <1>2, <1>7, <1>8, <1>9, <1>10 DEF TypeInv

-----------------------------------------------------------------------------
(* The table of letters *)

\* The entries of a table do not fall, and none is above n.
RisesTo(t, n) ==
    /\ \A i \in 1..Len(t) : t[i] <= n
    /\ \A i, j \in 1..Len(t) : i <= j => t[i] <= t[j]

LEMMA RisesNext ==
    ASSUME NEW t \in Seq(Nat), NEW n \in Nat, RisesTo(t, n)
    PROVE  RisesTo(Append(t, n), n)
<1>1. PICK m \in Nat : m = Len(t)
  BY LenProperties
<1>2. PICK u : u = Append(t, n)
  OBVIOUS
<1>3. Len(u) = m + 1 /\ u[m + 1] = n /\ \A i \in 1..m : u[i] = t[i]
  BY <1>1, <1>2, AppendFacts
<1>4. \A i \in 1..m : t[i] \in Nat
  BY <1>1, ElementOfSeq
<1>5. \A i \in 1..m + 1 : u[i] <= n
  <2> SUFFICES ASSUME NEW i \in 1..m + 1 PROVE u[i] <= n
    OBVIOUS
  <2>1. i = m + 1 \/ i \in 1..m
    OBVIOUS
  <2> QED
    BY <1>1, <1>3, <2>1 DEF RisesTo
<1>6. ASSUME NEW i \in 1..m + 1, NEW j \in 1..m + 1, i <= j PROVE u[i] <= u[j]
  <2>1. CASE j = m + 1
    BY <1>3, <1>5, <2>1
  <2>2. CASE j # m + 1
    <3>1. i \in 1..m /\ j \in 1..m
      BY <1>6, <2>2
    <3> QED
      BY <1>1, <1>3, <1>6, <3>1 DEF RisesTo
  <2> QED
    BY <2>1, <2>2
<1> QED
  BY <1>2, <1>3, <1>5, <1>6 DEF RisesTo

\* What copymt() has made of the entries f: behind them stands, from e on, where
\* each From line of the first k blocks of s is.
Marked(t, f, e, s, k) ==
    /\ t \in Seq(Nat) /\ Len(f) <= Len(t)
    /\ Len(f) <= MaxLet => Len(t) <= MaxLet
    /\ \A i \in 1..Len(f) : t[i] = f[i]
    /\ \A i \in Len(f) + 1..Len(t) : \E j \in 1..k : t[i] = e + j - 1 /\ IsFrom(s[j])
    /\ RisesTo(f, e) => RisesTo(t, e + k)
    /\ Len(f) = 0 /\ k # 0 /\ IsFrom(s[1]) => Len(t) # 0 /\ t[1] = e

MarkNext(t, e, s, k) ==
    IF IsFrom(s[k]) /\ Len(t) < MaxLet THEN Append(t, e + k - 1) ELSE t

LEMMA MarkedNext ==
    ASSUME NEW f \in Seq(Nat), NEW e \in Nat, NEW s, NEW k \in Nat \ {0}, NEW t,
           Marked(t, f, e, s, k - 1)
    PROVE  Marked(MarkNext(t, e, s, k), f, e, s, k)
<1>1. PICK m \in Nat, n \in Nat : m = Len(f) /\ n = Len(t) /\ t \in Seq(Nat)
  BY LenProperties DEF Marked
<1>0. RisesTo(f, e) => RisesTo(t, e + k - 1) /\ RisesTo(t, e + k)
  <2> SUFFICES ASSUME RisesTo(f, e) PROVE RisesTo(t, e + k - 1) /\ RisesTo(t, e + k)
    OBVIOUS
  <2>1. e + (k - 1) = e + k - 1
    OBVIOUS
  <2>2. RisesTo(t, e + k - 1)
    BY <2>1 DEF Marked
  <2>3. \A i \in 1..n : t[i] \in Nat
    BY <1>1, ElementOfSeq
  <2>4. \A i \in 1..n : t[i] <= e + k
    BY <1>1, <2>2, <2>3 DEF RisesTo
  <2> QED
    BY <1>1, <2>2, <2>4 DEF RisesTo
<1>2. CASE ~(IsFrom(s[k]) /\ n < MaxLet)
  <2>1. MarkNext(t, e, s, k) = t
    BY <1>1, <1>2 DEF MarkNext
  <2>2. \A j \in 1..k - 1 : j \in 1..k
    OBVIOUS
  <2>3. m = 0 /\ IsFrom(s[1]) => n # 0 /\ t[1] = e
    <3> SUFFICES ASSUME m = 0, IsFrom(s[1]) PROVE n # 0 /\ t[1] = e
      OBVIOUS
    <3>1. CASE k = 1
      <4>1. n = 0
        BY <1>1, <3>1 DEF Marked
      <4> QED
        BY <1>2, <3>1, <4>1, ReaderAssumption
    <3>2. CASE k # 1
      <4>1. k - 1 # 0
        BY <3>2
      <4> QED
        BY <1>1, <4>1 DEF Marked
    <3> QED
      BY <3>1, <3>2
  <2> QED
    BY <1>0, <1>1, <2>1, <2>2, <2>3 DEF Marked
<1>3. CASE IsFrom(s[k]) /\ n < MaxLet
  <2>1. PICK b \in Nat : b = e + k - 1
    OBVIOUS
  <2>2. PICK u : u = Append(t, b)
    OBVIOUS
  <2>3. /\ u \in Seq(Nat) /\ Len(u) = n + 1 /\ u[n + 1] = b
        /\ \A i \in 1..n : u[i] = t[i]
    BY <1>1, <2>2, AppendFacts
  <2>4. /\ m <= n /\ \A i \in 1..m : t[i] = f[i]
        /\ \A i \in m + 1..n : \E j \in 1..k - 1 : t[i] = e + j - 1 /\ IsFrom(s[j])
    BY <1>1 DEF Marked
  <2>5. MaxLet \in Nat /\ n + 1 <= MaxLet
    BY <1>3, ReaderAssumption
  <2>6. \A i \in 1..m : u[i] = f[i]
    BY <2>3, <2>4
  <2>7. ASSUME NEW i \in m + 1..n + 1 PROVE \E j \in 1..k : u[i] = e + j - 1 /\ IsFrom(s[j])
    <3>1. CASE i = n + 1
      <4>1. k \in 1..k /\ u[i] = e + k - 1 /\ IsFrom(s[k])
        BY <1>3, <2>1, <2>3, <3>1
      <4> QED
        BY <4>1
    <3>2. CASE i # n + 1
      <4>1. i \in m + 1..n /\ i \in 1..n
        BY <3>2
      <4>2. PICK j \in 1..k - 1 : t[i] = e + j - 1 /\ IsFrom(s[j])
        BY <2>4, <4>1
      <4>3. u[i] = t[i] /\ j \in 1..k
        BY <2>3, <4>1
      <4> QED
        BY <4>2, <4>3
    <3> QED
      BY <3>1, <3>2
  <2>8. m <= Len(u) /\ Len(u) <= MaxLet
    BY <2>3, <2>4, <2>5
  <2>10. RisesTo(f, e) => RisesTo(u, e + k)
    <3> SUFFICES ASSUME RisesTo(f, e) PROVE RisesTo(u, e + k)
      OBVIOUS
    <3>1. RisesTo(u, b)
      BY <1>0, <1>1, <2>1, <2>2, RisesNext
    <3>2. \A i \in 1..n + 1 : u[i] \in Nat
      BY <2>3, ElementOfSeq
    <3>3. \A i \in 1..n + 1 : u[i] <= e + k
      BY <2>1, <2>3, <3>1, <3>2 DEF RisesTo
    <3> QED
      BY <2>3, <3>1, <3>3 DEF RisesTo
  <2>11. m = 0 /\ IsFrom(s[1]) => n + 1 # 0 /\ u[1] = e
    <3> SUFFICES ASSUME m = 0, IsFrom(s[1]) PROVE u[1] = e
      OBVIOUS
    <3>1. CASE k = 1
      <4>1. n = 0
        BY <1>1, <3>1 DEF Marked
      <4> QED
        BY <2>1, <2>3, <3>1, <4>1
    <3>2. CASE k # 1
      <4>1. k - 1 # 0
        BY <3>2
      <4>2. n # 0 /\ t[1] = e
        BY <1>1, <4>1 DEF Marked
      <4>3. 1 \in 1..n
        BY <4>2
      <4> QED
        BY <2>3, <4>2, <4>3
    <3> QED
      BY <3>1, <3>2
  <2>9. Marked(u, f, e, s, k)
    BY <1>1, <2>3, <2>6, <2>7, <2>8, <2>10, <2>11 DEF Marked
  <2> QED
    BY <1>1, <1>3, <2>1, <2>2, <2>9 DEF MarkNext
<1> QED
  BY <1>2, <1>3

LEMMA MarkFacts ==
    ASSUME NEW l \in Seq(Nat), l # <<>>, NEW s \in Seq(Block)
    PROVE  \E t : /\ Marked(t, Front(l), Last(l), s, Len(s))
                  /\ Mark(l, s) = Append(t, Last(l) + Len(s))
<1>1. PICK n \in Nat : n = Len(s)
  BY LenProperties
<1>2. PICK f : f = Front(l)
  OBVIOUS
<1>3. PICK e : e = Last(l)
  OBVIOUS
<1>4. f \in Seq(Nat) /\ e \in Nat
  BY <1>2, <1>3, FrontFacts
<1>5. PICK F : F = [ky \in (1..n) \X Seq(Nat) |-> MarkNext(ky[2], e, s, ky[1])]
  OBVIOUS
<1>6. StepFunction(F, n, Seq(Nat))
  <2>1. ASSUME NEW k \in 1..n, NEW t \in Seq(Nat) PROVE MarkNext(t, e, s, k) \in Seq(Nat)
    <3>1. e + k - 1 \in Nat
      BY <1>4
    <3> QED
      BY <3>1, AppendFacts DEF MarkNext
  <2> QED
    BY <1>5, <2>1 DEF StepFunction
<1>7. PICK g \in [0..n -> Seq(Nat)] : g[0] = f /\ \A k \in 1..n : g[k] = F[<<k, g[k - 1]>>]
  <2>1. \E g : Unrolled(g, F, n, Seq(Nat), f)
    BY <1>4, <1>6, RecursionExists
  <2> QED
    BY <2>1 DEF Unrolled
<1> DEFINE Table(h) == [k \in 0..n |-> IF k = 0 THEN f ELSE MarkNext(h[k - 1], e, s, k)]
<1>8. g = Table(g)
  <2>1. ASSUME NEW k \in 0..n PROVE g[k] = IF k = 0 THEN f ELSE MarkNext(g[k - 1], e, s, k)
    <3>1. CASE k = 0
      BY <1>7, <3>1
    <3>2. CASE k # 0
      <4>1. k \in 1..n /\ k - 1 \in 0..n
        BY <3>2
      <4>2. g[k - 1] \in Seq(Nat)
        BY <4>1
      <4> QED
        BY <1>5, <1>7, <3>2, <4>1, <4>2
    <3> QED
      BY <3>1, <3>2
  <2> QED
    BY <2>1
<1>9. PICK h : h = CHOOSE x : x = Table(x)
  OBVIOUS
<1>10. h = Table(h)
  BY <1>8, <1>9
<1>11. Mark(l, s) = Append(h[n], e + n)
  BY <1>1, <1>2, <1>3, <1>9 DEF Mark, MarkNext
<1>12. h[0] = f /\ \A k \in 1..n : h[k] = MarkNext(h[k - 1], e, s, k)
  BY <1>10
<1> DEFINE P == {m \in Nat : m <= n => Marked(h[m], f, e, s, m)}
<1>13. 0 \in P
  <2>1. Len(f) \in Nat /\ \A i \in Len(f) + 1..Len(f) : FALSE
    BY <1>4, LenProperties
  <2>2. e + 0 = e
    BY <1>4
  <2> QED
    BY <1>4, <1>12, <2>1, <2>2 DEF Marked
<1>14. ASSUME NEW m \in Nat, m \in P PROVE m + 1 \in P
  <2> SUFFICES ASSUME m + 1 <= n PROVE Marked(h[m + 1], f, e, s, m + 1)
    OBVIOUS
  <2>1. PICK k \in 1..n : k = m + 1 /\ k - 1 = m /\ k \in Nat \ {0}
    OBVIOUS
  <2>2. Marked(h[k - 1], f, e, s, k - 1)
    BY <1>14, <2>1
  <2>3. Marked(MarkNext(h[k - 1], e, s, k), f, e, s, k)
    BY <1>4, <2>1, <2>2, MarkedNext
  <2> QED
    BY <1>12, <2>1, <2>3
<1>15. Nat \subseteq P
  <2> HIDE DEF P
  <2> QED
    BY <1>13, <1>14, SetInduction
<1>16. Marked(h[n], f, e, s, n)
  BY <1>15
<1> QED
  BY <1>1, <1>2, <1>3, <1>11, <1>16

\* The same of the whole table l.
LEMMA MarkTable ==
    ASSUME NEW l \in Seq(Nat), l # <<>>, NEW s \in Seq(Block)
    PROVE  /\ Mark(l, s) \in Seq(Nat) /\ Mark(l, s) # <<>>
           /\ Len(l) <= Len(Mark(l, s))
           /\ Len(l) - 1 <= MaxLet => Len(Mark(l, s)) - 1 <= MaxLet
           /\ Last(Mark(l, s)) = Last(l) + Len(s)
           /\ \A i \in 1..Len(l) - 1 : Mark(l, s)[i] = l[i]
           /\ \A i \in Len(l)..Len(Mark(l, s)) - 1 :
                \E j \in 1..Len(s) : Mark(l, s)[i] = Last(l) + j - 1 /\ IsFrom(s[j])
<1>1. PICK n \in Nat : n = Len(s)
  BY LenProperties
<1>2. PICK f : f = Front(l)
  OBVIOUS
<1>3. PICK e : e = Last(l)
  OBVIOUS
<1>4. /\ f \in Seq(Nat) /\ e \in Nat /\ Len(l) \in Nat \ {0} /\ Len(f) = Len(l) - 1
      /\ \A i \in 1..Len(l) - 1 : f[i] = l[i]
  BY <1>2, <1>3, FrontFacts
<1>5. PICK t : Marked(t, f, e, s, n) /\ Mark(l, s) = Append(t, e + n)
  BY <1>1, <1>2, <1>3, MarkFacts
<1>6. PICK m \in Nat, k \in Nat : m = Len(f) /\ m + 1 = Len(l) /\ k = Len(t) /\ t \in Seq(Nat)
  BY <1>4, <1>5, LenProperties DEF Marked
<1>7. PICK u : u = Mark(l, s)
  OBVIOUS
<1>8. e + n \in Nat
  BY <1>4
<1>9. /\ u \in Seq(Nat) /\ u # <<>> /\ Len(u) = k + 1 /\ u[k + 1] = e + n
      /\ \A i \in 1..k : u[i] = t[i]
  <2>1. PICK x \in Nat : x = e + n
    BY <1>8
  <2>2. u = Append(t, x)
    BY <1>5, <1>7, <2>1
  <2>3. /\ u \in Seq(Nat) /\ Len(u) = k + 1 /\ u[k + 1] = x
        /\ \A i \in 1..k : u[i] = t[i]
    BY <1>6, <2>1, <2>2, AppendFacts
  <2>4. u # <<>>
    BY <1>6, <2>3, EmptySeq
  <2> QED
    BY <1>6, <2>1, <2>3, <2>4
<1>10. /\ m <= k /\ (m <= MaxLet => k <= MaxLet) /\ \A i \in 1..m : t[i] = f[i]
       /\ \A i \in m + 1..k : \E j \in 1..n : t[i] = e + j - 1 /\ IsFrom(s[j])
  BY <1>5, <1>6 DEF Marked
<1>11. Last(u) = e + n
  BY <1>9 DEF Last
<1>12. \A i \in 1..m : u[i] = l[i]
  <2>1. \A i \in 1..m : i \in 1..k /\ i \in 1..Len(l) - 1
    BY <1>6, <1>10
  <2> QED
    BY <1>4, <1>9, <1>10, <2>1
<1>13. \A i \in m + 1..k : \E j \in 1..n : u[i] = e + j - 1 /\ IsFrom(s[j])
  <2>1. \A i \in m + 1..k : i \in 1..k
    BY <1>10
  <2> QED
    BY <1>9, <1>10, <2>1
<1>14. Len(l) - 1 = m /\ Len(u) - 1 = k /\ Len(l) <= Len(u)
  BY <1>6, <1>9, <1>10
<1>15. Len(l)..Len(u) - 1 = m + 1..k
  BY <1>6, <1>14
<1> QED
  <2>1. /\ u \in Seq(Nat) /\ u # <<>> /\ Len(l) <= Len(u)
        /\ Len(l) - 1 <= MaxLet => Len(u) - 1 <= MaxLet
        /\ Last(u) = e + n
    BY <1>9, <1>10, <1>11, <1>14
  <2>2. \A i \in 1..Len(l) - 1 : u[i] = l[i]
    BY <1>12, <1>14
  <2>3. \A i \in Len(l)..Len(u) - 1 : \E j \in 1..n : u[i] = e + j - 1 /\ IsFrom(s[j])
    BY <1>13, <1>15
  <2> QED
    BY <1>1, <1>3, <1>7, <2>1, <2>2, <2>3, Zenon

\* A table in order stays so.
Ordered(l) == RisesTo(l, Last(l))

LEMMA OrderedAppend ==
    ASSUME NEW t \in Seq(Nat), NEW n \in Nat, RisesTo(t, n)
    PROVE  Ordered(Append(t, n))
<1>1. Last(Append(t, n)) = n
  <2>1. PICK m \in Nat : m = Len(t)
    BY LenProperties
  <2>3. PICK u : u = Append(t, n)
    OBVIOUS
  <2>2. Len(u) = m + 1 /\ u[m + 1] = n
    BY <2>1, <2>3, AppendFacts
  <2> QED
    BY <2>1, <2>2, <2>3 DEF Last
<1> QED
  BY <1>1, RisesNext DEF Ordered

LEMMA MarkOrdered ==
    ASSUME NEW l \in Seq(Nat), l # <<>>, NEW s \in Seq(Block), Ordered(l)
    PROVE  Ordered(Mark(l, s))
<1>1. PICK n \in Nat : n = Len(s)
  BY LenProperties
<1>2. PICK f, e : f = Front(l) /\ e = Last(l)
  OBVIOUS
<1>3. /\ f \in Seq(Nat) /\ e \in Nat /\ Len(l) \in Nat \ {0} /\ Len(f) = Len(l) - 1
      /\ \A i \in 1..Len(l) - 1 : f[i] = l[i]
  BY <1>2, FrontFacts
<1>4. RisesTo(f, e)
  <2>1. RisesTo(l, e)
    BY <1>2 DEF Ordered
  <2>2. PICK k \in Nat : k + 1 = Len(l) /\ Len(f) = k
    BY <1>3
  <2>3. Len(l) - 1 = k
    BY <2>2
  <2>4. \A i \in 1..k : i \in 1..k + 1
    OBVIOUS
  <2>5. \A i \in 1..k : f[i] = l[i] /\ i \in 1..Len(l)
    <3> SUFFICES ASSUME NEW i \in 1..k PROVE f[i] = l[i] /\ i \in 1..Len(l)
      OBVIOUS
    <3>1. i \in 1..Len(l) - 1
      BY <2>3
    <3>2. f[i] = l[i]
      BY <1>3, <3>1
    <3> QED
      BY <2>2, <2>4, <3>2
  <2>6. /\ \A i \in 1..k : l[i] <= e
        /\ \A i, j \in 1..k : i <= j => l[i] <= l[j]
    BY <2>1, <2>5 DEF RisesTo
  <2> QED
    BY <2>2, <2>5, <2>6 DEF RisesTo
<1>5. PICK t : Marked(t, f, e, s, n) /\ Mark(l, s) = Append(t, e + n)
  BY <1>1, <1>2, MarkFacts
<1>6. t \in Seq(Nat) /\ RisesTo(t, e + n) /\ e + n \in Nat
  BY <1>3, <1>4, <1>5 DEF Marked
<1> QED
  BY <1>5, <1>6, OrderedAppend

\* The first letter begins where the first of the old ones did, or at the end.
LEMMA MarkFirst ==
    ASSUME NEW l \in Seq(Nat), l # <<>>, NEW s \in Seq(Block),
           Len(l) # 1 \/ Len(s) = 0 \/ IsFrom(s[1])
    PROVE  Mark(l, s)[1] = l[1]
<1>1. PICK n \in Nat : n = Len(s)
  BY LenProperties
<1>2. PICK f, e : f = Front(l) /\ e = Last(l)
  OBVIOUS
<1>3. /\ f \in Seq(Nat) /\ e \in Nat /\ Len(l) \in Nat \ {0} /\ Len(f) = Len(l) - 1
      /\ \A i \in 1..Len(l) - 1 : f[i] = l[i]
  BY <1>2, FrontFacts
<1>4. PICK t : Marked(t, f, e, s, n) /\ Mark(l, s) = Append(t, e + n)
  BY <1>1, <1>2, MarkFacts
<1>5. PICK m \in Nat, x \in Nat, u \in Seq(Nat) : m = Len(t) /\ x = e + n /\ u = Append(t, x)
  <2>1. t \in Seq(Nat)
    BY <1>4 DEF Marked
  <2>2. Len(t) \in Nat
    BY <2>1, LenProperties
  <2>3. e + n \in Nat
    BY <1>3
  <2>4. Append(t, e + n) \in Seq(Nat)
    BY <2>1, <2>3
  <2> QED
    BY <2>2, <2>3, <2>4
<1>6. t \in Seq(Nat) /\ Len(f) <= m /\ \A i \in 1..Len(f) : t[i] = f[i]
  BY <1>4, <1>5 DEF Marked
<1>7. Len(u) = m + 1 /\ u[m + 1] = x /\ \A i \in 1..m : u[i] = t[i]
  BY <1>5, <1>6, AppendFacts
<1>8. CASE Len(l) # 1
  <2>1. 1 \in 1..Len(l) - 1 /\ 1 \in 1..Len(f) /\ 1 \in 1..m
    BY <1>3, <1>6, <1>8
  <2> QED
    BY <1>3, <1>4, <1>5, <1>6, <1>7, <2>1
<1>9. CASE Len(l) = 1
  <2>1. Len(f) = 0 /\ l[1] = e
    BY <1>2, <1>3, <1>9 DEF Last
  <2>2. CASE n = 0
    <3>1. m = 0
      BY <1>4, <1>5, <2>1, <2>2 DEF Marked
    <3> QED
      BY <1>3, <1>4, <1>5, <1>7, <2>1, <2>2, <3>1
  <2>3. CASE n # 0
    <3>1. m # 0 /\ t[1] = e
      BY <1>1, <1>4, <1>5, <1>9, <2>1, <2>3 DEF Marked
    <3>2. 1 \in 1..m
      BY <3>1
    <3> QED
      BY <1>4, <1>5, <1>7, <2>1, <3>1, <3>2
  <2> QED
    BY <2>2, <2>3
<1> QED
  BY <1>8, <1>9

-----------------------------------------------------------------------------
(* Reading *)

LEMMA ReadingLabels ==
    ASSUME MboxLockTypeOK, AtTyped, NEW r \in Reader, ReadingStep(r)
    PROVE  /\ MboxLockTypeOK'
           /\ \A q \in Proc \ {r} : locked'[q] = locked[q] /\ pc'[q] = pc[q]
           /\ pc' \in [Proc -> DelivererLabel \cup ReaderLabel]
           /\ pc'[r] \in ReaderLabel
           /\ pc'[r] \in Held => locked'[r]
<1> USE DEF ReadingStep, StartReading, ReadMail, KillReading, Cksaved, LookForSaved,
        LockForSaved, RestoreByName, RestoreByCopy, AppendSaved, AppendedSaved,
        RemoveSaved, Restored, Printmail, StatMbox, OpenForReading, LockForLoad,
        LoadMail, Loaded, LookForNewMail, LockForReload, LoadNewMail, Reloaded,
        Interrupt, InterruptCopy, Delete,
        Undelete, ExitCommand, Quit, Copyback, LockForRewrite, TakeNewMail,
        MailboxGone, CopybackFails,
        OpenSave, CopyOut, CopyOutFails, UnlinkMbox, RenameSave, RemoveEmpty, CopiedBack,
        LockFails, DoneReading, SignalReading, CrashReading, LockFor, Leave, Stop,
        AskThen, TakeAt, Goto, Release
<1>0. r \in Proc
  BY StoreAssumption
<1>1. MboxLockTypeOK' /\ \A q \in Proc \ {r} : locked'[q] = locked[q]
  <2>1. \/ Ask(r) \/ Take(r) \/ Break(r) \/ Mailunlock(r) \/ Die(r) \/ Again(r)
        \/ UNCHANGED mboxlock
    OBVIOUS
  <2> QED
    BY <1>0, <2>1, LockSteps
<1>2. pc' = pc \/ \E l \in ReaderLabel : pc' = [pc EXCEPT ![r] = l]
  BY DEF ReaderLabel
<1>3. pc \in [Proc -> DelivererLabel \cup ReaderLabel] /\ pc[r] \in ReaderLabel
  BY DEF AtTyped
<1>4. PICK l \in ReaderLabel : pc' = [pc EXCEPT ![r] = l]
  BY <1>2, <1>3
<1>5. pc' \in [Proc -> DelivererLabel \cup ReaderLabel] /\ pc'[r] = l
      /\ \A q \in Proc \ {r} : pc'[q] = pc[q]
  BY <1>0, <1>3, <1>4
<1>6. \/ pc'[r] \notin Held
      \/ Take(r)
      \/ pc[r] \in Held /\ UNCHANGED locked
      \/ locked[r] /\ UNCHANGED locked
  BY <1>0, <1>3 DEF Held, mboxlock
<1>7. pc'[r] \in Held => locked'[r]
  <2>1. Take(r) => locked'[r]
    BY <1>0, LockSteps
  <2> QED
    BY <1>0, <1>6, <2>1 DEF AtTyped
<1> QED
  BY <1>1, <1>5, <1>7

\* What a session does to the files.
LEMMA ReadingFiles ==
    ASSUME NEW r \in Reader, ReadingStep(r)
    PROVE  \/ UNCHANGED <<data, dir, accepted, purged>>
           \/ AppendSaved(r)
           \/ RemoveSaved(r) \/ RemoveEmpty(r)
           \/ RestoreByName(r) \/ RenameSave(r)
           \/ OpenSave(r)
           \/ CopyOut(r)
           \/ CopyOutFails(r)
           \/ UnlinkMbox(r)
  BY DEF ReadingStep, StartReading, ReadMail, KillReading, Cksaved, LookForSaved,
        LockForSaved, RestoreByCopy, AppendedSaved, Restored, Printmail, StatMbox,
        OpenForReading, LockForLoad, LoadMail, Loaded, LookForNewMail, LockForReload,
        LoadNewMail, Reloaded, Interrupt, InterruptCopy, Delete, Undelete, ExitCommand,
        Quit, Copyback,
        LockForRewrite, TakeNewMail, MailboxGone, CopybackFails, CopiedBack, LockFails,
        DoneReading,
        SignalReading, CrashReading, Stop, files, history

\* What a session does to its own variables.
LEMMA ReadingTables ==
    ASSUME NEW r \in Reader, ReadingStep(r)
    PROVE  \/ UNCHANGED <<tmp, let, del>>
           \/ StartReading(r) \/ LoadMail(r) \/ LoadNewMail(r) \/ TakeNewMail(r)
           \/ InterruptCopy(r) \/ Delete(r) \/ Undelete(r)
  BY DEF ReadingStep, StartReading, ReadMail, KillReading, Cksaved, LookForSaved,
        LockForSaved, RestoreByName, RestoreByCopy, AppendSaved, AppendedSaved,
        RemoveSaved, Restored, Printmail, StatMbox, OpenForReading, LockForLoad,
        Loaded, LookForNewMail, LockForReload, Reloaded, Interrupt,
        ExitCommand, Quit, Copyback, LockForRewrite, MailboxGone, CopybackFails,
        OpenSave, CopyOut, CopyOutFails, UnlinkMbox, RenameSave, RemoveEmpty, CopiedBack,
        LockFails, DoneReading, SignalReading, CrashReading, Stop, readervars

\* The letters that are kept are blocks of the temporary file.
LEMMA KeptTyped ==
    ASSUME ReaderTyped, TablesTyped, NEW r \in Reader
    PROVE  Kept(r) \in Seq(Block)
<1>1. PICK t, l, n : t = tmp[r] /\ l = let[r] /\ n = nlet(r)
  OBVIOUS
<1>2. /\ t \in Seq(Block) /\ l \in Seq(Nat) /\ l # <<>>
      /\ \A i \in 1..Len(l) : l[i] <= Len(t)
  BY <1>1 DEF TablesTyped, TableOK
<1>3. n \in Nat /\ n = Len(l) - 1 /\ Len(t) \in Nat
  BY <1>1, <1>2, LenProperties, EmptySeq DEF nlet
<1>4. ASSUME NEW i \in 1..n PROVE SubSeq(t, l[i] + 1, l[i + 1]) \in Seq(Block)
  <2>1. i \in 1..Len(l) /\ i + 1 \in 1..Len(l)
    BY <1>3
  <2>2. PICK a \in Nat, b \in Nat : a = l[i] /\ b = l[i + 1] /\ b <= Len(t)
    BY <1>2, <2>1, ElementOfSeq
  <2>3. ASSUME NEW k \in a + 1..b PROVE t[k] \in Block
    <3>1. k \in 1..Len(t)
      BY <1>3, <2>2
    <3> QED
      BY <1>2, <3>1, ElementOfSeq
  <2>4. SubSeq(t, a + 1, b) \in Seq(Block)
    BY <2>3, SubSeqProperties
  <2> QED
    BY <2>2, <2>4
<1>5. PICK D : D = del[r]
  OBVIOUS
<1>6. PICK s : s = [i \in 1..n |-> IF i \in D THEN <<>> ELSE SubSeq(t, l[i] + 1, l[i + 1])]
  OBVIOUS
<1>7. s \in [1..n -> Seq(Block)]
  BY <1>4, <1>6, EmptySeq
<1>8. s \in Seq(Seq(Block))
  BY <1>3, <1>7, SeqDef
<1>9. Kept(r) = FlattenSeq(s)
  BY <1>1, <1>5, <1>6 DEF Kept
<1>10. PICK m \in Nat : m = Len(s)
  BY <1>8, LenProperties
<1>11. PICK g \in [0..m -> Seq(Block)] : FlattenSeq(s) = g[m]
  BY <1>8, <1>10, FlattenParts
<1> QED
  BY <1>9, <1>11

LEMMA MovedTyped ==
    ASSUME StoreTyped, NEW n \in Name, NEW m \in Name, n # m,
           dir' = [dir EXCEPT ![n] = dir[m], ![m] = NoFile]
    PROVE  /\ dir' \in [Name -> Ino \cup {NoFile}]
           /\ \A a, b \in Name : dir'[a] = dir'[b] /\ dir'[a] # NoFile => a = b
  BY DEF StoreTyped

LEMMA RemovedTyped ==
    ASSUME StoreTyped, NEW n \in Name, dir' = [dir EXCEPT ![n] = NoFile]
    PROVE  /\ dir' \in [Name -> Ino \cup {NoFile}]
           /\ \A a, b \in Name : dir'[a] = dir'[b] /\ dir'[a] # NoFile => a = b
  BY DEF StoreTyped

LEMMA ReadingFilesTyped ==
    ASSUME TypeInv, NEW r \in Reader, ReadingStep(r)
    PROVE  /\ data' \in [Ino -> Seq(Block)] /\ dir' \in [Name -> Ino \cup {NoFile}]
           /\ \A a, b \in Name : dir'[a] = dir'[b] /\ dir'[a] # NoFile => a = b
           /\ accepted' \in Seq(Letter) /\ purged' \subseteq Letter
<1>1. StoreTyped /\ ReaderTyped /\ AtTyped /\ TablesTyped
  BY DEF TypeInv
<1>2. /\ data \in [Ino -> Seq(Block)] /\ dir \in [Name -> Ino \cup {NoFile}]
      /\ \A a, b \in Name : dir[a] = dir[b] /\ dir[a] # NoFile => a = b
      /\ accepted \in Seq(Letter) /\ purged \subseteq Letter
  BY <1>1 DEF StoreTyped
<1>3. "mail" \in Name /\ "save" \in Name /\ "alt" \in Name /\ sname[r] \in {"save", "alt"}
  BY <1>1 DEF Name, ReaderTyped
<1>4. UNCHANGED accepted
  BY DEF ReadingStep, StartReading, ReadMail, KillReading, Cksaved, LookForSaved,
        LockForSaved, RestoreByName, RestoreByCopy, AppendSaved, AppendedSaved,
        RemoveSaved, Restored, Printmail, StatMbox, OpenForReading, LockForLoad,
        LoadMail, Loaded, LookForNewMail, LockForReload, LoadNewMail, Reloaded,
        Interrupt, InterruptCopy, Delete,
        Undelete, ExitCommand, Quit, Copyback, LockForRewrite, TakeNewMail,
        MailboxGone, CopybackFails,
        OpenSave, CopyOut, CopyOutFails, UnlinkMbox, RenameSave, RemoveEmpty, CopiedBack,
        LockFails, DoneReading, SignalReading, CrashReading, Stop, history
<1>5. CASE UNCHANGED <<data, dir, accepted, purged>>
  BY <1>2, <1>5
<1>6. CASE AppendSaved(r)
  <2>1. pc[r] = "append" /\ at[r] < Size(fd[r]) /\ Append1(ofd[r], data[fd[r]][at[r] + 1])
        /\ UNCHANGED <<dir, purged>>
    BY <1>6 DEF AppendSaved, history
  <2>2. fd[r] \in Ino /\ at[r] \in Nat
    BY <1>1, <2>1 DEF AtTyped, ReaderTyped
  <2>3. PICK i \in Ino, k \in Nat : i = fd[r] /\ k = at[r] + 1
    BY <2>2
  <2>4. data[i] \in Seq(Block) /\ k \in 1..Len(data[i])
    BY <1>2, <2>1, <2>2, <2>3, LenProperties DEF Size
  <2>5. data[fd[r]][at[r] + 1] \in Block
    BY <2>3, <2>4, ElementOfSeq
  <2>6. data' \in [Ino -> Seq(Block)]
    BY <1>2, <2>1, <2>5, Writing
  <2> QED
    BY <1>2, <1>4, <2>1, <2>6
<1>7. CASE RemoveSaved(r) \/ RemoveEmpty(r)
  <2>1. UNCHANGED <<data, purged>>
        /\ (UNCHANGED dir \/ \E n \in Name : dir' = [dir EXCEPT ![n] = NoFile])
    BY <1>3, <1>7 DEF RemoveSaved, RemoveEmpty, history
  <2> QED
    BY <1>1, <1>2, <1>4, <2>1, RemovedTyped
<1>8. CASE RestoreByName(r) \/ RenameSave(r)
  <2>1. UNCHANGED <<data, purged>>
        /\ (\/ UNCHANGED dir
            \/ \E m \in {"save", "alt"} :
                 dir' = [dir EXCEPT !["mail"] = dir[m], ![m] = NoFile])
    BY <1>3, <1>8 DEF RestoreByName, RenameSave, history
  <2>2. CASE UNCHANGED dir
    BY <1>2, <1>4, <2>1, <2>2
  <2>3. ASSUME NEW m \in {"save", "alt"},
               dir' = [dir EXCEPT !["mail"] = dir[m], ![m] = NoFile]
        PROVE  /\ dir' \in [Name -> Ino \cup {NoFile}]
               /\ \A a, b \in Name : dir'[a] = dir'[b] /\ dir'[a] # NoFile => a = b
    <3>1. m \in Name /\ m # "mail"
      BY <1>3
    <3> QED
      BY <1>1, <1>3, <2>3, <3>1, MovedTyped
  <2> QED
    BY <1>2, <1>4, <2>1, <2>2, <2>3
<1>9. CASE OpenSave(r)
  <2>1. PICK n \in Name : LET i == IF dir[n] = NoFile THEN NewIno ELSE dir[n]
               IN  /\ dir[n] # NoFile \/ Unused # {}
                   /\ dir' = [dir EXCEPT ![n] = i]
                   /\ data' = [data EXCEPT ![i] = <<>>]
    BY <1>3, <1>9 DEF OpenSave
  <2>2. UNCHANGED purged
    BY <1>9 DEF OpenSave, history
  <2>3. CASE dir[n] = NoFile
    BY <1>1, <1>2, <1>4, <2>1, <2>2, <2>3, CreatedTyped
  <2>4. CASE dir[n] # NoFile
    <3>1. <<>> \in Seq(Block)
      BY EmptySeq
    <3>2. dir' = dir /\ data' \in [Ino -> Seq(Block)]
      BY <1>2, <2>1, <2>4, <3>1
    <3> QED
      BY <1>2, <1>4, <2>2, <3>2
  <2> QED
    BY <2>3, <2>4
<1>10. CASE CopyOut(r)
  <2>1. at[r] < Len(Kept(r)) /\ Append1(ofd[r], Kept(r)[at[r] + 1]) /\ UNCHANGED <<dir, purged>>
    BY <1>10 DEF CopyOut, history
  <2>2. PICK s : s = Kept(r) /\ s \in Seq(Block)
    BY <1>1, KeptTyped
  <2>3. at[r] \in Nat
    BY <1>1 DEF ReaderTyped
  <2>4. at[r] + 1 \in 1..Len(s)
    BY <2>1, <2>2, <2>3, LenProperties
  <2>5. s[at[r] + 1] \in Block
    BY <2>2, <2>4, ElementOfSeq
  <2>6. data' \in [Ino -> Seq(Block)]
    BY <1>2, <2>1, <2>2, <2>5, Writing
  <2> QED
    BY <1>2, <1>4, <2>1, <2>6
<1>11. CASE CopyOutFails(r)
  <2>1. PICK start \in 0..at[r] : data' = [data EXCEPT ![ofd[r]] = CutTo(@, start)]
    BY <1>11 DEF CopyOutFails
  <2>2. UNCHANGED <<dir, purged>>
    BY <1>11 DEF CopyOutFails, history
  <2>3. start \in Nat
    OBVIOUS
  <2>4. \A i \in Ino : CutTo(data[i], start) \in Seq(Block)
    BY <1>2, <2>3, Cutting
  <2>5. data' \in [Ino -> Seq(Block)]
    BY <1>2, <2>1, <2>4
  <2> QED
    BY <1>2, <1>4, <2>2, <2>5
<1>12. CASE UnlinkMbox(r)
  <2>1. UNCHANGED data
    BY <1>12 DEF UnlinkMbox
  <2>2. purged' \subseteq Letter
    BY <1>2, <1>12 DEF UnlinkMbox, Whole
  <2>3. UNCHANGED dir \/ dir' = [dir EXCEPT !["mail"] = NoFile]
    BY <1>12 DEF UnlinkMbox
  <2> QED
    BY <1>1, <1>2, <1>3, <1>4, <2>1, <2>2, <2>3, RemovedTyped
<1> QED
  BY <1>5, <1>6, <1>7, <1>8, <1>9, <1>10, <1>11, <1>12, ReadingFiles

LEMMA ReadingVarsTyped ==
    ASSUME TypeInv, NEW r \in Reader, ReadingStep(r)
    PROVE  /\ fd' \in [Proc -> Ino \cup {NoFile}] /\ \A q \in Proc \ {r} : fd'[q] = fd[q]
           /\ pc'[r] \in {"load", "copyin", "append"} => fd'[r] \in Ino
           /\ ofd' \in [Reader -> Ino \cup {NoFile}]
           /\ \A q \in Reader \ {r} : ofd'[q] = ofd[q]
           /\ pc'[r] \in {"append", "copyout"} => ofd'[r] \in Ino
           /\ runs' \in [Proc -> 0..MaxReads + MaxTries]
           /\ crowd' \in BOOLEAN /\ killed' \in BOOLEAN /\ cut' \in BOOLEAN
           /\ ~cut' => ~cut
           /\ size' \in [Reader -> Nat] /\ newsize' \in [Reader -> Nat]
           /\ at' \in [Reader -> Nat] /\ sname' \in [Reader -> {"save", "alt"}]
<1>1. StoreTyped /\ ReaderTyped /\ AtTyped
  BY DEF TypeInv
<1>2. /\ data \in [Ino -> Seq(Block)] /\ dir \in [Name -> Ino \cup {NoFile}]
      /\ fd \in [Proc -> Ino \cup {NoFile}] /\ ofd \in [Reader -> Ino \cup {NoFile}]
      /\ runs \in [Proc -> 0..MaxReads + MaxTries]
      /\ crowd \in BOOLEAN /\ killed \in BOOLEAN /\ cut \in BOOLEAN
      /\ size \in [Reader -> Nat] /\ newsize \in [Reader -> Nat]
      /\ at \in [Reader -> Nat] /\ sname \in [Reader -> {"save", "alt"}]
      /\ pc \in [Proc -> DelivererLabel \cup ReaderLabel]
      /\ r \in Proc /\ NoFile \notin Ino
  BY <1>1, StoreAssumption DEF StoreTyped, ReaderTyped, AtTyped
<1>3. "mail" \in Name /\ "save" \in Name /\ "alt" \in Name
  BY DEF Name
<1>4. \A n \in Name : dir[n] # NoFile => Size(dir[n]) \in Nat
  BY <1>2, LenProperties DEF Size
<1>5. \/ UNCHANGED fd /\ (pc'[r] \in {"load", "copyin", "append"} =>
                            pc[r] \in {"load", "copyin", "append"})
      \/ fd' = [fd EXCEPT ![r] = NoFile] /\ pc'[r] \notin {"load", "copyin", "append"}
      \/ \E n \in Name : dir[n] # NoFile /\ fd' = [fd EXCEPT ![r] = dir[n]]
  BY <1>2, <1>3 DEF ReadingStep, StartReading, ReadMail, KillReading, Cksaved, LookForSaved,
        LockForSaved, RestoreByName, RestoreByCopy, AppendSaved, AppendedSaved,
        RemoveSaved, Restored, Printmail, StatMbox, OpenForReading, LockForLoad,
        LoadMail, Loaded, LookForNewMail, LockForReload, LoadNewMail, Reloaded,
        Interrupt, InterruptCopy, Delete,
        Undelete, ExitCommand, Quit, Copyback, LockForRewrite, TakeNewMail,
        MailboxGone, CopybackFails,
        OpenSave, CopyOut, CopyOutFails, UnlinkMbox, RenameSave, RemoveEmpty, CopiedBack,
        LockFails, DoneReading, SignalReading, CrashReading, Stop, LockFor, Leave, AskThen, TakeAt, Goto, history, files
<1>6. /\ fd' \in [Proc -> Ino \cup {NoFile}] /\ \A q \in Proc \ {r} : fd'[q] = fd[q]
      /\ pc'[r] \in {"load", "copyin", "append"} => fd'[r] \in Ino
  BY <1>1, <1>2, <1>5 DEF AtTyped
<1>7. \/ UNCHANGED ofd /\ (pc'[r] \in {"append", "copyout"} => pc[r] \in {"append", "copyout"})
      \/ ofd' = [ofd EXCEPT ![r] = NoFile] /\ pc'[r] \notin {"append", "copyout"}
      \/ \E n \in Name : dir[n] # NoFile /\ ofd' = [ofd EXCEPT ![r] = dir[n]]
      \/ Unused # {} /\ ofd' = [ofd EXCEPT ![r] = NewIno]
  BY <1>2, <1>3 DEF ReadingStep, StartReading, ReadMail, KillReading, Cksaved, LookForSaved,
        LockForSaved, RestoreByName, RestoreByCopy, AppendSaved, AppendedSaved,
        RemoveSaved, Restored, Printmail, StatMbox, OpenForReading, LockForLoad,
        LoadMail, Loaded, LookForNewMail, LockForReload, LoadNewMail, Reloaded,
        Interrupt, InterruptCopy, Delete,
        Undelete, ExitCommand, Quit, Copyback, LockForRewrite, TakeNewMail,
        MailboxGone, CopybackFails,
        OpenSave, CopyOut, CopyOutFails, UnlinkMbox, RenameSave, RemoveEmpty, CopiedBack,
        LockFails, DoneReading, SignalReading, CrashReading, Stop, LockFor, Leave, AskThen, TakeAt, Goto, history, files, readervars
<1>8. /\ ofd' \in [Reader -> Ino \cup {NoFile}]
      /\ \A q \in Reader \ {r} : ofd'[q] = ofd[q]
      /\ pc'[r] \in {"append", "copyout"} => ofd'[r] \in Ino
  <2>1. Unused # {} => NewIno \in Ino
    BY NewInoFacts
  <2> QED
    BY <1>1, <1>2, <1>7, <2>1 DEF AtTyped
<1>9. runs' \in [Proc -> 0..MaxReads + MaxTries]
  <2>1. runs' = runs \/ (runs[r] < MaxReads /\ runs' = [runs EXCEPT ![r] = @ + 1])
    BY DEF ReadingStep, StartReading, ReadMail, KillReading, Cksaved, LookForSaved,
        LockForSaved, RestoreByName, RestoreByCopy, AppendSaved, AppendedSaved,
        RemoveSaved, Restored, Printmail, StatMbox, OpenForReading, LockForLoad,
        LoadMail, Loaded, LookForNewMail, LockForReload, LoadNewMail, Reloaded,
        Interrupt, InterruptCopy, Delete,
        Undelete, ExitCommand, Quit, Copyback, LockForRewrite, TakeNewMail,
        MailboxGone, CopybackFails,
        OpenSave, CopyOut, CopyOutFails, UnlinkMbox, RenameSave, RemoveEmpty, CopiedBack,
        LockFails, DoneReading, SignalReading, CrashReading, Stop
  <2>2. runs \in [Proc -> 0..MaxReads + MaxTries] /\ MaxReads \in Nat /\ MaxTries \in Nat
    BY <1>2, StoreAssumption
  <2> QED
    BY <2>1, <2>2
<1>10. /\ crowd' \in BOOLEAN /\ killed' \in BOOLEAN /\ cut' \in BOOLEAN
       /\ ~cut' => ~cut
  BY <1>2 DEF ReadingStep, StartReading, ReadMail, KillReading, Cksaved, LookForSaved,
        LockForSaved, RestoreByName, RestoreByCopy, AppendSaved, AppendedSaved,
        RemoveSaved, Restored, Printmail, StatMbox, OpenForReading, LockForLoad,
        LoadMail, Loaded, LookForNewMail, LockForReload, LoadNewMail, Reloaded,
        Interrupt, InterruptCopy, Delete,
        Undelete, ExitCommand, Quit, Copyback, LockForRewrite, TakeNewMail,
        MailboxGone, CopybackFails,
        OpenSave, CopyOut, CopyOutFails, UnlinkMbox, RenameSave, RemoveEmpty, CopiedBack,
        LockFails, DoneReading, SignalReading, CrashReading, Stop, TakeAt, history
<1>11. size' \in [Reader -> Nat]
  <2>1. \/ size' = size \/ size' = [size EXCEPT ![r] = 0]
        \/ size' = [size EXCEPT ![r] = newsize[r]]
        \/ dir["mail"] # NoFile /\ size' = [size EXCEPT ![r] = Size(dir["mail"])]
    BY DEF ReadingStep, StartReading, ReadMail, KillReading, Cksaved, LookForSaved,
        LockForSaved, RestoreByName, RestoreByCopy, AppendSaved, AppendedSaved,
        RemoveSaved, Restored, Printmail, StatMbox, OpenForReading, LockForLoad,
        LoadMail, Loaded, LookForNewMail, LockForReload, LoadNewMail, Reloaded,
        Interrupt, InterruptCopy, Delete,
        Undelete, ExitCommand, Quit, Copyback, LockForRewrite, TakeNewMail,
        MailboxGone, CopybackFails,
        OpenSave, CopyOut, CopyOutFails, UnlinkMbox, RenameSave, RemoveEmpty, CopiedBack,
        LockFails, DoneReading, SignalReading, CrashReading, Stop, readervars
  <2>2. dir["mail"] # NoFile => Size(dir["mail"]) \in Nat
    BY <1>3, <1>4
  <2>3. size \in [Reader -> Nat] /\ newsize[r] \in Nat
    BY <1>2
  <2> QED
    BY <2>1, <2>2, <2>3
<1>12. newsize' \in [Reader -> Nat]
  <2>1. \/ newsize' = newsize \/ newsize' = [newsize EXCEPT ![r] = 0]
        \/ dir["mail"] # NoFile /\ newsize' = [newsize EXCEPT ![r] = Size(dir["mail"])]
    BY DEF ReadingStep, StartReading, ReadMail, KillReading, Cksaved, LookForSaved,
        LockForSaved, RestoreByName, RestoreByCopy, AppendSaved, AppendedSaved,
        RemoveSaved, Restored, Printmail, StatMbox, OpenForReading, LockForLoad,
        LoadMail, Loaded, LookForNewMail, LockForReload, LoadNewMail, Reloaded,
        Interrupt, InterruptCopy, Delete,
        Undelete, ExitCommand, Quit, Copyback, LockForRewrite, TakeNewMail,
        MailboxGone, CopybackFails,
        OpenSave, CopyOut, CopyOutFails, UnlinkMbox, RenameSave, RemoveEmpty, CopiedBack,
        LockFails, DoneReading, SignalReading, CrashReading, Stop, readervars
  <2>2. newsize \in [Reader -> Nat] /\ (dir["mail"] # NoFile => Size(dir["mail"]) \in Nat)
    BY <1>2, <1>3, <1>4
  <2> QED
    BY <2>1, <2>2
<1>13. at' \in [Reader -> Nat]
  <2>1. at' = at \/ at' = [at EXCEPT ![r] = 0] \/ at' = [at EXCEPT ![r] = @ + 1]
    BY DEF ReadingStep, StartReading, ReadMail, KillReading, Cksaved, LookForSaved,
        LockForSaved, RestoreByName, RestoreByCopy, AppendSaved, AppendedSaved,
        RemoveSaved, Restored, Printmail, StatMbox, OpenForReading, LockForLoad,
        LoadMail, Loaded, LookForNewMail, LockForReload, LoadNewMail, Reloaded,
        Interrupt, InterruptCopy, Delete,
        Undelete, ExitCommand, Quit, Copyback, LockForRewrite, TakeNewMail,
        MailboxGone, CopybackFails,
        OpenSave, CopyOut, CopyOutFails, UnlinkMbox, RenameSave, RemoveEmpty, CopiedBack,
        LockFails, DoneReading, SignalReading, CrashReading, Stop, readervars
  <2>2. at \in [Reader -> Nat]
    BY <1>2
  <2> QED
    BY <2>1, <2>2
<1>14. sname' \in [Reader -> {"save", "alt"}]
  <2>1. sname' = sname \/ \E n \in {"save", "alt"} : sname' = [sname EXCEPT ![r] = n]
    BY DEF ReadingStep, StartReading, ReadMail, KillReading, Cksaved, LookForSaved,
        LockForSaved, RestoreByName, RestoreByCopy, AppendSaved, AppendedSaved,
        RemoveSaved, Restored, Printmail, StatMbox, OpenForReading, LockForLoad,
        LoadMail, Loaded, LookForNewMail, LockForReload, LoadNewMail, Reloaded,
        Interrupt, InterruptCopy, Delete,
        Undelete, ExitCommand, Quit, Copyback, LockForRewrite, TakeNewMail,
        MailboxGone, CopybackFails,
        OpenSave, CopyOut, CopyOutFails, UnlinkMbox, RenameSave, RemoveEmpty, CopiedBack,
        LockFails, DoneReading, SignalReading, CrashReading, Stop, readervars
  <2> QED
    BY <1>2, <2>1
<1> QED
  BY <1>6, <1>8, <1>9, <1>10, <1>11, <1>12, <1>13, <1>14

-----------------------------------------------------------------------------
(* A temporary file and the table of its letters *)

LEMMA TableMarked ==
    ASSUME NEW t, NEW l, NEW d, TableOK(t, l, d), Last(l) = Len(t), NEW s \in Seq(Block)
    PROVE  /\ TableOK(t \o s, Mark(l, s), d) /\ Last(Mark(l, s)) = Len(t \o s)
           /\ FromEntries(t, l) => FromEntries(t \o s, Mark(l, s))
<1>1. PICK u, v : u = t \o s /\ v = Mark(l, s)
  OBVIOUS
<1>2. t \in Seq(Block) /\ l \in Seq(Nat) /\ l # <<>>
  BY DEF TableOK
<1>3. PICK m \in Nat, n \in Nat : m = Len(t) /\ n = Len(s)
  BY <1>2, LenProperties
<1>4. /\ u \in Seq(Block) /\ Len(u) = m + n
      /\ \A i \in 1..m : u[i] = t[i]
      /\ \A i \in 1..n : u[m + i] = s[i]
  <2>1. /\ u \in Seq(Block) /\ Len(u) = m + n
        /\ \A i \in 1..m + n : u[i] = IF i <= m THEN t[i] ELSE s[i - m]
    BY <1>1, <1>2, <1>3, ConcatProperties
  <2>2. \A i \in 1..m : u[i] = t[i]
    BY <2>1
  <2>3. ASSUME NEW i \in 1..n PROVE u[m + i] = s[i]
    <3>1. m + i \in 1..m + n /\ ~(m + i <= m) /\ m + i - m = i
      OBVIOUS
    <3> QED
      BY <2>1, <3>1
  <2> QED
    BY <2>1, <2>2, <2>3
<1>5. /\ v \in Seq(Nat) /\ v # <<>> /\ Last(v) = m + n
      /\ Len(l) <= Len(v)
      /\ Len(l) - 1 <= MaxLet => Len(v) - 1 <= MaxLet
      /\ \A i \in 1..Len(l) - 1 : v[i] = l[i]
      /\ \A i \in Len(l)..Len(v) - 1 : \E j \in 1..n : v[i] = m + j - 1 /\ IsFrom(s[j])
  <2>1. /\ Mark(l, s) \in Seq(Nat) /\ Mark(l, s) # <<>>
        /\ Len(l) <= Len(Mark(l, s))
        /\ Len(l) - 1 <= MaxLet => Len(Mark(l, s)) - 1 <= MaxLet
        /\ Last(Mark(l, s)) = Last(l) + Len(s)
        /\ \A i \in 1..Len(l) - 1 : Mark(l, s)[i] = l[i]
        /\ \A i \in Len(l)..Len(Mark(l, s)) - 1 :
                \E j \in 1..Len(s) : Mark(l, s)[i] = Last(l) + j - 1 /\ IsFrom(s[j])
    BY <1>2, MarkTable, Zenon
  <2>2. Last(l) = m
    BY <1>3
  <2> QED
    BY <1>1, <1>3, <2>1, <2>2, Zenon
<1>14. PICK p, q : p = Len(l) - 1 /\ q = Len(v) - 1
  OBVIOUS
<1>6. /\ p \in Nat /\ q \in Nat /\ p + 1 = Len(l) /\ p = Len(l) - 1
      /\ q + 1 = Len(v) /\ q = Len(v) - 1 /\ p <= q
  <2>1. Len(l) \in Nat \ {0} /\ Len(v) \in Nat \ {0}
    BY <1>2, <1>5, LenProperties, EmptySeq
  <2> QED
    BY <1>5, <1>14, <2>1
<1>7. \A i \in 1..p : v[i] = l[i]
  BY <1>5, <1>6
<1>8. \A i \in p + 1..q : \E j \in 1..n : v[i] = m + j - 1 /\ IsFrom(s[j])
  BY <1>5, <1>6
<1>9. ASSUME NEW i \in p + 1..q PROVE v[i] < Len(u) /\ IsFrom(u[v[i] + 1])
  <2>1. PICK j \in 1..n : v[i] = m + j - 1 /\ IsFrom(s[j])
    BY <1>8
  <2>2. v[i] + 1 = m + j /\ v[i] < m + n
    BY <2>1
  <2>3. u[m + j] = s[j]
    BY <1>4
  <2> QED
    BY <1>4, <2>1, <2>2, <2>3
<1>10. \A i \in 1..Len(l) : l[i] \in Nat /\ l[i] <= m
  BY <1>2, <1>3, ElementOfSeq DEF TableOK
<1>11. ASSUME NEW i \in 1..q + 1 PROVE v[i] <= m + n
  <2>1. CASE i \in 1..p
    <3>1. i \in 1..Len(l)
      BY <1>6, <2>1
    <3> QED
      BY <1>7, <1>10, <2>1, <3>1
  <2>2. CASE i \in p + 1..q
    <3>1. PICK j \in 1..n : v[i] = m + j - 1
      BY <1>8, <2>2
    <3> QED
      BY <3>1
  <2>3. CASE i = q + 1
    <3>1. v[q + 1] = Last(v)
      BY <1>6 DEF Last
    <3>2. v[i] = m + n /\ m + n <= m + n
      BY <1>5, <2>3, <3>1
    <3> QED
      BY <3>2
  <2>4. i \in 1..p \/ i \in p + 1..q \/ i = q + 1
    <3>1. p \in Nat /\ q \in Nat /\ p <= q
      BY <1>6
    <3>2. i \in Int /\ 1 <= i /\ i <= q + 1
      BY <3>1
    <3> QED
      BY <3>1, <3>2
  <2> QED
    BY <2>1, <2>2, <2>3, <2>4
<1>12. TableOK(u, v, d)
  <2>1. d \subseteq 1..p /\ p <= MaxLet
    BY <1>6 DEF TableOK
  <2>2. d \subseteq 1..q
    BY <1>6, <2>1
  <2>3. q <= MaxLet
    BY <1>5, <1>6, <2>1
  <2>4. \A i \in 1..Len(v) : v[i] <= Len(u)
    BY <1>4, <1>6, <1>11
  <2> QED
    BY <1>4, <1>5, <1>6, <2>2, <2>3, <2>4 DEF TableOK
<1>13. ASSUME FromEntries(t, l), NEW i \in 1..Len(v) - 1
       PROVE  v[i] < Len(u) /\ IsFrom(u[v[i] + 1])
  <2>1. i \in 1..p \/ i \in p + 1..q
    BY <1>6
  <2>2. CASE i \in 1..p
    <3>1. i \in 1..Len(l) - 1 /\ i \in 1..Len(l)
      BY <1>6, <2>2
    <3>2. PICK a \in Nat : a = l[i]
      BY <1>10, <3>1
    <3>3. a < m /\ IsFrom(t[a + 1])
      BY <1>3, <1>13, <3>1, <3>2 DEF FromEntries
    <3>4. a + 1 \in 1..m /\ a < m + n
      BY <3>3
    <3>5. u[a + 1] = t[a + 1]
      BY <1>4, <3>4
    <3>6. v[i] = a
      BY <1>7, <2>2, <3>2
    <3> QED
      BY <1>4, <3>3, <3>4, <3>5, <3>6
  <2> QED
    BY <1>9, <2>1, <2>2
<1> QED
  BY <1>1, <1>4, <1>5, <1>3, <1>12, <1>13 DEF FromEntries

\* A longer temporary file u, of which the table knows the blocks s, perhaps without
\* their end, and perhaps behind an end that is not that of the file.
LEMMA TableGrown ==
    ASSUME NEW t, NEW l, NEW d, TableOK(t, l, d), NEW s \in Seq(Block),
           NEW u \in Seq(Block), Len(t) <= Len(u), Len(t) + Len(s) <= Len(u) + 1
    PROVE  /\ TableOK(u, Unfinished(l, s), d)
           /\ Len(t) + Len(s) <= Len(u) => TableOK(u, Mark(l, s), d)
<1>1. t \in Seq(Block) /\ l \in Seq(Nat) /\ l # <<>>
  BY DEF TableOK
<1>2. PICK m \in Nat, n \in Nat, h \in Nat : m = Len(t) /\ n = Len(s) /\ h = Len(u)
  BY <1>1, LenProperties
<1>3. \A i \in 1..Len(l) : l[i] \in Nat /\ l[i] <= m
  BY <1>1, <1>2, ElementOfSeq DEF TableOK
<1>4. PICK v, e : v = Mark(l, s) /\ e = Last(l)
  OBVIOUS
<1>5. /\ v \in Seq(Nat) /\ v # <<>>
      /\ Len(l) <= Len(v)
      /\ Len(l) - 1 <= MaxLet => Len(v) - 1 <= MaxLet
      /\ Last(v) = e + n
      /\ \A i \in 1..Len(l) - 1 : v[i] = l[i]
      /\ \A i \in Len(l)..Len(v) - 1 :
            \E j \in 1..n : v[i] = e + j - 1 /\ IsFrom(s[j])
  <2>1. /\ Mark(l, s) \in Seq(Nat) /\ Mark(l, s) # <<>>
        /\ Len(l) <= Len(Mark(l, s))
        /\ Len(l) - 1 <= MaxLet => Len(Mark(l, s)) - 1 <= MaxLet
        /\ Last(Mark(l, s)) = Last(l) + Len(s)
        /\ \A i \in 1..Len(l) - 1 : Mark(l, s)[i] = l[i]
        /\ \A i \in Len(l)..Len(Mark(l, s)) - 1 :
                \E j \in 1..Len(s) : Mark(l, s)[i] = Last(l) + j - 1 /\ IsFrom(s[j])
    BY <1>1, MarkTable, Zenon
  <2> QED
    BY <1>2, <1>4, <2>1, Zenon
<1>6. PICK p \in Nat, q \in Nat : /\ p + 1 = Len(l) /\ p = Len(l) - 1
                                /\ q + 1 = Len(v) /\ q = Len(v) - 1 /\ p <= q
  <2>1. Len(l) \in Nat \ {0} /\ Len(v) \in Nat \ {0}
    BY <1>1, <1>5, LenProperties, EmptySeq
  <2>2. PICK p, q : p = Len(l) - 1 /\ q = Len(v) - 1
    OBVIOUS
  <2>3. /\ p \in Nat /\ q \in Nat /\ p + 1 = Len(l) /\ p = Len(l) - 1
        /\ q + 1 = Len(v) /\ q = Len(v) - 1 /\ p <= q
    BY <1>5, <2>1, <2>2
  <2> QED
    BY <2>3
<1>7. e \in Nat /\ e <= m
  <2>1. e = l[p + 1] /\ p + 1 \in 1..Len(l)
    BY <1>4, <1>6 DEF Last
  <2> QED
    BY <1>3, <2>1
<1>8. ASSUME NEW i \in 1..q PROVE v[i] <= h
  <2>1. CASE i \in 1..p
    <3>1. i \in 1..Len(l) /\ i \in 1..Len(l) - 1
      BY <1>6, <2>1
    <3>2. v[i] = l[i] /\ l[i] \in Nat /\ l[i] <= m
      BY <1>3, <1>5, <3>1
    <3> QED
      BY <1>2, <3>2
  <2>2. CASE i \in p + 1..q
    <3>1. PICK j \in 1..n : v[i] = e + j - 1
      BY <1>5, <1>6, <2>2
    <3> QED
      BY <1>2, <1>7, <3>1
  <2>3. i \in 1..p \/ i \in p + 1..q
    <3>1. i \in Nat /\ 1 <= i /\ i <= q /\ p \in Nat
      BY <1>6, <1>8
    <3>2. i <= p \/ p + 1 <= i
      BY <3>1
    <3> QED
      BY <1>6, <3>1, <3>2
  <2> QED
    BY <2>1, <2>2, <2>3
<1>9. v[q + 1] = e + n
  BY <1>5, <1>6 DEF Last
<1>10. d \subseteq 1..q /\ q <= MaxLet
  <2>1. d \subseteq 1..p /\ p <= MaxLet
    BY <1>6 DEF TableOK
  <2> QED
    BY <1>5, <1>6, <2>1
<1>15. \A i \in 1..Len(v) : i \in 1..q \/ i = q + 1
  <2>1. \A i \in 1..q + 1 : i \in 1..q \/ i = q + 1
    <3>1. q \in Nat
      BY <1>6
    <3> QED
      BY <3>1
  <2> QED
    BY <1>6, <2>1
<1>11. ASSUME Len(t) + Len(s) <= Len(u) PROVE TableOK(u, v, d)
  <2>1. e + n <= h
    BY <1>2, <1>7, <1>11
  <2>2. \A i \in 1..Len(v) : v[i] <= h
    BY <1>8, <1>9, <1>15, <2>1
  <2> QED
    BY <1>2, <1>5, <1>6, <1>10, <2>2 DEF TableOK
<1>12. TableOK(u, Unfinished(l, s), d)
  <2>1. CASE Len(v) = Len(l)
    <3>1. Unfinished(l, s) = l
      BY <1>4, <2>1 DEF Unfinished
    <3>2. \A i \in 1..Len(l) : l[i] <= Len(u)
      BY <1>2, <1>3
    <3> QED
      BY <1>1, <3>1, <3>2 DEF TableOK
  <2>2. CASE Len(v) # Len(l)
    <3>1. PICK w : w = Unfinished(l, s)
      OBVIOUS
    <3>2. w = [v EXCEPT ![Len(v)] = 0]
      BY <1>4, <2>2, <3>1 DEF Unfinished
    <3>3. w \in Seq(Nat) /\ Len(w) = Len(v) /\ w # <<>>
      <4>1. w \in Seq(Nat) /\ Len(w) = Len(v)
        BY <1>5, <1>6, <3>2, ReplacedFacts
      <4> QED
        BY <1>6, <4>1, EmptySeq
    <3>4. \A i \in 1..Len(w) : w[i] <= h
      <4>1. \A i \in 1..Len(v) : i \in 1..q \/ i = Len(v)
        BY <1>6, <1>15
      <4>2. \A i \in 1..Len(v) : w[i] = IF i = Len(v) THEN 0 ELSE v[i]
        BY <1>5, <1>6, <3>2, ReplacedFacts
      <4>3. 0 <= h
        BY <1>2
      <4> QED
        BY <1>8, <3>3, <4>1, <4>2, <4>3
    <3> QED
      BY <1>2, <1>6, <1>10, <3>1, <3>3, <3>4 DEF TableOK
  <2> QED
    BY <2>1, <2>2
<1> QED
  BY <1>4, <1>11, <1>12

LEMMA TableLengthened ==
    ASSUME NEW t, NEW l, NEW d, TableOK(t, l, d), NEW s \in Seq(Block), NEW n \in Nat,
           n <= Len(t) + Len(s), Len(l) - 1 < MaxLet
    PROVE  TableOK(t \o s, Append(l, n), d)
<1>1. PICK u, v : u = t \o s /\ v = Append(l, n)
  OBVIOUS
<1>2. t \in Seq(Block) /\ l \in Seq(Nat) /\ l # <<>> /\ \A i \in 1..Len(l) : l[i] <= Len(t)
  BY DEF TableOK
<1>3. PICK m \in Nat, k \in Nat, q \in Nat :
          m = Len(t) /\ k = Len(s) /\ q + 1 = Len(l) /\ q = Len(l) - 1
  <2>1. Len(l) \in Nat \ {0} /\ Len(t) \in Nat /\ Len(s) \in Nat
    BY <1>2, LenProperties, EmptySeq
  <2>2. Len(l) - 1 \in Nat /\ Len(l) - 1 + 1 = Len(l)
    BY <2>1
  <2> QED
    BY <2>1, <2>2
<1>4. u \in Seq(Block) /\ Len(u) = m + k
  BY <1>1, <1>2, <1>3, ConcatProperties
<1>5. /\ v \in Seq(Nat) /\ Len(v) = q + 2 /\ v[q + 2] = n
      /\ \A i \in 1..q + 1 : v[i] = l[i]
  <2>1. /\ v \in Seq(Nat) /\ Len(v) = Len(l) + 1 /\ v[Len(l) + 1] = n
        /\ \A i \in 1..Len(l) : v[i] = l[i]
    BY <1>1, <1>2, AppendFacts
  <2> QED
    BY <1>3, <2>1
<1>6. v # <<>>
  BY <1>5, EmptySeq
<1>7. d \subseteq 1..q /\ q < MaxLet
  BY <1>3 DEF TableOK
<1>8. d \subseteq 1..Len(v) - 1
  BY <1>5, <1>7
<1>9. Len(v) - 1 <= MaxLet
  BY <1>5, <1>7, ReaderAssumption
<1>10. \A i \in 1..q + 1 : l[i] \in Nat /\ l[i] <= m
  BY <1>2, <1>3, ElementOfSeq
<1>11. ASSUME NEW i \in 1..q + 2 PROVE v[i] <= m + k
  <2>1. i \in 1..q + 1 \/ i = q + 2
    OBVIOUS
  <2>2. n <= m + k
    BY <1>3
  <2>3. i \in 1..q + 1 => v[i] \in Nat /\ v[i] <= m
    BY <1>5, <1>10
  <2> QED
    BY <1>5, <2>1, <2>2, <2>3
<1> QED
  BY <1>1, <1>4, <1>5, <1>6, <1>8, <1>9, <1>11 DEF TableOK

LEMMA Joined ==
    ASSUME NEW t \in Seq(Block), NEW s \in Seq(Block)
    PROVE  \E a \in Nat, b \in Nat, u \in Seq(Block) :
               a = Len(t) /\ b = Len(s) /\ u = t \o s /\ Len(u) = a + b
<1>1. Len(t) \in Nat /\ Len(s) \in Nat
  BY LenProperties
<1>2. t \o s \in Seq(Block) /\ Len(t \o s) = Len(t) + Len(s)
  BY ConcatProperties
<1> QED
  BY <1>1, <1>2

LEMMA EndFacts ==
    ASSUME NEW r \in Reader, TableOK(tmp[r], let[r], del[r])
    PROVE  /\ End(r) \in Nat /\ End(r) <= Len(tmp[r]) /\ tmp[r] \in Seq(Block)
           /\ End(r) = Last(let[r])
<1>1. let[r] \in Seq(Nat) /\ let[r] # <<>>
  BY DEF TableOK
<1>2. Len(let[r]) \in 1..Len(let[r])
  BY <1>1, LenProperties, EmptySeq
<1> QED
  BY <1>1, <1>2, ElementOfSeq DEF End, Last, TableOK

\* Nothing was copied: the table is what it was.
LEMMA NothingGrown ==
    ASSUME NEW t, NEW l, NEW d, TableOK(t, l, d), Last(l) = Len(t)
    PROVE  Unfinished(l, <<>>) = l
<1>1. <<>> \in Seq(Block) /\ t \o <<>> = t /\ l \in Seq(Nat) /\ l # <<>>
  BY EmptySeq, ConcatEmptySeq DEF TableOK
<1>2. Len(Mark(l, <<>>)) = Len(l)
  <2>1. /\ Mark(l, <<>>) \in Seq(Nat) /\ Len(l) <= Len(Mark(l, <<>>))
        /\ \A i \in Len(l)..Len(Mark(l, <<>>)) - 1 :
               \E j \in 1..Len(<<>>) :
                  Mark(l, <<>>)[i] = Last(l) + j - 1 /\ IsFrom(<<>>[j])
    BY <1>1, MarkTable, Zenon
  <2>2. PICK a, b : a = Len(l) /\ b = Len(Mark(l, <<>>))
    OBVIOUS
  <2>3. a \in Nat /\ b \in Nat /\ a <= b
    BY <1>1, <2>1, <2>2, LenProperties
  <2>4. Len(<<>>) = 0
    OBVIOUS
  <2>5. \A i \in a..b - 1 : FALSE
    BY <2>1, <2>2, <2>4
  <2>6. a = b
    BY <2>3, <2>5
  <2> QED
    BY <2>2, <2>6
<1> QED
  BY <1>2 DEF Unfinished

LEMMA ReadingTablesTyped ==
    ASSUME TypeInv, NEW r \in Reader, ReadingStep(r)
    PROVE  /\ tmp' \in [Reader -> Seq(Block)] /\ let' \in [Reader -> Seq(Nat)]
           /\ del' \in [Reader -> SUBSET Nat] /\ TablesTyped'
<1>1. /\ tmp \in [Reader -> Seq(Block)] /\ let \in [Reader -> Seq(Nat)]
      /\ del \in [Reader -> SUBSET Nat]
  BY DEF TypeInv, ReaderTyped
<1>2. \A q \in Reader :
        /\ TableOK(tmp[q], let[q], del[q])
        /\ pc[q] \in Fresh => let[q] = <<0>>
        /\ pc[q] \in Reading0 /\ ~cut => End(q) = Len(tmp[q])
  BY DEF TypeInv, TablesTyped
<1>12. ~cut' => ~cut
  BY ReadingVarsTyped
<1>3. /\ data \in [Ino -> Seq(Block)] /\ dir \in [Name -> Ino \cup {NoFile}]
      /\ fd \in [Proc -> Ino \cup {NoFile}] /\ pc \in [Proc -> DelivererLabel \cup ReaderLabel]
      /\ pc[r] \in {"load", "copyin", "append"} => fd[r] \in Ino
  BY DEF TypeInv, StoreTyped, AtTyped
<1>4. \A q \in Reader : pc'[q] = pc[q] \/ q = r
  BY ReadingLabels, StoreAssumption DEF TypeInv
\* It is enough to know what became of the table of r.
<1> DEFINE New(t, l, d) ==
        /\ tmp' = [tmp EXCEPT ![r] = t] /\ let' = [let EXCEPT ![r] = l]
        /\ del' = [del EXCEPT ![r] = d]
        /\ TableOK(t, l, d)
        /\ pc'[r] \in Fresh => l = <<0>>
        /\ pc'[r] \in Reading0 /\ ~cut' => Last(l) = Len(t)
<1>5. ASSUME NEW t, NEW l, NEW d, New(t, l, d)
      PROVE  /\ tmp' \in [Reader -> Seq(Block)] /\ let' \in [Reader -> Seq(Nat)]
             /\ del' \in [Reader -> SUBSET Nat] /\ TablesTyped'
  <2>1. t \in Seq(Block) /\ l \in Seq(Nat) /\ d \subseteq Nat
    <3>1. Len(l) \in Nat
      BY <1>5, LenProperties DEF TableOK
    <3> QED
      BY <1>5, <3>1 DEF TableOK
  <2>2. /\ tmp' \in [Reader -> Seq(Block)] /\ let' \in [Reader -> Seq(Nat)]
        /\ del' \in [Reader -> SUBSET Nat]
    BY <1>1, <1>5, <2>1
  <2>3. tmp'[r] = t /\ let'[r] = l /\ del'[r] = d
    BY <1>1, <1>5
  <2>4. ASSUME NEW q \in Reader
        PROVE  /\ TableOK(tmp'[q], let'[q], del'[q])
               /\ pc'[q] \in Fresh => let'[q] = <<0>>
               /\ pc'[q] \in Reading0 /\ ~cut' => End(q)' = Len(tmp'[q])
    <3>1. CASE q = r
      BY <1>5, <2>3, <3>1 DEF End, Last
    <3>2. CASE q # r
      <4>1. tmp'[q] = tmp[q] /\ let'[q] = let[q] /\ del'[q] = del[q] /\ pc'[q] = pc[q]
        BY <1>1, <1>4, <1>5, <3>2
      <4>2. End(q)' = End(q)
        BY <4>1 DEF End
      <4> QED
        BY <1>2, <1>12, <4>1, <4>2
    <3> QED
      BY <3>1, <3>2
  <2> QED
    BY <2>2, <2>4 DEF TablesTyped
<1>6. CASE StartReading(r)
  <2>1. /\ tmp' = [tmp EXCEPT ![r] = <<>>] /\ let' = [let EXCEPT ![r] = <<0>>]
        /\ del' = [del EXCEPT ![r] = {}]
    BY <1>6 DEF StartReading
  <2>2. TableOK(<<>>, <<0>>, {})
    <3>1. /\ <<>> \in Seq(Block) /\ <<0>> \in Seq(Nat) /\ <<0>> # <<>>
          /\ Len(<<0>>) = 1 /\ <<0>>[1] = 0 /\ Len(<<>>) = 0
      BY EmptySeq
    <3> QED
      BY <3>1, ReaderAssumption DEF TableOK
  <2>3. pc'[r] = "saved?"
    BY <1>3, <1>6, StoreAssumption DEF StartReading, Goto
  <2>4. New(<<>>, <<0>>, {})
    BY <2>1, <2>2, <2>3 DEF Reading0
  <2> QED
    BY <1>5, <2>4
<1>7. CASE LoadMail(r)
  <2>1. pc[r] = "copyin" /\ fd[r] \in Ino /\ UNCHANGED del
    BY <1>3, <1>7 DEF LoadMail
  <2>2. PICK s : s = data[fd[r]] /\ s \in Seq(Block)
    BY <1>3, <2>1
  <2>3. let[r] = <<0>>
    BY <1>2, <2>1 DEF Fresh
  <2>4. CASE pc'[r] = "done" /\ UNCHANGED <<tmp, let>>
    <3>1. New(tmp[r], let[r], del[r])
      BY <1>1, <1>2, <2>1, <2>4 DEF Fresh, Reading0
    <3> QED
      BY <1>5, <3>1
  <2>5. CASE /\ tmp' = [tmp EXCEPT ![r] = s] /\ let' = [let EXCEPT ![r] = Mark(let[r], s)]
             /\ pc'[r] = "loaded"
    <3>1. TableOK(<<>>, <<0>>, del[r]) /\ Last(<<0>>) = Len(<<>>)
      <4>1. /\ <<>> \in Seq(Block) /\ <<0>> \in Seq(Nat) /\ <<0>> # <<>>
            /\ Len(<<0>>) = 1 /\ <<0>>[1] = 0 /\ Len(<<>>) = 0
        BY EmptySeq
      <4>2. del[r] \subseteq 1..0
        BY <1>2, <2>3, <4>1 DEF TableOK
      <4> QED
        BY <4>1, <4>2, ReaderAssumption DEF TableOK, Last
    <3>2. TableOK(<<>> \o s, Mark(<<0>>, s), del[r]) /\ Last(Mark(<<0>>, s)) = Len(<<>> \o s)
      BY <2>2, <3>1, TableMarked
    <3>3. <<>> \o s = s
      BY <2>2, ConcatEmptySeq
    <3>4. PICK l : l = Mark(<<0>>, s)
      OBVIOUS
    <3>5. del' = [del EXCEPT ![r] = del[r]]
      BY <1>1, <2>1
    <3>6. New(s, l, del[r])
      BY <2>3, <2>5, <3>2, <3>3, <3>4, <3>5 DEF Fresh
    <3> QED
      BY <1>5, <3>6
  <2> QED
    BY <1>3, <1>7, <2>2, <2>4, <2>5, StoreAssumption DEF LoadMail, Goto
\* What is new in the mailbox.
<1>13. ASSUME dir["mail"] # NoFile
       PROVE  SubSeq(data[dir["mail"]], End(r) + 1, Size(dir["mail"])) \in Seq(Block)
  <2>1. PICK x \in Seq(Block) : x = data[dir["mail"]]
    BY <1>3, <1>13 DEF Name
  <2>2. End(r) \in Nat
    BY <1>2, EndFacts
  <2>3. PICK a \in Nat, b \in Nat : a = End(r) + 1 /\ b = Len(x)
    BY <2>1, <2>2, LenProperties
  <2>4. \A k \in a..b : x[k] \in Block
    <3>1. \A k \in a..b : k \in 1..Len(x)
      BY <2>2, <2>3
    <3> QED
      BY <2>1, <3>1, ElementOfSeq
  <2>5. SubSeq(x, a, b) \in Seq(Block)
    BY <2>4, SubSeqProperties
  <2> QED
    BY <2>1, <2>3, <2>5 DEF Size
<1>8. CASE LoadNewMail(r)
  <2>1. pc[r] = "copymore" /\ UNCHANGED del
    BY <1>8 DEF LoadNewMail
  <2>2. CASE pc'[r] = "done" /\ UNCHANGED <<tmp, let>>
    <3>1. New(tmp[r], let[r], del[r])
      BY <1>1, <1>2, <2>1, <2>2 DEF Fresh, Reading0
    <3> QED
      BY <1>5, <3>1
  <2>3. ASSUME dir["mail"] # NoFile, NEW s,
               s = SubSeq(data[dir["mail"]], End(r) + 1, Size(dir["mail"])),
               tmp' = [tmp EXCEPT ![r] = @ \o s], let' = [let EXCEPT ![r] = Mark(@, s)],
               pc'[r] = "reloaded"
        PROVE  TablesTyped' /\ tmp' \in [Reader -> Seq(Block)]
               /\ let' \in [Reader -> Seq(Nat)] /\ del' \in [Reader -> SUBSET Nat]
    <3>1. s \in Seq(Block) /\ tmp[r] \in Seq(Block)
      BY <1>2, <1>13, <2>3 DEF TableOK
    <3>2. PICK a \in Nat, b \in Nat, u \in Seq(Block) :
              a = Len(tmp[r]) /\ b = Len(s) /\ u = tmp[r] \o s /\ Len(u) = a + b
      BY <3>1, Joined
    <3>3. a <= Len(u) /\ a + b <= Len(u) + 1 /\ a + b <= Len(u)
      BY <3>2
    <3>6. TableOK(tmp[r] \o s, Mark(let[r], s), del[r])
      BY <1>2, <3>1, <3>2, <3>3, TableGrown
    <3>7. ~cut' => Last(Mark(let[r], s)) = Len(tmp[r] \o s)
      <4>1. ~cut' => Last(let[r]) = Len(tmp[r])
        BY <1>2, <1>12, <2>1 DEF Reading0, End, Last
      <4> QED
        BY <1>2, <3>1, <4>1, TableMarked
    <3>8. PICK t, l : t = tmp[r] \o s /\ l = Mark(let[r], s)
      OBVIOUS
    <3>9. del' = [del EXCEPT ![r] = del[r]]
      BY <1>1, <2>1
    <3>10. New(t, l, del[r])
      BY <2>3, <3>6, <3>7, <3>8, <3>9 DEF Fresh
    <3> QED
      BY <1>5, <3>10
  <2> QED
    BY <1>3, <1>8, <2>2, <2>3, StoreAssumption DEF LoadNewMail, Goto
<1>14. CASE InterruptCopy(r)
  <2>1. /\ pc[r] = "copymore" /\ UNCHANGED del /\ dir["mail"] # NoFile /\ pc'[r] = "prompt"
    BY <1>3, <1>14, StoreAssumption DEF InterruptCopy, Goto
  <2>2. PICK s \in Seq(Block) :
              s = SubSeq(data[dir["mail"]], End(r) + 1, Size(dir["mail"]))
    BY <1>13, <2>1
  <2>3. ~cut' => Last(let[r]) = Len(tmp[r])
    BY <1>2, <1>12, <2>1 DEF Reading0, End, Last
  <2>4. del' = [del EXCEPT ![r] = del[r]]
    BY <1>1, <2>1
  <2>5. CASE tmp' = [tmp EXCEPT ![r] = @ \o s] /\ let' = [let EXCEPT ![r] = Mark(@, s)]
    <3>1. tmp[r] \in Seq(Block)
      BY <1>2 DEF TableOK
    <3>2. PICK a \in Nat, b \in Nat, u \in Seq(Block) :
              a = Len(tmp[r]) /\ b = Len(s) /\ u = tmp[r] \o s /\ Len(u) = a + b
      BY <3>1, Joined
    <3>3. a <= Len(u) /\ a + b <= Len(u) + 1 /\ a + b <= Len(u)
      BY <3>2
    <3>4. TableOK(tmp[r] \o s, Mark(let[r], s), del[r])
      BY <1>2, <3>2, <3>3, TableGrown
    <3>5. ~cut' => Last(Mark(let[r], s)) = Len(tmp[r] \o s)
      BY <1>2, <2>3, TableMarked
    <3>6. PICK t, l : t = tmp[r] \o s /\ l = Mark(let[r], s)
      OBVIOUS
    <3>7. New(t, l, del[r])
      BY <2>1, <2>4, <2>5, <3>4, <3>5, <3>6 DEF Fresh
    <3> QED
      BY <1>5, <3>7
  <2>6. ASSUME NEW n \in 0..Len(s), NEW k \in 0..Len(s), n \in {k, k + 1},
               tmp' = [tmp EXCEPT ![r] = @ \o SubSeq(s, 1, k)],
               let' = [let EXCEPT ![r] = Unfinished(@, SubSeq(s, 1, n))],
               cut' = (cut \/ n > 0)
        PROVE  TablesTyped' /\ tmp' \in [Reader -> Seq(Block)]
               /\ let' \in [Reader -> Seq(Nat)] /\ del' \in [Reader -> SUBSET Nat]
    <3>1. PICK x, y : x = SubSeq(s, 1, k) /\ y = SubSeq(s, 1, n)
      OBVIOUS
    <3>2. x \in Seq(Block) /\ Len(x) = k /\ y \in Seq(Block) /\ Len(y) = n
      <4>1. Len(s) \in Nat /\ \A i \in 1..Len(s) : s[i] \in Block
        BY LenProperties, ElementOfSeq
      <4>2. \A c \in 0..Len(s) : SubSeq(s, 1, c) \in Seq(Block) /\ Len(SubSeq(s, 1, c)) = c
        BY <4>1, SubSeqProperties
      <4> QED
        BY <3>1, <4>2
    <3>3. tmp[r] \in Seq(Block)
      BY <1>2 DEF TableOK
    <3>4. PICK a \in Nat, b \in Nat, u \in Seq(Block) :
              a = Len(tmp[r]) /\ b = Len(x) /\ u = tmp[r] \o x /\ Len(u) = a + b
      BY <3>2, <3>3, Joined
    <3>5. k \in Nat /\ n \in Nat /\ n <= k + 1
      BY <2>2, <2>6, LenProperties
    <3>6. a <= Len(u) /\ a + n <= Len(u) + 1
      BY <3>2, <3>4, <3>5
    <3>7. TableOK(u, Unfinished(let[r], y), del[r])
      BY <1>2, <3>2, <3>4, <3>6, TableGrown
    <3>8. ~cut' => Last(Unfinished(let[r], y)) = Len(u)
      <4>1. CASE n > 0
        BY <2>6, <4>1
      <4>2. CASE ~(n > 0)
        <5>1. n = 0 /\ k = 0
          BY <2>6, <3>5, <4>2
        <5>2. y = <<>> /\ x = <<>>
          BY <3>2, <5>1, EmptySeq
        <5>3. u = tmp[r]
          BY <3>3, <3>4, <5>2, ConcatEmptySeq
        <5>4. ~cut' => Unfinished(let[r], <<>>) = let[r]
          BY <1>2, <2>3, NothingGrown
        <5> QED
          BY <2>3, <5>2, <5>3, <5>4
      <4> QED
        BY <4>1, <4>2
    <3>9. PICK l : l = Unfinished(let[r], y)
      OBVIOUS
    <3>10. New(u, l, del[r])
      BY <2>1, <2>4, <2>6, <3>1, <3>4, <3>7, <3>8, <3>9 DEF Fresh
    <3> QED
      BY <1>5, <3>10
  <2> QED
    BY <1>14, <2>2, <2>5, <2>6 DEF InterruptCopy
<1>9. CASE TakeNewMail(r)
  <2>1. pc[r] = "newmail" /\ dir["mail"] # NoFile /\ UNCHANGED del
        /\ pc'[r] \in {"opensave", "done"}
    BY <1>3, <1>9, StoreAssumption DEF TakeNewMail, Goto
  <2>2. CASE UNCHANGED <<tmp, let>>
    <3>1. New(tmp[r], let[r], del[r])
      BY <1>1, <1>2, <2>1, <2>2 DEF Fresh, Reading0
    <3> QED
      BY <1>5, <3>1
  <2>3. PICK x : x = data[dir["mail"]] /\ x \in Seq(Block)
    BY <1>3, <2>1 DEF Name
  <2>4. CASE /\ nlet(r) < MaxLet
             /\ tmp' = [tmp EXCEPT ![r] = @ \o SubSeq(x, End(r) + 1, Len(x))]
             /\ let' = [let EXCEPT ![r] = Append(@, Len(x))]
    <3>1. End(r) \in Nat /\ End(r) <= Len(tmp[r]) /\ tmp[r] \in Seq(Block)
      BY <1>2, EndFacts
    <3>2. PICK a \in Nat, b \in Nat : a = End(r) /\ b = Len(x) /\ a <= Len(tmp[r])
      BY <2>3, <3>1, LenProperties
    <3>3. PICK s : s = SubSeq(x, a + 1, b)
      OBVIOUS
    <3>4. \A k \in a + 1..b : x[k] \in Block
      <4>1. \A k \in a + 1..b : k \in 1..Len(x)
        BY <3>2
      <4> QED
        BY <2>3, <4>1, ElementOfSeq
    <3>5. s \in Seq(Block) /\ Len(s) \in Nat /\ b <= a + Len(s)
      <4>1. PICK c \in Nat : c = a + 1
        OBVIOUS
      <4>2. /\ SubSeq(x, c, b) \in Seq(Block)
            /\ Len(SubSeq(x, c, b)) = IF c <= b THEN b - c + 1 ELSE 0
        BY <3>4, <4>1, SubSeqProperties
      <4>3. s = SubSeq(x, c, b)
        BY <3>3, <4>1
      <4>4. Len(s) = IF c <= b THEN b - c + 1 ELSE 0
        BY <4>2, <4>3
      <4> QED
        BY <4>1, <4>2, <4>3, <4>4
    <3>6. b <= Len(tmp[r]) + Len(s)
      <4>1. Len(tmp[r]) \in Nat
        BY <3>1, LenProperties
      <4> QED
        BY <3>2, <3>5, <4>1
    <3>7. Len(let[r]) - 1 < MaxLet
      BY <2>4 DEF nlet
    <3>8. TableOK(tmp[r] \o s, Append(let[r], b), del[r])
      BY <1>2, <3>5, <3>6, <3>7, TableLengthened
    <3>9. PICK t, l : t = tmp[r] \o s /\ l = Append(let[r], b)
      OBVIOUS
    <3>10. del' = [del EXCEPT ![r] = del[r]]
      BY <1>1, <2>1
    <3>11. New(t, l, del[r])
      BY <2>1, <2>4, <3>2, <3>3, <3>8, <3>9, <3>10 DEF Fresh, Reading0
    <3> QED
      BY <1>5, <3>11
  <2> QED
    BY <1>9, <2>2, <2>3, <2>4 DEF TakeNewMail
<1>10. CASE Delete(r) \/ Undelete(r)
  <2>1. /\ pc[r] = "command" /\ pc'[r] = "prompt" /\ UNCHANGED <<tmp, let>>
        /\ \E d : d \subseteq del[r] \cup (1..nlet(r)) /\ del' = [del EXCEPT ![r] = d]
    BY <1>3, <1>10, StoreAssumption DEF Delete, Undelete, Goto
  <2>2. PICK d : d \subseteq del[r] \cup (1..nlet(r)) /\ del' = [del EXCEPT ![r] = d]
    BY <2>1
  <2>3. TableOK(tmp[r], let[r], d)
    BY <1>2, <2>2 DEF TableOK, nlet
  <2>4. ~cut' => Last(let[r]) = Len(tmp[r])
    BY <1>2, <1>12, <2>1 DEF Reading0, End, Last
  <2>5. New(tmp[r], let[r], d)
    BY <1>1, <2>1, <2>2, <2>3, <2>4 DEF Fresh
  <2> QED
    BY <1>5, <2>5
<1>11. CASE UNCHANGED <<tmp, let, del>> /\ ~StartReading(r) /\ ~LoadMail(r)
  <2>1. /\ pc'[r] \in Fresh => pc[r] \in Fresh
        /\ pc'[r] \in Reading0 => pc[r] \in Reading0
    BY <1>3, <1>11, StoreAssumption DEF ReadingStep, ReadMail, KillReading, Cksaved, LookForSaved,
        LockForSaved, RestoreByName, RestoreByCopy, AppendSaved, AppendedSaved,
        RemoveSaved, Restored, Printmail, StatMbox, OpenForReading, LockForLoad,
        Loaded, LookForNewMail, LockForReload, LoadNewMail, Reloaded, Interrupt,
        InterruptCopy, Delete,
        Undelete, ExitCommand, Quit, Copyback, LockForRewrite, TakeNewMail,
        MailboxGone, CopybackFails,
        OpenSave, CopyOut, CopyOutFails, UnlinkMbox, RenameSave, RemoveEmpty, CopiedBack,
        LockFails, DoneReading, SignalReading, CrashReading, Stop, LockFor, Leave, AskThen, TakeAt, Goto,
        Fresh, Reading0
  <2>2. New(tmp[r], let[r], del[r])
    BY <1>1, <1>2, <1>11, <1>12, <2>1 DEF End, Last
  <2> QED
    BY <1>5, <2>2
<1> QED
  BY <1>6, <1>7, <1>8, <1>9, <1>10, <1>11, <1>14, ReadingTables

LEMMA ReadingTyped ==
    ASSUME TypeInv, NEW r \in Reader, ReadingStep(r)
    PROVE  TypeInv'
<1>1. r \in Proc /\ Reader \subseteq Proc /\ Deliverer \subseteq Proc /\ r \notin Deliverer
  BY StoreAssumption
<1>2. /\ MboxLockTypeOK'
      /\ \A q \in Proc \ {r} : locked'[q] = locked[q] /\ pc'[q] = pc[q]
      /\ pc' \in [Proc -> DelivererLabel \cup ReaderLabel]
      /\ pc'[r] \in ReaderLabel
      /\ pc'[r] \in Held => locked'[r]
  BY ReadingLabels DEF TypeInv
<1>3. StoreTyped'
  BY ReadingFilesTyped, ReadingVarsTyped DEF StoreTyped
<1>4. UNCHANGED delivervars
  BY DEF ReadingStep
<1>5. DeliverTyped'
  BY <1>4 DEF TypeInv, DeliverTyped, delivervars
<1>6. ReaderTyped'
  BY ReadingVarsTyped, ReadingTablesTyped DEF ReaderTyped
<1>7. TablesTyped'
  BY ReadingTablesTyped
<1>8. AtTyped'
  <2>1. AtTyped
    BY DEF TypeInv
  <2>2. \A d \in Deliverer : pc'[d] = pc[d] /\ fd'[d] = fd[d]
    BY <1>1, <1>2, ReadingVarsTyped
  <2>3. \A q \in Reader \ {r} : pc'[q] = pc[q] /\ fd'[q] = fd[q] /\ ofd'[q] = ofd[q]
    BY <1>1, <1>2, ReadingVarsTyped
  <2>4. \A p \in Proc : pc'[p] \in Held => locked'[p]
    BY <1>2, <2>1 DEF AtTyped
  <2>5. /\ pc'[r] \in {"load", "copyin", "append"} => fd'[r] \in Ino
        /\ pc'[r] \in {"append", "copyout"} => ofd'[r] \in Ino
    BY ReadingVarsTyped
  <2> QED
    BY <1>2, <2>1, <2>2, <2>3, <2>4, <2>5 DEF AtTyped
<1> QED
  BY <1>2, <1>3, <1>5, <1>6, <1>7, <1>8 DEF TypeInv

LEMMA BreakingTyped ==
    ASSUME TypeInv, NEW p \in Proc, BreakStale(p), UNCHANGED <<delivervars, readervars>>
    PROVE  TypeInv'
<1>1. MboxLockTypeOK' /\ UNCHANGED locked
  BY LockSteps DEF TypeInv, BreakStale
<1>2. UNCHANGED <<data, dir, pc, runs, fd, accepted, purged, crowd, killed, cut>>
  BY DEF BreakStale, storevars
<1>3. UNCHANGED <<seen, pos, errno, status, tmp, let, del, size, newsize, ofd, sname, at>>
  BY DEF delivervars, readervars
<1>4. \A r \in Reader : End(r)' = End(r)
  BY <1>3 DEF End
<1> QED
  BY <1>1, <1>2, <1>3, <1>4 DEF TypeInv, StoreTyped, DeliverTyped, ReaderTyped, AtTyped,
                                TablesTyped

LEMMA StutterTyped ==
    ASSUME TypeInv, UNCHANGED vars
    PROVE  TypeInv'
<1>1. UNCHANGED <<holder, locked, curlock, data, dir, pc, runs, fd, accepted, purged,
                  crowd, killed, cut>>
  BY DEF vars, mboxlock, storevars
<1>2. UNCHANGED <<seen, pos, errno, status, tmp, let, del, size, newsize, ofd, sname, at>>
  BY DEF vars, delivervars, readervars
<1>3. \A r \in Reader : End(r)' = End(r)
  BY <1>2 DEF End
<1> QED
  BY <1>1, <1>2, <1>3 DEF TypeInv, MboxLockTypeOK, StoreTyped, DeliverTyped, ReaderTyped,
                          AtTyped, TablesTyped

-----------------------------------------------------------------------------
(* The letters there are at the start *)

LEMMA SetToSeqFacts ==
    ASSUME NEW S, IsFiniteSet(S)
    PROVE  SetToSeq(S) \in Seq(S)
<1>1. PICK n \in Nat : n = Cardinality(S) /\ ExistsBijection(1..n, S)
  BY FS_CardinalityType
<1>2. \E f \in [1..n -> S] : IsInjective(f)
  BY <1>1 DEF ExistsBijection, Bijection, Injection
<1>3. SetToSeq(S) \in [1..n -> S]
  BY <1>1, <1>2 DEF SetToSeq
<1> QED
  BY <1>3, SeqDef

LEMMA WholeConcat ==
    ASSUME NEW s \in Seq(Block), NEW t \in Seq(Block)
    PROVE  Whole(s) \cup Whole(t) \subseteq Whole(s \o t)
<1>1. PICK u : u = s \o t
  OBVIOUS
<1>2. PICK m \in Nat, n \in Nat : m = Len(s) /\ n = Len(t)
  BY LenProperties
<1>3. Len(u) = m + n /\ \A i \in 1..m + n : u[i] = IF i <= m THEN s[i] ELSE t[i - m]
  BY <1>1, <1>2, ConcatProperties
<1>4. ASSUME NEW l \in Whole(s) PROVE l \in Whole(u)
  <2>1. PICK i \in 1..m - 1 : s[i] = From(l) /\ s[i + 1] = Rest(l)
    BY <1>2 DEF Whole
  <2>2. i \in 1..m + n - 1 /\ i \in 1..m + n /\ i + 1 \in 1..m + n /\ i <= m /\ i + 1 <= m
    OBVIOUS
  <2>3. u[i] = From(l) /\ u[i + 1] = Rest(l)
    BY <1>3, <2>1, <2>2
  <2> QED
    BY <1>3, <2>2, <2>3 DEF Whole
<1>5. ASSUME NEW l \in Whole(t) PROVE l \in Whole(u)
  <2>1. PICK i \in 1..n - 1 : t[i] = From(l) /\ t[i + 1] = Rest(l)
    BY <1>2 DEF Whole
  <2>2. PICK j \in Nat : j = m + i
    OBVIOUS
  <2>3. /\ j \in 1..m + n - 1 /\ j \in 1..m + n /\ j + 1 \in 1..m + n
        /\ ~(j <= m) /\ ~(j + 1 <= m) /\ j - m = i /\ j + 1 - m = i + 1
    BY <2>2
  <2>4. u[j] = From(l) /\ u[j + 1] = Rest(l)
    BY <1>3, <2>1, <2>3, SMTT(30)
  <2> QED
    BY <1>3, <2>3, <2>4 DEF Whole
<1> QED
  BY <1>1, <1>4, <1>5

\* The letters in the mailbox at the start, one after the other.
LEMMA StartFacts ==
    ASSUME StoreInit
    PROVE  /\ OldMail \in Seq(Letter)
           /\ data[1] \in Seq(Block) /\ ToSet(OldMail) \subseteq Whole(data[1])
<1>1. PICK o : o = OldMail
  OBVIOUS
<1>2. Old \subseteq Letter
  BY DEF Letter
<1>3. o \in Seq(Letter)
  <2>1. o \in Seq(Old)
    BY <1>1, SetToSeqFacts, StoreAssumption DEF OldMail
  <2> QED
    BY <1>2, <2>1, SeqMonotonic
<1>4. PICK n \in Nat : n = Len(o)
  BY <1>3, LenProperties
<1>5. PICK s : s = [k \in 1..n |-> <<From(o[k]), Rest(o[k])>>]
  OBVIOUS
<1>6. \A k \in 1..n : o[k] \in Letter
  BY <1>3, <1>4, ElementOfSeq
<1>7. ASSUME NEW l \in Letter
      PROVE  <<From(l), Rest(l)>> \in Seq(Block) /\ l \in Whole(<<From(l), Rest(l)>>)
  <2>1. From(l) \in Block /\ Rest(l) \in Block
    BY DEF From, Rest, Block
  <2>2. PICK a, b : a = From(l) /\ b = Rest(l)
    OBVIOUS
  <2>3. /\ <<a, b>> \in Seq(Block) /\ Len(<<a, b>>) = 2
        /\ <<a, b>>[1] = a /\ <<a, b>>[2] = b
    BY <2>1, <2>2
  <2>4. 1 \in 1..2 - 1 /\ 1 + 1 = 2
    OBVIOUS
  <2>5. \E i \in 1..Len(<<a, b>>) - 1 : <<a, b>>[i] = a /\ <<a, b>>[i + 1] = b
    BY <2>3, <2>4
  <2> QED
    BY <2>2, <2>3, <2>5 DEF Whole
<1>8. s \in [1..n -> Seq(Block)]
  BY <1>5, <1>6, <1>7
<1>9. s \in Seq(Seq(Block)) /\ Len(s) = n
  BY <1>8, SeqDef
<1>10. PICK g \in [0..n -> Seq(Block)] :
          g[0] = <<>> /\ FlattenSeq(s) = g[n] /\ \A k \in 1..n : g[k] = g[k - 1] \o s[k]
  BY <1>9, FlattenParts
<1> DEFINE P == {m \in Nat : m <= n => \A k \in 1..m : o[k] \in Whole(g[m])}
<1>11. 0 \in P
  OBVIOUS
<1>12. ASSUME NEW m \in Nat, m \in P PROVE m + 1 \in P
  <2> SUFFICES ASSUME m + 1 <= n PROVE \A k \in 1..m + 1 : o[k] \in Whole(g[m + 1])
    OBVIOUS
  <2>1. PICK p \in 1..n : p = m + 1 /\ p - 1 = m
    OBVIOUS
  <2>2. p \in 0..n /\ p - 1 \in 0..n
    OBVIOUS
  <2>3. g[p - 1] \in Seq(Block) /\ s[p] \in Seq(Block) /\ g[p] = g[p - 1] \o s[p]
    BY <1>8, <1>10, <2>2
  <2>4. Whole(g[p - 1]) \cup Whole(s[p]) \subseteq Whole(g[p])
    BY <2>3, WholeConcat
  <2>5. o[p] \in Whole(s[p])
    BY <1>5, <1>6, <1>7
  <2>6. \A k \in 1..p - 1 : o[k] \in Whole(g[p - 1])
    BY <1>12, <2>1
  <2>7. \A k \in 1..p : k \in 1..p - 1 \/ k = p
    OBVIOUS
  <2>8. \A k \in 1..p : o[k] \in Whole(g[p])
    BY <2>4, <2>5, <2>6, <2>7
  <2> QED
    BY <2>1, <2>8
<1>13. Nat \subseteq P
  <2> HIDE DEF P
  <2> QED
    BY <1>11, <1>12, SetInduction
<1>14. \A k \in 1..n : o[k] \in Whole(g[n])
  BY <1>13
<1>15. data[1] = FlattenSeq(s)
  BY <1>1, <1>4, <1>5, StoreAssumption DEF StoreInit
<1>16. ToSet(o) \subseteq Whole(g[n])
  <2>1. \A x \in ToSet(o) : \E k \in 1..n : x = o[k]
    BY <1>3, <1>4, LenProperties DEF ToSet
  <2> QED
    BY <1>14, <2>1
<1> QED
  BY <1>1, <1>3, <1>10, <1>15, <1>16

-----------------------------------------------------------------------------
(* Types *)

LEMMA TypedAtStart ==
    ASSUME MailInit
    PROVE  TypeInv
<1> USE DEF MailInit
<1>1. MboxLockTypeOK
  BY DEF MboxLockInit, MboxLockTypeOK
<1>2. StoreTyped
  <2>1. data \in [Ino -> Seq(Block)]
    <3>1. data[1] \in Seq(Block)
      BY StartFacts
    <3>2. <<>> \in Seq(Block)
      BY EmptySeq
    <3>3. DOMAIN data = Ino /\ \A i \in Ino \ {1} : data[i] = <<>>
      BY DEF StoreInit
    <3>4. PICK x : x = data[1]
      OBVIOUS
    <3>5. data = [i \in Ino |-> IF i = 1 THEN x ELSE <<>>]
      BY <3>4, StoreAssumption DEF StoreInit
    <3> QED
      BY <3>1, <3>2, <3>4, <3>5
  <2>2. /\ dir \in [Name -> Ino \cup {NoFile}]
        /\ \A n, m \in Name : dir[n] = dir[m] /\ dir[n] # NoFile => n = m
    BY StoreAssumption DEF StoreInit
  <2>3. /\ runs \in [Proc -> 0..MaxReads + MaxTries] /\ fd \in [Proc -> Ino \cup {NoFile}]
        /\ purged \subseteq Letter
        /\ crowd \in BOOLEAN /\ killed \in BOOLEAN /\ cut \in BOOLEAN
    <3>1. 0 \in 0..MaxReads + MaxTries
      BY StoreAssumption
    <3> QED
      BY <3>1 DEF StoreInit
  <2>4. accepted \in Seq(Letter)
    BY StartFacts DEF StoreInit
  <2> QED
    BY <2>1, <2>2, <2>3, <2>4 DEF StoreTyped
<1>3. DeliverTyped
  BY DEF DeliverInit, DeliverTyped
<1>4. <<>> \in Seq(Block) /\ <<0>> \in Seq(Nat) /\ <<0>> # <<>> /\ Len(<<0>>) = 1
      /\ <<0>>[1] = 0 /\ Len(<<>>) = 0
  BY EmptySeq
<1>5. ReaderTyped
  <2>1. tmp \in [Reader -> Seq(Block)] /\ let \in [Reader -> Seq(Nat)]
    BY <1>4 DEF ReaderInit
  <2>2. /\ del \in [Reader -> SUBSET Nat] /\ size \in [Reader -> Nat]
        /\ newsize \in [Reader -> Nat] /\ at \in [Reader -> Nat]
        /\ ofd \in [Reader -> Ino \cup {NoFile}] /\ sname \in [Reader -> {"save", "alt"}]
    BY DEF ReaderInit
  <2> QED
    BY <2>1, <2>2 DEF ReaderTyped
<1>6. pc = [p \in Proc |-> "idle"]
  BY DEF StoreInit
<1>7. AtTyped
  BY <1>6, StoreAssumption DEF AtTyped, DelivererLabel, ReaderLabel, Held
<1>8. TablesTyped
  <2>1. TableOK(<<>>, <<0>>, {})
    BY <1>4, ReaderAssumption DEF TableOK
  <2>2. \A r \in Reader : tmp[r] = <<>> /\ let[r] = <<0>> /\ del[r] = {}
    BY DEF ReaderInit
  <2>3. \A r \in Reader : pc[r] \notin Reading0
    BY <1>6, StoreAssumption DEF Reading0
  <2> QED
    BY <2>1, <2>2, <2>3 DEF TablesTyped
<1> QED
  BY <1>1, <1>2, <1>3, <1>5, <1>7, <1>8 DEF TypeInv

LEMMA StepTyped ==
    ASSUME TypeInv, [MailNext]_vars
    PROVE  TypeInv'
<1>1. ASSUME NEW d \in Deliverer, DeliveryStep(d) PROVE TypeInv'
  BY <1>1, DeliveryTyped
<1>2. ASSUME NEW r \in Reader, ReadingStep(r) PROVE TypeInv'
  BY <1>2, ReadingTyped
<1>3. ASSUME NEW p \in Proc, BreakStale(p), UNCHANGED <<delivervars, readervars>>
      PROVE  TypeInv'
  BY <1>3, BreakingTyped
<1>4. CASE UNCHANGED vars
  BY <1>4, StutterTyped
<1> QED
  BY <1>1, <1>2, <1>3, <1>4 DEF MailNext, DeliveryStep, ReadingStep

\* Whatever fails, whoever is killed and however many run mail at once, no call is
\* made on a file that is not there and the table of letters does not overflow:
\* copymt(), copyback() and their callers keep to MAXLET and to the temporary file.
THEOREM MailTyped == MailSpec => []MailTypeOK
<1>1. MailInit => TypeInv
  BY TypedAtStart
<1>2. TypeInv /\ [MailNext]_vars => TypeInv'
  BY StepTyped
<1>3. TypeInv => MailTypeOK
  <2> SUFFICES ASSUME TypeInv PROVE MailTypeOK
    OBVIOUS
  <2>1. ASSUME NEW r \in Reader PROVE del[r] \subseteq 1..nlet(r) /\ nlet(r) <= MaxLet + 1
    <3>1. TableOK(tmp[r], let[r], del[r])
      BY DEF TypeInv, TablesTyped
    <3>2. Len(let[r]) \in Nat
      BY <3>1, LenProperties DEF TableOK
    <3> QED
      BY <3>1, <3>2, ReaderAssumption DEF TableOK, nlet
  <2> QED
    BY <2>1 DEF TypeInv, MailTypeOK, StoreTyped, DeliverTyped, ReaderTyped
<1> QED
  BY <1>1, <1>2, <1>3, PTL DEF MailSpec

-----------------------------------------------------------------------------
(* Prefixes *)

LEMMA PrefixAppend ==
    ASSUME NEW S, NEW s \in Seq(S), NEW t \in Seq(S), NEW e \in S, IsPrefix(s, t)
    PROVE  IsPrefix(s, Append(t, e))
<1>1. PICK m \in Nat, n \in Nat : m = Len(s) /\ n = Len(t)
  BY LenProperties
<1>2. m <= n /\ \A i \in 1..m : s[i] = t[i]
  BY <1>1, PrefixFacts
<1>3. PICK u : u = Append(t, e)
  OBVIOUS
<1>4. u \in Seq(S) /\ Len(u) = n + 1 /\ \A i \in 1..n : u[i] = t[i]
  BY <1>1, <1>3, AppendFacts
<1>5. m <= Len(u) /\ \A i \in 1..m : s[i] = u[i]
  <2>1. \A i \in 1..m : i \in 1..n
    BY <1>2
  <2> QED
    BY <1>2, <1>4, <2>1
<1> QED
  BY <1>1, <1>3, <1>4, <1>5, PrefixFacts

LEMMA PrefixCut ==
    ASSUME NEW S, NEW s \in Seq(S), NEW t \in Seq(S), NEW n \in Nat, Len(s) <= n,
           IsPrefix(s, t)
    PROVE  IsPrefix(s, CutTo(t, n))
<1>1. PICK m \in Nat, k \in Nat : m = Len(s) /\ k = Len(t)
  BY LenProperties
<1>2. m <= k /\ \A i \in 1..m : s[i] = t[i]
  BY <1>1, PrefixFacts
<1>3. PICK u : u = CutTo(t, n)
  OBVIOUS
<1>4. /\ u \in Seq(S) /\ Len(u) = IF n < k THEN n ELSE k
      /\ \A i \in 1..Len(u) : u[i] = t[i]
  BY <1>1, <1>3, Cutting
<1>5. m <= Len(u) /\ \A i \in 1..m : i \in 1..Len(u)
  BY <1>1, <1>2, <1>4
<1>6. \A i \in 1..m : s[i] = u[i]
  BY <1>2, <1>4, <1>5
<1> QED
  BY <1>1, <1>3, <1>4, <1>5, <1>6, PrefixFacts

\* What a prefix leaves is what is missing.
LEMMA PrefixRest ==
    ASSUME NEW S, NEW s \in Seq(S), NEW t \in Seq(S), IsPrefix(s, t)
    PROVE  s \o SubSeq(t, Len(s) + 1, Len(t)) = t
<1>1. PICK m \in Nat, n \in Nat : m = Len(s) /\ n = Len(t)
  BY LenProperties
<1>2. m <= n /\ \A i \in 1..m : s[i] = t[i]
  BY <1>1, PrefixFacts
<1>3. PICK a \in Nat : a = m + 1
  OBVIOUS
<1>4. \A i \in a..n : t[i] \in S
  <2>1. \A i \in a..n : i \in 1..n
    BY <1>3
  <2> QED
    BY <1>1, <2>1, ElementOfSeq
<1>5. PICK u : u = SubSeq(t, a, n)
  OBVIOUS
<1>6. /\ u \in Seq(S) /\ Len(u) = (IF a <= n THEN n - a + 1 ELSE 0)
      /\ \A i \in 1..n - a + 1 : u[i] = t[a + i - 1]
  BY <1>4, <1>5, SubSeqProperties
<1>7. PICK k \in Nat : k = n - m
  BY <1>2
<1>8. Len(u) = k /\ \A i \in 1..k : u[i] = t[m + i]
  <2>1. Len(u) = k
    BY <1>2, <1>3, <1>6, <1>7
  <2>2. \A i \in 1..k : i \in 1..n - a + 1 /\ a + i - 1 = m + i
    BY <1>3, <1>7
  <2> QED
    BY <1>6, <2>1, <2>2
<1>9. PICK v : v = s \o u
  OBVIOUS
<1>10. /\ v \in Seq(S) /\ Len(v) = m + k
       /\ \A i \in 1..m + k : v[i] = IF i <= m THEN s[i] ELSE u[i - m]
  <2>1. u \in Seq(S) /\ Len(u) = k /\ Len(s) = m
    BY <1>1, <1>6, <1>8
  <2> QED
    BY <1>9, <2>1, ConcatProperties
<1>11. Len(v) = n /\ m + k = n
  BY <1>7, <1>10
<1>12. ASSUME NEW i \in 1..n PROVE v[i] = t[i]
  <2>1. CASE i <= m
    <3>1. i \in 1..m /\ i \in 1..m + k
      BY <1>11, <2>1
    <3> QED
      BY <1>2, <1>10, <2>1, <3>1
  <2>2. CASE ~(i <= m)
    <3>1. i - m \in 1..k /\ m + (i - m) = i /\ i \in 1..m + k
      BY <1>7, <1>11, <2>2
    <3>2. v[i] = u[i - m]
      BY <1>10, <2>2, <3>1
    <3> QED
      BY <1>8, <3>1, <3>2
  <2> QED
    BY <2>1, <2>2
<1>13. v = t
  BY <1>1, <1>10, <1>11, <1>12, SeqEqual
<1> QED
  BY <1>1, <1>3, <1>5, <1>9, <1>13

-----------------------------------------------------------------------------
(* Who reads and who writes the mailbox *)

LEMMA Alone ==
    ASSUME Exclusive, NEW p \in Proc, Inside(p)
    PROVE  \A q \in Proc : Inside(q) => q = p
  BY DEF Exclusive

\* Nobody joins another in the mailbox without crowd telling.
LEMMA DeliveryEnters ==
    ASSUME TypeInv, NEW d \in Deliverer, DeliveryStep(d), ~crowd'
    PROVE  /\ ~crowd
           /\ \A q \in Proc \ {d} : Inside(q)' = Inside(q)
           /\ Inside(d)' => Inside(d) \/ \A q \in Proc \ {d} : ~Inside(q)
<1>1. MboxLockTypeOK /\ AtTyped /\ crowd \in BOOLEAN /\ d \in Proc
  BY WriterBlocks DEF TypeInv, StoreTyped
<1>2. \A q \in Proc \ {d} : locked'[q] = locked[q] /\ pc'[q] = pc[q]
  BY <1>1, DeliveryLabels
<1>3. UNCHANGED crowd \/ (/\ LockMbox(d) /\ crowd' = (crowd \/ \E q \in Proc \ {d} : Inside(q)))
  BY DEF DeliveryStep, StartDelivery, SendMbox, FindUser, UserUnknown, LockMbox,
           LockMboxFails, LookAtMbox, CreateMbox, OpenMbox, OpenMboxFails, BailOut,
           WriteFrom, WriteRest, WriteFails, UnlockMbox, DoneDelivery, ExitFlush,
           KillDelivery, SignalDelivery, CrashDelivery, history, TakeAt
<1>4. ~crowd
  BY <1>1, <1>3
<1>5. locked \in [Proc -> BOOLEAN] /\ pc \in [Proc -> DelivererLabel \cup ReaderLabel]
  BY <1>1 DEF MboxLockTypeOK, AtTyped
<1>6. LockMbox(d) \/ (Inside(d)' => Inside(d))
  <2>1. ASSUME ~LockMbox(d) PROVE locked'[d] => locked[d]
    BY <1>5, <2>1 DEF DeliveryStep, StartDelivery, SendMbox, FindUser, UserUnknown, LockMbox,
           LockMboxFails, LookAtMbox, CreateMbox, OpenMbox, OpenMboxFails, BailOut,
           WriteFrom, WriteRest, WriteFails, UnlockMbox, DoneDelivery, ExitFlush,
           KillDelivery, SignalDelivery, CrashDelivery, TakeAt, AskThen, Release, Again, Ask, Mailunlock,
                      Die, mboxlock
  <2>2. ASSUME pc'[d] = "flush" PROVE pc[d] = "rest"
    BY <1>1, <1>5, <2>2 DEF DeliveryStep, StartDelivery, SendMbox, FindUser, UserUnknown, LockMbox,
           LockMboxFails, LookAtMbox, CreateMbox, OpenMbox, OpenMboxFails, BailOut,
           WriteFrom, WriteRest, WriteFails, UnlockMbox, DoneDelivery, ExitFlush,
           KillDelivery, SignalDelivery, CrashDelivery, TakeAt, AskThen, Goto, Exit
  <2>3. pc[d] = "rest" => locked[d]
    BY <1>1 DEF AtTyped, Held
  <2> QED
    BY <2>1, <2>2, <2>3 DEF Inside
<1>7. \A q \in Proc \ {d} : Inside(q)' = Inside(q)
  BY <1>2 DEF Inside
<1>8. LockMbox(d) => \A q \in Proc \ {d} : ~Inside(q)
  <2>1. LockMbox(d) => crowd' = (crowd \/ \E q \in Proc \ {d} : Inside(q))
    BY DEF LockMbox, TakeAt
  <2> QED
    BY <2>1, Zenon
<1> QED
  BY <1>4, <1>6, <1>7, <1>8

LEMMA EnterAlone ==
    ASSUME NEW p \in Proc, Exclusive,
           \A q \in Proc \ {p} : Inside(q)' = Inside(q),
           Inside(p)' => Inside(p) \/ \A q \in Proc \ {p} : ~Inside(q)
    PROVE  Exclusive'
<1> SUFFICES ASSUME NEW a \in Proc, NEW b \in Proc, Inside(a)', Inside(b)' PROVE a = b
  BY DEF Exclusive
<1>1. CASE a # p /\ b # p
  BY <1>1 DEF Exclusive
<1>2. CASE a = p /\ b # p
  BY <1>2 DEF Exclusive
<1>3. CASE a # p /\ b = p
  BY <1>3 DEF Exclusive
<1> QED
  BY <1>1, <1>2, <1>3

\* How a delivery gets to where it has the mailbox open.
LEMMA DeliveryMoves ==
    ASSUME AtTyped, NEW d \in Deliverer, DeliveryStep(d), pc'[d] \in {"from", "rest", "flush"}
    PROVE  \/ CreateMbox(d) /\ dir["mail"] = NoFile /\ pc'[d] = "from"
           \/ OpenMbox(d) /\ pc'[d] = "from"
           \/ WriteFrom(d) /\ pc'[d] = "rest"
           \/ pc[d] = "rest" /\ UNCHANGED <<data, dir, fd, pos>>
<1>1. pc \in [Proc -> DelivererLabel \cup ReaderLabel] /\ d \in Proc
  BY WriterBlocks DEF AtTyped
<1> QED
  BY <1>1 DEF DeliveryStep, StartDelivery, SendMbox, FindUser, UserUnknown, LockMbox,
           LockMboxFails, LookAtMbox, CreateMbox, OpenMbox, OpenMboxFails, BailOut,
           WriteFrom, WriteRest, WriteFails, UnlockMbox, DoneDelivery, ExitFlush,
           KillDelivery, SignalDelivery, CrashDelivery, TakeAt, AskThen, Goto, Exit, files, delivervars

\* Nobody changes a file but inside the mailbox.
LEMMA DeliveryOutside ==
    ASSUME TypeInv, NEW d \in Deliverer, DeliveryStep(d), ~Inside(d)
    PROVE  UNCHANGED <<data, dir, accepted>>
<1>1. d \in Proc /\ AtTyped
  BY WriterBlocks DEF TypeInv
<1>2. ~locked[d] /\ pc[d] # "flush"
  BY DEF Inside
<1>3. pc[d] \notin {"open", "from", "rest", "flush"}
  BY <1>1, <1>2 DEF AtTyped, Held
<1> QED
  BY <1>3, DeliveryFiles DEF CreateMbox, WriteFrom

LEMMA DeliveryWrites ==
    ASSUME TypeInv, Apart, NEW d \in Deliverer, DeliveryStep(d)
    PROVE  Writes(d)'
<1>1. /\ AtTyped /\ data \in [Ino -> Seq(Block)] /\ dir \in [Name -> Ino \cup {NoFile}]
      /\ fd \in [Proc -> Ino \cup {NoFile}] /\ pos \in [Deliverer -> Nat]
      /\ pc \in [Proc -> DelivererLabel \cup ReaderLabel]
      /\ pc[d] \in {"from", "rest", "flush"} => fd[d] \in Ino
  BY DEF TypeInv, StoreTyped, DeliverTyped, AtTyped
<1>2. d \in Proc /\ Reader \subseteq Proc \ {d} /\ "mail" \in Name /\ From(d) \in Block
  BY WriterBlocks, StoreAssumption DEF Name
<1>3. UNCHANGED tmp /\ \A r \in Reader : pc'[r] = pc[r]
  <2>1. \A q \in Proc \ {d} : pc'[q] = pc[q]
    BY DeliveryLabels DEF TypeInv
  <2> QED
    BY <1>2, <2>1 DEF DeliveryStep, readervars
<1>4. SUFFICES ASSUME pc'[d] \in {"from", "rest", "flush"} PROVE Writes(d)'
  BY DEF Writes
<1>5. CASE CreateMbox(d) /\ dir["mail"] = NoFile /\ pc'[d] = "from"
  BY <1>1, <1>2, <1>5 DEF CreateMbox, Writes
<1>6. CASE OpenMbox(d) /\ pc'[d] = "from"
  BY <1>1, <1>2, <1>6 DEF OpenMbox, Writes, files
<1>7. CASE WriteFrom(d) /\ pc'[d] = "rest"
  <2>1. /\ pc[d] = "from" /\ pos' = [pos EXCEPT ![d] = Size(fd[d])]
        /\ Append1(fd[d], From(d)) /\ UNCHANGED <<dir, fd>>
    BY <1>7 DEF WriteFrom
  <2>2. dir["mail"] = fd[d] /\ fd[d] \in Ino
    BY <1>1, <2>1 DEF Apart, Writes
  <2>3. PICK i \in Ino, s \in Seq(Block) : i = fd[d] /\ s = data[i]
    BY <1>1, <2>2
  <2>4. PICK n \in Nat : n = Len(s)
    BY <2>3, LenProperties
  <2>5. pos'[d] = n
    BY <1>1, <2>1, <2>3, <2>4 DEF Size
  <2>6. data'[i] = Append(s, From(d))
    BY <1>1, <1>2, <2>1, <2>3, Writing
  <2>7. Len(data'[i]) = n + 1 /\ data'[i][n + 1] = From(d)
    BY <1>2, <2>3, <2>4, <2>6, AppendFacts
  <2>8. ASSUME NEW r \in Reader, pc'[r] \in Reading0 PROVE Len(tmp'[r]) <= n
    <3>1. IsPrefix(tmp[r], s)
      BY <1>3, <2>2, <2>3, <2>8 DEF Apart, ReadsOn
    <3> QED
      BY <1>3, <2>4, <3>1 DEF IsPrefix
  <2>9. fd'[d] = i /\ dir'["mail"] = i
    BY <2>1, <2>2, <2>3
  <2> QED
    BY <2>5, <2>7, <2>8, <2>9 DEF Writes, Size
<1>8. CASE pc[d] = "rest" /\ UNCHANGED <<data, dir, fd, pos>>
  BY <1>3, <1>8 DEF Apart, Writes, Size
<1> QED
  BY <1>1, <1>4, <1>5, <1>6, <1>7, <1>8, DeliveryMoves

\* What a delivery does to the file of the mailbox.
LEMMA DeliveryExtends ==
    ASSUME TypeInv, Apart, NEW d \in Deliverer, DeliveryStep(d), dir["mail"] # NoFile
    PROVE  /\ UNCHANGED dir
           /\ \A i \in Ino : i # dir["mail"] => data'[i] = data[i]
           /\ \/ UNCHANGED <<data, accepted>>
              \/ UNCHANGED accepted /\ data'[dir["mail"]] = Append(data[dir["mail"]], From(d))
              \/ /\ pc[d] \in {"rest", "flush"} /\ accepted' = Append(accepted, d)
                 /\ data'[dir["mail"]] = Append(data[dir["mail"]], Rest(d))
              \/ /\ pc[d] = "rest" /\ UNCHANGED accepted
                 /\ data'[dir["mail"]] = CutTo(data[dir["mail"]], pos[d])
<1>1. /\ data \in [Ino -> Seq(Block)] /\ dir["mail"] \in Ino
      /\ pc[d] \in {"from", "rest", "flush"} => fd[d] \in Ino
  BY DEF TypeInv, StoreTyped, AtTyped, Name
<1>2. From(d) \in Block /\ Rest(d) \in Block
  BY WriterBlocks
<1>3. pc[d] \in {"from", "rest", "flush"} => dir["mail"] = fd[d]
  BY DEF Apart, Writes
<1>4. PICK m \in Ino : m = dir["mail"]
  BY <1>1
<1>5. CASE UNCHANGED <<data, dir, accepted>>
  BY <1>5
<1>6. CASE CreateMbox(d) /\ UNCHANGED accepted
  BY <1>6 DEF CreateMbox, files
<1>7. CASE WriteFrom(d) /\ UNCHANGED <<dir, accepted>>
  <2>1. Append1(m, From(d))
    BY <1>3, <1>4, <1>7 DEF WriteFrom
  <2>2. data'[m] = Append(data[m], From(d)) /\ \A i \in Ino : i # m => data'[i] = data[i]
    BY <1>1, <1>2, <2>1, Writing
  <2> QED
    BY <1>4, <1>7, <2>2
<1>8. CASE /\ pc[d] \in {"rest", "flush"} /\ UNCHANGED dir
           /\ Append1(fd[d], Rest(d)) /\ accepted' = Append(accepted, d)
  <2>1. Append1(m, Rest(d))
    BY <1>3, <1>4, <1>8
  <2>2. data'[m] = Append(data[m], Rest(d)) /\ \A i \in Ino : i # m => data'[i] = data[i]
    BY <1>1, <1>2, <2>1, Writing
  <2> QED
    BY <1>4, <1>8, <2>2
<1>9. CASE /\ pc[d] = "rest" /\ UNCHANGED <<dir, accepted>>
           /\ data' = [data EXCEPT ![fd[d]] = CutTo(@, pos[d])]
  <2>1. fd[d] = m
    BY <1>3, <1>4, <1>9
  <2>2. data'[m] = CutTo(data[m], pos[d]) /\ \A i \in Ino : i # m => data'[i] = data[i]
    BY <1>1, <1>9, <2>1
  <2> QED
    BY <1>4, <1>9, <2>2
<1> QED
  BY <1>5, <1>6, <1>7, <1>8, <1>9, DeliveryFiles

LEMMA DeliveryReadsOn ==
    ASSUME TypeInv, Apart, NEW d \in Deliverer, DeliveryStep(d), NEW r \in Reader
    PROVE  ReadsOn(r)'
<1>1. r \in Proc \ {d} /\ d \in Proc
  BY StoreAssumption
<1>2. pc'[r] = pc[r] /\ fd'[r] = fd[r] /\ tmp'[r] = tmp[r] /\ let'[r] = let[r]
  <2>1. pc'[r] = pc[r]
    BY <1>1, DeliveryLabels DEF TypeInv
  <2>2. fd'[r] = fd[r]
    BY <1>1 DEF DeliveryStep, StartDelivery, SendMbox, FindUser, UserUnknown, LockMbox,
           LockMboxFails, LookAtMbox, CreateMbox, OpenMbox, OpenMboxFails, BailOut,
           WriteFrom, WriteRest, WriteFails, UnlockMbox, DoneDelivery, ExitFlush,
           KillDelivery, SignalDelivery, CrashDelivery, Exit, TypeInv, StoreTyped
  <2> QED
    BY <2>1, <2>2 DEF DeliveryStep, readervars
<1>3. SUFFICES ASSUME pc[r] \in {"load", "copyin"} \cup Reading0 PROVE ReadsOn(r)'
  BY <1>2 DEF ReadsOn
<1>4. dir["mail"] # NoFile
  BY <1>3, StoreAssumption DEF Apart, ReadsOn, TypeInv, AtTyped
<1>5. UNCHANGED dir
  BY <1>4, DeliveryExtends
<1>6. SUFFICES ASSUME pc[r] \in Reading0 PROVE IsPrefix(tmp[r], data'[dir["mail"]])
  BY <1>2, <1>4, <1>5 DEF Apart, ReadsOn
<1>7. PICK m \in Ino, s \in Seq(Block) : m = dir["mail"] /\ s = data[m]
  BY <1>4 DEF TypeInv, StoreTyped, Name
<1>8. PICK t : t = tmp[r] /\ t \in Seq(Block) /\ IsPrefix(t, s)
  BY <1>6, <1>7 DEF Apart, ReadsOn, TypeInv, ReaderTyped
<1>9. From(d) \in Block /\ Rest(d) \in Block
  BY WriterBlocks
<1>10. \/ data'[m] = s \/ data'[m] = Append(s, From(d)) \/ data'[m] = Append(s, Rest(d))
       \/ pc[d] = "rest" /\ data'[m] = CutTo(s, pos[d])
  BY <1>4, <1>7, DeliveryExtends
<1>11. pc[d] = "rest" => Len(t) <= pos[d] /\ pos[d] \in Nat
  BY <1>6, <1>8 DEF Apart, Writes, TypeInv, DeliverTyped
<1>12. CASE pc[d] = "rest" /\ data'[m] = CutTo(s, pos[d])
  BY <1>7, <1>8, <1>11, <1>12, PrefixCut
<1>13. IsPrefix(t, Append(s, From(d))) /\ IsPrefix(t, Append(s, Rest(d)))
  BY <1>7, <1>8, <1>9, PrefixAppend
<1> QED
  BY <1>7, <1>8, <1>10, <1>12, <1>13

LEMMA DeliveryCuts ==
    ASSUME NEW d \in Deliverer, DeliveryStep(d)
    PROVE  cut' = cut
BY DEF DeliveryStep, StartDelivery, SendMbox, FindUser, UserUnknown, LockMbox,
       LockMboxFails, LookAtMbox, CreateMbox, OpenMbox, OpenMboxFails, BailOut,
       WriteFrom, WriteRest, WriteFails, UnlockMbox, DoneDelivery, ExitFlush,
       KillDelivery, SignalDelivery, CrashDelivery, Exit, history

LEMMA DeliveryApart ==
    ASSUME ReadInv, NEW d \in Deliverer, DeliveryStep(d), Orderly'
    PROVE  Orderly /\ Apart'
<1>1. TypeInv /\ d \in Proc /\ ~crowd' /\ ~cut'
  BY WriterBlocks DEF ReadInv, Orderly
<1>2. /\ ~crowd /\ \A q \in Proc \ {d} : Inside(q)' = Inside(q)
      /\ Inside(d)' => Inside(d) \/ \A q \in Proc \ {d} : ~Inside(q)
  BY <1>1, DeliveryEnters
<1>8. Orderly
  BY <1>1, <1>2, DeliveryCuts DEF Orderly
<1>3. Apart
  BY <1>8 DEF ReadInv
<1>4. Exclusive'
  BY <1>1, <1>2, <1>3, EnterAlone DEF Apart
<1>5. ASSUME NEW e \in Deliverer, e # d PROVE Writes(e)'
  <2>1. e \in Proc \ {d}
    BY <1>5, StoreAssumption
  <2>2. pc'[e] = pc[e]
    BY <1>1, <2>1, DeliveryLabels DEF TypeInv
  <2>3. fd'[e] = fd[e] /\ pos'[e] = pos[e]
    BY <1>1, <2>1 DEF DeliveryStep, StartDelivery, SendMbox, FindUser, UserUnknown, LockMbox,
           LockMboxFails, LookAtMbox, CreateMbox, OpenMbox, OpenMboxFails, BailOut,
           WriteFrom, WriteRest, WriteFails, UnlockMbox, DoneDelivery, ExitFlush,
           KillDelivery, SignalDelivery, CrashDelivery, Exit, TypeInv, StoreTyped, DeliverTyped, delivervars
  <2>4. SUFFICES ASSUME pc[e] \in {"from", "rest", "flush"} PROVE Writes(e)'
    BY <2>2 DEF Writes
  <2>5. Inside(e)
    BY <1>1, <2>1, <2>4 DEF Inside, TypeInv, AtTyped, Held
  <2>6. ~Inside(d)
    BY <1>1, <1>3, <2>1, <2>5 DEF Apart, Exclusive
  <2>7. UNCHANGED <<data, dir>>
    BY <1>1, <2>6, DeliveryOutside
  <2>8. UNCHANGED tmp /\ \A r \in Reader : pc'[r] = pc[r]
    <3>1. \A q \in Proc \ {d} : pc'[q] = pc[q]
      BY <1>1, DeliveryLabels DEF TypeInv
    <3> QED
      BY <3>1, StoreAssumption DEF DeliveryStep, readervars
  <2> QED
    BY <1>3, <2>2, <2>3, <2>7, <2>8 DEF Apart, Writes, Size
<1>6. Writes(d)'
  BY <1>1, <1>3, DeliveryWrites
<1>7. \A r \in Reader : ReadsOn(r)'
  BY <1>1, <1>3, DeliveryReadsOn
<1> QED
  BY <1>4, <1>5, <1>6, <1>7, <1>8 DEF Apart

LEMMA ReadingEnters ==
    ASSUME TypeInv, NEW r \in Reader, ReadingStep(r), ~crowd'
    PROVE  /\ ~crowd
           /\ \A q \in Proc \ {r} : Inside(q)' = Inside(q)
           /\ Inside(r)' => Inside(r) \/ \A q \in Proc \ {r} : ~Inside(q)
<1>1. MboxLockTypeOK /\ AtTyped /\ crowd \in BOOLEAN /\ r \in Proc
  BY StoreAssumption DEF TypeInv, StoreTyped
<1>2. /\ \A q \in Proc \ {r} : locked'[q] = locked[q] /\ pc'[q] = pc[q]
      /\ pc'[r] \in ReaderLabel
  BY <1>1, ReadingLabels
<1> DEFINE Enters == LockForSaved(r) \/ LockForLoad(r) \/ LockForReload(r) \/ LockForRewrite(r)
<1>3. Enters => crowd' = (crowd \/ \E q \in Proc \ {r} : Inside(q))
  BY DEF LockForSaved, LockForLoad, LockForReload, LockForRewrite, TakeAt
<1>4. Enters \/ UNCHANGED crowd
  BY DEF ReadingStep, StartReading, ReadMail, KillReading, Cksaved, LookForSaved,
        LockForSaved, RestoreByName, RestoreByCopy, AppendSaved, AppendedSaved,
        RemoveSaved, Restored, Printmail, StatMbox, OpenForReading, LockForLoad,
        LoadMail, Loaded, LookForNewMail, LockForReload, LoadNewMail, Reloaded,
        Interrupt, InterruptCopy, Delete,
        Undelete, ExitCommand, Quit, Copyback, LockForRewrite, TakeNewMail,
        MailboxGone, CopybackFails,
        OpenSave, CopyOut, CopyOutFails, UnlinkMbox, RenameSave, RemoveEmpty, CopiedBack,
        LockFails, DoneReading, SignalReading, CrashReading, Stop
<1>5. ~crowd
  BY <1>1, <1>3, <1>4
<1>6. Enters => \A q \in Proc \ {r} : ~Inside(q)
  BY <1>3, Zenon
<1>7. ASSUME ~Enters PROVE locked'[r] => locked[r]
  <2>1. locked \in [Proc -> BOOLEAN]
    BY <1>1 DEF MboxLockTypeOK
  <2> QED
    BY <1>1, <1>7, <2>1 DEF ReadingStep, StartReading, ReadMail, KillReading, Cksaved, LookForSaved,
        LockForSaved, RestoreByName, RestoreByCopy, AppendSaved, AppendedSaved,
        RemoveSaved, Restored, Printmail, StatMbox, OpenForReading, LockForLoad,
        LoadMail, Loaded, LookForNewMail, LockForReload, LoadNewMail, Reloaded,
        Interrupt, InterruptCopy, Delete,
        Undelete, ExitCommand, Quit, Copyback, LockForRewrite, TakeNewMail,
        MailboxGone, CopybackFails,
        OpenSave, CopyOut, CopyOutFails, UnlinkMbox, RenameSave, RemoveEmpty, CopiedBack,
        LockFails, DoneReading, SignalReading, CrashReading, Stop, AskThen, Release, Again, Ask,
       Mailunlock, Die, mboxlock, LockFor, Leave
<1>8. pc'[r] # "flush"
  BY <1>2 DEF ReaderLabel
<1>9. Inside(r)' => Inside(r) \/ \A q \in Proc \ {r} : ~Inside(q)
  BY <1>6, <1>7, <1>8 DEF Inside
<1>10. \A q \in Proc \ {r} : Inside(q)' = Inside(q)
  BY <1>2 DEF Inside
<1> QED
  BY <1>5, <1>9, <1>10

\* All that is new in the mailbox is copied and marked.
CopiesAll(r) ==
    /\ pc[r] = "copymore" /\ dir["mail"] # NoFile /\ UNCHANGED files
    /\ \E s \in Seq(Block) :
        /\ s = SubSeq(data[dir["mail"]], End(r) + 1, Size(dir["mail"]))
        /\ tmp' = [tmp EXCEPT ![r] = tmp[r] \o s]
        /\ let' = [let EXCEPT ![r] = Mark(let[r], s)]

LEMMA NewMailTyped ==
    ASSUME TypeInv, NEW r \in Reader, dir["mail"] # NoFile
    PROVE  SubSeq(data[dir["mail"]], End(r) + 1, Size(dir["mail"])) \in Seq(Block)
<1>1. PICK x \in Seq(Block) : x = data[dir["mail"]]
  BY DEF TypeInv, StoreTyped, Name
<1>2. End(r) \in Nat
  BY EndFacts DEF TypeInv, TablesTyped
<1>3. PICK a \in Nat, b \in Nat : a = End(r) + 1 /\ b = Len(x)
  BY <1>1, <1>2, LenProperties
<1>4. \A k \in a..b : x[k] \in Block
  <2>1. \A k \in a..b : k \in 1..Len(x)
    BY <1>2, <1>3
  <2> QED
    BY <1>1, <2>1, ElementOfSeq
<1>5. SubSeq(x, a, b) \in Seq(Block)
  BY <1>4, SubSeqProperties
<1> QED
  BY <1>1, <1>3, <1>5 DEF Size

\* An interrupt that leaves the table as it should be has come before copymt() or
\* behind it.
LEMMA InterruptCopyIs ==
    ASSUME TypeInv, NEW r \in Reader, InterruptCopy(r), ~cut'
    PROVE  /\ ~cut /\ UNCHANGED files
           /\ UNCHANGED <<tmp, let>> \/ CopiesAll(r)
<1>1. /\ tmp \in [Reader -> Seq(Block)] /\ let \in [Reader -> Seq(Nat)]
      /\ TableOK(tmp[r], let[r], del[r]) /\ cut \in BOOLEAN
  BY DEF TypeInv, StoreTyped, ReaderTyped, TablesTyped
<1>2. pc[r] = "copymore" /\ dir["mail"] # NoFile /\ UNCHANGED files
  BY DEF InterruptCopy
<1>3. PICK s \in Seq(Block) : s = SubSeq(data[dir["mail"]], End(r) + 1, Size(dir["mail"]))
  BY <1>2, NewMailTyped
<1>4. CASE /\ tmp' = [tmp EXCEPT ![r] = @ \o s] /\ let' = [let EXCEPT ![r] = Mark(@, s)]
           /\ UNCHANGED cut
  <2>1. tmp' = [tmp EXCEPT ![r] = tmp[r] \o s] /\ let' = [let EXCEPT ![r] = Mark(let[r], s)]
    BY <1>4
  <2> QED
    BY <1>2, <1>3, <1>4, <2>1 DEF CopiesAll
<1>5. ASSUME NEW n \in 0..Len(s), NEW k \in 0..Len(s), n \in {k, k + 1},
             tmp' = [tmp EXCEPT ![r] = @ \o SubSeq(s, 1, k)],
             let' = [let EXCEPT ![r] = Unfinished(@, SubSeq(s, 1, n))],
             cut' = (cut \/ n > 0)
      PROVE  ~cut /\ UNCHANGED <<tmp, let>>
  <2>1. ~cut /\ n = 0 /\ k = 0
    <3>1. n \in Nat /\ k \in Nat /\ (n = k \/ n = k + 1)
      BY <1>3, <1>5, LenProperties
    <3>2. ~cut /\ ~(n > 0)
      BY <1>5, Zenon
    <3> QED
      BY <3>1, <3>2
  <2>2. SubSeq(s, 1, 0) = <<>>
    <3>1. SubSeq(s, 1, 0) \in Seq(Block) /\ Len(SubSeq(s, 1, 0)) = 0
      BY SubSeqProperties
    <3> QED
      BY <3>1, EmptySeq
  <2>3. tmp[r] \o <<>> = tmp[r]
    BY <1>1, ConcatEmptySeq
  <2>4. End(r) = Len(tmp[r])
    BY <1>2, <2>1 DEF TypeInv, TablesTyped, Reading0
  <2>5. Unfinished(let[r], <<>>) = let[r]
    BY <1>1, <2>4, NothingGrown, EndFacts
  <2>6. tmp' = [tmp EXCEPT ![r] = tmp[r]] /\ let' = [let EXCEPT ![r] = let[r]]
    BY <1>5, <2>1, <2>2, <2>3, <2>5
  <2> QED
    BY <1>1, <2>1, <2>6
<1> QED
  BY <1>2, <1>3, <1>4, <1>5 DEF InterruptCopy

\* How a session gets to where it has the mailbox open, and has read it.
LEMMA ReadingMoves ==
    ASSUME AtTyped, NEW r \in Reader, ReadingStep(r)
    PROVE  /\ pc'[r] \in {"load", "copyin"} =>
                \/ /\ pc[r] = "fopen" /\ UNCHANGED files
                   /\ dir["mail"] # NoFile /\ fd' = [fd EXCEPT ![r] = dir["mail"]]
                \/ pc[r] = "load" /\ UNCHANGED <<files, fd>>
           /\ pc'[r] \in Reading0 =>
                \/ LoadMail(r) /\ pc'[r] = "loaded"
                \/ LoadNewMail(r) /\ pc'[r] = "reloaded"
                \/ InterruptCopy(r)
                \/ pc[r] \in Reading0 /\ UNCHANGED <<data, dir, tmp, let>>
<1>1. pc \in [Proc -> DelivererLabel \cup ReaderLabel] /\ r \in Proc
  BY StoreAssumption DEF AtTyped
<1>2. ASSUME pc'[r] \in {"load", "copyin"}
      PROVE  \/ /\ pc[r] = "fopen" /\ UNCHANGED files
                /\ dir["mail"] # NoFile /\ fd' = [fd EXCEPT ![r] = dir["mail"]]
             \/ pc[r] = "load" /\ UNCHANGED <<files, fd>>
  BY <1>1, <1>2 DEF ReadingStep, StartReading, ReadMail, KillReading, Cksaved, LookForSaved,
        LockForSaved, RestoreByName, RestoreByCopy, AppendSaved, AppendedSaved,
        RemoveSaved, Restored, Printmail, StatMbox, OpenForReading, LockForLoad,
        LoadMail, Loaded, LookForNewMail, LockForReload, LoadNewMail, Reloaded,
        Interrupt, InterruptCopy, Delete,
        Undelete, ExitCommand, Quit, Copyback, LockForRewrite, TakeNewMail,
        MailboxGone, CopybackFails,
        OpenSave, CopyOut, CopyOutFails, UnlinkMbox, RenameSave, RemoveEmpty, CopiedBack,
        LockFails, DoneReading, SignalReading, CrashReading, Stop, AskThen, TakeAt, Goto, LockFor, Leave
<1>3. ASSUME pc'[r] \in Reading0
      PROVE  \/ LoadMail(r) /\ pc'[r] = "loaded"
             \/ LoadNewMail(r) /\ pc'[r] = "reloaded"
             \/ InterruptCopy(r)
             \/ pc[r] \in Reading0 /\ UNCHANGED <<data, dir, tmp, let>>
  <2>1. pc[r] \in Reading0 \/ LoadMail(r)
    BY <1>1, <1>3 DEF ReadingStep, StartReading, ReadMail, KillReading, Cksaved, LookForSaved,
        LockForSaved, RestoreByName, RestoreByCopy, AppendSaved, AppendedSaved,
        RemoveSaved, Restored, Printmail, StatMbox, OpenForReading, LockForLoad,
        LoadMail, Loaded, LookForNewMail, LockForReload, LoadNewMail, Reloaded,
        Interrupt, InterruptCopy, Delete,
        Undelete, ExitCommand, Quit, Copyback, LockForRewrite, TakeNewMail,
        MailboxGone, CopybackFails,
        OpenSave, CopyOut, CopyOutFails, UnlinkMbox, RenameSave, RemoveEmpty, CopiedBack,
        LockFails, DoneReading, SignalReading, CrashReading, Stop, AskThen, TakeAt, Goto, LockFor, Leave, Reading0
  <2>2. UNCHANGED <<tmp, let>> \/ LoadMail(r) \/ LoadNewMail(r) \/ InterruptCopy(r)
    <3>1. ~StartReading(r) /\ ~TakeNewMail(r)
      BY <1>1, <1>3 DEF StartReading, TakeNewMail, Goto, Reading0
    <3> QED
      BY <3>1, ReadingTables DEF Delete, Undelete
  <2>3. UNCHANGED <<data, dir>>
    BY <1>1, <1>3, ReadingFiles DEF AppendSaved, RemoveSaved, RemoveEmpty, RestoreByName,
       RenameSave, OpenSave, CopyOut, CopyOutFails, UnlinkMbox, Goto, Leave, Reading0
  <2>4. LoadMail(r) => pc'[r] = "loaded"
    BY <1>1, <1>3 DEF LoadMail, Goto, Reading0
  <2>5. LoadNewMail(r) => pc'[r] = "reloaded"
    BY <1>1, <1>3 DEF LoadNewMail, Goto, Reading0
  <2> QED
    BY <2>1, <2>2, <2>3, <2>4, <2>5
<1> QED
  BY <1>2, <1>3

LEMMA ReadingOutside ==
    ASSUME TypeInv, NEW r \in Reader, ReadingStep(r), ~Inside(r)
    PROVE  /\ UNCHANGED <<data, dir, accepted, purged>>
           /\ pc'[r] \in Reading0 => pc[r] \in Reading0 /\ UNCHANGED tmp
<1>1. r \in Proc /\ AtTyped
  BY StoreAssumption DEF TypeInv
<1>2. pc[r] \notin Held
  BY <1>1 DEF Inside, AtTyped
<1>3. UNCHANGED <<data, dir, accepted, purged>>
  BY <1>2, ReadingFiles DEF Held, AppendSaved, RemoveSaved, RemoveEmpty, RestoreByName,
     RenameSave, OpenSave, CopyOut, CopyOutFails, UnlinkMbox
<1>4. ~LoadMail(r) /\ ~LoadNewMail(r) /\ ~InterruptCopy(r)
  BY <1>2 DEF Held, LoadMail, LoadNewMail, InterruptCopy
<1> QED
  BY <1>1, <1>3, <1>4, ReadingMoves

LEMMA LoadsAll ==
    ASSUME TypeInv, NEW r \in Reader, LoadNewMail(r), pc'[r] = "reloaded"
    PROVE  CopiesAll(r)
<1>1. /\ pc[r] = "copymore" /\ UNCHANGED files /\ pc' # [pc EXCEPT ![r] = "done"]
  BY StoreAssumption DEF LoadNewMail, TypeInv, AtTyped
<1>2. dir["mail"] # NoFile
  BY <1>1 DEF LoadNewMail, Goto
<1>3. PICK s \in Seq(Block) : s = SubSeq(data[dir["mail"]], End(r) + 1, Size(dir["mail"]))
  BY <1>2, NewMailTyped
<1> QED
  BY <1>1, <1>2, <1>3 DEF LoadNewMail, CopiesAll

LEMMA ReadingReadsOn ==
    ASSUME TypeInv, Apart, NEW r \in Reader, ReadingStep(r), ~cut'
    PROVE  ReadsOn(r)'
<1>1. /\ AtTyped /\ data \in [Ino -> Seq(Block)] /\ dir \in [Name -> Ino \cup {NoFile}]
      /\ fd \in [Proc -> Ino \cup {NoFile}] /\ "mail" \in Name /\ r \in Proc
      /\ tmp \in [Reader -> Seq(Block)] /\ let \in [Reader -> Seq(Nat)]
  BY StoreAssumption DEF TypeInv, StoreTyped, ReaderTyped, Name
<1>2. ReadsOn(r)
  BY DEF Apart
<1>3. pc'[r] \in {"load", "copyin"} => dir'["mail"] = fd'[r]
  BY <1>1, <1>2, ReadingMoves DEF ReadsOn, files
<1>4. CASE pc[r] \in Reading0 /\ UNCHANGED <<data, dir, tmp, let>>
  BY <1>2, <1>3, <1>4 DEF ReadsOn
<1>5. CASE LoadMail(r) /\ pc'[r] = "loaded"
  <2>1. pc[r] = "copyin" /\ UNCHANGED files
    BY <1>5 DEF LoadMail
  <2>2. PICK m \in Ino, s \in Seq(Block) : m = dir["mail"] /\ m = fd[r] /\ s = data[m]
    BY <1>1, <1>2, <2>1 DEF ReadsOn, AtTyped
  <2>3. tmp' = [tmp EXCEPT ![r] = s] /\ let' = [let EXCEPT ![r] = Mark(let[r], s)]
    <3>1. pc'[r] # "done"
      BY <1>5
    <3> QED
      BY <1>1, <1>5, <2>2, <3>1 DEF LoadMail, Goto, AtTyped
  <2>4. let[r] = <<0>>
    BY <2>1 DEF TypeInv, TablesTyped, Fresh
  <2>5. FromEntries(s, Mark(<<0>>, s))
    <3>1. /\ <<>> \in Seq(Block) /\ <<0>> \in Seq(Nat) /\ <<0>> # <<>>
          /\ Len(<<0>>) = 1 /\ <<0>>[1] = 0 /\ Len(<<>>) = 0
      BY EmptySeq
    <3>2. TableOK(<<>>, <<0>>, {}) /\ Last(<<0>>) = Len(<<>>)
      BY <3>1, ReaderAssumption DEF TableOK, Last
    <3>3. FromEntries(<<>>, <<0>>)
      BY <3>1 DEF FromEntries
    <3>4. FromEntries(<<>> \o s, Mark(<<0>>, s))
      BY <2>2, <3>2, <3>3, TableMarked
    <3> QED
      BY <2>2, <3>4, ConcatEmptySeq
  <2>6. IsPrefix(s, s)
    <3>1. Len(s) \in Nat
      BY <2>2, LenProperties
    <3> QED
      BY <2>2, <3>1, PrefixFacts
  <2>7. m # NoFile
    BY StoreAssumption
  <2>8. tmp'[r] = s /\ let'[r] = Mark(<<0>>, s) /\ dir'["mail"] = m /\ data'[m] = s
    BY <1>1, <2>1, <2>2, <2>3, <2>4 DEF files
  <2> QED
    BY <1>3, <2>5, <2>6, <2>7, <2>8 DEF ReadsOn
<1>6. CASE CopiesAll(r)
  <2>1. pc[r] = "copymore" /\ UNCHANGED files
    BY <1>6 DEF CopiesAll
  <2>2. /\ dir["mail"] # NoFile /\ IsPrefix(tmp[r], data[dir["mail"]])
        /\ FromEntries(tmp[r], let[r])
    BY <1>2, <2>1 DEF ReadsOn, Reading0
  <2>3. PICK m \in Ino, s \in Seq(Block) : m = dir["mail"] /\ s = data[m]
    BY <1>1, <2>2
  <2>4. PICK t, l, d : t = tmp[r] /\ l = let[r] /\ d = del[r]
    OBVIOUS
  <2>5. /\ TableOK(t, l, d) /\ End(r) = Len(t) /\ Last(l) = Len(t)
    <3>1. ~cut
      BY ReadingVarsTyped
    <3> QED
      BY <2>1, <2>4, <3>1 DEF TypeInv, TablesTyped, Reading0, End, Last
  <2>6. PICK x : x = SubSeq(s, Len(t) + 1, Len(s))
    OBVIOUS
  <2>7. /\ tmp' = [tmp EXCEPT ![r] = t \o x] /\ let' = [let EXCEPT ![r] = Mark(l, x)]
    BY <1>6, <2>3, <2>4, <2>5, <2>6 DEF CopiesAll, Size
  <2>8. t \in Seq(Block) /\ IsPrefix(t, s)
    BY <1>1, <2>2, <2>3, <2>4
  <2>9. t \o x = s
    BY <2>3, <2>6, <2>8, PrefixRest
  <2>10. x \in Seq(Block)
    <3>1. PICK a \in Nat, b \in Nat : a = Len(t) + 1 /\ b = Len(s)
      BY <2>3, <2>8, LenProperties
    <3>2. \A k \in a..b : s[k] \in Block
      <4>1. \A k \in a..b : k \in 1..Len(s)
        BY <2>8, <3>1, LenProperties
      <4> QED
        BY <2>3, <4>1, ElementOfSeq
    <3>3. x = SubSeq(s, a, b)
      BY <2>6, <3>1
    <3> QED
      BY <3>2, <3>3, SubSeqProperties
  <2>11. FromEntries(t, l)
    BY <2>2, <2>4
  <2>12. FromEntries(t \o x, Mark(l, x))
    BY <2>5, <2>10, <2>11, TableMarked
  <2>13. IsPrefix(s, s)
    <3>1. Len(s) \in Nat
      BY <2>3, LenProperties
    <3> QED
      BY <2>3, <3>1, PrefixFacts
  <2>14. m # NoFile
    BY StoreAssumption
  <2>15. tmp'[r] = s /\ let'[r] = Mark(l, x) /\ dir'["mail"] = m /\ data'[m] = s
    BY <1>1, <2>1, <2>3, <2>7, <2>9 DEF files
  <2>16. FromEntries(s, Mark(l, x))
    BY <2>9, <2>12
  <2> QED
    BY <1>3, <2>13, <2>14, <2>15, <2>16 DEF ReadsOn
<1>7. CASE pc'[r] \notin Reading0
  BY <1>3, <1>7 DEF ReadsOn
<1>8. CASE InterruptCopy(r)
  <2>1. UNCHANGED <<tmp, let>> \/ CopiesAll(r)
    BY <1>8, InterruptCopyIs
  <2>2. pc[r] \in Reading0 /\ UNCHANGED <<data, dir>>
    BY <1>8 DEF InterruptCopy, Reading0, files
  <2> QED
    BY <1>4, <1>6, <2>1, <2>2
<1>9. CASE LoadNewMail(r) /\ pc'[r] = "reloaded"
  BY <1>6, <1>9, LoadsAll
<1> QED
  BY <1>1, <1>4, <1>5, <1>7, <1>8, <1>9, ReadingMoves

LEMMA ReadingApart ==
    ASSUME OneReader, ReadInv, NEW r \in Reader, ReadingStep(r), Orderly'
    PROVE  Orderly /\ Apart'
<1>1. TypeInv /\ r \in Proc /\ ~crowd' /\ ~cut'
  BY StoreAssumption DEF ReadInv, Orderly
<1>2. /\ ~crowd /\ \A q \in Proc \ {r} : Inside(q)' = Inside(q)
      /\ Inside(r)' => Inside(r) \/ \A q \in Proc \ {r} : ~Inside(q)
  BY <1>1, ReadingEnters
<1>7. Orderly
  BY <1>1, <1>2, ReadingVarsTyped DEF Orderly
<1>3. Apart
  BY <1>7 DEF ReadInv
<1>4. Exclusive'
  BY <1>1, <1>2, <1>3, EnterAlone DEF Apart
<1>5. ASSUME NEW d \in Deliverer PROVE Writes(d)'
  <2>1. d \in Proc \ {r}
    BY StoreAssumption
  <2>2. pc'[d] = pc[d]
    BY <1>1, <2>1, ReadingLabels DEF TypeInv
  <2>3. fd'[d] = fd[d] /\ pos'[d] = pos[d]
    BY <1>1, <2>1, ReadingVarsTyped DEF ReadingStep, delivervars
  <2>4. SUFFICES ASSUME pc[d] \in {"from", "rest", "flush"} PROVE Writes(d)'
    BY <2>2 DEF Writes
  <2>5. Inside(d)
    BY <1>1, <2>1, <2>4 DEF Inside, TypeInv, AtTyped, Held
  <2>6. ~Inside(r)
    BY <1>1, <1>3, <2>1, <2>5 DEF Apart, Exclusive
  <2>7. UNCHANGED <<data, dir>> /\ (pc'[r] \in Reading0 => pc[r] \in Reading0 /\ UNCHANGED tmp)
    BY <1>1, <2>6, ReadingOutside
  <2>8. \A q \in Reader : q = r
    BY DEF OneReader
  <2> QED
    BY <1>3, <2>2, <2>3, <2>7, <2>8 DEF Apart, Writes, Size
<1>6. \A q \in Reader : ReadsOn(q)'
  BY <1>1, <1>3, ReadingReadsOn DEF OneReader
<1> QED
  BY <1>4, <1>5, <1>6, <1>7 DEF Apart

LEMMA ReadInvStep ==
    ASSUME OneReader, ReadInv, [MailNext]_vars
    PROVE  ReadInv'
<1>1. TypeInv'
  BY StepTyped DEF ReadInv
<1>2. SUFFICES ASSUME Orderly' PROVE Apart'
  BY <1>1 DEF ReadInv
<1>3. ASSUME NEW d \in Deliverer, DeliveryStep(d) PROVE Apart'
  BY <1>2, <1>3, DeliveryApart
<1>4. ASSUME NEW r \in Reader, ReadingStep(r) PROVE Apart'
  BY <1>2, <1>4, ReadingApart
<1>5. CASE UNCHANGED <<locked, storevars, delivervars, readervars>>
  <2>1. /\ UNCHANGED <<locked, data, dir, pc, fd, crowd, cut>>
        /\ UNCHANGED <<pos, tmp, let>>
    BY <1>5 DEF storevars, delivervars, readervars
  <2>2. Apart
    BY <1>2, <2>1 DEF ReadInv, Orderly
  <2> QED
    BY <2>1, <2>2 DEF Apart, Exclusive, Inside, Writes, ReadsOn, Size
<1>6. ASSUME NEW p \in Proc, BreakStale(p), UNCHANGED <<delivervars, readervars>> PROVE Apart'
  BY <1>5, <1>6 DEF BreakStale, Break
<1>7. CASE UNCHANGED vars
  BY <1>5, <1>7 DEF vars, mboxlock
<1> QED
  BY <1>3, <1>4, <1>6, <1>7 DEF MailNext, DeliveryStep, ReadingStep

LEMMA ReadInvAtStart ==
    ASSUME MailInit
    PROVE  ReadInv
<1>1. TypeInv
  BY TypedAtStart
<1>2. \A p \in Proc : ~locked[p] /\ pc[p] = "idle"
  BY DEF MailInit, MboxLockInit, StoreInit
<1>3. \A p \in Proc : ~Inside(p)
  BY <1>2 DEF Inside
<1>4. \A r \in Reader : pc[r] = "idle"
  BY <1>2, StoreAssumption
<1>5. \A d \in Deliverer : pc[d] = "idle"
  BY <1>2, StoreAssumption
<1> QED
  BY <1>1, <1>3, <1>4, <1>5 DEF ReadInv, Apart, Exclusive, Writes, ReadsOn, Reading0

\* What the owner reads is the mailbox from its beginning and every letter of the
\* table begins with a From line, whatever fails, whoever is killed and however much
\* comes in, as long as the owner runs one session at a time and no lock is broken
\* while its holder is at work: the mailbox is opened before it is locked, and what
\* is new is read from the end of what is known.
THEOREM MailboxRead == ASSUME OneReader PROVE MailSpec => []ReadsTheMailbox
<1>1. MailInit => ReadInv
  BY ReadInvAtStart
<1>2. ReadInv /\ [MailNext]_vars => ReadInv'
  BY ReadInvStep
<1>3. ReadInv => ReadsTheMailbox
  BY DEF ReadInv, Apart, ReadsOn, ReadsTheMailbox, Reading0, FromEntries, nlet
<1> QED
  BY <1>1, <1>2, <1>3, PTL DEF MailSpec

-----------------------------------------------------------------------------
(* Letters in files *)

LEMMA WholeAt ==
    ASSUME NEW s, NEW n \in Nat, n = Len(s), NEW l
    PROVE  l \in Whole(s) <=>
             /\ l \in Letter
             /\ \E i \in 1..n : i + 1 <= n /\ s[i] = From(l) /\ s[i + 1] = Rest(l)
<1>1. \A i : i \in 1..n - 1 <=> i \in 1..n /\ i + 1 <= n
  OBVIOUS
<1> QED
  BY <1>1 DEF Whole

LEMMA WholeEmpty ==
    ASSUME NEW s, Len(s) = 0
    PROVE  Whole(s) = {}
  BY DEF Whole

LEMMA WholeAppend ==
    ASSUME NEW s \in Seq(Block), NEW b \in Block
    PROVE  /\ Whole(s) \subseteq Whole(Append(s, b))
           /\ \A l \in Letter : /\ Len(s) # 0 /\ s[Len(s)] = From(l) /\ b = Rest(l)
                                => l \in Whole(Append(s, b))
<1>1. PICK n \in Nat : n = Len(s)
  BY LenProperties
<1>2. PICK u : u = Append(s, b)
  OBVIOUS
<1>3. Len(u) = n + 1 /\ u[n + 1] = b /\ \A i \in 1..n : u[i] = s[i]
  BY <1>1, <1>2, AppendFacts
<1>4. ASSUME NEW l \in Whole(s) PROVE l \in Whole(u)
  <2>1. l \in Letter /\ \E i \in 1..n : i + 1 <= n /\ s[i] = From(l) /\ s[i + 1] = Rest(l)
    BY <1>1, WholeAt
  <2>2. PICK i \in 1..n : i + 1 <= n /\ s[i] = From(l) /\ s[i + 1] = Rest(l)
    BY <2>1
  <2>3. i \in 1..n + 1 /\ i + 1 \in 1..n /\ i + 1 <= n + 1
    BY <2>2
  <2>4. u[i] = From(l) /\ u[i + 1] = Rest(l)
    BY <1>3, <2>2, <2>3
  <2>5. n + 1 \in Nat /\ n + 1 = Len(u)
    BY <1>3
  <2> QED
    BY <2>1, <2>3, <2>4, <2>5, WholeAt
<1>5. ASSUME NEW l \in Letter, n # 0, s[n] = From(l), b = Rest(l) PROVE l \in Whole(u)
  <2>1. n \in 1..n + 1 /\ n \in 1..n /\ n + 1 <= n + 1
    BY <1>5
  <2>2. u[n] = From(l) /\ u[n + 1] = Rest(l)
    BY <1>3, <1>5, <2>1
  <2>3. n + 1 \in Nat /\ n + 1 = Len(u)
    BY <1>3
  <2> QED
    BY <2>1, <2>2, <2>3, WholeAt
<1> QED
  BY <1>1, <1>2, <1>4, <1>5

\* No letter is lost when a lone From line is cut off.
LEMMA WholeCut ==
    ASSUME NEW s \in Seq(Block), NEW n \in Nat, Len(s) = n + 1, NEW d, s[n + 1] = From(d)
    PROVE  Whole(s) \subseteq Whole(CutTo(s, n))
<1>1. PICK u : u = CutTo(s, n)
  OBVIOUS
<1>2. Len(u) = n /\ \A i \in 1..n : u[i] = s[i]
  <2>1. /\ Len(u) = IF n < Len(s) THEN n ELSE Len(s)
        /\ \A i \in 1..Len(u) : u[i] = s[i]
    BY <1>1, Cutting
  <2>2. Len(u) = n
    BY <2>1
  <2> QED
    BY <2>1, <2>2
<1>3. ASSUME NEW l \in Whole(s) PROVE l \in Whole(u)
  <2>1. n + 1 \in Nat /\ n + 1 = Len(s)
    OBVIOUS
  <2>2. /\ l \in Letter
        /\ \E i \in 1..n + 1 : i + 1 <= n + 1 /\ s[i] = From(l) /\ s[i + 1] = Rest(l)
    BY <2>1, WholeAt
  <2>3. PICK i \in 1..n + 1 : i + 1 <= n + 1 /\ s[i] = From(l) /\ s[i + 1] = Rest(l)
    BY <2>2
  <2>4. From(d) # Rest(l)
    BY DEF From, Rest
  <2>5. i # n
    BY <2>3, <2>4
  <2>6. i \in 1..n /\ i + 1 \in 1..n /\ i + 1 <= n
    BY <2>3, <2>5
  <2>7. u[i] = From(l) /\ u[i + 1] = Rest(l)
    BY <1>2, <2>3, <2>6
  <2> QED
    BY <1>2, <2>2, <2>6, <2>7, WholeAt
<1> QED
  BY <1>1, <1>3

LEMMA EndsWithNext ==
    ASSUME NEW S, NEW s \in Seq(S), NEW t \in Seq(S), NEW n \in Nat, EndsWith(s, t, n),
           n < Len(t)
    PROVE  EndsWith(Append(s, t[n + 1]), t, n + 1)
<1>1. PICK k \in Nat, m \in Nat : k = Len(s) /\ m = Len(t) /\ n <= k /\ n + 1 <= m
  BY LenProperties DEF EndsWith
<1>2. t[n + 1] \in S
  <2>1. n + 1 \in 1..Len(t)
    BY <1>1
  <2> QED
    BY <2>1, ElementOfSeq
<1>3. PICK b, u : b = t[n + 1] /\ u = Append(s, b)
  OBVIOUS
<1>4. Len(u) = k + 1 /\ u[k + 1] = b /\ \A i \in 1..k : u[i] = s[i]
  BY <1>1, <1>2, <1>3, AppendFacts
<1>5. PICK j \in Nat : j = k - n /\ k + 1 - (n + 1) = j /\ j + n = k
  BY <1>1
<1>6. \A i \in 1..n : s[j + i] = t[i]
  BY <1>1, <1>5 DEF EndsWith
<1>7. ASSUME NEW i \in 1..n + 1 PROVE u[j + i] = t[i]
  <2>1. CASE i = n + 1
    <3>1. j + i = k + 1
      BY <1>5, <2>1
    <3> QED
      BY <1>3, <1>4, <2>1, <3>1
  <2>2. CASE i # n + 1
    <3>1. i \in 1..n /\ j + i \in 1..k
      BY <1>5, <2>2
    <3> QED
      BY <1>4, <1>6, <3>1
  <2> QED
    BY <2>1, <2>2
<1>8. n + 1 <= Len(u) /\ n + 1 <= Len(t) /\ Len(u) - (n + 1) = j
  BY <1>1, <1>4, <1>5
<1>9. EndsWith(u, t, n + 1)
  BY <1>7, <1>8 DEF EndsWith
<1> QED
  BY <1>3, <1>9

LEMMA EndsWithWhole ==
    ASSUME NEW s \in Seq(Block), NEW t \in Seq(Block), EndsWith(s, t, Len(t))
    PROVE  Whole(t) \subseteq Whole(s)
<1>1. PICK k \in Nat, m \in Nat : k = Len(s) /\ m = Len(t) /\ m <= k
  BY LenProperties DEF EndsWith
<1>2. k - m \in Nat /\ (k - m) + m = k
  BY <1>1
<1>3. PICK j \in Nat : j = k - m /\ j + m = k
  BY <1>2
<1>4. \A i \in 1..m : s[j + i] = t[i]
  BY <1>1, <1>3 DEF EndsWith
<1>5. ASSUME NEW l \in Whole(t) PROVE l \in Whole(s)
  <2>1. l \in Letter /\ \E i \in 1..m : i + 1 <= m /\ t[i] = From(l) /\ t[i + 1] = Rest(l)
    BY <1>1, WholeAt
  <2>2. PICK i \in 1..m : i + 1 <= m /\ t[i] = From(l) /\ t[i + 1] = Rest(l)
    BY <2>1
  <2>3. PICK p \in 1..k : p = j + i /\ p + 1 = j + (i + 1) /\ p + 1 <= k
    BY <1>3, <2>2
  <2>4. i + 1 \in 1..m
    BY <2>2
  <2>5. s[p] = From(l) /\ s[p + 1] = Rest(l)
    BY <1>4, <2>2, <2>3, <2>4
  <2> QED
    BY <1>1, <2>1, <2>3, <2>5, WholeAt
<1> QED
  BY <1>5

LEMMA PrefixNext ==
    ASSUME NEW S, NEW s \in Seq(S), NEW t \in Seq(S), NEW n \in Nat, n = Len(s), n < Len(t),
           IsPrefix(s, t)
    PROVE  t[n + 1] \in S /\ IsPrefix(Append(s, t[n + 1]), t)
<1>1. PICK m \in Nat : m = Len(t) /\ n + 1 <= m
  BY LenProperties
<1>2. \A i \in 1..n : s[i] = t[i]
  BY PrefixFacts
<1>3. t[n + 1] \in S
  <2>1. n + 1 \in 1..Len(t)
    BY <1>1
  <2> QED
    BY <2>1, ElementOfSeq
<1>4. PICK b, u : b = t[n + 1] /\ u = Append(s, b)
  OBVIOUS
<1>5. u \in Seq(S) /\ Len(u) = n + 1 /\ u[n + 1] = b /\ \A i \in 1..n : u[i] = s[i]
  BY <1>3, <1>4, AppendFacts
<1>6. ASSUME NEW i \in 1..n + 1 PROVE u[i] = t[i]
  <2>1. i \in 1..n \/ i = n + 1
    OBVIOUS
  <2> QED
    BY <1>2, <1>4, <1>5, <2>1
<1>7. IsPrefix(u, t)
  BY <1>1, <1>5, <1>6, PrefixFacts
<1> QED
  BY <1>3, <1>4, <1>7

LEMMA PrefixWhole ==
    ASSUME NEW S, NEW s \in Seq(S), NEW t \in Seq(S), Len(s) = Len(t), IsPrefix(s, t)
    PROVE  s = t
<1>1. \A i \in 1..Len(s) : s[i] = t[i]
  BY PrefixFacts
<1> QED
  BY <1>1, SeqEqual

LEMMA AcceptedMore ==
    ASSUME accepted \in Seq(Letter), NEW d \in Letter, accepted' = Append(accepted, d)
    PROVE  \A l \in ToSet(accepted') : l \in ToSet(accepted) \/ l = d
<1>1. PICK s \in Seq(Letter), n \in Nat : s = accepted /\ n = Len(s)
  BY LenProperties
<1>2. PICK u : u = accepted' /\ u = Append(s, d)
  BY <1>1
<1>3. u \in Seq(Letter) /\ Len(u) = n + 1 /\ u[n + 1] = d /\ \A i \in 1..n : u[i] = s[i]
  BY <1>1, <1>2, AppendFacts
<1>4. DOMAIN s = 1..n /\ DOMAIN u = 1..n + 1
  BY <1>1, <1>3, LenProperties
<1>5. ASSUME NEW i \in 1..n + 1 PROVE u[i] \in ToSet(s) \/ u[i] = d
  <2>1. i \in 1..n \/ i = n + 1
    OBVIOUS
  <2> QED
    BY <1>3, <1>4, <2>1 DEF ToSet
<1>6. \A l \in ToSet(u) : l \in ToSet(s) \/ l = d
  BY <1>4, <1>5 DEF ToSet
<1> QED
  BY <1>1, <1>2, <1>6

-----------------------------------------------------------------------------
(* What a delivery leaves of the letters *)

LEMMA DeliveryPurged ==
    ASSUME NEW d \in Deliverer, DeliveryStep(d)
    PROVE  UNCHANGED purged
  BY DEF DeliveryStep, StartDelivery, SendMbox, FindUser, UserUnknown, LockMbox,
           LockMboxFails, LookAtMbox, CreateMbox, OpenMbox, OpenMboxFails, BailOut,
           WriteFrom, WriteRest, WriteFails, UnlockMbox, DoneDelivery, ExitFlush,
           KillDelivery, SignalDelivery, CrashDelivery, history

\* Without a mailbox there is nothing a delivery can write to.
LEMMA DeliveryCreates ==
    ASSUME TypeInv, Apart, NEW d \in Deliverer, DeliveryStep(d), dir["mail"] = NoFile
    PROVE  /\ UNCHANGED accepted
           /\ dir'["save"] = dir["save"]
           /\ dir["save"] # NoFile => data'[dir["save"]] = data[dir["save"]]
<1>1. /\ data \in [Ino -> Seq(Block)] /\ dir \in [Name -> Ino \cup {NoFile}]
      /\ "mail" \in Name /\ "save" \in Name /\ NoFile \notin Ino
  BY StoreAssumption DEF TypeInv, StoreTyped, Name
<1>2. pc[d] \notin {"from", "rest", "flush"}
  BY <1>1 DEF TypeInv, AtTyped, Apart, Writes
<1>3. CASE UNCHANGED <<data, dir, accepted>>
  BY <1>3
<1>4. CASE CreateMbox(d) /\ UNCHANGED accepted
  <2>1. /\ Unused # {} /\ dir' = [dir EXCEPT !["mail"] = NewIno]
        /\ data' = [data EXCEPT ![NewIno] = <<>>]
    BY <1>4 DEF CreateMbox
  <2>2. PICK i \in Ino : i = NewIno /\ i \notin Linked
    BY <2>1, NewInoFacts
  <2>3. dir["save"] # i
    BY <1>1, <2>2 DEF Linked
  <2> QED
    BY <1>1, <1>4, <2>1, <2>2, <2>3
<1> QED
  BY <1>2, <1>3, <1>4, DeliveryFiles DEF WriteFrom

\* A delivery adds to the mailbox or takes back what it began to add, and touches
\* nothing else.
LEMMA DeliveryKeeps ==
    ASSUME TypeInv, Apart, NEW d \in Deliverer, DeliveryStep(d)
    PROVE  /\ Holds("mail") \subseteq Holds("mail")'
           /\ \A l \in ToSet(accepted') : l \in ToSet(accepted) \/ l \in Holds("mail")'
           /\ dir'["save"] = dir["save"]
           /\ dir["save"] # NoFile => data'[dir["save"]] = data[dir["save"]]
<1>1. CASE dir["mail"] = NoFile
  <2>1. Holds("mail") = {}
    BY <1>1 DEF Holds
  <2> QED
    BY <1>1, <2>1, DeliveryCreates
<1>2. CASE dir["mail"] # NoFile
  <2>1. /\ data \in [Ino -> Seq(Block)] /\ dir \in [Name -> Ino \cup {NoFile}]
        /\ \A n, m \in Name : dir[n] = dir[m] /\ dir[n] # NoFile => n = m
        /\ "mail" \in Name /\ "save" \in Name /\ accepted \in Seq(Letter)
    BY DEF TypeInv, StoreTyped, Name
  <2>2. PICK m \in Ino, s \in Seq(Block) : m = dir["mail"] /\ s = data[m]
    BY <1>2, <2>1
  <2>3. PICK u : u = data'[m]
    OBVIOUS
  <2>4. UNCHANGED dir /\ \A i \in Ino : i # m => data'[i] = data[i]
    BY <1>2, <2>2, DeliveryExtends
  <2>5. dir["save"] # NoFile => dir["save"] \in Ino /\ dir["save"] # m
    BY <1>2, <2>1, <2>2
  <2>6. Holds("mail") = Whole(s) /\ Holds("mail")' = Whole(u)
    BY <1>2, <2>2, <2>3, <2>4 DEF Holds
  <2>7. From(d) \in Block /\ Rest(d) \in Block /\ d \in Letter
    BY WriterBlocks
  <2>8. Whole(s) \subseteq Whole(u) /\ \A l \in ToSet(accepted') : l \in ToSet(accepted) \/ l \in Whole(u)
    <3>1. CASE UNCHANGED <<data, accepted>>
      BY <2>2, <2>3, <3>1
    <3>2. CASE UNCHANGED accepted /\ u = Append(s, From(d))
      BY <2>7, <3>2, WholeAppend
    <3>3. CASE pc[d] \in {"rest", "flush"} /\ accepted' = Append(accepted, d) /\ u = Append(s, Rest(d))
      <4>1. PICK k \in Nat : k = pos[d]
        BY DEF TypeInv, DeliverTyped
      <4>2. Len(s) = k + 1 /\ s[k + 1] = From(d)
        BY <2>2, <3>3, <4>1 DEF Apart, Writes, Size
      <4>3. Len(s) # 0 /\ s[Len(s)] = From(d)
        BY <4>2
      <4>4. Whole(s) \subseteq Whole(u) /\ d \in Whole(u)
        BY <2>7, <3>3, <4>3, WholeAppend
      <4>5. \A l \in ToSet(accepted') : l \in ToSet(accepted) \/ l = d
        BY <2>1, <2>7, <3>3, AcceptedMore
      <4> QED
        BY <4>4, <4>5
    <3>4. CASE pc[d] = "rest" /\ UNCHANGED accepted /\ u = CutTo(s, pos[d])
      <4>1. PICK k \in Nat : k = pos[d]
        BY DEF TypeInv, DeliverTyped
      <4>2. Len(s) = k + 1 /\ s[k + 1] = From(d)
        BY <2>2, <3>4, <4>1 DEF Apart, Writes, Size
      <4>3. Whole(s) \subseteq Whole(CutTo(s, k))
        BY <4>2, WholeCut
      <4> QED
        BY <3>4, <4>1, <4>3
    <3> QED
      BY <1>2, <2>2, <2>3, <3>1, <3>2, <3>3, <3>4, DeliveryExtends
  <2> QED
    BY <2>4, <2>5, <2>6, <2>8
<1> QED
  BY <1>1, <1>2

\* Copies(r) speaks of r's own variables, of the files and of the two histories.
LEMMA CopiesSame ==
    ASSUME NEW r \in Reader, Copies(r), UNCHANGED <<data, dir, accepted, purged>>,
           pc'[r] = pc[r], fd'[r] = fd[r], UNCHANGED readervars
    PROVE  Copies(r)'
<1>1. UNCHANGED <<tmp, let, del, ofd, sname, at>>
  BY DEF readervars
<1>2. Kept(r)' = Kept(r)
  BY <1>1 DEF Kept, nlet
<1>3. Holds("mail")' = Holds("mail") /\ Holds("save")' = Holds("save")
  BY DEF Holds
<1> QED
  BY <1>1, <1>2, <1>3 DEF Copies, In, Size

LEMMA DeliveryOther ==
    ASSUME TypeInv, NEW d \in Deliverer, DeliveryStep(d), NEW r \in Reader
    PROVE  pc'[r] = pc[r] /\ fd'[r] = fd[r] /\ UNCHANGED readervars
<1>1. r \in Proc \ {d} /\ d \in Proc
  BY StoreAssumption
<1>2. pc'[r] = pc[r]
  BY <1>1, DeliveryLabels DEF TypeInv
<1>3. fd'[r] = fd[r]
  BY <1>1 DEF DeliveryStep, StartDelivery, SendMbox, FindUser, UserUnknown, LockMbox,
           LockMboxFails, LookAtMbox, CreateMbox, OpenMbox, OpenMboxFails, BailOut,
           WriteFrom, WriteRest, WriteFails, UnlockMbox, DoneDelivery, ExitFlush,
           KillDelivery, SignalDelivery, CrashDelivery, Exit, TypeInv, StoreTyped
<1> QED
  BY <1>2, <1>3 DEF DeliveryStep

LEMMA DeliveryCopies ==
    ASSUME TypeInv, Apart, NEW d \in Deliverer, DeliveryStep(d), NEW r \in Reader, Copies(r)
    PROVE  Copies(r)'
<1>1. r \in Proc /\ d \in Proc /\ r # d
  BY StoreAssumption
<1>2. pc'[r] = pc[r] /\ fd'[r] = fd[r] /\ UNCHANGED readervars
  BY DeliveryOther
<1>3. UNCHANGED purged
  BY DeliveryPurged
<1>4. CASE Inside(r)
  <2>1. ~Inside(d)
    BY <1>1, <1>4 DEF Apart, Exclusive
  <2>2. UNCHANGED <<data, dir, accepted>>
    BY <2>1, DeliveryOutside
  <2> QED
    BY <1>2, <1>3, <2>2, CopiesSame
<1>5. CASE ~Inside(r)
  <2>1. pc[r] \notin Held
    BY <1>1, <1>5 DEF Inside, TypeInv, AtTyped
  <2>2. /\ Holds("mail") \subseteq Holds("mail")'
        /\ \A l \in ToSet(accepted') : l \in ToSet(accepted) \/ l \in Holds("mail")'
        /\ dir'["save"] = dir["save"]
        /\ dir["save"] # NoFile => data'[dir["save"]] = data[dir["save"]]
    BY DeliveryKeeps
  <2>3. In(Holds("mail")) => In(Holds("mail"))'
    BY <1>3, <2>2 DEF In
  <2>4. (dir["save"] = NoFile \/ Size(dir["save"]) = 0)
            => (dir'["save"] = NoFile \/ Len(data'[dir'["save"]]) = 0)
    BY <2>2 DEF Size
  <2>5. /\ pc[r] \in {"saved?", "cksave"} => at[r] = 0
        /\ pc[r] \in PutBack => In(Holds("mail"))
        /\ "unlink" \notin Fails /\ pc[r] \in PutBack =>
             (dir["save"] = NoFile \/ Size(dir["save"]) = 0)
    BY DEF Copies
  <2>6. at' = at
    BY <1>2 DEF readervars
  <2> QED
    BY <1>2, <2>1, <2>3, <2>4, <2>5, <2>6 DEF Copies, Held, Size
<1> QED
  BY <1>4, <1>5

\* What was accepted stays in the two files.
LEMMA DeliveryBase ==
    ASSUME TypeInv, Apart, NEW d \in Deliverer, DeliveryStep(d),
           In(Holds("mail") \cup Holds("save"))
    PROVE  In(Holds("mail") \cup Holds("save"))'
<1>1. /\ Holds("mail") \subseteq Holds("mail")'
      /\ \A l \in ToSet(accepted') : l \in ToSet(accepted) \/ l \in Holds("mail")'
      /\ dir'["save"] = dir["save"]
      /\ dir["save"] # NoFile => data'[dir["save"]] = data[dir["save"]]
  BY DeliveryKeeps
<1>2. Holds("save")' = Holds("save")
  BY <1>1 DEF Holds
<1>3. UNCHANGED purged
  BY DeliveryPurged
<1> QED
  BY <1>1, <1>2, <1>3 DEF In

-----------------------------------------------------------------------------
(* What a session leaves of the letters *)

LEMMA ReadingGoes ==
    ASSUME TypeInv, NEW r \in Reader, ReadingStep(r)
    PROVE  \/ LookForSaved(r) \/ RestoreByName(r) \/ RestoreByCopy(r) \/ AppendSaved(r)
           \/ AppendedSaved(r) \/ RemoveSaved(r)
           \/ TakeNewMail(r) \/ MailboxGone(r) \/ OpenSave(r) \/ CopyOut(r)
           \/ CopyOutFails(r) \/ UnlinkMbox(r) \/ RenameSave(r) \/ RemoveEmpty(r)
           \/ /\ UNCHANGED <<data, dir, accepted, purged>>
              /\ \/ pc'[r] \in {"idle", "done"}
                 \/ pc'[r] = "saved?" /\ at'[r] = 0
                 \/ pc'[r] = "restore" /\ pc[r] = "cksave" /\ UNCHANGED at
                 \/ pc'[r] \in PutBack \ {"opensave"} /\ pc[r] \in PutBack \ {"opensave"}
<1>1. /\ pc \in [Proc -> DelivererLabel \cup ReaderLabel] /\ r \in Proc
      /\ at \in [Reader -> Nat]
  BY StoreAssumption DEF TypeInv, AtTyped, ReaderTyped
<1>2. \/ LookForSaved(r) \/ RestoreByName(r) \/ RestoreByCopy(r) \/ AppendSaved(r)
      \/ AppendedSaved(r) \/ RemoveSaved(r)
      \/ TakeNewMail(r) \/ MailboxGone(r) \/ OpenSave(r) \/ CopyOut(r)
      \/ CopyOutFails(r) \/ UnlinkMbox(r) \/ RenameSave(r) \/ RemoveEmpty(r)
      \/ StartReading(r) \/ LockForSaved(r) \/ Restored(r) \/ Printmail(r)
      \/ LockForRewrite(r) \/ CopiedBack(r) \/ CopybackFails(r) \/ LockFails(r) \/ DoneReading(r)
      \/ KillReading(r)
  BY DEF ReadingStep, ReadMail, Cksaved, Copyback
<1>3. CASE StartReading(r)
  BY <1>1, <1>3 DEF StartReading, Goto, files, history
<1>4. CASE LockForSaved(r)
  BY <1>1, <1>4 DEF LockForSaved, TakeAt, Goto, files, history, readervars
<1>5. CASE Restored(r) \/ Printmail(r) \/ LockForRewrite(r)
  BY <1>1, <1>5 DEF Restored, Printmail, LockForRewrite, StatMbox, OpenForReading,
     LockForLoad, LoadMail, Loaded, LookForNewMail, LockForReload, LoadNewMail, Reloaded,
     Interrupt, InterruptCopy, Delete, Undelete, ExitCommand, Quit, TakeAt, AskThen,
     LockFor, Leave, Goto, files,
     history, PutBack, Reading0
<1>6. CASE CopiedBack(r) \/ CopybackFails(r) \/ LockFails(r) \/ DoneReading(r) \/ KillReading(r)
  BY <1>1, <1>6 DEF CopiedBack, CopybackFails, LockFails, DoneReading, KillReading,
       SignalReading,
     CrashReading, Stop, Leave, Goto, files, history
<1> QED
  BY <1>2, <1>3, <1>4, <1>5, <1>6

\* The labels at which Copies(r) says little.
LEMMA EndCopies ==
    ASSUME NEW r \in Reader, pc'[r] \in {"idle", "done"}
    PROVE  Copies(r)'
  BY DEF Copies, PutBack, Reading0

LEMMA StartCopies ==
    ASSUME NEW r \in Reader, pc'[r] \in {"saved?", "cksave", "restore"}, at'[r] = 0
    PROVE  Copies(r)'
  BY DEF Copies, PutBack, Reading0

LEMMA PutBackCopies ==
    ASSUME NEW r \in Reader, pc'[r] \in PutBack \ {"opensave"}, In(Holds("mail"))',
           "unlink" \notin Fails => (dir["save"] = NoFile \/ Size(dir["save"]) = 0)'
    PROVE  Copies(r)'
  BY DEF Copies, PutBack, Reading0

\* No save file, or an empty one, holds nothing.
LEMMA NothingSaved ==
    ASSUME dir["save"] = NoFile \/ Size(dir["save"]) = 0
    PROVE  Holds("save") = {}
  BY WholeEmpty DEF Holds, Size

LEMMA SameBase ==
    ASSUME In(Holds("mail") \cup Holds("save")), UNCHANGED <<data, dir, accepted, purged>>
    PROVE  In(Holds("mail") \cup Holds("save"))'
  BY DEF In, Holds

LEMMA MailBase ==
    ASSUME In(Holds("mail"))
    PROVE  In(Holds("mail") \cup Holds("save"))
  BY DEF In

LEMMA ReadingStays ==
    ASSUME NEW r \in Reader, Copies(r), In(Holds("mail") \cup Holds("save")),
           UNCHANGED <<data, dir, accepted, purged>>,
           \/ pc'[r] \in {"idle", "done"}
           \/ pc'[r] = "saved?" /\ at'[r] = 0
           \/ pc'[r] = "restore" /\ pc[r] = "cksave" /\ UNCHANGED at
           \/ pc'[r] \in PutBack \ {"opensave"} /\ pc[r] \in PutBack \ {"opensave"}
    PROVE  Copies(r)' /\ In(Holds("mail") \cup Holds("save"))'
<1>1. In(Holds("mail") \cup Holds("save"))'
  BY SameBase
<1>2. CASE pc'[r] \in {"idle", "done"}
  BY <1>1, <1>2, EndCopies
<1>3. CASE pc'[r] = "saved?" /\ at'[r] = 0
  BY <1>1, <1>3, StartCopies
<1>4. CASE pc'[r] = "restore" /\ pc[r] = "cksave" /\ UNCHANGED at
  <2>1. at[r] = 0
    BY <1>4 DEF Copies
  <2> QED
    BY <1>1, <1>4, <2>1, StartCopies
<1>5. CASE pc'[r] \in PutBack \ {"opensave"} /\ pc[r] \in PutBack \ {"opensave"}
  <2>1. /\ In(Holds("mail"))
        /\ "unlink" \notin Fails => (dir["save"] = NoFile \/ Size(dir["save"]) = 0)
    BY <1>5 DEF Copies
  <2>2. /\ In(Holds("mail"))'
        /\ "unlink" \notin Fails => (dir["save"] = NoFile \/ Size(dir["save"]) = 0)'
    BY <2>1 DEF In, Holds, Size
  <2> QED
    BY <1>1, <1>5, <2>2, PutBackCopies
<1> QED
  BY <1>1, <1>2, <1>3, <1>4, <1>5

\* What every step of a session is told of the names and the labels.
LEMMA SessionFacts ==
    ASSUME TypeInv, NEW r \in Reader
    PROVE  /\ data \in [Ino -> Seq(Block)] /\ dir \in [Name -> Ino \cup {NoFile}]
           /\ \A n, m \in Name : dir[n] = dir[m] /\ dir[n] # NoFile => n = m
           /\ "mail" \in Name /\ "save" \in Name /\ NoFile \notin Ino
           /\ pc \in [Proc -> DelivererLabel \cup ReaderLabel] /\ r \in Proc
           /\ fd \in [Proc -> Ino \cup {NoFile}] /\ ofd \in [Reader -> Ino \cup {NoFile}]
           /\ at \in [Reader -> Nat] /\ sname \in [Reader -> {"save", "alt"}]
           /\ tmp \in [Reader -> Seq(Block)]
  BY StoreAssumption DEF TypeInv, StoreTyped, ReaderTyped, AtTyped, Name

LEMMA LookForSavedCopies ==
    ASSUME TypeInv, NEW r \in Reader, Copies(r), In(Holds("mail") \cup Holds("save")),
           LookForSaved(r)
    PROVE  Copies(r)' /\ In(Holds("mail") \cup Holds("save"))'
<1>1. /\ pc[r] = "saved?" /\ UNCHANGED <<data, dir, accepted, purged, at>>
      /\ \/ pc'[r] = "cksave"
         \/ /\ pc'[r] = "stat"
            /\ ~(dir["save"] # NoFile /\ Size(dir["save"]) > 0)
  BY SessionFacts DEF LookForSaved, AskThen, Goto, files, history, readervars
<1>2. In(Holds("mail") \cup Holds("save"))'
  BY <1>1, SameBase
<1>3. CASE pc'[r] = "cksave"
  <2>1. at'[r] = 0
    BY <1>1 DEF Copies
  <2> QED
    BY <1>2, <1>3, <2>1, StartCopies
<1>4. CASE pc'[r] = "stat" /\ ~(dir["save"] # NoFile /\ Size(dir["save"]) > 0)
  <2>1. dir["save"] = NoFile \/ Size(dir["save"]) = 0
    <3>1. SUFFICES ASSUME dir["save"] # NoFile PROVE Size(dir["save"]) = 0
      OBVIOUS
    <3>2. data[dir["save"]] \in Seq(Block)
      BY <3>1, SessionFacts
    <3>3. Size(dir["save"]) \in Nat
      BY <3>2, LenProperties DEF Size
    <3> QED
      BY <1>4, <3>1, <3>3
  <2>2. In(Holds("mail"))
    BY <2>1, NothingSaved DEF In
  <2>3. In(Holds("mail"))' /\ (dir["save"] = NoFile \/ Size(dir["save"]) = 0)'
    BY <1>1, <2>1, <2>2 DEF In, Holds, Size
  <2> QED
    BY <1>2, <1>4, <2>3, PutBackCopies DEF PutBack
<1> QED
  BY <1>1, <1>3, <1>4

LEMMA RestoreByNameCopies ==
    ASSUME SureCalls, TypeInv, NEW r \in Reader, Copies(r),
           In(Holds("mail") \cup Holds("save")), RestoreByName(r)
    PROVE  Copies(r)' /\ In(Holds("mail") \cup Holds("save"))'
<1>1. /\ dir["mail"] = NoFile /\ UNCHANGED <<data, accepted, purged>>
      /\ \/ /\ dir["save"] # NoFile /\ pc'[r] = "restored"
            /\ dir' = [dir EXCEPT !["mail"] = dir["save"], !["save"] = NoFile]
         \/ dir["save"] = NoFile /\ pc'[r] = "stat" /\ UNCHANGED dir
  BY SessionFacts DEF RestoreByName, Leave, Goto, history, SureCalls
<1>2. In(Holds("save"))
  BY <1>1 DEF In, Holds
<1>3. In(Holds("mail"))' /\ (dir["save"] = NoFile)'
  <2>1. CASE dir' = [dir EXCEPT !["mail"] = dir["save"], !["save"] = NoFile]
    <3>1. dir'["mail"] = dir["save"] /\ dir'["save"] = NoFile
      BY <2>1, SessionFacts
    <3>2. Holds("mail")' = Holds("save")
      BY <1>1, <3>1 DEF Holds
    <3> QED
      BY <1>1, <1>2, <3>1, <3>2 DEF In
  <2>2. CASE dir["save"] = NoFile /\ UNCHANGED dir
    <3>1. Holds("save") = {} /\ Holds("mail")' = {}
      BY <1>1, <2>2 DEF Holds
    <3> QED
      BY <1>1, <1>2, <2>2, <3>1 DEF In
  <2> QED
    BY <1>1, <2>1, <2>2
<1> QED
  BY <1>1, <1>3, PutBackCopies, MailBase DEF PutBack, In

LEMMA RestoreByCopyCopies ==
    ASSUME SureCalls, TypeInv, NEW r \in Reader, Copies(r),
           In(Holds("mail") \cup Holds("save")), RestoreByCopy(r)
    PROVE  Copies(r)' /\ In(Holds("mail") \cup Holds("save"))'
<1>1. /\ pc[r] = "restore" /\ dir["mail"] # NoFile
      /\ UNCHANGED <<data, dir, accepted, purged, at>>
      /\ \/ /\ dir["save"] # NoFile /\ pc'[r] = "append"
            /\ fd'[r] = dir["save"] /\ ofd'[r] = dir["mail"]
         \/ dir["save"] = NoFile /\ pc'[r] = "stat"
  BY SessionFacts DEF RestoreByCopy, Leave, Goto, files, history, SureCalls
<1>2. In(Holds("mail") \cup Holds("save"))'
  BY <1>1, SameBase
<1>3. CASE pc'[r] = "append" /\ fd'[r] = dir["save"] /\ ofd'[r] = dir["mail"] /\ dir["save"] # NoFile
  <2>1. at'[r] = 0
    BY <1>1 DEF Copies
  <2>2. data[dir["mail"]] \in Seq(Block) /\ data[dir["save"]] \in Seq(Block)
    BY <1>1, <1>3, SessionFacts
  <2>3. EndsWith(data[dir["mail"]], data[dir["save"]], 0)
    BY <2>2, LenProperties DEF EndsWith
  <2> QED
    BY <1>1, <1>2, <1>3, <2>1, <2>3 DEF Copies, PutBack, Reading0
<1>4. CASE dir["save"] = NoFile /\ pc'[r] = "stat"
  <2>1. In(Holds("mail"))
    BY <1>4, NothingSaved DEF In
  <2>2. In(Holds("mail"))' /\ (dir["save"] = NoFile)'
    BY <1>1, <1>4, <2>1 DEF In, Holds
  <2> QED
    BY <1>2, <1>4, <2>2, PutBackCopies DEF PutBack
<1> QED
  BY <1>1, <1>3, <1>4

LEMMA AppendSavedCopies ==
    ASSUME TypeInv, NEW r \in Reader, Copies(r), In(Holds("mail") \cup Holds("save")),
           AppendSaved(r)
    PROVE  Copies(r)' /\ In(Holds("mail") \cup Holds("save"))'
<1>1. /\ pc[r] = "append" /\ pc'[r] = "append" /\ at[r] < Size(fd[r])
      /\ Append1(ofd[r], data[fd[r]][at[r] + 1])
      /\ at'[r] = at[r] + 1 /\ UNCHANGED <<dir, fd, ofd, accepted, purged>>
  BY SessionFacts DEF AppendSaved, history
<1>2. /\ dir["save"] = fd[r] /\ dir["mail"] = ofd[r]
      /\ EndsWith(data[ofd[r]], data[fd[r]], at[r])
  BY <1>1 DEF Copies
<1>3. fd[r] \in Ino /\ ofd[r] \in Ino
  BY <1>1 DEF TypeInv, AtTyped
<1>4. PICK i \in Ino, m \in Ino : i = fd[r] /\ m = ofd[r] /\ i = dir["save"] /\ m = dir["mail"]
  BY <1>2, <1>3
<1>5. i # m
  BY <1>4, SessionFacts
<1>6. PICK s \in Seq(Block), u \in Seq(Block) : s = data[i] /\ u = data[m]
  BY SessionFacts
<1>7. PICK n \in Nat : n = at[r]
  BY SessionFacts
<1>8. PICK b : b = s[n + 1]
  OBVIOUS
<1>9. n < Len(s) /\ EndsWith(u, s, n)
  BY <1>1, <1>2, <1>4, <1>6, <1>7 DEF Size
<1>10. b \in Block
  <2>1. n + 1 \in 1..Len(s)
    BY <1>9, LenProperties
  <2> QED
    BY <1>8, <2>1, ElementOfSeq
<1>11. EndsWith(Append(u, b), s, n + 1)
  BY <1>8, <1>9, EndsWithNext
<1>12. Append1(m, b)
  BY <1>1, <1>4, <1>6, <1>7, <1>8
<1>13. data'[m] = Append(u, b) /\ data'[i] = s
  BY <1>5, <1>6, <1>10, <1>12, SessionFacts, Writing
<1>14. Copies(r)'
  BY <1>1, <1>4, <1>7, <1>11, <1>13 DEF Copies, PutBack, Reading0
<1>15. /\ Holds("mail") = Whole(u) /\ Holds("mail")' = Whole(Append(u, b))
       /\ Holds("save") = Whole(s) /\ Holds("save")' = Whole(s)
  BY <1>1, <1>4, <1>6, <1>13, StoreAssumption DEF Holds
<1>16. Whole(u) \subseteq Whole(Append(u, b))
  BY <1>10, WholeAppend
<1> QED
  BY <1>1, <1>14, <1>15, <1>16 DEF In

LEMMA AppendedSavedCopies ==
    ASSUME SureCalls, TypeInv, NEW r \in Reader, Copies(r),
           In(Holds("mail") \cup Holds("save")), AppendedSaved(r)
    PROVE  Copies(r)' /\ In(Holds("mail") \cup Holds("save"))'
<1>1. /\ pc[r] = "append" /\ pc'[r] = "remove" /\ at[r] = Size(fd[r])
      /\ UNCHANGED <<data, dir, accepted, purged>>
  BY SessionFacts DEF AppendedSaved, Goto, files, history, SureCalls
<1>2. /\ dir["save"] = fd[r] /\ dir["mail"] = ofd[r]
      /\ EndsWith(data[ofd[r]], data[fd[r]], at[r])
  BY <1>1 DEF Copies
<1>3. fd[r] \in Ino /\ ofd[r] \in Ino
  BY <1>1 DEF TypeInv, AtTyped
<1>4. PICK s \in Seq(Block), u \in Seq(Block) : s = data[fd[r]] /\ u = data[ofd[r]]
  BY <1>3, SessionFacts
<1>5. EndsWith(u, s, Len(s))
  BY <1>1, <1>2, <1>4 DEF Size
<1>6. Whole(s) \subseteq Whole(u)
  BY <1>5, EndsWithWhole
<1>7. Holds("save") \subseteq Holds("mail")
  BY <1>2, <1>3, <1>4, <1>6, StoreAssumption DEF Holds
<1>8. (Holds("save") \subseteq Holds("mail"))'
  BY <1>1, <1>7 DEF Holds
<1> QED
  BY <1>1, <1>8, SameBase DEF Copies, PutBack, Reading0

LEMMA RemoveSavedCopies ==
    ASSUME TypeInv, NEW r \in Reader, Copies(r), In(Holds("mail") \cup Holds("save")),
           RemoveSaved(r)
    PROVE  Copies(r)' /\ In(Holds("mail") \cup Holds("save"))'
<1>1. /\ pc[r] = "remove" /\ UNCHANGED <<data, accepted, purged>>
      /\ \/ pc'[r] = "restored" /\ dir' = [dir EXCEPT !["save"] = NoFile]
         \/ /\ pc'[r] = "stat" /\ UNCHANGED dir
            /\ dir["save"] = NoFile \/ "unlink" \in Fails
  BY SessionFacts DEF RemoveSaved, Goto, history
<1>2. In(Holds("mail"))
  BY <1>1 DEF Copies, In
<1>3. dir'["mail"] = dir["mail"]
  BY <1>1, SessionFacts
<1>4. In(Holds("mail"))'
  BY <1>1, <1>2, <1>3 DEF In, Holds
<1>5. "unlink" \notin Fails => (dir["save"] = NoFile)'
  BY <1>1, SessionFacts
<1> QED
  BY <1>1, <1>4, <1>5, PutBackCopies DEF PutBack, In

\* What copyback() finds is the mailbox as it was read, and more behind it.
LEMMA TakeNewMailCopies ==
    ASSUME TypeInv, Apart, ~cut, NEW r \in Reader, Copies(r),
           In(Holds("mail") \cup Holds("save")), TakeNewMail(r)
    PROVE  Copies(r)' /\ In(Holds("mail") \cup Holds("save"))'
<1>1. PICK m \in Ino, s \in Seq(Block), t \in Seq(Block) :
        m = dir["mail"] /\ s = data[m] /\ t = tmp[r]
  <2>1. dir["mail"] # NoFile
    BY DEF TakeNewMail
  <2> QED
    BY <2>1, SessionFacts
<1>2. pc[r] = "newmail" /\ UNCHANGED <<data, dir, accepted, purged>>
  BY DEF TakeNewMail, files, history
<1>3. IsPrefix(t, s) /\ End(r) = Len(t)
  BY <1>1, <1>2 DEF Apart, ReadsOn, TypeInv, TablesTyped, Reading0
<1>4. \/ pc'[r] = "done"
      \/ /\ pc'[r] = "opensave"
         /\ \/ Len(s) = Len(t) /\ UNCHANGED tmp
            \/ tmp' = [tmp EXCEPT ![r] = t \o SubSeq(s, Len(t) + 1, Len(s))]
  BY <1>1, <1>3, SessionFacts DEF TakeNewMail, Goto
<1>5. In(Holds("mail") \cup Holds("save"))'
  BY <1>2, SameBase
<1>6. CASE pc'[r] = "done"
  BY <1>5, <1>6, EndCopies
<1>7. CASE /\ pc'[r] = "opensave"
           /\ \/ Len(s) = Len(t) /\ UNCHANGED tmp
              \/ tmp' = [tmp EXCEPT ![r] = t \o SubSeq(s, Len(t) + 1, Len(s))]
  <2>1. tmp'[r] = s
    <3>1. CASE Len(s) = Len(t) /\ UNCHANGED tmp
      <4>1. t = s
        BY <1>3, <3>1, PrefixWhole
      <4> QED
        BY <1>1, <3>1, <4>1
    <3>2. CASE tmp' = [tmp EXCEPT ![r] = t \o SubSeq(s, Len(t) + 1, Len(s))]
      <4>1. t \o SubSeq(s, Len(t) + 1, Len(s)) = s
        BY <1>3, PrefixRest
      <4> QED
        BY <3>2, <4>1, SessionFacts
    <3> QED
      BY <1>7, <3>1, <3>2
  <2>2. /\ In(Holds("mail"))
        /\ "unlink" \notin Fails => (dir["save"] = NoFile \/ Size(dir["save"]) = 0)
    BY <1>2 DEF Copies, PutBack, Reading0
  <2>3. /\ In(Holds("mail"))'
        /\ "unlink" \notin Fails => (dir["save"] = NoFile \/ Size(dir["save"]) = 0)'
    BY <1>2, <2>2 DEF In, Holds, Size
  <2>4. dir'["mail"] # NoFile /\ tmp'[r] = data'[dir'["mail"]]
    BY <1>1, <1>2, <2>1, StoreAssumption
  <2> QED
    BY <1>5, <1>7, <2>3, <2>4 DEF Copies, Reading0
<1> QED
  BY <1>4, <1>6, <1>7

LEMMA OpenSaveCopies ==
    ASSUME SureCalls, TypeInv, NEW r \in Reader, Copies(r),
           In(Holds("mail") \cup Holds("save")), OpenSave(r)
    PROVE  Copies(r)' /\ In(Holds("mail") \cup Holds("save"))'
<1>1. PICK i : /\ i = IF dir["save"] = NoFile THEN NewIno ELSE dir["save"]
               /\ dir["save"] # NoFile \/ Unused # {}
               /\ dir' = [dir EXCEPT !["save"] = i] /\ data' = [data EXCEPT ![i] = <<>>]
               /\ ofd' = [ofd EXCEPT ![r] = i] /\ sname' = [sname EXCEPT ![r] = "save"]
  BY DEF OpenSave, SureCalls
<1>2. /\ pc[r] = "opensave" /\ pc'[r] = "copyout" /\ at' = [at EXCEPT ![r] = 0]
      /\ UNCHANGED <<tmp, let, del, accepted, purged>>
  BY SessionFacts DEF OpenSave, Goto, history
<1>3. /\ In(Holds("mail")) /\ dir["mail"] # NoFile /\ tmp[r] = data[dir["mail"]]
  BY <1>2 DEF Copies, PutBack
<1>4. i \in Ino /\ i # dir["mail"]
  <2>1. CASE dir["save"] = NoFile
    <3>1. i = NewIno /\ Unused # {}
      BY <1>1, <2>1
    <3>2. i \in Ino /\ i \notin Linked
      BY <3>1, NewInoFacts
    <3> QED
      BY <1>3, <3>2, SessionFacts DEF Linked
  <2>2. CASE dir["save"] # NoFile
    BY <1>1, <2>2, SessionFacts
  <2> QED
    BY <2>1, <2>2
<1>5. /\ dir'["mail"] = dir["mail"] /\ dir'["save"] = i
      /\ data'[dir["mail"]] = data[dir["mail"]] /\ data'[i] = <<>>
      /\ ofd'[r] = i /\ sname'[r] = "save" /\ at'[r] = 0
  BY <1>1, <1>2, <1>3, <1>4, SessionFacts
<1>6. In(Holds("mail"))'
  BY <1>2, <1>3, <1>5 DEF In, Holds
<1>7. Kept(r)' = Kept(r) /\ Kept(r) \in Seq(Block)
  <2>1. Kept(r) \in Seq(Block)
    BY KeptTyped DEF TypeInv
  <2> QED
    BY <1>2, <2>1 DEF Kept, nlet
<1>8. Len(<<>>) = 0 /\ IsPrefix(<<>>, Kept(r))
  <2>1. PICK e \in Seq(Block), k \in Seq(Block) : e = <<>> /\ k = Kept(r)
    BY <1>7, EmptySeq
  <2>2. Len(e) = 0 /\ Len(k) \in Nat
    BY <2>1, EmptySeq, LenProperties
  <2>3. IsPrefix(e, k) <=> Len(e) <= Len(k) /\ \A i0 \in 1..Len(e) : e[i0] = k[i0]
    BY PrefixFacts
  <2>4. IsPrefix(e, k)
    BY <2>2, <2>3
  <2> QED
    BY <2>1, <2>2, <2>4
<1>9. Copies(r)'
  BY <1>2, <1>3, <1>5, <1>6, <1>7, <1>8 DEF Copies, PutBack, Reading0, Size
<1> QED
  BY <1>6, <1>9 DEF In

LEMMA CopyOutCopies ==
    ASSUME TypeInv, NEW r \in Reader, Copies(r), In(Holds("mail") \cup Holds("save")),
           CopyOut(r)
    PROVE  Copies(r)' /\ In(Holds("mail") \cup Holds("save"))'
<1>1. /\ pc[r] = "copyout" /\ pc'[r] = "copyout" /\ at[r] < Len(Kept(r))
      /\ Append1(ofd[r], Kept(r)[at[r] + 1]) /\ at'[r] = at[r] + 1
      /\ UNCHANGED <<dir, ofd, sname, tmp, let, del, accepted, purged>>
  BY SessionFacts DEF CopyOut, history
<1>2. /\ In(Holds("mail")) /\ dir["mail"] # NoFile /\ tmp[r] = data[dir["mail"]]
      /\ dir["save"] = ofd[r] /\ sname[r] = "save"
      /\ Size(ofd[r]) = at[r] /\ IsPrefix(data[ofd[r]], Kept(r))
  BY <1>1 DEF Copies
<1>3. PICK i \in Ino, m \in Ino : i = ofd[r] /\ m = dir["mail"] /\ i = dir["save"]
  BY <1>1, <1>2, SessionFacts DEF TypeInv, AtTyped
<1>4. i # m
  BY <1>2, <1>3, SessionFacts
<1>5. PICK s \in Seq(Block), k \in Seq(Block), n \in Nat :
        s = data[i] /\ k = Kept(r) /\ n = at[r]
  BY SessionFacts, KeptTyped DEF TypeInv
<1>6. n = Len(s) /\ n < Len(k) /\ IsPrefix(s, k)
  BY <1>1, <1>2, <1>3, <1>5 DEF Size
<1>7. PICK b : b = k[n + 1]
  OBVIOUS
<1>8. b \in Block /\ IsPrefix(Append(s, b), k)
  BY <1>6, <1>7, PrefixNext
<1>9. Append1(i, b)
  BY <1>1, <1>3, <1>5, <1>7
<1>10. data'[i] = Append(s, b) /\ data'[m] = data[m]
  BY <1>4, <1>5, <1>8, <1>9, SessionFacts, Writing
<1>11. Len(Append(s, b)) = n + 1
  BY <1>6, <1>8, AppendFacts
<1>12. Kept(r)' = k
  BY <1>1, <1>5 DEF Kept, nlet
<1>13. In(Holds("mail"))'
  BY <1>1, <1>2, <1>3, <1>10 DEF In, Holds
<1>14. Copies(r)'
  BY <1>1, <1>2, <1>3, <1>5, <1>8, <1>10, <1>11, <1>12, <1>13
     DEF Copies, PutBack, Reading0, Size
<1> QED
  BY <1>13, <1>14 DEF In

LEMMA CopyOutFailsCopies ==
    ASSUME TypeInv, NEW r \in Reader, Copies(r), In(Holds("mail") \cup Holds("save")),
           CopyOutFails(r)
    PROVE  Copies(r)' /\ In(Holds("mail") \cup Holds("save"))'
<1>1. /\ pc[r] = "copyout" /\ pc'[r] = "done" /\ UNCHANGED <<dir, accepted, purged>>
      /\ \E s : data' = [data EXCEPT ![ofd[r]] = s]
  BY SessionFacts DEF CopyOutFails, Goto, history
<1>2. In(Holds("mail")) /\ dir["mail"] # NoFile /\ dir["save"] = ofd[r]
  BY <1>1 DEF Copies
<1>3. dir["mail"] \in Ino /\ dir["mail"] # ofd[r]
  BY <1>2, SessionFacts
<1>4. data'[dir["mail"]] = data[dir["mail"]]
  BY <1>1, <1>3, SessionFacts
<1>5. In(Holds("mail"))'
  BY <1>1, <1>2, <1>4 DEF In, Holds
<1> QED
  BY <1>1, <1>5, EndCopies DEF In

\* What is in the mailbox and not in the save file was deleted.
LEMMA UnlinkMboxCopies ==
    ASSUME TypeInv, NEW r \in Reader, Copies(r), In(Holds("mail") \cup Holds("save")),
           UnlinkMbox(r)
    PROVE  Copies(r)' /\ In(Holds("mail") \cup Holds("save"))'
<1>1. /\ pc[r] = "copyout" /\ at[r] = Len(Kept(r))
      /\ UNCHANGED <<data, sname, at, accepted>>
      /\ \/ /\ dir' = [dir EXCEPT !["mail"] = NoFile] /\ pc'[r] = "rename"
            /\ purged' = purged \cup (Whole(tmp[r]) \ Whole(Kept(r)))
         \/ pc'[r] = "done" /\ UNCHANGED <<dir, purged>>
  BY SessionFacts DEF UnlinkMbox, Goto
<1>2. /\ In(Holds("mail")) /\ dir["mail"] # NoFile /\ tmp[r] = data[dir["mail"]]
      /\ dir["save"] = ofd[r] /\ sname[r] = "save"
      /\ Size(ofd[r]) = at[r] /\ IsPrefix(data[ofd[r]], Kept(r))
  BY <1>1 DEF Copies
<1>3. CASE /\ dir' = [dir EXCEPT !["mail"] = NoFile] /\ pc'[r] = "rename"
           /\ purged' = purged \cup (Whole(tmp[r]) \ Whole(Kept(r)))
  <2>1. PICK i \in Ino : i = ofd[r]
    BY <1>1 DEF TypeInv, AtTyped
  <2>2. PICK s \in Seq(Block), k \in Seq(Block) : s = data[i] /\ k = Kept(r)
    BY SessionFacts, KeptTyped DEF TypeInv
  <2>3. s = k
    <3>1. Len(s) = Len(k) /\ IsPrefix(s, k)
      BY <1>1, <1>2, <2>1, <2>2 DEF Size
    <3> QED
      BY <3>1, PrefixWhole
  <2>4. dir'["mail"] = NoFile /\ dir'["save"] = i
    BY <1>2, <1>3, <2>1, SessionFacts
  <2>5. Holds("mail") = Whole(tmp[r]) /\ Holds("save")' = Whole(k)
    BY <1>1, <1>2, <2>2, <2>3, <2>4, StoreAssumption DEF Holds
  <2>6. In(Holds("mail") \cup Holds("save"))'
    BY <1>1, <1>2, <1>3, <2>2, <2>5 DEF In
  <2>7. Copies(r)'
    BY <1>1, <1>2, <1>3, <2>1, <2>4 DEF Copies, PutBack, Reading0, Size
  <2> QED
    BY <2>6, <2>7
<1>4. CASE pc'[r] = "done" /\ UNCHANGED <<dir, purged>>
  BY <1>1, <1>4, EndCopies, SameBase
<1> QED
  BY <1>1, <1>3, <1>4

LEMMA RenameSaveCopies ==
    ASSUME SureCalls, TypeInv, NEW r \in Reader, Copies(r),
           In(Holds("mail") \cup Holds("save")), RenameSave(r)
    PROVE  Copies(r)' /\ In(Holds("mail") \cup Holds("save"))'
<1>1. /\ pc[r] = "rename" /\ UNCHANGED <<data, accepted, purged>>
      /\ \/ /\ dir[sname[r]] # NoFile
            /\ dir' = [dir EXCEPT !["mail"] = dir[sname[r]], ![sname[r]] = NoFile]
            /\ pc'[r] = "copied" \/ (pc'[r] = "empty" /\ at[r] = 0)
         \/ pc'[r] = "done" /\ UNCHANGED dir
  <2>1. PICK v : v = IF at[r] = 0 /\ DelEmpty THEN "empty" ELSE "copied"
    OBVIOUS
  <2>2. v = "copied" \/ (v = "empty" /\ at[r] = 0)
    BY <2>1, Zenon
  <2>3. /\ pc[r] = "rename" /\ UNCHANGED <<data, accepted, purged>>
        /\ \/ /\ dir[sname[r]] # NoFile
              /\ dir' = [dir EXCEPT !["mail"] = dir[sname[r]], ![sname[r]] = NoFile]
              /\ pc' = [pc EXCEPT ![r] = v]
           \/ pc' = [pc EXCEPT ![r] = "done"] /\ UNCHANGED dir
    BY <2>1 DEF RenameSave, Goto, history
  <2>4. \A w : pc' = [pc EXCEPT ![r] = w] => pc'[r] = w
    BY SessionFacts
  <2> QED
    BY <2>2, <2>3, <2>4
<1>2. /\ dir["mail"] = NoFile /\ sname[r] = "save"
      /\ dir["save"] # NoFile => Size(dir["save"]) = at[r]
  BY <1>1 DEF Copies
<1>3. CASE /\ dir[sname[r]] # NoFile
           /\ dir' = [dir EXCEPT !["mail"] = dir[sname[r]], ![sname[r]] = NoFile]
           /\ pc'[r] = "copied" \/ (pc'[r] = "empty" /\ at[r] = 0)
  <2>1. dir'["mail"] = dir["save"] /\ dir["save"] # NoFile /\ Size(dir["save"]) = at[r]
    BY <1>2, <1>3, SessionFacts
  <2>2. Holds("mail") = {} /\ Holds("mail")' = Holds("save")
    BY <1>1, <1>2, <2>1 DEF Holds
  <2>3. In(Holds("mail"))'
    BY <1>1, <2>2 DEF In
  <2>4. Copies(r)'
    BY <1>1, <1>3, <2>1, <2>3 DEF Copies, PutBack, Reading0, Size
  <2> QED
    BY <2>3, <2>4 DEF In
<1>4. CASE pc'[r] = "done" /\ UNCHANGED dir
  BY <1>1, <1>4, EndCopies, SameBase
<1> QED
  BY <1>1, <1>3, <1>4

LEMMA RemoveEmptyCopies ==
    ASSUME TypeInv, NEW r \in Reader, Copies(r), In(Holds("mail") \cup Holds("save")),
           RemoveEmpty(r)
    PROVE  Copies(r)' /\ In(Holds("mail") \cup Holds("save"))'
<1>1. /\ pc[r] = "empty" /\ pc'[r] = "copied" /\ UNCHANGED <<data, accepted, purged>>
      /\ dir' = [dir EXCEPT !["mail"] = NoFile]
  BY SessionFacts DEF RemoveEmpty, Goto, history
<1>2. In(Holds("mail")) /\ dir["mail"] # NoFile /\ Size(dir["mail"]) = 0
  BY <1>1 DEF Copies
<1>3. Holds("mail") = {}
  BY <1>2, WholeEmpty DEF Holds, Size
<1>4. In(Holds("mail"))'
  BY <1>1, <1>2, <1>3 DEF In
<1>5. Copies(r)'
  BY <1>1, <1>4 DEF Copies, PutBack, Reading0
<1> QED
  BY <1>4, <1>5 DEF In

LEMMA ReadingCopies ==
    ASSUME SureCalls, TypeInv, Apart, ~cut, NEW r \in Reader, Copies(r),
           In(Holds("mail") \cup Holds("save")), ReadingStep(r)
    PROVE  Copies(r)' /\ In(Holds("mail") \cup Holds("save"))'
<1>1. CASE \/ LookForSaved(r) \/ RestoreByName(r) \/ RestoreByCopy(r) \/ AppendSaved(r)
           \/ AppendedSaved(r) \/ RemoveSaved(r)
  BY <1>1, LookForSavedCopies, RestoreByNameCopies, RestoreByCopyCopies,
     AppendSavedCopies, AppendedSavedCopies, RemoveSavedCopies
<1>2. CASE \/ TakeNewMail(r) \/ OpenSave(r) \/ CopyOut(r) \/ CopyOutFails(r)
           \/ UnlinkMbox(r) \/ RenameSave(r) \/ RemoveEmpty(r)
  BY <1>2, TakeNewMailCopies, OpenSaveCopies, CopyOutCopies, CopyOutFailsCopies,
     UnlinkMboxCopies, RenameSaveCopies, RemoveEmptyCopies
<1>3. ~MailboxGone(r)
  BY DEF MailboxGone, Apart, ReadsOn, Reading0
<1> QED
  BY <1>1, <1>2, <1>3, ReadingGoes, ReadingStays

LEMMA SafeInvStep ==
    ASSUME OneReader, SureCalls, SafeInv, [MailNext]_vars
    PROVE  SafeInv'
<1>1. ReadInv /\ ReadInv'
  BY ReadInvStep DEF SafeInv
<1>2. SUFFICES ASSUME Orderly'
               PROVE  (\A r \in Reader : Copies(r)') /\ In(Holds("mail") \cup Holds("save"))'
  BY <1>1 DEF SafeInv
<1>3. ASSUME Orderly
      PROVE  /\ TypeInv /\ Apart /\ ~cut /\ \A r \in Reader : Copies(r)
             /\ In(Holds("mail") \cup Holds("save"))
  BY <1>3 DEF SafeInv, ReadInv, Orderly
<1>4. ASSUME NEW d \in Deliverer, DeliveryStep(d)
      PROVE  (\A r \in Reader : Copies(r)') /\ In(Holds("mail") \cup Holds("save"))'
  <2>1. Orderly
    BY <1>1, <1>2, <1>4, DeliveryApart
  <2> QED
    BY <1>3, <1>4, <2>1, DeliveryCopies, DeliveryBase
<1>5. ASSUME NEW r \in Reader, ReadingStep(r)
      PROVE  (\A q \in Reader : Copies(q)') /\ In(Holds("mail") \cup Holds("save"))'
  <2>1. Orderly
    BY <1>1, <1>2, <1>5, ReadingApart
  <2>2. Copies(r)' /\ In(Holds("mail") \cup Holds("save"))'
    BY <1>3, <1>5, <2>1, ReadingCopies
  <2>3. \A q \in Reader : q = r
    BY DEF OneReader
  <2> QED
    BY <2>2, <2>3
<1>6. CASE UNCHANGED <<storevars, readervars>>
  <2>1. UNCHANGED <<data, dir, accepted, purged, pc, fd, crowd, cut>>
    BY <1>6 DEF storevars
  <2>2. (\A r \in Reader : Copies(r)) /\ In(Holds("mail") \cup Holds("save"))
    BY <1>2, <1>3, <2>1 DEF Orderly
  <2> QED
    BY <1>6, <2>1, <2>2, CopiesSame, SameBase
<1>7. ASSUME NEW p \in Proc, BreakStale(p), UNCHANGED <<delivervars, readervars>>
      PROVE  (\A r \in Reader : Copies(r)') /\ In(Holds("mail") \cup Holds("save"))'
  BY <1>6, <1>7 DEF BreakStale
<1>8. CASE UNCHANGED vars
  BY <1>6, <1>8 DEF vars
<1> QED
  BY <1>4, <1>5, <1>7, <1>8 DEF MailNext, DeliveryStep, ReadingStep

LEMMA SafeInvAtStart ==
    ASSUME MailInit
    PROVE  SafeInv
<1>1. ReadInv
  BY ReadInvAtStart
<1>2. \A r \in Reader : pc[r] = "idle"
  BY StoreAssumption DEF MailInit, StoreInit
<1>3. \A r \in Reader : Copies(r)
  BY <1>2 DEF Copies, PutBack, Reading0
<1>4. accepted = OldMail /\ ToSet(OldMail) \subseteq Whole(data[1])
  BY StartFacts DEF MailInit, StoreInit
<1>5. In(Holds("mail"))
  <2>1. CASE Old = {}
    <3>1. OldMail \in Seq(Old)
      BY SetToSeqFacts, StoreAssumption DEF OldMail
    <3>2. ToSet(OldMail) = {}
      <4>1. ASSUME NEW i \in DOMAIN OldMail PROVE FALSE
        BY <2>1, <3>1, <4>1, ElementOfSeq, LenProperties
      <4> QED
        BY <4>1 DEF ToSet
    <3> QED
      BY <1>4, <3>2 DEF In
  <2>2. CASE Old # {}
    <3>1. dir["mail"] = 1
      BY <2>2 DEF MailInit, StoreInit, Name
    <3> QED
      BY <1>4, <3>1, StoreAssumption DEF In, Holds
  <2> QED
    BY <2>1, <2>2
<1> QED
  BY <1>1, <1>3, <1>5, MailBase DEF SafeInv

\* A letter that was appended in full is in a file that has a name until its owner
\* deletes it: whoever is killed, at whatever point of cksaved(), of copyback() or of a
\* delivery, however often mail is started again, and whichever of the other calls
\* fails.  What does not hold it up are a second session of the owner, a lock that is
\* taken for an error while its holder is at work (crowd), and the failures that
\* SureCalls excludes: of copystream(), after which the save file is removed all the
\* same, of rename() and of the fopen() of the save file.
THEOREM MailKept == ASSUME OneReader, SureCalls PROVE MailSpec => []NoLetterLost
<1>1. MailInit => SafeInv
  BY SafeInvAtStart
<1>2. SafeInv /\ [MailNext]_vars => SafeInv'
  BY SafeInvStep
<1>3. SafeInv => NoLetterLost
  <2>1. ASSUME NEW n \in Name PROVE Holds(n) \subseteq Stored
    BY DEF Holds, Stored, Linked
  <2> QED
    BY <2>1 DEF SafeInv, In, NoLetterLost, Name
<1> QED
  BY <1>1, <1>2, <1>3, PTL DEF MailSpec

\* The mailbox is not read before cksaved() has put back what an interrupted copyback()
\* left: when it is opened there is no save file, or an empty one.
THEOREM PutBackFirst ==
    ASSUME OneReader, SureCalls, "unlink" \notin Fails
    PROVE  MailSpec => []RestoredBeforeReading
<1>1. MailInit => SafeInv
  BY SafeInvAtStart
<1>2. SafeInv /\ [MailNext]_vars => SafeInv'
  BY SafeInvStep
<1>3. SafeInv => RestoredBeforeReading
  BY DEF SafeInv, Copies, PutBack, Reading0, RestoredBeforeReading
<1> QED
  BY <1>1, <1>2, <1>3, PTL DEF MailSpec

-----------------------------------------------------------------------------
(* A delivery that fails leaves nothing *)

\* The blocks of other letters.
Others(d) == {b \in Block : b[1] # d}

\* Before a delivery has written, no error has been noted; once its letter was
\* accepted it will report success, unless it is killed.
Early == {"find", "lock", "lstat", "open", "fail", "from", "rest"}

Told(d) ==
    /\ pc[d] # "flush"
    /\ pc[d] \in Early => errno[d] = FALSE
    /\ d \in ToSet(accepted) =>
        \/ pc[d] \in {"unlock", "done"} /\ errno[d] = FALSE
        \/ pc[d] = "idle" /\ status[d] = "sent"

\* No block of a letter that has not been accepted is in any file, but for the one
\* that its delivery has written behind pos.
Clean(d) ==
    d \notin ToSet(accepted) =>
        /\ \A i \in Ino : IF pc[d] = "rest" /\ fd[d] = i
                          THEN CutTo(data[i], pos[d]) \in Seq(Others(d))
                          ELSE data[i] \in Seq(Others(d))
        /\ \A r \in Reader : tmp[r] \in Seq(Others(d))

CleanInv ==
    /\ TypeInv
    /\ ~crowd => Exclusive
    /\ ~crowd /\ ~killed => \A d \in Deliverer : Told(d) /\ Clean(d)

\* What is in a file before it is written to is there before the new block.
LEMMA CutBack ==
    ASSUME NEW S, NEW s \in Seq(S), NEW b \in S
    PROVE  CutTo(Append(s, b), Len(s)) = s
<1>1. PICK n \in Nat, u \in {Append(s, b)} : n = Len(s)
  BY LenProperties
<1>2. u \in Seq(S) /\ Len(u) = n + 1 /\ \A k \in 1..n : u[k] = s[k]
  BY <1>1, AppendProperties
<1>3. PICK v : v = CutTo(u, n)
  OBVIOUS
<1>4. v \in Seq(S) /\ Len(v) = n /\ \A k \in 1..n : v[k] = u[k]
  <2>1. n < Len(u)
    BY <1>2
  <2> QED
    BY <1>2, <1>3, <2>1, Cutting
<1>5. \A k \in 1..n : v[k] = s[k]
  BY <1>2, <1>4
<1>6. v = s
  BY <1>1, <1>4, <1>5, SeqEqual
<1> QED
  BY <1>1, <1>3, <1>6

\* What a delivery writes are blocks of its own letter.
LEMMA OtherBlocks ==
    ASSUME NEW d \in Deliverer, NEW e \in Deliverer, e # d
    PROVE  From(e) \in Others(d) /\ Rest(e) \in Others(d)
<1>1. From(e) \in Block /\ Rest(e) \in Block
  BY WriterBlocks
<1> QED
  BY <1>1 DEF Others, From, Rest

\* What copyback() keeps comes from the temporary file.
LEMMA KeptOf ==
    ASSUME TypeInv, NEW r \in Reader, NEW S, tmp[r] \in Seq(S)
    PROVE  Kept(r) \in Seq(S)
<1>1. PICK t, l, n : t = tmp[r] /\ l = let[r] /\ n = nlet(r)
  OBVIOUS
<1>2. /\ t \in Seq(S) /\ l \in Seq(Nat) /\ l # <<>>
      /\ \A i \in 1..Len(l) : l[i] <= Len(t)
  BY <1>1 DEF TypeInv, TablesTyped, TableOK
<1>3. n \in Nat /\ n = Len(l) - 1 /\ Len(t) \in Nat
  BY <1>1, <1>2, LenProperties, EmptySeq DEF nlet
<1>4. ASSUME NEW i \in 1..n PROVE SubSeq(t, l[i] + 1, l[i + 1]) \in Seq(S)
  <2>1. i \in 1..Len(l) /\ i + 1 \in 1..Len(l)
    BY <1>3
  <2>2. PICK a \in Nat, b \in Nat : a = l[i] /\ b = l[i + 1] /\ b <= Len(t)
    BY <1>2, <2>1, ElementOfSeq
  <2>3. ASSUME NEW k \in a + 1..b PROVE t[k] \in S
    <3>1. k \in 1..Len(t)
      BY <1>3, <2>2
    <3> QED
      BY <1>2, <3>1, ElementOfSeq
  <2>4. SubSeq(t, a + 1, b) \in Seq(S)
    BY <2>3, SubSeqProperties
  <2> QED
    BY <2>2, <2>4
<1>5. PICK D : D = del[r]
  OBVIOUS
<1>6. PICK s : s = [i \in 1..n |-> IF i \in D THEN <<>> ELSE SubSeq(t, l[i] + 1, l[i + 1])]
  OBVIOUS
<1>7. s \in [1..n -> Seq(S)]
  BY <1>4, <1>6, EmptySeq
<1>8. s \in Seq(Seq(S))
  BY <1>3, <1>7, SeqDef
<1>9. Kept(r) = FlattenSeq(s)
  BY <1>1, <1>5, <1>6 DEF Kept
<1>10. PICK m \in Nat : m = Len(s)
  BY <1>8, LenProperties
<1>11. PICK g \in [0..m -> Seq(S)] : FlattenSeq(s) = g[m]
  BY <1>8, <1>10, FlattenParts
<1> QED
  BY <1>9, <1>11

\* Who was killed in the middle of a copy is not forgotten.
LEMMA DeliveryKills ==
    ASSUME NEW d \in Deliverer, DeliveryStep(d), killed \in BOOLEAN, ~killed'
    PROVE  ~killed
  BY DEF DeliveryStep, StartDelivery, SendMbox, FindUser, UserUnknown, LockMbox,
           LockMboxFails, LookAtMbox, CreateMbox, OpenMbox, OpenMboxFails, BailOut,
           WriteFrom, WriteRest, WriteFails, UnlockMbox, DoneDelivery, ExitFlush,
           KillDelivery, SignalDelivery, CrashDelivery, history

\* What a delivery says of itself stays true when it takes a step.
LEMMA DeliveryTold ==
    ASSUME TypeInv, NEW d \in Deliverer, DeliveryStep(d), Told(d), ~killed'
    PROVE  Told(d)'
<1>1. /\ pc \in [Proc -> DelivererLabel \cup ReaderLabel] /\ d \in Proc
      /\ errno \in [Deliverer -> BOOLEAN] /\ killed \in BOOLEAN
      /\ status \in [Deliverer -> {"queued", "sent", "failed"}]
      /\ accepted \in Seq(Letter) /\ pc[d] \in DelivererLabel
  BY WriterBlocks DEF TypeInv, AtTyped, DeliverTyped, StoreTyped
<1>2. ~killed
  BY <1>1, DeliveryKills
<1> DEFINE in == d \in ToSet(accepted)
           in2 == d \in ToSet(accepted')
<1>3. \/ UNCHANGED accepted
      \/ WriteRest(d) \/ ExitFlush(d)
  BY DEF DeliveryStep, StartDelivery, SendMbox, FindUser, UserUnknown, LockMbox,
           LockMboxFails, LookAtMbox, CreateMbox, OpenMbox, OpenMboxFails, BailOut,
           WriteFrom, WriteFails, UnlockMbox, DoneDelivery,
           KillDelivery, SignalDelivery, CrashDelivery, history
<1>4. ~ExitFlush(d)
  BY DEF ExitFlush, Told
<1>5. CASE WriteRest(d)
  <2>1. pc[d] = "rest" /\ pc'[d] = "unlock" /\ UNCHANGED errno
    BY <1>1, <1>5 DEF WriteRest, Goto, delivervars
  <2>2. errno'[d] = FALSE
    BY <2>1 DEF Told, Early
  <2> QED
    BY <1>2, <2>1, <2>2 DEF Told, Early
<1>6. CASE UNCHANGED accepted
  <2>1. in2 <=> in
    BY <1>6
  <2>2. /\ in => \/ pc[d] \in {"unlock", "done"} /\ errno[d] = FALSE
                 \/ pc[d] = "idle" /\ status[d] = "sent"
        /\ pc[d] \in Early => errno[d] = FALSE
        /\ pc[d] # "flush"
    BY DEF Told
  <2> HIDE DEF in, in2
  <2>3. /\ pc'[d] # "flush"
        /\ pc'[d] \in Early => errno'[d] = FALSE
    BY <1>1, <1>2, <1>4, <2>2 DEF DeliveryStep, StartDelivery, SendMbox, FindUser, UserUnknown,
           LockMbox,
           LockMboxFails, LookAtMbox, CreateMbox, OpenMbox, OpenMboxFails, BailOut,
           WriteFrom, WriteRest, WriteFails, UnlockMbox, DoneDelivery,
           KillDelivery, SignalDelivery, CrashDelivery, TakeAt, AskThen, Goto, Exit,
           delivervars, Early
  <2>4. in => \/ pc'[d] \in {"unlock", "done"} /\ errno'[d] = FALSE
              \/ pc'[d] = "idle" /\ status'[d] = "sent"
    BY <1>1, <1>2, <1>4, <2>2 DEF DeliveryStep, StartDelivery, SendMbox, FindUser, UserUnknown,
           LockMbox,
           LockMboxFails, LookAtMbox, CreateMbox, OpenMbox, OpenMboxFails, BailOut,
           WriteFrom, WriteRest, WriteFails, UnlockMbox, DoneDelivery,
           KillDelivery, SignalDelivery, CrashDelivery, TakeAt, AskThen, Goto, Exit,
           delivervars, Early
  <2> QED
    BY <1>2, <2>1, <2>3, <2>4 DEF Told, in2
<1> QED
  BY <1>3, <1>4, <1>5, <1>6

\* A delivery that is not killed stops writing by one of two steps.
LEMMA StopsWriting ==
    ASSUME TypeInv, NEW d \in Deliverer, DeliveryStep(d), ~killed', pc[d] = "rest"
    PROVE  WriteRest(d) \/ WriteFails(d)
<1>1. pc \in [Proc -> DelivererLabel \cup ReaderLabel] /\ d \in Proc
  BY WriterBlocks DEF TypeInv, AtTyped
<1> QED
  BY <1>1 DEF DeliveryStep, StartDelivery, SendMbox, FindUser, UserUnknown, LockMbox,
           LockMboxFails, LookAtMbox, CreateMbox, OpenMbox, OpenMboxFails, BailOut,
           WriteFrom, UnlockMbox, DoneDelivery, ExitFlush,
           KillDelivery, SignalDelivery, CrashDelivery, TakeAt

\* A letter that was appended is one of those accepted, and so are those before it.
LEMMA AcceptedIs ==
    ASSUME accepted \in Seq(Letter), NEW d \in Letter, accepted' = Append(accepted, d)
    PROVE  d \in ToSet(accepted')
<1>1. PICK s \in Seq(Letter), n \in Nat : s = accepted /\ n = Len(s)
  BY LenProperties
<1>2. PICK u : u = accepted' /\ u = Append(s, d)
  BY <1>1
<1>3. u \in Seq(Letter) /\ Len(u) = n + 1 /\ u[n + 1] = d
  BY <1>1, <1>2, AppendFacts
<1>4. n + 1 \in DOMAIN u
  BY <1>3, LenProperties
<1>5. d \in ToSet(u)
  BY <1>3, <1>4 DEF ToSet
<1> QED
  BY <1>2, <1>5

LEMMA AcceptedStays ==
    ASSUME accepted \in Seq(Letter), NEW e \in Letter, accepted' = Append(accepted, e)
    PROVE  ToSet(accepted) \subseteq ToSet(accepted')
<1>1. PICK s \in Seq(Letter), n \in Nat : s = accepted /\ n = Len(s)
  BY LenProperties
<1>2. PICK u : u = accepted' /\ u = Append(s, e)
  BY <1>1
<1>3. u \in Seq(Letter) /\ Len(u) = n + 1 /\ \A i \in 1..n : u[i] = s[i]
  BY <1>1, <1>2, AppendFacts
<1>4. DOMAIN s = 1..n /\ DOMAIN u = 1..n + 1
  BY <1>1, <1>3, LenProperties
<1>5. ToSet(s) \subseteq ToSet(u)
  BY <1>3, <1>4 DEF ToSet
<1> QED
  BY <1>1, <1>2, <1>5

\* The step of a delivery leaves no block of its own letter in a file but the one
\* behind pos.
LEMMA DeliveryClean ==
    ASSUME TypeInv, NEW d \in Deliverer, DeliveryStep(d), Told(d), Clean(d), ~killed'
    PROVE  Clean(d)'
<1>1. /\ pc \in [Proc -> DelivererLabel \cup ReaderLabel] /\ d \in Proc /\ d \in Letter
      /\ data \in [Ino -> Seq(Block)] /\ accepted \in Seq(Letter)
      /\ pos \in [Deliverer -> Nat]
      /\ pc[d] \in {"from", "rest", "flush"} => fd[d] \in Ino
  BY WriterBlocks DEF TypeInv, AtTyped, DeliverTyped, StoreTyped
<1>2. UNCHANGED tmp
  BY DEF DeliveryStep, readervars
<1> DEFINE S == Others(d)
<1>3. SUFFICES ASSUME d \notin ToSet(accepted')
               PROVE  \A i \in Ino : IF pc'[d] = "rest" /\ fd'[d] = i
                          THEN CutTo(data'[i], pos'[d]) \in Seq(S)
                          ELSE data'[i] \in Seq(S)
  <2>1. d \notin ToSet(accepted') => d \notin ToSet(accepted)
    BY <1>1, AcceptedIs, DeliveryFiles
  <2> QED
    BY <1>2, <1>3, <2>1 DEF Clean, Others
<1>4. /\ UNCHANGED accepted
      /\ d \notin ToSet(accepted)
  BY <1>1, <1>3, AcceptedIs, DeliveryFiles DEF CreateMbox, WriteFrom, history
<1>5. \A i \in Ino : IF pc[d] = "rest" /\ fd[d] = i
                     THEN CutTo(data[i], pos[d]) \in Seq(S)
                     ELSE data[i] \in Seq(S)
  BY <1>4 DEF Clean
<1> HIDE DEF S
<1>6. CASE WriteFrom(d)
  <2>1. PICK i \in Ino : i = fd[d]
    BY <1>1, <1>6 DEF WriteFrom
  <2>2. pc[d] = "from" /\ pc'[d] = "rest" /\ fd'[d] = i
    BY <1>1, <1>6, <2>1 DEF WriteFrom, Goto
  <2>3. pos'[d] = Len(data[i]) /\ Append1(i, From(d)) /\ From(d) \in Block
    BY <1>1, <1>6, <2>1, WriterBlocks DEF WriteFrom, Size
  <2>4. data'[i] = Append(data[i], From(d)) /\ \A j \in Ino : j # i => data'[j] = data[j]
    BY <1>1, <2>3, Writing
  <2>5. CutTo(data'[i], pos'[d]) = data[i]
    BY <1>1, <2>3, <2>4, CutBack
  <2> QED
    BY <1>5, <2>2, <2>4, <2>5
<1>7. CASE ~WriteFrom(d) /\ pc[d] = "rest"
  <2>1. WriteFails(d)
    BY <1>1, <1>3, <1>7, AcceptedIs, StopsWriting DEF WriteRest
  <2>2. /\ pc'[d] = "unlock"
        /\ data' = [data EXCEPT ![fd[d]] = CutTo(@, pos[d])]
    BY <1>1, <2>1 DEF WriteFails, Goto
  <2>3. \A i \in Ino : data'[i] \in Seq(S)
    BY <1>1, <1>5, <1>7, <2>2
  <2> QED
    BY <2>2, <2>3
<1>8. CASE ~WriteFrom(d) /\ pc[d] # "rest"
  <2>1. pc'[d] # "rest"
    BY <1>1, <1>8, DeliveryMoves DEF CreateMbox, OpenMbox, Goto, TypeInv
  <2>2. \A i \in Ino : data[i] \in Seq(S)
    BY <1>5, <1>8
  <2>3. UNCHANGED data \/ \E i \in Ino : data' = [data EXCEPT ![i] = <<>>]
    <3>1. ~Append1(fd[d], Rest(d)) \/ accepted' # Append(accepted, d)
      BY <1>1, <1>3, AcceptedIs
    <3>2. UNCHANGED data \/ CreateMbox(d)
      BY <1>8, <3>1, DeliveryFiles
    <3>3. Unused # {} => NewIno \in Ino
      BY NewInoFacts
    <3> QED
      BY <3>2, <3>3 DEF CreateMbox, files
  <2>4. <<>> \in Seq(S)
    BY EmptySeq
  <2>5. \A i \in Ino : data'[i] \in Seq(S)
    BY <1>1, <2>2, <2>3, <2>4
  <2> QED
    BY <2>1, <2>5
<1> QED
  BY <1>6, <1>7, <1>8

\* The step of another delivery.
LEMMA OtherDelivery ==
    ASSUME TypeInv, Exclusive, NEW d \in Deliverer, NEW e \in Deliverer, e # d,
           DeliveryStep(e), Told(d), Clean(d)
    PROVE  Told(d)' /\ Clean(d)'
<1>1. /\ data \in [Ino -> Seq(Block)] /\ accepted \in Seq(Letter) /\ pos \in [Deliverer -> Nat]
      /\ errno \in [Deliverer -> BOOLEAN] /\ fd \in [Proc -> Ino \cup {NoFile}]
      /\ status \in [Deliverer -> {"queued", "sent", "failed"}]
      /\ d \in Proc /\ d \in Letter /\ e \in Proc /\ e \in Letter
      /\ pc[e] \in {"from", "rest", "flush"} => fd[e] \in Ino
  BY WriterBlocks DEF TypeInv, AtTyped, DeliverTyped, StoreTyped
<1>2. UNCHANGED tmp
  BY DEF DeliveryStep, readervars
<1>3. pc'[d] = pc[d]
  BY <1>1, DeliveryLabels DEF TypeInv
<1>4. fd'[d] = fd[d] /\ pos'[d] = pos[d] /\ errno'[d] = errno[d] /\ status'[d] = status[d]
  BY <1>1 DEF DeliveryStep, StartDelivery, SendMbox, FindUser, UserUnknown, LockMbox,
           LockMboxFails, LookAtMbox, CreateMbox, OpenMbox, OpenMboxFails, BailOut,
           WriteFrom, WriteRest, WriteFails, UnlockMbox, DoneDelivery, ExitFlush,
           KillDelivery, SignalDelivery, CrashDelivery, Exit, delivervars
<1>5. d \in ToSet(accepted') => d \in ToSet(accepted)
  <2>1. UNCHANGED accepted \/ accepted' = Append(accepted, e)
    BY DeliveryFiles
  <2> QED
    BY <1>1, <2>1, AcceptedMore
<1>6. Told(d)'
  BY <1>3, <1>4, <1>5 DEF Told
<1>7. d \in ToSet(accepted) => d \in ToSet(accepted')
  <2>1. UNCHANGED accepted \/ accepted' = Append(accepted, e)
    BY DeliveryFiles
  <2>2. CASE accepted' = Append(accepted, e)
    BY <1>1, <2>2, AcceptedStays
  <2> QED
    BY <2>1, <2>2
<1> DEFINE S == Others(d)
<1>8. SUFFICES ASSUME d \notin ToSet(accepted)
               PROVE  \A i \in Ino : IF pc[d] = "rest" /\ fd[d] = i
                          THEN CutTo(data'[i], pos[d]) \in Seq(S)
                          ELSE data'[i] \in Seq(S)
  BY <1>2, <1>3, <1>4, <1>6, <1>7 DEF Clean, Others
<1>9. \A i \in Ino : IF pc[d] = "rest" /\ fd[d] = i
                     THEN CutTo(data[i], pos[d]) \in Seq(S)
                     ELSE data[i] \in Seq(S)
  BY <1>8 DEF Clean
<1>10. From(e) \in S /\ Rest(e) \in S
  BY OtherBlocks
<1> HIDE DEF S
<1>11. CASE pc[d] = "rest"
  <2>1. Inside(d)
    BY <1>1, <1>11 DEF TypeInv, AtTyped, Held, Inside
  <2>2. ~Inside(e)
    BY <1>1, <2>1 DEF Exclusive
  <2> QED
    BY <1>9, <2>2, DeliveryOutside
<1>12. CASE pc[d] # "rest"
  <2>1. \A i \in Ino : data[i] \in Seq(S)
    BY <1>9, <1>12
  <2>2. SUFFICES \A i \in Ino : data'[i] \in Seq(S)
    BY <1>12
  <2>3. \/ UNCHANGED data
        \/ \E i \in Ino : data' = [data EXCEPT ![i] = <<>>]
        \/ \E i \in Ino, b \in S : data' = [data EXCEPT ![i] = Append(@, b)]
        \/ \E i \in Ino, n \in Nat : data' = [data EXCEPT ![i] = CutTo(@, n)]
    <3>1. Unused # {} => NewIno \in Ino
      BY NewInoFacts
    <3>2. CreateMbox(e) => UNCHANGED data \/ \E i \in Ino : data' = [data EXCEPT ![i] = <<>>]
      BY <3>1 DEF CreateMbox, files
    <3>3. ASSUME NEW b \in S, fd[e] \in Ino, Append1(fd[e], b)
          PROVE  \E i \in Ino, c \in S : data' = [data EXCEPT ![i] = Append(@, c)]
      BY <3>3 DEF Append1
    <3>4. pc[e] = "rest" /\ data' = [data EXCEPT ![fd[e]] = CutTo(@, pos[e])]
          => \E i \in Ino, n \in Nat : data' = [data EXCEPT ![i] = CutTo(@, n)]
      BY <1>1
    <3>5. WriteFrom(e) => pc[e] = "from" /\ Append1(fd[e], From(e))
      BY DEF WriteFrom
    <3> QED
      BY <1>1, <1>10, <3>2, <3>3, <3>4, <3>5, DeliveryFiles
  <2>4. <<>> \in Seq(S)
    BY EmptySeq
  <2>5. \A i \in Ino, b \in S : Append(data[i], b) \in Seq(S)
    BY <2>1, AppendProperties
  <2>6. \A i \in Ino, n \in Nat : CutTo(data[i], n) \in Seq(S)
    BY <2>1, Cutting
  <2> QED
    BY <1>1, <2>1, <2>3, <2>4, <2>5, <2>6
<1> QED
  BY <1>11, <1>12

\* What is behind the first m blocks.
LEMMA Behind ==
    ASSUME NEW S, NEW s \in Seq(S), NEW m \in Nat
    PROVE  SubSeq(s, m + 1, Len(s)) \in Seq(S)
<1>1. PICK n \in Nat : n = Len(s)
  BY LenProperties
<1>2. ASSUME NEW k \in m + 1..n PROVE s[k] \in S
  <2>1. k \in 1..n
    OBVIOUS
  <2> QED
    BY <1>1, <2>1, ElementOfSeq
<1>3. SubSeq(s, m + 1, n) \in Seq(S)
  BY <1>2, SubSeqProperties
<1> QED
  BY <1>1, <1>3

\* Only deliveries bring letters.
LEMMA ReadingAccepts ==
    ASSUME NEW r \in Reader, ReadingStep(r)
    PROVE  UNCHANGED accepted
  BY ReadingFiles DEF AppendSaved, RemoveSaved, RemoveEmpty, RestoreByName,
     RenameSave, OpenSave, CopyOut, CopyOutFails, UnlinkMbox, history

\* A session copies what there is, between the mailbox, the save file and its own.
LEMMA ReadingCopiesOnly ==
    ASSUME TypeInv, NEW r \in Reader, ReadingStep(r), NEW S,
           \A i \in Ino : data[i] \in Seq(S), tmp[r] \in Seq(S)
    PROVE  (\A i \in Ino : data'[i] \in Seq(S)) /\ tmp'[r] \in Seq(S)
<1>1. /\ data \in [Ino -> Seq(Block)] /\ tmp \in [Reader -> Seq(Block)]
      /\ let[r] \in Seq(Nat) /\ let[r] # <<>> /\ at[r] \in Nat
      /\ dir \in [Name -> Ino \cup {NoFile}] /\ "mail" \in Name
      /\ pc[r] \in {"load", "copyin", "append"} => fd[r] \in Ino
      /\ pc[r] \in {"append", "copyout"} => ofd[r] \in Ino
  BY DEF TypeInv, StoreTyped, ReaderTyped, AtTyped, TablesTyped, TableOK, Name
<1>2. <<>> \in Seq(S)
  BY EmptySeq
<1>3. \A i \in Ino, b \in S : Append(data[i], b) \in Seq(S)
  BY AppendProperties
<1>4. \A i \in Ino, n \in Nat : CutTo(data[i], n) \in Seq(S)
  BY Cutting
<1>5. Kept(r) \in Seq(S)
  BY KeptOf
<1>6. \/ UNCHANGED data
      \/ \E i \in Ino : data' = [data EXCEPT ![i] = <<>>]
      \/ \E i \in Ino, b \in S : data' = [data EXCEPT ![i] = Append(@, b)]
      \/ \E i \in Ino, n \in Nat : data' = [data EXCEPT ![i] = CutTo(@, n)]
  <2>1. ASSUME NEW s \in Seq(S), at[r] < Len(s) PROVE s[at[r] + 1] \in S
    <3>1. Len(s) \in Nat
      BY LenProperties
    <3>2. at[r] + 1 \in 1..Len(s)
      BY <1>1, <2>1, <3>1
    <3> QED
      BY <3>2, ElementOfSeq
  <2>2. ASSUME NEW b \in S, ofd[r] \in Ino, Append1(ofd[r], b)
        PROVE  \E i \in Ino, c \in S : data' = [data EXCEPT ![i] = Append(@, c)]
    BY <2>2 DEF Append1
  <2>3. CASE AppendSaved(r)
    <3>1. /\ fd[r] \in Ino /\ ofd[r] \in Ino
          /\ Append1(ofd[r], data[fd[r]][at[r] + 1]) /\ at[r] < Len(data[fd[r]])
      BY <1>1, <2>3 DEF AppendSaved, Size
    <3>2. data[fd[r]][at[r] + 1] \in S
      BY <2>1, <3>1
    <3> QED
      BY <2>2, <3>1, <3>2
  <2>4. CASE CopyOut(r)
    <3>1. /\ ofd[r] \in Ino
          /\ Append1(ofd[r], Kept(r)[at[r] + 1]) /\ at[r] < Len(Kept(r))
      BY <1>1, <2>4 DEF CopyOut
    <3>2. Kept(r)[at[r] + 1] \in S
      BY <1>5, <2>1, <3>1
    <3> QED
      BY <2>2, <3>1, <3>2
  <2>5. CASE CopyOutFails(r)
    <3>1. PICK n \in 0..at[r] : data' = [data EXCEPT ![ofd[r]] = CutTo(@, n)]
      BY <2>5 DEF CopyOutFails
    <3>2. n \in Nat /\ ofd[r] \in Ino
      BY <1>1, <2>5 DEF CopyOutFails
    <3> QED
      BY <3>1, <3>2
  <2>6. CASE OpenSave(r)
    <3>1. PICK n \in Name : LET i == IF dir[n] = NoFile THEN NewIno ELSE dir[n]
                            IN  /\ dir[n] # NoFile \/ Unused # {}
                                /\ data' = [data EXCEPT ![i] = <<>>]
      BY <2>6 DEF OpenSave, Name
    <3>2. Unused # {} => NewIno \in Ino
      BY NewInoFacts
    <3> QED
      BY <1>1, <3>1, <3>2
  <2>7. \/ UNCHANGED data \/ AppendSaved(r) \/ CopyOut(r) \/ CopyOutFails(r) \/ OpenSave(r)
    BY ReadingFiles DEF RemoveSaved, RemoveEmpty, RestoreByName, RenameSave, UnlinkMbox
  <2> QED
    BY <2>3, <2>4, <2>5, <2>6, <2>7
<1>7. \A i \in Ino : data'[i] \in Seq(S)
  BY <1>1, <1>2, <1>3, <1>4, <1>6
<1>8. \/ UNCHANGED tmp
      \/ tmp' = [tmp EXCEPT ![r] = <<>>]
      \/ \E i \in Ino : tmp' = [tmp EXCEPT ![r] = data[i]]
      \/ \E i \in Ino :
            tmp' = [tmp EXCEPT ![r] = @ \o SubSeq(data[i], End(r) + 1, Len(data[i]))]
      \/ \E i \in Ino, k \in Nat :
            /\ k <= Len(SubSeq(data[i], End(r) + 1, Len(data[i])))
            /\ tmp' = [tmp EXCEPT ![r] =
                          @ \o SubSeq(SubSeq(data[i], End(r) + 1, Len(data[i])), 1, k)]
  <2>1. StartReading(r) => tmp' = [tmp EXCEPT ![r] = <<>>]
    BY DEF StartReading
  <2>2. LoadMail(r) => UNCHANGED tmp \/ \E i \in Ino : tmp' = [tmp EXCEPT ![r] = data[i]]
    BY <1>1 DEF LoadMail
  <2>3. LoadNewMail(r) \/ TakeNewMail(r) =>
            \/ UNCHANGED tmp
            \/ \E i \in Ino :
                  tmp' = [tmp EXCEPT ![r] = @ \o SubSeq(data[i], End(r) + 1, Len(data[i]))]
    BY <1>1 DEF LoadNewMail, TakeNewMail, Size
  <2>4. Delete(r) \/ Undelete(r) => UNCHANGED tmp
    BY DEF Delete, Undelete
  <2>5. ASSUME InterruptCopy(r)
        PROVE  \E i \in Ino :
                 \/ tmp' = [tmp EXCEPT ![r] = @ \o SubSeq(data[i], End(r) + 1, Len(data[i]))]
                 \/ \E k \in Nat :
                    /\ k <= Len(SubSeq(data[i], End(r) + 1, Len(data[i])))
                    /\ tmp' = [tmp EXCEPT ![r] =
                          @ \o SubSeq(SubSeq(data[i], End(r) + 1, Len(data[i])), 1, k)]
    <3>1. PICK i \in Ino : i = dir["mail"]
      BY <1>1, <2>5 DEF InterruptCopy
    <3>2. PICK s \in Seq(Block) : s = SubSeq(data[i], End(r) + 1, Len(data[i]))
      BY <2>5, <3>1, NewMailTyped DEF InterruptCopy, Size
    <3>3. \/ tmp' = [tmp EXCEPT ![r] = @ \o s]
          \/ \E k \in 0..Len(s) : tmp' = [tmp EXCEPT ![r] = @ \o SubSeq(s, 1, k)]
      BY <2>5, <3>1, <3>2 DEF InterruptCopy, Size
    <3>4. \A k \in 0..Len(s) : k \in Nat /\ k <= Len(s)
      BY LenProperties
    <3> QED
      BY <3>2, <3>3, <3>4
  <2> QED
    BY <2>1, <2>2, <2>3, <2>4, <2>5, ReadingTables
<1>9. End(r) \in Nat
  <2>1. PICK l \in Seq(Nat), n \in Nat : l = let[r] /\ n = Len(l)
    BY <1>1, LenProperties
  <2>2. n \in 1..n
    BY <1>1, <2>1, EmptySeq
  <2> QED
    BY <2>1, <2>2, ElementOfSeq DEF End
<1>10. \A i \in Ino : tmp[r] \o SubSeq(data[i], End(r) + 1, Len(data[i])) \in Seq(S)
  <2>1. \A i \in Ino : SubSeq(data[i], End(r) + 1, Len(data[i])) \in Seq(S)
    BY <1>9, Behind
  <2> QED
    BY <2>1, ConcatProperties
<1>12. ASSUME NEW i \in Ino, NEW k \in Nat,
              k <= Len(SubSeq(data[i], End(r) + 1, Len(data[i])))
       PROVE  tmp[r] \o SubSeq(SubSeq(data[i], End(r) + 1, Len(data[i])), 1, k) \in Seq(S)
  <2>1. PICK x \in Seq(S) : x = SubSeq(data[i], End(r) + 1, Len(data[i]))
    BY <1>9, Behind
  <2>2. SubSeq(x, 1, k) \in Seq(S)
    <3>1. PICK n \in Nat, one \in {1} : n = Len(x) /\ k <= n
      BY <1>12, <2>1, LenProperties
    <3>2. \A j \in 1..n : x[j] \in S
      BY <2>1, <3>1, ElementOfSeq
    <3>3. \A j \in one..k : x[j] \in S
      BY <3>1, <3>2
    <3>4. one \in Nat
      BY <3>1
    <3>5. SubSeq(x, one, k) \in Seq(S)
      BY <3>3, <3>4, SubSeqProperties
    <3> QED
      BY <3>1, <3>5
  <2> QED
    BY <2>1, <2>2, ConcatProperties
<1>11. tmp'[r] \in Seq(S)
  <2>1. CASE \E i \in Ino, k \in Nat :
            /\ k <= Len(SubSeq(data[i], End(r) + 1, Len(data[i])))
            /\ tmp' = [tmp EXCEPT ![r] =
                          @ \o SubSeq(SubSeq(data[i], End(r) + 1, Len(data[i])), 1, k)]
    BY <1>1, <1>12, <2>1
  <2> QED
    BY <1>1, <1>2, <1>8, <1>10, <2>1
<1> QED
  BY <1>7, <1>11

\* A session does not spread the letter of a delivery that has yet to be accepted.
LEMMA ReadingClean ==
    ASSUME TypeInv, Exclusive, NEW r \in Reader, ReadingStep(r),
           NEW d \in Deliverer, Told(d), Clean(d)
    PROVE  Told(d)' /\ Clean(d)'
<1>1. /\ d \in Proc \ {r} /\ r \in Proc
      /\ AtTyped
  BY StoreAssumption DEF TypeInv
<1>2. pc'[d] = pc[d]
  BY <1>1, ReadingLabels DEF TypeInv
<1>3. fd'[d] = fd[d] /\ UNCHANGED <<pos, errno, status>>
  BY <1>1, ReadingVarsTyped DEF ReadingStep, delivervars
<1>4. UNCHANGED accepted
  BY ReadingAccepts
<1>5. Told(d)'
  BY <1>2, <1>3, <1>4 DEF Told
<1> DEFINE S == Others(d)
<1>6. ASSUME d \notin ToSet(accepted)
      PROVE  /\ \A i \in Ino : IF pc[d] = "rest" /\ fd[d] = i
                          THEN CutTo(data'[i], pos[d]) \in Seq(S)
                          ELSE data'[i] \in Seq(S)
             /\ \A q \in Reader : tmp'[q] \in Seq(S)
  <2>1. /\ \A i \in Ino : IF pc[d] = "rest" /\ fd[d] = i
                     THEN CutTo(data[i], pos[d]) \in Seq(S)
                     ELSE data[i] \in Seq(S)
        /\ \A q \in Reader : tmp[q] \in Seq(S)
    BY <1>6 DEF Clean
  <2> HIDE DEF S
  <2>2. \A q \in Reader : q # r => tmp'[q] = tmp[q]
    <3>0. tmp \in [Reader -> Seq(Block)]
      BY DEF TypeInv, ReaderTyped
    <3>1. UNCHANGED tmp \/ \E v : tmp' = [tmp EXCEPT ![r] = v]
      <4>1. StartReading(r) => \E v : tmp' = [tmp EXCEPT ![r] = v]
        BY DEF StartReading
      <4>2. LoadMail(r) => UNCHANGED tmp \/ \E v : tmp' = [tmp EXCEPT ![r] = v]
        BY DEF LoadMail
      <4>3. LoadNewMail(r) => UNCHANGED tmp \/ \E v : tmp' = [tmp EXCEPT ![r] = v]
        BY DEF LoadNewMail
      <4>4. TakeNewMail(r) => UNCHANGED tmp \/ \E v : tmp' = [tmp EXCEPT ![r] = v]
        BY DEF TakeNewMail
      <4>5. Delete(r) \/ Undelete(r) => UNCHANGED tmp
        BY DEF Delete, Undelete
      <4>6. InterruptCopy(r) => \E v : tmp' = [tmp EXCEPT ![r] = v]
        BY DEF InterruptCopy
      <4> QED
        BY <4>1, <4>2, <4>3, <4>4, <4>5, <4>6, ReadingTables
    <3> QED
      BY <3>0, <3>1
  <2>3. CASE pc[d] = "rest"
    <3>1. ~Inside(r)
      BY <1>1, <2>3 DEF AtTyped, Held, Inside, Exclusive
    <3>2. UNCHANGED data
      BY <3>1, ReadingOutside
    <3>3. UNCHANGED tmp \/ tmp' = [tmp EXCEPT ![r] = <<>>]
      <4>1. pc[r] \notin Held
        BY <1>1, <3>1 DEF Inside, AtTyped
      <4> QED
        BY <4>1, ReadingTables DEF Held, StartReading, LoadMail, LoadNewMail,
           InterruptCopy, TakeNewMail, Delete, Undelete
    <3>4. <<>> \in Seq(S)
      BY EmptySeq
    <3>5. tmp'[r] \in Seq(S)
      BY <2>1, <3>3, <3>4 DEF TypeInv, ReaderTyped
    <3> QED
      BY <2>1, <2>2, <3>2, <3>5
  <2>4. CASE pc[d] # "rest"
    <3>1. (\A i \in Ino : data[i] \in Seq(S)) /\ tmp[r] \in Seq(S)
      BY <2>1, <2>4
    <3>2. (\A i \in Ino : data'[i] \in Seq(S)) /\ tmp'[r] \in Seq(S)
      BY <3>1, ReadingCopiesOnly
    <3> QED
      BY <2>1, <2>2, <2>4, <3>2
  <2> QED
    BY <2>3, <2>4
<1>7. Clean(d)'
  BY <1>2, <1>3, <1>4, <1>6 DEF Clean, Others
<1> QED
  BY <1>5, <1>7

LEMMA KilledStays ==
    ASSUME NEW r \in Reader, ReadingStep(r), killed \in BOOLEAN, ~killed'
    PROVE  ~killed
  BY DEF ReadingStep, StartReading, ReadMail, KillReading, Cksaved, LookForSaved,
        LockForSaved, RestoreByName, RestoreByCopy, AppendSaved, AppendedSaved,
        RemoveSaved, Restored, Printmail, StatMbox, OpenForReading, LockForLoad,
        LoadMail, Loaded, LookForNewMail, LockForReload, LoadNewMail, Reloaded,
        Interrupt, InterruptCopy, Delete,
        Undelete, ExitCommand, Quit, Copyback, LockForRewrite, TakeNewMail,
        MailboxGone, CopybackFails,
        OpenSave, CopyOut, CopyOutFails, UnlinkMbox, RenameSave, RemoveEmpty, CopiedBack,
        LockFails, DoneReading, SignalReading, CrashReading, Stop, history

LEMMA CleanInvStep ==
    ASSUME CleanInv, [MailNext]_vars
    PROVE  CleanInv'
<1>1. TypeInv /\ TypeInv'
  BY StepTyped DEF CleanInv
<1>2. SUFFICES ASSUME ~crowd'
               PROVE  /\ Exclusive'
                      /\ ~killed' => \A d \in Deliverer : Told(d)' /\ Clean(d)'
  BY <1>1 DEF CleanInv
<1>3. ASSUME NEW e \in Deliverer, DeliveryStep(e)
      PROVE  /\ Exclusive'
             /\ ~killed' => \A d \in Deliverer : Told(d)' /\ Clean(d)'
  <2>1. /\ ~crowd /\ \A q \in Proc \ {e} : Inside(q)' = Inside(q)
        /\ Inside(e)' => Inside(e) \/ \A q \in Proc \ {e} : ~Inside(q)
    BY <1>1, <1>2, <1>3, DeliveryEnters
  <2>2. Exclusive /\ e \in Proc
    BY <2>1, WriterBlocks DEF CleanInv
  <2>3. Exclusive'
    BY <2>1, <2>2, EnterAlone
  <2>4. ASSUME ~killed', NEW d \in Deliverer PROVE Told(d)' /\ Clean(d)'
    <3>1. ~killed
      BY <1>1, <1>3, <2>4, DeliveryKills DEF TypeInv, StoreTyped
    <3>2. Told(d) /\ Clean(d)
      BY <2>1, <3>1 DEF CleanInv
    <3>3. CASE d = e
      BY <1>1, <1>3, <2>4, <3>2, <3>3, DeliveryTold, DeliveryClean
    <3>4. CASE d # e
      BY <1>1, <1>3, <2>2, <3>2, <3>4, OtherDelivery
    <3> QED
      BY <3>3, <3>4
  <2> QED
    BY <2>3, <2>4
<1>4. ASSUME NEW r \in Reader, ReadingStep(r)
      PROVE  /\ Exclusive'
             /\ ~killed' => \A d \in Deliverer : Told(d)' /\ Clean(d)'
  <2>1. /\ ~crowd /\ \A q \in Proc \ {r} : Inside(q)' = Inside(q)
        /\ Inside(r)' => Inside(r) \/ \A q \in Proc \ {r} : ~Inside(q)
    BY <1>1, <1>2, <1>4, ReadingEnters
  <2>2. Exclusive /\ r \in Proc
    BY <2>1, StoreAssumption DEF CleanInv
  <2>3. Exclusive'
    BY <2>1, <2>2, EnterAlone
  <2>4. ~killed' => ~killed
    BY <1>1, <1>4, KilledStays DEF TypeInv, StoreTyped
  <2>5. ASSUME ~killed', NEW d \in Deliverer PROVE Told(d)' /\ Clean(d)'
    <3>1. Told(d) /\ Clean(d)
      BY <2>1, <2>4, <2>5 DEF CleanInv
    <3> QED
      BY <1>1, <1>4, <2>2, <3>1, ReadingClean
  <2> QED
    BY <2>3, <2>5
<1>5. CASE UNCHANGED <<locked, storevars, delivervars, readervars>>
  <2>1. /\ UNCHANGED <<locked, data, pc, fd, accepted, crowd, killed>>
        /\ UNCHANGED <<pos, errno, status, tmp>>
    BY <1>5 DEF storevars, delivervars, readervars
  <2>2. Exclusive /\ (~killed => \A d \in Deliverer : Told(d) /\ Clean(d))
    BY <1>2, <2>1 DEF CleanInv
  <2> QED
    BY <2>1, <2>2 DEF Exclusive, Inside, Told, Clean
<1>6. ASSUME NEW p \in Proc, BreakStale(p), UNCHANGED <<delivervars, readervars>>
      PROVE  UNCHANGED <<locked, storevars, delivervars, readervars>>
  BY <1>6 DEF BreakStale, Break
<1>7. CASE UNCHANGED vars
  BY <1>5, <1>7 DEF vars, mboxlock
<1> QED
  BY <1>3, <1>4, <1>5, <1>6, <1>7 DEF MailNext, DeliveryStep, ReadingStep

LEMMA CleanInvAtStart ==
    ASSUME MailInit
    PROVE  CleanInv
<1>1. TypeInv
  BY TypedAtStart
<1>2. \A p \in Proc : ~locked[p] /\ pc[p] = "idle"
  BY DEF MailInit, MboxLockInit, StoreInit
<1>3. Exclusive
  BY <1>2 DEF Exclusive, Inside
<1>4. ASSUME NEW d \in Deliverer PROVE Told(d) /\ Clean(d)
  <2>1. pc[d] = "idle" /\ d \notin Old /\ tmp = [r \in Reader |-> <<>>]
    BY <1>2, WriterBlocks, StoreAssumption DEF MailInit, ReaderInit
  <2>2. PICK o : o = OldMail
    OBVIOUS
  <2>3. o \in Seq(Old) /\ accepted = o
    BY <2>2, SetToSeqFacts, StoreAssumption DEF OldMail, MailInit, StoreInit
  <2>4. d \notin ToSet(accepted)
    <3>1. PICK n \in Nat : n = Len(o)
      BY <2>3, LenProperties
    <3>2. \A i \in 1..n : o[i] \in Old
      BY <2>3, <3>1, ElementOfSeq
    <3>3. DOMAIN o = 1..n
      BY <2>3, <3>1, LenProperties
    <3> QED
      BY <2>1, <2>3, <3>2, <3>3 DEF ToSet
  <2>5. Told(d)
    BY <2>1, <2>4 DEF Told, Early
  <2>6. data[1] \in Seq(Others(d))
    <3>1. PICK n \in Nat : n = Len(o)
      BY <2>3, LenProperties
    <3>2. PICK s : s = [k \in 1..n |-> <<From(o[k]), Rest(o[k])>>]
      OBVIOUS
    <3>3. \A k \in 1..n : o[k] \in Old
      BY <2>3, <3>1, ElementOfSeq
    <3>4. ASSUME NEW l \in Old PROVE <<From(l), Rest(l)>> \in Seq(Others(d))
      <4>1. PICK a, b : a = From(l) /\ b = Rest(l)
        OBVIOUS
      <4>2. a \in Others(d) /\ b \in Others(d)
        BY <2>1, <4>1 DEF Others, Block, Letter, From, Rest
      <4>3. <<a, b>> \in Seq(Others(d))
        BY <4>2
      <4> QED
        BY <4>1, <4>3
    <3>5. s \in [1..n -> Seq(Others(d))]
      BY <3>2, <3>3, <3>4
    <3>6. s \in Seq(Seq(Others(d))) /\ Len(s) = n
      BY <3>5, SeqDef
    <3>7. PICK g \in [0..n -> Seq(Others(d))] : FlattenSeq(s) = g[n]
      BY <3>6, FlattenParts
    <3>8. data[1] = FlattenSeq(s)
      BY <2>2, <3>1, <3>2, StoreAssumption DEF StoreInit, MailInit
    <3> QED
      BY <3>7, <3>8
  <2>7. \A i \in Ino : i # 1 => data[i] = <<>>
    BY DEF MailInit, StoreInit
  <2>8. <<>> \in Seq(Others(d))
    BY EmptySeq
  <2>9. Clean(d)
    BY <2>1, <2>6, <2>7, <2>8 DEF Clean
  <2> QED
    BY <2>5, <2>9
<1> QED
  BY <1>1, <1>3, <1>4 DEF CleanInv

\* A delivery that has reported a failure has left no block of its letter in any file:
\* copylet() has cut off what it wrote where it began, before any session could copy it
\* to the save file and back, and so the next try doubles nothing.  Sound says that
\* nobody was killed in the middle of a copy and that nobody was in the mailbox beside
\* another; of how many sessions the owner runs nothing is assumed, nor of which calls
\* fail.
THEOREM FailedLeavesNothing == MailSpec => []FailureLeavesNothing
<1>1. MailInit => CleanInv
  BY CleanInvAtStart
<1>2. CleanInv /\ [MailNext]_vars => CleanInv'
  BY CleanInvStep
<1>3. ASSUME CleanInv PROVE FailureLeavesNothing
  <2>1. SUFFICES ASSUME NEW d \in Deliverer, Sound, status[d] = "failed", pc[d] = "idle",
                        NEW i \in Linked, NEW b \in {From(d), Rest(d)}
                 PROVE  b \notin ToSet(data[i])
    BY DEF FailureLeavesNothing
  <2>2. Told(d) /\ Clean(d) /\ TypeInv
    BY <1>3, <2>1 DEF CleanInv, Sound, Orderly
  <2>3. d \notin ToSet(accepted)
    BY <2>1, <2>2 DEF Told
  <2>4. i \in Ino
    BY <2>2 DEF Linked, TypeInv, StoreTyped
  <2>5. PICK s \in Seq(Others(d)), n \in Nat : s = data[i] /\ n = Len(s)
    BY <2>1, <2>2, <2>3, <2>4, LenProperties DEF Clean
  <2>6. \A k \in 1..n : s[k] \in Others(d)
    BY <2>5, ElementOfSeq
  <2>7. DOMAIN s = 1..n
    BY <2>5, LenProperties
  <2>8. b[1] = d
    BY <2>1 DEF From, Rest
  <2>9. b \notin ToSet(s)
    BY <2>6, <2>7, <2>8 DEF ToSet, Others
  <2> QED
    BY <2>5, <2>9
<1> QED
  BY <1>1, <1>2, <1>3, PTL DEF MailSpec

-----------------------------------------------------------------------------
(* Whole letters *)

\* What Letters does at the block k.
LettersNext(t, s, k) ==
    IF k > 1 /\ s[k - 1] = From(s[k][1]) /\ s[k] = Rest(s[k][1])
    THEN Append(t, s[k][1]) ELSE t

\* Letters as the loop that it is: what it has after each block.
LEMMA LettersParts ==
    ASSUME NEW s \in Seq(Block), NEW n \in Nat, n = Len(s)
    PROVE  \E h \in [0..n -> Seq(Letter)] :
              /\ h[0] = <<>> /\ Letters(s) = h[n]
              /\ \A k \in 1..n : h[k] = LettersNext(h[k - 1], s, k)
<1>1. \A k \in 1..n : s[k][1] \in Letter
  BY ElementOfSeq DEF Block
<1>2. PICK F : F = [ky \in (1..n) \X Seq(Letter) |-> LettersNext(ky[2], s, ky[1])]
  OBVIOUS
<1>3. StepFunction(F, n, Seq(Letter))
  <2>1. ASSUME NEW k \in 1..n, NEW t \in Seq(Letter) PROVE LettersNext(t, s, k) \in Seq(Letter)
    BY <1>1, AppendProperties DEF LettersNext
  <2> QED
    BY <1>2, <2>1 DEF StepFunction
<1>4. <<>> \in Seq(Letter)
  BY EmptySeq
<1>5. PICK g \in [0..n -> Seq(Letter)] : g[0] = <<>> /\ \A k \in 1..n : g[k] = F[<<k, g[k - 1]>>]
  <2>1. \E g : Unrolled(g, F, n, Seq(Letter), <<>>)
    BY <1>3, <1>4, RecursionExists
  <2> QED
    BY <2>1 DEF Unrolled
<1>0. PICK z : z = <<>>
  OBVIOUS
<1> DEFINE Table(h) == [k \in 0..n |-> IF k = 0 THEN z ELSE LettersNext(h[k - 1], s, k)]
<1>6. g = Table(g)
  <2>1. ASSUME NEW k \in 0..n PROVE g[k] = IF k = 0 THEN z ELSE LettersNext(g[k - 1], s, k)
    <3>1. CASE k = 0
      BY <1>5, <1>0, <3>1
    <3>2. CASE k # 0
      <4>1. k \in 1..n /\ k - 1 \in 0..n
        BY <3>2
      <4>2. g[k - 1] \in Seq(Letter)
        BY <4>1
      <4> QED
        BY <1>2, <1>5, <3>2, <4>1, <4>2
    <3> QED
      BY <3>1, <3>2
  <2> QED
    BY <2>1
<1>7. PICK h : h = CHOOSE x : x = Table(x)
  OBVIOUS
<1>8. h = Table(h)
  BY <1>6, <1>7
<1>9. Letters(s) = h[n]
  BY <1>7, <1>0 DEF Letters, LettersNext
<1>10. h[0] = z /\ \A k \in 1..n : h[k] = LettersNext(h[k - 1], s, k)
  <2>1. ASSUME NEW k \in 0..n PROVE h[k] = IF k = 0 THEN z ELSE LettersNext(h[k - 1], s, k)
    BY <1>8
  <2>2. 0 \in 0..n /\ \A k \in 1..n : k \in 0..n /\ k # 0
    OBVIOUS
  <2>3. h[0] = z
    BY <2>1, <2>2
  <2>4. ASSUME NEW k \in 1..n PROVE h[k] = LettersNext(h[k - 1], s, k)
    BY <2>1, <2>2
  <2> QED
    BY <2>3, <2>4
<1>11. h \in [0..n -> Seq(Letter)]
  <2>1. \A k \in 1..n : g[k] = F[<<k, g[k - 1]>>] /\ h[k] = LettersNext(h[k - 1], s, k)
    BY <1>5, <1>10
  <2> DEFINE P == {m \in Nat : m <= n => h[m] = g[m]}
  <2>2. 0 \in P
    BY <1>5, <1>10, <1>0
  <2>3. ASSUME NEW m \in Nat, m \in P PROVE m + 1 \in P
    <3> SUFFICES ASSUME m + 1 <= n PROVE h[m + 1] = g[m + 1]
      OBVIOUS
    <3>1. PICK k \in 1..n : k = m + 1 /\ k - 1 = m /\ k - 1 \in 0..n
      OBVIOUS
    <3>2. h[k - 1] = g[k - 1] /\ g[k - 1] \in Seq(Letter)
      BY <2>3, <3>1
    <3>3. PICK u \in Seq(Letter) : u = g[k - 1]
      BY <3>2
    <3>4. F[<<k, u>>] = LettersNext(u, s, k)
      BY <1>2
    <3>5. h[k] = g[k]
      BY <2>1, <3>2, <3>3, <3>4
    <3> QED
      BY <3>1, <3>5
  <2>4. Nat \subseteq P
    <3> HIDE DEF P
    <3> QED
      BY <2>2, <2>3, SetInduction
  <2>5. \A k \in 0..n : h[k] = g[k]
    BY <2>4
  <2>6. h = [k \in 0..n |-> h[k]]
    BY <1>8
  <2> QED
    BY <2>5, <2>6
<1> QED
  BY <1>9, <1>10, <1>11, <1>0

\* The blocks s are those of the letters w.
Spells(s, w) ==
    /\ w \in Seq(Letter) /\ s \in Seq(Block) /\ Len(s) = 2 * Len(w)
    /\ \A k \in 1..Len(w) : s[2 * k - 1] = From(w[k]) /\ s[2 * k] = Rest(w[k])

\* Letters reads what is spelled, with one From line behind it or none.
LEMMA LettersSpelled ==
    ASSUME NEW w, NEW s, Spells(s, w), NEW t \in Seq(Block), Len(t) \in {Len(s), Len(s) + 1},
           \A k \in 1..Len(s) : t[k] = s[k],
           Len(t) = Len(s) + 1 => IsFrom(t[Len(t)])
    PROVE  Letters(t) = w
<1>1. PICK m \in Nat : m = Len(w) /\ Len(s) = 2 * m
  BY LenProperties DEF Spells
<1>2. PICK n \in Nat : n = Len(t) /\ (n = 2 * m \/ n = 2 * m + 1)
  BY <1>1
<1>3. \A k \in 1..m : w[k] \in Letter /\ s[2 * k - 1] = From(w[k]) /\ s[2 * k] = Rest(w[k])
  BY <1>1, ElementOfSeq DEF Spells
<1>4. \A k \in 1..m : 2 * k \in 1..2 * m /\ 2 * k - 1 \in 1..2 * m
  OBVIOUS
<1>5. \A k \in 1..m : w[k] \in Letter /\ t[2 * k - 1] = From(w[k]) /\ t[2 * k] = Rest(w[k])
  BY <1>1, <1>3, <1>4
<1>6. PICK h \in [0..n -> Seq(Letter)] :
         /\ h[0] = <<>> /\ Letters(t) = h[n]
         /\ \A k \in 1..n : h[k] = LettersNext(h[k - 1], t, k)
  BY <1>2, LettersParts
<1>7. \A l, k : From(l) # Rest(k) /\ From(l)[1] = l /\ Rest(l)[1] = l /\ IsFrom(From(l))
                /\ ~IsFrom(Rest(l))
  BY DEF From, Rest, IsFrom
<1>8. ASSUME NEW k \in 1..n, IsFrom(t[k]) PROVE h[k] = h[k - 1]
  <2>1. t[k] # Rest(t[k][1])
    BY <1>7, <1>8
  <2> QED
    BY <1>6, <2>1 DEF LettersNext
<1> DEFINE Read(k) == Len(h[2 * k]) = k /\ \A i \in 1..k : h[2 * k][i] = w[i]
           P == {k \in Nat : k <= m => Read(k)}
<1>9. 0 \in P
  BY <1>6, EmptySeq
<1>10. ASSUME NEW k \in Nat, k \in P PROVE k + 1 \in P
  <2>1. SUFFICES ASSUME k + 1 <= m PROVE Read(k + 1)
    <3> HIDE DEF Read
    <3> QED
      BY <2>1
  <2>2. PICK j \in 1..m : j = k + 1 /\ k = j - 1 /\ k <= m
    BY <2>1
  <2>3. PICK a \in 1..n, b \in 1..n : a = 2 * j - 1 /\ b = 2 * j /\ a - 1 = 2 * k /\ b - 1 = a /\ b > 1
    BY <1>2, <2>2
  <2>4. a - 1 \in 0..n /\ a \in 0..n
    OBVIOUS
  <2>5. Read(k)
    BY <1>10, <2>2
  <2>6. PICK u \in Seq(Letter) : u = h[a - 1] /\ Len(u) = k /\ \A i \in 1..k : u[i] = w[i]
    BY <2>3, <2>4, <2>5
  <2>7. PICK x \in Letter : x = w[j] /\ t[a] = From(x) /\ t[b] = Rest(x)
    BY <1>5, <2>3
  <2>8. h[a] = u
    BY <1>7, <1>8, <2>6, <2>7
  <2>9. PICK v \in {Append(u, x)} : h[b] = v
    <3>1. t[b][1] = x
      BY <1>7, <2>7
    <3>2. h[b] = LettersNext(h[a], t, b)
      BY <1>6, <2>3
    <3> QED
      BY <2>3, <2>7, <2>8, <3>1, <3>2 DEF LettersNext
  <2>10. Len(v) = k + 1 /\ v[k + 1] = x /\ \A i \in 1..k : v[i] = u[i]
    BY <2>6, <2>9, AppendFacts
  <2>11. \A i \in 1..k + 1 : v[i] = w[i]
    <3> SUFFICES ASSUME NEW i \in 1..k + 1 PROVE v[i] = w[i]
      OBVIOUS
    <3>1. CASE i = k + 1
      BY <2>2, <2>7, <2>10, <3>1
    <3>2. CASE i # k + 1
      <4>1. i \in 1..k
        BY <3>2
      <4> QED
        BY <2>6, <2>10, <4>1
    <3> QED
      BY <3>1, <3>2
  <2>12. 2 * (k + 1) = b
    BY <2>2, <2>3
  <2> QED
    BY <2>9, <2>10, <2>11, <2>12
<1>11. Nat \subseteq P
  <2> HIDE DEF P
  <2> QED
    BY <1>9, <1>10, SetInduction
<1>12. Read(m)
  <2> HIDE DEF Read
  <2> QED
    BY <1>11
<1>13. h[2 * m] = w
  <2>1. 2 * m \in 0..n
    BY <1>2
  <2>2. PICK u \in Seq(Letter) : u = h[2 * m]
    BY <2>1
  <2>3. Len(u) = Len(w) /\ \A i \in 1..Len(u) : u[i] = w[i]
    BY <1>1, <1>12, <2>2
  <2>4. u = w
    BY <2>3, SeqEqual DEF Spells
  <2> QED
    BY <2>2, <2>4
<1>14. CASE n = 2 * m
  BY <1>6, <1>13, <1>14
<1>15. CASE n = 2 * m + 1
  <2>1. n \in 1..n /\ n - 1 = 2 * m
    BY <1>15
  <2>2. IsFrom(t[n])
    BY <1>1, <1>2, <1>15
  <2> QED
    BY <1>6, <1>8, <1>13, <2>1, <2>2
<1> QED
  BY <1>2, <1>14, <1>15

Entire(s) == Spells(s, Letters(s))

Even(n) == \E k \in 0..n : n = 2 * k

\* A file that is not being written to.
AtRest(i) ==
    /\ \A d \in Deliverer : ~(pc[d] = "rest" /\ fd[d] = i)
    /\ \A r \in Reader : ~(pc[r] \in {"append", "copyout"} /\ ofd[r] = i)

\* A letter that is being delivered: its From line is behind whole letters.
Half(d) ==
    /\ pc[d] # "flush"
    /\ pc[d] = "rest" =>
        \E b \in Seq(Block) : /\ Entire(b) /\ Len(b) = pos[d]
                              /\ data[fd[d]] = Append(b, From(d))

\* What has been copied at each point of a session.
HalfCopied(r) ==
    /\ pc[r] \in {"saved?", "cksave", "restore"} => at[r] = 0
    /\ pc[r] = "append" =>
        /\ fd[r] # ofd[r] /\ at[r] <= Size(fd[r])
        /\ \E b \in Seq(Block) : /\ Entire(b)
                                  /\ data[ofd[r]] = b \o CutTo(data[fd[r]], at[r])
    /\ pc[r] = "copyout" =>
        /\ dir[sname[r]] = ofd[r] /\ at[r] <= Len(Kept(r))
        /\ data[ofd[r]] = CutTo(Kept(r), at[r])
    /\ pc[r] = "rename" => dir[sname[r]] # NoFile

\* The temporary file holds whole letters and the table separates such.
EvenTable(r) == Entire(tmp[r]) /\ \A k \in 1..Len(let[r]) : Even(let[r][k])

Unspoilt ==
    /\ \A i \in Ino : AtRest(i) => Entire(data[i])
    /\ \A d \in Deliverer : Half(d)
    /\ \A r \in Reader : HalfCopied(r) /\ EvenTable(r)

WholeInv ==
    /\ TypeInv
    /\ ~crowd => Exclusive
    /\ Sound => Unspoilt

LEMMA SpellsEntire ==
    ASSUME NEW w, NEW s, Spells(s, w)
    PROVE  Entire(s) /\ Letters(s) = w
<1>1. s \in Seq(Block) /\ Len(s) \in Nat
  BY LenProperties DEF Spells
<1>2. Letters(s) = w
  <2>1. Len(s) # Len(s) + 1
    BY <1>1
  <2>2. Len(s) \in {Len(s), Len(s) + 1} /\ \A k \in 1..Len(s) : s[k] = s[k]
    OBVIOUS
  <2> QED
    BY <1>1, <2>1, <2>2, LettersSpelled
<1> QED
  BY <1>2 DEF Entire

\* A From line behind whole letters is read as no letter.
LEMMA SpellsHalf ==
    ASSUME NEW w, NEW s, Spells(s, w), NEW l \in Letter
    PROVE  Letters(Append(s, From(l))) = w /\ Len(Append(s, From(l))) = 2 * Len(w) + 1
<1>0. From(l) \in Block /\ IsFrom(From(l))
  BY DEF From, Block, IsFrom
<1>1. PICK f \in Block : f = From(l)
  BY <1>0
<1>2. PICK n \in Nat : s \in Seq(Block) /\ n = Len(s) /\ n = 2 * Len(w)
  BY LenProperties DEF Spells
<1>3. PICK t : t = Append(s, f)
  OBVIOUS
<1>4. t \in Seq(Block) /\ Len(t) = n + 1 /\ t[n + 1] = f /\ \A k \in 1..n : t[k] = s[k]
  <2>1. PICK q \in Seq(Block) : q = s /\ Len(q) = n
    BY <1>2
  <2> QED
    BY <1>3, <2>1, AppendFacts
<1>5. Len(t) \in {Len(s), Len(s) + 1} /\ IsFrom(t[Len(t)])
  BY <1>0, <1>1, <1>2, <1>4
<1>6. Letters(t) = w
  BY <1>2, <1>4, <1>5, LettersSpelled
<1> QED
  BY <1>1, <1>2, <1>3, <1>4, <1>6

LEMMA SpellsNothing == Spells(<<>>, <<>>)
<1>1. PICK e : e = <<>>
  OBVIOUS
<1>2. e \in Seq(Letter) /\ e \in Seq(Block) /\ Len(e) = 0
  BY <1>1, EmptySeq
<1>3. Spells(e, e)
  BY <1>2 DEF Spells
<1> QED
  BY <1>1, <1>3

\* A letter that is appended, block by block, is one letter more.
LEMMA SpellsAppend ==
    ASSUME NEW w, NEW s, Spells(s, w), NEW l \in Letter
    PROVE  Spells(Append(Append(s, From(l)), Rest(l)), Append(w, l))
<1>0. From(l) \in Block /\ Rest(l) \in Block
  BY DEF From, Rest, Block
<1>1. PICK f \in Block, g \in Block : f = From(l) /\ g = Rest(l)
  BY <1>0
<1>2. PICK n \in Nat : w \in Seq(Letter) /\ s \in Seq(Block) /\ n = Len(w) /\ 2 * n = Len(s)
  BY LenProperties DEF Spells
<1>3. PICK t : t = Append(s, f)
  OBVIOUS
<1>4. t \in Seq(Block) /\ Len(t) = 2 * n + 1 /\ t[2 * n + 1] = f /\ \A k \in 1..2 * n : t[k] = s[k]
  <2>1. PICK q \in Seq(Block) : q = s /\ Len(q) = 2 * n
    BY <1>2
  <2> QED
    BY <1>3, <2>1, AppendFacts
<1>5. PICK u : u = Append(t, g)
  OBVIOUS
<1>6. /\ u \in Seq(Block) /\ Len(u) = 2 * n + 1 + 1 /\ u[2 * n + 1 + 1] = g
      /\ \A k \in 1..2 * n + 1 : u[k] = t[k]
  BY <1>4, <1>5, AppendFacts
<1>7. PICK v : v = Append(w, l)
  OBVIOUS
<1>8. v \in Seq(Letter) /\ Len(v) = n + 1 /\ v[n + 1] = l /\ \A k \in 1..n : v[k] = w[k]
  BY <1>2, <1>7, AppendFacts
<1>9. ASSUME NEW k \in 1..n + 1 PROVE u[2 * k - 1] = From(v[k]) /\ u[2 * k] = Rest(v[k])
  <2>1. CASE k = n + 1
    <3>1. 2 * k - 1 = 2 * n + 1 /\ 2 * k = 2 * n + 1 + 1 /\ 2 * n + 1 \in 1..2 * n + 1
      BY <2>1
    <3> QED
      BY <1>1, <1>4, <1>6, <1>8, <2>1, <3>1
  <2>2. CASE k # n + 1
    <3>1. k \in 1..n
      BY <2>2
    <3>2. s[2 * k - 1] = From(w[k]) /\ s[2 * k] = Rest(w[k])
      BY <1>2, <3>1 DEF Spells
    <3>3. 2 * k - 1 \in 1..2 * n /\ 2 * k \in 1..2 * n
      BY <3>1
    <3>4. \A j \in 1..2 * n : u[j] = s[j]
      BY <1>4, <1>6
    <3> QED
      BY <1>8, <3>1, <3>2, <3>3, <3>4
  <2> QED
    BY <2>1, <2>2
<1>10. Len(u) = 2 * Len(v)
  BY <1>6, <1>8
<1>11. Spells(u, v)
  BY <1>6, <1>8, <1>9, <1>10 DEF Spells
<1> QED
  BY <1>1, <1>3, <1>5, <1>7, <1>11

\* Whole letters behind whole letters.
LEMMA SpellsConcat ==
    ASSUME NEW w, NEW s, Spells(s, w), NEW x, NEW t, Spells(t, x)
    PROVE  Spells(s \o t, w \o x)
<1>1. PICK m \in Nat, n \in Nat :
        /\ w \in Seq(Letter) /\ s \in Seq(Block) /\ m = Len(w) /\ 2 * m = Len(s)
        /\ x \in Seq(Letter) /\ t \in Seq(Block) /\ n = Len(x) /\ 2 * n = Len(t)
  BY LenProperties DEF Spells
<1>2. PICK u, y : u = s \o t /\ y = w \o x
  OBVIOUS
<1>3. /\ u \in Seq(Block) /\ Len(u) = 2 * m + 2 * n
      /\ \A i \in 1..2 * m + 2 * n : u[i] = IF i <= 2 * m THEN s[i] ELSE t[i - 2 * m]
  <2>1. PICK p \in Seq(Block), q \in Seq(Block) : p = s /\ q = t /\ Len(p) = 2 * m /\ Len(q) = 2 * n
    BY <1>1
  <2>2. u = p \o q
    BY <1>2, <2>1
  <2>3. u \in Seq(Block) /\ Len(u) = Len(p) + Len(q)
    BY <2>2, ConcatProperties
  <2>4. \A i \in 1..Len(p) + Len(q) : u[i] = IF i <= Len(p) THEN p[i] ELSE q[i - Len(p)]
    BY <2>2, ConcatProperties
  <2> QED
    BY <2>1, <2>3, <2>4
<1>4. /\ y \in Seq(Letter) /\ Len(y) = m + n
      /\ \A i \in 1..m + n : y[i] = IF i <= m THEN w[i] ELSE x[i - m]
  BY <1>1, <1>2, ConcatProperties
<1>5. ASSUME NEW k \in 1..m + n PROVE u[2 * k - 1] = From(y[k]) /\ u[2 * k] = Rest(y[k])
  <2>1. 2 * k - 1 \in 1..2 * m + 2 * n /\ 2 * k \in 1..2 * m + 2 * n
    OBVIOUS
  <2>2. CASE k <= m
    <3>1. 2 * k - 1 <= 2 * m /\ 2 * k <= 2 * m /\ k \in 1..m
      BY <2>2
    <3>2. u[2 * k - 1] = s[2 * k - 1] /\ u[2 * k] = s[2 * k] /\ y[k] = w[k]
      BY <1>3, <1>4, <2>1, <2>2, <3>1
    <3>3. s[2 * k - 1] = From(w[k]) /\ s[2 * k] = Rest(w[k])
      BY <1>1, <3>1 DEF Spells
    <3> QED
      BY <3>2, <3>3
  <2>3. CASE ~(k <= m)
    <3>1. PICK j \in 1..n : j = k - m
      BY <2>3
    <3>2. /\ ~(2 * k - 1 <= 2 * m) /\ ~(2 * k <= 2 * m)
          /\ 2 * k - 1 - 2 * m = 2 * j - 1 /\ 2 * k - 2 * m = 2 * j
      BY <2>3, <3>1
    <3>3. u[2 * k - 1] = t[2 * j - 1] /\ u[2 * k] = t[2 * j] /\ y[k] = x[j]
      BY <1>3, <1>4, <2>1, <2>3, <3>1, <3>2
    <3>4. t[2 * j - 1] = From(x[j]) /\ t[2 * j] = Rest(x[j])
      BY <1>1 DEF Spells
    <3> QED
      BY <3>3, <3>4
  <2> QED
    BY <2>2, <2>3
<1>6. Len(u) = 2 * Len(y)
  BY <1>3, <1>4
<1>7. Spells(u, y)
  BY <1>3, <1>4, <1>5, <1>6 DEF Spells
<1> QED
  BY <1>2, <1>7

\* The blocks of some letters in a row.
LEMMA SpellsPart ==
    ASSUME NEW w, NEW s, Spells(s, w), NEW a \in Nat, NEW b \in Nat, b <= Len(w)
    PROVE  Spells(SubSeq(s, 2 * a + 1, 2 * b), SubSeq(w, a + 1, b))
<1>1. PICK m \in Nat : w \in Seq(Letter) /\ s \in Seq(Block) /\ m = Len(w) /\ 2 * m = Len(s)
  BY LenProperties DEF Spells
<1>2. PICK u, y : u = SubSeq(s, 2 * a + 1, 2 * b) /\ y = SubSeq(w, a + 1, b)
  OBVIOUS
<1>3. CASE b <= a
  <2>1. 2 * b < 2 * a + 1 /\ b < a + 1
    BY <1>3
  <2>2. u = <<>> /\ y = <<>>
    BY <1>2, <2>1, SubSeqEmpty
  <2> QED
    BY <1>2, <2>2, SpellsNothing
<1>4. CASE ~(b <= a)
  <2>1. PICK n \in Nat : n = b - a /\ 1 <= n
    BY <1>4
  <2>2. ASSUME NEW i \in 2 * a + 1..2 * b PROVE s[i] \in Block
    <3>1. i \in 1..2 * m
      BY <1>1
    <3> QED
      BY <1>1, <3>1, ElementOfSeq
  <2>3. ASSUME NEW i \in a + 1..b PROVE w[i] \in Letter
    <3>1. i \in 1..m
      BY <1>1
    <3> QED
      BY <1>1, <3>1, ElementOfSeq
  <2>4. /\ 2 * a + 1 <= 2 * b /\ a + 1 <= b
        /\ 2 * b - (2 * a + 1) + 1 = 2 * n /\ b - (a + 1) + 1 = n
    BY <1>4, <2>1
  <2>5. /\ u \in Seq(Block) /\ Len(u) = 2 * n
        /\ \A i \in 1..2 * n : u[i] = s[2 * a + 1 + i - 1]
    BY <1>2, <2>2, <2>4, SubSeqProperties
  <2>6. /\ y \in Seq(Letter) /\ Len(y) = n
        /\ \A i \in 1..n : y[i] = w[a + 1 + i - 1]
    BY <1>2, <2>3, <2>4, SubSeqProperties
  <2>7. ASSUME NEW k \in 1..n PROVE u[2 * k - 1] = From(y[k]) /\ u[2 * k] = Rest(y[k])
    <3>1. PICK j \in 1..m : j = a + k
      BY <1>1, <2>1
    <3>2. /\ 2 * k - 1 \in 1..2 * n /\ 2 * k \in 1..2 * n
          /\ 2 * a + 1 + (2 * k - 1) - 1 = 2 * j - 1 /\ 2 * a + 1 + 2 * k - 1 = 2 * j
          /\ a + 1 + k - 1 = j
      BY <3>1
    <3>3. u[2 * k - 1] = s[2 * j - 1] /\ u[2 * k] = s[2 * j] /\ y[k] = w[j]
      BY <2>5, <2>6, <3>2
    <3>4. s[2 * j - 1] = From(w[j]) /\ s[2 * j] = Rest(w[j])
      BY <1>1 DEF Spells
    <3> QED
      BY <3>3, <3>4
  <2>8. Spells(u, y)
    BY <2>5, <2>6, <2>7 DEF Spells
  <2> QED
    BY <1>2, <2>8
<1> QED
  BY <1>3, <1>4

\* Two blocks make a letter.
LEMMA EntireTyped ==
    ASSUME NEW s, Entire(s)
    PROVE  s \in Seq(Block) /\ Letters(s) \in Seq(Letter) /\ Len(s) = 2 * Len(Letters(s))
  BY DEF Entire, Spells

\* Every second block is a From line, and only those are.
LEMMA EntireBlocks ==
    ASSUME NEW s, Entire(s), NEW i \in 1..Len(s)
    PROVE  IF IsFrom(s[i])
           THEN \E a \in 0..i : i - 1 = 2 * a /\ a < Len(Letters(s)) /\ s[i] = From(Letters(s)[a + 1])
           ELSE \E a \in 0..i : i = 2 * a /\ a \in 1..Len(Letters(s)) /\ s[i] = Rest(Letters(s)[a])
                                /\ s[i - 1] = From(Letters(s)[a])
<1>1. PICK w : w = Letters(s) /\ \E n \in Nat : Spells(s, w) /\ w \in Seq(Letter) /\ n = Len(w) /\ 2 * n = Len(s)
  BY LenProperties DEF Entire, Spells
<1>0. PICK n \in Nat : Spells(s, w) /\ w \in Seq(Letter) /\ n = Len(w) /\ 2 * n = Len(s)
  BY <1>1
<1>2. \A l : IsFrom(From(l)) /\ ~IsFrom(Rest(l))
  BY DEF From, Rest, IsFrom
<1>3. PICK k \in 1..n : i = 2 * k - 1 \/ i = 2 * k
  <2>1. PICK q \in Nat : i = 2 * q \/ i = 2 * q + 1
    <3>1. i \in Nat /\ i = 2 * (i \div 2) + (i % 2) /\ i \div 2 \in Nat /\ i % 2 \in {0, 1}
      BY <1>1
    <3> QED
      BY <3>1
  <2>2. CASE i = 2 * q
    <3>1. q \in 1..n
      BY <1>1, <1>0, <2>2
    <3> QED
      BY <2>2, <3>1
  <2>3. CASE i = 2 * q + 1
    <3>1. q + 1 \in 1..n /\ i = 2 * (q + 1) - 1
      BY <1>1, <1>0, <2>3
    <3> QED
      BY <3>1
  <2> QED
    BY <2>1, <2>2, <2>3
<1>4. s[2 * k - 1] = From(w[k]) /\ s[2 * k] = Rest(w[k])
  BY <1>0 DEF Spells
<1>5. CASE i = 2 * k - 1
  <2>1. PICK a \in 0..i : a = k - 1 /\ i - 1 = 2 * a /\ a < n /\ a + 1 = k
    BY <1>5
  <2>2. IsFrom(s[i]) /\ s[i] = From(w[a + 1])
    BY <1>2, <1>4, <1>5, <2>1
  <2> QED
    BY <1>1, <1>0, <2>1, <2>2
<1>6. CASE i = 2 * k
  <2>1. k \in 0..i /\ i - 1 = 2 * k - 1
    BY <1>6
  <2>2. ~IsFrom(s[i]) /\ s[i] = Rest(w[k]) /\ s[i - 1] = From(w[k])
    BY <1>2, <1>4, <1>6, <2>1
  <2> QED
    BY <1>1, <1>0, <1>6, <2>1, <2>2
<1> QED
  BY <1>3, <1>5, <1>6

LEMMA EvenZero == Even(0)
<1>1. 0 \in 0..0 /\ 0 = 2 * 0
  OBVIOUS
<1> QED
  BY <1>1 DEF Even

LEMMA EvenSum ==
    ASSUME NEW m \in Nat, NEW n \in Nat, Even(m), Even(n)
    PROVE  Even(m + n)
<1>1. PICK a \in 0..m, b \in 0..n : m = 2 * a /\ n = 2 * b
  BY DEF Even
<1>2. a + b \in 0..m + n /\ m + n = 2 * (a + b)
  BY <1>1
<1> QED
  BY <1>2 DEF Even

\* What Spells says of sequences of letters, said of the blocks alone.
LEMMA EntireNothing == Entire(<<>>) /\ Letters(<<>>) = <<>>
  BY SpellsNothing, SpellsEntire

LEMMA EntireConcat ==
    ASSUME NEW s, Entire(s), NEW t, Entire(t)
    PROVE  Entire(s \o t) /\ s \o t \in Seq(Block)
<1>1. Spells(s \o t, Letters(s) \o Letters(t))
  BY SpellsConcat DEF Entire
<1> QED
  BY <1>1, SpellsEntire DEF Spells

LEMMA EntireAppend ==
    ASSUME NEW s, Entire(s), NEW l \in Letter
    PROVE  /\ Entire(Append(Append(s, From(l)), Rest(l)))
           /\ Letters(Append(Append(s, From(l)), Rest(l))) = Append(Letters(s), l)
<1>1. Spells(Append(Append(s, From(l)), Rest(l)), Append(Letters(s), l))
  BY SpellsAppend DEF Entire
<1> QED
  BY <1>1, SpellsEntire

LEMMA EntireLength ==
    ASSUME NEW s, Entire(s)
    PROVE  Even(Len(s)) /\ Len(s) \in Nat /\ Len(s) = 2 * Len(Letters(s))
<1>1. PICK n \in Nat, m \in Nat : m = Len(s) /\ n = Len(Letters(s)) /\ m = 2 * n
  BY EntireTyped, LenProperties
<1>2. n \in 0..m
  BY <1>1
<1> QED
  BY <1>1, <1>2 DEF Even

\* Between two letters there is an even number of blocks.
LEMMA EntireFromEven ==
    ASSUME NEW s, Entire(s), NEW i \in 1..Len(s)
    PROVE  /\ IsFrom(s[i]) => Even(i - 1)
           /\ ~IsFrom(s[i]) => Even(i)
<1>0. i \in Nat /\ 1 <= i
  BY EntireLength
<1>1. ASSUME IsFrom(s[i]) PROVE Even(i - 1)
  <2>1. PICK a \in 0..i : i - 1 = 2 * a
    BY <1>1, EntireBlocks
  <2>2. a \in 0..i - 1
    BY <1>0, <2>1
  <2> QED
    BY <2>1, <2>2 DEF Even
<1>2. ASSUME ~IsFrom(s[i]) PROVE Even(i)
  <2>1. PICK a \in 0..i : i = 2 * a
    BY <1>2, EntireBlocks
  <2> QED
    BY <2>1 DEF Even
<1> QED
  BY <1>1, <1>2

\* What lies between two such places is whole letters.
LEMMA EntirePart ==
    ASSUME NEW s, Entire(s), NEW m \in Nat, NEW n \in Nat, Even(m), Even(n), n <= Len(s)
    PROVE  Entire(SubSeq(s, m + 1, n))
<1>1. PICK a \in Nat, b \in Nat : m = 2 * a /\ n = 2 * b
  BY DEF Even
<1>2. b <= Len(Letters(s))
  <2>1. PICK k \in Nat, l \in Nat : l = Len(s) /\ k = Len(Letters(s)) /\ l = 2 * k
    BY EntireTyped, LenProperties
  <2> QED
    BY <1>1, <2>1
<1>3. Spells(SubSeq(s, 2 * a + 1, 2 * b), SubSeq(Letters(s), a + 1, b))
  BY <1>2, SpellsPart DEF Entire
<1> QED
  BY <1>1, <1>3, SpellsEntire

LEMMA EntireCut ==
    ASSUME NEW s, Entire(s), NEW n \in Nat, Even(n), n <= Len(s)
    PROVE  Entire(CutTo(s, n))
<1>1. PICK l \in Nat : l = Len(s)
  BY EntireLength
<1>2. CutTo(s, n) = SubSeq(s, 1, n)
  BY <1>1 DEF CutTo
<1>3. 0 + 1 = 1 /\ Even(0) /\ 0 \in Nat
  BY EvenZero
<1>4. Entire(SubSeq(s, 0 + 1, n))
  BY <1>3, EntirePart
<1> QED
  BY <1>2, <1>3, <1>4

\* A piece of a file, one block longer.
LEMMA CutNext ==
    ASSUME NEW S, NEW s \in Seq(S), NEW n \in Nat, n < Len(s)
    PROVE  /\ s[n + 1] \in S /\ CutTo(s, n) \in Seq(S) /\ Len(CutTo(s, n)) = n
           /\ CutTo(s, n + 1) = Append(CutTo(s, n), s[n + 1])
<1>1. PICK l \in Nat : l = Len(s) /\ n < l
  BY LenProperties
<1>2. PICK e \in S : e = s[n + 1]
  BY <1>1, ElementOfSeq
<1>3. PICK u \in Seq(S) : u = CutTo(s, n) /\ Len(u) = n /\ \A k \in 1..n : u[k] = s[k]
  BY <1>1, Cutting
<1>4. PICK v \in Seq(S) : v = CutTo(s, n + 1) /\ Len(v) = n + 1 /\ \A k \in 1..n + 1 : v[k] = s[k]
  <2>1. n + 1 \in Nat /\ (IF n + 1 < l THEN n + 1 ELSE l) = n + 1
    BY <1>1
  <2> QED
    BY <1>1, <2>1, Cutting
<1>0. PICK w : w = Append(u, e)
  OBVIOUS
<1>5. w \in Seq(S) /\ Len(w) = n + 1 /\ w[n + 1] = e /\ \A k \in 1..n : w[k] = u[k]
  BY <1>0, <1>3, AppendFacts
<1>6. ASSUME NEW k \in 1..n + 1 PROVE v[k] = w[k]
  <2>1. CASE k = n + 1
    BY <1>2, <1>4, <1>5, <2>1
  <2>2. CASE k # n + 1
    <3>1. k \in 1..n
      BY <2>2
    <3> QED
      BY <1>3, <1>4, <1>5, <3>1
  <2> QED
    BY <2>1, <2>2
<1>7. v = w
  BY <1>4, <1>5, <1>6, SeqEqual
<1> QED
  BY <1>0, <1>2, <1>3, <1>4, <1>5, <1>7

\* A piece of a piece, and all or nothing of a file.
LEMMA CutCut ==
    ASSUME NEW S, NEW s \in Seq(S), NEW m \in Nat, NEW n \in Nat, n <= m, m <= Len(s)
    PROVE  CutTo(CutTo(s, m), n) = CutTo(s, n)
<1>1. PICK l \in Nat : l = Len(s) /\ m <= l
  BY LenProperties
<1>2. PICK u \in Seq(S) : u = CutTo(s, m) /\ Len(u) = m /\ \A k \in 1..m : u[k] = s[k]
  BY <1>1, Cutting
<1>3. PICK v \in Seq(S) : v = CutTo(u, n) /\ Len(v) = n /\ \A k \in 1..n : v[k] = u[k]
  BY <1>2, Cutting
<1>4. PICK w \in Seq(S) : w = CutTo(s, n) /\ Len(w) = n /\ \A k \in 1..n : w[k] = s[k]
  BY <1>1, Cutting
<1>5. \A k \in 1..n : v[k] = w[k]
  BY <1>2, <1>3, <1>4
<1>6. v = w
  BY <1>3, <1>4, <1>5, SeqEqual
<1> QED
  BY <1>2, <1>3, <1>4, <1>6

LEMMA CutEnds ==
    ASSUME NEW S, NEW s \in Seq(S)
    PROVE  CutTo(s, Len(s)) = s /\ CutTo(s, 0) = <<>> /\ CutTo(<<>>, 0) = <<>>
<1>1. PICK l \in Nat : l = Len(s)
  BY LenProperties
<1>2. PICK v \in Seq(S) : v = CutTo(s, l) /\ Len(v) = l /\ \A k \in 1..l : v[k] = s[k]
  BY <1>1, Cutting
<1>3. v = s
  BY <1>1, <1>2, SeqEqual
<1>4. ASSUME NEW t \in Seq(S) PROVE CutTo(t, 0) = <<>>
  <2>1. PICK w \in Seq(S) : w = CutTo(t, 0) /\ Len(w) = 0
    <3>1. PICK n \in Nat : n = Len(t)
      BY LenProperties
    <3>2. 0 \in Nat /\ (IF 0 < n THEN 0 ELSE n) = 0
      BY <3>1
    <3> QED
      BY <3>1, <3>2, Cutting
  <2> QED
    BY <2>1, EmptySeq
<1>5. <<>> \in Seq(S)
  BY EmptySeq
<1> QED
  BY <1>1, <1>2, <1>3, <1>4, <1>5

LEMMA AppendConcat ==
    ASSUME NEW S, NEW s \in Seq(S), NEW t \in Seq(S), NEW e \in S
    PROVE  s \o Append(t, e) = Append(s \o t, e)
<1>1. PICK m \in Nat, n \in Nat : m = Len(s) /\ n = Len(t)
  BY LenProperties
<1>2. PICK u : u = Append(t, e)
  OBVIOUS
<1>3. u \in Seq(S) /\ Len(u) = n + 1 /\ u[n + 1] = e /\ \A k \in 1..n : u[k] = t[k]
  BY <1>1, <1>2, AppendFacts
<1>4. PICK v : v = s \o t
  OBVIOUS
<1>5. v \in Seq(S) /\ Len(v) = m + n
      /\ \A i \in 1..m + n : v[i] = IF i <= m THEN s[i] ELSE t[i - m]
  BY <1>1, <1>4, ConcatProperties
<1>6. PICK w : w = s \o u
  OBVIOUS
<1>7. w \in Seq(S) /\ Len(w) = m + (n + 1)
      /\ \A i \in 1..m + (n + 1) : w[i] = IF i <= m THEN s[i] ELSE u[i - m]
  <2>1. PICK p \in Seq(S) : p = u /\ Len(p) = n + 1
    BY <1>3
  <2> QED
    BY <1>1, <1>6, <2>1, ConcatProperties
<1>8. PICK x : x = Append(v, e)
  OBVIOUS
<1>9. x \in Seq(S) /\ Len(x) = m + n + 1 /\ x[m + n + 1] = e /\ \A k \in 1..m + n : x[k] = v[k]
  <2>1. PICK p \in Seq(S) : p = v /\ Len(p) = m + n
    BY <1>5
  <2> QED
    BY <1>8, <2>1, AppendFacts
<1>10. ASSUME NEW i \in 1..m + (n + 1) PROVE w[i] = x[i]
  <2>1. CASE i = m + n + 1
    <3>1. ~(i <= m) /\ i - m = n + 1
      BY <2>1
    <3> QED
      BY <1>3, <1>7, <1>9, <2>1, <3>1
  <2>2. CASE i # m + n + 1
    <3>1. i \in 1..m + n
      BY <2>2
    <3>2. x[i] = IF i <= m THEN s[i] ELSE t[i - m]
      BY <1>5, <1>9, <3>1
    <3>3. CASE i <= m
      BY <1>7, <3>2, <3>3
    <3>4. CASE ~(i <= m)
      <4>1. i - m \in 1..n
        BY <3>1, <3>4
      <4> QED
        BY <1>3, <1>7, <3>2, <3>4, <4>1
    <3> QED
      BY <3>3, <3>4
  <2> QED
    BY <2>1, <2>2
<1>11. w = x
  <2>1. Len(w) = Len(x) /\ \A i \in 1..Len(w) : w[i] = x[i]
    BY <1>7, <1>9, <1>10
  <2> QED
    BY <1>7, <1>9, <2>1, SeqEqual
<1> QED
  BY <1>2, <1>4, <1>6, <1>8, <1>11

\* What has been copied of whole letters: whole letters, and a From line perhaps.
LEMMA CutHalf ==
    ASSUME NEW s, Entire(s), NEW n \in Nat, n <= Len(s)
    PROVE  \/ Even(n) /\ Entire(CutTo(s, n))
           \/ \E k \in 0..n, l \in Letter :
                /\ n = k + 1 /\ Even(k) /\ Entire(CutTo(s, k)) /\ s[n] = From(l)
                /\ CutTo(s, n) = Append(CutTo(s, k), From(l))
<1>0. s \in Seq(Block) /\ Len(s) \in Nat
  BY EntireTyped, LenProperties
<1>1. CASE Even(n)
  BY <1>1, EntireCut
<1>2. CASE ~Even(n)
  <2>0. Even(0)
    BY EvenZero
  <2>1. n # 0
    BY <1>2, <2>0
  <2>2. n \in 1..Len(s)
    BY <1>0, <2>1
  <2>3. IsFrom(s[n]) /\ Even(n - 1)
    BY <1>2, <2>2, EntireFromEven
  <2>4. PICK k \in 0..n : n = k + 1 /\ k \in Nat /\ Even(k) /\ k < Len(s) /\ k <= Len(s)
    BY <1>0, <2>1, <2>2, <2>3
  <2>5. Entire(CutTo(s, k))
    BY <2>4, EntireCut
  <2>6. s[n] \in Block
    BY <1>0, <2>2, ElementOfSeq
  <2>7. PICK l \in Letter : s[n] = From(l)
    BY <2>3, <2>6 DEF Block, IsFrom, From
  <2>8. CutTo(s, k + 1) = Append(CutTo(s, k), s[k + 1])
    BY <1>0, <2>4, CutNext
  <2> QED
    BY <2>4, <2>5, <2>7, <2>8
<1> QED
  BY <1>1, <1>2

\* The table of whole letters.
LEMMA MarkEven ==
    ASSUME NEW l \in Seq(Nat), l # <<>>, NEW s, Entire(s),
           \A k \in 1..Len(l) : Even(l[k])
    PROVE  \A k \in 1..Len(Mark(l, s)) : Even(Mark(l, s)[k])
<1>0. s \in Seq(Block) /\ Len(s) \in Nat /\ Even(Len(s))
  BY EntireTyped, EntireLength
<1>1. PICK m : m = Mark(l, s)
  OBVIOUS
<1>2. /\ m \in Seq(Nat) /\ m # <<>> /\ Len(l) <= Len(m) /\ Last(m) = Last(l) + Len(s)
      /\ \A i \in 1..Len(l) - 1 : m[i] = l[i]
      /\ \A i \in Len(l)..Len(m) - 1 : \E j \in 1..Len(s) : m[i] = Last(l) + j - 1 /\ IsFrom(s[j])
  <2>1. Mark(l, s) \in Seq(Nat) /\ Mark(l, s) # <<>> /\ Len(l) <= Len(Mark(l, s))
    BY <1>0, MarkTable
  <2>2. Last(Mark(l, s)) = Last(l) + Len(s)
    BY <1>0, MarkTable
  <2>3. \A i \in 1..Len(l) - 1 : Mark(l, s)[i] = l[i]
    BY <1>0, MarkTable
  <2>4. \A i \in Len(l)..Len(Mark(l, s)) - 1 :
          \E j \in 1..Len(s) : Mark(l, s)[i] = Last(l) + j - 1 /\ IsFrom(s[j])
    BY <1>0, MarkTable
  <2> QED
    BY <1>1, <2>1, <2>2, <2>3, <2>4
<1>3. PICK p \in Nat \ {0}, q \in Nat \ {0} : p = Len(l) /\ q = Len(m)
  BY <1>2, LenProperties, EmptySeq
<1>4. PICK e \in Nat : e = Last(l) /\ Even(e)
  <2>1. Last(l) = l[p] /\ Last(l) \in Nat
    BY <1>3, FrontFacts
  <2>2. p \in 1..Len(l)
    BY <1>3
  <2> QED
    BY <2>1, <2>2
<1>5. ASSUME NEW k \in 1..q PROVE Even(m[k])
  <2>1. CASE k = q
    <3>1. Last(m) = m[q]
      BY <1>2, <1>3, FrontFacts
    <3> QED
      BY <1>0, <1>2, <1>4, <2>1, <3>1, EvenSum
  <2>2. CASE k # q /\ k < p
    <3>1. k \in 1..p - 1 /\ k \in 1..p
      BY <2>2
    <3> QED
      BY <1>2, <1>3, <3>1
  <2>3. CASE k # q /\ ~(k < p)
    <3>1. k \in p..q - 1
      BY <2>3
    <3>2. PICK j \in 1..Len(s) : m[k] = e + j - 1 /\ IsFrom(s[j])
      BY <1>2, <1>3, <1>4, <3>1
    <3>3. PICK i \in Nat : i = j - 1 /\ Even(i)
      BY <1>0, <3>2, EntireFromEven
    <3>4. e + j - 1 = e + i
      BY <1>0, <3>3
    <3> QED
      BY <1>4, <3>2, <3>3, <3>4, EvenSum
  <2> QED
    BY <2>1, <2>2, <2>3
<1> QED
  BY <1>1, <1>3, <1>5

\* What copyback() keeps of whole letters.
LEMMA KeptEntire ==
    ASSUME TypeInv, NEW r \in Reader, Entire(tmp[r]), \A k \in 1..Len(let[r]) : Even(let[r][k])
    PROVE  Entire(Kept(r)) /\ Kept(r) \in Seq(Block)
<1>1. PICK t, l, n : t = tmp[r] /\ l = let[r] /\ n = nlet(r)
  OBVIOUS
<1>2. /\ t \in Seq(Block) /\ l \in Seq(Nat) /\ l # <<>> /\ Entire(t)
      /\ \A i \in 1..Len(l) : l[i] <= Len(t) /\ Even(l[i])
  BY <1>1 DEF TypeInv, TablesTyped, TableOK
<1>3. n \in Nat /\ n = Len(l) - 1 /\ Len(t) \in Nat
  BY <1>1, <1>2, LenProperties, EmptySeq DEF nlet
<1>4. ASSUME NEW i \in 1..n PROVE Entire(SubSeq(t, l[i] + 1, l[i + 1]))
  <2>1. i \in 1..Len(l) /\ i + 1 \in 1..Len(l)
    BY <1>3
  <2>2. PICK a \in Nat, b \in Nat : a = l[i] /\ b = l[i + 1] /\ b <= Len(t) /\ Even(a) /\ Even(b)
    BY <1>2, <2>1, ElementOfSeq
  <2>3. Entire(SubSeq(t, a + 1, b))
    BY <1>2, <2>2, EntirePart
  <2> QED
    BY <2>2, <2>3
<1>5. PICK D : D = del[r]
  OBVIOUS
<1>6. PICK s : s = [i \in 1..n |-> IF i \in D THEN <<>> ELSE SubSeq(t, l[i] + 1, l[i + 1])]
  OBVIOUS
<1>7. \A i \in 1..n : Entire(s[i]) /\ s[i] \in Seq(Block)
  <2>1. ASSUME NEW i \in 1..n PROVE Entire(s[i])
    <3>1. s[i] = IF i \in D THEN <<>> ELSE SubSeq(t, l[i] + 1, l[i + 1])
      BY <1>6
    <3> QED
      BY <1>4, <3>1, EntireNothing
  <2> QED
    BY <2>1, EntireTyped
<1>8. s \in Seq(Seq(Block)) /\ Len(s) = n
  <2>1. s \in [1..n -> Seq(Block)]
    BY <1>6, <1>7
  <2> QED
    BY <1>3, <2>1, SeqDef, LenProperties
<1>9. Kept(r) = FlattenSeq(s)
  BY <1>1, <1>5, <1>6 DEF Kept
<1>10. PICK g \in [0..n -> Seq(Block)] : /\ g[0] = <<>> /\ FlattenSeq(s) = g[n]
                                         /\ \A k \in 1..n : g[k] = g[k - 1] \o s[k]
  BY <1>8, FlattenParts
<1> DEFINE P == {k \in Nat : k <= n => Entire(g[k])}
<1>11. 0 \in P
  BY <1>10, EntireNothing
<1>12. ASSUME NEW k \in Nat, k \in P PROVE k + 1 \in P
  <2>1. CASE k + 1 <= n
    <3>1. PICK j \in 1..n : j = k + 1 /\ j - 1 = k /\ k <= n
      BY <1>3, <2>1
    <3>2. Entire(g[k])
      BY <1>12, <3>1
    <3>3. Entire(s[j])
      BY <1>7
    <3>4. g[j] = g[k] \o s[j]
      BY <1>10, <3>1
    <3>5. Entire(g[j])
      BY <3>2, <3>3, <3>4, EntireConcat
    <3> QED
      BY <3>1, <3>5
  <2>2. CASE ~(k + 1 <= n)
    BY <2>2
  <2> QED
    BY <2>1, <2>2
<1>13. Nat \subseteq P
  <2> HIDE DEF P
  <2> QED
    BY <1>11, <1>12, SetInduction
<1>14. Entire(g[n])
  BY <1>3, <1>13
<1> QED
  BY <1>9, <1>10, <1>14, EntireTyped

\* Beside the one in the mailbox nobody is.
LEMMA OthersOut ==
    ASSUME TypeInv, Exclusive, NEW p \in Proc, Inside(p), NEW q \in Proc, q # p
    PROVE  pc[q] \notin Held \cup {"flush"}
  BY DEF Exclusive, Inside, TypeInv, AtTyped

LEMMA WhoIsInside ==
    ASSUME TypeInv, NEW p \in Proc, pc[p] \in Held \cup {"flush"}
    PROVE  Inside(p)
  BY DEF Inside, TypeInv, AtTyped

\* While somebody is in the mailbox only he writes to files.
LEMMA FilesOfDelivery ==
    ASSUME TypeInv, Exclusive, NEW d \in Deliverer, Inside(d), NEW i,
           ~(pc[d] = "rest" /\ fd[d] = i)
    PROVE  AtRest(i)
<1>1. d \in Proc /\ Deliverer \subseteq Proc /\ Reader \subseteq Proc /\ d \notin Reader
  BY StoreAssumption
<1>2. \A q \in Proc : q # d => pc[q] \notin Held
  BY <1>1, OthersOut
<1> QED
  BY <1>1, <1>2 DEF AtRest, Held

LEMMA FilesOfSession ==
    ASSUME TypeInv, Exclusive, NEW r \in Reader, Inside(r), NEW i,
           ~(pc[r] \in {"append", "copyout"} /\ ofd[r] = i)
    PROVE  AtRest(i)
<1>1. r \in Proc /\ Deliverer \subseteq Proc /\ Reader \subseteq Proc /\ r \notin Deliverer
  BY StoreAssumption
<1>2. \A q \in Proc : q # r => pc[q] \notin Held
  BY <1>1, OthersOut
<1> QED
  BY <1>1, <1>2 DEF AtRest, Held

\* Who is out of the mailbox has written nothing by halves, and who is in it has it
\* to himself.
LEMMA Bystanders ==
    ASSUME NEW q \in Proc, pc'[q] = pc[q], fd'[q] = fd[q],
           q \in Deliverer => pos'[q] = pos[q],
           q \in Reader => /\ at'[q] = at[q] /\ ofd'[q] = ofd[q] /\ sname'[q] = sname[q]
                           /\ tmp'[q] = tmp[q] /\ let'[q] = let[q] /\ del'[q] = del[q],
           pc[q] \notin Held \cup {"flush"} \/ UNCHANGED <<data, dir>>
    PROVE  /\ q \in Deliverer /\ Half(q) => Half(q)'
           /\ q \in Reader /\ HalfCopied(q) => HalfCopied(q)'
           /\ q \in Reader /\ EvenTable(q) => EvenTable(q)'
<1>1. q \in Reader => EvenTable(q)' = EvenTable(q)
  BY DEF EvenTable
<1>2. CASE pc[q] \notin Held \cup {"flush"}
  BY <1>1, <1>2 DEF Half, HalfCopied, Held
<1>3. CASE UNCHANGED <<data, dir>>
  <2>1. q \in Deliverer => Half(q)' = Half(q)
    BY <1>3 DEF Half
  <2>2. q \in Reader => Kept(q)' = Kept(q)
    BY DEF Kept, nlet
  <2>3. q \in Reader => HalfCopied(q)' = HalfCopied(q)
    BY <1>3, <2>2 DEF HalfCopied, Size
  <2> QED
    BY <1>1, <2>1, <2>3
<1> QED
  BY <1>2, <1>3

\* What a step leaves to the other processes.
LEMMA DeliveryBeside ==
    ASSUME TypeInv, NEW d \in Deliverer, DeliveryStep(d), NEW q \in Proc, q # d
    PROVE  /\ pc'[q] = pc[q] /\ fd'[q] = fd[q]
           /\ q \in Deliverer => pos'[q] = pos[q]
           /\ UNCHANGED readervars
<1>1. /\ pos \in [Deliverer -> Nat] /\ fd \in [Proc -> Ino \cup {NoFile}]
      /\ d \in Proc
  BY WriterBlocks DEF TypeInv, DeliverTyped, StoreTyped
<1>2. pc'[q] = pc[q]
  BY <1>1, DeliveryLabels DEF TypeInv
<1> QED
  BY <1>1, <1>2 DEF DeliveryStep, StartDelivery, SendMbox, FindUser, UserUnknown, LockMbox,
           LockMboxFails, LookAtMbox, CreateMbox, OpenMbox, OpenMboxFails, BailOut,
           WriteFrom, WriteRest, WriteFails, UnlockMbox, DoneDelivery, ExitFlush,
           KillDelivery, SignalDelivery, CrashDelivery, Exit, delivervars

LEMMA SessionBeside ==
    ASSUME TypeInv, NEW r \in Reader, ReadingStep(r), NEW q \in Proc, q # r
    PROVE  /\ pc'[q] = pc[q] /\ fd'[q] = fd[q] /\ UNCHANGED delivervars
           /\ q \in Reader => /\ at'[q] = at[q] /\ ofd'[q] = ofd[q] /\ sname'[q] = sname[q]
                              /\ tmp'[q] = tmp[q] /\ let'[q] = let[q] /\ del'[q] = del[q]
<1>1. /\ at \in [Reader -> Nat] /\ sname \in [Reader -> {"save", "alt"}]
      /\ tmp \in [Reader -> Seq(Block)] /\ let \in [Reader -> Seq(Nat)]
      /\ del \in [Reader -> SUBSET Nat]
      /\ r \in Proc
  BY StoreAssumption DEF TypeInv, ReaderTyped
<1>2. pc'[q] = pc[q]
  BY <1>1, ReadingLabels DEF TypeInv
<1>3. fd'[q] = fd[q] /\ (q \in Reader => ofd'[q] = ofd[q])
  BY ReadingVarsTyped
<1>4. ASSUME q \in Reader PROVE tmp'[q] = tmp[q] /\ let'[q] = let[q] /\ del'[q] = del[q]
  <2>1. InterruptCopy(r) => /\ \E t : tmp' = [tmp EXCEPT ![r] = t]
                            /\ \E l : let' = [let EXCEPT ![r] = l]
                            /\ UNCHANGED del
    BY DEF InterruptCopy
  <2> QED
    BY <1>1, <1>4, <2>1, ReadingTables DEF StartReading, LoadMail, LoadNewMail,
       TakeNewMail, Delete, Undelete
<1>5. ASSUME q \in Reader PROVE at'[q] = at[q] /\ sname'[q] = sname[q]
  BY <1>1, <1>5 DEF ReadingStep, StartReading, ReadMail, KillReading, Cksaved, LookForSaved,
        LockForSaved, RestoreByName, RestoreByCopy, AppendSaved, AppendedSaved,
        RemoveSaved, Restored, Printmail, StatMbox, OpenForReading, LockForLoad,
        LoadMail, Loaded, LookForNewMail, LockForReload, LoadNewMail, Reloaded,
        Interrupt, InterruptCopy, Delete,
        Undelete, ExitCommand, Quit, Copyback, LockForRewrite, TakeNewMail,
        MailboxGone, CopybackFails,
        OpenSave, CopyOut, CopyOutFails, UnlinkMbox, RenameSave, RemoveEmpty, CopiedBack,
        LockFails, DoneReading, SignalReading, CrashReading, Stop, readervars
<1>6. UNCHANGED delivervars
  BY DEF ReadingStep
<1> QED
  BY <1>2, <1>3, <1>4, <1>5, <1>6

-----------------------------------------------------------------------------
\* What a delivery that is not killed does to the mailbox.
LEMMA DeliveryWhole ==
    ASSUME TypeInv, Exclusive, Unspoilt, NEW d \in Deliverer, DeliveryStep(d), ~killed'
    PROVE  Half(d)' /\ \A i \in Ino : AtRest(i)' => Entire(data'[i])
<1>1. /\ data \in [Ino -> Seq(Block)] /\ pos \in [Deliverer -> Nat]
      /\ pc \in [Proc -> DelivererLabel \cup ReaderLabel]
      /\ fd \in [Proc -> Ino \cup {NoFile}]
      /\ d \in Proc /\ d \in Letter /\ d \notin Reader /\ From(d) \in Block /\ Rest(d) \in Block
      /\ pc[d] \in {"from", "rest", "flush"} => fd[d] \in Ino
      /\ Deliverer \subseteq Proc /\ Reader \subseteq Proc
  BY WriterBlocks, StoreAssumption DEF TypeInv, AtTyped, DeliverTyped, StoreTyped
<1>2. Half(d) /\ pc[d] # "flush" /\ \A i \in Ino : AtRest(i) => Entire(data[i])
  BY DEF Unspoilt, Half
<1>3. pc[d] # "rest" => \A i : AtRest(i)' => AtRest(i)
  <2>1. \A q \in Proc : q # d => pc'[q] = pc[q] /\ fd'[q] = fd[q]
    BY DeliveryBeside
  <2>2. UNCHANGED ofd
    BY DEF DeliveryStep, readervars
  <2> QED
    BY <1>1, <2>1, <2>2 DEF AtRest
<1>4. CASE pc[d] = "rest"
  <2>1. PICK b \in Seq(Block) : Entire(b) /\ Len(b) = pos[d] /\ data[fd[d]] = Append(b, From(d))
    BY <1>2, <1>4 DEF Half
  <2>2. PICK i0 \in Ino : i0 = fd[d]
    BY <1>1, <1>4
  <2>3. \A i \in Ino : i # i0 => Entire(data[i])
    <3>1. Inside(d)
      BY <1>1, <1>4, WhoIsInside DEF Held
    <3> QED
      BY <1>2, <2>2, <3>1, FilesOfDelivery
  <2>4. WriteRest(d) \/ WriteFails(d)
    BY <1>4, StopsWriting
  <2>5. pc'[d] = "unlock"
    BY <1>1, <2>4 DEF WriteRest, WriteFails, Goto
  <2>6. ASSUME NEW s, data' = [data EXCEPT ![i0] = s], Entire(s)
        PROVE  \A i \in Ino : Entire(data'[i])
    BY <1>1, <2>3, <2>6
  <2>7. CASE WriteRest(d)
    <3>1. data' = [data EXCEPT ![i0] = Append(Append(b, From(d)), Rest(d))]
      BY <1>1, <2>1, <2>2, <2>7 DEF WriteRest, Append1
    <3>2. Entire(Append(Append(b, From(d)), Rest(d)))
      BY <1>1, <2>1, EntireAppend
    <3> QED
      BY <2>5, <2>6, <3>1, <3>2 DEF Half
  <2>8. CASE WriteFails(d)
    <3>1. data' = [data EXCEPT ![i0] = CutTo(Append(b, From(d)), Len(b))]
      BY <1>1, <2>1, <2>2, <2>8 DEF WriteFails
    <3>2. CutTo(Append(b, From(d)), Len(b)) = b
      BY <1>1, <2>1, CutBack
    <3> QED
      BY <2>1, <2>5, <2>6, <3>1, <3>2 DEF Half
  <2> QED
    BY <2>4, <2>7, <2>8
<1>5. CASE pc[d] # "rest" /\ WriteFrom(d)
  <2>1. PICK i0 \in Ino : i0 = fd[d] /\ pc[d] = "from"
    BY <1>1, <1>5 DEF WriteFrom
  <2>2. Inside(d)
    BY <1>1, <2>1, WhoIsInside DEF Held
  <2>3. Entire(data[i0])
    BY <1>2, <1>5, <2>2, FilesOfDelivery
  <2>4. data' = [data EXCEPT ![i0] = Append(data[i0], From(d))] /\ pos'[d] = Len(data[i0])
        /\ fd'[d] = i0 /\ pc'[d] = "rest"
    BY <1>1, <1>5, <2>1 DEF WriteFrom, Append1, Size, Goto
  <2>5. Half(d)'
    BY <1>1, <2>3, <2>4 DEF Half
  <2>6. ASSUME NEW i \in Ino, AtRest(i)' PROVE Entire(data'[i])
    <3>1. i # i0
      BY <2>4, <2>6 DEF AtRest
    <3> QED
      BY <1>1, <1>2, <1>3, <1>5, <2>4, <2>6, <3>1
  <2> QED
    BY <2>5, <2>6
<1>6. CASE pc[d] # "rest" /\ ~WriteFrom(d)
  <2>1. pc'[d] \notin {"rest", "flush"}
    BY <1>2, <1>6, DeliveryMoves DEF TypeInv
  <2>2. UNCHANGED data \/ CreateMbox(d)
    BY <1>2, <1>6, DeliveryFiles
  <2>3. ASSUME NEW i \in Ino, AtRest(i)' PROVE Entire(data'[i])
    <3>1. Entire(data[i])
      BY <1>2, <1>3, <1>6, <2>3
    <3>2. CASE UNCHANGED data
      BY <3>1, <3>2
    <3>3. CASE CreateMbox(d)
      <4>1. data'[i] = data[i] \/ data'[i] = <<>>
        BY <1>1, <3>3 DEF CreateMbox, files
      <4> QED
        BY <3>1, <4>1, EntireNothing
    <3> QED
      BY <2>2, <3>2, <3>3
  <2> QED
    BY <2>1, <2>3 DEF Half
<1> QED
  BY <1>4, <1>5, <1>6

\* The same for everybody.
LEMMA DeliveryUnspoilt ==
    ASSUME TypeInv, Exclusive, Unspoilt, NEW d \in Deliverer, DeliveryStep(d), ~killed'
    PROVE  Unspoilt'
<1>1. Deliverer \subseteq Proc /\ Reader \subseteq Proc /\ d \notin Reader /\ d \in Proc
  BY StoreAssumption
<1>2. Half(d)' /\ \A i \in Ino : AtRest(i)' => Entire(data'[i])
  BY DeliveryWhole
<1>3. ASSUME NEW q \in Proc, q # d PROVE pc[q] \notin Held \cup {"flush"} \/ UNCHANGED <<data, dir>>
  <2>1. CASE Inside(d)
    BY <1>1, <1>3, <2>1, OthersOut
  <2>2. CASE ~Inside(d)
    BY <2>2, DeliveryOutside
  <2> QED
    BY <2>1, <2>2
<1>4. ASSUME NEW q \in Proc, q # d
      PROVE  /\ q \in Deliverer /\ Half(q) => Half(q)'
             /\ q \in Reader /\ HalfCopied(q) => HalfCopied(q)'
             /\ q \in Reader /\ EvenTable(q) => EvenTable(q)'
  <2>1. /\ pc'[q] = pc[q] /\ fd'[q] = fd[q]
        /\ q \in Deliverer => pos'[q] = pos[q]
        /\ UNCHANGED <<at, ofd, sname, tmp, let, del>>
    BY <1>4, DeliveryBeside DEF readervars
  <2>2. pc[q] \notin Held \cup {"flush"} \/ UNCHANGED <<data, dir>>
    BY <1>3, <1>4
  <2> QED
    BY <2>1, <2>2, Bystanders
<1>5. \A e \in Deliverer : Half(e)'
  BY <1>1, <1>2, <1>4 DEF Unspoilt
<1>6. \A r \in Reader : HalfCopied(r)' /\ EvenTable(r)'
  BY <1>1, <1>4 DEF Unspoilt
<1> QED
  BY <1>2, <1>5, <1>6 DEF Unspoilt

\* What a session does to the files it has open, and where it goes otherwise.
LEMMA SessionGoes ==
    ASSUME TypeInv, NEW r \in Reader, ReadingStep(r), ~killed'
    PROVE  \/ RestoreByCopy(r) \/ AppendSaved(r) \/ AppendedSaved(r)
           \/ OpenSave(r) \/ CopyOut(r) \/ CopyOutFails(r) \/ UnlinkMbox(r)
           \/ /\ pc[r] \notin {"append", "copyout"} /\ UNCHANGED data
              /\ pc'[r] \notin {"append", "copyout", "rename"}
              /\ pc'[r] \in {"saved?", "cksave", "restore"} =>
                   at'[r] = 0 \/ (pc[r] \in {"saved?", "cksave", "restore"} /\ UNCHANGED at)
<1>1. /\ pc \in [Proc -> DelivererLabel \cup ReaderLabel] /\ r \in Proc
      /\ at \in [Reader -> Nat]
  BY StoreAssumption DEF TypeInv, AtTyped, ReaderTyped
<1>2. CASE StartReading(r)
  BY <1>1, <1>2 DEF StartReading, Goto, files
<1>7. CASE LookForSaved(r) \/ LockForSaved(r)
  BY <1>1, <1>7 DEF LookForSaved, LockForSaved, TakeAt, AskThen, Goto, files, readervars
<1>8. CASE RestoreByName(r)
  BY <1>1, <1>8 DEF RestoreByName, Leave, Goto
<1>3. CASE RemoveSaved(r) \/ Restored(r) \/ LockForRewrite(r) \/ TakeNewMail(r) \/ MailboxGone(r)
  BY <1>1, <1>3 DEF RemoveSaved, Restored, LockForRewrite, TakeNewMail, MailboxGone,
       CopybackFails, TakeAt,
     Leave, Goto, files, history, readervars
<1>4. CASE Printmail(r)
  BY <1>1, <1>4 DEF Printmail, StatMbox, OpenForReading,
     LockForLoad, LoadMail, Loaded, LookForNewMail, LockForReload, LoadNewMail, Reloaded,
     Interrupt, InterruptCopy, Delete, Undelete, ExitCommand, Quit, TakeAt, AskThen,
     LockFor, Leave, Goto, files,
     history, readervars
<1>5. CASE \/ RenameSave(r) \/ RemoveEmpty(r) \/ CopiedBack(r) \/ CopybackFails(r)
           \/ LockFails(r) \/ DoneReading(r)
  BY <1>1, <1>5 DEF CopybackFails, RenameSave, RemoveEmpty, CopiedBack, LockFails,
       DoneReading, Waiting,
     Stop, Leave, Goto, files, history, readervars
<1>6. CASE KillReading(r)
  BY <1>1, <1>6 DEF KillReading, SignalReading, CrashReading, MidCopy, Stop, Goto, files
<1> QED
  BY <1>2, <1>3, <1>4, <1>5, <1>6, <1>7, <1>8 DEF ReadingStep, ReadMail, Cksaved, Copyback

\* The temporary file of a session stays in whole letters.
LEMMA SessionTables ==
    ASSUME TypeInv, Exclusive, Unspoilt, NEW r \in Reader, ReadingStep(r), ~cut'
    PROVE  EvenTable(r)'
<1>0. ~cut
  BY ReadingVarsTyped
<1>1. /\ data \in [Ino -> Seq(Block)] /\ dir \in [Name -> Ino \cup {NoFile}]
      /\ tmp \in [Reader -> Seq(Block)] /\ let \in [Reader -> Seq(Nat)]
      /\ let[r] # <<>> /\ "mail" \in Name /\ r \in Proc
      /\ pc[r] \in Fresh => let[r] = <<0>>
      /\ pc[r] \in Reading0 => End(r) = Len(tmp[r])
      /\ pc[r] = "copyin" => fd[r] \in Ino
  BY <1>0, StoreAssumption
     DEF TypeInv, AtTyped, StoreTyped, ReaderTyped, TablesTyped, TableOK, Name
<1>2. Entire(tmp[r]) /\ \A k \in 1..Len(let[r]) : Even(let[r][k])
  BY DEF Unspoilt, EvenTable
<1>3. ASSUME pc[r] \in {"copyin", "copymore", "newmail"}, NEW i \in Ino PROVE Entire(data[i])
  <2>1. Inside(r)
    BY <1>1, <1>3, WhoIsInside DEF Held
  <2>2. AtRest(i)
    BY <1>3, <2>1, FilesOfSession
  <2> QED
    BY <2>2 DEF Unspoilt
<1>4. CASE UNCHANGED <<tmp, let>>
  BY <1>2, <1>4 DEF EvenTable
<1>5. CASE StartReading(r)
  <2>1. tmp'[r] = <<>> /\ let'[r] = <<0>>
    BY <1>1, <1>5 DEF StartReading
  <2> QED
    BY <2>1, EntireNothing, EvenZero DEF EvenTable
<1>6. CASE LoadMail(r) /\ ~UNCHANGED <<tmp, let>>
  <2>1. PICK s : s = data[fd[r]]
    OBVIOUS
  <2>2. Entire(s)
    BY <1>1, <1>3, <1>6, <2>1 DEF LoadMail
  <2>3. tmp'[r] = s /\ let'[r] = Mark(let[r], s)
    BY <1>1, <1>6, <2>1 DEF LoadMail
  <2>4. \A k \in 1..Len(Mark(let[r], s)) : Even(Mark(let[r], s)[k])
    BY <1>1, <1>2, <2>2, MarkEven
  <2> QED
    BY <2>2, <2>3, <2>4 DEF EvenTable
<1>7. End(r) \in Nat /\ Even(End(r))
  <2>1. PICK n \in Nat \ {0} : n = Len(let[r])
    BY <1>1, LenProperties, EmptySeq
  <2>2. n \in 1..Len(let[r])
    BY <2>1
  <2> QED
    BY <1>1, <1>2, <2>1, <2>2, ElementOfSeq DEF End
<1>8. ASSUME NEW t, Entire(t)
      PROVE  Entire(SubSeq(t, End(r) + 1, Len(t)))
  BY <1>7, <1>8, EntirePart, EntireLength
<1>9. CASE CopiesAll(r)
  <2>1. PICK t : t = data[dir["mail"]]
    OBVIOUS
  <2>2. Entire(t)
    BY <1>1, <1>3, <1>9, <2>1 DEF CopiesAll
  <2>3. PICK s : s = SubSeq(t, End(r) + 1, Len(t))
    OBVIOUS
  <2>4. Entire(s)
    BY <1>8, <2>2, <2>3
  <2>5. tmp'[r] = tmp[r] \o s /\ let'[r] = Mark(let[r], s)
    BY <1>1, <1>9, <2>1, <2>3 DEF CopiesAll, Size
  <2>6. \A k \in 1..Len(Mark(let[r], s)) : Even(Mark(let[r], s)[k])
    BY <1>1, <1>2, <2>4, MarkEven
  <2>7. Entire(tmp[r] \o s)
    BY <1>2, <2>4, EntireConcat
  <2> QED
    BY <2>5, <2>6, <2>7 DEF EvenTable
<1>10. CASE TakeNewMail(r) /\ ~UNCHANGED <<tmp, let>>
  <2>1. PICK t : t = data[dir["mail"]]
    OBVIOUS
  <2>2. Entire(t)
    BY <1>1, <1>3, <1>10, <2>1 DEF TakeNewMail
  <2>3. PICK s : s = SubSeq(t, End(r) + 1, Len(t))
    OBVIOUS
  <2>4. Entire(s)
    BY <1>8, <2>2, <2>3
  <2>5. tmp'[r] = tmp[r] \o s /\ let'[r] = Append(let[r], Len(t))
    BY <1>1, <1>10, <2>1, <2>3 DEF TakeNewMail
  <2>6. PICK n \in Nat : n = Len(t) /\ Even(n)
    BY <2>2, EntireLength
  <2>7. PICK l \in Seq(Nat), m \in Nat : l = let[r] /\ m = Len(l) /\ \A k \in 1..m : Even(l[k])
    BY <1>1, <1>2, LenProperties
  <2>8. PICK v : v = Append(l, n)
    OBVIOUS
  <2>9. Len(v) = m + 1 /\ v[m + 1] = n /\ \A k \in 1..m : v[k] = l[k]
    BY <2>7, <2>8, AppendFacts
  <2>10. \A k \in 1..m + 1 : Even(v[k])
    <3> SUFFICES ASSUME NEW k \in 1..m + 1 PROVE Even(v[k])
      OBVIOUS
    <3>1. k = m + 1 \/ k \in 1..m
      OBVIOUS
    <3> QED
      BY <2>6, <2>7, <2>9, <3>1
  <2>11. Entire(tmp[r] \o s)
    BY <1>2, <2>4, EntireConcat
  <2>12. let'[r] = v
    BY <2>5, <2>6, <2>7, <2>8
  <2> QED
    BY <2>5, <2>9, <2>10, <2>11, <2>12 DEF EvenTable
<1>11. \/ UNCHANGED <<tmp, let, del>>
       \/ StartReading(r) \/ LoadMail(r) \/ LoadNewMail(r) \/ TakeNewMail(r)
       \/ InterruptCopy(r) \/ Delete(r) \/ Undelete(r)
  BY ReadingTables
<1>12. Delete(r) \/ Undelete(r) => UNCHANGED <<tmp, let>>
  BY DEF Delete, Undelete
<1>13. InterruptCopy(r) => UNCHANGED <<tmp, let>> \/ CopiesAll(r)
  BY InterruptCopyIs
<1>14. LoadNewMail(r) => UNCHANGED <<tmp, let>> \/ CopiesAll(r)
  <2>1. SUFFICES ASSUME LoadNewMail(r), ~UNCHANGED <<tmp, let>> PROVE CopiesAll(r)
    OBVIOUS
  <2>2. dir["mail"] # NoFile /\ pc'[r] = "reloaded"
    BY <1>1, <2>1 DEF LoadNewMail, Goto, TypeInv, AtTyped
  <2> QED
    BY <2>1, <2>2, LoadsAll
<1> QED
  BY <1>4, <1>5, <1>6, <1>9, <1>10, <1>11, <1>12, <1>13, <1>14

\* What a session that is not killed does to the files.
LEMMA SessionWhole ==
    ASSUME "copystream" \notin Fails, TypeInv, Exclusive, Unspoilt, NEW r \in Reader,
           ReadingStep(r), ~killed'
    PROVE  HalfCopied(r)' /\ \A i \in Ino : AtRest(i)' => Entire(data'[i])
<1>1. /\ data \in [Ino -> Seq(Block)] /\ dir \in [Name -> Ino \cup {NoFile}]
      /\ pc \in [Proc -> DelivererLabel \cup ReaderLabel]
      /\ fd \in [Proc -> Ino \cup {NoFile}] /\ ofd \in [Reader -> Ino \cup {NoFile}]
      /\ at \in [Reader -> Nat] /\ sname \in [Reader -> {"save", "alt"}]
      /\ pc[r] = "append" => fd[r] \in Ino
      /\ pc[r] \in {"append", "copyout"} => ofd[r] \in Ino
      /\ r \in Proc /\ r \notin Deliverer /\ Deliverer \subseteq Proc /\ Reader \subseteq Proc
      /\ \A n, m \in Name : dir[n] = dir[m] /\ dir[n] # NoFile => n = m
      /\ NoFile \notin Ino /\ Name = {"mail", "save", "alt"}
  BY StoreAssumption DEF TypeInv, AtTyped, StoreTyped, ReaderTyped, Name
<1>2. HalfCopied(r) /\ EvenTable(r) /\ \A i \in Ino : AtRest(i) => Entire(data[i])
  BY DEF Unspoilt
<1>3. pc[r] \notin {"append", "copyout"} => \A i : AtRest(i)' => AtRest(i)
  <2>1. \A q \in Proc : q # r => pc'[q] = pc[q] /\ fd'[q] = fd[q] /\ (q \in Reader => ofd'[q] = ofd[q])
    BY SessionBeside
  <2> QED
    BY <1>1, <2>1 DEF AtRest
<1>4. ASSUME pc[r] \in Held, NEW i \in Ino, ~(pc[r] \in {"append", "copyout"} /\ ofd[r] = i)
      PROVE  Entire(data[i]) /\ data[i] \in Seq(Block)
  <2>1. Inside(r)
    BY <1>1, <1>4, WhoIsInside
  <2>2. AtRest(i)
    BY <1>4, <2>1, FilesOfSession
  <2> QED
    BY <1>1, <1>2, <2>2
<1>5. Entire(Kept(r)) /\ Kept(r) \in Seq(Block)
  BY <1>2, KeptEntire DEF EvenTable
<1>6. ASSUME NEW i \in Ino, \A j \in Ino : j # i => data'[j] = data[j] /\ Entire(data[j]),
             Entire(data'[i]) \/ (pc'[r] \in {"append", "copyout"} /\ ofd'[r] = i)
      PROVE  \A j \in Ino : AtRest(j)' => Entire(data'[j])
  BY <1>6 DEF AtRest
<1>10. CASE RestoreByCopy(r)
  <2>1. pc[r] = "restore" /\ at[r] = 0 /\ UNCHANGED <<data, dir>> /\ at' = at
    BY <1>2, <1>10 DEF RestoreByCopy, HalfCopied, files
  <2>2. \A i \in Ino : AtRest(i)' => Entire(data'[i])
    BY <1>2, <1>3, <2>1
  <2>3. CASE pc'[r] = "stat"
    BY <2>2, <2>3 DEF HalfCopied
  <2>4. CASE pc'[r] # "stat"
    <3>1. PICK f \in Ino, o \in Ino : /\ pc'[r] = "append" /\ fd'[r] = f /\ ofd'[r] = o
                                      /\ f = dir["save"] /\ o = dir["mail"]
      BY <1>1, <1>10, <2>4 DEF RestoreByCopy, Goto, Leave
    <3>2. f # o
      BY <1>1, <3>1
    <3>3. Entire(data[o]) /\ data[o] \in Seq(Block) /\ data[f] \in Seq(Block)
      BY <1>1, <1>4, <2>1 DEF Held
    <3>4. data[o] = data[o] \o CutTo(data[f], 0)
      BY <3>3, CutEnds, ConcatEmptySeq
    <3>5. 0 <= Len(data[f])
      BY <3>3, LenProperties
    <3> QED
      BY <2>1, <2>2, <3>1, <3>2, <3>3, <3>4, <3>5 DEF HalfCopied, Size
  <2> QED
    BY <2>3, <2>4
<1>11. CASE AppendSaved(r)
  <2>1. /\ pc[r] = "append" /\ pc'[r] = "append" /\ at[r] < Len(data[fd[r]]) /\ at'[r] = at[r] + 1
        /\ UNCHANGED <<fd, ofd>>
        /\ data' = [data EXCEPT ![ofd[r]] = Append(@, data[fd[r]][at[r] + 1])]
    BY <1>1, <1>11 DEF AppendSaved, Append1, Size
  <2>2. PICK f \in Ino, o \in Ino, n \in Nat : f = fd[r] /\ o = ofd[r] /\ n = at[r]
    BY <1>1, <2>1
  <2>3. PICK b \in Seq(Block) : Entire(b) /\ data[o] = b \o CutTo(data[f], n)
    BY <1>2, <2>1, <2>2 DEF HalfCopied
  <2>4. f # o
    BY <1>2, <2>1, <2>2 DEF HalfCopied
  <2>5. \A j \in Ino : j # o => data'[j] = data[j] /\ Entire(data[j])
    BY <1>1, <1>4, <2>1, <2>2 DEF Held
  <2>6. PICK s \in Seq(Block) : s = data[f] /\ n < Len(s) /\ Len(s) \in Nat
    BY <1>1, <2>1, <2>2, LenProperties
  <2>7. /\ s[n + 1] \in Block /\ CutTo(s, n) \in Seq(Block)
        /\ CutTo(s, n + 1) = Append(CutTo(s, n), s[n + 1])
    BY <2>6, CutNext
  <2>8. b \o Append(CutTo(s, n), s[n + 1]) = Append(b \o CutTo(s, n), s[n + 1])
    BY <2>7, AppendConcat
  <2>9. data'[o] = b \o CutTo(s, n + 1) /\ data'[f] = s
    BY <1>1, <2>1, <2>2, <2>3, <2>4, <2>6, <2>7, <2>8
  <2>10. n + 1 <= Len(s)
    BY <2>6
  <2>11. HalfCopied(r)'
    BY <2>1, <2>2, <2>3, <2>4, <2>9, <2>10 DEF HalfCopied, Size
  <2> QED
    BY <1>6, <2>1, <2>2, <2>5, <2>11
<1>12. CASE AppendedSaved(r)
  <2>1. pc[r] = "append" /\ pc'[r] = "remove" /\ at[r] = Len(data[fd[r]]) /\ UNCHANGED data
    BY <1>1, <1>12 DEF AppendedSaved, Size, Goto, files
  <2>2. PICK f \in Ino, o \in Ino : f = fd[r] /\ o = ofd[r] /\ f # o
    BY <1>1, <1>2, <2>1 DEF HalfCopied
  <2>3. PICK b \in Seq(Block) : Entire(b) /\ data[o] = b \o CutTo(data[f], at[r])
    BY <1>2, <2>1, <2>2 DEF HalfCopied
  <2>4. \A j \in Ino : j # o => data'[j] = data[j] /\ Entire(data[j])
    BY <1>4, <2>1, <2>2 DEF Held
  <2>5. CutTo(data[f], at[r]) = data[f]
    BY <1>1, <2>1, <2>2, CutEnds
  <2>6. Entire(data'[o])
    BY <2>1, <2>2, <2>3, <2>4, <2>5, EntireConcat
  <2> QED
    BY <1>6, <2>1, <2>4, <2>6 DEF HalfCopied
<1>13. CASE OpenSave(r)
  <2>0. PICK n \in {"save"} \cup (IF "fopen" \in Fails THEN {"alt"} ELSE {}) :
          LET i == IF dir[n] = NoFile THEN NewIno ELSE dir[n]
          IN  /\ dir[n] # NoFile \/ Unused # {}
              /\ dir' = [dir EXCEPT ![n] = i]
              /\ data' = [data EXCEPT ![i] = <<>>]
              /\ ofd' = [ofd EXCEPT ![r] = i]
              /\ sname' = [sname EXCEPT ![r] = n]
    BY <1>13 DEF OpenSave
  <2>1. n \in {"save", "alt"}
    OBVIOUS
  <2>2. PICK i \in Ino : /\ dir' = [dir EXCEPT ![n] = i]
                         /\ data' = [data EXCEPT ![i] = <<>>]
                         /\ ofd' = [ofd EXCEPT ![r] = i]
                         /\ sname' = [sname EXCEPT ![r] = n]
    <3>1. n \in Name
      BY <1>1, <2>1
    <3> QED
      BY <1>1, <2>0, <3>1, NewInoFacts
  <2>3. /\ pc[r] = "opensave" /\ pc'[r] = "copyout" /\ at'[r] = 0
        /\ UNCHANGED <<tmp, let, del>>
    BY <1>1, <1>13 DEF OpenSave, Goto
  <2>4. \A j \in Ino : j # i => data'[j] = data[j] /\ Entire(data[j])
    BY <1>1, <1>4, <2>2, <2>3 DEF Held
  <2>5. Entire(data'[i]) /\ data'[i] = <<>>
    BY <1>1, <2>2, EntireNothing
  <2>6. Kept(r)' = Kept(r)
    BY <2>3 DEF Kept, nlet
  <2>7. CutTo(Kept(r), 0) = <<>> /\ 0 <= Len(Kept(r))
    BY <1>5, CutEnds, LenProperties
  <2>8. dir'[sname'[r]] = i /\ ofd'[r] = i
    BY <1>1, <2>1, <2>2
  <2>9. HalfCopied(r)'
    BY <2>3, <2>5, <2>6, <2>7, <2>8 DEF HalfCopied
  <2> QED
    BY <1>6, <2>4, <2>5, <2>9
<1>14. CASE CopyOut(r)
  <2>1. /\ pc[r] = "copyout" /\ pc'[r] = "copyout" /\ at[r] < Len(Kept(r)) /\ at'[r] = at[r] + 1
        /\ UNCHANGED <<ofd, dir, sname, tmp, let, del>>
        /\ data' = [data EXCEPT ![ofd[r]] = Append(@, Kept(r)[at[r] + 1])]
    BY <1>1, <1>14 DEF CopyOut, Append1
  <2>2. PICK o \in Ino, n \in Nat : o = ofd[r] /\ n = at[r]
    BY <1>1, <2>1
  <2>3. dir[sname[r]] = o /\ data[o] = CutTo(Kept(r), n)
    BY <1>2, <2>1, <2>2 DEF HalfCopied
  <2>4. \A j \in Ino : j # o => data'[j] = data[j] /\ Entire(data[j])
    BY <1>1, <1>4, <2>1, <2>2 DEF Held
  <2>5. PICK k \in Seq(Block) : k = Kept(r) /\ n < Len(k) /\ Len(k) \in Nat
    BY <1>5, <2>1, <2>2, LenProperties
  <2>6. CutTo(k, n + 1) = Append(CutTo(k, n), k[n + 1])
    BY <2>5, CutNext
  <2>7. data'[o] = CutTo(k, n + 1)
    BY <1>1, <2>1, <2>2, <2>3, <2>5, <2>6
  <2>8. Kept(r)' = k
    BY <2>1, <2>5 DEF Kept, nlet
  <2>9. n + 1 <= Len(k)
    BY <2>5
  <2>10. HalfCopied(r)'
    BY <2>1, <2>2, <2>3, <2>7, <2>8, <2>9 DEF HalfCopied
  <2> QED
    BY <1>6, <2>1, <2>2, <2>4, <2>10
<1>15. CASE CopyOutFails(r)
  <2>1. PICK m \in 0..at[r] : /\ IsFrom(Kept(r)[m + 1])
                              /\ data' = [data EXCEPT ![ofd[r]] = CutTo(@, m)]
    BY <1>15 DEF CopyOutFails
  <2>2. pc[r] = "copyout" /\ pc'[r] = "done" /\ at[r] < Len(Kept(r))
    BY <1>1, <1>15 DEF CopyOutFails, Goto
  <2>3. PICK o \in Ino, n \in Nat : o = ofd[r] /\ n = at[r] /\ m \in 0..n
    BY <1>1, <2>1, <2>2
  <2>4. PICK k \in Seq(Block) : k = Kept(r) /\ n < Len(k) /\ Len(k) \in Nat /\ Entire(k)
    BY <1>5, <2>2, <2>3, LenProperties
  <2>5. data[o] = CutTo(k, n)
    BY <1>2, <2>2, <2>3, <2>4 DEF HalfCopied
  <2>6. \A j \in Ino : j # o => data'[j] = data[j] /\ Entire(data[j])
    BY <1>1, <1>4, <2>1, <2>2, <2>3 DEF Held
  <2>7. CutTo(CutTo(k, n), m) = CutTo(k, m)
    BY <2>3, <2>4, CutCut
  <2>8. Even(m)
    <3>1. PICK i \in 1..Len(k) : i = m + 1 /\ i - 1 = m
      BY <2>3, <2>4
    <3>2. IsFrom(k[i])
      BY <2>1, <2>4, <3>1
    <3> QED
      BY <2>4, <3>1, <3>2, EntireFromEven
  <2>9. Entire(CutTo(k, m))
    BY <2>3, <2>4, <2>8, EntireCut
  <2>10. Entire(data'[o])
    BY <1>1, <2>1, <2>3, <2>5, <2>7, <2>9
  <2> QED
    BY <1>6, <2>2, <2>6, <2>10 DEF HalfCopied
<1>16. CASE UnlinkMbox(r)
  <2>1. pc[r] = "copyout" /\ at[r] = Len(Kept(r)) /\ UNCHANGED <<data, sname>>
    BY <1>16 DEF UnlinkMbox
  <2>2. PICK o \in Ino : o = ofd[r] /\ dir[sname[r]] = o /\ data[o] = CutTo(Kept(r), at[r])
    BY <1>1, <1>2, <2>1 DEF HalfCopied
  <2>3. data[o] = Kept(r)
    BY <1>5, <2>1, <2>2, CutEnds
  <2>4. \A j \in Ino : j # o => data'[j] = data[j] /\ Entire(data[j])
    BY <1>4, <2>1, <2>2 DEF Held
  <2>5. Entire(data'[o])
    BY <1>5, <2>1, <2>3
  <2>6. /\ pc'[r] \in {"rename", "done"}
        /\ pc'[r] = "rename" => dir' = [dir EXCEPT !["mail"] = NoFile]
    BY <1>1, <1>16 DEF UnlinkMbox, Goto
  <2>7. pc'[r] = "rename" => dir'[sname'[r]] # NoFile
    BY <1>1, <2>1, <2>2, <2>6
  <2> QED
    BY <1>6, <2>4, <2>5, <2>6, <2>7 DEF HalfCopied
<1>17. CASE /\ pc[r] \notin {"append", "copyout"} /\ UNCHANGED data
            /\ pc'[r] \notin {"append", "copyout", "rename"}
            /\ pc'[r] \in {"saved?", "cksave", "restore"} =>
                 at'[r] = 0 \/ (pc[r] \in {"saved?", "cksave", "restore"} /\ UNCHANGED at)
  <2>1. HalfCopied(r)'
    BY <1>2, <1>17 DEF HalfCopied
  <2> QED
    BY <1>2, <1>3, <1>17, <2>1
<1> QED
  BY <1>10, <1>11, <1>12, <1>13, <1>14, <1>15, <1>16, <1>17, SessionGoes

\* The same for everybody.
LEMMA SessionUnspoilt ==
    ASSUME "copystream" \notin Fails, TypeInv, Exclusive, Unspoilt, NEW r \in Reader,
           ReadingStep(r), ~killed', ~cut'
    PROVE  Unspoilt'
<1>1. Deliverer \subseteq Proc /\ Reader \subseteq Proc /\ r \notin Deliverer /\ r \in Proc
  BY StoreAssumption
<1>2. HalfCopied(r)' /\ EvenTable(r)' /\ \A i \in Ino : AtRest(i)' => Entire(data'[i])
  BY SessionWhole, SessionTables
<1>3. ASSUME NEW q \in Proc, q # r PROVE pc[q] \notin Held \cup {"flush"} \/ UNCHANGED <<data, dir>>
  <2>1. CASE Inside(r)
    BY <1>1, <1>3, <2>1, OthersOut
  <2>2. CASE ~Inside(r)
    BY <2>2, ReadingOutside
  <2> QED
    BY <2>1, <2>2
<1>4. ASSUME NEW q \in Proc, q # r
      PROVE  /\ q \in Deliverer /\ Half(q) => Half(q)'
             /\ q \in Reader /\ HalfCopied(q) => HalfCopied(q)'
             /\ q \in Reader /\ EvenTable(q) => EvenTable(q)'
  <2>1. /\ pc'[q] = pc[q] /\ fd'[q] = fd[q] /\ UNCHANGED pos
        /\ q \in Reader => /\ at'[q] = at[q] /\ ofd'[q] = ofd[q] /\ sname'[q] = sname[q]
                           /\ tmp'[q] = tmp[q] /\ let'[q] = let[q] /\ del'[q] = del[q]
    BY <1>4, SessionBeside DEF delivervars
  <2>2. pc[q] \notin Held \cup {"flush"} \/ UNCHANGED <<data, dir>>
    BY <1>3, <1>4
  <2> QED
    BY <2>1, <2>2, Bystanders
<1>5. \A e \in Deliverer : Half(e)'
  BY <1>1, <1>4 DEF Unspoilt
<1>6. \A q \in Reader : HalfCopied(q)' /\ EvenTable(q)'
  BY <1>1, <1>2, <1>4 DEF Unspoilt
<1> QED
  BY <1>2, <1>5, <1>6 DEF Unspoilt

\* The invariant is kept: who enters the mailbox finds nobody in it, and the rest
\* is what a delivery or a session does, or being killed in the middle of a copy.
LEMMA WholeInvStep ==
    ASSUME "copystream" \notin Fails, WholeInv, [MailNext]_vars
    PROVE  WholeInv'
<1>1. TypeInv /\ TypeInv' /\ killed \in BOOLEAN
  BY StepTyped DEF WholeInv, TypeInv, StoreTyped
<1>2. SUFFICES ASSUME ~crowd' PROVE Exclusive' /\ (~killed' /\ ~cut' => Unspoilt')
  BY <1>1 DEF WholeInv, Sound, Orderly
<1>3. ASSUME NEW d \in Deliverer, DeliveryStep(d)
      PROVE  Exclusive' /\ (~killed' /\ ~cut' => Unspoilt')
  <2>1. /\ ~crowd /\ \A q \in Proc \ {d} : Inside(q)' = Inside(q)
        /\ Inside(d)' => Inside(d) \/ \A q \in Proc \ {d} : ~Inside(q)
    BY <1>1, <1>2, <1>3, DeliveryEnters
  <2>2. Exclusive /\ d \in Proc
    BY <2>1, WriterBlocks DEF WholeInv
  <2>3. Exclusive'
    BY <2>1, <2>2, EnterAlone
  <2>4. (~killed' => ~killed) /\ cut' = cut
    BY <1>1, <1>3, DeliveryKills, DeliveryCuts
  <2>5. ASSUME ~killed', ~cut' PROVE Unspoilt'
    <3>1. Unspoilt
      BY <2>1, <2>4, <2>5 DEF WholeInv, Sound, Orderly
    <3> QED
      BY <1>1, <1>3, <2>2, <2>5, <3>1, DeliveryUnspoilt
  <2> QED
    BY <2>3, <2>5
<1>4. ASSUME NEW r \in Reader, ReadingStep(r)
      PROVE  Exclusive' /\ (~killed' /\ ~cut' => Unspoilt')
  <2>1. /\ ~crowd /\ \A q \in Proc \ {r} : Inside(q)' = Inside(q)
        /\ Inside(r)' => Inside(r) \/ \A q \in Proc \ {r} : ~Inside(q)
    BY <1>1, <1>2, <1>4, ReadingEnters
  <2>2. Exclusive /\ r \in Proc
    BY <2>1, StoreAssumption DEF WholeInv
  <2>3. Exclusive'
    BY <2>1, <2>2, EnterAlone
  <2>4. (~killed' => ~killed) /\ (~cut' => ~cut)
    BY <1>1, <1>4, KilledStays, ReadingVarsTyped
  <2>5. ASSUME ~killed', ~cut' PROVE Unspoilt'
    <3>1. Unspoilt
      BY <2>1, <2>4, <2>5 DEF WholeInv, Sound, Orderly
    <3> QED
      BY <1>1, <1>4, <2>2, <2>5, <3>1, SessionUnspoilt
  <2> QED
    BY <2>3, <2>5
<1>5. CASE UNCHANGED <<locked, storevars, delivervars, readervars>>
  <2>1. /\ UNCHANGED <<locked, data, dir, pc, fd, crowd, killed, cut>>
        /\ UNCHANGED <<pos, tmp, let, del, at, ofd, sname>>
    BY <1>5 DEF storevars, delivervars, readervars
  <2>2. Exclusive /\ (~killed /\ ~cut => Unspoilt)
    BY <1>2, <2>1 DEF WholeInv, Sound, Orderly
  <2>3. Exclusive'
    BY <2>1, <2>2 DEF Exclusive, Inside
  <2>4. ASSUME Unspoilt PROVE Unspoilt'
    <3>1. \A q \in Proc : /\ q \in Deliverer /\ Half(q) => Half(q)'
                          /\ q \in Reader /\ HalfCopied(q) => HalfCopied(q)'
                          /\ q \in Reader /\ EvenTable(q) => EvenTable(q)'
      BY <2>1, Bystanders
    <3>2. \A i \in Ino : AtRest(i)' => Entire(data'[i])
      BY <2>1, <2>4 DEF Unspoilt, AtRest
    <3>3. Deliverer \subseteq Proc /\ Reader \subseteq Proc
      BY StoreAssumption
    <3> QED
      BY <2>4, <3>1, <3>2, <3>3 DEF Unspoilt
  <2> QED
    BY <2>1, <2>2, <2>3, <2>4
<1>6. ASSUME NEW p \in Proc, BreakStale(p), UNCHANGED <<delivervars, readervars>>
      PROVE  UNCHANGED <<locked, storevars, delivervars, readervars>>
  BY <1>6 DEF BreakStale, Break
<1>7. CASE UNCHANGED vars
  BY <1>5, <1>7 DEF vars, mboxlock
<1> QED
  BY <1>3, <1>4, <1>5, <1>6, <1>7 DEF MailNext, DeliveryStep, ReadingStep

LEMMA ConcatPair ==
    ASSUME NEW S, NEW s \in Seq(S), NEW a \in S, NEW b \in S
    PROVE  s \o <<a, b>> = Append(Append(s, a), b)
<1>1. PICK e \in Seq(S) : e = <<>>
  BY EmptySeq
<1>2. PICK u \in Seq(S) : u = Append(e, a)
  BY AppendFacts
<1>3. s \o Append(u, b) = Append(s \o u, b)
  BY AppendConcat
<1>4. s \o u = Append(s, a)
  BY <1>1, <1>2, AppendConcat, ConcatEmptySeq
<1>5. Append(u, b) = <<a, b>>
  <2>1. u = <<a>> /\ Len(u) = 1 /\ u[1] = a
    BY <1>1, <1>2
  <2>2. PICK v : v = Append(u, b)
    OBVIOUS
  <2>3. v \in Seq(S) /\ Len(v) = 2 /\ v[2] = b /\ v[1] = a
    BY <2>1, <2>2, AppendFacts
  <2>4. PICK w : w = <<a, b>>
    OBVIOUS
  <2>5. w \in Seq(S) /\ Len(w) = 2 /\ w[2] = b /\ w[1] = a
    BY <2>4
  <2>6. \A i \in 1..Len(v) : v[i] = w[i]
    BY <2>3, <2>5
  <2> QED
    BY <2>2, <2>3, <2>4, <2>5, <2>6, SeqEqual
<1> QED
  BY <1>3, <1>4, <1>5

\* The mailbox there is at the start.
LEMMA StartSpelled ==
    ASSUME NEW o \in Seq(Letter), NEW n \in Nat, n = Len(o)
    PROVE  Spells(FlattenSeq([k \in 1..n |-> <<From(o[k]), Rest(o[k])>>]), o)
<1>1. PICK s : s = [k \in 1..n |-> <<From(o[k]), Rest(o[k])>>]
  OBVIOUS
<1>2. \A k \in 1..n : o[k] \in Letter
  BY ElementOfSeq
<1>3. ASSUME NEW l \in Letter
      PROVE  From(l) \in Block /\ Rest(l) \in Block /\ <<From(l), Rest(l)>> \in Seq(Block)
  <2>1. PICK a \in Block, b \in Block : a = From(l) /\ b = Rest(l)
    BY DEF Block, From, Rest
  <2>2. <<a, b>> \in Seq(Block)
    OBVIOUS
  <2> QED
    BY <2>1, <2>2
<1>4. s \in Seq(Seq(Block)) /\ Len(s) = n
  <2>1. s \in [1..n -> Seq(Block)]
    BY <1>1, <1>2, <1>3
  <2> QED
    BY <2>1, SeqDef, LenProperties
<1>5. PICK g \in [0..n -> Seq(Block)] : /\ g[0] = <<>> /\ FlattenSeq(s) = g[n]
                                        /\ \A k \in 1..n : g[k] = g[k - 1] \o s[k]
  <2>1. PICK q \in Seq(Seq(Block)) : q = s /\ Len(q) = n
    BY <1>4
  <2>2. \E g \in [0..Len(q) -> Seq(Block)] :
           /\ g[0] = <<>> /\ FlattenSeq(q) = g[Len(q)]
           /\ \A k \in 1..Len(q) : g[k] = g[k - 1] \o q[k]
    BY FlattenParts
  <2> QED
    BY <2>1, <2>2
<1> DEFINE P == {k \in Nat : k <= n => Spells(g[k], CutTo(o, k))}
<1>6. 0 \in P
  BY <1>5, SpellsNothing, CutEnds
<1>7. ASSUME NEW k \in Nat, k \in P PROVE k + 1 \in P
  <2>1. CASE k + 1 <= n
    <3>1. PICK j \in 1..n : j = k + 1 /\ j - 1 = k /\ k < Len(o) /\ k \in 0..n
      BY <2>1
    <3>2. Spells(g[k], CutTo(o, k))
      BY <1>7, <2>1
    <3>3. PICK l \in Letter : l = o[j]
      BY <1>2
    <3>4. CutTo(o, k + 1) = Append(CutTo(o, k), o[k + 1])
      BY <3>1, CutNext
    <3>5. g[j] = g[k] \o <<From(l), Rest(l)>>
      BY <1>1, <1>5, <3>1, <3>3
    <3>6. g[k] \in Seq(Block)
      BY <1>5, <3>1
    <3>7. g[j] = Append(Append(g[k], From(l)), Rest(l))
      BY <1>3, <3>5, <3>6, ConcatPair
    <3>8. Spells(g[j], CutTo(o, k + 1))
      BY <3>1, <3>2, <3>3, <3>4, <3>7, SpellsAppend
    <3> QED
      BY <3>1, <3>8
  <2>2. CASE ~(k + 1 <= n)
    BY <2>2
  <2> QED
    BY <2>1, <2>2
<1>8. Nat \subseteq P
  <2> HIDE DEF P
  <2> QED
    BY <1>6, <1>7, SetInduction
<1>9. Spells(g[n], CutTo(o, n))
  BY <1>8
<1> QED
  BY <1>1, <1>5, <1>9, CutEnds

LEMMA FilesAtStart ==
    ASSUME MailInit
    PROVE  /\ \A i \in Ino : Entire(data[i])
           /\ Spells(data[1], OldMail)
<1>1. PICK o : o = OldMail
  OBVIOUS
<1>2. o \in Seq(Letter)
  BY <1>1, StartFacts DEF MailInit
<1>3. PICK n \in Nat : n = Len(o)
  BY <1>2, LenProperties
<1>4. PICK s : s = [k \in 1..n |-> <<From(o[k]), Rest(o[k])>>]
  OBVIOUS
<1>5. data = [i \in Ino |-> IF i = 1 THEN FlattenSeq(s) ELSE <<>>]
  BY <1>1, <1>3, <1>4 DEF MailInit, StoreInit
<1>6. Spells(FlattenSeq(s), o)
  BY <1>2, <1>3, <1>4, StartSpelled
<1>7. Spells(data[1], o)
  BY <1>5, <1>6, StoreAssumption
<1>8. \A i \in Ino : Entire(data[i])
  BY <1>5, <1>6, SpellsEntire, EntireNothing
<1> QED
  BY <1>1, <1>7, <1>8

LEMMA WholeInvAtStart ==
    ASSUME MailInit
    PROVE  WholeInv
<1>1. TypeInv
  BY TypedAtStart
<1>2. \A p \in Proc : ~locked[p] /\ pc[p] = "idle"
  BY DEF MailInit, MboxLockInit, StoreInit
<1>3. Exclusive
  BY <1>2 DEF Exclusive, Inside
<1>4. \A i \in Ino : Entire(data[i])
  BY FilesAtStart
<1>5. Deliverer \subseteq Proc /\ Reader \subseteq Proc
  BY StoreAssumption
<1>6. \A d \in Deliverer : Half(d)
  BY <1>2, <1>5 DEF Half
<1>7. \A r \in Reader : HalfCopied(r)
  BY <1>2, <1>5 DEF HalfCopied
<1>8. \A r \in Reader : tmp[r] = <<>> /\ let[r] = <<0>>
  BY DEF MailInit, ReaderInit
<1>9. \A r \in Reader : EvenTable(r)
  BY <1>8, EntireNothing, EvenZero DEF EvenTable
<1> QED
  BY <1>1, <1>3, <1>4, <1>6, <1>7, <1>9 DEF WholeInv, Unspoilt

\* What is in the mailbox when everybody in it writes whole letters.
LEMMA WhatIsCurrent ==
    ASSUME TypeInv, Exclusive, Unspoilt
    PROVE  \/ Entire(Current)
           \/ /\ \E p \in Proc : locked[p] /\ pc[p] \in {"rest", "append"}
              /\ \E b \in Seq(Block), l \in Letter : Entire(b) /\ Current = Append(b, From(l))
<1>1. /\ data \in [Ino -> Seq(Block)] /\ dir \in [Name -> Ino \cup {NoFile}]
      /\ \A n, m \in Name : dir[n] = dir[m] /\ dir[n] # NoFile => n = m
      /\ sname \in [Reader -> {"save", "alt"}] /\ at \in [Reader -> Nat]
      /\ NoFile \notin Ino /\ Name = {"mail", "save", "alt"}
      /\ Deliverer \subseteq Proc /\ Reader \subseteq Proc /\ Reader \cap Deliverer = {}
      /\ \A r \in Reader : pc[r] = "append" => fd[r] \in Ino /\ ofd[r] \in Ino
      /\ \A p \in Proc : pc[p] \in Held => locked[p]
      /\ \A i \in Ino : AtRest(i) => Entire(data[i])
  BY StoreAssumption DEF TypeInv, AtTyped, StoreTyped, ReaderTyped, Name, Unspoilt
<1>2. CASE dir["mail"] # NoFile
  <2>1. PICK i \in Ino : i = dir["mail"] /\ Current = data[i]
    BY <1>1, <1>2 DEF Current
  <2>2. CASE AtRest(i)
    BY <1>1, <2>1, <2>2
  <2>3. ASSUME NEW d \in Deliverer, pc[d] = "rest", fd[d] = i
        PROVE  \E b \in Seq(Block), l \in Letter : Entire(b) /\ Current = Append(b, From(l))
    <3>1. Half(d)
      BY DEF Unspoilt
    <3> QED
      BY <2>1, <2>3, <3>1, WriterBlocks DEF Half
  <2>4. ASSUME NEW r \in Reader, pc[r] = "append", ofd[r] = i
        PROVE  \/ Entire(Current)
               \/ \E b \in Seq(Block), l \in Letter : Entire(b) /\ Current = Append(b, From(l))
    <3>1. HalfCopied(r)
      BY DEF Unspoilt
    <3>2. PICK f \in Ino, n \in Nat : f = fd[r] /\ n = at[r] /\ f # i /\ n <= Len(data[f])
      BY <1>1, <2>4, <3>1 DEF HalfCopied, Size
    <3>3. PICK b \in Seq(Block) : Entire(b) /\ data[i] = b \o CutTo(data[f], n)
      BY <2>4, <3>1, <3>2 DEF HalfCopied
    <3>4. Entire(data[f])
      <4>1. Inside(r)
        BY <1>1, <2>4, WhoIsInside DEF Held
      <4>2. AtRest(f)
        BY <2>4, <3>2, <4>1, FilesOfSession
      <4> QED
        BY <1>1, <4>2
    <3>5. CASE Entire(CutTo(data[f], n))
      BY <2>1, <3>3, <3>5, EntireConcat
    <3>6. CASE ~Entire(CutTo(data[f], n))
      <4>1. PICK k \in 0..n, l \in Letter :
               /\ n = k + 1 /\ Even(k) /\ Entire(CutTo(data[f], k))
               /\ CutTo(data[f], n) = Append(CutTo(data[f], k), From(l))
        BY <3>2, <3>4, <3>6, CutHalf
      <4>2. PICK c \in Seq(Block) : c = CutTo(data[f], k) /\ Entire(c)
        BY <4>1, EntireTyped
      <4>3. From(l) \in Block
        BY DEF From, Block
      <4>4. b \o Append(c, From(l)) = Append(b \o c, From(l))
        BY <4>3, AppendConcat
      <4>5. Entire(b \o c) /\ b \o c \in Seq(Block)
        BY <3>3, <4>2, EntireConcat
      <4>6. Current = Append(b \o c, From(l))
        BY <2>1, <3>3, <4>1, <4>2, <4>4
      <4> QED
        BY <4>5, <4>6
    <3> QED
      BY <3>5, <3>6
  <2>5. ASSUME NEW r \in Reader, pc[r] = "copyout", ofd[r] = i PROVE FALSE
    <3>1. dir[sname[r]] = i
      BY <2>5 DEF Unspoilt, HalfCopied
    <3> QED
      BY <1>1, <1>2, <2>1, <3>1
  <2>6. CASE ~AtRest(i)
    <3>1. CASE \E d \in Deliverer : pc[d] = "rest" /\ fd[d] = i
      <4>1. PICK d \in Deliverer : pc[d] = "rest" /\ fd[d] = i
        BY <3>1
      <4>2. locked[d] /\ d \in Proc
        BY <1>1, <4>1 DEF Held
      <4> QED
        BY <2>3, <4>1, <4>2
    <3>2. CASE \E r \in Reader : pc[r] = "append" /\ ofd[r] = i
      <4>1. PICK r \in Reader : pc[r] = "append" /\ ofd[r] = i
        BY <3>2
      <4>2. locked[r] /\ r \in Proc
        BY <1>1, <4>1 DEF Held
      <4> QED
        BY <2>4, <4>1, <4>2
    <3> QED
      BY <2>5, <2>6, <3>1, <3>2 DEF AtRest
  <2> QED
    BY <2>2, <2>6
<1>3. CASE dir["mail"] = NoFile /\ \E r \in Reader : pc[r] = "rename"
  <2>1. PICK r : r = CHOOSE q \in Reader : pc[q] = "rename"
    OBVIOUS
  <2>2. r \in Reader /\ pc[r] = "rename"
    BY <1>3, <2>1
  <2>3. Current = data[dir[sname[r]]]
    BY <1>3, <2>1 DEF Current
  <2>4. dir[sname[r]] \in Ino
    <3>1. dir[sname[r]] # NoFile
      BY <2>2 DEF Unspoilt, HalfCopied
    <3> QED
      BY <1>1, <2>2, <3>1
  <2>5. Inside(r)
    BY <1>1, <2>2, WhoIsInside DEF Held
  <2>6. AtRest(dir[sname[r]])
    BY <2>2, <2>5, FilesOfSession
  <2> QED
    BY <1>1, <2>3, <2>4, <2>6
<1>4. CASE dir["mail"] = NoFile /\ ~\E r \in Reader : pc[r] = "rename"
  <2>1. Current = <<>>
    BY <1>4 DEF Current
  <2> QED
    BY <2>1, EntireNothing
<1> QED
  BY <1>2, <1>3, <1>4

\* Nothing but whole letters is in the mailbox, but for the one that is being written
\* or copied back, of which the From line may be there: a delivery that cannot write the
\* rest cuts it off again before it unlocks, copyback() puts whole letters together, since
\* the table divides the temporary file between letters, and cksaved() copies whole ones.
\* Sound says that nobody was killed in the middle of a copy and that nobody was in the
\* mailbox beside another.  What is assumed of calls is that copystream() does not fail:
\* cksaved() would not notice, and leaves half a letter behind in the mailbox.
THEOREM NothingTorn ==
    ASSUME "copystream" \notin Fails
    PROVE  MailSpec => []NoTornLetters
<1>1. WholeInv => NoTornLetters
  <2> SUFFICES ASSUME WholeInv, Sound PROVE NoTornLetters
    BY DEF NoTornLetters
  <2>1. TypeInv /\ Exclusive /\ Unspoilt
    BY DEF WholeInv, Sound, Orderly
  <2>2. CASE Entire(Current)
    BY <2>2, EntireLength DEF NoTornLetters
  <2>3. CASE /\ \E p \in Proc : locked[p] /\ pc[p] \in {"rest", "append"}
             /\ \E b \in Seq(Block), l \in Letter : Entire(b) /\ Current = Append(b, From(l))
    <3>1. PICK b \in Seq(Block), l \in Letter : Entire(b) /\ Current = Append(b, From(l))
      BY <2>3
    <3>2. Letters(Current) = Letters(b) /\ Len(Current) = 2 * Len(Letters(b)) + 1
      BY <3>1, SpellsHalf DEF Entire
    <3> QED
      BY <2>3, <3>2 DEF NoTornLetters
  <2> QED
    BY <2>1, <2>2, <2>3, WhatIsCurrent
<1>2. MailInit => WholeInv
  BY WholeInvAtStart
<1>3. WholeInv /\ [MailNext]_vars => WholeInv'
  BY WholeInvStep
<1> QED
  BY <1>1, <1>2, <1>3, PTL DEF MailSpec

-----------------------------------------------------------------------------
(* The mailbox as Mailbox says *)

\* The letters x are those of the first m of w that are not in B, in their order.
Chosen(x, w, m, B) ==
    \E from \in [1..Len(x) -> 1..m] :
        /\ \A i, j \in 1..Len(x) : i < j => from[i] < from[j]
        /\ \A i \in 1..Len(x) : x[i] = w[from[i]]
        /\ {from[i] : i \in 1..Len(x)} = (1..m) \ B

LEMMA ChosenBy ==
    ASSUME NEW x, NEW w, NEW m, NEW B, NEW k, k = Len(x), NEW f \in [1..k -> 1..m],
           \A i, j \in 1..k : i < j => f[i] < f[j],
           \A i \in 1..k : x[i] = w[f[i]],
           {f[i] : i \in 1..k} = (1..m) \ B
    PROVE  Chosen(x, w, m, B)
  BY DEF Chosen

\* What Chosen is of nothing, of a stretch that is left out, and of one that is taken
\* as a whole.
LEMMA ChosenNone ==
    ASSUME NEW w, NEW B
    PROVE  Chosen(<<>>, w, 0, B)
<1>1. PICK e : e = <<>>
  OBVIOUS
<1>2. Len(e) = 0 /\ 1..Len(e) = {}
  BY <1>1
<1>3. PICK f : f = [i \in {} |-> i]
  OBVIOUS
<1>4. f \in [{} -> 1..0] /\ {f[i] : i \in {}} = (1..0) \ B
  BY <1>3
<1> QED
  BY <1>1, <1>2, <1>4 DEF Chosen

LEMMA ChosenMore ==
    ASSUME NEW w, NEW x, NEW m \in Nat, NEW n \in Nat, m <= n, NEW B, Chosen(x, w, m, B),
           m + 1..n \subseteq B
    PROVE  Chosen(x, w, n, B)
<1>1. PICK f \in [1..Len(x) -> 1..m] :
        /\ \A i, j \in 1..Len(x) : i < j => f[i] < f[j]
        /\ \A i \in 1..Len(x) : x[i] = w[f[i]]
        /\ {f[i] : i \in 1..Len(x)} = (1..m) \ B
  BY DEF Chosen
<1>2. 1..m \subseteq 1..n /\ (1..n) \ B = (1..m) \ B
  <2>1. \A k \in 1..n : k \in 1..m \/ k \in m + 1..n
    OBVIOUS
  <2> QED
    BY <2>1
<1>3. f \in [1..Len(x) -> 1..n]
  BY <1>1, <1>2
<1> QED
  BY <1>1, <1>2, <1>3 DEF Chosen

LEMMA ChosenPart ==
    ASSUME NEW S, NEW w \in Seq(S), NEW x \in Seq(S), NEW m \in Nat, NEW n \in Nat,
           m <= n, n <= Len(w), NEW B, Chosen(x, w, m, B), (m + 1..n) \cap B = {}
    PROVE  Chosen(x \o SubSeq(w, m + 1, n), w, n, B)
<1>1. PICK l \in Nat, h \in Nat, c \in Nat : l = Len(x) /\ h = Len(w) /\ c = n - m
  BY LenProperties
<1>2. PICK y : y = SubSeq(w, m + 1, n)
  OBVIOUS
<1>3. y \in Seq(S) /\ Len(y) = c /\ \A i \in 1..c : y[i] = w[m + i]
  <2>1. CASE m = n
    <3>1. n < m + 1 /\ c = 0
      BY <1>1, <2>1
    <3>2. y = <<>>
      BY <1>2, <3>1, SubSeqEmpty
    <3>3. y \in Seq(S) /\ Len(y) = 0
      BY <3>2, EmptySeq
    <3> QED
      BY <3>1, <3>3
  <2>2. CASE m # n
    <3>1. m + 1 <= n /\ n - (m + 1) + 1 = c
      BY <1>1, <2>2
    <3>2. ASSUME NEW i \in m + 1..n PROVE w[i] \in S
      <4>1. i \in 1..h
        BY <1>1
      <4> QED
        BY <1>1, <4>1, ElementOfSeq
    <3>3. y \in Seq(S) /\ Len(y) = c /\ \A i \in 1..c : y[i] = w[m + 1 + i - 1]
      BY <1>2, <3>1, <3>2, SubSeqProperties
    <3>4. \A i \in 1..c : m + 1 + i - 1 = m + i
      OBVIOUS
    <3> QED
      BY <3>3, <3>4
  <2> QED
    BY <2>1, <2>2
<1>4. PICK f \in [1..l -> 1..m] :
        /\ \A i, j \in 1..l : i < j => f[i] < f[j]
        /\ \A i \in 1..l : x[i] = w[f[i]]
        /\ {f[i] : i \in 1..l} = (1..m) \ B
  BY <1>1 DEF Chosen
<1>5. PICK z : z = x \o y
  OBVIOUS
<1>6. Len(z) = l + c /\ \A i \in 1..l + c : z[i] = IF i <= l THEN x[i] ELSE y[i - l]
  <2>1. PICK p \in Seq(S), q \in Seq(S) : p = x /\ q = y /\ Len(p) = l /\ Len(q) = c
    BY <1>1, <1>3
  <2>2. z = p \o q
    BY <1>5, <2>1
  <2>3. /\ Len(z) = Len(p) + Len(q)
        /\ \A i \in 1..Len(p) + Len(q) : z[i] = IF i <= Len(p) THEN p[i] ELSE q[i - Len(p)]
    BY <2>2, ConcatProperties
  <2> QED
    BY <2>1, <2>3
<1>7. PICK g : g = [i \in 1..l + c |-> IF i <= l THEN f[i] ELSE m + (i - l)]
  OBVIOUS
<1>8. ASSUME NEW i \in 1..l + c PROVE g[i] \in 1..n /\ z[i] = w[g[i]]
  <2>1. CASE i <= l
    <3>1. i \in 1..l /\ g[i] = f[i]
      BY <1>7, <2>1
    <3>2. f[i] \in 1..n
      BY <3>1
    <3>3. z[i] = x[i] /\ x[i] = w[f[i]]
      BY <1>4, <1>6, <2>1, <3>1
    <3> QED
      BY <3>1, <3>2, <3>3
  <2>2. CASE ~(i <= l)
    <3>1. PICK j \in 1..c : j = i - l /\ g[i] = m + j
      BY <1>7, <2>2
    <3>2. m + j \in 1..n
      BY <1>1
    <3> QED
      BY <1>3, <1>6, <2>2, <3>1, <3>2
  <2> QED
    BY <2>1, <2>2
<1>9. ASSUME NEW i \in 1..l + c, NEW j \in 1..l + c, i < j PROVE g[i] < g[j]
  <2>1. CASE j <= l
    <3>1. i \in 1..l /\ j \in 1..l /\ i <= l
      BY <1>9, <2>1
    <3> QED
      BY <1>4, <1>7, <1>9, <2>1, <3>1
  <2>2. CASE ~(j <= l) /\ i <= l
    <3>1. i \in 1..l
      BY <2>2
    <3>2. f[i] \in 1..m /\ g[i] = f[i] /\ g[j] = m + (j - l)
      BY <1>7, <2>2, <3>1
    <3>3. j - l \in Nat /\ j - l > 0
      BY <2>2
    <3> QED
      BY <3>2, <3>3
  <2>3. CASE ~(j <= l) /\ ~(i <= l)
    <3>1. g[i] = m + (i - l) /\ g[j] = m + (j - l)
      BY <1>7, <2>3
    <3> QED
      BY <1>9, <3>1
  <2> QED
    BY <2>1, <2>2, <2>3
<1>10. g \in [1..l + c -> 1..n]
  BY <1>7, <1>8
<1>12. {g[i] : i \in 1..l + c} = (1..n) \ B
  <2>1. ASSUME NEW i \in 1..l + c PROVE g[i] \notin B
    <3>1. CASE i <= l
      <4>1. i \in 1..l /\ g[i] = f[i]
        BY <1>7, <3>1
      <4> QED
        BY <1>4, <4>1
    <3>2. CASE ~(i <= l)
      <4>1. PICK j \in 1..c : j = i - l /\ g[i] = m + j
        BY <1>7, <3>2
      <4>2. m + j \in m + 1..n
        BY <1>1
      <4> QED
        BY <4>1, <4>2
    <3> QED
      BY <3>1, <3>2
  <2>2. ASSUME NEW k \in (1..n) \ B PROVE \E i \in 1..l + c : g[i] = k
    <3>1. CASE k <= m
      <4>1. k \in (1..m) \ B
        BY <3>1
      <4>2. PICK i \in 1..l : f[i] = k
        BY <1>4, <4>1
      <4>3. i \in 1..l + c /\ i <= l
        BY <1>1
      <4> QED
        BY <1>7, <4>2, <4>3
    <3>2. CASE ~(k <= m)
      <4>1. k \in Nat /\ k <= n /\ l \in Nat /\ m \in Nat /\ n \in Nat /\ c = n - m
        BY <1>1
      <4>2. /\ l + (k - m) \in 1..l + c
            /\ ~(l + (k - m) <= l) /\ m + (l + (k - m) - l) = k
        BY ONLY <3>2, <4>1
      <4>3. PICK i : i = l + (k - m)
        OBVIOUS
      <4>4. i \in 1..l + c /\ ~(i <= l) /\ m + (i - l) = k
        BY ONLY <4>2, <4>3
      <4>5. g[i] = m + (i - l)
        BY ONLY <1>7, <4>4
      <4> QED
        BY <4>4, <4>5
    <3> QED
      BY <3>1, <3>2
  <2> QED
    BY <1>8, <2>1, <2>2
<1>11. Chosen(z, w, n, B)
  <2>1. PICK k : k = Len(z) /\ k = l + c
    BY <1>6
  <2>2. g \in [1..k -> 1..n] /\ {g[i] : i \in 1..k} = (1..n) \ B
    BY <1>10, <1>12, <2>1
  <2>3. /\ \A i, j \in 1..k : i < j => g[i] < g[j]
        /\ \A i \in 1..k : z[i] = w[g[i]]
    BY <1>8, <1>9, <2>1
  <2> QED
    BY <2>1, <2>2, <2>3, ChosenBy
<1> QED
  BY <1>2, <1>5, <1>11

\* The letters in the entries that are marked.
BinOf(r) ==
    {k \in 1..Len(tmp[r]) : \E i \in del[r] : let[r][i] < 2 * k /\ 2 * k <= let[r][i + 1]}

\* The table begins and ends where the temporary file does.
Covers(r) == let[r][1] = 0 /\ End(r) = Len(tmp[r])

\* The letters that copyback() keeps are those that were read and are not marked, in
\* their order.
LEMMA KeptChosen ==
    ASSUME TypeInv, NEW r \in Reader, Entire(tmp[r]), Ordered(let[r]),
           \A k \in 1..Len(let[r]) : Even(let[r][k]),
           Covers(r)
    PROVE  Chosen(Letters(Kept(r)), Letters(tmp[r]), Len(Letters(tmp[r])), BinOf(r))
<1>1. PICK t, l, n : t = tmp[r] /\ l = let[r] /\ n = nlet(r)
  OBVIOUS
<1>2. /\ t \in Seq(Block) /\ l \in Seq(Nat) /\ l # <<>> /\ Entire(t) /\ Ordered(l)
      /\ \A i \in 1..Len(l) : l[i] <= Len(t) /\ Even(l[i])
  BY <1>1 DEF TypeInv, TablesTyped, TableOK
<1>3. n \in Nat /\ Len(l) = n + 1 /\ Len(t) \in Nat
  BY <1>1, <1>2, LenProperties, EmptySeq DEF nlet
<1>4. PICK w : w = Letters(t)
  OBVIOUS
<1>5. PICK m \in Nat : Spells(t, w) /\ w \in Seq(Letter) /\ m = Len(w) /\ Len(t) = 2 * m
  BY <1>2, <1>4, EntireTyped, LenProperties DEF Entire
<1>6. ASSUME NEW i \in 1..n + 1 PROVE \E b \in 0..m : l[i] = 2 * b
  <2>1. l[i] \in Nat /\ l[i] <= 2 * m /\ Even(l[i])
    BY <1>2, <1>3, <1>5, ElementOfSeq
  <2>2. PICK b \in 0..l[i] : l[i] = 2 * b
    BY <2>1 DEF Even
  <2>3. b \in 0..m
    BY <2>1, <2>2
  <2> QED
    BY <2>2, <2>3
<1>7. PICK a : a = [i \in 1..n + 1 |-> CHOOSE b \in 0..m : l[i] = 2 * b]
  OBVIOUS
<1>8. \A i \in 1..n + 1 : a[i] \in 0..m /\ l[i] = 2 * a[i]
  BY <1>6, <1>7
<1>9. ASSUME NEW i \in 1..n PROVE a[i] \in 0..m /\ a[i + 1] \in 0..m /\ a[i] <= a[i + 1]
                                  /\ l[i] = 2 * a[i] /\ l[i + 1] = 2 * a[i + 1]
  <2>1. i \in 1..n + 1 /\ i + 1 \in 1..n + 1 /\ i <= i + 1
    BY <1>3
  <2>2. a[i] \in 0..m /\ a[i + 1] \in 0..m /\ l[i] = 2 * a[i] /\ l[i + 1] = 2 * a[i + 1]
    BY <1>8, <2>1
  <2>3. l[i] <= l[i + 1]
    BY <1>2, <1>3, <2>1 DEF Ordered, RisesTo
  <2>4. a[i] <= a[i + 1]
    BY <2>2, <2>3
  <2> QED
    BY <2>2, <2>4
<1>10. PICK D : D = del[r] /\ D \subseteq 1..n
  BY <1>1, <1>3 DEF TypeInv, TablesTyped, TableOK
<1>25. a[1] = 0 /\ a[n + 1] = m
  <2>1. 1 \in 1..n + 1 /\ n + 1 \in 1..n + 1
    BY <1>3
  <2>2. l[1] = 0 /\ l[n + 1] = 2 * m
    BY <1>1, <1>3, <1>5 DEF Covers, End
  <2>3. a[1] \in 0..m /\ l[1] = 2 * a[1] /\ a[n + 1] \in 0..m /\ l[n + 1] = 2 * a[n + 1]
    BY <1>8, <2>1
  <2> QED
    BY <2>2, <2>3
<1>26. PICK B : B = BinOf(r)
  OBVIOUS
<1>27. ASSUME NEW k \in 1..m
       PROVE  k \in B <=> \E i \in D : a[i] < k /\ k <= a[i + 1]
  <2>1. k \in 1..Len(t)
    BY <1>5
  <2>2. k \in B <=> \E i \in D : l[i] < 2 * k /\ 2 * k <= l[i + 1]
    BY <1>1, <1>10, <1>26, <2>1 DEF BinOf
  <2>3. ASSUME NEW i \in D
        PROVE  (l[i] < 2 * k /\ 2 * k <= l[i + 1]) <=> (a[i] < k /\ k <= a[i + 1])
    <3>1. i \in 1..n
      BY <1>10
    <3>2. PICK b \in Nat, c \in Nat : b = a[i] /\ c = a[i + 1] /\ l[i] = 2 * b /\ l[i + 1] = 2 * c
      BY <1>9, <3>1
    <3>3. (2 * b < 2 * k <=> b < k) /\ (2 * k <= 2 * c <=> k <= c)
      OBVIOUS
    <3> QED
      BY <3>2, <3>3
  <2> QED
    BY <2>2, <2>3
<1>28. ASSUME NEW i \in 1..n, NEW j \in 1..n, i < j PROVE a[i + 1] <= a[j]
  <2>1. i + 1 \in 1..n + 1 /\ j \in 1..n + 1 /\ i + 1 <= j
    BY <1>3, <1>28
  <2>2. l[i + 1] <= l[j]
    BY <1>2, <1>3, <2>1 DEF Ordered, RisesTo
  <2>3. /\ a[i + 1] \in 0..m /\ l[i + 1] = 2 * a[i + 1]
        /\ a[j] \in 0..m /\ l[j] = 2 * a[j]
    BY <1>8, <2>1
  <2> QED
    BY <2>2, <2>3
\* An entry that is marked is in the bin as a whole, of another there is nothing in it.
<1>29. ASSUME NEW j \in 1..n
       PROVE  IF j \in D THEN a[j] + 1..a[j + 1] \subseteq B
              ELSE (a[j] + 1..a[j + 1]) \cap B = {}
  <2>1. PICK b \in Nat, c \in Nat : b = a[j] /\ c = a[j + 1] /\ b <= c /\ c <= m
    BY <1>5, <1>9
  <2>2. ASSUME NEW k \in b + 1..c, j \in D PROVE k \in B
    <3>1. k \in 1..m /\ b < k /\ k <= c
      BY <2>1
    <3> QED
      BY <1>27, <2>1, <2>2, <3>1
  <2>3. ASSUME NEW k \in b + 1..c, j \notin D, k \in B PROVE FALSE
    <3>1. k \in 1..m /\ b < k /\ k <= c
      BY <2>1
    <3>2. PICK i \in D : a[i] < k /\ k <= a[i + 1]
      BY <1>27, <2>3, <3>1
    <3>3. i \in 1..n /\ i # j
      BY <1>10, <2>3
    <3>4. a[i] \in Nat /\ a[i + 1] \in Nat
      BY <1>9, <3>3
    <3>5. CASE i < j
      <4>1. a[i + 1] <= b
        BY <1>28, <2>1, <3>3, <3>5
      <4> QED
        BY <3>1, <3>2, <3>4, <4>1
    <3>6. CASE j < i
      <4>1. c <= a[i]
        BY <1>28, <2>1, <3>3, <3>6
      <4> QED
        BY <3>1, <3>2, <3>4, <4>1
    <3> QED
      BY <3>3, <3>5, <3>6
  <2> QED
    BY <2>1, <2>2, <2>3
<1>11. PICK s : s = [i \in 1..n |-> IF i \in D THEN <<>> ELSE SubSeq(t, l[i] + 1, l[i + 1])]
  OBVIOUS
<1>12. Kept(r) = FlattenSeq(s)
  BY <1>1, <1>10, <1>11 DEF Kept
\* The letters of each piece.
<1>13. ASSUME NEW i \in 1..n
       PROVE  IF i \in D THEN s[i] = <<>>
              ELSE Spells(s[i], SubSeq(w, a[i] + 1, a[i + 1]))
  <2>1. s[i] = IF i \in D THEN <<>> ELSE SubSeq(t, l[i] + 1, l[i + 1])
    BY <1>11
  <2>2. PICK b \in Nat, c \in Nat : b = a[i] /\ c = a[i + 1] /\ c <= Len(w)
                                    /\ l[i] = 2 * b /\ l[i + 1] = 2 * c
    BY <1>5, <1>9
  <2>3. Spells(SubSeq(t, 2 * b + 1, 2 * c), SubSeq(w, b + 1, c))
    BY <1>5, <2>2, SpellsPart
  <2> QED
    BY <2>1, <2>2, <2>3
<1>14. s \in Seq(Seq(Block)) /\ Len(s) = n
  <2>1. ASSUME NEW i \in 1..n PROVE s[i] \in Seq(Block)
    <3>1. <<>> \in Seq(Block)
      BY EmptySeq
    <3> QED
      BY <1>13, <3>1 DEF Spells
  <2>2. s \in [1..n -> Seq(Block)]
    BY <1>11, <2>1
  <2> QED
    BY <1>3, <2>2, SeqDef, LenProperties
<1>15. PICK g \in [0..n -> Seq(Block)] : /\ g[0] = <<>> /\ FlattenSeq(s) = g[n]
                                         /\ \A k \in 1..n : g[k] = g[k - 1] \o s[k]
  <2>1. PICK q \in Seq(Seq(Block)) : q = s /\ Len(q) = n
    BY <1>14
  <2>2. \E g \in [0..Len(q) -> Seq(Block)] : /\ g[0] = <<>> /\ FlattenSeq(q) = g[Len(q)]
                                            /\ \A k \in 1..Len(q) : g[k] = g[k - 1] \o q[k]
    BY FlattenParts
  <2> QED
    BY <2>1, <2>2
<1> DEFINE Good(k) == \E x \in Seq(Letter) : Spells(g[k], x) /\ Chosen(x, w, a[k + 1], B)
           P == {k \in Nat : k <= n => Good(k)}
<1>16. 0 \in P
  <2>1. a[0 + 1] = 0
    BY <1>25
  <2>2. Spells(g[0], <<>>) /\ Chosen(<<>>, w, a[0 + 1], B)
    BY <1>15, <2>1, SpellsNothing, ChosenNone
  <2>3. <<>> \in Seq(Letter)
    BY EmptySeq
  <2> QED
    BY <2>2, <2>3
<1>17. ASSUME NEW k \in Nat, k \in P, k + 1 <= n PROVE Good(k + 1)
  <2>1. PICK j \in 1..n : j = k + 1 /\ j - 1 = k /\ k <= n
    BY <1>3, <1>17
  <2>2. Good(k)
    BY <1>17, <2>1
  <2>3. PICK x \in Seq(Letter) : Spells(g[k], x) /\ Chosen(x, w, a[j], B)
    BY <2>1, <2>2
  <2>4. g[j] = g[k] \o s[j]
    BY <1>15, <2>1
  <2>5. PICK b \in Nat, c \in Nat : b = a[j] /\ c = a[j + 1] /\ b <= c /\ c <= Len(w)
    BY <1>5, <1>9
  <2>6. CASE j \in D
    <3>1. s[j] = <<>>
      BY <1>13, <2>6
    <3>2. Spells(g[k] \o s[j], x \o <<>>)
      BY <2>3, <3>1, SpellsNothing, SpellsConcat
    <3>3. x \o <<>> = x
      BY <2>3, ConcatEmptySeq
    <3>6. b + 1..c \subseteq B
      BY <1>29, <2>5, <2>6
    <3>4. Chosen(x, w, c, B)
      BY <2>3, <2>5, <3>6, ChosenMore
    <3>5. Spells(g[j], x) /\ Chosen(x, w, a[j + 1], B)
      BY <2>4, <2>5, <3>2, <3>3, <3>4
    <3> QED
      BY <2>1, <3>5
  <2>7. CASE j \notin D
    <3>1. PICK y : y = SubSeq(w, b + 1, c)
      OBVIOUS
    <3>2. Spells(s[j], y)
      BY <1>13, <2>5, <2>7, <3>1
    <3>3. Spells(g[j], x \o y)
      BY <2>3, <2>4, <3>2, SpellsConcat
    <3>7. (b + 1..c) \cap B = {}
      BY <1>29, <2>5, <2>7
    <3>4. Chosen(x \o SubSeq(w, b + 1, c), w, c, B)
      BY <1>5, <2>3, <2>5, <3>7, ChosenPart
    <3>5. PICK z \in Seq(Letter) : z = x \o y
      BY <3>3 DEF Spells
    <3>6. Spells(g[j], z) /\ Chosen(z, w, a[j + 1], B)
      BY <2>5, <3>1, <3>3, <3>4, <3>5
    <3> QED
      BY <2>1, <3>6
  <2> QED
    BY <2>6, <2>7
<1>18. ASSUME NEW k \in Nat, k \in P PROVE k + 1 \in P
  <2> HIDE DEF Good
  <2> QED
    BY <1>17, <1>18
<1>19. Nat \subseteq P
  <2> HIDE DEF P
  <2> QED
    BY <1>16, <1>18, SetInduction
<1>20. Good(n)
  <2> HIDE DEF Good
  <2> QED
    BY <1>3, <1>19
<1>21. PICK x \in Seq(Letter) : Spells(g[n], x) /\ Chosen(x, w, a[n + 1], B)
  BY <1>20
<1>22. Letters(Kept(r)) = x
  BY <1>12, <1>15, <1>21, SpellsEntire
<1>24. Chosen(x, w, m, B)
  BY <1>21, <1>25
<1> QED
  BY <1>1, <1>4, <1>5, <1>22, <1>24, <1>26

\* What the other invariants do not say of the way from the save file to the mailbox:
\* without a mailbox there is a save file only between unlink() and rename(), and there
\* is something in it only while copyback() is at work.
Promised ==
    /\ \A r \in Reader :
        /\ Ordered(let[r]) /\ let[r][1] = 0
        /\ pc[r] = "empty" => dir["save"] = NoFile
        /\ pc[r] \in {"opensave", "copyout"} => End(r) = Len(tmp[r])
    /\ dir["mail"] = NoFile /\ dir["save"] # NoFile => \E r \in Reader : pc[r] = "rename"
    /\ dir["save"] # NoFile /\ data[dir["save"]] # <<>> =>
        \E r \in Reader : pc[r] \in {"copyout", "rename"}

PromiseInv == SafeInv /\ WholeInv /\ CleanInv /\ (Sound => Promised)

LEMMA SoundFacts ==
    ASSUME PromiseInv, Sound
    PROVE  /\ TypeInv /\ Exclusive /\ Apart /\ Unspoilt /\ Promised
           /\ \A r \in Reader : Copies(r)
           /\ \A d \in Deliverer : Told(d)
  BY DEF PromiseInv, SafeInv, ReadInv, WholeInv, CleanInv, Sound, Orderly

\* Which file the mail is in.
MailIsIn ==
    /\ dir["mail"] # NoFile => Current = data[dir["mail"]]
    /\ \A r \in Reader : dir["mail"] = NoFile /\ pc[r] = "rename" =>
                            Current = data[dir[sname[r]]]
    /\ dir["mail"] = NoFile /\ (\A r \in Reader : pc[r] # "rename") => Current = <<>>

\* That is what Current says.
LEMMA WhereMailIs ==
    ASSUME OneReader
    PROVE  MailIsIn /\ MailIsIn'
<1>1. MailIsIn
  BY DEF MailIsIn, Current, OneReader
<1>2. MailIsIn'
  BY DEF MailIsIn, Current, OneReader
<1> QED
  BY <1>1, <1>2

\* The file that the mail is in is another one only when a name is.
LEMMA MailStays ==
    ASSUME OneReader, UNCHANGED <<data, dir, sname>>,
           \A r \in Reader : pc'[r] = "rename" <=> pc[r] = "rename"
    PROVE  Letters(Current)' = Letters(Current)
<1>1. Current' = Current
  <2>1. MailIsIn /\ MailIsIn'
    BY WhereMailIs
  <2>2. CASE dir["mail"] # NoFile
    BY <2>1, <2>2 DEF MailIsIn
  <2>3. CASE dir["mail"] = NoFile /\ \E r \in Reader : pc[r] = "rename"
    BY <2>1, <2>3 DEF MailIsIn
  <2>4. CASE dir["mail"] = NoFile /\ \A r \in Reader : pc[r] # "rename"
    BY <2>1, <2>4 DEF MailIsIn
  <2> QED
    BY <2>2, <2>3, <2>4
<1> QED
  BY <1>1 DEF Letters

\* A delivery appends its letter, when the second block of it is written, or leaves
\* the mailbox as it is, for those who read letters.
LEMMA DeliveryPromised ==
    ASSUME OneReader, TypeInv, Exclusive, Apart, Unspoilt, Promised,
           NEW d \in Deliverer, DeliveryStep(d)
    PROVE  /\ Promised'
           /\ \/ Letters(Current)' = Letters(Current) /\ UNCHANGED accepted
              \/ /\ Letters(Current)' = Append(Letters(Current), d)
                 /\ accepted' = Append(accepted, d) /\ pc[d] = "rest"
<1>1. /\ data \in [Ino -> Seq(Block)] /\ dir \in [Name -> Ino \cup {NoFile}]
      /\ "mail" \in Name /\ "save" \in Name /\ NoFile \notin Ino
      /\ d \in Proc /\ d \in Letter /\ From(d) \in Block /\ Rest(d) \in Block
      /\ pc[d] \in {"from", "rest", "flush"} => fd[d] \in Ino
      /\ Deliverer \subseteq Proc /\ Reader \subseteq Proc /\ d \notin Reader
  BY WriterBlocks, StoreAssumption DEF TypeInv, AtTyped, StoreTyped, Name
<1>2. UNCHANGED <<let, tmp, sname>> /\ \A r \in Reader : pc'[r] = pc[r]
  <2>1. \A r \in Reader : r \in Proc /\ r # d
    BY <1>1
  <2>2. \A r \in Reader : pc'[r] = pc[r]
    BY <2>1, DeliveryBeside
  <2> QED
    BY <2>2 DEF DeliveryStep, readervars
<1>3. MailIsIn /\ MailIsIn'
  BY WhereMailIs
<1>4. ASSUME UNCHANGED dir, dir["save"] # NoFile => data'[dir["save"]] = data[dir["save"]]
      PROVE  Promised'
  BY <1>2, <1>4 DEF Promised, End
<1>13. ASSUME UNCHANGED dir, pc[d] \in {"from", "rest"}, NEW s,
              data' = [data EXCEPT ![fd[d]] = s]
       PROVE  Promised'
  <2>1. dir["mail"] = fd[d] /\ fd[d] \in Ino
    BY <1>1, <1>13 DEF Apart, Writes
  <2>2. dir["save"] # NoFile => dir["save"] \in Ino /\ dir["save"] # fd[d]
    BY <1>1, <2>1 DEF TypeInv, StoreTyped
  <2>3. dir["save"] # NoFile => data'[dir["save"]] = data[dir["save"]]
    BY <1>1, <1>13, <2>1, <2>2
  <2> QED
    BY <1>4, <1>13, <2>3
<1>5. ASSUME pc[d] \in {"from", "rest"}
      PROVE  \E i \in Ino : i = fd[d] /\ dir["mail"] = i /\ Current = data[i]
  <2>1. dir["mail"] = fd[d] /\ fd[d] \in Ino
    BY <1>1, <1>5 DEF Apart, Writes
  <2> QED
    BY <1>1, <1>3, <2>1 DEF MailIsIn
<1>6. CASE UNCHANGED <<data, dir, accepted>>
  BY <1>2, <1>4, <1>6, MailStays
<1>14. CASE CreateMbox(d) /\ UNCHANGED accepted /\ UNCHANGED <<data, dir>>
  BY <1>6, <1>14
<1>7. CASE CreateMbox(d) /\ UNCHANGED accepted /\ ~UNCHANGED <<data, dir>>
  <2>1. /\ pc[d] = "open" /\ dir["mail"] = NoFile /\ Unused # {}
        /\ dir' = [dir EXCEPT !["mail"] = NewIno] /\ data' = [data EXCEPT ![NewIno] = <<>>]
    BY <1>7 DEF CreateMbox, files
  <2>2. NewIno \in Ino
    BY <2>1, NewInoFacts
  <2>3. Inside(d)
    BY <1>1, <2>1, WhoIsInside DEF Held
  <2>4. \A r \in Reader : pc[r] \notin Held
    BY <1>1, <2>3, OthersOut
  <2>5. Current = <<>>
    BY <1>3, <2>1, <2>4 DEF MailIsIn, Held
  <2>6. dir'["mail"] = NewIno /\ data'[NewIno] = <<>>
    BY <1>1, <2>1, <2>2
  <2>7. Current' = <<>>
    BY <1>1, <1>3, <2>2, <2>6 DEF MailIsIn
  <2>8. Letters(Current)' = Letters(Current)
    BY <2>5, <2>7 DEF Letters
  <2>10. dir'["save"] = dir["save"]
    BY <1>1, <2>1
  <2>11. dir["save"] # NoFile => data'[dir["save"]] = data[dir["save"]]
    <3>1. NewIno \notin Linked
      BY <2>1, NewInoFacts
    <3>2. dir["save"] # NoFile => dir["save"] \in Linked
      BY <1>1 DEF Linked
    <3> QED
      BY <1>1, <2>1, <2>2, <3>1, <3>2
  <2>9. Promised'
    BY <1>1, <1>2, <2>2, <2>6, <2>10, <2>11 DEF Promised, End
  <2> QED
    BY <1>7, <2>8, <2>9
<1>8. CASE WriteFrom(d) /\ UNCHANGED <<dir, accepted>>
  <2>1. pc[d] = "from"
    BY <1>8 DEF WriteFrom
  <2>2. PICK i \in Ino : i = fd[d] /\ dir["mail"] = i /\ Current = data[i]
    BY <1>5, <2>1
  <2>3. Inside(d)
    BY <1>1, <2>1, WhoIsInside DEF Held
  <2>4. AtRest(i)
    BY <2>1, <2>3, FilesOfDelivery
  <2>5. Entire(data[i])
    BY <2>4 DEF Unspoilt
  <2>6. Current' = Append(data[i], From(d))
    <3>1. data'[i] = Append(data[i], From(d))
      BY <1>1, <1>8, <2>2 DEF WriteFrom, Append1
    <3>2. dir'["mail"] = i /\ i # NoFile
      BY <1>1, <1>8, <2>2
    <3> QED
      BY <1>3, <3>1, <3>2 DEF MailIsIn
  <2>7. Letters(Append(data[i], From(d))) = Letters(data[i])
    BY <1>1, <2>5, SpellsHalf DEF Entire
  <2>8. Letters(Current)' = Letters(Current')
    BY DEF Letters
  <2>9. Promised'
    BY <1>8, <1>13, <2>1 DEF WriteFrom, Append1
  <2> QED
    BY <1>8, <2>2, <2>6, <2>7, <2>8, <2>9
<1>9. ASSUME pc[d] = "rest"
      PROVE  \E b \in Seq(Block), i \in Ino :
                /\ Entire(b) /\ Len(b) = pos[d] /\ i = fd[d] /\ dir["mail"] = i
                /\ data[i] = Append(b, From(d)) /\ Letters(Current) = Letters(b)
  <2>1. PICK i \in Ino : i = fd[d] /\ dir["mail"] = i /\ Current = data[i]
    BY <1>5, <1>9
  <2>2. PICK b \in Seq(Block) : Entire(b) /\ Len(b) = pos[d] /\ data[fd[d]] = Append(b, From(d))
    BY <1>9 DEF Unspoilt, Half
  <2>3. Letters(Append(b, From(d))) = Letters(b)
    BY <1>1, <2>2, SpellsHalf DEF Entire
  <2> QED
    BY <2>1, <2>2, <2>3
<1>10. ASSUME NEW i \in Ino, dir["mail"] = i, NEW s, UNCHANGED dir,
              data' = [data EXCEPT ![i] = s]
       PROVE  Letters(Current)' = Letters(s)
  <2>1. data'[i] = s /\ dir'["mail"] = i /\ i # NoFile
    BY <1>1, <1>10
  <2>2. Current' = s
    BY <1>3, <2>1 DEF MailIsIn
  <2> QED
    BY <2>2 DEF Letters
<1>11. CASE /\ pc[d] \in {"rest", "flush"} /\ UNCHANGED dir
            /\ Append1(fd[d], Rest(d)) /\ accepted' = Append(accepted, d)
  <2>1. pc[d] = "rest"
    BY <1>11 DEF Unspoilt, Half
  <2>2. PICK b \in Seq(Block), i \in Ino :
                /\ Entire(b) /\ Len(b) = pos[d] /\ i = fd[d] /\ dir["mail"] = i
                /\ data[i] = Append(b, From(d)) /\ Letters(Current) = Letters(b)
    BY <1>9, <2>1
  <2>3. data' = [data EXCEPT ![i] = Append(Append(b, From(d)), Rest(d))]
    BY <1>11, <2>2 DEF Append1
  <2>4. Letters(Current)' = Letters(Append(Append(b, From(d)), Rest(d)))
    BY <1>10, <1>11, <2>2, <2>3
  <2>5. Letters(Append(Append(b, From(d)), Rest(d))) = Append(Letters(b), d)
    BY <1>1, <2>2, EntireAppend
  <2>6. Promised'
    BY <1>11, <1>13, <2>1 DEF Append1
  <2> QED
    BY <1>11, <2>1, <2>2, <2>4, <2>5, <2>6
<1>12. CASE /\ pc[d] = "rest" /\ UNCHANGED <<dir, accepted>>
            /\ data' = [data EXCEPT ![fd[d]] = CutTo(@, pos[d])]
  <2>1. PICK b \in Seq(Block), i \in Ino :
                /\ Entire(b) /\ Len(b) = pos[d] /\ i = fd[d] /\ dir["mail"] = i
                /\ data[i] = Append(b, From(d)) /\ Letters(Current) = Letters(b)
    BY <1>9, <1>12
  <2>2. data' = [data EXCEPT ![i] = CutTo(Append(b, From(d)), Len(b))]
    BY <1>12, <2>1
  <2>3. CutTo(Append(b, From(d)), Len(b)) = b
    BY <1>1, CutBack
  <2>4. Letters(Current)' = Letters(CutTo(Append(b, From(d)), Len(b)))
    BY <1>10, <1>12, <2>1, <2>2
  <2>5. Promised'
    BY <1>12, <1>13
  <2> QED
    BY <1>12, <2>1, <2>3, <2>4, <2>5
<1> QED
  BY <1>6, <1>7, <1>8, <1>11, <1>12, <1>14, DeliveryFiles

\* How a step of a session makes another table.
LEMMA TablesGrow ==
    ASSUME TypeInv, NEW r \in Reader, ReadingStep(r), ~cut'
    PROVE  \/ UNCHANGED let
           \/ StartReading(r)
           \/ LoadMail(r) /\ ~UNCHANGED let
           \/ CopiesAll(r)
           \/ TakeNewMail(r) /\ ~UNCHANGED let
<1>1. Delete(r) \/ Undelete(r) => UNCHANGED let
  BY DEF Delete, Undelete
<1>2. InterruptCopy(r) => UNCHANGED let \/ CopiesAll(r)
  BY InterruptCopyIs
<1>3. LoadNewMail(r) => UNCHANGED let \/ CopiesAll(r)
  <2>1. SUFFICES ASSUME LoadNewMail(r), ~UNCHANGED let PROVE CopiesAll(r)
    OBVIOUS
  <2>2. r \in Proc /\ pc \in [Proc -> DelivererLabel \cup ReaderLabel]
    BY StoreAssumption DEF TypeInv, AtTyped
  <2>3. pc'[r] = "reloaded"
    BY <2>1, <2>2 DEF LoadNewMail, Goto
  <2> QED
    BY <2>1, <2>3, LoadsAll
<1> QED
  BY <1>1, <1>2, <1>3, ReadingTables

\* The table of a session stays in order.
LEMMA SessionOrdered ==
    ASSUME TypeInv, ~cut', Apart, Promised, NEW r \in Reader, ReadingStep(r)
    PROVE  Ordered(let'[r])
<1>0. ~cut
  BY ReadingVarsTyped
<1>1. /\ data \in [Ino -> Seq(Block)] /\ dir \in [Name -> Ino \cup {NoFile}]
      /\ tmp \in [Reader -> Seq(Block)] /\ let \in [Reader -> Seq(Nat)]
      /\ let[r] # <<>> /\ "mail" \in Name /\ r \in Proc
      /\ pc[r] \in Reading0 => End(r) = Len(tmp[r])
      /\ pc[r] = "copyin" => fd[r] \in Ino
  BY <1>0, StoreAssumption
     DEF TypeInv, AtTyped, StoreTyped, ReaderTyped, TablesTyped, TableOK, Name
<1>2. Ordered(let[r])
  BY DEF Promised
<1>3. CASE UNCHANGED let
  BY <1>2, <1>3
<1>4. CASE StartReading(r)
  <2>1. let'[r] = <<0>>
    BY <1>1, <1>4 DEF StartReading
  <2>2. PICK l : l = <<0>>
    OBVIOUS
  <2>5. Len(l) = 1 /\ l[1] = 0
    BY <2>2
  <2>3. Last(l) = 0
    BY <2>5 DEF Last
  <2>4. RisesTo(l, 0)
    BY <2>5 DEF RisesTo
  <2> QED
    BY <2>1, <2>2, <2>3, <2>4 DEF Ordered
<1>5. ASSUME NEW s \in Seq(Block), let'[r] = Mark(let[r], s) PROVE Ordered(let'[r])
  BY <1>1, <1>2, <1>5, MarkOrdered
<1>6. CASE LoadMail(r) /\ ~UNCHANGED let
  <2>1. pc[r] = "copyin" /\ let'[r] = Mark(let[r], data[fd[r]])
    BY <1>1, <1>6 DEF LoadMail
  <2> QED
    BY <1>1, <1>5, <2>1
<1>7. CASE CopiesAll(r)
  <2>1. PICK s \in Seq(Block) : let' = [let EXCEPT ![r] = Mark(let[r], s)]
    BY <1>7 DEF CopiesAll
  <2>2. let'[r] = Mark(let[r], s)
    BY <1>1, <2>1
  <2> QED
    BY <1>5, <2>2
<1>8. CASE TakeNewMail(r) /\ ~UNCHANGED let
  <2>1. PICK i \in Ino : i = dir["mail"]
    BY <1>1, <1>8 DEF TakeNewMail
  <2>2. PICK t \in Seq(Block), n \in Nat : t = data[i] /\ n = Len(t)
    BY <1>1, LenProperties
  <2>3. pc[r] = "newmail" /\ let'[r] = Append(let[r], n)
    BY <1>1, <1>8, <2>1, <2>2 DEF TakeNewMail
  <2>4. PICK m \in Nat : m = Len(tmp[r]) /\ m = End(r) /\ m <= n
    <3>1. IsPrefix(tmp[r], t)
      BY <2>1, <2>2, <2>3 DEF Apart, ReadsOn, Reading0
    <3>2. Len(tmp[r]) <= Len(t) /\ Len(tmp[r]) \in Nat
      BY <1>1, <2>2, <3>1, PrefixFacts, LenProperties
    <3> QED
      BY <1>1, <2>2, <2>3, <3>2 DEF Reading0
  <2>5. PICK l \in Seq(Nat) : l = let[r] /\ RisesTo(l, m)
    <3>1. Last(let[r]) = m
      BY <2>4 DEF Last, End
    <3> QED
      BY <1>1, <1>2, <3>1 DEF Ordered
  <2>6. RisesTo(l, n)
    <3>1. PICK k \in Nat : k = Len(l)
      BY <2>5, LenProperties
    <3>2. \A j \in 1..k : l[j] \in Nat
      BY <3>1, ElementOfSeq
    <3>3. \A j \in 1..k : l[j] <= m
      BY <2>5, <3>1 DEF RisesTo
    <3>4. \A j \in 1..k : l[j] <= n
      BY <2>4, <3>2, <3>3
    <3> QED
      BY <2>5, <3>1, <3>4 DEF RisesTo
  <2> QED
    BY <2>3, <2>5, <2>6, OrderedAppend
<1> QED
  BY <1>3, <1>4, <1>6, <1>7, <1>8, TablesGrow

\* The first letter of the table is the first of the mailbox.
LEMMA SessionFirst ==
    ASSUME TypeInv, ~cut', Exclusive, Apart, Unspoilt, Promised,
           NEW r \in Reader, ReadingStep(r)
    PROVE  let'[r][1] = 0
<1>0. ~cut
  BY ReadingVarsTyped
<1>1. /\ data \in [Ino -> Seq(Block)] /\ dir \in [Name -> Ino \cup {NoFile}]
      /\ tmp \in [Reader -> Seq(Block)] /\ let \in [Reader -> Seq(Nat)]
      /\ let[r] \in Seq(Nat) /\ let[r] # <<>> /\ "mail" \in Name /\ r \in Proc
      /\ pc[r] = "copyin" => fd[r] \in Ino
  BY StoreAssumption
     DEF TypeInv, AtTyped, StoreTyped, ReaderTyped, TablesTyped, TableOK, Name
<1>2. let[r][1] = 0
  BY DEF Promised
<1>3. CASE UNCHANGED let
  BY <1>2, <1>3
<1>4. CASE StartReading(r)
  <2>1. let'[r] = <<0>>
    BY <1>1, <1>4 DEF StartReading
  <2> QED
    BY <2>1
<1>5. CASE LoadMail(r) /\ ~UNCHANGED let
  <2>1. PICK s \in Seq(Block) : s = data[fd[r]]
    BY <1>1, <1>5 DEF LoadMail
  <2>2. let'[r] = Mark(let[r], s) /\ (s = <<>> \/ IsFrom(s[1]))
    BY <1>1, <1>5, <2>1 DEF LoadMail
  <2>3. s = <<>> => Len(s) = 0
    OBVIOUS
  <2>4. Mark(let[r], s)[1] = let[r][1]
    BY <1>1, <2>2, <2>3, MarkFirst
  <2> QED
    BY <1>2, <2>2, <2>4
<1>6. CASE CopiesAll(r)
  <2>1. PICK i \in Ino : i = dir["mail"]
    BY <1>1, <1>6 DEF CopiesAll
  <2>2. PICK t \in Seq(Block), n \in Nat : t = data[i] /\ n = Len(t)
    BY <1>1, LenProperties
  <2>3. PICK s \in Seq(Block) : /\ s = SubSeq(t, End(r) + 1, n)
                               /\ let' = [let EXCEPT ![r] = Mark(let[r], s)]
    BY <1>6, <2>1, <2>2 DEF CopiesAll, Size
  <2>4. let'[r] = Mark(let[r], s)
    BY <1>1, <2>3
  <2>5. ASSUME Len(let[r]) = 1, Len(s) # 0 PROVE IsFrom(s[1])
    <3>1. End(r) = 0
      BY <1>2, <2>5 DEF End
    <3>2. s = SubSeq(t, 1, n)
      BY <2>3, <3>1
    <3>3. n # 0
      <4>1. n = 0 => s = <<>>
        BY <2>2, <3>2, SubSeqEmpty
      <4> QED
        BY <2>5, <4>1
    <3>4. s[1] = t[1]
      <4>1. 1 \in 1..n /\ 1 <= n /\ n - 1 + 1 = n /\ 1 + 1 - 1 = 1
        BY <3>3
      <4>2. \A k \in 1..n : t[k] \in Block
        BY <2>2, ElementOfSeq
      <4>3. \A k \in 1..n - 1 + 1 : s[k] = t[1 + k - 1]
        BY <3>2, <4>1, <4>2, SubSeqProperties
      <4> QED
        BY <4>1, <4>3
    <3>5. Entire(t)
      <4>1. Inside(r)
        BY <1>1, <1>6, WhoIsInside DEF Held, CopiesAll
      <4>2. pc[r] = "copymore"
        BY <1>6 DEF CopiesAll
      <4>3. AtRest(i)
        BY <4>1, <4>2, FilesOfSession
      <4> QED
        BY <2>2, <4>3 DEF Unspoilt
    <3>6. PICK j \in 1..Len(t) : j = 1
      BY <2>2, <3>3
    <3>7. IsFrom(t[j])
      <4>1. ~IsFrom(t[j]) => Even(j)
        BY <3>5, EntireFromEven
      <4>2. ~Even(1)
        BY DEF Even
      <4> QED
        BY <3>6, <4>1, <4>2
    <3> QED
      BY <3>4, <3>6, <3>7
  <2>6. Mark(let[r], s)[1] = let[r][1]
    BY <1>1, <2>5, MarkFirst
  <2> QED
    BY <1>2, <2>4, <2>6
<1>7. CASE TakeNewMail(r) /\ ~UNCHANGED let
  <2>1. PICK i \in Ino : i = dir["mail"]
    BY <1>1, <1>7 DEF TakeNewMail
  <2>2. PICK n \in Nat : n = Len(data[i])
    BY <1>1, LenProperties
  <2>3. let'[r] = Append(let[r], n)
    BY <1>1, <1>7, <2>1, <2>2 DEF TakeNewMail
  <2>4. PICK m \in Nat : m = Len(let[r]) /\ 1 \in 1..m
    <3>1. PICK k \in Nat : k = Len(let[r]) /\ k # 0
      BY <1>1, LenProperties, EmptySeq
    <3> QED
      BY <3>1
  <2>5. Append(let[r], n)[1] = let[r][1]
    BY <1>1, <2>4, AppendFacts
  <2> QED
    BY <1>2, <2>3, <2>5
<1> QED
  BY <1>3, <1>4, <1>5, <1>6, <1>7, TablesGrow

\* When the letters are copied back the table has its end.
LEMMA SessionEnds ==
    ASSUME TypeInv, ~cut', Apart, Promised, NEW r \in Reader, ReadingStep(r),
           Copies(r)', pc'[r] \in {"opensave", "copyout"}
    PROVE  End(r)' = Len(tmp'[r])
<1>1. /\ dir \in [Name -> Ino \cup {NoFile}]
      /\ data \in [Ino -> Seq(Block)] /\ let \in [Reader -> Seq(Nat)]
      /\ pc \in [Proc -> DelivererLabel \cup ReaderLabel] /\ r \in Proc
      /\ "mail" \in Name /\ "save" \in Name /\ let[r] # <<>>
  BY StoreAssumption
     DEF TypeInv, StoreTyped, AtTyped, Name, ReaderTyped, TablesTyped, TableOK
<1>2. CASE TakeNewMail(r)
  <2>1. pc'[r] = "opensave"
    BY <1>1, <1>2 DEF TakeNewMail, Goto
  <2>2. PICK i \in Ino : i = dir["mail"] /\ UNCHANGED files
    BY <1>1, <1>2 DEF TakeNewMail
  <2>3. tmp'[r] = data[i]
    BY <2>1, <2>2 DEF Copies, files
  <2>4. CASE UNCHANGED let /\ Len(data[i]) = End(r)
    BY <2>3, <2>4 DEF End
  <2>5. CASE let' = [let EXCEPT ![r] = Append(@, Len(data[i]))]
    <3>1. PICK n \in Nat, l \in Seq(Nat) : n = Len(data[i]) /\ l = let[r]
      BY <1>1, LenProperties
    <3>2. let'[r] = Append(l, n)
      BY <1>1, <2>5, <3>1
    <3>3. PICK m \in Nat, u \in Seq(Nat) : m = Len(l) /\ u = Append(l, n)
      BY AppendProperties, LenProperties
    <3>4. Len(u) = m + 1 /\ u[m + 1] = n
      BY <3>3, AppendFacts
    <3> QED
      BY <2>3, <3>1, <3>2, <3>3, <3>4 DEF End
  <2> QED
    BY <1>1, <1>2, <2>1, <2>2, <2>4, <2>5 DEF TakeNewMail, Goto
<1>3. CASE MailboxGone(r)
  <2>1. pc[r] = "newmail" /\ dir["mail"] = NoFile
    BY <1>3 DEF MailboxGone
  <2> QED
    BY <2>1 DEF Apart, ReadsOn, Reading0
<1>4. CASE OpenSave(r) \/ CopyOut(r)
  <2>1. pc[r] \in {"opensave", "copyout"} /\ UNCHANGED <<tmp, let>>
    BY <1>4 DEF OpenSave, CopyOut
  <2> QED
    BY <2>1 DEF Promised, End
<1>5. TakeNewMail(r) \/ MailboxGone(r) \/ OpenSave(r) \/ CopyOut(r)
  <2>1. \/ LookForSaved(r) \/ RestoreByName(r) \/ RestoreByCopy(r) \/ AppendSaved(r)
        \/ AppendedSaved(r) \/ RemoveSaved(r) \/ CopyOutFails(r) \/ UnlinkMbox(r)
        \/ RenameSave(r) \/ RemoveEmpty(r)
        => pc'[r] \notin {"opensave", "copyout"}
    BY <1>1 DEF LookForSaved, RestoreByName, RestoreByCopy, AppendSaved, AppendedSaved,
       RemoveSaved, CopyOutFails, UnlinkMbox, RenameSave, RemoveEmpty, AskThen, Leave, Goto
  <2>2. "copyout" \notin {"idle", "done", "saved?", "restore"} \cup (PutBack \ {"opensave"})
    BY DEF PutBack, Reading0
  <2> QED
    BY <2>1, <2>2, ReadingGoes
<1> QED
  BY <1>2, <1>3, <1>4, <1>5

\* Between unlink() and rename() there is no other way out but being killed.
LEMMA RenamesOrDies ==
    ASSUME NEW r \in Reader, ReadingStep(r), pc[r] = "rename", ~killed'
    PROVE  RenameSave(r)
  BY DEF ReadingStep, StartReading, ReadMail, KillReading, Cksaved, LookForSaved,
        LockForSaved, RestoreByName, RestoreByCopy, AppendSaved, AppendedSaved,
        RemoveSaved, Restored, Printmail, StatMbox, OpenForReading, LockForLoad, LoadMail,
        Loaded, LookForNewMail, LockForReload, LoadNewMail, Reloaded, Interrupt,
        InterruptCopy, Delete, Undelete,
        ExitCommand, Quit, Copyback, LockForRewrite, TakeNewMail, MailboxGone,
        CopybackFails,
        OpenSave, CopyOut, CopyOutFails, UnlinkMbox, RemoveEmpty, CopiedBack,
        LockFails, DoneReading, SignalReading, CrashReading, MidCopy, TakeAt, Waiting

\* While the letters that are kept are written there is none, either, when no write fails.
LEMMA WritesOrDies ==
    ASSUME NEW r \in Reader, ReadingStep(r), pc[r] = "copyout", ~killed',
           "savefile" \notin Fails
    PROVE  CopyOut(r) \/ UnlinkMbox(r)
  BY DEF ReadingStep, StartReading, ReadMail, KillReading, Cksaved, LookForSaved,
        LockForSaved, RestoreByName, RestoreByCopy, AppendSaved, AppendedSaved,
        RemoveSaved, Restored, Printmail, StatMbox, OpenForReading, LockForLoad, LoadMail,
        Loaded, LookForNewMail, LockForReload, LoadNewMail, Reloaded, Interrupt,
        InterruptCopy, Delete, Undelete, ExitCommand, Quit, Copyback, LockForRewrite,
        TakeNewMail, MailboxGone, CopybackFails, OpenSave, CopyOutFails, RenameSave,
        RemoveEmpty, CopiedBack, LockFails, DoneReading, SignalReading, CrashReading,
        MidCopy, TakeAt, Waiting

\* Nothing that is done beside the mailbox changes what it is.
LEMMA MailAside ==
    ASSUME OneReader, dir'["mail"] = dir["mail"],
           dir["mail"] # NoFile => data'[dir["mail"]] = data[dir["mail"]],
           \A q \in Reader : pc[q] # "rename" /\ pc'[q] # "rename"
    PROVE  Letters(Current)' = Letters(Current)
<1>1. MailIsIn /\ MailIsIn'
  BY WhereMailIs
<1>2. Current' = Current
  BY <1>1 DEF MailIsIn
<1> QED
  BY <1>2 DEF Letters

\* A step of a session takes out the letters that are marked or leaves the mailbox as it
\* is.
AsPromised(r) ==
    /\ pc'[r] = "empty" => dir'["save"] = NoFile
    /\ dir'["mail"] = NoFile /\ dir'["save"] # NoFile => pc'[r] = "rename"
    /\ dir'["save"] # NoFile /\ data'[dir'["save"]] # <<>> => pc'[r] \in {"copyout", "rename"}
    /\ \/ Letters(Current)' = Letters(Current)
       \/ /\ pc[r] = "copyout" /\ pc'[r] = "rename"
          /\ Chosen(Letters(Current)', Letters(Current), Len(Letters(Current)), BinOf(r))

\* There is nothing that cksaved() could append.
LEMMA NothingToAppend ==
    ASSUME OneReader, TypeInv, Promised, NEW r \in Reader, Copies(r), AppendSaved(r)
    PROVE  FALSE
<1>2. /\ pc[r] = "append" /\ at[r] < Len(data[fd[r]]) /\ fd[r] \in Ino /\ NoFile \notin Ino
      /\ at[r] \in Nat /\ dir["save"] = fd[r]
  BY StoreAssumption
     DEF AppendSaved, Size, TypeInv, AtTyped, StoreTyped, ReaderTyped, Copies
<1>3. data[fd[r]] # <<>>
  BY <1>2
<1>4. \E q \in Reader : pc[q] \in {"copyout", "rename"}
  BY <1>2, <1>3 DEF Promised
<1> QED
  BY <1>2, <1>4 DEF OneReader

\* unlink() of the mailbox: the letters that are kept are those in the save file.
LEMMA UnlinkMboxAs ==
    ASSUME OneReader, SureFiles, TypeInv, Exclusive, Unspoilt, Promised,
           NEW r \in Reader, Copies(r), UnlinkMbox(r)
    PROVE  AsPromised(r)
<1>1. /\ data \in [Ino -> Seq(Block)] /\ dir \in [Name -> Ino \cup {NoFile}]
      /\ pc \in [Proc -> DelivererLabel \cup ReaderLabel]
      /\ pc[r] = "copyout" => ofd[r] \in Ino
      /\ r \in Proc /\ NoFile \notin Ino /\ "mail" \in Name /\ "save" \in Name
  BY StoreAssumption DEF TypeInv, AtTyped, StoreTyped, Name
<1>2. pc[r] = "copyout" /\ at[r] = Len(Kept(r)) /\ UNCHANGED <<data, sname>>
  BY DEF UnlinkMbox
<1>3. dir["mail"] # NoFile /\ tmp[r] = data[dir["mail"]] /\ dir["save"] = ofd[r]
      /\ sname[r] = "save"
  BY <1>2 DEF Copies
<1>4. MailIsIn /\ MailIsIn'
  BY WhereMailIs
<1>6. CASE dir' = [dir EXCEPT !["mail"] = NoFile] /\ pc'[r] = "rename"
  <2>1. dir'["mail"] = NoFile /\ dir'["save"] = ofd[r]
    BY <1>1, <1>3, <1>6
  <2>2. Current' = data[ofd[r]]
    BY <1>2, <1>3, <1>4, <1>6, <2>1 DEF MailIsIn
  <2>3. Entire(tmp[r]) /\ (\A k \in 1..Len(let[r]) : Even(let[r][k])) /\ Ordered(let[r])
    BY DEF Unspoilt, EvenTable, Promised
  <2>4. Kept(r) \in Seq(Block)
    BY <2>3, KeptEntire
  <2>5. data[ofd[r]] = Kept(r)
    <3>1. data[ofd[r]] = CutTo(Kept(r), Len(Kept(r)))
      BY <1>2 DEF Unspoilt, HalfCopied
    <3> QED
      BY <2>4, <3>1, CutEnds
  <2>6. Current = tmp[r]
    BY <1>3, <1>4 DEF MailIsIn
  <2>7. Chosen(Letters(Kept(r)), Letters(tmp[r]), Len(Letters(tmp[r])), BinOf(r))
    <3>1. Covers(r)
      BY <1>2 DEF Promised, Covers
    <3> QED
      BY <2>3, <3>1, KeptChosen
  <2>8. Letters(Current)' = Letters(Kept(r))
    BY <2>2, <2>5 DEF Letters
  <2> QED
    BY <1>2, <1>6, <2>6, <2>7, <2>8 DEF AsPromised
<1> QED
  BY <1>1, <1>3, <1>6 DEF UnlinkMbox, Goto, SureFiles

\* A step beside the mailbox.
LEMMA BesideAs ==
    ASSUME OneReader, Promised, NEW r \in Reader, pc[r] # "rename",
           pc'[r] \notin {"rename", "empty"},
           dir'["mail"] = dir["mail"],
           dir["mail"] # NoFile => data'[dir["mail"]] = data[dir["mail"]],
           \/ dir["mail"] # NoFile /\ pc'[r] = "copyout"
           \/ /\ pc[r] # "copyout"
              /\ \/ dir'["save"] = NoFile
                 \/ dir'["save"] = dir["save"] /\ data'[dir["save"]] = data[dir["save"]]
    PROVE  AsPromised(r)
<1>1. \A q \in Reader : pc[q] # "rename" /\ pc'[q] # "rename"
  BY DEF OneReader
<1>2. Letters(Current)' = Letters(Current)
  BY <1>1, MailAside
<1>3. dir["mail"] = NoFile => dir["save"] = NoFile
  BY <1>1 DEF Promised
<1>4. pc[r] # "copyout" => dir["save"] = NoFile \/ data[dir["save"]] = <<>>
  BY <1>1 DEF Promised, OneReader
<1> QED
  BY <1>2, <1>3, <1>4 DEF AsPromised

\* rename(): the letters are where they were, under another name.
LEMMA RenameSaveAs ==
    ASSUME OneReader, SureCalls, TypeInv, Unspoilt, Promised, NEW r \in Reader, Copies(r),
           RenameSave(r)
    PROVE  AsPromised(r)
<1>1. /\ dir \in [Name -> Ino \cup {NoFile}]
      /\ "mail" \in Name /\ "save" \in Name
  BY DEF TypeInv, StoreTyped, Name
<1>2. /\ pc[r] = "rename" /\ UNCHANGED <<data, sname>>
      /\ sname[r] = "save" /\ dir["mail"] = NoFile /\ dir["save"] # NoFile
  BY DEF RenameSave, Copies, Unspoilt, HalfCopied, readervars
<1>3. dir' = [dir EXCEPT !["mail"] = dir["save"], !["save"] = NoFile]
  BY <1>2 DEF RenameSave, SureCalls
<1>4. dir'["mail"] = dir["save"] /\ dir'["save"] = NoFile
  BY <1>1, <1>3
<1>5. MailIsIn /\ MailIsIn'
  BY WhereMailIs
<1>6. Current = data[dir["save"]] /\ Current' = data[dir["save"]]
  BY <1>2, <1>4, <1>5 DEF MailIsIn
<1>7. Letters(Current)' = Letters(Current)
  BY <1>6 DEF Letters
<1> QED
  BY <1>4, <1>7 DEF AsPromised

\* An empty mailbox is removed.
LEMMA RemoveEmptyAs ==
    ASSUME OneReader, TypeInv, Exclusive, Unspoilt, Promised, NEW r \in Reader, Copies(r),
           RemoveEmpty(r)
    PROVE  AsPromised(r)
<1>1. /\ dir \in [Name -> Ino \cup {NoFile}] /\ data \in [Ino -> Seq(Block)]
      /\ pc \in [Proc -> DelivererLabel \cup ReaderLabel] /\ r \in Proc
      /\ "mail" \in Name /\ "save" \in Name
  BY StoreAssumption DEF TypeInv, StoreTyped, AtTyped, Name
<1>2. /\ pc[r] = "empty" /\ dir["save"] = NoFile /\ dir["mail"] # NoFile
      /\ dir' = [dir EXCEPT !["mail"] = NoFile]
  BY DEF RemoveEmpty, Copies, Promised
<1>3. dir'["mail"] = NoFile /\ dir'["save"] = NoFile /\ pc'[r] = "copied"
  BY <1>1, <1>2 DEF RemoveEmpty, Goto
<1>4. MailIsIn'
  BY WhereMailIs
<1>5. \A q \in Reader : pc'[q] # "rename"
  BY <1>3 DEF OneReader
<1>6. Current' = <<>>
  BY <1>3, <1>4, <1>5 DEF MailIsIn
<1>7. Current = <<>>
  <2>1. data[dir["mail"]] \in Seq(Block) /\ Len(data[dir["mail"]]) = 0
    BY <1>1, <1>2 DEF Copies, Size, RemoveEmpty
  <2>2. data[dir["mail"]] = <<>>
    BY <2>1, EmptySeq
  <2>3. MailIsIn
    BY WhereMailIs
  <2> QED
    BY <1>2, <2>2, <2>3 DEF MailIsIn
<1> QED
  BY <1>3, <1>6, <1>7 DEF AsPromised, Letters

\* The save file that is made or emptied is not the mailbox.
LEMMA OpenSaveAs ==
    ASSUME OneReader, SureCalls, TypeInv, Promised, NEW r \in Reader, Copies(r),
           OpenSave(r)
    PROVE  AsPromised(r)
<1>1. /\ dir \in [Name -> Ino \cup {NoFile}] /\ data \in [Ino -> Seq(Block)]
      /\ pc \in [Proc -> DelivererLabel \cup ReaderLabel] /\ r \in Proc
      /\ "mail" \in Name /\ "save" \in Name
  BY StoreAssumption DEF TypeInv, StoreTyped, AtTyped, Name
<1>2. pc[r] = "opensave" /\ dir["mail"] # NoFile /\ pc'[r] = "copyout"
  BY <1>1 DEF OpenSave, Goto, Copies
<1>3. PICK i : /\ i = IF dir["save"] = NoFile THEN NewIno ELSE dir["save"]
               /\ dir["save"] # NoFile \/ Unused # {}
               /\ dir' = [dir EXCEPT !["save"] = i]
               /\ data' = [data EXCEPT ![i] = <<>>]
  BY DEF OpenSave, SureCalls
<1>4. i # dir["mail"]
  <2>1. CASE dir["save"] = NoFile
    <3>1. NewIno \notin Linked
      BY <1>3, <2>1, NewInoFacts
    <3>2. dir["mail"] \in Linked
      BY <1>1, <1>2 DEF Linked
    <3> QED
      BY <1>3, <2>1, <3>1, <3>2
  <2>2. CASE dir["save"] # NoFile
    BY <1>1, <1>2, <1>3, <2>2 DEF TypeInv, StoreTyped
  <2> QED
    BY <2>1, <2>2
<1>5. dir'["mail"] = dir["mail"] /\ data'[dir["mail"]] = data[dir["mail"]]
  <2>1. dir["mail"] \in Ino
    BY <1>1, <1>2
  <2> QED
    BY <1>1, <1>3, <1>4, <2>1
<1> QED
  BY <1>2, <1>5, BesideAs

\* What a session does to the mailbox.
LEMMA SessionAs ==
    ASSUME OneReader, SureFiles, TypeInv, Exclusive, Apart, Unspoilt, Promised, ~killed',
           NEW r \in Reader, Copies(r), ReadingStep(r)
    PROVE  AsPromised(r)
<1>0. SureCalls /\ "savefile" \notin Fails
  BY DEF SureFiles
<1>1. /\ dir \in [Name -> Ino \cup {NoFile}] /\ data \in [Ino -> Seq(Block)]
      /\ pc \in [Proc -> DelivererLabel \cup ReaderLabel] /\ r \in Proc
      /\ "mail" \in Name /\ "save" \in Name
  BY StoreAssumption DEF TypeInv, StoreTyped, AtTyped, Name
<1>2. CASE pc[r] = "rename"
  BY <1>0, <1>2, RenamesOrDies, RenameSaveAs
<1>3. ASSUME pc[r] \notin {"rename", "copyout"}, UNCHANGED <<data, dir>>, pc'[r] \notin {"rename", "empty"}
      PROVE  AsPromised(r)
  BY <1>3, BesideAs
<1>4. CASE LookForSaved(r)
  <2>1. UNCHANGED <<data, dir>> /\ pc[r] = "saved?" /\ pc'[r] \in {"cksave", "stat"}
    BY <1>1, <1>4 DEF LookForSaved, AskThen, Goto, files
  <2> QED
    BY <1>3, <2>1
<1>5. CASE RestoreByName(r)
  <2>1. pc[r] = "restore" /\ dir["mail"] = NoFile
    BY <1>5 DEF RestoreByName
  <2>2. dir["save"] = NoFile
    BY <2>1 DEF Promised, OneReader
  <2>3. UNCHANGED <<data, dir>> /\ pc'[r] = "stat"
    BY <1>1, <1>5, <2>2 DEF RestoreByName, Leave, Goto
  <2> QED
    BY <1>3, <2>1, <2>3
<1>6. CASE RestoreByCopy(r)
  <2>1. UNCHANGED <<data, dir>> /\ pc[r] = "restore" /\ pc'[r] \in {"append", "stat"}
    BY <1>1, <1>6 DEF RestoreByCopy, Leave, Goto, files
  <2> QED
    BY <1>3, <2>1
<1>7. CASE AppendSaved(r)
  BY <1>7, NothingToAppend
<1>8. CASE AppendedSaved(r)
  <2>1. UNCHANGED <<data, dir>> /\ pc[r] = "append" /\ pc'[r] = "remove"
    BY <1>1, <1>8 DEF AppendedSaved, Goto, files
  <2> QED
    BY <1>3, <2>1
<1>9. CASE RemoveSaved(r)
  <2>1. /\ UNCHANGED data /\ pc[r] = "remove" /\ pc'[r] \in {"restored", "stat"}
        /\ dir'["mail"] = dir["mail"] /\ dir'["save"] \in {dir["save"], NoFile}
    BY <1>1, <1>9 DEF RemoveSaved, Goto
  <2> QED
    BY <2>1, BesideAs
<1>10. CASE TakeNewMail(r)
  <2>1. UNCHANGED <<data, dir>> /\ pc[r] = "newmail" /\ pc'[r] \in {"opensave", "done"}
    BY <1>1, <1>10 DEF TakeNewMail, Goto, files
  <2> QED
    BY <1>3, <2>1
<1>11. CASE MailboxGone(r)
  <2>1. UNCHANGED <<data, dir>> /\ pc[r] = "newmail" /\ pc'[r] \in {"opensave", "done"}
    BY <1>1, <1>11 DEF MailboxGone, Goto, files
  <2> QED
    BY <1>3, <2>1
<1>12. CASE OpenSave(r)
  BY <1>0, <1>12, OpenSaveAs
<1>13. ASSUME pc[r] = "copyout", NEW s, data' = [data EXCEPT ![ofd[r]] = s], UNCHANGED dir,
              pc'[r] = "copyout"
       PROVE  AsPromised(r)
  <2>1. dir["mail"] # NoFile /\ dir["save"] = ofd[r] /\ ofd[r] \in Ino
    BY <1>13 DEF Copies, TypeInv, AtTyped
  <2>2. dir["mail"] # ofd[r]
    <3>1. \A m, n \in Name : dir[m] = dir[n] /\ dir[m] # NoFile => m = n
      BY DEF TypeInv, StoreTyped
    <3> QED
      BY <1>1, <2>1, <3>1
  <2>3. dir["mail"] \in Ino
    BY <1>1, <2>1
  <2>4. data'[dir["mail"]] = data[dir["mail"]]
    BY <1>1, <1>13, <2>2, <2>3
  <2>5. pc[r] # "rename" /\ pc'[r] \notin {"rename", "empty"} /\ dir' = dir
    BY <1>13
  <2> QED
    BY <1>13, <2>1, <2>4, <2>5, BesideAs
<1>14. CASE CopyOut(r)
  BY <1>13, <1>14 DEF CopyOut, Append1
<1>15. CASE pc[r] = "copyout"
  BY <1>0, <1>14, <1>15, WritesOrDies, UnlinkMboxAs
<1>16. CASE UnlinkMbox(r)
  BY <1>16, UnlinkMboxAs
<1>17. CASE RenameSave(r)
  BY <1>0, <1>17, RenameSaveAs
<1>18. CASE RemoveEmpty(r)
  BY <1>18, RemoveEmptyAs
<1>19. CASE /\ UNCHANGED <<data, dir>> /\ pc[r] \notin {"rename", "copyout"}
            /\ pc'[r] \in {"idle", "done", "saved?", "restore"} \cup PutBack
  BY <1>3, <1>19 DEF PutBack, Reading0
<1>20. \/ pc[r] \in {"rename", "copyout"}
       \/ LookForSaved(r) \/ RestoreByName(r) \/ RestoreByCopy(r) \/ AppendSaved(r)
       \/ AppendedSaved(r) \/ RemoveSaved(r)
       \/ TakeNewMail(r) \/ MailboxGone(r) \/ OpenSave(r) \/ CopyOut(r)
       \/ UnlinkMbox(r) \/ RenameSave(r) \/ RemoveEmpty(r)
       \/ /\ UNCHANGED <<data, dir>> /\ pc[r] \notin {"rename", "copyout"}
          /\ pc'[r] \in {"idle", "done", "saved?", "restore"} \cup PutBack
  BY ReadingGoes DEF CopyOutFails
<1> QED
  BY <1>2, <1>4, <1>5, <1>6, <1>7, <1>8, <1>9, <1>10, <1>11, <1>12, <1>14, <1>15, <1>16,
     <1>17, <1>18, <1>19, <1>20

\* What was sound has always been.
LEMMA SoundBefore ==
    ASSUME TypeInv, [MailNext]_vars, Sound'
    PROVE  Sound
<1>1. killed \in BOOLEAN /\ ~crowd' /\ ~killed' /\ ~cut'
  BY DEF TypeInv, StoreTyped, Sound, Orderly
<1>2. ASSUME NEW d \in Deliverer, DeliveryStep(d) PROVE Sound
  BY <1>1, <1>2, DeliveryEnters, DeliveryKills, DeliveryCuts DEF Sound, Orderly
<1>3. ASSUME NEW r \in Reader, ReadingStep(r) PROVE Sound
  BY <1>1, <1>3, ReadingEnters, KilledStays, ReadingVarsTyped DEF Sound, Orderly
<1>4. UNCHANGED storevars => Sound
  BY <1>1 DEF storevars, Sound, Orderly
<1> QED
  BY <1>2, <1>3, <1>4 DEF MailNext, DeliveryStep, ReadingStep, BreakStale, vars

\* With one session the bin is that session's.
LEMMA BinIs ==
    ASSUME OneReader, NEW r \in Reader
    PROVE  /\ pc[r] \in Marking => MarkedLetters = BinOf(r)
           /\ pc[r] \notin Marking => MarkedLetters = {}
           /\ pc'[r] \notin Marking => MarkedLetters' = {}
<1>1. \A q \in Reader : q = r
  BY DEF OneReader
<1>2. ASSUME pc[r] \in Marking PROVE MarkedLetters = BinOf(r)
  <2>1. {q \in Reader : pc[q] \in Marking} = {r}
    BY <1>1, <1>2
  <2> QED
    BY <2>1 DEF MarkedLetters, BinOf
<1>3. ASSUME pc[r] \notin Marking PROVE MarkedLetters = {}
  <2>1. {q \in Reader : pc[q] \in Marking} = {}
    BY <1>1, <1>3
  <2> QED
    BY <2>1 DEF MarkedLetters
<1>4. ASSUME pc'[r] \notin Marking PROVE MarkedLetters' = {}
  <2>1. {q \in Reader : pc'[q] \in Marking} = {}
    BY <1>1, <1>4
  <2> QED
    BY <2>1 DEF MarkedLetters
<1> QED
  BY <1>2, <1>3, <1>4

\* The letters in the bin are in the mailbox.
MarksLetters == Sound => MarkedLetters \subseteq 1..Len(Letters(Current))

LEMMA MarksFit ==
    ASSUME OneReader, PromiseInv
    PROVE  MarksLetters
<1>1. SUFFICES ASSUME Sound, NEW r \in Reader, pc[r] \in Marking, NEW k \in BinOf(r)
              PROVE  k \in 1..Len(Letters(Current))
  <2>1. \A q \in Reader : pc[q] \in Marking => MarkedLetters = BinOf(q)
    BY BinIs
  <2>2. (\A q \in Reader : pc[q] \notin Marking) => MarkedLetters = {}
    BY DEF MarkedLetters
  <2> QED
    BY <2>1, <2>2 DEF MarksLetters
<1>2. /\ TypeInv /\ Exclusive /\ Apart /\ Unspoilt /\ Promised /\ Copies(r)
  BY <1>1, SoundFacts
<1>3. PICK t \in Seq(Block), m \in Nat : t = tmp[r] /\ m = Len(t)
  BY <1>2, LenProperties DEF TypeInv, ReaderTyped
<1>4. k \in 1..m /\ 2 * k <= m
  <2>1. PICK i \in del[r] : 2 * k <= let[r][i + 1]
    BY <1>1 DEF BinOf
  <2>2. PICK n \in Nat, l \in Seq(Nat) : l = let[r] /\ n = Len(l)
    BY <1>2, LenProperties DEF TypeInv, TablesTyped, TableOK
  <2>3. del[r] \subseteq 1..n - 1 /\ \A j \in 1..n : l[j] <= m /\ l[j] \in Nat
    BY <1>2, <1>3, <2>2, ElementOfSeq DEF TypeInv, TablesTyped, TableOK
  <2>4. i + 1 \in 1..n
    BY <2>2, <2>3
  <2> QED
    BY <1>1, <1>3, <2>1, <2>2, <2>3, <2>4 DEF BinOf
<1>5. dir["mail"] # NoFile /\ IsPrefix(t, data[dir["mail"]])
  <2>1. CASE pc[r] \in Reading0
    BY <1>2, <1>3, <2>1 DEF Apart, ReadsOn
  <2>2. CASE pc[r] \in {"opensave", "copyout"}
    <3>1. dir["mail"] # NoFile /\ t = data[dir["mail"]]
      BY <1>2, <1>3, <2>2 DEF Copies
    <3>2. IsPrefix(t, t)
      BY <1>3, PrefixFacts
    <3> QED
      BY <3>1, <3>2
  <2> QED
    BY <1>1, <2>1, <2>2 DEF Marking, Reading0
<1>6. PICK c \in Seq(Block) : c = Current /\ m <= Len(c)
  <2>1. MailIsIn
    BY WhereMailIs
  <2>2. Current = data[dir["mail"]] /\ Current \in Seq(Block)
    BY <1>2, <1>5, <2>1 DEF MailIsIn, TypeInv, StoreTyped, Name
  <2> QED
    BY <1>3, <1>5, <2>2, PrefixFacts
<1>7. CASE Entire(c)
  <2>1. PICK n \in Nat : n = Len(Letters(c)) /\ Len(c) = 2 * n
    BY <1>7, LenProperties DEF Entire, Spells
  <2>2. k <= n
    BY <1>3, <1>4, <1>6, <2>1
  <2> QED
    BY <1>4, <1>6, <2>1, <2>2
<1>8. CASE \E b \in Seq(Block), l \in Letter : Entire(b) /\ c = Append(b, From(l))
  <2>1. PICK b \in Seq(Block), l \in Letter : Entire(b) /\ c = Append(b, From(l))
    BY <1>8
  <2>2. PICK n \in Nat : n = Len(Letters(b)) /\ Len(b) = 2 * n
    BY <2>1, LenProperties DEF Entire, Spells
  <2>3. Letters(c) = Letters(b) /\ Len(c) = 2 * n + 1
    BY <2>1, <2>2, SpellsHalf DEF Entire
  <2>4. k <= n
    BY <1>3, <1>4, <1>6, <2>3
  <2> QED
    BY <1>4, <1>6, <2>2, <2>3, <2>4
<1> QED
  BY <1>2, <1>6, <1>7, <1>8, WhatIsCurrent

\* Every step, read as letters.
LEMMA PromiseStep ==
    ASSUME OneReader, SureFiles, PromiseInv, PromiseInv', Sound, Sound', [MailNext]_vars
    PROVE  \/ UNCHANGED <<Letters(Current), accepted>>
           \/ \E l \in Letter \ ToSet(accepted) :
                /\ Letters(Current)' = Append(Letters(Current), l)
                /\ accepted' = Append(accepted, l) /\ UNCHANGED MarkedLetters
           \/ /\ Chosen(Letters(Current)', Letters(Current), Len(Letters(Current)),
                        MarkedLetters)
              /\ MarkedLetters' = {} /\ UNCHANGED accepted
<1> DEFINE Goal ==
           \/ UNCHANGED <<Letters(Current), accepted>>
           \/ \E l \in Letter \ ToSet(accepted) :
                /\ Letters(Current)' = Append(Letters(Current), l)
                /\ accepted' = Append(accepted, l) /\ UNCHANGED MarkedLetters
           \/ /\ Chosen(Letters(Current)', Letters(Current), Len(Letters(Current)),
                        MarkedLetters)
              /\ MarkedLetters' = {} /\ UNCHANGED accepted
<1>1. /\ TypeInv /\ Exclusive /\ Apart /\ Unspoilt /\ Promised
      /\ (\A r \in Reader : Copies(r)) /\ \A d \in Deliverer : Told(d)
  BY SoundFacts
<1>2. ~killed'
  BY DEF Sound
<1>3. ASSUME NEW d \in Deliverer, DeliveryStep(d) PROVE Goal
  <2>1. \/ UNCHANGED <<Letters(Current), accepted>>
        \/ /\ Letters(Current)' = Append(Letters(Current), d)
           /\ accepted' = Append(accepted, d) /\ pc[d] = "rest"
    BY <1>1, <1>3, DeliveryPromised
  <2>2. d \in Letter /\ (pc[d] = "rest" => d \notin ToSet(accepted))
    BY <1>1 DEF Letter, Told
  <2>3. UNCHANGED MarkedLetters
    <3>1. UNCHANGED <<tmp, let, del>>
      BY <1>3 DEF DeliveryStep, readervars
    <3>2. \A r \in Reader : pc'[r] = pc[r]
      <4>1. \A r \in Reader : r \in Proc /\ r # d
        BY StoreAssumption
      <4> QED
        BY <1>1, <1>3, <4>1, DeliveryBeside
    <3>3. {q \in Reader : pc'[q] \in Marking} = {q \in Reader : pc[q] \in Marking}
      BY <3>2
    <3> QED
      BY <3>1, <3>3 DEF MarkedLetters
  <2> QED
    BY <2>1, <2>2, <2>3
<1>4. ASSUME NEW r \in Reader, ReadingStep(r) PROVE Goal
  <2>1. AsPromised(r)
    BY <1>1, <1>2, <1>4, SessionAs
  <2>2. UNCHANGED accepted
    BY <1>4, ReadingAccepts
  <2>3. CASE Letters(Current)' = Letters(Current)
    BY <2>2, <2>3
  <2>4. CASE /\ pc[r] = "copyout" /\ pc'[r] = "rename"
             /\ Chosen(Letters(Current)', Letters(Current), Len(Letters(Current)), BinOf(r))
    <3>1. MarkedLetters = BinOf(r) /\ MarkedLetters' = {}
      BY <2>4, BinIs DEF Marking
    <3> QED
      BY <2>2, <2>4, <3>1
  <2> QED
    BY <2>1, <2>3, <2>4 DEF AsPromised
<1>5. CASE UNCHANGED <<storevars, readervars>>
  <2>1. UNCHANGED <<data, dir, pc, sname, let, accepted>>
    BY <1>5 DEF storevars, readervars
  <2>2. Letters(Current)' = Letters(Current)
    BY <2>1, MailStays
  <2> QED
    BY <2>1, <2>2
<1> HIDE DEF Goal
<1>6. ASSUME NEW p \in Proc, BreakStale(p), UNCHANGED <<delivervars, readervars>>
      PROVE  UNCHANGED <<storevars, readervars>>
  BY <1>6 DEF BreakStale
<1>7. \/ \E d \in Deliverer : DeliveryStep(d)
      \/ \E r \in Reader : ReadingStep(r)
      \/ UNCHANGED <<storevars, readervars>>
  <2>1. UNCHANGED vars => UNCHANGED <<storevars, readervars>>
    BY DEF vars
  <2> QED
    BY <1>6, <2>1 DEF MailNext, DeliveryStep, ReadingStep
<1>8. CASE \E d \in Deliverer : DeliveryStep(d)
  <2>1. PICK d \in Deliverer : DeliveryStep(d)
    BY <1>8
  <2>2. Goal
    BY <1>3, <2>1
  <2> QED
    BY <2>2 DEF Goal
<1>9. CASE \E r \in Reader : ReadingStep(r)
  <2>1. PICK r \in Reader : ReadingStep(r)
    BY <1>9
  <2>2. Goal
    BY <1>4, <2>1
  <2> QED
    BY <2>2 DEF Goal
<1>10. CASE UNCHANGED <<storevars, readervars>>
  BY <1>5, <1>10 DEF Goal
<1> QED
  BY <1>7, <1>8, <1>9, <1>10

\* What the invariant says of the way from the save file stays true.
LEMMA PromisedStep ==
    ASSUME OneReader, SureFiles, PromiseInv, SafeInv', Sound, Sound', [MailNext]_vars
    PROVE  Promised'
<1>1. /\ TypeInv /\ Exclusive /\ Apart /\ Unspoilt /\ Promised
      /\ \A r \in Reader : Copies(r)
  BY SoundFacts
<1>2. ~killed' /\ ~cut' /\ Orderly'
  BY DEF Sound, Orderly
<1>3. ASSUME NEW d \in Deliverer, DeliveryStep(d) PROVE Promised'
  BY <1>1, <1>3, DeliveryPromised
<1>4. ASSUME NEW r \in Reader, ReadingStep(r) PROVE Promised'
  <2>1. AsPromised(r)
    BY <1>1, <1>2, <1>4, SessionAs
  <2>2. Ordered(let'[r]) /\ let'[r][1] = 0
    BY <1>1, <1>2, <1>4, SessionOrdered, SessionFirst
  <2>3. pc'[r] \in {"opensave", "copyout"} => End(r)' = Len(tmp'[r])
    <3>1. Copies(r)'
      BY <1>2 DEF SafeInv
    <3> QED
      BY <1>1, <1>2, <1>4, <3>1, SessionEnds
  <2>4. \A q \in Reader : q = r
    BY DEF OneReader
  <2> QED
    BY <2>1, <2>2, <2>3, <2>4 DEF AsPromised, Promised
<1>5. CASE UNCHANGED <<storevars, readervars>>
  <2>1. UNCHANGED <<data, dir, pc, let, tmp>>
    BY <1>5 DEF storevars, readervars
  <2> QED
    BY <1>1, <2>1 DEF Promised, End
<1>6. ASSUME NEW p \in Proc, BreakStale(p), UNCHANGED <<delivervars, readervars>>
      PROVE  UNCHANGED <<storevars, readervars>>
  BY <1>6 DEF BreakStale
<1>7. \/ \E d \in Deliverer : DeliveryStep(d)
      \/ \E r \in Reader : ReadingStep(r)
      \/ UNCHANGED <<storevars, readervars>>
  <2>1. UNCHANGED vars => UNCHANGED <<storevars, readervars>>
    BY DEF vars
  <2> QED
    BY <1>6, <2>1 DEF MailNext, DeliveryStep, ReadingStep
<1> QED
  BY <1>3, <1>4, <1>5, <1>7

LEMMA PromiseInvStep ==
    ASSUME OneReader, SureFiles, PromiseInv, [MailNext]_vars
    PROVE  PromiseInv'
<1>0. SureCalls /\ "copystream" \notin Fails
  BY DEF SureFiles, SureCalls
<1>1. SafeInv' /\ WholeInv' /\ CleanInv'
  BY <1>0, SafeInvStep, WholeInvStep, CleanInvStep DEF PromiseInv
<1>2. ASSUME Sound' PROVE Promised'
  <2>1. Sound
    BY <1>2, SoundBefore DEF PromiseInv, WholeInv
  <2> QED
    BY <1>1, <1>2, <2>1, PromisedStep
<1> QED
  BY <1>1, <1>2 DEF PromiseInv

\* At the start the letters are the old ones.
LEMMA PromiseInvAtStart ==
    ASSUME OneReader, MailInit
    PROVE  PromiseInv /\ Letters(Current) = OldMail
<1>1. /\ dir = [n \in Name |-> IF n = "mail" /\ Old # {} THEN 1 ELSE NoFile]
      /\ Reader \subseteq Proc /\ 1 \in Ino /\ NoFile \notin Ino
      /\ \A p \in Proc : pc[p] = "idle"
      /\ \A r \in Reader : let[r] = <<0>>
  BY StoreAssumption DEF MailInit, StoreInit, ReaderInit
<1>2. /\ dir["save"] = NoFile
      /\ dir["mail"] = IF Old # {} THEN 1 ELSE NoFile
      /\ \A r \in Reader : pc[r] = "idle"
  BY <1>1 DEF Name
<1>3. Ordered(<<0>>)
  <2>1. PICK l : l = <<0>>
    OBVIOUS
  <2>2. Len(l) = 1 /\ l[1] = 0
    BY <2>1
  <2>3. Last(l) = 0
    BY <2>2 DEF Last
  <2>4. RisesTo(l, 0)
    BY <2>2 DEF RisesTo
  <2> QED
    BY <2>1, <2>3, <2>4 DEF Ordered
<1>10. data = [i \in Ino |-> IF i = 1 THEN data[1] ELSE <<>>] /\ <<0>>[1] = 0
  BY <1>1 DEF MailInit, StoreInit
<1>4. Promised
  BY <1>1, <1>2, <1>3, <1>10 DEF Promised
<1>5. MailIsIn
  BY WhereMailIs
<1>6. CASE Old # {}
  <2>1. Current = data[1]
    BY <1>1, <1>2, <1>5, <1>6 DEF MailIsIn
  <2>2. Letters(data[1]) = OldMail
    BY FilesAtStart, SpellsEntire
  <2> QED
    BY <1>4, <2>1, <2>2, SafeInvAtStart, WholeInvAtStart, CleanInvAtStart
       DEF PromiseInv
<1>7. CASE Old = {}
  <2>1. \A r \in Reader : pc[r] # "rename"
    BY <1>2
  <2>2. Current = <<>>
    BY <1>2, <1>5, <1>7, <2>1 DEF MailIsIn
  <2>3. OldMail = <<>>
    <3>1. PICK o : o = OldMail
      OBVIOUS
    <3>2. o \in Seq(Old)
      BY <3>1, SetToSeqFacts, StoreAssumption DEF OldMail
    <3>3. \A i \in 1..Len(o) : FALSE
      BY <1>7, <3>2, ElementOfSeq
    <3>4. Len(o) = 0
      BY <3>2, <3>3, LenProperties
    <3> QED
      BY <3>1, <3>2, <3>4, EmptySeq
  <2>4. Letters(Current) = <<>>
    BY <2>2, EntireNothing
  <2> QED
    BY <1>4, <2>3, <2>4, SafeInvAtStart, WholeInvAtStart, CleanInvAtStart
       DEF PromiseInv
<1> QED
  BY <1>6, <1>7

LEMMA AcceptedGrows ==
    ASSUME accepted \in Seq(Letter), NEW l \in Letter, accepted' = Append(accepted, l)
    PROVE  ToSet(accepted') = ToSet(accepted) \cup {l}
<1>1. PICK s \in Seq(Letter), n \in Nat, u \in Seq(Letter) :
          s = accepted /\ n = Len(s) /\ u = Append(s, l)
  BY AppendProperties, LenProperties
<1>2. u \in Seq(Letter) /\ Len(u) = n + 1 /\ u[n + 1] = l /\ \A i \in 1..n : u[i] = s[i]
  BY <1>1, AppendFacts
<1>3. DOMAIN s = 1..n /\ DOMAIN u = 1..n + 1
  BY <1>1, <1>2, LenProperties
<1>4. \A i \in 1..n + 1 : i \in 1..n \/ i = n + 1
  BY <1>1
<1>5. {u[i] : i \in 1..n + 1} = {s[i] : i \in 1..n} \cup {l}
  BY <1>1, <1>2, <1>4
<1>6. ToSet(u) = ToSet(s) \cup {l}
  BY <1>3, <1>5 DEF ToSet
<1> QED
  BY <1>1, <1>6

\* The mailbox, read as letters, is the sequence that Mailbox describes: a delivery puts
\* its letter at the end, once, and what copyback() writes back are the letters that were
\* there without those that are marked, each of them, in their order.  Everything else -
\* rename() of the save file, new mail that is read, a write that fails and is cut off
\* again, a letter that is marked - leaves the letters as they are.  It is what Mailbox says
\* as long as nobody was killed in the middle of a copy, no two processes were in the
\* mailbox at once and no interrupt has left the table half made, for one session at a
\* time and with the calls of SureFiles.
THEOREM PromiseKept ==
    ASSUME OneReader, SureFiles
    PROVE  MailSpec => KeepsPromise
<1>1. ASSUME MailInit PROVE Promise!MailboxInit
  <2>1. Letters(Current) = OldMail
    BY <1>1, PromiseInvAtStart
  <2>2. accepted = OldMail /\ Sound
    BY <1>1 DEF MailInit, StoreInit, Sound, Orderly
  <2>3. ToSet(accepted) = {OldMail[i] : i \in 1..Len(OldMail)}
    <3>1. PICK o : o = OldMail /\ o \in Seq(Old)
      BY SetToSeqFacts, StoreAssumption DEF OldMail
    <3>2. DOMAIN o = 1..Len(o)
      BY <3>1, LenProperties
    <3> QED
      BY <2>2, <3>1, <3>2 DEF ToSet
  <2>4. MarkedLetters = {}
    <3>1. \A r \in Reader : pc[r] = "idle"
      BY <1>1, StoreAssumption DEF MailInit, StoreInit
    <3>2. {q \in Reader : pc[q] \in Marking} = {}
      BY <3>1 DEF Marking
    <3> QED
      BY <3>2 DEF MarkedLetters
  <2> QED
    BY <2>1, <2>2, <2>3, <2>4 DEF Promise!MailboxInit
<1>2. ASSUME PromiseInv, MarksLetters, PromiseInv', MarksLetters', [MailNext]_vars
      PROVE  [Promise!MailboxNext]_<<Letters(Current), ToSet(accepted), MarkedLetters, Sound>>
  <2>1. CASE ~(Sound /\ Sound')
    BY <2>1 DEF Promise!MailboxNext
  <2>2. CASE Sound /\ Sound'
    <3>1. \/ UNCHANGED <<Letters(Current), accepted>>
          \/ \E l \in Letter \ ToSet(accepted) :
                /\ Letters(Current)' = Append(Letters(Current), l)
                /\ accepted' = Append(accepted, l) /\ UNCHANGED MarkedLetters
          \/ /\ Chosen(Letters(Current)', Letters(Current), Len(Letters(Current)),
                       MarkedLetters)
             /\ MarkedLetters' = {} /\ UNCHANGED accepted
      BY <1>2, <2>2, PromiseStep
    <3>2. CASE UNCHANGED <<Letters(Current), accepted>>
      <4>1. ToSet(accepted)' = ToSet(accepted)
        BY <3>2
      <4>2. MarkedLetters' \subseteq 1..Len(Letters(Current))
        BY <1>2, <2>2, <3>2 DEF MarksLetters
      <4> QED
        BY <3>2, <4>1, <4>2 DEF Promise!MailboxNext, Promise!Mark
    <3>3. ASSUME NEW l \in Letter \ ToSet(accepted),
                 Letters(Current)' = Append(Letters(Current), l),
                 accepted' = Append(accepted, l), UNCHANGED MarkedLetters
          PROVE  Promise!MailboxNext
      <4>1. accepted \in Seq(Letter)
        BY <1>2 DEF PromiseInv, WholeInv, TypeInv, StoreTyped
      <4>2. ToSet(accepted)' = ToSet(accepted) \cup {l}
        BY <3>3, <4>1, AcceptedGrows
      <4> QED
        BY <3>3, <4>2 DEF Promise!MailboxNext, Promise!Deliver
    <3>4. CASE /\ Chosen(Letters(Current)', Letters(Current), Len(Letters(Current)),
                        MarkedLetters)
               /\ MarkedLetters' = {} /\ UNCHANGED accepted
      <4>1. ToSet(accepted)' = ToSet(accepted)
        BY <3>4
      <4> QED
        BY <3>4, <4>1 DEF Promise!MailboxNext, Promise!TakeOut, Chosen
    <3> QED
      BY <3>1, <3>2, <3>3, <3>4
  <2> QED
    BY <2>1, <2>2
<1>3. MailInit => PromiseInv
  BY PromiseInvAtStart
<1>4. PromiseInv /\ [MailNext]_vars => PromiseInv'
  BY PromiseInvStep
<1>5. PromiseInv => MarksLetters
  BY MarksFit
<1> QED
  BY <1>1, <1>2, <1>3, <1>4, <1>5, PTL DEF MailSpec, KeepsPromise, Promise!MailboxSpec

=============================================================================
