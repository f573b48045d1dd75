----------------------------- MODULE MailStore -----------------------------
(***************************************************************************)
(* The files of one mailbox and what every process running mail(1) does to *)
(* them: opening, appending, cutting back, and its three ways to stop.     *)
(* MailDeliver and MailReader add the two programs, Mail puts them         *)
(* together.                                                               *)
(*                                                                         *)
(* A letter is two blocks, its From line and the rest of it, because it    *)
(* reaches the file by several writes.  A mailbox is a sequence of blocks. *)
(* Names and contents are kept apart: unlink() and rename() change names,  *)
(* a file that is open stays what it is.                                   *)
(***************************************************************************)
EXTENDS MboxLock, Integers, Sequences, FiniteSets, SequencesExt

CONSTANTS
    Ino,        \* numbers of the files there can be at once
    NoFile,     \* no file has this name
    Reader,     \* processes of the owner of the mailbox, reading it
    Deliverer,  \* processes that deliver one letter each, named after them
    Old,        \* letters that are in the mailbox at the start
    MaxReads,   \* how often each reader may be started
    MaxTries,   \* how often each delivery may be tried
    Fails       \* the calls that may fail, by name

ASSUME StoreAssumption ==
    /\ Ino \subseteq Nat /\ 1 \in Ino
    /\ NoFile \notin Ino
    /\ Proc = Reader \cup Deliverer
    /\ Reader \cap Deliverer = {}
    /\ Old \cap Proc = {} /\ IsFiniteSet(Old)
    /\ MaxReads \in Nat /\ MaxTries \in Nat

VARIABLES
    data,       \* the blocks in every file
    dir,        \* which file has the name of the mailbox, of the save file in
                \* :saved, and of the one made when that cannot be written
    pc,         \* where a process is
    runs,       \* how often a process has been started
    fd,         \* the mailbox, or the save file, a process has open
    accepted,   \* history: the letters appended in full, in order
    purged,     \* history: letters the owner deleted and that were taken out
    crowd,      \* history: two processes were in the mailbox at once
    killed,     \* history: some process ended by a signal
    cut         \* history: the loading of new mail was interrupted half-way

storevars == <<data, dir, pc, runs, fd, accepted, purged, crowd, killed,
               cut>>
files == <<data, dir>>
history == <<accepted, purged, killed, cut>>

Name == {"mail", "save", "alt"}
Letter == Deliverer \cup Old
Block == Letter \X {"from", "rest"}
From(l) == <<l, "from">>
Rest(l) == <<l, "rest">>
IsFrom(b) == b[2] = "from"

Size(i) == Len(data[i])

\* The letters that a sequence of blocks holds in full.
Whole(s) == {l \in Letter :
                \E i \in 1..Len(s) - 1 : s[i] = From(l) /\ s[i + 1] = Rest(l)}

OldMail == SetToSeq(Old)

StoreInit ==
    /\ data = [i \in Ino |-> IF i = 1 THEN FlattenSeq([k \in 1..Len(OldMail) |->
                                   <<From(OldMail[k]), Rest(OldMail[k])>>])
                             ELSE <<>>]
    /\ dir = [n \in Name |-> IF n = "mail" /\ Old # {} THEN 1 ELSE NoFile]
    /\ pc = [p \in Proc |-> "idle"]
    /\ runs = [p \in Proc |-> 0]
    /\ fd = [p \in Proc |-> NoFile]
    /\ accepted = OldMail
    /\ purged = {}
    /\ crowd = FALSE
    /\ killed = FALSE
    /\ cut = FALSE

-----------------------------------------------------------------------------
(* Files *)

Linked == {dir[n] : n \in Name} \ {NoFile}
Open == {fd[p] : p \in Proc} \ {NoFile}

\* No file can be made when there is none left: Ino bounds the model, not the disk.
Unused == Ino \ (Linked \cup Open)

\* The number of a file that is about to be made.
NewIno == CHOOSE i \in Unused : \A j \in Unused : i <= j

\* ftruncate(fileno(f), pos)
CutTo(s, pos) == SubSeq(s, 1, IF pos < Len(s) THEN pos ELSE Len(s))

Append1(i, b) == data' = [data EXCEPT ![i] = Append(@, b)]

-----------------------------------------------------------------------------
(* Steps that all processes have *)

Goto(p, l) == pc' = [pc EXCEPT ![p] = l]

\* lock() is called, to go on at l.
AskThen(p, l) == Ask(p) /\ Goto(p, l)

\* A process is in the mailbox: it has been given the lock and has not given it
\* back, or it has, in done(), and has yet to write out a buffer.
Inside(p) == locked[p] \/ pc[p] = "flush"

\* lock() returns, at l.  Without a lock file is the only way in.
TakeAt(p, l, next) ==
    /\ pc[p] = l
    /\ Take(p)
    /\ crowd' = (crowd \/ \E q \in Proc \ {p} : Inside(q))
    /\ Goto(p, next)

Release(p) == Mailunlock(p)

\* The labels at which a process waits in lock().
Waiting == {"lock", "cksave", "load", "reload", "rewrite"}

\* Mutant: only a lock of its own is taken for an error.
BreakOwn(p) ==
    /\ pc[p] \in Waiting
    /\ holder = p
    /\ Break(p)
    /\ UNCHANGED storevars

\* Five minutes have passed: a process that waits removes the lock.
BreakStale(p) ==
    /\ pc[p] \in Waiting
    /\ holder # None
    /\ Break(p)
    /\ UNCHANGED storevars

=============================================================================
