---------------------------- MODULE MailDeliver ----------------------------
(***************************************************************************)
(* Delivery: mail -d, one recipient, one letter (mail/sendlist.c with      *)
(* islocal.c, lock.c, createmf.c, copylet.c and done.c).  The mail system  *)
(* starts it again until it reports success by its exit status.            *)
(***************************************************************************)
EXTENDS MailStore

VARIABLES
    seen,       \* what lstat() of the mailbox showed: a file number or NoFile
    pos,        \* where the letter starts, from ftell()
    errno,      \* sav_errno is set
    status      \* how the last run ended, as its exit status tells

delivervars == <<seen, pos, errno, status>>

DeliverInit ==
    /\ seen = [d \in Deliverer |-> NoFile]
    /\ pos = [d \in Deliverer |-> 0]
    /\ errno = [d \in Deliverer |-> FALSE]
    /\ status = [d \in Deliverer |-> "queued"]

Exit(d) ==
    /\ status' = [status EXCEPT ![d] = IF errno[d] THEN "failed" ELSE "sent"]
    /\ fd' = [fd EXCEPT ![d] = NoFile]
    /\ Goto(d, "idle")

-----------------------------------------------------------------------------
StartDelivery(d) ==
    /\ pc[d] = "idle"
    /\ status[d] # "sent"
    /\ runs[d] < MaxTries
    /\ Again(d)
    /\ Goto(d, "find")
    /\ runs' = [runs EXCEPT ![d] = @ + 1]
    /\ errno' = [errno EXCEPT ![d] = FALSE]
    /\ UNCHANGED <<files, fd, history, crowd, seen, pos, status>>

\* islocal(): the mailbox exists or the user has a password entry.
FindUser(d) ==
    /\ pc[d] = "find"
    /\ AskThen(d, "lock")
    /\ UNCHANGED <<files, runs, fd, history, crowd, delivervars>>

\* send_mbox() returns 1, which sendlist() takes for success.
UserUnknown(d) ==
    /\ pc[d] = "find"
    /\ dir["mail"] = NoFile
    /\ "getpwnam" \in Fails
    /\ Goto(d, "done")
    /\ UNCHANGED <<mboxlock, files, runs, fd, history, crowd, delivervars>>

LockMbox(d) ==
    /\ TakeAt(d, "lock", "lstat")
    /\ UNCHANGED <<files, runs, fd, history, delivervars>>

\* maillock() gives up: an error message, an attempt to return the letter to
\* its sender, and the end.
LockMboxFails(d) ==
    /\ pc[d] = "lock"
    /\ "maillock" \in Fails
    /\ Goto(d, "done")
    /\ UNCHANGED <<mboxlock, files, runs, fd, history, crowd, delivervars>>

\* accessmf(): look at the name first.
LookAtMbox(d) ==
    /\ pc[d] = "lstat"
    /\ seen' = [seen EXCEPT ![d] = dir["mail"]]
    /\ Goto(d, "open")
    /\ UNCHANGED <<mboxlock, files, runs, fd, history, crowd, pos, errno, status>>

\* accessmf(): no mailbox, so make one and insist that it is new.
CreateMbox(d) ==
    /\ pc[d] = "open"
    /\ seen[d] = NoFile
    /\ IF dir["mail"] = NoFile
       THEN /\ Unused # {}
            /\ dir' = [dir EXCEPT !["mail"] = NewIno]
            /\ data' = [data EXCEPT ![NewIno] = <<>>]
            /\ fd' = [fd EXCEPT ![d] = NewIno]
            /\ Goto(d, "from")
       ELSE /\ Goto(d, "lstat")
            /\ UNCHANGED <<files, fd>>
    /\ UNCHANGED <<mboxlock, runs, history, crowd, delivervars>>

\* accessmf(): open the mailbox and insist that it is the file looked at.
OpenMbox(d) ==
    /\ pc[d] = "open"
    /\ seen[d] # NoFile
    /\ dir["mail"] = seen[d]
    /\ fd' = [fd EXCEPT ![d] = seen[d]]
    /\ Goto(d, "from")
    /\ UNCHANGED <<mboxlock, files, runs, history, crowd, delivervars>>

OpenMboxFails(d) ==
    /\ pc[d] = "open"
    /\ \/ seen[d] # NoFile /\ dir["mail"] # seen[d]
       \/ "open" \in Fails
    /\ Goto(d, "fail")
    /\ UNCHANGED <<mboxlock, files, runs, fd, history, crowd, delivervars>>

\* Mutant: a mailbox that cannot be opened is tried again from the start.
BailOutAgain(d) ==
    /\ pc[d] = "fail"
    /\ Release(d)
    /\ Goto(d, "find")
    /\ UNCHANGED <<files, runs, fd, history, crowd, delivervars>>

\* send_mbox(): unlock() here, and once more on the common way out.
BailOut(d) ==
    /\ pc[d] = "fail"
    /\ Release(d)
    /\ errno' = [errno EXCEPT ![d] = TRUE]
    /\ Goto(d, "unlock")
    /\ UNCHANGED <<files, runs, fd, history, crowd, seen, pos, status>>

\* copylet(): note the end of the file, then write what the buffer holds.
WriteFrom(d) ==
    /\ pc[d] = "from"
    /\ pos' = [pos EXCEPT ![d] = Size(fd[d])]
    /\ Append1(fd[d], From(d))
    /\ Goto(d, "rest")
    /\ UNCHANGED <<mboxlock, dir, runs, fd, history, crowd, seen, errno, status>>

\* Mutant: the letter is put in front of those there are.
WriteInFront(d) ==
    /\ pc[d] = "rest"
    /\ data' = [data EXCEPT ![fd[d]] = <<From(d), Rest(d)>> \o CutTo(@, pos[d])]
    /\ accepted' = Append(accepted, d)
    /\ Goto(d, "unlock")
    /\ UNCHANGED <<mboxlock, dir, runs, fd, purged, killed, cut, crowd,
                   delivervars>>

WriteRest(d) ==
    /\ pc[d] = "rest"
    /\ Append1(fd[d], Rest(d))
    /\ accepted' = Append(accepted, d)
    /\ Goto(d, "unlock")
    /\ UNCHANGED <<mboxlock, dir, runs, fd, purged, killed, cut, crowd,
                   delivervars>>

\* Mutant: the letter is not cut off.
WriteFailsUncut(d) ==
    /\ pc[d] = "rest"
    /\ \/ /\ "fwrite" \in Fails
          /\ errno' = [errno EXCEPT ![d] = TRUE]
       \/ /\ "fflush" \in Fails
          /\ UNCHANGED errno
    /\ Goto(d, "unlock")
    /\ UNCHANGED <<mboxlock, files, runs, fd, history, crowd, seen, pos, status>>

\* A write fails: the letter is cut off again.  fwrite() sets sav_errno, the
\* last fflush() does not.
WriteFails(d) ==
    /\ pc[d] = "rest"
    /\ \/ /\ "fwrite" \in Fails
          /\ errno' = [errno EXCEPT ![d] = TRUE]
       \/ /\ "fflush" \in Fails
          /\ UNCHANGED errno
    /\ data' = [data EXCEPT ![fd[d]] = CutTo(@, pos[d])]
    /\ Goto(d, "unlock")
    /\ UNCHANGED <<mboxlock, dir, runs, fd, history, crowd, seen, pos, status>>

UnlockMbox(d) ==
    /\ pc[d] = "unlock"
    /\ Release(d)
    /\ fd' = [fd EXCEPT ![d] = NoFile]
    /\ Goto(d, "done")
    /\ UNCHANGED <<files, runs, history, crowd, delivervars>>

\* done(0), called by main() when sendmail() is through: unlock() again.
DoneDelivery(d) ==
    /\ pc[d] = "done"
    /\ Release(d)
    /\ Exit(d)
    /\ UNCHANGED <<files, runs, history, crowd, seen, pos, errno>>

-----------------------------------------------------------------------------
\* SIGTERM, which send_mbox() does not ignore: done(0) unlocks and exits with
\* what sav_errno says.  exit() writes out what the stream of the mailbox still
\* holds, after the lock is gone.
SignalDelivery(d) ==
    /\ pc[d] \notin {"idle", "flush"}
    /\ Release(d)
    /\ killed' = (killed \/ pc[d] = "rest")
    /\ IF pc[d] = "rest" THEN Goto(d, "flush") /\ UNCHANGED <<fd, status>>
                         ELSE Exit(d)
    /\ UNCHANGED <<files, runs, accepted, purged, cut, crowd, seen, pos, errno>>

ExitFlush(d) ==
    /\ pc[d] = "flush"
    /\ \/ UNCHANGED <<data, accepted>>
       \/ Append1(fd[d], Rest(d)) /\ accepted' = Append(accepted, d)
    /\ Exit(d)
    /\ UNCHANGED <<mboxlock, dir, runs, purged, killed, cut, crowd, seen, pos, errno>>

\* The machine or the process dies.
CrashDelivery(d) ==
    /\ pc[d] # "idle"
    /\ Die(d)
    /\ killed' = (killed \/ pc[d] \in {"rest", "unlock", "done"})
    /\ status' = [status EXCEPT ![d] = "failed"]
    /\ fd' = [fd EXCEPT ![d] = NoFile]
    /\ Goto(d, "idle")
    /\ UNCHANGED <<files, runs, accepted, purged, cut, crowd, seen, pos, errno>>

SendMbox(d) ==
    \/ FindUser(d) \/ UserUnknown(d)
    \/ LockMbox(d) \/ LockMboxFails(d)
    \/ LookAtMbox(d) \/ CreateMbox(d) \/ OpenMbox(d) \/ OpenMboxFails(d)
    \/ BailOut(d)
    \/ WriteFrom(d) \/ WriteRest(d) \/ WriteFails(d)
    \/ UnlockMbox(d) \/ DoneDelivery(d)

KillDelivery(d) ==
    "kill" \in Fails /\ (SignalDelivery(d) \/ CrashDelivery(d))

=============================================================================
