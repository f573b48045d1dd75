----------------------------- MODULE MailReader -----------------------------
(***************************************************************************)
(* Reading mail: what the owner of the mailbox runs.  First cksaved() puts *)
(* back what an earlier run left in :saved, then printmail() copies the    *)
(* mailbox to a temporary file and takes commands, and at the end          *)
(* copyback() writes the letters that are kept to the save file, which     *)
(* then becomes the mailbox.  (mail/cksaved.c, printmail.c, copymt.c,      *)
(* copyback.c, delempty.c.)                                                *)
(***************************************************************************)
EXTENDS MailStore

CONSTANTS
    MaxLet,     \* letters the table holds (MAXLET - 2)
    DelEmpty    \* whether an empty mailbox is removed (DEL_EMPTY_MFILE)

ASSUME ReaderAssumption == MaxLet \in Nat \ {0} /\ DelEmpty \in BOOLEAN

VARIABLES
    tmp,        \* the temporary file: blocks
    let,        \* let[].adr: where the letters begin, and the end
    del,        \* the letters with a let[].change other than ' '
    size,       \* file_size
    newsize,    \* st_size as the last stat() before lock() found it
    ofd,        \* the file being written: mailbox in cksaved, save in copyback
    sname,      \* the name of the save file in use
    at          \* blocks already written to it

readervars == <<tmp, let, del, size, newsize, ofd, sname, at>>

ReaderInit ==
    /\ tmp = [r \in Reader |-> <<>>]
    /\ let = [r \in Reader |-> <<0>>]
    /\ del = [r \in Reader |-> {}]
    /\ size = [r \in Reader |-> 0]
    /\ newsize = [r \in Reader |-> 0]
    /\ ofd = [r \in Reader |-> NoFile]
    /\ sname = [r \in Reader |-> "save"]
    /\ at = [r \in Reader |-> 0]

nlet(r) == Len(let[r]) - 1
End(r) == let[r][Len(let[r])]

\* Mutant: every letter without its last block.
KeptShort(r) == FlattenSeq([i \in 1..nlet(r) |->
               IF i \in del[r] THEN <<>>
               ELSE SubSeq(tmp[r], let[r][i] + 1, let[r][i + 1] - 1)])

\* The letters that copyback() keeps, one after the other.
Kept(r) == FlattenSeq([i \in 1..nlet(r) |->
               IF i \in del[r] THEN <<>>
               ELSE SubSeq(tmp[r], let[r][i] + 1, let[r][i + 1])])

\* copymt() has copied the blocks s behind the end of the table l: an entry for
\* every From line as long as there is room, and a new end.
Mark(l, s) ==
    LET end == Last(l)
        table[k \in 0..Len(s)] ==
            IF k = 0 THEN Front(l)
            ELSE IF IsFrom(s[k]) /\ Len(table[k - 1]) < MaxLet
                 THEN Append(table[k - 1], end + k - 1)
                 ELSE table[k - 1]
    IN  Append(table[Len(s)], end + Len(s))

\* lock() is called: a process that still has the lock goes on at once.
LockFor(r, wait, next) ==
    IF locked[r] THEN Goto(r, next) /\ UNCHANGED mboxlock
                 ELSE AskThen(r, wait)

Leave(r, l) == Release(r) /\ Goto(r, l)

-----------------------------------------------------------------------------
(* cksaved() *)

\* Mutant: the marks of the session before are kept.
StartReadingMarked(r) ==
    /\ pc[r] = "idle"
    /\ runs[r] < MaxReads
    /\ Again(r)
    /\ Goto(r, "saved?")
    /\ runs' = [runs EXCEPT ![r] = @ + 1]
    /\ tmp' = [tmp EXCEPT ![r] = <<>>]
    /\ let' = [let EXCEPT ![r] = <<0>>]
    /\ size' = [size EXCEPT ![r] = 0]
    /\ newsize' = [newsize EXCEPT ![r] = 0]
    /\ sname' = [sname EXCEPT ![r] = "save"]
    /\ at' = [at EXCEPT ![r] = 0]
    /\ UNCHANGED <<files, fd, ofd, history, crowd, del>>

StartReading(r) ==
    /\ pc[r] = "idle"
    /\ runs[r] < MaxReads
    /\ Again(r)
    /\ Goto(r, "saved?")
    /\ runs' = [runs EXCEPT ![r] = @ + 1]
    /\ tmp' = [tmp EXCEPT ![r] = <<>>]
    /\ let' = [let EXCEPT ![r] = <<0>>]
    /\ del' = [del EXCEPT ![r] = {}]
    /\ size' = [size EXCEPT ![r] = 0]
    /\ newsize' = [newsize EXCEPT ![r] = 0]
    /\ sname' = [sname EXCEPT ![r] = "save"]
    /\ at' = [at EXCEPT ![r] = 0]
    /\ UNCHANGED <<files, fd, ofd, history, crowd>>

\* Mutant: the save file is only wanted when there is no mailbox.
LookForSavedAlone(r) ==
    /\ pc[r] = "saved?"
    /\ IF dir["save"] # NoFile /\ Size(dir["save"]) > 0 /\ dir["mail"] = NoFile
       THEN AskThen(r, "cksave")
       ELSE Goto(r, "stat") /\ UNCHANGED mboxlock
    /\ UNCHANGED <<files, runs, fd, history, crowd, readervars>>

\* The save file is looked at before the lock is asked for.
LookForSaved(r) ==
    /\ pc[r] = "saved?"
    /\ IF dir["save"] # NoFile /\ Size(dir["save"]) > 0
       THEN AskThen(r, "cksave")
       ELSE Goto(r, "stat") /\ UNCHANGED mboxlock
    /\ UNCHANGED <<files, runs, fd, history, crowd, readervars>>

LockForSaved(r) ==
    /\ TakeAt(r, "cksave", "restore")
    /\ UNCHANGED <<files, runs, fd, history, readervars>>

\* No mailbox: the save file becomes it.
RestoreByName(r) ==
    /\ pc[r] = "restore"
    /\ dir["mail"] = NoFile
    /\ \/ /\ dir["save"] # NoFile
          /\ dir' = [dir EXCEPT !["mail"] = dir["save"], !["save"] = NoFile]
          /\ Goto(r, "restored")
          /\ UNCHANGED mboxlock
       \/ /\ dir["save"] = NoFile \/ "rename" \in Fails
          /\ Leave(r, "stat")
          /\ UNCHANGED dir
    /\ UNCHANGED <<data, runs, fd, history, crowd, readervars>>

\* A mailbox: the save file is copied to its end.
RestoreByCopy(r) ==
    /\ pc[r] = "restore"
    /\ dir["mail"] # NoFile
    /\ \/ /\ dir["save"] # NoFile
          /\ fd' = [fd EXCEPT ![r] = dir["save"]]
          /\ ofd' = [ofd EXCEPT ![r] = dir["mail"]]
          /\ Goto(r, "append")
          /\ UNCHANGED mboxlock
       \/ /\ dir["save"] = NoFile \/ "fopen" \in Fails
          /\ Leave(r, "stat")
          /\ UNCHANGED <<fd, ofd>>
    /\ UNCHANGED <<files, runs, history, crowd, tmp, let, del, size, newsize,
                   sname, at>>

AppendSaved(r) ==
    /\ pc[r] = "append"
    /\ at[r] < Size(fd[r])
    /\ Append1(ofd[r], data[fd[r]][at[r] + 1])
    /\ at' = [at EXCEPT ![r] = @ + 1]
    /\ UNCHANGED <<mboxlock, dir, pc, runs, fd, history, crowd,
                   tmp, let, del, size, newsize, ofd, sname>>

\* copystream() is at the end, or cannot write: nobody looks which.
AppendedSaved(r) ==
    /\ pc[r] = "append"
    /\ at[r] = Size(fd[r]) \/ "copystream" \in Fails
    /\ fd' = [fd EXCEPT ![r] = NoFile]
    /\ ofd' = [ofd EXCEPT ![r] = NoFile]
    /\ at' = [at EXCEPT ![r] = 0]
    /\ Goto(r, "remove")
    /\ UNCHANGED <<mboxlock, files, runs, history, crowd,
                   tmp, let, del, size, newsize, sname>>

\* When unlink() fails cksaved() returns with the lock.
RemoveSaved(r) ==
    /\ pc[r] = "remove"
    /\ \/ /\ dir["save"] # NoFile
          /\ dir' = [dir EXCEPT !["save"] = NoFile]
          /\ Goto(r, "restored")
       \/ /\ dir["save"] = NoFile \/ "unlink" \in Fails
          /\ Goto(r, "stat")
          /\ UNCHANGED dir
    /\ UNCHANGED <<mboxlock, data, runs, fd, history, crowd, readervars>>

Restored(r) ==
    /\ pc[r] = "restored"
    /\ Leave(r, "stat")
    /\ UNCHANGED <<files, runs, fd, history, crowd, readervars>>

Cksaved(r) ==
    \/ LookForSaved(r) \/ LockForSaved(r)
    \/ RestoreByName(r) \/ RestoreByCopy(r)
    \/ AppendSaved(r) \/ AppendedSaved(r) \/ RemoveSaved(r) \/ Restored(r)

-----------------------------------------------------------------------------
(* printmail() *)

\* The size of the mailbox.  Without one stat() is not called and the size that
\* is tested below was never set.
StatMbox(r) ==
    /\ pc[r] = "stat"
    /\ size' = [size EXCEPT ![r] =
                   IF dir["mail"] = NoFile THEN 0 ELSE Size(dir["mail"])]
    /\ \/ dir["mail"] # NoFile /\ Goto(r, IF size'[r] = 0 THEN "done" ELSE "fopen")
       \/ dir["mail"] = NoFile /\ (Goto(r, "done") \/ Goto(r, "fopen"))
    /\ UNCHANGED <<mboxlock, files, runs, fd, history, crowd,
                   tmp, let, del, newsize, ofd, sname, at>>

\* Mutant: the mailbox is read without the lock.
OpenWithoutLock(r) ==
    /\ pc[r] = "fopen"
    /\ IF dir["mail"] = NoFile
       THEN Goto(r, "done") /\ UNCHANGED fd
       ELSE fd' = [fd EXCEPT ![r] = dir["mail"]] /\ Goto(r, "copyin")
    /\ UNCHANGED <<mboxlock, files, runs, history, crowd, readervars>>

\* The mailbox is opened before it is locked.
OpenForReading(r) ==
    /\ pc[r] = "fopen"
    /\ IF dir["mail"] = NoFile
       THEN Goto(r, "done") /\ UNCHANGED <<fd, mboxlock>>
       ELSE fd' = [fd EXCEPT ![r] = dir["mail"]] /\ LockFor(r, "load", "copyin")
    /\ UNCHANGED <<files, runs, history, crowd, readervars>>

LockForLoad(r) ==
    /\ TakeAt(r, "load", "copyin")
    /\ UNCHANGED <<files, runs, fd, history, readervars>>

\* copymt(): what is in the file is copied and marked.  A file that does not
\* begin with a From line ends the program.
LoadMail(r) ==
    /\ pc[r] = "copyin"
    /\ LET s == data[fd[r]]
       IN  IF s # <<>> /\ ~IsFrom(s[1])
           THEN Goto(r, "done") /\ UNCHANGED <<tmp, let>>
           ELSE /\ tmp' = [tmp EXCEPT ![r] = s]
                /\ let' = [let EXCEPT ![r] = Mark(@, s)]
                /\ Goto(r, "loaded")
    /\ fd' = [fd EXCEPT ![r] = NoFile]
    /\ UNCHANGED <<mboxlock, files, runs, history, crowd,
                   del, size, newsize, ofd, sname, at>>

Loaded(r) ==
    /\ pc[r] = "loaded"
    /\ Leave(r, "prompt")
    /\ UNCHANGED <<files, runs, fd, history, crowd, readervars>>

\* Before every prompt: new mail when the size is another.  A stat() that fails
\* leaves the size as it was.
LookForNewMail(r) ==
    /\ pc[r] = "prompt"
    /\ nlet(r) > 0
    /\ IF dir["mail"] # NoFile /\ Size(dir["mail"]) # size[r]
       THEN /\ newsize' = [newsize EXCEPT ![r] = Size(dir["mail"])]
            /\ LockFor(r, "reload", "copymore")
       ELSE Goto(r, "command") /\ UNCHANGED <<newsize, mboxlock>>
    /\ UNCHANGED <<files, runs, fd, history, crowd,
                   tmp, let, del, size, ofd, sname, at>>

LockForReload(r) ==
    /\ TakeAt(r, "reload", "copymore")
    /\ UNCHANGED <<files, runs, fd, history, readervars>>

\* Mutant: what is new begins at the size stat() showed, before the lock.
LoadFromSize(r) ==
    /\ pc[r] = "copymore"
    /\ IF dir["mail"] = NoFile
       THEN Goto(r, "done") /\ UNCHANGED <<tmp, let, size>>
       ELSE LET s == SubSeq(data[dir["mail"]], size[r] + 1, Size(dir["mail"]))
            IN  /\ tmp' = [tmp EXCEPT ![r] = @ \o s]
                /\ let' = [let EXCEPT ![r] = Mark(@, s)]
                /\ size' = [size EXCEPT ![r] = newsize[r]]
                /\ Goto(r, "reloaded")
    /\ UNCHANGED <<mboxlock, files, runs, fd, history, crowd,
                   del, newsize, ofd, sname, at>>

\* The blocks behind those known are copied; doopen() ends the program when
\* the mailbox is gone.
LoadNewMail(r) ==
    /\ pc[r] = "copymore"
    /\ IF dir["mail"] = NoFile
       THEN Goto(r, "done") /\ UNCHANGED <<tmp, let, size>>
       ELSE LET s == SubSeq(data[dir["mail"]], End(r) + 1, Size(dir["mail"]))
            IN  /\ tmp' = [tmp EXCEPT ![r] = @ \o s]
                /\ let' = [let EXCEPT ![r] = Mark(@, s)]
                /\ size' = [size EXCEPT ![r] = newsize[r]]
                /\ Goto(r, "reloaded")
    /\ UNCHANGED <<mboxlock, files, runs, fd, history, crowd,
                   del, newsize, ofd, sname, at>>

Reloaded(r) ==
    /\ pc[r] = "reloaded"
    /\ Leave(r, "command")
    /\ UNCHANGED <<files, runs, fd, history, crowd, readervars>>

\* SIGINT or SIGQUIT while commands are taken: delete() goes back to the prompt.  A
\* process that has got the lock keeps it, and lock() will return at once.
Interrupt(r) ==
    /\ "interrupt" \in Fails
    /\ pc[r] \in {"command", "reload", "reloaded"}
    /\ Goto(r, "prompt")
    /\ UNCHANGED <<mboxlock, files, runs, fd, history, crowd, readervars>>

\* copymt() has got no further than the blocks s: new entries are made, but behind
\* the last of them there is no end yet, only the 0 the table was filled with.
Unfinished(l, s) ==
    LET t == Mark(l, s)
    IN  IF Len(t) = Len(l) THEN l ELSE [t EXCEPT ![Len(t)] = 0]

\* The same signal in copymt(), n blocks on, of which the last may not be written
\* yet, or behind it, before file_size is set.
InterruptCopy(r) ==
    /\ "interrupt" \in Fails
    /\ pc[r] = "copymore"
    /\ dir["mail"] # NoFile
    /\ LET s == SubSeq(data[dir["mail"]], End(r) + 1, Size(dir["mail"]))
       IN  \/ /\ tmp' = [tmp EXCEPT ![r] = @ \o s]
              /\ let' = [let EXCEPT ![r] = Mark(@, s)]
              /\ UNCHANGED cut
           \/ \E n \in 0..Len(s), k \in 0..Len(s) :
                /\ n \in {k, k + 1}
                /\ tmp' = [tmp EXCEPT ![r] = @ \o SubSeq(s, 1, k)]
                /\ let' = [let EXCEPT ![r] = Unfinished(@, SubSeq(s, 1, n))]
                /\ cut' = (cut \/ n > 0)
    /\ Goto(r, "prompt")
    /\ UNCHANGED <<mboxlock, files, runs, fd, accepted, purged, killed, crowd,
                   del, size, newsize, ofd, sname, at>>

\* d, s, w, m and r, by setletr(): the letter will not be copied back.
Delete(r) ==
    /\ pc[r] = "command"
    /\ \E i \in 1..nlet(r) : del' = [del EXCEPT ![r] = @ \cup {i}]
    /\ Goto(r, "prompt")
    /\ UNCHANGED <<mboxlock, files, runs, fd, history, crowd,
                   tmp, let, size, newsize, ofd, sname, at>>

Undelete(r) ==
    /\ pc[r] = "command"
    /\ \E i \in del[r] : del' = [del EXCEPT ![r] = @ \ {i}]
    /\ Goto(r, "prompt")
    /\ UNCHANGED <<mboxlock, files, runs, fd, history, crowd,
                   tmp, let, size, newsize, ofd, sname, at>>

\* x: nothing is copied back whatever was deleted.
ExitCommand(r) ==
    /\ pc[r] = "command"
    /\ Goto(r, "done")
    /\ UNCHANGED <<mboxlock, files, runs, fd, history, crowd, readervars>>

\* q, the end of the input, and a newline at the last letter, after which there
\* is no prompt.
Quit(r) ==
    /\ pc[r] \in {"command", "prompt"}
    /\ IF del[r] = {} THEN Goto(r, "done") /\ UNCHANGED mboxlock
                      ELSE LockFor(r, "rewrite", "newmail")
    /\ UNCHANGED <<files, runs, fd, history, crowd, readervars>>

Printmail(r) ==
    \/ StatMbox(r) \/ OpenForReading(r)
    \/ LockForLoad(r) \/ LoadMail(r) \/ Loaded(r)
    \/ LookForNewMail(r) \/ LockForReload(r) \/ LoadNewMail(r) \/ Reloaded(r)
    \/ Interrupt(r) \/ InterruptCopy(r)
    \/ Delete(r) \/ Undelete(r) \/ ExitCommand(r) \/ Quit(r)

-----------------------------------------------------------------------------
(* copyback() *)

LockForRewrite(r) ==
    /\ TakeAt(r, "rewrite", "newmail")
    /\ UNCHANGED <<files, runs, fd, history, readervars>>

\* Mutant: mail that came in during the session is not looked for.
IgnoreNewMail(r) ==
    /\ pc[r] = "newmail"
    /\ dir["mail"] # NoFile
    /\ Goto(r, "opensave")
    /\ UNCHANGED <<mboxlock, files, runs, fd, history, crowd, readervars>>

\* New mail, told by the size alone, is taken for one letter.  The program ends
\* without room for it in the table.
TakeNewMail(r) ==
    /\ pc[r] = "newmail"
    /\ dir["mail"] # NoFile
    /\ LET s == data[dir["mail"]]
       IN  \/ /\ Len(s) = End(r)
              /\ Goto(r, "opensave")
              /\ UNCHANGED <<tmp, let>>
           \/ /\ Len(s) # End(r)
              /\ nlet(r) < MaxLet
              /\ Goto(r, "opensave")
              /\ tmp' = [tmp EXCEPT ![r] = @ \o SubSeq(s, End(r) + 1, Len(s))]
              /\ let' = [let EXCEPT ![r] = Append(@, Len(s))]
           \/ /\ Len(s) # End(r)
              /\ nlet(r) >= MaxLet
              /\ Goto(r, "done")
              /\ UNCHANGED <<tmp, let>>
    /\ UNCHANGED <<mboxlock, files, runs, fd, history, crowd,
                   del, size, newsize, ofd, sname, at>>

\* Without a mailbox stat() sets nothing and its result is not looked at: the
\* size is taken for the known one, or doopen() ends the program.
MailboxGone(r) ==
    /\ pc[r] = "newmail"
    /\ dir["mail"] = NoFile
    /\ Goto(r, "opensave") \/ Goto(r, "done")
    /\ UNCHANGED <<mboxlock, files, runs, fd, history, crowd, readervars>>

\* The new mail cannot be copied, the mailbox is another's, or no save file can be
\* opened: an error message and the end.
CopybackFails(r) ==
    /\ pc[r] \in {"newmail", "opensave"}
    /\ "copyback" \in Fails
    /\ Goto(r, "done")
    /\ UNCHANGED <<mboxlock, files, runs, fd, history, crowd, readervars>>

\* fopen(savefile, "w") empties a save file there may be; when it fails mkstemp()
\* makes another file next to the mailbox (the model has one name for it).
OpenSave(r) ==
    /\ pc[r] = "opensave"
    /\ \E n \in {"save"} \cup (IF "fopen" \in Fails /\ dir["alt"] = NoFile
                               THEN {"alt"} ELSE {}) :
           LET i == IF dir[n] = NoFile THEN NewIno ELSE dir[n]
           IN  /\ dir[n] # NoFile \/ Unused # {}
               /\ dir' = [dir EXCEPT ![n] = i]
               /\ data' = [data EXCEPT ![i] = <<>>]
               /\ ofd' = [ofd EXCEPT ![r] = i]
               /\ sname' = [sname EXCEPT ![r] = n]
    /\ at' = [at EXCEPT ![r] = 0]
    /\ Goto(r, "copyout")
    /\ UNCHANGED <<mboxlock, runs, fd, history, crowd, tmp, let, del, size, newsize>>

\* copylet() of the letters that are kept.
CopyOut(r) ==
    /\ pc[r] = "copyout"
    /\ at[r] < Len(Kept(r))
    /\ Append1(ofd[r], Kept(r)[at[r] + 1])
    /\ at' = [at EXCEPT ![r] = @ + 1]
    /\ UNCHANGED <<mboxlock, dir, pc, runs, fd, history, crowd,
                   tmp, let, del, size, newsize, ofd, sname>>

\* A write fails: the letter is cut off the save file and the program ends.
CopyOutFails(r) ==
    /\ pc[r] = "copyout"
    /\ at[r] < Len(Kept(r))
    /\ "savefile" \in Fails
    /\ \E start \in {k \in 0..at[r] : IsFrom(Kept(r)[k + 1])} :
           /\ \A k \in start + 1..at[r] : ~IsFrom(Kept(r)[k + 1])
           /\ data' = [data EXCEPT ![ofd[r]] = CutTo(@, start)]
    /\ Goto(r, "done")
    /\ UNCHANGED <<mboxlock, dir, runs, fd, history, crowd, readervars>>

\* unlink(mailfile): from here to rename() the letters are in the save file.
UnlinkMbox(r) ==
    /\ pc[r] = "copyout"
    /\ at[r] = Len(Kept(r))
    /\ ofd' = [ofd EXCEPT ![r] = NoFile]
    /\ \/ /\ dir["mail"] # NoFile
          /\ dir' = [dir EXCEPT !["mail"] = NoFile]
          /\ purged' = purged \cup (Whole(tmp[r]) \ Whole(Kept(r)))
          /\ Goto(r, "rename")
       \/ /\ dir["mail"] = NoFile \/ "unlink" \in Fails
          /\ Goto(r, "done")
          /\ UNCHANGED <<dir, purged>>
    /\ UNCHANGED <<mboxlock, data, runs, fd, accepted, killed, cut, crowd,
                   tmp, let, del, size, newsize, sname, at>>

\* rename(savefile, mailfile), and delempty() when nothing was kept.
RenameSave(r) ==
    /\ pc[r] = "rename"
    /\ \/ /\ dir[sname[r]] # NoFile
          /\ dir' = [dir EXCEPT !["mail"] = dir[sname[r]], ![sname[r]] = NoFile]
          /\ Goto(r, IF at[r] = 0 /\ DelEmpty THEN "empty" ELSE "copied")
       \/ /\ dir[sname[r]] = NoFile \/ "rename" \in Fails
          /\ Goto(r, "done")
          /\ UNCHANGED dir
    /\ UNCHANGED <<mboxlock, data, runs, fd, history, crowd, readervars>>

RemoveEmpty(r) ==
    /\ pc[r] = "empty"
    /\ dir' = [dir EXCEPT !["mail"] = NoFile]
    /\ Goto(r, "copied")
    /\ UNCHANGED <<mboxlock, data, runs, fd, history, crowd, readervars>>

\* Mutant: copyback() returns with the lock.
CopiedBackLocked(r) ==
    /\ pc[r] = "copied"
    /\ Goto(r, "done")
    /\ UNCHANGED <<mboxlock, files, runs, fd, history, crowd, readervars>>

CopiedBack(r) ==
    /\ pc[r] = "copied"
    /\ Leave(r, "done")
    /\ UNCHANGED <<files, runs, fd, history, crowd, readervars>>

Copyback(r) ==
    \/ LockForRewrite(r) \/ TakeNewMail(r) \/ MailboxGone(r)
    \/ CopybackFails(r) \/ OpenSave(r) \/ CopyOut(r) \/ CopyOutFails(r)
    \/ UnlinkMbox(r) \/ RenameSave(r) \/ RemoveEmpty(r) \/ CopiedBack(r)

-----------------------------------------------------------------------------
(* The end of a session *)

Stop(r) ==
    /\ Goto(r, "idle")
    /\ fd' = [fd EXCEPT ![r] = NoFile]
    /\ ofd' = [ofd EXCEPT ![r] = NoFile]
    /\ UNCHANGED <<files, runs, accepted, purged, cut, crowd,
                   tmp, let, del, size, newsize, sname, at>>

\* lock() fails: done(0), as at the end of main().
LockFails(r) ==
    /\ pc[r] \in Waiting
    /\ "maillock" \in Fails
    /\ Goto(r, "done")
    /\ UNCHANGED <<mboxlock, files, runs, fd, history, crowd, readervars>>

DoneReading(r) ==
    /\ pc[r] = "done"
    /\ Release(r)
    /\ Stop(r)
    /\ UNCHANGED killed

\* While these labels are passed a save file is half used.
MidCopy == {"append", "remove", "copyout", "rename"}

\* SIGTERM at any time, SIGHUP outside copyback(), SIGINT before the first prompt:
\* done(0).  So ends a session, too, that uses the temporary file again after an
\* interrupt between its fclose() and doopen().
SignalReading(r) ==
    /\ pc[r] \notin {"idle", "done"}
    /\ Release(r)
    /\ Stop(r)
    /\ killed' = (killed \/ pc[r] \in MidCopy)

CrashReading(r) ==
    /\ pc[r] # "idle"
    /\ Die(r)
    /\ Stop(r)
    /\ killed' = (killed \/ pc[r] \in MidCopy)

KillReading(r) ==
    "kill" \in Fails /\ (SignalReading(r) \/ CrashReading(r))

ReadMail(r) ==
    \/ Cksaved(r) \/ Printmail(r) \/ Copyback(r)
    \/ LockFails(r) \/ DoneReading(r)

=============================================================================
