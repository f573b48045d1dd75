-------------------------------- MODULE Mail --------------------------------
(***************************************************************************)
(* One mailbox, its owner reading it and mail being delivered to it.       *)
(***************************************************************************)
EXTENDS MailDeliver, MailReader

vars == <<mboxlock, storevars, delivervars, readervars>>

MailInit ==
    MboxLockInit /\ StoreInit /\ DeliverInit /\ ReaderInit

MailNext ==
    \/ \E d \in Deliverer :
        /\ \/ StartDelivery(d) \/ SendMbox(d) \/ ExitFlush(d)
           \/ KillDelivery(d)
        /\ UNCHANGED readervars
    \/ \E r \in Reader :
        /\ StartReading(r) \/ ReadMail(r) \/ KillReading(r)
        /\ UNCHANGED delivervars
    \/ \E p \in Proc : BreakStale(p) /\ UNCHANGED <<delivervars, readervars>>

MailSpec == MailInit /\ [][MailNext]_vars

-----------------------------------------------------------------------------
(* Properties *)

MailTypeOK ==
    /\ MboxLockTypeOK
    /\ data \in [Ino -> Seq(Block)]
    /\ dir \in [Name -> Ino \cup {NoFile}]
    /\ runs \in [Proc -> 0..MaxReads + MaxTries]
    /\ fd \in [Proc -> Ino \cup {NoFile}]
    /\ accepted \in Seq(Letter)
    /\ purged \subseteq Letter
    /\ status \in [Deliverer -> {"queued", "sent", "failed"}]
    /\ pos \in [Deliverer -> Nat]
    /\ seen \in [Deliverer -> Ino \cup {NoFile}]
    /\ tmp \in [Reader -> Seq(Block)]
    /\ ofd \in [Reader -> Ino \cup {NoFile}]
    /\ \A r \in Reader : del[r] \subseteq 1..nlet(r) /\ nlet(r) <= MaxLet + 1

\* Everything that has a name.
Stored == UNION {Whole(data[i]) : i \in Linked}

\* What takes from the programs the means to keep anything: two processes have been
\* in the mailbox at once, or an interrupt has left the table of letters half made.
Orderly == ~crowd /\ ~cut

\* A letter that was appended in full is somewhere on the disk until its owner
\* deletes it, whoever is killed at whatever point.
NoLetterLost ==
    Orderly => ToSet(accepted) \subseteq purged \cup Stored

\* The file that holds the mail: the mailbox, or the save file while copyback()
\* has unlinked the one and not yet renamed the other.
Current ==
    IF dir["mail"] # NoFile THEN data[dir["mail"]]
    ELSE IF \E r \in Reader : pc[r] = "rename"
         THEN data[dir[sname[CHOOSE r \in Reader : pc[r] = "rename"]]]
         ELSE <<>>

\* The letters that a sequence of blocks holds in full, in order.
Letters(s) ==
    LET upto[n \in 0..Len(s)] ==
            IF n = 0 THEN <<>>
            ELSE IF n > 1 /\ s[n - 1] = From(s[n][1]) /\ s[n] = Rest(s[n][1])
                 THEN Append(upto[n - 1], s[n][1])
                 ELSE upto[n - 1]
    IN  upto[Len(s)]

\* Who is killed half-way through a copy spoils it, too.
Sound == Orderly /\ ~killed

\* From the first prompt to the last look at the marks.
Marking == {"prompt", "reload", "copymore", "reloaded", "command", "rewrite",
            "newmail", "opensave", "copyout"}

\* The letters, by their number in the mailbox, in the entries that are marked.
MarkedLetters ==
    UNION {{n \in 1..Len(tmp[r]) :
               \E i \in del[r] : let[r][i] < 2 * n /\ 2 * n <= let[r][i + 1]} :
           r \in {q \in Reader : pc[q] \in Marking}}

Promise == INSTANCE Mailbox WITH Start <- OldMail, box <- Letters(Current),
                                 been <- ToSet(accepted), bin <- MarkedLetters,
                                 sound <- Sound

\* The files, read as letters, change as Mailbox says: no letter is appended that
\* was there before, and copying back takes out the letters in the entries that are
\* marked, each of them and no other, and leaves the rest in its order.
KeepsPromise == Promise!MailboxSpec

\* Nothing but whole letters is in the mailbox, but for the one being written.
NoTornLetters ==
    Sound => \/ Len(Current) = 2 * Len(Letters(Current))
             \/ /\ \E p \in Proc : locked[p] /\ pc[p] \in {"rest", "append"}
                /\ Len(Current) = 2 * Len(Letters(Current)) + 1

\* cksaved() has put back what an interrupted copyback() left before the
\* mailbox is read.
RestoredBeforeReading ==
    \A r \in Reader : pc[r] \in {"fopen", "load", "copyin", "loaded", "prompt"} =>
        \/ ~Orderly
        \/ dir["save"] = NoFile \/ Size(dir["save"]) = 0

\* What the owner reads is the mailbox from its beginning, and every letter of
\* the table begins with a From line.
ReadsTheMailbox ==
    \A r \in Reader :
        Orderly /\ pc[r] \in {"loaded", "prompt", "command", "reload", "copymore",
                             "reloaded", "rewrite", "newmail"} =>
            /\ dir["mail"] # NoFile
            /\ IsPrefix(tmp[r], data[dir["mail"]])
            /\ \A i \in 1..nlet(r) : IsFrom(tmp[r][let[r][i] + 1])

\* "On error, truncate the file to its original position so that a partial
\* message is not left in the mailbox": a delivery that reports a failure has
\* left nothing behind, so that the next try doubles nothing.
FailureLeavesNothing ==
    \A d \in Deliverer :
        Sound /\ status[d] = "failed" /\ pc[d] = "idle" =>
            \A i \in Linked, b \in {From(d), Rest(d)} : b \notin ToSet(data[i])

-----------------------------------------------------------------------------
(* Liveness.  A program that can go on does, and maillock() looks at the    *)
(* lock every few seconds; nobody has to start mail or to type anything.    *)

GoesOn(r) ==
    \/ Cksaved(r) \/ StatMbox(r) \/ OpenForReading(r)
    \/ LockForLoad(r) \/ LoadMail(r) \/ Loaded(r)
    \/ LockForReload(r) \/ LoadNewMail(r) \/ Reloaded(r)
    \/ Copyback(r) \/ DoneReading(r)

Fairness ==
    /\ \A d \in Deliverer :
        WF_vars((SendMbox(d) \/ ExitFlush(d)) /\ UNCHANGED readervars)
    /\ \A r \in Reader : WF_vars(GoesOn(r) /\ UNCHANGED delivervars)
    /\ \A p \in Proc : WF_vars(BreakStale(p) /\ UNCHANGED <<delivervars, readervars>>)

FairMailSpec == MailSpec /\ Fairness

\* Whoever waits for the lock gets it, also when its owner was killed.
WaitingEnds ==
    \A p \in Proc : pc[p] \in Waiting ~> pc[p] \notin Waiting

\* A delivery that was started ends.
DeliveryEnds ==
    \A d \in Deliverer : pc[d] # "idle" ~> pc[d] = "idle"

-----------------------------------------------------------------------------
(* What the comments say and the code does not do *)

\* "copy mail to temp file and mark each letter in the let array --- mailfile
\* is still locked !!!"
MailfileStillLocked ==
    \A r \in Reader : pc[r] = "copyin" => holder = r

\* "It is better that a user potentially sees the mail twice than to lose it.":
\* what is in the save file that copyback() opens for writing may be all there
\* is of some letters.
SaveFileKept ==
    [][\A r \in Reader : OpenSave(r) /\ ~crowd =>
            ToSet(accepted) \subseteq (purged \cup Stored)']_vars

=============================================================================
