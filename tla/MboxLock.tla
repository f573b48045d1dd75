------------------------------ MODULE MboxLock ------------------------------
(***************************************************************************)
(* What the lock of a mailbox promises to the rest of mail(1): lock(),     *)
(* unlock() and done() as their callers see them, without the clock and    *)
(* the temporary files of maillock().  MailLock implements this module and *)
(* Mail uses it.                                                           *)
(*                                                                         *)
(* The promise is weak: whoever has named the lock once can remove it at   *)
(* any later time, even when it belongs to someone else by then, and a     *)
(* waiting process may take any lock for an abandoned one, since no owner  *)
(* ever renews its own.                                                    *)
(***************************************************************************)
CONSTANTS
    Proc,       \* the processes, each running mail
    None        \* no process: the lock file does not exist

ASSUME NoneAssumption == None \notin Proc

VARIABLES
    holder,      \* who created the present lock file, or None without one
    locked,      \* the static variable of that name, of each process
    curlock      \* whether the static curlock[] names the lock file yet

mboxlock == <<holder, locked, curlock>>

MboxLockTypeOK ==
    /\ holder \in Proc \cup {None}
    /\ locked \in [Proc -> BOOLEAN]
    /\ curlock \in [Proc -> BOOLEAN]

MboxLockInit ==
    /\ holder = None
    /\ locked = [p \in Proc |-> FALSE]
    /\ curlock = [p \in Proc |-> FALSE]

-----------------------------------------------------------------------------
\* maillock() is called and makes the name of the lock.
Ask(p) ==
    /\ ~locked[p]
    /\ curlock' = [curlock EXCEPT ![p] = TRUE]
    /\ UNCHANGED <<holder, locked>>

\* maillock() returns 0: there was no lock file and there is one now.
Take(p) ==
    /\ curlock[p]
    /\ ~locked[p]
    /\ holder = None
    /\ holder' = p
    /\ locked' = [locked EXCEPT ![p] = TRUE]
    /\ UNCHANGED curlock

\* maillock() takes the lock for an error and removes it.
Break(p) ==
    /\ curlock[p]
    /\ ~locked[p]
    /\ holder' = None
    /\ UNCHANGED <<locked, curlock>>

\* mailunlock(): the name goes, whatever file it stands for by now.
Mailunlock(p) ==
    /\ holder' = IF curlock[p] THEN None ELSE holder
    /\ locked' = [locked EXCEPT ![p] = FALSE]
    /\ UNCHANGED curlock

\* The process is killed: the lock file stays behind.
Die(p) ==
    /\ locked' = [locked EXCEPT ![p] = FALSE]
    /\ UNCHANGED <<holder, curlock>>

\* mail is run again: its static variables start afresh.
Again(p) ==
    /\ ~locked[p]
    /\ curlock' = [curlock EXCEPT ![p] = FALSE]
    /\ UNCHANGED <<holder, locked>>

MboxLockNext ==
    \E p \in Proc :
        \/ Ask(p) \/ Take(p) \/ Break(p)
        \/ Mailunlock(p) \/ Die(p) \/ Again(p)

MboxLockSpec == MboxLockInit /\ [][MboxLockNext]_mboxlock

=============================================================================
