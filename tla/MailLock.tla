------------------------------ MODULE MailLock ------------------------------
(***************************************************************************)
(* The mailbox lock of mail(1): maillock() and mailunlock() of             *)
(* mail/maillock.c, with the processes that call them.  touchlock(), which *)
(* would renew a lock, is called by nobody.                                *)
(*                                                                         *)
(* The lock is a file, mailfile.lock.  A process creates a temporary file  *)
(* and link()s it to the lock name; link() fails when the name exists, so  *)
(* it is the one atomic step of the protocol.  A process that finds the    *)
(* lock taken compares the change time of its own temporary file with the  *)
(* one of the lock and removes a lock that is at least Stale old.  The     *)
(* removal names the lock file and not the file that was looked at, and    *)
(* done() removes the name whether or not the process holds the lock.      *)
(***************************************************************************)
EXTENDS Integers

CONSTANTS
    Proc,       \* the processes, each running mail
    None,       \* no process: the lock file does not exist
    Stale,      \* age at which a lock is taken for an error (300 s in the code)
    StatTries,  \* how often stat() may fail in a row (5 in the code)
    MaxTime     \* times further apart than this are not told apart

ASSUME LockAssumption ==
    /\ None \notin Proc
    /\ Stale \in Nat
    /\ StatTries \in Nat
    /\ MaxTime \in Nat

VARIABLES
    holder,      \* who created the present lock file, or None without one
    ctime,       \* st_ctime of the lock file
    now,         \* the file server's clock
    lpc,         \* where in maillock() a process is
    locked,      \* the static variable of that name, of each process
    curlock,     \* whether the static curlock[] names the lock file yet
    tmptime,     \* st_ctime of the temporary file of a process in maillock()
    statfailed,  \* the counter of that name
    stolen       \* history: some process removed a lock another one held

lockfile == <<holder, ctime>>
lockvars == <<holder, ctime, now, lpc, locked, curlock, tmptime, statfailed,
              stolen>>

LockStep == {"out", "open", "link", "stat", "remove", "failed", "exited"}
Time == 0..MaxTime

LockTypeOK ==
    /\ holder \in Proc \cup {None}
    /\ ctime \in Time
    /\ now \in Time
    /\ lpc \in [Proc -> LockStep]
    /\ locked \in [Proc -> BOOLEAN]
    /\ curlock \in [Proc -> BOOLEAN]
    /\ tmptime \in [Proc -> Time]
    /\ statfailed \in [Proc -> 0..StatTries + 2]
    /\ stolen \in BOOLEAN

LockInit ==
    /\ holder = None
    /\ ctime = 0
    /\ now = 0
    /\ lpc = [p \in Proc |-> "out"]
    /\ locked = [p \in Proc |-> FALSE]
    /\ curlock = [p \in Proc |-> FALSE]
    /\ tmptime = [p \in Proc |-> 0]
    /\ statfailed = [p \in Proc |-> 0]
    /\ stolen = FALSE

-----------------------------------------------------------------------------
(* maillock() *)

Goto(p, step) == lpc' = [lpc EXCEPT ![p] = step]

\* remove(curlock): the name goes, whatever file it stands for by now.
RemoveLock(p) ==
    /\ holder' = IF curlock[p] THEN None ELSE holder
    /\ stolen' = \/ stolen
                 \/ curlock[p] /\ holder \in Proc \ {p} /\ locked[holder]
    /\ UNCHANGED ctime

\* A caller that already holds the lock gets 0 back and nothing happens.
EnterLock(p) ==
    /\ lpc[p] = "out"
    /\ ~locked[p]
    /\ Goto(p, "open")
    /\ curlock' = [curlock EXCEPT ![p] = TRUE]
    /\ statfailed' = [statfailed EXCEPT ![p] = 0]
    /\ UNCHANGED <<lockfile, now, locked, tmptime, stolen>>

\* lock1(): create the temporary file and note its change time.
OpenTemp(p) ==
    /\ lpc[p] = "open"
    /\ tmptime' = [tmptime EXCEPT ![p] = now]
    /\ Goto(p, "link")
    /\ UNCHANGED <<lockfile, now, locked, curlock, statfailed, stolen>>

\* open() of the temporary file fails: lock1() returns the time of day.
OpenTempFails(p) ==
    /\ lpc[p] = "open"
    /\ tmptime' = [tmptime EXCEPT ![p] = now]
    /\ Goto(p, "stat")
    /\ UNCHANGED <<lockfile, now, locked, curlock, statfailed, stolen>>

\* Mutant: rename() instead of link(), which takes the name from its owner.
LinkOverwrites(p) ==
    /\ lpc[p] = "link"
    /\ holder' = p
    /\ ctime' = now
    /\ locked' = [locked EXCEPT ![p] = TRUE]
    /\ Goto(p, "out")
    /\ UNCHANGED <<now, curlock, tmptime, statfailed, stolen>>

\* lock1(): link() the temporary file to the lock name.
LinkTaken(p) ==
    /\ lpc[p] = "link"
    /\ holder = None
    /\ holder' = p
    /\ ctime' = now
    /\ locked' = [locked EXCEPT ![p] = TRUE]
    /\ Goto(p, "out")
    /\ UNCHANGED <<now, curlock, tmptime, statfailed, stolen>>

LinkExists(p) ==
    /\ lpc[p] = "link"
    /\ holder # None
    /\ Goto(p, "stat")
    /\ UNCHANGED <<lockfile, now, locked, curlock, tmptime, statfailed, stolen>>

\* Mutant: the count of failed stat() calls is never looked at.
StatGoneForever(p) ==
    /\ lpc[p] = "stat"
    /\ holder = None
    /\ statfailed' = [statfailed EXCEPT ![p] = @ + 1]
    /\ Goto(p, "open")
    /\ UNCHANGED <<lockfile, now, locked, curlock, tmptime, stolen>>

\* stat(curlock) fails: the lock was given up since the link() was tried.
StatGone(p) ==
    /\ lpc[p] = "stat"
    /\ holder = None
    /\ statfailed' = [statfailed EXCEPT ![p] = @ + 1]
    /\ Goto(p, IF statfailed[p] > StatTries THEN "failed" ELSE "open")
    /\ UNCHANGED <<lockfile, now, locked, curlock, tmptime, stolen>>

\* stat(curlock) succeeds: sleep and try again, or take the lock for an error.
StatFound(p) ==
    /\ lpc[p] = "stat"
    /\ holder # None
    /\ statfailed' = [statfailed EXCEPT ![p] = 0]
    /\ Goto(p, IF tmptime[p] < ctime + Stale THEN "open" ELSE "remove")
    /\ UNCHANGED <<lockfile, now, locked, curlock, tmptime, stolen>>

BreakLock(p) ==
    /\ lpc[p] = "remove"
    /\ RemoveLock(p)
    /\ Goto(p, "open")
    /\ UNCHANGED <<now, locked, curlock, tmptime, statfailed>>

Maillock(p) ==
    \/ OpenTemp(p) \/ OpenTempFails(p)
    \/ LinkTaken(p) \/ LinkExists(p)
    \/ StatGone(p) \/ StatFound(p)
    \/ BreakLock(p)

-----------------------------------------------------------------------------
(* mailunlock() and the ends of a process *)

\* mailunlock(): the lock name is removed and the lock noted as given up.
Mailunlock(p) ==
    /\ RemoveLock(p)
    /\ locked' = [locked EXCEPT ![p] = FALSE]
    /\ UNCHANGED <<now, curlock, tmptime, statfailed>>

\* The holder is through with the mailbox.
Unlock(p) ==
    /\ lpc[p] = "out"
    /\ locked[p]
    /\ Mailunlock(p)
    /\ UNCHANGED lpc

\* done(), at the end of the program, when maillock() fails and from every
\* signal handler: it unlocks first of all, and never asks whether it may.
Done(p) ==
    /\ lpc[p] # "exited"
    /\ Mailunlock(p)
    /\ Goto(p, "exited")

\* The process is killed: the lock file stays behind.
Crash(p) ==
    /\ lpc[p] # "exited"
    /\ Goto(p, "exited")
    /\ locked' = [locked EXCEPT ![p] = FALSE]
    /\ UNCHANGED <<lockfile, now, curlock, tmptime, statfailed, stolen>>

\* mail is run again: its static variables start afresh.
Restart(p) ==
    /\ lpc[p] = "exited"
    /\ Goto(p, "out")
    /\ curlock' = [curlock EXCEPT ![p] = FALSE]
    /\ UNCHANGED <<lockfile, now, locked, tmptime, statfailed, stolen>>

\* Time passes.  Once the clock has reached MaxTime the times before it move
\* away from it instead, so that it never stops and stays within its bound.
Earlier(t) == IF t > 0 THEN t - 1 ELSE 0

Tick ==
    /\ IF now < MaxTime
       THEN now' = now + 1 /\ UNCHANGED <<ctime, tmptime>>
       ELSE /\ ctime' = Earlier(ctime)
            /\ tmptime' = [p \in Proc |-> Earlier(tmptime[p])]
            /\ UNCHANGED now
    /\ UNCHANGED <<holder, lpc, locked, curlock, statfailed, stolen>>

-----------------------------------------------------------------------------
LockNext ==
    \/ \E p \in Proc :
        \/ EnterLock(p) \/ Maillock(p)
        \/ Unlock(p) \/ Done(p) \/ Crash(p) \/ Restart(p)
    \/ Tick

LockSpec == LockInit /\ [][LockNext]_lockvars

-----------------------------------------------------------------------------
(* Properties *)

\* As long as no process has removed a lock that another one held, a process
\* that believes it holds the lock owns the lock file.
HolderOwnsLock ==
    ~stolen => \A p \in Proc : locked[p] => holder = p

\* Two processes are in the mailbox at once only after a removal, by done(),
\* by a late mailunlock() or by the breaking of a stale lock, of a lock whose
\* owner was still at work: link() itself never lets a second process in.
ExclusiveUnlessStolen ==
    ~stolen => \A p, q \in Proc : locked[p] /\ locked[q] => p = q

\* The lock file as the rest of the program sees it.
Abstract == INSTANCE MboxLock

\* maillock(), with its temporary files, its clock and its retries, gives its
\* callers the lock that MboxLock describes and nothing else.
ImplementsMboxLock == Abstract!MboxLockSpec

\* "If it is older than 5 minutes, we assume error and set our own file": the
\* lock that is broken has been there for that long.
OnlyStaleLocksBroken ==
    [][\A p \in Proc : BreakLock(p) /\ holder # None => now >= ctime + Stale]_lockvars

=============================================================================
