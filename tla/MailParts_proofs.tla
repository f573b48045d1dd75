-------------------------- MODULE MailParts_proofs --------------------------
(***************************************************************************)
(* Proofs about the two parts of mail that stand on their own.  MailLock,  *)
(* for any number of processes and any of the times: the types, and that   *)
(* only the removal of a lock whose owner still holds it lets two          *)
(* processes into the mailbox.  MailSession, for every size of the table:  *)
(* types, the count of the marks, and that with -r a command is about the  *)
(* letter displayed.                                                       *)
(***************************************************************************)
EXTENDS MailLock, MailSession, FiniteSetTheorems, TLAPS

-----------------------------------------------------------------------------
(* The lock *)

\* Inside maillock() and after the end of the program the lock is not held, it
\* has been named, and stat() has not failed too often in a row.
InMaillock ==
    \A p \in Proc :
        /\ lpc[p] # "out" => ~locked[p]
        /\ locked[p] => curlock[p]
        /\ lpc[p] \in {"open", "link", "stat", "remove"} =>
                curlock[p] /\ statfailed[p] <= StatTries + 1

\* The inductive invariant.
LockInv == LockTypeOK /\ InMaillock /\ HolderOwnsLock

-----------------------------------------------------------------------------
\* Earlier() does not leave the bounds of the clock.
LEMMA EarlierType == \A t \in Time : Earlier(t) \in Time
BY LockAssumption DEF Earlier, Time, LockAssumption

\* When main() starts nobody is in the mailbox and there is no lock file.
LEMMA LockInitInv == LockInit => LockInv
<1> SUFFICES ASSUME LockInit PROVE LockInv
    OBVIOUS
<1>1. LockTypeOK
    <2>1. 0 \in Time /\ 0 \in 0..StatTries + 2
        BY LockAssumption DEF LockAssumption, Time
    <2>2. lpc \in [Proc -> LockStep]
        BY DEF LockInit, LockStep
    <2>3. locked \in [Proc -> BOOLEAN] /\ curlock \in [Proc -> BOOLEAN]
        BY DEF LockInit
    <2> QED BY <2>1, <2>2, <2>3 DEF LockInit, LockTypeOK
<1>2. InMaillock
    BY DEF LockInit, InMaillock
<1>3. HolderOwnsLock
    BY DEF LockInit, HolderOwnsLock
<1> QED BY <1>1, <1>2, <1>3 DEF LockInv

\* Every step of maillock(), mailunlock(), done(), of a crash, of a restart and
\* of the clock keeps the invariant.
LEMMA LockStepInv == LockInv /\ [LockNext]_lockvars => LockInv'
<1> SUFFICES ASSUME LockInv, [LockNext]_lockvars PROVE LockInv'
    OBVIOUS
<1> USE LockAssumption DEF LockInv, LockTypeOK, InMaillock, HolderOwnsLock,
                           LockStep, Goto, lockfile, Time, LockAssumption
<1>1. ASSUME NEW p \in Proc, EnterLock(p) PROVE LockInv'
    BY <1>1 DEF EnterLock
<1>2. ASSUME NEW p \in Proc, OpenTemp(p) PROVE LockInv'
    BY <1>2 DEF OpenTemp
<1>3. ASSUME NEW p \in Proc, OpenTempFails(p) PROVE LockInv'
    BY <1>3 DEF OpenTempFails
<1>4. ASSUME NEW p \in Proc, LinkTaken(p) PROVE LockInv'
    BY <1>4 DEF LinkTaken
<1>5. ASSUME NEW p \in Proc, LinkExists(p) PROVE LockInv'
    BY <1>5 DEF LinkExists
<1>6. ASSUME NEW p \in Proc, StatGone(p) PROVE LockInv'
    BY <1>6 DEF StatGone
<1>7. ASSUME NEW p \in Proc, StatFound(p) PROVE LockInv'
    BY <1>7 DEF StatFound
<1>8. ASSUME NEW p \in Proc, BreakLock(p) PROVE LockInv'
    BY <1>8 DEF BreakLock, RemoveLock
<1>9. ASSUME NEW p \in Proc, Unlock(p) PROVE LockInv'
    BY <1>9 DEF Unlock, Mailunlock, RemoveLock
<1>10. ASSUME NEW p \in Proc, Done(p) PROVE LockInv'
    BY <1>10 DEF Done, Mailunlock, RemoveLock
<1>11. ASSUME NEW p \in Proc, Crash(p) PROVE LockInv'
    BY <1>11 DEF Crash
<1>12. ASSUME NEW p \in Proc, Restart(p) PROVE LockInv'
    BY <1>12 DEF Restart
<1>13. ASSUME Tick PROVE LockInv'
    <2>1. CASE now < MaxTime
        BY <1>13, <2>1 DEF Tick
    <2>2. CASE ~(now < MaxTime)
        BY <1>13, <2>2, EarlierType DEF Tick
    <2> QED BY <2>1, <2>2
<1>14. CASE UNCHANGED lockvars
    BY <1>14 DEF lockvars
<1> QED
    BY <1>1, <1>2, <1>3, <1>4, <1>5, <1>6, <1>7, <1>8, <1>9, <1>10, <1>11,
       <1>12, <1>13, <1>14 DEF LockNext, Maillock

\* The lock file, the clock and what maillock() keeps of them have their types.
THEOREM LockTypeCorrect == LockSpec => []LockTypeOK
<1>1. LockInv => LockTypeOK
    BY DEF LockInv
<1> QED BY <1>1, LockInitInv, LockStepInv, PTL DEF LockSpec

\* Whoever maillock() let in owns the lock file, unless it was taken away.
THEOREM LockOwned == LockSpec => []HolderOwnsLock
<1>1. LockInv => HolderOwnsLock
    BY DEF LockInv
<1> QED BY <1>1, LockInitInv, LockStepInv, PTL DEF LockSpec

\* Two processes are never both through maillock() unless a lock was removed
\* under a process that held it.
THEOREM LockExclusive == LockSpec => []ExclusiveUnlessStolen
<1>1. HolderOwnsLock => ExclusiveUnlessStolen
    BY DEF HolderOwnsLock, ExclusiveUnlessStolen
<1> QED BY <1>1, LockOwned, PTL

\* Every step is one of the abstract lock, or leaves that as it was: what the
\* rest of mail may rely on is exactly what MboxLock says.
THEOREM LockImplements == LockSpec => ImplementsMboxLock
<1>1. LockInit => Abstract!MboxLockInit
    BY DEF LockInit, Abstract!MboxLockInit
<1>2. LockInv /\ [LockNext]_lockvars
        => [Abstract!MboxLockNext]_(Abstract!mboxlock)
    <2> SUFFICES ASSUME LockInv, [LockNext]_lockvars
                 PROVE  Abstract!MboxLockNext \/ UNCHANGED <<holder, locked, curlock>>
        BY DEF Abstract!mboxlock
    <2> USE DEF LockInv, LockTypeOK, InMaillock, HolderOwnsLock, lockfile
    <2>1. ASSUME NEW p \in Proc, EnterLock(p) PROVE Abstract!Ask(p)
        BY <2>1 DEF EnterLock, Abstract!Ask
    <2>2. ASSUME NEW p \in Proc,
                 OpenTemp(p) \/ OpenTempFails(p) \/ LinkExists(p)
                   \/ StatGone(p) \/ StatFound(p)
          PROVE  UNCHANGED <<holder, locked, curlock>>
        BY <2>2 DEF OpenTemp, OpenTempFails, LinkExists, StatGone, StatFound
    <2>3. ASSUME NEW p \in Proc, LinkTaken(p) PROVE Abstract!Take(p)
        BY <2>3 DEF LinkTaken, Abstract!Take
    <2>4. ASSUME NEW p \in Proc, BreakLock(p) PROVE Abstract!Break(p)
        BY <2>4 DEF BreakLock, RemoveLock, Abstract!Break, Goto
    <2>5. ASSUME NEW p \in Proc, Unlock(p) \/ Done(p)
          PROVE  Abstract!Mailunlock(p)
        BY <2>5 DEF Unlock, Done, Mailunlock, RemoveLock, Abstract!Mailunlock
    <2>6. ASSUME NEW p \in Proc, Crash(p) PROVE Abstract!Die(p)
        BY <2>6 DEF Crash, Abstract!Die
    <2>7. ASSUME NEW p \in Proc, Restart(p) PROVE Abstract!Again(p)
        BY <2>7 DEF Restart, Abstract!Again
    <2>8. CASE Tick
        BY <2>8 DEF Tick
    <2>9. CASE UNCHANGED lockvars
        BY <2>9 DEF lockvars
    <2>10. ASSUME NEW p \in Proc,
                  \/ EnterLock(p) \/ LinkTaken(p) \/ BreakLock(p) \/ Unlock(p)
                  \/ Done(p) \/ Crash(p) \/ Restart(p)
           PROVE  Abstract!MboxLockNext
        BY <2>1, <2>3, <2>4, <2>5, <2>6, <2>7, <2>10 DEF Abstract!MboxLockNext
    <2> QED
        BY <2>2, <2>8, <2>9, <2>10 DEF LockNext, Maillock
<1> QED
    BY <1>1, <1>2, LockInitInv, LockStepInv, PTL
       DEF LockSpec, ImplementsMboxLock, Abstract!MboxLockSpec


-----------------------------------------------------------------------------
(* The dialogue *)

\* The newest letter has not been passed while a command is read, and what
\* showlet stands for is a letter unless curlet is before the first one, as it
\* may be after a summary of headers.
InTable ==
    /\ flgh => at = "top" /\ curlet = 0 /\ print
    /\ at \in {"prompt", "command"} =>
          curlet < nlet /\ (curlet >= 0 => showlet \in Letters)

SessionInv == SessionTypeOK /\ InTable /\ CountsTheMarks

-----------------------------------------------------------------------------
\* There are nlet letters.
LEMMA LettersCounted ==
    ASSUME nlet \in Nat \ {0}
    PROVE  IsFiniteSet(Letters) /\ Cardinality(Letters) = nlet
<1>1. 0 \in Int /\ nlet - 1 \in Int /\ ~(0 > nlet - 1) /\ (nlet - 1) - 0 + 1 = nlet
  OBVIOUS
<1> QED
  BY <1>1, FS_Interval DEF Letters

\* A set of letters of the table is finite and no larger than the table.
LEMMA MarksAreFinite ==
    ASSUME SessionTypeOK
    PROVE  /\ IsFiniteSet(marked)
           /\ Cardinality(marked) \in 0..nlet
<1>1. IsFiniteSet(Letters) /\ Cardinality(Letters) = nlet
  BY LettersCounted, SessionAssumption DEF SessionAssumption, SessionTypeOK
<1>2. marked \subseteq Letters
  BY DEF SessionTypeOK
<1>3. IsFiniteSet(marked) /\ Cardinality(marked) <= nlet
  BY <1>1, <1>2, FS_Subset
<1> QED
  BY <1>3, FS_CardinalityType

\* A set that has a letter is not counted as empty.
LEMMA MarkedCounts ==
    ASSUME NEW S, IsFiniteSet(S), NEW k \in S
    PROVE  Cardinality(S) \in Nat /\ Cardinality(S) > 0
<1>1. Cardinality(S) \in Nat
  BY FS_CardinalityType
<1>2. Cardinality(S) # 0
  BY FS_EmptySet
<1> QED
  BY <1>1, <1>2

\* Any set of letters of the table is no larger than the table.
LEMMA LettersFit ==
    ASSUME SessionTypeOK, NEW S \in SUBSET Letters
    PROVE  Cardinality(S) \in 0..MaxLet
<1>1. nlet \in Nat \ {0} /\ MaxLet \in Nat /\ nlet <= MaxLet
  BY SessionAssumption DEF SessionAssumption, SessionTypeOK
<1>2. IsFiniteSet(Letters) /\ Cardinality(Letters) = nlet
  BY <1>1, LettersCounted
<1>3. IsFiniteSet(S) /\ Cardinality(S) <= nlet
  BY <1>2, FS_Subset
<1>4. Cardinality(S) \in Nat
  BY <1>3, FS_CardinalityType
<1> QED
  BY <1>1, <1>3, <1>4

\* setletr() of a letter of the table keeps the marks in the table and their
\* count right.
LEMMA SetletrCounts ==
    ASSUME NEW k, NEW status,
           SessionTypeOK, changed = Cardinality(marked),
           status # " " => k \in Letters,
           Setletr(k, status)
    PROVE  /\ marked' \subseteq Letters
           /\ changed' = Cardinality(marked')
           /\ changed' \in 0..MaxLet
<1>1. IsFiniteSet(marked)
  BY MarksAreFinite
<1>2. marked' \subseteq Letters
  BY DEF Setletr, SessionTypeOK
<1>3. Cardinality(marked \cup {k}) = IF k \in marked THEN changed ELSE changed + 1
  BY <1>1, FS_AddElement
<1>4. Cardinality(marked \ {k}) = IF k \in marked THEN changed - 1 ELSE changed
  BY <1>1, FS_RemoveElement
<1>5. k \in marked => changed > 0
  BY <1>1, MarkedCounts
<1>6. changed' = Cardinality(marked')
  BY <1>3, <1>4, <1>5 DEF Setletr
<1>7. Cardinality(marked') \in 0..MaxLet
  BY <1>2, LettersFit
<1> QED
  BY <1>2, <1>6, <1>7

-----------------------------------------------------------------------------
LEMMA SessionInitInv == SessionInit => SessionInv
<1> SUFFICES ASSUME SessionInit PROVE SessionInv
  OBVIOUS
<1>1. SessionTypeOK
  BY SessionAssumption DEF SessionAssumption, SessionInit, SessionTypeOK,
     Letters, NoLetter
<1>2. InTable
  BY DEF SessionInit, InTable
<1>3. CountsTheMarks
  BY FS_EmptySet DEF SessionInit, CountsTheMarks
<1> QED
  BY <1>1, <1>2, <1>3 DEF SessionInv

\* A command that marks a letter, whatever it does to the position.
LEMMA MarkingKeepsInv ==
    ASSUME SessionInv, NEW k, NEW status, status # " " => k \in Letters,
           at = "command", Setletr(k, status),
           curlet' \in -1..nlet, print' \in BOOLEAN, at' \in {"top", "donep"},
           UNCHANGED <<table, showlet, shown>>
    PROVE  SessionInv'
<1>1. marked' \subseteq Letters /\ changed' = Cardinality(marked')
      /\ changed' \in 0..MaxLet
  BY SetletrCounts DEF SessionInv, CountsTheMarks
<1>2. SessionTypeOK'
  BY <1>1 DEF SessionInv, SessionTypeOK, table, Letters
<1>3. InTable'
  BY DEF SessionInv, InTable, table
<1> QED
  BY <1>1, <1>2, <1>3 DEF SessionInv, CountsTheMarks

\* A command that marks nothing.
LEMMA MovingKeepsInv ==
    ASSUME SessionInv, at = "command", NoMark, UNCHANGED table,
           curlet' \in -1..nlet, print' \in BOOLEAN, at' \in {"top", "donep"},
           showlet' \in -1..nlet, shown' \in Letters \cup {NoLetter}
    PROVE  SessionInv'
<1>1. SessionTypeOK'
  BY DEF SessionInv, SessionTypeOK, table, NoMark, Letters
<1>2. InTable'
  BY DEF SessionInv, InTable, table
<1> QED
  BY <1>1, <1>2 DEF SessionInv, CountsTheMarks, NoMark

LEMMA SessionStepInv == SessionInv /\ [SessionNext]_vars => SessionInv'
<1> SUFFICES ASSUME SessionInv, [SessionNext]_vars PROVE SessionInv'
  OBVIOUS
<1> USE DEF SessionInv
<1>type. /\ nlet \in Nat \ {0} /\ curlet \in -1..nlet /\ showlet \in -1..nlet
         /\ shown \in Letters \cup {NoLetter} /\ print \in BOOLEAN
  BY SessionAssumption DEF SessionAssumption, SessionTypeOK
<1>cmd. at = "command" => curlet < nlet /\ curlet + 1 \in -1..nlet
                          /\ (Validmsg(curlet) => showlet \in Letters)
  BY <1>type DEF InTable, Validmsg
<1>1. CASE Top
  <2>0. /\ curlet' \in -1..nlet /\ showlet' \in -1..nlet /\ flgh' \in BOOLEAN
        /\ shown' \in Letters \cup {NoLetter}
    <3>0. flgh' \in BOOLEAN
      BY <1>1 DEF Top, SessionTypeOK
    <3>1. curlet' \in -1..nlet
      BY <1>1, <1>type DEF Top, InTable
    <3>2. showlet' \in -1..nlet
      BY <1>1, <1>type, SessionAssumption DEF Top, Show, InTable, SessionAssumption
    <3>3. shown' \in Letters \cup {NoLetter}
      BY <1>1, <1>type DEF Top
    <3> QED
      BY <3>0, <3>1, <3>2, <3>3
  <2>1. SessionTypeOK'
    BY <1>1, <2>0 DEF Top, SessionTypeOK, Letters
  <2>2. InTable'
    BY <1>1, SessionAssumption DEF Top, Show, SessionAssumption, SessionTypeOK,
       InTable, Letters
  <2> QED
    BY <1>1, <2>1, <2>2 DEF Top, CountsTheMarks
<1>2. CASE RunOut
  BY <1>2 DEF RunOut, table, SessionTypeOK, InTable, CountsTheMarks, Letters
<1>3. CASE ReadCommand
  <2>1. SessionTypeOK'
    BY <1>3, SessionAssumption DEF ReadCommand, SessionAssumption, SessionTypeOK,
       Letters, NoLetter
  <2>2. InTable'
    BY <1>3, SessionAssumption DEF ReadCommand, SessionAssumption, SessionTypeOK,
       InTable, Letters
  <2> QED
    BY <1>3, <2>1, <2>2 DEF ReadCommand, CountsTheMarks
<1>4. CASE Interrupt
  BY <1>4 DEF Interrupt, table, SessionTypeOK, InTable, CountsTheMarks, Letters
<1>5. CASE Number
  BY <1>5, <1>type, MovingKeepsInv DEF Number, Then
<1>6. CASE NothingDone
  BY <1>6, <1>type, MovingKeepsInv DEF NothingDone, Then
<1>7. CASE HeadersAround
  <2>1. PICK n \in 1..nlet :
            /\ Then(IF flgr THEN n - 1 ELSE nlet - n - 1, FALSE)
            /\ showlet' = n - 1
            /\ shown' = n - 1
            /\ NoMark
    BY <1>7 DEF HeadersAround
  <2>2. n - 1 \in Letters /\ n - 1 \in -1..nlet /\ nlet - n - 1 \in -1..nlet
    BY <1>type DEF Letters
  <2> QED
    BY <2>1, <2>2, MovingKeepsInv DEF Then
<1>8. CASE NextLetter
  BY <1>8, <1>type, <1>cmd, MovingKeepsInv DEF NextLetter, Then
<1>9. CASE Previous
  BY <1>9, <1>type, MovingKeepsInv DEF Previous, Then
<1>10. CASE PrintAgain
  BY <1>10, <1>type, MovingKeepsInv DEF PrintAgain, Then
<1>11. CASE NewLetters
  <2>1. /\ at = "command" /\ at' = "top" /\ UNCHANGED table
        /\ curlet' \in {curlet, 0} /\ print' \in BOOLEAN
        /\ NoMark /\ UNCHANGED <<showlet, shown>>
    BY <1>11 DEF NewLetters, Then
  <2> QED
    BY <2>1, <1>type, MovingKeepsInv
<1>12. CASE Dispose
  BY <1>12, <1>type, <1>cmd, MarkingKeepsInv DEF Dispose, Then
<1>13. CASE Reply
  BY <1>13, <1>type, <1>cmd, MarkingKeepsInv DEF Reply, Then
<1>14. CASE DeleteNumber
  <2>1. PICK n \in 1..nlet : /\ Then(curlet, FALSE)
                             /\ Setletr(n - 1, "d")
                             /\ UNCHANGED <<showlet, shown>>
    BY <1>14 DEF DeleteNumber
  <2>2. n - 1 \in Letters
    BY <1>type DEF Letters
  <2> QED
    BY <2>1, <2>2, <1>type, MarkingKeepsInv DEF Then
<1>15. CASE Undelete
  <2>1. PICK k \in Letters \cup {showlet} : /\ Then(curlet, FALSE)
                                            /\ Setletr(k, " ")
                                            /\ UNCHANGED <<showlet, shown>>
    BY <1>15 DEF Undelete
  <2> QED
    BY <2>1, <1>type, MarkingKeepsInv DEF Then
<1>16. CASE Quit
  BY <1>16, SessionAssumption DEF Quit, Leave, table, SessionAssumption,
     SessionTypeOK, InTable, CountsTheMarks, Letters
<1>17. CASE DeleteAndQuit
  BY <1>17, <1>type, <1>cmd, MarkingKeepsInv DEF DeleteAndQuit
<1>18. CASE UNCHANGED vars
  BY <1>18 DEF vars, SessionTypeOK, InTable, CountsTheMarks, Letters
<1> QED
  BY <1>1, <1>2, <1>3, <1>4, <1>5, <1>6, <1>7, <1>8, <1>9, <1>10, <1>11, <1>12,
     <1>13, <1>14, <1>15, <1>16, <1>17, <1>18 DEF SessionNext

-----------------------------------------------------------------------------
\* The variables of the dialogue keep their types; no index leaves the table of
\* letters, whatever is typed and however much mail comes in.
THEOREM SessionTypeCorrect == SessionSpec => []SessionTypeOK
<1>1. SessionInv => SessionTypeOK
  BY DEF SessionInv
<1> QED
  BY SessionInitInv, SessionStepInv, <1>1, PTL DEF SessionSpec

\* changed is the number of the marked letters as long as the dialogue lasts.
THEOREM SessionCounts == SessionSpec => []CountsTheMarks
<1>1. SessionInv => CountsTheMarks
  BY DEF SessionInv
<1> QED
  BY SessionInitInv, SessionStepInv, <1>1, PTL DEF SessionSpec

-----------------------------------------------------------------------------
\* With -r curlet is the index of the letter shown, new mail or not.
ShowsCurlet ==
    flgr /\ curlet >= 0 =>
        /\ at \in {"prompt", "command"} => showlet = curlet /\ shown = curlet
        /\ at = "top" /\ ~print => shown = curlet

LEMMA ShowsCurletStep ==
    ASSUME SessionInv, ShowsCurlet, [SessionNext]_vars
    PROVE  ShowsCurlet'
<1> USE DEF SessionInv, SessionTypeOK, InTable, ShowsCurlet, Then, table
<1>1. CASE Top
  BY <1>1, SessionAssumption DEF Top, Show, SessionAssumption, Letters
<1>2. CASE RunOut \/ ReadCommand \/ Interrupt
  BY <1>2 DEF RunOut, ReadCommand, Interrupt
<1>3. CASE Number \/ NothingDone
  BY <1>3 DEF Number, NothingDone
<1>0. CASE HeadersAround
  <2>1. PICK n \in 1..nlet :
            /\ Then(IF flgr THEN n - 1 ELSE nlet - n - 1, FALSE)
            /\ shown' = n - 1
    BY <1>0 DEF HeadersAround
  <2>2. flgr' = flgr /\ at' = "top"
    BY <2>1
  <2>3. flgr => shown' = curlet'
    BY <2>1
  <2> QED
    BY <2>2, <2>3
<1>4. CASE NextLetter \/ Previous \/ PrintAgain \/ NewLetters
  BY <1>4 DEF NextLetter, Previous, PrintAgain, NewLetters
<1>5. CASE Dispose \/ Reply \/ DeleteNumber \/ Undelete
  BY <1>5 DEF Dispose, Reply, DeleteNumber, Undelete
<1>6. CASE Quit \/ DeleteAndQuit
  BY <1>6 DEF Quit, Leave, DeleteAndQuit
<1>7. CASE UNCHANGED vars
  BY <1>7 DEF vars
<1> QED
  BY <1>0, <1>1, <1>2, <1>3, <1>4, <1>5, <1>6, <1>7 DEF SessionNext

\* With -r a command without a number marks the letter that was displayed last.
THEOREM SessionDisposes == SessionSpec => OldestFirstDisposes
<1>1. SessionInit => ShowsCurlet
  BY DEF SessionInit, ShowsCurlet
<1>2. SessionInv /\ ShowsCurlet /\ [SessionNext]_vars => ShowsCurlet'
  BY ShowsCurletStep
<1>3. ShowsCurlet => [Disposing /\ flgr => showlet = shown]_vars
  BY DEF ShowsCurlet, Disposing, Dispose, Reply, DeleteAndQuit, Then, Validmsg
<1> QED
  BY SessionInitInv, SessionStepInv, <1>1, <1>2, <1>3, PTL
     DEF SessionSpec, OldestFirstDisposes

=============================================================================
