---------------------------- MODULE MailSession ----------------------------
(***************************************************************************)
(* The dialogue of printmail() (mail/printmail.c): which letter a command  *)
(* is about.  curlet counts the letters from the newest to the oldest, or  *)
(* the other way with -r, showlet is the index of the letter it stands     *)
(* for, computed at the top of the loop, and new mail changes the one to   *)
(* mean another without anything being displayed.  What MailReader has as  *)
(* Delete and Undelete of any letter is here the command that does it.     *)
(***************************************************************************)
EXTENDS Integers, FiniteSets

CONSTANTS
    MaxLet,     \* letters the table holds
    First       \* letters there are when the session begins

ASSUME SessionAssumption ==
    MaxLet \in Nat /\ First \in 1..MaxLet

VARIABLES
    nlet, onlet, curlet, showlet, print, changed,
    flgr,       \* -r: the oldest letter first
    flgh,       \* -h: a table of headers before the first letter
    marked,     \* the letters with a let[].change other than ' '
    at,         \* "top" of the loop, "prompt", "command", "donep"
    shown       \* history: what was displayed last, or NoLetter

vars == <<nlet, onlet, curlet, showlet, print, changed, flgr, flgh, marked, at,
          shown>>
table == <<nlet, onlet, flgr, flgh>>

NoLetter == -1
Letters == 0..nlet - 1

SessionTypeOK ==
    /\ nlet \in 1..MaxLet /\ onlet \in 1..nlet
    /\ curlet \in -1..nlet /\ showlet \in -1..nlet
    /\ print \in BOOLEAN /\ flgr \in BOOLEAN /\ flgh \in BOOLEAN
    /\ changed \in 0..MaxLet
    /\ marked \subseteq Letters
    /\ at \in {"top", "prompt", "command", "donep"}
    /\ shown \in Letters \cup {NoLetter}

SessionInit ==
    /\ nlet = First /\ onlet = First
    /\ curlet = 0 /\ showlet = 0
    /\ print = TRUE
    /\ changed = 0
    /\ flgr \in BOOLEAN /\ flgh \in BOOLEAN
    /\ marked = {}
    /\ at = "top"
    /\ shown = NoLetter

-----------------------------------------------------------------------------
Show(c) == IF flgr THEN c ELSE nlet - c - 1
Validmsg(i) == i \in 0..nlet

\* Mutant: a letter that is marked already is counted again.
SetletrAgain(k, status) ==
    IF status # " "
    THEN /\ changed' = changed + 1
         /\ marked' = marked \cup {k}
    ELSE /\ changed' = IF k \in marked /\ changed > 0 THEN changed - 1 ELSE changed
         /\ marked' = marked \ {k}

\* setletr(), of a letter, with a status other than ' ' or with ' '
Setletr(k, status) ==
    IF status # " "
    THEN /\ changed' = IF k \in marked THEN changed ELSE changed + 1
         /\ marked' = marked \cup {k}
    ELSE /\ changed' = IF k \in marked /\ changed > 0 THEN changed - 1 ELSE changed
         /\ marked' = marked \ {k}

NoMark == UNCHANGED <<marked, changed>>

Top ==
    /\ at = "top" /\ curlet < nlet
    /\ \/ /\ print /\ flgh
          /\ flgh' = FALSE
          /\ curlet' = curlet - 1
          /\ showlet' = Show(curlet - 1)
          /\ UNCHANGED shown
       \/ /\ print /\ ~flgh
          /\ showlet' = Show(curlet)
          /\ shown' = IF showlet' \in Letters THEN showlet' ELSE shown
          /\ UNCHANGED <<curlet, flgh>>
       \/ /\ ~print
          /\ showlet' = Show(curlet)
          /\ UNCHANGED <<curlet, flgh, shown>>
    /\ at' = "prompt"
    /\ UNCHANGED <<nlet, onlet, print, changed, flgr, marked>>

\* No letter is left: as q.
RunOut ==
    /\ at = "top" /\ curlet >= nlet
    /\ at' = "donep"
    /\ UNCHANGED <<table, curlet, showlet, print, changed, marked, shown>>

\* New mail is loaded, then the command is read.
ReadCommand ==
    /\ at = "prompt"
    /\ \E n \in nlet..MaxLet : nlet' = n
    /\ at' = "command"
    /\ UNCHANGED <<onlet, curlet, showlet, print, changed, flgr, flgh, marked, shown>>

\* SIGINT, before the command has done anything: back to the second setjmp().
Interrupt ==
    /\ at = "command"
    /\ at' = "prompt"
    /\ UNCHANGED <<table, curlet, showlet, print, changed, marked, shown>>

-----------------------------------------------------------------------------
(* The commands *)

\* curlet and print after a command, and back to the top of the loop.
Then(c, p) ==
    /\ at = "command"
    /\ curlet' = c
    /\ print' = p
    /\ at' = "top"
    /\ UNCHANGED table

Number ==
    \E n \in 1..nlet :
        /\ Then(IF flgr THEN n - 1 ELSE nlet - n, TRUE)
        /\ NoMark /\ UNCHANGED <<showlet, shown>>

\* ?, #, !, a number there is no letter for, and everything that is refused.
NothingDone ==
    /\ Then(curlet, FALSE)
    /\ NoMark /\ UNCHANGED <<showlet, shown>>

\* Mutant: with -r too the count is taken from the other end.
HeadersFromTheEnd ==
    \E n \in 1..nlet :
        /\ Then(nlet - n - 1, FALSE)
        /\ showlet' = n - 1
        /\ shown' = n - 1
        /\ NoMark

\* h and a number: the summary points at that letter.
HeadersAround ==
    \E n \in 1..nlet :
        /\ Then(IF flgr THEN n - 1 ELSE nlet - n - 1, FALSE)
        /\ showlet' = n - 1
        /\ shown' = n - 1
        /\ NoMark

\* +, n and newline
NextLetter ==
    /\ Then(curlet + 1, TRUE)
    /\ NoMark /\ UNCHANGED <<showlet, shown>>

\* - and ^
Previous ==
    /\ Then(IF curlet > 0 THEN curlet - 1 ELSE 0, TRUE)
    /\ NoMark /\ UNCHANGED <<showlet, shown>>

\* p and P
PrintAgain ==
    /\ Then(curlet, TRUE)
    /\ NoMark /\ UNCHANGED <<showlet, shown>>

\* a: from the newest letter
NewLetters ==
    /\ IF onlet = nlet THEN Then(curlet, FALSE) ELSE Then(0, TRUE)
    /\ NoMark /\ UNCHANGED <<showlet, shown>>

\* Mutant: the count is taken for the index.
DisposeOfCurlet ==
    /\ Validmsg(curlet)
    /\ Then(curlet + 1, TRUE)
    /\ Setletr(curlet + 1, "d")
    /\ UNCHANGED <<showlet, shown>>

\* d and dp without a number, and s, w, y and m when they succeed.
Dispose ==
    /\ Validmsg(curlet)
    /\ Then(curlet + 1, TRUE)
    /\ Setletr(showlet, "d")
    /\ UNCHANGED <<showlet, shown>>

\* r
Reply ==
    /\ Validmsg(curlet)
    /\ Then(curlet, FALSE)
    /\ Setletr(showlet, "r")
    /\ UNCHANGED <<showlet, shown>>

\* d with a number
DeleteNumber ==
    \E n \in 1..nlet :
        /\ Then(curlet, FALSE)
        /\ Setletr(n - 1, "d")
        /\ UNCHANGED <<showlet, shown>>

\* u with and without a number
Undelete ==
    \E k \in Letters \cup {showlet} :
        /\ Validmsg(k)
        /\ Then(curlet, FALSE)
        /\ Setletr(k, " ")
        /\ UNCHANGED <<showlet, shown>>

Leave ==
    /\ at = "command"
    /\ at' = "donep"
    /\ UNCHANGED <<table, curlet, showlet, print, marked, shown>>

\* q, and x, which forgets the marks
Quit == Leave /\ changed' \in {changed, 0}

\* dq
DeleteAndQuit ==
    /\ Validmsg(curlet)
    /\ at = "command"
    /\ at' = "donep"
    /\ curlet' = curlet + 1 /\ print' = TRUE
    /\ Setletr(showlet, "d")
    /\ UNCHANGED <<table, showlet, shown>>

SessionNext ==
    \/ Top \/ RunOut \/ ReadCommand \/ Interrupt
    \/ Number \/ NothingDone \/ HeadersAround \/ NextLetter \/ Previous
    \/ PrintAgain \/ NewLetters
    \/ Dispose \/ Reply \/ DeleteNumber \/ Undelete
    \/ Quit \/ DeleteAndQuit

SessionSpec == SessionInit /\ [][SessionNext]_vars

-----------------------------------------------------------------------------
(* Properties *)

\* copyback() is called when changed is not 0, so the count has to be that of
\* the marks through any sequence of marking and unmarking.
CountsTheMarks == at # "donep" => changed = Cardinality(marked)

Disposing == Dispose \/ Reply \/ DeleteAndQuit

\* "For each message, it reads a line from the standard input to direct
\* disposition of the message.": with -r the letter that a command without a
\* number marks is the one that was displayed last, through new mail and
\* summaries of headers.  (Without -r new mail makes showlet another letter than
\* the one displayed, and so does h with a number.)
OldestFirstDisposes == [][Disposing /\ flgr => showlet = shown]_vars

=============================================================================
