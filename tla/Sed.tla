---------------------------------- MODULE Sed ----------------------------------
(***************************************************************************)
(* sed (sed/sed0.c, sed1.c): a script is compiled to a row of commands and *)
(* executed for the lines of some files.  A line is a sequence of          *)
(* characters; a regular expression is one character that is looked for.   *)
(* y, l, w and the reading of the script are left out.                     *)
(***************************************************************************)
EXTENDS Integers, Sequences, SequencesExt, FiniteSetsExt, TLC

CONSTANTS
    SedJobs,    \* [script, files, cut, nflag, sus]: what sed may be called for, which
                \* files lack their last newline, -n, and whether it is one of the
                \* variants for a standard
    NoSedFile,    \* a file that cannot be opened
    MaxLnum     \* bound: how many lines are read

VARIABLES
    job,        \* the one it is called for
    ipc,        \* the command that is next; 0: a line is to be read
    yes,        \* it is executed without a look at its addresses
    opened,     \* how many files have been opened
    reading,    \* "file" (the next one is to be opened), "lines" or "exit"
    sedbuf,       \* what is to be read of the file, the characters from cbp on
    sedibuf,         \* what the buffer it has been read into begins with
    sedf,         \* f >= 0: the file has not been closed
    waiting,    \* the n or N that has met the end of the last file, or 0
    inar,       \* the commands whose range is open
    linebuf,    \* the pattern space
    holdsp,     \* the hold space
    abuf,       \* the texts to be written before the next line is read
    lnum, dolflag, subflag,
    stdout,     \* what has been written
    astray      \* history: sed did what its manual does not say, see SedMeans

sedInput == <<sedbuf, sedibuf, sedf>>
sedVars == <<job, ipc, yes, opened, reading, sedInput, waiting, inar, linebuf, holdsp,
             abuf, lnum, dolflag, subflag, stdout, astray>>

SedNL == "\n"
NLCode == 10
SedNul == "\\0"

-----------------------------------------------------------------------------
(* The script.  A command is [ad1, ad2, neg, command, arg, gfl, pfl], arg a   *)
(* text, a label, or for s the character and what replaces it; an address is  *)
(* NoAddr, LastLine, <<"line", a number>> or <<"/", a character>>.            *)

NoAddr == <<>>
LastLine == <<"$">>
IsLine(ad) == ad # NoAddr /\ ad[1] = "line"
IsPattern(ad) == ad # NoAddr /\ ad[1] = "/"

\* fcomp() and dechain(): a { is a branch to behind its }, on the opposite condition.
Fcomp(st, c) ==
    LET rep == Len(st.prog) + 1
        P(lb, neg) == [lb1 |-> lb, neg |-> neg] @@ c
    IN  CASE c.command = "{" -> [st EXCEPT !.prog = Append(@, P(0, ~c.neg)), !.cmpend = Append(@, rep)]
          [] c.command = "}" -> [st EXCEPT !.prog[Last(st.cmpend)].lb1 = rep, !.cmpend = Front(@)]
          [] c.command = ":" -> [st EXCEPT !.label = Append(@, <<c.arg, rep>>)]
          [] OTHER -> [st EXCEPT !.prog = Append(@, P(IF c.command = "D" THEN 1 ELSE 0, c.neg))]

Compiled(script) ==
    LET st == FoldLeft(Fcomp, [prog |-> <<>>, cmpend |-> <<>>, label |-> <<>>], script)
        Address(l) == IF l = <<>> THEN Len(st.prog) + 1
                      ELSE (CHOOSE a \in Range(st.label) : a[1] = l)[2]
    IN  [i \in DOMAIN st.prog |->
            IF st.prog[i].command \in {"b", "t"} THEN [st.prog[i] EXCEPT !.lb1 = Address(st.prog[i].arg)]
            ELSE st.prog[i]]

Ptrspace == job.prog
Current == Ptrspace[ipc]
Needdol == \E c \in Range(Ptrspace) : c.command = "c" \/ LastLine \in {c.ad1, c.ad2}

-----------------------------------------------------------------------------
(* execute(): the files, the lines, and the commands for each *)

SedBegin(jobs) ==
    /\ \E j \in jobs : job = [prog |-> Compiled(j.script)] @@ j
    /\ ipc = 0 /\ yes = FALSE /\ opened = 0 /\ reading = "file" /\ waiting = 0
    /\ sedbuf = <<>> /\ sedibuf = [k \in 1..NLCode |-> SedNul] /\ sedf = FALSE
    /\ inar = {} /\ linebuf = <<>> /\ holdsp = <<>> /\ abuf = <<>>
    /\ lnum = 0 /\ dolflag = FALSE /\ subflag = FALSE /\ stdout = <<>> /\ astray = FALSE

SedInit == SedBegin(SedJobs)

Written(line) == Append(line, SedNL)
Autoprint == IF job.nflag THEN <<>> ELSE Written(linebuf)
Appends == FlattenSeq([k \in DOMAIN abuf |-> Written(abuf[k])])

FirstNL(p) == SelectInSeq(p, LAMBDA ch : ch = SedNL)
FirstLine(p) == IF FirstNL(p) = 0 THEN p ELSE SubSeq(p, 1, FirstNL(p) - 1)

\* What read() finds in the i-th file, which is shorter than the buffer.
Bytes(i) ==
    LET text == FlattenSeq([k \in DOMAIN job.files[i] |-> Written(job.files[i][k])])
    IN  IF i \in job.cut THEN Front(text) ELSE text

\* An n or N that was waiting for a line is executed from its start again.
OpenFile ==
    /\ reading = "file" /\ opened < Len(job.files)
    /\ opened' = opened + 1
    /\ IF job.files[opened'] = NoSedFile THEN UNCHANGED <<reading, sedInput, ipc, yes, waiting, astray>>
       ELSE /\ reading' = "lines" /\ sedbuf' = Bytes(opened') /\ sedf' = TRUE
            /\ sedibuf' = SubSeq(sedbuf' \o SubSeq(sedibuf, Len(sedbuf') + 1, NLCode), 1, NLCode)
            /\ ipc' = waiting /\ yes' = (waiting # 0) /\ waiting' = 0
            /\ astray' = (astray \/ waiting # 0)
    /\ UNCHANGED <<job, inar, linebuf, holdsp, abuf, lnum, dolflag, subflag, stdout>>
NoMoreFiles ==
    /\ reading = "file" /\ opened = Len(job.files) /\ reading' = "exit"
    /\ UNCHANGED <<job, ipc, yes, opened, sedInput, waiting, inar, linebuf, holdsp, abuf, lnum,
                   dolflag, subflag, stdout, astray>>

IsLastOfAll == \A k \in opened + 1..Len(job.files) : job.files[k] \in {<<>>, NoSedFile}

\* gline() returns -1: no more is there, or behind the last line not even a newline.
NoMore == sedbuf = <<>> \/ (dolflag /\ FirstNL(sedbuf) = 0)

\* gline(): a line behind what is there.  A newline that the last one lacks is put into
\* the buffer.  When addresses ask for it, whether the line is the last is found out by
\* another read(); at the end of its file there is nothing to read, but if that has been
\* closed, c still is the newline, and as many characters of the buffer are looked at
\* again as is its code.
Gline(there, wrong) ==
    /\ ~NoMore /\ lnum < MaxLnum
    /\ linebuf' = there \o FirstLine(sedbuf) /\ lnum' = lnum + 1
    /\ LET lacks == FirstNL(sedbuf) = 0
           rest == IF lacks THEN <<>> ELSE SubSeq(sedbuf, FirstNL(sedbuf) + 1, Len(sedbuf))
           asks == Needdol /\ rest = <<>>
           again == asks /\ (lacks \/ ~sedf)
       IN  /\ sedibuf' = IF lacks THEN [sedibuf EXCEPT ![1] = SedNL] ELSE sedibuf
           /\ sedbuf' = IF again THEN sedibuf' ELSE rest
           /\ sedf' = (sedf /\ ~lacks /\ ~asks)
           /\ dolflag' = (dolflag \/ (asks /\ opened = Len(job.files)))
           /\ astray' = (astray \/ wrong \/ again \/ (asks /\ IsLastOfAll /\ ~dolflag'))
    /\ subflag' = FALSE

NextCycle ==
    /\ reading = "lines" /\ ipc = 0
    /\ Gline(<<>>, FALSE) /\ ipc' = 1
    /\ UNCHANGED <<job, yes, opened, reading, waiting, inar, holdsp, abuf, stdout>>
EndOfFile ==
    /\ reading = "lines" /\ ipc = 0 /\ NoMore /\ reading' = "file" /\ sedf' = FALSE
    /\ UNCHANGED <<job, ipc, yes, opened, sedbuf, sedibuf, waiting, inar, linebuf, holdsp, abuf, lnum,
                   dolflag, subflag, stdout, astray>>

\* The texts of a and r are written at the end of a cycle, too.
EndCycle(text) ==
    /\ stdout' = stdout \o text \o Appends /\ abuf' = <<>> /\ ipc' = 0
    /\ UNCHANGED <<job, opened, reading, sedInput, waiting, linebuf, holdsp, lnum, dolflag, subflag>>
EndOfScript ==
    /\ ipc = Len(Ptrspace) + 1
    /\ EndCycle(Autoprint) /\ UNCHANGED <<yes, inar, astray>>

-----------------------------------------------------------------------------
(* The addresses *)

IsMatched(ad) ==
    CASE ad = LastLine -> dolflag
      [] IsLine(ad) -> lnum = ad[2]
      [] IsPattern(ad) -> ad[2] \in Range(linebuf)

\* Mutant: the end of a range is looked for in its first line.
AddressesAtOnce(c, open) ==
    CASE c.ad1 = NoAddr -> <<TRUE, FALSE>>
      [] open /\ c.ad2 = LastLine -> <<TRUE, TRUE>>
      [] open /\ IsLine(c.ad2) -> <<lnum <= c.ad2[2], lnum < c.ad2[2]>>
      [] open /\ IsPattern(c.ad2) -> <<TRUE, ~IsMatched(c.ad2)>>
      [] ~open /\ ~IsMatched(c.ad1) -> <<FALSE, FALSE>>
      [] OTHER -> <<TRUE, /\ c.ad2 # NoAddr /\ c.ad1 # LastLine /\ ~IsMatched(c.ad2)
                          /\ ~(job.sus /\ IsLine(c.ad2) /\ lnum >= c.ad2[2])>>

\* Whether the addresses select, and whether the range is open then.
Addresses(c, open) ==
    CASE c.ad1 = NoAddr -> <<TRUE, FALSE>>
      [] open /\ c.ad2 = LastLine -> <<TRUE, TRUE>>
      [] open /\ IsLine(c.ad2) -> <<lnum <= c.ad2[2], lnum < c.ad2[2]>>
      [] open /\ IsPattern(c.ad2) -> <<TRUE, ~IsMatched(c.ad2)>>
      [] ~open /\ ~IsMatched(c.ad1) -> <<FALSE, FALSE>>
      [] OTHER -> <<TRUE, /\ c.ad2 # NoAddr /\ c.ad1 # LastLine
                          /\ ~(job.sus /\ IsLine(c.ad2) /\ lnum >= c.ad2[2])>>

AtCommand == reading = "lines" /\ ipc \in DOMAIN Ptrspace
Tested == Addresses(Current, ipc \in inar)

\* A range to a line that is behind closes, and its first address is not looked at.
ClosedLate ==
    /\ ~yes /\ ipc \in inar /\ IsLine(Current.ad2) /\ lnum > Current.ad2[2] /\ IsMatched(Current.ad1)
\* A range of one line that is still open
OpenTooLong(i) == i \in inar' /\ IsLine(Ptrspace[i].ad2) /\ lnum >= Ptrspace[i].ad2[2]

Decided(selected) ==
    /\ AtCommand
    /\ selected = (yes \/ Tested[1] # Current.neg)
    /\ inar' = IF yes THEN inar ELSE IF Tested[2] THEN inar \cup {ipc} ELSE inar \ {ipc}
    /\ yes' = FALSE
Taken(commands) == Decided(TRUE) /\ Current.command \in commands
AsTold(wrong) == astray' = (astray \/ ClosedLate \/ wrong)

PassOver ==
    /\ Decided(FALSE)
    /\ ipc' = ipc + 1 /\ AsTold(FALSE)
    /\ UNCHANGED <<job, opened, reading, sedInput, waiting, linebuf, holdsp, abuf, lnum, dolflag,
                   subflag, stdout>>

-----------------------------------------------------------------------------
(* command() *)

GoOn(text) ==
    /\ ipc' = ipc + 1 /\ stdout' = stdout \o text
    /\ UNCHANGED <<job, opened, reading, sedInput, waiting, lnum, dolflag>>

PutOut ==
    /\ Taken({"p", "P", "i", "="})
    /\ GoOn(CASE Current.command = "p" -> Written(linebuf)
              [] Current.command = "P" -> Written(FirstLine(linebuf))
              [] Current.command = "i" -> Written(Current.arg)
              [] Current.command = "=" -> Written(<<lnum>>))
    /\ AsTold(FALSE) /\ UNCHANGED <<linebuf, holdsp, abuf, subflag>>

AppendText ==
    /\ Taken({"a"})
    /\ abuf' = Append(abuf, Current.arg)
    /\ GoOn(<<>>) /\ AsTold(FALSE) /\ UNCHANGED <<linebuf, holdsp, subflag>>

HoldSpace ==
    /\ Taken({"g", "G", "h", "H", "x"})
    /\ LET c == Current.command
       IN  /\ linebuf' = CASE c \in {"g", "x"} -> holdsp
                           [] c = "G" -> Written(linebuf) \o holdsp
                           [] OTHER -> linebuf
           /\ holdsp' = CASE c \in {"h", "x"} -> linebuf
                          [] c = "H" -> Written(holdsp) \o linebuf
                          [] OTHER -> holdsp
    /\ GoOn(<<>>) /\ AsTold(FALSE) /\ UNCHANGED <<abuf, subflag>>

\* substitute(); "&" is what was matched.
Rhs(s, ch) == [k \in DOMAIN Tail(s.arg) |-> IF Tail(s.arg)[k] = "&" THEN ch ELSE Tail(s.arg)[k]]
Dosub(s, st, ch) ==
    LET matchcnt == st.matchcnt + 1
        now == s.gfl = -1 \/ s.gfl = matchcnt \/ (s.gfl = 0 /\ matchcnt = 1)
    IN  IF ch # Head(s.arg) THEN [st EXCEPT !.genbuf = Append(@, ch)]
        ELSE [genbuf |-> st.genbuf \o (IF now THEN Rhs(s, ch) ELSE <<ch>>),
              matchcnt |-> matchcnt, subflag |-> st.subflag \/ now]
Substitute ==
    /\ Taken({"s"})
    /\ LET s == Current
           st == FoldLeft(LAMBDA f, ch : Dosub(s, f, ch),
                          [genbuf |-> <<>>, matchcnt |-> 0, subflag |-> FALSE], linebuf)
       IN  /\ linebuf' = st.genbuf
           /\ subflag' = IF st.matchcnt = 0 THEN subflag ELSE st.subflag
           /\ GoOn(IF st.matchcnt > 0 /\ s.pfl THEN Written(linebuf') ELSE <<>>)
           /\ AsTold(st.matchcnt > 0 /\ ~st.subflag)
    /\ UNCHANGED <<holdsp, abuf>>

BranchTo(label) ==
    /\ ipc' = label /\ AsTold(FALSE)
    /\ UNCHANGED <<job, opened, reading, sedInput, waiting, holdsp, abuf, lnum, dolflag, stdout>>
Branch == Taken({"b", "{"}) /\ BranchTo(Current.lb1) /\ UNCHANGED <<linebuf, subflag>>
TestBranch ==
    /\ Taken({"t"}) /\ BranchTo(IF subflag THEN Current.lb1 ELSE ipc + 1)
    /\ subflag' = FALSE /\ UNCHANGED linebuf

Delete ==
    \/ Taken({"d"}) /\ EndCycle(<<>>) /\ AsTold(FALSE)
    \/ Taken({"D"}) /\ FirstNL(linebuf) = 0 /\ EndCycle(<<>>) /\ AsTold(FALSE)
    \/ /\ Taken({"c"}) /\ AsTold(OpenTooLong(ipc))
       /\ EndCycle(IF ipc \notin inar' \/ dolflag THEN Written(Current.arg) ELSE <<>>)
\* The script begins again, and nothing is read or written.
DeleteFirst ==
    /\ Taken({"D"}) /\ FirstNL(linebuf) # 0
    /\ linebuf' = SubSeq(linebuf, FirstNL(linebuf) + 1, Len(linebuf))
    /\ ipc' = Current.lb1 /\ AsTold(\E i \in DOMAIN Ptrspace : OpenTooLong(i))
    /\ UNCHANGED <<job, opened, reading, sedInput, waiting, holdsp, abuf, lnum, dolflag, subflag, stdout>>

NextLine ==
    /\ Taken({"n", "N"})
    /\ stdout' = stdout \o (IF Current.command = "n" THEN Autoprint ELSE <<>>) \o Appends
    /\ abuf' = <<>>
    /\ LET there == IF Current.command = "n" THEN <<>> ELSE Written(linebuf)
       IN  \/ /\ Gline(there, ClosedLate) /\ ipc' = ipc + 1 /\ UNCHANGED waiting
           \/ /\ NoMore /\ waiting' = ipc /\ ipc' = 0 /\ AsTold(FALSE)
              /\ linebuf' = (IF Current.command = "n" THEN linebuf ELSE there)
              /\ UNCHANGED <<sedInput, lnum, dolflag, subflag>>
    /\ UNCHANGED <<job, opened, reading, holdsp>>

QuitNow ==
    /\ Taken({"q"})
    /\ stdout' = stdout \o Autoprint \o Appends /\ reading' = "exit"
    /\ AsTold(FALSE)
    /\ UNCHANGED <<job, ipc, opened, sedInput, waiting, linebuf, holdsp, abuf, lnum, dolflag, subflag>>

SedNext ==
    \/ OpenFile \/ NoMoreFiles \/ NextCycle \/ EndOfFile \/ EndOfScript \/ PassOver
    \/ PutOut \/ AppendText \/ HoldSpace \/ Substitute \/ Branch \/ TestBranch
    \/ Delete \/ DeleteFirst \/ NextLine \/ QuitNow

SedSpec == SedInit /\ [][SedNext]_sedVars

-----------------------------------------------------------------------------
(* Properties *)

SedTypeOK ==
    /\ ipc \in 0..Len(Ptrspace) + 1 /\ yes \in BOOLEAN /\ (yes => AtCommand)
    /\ reading \in {"file", "lines", "exit"} /\ opened \in 0..Len(job.files)
    /\ waiting \in {0} \cup {i \in DOMAIN Ptrspace : Ptrspace[i].command \in {"n", "N"}}
    /\ inar \subseteq {i \in DOMAIN Ptrspace : Ptrspace[i].ad2 # NoAddr}
    /\ dolflag \in BOOLEAN /\ subflag \in BOOLEAN /\ astray \in BOOLEAN
    /\ sedf \in BOOLEAN /\ Len(sedibuf) = NLCode /\ lnum <= MaxLnum
    /\ astray \/ lnum <= Len(FlattenSeq(SelectSeq(job.files, LAMBDA f : f # NoSedFile)))

\* What sed.1 says of a script, for the lines of all files together.  A command
\* has seen one pattern space after the other, and is applied to the last of them
\* or not.
LinesOfAll == FlattenSeq(SelectSeq(job.files, LAMBDA f : f # NoSedFile))

Hits(ad, v) ==
    CASE ad = LastLine -> v.line = Len(LinesOfAll)
      [] IsLine(ad) -> v.line = ad[2]
      [] IsPattern(ad) -> ad[2] \in Range(v.ps)

\* The range that begins with what was seen s-th is over before what was seen j-th.
Over(c, seen, s, j) ==
    LET ended == \E k \in s + 1..j - 1 : Hits(c.ad2, seen[k])
    IN  CASE c.ad2 = LastLine -> FALSE
          [] IsLine(c.ad2) -> c.ad2[2] <= seen[s].line \/ c.ad2[2] < seen[j].line \/ ended
          [] IsPattern(c.ad2) -> ended
RangeOf(c, seen) ==
    LET from[j \in 0..Len(seen)] ==
            IF j = 0 THEN 0
            ELSE LET s == from[j - 1]
                 IN  IF s # 0 /\ ~Over(c, seen, s, j) THEN s
                     ELSE IF Hits(c.ad1, seen[j]) THEN j ELSE 0
    IN  from[Len(seen)]
Applies(c, seen) ==
    c.neg # (CASE c.ad1 = NoAddr -> TRUE
               [] c.ad1 # NoAddr /\ c.ad2 = NoAddr -> Hits(c.ad1, Last(seen))
               [] OTHER -> RangeOf(c, seen) # 0)
EndOfRange(c, seen) ==
    \/ c.neg \/ c.ad2 = NoAddr \/ Hits(LastLine, Last(seen))
    \/ IsLine(c.ad2) /\ c.ad2[2] <= Last(seen).line
    \/ IsPattern(c.ad2) /\ RangeOf(c, seen) < Len(seen) /\ Hits(c.ad2, Last(seen))

\* Behind the } of the { that is the i-th in the script, and at a label
Behind(i) ==
    LET depth(j) == Cardinality({k \in i..j : job.script[k].command = "{"})
                    - Cardinality({k \in i..j : job.script[k].command = "}"})
    IN  Min({j \in i..Len(job.script) : depth(j) = 0}) + 1
Label(l) ==
    IF l = <<>> THEN Len(job.script) + 1
    ELSE CHOOSE i \in DOMAIN job.script : job.script[i].command = ":" /\ job.script[i].arg = l

\* The places where s replaces what it finds
Substituted(s, ps) ==
    {j \in DOMAIN ps :
        /\ ps[j] = Head(s.arg)
        /\ s.gfl = -1 \/ Cardinality({k \in 1..j : ps[k] = Head(s.arg)}) = Max({1, s.gfl})}

\* What is written from the i-th command on, from the next cycle on if i is 0.  The
\* state is [line, ps, hs, out, app, sub, seen].
RECURSIVE SedSays(_, _)
SedSays(st, i) ==
    LET c == job.script[i]
        seen == Append(st.seen[i], [line |-> st.line, ps |-> st.ps])
        now == [st EXCEPT !.seen[i] = seen]
        nl == FirstNL(st.ps)
        print == IF job.nflag THEN <<>> ELSE Written(st.ps)
        more == st.line < Len(LinesOfAll)
        Read(state, there, text) ==
            [state EXCEPT !.line = @ + 1, !.ps = there \o LinesOfAll[st.line + 1],
                          !.out = @ \o text \o st.app, !.app = <<>>, !.sub = FALSE]
        Out(text, next) == SedSays([now EXCEPT !.out = @ \o text], next)
        To(space) == SedSays([now EXCEPT !.ps = space], i + 1)
        Hold(space) == SedSays([now EXCEPT !.hs = space], i + 1)
        Finish(text) == st.out \o text \o st.app
    IN  IF i = 0 THEN IF more THEN SedSays(Read(st, <<>>, <<>>), 1) ELSE Finish(<<>>)
        ELSE IF i > Len(job.script) THEN SedSays([st EXCEPT !.out = @ \o print], 0)
        ELSE IF ~Applies(c, seen) THEN SedSays(now, IF c.command = "{" THEN Behind(i) ELSE i + 1)
        ELSE CASE c.command \in {"{", "}", ":"} -> SedSays(now, i + 1)
               [] c.command = "p" -> Out(Written(st.ps), i + 1)
               [] c.command = "P" -> Out(Written(FirstLine(st.ps)), i + 1)
               [] c.command = "i" -> Out(Written(c.arg), i + 1)
               [] c.command = "=" -> Out(Written(<<st.line>>), i + 1)
               [] c.command = "a" -> SedSays([now EXCEPT !.app = @ \o Written(c.arg)], i + 1)
               [] c.command = "g" -> To(st.hs)
               [] c.command = "G" -> To(Written(st.ps) \o st.hs)
               [] c.command = "h" -> Hold(st.ps)
               [] c.command = "H" -> Hold(Written(st.hs) \o st.ps)
               [] c.command = "x" -> SedSays([now EXCEPT !.ps = st.hs, !.hs = st.ps], i + 1)
               [] c.command = "s" ->
                    LET at == Substituted(c, st.ps)
                        ps == FlattenSeq([j \in DOMAIN st.ps |->
                                  IF j \in at THEN Rhs(c, st.ps[j]) ELSE <<st.ps[j]>>])
                        shown == IF at # {} /\ c.pfl THEN Written(ps) ELSE <<>>
                    IN  SedSays([now EXCEPT !.ps = ps, !.sub = @ \/ at # {}, !.out = @ \o shown], i + 1)
               [] c.command = "b" -> SedSays(now, Label(c.arg))
               [] c.command = "t" -> SedSays([now EXCEPT !.sub = FALSE], IF st.sub THEN Label(c.arg) ELSE i + 1)
               [] c.command = "d" -> SedSays(now, 0)
               [] c.command = "D" -> IF nl = 0 THEN SedSays(now, 0)
                                     ELSE SedSays([now EXCEPT !.ps = SubSeq(@, nl + 1, Len(@))], 1)
               [] c.command = "c" -> Out(IF EndOfRange(c, seen) THEN Written(c.arg) ELSE <<>>, 0)
               [] c.command = "n" -> IF more THEN SedSays(Read(now, <<>>, print), i + 1) ELSE Finish(print)
               [] c.command = "N" -> IF more THEN SedSays(Read(now, Written(st.ps), <<>>), i + 1) ELSE Finish(<<>>)
               [] c.command = "q" -> Finish(print)

\* sed writes what the script means: its commands are applied to the pattern spaces
\* their addresses select, the n or N at the end of the last file is the end, texts to
\* be appended come before the next line is read, and nothing comes twice.  Left out is
\* what sed.1 does not have: an n or N at the end of another file, which is
\* executed twice; a range to a line that is behind, which lasts one command longer
\* but for the standards; s with a number that finds fewer; and, when a $ or a c asks
\* which line is the last, one with empty files behind it and one without a newline,
\* which is followed by the beginning of the buffer, read as lines: once in the last
\* file, in another one again and again.
SedMeans ==
    reading = "exit" /\ ~astray =>
        stdout = SedSays([line |-> 0, ps |-> <<>>, hs |-> <<>>, out |-> <<>>, app |-> <<>>,
                        sub |-> FALSE, seen |-> [i \in DOMAIN job.script |-> <<>>]], 0)

=============================================================================
