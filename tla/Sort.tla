--------------------------------- MODULE Sort ---------------------------------
(***************************************************************************)
(* sort (sort/sort.c): runs that fit into memory are sorted and written to *)
(* temporary files, which are merged Width at a time until there is one    *)
(* file, the output, which may be one of the inputs.  A line is its key, a *)
(* number; lines with equal keys are equal here, so which one of them -u   *)
(* keeps is left out.  The files are numbered as setfil() numbers them:    *)
(* the operands from 0 to eargc - 1, then the temporary ones.              *)
(***************************************************************************)
EXTENDS Integers, Sequences, FiniteSets, SequencesExt, FiniteSetsExt, Functions

CONSTANTS
    Operands,   \* what the operands may hold, sequences of sequences of lines
    SortFlags,  \* the options, as records: m, c, u, the operand that -o names,
                \* or OutOnly, and y, how many lines fit into the memory of -y
    Width,      \* files that are merged at a time, N
    MaxFile     \* the files there can be

ASSUME SortAssumption ==
    /\ Width \in Nat \ {0, 1} /\ MaxFile \in Nat
    /\ \A f \in SortFlags : f.y \in Nat \ {0}
    /\ \A ops \in Operands : Len(ops) \in 1..MaxFile

VARIABLES
    sfile,      \* what each file holds, or NoFile
    sgiven,     \* history: the operands at first
    sflag,
    nfiles,
    lines,      \* sort(): the input that has not been read
    lspace,     \* sort(): the run in memory
    done,       \* sort(): the input has come to its end
    sos,        \* the file that is written
    mfrom, mto, \* merge(a, b)
    ibuf,       \* merge(): the files, the one with the first line last
    line,       \* merge(): the number of the line that each of them is at
    muflg,      \* merge(): 1 and 0400 in the code
    last,       \* merge(): p->l, or NoLine
    sat, sexit  \* where the program is, and how it has exited

sortFixed == <<sgiven, sflag>>
sorting == <<lines, lspace, done>>
merging == <<mfrom, mto, ibuf, line, muflg, last>>
sortVars == <<sfile, sortFixed, nfiles, sorting, sos, merging, sat, sexit>>

OutOnly == -1           \* the output is none of the operands
NoFile == <<-1>>        \* lines are positive
NoLine == -1
eargc == Len(sgiven)
nlines == sflag.y
unsafeout == sflag.m /\ sflag.o >= eargc - Width /\ sflag.o # OutOnly
Given(k) == sgiven[k + 1]
Names == OutOnly..MaxFile

SortBegin(operands, flags) ==
    /\ sgiven \in operands /\ sflag \in flags
    /\ sflag.o < Len(sgiven) /\ (sflag.c => Len(sgiven) = 1)
    /\ sfile = [k \in Names |-> IF k \in 0..Len(sgiven) - 1 THEN sgiven[k + 1] ELSE NoFile]
    /\ nfiles = Len(sgiven)
    /\ lines = FlattenSeq(sgiven) /\ lspace = <<>> /\ done = FALSE
    /\ sos = OutOnly
    /\ mfrom = IF sflag.m \/ sflag.c THEN 0 ELSE Len(sgiven)
    /\ mto = 0
    /\ ibuf = <<>> /\ line = [k \in Names |-> 0]
    /\ muflg = FALSE /\ last = NoLine
    /\ sat = IF sflag.m \/ sflag.c THEN "pass" ELSE "sort"
    /\ sexit = 0

SortInit == SortBegin(Operands, SortFlags)

-----------------------------------------------------------------------------
(* Files *)

\* Mutant: < in the place of <=, so that the file that newfile() has just made is
\* forgotten.
TermShort ==
    /\ sfile' = [k \in Names |-> IF k \in eargc..nfiles - 1 THEN NoFile ELSE sfile[k]]
    /\ sat' = "exit"
    /\ UNCHANGED <<sortFixed, nfiles, sorting, sos, merging>>

\* term(): all temporary files go, with the one that newfile() may have made.
Term ==
    /\ sfile' = [k \in Names |-> IF k \in eargc..nfiles THEN NoFile ELSE sfile[k]]
    /\ sat' = "exit"
    /\ UNCHANGED <<sortFixed, nfiles, sorting, sos, merging>>

\* SIGINT, SIGTERM, SIGHUP and SIGPIPE, and each error
Trouble == sat # "exit" /\ Term /\ sexit' = 1

\* newfile()
NewFile ==
    /\ sat \in {"sortnew", "mergenew"}
    /\ sfile' = [sfile EXCEPT ![nfiles] = <<>>]
    /\ sos' = nfiles
    /\ sat' = IF sat = "sortnew" THEN "sortmade" ELSE "mergemade"
    /\ UNCHANGED <<sortFixed, nfiles, sorting, merging, sexit>>

NewFileCounted ==
    /\ sat \in {"sortmade", "mergemade"}
    /\ nfiles' = nfiles + 1
    /\ sat' = IF sat = "sortmade" THEN "write" ELSE "open"
    /\ UNCHANGED <<sfile, sortFixed, sorting, sos, merging, sexit>>

\* oldfile()
OldFile ==
    /\ sat \in {"sortold", "mergeold"}
    /\ sfile' = [sfile EXCEPT ![sflag.o] = <<>>]
    /\ sos' = sflag.o
    /\ sat' = IF sat = "sortold" THEN "write" ELSE "open"
    /\ UNCHANGED <<sortFixed, nfiles, sorting, merging, sexit>>

-----------------------------------------------------------------------------
(* sort() *)

(* quicksort(): v is what is sorted by key, greatest first; zero are the places *)
(* of those that are equal to one before them, which with -u count no more.    *)

Swapped(v, p, q) == [v EXCEPT ![p] = v[q], ![q] = v[p]]
\* qstexc(p, q, r)
Turned(v, p, q, r) == [v EXCEPT ![p] = v[r], ![r] = v[q], ![q] = v[p]]

\* The loop that puts what is before the middle one to its left, what is behind it
\* to its right and what is equal to it, from lp to hp, between them.  At loop, the
\* left part has been looked through.
RECURSIVE Partitioned(_, _, _)
Partitioned(x, loop, key) ==
    LET compare(p, q) == key[x.v[q]] - key[x.v[p]]
        c == compare(x.i, x.lp)
        d == compare(x.hp, x.j)
    IN  CASE ~loop /\ x.i < x.lp /\ c = 0 ->
                Partitioned([x EXCEPT !.lp = @ - 1, !.v = Swapped(@, x.i, x.lp - 1)], FALSE, key)
          [] ~loop /\ x.i < x.lp /\ c < 0 -> Partitioned([x EXCEPT !.i = @ + 1], FALSE, key)
          [] ~loop /\ (x.i >= x.lp \/ c > 0) -> Partitioned(x, TRUE, key)
          [] loop /\ x.j > x.hp /\ d = 0 ->
                Partitioned([x EXCEPT !.hp = @ + 1, !.v = Swapped(@, x.hp + 1, x.j)], TRUE, key)
          [] loop /\ x.j > x.hp /\ d > 0 /\ x.i = x.lp ->
                Partitioned([x EXCEPT !.hp = @ + 1, !.v = Turned(@, x.i, x.hp + 1, x.j),
                                      !.lp = @ + 1, !.i = x.lp + 1], TRUE, key)
          [] loop /\ x.j > x.hp /\ d > 0 /\ x.i # x.lp ->
                Partitioned([x EXCEPT !.v = Swapped(@, x.i, x.j), !.j = @ - 1, !.i = @ + 1],
                            FALSE, key)
          [] loop /\ x.j > x.hp /\ d < 0 -> Partitioned([x EXCEPT !.j = @ - 1], TRUE, key)
          [] loop /\ x.j <= x.hp /\ x.i = x.lp -> x
          [] loop /\ x.j <= x.hp /\ x.i # x.lp ->
                Partitioned([x EXCEPT !.lp = @ - 1, !.v = Turned(@, x.j, x.lp - 1, x.i),
                                      !.hp = @ - 1, !.j = x.hp - 1], FALSE, key)

RECURSIVE Quicksort(_, _, _, _)
Quicksort(q, a, l, key) ==
    IF l - a <= 1 THEN q
    ELSE LET mid == a + (l - a) \div 2
             x == Partitioned([v |-> q.v, i |-> a, j |-> l - 1, lp |-> mid, hp |-> mid],
                              FALSE, key)
             equal == [v |-> x.v, zero |-> q.zero \cup x.lp + 1..x.hp]
         IN  Quicksort(Quicksort(equal, x.hp + 1, l, key), a, x.lp, key)

Quicksorted(v, key) == Quicksort([v |-> v, zero |-> {}], 1, Len(v) + 1, key)

\* A run as it is written, from the end of what quicksort() makes of it
Sorted(s) ==
    LET q == Quicksorted([k \in DOMAIN s |-> k], s)
        kept == {k \in DOMAIN s : sflag.u => k \notin q.zero}
    IN  Reverse([n \in 1..Cardinality(kept) |-> s[q.v[SetToSortSeq(kept, <)[n]]]])

SortRun ==
    /\ sat = "sort"
    /\ LET n == Min({nlines, Len(lines)})
       IN  /\ lspace' = Sorted(SubSeq(lines, 1, n))
           /\ lines' = SubSeq(lines, n + 1, Len(lines))
           /\ done' = (n < nlines)
           /\ sat' = IF n < nlines /\ nfiles = eargc THEN "sortold" ELSE "sortnew"
    /\ UNCHANGED <<sfile, sortFixed, nfiles, sos, merging, sexit>>

WriteRun ==
    /\ sat = "write"
    /\ sfile' = [sfile EXCEPT ![sos] = lspace]
    /\ sat' = IF done THEN "pass" ELSE "sort"
    /\ UNCHANGED <<sortFixed, nfiles, sorting, sos, merging, sexit>>

-----------------------------------------------------------------------------
(* The passes of main() *)

MoreThanOnePass == mfrom + Width < nfiles \/ (unsafeout /\ mfrom < eargc)

Pass ==
    /\ sat = "pass"
    /\ \/ /\ MoreThanOnePass
          /\ mto' = Min({mfrom + Width, nfiles})
          /\ sat' = "mergenew"
       \/ /\ ~MoreThanOnePass /\ mfrom # nfiles
          /\ mto' = nfiles
          /\ sat' = "mergeold"
    /\ UNCHANGED <<sfile, sortFixed, nfiles, sorting, sos, mfrom, ibuf, line, muflg,
                   last, sexit>>

Succeed ==
    /\ sat = "pass" /\ mfrom = nfiles
    /\ Term /\ sexit' = 0

-----------------------------------------------------------------------------
(* merge() *)

LineOf(f) == sfile[f][line[f]]
i == Len(ibuf)
Foremost == ibuf[i]

\* -c and -mu compare each line with the one before.
muflgAtFirst == (sflag.m /\ sflag.u) \/ sflag.c

MergeOpen ==
    /\ sat = "open"
    /\ line' = [f \in Names |-> IF f \in mfrom..mto - 1 THEN 1 ELSE 0]
    /\ LET some == {f \in mfrom..mto - 1 : sfile[f] # <<>>}
       IN  ibuf' = SetToSortSeq(some, <)
    /\ muflg' = muflgAtFirst /\ last' = NoLine
    /\ sat' = "quicksort"
    /\ UNCHANGED <<sfile, sortFixed, nfiles, sorting, sos, mfrom, mto, sexit>>

\* quicksort(); with -u all files but one of those that are at equal lines read
\* another line, until all are at different ones.
QuickSort ==
    /\ sat = "quicksort"
    /\ LET q == Quicksorted(ibuf, [f \in Range(ibuf) |-> LineOf(f)])
           again == IF sflag.u THEN q.zero ELSE {}
           ended == {j \in again : line[q.v[j]] = Len(sfile[q.v[j]])}
       IN  /\ ibuf' = [n \in 1..Len(q.v) - Cardinality(ended) |->
                            q.v[SetToSortSeq(DOMAIN q.v \ ended, <)[n]]]
           /\ line' = [f \in Names |-> IF f \in {q.v[j] : j \in again}
                                       THEN line[f] + 1 ELSE line[f]]
           /\ sat' = IF again # {} THEN "quicksort" ELSE "out"
    /\ UNCHANGED <<sfile, sortFixed, nfiles, sorting, sos, mfrom, mto, muflg, last, sexit>>

\* Mutant: a line is not compared with the one that is next in order.
MergeOutEach ==
    /\ sat = "out" /\ i > 0
    /\ sfile' = IF ~sflag.c THEN [sfile EXCEPT ![sos] = Append(@, LineOf(Foremost))] ELSE sfile
    /\ last' = IF muflg THEN LineOf(Foremost) ELSE last
    /\ sat' = "next"
    /\ UNCHANGED <<sortFixed, nfiles, sorting, sos, mfrom, mto, ibuf, line, muflg, sexit>>

\* Without -m, -u leaves out a line when the next in order is equal.
MergeOut ==
    /\ sat = "out" /\ i > 0
    /\ sfile' = IF ~sflag.c /\ (~sflag.u \/ muflg \/ i = 1
                                \/ LineOf(Foremost) # LineOf(ibuf[i - 1]))
                THEN [sfile EXCEPT ![sos] = Append(@, LineOf(Foremost))] ELSE sfile
    /\ last' = IF muflg THEN LineOf(Foremost) ELSE last
    /\ sat' = "next"
    /\ UNCHANGED <<sortFixed, nfiles, sorting, sos, mfrom, mto, ibuf, line, muflg, sexit>>

\* The file that is at its next line sinks to its place.
Placed(s, f, at) ==
    LET above == {j \in DOMAIN s : LineOf(s[j]) < at}
        j == IF above = {} THEN Len(s) + 1 ELSE Min(above)
    IN  InsertAt(s, j, f)

\* Another line is read from the file that the last was from; one that has none
\* goes, and with the last but one of them the line before is forgotten.
MergeNext ==
    /\ sat = "next"
    /\ LET f == Foremost
           eof == line[f] = Len(sfile[f])
           at == sfile[f][line[f] + 1]
           prev == IF eof /\ i = 2 THEN NoLine ELSE last
           rest == IF eof THEN Front(ibuf) ELSE Placed(Front(ibuf), f, at)
           now == IF eof \/ Last(rest) # f THEN LineOf(Last(rest)) ELSE at
       IN  /\ ibuf' = rest
           /\ line' = IF eof THEN line ELSE [line EXCEPT ![f] = @ + 1]
           /\ muflg' = IF eof /\ i = 2 THEN sflag.u ELSE muflg
           /\ last' = prev
           /\ \/ /\ rest = <<>>
                 /\ sat' = "close" /\ sexit' = sexit
              \/ /\ rest # <<>> /\ prev # NoLine /\ sflag.u /\ now = prev
                 /\ sat' = (IF sflag.c THEN "disorder" ELSE "next")
                 /\ sexit' = (IF sflag.c THEN 1 ELSE sexit)
              \/ /\ rest # <<>> /\ prev # NoLine /\ sflag.c /\ now < prev
                 /\ sat' = "disorder" /\ sexit' = 1
              \/ /\ rest # <<>>
                 /\ prev = NoLine \/ now > prev \/ (now = prev /\ ~sflag.u) \/ (now < prev /\ ~sflag.c)
                 /\ sat' = "out" /\ sexit' = sexit
    /\ UNCHANGED <<sfile, sortFixed, nfiles, sorting, sos, mfrom, mto>>

Disorder == sat = "disorder" /\ Term /\ UNCHANGED sexit

\* The temporary files among those that have been merged go.
MergeClose ==
    /\ sat = "close" \/ (sat = "out" /\ i = 0)
    /\ sfile' = [f \in Names |-> IF f >= eargc /\ f \in mfrom..mto - 1 THEN NoFile ELSE sfile[f]]
    /\ mfrom' = mto
    /\ sat' = "pass"
    /\ UNCHANGED <<sortFixed, nfiles, sorting, sos, mto, ibuf, line, muflg, last, sexit>>

SortNext ==
    \/ Trouble \/ NewFile \/ NewFileCounted \/ OldFile \/ SortRun \/ WriteRun \/ Pass
    \/ Succeed \/ MergeOpen \/ QuickSort \/ MergeOut \/ MergeNext \/ Disorder \/ MergeClose

SortSpec == SortInit /\ [][SortNext]_sortVars

-----------------------------------------------------------------------------
(* Properties *)

SortTypeOK ==
    /\ nfiles \in eargc..MaxFile
    /\ sos \in Names /\ mfrom \in 0..nfiles /\ mto \in 0..nfiles
    /\ sat \in {"quicksort", "out", "next"} =>
          \A f \in Range(ibuf) : f \in mfrom..mto - 1 /\ line[f] \in 1..Len(sfile[f])
    /\ sexit \in {0, 1} /\ muflg \in BOOLEAN /\ done \in BOOLEAN

AllLines == FlattenSeq(sgiven)
Expected == IF sflag.u THEN SetToSortSeq(Range(AllLines), <) ELSE SortSeq(AllLines, <)

\* When sort exits with 0, the output is all lines in order, or with -u one of
\* each, however they were divided into runs and the runs merged; if -o names an
\* operand it is the old contents until the output is opened and a part of the
\* new ones then.  (For -mu, what MergesOnce says is not asked here.)
SortedOut ==
    /\ sat = "exit" /\ sexit = 0 /\ ~sflag.c =>
        IF sflag.m /\ sflag.u THEN SetToSortSeq(Range(sfile[sflag.o]), <) = Expected
                              ELSE sfile[sflag.o] = Expected
    /\ sflag.o # OutOnly /\ ~sflag.c =>
        \/ sfile[sflag.o] = Given(sflag.o)
        \/ IsPrefix(sfile[sflag.o], Expected) \/ (sflag.m /\ sflag.u)

\* -c exits with 0 for a file in order, with -u also without equal lines, and with
\* something else for any other.  (If -o names the file itself, it is emptied before it
\* is read, and found in order.)
Checked ==
    sflag.c /\ sflag.o = OutOnly =>
        /\ sat = "disorder" => Given(0) # Expected
        /\ sat = "exit" /\ sexit = 0 => Given(0) = Expected

TempsGone == sat = "exit" => \A f \in Names : f >= eargc => sfile[f] = NoFile

\* Whichever call fails and whenever one of the signals comes that sort catches, it keeps
\* the lines and leaves no temporary file behind.
SortsAll == SortedOut /\ Checked /\ TempsGone

\* "Suppress all but one in each set of equal lines."
MergesOnce ==
    sat = "exit" /\ sexit = 0 /\ ~sflag.c /\ sflag.u => sfile[sflag.o] = Expected
=============================================================================
