--------------------------------- MODULE Grep ---------------------------------
(***************************************************************************)
(* fgrep (grep/fgrep.c, plist.c, ac.c, grep.c): the automaton for the words*)
(* that are looked for, and the loop that takes the lines from the buffer  *)
(* of the file (libcommon/ib_read.c).  A character is "a", "b", ..., the   *)
(* upper case ones are in DOMAIN LowerOf.  -b, -f with -e, -h, -n, -r, -z  *)
(* and multibyte characters are left out; so is a realloc() that fails.    *)
(***************************************************************************)
EXTENDS Integers, Sequences, SequencesExt, FiniteSetsExt

CONSTANTS
    GrepJobs,   \* [words, fromFile, flags, pipe, files]: the words, whether the file
                \* of -f has them, the options, whether a read may be short
    BlkSz,      \* ib_blksize
    LowerOf,    \* tolower() of the upper case characters
    NoGrepFile  \* a file that cannot be opened

ASSUME GrepAssumption == BlkSz \in Nat \ {0}

VARIABLES
    gjob,       \* what fgrep is called for
    gpc,        \* "file" (the next one is to be opened), "start", "range", "nextbuf",
                \* "endgrep" or "exit"
    argno,      \* which file it is
    unread,     \* what has not been read of it
    ib_blk,     \* the buffer
    ib_cur,     \* the place of the next character in it
    overlap,    \* the line buffer, or NoOverlap
    lineno, lmatch, gstatus,
    reported,   \* [file, no, line, addnl]: what has been written
    miscut      \* history: what is no line has been taken for one, see GrepSelects

grepVars == <<gjob, gpc, argno, unread, ib_blk, ib_cur, overlap, lineno, lmatch, gstatus,
              reported, miscut>>

EOL == "\n"
NoOverlap == <<>>
On(flag) == flag \in gjob.flags

\* nextch() and loconv(): with -i, words and lines are compared in lower case.
Lowered(j, text) ==
    [k \in DOMAIN text |-> IF "i" \in j.flags /\ text[k] \in DOMAIN LowerOf THEN LowerOf[text[k]]
                           ELSE text[k]]

-----------------------------------------------------------------------------
(* The automaton.  A state is what has been read of a word; with -x a word    *)
(* ends in a newline.                                                         *)

StatesOf(words) == {<<>>} \cup UNION {Prefixes(w) : w \in ToSet(words)}

\* cgotofn() returns at EOF where the letters of the last word were there already.
EnteredWords(words, ended) ==
    IF ~ended /\ words # <<>> /\ Last(words) \in StatesOf(Front(words)) THEN Front(words) ELSE words

\* Mutant: the fix from the addenda tape is missing.
FailLinksOnce(states) ==
    LET f[s \in states] ==
            LET t == Append(f[Front(s)], Last(s))
            IN  IF Len(s) <= 1 \/ t \notin states THEN <<>> ELSE t
    IN  f

\* cfail(): where to go when no word goes on.  If the link of the state before
\* does not lead on with this letter, the first state is tried, and no other.
FailLinks(states) ==
    LET f[s \in states] ==
            IF Len(s) <= 1 THEN <<>>
            ELSE LET t == Append(f[Front(s)], Last(s))
                 IN  CASE t \in states -> t
                       [] t \notin states /\ <<Last(s)>> \in states -> <<Last(s)>>
                       [] OTHER -> <<>>
    IN  f

\* A state is final at the end of a word, and where its link leads to a final one.
Finals(words, fail) ==
    LET out[s \in DOMAIN fail] == s \in ToSet(words) \/ (fail[s] # <<>> /\ out[fail[s]])
    IN  {s \in DOMAIN fail : out[s]}

AcBuild(j) ==
    LET words == EnteredWords([k \in DOMAIN j.words |-> Lowered(j, j.words[k])], j.fromFile)
        ends == [k \in DOMAIN words |-> words[k] \o IF "x" \in j.flags THEN <<EOL>> ELSE <<>>]
        fail == FailLinks(StatesOf(ends))
    IN  [fail |-> fail, out |-> Finals(ends, fail)]

AcStates == DOMAIN gjob.fail

\* From c with the letter z, along the links.
AcGoto(c, z) ==
    LET to[s \in AcStates] ==
            IF Append(s, z) \in AcStates THEN Append(s, z) ELSE IF s = <<>> THEN <<>> ELSE to[gjob.fail[s]]
    IN  to[c]

AcStep(st, z) ==
    IF st.hit THEN st
    ELSE LET c == AcGoto(st.c, z)
         IN  [c |-> c, at |-> st.at + 1, hit |-> c \in gjob.out,
              failed |-> st.failed \/ c # Append(st.c, z)]
AcScan(text) == FoldLeft(AcStep, [c |-> <<>>, at |-> 0, hit |-> FALSE, failed |-> FALSE], text)

AcMatch(line) ==
    LET st == AcScan(IF line # <<>> /\ Last(line) = EOL THEN line ELSE Append(line, EOL))
    IN  st.hit /\ ~(On("x") /\ (st.failed \/ st.at <= Len(line)))

\* ac_build(): no pattern matches nothing, an empty one everything.
NoPattern == gjob.words = <<>>
EmptyPattern == ~NoPattern /\ ~On("x") /\ <<>> \in ToSet(gjob.words)
MatchOf(line) ==
    CASE NoPattern -> FALSE
      [] EmptyPattern -> TRUE
      [] OTHER -> AcMatch(Lowered(gjob, line))

HasRange == ~NoPattern /\ ~EmptyPattern /\ ~On("i")

\* ac_range() for a line: with -v, what made a word of -x fail is not looked at.
RangeTakes(line) ==
    LET st == AcScan(Append(line, EOL))
    IN  IF On("v") THEN ~st.hit
        ELSE st.hit /\ ~(On("x") /\ (st.failed \/ st.at <= Len(line)))

-----------------------------------------------------------------------------
(* The lines, and what is said of them *)

\* The state of the lines that are taken one after the other.
Taking == [no |-> lineno, n |-> lmatch, status |-> gstatus, said |-> reported, stop |-> "no"]

\* matchline(), and outline() for a range: what a selected line leads to.
Select(st, line, addnl) ==
    LET s == [st EXCEPT !.status = IF @ = 1 THEN 0 ELSE @]
        says(e) == Append(st.said, e)
    IN  CASE On("q") -> [st EXCEPT !.status = 0, !.stop = "exit"]
          [] On("l") /\ ~On("c") -> [s EXCEPT !.n = @ + 1, !.stop = "endgrep",
                                   !.said = says([file |-> argno, line |-> "named"])]
          [] On("c") -> [s EXCEPT !.n = @ + 1]
          [] OTHER -> [s EXCEPT !.n = @ + 1,
                               !.said = says([file |-> argno, no |-> st.no, line |-> line,
                                              addnl |-> addnl])]

Considered(st, taken, line, addnl) ==
    LET s == [st EXCEPT !.no = @ + 1]
    IN  IF st.stop # "no" THEN st ELSE IF taken THEN Select(s, line, addnl) ELSE s

Matchline(st, line, addnl) == Considered(st, MatchOf(line) # On("v"), line, addnl)
RangeLine(st, line) ==
    IF HasRange THEN Considered(st, RangeTakes(line), line, TRUE) ELSE Matchline(st, line, TRUE)

\* The lines of a text, which ends in a newline.
CutLines(text) ==
    LET ends == SetToSortSeq({k \in DOMAIN text : text[k] = EOL}, <)
    IN  [j \in DOMAIN ends |-> SubSeq(text, IF j = 1 THEN 1 ELSE ends[j - 1] + 1, ends[j] - 1)]

Took(st, pc) ==
    /\ lineno' = st.no /\ lmatch' = st.n /\ gstatus' = st.status /\ reported' = st.said
    /\ gpc' = IF st.stop = "no" THEN pc ELSE st.stop

-----------------------------------------------------------------------------
(* fngrep() and grep() *)

GrepBegin(jobs) ==
    /\ \E j \in jobs : gjob = AcBuild(j) @@ j
    /\ gpc = "file" /\ argno = 0 /\ unread = <<>> /\ ib_blk = <<>> /\ ib_cur = 1
    /\ overlap = NoOverlap /\ lineno = 0 /\ lmatch = 0 /\ gstatus = 1
    /\ reported = <<>> /\ miscut = FALSE

GrepInit == GrepBegin(GrepJobs)

GrepOpen ==
    /\ gpc = "file" /\ argno < Len(gjob.files) /\ argno' = argno + 1
    /\ IF gjob.files[argno'] = NoGrepFile
       THEN /\ gstatus' = IF ~On("q") \/ gstatus = 1 THEN 2 ELSE gstatus
            /\ UNCHANGED <<gpc, unread, lineno, lmatch>>
       ELSE /\ gpc' = "start" /\ unread' = gjob.files[argno'] /\ lineno' = 0 /\ lmatch' = 0
            /\ UNCHANGED gstatus
    /\ UNCHANGED <<gjob, ib_blk, ib_cur, overlap, reported, miscut>>
GrepExit ==
    /\ gpc = "file" /\ argno = Len(gjob.files) /\ gpc' = "exit"
    /\ UNCHANGED <<gjob, argno, unread, ib_blk, ib_cur, overlap, lineno, lmatch, gstatus,
                   reported, miscut>>

\* ib_read(): a read of a pipe may return less than there is room for.
IbRead ==
    \E n \in 1..BlkSz :
        /\ n <= Len(unread) /\ (gjob.pipe \/ n = BlkSz \/ n = Len(unread))
        /\ ib_blk' = SubSeq(unread, 1, n) /\ unread' = SubSeq(unread, n + 1, Len(unread))
IbEof == unread = <<>> /\ ib_blk' = <<>> /\ UNCHANGED unread

GrepStart ==
    /\ gpc = "start" /\ ib_cur' = 1
    /\ \/ IbRead /\ gpc' = "range"
       \/ IbEof /\ gpc' = "endgrep"
    /\ UNCHANGED <<gjob, argno, overlap, lineno, lmatch, gstatus, reported, miscut>>

LastNl ==
    LET nl == {k \in ib_cur..Len(ib_blk) : ib_blk[k] = EOL}
    IN  IF nl # {} THEN Max(nl) ELSE IF ib_cur > Len(ib_blk) THEN Len(ib_blk) ELSE ib_cur

\* The lines that end in the buffer, and the one that does not.  Behind the last
\* character there is none, but the newline there is taken for the start of one.
GrepRange ==
    /\ gpc = "range"
    /\ LET hadnl == ib_cur <= Len(ib_blk) /\ ib_blk[LastNl] = EOL
           from == IF hadnl THEN LastNl + 1 ELSE LastNl
       IN  /\ Took(IF hadnl THEN FoldLeft(RangeLine, Taking, CutLines(SubSeq(ib_blk, ib_cur, LastNl)))
                   ELSE Taking, "nextbuf")
           /\ overlap' = IF gpc' = "nextbuf" THEN SubSeq(ib_blk, from, Len(ib_blk)) ELSE NoOverlap
    /\ miscut' = (miscut \/ ib_cur > Len(ib_blk))
    /\ UNCHANGED <<gjob, argno, unread, ib_blk, ib_cur>>

\* The rest of the line that was begun in the buffer before.
GrepNextBuf ==
    /\ gpc = "nextbuf" /\ IbRead
    /\ LET cp == SelectInSeq(ib_blk', LAMBDA c : c = EOL)
       IN  CASE overlap = NoOverlap ->
                    /\ gpc' = "range" /\ ib_cur' = 1
                    /\ UNCHANGED <<overlap, lineno, lmatch, gstatus, reported>>
             [] overlap # NoOverlap /\ cp = 0 ->
                    /\ overlap' = overlap \o ib_blk' /\ ib_cur' = 1
                    /\ UNCHANGED <<gpc, lineno, lmatch, gstatus, reported>>
             [] overlap # NoOverlap /\ cp # 0 ->
                    /\ Took(Matchline(Taking, overlap \o SubSeq(ib_blk', 1, cp - 1), TRUE), "range")
                    /\ overlap' = NoOverlap /\ ib_cur' = cp + 1
    /\ UNCHANGED <<gjob, argno, miscut>>
GrepEof ==
    /\ gpc = "nextbuf" /\ IbEof
    /\ IF overlap = NoOverlap THEN gpc' = "endgrep" /\ UNCHANGED <<lineno, lmatch, gstatus, reported>>
       ELSE LET st == Matchline(Taking, overlap, On("sus"))
            IN  Took(st, "endgrep")
    /\ overlap' = NoOverlap /\ UNCHANGED <<gjob, argno, ib_cur, miscut>>

EndGrep ==
    /\ gpc = "endgrep" /\ gpc' = "file"
    /\ reported' = IF On("c") /\ ~On("q") THEN Append(reported, [file |-> argno, n |-> lmatch])
                   ELSE reported
    /\ UNCHANGED <<gjob, argno, unread, ib_blk, ib_cur, overlap, lineno, lmatch, gstatus, miscut>>

GrepNext ==
    \/ GrepOpen \/ GrepExit \/ GrepStart \/ GrepRange \/ GrepNextBuf \/ GrepEof \/ EndGrep

GrepSpec == GrepInit /\ [][GrepNext]_grepVars

-----------------------------------------------------------------------------
(* Properties *)

GrepTypeOK ==
    /\ gpc \in {"file", "start", "range", "nextbuf", "endgrep", "exit"}
    /\ argno \in 0..Len(gjob.files) /\ gstatus \in 0..2
    /\ Len(ib_blk) <= BlkSz /\ ib_cur \in 1..BlkSz + 1
    /\ (gpc = "nextbuf" /\ overlap # NoOverlap) => (miscut \/ EOL \notin ToSet(overlap))

\* What the manual says of a line: one of the words is in it, or with -x is all of it.
Holds(line) ==
    \E w \in ToSet(gjob.words) :
        LET word == Lowered(gjob, w)
            text == Lowered(gjob, line)
        IN  IF On("x") THEN text = word
            ELSE \E k \in 0..Len(text) - Len(word) : SubSeq(text, k + 1, k + Len(word)) = word
Selected(line) == Holds(line) # On("v")

\* What is reported, and with what status, when the lines are what ends in a newline,
\* and what is behind the last one.
Whole(text) == text = <<>> \/ Last(text) = EOL
LinesOfFile(text) == IF text = NoGrepFile THEN <<>> ELSE CutLines(IF Whole(text) THEN text ELSE Append(text, EOL))
Chosen(text) == SetToSortSeq({n \in DOMAIN LinesOfFile(text) : Selected(LinesOfFile(text)[n])}, <)
SaysOfFile(k) ==
    LET text == gjob.files[k]
        chosen == Chosen(text)
    IN  CASE text = NoGrepFile \/ On("q") -> <<>>
          [] On("c") -> <<[file |-> k, n |-> Len(chosen)]>>
          [] On("l") -> IF chosen = <<>> THEN <<>> ELSE <<[file |-> k, line |-> "named"]>>
          [] OTHER -> [j \in DOMAIN chosen |->
                          [file |-> k, no |-> chosen[j], line |-> LinesOfFile(text)[chosen[j]],
                           addnl |-> Whole(text) \/ chosen[j] < Len(LinesOfFile(text)) \/ On("sus")]]
Says == FlattenSeq([k \in DOMAIN gjob.files |-> SaysOfFile(k)])
StatusSays ==
    LET some == \E text \in ToSet(gjob.files) : Chosen(text) # <<>>
        all == NoGrepFile \notin ToSet(gjob.files)
    IN  CASE some /\ (On("q") \/ all) -> 0
          [] ~some /\ all -> 1
          [] ~all /\ ~(some /\ On("q")) -> 2

\* What the code does not do as the manual says: a last word that begins another
\* one is lost; so is the link to the longest state that a word ends in, unless it
\* goes on from such a link or is a letter; -v with -x leaves out the lines that
\* end in a word.
WordLost ==
    ~gjob.fromFile /\ ~NoPattern /\ Lowered(gjob, Last(gjob.words)) \in
        StatesOf([k \in 1..Len(gjob.words) - 1 |-> Lowered(gjob, gjob.words[k])])
LongestEnd(s) == CHOOSE e \in {SubSeq(s, k, Len(s)) : k \in 2..Len(s) + 1} \cap AcStates :
                     \A k \in 2..Len(s) - Len(e) : SubSeq(s, k, Len(s)) \notin AcStates
LinkLost ==
    \E s \in AcStates : Len(s) > 1 /\ Len(LongestEnd(s)) > 1
                          /\ Front(LongestEnd(s)) # LongestEnd(Front(s))
Divergent == WordLost \/ LinkLost \/ {"v", "x"} \subseteq gjob.flags

\* However the reads cut the files, every line is judged once, by the words that
\* are in it, and is reported with its number and as a whole; without -v, a line
\* is never reported that holds no word (grep.c:350, ac.c:176).  This is not said
\* of a file with a line that began in one buffer and ended the next one.
GrepSelects ==
    gpc = "exit" /\ ~miscut =>
        /\ ~Divergent => reported = Says /\ gstatus = StatusSays
        /\ ~On("v") /\ ~On("c") /\ ~On("l") =>
               \A k \in DOMAIN reported : Holds(reported[k].line)

\* The same of every file.  The code takes the newline at the end of such a buffer
\* for the beginning of the next line.
LinesAsTheyAre == gpc = "exit" /\ ~Divergent => reported = Says

=============================================================================
