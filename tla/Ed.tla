--------------------------------- MODULE Ed ---------------------------------
(***************************************************************************)
(* The buffer of ed (ed/ed.c, as built for /usr/5bin).  The text is in a   *)
(* temporary file that only grows; the buffer is an array of addresses in  *)
(* it, zero+1 to dol, with the mark of a global command in the low bit of  *)
(* each.  The commands work on the array in place, undo swaps it with the  *)
(* copy made before the last command, and the names given with k are       *)
(* addresses too.  What a line says is left out: an address is a line.     *)
(***************************************************************************)
EXTENDS Integers, Sequences, FiniteSets, SequencesExt, FiniteSetsExt

CONSTANTS
    MaxLine,    \* lines the temporary file can take
    MaxText,    \* lines given to a, i, c, or in a file
    Room,       \* nlall: entries the array has at first (128 in the code)
    ListLen,    \* commands in the list of a global command
    Name        \* the letters for k

ASSUME EdAssumption ==
    MaxLine \in Nat /\ MaxText \in Nat /\ Room \in Nat /\ ListLen \in Nat \ {0}

VARIABLES
    buf,        \* the lines from zero+1 to dol
    bits,       \* the lines that have the mark of the global command
    names,      \* the line that each letter stands for, or 0
    und,        \* what undo swaps them with
    tline,      \* the last line in the temporary file
    fchange,
    anymarks,
    grown,      \* the array has been enlarged
    wild,       \* unddot and unddol do not point into undzero any more
    mode,       \* "command"; "global" between lines and "list" within one;
                \* "crashed"
    left,       \* commands left in the list
    origin,     \* history: the line that a line was before it was edited
    meant,      \* history: what the names were given to
    start,      \* history: the buffer when the global command was typed
    past,       \* history: the buffer before the last command that was typed to
                \* edit it or has changed it
    nested,     \* history: there was a u in the list of the last global command
    unsaved     \* history: whether the buffer has been altered since it was
                \* written whole, read with e or warned of: "no", "altered",
                \* or by what the code forgets, "told" of or "untold"

text == <<buf, bits>>
table == <<grown, wild>>
history == <<origin, meant>>
seen == <<start, past, nested, unsaved>>
vars == <<text, names, und, tline, fchange, anymarks, table, mode, left, history, seen>>

Line == 1..MaxLine
NoUndo == [set |-> FALSE, buf |-> <<>>, bits |-> {},
           names |-> [n \in Name |-> 0], meant |-> [n \in Name |-> 0]]

\* No line is in the buffer, or in what undo would make of it, twice: a name and
\* the loop of a global command find a line by its address.
EdTypeOK ==
    /\ buf \in Seq(Line) /\ IsInjective(buf)
    /\ bits \subseteq ToSet(buf)
    /\ names \in [Name -> 0..MaxLine]
    /\ und.buf \in Seq(Line) /\ IsInjective(und.buf)
    /\ \A l \in ToSet(buf) \cup ToSet(und.buf) : l <= tline
    /\ und.bits \subseteq ToSet(und.buf)
    /\ tline \in 0..MaxLine
    /\ {fchange, anymarks, grown, wild, nested} \subseteq BOOLEAN
    /\ {start, past} \subseteq Seq(Line)
    /\ unsaved \in {"no", "altered", "told", "untold"}
    /\ mode \in {"command", "global", "list", "crashed"}
    /\ left \in 0..ListLen

EdInit ==
    /\ buf = <<>> /\ bits = {}
    /\ names = [n \in Name |-> 0]
    /\ und = NoUndo
    /\ tline = 0
    /\ anymarks = FALSE /\ fchange = FALSE
    /\ grown = FALSE /\ wild = FALSE
    /\ mode = "command" /\ left = 0
    /\ origin = [l \in Line |-> l]
    /\ meant = [n \in Name |-> 0]
    /\ start = <<>> /\ past = <<>> /\ nested = FALSE
    /\ unsaved = "no"

-----------------------------------------------------------------------------
(* The array *)

\* append(): new after the a-th line.
Splice(s, a, new) == SubSeq(s, 1, a) \o new \o SubSeq(s, a + 1, Len(s))

\* rdelete()
Cut(s, i, j) == SubSeq(s, 1, i - 1) \o SubSeq(s, j + 1, Len(s))

\* reverse(), of the lines from i to j - 1
Reversed(s, i, j) ==
    [k \in DOMAIN s |-> IF k \in i..j - 1 THEN s[i + j - 1 - k] ELSE s[k]]

\* The lines that putline() makes, called n times
New(n) == [k \in 1..n |-> tline + k]

\* Mutant: room is left for one line only.
PutOne(n) ==
    /\ tline + n <= MaxLine
    /\ tline' = tline + Min({n, 1})
    /\ fchange' = (fchange \/ n > 0)

\* Mutant: fchange is left to the commands.
PutUnnoted(n) ==
    /\ tline + n <= MaxLine
    /\ tline' = tline + n
    /\ UNCHANGED fchange

\* putline(), n times
Put(n) ==
    /\ tline + n <= MaxLine
    /\ tline' = tline + n
    /\ fchange' = (fchange \/ n > 0)

Ready == mode = "command" \/ (mode = "list" /\ left > 0)
Typed == mode = "command"

\* Mutant: in a global command too.
CheckpointAlways ==
    und' = [set |-> TRUE, buf |-> buf, bits |-> bits,
            names |-> names, meant |-> meant]

\* checkpoint()
Checkpoint ==
    und' = IF Typed
           THEN [set |-> TRUE, buf |-> buf, bits |-> bits,
                 names |-> names, meant |-> meant]
           ELSE und

\* append() enlarges the array before it puts the n-th line there.  unddot and
\* unddol, which point into undzero, are moved as far as zero was; it is only by
\* chance that undzero is moved as far.
Grow(n) ==
    LET known == IF Typed THEN FALSE ELSE wild
        grows == n >= Room /\ ~grown
    IN  /\ grown' = (grown \/ grows)
        /\ wild' \in IF grows /\ und'.set THEN {known, TRUE} ELSE {known}
Stay == Grow(0)

\* Mutant: a command that is typed is counted too.
DoneCounted ==
    /\ Ready
    /\ left' = left - 1
    /\ UNCHANGED mode

\* The next command, of the list or of the user.
Done ==
    /\ Ready
    /\ left' = IF Typed THEN 0 ELSE left - 1
    /\ UNCHANGED mode

\* error(): the global command is given up.
Abort == Ready /\ mode' = "command" /\ left' = 0

\* What it does to the buffer is the same when it is interrupted after that.
DoneOrCut == Done \/ (~Typed /\ Abort)

Marked(b) == bits' = bits \cap ToSet(b)

-----------------------------------------------------------------------------
(* The commands that change the buffer *)

\* a, and i of the line after; also one that is interrupted after n lines
AppendText ==
    /\ \E a \in 0..Len(buf), n \in 1..MaxText :
        /\ Put(n)
        /\ Checkpoint /\ Grow(Len(buf) + n)
        /\ buf' = Splice(buf, a, New(n))
    /\ DoneOrCut
    /\ UNCHANGED <<bits, names, anymarks, origin, meant>>

\* d, and c without lines
Delete ==
    /\ \E i \in 1..Len(buf) : \E j \in i..Len(buf) : buf' = Cut(buf, i, j)
    /\ Checkpoint /\ Stay
    /\ Marked(buf')
    /\ fchange' = TRUE
    /\ Done
    /\ UNCHANGED <<names, tline, anymarks, origin, meant>>

\* c
Change ==
    /\ \E i \in 1..Len(buf), n \in 1..MaxText : \E j \in i..Len(buf) :
        /\ tline + n <= MaxLine /\ tline' = tline + n
        /\ Checkpoint /\ Grow(Len(buf) - (j - i + 1) + n)
        /\ buf' = Splice(Cut(buf, i, j), i - 1, New(n))
    /\ Marked(buf')
    /\ fchange' = TRUE
    /\ DoneOrCut
    /\ UNCHANGED <<names, anymarks, origin, meant>>

\* j
Join ==
    /\ \E i \in 1..Len(buf) : \E j \in i + 1..Len(buf) :
        /\ Put(1)
        /\ buf' = Splice(Cut(buf, i, j), i - 1, New(1))
    /\ Checkpoint /\ Stay
    /\ Marked(buf')
    /\ Done
    /\ UNCHANGED <<names, anymarks, origin, meant>>

\* Mutant: the lines that are passed are reversed but for the last.
RotatedShort(s, adt, ad1, ad2) ==
    IF adt < ad1
    THEN Reversed(Reversed(Reversed(s, adt + 1, ad1), ad1, ad2), adt + 1, ad2)
    ELSE Reversed(Reversed(Reversed(s, ad1, ad2), ad2, adt), ad1, adt + 1)

\* move(), of the lines from ad1 to ad2 - 1 after the line adt
Rotated(s, adt, ad1, ad2) ==
    IF adt < ad1
    THEN Reversed(Reversed(Reversed(s, adt + 1, ad1), ad1, ad2), adt + 1, ad2)
    ELSE Reversed(Reversed(Reversed(s, ad1, ad2), ad2, adt + 1), ad1, adt + 1)

\* m.  The global command's marks are taken off the lines; nothing has changed
\* when they are where they belong.
Move ==
    /\ \E i \in 1..Len(buf) : \E j \in i..Len(buf), adt \in 0..Len(buf) :
        /\ adt < i \/ adt > j
        /\ bits' = bits \ {buf[k] : k \in i..j}
        /\ buf' = Rotated(buf, adt, i, j + 1)
        /\ fchange' = (fchange \/ adt # i - 1)
    /\ Checkpoint /\ Stay
    /\ Done
    /\ UNCHANGED <<names, tline, anymarks, origin, meant>>

\* t: the copies are appended at the end and moved from there.
Copy ==
    /\ \E i \in 1..Len(buf) : \E j \in i..Len(buf), adt \in 0..Len(buf) :
        LET n == j - i + 1
            end == Len(buf)
        IN  /\ Put(n)
            /\ Checkpoint /\ Grow(end + n)
            /\ buf' = Rotated(buf \o New(n), adt, end + 1, end + n + 1)
    /\ Done
    /\ UNCHANGED <<bits, names, anymarks, origin, meant>>

\* Mutant: names[] is not looked at.
NamesAfterSame(S, put) == names

\* substitute(): the names go with the lines.
NamesAfter(S, put) ==
    [n \in Name |->
        IF anymarks /\ \E i \in S : buf[i] = names[n]
        THEN put[CHOOSE i \in S : buf[i] = names[n]]
        ELSE names[n]]

\* s, of the lines of S where it matches; those of Split become two.  When the
\* array is enlarged addr2 is moved twice as far as the array, and the loop goes
\* on behind the end of it.
Substitute ==
    /\ \E S \in SUBSET (1..Len(buf)) : \E Split \in SUBSET S :
        LET before(i) == Cardinality(S \cap 1..i - 1)
                         + Cardinality(Split \cap 1..i - 1)
            put == [i \in S |-> tline + 1 + before(i)]
            piece(i) == IF i \notin S THEN <<buf[i]>>
                        ELSE IF i \in Split THEN <<put[i], put[i] + 1>>
                        ELSE <<put[i]>>
        IN  /\ S # {}
            /\ Put(Cardinality(S) + Cardinality(Split))
            /\ Checkpoint /\ Grow(Len(buf) + Cardinality(Split))
            /\ buf' = FlattenSeq([i \in 1..Len(buf) |-> piece(i)])
            /\ names' = NamesAfter(S, put)
            /\ origin' = [l \in Line |->
                            IF \E i \in S : put[i] = l
                            THEN origin[buf[CHOOSE i \in S : put[i] = l]]
                            ELSE origin[l]]
    /\ Marked(buf')
    /\ \/ Done
       \/ Ready /\ grown' # grown /\ mode' = "crashed" /\ UNCHANGED left
   
    /\ UNCHANGED <<anymarks, meant>>

\* What comes to nothing after the checkpoint: a and i without lines, j of one
\* line, s in a list that matches nowhere; or to an error: s, and m to one of the lines to be moved.
ComeToNothing ==
    /\ Checkpoint /\ Stay
    /\ \/ Done /\ UNCHANGED bits
       \/ ~Typed /\ Abort /\ UNCHANGED bits
       \/ /\ Abort /\ bits # {}
          /\ \E i \in 1..Len(buf) : \E j \in i..Len(buf) :
                bits' = bits \ {buf[k] : k \in i..j}
    /\ UNCHANGED <<buf, names, tline, fchange, anymarks, origin, meant>>

NoCheckpoint == UNCHANGED <<und, table>>

\* k
MarkName ==
    /\ Done
    /\ \E i \in 1..Len(buf), n \in Name :
        /\ names' = [names EXCEPT ![n] = buf[i]]
        /\ meant' = [meant EXCEPT ![n] = origin[buf[i]]]
    /\ anymarks' = TRUE
    /\ NoCheckpoint
    /\ UNCHANGED <<text, tline, fchange, origin>>

\* The commands that go to a line and print, and errors.
GoTo ==
    /\ DoneOrCut
    /\ NoCheckpoint
    /\ UNCHANGED <<buf, bits, names, tline, fchange, anymarks, origin, meant>>

\* u: fchange stays as it is.
Undo ==
    /\ und.set
    /\ \/ /\ ~wild /\ Done
          /\ buf' = und.buf /\ bits' = und.bits
          /\ names' = und.names /\ meant' = und.meant
          /\ und' = [set |-> TRUE, buf |-> buf, bits |-> bits,
                     names |-> names, meant |-> meant]
       \/ /\ wild /\ Ready
          /\ mode' = "crashed"
          /\ UNCHANGED <<text, names, und, left, meant>>
    /\ UNCHANGED <<tline, fchange, anymarks, table, origin>>

-----------------------------------------------------------------------------
(* Global commands *)

\* gdelete(): from the first line with a mark on, the lines without one move down
\* over those with one; a1 is where the next one goes.
GDelete(s, m) ==
    LET first == Min({i \in DOMAIN s : s[i] \in m})
        turn[k \in 0..Len(s) - first] ==
            IF k = 0 THEN [s |-> s, a1 |-> first]
            ELSE LET t == turn[k - 1]
                     a2 == first + k
                 IN  IF t.s[a2] \in m THEN t
                     ELSE [s |-> [t.s EXCEPT ![t.a1] = t.s[a2]], a1 |-> t.a1 + 1]
        all == turn[Len(s) - first]
    IN  SubSeq(all.s, 1, all.a1 - 1)

\* g, v, G and V begin: lines are marked.
GlobalBegins ==
    /\ Typed
    /\ buf # <<>>
    /\ Checkpoint /\ Stay
    /\ \E S \in SUBSET ToSet(buf) : bits' = S
    /\ mode' = "global" /\ left' = 0
    /\ UNCHANGED <<buf, names, tline, fchange, anymarks, origin, meant>>

\* g/.../d
GlobalDelete ==
    /\ Typed
    /\ buf # <<>>
    /\ Checkpoint /\ Stay
    /\ \E S \in SUBSET ToSet(buf) :
        IF S = {}
        THEN UNCHANGED <<text, fchange>>
        ELSE /\ buf' = GDelete(buf, S)
             /\ bits' = {}
             /\ fchange' = TRUE
   
    /\ UNCHANGED <<names, tline, anymarks, origin, meant, mode, left>>

NextMarked == buf[Min({i \in DOMAIN buf : buf[i] \in bits})]

\* Mutant: the mark is left on the line until the list has been run.
GlobalLineKeeps ==
    /\ mode = "global" /\ bits # {}
    /\ mode' = "list" /\ left' = ListLen
    /\ UNCHANGED <<text, names, und, tline, fchange, anymarks, table, history>>

\* From the beginning of the array to the next line with a mark.
GlobalLine ==
    /\ mode = "global" /\ bits # {}
    /\ bits' = bits \ {NextMarked}
    /\ mode' = "list" /\ left' = ListLen
    /\ UNCHANGED <<buf, names, und, tline, fchange, anymarks, table, history>>

\* The list is at its end.
ListEnds ==
    /\ mode = "list"
    /\ mode' = "global" /\ left' = 0
    /\ UNCHANGED <<text, names, und, tline, fchange, anymarks, table, history>>

GlobalEnds ==
    /\ mode = "global" /\ bits = {}
    /\ mode' = "command"
    /\ UNCHANGED <<text, names, und, tline, fchange, anymarks, table, left, history>>

-----------------------------------------------------------------------------
(* Files *)

\* init(), at the start and with e
Init0 ==
    /\ bits' = {}
    /\ names' = [n \in Name |-> 0]
    /\ und' = NoUndo
    /\ anymarks' = FALSE /\ fchange' = FALSE
    /\ wild' = FALSE
    /\ origin' = [l \in Line |-> l]
    /\ meant' = [n \in Name |-> 0]

\* e of what has not been altered and E; without lines when the file is empty or
\* cannot be opened, for init() comes first.
Edit ==
    /\ Init0
    /\ \E n \in 0..MaxText :
        /\ n <= MaxLine
        /\ buf' = [k \in 1..n |-> k] /\ tline' = n
        /\ grown' = (grown \/ n >= Room)
        /\ Done \/ Abort

\* r: the lines are appended.
ReadLines ==
    /\ \E a \in 0..Len(buf), n \in 0..MaxText :
        /\ tline + n <= MaxLine /\ tline' = tline + n
        /\ Checkpoint /\ Grow(Len(buf) + n)
        /\ buf' = Splice(buf, a, New(n))
    /\ UNCHANGED <<bits, names, anymarks, origin, meant>>

\* Afterwards fchange is whether there was any line before.
Read == ReadLines /\ Done /\ fchange' = (buf # <<>>)

\* onintr(): "read may be incomplete - beware!"
ReadCut == ReadLines /\ Abort /\ fchange' = FALSE

\* w of all the lines; others, and what fails, change nothing here.
Write ==
    /\ Done
    /\ fchange' = FALSE
    /\ NoCheckpoint
    /\ UNCHANGED <<text, names, tline, anymarks, origin, meant>>

\* e, q and SIGTERM when there is something to save: "warning: expecting `w'";
\* also E and Q with an address or more behind it, which then stay.
Warning ==
    /\ fchange
    /\ Abort
    /\ fchange' = FALSE
    /\ NoCheckpoint
    /\ UNCHANGED <<text, names, tline, anymarks, origin, meant>>

\* ed ends and is started again.
Leave ==
    /\ Init0
    /\ buf' = <<>> /\ tline' = 0
    /\ grown' = FALSE
    /\ mode' = "command" /\ left' = 0

\* q, SIGTERM and the end of the input
Quit == Ready /\ ~fchange /\ Leave

\* Q, and SIGHUP, which saves the buffer in ed.hup when fchange is set.
Depart == mode # "crashed" /\ Leave

-----------------------------------------------------------------------------
(* What is seen of it from outside.  Nothing here reads und or fchange, and no *)
(* command above reads what is kept here. *)

\* The buffer when what the user typed began to be carried out
Began == IF Typed THEN buf ELSE start

\* "The contents of the buffer before the last command": whatever changed the
\* buffer counts, and so does what is typed to edit it and finds nothing to do.
Follow(edits, over) ==
    /\ nested' = over
    /\ start' = IF over \/ mode' = "command" THEN <<>> ELSE Began
    /\ past' = IF over THEN <<>>
               ELSE IF edits \/ buf' # buf THEN Began ELSE past

Edited == Follow(Typed, nested /\ ~Typed)
NotEdited == Follow(FALSE, nested)
Undone == Follow(FALSE, nested \/ ~Typed)
Anew == nested' = FALSE /\ start' = <<>> /\ past' = <<>>

\* "Buffer alteration": what is done to the lines, as they look afterwards.  r into
\* an empty buffer is like e, unless there were lines and they were deleted.
Altered == unsaved' = IF buf' # buf THEN "altered" ELSE unsaved
Reverted == unsaved' = IF buf' # buf /\ unsaved = "no" THEN "untold" ELSE unsaved
Filled == IF buf # <<>> THEN Altered
          ELSE unsaved' = IF unsaved = "no" THEN "no" ELSE "untold"
PartlyFilled ==
    unsaved' = IF buf' = buf /\ unsaved = "no" THEN "no" ELSE "told"
Safe == unsaved' = "no"

Altering ==
    \/ AppendText \/ Delete \/ Change \/ Join \/ Move \/ Copy
    \/ Substitute \/ ComeToNothing \/ GlobalBegins \/ GlobalDelete
Looking == MarkName \/ GoTo \/ GlobalLine \/ ListEnds \/ GlobalEnds
Saving == Write \/ Warning
Beginning == Edit \/ Quit \/ Depart

EdNext ==
    \/ Altering /\ Edited /\ Altered
    \/ Looking /\ NotEdited /\ Altered
    \/ Undo /\ Undone /\ Reverted
    \/ Read /\ Edited /\ Filled
    \/ ReadCut /\ Edited /\ PartlyFilled
    \/ Saving /\ NotEdited /\ Safe
    \/ Beginning /\ Anew /\ Safe

EdSpec == EdInit /\ [][EdNext]_vars

-----------------------------------------------------------------------------
(* Properties *)

\* "The address form 'x then addresses this line": through s, which makes another
\* line of it, through m and through undo, a name stands for the line it was given
\* to as long as there is one, and never for another.
NamesFollowLines ==
    \A n \in Name, l \in ToSet(buf) :
        names[n] = l <=> meant[n] # 0 /\ meant[n] = origin[l]

\* "The undo command restores the contents of the buffer before the last command
\* was executed", a global command with all it did being one, and "if the undo
\* command is given twice, the current state is restored".  After a u in the list of
\* a global command nothing is said.
UndoRestores ==
    [][Undo /\ Typed /\ mode' # "crashed" /\ ~nested => buf' = past]_vars

\* What deleting the lines of m one by one leaves of s.
Without(s, m) ==
    LET rest[k \in 0..Len(s)] ==
            IF k = 0 THEN <<>>
            ELSE IF s[k] \in m THEN rest[k - 1] ELSE Append(rest[k - 1], s[k])
    IN  rest[Len(s)]

\* What is done in place is what was asked for: the three reversals of m and t
\* leave the other lines in order, and the lines they move or make in a row after
\* the address; the special case of g/.../d leaves what deleting line by line would.
InPlaceSame ==
    /\ \A i \in 1..Len(buf) : \A j \in i..Len(buf), adt \in 0..Len(buf) :
           adt \notin i..j =>
               LET at == IF adt < i THEN adt ELSE adt - (j - i + 1)
               IN  Rotated(buf, adt, i, j + 1) =
                       Splice(Cut(buf, i, j), at, SubSeq(buf, i, j))
    /\ \A S \in (SUBSET ToSet(buf)) \ {{}} :
           GDelete(buf, S) = Without(buf, S)

\* A global command comes to its end: each turn takes a mark away and nothing in
\* the list, undo included, adds one.
GlobalShrinks ==
    [][LET marks == Cardinality(bits) + Cardinality(und.bits)
           marks2 == Cardinality(bits') + Cardinality(und'.bits)
       IN  /\ GlobalLine => marks2 < marks
           /\ mode = "list" => marks2 <= marks]_vars

\* fchange, which q looks at, tells of every alteration since the last w, e or
\* warning, however the commands that set it and those that clear it alternate; but
\* for what was altered by u, lost sight of by r into an emptied buffer, or cut short
\* in r, until the next alteration.
AlterationsNoted ==
    unsaved = "altered" /\ mode # "crashed" => fchange

\* "This command is the same as q, except that no diagnostic results when no w
\* has been given since the last buffer alteration."
WarnsOfAlterations ==
    unsaved \in {"altered", "untold"} /\ mode # "crashed" => fchange

=============================================================================
