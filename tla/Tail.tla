-------------------------------- MODULE Tail --------------------------------
(***************************************************************************)
(* tail (tail/tail.c) of a file or a pipe to which somebody else still     *)
(* writes.  What a character says is left out, but for the newline: the    *)
(* input is a sequence of characters, and the buffer and the output are    *)
(* sequences of positions in it.  Position 0 is memory nobody has set.     *)
(***************************************************************************)
EXTENDS Integers, Sequences, FiniteSets, FiniteSetsExt

CONSTANTS
    TailMax,    \* characters the input may have in the end
    Counts,     \* the numbers given on the command line
    BufSize,    \* LINE_MAX * 10 + 1, where the buffer begins
    Chunk,      \* 8192, by which it grows
    LineSize,   \* 65536, the memory for a line
    BlkSize     \* st_blksize, for copies

ASSUME TailAssumption ==
    {TailMax, BufSize, Chunk, LineSize, BlkSize} \subseteq Nat \ {0} /\ Counts \subseteq Nat

VARIABLES
    isnl,       \* the input: whether each character is a newline
    written,    \* what has been written of it
    closed,     \* whether the writer has gone
    tailopt,    \* from the beginning or the end, the unit, -f, -r, a file
                \* or a pipe, and the number
    st_size,    \* what fstat() has said
    off,        \* the offset of the input
    tailat,
    need,       \* begintail(): lines or characters still to be passed over
    buf, fill,  \* endtail(): the buffer, and the index where it is filled, i
    partial,    \* it has not been filled to the end yet
    out         \* what has been printed

tailFixed == <<isnl, tailopt, st_size>>
writer == <<written, closed>>
buffer == <<buf, fill, partial>>
tailVars == <<tailFixed, writer, off, tailat, need, buffer, out>>

TailTypeOK ==
    /\ isnl \in Seq(BOOLEAN) /\ Len(isnl) = TailMax
    /\ written \in 0..TailMax /\ off \in Nat
    /\ st_size \in 0..written
    /\ tailat \in {"start", "skip", "fill", "print", "copy", "follow", "end"}
    /\ buf \in Seq(0..TailMax) /\ fill \in 0..Len(buf)
    /\ partial \in BOOLEAN
    /\ out \in Seq(0..TailMax)

Regular == tailopt.file
FromEnd == tailopt.from = "end"
Lines == tailopt.unit = "l"
N == tailopt.n
\* positions, in order
From(i, j) == [k \in 1..(IF j < i THEN 0 ELSE j - i + 1) |-> i + k - 1]

TailOptions == {o \in [from : {"end", "begin"}, unit : {"l", "c"}, f : BOOLEAN,
                           r : BOOLEAN, file : BOOLEAN, n : Counts, new : BOOLEAN] :
                        /\ o.r \/ o.new => o.new # o.r /\ (o.new => o.n = 0)
                        /\ o.r => o.from = "end" /\ o.unit = "l" /\ ~o.f
                        /\ o.f => o.file}

TailBegin(inputs, options, there) ==
    /\ isnl \in inputs /\ tailopt \in options
    /\ written \in there
    /\ closed = FALSE
    /\ st_size = IF tailopt.file THEN written ELSE 0
    /\ off = 0
    /\ tailat = "start"
    /\ need = 0
    /\ buf = <<>> /\ fill = 0 /\ partial = TRUE
    /\ out = <<>>

TailInit == TailBegin([1..TailMax -> BOOLEAN], TailOptions, 0..TailMax)

\* What a read() of at most m characters may take; none is the end of the input.
Readable(m) ==
    LET most == Min({m, IF written > off THEN written - off ELSE 0})
    IN  IF most > 0 THEN IF Regular THEN {most} ELSE 1..most
        ELSE IF Regular \/ closed THEN {0} ELSE {}

AfterTail == IF tailopt.f THEN "follow" ELSE "end"

-----------------------------------------------------------------------------
(* The beginning of endtail() and begintail() *)

\* Nothing is to be printed; with -f of the old form what is there is not passed
\* over, either.
Nothing == FromEnd /\ N = 0 /\ ~(tailopt.f /\ tailopt.new)

StartNothing ==
    /\ tailat = "start" /\ Nothing
    /\ tailat' = AfterTail
    /\ UNCHANGED <<tailFixed, writer, off, need, buffer, out>>

StartEnd ==
    /\ tailat = "start" /\ FromEnd /\ ~Nothing
    /\ IF ~Lines /\ Regular
       THEN /\ off' = IF st_size > N /\ written >= N THEN written - N ELSE off
            /\ tailat' = "copy"
            /\ UNCHANGED buffer
       ELSE IF ~tailopt.f /\ Regular /\ st_size > 0
       THEN \* mmap(): what there was at fstat()
            /\ buf' = From(1, st_size) \o <<0>>
            /\ fill' = st_size
            /\ tailat' = "print"
            /\ off' = st_size
            /\ UNCHANGED partial
       ELSE /\ buf' = [k \in 1..BufSize |-> 0]
            /\ tailat' = "fill"
            /\ off' = IF Regular /\ written >= N * LineSize + 1
                      THEN written - N * LineSize - 1 ELSE off
            /\ UNCHANGED <<fill, partial>>
    /\ UNCHANGED <<tailFixed, writer, need, out>>

StartBegin ==
    /\ tailat = "start" /\ ~FromEnd
    /\ LET n == IF N > 0 THEN N - 1 ELSE 0
       IN  IF n = 0 \/ (~Lines /\ Regular)
           THEN off' = n /\ tailat' = "copy" /\ UNCHANGED need
           ELSE need' = n /\ tailat' = "skip" /\ UNCHANGED off
    /\ UNCHANGED <<tailFixed, writer, buffer, out>>

-----------------------------------------------------------------------------
(* begintail() *)

\* A block is read and the lines in it are counted; what is left of the last
\* block is printed.
Skip ==
    /\ tailat = "skip"
    /\ \E m \in Readable(IF Lines THEN BlkSize ELSE Min({BlkSize, need})) :
        LET block == {off + k : k \in 1..m}
            ends == IF Lines THEN {p \in block : isnl[p]} ELSE block
            enough == Cardinality(ends) >= need
            last == CHOOSE p \in ends :
                        Cardinality({q \in ends : q <= p}) = need
        IN  /\ off' = off + m
            /\ need' = IF enough THEN 0 ELSE need - Cardinality(ends)
            /\ tailat' = IF m = 0 THEN AfterTail ELSE IF enough THEN "copy" ELSE "skip"
            /\ out' = IF m > 0 /\ enough THEN out \o From(last + 1, off + m) ELSE out
    /\ UNCHANGED <<tailFixed, writer, buffer>>

Copy ==
    /\ tailat = "copy"
    /\ \E m \in Readable(BlkSize) :
        /\ out' = out \o From(off + 1, off + m)
        /\ off' = off + m
        /\ tailat' = IF m = 0 THEN AfterTail ELSE "copy"
    /\ UNCHANGED <<tailFixed, writer, need, buffer>>

\* tailf(), once a second
Follow ==
    /\ tailat = "follow"
    /\ written > off
    /\ \E m \in Readable(BlkSize) :
        /\ out' = out \o From(off + 1, off + m)
        /\ off' = off + m
    /\ UNCHANGED <<tailFixed, writer, tailat, need, buffer>>

-----------------------------------------------------------------------------
(* endtail(): the buffer is filled, and then written over from its beginning *)

spcsize == Len(buf)
alcmax == IF Lines THEN LineSize * N + 1 ELSE N + 1
Zeroes(n) == [k \in 1..n |-> 0]

\* Mutant: a buffer that is full is written over without the old part being
\* remembered.
FillForgets ==
    /\ tailat = "fill"
    /\ \E m \in Readable(spcsize - fill) :
        LET now == [k \in 1..spcsize |->
                        IF k \in fill + 1..fill + m THEN off + k - fill ELSE buf[k]]
            full == fill + m = spcsize
        IN  /\ off' = off + m
            /\ buf' = IF full /\ spcsize < alcmax THEN now \o Zeroes(Chunk) ELSE now
            /\ fill' = IF full /\ spcsize >= alcmax THEN 0 ELSE fill + m
            /\ tailat' = IF m = 0 THEN "print" ELSE "fill"
    /\ UNCHANGED <<tailFixed, writer, need, partial, out>>

\* One read(), realloc() when it has filled the buffer below its limit, and from
\* the beginning again when it may not grow.
Fill ==
    /\ tailat = "fill"
    /\ \E m \in Readable(spcsize - fill) :
        LET now == [k \in 1..spcsize |->
                        IF k \in fill + 1..fill + m THEN off + k - fill ELSE buf[k]]
            full == fill + m = spcsize
        IN  /\ off' = off + m
            /\ buf' = IF full /\ spcsize < alcmax THEN now \o Zeroes(Chunk) ELSE now
            /\ fill' = IF full /\ spcsize >= alcmax THEN 0 ELSE fill + m
            /\ partial' = (partial /\ ~(full /\ spcsize >= alcmax))
            /\ tailat' = IF m = 0 THEN "print" ELSE "fill"
    /\ UNCHANGED <<tailFixed, writer, need, out>>

\* spc[k], and the part of the buffer from k to l - 1
spc(k) == buf[k + 1]
Part(k, l) == SubSeq(buf, k + 1, l)
Newline(k) == spc(k) # 0 /\ isnl[spc(k)]

\* From k back to a newline, to i, or to -1 in front of a partial buffer
Before(k) ==
    LET back(t) == IF k - t >= 0 THEN k - t ELSE IF partial THEN -1 ELSE k - t + spcsize
        stop == {t \in 1..spcsize :
                    back(t) = -1 \/ back(t) = fill \/ Newline(back(t))}
    IN  back(Min(stop))

\* The value of k after each turn of the loop
Lineends ==
    LET k[j \in 0..N + 1] ==
            IF j = 0 THEN fill
            ELSE IF k[j - 1] = -1 \/ (j > 1 /\ k[j - 1] = fill) THEN k[j - 1]
            ELSE Before(k[j - 1])
    IN  k

\* Forward to the next newline, the oldest line being cut off
Onward ==
    LET on(t) == (fill + t) % spcsize
        stop == {t \in 1..spcsize : on(t) = fill \/ Newline(on(t))}
    IN  on(Min(stop))

Rest(k) == IF k < fill THEN Part(k + 1, fill) ELSE Part(k + 1, spcsize) \o Part(0, fill)

StartOfChars ==
    (IF N <= fill THEN fill - N
     ELSE IF partial THEN 0
     ELSE IF N >= spcsize THEN fill + 1 ELSE fill - N + spcsize) - 1

StartOfLines ==
    LET k == Lineends[N + 1] IN IF k = fill THEN Onward ELSE k

\* -r: each turn of the loop prints the line it has passed.
Reversed(incomplete) ==
    LET k == Lineends
        less(j) == IF incomplete /\ j = 1 THEN 1 ELSE 0
        line(j) ==
            IF k[j] = k[j - 1] /\ (j > 1 \/ k[j] = -1) THEN <<>>
            ELSE IF j = 1 /\ ~incomplete /\ k[1] # -1 THEN <<>>
            ELSE IF k[j] < k[j - 1] THEN Part(k[j] + 1, k[j - 1] + 1 - less(j))
            ELSE Part(k[j] + 1, spcsize) \o Part(0, k[j - 1] + 1 - less(j))
        printed[j \in 0..N + 1] == IF j = 0 THEN <<>> ELSE printed[j - 1] \o line(j)
    IN  printed[N + 1]

\* spc[i - 1], which is unset memory when nothing has been read
Incomplete ==
    LET p == spc(IF fill = 0 THEN spcsize - 1 ELSE fill - 1)
    IN  IF p = 0 THEN BOOLEAN ELSE {~isnl[p]}

ShowTail ==
    /\ tailat = "print"
    /\ IF ~Lines THEN out' = Rest(StartOfChars)
       ELSE IF tailopt.r THEN \E b \in Incomplete : out' = Reversed(b)
       ELSE out' = Rest(StartOfLines)
    /\ tailat' = AfterTail
    /\ UNCHANGED <<tailFixed, writer, off, need, buffer>>

-----------------------------------------------------------------------------
Append1 ==
    /\ ~closed /\ written < TailMax
    /\ written' = written + 1
    /\ UNCHANGED <<tailFixed, closed, off, tailat, need, buffer, out>>

Close ==
    /\ ~closed
    /\ closed' = TRUE
    /\ UNCHANGED <<tailFixed, written, off, tailat, need, buffer, out>>

TailStep == StartNothing \/ StartEnd \/ StartBegin \/ Skip \/ Copy \/ Follow \/ Fill \/ ShowTail

TailNext == TailStep \/ Append1 \/ Close

TailSpec == TailInit /\ [][TailNext]_tailVars

-----------------------------------------------------------------------------
(* Properties *)

Newlines(len) == {p \in 1..len : isnl[p]}

\* Where the tail of the first len characters begins: behind the newline before
\* the last n lines; what follows the last newline does not count as a line.
Beginning(len) ==
    IF ~FromEnd
    THEN IF Lines
         THEN IF N <= 1 THEN 1
              ELSE IF Cardinality(Newlines(len)) < N - 1 THEN len + 1
              ELSE 1 + CHOOSE p \in Newlines(len) :
                        Cardinality({q \in Newlines(len) : q <= p}) = N - 1
         ELSE Max({N, 1})
    ELSE IF Lines
         THEN IF Cardinality(Newlines(len)) <= N THEN 1
              ELSE 1 + CHOOSE p \in Newlines(len) :
                        Cardinality({q \in Newlines(len) : q > p}) = N
         ELSE Max({len - N + 1, 1})

\* The lines of a tail, last first: what is left of it loses its last line, N times
\* or once more if that has no end.
Backward(len) ==
    LET a == Beginning(len)
        start(e) == Max({a} \cup {q + 1 : q \in Newlines(e - 1)})
        lines[j \in 0..N + 1] ==
            IF j = 0 THEN [left |-> len, text |-> <<>>]
            ELSE LET x == lines[j - 1]
                 IN  IF x.left < a THEN x
                     ELSE [left |-> start(x.left) - 1, text |-> x.text \o From(start(x.left), x.left)]
    IN  lines[N + 1].text

\* The memory is enough for the tail.
Fits(len) == len - Beginning(len) + 1 < LineSize * N

\* What the length of the input may have been when its tail was looked for: of a pipe,
\* and of the lines of a file, what has been read up to its end; of the characters of a
\* file, and with -f, what there was at some time since fstat().
EndsRead == IF tailopt.f \/ (Regular /\ ~Lines) THEN st_size..off ELSE {off}

\* What tail has printed when it has come to the end is the tail of the input as it was
\* then, and what followed, once and in order, however the input was read in pieces and
\* grew meanwhile.  Tails longer than the memory for them are not shown in full, and -r
\* of nothing prints what it finds in memory.
ShowsTheTail ==
    tailat \in {"follow", "end"} =>
        IF Nothing THEN out = IF tailopt.f THEN From(1, off) ELSE <<>>
        ELSE \E len \in EndsRead :
                \/ ~tailopt.r /\ out = From(Beginning(len), off)
                \/ tailopt.r /\ (len > 0 => out = Backward(len))
                \/ FromEnd /\ Lines /\ ~Fits(len)

=============================================================================
