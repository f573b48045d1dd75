---------------------------------- MODULE Dd ----------------------------------
(***************************************************************************)
(* dd (dd/dd.c): blocks that are read short, cut into records by block and *)
(* unblock, put together again to output blocks and written short.  A      *)
(* character is NL, SP, or a number that says which one it is; what the    *)
(* tables and swab make of it is left out.  skip=, seek= and files= are,   *)
(* too.                                                                    *)
(***************************************************************************)
EXTENDS Integers, Sequences, FiniteSets, SequencesExt, FiniteSetsExt, Functions

CONSTANTS
    DdInputs,   \* what may be read, sequences of characters
    DdOptions,  \* the operands, as records: bs (0: not given), ibs, obs, cbs,
                \* conv ("none", "block" or "unblock"), sync, noerror, and count
    DdFails     \* the calls that may fail, by name

NL == 10
SP == 32

ASSUME DdAssumption ==
    /\ DdInputs \subseteq Seq(Nat)
    /\ \A o \in DdOptions :
        /\ {o.ibs, o.obs} \subseteq Nat \ {0} /\ {o.bs, o.cbs} \subseteq Nat
        /\ o.conv \in {"none", "block", "unblock"} /\ (o.conv # "none" => o.cbs > 0)

VARIABLES
    ddin, ddopt,
    ddoff,          \* what has been read of the input
    count,          \* input blocks still to be read, or -1
    cblok,          \* the record being put together: cflow is its length
    ctrunc,         \* the rest of a line is passed over: 0, 1 or 2
    truncated,
    todo,           \* the calls of bwrite() or dwrite() to be made: the data, and
                    \* the size of the record if it is flushed once more
    oblok,          \* the output block: oflow is its length
    owhole, opartial,
    broken,         \* offd = -1: a write has failed
    dat, dstatus,   \* where the program is, and its exit status
    records,        \* history: the input blocks, padded
    dout,           \* the output
    wrote           \* history: the size of each write()

ddFixed == <<ddin, ddopt>>
converting == <<cblok, ctrunc, truncated>>
writing == <<oblok, owhole, opartial, dout, wrote>>
ddVars == <<ddFixed, ddoff, count, converting, todo, writing, broken, dat, dstatus, records>>

ibs == IF ddopt.bs > 0 THEN ddopt.bs ELSE ddopt.ibs
obs == IF ddopt.bs > 0 THEN ddopt.bs ELSE ddopt.obs
cbs == ddopt.cbs
\* bs= without a conversion: what is read is written, block for block
Direct == ddopt.bs > 0 /\ ddopt.conv = "none"
Spaces(n) == [k \in 1..n |-> SP]
Pad == IF ddopt.conv = "none" THEN 0 ELSE SP

DdBegin(inputs, options) ==
    /\ ddin \in inputs /\ ddopt \in options
    /\ ddoff = 0 /\ count = ddopt.count
    /\ cblok = <<>> /\ ctrunc = 0 /\ truncated = 0
    /\ todo = <<>> /\ oblok = <<>>
    /\ owhole = 0 /\ opartial = 0 /\ broken = FALSE
    /\ dat = "dd" /\ dstatus = 0
    /\ records = <<>> /\ dout = <<>> /\ wrote = <<>>

DdInit == DdBegin(DdInputs, DdOptions)

-----------------------------------------------------------------------------
(* cwrite() and uwrite(), as what they make of one more character          *)

Padded(s) == s \o Spaces(cbs - Len(s))

\* uflush()
WithoutBlanks(s) ==
    LET text == {k \in DOMAIN s : s[k] # SP}
    IN  Append(SubSeq(s, 1, IF text = {} THEN 0 ELSE Max(text)), NL)

\* cflush() and uflush(): the record, and what it is when it is flushed again,
\* a newline behind the text being in it
FlushedOnce(s) == IF ddopt.conv = "block" THEN Padded(s) ELSE WithoutBlanks(s)
Portion(s) ==
    [s |-> FlushedOnce(s),
     again |-> IF ddopt.conv = "unblock" /\ Last(s) = SP THEN Len(WithoutBlanks(s)) + 1
               ELSE Len(FlushedOnce(s))]

\* Mutant: ctrunc stays when a line of just cbs characters has ended.
BlockLate(st, c) ==
    IF st.trunc = 0
    THEN IF c = NL THEN [st EXCEPT !.blok = <<>>, !.out = Append(@, Portion(st.blok))]
         ELSE IF Len(st.blok) + 1 = cbs
         THEN [st EXCEPT !.blok = <<>>, !.out = Append(@, Portion(Append(st.blok, c))), !.trunc = 1]
         ELSE [st EXCEPT !.blok = Append(@, c)]
    ELSE IF c = NL /\ st.trunc = 2 THEN [st EXCEPT !.trunc = 0]
    ELSE IF st.trunc = 1 THEN [st EXCEPT !.trunc = 2, !.lost = @ + 1]
    ELSE st

Block(st, c) ==
    IF st.trunc = 0
    THEN IF c = NL THEN [st EXCEPT !.blok = <<>>, !.out = Append(@, Portion(st.blok))]
         ELSE IF Len(st.blok) + 1 = cbs
         THEN [st EXCEPT !.blok = <<>>, !.out = Append(@, Portion(Append(st.blok, c))), !.trunc = 1]
         ELSE [st EXCEPT !.blok = Append(@, c)]
    ELSE IF c = NL THEN [st EXCEPT !.trunc = 0]
    ELSE IF st.trunc = 1 THEN [st EXCEPT !.trunc = 2, !.lost = @ + 1]
    ELSE st

Unblock(st, c) ==
    IF Len(st.blok) = cbs
    THEN [st EXCEPT !.blok = <<c>>, !.out = Append(@, Portion(st.blok))]
    ELSE [st EXCEPT !.blok = Append(@, c)]

\* blokconv()
Convert(data) ==
    LET first == [blok |-> cblok, trunc |-> ctrunc, lost |-> truncated, out |-> <<>>]
        st[k \in 0..Len(data)] ==
            IF k = 0 THEN first
            ELSE IF ddopt.conv = "block" THEN Block(st[k - 1], data[k])
            ELSE Unblock(st[k - 1], data[k])
    IN  IF ddopt.conv = "none" THEN [first EXCEPT !.out = <<[s |-> data, again |-> 0]>>]
        ELSE st[Len(data)]

-----------------------------------------------------------------------------
(* dd() *)

\* A block that has been read, with rd characters, goes through the conversion.
Take(rd, size) ==
    LET data == SubSeq(ddin, ddoff + 1, ddoff + rd)
        block == IF ddopt.sync THEN data \o [k \in 1..ibs - rd |-> Pad] ELSE data
        st == Convert(block)
    IN  /\ ddoff' = ddoff + size
        /\ count' = IF count > 0 THEN count - 1 ELSE count
        /\ records' = Append(records, block)
        /\ cblok' = st.blok /\ ctrunc' = st.trunc /\ truncated' = st.lost
        /\ todo' = st.out
        /\ UNCHANGED <<ddFixed, writing, broken, dat, dstatus>>

Left == Len(ddin) - ddoff
Reading == dat = "dd" /\ todo = <<>> /\ count # 0

ReadBlock ==
    /\ Reading /\ Left > 0
    /\ \E rd \in 1..Min({ibs, Left}) : Take(rd, rd)

QuitDd(status) == dat' = "quit" /\ dstatus' = status

ReadEnd ==
    /\ dat = "dd" /\ todo = <<>>
    /\ count = 0 \/ Left = 0
    /\ QuitDd(0)
    /\ UNCHANGED <<ddFixed, ddoff, count, converting, todo, writing, broken, records>>

\* With noerror, the block is passed over by lseek(), and with sync written as
\* one of padding.
ReadFails ==
    /\ Reading /\ Left > 0 /\ "read" \in DdFails
    /\ \/ /\ ~ddopt.noerror
          /\ QuitDd(1)
          /\ UNCHANGED <<ddFixed, ddoff, count, converting, todo, writing, broken, records>>
       \/ /\ ddopt.noerror /\ ~ddopt.sync
          /\ ddoff' = Min({ddoff + ibs, Len(ddin)})
          /\ UNCHANGED <<ddFixed, count, converting, todo, writing, broken, dat, dstatus, records>>
       \/ /\ ddopt.noerror /\ ddopt.sync
          /\ Take(0, Min({ibs, Left}))

-----------------------------------------------------------------------------
(* bwrite() and dwrite() *)

data == Head(todo).s
Writing == todo # <<>> /\ ~broken /\ dat \in {"dd", "quit"}
\* the sizes that a write() of n characters may have
Short(n) == IF "short" \in DdFails THEN 1..n ELSE {n}

Wrote(s, n, size) ==
    /\ dout' = dout \o SubSeq(s, 1, n)
    /\ wrote' = Append(wrote, [size |-> size, n |-> n])
    /\ IF n = obs THEN owhole' = owhole + 1 /\ UNCHANGED opartial
                  ELSE opartial' = opartial + 1 /\ UNCHANGED owhole

Todo(rest) == todo' = IF rest = <<>> THEN Tail(todo) ELSE <<[Head(todo) EXCEPT !.s = rest]>> \o Tail(todo)

DWrite ==
    /\ Writing /\ Direct
    /\ \E n \in Short(Len(data)) :
        /\ Wrote(data, n, Len(data))
        /\ Todo(SubSeq(data, n + 1, Len(data)))
    /\ UNCHANGED <<ddFixed, ddoff, count, converting, oblok, broken, dat, dstatus, records>>

\* Mutant: what a short write leaves is taken from the beginning of the block.
BWriteAgain ==
    /\ Writing /\ ~Direct
    /\ Len(oblok) + Len(data) > obs
    /\ LET di == obs - Len(oblok)
           all == oblok \o SubSeq(data, 1, di)
       IN  \E n \in Short(obs) :
            /\ Wrote(all, n, obs)
            /\ oblok' = SubSeq(all, 1, obs - n)
            /\ Todo(SubSeq(data, di + 1, Len(data)))
    /\ UNCHANGED <<ddFixed, ddoff, count, converting, broken, dat, dstatus, records>>

\* The block is full and there is more: what is not written stays in it.
BWriteFull ==
    /\ Writing /\ ~Direct
    /\ Len(oblok) + Len(data) > obs
    /\ LET di == obs - Len(oblok)
           all == oblok \o SubSeq(data, 1, di)
       IN  \E n \in Short(obs) :
            /\ Wrote(all, n, obs)
            /\ oblok' = SubSeq(all, n + 1, obs)
            /\ Todo(SubSeq(data, di + 1, Len(data)))
    /\ UNCHANGED <<ddFixed, ddoff, count, converting, broken, dat, dstatus, records>>

\* A block that just fits is written only if nothing is in the buffer.
BWriteKeep ==
    /\ Writing /\ ~Direct
    /\ Len(oblok) + Len(data) <= obs
    /\ \/ /\ Len(data) = obs
          /\ \E n \in Short(obs) :
                Wrote(data, n, obs) /\ oblok' = SubSeq(data, n + 1, obs)
       \/ /\ Len(data) # obs
          /\ oblok' = oblok \o data
          /\ UNCHANGED <<owhole, opartial, dout, wrote>>
    /\ todo' = Tail(todo)
    /\ UNCHANGED <<ddFixed, ddoff, count, converting, broken, dat, dstatus, records>>

-----------------------------------------------------------------------------
(* quit() *)

\* cflush() or uflush()
QuitRecord ==
    /\ dat = "quit" /\ todo = <<>> /\ cblok # <<>>
    /\ todo' = <<Portion(cblok)>>
    /\ cblok' = <<>>
    /\ UNCHANGED <<ddFixed, ddoff, count, ctrunc, truncated, writing, broken, dat, dstatus,
                   records>>

\* bflush(), which counts what it writes as partial
BFlush ==
    /\ dat = "quit" /\ todo = <<>> /\ cblok = <<>> /\ ~broken
    /\ IF oblok = <<>>
       THEN dat' = "exit" /\ UNCHANGED <<oblok, opartial, dout, wrote>>
       ELSE /\ \E n \in Short(Len(oblok)) :
                /\ dout' = dout \o SubSeq(oblok, 1, n)
                /\ wrote' = Append(wrote, [size |-> Len(oblok), n |-> n])
                /\ oblok' = SubSeq(oblok, n + 1, Len(oblok))
                /\ opartial' = opartial + 1
             /\ UNCHANGED dat
    /\ UNCHANGED <<ddFixed, ddoff, count, converting, todo, owhole, broken, dstatus, records>>

\* A call of bwrite() that comes to write()
MustWrite(s) == Len(oblok) + Len(s) > obs \/ Len(s) = obs

\* swrite() fails: quit(1), which flushes the record that was being written once
\* more; when that fills a block there is write() again, and quit() for ever.
WriteFails ==
    /\ "write" \in DdFails /\ ~broken
    /\ \/ Writing /\ (Direct \/ MustWrite(data))
       \/ dat = "quit" /\ todo = <<>> /\ cblok = <<>> /\ oblok # <<>>
    /\ broken' = TRUE
    /\ oblok' = <<>> /\ todo' = <<>>
    /\ dat' = IF todo # <<>> /\ Head(todo).again >= obs THEN "recursion" ELSE "exit"
    /\ cblok' = <<>>
    /\ dstatus' = 1
    /\ UNCHANGED <<ddFixed, ddoff, count, ctrunc, truncated, owhole, opartial, dout, wrote,
                   records>>

DdNext ==
    \/ ReadBlock \/ ReadEnd \/ ReadFails \/ DWrite \/ BWriteFull \/ BWriteKeep
    \/ QuitRecord \/ BFlush \/ WriteFails

DdSpec == DdInit /\ [][DdNext]_ddVars

-----------------------------------------------------------------------------
(* Properties *)

DdTypeOK ==
    /\ ddoff \in 0..Len(ddin) /\ count \in -1..ddopt.count
    /\ Len(cblok) \in 0..cbs /\ ctrunc \in 0..2
    /\ Len(oblok) \in 0..obs
    /\ dat \in {"dd", "quit", "exit", "recursion"} /\ dstatus \in {0, 1}

\* The lines of a sequence of characters, the last perhaps without its end: where
\* they end, and the line that ends there
LineEnds(s) ==
    {k \in 1..Len(s) : s[k] = NL} \cup (IF s # <<>> /\ Last(s) # NL THEN {Len(s) + 1} ELSE {})
Line(s, k) == SubSeq(s, 1 + Max({0} \cup {j \in 1..k - 1 : s[j] = NL}), k - 1)
Cropped(line) == SubSeq(line, 1, Min({cbs, Len(line)}))

\* The piece of at most cbs characters that ends with the k-th one
Piece(s, k) == SubSeq(s, k - ((k - 1) % cbs), k)

Reference(s) ==
    CASE ddopt.conv = "none"    -> s
      [] ddopt.conv = "block"   ->
            FlattenSeq([k \in 1..Len(s) + 1 |->
                            IF k \in LineEnds(s) THEN Padded(Cropped(Line(s, k))) ELSE <<>>])
      [] ddopt.conv = "unblock" ->
            FlattenSeq([k \in 1..Len(s) |->
                            IF k % cbs = 0 \/ k = Len(s) THEN WithoutBlanks(Piece(s, k)) ELSE <<>>])

AllRead == FlattenSeq(records)

Ended == dat = "exit" /\ ~broken

\* What is written is the conversion of what was read, however reads and writes
\* divide it and even if it ends with a read error; after a write error it is a
\* part of it.  Lines that are too long are counted.
OutputIsInput ==
    /\ Ended => /\ dout = Reference(AllRead)
                /\ ddopt.conv = "block" =>
                    truncated = Cardinality({k \in LineEnds(AllRead) : Len(Line(AllRead, k)) > cbs})
    /\ IsPrefix(dout, Reference(AllRead))

\* Without bs= each write() is for a whole block, but those of bflush().
WholeBlocks ==
    ~Direct => \A k \in DOMAIN wrote :
        \/ wrote[k].size = obs
        \/ dat \in {"quit", "exit"} /\ \A j \in k + 1..Len(wrote) : wrote[j].size < wrote[k].size

DdCopies == OutputIsInput /\ WholeBlocks

\* "numbers of full and partial records read(written)"
RecordsCounted ==
    Ended => owhole = Cardinality({k \in DOMAIN wrote : wrote[k].n = obs})
=============================================================================
