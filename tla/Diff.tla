--------------------------------- MODULE Diff ---------------------------------
(***************************************************************************)
(* diff of two files (diff/diffreg.c): lines are told apart by their hash  *)
(* first, a longest sequence of matches is looked for (stone), the matches *)
(* are compared with the files (check), and what is left is written as a   *)
(* script, as hunks with context or merged.  A line is a value; HashOf and *)
(* Folded say what readhash() makes of it and what -b, -w and -i leave of  *)
(* it.  The last line of a file may lack its newline.                      *)
(***************************************************************************)
EXTENDS Integers, Sequences, FiniteSets, SequencesExt, FiniteSetsExt, Functions, TLC

CONSTANTS
    DiffInputs,     \* what may be compared, records: file, a pair of sequences of
                    \* lines, and cut, those of 1, 2 that end without a newline
    DiffOptions,    \* records: out, context, fold, B, p, a
    HashOf, Folded,
    Blank,          \* the empty line
    Named,          \* the lines that begin with a letter, $ or _, for -p
    MaxContext,     \* changes in a record, 129 in the code
    CLen            \* candidates that files compared before have left in clist

ASSUME DiffAssumption ==
    /\ MaxContext \in Nat \ {0} /\ CLen \subseteq Nat
    /\ \A t \in DOMAIN Folded : Folded[t] \in DOMAIN HashOf

VARIABLES
    dfile, dcut, dopt,
    pref, suff,     \* the lines that prune() leaves out at either end
    clen,
    J,              \* the line of file 2 that goes with one of file 1, or 0
    saveJ,
    i0,             \* output(): the line of file 1
    report,         \* what is written, with the state of change() and pdump()
    diffAt, dexit

diffFixed == <<dfile, dcut, dopt>>
diffVars == <<diffFixed, pref, suff, clen, J, saveJ, i0, report, diffAt, dexit>>

Value(f, k) == HashOf[IF dopt.fold THEN Folded[dfile[f][k]] ELSE dfile[f][k]]

\* prepare(): readhash() returns 0 at the end of the file, and for a line whose
\* hash is 0.
len(f) ==
    LET zero == {k \in DOMAIN dfile[f] : Value(f, k) = 0}
    IN  IF zero = {} THEN Len(dfile[f]) ELSE Min(zero) - 1

NoReport == [text |-> <<>>, vec |-> <<>>, any |-> FALSE, pos |-> 0, pstart |-> 0,
             plast |-> 0, full |-> FALSE]

DiffBegin(inputs, options) ==
    /\ \E in \in inputs : dfile = in.file /\ dcut = in.cut
    /\ dopt \in options
    /\ pref = 0 /\ suff = 0 /\ clen \in CLen /\ J = <<>> /\ saveJ = <<>> /\ i0 = 0
    /\ report = NoReport
    /\ diffAt = "compare" /\ dexit = 2

DiffInit == DiffBegin(DiffInputs, DiffOptions)

-----------------------------------------------------------------------------
(* Matches *)

\* diffreg(): the same bytes are no difference.  prune() takes off the lines at
\* the beginning and at the end that have the same values.
Prune ==
    /\ diffAt = "compare"
    /\ dfile[1] # dfile[2] \/ (1 \in dcut) # (2 \in dcut)
    /\ LET short == Min({len(1), len(2)})
           p == Max({n \in 0..short : \A k \in 1..n : Value(1, k) = Value(2, k)})
       IN  /\ pref' = p
           /\ suff' = Max({n \in 0..short - p :
                  \A k \in 0..n - 1 : Value(1, len(1) - k) = Value(2, len(2) - k)})
    /\ dexit' = 1
    /\ diffAt' = "match"
    /\ UNCHANGED <<diffFixed, clen, J, saveJ, i0, report>>

Identical2 ==
    /\ diffAt = "compare"
    /\ dfile[1] = dfile[2] /\ (1 \in dcut) = (2 \in dcut)
    /\ dexit' = 0
    /\ diffAt' = "done"
    /\ UNCHANGED <<diffFixed, pref, suff, clen, J, saveJ, i0, report>>

slen(f) == len(f) - pref - suff
SValue(f, s) == Value(f, pref + s)

\* The lines of file 2 as sort() leaves them
Serials ==
    SortSeq([s \in 1..slen(2) |-> s],
            LAMBDA s, t : SValue(2, s) < SValue(2, t) \/ (SValue(2, s) = SValue(2, t) /\ s < t))

\* equiv(): the classes of file 2 one after the other, the first of each negative
member(sfile2) ==
    [j \in 1..slen(2) + 1 |->
        IF j > slen(2) THEN -1
        ELSE IF j > 1 /\ SValue(2, sfile2[j]) = SValue(2, sfile2[j - 1]) THEN sfile2[j]
        ELSE -sfile2[j]]

\* equiv() and unsort(): where the class of a line of file 1 begins, or 0
class(sfile2) ==
    [s \in 1..slen(1) |->
        LET same == {j \in 1..slen(2) : SValue(2, sfile2[j]) = SValue(1, s)}
        IN  IF same = {} THEN 0 ELSE Min(same)]

\* search(): the first of the candidates c[1] to c[k] that is not before y
Search(s, y) ==
    LET Y(l) == s.cl[s.c[l]].y
        between[p \in {<<m, n>> \in (0..s.k + 1) \X (0..s.k + 1) : m < n}] ==
            LET l == (p[1] + p[2]) \div 2
            IN  IF l <= p[1] THEN l + 1
                ELSE IF Y(l) > y THEN between[<<p[1], l>>]
                ELSE IF Y(l) < y THEN between[<<l, p[2]>>]
                ELSE l
    IN  IF Y(s.k) < y THEN s.k + 1 ELSE between[<<0, s.k + 1>>]

NewCand(s, l, i, y, pred) ==
    [s EXCEPT !.cl = @ @@ (s.n :> [x |-> i, y |-> y, pred |-> pred]),
              !.n = @ + 1, !.c = (l :> s.n) @@ @]

\* Mutant: the loop goes on with the candidate that has just been made.
StoneStepNew(s, i, y) ==
    IF s.over \/ y <= s.cl[s.oldc].y THEN s
    ELSE LET l == Search(s, y)
             oldc == IF l # s.oldl + 1 THEN s.c[l - 1] ELSE s.oldc
         IN  IF l > s.k THEN [NewCand(s, l, i, y, oldc) EXCEPT !.k = @ + 1, !.over = TRUE]
             ELSE IF s.cl[s.c[l]].y <= y THEN [s EXCEPT !.oldc = oldc]
             ELSE [NewCand(s, l, i, y, oldc) EXCEPT !.oldc = s.n, !.oldl = l]

\* stone(): line i of file 1 may go with line y of file 2.
StoneStep(s, i, y) ==
    IF s.over \/ y <= s.cl[s.oldc].y THEN s
    ELSE LET l == Search(s, y)
             oldc == IF l # s.oldl + 1 THEN s.c[l - 1] ELSE s.oldc
         IN  IF l > s.k THEN [NewCand(s, l, i, y, oldc) EXCEPT !.k = @ + 1, !.over = TRUE]
             ELSE IF s.cl[s.c[l]].y <= y THEN [s EXCEPT !.oldc = oldc]
             ELSE [NewCand(s, l, i, y, oldc) EXCEPT !.oldc = s.c[l], !.oldl = l]

\* stone(): line i of file 1 and all lines of file 2 that have its value, which
\* begin at b[j]
StoneLine(s, i, j, b) ==
    IF j = 0 THEN s
    ELSE LET end == Min({e \in j + 1..Len(b) : b[e] < 0})
         IN  FoldLeft(LAMBDA t, y : StoneStep(t, i, y),
                      [s EXCEPT !.oldl = 0, !.oldc = s.c[0], !.over = FALSE],
                      <<-b[j]>> \o SubSeq(b, j + 1, end - 1))

stone ==
    LET b == member(Serials)
        a == class(Serials)
    IN  FoldLeft(LAMBDA s, i : StoneLine(s, i, a[i], b),
                 [k |-> 0, c |-> 0 :> clen, cl |-> clen :> [x |-> 0, y |-> 0, pred |-> 0],
                  n |-> clen + 1, oldl |-> 0, oldc |-> clen, over |-> FALSE],
                 [i \in 1..slen(1) |-> i])

\* unravel(): the chain of candidates from the last of the longest one
Unravel(s) ==
    LET chain[q \in DOMAIN s.cl] ==
            IF s.cl[q].y = 0 THEN {} ELSE {q} \cup chain[s.cl[q].pred]
        pairs == chain[s.c[s.k]]
    IN  [i \in 0..len(1) + 1 |->
            IF \E q \in pairs : s.cl[q].x + pref = i
            THEN s.cl[CHOOSE q \in pairs : s.cl[q].x + pref = i].y + pref
            ELSE IF i = len(1) + 1 THEN 0
            ELSE IF i <= pref THEN i
            ELSE IF i > len(1) - suff THEN i + len(2) - len(1)
            ELSE 0]

Match ==
    /\ diffAt = "match"
    /\ LET s == stone IN J' = Unravel(s) /\ clen' = s.n
    /\ diffAt' = "check"
    /\ UNCHANGED <<diffFixed, pref, suff, saveJ, i0, report, dexit>>

NoNewline(f, k) == f \in dcut /\ k = Len(dfile[f])
SameLine(i, j) ==
    /\ IF dopt.fold THEN Folded[dfile[1][i]] = Folded[dfile[2][j]]
                    ELSE dfile[1][i] = dfile[2][j]
    /\ NoNewline(1, i) = NoNewline(2, j)

\* check_sb() and check_mb(), with the beginning of output()
Check ==
    /\ diffAt = "check"
    /\ J' = [i \in 0..len(1) + 1 |->
                IF i = 0 THEN 0
                ELSE IF i = len(1) + 1 THEN len(2) + 1
                ELSE IF J[i] # 0 /\ SameLine(i, J[i]) THEN J[i] ELSE 0]
    /\ saveJ' = J'
    /\ i0' = IF dopt.out = "edit" THEN len(1) ELSE 1
    /\ diffAt' = "output"
    /\ UNCHANGED <<diffFixed, pref, suff, clen, report, dexit>>

-----------------------------------------------------------------------------
(* Output *)

\* fetch(): lines a to b with what is put before them; one without a newline gets
\* one, or with -a a remark that it has none.
Fetch(f, a, b, mark) ==
    [k \in 1..b - a + 1 |->
        [mark |-> mark, line |-> dfile[f][a + k - 1],
         end |-> IF dopt.a /\ NoNewline(f, a + k - 1) THEN "remark" ELSE "newline"]]

\* fetch() with -D: file 1 from where it has been read to, as it is
Copied(a, b) ==
    [k \in 1..b - a + 1 |->
        [mark |-> "both", line |-> dfile[1][a + k - 1],
         end |-> IF NoNewline(1, a + k - 1) THEN "nothing" ELSE "newline"]]

AllBlank(f, a, b) == \A k \in a..b : dfile[f][k] = Blank
ChangeKind(a, b, c, d) == IF a > b THEN "a" ELSE IF c > d THEN "d" ELSE "c"

\* range()
Range2(a, b) == <<IF a > b THEN b ELSE a, b>>
Command(kind, a, b, c, d, old, new) ==
    [cmd |-> kind, at |-> Range2(a, b), to |-> Range2(c, d), old |-> old, new |-> new]

\* pdump(): the name is looked for up to where it was looked for the last time.
PDump(o, sa) ==
    LET named == {k \in o.pstart + 1..sa : saveJ[k] # 0 /\ dfile[1][k] \in Named}
    IN  [o EXCEPT !.pstart = sa, !.plast = IF named = {} THEN @ ELSE Max(named)]

\* One side of a record, in the form of -c: low is the first line of context.
Side(vec, f, low, up, sign) ==
    LET from(v) == IF f = 1 THEN v.a ELSE v.c
        till(v) == IF f = 1 THEN v.b ELSE v.d
        part(x, v) ==
            LET k == ChangeKind(v.a, v.b, v.c, v.d)
            IN  [low |-> till(v) + 1,
                 text |-> x.text \o
                    (IF from(v) > till(v) THEN Fetch(f, x.low, till(v), " ")
                     ELSE Fetch(f, x.low, from(v) - 1, " ")
                              \o Fetch(f, from(v), till(v), IF k = "c" THEN "!" ELSE sign))]
        body == FoldLeft(part, [low |-> low, text |-> <<>>], vec)
    IN  IF \A n \in DOMAIN vec : from(vec[n]) > till(vec[n]) THEN <<>>
        ELSE body.text \o Fetch(f, body.low, up, " ")

Unified(vec, lowa, upb) ==
    LET part(x, v) ==
            [low |-> v.b + 1,
             text |-> x.text \o Fetch(1, x.low, IF v.a > v.b THEN v.b ELSE v.a - 1, " ")
                          \o Fetch(1, v.a, v.b, "-") \o Fetch(2, v.c, v.d, "+")]
        body == FoldLeft(part, [low |-> lowa, text |-> <<>>], vec)
    IN  body.text \o Fetch(1, body.low, upb, " ")

\* dump_context_vec()
Dump(o) ==
    IF o.vec = <<>> THEN o
    ELSE LET first == o.vec[1]
             last == o.vec[Len(o.vec)]
             lowa == Max({1, first.a - dopt.context})
             upb == Min({len(1), last.b + dopt.context})
             lowc == Max({1, first.c - dopt.context})
             upd == Min({len(2), last.d + dopt.context})
             named == IF dopt.p THEN PDump(o, lowa - 1) ELSE o
             hunk == IF dopt.out = "unified"
                     THEN [at |-> <<lowa, upb - lowa + 1>>, to |-> <<lowc, upd - lowc + 1>>,
                           name |-> named.plast, body |-> Unified(o.vec, lowa, upb)]
                     ELSE [at |-> Range2(lowa, upb), to |-> Range2(lowc, upd),
                           name |-> named.plast,
                           old |-> Side(o.vec, 1, lowa, upb, "-"),
                           new |-> Side(o.vec, 2, lowc, upd, "+")]
         IN  [named EXCEPT !.text = Append(@, hunk), !.vec = <<>>]

\* change(), with -c and -u: changes that are near each other are one record.
NearChange(o, a, b, c, d) ==
    LET last == o.vec[Len(o.vec)]
        full == Len(o.vec) = MaxContext
        apart == o.vec # <<>> /\ a > last.b + 2 * dopt.context /\ c > last.d + 2 * dopt.context
        begun == IF full \/ apart THEN Dump(o) ELSE o
    IN  [begun EXCEPT !.vec = Append(@, [a |-> a, b |-> b, c |-> c, d |-> d]),
                      !.full = @ \/ full, !.any = TRUE]

\* change(), for scripts
Script(a, b, c, d) ==
    LET kind == ChangeKind(a, b, c, d)
        new == Fetch(2, c, d, IF dopt.out = "normal" THEN ">" ELSE "")
    IN  CASE dopt.out = "normal" -> <<Command(kind, a, b, c, d, Fetch(1, a, b, "<"), new)>>
          [] dopt.out \in {"edit", "reverse"} -> <<Command(kind, a, b, a, b, <<>>, new)>>
          [] dopt.out = "nreverse" ->
                (IF a > b THEN <<>> ELSE <<Command("d", a, b, a, b, <<>>, <<>>)>>)
                \o (IF c > d THEN <<>> ELSE <<Command("a", b + 1, b, b + 1, b, <<>>, new)>>)

\* change() and fetch() with -D: file 1 is copied as far as the change.
Merged(o, a, b, c, d) ==
    [o EXCEPT !.text = @ \o Copied(o.pos + 1, IF a > b THEN b ELSE a - 1)
                         \o Fetch(1, a, b, "ifndef") \o Fetch(2, c, d, "ifdef"),
              !.pos = b, !.any = TRUE]

Change(o, a, b, c, d) ==
    IF dopt.out # "ifdef" /\ a > b /\ c > d THEN o
    ELSE IF dopt.B /\ AllBlank(1, a, b) /\ AllBlank(2, c, d) THEN o
    ELSE IF dopt.out \in {"context", "unified"} THEN NearChange(o, a, b, c, d)
    ELSE IF dopt.out = "ifdef" THEN Merged(o, a, b, c, d)
    ELSE [o EXCEPT !.text = @ \o Script(a, b, c, d), !.any = TRUE]

\* output(): from the first line to the last
OutputForward ==
    /\ diffAt = "output" /\ dopt.out # "edit" /\ i0 <= len(1)
    /\ LET m == len(1)
           i == Min({k \in i0..m + 1 : k = m + 1 \/ J[k] # J[k - 1] + 1})
           i1 == Max({k \in i - 1..m : \A n \in i..k : J[n] = 0})
           j1 == J[i1 + 1] - 1
       IN  /\ report' = Change(report, i, i1, J[i - 1] + 1, j1)
           /\ J' = [J EXCEPT ![i1] = j1]
           /\ i0' = i1 + 1
    /\ UNCHANGED <<diffFixed, pref, suff, clen, saveJ, diffAt, dexit>>

\* output() with -e: from the last line to the first
OutputBackward ==
    /\ diffAt = "output" /\ dopt.out = "edit" /\ i0 >= 1
    /\ LET i == Max({k \in 0..i0 : k = 0 \/ J[k] # J[k + 1] - 1 \/ J[k] = 0})
           i1 == Min({k \in 1..i + 1 : \A n \in k..i : J[n] = 0})
           j1 == J[i1 - 1] + 1
       IN  /\ report' = Change(report, i1, i, j1, J[i + 1] - 1)
           /\ J' = [J EXCEPT ![i1] = j1]
           /\ i0' = i1 - 1
    /\ UNCHANGED <<diffFixed, pref, suff, clen, saveJ, diffAt, dexit>>

\* The end of output(): file 1 may be empty, -D copies the rest of it, and the last
\* record has not been written.
OutputEnd ==
    /\ diffAt = "output" /\ (IF dopt.out = "edit" THEN i0 < 1 ELSE i0 > len(1))
    /\ LET o == IF len(1) = 0 THEN Change(report, 1, 0, 1, len(2)) ELSE report
       IN  /\ report' = IF dopt.out = "ifdef"
                        THEN [o EXCEPT !.text = @ \o Copied(o.pos + 1, Len(dfile[1]))]
                        ELSE Dump(o)
           /\ dexit' = IF o.any THEN 1 ELSE 0
    /\ diffAt' = "done"
    /\ UNCHANGED <<diffFixed, pref, suff, clen, J, saveJ, i0>>

DiffNext ==
    \/ Prune \/ Identical2 \/ Match \/ Check \/ OutputForward \/ OutputBackward \/ OutputEnd

DiffSpec == DiffInit /\ [][DiffNext]_diffVars

-----------------------------------------------------------------------------
(* Properties *)

DiffTypeOK ==
    /\ pref \in 0..Len(dfile[1]) /\ suff \in 0..Len(dfile[1]) - pref
    /\ clen \in Nat /\ dexit \in 0..2
    /\ diffAt \in {"compare", "match", "check", "output", "done"}
    /\ diffAt \in {"check", "output"} => J \in [0..len(1) + 1 -> 0..len(2) + 1]

(* What a reader makes of the output *)

Text1 == SubSeq(dfile[1], 1, len(1))
Text2 == SubSeq(dfile[2], 1, len(2))
DiffLines(part) == [k \in DOMAIN part |-> part[k].line]
Marked(part, marks) == DiffLines(SelectSeq(part, LAMBDA t : t.mark \in marks))

\* Lines as far as they are to be told apart: -b, -w and -i, and -B
Like(s) ==
    LET t == IF dopt.B THEN SelectSeq(s, LAMBDA x : x # Blank) ELSE s
    IN  IF dopt.fold THEN [k \in DOMAIN t |-> Folded[t[k]]] ELSE t

Bad == <<-1>>
Replaced(s, at, n, new) ==
    IF s = Bad \/ at < 1 \/ n < 0 \/ at + n - 1 > Len(s) THEN Bad
    ELSE SubSeq(s, 1, at - 1) \o new \o SubSeq(s, at + n, Len(s))

\* The editor, at the lines of file 1, which are moved by what was done before
Obey(s, c) ==
    LET moved == IF dopt.out = "edit" THEN 0 ELSE Len(s) - Len(Text1)
    IN  IF c.cmd = "a" THEN Replaced(s, c.at[2] + 1 + moved, 0, DiffLines(c.new))
        ELSE Replaced(s, c.at[1] + moved, c.at[2] - c.at[1] + 1, DiffLines(c.new))

\* Normal output read backward, a for d
ObeyBackward(c, s) ==
    IF c.cmd = "d" THEN Replaced(s, c.to[2] + 1, 0, DiffLines(c.old))
    ELSE Replaced(s, c.to[1], c.to[2] - c.to[1] + 1, DiffLines(c.old))

\* A hunk takes the place of the lines it shows, if they are as it shows them.
Patch(s, h) ==
    LET moved == Len(s) - Len(Text1)
        old == Marked(h.body, {" ", "-"})
        new == Marked(h.body, {" ", "+"})
        at == h.at[1] + moved
    IN  IF s = Bad \/ h.at[2] # Len(old) \/ h.to[2] # Len(new) \/ h.to[1] # at
           \/ SubSeq(s, at, at + Len(old) - 1) # old THEN Bad
        ELSE Replaced(s, at, Len(old), new)

\* With -c each side is left out when nothing is marked in it.
ContextPatch(s, h) ==
    LET moved == Len(s) - Len(Text1)
        side(part, other) ==
            IF part # <<>> THEN DiffLines(part) ELSE Marked(other, {" "})
        at == IF h.at[1] > h.at[2] \/ h.at[2] = 0 THEN h.at[2] + 1 ELSE h.at[1]
        old == side(h.old, h.new)
        new == side(h.new, h.old)
    IN  IF s = Bad \/ h.to[2] # at + moved + Len(new) - 1 \/ h.at[2] # at + Len(old) - 1
           \/ Like(SubSeq(s, at + moved, at + moved + Len(old) - 1)) # Like(old) THEN Bad
        ELSE Replaced(s, at + moved, Len(old), new)

Recreated ==
    CASE dexit = 0 -> Text1
      [] dexit # 0 /\ dopt.out \in {"normal", "edit", "reverse", "nreverse"} ->
            FoldLeft(Obey, Text1, report.text)
      [] dexit # 0 /\ dopt.out = "unified" -> FoldLeft(Patch, Text1, report.text)
      [] dexit # 0 /\ dopt.out = "context" -> FoldLeft(ContextPatch, Text1, report.text)
      [] dexit # 0 /\ dopt.out = "ifdef" -> Marked(report.text, {"both", "ifdef"})

ReadBackward ==
    CASE dopt.out = "normal" -> FoldRight(ObeyBackward, report.text, Text2)
      [] dopt.out = "ifdef" -> Marked(report.text, {"both", "ifndef"})
      [] OTHER -> Text1

\* -p: the last unchanged line before the context that begins as a function does
NameBefore(h) ==
    LET named == {k \in 1..h.at[1] - 1 : saveJ[k] # 0 /\ dfile[1][k] \in Named}
    IN  h.name = IF named = {} THEN 0 ELSE Max(named)

\* The length of a longest common subsequence of what is compared
Longest ==
    LET same(x, y) == IF dopt.fold THEN Folded[x] = Folded[y] ELSE x = y
        lcs[p \in (0..len(1)) \X (0..len(2))] ==
            IF p[1] = 0 \/ p[2] = 0 THEN 0
            ELSE IF same(dfile[1][p[1]], dfile[2][p[2]]) THEN lcs[<<p[1] - 1, p[2] - 1>>] + 1
            ELSE Max({lcs[<<p[1] - 1, p[2]>>], lcs[<<p[1], p[2] - 1>>]})
    IN  lcs[<<len(1), len(2)>>]

Collision ==
    \E k \in 1..len(1), n \in 1..len(2) :
        Value(1, k) = Value(2, n) /\ ~SameLine(k, n)

\* What diff writes turns file 1 into file 2, as far as the options tell lines apart
\* and readhash() sees the files, whichever lines have the same hash; normal output
\* read backward turns file 2 into file 1; and when no two lines that differ have
\* the same hash, no more lines are changed than must be.  (-B with -c and -u, and
\* records that were full, are not asked for.)
DiffRecreates ==
    /\ diffAt = "done" /\ ~report.full /\ (dopt.B => dopt.out \notin {"context", "unified"}) =>
          /\ Like(Recreated) = Like(Text2)
          /\ dexit = 1 => Like(ReadBackward) = Like(Text1)
          /\ dopt.p => \A n \in DOMAIN report.text : NameBefore(report.text[n])
    /\ diffAt = "output" /\ report = NoReport /\ ~Collision =>
          Cardinality({k \in 1..len(1) : saveJ[k] # 0}) = Longest

===============================================================================
