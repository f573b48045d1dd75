-------------------------- MODULE DdDiffdir_proofs --------------------------
(***************************************************************************)
(* dd writes the conversion of what it reads, for every input, all sizes   *)
(* of blocks and records, however reads and writes divide it, and whatever *)
(* call fails.  The conversion is stated of the whole input; the program   *)
(* makes it character by character, block by block.                        *)
(*                                                                         *)
(* diff of directories tells of each name in two trees once, in order, for *)
(* trees of any depth, though one process goes through all of them and     *)
(* each comparison changes what the one above it uses.                     *)
(***************************************************************************)
EXTENDS Dd, Diffdir, FiniteSetTheorems, SequenceLemmas

-----------------------------------------------------------------------------
(* dd: the invariant *)

Portions == [s : Seq(Nat), again : Nat]
\* The variables have their types; the record is not longer than cbs, nor the output
\* block than obs.
DdStates ==
    /\ ddin \in Seq(Nat) /\ ddopt \in DdOptions /\ ddoff \in 0..Len(ddin)
    /\ cblok \in Seq(Nat) /\ ctrunc \in 0..2 /\ truncated \in Nat
    /\ Len(cblok) <= cbs /\ (ddopt.conv = "none" => cblok = <<>>)
    /\ todo \in Seq(Portions)
    /\ oblok \in Seq(Nat) /\ Len(oblok) <= obs
    /\ broken \in BOOLEAN /\ dat \in {"dd", "quit", "exit", "recursion"}
    /\ records \in Seq(Seq(Nat)) /\ dout \in Seq(Nat)
    /\ wrote \in Seq([size : Nat, n : Nat])

\* What is still to be written, one after the other.
Texts(queue) == FlattenSeq([k \in 1..Len(queue) |-> queue[k].s])

\* The line, or the piece, that what was read ends in.
Current(r) == Line(r, Len(r) + 1)
LastPiece(r) == IF r = <<>> THEN <<>> ELSE Piece(r, Len(r))
TooLongLines(r) == {k \in LineEnds(r) : Len(Line(r, k)) > cbs}

\* What the record that is put together and ctrunc say of the characters read.
Together(blok, trunc, r) ==
    CASE ddopt.conv = "none"    -> blok = <<>>
      [] ddopt.conv = "block"   ->
            /\ trunc = 0 => blok = Current(r) /\ Len(blok) < cbs
            /\ trunc # 0 => blok = <<>>
            /\ trunc = 1 <=> Len(Current(r)) = cbs
            /\ trunc = 2 <=> Len(Current(r)) > cbs
      [] ddopt.conv = "unblock" -> blok = LastPiece(r) /\ trunc = 0

\* The records that are complete.
BlockHead(r) == FlattenSeq([k \in 1..Len(r) |-> IF r[k] = NL THEN Padded(Cropped(Line(r, k))) ELSE <<>>])
UnblockHead(r) ==
    FlattenSeq([k \in 1..Len(r) - 1 |-> IF k % cbs = 0 THEN WithoutBlanks(Piece(r, k)) ELSE <<>>])
Converted(trunc, r) ==
    CASE ddopt.conv = "none"    -> r
      [] ddopt.conv = "block"   -> BlockHead(r) \o (IF trunc = 0 THEN <<>> ELSE Padded(Cropped(Current(r))))
      [] ddopt.conv = "unblock" -> UnblockHead(r)

\* What quit() makes of the record that is put together.
Flushed(blok) == IF blok = <<>> THEN <<>> ELSE FlushedOnce(blok)

\* What is written, in the output block, and still to be written, in this order, is the
\* conversion of what was read, but for the record being put together.
InHand == (dout \o oblok) \o Texts(todo)
Divided ==
    /\ dat = "dd" => ~broken /\ Together(cblok, ctrunc, AllRead) /\ InHand = Converted(ctrunc, AllRead)
    /\ ~broken => InHand \o Flushed(cblok) = Reference(AllRead)
    /\ broken => dat \in {"exit", "recursion"} /\ IsPrefix(dout, Reference(AllRead))
    /\ dat = "recursion" => broken
    /\ Ended => todo = <<>> /\ oblok = <<>> /\ cblok = <<>>
    /\ Direct => oblok = <<>>
LongLinesCounted == ddopt.conv = "block" => truncated = Cardinality(TooLongLines(AllRead))
\* A write for less than a block comes at the end, when all that is left is in the block.
Sizes ==
    ~Direct => \A k \in DOMAIN wrote :
        \/ wrote[k].size = obs
        \/ /\ dat \in {"quit", "exit"} /\ todo = <<>> /\ cblok = <<>> /\ wrote[k].size > Len(oblok)
           /\ \A j \in k + 1..Len(wrote) : wrote[j].size < wrote[k].size

DdInv == DdStates /\ Divided /\ LongLinesCounted /\ Sizes

-----------------------------------------------------------------------------
(* dd: sequences one after the other *)

LEMMA FunctionIsSeq ==
    ASSUME NEW S, NEW n \in Nat, NEW f \in [1..n -> S]
    PROVE  f \in Seq(S) /\ Len(f) = n
<1>1. f \in Seq(S)
  BY SeqDef
<1> QED
  BY <1>1, LenProperties

LEMMA FlattenNext ==
    ASSUME NEW S, NEW n \in Nat, NEW p \in [1..n -> Seq(S)], NEW q \in [1..n + 1 -> Seq(S)],
           \A k \in 1..n : q[k] = p[k]
    PROVE  FlattenSeq(p) \in Seq(S) /\ FlattenSeq(q) = FlattenSeq(p) \o q[n + 1]
<1>1. p \in Seq(Seq(S)) /\ Len(p) = n
  <2>1. p \in Seq(Seq(S))
    BY SeqDef
  <2> QED
    BY <2>1, LenProperties
<1>2. q \in Seq(Seq(S)) /\ Len(q) = n + 1
  <2>0. n + 1 \in Nat
    OBVIOUS
  <2>1. q \in Seq(Seq(S))
    BY <2>0, SeqDef
  <2> QED
    BY <2>1, LenProperties
<1>3. PICK v \in Seq(S) : v = q[n + 1]
  OBVIOUS
<1>4. PICK t : t = Append(p, v)
  OBVIOUS
<1>5. t \in Seq(Seq(S)) /\ Len(t) = n + 1 /\ t[n + 1] = v /\ \A k \in 1..n : t[k] = p[k]
  BY <1>1, <1>4, AppendProperties
<1>6. \A k \in 1..n + 1 : t[k] = q[k]
  <2>1. \A k \in 1..n + 1 : k \in 1..n \/ k = n + 1
    OBVIOUS
  <2> QED
    BY <1>3, <1>5, <2>1
<1>7. t = q
  BY <1>2, <1>5, <1>6, SeqEqual
<1> QED
  BY <1>1, <1>3, <1>4, <1>7, FlattenMore

LEMMA FlattenLast ==
    ASSUME NEW n \in Nat, NEW p \in [1..n -> Seq(Nat)], NEW q \in [1..n + 1 -> Seq(Nat)],
           \A k \in 1..n : q[k] = p[k]
    PROVE  FlattenSeq(q) = FlattenSeq(p) \o q[n + 1]
BY FlattenNext

LEMMA FlattenNone == FlattenSeq(<<>>) = <<>>
<1>1. Len(<<>>) = 0
  BY EmptySeq
<1> QED
  BY <1>1 DEF FlattenSeq

LEMMA FlattenFirst ==
    ASSUME NEW S, NEW x \in Seq(S), NEW t \in Seq(Seq(S))
    PROVE  FlattenSeq(<<x>> \o t) = x \o FlattenSeq(t)
<1> DEFINE P == {m \in Nat : \A u \in Seq(Seq(S)) : Len(u) = m =>
                                FlattenSeq(<<x>> \o u) = x \o FlattenSeq(u)}
<1>0. <<x>> \in Seq(Seq(S)) /\ <<>> \in Seq(Seq(S)) /\ <<>> \in Seq(S)
  BY EmptySeq
<1>1. 0 \in P
  <2> SUFFICES ASSUME NEW u \in Seq(Seq(S)), Len(u) = 0 PROVE FlattenSeq(<<x>> \o u) = x \o FlattenSeq(u)
    OBVIOUS
  <2>1. u = <<>>
    BY EmptySeq
  <2>2. <<x>> \o u = <<x>> /\ <<x>> = Append(<<>>, x)
    BY <1>0, <2>1, ConcatEmptySeq
  <2>3. FlattenSeq(Append(<<>>, x)) = FlattenSeq(<<>>) \o x
    BY <1>0, FlattenMore
  <2>4. <<>> \o x = x /\ x \o <<>> = x
    BY ConcatEmptySeq
  <2> QED
    BY <2>1, <2>2, <2>3, <2>4, FlattenNone
<1>2. ASSUME NEW m \in Nat, m \in P PROVE m + 1 \in P
  <2> SUFFICES \A u \in Seq(Seq(S)) : Len(u) = m + 1 => FlattenSeq(<<x>> \o u) = x \o FlattenSeq(u)
    BY m + 1 \in Nat
  <2> SUFFICES ASSUME NEW u \in Seq(Seq(S)), Len(u) = m + 1 PROVE FlattenSeq(<<x>> \o u) = x \o FlattenSeq(u)
    OBVIOUS
  <2>0. \A w \in Seq(Seq(S)) : Len(w) = m => FlattenSeq(<<x>> \o w) = x \o FlattenSeq(w)
    BY <1>2
  <2> HIDE DEF P
  <2>1. u # <<>>
    BY EmptySeq
  <2>2. PICK v \in Seq(Seq(S)), y \in Seq(S) : u = Append(v, y)
    BY <2>1, SequenceEmptyOrAppend
  <2>3. Len(v) = m
    BY <2>2, LenProperties, AppendProperties
  <2>4. PICK w : w = <<x>> \o v
    OBVIOUS
  <2>5. w \in Seq(Seq(S))
    BY <1>0, <2>4, ConcatProperties
  <2>6. <<x>> \o u = Append(w, y)
    BY <1>0, <2>2, <2>4, ConcatAppend
  <2>7. FlattenSeq(Append(w, y)) = FlattenSeq(w) \o y
    BY <2>5, FlattenMore
  <2>8. FlattenSeq(w) = x \o FlattenSeq(v)
    BY <2>0, <2>3, <2>4
  <2>9. FlattenSeq(u) = FlattenSeq(v) \o y /\ FlattenSeq(v) \in Seq(S)
    <3>1. v \in Seq(Seq(S)) /\ y \in Seq(S)
      BY <2>2
    <3>2. FlattenSeq(v) \in Seq(S) /\ FlattenSeq(Append(v, y)) = FlattenSeq(v) \o y
      BY <3>1, FlattenMore
    <3> QED
      BY <2>2, <3>2
  <2>10. (x \o FlattenSeq(v)) \o y = x \o (FlattenSeq(v) \o y)
    BY <2>2, <2>9, ConcatAssociative
  <2> QED
    BY <2>6, <2>7, <2>8, <2>9, <2>10
<1>3. Nat \subseteq P
  <2> HIDE DEF P
  <2> QED
    BY <1>1, <1>2, SetInduction
<1>4. Len(t) \in Nat
  BY LenProperties
<1> QED
  BY <1>3, <1>4

\* What is still to be written.
LEMMA TextsFacts ==
    ASSUME NEW q \in Seq(Portions)
    PROVE  /\ Texts(q) \in Seq(Nat)
           /\ q = <<>> => Texts(q) = <<>>
           /\ \A p \in Portions : p.s \in Seq(Nat) /\ Texts(Append(q, p)) = Texts(q) \o p.s
           /\ \A p \in Portions : <<p>> \o q \in Seq(Portions) /\ Texts(<<p>> \o q) = p.s \o Texts(q)
<1>0. PICK n \in Nat : n = Len(q)
  BY LenProperties
<1>1. PICK g : g = [k \in 1..n |-> q[k].s]
  OBVIOUS
<1>2. \A k \in 1..n : q[k].s \in Seq(Nat)
  <2>1. \A k \in 1..n : q[k] \in Portions
    BY <1>0, ElementOfSeq
  <2> QED
    BY <2>1 DEF Portions
<1>3. g \in Seq(Seq(Nat)) /\ Len(g) = n /\ g \in [1..n -> Seq(Nat)] /\ Texts(q) = FlattenSeq(g)
  <2>1. g \in [1..n -> Seq(Nat)]
    BY <1>1, <1>2
  <2>2. g \in Seq(Seq(Nat)) /\ Len(g) = n
    BY <2>1, FunctionIsSeq
  <2>3. Texts(q) = FlattenSeq(g)
    BY <1>0, <1>1 DEF Texts
  <2> QED
    BY <2>1, <2>2, <2>3
<1>4. q = <<>> => Texts(q) = <<>>
  <2> SUFFICES ASSUME q = <<>> PROVE FlattenSeq(g) = <<>>
    BY <1>3
  <2>1. Len(g) = 0
    BY <1>0, <1>3, EmptySeq
  <2>2. g = <<>>
    BY <1>3, <2>1, EmptySeq
  <2> QED
    BY <2>2, FlattenNone
<1>5. ASSUME NEW p \in Portions PROVE p.s \in Seq(Nat) /\ Texts(Append(q, p)) = Texts(q) \o p.s
  <2>1. p.s \in Seq(Nat)
    BY DEF Portions
  <2>2. PICK u : u = Append(q, p)
    OBVIOUS
  <2>3. u \in Seq(Portions) /\ Len(u) = n + 1 /\ u[n + 1] = p /\ \A k \in 1..n : u[k] = q[k]
    BY <1>0, <2>2, AppendFacts
  <2>4. PICK h : h = [k \in 1..n + 1 |-> u[k].s]
    OBVIOUS
  <2>5. Texts(u) = FlattenSeq(h)
    <3>1. 1..Len(u) = 1..n + 1
      BY <2>3
    <3> QED
      BY <2>4, <3>1 DEF Texts
  <2>6. \A k \in 1..n + 1 : k \in 1..n \/ k = n + 1
    OBVIOUS
  <2>7. \A k \in 1..n : h[k] = g[k]
    <3> SUFFICES ASSUME NEW k \in 1..n PROVE h[k] = g[k]
      OBVIOUS
    <3>1. k \in 1..n + 1 /\ u[k] = q[k]
      BY <2>3
    <3>2. h[k] = u[k].s /\ g[k] = q[k].s
      BY <1>1, <2>4, <3>1
    <3> QED
      BY <3>1, <3>2
  <2>8. h[n + 1] = p.s
    <3>1. n + 1 \in 1..n + 1
      OBVIOUS
    <3> QED
      BY <2>3, <2>4, <3>1
  <2>9. h \in [1..n + 1 -> Seq(Nat)]
    <3>1. \A k \in 1..n + 1 : h[k] \in Seq(Nat)
      BY <1>3, <2>1, <2>6, <2>7, <2>8
    <3> QED
      BY <2>4, <3>1
  <2>10. FlattenSeq(h) = FlattenSeq(g) \o h[n + 1]
    BY <1>3, <2>7, <2>9, FlattenNext, ZenonT(60)
  <2> QED
    BY <1>3, <2>1, <2>2, <2>5, <2>8, <2>10
<1>6. ASSUME NEW p \in Portions PROVE <<p>> \o q \in Seq(Portions) /\ Texts(<<p>> \o q) = p.s \o Texts(q)
  <2>1. p.s \in Seq(Nat)
    BY DEF Portions
  <2>2. PICK u, o : o = <<p>> /\ u = o \o q
    OBVIOUS
  <2>3. o \in Seq(Portions) /\ Len(o) = 1 /\ o[1] = p
    BY <2>2
  <2>4. u \in Seq(Portions) /\ Len(u) = 1 + n /\ \A k \in 1..1 + n : u[k] = IF k <= 1 THEN o[k] ELSE q[k - 1]
    BY <1>0, <2>2, <2>3, ConcatProperties
  <2>5. PICK h, e, w : h = [k \in 1..1 + n |-> u[k].s] /\ e = <<p.s>> /\ w = e \o g
    OBVIOUS
  <2>6. Texts(u) = FlattenSeq(h)
    BY <2>4, <2>5 DEF Texts
  <2>7. e \in Seq(Seq(Nat)) /\ Len(e) = 1 /\ e[1] = p.s
    BY <2>1, <2>5
  <2>8. w \in Seq(Seq(Nat)) /\ Len(w) = 1 + n /\ \A k \in 1..1 + n : w[k] = IF k <= 1 THEN e[k] ELSE g[k - 1]
    BY <1>3, <2>5, <2>7, ConcatProperties
  <2>9. \A k \in 1..1 + n : h[k] = w[k]
    <3> SUFFICES ASSUME NEW k \in 1..1 + n PROVE u[k].s = w[k]
      BY <2>5
    <3>1. CASE k = 1
      BY <2>3, <2>4, <2>7, <2>8, <3>1
    <3>2. CASE k # 1
      <4>1. k - 1 \in 1..n /\ ~(k <= 1)
        BY <3>2
      <4>2. u[k] = q[k - 1] /\ w[k] = g[k - 1]
        BY <2>4, <2>8, <4>1
      <4>3. g[k - 1] = q[k - 1].s
        BY <1>1, <4>1
      <4> QED
        BY <4>2, <4>3
    <3> QED
      BY <3>1, <3>2
  <2>10. h = w
    <3>1. w \in [1..1 + n -> Seq(Nat)]
      BY <2>8, LenProperties
    <3> QED
      BY <2>5, <2>9, <3>1
  <2>11. FlattenSeq(w) = p.s \o FlattenSeq(g)
    BY <1>3, <2>1, <2>5, FlattenFirst
  <2> QED
    BY <1>3, <2>2, <2>4, <2>6, <2>10, <2>11
<1>7. Texts(q) \in Seq(Nat)
  <2>1. <<>> \in Seq(Nat)
    BY EmptySeq
  <2>2. FlattenSeq(g) \in Seq(Nat)
    BY <1>3, <2>1, FlattenMore
  <2> QED
    BY <1>3, <2>2
<1> QED
  BY <1>4, <1>5, <1>6, <1>7

\* The first of what is to be written.
LEMMA TextsOfRest ==
    ASSUME NEW q \in Seq(Portions), q # <<>>
    PROVE  /\ Head(q) \in Portions /\ Tail(q) \in Seq(Portions)
           /\ Texts(q) = Head(q).s \o Texts(Tail(q))
<1>1. Head(q) \in Portions /\ Tail(q) \in Seq(Portions) /\ Len(Tail(q)) = Len(q) - 1
      /\ \A i \in 1..Len(Tail(q)) : Tail(q)[i] = q[i + 1]
  BY HeadTailProperties
<1>2. PICK p, t, o, u : p = Head(q) /\ t = Tail(q) /\ o = <<p>> /\ u = o \o t
  OBVIOUS
<1>3. PICK n \in Nat : Len(q) = n + 1 /\ Len(t) = n
  <2>1. Len(q) \in Nat \ {0}
    BY EmptySeq
  <2>2. Len(t) = Len(q) - 1
    BY <1>1, <1>2
  <2>3. Len(q) - 1 \in Nat /\ Len(q) = (Len(q) - 1) + 1
    BY <2>1
  <2> QED
    BY <2>2, <2>3
<1>4. o \in Seq(Portions) /\ Len(o) = 1 /\ o[1] = p
  BY <1>1, <1>2
<1>5. u \in Seq(Portions) /\ Len(u) = 1 + n /\ \A k \in 1..1 + n : u[k] = IF k <= 1 THEN o[k] ELSE t[k - 1]
  BY <1>1, <1>2, <1>3, <1>4, ConcatProperties
<1>6. p = q[1]
  BY <1>2, <1>3
<1>7. \A k \in 1..1 + n : u[k] = q[k]
  <2> SUFFICES ASSUME NEW k \in 1..1 + n PROVE u[k] = q[k]
    OBVIOUS
  <2>1. CASE k = 1
    BY <1>4, <1>5, <1>6, <2>1
  <2>2. CASE k # 1
    <3>1. k - 1 \in 1..n /\ ~(k <= 1) /\ k - 1 + 1 = k
      BY <2>2
    <3> QED
      BY <1>1, <1>2, <1>3, <1>5, <3>1
  <2> QED
    BY <2>1, <2>2
<1>8. u = q
  <2>1. Len(u) = Len(q)
    BY <1>3, <1>5
  <2> QED
    BY <1>5, <1>7, <2>1, SeqEqual
<1>9. Texts(o \o t) = p.s \o Texts(t)
  BY <1>1, <1>2, TextsFacts
<1> QED
  BY <1>1, <1>2, <1>8, <1>9

-----------------------------------------------------------------------------
(* dd: parts of what was read, and what one more character makes of them   *)

LEMMA PartFacts ==
    ASSUME NEW S, NEW s \in Seq(S), NEW a \in Nat \ {0}, NEW b \in 0..Len(s), a <= b + 1
    PROVE  /\ SubSeq(s, a, b) \in Seq(S) /\ Len(SubSeq(s, a, b)) = b - a + 1
           /\ \A i \in 1..b - a + 1 : SubSeq(s, a, b)[i] = s[a + i - 1]
<1>1. PICK n \in Nat : n = Len(s)
  BY LenProperties
<1>2. \A i \in 1..n : s[i] \in S
  BY <1>1, ElementOfSeq
<1>3. \A i \in a..b : i \in 1..n
  BY <1>1
<1>4. \A i \in a..b : s[i] \in S
  BY <1>2, <1>3
<1>5. a \in Int /\ b \in Int
  BY <1>1
<1>6. PICK t : t = SubSeq(s, a, b)
  OBVIOUS
<1>7. /\ t \in Seq(S) /\ Len(t) = IF a <= b THEN b - a + 1 ELSE 0
      /\ \A i \in 1..b - a + 1 : t[i] = s[a + i - 1]
  BY <1>4, <1>5, <1>6, SubSeqProperties
<1>8. Len(t) = b - a + 1
  BY <1>5, <1>7
<1> QED
  BY <1>6, <1>7, <1>8

LEMMA PartNext ==
    ASSUME NEW S, NEW s \in Seq(S), NEW e \in S, NEW t, t = Append(s, e), NEW a \in Nat \ {0}
    PROVE  /\ \A b \in 0..Len(s) : a <= b + 1 => SubSeq(t, a, b) = SubSeq(s, a, b)
           /\ a <= Len(s) + 1 => SubSeq(t, a, Len(s) + 1) = Append(SubSeq(s, a, Len(s)), e)
<1>1. PICK n \in Nat : n = Len(s)
  BY LenProperties
<1>2. t \in Seq(S) /\ Len(t) = n + 1 /\ t[n + 1] = e /\ \A k \in 1..n : t[k] = s[k]
  BY <1>1, AppendFacts
<1>3. ASSUME NEW b \in 0..n, a <= b + 1 PROVE SubSeq(t, a, b) = SubSeq(s, a, b)
  <2>1. PICK u, v : u = SubSeq(t, a, b) /\ v = SubSeq(s, a, b)
    OBVIOUS
  <2>2. b \in 0..n + 1
    OBVIOUS
  <2>3. u \in Seq(S) /\ Len(u) = b - a + 1 /\ \A i \in 1..b - a + 1 : u[i] = t[a + i - 1]
    BY <1>2, <1>3, <2>1, <2>2, PartFacts
  <2>4. v \in Seq(S) /\ Len(v) = b - a + 1 /\ \A i \in 1..b - a + 1 : v[i] = s[a + i - 1]
    BY <1>1, <1>3, <2>1, PartFacts
  <2>5. \A i \in 1..b - a + 1 : a + i - 1 \in 1..n
    BY <1>3
  <2>6. \A i \in 1..b - a + 1 : u[i] = v[i]
    BY <1>2, <2>3, <2>4, <2>5
  <2> QED
    BY <2>1, <2>3, <2>4, <2>6, SeqEqual
<1>4. ASSUME a <= n + 1 PROVE SubSeq(t, a, n + 1) = Append(SubSeq(s, a, n), e)
  <2>1. PICK u, v, w : u = SubSeq(t, a, n + 1) /\ v = SubSeq(s, a, n) /\ w = Append(v, e)
    OBVIOUS
  <2>2. PICK m \in Nat : m = n - a + 1
    BY <1>4
  <2>3. u \in Seq(S) /\ Len(u) = m + 1 /\ \A i \in 1..m + 1 : u[i] = t[a + i - 1]
    <3>1. n + 1 \in 0..Len(t)
      BY <1>2
    <3>2. a <= n + 1 + 1 /\ n + 1 - a + 1 = m + 1
      BY <1>4, <2>2
    <3>3. /\ SubSeq(t, a, n + 1) \in Seq(S) /\ Len(SubSeq(t, a, n + 1)) = n + 1 - a + 1
          /\ \A i \in 1..n + 1 - a + 1 : SubSeq(t, a, n + 1)[i] = t[a + i - 1]
      BY <1>2, <3>1, <3>2, PartFacts
    <3> QED
      BY <2>1, <3>2, <3>3
  <2>4. v \in Seq(S) /\ Len(v) = m /\ \A i \in 1..m : v[i] = s[a + i - 1]
    <3>1. n \in 0..Len(s)
      BY <1>1
    <3> QED
      BY <1>4, <2>1, <2>2, <3>1, PartFacts
  <2>5. w \in Seq(S) /\ Len(w) = m + 1 /\ w[m + 1] = e /\ \A i \in 1..m : w[i] = v[i]
    BY <2>1, <2>4, AppendFacts
  <2>6. \A i \in 1..m + 1 : u[i] = w[i]
    <3> SUFFICES ASSUME NEW i \in 1..m + 1 PROVE u[i] = w[i]
      OBVIOUS
    <3>1. CASE i = m + 1
      <4>1. a + i - 1 = n + 1
        BY <2>2, <3>1
      <4> QED
        BY <1>2, <2>3, <2>5, <3>1, <4>1
    <3>2. CASE i # m + 1
      <4>1. i \in 1..m /\ a + i - 1 \in 1..n
        BY <2>2, <3>2
      <4> QED
        BY <1>2, <2>3, <2>4, <2>5, <4>1, ZenonT(60)
    <3> QED
      BY <3>1, <3>2
  <2> QED
    BY <2>1, <2>3, <2>5, <2>6, SeqEqual
<1> QED
  BY <1>1, <1>3, <1>4

\* Where the line that ends before the k-th character begins.
Behind(s, k) == {0} \cup {j \in 1..k - 1 : s[j] = NL}
LineBegin(s, k) == Max(Behind(s, k))

LEMMA MaxExists ==
    ASSUME NEW n \in Nat, NEW T, T \subseteq 0..n, T # {}
    PROVE  Max(T) \in T /\ \A y \in T : y <= Max(T)
<1> DEFINE U == {i \in 0..n : n - i \in T}
<1>1. U \subseteq Nat /\ U # {}
  <2>1. PICK y \in T : TRUE
    OBVIOUS
  <2>2. y \in 0..n
    OBVIOUS
  <2>3. PICK i \in 0..n : n - i = y
    <3>1. n - y \in 0..n /\ n - (n - y) = y
      BY <2>2
    <3> QED
      BY <3>1
  <2>4. i \in U
    BY <2>3
  <2>5. U \subseteq Nat
    OBVIOUS
  <2> HIDE DEF U
  <2> QED
    BY <2>4, <2>5
<1> HIDE DEF U
<1>2. PICK i \in U : \A y \in U : i <= y
  BY <1>1, LeastNumber
<1>3. PICK m : m = n - i
  OBVIOUS
<1>4. i \in 0..n /\ m \in T
  BY <1>2, <1>3 DEF U
<1>5. \A y \in T : y <= m
  <2> SUFFICES ASSUME NEW y \in T PROVE y <= m
    OBVIOUS
  <2>1. y \in 0..n
    OBVIOUS
  <2>2. n - (n - y) = y /\ n - y \in 0..n
    BY <2>1
  <2>3. n - y \in U
    BY <2>2 DEF U
  <2>4. i <= n - y
    BY <1>2, <2>3
  <2> QED
    BY <1>3, <1>4, <2>1, <2>4
<1>6. T \subseteq Int
  OBVIOUS
<1>7. Max(T) = m
  BY <1>4, <1>5, <1>6, MaxIs
<1> QED
  BY <1>4, <1>5, <1>7

LEMMA LineBegins ==
    ASSUME NEW s, NEW k \in Nat \ {0}
    PROVE  LineBegin(s, k) \in 0..k - 1
<1>1. PICK n \in Nat : n = k - 1
  OBVIOUS
<1>2. Behind(s, k) \subseteq 0..n /\ Behind(s, k) # {}
  BY <1>1 DEF Behind
<1>3. Max(Behind(s, k)) \in Behind(s, k)
  BY <1>2, MaxExists
<1> QED
  BY <1>1, <1>2, <1>3 DEF LineBegin

LEMMA LineFacts ==
    ASSUME NEW r \in Seq(Nat), NEW k \in 1..Len(r) + 1
    PROVE  Line(r, k) \in Seq(Nat) /\ Line(r, k) = SubSeq(r, 1 + LineBegin(r, k), k - 1)
<1>1. PICK n \in Nat : n = Len(r)
  BY LenProperties
<1>2. PICK a : a = 1 + LineBegin(r, k)
  OBVIOUS
<1>3. k \in Nat \ {0} /\ k - 1 \in 0..Len(r)
  BY <1>1
<1>4. LineBegin(r, k) \in 0..k - 1
  BY <1>3, LineBegins
<1>5. a \in Nat \ {0} /\ a <= k - 1 + 1
  BY <1>2, <1>3, <1>4
<1>6. SubSeq(r, a, k - 1) \in Seq(Nat)
  BY <1>3, <1>5, PartFacts
<1> QED
  BY <1>2, <1>6 DEF Line, LineBegin, Behind

\* What one more character makes of the lines.
LEMMA LinesNext ==
    ASSUME NEW r \in Seq(Nat), NEW c \in Nat, NEW t, t = Append(r, c)
    PROVE  /\ \A k \in 1..Len(r) + 1 : Line(t, k) = Line(r, k)
           /\ Current(t) = IF c = NL THEN <<>> ELSE Append(Current(r), c)
<1>1. PICK n \in Nat : n = Len(r)
  BY LenProperties
<1>2. t \in Seq(Nat) /\ Len(t) = n + 1 /\ t[n + 1] = c /\ \A k \in 1..n : t[k] = r[k]
  BY <1>1, AppendFacts
<1>3. ASSUME NEW k \in 1..n + 1 PROVE Line(t, k) = Line(r, k)
  <2>1. \A j \in 1..k - 1 : t[j] = r[j]
    <3>1. \A j \in 1..k - 1 : j \in 1..n
      OBVIOUS
    <3> QED
      BY <1>2, <3>1
  <2>2. LineBegin(t, k) = LineBegin(r, k)
    <3>1. {j \in 1..k - 1 : t[j] = NL} = {j \in 1..k - 1 : r[j] = NL}
      BY <2>1
    <3> QED
      BY <3>1 DEF LineBegin, Behind
  <2>3. LineBegin(r, k) \in 0..k - 1
    BY LineBegins
  <2>4. PICK a : a = 1 + LineBegin(r, k)
    OBVIOUS
  <2>5. a \in Nat \ {0} /\ a <= k - 1 + 1 /\ k - 1 \in 0..Len(r)
    BY <1>1, <2>3, <2>4
  <2>6. SubSeq(t, a, k - 1) = SubSeq(r, a, k - 1)
    BY <2>5, PartNext
  <2>7. k \in 1..Len(r) + 1 /\ k \in 1..Len(t) + 1
    BY <1>1, <1>2
  <2> QED
    BY <1>2, <2>2, <2>4, <2>6, <2>7, LineFacts
<1>4. Current(t) = SubSeq(t, 1 + LineBegin(t, n + 2), n + 1)
  <2>1. n + 2 \in 1..Len(t) + 1 /\ Len(t) + 1 = n + 2 /\ n + 2 - 1 = n + 1
    BY <1>2
  <2>2. PICK k \in 1..Len(t) + 1 : k = n + 2
    BY <2>1
  <2>3. t \in Seq(Nat)
    BY <1>2
  <2>4. Line(t, k) = SubSeq(t, 1 + LineBegin(t, k), k - 1)
    BY <2>3, LineFacts
  <2> QED
    <3>1. Len(t) + 1 = k
      BY <1>2, <2>2
    <3>2. Current(t) = Line(t, k)
      BY <3>1 DEF Current
    <3>3. k - 1 = n + 1
      BY <2>2
    <3> QED
      BY <2>2, <2>4, <3>2, <3>3
<1>5. CASE c = NL
  <2>1. Behind(t, n + 2) \subseteq Int /\ n + 1 \in Behind(t, n + 2) /\ \A y \in Behind(t, n + 2) : y <= n + 1
    BY <1>2, <1>5 DEF Behind
  <2>2. Max(Behind(t, n + 2)) = n + 1
    BY <2>1, MaxIs
  <2>3. LineBegin(t, n + 2) = n + 1
    BY <2>2 DEF LineBegin
  <2>4. 1 + (n + 1) \in Int /\ n + 1 \in Int /\ n + 1 < 1 + (n + 1)
    OBVIOUS
  <2>5. SubSeq(t, 1 + (n + 1), n + 1) = <<>>
    BY <2>4, SubSeqEmpty
  <2> QED
    BY <1>1, <1>3, <1>4, <1>5, <2>3, <2>5
<1>6. CASE c # NL
  <2>1. Behind(t, n + 2) = Behind(r, n + 1)
    <3>1. \A j \in 1..n + 2 - 1 : j \in 1..n + 1 - 1 \/ j = n + 1
      OBVIOUS
    <3>2. \A j \in 1..n + 1 - 1 : j \in 1..n /\ j \in 1..n + 2 - 1
      OBVIOUS
    <3> QED
      BY <1>2, <1>6, <3>1, <3>2 DEF Behind
  <2>2. LineBegin(t, n + 2) = LineBegin(r, n + 1)
    BY <2>1 DEF LineBegin
  <2>3. LineBegin(r, n + 1) \in 0..n + 1 - 1
    BY LineBegins
  <2>4. PICK a : a = 1 + LineBegin(r, n + 1)
    OBVIOUS
  <2>5. a \in Nat \ {0} /\ a <= Len(r) + 1
    BY <1>1, <2>3, <2>4
  <2>6. SubSeq(t, a, n + 1) = Append(SubSeq(r, a, n), c)
    BY <1>1, <2>5, PartNext, SMTT(60)
  <2>7. Current(r) = SubSeq(r, a, n)
    <3>1. n + 1 \in 1..Len(r) + 1 /\ n + 1 - 1 = n
      BY <1>1
    <3> QED
      BY <1>1, <2>4, <3>1, LineFacts, SMTT(60) DEF Current
  <2> QED
    BY <1>1, <1>3, <1>4, <1>6, <2>2, <2>4, <2>6, <2>7
<1> QED
  BY <1>5, <1>6

LEMMA CurrentFacts ==
    ASSUME NEW r \in Seq(Nat)
    PROVE  /\ Current(r) \in Seq(Nat)
           /\ (Current(r) # <<>>) <=> (r # <<>> /\ Last(r) # NL)
<1>1. PICK n \in Nat : n = Len(r)
  BY LenProperties
<1>2. Current(r) \in Seq(Nat)
  <2>1. n + 1 \in 1..Len(r) + 1
    BY <1>1
  <2> QED
    BY <1>1, <2>1, LineFacts DEF Current
<1>3. CASE r = <<>>
  <2>1. n = 0
    BY <1>1, <1>3, EmptySeq
  <2>2. LineBegin(r, n + 1) \in 0..n + 1 - 1
    BY LineBegins
  <2>3. LineBegin(r, 1) = 0
    BY <2>1, <2>2
  <2>4. Current(r) = SubSeq(r, 1, 0)
    BY <1>1, <2>1, <2>3, LineFacts DEF Current
  <2>5. SubSeq(r, 1, 0) = <<>>
    BY SubSeqEmpty
  <2> QED
    BY <1>2, <1>3, <2>4, <2>5
<1>4. CASE r # <<>>
  <2>1. PICK f \in Seq(Nat), c \in Nat : r = Append(f, c)
    BY <1>4, SequenceEmptyOrAppend
  <2>2. Current(r) = IF c = NL THEN <<>> ELSE Append(Current(f), c)
    BY <2>1, LinesNext
  <2>3. Last(r) = c
    BY <2>1, AppendFacts DEF Last
  <2>4. Current(f) \in Seq(Nat)
    <3>0. Len(f) \in Nat
      BY LenProperties
    <3>1. PICK k \in 1..Len(f) + 1 : k = Len(f) + 1
      BY <3>0
    <3>2. Line(f, k) \in Seq(Nat)
      BY LineFacts
    <3> QED
      BY <3>1, <3>2 DEF Current
  <2>5. Append(Current(f), c) # <<>>
    <3>1. PICK x \in Seq(Nat) : x = Current(f)
      BY <2>4
    <3>2. Append(x, c) \in Seq(Nat) /\ Append(x, c) # <<>>
      BY AppendFacts
    <3> QED
      BY <3>1, <3>2
  <2> QED
    BY <1>2, <1>4, <2>2, <2>3, <2>5
<1> QED
  BY <1>3, <1>4

-----------------------------------------------------------------------------
(* dd: records, as block and unblock write them                            *)

LEMMA OptionsAre ==
    ASSUME ddopt \in DdOptions
    PROVE  /\ cbs \in Nat /\ ibs \in Nat \ {0} /\ obs \in Nat \ {0}
           /\ ddopt.conv \in {"none", "block", "unblock"} /\ (ddopt.conv # "none" => cbs > 0)
<1>1. /\ {ddopt.ibs, ddopt.obs} \subseteq Nat \ {0} /\ {ddopt.bs, ddopt.cbs} \subseteq Nat
      /\ ddopt.conv \in {"none", "block", "unblock"} /\ (ddopt.conv # "none" => ddopt.cbs > 0)
  BY DdAssumption
<1> QED
  BY <1>1 DEF cbs, ibs, obs

LEMMA MinOfTwo ==
    ASSUME NEW m \in Int, NEW n \in Int
    PROVE  Min({m, n}) = IF m <= n THEN m ELSE n
<1>1. {m, n} \subseteq Int
  OBVIOUS
<1>2. CASE m <= n
  <2>1. m \in {m, n} /\ \A y \in {m, n} : m <= y
    BY <1>2
  <2>2. Min({m, n}) = m
    BY <1>1, <2>1, MinIs
  <2> QED
    BY <1>2, <2>2
<1>3. CASE ~(m <= n)
  <2>1. n \in {m, n} /\ \A y \in {m, n} : n <= y
    BY <1>3
  <2>2. Min({m, n}) = n
    BY <1>1, <2>1, MinIs
  <2> QED
    BY <1>3, <2>2
<1> QED
  BY <1>2, <1>3

LEMMA CroppedFacts ==
    ASSUME ddopt \in DdOptions, NEW s \in Seq(Nat)
    PROVE  /\ Cropped(s) \in Seq(Nat) /\ Len(Cropped(s)) <= cbs
           /\ Len(s) <= cbs => Cropped(s) = s
           /\ Len(s) >= cbs => \A c \in Nat : Cropped(Append(s, c)) = Cropped(s)
<1>1. PICK n \in Nat, m \in Nat : n = Len(s) /\ m = cbs
  BY LenProperties, OptionsAre
<1>2. PICK b : b = IF m <= n THEN m ELSE n
  OBVIOUS
<1>3. Min({m, n}) = b
  BY <1>2, MinOfTwo
<1>4. Cropped(s) = SubSeq(s, 1, b)
  BY <1>1, <1>3 DEF Cropped
<1>5. b \in 0..n /\ b <= m
  BY <1>2
<1>6. Cropped(s) \in Seq(Nat) /\ Len(Cropped(s)) = b
  <2>1. SubSeq(s, 1, b) \in Seq(Nat) /\ Len(SubSeq(s, 1, b)) = b - 1 + 1
    BY <1>1, <1>5, PartFacts
  <2> QED
    BY <1>4, <1>5, <2>1
<1>7. n <= m => Cropped(s) = s
  <2>1. SubSeq(s, 1, n) = s
    BY <1>1, SubSeqFull
  <2>2. n <= m => b = n
    BY <1>2
  <2> QED
    BY <1>4, <2>1, <2>2
<1>8. ASSUME n >= m, NEW c \in Nat PROVE Cropped(Append(s, c)) = Cropped(s)
  <2>1. PICK t : t = Append(s, c)
    OBVIOUS
  <2>2. t \in Seq(Nat) /\ Len(t) = n + 1
    BY <1>1, <2>1, AppendFacts
  <2>3. Min({m, n + 1}) = m
    <3>1. n + 1 \in Int /\ m <= n + 1
      BY <1>8
    <3> QED
      BY <3>1, MinOfTwo
  <2>4. Cropped(t) = SubSeq(t, 1, m)
    BY <1>1, <2>2, <2>3 DEF Cropped
  <2>5. b = m
    BY <1>2, <1>8
  <2>6. SubSeq(t, 1, m) = SubSeq(s, 1, m)
    BY <1>1, <1>5, <2>1, <2>5, PartNext
  <2> QED
    BY <1>4, <2>1, <2>4, <2>5, <2>6
<1> QED
  BY <1>1, <1>5, <1>6, <1>7, <1>8

LEMMA PaddedType ==
    ASSUME ddopt \in DdOptions, NEW s \in Seq(Nat), Len(s) <= cbs
    PROVE  Padded(s) \in Seq(Nat)
<1>1. PICK n \in Nat : n = cbs - Len(s)
  BY LenProperties, OptionsAre
<1>2. Spaces(n) \in [1..n -> Nat]
  BY DEF Spaces, SP
<1>3. PICK t \in Seq(Nat) : t = Spaces(n)
  BY <1>2, FunctionIsSeq
<1>4. s \o t \in Seq(Nat)
  BY ConcatProperties
<1> QED
  BY <1>1, <1>3, <1>4 DEF Padded

LEMMA WithoutBlanksType ==
    ASSUME NEW s \in Seq(Nat)
    PROVE  WithoutBlanks(s) \in Seq(Nat)
<1>1. PICK n \in Nat : n = Len(s)
  BY LenProperties
<1>2. PICK text : text = {k \in DOMAIN s : s[k] # SP}
  OBVIOUS
<1>3. text \subseteq 0..n
  BY <1>1, <1>2, LenProperties
<1>4. PICK m : m = IF text = {} THEN 0 ELSE Max(text)
  OBVIOUS
<1>5. m \in 0..n
  <2>1. text # {} => Max(text) \in text
    BY <1>3, MaxExists
  <2> QED
    BY <1>3, <1>4, <2>1
<1>6. PICK t : t = SubSeq(s, 1, m)
  OBVIOUS
<1>7. t \in Seq(Nat)
  <2>1. 1 <= m + 1
    BY <1>5
  <2> QED
    BY <1>1, <1>5, <1>6, <2>1, PartFacts
<1>8. Append(t, NL) \in Seq(Nat)
  BY <1>7, AppendFacts DEF NL
<1>9. WithoutBlanks(s) = Append(t, NL)
  BY <1>2, <1>4, <1>6 DEF WithoutBlanks
<1> QED
  BY <1>8, <1>9

LEMMA PortionFacts ==
    ASSUME ddopt \in DdOptions, ddopt.conv # "none", NEW s \in Seq(Nat), Len(s) <= cbs
    PROVE  Portion(s) \in Portions /\ Portion(s).s = FlushedOnce(s) /\ FlushedOnce(s) \in Seq(Nat)
<1>1. FlushedOnce(s) \in Seq(Nat)
  BY PaddedType, WithoutBlanksType DEF FlushedOnce
<1>2. Len(FlushedOnce(s)) \in Nat /\ Len(WithoutBlanks(s)) + 1 \in Nat
  BY <1>1, WithoutBlanksType, LenProperties
<1> QED
  BY <1>1, <1>2 DEF Portion, Portions

-----------------------------------------------------------------------------
(* dd: what block makes of the lines                                       *)

BlockParts(r) == [k \in 1..Len(r) |-> IF r[k] = NL THEN Padded(Cropped(Line(r, k))) ELSE <<>>]

LEMMA CutLineType ==
    ASSUME ddopt \in DdOptions, NEW r \in Seq(Nat), NEW k \in 1..Len(r) + 1
    PROVE  Padded(Cropped(Line(r, k))) \in Seq(Nat)
<1>1. PICK s \in Seq(Nat) : s = Line(r, k)
  BY LineFacts
<1>2. PICK u \in Seq(Nat) : u = Cropped(s) /\ Len(u) <= cbs
  BY CroppedFacts
<1>3. Padded(u) \in Seq(Nat)
  BY <1>2, PaddedType
<1> QED
  BY <1>1, <1>2, <1>3

LEMMA BlockPartsType ==
    ASSUME ddopt \in DdOptions, NEW r \in Seq(Nat)
    PROVE  /\ BlockParts(r) \in [1..Len(r) -> Seq(Nat)]
           /\ BlockHead(r) = FlattenSeq(BlockParts(r)) /\ BlockHead(r) \in Seq(Nat)
<1>1. PICK n \in Nat : n = Len(r)
  BY LenProperties
<1>2. \A k \in 1..n : Padded(Cropped(Line(r, k))) \in Seq(Nat)
  <2>1. \A k \in 1..n : k \in 1..Len(r) + 1
    BY <1>1
  <2> QED
    BY <2>1, CutLineType
<1>3. <<>> \in Seq(Nat)
  BY EmptySeq
<1>4. BlockParts(r) \in [1..n -> Seq(Nat)]
  BY <1>1, <1>2, <1>3 DEF BlockParts
<1>5. BlockParts(r) \in Seq(Seq(Nat))
  BY <1>4, FunctionIsSeq
<1>6. FlattenSeq(BlockParts(r)) \in Seq(Nat)
  BY <1>3, <1>5, FlattenMore
<1> QED
  BY <1>1, <1>4, <1>6 DEF BlockHead, BlockParts

LEMMA BlockHeadNext ==
    ASSUME ddopt \in DdOptions, NEW r \in Seq(Nat), NEW c \in Nat
    PROVE  BlockHead(Append(r, c)) =
               BlockHead(r) \o (IF c = NL THEN Padded(Cropped(Current(r))) ELSE <<>>)
<1>1. PICK n \in Nat : n = Len(r)
  BY LenProperties
<1>2. PICK t : t = Append(r, c)
  OBVIOUS
<1>3. t \in Seq(Nat) /\ Len(t) = n + 1 /\ t[n + 1] = c /\ \A k \in 1..n : t[k] = r[k]
  BY <1>1, <1>2, AppendFacts
<1>4. \A k \in 1..n + 1 : Line(t, k) = Line(r, k)
  BY <1>1, <1>2, LinesNext
<1>5. PICK p, q : p = BlockParts(r) /\ q = BlockParts(t)
  OBVIOUS
<1>6. p \in [1..n -> Seq(Nat)] /\ q \in [1..n + 1 -> Seq(Nat)]
  <2>1. q \in [1..Len(t) -> Seq(Nat)]
    BY <1>3, <1>5, BlockPartsType
  <2> QED
    BY <1>1, <1>3, <1>5, <2>1, BlockPartsType
<1>7. ASSUME NEW k \in 1..n PROVE q[k] = p[k]
  <2>1. k \in 1..n + 1
    OBVIOUS
  <2> QED
    BY <1>1, <1>3, <1>4, <1>5, <2>1 DEF BlockParts
<1>8. q[n + 1] = IF c = NL THEN Padded(Cropped(Current(r))) ELSE <<>>
  <2>1. n + 1 \in 1..n + 1 /\ Current(r) = Line(r, n + 1)
    BY <1>1 DEF Current
  <2> QED
    BY <1>3, <1>4, <1>5, <2>1 DEF BlockParts
<1>9. FlattenSeq(q) = FlattenSeq(p) \o q[n + 1]
  BY <1>6, <1>7, FlattenNext
<1>10. BlockHead(r) = FlattenSeq(p) /\ BlockHead(t) = FlattenSeq(q)
  BY <1>3, <1>5, BlockPartsType
<1> QED
  BY <1>2, <1>8, <1>9, <1>10

LEMMA EndsAre ==
    ASSUME NEW r \in Seq(Nat)
    PROVE  LineEnds(r) = {k \in 1..Len(r) : r[k] = NL}
                             \cup (IF Current(r) # <<>> THEN {Len(r) + 1} ELSE {})
BY CurrentFacts DEF LineEnds

LEMMA BlockReference ==
    ASSUME ddopt \in DdOptions, ddopt.conv = "block", NEW r \in Seq(Nat)
    PROVE  Reference(r) = BlockHead(r) \o (IF Current(r) # <<>> THEN Padded(Cropped(Current(r))) ELSE <<>>)
<1>1. PICK n \in Nat : n = Len(r)
  BY LenProperties
<1>2. PICK q : q = [k \in 1..n + 1 |-> IF k \in LineEnds(r) THEN Padded(Cropped(Line(r, k))) ELSE <<>>]
  OBVIOUS
<1>3. q \in [1..n + 1 -> Seq(Nat)]
  BY <1>1, <1>2, CutLineType, EmptySeq
<1>4. \A k \in 1..n + 1 : k \in LineEnds(r) <=> IF k = n + 1 THEN Current(r) # <<>> ELSE r[k] = NL
  BY <1>1, EndsAre
<1>5. PICK p : p = BlockParts(r)
  OBVIOUS
<1>6. p \in [1..n -> Seq(Nat)] /\ BlockHead(r) = FlattenSeq(p)
  BY <1>1, <1>5, BlockPartsType
<1>7. ASSUME NEW k \in 1..n PROVE q[k] = p[k]
  <2>1. k \in 1..n + 1 /\ k # n + 1
    OBVIOUS
  <2> QED
    BY <1>1, <1>2, <1>4, <1>5, <2>1 DEF BlockParts
<1>8. q[n + 1] = IF Current(r) # <<>> THEN Padded(Cropped(Current(r))) ELSE <<>>
  <2>1. n + 1 \in 1..n + 1 /\ Current(r) = Line(r, n + 1)
    BY <1>1 DEF Current
  <2>2. n + 1 \in LineEnds(r) <=> Current(r) # <<>>
    BY <1>4, <2>1
  <2>3. q[n + 1] = IF n + 1 \in LineEnds(r) THEN Padded(Cropped(Line(r, n + 1))) ELSE <<>>
    BY <1>2, <2>1
  <2>4. CASE Current(r) # <<>>
    BY <2>1, <2>2, <2>3, <2>4
  <2>5. CASE ~(Current(r) # <<>>)
    <3>1. q[n + 1] = <<>>
      BY <2>2, <2>3, <2>5
    <3> QED
      BY <2>5, <3>1
  <2> QED
    BY <2>4, <2>5
<1>9. FlattenSeq(q) = FlattenSeq(p) \o q[n + 1]
  <2>1. p \in [1..n -> Seq(Nat)] /\ q \in [1..n + 1 -> Seq(Nat)]
    BY <1>3, <1>6
  <2> QED
    BY <1>7, <2>1, FlattenNext, ZenonT(60)
<1>10. Reference(r) = FlattenSeq(q)
  BY <1>1, <1>2 DEF Reference
<1> QED
  BY <1>6, <1>8, <1>9, <1>10

\* The lines that are too long and have ended.
LongBefore(r) == {k \in 1..Len(r) : r[k] = NL /\ Len(Line(r, k)) > cbs}

LEMMA FiniteBelow ==
    ASSUME NEW n \in Nat, NEW T, T \subseteq 1..n
    PROVE  IsFiniteSet(T) /\ Cardinality(T) \in Nat
<1>1. IsFiniteSet(1..n)
  BY FS_Interval
<1>2. IsFiniteSet(T)
  BY <1>1, FS_Subset
<1> QED
  BY <1>2, FS_CardinalityType

LEMMA LongLinesAre ==
    ASSUME ddopt \in DdOptions, NEW r \in Seq(Nat)
    PROVE  /\ Cardinality(LongBefore(r)) \in Nat
           /\ Cardinality(TooLongLines(r)) =
                  Cardinality(LongBefore(r)) + (IF Len(Current(r)) > cbs THEN 1 ELSE 0)
<1>1. PICK n \in Nat : n = Len(r)
  BY LenProperties
<1>2. LongBefore(r) \subseteq 1..n
  BY <1>1 DEF LongBefore
<1>3. IsFiniteSet(LongBefore(r)) /\ Cardinality(LongBefore(r)) \in Nat
  BY <1>2, FiniteBelow
<1>4. Current(r) = Line(r, n + 1)
  BY <1>1 DEF Current
<1>5. Len(Current(r)) > cbs => Current(r) # <<>>
  BY OptionsAre, EmptySeq
<1>6. LineEnds(r) = {k \in 1..n : r[k] = NL} \cup (IF Current(r) # <<>> THEN {n + 1} ELSE {})
  BY <1>1, EndsAre
<1>7. TooLongLines(r) = LongBefore(r) \cup (IF Len(Current(r)) > cbs THEN {n + 1} ELSE {})
  BY <1>1, <1>4, <1>5, <1>6 DEF TooLongLines, LongBefore
<1>8. n + 1 \notin LongBefore(r)
  BY <1>2
<1>9. Cardinality(LongBefore(r) \cup {n + 1}) = Cardinality(LongBefore(r)) + 1
  BY <1>3, <1>8, FS_AddElement
<1>10. LongBefore(r) \cup {} = LongBefore(r)
  OBVIOUS
<1>11. CASE Len(Current(r)) > cbs
  BY <1>3, <1>7, <1>9, <1>11
<1>12. CASE ~(Len(Current(r)) > cbs)
  <2>1. TooLongLines(r) = LongBefore(r)
    BY <1>7, <1>10, <1>12
  <2> QED
    BY <1>3, <1>12, <2>1
<1> QED
  BY <1>11, <1>12

LEMMA LongLinesNext ==
    ASSUME ddopt \in DdOptions, NEW r \in Seq(Nat), NEW c \in Nat
    PROVE  Cardinality(TooLongLines(Append(r, c))) =
               Cardinality(TooLongLines(r)) + (IF c # NL /\ Len(Current(r)) = cbs THEN 1 ELSE 0)
<1>1. PICK n \in Nat : n = Len(r)
  BY LenProperties
<1>2. PICK t : t = Append(r, c)
  OBVIOUS
<1>3. t \in Seq(Nat) /\ Len(t) = n + 1 /\ t[n + 1] = c /\ \A k \in 1..n : t[k] = r[k]
  BY <1>1, <1>2, AppendFacts
<1>4. /\ \A k \in 1..n + 1 : Line(t, k) = Line(r, k)
      /\ Current(t) = IF c = NL THEN <<>> ELSE Append(Current(r), c)
  BY <1>1, <1>2, LinesNext
<1>5. Current(r) = Line(r, n + 1)
  BY <1>1 DEF Current
<1>6. PICK m \in Nat, b \in Nat : m = Len(Current(r)) /\ b = cbs
  BY CurrentFacts, LenProperties, OptionsAre
<1>7. Len(Current(t)) = IF c = NL THEN 0 ELSE m + 1
  <2>1. PICK x \in Seq(Nat) : x = Current(r)
    BY CurrentFacts
  <2>2. Append(x, c) \in Seq(Nat) /\ Len(Append(x, c)) = m + 1
    BY <1>6, <2>1, AppendFacts
  <2> QED
    BY <1>4, <2>1, <2>2, EmptySeq
<1>8. LongBefore(t) = LongBefore(r) \cup (IF c = NL /\ m > b THEN {n + 1} ELSE {})
  <2>1. \A k \in 1..n + 1 : k \in 1..n \/ k = n + 1
    OBVIOUS
  <2>2. \A k \in 1..n : k \in 1..n + 1 /\ k # n + 1
    OBVIOUS
  <2> QED
    <3>1. \A k \in 1..n : k \in LongBefore(t) <=> k \in LongBefore(r)
      BY <1>1, <1>3, <1>4, <2>2 DEF LongBefore
    <3>2. n + 1 \in LongBefore(t) <=> (c = NL /\ m > b)
      <4>1. n + 1 \in 1..n + 1
        OBVIOUS
      <4> QED
        BY <1>3, <1>4, <1>5, <1>6, <4>1 DEF LongBefore
    <3>3. LongBefore(t) \subseteq 1..n + 1 /\ LongBefore(r) \subseteq 1..n /\ n + 1 \notin LongBefore(r)
      BY <1>1, <1>3 DEF LongBefore
    <3>4. CASE c = NL /\ m > b
      BY <2>1, <3>1, <3>2, <3>3, <3>4
    <3>5. CASE ~(c = NL /\ m > b)
      BY <2>1, <3>1, <3>2, <3>3, <3>5
    <3> QED
      BY <3>4, <3>5
<1>9. LongBefore(r) \subseteq 1..n
  BY <1>1 DEF LongBefore
<1>10. IsFiniteSet(LongBefore(r)) /\ Cardinality(LongBefore(r)) \in Nat
  BY <1>9, FiniteBelow
<1>11. Cardinality(LongBefore(r) \cup {n + 1}) = Cardinality(LongBefore(r)) + 1
  <2>1. n + 1 \notin LongBefore(r)
    BY <1>9
  <2> QED
    BY <1>10, <2>1, FS_AddElement
<1>12. LongBefore(r) \cup {} = LongBefore(r)
  OBVIOUS
<1>13. PICK u \in Nat : u = Cardinality(LongBefore(r))
  BY <1>10
<1>14. Cardinality(LongBefore(t)) = u + (IF c = NL /\ m > b THEN 1 ELSE 0)
  <2>1. CASE c = NL /\ m > b
    BY <1>8, <1>11, <1>13, <2>1
  <2>2. CASE ~(c = NL /\ m > b)
    <3>1. LongBefore(t) = LongBefore(r)
      BY <1>8, <1>12, <2>2
    <3> QED
      BY <1>13, <2>2, <3>1
  <2> QED
    BY <2>1, <2>2
<1>15. Cardinality(TooLongLines(r)) = u + (IF m > b THEN 1 ELSE 0)
  BY <1>6, <1>13, LongLinesAre
<1>16. Cardinality(TooLongLines(t)) = Cardinality(LongBefore(t)) + (IF Len(Current(t)) > b THEN 1 ELSE 0)
  BY <1>3, <1>6, LongLinesAre
<1>17. Cardinality(TooLongLines(t)) = Cardinality(TooLongLines(r)) + (IF c # NL /\ m = b THEN 1 ELSE 0)
  BY <1>7, <1>14, <1>15, <1>16
<1> QED
  BY <1>2, <1>6, <1>17

-----------------------------------------------------------------------------
(* dd: what unblock makes of the pieces                                    *)

LEMMA EmptyTwice == <<>> \o <<>> = <<>>
<1>1. <<>> \in Seq(Nat)
  BY EmptySeq
<1> QED
  BY <1>1, ConcatEmptySeq

LEMMA Division ==
    ASSUME NEW k \in Nat, NEW c \in Nat \ {0}
    PROVE  k % c \in 0..c - 1 /\ \E q \in Int : k = c * q + (k % c)
<1>1. k \div c \in Int /\ k = c * (k \div c) + (k % c)
  OBVIOUS
<1>2. k % c \in 0..c - 1
  OBVIOUS
<1>3. PICK q \in Int : q = k \div c
  BY <1>1
<1>4. k = c * q + (k % c)
  BY <1>1, <1>3
<1> QED
  BY <1>2, <1>4

LEMMA RemainderUnique ==
    ASSUME NEW c \in Nat \ {0}, NEW q \in Int, NEW p \in Int, NEW r \in 0..c - 1, NEW t \in 0..c - 1,
           c * q + r = c * p + t
    PROVE  r = t
<1>1. c * (q - p) = t - r
  OBVIOUS
<1>2. PICK d \in Int : d = q - p
  OBVIOUS
<1>3. c * d = t - r
  BY <1>1, <1>2
<1>4. d >= 1 => c * d >= c
  OBVIOUS
<1>5. d <= -1 => c * d <= -c
  OBVIOUS
<1>6. d = 0
  BY <1>3, <1>4, <1>5
<1> QED
  BY <1>3, <1>6

LEMMA RemainderNext ==
    ASSUME NEW k \in Nat, NEW c \in Nat \ {0}
    PROVE  /\ k % c \in 0..c - 1
           /\ (k + 1) % c = IF (k % c) + 1 = c THEN 0 ELSE (k % c) + 1
<1>1. PICK r \in 0..c - 1, q \in Int : r = k % c /\ k = c * q + r
  BY Division
<1>2. k + 1 \in Nat
  OBVIOUS
<1>3. PICK t \in 0..c - 1, p \in Int : t = (k + 1) % c /\ k + 1 = c * p + t
  BY <1>2, Division
<1>4. CASE r + 1 = c
  <2>1. PICK u \in Int : u = q + 1
    OBVIOUS
  <2>2. c * u = c * q + c
    BY <2>1
  <2>3. c * u + 0 = c * p + t /\ 0 \in 0..c - 1
    BY <1>1, <1>3, <1>4, <2>2
  <2>4. 0 = t
    BY <2>3, RemainderUnique
  <2> QED
    BY <1>1, <1>3, <1>4, <2>4
<1>5. CASE r + 1 # c
  <2>1. PICK v \in 0..c - 1 : v = r + 1
    BY <1>5
  <2>2. c * q + v = c * p + t
    BY <1>1, <1>3, <2>1
  <2>3. v = t
    BY <2>2, RemainderUnique
  <2> QED
    BY <1>1, <1>3, <1>5, <2>1, <2>3
<1> QED
  BY <1>4, <1>5

LEMMA PieceFacts ==
    ASSUME ddopt \in DdOptions, ddopt.conv = "unblock", NEW r \in Seq(Nat), NEW k \in 1..Len(r)
    PROVE  /\ (k - 1) % cbs \in 0..cbs - 1 /\ k - ((k - 1) % cbs) \in 1..k
           /\ Piece(r, k) \in Seq(Nat) /\ Len(Piece(r, k)) = ((k - 1) % cbs) + 1
<1>1. PICK n \in Nat, b \in Nat \ {0} : n = Len(r) /\ b = cbs
  BY LenProperties, OptionsAre
<1>2. PICK j \in Nat : j = k - 1 /\ k = j + 1 /\ k \in 1..n
  BY <1>1
<1>3. PICK m \in 0..b - 1, q \in Int : m = j % b /\ j = b * q + m
  BY Division
<1>4. m <= j
  <2>1. q < 0 => b * q <= -b
    OBVIOUS
  <2>2. q >= 0 => b * q >= 0
    OBVIOUS
  <2> QED
    BY <1>2, <1>3, <2>1, <2>2, SMTT(60)
<1>5. PICK a \in Nat \ {0} : a = k - m /\ a <= k + 1 /\ a \in 1..k
  BY <1>2, <1>4
<1>6. k \in 0..Len(r)
  BY <1>1
<1>7. SubSeq(r, a, k) \in Seq(Nat) /\ Len(SubSeq(r, a, k)) = k - a + 1
  BY <1>5, <1>6, PartFacts, SMTT(60)
<1>8. (k - 1) % cbs = m
  BY <1>1, <1>2, <1>3
<1>9. Piece(r, k) = SubSeq(r, a, k)
  BY <1>5, <1>8 DEF Piece
<1>10. k - a + 1 = m + 1
  BY <1>2, <1>5
<1> QED
  BY <1>1, <1>5, <1>7, <1>8, <1>9, <1>10

LEMMA LastPieceFacts ==
    ASSUME ddopt \in DdOptions, ddopt.conv = "unblock", NEW r \in Seq(Nat)
    PROVE  /\ LastPiece(r) \in Seq(Nat) /\ Len(LastPiece(r)) <= cbs
           /\ LastPiece(r) = <<>> <=> r = <<>>
           /\ Len(LastPiece(r)) = cbs <=> (r # <<>> /\ Len(r) % cbs = 0)
<1>1. PICK n \in Nat, b \in Nat \ {0} : n = Len(r) /\ b = cbs
  BY LenProperties, OptionsAre
<1>2. CASE r = <<>>
  BY <1>1, <1>2, EmptySeq DEF LastPiece
<1>3. CASE r # <<>>
  <2>1. n \in 1..Len(r)
    BY <1>1, <1>3, EmptySeq
  <2>2. PICK m \in 0..b - 1 : m = (n - 1) % b
    BY <1>1, <2>1, PieceFacts
  <2>3. LastPiece(r) \in Seq(Nat) /\ Len(LastPiece(r)) = m + 1
    BY <1>1, <1>3, <2>1, <2>2, PieceFacts DEF LastPiece
  <2>4. n % b = IF m + 1 = b THEN 0 ELSE m + 1
    <3>1. n - 1 \in Nat /\ n - 1 + 1 = n
      BY <1>1, <2>1
    <3> QED
      BY <2>2, <3>1, RemainderNext, ZenonT(60)
  <2>5. LastPiece(r) # <<>>
    BY <2>2, <2>3, EmptySeq
  <2>6. m + 1 = b <=> n % b = 0
    BY <2>2, <2>4
  <2> QED
    BY <1>1, <1>3, <2>2, <2>3, <2>5, <2>6
<1> QED
  BY <1>2, <1>3

LEMMA PiecesNext ==
    ASSUME ddopt \in DdOptions, ddopt.conv = "unblock", NEW r \in Seq(Nat), NEW c \in Nat
    PROVE  /\ \A k \in 1..Len(r) : Piece(Append(r, c), k) = Piece(r, k)
           /\ LastPiece(Append(r, c)) = IF Len(r) % cbs = 0 THEN <<c>> ELSE Append(LastPiece(r), c)
<1>1. PICK n \in Nat, b \in Nat \ {0} : n = Len(r) /\ b = cbs
  BY LenProperties, OptionsAre
<1>2. PICK t : t = Append(r, c)
  OBVIOUS
<1>3. t \in Seq(Nat) /\ Len(t) = n + 1 /\ t # <<>> /\ n + 1 \in 1..Len(t)
  <2>1. t \in Seq(Nat) /\ Len(t) = n + 1 /\ t # <<>>
    BY <1>1, <1>2, AppendFacts
  <2> QED
    BY <2>1
<1>4. ASSUME NEW k \in 1..n PROVE Piece(t, k) = Piece(r, k)
  <2>1. PICK a : a = k - ((k - 1) % cbs)
    OBVIOUS
  <2>2. k \in 1..Len(r)
    BY <1>1
  <2>3. a \in 1..k
    BY <2>1, <2>2, PieceFacts
  <2>4. a \in Nat \ {0} /\ a <= k + 1 /\ k \in 0..Len(r)
    BY <1>1, <2>3
  <2>5. SubSeq(t, a, k) = SubSeq(r, a, k)
    BY <1>2, <2>4, PartNext
  <2> QED
    BY <2>1, <2>5 DEF Piece
<1>5. PICK m \in 0..b - 1 : m = n % b
  BY Division
<1>6. LastPiece(t) = SubSeq(t, n + 1 - m, n + 1)
  <2>1. n + 1 - 1 = n
    OBVIOUS
  <2>2. LastPiece(t) = Piece(t, n + 1)
    BY <1>3 DEF LastPiece
  <2>3. (n + 1 - 1) % cbs = m
    BY <1>1, <1>5, <2>1
  <2> QED
    BY <2>2, <2>3 DEF Piece
<1>7. CASE m = 0
  <2>1. n + 1 \in Nat \ {0} /\ n + 1 <= Len(r) + 1 /\ n + 1 - 0 = n + 1
    BY <1>1
  <2>2. SubSeq(t, n + 1, n + 1) = Append(SubSeq(r, n + 1, n), c)
    BY <1>1, <1>2, <2>1, PartNext
  <2>3. SubSeq(r, n + 1, n) = <<>>
    BY SubSeqEmpty
  <2>4. LastPiece(t) = <<c>>
    <3>1. LastPiece(t) = SubSeq(t, n + 1, n + 1)
      BY <1>6, <1>7, <2>1
    <3>2. Append(<<>>, c) = <<c>>
      OBVIOUS
    <3> QED
      BY <2>2, <2>3, <3>1, <3>2
  <2> QED
    BY <1>1, <1>2, <1>4, <1>5, <1>7, <2>4
<1>8. CASE m # 0
  <2>1. n # 0
    <3>1. 0 % b = 0
      OBVIOUS
    <3> QED
      BY <1>5, <1>8, <3>1
  <2>2. n \in 1..Len(r) /\ r # <<>>
    BY <1>1, <2>1, EmptySeq
  <2>3. PICK l \in 0..b - 1 : l = (n - 1) % b /\ n - l \in 1..n
    BY <1>1, <2>2, PieceFacts
  <2>4. m = l + 1
    <3>1. n - 1 \in Nat /\ n - 1 + 1 = n
      BY <2>1
    <3>2. n % b = IF l + 1 = b THEN 0 ELSE l + 1
      BY <2>3, <3>1, RemainderNext, ZenonT(60)
    <3> QED
      BY <1>5, <1>8, <3>2
  <2>5. PICK a : a = n - l
    OBVIOUS
  <2>6. a \in Nat \ {0} /\ a <= Len(r) + 1 /\ n + 1 - m = a
    BY <1>1, <2>3, <2>4, <2>5
  <2>7. SubSeq(t, a, n + 1) = Append(SubSeq(r, a, n), c)
    <3>1. r \in Seq(Nat) /\ c \in Nat /\ t = Append(r, c) /\ a \in Nat \ {0} /\ a <= Len(r) + 1
      BY <1>2, <2>6
    <3>2. a <= Len(r) + 1 => SubSeq(t, a, Len(r) + 1) = Append(SubSeq(r, a, Len(r)), c)
      BY <3>1, PartNext, ZenonT(60)
    <3> QED
      BY <1>1, <3>1, <3>2, Zenon
  <2>8. LastPiece(r) = SubSeq(r, a, n)
    BY <1>1, <2>2, <2>3, <2>5 DEF LastPiece, Piece
  <2> QED
    BY <1>1, <1>2, <1>4, <1>5, <1>6, <1>8, <2>6, <2>7, <2>8
<1> QED
  BY <1>7, <1>8

\* The pieces that end before the last of n characters, flushed.
UnblockParts(r, n) == [k \in 1..n |-> IF k % cbs = 0 THEN WithoutBlanks(Piece(r, k)) ELSE <<>>]

LEMMA UnblockPartsType ==
    ASSUME ddopt \in DdOptions, ddopt.conv = "unblock", NEW r \in Seq(Nat), NEW n \in Nat, n <= Len(r)
    PROVE  /\ UnblockParts(r, n) \in [1..n -> Seq(Nat)]
           /\ FlattenSeq(UnblockParts(r, n)) \in Seq(Nat)
           /\ n = 0 => FlattenSeq(UnblockParts(r, n)) = <<>>
<1>1. \A k \in 1..n : WithoutBlanks(Piece(r, k)) \in Seq(Nat)
  <2> SUFFICES ASSUME NEW k \in 1..n PROVE WithoutBlanks(Piece(r, k)) \in Seq(Nat)
    OBVIOUS
  <2>1. k \in 1..Len(r)
    BY LenProperties
  <2>2. Piece(r, k) \in Seq(Nat)
    BY <2>1, PieceFacts
  <2> QED
    BY <2>2, WithoutBlanksType
<1>2. <<>> \in Seq(Nat)
  BY EmptySeq
<1>3. UnblockParts(r, n) \in [1..n -> Seq(Nat)]
  BY <1>1, <1>2 DEF UnblockParts
<1>4. PICK p : p = UnblockParts(r, n)
  OBVIOUS
<1>5. p \in Seq(Seq(Nat)) /\ Len(p) = n
  BY <1>3, <1>4, FunctionIsSeq
<1>6. FlattenSeq(p) \in Seq(Nat)
  BY <1>2, <1>5, FlattenMore
<1>7. n = 0 => FlattenSeq(p) = <<>>
  <2> SUFFICES ASSUME n = 0 PROVE FlattenSeq(p) = <<>>
    OBVIOUS
  <2>1. p = <<>>
    BY <1>5, EmptySeq
  <2> QED
    BY <2>1, FlattenNone
<1> QED
  BY <1>3, <1>4, <1>6, <1>7

LEMMA UnblockHeadIs ==
    ASSUME ddopt \in DdOptions, ddopt.conv = "unblock", NEW r \in Seq(Nat)
    PROVE  /\ UnblockHead(r) \in Seq(Nat)
           /\ r = <<>> => UnblockHead(r) = <<>>
           /\ r # <<>> => UnblockHead(r) = FlattenSeq(UnblockParts(r, Len(r) - 1))
<1>1. PICK n \in Nat : n = Len(r)
  BY LenProperties
<1>2. CASE r # <<>>
  <2>1. n - 1 \in Nat /\ n - 1 <= Len(r)
    BY <1>1, <1>2, EmptySeq
  <2>2. UnblockHead(r) = FlattenSeq(UnblockParts(r, Len(r) - 1))
    BY DEF UnblockHead, UnblockParts
  <2>3. FlattenSeq(UnblockParts(r, n - 1)) \in Seq(Nat)
    BY <2>1, UnblockPartsType
  <2> QED
    BY <1>1, <1>2, <2>2, <2>3
<1>3. CASE r = <<>>
  <2>1. n = 0
    BY <1>1, <1>3, EmptySeq
  <2>2. 1..Len(r) - 1 = 1..0
    BY <1>1, <2>1
  <2>3. UnblockHead(r) = FlattenSeq(UnblockParts(r, 0))
    BY <2>2 DEF UnblockHead, UnblockParts
  <2>4. FlattenSeq(UnblockParts(r, 0)) = <<>> /\ FlattenSeq(UnblockParts(r, 0)) \in Seq(Nat)
    <3>1. 0 \in Nat /\ 0 <= Len(r)
      BY <1>1
    <3> QED
      BY <3>1, UnblockPartsType
  <2> QED
    BY <1>3, <2>3, <2>4
<1> QED
  BY <1>2, <1>3

LEMMA UnblockHeadNext ==
    ASSUME ddopt \in DdOptions, ddopt.conv = "unblock", NEW r \in Seq(Nat), NEW c \in Nat
    PROVE  UnblockHead(Append(r, c)) =
               UnblockHead(r) \o (IF r # <<>> /\ Len(r) % cbs = 0 THEN WithoutBlanks(LastPiece(r)) ELSE <<>>)
<1>1. PICK n \in Nat : n = Len(r)
  BY LenProperties
<1>2. PICK t : t = Append(r, c)
  OBVIOUS
<1>3. t \in Seq(Nat) /\ Len(t) = n + 1 /\ t # <<>>
  BY <1>1, <1>2, AppendFacts
<1>4. UnblockHead(t) = FlattenSeq(UnblockParts(t, n))
  <2>1. n + 1 - 1 = n
    OBVIOUS
  <2>2. UnblockHead(t) = FlattenSeq(UnblockParts(t, Len(t) - 1))
    BY <1>3, UnblockHeadIs
  <2> QED
    BY <1>3, <2>1, <2>2
<1>5. CASE r = <<>>
  <2>1. n = 0
    BY <1>1, <1>5, EmptySeq
  <2>2. FlattenSeq(UnblockParts(t, n)) = <<>>
    <3>1. n \in Nat /\ n <= Len(t)
      BY <1>3
    <3> QED
      BY <1>3, <2>1, <3>1, UnblockPartsType
  <2>3. UnblockHead(r) = <<>> /\ <<>> \o <<>> = <<>>
    BY <1>5, UnblockHeadIs, EmptyTwice
  <2> QED
    BY <1>2, <1>4, <1>5, <2>2, <2>3
<1>6. CASE r # <<>>
  <2>1. PICK m \in Nat : n = m + 1 /\ m = n - 1 /\ n \in 1..Len(r)
    <3>1. n \in Nat \ {0}
      BY <1>1, <1>6, EmptySeq
    <3>2. n - 1 \in Nat /\ n = n - 1 + 1 /\ n \in 1..Len(r)
      BY <1>1, <3>1
    <3> QED
      BY <3>2
  <2>2. PICK p, q : p = UnblockParts(r, m) /\ q = UnblockParts(t, m + 1)
    OBVIOUS
  <2>3. p \in [1..m -> Seq(Nat)] /\ q \in [1..m + 1 -> Seq(Nat)]
    <3>1. m <= Len(r) /\ m + 1 \in Nat /\ m + 1 <= Len(t)
      BY <1>1, <1>3, <2>1
    <3> QED
      BY <1>3, <2>2, <3>1, UnblockPartsType
  <2>4. ASSUME NEW k \in 1..m PROVE q[k] = p[k]
    <3>1. k \in 1..m + 1 /\ k \in 1..Len(r)
      BY <1>1, <2>1
    <3>2. Piece(t, k) = Piece(r, k)
      BY <1>2, <3>1, PiecesNext
    <3> QED
      BY <2>2, <3>1, <3>2 DEF UnblockParts
  <2>5. q[m + 1] = IF n % cbs = 0 THEN WithoutBlanks(LastPiece(r)) ELSE <<>>
    <3>1. m + 1 \in 1..m + 1
      OBVIOUS
    <3>2. Piece(t, m + 1) = LastPiece(r)
      <4>1. Piece(t, n) = Piece(r, n)
        BY <1>2, <2>1, PiecesNext
      <4>2. LastPiece(r) = Piece(r, n)
        BY <1>1, <1>6 DEF LastPiece
      <4> QED
        BY <2>1, <4>1, <4>2
    <3>3. q[m + 1] = IF (m + 1) % cbs = 0 THEN WithoutBlanks(Piece(t, m + 1)) ELSE <<>>
      BY <2>2, <3>1 DEF UnblockParts
    <3> QED
      BY <2>1, <3>2, <3>3
  <2>6. FlattenSeq(q) = FlattenSeq(p) \o q[m + 1]
    BY <2>3, <2>4, FlattenLast, Zenon
  <2>7. UnblockHead(r) = FlattenSeq(p)
    BY <1>1, <1>6, <2>1, <2>2, UnblockHeadIs
  <2> QED
    BY <1>1, <1>2, <1>4, <1>6, <2>1, <2>2, <2>5, <2>6, <2>7
<1> QED
  BY <1>5, <1>6

LEMMA UnblockReference ==
    ASSUME ddopt \in DdOptions, ddopt.conv = "unblock", NEW r \in Seq(Nat)
    PROVE  Reference(r) = UnblockHead(r) \o (IF r = <<>> THEN <<>> ELSE WithoutBlanks(LastPiece(r)))
<1>1. PICK n \in Nat : n = Len(r)
  BY LenProperties
<1>2. PICK q : q = [k \in 1..n |-> IF k % cbs = 0 \/ k = n THEN WithoutBlanks(Piece(r, k)) ELSE <<>>]
  OBVIOUS
<1>3. Reference(r) = FlattenSeq(q)
  BY <1>1, <1>2 DEF Reference
<1>4. q \in [1..n -> Seq(Nat)]
  <2>1. \A k \in 1..n : WithoutBlanks(Piece(r, k)) \in Seq(Nat)
    BY <1>1, PieceFacts, WithoutBlanksType
  <2> QED
    BY <1>2, <2>1, EmptySeq
<1>5. CASE r = <<>>
  <2>1. n = 0
    BY <1>1, <1>5, EmptySeq
  <2>2. q \in Seq(Seq(Nat)) /\ Len(q) = 0
    BY <1>4, <2>1, FunctionIsSeq
  <2>3. q = <<>>
    BY <2>2, EmptySeq
  <2>4. UnblockHead(r) = <<>> /\ <<>> \o <<>> = <<>>
    BY <1>5, UnblockHeadIs, EmptyTwice
  <2> QED
    BY <1>3, <1>5, <2>3, <2>4, FlattenNone
<1>6. CASE r # <<>>
  <2>1. PICK m \in Nat : n = m + 1 /\ m = n - 1
    <3>1. n \in Nat \ {0}
      BY <1>1, <1>6, EmptySeq
    <3>2. n - 1 \in Nat /\ n = n - 1 + 1
      BY <3>1
    <3> QED
      BY <3>2
  <2>2. PICK p : p = UnblockParts(r, m)
    OBVIOUS
  <2>3. p \in [1..m -> Seq(Nat)] /\ q \in [1..m + 1 -> Seq(Nat)]
    <3>1. m <= Len(r)
      BY <1>1, <2>1
    <3> QED
      BY <1>4, <2>1, <2>2, <3>1, UnblockPartsType
  <2>4. ASSUME NEW k \in 1..m PROVE q[k] = p[k]
    <3>1. k \in 1..n /\ k # n
      BY <2>1
    <3> QED
      BY <1>2, <2>2, <3>1 DEF UnblockParts
  <2>5. q[m + 1] = WithoutBlanks(LastPiece(r))
    <3>1. n \in 1..n /\ LastPiece(r) = Piece(r, n)
      BY <1>1, <1>6, <2>1 DEF LastPiece
    <3> QED
      BY <1>2, <2>1, <3>1
  <2>6. FlattenSeq(q) = FlattenSeq(p) \o q[m + 1]
    BY <2>3, <2>4, FlattenLast, Zenon
  <2>7. UnblockHead(r) = FlattenSeq(p)
    BY <1>1, <1>6, <2>1, <2>2, UnblockHeadIs
  <2> QED
    BY <1>3, <1>6, <2>5, <2>6, <2>7
<1> QED
  BY <1>5, <1>6

-----------------------------------------------------------------------------
(* dd: one character converted                                             *)

ConvStates == [blok : Seq(Nat), trunc : 0..2, lost : Nat, out : Seq(Portions)]

\* What the conversion has come to when r has been read and base has been passed on.
GoesWith(st, base, r) ==
    /\ st \in ConvStates
    /\ Together(st.blok, st.trunc, r)
    /\ base \o Texts(st.out) = Converted(st.trunc, r)
    /\ ddopt.conv = "block" => st.lost = Cardinality(TooLongLines(r))

LEMMA JoinThree ==
    ASSUME NEW s \in Seq(Nat), NEW t \in Seq(Nat), NEW u \in Seq(Nat)
    PROVE  (s \o t) \o u = s \o (t \o u)
<1>1. s \in Seq(Nat) /\ t \in Seq(Nat) /\ u \in Seq(Nat)
  OBVIOUS
<1> QED
  BY <1>1, ConcatAssociative, SMTT(60)

LEMMA JoinType ==
    ASSUME NEW s \in Seq(Nat), NEW t \in Seq(Nat)
    PROVE  s \o t \in Seq(Nat)
<1>1. s \in Seq(Nat) /\ t \in Seq(Nat)
  OBVIOUS
<1> QED
  BY <1>1, ConcatProperties

LEMMA JoinEmpty ==
    ASSUME NEW s \in Seq(Nat)
    PROVE  s \o <<>> = s /\ <<>> \o s = s
<1>1. s \in Seq(Nat)
  OBVIOUS
<1> QED
  BY <1>1, ConcatEmptySeq

LEMMA OneMorePortion ==
    ASSUME ddopt \in DdOptions, ddopt.conv # "none", NEW base \in Seq(Nat), NEW q \in Seq(Portions),
           NEW s \in Seq(Nat), Len(s) <= cbs
    PROVE  /\ Append(q, Portion(s)) \in Seq(Portions)
           /\ base \o Texts(Append(q, Portion(s))) = (base \o Texts(q)) \o FlushedOnce(s)
<1>1. PICK p \in Portions : p = Portion(s) /\ p.s = FlushedOnce(s) /\ FlushedOnce(s) \in Seq(Nat)
  BY PortionFacts
<1>2. Append(q, p) \in Seq(Portions)
  BY AppendFacts
<1>3. Texts(Append(q, p)) = Texts(q) \o p.s /\ Texts(q) \in Seq(Nat)
  BY TextsFacts
<1>4. PICK u \in Seq(Nat), v \in Seq(Nat) : u = Texts(q) /\ v = p.s
  BY <1>1, <1>3
<1>6. (base \o u) \o v = base \o (u \o v)
  BY JoinThree, ZenonT(60)
<1> QED
  BY <1>1, <1>2, <1>3, <1>4, <1>6

LEMMA GoesIs ==
    ASSUME NEW base, NEW t, NEW s \in Seq(Nat), NEW k \in 0..2, NEW d \in Nat,
           NEW o \in Seq(Portions), Together(s, k, t), base \o Texts(o) = Converted(k, t),
           ddopt.conv = "block" => d = Cardinality(TooLongLines(t))
    PROVE  GoesWith([blok |-> s, trunc |-> k, lost |-> d, out |-> o], base, t)
<1>1. PICK st : st = [blok |-> s, trunc |-> k, lost |-> d, out |-> o]
  OBVIOUS
<1>2. st \in ConvStates /\ st.blok = s /\ st.trunc = k /\ st.lost = d /\ st.out = o
  BY <1>1 DEF ConvStates
<1> QED
  BY <1>1, <1>2 DEF GoesWith

LEMMA BlockStarts ==
    ASSUME ddopt \in DdOptions, ddopt.conv = "block", NEW base, NEW t \in Seq(Nat), NEW s \in Seq(Nat),
           NEW d \in Nat, NEW o \in Seq(Portions), s = Current(t), Len(s) < cbs,
           base \o Texts(o) = BlockHead(t), d = Cardinality(TooLongLines(t))
    PROVE  GoesWith([blok |-> s, trunc |-> 0, lost |-> d, out |-> o], base, t)
<1>1. Len(Current(t)) # cbs /\ ~(Len(Current(t)) > cbs)
  BY LenProperties, OptionsAre
<1>2. Together(s, 0, t)
  BY <1>1 DEF Together
<1>3. base \o Texts(o) = Converted(0, t)
  <2>1. PICK g \in Seq(Nat) : g = BlockHead(t)
    BY BlockPartsType
  <2>2. g \o <<>> = g
    BY JoinEmpty
  <2> QED
    BY <2>1, <2>2 DEF Converted
<1>4. 0 \in 0..2
  OBVIOUS
<1> QED
  BY <1>2, <1>3, <1>4, GoesIs, Zenon

LEMMA BlockPasses ==
    ASSUME ddopt \in DdOptions, ddopt.conv = "block", NEW base, NEW t \in Seq(Nat),
           NEW d \in Nat, NEW o \in Seq(Portions),
           base \o Texts(o) = BlockHead(t) \o Padded(Cropped(Current(t))), d = Cardinality(TooLongLines(t))
    PROVE  /\ Len(Current(t)) = cbs => GoesWith([blok |-> <<>>, trunc |-> 1, lost |-> d, out |-> o], base, t)
           /\ Len(Current(t)) > cbs => GoesWith([blok |-> <<>>, trunc |-> 2, lost |-> d, out |-> o], base, t)
<1>1. <<>> \in Seq(Nat)
  BY EmptySeq
<1>2. 1 \in 0..2 /\ 2 \in 0..2
  OBVIOUS
<1>3. base \o Texts(o) = Converted(1, t) /\ base \o Texts(o) = Converted(2, t)
  BY DEF Converted
<1>4. PICK m \in Nat, w \in Nat : m = Len(Current(t)) /\ w = cbs
  BY CurrentFacts, LenProperties, OptionsAre
<1>5. m = w => Together(<<>>, 1, t)
  BY <1>4 DEF Together
<1>6. m > w => Together(<<>>, 2, t)
  BY <1>4 DEF Together
<1>7. Len(Current(t)) = cbs => GoesWith([blok |-> <<>>, trunc |-> 1, lost |-> d, out |-> o], base, t)
  BY <1>1, <1>2, <1>3, <1>4, <1>5, GoesIs, Zenon
<1>8. Len(Current(t)) > cbs => GoesWith([blok |-> <<>>, trunc |-> 2, lost |-> d, out |-> o], base, t)
  BY <1>1, <1>2, <1>3, <1>4, <1>6, GoesIs, Zenon
<1> QED
  BY <1>7, <1>8

LEMMA BlockWent ==
    ASSUME ddopt \in DdOptions, ddopt.conv = "block", NEW base, NEW r \in Seq(Nat), NEW st,
           GoesWith(st, base, r)
    PROVE  /\ st = [blok |-> st.blok, trunc |-> st.trunc, lost |-> st.lost, out |-> st.out]
           /\ st.blok \in Seq(Nat) /\ st.trunc \in 0..2 /\ st.lost \in Nat /\ st.out \in Seq(Portions)
           /\ st.trunc = 0 => st.blok = Current(r) /\ Len(st.blok) < cbs
           /\ st.trunc # 0 => st.blok = <<>>
           /\ st.trunc = 1 <=> Len(Current(r)) = cbs
           /\ st.trunc = 2 <=> Len(Current(r)) > cbs
           /\ st.trunc = 0 => base \o Texts(st.out) = BlockHead(r)
           /\ st.trunc # 0 => base \o Texts(st.out) = BlockHead(r) \o Padded(Cropped(Current(r)))
           /\ st.lost = Cardinality(TooLongLines(r))
<1>1. /\ st = [blok |-> st.blok, trunc |-> st.trunc, lost |-> st.lost, out |-> st.out]
      /\ st.blok \in Seq(Nat) /\ st.trunc \in 0..2 /\ st.lost \in Nat /\ st.out \in Seq(Portions)
  BY DEF GoesWith, ConvStates
<1>2. PICK b, n, l, q : b = st.blok /\ n = st.trunc /\ l = st.lost /\ q = st.out
  OBVIOUS
<1>3. Together(b, n, r) /\ base \o Texts(q) = Converted(n, r) /\ l = Cardinality(TooLongLines(r))
  BY <1>2 DEF GoesWith
<1>4. /\ n = 0 => b = Current(r) /\ Len(b) < cbs
      /\ n # 0 => b = <<>>
      /\ n = 1 <=> Len(Current(r)) = cbs
      /\ n = 2 <=> Len(Current(r)) > cbs
  BY <1>3 DEF Together
<1>5. PICK g \in Seq(Nat) : g = BlockHead(r)
  BY BlockPartsType
<1>6. n = 0 => base \o Texts(q) = BlockHead(r)
  <2>1. g \o <<>> = g
    BY JoinEmpty
  <2> QED
    BY <1>3, <1>5, <2>1 DEF Converted
<1>7. n # 0 => base \o Texts(q) = BlockHead(r) \o Padded(Cropped(Current(r)))
  BY <1>3 DEF Converted
<1> QED
  BY <1>1, <1>2, <1>3, <1>4, <1>6, <1>7, Zenon

LEMMA BlockNext ==
    ASSUME ddopt \in DdOptions, ddopt.conv = "block", NEW base \in Seq(Nat), NEW r \in Seq(Nat),
           NEW c \in Nat, NEW st, GoesWith(st, base, r)
    PROVE  GoesWith(Block(st, c), base, Append(r, c))
<1>0. PICK t \in Seq(Nat) : t = Append(r, c)
  BY AppendFacts
<1>1. PICK u : t = Append(r, c) /\ u = Block(st, c)
  BY <1>0
<1>2. PICK x \in Seq(Nat), w \in Nat \ {0} : x = Current(r) /\ w = cbs
  BY CurrentFacts, OptionsAre
<1>3. PICK h \in Seq(Nat) : h = BlockHead(r)
  BY BlockPartsType
<1>4. PICK f \in Seq(Nat) : f = Padded(Cropped(x))
  <2>1. Len(r) + 1 \in 1..Len(r) + 1
    <3>1. Len(r) \in Nat
      BY LenProperties
    <3> QED
      BY <3>1
  <2> QED
    BY <1>2, <2>1, CutLineType DEF Current
<1>5. PICK b \in Seq(Nat), n \in 0..2, l \in Nat, q \in Seq(Portions) :
          /\ st = [blok |-> b, trunc |-> n, lost |-> l, out |-> q]
          /\ n = 0 => b = x /\ Len(b) < w
          /\ n # 0 => b = <<>>
          /\ n = 1 <=> Len(x) = w
          /\ n = 2 <=> Len(x) > w
          /\ n = 0 => base \o Texts(q) = h
          /\ n # 0 => base \o Texts(q) = h \o f
          /\ l = Cardinality(TooLongLines(r))
  <2>0. /\ st = [blok |-> st.blok, trunc |-> st.trunc, lost |-> st.lost, out |-> st.out]
        /\ st.blok \in Seq(Nat) /\ st.trunc \in 0..2 /\ st.lost \in Nat /\ st.out \in Seq(Portions)
        /\ st.trunc = 0 => st.blok = Current(r) /\ Len(st.blok) < cbs
        /\ st.trunc # 0 => st.blok = <<>>
        /\ st.trunc = 1 <=> Len(Current(r)) = cbs
        /\ st.trunc = 2 <=> Len(Current(r)) > cbs
        /\ st.trunc = 0 => base \o Texts(st.out) = BlockHead(r)
        /\ st.trunc # 0 => base \o Texts(st.out) = BlockHead(r) \o Padded(Cropped(Current(r)))
        /\ st.lost = Cardinality(TooLongLines(r))
    BY BlockWent, Zenon
  <2>1. PICK b, n, l, q : b = st.blok /\ n = st.trunc /\ l = st.lost /\ q = st.out
    OBVIOUS
  <2>2. /\ n = 0 => b = x /\ Len(b) < w
        /\ n # 0 => b = <<>>
        /\ n = 1 <=> Len(x) = w
        /\ n = 2 <=> Len(x) > w
        /\ n = 0 => base \o Texts(q) = h
        /\ n # 0 => base \o Texts(q) = h \o f
    BY <1>2, <1>3, <1>4, <2>0, <2>1
  <2>3. /\ b \in Seq(Nat) /\ n \in 0..2 /\ l \in Nat /\ q \in Seq(Portions)
        /\ st = [blok |-> b, trunc |-> n, lost |-> l, out |-> q] /\ l = Cardinality(TooLongLines(r))
    BY <2>0, <2>1, Zenon
  <2> QED
    BY <2>2, <2>3
<1>6. PICK m \in Nat, y \in Seq(Nat) : m = Len(x) /\ y = Append(x, c) /\ Len(y) = m + 1
  BY AppendFacts, LenProperties
<1>7. Current(t) = IF c = NL THEN <<>> ELSE y
  BY <1>1, <1>2, <1>6, LinesNext
<1>8. BlockHead(t) = IF c = NL THEN h \o f ELSE h
  <2>1. BlockHead(t) = h \o (IF c = NL THEN f ELSE <<>>)
    BY <1>1, <1>2, <1>3, <1>4, BlockHeadNext
  <2>2. h \o <<>> = h
    BY ConcatEmptySeq
  <2> QED
    BY <2>1, <2>2
<1>9. Cardinality(TooLongLines(t)) = l + (IF c # NL /\ m = w THEN 1 ELSE 0)
  BY <1>1, <1>2, <1>5, <1>6, LongLinesNext
<1>10. /\ m <= w => Cropped(x) = x
       /\ m + 1 <= w => Cropped(y) = y
       /\ m >= w => Cropped(y) = Cropped(x)
  <2>1. Len(y) <= w => Cropped(y) = y
    BY <1>2, CroppedFacts
  <2>2. (Len(x) <= w => Cropped(x) = x) /\ (Len(x) >= w => Cropped(y) = Cropped(x))
    BY <1>2, <1>6, CroppedFacts
  <2> QED
    BY <1>6, <2>1, <2>2
<1>11. <<>> \in Seq(Nat) /\ Len(<<>>) = 0
  BY EmptySeq
<1>18. /\ base \in Seq(Nat) /\ r \in Seq(Nat) /\ t \in Seq(Nat) /\ x \in Seq(Nat) /\ y \in Seq(Nat)
       /\ q \in Seq(Portions) /\ b \in Seq(Nat) /\ l \in Nat /\ l + 1 \in Nat /\ w \in Nat \ {0} /\ m \in Nat
  OBVIOUS
<1>19. t \in Seq(Nat) /\ 0 \in 0..2 /\ 1 \in 0..2 /\ 2 \in 0..2
  OBVIOUS
<1>12. CASE n = 0 /\ c = NL
  <2>1. b = x /\ m < w /\ base \o Texts(q) = h /\ Cropped(x) = x
    <3>1. b = x /\ Len(b) < w /\ base \o Texts(q) = h
      BY <1>5, <1>12, Zenon
    <3>2. m < w /\ m <= w
      BY <1>6, <3>1
    <3>3. Cropped(x) = x
      BY <1>10, <3>2, Zenon
    <3> QED
      BY <3>1, <3>2, <3>3, Zenon
  <2>2. FlushedOnce(x) = f /\ Len(x) <= cbs
    BY <1>2, <1>4, <1>6, <2>1 DEF FlushedOnce
  <2>3. PICK o \in Seq(Portions) : o = Append(q, Portion(x)) /\ base \o Texts(o) = h \o f /\ o \in Seq(Portions)
    <3>1. /\ Append(q, Portion(x)) \in Seq(Portions)
          /\ base \o Texts(Append(q, Portion(x))) = (base \o Texts(q)) \o FlushedOnce(x)
      BY <2>2, OneMorePortion, ZenonT(60)
    <3> QED
      BY <2>1, <2>2, <3>1, Zenon
  <2>4. u = [blok |-> <<>>, trunc |-> 0, lost |-> l, out |-> o]
    BY <1>1, <1>5, <1>12, <2>1, <2>3 DEF Block
  <2>5. Current(t) = <<>> /\ BlockHead(t) = h \o f /\ Cardinality(TooLongLines(t)) = l
    BY <1>7, <1>8, <1>9, <1>12
  <2>6. GoesWith([blok |-> <<>>, trunc |-> 0, lost |-> l, out |-> o], base, t)
    <3>1. /\ <<>> = Current(t) /\ Len(<<>>) < cbs /\ Len(Current(t)) # cbs /\ ~(Len(Current(t)) > cbs)
          /\ base \o Texts(o) = BlockHead(t) /\ l = Cardinality(TooLongLines(t))
      BY <1>2, <1>11, <1>18, <2>3, <2>5
    <3>2. o \in Seq(Portions) /\ l \in Nat
      OBVIOUS
    <3> QED
      BY <1>11, <3>1, <3>2, BlockStarts, Zenon
  <2> QED
    BY <1>1, <2>4, <2>6
<1>13. CASE n = 0 /\ c # NL /\ m + 1 = w
  <2>1. b = x /\ base \o Texts(q) = h /\ Len(b) = m
    BY <1>5, <1>6, <1>13
  <2>2. Len(y) = w /\ Cropped(y) = y
    BY <1>6, <1>10, <1>13
  <2>3. FlushedOnce(y) = Padded(y) /\ Len(y) <= cbs
    BY <1>2, <2>2 DEF FlushedOnce
  <2>4. PICK o \in Seq(Portions) : o = Append(q, Portion(y)) /\ base \o Texts(o) = h \o Padded(y) /\ o \in Seq(Portions)
    <3>1. /\ Append(q, Portion(y)) \in Seq(Portions)
          /\ base \o Texts(Append(q, Portion(y))) = (base \o Texts(q)) \o FlushedOnce(y)
      BY <2>3, OneMorePortion, ZenonT(60)
    <3> QED
      BY <2>1, <2>3, <3>1, Zenon
  <2>5. u = [blok |-> <<>>, trunc |-> 1, lost |-> l, out |-> o]
    BY <1>1, <1>2, <1>5, <1>6, <1>13, <2>1, <2>4 DEF Block
  <2>6. Current(t) = y /\ BlockHead(t) = h /\ Cardinality(TooLongLines(t)) = l
    BY <1>7, <1>8, <1>9, <1>13
  <2>7. GoesWith([blok |-> <<>>, trunc |-> 1, lost |-> l, out |-> o], base, t)
    <3>1. /\ Len(Current(t)) = cbs /\ ~(Len(Current(t)) > cbs)
          /\ base \o Texts(o) = BlockHead(t) \o Padded(Cropped(Current(t)))
          /\ l = Cardinality(TooLongLines(t))
      BY <1>2, <1>18, <2>2, <2>4, <2>6, SMTT(60)
    <3>2. o \in Seq(Portions) /\ l \in Nat
      OBVIOUS
    <3> QED
      BY <1>11, <3>1, <3>2, BlockPasses, Zenon
  <2> QED
    BY <1>1, <2>5, <2>7
<1>14. CASE n = 0 /\ c # NL /\ m + 1 # w
  <2>1. b = x /\ base \o Texts(q) = h /\ Len(b) = m /\ m < w
    BY <1>5, <1>6, <1>14
  <2>2. u = [blok |-> y, trunc |-> 0, lost |-> l, out |-> q]
    BY <1>1, <1>2, <1>5, <1>6, <1>14, <2>1 DEF Block
  <2>3. Current(t) = y /\ BlockHead(t) = h /\ Cardinality(TooLongLines(t)) = l
    BY <1>7, <1>8, <1>9, <1>14, <2>1
  <2>4. Len(y) < cbs
    BY <1>2, <1>6, <1>14, <1>18, <2>1
  <2>5. GoesWith([blok |-> y, trunc |-> 0, lost |-> l, out |-> q], base, t)
    <3>1. /\ y = Current(t) /\ Len(Current(t)) # cbs /\ ~(Len(Current(t)) > cbs)
          /\ base \o Texts(q) = BlockHead(t) /\ l = Cardinality(TooLongLines(t))
      BY <1>2, <1>6, <1>18, <2>1, <2>3, <2>4
    <3>2. q \in Seq(Portions) /\ l \in Nat /\ y \in Seq(Nat)
      OBVIOUS
    <3> QED
      BY <2>4, <3>1, <3>2, BlockStarts, Zenon
  <2> QED
    BY <1>1, <2>2, <2>5
<1>15. CASE n # 0 /\ c = NL
  <2>1. b = <<>> /\ base \o Texts(q) = h \o f
    BY <1>5, <1>15
  <2>2. u = [blok |-> <<>>, trunc |-> 0, lost |-> l, out |-> q]
    BY <1>1, <1>5, <1>15, <2>1 DEF Block
  <2>3. Current(t) = <<>> /\ BlockHead(t) = h \o f /\ Cardinality(TooLongLines(t)) = l
    BY <1>7, <1>8, <1>9, <1>15
  <2>4. GoesWith([blok |-> <<>>, trunc |-> 0, lost |-> l, out |-> q], base, t)
    <3>1. /\ <<>> = Current(t) /\ Len(<<>>) < cbs /\ Len(Current(t)) # cbs /\ ~(Len(Current(t)) > cbs)
          /\ base \o Texts(q) = BlockHead(t) /\ l = Cardinality(TooLongLines(t))
      BY <1>2, <1>11, <1>18, <2>1, <2>3
    <3>2. q \in Seq(Portions) /\ l \in Nat
      OBVIOUS
    <3> QED
      BY <1>11, <3>1, <3>2, BlockStarts, Zenon
  <2> QED
    BY <1>1, <2>2, <2>4
<1>16. CASE n = 1 /\ c # NL
  <2>1. b = <<>> /\ base \o Texts(q) = h \o f /\ m = w
    <3>1. n # 0 /\ Len(x) = w
      BY <1>5, <1>16
    <3>2. b = <<>> /\ base \o Texts(q) = h \o f
      BY <1>5, <3>1
    <3> QED
      BY <1>6, <3>1, <3>2
  <2>2. u = [blok |-> <<>>, trunc |-> 2, lost |-> l + 1, out |-> q]
    BY <1>1, <1>5, <1>16, <2>1 DEF Block
  <2>3. Current(t) = y /\ BlockHead(t) = h /\ Cardinality(TooLongLines(t)) = l + 1
    BY <1>7, <1>8, <1>9, <1>16, <2>1
  <2>4. Len(y) > cbs /\ Len(y) # cbs /\ Padded(Cropped(y)) = f
    BY <1>2, <1>4, <1>6, <1>10, <2>1
  <2>5. GoesWith([blok |-> <<>>, trunc |-> 2, lost |-> l + 1, out |-> q], base, t)
    <3>1. /\ Len(Current(t)) # cbs /\ Len(Current(t)) > cbs
          /\ base \o Texts(q) = BlockHead(t) \o Padded(Cropped(Current(t)))
          /\ l + 1 = Cardinality(TooLongLines(t))
      BY <2>1, <2>3, <2>4
    <3>2. q \in Seq(Portions) /\ l + 1 \in Nat
      OBVIOUS
    <3> QED
      BY <1>11, <3>1, <3>2, BlockPasses, Zenon
  <2> QED
    BY <1>1, <2>2, <2>5
<1>17. CASE n = 2 /\ c # NL
  <2>1. b = <<>> /\ base \o Texts(q) = h \o f /\ m > w
    <3>1. n # 0 /\ Len(x) > w
      BY <1>5, <1>17
    <3>2. b = <<>> /\ base \o Texts(q) = h \o f
      BY <1>5, <3>1
    <3> QED
      BY <1>6, <3>1, <3>2
  <2>2. u = [blok |-> <<>>, trunc |-> 2, lost |-> l, out |-> q]
    BY <1>1, <1>5, <1>17, <2>1 DEF Block
  <2>3. Current(t) = y /\ BlockHead(t) = h /\ Cardinality(TooLongLines(t)) = l
    BY <1>7, <1>8, <1>9, <1>17, <2>1
  <2>4. Len(y) > cbs /\ Len(y) # cbs /\ Padded(Cropped(y)) = f
    BY <1>2, <1>4, <1>6, <1>10, <2>1, SMTT(60)
  <2>5. GoesWith([blok |-> <<>>, trunc |-> 2, lost |-> l, out |-> q], base, t)
    <3>1. /\ Len(Current(t)) # cbs /\ Len(Current(t)) > cbs
          /\ base \o Texts(q) = BlockHead(t) \o Padded(Cropped(Current(t)))
          /\ l = Cardinality(TooLongLines(t))
      BY <2>1, <2>3, <2>4
    <3>2. q \in Seq(Portions) /\ l \in Nat
      OBVIOUS
    <3> QED
      BY <1>11, <3>1, <3>2, BlockPasses, Zenon
  <2> QED
    BY <1>1, <2>2, <2>5
<1> QED
  BY <1>12, <1>13, <1>14, <1>15, <1>16, <1>17

LEMMA UnblockConverts == ddopt.conv = "unblock" => ddopt.conv # "none"
  OBVIOUS

LEMMA UnblockNext ==
    ASSUME ddopt \in DdOptions, ddopt.conv = "unblock", NEW base \in Seq(Nat), NEW r \in Seq(Nat),
           NEW c \in Nat, NEW st, GoesWith(st, base, r)
    PROVE  GoesWith(Unblock(st, c), base, Append(r, c))
<1>1. PICK t, u : t = Append(r, c) /\ u = Unblock(st, c)
  OBVIOUS
<1>2. PICK b \in Seq(Nat), n \in 0..2, l \in Nat, q \in Seq(Portions) :
          st = [blok |-> b, trunc |-> n, lost |-> l, out |-> q]
  BY DEF GoesWith, ConvStates
<1>3. PICK h \in Seq(Nat), w \in Nat \ {0}, k \in Nat : h = UnblockHead(r) /\ w = cbs /\ k = Len(r)
  BY UnblockHeadIs, OptionsAre, LenProperties
<1>4. b = LastPiece(r) /\ n = 0 /\ base \o Texts(q) = h
  BY <1>2, <1>3 DEF GoesWith, Together, Converted
<1>5. Len(b) <= w /\ (b = <<>> <=> r = <<>>) /\ (Len(b) = w <=> (r # <<>> /\ k % w = 0))
  BY <1>3, <1>4, LastPieceFacts
<1>6. LastPiece(t) = IF k % w = 0 THEN <<c>> ELSE Append(b, c)
  BY <1>1, <1>3, <1>4, PiecesNext
<1>7. UnblockHead(t) = h \o (IF r # <<>> /\ k % w = 0 THEN WithoutBlanks(b) ELSE <<>>)
  BY <1>1, <1>3, <1>4, UnblockHeadNext
<1>8. t \in Seq(Nat)
  BY <1>1, AppendFacts
<1>12. base \in Seq(Nat) /\ q \in Seq(Portions) /\ b \in Seq(Nat)
  OBVIOUS
<1>9. \A s, o :
           /\ u = [blok |-> s, trunc |-> 0, lost |-> l, out |-> o]
           /\ s \in Seq(Nat) /\ o \in Seq(Portions) /\ s = LastPiece(t)
           /\ base \o Texts(o) = UnblockHead(t)
           => GoesWith(u, base, t)
  <2> SUFFICES ASSUME NEW s \in Seq(Nat), NEW o \in Seq(Portions), s = LastPiece(t),
                      base \o Texts(o) = UnblockHead(t)
               PROVE  GoesWith([blok |-> s, trunc |-> 0, lost |-> l, out |-> o], base, t)
    BY Zenon
  <2>1. Together(s, 0, t)
    BY DEF Together
  <2>2. base \o Texts(o) = Converted(0, t)
    BY DEF Converted
  <2>3. ddopt.conv # "block" /\ 0 \in 0..2 /\ l \in Nat /\ s \in Seq(Nat) /\ o \in Seq(Portions)
    OBVIOUS
  <2> QED
    BY <2>1, <2>2, <2>3, GoesIs, Zenon
<1>10. CASE Len(b) = w
  <2>1. PICK o \in Seq(Portions) : o = Append(q, Portion(b)) /\ base \o Texts(o) = h \o WithoutBlanks(b)
    <3>1. FlushedOnce(b) = WithoutBlanks(b)
      BY DEF FlushedOnce
    <3>2. Len(b) <= cbs
      BY <1>3, <1>5
    <3>3. /\ Append(q, Portion(b)) \in Seq(Portions)
          /\ base \o Texts(Append(q, Portion(b))) = (base \o Texts(q)) \o FlushedOnce(b)
      BY <3>2, UnblockConverts, OneMorePortion, Zenon
    <3> QED
      BY <1>4, <3>1, <3>3, Zenon
  <2>2. u = [blok |-> <<c>>, trunc |-> 0, lost |-> l, out |-> o]
    BY <1>1, <1>2, <1>3, <1>4, <1>10, <2>1 DEF Unblock
  <2>3. LastPiece(t) = <<c>> /\ UnblockHead(t) = h \o WithoutBlanks(b)
    BY <1>5, <1>6, <1>7, <1>10
  <2>4. <<c>> \in Seq(Nat)
    OBVIOUS
  <2> QED
    BY <1>1, <1>9, <2>1, <2>2, <2>3, <2>4
<1>11. CASE Len(b) # w
  <2>1. u = [blok |-> Append(b, c), trunc |-> 0, lost |-> l, out |-> q]
    BY <1>1, <1>2, <1>3, <1>4, <1>11 DEF Unblock
  <2>2. h \o <<>> = h /\ Append(b, c) \in Seq(Nat)
    BY ConcatEmptySeq, AppendFacts
  <2>3. UnblockHead(t) = h
    BY <1>5, <1>7, <1>11, <2>2
  <2>4. LastPiece(t) = Append(b, c)
    <3>1. CASE r = <<>>
      <4>1. b = <<>> /\ Append(b, c) = <<c>> /\ k = 0 /\ 0 % w = 0
        BY <1>3, <1>5, <3>1, EmptySeq
      <4> QED
        BY <1>6, <4>1
    <3>2. CASE r # <<>>
      BY <1>5, <1>6, <1>11, <3>2
    <3> QED
      BY <3>1, <3>2
  <2> QED
    BY <1>1, <1>4, <1>9, <2>1, <2>2, <2>3, <2>4
<1> QED
  BY <1>10, <1>11

-----------------------------------------------------------------------------
(* dd: a block converted                                                   *)

ConvStep(st, c) == IF ddopt.conv = "block" THEN Block(st, c) ELSE Unblock(st, c)
ConvFirst == [blok |-> cblok, trunc |-> ctrunc, lost |-> truncated, out |-> <<>>]

LEMMA StepGoes ==
    ASSUME ddopt \in DdOptions, ddopt.conv # "none", NEW base \in Seq(Nat), NEW r \in Seq(Nat),
           NEW c \in Nat, NEW st, GoesWith(st, base, r)
    PROVE  GoesWith(ConvStep(st, c), base, Append(r, c))
<1>1. CASE ddopt.conv = "block"
  <2>1. GoesWith(Block(st, c), base, Append(r, c))
    BY <1>1, BlockNext, Zenon
  <2> QED
    BY <1>1, <2>1, Zenon DEF ConvStep
<1>2. CASE ddopt.conv # "block"
  <2>1. ddopt.conv = "unblock"
    BY <1>2, OptionsAre
  <2>2. GoesWith(Unblock(st, c), base, Append(r, c))
    BY <2>1, UnblockNext, Zenon
  <2> QED
    BY <1>2, <2>2, Zenon DEF ConvStep
<1> QED
  BY <1>1, <1>2

LEMMA UpToNext ==
    ASSUME NEW r \in Seq(Nat), NEW d \in Seq(Nat), NEW k \in 1..Len(d)
    PROVE  /\ r \o SubSeq(d, 1, k - 1) \in Seq(Nat) /\ d[k] \in Nat
           /\ r \o SubSeq(d, 1, k) = Append(r \o SubSeq(d, 1, k - 1), d[k])
<1>1. PICK n \in Nat : n = Len(d)
  BY LenProperties
<1>2. PICK c \in Nat : c = d[k]
  BY ElementOfSeq
<1>3. PICK s : s = SubSeq(d, 1, k - 1)
  OBVIOUS
<1>4. s \in Seq(Nat) /\ Len(s) = k - 1 /\ \A i \in 1..k - 1 : s[i] = d[i]
  <2>1. k - 1 \in 0..Len(d) /\ 1 <= k - 1 + 1 /\ k - 1 - 1 + 1 = k - 1
    BY <1>1
  <2>2. \A i \in 1..k - 1 : 1 + i - 1 = i
    OBVIOUS
  <2>3. d \in Seq(Nat) /\ 1 \in Nat \ {0}
    OBVIOUS
  <2>4. /\ SubSeq(d, 1, k - 1) \in Seq(Nat) /\ Len(SubSeq(d, 1, k - 1)) = k - 1 - 1 + 1
        /\ \A i \in 1..k - 1 - 1 + 1 : SubSeq(d, 1, k - 1)[i] = d[1 + i - 1]
    BY <2>1, <2>3, PartFacts
  <2> QED
    BY <1>3, <2>1, <2>2, <2>4
<1>5. PICK u : u = SubSeq(d, 1, k)
  OBVIOUS
<1>6. u \in Seq(Nat) /\ Len(u) = k /\ \A i \in 1..k : u[i] = d[i]
  <2>1. k \in 0..Len(d) /\ 1 <= k + 1 /\ k - 1 + 1 = k
    BY <1>1
  <2>2. \A i \in 1..k : 1 + i - 1 = i
    OBVIOUS
  <2>3. d \in Seq(Nat) /\ 1 \in Nat \ {0}
    OBVIOUS
  <2>4. /\ SubSeq(d, 1, k) \in Seq(Nat) /\ Len(SubSeq(d, 1, k)) = k - 1 + 1
        /\ \A i \in 1..k - 1 + 1 : SubSeq(d, 1, k)[i] = d[1 + i - 1]
    BY <2>1, <2>3, PartFacts
  <2> QED
    BY <1>5, <2>1, <2>2, <2>4
<1>7. PICK v : v = Append(s, c)
  OBVIOUS
<1>8. v \in Seq(Nat) /\ Len(v) = k - 1 + 1 /\ v[k - 1 + 1] = c /\ \A i \in 1..k - 1 : v[i] = s[i]
  BY <1>4, <1>7, AppendFacts
<1>9. u = v
  <2>1. k - 1 + 1 = k
    BY <1>1
  <2>2. \A i \in 1..k : i = k \/ i \in 1..k - 1
    BY <1>1
  <2>3. k \in 1..k
    BY <1>1
  <2>4. \A i \in 1..k : u[i] = v[i]
    BY <1>2, <1>4, <1>6, <1>8, <2>1, <2>2, <2>3
  <2> QED
    BY <1>6, <1>8, <2>1, <2>4, SeqEqual
<1>10. r \o Append(s, c) = Append(r \o s, c)
  <2>1. r \in Seq(Nat) /\ s \in Seq(Nat) /\ c \in Nat
    BY <1>4
  <2> QED
    BY <2>1, ConcatAppend
<1>11. r \o s \in Seq(Nat)
  BY <1>4, JoinType
<1> QED
  BY <1>2, <1>3, <1>5, <1>7, <1>9, <1>10, <1>11

LEMMA OneStepGoes ==
    ASSUME ddopt \in DdOptions, ddopt.conv # "none", NEW base \in Seq(Nat), NEW r \in Seq(Nat),
           NEW d \in Seq(Nat), NEW m \in 1..Len(d), NEW st,
           GoesWith(st, base, r \o SubSeq(d, 1, m - 1))
    PROVE  GoesWith(ConvStep(st, d[m]), base, r \o SubSeq(d, 1, m))
<1>1. /\ r \o SubSeq(d, 1, m - 1) \in Seq(Nat) /\ d[m] \in Nat
      /\ r \o SubSeq(d, 1, m) = Append(r \o SubSeq(d, 1, m - 1), d[m])
  BY UpToNext, Zenon
<1>2. PICK s \in Seq(Nat), c \in Nat : s = r \o SubSeq(d, 1, m - 1) /\ c = d[m]
  BY <1>1, Zenon
<1>3. GoesWith(st, base, s)
  BY <1>2
<1>4. GoesWith(ConvStep(st, c), base, Append(s, c))
  BY <1>3, StepGoes, Zenon
<1> QED
  BY <1>1, <1>2, <1>4

\* A function that goes on step by step, as long as the steps are states.
LEMMA StepsGo ==
    ASSUME ddopt \in DdOptions, ddopt.conv # "none", NEW base \in Seq(Nat), NEW r \in Seq(Nat),
           NEW d \in Seq(Nat), NEW f, GoesWith(f[0], base, r),
           \A k \in 1..Len(d) : ConvStep(f[k - 1], d[k]) \in ConvStates => f[k] = ConvStep(f[k - 1], d[k])
    PROVE  \A k \in 0..Len(d) : GoesWith(f[k], base, r \o SubSeq(d, 1, k))
<1>1. PICK n \in Nat : n = Len(d)
  BY LenProperties
<1> DEFINE P == {k \in Nat : k <= n => GoesWith(f[k], base, r \o SubSeq(d, 1, k))}
<1>2. 0 \in P
  <2>1. SubSeq(d, 1, 0) = <<>>
    BY SubSeqEmpty
  <2>2. r \o <<>> = r
    BY JoinEmpty
  <2>3. GoesWith(f[0], base, r \o SubSeq(d, 1, 0))
    BY <2>1, <2>2
  <2> QED
    BY <2>3
<1>3. ASSUME NEW m \in 1..n, GoesWith(f[m - 1], base, r \o SubSeq(d, 1, m - 1))
      PROVE  GoesWith(f[m], base, r \o SubSeq(d, 1, m)) /\ f[m] = ConvStep(f[m - 1], d[m])
  <2>1. m \in 1..Len(d)
    BY <1>1
  <2>2. PICK st : st = f[m - 1]
    OBVIOUS
  <2>3. GoesWith(st, base, r \o SubSeq(d, 1, m - 1))
    BY <1>3, <2>2
  <2>4. GoesWith(ConvStep(st, d[m]), base, r \o SubSeq(d, 1, m))
    BY <2>1, <2>3, OneStepGoes, Zenon
  <2>5. ConvStep(st, d[m]) \in ConvStates
    BY <2>4 DEF GoesWith
  <2>6. f[m] = ConvStep(f[m - 1], d[m])
    BY <2>1, <2>2, <2>5
  <2> QED
    BY <2>2, <2>4, <2>6
<1>4. ASSUME NEW m \in Nat, m \in P PROVE m + 1 \in P
  <2> SUFFICES ASSUME m + 1 <= n PROVE GoesWith(f[m + 1], base, r \o SubSeq(d, 1, m + 1))
    OBVIOUS
  <2>1. PICK k \in 1..n : k = m + 1 /\ k - 1 = m
    OBVIOUS
  <2>2. GoesWith(f[m], base, r \o SubSeq(d, 1, m))
    BY <1>4
  <2>3. GoesWith(f[k], base, r \o SubSeq(d, 1, k))
    BY <1>3, <2>1, <2>2
  <2> QED
    BY <2>1, <2>3
<1>5. Nat \subseteq P
  <2> HIDE DEF P
  <2> QED
    BY <1>2, <1>4, SetInduction
<1>6. \A k \in 0..n : GoesWith(f[k], base, r \o SubSeq(d, 1, k))
  <2> SUFFICES ASSUME NEW k \in 0..n PROVE GoesWith(f[k], base, r \o SubSeq(d, 1, k))
    OBVIOUS
  <2>1. k \in Nat /\ k <= n
    OBVIOUS
  <2>2. k \in P
    BY <1>5, <2>1
  <2> QED
    BY <2>1, <2>2
<1> QED
  BY <1>1, <1>6

LEMMA ConvertGoes ==
    ASSUME ddopt \in DdOptions, NEW base \in Seq(Nat), NEW r \in Seq(Nat), NEW d \in Seq(Nat),
           cblok \in Seq(Nat), ctrunc \in 0..2, truncated \in Nat,
           Together(cblok, ctrunc, r), base = Converted(ctrunc, r),
           ddopt.conv = "block" => truncated = Cardinality(TooLongLines(r))
    PROVE  GoesWith(Convert(d), base, r \o d)
<1>1. PICK n \in Nat : n = Len(d)
  BY LenProperties
<1>2. PICK first : first = ConvFirst
  OBVIOUS
<1>3. <<>> \in Seq(Portions) /\ Texts(<<>>) = <<>> /\ base \o <<>> = base
  <2>1. <<>> \in Seq(Portions)
    BY EmptySeq
  <2>2. Texts(<<>>) = <<>>
    BY <2>1, TextsFacts
  <2> QED
    BY <2>1, <2>2, JoinEmpty
<1>4. GoesWith(first, base, r)
  <2>1. base \o Texts(<<>>) = Converted(ctrunc, r)
    BY <1>3
  <2> QED
    BY <1>2, <1>3, <2>1, GoesIs, Zenon DEF ConvFirst
<1>5. CASE ddopt.conv = "none"
  <2>1. PICK p : p = [s |-> d, again |-> 0]
    OBVIOUS
  <2>2. p \in Portions /\ p.s = d
    BY <2>1 DEF Portions
  <2>3. Convert(d) = [blok |-> cblok, trunc |-> ctrunc, lost |-> truncated, out |-> <<p>>]
    BY <1>5, <2>1 DEF Convert
  <2>4. <<p>> = Append(<<>>, p)
    OBVIOUS
  <2>5. <<p>> \in Seq(Portions) /\ Texts(<<p>>) = <<>> \o d
    <3>1. PICK q \in Seq(Portions) : q = <<>>
      BY <1>3
    <3>2. p \in Portions
      BY <2>2
    <3>3. Append(q, p) \in Seq(Portions)
      BY <3>1, <3>2, AppendProperties
    <3>4. Texts(Append(q, p)) = Texts(q) \o p.s
      BY <3>1, <3>2, TextsFacts, Zenon
    <3> QED
      BY <1>3, <2>2, <2>4, <3>1, <3>3, <3>4, Zenon
  <2>6. <<>> \o d = d
    BY JoinEmpty
  <2>7. base = r /\ Converted(ctrunc, r \o d) = r \o d /\ Together(cblok, ctrunc, r \o d)
    BY <1>5 DEF Converted, Together
  <2>8. base \o Texts(<<p>>) = Converted(ctrunc, r \o d)
    BY <2>5, <2>6, <2>7
  <2>9. ddopt.conv # "block"
    BY <1>5
  <2> QED
    BY <2>3, <2>5, <2>7, <2>8, <2>9, GoesIs, Zenon
<1>6. CASE ddopt.conv # "none"
  <2>2. PICK F : F = [ky \in (1..n) \X ConvStates |->
                         IF ConvStep(ky[2], d[ky[1]]) \in ConvStates THEN ConvStep(ky[2], d[ky[1]]) ELSE ky[2]]
    OBVIOUS
  <2>3. StepFunction(F, n, ConvStates)
    BY <2>2 DEF StepFunction
  <2>4. first \in ConvStates
    BY <1>4 DEF GoesWith
  <2>5. PICK g \in [0..n -> ConvStates] : g[0] = first /\ \A k \in 1..n : g[k] = F[<<k, g[k - 1]>>]
    <3>1. \E g : Unrolled(g, F, n, ConvStates, first)
      BY <2>3, <2>4, RecursionExists
    <3> QED
      BY <3>1 DEF Unrolled
  <2>6. ASSUME NEW k \in 1..n, ConvStep(g[k - 1], d[k]) \in ConvStates PROVE g[k] = ConvStep(g[k - 1], d[k])
    <3>1. k - 1 \in 0..n
      OBVIOUS
    <3>2. g[k - 1] \in ConvStates
      BY <3>1
    <3>3. PICK y \in ConvStates : y = g[k - 1]
      BY <3>2
    <3>4. F[<<k, y>>] = IF ConvStep(y, d[k]) \in ConvStates THEN ConvStep(y, d[k]) ELSE y
      BY <2>2
    <3> QED
      BY <2>5, <2>6, <3>3, <3>4
  <2>7. \A k \in 1..n : g[k] = ConvStep(g[k - 1], d[k])
    <3>1. GoesWith(g[0], base, r)
      BY <1>4, <2>5
    <3>2. \A k \in 1..Len(d) : ConvStep(g[k - 1], d[k]) \in ConvStates => g[k] = ConvStep(g[k - 1], d[k])
      BY <1>1, <2>6
    <3>3. \A k \in 0..Len(d) : GoesWith(g[k], base, r \o SubSeq(d, 1, k))
      BY <1>6, <3>1, <3>2, StepsGo, Zenon
    <3> SUFFICES ASSUME NEW k \in 1..n PROVE g[k] = ConvStep(g[k - 1], d[k])
      OBVIOUS
    <3>4. k \in 1..Len(d) /\ k - 1 \in 0..Len(d)
      BY <1>1
    <3>5. PICK y : y = g[k - 1]
      OBVIOUS
    <3>6. GoesWith(y, base, r \o SubSeq(d, 1, k - 1))
      BY <3>3, <3>4, <3>5
    <3>7. GoesWith(ConvStep(y, d[k]), base, r \o SubSeq(d, 1, k))
      BY <1>6, <3>4, <3>6, OneStepGoes, Zenon
    <3>8. ConvStep(g[k - 1], d[k]) \in ConvStates
      BY <3>5, <3>7 DEF GoesWith
    <3> QED
      BY <2>6, <3>8
  <2> DEFINE st[k \in 0..Len(d)] ==
                 IF k = 0 THEN first
                 ELSE IF ddopt.conv = "block" THEN Block(st[k - 1], d[k])
                 ELSE Unblock(st[k - 1], d[k])
  <2>1. Convert(d) = st[Len(d)]
    BY <1>2, <1>6 DEF Convert, ConvFirst
  <2>8. st = [k \in 0..Len(d) |->
                 IF k = 0 THEN first
                 ELSE IF ddopt.conv = "block" THEN Block(st[k - 1], d[k])
                 ELSE Unblock(st[k - 1], d[k])]
    <3>1. g = [k \in 0..Len(d) |->
                 IF k = 0 THEN first
                 ELSE IF ddopt.conv = "block" THEN Block(g[k - 1], d[k])
                 ELSE Unblock(g[k - 1], d[k])]
      <4>1. ASSUME NEW k \in 0..n
            PROVE  g[k] = IF k = 0 THEN first
                          ELSE IF ddopt.conv = "block" THEN Block(g[k - 1], d[k])
                          ELSE Unblock(g[k - 1], d[k])
        <5>1. CASE k = 0
          BY <2>5, <5>1
        <5>2. CASE k # 0
          <6>1. k \in 1..n
            BY <5>2
          <6>2. g[k] = ConvStep(g[k - 1], d[k])
            BY <2>7, <6>1
          <6> QED
            BY <5>2, <6>2 DEF ConvStep
        <5> QED
          BY <5>1, <5>2
      <4> QED
        BY <1>1, <4>1
    <3> QED
      BY <3>1
  <2> HIDE DEF st
  <2>9. st[0] = first
    <3>1. 0 \in 0..Len(d)
      BY <1>1
    <3> QED
      BY <2>8, <3>1
  <2>10. \A k \in 1..Len(d) : st[k] = ConvStep(st[k - 1], d[k])
    <3> SUFFICES ASSUME NEW k \in 1..Len(d) PROVE st[k] = ConvStep(st[k - 1], d[k])
      OBVIOUS
    <3>1. k \in 0..Len(d) /\ k # 0
      BY <1>1
    <3> QED
      BY <2>8, <3>1 DEF ConvStep
  <2>11. \A k \in 0..Len(d) : GoesWith(st[k], base, r \o SubSeq(d, 1, k))
    <3>1. GoesWith(st[0], base, r)
      BY <1>4, <2>9
    <3>2. \A k \in 1..Len(d) : ConvStep(st[k - 1], d[k]) \in ConvStates => st[k] = ConvStep(st[k - 1], d[k])
      BY <2>10, Zenon
    <3> QED
      BY <1>6, <3>1, <3>2, StepsGo, Zenon
  <2>12. GoesWith(st[n], base, r \o SubSeq(d, 1, n))
    BY <1>1, <2>11
  <2>13. SubSeq(d, 1, n) = d
    BY <1>1, SubSeqFull
  <2> QED
    BY <1>1, <2>1, <2>12, <2>13
<1> QED
  BY <1>5, <1>6

\* What is still to be flushed completes the conversion.
LEMMA ReferenceIs ==
    ASSUME ddopt \in DdOptions, NEW r \in Seq(Nat), NEW b, NEW n \in 0..2, Together(b, n, r)
    PROVE  Converted(n, r) \o Flushed(b) = Reference(r)
<1>1. CASE ddopt.conv = "none"
  <2>1. Converted(n, r) = r /\ Reference(r) = r /\ Flushed(b) = <<>>
    BY <1>1 DEF Converted, Reference, Together, Flushed
  <2> QED
    BY <2>1, JoinEmpty
<1>2. CASE ddopt.conv = "unblock"
  <2>1. b = LastPiece(r) /\ Converted(n, r) = UnblockHead(r)
    BY <1>2 DEF Together, Converted
  <2>2. b = <<>> <=> r = <<>>
    BY <1>2, <2>1, LastPieceFacts
  <2>3. Flushed(b) = IF r = <<>> THEN <<>> ELSE WithoutBlanks(LastPiece(r))
    BY <1>2, <2>1, <2>2 DEF Flushed, FlushedOnce
  <2> QED
    BY <1>2, <2>1, <2>3, UnblockReference
<1>3. CASE ddopt.conv = "block"
  <2>1. PICK h \in Seq(Nat), x \in Seq(Nat), w \in Nat \ {0} : h = BlockHead(r) /\ x = Current(r) /\ w = cbs
    BY <1>3, BlockPartsType, CurrentFacts, OptionsAre
  <2>2. Reference(r) = h \o (IF x # <<>> THEN Padded(Cropped(x)) ELSE <<>>)
    BY <1>3, <2>1, BlockReference
  <2>3. CASE n = 0
    <3>1. b = x /\ Len(x) < w
      BY <1>3, <2>1, <2>3 DEF Together
    <3>2. Cropped(x) = x
      <4>1. Len(x) <= cbs
        BY <2>1, <3>1, LenProperties
      <4> QED
        BY <4>1, CroppedFacts
    <3>3. Flushed(b) = IF x # <<>> THEN Padded(Cropped(x)) ELSE <<>>
      BY <1>3, <3>1, <3>2 DEF Flushed, FlushedOnce
    <3>4. Converted(n, r) = h
      <4>1. h \o <<>> = h
        BY JoinEmpty
      <4> QED
        BY <1>3, <2>1, <2>3, <4>1 DEF Converted
    <3> QED
      BY <2>2, <3>3, <3>4
  <2>4. CASE n # 0
    <3>1. b = <<>> /\ Len(x) >= w
      <4>1. n = 1 \/ n = 2
        BY <2>4
      <4> QED
        BY <1>3, <2>1, <2>4, <4>1, LenProperties DEF Together
    <3>2. x # <<>>
      BY <2>1, <3>1, EmptySeq
    <3>3. PICK f \in Seq(Nat) : f = Padded(Cropped(x))
      <4>1. Cropped(x) \in Seq(Nat) /\ Len(Cropped(x)) <= cbs
        BY CroppedFacts
      <4> QED
        BY <4>1, PaddedType
    <3>4. Converted(n, r) = h \o f
      BY <1>3, <2>1, <2>4, <3>3 DEF Converted
    <3>5. Flushed(b) = <<>> /\ (h \o f) \o <<>> = h \o f
      <4>1. h \o f \in Seq(Nat)
        BY JoinType
      <4> QED
        BY <3>1, <4>1, JoinEmpty DEF Flushed
    <3>6. Reference(r) = h \o f
      BY <2>2, <3>2, <3>3
    <3> QED
      BY <3>4, <3>5, <3>6
  <2> QED
    BY <2>3, <2>4
<1> QED
  BY <1>1, <1>2, <1>3, OptionsAre

-----------------------------------------------------------------------------
(* dd: what does not change while the operands do not                      *)

LEMMA SameSizes ==
    ASSUME ddopt' = ddopt
    PROVE  ibs' = ibs /\ obs' = obs /\ cbs' = cbs /\ (Direct' <=> Direct)
BY DEF ibs, obs, cbs, Direct

LEMMA SameFlushed ==
    ASSUME ddopt' = ddopt, NEW b
    PROVE  Flushed(b)' = Flushed(b)
BY DEF Flushed, FlushedOnce, Padded, WithoutBlanks, Spaces, cbs

LEMMA SameReference ==
    ASSUME ddopt' = ddopt, NEW r
    PROVE  Reference(r)' = Reference(r)
<1>1. /\ \A l : Padded(Cropped(l))' = Padded(Cropped(l))
      /\ \A k : LineEnds(r)' = LineEnds(r) /\ Line(r, k)' = Line(r, k)
      /\ \A k : WithoutBlanks(Piece(r, k))' = WithoutBlanks(Piece(r, k))
      /\ cbs' = cbs
  BY DEF Padded, Spaces, Cropped, LineEnds, Line, WithoutBlanks, Piece, cbs
<1> QED
  BY <1>1 DEF Reference, Padded, Spaces, Cropped, LineEnds, Line, WithoutBlanks, Piece, cbs

LEMMA SameTooLong ==
    ASSUME ddopt' = ddopt, NEW r
    PROVE  TooLongLines(r)' = TooLongLines(r)
BY DEF TooLongLines, LineEnds, Line, cbs

LEMMA SameTogether ==
    ASSUME ddopt' = ddopt, NEW b, NEW n, NEW r
    PROVE  (Together(b, n, r)' <=> Together(b, n, r)) /\ Converted(n, r)' = Converted(n, r)
<1>1. Together(b, n, r)' <=> Together(b, n, r)
  BY DEF Together, Current, LastPiece, Piece, Line, cbs
<1>2. Converted(n, r)' = Converted(n, r)
  BY DEF Converted, BlockHead, UnblockHead, Padded, Spaces, Cropped, Current, Line, WithoutBlanks, Piece, cbs
<1> QED
  BY <1>1, <1>2

-----------------------------------------------------------------------------
(* dd: what is divided and put together                                    *)

LEMMA JoinParts ==
    ASSUME NEW s \in Seq(Nat), NEW n \in 0..Len(s)
    PROVE  /\ SubSeq(s, 1, n) \in Seq(Nat) /\ SubSeq(s, n + 1, Len(s)) \in Seq(Nat)
           /\ Len(SubSeq(s, 1, n)) = n /\ Len(SubSeq(s, n + 1, Len(s))) = Len(s) - n
           /\ SubSeq(s, 1, n) \o SubSeq(s, n + 1, Len(s)) = s
<1>1. PICK m \in Nat : m = Len(s)
  BY LenProperties
<1>2. PICK a, b : a = SubSeq(s, 1, n) /\ b = SubSeq(s, n + 1, m)
  OBVIOUS
<1>3. a \in Seq(Nat) /\ Len(a) = n /\ \A i \in 1..n : a[i] = s[i]
  <2>1. n \in 0..Len(s) /\ 1 <= n + 1 /\ n - 1 + 1 = n /\ 1 \in Nat \ {0} /\ s \in Seq(Nat)
    BY <1>1
  <2>2. /\ SubSeq(s, 1, n) \in Seq(Nat) /\ Len(SubSeq(s, 1, n)) = n - 1 + 1
        /\ \A i \in 1..n - 1 + 1 : SubSeq(s, 1, n)[i] = s[1 + i - 1]
    BY <2>1, PartFacts
  <2>3. \A i \in 1..n : 1 + i - 1 = i
    OBVIOUS
  <2> QED
    BY <1>2, <2>1, <2>2, <2>3
<1>4. b \in Seq(Nat) /\ Len(b) = m - n /\ \A i \in 1..m - n : b[i] = s[n + i]
  <2>1. m \in 0..Len(s) /\ n + 1 <= m + 1 /\ m - (n + 1) + 1 = m - n /\ n + 1 \in Nat \ {0} /\ s \in Seq(Nat)
    BY <1>1
  <2>2. /\ SubSeq(s, n + 1, m) \in Seq(Nat) /\ Len(SubSeq(s, n + 1, m)) = m - (n + 1) + 1
        /\ \A i \in 1..m - (n + 1) + 1 : SubSeq(s, n + 1, m)[i] = s[n + 1 + i - 1]
    BY <2>1, PartFacts
  <2>3. \A i \in 1..m - n : n + 1 + i - 1 = n + i
    BY <1>1
  <2> QED
    BY <1>2, <2>1, <2>2, <2>3
<1>5. PICK u : u = a \o b
  OBVIOUS
<1>6. u \in Seq(Nat) /\ Len(u) = Len(a) + Len(b)
      /\ \A i \in 1..Len(a) + Len(b) : u[i] = IF i <= Len(a) THEN a[i] ELSE b[i - Len(a)]
  BY <1>3, <1>4, <1>5, ConcatProperties
<1>7. Len(u) = m /\ \A i \in 1..m : u[i] = s[i]
  <2>1. Len(a) + Len(b) = m
    BY <1>1, <1>3, <1>4
  <2> SUFFICES ASSUME NEW i \in 1..m PROVE u[i] = s[i]
    BY <1>6, <2>1
  <2>2. CASE i <= n
    BY <1>3, <1>6, <2>1, <2>2
  <2>3. CASE i > n
    <3>1. i - n \in 1..m - n /\ n + (i - n) = i
      BY <1>1, <2>3
    <3>2. u[i] = b[i - n]
      BY <1>3, <1>6, <2>1, <2>3
    <3> QED
      BY <1>4, <3>1, <3>2
  <2> QED
    BY <2>2, <2>3
<1>8. u = s
  BY <1>1, <1>6, <1>7, SeqEqual
<1> QED
  BY <1>1, <1>2, <1>3, <1>4, <1>5, <1>8

LEMMA JoinIsPrefix ==
    ASSUME NEW s \in Seq(Nat), NEW t \in Seq(Nat)
    PROVE  IsPrefix(s, s \o t)
<1>1. PICK u : u = s \o t
  OBVIOUS
<1>2. u \in Seq(Nat) /\ Len(u) = Len(s) + Len(t)
      /\ \A i \in 1..Len(s) + Len(t) : u[i] = IF i <= Len(s) THEN s[i] ELSE t[i - Len(s)]
  BY <1>1, ConcatProperties
<1>3. Len(s) \in Nat /\ Len(t) \in Nat
  BY LenProperties
<1>4. Len(s) <= Len(u) /\ \A i \in 1..Len(s) : s[i] = u[i]
  BY <1>2, <1>3
<1>5. IsPrefix(s, u)
  BY <1>2, <1>4, PrefixFacts
<1> QED
  BY <1>1, <1>5

Joined(s, t) == s \o t

LEMMA JoinedFacts ==
    ASSUME NEW x \in Seq(Nat), NEW y \in Seq(Nat), NEW z \in Seq(Nat)
    PROVE  Joined(x, y) \in Seq(Nat) /\ Joined(Joined(x, y), z) = Joined(x, Joined(y, z))
<1>1. (x \o y) \o z = x \o (y \o z)
  BY JoinThree, Zenon
<1>2. x \o y \in Seq(Nat)
  BY JoinType, Zenon
<1> QED
  BY <1>1, <1>2, Zenon DEF Joined

\* A part goes to the output, a part stays in the block, and the rest is still to be written.
MovesOn(a, o, h, t, part, kept, rest) ==
    Joined(o, h) = Joined(Joined(part, kept), rest) =>
        Joined(Joined(Joined(a, part), kept), Joined(rest, t)) = Joined(Joined(a, o), Joined(h, t))

LEMMA Moved ==
    ASSUME NEW a \in Seq(Nat), NEW o \in Seq(Nat), NEW h \in Seq(Nat), NEW t \in Seq(Nat),
           NEW part \in Seq(Nat), NEW kept \in Seq(Nat), NEW rest \in Seq(Nat)
    PROVE  MovesOn(a, o, h, t, part, kept, rest)
<1> DEFINE S == Seq(Nat)
<1>1. \A x \in S : \A y \in S : Joined(x, y) \in S
  BY JoinedFacts
<1>2. \A x \in S : \A y \in S : \A z \in S : Joined(Joined(x, y), z) = Joined(x, Joined(y, z))
  BY JoinedFacts
<1>3. a \in S /\ o \in S /\ h \in S /\ t \in S /\ part \in S /\ kept \in S /\ rest \in S
  OBVIOUS
<1>4. ASSUME Joined(o, h) = Joined(Joined(part, kept), rest)
      PROVE  Joined(Joined(Joined(a, part), kept), Joined(rest, t)) = Joined(Joined(a, o), Joined(h, t))
  <2> HIDE DEF S
  <2>1. Joined(a, part) \in S /\ Joined(part, kept) \in S /\ Joined(rest, t) \in S /\ Joined(h, t) \in S
        /\ Joined(o, h) \in S
    BY <1>1, <1>3
  <2>2. Joined(kept, Joined(rest, t)) \in S
    BY <1>1, <1>3, <2>1
  <2>3. Joined(Joined(Joined(a, part), kept), Joined(rest, t))
        = Joined(Joined(a, part), Joined(kept, Joined(rest, t)))
    BY <1>2, <1>3, <2>1
  <2>4. Joined(Joined(a, part), Joined(kept, Joined(rest, t)))
        = Joined(a, Joined(part, Joined(kept, Joined(rest, t))))
    BY <1>2, <1>3, <2>2
  <2>5. Joined(part, Joined(kept, Joined(rest, t))) = Joined(Joined(part, kept), Joined(rest, t))
    BY <1>2, <1>3, <2>1
  <2>6. Joined(Joined(part, kept), Joined(rest, t)) = Joined(Joined(Joined(part, kept), rest), t)
    BY <1>2, <1>3, <2>1
  <2>7. Joined(Joined(o, h), t) = Joined(o, Joined(h, t))
    BY <1>2, <1>3
  <2>8. Joined(a, Joined(o, Joined(h, t))) = Joined(Joined(a, o), Joined(h, t))
    BY <1>2, <1>3, <2>1
  <2> QED
    BY <1>4, <2>3, <2>4, <2>5, <2>6, <2>7, <2>8, Zenon
<1> QED
  BY <1>4, Zenon DEF MovesOn

LEMMA TodoIs ==
    ASSUME NEW q \in Seq(Portions), q # <<>>, NEW rest \in Seq(Nat), NEW new,
           new = IF rest = <<>> THEN Tail(q) ELSE <<[Head(q) EXCEPT !.s = rest]>> \o Tail(q)
    PROVE  new \in Seq(Portions) /\ Texts(new) = rest \o Texts(Tail(q))
<1>1. Head(q) \in Portions /\ Tail(q) \in Seq(Portions)
  BY TextsOfRest
<1>2. PICK t \in Seq(Portions) : t = Tail(q)
  BY <1>1
<1>3. Texts(t) \in Seq(Nat)
  BY TextsFacts
<1>4. PICK p : p = [Head(q) EXCEPT !.s = rest]
  OBVIOUS
<1>5. p \in Portions /\ p.s = rest
  BY <1>1, <1>4 DEF Portions
<1>6. <<p>> \o t \in Seq(Portions) /\ Texts(<<p>> \o t) = p.s \o Texts(t)
  BY <1>5, TextsFacts
<1>7. CASE rest = <<>>
  <2>1. rest \o Texts(t) = Texts(t)
    BY <1>3, <1>7, JoinEmpty
  <2> QED
    BY <1>2, <1>7, <2>1
<1>8. CASE rest # <<>>
  BY <1>2, <1>4, <1>5, <1>6, <1>8
<1> QED
  BY <1>7, <1>8

LEMMA FlushedType ==
    ASSUME ddopt \in DdOptions, NEW b \in Seq(Nat), Len(b) <= cbs, ddopt.conv = "none" => b = <<>>
    PROVE  Flushed(b) \in Seq(Nat)
<1>1. CASE b = <<>>
  <2>1. <<>> \in Seq(Nat)
    BY EmptySeq
  <2> QED
    BY <1>1, <2>1 DEF Flushed
<1>2. CASE b # <<>>
  <2>1. FlushedOnce(b) \in Seq(Nat)
    BY <1>2, PortionFacts
  <2> QED
    BY <1>2, <2>1 DEF Flushed
<1> QED
  BY <1>1, <1>2

LEMMA TogetherShort ==
    ASSUME ddopt \in DdOptions, NEW r \in Seq(Nat), NEW b \in Seq(Nat), NEW n \in 0..2, Together(b, n, r)
    PROVE  Len(b) <= cbs /\ (ddopt.conv = "none" => b = <<>>)
<1>1. Len(b) \in Nat /\ cbs \in Nat /\ Len(<<>>) = 0
  BY LenProperties, OptionsAre, EmptySeq
<1>2. CASE ddopt.conv = "none"
  BY <1>1, <1>2 DEF Together
<1>3. CASE ddopt.conv = "block"
  <2>1. b = <<>> \/ Len(b) < cbs
    BY <1>3 DEF Together
  <2> QED
    BY <1>1, <1>3, <2>1
<1>4. CASE ddopt.conv = "unblock"
  <2>1. b = LastPiece(r)
    BY <1>4 DEF Together
  <2> QED
    BY <1>4, <2>1, LastPieceFacts
<1> QED
  BY <1>2, <1>3, <1>4, OptionsAre

-----------------------------------------------------------------------------
(* dd: what the steps keep                                                 *)

LEMMA HandType ==
    ASSUME DdStates
    PROVE  /\ Texts(todo) \in Seq(Nat) /\ dout \o oblok \in Seq(Nat) /\ InHand \in Seq(Nat)
           /\ AllRead \in Seq(Nat) /\ Flushed(cblok) \in Seq(Nat)
<1>1. Texts(todo) \in Seq(Nat)
  BY TextsFacts DEF DdStates
<1>2. PICK u \in Seq(Nat) : u = dout \o oblok
  BY JoinType DEF DdStates
<1>3. u \o Texts(todo) \in Seq(Nat)
  BY <1>1, JoinType
<1>4. AllRead \in Seq(Nat)
  <2>1. PICK s \in Seq(Seq(Nat)) : s = records
    BY DEF DdStates
  <2>2. <<>> \in Seq(Nat)
    BY EmptySeq
  <2>3. FlattenSeq(s) \in Seq(Nat)
    BY <2>2, FlattenMore
  <2> QED
    BY <2>1, <2>3 DEF AllRead
<1>5. Flushed(cblok) \in Seq(Nat)
  BY FlushedType DEF DdStates
<1> QED
  BY <1>1, <1>2, <1>3, <1>4, <1>5 DEF InHand

\* What has been written is a part of the conversion of what was read.
LEMMA OutIsPrefix ==
    ASSUME DdStates, Divided
    PROVE  IsPrefix(dout, Reference(AllRead))
<1>1. CASE broken
  BY <1>1 DEF Divided
<1>2. CASE ~broken
  <2>1. InHand \o Flushed(cblok) = Reference(AllRead)
    BY <1>2 DEF Divided
  <2>2. PICK t \in Seq(Nat), f \in Seq(Nat) : t = Texts(todo) /\ f = Flushed(cblok)
    BY HandType
  <2>3. PICK d \in Seq(Nat), o \in Seq(Nat) : d = dout /\ o = oblok
    BY DEF DdStates
  <2>4. ((d \o o) \o t) \o f = d \o (o \o (t \o f))
    <3>1. PICK tf \in Seq(Nat) : tf = t \o f
      BY JoinType
    <3>2. PICK x \in Seq(Nat) : x = d \o o
      BY JoinType
    <3>3. (x \o t) \o f = x \o (t \o f)
      BY JoinThree, Zenon
    <3>4. (d \o o) \o tf = d \o (o \o tf)
      BY JoinThree, ZenonT(60)
    <3> QED
      BY <3>1, <3>2, <3>3, <3>4, Zenon
  <2>5. PICK w \in Seq(Nat) : w = o \o (t \o f)
    <3>1. PICK tf \in Seq(Nat) : tf = t \o f
      BY JoinType
    <3>2. o \o tf \in Seq(Nat)
      BY JoinType
    <3> QED
      BY <3>1, <3>2
  <2>6. IsPrefix(d, d \o w)
    BY JoinIsPrefix
  <2>7. Reference(AllRead) = d \o w
    BY <2>1, <2>2, <2>3, <2>4, <2>5, Zenon DEF InHand
  <2> QED
    BY <2>3, <2>6, <2>7
<1> QED
  BY <1>1, <1>2

\* What is in hand is the same, and so is what was read.
LEMMA HandKept ==
    ASSUME DdStates, Divided, ~broken, dat # "exit",
           ddopt' = ddopt, records' = records, broken' = broken,
           cblok' = cblok, ctrunc' = ctrunc, InHand' = InHand,
           dat' = dat \/ dat' = "quit", Direct => oblok' = <<>>
    PROVE  Divided'
<1>1. AllRead' = AllRead
  BY DEF AllRead
<1>2. PICK r, b, n : r = AllRead /\ b = cblok /\ n = ctrunc
  OBVIOUS
<1>3. r = AllRead' /\ b = cblok' /\ n = ctrunc'
  BY <1>1, <1>2
<1>4. Reference(AllRead)' = Reference(AllRead)
  <2>1. Reference(r)' = Reference(r)
    BY SameReference
  <2> QED
    BY <1>2, <1>3, <2>1
<1>5. Flushed(cblok)' = Flushed(cblok)
  <2>1. Flushed(b)' = Flushed(b)
    BY SameFlushed
  <2> QED
    BY <1>2, <1>3, <2>1
<1>6. (Together(cblok, ctrunc, AllRead)' <=> Together(cblok, ctrunc, AllRead))
      /\ Converted(ctrunc, AllRead)' = Converted(ctrunc, AllRead)
  <2>1. (Together(b, n, r)' <=> Together(b, n, r)) /\ Converted(n, r)' = Converted(n, r)
    BY SameTogether
  <2> QED
    BY <1>2, <1>3, <2>1
<1>7. Direct' <=> Direct
  BY SameSizes
<1>8. dat' # "exit" /\ dat' # "recursion" /\ (dat' = "dd" => dat = "dd")
  BY DEF Divided
<1>9. dat' = "dd" => ~broken' /\ Together(cblok, ctrunc, AllRead)' /\ InHand' = Converted(ctrunc, AllRead)'
  BY <1>6, <1>8 DEF Divided
<1>10. InHand' \o Flushed(cblok)' = Reference(AllRead)'
  BY <1>4, <1>5 DEF Divided
<1> QED
  BY <1>7, <1>8, <1>9, <1>10 DEF Divided, Ended

LEMMA CountKept ==
    ASSUME LongLinesCounted, ddopt' = ddopt, records' = records, truncated' = truncated
    PROVE  LongLinesCounted'
<1>1. PICK r : r = AllRead
  OBVIOUS
<1>2. r = AllRead'
  BY <1>1 DEF AllRead
<1>3. TooLongLines(r)' = TooLongLines(r)
  BY SameTooLong
<1>4. TooLongLines(AllRead)' = TooLongLines(AllRead)
  BY <1>1, <1>2, <1>3
<1> QED
  BY <1>4 DEF LongLinesCounted

\* As long as there is something to write, or more to read, the writes are for whole blocks.
LEMMA WholeSoFar ==
    ASSUME Sizes, todo # <<>> \/ cblok # <<>> \/ dat = "dd", ~Direct
    PROVE  \A k \in DOMAIN wrote : wrote[k].size = obs
BY DEF Sizes

LEMMA SizesKept ==
    ASSUME Sizes, todo # <<>> \/ cblok # <<>> \/ dat = "dd", ddopt' = ddopt, wrote' = wrote
    PROVE  Sizes'
<1>1. (Direct' <=> Direct) /\ obs' = obs
  BY SameSizes
<1>2. ~Direct => \A k \in DOMAIN wrote' : wrote'[k].size = obs'
  BY <1>1, WholeSoFar
<1> QED
  BY <1>1, <1>2 DEF Sizes

-----------------------------------------------------------------------------
(* dd: a block is read                                                     *)

LEMMA BlockRead ==
    ASSUME DdStates, NEW rd \in Nat, ddoff + rd <= Len(ddin), NEW size, Take(rd, size)
    PROVE  \E block \in Seq(Nat) :
               /\ records' = Append(records, block)
               /\ cblok' = Convert(block).blok /\ ctrunc' = Convert(block).trunc
               /\ truncated' = Convert(block).lost /\ todo' = Convert(block).out
<1>1. PICK part : part = SubSeq(ddin, ddoff + 1, ddoff + rd)
  OBVIOUS
<1>2. part \in Seq(Nat)
  <2>1. ddin \in Seq(Nat) /\ ddoff \in 0..Len(ddin) /\ Len(ddin) \in Nat
    BY LenProperties DEF DdStates
  <2>2. ddoff + 1 \in Nat \ {0} /\ ddoff + rd \in 0..Len(ddin) /\ ddoff + 1 <= ddoff + rd + 1
    BY <2>1
  <2> QED
    BY <1>1, <2>1, <2>2, PartFacts
<1>3. PICK pad : pad = [k \in 1..ibs - rd |-> Pad]
  OBVIOUS
<1>4. pad \in Seq(Nat)
  <2>1. Pad \in Nat
    BY DEF Pad, SP
  <2>2. ibs \in Nat
    BY OptionsAre DEF DdStates
  <2>3. PICK m \in Nat : 1..ibs - rd = 1..m
    <3>1. CASE ibs - rd >= 0
      <4>1. ibs - rd \in Nat
        BY <2>2, <3>1
      <4> QED
        BY <4>1
    <3>2. CASE ~(ibs - rd >= 0)
      <4>1. 1..ibs - rd = 1..0
        BY <2>2, <3>2
      <4> QED
        BY <4>1
    <3> QED
      BY <3>1, <3>2
  <2>4. pad = [k \in 1..m |-> Pad]
    BY <1>3, <2>3
  <2>5. pad \in [1..m -> Nat]
    BY <2>1, <2>4
  <2> QED
    BY <2>5, FunctionIsSeq
<1>5. PICK block \in Seq(Nat) : block = IF ddopt.sync THEN part \o pad ELSE part
  <2>1. part \o pad \in Seq(Nat)
    BY <1>2, <1>4, JoinType
  <2> QED
    BY <1>2, <2>1
<1>6. /\ records' = Append(records, block)
      /\ cblok' = Convert(block).blok /\ ctrunc' = Convert(block).trunc
      /\ truncated' = Convert(block).lost /\ todo' = Convert(block).out
  BY <1>1, <1>3, <1>5 DEF Take
<1> QED
  BY <1>6

LEMMA TakeKeeps ==
    ASSUME DdInv, dat = "dd", todo = <<>>,
           NEW rd \in Nat, ddoff + rd <= Len(ddin),
           NEW size \in Nat, ddoff + size <= Len(ddin), Take(rd, size)
    PROVE  DdInv'
<1>0. DdStates /\ Divided /\ LongLinesCounted /\ Sizes
  BY DEF DdInv
<1>1. PICK block \in Seq(Nat) :
               /\ records' = Append(records, block)
               /\ cblok' = Convert(block).blok /\ ctrunc' = Convert(block).trunc
               /\ truncated' = Convert(block).lost /\ todo' = Convert(block).out
  BY <1>0, BlockRead
<1>2. /\ ddoff' = ddoff + size /\ ddin' = ddin /\ ddopt' = ddopt /\ broken' = broken /\ dat' = dat
      /\ oblok' = oblok /\ dout' = dout /\ wrote' = wrote
  BY DEF Take, ddFixed, writing
<1>3. PICK r \in Seq(Nat), base \in Seq(Nat), b \in Seq(Nat), n \in 0..2, l \in Nat :
          r = AllRead /\ base = dout \o oblok /\ b = cblok /\ n = ctrunc /\ l = truncated
  BY <1>0, HandType DEF DdStates
<1>4. base = Converted(ctrunc, r) /\ Together(cblok, ctrunc, r)
  <2>1. InHand = base \o <<>>
    <3>1. Texts(<<>>) = <<>>
      <4>1. <<>> \in Seq(Portions)
        BY EmptySeq
      <4> QED
        BY <4>1, TextsFacts
    <3> QED
      BY <1>3, <3>1 DEF InHand
  <2>2. base \o <<>> = base
    BY JoinEmpty
  <2> QED
    BY <1>0, <1>3, <2>1, <2>2 DEF Divided
<1>5. ddopt \in DdOptions /\ cblok \in Seq(Nat) /\ ctrunc \in 0..2 /\ truncated \in Nat
  BY <1>0 DEF DdStates
<1>6. ddopt.conv = "block" => truncated = Cardinality(TooLongLines(r))
  BY <1>0, <1>3 DEF LongLinesCounted
<1>7. PICK all \in Seq(Nat) : all = r \o block
  BY JoinType
<1>8. AllRead' = all
  <2>1. PICK s \in Seq(Seq(Nat)) : s = records
    BY <1>0 DEF DdStates
  <2>2. FlattenSeq(Append(s, block)) = FlattenSeq(s) \o block
    BY FlattenMore
  <2> QED
    BY <1>1, <1>3, <1>7, <2>1, <2>2 DEF AllRead
<1>9. GoesWith(Convert(block), base, all)
  <2>1. GoesWith(Convert(block), base, r \o block)
    BY <1>4, <1>5, <1>6, ConvertGoes
  <2> QED
    BY <1>7, <2>1
<1>10. PICK b1 \in Seq(Nat), n1 \in 0..2, l1 \in Nat, o1 \in Seq(Portions) :
           /\ b1 = cblok' /\ n1 = ctrunc' /\ l1 = truncated' /\ o1 = todo'
           /\ Together(b1, n1, all) /\ base \o Texts(o1) = Converted(n1, all)
           /\ ddopt.conv = "block" => l1 = Cardinality(TooLongLines(all))
  <2>1. PICK st : st = Convert(block)
    OBVIOUS
  <2>2. /\ st.blok \in Seq(Nat) /\ st.trunc \in 0..2 /\ st.lost \in Nat /\ st.out \in Seq(Portions)
        /\ Together(st.blok, st.trunc, all) /\ base \o Texts(st.out) = Converted(st.trunc, all)
        /\ ddopt.conv = "block" => st.lost = Cardinality(TooLongLines(all))
    BY <1>9, <2>1 DEF GoesWith, ConvStates
  <2> QED
    BY <1>1, <2>1, <2>2
<1>11. ibs' = ibs /\ obs' = obs /\ cbs' = cbs /\ (Direct' <=> Direct)
  BY <1>2, SameSizes
<1>12. DdStates'
  <2>1. Len(b1) <= cbs /\ (ddopt.conv = "none" => b1 = <<>>)
    BY <1>5, <1>10, TogetherShort
  <2>2. records' \in Seq(Seq(Nat))
    <3>1. PICK s \in Seq(Seq(Nat)) : s = records
      BY <1>0 DEF DdStates
    <3>2. Append(s, block) \in Seq(Seq(Nat))
      BY AppendProperties
    <3> QED
      BY <1>1, <3>1, <3>2
  <2>3. ddoff' \in 0..Len(ddin')
    BY <1>0, <1>2, LenProperties DEF DdStates
  <2> QED
    BY <1>0, <1>2, <1>10, <1>11, <2>1, <2>2, <2>3 DEF DdStates
<1>13. InHand' = Converted(n1, all)
  <2>1. InHand' = (dout' \o oblok') \o Texts(todo')
    BY DEF InHand
  <2> QED
    BY <1>2, <1>3, <1>10, <2>1
<1>14. Divided'
  <2>1. (Together(b1, n1, all)' <=> Together(b1, n1, all)) /\ Converted(n1, all)' = Converted(n1, all)
    BY <1>2, SameTogether
  <2>2. Together(cblok, ctrunc, AllRead)' /\ Converted(ctrunc, AllRead)' = Converted(n1, all)
    BY <1>8, <1>10, <2>1
  <2>3. Flushed(cblok)' = Flushed(b1)
    <3>1. Flushed(b1)' = Flushed(b1)
      BY <1>2, SameFlushed
    <3> QED
      BY <1>10, <3>1
  <2>4. Reference(AllRead)' = Reference(all)
    <3>1. Reference(all)' = Reference(all)
      BY <1>2, SameReference
    <3> QED
      BY <1>8, <3>1
  <2>5. Converted(n1, all) \o Flushed(b1) = Reference(all)
    BY <1>5, <1>10, ReferenceIs
  <2>6. dat' = "dd" /\ ~broken' /\ ~Ended'
    BY <1>0, <1>2 DEF Divided, Ended
  <2>7. Direct' => oblok' = <<>>
    BY <1>0, <1>2, <1>11 DEF Divided
  <2>8. InHand' \o Flushed(cblok)' = Reference(AllRead)'
    BY <1>13, <2>3, <2>4, <2>5
  <2>9. InHand' = Converted(ctrunc, AllRead)'
    BY <1>13, <2>2
  <2> QED
    BY <2>2, <2>6, <2>7, <2>8, <2>9 DEF Divided
<1>15. LongLinesCounted'
  <2>1. TooLongLines(all)' = TooLongLines(all)
    BY <1>2, SameTooLong
  <2>2. TooLongLines(AllRead)' = TooLongLines(all)
    BY <1>8, <2>1
  <2> QED
    BY <1>2, <1>10, <2>2 DEF LongLinesCounted
<1>16. Sizes'
  BY <1>0, <1>2, SizesKept
<1> QED
  BY <1>12, <1>14, <1>15, <1>16 DEF DdInv

LEMMA ReadBlockKeeps ==
    ASSUME DdInv, ReadBlock
    PROVE  DdInv'
<1>1. PICK rd \in 1..Min({ibs, Left}) : Take(rd, rd)
  BY DEF ReadBlock
<1>2. PICK left \in Nat, i \in Nat \ {0} : left = Left /\ i = ibs /\ left > 0
  <2>1. ddoff \in 0..Len(ddin) /\ Len(ddin) \in Nat
    BY LenProperties DEF DdInv, DdStates
  <2>2. ibs \in Nat \ {0}
    BY OptionsAre DEF DdInv, DdStates
  <2>3. Left \in Nat /\ Left > 0
    BY <2>1 DEF ReadBlock, Left
  <2> QED
    BY <2>2, <2>3
<1>3. rd \in Nat /\ rd <= left
  <2>1. Min({i, left}) = IF i <= left THEN i ELSE left
    BY MinOfTwo
  <2> QED
    BY <1>1, <1>2, <2>1
<1>4. ddoff + rd <= Len(ddin)
  <2>1. ddoff \in 0..Len(ddin) /\ Len(ddin) \in Nat
    BY LenProperties DEF DdInv, DdStates
  <2> QED
    BY <1>2, <1>3, <2>1 DEF Left
<1>5. dat = "dd" /\ todo = <<>>
  BY DEF ReadBlock, Reading
<1> QED
  BY <1>1, <1>3, <1>4, <1>5, TakeKeeps

\* The input has come to an end, or a block of it is passed over.
LEMMA QuitKeeps ==
    ASSUME DdStates, Divided, LongLinesCounted, Sizes, dat = "dd", dat' = dat \/ dat' = "quit",
           ddoff' \in 0..Len(ddin),
           ddin' = ddin, ddopt' = ddopt, cblok' = cblok, ctrunc' = ctrunc, truncated' = truncated,
           todo' = todo, oblok' = oblok, dout' = dout, wrote' = wrote, broken' = broken, records' = records
    PROVE  DdInv'
<1>1. obs' = obs /\ cbs' = cbs
  BY SameSizes
<1>2. InHand' = InHand
  BY DEF InHand
<1>3. ~broken /\ dat # "exit" /\ (Direct => oblok' = <<>>)
  BY DEF Divided
<1>4. Divided'
  BY <1>2, <1>3, HandKept
<1>5. LongLinesCounted'
  BY CountKept
<1>6. Sizes'
  BY SizesKept
<1>7. DdStates'
  BY <1>1 DEF DdStates
<1> QED
  BY <1>4, <1>5, <1>6, <1>7 DEF DdInv

LEMMA ReadEndKeeps ==
    ASSUME DdInv, ReadEnd
    PROVE  DdInv'
<1>1. /\ dat = "dd" /\ todo = <<>> /\ dat' = "quit"
      /\ ddin' = ddin /\ ddopt' = ddopt /\ ddoff' = ddoff /\ cblok' = cblok /\ ctrunc' = ctrunc
      /\ truncated' = truncated /\ todo' = todo /\ oblok' = oblok /\ dout' = dout /\ wrote' = wrote
      /\ broken' = broken /\ records' = records
  BY DEF ReadEnd, QuitDd, ddFixed, converting, writing
<1>2. DdStates /\ Divided /\ LongLinesCounted /\ Sizes
  BY DEF DdInv
<1>3. ddoff' \in 0..Len(ddin)
  BY <1>1, <1>2 DEF DdStates
<1> QED
  BY <1>1, <1>2, <1>3, QuitKeeps

LEMMA ReadFailsKeeps ==
    ASSUME DdInv, ReadFails
    PROVE  DdInv'
<1>1. DdStates /\ Divided /\ LongLinesCounted /\ Sizes
  BY DEF DdInv
<1>2. dat = "dd" /\ todo = <<>> /\ Left > 0
  BY DEF ReadFails, Reading
<1>3. PICK off \in Nat, all \in Nat, i \in Nat \ {0} :
          off = ddoff /\ all = Len(ddin) /\ i = ibs /\ off <= all /\ Left = all - off
  <2>1. ddoff \in 0..Len(ddin) /\ Len(ddin) \in Nat
    BY <1>1, LenProperties DEF DdStates
  <2>2. ibs \in Nat \ {0}
    BY <1>1, OptionsAre DEF DdStates
  <2> QED
    BY <2>1, <2>2 DEF Left
<1>4. CASE /\ ~ddopt.noerror
           /\ QuitDd(1)
           /\ UNCHANGED <<ddFixed, ddoff, count, converting, todo, writing, broken, records>>
  <2>1. /\ dat' = "quit"
        /\ ddin' = ddin /\ ddopt' = ddopt /\ ddoff' = ddoff /\ cblok' = cblok /\ ctrunc' = ctrunc
        /\ truncated' = truncated /\ todo' = todo /\ oblok' = oblok /\ dout' = dout /\ wrote' = wrote
        /\ broken' = broken /\ records' = records
    BY <1>4 DEF QuitDd, ddFixed, converting, writing
  <2>2. ddoff' \in 0..Len(ddin)
    BY <1>1, <2>1 DEF DdStates
  <2> QED
    BY <1>1, <1>2, <2>1, <2>2, QuitKeeps
<1>5. CASE /\ ddopt.noerror /\ ~ddopt.sync
           /\ ddoff' = Min({ddoff + ibs, Len(ddin)})
           /\ UNCHANGED <<ddFixed, count, converting, todo, writing, broken, dat, dstatus, records>>
  <2>1. /\ dat' = dat
        /\ ddin' = ddin /\ ddopt' = ddopt /\ cblok' = cblok /\ ctrunc' = ctrunc
        /\ truncated' = truncated /\ todo' = todo /\ oblok' = oblok /\ dout' = dout /\ wrote' = wrote
        /\ broken' = broken /\ records' = records
    BY <1>5 DEF ddFixed, converting, writing
  <2>2. ddoff' \in 0..Len(ddin)
    <3>1. Min({off + i, all}) = IF off + i <= all THEN off + i ELSE all
      BY MinOfTwo
    <3>2. ddoff' = Min({off + i, all})
      BY <1>3, <1>5
    <3> QED
      BY <1>3, <3>1, <3>2
  <2> QED
    BY <1>1, <1>2, <2>1, <2>2, QuitKeeps
<1>6. CASE /\ ddopt.noerror /\ ddopt.sync
           /\ Take(0, Min({ibs, Left}))
  <2>1. PICK size \in Nat : size = Min({ibs, Left}) /\ size <= all - off
    <3>1. Min({i, all - off}) = IF i <= all - off THEN i ELSE all - off
      BY MinOfTwo
    <3>2. all - off \in Nat
      BY <1>3
    <3> QED
      BY <1>3, <3>1, <3>2
  <2>2. ddoff + 0 <= Len(ddin) /\ ddoff + size <= Len(ddin) /\ 0 \in Nat
    BY <1>3, <2>1
  <2>3. Take(0, size)
    BY <1>6, <2>1
  <2> QED
    BY <1>2, <2>2, <2>3, TakeKeeps
<1> QED
  BY <1>4, <1>5, <1>6 DEF ReadFails

-----------------------------------------------------------------------------
(* dd: a block is written                                                  *)

LEMMA WrittenKeeps ==
    ASSUME DdInv, Writing, NEW part \in Seq(Nat), NEW kept \in Seq(Nat), NEW rest \in Seq(Nat),
           oblok \o data = (part \o kept) \o rest, Len(kept) <= obs, Direct => kept = <<>>,
           dout' = dout \o part, oblok' = kept, Todo(rest),
           \/ wrote' = wrote
           \/ \E size \in Nat, n \in Nat :
                  (~Direct => size = obs) /\ wrote' = Append(wrote, [size |-> size, n |-> n]),
           UNCHANGED <<ddin, ddopt, ddoff, cblok, ctrunc, truncated, broken, dat, records>>
    PROVE  DdInv'
<1>0. DdStates /\ Divided /\ LongLinesCounted /\ Sizes
  BY DEF DdInv
<1>1. /\ ddin' = ddin /\ ddopt' = ddopt /\ ddoff' = ddoff /\ cblok' = cblok /\ ctrunc' = ctrunc
      /\ truncated' = truncated /\ broken' = broken /\ dat' = dat /\ records' = records
  OBVIOUS
<1>2. todo # <<>> /\ ~broken /\ dat \in {"dd", "quit"}
  BY DEF Writing
<1>3. obs' = obs /\ cbs' = cbs /\ (Direct' <=> Direct)
  BY <1>1, SameSizes
<1>4. todo' \in Seq(Portions) /\ Texts(todo') = rest \o Texts(Tail(todo))
  <2>1. PICK new : new = todo'
    OBVIOUS
  <2>2. new = IF rest = <<>> THEN Tail(todo) ELSE <<[Head(todo) EXCEPT !.s = rest]>> \o Tail(todo)
    BY <2>1 DEF Todo
  <2>3. todo \in Seq(Portions)
    BY <1>0 DEF DdStates
  <2>4. new \in Seq(Portions) /\ Texts(new) = rest \o Texts(Tail(todo))
    BY <1>2, <2>2, <2>3, TodoIs
  <2> QED
    BY <2>1, <2>4
<1>5. PICK d \in Seq(Nat), o \in Seq(Nat), h \in Seq(Nat), t \in Seq(Nat) :
          /\ d = dout /\ o = oblok /\ h = data /\ t = Texts(Tail(todo))
          /\ Texts(todo) = h \o t
  <2>1. todo \in Seq(Portions)
    BY <1>0 DEF DdStates
  <2>2. /\ Head(todo) \in Portions /\ Tail(todo) \in Seq(Portions)
        /\ Texts(todo) = Head(todo).s \o Texts(Tail(todo))
    BY <1>2, <2>1, TextsOfRest
  <2>3. Texts(Tail(todo)) \in Seq(Nat)
    BY <2>2, TextsFacts
  <2>4. data \in Seq(Nat) /\ data = Head(todo).s
    BY <2>2 DEF data, Portions
  <2> QED
    BY <1>0, <2>2, <2>3, <2>4 DEF DdStates
<1>6. InHand' = InHand
  <2>1. Joined(o, h) = Joined(Joined(part, kept), rest) =>
            Joined(Joined(Joined(d, part), kept), Joined(rest, t)) = Joined(Joined(d, o), Joined(h, t))
    <3>1. MovesOn(d, o, h, t, part, kept, rest)
      BY Moved, Zenon
    <3> QED
      BY <3>1, Zenon DEF MovesOn
  <2>2. Joined(o, h) = Joined(Joined(part, kept), rest)
    BY <1>5, Zenon DEF Joined
  <2>3. InHand = Joined(Joined(d, o), Joined(h, t))
    BY <1>5, Zenon DEF InHand, Joined
  <2>4. InHand' = (dout' \o oblok') \o Texts(todo')
    BY DEF InHand
  <2>5. (dout' \o oblok') \o Texts(todo') = Joined(Joined(Joined(d, part), kept), Joined(rest, t))
    BY <1>4, <1>5, Zenon DEF Joined
  <2> QED
    BY <2>1, <2>2, <2>3, <2>4, <2>5, Zenon
<1>7. Divided'
  <2>1. Direct => oblok' = <<>>
    OBVIOUS
  <2>2. dat # "exit"
    BY <1>2
  <2> QED
    BY <1>0, <1>1, <1>2, <1>6, <2>1, <2>2, HandKept
<1>8. LongLinesCounted'
  BY <1>0, <1>1, CountKept
<1>9. dout' \in Seq(Nat)
  <2>1. d \o part \in Seq(Nat)
    BY JoinType
  <2> QED
    BY <1>5, <2>1
<1>10. wrote' \in Seq([size : Nat, n : Nat]) /\ Sizes'
  <2>1. CASE wrote' = wrote
    BY <1>0, <1>1, <1>2, <2>1, SizesKept DEF DdStates
  <2>2. ASSUME NEW size \in Nat, NEW n \in Nat, ~Direct => size = obs,
               wrote' = Append(wrote, [size |-> size, n |-> n])
        PROVE  wrote' \in Seq([size : Nat, n : Nat]) /\ Sizes'
    <3>1. PICK w \in Seq([size : Nat, n : Nat]), e \in [size : Nat, n : Nat], m \in Nat :
              w = wrote /\ e = [size |-> size, n |-> n] /\ m = Len(w)
      BY <1>0, LenProperties DEF DdStates
    <3>2. /\ Append(w, e) \in Seq([size : Nat, n : Nat]) /\ DOMAIN Append(w, e) = 1..m + 1
          /\ Append(w, e)[m + 1] = e /\ \A j \in 1..m : Append(w, e)[j] = w[j]
      BY <3>1, AppendFacts
    <3>3. DOMAIN w = 1..m
      BY <3>1, LenProperties
    <3>4. ~Direct => \A k \in DOMAIN wrote' : wrote'[k].size = obs
      <4> SUFFICES ASSUME ~Direct, NEW k \in 1..m + 1 PROVE Append(w, e)[k].size = obs
        BY <2>2, <3>1, <3>2
      <4>1. CASE k = m + 1
        BY <2>2, <3>1, <3>2, <4>1
      <4>2. CASE k # m + 1
        <5>1. k \in 1..m
          BY <4>2
        <5>2. wrote[k].size = obs
          BY <1>0, <1>2, <3>1, <3>3, <5>1, WholeSoFar
        <5> QED
          BY <3>1, <3>2, <5>1, <5>2
      <4> QED
        BY <4>1, <4>2
    <3>5. Sizes'
      BY <1>3, <3>4 DEF Sizes
    <3> QED
      BY <2>2, <3>1, <3>2, <3>5
  <2> QED
    BY <2>1, <2>2
<1>11. DdStates'
  BY <1>0, <1>1, <1>3, <1>4, <1>9, <1>10 DEF DdStates
<1> QED
  BY <1>7, <1>8, <1>10, <1>11 DEF DdInv

\* A sequence of m elements, divided behind the n-th one.
PartsOf(s, n, m) ==
    \E a \in Seq(Nat) : \E b \in Seq(Nat) :
        /\ a = SubSeq(s, 1, n) /\ b = SubSeq(s, n + 1, m) /\ a \o b = s
        /\ Len(a) = n /\ Len(b) = m - n

LEMMA PartsExist ==
    ASSUME NEW s \in Seq(Nat), NEW m \in Nat, m = Len(s), NEW n \in 0..m
    PROVE  PartsOf(s, n, m)
<1>1. n \in 0..Len(s)
  OBVIOUS
<1>2. /\ SubSeq(s, 1, n) \in Seq(Nat) /\ SubSeq(s, n + 1, Len(s)) \in Seq(Nat)
      /\ Len(SubSeq(s, 1, n)) = n /\ Len(SubSeq(s, n + 1, Len(s))) = Len(s) - n
      /\ SubSeq(s, 1, n) \o SubSeq(s, n + 1, Len(s)) = s
  BY <1>1, JoinParts, Zenon
<1>3. PICK a \in Seq(Nat) : a = SubSeq(s, 1, n)
  BY <1>2, Zenon
<1>4. PICK b \in Seq(Nat) : b = SubSeq(s, n + 1, m)
  BY <1>2, Zenon
<1>5. a = SubSeq(s, 1, n) /\ b = SubSeq(s, n + 1, m) /\ a \o b = s /\ Len(a) = n /\ Len(b) = m - n
  BY <1>2, <1>3, <1>4, Zenon
<1> QED
  BY <1>5, Zenon DEF PartsOf

LEMMA ShortIs ==
    ASSUME NEW m \in Nat, NEW n \in Short(m)
    PROVE  n \in 0..m /\ (m > 0 => n > 0)
<1>1. Short(m) = 1..m \/ Short(m) = {m}
  BY DEF Short
<1> QED
  BY <1>1

LEMMA DataType ==
    ASSUME DdInv, Writing
    PROVE  /\ data \in Seq(Nat) /\ Len(data) \in Nat /\ oblok \in Seq(Nat) /\ Len(oblok) \in Nat
           /\ obs \in Nat \ {0} /\ Len(oblok) <= obs /\ dout \in Seq(Nat)
<1>1. todo \in Seq(Portions) /\ todo # <<>>
  BY DEF DdInv, DdStates, Writing
<1>2. Head(todo) \in Portions
  BY <1>1, TextsOfRest
<1>3. data \in Seq(Nat)
  BY <1>2 DEF data, Portions
<1>4. Len(data) \in Nat /\ Len(oblok) \in Nat /\ oblok \in Seq(Nat)
  BY <1>3, LenProperties DEF DdInv, DdStates
<1>5. obs \in Nat \ {0}
  BY OptionsAre DEF DdInv, DdStates
<1> QED
  BY <1>3, <1>4, <1>5 DEF DdInv, DdStates

LEMMA DWriteKeeps ==
    ASSUME DdInv, DWrite
    PROVE  DdInv'
<1>0. Writing /\ Direct /\ oblok = <<>>
  BY DEF DWrite, DdInv, Divided
<1>1. PICK h \in Seq(Nat), m \in Nat : h = data /\ m = Len(h)
  BY <1>0, DataType
<1>2. PICK n \in Short(m) : Wrote(h, n, m) /\ Todo(SubSeq(h, n + 1, m))
  BY <1>1 DEF DWrite
<1>3. n \in 0..m
  BY ShortIs
<1>4. PICK part \in Seq(Nat), rest \in Seq(Nat), kept \in Seq(Nat) :
          part = SubSeq(h, 1, n) /\ rest = SubSeq(h, n + 1, m) /\ part \o rest = h /\ kept = <<>>
  <2>2. <<>> \in Seq(Nat)
    BY EmptySeq
  <2>1. PartsOf(h, n, m)
    BY <1>1, <1>3, PartsExist, Zenon
  <2> QED
    BY <2>1, <2>2, Zenon DEF PartsOf
<1>5. oblok \o data = (part \o kept) \o rest
  <2>1. <<>> \o h = h /\ part \o <<>> = part
    BY JoinEmpty
  <2> QED
    BY <1>0, <1>1, <1>4, <2>1, Zenon
<1>6. Len(kept) <= obs
  <2>1. Len(<<>>) = 0 /\ obs \in Nat
    BY <1>0, DataType
  <2> QED
    BY <1>4, <2>1
<1>7. dout' = dout \o part /\ oblok' = kept /\ Todo(rest)
  BY <1>0, <1>2, <1>4 DEF DWrite, Wrote
<1>8. \E size \in Nat, i \in Nat : (~Direct => size = obs) /\ wrote' = Append(wrote, [size |-> size, n |-> i])
  <2>1. wrote' = Append(wrote, [size |-> m, n |-> n])
    BY <1>2 DEF Wrote
  <2>2. n \in Nat
    BY <1>3
  <2> QED
    BY <1>0, <2>1, <2>2
<1>9. UNCHANGED <<ddin, ddopt, ddoff, cblok, ctrunc, truncated, broken, dat, records>>
  BY DEF DWrite, ddFixed, converting
<1> QED
  BY <1>0, <1>4, <1>5, <1>6, <1>7, <1>8, <1>9, WrittenKeeps

LEMMA BWriteFullKeeps ==
    ASSUME DdInv, BWriteFull
    PROVE  DdInv'
<1>0. Writing /\ ~Direct /\ Len(oblok) + Len(data) > obs
  BY DEF BWriteFull
<1>1. PICK h \in Seq(Nat), m \in Nat, o \in Seq(Nat), k \in Nat, z \in Nat :
          h = data /\ m = Len(h) /\ o = oblok /\ k = Len(o) /\ z = obs /\ k <= z /\ k + m > z /\ z > 0
  <2>1. /\ data \in Seq(Nat) /\ Len(data) \in Nat /\ oblok \in Seq(Nat) /\ Len(oblok) \in Nat
        /\ obs \in Nat \ {0} /\ Len(oblok) <= obs
    BY <1>0, DataType
  <2>2. obs \in Nat /\ obs > 0
    BY <2>1
  <2> QED
    BY <1>0, <2>1, <2>2
<1>1t. z - k \in 0..m /\ z \in Nat
  BY <1>1
<1>2. PICK di \in 0..m : di = z - k
  BY <1>1t
<1>3. PICK x \in Seq(Nat), rest \in Seq(Nat) :
          x = SubSeq(h, 1, di) /\ rest = SubSeq(h, di + 1, m) /\ Len(x) = di /\ x \o rest = h
  <2>1. PartsOf(h, di, m)
    BY <1>1, <1>2, PartsExist, Zenon
  <2> QED
    BY <2>1, Zenon DEF PartsOf
<1>4. PICK all \in Seq(Nat) : all = o \o x /\ Len(all) = z
  <2>1. PICK all : all = o \o x
    OBVIOUS
  <2>2. all \in Seq(Nat) /\ Len(all) = Len(o) + Len(x)
    BY <2>1, ConcatProperties
  <2>3. Len(o) + Len(x) = z
    BY <1>1, <1>2, <1>3
  <2> QED
    BY <2>1, <2>2, <2>3, Zenon
<1>5. PICK n \in Short(z) : Wrote(all, n, z) /\ oblok' = SubSeq(all, n + 1, z) /\ Todo(rest)
  BY <1>1, <1>2, <1>3, <1>4 DEF BWriteFull
<1>6. n \in 0..z
  BY ShortIs
<1>7. PICK part \in Seq(Nat), kept \in Seq(Nat) :
          /\ part = SubSeq(all, 1, n) /\ kept = SubSeq(all, n + 1, z) /\ part \o kept = all
          /\ Len(kept) = z - n
  <2>1. PartsOf(all, n, z)
    BY <1>1t, <1>4, <1>6, PartsExist, Zenon
  <2> QED
    BY <2>1, Zenon DEF PartsOf
<1>8. oblok \o data = (part \o kept) \o rest
  <2>1. Joined(Joined(o, x), rest) = Joined(o, Joined(x, rest))
    BY JoinedFacts
  <2>2. (o \o x) \o rest = o \o (x \o rest)
    BY <2>1, Zenon DEF Joined
  <2> QED
    BY <1>1, <1>3, <1>4, <1>7, <2>2, Zenon
<1>9. Len(kept) <= obs
  BY <1>1, <1>6, <1>7
<1>10. dout' = dout \o part /\ oblok' = kept /\ Todo(rest)
  BY <1>5, <1>7 DEF Wrote
<1>11. \E size \in Nat, i \in Nat : (~Direct => size = obs) /\ wrote' = Append(wrote, [size |-> size, n |-> i])
  <2>1. wrote' = Append(wrote, [size |-> z, n |-> n])
    BY <1>5 DEF Wrote
  <2>2. n \in Nat
    BY <1>6
  <2> QED
    BY <1>1, <2>1, <2>2
<1>12. UNCHANGED <<ddin, ddopt, ddoff, cblok, ctrunc, truncated, broken, dat, records>>
  BY DEF BWriteFull, ddFixed, converting
<1> QED
  BY <1>0, <1>7, <1>8, <1>9, <1>10, <1>11, <1>12, WrittenKeeps

LEMMA BWriteKeepKeeps ==
    ASSUME DdInv, BWriteKeep
    PROVE  DdInv'
<1>0. Writing /\ ~Direct /\ Len(oblok) + Len(data) <= obs
  BY DEF BWriteKeep
<1>1. PICK h \in Seq(Nat), m \in Nat, o \in Seq(Nat), k \in Nat, z \in Nat, d \in Seq(Nat), nil \in Seq(Nat) :
          /\ h = data /\ m = Len(h) /\ o = oblok /\ k = Len(o) /\ z = obs /\ k + m <= z
          /\ d = dout /\ nil = <<>>
  BY <1>0, DataType, EmptySeq
<1>2. UNCHANGED <<ddin, ddopt, ddoff, cblok, ctrunc, truncated, broken, dat, records>>
  BY DEF BWriteKeep, ddFixed, converting
<1>3. Todo(nil)
  BY <1>1 DEF BWriteKeep, Todo
<1>4. CASE Len(data) = obs /\ \E n \in Short(obs) : Wrote(data, n, obs) /\ oblok' = SubSeq(data, n + 1, obs)
  <2>1. m = z /\ o = <<>>
    <3>1. m = z /\ k = 0
      BY <1>1, <1>4
    <3> QED
      BY <1>1, <3>1, EmptySeq
  <2>1t. h \in Seq(Nat) /\ z \in Nat /\ z = Len(h)
    BY <1>1, <2>1
  <2>2. PICK n \in Short(z) : Wrote(h, n, z) /\ oblok' = SubSeq(h, n + 1, z)
    BY <1>1, <1>4
  <2>3. n \in 0..z
    BY ShortIs
  <2>4. PICK part \in Seq(Nat), kept \in Seq(Nat) :
            /\ part = SubSeq(h, 1, n) /\ kept = SubSeq(h, n + 1, z) /\ part \o kept = h
            /\ Len(kept) = z - n
    <3>1. PartsOf(h, n, z)
      BY <2>1t, <2>3, PartsExist, Zenon
    <3> QED
      BY <3>1, Zenon DEF PartsOf
  <2>5. oblok \o data = (part \o kept) \o nil
    <3>1. <<>> \o h = h /\ h \o <<>> = h
      BY JoinEmpty
    <3> QED
      BY <1>1, <2>1, <2>4, <3>1, Zenon
  <2>6. Len(kept) <= obs
    BY <1>1, <2>1, <2>3, <2>4
  <2>7. dout' = dout \o part /\ oblok' = kept
    BY <2>2, <2>4 DEF Wrote
  <2>8. \E size \in Nat, i \in Nat : (~Direct => size = obs) /\ wrote' = Append(wrote, [size |-> size, n |-> i])
    <3>1. wrote' = Append(wrote, [size |-> z, n |-> n])
      BY <2>2 DEF Wrote
    <3>2. n \in Nat
      BY <2>3
    <3> QED
      BY <1>1, <3>1, <3>2
  <2> QED
    BY <1>0, <1>2, <1>3, <2>4, <2>5, <2>6, <2>7, <2>8, WrittenKeeps
<1>5. CASE oblok' = oblok \o data /\ dout' = dout /\ wrote' = wrote
  <2>1. PICK kept \in Seq(Nat) : kept = o \o h /\ Len(kept) = k + m
    BY <1>1, ConcatProperties
  <2>2. <<>> \o kept = kept /\ kept \o <<>> = kept
    BY JoinEmpty
  <2>3. oblok \o data = (nil \o kept) \o nil
    BY <1>1, <2>1, <2>2, Zenon
  <2>4. Len(kept) <= obs
    BY <1>1, <2>1
  <2>5. dout' = dout \o nil
    <3>1. d \o <<>> = d
      BY JoinEmpty
    <3> QED
      BY <1>1, <1>5, <3>1, Zenon
  <2>6. oblok' = kept
    BY <1>1, <1>5, <2>1, Zenon
  <2> QED
    BY <1>0, <1>2, <1>3, <1>5, <2>3, <2>4, <2>5, <2>6, WrittenKeeps
<1> QED
  BY <1>4, <1>5 DEF BWriteKeep

-----------------------------------------------------------------------------
(* dd: the end                                                             *)

LEMMA SameConverted ==
    ASSUME ddopt' = ddopt, records' = records
    PROVE  Reference(AllRead)' = Reference(AllRead)
<1>1. PICK r : r = AllRead
  OBVIOUS
<1>2. r = AllRead'
  BY <1>1 DEF AllRead
<1>3. Reference(r)' = Reference(r)
  BY SameReference
<1> QED
  BY <1>1, <1>2, <1>3

LEMMA QuitRecordKeeps ==
    ASSUME DdInv, QuitRecord
    PROVE  DdInv'
<1>0. DdStates /\ Divided /\ LongLinesCounted /\ Sizes
  BY DEF DdInv
<1>1. /\ dat = "quit" /\ todo = <<>> /\ cblok # <<>> /\ todo' = <<Portion(cblok)>> /\ cblok' = <<>>
      /\ ddin' = ddin /\ ddopt' = ddopt /\ ddoff' = ddoff /\ ctrunc' = ctrunc
      /\ truncated' = truncated /\ oblok' = oblok /\ dout' = dout /\ wrote' = wrote
      /\ broken' = broken /\ dat' = dat /\ records' = records
  BY DEF QuitRecord, ddFixed, writing
<1>2. ~broken
  BY <1>0, <1>1 DEF Divided
<1>3. obs' = obs /\ cbs' = cbs /\ (Direct' <=> Direct)
  BY <1>1, SameSizes
<1>4. PICK b \in Seq(Nat), u \in Seq(Nat), nil \in Seq(Portions) : b = cblok /\ u = dout \o oblok /\ nil = <<>>
  <2>1. dout \o oblok \in Seq(Nat)
    BY <1>0, HandType
  <2>2. <<>> \in Seq(Portions)
    BY EmptySeq
  <2> QED
    BY <1>0, <2>1, <2>2 DEF DdStates
<1>5. PICK p \in Portions : p = Portion(b) /\ p.s = FlushedOnce(b) /\ p.s \in Seq(Nat)
  <2>1. ddopt \in DdOptions /\ ddopt.conv # "none" /\ Len(b) <= cbs
    BY <1>0, <1>1, <1>4 DEF DdStates
  <2> QED
    BY <2>1, PortionFacts
<1>6. Append(nil, p) \in Seq(Portions) /\ Texts(Append(nil, p)) = Texts(nil) \o p.s /\ Texts(nil) = <<>>
  <2>1. Append(nil, p) \in Seq(Portions)
    BY AppendProperties
  <2>2. Texts(Append(nil, p)) = Texts(nil) \o p.s
    BY TextsFacts
  <2>3. Texts(nil) = <<>>
    BY <1>4, TextsFacts
  <2> QED
    BY <2>1, <2>2, <2>3
<1>7. todo' = Append(nil, p)
  <2>1. Append(<<>>, p) = <<p>>
    OBVIOUS
  <2> QED
    BY <1>1, <1>4, <1>5, <2>1, Zenon
<1>8. PICK f \in Seq(Nat) : f = p.s
  BY <1>5
<1>9. Texts(todo') = f
  <2>1. <<>> \o f = f
    BY JoinEmpty
  <2> QED
    BY <1>6, <1>7, <1>8, <2>1, Zenon
<1>10. InHand' = u \o f
  <2>1. InHand' = (dout' \o oblok') \o Texts(todo')
    BY DEF InHand
  <2> QED
    BY <1>1, <1>4, <1>9, <2>1, Zenon
<1>11. u \o f = Reference(AllRead)
  <2>1. u \o <<>> = u
    BY JoinEmpty
  <2>2. InHand = u
    BY <1>1, <1>4, <1>6, <2>1, Zenon DEF InHand
  <2>3. Flushed(cblok) = f
    BY <1>1, <1>4, <1>5, <1>8, Zenon DEF Flushed
  <2>4. InHand \o Flushed(cblok) = Reference(AllRead)
    BY <1>0, <1>2 DEF Divided
  <2> QED
    BY <2>2, <2>3, <2>4, Zenon
<1>12. Flushed(cblok)' = <<>>
  BY <1>1 DEF Flushed
<1>13. InHand' \o Flushed(cblok)' = Reference(AllRead)'
  <2>1. PICK w \in Seq(Nat) : w = u \o f
    BY JoinType
  <2>2. w \o <<>> = w
    BY JoinEmpty
  <2>3. Reference(AllRead)' = Reference(AllRead)
    BY <1>1, SameConverted
  <2> QED
    BY <1>10, <1>11, <1>12, <2>1, <2>2, <2>3, Zenon
<1>14. Divided'
  <2>1. dat' = "quit" /\ ~broken' /\ ~Ended' /\ (Direct' => oblok' = <<>>)
    BY <1>0, <1>1, <1>2, <1>3 DEF Divided, Ended
  <2> QED
    BY <1>13, <2>1 DEF Divided
<1>15. LongLinesCounted'
  BY <1>0, <1>1, CountKept
<1>16. Sizes'
  BY <1>0, <1>1, SizesKept
<1>17. DdStates'
  <2>1. <<>> \in Seq(Nat) /\ Len(<<>>) = 0
    BY EmptySeq
  <2>2. cbs \in Nat
    BY <1>0, OptionsAre DEF DdStates
  <2>3. todo' \in Seq(Portions)
    BY <1>6, <1>7, Zenon
  <2>4. cblok' \in Seq(Nat) /\ Len(cblok') <= cbs'
    BY <1>1, <1>3, <2>1, <2>2
  <2> QED
    BY <1>0, <1>1, <1>3, <2>3, <2>4 DEF DdStates
<1> QED
  BY <1>14, <1>15, <1>16, <1>17 DEF DdInv

LEMMA BFlushKeeps ==
    ASSUME DdInv, BFlush
    PROVE  DdInv'
<1>0. DdStates /\ Divided /\ LongLinesCounted /\ Sizes
  BY DEF DdInv
<1>1. /\ dat = "quit" /\ todo = <<>> /\ cblok = <<>> /\ ~broken
      /\ ddin' = ddin /\ ddopt' = ddopt /\ ddoff' = ddoff /\ cblok' = cblok /\ ctrunc' = ctrunc
      /\ truncated' = truncated /\ todo' = todo /\ broken' = broken /\ records' = records
  BY DEF BFlush, ddFixed, converting
<1>2. obs' = obs /\ cbs' = cbs /\ (Direct' <=> Direct)
  BY <1>1, SameSizes
<1>3. LongLinesCounted'
  BY <1>0, <1>1, CountKept
<1>4. CASE oblok = <<>>
  <2>1. dat' = "exit" /\ oblok' = oblok /\ dout' = dout /\ wrote' = wrote
    BY <1>4 DEF BFlush
  <2>2. Reference(AllRead)' = Reference(AllRead)
    BY <1>1, SameConverted
  <2>3. InHand' = InHand
    BY <1>1, <2>1 DEF InHand
  <2>4. Flushed(cblok)' = Flushed(cblok)
    BY <1>1 DEF Flushed
  <2>5. InHand' \o Flushed(cblok)' = Reference(AllRead)'
    BY <1>0, <1>1, <2>2, <2>3, <2>4 DEF Divided
  <2>6. Divided'
    BY <1>1, <1>4, <2>1, <2>5 DEF Divided
  <2>7. Sizes'
    BY <1>0, <1>1, <1>2, <2>1 DEF Sizes
  <2>8. DdStates'
    BY <1>0, <1>1, <1>2, <2>1 DEF DdStates
  <2> QED
    BY <1>3, <2>6, <2>7, <2>8 DEF DdInv
<1>5. CASE oblok # <<>>
  <2>1. PICK o \in Seq(Nat), m \in Nat, d \in Seq(Nat) : o = oblok /\ m = Len(o) /\ d = dout /\ m > 0
    <3>1. Len(oblok) \in Nat \ {0}
      BY <1>0, <1>5, EmptySeq DEF DdStates
    <3> QED
      BY <1>0, <3>1 DEF DdStates
  <2>2. PICK n \in Short(m) :
            /\ dout' = dout \o SubSeq(o, 1, n)
            /\ wrote' = Append(wrote, [size |-> m, n |-> n])
            /\ oblok' = SubSeq(o, n + 1, m) /\ dat' = dat
    BY <1>5, <2>1 DEF BFlush
  <2>3. n \in 0..m /\ n > 0
    BY <2>1, ShortIs
  <2>4. PICK part \in Seq(Nat), kept \in Seq(Nat) :
            /\ part = SubSeq(o, 1, n) /\ kept = SubSeq(o, n + 1, m) /\ part \o kept = o
            /\ Len(kept) = m - n
    <3>1. PartsOf(o, n, m)
      BY <2>1, <2>3, PartsExist, Zenon
    <3> QED
      BY <3>1, Zenon DEF PartsOf
  <2>5. InHand' = InHand
    <3>1. Joined(Joined(d, part), kept) = Joined(d, Joined(part, kept))
      BY JoinedFacts
    <3>2. (d \o part) \o kept = d \o o
      BY <2>4, <3>1, Zenon DEF Joined
    <3>3. InHand' = (dout' \o oblok') \o Texts(todo')
      BY DEF InHand
    <3>4. InHand' = ((d \o part) \o kept) \o Texts(todo)
      BY <1>1, <2>1, <2>2, <2>4, <3>3, Zenon
    <3> QED
      BY <2>1, <3>2, <3>4, Zenon DEF InHand
  <2>6. Divided'
    <3>1. ~Direct
      BY <1>0, <1>5 DEF Divided
    <3>2. dat # "exit"
      BY <1>1
    <3> QED
      BY <1>0, <1>1, <2>2, <2>5, <3>1, <3>2, HandKept
  <2>7. PICK w \in Seq([size : Nat, n : Nat]), e \in [size : Nat, n : Nat], l \in Nat :
            w = wrote /\ e = [size |-> m, n |-> n] /\ l = Len(w)
    <3>1. n \in Nat
      BY <2>3
    <3> QED
      BY <1>0, <3>1, LenProperties DEF DdStates
  <2>8. /\ Append(w, e) \in Seq([size : Nat, n : Nat]) /\ DOMAIN Append(w, e) = 1..l + 1
        /\ Len(Append(w, e)) = l + 1
        /\ Append(w, e)[l + 1] = e /\ \A j \in 1..l : Append(w, e)[j] = w[j]
    BY <2>7, AppendFacts
  <2>9. DOMAIN w = 1..l
    BY <2>7, LenProperties
  <2>10. PICK v : v = wrote' /\ v = Append(w, e)
    BY <2>2, <2>7
  <2>11. v[l + 1].size = m /\ \A j \in 1..l : v[j].size = w[j].size /\ w[j].size \in Nat
    <3>1. v[l + 1].size = m
      BY <2>7, <2>8, <2>10
    <3>2. ASSUME NEW j \in 1..l PROVE v[j].size = w[j].size /\ w[j].size \in Nat
      <4>1. w[j] \in [size : Nat, n : Nat]
        BY <2>7, ElementOfSeq
      <4> QED
        BY <2>8, <2>10, <4>1
    <3> QED
      BY <3>1, <3>2
  <2>12. Sizes'
    <3> SUFFICES ASSUME ~Direct, NEW k \in 1..l + 1
                 PROVE  \/ v[k].size = obs
                        \/ /\ v[k].size > m - n
                           /\ \A j \in k + 1..l + 1 : v[j].size < v[k].size
      <4>1. DOMAIN wrote' = 1..l + 1 /\ Len(wrote') = l + 1
        BY <2>8, <2>10
      <4>2. dat' = "quit" /\ todo' = <<>> /\ cblok' = <<>> /\ Len(oblok') = m - n
        BY <1>1, <2>2, <2>4
      <4> QED
        BY <1>2, <2>10, <4>1, <4>2 DEF Sizes
    <3>1. CASE k = l + 1
      <4>1. v[k].size > m - n
        BY <2>3, <2>11, <3>1
      <4>2. \A j \in k + 1..l + 1 : FALSE
        BY <3>1
      <4> QED
        BY <4>1, <4>2
    <3>2. CASE k # l + 1
      <4>1. k \in 1..l
        BY <3>2
      <4>2. CASE w[k].size = obs
        BY <2>11, <4>1, <4>2
      <4>3. CASE w[k].size > m /\ \A j \in k + 1..l : w[j].size < w[k].size
        <5>1. v[k].size > m - n
          BY <2>3, <2>11, <4>1, <4>3, SMTT(60)
        <5>2. ASSUME NEW j \in k + 1..l + 1 PROVE v[j].size < v[k].size
          <6>1. CASE j = l + 1
            BY <2>11, <4>1, <4>3, <6>1
          <6>2. CASE j # l + 1
            <7>1. j \in k + 1..l /\ j \in 1..l
              BY <4>1, <6>2
            <7> QED
              BY <2>11, <4>1, <4>3, <7>1
          <6> QED
            BY <6>1, <6>2
        <5> QED
          BY <5>1, <5>2
      <4>4. w[k].size = obs \/ (w[k].size > m /\ \A j \in k + 1..l : w[j].size < w[k].size)
        BY <1>0, <2>1, <2>7, <2>9, <4>1 DEF Sizes
      <4> QED
        BY <4>2, <4>3, <4>4
    <3> QED
      BY <3>1, <3>2
  <2>13. DdStates'
    <3>1. dout' \in Seq(Nat)
      <4>1. d \o part \in Seq(Nat)
        BY JoinType
      <4> QED
        BY <2>1, <2>2, <2>4, <4>1
    <3>2. Len(oblok') <= obs
      <4>1. m <= obs /\ obs \in Nat
        BY <1>0, <2>1, OptionsAre DEF DdStates
      <4> QED
        BY <2>2, <2>3, <2>4, <4>1
    <3>3. oblok' \in Seq(Nat) /\ wrote' \in Seq([size : Nat, n : Nat])
      BY <2>2, <2>4, <2>8, <2>10
    <3> QED
      BY <1>0, <1>1, <1>2, <2>2, <3>1, <3>2, <3>3 DEF DdStates
  <2> QED
    BY <1>3, <2>6, <2>12, <2>13 DEF DdInv
<1> QED
  BY <1>4, <1>5

LEMMA WriteFailsKeeps ==
    ASSUME DdInv, WriteFails
    PROVE  DdInv'
<1>0. DdStates /\ Divided /\ LongLinesCounted /\ Sizes
  BY DEF DdInv
<1>1. /\ broken' = TRUE /\ oblok' = <<>> /\ todo' = <<>> /\ cblok' = <<>> /\ dstatus' = 1
      /\ ddin' = ddin /\ ddopt' = ddopt /\ ddoff' = ddoff /\ ctrunc' = ctrunc
      /\ truncated' = truncated /\ dout' = dout /\ wrote' = wrote /\ records' = records
      /\ dat' \in {"exit", "recursion"} /\ (dat' = "recursion" => todo # <<>>)
  BY DEF WriteFails, ddFixed
<1>2. obs' = obs /\ cbs' = cbs /\ obs \in Nat /\ cbs \in Nat
  BY <1>0, <1>1, SameSizes, OptionsAre DEF DdStates
<1>3. Direct' <=> Direct
  BY <1>1, SameSizes
<1>4. <<>> \in Seq(Nat) /\ <<>> \in Seq(Portions) /\ Len(<<>>) = 0
  BY EmptySeq
<1>5. Divided'
  <2>1. Reference(AllRead)' = Reference(AllRead)
    BY <1>1, SameConverted
  <2>2. IsPrefix(dout, Reference(AllRead))
    BY <1>0, OutIsPrefix
  <2>3. IsPrefix(dout, Reference(AllRead))'
    BY <1>1, <2>1, <2>2
  <2> QED
    BY <1>1, <2>3 DEF Divided, Ended
<1>6. LongLinesCounted'
  BY <1>0, <1>1, CountKept
<1>7. Sizes'
  <2> SUFFICES ASSUME ~Direct, NEW k \in DOMAIN wrote
               PROVE  \/ wrote[k].size = obs
                      \/ /\ dat' \in {"quit", "exit"} /\ wrote[k].size > 0
                         /\ \A j \in k + 1..Len(wrote) : wrote[j].size < wrote[k].size
    BY <1>1, <1>2, <1>3, <1>4 DEF Sizes
  <2>1. Len(oblok) \in Nat /\ wrote[k].size \in Nat
    <3>1. Len(oblok) \in Nat
      BY <1>0, LenProperties DEF DdStates
    <3>2. wrote \in Seq([size : Nat, n : Nat])
      BY <1>0 DEF DdStates
    <3>3. wrote[k] \in [size : Nat, n : Nat]
      BY <3>2, LenProperties, ElementOfSeq
    <3> QED
      BY <3>1, <3>3
  <2>2. CASE todo # <<>>
    BY <1>0, <2>2, WholeSoFar
  <2>3. CASE todo = <<>>
    <3>1. dat' = "exit"
      BY <1>1, <2>3
    <3>2. \/ wrote[k].size = obs
          \/ /\ wrote[k].size > Len(oblok)
             /\ \A j \in k + 1..Len(wrote) : wrote[j].size < wrote[k].size
      BY <1>0 DEF Sizes
    <3> QED
      BY <2>1, <3>1, <3>2
  <2> QED
    BY <2>2, <2>3
<1>8. DdStates'
  <2>1. oblok' \in Seq(Nat) /\ cblok' \in Seq(Nat) /\ todo' \in Seq(Portions)
    BY <1>1, <1>4
  <2>2. Len(oblok') <= obs' /\ Len(cblok') <= cbs'
    BY <1>1, <1>2, <1>4
  <2> QED
    BY <1>0, <1>1, <2>1, <2>2 DEF DdStates
<1> QED
  BY <1>5, <1>6, <1>7, <1>8 DEF DdInv

LEMMA StandKeeps ==
    ASSUME DdInv, UNCHANGED ddVars
    PROVE  DdInv'
<1>0. DdStates /\ Divided /\ LongLinesCounted /\ Sizes
  BY DEF DdInv
<1>1. /\ ddin' = ddin /\ ddopt' = ddopt /\ ddoff' = ddoff /\ cblok' = cblok /\ ctrunc' = ctrunc
      /\ truncated' = truncated /\ todo' = todo /\ oblok' = oblok /\ dout' = dout /\ wrote' = wrote
      /\ broken' = broken /\ dat' = dat /\ records' = records
  BY DEF ddVars, ddFixed, converting, writing
<1>2. PICK r, b, n : r = AllRead /\ b = cblok /\ n = ctrunc
  OBVIOUS
<1>3. r = AllRead' /\ b = cblok' /\ n = ctrunc'
  BY <1>1, <1>2 DEF AllRead
<1>4. Reference(AllRead)' = Reference(AllRead)
  BY <1>1, SameConverted
<1>5. Flushed(cblok)' = Flushed(cblok)
  <2>1. Flushed(b)' = Flushed(b)
    BY <1>1, SameFlushed
  <2> QED
    BY <1>2, <1>3, <2>1
<1>6. (Together(cblok, ctrunc, AllRead)' <=> Together(cblok, ctrunc, AllRead))
      /\ Converted(ctrunc, AllRead)' = Converted(ctrunc, AllRead)
  <2>1. (Together(b, n, r)' <=> Together(b, n, r)) /\ Converted(n, r)' = Converted(n, r)
    BY <1>1, SameTogether
  <2> QED
    BY <1>2, <1>3, <2>1
<1>7. InHand' = InHand
  BY <1>1 DEF InHand
<1>8. obs' = obs /\ cbs' = cbs /\ (Direct' <=> Direct)
  BY <1>1, SameSizes
<1>9. Divided'
  <2>1. dat' = "dd" => ~broken' /\ Together(cblok, ctrunc, AllRead)' /\ InHand' = Converted(ctrunc, AllRead)'
    BY <1>0, <1>1, <1>6, <1>7 DEF Divided
  <2>2. ~broken' => InHand' \o Flushed(cblok)' = Reference(AllRead)'
    BY <1>0, <1>1, <1>4, <1>5, <1>7 DEF Divided
  <2>3. broken' => dat' \in {"exit", "recursion"} /\ IsPrefix(dout, Reference(AllRead))'
    BY <1>0, <1>1, <1>4 DEF Divided
  <2>4. dat' = "recursion" => broken'
    BY <1>0, <1>1 DEF Divided
  <2>5. Ended' => todo' = <<>> /\ oblok' = <<>> /\ cblok' = <<>>
    BY <1>0, <1>1 DEF Divided, Ended
  <2>6. Direct' => oblok' = <<>>
    BY <1>0, <1>1, <1>8 DEF Divided
  <2> QED
    BY <2>1, <2>2, <2>3, <2>4, <2>5, <2>6 DEF Divided
<1>10. LongLinesCounted'
  BY <1>0, <1>1, CountKept
<1>11. Sizes'
  BY <1>0, <1>1, <1>8 DEF Sizes
<1>12. DdStates'
  BY <1>0, <1>1, <1>8 DEF DdStates
<1> QED
  BY <1>9, <1>10, <1>11, <1>12 DEF DdInv

\* Nothing has been read: the conversion of nothing is nothing.
LEMMA NothingRead ==
    ASSUME ddopt \in DdOptions
    PROVE  /\ Together(<<>>, 0, <<>>) /\ Converted(0, <<>>) = <<>>
           /\ Cardinality(TooLongLines(<<>>)) = 0
<1>1. PICK nil \in Seq(Nat) : nil = <<>> /\ Len(nil) = 0
  BY EmptySeq
<1>2. Current(nil) = <<>>
  <2>1. Current(nil) = SubSeq(nil, 1 + LineBegin(nil, Len(nil) + 1), Len(nil) + 1 - 1)
    <3>1. Len(nil) + 1 \in 1..Len(nil) + 1
      BY <1>1
    <3> QED
      BY <3>1, LineFacts DEF Current
  <2> QED
    BY <1>1, <2>1, CurrentFacts
<1>3. BlockHead(nil) = <<>>
  <2>1. BlockHead(nil) = FlattenSeq(<<>>)
    BY <1>1 DEF BlockHead
  <2> QED
    BY <2>1, FlattenNone
<1>4. cbs \in Nat /\ ddopt.conv \in {"none", "block", "unblock"} /\ (ddopt.conv # "none" => cbs > 0)
  BY OptionsAre
<1>5. Together(nil, 0, nil)
  <2>1. CASE ddopt.conv = "none"
    BY <1>1, <2>1 DEF Together
  <2>2. CASE ddopt.conv = "block"
    <3>1. Len(nil) < cbs /\ ~(Len(nil) > cbs) /\ Len(nil) # cbs
      BY <1>1, <1>4, <2>2
    <3>2. nil = Current(nil)
      BY <1>1, <1>2
    <3>3. Len(Current(nil)) # cbs /\ ~(Len(Current(nil)) > cbs)
      BY <3>1, <3>2
    <3> QED
      BY <2>2, <3>1, <3>2, <3>3 DEF Together
  <2>3. CASE ddopt.conv = "unblock"
    BY <1>1, <2>3 DEF Together, LastPiece
  <2> QED
    BY <1>4, <2>1, <2>2, <2>3
<1>6. Converted(0, nil) = <<>>
  <2>1. CASE ddopt.conv = "none"
    BY <1>1, <2>1 DEF Converted
  <2>2. CASE ddopt.conv = "block"
    BY <1>3, <2>2, EmptyTwice DEF Converted
  <2>3. CASE ddopt.conv = "unblock"
    BY <1>1, <2>3, UnblockHeadIs DEF Converted
  <2> QED
    BY <1>4, <2>1, <2>2, <2>3
<1>7. Cardinality(TooLongLines(<<>>)) = 0
  <2>1. TooLongLines(nil) = {}
    <3>1. LineEnds(nil) = {}
      BY <1>1 DEF LineEnds
    <3> QED
      BY <3>1 DEF TooLongLines
  <2> QED
    BY <1>1, <2>1, FS_EmptySet
<1> QED
  BY <1>1, <1>5, <1>6, <1>7

LEMMA DdBegins ==
    ASSUME DdInit
    PROVE  DdInv
<1>1. /\ ddin \in Seq(Nat) /\ ddopt \in DdOptions /\ ddoff = 0
      /\ cblok = <<>> /\ ctrunc = 0 /\ truncated = 0 /\ todo = <<>> /\ oblok = <<>>
      /\ broken = FALSE /\ dat = "dd" /\ records = <<>> /\ dout = <<>> /\ wrote = <<>>
  BY DdAssumption DEF DdInit, DdBegin
<1>2. /\ <<>> \in Seq(Nat) /\ Len(<<>>) = 0 /\ <<>> \in Seq(Portions) /\ <<>> \in Seq(Seq(Nat))
      /\ <<>> \in Seq([size : Nat, n : Nat])
  BY EmptySeq
<1>3. cbs \in Nat /\ obs \in Nat /\ Len(ddin) \in Nat
  BY <1>1, OptionsAre, LenProperties
<1>4. DdStates
  <2>1. /\ cblok \in Seq(Nat) /\ todo \in Seq(Portions) /\ oblok \in Seq(Nat)
        /\ records \in Seq(Seq(Nat)) /\ dout \in Seq(Nat) /\ wrote \in Seq([size : Nat, n : Nat])
    BY <1>1, <1>2
  <2>2. Len(oblok) <= obs /\ Len(cblok) <= cbs
    BY <1>1, <1>2, <1>3
  <2>3. ddoff \in 0..Len(ddin)
    BY <1>1, <1>3
  <2>4. broken \in BOOLEAN
    BY <1>1, Zenon
  <2>5. dat \in {"dd", "quit", "exit", "recursion"} /\ ctrunc \in 0..2 /\ truncated \in Nat
    BY <1>1
  <2>6. ddopt.conv = "none" => cblok = <<>>
    BY <1>1
  <2>7. ddin \in Seq(Nat) /\ ddopt \in DdOptions
    BY <1>1
  <2> QED
    BY <2>1, <2>2, <2>3, <2>4, <2>5, <2>6, <2>7, Zenon DEF DdStates
<1>5. AllRead = <<>>
  BY <1>1, FlattenNone DEF AllRead
<1>6. InHand = <<>>
  <2>1. Texts(<<>>) = <<>>
    BY <1>2, TextsFacts
  <2>2. <<>> \o <<>> = <<>>
    BY EmptyTwice
  <2> QED
    BY <1>1, <2>1, <2>2, Zenon DEF InHand
<1>7. Divided
  <2>1. Together(cblok, ctrunc, AllRead) /\ InHand = Converted(ctrunc, AllRead)
    BY <1>1, <1>5, <1>6, NothingRead
  <2>2. Converted(ctrunc, AllRead) \o Flushed(cblok) = Reference(AllRead)
    <3>1. PICK r \in Seq(Nat), n \in 0..2 : r = AllRead /\ n = ctrunc
      BY <1>4, HandType DEF DdStates
    <3>2. Together(cblok, n, r)
      BY <2>1, <3>1
    <3>3. Converted(n, r) \o Flushed(cblok) = Reference(r)
      BY <1>1, <3>2, ReferenceIs
    <3> QED
      BY <3>1, <3>3
  <2> QED
    BY <1>1, <2>1, <2>2 DEF Divided, Ended
<1>8. LongLinesCounted
  BY <1>1, <1>5, NothingRead DEF LongLinesCounted
<1>9. Sizes
  BY <1>1 DEF Sizes
<1> QED
  BY <1>4, <1>7, <1>8, <1>9 DEF DdInv

\* The invariant says what the program promises.
LEMMA DdInvCopies == DdInv => DdCopies
<1> SUFFICES ASSUME DdInv PROVE DdCopies
  OBVIOUS
<1>0. DdStates /\ Divided /\ LongLinesCounted /\ Sizes
  BY DEF DdInv
<1>1. IsPrefix(dout, Reference(AllRead))
  BY <1>0, OutIsPrefix
<1>2. ASSUME Ended PROVE dout = Reference(AllRead)
  <2>1. todo = <<>> /\ oblok = <<>> /\ cblok = <<>> /\ ~broken
    BY <1>0, <1>2 DEF Divided, Ended
  <2>2. PICK d \in Seq(Nat), nil \in Seq(Portions) : d = dout /\ nil = <<>>
    BY <1>0, EmptySeq DEF DdStates
  <2>3. Texts(nil) = <<>>
    BY <2>2, TextsFacts
  <2>4. d \o <<>> = d
    BY JoinEmpty
  <2>5. InHand = d
    BY <2>1, <2>2, <2>3, <2>4, Zenon DEF InHand
  <2>6. Flushed(cblok) = <<>>
    BY <2>1 DEF Flushed
  <2>7. InHand \o Flushed(cblok) = Reference(AllRead)
    BY <1>0, <2>1 DEF Divided
  <2> QED
    BY <2>2, <2>4, <2>5, <2>6, <2>7, Zenon
<1>3. OutputIsInput
  BY <1>0, <1>1, <1>2 DEF OutputIsInput, LongLinesCounted, TooLongLines
<1>4. WholeBlocks
  BY <1>0 DEF WholeBlocks, Sizes
<1> QED
  BY <1>3, <1>4 DEF DdCopies

\* dd: however reads and writes divide what is copied, each character read is in the block,
\* in the record put together, in what is still to be written, or written, in its place.
THEOREM DdInvariant == DdSpec => []DdInv
<1>1. DdInit => DdInv
  BY DdBegins
<1>2. DdInv /\ [DdNext]_ddVars => DdInv'
  <2> SUFFICES ASSUME DdInv, [DdNext]_ddVars PROVE DdInv'
    OBVIOUS
  <2>1. CASE ReadBlock
    BY <2>1, ReadBlockKeeps
  <2>2. CASE ReadEnd
    BY <2>2, ReadEndKeeps
  <2>3. CASE ReadFails
    BY <2>3, ReadFailsKeeps
  <2>4. CASE DWrite
    BY <2>4, DWriteKeeps
  <2>5. CASE BWriteFull
    BY <2>5, BWriteFullKeeps
  <2>6. CASE BWriteKeep
    BY <2>6, BWriteKeepKeeps
  <2>7. CASE QuitRecord
    BY <2>7, QuitRecordKeeps
  <2>8. CASE BFlush
    BY <2>8, BFlushKeeps
  <2>9. CASE WriteFails
    BY <2>9, WriteFailsKeeps
  <2>10. CASE UNCHANGED ddVars
    BY <2>10, StandKeeps
  <2> QED
    BY <2>1, <2>2, <2>3, <2>4, <2>5, <2>6, <2>7, <2>8, <2>9, <2>10 DEF DdNext
<1> QED
  BY <1>1, <1>2, PTL DEF DdSpec

\* dd: what is written is the conversion of what was read, and without bs= in whole blocks.
THEOREM AllIsConverted == DdSpec => []DdCopies
<1>1. DdInv => DdCopies
  BY DdInvCopies
<1> QED
  BY <1>1, DdInvariant, PTL

-----------------------------------------------------------------------------
(* diff of directories: the invariant *)

Frames == [argv : Seq(Nat), file : Seq(Nat), entry : Nat, at : {"names", "again"}]
DirsTyped ==
    /\ ddTree \in DdirTrees /\ ddOpt \in DdirOptions
    /\ ddFile \in Seq(Nat) /\ ddArgv \in Seq(Nat) /\ ddEntry \in Nat \ {0}
    /\ ddStack \in Seq(Frames) /\ ddStatus \in 0..2
    /\ ddAt \in {"names", "again", "file", "done", "exited"}
    /\ ddTold \in Seq((DdirKinds \cup {"diff"}) \X Seq(Nat))

\* What the j-th of the calls that are set aside has called for: it goes on at the entry behind it.
CalledFor(s, j) == IF j = 0 THEN <<>> ELSE Append(s[j].file, s[j].entry - 1)
\* What is set aside: directories, each below the one before, that are gone through for
\* their subdirectories; only the last call may be for a file.
SetAside ==
    \A j \in 1..Len(ddStack) :
        /\ ddStack[j].file = CalledFor(ddStack, j - 1) /\ Len(ddStack[j].file) = j - 1
        /\ ddStack[j].argv = ddStack[j].file /\ ddStack[j].file \in DOMAIN ddTree
        /\ ddStack[j].entry - 1 \in DOMAIN ddTree[ddStack[j].file]
        /\ ddStack[j].at = "again" => ddOpt.r /\ ddTree[ddStack[j].file][ddStack[j].entry - 1] = "dir"
        /\ j < Len(ddStack) => ddStack[j].at = "again"
Top == ddStack[Len(ddStack)]
HereNow ==
    /\ ddFile = CalledFor(ddStack, Len(ddStack))
    /\ ddAt \in {"names", "again"} =>
        /\ ddArgv = ddFile /\ ddFile \in DOMAIN ddTree /\ ddEntry \in 1..Len(ddTree[ddFile]) + 1
        /\ ddStack # <<>> => Top.at = "again"
    /\ ddAt = "again" => ddOpt.r
    /\ ddAt = "file" => ddStack # <<>> /\ Top.at = "names"
    /\ ddAt = "exited" => ddStack = <<>>
    /\ ddArgv # ddFile => ddStack # <<>> /\ ddArgv = Top.file

\* The place in the order that the names, or the subdirectories, have been told up to.
Place(file, entry, at) ==
    IF at = "names" THEN Append(file, entry) ELSE Append(Append(file, entry), 0)
TellsUpTo(told, q) == {told[n] : n \in DOMAIN told} = {Said(p) : p \in {p \in ToTell : ToldBefore(p, q)}}
TellsAll(told) == {told[n] : n \in DOMAIN told} = {Said(p) : p \in ToTell}
InOrder(told) == \A m, n \in DOMAIN told : m < n => ToldBefore(told[m][2], told[n][2])
ToldSoFar ==
    /\ ddAt \in {"names", "again"} => TellsUpTo(ddTold, Place(ddFile, ddEntry, ddAt))
    /\ ddAt \in {"file", "done"} /\ ddStack # <<>> => TellsUpTo(ddTold, Place(Top.file, Top.entry, Top.at))
    /\ ddAt \in {"done", "exited"} /\ ddStack = <<>> => TellsAll(ddTold)
    /\ InOrder(ddTold)

DirsInv == DirsTyped /\ SetAside /\ HereNow /\ ToldSoFar

-----------------------------------------------------------------------------
(* diff of directories: sequences *)

LEMMA AppendedIs ==
    ASSUME NEW S, NEW s \in Seq(S), NEW e \in S
    PROVE  Front(Append(s, e)) = s /\ Last(Append(s, e)) = e
<1>1. Append(s, e) \in Seq(S) /\ Append(s, e) # <<>> /\ Len(Append(s, e)) = Len(s) + 1
      /\ Append(s, e)[Len(s) + 1] = e /\ \A j \in 1..Len(s) : Append(s, e)[j] = s[j]
  BY AppendFacts
<1>2. /\ Front(Append(s, e)) \in Seq(S) /\ Len(Front(Append(s, e))) = Len(s)
      /\ \A i \in 1..Len(s) : Front(Append(s, e))[i] = s[i]
      /\ Last(Append(s, e)) = e
  <2>1. Len(s) \in Nat /\ Len(s) + 1 - 1 = Len(s)
    OBVIOUS
  <2>2. /\ Front(Append(s, e)) \in Seq(S) /\ Len(Front(Append(s, e))) = Len(Append(s, e)) - 1
        /\ \A i \in 1..Len(Append(s, e)) - 1 : Front(Append(s, e))[i] = Append(s, e)[i]
        /\ Last(Append(s, e)) = Append(s, e)[Len(Append(s, e))]
    BY <1>1, FrontFacts
  <2> QED
    BY <1>1, <2>1, <2>2
<1> QED
  BY <1>2, SeqEqual

LEMMA PrefixOf ==
    ASSUME NEW S, NEW s \in Seq(S), NEW n \in 0..Len(s)
    PROVE  /\ SubSeq(s, 1, n) \in Seq(S) /\ Len(SubSeq(s, 1, n)) = n
           /\ \A j \in 1..n : SubSeq(s, 1, n)[j] = s[j]
<1> QED
  BY SubSeqProperties

-----------------------------------------------------------------------------
(* diff of directories: the order *)

\* p is somewhere below the directory f.
Under(f, p) == Len(p) > Len(f) /\ \A j \in 1..Len(f) : p[j] = f[j]

\* The names of a directory that are before one of them; what is in subdirectories is not.
LEMMA BeforeName ==
    ASSUME NEW f \in Seq(Nat), NEW p \in Seq(Nat), NEW e \in Nat, Under(f, p)
    PROVE  ToldBefore(p, Append(f, e)) <=> Len(p) = Len(f) + 1 /\ p[Len(f) + 1] < e
<1> DEFINE q == Append(f, e)
<1>1. q \in Seq(Nat) /\ Len(q) = Len(f) + 1 /\ q[Len(f) + 1] = e
      /\ DOMAIN q = 1..Len(f) + 1 /\ DOMAIN p = 1..Len(p)
      /\ \A j \in 1..Len(f) : q[j] = f[j]
  BY AppendFacts
<1>2. Len(p) \in Nat /\ Len(f) \in Nat /\ Len(p) > Len(f) /\ \A j \in 1..Len(f) : p[j] = f[j]
  BY DEF Under
<1>3. ASSUME ToldBefore(p, q)
      PROVE  Len(p) = Len(f) + 1 /\ p[Len(f) + 1] < e
  <2>1. ~(Len(p) < Len(q))
    BY <1>1, <1>2
  <2>2. PICK n \in DOMAIN p \cap DOMAIN q :
            /\ p[n] # q[n]
            /\ \/ n = Len(p) /\ n < Len(q)
               \/ p[n] < q[n] /\ (n = Len(p) <=> n = Len(q))
    BY <1>3, <2>1 DEF ToldBefore
  <2>3. n \in 1..Len(f) + 1 /\ n \notin 1..Len(f)
    BY <1>1, <1>2, <2>2
  <2>4. n = Len(f) + 1
    BY <1>2, <2>3
  <2>5. n = Len(q) /\ ~(n < Len(q))
    BY <1>1, <1>2, <2>4
  <2>6. p[n] < q[n] /\ n = Len(p)
    BY <2>2, <2>5
  <2> QED
    BY <1>1, <2>4, <2>6
<1>4. ASSUME Len(p) = Len(f) + 1, p[Len(f) + 1] < e
      PROVE  ToldBefore(p, q)
  <2> DEFINE n == Len(f) + 1
  <2>1. n \in DOMAIN p \cap DOMAIN q
    BY <1>1, <1>2, <1>4
  <2>2. \A j \in 1..n - 1 : p[j] = q[j]
    BY <1>1, <1>2
  <2>3. p[n] # q[n] /\ p[n] < q[n] /\ (n = Len(p) <=> n = Len(q))
    BY <1>1, <1>2, <1>4, ElementOfSeq
  <2> QED
    BY <2>1, <2>2, <2>3 DEF ToldBefore
<1> QED
  BY <1>3, <1>4

\* All names of a directory are before what is in its subdirectories.
LEMMA BeforeBelow ==
    ASSUME NEW f \in Seq(Nat), NEW p \in Seq(Nat), NEW e \in Nat, Under(f, p)
    PROVE  ToldBefore(p, Append(Append(f, e), 0)) <=> Len(p) = Len(f) + 1 \/ p[Len(f) + 1] < e
<1> DEFINE q == Append(Append(f, e), 0)
           l == Len(f) + 1
<1>1. Append(f, e) \in Seq(Nat) /\ Len(Append(f, e)) = l /\ Append(f, e)[l] = e
      /\ \A j \in 1..Len(f) : Append(f, e)[j] = f[j]
  BY AppendFacts
<1>2. q \in Seq(Nat) /\ Len(q) = l + 1 /\ q[l + 1] = 0 /\ DOMAIN q = 1..l + 1 /\ DOMAIN p = 1..Len(p)
      /\ \A j \in 1..l : q[j] = Append(f, e)[j]
  BY <1>1, AppendFacts
<1>3. Len(p) \in Nat /\ Len(f) \in Nat /\ Len(p) > Len(f) /\ \A j \in 1..Len(f) : p[j] = f[j]
  BY DEF Under
<1>4. q[l] = e /\ \A j \in 1..Len(f) : q[j] = f[j]
  <2>2. l \in 1..l /\ \A j \in 1..Len(f) : j \in 1..l
    BY <1>3
  <2> QED
    BY <1>1, <1>2, <2>2
<1>5. ASSUME ToldBefore(p, q), Len(p) # l
      PROVE  p[l] < e
  <2>1. Len(p) > l
    BY <1>3, <1>5
  <2>2. ~(Len(p) < Len(q))
    BY <1>2, <1>3, <2>1
  <2>3. PICK n \in DOMAIN p \cap DOMAIN q :
            /\ \A j \in 1..n - 1 : p[j] = q[j]
            /\ p[n] # q[n]
            /\ \/ n = Len(p) /\ n < Len(q)
               \/ p[n] < q[n] /\ (n = Len(p) <=> n = Len(q))
    BY <1>5, <2>2 DEF ToldBefore
  <2>4. n \in 1..l + 1 /\ n \notin 1..Len(f) /\ n \in 1..Len(p)
    BY <1>2, <1>3, <1>4, <2>3
  <2>5. n = l \/ n = l + 1
    <3>1. n \in Nat /\ n >= 1 /\ n <= Len(f) + 1 + 1 /\ ~(n <= Len(f))
      BY <1>3, <2>4
    <3> QED
      BY <1>3, <3>1
  <2>6. n # l + 1
    <3>1. p[n] \in Nat
      BY <2>4, ElementOfSeq
    <3> QED
      BY <1>2, <1>3, <2>3, <3>1
  <2> QED
    BY <1>2, <1>3, <1>4, <2>1, <2>3, <2>5, <2>6
<1>6. ASSUME Len(p) = l
      PROVE  ToldBefore(p, q)
  <2>1. CASE p[l] = e
    <3>1. \A j \in 1..Len(p) : p[j] = q[j]
      BY <1>3, <1>4, <1>6, <2>1
    <3> QED
      BY <1>2, <1>3, <1>6, <3>1 DEF ToldBefore
  <2>2. CASE p[l] # e
    <3>1. l \in DOMAIN p \cap DOMAIN q
      BY <1>2, <1>3, <1>6
    <3>2. \A j \in 1..l - 1 : p[j] = q[j]
      BY <1>3, <1>4
    <3>3. p[l] # q[l] /\ l = Len(p) /\ l < Len(q)
      BY <1>2, <1>3, <1>4, <1>6, <2>2
    <3> QED
      BY <3>1, <3>2, <3>3 DEF ToldBefore
  <2> QED
    BY <2>1, <2>2
<1>7. ASSUME Len(p) # l, p[l] < e
      PROVE  ToldBefore(p, q)
  <2>0. Len(p) > l /\ l >= 1 /\ l \in Nat
    BY <1>3, <1>7
  <2>1. l \in DOMAIN p \cap DOMAIN q /\ Len(p) > l
    <3>1. l \in 1..Len(p) /\ l \in 1..l + 1
      BY <1>3, <2>0
    <3> QED
      BY <1>2, <2>0, <3>1
  <2>2. \A j \in 1..l - 1 : p[j] = q[j]
    BY <1>3, <1>4
  <2>3. p[l] \in Nat
    BY <2>1, <1>2, ElementOfSeq
  <2>4. p[l] # q[l] /\ p[l] < q[l] /\ l # Len(p) /\ l # Len(q)
    <3>1. p[l] < e /\ p[l] # e
      BY <1>7, <2>3
    <3>2. l # l + 1
      BY <2>0
    <3> QED
      BY <1>2, <1>4, <1>7, <3>1, <3>2
  <2> QED
    BY <2>1, <2>2, <2>4 DEF ToldBefore
<1> QED
  BY <1>5, <1>6, <1>7

\* What is not below a directory is before all that is, or behind all that is.
LEMMA BeforeElsewhere ==
    ASSUME NEW f \in Seq(Nat), NEW p \in Seq(Nat), NEW q \in Seq(Nat), NEW r \in Seq(Nat),
           ~Under(f, p), Under(f, q), Under(f, r), ToldBefore(p, q)
    PROVE  ToldBefore(p, r)
<1>1. /\ Len(p) \in Nat /\ Len(q) \in Nat /\ Len(r) \in Nat /\ Len(f) \in Nat
      /\ DOMAIN p = 1..Len(p) /\ DOMAIN q = 1..Len(q) /\ DOMAIN r = 1..Len(r)
  OBVIOUS
<1>2. /\ Len(q) > Len(f) /\ \A j \in 1..Len(f) : q[j] = f[j]
      /\ Len(r) > Len(f) /\ \A j \in 1..Len(f) : r[j] = f[j]
  BY DEF Under
<1>3. CASE Len(p) < Len(q) /\ \A j \in 1..Len(p) : p[j] = q[j]
  <2>1. Len(p) <= Len(f)
    <3>1. SUFFICES ASSUME Len(p) > Len(f) PROVE FALSE
      BY <1>1
    <3>2. \A j \in 1..Len(f) : j \in 1..Len(p)
      BY <1>1, <3>1
    <3> QED
      BY <1>2, <1>3, <3>1, <3>2 DEF Under
  <2>2. \A j \in 1..Len(p) : j \in 1..Len(f)
    BY <1>1, <2>1
  <2> QED
    BY <1>1, <1>2, <1>3, <2>1, <2>2 DEF ToldBefore
<1>4. CASE ~(Len(p) < Len(q) /\ \A j \in 1..Len(p) : p[j] = q[j])
  <2>1. PICK n \in DOMAIN p \cap DOMAIN q :
            /\ \A j \in 1..n - 1 : p[j] = q[j]
            /\ p[n] # q[n]
            /\ \/ n = Len(p) /\ n < Len(q)
               \/ p[n] < q[n] /\ (n = Len(p) <=> n = Len(q))
    BY <1>4 DEF ToldBefore
  <2>2. n \in 1..Len(p) /\ n <= Len(f)
    <3>1. n \in 1..Len(p)
      BY <1>1, <2>1
    <3>2. ASSUME n > Len(f) PROVE FALSE
      <4>1. \A j \in 1..Len(f) : j \in 1..n - 1
        BY <1>1, <3>1, <3>2
      <4>2. Len(p) > Len(f)
        BY <1>1, <3>1, <3>2
      <4> QED
        BY <1>2, <2>1, <4>1, <4>2 DEF Under
    <3> QED
      BY <1>1, <3>1, <3>2
  <2>3. n \in DOMAIN p \cap DOMAIN r
    BY <1>1, <1>2, <2>2
  <2>4. n \in 1..Len(f) /\ \A j \in 1..n - 1 : j \in 1..Len(f)
    BY <1>1, <2>2
  <2>5. \A j \in 1..n - 1 : p[j] = r[j]
    BY <1>2, <2>1, <2>4
  <2>6. r[n] = q[n]
    BY <1>2, <2>4
  <2>7. n # Len(q) /\ n # Len(r) /\ n < Len(r)
    BY <1>1, <1>2, <2>4
  <2>8. p[n] # r[n] /\ ((n = Len(p) /\ n < Len(r)) \/ (p[n] < r[n] /\ (n = Len(p) <=> n = Len(r))))
    <3>1. p[n] # r[n]
      BY <2>1, <2>6
    <3>2. CASE n = Len(p) /\ n < Len(q)
      <4>1. n = Len(p)
        BY <3>2
      <4>2. n < Len(r)
        BY <2>7
      <4> QED
        BY <3>1, <4>1, <4>2
    <3>3. CASE p[n] < q[n] /\ (n = Len(p) <=> n = Len(q))
      <4>1. p[n] < r[n]
        BY <2>6, <3>3
      <4>2. n # Len(p)
        BY <2>7, <3>3
      <4> QED
        BY <2>7, <3>1, <4>1, <4>2
    <3> QED
      BY <2>1, <3>2, <3>3
  <2> QED
    BY <2>3, <2>5, <2>8 DEF ToldBefore
<1> QED
  BY <1>3, <1>4

-----------------------------------------------------------------------------
(* diff of directories: the trees *)

LEMMA TreeIs ==
    ASSUME ddTree \in DdirTrees, NEW d \in DOMAIN ddTree
    PROVE  /\ <<>> \in DOMAIN ddTree /\ d \in Seq(Nat) /\ ddTree[d] \in Seq(DdirKinds)
           /\ \A k \in DOMAIN ddTree[d] : ddTree[d][k] = "dir" => Append(d, k) \in DOMAIN ddTree
           /\ \A n \in DOMAIN d :
                /\ SubSeq(d, 1, n - 1) \in DOMAIN ddTree
                /\ d[n] \in DOMAIN ddTree[SubSeq(d, 1, n - 1)]
                /\ ddTree[SubSeq(d, 1, n - 1)][d[n]] = "dir"
<1> QED
  BY DdirAssumption

LEMMA RootIs == ddTree \in DdirTrees => <<>> \in DOMAIN ddTree
  BY DdirAssumption

\* What is told of is a name in a directory.
LEMMA ToTellIs ==
    ASSUME ddTree \in DdirTrees, NEW p \in ToTell
    PROVE  \E d \in DOMAIN ddTree : \E k \in DOMAIN ddTree[d] :
               p = Append(d, k) /\ (~ddOpt.r => d = <<>>) /\ ddTree[d][k] # "same"
<1>1. PICK d \in IF ddOpt.r THEN DOMAIN ddTree ELSE {<<>>} : \E k \in DOMAIN ddTree[d] : p = Append(d, k)
  BY DEF ToTell
<1>2. d \in DOMAIN ddTree /\ (~ddOpt.r => d = <<>>)
  BY <1>1, RootIs
<1>3. PICK k \in DOMAIN ddTree[d] : p = Append(d, k)
  BY <1>1
<1>4. KindUnder(p) # "same"
  BY DEF ToTell
<1>5. Front(p) = d /\ Last(p) = k
  <2>1. d \in Seq(Nat) /\ ddTree[d] \in Seq(DdirKinds)
    BY <1>2, TreeIs
  <2>2. k \in Nat
    BY <1>3, <2>1
  <2> QED
    BY <1>3, <2>1, <2>2, AppendedIs
<1>6. ddTree[d][k] # "same"
  BY <1>4, <1>5 DEF KindUnder
<1> QED
  BY <1>2, <1>3, <1>6

LEMMA ToldTyped == ddTree \in DdirTrees => ToTell \subseteq Seq(Nat)
<1> SUFFICES ASSUME ddTree \in DdirTrees, NEW p \in ToTell PROVE p \in Seq(Nat)
  OBVIOUS
<1>1a. PICK d \in DOMAIN ddTree : \E k \in DOMAIN ddTree[d] : p = Append(d, k)
  BY ToTellIs
<1>1. PICK k \in DOMAIN ddTree[d] : p = Append(d, k)
  BY <1>1a
<1>2. d \in Seq(Nat) /\ k \in Nat
  BY <1>1, TreeIs
<1> QED
  BY <1>1, <1>2, AppendFacts

LEMMA TellingIs ==
    ASSUME ddTree \in DdirTrees, NEW d \in DOMAIN ddTree, NEW k \in DOMAIN ddTree[d], ddOpt.r \/ d = <<>>
    PROVE  /\ KindUnder(Append(d, k)) = ddTree[d][k]
           /\ ddTree[d][k] # "same" <=> Append(d, k) \in ToTell
<1>0. d \in Seq(Nat) /\ ddTree[d] \in Seq(DdirKinds)
  BY TreeIs
<1>1. d \in Seq(Nat) /\ ddTree[d] \in Seq(DdirKinds) /\ k \in Nat
  BY <1>0
<1>2. Front(Append(d, k)) = d /\ Last(Append(d, k)) = k
  BY <1>1, AppendedIs
<1>3. KindUnder(Append(d, k)) = ddTree[d][k]
  BY <1>2 DEF KindUnder
<1>4. d \in IF ddOpt.r THEN DOMAIN ddTree ELSE {<<>>}
  OBVIOUS
<1> QED
  BY <1>3, <1>4 DEF ToTell

\* What is told of below a directory is a name in it, or below one of its subdirectories.
LEMMA ToldBelow ==
    ASSUME ddTree \in DdirTrees, NEW f \in DOMAIN ddTree, NEW p \in ToTell, Under(f, p)
    PROVE  /\ p \in Seq(Nat) /\ f \in Seq(Nat) /\ p[Len(f) + 1] \in DOMAIN ddTree[f]
           /\ ddTree[f] \in Seq(DdirKinds) /\ p[Len(f) + 1] \in Nat \ {0} /\ Len(p) \in Nat
           /\ Len(p) = Len(f) + 1 => p = Append(f, p[Len(f) + 1])
           /\ Len(p) # Len(f) + 1 => ddTree[f][p[Len(f) + 1]] = "dir"
<1>1a. PICK d \in DOMAIN ddTree : \E k \in DOMAIN ddTree[d] : p = Append(d, k)
  BY ToTellIs
<1>1. PICK k \in DOMAIN ddTree[d] : p = Append(d, k)
  BY <1>1a
<1>2. f \in Seq(Nat) /\ d \in Seq(Nat) /\ k \in Nat /\ ddTree[f] \in Seq(DdirKinds)
      /\ Len(f) \in Nat /\ Len(d) \in Nat /\ DOMAIN d = 1..Len(d)
  BY TreeIs
<1>3. p \in Seq(Nat) /\ Len(p) = Len(d) + 1 /\ p[Len(d) + 1] = k /\ \A j \in 1..Len(d) : p[j] = d[j]
  BY <1>1, <1>2, AppendFacts
<1>4. Len(d) >= Len(f) /\ \A j \in 1..Len(f) : d[j] = f[j]
  <2>1. Len(d) >= Len(f)
    BY <1>2, <1>3 DEF Under
  <2>2. \A j \in 1..Len(f) : j \in 1..Len(d)
    BY <1>2, <2>1
  <2> QED
    BY <1>3, <2>1, <2>2 DEF Under
<1>5. CASE Len(d) = Len(f)
  <2>1. d = f
    BY <1>2, <1>4, <1>5, SeqEqual
  <2>2. p = Append(f, k) /\ p[Len(f) + 1] = k /\ Len(p) = Len(f) + 1
    BY <1>1, <1>3, <2>1
  <2>3. k \in Nat \ {0}
    BY <1>2, <1>1, <2>1
  <2> QED
    BY <1>1, <1>2, <1>3, <2>1, <2>2, <2>3
<1>6. CASE Len(d) # Len(f)
  <2> DEFINE n == Len(f) + 1
  <2>1. n \in 1..Len(d) /\ n - 1 = Len(f) /\ n # Len(p)
    BY <1>2, <1>3, <1>4, <1>6
  <2>2. SubSeq(d, 1, n - 1) = f
    <3>1. SubSeq(d, 1, n - 1) \in Seq(Nat) /\ Len(SubSeq(d, 1, n - 1)) = Len(f)
          /\ \A j \in 1..Len(f) : SubSeq(d, 1, n - 1)[j] = d[j]
      BY <1>2, <2>1, PrefixOf
    <3> QED
      BY <1>2, <1>4, <3>1, SeqEqual
  <2>3. d[n] \in DOMAIN ddTree[f] /\ ddTree[f][d[n]] = "dir"
    <3>1. n \in DOMAIN d
      BY <1>2, <2>1
    <3>2. /\ d[n] \in DOMAIN ddTree[SubSeq(d, 1, n - 1)]
          /\ ddTree[SubSeq(d, 1, n - 1)][d[n]] = "dir"
      BY <3>1, TreeIs
    <3> QED
      BY <2>2, <3>2
  <2>4. p[n] = d[n]
    BY <1>3, <2>1
  <2>5. p[n] \in Nat \ {0}
    BY <1>2, <2>3, <2>4
  <2> QED
    BY <1>2, <1>3, <2>1, <2>3, <2>4, <2>5
<1> QED
  BY <1>5, <1>6

-----------------------------------------------------------------------------
(* diff of directories: one step, and what is before it *)

LEMMA UnderIt ==
    ASSUME NEW f \in Seq(Nat), NEW e \in Nat, NEW c \in Nat
    PROVE  /\ Append(f, e) \in Seq(Nat) /\ Append(Append(f, e), c) \in Seq(Nat)
           /\ Under(f, Append(f, e)) /\ Under(f, Append(Append(f, e), c))
           /\ Len(Append(f, e)) = Len(f) + 1 /\ Append(f, e)[Len(f) + 1] = e
           /\ \A j \in 1..Len(f) : Append(f, e)[j] = f[j]
<1>1. /\ Append(f, e) \in Seq(Nat) /\ Len(Append(f, e)) = Len(f) + 1 /\ Append(f, e)[Len(f) + 1] = e
      /\ \A j \in 1..Len(f) : Append(f, e)[j] = f[j]
  BY AppendFacts
<1>2. /\ Append(Append(f, e), c) \in Seq(Nat) /\ Len(Append(Append(f, e), c)) = Len(f) + 1 + 1
      /\ \A j \in 1..Len(f) + 1 : Append(Append(f, e), c)[j] = Append(f, e)[j]
  BY <1>1, AppendFacts
<1>3. Len(f) \in Nat /\ \A j \in 1..Len(f) : j \in 1..Len(f) + 1
  OBVIOUS
<1> QED
  BY <1>1, <1>2, <1>3 DEF Under

LEMMA NextName ==
    ASSUME ddTree \in DdirTrees, NEW f \in DOMAIN ddTree, NEW k \in DOMAIN ddTree[f], NEW p \in ToTell
    PROVE  ToldBefore(p, Append(f, k + 1)) <=> ToldBefore(p, Append(f, k)) \/ p = Append(f, k)
<1>1. f \in Seq(Nat) /\ k \in Nat /\ k + 1 \in Nat /\ p \in Seq(Nat)
  BY TreeIs, ToldTyped
<1>2. CASE Under(f, p)
  <2>1. /\ ToldBefore(p, Append(f, k + 1)) <=> Len(p) = Len(f) + 1 /\ p[Len(f) + 1] < k + 1
        /\ ToldBefore(p, Append(f, k)) <=> Len(p) = Len(f) + 1 /\ p[Len(f) + 1] < k
    BY <1>1, <1>2, BeforeName
  <2>2. p[Len(f) + 1] \in Nat /\ (Len(p) = Len(f) + 1 => p = Append(f, p[Len(f) + 1]))
    BY <1>2, ToldBelow
  <2>3. p = Append(f, k) => Len(p) = Len(f) + 1 /\ p[Len(f) + 1] = k
    BY <1>1, UnderIt
  <2>4. Len(p) = Len(f) + 1 /\ p[Len(f) + 1] = k => p = Append(f, k)
    BY <2>2
  <2>5. p[Len(f) + 1] < k + 1 <=> p[Len(f) + 1] < k \/ p[Len(f) + 1] = k
    BY <1>1, <2>2
  <2> QED
    BY <2>1, <2>3, <2>4, <2>5
<1>3. CASE ~Under(f, p)
  <2>1. Under(f, Append(f, k)) /\ Under(f, Append(f, k + 1))
        /\ Append(f, k) \in Seq(Nat) /\ Append(f, k + 1) \in Seq(Nat)
    BY <1>1, UnderIt
  <2> QED
    BY <1>1, <1>3, <2>1, BeforeElsewhere
<1> QED
  BY <1>2, <1>3

LEMMA NamesThenBelow ==
    ASSUME ddTree \in DdirTrees, NEW f \in DOMAIN ddTree, NEW p \in ToTell
    PROVE  ToldBefore(p, Append(f, Len(ddTree[f]) + 1)) <=> ToldBefore(p, Append(Append(f, 1), 0))
<1> DEFINE l == Len(ddTree[f]) + 1
<1>1. f \in Seq(Nat) /\ l \in Nat /\ p \in Seq(Nat) /\ ddTree[f] \in Seq(DdirKinds)
  BY TreeIs, ToldTyped
<1>2. CASE Under(f, p)
  <2>1. /\ ToldBefore(p, Append(f, l)) <=> Len(p) = Len(f) + 1 /\ p[Len(f) + 1] < l
        /\ ToldBefore(p, Append(Append(f, 1), 0)) <=> Len(p) = Len(f) + 1 \/ p[Len(f) + 1] < 1
    BY <1>1, <1>2, BeforeName, BeforeBelow
  <2>2. p[Len(f) + 1] \in 1..Len(ddTree[f])
    BY <1>1, <1>2, ToldBelow
  <2>3. p[Len(f) + 1] < l /\ ~(p[Len(f) + 1] < 1)
    BY <1>1, <2>2
  <2> QED
    BY <2>1, <2>3
<1>3. CASE ~Under(f, p)
  <2>1. Under(f, Append(f, l)) /\ Under(f, Append(Append(f, 1), 0))
        /\ Append(f, l) \in Seq(Nat) /\ Append(Append(f, 1), 0) \in Seq(Nat)
    BY <1>1, UnderIt
  <2> QED
    BY <1>1, <1>3, <2>1, BeforeElsewhere
<1> QED
  BY <1>2, <1>3

LEMMA IntoDirectory ==
    ASSUME ddTree \in DdirTrees, NEW f \in DOMAIN ddTree, NEW e \in Nat, NEW k \in DOMAIN ddTree[f],
           e <= k, ddTree[f][k] = "dir", \A j \in DOMAIN ddTree[f] : ddTree[f][j] = "dir" => j < e \/ k <= j,
           NEW p \in ToTell
    PROVE  ToldBefore(p, Append(Append(f, e), 0)) <=> ToldBefore(p, Append(Append(f, k), 1))
<1> DEFINE g == Append(f, k)
           n == Len(f) + 1
<1>1. f \in Seq(Nat) /\ k \in Nat /\ p \in Seq(Nat) /\ g \in DOMAIN ddTree /\ Len(f) \in Nat
  BY TreeIs, ToldTyped
<1>2. /\ g \in Seq(Nat) /\ Len(g) = n /\ g[n] = k /\ \A j \in 1..Len(f) : g[j] = f[j]
      /\ Under(f, Append(Append(f, e), 0)) /\ Under(f, Append(g, 1)) /\ Under(f, Append(g, 0))
      /\ Append(Append(f, e), 0) \in Seq(Nat) /\ Append(g, 1) \in Seq(Nat) /\ Append(g, 0) \in Seq(Nat)
  BY <1>1, UnderIt
<1>3. Under(g, Append(g, 1)) /\ Under(g, Append(g, 0))
  BY <1>2, UnderIt
<1>4. CASE ~Under(f, p)
  BY <1>1, <1>2, <1>4, BeforeElsewhere
<1>5. CASE Under(f, p) /\ Under(g, p)
  <2>1. n \in 1..Len(g) /\ p[n] = k /\ Len(p) > n /\ Len(p) \in Nat
    <3>1. n \in 1..Len(g)
      BY <1>1, <1>2
    <3>2. Len(p) > Len(g) /\ p[n] = g[n]
      BY <1>5, <3>1 DEF Under
    <3> QED
      BY <1>1, <1>2, <3>1, <3>2
  <2>2. ToldBefore(p, Append(Append(f, e), 0)) <=> Len(p) = n \/ p[n] < e
    BY <1>1, <1>5, BeforeBelow
  <2>3. ToldBefore(p, Append(g, 1)) <=> Len(p) = n + 1 /\ p[n + 1] < 1
    BY <1>1, <1>2, <1>5, BeforeName
  <2>4. p[n + 1] \in Nat \ {0}
    BY <1>1, <1>2, <1>5, ToldBelow
  <2> QED
    BY <1>1, <2>1, <2>2, <2>3, <2>4
<1>6. CASE Under(f, p) /\ ~Under(g, p)
  <2>1. ToldBefore(p, Append(g, 1)) <=> ToldBefore(p, Append(g, 0))
    BY <1>1, <1>2, <1>3, <1>6, BeforeElsewhere
  <2>2. ToldBefore(p, Append(g, 0)) <=> Len(p) = n \/ p[n] < k
    BY <1>1, <1>6, BeforeBelow
  <2>3. ToldBefore(p, Append(Append(f, e), 0)) <=> Len(p) = n \/ p[n] < e
    BY <1>1, <1>6, BeforeBelow
  <2>4. p[n] \in DOMAIN ddTree[f] /\ p[n] \in Nat /\ (Len(p) # n => ddTree[f][p[n]] = "dir")
    BY <1>6, ToldBelow
  <2>5. Len(p) # n => (p[n] < k <=> p[n] < e)
    BY <1>1, <2>4
  <2> QED
    BY <2>1, <2>2, <2>3, <2>5
<1> QED
  BY <1>4, <1>5, <1>6

LEMMA OutOfDirectory ==
    ASSUME ddTree \in DdirTrees, NEW f \in DOMAIN ddTree, NEW k \in DOMAIN ddTree[f], NEW e \in Nat,
           ddTree[f][k] = "dir",
           \A j \in DOMAIN ddTree[Append(f, k)] : ddTree[Append(f, k)][j] = "dir" => j < e,
           NEW p \in ToTell
    PROVE  ToldBefore(p, Append(Append(Append(f, k), e), 0)) <=> ToldBefore(p, Append(Append(f, k + 1), 0))
<1> DEFINE g == Append(f, k)
           n == Len(f) + 1
<1>1. f \in Seq(Nat) /\ k \in Nat /\ k + 1 \in Nat /\ p \in Seq(Nat) /\ g \in DOMAIN ddTree /\ Len(f) \in Nat
  BY TreeIs, ToldTyped
<1>2. /\ g \in Seq(Nat) /\ Len(g) = n /\ g[n] = k /\ \A j \in 1..Len(f) : g[j] = f[j]
      /\ Under(f, Append(Append(f, k + 1), 0)) /\ Under(f, Append(g, 0))
      /\ Append(Append(f, k + 1), 0) \in Seq(Nat) /\ Append(g, 0) \in Seq(Nat)
  BY <1>1, UnderIt
<1>3. /\ Under(g, Append(Append(g, e), 0)) /\ Under(g, Append(g, 0))
      /\ Append(Append(g, e), 0) \in Seq(Nat)
  BY <1>2, UnderIt
<1>4. CASE Under(f, p) /\ Under(g, p)
  <2>1. n \in 1..Len(g) /\ p[n] = k
    <3>1. n \in 1..Len(g)
      BY <1>1, <1>2
    <3>2. p[n] = g[n]
      BY <1>4, <3>1 DEF Under
    <3> QED
      BY <1>2, <3>1, <3>2
  <2>2. ToldBefore(p, Append(Append(g, e), 0)) <=> Len(p) = n + 1 \/ p[n + 1] < e
    BY <1>1, <1>2, <1>4, BeforeBelow
  <2>3. Len(p) # n + 1 => p[n + 1] < e
    BY <1>1, <1>2, <1>4, ToldBelow
  <2>4. ToldBefore(p, Append(Append(f, k + 1), 0)) <=> Len(p) = n \/ p[n] < k + 1
    BY <1>1, <1>4, BeforeBelow
  <2>5. p[n] < k + 1
    BY <1>1, <2>1
  <2> QED
    BY <2>2, <2>3, <2>4, <2>5
<1>5. ~Under(g, p) => (ToldBefore(p, Append(Append(g, e), 0)) <=> ToldBefore(p, Append(g, 0)))
  BY <1>1, <1>2, <1>3, BeforeElsewhere
<1>6. CASE Under(f, p) /\ ~Under(g, p)
  <2>1. ToldBefore(p, Append(g, 0)) <=> Len(p) = n \/ p[n] < k
    BY <1>1, <1>6, BeforeBelow
  <2>2. ToldBefore(p, Append(Append(f, k + 1), 0)) <=> Len(p) = n \/ p[n] < k + 1
    BY <1>1, <1>6, BeforeBelow
  <2>3. p[n] \in Nat /\ Len(p) \in Nat
    BY <1>6, ToldBelow
  <2>4. Len(p) # n => p[n] # k
    <3>1. SUFFICES ASSUME Len(p) # n, p[n] = k PROVE Under(g, p)
      BY <1>6
    <3>2. Len(p) > n
      BY <1>1, <1>6, <2>3, <3>1 DEF Under
    <3>3. \A j \in 1..n : j \in 1..Len(f) \/ j = n
      BY <1>1
    <3>4. \A j \in 1..Len(f) : p[j] = g[j]
      BY <1>2, <1>6 DEF Under
    <3> QED
      BY <1>2, <3>1, <3>2, <3>3, <3>4 DEF Under
  <2> QED
    BY <1>1, <1>5, <1>6, <2>1, <2>2, <2>3, <2>4
<1>7. CASE ~Under(f, p)
  <2>1. ~Under(g, p)
    <3>1. SUFFICES ASSUME Under(g, p) PROVE Under(f, p)
      BY <1>7
    <3>2. Len(p) > n /\ \A j \in 1..n : p[j] = g[j]
      BY <1>2, <3>1 DEF Under
    <3>3. \A j \in 1..Len(f) : j \in 1..n
      BY <1>1
    <3>4. Len(p) > Len(f)
      BY <1>1, <3>2
    <3> QED
      BY <1>2, <3>2, <3>3, <3>4 DEF Under
  <2>2. ToldBefore(p, Append(g, 0)) <=> ToldBefore(p, Append(Append(f, k + 1), 0))
    BY <1>1, <1>2, <1>7, BeforeElsewhere
  <2> QED
    BY <1>5, <2>1, <2>2
<1> QED
  BY <1>4, <1>6, <1>7

\* All is before the place behind the last of the subdirectories at the top, and
\* without -r before that behind the last name; nothing is before the first name.
LEMMA AtTheTop ==
    ASSUME ddTree \in DdirTrees, NEW e \in Nat, NEW p \in ToTell
    PROVE  /\ (\A j \in DOMAIN ddTree[<<>>] : ddTree[<<>>][j] = "dir" => j < e)
                => ToldBefore(p, Append(Append(<<>>, e), 0))
           /\ ~ddOpt.r => ToldBefore(p, Append(<<>>, Len(ddTree[<<>>]) + 1))
           /\ ~ToldBefore(p, Append(<<>>, 1))
<1> DEFINE f == <<>>
<1>1. f \in DOMAIN ddTree /\ f \in Seq(Nat) /\ Len(f) = 0 /\ Len(f) + 1 = 1
  BY RootIs
<1>2a. PICK d \in DOMAIN ddTree : \E k \in DOMAIN ddTree[d] : p = Append(d, k) /\ (~ddOpt.r => d = <<>>)
  BY ToTellIs
<1>2. PICK k \in DOMAIN ddTree[d] : p = Append(d, k) /\ (~ddOpt.r => d = <<>>)
  BY <1>2a
<1>3. d \in Seq(Nat) /\ k \in Nat /\ ddTree[f] \in Seq(DdirKinds) /\ Len(ddTree[f]) + 1 \in Nat
  BY <1>1, TreeIs
<1>4. p \in Seq(Nat) /\ Len(p) = Len(d) + 1 /\ Len(d) \in Nat
  BY <1>2, <1>3, AppendFacts
<1>5. Under(f, p)
  BY <1>1, <1>4 DEF Under
<1>6. /\ p[1] \in DOMAIN ddTree[f] /\ p[1] \in Nat \ {0}
      /\ Len(p) # 1 => ddTree[f][p[1]] = "dir"
  BY <1>1, <1>5, ToldBelow
<1>7. ToldBefore(p, Append(Append(f, e), 0)) <=> Len(p) = 1 \/ p[1] < e
  BY <1>1, <1>4, <1>5, BeforeBelow
<1>8. /\ ToldBefore(p, Append(f, Len(ddTree[f]) + 1)) <=> Len(p) = 1 /\ p[1] < Len(ddTree[f]) + 1
      /\ ToldBefore(p, Append(f, 1)) <=> Len(p) = 1 /\ p[1] < 1
  BY <1>1, <1>3, <1>4, <1>5, BeforeName
<1>9. ~ddOpt.r => Len(p) = 1
  BY <1>1, <1>2, <1>4
<1>10. p[1] < Len(ddTree[f]) + 1 /\ ~(p[1] < 1)
  BY <1>3, <1>6
<1> QED
  BY <1>6, <1>7, <1>8, <1>9, <1>10

-----------------------------------------------------------------------------
(* diff of directories: what has been told                                 *)

LEMMA TellsAlike ==
    ASSUME NEW told, NEW q, NEW r, TellsUpTo(told, q),
           \A p \in ToTell : ToldBefore(p, q) <=> ToldBefore(p, r)
    PROVE  TellsUpTo(told, r)
<1>1. {p \in ToTell : ToldBefore(p, q)} = {p \in ToTell : ToldBefore(p, r)}
  OBVIOUS
<1> QED
  BY <1>1 DEF TellsUpTo

LEMMA TellsTheLot ==
    ASSUME NEW told, NEW q, TellsUpTo(told, q), \A p \in ToTell : ToldBefore(p, q)
    PROVE  TellsAll(told)
<1>1. {p \in ToTell : ToldBefore(p, q)} = ToTell
  OBVIOUS
<1> QED
  BY <1>1 DEF TellsUpTo, TellsAll

\* One more name is told of, which is that at the place told up to.
LEMMA TellsOneMore ==
    ASSUME ddTree \in DdirTrees, NEW f \in DOMAIN ddTree, NEW k \in DOMAIN ddTree[f], ddOpt.r \/ f = <<>>,
           NEW X, NEW told \in Seq(X), TellsUpTo(told, Append(f, k)), InOrder(told),
           ddTree[f][k] # "same", Said(Append(f, k)) \in X
    PROVE  /\ TellsUpTo(Append(told, Said(Append(f, k))), Append(f, k + 1))
           /\ InOrder(Append(told, Said(Append(f, k))))
<1> DEFINE p == Append(f, k)
           more == Append(told, Said(p))
<1>1. p \in ToTell
  BY TellingIs
<1>2. Len(told) \in Nat /\ DOMAIN told = 1..Len(told) /\ DOMAIN more = 1..Len(told) + 1
      /\ more[Len(told) + 1] = Said(p) /\ \A n \in 1..Len(told) : more[n] = told[n]
  BY AppendFacts
<1>3. {more[n] : n \in DOMAIN more} = {told[n] : n \in DOMAIN told} \cup {Said(p)}
  <2>1. \A n \in DOMAIN more : n \in DOMAIN told \/ n = Len(told) + 1
    BY <1>2
  <2>2. Len(told) + 1 \in DOMAIN more /\ \A n \in DOMAIN told : n \in DOMAIN more
    BY <1>2
  <2> QED
    BY <1>2, <2>1, <2>2
<1>4. {x \in ToTell : ToldBefore(x, Append(f, k + 1))} = {x \in ToTell : ToldBefore(x, p)} \cup {p}
  BY <1>1, NextName
<1>5. {Said(x) : x \in {x \in ToTell : ToldBefore(x, Append(f, k + 1))}}
        = {Said(x) : x \in {x \in ToTell : ToldBefore(x, p)}} \cup {Said(p)}
  BY <1>4
<1>6. TellsUpTo(more, Append(f, k + 1))
  BY <1>3, <1>5 DEF TellsUpTo
<1>7. \A x : Said(x)[2] = x
  BY DEF Said
<1>8. ASSUME NEW m \in DOMAIN more, NEW n \in DOMAIN more, m < n
      PROVE  ToldBefore(more[m][2], more[n][2])
  <2>1. m \in DOMAIN told
    BY <1>2, <1>8
  <2>2. CASE n \in DOMAIN told
    <3>1. more[m] = told[m] /\ more[n] = told[n]
      BY <1>2, <2>1, <2>2
    <3> QED
      BY <1>8, <2>1, <2>2, <3>1 DEF InOrder
  <2>3. CASE n \notin DOMAIN told
    <3>1. n = Len(told) + 1
      BY <1>2, <2>3
    <3>2. more[n] = Said(p) /\ more[m] = told[m]
      BY <1>2, <2>1, <3>1
    <3>3. told[m] \in {Said(x) : x \in {x \in ToTell : ToldBefore(x, p)}}
      BY <2>1 DEF TellsUpTo
    <3>4. PICK x \in ToTell : ToldBefore(x, p) /\ told[m] = Said(x)
      BY <3>3
    <3> QED
      BY <1>7, <3>2, <3>4
  <2> QED
    BY <2>2, <2>3
<1>9. InOrder(more)
  BY <1>8 DEF InOrder
<1> QED
  BY <1>6, <1>9

LEMMA SameTelling ==
    ASSUME ddTree' = ddTree, ddOpt' = ddOpt, NEW told, NEW q
    PROVE  (TellsUpTo(told, q)' <=> TellsUpTo(told, q)) /\ (TellsAll(told)' <=> TellsAll(told))
<1>1. ToTell' = ToTell /\ \A p : Said(p)' = Said(p)
  BY DEF ToTell, Said, KindUnder
<1> QED
  BY <1>1 DEF TellsUpTo, TellsAll

LEMMA ToldNow ==
    ASSUME ddTree' = ddTree, ddOpt' = ddOpt, NEW told, told = ddTold', InOrder(told), NEW q,
           ddAt' \in {"names", "again"} => q = Place(ddFile', ddEntry', ddAt') /\ TellsUpTo(told, q),
           ddAt' \in {"file", "done"} /\ ddStack' # <<>> =>
               q = Place(Top'.file, Top'.entry, Top'.at) /\ TellsUpTo(told, q),
           ddAt' \in {"done", "exited"} /\ ddStack' = <<>> => TellsAll(told)
    PROVE  ToldSoFar'
<1>1. (TellsUpTo(told, q)' <=> TellsUpTo(told, q)) /\ (TellsAll(told)' <=> TellsAll(told))
  BY SameTelling
<1>2. InOrder(ddTold')
  OBVIOUS
<1> QED
  BY <1>1, <1>2 DEF ToldSoFar

-----------------------------------------------------------------------------
(* diff of directories: what is set aside                                  *)

LEMMA SameAside ==
    ASSUME SetAside, ddStack' = ddStack, ddTree' = ddTree, ddOpt' = ddOpt
    PROVE  SetAside' /\ Top' = Top
BY DEF SetAside, Top

LEMMA TopIs ==
    ASSUME DirsTyped, SetAside, HereNow, ddStack # <<>>
    PROVE  /\ Len(ddStack) \in Nat \ {0} /\ Top \in Frames /\ Top.file \in DOMAIN ddTree /\ Top.argv = Top.file
           /\ Top.entry - 1 \in DOMAIN ddTree[Top.file] /\ ddFile = Append(Top.file, Top.entry - 1)
           /\ Top.at = "again" => ddOpt.r /\ ddTree[Top.file][Top.entry - 1] = "dir"
           /\ Len(Top.file) = Len(ddStack) - 1 /\ Top.file = CalledFor(ddStack, Len(ddStack) - 1)
<1>1. Len(ddStack) \in Nat \ {0} /\ Len(ddStack) \in 1..Len(ddStack) /\ ddStack[Len(ddStack)] \in Frames
  BY DEF DirsTyped
<1>2. ddFile = Append(Top.file, Top.entry - 1)
  BY <1>1 DEF HereNow, CalledFor, Top
<1> QED
  BY <1>1, <1>2 DEF SetAside, Top

LEMMA FileIs ==
    ASSUME DirsTyped, SetAside, HereNow
    PROVE  Len(ddFile) = Len(ddStack)
<1>1. CASE ddStack = <<>>
  BY <1>1 DEF HereNow, CalledFor
<1>2. CASE ddStack # <<>>
  <2>1. Top.file \in Seq(Nat) /\ ddFile = Append(Top.file, Top.entry - 1) /\ Len(Top.file) = Len(ddStack) - 1
        /\ Len(ddStack) \in Nat
    BY <1>2, TopIs DEF Frames
  <2> QED
    BY <2>1
<1> QED
  BY <1>1, <1>2

\* Setjmp
LEMMA PushKeeps ==
    ASSUME DirsTyped, SetAside, HereNow, ddAt \in {"names", "again"}, NEW k \in DOMAIN ddTree[ddFile],
           ddAt = "again" => ddTree[ddFile][k] = "dir", Setjmp(k), ddTree' = ddTree, ddOpt' = ddOpt
    PROVE  /\ SetAside' /\ ddStack' \in Seq(Frames) /\ ddStack' # <<>>
           /\ Top'.file = ddFile /\ Top'.argv = ddFile /\ Top'.entry = k + 1 /\ Top'.at = ddAt
           /\ CalledFor(ddStack', Len(ddStack')) = Append(ddFile, k)
<1> DEFINE o == [argv |-> ddArgv, file |-> ddFile, entry |-> k + 1, at |-> ddAt]
           l == Len(ddStack)
<1>1. /\ ddFile \in DOMAIN ddTree /\ ddArgv = ddFile /\ ddFile \in Seq(Nat) /\ ddTree \in DdirTrees
      /\ ddStack # <<>> => Top.at = "again"
      /\ ddAt = "again" => ddOpt.r
  BY DEF HereNow, DirsTyped
<1>2. ddTree[ddFile] \in Seq(DdirKinds)
  BY <1>1, TreeIs
<1>3. k \in Nat /\ k + 1 - 1 = k
  BY <1>2
<1>4. o \in Frames
  BY <1>1, <1>3 DEF Frames
<1>5. /\ ddStack' \in Seq(Frames) /\ ddStack' # <<>> /\ Len(ddStack') = l + 1 /\ ddStack'[l + 1] = o
      /\ \A j \in 1..l : ddStack'[j] = ddStack[j]
      /\ l \in Nat
  <2>1. ddStack \in Seq(Frames) /\ ddStack' = Append(ddStack, o)
    BY DEF Setjmp, DirsTyped
  <2> QED
    BY <1>4, <2>1, AppendFacts
<1>6. Top' = o
  BY <1>5 DEF Top
<1>7. CalledFor(ddStack', l + 1) = Append(ddFile, k)
  BY <1>3, <1>5 DEF CalledFor
<1>8. \A j \in 0..l : CalledFor(ddStack', j) = CalledFor(ddStack, j)
  BY <1>5 DEF CalledFor
<1>9. SetAside'
  <2> SUFFICES ASSUME NEW j \in 1..l + 1
               PROVE  /\ ddStack'[j].file = CalledFor(ddStack', j - 1) /\ Len(ddStack'[j].file) = j - 1
                      /\ ddStack'[j].argv = ddStack'[j].file /\ ddStack'[j].file \in DOMAIN ddTree
                      /\ ddStack'[j].entry - 1 \in DOMAIN ddTree[ddStack'[j].file]
                      /\ ddStack'[j].at = "again" => ddOpt.r /\ ddTree[ddStack'[j].file][ddStack'[j].entry - 1] = "dir"
                      /\ j < l + 1 => ddStack'[j].at = "again"
    BY <1>5 DEF SetAside
  <2>1. CASE j \in 1..l
    <3>1. ddStack'[j] = ddStack[j] /\ CalledFor(ddStack', j - 1) = CalledFor(ddStack, j - 1)
      BY <1>5, <1>8, <2>1
    <3>2. ddStack[j].at = "again"
      <4>1. CASE j < l
        BY <2>1, <4>1 DEF SetAside
      <4>2. CASE j = l
        BY <1>1, <1>5, <2>1, <4>2 DEF Top
      <4> QED
        BY <1>5, <2>1, <4>1, <4>2
    <3> QED
      BY <2>1, <3>1, <3>2 DEF SetAside
  <2>2. CASE j = l + 1
    <3>1. ddStack'[j] = o /\ j - 1 = l /\ ~(j < l + 1)
      BY <1>5, <2>2
    <3>2. ddFile = CalledFor(ddStack', l)
      BY <1>5, <1>8 DEF HereNow
    <3>3. Len(ddFile) = l
      BY FileIs
    <3> QED
      BY <1>1, <1>3, <3>1, <3>2, <3>3
  <2> QED
    BY <1>5, <2>1, <2>2
<1> QED
  BY <1>1, <1>5, <1>6, <1>7, <1>9

-----------------------------------------------------------------------------
(* diff of directories: the actions                                        *)

Words == (DdirKinds \cup {"diff"}) \X Seq(Nat)

LEMMA InWords == \A w \in DdirKinds \cup {"diff"} : \A p \in Seq(Nat) : <<w, p>> \in Words
BY DEF Words

\* What there is at the next name
LEMMA HereIs ==
    ASSUME DirsInv, ddAt \in {"names", "again"}
    PROVE  /\ ddFile \in DOMAIN ddTree /\ ddFile \in Seq(Nat) /\ ddTree \in DdirTrees /\ ddArgv = ddFile
           /\ ddTree[ddFile] \in Seq(DdirKinds) /\ Len(ddTree[ddFile]) \in Nat
           /\ DOMAIN ddTree[ddFile] = 1..Len(ddTree[ddFile])
           /\ ddEntry \in 1..Len(ddTree[ddFile]) + 1 /\ ddEntry \in Nat \ {0}
           /\ ddOpt.r \/ ddFile = <<>>
           /\ ddTold \in Seq(Words) /\ InOrder(ddTold)
           /\ TellsUpTo(ddTold, Place(ddFile, ddEntry, ddAt))
           /\ \A k \in DOMAIN ddTree[ddFile] : k \in Nat /\ Append(ddFile, k) \in Seq(Nat)
<1>1. /\ ddFile \in DOMAIN ddTree /\ ddFile \in Seq(Nat) /\ ddTree \in DdirTrees /\ ddArgv = ddFile
      /\ ddEntry \in 1..Len(ddTree[ddFile]) + 1 /\ ddEntry \in Nat \ {0}
      /\ ddTold \in Seq(Words) /\ InOrder(ddTold)
      /\ TellsUpTo(ddTold, Place(ddFile, ddEntry, ddAt))
  BY DEF DirsInv, DirsTyped, HereNow, ToldSoFar, Words
<1>2. /\ ddTree[ddFile] \in Seq(DdirKinds) /\ Len(ddTree[ddFile]) \in Nat
      /\ DOMAIN ddTree[ddFile] = 1..Len(ddTree[ddFile])
  BY <1>1, TreeIs
<1>3. ddOpt.r \/ ddFile = <<>>
  <2>1. CASE ddStack = <<>>
    BY <2>1 DEF DirsInv, HereNow, CalledFor
  <2>2. CASE ddStack # <<>>
    BY <2>2, TopIs DEF DirsInv, HereNow
  <2> QED
    BY <2>1, <2>2
<1>4. \A k \in DOMAIN ddTree[ddFile] : k \in Nat /\ Append(ddFile, k) \in Seq(Nat)
  BY <1>1, <1>2
<1> QED
  BY <1>1, <1>2, <1>3, <1>4

LEMMA NameToldKeeps == DirsInv /\ NameTold => DirsInv'
<1> SUFFICES ASSUME DirsInv, NameTold PROVE DirsInv'
  OBVIOUS
<1> DEFINE f == ddFile
           k == ddEntry
<1>1. /\ ddAt = "names" /\ ddEntry <= Len(ddTree[f]) /\ ddTree[f][k] \in DOMAIN StatusOf
      /\ ddTold' = IF ddTree[f][k] = "same" THEN ddTold ELSE Append(ddTold, <<ddTree[f][k], Append(f, k)>>)
      /\ ddStatus' = IF StatusOf[ddTree[f][k]] = 0 THEN ddStatus ELSE StatusOf[ddTree[f][k]]
      /\ ddEntry' = k + 1 /\ ddAt' = ddAt
      /\ ddTree' = ddTree /\ ddOpt' = ddOpt /\ ddArgv' = ddArgv /\ ddFile' = ddFile /\ ddStack' = ddStack
  BY DEF NameTold, ddNames, DirHere, ddirFixed
<1>2. /\ f \in DOMAIN ddTree /\ ddTree \in DdirTrees /\ Len(ddTree[f]) \in Nat
      /\ DOMAIN ddTree[f] = 1..Len(ddTree[f]) /\ k \in Nat \ {0} /\ (ddOpt.r \/ f = <<>>)
      /\ ddTold \in Seq(Words) /\ InOrder(ddTold) /\ TellsUpTo(ddTold, Append(f, k))
  BY <1>1, HereIs DEF Place
<1>3. k \in DOMAIN ddTree[f]
  BY <1>1, <1>2
<1>4. ddTree[f][k] \in {"only", "types", "binary", "unreadable", "dir", "same"}
      /\ StatusOf[ddTree[f][k]] \in 0..2
  BY <1>1 DEF StatusOf
<1>5. KindUnder(Append(f, k)) = ddTree[f][k] /\ (ddTree[f][k] # "same" <=> Append(f, k) \in ToTell)
  BY <1>2, <1>3, TellingIs
<1>6. Said(Append(f, k)) = <<ddTree[f][k], Append(f, k)>>
  BY <1>4, <1>5 DEF Said
<1>7. Said(Append(f, k)) \in Words
  <2>1. Append(f, k) \in Seq(Nat)
    BY <1>1, <1>3, HereIs
  <2> QED
    BY <1>4, <1>6, <2>1, InWords DEF DdirKinds
<1>8. PICK told : told = ddTold'
  OBVIOUS
<1>9. told \in Seq(Words) /\ InOrder(told) /\ TellsUpTo(told, Append(f, k + 1))
  <2>1. CASE ddTree[f][k] = "same"
    <3>1. \A p \in ToTell : ToldBefore(p, Append(f, k)) <=> ToldBefore(p, Append(f, k + 1))
      BY <1>2, <1>3, <1>5, <2>1, NextName
    <3>2. TellsUpTo(ddTold, Append(f, k + 1))
      BY <1>2, <3>1, TellsAlike
    <3> QED
      BY <1>1, <1>2, <1>8, <2>1, <3>2
  <2>2. CASE ddTree[f][k] # "same"
    <3>1. told = Append(ddTold, Said(Append(f, k)))
      BY <1>1, <1>6, <1>8, <2>2
    <3>2. TellsUpTo(told, Append(f, k + 1)) /\ InOrder(told)
      BY <1>2, <1>3, <1>7, <2>2, <3>1, TellsOneMore
    <3> QED
      BY <1>2, <1>7, <3>1, <3>2
  <2> QED
    BY <2>1, <2>2
<1>10. DirsTyped'
  BY <1>1, <1>2, <1>4, <1>8, <1>9 DEF DirsInv, DirsTyped, Words
<1>11. SetAside' /\ Top' = Top
  BY <1>1, SameAside DEF DirsInv
<1>12. HereNow'
  <2>1. ddEntry' \in 1..Len(ddTree[f]) + 1
    BY <1>1, <1>2
  <2> QED
    BY <1>1, <1>11, <2>1 DEF DirsInv, HereNow
<1>13. ToldSoFar'
  <2>1. PICK q : q = Append(f, k + 1)
    OBVIOUS
  <2>2. q = Place(ddFile', ddEntry', ddAt')
    BY <1>1, <2>1 DEF Place
  <2> QED
    BY <1>1, <1>8, <1>9, <2>1, <2>2, ToldNow
<1> QED
  BY <1>10, <1>11, <1>12, <1>13 DEF DirsInv

LEMMA NameDiffersKeeps == DirsInv /\ NameDiffers => DirsInv'
<1> SUFFICES ASSUME DirsInv, NameDiffers PROVE DirsInv'
  OBVIOUS
<1> DEFINE f == ddFile
           k == ddEntry
<1>1. /\ ddAt = "names" /\ ddEntry <= Len(ddTree[f]) /\ ddTree[f][k] \in {"differ", "blank"}
      /\ Setjmp(k) /\ ddAt' = "file"
      /\ ddTold' = Append(ddTold, <<"diff", Named2(k)>>) /\ ddFile' = Named2(k)
      /\ ddTree' = ddTree /\ ddOpt' = ddOpt /\ ddArgv' = ddArgv /\ ddEntry' = ddEntry /\ ddStatus' = ddStatus
  BY DEF NameDiffers, ddNames, ddirFixed
<1>2. /\ f \in DOMAIN ddTree /\ ddTree \in DdirTrees /\ Len(ddTree[f]) \in Nat /\ ddArgv = f
      /\ DOMAIN ddTree[f] = 1..Len(ddTree[f]) /\ k \in Nat \ {0} /\ (ddOpt.r \/ f = <<>>)
      /\ ddTold \in Seq(Words) /\ InOrder(ddTold) /\ TellsUpTo(ddTold, Append(f, k))
  BY <1>1, HereIs DEF Place
<1>3. k \in DOMAIN ddTree[f] /\ Append(f, k) \in Seq(Nat)
  <2>1. k \in DOMAIN ddTree[f]
    BY <1>1, <1>2
  <2> QED
    BY <1>1, <2>1, HereIs
<1>4. Named2(k) = Append(f, k)
  BY <1>2 DEF Named2, DirHere
<1>5. KindUnder(Append(f, k)) = ddTree[f][k]
  BY <1>2, <1>3, TellingIs
<1>6. Said(Append(f, k)) = <<"diff", Append(f, k)>>
  BY <1>1, <1>5 DEF Said
<1>7. Said(Append(f, k)) \in Words
  BY <1>3, <1>6, InWords
<1>8. PICK told : told = ddTold'
  OBVIOUS
<1>9. told \in Seq(Words) /\ InOrder(told) /\ TellsUpTo(told, Append(f, k + 1))
  <2>1. told = Append(ddTold, Said(Append(f, k)))
    BY <1>1, <1>4, <1>6, <1>8
  <2>2. ddTree[f][k] # "same"
    BY <1>1
  <2>3. TellsUpTo(told, Append(f, k + 1)) /\ InOrder(told)
    BY <1>2, <1>3, <1>7, <2>1, <2>2, TellsOneMore
  <2> QED
    BY <1>2, <1>7, <2>1, <2>3
<1>10. /\ SetAside' /\ ddStack' \in Seq(Frames) /\ ddStack' # <<>>
       /\ Top'.file = f /\ Top'.argv = f /\ Top'.entry = k + 1 /\ Top'.at = "names"
       /\ CalledFor(ddStack', Len(ddStack')) = Append(f, k)
  BY <1>1, <1>3, PushKeeps DEF DirsInv
<1>11. DirsTyped'
  BY <1>1, <1>2, <1>3, <1>4, <1>8, <1>9, <1>10 DEF DirsInv, DirsTyped, Words
<1>12. HereNow'
  BY <1>1, <1>2, <1>4, <1>10 DEF HereNow
<1>13. ToldSoFar'
  <2>1. PICK q : q = Append(f, k + 1)
    OBVIOUS
  <2>2. q = Place(Top'.file, Top'.entry, Top'.at)
    BY <1>10, <2>1 DEF Place
  <2> QED
    BY <1>1, <1>8, <1>9, <1>10, <2>1, <2>2, ToldNow
<1> QED
  BY <1>10, <1>11, <1>12, <1>13 DEF DirsInv

LEMMA FileComparedKeeps == DirsInv /\ FileCompared => DirsInv'
<1> SUFFICES ASSUME DirsInv, FileCompared PROVE DirsInv'
  OBVIOUS
<1>1. /\ ddAt = "file" /\ ddAt' = "done" /\ ddStatus' \in 0..2 /\ ddStack # <<>>
      /\ ddTree' = ddTree /\ ddOpt' = ddOpt /\ ddArgv' = ddArgv /\ ddFile' = ddFile /\ ddEntry' = ddEntry
      /\ ddStack' = ddStack /\ ddTold' = ddTold
  BY DEF FileCompared, ddirFixed, DirsInv, HereNow
<1>2. SetAside' /\ Top' = Top
  BY <1>1, SameAside DEF DirsInv
<1>3. DirsTyped' /\ HereNow'
  BY <1>1, <1>2 DEF DirsInv, DirsTyped, HereNow
<1>4. ToldSoFar'
  <2>1. PICK told, q : told = ddTold /\ q = Place(Top.file, Top.entry, Top.at)
    OBVIOUS
  <2>2. TellsUpTo(told, q) /\ InOrder(told)
    BY <1>1, <2>1 DEF DirsInv, ToldSoFar
  <2> QED
    BY <1>1, <1>2, <2>1, <2>2, ToldNow
<1> QED
  BY <1>2, <1>3, <1>4 DEF DirsInv

LEMMA NamesEndKeeps == DirsInv /\ NamesEnd => DirsInv'
<1> SUFFICES ASSUME DirsInv, NamesEnd PROVE DirsInv'
  OBVIOUS
<1> DEFINE f == ddFile
<1>1. /\ ddAt = "names" /\ ddEntry > Len(ddTree[f]) /\ ddEntry' = 1
      /\ ddAt' = (IF ddOpt.r THEN "again" ELSE "done")
      /\ ddTree' = ddTree /\ ddOpt' = ddOpt /\ ddArgv' = ddArgv /\ ddFile' = ddFile
      /\ ddStack' = ddStack /\ ddTold' = ddTold /\ ddStatus' = ddStatus
  BY DEF NamesEnd, ddNames, ddirFixed
<1>2. /\ f \in DOMAIN ddTree /\ ddTree \in DdirTrees /\ Len(ddTree[f]) \in Nat
      /\ ddEntry \in 1..Len(ddTree[f]) + 1
      /\ InOrder(ddTold) /\ TellsUpTo(ddTold, Append(f, ddEntry))
  BY <1>1, HereIs DEF Place
<1>3. ddEntry = Len(ddTree[f]) + 1 /\ 1 \in 1..Len(ddTree[f]) + 1
  BY <1>1, <1>2
<1>4. SetAside' /\ Top' = Top
  BY <1>1, SameAside DEF DirsInv
<1>5. DirsTyped'
  BY <1>1 DEF DirsInv, DirsTyped
<1>6. HereNow'
  BY <1>1, <1>3, <1>4 DEF DirsInv, HereNow
<1>7. ~ddOpt.r => ddStack = <<>>
  BY <1>1, TopIs DEF DirsInv, HereNow
<1>8. ToldSoFar'
  <2>1. PICK told, q : told = ddTold /\ q = Append(Append(f, 1), 0)
    OBVIOUS
  <2>2. TellsUpTo(told, Append(f, Len(ddTree[f]) + 1))
    BY <1>2, <1>3, <2>1
  <2>3. CASE ddOpt.r
    <3>1. \A p \in ToTell : ToldBefore(p, Append(f, Len(ddTree[f]) + 1)) <=> ToldBefore(p, q)
      BY <1>2, <2>1, NamesThenBelow
    <3>2. TellsUpTo(told, q)
      BY <2>2, <3>1, TellsAlike
    <3>3. q = Place(ddFile', ddEntry', ddAt')
      BY <1>1, <2>1, <2>3 DEF Place
    <3> QED
      BY <1>1, <1>2, <2>1, <2>3, <3>2, <3>3, ToldNow
  <2>4. CASE ~ddOpt.r
    <3>1. f = <<>>
      BY <1>7, <2>4 DEF DirsInv, HereNow, CalledFor
    <3>2. \A p \in ToTell : ToldBefore(p, Append(f, Len(ddTree[f]) + 1))
      BY <1>2, <2>4, <3>1, AtTheTop
    <3>3. TellsAll(told)
      BY <2>2, <3>2, TellsTheLot
    <3> QED
      BY <1>1, <1>2, <1>7, <2>1, <2>4, <3>3, ToldNow
  <2> QED
    BY <2>3, <2>4
<1> QED
  BY <1>4, <1>5, <1>6, <1>8 DEF DirsInv

LEMMA SubdirectoryKeeps == DirsInv /\ Subdirectory => DirsInv'
<1> SUFFICES ASSUME DirsInv, Subdirectory PROVE DirsInv'
  OBVIOUS
<1> DEFINE f == ddFile
           e == ddEntry
           k == CHOOSE k \in Subdirectories : \A n \in Subdirectories : k <= n
<1>1. /\ ddAt = "again" /\ Subdirectories # {} /\ Setjmp(k) /\ ddFile' = Named2(k) /\ ddArgv' = Named2(k)
      /\ ddStatus' = 0 /\ ddEntry' = 1 /\ ddAt' = "names"
      /\ ddTree' = ddTree /\ ddOpt' = ddOpt /\ ddTold' = ddTold
  BY DEF Subdirectory, ddirFixed
<1>2. /\ f \in DOMAIN ddTree /\ f \in Seq(Nat) /\ ddTree \in DdirTrees /\ Len(ddTree[f]) \in Nat /\ ddArgv = f
      /\ DOMAIN ddTree[f] = 1..Len(ddTree[f]) /\ e \in Nat \ {0}
      /\ InOrder(ddTold) /\ TellsUpTo(ddTold, Append(Append(f, e), 0))
  BY <1>1, HereIs DEF Place
<1>3. \A n : n \in Subdirectories <=> n \in DOMAIN ddTree[f] /\ e <= n /\ ddTree[f][n] = "dir"
  BY <1>2 DEF Subdirectories, ddNames
<1>4. k \in Subdirectories /\ \A n \in Subdirectories : k <= n
  <2>1. Subdirectories \subseteq Nat
    BY <1>2, <1>3
  <2> QED
    BY <1>1, <2>1, LeastNumber
<1> HIDE DEF k
<1>5. /\ k \in DOMAIN ddTree[f] /\ e <= k /\ ddTree[f][k] = "dir"
      /\ \A n \in DOMAIN ddTree[f] : ddTree[f][n] = "dir" => n < e \/ k <= n
  BY <1>2, <1>3, <1>4
<1>6. Named2(k) = Append(f, k)
  BY <1>2 DEF Named2, DirHere
<1>7. Append(f, k) \in DOMAIN ddTree /\ Append(f, k) \in Seq(Nat)
  BY <1>2, <1>5, TreeIs
<1>8. /\ SetAside' /\ ddStack' \in Seq(Frames) /\ ddStack' # <<>>
      /\ Top'.file = f /\ Top'.argv = f /\ Top'.entry = k + 1 /\ Top'.at = "again"
      /\ CalledFor(ddStack', Len(ddStack')) = Append(f, k)
  BY <1>1, <1>5, PushKeeps DEF DirsInv
<1>9. DirsTyped'
  BY <1>1, <1>6, <1>7, <1>8 DEF DirsInv, DirsTyped
<1>10. HereNow'
  <2>1. 1 \in 1..Len(ddTree[Append(f, k)]) + 1
    <3>1. Len(ddTree[Append(f, k)]) \in Nat
      BY <1>2, <1>7, TreeIs
    <3> QED
      BY <3>1
  <2> QED
    BY <1>1, <1>6, <1>7, <1>8, <2>1 DEF HereNow
<1>11. ToldSoFar'
  <2>1. PICK told, q : told = ddTold /\ q = Append(Append(f, k), 1)
    OBVIOUS
  <2>2. \A p \in ToTell : ToldBefore(p, Append(Append(f, e), 0)) <=> ToldBefore(p, q)
    BY <1>2, <1>5, <2>1, IntoDirectory
  <2>3. TellsUpTo(told, q)
    BY <1>2, <2>1, <2>2, TellsAlike
  <2>4. q = Place(ddFile', ddEntry', ddAt')
    BY <1>1, <1>6, <2>1 DEF Place
  <2> QED
    BY <1>1, <1>2, <2>1, <2>3, <2>4, ToldNow
<1> QED
  BY <1>8, <1>9, <1>10, <1>11 DEF DirsInv

LEMMA AgainEndKeeps == DirsInv /\ AgainEnd => DirsInv'
<1> SUFFICES ASSUME DirsInv, AgainEnd PROVE DirsInv'
  OBVIOUS
<1> DEFINE g == ddFile
           e == ddEntry
<1>1. /\ ddAt = "again" /\ Subdirectories = {} /\ ddAt' = "done"
      /\ ddTree' = ddTree /\ ddOpt' = ddOpt /\ ddArgv' = ddArgv /\ ddFile' = ddFile /\ ddEntry' = ddEntry
      /\ ddStack' = ddStack /\ ddTold' = ddTold /\ ddStatus' = ddStatus
  BY DEF AgainEnd, ddirFixed
<1>2. /\ g \in DOMAIN ddTree /\ ddTree \in DdirTrees /\ Len(ddTree[g]) \in Nat
      /\ DOMAIN ddTree[g] = 1..Len(ddTree[g]) /\ e \in Nat \ {0}
      /\ InOrder(ddTold) /\ TellsUpTo(ddTold, Append(Append(g, e), 0))
  BY <1>1, HereIs DEF Place
<1>3. \A j \in DOMAIN ddTree[g] : ddTree[g][j] = "dir" => j < e
  <2> SUFFICES ASSUME NEW j \in DOMAIN ddTree[g], ddTree[g][j] = "dir", ~(j < e) PROVE FALSE
    OBVIOUS
  <2>1. j \in e..Len(ddTree[g])
    BY <1>2
  <2> QED
    BY <1>1, <2>1 DEF Subdirectories, ddNames
<1>4. SetAside' /\ Top' = Top
  BY <1>1, SameAside DEF DirsInv
<1>5. DirsTyped'
  BY <1>1 DEF DirsInv, DirsTyped
<1>6. HereNow'
  BY <1>1, <1>4 DEF DirsInv, HereNow
<1>7. ToldSoFar'
  <2>1. CASE ddStack = <<>>
    <3>1. PICK told, q : told = ddTold /\ q = Append(Append(<<>>, e), 0)
      OBVIOUS
    <3>2. g = <<>>
      BY <2>1 DEF DirsInv, HereNow, CalledFor
    <3>3. \A p \in ToTell : ToldBefore(p, q)
      BY <1>2, <1>3, <3>1, <3>2, AtTheTop
    <3>4. TellsAll(told)
      BY <1>2, <3>1, <3>2, <3>3, TellsTheLot
    <3> QED
      BY <1>1, <1>2, <2>1, <3>1, <3>4, ToldNow
  <2>2. CASE ddStack # <<>>
    <3> DEFINE f == Top.file
               k == Top.entry - 1
    <3>1. /\ f \in DOMAIN ddTree /\ k \in DOMAIN ddTree[f] /\ g = Append(f, k) /\ Top.at = "again"
          /\ ddTree[f][k] = "dir" /\ k + 1 = Top.entry
      <4>1. Top.at = "again"
        BY <1>1, <2>2 DEF DirsInv, HereNow
      <4>2. Top \in Frames
        BY <2>2, TopIs DEF DirsInv
      <4>3. Top.entry - 1 + 1 = Top.entry
        BY <4>2 DEF Frames
      <4> QED
        BY <2>2, <4>1, <4>3, TopIs DEF DirsInv
    <3>2. PICK told, q : told = ddTold /\ q = Append(Append(f, k + 1), 0)
      OBVIOUS
    <3>3. \A p \in ToTell : ToldBefore(p, Append(Append(g, e), 0)) <=> ToldBefore(p, q)
      BY <1>2, <1>3, <3>1, <3>2, OutOfDirectory
    <3>4. TellsUpTo(told, q)
      BY <1>2, <3>2, <3>3, TellsAlike
    <3>5. q = Place(Top'.file, Top'.entry, Top'.at)
      BY <1>4, <3>1, <3>2 DEF Place
    <3> QED
      BY <1>1, <1>2, <2>2, <3>2, <3>4, <3>5, ToldNow
  <2> QED
    BY <2>1, <2>2
<1> QED
  BY <1>4, <1>5, <1>6, <1>7 DEF DirsInv

LEMMA LongjmpKeeps == DirsInv /\ Longjmp => DirsInv'
<1> SUFFICES ASSUME DirsInv, Longjmp PROVE DirsInv'
  OBVIOUS
<1> DEFINE l == Len(ddStack)
<1>1. /\ ddAt = "done" /\ ddStack # <<>> /\ ddStack' = Front(ddStack)
      /\ ddArgv' = Last(ddStack).argv /\ ddFile' = Last(ddStack).file
      /\ ddEntry' = Last(ddStack).entry /\ ddAt' = Last(ddStack).at
      /\ ddTree' = ddTree /\ ddOpt' = ddOpt /\ ddTold' = ddTold /\ ddStatus' = ddStatus
  BY DEF Longjmp, ddirFixed
<1>2. /\ ddStack' \in Seq(Frames) /\ l \in Nat \ {0} /\ Len(ddStack') = l - 1 /\ Last(ddStack) = Top
      /\ \A j \in 1..l - 1 : ddStack'[j] = ddStack[j]
  <2>1. ddStack \in Seq(Frames)
    BY DEF DirsInv, DirsTyped
  <2> QED
    BY <1>1, <2>1, FrontFacts DEF Top
<1>3. /\ Top \in Frames /\ Top.file \in DOMAIN ddTree /\ Top.argv = Top.file
      /\ Top.entry - 1 \in DOMAIN ddTree[Top.file]
      /\ Top.at = "again" => ddOpt.r /\ ddTree[Top.file][Top.entry - 1] = "dir"
      /\ Len(Top.file) = l - 1 /\ Top.file = CalledFor(ddStack, l - 1)
  BY <1>1, TopIs DEF DirsInv
<1>4. /\ Top.file \in Seq(Nat) /\ Top.entry \in Nat \ {0} /\ Top.at \in {"names", "again"}
      /\ Top.entry \in 1..Len(ddTree[Top.file]) + 1
  <2>1. Top.file \in Seq(Nat) /\ Top.entry \in Nat /\ Top.at \in {"names", "again"}
    BY <1>3 DEF Frames
  <2>2. ddTree[Top.file] \in Seq(DdirKinds)
    BY <1>3, TreeIs DEF DirsInv, DirsTyped
  <2>3. Len(ddTree[Top.file]) \in Nat /\ Top.entry - 1 \in 1..Len(ddTree[Top.file])
    BY <1>3, <2>2
  <2> QED
    BY <2>1, <2>3
<1>5. \A j \in 0..l - 1 : CalledFor(ddStack', j) = CalledFor(ddStack, j)
  BY <1>2 DEF CalledFor
<1>6. SetAside'
  <2> SUFFICES ASSUME NEW j \in 1..l - 1
               PROVE  /\ ddStack'[j].file = CalledFor(ddStack', j - 1) /\ Len(ddStack'[j].file) = j - 1
                      /\ ddStack'[j].argv = ddStack'[j].file /\ ddStack'[j].file \in DOMAIN ddTree
                      /\ ddStack'[j].entry - 1 \in DOMAIN ddTree[ddStack'[j].file]
                      /\ ddStack'[j].at = "again" => ddOpt.r /\ ddTree[ddStack'[j].file][ddStack'[j].entry - 1] = "dir"
                      /\ j < l - 1 => ddStack'[j].at = "again"
    BY <1>1, <1>2 DEF SetAside
  <2>1. ddStack'[j] = ddStack[j] /\ j \in 1..l /\ j < l /\ j - 1 \in 0..l - 1
    BY <1>2
  <2>2. CalledFor(ddStack', j - 1) = CalledFor(ddStack, j - 1)
    BY <1>5, <2>1
  <2> QED
    BY <2>1, <2>2 DEF DirsInv, SetAside
<1>7. DirsTyped'
  BY <1>1, <1>2, <1>3, <1>4 DEF DirsInv, DirsTyped
<1>8. HereNow'
  <2>1. ddFile' = CalledFor(ddStack', Len(ddStack'))
    BY <1>1, <1>2, <1>3, <1>5
  <2>2. ASSUME ddStack' # <<>> PROVE Top'.at = "again"
    <3>1. l - 1 \in 1..l - 1 /\ l - 1 \in 1..l /\ l - 1 < l
      BY <1>2, <2>2
    <3>2. Top' = ddStack[l - 1]
      BY <1>2, <3>1 DEF Top
    <3> QED
      BY <3>1, <3>2 DEF DirsInv, SetAside
  <2> QED
    BY <1>1, <1>2, <1>3, <1>4, <2>1, <2>2 DEF HereNow
<1>9. ToldSoFar'
  <2>1. PICK told, q : told = ddTold /\ q = Place(Top.file, Top.entry, Top.at)
    OBVIOUS
  <2>2. TellsUpTo(told, q) /\ InOrder(told)
    BY <1>1, <2>1 DEF DirsInv, ToldSoFar
  <2>3. q = Place(ddFile', ddEntry', ddAt')
    BY <1>1, <1>2, <2>1
  <2>4. ddAt' \in {"names", "again"}
    BY <1>1, <1>2, <1>4
  <2> QED
    BY <1>1, <2>1, <2>2, <2>3, <2>4, ToldNow
<1> QED
  BY <1>6, <1>7, <1>8, <1>9 DEF DirsInv

LEMMA DdirExitKeeps == DirsInv /\ DdirExit => DirsInv'
<1> SUFFICES ASSUME DirsInv, DdirExit PROVE DirsInv'
  OBVIOUS
<1>1. /\ ddAt = "done" /\ ddStack = <<>> /\ ddAt' = "exited"
      /\ ddTree' = ddTree /\ ddOpt' = ddOpt /\ ddArgv' = ddArgv /\ ddFile' = ddFile /\ ddEntry' = ddEntry
      /\ ddStack' = ddStack /\ ddTold' = ddTold /\ ddStatus' = ddStatus
  BY DEF DdirExit, ddirFixed
<1>2. SetAside' /\ Top' = Top
  BY <1>1, SameAside DEF DirsInv
<1>3. DirsTyped' /\ HereNow'
  BY <1>1, <1>2 DEF DirsInv, DirsTyped, HereNow
<1>4. ToldSoFar'
  <2>1. PICK told : told = ddTold
    OBVIOUS
  <2>2. TellsAll(told) /\ InOrder(told)
    BY <1>1, <2>1 DEF DirsInv, ToldSoFar
  <2> QED
    BY <1>1, <2>1, <2>2, ToldNow
<1> QED
  BY <1>2, <1>3, <1>4 DEF DirsInv

LEMMA DirsStand == DirsInv /\ UNCHANGED ddirVars => DirsInv'
<1> SUFFICES ASSUME DirsInv, UNCHANGED ddirVars PROVE DirsInv'
  OBVIOUS
<1>1. /\ ddTree' = ddTree /\ ddOpt' = ddOpt /\ ddArgv' = ddArgv /\ ddFile' = ddFile /\ ddEntry' = ddEntry
      /\ ddStack' = ddStack /\ ddTold' = ddTold /\ ddStatus' = ddStatus /\ ddAt' = ddAt
  BY DEF ddirVars, ddirFixed
<1>2. SetAside' /\ Top' = Top
  BY <1>1, SameAside DEF DirsInv
<1>3. DirsTyped' /\ HereNow'
  BY <1>1, <1>2 DEF DirsInv, DirsTyped, HereNow
<1>4. ToldSoFar'
  <2>1. PICK told, q : /\ told = ddTold
                      /\ q = IF ddAt \in {"names", "again"} THEN Place(ddFile, ddEntry, ddAt)
                             ELSE Place(Top.file, Top.entry, Top.at)
    OBVIOUS
  <2>2. /\ ddAt \in {"names", "again"} => TellsUpTo(told, q)
        /\ ddAt \in {"file", "done"} /\ ddStack # <<>> => TellsUpTo(told, q)
        /\ ddAt \in {"done", "exited"} /\ ddStack = <<>> => TellsAll(told)
        /\ InOrder(told)
    BY <2>1 DEF DirsInv, ToldSoFar
  <2> QED
    BY <1>1, <1>2, <2>1, <2>2, ToldNow
<1> QED
  BY <1>2, <1>3, <1>4 DEF DirsInv

LEMMA DirsBegin == DdirInit => DirsInv
<1> SUFFICES ASSUME DdirInit PROVE DirsInv
  OBVIOUS
<1>1. /\ ddTree \in DdirTrees /\ ddOpt \in DdirOptions
      /\ ddArgv = <<>> /\ ddFile = <<>> /\ ddEntry = 1 /\ ddStack = <<>>
      /\ ddStatus = 0 /\ ddTold = <<>> /\ ddAt = "names"
  BY DEF DdirInit, DdirBegin
<1>2. DirsTyped
  BY <1>1 DEF DirsTyped
<1>3. SetAside
  BY <1>1 DEF SetAside
<1>4. HereNow
  <2>1. <<>> \in DOMAIN ddTree
    BY <1>1, RootIs
  <2>2. Len(ddTree[<<>>]) \in Nat
    BY <1>1, <2>1, TreeIs
  <2>3. 1 \in 1..Len(ddTree[<<>>]) + 1
    BY <2>2
  <2> QED
    BY <1>1, <2>1, <2>3 DEF HereNow, CalledFor
<1>5. ToldSoFar
  <2>1. \A p \in ToTell : ~ToldBefore(p, Append(<<>>, 1))
    BY <1>1, AtTheTop
  <2>2. {p \in ToTell : ToldBefore(p, Append(<<>>, 1))} = {}
    BY <2>1
  <2>3. DOMAIN ddTold = {}
    BY <1>1
  <2>4. TellsUpTo(ddTold, Append(<<>>, 1))
    BY <2>2, <2>3 DEF TellsUpTo
  <2>5. InOrder(ddTold)
    BY <2>3 DEF InOrder
  <2> QED
    BY <1>1, <2>4, <2>5 DEF ToldSoFar, Place
<1> QED
  BY <1>2, <1>3, <1>4, <1>5 DEF DirsInv

-----------------------------------------------------------------------------
(* diff of directories: the theorems                                       *)

\* diff: what stackdiff() has set aside are the directories that lead to the one in hand,
\* and all that is before the place in it has been told of, in order.
THEOREM DirsInvariant == DdirSpec => []DirsInv
<1>1. DdirInit => DirsInv
  BY DirsBegin
<1>2. DirsInv /\ [DdirNext]_ddirVars => DirsInv'
  <2> SUFFICES ASSUME DirsInv, [DdirNext]_ddirVars PROVE DirsInv'
    OBVIOUS
  <2>1. CASE NameTold
    BY <2>1, NameToldKeeps
  <2>2. CASE NameDiffers
    BY <2>2, NameDiffersKeeps
  <2>3. CASE FileCompared
    BY <2>3, FileComparedKeeps
  <2>4. CASE NamesEnd
    BY <2>4, NamesEndKeeps
  <2>5. CASE Subdirectory
    BY <2>5, SubdirectoryKeeps
  <2>6. CASE AgainEnd
    BY <2>6, AgainEndKeeps
  <2>7. CASE Longjmp
    BY <2>7, LongjmpKeeps
  <2>8. CASE DdirExit
    BY <2>8, DdirExitKeeps
  <2>9. CASE UNCHANGED ddirVars
    BY <2>9, DirsStand
  <2> QED
    BY <2>1, <2>2, <2>3, <2>4, <2>5, <2>6, <2>7, <2>8, <2>9 DEF DdirNext
<1> QED
  BY <1>1, <1>2, PTL DEF DdirSpec

\* diff: when it exits, each name in the two trees has been told of once, with its path,
\* in order.
THEOREM AllAreTold == DdirSpec => []TreeIsCompared
<1>1. DirsInv => TreeIsCompared
  <2> SUFFICES ASSUME DirsInv, ddAt = "exited" 
               PROVE  /\ {ddTold[n] : n \in DOMAIN ddTold} = {Said(p) : p \in ToTell}
                      /\ \A m, n \in DOMAIN ddTold : m < n => ToldBefore(ddTold[m][2], ddTold[n][2])
    BY DEF TreeIsCompared
  <2>1. TellsAll(ddTold) /\ InOrder(ddTold)
    BY DEF DirsInv, HereNow, ToldSoFar
  <2> QED
    BY <2>1 DEF TellsAll, InOrder
<1> QED
  BY <1>1, DirsInvariant, PTL

\* diff: the paths are as long as there are calls of stackdiff(), and argv[0] is that of
\* the directory or the one above it.
THEOREM DirsTypes == DdirSpec => []DdirTypeOK
<1>1. DirsInv => DdirTypeOK
  <2> SUFFICES ASSUME DirsInv PROVE DdirTypeOK
    OBVIOUS
  <2>1. Len(ddFile) = Len(ddStack) /\ Len(ddFile) \in Nat
    BY FileIs DEF DirsInv, DirsTyped
  <2>2. Len(ddArgv) \in Len(ddFile) - 1..Len(ddFile)
    <3>1. CASE ddArgv = ddFile
      BY <2>1, <3>1
    <3>2. CASE ddArgv # ddFile
      <4>1. ddStack # <<>> /\ ddArgv = Top.file
        BY <3>2 DEF DirsInv, HereNow
      <4>2. Len(Top.file) = Len(ddStack) - 1
        BY <4>1, TopIs DEF DirsInv
      <4> QED
        BY <2>1, <4>1, <4>2
    <3> QED
      BY <3>1, <3>2
  <2> QED
    BY <2>1, <2>2 DEF DirsInv, DirsTyped, DdirTypeOK
<1> QED
  BY <1>1, DirsInvariant, PTL
=============================================================================
