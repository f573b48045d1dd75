-------------------------- MODULE TailXargs_proofs --------------------------
(***************************************************************************)
(* xargs puts every argument into one command, for all inputs, options and *)
(* limits.  tail shows the tail of what it reads, for all inputs, options, *)
(* sizes of the reads and of the buffer, whoever goes on writing.          *)
(***************************************************************************)
EXTENDS Xargs, Tail, FiniteSetTheorems, SequenceLemmas

-----------------------------------------------------------------------------
(* xargs: the inductive invariant *)

Word == [size : Nat \ {0}, eol : BOOLEAN, eof : BOOLEAN]
Limits == [n : Nat, l : Nat, s : Nat, x : BOOLEAN, i : BOOLEAN]
Stopped == xat \in {"end", "exit"}

XargsStates ==
    /\ input \in Seq(Word) /\ limit \in Limits
    /\ limit.l > 0 => limit.x
    /\ taken \in 0..Len(input) /\ arg \in 0..taken /\ linecnt \in 0..taken
    /\ always \in BOOLEAN /\ toolong \in BOOLEAN /\ didexec \in BOOLEAN
    /\ a_vec \in Seq(1..Len(input)) /\ ran \in Seq(Seq(1..Len(input)))
    /\ xat \in {"next", "add", "insert", "run", "end", "exit"}

\* What each place in process() and addarg() tells.
ArgTurn ==
    /\ didexec = (ran # <<>>)
    /\ arg # 0 => arg = taken
    /\ arg = 0 /\ xat # "next" => AtEof
    /\ toolong => ~limit.i /\ arg # 0 /\ xat \in {"add", "run", "exit"}
    /\ xat = "next" /\ limit.i => a_vec = <<>>
    /\ xat = "add" => ~limit.i /\ (toolong => a_vec = <<>>)
    /\ xat = "insert" => limit.i /\ arg # 0 /\ a_vec = <<>>
    /\ xat = "run" /\ a_vec = <<>> => ran = <<>> /\ arg = 0
    /\ xat = "end" => arg = 0 /\ a_vec = <<>>

\* The arguments up to n, in order.
UpTo(n) == [k \in 1..n |-> k]
Pending == arg # 0 /\ (xat \in {"add", "insert"} \/ (xat = "run" /\ toolong))

Placed ==
    IF xat = "exit"
    THEN InCommands = UpTo(taken) \/ (arg # 0 /\ InCommands = UpTo(taken - 1))
    ELSE InCommands = UpTo(IF Pending THEN taken - 1 ELSE taken)

FitsIn(v) == a_csz(v) <= a_maxsize /\ Len(v) <= MaxArgs

Fitting ==
    /\ FitsIn(a_vec)
    /\ \A j \in DOMAIN ran : FitsIn(ran[j]) /\ (ran[j] = <<>> => Len(ran) = 1 /\ Stopped)

\* The lines counted are in the command that is put together, or in the argument.
Complete(v) == limit.l > 0 /\ LinesOf(v) >= limit.l /\ input[Last(v)].eol
EndsLine(k) == IF input[k].eol THEN 1 ELSE 0

LinesCounted ==
    limit.l > 0 /\ ~limit.i =>
        /\ linecnt < limit.l
        /\ always => linecnt = 0
        /\ xat = "next" => LinesOf(a_vec) >= linecnt
        /\ xat = "add" /\ arg # 0 =>
            IF always THEN input[arg].eol /\ LinesOf(a_vec) + 1 >= limit.l
            ELSE LinesOf(a_vec) + EndsLine(arg) >= linecnt
        /\ xat = "run" /\ arg # 0 => linecnt = 0 /\ ~always

\* Why the command v was ended, or is, before the argument k.
Reason(v, k) == Complete(v) \/ ~HasRoom(v, k)
EndedBy(v) == IF toolong THEN ~HasRoom(v, arg) ELSE Complete(v)

Reasons ==
    ~limit.i =>
        /\ always => limit.l > 0
        /\ \A j \in 1..Len(ran) - 1 : Reason(ran[j], ran[j + 1][1])
        /\ ~Stopped /\ ran # <<>> =>
            IF a_vec = <<>> THEN EndedBy(Last(ran)) ELSE Reason(Last(ran), a_vec[1])
        /\ xat = "run" /\ arg # 0 => EndedBy(a_vec)

XargsInv ==
    XargsStates /\ ArgTurn /\ Placed /\ Fitting /\ LinesCounted /\ Reasons

-----------------------------------------------------------------------------
(* xargs: sequences of commands *)

LEMMA UpToMore ==
    ASSUME NEW n \in Nat
    PROVE  /\ UpTo(n) \in Seq(Nat) /\ Len(UpTo(n)) = n
           /\ \A k \in 1..n : UpTo(n)[k] = k
           /\ Append(UpTo(n), n + 1) = UpTo(n + 1)
<1>1. ASSUME NEW m \in Nat
      PROVE  UpTo(m) \in Seq(Nat) /\ Len(UpTo(m)) = m /\ \A k \in 1..m : UpTo(m)[k] = k
  <2>1. PICK u : u = UpTo(m)
    OBVIOUS
  <2>2. u \in [1..m -> Nat] /\ \A k \in 1..m : u[k] = k
    BY <2>1 DEF UpTo
  <2>3. u \in Seq(Nat)
    BY <2>2, SeqDef
  <2>4. Len(u) = m
    BY <2>2, <2>3, LenProperties
  <2> QED
    BY <2>1, <2>2, <2>3, <2>4
<1>0. PICK s : s = Append(UpTo(n), n + 1)
  OBVIOUS
<1>2. /\ s \in Seq(Nat) /\ Len(s) = n + 1 /\ s[n + 1] = n + 1
      /\ \A k \in 1..n : s[k] = UpTo(n)[k]
  BY <1>0, <1>1, AppendProperties
<1>3. \A k \in 1..n + 1 : s[k] = k
  <2>1. \A k \in 1..n : UpTo(n)[k] = k
    BY <1>1
  <2>2. ASSUME NEW k \in 1..n + 1 PROVE k = n + 1 \/ k \in 1..n
    OBVIOUS
  <2> QED
    BY <1>2, <2>1, <2>2
<1>4. UpTo(n + 1) \in Seq(Nat) /\ Len(UpTo(n + 1)) = n + 1 /\ \A k \in 1..n + 1 : UpTo(n + 1)[k] = k
  BY <1>1
<1>5. s = UpTo(n + 1)
  BY <1>2, <1>3, <1>4, SeqEqual
<1> QED
  <2>1. Append(UpTo(n), n + 1) = UpTo(n + 1)
    BY <1>0, <1>5
  <2>2. UpTo(n) \in Seq(Nat) /\ Len(UpTo(n)) = n /\ \A k \in 1..n : UpTo(n)[k] = k
    BY <1>1
  <2> QED
    BY <2>1, <2>2

-----------------------------------------------------------------------------
(* xargs: the size of a command, and its lines *)

LEMMA Assumed ==
    /\ CmdSize \in Nat /\ BraceSize \in Nat /\ BraceSize <= CmdSize /\ ArgMax \in Nat
    /\ CmdCount \in Nat /\ MaxVec \in Nat /\ CmdCount < MaxVec
    /\ XInputs \subseteq Seq(Word) /\ XOptions \subseteq Limits
    /\ \A o \in XOptions : o.l > 0 => o.x
  BY XargsAssumption DEF Word, Limits

LEMMA LimitsAre ==
    ASSUME limit \in Limits
    PROVE  a_maxsize \in Nat /\ MaxArgs \in Nat \ {0}
<1>1. limit.s \in Nat /\ limit.n \in Nat
  BY DEF Limits
<1>2. MaxArgs \in Nat \ {0}
  BY <1>1, Assumed DEF MaxArgs
<1>3. ASSUME limit.s > 0 PROVE Min({limit.s, ArgMax}) \in Nat
  <2>1. PICK x \in {limit.s, ArgMax} : \A y \in {limit.s, ArgMax} : x <= y
    BY <1>1, Assumed
  <2>2. Min({limit.s, ArgMax}) \in {limit.s, ArgMax}
    BY <2>1 DEF Min
  <2> QED
    BY <1>1, <2>2, Assumed
<1> QED
  BY <1>2, <1>3, Assumed DEF a_maxsize

LEMMA ArgumentIs ==
    ASSUME input \in Seq(Word), NEW k \in 1..Len(input)
    PROVE  Size(k) \in Nat \ {0} /\ input[k].eol \in BOOLEAN /\ EndsLine(k) \in 0..1
<1>1. input[k] \in Word
  BY ElementOfSeq
<1> QED
  BY <1>1 DEF Word, Size, EndsLine

\* a_csz is counted up from 0.
SizeUp(g, v) ==
    /\ g \in [0..Len(v) -> Nat] /\ g[0] = 0
    /\ \A k \in 1..Len(v) : g[k] = g[k - 1] + Size(v[k])

LEMMA SizeParts ==
    ASSUME input \in Seq(Word), NEW v \in Seq(1..Len(input))
    PROVE  \E g : SizeUp(g, v) /\ a_csz(v) = g[Len(v)]
<1>1. PICK n \in Nat : n = Len(v)
  BY LenProperties
<1>2. \A k \in 1..n : Size(v[k]) \in Nat
  <2>1. \A k \in 1..n : v[k] \in 1..Len(input)
    BY <1>1, ElementOfSeq
  <2> QED
    BY <2>1, ArgumentIs
<1>3. PICK F : F = [ky \in (1..n) \X Nat |-> ky[2] + Size(v[ky[1]])]
  OBVIOUS
<1>4. StepFunction(F, n, Nat)
  <2>1. ASSUME NEW k \in 1..n, NEW x \in Nat PROVE x + Size(v[k]) \in Nat
    BY <1>2
  <2> QED
    BY <1>3, <2>1 DEF StepFunction
<1>5. PICK g \in [0..n -> Nat] : g[0] = 0 /\ \A k \in 1..n : g[k] = F[<<k, g[k - 1]>>]
  <2>1. \E g : Unrolled(g, F, n, Nat, 0)
    BY <1>4, RecursionExists
  <2> QED
    BY <2>1 DEF Unrolled
<1>6. ASSUME NEW k \in 1..n PROVE g[k] = g[k - 1] + Size(v[k])
  <2>1. k - 1 \in 0..n
    OBVIOUS
  <2>2. g[k - 1] \in Nat
    BY <2>1
  <2> QED
    BY <1>3, <1>5, <2>2
<1> DEFINE Table(h) == [k \in 0..n |-> IF k = 0 THEN 0 ELSE h[k - 1] + Size(v[k])]
<1>7. g = Table(g)
  <2>1. ASSUME NEW k \in 0..n PROVE g[k] = IF k = 0 THEN 0 ELSE g[k - 1] + Size(v[k])
    <3>1. CASE k = 0
      BY <1>5, <3>1
    <3>2. CASE k # 0
      <4>1. k \in 1..n
        BY <3>2
      <4> QED
        BY <1>6, <3>2, <4>1
    <3> QED
      BY <3>1, <3>2
  <2> QED
    BY <2>1
<1>8. PICK h : h = CHOOSE x : x = Table(x)
  OBVIOUS
<1>9. h = Table(h)
  BY <1>7, <1>8
<1>10. a_csz(v) = h[n]
  BY <1>1, <1>8 DEF a_csz
<1> DEFINE P == {m \in Nat : m <= n => h[m] = g[m]}
<1>11. 0 \in P
  <2>1. 0 \in 0..n
    OBVIOUS
  <2>2. h[0] = 0
    BY <1>9, <2>1
  <2> QED
    BY <1>5, <2>2
<1>12. ASSUME NEW m \in Nat, m \in P PROVE m + 1 \in P
  <2> SUFFICES ASSUME m + 1 <= n PROVE h[m + 1] = g[m + 1]
    OBVIOUS
  <2>1. PICK k \in 1..n : k = m + 1 /\ k - 1 = m /\ k \in 0..n /\ k # 0
    OBVIOUS
  <2>2. h[k - 1] = g[k - 1]
    BY <1>12, <2>1
  <2>3. h[k] = h[k - 1] + Size(v[k])
    BY <1>9, <2>1
  <2> QED
    BY <1>6, <2>1, <2>2, <2>3
<1>13. Nat \subseteq P
  <2> HIDE DEF P
  <2> QED
    BY <1>11, <1>12, SetInduction
<1>14. h[n] = g[n]
  BY <1>13
<1>15. SizeUp(g, v)
  BY <1>1, <1>5, <1>6 DEF SizeUp
<1> QED
  BY <1>1, <1>10, <1>14, <1>15

LEMMA SizeMore ==
    ASSUME input \in Seq(Word), NEW v \in Seq(1..Len(input)), NEW k \in 1..Len(input)
    PROVE  /\ a_csz(v) \in Nat /\ a_csz(<<>>) = 0
           /\ a_csz(Append(v, k)) = a_csz(v) + Size(k)
<1>0. PICK n \in Nat : n = Len(v)
  BY LenProperties
<1>1. PICK g : SizeUp(g, v) /\ a_csz(v) = g[n]
  BY <1>0, SizeParts
<1>2. PICK w : w = Append(v, k)
  OBVIOUS
<1>3. /\ w \in Seq(1..Len(input)) /\ Len(w) = n + 1 /\ w[n + 1] = k
      /\ \A j \in 1..n : w[j] = v[j]
  BY <1>0, <1>2, AppendProperties
<1>4. PICK h : SizeUp(h, w) /\ a_csz(w) = h[n + 1]
  BY <1>3, SizeParts
<1>5. /\ g \in [0..n -> Nat] /\ g[0] = 0
      /\ \A j \in 1..n : g[j] = g[j - 1] + Size(v[j])
  BY <1>0, <1>1 DEF SizeUp
<1>6. /\ h \in [0..n + 1 -> Nat] /\ h[0] = 0
      /\ \A j \in 1..n + 1 : h[j] = h[j - 1] + Size(w[j])
  BY <1>3, <1>4 DEF SizeUp
<1> DEFINE P == {m \in Nat : m <= n => h[m] = g[m]}
<1>7. 0 \in P
  BY <1>5, <1>6
<1>8. ASSUME NEW m \in Nat, m \in P PROVE m + 1 \in P
  <2> SUFFICES ASSUME m + 1 <= n PROVE h[m + 1] = g[m + 1]
    OBVIOUS
  <2>1. PICK j \in 1..n : j = m + 1 /\ j - 1 = m /\ j \in 1..n + 1
    OBVIOUS
  <2>2. h[j - 1] = g[j - 1] /\ w[j] = v[j]
    BY <1>3, <1>8, <2>1
  <2>3. h[j] = h[j - 1] + Size(w[j]) /\ g[j] = g[j - 1] + Size(v[j])
    BY <1>5, <1>6, <2>1
  <2> QED
    BY <2>1, <2>2, <2>3
<1>9. Nat \subseteq P
  <2> HIDE DEF P
  <2> QED
    BY <1>7, <1>8, SetInduction
<1>10. h[n] = g[n]
  BY <1>9
<1>11. a_csz(w) = a_csz(v) + Size(k)
  <2>1. PICK j \in 1..n + 1 : j = n + 1 /\ j - 1 = n
    OBVIOUS
  <2>2. h[j] = h[j - 1] + Size(w[j])
    BY <1>6
  <2> QED
    BY <1>1, <1>3, <1>4, <1>10, <2>1, <2>2
<1>12. a_csz(<<>>) = 0
  <2>1. PICK z : z = <<>>
    OBVIOUS
  <2>2. z \in Seq(1..Len(input)) /\ Len(z) = 0
    BY <2>1, EmptySeq
  <2>3. PICK f : SizeUp(f, z) /\ a_csz(z) = f[0]
    BY <2>2, SizeParts
  <2> QED
    BY <2>1, <2>3 DEF SizeUp
<1>13. a_csz(v) \in Nat
  <2>1. n \in 0..n
    OBVIOUS
  <2> QED
    BY <1>1, <1>5, <2>1
<1> QED
  BY <1>2, <1>11, <1>12, <1>13

LEMMA LinesNumber == ASSUME NEW v \in Seq(1..Len(input)) PROVE LinesOf(v) \in Nat
<1>1. IsFiniteSet(DOMAIN v)
  <2>1. DOMAIN v = 1..Len(v) /\ Len(v) \in Nat
    BY LenProperties
  <2> QED
    BY <2>1, FS_Interval
<1>2. {j \in DOMAIN v : input[v[j]].eol} \subseteq DOMAIN v
  OBVIOUS
<1> QED
  BY <1>1, <1>2, FS_Subset, FS_CardinalityType DEF LinesOf

LEMMA LinesMore ==
    ASSUME input \in Seq(Word), NEW v \in Seq(1..Len(input)), NEW k \in 1..Len(input)
    PROVE  /\ LinesOf(v) \in Nat /\ LinesOf(<<>>) = 0
           /\ LinesOf(Append(v, k)) = LinesOf(v) + EndsLine(k)
           /\ Last(Append(v, k)) = k
<1>0. PICK n \in Nat : n = Len(v) /\ DOMAIN v = 1..n
  BY LenProperties
<1>2. PICK w : w = Append(v, k)
  OBVIOUS
<1>3. /\ w \in Seq(1..Len(input)) /\ Len(w) = n + 1 /\ w[n + 1] = k
      /\ \A j \in 1..n : w[j] = v[j]
  BY <1>0, <1>2, AppendProperties
<1>4. DOMAIN w = 1..n + 1
  BY <1>3, LenProperties
<1>5. PICK D, E : D = {j \in 1..n : input[v[j]].eol} /\ E = {j \in 1..n + 1 : input[w[j]].eol}
  OBVIOUS
<1>6. LinesOf(v) = Cardinality(D) /\ LinesOf(w) = Cardinality(E)
  BY <1>0, <1>4, <1>5 DEF LinesOf
<1>7. IsFiniteSet(D) /\ Cardinality(D) \in Nat
  <2>1. IsFiniteSet(1..n)
    BY FS_Interval
  <2>2. D \subseteq 1..n
    BY <1>5
  <2>3. IsFiniteSet(D)
    BY <2>1, <2>2, FS_Subset
  <2> QED
    BY <2>3, FS_CardinalityType
<1>8. n + 1 \notin D
  BY <1>5
<1>9. LinesOf(w) = LinesOf(v) + EndsLine(k)
  <2>1. CASE input[k].eol
    <3>1. \A j : j \in E <=> j \in D \cup {n + 1}
      BY <1>3, <1>5, <2>1
    <3>2. E = D \cup {n + 1}
      BY <3>1
    <3>3. Cardinality(E) = Cardinality(D) + 1
      BY <1>7, <1>8, <3>2, FS_AddElement
    <3> QED
      BY <1>6, <2>1, <3>3 DEF EndsLine
  <2>2. CASE ~input[k].eol
    <3>1. \A j : j \in E <=> j \in D
      BY <1>3, <1>5, <2>2
    <3>2. E = D
      BY <3>1
    <3> QED
      BY <1>6, <1>7, <2>2, <3>2 DEF EndsLine
  <2> QED
    BY <2>1, <2>2
<1>10. LinesOf(<<>>) = 0
  <2>1. PICK z : z = <<>>
    OBVIOUS
  <2>2. {j \in DOMAIN z : input[z[j]].eol} = {}
    BY <2>1
  <2>3. LinesOf(z) = 0
    BY <2>2, FS_EmptySet DEF LinesOf
  <2> QED
    BY <2>1, <2>3
<1>11. Last(w) = k
  BY <1>3 DEF Last
<1> QED
  BY <1>2, <1>6, <1>7, <1>9, <1>10, <1>11

-----------------------------------------------------------------------------
(* xargs: the invariant is kept *)

\* What depends on the input and the options alone is what it was.
Same == UNCHANGED <<input, limit>>

LEMMA Unaltered ==
    ASSUME Same
    PROVE  /\ a_maxsize' = a_maxsize /\ MaxArgs' = MaxArgs
           /\ \A k : Size(k)' = Size(k) /\ EndsLine(k)' = EndsLine(k)
           /\ \A v : a_csz(v)' = a_csz(v) /\ LinesOf(v)' = LinesOf(v)
  BY DEF Same, a_maxsize, MaxArgs, Size, EndsLine, a_csz, LinesOf

LEMMA UnalteredTests ==
    ASSUME Same
    PROVE  /\ \A v : FitsIn(v)' = FitsIn(v) /\ Complete(v)' = Complete(v)
           /\ \A v, k : HasRoom(v, k)' = HasRoom(v, k) /\ Reason(v, k)' = Reason(v, k)
<1>1. \A v : FitsIn(v)' = FitsIn(v)
  BY Unaltered DEF FitsIn
<1>2. \A v : Complete(v)' = Complete(v)
  BY Unaltered DEF Complete, Same
<1>3. \A v, k : HasRoom(v, k)' = HasRoom(v, k)
  BY Unaltered DEF HasRoom
<1>4. \A v, k : Reason(v, k)' = Reason(v, k)
  BY <1>2, <1>3 DEF Reason
<1> QED
  BY <1>1, <1>2, <1>3, <1>4

LEMMA XargsInitInv == XargsInit => XargsInv
<1> SUFFICES ASSUME XargsInit PROVE XargsInv
  OBVIOUS
<1>1. /\ input \in XInputs /\ limit \in XOptions
      /\ taken = 0 /\ linecnt = 0 /\ arg = 0
      /\ always = FALSE /\ toolong = FALSE /\ didexec = FALSE
      /\ a_vec = <<>> /\ ran = <<>> /\ xat = "next"
  BY DEF XargsInit, XargsBegin
<1>2. XargsStates
  <2>1. input \in Seq(Word) /\ limit \in Limits /\ (limit.l > 0 => limit.x)
    BY <1>1, Assumed
  <2>2. Len(input) \in Nat
    BY <2>1, LenProperties
  <2>3. a_vec \in Seq(1..Len(input)) /\ ran \in Seq(Seq(1..Len(input)))
    BY <1>1, EmptySeq
  <2>4. taken \in 0..Len(input) /\ arg \in 0..taken /\ linecnt \in 0..taken
    BY <1>1, <2>2
  <2> QED
    BY <1>1, <2>1, <2>3, <2>4 DEF XargsStates
<1>3. ArgTurn
  BY <1>1 DEF ArgTurn
<1>4. Placed
  <2>1. FlattenSeq(ran) = <<>>
    <3>1. PICK z : z = ran
      OBVIOUS
    <3>2. z \in Seq(Seq(Nat)) /\ Len(z) = 0
      BY <1>1, <3>1, EmptySeq
    <3>3. PICK g \in [0..Len(z) -> Seq(Nat)] : g[0] = <<>> /\ FlattenSeq(z) = g[Len(z)]
      BY <3>2, FlattenParts
    <3> QED
      BY <3>1, <3>2, <3>3
  <2>2. InCommands = <<>>
    <3>1. PICK z : z = <<>>
      OBVIOUS
    <3>2. z \in Seq(Nat)
      BY <3>1, EmptySeq
    <3>3. z \o z = z
      BY <3>1, <3>2, ConcatEmptySeq
    <3> QED
      BY <1>1, <2>1, <3>1, <3>3 DEF InCommands
  <2>3. UpTo(0) = <<>>
    BY UpToMore, EmptySeq
  <2> QED
    BY <1>1, <2>2, <2>3 DEF Placed, Pending
<1>5. Fitting
  <2>1. FitsIn(a_vec)
    <3>1. input \in Seq(Word) /\ limit \in Limits
      BY <1>2 DEF XargsStates
    <3>2. a_csz(<<>>) = 0
      <4>1. PICK z : z = <<>>
        OBVIOUS
      <4>2. z \in Seq(1..Len(input)) /\ Len(z) = 0
        BY <4>1, EmptySeq
      <4>3. PICK f : SizeUp(f, z) /\ a_csz(z) = f[0]
        BY <3>1, <4>2, SizeParts
      <4> QED
        BY <4>1, <4>3 DEF SizeUp
    <3>3. Len(a_vec) = 0
      BY <1>1, EmptySeq
    <3> QED
      BY <1>1, <3>1, <3>2, <3>3, LimitsAre DEF FitsIn
  <2>2. DOMAIN ran = {}
    BY <1>1
  <2> QED
    BY <2>1, <2>2 DEF Fitting
<1>6. LinesCounted
  <2>1. LinesOf(a_vec) = 0
    <3>1. {j \in DOMAIN a_vec : input[a_vec[j]].eol} = {}
      BY <1>1
    <3> QED
      BY <3>1, FS_EmptySet DEF LinesOf
  <2>2. limit.l \in Nat
    BY <1>2 DEF XargsStates, Limits
  <2> QED
    BY <1>1, <2>1, <2>2 DEF LinesCounted
<1>7. Reasons
  <2>1. 1..Len(ran) - 1 = {}
    BY <1>1, EmptySeq
  <2> QED
    BY <1>1, <2>1 DEF Reasons
<1> QED
  BY <1>2, <1>3, <1>4, <1>5, <1>6, <1>7 DEF XargsInv

LEMMA StutterKeeps == ASSUME XargsInv, UNCHANGED xargsVars PROVE XargsInv'
<1>1. /\ Same
      /\ UNCHANGED <<taken, linecnt, arg, always, toolong, a_vec, didexec, xat, ran>>
  BY DEF xargsVars, Same
<1>2. XargsStates' /\ ArgTurn'
  BY <1>1 DEF XargsInv, XargsStates, ArgTurn, AtEof, Same
<1>3. Placed'
  BY <1>1 DEF XargsInv, Placed, InCommands, Pending
<1>4. Fitting'
  BY <1>1, UnalteredTests DEF XargsInv, Fitting, Stopped
<1>5. LinesCounted'
  BY <1>1, Unaltered DEF XargsInv, LinesCounted, Same
<1>6. Reasons'
  BY <1>1, UnalteredTests DEF XargsInv, Reasons, Stopped, EndedBy, Same
<1> QED
  BY <1>2, <1>3, <1>4, <1>5, <1>6 DEF XargsInv

\* The command that is put together and those that were run stay the same.
LEMMA FittingKept ==
    ASSUME Fitting, Same, UNCHANGED <<a_vec, ran>>, Stopped => Stopped'
    PROVE  Fitting'
  BY UnalteredTests DEF Fitting

LEMMA NextInputKeeps == ASSUME XargsInv, NextInput PROVE XargsInv'
<1>1. /\ XargsStates /\ ArgTurn /\ Placed /\ Fitting /\ LinesCounted /\ Reasons
      /\ Same
  BY DEF XargsInv, NextInput, Same
<1>2. PICK n \in Nat : n = Len(input)
  BY <1>1, LenProperties DEF XargsStates
<1>3. PICK lines, full :
          /\ lines = linecnt + IF ~AtEof /\ input[taken + 1].eol THEN 1 ELSE 0
          /\ full = (limit.l > 0 /\ limit.l = lines)
          /\ always' = full /\ linecnt' = IF full THEN 0 ELSE lines
  BY DEF NextInput
<1>4. /\ xat = "next" /\ UNCHANGED <<input, limit, toolong, a_vec, didexec, ran>>
      /\ arg' = IF AtEof THEN 0 ELSE taken + 1
      /\ taken' = IF AtEof THEN taken ELSE taken + 1
      /\ xat' = CASE ~limit.i -> "add" [] limit.i /\ ~AtEof -> "insert" [] OTHER -> "end"
  BY DEF NextInput
<1>5. limit.i \in BOOLEAN /\ limit.l \in Nat /\ taken \in 0..n /\ linecnt \in 0..taken
  BY <1>1, <1>2 DEF XargsStates, Limits
<1>6. AtEof \in BOOLEAN /\ (~AtEof => taken + 1 \in 1..n)
  BY <1>2, <1>5 DEF AtEof
<1>7. ~AtEof => EndsLine(taken + 1) = lines - linecnt /\ input[taken + 1].eol \in BOOLEAN
  <2> SUFFICES ASSUME ~AtEof PROVE EndsLine(taken + 1) = lines - linecnt /\ input[taken + 1].eol \in BOOLEAN
    OBVIOUS
  <2>1. input[taken + 1].eol \in BOOLEAN
    BY <1>1, <1>2, <1>6, ArgumentIs DEF XargsStates
  <2> QED
    BY <1>3, <1>5, <2>1 DEF EndsLine
<1>8. lines \in linecnt..linecnt + 1 /\ (AtEof => lines = linecnt) /\ full \in BOOLEAN
  BY <1>3, <1>5
<1>9. /\ xat' \in {"add", "insert", "end"} /\ (xat' = "add" <=> ~limit.i)
      /\ xat' = "insert" <=> limit.i /\ ~AtEof
      /\ xat' = "end" <=> limit.i /\ AtEof
  BY <1>4, <1>5, <1>6
<1>10. XargsStates'
  <2>1. taken' \in 0..n /\ arg' \in 0..taken' /\ linecnt' \in 0..taken'
    BY <1>3, <1>4, <1>5, <1>6, <1>8
  <2>2. always' \in BOOLEAN /\ xat' \in {"next", "add", "insert", "run", "end", "exit"}
    BY <1>3, <1>8, <1>9
  <2> QED
    BY <1>1, <1>2, <1>4, <2>1, <2>2 DEF XargsStates
<1>11. ~toolong
  BY <1>1, <1>4 DEF ArgTurn
<1>12. ArgTurn'
  <2>1. arg' # 0 => arg' = taken'
    BY <1>4
  <2>2. arg' = 0 => AtEof'
    BY <1>4, <1>5, <1>6 DEF AtEof
  <2> QED
    BY <1>1, <1>4, <1>5, <1>6, <1>9, <1>11, <2>1, <2>2 DEF ArgTurn
<1>13. Placed'
  <2>1. InCommands = UpTo(taken)
    BY <1>1, <1>4 DEF Placed, Pending
  <2>2. InCommands' = InCommands
    BY <1>4 DEF InCommands
  <2>3. Pending' <=> ~AtEof
    BY <1>4, <1>5, <1>6, <1>9 DEF Pending
  <2>4. taken = IF Pending' THEN taken' - 1 ELSE taken'
    BY <1>4, <1>5, <1>6, <2>3
  <2>5. xat' # "exit"
    BY <1>9
  <2> QED
    BY <2>1, <2>2, <2>4, <2>5 DEF Placed
<1>14. Fitting'
  BY <1>1, <1>4, FittingKept DEF Stopped
<1>15. LinesCounted'
  <2> SUFFICES ASSUME limit.l > 0, ~limit.i PROVE LinesCounted'
    BY <1>4 DEF LinesCounted
  <2>1. linecnt < limit.l /\ LinesOf(a_vec) >= linecnt
    BY <1>1, <1>4 DEF LinesCounted
  <2>2. LinesOf(a_vec) \in Nat /\ LinesOf(a_vec)' = LinesOf(a_vec) /\ \A k : EndsLine(k)' = EndsLine(k)
    BY <1>1, <1>4, LinesNumber, Unaltered DEF XargsStates
  <2>3. linecnt' < limit.l /\ (always' => linecnt' = 0)
    <3>1. CASE full
      BY <1>3, <1>5, <2>1, <3>1
    <3>2. CASE ~full
      <4>1. limit.l # lines /\ lines \in Nat /\ lines <= linecnt + 1
        <5>1. ~(limit.l > 0 /\ limit.l = lines)
          BY <1>3, <3>2
        <5>2. lines \in linecnt..linecnt + 1 /\ linecnt \in Nat
          BY <1>5, <1>8
        <5> QED
          BY <5>1, <5>2
      <4>2. linecnt' = lines /\ ~always'
        BY <1>3, <3>2
      <4> QED
        BY <1>5, <2>1, <4>1, <4>2
    <3> QED
      BY <3>1, <3>2
  <2>4. xat' = "add"
    BY <1>9
  <2>5. ASSUME arg' # 0, always' PROVE input[arg'].eol /\ LinesOf(a_vec) + 1 >= limit.l
    <3>1. ~AtEof /\ arg' = taken + 1
      BY <1>4, <1>6, <2>5
    <3>2. limit.l = lines
      BY <1>3, <2>5
    <3> QED
      BY <1>3, <1>5, <1>7, <1>8, <2>1, <2>2, <3>1, <3>2
  <2>6. ASSUME arg' # 0, ~always' PROVE LinesOf(a_vec) + EndsLine(arg') >= linecnt'
    <3>1. ~AtEof /\ arg' = taken + 1
      BY <1>4, <1>6, <2>6
    <3>2. linecnt' = lines /\ EndsLine(arg') = lines - linecnt
      BY <1>3, <1>7, <2>6, <3>1
    <3> QED
      BY <1>5, <1>8, <2>1, <2>2, <3>2
  <2>7. EndsLine(arg)' = EndsLine(arg')
    BY <2>2
  <2> QED
    BY <1>4, <2>2, <2>3, <2>4, <2>5, <2>6, <2>7 DEF LinesCounted
<1>16. Reasons'
  <2>1. always' => limit.l > 0
    BY <1>3
  <2> SUFFICES ASSUME ~limit.i PROVE Reasons'
    BY <1>4 DEF Reasons
  <2>2. ~Stopped
    BY <1>4 DEF Stopped
  <2>3. \A v : EndedBy(v)' = EndedBy(v)
    BY <1>4, <1>11, UnalteredTests, <1>1 DEF EndedBy
  <2>4. xat' # "run"
    BY <1>9
  <2>5. \A j \in 1..Len(ran) - 1 : Reason(ran[j], ran[j + 1][1])
    BY <1>1 DEF Reasons
  <2>6. ran # <<>> => IF a_vec = <<>> THEN EndedBy(Last(ran)) ELSE Reason(Last(ran), a_vec[1])
    BY <1>1, <2>2 DEF Reasons
  <2>7. \A v, k : Reason(v, k)' = Reason(v, k)
    BY <1>1, UnalteredTests
  <2> QED
    BY <1>4, <2>1, <2>3, <2>4, <2>5, <2>6, <2>7 DEF Reasons
<1> QED
  BY <1>10, <1>12, <1>13, <1>14, <1>15, <1>16 DEF XargsInv

LEMMA AddSingleTooLongKeeps == ASSUME XargsInv, AddSingleTooLong PROVE XargsInv'
<1>1. /\ XargsStates /\ ArgTurn /\ Placed /\ Fitting /\ LinesCounted /\ Reasons /\ Same
      /\ xat = "add" /\ arg # 0 /\ a_vec = <<>> /\ xat' = "exit"
      /\ UNCHANGED <<taken, linecnt, arg, always, toolong, a_vec, didexec, ran>>
  BY DEF XargsInv, AddSingleTooLong, Same
<1>2. XargsStates'
  BY <1>1 DEF XargsStates, Same
<1>3. ArgTurn'
  BY <1>1 DEF ArgTurn, AtEof, Same
<1>4. Placed'
  BY <1>1 DEF Placed, Pending, InCommands
<1>5. Fitting'
  BY <1>1, FittingKept DEF Stopped
<1>6. LinesCounted'
  BY <1>1 DEF LinesCounted, Same
<1>7. Reasons'
  BY <1>1, UnalteredTests DEF Reasons, Stopped, Same
<1> QED
  BY <1>2, <1>3, <1>4, <1>5, <1>6, <1>7 DEF XargsInv

LEMMA AddNullKeeps == ASSUME XargsInv, AddNull PROVE XargsInv'
<1>1. /\ XargsStates /\ ArgTurn /\ Placed /\ Fitting /\ LinesCounted /\ Reasons /\ Same
      /\ xat = "add" /\ arg = 0
      /\ xat' = IF (didexec \/ limit.l > 0) /\ a_vec = <<>> THEN "end" ELSE "run"
      /\ UNCHANGED <<taken, linecnt, arg, always, toolong, a_vec, didexec, ran>>
  BY DEF XargsInv, AddNull, Same
<1>2. /\ xat' \in {"end", "run"} /\ (xat' = "end" => a_vec = <<>>)
      /\ xat' = "run" /\ a_vec = <<>> => ~didexec
  BY <1>1
<1>3. XargsStates'
  BY <1>1, <1>2 DEF XargsStates, Same
<1>4. ArgTurn'
  BY <1>1, <1>2 DEF ArgTurn, AtEof, Same
<1>5. Placed'
  BY <1>1, <1>2 DEF Placed, Pending, InCommands
<1>6. Fitting'
  BY <1>1, <1>2, FittingKept DEF Stopped
<1>7. LinesCounted'
  BY <1>1, <1>2 DEF LinesCounted, Same
<1>8. Reasons'
  <2> SUFFICES ASSUME ~limit.i PROVE Reasons'
    BY <1>1 DEF Reasons, Same
  <2>1. ~Stopped /\ ~toolong /\ (always => limit.l > 0)
    BY <1>1 DEF Stopped, ArgTurn, Reasons
  <2>2. \A v : EndedBy(v)' = EndedBy(v)
    BY <1>1, <2>1, UnalteredTests DEF EndedBy
  <2>3. \A j \in 1..Len(ran) - 1 : Reason(ran[j], ran[j + 1][1])
    BY <1>1 DEF Reasons
  <2>4. ran # <<>> => IF a_vec = <<>> THEN EndedBy(Last(ran)) ELSE Reason(Last(ran), a_vec[1])
    BY <1>1, <2>1 DEF Reasons
  <2> QED
    BY <1>1, <2>1, <2>2, <2>3, <2>4, UnalteredTests DEF Reasons, Same
<1> QED
  BY <1>3, <1>4, <1>5, <1>6, <1>7, <1>8 DEF XargsInv

LEMMA AddFullKeeps == ASSUME XargsInv, AddFull PROVE XargsInv'
<1>1. /\ XargsStates /\ ArgTurn /\ Placed /\ Fitting /\ LinesCounted /\ Reasons /\ Same
      /\ xat = "add" /\ arg # 0 /\ a_vec # <<>> /\ ~HasRoom(a_vec, arg)
      /\ toolong' = TRUE /\ always' = FALSE
      /\ xat' = IF limit.l > 0 /\ limit.x /\ ~always THEN "exit" ELSE "run"
      /\ UNCHANGED <<taken, linecnt, arg, a_vec, didexec, ran>>
  BY DEF XargsInv, AddFull, Same
<1>2. xat' \in {"exit", "run"} /\ (xat' = "run" /\ limit.l > 0 => always)
  BY <1>1 DEF XargsStates
<1>3. ~limit.i /\ limit.i' = limit.i
  BY <1>1 DEF ArgTurn, Same
<1>4. XargsStates'
  BY <1>1, <1>2 DEF XargsStates, Same
<1>5. ArgTurn'
  BY <1>1, <1>2, <1>3 DEF ArgTurn, AtEof, Same
<1>6. Placed'
  <2>1. InCommands = UpTo(taken - 1) /\ InCommands' = InCommands
    BY <1>1 DEF Placed, Pending, InCommands
  <2>2. xat' = "run" => Pending'
    BY <1>1 DEF Pending
  <2> QED
    BY <1>1, <1>2, <2>1, <2>2 DEF Placed
<1>7. Fitting'
  BY <1>1, FittingKept DEF Stopped
<1>8. LinesCounted'
  BY <1>1, <1>2 DEF LinesCounted, Same
<1>9. Reasons'
  <2>1. ~Stopped /\ (\A j \in 1..Len(ran) - 1 : Reason(ran[j], ran[j + 1][1]))
        /\ (ran # <<>> => Reason(Last(ran), a_vec[1]))
    BY <1>1, <1>3 DEF Stopped, Reasons
  <2>2. EndedBy(a_vec)'
    BY <1>1, UnalteredTests DEF EndedBy
  <2> QED
    BY <1>1, <1>3, <2>1, <2>2, UnalteredTests DEF Reasons
<1> QED
  BY <1>4, <1>5, <1>6, <1>7, <1>8, <1>9 DEF XargsInv

\* The argument that is added is the next one in InCommands.
LEMMA CommandsGrow ==
    ASSUME XargsStates, arg # 0, arg = taken, InCommands = UpTo(taken - 1)
    PROVE  FlattenSeq(ran) \o Append(a_vec, arg) = UpTo(taken)
<1>1. PICK S : S = 1..Len(input)
  OBVIOUS
<1>2. /\ ran \in Seq(Seq(S)) /\ a_vec \in Seq(S) /\ arg \in S
      /\ taken - 1 \in Nat /\ taken - 1 + 1 = taken
  <2>1. Len(input) \in Nat
    BY LenProperties DEF XargsStates
  <2> QED
    BY <1>1, <2>1 DEF XargsStates
<1>3. FlattenSeq(ran) \in Seq(S)
  BY <1>2, FlattenMore
<1>4. FlattenSeq(ran) \o Append(a_vec, arg) = Append(FlattenSeq(ran) \o a_vec, arg)
  BY <1>2, <1>3, ConcatAppend
<1>5. Append(UpTo(taken - 1), taken) = UpTo(taken)
  BY <1>2, UpToMore
<1> QED
  BY <1>4, <1>5 DEF InCommands

LEMMA AddFitsKeeps == ASSUME XargsInv, AddFits PROVE XargsInv'
<1>1. /\ XargsStates /\ ArgTurn /\ Placed /\ Fitting /\ LinesCounted /\ Reasons /\ Same
      /\ xat = "add" /\ arg # 0 /\ HasRoom(a_vec, arg)
      /\ a_vec' = Append(a_vec, arg) /\ toolong' = FALSE /\ always' = FALSE
      /\ xat' = IF always THEN "run" ELSE "next"
      /\ UNCHANGED <<taken, linecnt, arg, didexec, ran>>
  BY DEF XargsInv, AddFits, Same
<1>2. PICK n \in Nat : n = Len(input)
  BY <1>1, LenProperties DEF XargsStates
<1>3. /\ input \in Seq(Word) /\ limit \in Limits /\ a_vec \in Seq(1..n) /\ ran \in Seq(Seq(1..n))
      /\ arg \in 1..n /\ arg = taken /\ always \in BOOLEAN /\ linecnt \in Nat
      /\ ~limit.i /\ limit.i' = limit.i
      /\ input' = input /\ limit' = limit
  BY <1>1, <1>2 DEF XargsStates, ArgTurn, Same
<1>4. /\ a_vec' \in Seq(1..n) /\ a_vec' # <<>> /\ Len(a_vec') = Len(a_vec) + 1
      /\ a_vec'[1] = IF a_vec = <<>> THEN arg ELSE a_vec[1]
  <2>1. /\ Append(a_vec, arg) \in Seq(1..n) /\ Append(a_vec, arg) # <<>>
        /\ Len(Append(a_vec, arg)) = Len(a_vec) + 1
        /\ Append(a_vec, arg)[Len(a_vec) + 1] = arg
        /\ \A j \in 1..Len(a_vec) : Append(a_vec, arg)[j] = a_vec[j]
    <3>1. PICK S : S = 1..n
      OBVIOUS
    <3>2. a_vec \in Seq(S) /\ arg \in S
      BY <1>3, <3>1
    <3> QED
      BY <3>1, <3>2, AppendFacts
  <2>2. Len(a_vec) \in Nat /\ (a_vec = <<>> <=> Len(a_vec) = 0)
    BY <1>3, EmptySeq, LenProperties
  <2>3. a_vec # <<>> => 1 \in 1..Len(a_vec)
    BY <2>2
  <2>4. a_vec = <<>> => Len(a_vec) + 1 = 1
    BY <2>2
  <2> QED
    BY <1>1, <2>1, <2>3, <2>4
<1>5. xat' \in {"run", "next"} /\ (xat' = "run" <=> always)
  BY <1>1, <1>3
<1>6. XargsStates'
  BY <1>1, <1>2, <1>3, <1>4, <1>5 DEF XargsStates
<1>7. ArgTurn'
  BY <1>1, <1>3, <1>4, <1>5 DEF ArgTurn
<1>8. Placed'
  <2>1. InCommands = UpTo(taken - 1)
    BY <1>1 DEF Placed, Pending
  <2>2. FlattenSeq(ran) \o Append(a_vec, arg) = UpTo(taken)
    BY <1>1, <1>3, <2>1, CommandsGrow
  <2>3. InCommands' = UpTo(taken)
    BY <1>1, <2>2 DEF InCommands
  <2>4. ~Pending' /\ xat' # "exit"
    BY <1>1, <1>5 DEF Pending
  <2> QED
    BY <1>1, <2>3, <2>4 DEF Placed
<1>9. Fitting'
  <2>1. FitsIn(Append(a_vec, arg))
    <3>1. a_csz(Append(a_vec, arg)) = a_csz(a_vec) + Size(arg)
      BY <1>2, <1>3, SizeMore
    <3>2. Len(a_vec) \in Nat /\ MaxArgs \in Nat /\ Len(Append(a_vec, arg)) = Len(a_vec) + 1
      BY <1>1, <1>3, <1>4, LenProperties, LimitsAre
    <3> QED
      BY <1>1, <3>1, <3>2 DEF HasRoom, FitsIn
  <2>2. \A j \in DOMAIN ran : FitsIn(ran[j]) /\ ran[j] # <<>>
    BY <1>1 DEF Fitting, Stopped
  <2> QED
    BY <1>1, <2>1, <2>2, UnalteredTests DEF Fitting
<1>10. /\ LinesOf(a_vec') = LinesOf(a_vec) + EndsLine(arg) /\ Last(a_vec') = arg
       /\ LinesOf(a_vec)' = LinesOf(a_vec') /\ LinesOf(a_vec) \in Nat
       /\ EndsLine(arg) \in 0..1 /\ (input[arg].eol => EndsLine(arg) = 1)
  <2>1. LinesOf(Append(a_vec, arg)) = LinesOf(a_vec) + EndsLine(arg) /\ Last(Append(a_vec, arg)) = arg
    BY <1>2, <1>3, LinesMore
  <2>2. LinesOf(a_vec) \in Nat
    BY <1>2, <1>3, LinesNumber
  <2>3. EndsLine(arg) \in 0..1 /\ (input[arg].eol => EndsLine(arg) = 1)
    BY <1>2, <1>3, ArgumentIs DEF EndsLine
  <2>4. LinesOf(a_vec)' = LinesOf(a_vec')
    BY <1>1, Unaltered
  <2> QED
    BY <1>1, <2>1, <2>2, <2>3, <2>4
<1>11. LinesCounted'
  <2> SUFFICES ASSUME limit.l > 0 PROVE LinesCounted'
    BY <1>3 DEF LinesCounted
  <2>1. /\ linecnt < limit.l /\ (always => linecnt = 0)
        /\ ~always => LinesOf(a_vec) + EndsLine(arg) >= linecnt
    BY <1>1, <1>3 DEF LinesCounted
  <2>2. xat' = "next" => LinesOf(a_vec') >= linecnt
    BY <1>5, <1>10, <2>1
  <2> QED
    BY <1>1, <1>3, <1>5, <1>10, <2>1, <2>2 DEF LinesCounted
<1>12. Reasons'
  <2>1. ~Stopped /\ (\A j \in 1..Len(ran) - 1 : Reason(ran[j], ran[j + 1][1]))
    BY <1>1, <1>3 DEF Stopped, Reasons
  <2>2. ran # <<>> => Reason(Last(ran), a_vec'[1])
    <3>1. CASE a_vec = <<>>
      <4>1. ran # <<>> => EndedBy(Last(ran))
        BY <1>1, <1>3, <2>1, <3>1 DEF Reasons
      <4> QED
        BY <1>4, <3>1, <4>1 DEF EndedBy, Reason
    <3>2. CASE a_vec # <<>>
      BY <1>1, <1>3, <1>4, <2>1, <3>2 DEF Reasons
    <3> QED
      BY <3>1, <3>2
  <2>3. xat' = "run" => Complete(a_vec')
    <3> SUFFICES ASSUME always PROVE Complete(a_vec')
      BY <1>5
    <3>1. limit.l > 0
      BY <1>1, <1>3 DEF Reasons
    <3>2. input[arg].eol /\ LinesOf(a_vec) + 1 >= limit.l
      BY <1>1, <1>3, <3>1 DEF LinesCounted
    <3> QED
      BY <1>10, <3>1, <3>2 DEF Complete
  <2>4. xat' = "run" => EndedBy(a_vec)'
    BY <1>1, <2>3, UnalteredTests DEF EndedBy
  <2> QED
    BY <1>1, <1>3, <1>4, <2>1, <2>2, <2>4, UnalteredTests DEF Reasons
<1> QED
  BY <1>6, <1>7, <1>8, <1>9, <1>11, <1>12 DEF XargsInv

LEMMA InsertKeeps == ASSUME XargsInv, Insert PROVE XargsInv'
<1>1. /\ XargsStates /\ ArgTurn /\ Placed /\ Fitting /\ LinesCounted /\ Reasons /\ Same
      /\ xat = "insert"
      /\ IF CmdSize - BraceSize + Size(arg) > a_maxsize
         THEN xat' = "exit" /\ UNCHANGED a_vec
         ELSE xat' = "run" /\ a_vec' = <<arg>>
      /\ UNCHANGED <<taken, linecnt, arg, always, toolong, didexec, ran>>
  BY DEF XargsInv, Insert, Same
<1>2. PICK n \in Nat : n = Len(input)
  BY <1>1, LenProperties DEF XargsStates
<1>3. /\ input \in Seq(Word) /\ limit \in Limits /\ a_vec = <<>> /\ ran \in Seq(Seq(1..n))
      /\ arg \in 1..n /\ arg # 0 /\ arg = taken /\ ~toolong
      /\ limit.i /\ limit.i' = limit.i
      /\ input' = input /\ limit' = limit
  BY <1>1, <1>2 DEF XargsStates, ArgTurn, Same
<1>4. \/ xat' = "exit" /\ a_vec' = <<>>
      \/ xat' = "run" /\ a_vec' = Append(a_vec, arg)
  <2>1. <<arg>> = Append(<<>>, arg)
    OBVIOUS
  <2> QED
    BY <1>1, <1>3, <2>1
<1>5. a_vec \in Seq(1..n) /\ Append(a_vec, arg) \in Seq(1..n) /\ Append(a_vec, arg) # <<>>
      /\ Len(Append(a_vec, arg)) = Len(a_vec) + 1 /\ Len(a_vec) = 0
  <2>1. a_vec \in Seq(1..n) /\ Len(a_vec) = 0
    BY <1>3, EmptySeq
  <2>2. PICK S : S = 1..n
    OBVIOUS
  <2>3. a_vec \in Seq(S) /\ arg \in S
    BY <1>3, <2>1, <2>2
  <2>4. /\ Append(a_vec, arg) \in Seq(S) /\ Append(a_vec, arg) # <<>>
        /\ Len(Append(a_vec, arg)) = Len(a_vec) + 1
    BY <2>3, AppendFacts
  <2> QED
    BY <2>1, <2>2, <2>4
<1>6. XargsStates'
  <2>1. a_vec' \in Seq(1..n) /\ xat' \in {"run", "exit"}
    BY <1>3, <1>4, <1>5
  <2> QED
    BY <1>1, <1>2, <1>3, <2>1 DEF XargsStates
<1>7. ArgTurn'
  BY <1>1, <1>3, <1>4, <1>5 DEF ArgTurn
<1>8. Placed'
  <2>1. InCommands = UpTo(taken - 1)
    BY <1>1, <1>3 DEF Placed, Pending
  <2>2. CASE xat' = "exit" /\ a_vec' = <<>>
    BY <1>1, <1>3, <2>1, <2>2 DEF Placed, InCommands
  <2>3. CASE xat' = "run" /\ a_vec' = Append(a_vec, arg)
    <3>1. FlattenSeq(ran) \o Append(a_vec, arg) = UpTo(taken)
      BY <1>1, <1>3, <2>1, CommandsGrow
    <3>2. InCommands' = UpTo(taken)
      BY <1>1, <2>3, <3>1 DEF InCommands
    <3>3. ~Pending'
      BY <1>1, <1>3, <2>3 DEF Pending
    <3> QED
      BY <1>1, <2>3, <3>2, <3>3 DEF Placed
  <2> QED
    BY <1>4, <2>2, <2>3
<1>9. Fitting'
  <2>1. FitsIn(a_vec')
    <3>1. CASE xat' = "exit" /\ a_vec' = <<>>
      BY <1>1, <1>3, <3>1 DEF Fitting
    <3>2. CASE xat' = "run" /\ a_vec' = Append(a_vec, arg)
      <4>1. a_csz(Append(a_vec, arg)) = a_csz(a_vec) + Size(arg) /\ a_csz(<<>>) = 0 /\ Size(arg) \in Nat
        BY <1>2, <1>3, <1>5, SizeMore, ArgumentIs
      <4>2. CmdSize - BraceSize + Size(arg) <= a_maxsize
        BY <1>1, <1>3, <3>2, <4>1, LimitsAre, Assumed
      <4>3. a_csz(a_vec) = 0
        BY <1>3, <4>1
      <4>4. a_csz(Append(a_vec, arg)) <= a_maxsize
        BY <1>3, <4>1, <4>2, <4>3, LimitsAre, Assumed
      <4> QED
        BY <1>3, <1>5, <3>2, <4>4, LimitsAre DEF FitsIn
    <3> QED
      BY <1>4, <3>1, <3>2
  <2>2. \A j \in DOMAIN ran : FitsIn(ran[j]) /\ ran[j] # <<>>
    BY <1>1 DEF Fitting, Stopped
  <2> QED
    BY <1>1, <2>1, <2>2, UnalteredTests DEF Fitting
<1>10. LinesCounted' /\ Reasons'
  BY <1>3 DEF LinesCounted, Reasons
<1> QED
  BY <1>6, <1>7, <1>8, <1>9, <1>10 DEF XargsInv

LEMMA RunKeeps == ASSUME XargsInv, Run PROVE XargsInv'
<1>1. /\ XargsStates /\ ArgTurn /\ Placed /\ Fitting /\ LinesCounted /\ Reasons /\ Same
      /\ xat = "run" /\ ran' = Append(ran, a_vec) /\ a_vec' = <<>> /\ didexec' = TRUE
      /\ \/ xat' = CASE toolong -> "add" [] ~toolong /\ arg = 0 -> "end" [] OTHER -> "next"
         \/ xat' = "exit"
      /\ UNCHANGED <<taken, linecnt, arg, always, toolong>>
  BY DEF XargsInv, Run, Same
<1>2. PICK n \in Nat : n = Len(input)
  BY <1>1, LenProperties DEF XargsStates
<1>3. /\ input \in Seq(Word) /\ limit \in Limits /\ a_vec \in Seq(1..n) /\ ran \in Seq(Seq(1..n))
      /\ toolong \in BOOLEAN /\ limit.i' = limit.i /\ limit.l \in Nat
      /\ input' = input /\ limit' = limit
      /\ toolong => ~limit.i /\ arg # 0
      /\ a_vec = <<>> => ran = <<>> /\ arg = 0
  BY <1>1, <1>2 DEF XargsStates, ArgTurn, Same, Limits
<1>4. PICK m \in Nat :
          /\ m = Len(ran) /\ (ran = <<>> <=> m = 0)
          /\ DOMAIN ran = 1..m
  BY <1>3, EmptySeq, LenProperties
<1>5. /\ ran' \in Seq(Seq(1..n)) /\ ran' # <<>> /\ Len(ran') = m + 1 /\ DOMAIN ran' = 1..m + 1
      /\ ran'[m + 1] = a_vec /\ \A j \in 1..m : ran'[j] = ran[j]
  <2>1. PICK S : S = Seq(1..n)
    OBVIOUS
  <2>2. ran \in Seq(S) /\ a_vec \in S
    BY <1>3, <2>1
  <2> QED
    BY <1>1, <1>4, <2>1, <2>2, AppendFacts
<1>6. \/ xat' = "exit"
      \/ xat' = "add" /\ toolong
      \/ xat' = "end" /\ ~toolong /\ arg = 0
      \/ xat' = "next" /\ ~toolong /\ arg # 0
  BY <1>1, <1>3
<1>7. XargsStates'
  <2>1. a_vec' \in Seq(1..n)
    BY <1>1, EmptySeq
  <2>2. xat' \in {"next", "add", "insert", "run", "end", "exit"}
    BY <1>6
  <2>3. didexec' \in BOOLEAN
    BY <1>1
  <2> QED
    BY <1>1, <1>2, <1>3, <1>5, <2>1, <2>2, <2>3 DEF XargsStates
<1>8. ArgTurn'
  <2>1. (arg # 0 => arg = taken) /\ (arg = 0 => AtEof) /\ AtEof' = AtEof
    BY <1>1 DEF ArgTurn, AtEof, Same
  <2> QED
    BY <1>1, <1>3, <1>5, <1>6, <2>1 DEF ArgTurn
<1>9. Placed'
  <2>1. PICK S : S = 1..n
    OBVIOUS
  <2>2. ran \in Seq(Seq(S)) /\ a_vec \in Seq(S)
    BY <1>3, <2>1
  <2>3. FlattenSeq(Append(ran, a_vec)) = FlattenSeq(ran) \o a_vec /\ FlattenSeq(ran) \o a_vec \in Seq(S)
    BY <2>2, FlattenMore, ConcatProperties
  <2>4. InCommands' = InCommands
    <3>1. PICK u : u = FlattenSeq(ran) \o a_vec
      OBVIOUS
    <3>2. u \o <<>> = u
      BY <2>3, <3>1, ConcatEmptySeq
    <3> QED
      BY <1>1, <2>3, <3>1, <3>2 DEF InCommands
  <2>5. InCommands = UpTo(IF toolong THEN taken - 1 ELSE taken)
    BY <1>1, <1>3 DEF Placed, Pending
  <2>6. xat' # "exit" => (Pending' <=> toolong)
    BY <1>1, <1>3, <1>6 DEF Pending
  <2>7. CASE xat' = "exit"
    BY <1>1, <1>3, <2>4, <2>5, <2>7 DEF Placed
  <2>8. CASE xat' # "exit"
    BY <1>1, <2>4, <2>5, <2>6, <2>8 DEF Placed
  <2> QED
    BY <2>7, <2>8
<1>10. Fitting'
  <2>1. FitsIn(a_vec) /\ \A j \in 1..m : FitsIn(ran[j]) /\ ran[j] # <<>>
    BY <1>1, <1>4 DEF Fitting, Stopped
  <2>2. FitsIn(<<>>)
    <3>1. PICK S : S = 1..n
      OBVIOUS
    <3>2. PICK z : z = <<>>
      OBVIOUS
    <3>3. z \in Seq(S) /\ Len(z) = 0
      BY <3>2, EmptySeq
    <3>4. PICK g : SizeUp(g, z) /\ a_csz(z) = g[0]
      BY <1>2, <1>3, <3>1, <3>3, SizeParts
    <3>5. a_csz(z) = 0
      BY <3>4 DEF SizeUp
    <3> QED
      BY <1>3, <3>2, <3>3, <3>5, LimitsAre DEF FitsIn
  <2>3. ASSUME NEW j \in 1..m + 1
        PROVE  FitsIn(ran'[j]) /\ (ran'[j] = <<>> => Len(ran') = 1 /\ Stopped')
    <3>1. CASE j = m + 1
      <4>1. FitsIn(ran'[j])
        BY <1>5, <2>1, <3>1
      <4>2. ASSUME a_vec = <<>> PROVE Len(ran') = 1 /\ Stopped'
        <5>1. m = 0 /\ arg = 0 /\ ~toolong
          BY <1>3, <1>4, <4>2
        <5> QED
          BY <1>5, <1>6, <5>1 DEF Stopped
      <4> QED
        BY <1>5, <3>1, <4>1, <4>2
    <3>2. CASE j # m + 1
      <4>1. j \in 1..m
        BY <3>2
      <4> QED
        BY <1>5, <2>1, <4>1
    <3> QED
      BY <3>1, <3>2
  <2> QED
    BY <1>1, <1>5, <2>2, <2>3, UnalteredTests DEF Fitting
<1>11. LinesCounted'
  <2> SUFFICES ASSUME limit.l > 0, ~limit.i PROVE LinesCounted'
    BY <1>3 DEF LinesCounted
  <2>1. linecnt < limit.l /\ (always => linecnt = 0) /\ (arg # 0 => linecnt = 0 /\ ~always)
    BY <1>1 DEF LinesCounted
  <2>2. LinesOf(<<>>) = 0
    <3>1. PICK z : z = <<>>
      OBVIOUS
    <3>2. {j \in DOMAIN z : input[z[j]].eol} = {}
      BY <3>1
    <3>3. LinesOf(z) = 0
      BY <3>2, FS_EmptySet DEF LinesOf
    <3> QED
      BY <3>1, <3>3
  <2>3. LinesOf(a_vec)' = 0
    BY <1>1, <2>2, Unaltered
  <2>4. xat' = "add" => arg # 0
    BY <1>3, <1>6
  <2>5. arg # 0 => EndsLine(arg) \in Nat /\ EndsLine(arg)' = EndsLine(arg)
    BY <1>1, Unaltered DEF EndsLine
  <2>6. linecnt \in Nat
    BY <1>1 DEF XargsStates
  <2>7. xat' = "next" => arg # 0
    BY <1>6
  <2>8. xat' # "run"
    BY <1>6
  <2> QED
    BY <1>1, <1>3, <2>1, <2>3, <2>4, <2>5, <2>6, <2>7, <2>8 DEF LinesCounted
<1>12. Reasons'
  <2> SUFFICES ASSUME ~limit.i PROVE Reasons'
    BY <1>3 DEF Reasons
  <2>1. /\ always => limit.l > 0
        /\ \A j \in 1..m - 1 : Reason(ran[j], ran[j + 1][1])
        /\ ran # <<>> => IF a_vec = <<>> THEN EndedBy(Last(ran)) ELSE Reason(Last(ran), a_vec[1])
        /\ arg # 0 => EndedBy(a_vec)
    BY <1>1, <1>4 DEF Reasons, Stopped
  <2>2. ASSUME NEW j \in 1..Len(ran') - 1 PROVE Reason(ran'[j], ran'[j + 1][1])
    <3>1. j \in 1..m
      BY <1>5
    <3>2. CASE j = m
      <4>1. ran # <<>> /\ a_vec # <<>> /\ j + 1 = m + 1
        BY <1>3, <1>4, <3>1, <3>2
      <4>2. Last(ran) = ran[j]
        BY <1>4, <3>2 DEF Last
      <4>3. Reason(ran[j], a_vec[1])
        BY <2>1, <4>1, <4>2
      <4>4. ran'[j] = ran[j] /\ ran'[j + 1] = a_vec
        BY <1>5, <3>1, <4>1
      <4> QED
        BY <4>3, <4>4
    <3>3. CASE j # m
      <4>1. j \in 1..m - 1 /\ j + 1 \in 1..m
        BY <3>1, <3>3
      <4>2. ran'[j] = ran[j] /\ ran'[j + 1] = ran[j + 1]
        BY <1>5, <3>1, <4>1
      <4> QED
        BY <2>1, <4>1, <4>2
    <3> QED
      BY <3>2, <3>3
  <2>3. Last(ran') = a_vec
    BY <1>5 DEF Last
  <2>4. \A v : EndedBy(v)' = EndedBy(v)
    BY <1>1, UnalteredTests DEF EndedBy
  <2>5. ~Stopped' => EndedBy(a_vec)
    BY <1>3, <1>6, <2>1 DEF Stopped
  <2>6. xat' # "run"
    BY <1>6
  <2>7. \A v, k : Reason(v, k)' = Reason(v, k)
    BY <1>1, UnalteredTests
  <2>8. ~Stopped' => EndedBy(Last(ran))'
    BY <2>3, <2>4, <2>5
  <2> QED
    BY <1>1, <1>3, <2>1, <2>2, <2>6, <2>7, <2>8 DEF Reasons
<1> QED
  BY <1>7, <1>8, <1>9, <1>10, <1>11, <1>12 DEF XargsInv

LEMMA XargsStepKeeps == XargsInv /\ [XargsNext]_xargsVars => XargsInv'
<1> SUFFICES ASSUME XargsInv, [XargsNext]_xargsVars PROVE XargsInv'
  OBVIOUS
<1>1. CASE NextInput
  BY <1>1, NextInputKeeps
<1>2. CASE AddSingleTooLong
  BY <1>2, AddSingleTooLongKeeps
<1>3. CASE AddFits
  BY <1>3, AddFitsKeeps
<1>4. CASE AddFull
  BY <1>4, AddFullKeeps
<1>5. CASE AddNull
  BY <1>5, AddNullKeeps
<1>6. CASE Insert
  BY <1>6, InsertKeeps
<1>7. CASE Run
  BY <1>7, RunKeeps
<1>8. CASE UNCHANGED xargsVars
  BY <1>8, StutterKeeps
<1> QED
  BY <1>1, <1>2, <1>3, <1>4, <1>5, <1>6, <1>7, <1>8 DEF XargsNext

-----------------------------------------------------------------------------
(* xargs: the theorems *)

\* What xargs has read, and the argument it has in its hands.
LEMMA EachPlaced == ASSUME XargsInv PROVE EachOnceInOrder
<1>1. XargsStates /\ ArgTurn /\ Placed
  BY DEF XargsInv
<1>2. PICK S : S = 1..Len(input)
  OBVIOUS
<1>3. taken \in Nat /\ (arg # 0 => arg = taken /\ taken - 1 \in Nat /\ taken - 1 + 1 = taken)
  <2>1. Len(input) \in Nat
    BY <1>1, LenProperties DEF XargsStates
  <2> QED
    BY <1>1, <2>1 DEF XargsStates, ArgTurn
<1>4. InCommands \in Seq(S)
  BY <1>1, <1>2, FlattenMore, ConcatProperties DEF XargsStates, InCommands
<1>5. PICK c : c = InCommands
  OBVIOUS
<1>6. ASSUME c = UpTo(taken), Held = <<>> PROVE EachOnceInOrder
  <2>1. c \o <<>> = c
    BY <1>4, <1>5, ConcatEmptySeq
  <2> QED
    BY <1>5, <1>6, <2>1 DEF EachOnceInOrder, UpTo
<1>7. ASSUME arg # 0, c = UpTo(taken - 1), Held = <<arg>> PROVE EachOnceInOrder
  <2>1. UpTo(taken - 1) \in Seq(Nat) /\ taken \in Nat /\ arg = taken
    BY <1>3, <1>7, UpToMore
  <2>2. PICK z : z = <<>>
    OBVIOUS
  <2>3. z \in Seq(Nat)
    BY <2>2, EmptySeq
  <2>4. c \o Append(z, taken) = Append(c \o z, taken)
    BY <1>7, <2>1, <2>3, ConcatAppend
  <2>5. c \o z = c
    BY <1>7, <2>1, <2>2, ConcatEmptySeq
  <2>6. Append(c, taken) = UpTo(taken)
    BY <1>3, <1>7, UpToMore
  <2>7. <<arg>> = Append(z, taken)
    BY <2>1, <2>2
  <2> QED
    BY <1>5, <1>7, <2>4, <2>5, <2>6, <2>7 DEF EachOnceInOrder, UpTo
<1>8. CASE xat # "exit"
  <2>1. c = UpTo(IF Pending THEN taken - 1 ELSE taken)
    BY <1>1, <1>5, <1>8 DEF Placed
  <2>2. Held = IF Pending THEN <<arg>> ELSE <<>>
    BY <1>8 DEF Held, Pending
  <2>3. CASE Pending
    BY <1>7, <2>1, <2>2, <2>3 DEF Pending
  <2>4. CASE ~Pending
    BY <1>6, <2>1, <2>2, <2>4
  <2> QED
    BY <2>3, <2>4
<1>9. CASE xat = "exit"
  <2>1. c = UpTo(taken) \/ (arg # 0 /\ c = UpTo(taken - 1))
    BY <1>1, <1>5, <1>9 DEF Placed
  <2>2. Held = IF arg # 0 /\ arg \notin Range(c) THEN <<arg>> ELSE <<>>
    BY <1>5, <1>9 DEF Held
  <2>3. ASSUME NEW k \in Nat, c = UpTo(k) PROVE Range(c) = 1..k
    BY <2>3 DEF UpTo, Range
  <2>4. CASE c = UpTo(taken)
    <3>1. arg # 0 => arg \in Range(c)
      BY <1>3, <2>3, <2>4
    <3> QED
      BY <1>6, <2>2, <2>4, <3>1
  <2>5. CASE arg # 0 /\ c = UpTo(taken - 1)
    <3>1. arg \notin Range(c)
      BY <1>3, <2>3, <2>5
    <3> QED
      BY <1>7, <2>2, <2>5, <3>1
  <2> QED
    BY <2>1, <2>4, <2>5
<1> QED
  BY <1>8, <1>9

LEMMA InvDivides == ASSUME XargsInv PROVE XargsDivides
<1>1. WithinLimits
  BY DEF XargsInv, Fitting, FitsIn, WithinLimits
<1>2. EndsForAReason
  BY DEF XargsInv, Reasons, Reason, Complete, EndsForAReason
<1>3. NothingLeft
  BY DEF XargsInv, ArgTurn, NothingLeft
<1> QED
  BY <1>1, <1>2, <1>3, EachPlaced DEF XargsDivides

\* XargsInv is an inductive invariant of every run of xargs.
THEOREM XargsInvariant == XargsSpec => []XargsInv
<1>1. XargsInit => XargsInv
  BY XargsInitInv
<1>2. XargsInv /\ [XargsNext]_xargsVars => XargsInv'
  BY XargsStepKeeps
<1> QED
  BY <1>1, <1>2, PTL DEF XargsSpec

\* Whatever is read, under all options and limits: every argument is in exactly
\* one command, in the order of the input, no command is too large, each but
\* the last is ended for a reason, and nothing is left over at the end.
THEOREM EachIsPassed == XargsSpec => []XargsDivides
<1>1. XargsInv => XargsDivides
  BY InvDivides
<1> QED
  BY <1>1, XargsInvariant, PTL

\* The types of the variables.
THEOREM XargsTyped == XargsSpec => []XargsTypeOK
<1>1. ASSUME XargsInv PROVE XargsTypeOK
  <2>1. XargsStates /\ Placed /\ Len(input) \in Nat
    BY <1>1, LenProperties DEF XargsInv, XargsStates
  <2>2. PICK S : S = 1..Len(input)
    OBVIOUS
  <2>3. PICK c, f : c = InCommands /\ f = FlattenSeq(ran)
    OBVIOUS
  <2>4. f \in Seq(S) /\ a_vec \in Seq(S) /\ c = f \o a_vec
    BY <2>1, <2>2, <2>3, FlattenMore DEF XargsStates, InCommands
  <2>5. PICK m \in Nat : m <= taken /\ c = UpTo(m)
    <3>1. taken \in Nat /\ arg \in 0..taken
      BY <2>1 DEF XargsStates
    <3>2. arg # 0 => taken - 1 \in Nat /\ taken - 1 <= taken
      BY <3>1
    <3>3. c = UpTo(taken) \/ (arg # 0 /\ c = UpTo(taken - 1))
      BY <2>1, <2>3 DEF Placed, Pending
    <3> QED
      BY <3>1, <3>2, <3>3
  <2>6. PICK n \in Nat, k \in Nat :
            /\ n = Len(f) /\ k = Len(a_vec) /\ DOMAIN a_vec = 1..k
    BY <2>4, LenProperties
  <2>7. Len(c) = n + k /\ \A i \in 1..n + k : c[i] = IF i <= n THEN f[i] ELSE a_vec[i - n]
    BY <2>4, <2>6, ConcatProperties
  <2>8. m = n + k /\ \A i \in 1..m : c[i] = i
    BY <2>5, <2>7, UpToMore
  <2>9. ASSUME NEW j \in 1..k PROVE a_vec[j] \in 1..taken
    <3>1. n + j \in 1..n + k /\ ~(n + j <= n) /\ n + j - n = j
      OBVIOUS
    <3>2. a_vec[j] = n + j
      BY <2>7, <2>8, <3>1
    <3>3. taken \in Nat
      BY <2>1 DEF XargsStates
    <3> QED
      BY <2>5, <2>8, <3>1, <3>2, <3>3
  <2>10. Range(a_vec) \subseteq 1..taken
    BY <2>6, <2>9 DEF Range
  <2> QED
    BY <2>1, <2>10 DEF XargsStates, XargsTypeOK
<1> QED
  BY <1>1, XargsInvariant, PTL
-----------------------------------------------------------------------------
(* tail: the invariant *)

TailStates ==
    /\ isnl \in Seq(BOOLEAN) /\ Len(isnl) = TailMax
    /\ tailopt \in TailOptions
    /\ written \in 0..TailMax /\ off \in Nat /\ closed \in BOOLEAN
    /\ st_size \in 0..written /\ (~Regular => st_size = 0)
    /\ tailat \in {"start", "skip", "fill", "print", "copy", "follow", "end"}
    /\ need \in Nat
    /\ buf \in Seq(0..TailMax) /\ fill \in 0..Len(buf)
    /\ partial \in BOOLEAN

Begins ==
    tailat = "start" => off = 0 /\ out = <<>> /\ need = 0 /\ buf = <<>> /\ fill = 0 /\ partial

\* begintail(): what is still to be passed over, with what has been.
Units(n) == IF Lines THEN Newlines(n) ELSE 1..n
Skips ==
    tailat = "skip" =>
        /\ ~FromEnd /\ need > 0 /\ out = <<>> /\ off <= written /\ N > 1
        /\ ~Lines => ~Regular
        /\ need + Cardinality(Units(off)) = N - 1

\* What is printed is the tail of so much, and what is read next goes on with it.
Shown(len) ==
    /\ Beginning(len) \in Nat /\ out = From(Beginning(len), off)
    /\ tailopt.f \/ tailat = "copy" => Beginning(len) <= off + 1

\* The characters at the end of a file begin where it ended; where the beginning of the
\* input begins, its length says nothing about.
Copied ==
    tailat = "copy" =>
        /\ ~tailopt.r /\ ~Nothing
        /\ FromEnd => Regular /\ ~Lines /\ \E len \in st_size..written : Shown(len)
        /\ ~FromEnd => \A len \in Nat : off <= len => Shown(len)

\* endtail(): which character has each place in the buffer, on either side of fill;
\* place -1 is in front of a buffer that was never full.
Pos(k) == IF k < fill THEN off - fill + k + 1 ELSE off - fill + k + 1 - spcsize
Filled ==
    /\ fill \in 0..spcsize - 1 /\ fill <= off /\ off <= written
    /\ \A k \in 0..fill - 1 : spc(k) = Pos(k)
    /\ ~partial => /\ spcsize <= off /\ alcmax <= spcsize
                   /\ \A k \in fill..spcsize - 1 : spc(k) = Pos(k)
    /\ partial /\ off # fill => Lines
    /\ ~Lines => ~Regular
\* The offset is at first as far from the end as a tail may be long.
Fills ==
    tailat \in {"fill", "print"} =>
        /\ Filled /\ FromEnd /\ ~Nothing /\ out = <<>>
        /\ tailat = "fill" /\ partial /\ off # fill =>
            Regular /\ off - fill + N * LineSize + 1 \in st_size..written
        /\ tailat = "print" => st_size <= off /\ (partial /\ off # fill => N * LineSize < fill)

ShownAll == out = IF tailopt.f THEN From(1, off) ELSE <<>>
Ended ==
    tailat \in {"follow", "end"} =>
        /\ tailat = "follow" => tailopt.f
        /\ Nothing => ShownAll
        /\ ~Nothing => \E len \in EndsRead :
                \/ ~tailopt.r /\ Shown(len)
                \/ tailopt.r /\ (len > 0 => out = Backward(len))
                \/ FromEnd /\ Lines /\ ~Fits(len)

TailInv == TailStates /\ Begins /\ Skips /\ Copied /\ Fills /\ Ended

-----------------------------------------------------------------------------
(* tail: positions in order *)

LEMMA FromFacts ==
    ASSUME NEW i \in Int, NEW j \in Int
    PROVE  /\ From(i, j) \in Seq(Int)
           /\ i <= j + 1 => Len(From(i, j)) = j - i + 1
           /\ j < i => Len(From(i, j)) = 0
           /\ \A k \in 1..Len(From(i, j)) : From(i, j)[k] = i + k - 1
<1>1. PICK n : n = IF j < i THEN 0 ELSE j - i + 1
  OBVIOUS
<1>2. n \in Nat
  BY <1>1
<1>3. PICK s : s = From(i, j)
  OBVIOUS
<1>4. s \in [1..n -> Int] /\ \A k \in 1..n : s[k] = i + k - 1
  BY <1>1, <1>2, <1>3 DEF From
<1>5. s \in Seq(Int)
  BY <1>2, <1>4, SeqDef
<1>6. Len(s) = n
  BY <1>2, <1>4, <1>5, LenProperties
<1> QED
  BY <1>1, <1>2, <1>3, <1>4, <1>5, <1>6

LEMMA FromEmpty ==
    ASSUME NEW i \in Int, NEW j \in Int, j < i
    PROVE  From(i, j) = <<>>
<1>1. PICK s : s = From(i, j)
  OBVIOUS
<1>2. s \in Seq(Int) /\ Len(s) = 0
  BY <1>1, FromFacts
<1> QED
  BY <1>1, <1>2, EmptySeq

\* What is From(i, j) is told by its elements.
LEMMA IsFrom ==
    ASSUME NEW i \in Int, NEW j \in Int, NEW S, NEW s \in Seq(S), S \subseteq Int,
           i <= j + 1, Len(s) = j - i + 1,
           \A k \in 1..Len(s) : s[k] = i + k - 1
    PROVE  s = From(i, j)
<1>1. PICK t : t = From(i, j)
  OBVIOUS
<1>2. t \in Seq(Int) /\ Len(t) = Len(s) /\ \A k \in 1..Len(t) : t[k] = i + k - 1
  BY <1>1, FromFacts
<1>3. s \in Seq(Int)
  BY SeqMonotonic
<1>4. \A k \in 1..Len(s) : s[k] = t[k]
  BY <1>2
<1> QED
  BY <1>1, <1>2, <1>3, <1>4, SeqEqual

LEMMA FromJoin ==
    ASSUME NEW i \in Int, NEW j \in Int, NEW m \in Int, i <= j + 1, j <= m
    PROVE  From(i, j) \o From(j + 1, m) = From(i, m)
<1>1. PICK s, t, u : s = From(i, j) /\ t = From(j + 1, m) /\ u = s \o t
  OBVIOUS
<1>2. PICK a, b : a = j - i + 1 /\ b = m - j
  OBVIOUS
<1>3. a \in Nat /\ b \in Nat
  BY <1>2
<1>4. s \in Seq(Int) /\ Len(s) = a /\ \A k \in 1..a : s[k] = i + k - 1
  <2>1. s \in Seq(Int) /\ Len(s) = a /\ \A k \in 1..Len(s) : s[k] = i + k - 1
    BY <1>1, <1>2, FromFacts
  <2> QED
    BY <2>1
<1>5. t \in Seq(Int) /\ Len(t) = b /\ \A k \in 1..b : t[k] = j + k
  <2>1. PICK i2 : i2 = j + 1
    OBVIOUS
  <2>2. i2 \in Int /\ i2 <= m + 1 /\ m - i2 + 1 = b
    BY <1>2, <2>1
  <2>3. t \in Seq(Int) /\ Len(t) = b /\ \A k \in 1..Len(t) : t[k] = i2 + k - 1
    BY <1>1, <2>1, <2>2, FromFacts
  <2> QED
    BY <1>3, <2>1, <2>3
<1>6. u \in Seq(Int) /\ Len(u) = a + b /\ \A k \in 1..a + b : u[k] = IF k <= a THEN s[k] ELSE t[k - a]
  BY <1>1, <1>4, <1>5, ConcatProperties
<1>7. ASSUME NEW k \in 1..a + b PROVE u[k] = i + k - 1
  <2>1. CASE k <= a
    BY <1>3, <1>4, <1>6, <2>1
  <2>2. CASE ~(k <= a)
    <3>1. k - a \in 1..b
      BY <1>3, <2>2
    <3> QED
      BY <1>2, <1>3, <1>5, <1>6, <2>2, <3>1
  <2> QED
    BY <2>1, <2>2
<1>8. i <= m + 1 /\ Len(u) = m - i + 1
  BY <1>2, <1>6
<1> QED
  BY <1>1, <1>6, <1>7, <1>8, IsFrom

-----------------------------------------------------------------------------
(* tail: the n-th newline *)

\* The numbers of S up to p, and behind p.
Low(S, p) == {q \in S : q <= p}
High(S, p) == {q \in S : q > p}

LEMMA LowOrHigh ==
    ASSUME NEW S, S \subseteq Nat, NEW p \in Int
    PROVE  /\ Low(S, p) \subseteq S /\ High(S, p) \subseteq S
           /\ \A q \in S : q \in Nat /\ (q \in Low(S, p) <=> q <= p) /\ (q \in High(S, p) <=> q > p)
BY DEF Low, High

LEMMA SplitCount ==
    ASSUME NEW S, S \subseteq Nat, IsFiniteSet(S), NEW p \in Int
    PROVE  /\ IsFiniteSet(Low(S, p)) /\ IsFiniteSet(High(S, p))
           /\ Cardinality(Low(S, p)) \in Nat /\ Cardinality(High(S, p)) \in Nat
           /\ Cardinality(S) = Cardinality(Low(S, p)) + Cardinality(High(S, p))
<1>1. PICK A, B : A = Low(S, p) /\ B = High(S, p)
  OBVIOUS
<1>2. A \subseteq S /\ B \subseteq S /\ S = A \cup B /\ A \cap B = {}
  <2>1. \A q \in S : q \in Nat /\ (q <= p \/ q > p) /\ ~(q <= p /\ q > p)
    OBVIOUS
  <2>2. \A q : (q \in A => q \in S) /\ (q \in B => q \in S) /\ (q \in S => q \in A \/ q \in B)
               /\ ~(q \in A /\ q \in B)
    BY <1>1, <2>1, LowOrHigh
  <2> QED
    BY <2>2
<1>3. IsFiniteSet(A) /\ IsFiniteSet(B)
  BY <1>2, FS_Subset
<1>4. Cardinality(A) \in Nat /\ Cardinality(B) \in Nat
  BY <1>3, FS_CardinalityType
<1>5. Cardinality(A \cup B) = Cardinality(A) + Cardinality(B) - Cardinality(A \cap B)
  BY <1>3, FS_Union
<1>6. Cardinality(A \cap B) = 0
  BY <1>2, FS_EmptySet
<1>7. Cardinality(S) = Cardinality(A) + Cardinality(B)
  BY <1>2, <1>4, <1>5, <1>6
<1> QED
  BY <1>1, <1>3, <1>4, <1>7

\* A later member has more of them up to it.
LEMMA LaterHasMore ==
    ASSUME NEW S, S \subseteq Nat, IsFiniteSet(S), NEW p \in Int, NEW r \in S, p < r
    PROVE  Cardinality(Low(S, p)) < Cardinality(Low(S, r))
<1>1. PICK A, B : A = Low(S, p) /\ B = Low(S, r)
  OBVIOUS
<1>2. A \cup {r} \subseteq B /\ r \notin A
  <2>1. \A q \in S : q \in Nat
    OBVIOUS
  <2>2. r \in B /\ r \notin A /\ \A q \in A : q \in B
    BY <1>1, <2>1 DEF Low
  <2> QED
    BY <2>2
<1>3. IsFiniteSet(A) /\ IsFiniteSet(B) /\ Cardinality(A) \in Nat /\ Cardinality(B) \in Nat
  <2>1. r \in Int
    OBVIOUS
  <2> QED
    BY <1>1, <2>1, SplitCount
<1>4. Cardinality(A \cup {r}) = Cardinality(A) + 1
  BY <1>2, <1>3, FS_AddElement
<1>5. Cardinality(A \cup {r}) <= Cardinality(B)
  BY <1>2, <1>3, FS_Subset
<1> QED
  BY <1>1, <1>3, <1>4, <1>5

\* A member is told by the number of those before it, or behind it.
LEMMA NthIsOne ==
    ASSUME NEW S, S \subseteq Nat, IsFiniteSet(S), NEW p \in S, NEW r \in S,
           \/ Cardinality(Low(S, p)) = Cardinality(Low(S, r))
           \/ Cardinality(High(S, p)) = Cardinality(High(S, r))
    PROVE  p = r
<1>1. p \in Int /\ r \in Int
  OBVIOUS
<1>2. PICK a, b, c, d : /\ a = Cardinality(Low(S, p)) /\ b = Cardinality(High(S, p))
                        /\ c = Cardinality(Low(S, r)) /\ d = Cardinality(High(S, r))
  OBVIOUS
<1>3. a \in Nat /\ b \in Nat /\ Cardinality(S) = a + b
  BY <1>1, <1>2, SplitCount
<1>4. c \in Nat /\ d \in Nat /\ Cardinality(S) = c + d
  BY <1>1, <1>2, SplitCount
<1>5. a = c
  BY <1>2, <1>3, <1>4
<1>6. ~(p < r)
  <2>1. p < r => a < c
    BY <1>1, <1>2, LaterHasMore
  <2> QED
    BY <1>3, <1>5, <2>1
<1>7. ~(r < p)
  <2>1. r < p => c < a
    BY <1>1, <1>2, LaterHasMore
  <2> QED
    BY <1>3, <1>5, <2>1
<1> QED
  BY <1>1, <1>6, <1>7

LEMMA NthExists ==
    ASSUME NEW S, S \subseteq Nat, IsFiniteSet(S), NEW n \in 1..Cardinality(S)
    PROVE  \E p \in S : Cardinality(Low(S, p)) = n
<1>1. PICK c \in Nat : c = Cardinality(S)
  BY FS_CardinalityType
<1> DEFINE P == {m \in Nat : m + 1 <= c => \E p \in S : Cardinality(Low(S, p)) = m + 1}
<1>2. 0 \in P
  <2>1. SUFFICES ASSUME 1 <= c PROVE \E p \in S : Cardinality(Low(S, p)) = 1
    OBVIOUS
  <2>2. S # {}
    BY <1>1, <2>1, FS_EmptySet
  <2>3. PICK p \in S : \A q \in S : p <= q
    BY <2>2, LeastNumber
  <2>4. \A q : q \in Low(S, p) <=> q = p
    <3>1. p \in Int /\ p \in Nat
      OBVIOUS
    <3>2. Low(S, p) \subseteq S /\ \A q \in S : q \in Nat /\ (q \in Low(S, p) <=> q <= p)
      BY <3>1, LowOrHigh
    <3>3. \A q \in S : q \in Low(S, p) <=> q = p
      BY <2>3, <3>1, <3>2
    <3> QED
      BY <3>2, <3>3
  <2>5. Low(S, p) = {p}
    BY <2>4
  <2> QED
    BY <2>5, FS_Singleton
<1>3. ASSUME NEW m \in Nat, m \in P PROVE m + 1 \in P
  <2>1. SUFFICES ASSUME m + 2 <= c PROVE \E p \in S : Cardinality(Low(S, p)) = m + 2
    OBVIOUS
  <2>2. PICK p \in S : Cardinality(Low(S, p)) = m + 1
    BY <1>1, <1>3, <2>1
  <2>3. PICK H, A : H = High(S, p) /\ A = Low(S, p)
    OBVIOUS
  <2>0. p \in Int
    OBVIOUS
  <2>4. IsFiniteSet(A) /\ Cardinality(A) = m + 1
    BY <2>0, <2>2, <2>3, SplitCount
  <2>5. H # {} /\ H \subseteq Nat
    <3>1. Cardinality(H) \in Nat /\ c = (m + 1) + Cardinality(H)
      BY <1>1, <2>0, <2>2, <2>3, SplitCount
    <3>2. H = {} => Cardinality(H) = 0
      BY FS_EmptySet
    <3>3. \A q \in H : q \in Nat
      BY <2>0, <2>3, LowOrHigh
    <3>4. H # {}
      BY <2>1, <3>1, <3>2
    <3> QED
      BY <3>3, <3>4
  <2>6. PICK r \in H : \A q \in H : r <= q
    BY <2>5, LeastNumber
  <2>7. PICK B : B = Low(S, r)
    OBVIOUS
  <2>8. r \in S /\ r \notin A /\ \A q : q \in B <=> q \in A \/ q = r
    <3>1. r \in S /\ r > p /\ r \in Nat
      BY <2>0, <2>3, LowOrHigh
    <3>2. \A q \in S : q \in Nat /\ (q > p => r <= q)
      BY <2>0, <2>3, <2>6, LowOrHigh
    <3>3. A \subseteq S /\ \A q \in S : q \in A <=> q <= p
      BY <2>0, <2>3, LowOrHigh
    <3>4. r \in Int
      BY <3>1
    <3>5. B \subseteq S /\ \A q \in S : q \in B <=> q <= r
      BY <2>7, <3>4, LowOrHigh
    <3>6. \A q \in S : q \in B <=> q \in A \/ q = r
      BY <2>0, <3>1, <3>2, <3>3, <3>5
    <3>7. r \notin A
      BY <2>0, <3>1, <3>3
    <3>8. \A q : q \in B <=> q \in A \/ q = r
      BY <3>1, <3>3, <3>5, <3>6
    <3> QED
      BY <3>1, <3>7, <3>8
  <2>9. B = A \cup {r}
    BY <2>8
  <2>10. Cardinality(A \cup {r}) = m + 1 + 1
    BY <2>4, <2>8, FS_AddElement
  <2>11. Cardinality(Low(S, r)) = m + 2
    BY <2>7, <2>9, <2>10
  <2> QED
    BY <2>8, <2>11
<1>4. Nat \subseteq P
  <2> HIDE DEF P
  <2> QED
    BY <1>2, <1>3, SetInduction
<1>5. n - 1 \in P /\ n - 1 + 1 <= c /\ n - 1 + 1 = n
  BY <1>1, <1>4
<1> QED
  BY <1>5

-----------------------------------------------------------------------------
(* tail: the place of a character in the buffer *)

\* The position of place -1, or of the oldest character when the buffer has been full.
Bottom == IF partial THEN off - fill ELSE off - spcsize + 1
Place(p) == IF p > off - fill \/ partial THEN p - (off - fill) - 1 ELSE p - (off - fill) - 1 + spcsize

LEMMA BufferFacts ==
    ASSUME TailStates, Filled
    PROVE  /\ spcsize \in Nat /\ fill \in 0..spcsize - 1 /\ off \in Nat /\ fill <= off
           /\ partial \in BOOLEAN /\ (~partial => spcsize <= off)
           /\ off <= TailMax /\ TailMax \in Nat
           /\ Bottom \in 0..off /\ (~partial => Bottom >= 1)
           /\ isnl \in [1..TailMax -> BOOLEAN]
<1>1. spcsize \in Nat
  BY LenProperties DEF TailStates, spcsize
<1>2. TailMax \in Nat
  BY TailAssumption
<1>3. isnl \in [1..TailMax -> BOOLEAN]
  BY LenProperties DEF TailStates
<1>4. /\ fill \in 0..spcsize - 1 /\ off \in Nat /\ fill <= off /\ partial \in BOOLEAN
      /\ (~partial => spcsize <= off) /\ off <= TailMax
  BY <1>1, <1>2 DEF TailStates, Filled
<1> QED
  BY <1>1, <1>2, <1>3, <1>4 DEF Bottom

LEMMA PlaceIs ==
    ASSUME TailStates, Filled, NEW p \in Bottom..off + 1
    PROVE  /\ Place(p) \in -1..spcsize - 1
           /\ Place(p) = -1 <=> partial /\ p = Bottom
           /\ Place(p) = fill <=> p = off + 1 \/ (~partial /\ p = Bottom)
           /\ Place(p) < fill <=> p <= off /\ (p > off - fill \/ partial)
           /\ p <= off /\ (~partial \/ p > Bottom) => spc(Place(p)) = p /\ (Newline(Place(p)) <=> isnl[p])
<1>1. p \in Int /\ Bottom <= p /\ p <= off + 1
  BY BufferFacts
<1>0. PICK s, f, o, b : s = spcsize /\ f = fill /\ o = off /\ b = Bottom
  OBVIOUS
<1>4. {s, f, o, b} \subseteq Int /\ 0 <= f /\ f < s /\ f <= o
  BY <1>0, BufferFacts
<1>2. /\ Place(p) \in -1..spcsize - 1
      /\ Place(p) = -1 <=> partial /\ p = Bottom
      /\ Place(p) = fill <=> p = off + 1 \/ (~partial /\ p = Bottom)
      /\ Place(p) < fill <=> p <= off /\ (p > off - fill \/ partial)
  <2>1. CASE partial
    <3>1. b = o - f /\ Place(p) = p - (o - f) - 1
      BY <1>0, <2>1 DEF Place, Bottom
    <3> QED
      BY <1>0, <1>1, <1>4, <2>1, <3>1
  <2>2. CASE ~partial
    <3>1. b = o - s + 1 /\ Place(p) = IF p > o - f THEN p - (o - f) - 1 ELSE p - (o - f) - 1 + s
      BY <1>0, <2>2 DEF Place, Bottom
    <3> QED
      BY <1>0, <1>1, <1>4, <2>2, <3>1
  <2> QED
    BY <2>1, <2>2
<1>3. ASSUME p <= off, ~partial \/ p > Bottom
      PROVE  spc(Place(p)) = p /\ (Newline(Place(p)) <=> isnl[p])
  <2>1. PICK k : k = Place(p)
    OBVIOUS
  <2>2. CASE p > off - fill \/ partial
    <3>0. p > o - f /\ k = p - (o - f) - 1
      <4>1. partial => b = o - f
        BY <1>0 DEF Bottom
      <4> QED
        BY <1>0, <1>1, <1>3, <1>4, <2>1, <2>2, <4>1 DEF Place
    <3>4. k \in 0..f - 1
      BY <1>0, <1>1, <1>3, <1>4, <3>0
    <3>5. Pos(k) = o - f + k + 1
      BY <1>0, <3>4, <1>4 DEF Pos
    <3>1. k \in 0..fill - 1 /\ Pos(k) = p
      BY <1>0, <1>1, <1>4, <3>0, <3>4, <3>5
    <3>2. spc(k) = p
      BY <3>1 DEF Filled
    <3>3. p # 0
      BY <1>1, <1>3, BufferFacts DEF Bottom
    <3> QED
      BY <2>1, <3>2, <3>3 DEF Newline
  <2>3. CASE ~(p > off - fill \/ partial)
    <3>0. ~partial /\ p <= o - f /\ k = p - (o - f) - 1 + s /\ b = o - s + 1 /\ b >= 1
      BY <1>0, <1>1, <1>4, <2>1, <2>3, BufferFacts DEF Place, Bottom
    <3>4. k \in f..s - 1 /\ p # 0
      BY <1>0, <1>1, <1>4, <3>0
    <3>5. Pos(k) = o - f + k + 1 - s
      BY <1>0, <3>4, <1>4 DEF Pos
    <3>1. k \in fill..spcsize - 1 /\ Pos(k) = p /\ p # 0
      BY <1>0, <1>1, <1>4, <3>0, <3>4, <3>5
    <3>2. spc(k) = p
      BY <2>3, <3>1 DEF Filled
    <3> QED
      BY <2>1, <3>1, <3>2 DEF Newline
  <2> QED
    BY <2>2, <2>3
<1> QED
  BY <1>2, <1>3

\* One turn of the loop goes back to the newest newline, or to the bottom.
LEMMA BeforeIs ==
    ASSUME TailStates, Filled, NEW e \in Bottom + 1..off + 1, NEW q \in Bottom..e - 1,
           q = Bottom \/ isnl[q], \A x \in q + 1..e - 1 : ~isnl[x]
    PROVE  Before(Place(e)) = Place(q)
<1>1. PICK k : k = Place(e)
  OBVIOUS
<1> DEFINE back(t) == IF k - t >= 0 THEN k - t ELSE IF partial THEN -1 ELSE k - t + spcsize
           stop == {t \in 1..spcsize :
                    back(t) = -1 \/ back(t) = fill \/ Newline(back(t))}
<1>2. Before(Place(e)) = back(Min(stop))
  BY <1>1 DEF Before
<1>3. /\ e \in Int /\ q \in Int /\ Bottom \in Int /\ Bottom <= q /\ q < e /\ e <= off + 1
      /\ e - Bottom <= spcsize
  BY BufferFacts DEF Bottom
<1>4. ASSUME NEW t \in 1..e - Bottom PROVE back(t) = Place(e - t)
  <2>0. PICK s, f, o : s = spcsize /\ f = fill /\ o = off
    OBVIOUS
  <2>1. {s, f, o} \subseteq Int /\ 0 <= f /\ f < s /\ f <= o
    BY <2>0, BufferFacts
  <2>2. CASE partial
    <3>1. /\ Bottom = o - f /\ k = e - (o - f) - 1 /\ Place(e - t) = e - t - (o - f) - 1
          /\ back(t) = IF k - t >= 0 THEN k - t ELSE -1
      BY <1>1, <2>0, <2>2 DEF Bottom, Place
    <3> QED
      BY <1>3, <2>1, <3>1
  <2>3. CASE ~partial
    <3>1. /\ Bottom = o - s + 1 /\ k = IF e > o - f THEN e - (o - f) - 1 ELSE e - (o - f) - 1 + s
          /\ Place(e - t) = IF e - t > o - f THEN e - t - (o - f) - 1 ELSE e - t - (o - f) - 1 + s
          /\ back(t) = IF k - t >= 0 THEN k - t ELSE k - t + s
      BY <1>1, <2>0, <2>3 DEF Bottom, Place
    <3> QED
      BY <1>3, <2>1, <3>1
  <2> QED
    BY <2>2, <2>3
<1> HIDE DEF back
<1>5. PICK t0 : t0 = e - q
  OBVIOUS
<1>6. t0 \in 1..spcsize /\ t0 \in 1..e - Bottom
  BY <1>3, <1>5, BufferFacts
<1>7. back(t0) = Place(q)
  <2>1. e - t0 = q
    BY <1>3, <1>5
  <2> QED
    BY <1>4, <1>6, <2>1
<1>8. t0 \in stop
  <2>1. CASE q = Bottom
    <3>1. Place(q) = -1 \/ Place(q) = fill
      BY <1>3, <2>1, BufferFacts, PlaceIs
    <3> QED
      BY <1>6, <1>7, <3>1
  <2>2. CASE q # Bottom
    <3>1. Newline(Place(q))
      BY <1>3, <2>2, BufferFacts, PlaceIs
    <3> QED
      BY <1>6, <1>7, <3>1
  <2> QED
    BY <2>1, <2>2
<1>9. ASSUME NEW t \in stop PROVE t0 <= t
  <2>1. SUFFICES ASSUME t < t0 PROVE FALSE
    BY <1>6
  <2>2. t \in 1..e - Bottom /\ e - t \in q + 1..e - 1 /\ e - t \in Bottom..off + 1
        /\ e - t > Bottom /\ e - t <= off
    BY <1>3, <1>5, <2>1, BufferFacts
  <2>3. PICK p \in Bottom..off + 1 : p = e - t /\ p > Bottom /\ p <= off /\ ~isnl[p]
    BY <2>2
  <2>4. back(t) = Place(p)
    BY <1>4, <2>2, <2>3
  <2>5. Place(p) # -1 /\ Place(p) # fill /\ ~Newline(Place(p))
    BY <2>3, BufferFacts, PlaceIs
  <2> QED
    BY <2>4, <2>5
<1>10. stop \subseteq Int
  OBVIOUS
<1>11. Min(stop) = t0
  <2> HIDE DEF stop
  <2> QED
    BY <1>8, <1>9, <1>10, MinIs
<1> QED
  BY <1>2, <1>7, <1>11

-----------------------------------------------------------------------------
(* tail: the newlines from the end, newest first *)

\* E[j] is the j-th newline from the end, or 0 when there is none.
NewestBelow(e, q) ==
    /\ q \in 0..off
    /\ q < e \/ (q = 0 /\ e = 0)
    /\ q # 0 => isnl[q]
    /\ \A x \in q + 1..e - 1 : ~isnl[x]
IsEnds(E) ==
    /\ E \in [0..N + 1 -> 0..off + 1]
    /\ E[0] = off + 1
    /\ \A j \in 1..N + 1 : NewestBelow(E[j - 1], E[j])

LEMMA NumberIs ==
    ASSUME TailStates
    PROVE  /\ N \in Nat /\ off \in Nat /\ TailMax \in Nat /\ isnl \in [1..TailMax -> BOOLEAN]
           /\ tailopt.f \in BOOLEAN /\ tailopt.r \in BOOLEAN /\ tailopt.new \in BOOLEAN
           /\ tailopt.r \/ tailopt.new => tailopt.r # tailopt.new
           /\ tailopt.new => N = 0
           /\ tailopt.r => FromEnd /\ Lines /\ ~tailopt.f
           /\ tailopt.f => Regular
           /\ written \in Nat /\ st_size \in Nat /\ st_size <= written /\ written <= TailMax
<1>1. isnl \in [1..TailMax -> BOOLEAN]
  BY LenProperties DEF TailStates
<1>2. TailMax \in Nat /\ Counts \subseteq Nat
  BY TailAssumption
<1>3. off \in Nat /\ written \in Nat /\ st_size \in Nat /\ st_size <= written /\ written <= TailMax
  BY <1>2 DEF TailStates
<1>4. tailopt \in TailOptions
  BY DEF TailStates
<1>5. /\ tailopt.n \in Counts /\ tailopt.f \in BOOLEAN /\ tailopt.r \in BOOLEAN /\ tailopt.new \in BOOLEAN
      /\ tailopt.r \/ tailopt.new => tailopt.r # tailopt.new
      /\ tailopt.new => tailopt.n = 0
      /\ tailopt.r => tailopt.from = "end" /\ tailopt.unit = "l" /\ ~tailopt.f
      /\ tailopt.f => tailopt.file
  BY <1>4 DEF TailOptions
<1> QED
  BY <1>1, <1>2, <1>3, <1>5 DEF N, FromEnd, Lines, Regular

LEMMA NewestExists ==
    ASSUME TailStates, off <= written, NEW e \in 0..off + 1
    PROVE  \E q : NewestBelow(e, q)
<1>1. CASE e = 0
  <2>1. NewestBelow(e, 0)
    BY <1>1, NumberIs DEF NewestBelow
  <2> QED
    BY <2>1
<1>2. CASE e # 0
  <2> DEFINE T == {t \in 1..e : t = e \/ isnl[e - t]}
  <2>1. T \subseteq Nat /\ e \in T
    BY <1>2, NumberIs
  <2>2. PICK t \in T : \A y \in T : t <= y
    BY <2>1, LeastNumber
  <2>3. PICK q : q = e - t
    OBVIOUS
  <2>4. t \in 1..e /\ q \in 0..off /\ q < e /\ (q # 0 => isnl[q])
    BY <1>2, <2>2, <2>3, NumberIs
  <2>5. ASSUME NEW x \in q + 1..e - 1 PROVE ~isnl[x]
    <3>1. PICK y \in 1..e : y = e - x /\ e - y = x /\ y < t
      BY <1>2, <2>3, <2>4, NumberIs
    <3>2. y \in T => t <= y
      BY <2>2
    <3>3. y \notin T
      BY <2>4, <3>1, <3>2
    <3> QED
      BY <3>1, <3>3
  <2>6. NewestBelow(e, q)
    BY <2>4, <2>5 DEF NewestBelow
  <2> QED
    BY <2>6
<1> QED
  BY <1>1, <1>2

LEMMA EndsExist ==
    ASSUME TailStates, off <= written
    PROVE  \E E : IsEnds(E)
<1>1. PICK n, X : n = N + 1 /\ n \in Nat /\ X = 0..off + 1 /\ off + 1 \in X
  BY NumberIs
<1>2. PICK F : F = [je \in (1..n) \X X |-> CHOOSE q : NewestBelow(je[2], q)]
  OBVIOUS
<1>3. ASSUME NEW j \in 1..n, NEW e \in X
      PROVE  F[<<j, e>>] \in X /\ NewestBelow(e, F[<<j, e>>])
  <2>1. F[<<j, e>>] = CHOOSE q : NewestBelow(e, q)
    BY <1>2
  <2>3. e \in 0..off + 1
    BY <1>1
  <2>4. \E q : NewestBelow(e, q)
    BY <2>3, NewestExists
  <2>2. NewestBelow(e, F[<<j, e>>])
    BY <2>1, <2>4
  <2>5. F[<<j, e>>] \in 0..off
    BY <2>2 DEF NewestBelow
  <2>6. F[<<j, e>>] \in X
    BY <1>1, <2>5, NumberIs
  <2> QED
    BY <2>2, <2>6
<1>4. StepFunction(F, n, X)
  <2>1. DOMAIN F = (1..n) \X X /\ F = [je \in (1..n) \X X |-> F[je]]
    BY <1>2
  <2>2. ASSUME NEW z \in (1..n) \X X PROVE F[z] \in X
    <3>1. PICK j \in 1..n, e \in X : z = <<j, e>>
      OBVIOUS
    <3> QED
      BY <1>3, <3>1
  <2> QED
    BY <2>1, <2>2 DEF StepFunction
<1>5. PICK E : Unrolled(E, F, n, X, off + 1)
  BY <1>1, <1>4, RecursionExists
<1>6. E \in [0..n -> X] /\ E[0] = off + 1 /\ \A j \in 1..n : E[j] = F[<<j, E[j - 1]>>]
  BY <1>5 DEF Unrolled
<1>7. ASSUME NEW j \in 1..n PROVE NewestBelow(E[j - 1], E[j])
  <2>1. j - 1 \in 0..n
    BY <1>1
  <2>2. E[j - 1] \in X
    BY <1>6, <2>1
  <2> QED
    BY <1>3, <1>6, <2>2
<1>8. IsEnds(E)
  BY <1>1, <1>6, <1>7 DEF IsEnds
<1> QED
  BY <1>8

LEMMA EndIs ==
    ASSUME TailStates, off <= written, NEW E, IsEnds(E), NEW j \in 1..N + 1
    PROVE  /\ j - 1 \in 0..N + 1 /\ E[j] \in 0..off /\ E[j - 1] \in 0..off + 1
           /\ E[j] < E[j - 1] \/ (E[j] = 0 /\ E[j - 1] = 0)
           /\ j > 1 => E[j - 1] \in 0..off /\ (E[j - 1] # 0 => isnl[E[j - 1]])
           /\ E[j] # 0 => isnl[E[j]]
           /\ \A x \in E[j] + 1..E[j - 1] - 1 : ~isnl[x]
<1>1. j \in 0..N + 1 /\ j - 1 \in 0..N + 1
  BY NumberIs
<1>2. NewestBelow(E[j - 1], E[j]) /\ E[j - 1] \in 0..off + 1 /\ E[j] \in 0..off + 1
  BY <1>1 DEF IsEnds
<1>3. j > 1 => NewestBelow(E[j - 1 - 1], E[j - 1])
  <2>1. SUFFICES ASSUME j > 1 PROVE NewestBelow(E[j - 1 - 1], E[j - 1])
    OBVIOUS
  <2>2. PICK i \in 1..N + 1 : i = j - 1
    BY <2>1, NumberIs
  <2>3. NewestBelow(E[i - 1], E[i])
    BY DEF IsEnds
  <2> QED
    BY <2>2, <2>3
<1> QED
  BY <1>1, <1>2, <1>3 DEF NewestBelow

LEMMA EndsGoBack ==
    ASSUME TailStates, off <= written, NEW E, IsEnds(E), NEW j \in 0..N + 1
    PROVE  E[j] \in 0..off + 1 /\ E[N + 1] <= E[j]
<1>0. PICK n \in Nat : n = N + 1
  BY NumberIs
<1> DEFINE P == {m \in Nat : m <= n => E[n - m] \in 0..off + 1 /\ E[n] <= E[n - m]}
<1>1. 0 \in P
  <2>1. n - 0 = n /\ n \in 0..N + 1
    BY <1>0
  <2>2. E[n] \in 0..off + 1
    BY <2>1 DEF IsEnds
  <2> QED
    BY <2>1, <2>2, NumberIs
<1>2. ASSUME NEW m \in Nat, m \in P PROVE m + 1 \in P
  <2>1. SUFFICES ASSUME m + 1 <= n PROVE E[n - (m + 1)] \in 0..off + 1 /\ E[n] <= E[n - (m + 1)]
    OBVIOUS
  <2>2. PICK i \in 1..N + 1 : i = n - m /\ i - 1 = n - (m + 1)
    BY <1>0, <2>1
  <2>3. E[i] \in 0..off + 1 /\ E[n] <= E[i]
    <3>1. m <= n
      BY <1>0, <2>1
    <3>2. E[n - m] \in 0..off + 1 /\ E[n] <= E[n - m]
      BY <1>2, <3>1
    <3> QED
      BY <2>2, <3>2
  <2>4. E[i - 1] \in 0..off + 1 /\ E[i] <= E[i - 1]
    <3>1. E[i - 1] \in 0..off + 1 /\ E[i] \in 0..off
          /\ (E[i] < E[i - 1] \/ (E[i] = 0 /\ E[i - 1] = 0))
      BY EndIs
    <3> QED
      BY <3>1, NumberIs
  <2>5. n \in 0..N + 1
    BY <1>0
  <2>6. E[n] \in 0..off + 1
    BY <2>5 DEF IsEnds
  <2> QED
    BY <2>2, <2>3, <2>4, <2>6, NumberIs
<1>3. Nat \subseteq P
  <2> HIDE DEF P
  <2> QED
    BY <1>1, <1>2, SetInduction
<1>4. n - j \in Nat /\ n - j <= n /\ n - (n - j) = j
  BY <1>0
<1>5. n - j \in P
  BY <1>3, <1>4
<1> QED
  BY <1>0, <1>4, <1>5

\* So many newlines are behind it.
LEMMA EndsAreCounted ==
    ASSUME TailStates, off <= written, NEW E, IsEnds(E), NEW j \in 1..N + 1
    PROVE  /\ IsFiniteSet(Newlines(off)) /\ Newlines(off) \subseteq 1..off
           /\ Cardinality(High(Newlines(off), E[j])) \in 0..j - 1
           /\ E[j] # 0 => E[j] \in Newlines(off) /\ Cardinality(High(Newlines(off), E[j])) = j - 1
<1>0. PICK S : S = Newlines(off)
  OBVIOUS
<1>1. S \subseteq 1..off /\ S \subseteq Nat /\ IsFiniteSet(S) /\ \A x \in 1..off : x \in S <=> isnl[x]
  <2>1. S \subseteq 1..off /\ \A x \in 1..off : x \in S <=> isnl[x]
    BY <1>0 DEF Newlines
  <2>2. IsFiniteSet(1..off)
    BY NumberIs, FS_Interval
  <2>3. S \subseteq Nat
    BY <2>1, NumberIs
  <2>4. IsFiniteSet(S)
    BY <2>1, <2>2, FS_Subset
  <2> QED
    BY <2>1, <2>3, <2>4
<1> DEFINE H(m) == High(S, E[m])
           Counted(m) == /\ Cardinality(H(m)) \in 0..m - 1
                         /\ E[m] # 0 => E[m] \in S /\ Cardinality(H(m)) = m - 1
           P == {m \in Nat : m + 1 <= N + 1 => Counted(m + 1)}
<1>2. 0 \in P
  <2>1. PICK i \in 1..N + 1 : i = 1 /\ i - 1 = 0
    BY NumberIs
  <2>2. /\ E[i] \in 0..off /\ (E[i] # 0 => isnl[E[i]])
        /\ \A x \in E[i] + 1..E[i - 1] - 1 : ~isnl[x]
    BY EndIs
  <2>3. E[i - 1] = off + 1
    BY <2>1 DEF IsEnds
  <2>4. \A x \in S : x \in 1..off /\ x \notin High(S, E[i])
    <3>1. \A x \in S : x \in 1..off /\ isnl[x]
      BY <1>1
    <3>2. \A x \in S : x <= E[i]
      BY <2>2, <2>3, <3>1, NumberIs
    <3>3. E[i] \in Int
      BY <2>2, NumberIs
    <3>4. \A x \in S : x \in Nat /\ (x \in High(S, E[i]) <=> x > E[i])
      BY <1>1, <3>3, LowOrHigh
    <3> QED
      BY <3>1, <3>2, <3>3, <3>4
  <2>5. High(S, E[i]) = {}
    BY <2>4 DEF High
  <2>6. Cardinality(High(S, E[i])) = 0
    BY <2>5, FS_EmptySet
  <2>7. E[i] # 0 => E[i] \in S
    BY <1>1, <2>2, NumberIs
  <2>8. Counted(i)
    BY <2>1, <2>6, <2>7
  <2> QED
    BY <2>1, <2>8
<1>3. ASSUME NEW m \in Nat, m \in P PROVE m + 1 \in P
  <2>1. SUFFICES ASSUME m + 2 <= N + 1 PROVE Counted(m + 2)
    OBVIOUS
  <2>2. PICK i \in 1..N + 1 : i = m + 2 /\ i - 1 = m + 1 /\ i > 1
    BY <2>1, NumberIs
  <2>3. PICK a, b : a = E[i] /\ b = E[i - 1]
    OBVIOUS
  <2>4. /\ a \in 0..off /\ b \in 0..off /\ (a # 0 => isnl[a]) /\ (b # 0 => isnl[b])
        /\ a < b \/ (a = 0 /\ b = 0)
        /\ \A x \in a + 1..b - 1 : ~isnl[x]
    BY <2>2, <2>3, EndIs
  <2>5. Counted(i - 1)
    <3>1. m + 1 <= N + 1
      BY <2>1, NumberIs
    <3>2. Counted(m + 1)
      BY <1>3, <3>1
    <3> QED
      BY <2>2, <3>2
  <2>6. PICK A, B : A = High(S, a) /\ B = High(S, b)
    OBVIOUS
  <2>7. Cardinality(B) \in 0..m /\ (b # 0 => b \in S /\ Cardinality(B) = m)
    BY <2>2, <2>3, <2>5, <2>6
  <2>8. a \in Int /\ b \in Int
    BY <2>4, NumberIs
  <2>9. CASE b = 0
    BY <2>2, <2>3, <2>4, <2>6, <2>7, <2>9
  <2>10. CASE b # 0
    <3>1. /\ A \subseteq S /\ B \subseteq S
          /\ \A x \in S : x \in Nat /\ (x \in A <=> x > a) /\ (x \in B <=> x > b)
      BY <1>1, <2>6, <2>8, LowOrHigh
    <3>2. \A x \in S : x \in 1..off /\ isnl[x]
      BY <1>1
    <3>3. \A x \in S : x \in A <=> x \in B \/ x = b
      BY <2>4, <2>8, <2>10, <3>1, <3>2
    <3>4. b \notin B /\ b \in S
      BY <2>7, <2>8, <2>10, <3>1
    <3>5. A = B \cup {b}
      BY <3>1, <3>3, <3>4
    <3>6. IsFiniteSet(B)
      BY <1>1, <3>1, FS_Subset
    <3>7. Cardinality(A) = m + 1
      BY <2>7, <2>10, <3>4, <3>5, <3>6, FS_AddElement
    <3>8. a # 0 => a \in S
      BY <1>1, <2>4, NumberIs
    <3>9. Counted(i)
      BY <2>2, <2>3, <2>6, <3>7, <3>8
    <3> QED
      BY <2>2, <3>9
  <2> QED
    BY <2>9, <2>10
<1>4. Nat \subseteq P
  <2> HIDE DEF P
  <2> QED
    BY <1>2, <1>3, SetInduction
<1>5. PICK m \in Nat : m = j - 1 /\ m + 1 = j /\ m + 1 <= N + 1
  BY NumberIs
<1>6. Counted(j)
  BY <1>4, <1>5
<1> QED
  BY <1>0, <1>1, <1>6

\* The tail begins behind the last of them.
LEMMA BeginningIs ==
    ASSUME TailStates, off <= written, FromEnd, Lines, NEW E, IsEnds(E)
    PROVE  Beginning(off) = E[N + 1] + 1
<1>1. PICK n, S, e : n = N + 1 /\ S = Newlines(off) /\ e = E[n] /\ n \in 1..N + 1
  BY NumberIs
<1>2. e \in 0..off /\ e \in Int
  BY <1>1, EndIs, NumberIs
<1>3. /\ IsFiniteSet(S) /\ S \subseteq Nat /\ Cardinality(High(S, e)) \in 0..N
      /\ e # 0 => e \in S /\ Cardinality(High(S, e)) = N
  <2>1. /\ IsFiniteSet(S) /\ S \subseteq 1..off /\ Cardinality(High(S, e)) \in 0..n - 1
        /\ e # 0 => e \in S /\ Cardinality(High(S, e)) = n - 1
    BY <1>1, EndsAreCounted
  <2> QED
    BY <1>1, <2>1, NumberIs
<1>4. Beginning(off) = IF Cardinality(S) <= N THEN 1
                       ELSE 1 + CHOOSE p \in S : Cardinality(High(S, p)) = N
  BY <1>1 DEF Beginning, High
<1>5. CASE e = 0
  <2>1. \A q \in S : q \in 1..off
    BY <1>1 DEF Newlines
  <2>2. High(S, 0) = S
    BY <2>1, NumberIs DEF High
  <2>3. Cardinality(S) \in Nat /\ Cardinality(S) <= N
    BY <1>3, <1>5, <2>2, NumberIs
  <2>4. Beginning(off) = 1
    BY <1>4, <2>3
  <2> QED
    BY <1>1, <1>5, <2>4
<1>6. CASE e # 0
  <2>1. PICK a, b : a = Cardinality(Low(S, e)) /\ b = Cardinality(High(S, e))
    OBVIOUS
  <2>2. a \in Nat /\ b = N /\ Cardinality(S) = a + b /\ IsFiniteSet(Low(S, e)) /\ e \in S
    BY <1>2, <1>3, <1>6, <2>1, SplitCount
  <2>3. a # 0
    <3>0. \A q \in S : q \in Nat /\ (q \in Low(S, e) <=> q <= e)
      BY <1>2, <1>3, LowOrHigh
    <3>1. e \in Low(S, e)
      BY <1>2, <2>2, <3>0
    <3>2. Low(S, e) # {}
      BY <3>1
    <3> QED
      BY <2>1, <2>2, <3>2, FS_EmptySet
  <2>4. ~(Cardinality(S) <= N)
    BY <2>2, <2>3, NumberIs
  <2>5. PICK p : p = CHOOSE x \in S : Cardinality(High(S, x)) = N
    OBVIOUS
  <2>6. p \in S /\ Cardinality(High(S, p)) = N
    BY <1>3, <1>6, <2>5
  <2>7. p = e
    BY <1>3, <1>6, <2>2, <2>6, NthIsOne
  <2>8. Beginning(off) = 1 + e
    BY <1>4, <2>4, <2>5, <2>7
  <2> QED
    BY <1>1, <1>2, <2>8
<1> QED
  BY <1>5, <1>6

\* They are in the buffer: when the memory is enough for the tail, the loop comes to
\* the beginning of the input or does not come to the bottom.
Kept(E) == (partial /\ Bottom = 0) \/ (\A j \in 0..N + 1 : E[j] > Bottom)

LEMMA EndsAreKept ==
    ASSUME TailStates, Filled, FromEnd, Lines, Fits(off), NEW E, IsEnds(E),
           partial /\ off # fill => N * LineSize < fill
    PROVE  Kept(E)
<1>1. off <= written
  BY DEF Filled
<1>2. PICK n, e, m, x : n = N + 1 /\ e = E[n] /\ m = LineSize * N /\ x = Bottom
  OBVIOUS
<1>3. e \in 0..off /\ Beginning(off) = e + 1
  <2>1. n \in 1..N + 1
    BY <1>2, NumberIs
  <2>2. e \in 0..off
    BY <1>1, <1>2, <2>1, EndIs
  <2> QED
    BY <1>1, <1>2, <2>2, BeginningIs
<1>4. m \in Nat /\ m = N * LineSize
  <2>1. LineSize \in Nat
    BY TailAssumption
  <2> QED
    BY <1>2, <2>1, NumberIs
<1>5. off - (e + 1) + 1 < m
  BY <1>2, <1>3 DEF Fits
<1>6. CASE partial /\ off = fill
  BY <1>6, BufferFacts DEF Kept, Bottom
<1>7. CASE ~(partial /\ off = fill)
  <2>1. e > x
    <3>1. CASE partial
      <4>1. x = off - fill /\ m < fill
        BY <1>2, <1>4, <1>7, <3>1 DEF Bottom
      <4> QED
        BY <1>3, <1>4, <1>5, <4>1, BufferFacts
    <3>2. CASE ~partial
      <4>1. x = off - spcsize + 1 /\ m + 1 <= spcsize
        BY <1>2, <3>2 DEF Bottom, Filled, alcmax
      <4> QED
        BY <1>3, <1>4, <1>5, <4>1, BufferFacts
    <3> QED
      BY <3>1, <3>2
  <2>2. ASSUME NEW j \in 0..N + 1 PROVE E[j] > x
    <3>1. E[j] \in 0..off + 1 /\ e <= E[j]
      BY <1>1, <1>2, EndsGoBack
    <3> QED
      BY <1>2, <1>3, <2>1, <3>1, BufferFacts
  <2> QED
    BY <1>2, <2>2 DEF Kept
<1> QED
  BY <1>6, <1>7

\* Two functions that begin with the same and go on alike are one.
LEMMA EqualByTurns ==
    ASSUME NEW n \in Nat, NEW g, NEW h, g[0] = h[0],
           \A k \in 1..n : g[k - 1] = h[k - 1] => g[k] = h[k]
    PROVE  \A k \in 0..n : g[k] = h[k]
<1> DEFINE P == {m \in Nat : m <= n => g[m] = h[m]}
<1>1. 0 \in P
  OBVIOUS
<1>2. ASSUME NEW m \in Nat, m \in P PROVE m + 1 \in P
  <2> SUFFICES ASSUME m + 1 <= n PROVE g[m + 1] = h[m + 1]
    OBVIOUS
  <2>1. PICK k \in 1..n : k = m + 1 /\ k - 1 = m
    OBVIOUS
  <2>2. g[k - 1] = h[k - 1]
    BY <1>2, <2>1
  <2> QED
    BY <2>1, <2>2
<1>3. Nat \subseteq P
  <2> HIDE DEF P
  <2> QED
    BY <1>1, <1>2, SetInduction
<1> QED
  BY <1>3

\* After each turn of the loop k is the place of the newline.
LEMMA LineendsIs ==
    ASSUME TailStates, Filled, NEW E, IsEnds(E), Kept(E)
    PROVE  \A j \in 0..N + 1 : Lineends[j] = Place(E[j])
<1>0. off <= written
  BY DEF Filled
<1>1. PICK n \in Nat : n = N + 1
  BY NumberIs
<1> DEFINE Turn(j, k) == IF k = -1 \/ (j > 1 /\ k = fill) THEN k ELSE Before(k)
           Table(h) == [j \in 0..n |-> IF j = 0 THEN fill ELSE Turn(j, h[j - 1])]
<1>2. ASSUME NEW j \in 1..n PROVE Turn(j, Place(E[j - 1])) = Place(E[j])
  <2>1. PICK e, q : e = E[j - 1] /\ q = E[j]
    OBVIOUS
  <2>2. /\ q \in 0..off /\ e \in 0..off + 1 /\ (q < e \/ (q = 0 /\ e = 0))
        /\ j > 1 => e \in 0..off
        /\ q # 0 => isnl[q]
        /\ \A x \in q + 1..e - 1 : ~isnl[x]
    BY <1>0, <1>1, <2>1, EndIs
  <2>3. (partial /\ Bottom = 0) \/ (e > Bottom /\ q > Bottom)
    BY <1>1, <2>1 DEF Kept
  <2>4. e \in Bottom..off + 1 /\ Bottom \in Int
    BY <2>2, <2>3, BufferFacts
  <2>5. CASE e = Bottom
    <3>1. q = e /\ Place(e) = -1
      BY <2>2, <2>3, <2>4, <2>5, BufferFacts, PlaceIs
    <3> QED
      BY <2>1, <3>1
  <2>6. CASE e # Bottom
    <3>1. e \in Bottom + 1..off + 1 /\ q \in Bottom..e - 1 /\ (q = Bottom \/ isnl[q])
      BY <2>2, <2>3, <2>4, <2>6, BufferFacts
    <3>2. Before(Place(e)) = Place(q)
      BY <2>2, <3>1, BeforeIs
    <3>3. Place(e) # -1 /\ ~(j > 1 /\ Place(e) = fill)
      BY <2>2, <2>4, <2>6, BufferFacts, PlaceIs
    <3> QED
      BY <2>1, <3>2, <3>3
  <2> QED
    BY <2>5, <2>6
<1>3. Place(E[0]) = fill
  <2>1. E[0] = off + 1 /\ off + 1 \in Bottom..off + 1
    BY BufferFacts DEF IsEnds
  <2> QED
    BY <2>1, PlaceIs
<1>4. PICK g : g = [j \in 0..n |-> Place(E[j])]
  OBVIOUS
<1> HIDE DEF Turn
<1>5. g = Table(g)
  <2>1. ASSUME NEW j \in 0..n PROVE g[j] = IF j = 0 THEN fill ELSE Turn(j, g[j - 1])
    <3>1. CASE j = 0
      BY <1>3, <1>4, <3>1
    <3>2. CASE j # 0
      <4>1. j \in 1..n /\ j - 1 \in 0..n
        BY <3>2
      <4> QED
        BY <1>2, <1>4, <3>2, <4>1
    <3> QED
      BY <3>1, <3>2
  <2> QED
    BY <1>4, <2>1
<1>6. PICK h : h = CHOOSE x : x = Table(x)
  OBVIOUS
<1>7. h = Table(h)
  BY <1>5, <1>6
<1>8. Lineends = h
  BY <1>1, <1>6 DEF Lineends, Turn
<1>9. g[0] = h[0]
  BY <1>5, <1>7
<1>10. ASSUME NEW k \in 1..n, g[k - 1] = h[k - 1] PROVE g[k] = h[k]
  <2>1. k \in 0..n /\ k # 0
    OBVIOUS
  <2>2. g[k] = Turn(k, g[k - 1]) /\ h[k] = Turn(k, h[k - 1])
    BY <1>5, <1>7, <2>1
  <2> QED
    BY <1>10, <2>2
<1>11. \A k \in 0..n : g[k] = h[k]
  BY <1>9, <1>10, EqualByTurns
<1> QED
  BY <1>1, <1>4, <1>8, <1>11

-----------------------------------------------------------------------------
(* tail: what is printed of the buffer *)

LEMMA PartIs ==
    ASSUME TailStates, NEW k \in Nat, NEW l \in Nat, k <= l, l <= spcsize, NEW p \in Int,
           \A i \in k..l - 1 : spc(i) = p + i
    PROVE  Part(k, l) = From(p + k, p + l - 1)
<1>1. PICK s : s = Part(k, l)
  OBVIOUS
<1>2. buf \in Seq(0..TailMax) /\ Len(buf) \in Nat
  BY LenProperties DEF TailStates
<1>3. k + 1 \in 1..Len(buf) + 1 /\ l \in (k + 1) - 1..Len(buf)
  BY <1>2 DEF spcsize
<1>4. /\ s \in Seq(0..TailMax) /\ Len(s) = l - k
      /\ \A i \in 1..l - k : s[i] = buf[k + i]
  <2>1. PICK m : m = k + 1 /\ m \in 1..Len(buf) + 1 /\ l \in m - 1..Len(buf) /\ l - m + 1 = l - k
    BY <1>3
  <2>2. s = SubSeq(buf, m, l)
    BY <1>1, <2>1 DEF Part
  <2>3. s \in Seq(0..TailMax) /\ Len(s) = l - m + 1 /\ \A i \in 1..l - m + 1 : s[i] = buf[m + i - 1]
    <3>1. \A i \in m..l : buf[i] \in 0..TailMax
      <4>1. \A i \in m..l : i \in 1..Len(buf)
        BY <1>2, <2>1
      <4> QED
        BY <1>2, <4>1, ElementOfSeq
    <3>2. m \in Int /\ l \in Int
      BY <1>2, <2>1
    <3>3. s \in Seq(0..TailMax) /\ Len(s) = (IF m <= l THEN l - m + 1 ELSE 0) /\ \A i \in 1..l - m + 1 : s[i] = buf[m + i - 1]
      BY <2>2, <3>1, <3>2, SubSeqProperties
    <3> QED
      BY <2>1, <3>2, <3>3
  <2>4. \A i \in 1..l - k : m + i - 1 = k + i
    BY <2>1
  <2> QED
    BY <2>1, <2>3, <2>4
<1>5. ASSUME NEW i \in 1..Len(s) PROVE s[i] = p + k + i - 1
  <2>1. i \in 1..l - k /\ k + i - 1 \in k..l - 1 /\ (k + i - 1) + 1 = k + i
    BY <1>4
  <2>2. spc(k + i - 1) = buf[k + i]
    BY <2>1 DEF spc
  <2>3. spc(k + i - 1) = p + (k + i - 1)
    BY <2>1
  <2> QED
    BY <1>4, <2>1, <2>2, <2>3
<1>6. p + k \in Int /\ p + l - 1 \in Int /\ p + k <= (p + l - 1) + 1 /\ Len(s) = (p + l - 1) - (p + k) + 1
  BY <1>4
<1>7. 0..TailMax \subseteq Int
  BY TailAssumption
<1>8. PICK i2, j2 : i2 = p + k /\ j2 = p + l - 1
  OBVIOUS
<1>9. i2 \in Int /\ j2 \in Int /\ i2 <= j2 + 1 /\ Len(s) = j2 - i2 + 1 /\ \A i \in 1..Len(s) : s[i] = i2 + i - 1
  BY <1>5, <1>6, <1>8
<1>10. s = From(i2, j2)
  BY <1>4, <1>7, <1>9, IsFrom
<1> QED
  BY <1>1, <1>8, <1>10

\* In front of fill, and behind it.
LEMMA NewerPart ==
    ASSUME TailStates, Filled, NEW k \in 0..fill, NEW l \in k..fill
    PROVE  Part(k, l) = From(off - fill + 1 + k, off - fill + l)
<1>1. PICK p : p = off - fill + 1
  OBVIOUS
<1>2. p \in Int /\ k \in Nat /\ l \in Nat /\ k <= l /\ l <= spcsize /\ l <= fill /\ fill \in Nat
  BY <1>1, BufferFacts
<1>3. ASSUME NEW i \in k..l - 1 PROVE spc(i) = p + i
  <2>1. i \in 0..fill - 1
    BY <1>2
  <2>2. spc(i) = Pos(i)
    BY <2>1 DEF Filled
  <2>3. Pos(i) = off - fill + i + 1
    BY <2>1, <1>2 DEF Pos
  <2> QED
    BY <1>1, <2>1, <2>2, <2>3, BufferFacts
<1>4. Part(k, l) = From(p + k, p + l - 1)
  BY <1>2, <1>3, PartIs
<1>5. p + l - 1 = off - fill + l
  BY <1>1, <1>2, BufferFacts
<1> QED
  BY <1>1, <1>4, <1>5

LEMMA OlderPart ==
    ASSUME TailStates, Filled, ~partial, NEW k \in fill..spcsize, NEW l \in k..spcsize
    PROVE  Part(k, l) = From(off - fill - spcsize + 1 + k, off - fill - spcsize + l)
<1>1. PICK p : p = off - fill - spcsize + 1
  OBVIOUS
<1>2. /\ p \in Int /\ k \in Nat /\ l \in Nat /\ k <= l /\ l <= spcsize /\ fill \in Nat /\ fill <= k
      /\ spcsize \in Nat /\ off \in Nat
  BY <1>1, BufferFacts
<1>3. ASSUME NEW i \in k..l - 1 PROVE spc(i) = p + i
  <2>1. i \in fill..spcsize - 1
    BY <1>2
  <2>2. spc(i) = Pos(i)
    BY <2>1 DEF Filled
  <2>3. Pos(i) = off - fill + i + 1 - spcsize
    BY <2>1, <1>2 DEF Pos
  <2> QED
    BY <1>1, <1>2, <2>1, <2>2, <2>3, BufferFacts
<1>4. Part(k, l) = From(p + k, p + l - 1)
  <2>1. PICK a, b : a = k /\ b = l
    OBVIOUS
  <2>2. /\ p \in Int /\ a \in Nat /\ b \in Nat /\ a <= b /\ b <= spcsize
        /\ \A i \in a..b - 1 : spc(i) = p + i
    BY <1>2, <1>3, <2>1
  <2>3. Part(a, b) = From(p + a, p + b - 1)
    BY <2>2, PartIs
  <2> QED
    BY <2>1, <2>3
<1>5. p + l - 1 = off - fill - spcsize + l
  BY <1>1, <1>2
<1> QED
  BY <1>1, <1>4, <1>5

LEMMA RestIs ==
    ASSUME TailStates, Filled, NEW e \in Bottom..off
    PROVE  Rest(Place(e)) = From(e + 1, off)
<1>0. PICK s, f, o, k : s = spcsize /\ f = fill /\ o = off /\ k = Place(e)
  OBVIOUS
<1>1. /\ {s, f, o, e, Bottom} \subseteq Int /\ 0 <= f /\ f < s /\ f <= o /\ Bottom <= e /\ e <= o
      /\ e \in Bottom..off + 1
  BY <1>0, BufferFacts
<1>2. CASE e > o - f \/ partial
  <2>1. partial => Bottom = o - f
    BY <1>0 DEF Bottom
  <2>2. k = e - (o - f) - 1
    BY <1>0, <1>2 DEF Place
  <2>3. k < f /\ k + 1 \in 0..fill /\ fill \in k + 1..fill
    BY <1>0, <1>1, <1>2, <2>1, <2>2
  <2>4. Rest(k) = Part(k + 1, fill)
    BY <1>0, <2>3 DEF Rest
  <2>5. PICK a \in 0..fill : a = k + 1 /\ fill \in a..fill
    BY <2>3
  <2>6. Part(a, fill) = From(off - fill + 1 + a, off - fill + fill)
    BY <2>5, NewerPart
  <2>7. off - fill + 1 + a = e + 1 /\ off - fill + fill = off
    BY <1>0, <1>1, <2>2, <2>5
  <2> QED
    BY <1>0, <2>4, <2>5, <2>6, <2>7
<1>3. CASE ~(e > o - f \/ partial)
  <2>1. ~partial /\ Bottom = o - s + 1 /\ k = e - (o - f) - 1 + s
    BY <1>0, <1>3 DEF Bottom, Place
  <2>2. ~(k < f) /\ k + 1 \in fill..spcsize /\ spcsize \in k + 1..spcsize
    BY <1>0, <1>1, <1>3, <2>1
  <2>3. Rest(k) = Part(k + 1, spcsize) \o Part(0, fill)
    BY <1>0, <2>2 DEF Rest
  <2>4. PICK a \in fill..spcsize : a = k + 1 /\ spcsize \in a..spcsize
    BY <2>2
  <2>5. Part(a, spcsize) = From(off - fill - spcsize + 1 + a, off - fill - spcsize + spcsize)
    BY <2>1, <2>4, OlderPart
  <2>6. 0 \in 0..fill /\ fill \in 0..fill
    BY <1>0, <1>1
  <2>7. Part(0, fill) = From(off - fill + 1 + 0, off - fill + fill)
    BY <2>6, NewerPart
  <2>8. PICK j \in Int : j = o - f /\ e + 1 <= j + 1 /\ j <= o
    BY <1>1, <1>3
  <2>9. /\ off - fill - spcsize + 1 + a = e + 1 /\ off - fill - spcsize + spcsize = j
        /\ off - fill + 1 + 0 = j + 1 /\ off - fill + fill = off
    BY <1>0, <1>1, <2>1, <2>4, <2>8
  <2>10. From(e + 1, j) \o From(j + 1, off) = From(e + 1, off)
    <3>1. e + 1 \in Int /\ off \in Int /\ j <= off
      BY <1>0, <1>1, <2>8
    <3> QED
      BY <2>8, <3>1, FromJoin
  <2> QED
    BY <1>0, <2>3, <2>4, <2>5, <2>7, <2>9, <2>10
<1> QED
  BY <1>2, <1>3

\* What is between two places.
Span(k, l) == IF k < l THEN Part(k + 1, l + 1) ELSE Part(k + 1, spcsize) \o Part(0, l + 1)

LEMMA SpanIs ==
    ASSUME TailStates, Filled, NEW e \in Bottom..off, NEW p \in e + 1..off
    PROVE  Span(Place(e), Place(p)) = From(e + 1, p)
<1>0. PICK s, f, o, k, l : s = spcsize /\ f = fill /\ o = off /\ k = Place(e) /\ l = Place(p)
  OBVIOUS
<1>1. {s, f, o, e, p, Bottom} \subseteq Int /\ 0 <= f /\ f < s /\ f <= o /\ Bottom <= e /\ e < p /\ p <= o
  BY <1>0, BufferFacts
<1>2. CASE e > o - f \/ partial
  <2>1. partial => Bottom = o - f
    BY <1>0 DEF Bottom
  <2>2. k = e - (o - f) - 1 /\ l = p - (o - f) - 1
    BY <1>0, <1>1, <1>2 DEF Place
  <2>3. k < l /\ k + 1 \in 0..fill /\ l + 1 \in k + 1..fill
    BY <1>0, <1>1, <1>2, <2>1, <2>2
  <2>4. Span(k, l) = Part(k + 1, l + 1)
    BY <2>3 DEF Span
  <2>5. PICK a, b : a = k + 1 /\ b = l + 1 /\ a \in 0..fill /\ b \in a..fill
    BY <2>3
  <2>6. Part(a, b) = From(off - fill + 1 + a, off - fill + b)
    BY <2>5, NewerPart
  <2>7. off - fill + 1 + a = e + 1 /\ off - fill + b = p
    BY <1>0, <1>1, <2>2, <2>5
  <2> QED
    BY <1>0, <2>4, <2>5, <2>6, <2>7
<1>3. CASE ~(e > o - f \/ partial) /\ p <= o - f
  <2>1. ~partial /\ Bottom = o - s + 1 /\ k = e - (o - f) - 1 + s /\ l = p - (o - f) - 1 + s
    BY <1>0, <1>1, <1>3 DEF Bottom, Place
  <2>2. k < l /\ k + 1 \in fill..spcsize /\ l + 1 \in k + 1..spcsize
    BY <1>0, <1>1, <1>3, <2>1
  <2>3. Span(k, l) = Part(k + 1, l + 1)
    BY <2>2 DEF Span
  <2>4. PICK a, b : a = k + 1 /\ b = l + 1 /\ a \in fill..spcsize /\ b \in a..spcsize
    BY <2>2
  <2>5. Part(a, b) = From(off - fill - spcsize + 1 + a, off - fill - spcsize + b)
    BY <2>1, <2>4, OlderPart
  <2>6. off - fill - spcsize + 1 + a = e + 1 /\ off - fill - spcsize + b = p
    BY <1>0, <1>1, <2>1, <2>4
  <2> QED
    BY <1>0, <2>3, <2>4, <2>5, <2>6
<1>4. CASE ~(e > o - f \/ partial) /\ p > o - f
  <2>1. ~partial /\ Bottom = o - s + 1 /\ k = e - (o - f) - 1 + s /\ l = p - (o - f) - 1
    BY <1>0, <1>4 DEF Bottom, Place
  <2>2. ~(k < l) /\ k + 1 \in fill..spcsize /\ l + 1 \in 0..fill
    BY <1>0, <1>1, <1>4, <2>1
  <2>3. Span(k, l) = Part(k + 1, spcsize) \o Part(0, l + 1)
    BY <1>0, <2>2 DEF Span
  <2>4. PICK a \in fill..spcsize, b \in 0..fill : a = k + 1 /\ b = l + 1 /\ spcsize \in a..spcsize /\ 0 \in 0..fill
    BY <1>0, <1>1, <2>2
  <2>5. Part(a, spcsize) = From(off - fill - spcsize + 1 + a, off - fill - spcsize + spcsize)
    BY <2>1, <2>4, OlderPart
  <2>6. Part(0, b) = From(off - fill + 1 + 0, off - fill + b)
    BY <2>4, NewerPart
  <2>7. PICK j \in Int : j = o - f /\ e + 1 <= j + 1 /\ j <= p
    BY <1>1, <1>4
  <2>8. /\ off - fill - spcsize + 1 + a = e + 1 /\ off - fill - spcsize + spcsize = j
        /\ off - fill + 1 + 0 = j + 1 /\ off - fill + b = p
    BY <1>0, <1>1, <2>1, <2>4, <2>7
  <2>9. From(e + 1, j) \o From(j + 1, p) = From(e + 1, p)
    <3>1. e + 1 \in Int /\ p \in Int
      BY <1>1
    <3> QED
      BY <2>7, <3>1, FromJoin
  <2> QED
    BY <1>0, <2>3, <2>4, <2>5, <2>6, <2>8, <2>9
<1>5. (e > o - f \/ partial) \/ p <= o - f \/ p > o - f
  BY <1>1
<1> QED
  BY <1>2, <1>3, <1>4, <1>5

\* The lines of the tail.
LEMMA LinesAreShown ==
    ASSUME TailStates, Filled, FromEnd, Lines, Fits(off),
           partial /\ off # fill => N * LineSize < fill
    PROVE  Beginning(off) \in 1..off + 1 /\ Rest(StartOfLines) = From(Beginning(off), off)
<1>1. off <= written
  BY DEF Filled
<1>2. PICK E : IsEnds(E)
  BY <1>1, EndsExist
<1>3. Kept(E)
  BY <1>2, EndsAreKept
<1>4. PICK e, n : n = N + 1 /\ e = E[n] /\ n \in 1..N + 1 /\ n \in 0..N + 1
  BY NumberIs
<1>5. Lineends[N + 1] = Place(e) /\ Beginning(off) = e + 1
  BY <1>1, <1>2, <1>3, <1>4, LineendsIs, BeginningIs
<1>6. e \in 0..off
  BY <1>1, <1>2, <1>4, EndIs
<1>7. (partial /\ Bottom = 0) \/ e > Bottom
  BY <1>3, <1>4 DEF Kept
<1>8. e \in Bottom..off /\ e \in Bottom..off + 1 /\ Place(e) # fill
  <2>1. e \in Bottom..off /\ e \in Bottom..off + 1 /\ e # off + 1 /\ (~partial => e # Bottom)
    BY <1>6, <1>7, BufferFacts
  <2> QED
    BY <2>1, PlaceIs
<1>9. StartOfLines = Place(e)
  BY <1>5, <1>8 DEF StartOfLines
<1>10. e + 1 \in 1..off + 1
  BY <1>6, NumberIs
<1> QED
  BY <1>5, <1>8, <1>9, <1>10, RestIs

\* The characters.
LEMMA CharsAreShown ==
    ASSUME TailStates, Filled, FromEnd, ~Lines
    PROVE  Beginning(off) \in 1..off + 1 /\ Rest(StartOfChars) = From(Beginning(off), off)
<1>0. PICK s, f, o, n : s = spcsize /\ f = fill /\ o = off /\ n = N
  OBVIOUS
<1>1. {s, f, o, n} \subseteq Int /\ 0 <= f /\ f < s /\ f <= o /\ 0 <= n
  BY <1>0, BufferFacts, NumberIs
<1>2. PICK e : e = IF n <= o THEN o - n ELSE 0
  OBVIOUS
<1>3. Beginning(off) = e + 1
  <2>1. Beginning(off) = Max({o - n + 1, 1})
    BY <1>0 DEF Beginning
  <2>2. Max({o - n + 1, 1}) = e + 1
    <3>1. {o - n + 1, 1} \subseteq Int /\ e + 1 \in {o - n + 1, 1} /\ \A y \in {o - n + 1, 1} : y <= e + 1
      BY <1>1, <1>2
    <3> QED
      BY <3>1, MaxIs
  <2> QED
    BY <2>1, <2>2
<1>4. ASSUME partial \/ n # f PROVE e \in Bottom..off /\ StartOfChars = Place(e)
  <2>1. CASE partial
    <3>1. o = f /\ Bottom = o - f /\ Place(e) = e - (o - f) - 1
          /\ StartOfChars = (IF n <= f THEN f - n ELSE 0) - 1
      BY <1>0, <2>1 DEF Filled, Bottom, Place, StartOfChars
    <3> QED
      BY <1>0, <1>1, <1>2, <3>1
  <2>2. CASE ~partial
    <3>2. s <= o /\ n + 1 <= s
      BY <1>0, <2>2 DEF Filled, alcmax
    <3>1. /\ s <= o /\ n + 1 <= s /\ Bottom = o - s + 1
          /\ Place(e) = IF e > o - f THEN e - (o - f) - 1 ELSE e - (o - f) - 1 + s
          /\ StartOfChars = (IF n <= f THEN f - n ELSE IF n >= s THEN f + 1 ELSE f - n + s) - 1
      <4>1. Bottom = o - s + 1
        BY <1>0, <2>2 DEF Bottom
      <4>2. Place(e) = IF e > o - f THEN e - (o - f) - 1 ELSE e - (o - f) - 1 + s
        BY <1>0, <2>2 DEF Place
      <4>3. StartOfChars = (IF n <= f THEN f - n ELSE IF n >= s THEN f + 1 ELSE f - n + s) - 1
        BY <1>0, <2>2 DEF StartOfChars
      <4> QED
        BY <3>2, <4>1, <4>2, <4>3
    <3> QED
      BY <1>0, <1>1, <1>2, <1>4, <2>2, <3>1
  <2> QED
    BY <2>1, <2>2
<1>7. e + 1 \in 1..off + 1
  BY <1>0, <1>1, <1>2
<1>5. CASE partial \/ n # f
  BY <1>3, <1>4, <1>5, <1>7, RestIs
<1>6. CASE ~(partial \/ n # f)
  \* The place is -1 here, too.
  <2>1. n = f /\ e = o - f
    BY <1>1, <1>2, <1>6
  <2>2. StartOfChars = -1
    BY <1>0, <1>1, <2>1 DEF StartOfChars
  <2>3. Rest(-1) = Part(0, fill)
    BY <1>0, <1>1 DEF Rest
  <2>4. 0 \in 0..fill /\ fill \in 0..fill
    BY <1>0, <1>1
  <2>5. Part(0, fill) = From(off - fill + 1 + 0, off - fill + fill)
    BY <2>4, NewerPart
  <2>6. off - fill + 1 + 0 = e + 1 /\ off - fill + fill = off
    BY <1>0, <1>1, <2>1
  <2> QED
    BY <1>3, <1>7, <2>2, <2>3, <2>5, <2>6
<1> QED
  BY <1>5, <1>6

-----------------------------------------------------------------------------
(* tail -r: the lines of the tail, last first *)

\* The j-th line from the end, what follows the last newline being the first.
LineFromEnd(E, j) ==
    IF j = 1 /\ isnl[off] THEN <<>> ELSE From(E[j] + 1, IF j = 1 THEN off ELSE E[j - 1])
IsText(T, E) ==
    /\ T \in [0..N + 1 -> Seq(Int)]
    /\ T[0] = <<>>
    /\ \A j \in 1..N + 1 : T[j] = T[j - 1] \o LineFromEnd(E, j)

LEMMA LineFromEndType ==
    ASSUME TailStates, off <= written, NEW E, IsEnds(E), NEW j \in 1..N + 1
    PROVE  LineFromEnd(E, j) \in Seq(Int)
<1>1. PICK i, p : i = E[j] + 1 /\ p = IF j = 1 THEN off ELSE E[j - 1]
  OBVIOUS
<1>2. i \in Int /\ p \in Int
  BY <1>1, EndIs, NumberIs
<1>3. From(i, p) \in Seq(Int)
  BY <1>2, FromFacts
<1> QED
  BY <1>1, <1>3, EmptySeq DEF LineFromEnd

LEMMA TextExists ==
    ASSUME TailStates, off <= written, NEW E, IsEnds(E)
    PROVE  \E T : IsText(T, E)
<1>1. PICK n, X : n = N + 1 /\ n \in Nat /\ X = Seq(Int) /\ <<>> \in X
  <2>1. <<>> \in Seq(Int)
    BY EmptySeq
  <2>2. N + 1 \in Nat
    BY NumberIs
  <2> QED
    BY <2>1, <2>2
<1>2. PICK F : F = [jt \in (1..n) \X X |-> jt[2] \o LineFromEnd(E, jt[1])]
  OBVIOUS
<1>3. ASSUME NEW j \in 1..n, NEW t \in X PROVE t \o LineFromEnd(E, j) \in X
  BY <1>1, LineFromEndType, ConcatProperties
<1>4. StepFunction(F, n, X)
  BY <1>2, <1>3 DEF StepFunction
<1>5. PICK T : Unrolled(T, F, n, X, <<>>)
  BY <1>1, <1>4, RecursionExists
<1>6. T \in [0..n -> X] /\ T[0] = <<>> /\ \A j \in 1..n : T[j] = F[<<j, T[j - 1]>>]
  BY <1>5 DEF Unrolled
<1>7. ASSUME NEW j \in 1..n PROVE T[j] = T[j - 1] \o LineFromEnd(E, j)
  <2>1. j - 1 \in 0..n
    BY <1>1
  <2>2. T[j - 1] \in X
    BY <1>6, <2>1
  <2> QED
    BY <1>2, <1>6, <2>2
<1>8. IsText(T, E)
  BY <1>1, <1>6, <1>7 DEF IsText
<1> QED
  BY <1>8

LEMMA PlacesDiffer ==
    ASSUME TailStates, Filled, NEW e \in Bottom..off, NEW p \in Bottom..off, e < p
    PROVE  Place(e) # Place(p)
<1>0. PICK s, f, o : s = spcsize /\ f = fill /\ o = off
  OBVIOUS
<1>1. {s, f, o, e, p, Bottom} \subseteq Int /\ 0 <= f /\ f < s /\ f <= o /\ Bottom <= e /\ e < p /\ p <= o
  BY <1>0, BufferFacts
<1>2. CASE partial
  <2>1. Place(e) = e - (o - f) - 1 /\ Place(p) = p - (o - f) - 1
    BY <1>0, <1>2 DEF Place
  <2> QED
    BY <1>1, <2>1
<1>3. CASE ~partial
  <2>1. /\ Place(e) = IF e > o - f THEN e - (o - f) - 1 ELSE e - (o - f) - 1 + s
        /\ Place(p) = IF p > o - f THEN p - (o - f) - 1 ELSE p - (o - f) - 1 + s
    BY <1>0, <1>3 DEF Place
  <2>2. Bottom = o - s + 1
    BY <1>0, <1>3 DEF Bottom
  <2> QED
    BY <1>1, <2>1, <2>2
<1> QED
  BY <1>2, <1>3

\* Whether the last character is a newline.
LEMMA IncompleteIs ==
    ASSUME TailStates, Filled, off # 0, partial /\ off # fill => fill # 0
    PROVE  Incomplete = {~isnl[off]}
<1>0. PICK s, f, o, k : s = spcsize /\ f = fill /\ o = off /\ k = IF fill = 0 THEN spcsize - 1 ELSE fill - 1
  OBVIOUS
<1>1. /\ {s, f, o, Bottom} \subseteq Int /\ 0 <= f /\ f < s /\ f <= o /\ Bottom <= o /\ o # 0
      /\ off \in Bottom..off + 1 /\ off <= off
  BY <1>0, BufferFacts
<1>2. k = Place(off) /\ (~partial \/ off > Bottom)
  <2>1. CASE partial
    <3>1. Bottom = o - f /\ Place(off) = o - (o - f) - 1 /\ f # 0
      BY <1>0, <1>1, <2>1 DEF Bottom, Place
    <3> QED
      BY <1>0, <1>1, <3>1
  <2>2. CASE ~partial
    <3>1. Place(off) = IF o > o - f THEN o - (o - f) - 1 ELSE o - (o - f) - 1 + s
      BY <1>0, <2>2 DEF Place
    <3> QED
      BY <1>0, <1>1, <2>2, <3>1
  <2> QED
    BY <2>1, <2>2
<1>3. spc(k) = off
  BY <1>1, <1>2, PlaceIs
<1> QED
  BY <1>0, <1>1, <1>3 DEF Incomplete

LEMMA ReversedIs ==
    ASSUME TailStates, Filled, off # 0, NEW E, IsEnds(E), Kept(E), NEW T, IsText(T, E)
    PROVE  Reversed(~isnl[off]) = T[N + 1]
<1>0. off <= written /\ off \in 1..TailMax /\ isnl[off] \in BOOLEAN
  BY BufferFacts DEF Filled
<1>1. PICK n, k : n = N + 1 /\ n \in Nat /\ k = Lineends
  BY NumberIs
<1>2. \A j \in 0..n : k[j] = Place(E[j])
  BY <1>1, LineendsIs
<1> DEFINE b == ~isnl[off]
           less(j) == IF b /\ j = 1 THEN 1 ELSE 0
           line(j) ==
            IF k[j] = k[j - 1] /\ (j > 1 \/ k[j] = -1) THEN <<>>
            ELSE IF j = 1 /\ ~b /\ k[1] # -1 THEN <<>>
            ELSE IF k[j] < k[j - 1] THEN Part(k[j] + 1, k[j - 1] + 1 - less(j))
            ELSE Part(k[j] + 1, spcsize) \o Part(0, k[j - 1] + 1 - less(j))
           Table(h) == [j \in 0..n |-> IF j = 0 THEN <<>> ELSE h[j - 1] \o line(j)]
<1>3. ASSUME NEW j \in 1..n PROVE line(j) = LineFromEnd(E, j)
  <2>1. PICK e, p : e = E[j] /\ p = E[j - 1]
    OBVIOUS
  <2>2. /\ j - 1 \in 0..n /\ j \in 0..n
        /\ e \in 0..off /\ p \in 0..off + 1 /\ (e < p \/ (e = 0 /\ p = 0))
        /\ j > 1 => p \in 0..off
        /\ \A x \in e + 1..p - 1 : ~isnl[x]
    BY <1>0, <1>1, <2>1, EndIs
  <2>3. k[j] = Place(e) /\ k[j - 1] = Place(p)
    BY <1>2, <2>1, <2>2
  <2>4. (partial /\ Bottom = 0) \/ (e > Bottom /\ p > Bottom)
    BY <1>1, <2>1, <2>2 DEF Kept
  <2>5. e \in Bottom..off /\ e \in Bottom..off + 1 /\ p \in Bottom..off + 1 /\ Bottom \in Int
    BY <2>2, <2>4, BufferFacts
  <2>6. CASE j = 1 /\ isnl[off]
    <3>1. p = off + 1
      BY <2>1, <2>6 DEF IsEnds
    <3>2. e = off
      BY <1>0, <2>2, <2>6, <3>1, BufferFacts
    <3>3. k[j] # -1
      BY <1>0, <2>3, <2>4, <2>5, <3>2, BufferFacts, PlaceIs
    <3>4. line(j) = <<>>
      BY <2>6, <3>3
    <3> QED
      BY <2>6, <3>4 DEF LineFromEnd
  <2>7. CASE j = 1 /\ ~isnl[off]
    <3>1. p = off + 1
      BY <2>1, <2>7 DEF IsEnds
    <3>2. k[j - 1] = fill
      BY <2>3, <2>5, <3>1, PlaceIs
    <3>3. fill \in Nat /\ fill + 1 - 1 = fill
      BY BufferFacts
    <3>4. line(j) = IF k[j] < fill THEN Part(k[j] + 1, fill)
                    ELSE Part(k[j] + 1, spcsize) \o Part(0, fill)
      <4>1. less(j) = 1 /\ b
        BY <2>7
      <4>2. ~(k[j] = k[j - 1] /\ (j > 1 \/ k[j] = -1))
        BY <2>7, <3>2, <3>3
      <4> QED
        BY <3>2, <3>3, <4>1, <4>2
    <3>5. line(j) = Rest(Place(e))
      BY <2>3, <3>4 DEF Rest
    <3>6. line(j) = From(e + 1, off)
      BY <2>5, <3>5, RestIs
    <3> QED
      BY <2>1, <2>7, <3>6 DEF LineFromEnd
  <2>8. CASE j # 1 /\ e = p
    <3>1. j > 1 /\ e = 0 /\ p = 0
      BY <1>1, <2>2, <2>8
    <3>2. line(j) = <<>>
      BY <2>3, <2>8, <3>1
    <3>3. From(0 + 1, 0) = <<>>
      BY FromEmpty
    <3> QED
      BY <2>1, <2>8, <3>1, <3>2, <3>3 DEF LineFromEnd
  <2>9. CASE j # 1 /\ e # p
    <3>1. j > 1 /\ e < p /\ p \in e + 1..off /\ p \in Bottom..off
      BY <1>1, <2>2, <2>5, <2>9, BufferFacts
    <3>2. Place(e) # Place(p)
      BY <2>5, <3>1, PlacesDiffer
    <3>3. less(j) = 0 /\ k[j - 1] + 1 - 0 = k[j - 1] + 1
      <4>1. k[j - 1] \in Int
        BY <2>3, <2>5, BufferFacts, PlaceIs
      <4> QED
        BY <2>9, <4>1
    <3>4. line(j) = Span(k[j], k[j - 1])
      BY <2>3, <2>9, <3>2, <3>3 DEF Span
    <3>5. line(j) = From(e + 1, p)
      BY <2>3, <2>5, <3>1, <3>4, SpanIs
    <3> QED
      BY <2>1, <2>9, <3>5 DEF LineFromEnd
  <2> QED
    BY <1>0, <2>6, <2>7, <2>8, <2>9
<1>4. Reversed(b) = (CHOOSE x : x = Table(x))[n]
  BY <1>1 DEF Reversed
<1> HIDE DEF line
<1>5. T = Table(T)
  <2>1. ASSUME NEW j \in 0..n PROVE T[j] = IF j = 0 THEN <<>> ELSE T[j - 1] \o line(j)
    <3>1. CASE j = 0
      BY <3>1 DEF IsText
    <3>2. CASE j # 0
      <4>1. j \in 1..n
        BY <3>2
      <4> QED
        BY <1>1, <1>3, <3>2, <4>1 DEF IsText
    <3> QED
      BY <3>1, <3>2
  <2>2. T = [j \in 0..n |-> T[j]]
    BY <1>1 DEF IsText
  <2> QED
    BY <2>1, <2>2
<1>6. PICK h : h = CHOOSE x : x = Table(x)
  OBVIOUS
<1>7. h = Table(h)
  BY <1>5, <1>6
<1>8. T[0] = h[0]
  <2>1. 0 \in 0..n
    BY <1>1
  <2>2. h[0] = <<>>
    BY <1>7, <2>1
  <2> QED
    BY <2>2 DEF IsText
<1>9. ASSUME NEW j \in 1..n, T[j - 1] = h[j - 1] PROVE T[j] = h[j]
  <2>1. j \in 0..n /\ j # 0
    OBVIOUS
  <2>2. T[j] = T[j - 1] \o line(j) /\ h[j] = h[j - 1] \o line(j)
    BY <1>5, <1>7, <2>1
  <2> QED
    BY <1>9, <2>2
<1>10. \A j \in 0..n : T[j] = h[j]
  BY <1>1, <1>8, <1>9, EqualByTurns
<1>11. T[n] = h[n]
  BY <1>1, <1>10
<1>12. Reversed(b) = h[n]
  BY <1>4, <1>6
<1> QED
  BY <1>1, <1>11, <1>12

LEMMA StartIs ==
    ASSUME TailStates, off <= written, NEW e \in Int, NEW p \in 0..off, NEW a \in Int,
           0 <= e, e < p, e # 0 => isnl[e], \A x \in e + 1..p - 1 : ~isnl[x],
           a <= e + 1, e = 0 => a = 1
    PROVE  Max({a} \cup {q + 1 : q \in Newlines(p - 1)}) = e + 1
<1>1. PICK S : S = {a} \cup {q + 1 : q \in Newlines(p - 1)}
  OBVIOUS
<1>2. \A q \in Newlines(p - 1) : q \in Int /\ q + 1 <= e + 1
  <2>1. \A q \in Newlines(p - 1) : q \in 1..p - 1 /\ isnl[q]
    BY DEF Newlines
  <2> QED
    BY <2>1, NumberIs
<1>3. S \subseteq Int /\ \A y \in S : y <= e + 1
  BY <1>1, <1>2
<1>4. e + 1 \in S
  <2>1. CASE e = 0
    BY <1>1, <2>1
  <2>2. CASE e # 0
    <3>1. e \in 1..p - 1 /\ isnl[e]
      BY <2>2, NumberIs
    <3>2. e \in Newlines(p - 1)
      BY <3>1 DEF Newlines
    <3> QED
      BY <1>1, <3>2
  <2> QED
    BY <2>1, <2>2
<1>5. Max(S) = e + 1
  BY <1>3, <1>4, MaxIs
<1> QED
  BY <1>1, <1>5

LEMMA BackwardIs ==
    ASSUME TailStates, off <= written, FromEnd, Lines, off # 0, N # 0,
           NEW E, IsEnds(E), NEW T, IsText(T, E)
    PROVE  Backward(off) = T[N + 1]
<1>0. off \in 1..TailMax /\ isnl[off] \in BOOLEAN
  BY NumberIs
<1>1. PICK n, a, s : /\ n = N + 1 /\ n \in Nat /\ n > 1 /\ a = Beginning(off)
                     /\ s = IF isnl[off] THEN 1 ELSE 0
  BY NumberIs
<1>2. a = E[n] + 1 /\ E[n] \in 0..off
  <2>1. n \in 1..N + 1
    BY <1>1
  <2>2. E[n] \in 0..off
    BY <2>1, EndIs
  <2> QED
    BY <1>1, <2>2, BeginningIs
<1> DEFINE start(e) == Max({a} \cup {q + 1 : q \in Newlines(e - 1)})
           Turn(x) == IF x.left < a THEN x
                      ELSE [left |-> start(x.left) - 1,
                            text |-> x.text \o From(start(x.left), x.left)]
           Table(h) == [j \in 0..n |-> IF j = 0 THEN [left |-> off, text |-> <<>>] ELSE Turn(h[j - 1])]
           at(j) == IF j + s <= n THEN j + s ELSE n
           left(j) == IF j + s = 0 THEN off ELSE E[at(j)]
\* The loop is one line behind when the input ends in a newline.
<1>3. PICK g : g = [j \in 0..n |-> [left |-> left(j), text |-> T[at(j)]]]
  OBVIOUS
<1>4. ASSUME NEW j \in 1..n
      PROVE  Turn([left |-> left(j - 1), text |-> T[at(j - 1)]]) = [left |-> left(j), text |-> T[at(j)]]
  <2>1. CASE j - 1 + s >= n
    <3>1. at(j - 1) = n /\ at(j) = n /\ left(j - 1) = E[n] /\ left(j) = E[n]
      BY <1>1, <2>1
    <3>2. E[n] < a
      BY <1>2, NumberIs
    <3> QED
      BY <3>1, <3>2
  <2>2. CASE ~(j - 1 + s >= n)
    <3>1. PICK i \in 1..n : i = j + s /\ i - 1 = j - 1 + s /\ i \in 1..N + 1
      BY <1>1, <2>2
    <3>2. at(j) = i /\ at(j - 1) = i - 1 /\ left(j) = E[i]
      BY <1>1, <3>1
    <3>3. PICK e, p, t : e = E[i] /\ p = left(j - 1) /\ t = T[i - 1]
      OBVIOUS
    <3>4. /\ e \in 0..off /\ p \in 0..off /\ (e < p \/ (e = 0 /\ p = 0))
          /\ (e # 0 => isnl[e]) /\ (\A x \in e + 1..p - 1 : ~isnl[x])
          /\ p = (IF i = 1 THEN off ELSE E[i - 1])
      <4>1. /\ E[i] \in 0..off
            /\ E[i] < E[i - 1] \/ (E[i] = 0 /\ E[i - 1] = 0)
            /\ i > 1 => E[i - 1] \in 0..off
            /\ E[i] # 0 => isnl[E[i]]
            /\ \A x \in E[i] + 1..E[i - 1] - 1 : ~isnl[x]
        BY <3>1, EndIs
      <4>2. CASE i = 1
        <5>1. s = 0 /\ j = 1 /\ ~isnl[off] /\ p = off
          BY <1>1, <3>1, <3>3, <4>2
        <5>2. E[i - 1] = off + 1
          BY <4>2 DEF IsEnds
        <5>3. e # off
          BY <1>0, <3>3, <4>1, <5>1
        <5> QED
          BY <3>3, <4>1, <4>2, <5>1, <5>2, <5>3, NumberIs
      <4>3. CASE i # 1
        <5>1. p = E[i - 1] /\ i > 1
          <6>1. j - 1 + s # 0
            BY <3>1, <4>3
          <6> QED
            BY <3>1, <3>2, <3>3, <4>3, <6>1
        <5> QED
          BY <3>3, <4>1, <4>3, <5>1
      <4> QED
        BY <4>2, <4>3
    <3>5. E[n] <= e
      <4>1. i \in 0..N + 1
        BY <3>1
      <4> QED
        BY <1>1, <3>3, <4>1, EndsGoBack
    <3>6. T[i] = t \o From(e + 1, p) /\ t \in Seq(Int)
      <4>1. i - 1 \in 0..N + 1
        BY <1>1, <3>1, NumberIs
      <4>2. T[i] = t \o LineFromEnd(E, i) /\ t \in Seq(Int)
        BY <3>1, <3>3, <4>1 DEF IsText
      <4>3. ~(i = 1 /\ isnl[off])
        BY <1>1, <3>1
      <4> QED
        BY <3>3, <3>4, <4>2, <4>3 DEF LineFromEnd
    <3>7. PICK x : x = [left |-> p, text |-> t]
      OBVIOUS
    <3>8. x.left = p /\ x.text = t
      BY <3>7
    <3>9. Turn(x) = [left |-> e, text |-> T[i]]
      <4>1. CASE p < a
        <5>1. e = 0 /\ p = 0
          BY <1>2, <3>4, <3>5, <4>1, NumberIs
        <5>2. From(0 + 1, 0) = <<>>
          BY FromEmpty
        <5>3. T[i] = t
          BY <3>6, <5>1, <5>2, ConcatEmptySeq
        <5> QED
          BY <3>7, <3>8, <4>1, <5>1, <5>3
      <4>2. CASE ~(p < a)
        <5>1. e < p /\ a <= e + 1 /\ a \in Int /\ (e = 0 => a = 1)
          BY <1>2, <3>4, <3>5, <4>2, NumberIs
        <5>2. start(p) = e + 1
          BY <3>4, <5>1, StartIs
        <5>3. e + 1 - 1 = e
          BY <3>4, NumberIs
        <5>4. PICK m, u : m = start(p) /\ u = m - 1
          OBVIOUS
        <5>7. m = e + 1
          BY <5>2, <5>4, Zenon
        <5>5. m = e + 1 /\ u = e
          <6> HIDE DEF start, Turn
          <6>1. u = m - 1
            BY <5>4
          <6>2. e \in Int
            BY <3>4, NumberIs
          <6> QED
            BY <5>7, <6>1, <6>2
        <5>6. Turn(x) = [left |-> u, text |-> t \o From(m, p)]
          BY <3>8, <4>2, <5>4, Zenon
        <5> HIDE DEF start, Turn
        <5> QED
          BY <3>6, <5>5, <5>6
      <4> QED
        BY <4>1, <4>2
    <3> QED
      BY <3>2, <3>3, <3>7, <3>9
  <2> QED
    BY <2>1, <2>2
<1>5. Backward(off) = (CHOOSE x : x = Table(x))[n].text
  BY <1>1 DEF Backward
<1> HIDE DEF Turn
<1>6. g[0] = [left |-> off, text |-> <<>>]
  <2>1. 0 \in 0..n
    BY <1>1
  <2>2. CASE isnl[off]
    <3>1. PICK i \in 1..N + 1 : i = 1 /\ i - 1 = 0
      BY <1>1
    <3>2. s = 1 /\ at(0) = i /\ left(0) = E[i]
      BY <1>1, <2>2, <3>1
    <3>3. E[i] \in 0..off /\ \A x \in E[i] + 1..E[i - 1] - 1 : ~isnl[x]
      BY EndIs
    <3>4. E[i - 1] = off + 1
      BY <3>1 DEF IsEnds
    <3>5. E[i] = off
      BY <1>0, <2>2, <3>3, <3>4, NumberIs
    <3>6. T[i] = <<>>
      <4>1. T[i] = T[i - 1] \o LineFromEnd(E, i) /\ T[i - 1] = <<>>
        BY <3>1 DEF IsText
      <4>2. LineFromEnd(E, i) = <<>>
        BY <2>2, <3>1 DEF LineFromEnd
      <4>3. <<>> \in Seq(Int)
        BY EmptySeq
      <4> QED
        BY <4>1, <4>2, <4>3, ConcatEmptySeq
    <3> QED
      BY <1>3, <2>1, <3>2, <3>5, <3>6
  <2>3. CASE ~isnl[off]
    <3>1. s = 0 /\ at(0) = 0 /\ left(0) = off
      BY <1>1, <2>3
    <3>2. T[0] = <<>>
      BY DEF IsText
    <3> QED
      BY <1>3, <2>1, <3>1, <3>2
  <2> QED
    BY <2>2, <2>3
<1>7. ASSUME NEW j \in 1..n PROVE g[j] = Turn(g[j - 1])
  <2>1. j \in 0..n /\ j - 1 \in 0..n
    BY <1>1
  <2> HIDE DEF left, at
  <2>2. g[j] = [left |-> left(j), text |-> T[at(j)]] /\ g[j - 1] = [left |-> left(j - 1), text |-> T[at(j - 1)]]
    BY <1>3, <2>1
  <2> QED
    BY <1>4, <2>2
<1>8. g = Table(g)
  <2>1. ASSUME NEW j \in 0..n
        PROVE  g[j] = IF j = 0 THEN [left |-> off, text |-> <<>>] ELSE Turn(g[j - 1])
    <3>1. CASE j = 0
      BY <1>6, <3>1
    <3>2. CASE j # 0
      <4>1. j \in 1..n
        BY <3>2
      <4> QED
        BY <1>7, <3>2, <4>1
    <3> QED
      BY <3>1, <3>2
  <2>2. g = [j \in 0..n |-> g[j]]
    BY <1>3
  <2> QED
    BY <2>1, <2>2
<1>9. PICK h : h = CHOOSE x : x = Table(x)
  OBVIOUS
<1>10. h = Table(h)
  BY <1>8, <1>9
<1>11. g[0] = h[0]
  <2>1. 0 \in 0..n
    BY <1>1
  <2> QED
    BY <1>6, <1>10, <2>1
<1>12. ASSUME NEW j \in 1..n, g[j - 1] = h[j - 1] PROVE g[j] = h[j]
  <2>1. j \in 0..n /\ j # 0
    OBVIOUS
  <2>2. g[j] = Turn(g[j - 1]) /\ h[j] = Turn(h[j - 1])
    BY <1>7, <1>10, <2>1
  <2> QED
    BY <1>12, <2>2
<1>13. \A j \in 0..n : g[j] = h[j]
  BY <1>1, <1>11, <1>12, EqualByTurns
<1>14. n \in 0..n /\ at(n) = n
  BY <1>1
<1>15. g[n].text = T[n]
  BY <1>3, <1>14
<1> QED
  BY <1>1, <1>5, <1>9, <1>13, <1>14, <1>15

LEMMA ReversedIsBackward ==
    ASSUME TailStates, Filled, FromEnd, Lines, N # 0, off # 0, Fits(off),
           partial /\ off # fill => N * LineSize < fill, NEW b \in Incomplete
    PROVE  Reversed(b) = Backward(off)
<1>1. off <= written
  BY DEF Filled
<1>2. PICK E : IsEnds(E)
  BY <1>1, EndsExist
<1>3. Kept(E)
  BY <1>2, EndsAreKept
<1>4. PICK T : IsText(T, E)
  BY <1>1, <1>2, TextExists
<1>5. Reversed(~isnl[off]) = T[N + 1] /\ Backward(off) = T[N + 1]
  BY <1>1, <1>2, <1>3, <1>4, ReversedIs, BackwardIs
<1>6. b = ~isnl[off]
  <2>1. partial /\ off # fill => fill # 0
    <3>1. N * LineSize \in Nat
      BY TailAssumption, NumberIs
    <3> QED
      BY <3>1, BufferFacts
  <2> QED
    BY <2>1, IncompleteIs
<1> QED
  BY <1>5, <1>6

-----------------------------------------------------------------------------
(* tail: every step preserves the invariant *)

\* The input and the options do not change, nor does what a tail of them is.
LEMMA SameTail ==
    ASSUME UNCHANGED tailFixed
    PROVE  /\ isnl' = isnl /\ tailopt' = tailopt /\ st_size' = st_size /\ N' = N
           /\ (FromEnd' <=> FromEnd) /\ (Lines' <=> Lines) /\ (Regular' <=> Regular)
           /\ (Nothing' <=> Nothing)
           /\ \A len : Units(len)' = Units(len)
           /\ \A len : Beginning(len)' = Beginning(len)
           /\ \A len : Fits(len)' <=> Fits(len)
           /\ \A len : Backward(len)' = Backward(len)
<1>1. isnl' = isnl /\ tailopt' = tailopt /\ st_size' = st_size
  BY DEF tailFixed
<1>2. /\ N' = N /\ (FromEnd' <=> FromEnd) /\ (Lines' <=> Lines) /\ (Regular' <=> Regular)
      /\ (Nothing' <=> Nothing)
  BY <1>1 DEF N, FromEnd, Lines, Regular, Nothing
<1>3. \A len : Newlines(len)' = Newlines(len) /\ Units(len)' = Units(len)
  BY <1>1 DEF Newlines, Units, Lines
<1>4. \A len : Beginning(len)' = Beginning(len)
  BY <1>1 DEF Beginning, Newlines, N, FromEnd, Lines
<1>5. \A len : Fits(len)' <=> Fits(len)
  BY <1>2, <1>4 DEF Fits
<1>6. \A len : Backward(len)' = Backward(len)
  BY <1>1 DEF Backward, Beginning, Newlines, N, FromEnd, Lines
<1> QED
  BY <1>1, <1>2, <1>3, <1>4, <1>5, <1>6

LEMMA ReadableIs ==
    ASSUME TailStates, NEW k \in Nat, NEW m \in Readable(k)
    PROVE  /\ m \in Nat /\ m <= k
           /\ m > 0 => off + m <= written
           /\ m = 0 /\ k > 0 => written <= off
<1>1. PICK x : x = IF written > off THEN written - off ELSE 0
  OBVIOUS
<1>2. x \in Nat /\ off \in Nat /\ written \in Nat
  BY <1>1, NumberIs
<1>3. PICK most : most = Min({k, x})
  OBVIOUS
<1>4. most = IF k <= x THEN k ELSE x
  <2>1. CASE k <= x
    <3>1. {k, x} \subseteq Int /\ k \in {k, x} /\ \A y \in {k, x} : k <= y
      BY <1>2, <2>1
    <3> QED
      BY <1>3, <2>1, <3>1, MinIs
  <2>2. CASE ~(k <= x)
    <3>1. {k, x} \subseteq Int /\ x \in {k, x} /\ \A y \in {k, x} : x <= y
      BY <1>2, <2>2
    <3> QED
      BY <1>3, <2>2, <3>1, MinIs
  <2> QED
    BY <2>1, <2>2
<1>5. m \in IF most > 0 THEN IF Regular THEN {most} ELSE 1..most
            ELSE IF Regular \/ closed THEN {0} ELSE {}
  BY <1>1, <1>3 DEF Readable
<1>6. m \in Nat /\ m <= most /\ (m = 0 => most = 0)
  BY <1>2, <1>4, <1>5
<1> QED
  BY <1>1, <1>2, <1>4, <1>6


LEMMA StatesNext ==
    ASSUME TailStates, UNCHANGED tailFixed, closed' \in BOOLEAN,
           written' \in 0..TailMax, written <= written', off' \in Nat,
           tailat' \in {"start", "skip", "fill", "print", "copy", "follow", "end"}, need' \in Nat,
           buf' \in Seq(0..TailMax), fill' \in 0..Len(buf'), partial' \in BOOLEAN
    PROVE  TailStates'
<1>1. isnl' = isnl /\ tailopt' = tailopt /\ st_size' = st_size /\ (Regular' <=> Regular)
  BY SameTail
<1>2. TailOptions' = TailOptions
  BY DEF TailOptions
<1>3. st_size' \in 0..written'
  BY <1>1, NumberIs, TailAssumption DEF TailStates
<1> QED
  BY <1>1, <1>2, <1>3 DEF TailStates

\* What is read after a tail goes on with it.
LEMMA ShownMore ==
    ASSUME TailStates, NEW len, Shown(len), tailopt.f \/ tailat = "copy",
           UNCHANGED tailFixed, NEW m \in Nat, off' = off + m,
           out' = out \o From(off + 1, off + m)
    PROVE  Shown(len)'
<1>1. PICK b, j, k : b = Beginning(len) /\ j = off /\ k = off + m
  OBVIOUS
<1>2. b \in Nat /\ out = From(b, j) /\ b <= j + 1
  BY <1>1 DEF Shown
<1>3. b \in Int /\ j \in Int /\ k \in Int /\ j <= k /\ b <= k + 1
  BY <1>1, <1>2, NumberIs
<1>4. out' = From(b, k)
  BY <1>1, <1>2, <1>3, FromJoin
<1>5. Beginning(len)' = b /\ off' = k
  BY <1>1, SameTail
<1> QED
  BY <1>2, <1>3, <1>4, <1>5 DEF Shown

\* What may have been its length stays so while more is read.
LEMMA EndsStay ==
    ASSUME TailStates, UNCHANGED tailFixed, off' \in Nat, off <= off', off' = off \/ tailopt.f
    PROVE  \A len \in EndsRead : len \in EndsRead'
<1>1. /\ tailopt' = tailopt /\ (Regular' <=> Regular) /\ (Lines' <=> Lines) /\ st_size' = st_size
      /\ off \in Nat /\ st_size \in Nat
  BY SameTail, NumberIs
<1>2. \A len \in st_size..off : len \in st_size..off'
  BY <1>1
<1> QED
  BY <1>1, <1>2 DEF EndsRead

\* While others write, what has been printed stays what it is.
LEMMA EndedStays ==
    ASSUME TailStates, TailStates', Ended, UNCHANGED <<tailFixed, off, tailat, need, out>>, written <= written'
    PROVE  Ended' /\ \A len : Shown(len) => Shown(len)'
<1>1. /\ UNCHANGED tailFixed /\ off' = off /\ tailat' = tailat /\ out' = out /\ off \in Nat
  BY NumberIs
<1>2. \A len : Shown(len) => Shown(len)'
  BY <1>1, SameTail DEF Shown
<1>3. \A len \in EndsRead : len \in EndsRead'
  BY <1>1, EndsStay
<1>4. ShownAll => ShownAll'
  BY <1>1, SameTail DEF ShownAll
<1> QED
  BY <1>1, <1>2, <1>3, <1>4, SameTail DEF Ended

-----------------------------------------------------------------------------

LEMMA TailBegins ==
    ASSUME TailInit
    PROVE  TailInv
<1>1. PICK o \in TailOptions : o = tailopt
  BY DEF TailInit, TailBegin
<1>2. /\ isnl \in [1..TailMax -> BOOLEAN] /\ written \in 0..TailMax /\ closed = FALSE
      /\ st_size = (IF tailopt.file THEN written ELSE 0) /\ off = 0 /\ tailat = "start"
      /\ need = 0 /\ buf = <<>> /\ fill = 0 /\ partial = TRUE /\ out = <<>>
  BY DEF TailInit, TailBegin
<1>3. TailMax \in Nat
  BY TailAssumption
<1>4. isnl \in Seq(BOOLEAN) /\ Len(isnl) = TailMax
  <2>1. isnl \in Seq(BOOLEAN)
    BY <1>2, <1>3, SeqDef
  <2> QED
    BY <1>2, <1>3, <2>1, LenProperties
<1>5. buf \in Seq(0..TailMax) /\ Len(buf) = 0
  BY <1>2, EmptySeq
<1>6. st_size \in 0..written /\ (~Regular => st_size = 0)
  BY <1>2, <1>3 DEF Regular
<1>7. TailStates
  <2>1. tailopt \in TailOptions
    BY <1>1
  <2>2. off \in Nat /\ need \in Nat /\ fill \in 0..Len(buf)
    BY <1>2, <1>5
  <2>4. closed \in BOOLEAN /\ partial \in BOOLEAN
    BY <1>2
  <2>3. tailat \in {"start", "skip", "fill", "print", "copy", "follow", "end"}
    BY <1>2
  <2> QED
    BY <1>2, <1>4, <1>5, <1>6, <2>1, <2>2, <2>3, <2>4 DEF TailStates
<1> QED
  BY <1>2, <1>7 DEF TailInv, Begins, Skips, Copied, Fills, Ended

LEMMA StartNothingKeeps ==
    ASSUME TailInv, StartNothing
    PROVE  TailInv'
<1>1. /\ TailStates /\ tailat = "start" /\ Nothing /\ tailat' = AfterTail
      /\ UNCHANGED <<tailFixed, writer, off, need, buffer, out>>
  BY DEF TailInv, StartNothing
<1>2. out = <<>>
  BY <1>1 DEF TailInv, Begins
<1>3. tailat' \in {"follow", "end"} /\ (tailat' = "follow" => tailopt.f)
  BY <1>1, NumberIs DEF AfterTail
<1>4. /\ UNCHANGED tailFixed /\ written' = written /\ closed' = closed /\ off' = off /\ need' = need
      /\ buf' = buf /\ fill' = fill /\ partial' = partial /\ out' = out
  BY <1>1 DEF writer, buffer
<1>5. TailStates'
  <2>1. written <= written'
    BY <1>1, <1>4, NumberIs
  <2> QED
    BY <1>1, <1>3, <1>4, <2>1, StatesNext DEF TailStates
<1>6. Ended'
  <2>1. off = 0 /\ From(1, 0) = <<>>
    BY <1>1, FromEmpty DEF TailInv, Begins
  <2>2. ShownAll'
    BY <1>2, <1>4, <2>1, SameTail DEF ShownAll
  <2> QED
    BY <1>1, <1>3, <1>4, <2>2, SameTail DEF Ended
<1> QED
  BY <1>3, <1>5, <1>6 DEF TailInv, Begins, Skips, Copied, Fills

LEMMA CopyKeeps ==
    ASSUME TailInv, Copy
    PROVE  TailInv'
<1>1. /\ TailStates /\ tailat = "copy" /\ UNCHANGED <<tailFixed, writer, need, buffer>>
      /\ ~tailopt.r /\ ~Nothing
      /\ FromEnd => Regular /\ ~Lines /\ \E len \in st_size..written : Shown(len)
      /\ ~FromEnd => \A len \in Nat : off <= len => Shown(len)
  BY DEF TailInv, Copy, Copied
<1>2. PICK m \in Readable(BlkSize) :
          /\ out' = out \o From(off + 1, off + m)
          /\ off' = off + m
          /\ tailat' = IF m = 0 THEN AfterTail ELSE "copy"
  BY DEF Copy
<1>3. m \in Nat /\ (m = 0 => written <= off)
  BY <1>1, TailAssumption, ReadableIs
<1>4. /\ UNCHANGED tailFixed /\ written' = written /\ closed' = closed /\ need' = need
      /\ buf' = buf /\ fill' = fill /\ partial' = partial
  BY <1>1 DEF writer, buffer
<1>5. \A len : Shown(len) => Shown(len)'
  BY <1>1, <1>2, <1>3, <1>4, ShownMore
<1>6. tailat' \in {"follow", "end", "copy"} /\ (tailat' = "follow" => tailopt.f)
      /\ (tailat' = "copy" \/ m = 0)
  BY <1>1, <1>2, NumberIs DEF AfterTail
<1>7. TailStates'
  <2>1. written <= written' /\ off' \in Nat
    BY <1>1, <1>2, <1>3, <1>4, NumberIs
  <2> QED
    BY <1>1, <1>4, <1>6, <2>1, StatesNext DEF TailStates
<1>8. /\ tailopt' = tailopt /\ (FromEnd' <=> FromEnd) /\ (Regular' <=> Regular)
      /\ (Lines' <=> Lines) /\ (Nothing' <=> Nothing) /\ st_size' = st_size
      /\ off \in Nat /\ written \in Nat /\ st_size \in Nat /\ st_size <= written
  BY <1>1, <1>4, SameTail, NumberIs
<1>9. Copied'
  <2>1. \A len \in Nat : off' <= len => off <= len
    BY <1>2, <1>3, <1>8
  <2> QED
    BY <1>1, <1>4, <1>5, <1>8, <2>1 DEF Copied
<1>10. ASSUME m = 0 PROVE \E len \in EndsRead' : Shown(len)'
  <2>1. off' = off /\ written <= off
    BY <1>2, <1>3, <1>8, <1>10
  <2>2. CASE FromEnd
    <3>1. PICK len \in st_size..written : Shown(len)
      BY <1>1, <2>2
    <3>2. len \in st_size'..off'
      BY <1>8, <2>1
    <3>3. len \in EndsRead'
      BY <1>1, <1>8, <2>2, <3>2 DEF EndsRead
    <3> QED
      BY <1>5, <3>1, <3>3
  <2>3. CASE ~FromEnd
    <3>1. PICK len : len = off
      OBVIOUS
    <3>2. len \in Nat /\ off <= len /\ len \in st_size'..off' /\ len = off'
      BY <1>8, <2>1, <3>1
    <3>3. Shown(len)'
      BY <1>1, <1>5, <2>3, <3>2
    <3>4. len \in EndsRead'
      BY <3>2 DEF EndsRead
    <3> QED
      BY <3>3, <3>4
  <2> QED
    BY <2>2, <2>3
<1>11. Ended'
  BY <1>1, <1>6, <1>8, <1>10 DEF Ended
<1> QED
  BY <1>6, <1>7, <1>9, <1>11 DEF TailInv, Begins, Skips, Fills

LEMMA FollowKeeps ==
    ASSUME TailInv, Follow
    PROVE  TailInv'
<1>1. /\ TailStates /\ Ended /\ tailat = "follow"
      /\ UNCHANGED <<tailFixed, writer, tailat, need, buffer>> /\ tailopt.f
  BY DEF TailInv, Follow, Ended
<1>2. PICK m \in Readable(BlkSize) : out' = out \o From(off + 1, off + m) /\ off' = off + m
  BY DEF Follow
<1>3. m \in Nat
  BY <1>1, TailAssumption, ReadableIs
<1>4. /\ UNCHANGED tailFixed /\ written' = written /\ closed' = closed /\ need' = need
      /\ buf' = buf /\ fill' = fill /\ partial' = partial /\ tailat' = "follow"
  BY <1>1 DEF writer, buffer
<1>5. \A len : Shown(len) => Shown(len)'
  BY <1>1, <1>2, <1>3, <1>4, ShownMore
<1>6. off' \in Nat /\ off <= off' /\ off \in Nat
  BY <1>1, <1>2, <1>3, NumberIs
<1>7. TailStates'
  <2>1. written <= written'
    BY <1>1, <1>4, NumberIs
  <2> QED
    BY <1>1, <1>4, <1>6, <2>1, StatesNext DEF TailStates
<1>8. ~tailopt.r
  BY <1>1, NumberIs
<1>9. \A len \in EndsRead : len \in EndsRead'
  BY <1>1, <1>4, <1>6, EndsStay
<1>10. ShownAll => ShownAll'
  <2>1. PICK i, j, k : i = 1 /\ j = off /\ k = off + m
    OBVIOUS
  <2>2. i \in Int /\ j \in Int /\ k \in Int /\ i <= j + 1 /\ j <= k
    BY <1>2, <1>3, <1>6, <2>1
  <2>3. From(i, j) \o From(j + 1, k) = From(i, k)
    BY <2>2, FromJoin
  <2> QED
    BY <1>1, <1>2, <1>4, <2>1, <2>3, SameTail DEF ShownAll
<1>11. Ended'
  <2>1. Nothing => ShownAll'
    BY <1>1, <1>10 DEF Ended
  <2>2. ASSUME ~Nothing
        PROVE  \E len \in EndsRead' : Shown(len)' \/ (FromEnd /\ Lines /\ ~Fits(len)')
    <3>1. PICK len \in EndsRead : Shown(len) \/ (FromEnd /\ Lines /\ ~Fits(len))
      BY <1>1, <1>8, <2>2 DEF Ended
    <3>2. len \in EndsRead' /\ (Fits(len)' <=> Fits(len))
      BY <1>4, <1>9, SameTail
    <3> QED
      BY <1>5, <3>1, <3>2
  <2> QED
    BY <1>1, <1>4, <1>8, <2>1, <2>2, SameTail DEF Ended
<1> QED
  BY <1>4, <1>7, <1>11 DEF TailInv, Begins, Skips, Copied, Fills

\* The writer's steps.
LEMMA WriterKeeps ==
    ASSUME TailInv, Append1 \/ Close
    PROVE  TailInv'
<1>1. /\ TailStates /\ UNCHANGED <<tailFixed, off, tailat, need, buffer, out>>
      /\ closed' \in BOOLEAN /\ written' \in 0..TailMax /\ written <= written'
  <2>1. TailStates /\ closed \in BOOLEAN /\ written \in 0..TailMax /\ TailMax \in Nat
    BY TailAssumption DEF TailInv, TailStates
  <2>2. CASE Append1
    <3>1. written < TailMax /\ written' = written + 1 /\ closed' = closed
          /\ UNCHANGED <<tailFixed, off, tailat, need, buffer, out>>
      BY <2>2 DEF Append1
    <3> QED
      BY <2>1, <3>1
  <2>3. CASE Close
    <3>1. written' = written /\ closed' = TRUE
          /\ UNCHANGED <<tailFixed, off, tailat, need, buffer, out>>
      BY <2>3 DEF Close
    <3> QED
      BY <2>1, <3>1
  <2> QED
    BY <2>2, <2>3
<1>2. /\ UNCHANGED tailFixed /\ need' = need /\ off' = off /\ tailat' = tailat /\ out' = out
      /\ buf' = buf /\ fill' = fill /\ partial' = partial
  BY <1>1 DEF buffer
<1>3. TailStates'
  BY <1>1, <1>2, StatesNext DEF TailStates
<1>4. Ended' /\ \A len : Shown(len) => Shown(len)'
  BY <1>1, <1>2, <1>3, EndedStays DEF TailInv
<1>5. Copied'
  <2>1. \A len \in st_size..written : len \in st_size'..written'
    <3>1. written \in Nat /\ written' \in Nat /\ st_size \in Nat /\ st_size' = st_size
      BY <1>1, <1>2, NumberIs, SameTail, TailAssumption
    <3> QED
      BY <1>1, <3>1
  <2> QED
    BY <1>2, <1>4, <2>1, SameTail DEF Copied, TailInv
<1>6. Begins'
  BY <1>2 DEF Begins, TailInv
<1>7. Skips'
  <2>1. off <= written => off' <= written'
    BY <1>1, <1>2, NumberIs
  <2> QED
    BY <1>2, <2>1, SameTail DEF Skips, TailInv
<1>8. Fills'
  <2>1. Filled => Filled'
    <3>1. off <= written => off' <= written'
      BY <1>1, <1>2, NumberIs
    <3>2. spcsize' = spcsize /\ alcmax' = alcmax /\ \A k : spc(k)' = spc(k) /\ Pos(k)' = Pos(k)
      BY <1>2, SameTail DEF spcsize, alcmax, spc, Pos
    <3> QED
      BY <1>2, <3>1, <3>2, SameTail DEF Filled
  <2>2. \A x \in st_size..written : x \in st_size'..written'
    <3>1. written \in Nat /\ written' \in Nat /\ st_size \in Nat /\ st_size' = st_size
      BY <1>1, <1>2, NumberIs, SameTail, TailAssumption
    <3> QED
      BY <1>1, <3>1
  <2> QED
    BY <1>2, <2>1, <2>2, SameTail DEF Fills, TailInv
<1> QED
  BY <1>3, <1>4, <1>5, <1>6, <1>7, <1>8 DEF TailInv

LEMMA StartEndKeeps ==
    ASSUME TailInv, StartEnd
    PROVE  TailInv'
<1>1. /\ TailStates /\ Begins /\ tailat = "start" /\ FromEnd /\ ~Nothing
      /\ UNCHANGED <<tailFixed, writer, need, out>>
  BY DEF TailInv, StartEnd
<1>2. off = 0 /\ out = <<>> /\ need = 0 /\ buf = <<>> /\ fill = 0 /\ partial
  BY <1>1 DEF Begins
<1>3. UNCHANGED tailFixed /\ written' = written /\ closed' = closed /\ need' = need /\ out' = out
  BY <1>1 DEF writer
<1>4. written \in Nat /\ N \in Nat /\ st_size \in Nat /\ st_size <= written /\ written <= TailMax /\ TailMax \in Nat
  BY <1>1, NumberIs
<1>5. CASE ~Lines /\ Regular
  <2>1. /\ off' = IF st_size > N /\ written >= N THEN written - N ELSE off
        /\ tailat' = "copy" /\ UNCHANGED buffer
    BY <1>5 DEF StartEnd
  <2>2. buf' = buf /\ fill' = fill /\ partial' = partial
    BY <2>1 DEF buffer
  <2>3. off' \in Nat
    BY <1>2, <1>4, <2>1
  <2>4. TailStates'
    BY <1>1, <1>3, <1>4, <2>1, <2>2, <2>3, StatesNext DEF TailStates
  <2>5. ~tailopt.r
    BY <1>1, <1>5, NumberIs
  <2>6. PICK len : len = IF st_size > N THEN written ELSE st_size
    OBVIOUS
  <2>7. len \in st_size..written /\ off' = IF len >= N /\ len > 0 /\ st_size > N THEN len - N ELSE 0
    BY <1>2, <1>4, <2>1, <2>6
  <2>8. Beginning(len) = off' + 1
    <3>1. Beginning(len) = Max({len - N + 1, 1})
      BY <1>1, <1>5 DEF Beginning
    <3>2. {len - N + 1, 1} \subseteq Int /\ off' + 1 \in {len - N + 1, 1}
          /\ \A y \in {len - N + 1, 1} : y <= off' + 1
      BY <1>4, <2>6, <2>7
    <3> QED
      BY <3>1, <3>2, MaxIs
  <2>9. out' = From(off' + 1, off')
    BY <1>2, <1>3, <2>3, FromEmpty
  <2>10. Shown(len)' /\ len \in st_size'..written'
    <3>1. Beginning(len)' = off' + 1 /\ len \in st_size'..written'
      BY <1>3, <2>7, <2>8, SameTail
    <3>2. PICK o \in Nat : o = off'
      BY <2>3
    <3>3. o + 1 \in Nat /\ o + 1 <= o + 1
      OBVIOUS
    <3> QED
      BY <2>9, <3>1, <3>2, <3>3 DEF Shown
  <2>11. Copied'
    BY <1>1, <1>3, <1>5, <2>5, <2>10, SameTail DEF Copied
  <2> QED
    BY <2>1, <2>4, <2>11 DEF TailInv, Begins, Skips, Fills, Ended
<1>6. CASE ~(~Lines /\ Regular) /\ ~tailopt.f /\ Regular /\ st_size > 0
  <2>1. /\ buf' = From(1, st_size) \o <<0>> /\ fill' = st_size /\ tailat' = "print"
        /\ off' = st_size /\ partial' = partial
    BY <1>6 DEF StartEnd
  <2>2. /\ buf' \in Seq(0..TailMax) /\ Len(buf') = st_size + 1
        /\ \A k \in 1..st_size : buf'[k] = k
    <3>1. PICK s : s = From(1, st_size)
      OBVIOUS
    <3>2. s \in Seq(Int) /\ Len(s) = st_size /\ \A k \in 1..Len(s) : s[k] = 1 + k - 1
      <4>1. 1 \in Int /\ st_size \in Int /\ 1 <= st_size + 1 /\ st_size - 1 + 1 = st_size
        BY <1>4
      <4> QED
        BY <3>1, <4>1, FromFacts
    <3>3. \A k \in 1..st_size : s[k] = k /\ s[k] \in 0..TailMax
      BY <1>4, <3>2
    <3>4. s \in Seq(0..TailMax)
      <4>1. s = [k \in 1..st_size |-> s[k]]
        BY <3>2, LenProperties
      <4>2. s \in [1..st_size -> 0..TailMax]
        BY <3>3, <4>1
      <4> QED
        BY <1>4, <4>2, SeqDef
    <3>5. <<0>> \in Seq(0..TailMax) /\ Len(<<0>>) = 1
      BY <1>4
    <3>6. /\ buf' \in Seq(0..TailMax) /\ Len(buf') = Len(s) + 1
          /\ \A k \in 1..Len(s) + 1 : buf'[k] = IF k <= Len(s) THEN s[k] ELSE <<0>>[k - Len(s)]
      BY <2>1, <3>1, <3>4, <3>5, ConcatProperties
    <3> QED
      BY <1>4, <3>2, <3>3, <3>6
  <2>3. TailStates'
    <3>1. fill' \in 0..Len(buf') /\ off' \in Nat
      BY <1>4, <2>1, <2>2
    <3> QED
      BY <1>1, <1>3, <1>4, <2>1, <2>2, <3>1, StatesNext DEF TailStates
  <2>4. Filled'
    <3>1. spcsize' = st_size + 1 /\ partial' /\ off' = fill'
      BY <1>2, <2>1, <2>2 DEF spcsize
    <3>2. fill' \in 0..spcsize' - 1 /\ fill' <= off' /\ off' <= written'
      BY <1>3, <1>4, <2>1, <3>1
    <3>3. ASSUME NEW k \in 0..fill' - 1 PROVE spc(k)' = Pos(k)'
      <4>1. k + 1 \in 1..st_size /\ k < fill'
        BY <1>4, <2>1
      <4>2. spc(k)' = k + 1
        BY <2>2, <4>1 DEF spc
      <4>3. Pos(k)' = off' - fill' + k + 1
        BY <4>1 DEF Pos
      <4> QED
        BY <1>4, <2>1, <4>2, <4>3
    <3>4. Lines'
      BY <1>3, <1>6, SameTail
    <3> QED
      BY <3>1, <3>2, <3>3, <3>4 DEF Filled
  <2>5. Fills'
    <3>1. st_size' <= off' /\ off' = fill'
      BY <1>3, <1>4, <2>1, SameTail
    <3> QED
      BY <1>1, <1>2, <1>3, <2>1, <2>4, <3>1, SameTail DEF Fills
  <2> QED
    BY <2>1, <2>3, <2>5 DEF TailInv, Begins, Skips, Copied, Ended
<1>7. CASE ~(~Lines /\ Regular) /\ ~(~tailopt.f /\ Regular /\ st_size > 0)
  <2>1. /\ buf' = [k \in 1..BufSize |-> 0] /\ tailat' = "fill"
        /\ off' = IF Regular /\ written >= N * LineSize + 1
                  THEN written - N * LineSize - 1 ELSE off
        /\ UNCHANGED <<fill, partial>>
    BY <1>7 DEF StartEnd
  <2>2. BufSize \in Nat /\ BufSize > 0 /\ LineSize \in Nat
    BY TailAssumption
  <2>3. buf' \in Seq(0..TailMax) /\ Len(buf') = BufSize
    <3>1. buf' \in [1..BufSize -> 0..TailMax]
      BY <1>4, <2>1
    <3>2. buf' \in Seq(0..TailMax)
      BY <2>2, <3>1, SeqDef
    <3> QED
      BY <2>2, <3>1, <3>2, LenProperties
  <2>4. PICK x \in Nat : x = N * LineSize
    BY <1>4, <2>2
  <2>5. off' \in Nat /\ off' <= written
    BY <1>2, <1>4, <2>1, <2>4
  <2>6. fill' = 0 /\ partial'
    BY <1>2, <2>1
  <2>7. TailStates'
    <3>1. fill' \in 0..Len(buf')
      BY <2>2, <2>3, <2>6
    <3>2. partial' = partial /\ written <= written' /\ out' = out
      BY <1>3, <1>4, <2>1
    <3>3. tailat' \in {"start", "skip", "fill", "print", "copy", "follow", "end"}
      BY <2>1
    <3> QED
      BY <1>1, <1>3, <2>3, <2>5, <3>1, <3>2, <3>3, StatesNext DEF TailStates
  <2>8. Filled'
    <3>1. spcsize' = BufSize
      BY <2>3 DEF spcsize
    <3>2. fill' \in 0..spcsize' - 1 /\ fill' <= off' /\ off' <= written'
      BY <1>3, <2>2, <2>5, <2>6, <3>1
    <3>3. \A k : k \notin 0..fill' - 1
      BY <2>6
    <3>4. ~Lines' => ~Regular' /\ off' = fill'
      BY <1>2, <1>3, <1>7, <2>1, <2>6, SameTail
    <3> QED
      BY <2>6, <3>2, <3>3, <3>4 DEF Filled
  <2>9. Fills'
    <3>1. off' # fill' => Regular' /\ off' - fill' + N' * LineSize + 1 \in st_size'..written'
      <4>1. SUFFICES ASSUME off' # 0 PROVE Regular /\ off' - 0 + x + 1 \in st_size..written
        BY <1>3, <2>4, <2>6, SameTail
      <4>2. Regular /\ off' = written - x - 1
        BY <1>2, <2>1, <2>4, <4>1
      <4> QED
        BY <1>4, <2>4, <4>2
    <3> QED
      BY <1>1, <1>2, <1>3, <2>1, <2>8, <3>1, SameTail DEF Fills
  <2> QED
    BY <2>1, <2>7, <2>9 DEF TailInv, Begins, Skips, Copied, Ended
<1> QED
  BY <1>5, <1>6, <1>7

LEMMA StartBeginKeeps ==
    ASSUME TailInv, StartBegin
    PROVE  TailInv'
<1>1. /\ TailStates /\ Begins /\ tailat = "start" /\ ~FromEnd
      /\ UNCHANGED <<tailFixed, writer, buffer, out>>
  BY DEF TailInv, StartBegin
<1>2. off = 0 /\ out = <<>> /\ need = 0
  BY <1>1 DEF Begins
<1>3. /\ UNCHANGED tailFixed /\ written' = written /\ closed' = closed /\ out' = out
      /\ buf' = buf /\ fill' = fill /\ partial' = partial
  BY <1>1 DEF writer, buffer
<1>4. written \in Nat /\ N \in Nat /\ st_size \in Nat /\ st_size <= written /\ ~tailopt.r
  BY <1>1, NumberIs
<1>5. PICK n : n = IF N > 0 THEN N - 1 ELSE 0
  OBVIOUS
<1>6. n \in Nat
  BY <1>4, <1>5
<1>7. CASE n = 0 \/ (~Lines /\ Regular)
  <2>1. off' = n /\ tailat' = "copy" /\ need' = need
    BY <1>5, <1>7 DEF StartBegin
  <2>2. TailStates'
    BY <1>1, <1>3, <1>4, <1>6, <2>1, StatesNext DEF TailStates
  <2>3. \A len : Beginning(len) = n + 1
    <3>1. CASE Lines
      BY <1>1, <1>4, <1>5, <1>7, <3>1 DEF Beginning
    <3>2. CASE ~Lines
      <4>1. \A len : Beginning(len) = Max({N, 1})
        BY <1>1, <3>2 DEF Beginning
      <4>2. {N, 1} \subseteq Int /\ n + 1 \in {N, 1} /\ \A y \in {N, 1} : y <= n + 1
        BY <1>4, <1>5
      <4>3. Max({N, 1}) = n + 1
        BY <4>2, MaxIs
      <4> QED
        BY <4>1, <4>3
    <3> QED
      BY <3>1, <3>2
  <2>4. out' = From(n + 1, n)
    BY <1>2, <1>3, <1>6, FromEmpty
  <2>5. \A len : Shown(len)'
    <3>1. \A len : Beginning(len)' = n + 1
      BY <1>3, <2>3, SameTail
    <3> QED
      BY <1>6, <2>1, <2>4, <3>1 DEF Shown
  <2>6. Copied'
    <3>1. ~Nothing
      BY <1>1 DEF Nothing
    <3> QED
      BY <1>1, <1>3, <1>4, <2>5, <3>1, SameTail DEF Copied
  <2> QED
    BY <2>1, <2>2, <2>6 DEF TailInv, Begins, Skips, Fills, Ended
<1>8. CASE ~(n = 0 \/ (~Lines /\ Regular))
  <2>1. need' = n /\ tailat' = "skip" /\ off' = off
    BY <1>5, <1>8 DEF StartBegin
  <2>2. TailStates'
    BY <1>1, <1>2, <1>3, <1>4, <1>6, <2>1, StatesNext DEF TailStates
  <2>3. Units(off)' = {}
    BY <1>2, <2>1 DEF Units, Newlines
  <2>4. Cardinality(Units(off))' = 0
    BY <2>3, FS_EmptySet
  <2>5. Skips'
    <3>1. n = N - 1 /\ n > 0 /\ N > 1 /\ n + 0 = N - 1
      BY <1>4, <1>5, <1>8
    <3>2. (~Lines => ~Regular) /\ off' <= written'
      BY <1>2, <1>3, <1>4, <1>8, <2>1
    <3> QED
      BY <1>1, <1>2, <1>3, <2>1, <2>4, <3>1, <3>2, SameTail DEF Skips
  <2> QED
    BY <2>1, <2>2, <2>5 DEF TailInv, Begins, Copied, Fills, Ended
<1> QED
  BY <1>7, <1>8

\* What is passed over is counted.
UnitsRead(m) ==
    IF Lines THEN {p \in {off + k : k \in 1..m} : isnl[p]} ELSE {off + k : k \in 1..m}
LEMMA UnitsMore ==
    ASSUME TailStates, NEW m \in Nat, NEW ends,
           ends = UnitsRead(m)
    PROVE  /\ IsFiniteSet(ends) /\ ends \subseteq off + 1..off + m /\ Cardinality(ends) \in Nat
           /\ IsFiniteSet(Units(off)) /\ Units(off) \subseteq 1..off /\ Cardinality(Units(off)) \in Nat
           /\ Units(off + m) = Units(off) \cup ends
           /\ Cardinality(Units(off + m)) = Cardinality(Units(off)) + Cardinality(ends)
<1>1. off \in Nat
  BY NumberIs
<1>2. PICK U, V : U = Units(off) /\ V = Units(off + m)
  OBVIOUS
<1>3. {off + k : k \in 1..m} = off + 1..off + m
  <2>1. ASSUME NEW x \in off + 1..off + m PROVE x \in {off + k : k \in 1..m}
    <3>1. x - off \in 1..m /\ x = off + (x - off)
      BY <1>1
    <3> QED
      BY <3>1
  <2>2. ASSUME NEW k \in 1..m PROVE off + k \in off + 1..off + m
    BY <1>1
  <2> QED
    BY <2>1, <2>2
<1>4. /\ ends \subseteq off + 1..off + m
      /\ \A p \in off + 1..off + m : p \in ends <=> (Lines => isnl[p])
  BY <1>3 DEF UnitsRead
<1>5. /\ U \subseteq 1..off /\ \A p \in 1..off : p \in U <=> (Lines => isnl[p])
      /\ V \subseteq 1..off + m /\ \A p \in 1..off + m : p \in V <=> (Lines => isnl[p])
  BY <1>2 DEF Units, Newlines
<1>6. V = U \cup ends /\ U \cap ends = {}
  <2>1. \A p \in 1..off + m : (p \in 1..off \/ p \in off + 1..off + m) /\ ~(p \in 1..off /\ p \in off + 1..off + m)
    BY <1>1
  <2>2. \A p : (p \in 1..off \/ p \in off + 1..off + m) => p \in 1..off + m
    BY <1>1
  <2> QED
    BY <1>4, <1>5, <2>1, <2>2
<1>7. IsFiniteSet(U) /\ IsFiniteSet(ends)
  <2>1. IsFiniteSet(1..off)
    BY <1>1, FS_Interval
  <2>2. PICK i, j : i = off + 1 /\ j = off + m
    OBVIOUS
  <2>3. IsFiniteSet(i..j)
    BY <1>1, <2>2, FS_Interval
  <2> QED
    BY <1>4, <1>5, <2>1, <2>2, <2>3, FS_Subset
<1>8. Cardinality(U) \in Nat /\ Cardinality(ends) \in Nat
  BY <1>7, FS_CardinalityType
<1>9. Cardinality(V) = Cardinality(U) + Cardinality(ends)
  <2>1. Cardinality(U \cup ends) = Cardinality(U) + Cardinality(ends) - Cardinality(U \cap ends)
    BY <1>7, FS_Union
  <2>2. Cardinality(U \cap ends) = 0
    BY <1>6, FS_EmptySet
  <2> QED
    BY <1>6, <1>8, <2>1, <2>2
<1> QED
  BY <1>2, <1>4, <1>5, <1>6, <1>7, <1>8, <1>9

\* The one that is counted last is the one in front of the tail.
LEMMA LastIs ==
    ASSUME TailStates, ~FromEnd, N > 1, NEW m \in Nat, NEW w \in Nat, off + m <= w, NEW ends,
           ends = UnitsRead(m),
           need \in Nat, need > 0, need + Cardinality(Units(off)) = N - 1, Cardinality(ends) >= need,
           NEW last \in ends, Cardinality(Low(ends, last)) = need
    PROVE  last \in off + 1..off + m /\ Beginning(w) = last + 1
<1>1. off \in Nat /\ N \in Nat /\ w \in Nat
  BY NumberIs
<1>2. PICK U, V, c, d : U = Units(off) /\ V = Units(off + m) /\ c = Cardinality(U) /\ d = Cardinality(ends)
  OBVIOUS
<1>3. /\ IsFiniteSet(ends) /\ ends \subseteq off + 1..off + m /\ d \in Nat
      /\ IsFiniteSet(U) /\ U \subseteq 1..off /\ c \in Nat /\ V = U \cup ends /\ need + c = N - 1 /\ d >= need
  BY <1>2, UnitsMore
<1>4. ends \subseteq Nat /\ U \subseteq Nat
  BY <1>1, <1>3
<1>7. last \in off + 1..off + m /\ last \in Nat
  BY <1>3, <1>4
\* So many units come up to it.
<1>8. PICK W : W = Units(w)
  OBVIOUS
<1>9. /\ W \subseteq 1..w /\ W \subseteq Nat /\ IsFiniteSet(W)
      /\ \A p \in 1..w : p \in W <=> (Lines => isnl[p])
  <2>1. W \subseteq 1..w /\ \A p \in 1..w : p \in W <=> (Lines => isnl[p])
    BY <1>8 DEF Units, Newlines
  <2>2. IsFiniteSet(1..w)
    BY <1>1, FS_Interval
  <2>3. IsFiniteSet(W)
    BY <2>1, <2>2, FS_Subset
  <2>4. W \subseteq Nat
    BY <1>1, <2>1
  <2> QED
    BY <2>1, <2>3, <2>4
<1>10. Cardinality(Low(W, last)) = N - 1
  <2>1. PICK A, B : A = Low(W, last) /\ B = Low(ends, last)
    OBVIOUS
  <2>2. last \in Int
    BY <1>7
  <2>3. B \subseteq ends /\ \A q \in ends : q \in B <=> q <= last
    BY <1>4, <2>1, <2>2, LowOrHigh
  <2>4. A \subseteq W /\ \A q \in W : q \in A <=> q <= last
    BY <1>9, <2>1, <2>2, LowOrHigh
  <2>5. \A q \in 1..off : q \in U <=> (Lines => isnl[q])
    BY <1>2 DEF Units, Newlines
  <2>6. \A q \in off + 1..off + m : q \in ends <=> (Lines => isnl[q])
    <3>1. \A q \in off + 1..off + m : q - off \in 1..m /\ q = off + (q - off)
      BY <1>1
    <3>2. \A q \in off + 1..off + m : q \in {off + k : k \in 1..m}
      BY <3>1
    <3> QED
      BY <3>2 DEF UnitsRead
  <2>7. \A q \in 1..off : q \in 1..w /\ q <= last
    BY <1>1, <1>7
  <2>8. \A q \in off + 1..off + m : q \in 1..w
    BY <1>1
  <2>9. \A q \in 1..w : q <= last => q \in 1..off \/ q \in off + 1..off + m
    BY <1>1, <1>7
  <2>10. \A q \in U : q \in A
    BY <1>3, <1>9, <2>4, <2>5, <2>7
  <2>11. \A q \in B : q \in A
    BY <1>3, <1>9, <2>3, <2>4, <2>6, <2>8
  <2>12. \A q \in A : q \in U \/ q \in B
    <3> SUFFICES ASSUME NEW q \in A PROVE q \in U \/ q \in B
      OBVIOUS
    <3>1. q \in 1..w /\ q <= last /\ (Lines => isnl[q])
      BY <1>9, <2>4
    <3>2. CASE q \in 1..off
      BY <2>5, <3>1, <3>2
    <3>3. CASE q \in off + 1..off + m
      BY <2>3, <2>6, <3>1, <3>3
    <3> QED
      BY <2>9, <3>1, <3>2, <3>3
  <2>13. A = U \cup B
    BY <2>10, <2>11, <2>12
  <2>14. U \cap B = {}
    <3>1. \A q \in U : q \in 1..off
      BY <1>3
    <3>2. \A q \in B : q \in off + 1..off + m
      BY <1>3, <2>3
    <3>3. \A q \in 1..off : q \notin off + 1..off + m
      BY <1>1
    <3> QED
      BY <3>1, <3>2, <3>3
  <2>15. IsFiniteSet(B) /\ Cardinality(B) = need
    BY <1>3, <2>1, <2>3, FS_Subset
  <2>16. Cardinality(U \cup B) = Cardinality(U) + Cardinality(B) - Cardinality(U \cap B)
    BY <1>3, <2>15, FS_Union
  <2>17. Cardinality(U \cap B) = 0
    BY <2>14, FS_EmptySet
  <2>18. Cardinality(A) = c + need
    BY <1>2, <1>3, <2>13, <2>15, <2>16, <2>17
  <2> QED
    BY <1>3, <2>1, <2>18
<1>11. last \in W
  <2>0. Lines => isnl[last]
    BY DEF UnitsRead
  <2>1. last \in 1..w /\ (Lines => isnl[last])
    BY <1>1, <1>7, <2>0
  <2> QED
    BY <1>9, <2>1
<1>12. CASE Lines
  <2>1. W = Newlines(w)
    BY <1>8, <1>12 DEF Units
  <2>2. ~(Cardinality(W) < N - 1)
    <3>1. last \in Int
      BY <1>7
    <3>2. PICK x, y, z : x = Cardinality(W) /\ y = Cardinality(Low(W, last)) /\ z = Cardinality(High(W, last))
      OBVIOUS
    <3>3. y \in Nat /\ z \in Nat /\ x = y + z
      BY <1>9, <3>1, <3>2, SplitCount
    <3> QED
      BY <1>1, <1>10, <3>2, <3>3
  <2>3. Beginning(w) = 1 + CHOOSE p \in W : Cardinality(Low(W, p)) = N - 1
    BY <1>1, <1>12, <2>1, <2>2 DEF Beginning, Low
  <2>4. PICK p : p = CHOOSE x \in W : Cardinality(Low(W, x)) = N - 1
    OBVIOUS
  <2>5. p \in W /\ Cardinality(Low(W, p)) = N - 1
    BY <1>10, <1>11, <2>4
  <2>6. p = last
    BY <1>9, <1>10, <1>11, <2>5, NthIsOne
  <2>7. Beginning(w) = 1 + last
    BY <2>3, <2>4, <2>6
  <2> QED
    BY <1>7, <2>7
<1>13. CASE ~Lines
  <2>1. \A q : q \in Low(W, last) <=> q \in 1..last
    <3>1. last \in Int /\ last <= w
      BY <1>1, <1>7
    <3>2. Low(W, last) \subseteq W /\ \A q \in W : q \in Low(W, last) <=> q <= last
      BY <1>9, <3>1, LowOrHigh
    <3>3. \A q \in W : q \in 1..w
      BY <1>9
    <3>4. \A q \in 1..w : q \in W
      BY <1>9, <1>13
    <3>5. \A q \in 1..last : q \in 1..w /\ q <= last
      BY <1>1, <3>1
    <3>6. \A q \in 1..w : q <= last => q \in 1..last
      BY <1>1, <3>1
    <3> QED
      BY <3>2, <3>3, <3>4, <3>5, <3>6
  <2>2. Low(W, last) = 1..last
    BY <2>1
  <2>3. Cardinality(1..last) = last
    <3>1. last \in Int /\ last >= 1 /\ 1 \in Int
      BY <1>1, <1>7
    <3>2. Cardinality(1..last) = IF 1 > last THEN 0 ELSE last - 1 + 1
      BY <3>1, FS_Interval
    <3> QED
      BY <3>1, <3>2
  <2>4. last = N - 1
    BY <1>10, <2>2, <2>3
  <2>5. Beginning(w) = Max({N, 1})
    BY <1>13 DEF Beginning
  <2>6. Max({N, 1}) = N
    <3>1. {N, 1} \subseteq Int /\ N \in {N, 1} /\ \A y \in {N, 1} : y <= N
      BY <1>1
    <3> QED
      BY <3>1, MaxIs
  <2>7. last + 1 = N
    BY <1>1, <1>7, <2>4
  <2> QED
    BY <1>7, <2>5, <2>6, <2>7
<1> QED
  BY <1>7, <1>12, <1>13

LEMMA SkipKeeps ==
    ASSUME TailInv, Skip
    PROVE  TailInv'
<1>1. /\ TailStates /\ tailat = "skip" /\ UNCHANGED <<tailFixed, writer, buffer>>
      /\ ~FromEnd /\ need > 0 /\ out = <<>> /\ off <= written /\ N > 1 /\ (~Lines => ~Regular)
      /\ need + Cardinality(Units(off)) = N - 1
  BY DEF TailInv, Skip, Skips
<1>2. PICK k, m : /\ k = (IF Lines THEN BlkSize ELSE Min({BlkSize, need})) /\ m \in Readable(k)
                  /\ LET block == {off + i : i \in 1..m}
                         ends == IF Lines THEN {p \in block : isnl[p]} ELSE block
                         enough == Cardinality(ends) >= need
                         last == CHOOSE p \in ends :
                                    Cardinality({q \in ends : q <= p}) = need
                     IN  /\ off' = off + m
                         /\ need' = IF enough THEN 0 ELSE need - Cardinality(ends)
                         /\ tailat' = IF m = 0 THEN AfterTail ELSE IF enough THEN "copy" ELSE "skip"
                         /\ out' = IF m > 0 /\ enough THEN out \o From(last + 1, off + m) ELSE out
  BY DEF Skip
<1>3. PICK ends : ends = UnitsRead(m)
  OBVIOUS
<1>4. PICK last : last = CHOOSE p \in ends : Cardinality(Low(ends, p)) = need
  OBVIOUS
<1>5. PICK d : d = Cardinality(ends)
  OBVIOUS
<1>6. /\ off' = off + m
      /\ need' = IF d >= need THEN 0 ELSE need - d
      /\ tailat' = IF m = 0 THEN AfterTail ELSE IF d >= need THEN "copy" ELSE "skip"
      /\ out' = IF m > 0 /\ d >= need THEN out \o From(last + 1, off + m) ELSE out
  BY <1>2, <1>3, <1>4, <1>5 DEF UnitsRead, Low
<1>7. need \in Nat /\ off \in Nat /\ written \in Nat /\ N \in Nat /\ st_size \in Nat /\ st_size <= written /\ ~tailopt.r
  BY <1>1, NumberIs DEF TailStates
<1>8. k \in Nat /\ k > 0
  <2>1. BlkSize \in Nat /\ BlkSize > 0
    BY TailAssumption
  <2>2. PICK b : b = IF BlkSize <= need THEN BlkSize ELSE need
    OBVIOUS
  <2>3. Min({BlkSize, need}) = b
    <3>1. {BlkSize, need} \subseteq Int /\ b \in {BlkSize, need} /\ \A y \in {BlkSize, need} : b <= y
      BY <1>7, <2>1, <2>2
    <3> QED
      BY <3>1, MinIs
  <2> QED
    BY <1>1, <1>2, <1>7, <2>1, <2>2, <2>3
<1>9. m \in Nat /\ (m > 0 => off + m <= written) /\ (m = 0 => written <= off)
  BY <1>1, <1>2, <1>8, ReadableIs
<1>10. /\ d \in Nat /\ Cardinality(Units(off)) \in Nat /\ ends \subseteq off + 1..off + m
       /\ Cardinality(Units(off + m)) = Cardinality(Units(off)) + d
  BY <1>1, <1>3, <1>5, <1>9, UnitsMore
<1>11. /\ UNCHANGED tailFixed /\ written' = written /\ closed' = closed
       /\ buf' = buf /\ fill' = fill /\ partial' = partial
  BY <1>1 DEF writer, buffer
<1>12. CASE m = 0
  <2>1. d = 0
    <3>1. ends = {}
      BY <1>7, <1>10, <1>12
    <3> QED
      BY <1>5, <3>1, FS_EmptySet
  <2>2. off' = off /\ need' = need /\ tailat' = AfterTail /\ out' = <<>> /\ off = written
    BY <1>1, <1>6, <1>7, <1>9, <1>12, <2>1
  <2>3. tailat' \in {"follow", "end"} /\ (tailat' = "follow" => tailopt.f) /\ (tailat' = "end" => ~tailopt.f)
    BY <1>1, <2>2, NumberIs DEF AfterTail
  <2>4. TailStates'
    BY <1>1, <1>7, <1>11, <2>2, <2>3, EmptySeq, StatesNext DEF TailStates
  <2>5. Beginning(off) \in Nat /\ Beginning(off) > off /\ (Lines => Beginning(off) <= off + 1)
    <3>1. CASE Lines
      <4>1. Units(off) = Newlines(off)
        BY <3>1 DEF Units
      <4>2. Cardinality(Newlines(off)) < N - 1
        BY <1>1, <1>7, <1>10, <4>1
      <4>3. Beginning(off) = off + 1
        BY <1>1, <1>7, <3>1, <4>2 DEF Beginning
      <4> QED
        BY <1>7, <4>3
    <3>2. CASE ~Lines
      <4>1. Units(off) = 1..off
        BY <3>2 DEF Units
      <4>2. Cardinality(1..off) = off
        <5>1. Cardinality(1..off) = IF 1 > off THEN 0 ELSE off - 1 + 1
          BY <1>7, FS_Interval
        <5> QED
          BY <1>7, <5>1
      <4>3. off < N - 1
        BY <1>1, <1>7, <4>1, <4>2
      <4>4. Beginning(off) = Max({N, 1})
        BY <1>1, <3>2 DEF Beginning
      <4>5. {N, 1} \subseteq Int /\ N \in {N, 1} /\ \A y \in {N, 1} : y <= N
        BY <1>1, <1>7
      <4>6. Beginning(off) = N
        BY <4>4, <4>5, MaxIs
      <4> QED
        BY <1>7, <3>2, <4>3, <4>6
    <3> QED
      BY <3>1, <3>2
  <2>6. Shown(off)'
    <3>1. PICK len, b : len = off /\ b = Beginning(len)
      OBVIOUS
    <3>2. Beginning(len)' = b /\ b \in Nat /\ b > off
      BY <1>7, <1>11, <2>5, <3>1, SameTail
    <3>3. From(b, off) = <<>>
      BY <1>7, <3>2, FromEmpty
    <3>4. tailat' # "copy" /\ tailopt' = tailopt
      BY <1>11, <2>3, SameTail
    <3>5. tailopt.f => b <= off + 1
      <4>1. tailopt.f => Lines
        BY <1>1, NumberIs
      <4> QED
        BY <1>7, <2>5, <3>1, <4>1
    <3> QED
      BY <2>2, <3>1, <3>2, <3>3, <3>4, <3>5 DEF Shown
  <2>7. Ended'
    <3>1. PICK len : len = off
      OBVIOUS
    <3>2. len \in st_size'..off' /\ len = off'
      BY <1>7, <1>11, <2>2, <3>1, SameTail
    <3>3. len \in EndsRead'
      BY <3>2 DEF EndsRead
    <3>4. Shown(len)'
      BY <2>2, <2>6, <3>1, <3>2
    <3>5. ~Nothing
      BY <1>1 DEF Nothing
    <3> QED
      BY <1>1, <1>7, <1>11, <2>3, <3>3, <3>4, <3>5, SameTail DEF Ended
  <2> QED
    BY <2>3, <2>4, <2>7 DEF TailInv, Begins, Skips, Copied, Fills
<1>13. CASE m # 0 /\ d >= need
  <2>1. off + m <= written /\ m > 0
    BY <1>9, <1>13
  <2>2. off' = off + m /\ need' = 0 /\ tailat' = "copy" /\ out' = out \o From(last + 1, off + m)
    BY <1>6, <1>13, <2>1
  <2>10. last \in ends /\ Cardinality(Low(ends, last)) = need
    <3>1. IsFiniteSet(ends) /\ ends \subseteq Nat
      <4>1. IsFiniteSet(ends)
        BY <1>1, <1>3, <1>9, UnitsMore
      <4> QED
        BY <1>7, <1>10, <4>1
    <3>2. need \in 1..Cardinality(ends)
      BY <1>1, <1>5, <1>7, <1>10, <1>13
    <3>3. \E p \in ends : Cardinality(Low(ends, p)) = need
      BY <3>1, <3>2, NthExists
    <3> QED
      BY <1>4, <3>3
  <2>3. /\ last \in off + 1..off + m
        /\ \A w \in Nat : off + m <= w => Beginning(w) = last + 1
    <3>1. need + Cardinality(Units(off)) = N - 1 /\ Cardinality(ends) >= need
      BY <1>1, <1>5, <1>13
    <3>2. ASSUME NEW w \in Nat, off + m <= w
          PROVE  last \in off + 1..off + m /\ Beginning(w) = last + 1
      BY <1>1, <1>3, <1>7, <1>9, <2>10, <3>1, <3>2, LastIs
    <3> QED
      BY <1>7, <2>1, <3>2
  <2>4. last + 1 \in Nat /\ last + 1 \in Int /\ off + m \in Nat /\ off + m \in Int /\ last + 1 <= (off + m) + 1
    BY <1>7, <1>9, <2>3
  <2>5. From(last + 1, off + m) \in Seq(Int)
    BY <2>4, FromFacts
  <2>6. out' = From(last + 1, off + m)
    BY <1>1, <2>2, <2>5, ConcatEmptySeq
  <2>7. TailStates'
    BY <1>1, <1>7, <1>11, <2>2, <2>4, <2>5, <2>6, StatesNext DEF TailStates
  <2>8. ASSUME NEW len \in Nat, off' <= len PROVE Shown(len)'
    <3>1. Beginning(len)' = last + 1
      BY <1>11, <2>2, <2>3, <2>8, SameTail
    <3> QED
      BY <2>2, <2>4, <2>6, <3>1 DEF Shown
  <2>9. Copied'
    <3>1. ~Nothing
      BY <1>1 DEF Nothing
    <3> QED
      BY <1>1, <1>7, <1>11, <2>8, <3>1, SameTail DEF Copied
  <2> QED
    BY <2>2, <2>7, <2>9 DEF TailInv, Begins, Skips, Fills, Ended
<1>14. CASE m # 0 /\ ~(d >= need)
  <2>1. off' = off + m /\ need' = need - d /\ tailat' = "skip" /\ out' = <<>> /\ off + m <= written
    BY <1>1, <1>6, <1>9, <1>14
  <2>2. need' \in Nat /\ need' > 0 /\ off' \in Nat
    BY <1>7, <1>9, <1>10, <1>14, <2>1
  <2>3. TailStates'
    BY <1>1, <1>7, <1>11, <2>1, <2>2, EmptySeq, StatesNext DEF TailStates
  <2>4. Units(off)' = Units(off + m)
    BY <1>11, <2>1 DEF Units, Newlines, Lines, tailFixed
  <2>5. need' + Cardinality(Units(off))' = N - 1
    BY <1>1, <1>7, <1>10, <2>1, <2>4
  <2>6. Skips'
    BY <1>1, <1>11, <2>1, <2>2, <2>5, SameTail DEF Skips
  <2> QED
    BY <2>1, <2>3, <2>6 DEF TailInv, Begins, Copied, Fills, Ended
<1> QED
  BY <1>12, <1>13, <1>14

LEMMA FillKeeps ==
    ASSUME TailInv, Fill
    PROVE  TailInv'
<1>1. /\ TailStates /\ tailat = "fill" /\ UNCHANGED <<tailFixed, writer, need, out>>
      /\ Filled /\ FromEnd /\ ~Nothing /\ out = <<>>
      /\ partial /\ off # fill => Regular /\ off - fill + N * LineSize + 1 \in st_size..written
  BY DEF TailInv, Fill, Fills
<1> DEFINE now(m) == [k \in 1..spcsize |->
                        IF k \in fill + 1..fill + m THEN off + k - fill ELSE buf[k]]
<1>2. PICK m \in Readable(spcsize - fill) :
          /\ off' = off + m
          /\ buf' = IF fill + m = spcsize /\ spcsize < alcmax THEN now(m) \o Zeroes(Chunk) ELSE now(m)
          /\ fill' = IF fill + m = spcsize /\ spcsize >= alcmax THEN 0 ELSE fill + m
          /\ partial' = (partial /\ ~(fill + m = spcsize /\ spcsize >= alcmax))
          /\ tailat' = IF m = 0 THEN "print" ELSE "fill"
  BY DEF Fill
<1>3. PICK s, f, o, z : s = spcsize /\ f = fill /\ o = off /\ z = alcmax
  OBVIOUS
<1>4. {s, f, o} \subseteq Nat /\ f < s /\ f <= o /\ o <= written /\ o <= TailMax /\ partial \in BOOLEAN
  <2>1. s \in Nat /\ f \in 0..s - 1 /\ o \in Nat /\ f <= o /\ o <= TailMax /\ partial \in BOOLEAN
    BY <1>1, <1>3, BufferFacts
  <2>2. o <= written
    BY <1>1, <1>3 DEF Filled
  <2> QED
    BY <2>1, <2>2
<1>5. /\ written \in Nat /\ N \in Nat /\ st_size \in Nat /\ st_size <= written
      /\ written <= TailMax /\ TailMax \in Nat /\ z \in Nat
  <2>1. LineSize \in Nat
    BY TailAssumption
  <2>2. /\ written \in Nat /\ N \in Nat /\ st_size \in Nat /\ st_size <= written
        /\ written <= TailMax /\ TailMax \in Nat
    BY <1>1, NumberIs
  <2>3. alcmax = IF Lines THEN LineSize * N + 1 ELSE N + 1
    BY DEF alcmax
  <2> QED
    BY <1>3, <2>1, <2>2, <2>3
<1>6. m \in Nat /\ m <= s - f /\ (m > 0 => o + m <= written) /\ (m = 0 => written <= o)
  <2>1. s - f \in Nat /\ s - f > 0
    BY <1>4
  <2> QED
    BY <1>1, <1>2, <1>3, <2>1, ReadableIs
<1>7. UNCHANGED tailFixed /\ written' = written /\ closed' = closed /\ need' = need /\ out' = out
  BY <1>1 DEF writer
<1>8. PICK b : b = now(m)
  OBVIOUS
<1>9. /\ b \in Seq(0..TailMax) /\ Len(b) = s
      /\ \A k \in 1..s : b[k] = IF k \in f + 1..f + m THEN o + k - f ELSE buf[k]
  <2>1. /\ b = [k \in 1..s |-> b[k]]
        /\ \A k \in 1..s : b[k] = IF k \in f + 1..f + m THEN o + k - f ELSE buf[k]
    BY <1>3, <1>8
  <2>2. ASSUME NEW k \in 1..s PROVE b[k] \in 0..TailMax
    <3>1. CASE k \in f + 1..f + m
      <4>1. b[k] = o + k - f
        BY <2>1, <3>1
      <4>2. m > 0 /\ k <= f + m /\ k >= f + 1
        BY <1>4, <1>6, <3>1
      <4> QED
        BY <1>4, <1>5, <1>6, <4>1, <4>2
    <3>2. CASE k \notin f + 1..f + m
      <4>1. b[k] = buf[k] /\ k \in 1..Len(buf) /\ buf \in Seq(0..TailMax)
        BY <1>1, <1>3, <2>1, <3>2 DEF TailStates, spcsize
      <4> QED
        BY <4>1, ElementOfSeq
    <3> QED
      BY <3>1, <3>2
  <2>3. b \in [1..s -> 0..TailMax]
    BY <2>1, <2>2
  <2>4. b \in Seq(0..TailMax)
    BY <1>4, <2>3, SeqDef
  <2>5. Len(b) = s
    BY <1>4, <2>3, <2>4, LenProperties
  <2> QED
    BY <2>1, <2>4, <2>5
\* What is in the buffer, at old places and at new ones.
<1>10. ASSUME NEW k \in 0..s - 1
       PROVE  /\ k < f + m => b[k + 1] = o - f + k + 1
              /\ k >= f + m /\ ~partial => b[k + 1] = o - f + k + 1 - s
  <2>1. k + 1 \in 1..s
    BY <1>4
  <2>2. CASE k < f
    <3>1. spc(k) = Pos(k)
      BY <1>1, <1>3, <1>4, <2>2 DEF Filled
    <3>2. Pos(k) = o - f + k + 1 /\ spc(k) = buf[k + 1]
      BY <1>3, <2>2 DEF Pos, spc
    <3>3. b[k + 1] = buf[k + 1]
      BY <1>4, <1>9, <2>1, <2>2
    <3> QED
      BY <1>4, <1>6, <2>2, <3>1, <3>2, <3>3
  <2>3. CASE k >= f /\ k < f + m
    <3>1. k + 1 \in f + 1..f + m
      BY <1>4, <1>6, <2>3
    <3>2. b[k + 1] = o + (k + 1) - f
      BY <1>9, <2>1, <3>1
    <3> QED
      BY <1>4, <1>6, <2>3, <3>2
  <2>4. CASE k >= f + m
    <3>1. SUFFICES ASSUME ~partial PROVE b[k + 1] = o - f + k + 1 - s
      BY <1>4, <1>6, <2>4
    <3>2. k \in fill..spcsize - 1
      BY <1>3, <1>4, <1>6, <2>4
    <3>3. spc(k) = Pos(k)
      BY <1>1, <3>1, <3>2 DEF Filled
    <3>4. ~(k < f)
      BY <1>4, <1>6, <2>4
    <3>5. Pos(k) = o - f + k + 1 - s /\ spc(k) = buf[k + 1]
      BY <1>3, <3>4 DEF Pos, spc
    <3>6. k + 1 \notin f + 1..f + m
      BY <1>4, <1>6, <2>4
    <3>7. b[k + 1] = buf[k + 1]
      BY <1>9, <2>1, <3>6
    <3> QED
      BY <3>3, <3>5, <3>7
  <2> QED
    BY <1>4, <1>6, <2>2, <2>3, <2>4
<1>11. PICK s2, f2, o2 : s2 = spcsize' /\ f2 = fill' /\ o2 = off'
  OBVIOUS
<1>12. o2 = o + m /\ o2 \in Nat /\ o2 <= written
  BY <1>2, <1>3, <1>4, <1>5, <1>6, <1>11
<1> HIDE DEF now
\* The new buffer is as the old one was.
<1>13. /\ buf' \in Seq(0..TailMax) /\ s2 = Len(buf') /\ s2 \in Nat /\ f2 \in 0..s2 - 1 /\ f2 <= o2
       /\ partial' \in BOOLEAN
       /\ \A k \in 0..f2 - 1 : buf'[k + 1] = o2 - f2 + k + 1
       /\ ~partial' => /\ s2 <= o2 /\ z <= s2
                       /\ \A k \in f2..s2 - 1 : buf'[k + 1] = o2 - f2 + k + 1 - s2
       /\ partial' => partial /\ o2 - f2 = o - f
  <2>1. s2 = Len(buf')
    BY <1>11 DEF spcsize
  <2>2. CASE f + m # s
    <3>1. buf' = b /\ f2 = f + m /\ (partial' <=> partial) /\ partial' \in BOOLEAN
      BY <1>2, <1>3, <1>4, <1>8, <1>11, <2>2
    <3>2. s2 = s
      BY <1>9, <2>1, <3>1
    <3>3. f2 \in 0..s2 - 1 /\ f2 <= o2 /\ o2 - f2 = o - f /\ s \in Nat
      BY <1>4, <1>6, <1>12, <2>2, <3>1, <3>2
    <3>4. ASSUME NEW k \in 0..f2 - 1 PROVE buf'[k + 1] = o2 - f2 + k + 1
      <4>1. k \in 0..s - 1 /\ k < f + m
        BY <1>4, <1>6, <3>1, <3>2, <3>3
      <4>2. b[k + 1] = o - f + k + 1
        BY <1>10, <4>1
      <4> QED
        BY <3>1, <3>3, <4>2
    <3>5. ASSUME ~partial' PROVE s2 <= o2 /\ z <= s2
      <4>1. s <= o /\ z <= s
        BY <1>1, <1>3, <3>1, <3>5 DEF Filled
      <4> QED
        BY <1>4, <1>5, <1>6, <1>12, <3>2, <4>1
    <3>6. ASSUME ~partial', NEW k \in f2..s2 - 1 PROVE buf'[k + 1] = o2 - f2 + k + 1 - s2
      <4>1. k \in 0..s - 1 /\ k >= f + m
        BY <1>4, <1>6, <3>1, <3>2, <3>3
      <4>2. b[k + 1] = o - f + k + 1 - s
        BY <1>10, <3>1, <3>6, <4>1
      <4> QED
        BY <3>1, <3>2, <3>3, <4>2
    <3> QED
      BY <1>9, <2>1, <3>1, <3>2, <3>3, <3>4, <3>5, <3>6
  <2>3. CASE f + m = s /\ s < z
    <3>1. ~(s >= z)
      BY <1>4, <1>5, <2>3
    <3>2. buf' = b \o Zeroes(Chunk) /\ f2 = s /\ (partial' <=> partial) /\ partial' \in BOOLEAN
      BY <1>2, <1>3, <1>4, <1>8, <1>11, <2>3, <3>1
    <3>3. partial
      <4>1. ~partial => z <= s
        BY <1>1, <1>3 DEF Filled
      <4> QED
        BY <1>4, <1>5, <2>3, <4>1
    <3>4. PICK y, c : y = Zeroes(Chunk) /\ c = Chunk
      OBVIOUS
    <3>8. c \in Nat /\ c > 0 /\ y \in Seq(0..TailMax) /\ Len(y) = c
      <4>1. c \in Nat /\ c > 0
        BY <3>4, TailAssumption
      <4>2. y \in [1..c -> 0..TailMax]
        BY <1>5, <3>4 DEF Zeroes
      <4>3. y \in Seq(0..TailMax)
        BY <4>1, <4>2, SeqDef
      <4> QED
        BY <4>1, <4>2, <4>3, LenProperties
    <3>9. buf' = b \o y
      BY <3>2, <3>4
    <3>10. /\ b \o y \in Seq(0..TailMax) /\ Len(b \o y) = Len(b) + Len(y)
           /\ \A k \in 1..Len(b) + Len(y) : (b \o y)[k] = IF k <= Len(b) THEN b[k] ELSE y[k - Len(b)]
      BY <1>9, <3>8, ConcatProperties
    <3>5. /\ buf' \in Seq(0..TailMax) /\ Len(buf') = s + c
          /\ \A k \in 1..s + c : buf'[k] = IF k <= s THEN b[k] ELSE y[k - s]
      BY <1>9, <3>8, <3>9, <3>10
    <3>11. s2 = s + c /\ f2 = s /\ {s, f, m, o} \subseteq Nat
      BY <1>4, <1>6, <2>1, <3>2, <3>5
    <3>6. s2 = s + c /\ s2 \in Nat /\ f2 \in 0..s2 - 1 /\ f2 <= o2 /\ o2 - f2 = o - f
      <4>1. f <= o /\ o2 = o + m
        BY <1>4, <1>12
      <4> QED
        BY <2>3, <3>8, <3>11, <4>1
    <3>7. ASSUME NEW k \in 0..f2 - 1 PROVE buf'[k + 1] = o2 - f2 + k + 1
      <4>1. k \in 0..s - 1 /\ k < f + m /\ k + 1 \in 1..s + c /\ k + 1 <= s
        BY <2>3, <3>2, <3>8, <3>11
      <4>2. b[k + 1] = o - f + k + 1
        BY <1>10, <4>1
      <4> QED
        BY <3>5, <3>6, <4>1, <4>2
    <3> QED
      BY <2>1, <3>2, <3>3, <3>5, <3>6, <3>7
  <2>4. CASE f + m = s /\ ~(s < z)
    <3>1. s >= z
      BY <1>4, <1>5, <2>4
    <3>2. buf' = b /\ f2 = 0 /\ ~partial' /\ partial' \in BOOLEAN
      BY <1>2, <1>3, <1>4, <1>8, <1>11, <2>4, <3>1
    <3>3. s2 = s /\ f2 \in 0..s2 - 1 /\ f2 <= o2 /\ s \in Nat /\ s2 <= o2 /\ z <= s2
      BY <1>4, <1>5, <1>6, <1>9, <1>12, <2>1, <2>4, <3>1, <3>2
    <3>4. ASSUME NEW k \in f2..s2 - 1 PROVE buf'[k + 1] = o2 - f2 + k + 1 - s2
      <4>1. k \in 0..s - 1 /\ k < f + m
        BY <1>4, <1>6, <2>4, <3>2, <3>3
      <4>2. b[k + 1] = o - f + k + 1
        BY <1>10, <4>1
      <4>3. o2 - f2 + k + 1 - s2 = o - f + k + 1
        BY <1>4, <1>6, <1>12, <2>4, <3>2, <3>3, <4>1
      <4> QED
        BY <3>2, <4>2, <4>3
    <3>5. \A k : k \notin 0..f2 - 1
      BY <3>2
    <3> QED
      BY <1>9, <2>1, <3>2, <3>3, <3>4, <3>5
  <2> QED
    BY <2>2, <2>3, <2>4
<1>18. /\ s2 \in Nat /\ f2 \in 0..s2 - 1 /\ f2 \in Nat /\ o2 \in Nat /\ o2 <= written /\ f2 <= o2
       /\ spcsize' = s2 /\ fill' = f2 /\ off' = o2
  BY <1>11, <1>12, <1>13
<1>19. /\ {s, f, o, m, st_size, written} \subseteq Nat /\ o2 = o + m /\ st_size <= written
       /\ f <= o /\ (m = 0 => written <= o)
  BY <1>4, <1>5, <1>6, <1>12
<1>14. tailat' = (IF m = 0 THEN "print" ELSE "fill") /\ off' = o2
  BY <1>2, <1>11
<1>15. TailStates'
  <2>1. fill' \in 0..Len(buf') /\ off' \in Nat
    BY <1>11, <1>12, <1>13
  <2>2. tailat' \in {"start", "skip", "fill", "print", "copy", "follow", "end"}
    BY <1>14
  <2>3. written <= written' /\ written' \in 0..TailMax /\ need' \in Nat /\ closed' \in BOOLEAN
    BY <1>1, <1>5, <1>7 DEF TailStates
  <2> QED
    BY <1>1, <1>7, <1>13, <2>1, <2>2, <2>3, StatesNext
<1>16. Filled'
  <2>1. fill' \in 0..spcsize' - 1 /\ fill' <= off' /\ off' <= written'
    BY <1>7, <1>18
  <2>2. ASSUME NEW k \in 0..fill' - 1 PROVE spc(k)' = Pos(k)'
    <3>1. k < fill' /\ k \in 0..f2 - 1
      BY <1>18
    <3>2. Pos(k)' = o2 - f2 + k + 1 /\ spc(k)' = buf'[k + 1]
      BY <1>11, <3>1 DEF Pos, spc
    <3> QED
      BY <1>13, <3>1, <3>2
  <2>3. ASSUME ~partial'
        PROVE  /\ spcsize' <= off' /\ alcmax' <= spcsize'
               /\ \A k \in fill'..spcsize' - 1 : spc(k)' = Pos(k)'
    <3>1. alcmax' = z
      BY <1>3, <1>7, SameTail DEF alcmax
    <3>2. ASSUME NEW k \in fill'..spcsize' - 1 PROVE spc(k)' = Pos(k)'
      <4>1. ~(k < fill') /\ k \in f2..s2 - 1
        BY <1>18
      <4>2. Pos(k)' = o2 - f2 + k + 1 - s2 /\ spc(k)' = buf'[k + 1]
        BY <1>11, <4>1 DEF Pos, spc
      <4> QED
        BY <1>13, <2>3, <4>1, <4>2
    <3> QED
      BY <1>11, <1>13, <2>3, <3>1, <3>2
  <2>4. partial' /\ off' # fill' => Lines'
    <3>1. partial' /\ off' # fill' => partial /\ off # fill
      BY <1>3, <1>4, <1>11, <1>12, <1>13
    <3>2. partial /\ off # fill => Lines
      BY <1>1 DEF Filled
    <3> QED
      BY <1>7, <3>1, <3>2, SameTail
  <2>5. ~Lines' => ~Regular'
    BY <1>1, <1>7, SameTail DEF Filled
  <2> QED
    BY <2>1, <2>2, <2>3, <2>4, <2>5 DEF Filled
<1>17. Fills'
  <2>1. PICK x \in Nat : x = N * LineSize
    BY <1>5, TailAssumption
  <2>2. partial' /\ off' # fill' => Regular /\ o - f + x + 1 \in st_size..written /\ o2 - f2 = o - f
    <3>1. partial' /\ off' # fill' => partial /\ off # fill /\ o2 - f2 = o - f
      BY <1>3, <1>4, <1>11, <1>12, <1>13
    <3> QED
      BY <1>1, <1>3, <2>1, <3>1
  <2>3. N' * LineSize = x /\ (Regular' <=> Regular) /\ st_size' = st_size /\ FromEnd' /\ ~Nothing' /\ out' = <<>>
    BY <1>1, <1>7, <2>1, SameTail
  <2>4. m = 0 => st_size <= o2
    BY <1>19
  <2>5. m = 0 /\ partial' /\ off' # fill' => x < f2
    <3>1. SUFFICES ASSUME m = 0, o - f + x + 1 \in st_size..written, o2 - f2 = o - f PROVE x < f2
      BY <2>2
    <3>2. o2 - f2 + x + 1 <= o /\ o2 = o
      BY <1>18, <1>19, <2>1, <3>1
    <3> QED
      BY <1>18, <1>19, <2>1, <3>2
  <2> QED
    BY <1>7, <1>11, <1>14, <1>16, <2>2, <2>3, <2>4, <2>5 DEF Fills
<1> QED
  BY <1>14, <1>15, <1>17 DEF TailInv, Begins, Skips, Copied, Ended

LEMMA ShowTailKeeps ==
    ASSUME TailInv, ShowTail
    PROVE  TailInv'
<1>1. /\ TailStates /\ tailat = "print" /\ UNCHANGED <<tailFixed, writer, off, need, buffer>>
      /\ Filled /\ FromEnd /\ ~Nothing /\ out = <<>>
      /\ st_size <= off /\ (partial /\ off # fill => N * LineSize < fill)
      /\ tailat' = AfterTail
  BY DEF TailInv, ShowTail, Fills
<1>2. /\ UNCHANGED tailFixed /\ written' = written /\ closed' = closed /\ need' = need /\ off' = off
      /\ buf' = buf /\ fill' = fill /\ partial' = partial
  BY <1>1 DEF writer, buffer
<1>3. tailat' \in {"follow", "end"} /\ (tailat' = "follow" => tailopt.f) /\ (tailopt.r => tailat' = "end")
  BY <1>1, NumberIs DEF AfterTail
<1>4. /\ off \in Nat /\ written \in Nat /\ N \in Nat /\ st_size \in Nat /\ off <= written
      /\ off \in st_size..written
  BY <1>1, NumberIs DEF Filled
<1>5. PICK len : len = off
  OBVIOUS
<1>6. len \in EndsRead'
  <2>1. len \in st_size'..off' /\ len = off'
    BY <1>2, <1>4, <1>5, SameTail
  <2> QED
    BY <2>1 DEF EndsRead
<1> SUFFICES Ended'
  <2>1. TailStates'
    BY <1>1, <1>2, <1>3, <1>4, StatesNext DEF TailStates
  <2> QED
    BY <1>3, <2>1 DEF TailInv, Begins, Skips, Copied, Fills
<1>7. CASE ~tailopt.r /\ (Lines => Fits(off))
  <2>1. out' = Rest(IF Lines THEN StartOfLines ELSE StartOfChars)
    BY <1>7 DEF ShowTail
  <2>2. Beginning(off) \in 1..off + 1 /\ out' = From(Beginning(off), off)
    BY <1>1, <1>7, <2>1, LinesAreShown, CharsAreShown
  <2>3. Shown(len)'
    <3>1. PICK b : b = Beginning(len)
      OBVIOUS
    <3>2. b \in Nat /\ b <= off' + 1 /\ out' = From(b, off') /\ Beginning(len)' = b
      BY <1>2, <1>4, <1>5, <2>2, <3>1, SameTail
    <3> QED
      BY <3>2 DEF Shown
  <2> QED
    BY <1>1, <1>2, <1>3, <1>6, <1>7, <2>3, SameTail DEF Ended
<1>8. CASE Lines /\ ~Fits(off)
  <2>1. ~Fits(len)'
    BY <1>2, <1>5, <1>8, SameTail
  <2> QED
    BY <1>1, <1>2, <1>3, <1>6, <1>8, <2>1, SameTail DEF Ended
<1>9. CASE tailopt.r /\ Lines /\ Fits(off) /\ off # 0
  <2>1. PICK b \in Incomplete : out' = Reversed(b)
    BY <1>9 DEF ShowTail
  <2>2. N # 0
    BY <1>1, <1>9, NumberIs DEF Nothing
  <2>3. out' = Backward(off)
    BY <1>1, <1>9, <2>1, <2>2, ReversedIsBackward
  <2>4. out' = Backward(len)'
    BY <1>2, <1>5, <2>3, SameTail
  <2> QED
    BY <1>1, <1>2, <1>3, <1>6, <1>9, <2>4, SameTail DEF Ended
<1>10. CASE tailopt.r /\ off = 0
  <2>1. ~(len > 0)
    BY <1>5, <1>10
  <2> QED
    BY <1>1, <1>2, <1>3, <1>6, <1>10, <2>1, SameTail DEF Ended
<1>11. tailopt.r => Lines
  BY <1>1, NumberIs
<1> QED
  BY <1>7, <1>8, <1>9, <1>10, <1>11

-----------------------------------------------------------------------------
(* tail: the theorems *)

\* Nothing but the steps changes what the invariant is about.
LEMMA TailStepKeeps ==
    ASSUME TailInv, [TailNext]_tailVars
    PROVE  TailInv'
<1>1. CASE StartNothing
  BY <1>1, StartNothingKeeps
<1>2. CASE StartEnd
  BY <1>2, StartEndKeeps
<1>3. CASE StartBegin
  BY <1>3, StartBeginKeeps
<1>4. CASE Skip
  BY <1>4, SkipKeeps
<1>5. CASE Copy
  BY <1>5, CopyKeeps
<1>6. CASE Follow
  BY <1>6, FollowKeeps
<1>7. CASE Fill
  BY <1>7, FillKeeps
<1>8. CASE ShowTail
  BY <1>8, ShowTailKeeps
<1>9. CASE Append1 \/ Close
  BY <1>9, WriterKeeps
<1>10. CASE UNCHANGED tailVars
  <2>1. /\ UNCHANGED tailFixed /\ written' = written /\ closed' = closed /\ need' = need /\ off' = off
        /\ tailat' = tailat /\ out' = out /\ buf' = buf /\ fill' = fill /\ partial' = partial
    BY <1>10 DEF tailVars, writer, buffer
  <2>2. TailStates'
    <3>1. written <= written'
      BY <2>1, NumberIs DEF TailInv
    <3> QED
      BY <2>1, <3>1, StatesNext DEF TailInv, TailStates
  <2>3. Ended' /\ \A len : Shown(len) => Shown(len)'
    <3>1. written <= written'
      BY <2>1, NumberIs DEF TailInv
    <3> QED
      BY <2>1, <2>2, <3>1, EndedStays DEF TailInv
  <2>4. Filled => Filled'
    <3>1. spcsize' = spcsize /\ alcmax' = alcmax /\ \A k : spc(k)' = spc(k) /\ Pos(k)' = Pos(k)
      BY <2>1, SameTail DEF spcsize, alcmax, spc, Pos
    <3> QED
      BY <2>1, <3>1, SameTail DEF Filled
  <2>5. Begins' /\ Copied'
    BY <2>1, <2>3, SameTail DEF TailInv, Begins, Copied
  <2>6. Skips' /\ Fills'
    BY <2>1, <2>4, SameTail DEF TailInv, Skips, Fills
  <2> QED
    BY <2>2, <2>3, <2>5, <2>6 DEF TailInv
<1> QED
  BY <1>1, <1>2, <1>3, <1>4, <1>5, <1>6, <1>7, <1>8, <1>9, <1>10 DEF TailNext, TailStep

LEMMA EndedShowsTheTail ==
    ASSUME TailInv
    PROVE  ShowsTheTail
<1> SUFFICES ASSUME tailat \in {"follow", "end"}
             PROVE  /\ Nothing => ShownAll
                    /\ ~Nothing => \E len \in EndsRead :
                            \/ ~tailopt.r /\ out = From(Beginning(len), off)
                            \/ tailopt.r /\ (len > 0 => out = Backward(len))
                            \/ FromEnd /\ Lines /\ ~Fits(len)
  BY DEF ShowsTheTail, ShownAll
<1>1. \A len : Shown(len) => out = From(Beginning(len), off)
  BY DEF Shown
<1> QED
  BY <1>1 DEF TailInv, Ended

\* The buffer of endtail() holds what was read last, each character at the place
\* that its distance from the end gives it, whatever sizes the reads had and
\* whenever the buffer grew or was written over; begintail() has passed over as
\* many lines or characters as it has counted down.
THEOREM TailInvariant == TailSpec => []TailInv
<1>1. TailInit => TailInv
  BY TailBegins
<1>2. TailInv /\ [TailNext]_tailVars => TailInv'
  BY TailStepKeeps
<1> QED
  BY <1>1, <1>2, PTL DEF TailSpec

\* When tail has come to the end, it has printed the last or first lines or
\* characters asked for, backwards with -r, and all that was written after them,
\* in order and once, for every input, number, buffer size and size of the reads.
THEOREM TheTailIsShown == TailSpec => []ShowsTheTail
<1>1. TailInv => ShowsTheTail
  BY EndedShowsTheTail
<1> QED
  BY <1>1, TailInvariant, PTL

=============================================================================
