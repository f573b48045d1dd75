-------------------------- MODULE SequenceLemmas --------------------------
(***************************************************************************)
(* What the proofs of several components need of sequences and of numbers. *)
(***************************************************************************)
EXTENDS Integers, SequencesExt, SequenceTheorems, WellFoundedInduction, TLAPS

-----------------------------------------------------------------------------
(* Sequences that are stacks *)

LEMMA FrontFacts ==
    ASSUME NEW S, NEW s \in Seq(S), s # <<>>
    PROVE  /\ Front(s) \in Seq(S)
           /\ Len(s) \in Nat \ {0} /\ Len(Front(s)) = Len(s) - 1
           /\ DOMAIN Front(s) = 1..Len(s) - 1
           /\ \A i \in 1..Len(s) - 1 : Front(s)[i] = s[i]
           /\ Last(s) = s[Len(s)] /\ Last(s) \in S
<1> DEFINE n == Len(s) - 1
<1>1. Len(s) \in Nat \ {0} /\ n \in Nat
  BY EmptySeq
<1>2. \A i \in 1..Len(s) : s[i] \in S
  BY ElementOfSeq
<1>3. \A i \in 1..n : s[i] \in S
  BY <1>1, <1>2
<1>4. /\ SubSeq(s, 1, n) \in Seq(S) /\ Len(SubSeq(s, 1, n)) = n
      /\ \A i \in 1..n : SubSeq(s, 1, n)[i] = s[i]
  <2> HIDE DEF n
  <2>1. /\ SubSeq(s, 1, n) \in Seq(S)
        /\ Len(SubSeq(s, 1, n)) = IF 1 <= n THEN n - 1 + 1 ELSE 0
        /\ \A i \in 1..n - 1 + 1 : SubSeq(s, 1, n)[i] = s[1 + i - 1]
    BY <1>1, <1>3, SubSeqProperties
  <2>2. n - 1 + 1 = n /\ \A i \in 1..n : 1 + i - 1 = i
    BY <1>1
  <2>3. (1 <= n) \/ n = 0
    BY <1>1
  <2> QED
    BY <2>1, <2>2, <2>3
<1>5. Front(s) = SubSeq(s, 1, n)
  BY DEF Front
<1>6. Last(s) = s[Len(s)] /\ Last(s) \in S
  BY <1>1, <1>2 DEF Last
<1>7. DOMAIN Front(s) = 1..Len(Front(s))
  BY <1>4, <1>5, LenProperties
<1> QED
  BY <1>1, <1>4, <1>5, <1>6, <1>7

LEMMA ReplacedFacts ==
    ASSUME NEW S, NEW s \in Seq(S), NEW i \in 1..Len(s), NEW e \in S
    PROVE  /\ [s EXCEPT ![i] = e] \in Seq(S)
           /\ Len([s EXCEPT ![i] = e]) = Len(s)
           /\ [s EXCEPT ![i] = e] # <<>>
           /\ DOMAIN [s EXCEPT ![i] = e] = 1..Len(s)
           /\ \A j \in 1..Len(s) : [s EXCEPT ![i] = e][j] = IF j = i THEN e ELSE s[j]
<1>1. /\ [s EXCEPT ![i] = e] \in Seq(S) /\ Len([s EXCEPT ![i] = e]) = Len(s)
      /\ \A j \in 1..Len(s) : [s EXCEPT ![i] = e][j] = IF j = i THEN e ELSE s[j]
  BY ExceptSeq
<1> QED
  BY <1>1, LenProperties, EmptySeq

LEMMA AppendFacts ==
    ASSUME NEW S, NEW s \in Seq(S), NEW e \in S
    PROVE  /\ Append(s, e) \in Seq(S) /\ Append(s, e) # <<>>
           /\ Len(Append(s, e)) = Len(s) + 1
           /\ DOMAIN Append(s, e) = 1..Len(s) + 1
           /\ Append(s, e)[Len(s) + 1] = e
           /\ \A j \in 1..Len(s) : Append(s, e)[j] = s[j]
<1>1. Len(s) \in Nat
  BY LenProperties
<1> QED
  BY <1>1, AppendProperties, LenProperties, EmptySeq

LEMMA RemoveAtFacts ==
    ASSUME NEW S, NEW s \in Seq(S), NEW i \in 1..Len(s)
    PROVE  /\ RemoveAt(s, i) \in Seq(S)
           /\ Len(RemoveAt(s, i)) = Len(s) - 1
           /\ DOMAIN RemoveAt(s, i) = 1..Len(s) - 1
           /\ \A k \in 1..Len(s) - 1 : RemoveAt(s, i)[k] = IF k < i THEN s[k] ELSE s[k + 1]
<1>1. PICK n \in Nat : n = Len(s)
  BY LenProperties
<1>2. \A k \in 1..n : s[k] \in S
  BY <1>1, ElementOfSeq
<1>3. i \in 1..n /\ n - 1 \in Nat
  BY <1>1
<1>4. PICK t : t = SubSeq(s, 1, i - 1)
  OBVIOUS
<1>5. t \in Seq(S) /\ Len(t) = i - 1 /\ \A k \in 1..i - 1 : t[k] = s[k]
  <2>1. \A k \in 1..i - 1 : s[k] \in S
    BY <1>2, <1>3
  <2>2. /\ t \in Seq(S) /\ Len(t) = IF 1 <= i - 1 THEN (i - 1) - 1 + 1 ELSE 0
        /\ \A k \in 1..(i - 1) - 1 + 1 : t[k] = s[1 + k - 1]
    BY <1>3, <1>4, <2>1, SubSeqProperties
  <2>3. (i - 1) - 1 + 1 = i - 1 /\ (1 <= i - 1 \/ i - 1 = 0)
    BY <1>3
  <2>4. \A k \in 1..i - 1 : 1 + k - 1 = k
    BY <1>3
  <2> QED
    BY <2>2, <2>3, <2>4
<1>6. PICK u : u = SubSeq(s, i + 1, n)
  OBVIOUS
<1>7. u \in Seq(S) /\ Len(u) = n - i /\ \A k \in 1..n - i : u[k] = s[i + k]
  <2>1. \A k \in i + 1..n : s[k] \in S
    BY <1>2, <1>3
  <2>2. /\ u \in Seq(S) /\ Len(u) = IF i + 1 <= n THEN n - (i + 1) + 1 ELSE 0
        /\ \A k \in 1..n - (i + 1) + 1 : u[k] = s[(i + 1) + k - 1]
    BY <1>3, <1>6, <2>1, SubSeqProperties
  <2>3. n - (i + 1) + 1 = n - i /\ (i + 1 <= n \/ n - i = 0)
    BY <1>3
  <2>4. \A k \in 1..n - i : (i + 1) + k - 1 = i + k
    BY <1>3
  <2> QED
    BY <2>2, <2>3, <2>4
<1>8. RemoveAt(s, i) = t \o u
  BY <1>1, <1>4, <1>6 DEF RemoveAt
<1>9. /\ t \o u \in Seq(S) /\ Len(t \o u) = Len(t) + Len(u)
      /\ \A k \in 1..Len(t) + Len(u) : (t \o u)[k] = IF k <= Len(t) THEN t[k] ELSE u[k - Len(t)]
  BY <1>5, <1>7, ConcatProperties
<1>10. Len(t) + Len(u) = n - 1
  BY <1>3, <1>5, <1>7
<1>11. ASSUME NEW k \in 1..n - 1
       PROVE  (t \o u)[k] = IF k < i THEN s[k] ELSE s[k + 1]
  <2>1. CASE k < i
    <3>1. k <= i - 1 /\ k \in 1..i - 1
      BY <1>3, <2>1
    <3> QED
      BY <1>5, <1>9, <1>10, <2>1, <3>1
  <2>2. CASE ~(k < i)
    <3>1. ~(k <= i - 1) /\ k - (i - 1) \in 1..n - i /\ i + (k - (i - 1)) = k + 1
      BY <1>3, <2>2
    <3>2. (t \o u)[k] = u[k - (i - 1)]
      BY <1>5, <1>9, <1>10, <3>1
    <3> QED
      BY <1>7, <2>2, <3>1, <3>2
  <2> QED
    BY <2>1, <2>2
<1>12. DOMAIN (t \o u) = 1..n - 1
  BY <1>9, <1>10, LenProperties
<1> QED
  BY <1>1, <1>8, <1>9, <1>10, <1>11, <1>12

-----------------------------------------------------------------------------
(* Induction, over sets *)

LEMMA SetInduction ==
    ASSUME NEW S, 0 \in S, \A n \in Nat : n \in S => n + 1 \in S
    PROVE  Nat \subseteq S
<1> DEFINE T == Nat \ S
<1>1. SUFFICES ASSUME T # {} PROVE FALSE
  OBVIOUS
<1>2. T \subseteq Nat
  OBVIOUS
<1>3. \E x \in T : \A y \in T : ~ (<<y, x>> \in OpToRel(<, Nat))
  BY <1>1, <1>2, NatLessThanWellFounded, WFMin
<1>4. PICK x \in T : \A y \in T : ~ (<<y, x>> \in OpToRel(<, Nat))
  BY <1>3
<1>5. x # 0 /\ x \in Nat /\ x - 1 \in Nat /\ x - 1 \in T
  OBVIOUS
<1>6. <<x - 1, x>> \in OpToRel(<, Nat)
  BY <1>5 DEF OpToRel
<1> QED
  BY <1>4, <1>5, <1>6

\* A set of numbers that is not empty has a least one.
LEMMA LeastNumber ==
    ASSUME NEW T, T \subseteq Nat, T # {}
    PROVE  \E x \in T : \A y \in T : x <= y
<1>1. PICK x \in T : \A y \in T : ~ (<<y, x>> \in OpToRel(<, Nat))
  BY NatLessThanWellFounded, WFMin
<1>2. ASSUME NEW y \in T PROVE x <= y
  <2>1. x \in Nat /\ y \in Nat
    OBVIOUS
  <2>2. ~(y < x)
    BY <1>1, <2>1 DEF OpToRel
  <2> QED
    BY <2>1, <2>2
<1> QED
  BY <1>2

-----------------------------------------------------------------------------
(* Functions that are defined by recursion on a number *)

\* F makes a value of X of a number up to n and the value for the number before.
StepFunction(F, n, X) == F \in [(1..n) \X X -> X]

\* g is what comes of it, beginning with x.
Unrolled(g, F, n, X, x) ==
    /\ g \in [0..n -> X]
    /\ g[0] = x
    /\ \A k \in 1..n : g[k] = F[<<k, g[k - 1]>>]

LEMMA RecursionExists ==
    ASSUME NEW n \in Nat, NEW X, NEW x \in X, NEW F, StepFunction(F, n, X)
    PROVE  \E g : Unrolled(g, F, n, X, x)
<1> USE DEF StepFunction
<1> DEFINE Good(m, g) == g[0] = x /\ \A k \in 1..m : g[k] = F[<<k, g[k - 1]>>]
           P == {m \in Nat : m <= n => \E g \in [0..m -> X] : Good(m, g)}
<1>1. 0 \in P
  <2>1. [k \in 0..0 |-> x] \in [0..0 -> X] /\ Good(0, [k \in 0..0 |-> x])
    OBVIOUS
  <2> QED
    BY <2>1
<1>2. ASSUME NEW m \in Nat, m \in P PROVE m + 1 \in P
  <2> SUFFICES ASSUME m + 1 <= n PROVE \E g \in [0..m + 1 -> X] : Good(m + 1, g)
    OBVIOUS
  <2>1. PICK g \in [0..m -> X] : Good(m, g)
    BY <1>2
  <2>2. PICK y : y = F[<<m + 1, g[m]>>]
    OBVIOUS
  <2>3. y \in X
    <3>1. m + 1 \in 1..n /\ m \in 0..m
      OBVIOUS
    <3>2. g[m] \in X
      BY <3>1
    <3>3. <<m + 1, g[m]>> \in (1..n) \X X
      BY <3>1, <3>2
    <3> QED
      BY <2>2, <3>3
  <2>4. PICK h : h = [k \in 0..m + 1 |-> IF k = m + 1 THEN y ELSE g[k]]
    OBVIOUS
  <2>5. h \in [0..m + 1 -> X]
    BY <2>3, <2>4
  <2>6. h[0] = x
    BY <2>1, <2>4
  <2>7. ASSUME NEW k \in 1..m + 1 PROVE h[k] = F[<<k, h[k - 1]>>]
    <3>1. k - 1 \in 0..m /\ h[k - 1] = g[k - 1]
      BY <2>4
    <3>2. CASE k = m + 1
      <4>1. k - 1 = m /\ k \in 0..m + 1
        BY <3>2
      <4>2. h[k] = y /\ h[k - 1] = g[m]
        BY <2>4, <3>1, <3>2, <4>1
      <4>3. <<m + 1, g[m]>> = <<k, h[k - 1]>>
        BY <3>2, <4>2
      <4> QED
        BY <2>2, <4>2, <4>3
    <3>3. CASE k # m + 1
      <4>1. k \in 1..m
        BY <3>3
      <4> QED
        BY <2>1, <2>4, <3>1, <4>1
    <3> QED
      BY <3>2, <3>3
  <2> QED
    BY <2>5, <2>6, <2>7
<1>3. Nat \subseteq P
  <2> HIDE DEF P
  <2> QED
    BY <1>1, <1>2, SetInduction
<1>4. PICK g \in [0..n -> X] : Good(n, g)
  BY <1>3
<1> QED
  BY <1>4 DEF Unrolled

LEMMA RecursionUnique ==
    ASSUME NEW n \in Nat, NEW F, NEW g, NEW h, g[0] = h[0],
           \A k \in 1..n : g[k] = F[<<k, g[k - 1]>>] /\ h[k] = F[<<k, h[k - 1]>>]
    PROVE  \A k \in 0..n : g[k] = h[k]
<1> DEFINE P == {m \in Nat : m <= n => g[m] = h[m]}
<1>1. 0 \in P
  OBVIOUS
<1>2. ASSUME NEW m \in Nat, m \in P PROVE m + 1 \in P
  <2> SUFFICES ASSUME m + 1 <= n PROVE g[m + 1] = h[m + 1]
    OBVIOUS
  <2>1. PICK k \in 1..n : k = m + 1 /\ k - 1 = m
    OBVIOUS
  <2>2. g[k - 1] = h[k - 1]
    BY <1>2, <2>1
  <2>3. g[k] = h[k]
    BY <2>2
  <2> QED
    BY <2>1, <2>3
<1>3. Nat \subseteq P
  <2> HIDE DEF P
  <2> QED
    BY <1>1, <1>2, SetInduction
<1> QED
  BY <1>3

\* FlattenSeq puts the sequences one after the other.
LEMMA FlattenParts ==
    ASSUME NEW S, NEW s \in Seq(Seq(S))
    PROVE  \E g \in [0..Len(s) -> Seq(S)] :
               /\ g[0] = <<>> /\ FlattenSeq(s) = g[Len(s)]
               /\ \A k \in 1..Len(s) : g[k] = g[k - 1] \o s[k]
<1>1. PICK n \in Nat : n = Len(s)
  BY LenProperties
<1>2. \A k \in 1..n : s[k] \in Seq(S)
  BY <1>1, ElementOfSeq
<1>3. PICK F : F = [ky \in (1..n) \X Seq(S) |-> ky[2] \o s[ky[1]]]
  OBVIOUS
<1>4. StepFunction(F, n, Seq(S))
  BY <1>2, <1>3, ConcatProperties DEF StepFunction
<1>5. <<>> \in Seq(S)
  BY EmptySeq
<1>6. PICK g \in [0..n -> Seq(S)] :
          g[0] = <<>> /\ \A k \in 1..n : g[k] = F[<<k, g[k - 1]>>]
  <2>1. \E g : Unrolled(g, F, n, Seq(S), <<>>)
    BY <1>4, <1>5, RecursionExists
  <2> QED
    BY <2>1 DEF Unrolled
<1>7. ASSUME NEW k \in 1..n PROVE g[k - 1] \in Seq(S) /\ g[k] = g[k - 1] \o s[k]
  <2>1. k - 1 \in 0..n
    OBVIOUS
  <2>2. g[k - 1] \in Seq(S)
    BY <2>1
  <2> QED
    BY <1>3, <1>6, <2>2
<1>8. CASE n = 0
  <2>1. s = <<>>
    BY <1>1, <1>8, EmptySeq
  <2>2. FlattenSeq(s) = s
    BY <1>1, <1>8 DEF FlattenSeq
  <2> QED
    BY <1>1, <1>6, <1>7, <1>8, <2>1, <2>2
<1>9. CASE n # 0
  <2> DEFINE Step(f) == [k \in 1..n |-> IF k = 1 THEN s[k] ELSE f[k - 1] \o s[k]]
  <2>1. PICK f : f = [k \in 1..n |-> g[k]]
    OBVIOUS
  <2>2. f = Step(f)
    <3>1. ASSUME NEW k \in 1..n PROVE f[k] = IF k = 1 THEN s[k] ELSE f[k - 1] \o s[k]
      <4>1. CASE k = 1
        <5>1. k - 1 = 0
          BY <4>1
        <5>2. g[k - 1] = <<>>
          BY <1>6, <5>1
        <5>3. g[k] = <<>> \o s[k]
          BY <1>7, <5>2
        <5>4. <<>> \o s[k] = s[k]
          BY <1>2, ConcatEmptySeq
        <5> QED
          BY <2>1, <4>1, <5>3, <5>4
      <4>2. CASE k # 1
        <5>1. k - 1 \in 1..n
          BY <4>2
        <5> QED
          BY <1>7, <2>1, <4>2, <5>1
      <4> QED
        BY <4>1, <4>2
    <3> QED
      BY <2>1, <3>1
  <2>3. PICK h : h = CHOOSE e : e = Step(e)
    OBVIOUS
  <2>4. h = Step(h)
    BY <2>2, <2>3
  <2>5. FlattenSeq(s) = h[n]
    BY <1>1, <1>9, <2>3 DEF FlattenSeq
  <2> DEFINE P == {m \in Nat : m + 1 <= n => h[m + 1] = g[m + 1]}
  <2>6. \A k \in 1..n : h[k] = IF k = 1 THEN s[k] ELSE h[k - 1] \o s[k]
    BY <2>4
  <2>7. \A k \in 1..n : f[k] = IF k = 1 THEN s[k] ELSE f[k - 1] \o s[k]
    BY <2>2
  <2>8. 0 \in P
    BY <2>1, <2>6, <2>7
  <2>9. ASSUME NEW m \in Nat, m \in P PROVE m + 1 \in P
    <3> SUFFICES ASSUME m + 1 + 1 <= n PROVE h[m + 1 + 1] = g[m + 1 + 1]
      OBVIOUS
    <3>1. PICK k \in 1..n : k = m + 1 + 1 /\ k - 1 = m + 1 /\ k # 1
      OBVIOUS
    <3>2. m + 1 <= n
      OBVIOUS
    <3>3. h[k - 1] = g[k - 1]
      BY <2>9, <3>1, <3>2
    <3>4. h[k] = h[k - 1] \o s[k] /\ g[k] = g[k - 1] \o s[k]
      BY <1>7, <2>6, <3>1
    <3> QED
      BY <3>1, <3>3, <3>4
  <2>10. Nat \subseteq P
    <3> HIDE DEF P
    <3> QED
      BY <2>8, <2>9, SetInduction
  <2>11. n - 1 \in Nat /\ n - 1 + 1 = n
    BY <1>9
  <2>12. h[n] = g[n]
    <3>1. n - 1 \in P
      BY <2>10, <2>11
    <3> QED
      BY <2>11, <3>1
  <2> QED
    BY <1>1, <1>6, <1>7, <2>5, <2>12
<1> QED
  BY <1>8, <1>9

-----------------------------------------------------------------------------
(* Prefixes *)

LEMMA PrefixFacts ==
    ASSUME NEW S, NEW s \in Seq(S), NEW t \in Seq(S)
    PROVE  IsPrefix(s, t) <=> Len(s) <= Len(t) /\ \A i \in 1..Len(s) : s[i] = t[i]
<1>1. PICK m \in Nat, n \in Nat : m = Len(s) /\ n = Len(t)
  BY LenProperties
<1>2. \A i \in 1..m : s[i] \in S
  BY <1>1, ElementOfSeq
<1>3. \A i \in 1..n : t[i] \in S
  BY <1>1, ElementOfSeq
<1>4. PICK u : u = SubSeq(s, 1, m)
  OBVIOUS
<1>5. u \in Seq(S) /\ Len(u) = m /\ \A i \in 1..m : u[i] = s[i]
  <2>1. /\ u \in Seq(S) /\ Len(u) = IF 1 <= m THEN m - 1 + 1 ELSE 0
        /\ \A i \in 1..m - 1 + 1 : u[i] = s[1 + i - 1]
    BY <1>2, <1>4, SubSeqProperties
  <2>2. Len(u) = m
    BY <2>1
  <2>3. \A i \in 1..m : i \in 1..m - 1 + 1 /\ 1 + i - 1 = i
    OBVIOUS
  <2> QED
    BY <2>1, <2>2, <2>3
<1>6. CASE m <= n
  <2>1. PICK v : v = SubSeq(t, 1, m)
    OBVIOUS
  <2>2. v \in Seq(S) /\ Len(v) = m /\ \A i \in 1..m : v[i] = t[i]
    <3>1. \A i \in 1..m : t[i] \in S
      BY <1>3, <1>6
    <3>2. /\ v \in Seq(S) /\ Len(v) = IF 1 <= m THEN m - 1 + 1 ELSE 0
          /\ \A i \in 1..m - 1 + 1 : v[i] = t[1 + i - 1]
      BY <2>1, <3>1, SubSeqProperties
    <3>3. Len(v) = m
      BY <3>2
    <3>4. \A i \in 1..m : i \in 1..m - 1 + 1 /\ 1 + i - 1 = i
      OBVIOUS
    <3> QED
      BY <3>2, <3>3, <3>4
  <2>3. ASSUME \A i \in 1..m : s[i] = t[i] PROVE u = v
    <3>1. \A i \in 1..m : u[i] = v[i]
      BY <1>5, <2>2, <2>3
    <3> QED
      BY <1>5, <2>2, <3>1, SeqEqual
  <2>4. ASSUME u = v PROVE \A i \in 1..m : s[i] = t[i]
    BY <1>5, <2>2, <2>4
  <2>5. IsPrefix(s, t) <=> u = v
    BY <1>1, <1>4, <1>6, <2>1 DEF IsPrefix
  <2> QED
    BY <1>1, <1>6, <2>3, <2>4, <2>5
<1>7. CASE ~(m <= n)
  BY <1>1, <1>7 DEF IsPrefix
<1> QED
  BY <1>6, <1>7

-----------------------------------------------------------------------------
(* Joining, and the largest and the least *)

\* One more sequence is flattened behind the others.
LEMMA FlattenMore ==
    ASSUME NEW S, NEW s \in Seq(Seq(S)), NEW v \in Seq(S)
    PROVE  /\ FlattenSeq(s) \in Seq(S)
           /\ FlattenSeq(Append(s, v)) = FlattenSeq(s) \o v
<1>1. PICK n \in Nat : n = Len(s)
  BY LenProperties
<1>0. PICK t : t = Append(s, v)
  OBVIOUS
<1>2. t \in Seq(Seq(S)) /\ Len(t) = n + 1 /\ t[n + 1] = v /\ \A k \in 1..n : t[k] = s[k]
  BY <1>0, <1>1, AppendProperties
<1>3. PICK g \in [0..n -> Seq(S)] :
          g[0] = <<>> /\ FlattenSeq(s) = g[n] /\ \A k \in 1..n : g[k] = g[k - 1] \o s[k]
  BY <1>1, FlattenParts
<1>4. PICK h \in [0..n + 1 -> Seq(S)] :
          h[0] = <<>> /\ FlattenSeq(t) = h[n + 1] /\ \A k \in 1..n + 1 : h[k] = h[k - 1] \o t[k]
  <2>1. \E h \in [0..Len(t) -> Seq(S)] :
            h[0] = <<>> /\ FlattenSeq(t) = h[Len(t)] /\ \A k \in 1..Len(t) : h[k] = h[k - 1] \o t[k]
    BY <1>2, FlattenParts
  <2> QED
    BY <1>2, <2>1
<1> DEFINE P == {m \in Nat : m <= n => h[m] = g[m]}
<1>5. 0 \in P
  BY <1>3, <1>4
<1>6. ASSUME NEW m \in Nat, m \in P PROVE m + 1 \in P
  <2> SUFFICES ASSUME m + 1 <= n PROVE h[m + 1] = g[m + 1]
    OBVIOUS
  <2>1. PICK k \in 1..n : k = m + 1 /\ k - 1 = m /\ k \in 1..n + 1
    OBVIOUS
  <2>2. h[k - 1] = g[k - 1]
    BY <1>6, <2>1
  <2>3. h[k] = h[k - 1] \o t[k] /\ g[k] = g[k - 1] \o s[k] /\ t[k] = s[k]
    BY <1>2, <1>3, <1>4, <2>1
  <2> QED
    BY <2>1, <2>2, <2>3
<1>7. Nat \subseteq P
  <2> HIDE DEF P
  <2> QED
    BY <1>5, <1>6, SetInduction
<1>8. h[n] = g[n]
  BY <1>7
<1>9. n + 1 \in 1..n + 1 /\ n + 1 - 1 = n /\ n \in 0..n
  OBVIOUS
<1>10. h[n + 1] = h[n] \o v
  <2>1. PICK k \in 1..n + 1 : k = n + 1 /\ k - 1 = n
    BY <1>9
  <2>2. h[k] = h[k - 1] \o t[k]
    BY <1>4
  <2> QED
    BY <1>2, <2>1, <2>2
<1> QED
  BY <1>0, <1>3, <1>4, <1>8, <1>9, <1>10

\* An element is appended to what is joined.
LEMMA ConcatAppend ==
    ASSUME NEW S, NEW s \in Seq(S), NEW t \in Seq(S), NEW e \in S
    PROVE  s \o Append(t, e) = Append(s \o t, e)
<1>1. PICK m \in Nat, n \in Nat : m = Len(s) /\ n = Len(t)
  BY LenProperties
<1>0. PICK u, w, x, y : u = Append(t, e) /\ w = s \o t /\ x = s \o u /\ y = Append(w, e)
  OBVIOUS
<1>2. u \in Seq(S) /\ Len(u) = n + 1 /\ u[n + 1] = e /\ \A k \in 1..n : u[k] = t[k]
  BY <1>0, <1>1, AppendProperties
<1>3. /\ w \in Seq(S) /\ Len(w) = m + n
      /\ \A k \in 1..m + n : w[k] = IF k <= m THEN s[k] ELSE t[k - m]
  BY <1>0, <1>1, ConcatProperties
<1>4. /\ x \in Seq(S) /\ Len(x) = m + (n + 1)
      /\ \A k \in 1..m + (n + 1) : x[k] = IF k <= m THEN s[k] ELSE u[k - m]
  BY <1>0, <1>1, <1>2, ConcatProperties
<1>5. /\ y \in Seq(S) /\ Len(y) = m + n + 1 /\ y[m + n + 1] = e
      /\ \A k \in 1..m + n : y[k] = w[k]
  <2>1. w \in Seq(S) /\ y = Append(w, e)
    BY <1>0, <1>3
  <2>2. /\ y \in Seq(S) /\ Len(y) = Len(w) + 1 /\ y[Len(w) + 1] = e
        /\ \A k \in 1..Len(w) : y[k] = w[k]
    BY <2>1, AppendFacts
  <2> QED
    BY <1>3, <2>2
<1>6. ASSUME NEW k \in 1..m + n + 1 PROVE x[k] = y[k]
  <2>1. CASE k = m + n + 1
    <3>1. ~(k <= m) /\ k - m = n + 1 /\ k \in 1..m + (n + 1)
      BY <2>1
    <3> QED
      BY <1>2, <1>4, <1>5, <2>1, <3>1
  <2>2. CASE k <= m
    <3>1. k \in 1..m + n /\ k \in 1..m + (n + 1)
      BY <2>2
    <3> QED
      BY <1>3, <1>4, <1>5, <2>2, <3>1
  <2>3. CASE k # m + n + 1 /\ ~(k <= m)
    <3>1. k \in 1..m + n /\ k \in 1..m + (n + 1) /\ k - m \in 1..n
      BY <2>3
    <3> QED
      BY <1>2, <1>3, <1>4, <1>5, <2>3, <3>1
  <2> QED
    BY <2>1, <2>2, <2>3
<1>7. Len(x) = Len(y)
  BY <1>4, <1>5
<1>8. x = y
  <2>1. \A k \in 1..Len(x) : x[k] = y[k]
    BY <1>5, <1>6, <1>7
  <2> QED
    BY <1>4, <1>5, <1>7, <2>1, SeqEqual
<1> QED
  BY <1>0, <1>8

\* Max and Min are what they are called.
LEMMA MaxIs ==
    ASSUME NEW S, S \subseteq Int, NEW m \in S, \A y \in S : y <= m
    PROVE  Max(S) = m
<1>1. PICK x : x = CHOOSE z \in S : \A y \in S : z >= y
  OBVIOUS
<1>2. x \in S /\ \A y \in S : x >= y
  BY <1>1
<1>3. x = m
  BY <1>2
<1> QED
  BY <1>1, <1>3 DEF Max

LEMMA MinIs ==
    ASSUME NEW S, S \subseteq Int, NEW m \in S, \A y \in S : m <= y
    PROVE  Min(S) = m
<1>1. PICK x : x = CHOOSE z \in S : \A y \in S : z =< y
  OBVIOUS
<1>2. x \in S /\ \A y \in S : x =< y
  BY <1>1
<1>3. x = m
  BY <1>2
<1> QED
  BY <1>1, <1>3 DEF Min
=============================================================================
