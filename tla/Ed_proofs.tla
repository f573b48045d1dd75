------------------------------ MODULE Ed_proofs ------------------------------
(***************************************************************************)
(* What Ed promises for every size of the temporary file and the array, of *)
(* the lists of global commands and whatever names there are:              *)
(*                                                                         *)
(*   EdUndoRestores  undo brings back the buffer                           *)
(*   EdTyped         no line is in the buffer twice                        *)
(*   EdNamesFollow   a name stands for the line that it was given to       *)
(*   EdNotes         fchange tells of every change                         *)
(*   EdInPlace       move() and gdelete() do in place what was asked for   *)
(*   EdShrinks       a global command comes to its end                     *)
(*                                                                         *)
(* EdUndoRestores rests on UndoKnowsPast, which ties what undo keeps to    *)
(* what a user sees of the buffer, and is inductive by itself.  The others *)
(* follow from AllInv, whose main part is LineInv: undo and names are safe *)
(* because no two lines of the buffer, nor of the one that undo would      *)
(* bring back, were one when they were made, and the names stand for the   *)
(* same lines in both.                                                     *)
(*                                                                         *)
(* The first part says what Ed's operators on a buffer do to its lines, for *)
(* every buffer: what append(), rdelete(), move(), join(), substitute() and *)
(* gdelete() leave of the lines that there were, what they add, and that   *)
(* nothing is there twice afterwards.  move()'s three reversals and the    *)
(* loop of gdelete(), which work in place, are shown to do what taking     *)
(* lines out and putting them elsewhere would (RotatedSame, GDeleteSame).  *)
(***************************************************************************)
EXTENDS Ed, SequenceLemmas, FiniteSetTheorems

-----------------------------------------------------------------------------
(* Sequences without repetition *)

\* What is in a sequence, and when nothing is there twice.
LEMMA ElementsOf ==
    ASSUME NEW S, NEW s \in Seq(S)
    PROVE  /\ \A x : x \in ToSet(s) <=> \E i \in 1..Len(s) : s[i] = x
           /\ ToSet(s) \subseteq S
           /\ IsInjective(s) <=> \A i, j \in 1..Len(s) : s[i] = s[j] => i = j
<1>1. DOMAIN s = 1..Len(s)
  BY LenProperties
<1>2. \A i \in 1..Len(s) : s[i] \in S
  BY ElementOfSeq
<1> QED
  BY <1>1, <1>2 DEF ToSet, IsInjective

\* Nothing is in the empty sequence.
LEMMA NoLines == ToSet(<<>>) = {} /\ IsInjective(<<>>)
<1>1. PICK s \in Seq({}) : s = <<>> /\ Len(s) = 0
  BY EmptySeq
<1>2. \A i \in 1..0 : FALSE
  OBVIOUS
<1>3. /\ \A x : x \in ToSet(s) <=> \E i \in 1..Len(s) : s[i] = x
      /\ IsInjective(s) <=> \A i, j \in 1..Len(s) : s[i] = s[j] => i = j
  BY ElementsOf
<1>4. ToSet(s) = {} /\ IsInjective(s)
  BY <1>1, <1>2, <1>3
<1> QED
  BY <1>1, <1>4

\* A sequence of elements is one of any set that has them all.
LEMMA SeqOfElements ==
    ASSUME NEW S, NEW s \in Seq(S), NEW T, ToSet(s) \subseteq T
    PROVE  s \in Seq(T)
<1>1. PICK n \in Nat : n = Len(s) /\ s \in [1..n -> S]
  BY LenProperties
<1>2. \A i \in 1..n : s[i] \in T
  BY <1>1, ElementsOf
<1>3. s \in [1..n -> T]
  BY <1>1, <1>2
<1> QED
  BY <1>3, SeqDef

\* A sequence of one element.
LEMMA OneLine ==
    ASSUME NEW S, NEW z \in S
    PROVE  <<z>> \in Seq(S) /\ ToSet(<<z>>) = {z} /\ IsInjective(<<z>>)
<1>1. PICK e : e = [i \in 1..1 |-> z]
  OBVIOUS
<1>2. e \in [1..1 -> S] /\ e[1] = z
  BY <1>1
<1>3. e \in Seq(S)
  BY <1>2, SeqDef
<1>4. Len(e) = 1
  BY <1>2, <1>3, LenProperties
<1>5. e = <<z>>
  BY <1>1
<1>6. /\ \A x : x \in ToSet(e) <=> \E i \in 1..Len(e) : e[i] = x
      /\ IsInjective(e) <=> \A i, j \in 1..Len(e) : e[i] = e[j] => i = j
  BY <1>3, ElementsOf
<1>7. \A i : i \in 1..1 <=> i = 1
  OBVIOUS
<1>8. ToSet(e) = {z}
  <2>1. \A x : x \in ToSet(e) <=> x = z
    BY <1>2, <1>4, <1>6, <1>7
  <2> QED
    BY <2>1
<1>9. IsInjective(e)
  BY <1>4, <1>6, <1>7
<1> QED
  BY <1>3, <1>5, <1>8, <1>9

\* One sequence after another.
LEMMA ConcatLines ==
    ASSUME NEW S, NEW s \in Seq(S), NEW t \in Seq(S)
    PROVE  /\ s \o t \in Seq(S) /\ Len(s \o t) = Len(s) + Len(t)
           /\ \A i \in 1..Len(s) + Len(t) :
                (s \o t)[i] = IF i <= Len(s) THEN s[i] ELSE t[i - Len(s)]
           /\ ToSet(s \o t) = ToSet(s) \cup ToSet(t)
           /\ (IsInjective(s) /\ IsInjective(t) /\ ToSet(s) \cap ToSet(t) = {})
                => IsInjective(s \o t)
<1>1. PICK m \in Nat, n \in Nat, u \in {s \o t} : m = Len(s) /\ n = Len(t) /\ u = s \o t
  BY LenProperties
<1>2. PICK k \in Nat : k = m + n
  BY <1>1
<1>3. /\ u \in Seq(S) /\ Len(u) = k
      /\ \A i \in 1..k : u[i] = IF i <= m THEN s[i] ELSE t[i - m]
  <2>1. /\ s \o t \in Seq(S) /\ Len(s \o t) = Len(s) + Len(t)
        /\ \A i \in 1..Len(s) + Len(t) :
                (s \o t)[i] = IF i <= Len(s) THEN s[i] ELSE t[i - Len(s)]
    BY ConcatProperties
  <2> QED
    BY <1>1, <1>2, <2>1
<1>4. \A i \in 1..k : (i <= m /\ i \in 1..m) \/ (~(i <= m) /\ i - m \in 1..n)
  BY <1>1, <1>2
<1>5. \A i \in 1..m : i \in 1..k /\ i <= m
  BY <1>1, <1>2
<1>6. \A i \in 1..n : m + i \in 1..k /\ ~(m + i <= m) /\ (m + i) - m = i
  BY <1>1, <1>2
<1>7. /\ \A x : x \in ToSet(s) <=> \E i \in 1..m : s[i] = x
      /\ \A x : x \in ToSet(t) <=> \E i \in 1..n : t[i] = x
      /\ \A x : x \in ToSet(u) <=> \E i \in 1..k : u[i] = x
  <2>1. \A x : x \in ToSet(s) <=> \E i \in 1..Len(s) : s[i] = x
    BY ElementsOf
  <2>2. \A x : x \in ToSet(t) <=> \E i \in 1..Len(t) : t[i] = x
    BY ElementsOf
  <2>3. \A x : x \in ToSet(u) <=> \E i \in 1..Len(u) : u[i] = x
    BY <1>3, ElementsOf
  <2> QED
    BY <1>1, <1>3, <2>1, <2>2, <2>3
<1>8. ToSet(u) = ToSet(s) \cup ToSet(t)
  <2>1. ASSUME NEW x \in ToSet(u) PROVE x \in ToSet(s) \cup ToSet(t)
    <3>1. PICK i \in 1..k : u[i] = x
      BY <1>7, <2>1
    <3> QED
      BY <1>3, <1>4, <1>7, <3>1
  <2>2. ASSUME NEW x \in ToSet(s) PROVE x \in ToSet(u)
    <3>1. PICK i \in 1..m : s[i] = x
      BY <1>7, <2>2
    <3> QED
      BY <1>3, <1>5, <1>7, <3>1
  <2>3. ASSUME NEW x \in ToSet(t) PROVE x \in ToSet(u)
    <3>1. PICK i \in 1..n : t[i] = x
      BY <1>7, <2>3
    <3>2. u[m + i] = x
      BY <1>3, <1>6, <3>1
    <3> QED
      BY <1>6, <1>7, <3>2
  <2> QED
    BY <2>1, <2>2, <2>3
<1>9. ASSUME IsInjective(s), IsInjective(t), ToSet(s) \cap ToSet(t) = {} PROVE IsInjective(u)
  <2>1. \A i, j \in 1..m : s[i] = s[j] => i = j
    <3>1. \A i, j \in 1..Len(s) : s[i] = s[j] => i = j
      BY <1>9, ElementsOf
    <3> QED
      BY <1>1, <3>1
  <2>2. \A i, j \in 1..n : t[i] = t[j] => i = j
    <3>1. \A i, j \in 1..Len(t) : t[i] = t[j] => i = j
      BY <1>9, ElementsOf
    <3> QED
      BY <1>1, <3>1
  <2>3. \A i \in 1..m, j \in 1..n : s[i] # t[j]
    BY <1>7, <1>9
  <2>4. ASSUME NEW i \in 1..k, NEW j \in 1..k, u[i] = u[j] PROVE i = j
    <3>1. CASE i <= m /\ j <= m
      BY <1>3, <1>4, <2>1, <2>4, <3>1
    <3>2. CASE ~(i <= m) /\ ~(j <= m)
      <4>1. i - m \in 1..n /\ j - m \in 1..n
        BY <1>4, <3>2
      <4>2. t[i - m] = t[j - m]
        BY <1>3, <2>4, <3>2
      <4>3. i - m = j - m
        BY <2>2, <4>1, <4>2
      <4> QED
        BY <1>1, <4>3
    <3>3. CASE i <= m /\ ~(j <= m)
      BY <1>3, <1>4, <2>3, <2>4, <3>3
    <3>4. CASE ~(i <= m) /\ j <= m
      BY <1>3, <1>4, <2>3, <2>4, <3>4
    <3> QED
      BY <3>1, <3>2, <3>3, <3>4
  <2>5. IsInjective(u) <=> \A i, j \in 1..Len(u) : u[i] = u[j] => i = j
    BY <1>3, ElementsOf
  <2> QED
    BY <1>3, <2>4, <2>5
<1> QED
  <2>1. /\ u \in Seq(S) /\ Len(u) = m + n
        /\ \A i \in 1..m + n : u[i] = IF i <= m THEN s[i] ELSE t[i - m]
    BY <1>2, <1>3
  <2> QED
    BY <1>1, <1>8, <1>9, <2>1

\* A part of a sequence.
LEMMA PartLines ==
    ASSUME NEW S, NEW s \in Seq(S), NEW c \in Nat \ {0}, NEW b \in Nat,
           c <= b + 1, b <= Len(s)
    PROVE  /\ SubSeq(s, c, b) \in Seq(S) /\ Len(SubSeq(s, c, b)) = b + 1 - c
           /\ \A i \in 1..b + 1 - c : SubSeq(s, c, b)[i] = s[c - 1 + i]
           /\ \A x : x \in ToSet(SubSeq(s, c, b)) <=> \E i \in c..b : s[i] = x
           /\ IsInjective(s) => IsInjective(SubSeq(s, c, b))
<1>1. PICK n \in Nat, k \in Nat, u \in {SubSeq(s, c, b)} :
        n = Len(s) /\ k = b + 1 - c /\ u = SubSeq(s, c, b)
  <2>1. b + 1 - c \in Nat /\ Len(s) \in Nat
    BY LenProperties
  <2> QED
    BY <2>1
<1>2. /\ u \in Seq(S) /\ Len(u) = IF c <= b THEN b - c + 1 ELSE 0
      /\ \A i \in 1..b - c + 1 : u[i] = s[c + i - 1]
  <2>1. \A i \in c..b : s[i] \in S
    <3>1. \A i \in c..b : i \in 1..n
      BY <1>1
    <3>2. \A i \in 1..n : s[i] \in S
      BY <1>1, ElementOfSeq
    <3> QED
      BY <3>1, <3>2
  <2> QED
    BY <1>1, <2>1, SubSeqProperties
<1>3. Len(u) = k
  <2>1. CASE c <= b
    BY <1>1, <1>2, <2>1
  <2>2. CASE ~(c <= b)
    BY <1>1, <1>2, <2>2
  <2> QED
    BY <2>1, <2>2
<1>4. \A i \in 1..k : u[i] = s[c - 1 + i]
  <2>1. \A i \in 1..k : i \in 1..b - c + 1 /\ c + i - 1 = c - 1 + i
    BY <1>1
  <2> QED
    BY <1>2, <2>1
<1>5. ASSUME NEW x PROVE x \in ToSet(u) <=> \E i \in c..b : s[i] = x
  <2>1. x \in ToSet(u) <=> \E i \in 1..k : u[i] = x
    <3>1. x \in ToSet(u) <=> \E i \in 1..Len(u) : u[i] = x
      BY <1>2, ElementsOf
    <3> QED
      BY <1>3, <3>1
  <2>2. ASSUME NEW i \in 1..k, u[i] = x PROVE \E j \in c..b : s[j] = x
    <3>1. c - 1 + i \in c..b
      BY <1>1
    <3> QED
      BY <1>4, <2>2, <3>1
  <2>3. ASSUME NEW j \in c..b, s[j] = x PROVE \E i \in 1..k : u[i] = x
    <3>1. PICK i \in 1..k : c - 1 + i = j
      <4>1. j - (c - 1) \in 1..k /\ c - 1 + (j - (c - 1)) = j
        BY <1>1
      <4> QED
        BY <4>1
    <3> QED
      BY <1>4, <2>3, <3>1
  <2> QED
    BY <2>1, <2>2, <2>3
<1>6. ASSUME IsInjective(s) PROVE IsInjective(u)
  <2>1. \A i, j \in 1..n : s[i] = s[j] => i = j
    <3>1. \A i, j \in 1..Len(s) : s[i] = s[j] => i = j
      BY <1>6, ElementsOf
    <3> QED
      BY <1>1, <3>1
  <2>2. ASSUME NEW i \in 1..k, NEW j \in 1..k, u[i] = u[j] PROVE i = j
    <3>1. c - 1 + i \in 1..n /\ c - 1 + j \in 1..n
      BY <1>1
    <3>2. s[c - 1 + i] = s[c - 1 + j]
      BY <1>4, <2>2
    <3>3. c - 1 + i = c - 1 + j
      BY <2>1, <3>1, <3>2
    <3> QED
      BY <1>1, <3>3
  <2>3. IsInjective(u) <=> \A i, j \in 1..Len(u) : u[i] = u[j] => i = j
    BY <1>2, ElementsOf
  <2> QED
    BY <1>3, <2>2, <2>3
<1> QED
  BY <1>1, <1>2, <1>3, <1>4, <1>5, <1>6

-----------------------------------------------------------------------------
(* The array *)

\* append() keeps the lines there were, in their order, with the new ones between.
LEMMA SpliceLines ==
    ASSUME NEW S, NEW s \in Seq(S), NEW a \in 0..Len(s), NEW new \in Seq(S)
    PROVE  /\ Splice(s, a, new) \in Seq(S)
           /\ Len(Splice(s, a, new)) = Len(s) + Len(new)
           /\ \A k \in 1..Len(s) + Len(new) :
                Splice(s, a, new)[k] = IF k <= a THEN s[k]
                                       ELSE IF k <= a + Len(new) THEN new[k - a]
                                       ELSE s[k - Len(new)]
           /\ ToSet(Splice(s, a, new)) = ToSet(s) \cup ToSet(new)
           /\ (IsInjective(s) /\ IsInjective(new) /\ ToSet(s) \cap ToSet(new) = {})
                => IsInjective(Splice(s, a, new))
<1>1. PICK n \in Nat, m \in Nat, d \in Nat \ {0}, b \in Nat, e \in Nat :
        n = Len(s) /\ m = Len(new) /\ d = a + 1 /\ b = n - a /\ e = a
  <2>1. Len(s) \in Nat /\ Len(new) \in Nat
    BY LenProperties
  <2>2. a + 1 \in Nat \ {0} /\ Len(s) - a \in Nat /\ a \in Nat
    BY <2>1
  <2> QED
    BY <2>1, <2>2
<1>2. e <= n /\ n = e + b /\ d = e + 1
  BY <1>1
<1>3. PICK l, r, v, u : /\ l = SubSeq(s, 1, e) /\ r = SubSeq(s, d, n)
                        /\ v = l \o new /\ u = v \o r
  OBVIOUS
<1>4. /\ l \in Seq(S) /\ Len(l) = e
      /\ \A i \in 1..e : l[i] = s[i]
      /\ \A x : x \in ToSet(l) <=> \E i \in 1..e : s[i] = x
      /\ IsInjective(s) => IsInjective(l)
  <2>1. /\ SubSeq(s, 1, e) \in Seq(S) /\ Len(SubSeq(s, 1, e)) = e + 1 - 1
        /\ \A i \in 1..e + 1 - 1 : SubSeq(s, 1, e)[i] = s[1 - 1 + i]
        /\ \A x : x \in ToSet(SubSeq(s, 1, e)) <=> \E i \in 1..e : s[i] = x
        /\ IsInjective(s) => IsInjective(SubSeq(s, 1, e))
    <3>1. 1 <= e + 1 /\ e <= Len(s) /\ 1 \in Nat \ {0}
      BY <1>1, <1>2
    <3> QED
      BY <3>1, PartLines
  <2>2. e + 1 - 1 = e /\ \A i \in 1..e : 1 - 1 + i = i
    OBVIOUS
  <2> QED
    BY <1>3, <2>1, <2>2
<1>5. /\ r \in Seq(S) /\ Len(r) = b
      /\ \A i \in 1..b : r[i] = s[e + i]
      /\ \A x : x \in ToSet(r) <=> \E i \in d..n : s[i] = x
      /\ IsInjective(s) => IsInjective(r)
  <2>1. /\ SubSeq(s, d, n) \in Seq(S) /\ Len(SubSeq(s, d, n)) = n + 1 - d
        /\ \A i \in 1..n + 1 - d : SubSeq(s, d, n)[i] = s[d - 1 + i]
        /\ \A x : x \in ToSet(SubSeq(s, d, n)) <=> \E i \in d..n : s[i] = x
        /\ IsInjective(s) => IsInjective(SubSeq(s, d, n))
    <3>1. d <= n + 1 /\ n <= Len(s)
      BY <1>1
    <3> QED
      BY <3>1, PartLines
  <2>2. n + 1 - d = b /\ d - 1 = e
    BY <1>1
  <2> QED
    BY <1>3, <2>1, <2>2
<1>6. PICK c \in Nat, f \in Nat : c = e + m /\ f = c + b
  OBVIOUS
<1>7. /\ v \in Seq(S) /\ Len(v) = c
      /\ \A i \in 1..c : v[i] = IF i <= e THEN l[i] ELSE new[i - e]
      /\ ToSet(v) = ToSet(l) \cup ToSet(new)
      /\ (IsInjective(l) /\ IsInjective(new) /\ ToSet(l) \cap ToSet(new) = {})
           => IsInjective(v)
  <2>1. /\ l \o new \in Seq(S) /\ Len(l \o new) = Len(l) + Len(new)
        /\ \A i \in 1..Len(l) + Len(new) :
             (l \o new)[i] = IF i <= Len(l) THEN l[i] ELSE new[i - Len(l)]
        /\ ToSet(l \o new) = ToSet(l) \cup ToSet(new)
        /\ (IsInjective(l) /\ IsInjective(new) /\ ToSet(l) \cap ToSet(new) = {})
             => IsInjective(l \o new)
    BY <1>4, ConcatLines
  <2> QED
    BY <1>1, <1>3, <1>4, <1>6, <2>1
<1>8. /\ u \in Seq(S) /\ Len(u) = f
      /\ \A i \in 1..f : u[i] = IF i <= c THEN v[i] ELSE r[i - c]
      /\ ToSet(u) = ToSet(v) \cup ToSet(r)
      /\ (IsInjective(v) /\ IsInjective(r) /\ ToSet(v) \cap ToSet(r) = {})
           => IsInjective(u)
  <2>1. /\ v \o r \in Seq(S) /\ Len(v \o r) = Len(v) + Len(r)
        /\ \A i \in 1..Len(v) + Len(r) :
             (v \o r)[i] = IF i <= Len(v) THEN v[i] ELSE r[i - Len(v)]
        /\ ToSet(v \o r) = ToSet(v) \cup ToSet(r)
        /\ (IsInjective(v) /\ IsInjective(r) /\ ToSet(v) \cap ToSet(r) = {})
             => IsInjective(v \o r)
    BY <1>5, <1>7, ConcatLines
  <2> QED
    BY <1>3, <1>5, <1>6, <1>7, <2>1
<1>9. f = n + m
  BY <1>1, <1>2, <1>6
<1>10. ASSUME NEW k \in 1..n + m
       PROVE  u[k] = IF k <= e THEN s[k] ELSE IF k <= e + m THEN new[k - e] ELSE s[k - m]
  <2>1. CASE k <= e
    <3>1. k \in 1..f /\ k <= c /\ k \in 1..c /\ k \in 1..e
      BY <1>1, <1>6, <1>9, <2>1
    <3> QED
      BY <1>4, <1>7, <1>8, <2>1, <3>1
  <2>2. CASE ~(k <= e) /\ k <= e + m
    <3>1. k \in 1..f /\ k <= c /\ k \in 1..c
      BY <1>1, <1>6, <1>9, <2>2
    <3> QED
      BY <1>7, <1>8, <2>2, <3>1
  <2>3. CASE ~(k <= e) /\ ~(k <= e + m)
    <3>1. k \in 1..f /\ ~(k <= c) /\ k - c \in 1..b /\ e + (k - c) = k - m
      BY <1>1, <1>6, <1>9, <2>3
    <3> QED
      BY <1>5, <1>8, <2>3, <3>1
  <2> QED
    BY <2>1, <2>2, <2>3
<1>11. ToSet(s) = ToSet(l) \cup ToSet(r)
  <2>1. \A x : x \in ToSet(s) <=> \E i \in 1..n : s[i] = x
    BY <1>1, ElementsOf
  <2>2. \A i : i \in 1..n <=> i \in 1..e \/ i \in d..n
    BY <1>1, <1>2
  <2>3. \A x : x \in ToSet(s) <=> x \in ToSet(l) \/ x \in ToSet(r)
    BY <1>4, <1>5, <2>1, <2>2
  <2> QED
    BY <2>3
<1>12. ToSet(u) = ToSet(s) \cup ToSet(new)
  BY <1>7, <1>8, <1>11
<1>13. ASSUME IsInjective(s), IsInjective(new), ToSet(s) \cap ToSet(new) = {}
       PROVE  IsInjective(u)
  <2>1. ToSet(l) \cap ToSet(new) = {} /\ ToSet(r) \cap ToSet(new) = {}
    BY <1>11, <1>13
  <2>2. ToSet(l) \cap ToSet(r) = {}
    <3>1. SUFFICES ASSUME NEW x, x \in ToSet(l), x \in ToSet(r) PROVE FALSE
      OBVIOUS
    <3>2. PICK i \in 1..e : s[i] = x
      BY <1>4, <3>1
    <3>3. PICK j \in d..n : s[j] = x
      BY <1>5, <3>1
    <3>4. i \in 1..n /\ j \in 1..n /\ i # j
      BY <1>1, <1>2
    <3>5. \A i0, j0 \in 1..Len(s) : s[i0] = s[j0] => i0 = j0
      BY <1>13, ElementsOf
    <3> QED
      BY <1>1, <3>2, <3>3, <3>4, <3>5
  <2>3. IsInjective(v) /\ ToSet(v) \cap ToSet(r) = {}
    BY <1>4, <1>7, <1>13, <2>1, <2>2
  <2> QED
    BY <1>5, <1>8, <1>13, <2>3
<1>14. u = Splice(s, a, new)
  BY <1>1, <1>3 DEF Splice
<1> QED
  <2>1. Len(u) = Len(s) + Len(new)
    BY <1>1, <1>8, <1>9
  <2>2. \A k \in 1..Len(s) + Len(new) :
          u[k] = IF k <= a THEN s[k]
                 ELSE IF k <= a + Len(new) THEN new[k - a] ELSE s[k - Len(new)]
    BY <1>1, <1>10
  <2> QED
    BY <1>8, <1>12, <1>13, <1>14, <2>1, <2>2

\* rdelete() takes the lines from i to j out, and the others stay in order.
LEMMA CutLines ==
    ASSUME NEW S, NEW s \in Seq(S), NEW i \in 1..Len(s), NEW j \in i..Len(s)
    PROVE  /\ Cut(s, i, j) \in Seq(S) /\ Len(Cut(s, i, j)) = Len(s) - (j - i + 1)
           /\ \A k \in 1..Len(s) - (j - i + 1) :
                Cut(s, i, j)[k] = IF k < i THEN s[k] ELSE s[k + (j - i + 1)]
           /\ \A x : x \in ToSet(Cut(s, i, j)) <=>
                \E k \in 1..Len(s) : k \notin i..j /\ s[k] = x
           /\ IsInjective(s) => IsInjective(Cut(s, i, j))
<1>1. PICK n \in Nat, m \in Nat, d \in Nat \ {0}, b \in Nat, e \in Nat :
        n = Len(s) /\ m = j - i + 1 /\ d = j + 1 /\ b = n - j /\ e = i - 1
  <2>1. Len(s) \in Nat
    BY LenProperties
  <2>2. /\ j - i + 1 \in Nat /\ j + 1 \in Nat \ {0} /\ Len(s) - j \in Nat
        /\ i - 1 \in Nat
    BY <2>1
  <2> QED
    BY <2>1, <2>2
<1>2. e <= n /\ j <= n /\ j \in Nat /\ e < j /\ i = e + 1
  BY <1>1
<1>3. PICK l, r, u : l = SubSeq(s, 1, e) /\ r = SubSeq(s, d, n) /\ u = l \o r
  OBVIOUS
<1>4. /\ l \in Seq(S) /\ Len(l) = e
      /\ \A k \in 1..e : l[k] = s[k]
      /\ \A x : x \in ToSet(l) <=> \E k \in 1..e : s[k] = x
      /\ IsInjective(s) => IsInjective(l)
  <2>1. /\ SubSeq(s, 1, e) \in Seq(S) /\ Len(SubSeq(s, 1, e)) = e + 1 - 1
        /\ \A k \in 1..e + 1 - 1 : SubSeq(s, 1, e)[k] = s[1 - 1 + k]
        /\ \A x : x \in ToSet(SubSeq(s, 1, e)) <=> \E k \in 1..e : s[k] = x
        /\ IsInjective(s) => IsInjective(SubSeq(s, 1, e))
    <3>1. 1 <= e + 1 /\ e <= Len(s) /\ 1 \in Nat \ {0}
      BY <1>1, <1>2
    <3> QED
      BY <3>1, PartLines
  <2>2. e + 1 - 1 = e /\ \A k \in 1..e : 1 - 1 + k = k
    OBVIOUS
  <2> QED
    BY <1>3, <2>1, <2>2
<1>5. /\ r \in Seq(S) /\ Len(r) = b
      /\ \A k \in 1..b : r[k] = s[j + k]
      /\ \A x : x \in ToSet(r) <=> \E k \in d..n : s[k] = x
      /\ IsInjective(s) => IsInjective(r)
  <2>1. /\ SubSeq(s, d, n) \in Seq(S) /\ Len(SubSeq(s, d, n)) = n + 1 - d
        /\ \A k \in 1..n + 1 - d : SubSeq(s, d, n)[k] = s[d - 1 + k]
        /\ \A x : x \in ToSet(SubSeq(s, d, n)) <=> \E k \in d..n : s[k] = x
        /\ IsInjective(s) => IsInjective(SubSeq(s, d, n))
    <3>1. d <= n + 1 /\ n <= Len(s)
      BY <1>1, <1>2
    <3> QED
      BY <3>1, PartLines
  <2>2. n + 1 - d = b /\ d - 1 = j
    BY <1>1, <1>2
  <2> QED
    BY <1>3, <2>1, <2>2
<1>6. PICK f \in Nat : f = e + b /\ f = n - m
  <2>1. e + b \in Nat /\ e + b = n - m
    BY <1>1, <1>2
  <2> QED
    BY <2>1
<1>7. /\ u \in Seq(S) /\ Len(u) = f
      /\ \A k \in 1..f : u[k] = IF k <= e THEN l[k] ELSE r[k - e]
      /\ ToSet(u) = ToSet(l) \cup ToSet(r)
      /\ (IsInjective(l) /\ IsInjective(r) /\ ToSet(l) \cap ToSet(r) = {})
           => IsInjective(u)
  <2>1. /\ l \o r \in Seq(S) /\ Len(l \o r) = Len(l) + Len(r)
        /\ \A k \in 1..Len(l) + Len(r) :
             (l \o r)[k] = IF k <= Len(l) THEN l[k] ELSE r[k - Len(l)]
        /\ ToSet(l \o r) = ToSet(l) \cup ToSet(r)
        /\ (IsInjective(l) /\ IsInjective(r) /\ ToSet(l) \cap ToSet(r) = {})
             => IsInjective(l \o r)
    BY <1>4, <1>5, ConcatLines
  <2> QED
    BY <1>3, <1>4, <1>5, <1>6, <2>1
<1>8. ASSUME NEW k \in 1..f PROVE u[k] = IF k < i THEN s[k] ELSE s[k + m]
  <2>1. CASE k < i
    <3>1. k <= e /\ k \in 1..e
      BY <1>1, <1>2, <2>1
    <3> QED
      BY <1>4, <1>7, <2>1, <3>1
  <2>2. CASE ~(k < i)
    <3>1. ~(k <= e) /\ k - e \in 1..b /\ j + (k - e) = k + m
      BY <1>1, <1>2, <1>6, <2>2
    <3> QED
      BY <1>5, <1>7, <2>2, <3>1
  <2> QED
    BY <2>1, <2>2
<1>9. \A x : x \in ToSet(u) <=> \E k \in 1..n : k \notin i..j /\ s[k] = x
  <2>1. \A k : (k \in 1..n /\ k \notin i..j) <=> (k \in 1..e \/ k \in d..n)
    BY <1>1, <1>2
  <2>2. ASSUME NEW x PROVE x \in ToSet(u) <=> \E k \in 1..n : k \notin i..j /\ s[k] = x
    <3>1. x \in ToSet(u) <=> x \in ToSet(l) \/ x \in ToSet(r)
      BY <1>7
    <3>2. x \in ToSet(u) <=> (\E k \in 1..e : s[k] = x) \/ (\E k \in d..n : s[k] = x)
      BY <1>4, <1>5, <3>1
    <3> QED
      BY <2>1, <3>2
  <2> QED
    BY <2>2
<1>10. ASSUME IsInjective(s) PROVE IsInjective(u)
  <2>1. \A i0, j0 \in 1..Len(s) : s[i0] = s[j0] => i0 = j0
    BY <1>10, ElementsOf
  <2>2. ToSet(l) \cap ToSet(r) = {}
    <3>1. SUFFICES ASSUME NEW x, x \in ToSet(l), x \in ToSet(r) PROVE FALSE
      OBVIOUS
    <3>2. PICK p \in 1..e : s[p] = x
      BY <1>4, <3>1
    <3>3. PICK q \in d..n : s[q] = x
      BY <1>5, <3>1
    <3>4. p \in 1..n /\ q \in 1..n /\ p # q
      BY <1>1, <1>2
    <3> QED
      BY <1>1, <2>1, <3>2, <3>3, <3>4
  <2> QED
    BY <1>4, <1>5, <1>7, <1>10, <2>2
<1>11. u = Cut(s, i, j)
  BY <1>1, <1>3 DEF Cut
<1> QED
  <2>1. Len(u) = Len(s) - (j - i + 1)
    BY <1>1, <1>6, <1>7
  <2>2. \A k \in 1..Len(s) - (j - i + 1) :
          u[k] = IF k < i THEN s[k] ELSE s[k + (j - i + 1)]
    BY <1>1, <1>6, <1>8
  <2>3. \A x : x \in ToSet(u) <=> \E k \in 1..Len(s) : k \notin i..j /\ s[k] = x
    BY <1>1, <1>9
  <2> QED
    BY <1>7, <1>10, <1>11, <2>1, <2>2, <2>3

\* reverse() takes the lines from i to j - 1 the other way round.
LEMMA ReversedLines ==
    ASSUME NEW S, NEW s \in Seq(S), NEW i \in 1..Len(s) + 1, NEW j \in i..Len(s) + 1
    PROVE  /\ Reversed(s, i, j) \in Seq(S) /\ Len(Reversed(s, i, j)) = Len(s)
           /\ \A k \in 1..Len(s) :
                Reversed(s, i, j)[k] = IF k \in i..j - 1 THEN s[i + j - 1 - k] ELSE s[k]
<1>1. PICK n \in Nat : n = Len(s)
  BY LenProperties
<1>2. DOMAIN s = 1..n
  BY <1>1, LenProperties
<1>3. \A k \in 1..n : s[k] \in S
  BY <1>1, ElementOfSeq
<1>4. PICK u : u = [k \in 1..n |-> IF k \in i..j - 1 THEN s[i + j - 1 - k] ELSE s[k]]
  OBVIOUS
<1>5. u = Reversed(s, i, j)
  BY <1>2, <1>4 DEF Reversed
<1>6. ASSUME NEW k \in 1..n PROVE u[k] \in S
  <2>1. CASE k \in i..j - 1
    <3>1. i + j - 1 - k \in 1..n
      BY <1>1, <2>1
    <3> QED
      BY <1>3, <1>4, <2>1, <3>1
  <2>2. CASE k \notin i..j - 1
    BY <1>3, <1>4, <2>2
  <2> QED
    BY <2>1, <2>2
<1>7. u \in [1..n -> S]
  BY <1>4, <1>6
<1>8. u \in Seq(S) /\ Len(u) = n
  <2>1. u \in Seq(S)
    BY <1>1, <1>7, SeqDef
  <2> QED
    BY <1>1, <1>7, <2>1, LenProperties
<1> QED
  BY <1>1, <1>4, <1>5, <1>8

\* The three reversals of move() take the lines from i to j to the place after adt
\* and leave the others in order.
LEMMA RotatedLines ==
    ASSUME NEW S, NEW s \in Seq(S), NEW i \in 1..Len(s), NEW j \in i..Len(s),
           NEW adt \in 0..Len(s), adt < i \/ adt > j
    PROVE  /\ Rotated(s, adt, i, j + 1) \in Seq(S)
           /\ Len(Rotated(s, adt, i, j + 1)) = Len(s)
           /\ \A k \in 1..Len(s) :
                adt < i => Rotated(s, adt, i, j + 1)[k] =
                    IF k \in adt + 1..adt + (j - i + 1) THEN s[i - adt - 1 + k]
                    ELSE IF k \in adt + 1..j THEN s[k - (j - i + 1)]
                    ELSE s[k]
           /\ \A k \in 1..Len(s) :
                adt > j => Rotated(s, adt, i, j + 1)[k] =
                    IF k \in i..adt - (j - i + 1) THEN s[k + (j - i + 1)]
                    ELSE IF k \in i..adt THEN s[j - adt + k]
                    ELSE s[k]
<1>1. PICK n \in Nat, m \in Nat, a \in Nat, j1 \in Nat, a1 \in Nat :
        n = Len(s) /\ m = j - i + 1 /\ a = adt /\ j1 = j + 1 /\ a1 = adt + 1
  <2>1. Len(s) \in Nat
    BY LenProperties
  <2>2. j - i + 1 \in Nat /\ adt \in Nat /\ j + 1 \in Nat /\ adt + 1 \in Nat
    BY <2>1
  <2> QED
    BY <2>1, <2>2
<1>2. i \in 1..n /\ j \in i..n /\ a \in 0..n
  BY <1>1
<1>3. CASE adt < i
  <2>1. PICK t1, t2, t3 : /\ t1 = Reversed(s, a1, i) /\ t2 = Reversed(t1, i, j1)
                          /\ t3 = Reversed(t2, a1, j1)
    OBVIOUS
  <2>2. /\ t1 \in Seq(S) /\ Len(t1) = n
        /\ \A k \in 1..n : t1[k] = IF k \in a1..i - 1 THEN s[a1 + i - 1 - k] ELSE s[k]
    <3>1. a1 \in 1..Len(s) + 1 /\ i \in a1..Len(s) + 1
      BY <1>1, <1>2, <1>3
    <3>2. /\ Reversed(s, a1, i) \in Seq(S) /\ Len(Reversed(s, a1, i)) = Len(s)
          /\ \A k \in 1..Len(s) : Reversed(s, a1, i)[k] =
                IF k \in a1..i - 1 THEN s[a1 + i - 1 - k] ELSE s[k]
      BY <3>1, ReversedLines
    <3> QED
      BY <1>1, <2>1, <3>2
  <2>3. /\ t2 \in Seq(S) /\ Len(t2) = n
        /\ \A k \in 1..n : t2[k] = IF k \in i..j1 - 1 THEN t1[i + j1 - 1 - k] ELSE t1[k]
    <3>1. i \in 1..Len(t1) + 1 /\ j1 \in i..Len(t1) + 1
      BY <1>1, <1>2, <2>2
    <3>2. t1 \in Seq(S)
      BY <2>2
    <3>3. /\ Reversed(t1, i, j1) \in Seq(S) /\ Len(Reversed(t1, i, j1)) = Len(t1)
          /\ \A k \in 1..Len(t1) : Reversed(t1, i, j1)[k] =
                IF k \in i..j1 - 1 THEN t1[i + j1 - 1 - k] ELSE t1[k]
      BY <3>1, <3>2, ReversedLines
    <3> QED
      BY <1>1, <2>1, <2>2, <3>3
  <2>4. /\ t3 \in Seq(S) /\ Len(t3) = n
        /\ \A k \in 1..n : t3[k] = IF k \in a1..j1 - 1 THEN t2[a1 + j1 - 1 - k] ELSE t2[k]
    <3>1. a1 \in 1..Len(t2) + 1 /\ j1 \in a1..Len(t2) + 1
      BY <1>1, <1>2, <1>3, <2>3
    <3>2. t2 \in Seq(S)
      BY <2>3
    <3>3. /\ Reversed(t2, a1, j1) \in Seq(S) /\ Len(Reversed(t2, a1, j1)) = Len(t2)
          /\ \A k \in 1..Len(t2) : Reversed(t2, a1, j1)[k] =
                IF k \in a1..j1 - 1 THEN t2[a1 + j1 - 1 - k] ELSE t2[k]
      BY <3>1, <3>2, ReversedLines
    <3> QED
      BY <1>1, <2>1, <2>3, <3>3
  <2>5. ASSUME NEW k \in 1..n
        PROVE  t3[k] = IF k \in a + 1..a + m THEN s[i - a - 1 + k]
                       ELSE IF k \in a + 1..j THEN s[k - m] ELSE s[k]
    <3>1. CASE k \in a + 1..a + m
      <4>1. PICK q \in 1..n, p \in 1..n :
              q = a1 + j1 - 1 - k /\ p = i + j1 - 1 - q /\ p = i - a - 1 + k
        <5>1. /\ a1 + j1 - 1 - k \in 1..n /\ i + j1 - 1 - (a1 + j1 - 1 - k) \in 1..n
              /\ i + j1 - 1 - (a1 + j1 - 1 - k) = i - a - 1 + k
          BY <1>1, <1>2, <1>3, <3>1
        <5> QED
          BY <5>1
      <4>2. k \in a1..j1 - 1 /\ q \in i..j1 - 1 /\ p \notin a1..i - 1
        BY <1>1, <1>2, <1>3, <3>1, <4>1
      <4>3. t3[k] = t2[q] /\ t2[q] = t1[p] /\ t1[p] = s[p]
        BY <2>2, <2>3, <2>4, <4>1, <4>2
      <4> QED
        BY <3>1, <4>1, <4>3
    <3>2. CASE k \notin a + 1..a + m /\ k \in a + 1..j
      <4>1. PICK q \in 1..n, p \in 1..n :
              q = a1 + j1 - 1 - k /\ p = a1 + i - 1 - q /\ p = k - m
        <5>1. /\ a1 + j1 - 1 - k \in 1..n /\ a1 + i - 1 - (a1 + j1 - 1 - k) \in 1..n
              /\ a1 + i - 1 - (a1 + j1 - 1 - k) = k - m
          BY <1>1, <1>2, <1>3, <3>2
        <5> QED
          BY <5>1
      <4>2. k \in a1..j1 - 1 /\ q \notin i..j1 - 1 /\ q \in a1..i - 1
        BY <1>1, <1>2, <1>3, <3>2, <4>1
      <4>3. t3[k] = t2[q] /\ t2[q] = t1[q] /\ t1[q] = s[p]
        BY <2>2, <2>3, <2>4, <4>1, <4>2
      <4> QED
        BY <3>2, <4>1, <4>3
    <3>3. CASE k \notin a + 1..a + m /\ k \notin a + 1..j
      <4>1. k \notin a1..j1 - 1 /\ k \notin i..j1 - 1 /\ k \notin a1..i - 1
        BY <1>1, <1>2, <1>3, <3>3
      <4>2. t3[k] = t2[k] /\ t2[k] = t1[k] /\ t1[k] = s[k]
        BY <2>2, <2>3, <2>4, <4>1
      <4> QED
        BY <3>3, <4>2
    <3> QED
      BY <3>1, <3>2, <3>3
  <2>6. t3 = Rotated(s, adt, i, j + 1)
    BY <1>1, <1>3, <2>1 DEF Rotated
  <2>7. ~(adt > j)
    BY <1>1, <1>2, <1>3
  <2> QED
    BY <1>1, <2>4, <2>5, <2>6, <2>7
<1>4. CASE adt > j
  <2>1. PICK t1, t2, t3 : /\ t1 = Reversed(s, i, j1) /\ t2 = Reversed(t1, j1, a1)
                          /\ t3 = Reversed(t2, i, a1)
    OBVIOUS
  <2>2. /\ t1 \in Seq(S) /\ Len(t1) = n
        /\ \A k \in 1..n : t1[k] = IF k \in i..j1 - 1 THEN s[i + j1 - 1 - k] ELSE s[k]
    <3>1. i \in 1..Len(s) + 1 /\ j1 \in i..Len(s) + 1
      BY <1>1, <1>2
    <3>2. /\ Reversed(s, i, j1) \in Seq(S) /\ Len(Reversed(s, i, j1)) = Len(s)
          /\ \A k \in 1..Len(s) : Reversed(s, i, j1)[k] =
                IF k \in i..j1 - 1 THEN s[i + j1 - 1 - k] ELSE s[k]
      BY <3>1, ReversedLines
    <3> QED
      BY <1>1, <2>1, <3>2
  <2>3. /\ t2 \in Seq(S) /\ Len(t2) = n
        /\ \A k \in 1..n : t2[k] = IF k \in j1..a1 - 1 THEN t1[j1 + a1 - 1 - k] ELSE t1[k]
    <3>1. j1 \in 1..Len(t1) + 1 /\ a1 \in j1..Len(t1) + 1
      BY <1>1, <1>2, <1>4, <2>2
    <3>2. t1 \in Seq(S)
      BY <2>2
    <3>3. /\ Reversed(t1, j1, a1) \in Seq(S) /\ Len(Reversed(t1, j1, a1)) = Len(t1)
          /\ \A k \in 1..Len(t1) : Reversed(t1, j1, a1)[k] =
                IF k \in j1..a1 - 1 THEN t1[j1 + a1 - 1 - k] ELSE t1[k]
      BY <3>1, <3>2, ReversedLines
    <3> QED
      BY <1>1, <2>1, <2>2, <3>3
  <2>4. /\ t3 \in Seq(S) /\ Len(t3) = n
        /\ \A k \in 1..n : t3[k] = IF k \in i..a1 - 1 THEN t2[i + a1 - 1 - k] ELSE t2[k]
    <3>1. i \in 1..Len(t2) + 1 /\ a1 \in i..Len(t2) + 1
      BY <1>1, <1>2, <1>4, <2>3
    <3>2. t2 \in Seq(S)
      BY <2>3
    <3>3. /\ Reversed(t2, i, a1) \in Seq(S) /\ Len(Reversed(t2, i, a1)) = Len(t2)
          /\ \A k \in 1..Len(t2) : Reversed(t2, i, a1)[k] =
                IF k \in i..a1 - 1 THEN t2[i + a1 - 1 - k] ELSE t2[k]
      BY <3>1, <3>2, ReversedLines
    <3> QED
      BY <1>1, <2>1, <2>3, <3>3
  <2>5. ASSUME NEW k \in 1..n
        PROVE  t3[k] = IF k \in i..a - m THEN s[k + m]
                       ELSE IF k \in i..a THEN s[j - a + k] ELSE s[k]
    <3>1. CASE k \in i..a - m
      <4>1. PICK q \in 1..n, p \in 1..n :
              q = i + a1 - 1 - k /\ p = j1 + a1 - 1 - q /\ p = k + m
        <5>1. /\ i + a1 - 1 - k \in 1..n /\ j1 + a1 - 1 - (i + a1 - 1 - k) \in 1..n
              /\ j1 + a1 - 1 - (i + a1 - 1 - k) = k + m
          BY <1>1, <1>2, <1>4, <3>1
        <5> QED
          BY <5>1
      <4>2. k \in i..a1 - 1 /\ q \in j1..a1 - 1 /\ p \notin i..j1 - 1
        BY <1>1, <1>2, <1>4, <3>1, <4>1
      <4>3. t3[k] = t2[q] /\ t2[q] = t1[p] /\ t1[p] = s[p]
        BY <2>2, <2>3, <2>4, <4>1, <4>2
      <4> QED
        BY <3>1, <4>1, <4>3
    <3>2. CASE k \notin i..a - m /\ k \in i..a
      <4>1. PICK q \in 1..n, p \in 1..n :
              q = i + a1 - 1 - k /\ p = i + j1 - 1 - q /\ p = j - a + k
        <5>1. /\ i + a1 - 1 - k \in 1..n /\ i + j1 - 1 - (i + a1 - 1 - k) \in 1..n
              /\ i + j1 - 1 - (i + a1 - 1 - k) = j - a + k
          BY <1>1, <1>2, <1>4, <3>2
        <5> QED
          BY <5>1
      <4>2. k \in i..a1 - 1 /\ q \notin j1..a1 - 1 /\ q \in i..j1 - 1
        BY <1>1, <1>2, <1>4, <3>2, <4>1
      <4>3. t3[k] = t2[q] /\ t2[q] = t1[q] /\ t1[q] = s[p]
        BY <2>2, <2>3, <2>4, <4>1, <4>2
      <4> QED
        BY <3>2, <4>1, <4>3
    <3>3. CASE k \notin i..a - m /\ k \notin i..a
      <4>1. k \notin i..a1 - 1 /\ k \notin j1..a1 - 1 /\ k \notin i..j1 - 1
        BY <1>1, <1>2, <1>4, <3>3
      <4>2. t3[k] = t2[k] /\ t2[k] = t1[k] /\ t1[k] = s[k]
        BY <2>2, <2>3, <2>4, <4>1
      <4> QED
        BY <3>3, <4>2
    <3> QED
      BY <3>1, <3>2, <3>3
  <2>6. ~(adt < i)
    BY <1>1, <1>2, <1>4
  <2>7. t3 = Rotated(s, adt, i, j + 1)
    BY <1>1, <2>1, <2>6 DEF Rotated
  <2> QED
    BY <1>1, <2>4, <2>5, <2>6, <2>7
<1> QED
  BY <1>3, <1>4

\* What move() does in place is what taking the lines out and appending them after
\* the address would.
LEMMA RotatedSame ==
    ASSUME NEW S, NEW s \in Seq(S), NEW i \in 1..Len(s), NEW j \in i..Len(s),
           NEW adt \in 0..Len(s), adt < i \/ adt > j,
           NEW at, at = IF adt < i THEN adt ELSE adt - (j - i + 1)
    PROVE  Rotated(s, adt, i, j + 1) = Splice(Cut(s, i, j), at, SubSeq(s, i, j))
<1>1. PICK n \in Nat, m \in Nat, w \in Nat, f \in Nat :
        n = Len(s) /\ m = j - i + 1 /\ f = n - m /\ w = at /\ w <= f
  <2>1. Len(s) \in Nat
    BY LenProperties
  <2>2. PICK n \in Nat : n = Len(s)
    BY <2>1
  <2>3. j - i + 1 \in Nat /\ n - (j - i + 1) \in Nat
    BY <2>2
  <2>4. CASE adt < i
    <3>1. adt \in Nat /\ adt <= n - (j - i + 1)
      BY <2>2, <2>4
    <3> QED
      BY <2>2, <2>3, <2>4, <3>1
  <2>5. CASE ~(adt < i)
    <3>1. adt - (j - i + 1) \in Nat /\ adt - (j - i + 1) <= n - (j - i + 1)
      BY <2>2, <2>5
    <3> QED
      BY <2>2, <2>3, <2>5, <3>1
  <2> QED
    BY <2>4, <2>5
<1>2. i \in 1..n /\ j \in i..n /\ adt \in 0..n
  BY <1>1
<1>3. PICK r, c, p, u : /\ r = Rotated(s, adt, i, j + 1) /\ c = Cut(s, i, j)
                        /\ p = SubSeq(s, i, j) /\ u = Splice(c, w, p)
  OBVIOUS
<1>4. /\ c \in Seq(S) /\ Len(c) = f
      /\ \A k \in 1..f : c[k] = IF k < i THEN s[k] ELSE s[k + m]
  <2>1. /\ Cut(s, i, j) \in Seq(S) /\ Len(Cut(s, i, j)) = Len(s) - (j - i + 1)
        /\ \A k \in 1..Len(s) - (j - i + 1) :
                Cut(s, i, j)[k] = IF k < i THEN s[k] ELSE s[k + (j - i + 1)]
    BY CutLines
  <2> QED
    BY <1>1, <1>3, <2>1
<1>5. p \in Seq(S) /\ Len(p) = m /\ \A k \in 1..m : p[k] = s[i - 1 + k]
  <2>1. /\ SubSeq(s, i, j) \in Seq(S) /\ Len(SubSeq(s, i, j)) = j + 1 - i
        /\ \A k \in 1..j + 1 - i : SubSeq(s, i, j)[k] = s[i - 1 + k]
    <3>1. i \in Nat \ {0} /\ j \in Nat /\ i <= j + 1 /\ j <= Len(s)
      BY <1>1, <1>2
    <3> QED
      BY <3>1, PartLines
  <2>2. j + 1 - i = m
    BY <1>1
  <2> QED
    BY <1>3, <2>1, <2>2
<1>6. /\ u \in Seq(S) /\ Len(u) = n
      /\ \A k \in 1..n : u[k] = IF k <= w THEN c[k] ELSE IF k <= w + m THEN p[k - w]
                                ELSE c[k - m]
  <2>1. /\ Splice(c, w, p) \in Seq(S) /\ Len(Splice(c, w, p)) = Len(c) + Len(p)
        /\ \A k \in 1..Len(c) + Len(p) :
                Splice(c, w, p)[k] = IF k <= w THEN c[k]
                                     ELSE IF k <= w + Len(p) THEN p[k - w]
                                     ELSE c[k - Len(p)]
    <3>1. w \in 0..Len(c) /\ c \in Seq(S) /\ p \in Seq(S)
      BY <1>1, <1>4, <1>5
    <3> QED
      BY <3>1, SpliceLines
  <2>2. Len(c) + Len(p) = n
    BY <1>1, <1>4, <1>5
  <2> QED
    BY <1>3, <1>5, <2>1, <2>2
<1>7. /\ r \in Seq(S) /\ Len(r) = n
      /\ \A k \in 1..n :
           adt < i => r[k] = IF k \in adt + 1..adt + m THEN s[i - adt - 1 + k]
                             ELSE IF k \in adt + 1..j THEN s[k - m] ELSE s[k]
      /\ \A k \in 1..n :
           adt > j => r[k] = IF k \in i..adt - m THEN s[k + m]
                             ELSE IF k \in i..adt THEN s[j - adt + k] ELSE s[k]
  <2>1. /\ Rotated(s, adt, i, j + 1) \in Seq(S)
        /\ Len(Rotated(s, adt, i, j + 1)) = Len(s)
        /\ \A k \in 1..Len(s) :
             adt < i => Rotated(s, adt, i, j + 1)[k] =
                 IF k \in adt + 1..adt + (j - i + 1) THEN s[i - adt - 1 + k]
                 ELSE IF k \in adt + 1..j THEN s[k - (j - i + 1)]
                 ELSE s[k]
        /\ \A k \in 1..Len(s) :
             adt > j => Rotated(s, adt, i, j + 1)[k] =
                 IF k \in i..adt - (j - i + 1) THEN s[k + (j - i + 1)]
                 ELSE IF k \in i..adt THEN s[j - adt + k]
                 ELSE s[k]
    BY RotatedLines
  <2> QED
    BY <1>1, <1>3, <2>1
<1>8. ASSUME NEW k \in 1..n PROVE r[k] = u[k]
  <2>1. CASE adt < i
    <3>1. w = adt
      BY <1>1, <2>1
    <3>2. CASE k <= w
      <4>1. k \in 1..f /\ k < i /\ k \notin adt + 1..adt + m /\ k \notin adt + 1..j
        BY <1>1, <1>2, <2>1, <3>1, <3>2
      <4>2. u[k] = c[k] /\ c[k] = s[k] /\ r[k] = s[k]
        BY <1>4, <1>6, <1>7, <2>1, <3>2, <4>1
      <4> QED
        BY <4>2
    <3>3. CASE ~(k <= w) /\ k <= w + m
      <4>1. PICK q \in 1..m : q = k - w /\ i - 1 + q = i - adt - 1 + k
        <5>1. k - w \in 1..m /\ i - 1 + (k - w) = i - adt - 1 + k
          BY <1>1, <3>1, <3>3
        <5> QED
          BY <5>1
      <4>2. k \in adt + 1..adt + m
        BY <1>1, <3>1, <3>3
      <4>3. u[k] = p[q] /\ p[q] = s[i - 1 + q] /\ r[k] = s[i - adt - 1 + k]
        BY <1>5, <1>6, <1>7, <2>1, <3>3, <4>1, <4>2
      <4> QED
        BY <4>1, <4>3
    <3>4. CASE ~(k <= w) /\ ~(k <= w + m)
      <4>1. PICK q \in 1..f : q = k - m
        <5>1. k - m \in 1..f
          BY <1>1, <3>4
        <5> QED
          BY <5>1
      <4>2. k \notin adt + 1..adt + m
        BY <1>1, <3>1, <3>4
      <4>3. u[k] = c[q]
        BY <1>6, <3>4, <4>1
      <4>4. CASE k <= j
        <5>1. k \in adt + 1..j /\ q < i
          BY <1>1, <1>2, <3>1, <3>4, <4>1, <4>4
        <5> QED
          BY <1>4, <1>7, <2>1, <4>1, <4>2, <4>3, <5>1
      <4>5. CASE ~(k <= j)
        <5>1. k \notin adt + 1..j /\ ~(q < i) /\ q + m = k
          BY <1>1, <1>2, <3>1, <3>4, <4>1, <4>5
        <5>2. c[q] = s[k] /\ r[k] = s[k]
          BY <1>4, <1>7, <2>1, <4>1, <4>2, <5>1
        <5> QED
          BY <4>3, <5>2
      <4> QED
        BY <4>4, <4>5
    <3> QED
      BY <3>2, <3>3, <3>4
  <2>2. CASE adt > j
    <3>1. w = adt - m
      BY <1>1, <1>2, <2>2
    <3>2. CASE k <= w
      <4>1. k \in 1..f /\ u[k] = c[k]
        BY <1>1, <1>6, <3>2
      <4>2. CASE k < i
        <5>1. k \notin i..adt - m /\ k \notin i..adt
          BY <4>2
        <5>2. c[k] = s[k] /\ r[k] = s[k]
          BY <1>4, <1>7, <2>2, <4>1, <4>2, <5>1
        <5> QED
          BY <4>1, <5>2
      <4>3. CASE ~(k < i)
        <5>1. k \in i..adt - m
          BY <1>1, <3>1, <3>2, <4>3
        <5>2. c[k] = s[k + m] /\ r[k] = s[k + m]
          BY <1>4, <1>7, <2>2, <4>1, <4>3, <5>1
        <5> QED
          BY <4>1, <5>2
      <4> QED
        BY <4>2, <4>3
    <3>3. CASE ~(k <= w) /\ k <= w + m
      <4>1. PICK q \in 1..m : q = k - w /\ i - 1 + q = j - adt + k
        <5>1. k - w \in 1..m /\ i - 1 + (k - w) = j - adt + k
          BY <1>1, <3>1, <3>3
        <5> QED
          BY <5>1
      <4>2. k \notin i..adt - m /\ k \in i..adt
        BY <1>1, <1>2, <2>2, <3>1, <3>3
      <4>3. u[k] = p[q] /\ p[q] = s[i - 1 + q] /\ r[k] = s[j - adt + k]
        BY <1>5, <1>6, <1>7, <2>2, <3>3, <4>1, <4>2
      <4> QED
        BY <4>1, <4>3
    <3>4. CASE ~(k <= w) /\ ~(k <= w + m)
      <4>1. PICK q \in 1..f : q = k - m /\ q + m = k
        <5>1. k - m \in 1..f /\ k - m + m = k
          BY <1>1, <3>4
        <5> QED
          BY <5>1
      <4>2. k \notin i..adt - m /\ k \notin i..adt /\ ~(q < i)
        BY <1>1, <1>2, <2>2, <3>1, <3>4, <4>1
      <4>3. u[k] = c[q]
        BY <1>6, <3>4, <4>1
      <4>4. c[q] = s[k] /\ r[k] = s[k]
        BY <1>4, <1>7, <2>2, <4>1, <4>2
      <4> QED
        BY <4>3, <4>4
    <3> QED
      BY <3>2, <3>3, <3>4
  <2> QED
    BY <2>1, <2>2
<1>9. r = u
  BY <1>6, <1>7, <1>8, SeqEqual
<1> QED
  BY <1>1, <1>3, <1>9

\* It loses no line and makes none.
LEMMA RotatedMembers ==
    ASSUME NEW S, NEW s \in Seq(S), NEW i \in 1..Len(s), NEW j \in i..Len(s),
           NEW adt \in 0..Len(s), adt < i \/ adt > j
    PROVE  /\ Rotated(s, adt, i, j + 1) \in Seq(S)
           /\ ToSet(Rotated(s, adt, i, j + 1)) = ToSet(s)
           /\ IsInjective(s) => IsInjective(Rotated(s, adt, i, j + 1))
<1>1. PICK n \in Nat, f \in Nat, w \in Nat :
        /\ n = Len(s) /\ f = n - (j - i + 1) /\ w <= f
        /\ w = IF adt < i THEN adt ELSE adt - (j - i + 1)
  <2>1. Len(s) \in Nat
    BY LenProperties
  <2>2. PICK n \in Nat : n = Len(s)
    BY <2>1
  <2>3. n - (j - i + 1) \in Nat
    BY <2>2
  <2>4. CASE adt < i
    <3>1. adt \in Nat /\ adt <= n - (j - i + 1)
      BY <2>2, <2>4
    <3> QED
      BY <2>2, <2>3, <2>4, <3>1
  <2>5. CASE ~(adt < i)
    <3>1. adt - (j - i + 1) \in Nat /\ adt - (j - i + 1) <= n - (j - i + 1)
      BY <2>2, <2>5
    <3> QED
      BY <2>2, <2>3, <2>5, <3>1
  <2> QED
    BY <2>4, <2>5
<1>2. PICK r, c, p : /\ r = Rotated(s, adt, i, j + 1) /\ c = Cut(s, i, j)
                     /\ p = SubSeq(s, i, j)
  OBVIOUS
<1>3. r = Splice(c, w, p)
  BY <1>1, <1>2, RotatedSame
<1>4. /\ c \in Seq(S) /\ Len(c) = f
      /\ \A x : x \in ToSet(c) <=> \E k \in 1..n : k \notin i..j /\ s[k] = x
      /\ IsInjective(s) => IsInjective(c)
  <2>1. Cut(s, i, j) \in Seq(S) /\ Len(Cut(s, i, j)) = Len(s) - (j - i + 1)
    BY CutLines
  <2>2. \A x : x \in ToSet(Cut(s, i, j)) <=>
             \E k \in 1..Len(s) : k \notin i..j /\ s[k] = x
    BY CutLines
  <2>3. IsInjective(s) => IsInjective(Cut(s, i, j))
    BY CutLines
  <2> QED
    BY <1>1, <1>2, <2>1, <2>2, <2>3
<1>5. /\ p \in Seq(S)
      /\ \A x : x \in ToSet(p) <=> \E k \in i..j : s[k] = x
      /\ IsInjective(s) => IsInjective(p)
  <2>1. i \in Nat \ {0} /\ j \in Nat /\ i <= j + 1 /\ j <= Len(s)
    BY <1>1
  <2> QED
    BY <1>2, <2>1, PartLines
<1>6. /\ Splice(c, w, p) \in Seq(S)
      /\ ToSet(Splice(c, w, p)) = ToSet(c) \cup ToSet(p)
      /\ (IsInjective(c) /\ IsInjective(p) /\ ToSet(c) \cap ToSet(p) = {})
           => IsInjective(Splice(c, w, p))
  <2>1. w \in 0..Len(c) /\ c \in Seq(S) /\ p \in Seq(S)
    BY <1>1, <1>4, <1>5
  <2>2. Splice(c, w, p) \in Seq(S)
    BY <2>1, SpliceLines
  <2>3. ToSet(Splice(c, w, p)) = ToSet(c) \cup ToSet(p)
    BY <2>1, SpliceLines
  <2>4. (IsInjective(c) /\ IsInjective(p) /\ ToSet(c) \cap ToSet(p) = {})
           => IsInjective(Splice(c, w, p))
    BY <2>1, SpliceLines
  <2> QED
    BY <2>2, <2>3, <2>4
<1>7. ToSet(c) \cup ToSet(p) = ToSet(s)
  <2>1. \A x : x \in ToSet(s) <=> \E k \in 1..n : s[k] = x
    BY <1>1, ElementsOf
  <2>2. \A k \in i..j : k \in 1..n
    BY <1>1
  <2>3. \A x : x \in ToSet(s) <=> x \in ToSet(c) \/ x \in ToSet(p)
    BY <1>4, <1>5, <2>1, <2>2
  <2> QED
    BY <2>3
<1>8. ASSUME IsInjective(s) PROVE ToSet(c) \cap ToSet(p) = {}
  <2>1. \A i0, j0 \in 1..Len(s) : s[i0] = s[j0] => i0 = j0
    BY <1>8, ElementsOf
  <2>2. \A k \in i..j : k \in 1..n
    BY <1>1
  <2>3. SUFFICES ASSUME NEW x, x \in ToSet(c), x \in ToSet(p) PROVE FALSE
    OBVIOUS
  <2>4. PICK k \in 1..n : k \notin i..j /\ s[k] = x
    BY <1>4, <2>3
  <2>5. PICK q \in i..j : s[q] = x
    BY <1>5, <2>3
  <2> QED
    BY <1>1, <2>1, <2>2, <2>4, <2>5
<1> QED
  BY <1>2, <1>3, <1>4, <1>5, <1>6, <1>7, <1>8

-----------------------------------------------------------------------------
(* g/.../d *)

\* The lines of s that are not in m, one after the other.
WithoutNext(t, m, x) == IF x \in m THEN t ELSE Append(t, x)

\* Without is the last of the sequences that it makes line by line.
LEMMA WithoutParts ==
    ASSUME NEW S, NEW s \in Seq(S), NEW m
    PROVE  \E g \in [0..Len(s) -> Seq(S)] :
               /\ g[0] = <<>> /\ Without(s, m) = g[Len(s)]
               /\ \A k \in 1..Len(s) : g[k] = WithoutNext(g[k - 1], m, s[k])
<1>1. PICK n \in Nat : n = Len(s)
  BY LenProperties
<1>2. \A k \in 1..n : s[k] \in S
  BY <1>1, ElementOfSeq
<1>3. PICK F : F = [ky \in (1..n) \X Seq(S) |-> WithoutNext(ky[2], m, s[ky[1]])]
  OBVIOUS
<1>4. StepFunction(F, n, Seq(S))
  <2>1. ASSUME NEW k \in 1..n, NEW t \in Seq(S) PROVE WithoutNext(t, m, s[k]) \in Seq(S)
    <3>1. s[k] \in S /\ Append(t, s[k]) \in Seq(S)
      BY <1>2, AppendFacts
    <3> QED
      BY <3>1 DEF WithoutNext
  <2> QED
    BY <1>3, <2>1 DEF StepFunction
<1>5. <<>> \in Seq(S)
  BY EmptySeq
<1>6. PICK g \in [0..n -> Seq(S)] :
          g[0] = <<>> /\ \A k \in 1..n : g[k] = F[<<k, g[k - 1]>>]
  <2>1. \E g : Unrolled(g, F, n, Seq(S), <<>>)
    BY <1>4, <1>5, RecursionExists
  <2> QED
    BY <2>1 DEF Unrolled
<1> DEFINE Table(h) == [k \in 0..n |-> IF k = 0 THEN <<>> ELSE WithoutNext(h[k - 1], m, s[k])]
<1>7. g = Table(g)
  <2>1. ASSUME NEW k \in 0..n
        PROVE  g[k] = IF k = 0 THEN <<>> ELSE WithoutNext(g[k - 1], m, s[k])
    <3>1. CASE k = 0
      BY <1>6, <3>1
    <3>2. CASE k # 0
      <4>1. k \in 1..n /\ k - 1 \in 0..n
        BY <3>2
      <4>2. g[k - 1] \in Seq(S)
        BY <4>1
      <4> QED
        BY <1>3, <1>6, <3>2, <4>1, <4>2
    <3> QED
      BY <3>1, <3>2
  <2> QED
    BY <2>1
<1>8. PICK h : h = CHOOSE x : x = Table(x)
  OBVIOUS
<1>9. h = Table(h)
  BY <1>7, <1>8
<1>10. Without(s, m) = h[n]
  BY <1>1, <1>8 DEF Without, WithoutNext
<1>11. h[0] = <<>> /\ \A k \in 1..n : h[k] = WithoutNext(h[k - 1], m, s[k])
  BY <1>9
<1>12. DOMAIN h = 0..n /\ h = [k \in 0..n |-> h[k]]
  BY <1>9
<1> DEFINE P == {k \in Nat : k <= n => h[k] \in Seq(S)}
<1>13. 0 \in P
  BY <1>5, <1>11
<1>14. ASSUME NEW k \in Nat, k \in P PROVE k + 1 \in P
  <2> SUFFICES ASSUME k + 1 <= n PROVE h[k + 1] \in Seq(S)
    OBVIOUS
  <2>1. PICK q \in 1..n : q = k + 1 /\ q - 1 = k
    OBVIOUS
  <2>2. h[q - 1] \in Seq(S) /\ s[q] \in S
    BY <1>2, <1>14, <2>1
  <2>3. Append(h[q - 1], s[q]) \in Seq(S)
    BY <2>2, AppendFacts
  <2>4. WithoutNext(h[q - 1], m, s[q]) \in Seq(S)
    BY <2>2, <2>3 DEF WithoutNext
  <2> QED
    BY <1>11, <2>1, <2>4
<1>15. Nat \subseteq P
  <2> HIDE DEF P
  <2> QED
    BY <1>13, <1>14, SetInduction
<1>16. h \in [0..n -> Seq(S)]
  <2>1. \A k \in 0..n : h[k] \in Seq(S)
    BY <1>15
  <2> QED
    BY <1>12, <2>1
<1> QED
  BY <1>1, <1>10, <1>11, <1>16

\* Nothing but the lines of m is missing, and no line is there twice.
LEMMA WithoutLines ==
    ASSUME NEW S, NEW s \in Seq(S), NEW m
    PROVE  /\ Without(s, m) \in Seq(S)
           /\ ToSet(Without(s, m)) = ToSet(s) \ m
           /\ IsInjective(s) => IsInjective(Without(s, m))
<1>1. PICK n \in Nat : n = Len(s)
  BY LenProperties
<1>2. PICK g \in [0..n -> Seq(S)] :
        /\ g[0] = <<>> /\ Without(s, m) = g[n]
        /\ \A k \in 1..n : g[k] = WithoutNext(g[k - 1], m, s[k])
  <2>1. \E g \in [0..Len(s) -> Seq(S)] :
           /\ g[0] = <<>> /\ Without(s, m) = g[Len(s)]
           /\ \A k \in 1..Len(s) : g[k] = WithoutNext(g[k - 1], m, s[k])
    <3>1. PICK w : w = Without(s, m)
      OBVIOUS
    <3> QED
      BY <3>1, WithoutParts
  <2> QED
    BY <1>1, <2>1
<1>3. \A k \in 1..n : s[k] \in S
  BY <1>1, ElementOfSeq
<1> DEFINE Has(k) == \A x : x \in ToSet(g[k]) <=> \E i \in 1..k : s[i] = x /\ x \notin m
           P == {k \in Nat : k <= n => /\ Has(k)
                                       /\ IsInjective(s) => IsInjective(g[k])}
<1>4. 0 \in P
  <2>1. \A i \in 1..0 : FALSE
    OBVIOUS
  <2> QED
    BY <1>2, <2>1, NoLines
<1>5. ASSUME NEW k \in Nat, k \in P PROVE k + 1 \in P
  <2> SUFFICES ASSUME k + 1 <= n
               PROVE  Has(k + 1) /\ (IsInjective(s) => IsInjective(g[k + 1]))
    OBVIOUS
  <2>1. PICK q \in 1..n : q = k + 1 /\ q - 1 = k /\ \A i : i \in 1..q <=> i \in 1..k \/ i = q
    OBVIOUS
  <2>2. PICK t \in Seq(S) : t = g[k]
    OBVIOUS
  <2>3. /\ \A x : x \in ToSet(t) <=> \E i \in 1..k : s[i] = x /\ x \notin m
        /\ IsInjective(s) => IsInjective(t)
    BY <1>5, <2>2
  <2>4. g[q] = WithoutNext(t, m, s[q]) /\ s[q] \in S
    BY <1>2, <1>3, <2>1, <2>2
  <2>5. CASE s[q] \in m
    <3>1. g[q] = t
      BY <2>4, <2>5 DEF WithoutNext
    <3>2. \A x : x \in ToSet(t) <=> \E i \in 1..q : s[i] = x /\ x \notin m
      BY <2>1, <2>3, <2>5
    <3> QED
      BY <2>1, <2>3, <3>1, <3>2
  <2>6. CASE s[q] \notin m
    <3>1. PICK z \in S, e \in Seq(S) :
            z = s[q] /\ e = <<z>> /\ ToSet(e) = {z} /\ IsInjective(e)
      BY <2>4, OneLine
    <3>2. g[q] = t \o e
      <4>1. g[q] = Append(t, z)
        BY <2>4, <2>6, <3>1 DEF WithoutNext
      <4>2. Append(t, z) = t \o <<z>>
        BY <3>1
      <4> QED
        BY <3>1, <4>1, <4>2
    <3>3. ToSet(e) = {z} /\ IsInjective(e)
      BY <3>1
    <3>4. ToSet(t \o e) = ToSet(t) \cup ToSet(e)
      BY ConcatLines
    <3>5. (IsInjective(t) /\ IsInjective(e) /\ ToSet(t) \cap ToSet(e) = {})
            => IsInjective(t \o e)
      BY ConcatLines
    <3>6. \A x : x \in ToSet(t \o e) <=> \E i \in 1..q : s[i] = x /\ x \notin m
      BY <2>1, <2>3, <2>6, <3>1, <3>3, <3>4
    <3>7. ASSUME IsInjective(s) PROVE IsInjective(t \o e)
      <4>1. \A i, j \in 1..Len(s) : s[i] = s[j] => i = j
        BY <3>7, ElementsOf
      <4>2. \A i \in 1..k : i \in 1..n /\ i # q
        BY <2>1
      <4>3. \A i \in 1..k : s[i] # z
        BY <1>1, <3>1, <4>1, <4>2
      <4>4. z \notin ToSet(t)
        BY <2>3, <4>3
      <4> QED
        BY <2>3, <3>3, <3>5, <3>7, <4>4
    <3> QED
      BY <2>1, <3>2, <3>6, <3>7
  <2> QED
    BY <2>5, <2>6
<1>6. Nat \subseteq P
  <2> HIDE DEF P
  <2> QED
    BY <1>4, <1>5, SetInduction
<1>7. /\ \A x : x \in ToSet(g[n]) <=> \E i \in 1..n : s[i] = x /\ x \notin m
      /\ IsInjective(s) => IsInjective(g[n])
  <2>1. n \in P
    BY <1>6
  <2> QED
    BY <2>1
<1>8. \A x : x \in ToSet(s) <=> \E i \in 1..n : s[i] = x
  BY <1>1, ElementsOf
<1>9. ToSet(g[n]) = ToSet(s) \ m
  BY <1>7, <1>8
<1>10. g[n] \in Seq(S)
  OBVIOUS
<1> QED
  BY <1>2, <1>7, <1>9, <1>10

\* One turn of gdelete()'s loop: the line at a2 goes to a1 when it has no mark.
TurnNext(t, m, a2) ==
    IF t.s[a2] \in m THEN t
    ELSE [s |-> [t.s EXCEPT ![t.a1] = t.s[a2]], a1 |-> t.a1 + 1]

\* What a turn works on: n lines, and the place for the next that stays.
TurnOf(n, S) == [s : [1..n -> S], a1 : Nat]

\* A turn leaves a sequence of as many lines and a place to go on.
LEMMA TurnTyped ==
    ASSUME NEW n \in Nat, NEW S, NEW t \in TurnOf(n, S), NEW m, NEW a2 \in 1..n
    PROVE  TurnNext(t, m, a2) \in TurnOf(n, S)
<1>1. PICK b \in [1..n -> S], a \in Nat : b = t.s /\ a = t.a1
  BY DEF TurnOf
<1>2. PICK z \in S : z = b[a2]
  BY <1>1
<1>3. [b EXCEPT ![a] = z] \in [1..n -> S]
  <2>1. b \in [1..n -> S]
    BY <1>1
  <2>2. \A x, f : f \in [1..n -> S] => [f EXCEPT ![x] = z] \in [1..n -> S]
    BY <1>2
  <2> QED
    BY <2>1, <2>2
<1>4. a + 1 \in Nat
  BY <1>1
<1> QED
  BY <1>1, <1>2, <1>3, <1>4 DEF TurnNext, TurnOf

\* s has n lines, and the first of m is at first.
FirstOf(s, m, n, first) == n = Len(s) /\ first = Min({i \in DOMAIN s : s[i] \in m})

\* h holds the turns of GDelete(s, m), and the last one begins with what is left.
TurnsOf(h, s, m, n, first, S) ==
    /\ h \in [0..n - first -> TurnOf(n, S)]
    /\ h[0] = [s |-> s, a1 |-> first]
    /\ GDelete(s, m) = SubSeq(h[n - first].s, 1, h[n - first].a1 - 1)
    /\ \A k \in 1..n - first : h[k] = TurnNext(h[k - 1], m, first + k)

\* GDelete is the beginning of the last of the turns.
LEMMA GDeleteTurns ==
    ASSUME NEW S, NEW s \in Seq(S), NEW m, NEW n \in Nat, NEW first \in 1..n,
           FirstOf(s, m, n, first)
    PROVE  \E h : TurnsOf(h, s, m, n, first, S)
<1>1. PICK N \in Nat : N = n - first
  <2>1. n - first \in Nat
    OBVIOUS
  <2> QED
    BY <2>1
<1>2. PICK x : x = [s |-> s, a1 |-> first]
  OBVIOUS
<1>3. x \in TurnOf(n, S)
  <2>1. s \in [1..n -> S] /\ first \in Nat
    BY LenProperties DEF FirstOf
  <2> QED
    BY <1>2, <2>1 DEF TurnOf
<1>4. \A k \in 1..N : first + k \in 1..n
  BY <1>1
<1>5. PICK F : F = [ky \in (1..N) \X TurnOf(n, S) |-> TurnNext(ky[2], m, first + ky[1])]
  OBVIOUS
<1>6. StepFunction(F, N, TurnOf(n, S))
  <2>1. ASSUME NEW k \in 1..N, NEW t \in TurnOf(n, S)
        PROVE  TurnNext(t, m, first + k) \in TurnOf(n, S)
    BY <1>4, TurnTyped
  <2> QED
    BY <1>5, <2>1 DEF StepFunction
<1>7. PICK g \in [0..N -> TurnOf(n, S)] :
          g[0] = x /\ \A k \in 1..N : g[k] = F[<<k, g[k - 1]>>]
  <2>1. \E g : Unrolled(g, F, N, TurnOf(n, S), x)
    BY <1>3, <1>6, RecursionExists
  <2> QED
    BY <2>1 DEF Unrolled
<1> DEFINE Table(h) == [k \in 0..N |-> IF k = 0 THEN x ELSE TurnNext(h[k - 1], m, first + k)]
<1>8. g = Table(g)
  <2>1. ASSUME NEW k \in 0..N
        PROVE  g[k] = IF k = 0 THEN x ELSE TurnNext(g[k - 1], m, first + k)
    <3>1. CASE k = 0
      BY <1>7, <3>1
    <3>2. CASE k # 0
      <4>1. k \in 1..N /\ k - 1 \in 0..N
        BY <3>2
      <4>2. g[k - 1] \in TurnOf(n, S)
        BY <4>1
      <4> QED
        BY <1>5, <1>7, <3>2, <4>1, <4>2
    <3> QED
      BY <3>1, <3>2
  <2> QED
    BY <2>1
<1> DEFINE Turns(h, f) == [k \in 0..Len(s) - f |->
                            IF k = 0 THEN [s |-> s, a1 |-> f] ELSE TurnNext(h[k - 1], m, f + k)]
<1>9. PICK h : h = CHOOSE y : y = Turns(y, first)
  OBVIOUS
<1>10. h = Table(h)
  <2>1. \A y : Table(y) = Turns(y, first)
    BY <1>1, <1>2 DEF FirstOf
  <2> HIDE DEF Table, Turns
  <2>2. g = Turns(g, first)
    BY <1>8, <2>1
  <2>3. h = Turns(h, first)
    BY <1>9, <2>2
  <2> QED
    BY <2>1, <2>3
<1>11. GDelete(s, m) = SubSeq(h[N].s, 1, h[N].a1 - 1)
  <2>1. PICK f : f = Min({i \in DOMAIN s : s[i] \in m})
    OBVIOUS
  <2>2. PICK e : e = CHOOSE y : y = Turns(y, f)
    OBVIOUS
  <2>3. GDelete(s, m) = SubSeq(e[Len(s) - f].s, 1, e[Len(s) - f].a1 - 1)
    BY <2>1, <2>2 DEF GDelete, TurnNext
  <2>4. f = first /\ e = h
    BY <1>9, <2>1, <2>2 DEF FirstOf
  <2>5. Len(s) - f = N
    BY <1>1, <2>4 DEF FirstOf
  <2> QED
    BY <2>3, <2>4, <2>5
<1>12. h[0] = x /\ \A k \in 1..N : h[k] = TurnNext(h[k - 1], m, first + k)
  BY <1>10
<1>13. DOMAIN h = 0..N /\ h = [k \in 0..N |-> h[k]]
  BY <1>10
<1> DEFINE P == {k \in Nat : k <= N => h[k] \in TurnOf(n, S)}
<1>14. 0 \in P
  BY <1>3, <1>12
<1>15. ASSUME NEW k \in Nat, k \in P PROVE k + 1 \in P
  <2> SUFFICES ASSUME k + 1 <= N PROVE h[k + 1] \in TurnOf(n, S)
    OBVIOUS
  <2>1. PICK q \in 1..N : q = k + 1 /\ q - 1 = k
    OBVIOUS
  <2>2. h[q - 1] \in TurnOf(n, S) /\ first + q \in 1..n
    BY <1>4, <1>15, <2>1
  <2>3. TurnNext(h[q - 1], m, first + q) \in TurnOf(n, S)
    BY <2>2, TurnTyped
  <2> QED
    BY <1>12, <2>1, <2>3
<1>16. Nat \subseteq P
  <2> HIDE DEF P
  <2> QED
    BY <1>14, <1>15, SetInduction
<1>17. h \in [0..N -> TurnOf(n, S)]
  <2>1. \A k \in 0..N : h[k] \in TurnOf(n, S)
    BY <1>16
  <2> QED
    BY <1>13, <2>1
<1> QED
  BY <1>1, <1>2, <1>11, <1>12, <1>17 DEF TurnsOf

\* g holds the parts of Without(s, m): what is left of the first lines of s.
PartsOf(g, s, m, n, S) ==
    /\ g \in [0..n -> Seq(S)] /\ g[0] = <<>>
    /\ \A i \in 1..n : s[i] \in S
    /\ \A k \in 1..n : g[k] = WithoutNext(g[k - 1], m, s[k])

\* first is the place of the first line of m.
FirstAt(s, m, first) == s[first] \in m /\ \A i \in 1..first - 1 : s[i] \notin m

\* The first l lines of u are those of s.
Copies(u, s, l) == \A i \in 1..l : u[i] = s[i]

\* Before the first line of m nothing is missing.
LEMMA WithoutBefore ==
    ASSUME NEW S, NEW n \in Nat, NEW s, NEW m, NEW first \in 1..n,
           NEW g, PartsOf(g, s, m, n, S), FirstAt(s, m, first)
    PROVE  /\ Len(g[first]) = first - 1
           /\ Copies(g[first], s, first - 1)
<1> USE DEF PartsOf, FirstAt, Copies
<1> DEFINE P == {k \in Nat : k < first => /\ Len(g[k]) = k
                                          /\ \A i \in 1..k : g[k][i] = s[i]}
<1>1. 0 \in P
  <2>1. Len(<<>>) = 0 /\ \A i \in 1..0 : FALSE
    BY EmptySeq
  <2> QED
    BY <2>1
<1>2. ASSUME NEW k \in Nat, k \in P PROVE k + 1 \in P
  <2> SUFFICES ASSUME k + 1 < first
               PROVE  Len(g[k + 1]) = k + 1 /\ \A i \in 1..k + 1 : g[k + 1][i] = s[i]
    OBVIOUS
  <2>1. PICK q \in 1..n : /\ q = k + 1 /\ q - 1 = k /\ q \in 1..first - 1
                          /\ \A i \in 1..q : i \in 1..k \/ i = q
    OBVIOUS
  <2>2. PICK t \in Seq(S), z \in S : t = g[k] /\ z = s[q]
    <3>1. k \in 0..n /\ s[q] \in S
      OBVIOUS
    <3> QED
      BY <3>1
  <2>3. Len(t) = k /\ \A i \in 1..k : t[i] = s[i]
    BY <1>2, <2>2
  <2>4. g[q] = Append(t, z)
    BY <2>1, <2>2 DEF WithoutNext
  <2>5. /\ Len(Append(t, z)) = Len(t) + 1
        /\ Append(t, z)[Len(t) + 1] = z
        /\ \A i \in 1..Len(t) : Append(t, z)[i] = t[i]
    BY AppendFacts
  <2>6. Len(g[q]) = q /\ \A i \in 1..q : g[q][i] = s[i]
    BY <2>1, <2>2, <2>3, <2>4, <2>5
  <2> QED
    BY <2>1, <2>6
<1>3. Nat \subseteq P
  <2> HIDE DEF P
  <2> QED
    BY <1>1, <1>2, SetInduction
<1>4. PICK k \in Nat : k = first - 1 /\ k < first
  <2>1. first - 1 \in Nat /\ first - 1 < first
    OBVIOUS
  <2> QED
    BY <2>1
<1>5. Len(g[k]) = k /\ \A i \in 1..k : g[k][i] = s[i]
  <2>1. k \in P
    BY <1>3
  <2> QED
    BY <1>4, <2>1
<1>6. g[first] = g[k]
  BY <1>4 DEF WithoutNext
<1> QED
  BY <1>4, <1>5, <1>6

\* After the turn at a2 the lines without a mark up to there have gone down, and
\* those behind it are where they were.
TurnDone(t, g, s, n, a2) ==
    /\ t.a1 - 1 = Len(g[a2]) /\ t.a1 \in 1..a2
    /\ \A i \in 1..t.a1 - 1 : t.s[i] = g[a2][i]
    /\ \A i \in a2 + 1..n : t.s[i] = s[i]

\* Each turn keeps TurnDone.
LEMMA TurnKeeps ==
    ASSUME NEW S, NEW n \in Nat, NEW s, NEW m, NEW g \in [0..n -> Seq(S)],
           NEW a2 \in 1..n, NEW t \in TurnOf(n, S), a2 - 1 \in 1..n,
           g[a2] = WithoutNext(g[a2 - 1], m, s[a2]), s[a2] \in S,
           TurnDone(t, g, s, n, a2 - 1)
    PROVE  TurnDone(TurnNext(t, m, a2), g, s, n, a2)
<1>1. PICK b \in [1..n -> S], a \in Nat, p \in 1..n :
        b = t.s /\ a = t.a1 /\ p = a2 - 1 /\ p + 1 = a2
  <2>1. t.s \in [1..n -> S] /\ t.a1 \in Nat
    BY DEF TurnOf
  <2>2. a2 - 1 + 1 = a2
    OBVIOUS
  <2>3. PICK p \in 1..n : p = a2 - 1 /\ p + 1 = a2
    BY <2>2
  <2> QED
    BY <2>1, <2>3
<1>2. PICK w \in Seq(S) : w = g[p]
  BY <1>1
<1>3. PICK z \in S : z = s[a2]
  OBVIOUS
<1>4. /\ a - 1 = Len(w) /\ a \in 1..p
      /\ \A i \in 1..a - 1 : b[i] = w[i]
      /\ \A i \in p + 1..n : b[i] = s[i]
  BY <1>1, <1>2 DEF TurnDone
<1>5. b[a2] = z
  <2>1. a2 \in p + 1..n
    BY <1>1
  <2> QED
    BY <1>3, <1>4, <2>1
<1>6. \A i \in a2 + 1..n : i \in p + 1..n /\ i # a /\ i \in 1..n
  <2>1. a \in 1..p /\ p \in 1..n /\ a2 = p + 1
    BY <1>1, <1>4
  <2> QED
    BY <2>1
<1>7. CASE z \in m
  <2>1. TurnNext(t, m, a2) = t
    BY <1>1, <1>5, <1>7 DEF TurnNext
  <2>2. g[a2] = w
    BY <1>1, <1>2, <1>3, <1>7 DEF WithoutNext
  <2>3. a \in 1..a2
    BY <1>1, <1>4
  <2> QED
    BY <1>1, <1>4, <1>6, <2>1, <2>2, <2>3 DEF TurnDone
<1>8. CASE z \notin m
  <2>1. PICK c : c = [b EXCEPT ![a] = z]
    OBVIOUS
  <2>2. TurnNext(t, m, a2) = [s |-> c, a1 |-> a + 1]
    BY <1>1, <1>5, <1>8, <2>1 DEF TurnNext
  <2>3. c[a] = z /\ \A i \in 1..n : i # a => c[i] = b[i]
    <3>1. a \in 1..n
      BY <1>1, <1>4
    <3> QED
      BY <1>1, <2>1, <3>1
  <2>4. PICK v \in Seq(S) : v = Append(w, z) /\ v = g[a2]
    <3>1. g[a2] = Append(w, z)
      BY <1>1, <1>2, <1>3, <1>8 DEF WithoutNext
    <3>2. Append(w, z) \in Seq(S)
      BY AppendFacts
    <3> QED
      BY <3>1, <3>2
  <2>5. Len(v) = a /\ v[a] = z /\ \A i \in 1..a - 1 : v[i] = w[i]
    <3>1. /\ Len(Append(w, z)) = Len(w) + 1
          /\ Append(w, z)[Len(w) + 1] = z
          /\ \A i \in 1..Len(w) : Append(w, z)[i] = w[i]
      BY AppendFacts
    <3>2. Len(w) + 1 = a
      BY <1>1, <1>4
    <3> QED
      BY <1>4, <2>4, <3>1, <3>2
  <2>6. ASSUME NEW i \in 1..a + 1 - 1 PROVE c[i] = v[i]
    <3>1. CASE i = a
      BY <2>3, <2>5, <3>1
    <3>2. CASE i # a
      <4>1. i \in 1..a - 1 /\ i \in 1..n
        BY <1>1, <1>4, <3>2
      <4> QED
        BY <1>4, <2>3, <2>5, <3>2, <4>1
    <3> QED
      BY <3>1, <3>2
  <2>7. ASSUME NEW i \in a2 + 1..n PROVE c[i] = s[i]
    <3>1. i \in p + 1..n /\ i # a /\ i \in 1..n
      BY <1>6, <2>7
    <3> QED
      BY <1>4, <2>3, <3>1
  <2>8. a + 1 - 1 = Len(v) /\ a + 1 \in 1..a2
    <3>1. a \in 1..p /\ p \in 1..n /\ a2 = p + 1 /\ Len(v) = a
      BY <1>1, <1>4, <2>5
    <3> QED
      BY <3>1
  <2> QED
    BY <2>2, <2>4, <2>6, <2>7, <2>8 DEF TurnDone
<1> QED
  BY <1>7, <1>8

\* The special case of g/.../d leaves what deleting the lines one by one would.
LEMMA GDeleteSame ==
    ASSUME NEW S, NEW s \in Seq(S), NEW m, \E i \in 1..Len(s) : s[i] \in m
    PROVE  GDelete(s, m) = Without(s, m)
<1>1. PICK n \in Nat : n = Len(s)
  BY LenProperties
<1>2. PICK T : T = {i \in DOMAIN s : s[i] \in m}
  OBVIOUS
<1>3. T = {i \in 1..n : s[i] \in m}
  BY <1>1, <1>2, LenProperties
<1>4. PICK first \in 1..n : first = Min(T) /\ first \in T /\ \A i \in T : first <= i
  <2>1. T \subseteq Nat /\ T # {}
    BY <1>1, <1>3
  <2>2. \E x \in T : \A y \in T : x <= y
    BY <2>1, LeastNumber
  <2>3. PICK x \in T : x = Min(T) /\ \A i \in T : x <= i
    BY <2>2 DEF Min
  <2>4. x \in 1..n
    BY <1>3, <2>3
  <2> QED
    BY <2>3, <2>4
<1>5. first \in 1..n /\ s[first] \in m /\ \A i \in 1..first - 1 : s[i] \notin m
  <2>1. first \in 1..n /\ s[first] \in m
    BY <1>3, <1>4
  <2>2. \A i \in 1..first - 1 : i \in 1..n /\ ~(first <= i)
    BY <2>1
  <2> QED
    BY <1>3, <1>4, <2>1, <2>2
<1>6. \A i \in 1..n : s[i] \in S
  BY <1>1, ElementOfSeq
<1>7. PICK g \in [0..n -> Seq(S)] :
        /\ g[0] = <<>> /\ Without(s, m) = g[n]
        /\ \A k \in 1..n : g[k] = WithoutNext(g[k - 1], m, s[k])
  <2>1. PICK w : w = Without(s, m)
    OBVIOUS
  <2>2. \E g \in [0..Len(s) -> Seq(S)] :
           /\ g[0] = <<>> /\ Without(s, m) = g[Len(s)]
           /\ \A k \in 1..Len(s) : g[k] = WithoutNext(g[k - 1], m, s[k])
    BY <2>1, WithoutParts
  <2> QED
    BY <1>1, <2>2
<1>8. PICK N \in Nat : N = n - first /\ first + N = n
  <2>1. n - first \in Nat /\ first + (n - first) = n
    BY <1>5
  <2> QED
    BY <2>1
<1>9. PICK h \in [0..N -> TurnOf(n, S)] :
        /\ h[0] = [s |-> s, a1 |-> first]
        /\ GDelete(s, m) = SubSeq(h[N].s, 1, h[N].a1 - 1)
        /\ \A k \in 1..N : h[k] = TurnNext(h[k - 1], m, first + k)
  <2>1. FirstOf(s, m, n, first)
    BY <1>1, <1>2, <1>4 DEF FirstOf
  <2>2. PICK w : w = GDelete(s, m)
    OBVIOUS
  <2>3. \E h : TurnsOf(h, s, m, n, first, S)
    <3>1. n \in Nat /\ first \in 1..n
      BY <1>1, <1>5
    <3> QED
      BY <2>1, <3>1, GDeleteTurns
  <2> QED
    BY <1>8, <2>3 DEF TurnsOf
<1> DEFINE P == {k \in Nat : k <= N => TurnDone(h[k], g, s, n, first + k)}
<1>10. 0 \in P
  <2>1. /\ Len(g[first]) = first - 1
        /\ \A i \in 1..first - 1 : g[first][i] = s[i]
    <3>1. /\ n \in Nat /\ first \in 1..n
          /\ PartsOf(g, s, m, n, S) /\ FirstAt(s, m, first)
      BY <1>1, <1>5, <1>6, <1>7 DEF PartsOf, FirstAt
    <3>2. Len(g[first]) = first - 1
      BY <3>1, WithoutBefore
    <3>3. Copies(g[first], s, first - 1)
      BY <3>1, WithoutBefore
    <3> QED
      BY <3>2, <3>3 DEF Copies
  <2>2. first + 0 = first /\ first \in 1..first
    BY <1>5
  <2>3. h[0].s = s /\ h[0].a1 = first
    BY <1>9
  <2>4. TurnDone(h[0], g, s, n, first)
    BY <2>1, <2>2, <2>3 DEF TurnDone
  <2> QED
    BY <2>2, <2>4
<1>11. ASSUME NEW k \in Nat, k \in P PROVE k + 1 \in P
  <2> SUFFICES ASSUME k + 1 <= N PROVE TurnDone(h[k + 1], g, s, n, first + (k + 1))
    OBVIOUS
  <2>1. PICK q \in 1..N, a2 \in 1..n :
          /\ q = k + 1 /\ q - 1 = k /\ a2 = first + q /\ a2 - 1 = first + k
          /\ a2 - 1 \in 1..n
    <3>1. /\ k + 1 \in 1..N /\ first + (k + 1) \in 1..n /\ k + 1 - 1 = k
          /\ first + (k + 1) - 1 = first + k /\ first + k \in 1..n
      <4>1. n \in Nat /\ first \in 1..n /\ N \in Nat /\ first + N = n
        BY <1>1, <1>5, <1>8
      <4> QED
        BY <4>1
    <3>2. PICK q \in 1..N : q = k + 1 /\ q - 1 = k
      BY <3>1
    <3>3. PICK a2 \in 1..n : a2 = first + (k + 1) /\ a2 - 1 = first + k
      BY <3>1
    <3> QED
      BY <3>1, <3>2, <3>3
  <2>2. PICK t \in TurnOf(n, S) : t = h[k]
    <3>1. k \in 0..N
      OBVIOUS
    <3> QED
      BY <3>1
  <2>3. TurnDone(t, g, s, n, a2 - 1)
    BY <1>11, <2>1, <2>2
  <2>4. g[a2] = WithoutNext(g[a2 - 1], m, s[a2]) /\ s[a2] \in S
    BY <1>6, <1>7
  <2>5. TurnDone(TurnNext(t, m, a2), g, s, n, a2)
    BY <2>1, <2>3, <2>4, TurnKeeps
  <2>6. h[q] = TurnNext(t, m, a2)
    BY <1>9, <2>1, <2>2
  <2> QED
    BY <2>1, <2>5, <2>6
<1>12. Nat \subseteq P
  <2> HIDE DEF P
  <2> QED
    BY <1>10, <1>11, SetInduction
<1>13. TurnDone(h[N], g, s, n, n)
  <2>1. N \in P
    BY <1>12
  <2> QED
    BY <1>8, <2>1
<1>14. PICK w \in Seq(S), b \in [1..n -> S], a \in Nat, l \in Nat :
         w = g[n] /\ b = h[N].s /\ a = h[N].a1 /\ l = Len(w)
  <2>1. h[N] \in TurnOf(n, S) /\ g[n] \in Seq(S)
    OBVIOUS
  <2>2. Len(g[n]) \in Nat
    BY <2>1, LenProperties
  <2> QED
    BY <2>1, <2>2 DEF TurnOf
<1>15. a - 1 = l /\ a \in 1..n /\ \A i \in 1..l : b[i] = w[i]
  BY <1>13, <1>14 DEF TurnDone
<1>16. PICK u : u = SubSeq(b, 1, l)
  OBVIOUS
<1>17. u \in Seq(S) /\ Len(u) = l /\ \A i \in 1..l : u[i] = b[i]
  <2>1. \A i \in 1..l : i \in 1..n
    BY <1>14, <1>15
  <2>2. \A i \in 1..l : b[i] \in S
    BY <1>14, <2>1
  <2>3. /\ u \in Seq(S) /\ Len(u) = IF 1 <= l THEN l - 1 + 1 ELSE 0
        /\ \A i \in 1..l - 1 + 1 : u[i] = b[1 + i - 1]
    BY <1>14, <1>16, <2>2, SubSeqProperties
  <2>4. Len(u) = l
    BY <1>14, <2>3
  <2>5. \A i \in 1..l : i \in 1..l - 1 + 1 /\ 1 + i - 1 = i
    BY <1>14
  <2> QED
    BY <2>3, <2>4, <2>5
<1>18. u = w
  <2>1. w \in Seq(S) /\ Len(u) = Len(w) /\ \A i \in 1..Len(u) : u[i] = w[i]
    BY <1>14, <1>15, <1>17
  <2> QED
    BY <1>17, <2>1, SeqEqual
<1> QED
  BY <1>7, <1>9, <1>14, <1>15, <1>16, <1>18

-----------------------------------------------------------------------------
(* New lines, and lines in pieces *)

\* What putline() makes is one line after another.
LEMMA RunLines ==
    ASSUME NEW t \in Nat, NEW n \in Nat
    PROVE  /\ [k \in 1..n |-> t + k] \in Seq(t + 1..t + n)
           /\ Len([k \in 1..n |-> t + k]) = n
           /\ ToSet([k \in 1..n |-> t + k]) = t + 1..t + n
           /\ IsInjective([k \in 1..n |-> t + k])
<1>1. PICK u : u = [k \in 1..n |-> t + k]
  OBVIOUS
<1>2. u \in [1..n -> t + 1..t + n]
  BY <1>1
<1>3. u \in Seq(t + 1..t + n)
  BY <1>2, SeqDef
<1>4. Len(u) = n
  BY <1>2, <1>3, LenProperties
<1>5. /\ \A x : x \in ToSet(u) <=> \E i \in 1..n : u[i] = x
      /\ IsInjective(u) <=> \A i, j \in 1..n : u[i] = u[j] => i = j
  BY <1>3, <1>4, ElementsOf
<1>6. \A k \in 1..n : u[k] = t + k
  BY <1>1
<1>7. IsInjective(u)
  BY <1>5, <1>6
<1>8. ToSet(u) \subseteq t + 1..t + n
  BY <1>3, ElementsOf
<1>9. ASSUME NEW l \in t + 1..t + n PROVE l \in ToSet(u)
  <2>1. l - t \in 1..n /\ t + (l - t) = l
    OBVIOUS
  <2>2. u[l - t] = l
    BY <1>6, <2>1
  <2> QED
    BY <1>5, <2>1, <2>2
<1> QED
  BY <1>1, <1>3, <1>4, <1>7, <1>8, <1>9

\* Pieces that have no line in common make a sequence of all their lines, without
\* any of them twice.
LEMMA FlattenLines ==
    ASSUME NEW S, NEW s \in Seq(Seq(S)),
           \A i \in 1..Len(s) : IsInjective(s[i]),
           \A i, j \in 1..Len(s) : i # j => ToSet(s[i]) \cap ToSet(s[j]) = {}
    PROVE  /\ FlattenSeq(s) \in Seq(S) /\ IsInjective(FlattenSeq(s))
           /\ \A x : x \in ToSet(FlattenSeq(s)) <=> \E i \in 1..Len(s) : x \in ToSet(s[i])
<1>1. PICK n \in Nat : n = Len(s)
  BY LenProperties
<1>2. PICK g \in [0..n -> Seq(S)] :
        /\ g[0] = <<>> /\ FlattenSeq(s) = g[n]
        /\ \A k \in 1..n : g[k] = g[k - 1] \o s[k]
  <2>1. \E g \in [0..Len(s) -> Seq(S)] :
           /\ g[0] = <<>> /\ FlattenSeq(s) = g[Len(s)]
           /\ \A k \in 1..Len(s) : g[k] = g[k - 1] \o s[k]
    <3>1. PICK w : w = FlattenSeq(s)
      OBVIOUS
    <3> QED
      BY <3>1, FlattenParts
  <2> QED
    BY <1>1, <2>1
<1>3. \A k \in 1..n : s[k] \in Seq(S)
  BY <1>1, ElementOfSeq
<1>4. /\ \A i \in 1..n : IsInjective(s[i])
      /\ \A i, j \in 1..n : i # j => ToSet(s[i]) \cap ToSet(s[j]) = {}
  BY <1>1
<1> DEFINE Has(k) == \A x : x \in ToSet(g[k]) <=> \E i \in 1..k : x \in ToSet(s[i])
           P == {k \in Nat : k <= n => Has(k) /\ IsInjective(g[k])}
<1>5. 0 \in P
  <2>1. \A i \in 1..0 : FALSE
    OBVIOUS
  <2> QED
    BY <1>2, <2>1, NoLines
<1>6. ASSUME NEW k \in Nat, k \in P PROVE k + 1 \in P
  <2> SUFFICES ASSUME k + 1 <= n PROVE Has(k + 1) /\ IsInjective(g[k + 1])
    OBVIOUS
  <2>1. PICK q \in 1..n : /\ q = k + 1 /\ q - 1 = k
                          /\ \A i : i \in 1..q <=> i \in 1..k \/ i = q
                          /\ \A i \in 1..k : i \in 1..n /\ i # q
    OBVIOUS
  <2>2. PICK t \in Seq(S), e \in Seq(S) : t = g[k] /\ e = s[q]
    <3>1. k \in 0..n /\ s[q] \in Seq(S)
      BY <1>3
    <3> QED
      BY <3>1
  <2>3. /\ \A x : x \in ToSet(t) <=> \E i \in 1..k : x \in ToSet(s[i])
        /\ IsInjective(t)
    BY <1>6, <2>2
  <2>4. g[q] = t \o e
    BY <1>2, <2>1, <2>2
  <2>5. ToSet(t \o e) = ToSet(t) \cup ToSet(e)
    BY ConcatLines
  <2>6. (IsInjective(t) /\ IsInjective(e) /\ ToSet(t) \cap ToSet(e) = {})
          => IsInjective(t \o e)
    BY ConcatLines
  <2>7. IsInjective(e)
    BY <1>4, <2>2
  <2>8. ToSet(t) \cap ToSet(e) = {}
    <3>1. \A i \in 1..k : ToSet(s[i]) \cap ToSet(s[q]) = {}
      BY <1>4, <2>1
    <3> QED
      BY <2>2, <2>3, <3>1
  <2>9. Has(q)
    BY <2>1, <2>2, <2>3, <2>4, <2>5
  <2> QED
    BY <2>1, <2>3, <2>4, <2>6, <2>7, <2>8, <2>9
<1>7. Nat \subseteq P
  <2> HIDE DEF P
  <2> QED
    BY <1>5, <1>6, SetInduction
<1>8. Has(n) /\ IsInjective(g[n])
  <2>1. n \in P
    BY <1>7
  <2> QED
    BY <2>1
<1>9. g[n] \in Seq(S)
  OBVIOUS
<1> QED
  BY <1>1, <1>2, <1>8, <1>9

\* How many of T are below a place grows with every one of T that is passed.
LEMMA BelowGrows ==
    ASSUME NEW n \in Nat, NEW T \in SUBSET (1..n)
    PROVE  /\ \A i \in 1..n + 1 : Cardinality(T \cap 1..i - 1) \in 0..Cardinality(T)
           /\ \A i \in 1..n + 1 : \A j \in i..n + 1 :
                Cardinality(T \cap 1..i - 1) <= Cardinality(T \cap 1..j - 1)
           /\ \A i \in T : \A j \in i + 1..n + 1 :
                Cardinality(T \cap 1..i - 1) + 1 <= Cardinality(T \cap 1..j - 1)
           /\ \A i \in T : Cardinality(T \cap 1..i - 1) + 1 <= Cardinality(T)
<1>1. IsFiniteSet(T)
  <2>1. IsFiniteSet(1..n)
    BY FS_Interval
  <2> QED
    BY <2>1, FS_Subset
<1>2. \A U \in SUBSET T : IsFiniteSet(U) /\ Cardinality(U) \in Nat
                          /\ Cardinality(U) <= Cardinality(T)
  BY <1>1, FS_Subset, FS_CardinalityType
<1>3. Cardinality(T) \in Nat
  BY <1>1, FS_CardinalityType
<1>4. \A U, V : V \in SUBSET T /\ U \in SUBSET V => Cardinality(U) <= Cardinality(V)
  BY <1>2, FS_Subset
<1>5. \A U : U \in SUBSET T => \A i : i \notin U =>
        IsFiniteSet(U \cup {i}) /\ Cardinality(U \cup {i}) = Cardinality(U) + 1
  BY <1>2, FS_AddElement
<1>6. \A i : T \cap 1..i - 1 \in SUBSET T
  OBVIOUS
<1>7. ASSUME NEW i \in 1..n + 1, NEW j \in i..n + 1
      PROVE  Cardinality(T \cap 1..i - 1) <= Cardinality(T \cap 1..j - 1)
  <2>1. T \cap 1..i - 1 \subseteq T \cap 1..j - 1
    OBVIOUS
  <2> QED
    BY <1>4, <1>6, <2>1
<1>8. ASSUME NEW i \in T
      PROVE  /\ \A j \in i + 1..n + 1 :
                  Cardinality(T \cap 1..i - 1) + 1 <= Cardinality(T \cap 1..j - 1)
             /\ Cardinality(T \cap 1..i - 1) + 1 <= Cardinality(T)
  <2>1. PICK U \in SUBSET T : U = T \cap 1..i - 1
    BY <1>6
  <2>2. i \notin U /\ U \cup {i} \in SUBSET T
    BY <2>1
  <2>3. Cardinality(U \cup {i}) = Cardinality(U) + 1
    BY <1>5, <2>2
  <2>4. ASSUME NEW j \in i + 1..n + 1
        PROVE  Cardinality(U \cup {i}) <= Cardinality(T \cap 1..j - 1)
    <3>1. U \cup {i} \subseteq T \cap 1..j - 1
      BY <2>1
    <3> QED
      BY <1>4, <1>6, <3>1
  <2>5. Cardinality(U \cup {i}) <= Cardinality(T)
    BY <1>2, <2>2
  <2> QED
    BY <2>1, <2>3, <2>4, <2>5
<1>9. ASSUME NEW i \in 1..n + 1
      PROVE  Cardinality(T \cap 1..i - 1) \in 0..Cardinality(T)
  <2>1. PICK U \in SUBSET T : U = T \cap 1..i - 1
    BY <1>6
  <2>2. Cardinality(U) \in Nat /\ Cardinality(U) <= Cardinality(T)
    BY <1>2
  <2> QED
    BY <1>3, <2>1, <2>2
<1> QED
  BY <1>7, <1>8, <1>9

\* A sequence of two elements.
LEMMA TwoLines ==
    ASSUME NEW S, NEW x \in S, NEW y \in S, x # y
    PROVE  <<x, y>> \in Seq(S) /\ ToSet(<<x, y>>) = {x, y} /\ IsInjective(<<x, y>>)
<1>1. PICK e : e = [i \in 1..2 |-> IF i = 1 THEN x ELSE y]
  OBVIOUS
<1>2. e \in [1..2 -> S] /\ e[1] = x /\ e[2] = y
  BY <1>1
<1>3. e \in Seq(S)
  BY <1>2, SeqDef
<1>4. Len(e) = 2
  BY <1>2, <1>3, LenProperties
<1>5. e = <<x, y>>
  BY <1>1
<1>6. /\ \A z : z \in ToSet(e) <=> \E i \in 1..2 : e[i] = z
      /\ IsInjective(e) <=> \A i, j \in 1..2 : e[i] = e[j] => i = j
  BY <1>3, <1>4, ElementsOf
<1>7. \A i : i \in 1..2 <=> i = 1 \/ i = 2
  OBVIOUS
<1>8. ToSet(e) = {x, y}
  <2>1. \A z : z \in ToSet(e) <=> z = x \/ z = y
    BY <1>2, <1>6, <1>7
  <2> QED
    BY <2>1
<1>9. IsInjective(e)
  BY <1>2, <1>6, <1>7
<1> QED
  BY <1>3, <1>5, <1>8, <1>9

\* The new lines come in the order of the lines that are substituted, two for each
\* line of Split.
PutsFit(put, S, Split, t, t2) ==
    /\ put \in [S -> t + 1..t2]
    /\ \A i \in Split : put[i] + 1 <= t2
    /\ \A i, j \in S : i < j => put[i] < put[j] /\ (i \in Split => put[i] + 1 < put[j])

\* Where substitute() puts them is that order.
LEMMA SubstPuts ==
    ASSUME NEW n \in Nat, NEW S \in SUBSET (1..n), NEW Split \in SUBSET S, NEW t \in Nat
    PROVE  PutsFit([i \in S |-> t + 1 + (Cardinality(S \cap 1..i - 1)
                                         + Cardinality(Split \cap 1..i - 1))],
                   S, Split, t, t + (Cardinality(S) + Cardinality(Split)))
<1>1. PICK A \in [S -> Int] : A = [i \in S |-> Cardinality(S \cap 1..i - 1)]
  <2>1. \A i \in S : i \in 1..n + 1
    OBVIOUS
  <2>2. \A i \in S : Cardinality(S \cap 1..i - 1) \in 0..Cardinality(S)
    BY <2>1, BelowGrows
  <2>3. \A i \in S : Cardinality(S \cap 1..i - 1) \in Int
    BY <2>2
  <2> QED
    BY <2>3
<1>2. PICK B \in [S -> Int] : B = [i \in S |-> Cardinality(Split \cap 1..i - 1)]
  <2>1. Split \in SUBSET (1..n) /\ \A i \in S : i \in 1..n + 1
    OBVIOUS
  <2>2. \A i \in S : Cardinality(Split \cap 1..i - 1) \in 0..Cardinality(Split)
    BY <2>1, BelowGrows
  <2>3. \A i \in S : Cardinality(Split \cap 1..i - 1) \in Int
    BY <2>2
  <2> QED
    BY <2>3
<1>3. PICK a \in Nat, d \in Nat : a = Cardinality(S) /\ d = Cardinality(Split)
  <2>1. IsFiniteSet(1..n) /\ Split \in SUBSET (1..n)
    BY FS_Interval
  <2>2. IsFiniteSet(S) /\ IsFiniteSet(Split)
    BY <2>1, FS_Subset
  <2> QED
    BY <2>2, FS_CardinalityType
<1>4. /\ \A i \in S : A[i] \in 0..a - 1
      /\ \A i, j \in S : i < j => A[i] + 1 <= A[j]
  <2>1. \A i \in S : i \in 1..n + 1 /\ \A j \in S : i < j => j \in i + 1..n + 1
    OBVIOUS
  <2>2. \A i \in S : Cardinality(S \cap 1..i - 1) \in 0..Cardinality(S)
    BY <2>1, BelowGrows
  <2>3. \A i \in S : Cardinality(S \cap 1..i - 1) + 1 <= Cardinality(S)
    BY BelowGrows
  <2>4. \A i \in S : \A j \in i + 1..n + 1 :
          Cardinality(S \cap 1..i - 1) + 1 <= Cardinality(S \cap 1..j - 1)
    BY BelowGrows
  <2>5. \A i \in S : A[i] = Cardinality(S \cap 1..i - 1)
    BY <1>1
  <2>6. \A i \in S : A[i] \in 0..a /\ A[i] + 1 <= a
    BY <1>3, <2>2, <2>3, <2>5
  <2>7. \A i \in S : A[i] \in 0..a - 1
    BY <1>3, <2>6
  <2>8. ASSUME NEW i \in S, NEW j \in S, i < j PROVE A[i] + 1 <= A[j]
    BY <2>1, <2>4, <2>5, <2>8
  <2> QED
    BY <2>7, <2>8
<1>5. /\ \A i \in S : B[i] \in 0..d
      /\ \A i \in Split : B[i] + 1 <= d
      /\ \A i, j \in S : i < j => B[i] <= B[j]
      /\ \A i \in Split, j \in S : i < j => B[i] + 1 <= B[j]
  <2>1. \A i \in S : i \in 1..n + 1 /\ \A j \in S : i < j => j \in i + 1..n + 1 /\ j \in i..n + 1
    OBVIOUS
  <2>2. Split \in SUBSET (1..n)
    OBVIOUS
  <2>3. \A i \in S : Cardinality(Split \cap 1..i - 1) \in 0..Cardinality(Split)
    BY <2>1, <2>2, BelowGrows
  <2>4. \A i \in Split : Cardinality(Split \cap 1..i - 1) + 1 <= Cardinality(Split)
    BY <2>2, BelowGrows
  <2>5. \A i \in Split : \A j \in i + 1..n + 1 :
          Cardinality(Split \cap 1..i - 1) + 1 <= Cardinality(Split \cap 1..j - 1)
    BY <2>2, BelowGrows
  <2>6. \A i \in 1..n + 1 : \A j \in i..n + 1 :
          Cardinality(Split \cap 1..i - 1) <= Cardinality(Split \cap 1..j - 1)
    BY <2>2, BelowGrows
  <2>7. \A i \in S : B[i] = Cardinality(Split \cap 1..i - 1)
    BY <1>2
  <2>8. \A i \in S : B[i] \in 0..d
    BY <1>3, <2>3, <2>7
  <2>9. \A i \in Split : i \in S /\ B[i] + 1 <= d
    BY <1>3, <2>4, <2>7
  <2>10. \A i, j \in S : i < j => B[i] <= B[j]
    BY <2>1, <2>6, <2>7
  <2>11. \A i \in Split, j \in S : i < j => B[i] + 1 <= B[j]
    BY <2>1, <2>5, <2>7
  <2> QED
    BY <2>8, <2>9, <2>10, <2>11
<1>6. PICK put : put = [i \in S |-> t + 1 + (Cardinality(S \cap 1..i - 1)
                                             + Cardinality(Split \cap 1..i - 1))]
  OBVIOUS
<1>7. \A i \in S : put[i] = t + 1 + (A[i] + B[i])
  BY <1>1, <1>2, <1>6
<1>8. PICK t2 \in Nat : t2 = t + (a + d)
  OBVIOUS
<1>9. ASSUME NEW i \in S PROVE put[i] \in t + 1..t2
  <2>1. A[i] \in 0..a - 1 /\ B[i] \in 0..d
    BY <1>4, <1>5
  <2> QED
    BY <1>7, <1>8, <2>1
<1>10. ASSUME NEW i \in Split PROVE put[i] + 1 <= t2
  <2>1. i \in S /\ A[i] \in 0..a - 1 /\ B[i] \in 0..d /\ B[i] + 1 <= d
    BY <1>4, <1>5
  <2> QED
    BY <1>7, <1>8, <2>1
<1>11. ASSUME NEW i \in S, NEW j \in S, i < j
       PROVE  put[i] < put[j] /\ (i \in Split => put[i] + 1 < put[j])
  <2>1. /\ A[i] \in Int /\ A[j] \in Int /\ B[i] \in Int /\ B[j] \in Int
        /\ A[i] + 1 <= A[j] /\ B[i] <= B[j] /\ (i \in Split => B[i] + 1 <= B[j])
    BY <1>4, <1>5, <1>11
  <2>2. put[i] = t + 1 + (A[i] + B[i]) /\ put[j] = t + 1 + (A[j] + B[j])
    BY <1>7
  <2> QED
    BY <2>1, <2>2
<1>12. put \in [S -> t + 1..t2]
  BY <1>6, <1>9
<1>13. PutsFit(put, S, Split, t, t2)
  BY <1>10, <1>11, <1>12 DEF PutsFit
<1> QED
  BY <1>3, <1>6, <1>8, <1>13

\* What substitute() makes of the line at i.
Piece(b, S, Split, put, i) ==
    IF i \notin S THEN <<b[i]>>
    ELSE IF i \in Split THEN <<put[i], put[i] + 1>>
    ELSE <<put[i]>>

\* Each piece is of new lines, or the line itself.
LEMMA PieceLines ==
    ASSUME NEW t \in Nat, NEW t2 \in Nat, t <= t2, NEW b \in Seq(1..t),
           NEW S \in SUBSET (1..Len(b)), NEW Split \in SUBSET S,
           NEW put, PutsFit(put, S, Split, t, t2), NEW i \in 1..Len(b)
    PROVE  /\ Piece(b, S, Split, put, i) \in Seq(1..t2)
           /\ IsInjective(Piece(b, S, Split, put, i))
           /\ \A l : l \in ToSet(Piece(b, S, Split, put, i)) <=>
                  \/ i \notin S /\ l = b[i]
                  \/ i \in S /\ (l = put[i] \/ (i \in Split /\ l = put[i] + 1))
<1>1. CASE i \notin S
  <2>1. PICK z \in 1..t2 : z = b[i]
    <3>1. b[i] \in 1..t
      BY ElementOfSeq
    <3> QED
      BY <3>1
  <2>2. <<z>> \in Seq(1..t2) /\ ToSet(<<z>>) = {z} /\ IsInjective(<<z>>)
    BY OneLine
  <2>3. Piece(b, S, Split, put, i) = <<z>>
    BY <1>1, <2>1 DEF Piece
  <2> QED
    BY <1>1, <2>1, <2>2, <2>3
<1>2. CASE i \in S /\ i \notin Split
  <2>1. PICK z \in 1..t2 : z = put[i]
    <3>1. put[i] \in t + 1..t2
      BY <1>2 DEF PutsFit
    <3> QED
      BY <3>1
  <2>2. <<z>> \in Seq(1..t2) /\ ToSet(<<z>>) = {z} /\ IsInjective(<<z>>)
    BY OneLine
  <2>3. Piece(b, S, Split, put, i) = <<z>>
    BY <1>2, <2>1 DEF Piece
  <2> QED
    BY <1>2, <2>1, <2>2, <2>3
<1>3. CASE i \in Split
  <2>1. PICK y \in 1..t2, z \in 1..t2 : y = put[i] /\ z = put[i] + 1 /\ y # z
    <3>1. put[i] \in t + 1..t2 /\ put[i] + 1 <= t2
      BY <1>3 DEF PutsFit
    <3>2. put[i] \in 1..t2 /\ put[i] + 1 \in 1..t2 /\ put[i] # put[i] + 1
      BY <3>1
    <3> QED
      BY <3>2
  <2>2. /\ <<y, z>> \in Seq(1..t2) /\ ToSet(<<y, z>>) = {y, z}
        /\ IsInjective(<<y, z>>)
    BY <2>1, TwoLines
  <2>3. Piece(b, S, Split, put, i) = <<y, z>>
    BY <1>3, <2>1 DEF Piece
  <2> QED
    BY <1>3, <2>1, <2>2, <2>3
<1> QED
  BY <1>1, <1>2, <1>3

\* What substitute() makes of them all.
Substituted(b, S, Split, put) ==
    FlattenSeq([i \in 1..Len(b) |-> Piece(b, S, Split, put, i)])

\* Where the lines after a substitution come from.
SubstSources(b2, b, S, Split, put) ==
    \A l : l \in ToSet(b2)
        <=> \/ \E i \in 1..Len(b) : i \notin S /\ l = b[i]
            \/ \E i \in S : l = put[i] \/ (i \in Split /\ l = put[i] + 1)

\* s leaves the lines it does not match, and makes new ones of the others.
LEMMA SubstLines ==
    ASSUME NEW t \in Nat, NEW t2 \in Nat, t <= t2, NEW b \in Seq(1..t), IsInjective(b),
           NEW S \in SUBSET (1..Len(b)), NEW Split \in SUBSET S,
           NEW put, PutsFit(put, S, Split, t, t2)
    PROVE  /\ Substituted(b, S, Split, put) \in Seq(1..t2)
           /\ IsInjective(Substituted(b, S, Split, put))
           /\ SubstSources(Substituted(b, S, Split, put), b, S, Split, put)
<1>1. PICK n \in Nat : n = Len(b)
  BY LenProperties
<1>2. PICK s : s = [i \in 1..Len(b) |-> Piece(b, S, Split, put, i)]
  OBVIOUS
<1>3. \A i \in 1..n : s[i] = Piece(b, S, Split, put, i)
  BY <1>1, <1>2
<1>4. ASSUME NEW i \in 1..n
      PROVE  /\ s[i] \in Seq(1..t2) /\ IsInjective(s[i])
             /\ \A l : l \in ToSet(s[i]) <=>
                  \/ i \notin S /\ l = b[i]
                  \/ i \in S /\ (l = put[i] \/ (i \in Split /\ l = put[i] + 1))
  <2>1. i \in 1..Len(b)
    BY <1>1
  <2>2. /\ Piece(b, S, Split, put, i) \in Seq(1..t2)
        /\ IsInjective(Piece(b, S, Split, put, i))
        /\ \A l : l \in ToSet(Piece(b, S, Split, put, i)) <=>
               \/ i \notin S /\ l = b[i]
               \/ i \in S /\ (l = put[i] \/ (i \in Split /\ l = put[i] + 1))
    BY <2>1, PieceLines
  <2> QED
    BY <1>3, <2>2
<1>5. s \in Seq(Seq(1..t2)) /\ Len(s) = n
  <2>1. s \in [1..n -> Seq(1..t2)]
    <3>1. s = [i \in 1..n |-> Piece(b, S, Split, put, i)]
      BY <1>1, <1>2
    <3> QED
      BY <1>3, <1>4, <3>1
  <2>2. s \in Seq(Seq(1..t2))
    BY <2>1, SeqDef
  <2> QED
    BY <2>1, <2>2, LenProperties
<1>6. ASSUME NEW i \in 1..n, NEW j \in 1..n, i < j, NEW l, l \in ToSet(s[i]), l \in ToSet(s[j])
      PROVE  FALSE
  <2>1. /\ \/ i \notin S /\ l = b[i]
           \/ i \in S /\ (l = put[i] \/ (i \in Split /\ l = put[i] + 1))
        /\ \/ j \notin S /\ l = b[j]
           \/ j \in S /\ (l = put[j] \/ (j \in Split /\ l = put[j] + 1))
    BY <1>4, <1>6
  <2>2. b[i] # b[j] /\ b[i] \in 1..t /\ b[j] \in 1..t
    <3>1. b[i] \in 1..t /\ b[j] \in 1..t
      BY <1>1, ElementOfSeq
    <3>2. \A x, y \in 1..n : b[x] = b[y] => x = y
      BY <1>1, ElementsOf
    <3> QED
      BY <1>6, <3>1, <3>2
  <2>3. \A x \in S : put[x] \in t + 1..t2
    BY DEF PutsFit
  <2>4. i \in S /\ j \in S => put[i] < put[j] /\ (i \in Split => put[i] + 1 < put[j])
    BY <1>6 DEF PutsFit
  <2>5. CASE i \in S /\ j \in S
    <3>1. put[i] \in t + 1..t2 /\ put[j] \in t + 1..t2
      BY <2>3, <2>5
    <3> QED
      BY <2>1, <2>4, <2>5, <3>1
  <2>6. CASE i \in S /\ j \notin S
    <3>1. put[i] \in t + 1..t2
      BY <2>3, <2>6
    <3> QED
      BY <2>1, <2>2, <2>6, <3>1
  <2>7. CASE i \notin S /\ j \in S
    <3>1. put[j] \in t + 1..t2
      BY <2>3, <2>7
    <3> QED
      BY <2>1, <2>2, <2>7, <3>1
  <2>8. CASE i \notin S /\ j \notin S
    BY <2>1, <2>2, <2>8
  <2> QED
    BY <2>5, <2>6, <2>7, <2>8
<1>7. \A i, j \in 1..n : i # j => ToSet(s[i]) \cap ToSet(s[j]) = {}
  <2> SUFFICES ASSUME NEW i \in 1..n, NEW j \in 1..n, i # j
               PROVE  ToSet(s[i]) \cap ToSet(s[j]) = {}
    OBVIOUS
  <2>1. CASE i < j
    BY <1>6, <2>1
  <2>2. CASE j < i
    BY <1>6, <2>2
  <2> QED
    BY <2>1, <2>2
<1>8. /\ FlattenSeq(s) \in Seq(1..t2) /\ IsInjective(FlattenSeq(s))
      /\ \A x : x \in ToSet(FlattenSeq(s)) <=> \E i \in 1..n : x \in ToSet(s[i])
  <2>1. /\ \A i \in 1..Len(s) : IsInjective(s[i])
        /\ \A i, j \in 1..Len(s) : i # j => ToSet(s[i]) \cap ToSet(s[j]) = {}
    BY <1>4, <1>5, <1>7
  <2>2. s \in Seq(Seq(1..t2))
    BY <1>5
  <2>3. FlattenSeq(s) \in Seq(1..t2)
    BY <2>1, <2>2, FlattenLines
  <2>4. IsInjective(FlattenSeq(s))
    BY <2>1, <2>2, FlattenLines
  <2>5. \A x : x \in ToSet(FlattenSeq(s)) <=> \E i \in 1..Len(s) : x \in ToSet(s[i])
    BY <2>1, <2>2, FlattenLines
  <2> QED
    BY <1>5, <2>3, <2>4, <2>5
<1>9. \A l : l \in ToSet(FlattenSeq(s))
                <=> \/ \E i \in 1..n : i \notin S /\ l = b[i]
                    \/ \E i \in S : l = put[i] \/ (i \in Split /\ l = put[i] + 1)
  <2>1. \A i \in S : i \in 1..n
    BY <1>1
  <2> QED
    BY <1>4, <1>8, <2>1
<1>10. FlattenSeq(s) = Substituted(b, S, Split, put)
  BY <1>2 DEF Substituted
<1>11. SubstSources(FlattenSeq(s), b, S, Split, put)
  BY <1>1, <1>9 DEF SubstSources
<1> QED
  BY <1>8, <1>10, <1>11

\* move() to the line before does nothing.
LEMMA RotatedStill ==
    ASSUME NEW S, NEW s \in Seq(S), NEW i \in 1..Len(s), NEW j \in i..Len(s)
    PROVE  Rotated(s, i - 1, i, j + 1) = s
<1>1. PICK n \in Nat : n = Len(s)
  BY LenProperties
<1>2. PICK adt \in 0..n : adt = i - 1 /\ adt < i
  <2>1. i \in 1..n
    BY <1>1
  <2>2. i - 1 \in 0..n /\ i - 1 < i
    BY <2>1
  <2> QED
    BY <2>2
<1>3. PICK r : r = Rotated(s, adt, i, j + 1)
  OBVIOUS
<1>4. adt \in 0..Len(s) /\ (adt < i \/ adt > j)
  BY <1>1, <1>2
<1>5. r \in Seq(S) /\ Len(r) = Len(s)
  BY <1>3, <1>4, RotatedLines
<1>6. \A k \in 1..Len(s) :
        adt < i => Rotated(s, adt, i, j + 1)[k] =
            IF k \in adt + 1..adt + (j - i + 1) THEN s[i - adt - 1 + k]
            ELSE IF k \in adt + 1..j THEN s[k - (j - i + 1)]
            ELSE s[k]
  BY <1>4, RotatedLines
<1>7. ASSUME NEW k \in 1..Len(s) PROVE r[k] = s[k]
  <2>1. /\ k \in Int /\ k \in 1..n /\ i - adt - 1 + k = k
        /\ (k \in adt + 1..j => k \in adt + 1..adt + (j - i + 1))
    BY <1>1, <1>2
  <2> QED
    BY <1>2, <1>3, <1>6, <2>1
<1>8. r = s
  BY <1>5, <1>7, SeqEqual
<1> QED
  BY <1>2, <1>3, <1>8

-----------------------------------------------------------------------------
(* The invariants *)

\* What undo would bring back is the buffer of before the last command, and within
\* a global command the one of before that.
UndoKnowsPast ==
    und.set /\ ~nested /\ mode # "crashed" =>
        /\ und.buf = past
        /\ ~Typed => start = past

\* The kinds of step, with what is seen of them.
EditStep ==
    \/ Altering /\ Edited
    \/ (Read \/ ReadCut) /\ Edited
LookStep == (Looking \/ Saving) /\ NotEdited
UndoStep == Undo /\ Undone
AnewStep == Beginning /\ Anew

LEMMA KindsOfStep ==
    ASSUME [EdNext]_vars
    PROVE  EditStep \/ LookStep \/ UndoStep \/ AnewStep \/ UNCHANGED vars
BY DEF EdNext, EditStep, LookStep, UndoStep, AnewStep

-----------------------------------------------------------------------------
(* What undo knows *)

\* No command is carried out after a crash.
LEMMA CommandIsReady ==
    ASSUME Done \/ DoneOrCut \/ Abort
    PROVE  mode # "crashed" /\ (Typed => Typed')
BY DEF Done, DoneOrCut, Abort, Ready, Typed

\* Every command that edits the buffer begins with a checkpoint.
LEMMA EditsCheck ==
    ASSUME Altering \/ Read \/ ReadCut
    PROVE  Checkpoint /\ mode # "crashed"
<1>1. CASE AppendText
  BY <1>1, CommandIsReady DEF AppendText
<1>2. CASE Delete
  BY <1>2, CommandIsReady DEF Delete
<1>3. CASE Change
  BY <1>3, CommandIsReady DEF Change
<1>4. CASE Join
  BY <1>4, CommandIsReady DEF Join
<1>5. CASE Move
  BY <1>5, CommandIsReady DEF Move
<1>6. CASE Copy
  BY <1>6, CommandIsReady DEF Copy
<1>7. CASE Substitute
  <2>1. Done \/ Ready
    BY <1>7 DEF Substitute
  <2>2. Checkpoint
    BY <1>7 DEF Substitute
  <2> QED
    BY <2>1, <2>2 DEF Done, Ready, Typed
<1>8. CASE ComeToNothing
  BY <1>8, CommandIsReady DEF ComeToNothing
<1>9. CASE GlobalBegins \/ GlobalDelete
  BY <1>9 DEF GlobalBegins, GlobalDelete, Typed
<1>10. CASE Read \/ ReadCut
  <2>1. ReadLines /\ (Done \/ Abort)
    BY <1>10 DEF Read, ReadCut
  <2> QED
    BY <2>1, CommandIsReady DEF ReadLines
<1> QED
  BY <1>1, <1>2, <1>3, <1>4, <1>5, <1>6, <1>7, <1>8, <1>9, <1>10 DEF Altering

\* What is typed makes the present the past; what is in a list leaves the past
\* where the global command began.
LEMMA EditsKeepPast ==
    ASSUME UndoKnowsPast, EditStep
    PROVE  UndoKnowsPast'
<1>1. Checkpoint /\ mode # "crashed" /\ Edited
  BY EditsCheck DEF EditStep
<1>2. CASE Typed
  <2>1. und'.buf = buf
    BY <1>1, <1>2 DEF Checkpoint
  <2>2. past' = buf /\ (~Typed' => start' = buf)
    BY <1>1, <1>2 DEF Edited, Follow, Began, Typed
  <2> QED
    BY <2>1, <2>2 DEF UndoKnowsPast
<1>3. CASE ~Typed
  <2>1. und' = und /\ (nested' <=> nested)
    BY <1>1, <1>3 DEF Checkpoint, Edited, Follow
  <2>2. CASE nested
    BY <2>1, <2>2 DEF UndoKnowsPast
  <2>3. CASE ~nested
    <3>1. /\ past' = IF buf' # buf THEN start ELSE past
          /\ ~Typed' => start' = start
      BY <1>1, <1>3, <2>3 DEF Edited, Follow, Began, Typed
    <3> QED
      BY <1>1, <1>3, <2>1, <3>1 DEF UndoKnowsPast
  <2> QED
    BY <2>2, <2>3
<1> QED
  BY <1>2, <1>3

\* What edits nothing leaves the buffer and what undo knows of it.
LEMMA LooksLeave ==
    ASSUME Looking \/ Saving
    PROVE  UNCHANGED <<buf, und>> /\ mode # "crashed" /\ (Typed => Typed')
<1>1. CASE MarkName
  BY <1>1, CommandIsReady DEF MarkName, NoCheckpoint, text
<1>2. CASE GoTo
  BY <1>2, CommandIsReady DEF GoTo, NoCheckpoint
<1>3. CASE GlobalLine
  BY <1>3 DEF GlobalLine, Typed
<1>4. CASE ListEnds
  BY <1>4 DEF ListEnds, text, Typed
<1>5. CASE GlobalEnds
  BY <1>5 DEF GlobalEnds, text, Typed
<1>6. CASE Write
  BY <1>6, CommandIsReady DEF Write, NoCheckpoint, text
<1>7. CASE Warning
  BY <1>7, CommandIsReady DEF Warning, NoCheckpoint, text
<1> QED
  BY <1>1, <1>2, <1>3, <1>4, <1>5, <1>6, <1>7 DEF Looking, Saving

LEMMA LooksKeepPast ==
    ASSUME UndoKnowsPast, LookStep
    PROVE  UndoKnowsPast'
<1>1. UNCHANGED <<buf, und>> /\ mode # "crashed" /\ (Typed => Typed') /\ NotEdited
  BY LooksLeave DEF LookStep
<1>2. CASE nested
  BY <1>1, <1>2 DEF NotEdited, Follow, UndoKnowsPast
<1>3. CASE ~nested
  <2>1. nested' = nested /\ past' = past
    BY <1>1, <1>3 DEF NotEdited, Follow
  <2>2. ~Typed' => ~Typed /\ start' = start
    BY <1>1, <1>3 DEF NotEdited, Follow, Began, Typed
  <2> QED
    BY <1>1, <2>1, <2>2 DEF UndoKnowsPast
<1> QED
  BY <1>2, <1>3

\* u that is typed exchanges past and present; one in a list loses track.
LEMMA UndoKeepsPast ==
    ASSUME UndoKnowsPast, UndoStep
    PROVE  UndoKnowsPast'
<1>0. und.set /\ Undone
  BY DEF UndoStep, Undo
<1>1. CASE mode' = "crashed"
  BY <1>1 DEF UndoKnowsPast
<1>2. CASE mode' # "crashed"
  <2>1. Done /\ buf' = und.buf /\ und'.buf = buf
    BY <1>2 DEF UndoStep, Undo
  <2>2. CASE nested \/ ~Typed
    BY <1>0, <2>2 DEF Undone, Follow, UndoKnowsPast
  <2>3. CASE ~nested /\ Typed
    <3>1. und.buf = past /\ Typed'
      BY <1>0, <2>1, <2>3, CommandIsReady DEF UndoKnowsPast
    <3>2. past' = IF buf' # buf THEN buf ELSE past
      BY <1>0, <2>3 DEF Undone, Follow, Began
    <3> QED
      BY <2>1, <3>1, <3>2 DEF UndoKnowsPast
  <2> QED
    BY <2>2, <2>3
<1> QED
  BY <1>1, <1>2

\* After init() there is nothing to undo.
LEMMA AnewHasNoPast ==
    ASSUME AnewStep
    PROVE  UndoKnowsPast'
<1>1. und' = NoUndo
  BY DEF AnewStep, Beginning, Edit, Quit, Depart, Leave, Init0
<1> QED
  BY <1>1 DEF NoUndo, UndoKnowsPast

\* Every step keeps what undo knows of the past.
LEMMA StepKeepsPast ==
    ASSUME UndoKnowsPast, [EdNext]_vars
    PROVE  UndoKnowsPast'
<1>1. CASE UNCHANGED vars
  BY <1>1 DEF vars, seen, UndoKnowsPast, Typed
<1> QED
  BY <1>1, KindsOfStep, EditsKeepPast, LooksKeepPast, UndoKeepsPast, AnewHasNoPast

LEMMA PastKnown == EdSpec => []UndoKnowsPast
<1>1. EdInit => UndoKnowsPast
  BY DEF EdInit, NoUndo, UndoKnowsPast
<1> QED
  BY <1>1, StepKeepsPast, PTL DEF EdSpec

\* u that is typed brings back the buffer of before the last command that edited
\* it, a global command being one, and u once more takes that back.
THEOREM EdUndoRestores == EdSpec => UndoRestores
<1>1. UndoKnowsPast => [Undo /\ Typed /\ mode' # "crashed" /\ ~nested => buf' = past]_vars
  BY DEF UndoKnowsPast, Undo, Typed
<1> QED
  BY <1>1, PastKnown, PTL DEF EdSpec, UndoRestores

-----------------------------------------------------------------------------
(* The lines of a buffer and their names *)

\* Up to t the lines were lines up to t before they were edited; the others have
\* not been made.
OriginOK(o, t) ==
    /\ o \in [Line -> Line]
    /\ \A l \in Line : IF l <= t THEN o[l] <= t ELSE o[l] = l

\* A buffer b with the marks m and the names nm, of t lines in the temporary file:
\* no line is there twice, nor are two that were one, and the names stand for the
\* lines that they were given to, when there are any at all.
Kept(b, m, nm, mt, t, o, a) ==
    /\ b \in Seq(1..t) /\ IsInjective(b) /\ m \subseteq ToSet(b)
    /\ nm \in [Name -> 0..t] /\ mt \in [Name -> 0..t]
    /\ \A k, l \in ToSet(b) : o[k] = o[l] => k = l
    /\ \A n \in Name, l \in ToSet(b) : nm[n] = l <=> mt[n] # 0 /\ mt[n] = o[l]
    /\ a = FALSE => \A n \in Name : nm[n] = 0 /\ mt[n] = 0

\* The same buffer with more lines in the file.
LEMMA KeptStays ==
    ASSUME NEW t \in Nat, NEW t2 \in Nat, t <= t2, NEW o, NEW o2, NEW a, NEW a2,
           \A l \in 1..t : o2[l] = o[l], a2 = FALSE => a = FALSE,
           NEW b, NEW m, NEW nm, NEW mt, Kept(b, m, nm, mt, t, o, a)
    PROVE  Kept(b, m, nm, mt, t2, o2, a2)
<1>1. b \in Seq(1..t) /\ IsInjective(b) /\ m \subseteq ToSet(b)
  BY DEF Kept
<1>2. \A l \in ToSet(b) : l \in 1..t /\ o2[l] = o[l]
  <2>1. ToSet(b) \subseteq 1..t
    BY <1>1, ElementsOf
  <2> QED
    BY <2>1
<1>3. b \in Seq(1..t2)
  <2>1. ToSet(b) \subseteq 1..t2
    BY <1>2
  <2> QED
    BY <1>1, <2>1, SeqOfElements
<1>4. nm \in [Name -> 0..t2] /\ mt \in [Name -> 0..t2]
  <2>1. 0..t \subseteq 0..t2
    OBVIOUS
  <2>2. nm \in [Name -> 0..t] /\ mt \in [Name -> 0..t]
    BY DEF Kept
  <2> QED
    BY <2>1, <2>2
<1>5. \A k, l \in ToSet(b) : o2[k] = o2[l] => k = l
  BY <1>2 DEF Kept
<1>6. \A n \in Name, l \in ToSet(b) : nm[n] = l <=> mt[n] # 0 /\ mt[n] = o2[l]
  BY <1>2 DEF Kept
<1>7. a2 = FALSE => \A n \in Name : nm[n] = 0 /\ mt[n] = 0
  BY DEF Kept
<1> QED
  BY <1>1, <1>3, <1>4, <1>5, <1>6, <1>7 DEF Kept

\* Lines that are gone and lines that are new, to which no name has been given.
LEMMA KeptMore ==
    ASSUME NEW t \in Nat, NEW t2 \in Nat, t <= t2, t2 <= MaxLine, NEW o, OriginOK(o, t),
           NEW a, NEW b, NEW m, NEW nm, NEW mt, Kept(b, m, nm, mt, t, o, a),
           NEW b2 \in Seq(1..t2), IsInjective(b2),
           ToSet(b2) \subseteq ToSet(b) \cup (t + 1..t2),
           NEW m2, m2 \subseteq ToSet(b2)
    PROVE  Kept(b2, m2, nm, mt, t2, o, a)
<1>1. \A l \in ToSet(b) : l \in 1..t
  <2>1. ToSet(b) \subseteq 1..t
    BY ElementsOf DEF Kept
  <2> QED
    BY <2>1
<1>2. MaxLine \in Nat
  BY EdAssumption
<1>3. /\ \A l \in 1..t : o[l] \in 1..t
      /\ \A l \in t + 1..t2 : o[l] = l
  <2>1. \A l \in 1..t2 : l \in Line /\ l \in Int
    BY <1>2 DEF Line
  <2>2. \A l \in Line : o[l] \in Int /\ 1 <= o[l]
    BY DEF OriginOK, Line
  <2>3. \A l \in 1..t : l \in Line /\ l <= t
    BY <2>1
  <2>4. \A l \in t + 1..t2 : l \in Line /\ ~(l <= t)
    BY <2>1
  <2>5. \A l \in 1..t : o[l] \in Int /\ 1 <= o[l] /\ o[l] <= t
    BY <2>2, <2>3 DEF OriginOK
  <2>6. \A l \in t + 1..t2 : o[l] = l
    BY <2>4 DEF OriginOK
  <2> QED
    BY <2>5, <2>6
<1>4. nm \in [Name -> 0..t] /\ mt \in [Name -> 0..t]
  BY DEF Kept
<1>5. nm \in [Name -> 0..t2] /\ mt \in [Name -> 0..t2]
  <2>1. 0..t \subseteq 0..t2
    OBVIOUS
  <2> QED
    BY <1>4, <2>1
<1>6. \A l \in ToSet(b2) : l \in ToSet(b) \/ l \in t + 1..t2
  OBVIOUS
<1>7. ASSUME NEW k \in ToSet(b2), NEW l \in ToSet(b2), o[k] = o[l] PROVE k = l
  <2>1. CASE k \in ToSet(b) /\ l \in ToSet(b)
    BY <1>7, <2>1 DEF Kept
  <2>2. CASE k \in ToSet(b) /\ l \in t + 1..t2
    <3>1. o[k] \in 1..t /\ o[l] \in t + 1..t2
      BY <1>1, <1>3, <2>2
    <3> QED
      BY <1>7, <3>1
  <2>3. CASE k \in t + 1..t2 /\ l \in ToSet(b)
    <3>1. o[l] \in 1..t /\ o[k] \in t + 1..t2
      BY <1>1, <1>3, <2>3
    <3> QED
      BY <1>7, <3>1
  <2>4. CASE k \in t + 1..t2 /\ l \in t + 1..t2
    BY <1>3, <1>7, <2>4
  <2> QED
    BY <1>6, <2>1, <2>2, <2>3, <2>4
<1>8. ASSUME NEW n \in Name, NEW l \in ToSet(b2)
      PROVE  nm[n] = l <=> mt[n] # 0 /\ mt[n] = o[l]
  <2>1. CASE l \in ToSet(b)
    BY <2>1 DEF Kept
  <2>2. CASE l \in t + 1..t2
    <3>1. nm[n] \in 0..t /\ mt[n] \in 0..t /\ o[l] = l
      BY <1>3, <1>4, <2>2
    <3>2. nm[n] # l /\ mt[n] # l
      BY <2>2, <3>1
    <3> QED
      BY <3>1, <3>2
  <2> QED
    BY <1>6, <2>1, <2>2
<1>9. a = FALSE => \A n \in Name : nm[n] = 0 /\ mt[n] = 0
  BY DEF Kept
<1> QED
  BY <1>5, <1>7, <1>8, <1>9 DEF Kept

\* A buffer without lines and names.
LEMMA KeptEmpty ==
    ASSUME NEW t \in Nat, NEW o, NEW a
    PROVE  Kept(<<>>, {}, [n \in Name |-> 0], [n \in Name |-> 0], t, o, a)
<1>1. PICK z : z = [n \in Name |-> 0]
  OBVIOUS
<1>2. z \in [Name -> 0..t] /\ \A n \in Name : z[n] = 0
  BY <1>1
<1>3. <<>> \in Seq(1..t) /\ ToSet(<<>>) = {} /\ IsInjective(<<>>)
  BY EmptySeq, NoLines
<1>4. Kept(<<>>, {}, z, z, t, o, a)
  BY <1>2, <1>3 DEF Kept
<1> QED
  BY <1>1, <1>4

\* k gives a name to a line and takes it from the line that had it.
LEMMA KeptNamed ==
    ASSUME NEW t \in Nat, t <= MaxLine, NEW o, OriginOK(o, t),
           NEW a, NEW b, NEW m, NEW nm, NEW mt, Kept(b, m, nm, mt, t, o, a),
           NEW i \in 1..Len(b), NEW n \in Name
    PROVE  Kept(b, m, [nm EXCEPT ![n] = b[i]], [mt EXCEPT ![n] = o[b[i]]], t, o, TRUE)
<1>1. PICK x \in 1..t : x = b[i] /\ x \in ToSet(b)
  <2>1. b \in Seq(1..t)
    BY DEF Kept
  <2>2. b[i] \in 1..t
    BY <2>1, ElementOfSeq
  <2>3. b[i] \in ToSet(b)
    BY <2>1, ElementsOf
  <2> QED
    BY <2>2, <2>3
<1>2. PICK y \in 1..t : y = o[x]
  <2>1. x \in Line /\ x <= t
    BY <1>1, EdAssumption DEF Line
  <2>2. o[x] \in Line /\ o[x] <= t
    BY <2>1 DEF OriginOK
  <2>3. o[x] \in 1..t
    BY <2>2 DEF Line
  <2> QED
    BY <2>3
<1>3. nm \in [Name -> 0..t] /\ mt \in [Name -> 0..t]
  BY DEF Kept
<1>4. PICK nm2 \in [Name -> 0..t] : nm2 = [nm EXCEPT ![n] = x]
  <2>1. \A f, v : f \in [Name -> 0..t] /\ v \in 0..t => [f EXCEPT ![n] = v] \in [Name -> 0..t]
    OBVIOUS
  <2>2. x \in 0..t
    BY <1>1
  <2> QED
    BY <1>3, <2>1, <2>2
<1>5. PICK mt2 \in [Name -> 0..t] : mt2 = [mt EXCEPT ![n] = y]
  <2>1. \A f, v : f \in [Name -> 0..t] /\ v \in 0..t => [f EXCEPT ![n] = v] \in [Name -> 0..t]
    OBVIOUS
  <2>2. y \in 0..t
    BY <1>2
  <2> QED
    BY <1>3, <2>1, <2>2
<1>6. /\ nm2[n] = x /\ mt2[n] = y
      /\ \A c \in Name : c # n => nm2[c] = nm[c] /\ mt2[c] = mt[c]
  BY <1>3, <1>4, <1>5
<1>7. ASSUME NEW c \in Name, NEW l \in ToSet(b)
      PROVE  nm2[c] = l <=> mt2[c] # 0 /\ mt2[c] = o[l]
  <2>1. CASE c = n
    <3>1. o[x] = o[l] => x = l
      BY <1>1 DEF Kept
    <3>2. y # 0
      BY <1>2
    <3> QED
      BY <1>2, <1>6, <2>1, <3>1, <3>2
  <2>2. CASE c # n
    <3>1. nm[c] = l <=> mt[c] # 0 /\ mt[c] = o[l]
      BY DEF Kept
    <3> QED
      BY <1>6, <2>2, <3>1
  <2> QED
    BY <2>1, <2>2
<1>8. Kept(b, m, nm2, mt2, t, o, TRUE)
  BY <1>4, <1>5, <1>7 DEF Kept
<1> QED
  BY <1>1, <1>2, <1>4, <1>5, <1>8

\* What the lines of S are made of comes from where those came from.
OriginMoved(o2, o, b, S, put) ==
    /\ o2 \in [Line -> Line]
    /\ \A i \in S : o2[put[i]] = o[b[i]]
    /\ \A l \in Line : (\A i \in S : put[i] # l) => o2[l] = o[l]

\* The names of the lines of S go with them.
NamesMoved(nm2, nm, b, S, put, a) ==
    /\ nm2 = [n \in Name |-> nm2[n]]
    /\ \A n \in Name :
        \/ \E i \in S : nm[n] = b[i] /\ nm2[n] = put[i]
        \/ nm2[n] = nm[n] /\ (a = FALSE \/ \A i \in S : nm[n] # b[i])

\* The lines up to t come from where they came from.
SameOrigin(o2, o, t) == \A l \in 1..t : o2[l] = o[l]

\* A substitution makes lines of lines that there were.
LEMMA OriginKept ==
    ASSUME NEW t \in Nat, NEW t2 \in Nat, t <= t2, t2 <= MaxLine, NEW o, OriginOK(o, t),
           NEW b \in Seq(1..t), NEW S \in SUBSET (1..Len(b)), NEW Split,
           NEW put, PutsFit(put, S, Split, t, t2), NEW o2, OriginMoved(o2, o, b, S, put)
    PROVE  OriginOK(o2, t2) /\ SameOrigin(o2, o, t)
<1>1. MaxLine \in Nat
  BY EdAssumption
<1>2. \A i \in S : b[i] \in 1..t
  <2>1. \A i \in 1..Len(b) : b[i] \in 1..t
    BY ElementOfSeq
  <2> QED
    BY <2>1
<1>3. \A i \in S : put[i] \in t + 1..t2
  BY DEF PutsFit
<1>4. /\ \A l \in 1..t : l \in Line /\ o[l] \in 1..t
      /\ \A l \in t + 1..t2 : l \in Line /\ o[l] = l
  <2>1. ASSUME NEW l \in 1..t PROVE l \in Line /\ o[l] \in 1..t
    <3>1. l \in Line /\ l <= t
      BY <1>1 DEF Line
    <3>2. o[l] \in Line /\ o[l] <= t
      BY <3>1 DEF OriginOK
    <3> QED
      BY <3>1, <3>2 DEF Line
  <2>2. ASSUME NEW l \in t + 1..t2 PROVE l \in Line /\ o[l] = l
    <3>1. l \in Line /\ ~(l <= t)
      BY <1>1 DEF Line
    <3> QED
      BY <3>1 DEF OriginOK
  <2> QED
    BY <2>1, <2>2
<1>5. \A l \in 1..t : o2[l] = o[l]
  <2> SUFFICES ASSUME NEW l \in 1..t PROVE o2[l] = o[l]
    OBVIOUS
  <2>1. \A i \in S : put[i] # l
    BY <1>3
  <2>2. l \in Line
    BY <1>4
  <2> QED
    BY <2>1, <2>2 DEF OriginMoved
<1>6. OriginOK(o2, t2)
  <2>1. o2 \in [Line -> Line]
    BY DEF OriginMoved
  <2>2. ASSUME NEW l \in Line PROVE IF l <= t2 THEN o2[l] <= t2 ELSE o2[l] = l
    <3>1. l \in Int /\ 1 <= l /\ o[l] \in Int /\ o2[l] \in Int
      <4>1. o[l] \in Line /\ o2[l] \in Line /\ l \in Line
        BY <2>1 DEF OriginOK
      <4> QED
        BY <4>1 DEF Line
    <3>2. CASE \E i \in S : put[i] = l
      <4>1. PICK i \in S : put[i] = l
        BY <3>2
      <4>2. o2[l] = o[b[i]] /\ b[i] \in 1..t /\ l \in t + 1..t2
        BY <1>2, <1>3, <4>1 DEF OriginMoved
      <4>3. o[b[i]] \in 1..t
        BY <1>4, <4>2
      <4> QED
        BY <4>2, <4>3
    <3>3. CASE \A i \in S : put[i] # l
      <4>1. o2[l] = o[l]
        BY <3>3 DEF OriginMoved
      <4>2. IF l <= t THEN o[l] <= t ELSE o[l] = l
        BY DEF OriginOK
      <4> QED
        BY <3>1, <4>1, <4>2
    <3> QED
      BY <3>2, <3>3
  <2> QED
    BY <2>1, <2>2 DEF OriginOK
<1> QED
  BY <1>5, <1>6 DEF SameOrigin

\* A substitution takes the names along.
LEMMA KeptSubst ==
    ASSUME NEW t \in Nat, NEW t2 \in Nat, t <= t2, t2 <= MaxLine, NEW o, OriginOK(o, t),
           NEW a, NEW b, NEW m, NEW nm, NEW mt, Kept(b, m, nm, mt, t, o, a),
           NEW S \in SUBSET (1..Len(b)), NEW Split \in SUBSET S,
           NEW put, PutsFit(put, S, Split, t, t2),
           NEW o2, OriginMoved(o2, o, b, S, put),
           NEW nm2, NamesMoved(nm2, nm, b, S, put, a),
           NEW b2 \in Seq(1..t2), IsInjective(b2), SubstSources(b2, b, S, Split, put),
           NEW m2, m2 \subseteq ToSet(b2)
    PROVE  Kept(b2, m2, nm2, mt, t2, o2, a)
<1>1. MaxLine \in Nat
  BY EdAssumption
<1>2. b \in Seq(1..t) /\ IsInjective(b)
  BY DEF Kept
<1>3. /\ \A i \in 1..Len(b) : b[i] \in 1..t /\ b[i] \in ToSet(b)
      /\ \A i, j \in 1..Len(b) : b[i] = b[j] => i = j
  BY <1>2, ElementOfSeq, ElementsOf
<1>4. \A i \in S : i \in 1..Len(b)
  OBVIOUS
<1>5. /\ \A i \in S : put[i] \in t + 1..t2
      /\ \A i \in Split : i \in S /\ put[i] + 1 \in t + 1..t2
      /\ \A i, j \in S : i < j => put[i] < put[j] /\ (i \in Split => put[i] + 1 < put[j])
  <2>1. \A i \in S : put[i] \in t + 1..t2
    BY DEF PutsFit
  <2>2. ASSUME NEW i \in Split PROVE i \in S /\ put[i] + 1 \in t + 1..t2
    <3>1. put[i] \in t + 1..t2 /\ put[i] + 1 <= t2
      BY <2>1 DEF PutsFit
    <3> QED
      BY <3>1
  <2> QED
    BY <2>1, <2>2 DEF PutsFit
<1>6. /\ \A i, j \in S : put[i] = put[j] => i = j
      /\ \A i \in Split : \A j \in S : put[i] + 1 # put[j]
      /\ \A i, j \in Split : put[i] + 1 = put[j] + 1 => i = j
  <2>1. ASSUME NEW i \in S, NEW j \in S, put[i] = put[j] PROVE i = j
    <3>1. put[i] \in Int /\ i \in Int /\ j \in Int
      BY <1>4, <1>5
    <3>2. ~(i < j) /\ ~(j < i)
      BY <1>5, <2>1, <3>1
    <3> QED
      BY <3>1, <3>2
  <2>2. ASSUME NEW i \in Split, NEW j \in S PROVE put[i] + 1 # put[j]
    <3>1. put[i] \in Int /\ put[j] \in Int /\ i \in S /\ i \in Int /\ j \in Int
      BY <1>4, <1>5
    <3>2. CASE i < j
      BY <1>5, <3>1, <3>2
    <3>3. CASE j < i
      <4>1. put[j] < put[i]
        BY <1>5, <3>1, <3>3
      <4> QED
        BY <3>1, <4>1
    <3>4. CASE i = j
      BY <3>1, <3>4
    <3> QED
      BY <3>1, <3>2, <3>3, <3>4
  <2>3. ASSUME NEW i \in Split, NEW j \in Split, put[i] + 1 = put[j] + 1 PROVE i = j
    <3>1. put[i] \in Int /\ put[j] \in Int /\ i \in S /\ j \in S
      BY <1>5
    <3>2. put[i] = put[j]
      BY <2>3, <3>1
    <3> QED
      BY <2>1, <3>1, <3>2
  <2> QED
    BY <2>1, <2>2, <2>3
<1>7. /\ \A l \in 1..t : l \in Line /\ o[l] \in 1..t
      /\ \A l \in t + 1..t2 : l \in Line /\ o[l] = l
  <2>1. ASSUME NEW l \in 1..t PROVE l \in Line /\ o[l] \in 1..t
    <3>1. l \in Line /\ l <= t
      BY <1>1 DEF Line
    <3>2. o[l] \in Line /\ o[l] <= t
      BY <3>1 DEF OriginOK
    <3> QED
      BY <3>1, <3>2 DEF Line
  <2>2. ASSUME NEW l \in t + 1..t2 PROVE l \in Line /\ o[l] = l
    <3>1. l \in Line /\ ~(l <= t)
      BY <1>1 DEF Line
    <3> QED
      BY <3>1 DEF OriginOK
  <2> QED
    BY <2>1, <2>2
<1>8. \A l \in 1..t : o2[l] = o[l]
  <2>1. SameOrigin(o2, o, t)
    BY <1>2, OriginKept
  <2> QED
    BY <2>1 DEF SameOrigin
<1>9. \A i \in S : o2[put[i]] = o[b[i]]
  BY DEF OriginMoved
<1>10. \A i \in Split : o2[put[i] + 1] = put[i] + 1
  <2> SUFFICES ASSUME NEW i \in Split PROVE o2[put[i] + 1] = put[i] + 1
    OBVIOUS
  <2>1. put[i] + 1 \in Line /\ o[put[i] + 1] = put[i] + 1
    BY <1>5, <1>7
  <2>2. \A j \in S : put[j] # put[i] + 1
    BY <1>6
  <2> QED
    BY <2>1, <2>2 DEF OriginMoved
<1>12. /\ nm \in [Name -> 0..t] /\ mt \in [Name -> 0..t]
       /\ \A n \in Name : a = FALSE => nm[n] = 0 /\ mt[n] = 0
       /\ \A k, l \in ToSet(b) : o[k] = o[l] => k = l
       /\ \A n \in Name, l \in ToSet(b) : nm[n] = l <=> mt[n] # 0 /\ mt[n] = o[l]
  BY DEF Kept
<1>13. \A n \in Name, i \in 1..Len(b) : nm[n] = b[i] <=> mt[n] # 0 /\ mt[n] = o[b[i]]
  BY <1>3, <1>12
<1>14. \A n \in Name : nm[n] \in 0..t /\ mt[n] \in 0..t
  BY <1>12
<1>15. ASSUME NEW n \in Name
       PROVE  \/ \E i \in S : nm[n] = b[i] /\ nm2[n] = put[i]
              \/ nm2[n] = nm[n] /\ \A i \in S : nm[n] # b[i]
  <2>1. CASE a = FALSE
    <3>1. nm[n] = 0 /\ \A i \in S : b[i] \in 1..t
      BY <1>3, <1>4, <1>12, <2>1
    <3>2. \A i \in S : nm[n] # b[i]
      BY <3>1
    <3> QED
      BY <3>2 DEF NamesMoved
  <2>2. CASE a # FALSE
    BY <2>2 DEF NamesMoved
  <2> QED
    BY <2>1, <2>2
<1>16. nm2 \in [Name -> 0..t2]
  <2>1. ASSUME NEW n \in Name PROVE nm2[n] \in 0..t2
    <3>1. CASE \E i \in S : nm2[n] = put[i]
      <4>1. PICK i \in S : nm2[n] = put[i]
        BY <3>1
      <4>2. put[i] \in t + 1..t2
        BY <1>5
      <4> QED
        BY <4>1, <4>2
    <3>2. CASE nm2[n] = nm[n]
      <4>1. nm[n] \in 0..t
        BY <1>14
      <4> QED
        BY <3>2, <4>1
    <3> QED
      BY <1>15, <3>1, <3>2
  <2> QED
    BY <2>1 DEF NamesMoved
<1>17. mt \in [Name -> 0..t2]
  <2>1. 0..t \subseteq 0..t2
    OBVIOUS
  <2> QED
    BY <1>12, <2>1
<1>18. \A l \in ToSet(b2) :
         \/ \E i \in 1..Len(b) : i \notin S /\ l = b[i]
         \/ \E i \in S : l = put[i]
         \/ \E i \in Split : l = put[i] + 1
  BY DEF SubstSources
\* The lines that stay, the lines that are made of others, and the second halves.
<1>19. ASSUME NEW i \in 1..Len(b), i \notin S, NEW n \in Name
       PROVE  nm2[n] = b[i] <=> mt[n] # 0 /\ mt[n] = o2[b[i]]
  <2>1. o2[b[i]] = o[b[i]] /\ b[i] \in 1..t
    BY <1>3, <1>8
  <2>2. nm2[n] = b[i] <=> nm[n] = b[i]
    <3>1. CASE \E j \in S : nm[n] = b[j] /\ nm2[n] = put[j]
      <4>1. PICK j \in S : nm[n] = b[j] /\ nm2[n] = put[j]
        BY <3>1
      <4>2. b[j] # b[i] /\ put[j] \in t + 1..t2
        BY <1>3, <1>4, <1>5, <1>19
      <4>3. put[j] # b[i]
        BY <2>1, <4>2
      <4> QED
        BY <4>1, <4>2, <4>3
    <3> QED
      BY <1>15, <3>1
  <2> QED
    BY <1>13, <2>1, <2>2
<1>20. ASSUME NEW i \in S, NEW n \in Name
       PROVE  nm2[n] = put[i] <=> mt[n] # 0 /\ mt[n] = o2[put[i]]
  <2>1. nm2[n] = put[i] <=> nm[n] = b[i]
    <3>1. CASE \E j \in S : nm[n] = b[j] /\ nm2[n] = put[j]
      <4>1. PICK j \in S : nm[n] = b[j] /\ nm2[n] = put[j]
        BY <3>1
      <4>2. /\ b[j] = b[i] => j = i
            /\ put[j] = put[i] => j = i
        BY <1>3, <1>4, <1>6
      <4> QED
        BY <4>1, <4>2
    <3>2. CASE nm2[n] = nm[n] /\ \A j \in S : nm[n] # b[j]
      <4>1. nm[n] \in 0..t /\ put[i] \in t + 1..t2
        BY <1>5, <1>14
      <4>2. nm[n] # put[i]
        BY <4>1
      <4> QED
        BY <3>2, <4>2
    <3> QED
      BY <1>15, <3>1, <3>2
  <2> QED
    BY <1>4, <1>9, <1>13, <2>1
<1>21. ASSUME NEW i \in Split, NEW n \in Name
       PROVE  nm2[n] # put[i] + 1 /\ mt[n] # o2[put[i] + 1]
  <2>1. put[i] + 1 \in t + 1..t2 /\ o2[put[i] + 1] = put[i] + 1
    BY <1>5, <1>10
  <2>2. mt[n] # put[i] + 1 /\ nm[n] # put[i] + 1
    <3>1. mt[n] \in 0..t /\ nm[n] \in 0..t
      BY <1>14
    <3> QED
      BY <2>1, <3>1
  <2>3. nm2[n] # put[i] + 1
    BY <1>6, <1>15, <2>2
  <2> QED
    BY <2>1, <2>2, <2>3
<1>22. \A n \in Name, l \in ToSet(b2) : nm2[n] = l <=> mt[n] # 0 /\ mt[n] = o2[l]
  BY <1>18, <1>19, <1>20, <1>21
<1>23. \A l \in ToSet(b2) :
         \/ \E i \in 1..Len(b) : /\ o2[l] = o[b[i]] /\ o2[l] \in 1..t
                                  /\ l = IF i \in S THEN put[i] ELSE b[i]
         \/ o2[l] = l /\ l \in t + 1..t2
  <2> SUFFICES ASSUME NEW l \in ToSet(b2)
               PROVE  \/ \E i \in 1..Len(b) : /\ o2[l] = o[b[i]] /\ o2[l] \in 1..t
                                              /\ l = IF i \in S THEN put[i] ELSE b[i]
                      \/ o2[l] = l /\ l \in t + 1..t2
    OBVIOUS
  <2>1. ASSUME NEW i \in 1..Len(b), i \notin S, l = b[i]
        PROVE  o2[l] = o[b[i]] /\ o2[l] \in 1..t
    BY <1>3, <1>7, <1>8, <2>1
  <2>2. ASSUME NEW i \in S, l = put[i]
        PROVE  i \in 1..Len(b) /\ o2[l] = o[b[i]] /\ o2[l] \in 1..t
    BY <1>3, <1>4, <1>7, <1>9, <2>2
  <2>3. ASSUME NEW i \in Split, l = put[i] + 1
        PROVE  o2[l] = l /\ l \in t + 1..t2
    BY <1>5, <1>10, <2>3
  <2> QED
    BY <1>18, <2>1, <2>2, <2>3
<1>24. \A k, l \in ToSet(b2) : o2[k] = o2[l] => k = l
  <2> SUFFICES ASSUME NEW k \in ToSet(b2), NEW l \in ToSet(b2), o2[k] = o2[l]
               PROVE  k = l
    OBVIOUS
  <2>1. CASE \E i \in 1..Len(b), j \in 1..Len(b) :
               /\ o2[k] = o[b[i]] /\ k = (IF i \in S THEN put[i] ELSE b[i])
               /\ o2[l] = o[b[j]] /\ l = (IF j \in S THEN put[j] ELSE b[j])
    <3>1. PICK i \in 1..Len(b), j \in 1..Len(b) :
               /\ o2[k] = o[b[i]] /\ k = (IF i \in S THEN put[i] ELSE b[i])
               /\ o2[l] = o[b[j]] /\ l = (IF j \in S THEN put[j] ELSE b[j])
      BY <2>1
    <3>2. o[b[i]] = o[b[j]]
      BY <3>1
    <3>3. b[i] = b[j]
      BY <1>3, <1>12, <3>2
    <3>4. i = j
      BY <1>3, <3>3
    <3> QED
      BY <3>1, <3>4
  <2>2. CASE o2[k] = k /\ o2[l] = l
    BY <2>2
  <2>3. CASE o2[k] \in 1..t /\ o2[l] \in t + 1..t2
    BY <2>3
  <2>4. CASE o2[k] \in t + 1..t2 /\ o2[l] \in 1..t
    BY <2>4
  <2>5. /\ \/ \E i \in 1..Len(b) : /\ o2[k] = o[b[i]] /\ o2[k] \in 1..t
                                    /\ k = IF i \in S THEN put[i] ELSE b[i]
           \/ o2[k] = k /\ o2[k] \in t + 1..t2
        /\ \/ \E i \in 1..Len(b) : /\ o2[l] = o[b[i]] /\ o2[l] \in 1..t
                                    /\ l = IF i \in S THEN put[i] ELSE b[i]
           \/ o2[l] = l /\ o2[l] \in t + 1..t2
    BY <1>23
  <2> QED
    BY <2>1, <2>2, <2>3, <2>4, <2>5
<1>25. a = FALSE => \A n \in Name : nm2[n] = 0 /\ mt[n] = 0
  <2>1. ASSUME a = FALSE, NEW n \in Name PROVE nm2[n] = 0
    <3>1. nm[n] = 0 /\ \A i \in S : b[i] \in 1..t
      BY <1>3, <1>4, <1>12, <2>1
    <3>2. \A i \in S : nm[n] # b[i]
      BY <3>1
    <3> QED
      BY <1>15, <3>1, <3>2
  <2> QED
    BY <1>12, <2>1
<1>26. Kept(b2, m2, nm2, mt, t2, o2, a)
  BY <1>12, <1>16, <1>17, <1>22, <1>24, <1>25 DEF Kept
<1> QED
  BY <1>26

-----------------------------------------------------------------------------
(* The lines of the buffer and of undo *)

\* The buffer and what undo would make of it are kept as Kept says, of the lines
\* that the temporary file has.
LineInv ==
    /\ tline \in 0..MaxLine
    /\ OriginOK(origin, tline)
    /\ Kept(buf, bits, names, meant, tline, origin, anymarks)
    /\ Kept(und.buf, und.bits, und.names, und.meant, tline, origin, anymarks)

\* What undo knows stays as good as the buffer, while lines are made.
LEMMA UndKept ==
    ASSUME LineInv, Checkpoint \/ und' = und, tline' \in Nat, tline <= tline',
           \A l \in 1..tline : origin'[l] = origin[l], anymarks' = FALSE => anymarks = FALSE
    PROVE  Kept(und'.buf, und'.bits, und'.names, und'.meant, tline', origin', anymarks')
<1>1. tline \in Nat
  BY EdAssumption DEF LineInv
<1>2. PICK u : u = und'
  OBVIOUS
<1>3. Kept(u.buf, u.bits, u.names, u.meant, tline, origin, anymarks)
  <2>1. CASE u.buf = buf /\ u.bits = bits /\ u.names = names /\ u.meant = meant
    BY <2>1 DEF LineInv
  <2>2. CASE u = und
    BY <2>2 DEF LineInv
  <2> QED
    BY <1>2, <2>1, <2>2 DEF Checkpoint
<1>4. Kept(u.buf, u.bits, u.names, u.meant, tline', origin', anymarks')
  BY <1>1, <1>3, KeptStays
<1> QED
  BY <1>2, <1>4

\* A step that takes lines from the buffer, adds new ones or brings them into
\* another order keeps LineInv.
LEMMA BufKept ==
    ASSUME LineInv, Checkpoint \/ und' = und,
           tline' \in Nat, tline <= tline', tline' <= MaxLine,
           buf' \in Seq(1..tline'), IsInjective(buf'),
           ToSet(buf') \subseteq ToSet(buf) \cup (tline + 1..tline'),
           bits' \subseteq ToSet(buf'),
           UNCHANGED <<names, meant, origin, anymarks>>
    PROVE  LineInv'
<1>1. tline \in Nat
  BY EdAssumption DEF LineInv
<1>2. Kept(buf', bits', names, meant, tline', origin, anymarks)
  BY <1>1, KeptMore DEF LineInv
<1>3. Kept(und'.buf, und'.bits, und'.names, und'.meant, tline', origin', anymarks')
  BY UndKept
<1>4. OriginOK(origin, tline')
  <2>1. /\ origin \in [Line -> Line] /\ MaxLine \in Nat
        /\ \A l \in Line : IF l <= tline THEN origin[l] <= tline ELSE origin[l] = l
    BY EdAssumption DEF LineInv, OriginOK
  <2>2. ASSUME NEW l \in Line PROVE IF l <= tline' THEN origin[l] <= tline' ELSE origin[l] = l
    <3>1. l \in Int /\ origin[l] \in Int
      BY <2>1 DEF Line
    <3>2. IF l <= tline THEN origin[l] <= tline ELSE origin[l] = l
      BY <2>1
    <3> QED
      BY <1>1, <3>1, <3>2
  <2> QED
    BY <2>1, <2>2 DEF OriginOK
<1>5. tline' \in 0..MaxLine
  BY EdAssumption
<1> QED
  BY <1>2, <1>3, <1>4, <1>5 DEF LineInv

\* The buffer that LineInv speaks of.
LEMMA BufTyped ==
    ASSUME LineInv
    PROVE  /\ tline \in Nat /\ tline <= MaxLine
           /\ buf \in Seq(1..tline) /\ IsInjective(buf) /\ bits \subseteq ToSet(buf)
           /\ Len(buf) \in Nat
<1>1. tline \in Nat /\ tline <= MaxLine
  BY EdAssumption DEF LineInv
<1>2. buf \in Seq(1..tline) /\ IsInjective(buf) /\ bits \subseteq ToSet(buf)
  BY DEF LineInv, Kept
<1> QED
  BY <1>1, <1>2, LenProperties

\* The lines that putline() makes.
LEMMA NewLines ==
    ASSUME tline \in Nat, NEW n \in Nat
    PROVE  /\ New(n) \in Seq(1..tline + n) /\ Len(New(n)) = n
           /\ ToSet(New(n)) = tline + 1..tline + n /\ IsInjective(New(n))
<1>1. PICK t \in Nat : t = tline
  OBVIOUS
<1>2. PICK u : u = [k \in 1..n |-> t + k]
  OBVIOUS
<1>3. /\ [k \in 1..n |-> t + k] \in Seq(t + 1..t + n)
      /\ Len([k \in 1..n |-> t + k]) = n
      /\ ToSet([k \in 1..n |-> t + k]) = t + 1..t + n
      /\ IsInjective([k \in 1..n |-> t + k])
  BY RunLines
<1>4. /\ u \in Seq(t + 1..t + n) /\ Len(u) = n /\ IsInjective(u)
      /\ ToSet(u) = t + 1..t + n
  BY <1>2, <1>3
<1>5. u \in Seq(1..t + n)
  <2>1. ToSet(u) \subseteq 1..t + n
    BY <1>1, <1>4
  <2> QED
    BY <1>4, <2>1, SeqOfElements
<1>6. New(n) = u
  BY <1>1, <1>2 DEF New
<1> QED
  BY <1>1, <1>4, <1>5, <1>6

\* The lines of b are lines also when there are more.
LEMMA MoreLines ==
    ASSUME NEW t \in Nat, NEW n \in Nat, NEW b \in Seq(1..t)
    PROVE  b \in Seq(1..t + n) /\ ToSet(b) \subseteq 1..t
<1>1. ToSet(b) \subseteq 1..t
  BY ElementsOf
<1>2. ToSet(b) \subseteq 1..t + n
  BY <1>1
<1> QED
  BY <1>1, <1>2, SeqOfElements

\* New lines between those of b.
LEMMA SplicedLines ==
    ASSUME tline \in Nat, NEW b \in Seq(1..tline), IsInjective(b),
           NEW a \in 0..Len(b), NEW n \in Nat
    PROVE  /\ Splice(b, a, New(n)) \in Seq(1..tline + n)
           /\ IsInjective(Splice(b, a, New(n)))
           /\ ToSet(Splice(b, a, New(n))) = ToSet(b) \cup (tline + 1..tline + n)
<1>1. PICK t \in Nat : t = tline
  OBVIOUS
<1>2. PICK S : S = 1..t + n
  OBVIOUS
<1>3. PICK u : u = New(n)
  OBVIOUS
<1>4. u \in Seq(S) /\ ToSet(u) = t + 1..t + n /\ IsInjective(u)
  BY <1>1, <1>2, <1>3, NewLines
<1>5. b \in Seq(S) /\ ToSet(b) \subseteq 1..t
  <2>1. b \in Seq(1..t)
    BY <1>1
  <2> QED
    BY <1>1, <1>2, <2>1, MoreLines
<1>6. /\ Splice(b, a, u) \in Seq(S)
      /\ ToSet(Splice(b, a, u)) = ToSet(b) \cup ToSet(u)
      /\ (IsInjective(b) /\ IsInjective(u) /\ ToSet(b) \cap ToSet(u) = {})
           => IsInjective(Splice(b, a, u))
  <2>1. u \in Seq(S) /\ b \in Seq(S)
    BY <1>4, <1>5
  <2>2. Splice(b, a, u) \in Seq(S)
    BY <2>1, SpliceLines
  <2>3. ToSet(Splice(b, a, u)) = ToSet(b) \cup ToSet(u)
    BY <2>1, SpliceLines
  <2>4. (IsInjective(b) /\ IsInjective(u) /\ ToSet(b) \cap ToSet(u) = {})
           => IsInjective(Splice(b, a, u))
    BY <2>1, SpliceLines
  <2> QED
    BY <2>2, <2>3, <2>4
<1>7. ToSet(b) \cap ToSet(u) = {}
  BY <1>1, <1>4, <1>5
<1> QED
  BY <1>1, <1>2, <1>3, <1>4, <1>6, <1>7

\* What is left when lines are deleted.
LEMMA CutKept ==
    ASSUME NEW S, NEW s \in Seq(S), IsInjective(s), NEW i \in 1..Len(s), NEW j \in i..Len(s)
    PROVE  /\ Cut(s, i, j) \in Seq(S) /\ IsInjective(Cut(s, i, j))
           /\ ToSet(Cut(s, i, j)) \subseteq ToSet(s)
           /\ i - 1 \in 0..Len(Cut(s, i, j))
<1>1. PICK n \in Nat : n = Len(s)
  BY LenProperties
<1>2. PICK c : c = Cut(s, i, j)
  OBVIOUS
<1>3. c \in Seq(S) /\ Len(c) = Len(s) - (j - i + 1)
  <2>1. Cut(s, i, j) \in Seq(S)
    BY CutLines
  <2>2. Len(Cut(s, i, j)) = Len(s) - (j - i + 1)
    BY CutLines
  <2> QED
    BY <1>2, <2>1, <2>2
<1>4. \A x : x \in ToSet(c) <=> \E k \in 1..Len(s) : k \notin i..j /\ s[k] = x
  BY <1>2, CutLines
<1>5. IsInjective(c)
  BY <1>2, CutLines
<1>6. ToSet(c) \subseteq ToSet(s)
  BY <1>4, ElementsOf
<1>7. i - 1 \in 0..Len(c)
  <2>1. i \in 1..n /\ j \in i..n /\ Len(c) = n - (j - i + 1)
    BY <1>1, <1>3
  <2> QED
    BY <2>1
<1> QED
  BY <1>2, <1>3, <1>5, <1>6, <1>7

-----------------------------------------------------------------------------
(* Every command keeps LineInv *)

\* a, and i, which appends after the line before.
LEMMA AppendTextKeeps ==
    ASSUME LineInv, AppendText
    PROVE  LineInv'
<1>1. PICK a \in 0..Len(buf), n \in 1..MaxText :
        Put(n) /\ Checkpoint /\ buf' = Splice(buf, a, New(n))
  BY DEF AppendText
<1>2. n \in Nat
  BY EdAssumption
<1>3. UNCHANGED <<bits, names, meant, origin, anymarks>>
  BY DEF AppendText
<1>4. /\ tline \in Nat /\ buf \in Seq(1..tline) /\ IsInjective(buf)
      /\ bits \subseteq ToSet(buf)
  BY BufTyped
<1>5. tline' = tline + n /\ tline' <= MaxLine
  BY <1>1 DEF Put
<1>6. /\ buf' \in Seq(1..tline') /\ IsInjective(buf')
      /\ ToSet(buf') = ToSet(buf) \cup (tline + 1..tline')
  BY <1>1, <1>2, <1>4, <1>5, SplicedLines
<1>7. tline' \in Nat /\ tline <= tline'
  BY <1>2, <1>4, <1>5
<1> QED
  BY <1>1, <1>3, <1>4, <1>5, <1>6, <1>7, BufKept

\* d.
LEMMA DeleteKeeps ==
    ASSUME LineInv, Delete
    PROVE  LineInv'
<1>1. PICK i \in 1..Len(buf) : \E j \in i..Len(buf) : buf' = Cut(buf, i, j)
  BY DEF Delete
<1>2. PICK j \in i..Len(buf) : buf' = Cut(buf, i, j)
  BY <1>1
<1>3. /\ Checkpoint /\ bits' \subseteq ToSet(buf')
      /\ UNCHANGED <<tline, names, meant, origin, anymarks>>
  BY DEF Delete, Marked
<1>4. tline \in Nat /\ tline <= MaxLine /\ buf \in Seq(1..tline) /\ IsInjective(buf)
  BY BufTyped
<1>5. /\ buf' \in Seq(1..tline) /\ IsInjective(buf') /\ ToSet(buf') \subseteq ToSet(buf)
  BY <1>2, <1>4, CutKept
<1>6. /\ tline' \in Nat /\ tline <= tline' /\ tline' <= MaxLine
      /\ buf' \in Seq(1..tline')
      /\ ToSet(buf') \subseteq ToSet(buf) \cup (tline + 1..tline')
  BY <1>3, <1>4, <1>5
<1> QED
  BY <1>3, <1>5, <1>6, BufKept

\* c and j: new lines in the place of others.
LEMMA ReplacedKeeps ==
    ASSUME LineInv, Checkpoint, NEW i \in 1..Len(buf), NEW j \in i..Len(buf), NEW n \in Nat,
           tline' = tline + n, tline' <= MaxLine,
           buf' = Splice(Cut(buf, i, j), i - 1, New(n)), bits' \subseteq ToSet(buf'),
           UNCHANGED <<names, meant, origin, anymarks>>
    PROVE  LineInv'
<1>1. tline \in Nat /\ buf \in Seq(1..tline) /\ IsInjective(buf)
  BY BufTyped
<1>2. PICK c \in Seq(1..tline) :
        /\ c = Cut(buf, i, j) /\ i - 1 \in 0..Len(c)
        /\ IsInjective(c) /\ ToSet(c) \subseteq ToSet(buf)
  <2>1. /\ Cut(buf, i, j) \in Seq(1..tline) /\ IsInjective(Cut(buf, i, j))
        /\ ToSet(Cut(buf, i, j)) \subseteq ToSet(buf)
        /\ i - 1 \in 0..Len(Cut(buf, i, j))
    BY <1>1, CutKept
  <2> QED
    BY <2>1
<1>3. PICK a \in 0..Len(c) : a = i - 1
  BY <1>2
<1>4. /\ Splice(c, a, New(n)) \in Seq(1..tline + n)
      /\ IsInjective(Splice(c, a, New(n)))
      /\ ToSet(Splice(c, a, New(n))) = ToSet(c) \cup (tline + 1..tline + n)
  BY <1>1, <1>2, <1>3, SplicedLines
<1>5. /\ tline' \in Nat /\ tline <= tline' /\ tline' <= MaxLine
      /\ buf' \in Seq(1..tline') /\ IsInjective(buf')
      /\ ToSet(buf') \subseteq ToSet(buf) \cup (tline + 1..tline')
  BY <1>1, <1>2, <1>3, <1>4
<1> QED
  BY <1>5, BufKept

\* c.
LEMMA ChangeKeeps ==
    ASSUME LineInv, Change
    PROVE  LineInv'
<1>1. PICK i \in 1..Len(buf), n \in 1..MaxText : \E j \in i..Len(buf) :
        /\ tline + n <= MaxLine /\ tline' = tline + n /\ Checkpoint
        /\ buf' = Splice(Cut(buf, i, j), i - 1, New(n))
  BY DEF Change
<1>2. PICK j \in i..Len(buf) :
        /\ tline + n <= MaxLine /\ tline' = tline + n /\ Checkpoint
        /\ buf' = Splice(Cut(buf, i, j), i - 1, New(n))
  BY <1>1
<1>3. bits' \subseteq ToSet(buf') /\ UNCHANGED <<names, meant, origin, anymarks>>
  BY DEF Change, Marked
<1>4. n \in Nat
  BY EdAssumption
<1> QED
  BY <1>2, <1>3, <1>4, ReplacedKeeps

\* j.
LEMMA JoinKeeps ==
    ASSUME LineInv, Join
    PROVE  LineInv'
<1>1. PICK i \in 1..Len(buf) : \E j \in i + 1..Len(buf) :
        Put(1) /\ buf' = Splice(Cut(buf, i, j), i - 1, New(1))
  BY DEF Join
<1>2. PICK j \in i..Len(buf) : Put(1) /\ buf' = Splice(Cut(buf, i, j), i - 1, New(1))
  <2>1. \A j \in i + 1..Len(buf) : j \in i..Len(buf)
    BY BufTyped
  <2> QED
    BY <1>1, <2>1
<1>3. /\ Checkpoint /\ bits' \subseteq ToSet(buf')
      /\ UNCHANGED <<names, meant, origin, anymarks>>
  BY DEF Join, Marked
<1>4. 1 \in Nat /\ tline' = tline + 1 /\ tline' <= MaxLine
  BY <1>2 DEF Put
<1> QED
  BY <1>2, <1>3, <1>4, ReplacedKeeps

\* m: the same lines in another order.
LEMMA MoveKeeps ==
    ASSUME LineInv, Move
    PROVE  LineInv'
<1>1. PICK i \in 1..Len(buf) : \E j \in i..Len(buf), adt \in 0..Len(buf) :
        /\ adt < i \/ adt > j
        /\ bits' = bits \ {buf[k] : k \in i..j}
        /\ buf' = Rotated(buf, adt, i, j + 1)
  BY DEF Move
<1>2. PICK j \in i..Len(buf), adt \in 0..Len(buf) :
        /\ adt < i \/ adt > j
        /\ bits' = bits \ {buf[k] : k \in i..j}
        /\ buf' = Rotated(buf, adt, i, j + 1)
  BY <1>1
<1>3. Checkpoint /\ UNCHANGED <<tline, names, meant, origin, anymarks>>
  BY DEF Move
<1>4. /\ tline \in Nat /\ tline <= MaxLine /\ buf \in Seq(1..tline) /\ IsInjective(buf)
      /\ bits \subseteq ToSet(buf)
  BY BufTyped
<1>5. buf' \in Seq(1..tline) /\ ToSet(buf') = ToSet(buf) /\ IsInjective(buf')
  BY <1>2, <1>4, RotatedMembers
<1>6. bits' \subseteq ToSet(buf')
  BY <1>2, <1>4, <1>5
<1>7. /\ tline' \in Nat /\ tline <= tline' /\ tline' <= MaxLine
      /\ buf' \in Seq(1..tline')
      /\ ToSet(buf') \subseteq ToSet(buf) \cup (tline + 1..tline')
  BY <1>3, <1>4, <1>5
<1> QED
  BY <1>3, <1>5, <1>6, <1>7, BufKept

\* t: as many new lines as are copied.
LEMMA CopyKeeps ==
    ASSUME LineInv, Copy
    PROVE  LineInv'
<1>1. /\ tline \in Nat /\ tline <= MaxLine /\ buf \in Seq(1..tline) /\ IsInjective(buf)
      /\ bits \subseteq ToSet(buf)
  BY BufTyped
<1>2. PICK e \in Nat : e = Len(buf)
  BY BufTyped
<1>3. PICK n \in Nat \ {0}, adt \in 0..e :
        Put(n) /\ Checkpoint /\ buf' = Rotated(buf \o New(n), adt, e + 1, e + n + 1)
  <2>1. PICK i \in 1..Len(buf) : \E j \in i..Len(buf), adt \in 0..Len(buf) :
          /\ Put(j - i + 1) /\ Checkpoint
          /\ buf' = Rotated(buf \o New(j - i + 1), adt, Len(buf) + 1,
                            Len(buf) + (j - i + 1) + 1)
    BY DEF Copy
  <2>2. PICK j \in i..Len(buf), adt \in 0..Len(buf) :
          /\ Put(j - i + 1) /\ Checkpoint
          /\ buf' = Rotated(buf \o New(j - i + 1), adt, Len(buf) + 1,
                            Len(buf) + (j - i + 1) + 1)
    BY <2>1
  <2>3. j - i + 1 \in Nat \ {0}
    BY <1>2
  <2> QED
    BY <1>2, <2>2, <2>3
<1>4. Checkpoint /\ UNCHANGED <<bits, names, meant, origin, anymarks>>
  BY DEF Copy
<1>5. tline' = tline + n /\ tline' <= MaxLine
  BY <1>3 DEF Put
<1>6. PICK S : S = 1..tline + n
  OBVIOUS
<1>7. PICK u \in Seq(S) : /\ u = New(n) /\ Len(u) = n /\ IsInjective(u)
                          /\ ToSet(u) = tline + 1..tline + n
  BY <1>1, <1>6, NewLines
<1>8. buf \in Seq(S) /\ ToSet(buf) \subseteq 1..tline
  BY <1>1, <1>6, MoreLines
<1>9. PICK s \in Seq(S) : /\ s = buf \o u /\ Len(s) = Len(buf) + Len(u)
                          /\ ToSet(s) = ToSet(buf) \cup ToSet(u)
  <2>1. buf \o u \in Seq(S) /\ Len(buf \o u) = Len(buf) + Len(u)
    BY <1>8, ConcatLines
  <2>2. ToSet(buf \o u) = ToSet(buf) \cup ToSet(u)
    BY <1>8, ConcatLines
  <2> QED
    BY <2>1, <2>2
<1>10. IsInjective(s)
  <2>1. ToSet(buf) \cap ToSet(u) = {}
    BY <1>1, <1>7, <1>8
  <2>2. (IsInjective(buf) /\ IsInjective(u) /\ ToSet(buf) \cap ToSet(u) = {})
            => IsInjective(buf \o u)
    BY <1>8, ConcatLines
  <2> QED
    BY <1>1, <1>7, <1>9, <2>1, <2>2
<1>11. PICK i \in 1..Len(s) : i = e + 1 /\ e + n \in i..Len(s) /\ adt \in 0..Len(s)
                              /\ adt < i
  <2>1. Len(s) = e + n
    BY <1>2, <1>7, <1>9
  <2>2. /\ e + 1 \in 1..Len(s) /\ e + n \in e + 1..Len(s) /\ adt \in 0..Len(s)
        /\ adt < e + 1
    BY <2>1
  <2> QED
    BY <2>2
<1>12. PICK j \in i..Len(s), to \in 0..Len(s) :
         j = e + n /\ to = adt /\ (to < i \/ to > j)
  BY <1>11
<1>13. /\ Rotated(s, to, i, j + 1) \in Seq(S)
       /\ ToSet(Rotated(s, to, i, j + 1)) = ToSet(s)
       /\ IsInjective(Rotated(s, to, i, j + 1))
  BY <1>10, <1>12, RotatedMembers
<1>14. buf' = Rotated(s, to, i, j + 1)
  BY <1>3, <1>7, <1>9, <1>11, <1>12
<1>15. /\ tline' \in Nat /\ tline <= tline'
       /\ buf' \in Seq(1..tline') /\ IsInjective(buf')
       /\ ToSet(buf') = ToSet(buf) \cup (tline + 1..tline')
  BY <1>1, <1>5, <1>6, <1>7, <1>9, <1>13, <1>14
<1>16. bits' \subseteq ToSet(buf')
  BY <1>1, <1>4, <1>15
<1> QED
  BY <1>4, <1>5, <1>15, <1>16, BufKept

\* r.
LEMMA ReadKeeps ==
    ASSUME LineInv, Read \/ ReadCut
    PROVE  LineInv'
<1>0. ReadLines
  BY DEF Read, ReadCut
<1>1. PICK a \in 0..Len(buf), n \in 0..MaxText :
        /\ tline + n <= MaxLine /\ tline' = tline + n
        /\ Checkpoint /\ buf' = Splice(buf, a, New(n))
  BY <1>0 DEF ReadLines
<1>2. n \in Nat
  BY EdAssumption
<1>3. UNCHANGED <<bits, names, meant, origin, anymarks>>
  BY <1>0 DEF ReadLines
<1>4. /\ tline \in Nat /\ buf \in Seq(1..tline) /\ IsInjective(buf)
      /\ bits \subseteq ToSet(buf)
  BY BufTyped
<1>5. tline' = tline + n /\ tline' <= MaxLine
  BY <1>1
<1>6. /\ buf' \in Seq(1..tline') /\ IsInjective(buf')
      /\ ToSet(buf') = ToSet(buf) \cup (tline + 1..tline')
  BY <1>1, <1>2, <1>4, <1>5, SplicedLines
<1>7. tline' \in Nat /\ tline <= tline'
  BY <1>2, <1>4, <1>5
<1> QED
  BY <1>1, <1>3, <1>4, <1>5, <1>6, <1>7, BufKept

\* A step that leaves the lines where they are and makes no mark but on a line.
LEMMA SameLinesKeep ==
    ASSUME LineInv, Checkpoint \/ und' = und, bits' \subseteq ToSet(buf),
           UNCHANGED <<buf, tline, names, meant, origin, anymarks>>
    PROVE  LineInv'
<1>1. /\ tline \in Nat /\ tline <= MaxLine /\ buf \in Seq(1..tline) /\ IsInjective(buf)
  BY BufTyped
<1>2. /\ tline' \in Nat /\ tline <= tline' /\ tline' <= MaxLine
      /\ buf' \in Seq(1..tline') /\ IsInjective(buf')
      /\ ToSet(buf') \subseteq ToSet(buf) \cup (tline + 1..tline')
      /\ bits' \subseteq ToSet(buf')
  BY <1>1
<1> QED
  BY <1>2, BufKept

\* Global commands.
LEMMA GlobalKeeps ==
    ASSUME LineInv, GlobalBegins \/ GlobalDelete \/ GlobalLine \/ ListEnds \/ GlobalEnds
    PROVE  LineInv'
<1>1. /\ tline \in Nat /\ tline <= MaxLine /\ buf \in Seq(1..tline) /\ IsInjective(buf)
      /\ bits \subseteq ToSet(buf)
  BY BufTyped
<1>2. CASE GlobalBegins
  <2>1. /\ Checkpoint /\ bits' \subseteq ToSet(buf)
        /\ UNCHANGED <<buf, tline, names, meant, origin, anymarks>>
    BY <1>2 DEF GlobalBegins
  <2> QED
    BY <2>1, SameLinesKeep
<1>3. CASE GlobalLine \/ ListEnds \/ GlobalEnds
  <2>1. /\ und' = und /\ bits' \subseteq bits
        /\ UNCHANGED <<buf, tline, names, meant, origin, anymarks>>
    BY <1>3 DEF GlobalLine, ListEnds, GlobalEnds, text, history
  <2> QED
    BY <1>1, <2>1, SameLinesKeep
<1>4. CASE GlobalDelete
  <2>1. Checkpoint /\ UNCHANGED <<tline, names, meant, origin, anymarks>>
    BY <1>4 DEF GlobalDelete
  <2>2. PICK S \in SUBSET ToSet(buf) :
          IF S = {} THEN UNCHANGED <<buf, bits>>
          ELSE buf' = GDelete(buf, S) /\ bits' = {}
    BY <1>4 DEF GlobalDelete, text
  <2>3. CASE S = {}
    <3>1. UNCHANGED <<buf, bits>>
      BY <2>2, <2>3
    <3> QED
      BY <1>1, <2>1, <3>1, SameLinesKeep
  <2>4. CASE S # {}
    <3>1. \E i \in 1..Len(buf) : buf[i] \in S
      <4>1. PICK x \in S : x \in ToSet(buf)
        BY <2>4
      <4>2. \E i \in 1..Len(buf) : buf[i] = x
        BY <1>1, <4>1, ElementsOf
      <4> QED
        BY <4>2
    <3>2. GDelete(buf, S) = Without(buf, S)
      BY <1>1, <3>1, GDeleteSame
    <3>3. Without(buf, S) \in Seq(1..tline)
      BY <1>1, WithoutLines
    <3>4. ToSet(Without(buf, S)) = ToSet(buf) \ S
      BY <1>1, WithoutLines
    <3>5. IsInjective(buf) => IsInjective(Without(buf, S))
      BY <1>1, WithoutLines
    <3>6. buf' = Without(buf, S) /\ bits' = {}
      BY <2>2, <2>4, <3>2
    <3>7. /\ buf' \in Seq(1..tline) /\ IsInjective(buf')
          /\ ToSet(buf') = ToSet(buf) \ S
      BY <1>1, <3>3, <3>4, <3>5, <3>6
    <3>8. /\ tline' \in Nat /\ tline <= tline' /\ tline' <= MaxLine
          /\ buf' \in Seq(1..tline')
          /\ ToSet(buf') \subseteq ToSet(buf) \cup (tline + 1..tline')
          /\ bits' \subseteq ToSet(buf')
      BY <1>1, <2>1, <3>6, <3>7
    <3> QED
      BY <2>1, <3>7, <3>8, BufKept
  <2> QED
    BY <2>3, <2>4
<1> QED
  BY <1>2, <1>3, <1>4

\* k.
LEMMA MarkNameKeeps ==
    ASSUME LineInv, MarkName
    PROVE  LineInv'
<1>1. PICK i \in 1..Len(buf), n \in Name :
        /\ names' = [names EXCEPT ![n] = buf[i]]
        /\ meant' = [meant EXCEPT ![n] = origin[buf[i]]]
  BY DEF MarkName
<1>2. /\ anymarks' = TRUE /\ und' = und
      /\ UNCHANGED <<buf, bits, tline, origin>>
  BY DEF MarkName, NoCheckpoint, text
<1>3. tline \in Nat /\ tline <= MaxLine
  BY BufTyped
<1>4. Kept(buf, bits, [names EXCEPT ![n] = buf[i]], [meant EXCEPT ![n] = origin[buf[i]]],
           tline, origin, TRUE)
  <2>1. /\ OriginOK(origin, tline)
        /\ Kept(buf, bits, names, meant, tline, origin, anymarks)
    BY DEF LineInv
  <2>2. i \in 1..Len(buf) /\ n \in Name
    BY <1>1
  <2> QED
    BY <1>3, <2>1, <2>2, KeptNamed
<1>5. Kept(und'.buf, und'.bits, und'.names, und'.meant, tline', origin', anymarks')
  <2>1. /\ Checkpoint \/ und' = und
        /\ tline' \in Nat /\ tline <= tline'
        /\ \A l \in 1..tline : origin'[l] = origin[l]
        /\ anymarks' = FALSE => anymarks = FALSE
    BY <1>2, <1>3
  <2> QED
    BY <2>1, UndKept
<1> QED
  BY <1>1, <1>2, <1>4, <1>5 DEF LineInv

\* u: the buffer and what undo knows change places.
LEMMA UndoKeeps ==
    ASSUME LineInv, Undo
    PROVE  LineInv'
<1>1. UNCHANGED <<tline, anymarks, origin>>
  BY DEF Undo
<1>2. CASE /\ buf' = und.buf /\ bits' = und.bits
           /\ names' = und.names /\ meant' = und.meant
           /\ und' = [set |-> TRUE, buf |-> buf, bits |-> bits,
                      names |-> names, meant |-> meant]
  <2>1. Kept(buf', bits', names', meant', tline', origin', anymarks')
    BY <1>1, <1>2 DEF LineInv
  <2>2. /\ und'.buf = buf /\ und'.bits = bits
        /\ und'.names = names /\ und'.meant = meant
    BY <1>2
  <2>3. Kept(und'.buf, und'.bits, und'.names, und'.meant, tline', origin', anymarks')
    BY <1>1, <2>2 DEF LineInv
  <2> QED
    BY <1>1, <2>1, <2>3 DEF LineInv
<1>3. CASE UNCHANGED <<buf, bits, names, und, meant>>
  BY <1>1, <1>3 DEF LineInv
<1> QED
  BY <1>2, <1>3 DEF Undo, text

\* What leaves the lines where they are.
LEMMA OtherEditingKeeps ==
    ASSUME LineInv, ComeToNothing \/ GoTo \/ Write \/ Warning
    PROVE  LineInv'
<1>1. /\ tline \in Nat /\ tline <= MaxLine /\ buf \in Seq(1..tline) /\ IsInjective(buf)
      /\ bits \subseteq ToSet(buf)
  BY BufTyped
<1>2. bits' \subseteq bits
  BY DEF ComeToNothing, GoTo, Write, Warning, text
<1>3. /\ Checkpoint \/ und' = und
      /\ UNCHANGED <<buf, tline, names, meant, origin, anymarks>>
  BY DEF ComeToNothing, GoTo, Write, Warning, text, NoCheckpoint
<1> QED
  BY <1>1, <1>2, <1>3, SameLinesKeep

\* e, E, q and Q begin anew.
LEMMA AnewKeeps ==
    ASSUME Init0, tline' \in 0..MaxLine, NEW n \in Nat, tline' = n,
           buf' = [k \in 1..n |-> k]
    PROVE  LineInv'
<1>1. MaxLine \in Nat /\ n <= MaxLine
  BY EdAssumption
<1>2. PICK o : o = [l \in Line |-> l]
  OBVIOUS
<1>3. OriginOK(o, 0) /\ OriginOK(o, n)
  <2>1. \A l \in Line : l \in Int /\ 1 <= l
    BY <1>1 DEF Line
  <2>2. o \in [Line -> Line] /\ \A l \in Line : o[l] = l
    BY <1>2
  <2> QED
    BY <2>1, <2>2 DEF OriginOK
<1>4. PICK z : z = [c \in Name |-> 0]
  OBVIOUS
<1>5. Kept(<<>>, {}, z, z, 0, o, FALSE) /\ Kept(<<>>, {}, z, z, n, o, FALSE)
  BY <1>4, KeptEmpty
<1>6. PICK b \in Seq(1..n) : b = buf' /\ IsInjective(b) /\ ToSet(b) = 0 + 1..0 + n
  <2>1. 0 \in Nat
    OBVIOUS
  <2>2. /\ [k \in 1..n |-> 0 + k] \in Seq(0 + 1..0 + n)
        /\ ToSet([k \in 1..n |-> 0 + k]) = 0 + 1..0 + n
        /\ IsInjective([k \in 1..n |-> 0 + k])
    BY <2>1, RunLines
  <2>3. [k \in 1..n |-> 0 + k] = buf' /\ 0 + 1..0 + n = 1..n
    OBVIOUS
  <2> QED
    BY <2>2, <2>3
<1>7. Kept(b, {}, z, z, n, o, FALSE)
  <2>1. PICK t \in Nat : t = 0
    OBVIOUS
  <2>2. PICK e : e = <<>>
    OBVIOUS
  <2>3. PICK m : m = {}
    OBVIOUS
  <2>4. t <= n /\ m \subseteq ToSet(b)
    BY <2>1, <2>3
  <2>5. OriginOK(o, t) /\ Kept(e, m, z, z, t, o, FALSE)
    BY <1>3, <1>5, <2>1, <2>2, <2>3
  <2>6. ToSet(b) \subseteq ToSet(e) \cup (t + 1..n) /\ IsInjective(b)
    BY <1>6, <2>1
  <2>7. Kept(b, m, z, z, n, o, FALSE)
    BY <1>1, <2>4, <2>5, <2>6, KeptMore
  <2> QED
    BY <2>3, <2>7
<1>8. /\ bits' = {} /\ names' = z /\ meant' = z /\ anymarks' = FALSE /\ origin' = o
      /\ und'.buf = <<>> /\ und'.bits = {} /\ und'.names = z /\ und'.meant = z
  BY <1>2, <1>4 DEF Init0, NoUndo
<1> QED
  BY <1>3, <1>5, <1>6, <1>7, <1>8 DEF LineInv

\* Where substitute() leaves the origin of the lines and the names.
LEMMA SubstMoved ==
    ASSUME LineInv, anymarks \in BOOLEAN, NEW S \in SUBSET (1..Len(buf)),
           NEW Split, NEW t2 \in Nat, t2 <= MaxLine, NEW put, PutsFit(put, S, Split, tline, t2)
    PROVE  /\ NamesMoved(NamesAfter(S, put), names, buf, S, put, anymarks)
           /\ OriginMoved([l \in Line |->
                             IF \E i \in S : put[i] = l
                             THEN origin[buf[CHOOSE i \in S : put[i] = l]]
                             ELSE origin[l]], origin, buf, S, put)
<1>1. /\ tline \in Nat /\ buf \in Seq(1..tline) /\ origin \in [Line -> Line]
      /\ MaxLine \in Nat /\ tline <= MaxLine
  BY BufTyped, EdAssumption DEF LineInv, OriginOK
<1>2. \A i \in S : put[i] \in tline + 1..t2 /\ i \in Int
  <2>1. \A i \in S : i \in Int
    BY BufTyped
  <2> QED
    BY <2>1 DEF PutsFit
<1>3. \A i, j \in S : put[i] = put[j] => i = j
  <2> SUFFICES ASSUME NEW i \in S, NEW j \in S, put[i] = put[j] PROVE i = j
    OBVIOUS
  <2>1. put[i] \in Int /\ i \in Int /\ j \in Int
    BY <1>1, <1>2
  <2>2. ~(i < j) /\ ~(j < i)
    BY <2>1 DEF PutsFit
  <2> QED
    BY <2>1, <2>2
<1>4. \A i \in S : put[i] \in Line /\ buf[i] \in Line
  <2>1. \A i \in 1..Len(buf) : buf[i] \in 1..tline
    BY <1>1, ElementOfSeq
  <2>2. \A l \in 1..tline : l \in Line
    BY <1>1 DEF Line
  <2>3. \A l \in tline + 1..t2 : l \in Line
    BY <1>1 DEF Line
  <2> QED
    BY <1>2, <2>1, <2>2, <2>3
<1>5. PICK nm : nm = NamesAfter(S, put)
  OBVIOUS
<1>6. NamesMoved(nm, names, buf, S, put, anymarks)
  <2>1. nm = [n \in Name |-> nm[n]]
    BY <1>5 DEF NamesAfter
  <2>2. ASSUME NEW n \in Name, anymarks, \E i \in S : buf[i] = names[n]
        PROVE  \E i \in S : names[n] = buf[i] /\ nm[n] = put[i]
    <3>1. PICK i \in S : i = CHOOSE x \in S : buf[x] = names[n]
      BY <2>2
    <3>2. buf[i] = names[n]
      BY <2>2, <3>1
    <3>3. nm[n] = put[i]
      BY <1>5, <2>2, <3>1 DEF NamesAfter
    <3> QED
      BY <3>2, <3>3
  <2>3. ASSUME NEW n \in Name, ~(anymarks /\ \E i \in S : buf[i] = names[n])
        PROVE  nm[n] = names[n]
    BY <1>5, <2>3 DEF NamesAfter
  <2>4. ASSUME NEW n \in Name, ~(anymarks /\ \E i \in S : buf[i] = names[n])
        PROVE  anymarks = FALSE \/ \A i \in S : names[n] # buf[i]
    BY <2>4
  <2> QED
    BY <2>1, <2>2, <2>3, <2>4 DEF NamesMoved
<1>7. PICK o : o = [l \in Line |-> IF \E i \in S : put[i] = l
                                  THEN origin[buf[CHOOSE i \in S : put[i] = l]]
                                  ELSE origin[l]]
  OBVIOUS
<1>8. ASSUME NEW l \in Line, NEW i \in S, put[i] = l PROVE o[l] = origin[buf[i]]
  <2>1. PICK j \in S : j = CHOOSE x \in S : put[x] = l
    BY <1>8
  <2>2. put[j] = l
    BY <1>8, <2>1
  <2>3. j = i
    BY <1>3, <1>8, <2>2
  <2> QED
    BY <1>7, <1>8, <2>1, <2>3
<1>9. \A l \in Line : (\A i \in S : put[i] # l) => o[l] = origin[l]
  BY <1>7
<1>10. o \in [Line -> Line]
  <2>1. ASSUME NEW l \in Line PROVE o[l] \in Line
    <3>1. CASE \E i \in S : put[i] = l
      <4>1. PICK i \in S : put[i] = l
        BY <3>1
      <4> QED
        BY <1>1, <1>4, <1>8, <4>1
    <3>2. CASE \A i \in S : put[i] # l
      BY <1>1, <1>9, <3>2
    <3> QED
      BY <3>1, <3>2
  <2> QED
    BY <1>7, <2>1
<1>11. OriginMoved(o, origin, buf, S, put)
  BY <1>4, <1>8, <1>9, <1>10 DEF OriginMoved
<1> QED
  BY <1>5, <1>6, <1>7, <1>11

\* s, which makes lines of lines and takes their names along.
LEMMA SubstituteKeeps ==
    ASSUME LineInv, anymarks \in BOOLEAN, Substitute
    PROVE  LineInv'
<1>1. /\ tline \in Nat /\ tline <= MaxLine /\ buf \in Seq(1..tline) /\ IsInjective(buf)
      /\ Len(buf) \in Nat
  BY BufTyped
<1>2. PICK S \in SUBSET (1..Len(buf)) : \E Split \in SUBSET S :
        LET before(i) == Cardinality(S \cap 1..i - 1)
                         + Cardinality(Split \cap 1..i - 1)
            put == [i \in S |-> tline + 1 + before(i)]
            piece(i) == IF i \notin S THEN <<buf[i]>>
                        ELSE IF i \in Split THEN <<put[i], put[i] + 1>>
                        ELSE <<put[i]>>
        IN  /\ Put(Cardinality(S) + Cardinality(Split))
            /\ Checkpoint
            /\ buf' = FlattenSeq([i \in 1..Len(buf) |-> piece(i)])
            /\ names' = NamesAfter(S, put)
            /\ origin' = [l \in Line |->
                            IF \E i \in S : put[i] = l
                            THEN origin[buf[CHOOSE i \in S : put[i] = l]]
                            ELSE origin[l]]
  BY DEF Substitute
<1>3. PICK Split \in SUBSET S :
        LET put == [i \in S |-> tline + 1 + (Cardinality(S \cap 1..i - 1)
                                             + Cardinality(Split \cap 1..i - 1))]
        IN  /\ Put(Cardinality(S) + Cardinality(Split))
            /\ Checkpoint
            /\ buf' = Substituted(buf, S, Split, put)
            /\ names' = NamesAfter(S, put)
            /\ origin' = [l \in Line |->
                            IF \E i \in S : put[i] = l
                            THEN origin[buf[CHOOSE i \in S : put[i] = l]]
                            ELSE origin[l]]
  BY <1>2 DEF Piece, Substituted
<1>4. PICK put : put = [i \in S |-> tline + 1 + (Cardinality(S \cap 1..i - 1)
                                                 + Cardinality(Split \cap 1..i - 1))]
  OBVIOUS
<1>5. /\ Put(Cardinality(S) + Cardinality(Split))
      /\ Checkpoint
      /\ buf' = Substituted(buf, S, Split, put)
      /\ names' = NamesAfter(S, put)
      /\ origin' = [l \in Line |->
                       IF \E i \in S : put[i] = l
                       THEN origin[buf[CHOOSE i \in S : put[i] = l]]
                       ELSE origin[l]]
  BY <1>3, <1>4
<1>6. PICK t2 \in Nat : t2 = tline + (Cardinality(S) + Cardinality(Split)) /\ tline <= t2
  <2>1. IsFiniteSet(1..Len(buf))
    BY <1>1, FS_Interval
  <2>2. IsFiniteSet(S) /\ IsFiniteSet(Split)
    BY <2>1, FS_Subset
  <2>3. Cardinality(S) \in Nat /\ Cardinality(Split) \in Nat
    BY <2>2, FS_CardinalityType
  <2> QED
    BY <1>1, <2>3
<1>7. tline' = t2 /\ t2 <= MaxLine
  BY <1>5, <1>6 DEF Put
<1>8. PutsFit(put, S, Split, tline, t2)
  <2>1. PICK n \in Nat, t \in Nat : n = Len(buf) /\ t = tline
    BY <1>1
  <2>2. S \in SUBSET (1..n)
    BY <2>1
  <2>3. PutsFit([i \in S |-> t + 1 + (Cardinality(S \cap 1..i - 1)
                                      + Cardinality(Split \cap 1..i - 1))],
                S, Split, t, t + (Cardinality(S) + Cardinality(Split)))
    BY <2>2, SubstPuts
  <2>4. put = [i \in S |-> t + 1 + (Cardinality(S \cap 1..i - 1)
                                      + Cardinality(Split \cap 1..i - 1))]
    BY <1>4, <2>1
  <2> QED
    BY <1>6, <2>1, <2>3, <2>4
<1>9. /\ NamesMoved(names', names, buf, S, put, anymarks)
      /\ OriginMoved(origin', origin, buf, S, put)
  <2>1. NamesMoved(NamesAfter(S, put), names, buf, S, put, anymarks)
    BY <1>7, <1>8, SubstMoved
  <2>2. OriginMoved([l \in Line |->
                             IF \E i \in S : put[i] = l
                             THEN origin[buf[CHOOSE i \in S : put[i] = l]]
                             ELSE origin[l]], origin, buf, S, put)
    BY <1>7, <1>8, SubstMoved
  <2> QED
    BY <1>5, <2>1, <2>2
<1>10. PICK b2 \in Seq(1..t2) : b2 = buf' /\ IsInjective(b2) /\ SubstSources(b2, buf, S, Split, put)
  <2>1. Substituted(buf, S, Split, put) \in Seq(1..t2)
    BY <1>1, <1>6, <1>8, SubstLines
  <2>2. IsInjective(Substituted(buf, S, Split, put))
    BY <1>1, <1>6, <1>8, SubstLines
  <2>3. SubstSources(Substituted(buf, S, Split, put), buf, S, Split, put)
    BY <1>1, <1>6, <1>8, SubstLines
  <2> QED
    BY <1>5, <2>1, <2>2, <2>3
<1>11. bits' \subseteq ToSet(b2) /\ UNCHANGED <<meant, anymarks>>
  BY <1>10 DEF Substitute, Marked
<1>12. /\ OriginOK(origin, tline)
       /\ Kept(buf, bits, names, meant, tline, origin, anymarks)
  BY DEF LineInv
<1>13. Kept(b2, bits', names', meant, t2, origin', anymarks)
  BY <1>1, <1>6, <1>7, <1>8, <1>9, <1>10, <1>11, <1>12, KeptSubst
<1>14. OriginOK(origin', t2) /\ SameOrigin(origin', origin, tline)
  BY <1>1, <1>6, <1>7, <1>8, <1>9, <1>12, OriginKept
<1>15. \A l \in 1..tline : origin'[l] = origin[l]
  BY <1>14 DEF SameOrigin
<1>16. Kept(und'.buf, und'.bits, und'.names, und'.meant, tline', origin', anymarks')
  BY <1>5, <1>6, <1>7, <1>11, <1>15, UndKept
<1>17. tline' \in 0..MaxLine
  BY <1>7, EdAssumption
<1> QED
  BY <1>7, <1>10, <1>11, <1>13, <1>14, <1>16, <1>17 DEF LineInv

\* e, E, q and Q.
LEMMA StartKeeps ==
    ASSUME Edit \/ Quit \/ Depart
    PROVE  LineInv'
<1>1. CASE Edit
  <2>1. PICK n \in 0..MaxText : n <= MaxLine /\ buf' = [k \in 1..n |-> k] /\ tline' = n
    BY <1>1 DEF Edit
  <2>2. n \in Nat /\ tline' \in 0..MaxLine
    BY <2>1, EdAssumption
  <2>3. Init0
    BY <1>1 DEF Edit
  <2> QED
    BY <2>1, <2>2, <2>3, AnewKeeps
<1>2. CASE Quit \/ Depart
  <2>1. Init0 /\ buf' = <<>> /\ tline' = 0
    BY <1>2 DEF Quit, Depart, Leave
  <2>2. PICK n \in Nat : n = 0 /\ n \in 0..MaxLine
    BY EdAssumption
  <2>3. buf' = [k \in 1..n |-> k]
    <3>1. 1..n = {}
      BY <2>2
    <3> QED
      BY <2>1, <3>1
  <2> QED
    BY <2>1, <2>2, <2>3, AnewKeeps
<1> QED
  BY <1>1, <1>2

\* Every step keeps LineInv.
LEMMA StepKeepsLines ==
    ASSUME LineInv, anymarks \in BOOLEAN, [EdNext]_vars
    PROVE  LineInv'
<1>1. CASE AppendText
  BY <1>1, AppendTextKeeps
<1>2. CASE Delete
  BY <1>2, DeleteKeeps
<1>3. CASE Change
  BY <1>3, ChangeKeeps
<1>4. CASE Join
  BY <1>4, JoinKeeps
<1>5. CASE Move
  BY <1>5, MoveKeeps
<1>6. CASE Copy
  BY <1>6, CopyKeeps
<1>7. CASE Substitute
  BY <1>7, SubstituteKeeps
<1>8. CASE ComeToNothing \/ GoTo \/ Write \/ Warning
  BY <1>8, OtherEditingKeeps
<1>9. CASE MarkName
  BY <1>9, MarkNameKeeps
<1>10. CASE Undo
  BY <1>10, UndoKeeps
<1>11. CASE GlobalBegins \/ GlobalDelete \/ GlobalLine \/ ListEnds \/ GlobalEnds
  BY <1>11, GlobalKeeps
<1>12. CASE Read \/ ReadCut
  BY <1>12, ReadKeeps
<1>13. CASE Edit \/ Quit \/ Depart
  BY <1>13, StartKeeps
<1>14. CASE UNCHANGED vars
  BY <1>14 DEF vars, text, history, LineInv
<1> QED
  BY <1>1, <1>2, <1>3, <1>4, <1>5, <1>6, <1>7, <1>8, <1>9, <1>10, <1>11, <1>12, <1>13,
     <1>14 DEF EdNext, Altering, Looking, Saving, Beginning

\* There are no lines at first.
LEMMA InitHasLines ==
    ASSUME EdInit
    PROVE  LineInv
<1>1. PICK z : z = [c \in Name |-> 0]
  OBVIOUS
<1>2. PICK o : o = [l \in Line |-> l]
  OBVIOUS
<1>3. MaxLine \in Nat
  BY EdAssumption
<1>4. OriginOK(o, 0)
  <2>1. \A l \in Line : l \in Int /\ 1 <= l
    BY <1>3 DEF Line
  <2>2. o \in [Line -> Line] /\ \A l \in Line : o[l] = l
    BY <1>2
  <2> QED
    BY <2>1, <2>2 DEF OriginOK
<1>5. Kept(<<>>, {}, z, z, 0, o, FALSE)
  BY <1>1, KeptEmpty
<1>6. /\ buf = <<>> /\ bits = {} /\ names = z /\ meant = z /\ anymarks = FALSE /\ origin = o
      /\ und.buf = <<>> /\ und.bits = {} /\ und.names = z /\ und.meant = z /\ tline = 0
  BY <1>1, <1>2 DEF EdInit, NoUndo
<1>7. Kept(buf, bits, names, meant, tline, origin, anymarks)
  BY <1>5, <1>6
<1>8. Kept(und.buf, und.bits, und.names, und.meant, tline, origin, anymarks)
  BY <1>5, <1>6
<1>9. tline \in 0..MaxLine /\ OriginOK(origin, tline)
  BY <1>3, <1>4, <1>6
<1> QED
  BY <1>7, <1>8, <1>9 DEF LineInv

-----------------------------------------------------------------------------
(* The flags *)

FlagsOK ==
    /\ fchange \in BOOLEAN /\ anymarks \in BOOLEAN
    /\ grown \in BOOLEAN /\ wild \in BOOLEAN
    /\ mode \in {"command", "global", "list", "crashed"}
    /\ left \in 0..ListLen

\* The mode after a command and what is left of the list.
LEMMA ModeTyped ==
    ASSUME FlagsOK, Done \/ DoneOrCut \/ Abort
    PROVE  mode' \in {"command", "global", "list", "crashed"} /\ left' \in 0..ListLen
<1>1. ListLen \in Nat /\ left \in Nat /\ left <= ListLen
  BY EdAssumption DEF FlagsOK
<1>2. CASE Abort
  BY <1>1, <1>2 DEF Abort
<1>3. CASE Done
  <2>1. mode' \in {"command", "global", "list", "crashed"}
    BY <1>3 DEF Done, FlagsOK
  <2>2. CASE Typed
    <3>1. left' = 0 /\ 0 \in 0..ListLen
      BY <1>1, <1>3, <2>2 DEF Done
    <3> QED
      BY <2>1, <3>1
  <2>3. CASE ~Typed
    <3>1. left > 0 /\ left' = left - 1
      BY <1>3, <2>3 DEF Done, Ready, Typed
    <3>2. left' \in 0..ListLen
      BY <1>1, <3>1
    <3> QED
      BY <2>1, <3>2
  <2> QED
    BY <2>1, <2>2, <2>3
<1> QED
  BY <1>2, <1>3 DEF DoneOrCut

\* What is known of the array after append().
LEMMA GrowTyped ==
    ASSUME FlagsOK, NEW n, Grow(n)
    PROVE  grown' \in BOOLEAN /\ wild' \in BOOLEAN
<1> DEFINE known == IF Typed THEN FALSE ELSE wild
           grows == n >= Room /\ ~grown
<1>1. /\ grown' = (grown \/ grows)
      /\ wild' \in IF grows /\ und'.set THEN {known, TRUE} ELSE {known}
  BY DEF Grow
<1>2. known \in BOOLEAN /\ grows \in BOOLEAN
  BY DEF FlagsOK
<1> HIDE DEF known, grows
<1>3. wild' = known \/ wild' = TRUE
  BY <1>1
<1> QED
  BY <1>1, <1>2, <1>3 DEF FlagsOK

\* Every step keeps FlagsOK.
LEMMA StepKeepsFlags ==
    ASSUME FlagsOK, [EdNext]_vars
    PROVE  FlagsOK'
<1>0. \A n : Grow(n) => grown' \in BOOLEAN /\ wild' \in BOOLEAN
  BY GrowTyped
<1>1. CASE AppendText \/ Delete \/ Change \/ Join \/ Move \/ Copy
  <2>1. (Done \/ DoneOrCut) /\ UNCHANGED anymarks
    BY <1>1 DEF AppendText, Delete, Change, Join, Move, Copy
  <2>2. fchange' \in BOOLEAN
    BY <1>1 DEF AppendText, Delete, Change, Join, Move, Copy, Put, FlagsOK
  <2>3. \E n : Grow(n)
    BY <1>1 DEF AppendText, Delete, Change, Join, Move, Copy, Stay
  <2> QED
    BY <1>0, <2>1, <2>2, <2>3, ModeTyped DEF FlagsOK
<1>2. CASE Substitute
  <2>1. UNCHANGED anymarks /\ \E n : Grow(n)
    BY <1>2 DEF Substitute
  <2>2. fchange' \in BOOLEAN
    BY <1>2 DEF Substitute, Put, FlagsOK
  <2>3. mode' \in {"command", "global", "list", "crashed"} /\ left' \in 0..ListLen
    <3>1. Done \/ (mode' = "crashed" /\ left' = left)
      BY <1>2 DEF Substitute
    <3> QED
      BY <3>1, ModeTyped DEF FlagsOK
  <2> QED
    BY <1>0, <2>1, <2>2, <2>3 DEF FlagsOK
<1>3. CASE ComeToNothing
  <2>1. (Done \/ Abort) /\ UNCHANGED <<fchange, anymarks>> /\ Grow(0)
    BY <1>3 DEF ComeToNothing, Stay
  <2> QED
    BY <1>0, <2>1, ModeTyped DEF FlagsOK
<1>4. CASE GoTo \/ MarkName
  <2>1. /\ Done \/ DoneOrCut
        /\ anymarks' \in {anymarks, TRUE}
        /\ UNCHANGED <<fchange, grown, wild>>
    BY <1>4 DEF GoTo, MarkName, NoCheckpoint, table
  <2> QED
    BY <2>1, ModeTyped DEF FlagsOK
<1>5. CASE Undo
  <2>1. UNCHANGED <<fchange, anymarks, grown, wild>>
    BY <1>5 DEF Undo, table
  <2>2. mode' \in {"command", "global", "list", "crashed"} /\ left' \in 0..ListLen
    <3>1. Done \/ (mode' = "crashed" /\ left' = left)
      BY <1>5 DEF Undo
    <3> QED
      BY <3>1, ModeTyped DEF FlagsOK
  <2> QED
    BY <2>1, <2>2 DEF FlagsOK
<1>6. CASE GlobalBegins
  <2>1. mode' = "global" /\ left' = 0 /\ UNCHANGED <<fchange, anymarks>> /\ Grow(0)
    BY <1>6 DEF GlobalBegins, Stay
  <2> QED
    BY <1>0, <2>1, EdAssumption DEF FlagsOK
<1>7. CASE GlobalDelete
  <2>1. UNCHANGED <<mode, left, anymarks>> /\ Grow(0)
    BY <1>7 DEF GlobalDelete, Stay
  <2>2. fchange' \in BOOLEAN
    BY <1>7 DEF GlobalDelete, FlagsOK
  <2> QED
    BY <1>0, <2>1, <2>2 DEF FlagsOK
<1>8. CASE GlobalLine \/ ListEnds \/ GlobalEnds
  <2>1. /\ mode' \in {"command", "global", "list"} /\ left' \in {0, left, ListLen}
        /\ UNCHANGED <<fchange, anymarks, grown, wild>>
    BY <1>8 DEF GlobalLine, ListEnds, GlobalEnds, table
  <2>2. left' \in 0..ListLen
    BY <2>1, EdAssumption DEF FlagsOK
  <2> QED
    BY <2>1, <2>2 DEF FlagsOK
<1>9. CASE Edit
  <2>1. Init0 /\ (Done \/ Abort) /\ grown' \in BOOLEAN
    BY <1>9 DEF Edit, FlagsOK
  <2> QED
    BY <2>1, ModeTyped DEF FlagsOK, Init0
<1>10. CASE Read \/ ReadCut
  <2>1. (Done \/ Abort) /\ ReadLines /\ fchange' \in BOOLEAN
    BY <1>10 DEF Read, ReadCut
  <2>2. UNCHANGED anymarks /\ \E n : Grow(n)
    BY <2>1 DEF ReadLines
  <2> QED
    BY <1>0, <2>1, <2>2, ModeTyped DEF FlagsOK
<1>11. CASE Write \/ Warning
  <2>1. Done \/ Abort
    BY <1>11 DEF Write, Warning
  <2>2. fchange' = FALSE /\ UNCHANGED <<anymarks, grown, wild>>
    BY <1>11 DEF Write, Warning, NoCheckpoint, table
  <2> QED
    BY <2>1, <2>2, ModeTyped DEF FlagsOK
<1>12. CASE Quit \/ Depart
  <2>1. Init0 /\ mode' = "command" /\ left' = 0 /\ grown' = FALSE
    BY <1>12 DEF Quit, Depart, Leave
  <2>2. left' \in 0..ListLen
    BY <2>1, EdAssumption
  <2>3. fchange' = FALSE /\ anymarks' = FALSE /\ wild' = FALSE
    BY <2>1 DEF Init0
  <2> QED
    BY <2>1, <2>2, <2>3 DEF FlagsOK
<1>13. CASE UNCHANGED vars
  BY <1>13 DEF vars, table, FlagsOK
<1> QED
  BY <1>1, <1>2, <1>3, <1>4, <1>5, <1>6, <1>7, <1>8, <1>9, <1>10, <1>11, <1>12, <1>13
     DEF EdNext, Altering, Looking, Saving, Beginning

\* ed starts with its flags reset.
LEMMA InitHasFlags ==
    ASSUME EdInit
    PROVE  FlagsOK
<1>1. left = 0 /\ 0 \in 0..ListLen
  BY EdAssumption DEF EdInit
<1>2. /\ fchange = FALSE /\ anymarks = FALSE /\ grown = FALSE /\ wild = FALSE
      /\ mode = "command"
  BY DEF EdInit
<1> QED
  BY <1>1, <1>2 DEF FlagsOK

-----------------------------------------------------------------------------
(* What is seen *)

\* What is kept of the buffers of before are buffers.
SeenOK ==
    /\ start \in Seq(Line) /\ past \in Seq(Line) /\ nested \in BOOLEAN
    /\ unsaved \in {"no", "altered", "told", "untold"}

\* The lines of the buffer are lines.
LEMMA BufOfLines ==
    ASSUME LineInv
    PROVE  buf \in Seq(Line)
<1>1. /\ tline \in Nat /\ tline <= MaxLine /\ buf \in Seq(1..tline)
  BY BufTyped
<1>2. ToSet(buf) \subseteq 1..tline
  BY <1>1, ElementsOf
<1>3. 1..tline \subseteq Line
  BY <1>1, EdAssumption DEF Line
<1> QED
  BY <1>1, <1>2, <1>3, SeqOfElements

LEMMA StepKeepsSeen ==
    ASSUME LineInv, SeenOK, [EdNext]_vars
    PROVE  SeenOK'
<1>1. buf \in Seq(Line) /\ <<>> \in Seq(Line)
  BY BufOfLines
<1>2. ASSUME NEW e \in BOOLEAN, NEW o \in BOOLEAN, Follow(e, o)
      PROVE  start' \in Seq(Line) /\ past' \in Seq(Line) /\ nested' \in BOOLEAN
  BY <1>1, <1>2 DEF Follow, Began, SeenOK
<1>3. \/ Edited \/ NotEdited \/ Undone \/ Anew \/ UNCHANGED vars
  BY DEF EdNext
<1>4. start' \in Seq(Line) /\ past' \in Seq(Line) /\ nested' \in BOOLEAN
  <2>1. CASE Edited
    BY <1>2, <2>1 DEF Edited, Typed, SeenOK
  <2>2. CASE NotEdited
    BY <1>2, <2>2 DEF NotEdited, SeenOK
  <2>3. CASE Undone
    BY <1>2, <2>3 DEF Undone, Typed, SeenOK
  <2>4. CASE Anew
    BY <1>1, <2>4 DEF Anew
  <2>5. CASE UNCHANGED vars
    BY <2>5 DEF vars, seen, SeenOK
  <2> QED
    BY <1>3, <2>1, <2>2, <2>3, <2>4, <2>5
<1>5. unsaved' \in {"no", "altered", "told", "untold"}
  <2>1. \/ Altered \/ Reverted \/ Filled \/ PartlyFilled \/ Safe \/ UNCHANGED vars
    BY DEF EdNext
  <2> QED
    BY <2>1 DEF Altered, Reverted, Filled, PartlyFilled, Safe, vars, seen, SeenOK
<1> QED
  BY <1>4, <1>5 DEF SeenOK

\* The buffer has been altered only when fchange says so.
NotedInv == unsaved = "altered" => fchange

\* What alters the lines sets fchange and does not reset it.
LEMMA AlteringIsNoted ==
    ASSUME LineInv, Altering \/ Looking
    PROVE  (fchange => fchange') /\ (buf' # buf => fchange')
<1>1. CASE AppendText
  <2>1. PICK n \in 1..MaxText : Put(n)
    BY <1>1 DEF AppendText
  <2>2. n > 0
    BY <2>1, EdAssumption
  <2>3. fchange' = TRUE
    BY <2>1, <2>2 DEF Put
  <2> QED
    BY <2>3
<1>2. CASE Delete \/ Change
  BY <1>2 DEF Delete, Change
<1>3. CASE Join
  <2>1. Put(1)
    BY <1>3 DEF Join
  <2>2. fchange' = TRUE
    <3>1. PICK n \in Nat : n = 1 /\ n > 0
      OBVIOUS
    <3>2. Put(n)
      BY <2>1, <3>1
    <3> QED
      BY <3>1, <3>2 DEF Put
  <2> QED
    BY <2>2
<1>4. CASE Move
  <2>1. PICK i \in 1..Len(buf) : \E j \in i..Len(buf), adt \in 0..Len(buf) :
          /\ buf' = Rotated(buf, adt, i, j + 1)
          /\ fchange' = (fchange \/ adt # i - 1)
    BY <1>4 DEF Move
  <2>2. PICK j \in i..Len(buf), adt \in 0..Len(buf) :
          /\ buf' = Rotated(buf, adt, i, j + 1)
          /\ fchange' = (fchange \/ adt # i - 1)
    BY <2>1
  <2>3. fchange => fchange'
    BY <2>2
  <2>5. CASE adt = i - 1
    <3>1. buf \in Seq(1..tline)
      BY BufTyped
    <3>2. Rotated(buf, i - 1, i, j + 1) = buf
      BY <2>2, <3>1, RotatedStill
    <3>3. buf' = buf
      BY <2>2, <2>5, <3>2
    <3> QED
      BY <2>3, <3>3
  <2>6. CASE adt # i - 1
    <3>1. fchange' = TRUE
      BY <2>2, <2>6
    <3> QED
      BY <3>1
  <2> QED
    BY <2>5, <2>6
<1>5. CASE Copy
  <2>1. PICK i \in 1..Len(buf) : \E j \in i..Len(buf) : Put(j - i + 1)
    BY <1>5 DEF Copy
  <2>2. PICK j \in i..Len(buf) : Put(j - i + 1)
    BY <2>1
  <2>3. j - i + 1 > 0
    BY BufTyped
  <2>4. fchange' = TRUE
    BY <2>2, <2>3 DEF Put
  <2> QED
    BY <2>4
<1>6. CASE Substitute
  <2>1. PICK S \in SUBSET (1..Len(buf)) : \E Split \in SUBSET S :
          S # {} /\ Put(Cardinality(S) + Cardinality(Split))
    BY <1>6 DEF Substitute
  <2>2. PICK Split \in SUBSET S : Put(Cardinality(S) + Cardinality(Split))
    BY <2>1
  <2>3. IsFiniteSet(S) /\ IsFiniteSet(Split)
    <3>1. IsFiniteSet(1..Len(buf))
      BY BufTyped, FS_Interval
    <3> QED
      BY <3>1, FS_Subset
  <2>4. Cardinality(S) \in Nat /\ Cardinality(Split) \in Nat /\ Cardinality(S) # 0
    BY <2>1, <2>3, FS_CardinalityType, FS_EmptySet
  <2>5. Cardinality(S) + Cardinality(Split) > 0
    BY <2>4
  <2>6. fchange' = TRUE
    BY <2>2, <2>5 DEF Put
  <2> QED
    BY <2>6
<1>7. CASE ComeToNothing \/ GoTo \/ MarkName \/ GlobalBegins \/ GlobalLine \/ ListEnds
           \/ GlobalEnds
  BY <1>7 DEF ComeToNothing, GoTo, MarkName, GlobalBegins, GlobalLine, ListEnds,
              GlobalEnds, text
<1>8. CASE GlobalDelete
  BY <1>8 DEF GlobalDelete, text
<1> QED
  BY <1>1, <1>2, <1>3, <1>4, <1>5, <1>6, <1>7, <1>8 DEF Altering, Looking

\* Every step keeps NotedInv.
LEMMA StepKeepsNoted ==
    ASSUME LineInv, NotedInv, [EdNext]_vars
    PROVE  NotedInv'
<1>1. CASE (Altering \/ Looking) /\ Altered
  BY <1>1, AlteringIsNoted DEF Altered, NotedInv
<1>2. CASE Undo /\ Reverted
  BY <1>2 DEF Undo, Reverted, NotedInv
<1>3. CASE Read /\ Filled
  <2>1. CASE buf = <<>>
    BY <1>3, <2>1 DEF Filled, NotedInv
  <2>2. CASE buf # <<>>
    BY <1>3, <2>2 DEF Read, NotedInv
  <2> QED
    BY <2>1, <2>2
<1>4. CASE PartlyFilled \/ Safe
  BY <1>4 DEF PartlyFilled, Safe, NotedInv
<1>5. CASE UNCHANGED vars
  BY <1>5 DEF vars, seen, NotedInv
<1> QED
  BY <1>1, <1>2, <1>3, <1>4, <1>5 DEF EdNext

-----------------------------------------------------------------------------
(* Marks *)

\* There are finitely many marks, and all are on lines.
LEMMA MarksFinite ==
    ASSUME LineInv
    PROVE  /\ IsFiniteSet(bits) /\ IsFiniteSet(und.bits)
           /\ Cardinality(bits) \in Nat /\ Cardinality(und.bits) \in Nat
<1>1. tline \in Nat
  BY BufTyped
<1>2. /\ buf \in Seq(1..tline) /\ bits \subseteq ToSet(buf)
      /\ und.buf \in Seq(1..tline) /\ und.bits \subseteq ToSet(und.buf)
  BY DEF LineInv, Kept
<1>3. bits \subseteq 1..tline
  BY <1>2, ElementsOf
<1>4. und.bits \subseteq 1..tline
  <2>1. ToSet(und.buf) \subseteq 1..tline
    BY <1>2, ElementsOf
  <2> QED
    BY <1>2, <2>1
<1>5. IsFiniteSet(1..tline)
  BY <1>1, FS_Interval
<1>6. IsFiniteSet(bits) /\ IsFiniteSet(und.bits)
  BY <1>3, <1>4, <1>5, FS_Subset
<1> QED
  BY <1>6, FS_CardinalityType

\* The line that a global command goes to has a mark.
LEMMA NextHasMark ==
    ASSUME LineInv, bits # {}
    PROVE  NextMarked \in bits
<1>1. buf \in Seq(1..tline) /\ bits \subseteq ToSet(buf) /\ DOMAIN buf = 1..Len(buf)
  BY BufTyped, LenProperties
<1>2. PICK T : T = {i \in DOMAIN buf : buf[i] \in bits}
  OBVIOUS
<1>3. T \subseteq Nat /\ T # {}
  <2>1. PICK x \in bits : x \in ToSet(buf)
    BY <1>1
  <2>2. \E i \in 1..Len(buf) : buf[i] = x
    BY <1>1, <2>1, ElementsOf
  <2> QED
    BY <1>1, <1>2, <2>2
<1>4. Min(T) \in T
  <2>1. \E x \in T : \A y \in T : x <= y
    BY <1>3, LeastNumber
  <2> QED
    BY <2>1 DEF Min
<1> QED
  BY <1>2, <1>4 DEF NextMarked

\* Within a list marks go, change places with those of undo, or all go.
LEMMA ListMarks ==
    ASSUME mode = "list", [EdNext]_vars
    PROVE  \/ bits' \subseteq bits /\ und'.bits = und.bits
           \/ bits' = und.bits /\ und'.bits = bits
           \/ bits' = {} /\ und'.bits = {}
<1>1. ~Typed
  BY DEF Typed
<1>2. Checkpoint => und' = und
  BY <1>1 DEF Checkpoint
<1>3. CASE AppendText \/ Delete \/ Change \/ Join \/ Move \/ Copy \/ Substitute
           \/ ComeToNothing \/ Read \/ ReadCut
  <2>1. und' = und
    BY <1>2, <1>3 DEF AppendText, Delete, Change, Join, Move, Copy, Substitute,
                      ComeToNothing, Read, ReadCut, ReadLines
  <2>2. bits' \subseteq bits
    BY <1>3 DEF AppendText, Delete, Change, Join, Move, Copy, Substitute,
                ComeToNothing, Read, ReadCut, ReadLines, Marked
  <2> QED
    BY <2>1, <2>2
<1>4. CASE MarkName \/ GoTo \/ Write \/ Warning \/ ListEnds \/ UNCHANGED vars
  <2>1. bits' = bits /\ und' = und
    BY <1>4 DEF MarkName, GoTo, Write, Warning, ListEnds, NoCheckpoint, text, vars
  <2> QED
    BY <2>1
<1>5. CASE Undo
  <2>1. \/ bits' = und.bits /\ und'.bits = bits
        \/ UNCHANGED <<bits, und>>
    BY <1>5 DEF Undo, text
  <2> QED
    BY <2>1
<1>6. CASE Edit \/ Quit \/ Depart
  BY <1>6 DEF Edit, Quit, Depart, Leave, Init0, NoUndo
<1>7. ~(GlobalBegins \/ GlobalDelete \/ GlobalLine \/ GlobalEnds)
  BY <1>1 DEF GlobalBegins, GlobalDelete, GlobalLine, GlobalEnds
<1> QED
  BY <1>3, <1>4, <1>5, <1>6, <1>7 DEF EdNext, Altering, Looking, Saving, Beginning

-----------------------------------------------------------------------------
(* What is always so *)

\* The lines, the flags and what is seen are inductive together.
AllInv == LineInv /\ FlagsOK /\ SeenOK /\ NotedInv

LEMMA EdAlwaysAll == EdSpec => []AllInv
<1>1. EdInit => AllInv
  <2> SUFFICES ASSUME EdInit PROVE AllInv
    OBVIOUS
  <2>1. NotedInv
    BY DEF EdInit, NotedInv
  <2>2. SeenOK
    <3>1. <<>> \in Seq(Line)
      OBVIOUS
    <3>2. start \in Seq(Line) /\ past \in Seq(Line) /\ nested \in BOOLEAN
      BY <3>1 DEF EdInit
    <3>3. unsaved \in {"no", "altered", "told", "untold"}
      BY DEF EdInit
    <3> QED
      BY <3>2, <3>3 DEF SeenOK
  <2> QED
    BY <2>1, <2>2, InitHasLines, InitHasFlags DEF AllInv
<1>2. AllInv /\ [EdNext]_vars => AllInv'
  <2> SUFFICES ASSUME AllInv, [EdNext]_vars PROVE AllInv'
    OBVIOUS
  <2>1. LineInv'
    BY StepKeepsLines DEF AllInv, FlagsOK
  <2>2. FlagsOK'
    BY StepKeepsFlags DEF AllInv
  <2>3. NotedInv'
    BY StepKeepsNoted DEF AllInv
  <2>4. SeenOK'
    BY StepKeepsSeen DEF AllInv
  <2> QED
    BY <2>1, <2>2, <2>3, <2>4 DEF AllInv
<1> QED
  BY <1>1, <1>2, PTL DEF EdSpec

\* No line is in the buffer, or in what undo would make of it, twice, and all are
\* lines that the temporary file has: of append, delete, change, join, move, copy,
\* substitute, read, global commands and undo, in whatever order, none makes two of
\* a line.
THEOREM EdTyped == EdSpec => []EdTypeOK
<1>1. ASSUME AllInv PROVE EdTypeOK
  <2>1. MaxLine \in Nat /\ tline \in Nat /\ tline \in 0..MaxLine
    BY <1>1, EdAssumption DEF AllInv, LineInv
  <2>2. ASSUME NEW b, NEW m, NEW nm, NEW mt, NEW t \in Nat, t <= MaxLine,
               Kept(b, m, nm, mt, t, origin, anymarks)
        PROVE  /\ b \in Seq(Line) /\ IsInjective(b) /\ m \subseteq ToSet(b)
               /\ nm \in [Name -> 0..MaxLine] /\ \A l \in ToSet(b) : l <= t
    <3>1. b \in Seq(1..t) /\ nm \in [Name -> 0..t]
      BY <2>2 DEF Kept
    <3>2. ToSet(b) \subseteq 1..t
      BY <3>1, ElementsOf
    <3>3. 1..t \subseteq Line /\ 0..t \subseteq 0..MaxLine
      BY <2>1, <2>2 DEF Line
    <3>4. b \in Seq(Line)
      BY <3>1, <3>2, <3>3, SeqOfElements
    <3>5. nm \in [Name -> 0..MaxLine]
      BY <3>1, <3>3
    <3>6. \A l \in ToSet(b) : l <= t
      BY <3>2
    <3> QED
      BY <2>2, <3>4, <3>5, <3>6 DEF Kept
  <2>3. /\ buf \in Seq(Line) /\ IsInjective(buf) /\ bits \subseteq ToSet(buf)
        /\ names \in [Name -> 0..MaxLine] /\ \A l \in ToSet(buf) : l <= tline
    BY <1>1, <2>1, <2>2 DEF AllInv, LineInv
  <2>4. /\ und.buf \in Seq(Line) /\ IsInjective(und.buf) /\ und.bits \subseteq ToSet(und.buf)
        /\ \A l \in ToSet(und.buf) : l <= tline
    BY <1>1, <2>1, <2>2 DEF AllInv, LineInv
  <2>5. {fchange, anymarks, grown, wild, nested} \subseteq BOOLEAN
    BY <1>1 DEF AllInv, FlagsOK, SeenOK
  <2>6. /\ {start, past} \subseteq Seq(Line)
        /\ unsaved \in {"no", "altered", "told", "untold"}
        /\ mode \in {"command", "global", "list", "crashed"}
        /\ left \in 0..ListLen
    BY <1>1 DEF AllInv, FlagsOK, SeenOK
  <2> QED
    BY <2>1, <2>3, <2>4, <2>5, <2>6 DEF EdTypeOK
<1> QED
  BY <1>1, EdAlwaysAll, PTL

\* A name stands for the line it was given to as long as there is one, through
\* substitution, move and undo, and never for another.
THEOREM EdNamesFollow == EdSpec => []NamesFollowLines
<1>1. AllInv => NamesFollowLines
  BY DEF AllInv, LineInv, Kept, NamesFollowLines
<1> QED
  BY <1>1, EdAlwaysAll, PTL

\* fchange, which q looks at, tells of every alteration since the last e, whole w or
\* warning, but for what u, r into an emptied buffer and an interrupted r make of it
\* until the next one.
THEOREM EdNotes == EdSpec => []AlterationsNoted
<1>1. AllInv => AlterationsNoted
  BY DEF AllInv, NotedInv, AlterationsNoted
<1> QED
  BY <1>1, EdAlwaysAll, PTL

\* What move() and gdelete() do in place is what was asked for, whatever the buffer
\* and however many lines are moved or have a mark.
THEOREM EdInPlace == EdSpec => []InPlaceSame
<1>1. ASSUME AllInv PROVE InPlaceSame
  <2>1. buf \in Seq(1..tline)
    BY <1>1, BufTyped DEF AllInv
  <2>2. ASSUME NEW i \in 1..Len(buf), NEW j \in i..Len(buf), NEW adt \in 0..Len(buf),
               adt \notin i..j
        PROVE  Rotated(buf, adt, i, j + 1) =
                   Splice(Cut(buf, i, j), IF adt < i THEN adt ELSE adt - (j - i + 1),
                          SubSeq(buf, i, j))
    <3>1. adt < i \/ adt > j
      <4>1. Len(buf) \in Nat
        BY <2>1, LenProperties
      <4> QED
        BY <2>2, <4>1
    <3>2. PICK at : at = IF adt < i THEN adt ELSE adt - (j - i + 1)
      OBVIOUS
    <3>3. Rotated(buf, adt, i, j + 1) = Splice(Cut(buf, i, j), at, SubSeq(buf, i, j))
      BY <2>1, <3>1, <3>2, RotatedSame
    <3> QED
      BY <3>2, <3>3
  <2>3. ASSUME NEW S \in SUBSET ToSet(buf), S # {}
        PROVE  GDelete(buf, S) = Without(buf, S)
    <3>1. PICK x \in S : x \in ToSet(buf)
      BY <2>3
    <3>2. \E i \in 1..Len(buf) : buf[i] = x
      BY <2>1, <3>1, ElementsOf
    <3>3. \E i \in 1..Len(buf) : buf[i] \in S
      BY <3>2
    <3> QED
      BY <2>1, <3>3, GDeleteSame
  <2> QED
    BY <2>2, <2>3 DEF InPlaceSame
<1> QED
  BY <1>1, EdAlwaysAll, PTL

\* A global command comes to its end: each turn takes a mark away, and nothing in
\* the list, undo included, adds one.
THEOREM EdShrinks == EdSpec => GlobalShrinks
<1>1. ASSUME AllInv, AllInv', [EdNext]_vars
      PROVE  LET marks == Cardinality(bits) + Cardinality(und.bits)
                 marks2 == Cardinality(bits') + Cardinality(und'.bits)
             IN  /\ GlobalLine => marks2 < marks
                 /\ mode = "list" => marks2 <= marks
  <2>1. /\ IsFiniteSet(bits) /\ IsFiniteSet(und.bits)
        /\ Cardinality(bits) \in Nat /\ Cardinality(und.bits) \in Nat
    BY <1>1, MarksFinite DEF AllInv
  <2>2. ASSUME GlobalLine
        PROVE  Cardinality(bits') + Cardinality(und'.bits)
                   < Cardinality(bits) + Cardinality(und.bits)
    <3>1. bits # {} /\ bits' = bits \ {NextMarked} /\ und' = und
      BY <2>2 DEF GlobalLine
    <3>2. NextMarked \in bits
      BY <1>1, <3>1, NextHasMark DEF AllInv
    <3>3. Cardinality(bits') = Cardinality(bits) - 1
      BY <2>1, <3>1, <3>2, FS_RemoveElement
    <3> QED
      BY <2>1, <3>1, <3>3
  <2>3. ASSUME mode = "list"
        PROVE  Cardinality(bits') + Cardinality(und'.bits)
                   <= Cardinality(bits) + Cardinality(und.bits)
    <3>1. CASE bits' \subseteq bits /\ und'.bits = und.bits
      <4>1. Cardinality(bits') <= Cardinality(bits) /\ Cardinality(bits') \in Nat
        BY <2>1, <3>1, FS_Subset, FS_CardinalityType
      <4> QED
        BY <2>1, <3>1, <4>1
    <3>2. CASE bits' = und.bits /\ und'.bits = bits
      BY <2>1, <3>2
    <3>3. CASE bits' = {} /\ und'.bits = {}
      BY <2>1, <3>3, FS_EmptySet
    <3> QED
      BY <1>1, <2>3, <3>1, <3>2, <3>3, ListMarks
  <2> QED
    BY <2>2, <2>3
<1>2. AllInv /\ AllInv' /\ [EdNext]_vars =>
          [LET marks == Cardinality(bits) + Cardinality(und.bits)
               marks2 == Cardinality(bits') + Cardinality(und'.bits)
           IN  /\ GlobalLine => marks2 < marks
               /\ mode = "list" => marks2 <= marks]_vars
  BY <1>1
<1> QED
  BY <1>2, EdAlwaysAll, PTL DEF EdSpec, GlobalShrinks

=============================================================================
