----------------------------- MODULE Shl_proofs -----------------------------
(***************************************************************************)
(* shl keeps hold of its layers, for every number of them and whatever     *)
(* order they are deleted, end and are waited for in: none is forgotten,   *)
(* input has a reader, and a layer that is blocked is not heard.           *)
(***************************************************************************)
EXTENDS Shl, SequenceLemmas

\* Nothing is in the list twice.
Distinct(c) == \A i, j \in DOMAIN c : c[i] = c[j] => i = j

\* The list holds a layer once, and only such as have a terminal and a process.
ListSound ==
    /\ Distinct(chain)
    /\ Listed \subseteq open
    /\ NoLayerForgotten

Behind(c, l) == {m \in ToSet(c) : \E i, j \in DOMAIN c : i < j /\ c[i] = l /\ c[j] = m}

\* setprev() is right to take the list to be empty: what is behind the current
\* layer in the list are deleted layers.
OnlyToldBehind == Behind(chain, lcur) \subseteq told

\* In a layer the last entry of the array is its own; when the layer has gone the
\* entry is closed and the loop ends.
LastEntryIsCurrent ==
    mode = "layer" =>
        /\ pfd # <<>>
        /\ pfd[nfds] = lcur \/ pfd[nfds] \notin open
        /\ ~endloop => pfd[nfds] = lcur /\ lcur \in open

\* Input is worked off before any layer is waited for, and what ends the loop is
\* the last that happens at the entry of the input.
InputFirst ==
    InDoio =>
        /\ endloop \/ step = "await" => revents[0] = {}
        /\ step = "poll" => ~endloop

ListInv == ListSound /\ OnlyToldBehind
LoopInv == LastEntryIsCurrent /\ InputFirst
ShlInv == ShlTypeOK /\ ListInv /\ LoopInv

-----------------------------------------------------------------------------
(* Lists of layers *)

LEMMA PlaceFacts ==
    ASSUME NEW c \in Seq(Layer), NEW l \in ToSet(c)
    PROVE  PlaceIn(c, l) \in 1..Len(c) /\ c[PlaceIn(c, l)] = l
<1>1. DOMAIN c = 1..Len(c)
  BY LenProperties
<1>2. \E i \in DOMAIN c : c[i] = l
  BY DEF ToSet
<1> QED
  BY <1>1, <1>2 DEF PlaceIn

LEMMA WithoutFacts ==
    ASSUME NEW c \in Seq(Layer), Distinct(c), NEW l \in ToSet(c)
    PROVE  /\ Without(c, l) \in Seq(Layer) /\ Len(Without(c, l)) = Len(c) - 1
           /\ ToSet(Without(c, l)) = ToSet(c) \ {l}
           /\ Distinct(Without(c, l))
           /\ \A m : Behind(Without(c, l), m) \subseteq Behind(c, m)
<1>1. PICK n \in Nat : n = Len(c)
  BY LenProperties
<1>2. PICK i \in 1..n : i = PlaceIn(c, l) /\ c[i] = l
  BY <1>1, PlaceFacts
<1>3. PICK w : w = Without(c, l)
  OBVIOUS
<1>4. w = RemoveAt(c, i)
  BY <1>2, <1>3 DEF Without
<1>5. /\ w \in Seq(Layer) /\ Len(w) = n - 1 /\ DOMAIN w = 1..n - 1
      /\ \A k \in 1..n - 1 : w[k] = IF k < i THEN c[k] ELSE c[k + 1]
  BY <1>1, <1>4, RemoveAtFacts
<1>6. DOMAIN c = 1..n
  BY <1>1, LenProperties
<1>7. PICK f : f = [k \in 1..n - 1 |-> IF k < i THEN k ELSE k + 1]
  OBVIOUS
<1>8. \A k \in 1..n - 1 : f[k] \in 1..n /\ f[k] # i /\ w[k] = c[f[k]]
  BY <1>5, <1>7
<1>9. \A k, j \in 1..n - 1 : (f[k] = f[j] => k = j) /\ (k < j => f[k] < f[j])
  <2>1. \A k \in 1..n - 1 : (k < i => f[k] = k) /\ (~(k < i) => f[k] = k + 1)
    BY <1>7
  <2>2. ASSUME NEW k \in 1..n - 1, NEW j \in 1..n - 1
        PROVE  (f[k] = f[j] => k = j) /\ (k < j => f[k] < f[j])
    <3>1. PICK a, b : a = f[k] /\ b = f[j]
      OBVIOUS
    <3>2. (k < i => a = k) /\ (~(k < i) => a = k + 1)
      BY <2>1, <3>1
    <3>3. (j < i => b = j) /\ (~(j < i) => b = j + 1)
      BY <2>1, <3>1
    <3>4. i \in Int /\ k \in Int /\ j \in Int
      OBVIOUS
    <3>5. (a = b => k = j) /\ (k < j => a < b)
      BY <3>2, <3>3, <3>4
    <3> QED
      BY <3>1, <3>5
  <2> QED
    BY <2>2
<1>10. Distinct(w)
  <2>1. ASSUME NEW k \in 1..n - 1, NEW j \in 1..n - 1, w[k] = w[j]
        PROVE  k = j
    <3>1. f[k] \in DOMAIN c /\ f[j] \in DOMAIN c /\ c[f[k]] = c[f[j]]
      BY <1>6, <1>8, <2>1
    <3>2. f[k] = f[j]
      BY <3>1 DEF Distinct
    <3> QED
      BY <1>9, <3>2
  <2>2. DOMAIN w = 1..n - 1
    BY <1>5
  <2> QED
    BY <2>1, <2>2 DEF Distinct
<1>11. ToSet(w) = ToSet(c) \ {l}
  <2>1. \A k \in 1..n - 1 : w[k] \in ToSet(c) \ {l}
    BY <1>2, <1>6, <1>8 DEF ToSet, Distinct
  <2>2. ASSUME NEW k \in 1..n, c[k] # l PROVE \E j \in 1..n - 1 : w[j] = c[k]
    <3>1. CASE k < i
      <4>1. k \in 1..n - 1 /\ w[k] = c[k]
        BY <1>5, <3>1
      <4> QED
        BY <4>1
    <3>2. CASE i < k
      <4>1. k - 1 \in 1..n - 1 /\ ~(k - 1 < i) /\ k - 1 + 1 = k
        BY <3>2
      <4>2. w[k - 1] = c[k]
        BY <1>5, <4>1
      <4> QED
        BY <4>1, <4>2
    <3>3. k # i
      BY <1>2, <2>2
    <3> QED
      BY <3>1, <3>2, <3>3
  <2>3. \A k \in 1..n : c[k] # l => c[k] \in ToSet(w)
    BY <1>5, <2>2 DEF ToSet
  <2>4. ToSet(c) = {c[k] : k \in 1..n} /\ ToSet(w) = {w[k] : k \in 1..n - 1}
    BY <1>5, <1>6 DEF ToSet
  <2> QED
    BY <2>1, <2>3, <2>4
<1>12. ASSUME NEW m PROVE Behind(w, m) \subseteq Behind(c, m)
  <2>1. SUFFICES ASSUME NEW x \in Behind(w, m) PROVE x \in Behind(c, m)
    OBVIOUS
  <2>2. PICK k, j \in 1..n - 1 : k < j /\ w[k] = m /\ w[j] = x
    BY <1>5 DEF Behind
  <2>3. f[k] \in 1..n /\ f[j] \in 1..n /\ f[k] < f[j] /\ c[f[k]] = m /\ c[f[j]] = x
    BY <1>8, <1>9, <2>2
  <2>4. x \in ToSet(c)
    BY <1>6, <2>3 DEF ToSet
  <2> QED
    BY <1>6, <2>3, <2>4 DEF Behind
<1> QED
  BY <1>1, <1>3, <1>5, <1>10, <1>11, <1>12

\* A layer that is put at the end of the list has nothing behind it.
LEMMA AtTheEnd ==
    ASSUME NEW c \in Seq(Layer), Distinct(c), NEW l \in Layer \ ToSet(c)
    PROVE  /\ Append(c, l) \in Seq(Layer) /\ Append(c, l) # <<>>
           /\ Len(Append(c, l)) = Len(c) + 1
           /\ Append(c, l)[Len(c) + 1] = l
           /\ ToSet(Append(c, l)) = ToSet(c) \cup {l}
           /\ Distinct(Append(c, l))
           /\ Behind(Append(c, l), l) = {}
<1>1. PICK n \in Nat : n = Len(c)
  BY LenProperties
<1>2. PICK a : a = Append(c, l)
  OBVIOUS
<1>3. /\ a \in Seq(Layer) /\ a # <<>> /\ Len(a) = n + 1 /\ DOMAIN a = 1..n + 1
      /\ a[n + 1] = l /\ \A j \in 1..n : a[j] = c[j]
  BY <1>1, <1>2, AppendFacts
<1>4. DOMAIN c = 1..n
  BY <1>1, LenProperties
<1>5. \A j \in 1..n : a[j] \in ToSet(c) /\ a[j] # l
  BY <1>3, <1>4 DEF ToSet
<1>6. \A j \in 1..n + 1 : j \in 1..n \/ j = n + 1
  OBVIOUS
<1>7. ToSet(a) = ToSet(c) \cup {l}
  <2>1. \A j \in 1..n : j \in 1..n + 1
    OBVIOUS
  <2>2. n + 1 \in 1..n + 1
    OBVIOUS
  <2> QED
    BY <1>3, <1>4, <1>5, <1>6, <2>1, <2>2 DEF ToSet
<1>8. Distinct(a)
  BY <1>3, <1>4, <1>5, <1>6 DEF Distinct
<1>9. Behind(a, l) = {}
  <2>1. \A i, j \in 1..n + 1 : i < j => i \in 1..n
    OBVIOUS
  <2> QED
    BY <1>3, <1>5, <2>1 DEF Behind
<1> QED
  BY <1>1, <1>2, <1>3, <1>7, <1>8, <1>9

\* Behind the layer before l there are l and what is behind it.
LEMMA BeforeFacts ==
    ASSUME NEW c \in Seq(Layer), Distinct(c), NEW l \in ToSet(c)
    PROVE  \/ /\ Before(c, l) = NoLayer /\ c[1] = l /\ 1 \in 1..Len(c)
              /\ ToSet(c) \subseteq Behind(c, l) \cup {l}
           \/ /\ Before(c, l) \in ToSet(c) \ {l, NoLayer}
              /\ Behind(c, Before(c, l)) \subseteq Behind(c, l) \cup {l}
<1>1. PICK n \in Nat : n = Len(c)
  BY LenProperties
<1>2. DOMAIN c = 1..n
  BY <1>1, LenProperties
<1>3. PICK i \in 1..n : i = PlaceIn(c, l) /\ c[i] = l
  BY <1>1, PlaceFacts
<1>4. ASSUME NEW j \in 1..n, j > i PROVE c[j] \in Behind(c, l)
  BY <1>2, <1>3, <1>4 DEF Behind, ToSet
<1>5. CASE i = 1
  <2>1. \A j \in 1..n : j > i \/ j = i
    BY <1>5
  <2>2. ToSet(c) \subseteq Behind(c, l) \cup {l}
    BY <1>2, <1>3, <1>4, <2>1 DEF ToSet
  <2> QED
    BY <1>1, <1>3, <1>5, <2>2 DEF Before
<1>6. CASE i # 1
  <2>1. i - 1 \in 1..n /\ i - 1 # i
    BY <1>6
  <2>2. Before(c, l) = c[i - 1]
    BY <1>3, <1>6 DEF Before
  <2>3. c[i - 1] \in ToSet(c) /\ c[i - 1] # l /\ c[i - 1] \in Layer
    BY <1>1, <1>2, <1>3, <2>1, ElementOfSeq DEF ToSet, Distinct
  <2>4. ASSUME NEW x \in Behind(c, c[i - 1]) PROVE x \in Behind(c, l) \cup {l}
    <3>1. PICK k, j \in 1..n : k < j /\ c[k] = c[i - 1] /\ c[j] = x
      BY <1>2 DEF Behind
    <3>2. k = i - 1
      BY <1>2, <2>1, <3>1 DEF Distinct
    <3>3. j > i \/ j = i
      BY <3>1, <3>2
    <3> QED
      BY <1>3, <1>4, <3>1, <3>3
  <2> QED
    BY <2>2, <2>3, <2>4, ShlAssumption
<1> QED
  BY <1>5, <1>6

-----------------------------------------------------------------------------
(* The loop *)

LEMMA TurnFacts ==
    ASSUME ShlTypeOK, Working
    PROVE  /\ Turn \in 0..Len(pfd) /\ revents[Turn] # {}
           /\ Turn # 0 => revents[0] = {}
<1>1. PICK n \in Nat : n = Len(pfd)
  BY LenProperties DEF ShlTypeOK
<1>2. PICK T : T = {k \in 0..n : revents[k] # {}}
  OBVIOUS
<1>3. T \subseteq Nat /\ T # {}
  BY <1>1, <1>2 DEF Working, nfds
<1>4. \E x \in T : \A y \in T : x <= y
  BY <1>3, LeastNumber
<1>5. Turn = CHOOSE x \in T : \A y \in T : x <= y
  BY <1>1, <1>2 DEF Turn, nfds, Min
<1>6. Turn \in T /\ \A y \in T : Turn <= y
  BY <1>4, <1>5
<1>7. Turn # 0 => 0 \notin T
  BY <1>2, <1>6
<1>8. 0 \in 0..n
  BY <1>1
<1> QED
  BY <1>1, <1>2, <1>6, <1>7, <1>8

LEMMA WorkedFacts ==
    ASSUME ShlTypeOK, NEW k \in 0..Len(pfd), Worked(k)
    PROVE  /\ revents' \in [0..Len(pfd) -> SUBSET {"in", "hup"}]
           /\ revents[0] = {} \/ k = 0 => revents'[0] = {}
<1>1. PICK n \in Nat : n = Len(pfd)
  BY LenProperties DEF ShlTypeOK
<1>2. revents \in [0..n -> SUBSET {"in", "hup"}] /\ k \in 0..n /\ 0 \in 0..n
  BY <1>1 DEF ShlTypeOK
<1>3. revents' = [revents EXCEPT ![k] = {}]
  BY DEF Worked
<1> QED
  BY <1>1, <1>2, <1>3

LEMMA DoioFacts ==
    ASSUME NEW c \in Seq(Layer), NEW m \in {"prompt", "layer"}, Doio(m, c)
    PROVE  /\ mode' = m /\ step' = "poll" /\ endloop' = FALSE
           /\ pfd' = c /\ events' \subseteq 1..Len(c)
           /\ revents' \in [0..Len(c) -> SUBSET {"in", "hup"}]
           /\ InputFirst'
           /\ m = "prompt" => LastEntryIsCurrent'
<1>1. PICK n \in Nat : n = Len(c)
  BY LenProperties
<1>2. revents' = [k \in 0..n |-> {}] /\ 0 \in 0..n
  BY <1>1 DEF Doio
<1>3. mode' = m /\ step' = "poll" /\ endloop' = FALSE /\ pfd' = c /\ events' = 1..n
  BY <1>1 DEF Doio
<1> QED
  BY <1>1, <1>2, <1>3 DEF InputFirst, InDoio, LastEntryIsCurrent

\* A step that leaves the list alone and gives nobody a process or waits for one.
LEMMA ListKept ==
    ASSUME ListInv, UNCHANGED <<chain, lcur, open>>, Children' = Children,
           told \subseteq told'
    PROVE  ListInv'
<1>1. Listed' = Listed /\ Behind(chain, lcur)' = Behind(chain, lcur)
  BY DEF Listed, Behind, ToSet
<1> QED
  BY <1>1 DEF ListInv, ListSound, OnlyToldBehind, NoLayerForgotten, Distinct

\* Back to the prompt: the array is made from the list.
LEMMA PromptStarts ==
    ASSUME ShlTypeOK, Prompt(chain), UNCHANGED <<chain, lcount>>,
           lcur' \in Layer \cup {NoLayer}, blk' \in [Layer -> BOOLEAN],
           hadquit' \in BOOLEAN, UNCHANGED <<proc, tty, out, open>>,
           told' \subseteq Layer
    PROVE  ShlTypeOK' /\ LoopInv'
<1>1. chain \in Seq(Layer) /\ Doio("prompt", chain) /\ cmdbuf' = "none"
  BY DEF ShlTypeOK, Prompt
<1>2. /\ mode' = "prompt" /\ step' = "poll" /\ endloop' = FALSE
      /\ pfd' = chain /\ events' \subseteq 1..Len(chain)
      /\ revents' \in [0..Len(chain) -> SUBSET {"in", "hup"}]
      /\ InputFirst' /\ LastEntryIsCurrent'
  BY <1>1, DoioFacts
<1> QED
  BY <1>1, <1>2 DEF ShlTypeOK, LoopInv

-----------------------------------------------------------------------------
(* The steps of the loop but the reaping *)

LEMMA LoopSteps ==
    ASSUME ShlInv, Poll \/ DoInput \/ DoOutput \/ HangUp \/ PollAgain
    PROVE  ShlInv'
<1> USE DEF ShlInv
<1>1. /\ UNCHANGED <<chain, lcount, lcur, blk, hadquit, pfd, proc, tty, open, told>>
      /\ mode' \in {mode, "crashed"}
  BY DEF Poll, DoInput, DoOutput, HangUp, PollAgain, list, layers
<1>2. ListInv'
  <2>1. Children' = Children
    BY <1>1 DEF Children
  <2> QED
    BY <1>1, <2>1, ListKept
<1>3. LastEntryIsCurrent'
  <2>1. endloop' = endloop \/ endloop' = TRUE
    BY DEF Poll, DoInput, DoOutput, HangUp, PollAgain
  <2>2. nfds' = nfds
    BY <1>1 DEF nfds
  <2> QED
    BY <1>1, <2>1, <2>2 DEF LoopInv, LastEntryIsCurrent
<1>4. CASE Poll
  <2>1. PICK typed \in SUBSET {"in"} :
            revents' = [k \in 0..nfds |-> IF k = 0 THEN typed ELSE Reported(k)]
    BY <1>4 DEF Poll
  <2>2. revents' \in [0..Len(pfd) -> SUBSET {"in", "hup"}]
    BY <2>1 DEF nfds, Reported
  <2>3. ShlTypeOK'
    BY <1>1, <1>4, <2>2 DEF Poll, ShlTypeOK, list, layers
  <2>4. InputFirst'
    BY <1>4 DEF Poll, LoopInv, InputFirst, InDoio
  <2> QED
    BY <1>2, <1>3, <2>3, <2>4 DEF LoopInv
<1>5. CASE DoInput
  <2>1. 0 \in 0..Len(pfd)
    BY LenProperties DEF ShlTypeOK
  <2>2. revents' \in [0..Len(pfd) -> SUBSET {"in", "hup"}] /\ revents'[0] = {}
    BY <1>5, <2>1, WorkedFacts DEF DoInput
  <2>3. ShlTypeOK'
    BY <1>1, <1>5, <2>2 DEF DoInput, ShlTypeOK, layers
  <2>4. InputFirst'
    BY <1>5, <2>2 DEF DoInput, Working, InputFirst, InDoio
  <2> QED
    BY <1>2, <1>3, <2>3, <2>4 DEF LoopInv
<1>6. CASE DoOutput
  <2>1. Turn \in 0..Len(pfd) /\ revents[0] = {}
    BY <1>6, TurnFacts DEF DoOutput
  <2>2. UNCHANGED revents \/ Worked(Turn)
    BY <1>6 DEF DoOutput
  <2>3. revents' \in [0..Len(pfd) -> SUBSET {"in", "hup"}] /\ revents'[0] = {}
    BY <2>1, <2>2, WorkedFacts DEF ShlTypeOK
  <2>4. out' \in [Layer -> BOOLEAN] /\ events' \subseteq 1..Len(pfd)
    <3>1. out' = out \/ \E l : out' = [out EXCEPT ![l] = @ /\ l \notin open]
      BY <1>6 DEF DoOutput
    <3>2. out' \in [Layer -> BOOLEAN]
      BY <3>1, Zenon DEF ShlTypeOK
    <3> QED
      BY <1>6, <3>2 DEF DoOutput, ShlTypeOK
  <2>5. ShlTypeOK'
    BY <1>1, <1>6, <2>3, <2>4 DEF DoOutput, ShlTypeOK
  <2>6. InputFirst'
    BY <1>6, <2>3 DEF DoOutput, Working, InputFirst, InDoio
  <2> QED
    BY <1>2, <1>3, <2>5, <2>6 DEF LoopInv
<1>7. CASE HangUp
  <2>1. Turn \in 0..Len(pfd) /\ revents[0] = {}
    BY <1>7, TurnFacts DEF HangUp
  <2>2. revents' \in [0..Len(pfd) -> SUBSET {"in", "hup"}] /\ revents'[0] = {}
    BY <1>7, <2>1, WorkedFacts DEF HangUp
  <2>3. ShlTypeOK'
    BY <1>1, <1>7, <2>2 DEF HangUp, ShlTypeOK, layers
  <2>4. InputFirst'
    BY <1>7, <2>2 DEF HangUp, InputFirst, InDoio
  <2> QED
    BY <1>2, <1>3, <2>3, <2>4 DEF LoopInv
<1>8. CASE PollAgain
  <2>1. ShlTypeOK'
    BY <1>1, <1>8 DEF PollAgain, ShlTypeOK, layers
  <2>2. InputFirst'
    BY <1>8 DEF PollAgain, InputFirst, InDoio
  <2> QED
    BY <1>2, <1>3, <2>1, <2>2 DEF LoopInv
<1> QED
  BY <1>4, <1>5, <1>6, <1>7, <1>8

\* A layer of the list has been waited for: it is closed and taken off the list,
\* and when it was the current one another is, if there is one.
LEMMA LayerReaped ==
    ASSUME ShlInv, NEW l \in Listed, Lfree(l),
           proc' = [proc EXCEPT ![l] = "reaped"], UNCHANGED told
    PROVE  /\ ListInv'
           /\ chain' \in Seq(Layer) /\ lcount' \in Len(chain')..MaxLayer
           /\ lcur' \in Layer \cup {NoLayer}
           /\ open' = open \ {l}
           /\ l # lcur => lcur' = lcur
<1>1. /\ chain \in Seq(Layer) /\ Distinct(chain) /\ l \in ToSet(chain) /\ l \in Layer
      /\ Listed \subseteq open /\ Listed \subseteq Children
      /\ Children \subseteq Listed \cup told /\ Behind(chain, lcur) \subseteq told
      /\ chain # <<>> => lcur \in Listed
  BY DEF ShlInv, ShlTypeOK, ListInv, ListSound, NoLayerForgotten, OnlyToldBehind,
         Listed, Children
<1>2. chain # <<>> /\ lcur \in Listed /\ lcur \in Layer
  <2>1. ToSet(<<>>) = {}
    BY DEF ToSet
  <2> QED
    BY <1>1, <2>1 DEF Children
<1>3. PICK w : w = Without(chain, l)
  OBVIOUS
<1>4. /\ w \in Seq(Layer) /\ Len(w) = Len(chain) - 1 /\ ToSet(w) = Listed \ {l}
      /\ Distinct(w) /\ \A m : Behind(w, m) \subseteq Behind(chain, m)
  BY <1>1, <1>3, WithoutFacts DEF Listed
<1>5. Children' = Children \ {l} /\ open' = open \ {l}
  <2>1. proc \in [Layer -> {"none", "run", "zombie", "reaped"}]
    BY DEF ShlInv, ShlTypeOK
  <2> QED
    BY <1>1, <2>1 DEF Lfree, Children
<1>6. PICK n \in Nat : n = Len(chain)
  BY <1>1, LenProperties
<1>7. lcount \in n..MaxLayer /\ n # 0 /\ MaxLayer \in Nat
  BY <1>1, <1>2, <1>6, EmptySeq, ShlAssumption DEF ShlInv, ShlTypeOK
<1>8. lcount' = lcount - 1 /\ lcount' \in 0..MaxLayer /\ lcount' \in n - 1..MaxLayer
  BY <1>7 DEF Lfree
<1>9. CASE l # lcur
  <2>1. chain' = w /\ lcur' = lcur
    BY <1>3, <1>9 DEF Lfree
  <2>2. Listed' = Listed \ {l} /\ lcur' \in Listed' /\ chain' # <<>>
    <3>1. Listed' = Listed \ {l}
      BY <1>4, <2>1 DEF Listed
    <3>2. ToSet(<<>>) = {}
      BY DEF ToSet
    <3> QED
      BY <1>2, <1>9, <2>1, <3>1, <3>2 DEF Listed
  <2>3. ListSound'
    BY <1>1, <1>4, <1>5, <2>1, <2>2 DEF ListSound, NoLayerForgotten
  <2>4. OnlyToldBehind'
    BY <1>1, <1>4, <2>1 DEF OnlyToldBehind
  <2> QED
    BY <1>2, <1>4, <1>5, <1>6, <1>8, <1>9, <2>1, <2>3, <2>4 DEF ListInv
<1>10. CASE l = lcur /\ Before(chain, l) = NoLayer
  <2>1. Listed \subseteq Behind(chain, l) \cup {l}
    BY <1>1, <1>10, BeforeFacts DEF Listed
  <2>2. chain' = <<>> /\ lcur' = NoLayer
    BY <1>10 DEF Lfree
  <2>3. Listed' = {} /\ Behind(chain, lcur)' = {} /\ chain' \in Seq(Layer)
        /\ Len(chain') = 0 /\ Distinct(chain)'
    <3>1. Listed' = {}
      BY <2>2 DEF Listed, ToSet
    <3>2. Behind(chain, lcur)' = {}
      BY <3>1 DEF Behind, Listed
    <3>3. chain' \in Seq(Layer) /\ Len(chain') = 0
      BY <2>2, EmptySeq
    <3>4. Distinct(chain)'
      BY <2>2 DEF Distinct
    <3> QED
      BY <3>1, <3>2, <3>3, <3>4
  <2>4. ListSound'
    BY <1>1, <1>5, <1>10, <2>1, <2>2, <2>3 DEF ListSound, NoLayerForgotten
  <2>5. OnlyToldBehind'
    BY <2>3 DEF OnlyToldBehind
  <2> QED
    BY <1>5, <1>8, <1>10, <2>2, <2>3, <2>4, <2>5 DEF ListInv
<1>11. CASE l = lcur /\ Before(chain, l) # NoLayer
  <2>1. PICK b : b = Before(chain, l)
    OBVIOUS
  <2>2. b \in Listed \ {l} /\ Behind(chain, b) \subseteq Behind(chain, l) \cup {l}
    BY <1>1, <1>11, <2>1, BeforeFacts DEF Listed
  <2>3. chain' = w /\ lcur' = b
    BY <1>3, <1>11, <2>1 DEF Lfree
  <2>4. Listed' = Listed \ {l} /\ lcur' \in Listed' /\ chain' # <<>> /\ b \in Layer
    <3>1. Listed' = Listed \ {l}
      BY <1>4, <2>3 DEF Listed
    <3>2. ToSet(<<>>) = {}
      BY DEF ToSet
    <3> QED
      BY <1>1, <2>2, <2>3, <3>1, <3>2 DEF Listed, Children
  <2>5. ListSound'
    BY <1>1, <1>4, <1>5, <2>3, <2>4 DEF ListSound, NoLayerForgotten
  <2>6. OnlyToldBehind'
    <3>1. Behind(w, b) \subseteq ToSet(w)
      BY DEF Behind
    <3> QED
      BY <1>1, <1>4, <1>11, <2>2, <2>3, <3>1 DEF OnlyToldBehind
  <2> QED
    BY <1>4, <1>5, <1>6, <1>8, <1>11, <2>3, <2>4, <2>5, <2>6 DEF ListInv
<1> QED
  BY <1>9, <1>10, <1>11

LEMMA AwaitSteps ==
    ASSUME ShlInv, Await
    PROVE  ShlInv'
<1> USE DEF ShlInv
<1>1. /\ UNCHANGED <<blk, hadquit, mode, cmdbuf, pfd, events, revents, tty, out, told>>
      /\ InDoio /\ step = "await" /\ revents[0] = {} /\ nfds' = nfds
  BY DEF Await, LoopInv, InputFirst, nfds
<1>2. ASSUME step' \in {"work", "await"} PROVE InputFirst'
  BY <1>1, <1>2 DEF InputFirst
<1>3. ASSUME NEW l \in Listed, proc' = [proc EXCEPT ![l] = "reaped"], Lfree(l),
             endloop' = (endloop \/ l = lcur), step' = "work"
      PROVE  ShlInv'
  <2>1. /\ ListInv'
        /\ chain' \in Seq(Layer) /\ lcount' \in Len(chain')..MaxLayer
        /\ lcur' \in Layer \cup {NoLayer}
        /\ open' = open \ {l}
        /\ l # lcur => lcur' = lcur
    BY <1>1, <1>3, LayerReaped
  <2>2. proc' \in [Layer -> {"none", "run", "zombie", "reaped"}]
    <3>1. proc \in [Layer -> {"none", "run", "zombie", "reaped"}]
      BY DEF ShlTypeOK
    <3> QED
      BY <1>3, <3>1
  <2>3. open' \subseteq Layer /\ endloop' \in BOOLEAN
    <3>1. endloop \in BOOLEAN /\ open \subseteq Layer
      BY DEF ShlTypeOK
    <3>2. open' = open \ {l}
      BY <2>1
    <3>3. open' \subseteq Layer
      BY <3>1, <3>2
    <3> QED
      BY <1>3, <3>1, <3>3
  <2>4. ShlTypeOK'
    BY <1>1, <1>3, <2>1, <2>2, <2>3 DEF ShlTypeOK
  <2>5. LastEntryIsCurrent'
    <3>1. open' = open \ {l} /\ (l # lcur => lcur' = lcur)
      BY <2>1
    <3>2. ~endloop' => ~endloop /\ l # lcur
      BY <1>3
    <3>3. UNCHANGED <<mode, pfd, nfds>>
      BY <1>1
    <3> QED
      BY <3>1, <3>2, <3>3 DEF LoopInv, LastEntryIsCurrent
  <2> QED
    BY <1>2, <1>3, <2>1, <2>4, <2>5 DEF LoopInv
<1>4. ASSUME NEW l \in Children, l \notin Listed, proc' = [proc EXCEPT ![l] = "reaped"],
             UNCHANGED <<list, lcur, open, endloop, step>>
      PROVE  ShlInv'
  <2>1. UNCHANGED <<chain, lcount, lcur, open, endloop, step>>
    BY <1>4 DEF list
  <2>2. proc' \in [Layer -> {"none", "run", "zombie", "reaped"}] /\ Children' = Children \ {l}
    BY <1>4 DEF ShlTypeOK, Children
  <2>3. ListInv'
    <3>1. Listed' = Listed /\ Behind(chain, lcur)' = Behind(chain, lcur)
      BY <2>1 DEF Listed, Behind, ToSet
    <3> QED
      BY <1>1, <1>4, <2>1, <2>2, <3>1
         DEF ListInv, ListSound, OnlyToldBehind, NoLayerForgotten, Distinct
  <2>4. LastEntryIsCurrent'
    BY <1>1, <2>1 DEF LoopInv, LastEntryIsCurrent
  <2>5. ShlTypeOK'
    BY <1>1, <2>1, <2>2 DEF ShlTypeOK
  <2> QED
    BY <1>1, <1>2, <2>1, <2>3, <2>4, <2>5 DEF LoopInv
<1>5. ASSUME step' = "work", endloop' = (endloop \/ lcur = NoLayer),
             UNCHANGED <<list, lcur, open, proc>>
      PROVE  ShlInv'
  <2>1. UNCHANGED <<chain, lcount, lcur, open, proc>> /\ Children' = Children
    BY <1>5 DEF list, Children
  <2>2. ListInv'
    BY <1>1, <2>1, ListKept
  <2>3. LastEntryIsCurrent'
    BY <1>1, <1>5, <2>1 DEF LoopInv, LastEntryIsCurrent
  <2>4. ShlTypeOK'
    BY <1>1, <1>5, <2>1 DEF ShlTypeOK
  <2> QED
    BY <1>2, <1>5, <2>2, <2>3, <2>4 DEF LoopInv
<1> QED
  BY <1>3, <1>4, <1>5 DEF Await

LEMMA LeaveDoioSteps ==
    ASSUME ShlInv, LeaveDoio
    PROVE  ShlInv'
<1> USE DEF ShlInv
<1>1. /\ UNCHANGED <<chain, lcount, lcur, blk, hadquit, proc, tty, out, open, told>>
      /\ Children' = Children
  BY DEF LeaveDoio, list, layers, Children
<1>2. ListInv'
  BY <1>1, ListKept
<1>3. CASE Prompt(chain)
  BY <1>1, <1>2, <1>3, PromptStarts DEF ShlTypeOK
<1>4. CASE mode' = "command" /\ UNCHANGED <<cmdbuf, looping>>
  BY <1>1, <1>2, <1>4
     DEF ShlTypeOK, looping, LoopInv, LastEntryIsCurrent, InputFirst, InDoio
<1> QED
  BY <1>3, <1>4 DEF LeaveDoio

-----------------------------------------------------------------------------
(* The commands *)

\* A layer becomes the current one: it goes to the end of the list and the loop
\* begins with an array that ends in it.
LEMMA ResumeStarts ==
    ASSUME ShlInv, NEW l \in Layer, Resume(l),
           UNCHANGED <<blk, told>>, hadquit' \in BOOLEAN,
           proc' \in [Layer -> {"none", "run", "zombie", "reaped"}],
           tty' \in [Layer -> BOOLEAN], UNCHANGED out,
           open' = open \cup {l}, Children' = Children \cup {l},
           lcount' \in Len(chain')..MaxLayer
    PROVE  ShlInv'
<1>1. /\ chain \in Seq(Layer) /\ Distinct(chain) /\ Listed = ToSet(chain)
      /\ Listed \subseteq open /\ open \subseteq Layer
      /\ Listed \subseteq Children /\ Children \subseteq Listed \cup told
  BY DEF ShlInv, ShlTypeOK, ListInv, ListSound, NoLayerForgotten, Listed
<1>2. PICK w : w = Without(chain, l)
  OBVIOUS
<1>3. w \in Seq(Layer) /\ Distinct(w) /\ ToSet(w) = Listed \ {l}
  <2>1. CASE l \in Listed
    BY <1>1, <1>2, <2>1, WithoutFacts
  <2>2. CASE l \notin Listed
    BY <1>1, <1>2, <2>2 DEF Without
  <2> QED
    BY <2>1, <2>2
<1>4. PICK c : c = Append(w, l)
  OBVIOUS
<1>5. PICK n \in Nat : n = Len(w)
  BY <1>3, LenProperties
<1>6. /\ c \in Seq(Layer) /\ c # <<>> /\ Len(c) = n + 1 /\ c[n + 1] = l
      /\ ToSet(c) = Listed \cup {l} /\ Distinct(c) /\ Behind(c, l) = {}
  BY <1>3, <1>4, <1>5, AtTheEnd
<1>7. chain' = c /\ lcur' = l /\ Doio("layer", c) /\ UNCHANGED cmdbuf
  BY <1>2, <1>4 DEF Resume, Setcur
<1>8. /\ mode' = "layer" /\ step' = "poll" /\ endloop' = FALSE
      /\ pfd' = c /\ events' \subseteq 1..Len(c)
      /\ revents' \in [0..Len(c) -> SUBSET {"in", "hup"}]
      /\ InputFirst'
  BY <1>6, <1>7, DoioFacts
<1>9. ShlTypeOK'
  BY <1>1, <1>6, <1>7, <1>8 DEF ShlInv, ShlTypeOK
<1>10. LastEntryIsCurrent'
  BY <1>6, <1>7, <1>8 DEF LastEntryIsCurrent, nfds
<1>11. ListInv'
  <2>1. Listed' = Listed \cup {l}
    BY <1>6, <1>7 DEF Listed
  <2>2. ListSound'
    BY <1>1, <1>6, <1>7, <2>1 DEF ListSound, NoLayerForgotten
  <2>3. OnlyToldBehind'
    BY <1>6, <1>7 DEF OnlyToldBehind
  <2> QED
    BY <2>2, <2>3 DEF ListInv
<1> QED
  BY <1>8, <1>9, <1>10, <1>11 DEF ShlInv, LoopInv

LEMMA CreateSteps ==
    ASSUME ShlInv, Create
    PROVE  ShlInv'
<1>1. PICK l \in Layer :
        /\ proc[l] = "none" /\ Resume(l)
        /\ proc' = [proc EXCEPT ![l] = "run"]
        /\ tty' = [tty EXCEPT ![l] = TRUE]
        /\ open' = open \cup {l}
  BY DEF Create
<1>2. /\ proc' \in [Layer -> {"none", "run", "zombie", "reaped"}]
      /\ tty' \in [Layer -> BOOLEAN] /\ Children' = Children \cup {l}
      /\ hadquit' \in BOOLEAN /\ UNCHANGED <<blk, told, out>>
  <2>1. /\ proc \in [Layer -> {"none", "run", "zombie", "reaped"}]
        /\ tty \in [Layer -> BOOLEAN]
    BY DEF ShlInv, ShlTypeOK
  <2>2. /\ proc' \in [Layer -> {"none", "run", "zombie", "reaped"}]
        /\ tty' \in [Layer -> BOOLEAN]
    BY <1>1, <2>1
  <2>3. Children' = Children \cup {l}
    BY <1>1, <2>1 DEF Children
  <2> QED
    BY <2>2, <2>3 DEF Create
<1>3. l \notin ToSet(chain) /\ chain \in Seq(Layer) /\ Distinct(chain)
  BY <1>1 DEF ShlInv, ShlTypeOK, ListInv, ListSound, NoLayerForgotten, Listed, Children
<1>4. PICK n \in Nat : n = Len(chain)
  BY <1>3, LenProperties
<1>5. Len(chain') = n + 1
  BY <1>1, <1>3, <1>4, AtTheEnd DEF Resume, Setcur, Without
<1>6. lcount \in n..MaxLayer /\ lcount < MaxLayer /\ lcount' = lcount + 1 /\ MaxLayer \in Nat
  BY <1>4, ShlAssumption DEF ShlInv, ShlTypeOK, Create
<1>7. lcount' \in n + 1..MaxLayer
  BY <1>6
<1> QED
  BY <1>1, <1>2, <1>5, <1>7, ResumeStarts

LEMMA ResumeSteps ==
    ASSUME ShlInv, ResumeLayer \/ Toggle
    PROVE  ShlInv'
<1>1. PICK l \in Listed : Resume(l)
  <2>1. CASE ResumeLayer
    BY <2>1 DEF ResumeLayer
  <2>2. CASE Toggle
    <3>1. /\ chain \in Seq(Layer) /\ Distinct(chain) /\ lcur \in ToSet(chain)
          /\ Listed = ToSet(chain)
      BY <2>2 DEF Toggle, ShlInv, ShlTypeOK, ListInv, ListSound, NoLayerForgotten, Listed
    <3>2. Before(chain, lcur) = NoLayer \/ Before(chain, lcur) \in Listed
      BY <3>1, BeforeFacts
    <3> QED
      BY <2>2, <3>1, <3>2 DEF Toggle
  <2> QED
    BY <2>1, <2>2
<1>2. /\ hadquit' = FALSE /\ UNCHANGED <<lcount, blk, proc, tty, out, open, told>>
      /\ Children' = Children
  BY DEF ResumeLayer, Toggle, layers, Children
<1>3. /\ chain \in Seq(Layer) /\ Distinct(chain) /\ l \in ToSet(chain) /\ l \in Layer
      /\ l \in open /\ l \in Children
  BY <1>1 DEF ShlInv, ShlTypeOK, ListInv, ListSound, NoLayerForgotten, Listed, Children
<1>4. PICK n \in Nat : n = Len(chain)
  BY <1>3, LenProperties
<1>5. PICK w : w = Without(chain, l)
  OBVIOUS
<1>6. w \in Seq(Layer) /\ Len(w) = n - 1
  BY <1>3, <1>4, <1>5, WithoutFacts
<1>7. n - 1 + 1 = n
  OBVIOUS
<1>8. Len(Append(w, l)) = n
  BY <1>3, <1>6, <1>7, AppendFacts
<1>9. Len(chain') = n
  BY <1>1, <1>5, <1>8 DEF Resume, Setcur
<1>10. lcount' \in Len(chain')..MaxLayer
  BY <1>2, <1>4, <1>9 DEF ShlInv, ShlTypeOK
<1> QED
  BY <1>1, <1>2, <1>3, <1>10, ResumeStarts DEF ShlInv, ShlTypeOK

\* The commands after which the user is asked for the next one.
LEMMA PromptSteps ==
    ASSUME ShlInv, CreateFails \/ Block \/ Delete \/ OtherCommand
    PROVE  ShlInv'
<1>1. /\ UNCHANGED <<chain, lcount, proc, tty, out, open>> /\ Children' = Children
      /\ Prompt(chain) /\ hadquit' \in BOOLEAN
  BY DEF CreateFails, Block, Delete, OtherCommand, list, layers, Children,
         ShlInv, ShlTypeOK
<1>2. /\ chain \in Seq(Layer) /\ Distinct(chain) /\ Listed = ToSet(chain)
      /\ Listed \subseteq Children /\ Children \subseteq Listed \cup told
      /\ chain = <<>> => lcur = NoLayer
      /\ chain # <<>> => lcur \in Listed
      /\ Listed \subseteq Layer /\ Listed \subseteq open
      /\ Behind(chain, lcur) \subseteq told /\ told \subseteq Layer
      /\ lcur \in Layer \cup {NoLayer} /\ blk \in [Layer -> BOOLEAN]
  BY DEF ShlInv, ShlTypeOK, ListInv, ListSound, NoLayerForgotten, OnlyToldBehind,
         Listed, Children
<1>3. ASSUME lcur' \in Layer \cup {NoLayer}, blk' \in [Layer -> BOOLEAN],
             told \subseteq told', told' \subseteq Layer,
             Behind(chain, lcur') \subseteq told',
             IF chain = <<>> THEN lcur' = NoLayer ELSE lcur' \in Listed
      PROVE  ShlInv'
  <2>1. ShlTypeOK' /\ LoopInv'
    BY <1>1, <1>3, PromptStarts DEF ShlInv
  <2>2. Listed' = Listed
    BY <1>1 DEF Listed
  <2>3. ListSound'
    BY <1>1, <1>2, <1>3, <2>2 DEF ListSound, NoLayerForgotten
  <2>4. OnlyToldBehind'
    BY <1>1, <1>3 DEF OnlyToldBehind
  <2> QED
    BY <2>1, <2>3, <2>4 DEF ShlInv, ListInv
<1>4. CASE CreateFails
  <2>1. lcur' = (IF chain = <<>> THEN NoLayer ELSE Last(chain)) /\ UNCHANGED <<blk, told>>
    BY <1>4 DEF CreateFails, layers
  <2>2. CASE chain = <<>>
    <3>1. lcur' = lcur
      BY <1>2, <2>1, <2>2
    <3> QED
      BY <1>2, <1>3, <2>1, <2>2, <3>1
  <2>3. CASE chain # <<>>
    <3>1. PICK n \in Nat : n = Len(chain) /\ n \in DOMAIN chain /\ DOMAIN chain = 1..n
      BY <1>2, <2>3, EmptySeq, LenProperties
    <3>2. lcur' = chain[n]
      BY <2>1, <2>3, <3>1 DEF Last
    <3>3. lcur' \in Listed
      BY <1>2, <3>1, <3>2 DEF ToSet
    <3>4. Behind(chain, lcur') = {}
      <4>1. \A i, j \in DOMAIN chain : i < j => i # n
        BY <3>1
      <4> QED
        BY <1>2, <3>1, <3>2, <4>1 DEF Behind, Distinct
    <3> QED
      BY <1>2, <1>3, <2>1, <2>3, <3>3, <3>4
  <2> QED
    BY <2>2, <2>3
<1>5. CASE Block
  <2>1. UNCHANGED <<lcur, told>> /\ \E l \in Listed, b \in BOOLEAN : blk' = [blk EXCEPT ![l] = b]
    BY <1>5 DEF Block, layers
  <2>2. blk' \in [Layer -> BOOLEAN]
    BY <1>2, <2>1
  <2> QED
    BY <1>2, <1>3, <2>1, <2>2
<1>6. CASE Delete
  <2>1. PICK l \in Listed :
            /\ told' = told \cup {l}
            /\ lcur' = IF l # lcur THEN lcur
                       ELSE IF Before(chain, l) # NoLayer THEN Before(chain, l)
                       ELSE chain[1]
    BY <1>6 DEF Delete
  <2>2. UNCHANGED blk /\ told \subseteq told' /\ told' \subseteq Layer
    BY <1>2, <1>6, <2>1 DEF Delete
  <2>3. \/ lcur' = lcur
        \/ lcur' \in Listed /\ Behind(chain, lcur') \subseteq told'
    <3>1. CASE l = lcur
      BY <1>2, <2>1, <3>1, BeforeFacts
    <3> QED
      BY <2>1, <3>1
  <2>4. chain # <<>>
    <3>1. ToSet(<<>>) = {}
      BY DEF ToSet
    <3> QED
      BY <1>2, <2>1, <3>1
  <2> QED
    BY <1>2, <1>3, <2>2, <2>3, <2>4
<1>7. CASE OtherCommand
  <2>1. UNCHANGED <<lcur, blk, told>>
    BY <1>7 DEF OtherCommand, layers
  <2> QED
    BY <1>2, <1>3, <2>1
<1> QED
  BY <1>4, <1>5, <1>6, <1>7

LEMMA QuitSteps ==
    ASSUME ShlInv, QuitCommand \/ OnHup
    PROVE  ShlInv'
<1>1. /\ UNCHANGED <<chain, lcount, lcur, blk, proc, tty, out, open>>
      /\ Children' = Children
      /\ told \subseteq told' /\ told' \subseteq Layer
  <2>1. told' = told \cup Listed \/ told' = told
    BY DEF QuitCommand, OnHup, Quit, layers
  <2>2. Listed \subseteq Layer /\ told \subseteq Layer
    BY DEF ShlInv, ShlTypeOK, ListInv, ListSound, NoLayerForgotten, Children
  <2> QED
    BY <2>1, <2>2 DEF QuitCommand, OnHup, Quit, list, layers, Children
<1>2. ListInv'
  BY <1>1, ListKept DEF ShlInv
<1>3. CASE Quit
  <2>1. mode' = "ended" /\ UNCHANGED <<hadquit, cmdbuf, step, pfd, events, revents, endloop>>
    BY <1>3 DEF Quit, looping
  <2>2. ShlTypeOK'
    BY <1>1, <2>1 DEF ShlInv, ShlTypeOK
  <2>3. LoopInv'
    BY <2>1 DEF LoopInv, LastEntryIsCurrent, InputFirst, InDoio
  <2> QED
    BY <1>2, <2>2, <2>3 DEF ShlInv
<1>4. CASE Prompt(chain) /\ hadquit' = TRUE
  <2>1. ShlTypeOK' /\ LoopInv'
    BY <1>1, <1>4, PromptStarts DEF ShlInv, ShlTypeOK
  <2> QED
    BY <1>2, <2>1 DEF ShlInv
<1> QED
  BY <1>3, <1>4 DEF QuitCommand, OnHup

-----------------------------------------------------------------------------
(* What goes on in the layers *)

LEMMA LayerSteps ==
    ASSUME ShlInv, NEW l \in Layer, InLayer(l)
    PROVE  ShlInv'
<1>1. /\ UNCHANGED <<chain, lcount, lcur, blk, hadquit, mode, cmdbuf, open, told>>
      /\ UNCHANGED <<step, pfd, events, revents, endloop>>
  BY DEF InLayer, list, looping
<1>2. /\ proc \in [Layer -> {"none", "run", "zombie", "reaped"}]
      /\ tty \in [Layer -> BOOLEAN] /\ out \in [Layer -> BOOLEAN]
  BY DEF ShlInv, ShlTypeOK
<1>3. /\ proc' \in [Layer -> {"none", "run", "zombie", "reaped"}]
      /\ Children' = Children
  BY <1>2 DEF InLayer, Write, CloseTty, Exit, Children
<1>4. tty' \in [Layer -> BOOLEAN] /\ out' \in [Layer -> BOOLEAN]
  BY <1>2 DEF InLayer, Write, CloseTty, Exit
<1>5. ListInv'
  BY <1>1, <1>3, ListKept DEF ShlInv
<1>6. ShlTypeOK'
  BY <1>1, <1>3, <1>4 DEF ShlInv, ShlTypeOK
<1>7. LoopInv'
  <2>1. nfds' = nfds /\ InDoio' = InDoio
    BY <1>1 DEF nfds, InDoio
  <2> QED
    BY <1>1, <2>1 DEF ShlInv, LoopInv, LastEntryIsCurrent, InputFirst
<1> QED
  BY <1>5, <1>6, <1>7 DEF ShlInv

-----------------------------------------------------------------------------
(* The theorems *)

\* The inductive invariant: it holds in every state that shl can be in.
THEOREM ShlInvariant == ShlSpec => []ShlInv
<1>1. ShlInit => ShlInv
  <2> SUFFICES ASSUME ShlInit PROVE ShlInv
    OBVIOUS
  <2>1. /\ chain = <<>> /\ chain \in Seq(Layer) /\ Len(chain) = 0
        /\ pfd = <<>> /\ pfd \in Seq(Layer) /\ Len(pfd) = 0
    BY EmptySeq DEF ShlInit, ShlBegin
  <2>2. Listed = {} /\ Children = {} /\ Behind(chain, lcur) = {} /\ Distinct(chain)
    <3>1. DOMAIN chain = {} /\ Listed = {}
      BY <2>1 DEF Listed, ToSet
    <3>2. Children = {}
      BY DEF ShlInit, ShlBegin, Children
    <3> QED
      BY <3>1, <3>2 DEF Behind, Distinct
  <2>3. revents \in [0..Len(pfd) -> SUBSET {"in", "hup"}] /\ revents[0] = {}
    BY <2>1 DEF ShlInit, ShlBegin
  <2>4. lcount \in Len(chain)..MaxLayer
    BY <2>1, ShlAssumption DEF ShlInit, ShlBegin
  <2>5. ShlTypeOK
    BY <2>1, <2>3, <2>4 DEF ShlInit, ShlBegin, ShlTypeOK
  <2>6. ListInv
    BY <2>1, <2>2
       DEF ShlInit, ShlBegin, ListInv, ListSound, NoLayerForgotten, OnlyToldBehind
  <2>7. LoopInv
    BY DEF ShlInit, ShlBegin, LoopInv, LastEntryIsCurrent, InputFirst
  <2> QED
    BY <2>5, <2>6, <2>7 DEF ShlInv
<1>2. ShlInv /\ [ShlNext]_vars => ShlInv'
  <2> SUFFICES ASSUME ShlInv, [ShlNext]_vars PROVE ShlInv'
    OBVIOUS
  <2>1. CASE Poll \/ DoInput \/ DoOutput \/ HangUp \/ PollAgain
    BY <2>1, LoopSteps
  <2>2. CASE Await
    BY <2>2, AwaitSteps
  <2>3. CASE LeaveDoio
    BY <2>3, LeaveDoioSteps
  <2>4. CASE Create
    BY <2>4, CreateSteps
  <2>5. CASE ResumeLayer \/ Toggle
    BY <2>5, ResumeSteps
  <2>6. CASE CreateFails \/ Block \/ Delete \/ OtherCommand
    BY <2>6, PromptSteps
  <2>7. CASE QuitCommand \/ OnHup
    BY <2>7, QuitSteps
  <2>8. CASE \E l \in Layer : InLayer(l)
    BY <2>8, LayerSteps
  <2>9. CASE UNCHANGED vars
    <3>1. /\ UNCHANGED <<chain, lcount, lcur, blk, hadquit, mode, cmdbuf, step, pfd>>
          /\ UNCHANGED <<events, revents, endloop, proc, tty, out, open, told>>
      BY <2>9 DEF vars, list, looping, layers
    <3>2. Children' = Children
      BY <3>1 DEF Children
    <3>3. ListInv'
      BY <3>1, <3>2, ListKept DEF ShlInv
    <3>4. ShlTypeOK'
      BY <3>1 DEF ShlInv, ShlTypeOK
    <3>5. LoopInv'
      <4>1. nfds' = nfds /\ InDoio' = InDoio
        BY <3>1 DEF nfds, InDoio
      <4> QED
        BY <3>1, <4>1 DEF ShlInv, LoopInv, LastEntryIsCurrent, InputFirst
    <3> QED
      BY <3>3, <3>4, <3>5 DEF ShlInv
  <2> QED
    BY <2>1, <2>2, <2>3, <2>4, <2>5, <2>6, <2>7, <2>8, <2>9
       DEF ShlNext, DoioStep, AnyCommand
<1> QED
  BY <1>1, <1>2, PTL DEF ShlSpec

\* What shl keeps is well formed, and there are never more layers than lalloc()
\* counts.
THEOREM LayersWellFormed == ShlSpec => []ShlTypeOK
<1>1. ShlInv => ShlTypeOK
  BY DEF ShlInv
<1> QED
  BY <1>1, ShlInvariant, PTL

\* Whatever is deleted, ends and is waited for in whatever order, resume, delete
\* and quit find every layer that has not been waited for, unless it was deleted.
THEOREM NoneForgotten == ShlSpec => []NoLayerForgotten
<1>1. ShlInv => NoLayerForgotten
  BY DEF ShlInv, ListInv, ListSound
<1> QED
  BY <1>1, ShlInvariant, PTL

\* What doinput() writes goes to a terminal that is open, and the one whose
\* output is being shown.
THEOREM InputIsRead == ShlSpec => []InputHasAReader
<1>1. ShlInv => InputHasAReader
  <2> SUFFICES ASSUME ShlInv, Working, Turn = 0, mode = "layer"
               PROVE  lcur \in open /\ pfd[nfds] = lcur
    BY DEF InputHasAReader
  <2>1. revents[0] # {}
    BY TurnFacts DEF ShlInv
  <2>2. ~endloop
    BY <2>1 DEF ShlInv, LoopInv, InputFirst, Working
  <2> QED
    BY <2>2 DEF ShlInv, LoopInv, LastEntryIsCurrent
<1> QED
  BY <1>1, ShlInvariant, PTL

\* No step of dooutput() passes on what a blocked layer has written, unless it is
\* the current one.
THEOREM BlockedIsNotHeard == ShlSpec => BlockedStaysQuiet
<1>1. ASSUME ShlInv, [ShlNext]_vars, NEW l \in Layer, out[l], ~out'[l]
      PROVE  ~blk[l] \/ (l = lcur /\ mode = "layer")
  <2>1. out \in [Layer -> BOOLEAN] /\ out' # out
    BY <1>1 DEF ShlInv, ShlTypeOK
  <2>2. CASE DoOutput
    <3>1. PICK t : t = pfd[Turn]
      OBVIOUS
    <3>2. /\ Foremost(Turn) \/ (t \in Listed /\ ~blk[t])
          /\ out' = [out EXCEPT ![t] = @ /\ t \notin open]
      BY <2>1, <2>2, <3>1 DEF DoOutput
    <3>3. out' = [out EXCEPT ![t] = out[t] /\ t \notin open]
      BY <3>2
    <3>4. l = t /\ t \in open
      BY <1>1, <2>1, <3>3, Zenon
    <3>5. CASE Foremost(Turn)
      <4>1. mode = "layer" /\ t = pfd[nfds]
        BY <3>1, <3>5 DEF Foremost
      <4>2. pfd[nfds] = lcur \/ pfd[nfds] \notin open
        BY <1>1, <4>1 DEF ShlInv, LoopInv, LastEntryIsCurrent
      <4> QED
        BY <3>4, <4>1, <4>2
    <3> QED
      BY <3>2, <3>4, <3>5
  <2>3. CASE \E m \in Layer : InLayer(m)
    <3>1. PICK m \in Layer : out' = out \/ out' = [out EXCEPT ![m] = TRUE]
      BY <2>3 DEF InLayer, Write, CloseTty, Exit
    <3>2. out'[l]
      BY <1>1, <2>1, <3>1, Zenon
    <3> QED
      BY <1>1, <3>2
  <2>4. CASE Poll \/ DoInput \/ HangUp \/ Await \/ PollAgain \/ LeaveDoio
    BY <2>1, <2>4 DEF Poll, DoInput, HangUp, Await, PollAgain, LeaveDoio, layers
  <2>5. CASE AnyCommand \/ OnHup
    BY <2>1, <2>5 DEF AnyCommand, Create, CreateFails, Block, Delete, ResumeLayer,
                      Toggle, QuitCommand, OtherCommand, OnHup, Quit, layers
  <2>6. CASE UNCHANGED vars
    BY <2>1, <2>6 DEF vars, layers
  <2> QED
    BY <1>1, <2>2, <2>3, <2>4, <2>5, <2>6 DEF ShlNext, DoioStep
<1>2. ShlInv /\ [ShlNext]_vars
        => [\A l \in Layer : out[l] /\ ~out'[l] => ~blk[l] \/ (l = lcur /\ mode = "layer")]_vars
  BY <1>1
<1> QED
  BY <1>2, ShlInvariant, PTL DEF ShlSpec, BlockedStaysQuiet

=============================================================================
