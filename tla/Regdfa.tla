-------------------------------- MODULE Regdfa --------------------------------
(***************************************************************************)
(* Regular expressions (libuxre/regdfa.c), as grep, sed and the others use *)
(* them: a tree is turned into positions with their follow sets, and the   *)
(* states of the automaton, sets of positions, are found while a string is *)
(* looked at, and kept in a table that is emptied when it is full.  A tree *)
(* is a tuple of its operator and its subtrees; characters are strings,    *)
(* and Nul ends what is searched.  Multibyte characters, brackets,         *)
(* REG_ICASE and REG_NEWLINE are left out.                                 *)
(***************************************************************************)
EXTENDS Integers, Sequences, FiniteSets, SequencesExt, FiniteSetsExt

CONSTANTS
    Char,       \* what can be searched for
    CacheSize   \* CACHESZ

ASSUME RegdfaAssumption ==
    /\ CacheSize \in Nat /\ CacheSize > 5

VARIABLES
    tree,       \* the pattern, as the caller has given it
    posn,       \* of each position: op, and foll
    fix,        \* the states that stay: nfix, anybol, leftmost, leftbol
    states,     \* the signatures; the first is that of the dead state
    trans,      \* the goto table: of a state and a character, a state or 0
    pending,    \* the calls of regexec() to come: str, and the flags notbol,
                \* noteol, nonempty, and sub if the place is asked for
    mbeg, next, \* where the match may begin, and the character to look at
    mend,       \* the end of the match, or NoEnd
    now,        \* the state
    rat,        \* "ready", "search", "leftmost" and "done"
    found,      \* what has been returned: NoMatch, or the place of the match
    noteols     \* history: what noteol was in the calls so far

execution == <<mbeg, next, mend, now, rat>>
regVars == <<tree, posn, fix, states, trans, pending, execution, found, noteols>>

Nul == "nul"
NoEnd == 0
NoMatch == <<0, 0>>
Matched == <<0, 1>>     \* where, was not asked

call == Head(pending)
str == call.str

-----------------------------------------------------------------------------
(* The tree.  findposn() writes out what is repeated a number of times and  *)
(* numbers the leaves, those of the right subtree first.                    *)

Leaf == {"chr", "bol", "eol", "all", "any", "end"}
Unary == {"star", "plus", "quest", "lp"}
Inf == 255

Quest(t) == <<"quest", t>>
Copies(t, n) == [k \in 1..n |-> t]

\* What stands for t{lo,hi}, one after the other.  {0,} {0,1} and {1,} do not
\* come here.  For {0,hi}, t? is written and then hi copies of it.
Repeated(t, lo, hi) ==
    CASE hi = Inf -> Append(Copies(t, lo - 1), <<"plus", t>>)
      [] hi # Inf /\ lo > 0 -> Copies(t, lo) \o Copies(Quest(t), hi - lo)
      [] hi # Inf /\ lo = 0 -> Copies(Quest(t), hi + 1)

RECURSIVE Unbraced(_)
Unbraced(t) ==
    CASE t[1] \in Leaf \cup {"empty"} -> t
      [] t[1] \in Unary -> <<t[1], Unbraced(t[2])>>
      [] t[1] \in {"cat", "or"} -> <<t[1], Unbraced(t[2]), Unbraced(t[3])>>
      [] t[1] = "brace" ->
            LET r == Repeated(Unbraced(t[2]), t[3], t[4])
            IN  FoldLeft(LAMBDA x, y : <<"cat", x, y>>, Head(r), Tail(r))

RECURSIVE Numbered(_, _)
Numbered(t, n) ==
    CASE t[1] \in Leaf -> [t |-> Append(t, n), n |-> n + 1]
      [] t[1] = "empty" -> [t |-> t, n |-> n]
      [] t[1] \in Unary ->
            LET l == Numbered(t[2], n) IN [t |-> <<t[1], l.t>>, n |-> l.n]
      [] t[1] \in {"cat", "or"} ->
            LET r == Numbered(t[3], n)
                l == Numbered(t[2], r.n)
            IN  [t |-> <<t[1], l.t, r.t>>, n |-> l.n]

PosOf(leaf) == leaf[Len(leaf)]
OpOf(leaf) == IF leaf[1] = "chr" THEN leaf[2] ELSE leaf[1]

RECURSIVE Leaves(_)
Leaves(t) ==
    CASE t[1] \in Leaf -> {t}
      [] t[1] = "empty" -> {}
      [] t[1] \in Unary -> Leaves(t[2])
      [] t[1] \in {"cat", "or"} -> Leaves(t[2]) \cup Leaves(t[3])

\* first(): the positions that can be reached, and whether the end can.  The
\* anchors of skip match nothing, as adjacent ones do.
RECURSIVE First1(_, _)
First1(t, skip) ==
    CASE t[1] \in skip \cup {"empty"} -> [set |-> {}, out |-> TRUE]
      [] t[1] \in Leaf \ skip -> [set |-> {PosOf(t)}, out |-> FALSE]
      [] t[1] = "or" ->
            LET l == First1(t[2], skip)
                r == First1(t[3], skip)
            IN  [set |-> l.set \cup r.set, out |-> l.out \/ r.out]
      [] t[1] = "cat" ->
            LET l == First1(t[2], skip)
                r == First1(t[3], skip)
            IN  [set |-> l.set \cup IF l.out THEN r.set ELSE {},
                 out |-> l.out /\ r.out]
      [] t[1] \in {"star", "quest"} -> [First1(t[2], skip) EXCEPT !.out = TRUE]
      [] t[1] \in {"lp", "plus"} -> First1(t[2], skip)

\* follow(): what may come behind a leaf of t within t, and whether the end may.
RECURSIVE Follow1(_, _, _)
Follow1(t, leaf, skip) ==
    CASE t[1] \in Leaf -> [set |-> {}, out |-> TRUE]
      [] t[1] \in {"star", "plus"} ->
            LET x == Follow1(t[2], leaf, skip)
            IN  [x EXCEPT !.set = @ \cup IF x.out THEN First1(t[2], skip).set ELSE {}]
      [] t[1] \in {"quest", "lp"} -> Follow1(t[2], leaf, skip)
      [] t[1] = "or" ->
            Follow1(IF leaf \in Leaves(t[2]) THEN t[2] ELSE t[3], leaf, skip)
      [] t[1] = "cat" ->
            IF leaf \in Leaves(t[3]) THEN Follow1(t[3], leaf, skip)
            ELSE LET x == Follow1(t[2], leaf, skip)
                     r == First1(t[3], skip)
                 IN  IF x.out THEN [set |-> x.set \cup r.set, out |-> r.out] ELSE x

\* posnfoll()
Positions(root) ==
    LET leaves == Leaves(root)
        at(p) == CHOOSE l \in leaves : PosOf(l) = p
        foll(l) == IF l[1] = "end" THEN {}
                   ELSE Follow1(root, l, {l[1]} \cap {"bol", "eol"}).set
    IN  [p \in {PosOf(l) : l \in leaves} |-> [op |-> OpOf(at(p)), foll |-> foll(at(p))]]

-----------------------------------------------------------------------------
(* The states *)

Untried == [c \in Char \cup {Nul} |-> 0]
acc(k) == 0 \in states[k]

\* regtrans(): whether a position matches a character, or the beginning of the
\* line when c is "bol".
Matches(op, c, noteol) ==
    \/ op = c
    \/ op = "eol" /\ c = Nul /\ ~noteol
    \/ op = "any" /\ c \in Char
    \/ op = "all" /\ c # Nul

After(ps, sig, c, noteol) ==
    UNION {ps[p].foll : p \in {q \in sig : Matches(ps[q].op, c, noteol)}}

Table(sts, tr, new, flushed) ==
    [states |-> sts, trans |-> tr, new |-> new, flushed |-> flushed]

\* addstate(): the states but the first nfix are dropped when there are CACHESZ.
AddState(sig) ==
    LET same == {k \in DOMAIN states : states[k] = sig}
    IN  CASE same # {} -> Table(states, trans, Max(same), FALSE)
          [] same = {} /\ Len(states) < CacheSize ->
                Table(Append(states, sig), Append(trans, Untried), Len(states) + 1,
                      FALSE)
          [] same = {} /\ Len(states) >= CacheSize ->
                Table(Append(SubSeq(states, 1, fix.nfix), sig),
                      Copies(Untried, fix.nfix + 1), fix.nfix + 1, TRUE)

\* The state behind state k and a character: from the goto table, or by
\* regtrans(), which notes it there unless the table was emptied.
Regtrans(k, c) ==
    IF trans[k][c] # 0 THEN Table(states, trans, trans[k][c], FALSE)
    ELSE IF states[k] = {} THEN Table(states, trans, k, FALSE)
    ELSE LET t == AddState(After(posn, states[k], c, call.noteol))
         IN  IF t.flushed THEN t ELSE [t EXCEPT !.trans[k][c] = t.new]

-----------------------------------------------------------------------------
(* regdfacomp() *)

\* Anything may stand before what is looked for.
Root(t) ==
    Numbered(<<"cat", <<"cat", <<"star", <<"all">>>>, Unbraced(t)>>, <<"end">>>>, 0).t

\* The dead state, the initial ones of a match anywhere, in the line and at its
\* beginning, and the same without ROP_ALL, the last position, for a match that
\* begins here, which are not made when no one can ask for the place (REG_NOSUB).
\* Two are the same when no anchor makes a difference.
Compile(nosub) ==
    LET all == Cardinality(DOMAIN posn) - 1
        any == posn[all].foll
        bol == After(posn, any, "bol", FALSE)
        anys == IF bol = any THEN <<any>> ELSE <<any, bol>>
        here == IF nosub THEN <<>> ELSE [k \in DOMAIN anys |-> anys[k] \ {all}]
        n == Len(anys)
    IN  /\ states = <<{}>> \o anys \o here
        /\ trans = Copies(Untried, Len(states))
        /\ fix = [nfix |-> Len(states), anybol |-> n + 1,
                  leftmost |-> n + 2, leftbol |-> 2 * n + 1]

\* A pattern has been compiled, and is to be looked for in some strings.
RegBegin(patterns, cs) ==
    /\ tree \in patterns
    /\ posn = Positions(Root(tree))
    /\ pending \in cs
    /\ Compile(\A k \in DOMAIN pending : ~pending[k].sub)
    /\ mbeg = 1 /\ next = 1 /\ mend = NoEnd /\ now = 1
    /\ rat = "ready"
    /\ found = NoMatch
    /\ noteols = {}

-----------------------------------------------------------------------------
(* regexec(), and libuxre_regdfaexec() with its loops *)

Returns(f) ==
    /\ rat' = "done"
    /\ found' = f
    /\ UNCHANGED <<mbeg, next, mend, now>>

Regexec ==
    /\ rat = "ready"
    /\ pending # <<>>
    /\ LET k == CASE call.sub /\ ~call.notbol -> fix.leftbol
                  [] call.sub /\ call.notbol -> fix.leftmost
                  [] ~call.sub /\ ~call.notbol -> fix.anybol
                  [] ~call.sub /\ call.notbol -> 2
           empty == acc(k) /\ ~call.nonempty
       IN  IF empty /\ ~call.sub THEN Returns(Matched)
           ELSE /\ now' = k
                /\ mbeg' = 1
                /\ next' = 1
                /\ mend' = IF empty THEN 1 ELSE NoEnd
                /\ rat' = IF call.sub THEN "leftmost" ELSE "search"
                /\ UNCHANGED found
    /\ noteols' = noteols \cup {call.noteol}
    /\ UNCHANGED <<states, trans, pending>>

\* regdfaexec_opt()
SearchChar ==
    /\ rat = "search"
    /\ LET t == Regtrans(now, str[next])
       IN  /\ states' = t.states
           /\ trans' = t.trans
           /\ CASE 0 \in t.states[t.new] -> Returns(Matched)
                [] 0 \notin t.states[t.new] /\ str[next] = Nul -> Returns(NoMatch)
                [] 0 \notin t.states[t.new] /\ str[next] # Nul ->
                    /\ now' = t.new
                    /\ next' = next + 1
                    /\ UNCHANGED <<mbeg, mend, rat, found>>
    /\ UNCHANGED <<pending, noteols>>

Later(e) == IF mend < e THEN e ELSE mend
Extent == <<mbeg, mend>>

\* Mutant: the next beginning is taken for that of the line.
DiedAtBol ==
    IF mend # NoEnd THEN Returns(Extent)
    ELSE IF str[mbeg] = Nul THEN Returns(NoMatch)
    ELSE /\ mbeg' = mbeg + 1
         /\ next' = mbeg + 1
         /\ now' = fix.leftbol
         /\ mend' = IF acc(fix.leftbol) THEN mbeg + 1 ELSE mend
         /\ UNCHANGED <<rat, found>>

\* No match from mbeg on: the one there was, or another beginning.
Died ==
    IF mend # NoEnd THEN Returns(Extent)
    ELSE IF str[mbeg] = Nul THEN Returns(NoMatch)
    ELSE /\ mbeg' = mbeg + 1
         /\ next' = mbeg + 1
         /\ now' = fix.leftmost
         /\ mend' = IF acc(fix.leftmost) THEN mbeg + 1 ELSE mend
         /\ UNCHANGED <<rat, found>>

\* leftmost()
LeftmostChar ==
    /\ rat = "leftmost"
    /\ LET t == Regtrans(now, str[next])
           accepts == 0 \in t.states[t.new]
       IN  /\ states' = t.states
           /\ trans' = t.trans
           /\ CASE t.new = 1 -> Died
                [] t.new # 1 /\ str[next] = Nul ->
                    Returns(IF accepts THEN <<mbeg, Later(next)>>
                           ELSE IF mend # NoEnd THEN Extent ELSE NoMatch)
                [] t.new # 1 /\ str[next] # Nul ->
                    /\ now' = t.new
                    /\ next' = next + 1
                    /\ mend' = IF accepts THEN Later(next + 1) ELSE mend
                    /\ UNCHANGED <<mbeg, rat, found>>
    /\ UNCHANGED <<pending, noteols>>

\* The caller takes what was found, and comes with the next string.
NextCall ==
    /\ rat = "done"
    /\ pending' = Tail(pending)
    /\ rat' = "ready"
    /\ UNCHANGED <<states, trans, mbeg, next, mend, now, found, noteols>>

RegNext ==
    /\ Regexec \/ SearchChar \/ LeftmostChar \/ NextCall
    /\ UNCHANGED <<tree, posn, fix>>

-----------------------------------------------------------------------------
(* What regular expressions mean *)

\* The ends of the matches of a tree in the string of a call that begin at i.
RECURSIVE Ends(_, _, _)
Ends(t, i, c) ==
    LET s == c.str
        step(u, ends) == UNION {Ends(u, j, c) : j \in ends}
        times(u, n, ends) == FoldLeft(LAMBDA e, k : step(u, e), ends, Copies(0, n))
        \* no more rounds than characters make a difference
        rounds(u, n, ends) == UNION {times(u, k, ends) : k \in 0..n}
    IN  CASE t[1] = "chr" -> IF s[i] = t[2] THEN {i + 1} ELSE {}
          [] t[1] = "any" -> IF s[i] # Nul THEN {i + 1} ELSE {}
          [] t[1] = "bol" -> IF i = 1 /\ ~c.notbol THEN {i} ELSE {}
          [] t[1] = "eol" -> IF s[i] = Nul /\ ~c.noteol THEN {i} ELSE {}
          [] t[1] = "empty" -> {i}
          [] t[1] = "or" -> Ends(t[2], i, c) \cup Ends(t[3], i, c)
          [] t[1] = "cat" -> step(t[3], Ends(t[2], i, c))
          [] t[1] = "lp" -> Ends(t[2], i, c)
          [] t[1] = "quest" -> {i} \cup Ends(t[2], i, c)
          [] t[1] = "star" -> rounds(t[2], Len(s), {i})
          [] t[1] = "plus" -> rounds(t[2], Len(s), Ends(t[2], i, c))
          [] t[1] = "brace" -> rounds(t[2], IF t[4] = Inf THEN Len(s) ELSE t[4] - t[3],
                                      times(t[2], t[3], {i}))

EndsFrom(i, c) == {j \in Ends(tree, i, c) : c.nonempty => <<i, j>> # <<1, 1>>}
Means(c) ==
    LET begins == {i \in DOMAIN c.str : EndsFrom(i, c) # {}}
    IN  CASE begins = {} -> NoMatch
          [] begins # {} /\ ~c.sub -> Matched
          [] begins # {} /\ c.sub -> <<Min(begins), Max(EndsFrom(Min(begins), c))>>

RECURSIVE Parts(_)
Parts(t) ==
    {t} \cup CASE t[1] \in Leaf \cup {"empty"} -> {}
               [] t[1] \in Unary \cup {"brace"} -> Parts(t[2])
               [] t[1] \in {"cat", "or"} -> Parts(t[2]) \cup Parts(t[3])

UpTo(t) == t[1] = "brace" /\ t[3] = 0

\* leftmost() meets the end of the string where a $ has more behind it, and does not
\* look for a match that begins later.
GivesUp ==
    call.sub /\ found = NoMatch /\ \E p \in DOMAIN posn : posn[p].op = "eol" /\ 0 \notin posn[p].foll

-----------------------------------------------------------------------------
(* Properties *)

RegTypeOK ==
    /\ Len(states) \in fix.nfix..CacheSize
    /\ \A k \in DOMAIN states : states[k] \subseteq DOMAIN posn
    /\ Len(trans) = Len(states)
    /\ \A k \in DOMAIN trans, c \in Char \cup {Nul} : trans[k][c] \in 0..Len(states)
    /\ rat \in {"ready", "search", "leftmost", "done"}
    /\ rat \in {"search", "leftmost"} =>
        /\ now \in DOMAIN states
        /\ mbeg \in DOMAIN str /\ next \in mbeg..Len(str)
        /\ mend \in {NoEnd} \cup mbeg..Len(str)

\* regexec() finds the leftmost match and of those the longest, or whether there
\* is one, whatever was looked for before and is left in the table of states.  What
\* comes behind the end of the string is left there, too, as the REG_NOTEOL of the
\* call that got there first had it.  When the calls did not all have the same, what
\* is found is somewhere where the pattern matches if $ does, but need not be the
\* leftmost; and a match that needs no $ is not missed.  Left out is NoMatch of a
\* pattern with a $ that must have more behind it, see GivesUp.
MatchesMean ==
    LET With(noteol) == [call EXCEPT !.noteol = noteol]
    IN  rat = "done" /\ (\A t \in Parts(tree) : ~UpTo(t)) =>
            \/ noteols = {call.noteol} /\ found = Means(call)
            \/ /\ noteols = BOOLEAN
               /\ \/ found = NoMatch /\ Means(With(TRUE)) = NoMatch
                  \/ found = Matched /\ ~call.sub /\ Means(With(FALSE)) = Matched
                  \/ /\ found # NoMatch /\ call.sub
                     /\ found[2] \in EndsFrom(found[1], With(FALSE))
            \/ GivesUp

\* "{0,2} -> CAT(QUEST(left), QUEST(copy))": what is repeated up to hi times is
\* matched hi times at most.
RepeatsUpTo ==
    rat = "done" /\ UpTo(tree) => found = Means(call)

=============================================================================
