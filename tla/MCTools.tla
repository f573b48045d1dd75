------------------------------ MODULE MCTools ------------------------------
(***************************************************************************)
(* The programs that work alone, one after the other in one run: which of  *)
(* them it is, is chosen at the start, and the others do not begin.        *)
(***************************************************************************)
EXTENDS MailSession, Cp, Rm, Tail, Xargs, Sort, Dd, Regdfa, Diff, Diffdir, Dc,
        Sed, Grep, TLC

VARIABLE tool

-----------------------------------------------------------------------------
(* cp, mv and ln: a source of files, directories, links of a file and what   *)
(* mv cannot carry to another device, and a target with and without the      *)
(* same names.                                                               *)

X == <<"x">>
Xa == <<"x", "a">>
Xb == <<"x", "b">>
Xbc == <<"x", "b", "c">>
Y == <<"y">>
Ya == <<"y", "a">>
Yb == <<"y", "b">>
MCRel == {X, Xa, Xb, Xbc, Y, Ya, Yb}
MCArgs == <<X, Y>>

KindOfInode == <<"dir", "reg", "reg", "dir", "special", "door", "dir", "reg">>

Sources ==
    {X :> 2 @@ Y :> 2, X :> 2 @@ Y :> 3,
     X :> 1 @@ Xa :> 2 @@ Xb :> 2 @@ Y :> 2,
     X :> 1 @@ Xa :> 2 @@ Xb :> 4 @@ Xbc :> 2,
     X :> 1 @@ Xa :> 5 @@ Xb :> 3,
     X :> 1 @@ Xa :> 6 @@ Xb :> 3}
TwoTrees == X :> 1 @@ Xa :> 2 @@ Xb :> 2 @@ Y :> 4
OnOneDevice == {X :> 2 @@ Y :> 3, X :> 1 @@ Xa :> 2 @@ Xb :> 3}
Targets == {<<>>, X :> 7, X :> 8, X :> 7 @@ Xa :> 8}

OnDevice(names, d) ==
    [p \in MCRel |-> IF p \in DOMAIN names THEN <<d, names[p]>> ELSE NoIno]

Inodes(used) ==
    [f \in {1, 2} \X (1..8) |->
        IF f \notin used THEN Free
        ELSE [kind |-> KindOfInode[f[2]],
              data |-> IF f[2] \in {2, 3, 5} THEN f[2] ELSE NoData]]

Begin(s, t, d) ==
    [src |-> OnDevice(s, 1), tgt |-> OnDevice(t, d), tdev |-> d,
     inode |-> Inodes({<<1, n>> : n \in Range(s)} \cup {<<d, n>> : n \in Range(t)})]

MCStart ==
    {Begin(s, t, 2) : s \in Sources, t \in Targets}
        \cup {Begin(s, t, 1) : s \in OnOneDevice, t \in {<<>>, X :> 7, X :> 7 @@ Xa :> 2}}

Cmd(name, flags) == [go |-> name] @@ [c \in {"r", "R", "d", "f", "i", "s", "n"} |-> c \in flags]

MCOpt ==
    {Cmd("mv", {"r", "R", "d"}), Cmd("mv", {"r", "R", "d", "i"}), Cmd("cp", {}),
     Cmd("cp", {"r", "R", "d", "f"}), Cmd("cp", {"r", "i"}), Cmd("ln", {}),
     Cmd("ln", {"n"}), Cmd("ln", {"s"})}

-----------------------------------------------------------------------------
(* rm: a tree of three directories beside a directory that is to stay.       *)

MCNode == {"top", "t", "s", "f", "g", "o", "p", "q", "l"}
MCPlace ==
    "top" :> <<"-", "top">> @@ "t" :> <<"top", "a">> @@ "s" :> <<"t", "a">>
        @@ "f" :> <<"s", "a">> @@ "g" :> <<"t", "b">> @@ "o" :> <<"top", "o">>
        @@ "p" :> <<"o", "a">> @@ "q" :> <<"o", "b">> @@ "l" :> <<"top", "c">>
MCRmArgs == <<"a">>

-----------------------------------------------------------------------------
(* xargs: words of one to three characters, each the last of its line or not,*)
(* and the end-of-file string.                                               *)

Words == [size : 1..2, eol : BOOLEAN, eof : {FALSE}]
MCInputs ==
    UNION {[1..n -> Words] : n \in 0..3}
        \cup {[k \in 1..4 |-> [size |-> 1, eol |-> k \in e, eof |-> k = 3]] : e \in SUBSET (1..4)}
        \cup {<<[size |-> 6, eol |-> TRUE, eof |-> FALSE]>>}
        \cup {[k \in 1..5 |-> [size |-> z[k], eol |-> k \in {2, 4, 5}, eof |-> FALSE]] :
                z \in [1..5 -> 1..2]}

Limit(n, l, s, x, replace) == [n |-> n, l |-> l, s |-> s, x |-> x, i |-> replace]
MCLimits ==
    {Limit(0, 0, 0, FALSE, FALSE), Limit(2, 0, 0, FALSE, FALSE), Limit(0, 1, 3, TRUE, FALSE),
     Limit(0, 2, 4, TRUE, FALSE), Limit(3, 0, 3, TRUE, FALSE), Limit(0, 0, 0, FALSE, TRUE)}

-----------------------------------------------------------------------------
(* sort: files of lines that are numbers; those to be merged are in order.   *)

Text(n, m) == UNION {[1..k -> 1..m] : k \in 0..n}
MCOperands ==
    {<<f, g>> : f, g \in Text(2, 2)} \cup {<<f>> : f \in Text(4, 3)}
        \cup {<<<<1>>, <<2>>, <<1, 2>>>>}
Ordered(f) == \A j \in 1..Len(f) - 1 : f[j] <= f[j + 1]
MCInOrder == {op \in MCOperands : \A k \in DOMAIN op : Ordered(op[k])}

Order(m, c, u, file, y) == [m |-> m, c |-> c, u |-> u, o |-> file, y |-> y]
MCOrders ==
    {Order(FALSE, FALSE, u, file, y) : u \in BOOLEAN, file \in {-1, 0}, y \in {1, 2, 5}}
        \cup {Order(FALSE, TRUE, u, file, 1) : u \in BOOLEAN, file \in {-1, 0}}
MCMerges == {Order(TRUE, FALSE, u, file, 1) : u \in BOOLEAN, file \in {-1, 0, 1}}

-----------------------------------------------------------------------------
(* dd: all characters different, but for newlines and blanks.                *)

MCDdInputs ==
    {[k \in DOMAIN t |-> IF t[k] = 0 THEN 100 + k ELSE t[k]] :
        t \in UNION {[1..n -> {0, NL, SP}] : n \in 0..3}}
DdOption(b, ib, ob, cb, conversion, sync, noerror, blocks) ==
    [bs |-> b, ibs |-> ib, obs |-> ob, cbs |-> cb, conv |-> conversion,
     sync |-> sync, noerror |-> noerror, count |-> blocks]
MCDdOptions ==
    {DdOption(2, 1, 1, 0, "none", FALSE, FALSE, -1), DdOption(0, 2, 3, 0, "none", TRUE, TRUE, -1),
     DdOption(0, 3, 2, 2, "block", FALSE, FALSE, 1), DdOption(0, 2, 3, 2, "block", FALSE, TRUE, -1),
     DdOption(0, 2, 2, 2, "unblock", TRUE, TRUE, -1)}

-----------------------------------------------------------------------------
(* regexec(): two strings, one after the other.                              *)

a == <<"chr", "a">>
b == <<"chr", "b">>
dot == <<"any">>
bol == <<"bol">>
eol == <<"eol">>
Cat(p, q) == <<"cat", p, q>>
Or(p, q) == <<"or", p, q>>
Rep(p) == <<"star", p>>
Some(p) == <<"plus", p>>
Braces(p, lo, hi) == <<"brace", p, lo, hi>>

MCPatterns ==
    {Braces(a, 0, 2), Rep(a), Cat(a, eol), Cat(bol, Rep(Or(a, eol))), Or(Cat(a, b), a),
     Or(Cat(bol, b), Cat(a, Rep(dot))), Cat(Braces(Or(a, Cat(b, a)), 2, 3), b),
     Cat(a, Cat(dot, Cat(dot, b))), Cat(Cat(bol, bol), Some(Quest(b))),
     Cat(<<"lp", Or(a, <<"empty">>)>>, b), Braces(a, 2, Inf),
     Cat(Rep(Or(a, b)), Cat(a, Cat(dot, dot))),
     Or(Cat(Or(a, b), Cat(a, eol)), Or(b, Cat(a, eol))), Or(Cat(b, Cat(a, Cat(eol, b))), a)}

RegCall(t, flags) ==
    [str |-> Append(t, Nul), notbol |-> "bol" \in flags, noteol |-> "eol" \in flags,
     nonempty |-> "nonempty" \in flags, sub |-> "sub" \in flags]

Subjects(n) == [1..n -> {"a", "b"}]
\* The second call may have the other REG_NOTEOL.
CallsFor(ts, us, flags) == {<<RegCall(t, f[1]), RegCall(u, f[2])>> : t \in ts, u \in us, f \in flags}
MCCalls ==
    CallsFor(Subjects(3), Subjects(1) \cup Subjects(2) \cup Subjects(4),
             {<<f, f \ {"bol"}>> : f \in {{}, {"sub"}, {"bol", "sub"}, {"eol"}, {"nonempty", "sub"}}})
        \cup CallsFor(Subjects(2), Subjects(2) \cup Subjects(3),
                     {<<{}, {"eol"}>>, <<{"eol"}, {}>>, <<{"eol", "sub"}, {"sub"}>>,
                      <<{"sub"}, {"eol", "sub"}>>})

-----------------------------------------------------------------------------
(* diff: short files with lines that differ in case or have the same hash,   *)
(* whose last line may lack its newline, and a longer one that was edited.   *)

MCHash == <<1, 1, -2, 2, 3, 4, 5, 6, 7>>
MCFold == <<1, 2, 2, 4, 5, 6, 7, 8, 9>>
OfLines(n, S) == UNION {[1..k -> S] : k \in 0..n}
MCPairs ==
    {[file |-> <<f, g>>, cut |-> {}] : f, g \in OfLines(3, {1, 2, 4})}
        \cup {[file |-> <<f, g>>, cut |-> c] :
                f, g \in OfLines(2, 2..4) \ {<<>>}, c \in SUBSET {1, 2}}
SixLines == <<4, 5, 6, 7, 8, 9>>
Edited(gone, ins) ==
    FlattenSeq([k \in 1..6 |-> (IF k \in gone THEN <<>> ELSE <<SixLines[k]>>)
                               \o (IF k \in ins THEN <<4>> ELSE <<>>)])
MCEdits ==
    {[file |-> <<SixLines, Edited(e[1], e[2])>>, cut |-> {}] :
        e \in {e \in (SUBSET (1..6)) \X (SUBSET (1..6)) : Cardinality(e[1]) + Cardinality(e[2]) <= 5}}

DiffOption(form, n, folded, flags) ==
    [out |-> form, context |-> n, fold |-> folded, B |-> "B" \in flags,
     p |-> "p" \in flags, a |-> "a" \in flags]
MCForms ==
    {DiffOption("normal", 0, FALSE, {"a"}), DiffOption("normal", 0, TRUE, {"B"}),
     DiffOption("edit", 0, FALSE, {}), DiffOption("reverse", 0, FALSE, {"B"}),
     DiffOption("nreverse", 0, FALSE, {}), DiffOption("ifdef", 0, TRUE, {}),
     DiffOption("unified", 1, FALSE, {"a"}), DiffOption("context", 1, TRUE, {})}
MCNear == {DiffOption(form, 1, FALSE, {"p"}) : form \in {"unified", "context"}}

\* Directories, up to three deep: the names at the top, and those in subdirectories
Lists(n) ==
    OfLines(n, {"only", "same", "differ", "blank", "binary", "types", "unreadable"})
MCTrees ==
    {<<>> :> l : l \in Lists(2)}
        \cup {<<>> :> <<"differ", "dir", "dir">> @@ <<2>> :> l @@ <<3>> :> m : l, m \in Lists(1)}
        \cup {<<>> :> <<"dir", "blank", "dir">> @@ <<1>> :> <<"dir", "differ">>
                @@ <<1, 1>> :> l @@ <<3>> :> <<>> : l \in Lists(2)}
MCDdirOptions == [r : BOOLEAN, B : BOOLEAN]

-----------------------------------------------------------------------------
(* dc: two numbers and a command at several scales, three numbers and two    *)
(* commands, larger numbers, and roots of remainders.                        *)

Typing(sign, list, places) == <<sign, list, places>>
Signs == {"0", "_"}
Calls(S) == {<<c>> : c \in S}
Scales(S) == {Typing("0", <<s>>, 0) : s \in S}
Wholes == {Typing(s, l, 0) : s \in Signs, l \in {<<>>, <<1>>, <<4, 7>>, <<1, 0, 0>>, <<9, 9, 9>>}}
Fractions(n) ==
    {Typing(s, l, p) : s \in Signs, l \in {<<0, 0, 0, 5>>, <<1, 0, 9, 9>>, <<9, 9, 9, 9>>}, p \in n}
Few == {Typing("0", <<3>>, 0), Typing("0", <<0, 5>>, 1), Typing("_", <<1, 1>>, 1)}
Powers == {Typing(s, l, 0) : s \in Signs, l \in {<<>>, <<1>>, <<2>>}}
Large ==
    {Typing("0", l, 0) :
        l \in {<<9, 9, 9, 9, 9, 9, 9, 9>>, <<1, 0, 0, 0, 0, 0, 0, 0>>, <<9, 9, 0, 0, 9, 9, 0, 0, 1>>,
               <<1, 2, 3, 4, 5, 6, 7>>, <<1, 0, 1, 0, 1>>, <<9, 9, 0, 1>>, <<1, 9, 9, 9, 9>>,
               <<1, 0, 0, 9, 9>>, <<9, 9, 9, 9, 9>>, <<1, 0, 0>>}}
MCScripts ==
    <<<<Scales({0, 1, 3}), Calls({"k"}), Wholes \cup Fractions({1, 3}), Wholes \cup Fractions({1, 2}),
        Calls({"+", "-", "*", "/", "%"})>>,
      <<Scales({0, 3}), Calls({"k"}), Wholes \cup Fractions({1, 3}), Powers \cup {Typing("0", <<5>>, 1)},
        Calls({"^"})>>,
      <<Scales({1, 3}), Calls({"k"}), Wholes \cup Fractions({1, 3}), Calls({"v", "^", "-", "k", "*"}), Calls({"/"})>>,
      <<Scales({0, 2}), Calls({"k"}), Few, Few, Calls({"+", "-", "*", "/", "%"}), Few,
        Calls({"+", "-", "*", "/", "%"}), Calls({"v"})>>,
      <<Scales({2}), Calls({"k"}), Powers, Wholes, Calls({"%"}), Calls({"v", "*"})>>,
      <<Large, Large, Calls({"/", "%", "+", "-"}), Calls({"v"})>>,
      <<Powers, {Typing("0", <<1, 0, 1, 0, 1>>, 0)}, Calls({"^"}), Powers, Calls({"^", "+"})>>>>

-----------------------------------------------------------------------------
(* sed: every command with one address, ranges alone and behind a command    *)
(* that reads or changes the line, and scripts with loops and braces.        *)

Bare(name, text) ==
    [ad1 |-> NoAddr, ad2 |-> NoAddr, neg |-> FALSE, command |-> name, arg |-> text,
     gfl |-> 0, pfl |-> FALSE]
AtAddr(ad, c) == [c EXCEPT !.ad1 = ad]
Between(ad1, ad2, c) == [c EXCEPT !.ad1 = ad1, !.ad2 = ad2]
Except(c) == [c EXCEPT !.neg = TRUE]
ButLast(c) == Except(AtAddr(LastLine, c))
LineNo(k) == <<"line", k>>
Holding(ch) == <<"/", ch>>

Sub(re, rhs, gfl, pfl) == [Bare("s", <<re>> \o rhs) EXCEPT !.gfl = gfl, !.pfl = pfl]
AtoB == Sub("a", <<"b">>, 0, FALSE)
Joins == Sub(SedNL, <<"-">>, -1, FALSE)
Letter(c) == Bare(c, <<>>)
Texted(c) == Bare(c, <<"T">>)
Brace == Letter("{")
Unbrace == Letter("}")
Named1 == Bare(":", <<"x">>)
Named3 == Bare(":", <<"y">>)

Commands1 ==
    {Letter(c) : c \in {"p", "d", "n", "N", "D", "q", "=", "g", "G", "h", "H", "x", "P"}}
        \cup {Texted(c) : c \in {"a", "i", "c"}}
        \cup {Sub("a", <<"b">>, 0, TRUE), Sub("a", <<"&", "a">>, -1, FALSE)}
Either(cs) == cs \cup {Except(c) : c \in cs}
Singly ==
    Commands1 \cup Either({AtAddr(ad, c) : ad \in {LineNo(1), LineNo(2), LastLine, Holding("a")},
                                     c \in Commands1})
ToLine == {<<LineNo(2), LineNo(3)>>, <<LineNo(2), LineNo(1)>>, <<Holding("a"), LineNo(2)>>}
Ranges ==
    ToLine \cup {<<LineNo(1), LastLine>>, <<Holding("a"), Holding("b")>>,
                <<Holding("a"), Holding("a")>>, <<Holding("b"), LastLine>>}
Ranged(rs, cs) == Either({Between(r[1], r[2], c) : c \in cs, r \in rs})
Behind1 ==
    {<<Letter("n")>>, <<Letter("N")>>, <<ButLast(Letter("N"))>>, <<AtoB>>,
     <<Texted("a"), ButLast(Letter("N")), Letter("P")>>}
Behind2(cs) == {before \o <<c>> : before \in Behind1 \cup {<<>>}, c \in cs}
InRanges(rs) ==
    {<<c>> : c \in Ranged(rs, {Letter("d"), Letter("n"), Letter("N")})}
        \cup Behind2(Ranged(rs, {Letter("p"), Texted("c")}))
Idioms ==
    {<<Named1, ButLast(Brace), Letter("N"), Bare("b", <<"x">>), Unbrace, Joins>>,
     <<Except(AtAddr(LineNo(1), Letter("G"))), Letter("h"), ButLast(Letter("d"))>>,
     <<ButLast(Letter("N")), Letter("P"), Letter("D")>>,
     <<Letter("x"), AtAddr(LineNo(1), Letter("d")), Letter("p")>>,
     <<Between(Holding("a"), Holding("b"), Brace), Letter("="), AtAddr(Holding("b"), Brace),
       Texted("a"), Unbrace, Letter("H"), Unbrace, AtAddr(LastLine, Letter("g"))>>,
     <<Named1, AtoB, Bare("t", <<"x">>), Sub("b", <<"a">>, 2, FALSE)>>,
     <<AtoB, Bare("t", <<"y">>), Letter("d"), Named3, Sub("b", <<"a">>, 0, FALSE), Letter("N"),
       Letter("t"), Texted("i")>>,
     <<Texted("a"), Letter("N"), Bare("a", <<"U">>), Letter("D")>>,
     <<Between(LineNo(1), LineNo(2), Brace), Texted("a"), Letter("n"), Texted("i"), Unbrace>>,
     <<Texted("a"), AtAddr(LineNo(2), Letter("q"))>>}

SedTexts(n) == UNION {[1..k -> {<<"a">>, <<"b">>}] : k \in 0..n}
MCNoFile == <<<<"?">>>>
InTwo(n) ==
    {<<t, u>> : t \in SedTexts(n), u \in SedTexts(1)}
        \cup {<<MCNoFile, <<<<"a">>>>>>, <<<<<<"a">>>>, MCNoFile>>}
InOne(n) == {<<t>> : t \in SedTexts(n)}
OfFour == InOne(4) \ InOne(3)
Jobs(scripts, files, silent, standard) ==
    [script : scripts, files : files, cut : {{}}, nflag : silent, sus : standard]
\* Files whose last line has no newline
CutJobs(scripts, files) ==
    {[script |-> c, files |-> t, cut |-> x, nflag |-> FALSE, sus |-> FALSE] :
        c \in scripts, t \in files, x \in (SUBSET {1, 2}) \ {{}}}
MCSedJobs ==
    Jobs({<<c>> : c \in Singly}, InOne(3), {FALSE}, {FALSE})
        \cup Jobs({<<c>> : c \in Singly}, InTwo(1), {TRUE}, {FALSE})
        \cup Jobs(Behind2({Letter("D"), Joins}), InOne(4), {TRUE}, {FALSE})
        \cup Jobs(InRanges(Ranges), InOne(2) \cup OfFour, {TRUE}, {FALSE})
        \cup Jobs(InRanges(ToLine), OfFour, {TRUE}, {TRUE})
        \cup Jobs(Idioms, InOne(4) \cup InTwo(2) \cup {<<<<<<"a", "a", "b">>, <<"b", "b">>, <<>>>>>>},
                 BOOLEAN, {FALSE})
        \cup {j \in CutJobs({<<c>> : c \in Singly} \cup Idioms, InOne(2) \cup InTwo(1)) :
                \A k \in j.cut : k \in DOMAIN j.files /\ j.files[k] # <<>> /\ j.files[k] # MCNoFile}
OneJob == Jobs({<<>>}, {<<>>}, {TRUE}, {TRUE})

-----------------------------------------------------------------------------
(* fgrep: lists of short words, longer ones with links that are lost, and     *)
(* files that reads cut everywhere.                                           *)

MCLower == "A" :> "a"
MCNoGrepFile == <<"?">>
LookFor(words, file, flags, pipe, files) ==
    [words : words, fromFile : file, flags : flags, pipe : pipe, files : files]
OfLetters(n, S) == UNION {[1..k -> S] : k \in 0..n}
ShortWords == OfLetters(2, {"a", "b"})
WordLists == {<<>>} \cup {<<v>> : v \in ShortWords} \cup {<<v, w>> : v, w \in ShortWords}
LinkedWords ==
    {<<<<"a", "b">>, <<"b", "a", "b">>, w>> : w \in {<<"b">>, <<"a", "a">>, <<"b", "b", "a">>}}
        \cup {<<<<"a", "b", "b", "a">>>>, <<<<"b", "b", "a">>, <<"a", "b", "b", "b">>>>,
              <<<<"a", "a", "b", "a", "a", "a", "b">>>>,
              <<<<"a", "a", "b", "b">>, <<"b", "a">>>>}
OneLine(n) == {<<Append(t, EOL)>> : t \in [1..n -> {"a", "b"}]}
Streams(n, S) == {<<t>> : t \in OfLetters(n, S \cup {EOL})}
TwoFiles ==
    {<<MCNoGrepFile, <<"a">>, <<EOL, "a", EOL>>>>, <<<<"a">>, MCNoGrepFile>>, <<MCNoGrepFile, <<>>>>,
     <<<<"a", EOL>>, <<"b">>>>}
MCGrepJobs ==
    LookFor(WordLists, BOOLEAN, {{}, {"x"}}, {FALSE}, OneLine(3) \cup {<<<<EOL>>>>, <<<<"a", "b", EOL, "b">>>>})
        \cup LookFor(LinkedWords, {TRUE}, {{}, {"x"}, {"i"}}, {FALSE}, OneLine(5))
        \cup LookFor({<<<<"a">>>>}, {TRUE}, {{}, {"v"}, {"x"}, {"c", "v"}, {"l"}, {"q"}, {"i"}, {"v", "sus"}},
                    {TRUE}, Streams(5, {"a"}))
        \cup LookFor({<<<<"a", "A">>>>, <<<<"A">>, <<"b", "a">>>>}, {TRUE}, {{}, {"i"}, {"i", "x"}}, {FALSE},
                    Streams(3, {"a", "A"}))
        \cup LookFor({<<<<"a">>>>, <<<<>>>>, <<>>}, {TRUE}, {{}, {"q"}, {"c", "l"}, {"l"}}, BOOLEAN, TwoFiles)
OneSearch == LookFor({<<>>}, {TRUE}, {{}}, {FALSE}, {<<>>})

-----------------------------------------------------------------------------
(* The one that runs, and the others *)

One(S) == {CHOOSE e \in S : TRUE}

Only(t) == tool = t

ToolsInit ==
    /\ tool \in {"mail", "cp", "rm", "tail", "xargs", "sort", "dd", "regexec", "diff",
                "diffdir", "dc", "sed", "fgrep"}
    /\ SessionInit /\ (Only("mail") \/ (flgr /\ flgh))
    /\ \/ Only("cp") /\ CpInit
       \/ Only("cp") /\ CpBegin({Begin(TwoTrees, <<>>, 2)}, {Cmd("mv", {"r", "R", "d"})})
       \/ ~Only("cp") /\ CpBegin({Begin(<<>>, <<>>, 1)}, One(MCOpt))
    /\ \/ Only("rm") /\ RmInit
       \/ ~Only("rm") /\ RmBegin({FALSE}, One(Fds))
    /\ \/ Only("tail") /\ TailInit
       \/ ~Only("tail") /\ TailBegin({[p \in 1..TailMax |-> TRUE]}, One(TailOptions), {0})
    /\ \/ Only("xargs") /\ XargsInit
       \/ ~Only("xargs") /\ XargsBegin({<<>>}, One(MCLimits))
    /\ \/ Only("sort") /\ (SortInit \/ SortBegin(MCInOrder, MCMerges))
       \/ ~Only("sort") /\ SortBegin({<<<<>>>>}, {Order(FALSE, FALSE, FALSE, -1, 1)})
    /\ \/ Only("dd") /\ DdInit
       \/ ~Only("dd") /\ DdBegin({<<>>}, One(MCDdOptions))
    /\ \/ Only("regexec") /\ RegBegin(MCPatterns, MCCalls)
       \/ ~Only("regexec") /\ RegBegin({a}, {<<>>})
    /\ \/ Only("diff") /\ (DiffBegin(MCPairs, MCForms) \/ DiffBegin(MCEdits, MCNear))
       \/ ~Only("diff") /\ DiffBegin({[file |-> <<<<>>, <<>>>>, cut |-> {}]}, One(MCNear))
    /\ \/ Only("diffdir") /\ DdirInit
       \/ ~Only("diffdir") /\ DdirBegin({<<>> :> <<>>}, One(MCDdirOptions))
    /\ \/ Only("dc") /\ DcInit
       \/ ~Only("dc") /\ DcBegin({1})
    /\ \/ Only("sed") /\ SedInit
       \/ ~Only("sed") /\ SedBegin(OneJob)
    /\ \/ Only("fgrep") /\ GrepInit
       \/ ~Only("fgrep") /\ GrepBegin(OneSearch)

Others(t) ==
    /\ t = "mail" \/ UNCHANGED vars
    /\ t = "cp" \/ UNCHANGED cpVars
    /\ t = "rm" \/ UNCHANGED rmVars
    /\ t = "tail" \/ UNCHANGED tailVars
    /\ t = "xargs" \/ UNCHANGED xargsVars
    /\ t = "sort" \/ UNCHANGED sortVars
    /\ t = "dd" \/ UNCHANGED ddVars
    /\ t = "regexec" \/ UNCHANGED regVars
    /\ t = "diff" \/ UNCHANGED diffVars
    /\ t = "diffdir" \/ UNCHANGED ddirVars
    /\ t = "dc" \/ UNCHANGED dcVars
    /\ t = "sed" \/ UNCHANGED sedVars
    /\ t = "fgrep" \/ UNCHANGED grepVars
    /\ UNCHANGED tool

ToolsNext ==
    \/ Only("mail") /\ SessionNext /\ Others("mail")
    \/ Only("cp") /\ CpNext /\ Others("cp")
    \/ Only("rm") /\ RmNext /\ Others("rm")
    \/ Only("tail") /\ TailNext /\ Others("tail")
    \/ Only("xargs") /\ XargsNext /\ Others("xargs")
    \/ Only("sort") /\ SortNext /\ Others("sort")
    \/ Only("dd") /\ DdNext /\ Others("dd")
    \/ Only("regexec") /\ RegNext /\ Others("regexec")
    \/ Only("diff") /\ DiffNext /\ Others("diff")
    \/ Only("diffdir") /\ DdirNext /\ Others("diffdir")
    \/ Only("dc") /\ DcNext /\ Others("dc")
    \/ Only("sed") /\ SedNext /\ Others("sed")
    \/ Only("fgrep") /\ GrepNext /\ Others("fgrep")

ToolsSpec == ToolsInit /\ [][ToolsNext]_<<tool, vars, cpVars, rmVars, tailVars, xargsVars,
                                          sortVars, ddVars, regVars, diffVars, ddirVars, dcVars,
                                          sedVars, grepVars>>

\* Every variable of the program that runs has its type.
ToolsTypeOK ==
    CASE Only("mail") -> SessionTypeOK
      [] Only("cp") -> CpTypeOK
      [] Only("rm") -> RmTypeOK
      [] Only("tail") -> TailTypeOK
      [] Only("xargs") -> XargsTypeOK
      [] Only("sort") -> SortTypeOK
      [] Only("dd") -> DdTypeOK
      [] Only("regexec") -> RegTypeOK
      [] Only("diff") -> DiffTypeOK
      [] Only("diffdir") -> DdirTypeOK
      [] Only("dc") -> DcTypeOK
      [] Only("sed") -> SedTypeOK
      [] Only("fgrep") -> GrepTypeOK

=============================================================================
