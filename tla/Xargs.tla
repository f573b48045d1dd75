-------------------------------- MODULE Xargs --------------------------------
(***************************************************************************)
(* xargs (xargs/xargs.c): how what is read is divided into commands.  An   *)
(* argument is its index in the input; of its text there is left the size  *)
(* that it takes, whether its line ends right behind it, and whether it is *)
(* the end-of-file string.                                                 *)
(***************************************************************************)
EXTENDS Integers, Sequences, FiniteSets, SequencesExt, FiniteSetsExt, Functions

CONSTANTS
    XInputs,    \* what may be read: sequences of records size, eol, eof
    XOptions,   \* the options: records n, l, s (0: not given), x, i, p
    CmdSize,    \* a_asz: the command's own words and their null bytes
    BraceSize,  \* of which this is the word that -i replaces
    ArgMax,     \* a_maxsize if there is no -s
    CmdCount,   \* a_cnt: the command's own words
    MaxVec      \* the length of a_vec

\* -l sets xflag, too; addcmd() leaves room in a_vec for more than the command.
ASSUME XargsAssumption ==
    /\ CmdSize \in Nat /\ BraceSize \in 0..CmdSize /\ ArgMax \in Nat
    /\ CmdCount \in Nat /\ MaxVec \in Nat /\ CmdCount < MaxVec
    /\ XInputs \subseteq Seq([size : Nat \ {0}, eol : BOOLEAN, eof : BOOLEAN])
    /\ XOptions \subseteq [n : Nat, l : Nat, s : Nat, x : BOOLEAN, i : BOOLEAN]
    /\ \A o \in XOptions : o.l > 0 => o.x

VARIABLES
    input, limit,   \* the standard input and the options
    taken,          \* how many arguments nextarg() has returned
    linecnt,
    arg,            \* what addarg() or insert() is called with, 0 for NULL
    always,         \* addarg(): the last line of a command is complete
    toolong,        \* addarg(): arg belongs to the next command
    a_vec,          \* the arguments put behind the command
    didexec,
    xat,            \* where in process() and addarg(); "end" and "exit" are last
    ran             \* history: the arguments of each run(), in order

xargsVars == <<input, limit, taken, linecnt, arg, always, toolong, a_vec,
               didexec, xat, ran>>

\* endcmd(): the size that is left for arguments
a_maxsize == IF limit.s > 0 THEN Min({limit.s, ArgMax}) ELSE ArgMax

Size(k) == input[k].size
a_csz(v) ==
    LET sum[k \in 0..Len(v)] == IF k = 0 THEN 0 ELSE sum[k - 1] + Size(v[k])
    IN  sum[Len(v)]

\* endcmd(): a_maxarg, less the command
MaxArgs ==
    IF limit.n > 0 /\ limit.n < MaxVec + CmdCount THEN limit.n ELSE MaxVec - CmdCount

\* Mutant: <= in the place of <.
HasRoomForOneMore(v, k) ==
    /\ a_csz(v) + Size(k) <= a_maxsize
    /\ Len(v) <= MaxArgs

\* a_csz + sz <= a_maxsize && a_cur < a_maxarg
HasRoom(v, k) ==
    /\ a_csz(v) + Size(k) <= a_maxsize
    /\ Len(v) < MaxArgs

XargsBegin(inputs, options) ==
    /\ input \in inputs /\ limit \in options
    /\ taken = 0 /\ linecnt = 0 /\ arg = 0
    /\ always = FALSE /\ toolong = FALSE /\ didexec = FALSE
    /\ a_vec = <<>> /\ ran = <<>> /\ xat = "next"

XargsInit == XargsBegin(XInputs, XOptions)

(***************************************************************************)
(* process(): the next argument, or NULL at the end of the input and at    *)
(* the end-of-file string.                                                 *)
(***************************************************************************)
AtEof == taken = Len(input) \/ input[taken + 1].eof

NextInput ==
    /\ xat = "next"
    /\ arg' = IF AtEof THEN 0 ELSE taken + 1
    /\ taken' = IF AtEof THEN taken ELSE taken + 1
    /\ LET lines == linecnt + IF ~AtEof /\ input[taken + 1].eol THEN 1 ELSE 0
           full  == limit.l > 0 /\ limit.l = lines
       IN  always' = full /\ linecnt' = IF full THEN 0 ELSE lines
    /\ xat' = CASE ~limit.i -> "add" [] limit.i /\ ~AtEof -> "insert" [] OTHER -> "end"
    /\ UNCHANGED <<input, limit, toolong, a_vec, didexec, ran>>

\* an argument that alone is too large: exit(1)
AddSingleTooLong ==
    /\ xat = "add" /\ arg # 0 /\ a_vec = <<>> /\ Size(arg) > a_maxsize
    /\ xat' = "exit"
    /\ UNCHANGED <<input, limit, taken, linecnt, arg, always, toolong, a_vec, didexec, ran>>

\* It fits.  The command is run if the argument completes the last of its lines.
AddFits ==
    /\ xat = "add" /\ arg # 0 /\ HasRoom(a_vec, arg)
    /\ a_vec' = Append(a_vec, arg)
    /\ toolong' = FALSE
    /\ xat' = IF always THEN "run" ELSE "next"
    /\ always' = FALSE
    /\ UNCHANGED <<input, limit, taken, linecnt, arg, didexec, ran>>

\* It does not: the command is run without it, or, if lines must not be divided, never.
AddFull ==
    /\ xat = "add" /\ arg # 0 /\ a_vec # <<>> /\ ~HasRoom(a_vec, arg)
    /\ toolong' = TRUE
    /\ xat' = IF limit.l > 0 /\ limit.x /\ ~always THEN "exit" ELSE "run"
    /\ always' = FALSE
    /\ UNCHANGED <<input, limit, taken, linecnt, arg, a_vec, didexec, ran>>

\* addarg(NULL): the last command, which is run without arguments if it is also the first
AddNull ==
    /\ xat = "add" /\ arg = 0
    /\ xat' = IF (didexec \/ limit.l > 0) /\ a_vec = <<>> THEN "end" ELSE "run"
    /\ UNCHANGED <<input, limit, taken, linecnt, arg, always, toolong, a_vec, didexec, ran>>

\* insert(): one command for each line, of which all the words count
Insert ==
    /\ xat = "insert"
    /\ IF CmdSize - BraceSize + Size(arg) > a_maxsize
       THEN xat' = "exit" /\ UNCHANGED a_vec
       ELSE xat' = "run" /\ a_vec' = <<arg>>
    /\ UNCHANGED <<input, limit, taken, linecnt, arg, always, toolong, didexec, ran>>

(***************************************************************************)
(* run().  A command that is killed or returns 255 ends xargs, and so does *)
(* a fork() that fails, or an end of file at the question of -p; a command *)
(* that is refused there is left out, and the next one is put together.    *)
(***************************************************************************)
Run ==
    /\ xat = "run"
    /\ ran' = Append(ran, a_vec)
    /\ a_vec' = <<>> /\ didexec' = TRUE
    /\ \/ xat' = CASE toolong -> "add" [] ~toolong /\ arg = 0 -> "end" [] OTHER -> "next"
       \/ xat' = "exit"
    /\ UNCHANGED <<input, limit, taken, linecnt, arg, always, toolong>>

XargsNext ==
    NextInput \/ AddSingleTooLong \/ AddFits \/ AddFull \/ AddNull \/ Insert \/ Run

XargsSpec == XargsInit /\ [][XargsNext]_xargsVars

-----------------------------------------------------------------------------
XargsTypeOK ==
    /\ taken \in 0..Len(input) /\ arg \in 0..taken
    /\ linecnt \in 0..Len(input)
    /\ {always, toolong, didexec} \subseteq BOOLEAN
    /\ Range(a_vec) \subseteq 1..taken
    /\ xat \in {"next", "add", "insert", "run", "end", "exit"}

InCommands == FlattenSeq(ran) \o a_vec

\* the argument that addarg() or insert() has not yet put anywhere; xargs may
\* give up with it
Held == IF arg # 0 /\ \/ xat \in {"add", "insert"}
                      \/ xat = "run" /\ toolong
                      \/ xat = "exit" /\ arg \notin Range(InCommands)
        THEN <<arg>> ELSE <<>>

EachOnceInOrder == InCommands \o Held = [k \in 1..taken |-> k]

WithinLimits ==
    \A j \in DOMAIN ran :
        /\ a_csz(ran[j]) <= a_maxsize
        /\ Len(ran[j]) <= MaxArgs
        /\ ran[j] = <<>> => Len(ran) = 1

\* the lines that end in a command
LinesOf(v) == Cardinality({j \in DOMAIN v : input[v[j]].eol})

EndsForAReason ==
    \A j \in 1..(Len(ran) - 1) :
        \/ limit.i
        \/ ~HasRoom(ran[j], ran[j + 1][1])
        \/ limit.l > 0 /\ LinesOf(ran[j]) >= limit.l /\ input[Last(ran[j])].eol

NothingLeft == xat = "end" => a_vec = <<>> /\ AtEof

\* Every argument that was read is in exactly one command, in the order of the
\* input, none is larger or has more arguments than the options allow, a
\* command is ended only by an argument that has no more room or by the last
\* of its lines, and none is left over at the end of the input (addarg(),
\* whose do-while puts an argument that did not fit into the next command).
XargsDivides == EachOnceInOrder /\ WithinLimits /\ EndsForAReason /\ NothingLeft

\* "Invokes command for each number of lines": no command has more of them
\* (with -s, an argument that does not fit and completes its line is carried
\* into the next command).
LinesAsGiven == limit.l > 0 => \A j \in DOMAIN ran : LinesOf(ran[j]) <= limit.l
=============================================================================
