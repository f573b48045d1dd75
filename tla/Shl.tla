-------------------------------- MODULE Shl --------------------------------
(***************************************************************************)
(* shl, the shell layer manager (shl/shl.c, as built where the slave's     *)
(* settings can be read from the master).  Each layer is a shell on a      *)
(* pseudo terminal.  One loop, doio(), polls the real terminal and all the *)
(* layers, both while a layer is current and while a command is typed.     *)
(*                                                                         *)
(* What poll() has reported is worked off entry by entry, against an array *)
(* made when doio() began; in between waitpid() takes the layers away in   *)
(* whatever order they died.  A layer is named by its process.             *)
(***************************************************************************)
EXTENDS Integers, Sequences, FiniteSets, SequencesExt, FiniteSetsExt

CONSTANTS
    Layer,      \* the layers there can be in one session of shl
    NoLayer,    \* NULL
    MaxLayer,   \* layers there can be at once (MAXLAYER, 7 in the code)
    Commands    \* the commands that the user types

ASSUME ShlAssumption == NoLayer \notin Layer /\ MaxLayer \in Nat \ {0}

VARIABLES
    chain,      \* the list of layers that begins at l0
    lcount,     \* the layers there are, in the list or lost from it
    lcur,       \* the current layer
    blk,        \* l_blk: output is blocked
    hadquit,
    mode,       \* "prompt" and "layer" in doio(), "command", "ended", "crashed"
    cmdbuf,     \* of the command: "none", "some", or "line" when it is complete
    step,       \* in doio(): "poll", "work", or "await"
    pfd,        \* the layers in the array given to poll()
    events,     \* the entries of it for which POLLIN is asked
    revents,    \* what poll() has reported and has not been worked off
    endloop,
    proc,       \* the process of a layer: "none", "run", "zombie", "reaped"
    tty,        \* whether somebody has the layer's slave terminal open
    out,        \* whether the layer has written what nobody has read
    open,       \* the layers whose master terminal shl has open
    told        \* history: the layers that were sent SIGHUP

list == <<chain, lcount>>
looping == <<step, pfd, events, revents, endloop>>
layers == <<proc, tty, out, open, told>>
vars == <<list, lcur, blk, hadquit, mode, cmdbuf, looping, layers>>

ShlTypeOK ==
    /\ chain \in Seq(Layer) /\ lcount \in Len(chain)..MaxLayer
    /\ lcur \in Layer \cup {NoLayer}
    /\ blk \in [Layer -> BOOLEAN] /\ hadquit \in BOOLEAN
    /\ mode \in {"prompt", "layer", "command", "ended", "crashed"}
    /\ cmdbuf \in {"none", "some", "line"}
    /\ step \in {"poll", "work", "await"}
    /\ pfd \in Seq(Layer)
    /\ events \subseteq 1..Len(pfd)
    /\ revents \in [0..Len(pfd) -> SUBSET {"in", "hup"}] /\ endloop \in BOOLEAN
    /\ proc \in [Layer -> {"none", "run", "zombie", "reaped"}]
    /\ tty \in [Layer -> BOOLEAN] /\ out \in [Layer -> BOOLEAN]
    /\ open \subseteq Layer /\ told \subseteq Layer

nfds == Len(pfd)
Listed == ToSet(chain)
Children == {l \in Layer : proc[l] \in {"run", "zombie"}}

\* doio() is called: the array is made from the list as it is.
Doio(m, c) ==
    /\ mode' = m
    /\ step' = "poll"
    /\ pfd' = c
    /\ events' = 1..Len(c)
    /\ revents' = [k \in 0..Len(c) |-> {}]
    /\ endloop' = FALSE

Prompt(c) == Doio("prompt", c) /\ cmdbuf' = "none"

ShlBegin(m) ==
    /\ chain = <<>> /\ lcount = 0 /\ lcur = NoLayer
    /\ blk = [l \in Layer |-> FALSE]
    /\ hadquit = FALSE
    /\ mode = m /\ cmdbuf = "none"
    /\ step = "poll" /\ pfd = <<>> /\ events = {}
    /\ revents = [k \in 0..0 |-> {}] /\ endloop = FALSE
    /\ proc = [l \in Layer |-> "none"]
    /\ tty = [l \in Layer |-> FALSE]
    /\ out = [l \in Layer |-> FALSE]
    /\ open = {}
    /\ told = {}

ShlInit == ShlBegin("prompt")

-----------------------------------------------------------------------------
(* The list of layers *)

PlaceIn(c, l) == CHOOSE i \in DOMAIN c : c[i] = l

Before(c, l) == IF PlaceIn(c, l) = 1 THEN NoLayer ELSE c[PlaceIn(c, l) - 1]

Without(c, l) == IF l \in ToSet(c) THEN RemoveAt(c, PlaceIn(c, l)) ELSE c

\* Mutant: the layer stays where it is in the list.
SetcurInPlace(l) ==
    /\ chain' = IF l \in Listed THEN chain ELSE Append(chain, l)
    /\ lcur' = l

\* setcur(): to the end of the list.
Setcur(l) ==
    /\ chain' = Append(Without(chain, l), l)
    /\ lcur' = l

\* Mutant: lfree() without setprev().
LfreeOnly(l) ==
    /\ open' = open \ {l}
    /\ lcount' = lcount - 1
    /\ chain' = Without(chain, l)
    /\ UNCHANGED lcur

\* setprev(1) and lfree() when the current layer has gone, else lfree() alone.
\* setprev(1) takes the list to be empty when there is no previous layer.
Lfree(l) ==
    /\ open' = open \ {l}
    /\ lcount' = lcount - 1
    /\ IF l = lcur
       THEN /\ lcur' = Before(chain, l)
            /\ chain' = IF lcur' = NoLayer THEN <<>> ELSE Without(chain, l)
       ELSE /\ chain' = Without(chain, l)
            /\ UNCHANGED lcur

-----------------------------------------------------------------------------
(* doio() *)

InDoio == mode \in {"prompt", "layer"}

\* What poll() reports of a master depends on what the slave side has done; the
\* entry of a layer that was freed is closed.
Reported(k) ==
    {e \in {"in", "hup"} :
        /\ pfd[k] \in open
        /\ \/ e = "in" /\ k \in events /\ out[pfd[k]]
           \/ e = "hup" /\ ~tty[pfd[k]]}

Poll ==
    /\ InDoio /\ step = "poll"
    /\ \E typed \in SUBSET {"in"} :
        revents' = [k \in 0..nfds |-> IF k = 0 THEN typed ELSE Reported(k)]
    /\ \E k \in 0..nfds : revents'[k] # {}
    /\ step' = "work"
    /\ UNCHANGED <<list, lcur, blk, hadquit, mode, cmdbuf, pfd, events, endloop,
                   layers>>

\* The entry whose turn it is.
Turn == Min({k \in 0..nfds : revents[k] # {}})
Working == InDoio /\ step = "work" /\ \E k \in 0..nfds : revents[k] # {}
Worked(k) == revents' = [revents EXCEPT ![k] = {}]

\* doinput(): a piece of a command, the end of one, text for the current layer,
\* or the character that switches back to shl.
DoInput ==
    /\ Working /\ Turn = 0
    /\ Worked(0)
    /\ \/ mode = "prompt" /\ cmdbuf' = "some" /\ UNCHANGED endloop
       \/ mode = "prompt" /\ cmdbuf' = "line" /\ endloop' = TRUE
       \/ mode = "layer" /\ UNCHANGED <<cmdbuf, endloop>>
       \/ mode = "layer" /\ endloop' = TRUE /\ UNCHANGED cmdbuf
    /\ UNCHANGED <<list, lcur, blk, hadquit, mode, step, pfd, events, layers>>

\* Mutant: cmdptr is not looked at.
ForemostAlways(k) == k = nfds

\* The last entry is taken for that of the current layer, whose output is passed
\* on whether it is blocked or not.
Foremost(k) == k = nfds /\ mode = "layer"

DoOutput ==
    /\ Working /\ Turn # 0 /\ "in" \in revents[Turn]
    /\ LET l == pfd[Turn]
       IN  \/ /\ Foremost(Turn) \/ (l \in Listed /\ ~blk[l])
              /\ out' = [out EXCEPT ![l] = @ /\ l \notin open]
              /\ Worked(Turn)
              /\ UNCHANGED <<mode, events>>
           \/ /\ ~Foremost(Turn) /\ l \in Listed /\ blk[l]
              /\ events' = events \ {Turn}
              /\ Worked(Turn)
              /\ UNCHANGED <<mode, out>>
           \* lbypty() returns NULL
           \/ /\ ~Foremost(Turn) /\ l \notin Listed
              /\ mode' = "crashed"
              /\ UNCHANGED <<out, events, revents>>
    /\ UNCHANGED <<list, lcur, blk, hadquit, cmdbuf, step, pfd, endloop, proc, tty,
                   open, told>>

\* Mutant: only the current layer is waited for.
HangUpCurrent ==
    /\ Working /\ Turn # 0 /\ revents[Turn] = {"hup"}
    /\ Worked(Turn)
    /\ step' = IF pfd[Turn] = lcur THEN "await" ELSE step
    /\ UNCHANGED <<list, lcur, blk, hadquit, mode, cmdbuf, pfd, events, endloop,
                   layers>>

\* A layer's terminal was hung up.
HangUp ==
    /\ Working /\ Turn # 0 /\ revents[Turn] = {"hup"}
    /\ Worked(Turn)
    /\ step' = "await"
    /\ UNCHANGED <<list, lcur, blk, hadquit, mode, cmdbuf, pfd, events, endloop,
                   layers>>

\* await(): any child that has ended, again until it is one of a layer.  While
\* there are only children that run it goes round without end.
Await ==
    /\ InDoio /\ step = "await"
    /\ \/ \E l \in Children :
            /\ proc[l] = "zombie"
            /\ proc' = [proc EXCEPT ![l] = "reaped"]
            /\ \/ /\ l \in Listed
                  /\ Lfree(l)
                  /\ endloop' = (endloop \/ l = lcur)
                  /\ step' = "work"
               \/ /\ l \notin Listed
                  /\ UNCHANGED <<list, lcur, open, endloop, step>>
       \/ /\ Children = {}
          /\ step' = "work"
          /\ endloop' = (endloop \/ lcur = NoLayer)
          /\ UNCHANGED <<list, lcur, open, proc>>
    /\ UNCHANGED <<blk, hadquit, mode, cmdbuf, pfd, events, revents, tty, out, told>>

PollAgain ==
    /\ InDoio /\ step = "work" /\ ~Working /\ ~endloop
    /\ step' = "poll"
    /\ UNCHANGED <<list, lcur, blk, hadquit, mode, cmdbuf, pfd, events, revents,
                   endloop, layers>>

\* doio() returns: to getaline(), which calls it again unless something was
\* typed, or from a layer to the prompt.
LeaveDoio ==
    /\ InDoio /\ step = "work" /\ ~Working /\ endloop
    /\ IF mode = "prompt" /\ cmdbuf # "none"
       THEN mode' = "command" /\ UNCHANGED <<cmdbuf, looping>>
       ELSE Prompt(chain)
    /\ UNCHANGED <<list, lcur, blk, hadquit, layers>>

DoioStep ==
    \/ Poll \/ DoInput \/ DoOutput \/ HangUp \/ Await \/ PollAgain \/ LeaveDoio

-----------------------------------------------------------------------------
(* The commands *)

Command(c) == mode = "command" /\ c \in Commands

Resume(l) == Setcur(l) /\ Doio("layer", chain') /\ UNCHANGED cmdbuf

\* Mutant: the layers are not counted.
CreateUncounted ==
    /\ Command("create")
    /\ lcount' = lcount + 1
    /\ \E l \in Layer :
        /\ proc[l] = "none"
        /\ Resume(l)
        /\ proc' = [proc EXCEPT ![l] = "run"]
        /\ tty' = [tty EXCEPT ![l] = TRUE]
        /\ open' = open \cup {l}
    /\ hadquit' = FALSE
    /\ UNCHANGED <<blk, out, told>>

\* lalloc(), setcur(), lspawn().
Create ==
    /\ Command("create")
    /\ lcount < MaxLayer
    /\ lcount' = lcount + 1
    /\ \E l \in Layer :
        /\ proc[l] = "none"
        /\ Resume(l)
        /\ proc' = [proc EXCEPT ![l] = "run"]
        /\ tty' = [tty EXCEPT ![l] = TRUE]
        /\ open' = open \cup {l}
    /\ hadquit' = FALSE
    /\ UNCHANGED <<blk, out, told>>

\* lspawn() fails: the new layer, which is the last and the current one by then,
\* goes and the one before it is current.
CreateFails ==
    /\ Command("create")
    /\ lcount < MaxLayer
    /\ lcur' = IF chain = <<>> THEN NoLayer ELSE Last(chain)
    /\ hadquit' = FALSE
    /\ Prompt(chain)
    /\ UNCHANGED <<list, blk, layers>>

Block ==
    /\ Command("block")
    /\ \E l \in Listed, b \in BOOLEAN : blk' = [blk EXCEPT ![l] = b]
    /\ hadquit' = FALSE
    /\ Prompt(chain)
    /\ UNCHANGED <<list, lcur, layers>>

\* ldelete(): the layer stays in the list until it has been waited for, but
\* the one before it, if there is one, is current.
Delete ==
    /\ Command("delete")
    /\ \E l \in Listed :
        /\ told' = told \cup {l}
        /\ lcur' = IF l # lcur THEN lcur
                   ELSE IF Before(chain, l) # NoLayer THEN Before(chain, l)
                   ELSE chain[1]
    /\ hadquit' = FALSE
    /\ Prompt(chain)
    /\ UNCHANGED <<list, blk, proc, tty, out, open>>

\* resume, toggle, and a name alone; without an argument it is the current one.
ResumeLayer ==
    /\ Command("resume")
    /\ \E l \in Listed : Resume(l)
    /\ hadquit' = FALSE
    /\ UNCHANGED <<lcount, blk, layers>>

Toggle ==
    /\ Command("toggle")
    /\ lcur # NoLayer
    /\ Resume(IF Before(chain, lcur) = NoLayer THEN lcur ELSE Before(chain, lcur))
    /\ hadquit' = FALSE
    /\ UNCHANGED <<lcount, blk, layers>>

\* quit(): SIGHUP for every layer of the list.
Quit ==
    /\ told' = told \cup Listed
    /\ mode' = "ended"
    /\ UNCHANGED <<list, lcur, blk, hadquit, cmdbuf, looping, proc, tty, out, open>>

\* c_quit(): the first time it only warns.
QuitCommand ==
    /\ Command("quit")
    /\ \/ /\ chain # <<>> /\ ~hadquit
          /\ hadquit' = TRUE
          /\ Prompt(chain)
          /\ UNCHANGED <<list, lcur, blk, layers>>
       \/ /\ chain = <<>> \/ hadquit
          /\ Quit

\* An error, help or layers, or an empty line, after which quit is still
\* remembered.
OtherCommand ==
    /\ mode = "command"
    /\ hadquit' \in {FALSE, hadquit}
    /\ Prompt(chain)
    /\ UNCHANGED <<list, lcur, blk, layers>>

\* onhup()
OnHup == mode \notin {"ended", "crashed"} /\ Quit

AnyCommand ==
    \/ Create \/ CreateFails \/ Block \/ Delete
    \/ ResumeLayer \/ Toggle \/ QuitCommand \/ OtherCommand

-----------------------------------------------------------------------------
(* What goes on in the layers *)

Write(l) ==
    /\ proc[l] = "run" /\ tty[l] /\ ~out[l]
    /\ out' = [out EXCEPT ![l] = TRUE]
    /\ UNCHANGED <<proc, tty>>

\* The last process that has the slave open closes it.
CloseTty(l) ==
    /\ tty[l]
    /\ tty' = [tty EXCEPT ![l] = FALSE]
    /\ UNCHANGED <<proc, out>>

Exit(l) ==
    /\ proc[l] = "run"
    /\ proc' = [proc EXCEPT ![l] = "zombie"]
    /\ UNCHANGED <<tty, out>>

InLayer(l) ==
    /\ Write(l) \/ CloseTty(l) \/ Exit(l)
    /\ UNCHANGED <<list, lcur, blk, hadquit, mode, cmdbuf, looping, open, told>>

ShlNext ==
    \/ DoioStep \/ AnyCommand \/ OnHup
    \/ \E l \in Layer : InLayer(l)

ShlSpec == ShlInit /\ [][ShlNext]_vars

\* shl itself goes on, and a process that has given up its terminal ends.
ShlFairness ==
    /\ WF_vars(DoioStep) /\ WF_vars(AnyCommand)
    /\ \A l \in Layer : WF_vars(~tty[l] /\ Exit(l)
                                /\ UNCHANGED <<list, lcur, blk, hadquit, mode,
                                               cmdbuf, looping, open, told>>)

FairShlSpec == ShlSpec /\ ShlFairness

-----------------------------------------------------------------------------
(* Properties *)

\* Every layer whose process has not been waited for is in the list, where
\* resume, delete and quit find it, unless it was deleted; and only those are.  There
\* is a current one as long as there are any: doinput() writes to it without a look.
NoLayerForgotten ==
    /\ Listed \subseteq Children /\ Children \subseteq Listed \cup told
    /\ IF chain = <<>> THEN lcur = NoLayer ELSE lcur \in Listed

\* In the main loop of a layer the last entry of the array is that of the layer
\* itself, until it is reaped.
InputHasAReader ==
    Working /\ Turn = 0 /\ mode = "layer" => lcur \in open /\ pfd[nfds] = lcur

\* "Block output of the given layers when they are not current layers."
BlockedStaysQuiet ==
    [][\A l \in Layer : out[l] /\ ~out'[l] => ~blk[l] \/ (l = lcur /\ mode = "layer")]_vars

\* A layer whose shell has ended and whose terminal nobody has open is taken off
\* the list, current or in the background.  (One that is blocked and has output
\* nobody will see may wait for as long as the user types commands.)
EndedLayersGo ==
    \A l \in Layer :
        proc[l] = "zombie" /\ ~tty[l] /\ l \in Listed
            ~> \/ l \notin Listed \/ mode \in {"ended", "crashed"}
               \/ blk[l] /\ out[l]

=============================================================================
