------------------------------- MODULE MCLive -------------------------------
(***************************************************************************)
(* What must happen some day: mail with every failure and signals, and shl,*)
(* one or the other in a run.                                              *)
(***************************************************************************)
EXTENDS Mail

CONSTANTS Layer, NoLayer, MaxLayer, Commands

VARIABLES
    program,
    chain, lcount, lcur, blk, hadquit, mode, cmdbuf, step, pfd, events, revents, endloop,
    proc, tty, out, open, told

session == <<chain, lcount, lcur, blk, hadquit, mode, cmdbuf, step, pfd, events, revents, endloop,
             proc, tty, out, open, told>>

Session == INSTANCE Shl

LiveInit ==
    /\ MailInit
    /\ \/ program = "mail" /\ Session!ShlBegin("ended")
       \/ program = "shl" /\ Session!ShlInit

LiveNext ==
    \/ program = "mail" /\ MailNext /\ UNCHANGED <<program, session>>
    \/ program = "shl" /\ Session!ShlNext /\ UNCHANGED <<program, vars>>

\* The program that does not run has nothing to do that would have to happen.
LiveSpec ==
    /\ LiveInit /\ [][LiveNext]_<<program, vars, session>>
    /\ Fairness /\ Session!ShlFairness

\* A layer whose shell has ended goes off the list.
EndedLayersGo == Session!EndedLayersGo

=============================================================================
