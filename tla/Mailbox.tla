------------------------------ MODULE Mailbox ------------------------------
(***************************************************************************)
(* What a mailbox is to those who use it: a sequence of letters.  Each is  *)
(* put at the end once, and the owner marks letters and has those that are *)
(* marked taken out.  As long as nothing has gone wrong that the programs  *)
(* cannot help, these are the only ways it changes.                        *)
(***************************************************************************)
EXTENDS Naturals, Sequences

CONSTANTS
    Letter,     \* all letters
    Start       \* the letters there are at the start

VARIABLES
    box,        \* the letters, in order
    been,       \* the letters that are or were in it
    bin,        \* the numbers of the letters that are marked
    sound       \* nothing has gone wrong so far

MailboxInit ==
    /\ box = Start
    /\ been = {Start[i] : i \in 1..Len(Start)}
    /\ bin = {}
    /\ sound = TRUE

\* A letter is never delivered twice.
Deliver(l) ==
    /\ l \in Letter \ been
    /\ box' = Append(box, l)
    /\ been' = been \cup {l}
    /\ bin' = bin

Mark ==
    /\ bin' \subseteq 1..Len(box)
    /\ UNCHANGED <<box, been>>

\* What is left are the letters that are not marked, all of them, in their order:
\* from says where each of them was.
TakeOut ==
    /\ \E from \in [1..Len(box') -> 1..Len(box)] :
        /\ \A i, j \in 1..Len(box') : i < j => from[i] < from[j]
        /\ \A i \in 1..Len(box') : box'[i] = box[from[i]]
        /\ {from[i] : i \in 1..Len(box')} = (1..Len(box)) \ bin
    /\ bin' = {}
    /\ been' = been

MailboxNext ==
    sound /\ sound' => \/ \E l \in Letter : Deliver(l)
                       \/ Mark
                       \/ TakeOut

MailboxSpec == MailboxInit /\ [][MailboxNext]_<<box, been, bin, sound>>

=============================================================================
