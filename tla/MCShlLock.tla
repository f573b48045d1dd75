------------------------------ MODULE MCShlLock ------------------------------
(***************************************************************************)
(* shl, or the lock of mail, in a run: neither has anything to do with the *)
(* other.  The layers may be interchanged.                                 *)
(***************************************************************************)
EXTENDS Shl, MailLock, TLC

VARIABLE about

ShlLockInit ==
    \/ about = "shl" /\ ShlInit /\ LockInit
    \/ about = "lock" /\ ShlBegin("ended") /\ LockInit

ShlLockNext ==
    \/ about = "shl" /\ ShlNext /\ UNCHANGED <<about, lockvars>>
    \/ about = "lock" /\ LockNext /\ UNCHANGED <<about, vars>>

ShlLockSpec == ShlLockInit /\ [][ShlLockNext]_<<about, vars, lockvars>>

Symmetry == Permutations(Layer)

=============================================================================
