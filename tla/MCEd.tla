-------------------------------- MODULE MCEd --------------------------------
(* Instances of Ed for TLC. *)
EXTENDS Ed

=============================================================================
