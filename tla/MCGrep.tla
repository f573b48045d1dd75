-------------------------------- MODULE MCGrep --------------------------------
(* An instance of Grep for TLC: files that a pipe hands over in any pieces. *)
EXTENDS Grep, TLC

Lower == "A" :> "a"
NotThere == <<"?">>
Texts == UNION {[1..n -> {"a", "b", EOL}] : n \in 0..4}
Pipes ==
    [words : {<<<<"a">>>>}, fromFile : {TRUE}, flags : {{}, {"v"}, {"x"}}, pipe : {TRUE},
     files : {<<t>> : t \in Texts}]

=============================================================================
