-------------------------------- MODULE MCMtp --------------------------------
(* Instances of Mtp for TLC: two stores, with a directory and a file in it   *)
(* in one and, in the other, a directory in the way of the file's copy.      *)
EXTENDS Mtp

First    == (<<1>> :> "dir") @@ (<<1, 1>> :> "a")
InTheWay == (<<1>> :> "dir") @@ (<<1, 1>> :> "dir")

OneStart == {(1 :> First) @@ (2 :> InTheWay)}

OneFile == {<<1, <<1, 2>>>>}
NoFile  == {}
=============================================================================
