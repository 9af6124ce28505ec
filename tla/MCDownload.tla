------------------------------ MODULE MCDownload ------------------------------
(* Instances of Download for TLC: two photos of different names, or two of *)
(* the same name of which the first is larger.                             *)
EXTENDS Download

CONSTANTS p1, p2, u1, u2

TwoNames == p1 :> "a" @@ p2 :> "b"
OneName  == p1 :> "a" @@ p2 :> "a"
Sizes    == p1 :> 2 @@ p2 :> 1
Both     == {<<p1, p2>>}

Symmetry == Permutations(Items)
=============================================================================
