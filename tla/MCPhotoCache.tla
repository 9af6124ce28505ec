----------------------------- MODULE MCPhotoCache -----------------------------
(* Instances of PhotoCache for TLC: three photos, the first of them twice  *)
(* the size of the others.                                                 *)
EXTENDS PhotoCache, TLC

CONSTANTS h1, h2, h3, viewer, loopA, loopB

Small      == {h1, h2, h3}
SmallSizes == (h1 :> 2) @@ (h2 :> 1) @@ (h3 :> 1)
SmallLists == {<<h1, h2, h3>>}
=============================================================================
