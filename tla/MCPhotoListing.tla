---------------------------- MODULE MCPhotoListing ----------------------------
(* Instances of PhotoListing for TLC: every camera with these objects on   *)
(* one or two cards.                                                       *)
EXTENDS PhotoListing

Four     == {11, 12, 13, 14}
TwoCards == {21, 22}
=============================================================================
