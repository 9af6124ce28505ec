---------------------------- MODULE MCViewerQueue ----------------------------
(* Instances of ViewerQueue for TLC.  Of two loops the second is there to  *)
(* show that it is never begun.                                            *)
EXTENDS ViewerQueue

OneAndAnother == 1..2
=============================================================================
