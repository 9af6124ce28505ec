----------------------------- MODULE MCGpsRecords -----------------------------
(* Instances of GpsRecords for TLC.  Place 1 is near 0 and near 2, and     *)
(* from 0 to 2 one cannot get within one instant.                          *)
EXTENDS GpsRecords

At(t, p) == [ts |-> t, place |-> p]

Walk == {At(1, 0), At(2, 1), At(3, 0), At(4, 2)}
Old(t, p) == [ts |-> t, place |-> p, start |-> 0]

(* An empty file, and one of an older version: repeated, and out of order. *)
OldFile == {<<>>, <<Old(2, 0), Old(1, 0), Old(1, 0)>>}
=============================================================================
