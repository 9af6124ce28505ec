----------------------------- MODULE MCCameraScan -----------------------------
(* An instance of CameraScan for TLC.                                      *)
EXTENDS CameraScan

ThreeAndOne == [c \in {"A", "B"} |-> IF c = "A" THEN {1, 2, 3} ELSE {1}]
OneByUsb    == [c \in {"A", "B"} |-> IF c = "A" THEN "A" ELSE "usb"]
=============================================================================
