---------------------------- MODULE MCGpsRecorder ----------------------------
(* Instances of GpsRecorder for TLC: up to three calls of the settings page *)
(* at once, and two frequencies.                                           *)
EXTENDS GpsRecorder

CONSTANTS u1, u2, u3, coarse, fine
=============================================================================
