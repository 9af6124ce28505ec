---------------------------- MODULE MCPtpSession ----------------------------
(* Instances of PtpSession for TLC: three bulk callers, the scan and the   *)
(* user's disconnect button.                                               *)
EXTENDS PtpSession, TLC

CONSTANTS b1, b2, b3, scan, user

(* Bulk callers play no other part, so they are interchangeable.           *)
Symmetric == Permutations(Bulk)
=============================================================================
