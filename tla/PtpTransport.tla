----------------------------- MODULE PtpTransport -----------------------------
(***************************************************************************)
(* The contract CameraService relies on (interface PtpTransport in         *)
(* pages/PtpHost.ets): a call for data is answered once, with the data of  *)
(* the object it asked for or with nothing, and every call is answered.    *)
(* How calls share a cable, a flag and an engine is not part of it.        *)
(***************************************************************************)
EXTENDS FiniteSets

CONSTANT Callers

VARIABLES
    pending,   \* callers whose call has not been answered
    answer     \* what the step just taken answered, "none" if it did not

vars == <<pending, answer>>

Init == pending = {} /\ answer = "none"

Ask(c) ==
    /\ c \notin pending
    /\ pending' = pending \cup {c} /\ answer' = "none"

Answer(c) ==
    /\ c \in pending
    /\ pending' = pending \ {c} /\ answer' \in {"own", "nothing"}

(* A call made without a session, or on a lost one, is answered at once.   *)
Decline(c) ==
    /\ c \notin pending
    /\ answer' = "nothing" /\ UNCHANGED pending

Between == answer' = "none" /\ UNCHANGED pending

Next == (\E c \in Callers : Ask(c) \/ Answer(c) \/ Decline(c)) \/ Between

Spec == Init /\ [][Next]_vars /\ \A c \in Callers : WF_vars(Answer(c))
=============================================================================
