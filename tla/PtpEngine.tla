------------------------------ MODULE PtpEngine ------------------------------
(***************************************************************************)
(* The native PTP engine (cpp/ptp_engine.cpp): one process-wide object,    *)
(* shared by every caller, that builds command containers and reassembles  *)
(* what the bulk-IN endpoint returns.  This module holds its two state     *)
(* changing operations as functions of the engine's state, so that every   *)
(* module that talks to a camera can use them in its own steps.            *)
(*                                                                         *)
(* Bytes are abstracted to units.  A container header is one unit, a PTP   *)
(* response container is a header with nothing behind it, so it is one     *)
(* unit too, and a payload is cut in units of equal size.  A unit knows    *)
(* the transaction it was sent for ("txn"): no code reads that field, the  *)
(* properties do.                                                          *)
(***************************************************************************)
EXTENDS Naturals, Sequences

(* A unit of the IN stream.  "n" is the payload length of the container a  *)
(* header opens or a payload unit belongs to; in a response it is 1 for    *)
(* the code PTP_RC_OK (0x2001) and 0 for any other.                        *)
Unit(Txn, MaxLen) == [kind : {"data", "payload", "response"}, txn : Txn, n : 0..MaxLen]

DataHeader(t, len) == [kind |-> "data", txn |-> t, n |-> len]
Response(t, ok)    == [kind |-> "response", txn |-> t, n |-> IF ok THEN 1 ELSE 0]

(* The payload of transaction t, and the whole data container around it.   *)
Payload(t, len)       == [i \in 1..len |-> [kind |-> "payload", txn |-> t, n |-> len]]
DataContainer(t, len) == <<DataHeader(t, len)>> \o Payload(t, len)

(* What getResp can say of a response: 0x2001, another code, or 0xFFFF     *)
(* when the bytes are not exactly one response container.                  *)
Codes == {"ok", "error", "malformed"}

GetResp(raw) ==
    IF Len(raw) = 1 THEN IF Head(raw).n = 1 THEN "ok" ELSE "error" ELSE "malformed"

-----------------------------------------------------------------------------
(* active, remaining, acc, pending: dataPhaseActive, dataRemaining,        *)
(* dataAccumulator, and hasPendingResponse with pendingResponseCode.       *)
EngineIdle == [active |-> FALSE, remaining |-> 0, acc |-> <<>>, pending |-> "none"]

(* Mutant: the data phase of the previous transaction is not forgotten.    *)
BuildCommandKeepsData(e) == [e EXCEPT !.pending = "none"]

(* buildCommand forgets whatever the previous transaction left behind.     *)
BuildCommand(e) ==
    [e EXCEPT !.active = FALSE, !.remaining = 0, !.acc = <<>>, !.pending = "none"]

Result(e, action, data, code) ==
    [engine |-> e, action |-> action, data |-> data, code |-> code]

KeepReading(e)     == Result(e, 0, <<>>, "none")
GotData(e, data)   == Result(e, 1, data, "none")
GotResponse(e, rc) == Result(e, 2, <<>>, rc)

Lesser(a, b) == IF a < b THEN a ELSE b

(* Mutant: what is copied is not limited to what the payload still lacks.  *)
AccumulateAll(e, raw) ==
    IF e.remaining = Len(raw)
    THEN GotData(EngineIdle, e.acc \o raw)
    ELSE KeepReading([e EXCEPT !.acc = @ \o raw, !.remaining = @ - Len(raw)])

(* A read that continues a data phase: its first units complete the        *)
(* payload, and a response behind them is remembered for the next read.    *)
Accumulate(e, raw) ==
    LET copied   == Lesser(Len(raw), e.remaining)
        acc      == e.acc \o SubSeq(raw, 1, copied)
        leftover == SubSeq(raw, copied + 1, Len(raw))
        pending  == IF leftover # <<>> /\ Head(leftover).kind = "response"
                    THEN GetResp(leftover) ELSE e.pending
    IN IF e.remaining = copied
       THEN GotData([EngineIdle EXCEPT !.pending = pending], acc)
       ELSE KeepReading([e EXCEPT !.acc = acc, !.remaining = @ - copied])

(* Mutant: the length of the container is taken for that of the payload.   *)
StartDataCountsHeader(e, raw) ==
    LET total == Head(raw).n + 1
        first == SubSeq(raw, 2, Lesser(Len(raw), total + 1))
    IN IF Len(first) >= total
       THEN GotData(e, first)
       ELSE KeepReading([e EXCEPT !.active = TRUE, !.acc = first,
                                  !.remaining = total - Len(first)])

(* A read that opens a data container.  When the payload is complete in    *)
(* this read, whatever follows it in the same read is dropped.             *)
StartData(e, raw) ==
    LET total == Head(raw).n
        first == SubSeq(raw, 2, Lesser(Len(raw), total + 1))
    IN IF Len(first) >= total
       THEN GotData(e, first)
       ELSE KeepReading([e EXCEPT !.active = TRUE, !.acc = first,
                                  !.remaining = total - Len(first)])

(* processIncoming.  There is no check of the transaction id, and a        *)
(* remembered response is delivered in place of the read that asked.       *)
ProcessIncoming(e, raw, expectData) ==
    CASE raw = <<>> ->
            KeepReading(e)
      [] raw # <<>> /\ e.pending # "none" ->
            GotResponse([e EXCEPT !.pending = "none"], e.pending)
      [] raw # <<>> /\ e.pending = "none" /\ e.active ->
            Accumulate(e, raw)
      [] raw # <<>> /\ e.pending = "none" /\ ~e.active /\ Head(raw).kind = "response" ->
            GotResponse(e, GetResp(raw))
      [] raw # <<>> /\ e.pending = "none" /\ ~e.active /\ Head(raw).kind = "data" /\ expectData ->
            StartData(e, raw)
      [] OTHER ->
            KeepReading(e)
=============================================================================
