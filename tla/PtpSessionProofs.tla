--------------------------- MODULE PtpSessionProofs ---------------------------
(***************************************************************************)
(* What holds of PtpSession for every number of callers, every buffer and  *)
(* payload size and every bound.  With lost transfers, merged transfers,   *)
(* metadata calls and disconnects all allowed: the types, the exclusion of *)
(* the bulk calls by usbBusy, and that no payload is ever torn.  For bulk  *)
(* calls that are Alone: that what the camera served comes back, and that  *)
(* every step is one of the contract, PtpTransport.                        *)
(***************************************************************************)
EXTENDS PtpSession, SequenceTheorems, TLAPS

Results == [engine : Engines, action : 0..2, data : Seq(Units), code : Codes \cup {"none"}]

(* A slice within the bounds of a sequence is a sequence of its elements.  *)
LEMMA SliceType ==
    ASSUME NEW S, NEW s \in Seq(S), NEW m \in Nat \ {0}, NEW n \in Nat, n <= Len(s)
    PROVE  /\ SubSeq(s, m, n) \in Seq(S)
           /\ Len(SubSeq(s, m, n)) = IF m <= n THEN n - m + 1 ELSE 0
<1>1. \A i \in m..n : s[i] \in S
  BY ElementOfSeq
<1>2. QED
  BY <1>1, SubSeqProperties

LEMMA SingleType == ASSUME NEW S, NEW x \in S PROVE <<x>> \in Seq(S)
OBVIOUS

LEMMA LesserType ==
    ASSUME NEW a \in Nat, NEW b \in Nat
    PROVE  Lesser(a, b) \in Nat /\ Lesser(a, b) <= a /\ Lesser(a, b) <= b
BY DEF Lesser

LEMMA ContainerType ==
    ASSUME NEW t \in Tags, NEW len \in 1..MaxLen
    PROVE  DataContainer(t, len) \in Seq(Units)
<1>1. DataHeader(t, len) \in Units
  BY SessionAssumption DEF DataHeader, Units, Unit
<1>2. [kind |-> "payload", txn |-> t, n |-> len] \in Units
  BY SessionAssumption DEF Units, Unit
<1>3. Payload(t, len) \in Seq(Units)
  BY <1>2, IsASeq DEF Payload
<1>4. <<DataHeader(t, len)>> \in Seq(Units)
  BY <1>1
<1>5. QED
  BY <1>3, <1>4, ConcatProperties DEF DataContainer

LEMMA ResponseType ==
    ASSUME NEW t \in Tags, NEW ok \in BOOLEAN
    PROVE  Response(t, ok) \in Units
BY SessionAssumption DEF Response, Units, Unit

(* getResp reads any bytes.                                                *)
LEMMA GetRespType ==
    ASSUME NEW raw PROVE GetResp(raw) \in Codes
BY DEF GetResp, Codes

LEMMA AccumulateType ==
    ASSUME NEW e \in Engines, NEW raw \in Seq(Units)
    PROVE  Accumulate(e, raw) \in Results
<1> DEFINE copied   == Lesser(Len(raw), e.remaining)
           acc      == e.acc \o SubSeq(raw, 1, copied)
           leftover == SubSeq(raw, copied + 1, Len(raw))
           pending  == IF leftover # <<>> /\ Head(leftover).kind = "response"
                       THEN GetResp(leftover) ELSE e.pending
<1>1. copied \in Nat /\ copied <= Len(raw) /\ copied <= e.remaining
  BY LesserType DEF Engines
<1>2. SubSeq(raw, 1, copied) \in Seq(Units)
  BY <1>1, SliceType
<1>3. acc \in Seq(Units)
  BY <1>2, ConcatProperties DEF Engines
<1>4. pending \in Codes \cup {"none"}
  BY GetRespType DEF Engines
<1>5. e.remaining - copied \in Nat
  BY <1>1 DEF Engines
<1> HIDE DEF copied, acc, leftover, pending
<1>6. [EngineIdle EXCEPT !.pending = pending] \in Engines
  <2>1. <<>> \in Seq(Units)
    OBVIOUS
  <2>2. QED
    BY <1>4, <2>1 DEF EngineIdle, Engines
<1>7. [e EXCEPT !.acc = acc, !.remaining = @ - copied] \in Engines
  BY <1>3, <1>5 DEF Engines
<1>8. Accumulate(e, raw) =
        IF e.remaining = copied
        THEN GotData([EngineIdle EXCEPT !.pending = pending], acc)
        ELSE KeepReading([e EXCEPT !.acc = acc, !.remaining = @ - copied])
  BY DEF Accumulate, copied, acc, leftover, pending
<1>9. QED
  BY <1>3, <1>6, <1>7, <1>8 DEF GotData, KeepReading, Result, Results

LEMMA StartDataType ==
    ASSUME NEW e \in Engines, NEW raw \in Seq(Units), raw # <<>>
    PROVE  StartData(e, raw) \in Results
<1> DEFINE total == Head(raw).n
           last  == Lesser(Len(raw), total + 1)
           first == SubSeq(raw, 2, last)
<1>1. Head(raw) \in Units
  BY HeadTailProperties
<1>2. total \in Nat
  BY <1>1, SessionAssumption DEF Units, Unit
<1>3. last \in Nat /\ last <= Len(raw)
  <2>1. total + 1 \in Nat /\ Len(raw) \in Nat
    BY <1>2
  <2>2. QED
    BY <2>1, LesserType
<1>4. first \in Seq(Units)
  BY <1>3, SliceType
<1> HIDE DEF total, last, first
<1>5. ~(Len(first) >= total) => total - Len(first) \in Nat
  BY <1>2, <1>4
<1>6. ~(Len(first) >= total) =>
        [e EXCEPT !.active = TRUE, !.acc = first, !.remaining = total - Len(first)] \in Engines
  BY <1>4, <1>5 DEF Engines
<1>7. StartData(e, raw) =
        IF Len(first) >= total
        THEN GotData(e, first)
        ELSE KeepReading([e EXCEPT !.active = TRUE, !.acc = first,
                                   !.remaining = total - Len(first)])
  BY DEF StartData, total, last, first
<1>8. QED
  BY <1>4, <1>6, <1>7 DEF GotData, KeepReading, Result, Results

(* The engine stays an engine whatever bytes it is fed.                    *)
LEMMA ProcessIncomingType ==
    ASSUME NEW e \in Engines, NEW raw \in Seq(Units), NEW expectData \in BOOLEAN
    PROVE  ProcessIncoming(e, raw, expectData) \in Results
<1>1. KeepReading(e) \in Results
  BY DEF KeepReading, Result, Results
<1>2. e.pending # "none" => GotResponse([e EXCEPT !.pending = "none"], e.pending) \in Results
  BY DEF GotResponse, Result, Results, Engines
<1>3. Accumulate(e, raw) \in Results
  BY AccumulateType
<1>4. GotResponse(e, GetResp(raw)) \in Results
  BY GetRespType DEF GotResponse, Result, Results
<1>5. raw # <<>> => StartData(e, raw) \in Results
  BY StartDataType
<1>6. QED
  BY <1>1, <1>2, <1>3, <1>4, <1>5 DEF ProcessIncoming

LEMMA BuildCommandType == ASSUME NEW e \in Engines PROVE BuildCommand(e) \in Engines
<1>1. <<>> \in Seq(Units)
  OBVIOUS
<1>2. QED
  BY <1>1 DEF BuildCommand, Engines

LEMMA IdleType == Idle \in Calls
<1>1. <<>> \in Seq(Units)
  OBVIOUS
<1>2. QED
  BY <1>1 DEF Idle, Calls, CallRecords, OnWire, Places

(* What a caller is told is always one of the named outcomes.              *)
LEMMA ClassifyType == ASSUME NEW c, NEW data PROVE Classify(c, data) \in Outcomes
BY DEF Classify, Outcomes
-----------------------------------------------------------------------------
(* The part of TypeOK about the session object and its calls, with the     *)
(* exclusion, and the part about the engine and the cable.                 *)
SessionOK ==
    /\ sessionOpen \in BOOLEAN /\ usbBusy \in BOOLEAN
    /\ pipe \in Pipes \cup {0}
    /\ call \in [Callers -> Calls]
    /\ outcome \in Outcomes
    /\ BulkExclusion

CableOK ==
    /\ engine \in Engines
    /\ commands \in Seq([txn : Tags, op : Ops])
    /\ stream \in Seq(Seq(Units))

LEMMA Parts == TypeOK /\ BulkExclusion <=> SessionOK /\ CableOK
BY DEF TypeOK, SessionOK, CableOK

(* The exclusion survives every step that changes one call and moves the   *)
(* flag with it: set when the call gets onto the wire, which only happens  *)
(* when it was clear, and cleared when it gets off.                        *)
LEMMA OneCallStep ==
    ASSUME call \in [Callers -> Calls], usbBusy \in BOOLEAN, BulkExclusion,
           NEW c \in Callers, NEW r \in Calls, call' = [call EXCEPT ![c] = r],
           Bulky(r) => OnTheWire(c) \/ ~usbBusy,
           usbBusy' = IF Bulky(r) THEN TRUE ELSE IF OnTheWire(c) THEN FALSE ELSE usbBusy
    PROVE  /\ call' \in [Callers -> Calls] /\ usbBusy' \in BOOLEAN
           /\ BulkExclusion'
<1>1. call' \in [Callers -> Calls]
  OBVIOUS
<1>2. OnTheWire(c)' <=> Bulky(r)
  BY DEF OnTheWire, Bulky, OnWire
<1>3. \A d \in Callers \ {c} : OnTheWire(d)' <=> OnTheWire(d)
  BY DEF OnTheWire, Bulky, OnWire
<1>4. \A d \in Callers \ {c} : OnTheWire(d) => usbBusy /\ ~OnTheWire(c)
  BY DEF BulkExclusion
<1>5. \A d, e \in Callers : OnTheWire(d)' /\ OnTheWire(e)' => d = e
  BY <1>2, <1>3, <1>4 DEF BulkExclusion
<1>6. usbBusy' <=> \E d \in Callers : OnTheWire(d)'
  <2>1. CASE Bulky(r)
    BY <1>2, <2>1
  <2>2. CASE ~Bulky(r) /\ OnTheWire(c)
    BY <1>2, <1>3, <1>4, <2>2
  <2>3. CASE ~Bulky(r) /\ ~OnTheWire(c)
    BY <1>2, <1>3, <2>3 DEF BulkExclusion
  <2>4. QED
    BY <2>1, <2>2, <2>3
<1>7. QED
  BY <1>1, <1>5, <1>6 DEF BulkExclusion

LEMMA SendStep ==
    ASSUME SessionOK, CableOK, NEW c \in Callers, NEW o \in Ops,
           ~OnTheWire(c), o = "bulk" => ~usbBusy, Send(c, o)
    PROVE  SessionOK' /\ CableOK'
<1>1. CableOK'
  BY BuildCommandType DEF CableOK, Send, wire
<1>2. CASE pipe # 0
  <2> DEFINE r == [Idle EXCEPT !.at = "out", !.op = o, !.tag = AnyOf(Tags \ InUse), !.on = pipe]
  <2>1. AnyOf(Tags \ InUse) \in Tags
    BY <1>2 DEF Send, AnyOf
  <2>2. r \in Calls
    BY <2>1, IdleType DEF SessionOK, Calls, Places, Idle, CallRecords, OnWire
  <2>3. Bulky(r) <=> o = "bulk"
    BY DEF Bulky, OnWire, Idle
  <2>4. call' = [call EXCEPT ![c] = r] /\ usbBusy' = (usbBusy \/ o = "bulk")
    BY <1>2 DEF Send
  <2> HIDE DEF r
  <2>5. call' \in [Callers -> Calls] /\ usbBusy' \in BOOLEAN /\ BulkExclusion'
    BY <2>2, <2>3, <2>4, OneCallStep DEF SessionOK
  <2>6. QED
    BY <1>1, <1>2, <2>5 DEF SessionOK, Send, Outcomes
<1>3. CASE pipe = 0
  <2>1. call' = [call EXCEPT ![c] = Idle] /\ usbBusy' = usbBusy
    BY <1>3 DEF Send, Leave
  <2>2. ~Bulky(Idle)
    BY DEF Bulky, Idle, OnWire
  <2>3. call' \in [Callers -> Calls] /\ usbBusy' \in BOOLEAN /\ BulkExclusion'
    BY <2>1, <2>2, IdleType, OneCallStep DEF SessionOK
  <2>4. QED
    BY <1>1, <1>3, <2>3 DEF SessionOK, Send, Outcomes
<1>4. QED
  BY <1>2, <1>3

(* The end of a transfer loop, successful or not.                          *)
LEMMA EndStep ==
    ASSUME SessionOK, NEW c \in Callers, call[c].at \in {"out", "in"},
           NEW ok \in BOOLEAN, NEW data, End(c, ok, data)
    PROVE  SessionOK'
<1> USE DEF SessionOK
<1>1. ~Bulky(Idle) /\ ~Bulky([Idle EXCEPT !.at = "asking"])
  BY DEF Bulky, Idle, OnWire
<1>2. CASE ExpectsData(c)
  <2>1. Return(c, data)
    BY <1>2 DEF End
  <2>2. OnTheWire(c) <=> call[c].op = "bulk"
    BY DEF OnTheWire, Bulky, OnWire
  <2>3. call' \in [Callers -> Calls] /\ usbBusy' \in BOOLEAN /\ BulkExclusion'
    BY <1>1, <2>1, <2>2, IdleType, OneCallStep DEF Return, Leave
  <2>4. QED
    BY <2>1, <2>3, ClassifyType DEF Return
<1>3. CASE ~ExpectsData(c)
  <2>1. Acknowledged(c, ok)
    BY <1>3 DEF End
  <2>2. ~OnTheWire(c)
    BY <1>3 DEF OnTheWire, Bulky, ExpectsData, OnWire
  <2>3. usbBusy' = usbBusy
    BY <2>1 DEF Acknowledged, Disconnect
  <2>4. \/ call' = [call EXCEPT ![c] = Idle]
        \/ call' = [call EXCEPT ![c] = [Idle EXCEPT !.at = "asking"]]
    BY <2>1 DEF Acknowledged, Leave, WaitAt
  <2>5. [Idle EXCEPT !.at = "asking"] \in Calls
    BY IdleType DEF Calls, Places, CallRecords, OnWire
  <2>6. call' \in [Callers -> Calls] /\ usbBusy' \in BOOLEAN /\ BulkExclusion'
    BY <1>1, <2>2, <2>3, <2>4, <2>5, IdleType, OneCallStep
  <2>7. sessionOpen' \in BOOLEAN /\ pipe' \in Pipes \cup {0} /\ outcome' = "none"
    BY <2>1 DEF Acknowledged, Disconnect
  <2>8. QED
    BY <2>6, <2>7 DEF Outcomes
<1>4. QED
  BY <1>2, <1>3

LEMMA FailStep ==
    ASSUME SessionOK, NEW c \in Callers, call[c].at \in {"out", "in"}, Fail(c)
    PROVE  SessionOK'
BY EndStep DEF Fail

(* Steps that move a call that is off the wire to another place off it.    *)
LEMMA OffTheWireStep ==
    ASSUME SessionOK, NEW c \in Callers, ~OnTheWire(c), NEW r \in Calls, ~Bulky(r),
           call' = [call EXCEPT ![c] = r], usbBusy' = usbBusy,
           sessionOpen' \in BOOLEAN, pipe' \in Pipes \cup {0}, outcome' \in Outcomes
    PROVE  SessionOK'
BY OneCallStep DEF SessionOK

LEMMA SleepStep ==
    ASSUME SessionOK, CableOK, NEW c \in Callers, ~OnTheWire(c), Sleep(c)
    PROVE  SessionOK' /\ CableOK'
<1> DEFINE r == [Idle EXCEPT !.at = "sleeping", !.count = call[c].count + 1]
<1>1. r \in Calls /\ ~Bulky(r)
  <2>1. call[c].count + 1 \in Nat
    BY DEF SessionOK, Calls, CallRecords, OnWire
  <2>2. QED
    BY <2>1, IdleType DEF Calls, Places, Bulky, Idle, OnWire, CallRecords
<1>2. call' = [call EXCEPT ![c] = r] /\ UNCHANGED fields /\ outcome' = "none"
  BY DEF Sleep
<1> HIDE DEF r
<1>3. SessionOK'
  BY <1>1, <1>2, OffTheWireStep DEF SessionOK, fields, Outcomes
<1>4. QED
  BY <1>3 DEF Sleep, CableOK, wire

(* The last step of the calls that end without a transfer.                 *)
LEMMA LeaveStep ==
    ASSUME SessionOK, NEW c \in Callers, ~OnTheWire(c), Leave(c), usbBusy' = usbBusy,
           sessionOpen' \in BOOLEAN, pipe' \in Pipes \cup {0}, outcome' \in Outcomes
    PROVE  SessionOK'
<1>1. ~Bulky(Idle)
  BY DEF Bulky, Idle, OnWire
<1>2. QED
  BY <1>1, IdleType, OffTheWireStep DEF Leave

LEMMA WaitStep ==
    ASSUME SessionOK, NEW c \in Callers, ~OnTheWire(c),
           NEW place \in {"asking", "draining"}, WaitAt(c, place), usbBusy' = usbBusy,
           sessionOpen' \in BOOLEAN, pipe' \in Pipes \cup {0}, outcome' \in Outcomes
    PROVE  SessionOK'
<1> DEFINE r == [Idle EXCEPT !.at = place]
<1>1. r \in Calls /\ ~Bulky(r)
  BY IdleType DEF Calls, Places, Bulky, Idle, OnWire, CallRecords
<1>2. call' = [call EXCEPT ![c] = r]
  BY DEF WaitAt
<1> HIDE DEF r
<1>3. QED
  BY <1>1, <1>2, OffTheWireStep
-----------------------------------------------------------------------------
(* What reads and the camera put on the cable.                             *)
LEMMA ChunkType ==
    ASSUME stream \in Seq(Seq(Units)), stream # <<>>, NEW size \in Nat \ {0}
    PROVE  Chunk(size) \in Seq(Units) /\ AfterChunk(size) \in Seq(Seq(Units))
<1>1. Head(stream) \in Seq(Units) /\ Tail(stream) \in Seq(Seq(Units))
  BY HeadTailProperties
<1>2. Lesser(size, Len(Head(stream))) \in Nat
      /\ Lesser(size, Len(Head(stream))) <= Len(Head(stream))
  <2>1. Len(Head(stream)) \in Nat
    BY <1>1
  <2>2. QED
    BY <2>1, LesserType
<1>3. Chunk(size) \in Seq(Units)
  BY <1>1, <1>2, SliceType DEF Chunk
<1>4. SubSeq(Head(stream), size + 1, Len(Head(stream))) \in Seq(Units)
  <2>1. size + 1 \in Nat \ {0} /\ Len(Head(stream)) \in Nat
    BY <1>1
  <2>2. QED
    BY <1>1, <2>1, SliceType
<1>5. <<SubSeq(Head(stream), size + 1, Len(Head(stream)))>> \in Seq(Seq(Units))
  BY <1>4
<1>6. <<SubSeq(Head(stream), size + 1, Len(Head(stream)))>> \o Tail(stream) \in Seq(Seq(Units))
  BY <1>1, <1>5, ConcatProperties
<1>7. QED
  BY <1>1, <1>3, <1>6 DEF AfterChunk

LEMMA ReceiveStep ==
    ASSUME SessionOK, CableOK, NEW c \in Callers, Receive(c)
    PROVE  SessionOK' /\ CableOK'
<1> DEFINE r    == ProcessIncoming(engine, Chunk(BufOf(c)), ExpectsData(c))
           data == IF r.action = 1 /\ r.data # <<>> THEN r.data ELSE call[c].payload
<1>1. BufOf(c) \in Nat \ {0}
  BY SessionAssumption DEF BufOf
<1>2. Chunk(BufOf(c)) \in Seq(Units) /\ AfterChunk(BufOf(c)) \in Seq(Seq(Units))
  BY <1>1, ChunkType DEF Receive, CableOK
<1>3. r \in Results
  <2>1. ExpectsData(c) \in BOOLEAN
    BY DEF ExpectsData
  <2>2. QED
    BY <1>2, <2>1, ProcessIncomingType DEF CableOK
<1>4. CableOK'
  BY <1>2, <1>3 DEF Receive, CableOK, Results
<1>5. data \in Seq(Units)
  BY <1>3 DEF Results, SessionOK, Calls, CallRecords, OnWire
<1>6. call[c].at = "in"
  BY DEF Receive
<1>7. \/ End(c, r.code = "ok", IF r.code = "ok" THEN call[c].payload ELSE <<>>)
      \/ /\ call' = [call EXCEPT ![c].payload = data, ![c].count = @ + 1]
         /\ outcome' = "none" /\ UNCHANGED fields
      \/ Fail(c)
  BY DEF Receive
<1> HIDE DEF r, data
<1>8. CASE End(c, r.code = "ok", IF r.code = "ok" THEN call[c].payload ELSE <<>>)
  BY <1>4, <1>6, <1>8, EndStep
<1>9. CASE /\ call' = [call EXCEPT ![c].payload = data, ![c].count = @ + 1]
           /\ outcome' = "none" /\ UNCHANGED fields
  <2> DEFINE q == [call[c] EXCEPT !.payload = data, !.count = @ + 1]
  <2>1. call[c] \in Calls
    BY DEF SessionOK
  <2>2. q \in Calls /\ (Bulky(q) <=> OnTheWire(c))
    <3>1. call[c].count + 1 \in Nat
      BY <2>1 DEF Calls, CallRecords
    <3>2. q \in CallRecords
      BY <1>5, <2>1, <3>1 DEF Calls, CallRecords
    <3>3. q.at = call[c].at /\ q.op = call[c].op /\ q.tag = call[c].tag
      BY <2>1 DEF Calls, CallRecords
    <3>4. QED
      BY <2>1, <3>2, <3>3 DEF Calls, Bulky, OnTheWire, OnWire
  <2>3. call' = [call EXCEPT ![c] = q] /\ usbBusy' = usbBusy
    BY <1>9, <2>1 DEF fields, SessionOK, Calls, CallRecords, OnWire
  <2>4. OnTheWire(c) => usbBusy
    BY DEF SessionOK, BulkExclusion
  <2> HIDE DEF q
  <2>5. call' \in [Callers -> Calls] /\ usbBusy' \in BOOLEAN /\ BulkExclusion'
    BY <2>2, <2>3, <2>4, OneCallStep DEF SessionOK
  <2>6. QED
    BY <1>4, <1>9, <2>5 DEF SessionOK, fields, Outcomes
<1>10. CASE Fail(c)
  BY <1>4, <1>6, <1>10, FailStep
<1>11. QED
  BY <1>7, <1>8, <1>9, <1>10

LEMMA ServeType ==
    ASSUME stream \in Seq(Seq(Units)), NEW t \in Tags, Serve(t)
    PROVE  stream' \in Seq(Seq(Units))
<1>1. PICK len \in 1..MaxLen :
        \/ stream' = stream \o <<DataContainer(t, len), <<Response(t, TRUE)>>>>
        \/ stream' = Append(stream, DataContainer(t, len) \o <<Response(t, TRUE)>>)
  BY DEF Serve
<1> DEFINE d == DataContainer(t, len)
           r == <<Response(t, TRUE)>>
<1>2. d \in Seq(Units)
  BY ContainerType
<1>3. r \in Seq(Units)
  <2>1. Response(t, TRUE) \in Units
    BY ResponseType
  <2>2. QED
    BY <2>1, SingleType
<1>4. CASE stream' = stream \o <<d, r>>
  <2> HIDE DEF d, r
  <2>1. <<d, r>> \in Seq(Seq(Units))
    BY <1>2, <1>3
  <2>2. QED
    BY <1>4, <2>1, ConcatProperties
<1>5. CASE stream' = Append(stream, d \o r)
  <2> HIDE DEF d, r
  <2>1. d \o r \in Seq(Units)
    BY <1>2, <1>3, ConcatProperties
  <2>2. QED
    BY <1>5, <2>1, AppendProperties
<1>6. QED
  BY <1>1, <1>4, <1>5

LEMMA CameraStep ==
    ASSUME SessionOK, CableOK, Camera
    PROVE  SessionOK' /\ CableOK'
<1> DEFINE t == Head(commands).txn
<1>1. Head(commands) \in [txn : Tags, op : Ops] /\ commands' \in Seq([txn : Tags, op : Ops])
  BY HeadTailProperties DEF Camera, CableOK
<1>2. t \in Tags
  BY <1>1
<1>3. \/ Serve(t)
      \/ UNCHANGED call /\ \E ok \in BOOLEAN : stream' = Append(stream, <<Response(t, ok)>>)
  BY DEF Camera
<1>4. UNCHANGED fields /\ UNCHANGED engine /\ outcome' = "none"
  BY DEF Camera
<1> HIDE DEF t
<1>5. CASE Serve(t)
  <2>1. stream' \in Seq(Seq(Units))
    BY <1>2, <1>5, ServeType DEF CableOK
  <2>2. ASSUME NEW c \in Callers
        PROVE  call'[c] \in Calls /\ (Bulky(call'[c]) <=> Bulky(call[c]))
    <3>1. call[c] \in Calls
      BY DEF SessionOK
    <3>2. PICK b \in BOOLEAN : call'[c] = [call[c] EXCEPT !.answered = b]
      <4>1. call'[c] = [call[c] EXCEPT !.answered = call[c].answered \/ call[c].tag = t]
        BY <1>5, <3>1 DEF Serve, Calls, CallRecords
      <4>2. (call[c].answered \/ call[c].tag = t) \in BOOLEAN
        OBVIOUS
      <4>3. QED
        BY <4>1, <4>2
    <3>3. QED
      BY <3>1, <3>2 DEF Calls, CallRecords, Bulky, OnWire
  <2>3. call' \in [Callers -> Calls]
    BY <1>5, <2>2 DEF Serve
  <2>4. BulkExclusion'
    BY <1>4, <2>2 DEF BulkExclusion, OnTheWire, SessionOK, fields
  <2>5. QED
    BY <1>1, <1>4, <2>1, <2>3, <2>4 DEF SessionOK, CableOK, fields, Outcomes
<1>6. CASE UNCHANGED call /\ \E ok \in BOOLEAN : stream' = Append(stream, <<Response(t, ok)>>)
  <2>1. PICK ok \in BOOLEAN : stream' = Append(stream, <<Response(t, ok)>>)
    BY <1>6
  <2>2. Response(t, ok) \in Units
    BY <1>2, ResponseType
  <2>3. <<Response(t, ok)>> \in Seq(Units)
    BY <2>2
  <2>4. stream' \in Seq(Seq(Units))
    BY <2>1, <2>3, AppendProperties DEF CableOK
  <2>5. BulkExclusion'
    BY <1>4, <1>6 DEF SessionOK, BulkExclusion, OnTheWire, fields
  <2>6. QED
    BY <1>1, <1>4, <1>6, <2>4, <2>5 DEF SessionOK, CableOK, fields, Outcomes
<1>7. QED
  BY <1>3, <1>5, <1>6
-----------------------------------------------------------------------------
LEMMA StartStep ==
    ASSUME SessionOK, CableOK, NEW c \in Callers, Start(c)
    PROVE  SessionOK' /\ CableOK'
<1>1. call[c] = Idle /\ ~OnTheWire(c)
  BY DEF Start, StartBulk, StartMeta, StartConnect, StartClose, OnTheWire, Bulky, Idle, OnWire
<1>2. CASE StartBulk(c)
  BY <1>1, <1>2, SendStep, SleepStep DEF StartBulk, Take, Ops
<1>3. CASE StartMeta(c)
  BY <1>1, <1>3, SendStep DEF StartMeta, Ops
<1>4. CASE StartConnect(c)
  <2>1. CASE Send(c, "reclose")
    BY <1>1, <2>1, SendStep DEF Ops
  <2>2. CASE /\ Disconnect /\ WaitAt(c, "asking")
             /\ outcome' = "none" /\ UNCHANGED <<engine, wire>>
    BY <1>1, <2>2, WaitStep DEF Disconnect, CableOK, wire, Outcomes
  <2>3. QED
    BY <1>4, <2>1, <2>2 DEF StartConnect
<1>5. CASE StartClose(c)
  <2>1. CASE Send(c, "close")
    BY <1>1, <2>1, SendStep DEF Ops
  <2>2. CASE Disconnect /\ outcome' = "none" /\ UNCHANGED <<engine, wire, call>>
    BY <2>2 DEF Disconnect, CableOK, SessionOK, wire, Outcomes, BulkExclusion, OnTheWire
  <2>3. QED
    BY <1>5, <2>1, <2>2 DEF StartClose
<1>6. QED
  BY <1>2, <1>3, <1>4, <1>5 DEF Start

LEMMA ContinueStep ==
    ASSUME SessionOK, CableOK, NEW c \in Callers, Continue(c)
    PROVE  SessionOK' /\ CableOK'
<1>1. CASE WakeUp(c)
  <2>1. ~OnTheWire(c)
    BY <1>1 DEF WakeUp, OnTheWire, Bulky, OnWire
  <2>2. QED
    BY <1>1, <2>1, SendStep, SleepStep DEF WakeUp, Take, Ops
<1>2. CASE GiveUp(c)
  <2>1. ~OnTheWire(c)
    BY <1>2 DEF GiveUp, OnTheWire, Bulky, OnWire
  <2>2. QED
    BY <1>2, <2>1, LeaveStep DEF GiveUp, fields, wire, SessionOK, CableOK, Outcomes
<1>3. CASE Refused(c)
  <2>1. ~OnTheWire(c)
    BY <1>3 DEF Refused, OnTheWire, Bulky, OnWire
  <2>2. QED
    BY <1>3, <2>1, LeaveStep DEF Refused, Disconnect, wire, CableOK, Outcomes
<1>4. CASE Attach(c)
  <2>1. ~OnTheWire(c)
    BY <1>4 DEF Attach, OnTheWire, Bulky, OnWire
  <2>2. pipe' \in Pipes
    BY <1>4 DEF Attach, AnyOf
  <2>3. CableOK'
    BY <1>4 DEF Attach, CableOK
  <2>4. QED
    BY <1>4, <2>1, <2>2, <2>3, WaitStep DEF Attach, SessionOK, Outcomes
<1>5. CASE OpenSession(c)
  <2>1. ~OnTheWire(c)
    BY <1>5 DEF OpenSession, OnTheWire, Bulky, OnWire
  <2>2. QED
    BY <1>5, <2>1, SendStep DEF OpenSession, Ops
<1>6. CASE Sent(c)
  <2> DEFINE q == [call[c] EXCEPT !.at = "in"]
  <2>1. call[c] \in Calls
    BY DEF SessionOK
  <2>2. q \in Calls /\ (Bulky(q) <=> OnTheWire(c))
    BY <1>6, <2>1 DEF Sent, Calls, Places, Bulky, OnTheWire, OnWire, CallRecords
  <2>3. call' = [call EXCEPT ![c] = q] /\ usbBusy' = usbBusy
    BY <1>6, <2>1 DEF Sent, fields, SessionOK
  <2>4. OnTheWire(c) => usbBusy
    BY DEF SessionOK, BulkExclusion
  <2>5. commands' \in Seq([txn : Tags, op : Ops])
    <3>1. [txn |-> call[c].tag, op |-> call[c].op] \in [txn : Tags, op : Ops]
      BY <1>6, <2>1 DEF Sent, Calls, CallRecords, OnWire
    <3>2. QED
      BY <1>6, <3>1, AppendProperties DEF Sent, CableOK
  <2> HIDE DEF q
  <2>6. call' \in [Callers -> Calls] /\ usbBusy' \in BOOLEAN /\ BulkExclusion'
    BY <2>2, <2>3, <2>4, OneCallStep DEF SessionOK
  <2>7. QED
    BY <1>6, <2>5, <2>6 DEF Sent, SessionOK, CableOK, fields, Outcomes
<1>7. CASE SendFails(c)
  BY <1>7, FailStep DEF SendFails, CableOK, wire
<1>8. CASE Receive(c)
  BY <1>8, ReceiveStep
<1>9. CASE ReceiveFails(c)
  BY <1>9, FailStep DEF ReceiveFails, CableOK, wire
<1>10. QED
  BY <1>1, <1>2, <1>3, <1>4, <1>5, <1>6, <1>7, <1>8, <1>9 DEF Continue
-----------------------------------------------------------------------------
(* The types and the exclusion are inductive together: neither is by       *)
(* itself.                                                                 *)
Inductive == SessionOK /\ CableOK

LEMMA InitInductive == Init => Inductive
<1> SUFFICES ASSUME Init PROVE Inductive
  OBVIOUS
<1>1. engine \in Engines
  <2>1. <<>> \in Seq(Units)
    OBVIOUS
  <2>2. QED
    BY <2>1 DEF Init, EngineIdle, Engines
<1>2. call \in [Callers -> Calls]
  BY IdleType DEF Init
<1>3. BulkExclusion
  BY DEF Init, BulkExclusion, OnTheWire, Bulky, OnWire, Idle
<1>4. CableOK
  BY <1>1 DEF Init, CableOK
<1>5. QED
  BY <1>2, <1>3, <1>4 DEF Init, Inductive, SessionOK, Outcomes

LEMMA NextInductive == Inductive /\ [Next]_vars => Inductive'
<1> SUFFICES ASSUME Inductive, [Next]_vars PROVE Inductive'
  OBVIOUS
<1>1. ASSUME NEW c \in Callers, Start(c) PROVE Inductive'
  BY <1>1, StartStep DEF Inductive
<1>2. ASSUME NEW c \in Callers, Continue(c) PROVE Inductive'
  BY <1>2, ContinueStep DEF Inductive
<1>3. CASE Camera
  BY <1>3, CameraStep DEF Inductive
<1>4. CASE UNCHANGED vars
  BY <1>4 DEF vars, fields, wire, Inductive, SessionOK, CableOK, BulkExclusion, OnTheWire
<1>5. QED
  BY <1>1, <1>2, <1>3, <1>4 DEF Next

LEMMA AlwaysInductive == Spec => []Inductive
BY InitInductive, NextInductive, PTL DEF Spec

(* The session object, the engine, the cable and every call keep their     *)
(* types, whatever bytes the camera sends and whichever calls interleave.  *)
THEOREM TypeCorrect == Spec => []TypeOK
<1>1. Inductive => TypeOK
  BY Parts DEF Inductive
<1>2. QED
  BY <1>1, AlwaysInductive, PTL

(* However many thumbnail and photo loads run, and however they fail, at   *)
(* most one of them is on the wire, and usbBusy is set exactly while one   *)
(* is: no load ever blocks the later ones by leaving the flag behind.      *)
THEOREM BulkCallsExclude == Spec => []BulkExclusion
<1>1. Inductive => BulkExclusion
  BY DEF Inductive, SessionOK
<1>2. QED
  BY <1>1, AlwaysInductive, PTL
-----------------------------------------------------------------------------
(* Why no payload is ever torn.  What is left of a transfer on the cable   *)
(* is a part of one container, perhaps with the response that joined it,   *)
(* and what the engine gathers is what was in front of it.                 *)
PayloadUnit(t, len) == [kind |-> "payload", txn |-> t, n |-> len]

UnitAt(t, len, j) ==
    IF j = 1 THEN DataHeader(t, len)
    ELSE IF j <= len + 1 THEN PayloadUnit(t, len) ELSE Response(t, TRUE)

PartOf(s, t, len, k) ==
    /\ k + Len(s) \in {len + 1, len + 2}
    /\ \A i \in 1..Len(s) : s[i] = UnitAt(t, len, k + i)

IsPart(s) ==
    \/ \E t \in Tags, ok \in BOOLEAN : s = <<Response(t, ok)>>
    \/ \E t \in Tags, len \in 1..MaxLen : \E k \in Nat : PartOf(s, t, len, k)

Holding(e, t, len, j) ==
    /\ Len(e.acc) = j /\ j < len /\ e.remaining = len - j
    /\ \A i \in 1..j : e.acc[i] = PayloadUnit(t, len)

Gathers(e, s) ==
    \E t \in Tags, len \in 1..MaxLen :
       Holding(e, t, len, Len(e.acc)) /\ PartOf(s, t, len, Len(e.acc) + 1)

WholeOne(data) == \E t \in Tags : Whole(t, data)

LEMMA PayloadUnits ==
    ASSUME NEW data \in Seq(Units), NEW t \in Tags, NEW len \in 1..MaxLen, Len(data) = len,
           \A i \in 1..len : data[i] = PayloadUnit(t, len)
    PROVE  data = Payload(t, len)
<1>1. DOMAIN data = 1..len
  BY LenProperties
<1>2. data = [i \in 1..len |-> data[i]]
  <2>1. data \in [1..len -> Units]
    BY LenProperties
  <2>2. QED
    BY <2>1
<1>3. QED
  BY <1>2 DEF Payload, PayloadUnit

LEMMA PayloadIsWhole ==
    ASSUME NEW t \in Tags, NEW len \in 1..MaxLen
    PROVE  WholeOne(Payload(t, len)) /\ Len(Payload(t, len)) = len /\ Payload(t, len) # <<>>
<1> DEFINE p == Payload(t, len)
<1>1. PayloadUnit(t, len) \in Units
  BY SessionAssumption DEF PayloadUnit, Units, Unit
<1>2. p = [i \in 1..len |-> PayloadUnit(t, len)] /\ len \in Nat /\ len >= 1
  BY SessionAssumption DEF Payload, PayloadUnit
<1> HIDE DEF p
<1>3. p \in Seq(Units) /\ DOMAIN p = 1..len
  BY <1>1, <1>2, IsASeq
<1>4. Len(p) = len
  BY <1>2, <1>3, LenProperties
<1>5. p # <<>>
  BY <1>2, <1>3, <1>4, EmptySeq
<1>6. QED
  BY <1>4, <1>5 DEF p, Whole, WholeOne

(* A read takes the first units of what is left, and leaves the others.    *)
ReadOf(s, size) == SubSeq(s, 1, Lesser(size, Len(s)))
RestOf(s, size) == SubSeq(s, size + 1, Len(s))

(* A slice from the second end: its elements and its length.               *)
LEMMA SliceParts ==
    ASSUME NEW s \in Seq(Units), NEW a \in Nat \ {0}, NEW b \in Nat, b <= Len(s), a <= b + 1
    PROVE  /\ SubSeq(s, a, b) \in Seq(Units) /\ Len(SubSeq(s, a, b)) = b + 1 - a
           /\ \A i \in 1..(b + 1 - a) : SubSeq(s, a, b)[i] = s[a + i - 1]
<1> DEFINE q == SubSeq(s, a, b)
<1>1. \A i \in a..b : s[i] \in Units
  BY ElementOfSeq
<1>2. /\ q \in Seq(Units) /\ Len(q) = IF a <= b THEN b - a + 1 ELSE 0
      /\ \A i \in 1..(b - a + 1) : q[i] = s[a + i - 1]
  BY <1>1, SubSeqProperties
<1> HIDE DEF q
<1>3. Len(q) = b + 1 - a
  BY <1>2
<1>4. \A i \in 1..(b + 1 - a) : i \in 1..(b - a + 1)
  OBVIOUS
<1>5. QED
  BY <1>2, <1>3, <1>4 DEF q

LEMMA ReadProperties ==
    ASSUME NEW s \in Seq(Units), NEW size \in Nat \ {0}
    PROVE  LET m == Lesser(size, Len(s)) IN
           /\ m \in Nat /\ m <= Len(s) /\ m <= size /\ (m = size \/ m = Len(s))
           /\ ReadOf(s, size) \in Seq(Units) /\ Len(ReadOf(s, size)) = m
           /\ \A i \in 1..m : ReadOf(s, size)[i] = s[i]
<1> DEFINE n == Len(s)
           m == Lesser(size, n)
           raw == SubSeq(s, 1, m)
<1>1. n \in Nat
  BY LenProperties
<1> HIDE DEF n
<1>2. m \in Nat /\ m <= n /\ m <= size /\ (m = size \/ m = n)
  BY <1>1 DEF Lesser
<1> HIDE DEF m
<1>3. /\ raw \in Seq(Units) /\ Len(raw) = m + 1 - 1
      /\ \A i \in 1..(m + 1 - 1) : raw[i] = s[1 + i - 1]
  BY <1>2, SliceParts DEF n
<1>4. m + 1 - 1 = m /\ \A i \in 1..m : 1 + i - 1 = i
  BY <1>2
<1>5. raw = ReadOf(s, size)
  BY DEF ReadOf, m, n
<1> HIDE DEF raw
<1>6. QED
  BY <1>2, <1>3, <1>4, <1>5 DEF m, n

LEMMA ReadOfPart ==
    ASSUME NEW s \in Seq(Units), NEW size \in Nat \ {0},
           NEW t, NEW len \in Nat, NEW k \in Nat, PartOf(s, t, len, k)
    PROVE  /\ \A i \in 1..Lesser(size, Len(s)) : ReadOf(s, size)[i] = UnitAt(t, len, k + i)
           /\ Len(s) >= size => PartOf(RestOf(s, size), t, len, k + size)
<1> DEFINE n == Len(s)
           m == Lesser(size, n)
           raw == ReadOf(s, size)
           rest == RestOf(s, size)
<1>1. n \in Nat /\ DOMAIN s = 1..n
  BY LenProperties
<1>2. m \in Nat /\ m <= n /\ \A i \in 1..m : raw[i] = s[i]
  BY ReadProperties
<1>3. k + n \in {len + 1, len + 2} /\ \A i \in 1..n : s[i] = UnitAt(t, len, k + i)
  BY DEF PartOf
<1> HIDE DEF m, n, raw
<1>4. \A i \in 1..m : raw[i] = UnitAt(t, len, k + i)
  <2>1. \A i \in 1..m : i \in 1..n
    BY <1>1, <1>2
  <2>2. QED
    BY <1>2, <1>3, <2>1
<1>5. ASSUME n >= size PROVE PartOf(rest, t, len, k + size)
  <2>1. rest = SubSeq(s, size + 1, n) /\ size + 1 <= n + 1
    BY <1>1, <1>5 DEF RestOf, n
  <2> HIDE DEF rest
  <2>2. /\ rest \in Seq(Units) /\ Len(rest) = n + 1 - (size + 1)
        /\ \A i \in 1..(n + 1 - (size + 1)) : rest[i] = s[size + 1 + i - 1]
    <3>1. size + 1 \in Nat \ {0} /\ n <= Len(s)
      BY <1>1 DEF n
    <3>2. QED
      BY <1>1, <2>1, <3>1, SliceParts
  <2>3. n + 1 - (size + 1) = n - size
    BY <1>1
  <2>4. \A i \in 1..(n - size) : /\ size + 1 + i - 1 = size + i
                                 /\ size + i \in 1..n /\ k + (size + i) = (k + size) + i
    BY <1>1
  <2>5. \A i \in 1..(n - size) : rest[i] = UnitAt(t, len, (k + size) + i)
    BY <1>3, <2>2, <2>3, <2>4
  <2>6. (k + size) + (n - size) = k + n
    BY <1>1
  <2>7. QED
    BY <1>3, <2>2, <2>3, <2>5, <2>6 DEF PartOf
<1>6. QED
  BY <1>4, <1>5 DEF m, n, raw

LEMMA EmptyIsPart == IsPart(<<>>)
<1>1. 1 \in Tags /\ 1 \in 1..MaxLen
  BY SessionAssumption DEF Tags
<1>2. Len(<<>>) = 0
  OBVIOUS
<1>3. PartOf(<<>>, 1, 1, 2)
  BY <1>2 DEF PartOf
<1>4. QED
  BY <1>1, <1>3 DEF IsPart

LEMMA RestIsPart ==
    ASSUME NEW s \in Seq(Units), NEW size \in Nat \ {0}, IsPart(s), Len(s) >= size
    PROVE  IsPart(RestOf(s, size))
<1>1. ASSUME NEW t \in Tags, NEW ok \in BOOLEAN, s = <<Response(t, ok)>>
      PROVE  IsPart(RestOf(s, size))
  <2>1. size + 1 \in Nat \ {0} /\ Len(s) = 1 /\ size + 1 = 2
    BY <1>1
  <2> DEFINE rest == SubSeq(s, size + 1, Len(s))
             n == Len(s)
  <2>2. rest \in Seq(Units) /\ Len(rest) = IF size + 1 <= n THEN n - (size + 1) + 1 ELSE 0
    BY <2>1, SliceType
  <2>3. n = 1
    BY <2>1
  <2> HIDE DEF rest, n
  <2>4. Len(rest) = 0
    BY <2>1, <2>2, <2>3
  <2>5. rest = <<>>
    BY <2>2, <2>4, EmptySeq
  <2>6. QED
    BY <2>5, EmptyIsPart DEF rest, RestOf
<1>2. ASSUME NEW t \in Tags, NEW len \in 1..MaxLen, NEW k \in Nat, PartOf(s, t, len, k)
      PROVE  IsPart(RestOf(s, size))
  <2>1. len \in Nat /\ k + size \in Nat
    BY SessionAssumption
  <2>2. PartOf(RestOf(s, size), t, len, k + size)
    BY <1>2, <2>1, ReadOfPart
  <2>3. \E j \in Nat : PartOf(RestOf(s, size), t, len, j)
    BY <2>1, <2>2
  <2>4. QED
    BY <2>3 DEF IsPart
<1>3. QED
  BY <1>1, <1>2 DEF IsPart

(* A read in the middle of a data phase either completes the payload or    *)
(* leaves the engine with a longer beginning of it.                        *)
LEMMA AccumulateExact ==
    ASSUME NEW e \in Engines, NEW s \in Seq(Units), NEW t \in Tags, NEW len \in 1..MaxLen,
           NEW j \in Nat, Holding(e, t, len, j), PartOf(s, t, len, j + 1),
           NEW size \in Nat \ {0}, NEW raw, raw = ReadOf(s, size),
           NEW m, m = Lesser(size, Len(s)), NEW r, r = Accumulate(e, raw)
    PROVE  IF j + m >= len
           THEN /\ r.action = 1 /\ r.data = Payload(t, len) /\ ~r.engine.active
                /\ j + m = len => r.engine.pending = e.pending
           ELSE /\ r.action = 0 /\ r.engine.active = e.active /\ r.engine.pending = e.pending
                /\ Holding(r.engine, t, len, j + m)
<1>1. len \in Nat
  BY SessionAssumption
<1>2. j = Len(e.acc) /\ j < len /\ e.remaining = len - j /\ \A i \in 1..j : e.acc[i] = PayloadUnit(t, len)
  BY DEF Holding
<1>3. /\ m \in Nat
      /\ raw \in Seq(Units) /\ Len(raw) = m
      /\ \A i \in 1..m : raw[i] = UnitAt(t, len, (j + 1) + i)
  <2>1. PICK k \in Nat : k = j + 1
    OBVIOUS
  <2>2. PartOf(s, t, len, k)
    BY <2>1
  <2>3. /\ \A i \in 1..Lesser(size, Len(s)) : ReadOf(s, size)[i] = UnitAt(t, len, k + i)
        /\ Len(s) >= size => PartOf(RestOf(s, size), t, len, k + size)
    BY <1>1, <2>2, ReadOfPart, Zenon
  <2>4. m \in Nat /\ raw \in Seq(Units) /\ Len(raw) = m
    BY ReadProperties
  <2>5. QED
    BY <2>1, <2>3, <2>4
<1>14. m \in Nat /\ j \in Nat
  BY <1>3
<1> DEFINE copied == Lesser(Len(raw), e.remaining)
           more == SubSeq(raw, 1, copied)
           acc == e.acc \o more
           leftover == SubSeq(raw, copied + 1, Len(raw))
           pending  == IF leftover # <<>> /\ Head(leftover).kind = "response"
                       THEN GetResp(leftover) ELSE e.pending
<1>4. r = IF e.remaining = copied
          THEN GotData([EngineIdle EXCEPT !.pending = pending], acc)
          ELSE KeepReading([e EXCEPT !.acc = acc, !.remaining = @ - copied])
  BY DEF Accumulate
<1>5. e.acc \in Seq(Units) /\ Len(e.acc) = j
  BY <1>2 DEF Engines
<1>6. copied \in Nat /\ copied <= m /\ copied <= len - j /\ (copied = m \/ copied = len - j)
  <2>1. copied = Lesser(m, len - j) /\ len - j \in Nat /\ m \in Nat
    BY <1>1, <1>2, <1>3
  <2> HIDE DEF copied
  <2>2. QED
    BY <2>1 DEF Lesser
<1> HIDE DEF copied
<1>7. /\ more \in Seq(Units) /\ Len(more) = copied /\ \A i \in 1..copied : more[i] = raw[i]
  <2>1. /\ more \in Seq(Units) /\ Len(more) = copied + 1 - 1
        /\ \A i \in 1..(copied + 1 - 1) : more[i] = raw[1 + i - 1]
    BY <1>3, <1>6, SliceParts
  <2> HIDE DEF more
  <2>2. \A i \in 1..copied : i \in 1..(copied + 1 - 1) /\ 1 + i - 1 = i
    BY <1>6
  <2>3. copied + 1 - 1 = copied
    BY <1>6
  <2>4. QED
    BY <2>1, <2>2, <2>3
<1>8. acc \in Seq(Units) /\ Len(acc) = j + copied
      /\ \A i \in 1..(j + copied) : acc[i] = IF i <= j THEN e.acc[i] ELSE more[i - j]
  <2> HIDE DEF more
  <2>1. acc \in Seq(Units) /\ Len(acc) = Len(e.acc) + Len(more)
        /\ \A i \in 1..(Len(e.acc) + Len(more)) :
              acc[i] = IF i <= Len(e.acc) THEN e.acc[i] ELSE more[i - Len(e.acc)]
    <3> DEFINE old == e.acc
    <3>1. old \in Seq(Units) /\ acc = old \o more
      BY <1>5
    <3> HIDE DEF old, acc
    <3>2. acc \in Seq(Units) /\ Len(acc) = Len(old) + Len(more)
          /\ \A i \in 1..(Len(old) + Len(more)) :
                acc[i] = IF i <= Len(old) THEN old[i] ELSE more[i - Len(old)]
      BY <1>7, <3>1, ConcatProperties
    <3>3. QED
      BY <3>2 DEF old
  <2> HIDE DEF acc
  <2>2. QED
    BY <1>5, <1>7, <2>1
<1>9. j + m = len => leftover = <<>>
  <2> SUFFICES ASSUME j + m = len PROVE leftover = <<>>
    OBVIOUS
  <2>1. copied = m
    BY <1>1, <1>2, <1>3, <1>6
  <2>2. leftover \in Seq(Units) /\ Len(leftover) = m + 1 - (copied + 1)
    BY <1>3, <1>6, SliceParts
  <2> HIDE DEF leftover
  <2>3. Len(leftover) = 0
    BY <1>3, <2>1, <2>2
  <2>4. QED
    BY <2>2, <2>3, EmptySeq
<1>10. j + m = len => pending = e.pending
  BY <1>9
<1> HIDE DEF more, acc, pending, leftover
<1>11. \A i \in 1..(j + copied) : acc[i] = PayloadUnit(t, len)
  <2>1. ASSUME NEW i \in 1..(j + copied) PROVE acc[i] = PayloadUnit(t, len)
    <3>1. CASE i <= j
      <4>1. i \in 1..j
        BY <1>6, <3>1
      <4>2. QED
        BY <1>2, <1>8, <3>1, <4>1
    <3>2. CASE ~(i <= j)
      <4>1. i - j \in 1..copied /\ i - j \in 1..m /\ (j + 1) + (i - j) = i + 1
            /\ i + 1 # 1 /\ i + 1 <= len + 1
        <5>1. i \in Nat /\ i <= j + copied /\ i > j
          BY <1>6, <1>14, <3>2
        <5>2. copied \in Nat /\ copied <= m /\ copied <= len - j
          BY <1>6
        <5>3. QED
          BY <1>1, <1>14, <5>1, <5>2
      <4>2. acc[i] = UnitAt(t, len, i + 1)
        BY <1>3, <1>7, <1>8, <3>2, <4>1
      <4>3. QED
        BY <4>1, <4>2 DEF UnitAt
    <3>3. QED
      BY <3>1, <3>2
  <2>2. QED
    BY <2>1
<1>12. CASE e.remaining = copied
  <2>1. r.action = 1 /\ r.data = acc /\ r.engine.active = FALSE /\ r.engine.pending = pending
    BY <1>4, <1>12 DEF GotData, Result, EngineIdle
  <2>2. j + copied = len /\ j + m >= len
    <3>1. len - j = copied
      BY <1>2, <1>12
    <3>2. copied \in Nat /\ copied <= m
      BY <1>6
    <3>3. QED
      BY <1>1, <1>14, <3>1, <3>2
  <2>3. acc = Payload(t, len)
    BY <1>8, <1>11, <2>2, PayloadUnits
  <2>4. QED
    BY <1>10, <2>1, <2>2, <2>3
<1>13. CASE e.remaining # copied
  <2> DEFINE x == [e EXCEPT !.acc = acc, !.remaining = @ - copied]
  <2>1. r.action = 0 /\ r.engine = x
    BY <1>4, <1>13 DEF KeepReading, Result
  <2>2. x.acc = acc /\ x.remaining = e.remaining - copied /\ x.pending = e.pending /\ x.active = e.active
    BY DEF Engines
  <2> HIDE DEF x
  <2>3. copied < len - j /\ copied = m /\ ~(j + m >= len)
    BY <1>1, <1>2, <1>3, <1>6, <1>13
  <2>4. Len(x.acc) = j + m /\ j + m < len /\ x.remaining = len - (j + m)
    <3>1. Len(x.acc) = j + copied /\ x.remaining = (len - j) - copied
      BY <1>2, <1>8, <2>2
    <3>2. copied \in Nat /\ copied = m /\ copied < len - j
      BY <1>6, <2>3
    <3>3. QED
      BY <1>1, <1>14, <3>1, <3>2
  <2>5. \A i \in 1..(j + m) : x.acc[i] = PayloadUnit(t, len)
    BY <1>11, <2>2, <2>3
  <2>6. QED
    BY <2>1, <2>2, <2>3, <2>4, <2>5 DEF Holding
<1>15. QED
  BY <1>12, <1>13

(* A read that opens a container.                                          *)
LEMMA StartDataExact ==
    ASSUME NEW e \in Engines, NEW s \in Seq(Units), NEW t \in Tags, NEW len \in 1..MaxLen,
           PartOf(s, t, len, 0), NEW size \in Nat \ {0}, NEW raw, raw = ReadOf(s, size),
           raw # <<>>, NEW m, m = Lesser(size, Len(s)), NEW r, r = StartData(e, raw)
    PROVE  /\ Head(raw) = DataHeader(t, len) /\ m \in Nat /\ m >= 1
           /\ IF m - 1 >= len
              THEN r.action = 1 /\ r.data = Payload(t, len) /\ r.engine = e
              ELSE /\ r.action = 0 /\ r.engine.active /\ r.engine.pending = e.pending
                   /\ Holding(r.engine, t, len, m - 1)
<1>1. len \in Nat /\ len >= 1
  BY SessionAssumption
<1>2. /\ m \in Nat /\ raw \in Seq(Units) /\ Len(raw) = m
      /\ \A i \in 1..m : raw[i] = UnitAt(t, len, 0 + i)
  <2>1. /\ \A i \in 1..Lesser(size, Len(s)) : ReadOf(s, size)[i] = UnitAt(t, len, 0 + i)
        /\ Len(s) >= size => PartOf(RestOf(s, size), t, len, 0 + size)
    <3>1. 0 \in Nat
      OBVIOUS
    <3>2. QED
      BY <1>1, <3>1, ReadOfPart, Zenon
  <2>2. m \in Nat /\ raw \in Seq(Units) /\ Len(raw) = m
    BY ReadProperties
  <2>3. QED
    BY <2>1, <2>2
<1>3. m >= 1 /\ Head(raw) = DataHeader(t, len)
  <2>1. m # 0
    BY <1>2, EmptySeq
  <2>2. m >= 1 /\ 1 \in 1..m /\ 0 + 1 = 1
    BY <1>2, <2>1
  <2>3. Head(raw) = raw[1]
    BY <1>2
  <2>4. QED
    BY <1>2, <2>2, <2>3 DEF UnitAt
<1> DEFINE last == Lesser(Len(raw), len + 1)
           first == SubSeq(raw, 2, last)
<1>4. r = IF Len(first) >= len
          THEN GotData(e, first)
          ELSE KeepReading([e EXCEPT !.active = TRUE, !.acc = first,
                                     !.remaining = len - Len(first)])
  <2>1. Head(raw).n = len
    BY <1>3 DEF DataHeader
  <2>2. QED
    BY <2>1 DEF StartData
<1>5. last \in Nat /\ last >= 1 /\ last <= m /\ last <= len + 1 /\ (last = m \/ last = len + 1)
  <2>1. last = Lesser(m, len + 1)
    BY <1>2
  <2> HIDE DEF last
  <2>2. QED
    BY <1>1, <1>2, <1>3, <2>1 DEF Lesser
<1> HIDE DEF last
<1>6. /\ first \in Seq(Units) /\ Len(first) = last - 1
      /\ \A i \in 1..(last - 1) : first[i] = raw[i + 1]
  <2>1. /\ first \in Seq(Units) /\ Len(first) = last + 1 - 2
        /\ \A i \in 1..(last + 1 - 2) : first[i] = raw[2 + i - 1]
    BY <1>2, <1>5, SliceParts
  <2> HIDE DEF first
  <2>2. \A i \in 1..(last - 1) : i \in 1..(last + 1 - 2) /\ 2 + i - 1 = i + 1
    BY <1>5
  <2>3. last + 1 - 2 = last - 1
    BY <1>5
  <2>4. QED
    BY <2>1, <2>2, <2>3
<1> HIDE DEF first
<1>7. \A i \in 1..(last - 1) : first[i] = PayloadUnit(t, len)
  <2>1. \A i \in 1..(last - 1) : /\ i + 1 \in 1..m /\ 0 + (i + 1) = i + 1
                                 /\ i + 1 # 1 /\ i + 1 <= len + 1
    BY <1>1, <1>2, <1>5
  <2>2. \A i \in 1..(last - 1) : first[i] = UnitAt(t, len, i + 1)
    BY <1>2, <1>6, <2>1
  <2>3. QED
    BY <2>1, <2>2 DEF UnitAt
<1>8. CASE Len(first) >= len
  <2>1. r.action = 1 /\ r.data = first /\ r.engine = e
    BY <1>4, <1>8 DEF GotData, Result
  <2>2. Len(first) = len /\ last - 1 = len /\ m - 1 >= len
    BY <1>1, <1>2, <1>5, <1>6, <1>8
  <2>3. first = Payload(t, len)
    BY <1>6, <1>7, <2>2, PayloadUnits
  <2>4. QED
    BY <1>2, <1>3, <2>1, <2>2, <2>3
<1>9. CASE ~(Len(first) >= len)
  <2> DEFINE x == [e EXCEPT !.active = TRUE, !.acc = first, !.remaining = len - Len(first)]
  <2>1. r.action = 0 /\ r.engine = x
    BY <1>4, <1>9 DEF KeepReading, Result
  <2>2. x.acc = first /\ x.remaining = len - Len(first) /\ x.pending = e.pending /\ x.active
    BY DEF Engines
  <2> HIDE DEF x
  <2>3. last = m /\ ~(m - 1 >= len)
    BY <1>1, <1>2, <1>5, <1>6, <1>9
  <2>4. Len(x.acc) = m - 1 /\ m - 1 < len /\ x.remaining = len - (m - 1)
    BY <1>1, <1>2, <1>6, <2>2, <2>3
  <2>5. \A i \in 1..(m - 1) : x.acc[i] = PayloadUnit(t, len)
    BY <1>7, <2>2, <2>3
  <2>6. QED
    BY <1>2, <1>3, <2>1, <2>2, <2>3, <2>4, <2>5 DEF Holding
<1>10. QED
  BY <1>8, <1>9

LEMMA GathersParts ==
    ASSUME NEW e \in Engines, NEW s, Gathers(e, s)
    PROVE  \E t \in Tags, len \in 1..MaxLen : \E j \in Nat :
              len \in Nat /\ Holding(e, t, len, j) /\ PartOf(s, t, len, j + 1)
<1>1. Len(e.acc) \in Nat
  BY LenProperties DEF Engines
<1>2. \A len \in 1..MaxLen : len \in Nat
  BY SessionAssumption
<1>3. QED
  BY <1>1, <1>2 DEF Gathers

(* When a read does not complete the payload, the read was full and the    *)
(* rest of the container is still the first transfer on the cable.         *)
LEMMA AccumulateHolds ==
    ASSUME NEW e \in Engines, e.pending = "none", NEW s \in Seq(Units), Gathers(e, s),
           NEW size \in Nat \ {0}, NEW raw, raw = ReadOf(s, size),
           NEW r, r = Accumulate(e, raw)
    PROVE  /\ r.action = 1 => WholeOne(r.data)
           /\ r.engine.active => /\ r.engine.pending = "none" /\ Len(s) >= size
                                 /\ Gathers(r.engine, RestOf(s, size))
<1>1. PICK t \in Tags, len \in 1..MaxLen : \E j \in Nat :
        len \in Nat /\ Holding(e, t, len, j) /\ PartOf(s, t, len, j + 1)
  BY GathersParts
<1>2. PICK j \in Nat : len \in Nat /\ Holding(e, t, len, j) /\ PartOf(s, t, len, j + 1)
  BY <1>1
<1> DEFINE n == Len(s)
           m == Lesser(size, n)
           rest == RestOf(s, size)
<1>3. n \in Nat /\ (j + 1) + n \in {len + 1, len + 2}
  BY <1>2 DEF PartOf
<1>4. m \in Nat /\ m <= n /\ (m = size \/ m = n)
  BY ReadProperties
<1>5. IF j + m >= len
      THEN r.action = 1 /\ r.data = Payload(t, len) /\ ~r.engine.active
      ELSE r.action = 0 /\ r.engine.pending = e.pending /\ Holding(r.engine, t, len, j + m)
  BY <1>2, AccumulateExact
<1>6. n >= size => PartOf(rest, t, len, (j + 1) + size)
  <2>1. PICK k \in Nat : k = j + 1
    OBVIOUS
  <2>2. Len(s) >= size => PartOf(RestOf(s, size), t, len, k + size)
    BY <1>2, <2>1, ReadOfPart, Zenon
  <2>3. QED
    BY <2>1, <2>2
<1> HIDE DEF n, m, rest
<1>7. CASE j + m >= len
  BY <1>5, <1>7, PayloadIsWhole
<1>8. CASE ~(j + m >= len)
  <2>1. m = size /\ n >= size /\ (j + 1) + size = (j + m) + 1
    BY <1>2, <1>3, <1>4, <1>8
  <2>2. Len(r.engine.acc) = j + m
    BY <1>5, <1>8 DEF Holding
  <2>3. Holding(r.engine, t, len, Len(r.engine.acc)) /\ PartOf(rest, t, len, Len(r.engine.acc) + 1)
    BY <1>5, <1>6, <1>8, <2>1, <2>2
  <2>4. Gathers(r.engine, rest)
    BY <1>1, <2>3 DEF Gathers
  <2>5. QED
    BY <1>5, <1>8, <2>1, <2>4 DEF n, rest
<1>9. QED
  BY <1>7, <1>8

(* A read that opens a container begins with its header, because nothing   *)
(* else on the cable has its kind: the whole payload is in the read, or    *)
(* the engine holds its beginning.                                         *)
LEMMA StartDataHolds ==
    ASSUME NEW e \in Engines, e.pending = "none", NEW s \in Seq(Units), IsPart(s),
           NEW size \in Nat \ {0}, NEW raw, raw = ReadOf(s, size),
           raw # <<>>, Head(raw).kind = "data", ~e.active,
           NEW r, r = StartData(e, raw)
    PROVE  /\ r.action = 1 => WholeOne(r.data)
           /\ r.engine.active => /\ r.engine.pending = "none" /\ Len(s) >= size
                                 /\ Gathers(r.engine, RestOf(s, size))
<1> DEFINE n == Len(s)
           m == Lesser(size, n)
           rest == RestOf(s, size)
<1>1. n \in Nat
  OBVIOUS
<1>2. /\ m \in Nat /\ m <= n /\ (m = size \/ m = n) /\ raw \in Seq(Units) /\ Len(raw) = m
      /\ \A i \in 1..m : raw[i] = s[i]
  BY ReadProperties
<1>3. m >= 1 /\ raw[1] = s[1] /\ Head(raw) = raw[1]
  <2> HIDE DEF m
  <2>1. m # 0
    BY <1>2, EmptySeq
  <2>2. 1 \in 1..m /\ m >= 1
    BY <1>2, <2>1
  <2>3. QED
    BY <1>2, <2>2
<1>4. PICK t \in Tags, len \in 1..MaxLen : \E k \in Nat : PartOf(s, t, len, k)
  <2>1. ASSUME NEW t \in Tags, NEW ok \in BOOLEAN, s = <<Response(t, ok)>> PROVE FALSE
    <3>1. s[1].kind = "response"
      BY <2>1 DEF Response
    <3>2. QED
      BY <1>3, <3>1
  <2>2. QED
    BY <2>1 DEF IsPart
<1>5. PICK k \in Nat : PartOf(s, t, len, k)
  BY <1>4
<1>6. len \in Nat /\ len >= 1
  BY SessionAssumption
<1>7. PartOf(s, t, len, 0)
  <2>1. 1 \in 1..n
    BY <1>1, <1>2, <1>3
  <2>2. s[1] = UnitAt(t, len, k + 1)
    BY <1>5, <2>1 DEF PartOf
  <2>3. k + 1 = 1
    BY <1>3, <2>2 DEF UnitAt, PayloadUnit, Response
  <2>4. k = 0
    BY <2>3
  <2>5. QED
    BY <1>5, <2>4
<1>8. IF m - 1 >= len
      THEN r.action = 1 /\ r.data = Payload(t, len) /\ r.engine = e
      ELSE r.action = 0 /\ r.engine.pending = e.pending /\ Holding(r.engine, t, len, m - 1)
  BY <1>7, StartDataExact
<1>9. (0 + n \in {len + 1, len + 2}) /\ (n >= size => PartOf(rest, t, len, 0 + size))
  <2>1. 0 + n \in {len + 1, len + 2}
    BY <1>7 DEF PartOf
  <2>2. n >= size => PartOf(rest, t, len, 0 + size)
    BY <1>6, <1>7, ReadOfPart
  <2>3. QED
    BY <2>1, <2>2
<1> HIDE DEF n, m, rest
<1>10. CASE m - 1 >= len
  BY <1>8, <1>10, PayloadIsWhole
<1>11. CASE ~(m - 1 >= len)
  <2>1. m = size /\ n >= size /\ 0 + size = (m - 1) + 1
    BY <1>1, <1>2, <1>6, <1>9, <1>11
  <2>2. Len(r.engine.acc) = m - 1
    BY <1>8, <1>11 DEF Holding
  <2>3. Holding(r.engine, t, len, Len(r.engine.acc)) /\ PartOf(rest, t, len, Len(r.engine.acc) + 1)
    BY <1>8, <1>9, <1>11, <2>1, <2>2
  <2>4. Gathers(r.engine, rest)
    BY <1>4, <2>3 DEF Gathers
  <2>5. QED
    BY <1>8, <1>11, <2>1, <2>4 DEF n, rest
<1>12. QED
  BY <1>10, <1>11

(* Whatever a read returns, the engine either hands over a whole payload,  *)
(* or holds the beginning of the container whose rest heads the cable.     *)
LEMMA EngineHolds ==
    ASSUME NEW e \in Engines, NEW s \in Seq(Units), IsPart(s),
           e.active => e.pending = "none" /\ Gathers(e, s),
           NEW size \in Nat \ {0}, NEW raw, raw = ReadOf(s, size), NEW expectData,
           NEW r, r = ProcessIncoming(e, raw, expectData)
    PROVE  /\ r.action = 1 => WholeOne(r.data)
           /\ r.engine.active => /\ r.engine.pending = "none" /\ Len(s) >= size
                                 /\ Gathers(r.engine, RestOf(s, size))
<1> DEFINE n == Len(s)
           m == Lesser(size, n)
<1>1. e.active => raw # <<>>
  <2> SUFFICES ASSUME e.active, raw = <<>> PROVE FALSE
    OBVIOUS
  <2>1. PICK t \in Tags, len \in 1..MaxLen : \E j \in Nat : len \in Nat /\ j < len /\ PartOf(s, t, len, j + 1)
    BY GathersParts DEF Holding
  <2>2. PICK j \in Nat : len \in Nat /\ j < len /\ PartOf(s, t, len, j + 1)
    BY <2>1
  <2>3. n \in Nat /\ (j + 1) + n \in {len + 1, len + 2}
    BY <2>2 DEF PartOf
  <2>4. m \in Nat /\ (m = size \/ m = n) /\ Len(raw) = m
    BY ReadProperties
  <2>5. Len(raw) = 0
    OBVIOUS
  <2> HIDE DEF n, m
  <2>6. QED
    BY <2>2, <2>3, <2>4, <2>5
<1>2. CASE raw = <<>>
  BY <1>1, <1>2 DEF ProcessIncoming, KeepReading, Result
<1>3. CASE raw # <<>> /\ e.pending # "none"
  <2>1. r = GotResponse([e EXCEPT !.pending = "none"], e.pending)
    BY <1>3 DEF ProcessIncoming
  <2>2. ~e.active
    BY <1>3
  <2>3. QED
    BY <2>1, <2>2 DEF GotResponse, Result, Engines
<1>4. CASE raw # <<>> /\ e.pending = "none" /\ e.active
  <2>1. r = Accumulate(e, raw)
    BY <1>4 DEF ProcessIncoming
  <2>2. QED
    BY <1>4, <2>1, AccumulateHolds
<1>5. CASE raw # <<>> /\ e.pending = "none" /\ ~e.active
  <2>1. \/ r = GotResponse(e, GetResp(raw))
        \/ r = KeepReading(e)
        \/ Head(raw).kind = "data" /\ r = StartData(e, raw)
    BY <1>5 DEF ProcessIncoming
  <2>2. CASE r = GotResponse(e, GetResp(raw)) \/ r = KeepReading(e)
    BY <1>5, <2>2 DEF GotResponse, KeepReading, Result
  <2>3. CASE Head(raw).kind = "data" /\ r = StartData(e, raw)
    BY <1>5, <2>3, StartDataHolds
  <2>4. QED
    BY <2>1, <2>2, <2>3
<1>6. QED
  BY <1>2, <1>3, <1>4, <1>5

LEMMA ContainerIsPart ==
    ASSUME NEW t \in Tags, NEW len \in 1..MaxLen
    PROVE  /\ Len(DataContainer(t, len)) = 1 + len /\ PartOf(DataContainer(t, len), t, len, 0)
           /\ IsPart(DataContainer(t, len))
           /\ IsPart(DataContainer(t, len) \o <<Response(t, TRUE)>>)
           /\ \A ok \in BOOLEAN : IsPart(<<Response(t, ok)>>)
<1>1. len \in Nat
  BY SessionAssumption
<1> DEFINE h == <<DataHeader(t, len)>>
           p == Payload(t, len)
           d == DataContainer(t, len)
           a == <<Response(t, TRUE)>>
<1>2. PayloadUnit(t, len) \in Units
  BY SessionAssumption DEF PayloadUnit, Units, Unit
<1>3. p \in Seq(Units) /\ Len(p) = len /\ \A i \in 1..len : p[i] = PayloadUnit(t, len)
  <2>1. p = [i \in 1..len |-> PayloadUnit(t, len)]
    BY DEF Payload, PayloadUnit
  <2>2. \A i \in 1..len : PayloadUnit(t, len) \in Units
    BY <1>2
  <2> HIDE DEF p
  <2>3. p \in Seq(Units)
    BY <1>1, <2>1, <2>2, IsASeq
  <2>4. DOMAIN p = 1..len
    BY <2>1
  <2>5. QED
    BY <1>1, <2>1, <2>3, <2>4, LenProperties
<1>4. h \in Seq(Units) /\ Len(h) = 1 /\ h[1] = DataHeader(t, len)
  <2>1. DataHeader(t, len) \in Units
    BY SessionAssumption DEF DataHeader, Units, Unit
  <2>2. QED
    BY <2>1
<1>5. a \in Seq(Units) /\ Len(a) = 1 /\ a[1] = Response(t, TRUE)
  <2>1. Response(t, TRUE) \in Units
    BY ResponseType
  <2> DEFINE u == Response(t, TRUE)
  <2> HIDE DEF u
  <2>2. u \in Units /\ a = <<u>>
    BY <2>1 DEF u
  <2> HIDE DEF a
  <2>3. a \in Seq(Units) /\ Len(a) = 1 /\ a[1] = u
    BY <2>2
  <2>4. QED
    BY <2>3 DEF u
<1>6. d = h \o p
  BY DEF DataContainer
<1> HIDE DEF h, p, d, a
<1>7. d \in Seq(Units) /\ Len(d) = 1 + len
      /\ \A i \in 1..(1 + len) : d[i] = IF i <= 1 THEN h[i] ELSE p[i - 1]
  <2>1. d \in Seq(Units) /\ Len(d) = Len(h) + Len(p)
        /\ \A i \in 1..(Len(h) + Len(p)) : d[i] = IF i <= Len(h) THEN h[i] ELSE p[i - Len(h)]
    BY <1>3, <1>4, <1>6, ConcatProperties
  <2>2. QED
    BY <1>3, <1>4, <2>1
<1>8. \A i \in 1..(1 + len) : d[i] = UnitAt(t, len, 0 + i)
  <2>1. ASSUME NEW i \in 1..(1 + len), i # 1 PROVE d[i] = UnitAt(t, len, 0 + i)
    <3>1. i - 1 \in 1..len /\ ~(i <= 1) /\ 0 + i = i /\ i <= len + 1
      BY <1>1, <2>1
    <3>2. QED
      BY <1>3, <1>7, <2>1, <3>1 DEF UnitAt
  <2>2. d[1] = UnitAt(t, len, 0 + 1)
    <3>1. 1 \in 1..(1 + len) /\ 1 <= 1 /\ 0 + 1 = 1
      BY <1>1
    <3>2. QED
      BY <1>4, <1>7, <3>1 DEF UnitAt
  <2>3. QED
    BY <2>1, <2>2
<1>9. PartOf(d, t, len, 0) /\ IsPart(d)
  <2>1. PartOf(d, t, len, 0)
    <3>1. 0 + Len(d) = len + 1
      BY <1>1, <1>7
    <3>2. QED
      BY <1>7, <1>8, <3>1 DEF PartOf
  <2>2. QED
    BY <2>1 DEF IsPart
<1> DEFINE b == d \o a
<1>10. b \in Seq(Units) /\ Len(b) = (1 + len) + 1
       /\ \A i \in 1..((1 + len) + 1) : b[i] = IF i <= 1 + len THEN d[i] ELSE a[i - (1 + len)]
  <2>1. b \in Seq(Units) /\ Len(b) = Len(d) + Len(a)
        /\ \A i \in 1..(Len(d) + Len(a)) : b[i] = IF i <= Len(d) THEN d[i] ELSE a[i - Len(d)]
    BY <1>5, <1>7, ConcatProperties
  <2> HIDE DEF b
  <2>2. QED
    BY <1>5, <1>7, <2>1
<1> HIDE DEF b
<1>11. \A i \in 1..((1 + len) + 1) : b[i] = UnitAt(t, len, 0 + i)
  <2>1. ASSUME NEW i \in 1..((1 + len) + 1), i <= 1 + len PROVE b[i] = UnitAt(t, len, 0 + i)
    <3>1. i \in 1..(1 + len)
      BY <1>1, <2>1
    <3>2. QED
      BY <1>8, <1>10, <2>1, <3>1
  <2>2. ASSUME NEW i \in 1..((1 + len) + 1), ~(i <= 1 + len) PROVE b[i] = UnitAt(t, len, 0 + i)
    <3>1. i - (1 + len) = 1 /\ 0 + i # 1 /\ ~(0 + i <= len + 1)
      BY <1>1, <2>2
    <3>2. QED
      BY <1>5, <1>10, <2>2, <3>1 DEF UnitAt
  <2>3. QED
    BY <2>1, <2>2
<1>12. IsPart(b)
  <2>1. PartOf(b, t, len, 0)
    <3>1. 0 + Len(b) = len + 2
      BY <1>1, <1>10
    <3>2. QED
      BY <1>10, <1>11, <3>1 DEF PartOf
  <2>2. QED
    BY <2>1 DEF IsPart
<1>13. \A ok \in BOOLEAN : IsPart(<<Response(t, ok)>>)
  BY DEF IsPart
<1>14. QED
  BY <1>7, <1>9, <1>12, <1>13 DEF b, d, a
-----------------------------------------------------------------------------
(* A call is still waiting on the connected pipe.  Only such a call can    *)
(* bring the engine anything more.                                         *)
Waiting == \E c \in Callers : OnWire(call[c]) /\ call[c].on = pipe

Sound(r) ==
    /\ OnWire(r) => r.on \in Pipes
    /\ r.payload = <<>> \/ WholeOne(r.payload)

(* The payload of a call is whole or empty.  While the engine is in a data *)
(* phase and somebody is left to read for it, the first transfer on the    *)
(* cable is the rest of the container it is gathering; a new command, a    *)
(* closed pipe and a new connection each end that phase one way or another *)
(* before anything else can be read.                                       *)
TornInv ==
    /\ \A i \in DOMAIN stream : IsPart(stream[i])
    /\ engine.active => /\ engine.pending = "none"
                        /\ Waiting => stream # <<>> /\ Gathers(engine, Head(stream))
    /\ \A c \in Callers : Sound(call[c])
    /\ NeverTorn

LEMMA TornInit == Init => TornInv
<1> SUFFICES ASSUME Init PROVE TornInv
  OBVIOUS
<1>1. Sound(Idle)
  BY DEF Sound, OnWire, Idle
<1>2. QED
  BY <1>1 DEF Init, TornInv, EngineIdle, NeverTorn

(* Steps that leave the engine and the cable alone and put nobody on the   *)
(* wire.                                                                   *)
LEMMA QuietStep ==
    ASSUME TornInv, UNCHANGED <<engine, stream>>, Waiting' => Waiting,
           \A c \in Callers : Sound(call'[c]), outcome' # "torn"
    PROVE  TornInv'
<1>1. \A i \in DOMAIN stream' : IsPart(stream'[i])
  BY DEF TornInv
<1>2. Gathers(engine', Head(stream')) <=> Gathers(engine, Head(stream))
  OBVIOUS
<1>3. engine'.active => /\ engine'.pending = "none"
                        /\ Waiting' => stream' # <<>> /\ Gathers(engine', Head(stream'))
  BY <1>2 DEF TornInv
<1>4. QED
  BY <1>1, <1>3 DEF TornInv, NeverTorn

LEMMA CallMoves ==
    ASSUME TornInv, call \in [Callers -> Calls], NEW c \in Callers, NEW r,
           call' = [call EXCEPT ![c] = r], Sound(r),
           OnWire(r) => OnWire(call[c]) /\ r.on = call[c].on,
           pipe' \in {pipe, 0}
    PROVE  /\ Waiting' => Waiting
           /\ \A d \in Callers : Sound(call'[d])
<1>1. \A d \in Callers : call'[d] = IF d = c THEN r ELSE call[d]
  OBVIOUS
<1>2. \A d \in Callers : Sound(call'[d])
  BY <1>1 DEF TornInv
<1>3. ASSUME Waiting' PROVE Waiting
  <2>1. PICK d \in Callers : OnWire(call'[d]) /\ call'[d].on = pipe'
    BY <1>3 DEF Waiting
  <2>2. call'[d].on \in Pipes /\ 0 \notin Pipes
    BY <1>2, <2>1 DEF Sound, Pipes
  <2>3. pipe' = pipe
    BY <2>1, <2>2
  <2>4. OnWire(call[d]) /\ call[d].on = pipe
    BY <1>1, <2>1, <2>3
  <2>5. QED
    BY <2>4 DEF Waiting
<1>4. QED
  BY <1>2, <1>3

(* What a call returns was nothing or whole.                               *)
LEMMA EndOfCall ==
    ASSUME TornInv, SessionOK, NEW c \in Callers, OnWire(call[c]),
           NEW ok, NEW data, data = <<>> \/ WholeOne(data), End(c, ok, data)
    PROVE  /\ Waiting' => Waiting
           /\ \A d \in Callers : Sound(call'[d])
           /\ outcome' # "torn"
<1>1. /\ Sound(Idle) /\ ~OnWire(Idle)
      /\ Sound([Idle EXCEPT !.at = "asking"]) /\ ~OnWire([Idle EXCEPT !.at = "asking"])
  BY DEF Sound, OnWire, Idle
<1>2. call \in [Callers -> Calls]
  BY DEF SessionOK
<1>3. \/ call' = [call EXCEPT ![c] = Idle]
      \/ call' = [call EXCEPT ![c] = [Idle EXCEPT !.at = "asking"]]
  BY DEF End, Return, Acknowledged, Leave, WaitAt
<1>4. pipe' \in {pipe, 0}
  BY DEF End, Return, Acknowledged, Disconnect
<1>5. outcome' # "torn"
  <2>1. Classify(c, data) # "torn"
    <3>1. CASE data = <<>>
      BY <3>1 DEF Classify
    <3>2. CASE data # <<>>
      <4>1. PICK t \in Tags : Whole(t, data)
        BY <3>2 DEF WholeOne
      <4>2. Whole(call[c].tag, data) \/ \E u \in Tags \ {call[c].tag} : Whole(u, data)
        BY <4>1
      <4>3. QED
        BY <3>2, <4>2 DEF Classify
    <3>3. QED
      BY <3>1, <3>2
  <2>2. QED
    BY <2>1 DEF End, Return, Acknowledged
<1>6. QED
  BY <1>1, <1>2, <1>3, <1>4, <1>5, CallMoves

(* A new command resets the engine, so nothing is being gathered after it. *)
LEMMA SendTorn ==
    ASSUME TornInv, SessionOK, CableOK, NEW c \in Callers, NEW o, Send(c, o)
    PROVE  TornInv'
<1>1. engine'.active = FALSE /\ stream' = stream
  BY DEF Send, BuildCommand, CableOK, Engines, wire
<1>2. call \in [Callers -> Calls]
  BY DEF SessionOK
<1>3. outcome' # "torn"
  BY DEF Send
<1>4. PICK r : call' = [call EXCEPT ![c] = r] /\ Sound(r)
  <2>1. CASE pipe # 0
    <3> DEFINE q == [Idle EXCEPT !.at = "out", !.op = o,
                                 !.tag = AnyOf(Tags \ InUse), !.on = pipe]
    <3>1. call' = [call EXCEPT ![c] = q]
      BY <2>1 DEF Send
    <3>2. q.on = pipe /\ q.payload = <<>>
      BY DEF Idle
    <3>3. Sound(q)
      <4> HIDE DEF q
      <4>1. QED
        BY <2>1, <3>2 DEF Sound, SessionOK
    <3>4. QED
      BY <3>1, <3>3
  <2>2. CASE pipe = 0
    <3>1. Sound(Idle)
      BY DEF Sound, OnWire, Idle
    <3>2. QED
      BY <2>2, <3>1 DEF Send, Leave
  <2>3. QED
    BY <2>1, <2>2
<1>5. \A d \in Callers : Sound(call'[d])
  BY <1>2, <1>4 DEF TornInv
<1>6. \A i \in DOMAIN stream' : IsPart(stream'[i])
  BY <1>1 DEF TornInv
<1>7. QED
  BY <1>1, <1>3, <1>5, <1>6 DEF TornInv, NeverTorn, Sound, IsPart, PartOf, WholeOne

LEMMA ReceiveTorn ==
    ASSUME TornInv, SessionOK, CableOK, NEW c \in Callers, Receive(c)
    PROVE  TornInv'
<1> DEFINE s    == Head(stream)
           size == BufOf(c)
           r    == ProcessIncoming(engine, Chunk(size), ExpectsData(c))
           data == IF r.action = 1 /\ r.data # <<>> THEN r.data ELSE call[c].payload
<1>1. /\ stream # <<>> /\ stream \in Seq(Seq(Units)) /\ s \in Seq(Units) /\ s = stream[1]
      /\ Tail(stream) \in Seq(Seq(Units)) /\ 1 \in DOMAIN stream
      /\ \A i \in DOMAIN Tail(stream) : Tail(stream)[i] = stream[i + 1] /\ i + 1 \in DOMAIN stream
  <2>1. stream # <<>> /\ stream \in Seq(Seq(Units))
    BY DEF Receive, CableOK
  <2>2. /\ Head(stream) \in Seq(Units) /\ Tail(stream) \in Seq(Seq(Units))
        /\ Len(Tail(stream)) = Len(stream) - 1 /\ Len(stream) \in Nat /\ Len(stream) # 0
        /\ \A i \in 1..Len(Tail(stream)) : Tail(stream)[i] = stream[i + 1]
    BY <2>1, HeadTailProperties, EmptySeq
  <2>3. DOMAIN stream = 1..Len(stream) /\ DOMAIN Tail(stream) = 1..Len(Tail(stream))
    BY <2>1, <2>2, LenProperties
  <2>4. \A i \in 1..Len(Tail(stream)) : i + 1 \in 1..Len(stream)
    BY <2>2
  <2>5. 1 \in 1..Len(stream) /\ Head(stream) = stream[1]
    BY <2>1, <2>2
  <2>6. QED
    BY <2>1, <2>2, <2>3, <2>4, <2>5
<1>2. call[c].at = "in" /\ OnWire(call[c]) /\ Waiting
  BY DEF Receive, Waiting, OnWire
<1>3. size \in Nat \ {0}
  BY SessionAssumption DEF BufOf
<1>4. engine \in Engines /\ (engine.active => engine.pending = "none" /\ Gathers(engine, s)) /\ IsPart(s)
  BY <1>1, <1>2 DEF TornInv, CableOK
<1>5. Chunk(size) = ReadOf(s, size)
  BY DEF Chunk, ReadOf
<1>6. /\ r.action = 1 => WholeOne(r.data)
      /\ r.engine.active => /\ r.engine.pending = "none" /\ Len(s) >= size
                            /\ Gathers(r.engine, RestOf(s, size))
  <2> HIDE DEF s, size
  <2>1. QED
    BY <1>1, <1>3, <1>4, <1>5, EngineHolds
<1>7. engine' = r.engine /\ stream' = IF Len(s) < size THEN Tail(stream)
                                      ELSE <<RestOf(s, size)>> \o Tail(stream)
  BY DEF Receive, AfterChunk, RestOf
<1>8. \/ End(c, r.code = "ok", IF r.code = "ok" THEN call[c].payload ELSE <<>>)
      \/ /\ call' = [call EXCEPT ![c].payload = data, ![c].count = @ + 1]
         /\ outcome' = "none" /\ UNCHANGED fields
      \/ Fail(c)
  BY DEF Receive
<1>9. Len(s) \in Nat
  BY <1>1
<1> HIDE DEF s, size, r
<1>10. data = <<>> \/ WholeOne(data)
  BY <1>6 DEF TornInv, Sound
<1> HIDE DEF data
<1>11. /\ \A d \in Callers : Sound(call'[d])
       /\ outcome' # "torn"
  <2>1. call[c].payload = <<>> \/ WholeOne(call[c].payload)
    BY DEF TornInv, Sound
  <2>2. CASE \/ End(c, r.code = "ok", IF r.code = "ok" THEN call[c].payload ELSE <<>>)
             \/ Fail(c)
    BY <1>2, <2>1, <2>2, EndOfCall DEF Fail
  <2>3. CASE /\ call' = [call EXCEPT ![c].payload = data, ![c].count = @ + 1]
             /\ outcome' = "none" /\ UNCHANGED fields
    <3> DEFINE q == [call[c] EXCEPT !.payload = data, !.count = @ + 1]
    <3>1. call[c] \in CallRecords /\ call \in [Callers -> Calls]
      BY DEF SessionOK, Calls
    <3>2. call' = [call EXCEPT ![c] = q]
      BY <2>3, <3>1
    <3>3. q.at = call[c].at /\ q.on = call[c].on /\ q.payload = data
      BY <3>1 DEF CallRecords
    <3>4. Sound(q)
      <4> HIDE DEF q
      <4>1. QED
        BY <1>10, <3>3 DEF Sound, OnWire, TornInv
    <3> HIDE DEF q
    <3>5. \A d \in Callers : Sound(call'[d])
      BY <3>1, <3>2, <3>4 DEF TornInv
    <3>6. QED
      BY <2>3, <3>5
  <2>4. QED
    BY <1>8, <2>2, <2>3
<1>12. /\ \A i \in DOMAIN stream' : IsPart(stream'[i])
       /\ Len(s) >= size => stream' # <<>> /\ Head(stream') = RestOf(s, size)
  <2>1. \A i \in DOMAIN Tail(stream) : IsPart(Tail(stream)[i])
    BY <1>1 DEF TornInv
  <2>2. CASE Len(s) < size
    <3>1. ~(Len(s) >= size)
      BY <1>3, <1>9, <2>2
    <3>2. QED
      BY <1>7, <2>1, <2>2, <3>1
  <2>3. CASE ~(Len(s) < size)
    <3>1. Len(s) >= size
      BY <1>3, <1>9, <2>3
    <3>2. IsPart(RestOf(s, size))
      BY <1>1, <1>3, <1>4, <3>1, RestIsPart
    <3> DEFINE rest == RestOf(s, size)
               tail == Tail(stream)
               one  == <<rest>>
    <3>3. rest \in Seq(Units)
      <4>1. size + 1 \in Nat \ {0}
        BY <1>3
      <4>2. QED
        BY <1>1, <1>9, <4>1, SliceType DEF RestOf
    <3>4. one \in Seq(Seq(Units)) /\ Len(one) = 1 /\ one[1] = rest
      BY <3>3
    <3>5. tail \in Seq(Seq(Units)) /\ Len(tail) \in Nat /\ DOMAIN tail = 1..Len(tail)
      BY <1>1, LenProperties
    <3>6. stream' = one \o tail
      BY <1>7, <2>3
    <3> HIDE DEF rest, one, tail
    <3>7. /\ stream' \in Seq(Seq(Units)) /\ Len(stream') = Len(one) + Len(tail)
          /\ \A i \in 1..(Len(one) + Len(tail)) :
                stream'[i] = IF i <= Len(one) THEN one[i] ELSE tail[i - Len(one)]
      BY <3>4, <3>5, <3>6, ConcatProperties
    <3>8. DOMAIN stream' = 1..(1 + Len(tail))
      BY <3>4, <3>7, LenProperties
    <3>9. stream'[1] = rest /\ stream' # <<>> /\ Head(stream') = stream'[1]
      <4>1. 1 \in 1..(1 + Len(tail)) /\ 1 <= 1 /\ 1 + Len(tail) # 0
        BY <3>5
      <4>2. stream'[1] = rest
        BY <3>4, <3>7, <4>1
      <4>3. stream' # <<>>
        BY <3>4, <3>7, <4>1, EmptySeq
      <4>4. QED
        BY <3>7, <4>2, <4>3
    <3>10. ASSUME NEW i \in DOMAIN stream', i # 1 PROVE IsPart(stream'[i])
      <4>1. i - 1 \in DOMAIN tail /\ ~(i <= 1) /\ i \in 1..(1 + Len(tail))
        BY <3>5, <3>8, <3>10
      <4>2. stream'[i] = tail[i - 1]
        BY <3>4, <3>7, <4>1
      <4>3. QED
        BY <2>1, <4>1, <4>2 DEF tail
    <3>11. QED
      BY <3>2, <3>9, <3>10 DEF rest
  <2>4. QED
    BY <2>2, <2>3
<1>13. engine'.active => /\ engine'.pending = "none"
                         /\ Waiting' => stream' # <<>> /\ Gathers(engine', Head(stream'))
  BY <1>6, <1>7, <1>12
<1>14. QED
  BY <1>11, <1>12, <1>13 DEF TornInv, NeverTorn

(* What the camera puts on the cable goes behind what is already there.    *)
LEMMA AppendedParts ==
    ASSUME stream \in Seq(Seq(Units)), \A i \in DOMAIN stream : IsPart(stream[i]),
           NEW q \in Seq(Seq(Units)), \A i \in DOMAIN q : IsPart(q[i]),
           stream' = stream \o q
    PROVE  /\ \A i \in DOMAIN stream' : IsPart(stream'[i])
           /\ stream # <<>> => stream' # <<>> /\ Head(stream') = Head(stream)
<1>1. /\ stream' \in Seq(Seq(Units)) /\ Len(stream') = Len(stream) + Len(q)
      /\ \A i \in 1..(Len(stream) + Len(q)) :
            stream'[i] = IF i <= Len(stream) THEN stream[i] ELSE q[i - Len(stream)]
  BY ConcatProperties
<1> DEFINE a == Len(stream)
           b == Len(q)
<1>2. a \in Nat /\ b \in Nat /\ DOMAIN stream = 1..a /\ DOMAIN q = 1..b /\ DOMAIN stream' = 1..(a + b)
  BY <1>1, LenProperties
<1> HIDE DEF a, b
<1>3. ASSUME NEW i \in DOMAIN stream' PROVE IsPart(stream'[i])
  <2>1. CASE i <= a
    <3>1. i \in DOMAIN stream /\ i \in 1..(a + b)
      BY <1>2, <2>1
    <3>2. stream'[i] = stream[i]
      BY <1>1, <2>1, <3>1 DEF a, b
    <3>3. QED
      BY <3>1, <3>2
  <2>2. CASE ~(i <= a)
    <3>1. i - a \in DOMAIN q /\ i \in 1..(a + b)
      BY <1>2, <2>2
    <3>2. stream'[i] = q[i - a]
      BY <1>1, <2>2, <3>1 DEF a, b
    <3>3. QED
      BY <3>1, <3>2
  <2>3. QED
    BY <2>1, <2>2
<1>4. ASSUME stream # <<>> PROVE stream' # <<>> /\ Head(stream') = Head(stream)
  <2>1. a # 0
    BY <1>4, EmptySeq DEF a
  <2>2. 1 \in 1..(a + b) /\ 1 <= a /\ a + b # 0
    BY <1>2, <2>1
  <2>3. stream'[1] = stream[1]
    BY <1>1, <2>2 DEF a, b
  <2>4. stream' # <<>>
    BY <1>1, <2>2, EmptySeq DEF a, b
  <2>5. Head(stream') = stream'[1] /\ Head(stream) = stream[1]
    BY <1>1, <1>4, <2>4
  <2>6. QED
    BY <2>3, <2>4, <2>5
<1>5. QED
  BY <1>3, <1>4

LEMMA CameraTorn ==
    ASSUME TornInv, SessionOK, CableOK, Camera
    PROVE  TornInv'
<1> DEFINE t == Head(commands).txn
<1>1. t \in Tags
  <2>1. Head(commands) \in [txn : Tags, op : Ops]
    BY HeadTailProperties DEF Camera, CableOK
  <2>2. QED
    BY <2>1
<1>2. \/ Serve(t)
      \/ UNCHANGED call /\ \E ok \in BOOLEAN : stream' = Append(stream, <<Response(t, ok)>>)
  BY DEF Camera
<1>3. UNCHANGED fields /\ UNCHANGED engine /\ outcome' = "none"
  BY DEF Camera
<1> HIDE DEF t
<1>4. \E q \in Seq(Seq(Units)) : stream' = stream \o q /\ \A i \in DOMAIN q : IsPart(q[i])
  <2>1. CASE Serve(t)
    <3>1. PICK len \in 1..MaxLen :
            \/ stream' = stream \o <<DataContainer(t, len), <<Response(t, TRUE)>>>>
            \/ stream' = Append(stream, DataContainer(t, len) \o <<Response(t, TRUE)>>)
      BY <2>1 DEF Serve
    <3> DEFINE d == DataContainer(t, len)
               a == <<Response(t, TRUE)>>
    <3>2. d \in Seq(Units) /\ IsPart(d) /\ IsPart(a) /\ IsPart(d \o a)
      BY <1>1, ContainerIsPart, ContainerType
    <3>3. a \in Seq(Units)
      <4>1. Response(t, TRUE) \in Units
        BY <1>1, ResponseType
      <4>2. QED
        BY <4>1, SingleType
    <3>4. stream' = stream \o <<d, a>> \/ stream' = Append(stream, d \o a)
      BY <3>1
    <3> HIDE DEF d, a
    <3>5. <<d, a>> \in Seq(Seq(Units)) /\ \A i \in DOMAIN <<d, a>> : IsPart(<<d, a>>[i])
      BY <3>2, <3>3
    <3> DEFINE b == d \o a
    <3>6. b \in Seq(Units)
      BY <3>2, <3>3, ConcatProperties
    <3>7. stream' = stream \o <<d, a>> \/ stream' = Append(stream, b)
      BY <3>4
    <3>8. IsPart(b)
      BY <3>2
    <3> HIDE DEF b
    <3>9. <<b>> \in Seq(Seq(Units)) /\ \A i \in DOMAIN <<b>> : IsPart(<<b>>[i])
      BY <3>6, <3>8
    <3>10. Append(stream, b) = stream \o <<b>>
      BY <3>6, AppendIsConcat DEF CableOK
    <3>11. QED
      BY <3>5, <3>7, <3>9, <3>10
  <2>2. CASE \E ok \in BOOLEAN : stream' = Append(stream, <<Response(t, ok)>>)
    <3>1. PICK ok \in BOOLEAN : stream' = Append(stream, <<Response(t, ok)>>)
      BY <2>2
    <3> DEFINE b == <<Response(t, ok)>>
    <3>2. b \in Seq(Units)
      <4>1. Response(t, ok) \in Units
        BY <1>1, ResponseType
      <4>2. QED
        BY <4>1, SingleType
    <3>3. IsPart(b) /\ stream' = Append(stream, b)
      BY <1>1, <3>1 DEF IsPart
    <3> HIDE DEF b
    <3>4. <<b>> \in Seq(Seq(Units)) /\ \A i \in DOMAIN <<b>> : IsPart(<<b>>[i])
      BY <3>2, <3>3
    <3>5. Append(stream, b) = stream \o <<b>>
      BY <3>2, AppendIsConcat DEF CableOK
    <3>6. QED
      BY <3>3, <3>4, <3>5
  <2>3. QED
    BY <1>2, <2>1, <2>2
<1>5. /\ \A i \in DOMAIN stream' : IsPart(stream'[i])
      /\ stream # <<>> => stream' # <<>> /\ Head(stream') = Head(stream)
  BY <1>4, AppendedParts DEF TornInv, CableOK
<1>6. \A d \in Callers : /\ call'[d].at = call[d].at /\ call'[d].on = call[d].on
                         /\ call'[d].payload = call[d].payload
  <2>1. CASE Serve(t)
    <3>1. ASSUME NEW d \in Callers
          PROVE  /\ call'[d].at = call[d].at /\ call'[d].on = call[d].on
                 /\ call'[d].payload = call[d].payload
      <4>1. call[d] \in CallRecords
        BY DEF SessionOK, Calls
      <4>2. PICK x : call'[d] = [call[d] EXCEPT !.answered = x]
        BY <2>1 DEF Serve
      <4>3. QED
        BY <4>1, <4>2 DEF CallRecords
    <3>2. QED
      BY <3>1
  <2>2. CASE UNCHANGED call
    BY <2>2
  <2>3. QED
    BY <1>2, <2>1, <2>2
<1>7. /\ Waiting' <=> Waiting
      /\ \A d \in Callers : Sound(call'[d])
  BY <1>3, <1>6 DEF Waiting, OnWire, fields, Sound, TornInv
<1>8. engine'.active => /\ engine'.pending = "none"
                        /\ Waiting' => stream' # <<>> /\ Gathers(engine', Head(stream'))
  BY <1>3, <1>5, <1>7 DEF TornInv
<1>9. QED
  BY <1>3, <1>5, <1>7, <1>8 DEF TornInv, NeverTorn

(* A new connection forgets the transfers, and nobody waits on it yet.     *)
LEMMA AttachTorn ==
    ASSUME TornInv, SessionOK, NEW c \in Callers, Attach(c)
    PROVE  TornInv'
<1>1. /\ call' = [call EXCEPT ![c] = [Idle EXCEPT !.at = "draining"]]
      /\ pipe' \in Pipes \ {call[d].on : d \in Transferring}
      /\ stream' = <<>> /\ outcome' = "none" /\ engine' = engine
  BY DEF Attach, WaitAt, AnyOf
<1>2. call \in [Callers -> Calls]
  BY DEF SessionOK
<1> DEFINE r == [Idle EXCEPT !.at = "draining"]
<1>3. ~OnWire(r) /\ Sound(r)
  BY DEF Sound, OnWire, Idle
<1> HIDE DEF r
<1>4. \A d \in Callers : call'[d] = IF d = c THEN r ELSE call[d]
  BY <1>1, <1>2 DEF r
<1>5. ~Waiting'
  BY <1>1, <1>3, <1>4 DEF Waiting, Transferring, OnWire
<1>6. \A d \in Callers : Sound(call'[d])
  BY <1>3, <1>4 DEF TornInv
<1>7. \A i \in DOMAIN stream' : IsPart(stream'[i])
  BY <1>1
<1>8. engine'.active => /\ engine'.pending = "none"
                        /\ Waiting' => stream' # <<>> /\ Gathers(engine', Head(stream'))
  BY <1>1, <1>5 DEF TornInv
<1>9. QED
  BY <1>1, <1>6, <1>7, <1>8 DEF TornInv, NeverTorn

(* The steps of a call that is off the wire and stays off it.              *)
LEMMA OffTorn ==
    ASSUME TornInv, SessionOK, NEW c \in Callers, NEW r, ~OnWire(r), r.payload = <<>>,
           call' = [call EXCEPT ![c] = r], pipe' \in {pipe, 0}, outcome' # "torn",
           UNCHANGED <<engine, stream>>
    PROVE  TornInv'
<1>1. Sound(r)
  BY DEF Sound
<1>2. call \in [Callers -> Calls]
  BY DEF SessionOK
<1>3. (Waiting' => Waiting) /\ \A d \in Callers : Sound(call'[d])
  BY <1>1, <1>2, CallMoves
<1>4. QED
  BY <1>3, QuietStep

LEMMA SleepTorn ==
    ASSUME TornInv, SessionOK, NEW c \in Callers, Sleep(c)
    PROVE  TornInv'
<1> DEFINE r == [Idle EXCEPT !.at = "sleeping", !.count = call[c].count + 1]
<1>1. ~OnWire(r) /\ r.payload = <<>>
  BY DEF OnWire, Idle
<1>2. /\ call' = [call EXCEPT ![c] = r] /\ pipe' \in {pipe, 0} /\ outcome' # "torn"
      /\ UNCHANGED <<engine, stream>>
  BY DEF Sleep, fields, wire
<1> HIDE DEF r
<1>3. QED
  BY <1>1, <1>2, OffTorn

LEMMA PlacesOff ==
    /\ ~OnWire(Idle) /\ Idle.payload = <<>>
    /\ \A place \in {"asking", "draining"} :
          ~OnWire([Idle EXCEPT !.at = place]) /\ [Idle EXCEPT !.at = place].payload = <<>>
BY DEF OnWire, Idle

LEMMA StartTorn ==
    ASSUME TornInv, SessionOK, CableOK, NEW c \in Callers, Start(c)
    PROVE  TornInv'
<1>1. CASE StartBulk(c)
  BY <1>1, SendTorn, SleepTorn DEF StartBulk, Take
<1>2. CASE StartMeta(c)
  BY <1>2, SendTorn DEF StartMeta
<1>3. CASE StartConnect(c)
  <2>1. CASE Send(c, "reclose")
    BY <2>1, SendTorn
  <2>2. CASE Disconnect /\ WaitAt(c, "asking") /\ outcome' = "none" /\ UNCHANGED <<engine, wire>>
    BY <2>2, PlacesOff, OffTorn DEF Disconnect, WaitAt, wire
  <2>3. QED
    BY <1>3, <2>1, <2>2 DEF StartConnect
<1>4. CASE StartClose(c)
  <2>1. CASE Send(c, "close")
    BY <2>1, SendTorn
  <2>2. CASE Disconnect /\ outcome' = "none" /\ UNCHANGED <<engine, wire, call>>
    <3>1. call' = [call EXCEPT ![c] = call[c]] /\ pipe' \in {pipe, 0} /\ Sound(call[c])
      BY <2>2 DEF Disconnect, SessionOK, TornInv
    <3>2. (Waiting' => Waiting) /\ \A d \in Callers : Sound(call'[d])
      BY <3>1, CallMoves DEF SessionOK
    <3>3. QED
      BY <2>2, <3>2, QuietStep DEF wire
  <2>3. QED
    BY <1>4, <2>1, <2>2 DEF StartClose
<1>5. QED
  BY <1>1, <1>2, <1>3, <1>4 DEF Start

LEMMA ContinueTorn ==
    ASSUME TornInv, SessionOK, CableOK, NEW c \in Callers, Continue(c)
    PROVE  TornInv'
<1>1. CASE WakeUp(c)
  BY <1>1, SendTorn, SleepTorn DEF WakeUp, Take
<1>2. CASE GiveUp(c)
  BY <1>2, PlacesOff, OffTorn DEF GiveUp, Leave, fields, wire
<1>3. CASE Refused(c)
  BY <1>3, PlacesOff, OffTorn DEF Refused, Disconnect, Leave, wire
<1>4. CASE Attach(c)
  BY <1>4, AttachTorn
<1>5. CASE OpenSession(c)
  BY <1>5, SendTorn DEF OpenSession
<1>6. CASE Sent(c)
  <2> DEFINE q == [call[c] EXCEPT !.at = "in"]
  <2>1. call[c] \in CallRecords /\ call \in [Callers -> Calls] /\ OnWire(call[c])
    BY <1>6 DEF SessionOK, Calls, Sent, OnWire
  <2>2. call' = [call EXCEPT ![c] = q]
    BY <1>6, <2>1 DEF Sent
  <2>3. q.on = call[c].on /\ q.payload = call[c].payload
    BY <2>1 DEF CallRecords
  <2> HIDE DEF q
  <2>4. Sound(q)
    BY <2>1, <2>3 DEF Sound, TornInv
  <2>5. (Waiting' => Waiting) /\ \A d \in Callers : Sound(call'[d])
    BY <1>6, <2>1, <2>2, <2>3, <2>4, CallMoves DEF Sent, fields
  <2>6. QED
    BY <1>6, <2>5, QuietStep DEF Sent
<1>7. CASE SendFails(c)
  <2>1. OnWire(call[c])
    BY <1>7 DEF SendFails, OnWire
  <2>2. /\ Waiting' => Waiting
        /\ \A d \in Callers : Sound(call'[d])
        /\ outcome' # "torn"
    BY <1>7, <2>1, EndOfCall DEF SendFails, Fail
  <2>3. QED
    BY <1>7, <2>2, QuietStep DEF SendFails, wire
<1>8. CASE Receive(c)
  BY <1>8, ReceiveTorn
<1>9. CASE ReceiveFails(c)
  <2>1. OnWire(call[c])
    BY <1>9 DEF ReceiveFails, OnWire
  <2>2. /\ Waiting' => Waiting
        /\ \A d \in Callers : Sound(call'[d])
        /\ outcome' # "torn"
    BY <1>9, <2>1, EndOfCall DEF ReceiveFails, Fail
  <2>3. QED
    BY <1>9, <2>2, QuietStep DEF ReceiveFails, wire
<1>10. QED
  BY <1>1, <1>2, <1>3, <1>4, <1>5, <1>6, <1>7, <1>8, <1>9 DEF Continue

LEMMA TornNext == Inductive /\ TornInv /\ [Next]_vars => TornInv'
<1> SUFFICES ASSUME Inductive, TornInv, [Next]_vars PROVE TornInv'
  OBVIOUS
<1>1. SessionOK /\ CableOK
  BY DEF Inductive
<1>2. ASSUME NEW c \in Callers, Start(c) PROVE TornInv'
  BY <1>1, <1>2, StartTorn
<1>3. ASSUME NEW c \in Callers, Continue(c) PROVE TornInv'
  BY <1>1, <1>3, ContinueTorn
<1>4. CASE Camera
  BY <1>1, <1>4, CameraTorn
<1>5. CASE UNCHANGED vars
  <2>1. call' = call /\ pipe' = pipe /\ UNCHANGED <<engine, stream>> /\ outcome' = outcome
    BY <1>5 DEF vars, fields, wire
  <2>2. (Waiting' => Waiting) /\ (\A c \in Callers : Sound(call'[c])) /\ outcome' # "torn"
    BY <2>1 DEF Waiting, TornInv, NeverTorn
  <2>3. QED
    BY <2>1, <2>2, QuietStep
<1>6. QED
  BY <1>2, <1>3, <1>4, <1>5 DEF Next

(* No call ever returns bytes of two containers, or of a part of one:      *)
(* however the bulk and metadata calls, connects and disconnects interleave *)
(* on the one engine, whatever is lost, and however the buffers cut the    *)
(* transfers.                                                              *)
THEOREM DataIsWhole == Spec => []NeverTorn
<1>1. TornInv => NeverTorn
  BY DEF TornInv
<1>2. QED
  BY <1>1, TornInit, TornNext, AlwaysInductive, PTL DEF Spec
-----------------------------------------------------------------------------
(* The contract of the transport, for bulk calls that are Alone.           *)
(*                                                                         *)
(* How far a call has come, from the engine and the cable: its command is  *)
(* unsent, unserved or acknowledged without data; or the camera is         *)
(* delivering len units to it, of whose container k units have been read;  *)
(* or it has its payload and only the response is left.  The room left in  *)
(* its reads is always more than what is left of the container.            *)
Fresh(e) == ~e.active /\ e.pending = "none"
Reply(r, ok) == <<Response(r.tag, ok)>>
Answerless(r, e) == Fresh(e) /\ r.payload = <<>> /\ r.count = 0 /\ r.answered = FALSE

Unsent(r, e, cs, ss) == r.at = "out" /\ Answerless(r, e) /\ cs = <<>> /\ ss = <<>>

Unserved(r, e, cs, ss) ==
    /\ r.at = "in" /\ Answerless(r, e)
    /\ cs = <<[txn |-> r.tag, op |-> r.op]>> /\ ss = <<>>

Acked(r, e, cs, ss) ==
    /\ r.at = "in" /\ Answerless(r, e) /\ cs = <<>>
    /\ \E ok \in BOOLEAN : ss = <<Reply(r, ok)>> /\ (r.op = "bulk" => ~ok)

Stage(r, e, len, k) ==
    \/ k = 0 /\ Fresh(e) /\ r.payload = <<>>
    \/ /\ k \in 1..len /\ r.payload = <<>>
       /\ e.active /\ e.pending = "none" /\ Holding(e, r.tag, len, k - 1)
    \/ k = len + 1 /\ Fresh(e) /\ r.payload = Payload(r.tag, len)

Delivering(r, e, cs, ss, len, k) ==
    /\ r.at = "in" /\ r.op = "bulk" /\ cs = <<>>
    /\ \E rest \in Seq(Units) :
          /\ ss = <<rest, Reply(r, TRUE)>>
          /\ k + Len(rest) = len + 1 /\ PartOf(rest, r.tag, len, k)
          /\ Len(rest) < BulkBuf * (BulkReads - 1 - r.count)
    /\ Stage(r, e, len, k)

Delivered(r, e, cs, ss, len) ==
    /\ r.at = "in" /\ r.op = "bulk" /\ cs = <<>> /\ ss = <<Reply(r, TRUE)>>
    /\ Fresh(e) /\ r.payload = Payload(r.tag, len)

Progress(r, e, cs, ss) ==
    \/ Unsent(r, e, cs, ss) \/ Unserved(r, e, cs, ss) \/ Acked(r, e, cs, ss)
    \/ \E len \in 1..MaxLen : \/ Delivered(r, e, cs, ss, len)
                              \/ \E k \in Nat : Delivering(r, e, cs, ss, len, k)

(* Where a call may be, with the session open and without it.              *)
Seated(c, r, open, p) ==
    /\ OnWire(r) => r.on = p /\ p # 0 /\ r.op = IF open THEN "bulk" ELSE "open"
    /\ open => r.at \notin {"asking", "draining"}
    /\ ~open => r.at # "sleeping" /\ (r.at # "idle" => c \in Openers)
    /\ r.at = "draining" => p # 0

AloneInv ==
    /\ \A c \in Callers : Seated(c, call[c], sessionOpen, pipe)
    /\ \A c \in Callers : OnWire(call[c]) => Progress(call[c], engine, commands, stream)
    /\ (\A c \in Callers : ~OnWire(call[c])) => commands = <<>> /\ stream = <<>>
    /\ sessionOpen => pipe # 0
    /\ outcome \in {"none", "own", "nothing"}

LEMMA Room ==
    ASSUME NEW b \in Nat, b > 1, NEW x \in Int, NEW n \in Nat, n < b * x
    PROVE  x >= 1 /\ (n >= b => n - b < b * (x - 1))
<1>1. x >= 1
  <2> SUFFICES ASSUME x <= 0 PROVE FALSE
    OBVIOUS
  <2>1. b * x <= 0
    OBVIOUS
  <2>2. QED
    BY <2>1
<1>2. b * (x - 1) = b * x - b
  OBVIOUS
<1>3. b * x \in Int
  OBVIOUS
<1>4. QED
  BY <1>1, <1>2, <1>3

(* A response by itself, read while no data phase is open.                 *)
LEMMA ReplyRead ==
    ASSUME NEW t \in Tags, NEW ok \in BOOLEAN, NEW e \in Engines, Fresh(e),
           NEW size \in Nat, size > 1, NEW expectData, NEW s, s = <<Response(t, ok)>>
    PROVE  /\ s # <<>> /\ s \in Seq(Units) /\ Len(s) < size
           /\ ProcessIncoming(e, ReadOf(s, size), expectData)
                = GotResponse(e, IF ok THEN "ok" ELSE "error")
<1> DEFINE u == Response(t, ok)
<1>1. u \in Units /\ u.kind = "response" /\ (u.n = 1 <=> ok)
  BY ResponseType DEF Response
<1>2. s = <<u>>
  OBVIOUS
<1> HIDE DEF u
<1>3. s \in Seq(Units) /\ Len(s) = 1 /\ Head(s) = u /\ s[1] = u
  BY <1>1, <1>2
<1>4. size \in Nat \ {0} /\ Lesser(size, Len(s)) = 1
  BY <1>3 DEF Lesser
<1>5. ReadOf(s, size) \in Seq(Units) /\ Len(ReadOf(s, size)) = 1 /\ ReadOf(s, size)[1] = u
  <2>1. 1 \in 1..1
    OBVIOUS
  <2>2. QED
    BY <1>3, <1>4, <2>1, ReadProperties
<1> DEFINE raw == ReadOf(s, size)
<1> HIDE DEF raw
<1>6. raw # <<>> /\ Head(raw) = u /\ Len(raw) = 1
  BY <1>5 DEF raw
<1>7. ProcessIncoming(e, raw, expectData) = GotResponse(e, GetResp(raw))
  BY <1>1, <1>6 DEF ProcessIncoming, Fresh
<1>8. GetResp(raw) = IF ok THEN "ok" ELSE "error"
  BY <1>1, <1>6 DEF GetResp
<1>9. s # <<>> /\ Len(s) < size
  BY <1>3
<1>10. QED
  BY <1>3, <1>7, <1>8, <1>9 DEF raw

(* What the engine does with a read while data is delivered.               *)
OneOf(q, e, raw) ==
    /\ raw = <<>> => q = KeepReading(e)
    /\ raw # <<>> /\ e.pending = "none" /\ e.active => q = Accumulate(e, raw)
    /\ raw # <<>> /\ Fresh(e) /\ Head(raw).kind = "data" => q = StartData(e, raw)

LEMMA ReadIsOneOf ==
    ASSUME NEW e, NEW raw, NEW expectData, expectData, NEW q,
           q = ProcessIncoming(e, raw, expectData)
    PROVE  OneOf(q, e, raw)
BY DEF ProcessIncoming, OneOf, Fresh

(* One read of a delivery moves it on by what was read.                    *)
LEMMA DeliveryRead ==
    ASSUME NEW r, r.tag \in Tags, NEW len \in 1..MaxLen, NEW k \in Nat, NEW rest \in Seq(Units),
           k + Len(rest) = len + 1, PartOf(rest, r.tag, len, k),
           NEW e \in Engines, Stage(r, e, len, k), NEW size \in Nat \ {0},
           NEW m, m = Lesser(size, Len(rest)),
           NEW raw, raw = ReadOf(rest, size), NEW q, OneOf(q, e, raw),
           NEW r1, r1.tag = r.tag,
           r1.payload = IF q.action = 1 /\ q.data # <<>> THEN q.data ELSE r.payload
    PROVE  q.action # 2 /\ Stage(r1, q.engine, len, k + m)
<1> DEFINE t == r.tag
           n == Len(rest)
<1>1. len \in Nat /\ len >= 1 /\ n \in Nat
  BY SessionAssumption
<1>2. m \in Nat /\ m <= n /\ (m = size \/ m = n) /\ raw \in Seq(Units) /\ Len(raw) = m
  BY ReadProperties
<1>3. raw = <<>> <=> n = 0
  <2>1. raw = <<>> <=> m = 0
    BY <1>2, EmptySeq
  <2> HIDE DEF n
  <2>2. QED
    BY <1>1, <1>2, <2>1
<1>4. k + n = len + 1 /\ t \in Tags
  OBVIOUS
<1>5. /\ WholeOne(Payload(t, len)) /\ Payload(t, len) # <<>>
  BY PayloadIsWhole
<1> HIDE DEF t, n
<1>6. CASE k = 0 /\ Fresh(e) /\ r.payload = <<>>
  <2>1. raw # <<>>
    BY <1>1, <1>3, <1>4, <1>6
  <2>2. /\ Head(raw) = DataHeader(t, len) /\ m >= 1
        /\ IF m - 1 >= len
           THEN LET x == StartData(e, raw) IN
                x.action = 1 /\ x.data = Payload(t, len) /\ x.engine = e
           ELSE LET x == StartData(e, raw) IN
                /\ x.action = 0 /\ x.engine.active /\ x.engine.pending = e.pending
                /\ Holding(x.engine, t, len, m - 1)
    BY <1>4, <1>6, <2>1, StartDataExact DEF t
  <2>3. q = StartData(e, raw)
    BY <1>6, <2>1, <2>2 DEF OneOf, Fresh, DataHeader
  <2>4. CASE m - 1 >= len
    <3>1. m = len + 1 /\ k + m = len + 1
      BY <1>1, <1>2, <1>4, <1>6, <2>4
    <3>2. q.action = 1 /\ q.data = Payload(t, len) /\ q.engine = e
      BY <2>2, <2>3, <2>4
    <3>3. r1.payload = Payload(r1.tag, len)
      BY <1>5, <3>2 DEF t
    <3>4. QED
      BY <1>6, <3>1, <3>2, <3>3 DEF Stage
  <2>5. CASE ~(m - 1 >= len)
    <3>1. k + m = m /\ k + m \in 1..len
      BY <1>1, <1>2, <1>6, <2>2, <2>5
    <3>2. q.action = 0 /\ q.engine.active /\ q.engine.pending = "none" /\ Holding(q.engine, t, len, m - 1)
      BY <1>6, <2>2, <2>3, <2>5 DEF Fresh
    <3>3. r1.payload = <<>>
      BY <1>6, <3>2
    <3>4. QED
      BY <3>1, <3>2, <3>3 DEF Stage, t
  <2>6. QED
    BY <2>4, <2>5
<1>7. CASE /\ k \in 1..len /\ r.payload = <<>>
           /\ e.active /\ e.pending = "none" /\ Holding(e, r.tag, len, k - 1)
  <2>1. raw # <<>>
    BY <1>1, <1>3, <1>4, <1>7
  <2>2. q = Accumulate(e, raw)
    BY <1>7, <2>1 DEF OneOf
  <2>3. PICK j \in Nat : j = k - 1
    BY <1>1, <1>7
  <2>4. Holding(e, t, len, j) /\ PartOf(rest, t, len, j + 1)
    <3>1. j + 1 = k
      BY <2>3
    <3>2. QED
      BY <1>7, <2>3, <3>1 DEF t
  <2>5. IF j + m >= len
        THEN /\ q.action = 1 /\ q.data = Payload(t, len) /\ ~q.engine.active
             /\ j + m = len => q.engine.pending = e.pending
        ELSE /\ q.action = 0 /\ q.engine.active = e.active /\ q.engine.pending = e.pending
             /\ Holding(q.engine, t, len, j + m)
    BY <1>4, <2>2, <2>4, AccumulateExact
  <2>6. CASE j + m >= len
    <3>1. k + m = len + 1 /\ j + m = len
      BY <1>1, <1>2, <1>4, <2>3, <2>6
    <3>2. q.action = 1 /\ q.data = Payload(t, len) /\ Fresh(q.engine)
      BY <1>7, <2>5, <2>6, <3>1 DEF Fresh
    <3>3. r1.payload = Payload(r1.tag, len)
      BY <1>5, <3>2 DEF t
    <3>4. QED
      BY <3>1, <3>2, <3>3 DEF Stage
  <2>7. CASE ~(j + m >= len)
    <3>1. k + m \in 1..len /\ j + m = (k + m) - 1
      BY <1>1, <1>2, <1>7, <2>3, <2>7
    <3>2. /\ q.action = 0 /\ q.engine.active /\ q.engine.pending = "none"
          /\ Holding(q.engine, t, len, (k + m) - 1)
      BY <1>7, <2>5, <2>7, <3>1
    <3>3. r1.payload = <<>>
      BY <1>7, <3>2
    <3>4. QED
      BY <3>1, <3>2, <3>3 DEF Stage, t
  <2>8. QED
    BY <2>6, <2>7
<1>8. CASE k = len + 1 /\ Fresh(e) /\ r.payload = Payload(r.tag, len)
  <2>1. raw = <<>> /\ m = 0 /\ k + m = len + 1
    BY <1>1, <1>2, <1>3, <1>4, <1>8
  <2>2. q = KeepReading(e)
    BY <2>1 DEF OneOf
  <2>3. q.action = 0 /\ q.engine = e
    BY <2>2 DEF KeepReading, Result
  <2>4. QED
    BY <1>8, <2>1, <2>3 DEF Stage
<1>9. QED
  BY <1>6, <1>7, <1>8 DEF Stage

LEMMA IdleSeated ==
    ASSUME NEW c, NEW r, r.at = "idle", NEW open, NEW p PROVE Seated(c, r, open, p)
BY DEF Seated, OnWire

LEMMA AloneInit == Init => AloneInv
<1> SUFFICES ASSUME Init PROVE AloneInv
  OBVIOUS
<1>1. Idle.at = "idle" /\ ~OnWire(Idle)
  BY DEF Idle, OnWire
<1>2. QED
  BY <1>1, IdleSeated DEF Init, AloneInv

(* Nobody else is on the wire: one bulk call, or the one opener.           *)
LEMMA OnlyOne ==
    ASSUME AloneInv, SessionOK, NEW c \in Callers, NEW d \in Callers,
           OnWire(call[c]), OnWire(call[d])
    PROVE  c = d
<1>1. CASE sessionOpen
  <2>1. OnTheWire(c) /\ OnTheWire(d)
    BY <1>1 DEF AloneInv, Seated, OnTheWire, Bulky
  <2>2. QED
    BY <2>1 DEF SessionOK, BulkExclusion
<1>2. CASE ~sessionOpen
  <2>1. c \in Openers /\ d \in Openers
    BY <1>2 DEF AloneInv, Seated, OnWire
  <2>2. QED
    BY <2>1, SessionAssumption
<1>3. QED
  BY <1>1, <1>2

(* Before the session is open nobody but the opener does anything.         *)
LEMMA OthersIdle ==
    ASSUME AloneInv, ~sessionOpen, NEW c \in Callers, c \in Openers
    PROVE  \A d \in Callers \ {c} : call[d].at = "idle"
BY SessionAssumption DEF AloneInv, Seated

(* A step of the call that has, or gets, the wire.                         *)
LEMMA AloneBy ==
    ASSUME AloneInv, SessionOK, NEW c \in Callers, NEW r, call' = [call EXCEPT ![c] = r],
           \A d \in Callers \ {c} : /\ ~OnWire(call[d])
                                    /\ Seated(d, call[d], sessionOpen', pipe'),
           Seated(c, r, sessionOpen', pipe'),
           OnWire(r) => Progress(r, engine', commands', stream'),
           ~OnWire(r) => commands' = <<>> /\ stream' = <<>>,
           sessionOpen' => pipe' # 0, outcome' \in {"none", "own", "nothing"}
    PROVE  AloneInv'
<1>1. \A d \in Callers : call'[d] = IF d = c THEN r ELSE call[d]
  BY DEF SessionOK
<1>2. \A d \in Callers : Seated(d, call'[d], sessionOpen', pipe')
  BY <1>1
<1>3. \A d \in Callers : OnWire(call'[d]) => Progress(call'[d], engine', commands', stream')
  BY <1>1
<1>4. (\A d \in Callers : ~OnWire(call'[d])) => commands' = <<>> /\ stream' = <<>>
  BY <1>1
<1>5. QED
  BY <1>2, <1>3, <1>4 DEF AloneInv

(* A step of a call that is off the wire and stays off it.                 *)
LEMMA AloneAside ==
    ASSUME AloneInv, SessionOK, NEW c \in Callers, NEW r, call' = [call EXCEPT ![c] = r],
           ~OnWire(r), ~OnWire(call[c]), Seated(c, r, sessionOpen, pipe),
           UNCHANGED <<sessionOpen, pipe, engine, commands, stream>>,
           outcome' \in {"none", "own", "nothing"}
    PROVE  AloneInv'
<1>1. \A d \in Callers : call'[d] = IF d = c THEN r ELSE call[d]
  BY DEF SessionOK
<1>2. \A d \in Callers : Seated(d, call'[d], sessionOpen', pipe')
  BY <1>1 DEF AloneInv
<1>3. \A d \in Callers : OnWire(call'[d]) => Progress(call'[d], engine', commands', stream')
  BY <1>1 DEF AloneInv
<1>4. (\A d \in Callers : ~OnWire(call'[d])) => commands' = <<>> /\ stream' = <<>>
  BY <1>1 DEF AloneInv
<1>5. QED
  BY <1>2, <1>3, <1>4 DEF AloneInv

LEMMA SendAlone ==
    ASSUME AloneInv, SessionOK, CableOK, NEW c \in Callers, NEW o, Send(c, o), pipe # 0,
           o = IF sessionOpen THEN "bulk" ELSE "open", ~sessionOpen => c \in Openers,
           \A d \in Callers : ~OnWire(call[d])
    PROVE  AloneInv'
<1> DEFINE r == [Idle EXCEPT !.at = "out", !.op = o, !.tag = AnyOf(Tags \ InUse), !.on = pipe]
<1>1. /\ call' = [call EXCEPT ![c] = r] /\ outcome' = "none"
      /\ UNCHANGED <<sessionOpen, pipe, commands, stream>>
  BY DEF Send, wire
<1>2. /\ r.at = "out" /\ r.op = o /\ r.on = pipe /\ r.payload = <<>> /\ r.count = 0
      /\ r.answered = FALSE
  BY DEF Idle
<1> HIDE DEF r
<1>3. OnWire(r)
  BY <1>2 DEF OnWire
<1>4. Fresh(engine')
  BY DEF Send, BuildCommand, CableOK, Engines, Fresh
<1>5. commands' = <<>> /\ stream' = <<>>
  BY <1>1 DEF AloneInv
<1>6. Progress(r, engine', commands', stream')
  BY <1>2, <1>4, <1>5 DEF Progress, Unsent, Answerless
<1>7. Seated(c, r, sessionOpen', pipe')
  BY <1>1, <1>2 DEF Seated
<1>8. \A d \in Callers \ {c} : ~OnWire(call[d]) /\ Seated(d, call[d], sessionOpen', pipe')
  BY <1>1 DEF AloneInv
<1>9. QED
  BY <1>1, <1>3, <1>6, <1>7, <1>8, AloneBy DEF AloneInv

(* The end of the command of c, with nothing left on the cable.            *)
LEMMA EndAlone ==
    ASSUME AloneInv, SessionOK, NEW c \in Callers, OnWire(call[c]), Alone,
           NEW ok \in BOOLEAN, NEW data, End(c, ok, data),
           commands' = <<>> /\ stream' = <<>>,
           sessionOpen => Classify(c, data) \in {"own", "nothing"}
    PROVE  AloneInv'
<1>1. Idle.at = "idle" /\ ~OnWire(Idle)
  BY DEF Idle, OnWire
<1>2. \A d \in Callers \ {c} : ~OnWire(call[d]) /\ Seated(d, call[d], sessionOpen, pipe)
  BY OnlyOne DEF AloneInv
<1>3. Seated(c, call[c], sessionOpen, pipe)
  BY DEF AloneInv
<1>4. CASE sessionOpen
  <2>1. call[c].op = "bulk"
    BY <1>3, <1>4 DEF Seated
  <2>2. /\ call' = [call EXCEPT ![c] = Idle] /\ UNCHANGED <<sessionOpen, pipe>>
        /\ outcome' \in {"own", "nothing"}
    BY <1>4, <2>1 DEF End, ExpectsData, Return, Leave
  <2>3. Seated(c, Idle, sessionOpen', pipe')
    BY <1>1, IdleSeated
  <2>4. QED
    BY <1>1, <1>2, <1>4, <2>2, <2>3, AloneBy DEF AloneInv
<1>5. CASE ~sessionOpen
  <2>1. call[c].op = "open" /\ c \in Openers /\ pipe # 0
    BY <1>3, <1>5 DEF Seated, OnWire
  <2>2. /\ call' = [call EXCEPT ![c] = Idle] /\ outcome' = "none"
        /\ \/ sessionOpen' = TRUE /\ pipe' = pipe
           \/ sessionOpen' = FALSE /\ pipe' = 0
    BY <2>1 DEF End, ExpectsData, Acknowledged, Leave, Disconnect
  <2>3. \A d \in Callers \ {c} : call[d].at = "idle"
    BY <1>5, <2>1, OthersIdle
  <2>4. \A d \in Callers \ {c} : Seated(d, call[d], sessionOpen', pipe')
    BY <2>3, IdleSeated
  <2>5. Seated(c, Idle, sessionOpen', pipe')
    BY <1>1, IdleSeated
  <2>6. QED
    BY <1>1, <1>2, <2>1, <2>2, <2>4, <2>5, AloneBy
<1>6. QED
  BY <1>4, <1>5

LEMMA PairConcat ==
    ASSUME NEW S, NEW a \in S, NEW b \in S PROVE <<a>> \o <<b>> = <<a, b>>
<1> DEFINE s == <<a>> \o <<b>>
           t == <<a, b>>
<1>1. /\ <<a>> \in Seq(S) /\ <<b>> \in Seq(S) /\ Len(<<a>>) = 1 /\ Len(<<b>>) = 1
      /\ t \in Seq(S) /\ Len(t) = 2 /\ t[1] = a /\ t[2] = b
  OBVIOUS
<1>2. s \in Seq(S) /\ Len(s) = 2 /\ s[1] = a /\ s[2] = b
  BY <1>1, ConcatProperties
<1> HIDE DEF s, t
<1>3. s = t
  BY <1>1, <1>2, SeqEqual
<1>4. QED
  BY <1>3 DEF s, t

LEMMA StreamOfOne ==
    ASSUME NEW x \in Seq(Units), NEW size \in Nat, Len(x) < size, stream = <<x>>
    PROVE  /\ stream # <<>> /\ Head(stream) = x /\ AfterChunk(size) = <<>>
           /\ Chunk(size) = ReadOf(x, size)
<1>1. Head(stream) = x /\ Tail(stream) = <<>> /\ stream # <<>>
  OBVIOUS
<1>2. QED
  BY <1>1 DEF AfterChunk, Chunk, ReadOf

LEMMA StreamOfTwo ==
    ASSUME NEW x \in Seq(Units), NEW y \in Seq(Units), NEW size \in Nat \ {0}, stream = <<x, y>>
    PROVE  /\ Chunk(size) = ReadOf(x, size)
           /\ Len(x) < size => AfterChunk(size) = <<y>>
           /\ ~(Len(x) < size) => AfterChunk(size) = <<RestOf(x, size), y>>
<1>1. Head(stream) = x /\ Tail(stream) = <<y>>
  OBVIOUS
<1>2. Chunk(size) = ReadOf(x, size)
  BY <1>1 DEF Chunk, ReadOf
<1>3. Len(x) < size => AfterChunk(size) = <<y>>
  BY <1>1 DEF AfterChunk
<1>4. ASSUME ~(Len(x) < size) PROVE AfterChunk(size) = <<RestOf(x, size), y>>
  <2> DEFINE rest == RestOf(x, size)
  <2>1. AfterChunk(size) = <<rest>> \o <<y>>
    BY <1>1, <1>4 DEF AfterChunk, RestOf
  <2>2. rest \in Seq(Units)
    <3>1. size + 1 \in Nat \ {0} /\ Len(x) \in Nat
      OBVIOUS
    <3>2. QED
      BY <3>1, SliceType DEF RestOf
  <2> HIDE DEF rest
  <2>3. <<rest>> \o <<y>> = <<rest, y>>
    BY <2>2, PairConcat
  <2>4. QED
    BY <2>1, <2>3 DEF rest
<1>5. QED
  BY <1>2, <1>3, <1>4

(* A read of the response ends the command.                                *)
LEMMA ReplyAlone ==
    ASSUME Alone, AloneInv, SessionOK, CableOK, NEW c \in Callers, Receive(c),
           NEW ok \in BOOLEAN, stream = <<Reply(call[c], ok)>>, commands = <<>>, Fresh(engine),
           sessionOpen => Classify(c, IF ok THEN call[c].payload ELSE <<>>) \in {"own", "nothing"}
    PROVE  AloneInv'
<1> DEFINE s == Reply(call[c], ok)
           size == BufOf(c)
           r    == ProcessIncoming(engine, Chunk(size), ExpectsData(c))
<1>1. OnWire(call[c]) /\ call[c].tag \in Tags
  BY DEF Receive, OnWire, SessionOK, Calls
<1>2. size \in Nat /\ size > 1
  BY SessionAssumption DEF BufOf, Alone
<1>3. engine \in Engines
  BY DEF CableOK
<1>4. /\ s # <<>> /\ s \in Seq(Units) /\ Len(s) < size
      /\ ProcessIncoming(engine, ReadOf(s, size), ExpectsData(c))
           = GotResponse(engine, IF ok THEN "ok" ELSE "error")
  <2> HIDE DEF size
  <2>1. QED
    BY <1>1, <1>2, <1>3, ReplyRead DEF Reply
<1>5. AfterChunk(size) = <<>> /\ Chunk(size) = ReadOf(s, size)
  <2> HIDE DEF s, size
  <2>1. stream = <<s>>
    BY DEF s
  <2>2. QED
    BY <1>2, <1>4, <2>1, StreamOfOne
<1>6. r = GotResponse(engine, IF ok THEN "ok" ELSE "error")
  BY <1>4, <1>5
<1>7. r.action = 2 /\ (r.code = "ok" <=> ok)
  BY <1>6 DEF GotResponse, Result
<1>8. /\ stream' = AfterChunk(size) /\ UNCHANGED commands
      /\ r.action = 2 => End(c, r.code = "ok", IF r.code = "ok" THEN call[c].payload ELSE <<>>)
  BY DEF Receive
<1> HIDE DEF r, s, size
<1>9. \E b \in BOOLEAN : End(c, b, IF ok THEN call[c].payload ELSE <<>>)
  BY <1>7, <1>8
<1>10. commands' = <<>> /\ stream' = <<>>
  BY <1>5, <1>8
<1>11. QED
  BY <1>1, <1>9, <1>10, EndAlone

(* What a call that the camera answered gets is its own.                   *)
LEMMA OwnPayload ==
    ASSUME NEW c \in Callers, call[c].tag \in Tags, NEW len \in 1..MaxLen,
           NEW data, data = Payload(call[c].tag, len)
    PROVE  Classify(c, data) = "own"
<1>1. data # <<>> /\ Len(data) = len
  BY PayloadIsWhole
<1>2. Whole(call[c].tag, data)
  BY <1>1 DEF Whole
<1>3. ASSUME NEW u \in Tags \ {call[c].tag} PROVE ~Whole(u, data)
  <2>1. 1 \in 1..len
    BY SessionAssumption
  <2>2. data[1].txn = call[c].tag /\ Payload(u, len)[1].txn = u
    BY <2>1 DEF Payload
  <2>3. QED
    BY <1>1, <2>2 DEF Whole
<1>4. QED
  BY <1>1, <1>2, <1>3 DEF Classify

(* One more read of a delivery.                                            *)
LEMMA DeliveryAlone ==
    ASSUME Alone, AloneInv, SessionOK, CableOK, NEW c \in Callers, Receive(c),
           NEW len \in 1..MaxLen, NEW k \in Nat,
           Delivering(call[c], engine, commands, stream, len, k)
    PROVE  AloneInv'
<1> DEFINE size == BufOf(c)
           reply == Reply(call[c], TRUE)
           q == ProcessIncoming(engine, Chunk(size), ExpectsData(c))
           data == IF q.action = 1 /\ q.data # <<>> THEN q.data ELSE call[c].payload
           room == BulkReads - 1 - call[c].count
<1>1. PICK rest \in Seq(Units) :
        /\ stream = <<rest, reply>>
        /\ k + Len(rest) = len + 1 /\ PartOf(rest, call[c].tag, len, k)
        /\ Len(rest) < BulkBuf * room
  BY DEF Delivering
<1>2. /\ call[c].at = "in" /\ call[c].op = "bulk" /\ commands = <<>>
      /\ Stage(call[c], engine, len, k) /\ OnWire(call[c])
  BY DEF Delivering, OnWire
<1>3. /\ call[c] \in CallRecords /\ call[c].tag \in Tags /\ call[c].count \in Nat
      /\ call \in [Callers -> Calls] /\ engine \in Engines
  <2>1. call[c] \in Calls
    BY DEF SessionOK
  <2>2. QED
    BY <1>2, <2>1 DEF SessionOK, CableOK, Calls, CallRecords
<1>4. size = BulkBuf /\ size \in Nat /\ size > 1 /\ ExpectsData(c) /\ ReadsOf(c) = BulkReads
      /\ BulkReads \in Nat
  BY <1>2, SessionAssumption DEF BufOf, ReadsOf, ExpectsData, Alone
<1>5. reply \in Seq(Units)
  <2>1. Response(call[c].tag, TRUE) \in Units
    BY <1>3, ResponseType
  <2>2. QED
    BY <2>1, SingleType DEF Reply
<1>6. Len(rest) \in Nat /\ len \in Nat /\ room \in Int
  BY <1>3, <1>4, SessionAssumption
<1> HIDE DEF size, reply
<1>7. /\ Chunk(size) = ReadOf(rest, size)
      /\ Len(rest) < size => AfterChunk(size) = <<reply>>
      /\ ~(Len(rest) < size) => AfterChunk(size) = <<RestOf(rest, size), reply>>
  BY <1>1, <1>4, <1>5, StreamOfTwo
<1> DEFINE m == Lesser(size, Len(rest))
           r1 == [call[c] EXCEPT !.payload = data, !.count = @ + 1]
<1>8. m \in Nat /\ m = IF Len(rest) < size THEN Len(rest) ELSE size
  BY <1>4, <1>6 DEF Lesser
<1>9. OneOf(q, engine, ReadOf(rest, size))
  BY <1>4, <1>7, ReadIsOneOf
<1> HIDE DEF q
<1>10. /\ r1.tag = call[c].tag /\ r1.payload = data /\ r1.at = call[c].at
       /\ r1.op = call[c].op /\ r1.on = call[c].on /\ r1.count = call[c].count + 1
  BY <1>3 DEF CallRecords
<1> HIDE DEF r1
<1>11. q.action # 2 /\ Stage(r1, q.engine, len, k + m)
  BY <1>1, <1>2, <1>3, <1>4, <1>9, <1>10, DeliveryRead DEF m
<1> HIDE DEF m, room
<1>12. room >= 1 /\ (Len(rest) >= size => Len(rest) - size < size * (room - 1))
  BY <1>1, <1>4, <1>6, Room
<1>13. call[c].count + 1 < ReadsOf(c)
  BY <1>3, <1>4, <1>12 DEF room
<1>14. /\ call' = [call EXCEPT ![c] = r1] /\ outcome' = "none" /\ UNCHANGED fields
       /\ engine' = q.engine /\ stream' = AfterChunk(size) /\ commands' = <<>>
  <2>1. /\ engine' = q.engine /\ stream' = AfterChunk(size) /\ commands' = commands
        /\ \/ q.action = 2
           \/ /\ call' = [call EXCEPT ![c].payload = data, ![c].count = @ + 1]
              /\ outcome' = "none" /\ UNCHANGED fields
           \/ call[c].count + 1 >= ReadsOf(c)
    BY DEF Receive, q, size
  <2>2. ~(call[c].count + 1 >= ReadsOf(c))
    BY <1>3, <1>4, <1>13
  <2> HIDE DEF data
  <2>3. /\ call' = [call EXCEPT ![c].payload = data, ![c].count = @ + 1]
        /\ outcome' = "none" /\ UNCHANGED fields
    BY <1>11, <2>1, <2>2
  <2>4. call' = [call EXCEPT ![c] = r1]
    BY <1>3, <2>3 DEF r1
  <2>5. QED
    BY <1>2, <2>1, <2>3, <2>4
<1> HIDE DEF data
<1>15. Progress(r1, engine', commands', stream')
  <2>1. Reply(r1, TRUE) = reply
    BY <1>10 DEF Reply, reply
  <2>2. CASE Len(rest) < size
    <3>1. stream' = <<Reply(r1, TRUE)>>
      BY <1>7, <1>14, <2>1, <2>2
    <3>2. k + m = len + 1
      BY <1>1, <1>6, <1>8, <2>2
    <3>3. Fresh(engine') /\ r1.payload = Payload(r1.tag, len)
      <4>1. ~(len + 1 = 0) /\ ~(len + 1 \in 1..len)
        BY <1>6
      <4>2. QED
        BY <1>11, <1>14, <3>2, <4>1 DEF Stage
    <3>4. Delivered(r1, engine', commands', stream', len)
      BY <1>2, <1>10, <1>14, <3>1, <3>3 DEF Delivered
    <3>5. QED
      BY <3>4 DEF Progress
  <2>3. CASE ~(Len(rest) < size)
    <3> DEFINE more == RestOf(rest, size)
    <3>1. stream' = <<more, Reply(r1, TRUE)>>
      BY <1>7, <1>14, <2>1, <2>3
    <3>2. m = size /\ Len(rest) >= size /\ size \in Nat \ {0} /\ size + 1 \in Nat \ {0}
      BY <1>4, <1>6, <1>8, <2>3
    <3>3. more \in Seq(Units) /\ Len(more) = Len(rest) - size
      <4>1. Len(rest) <= Len(rest) /\ size + 1 <= Len(rest) + 1
        BY <1>4, <1>6, <3>2
      <4>2. more \in Seq(Units) /\ Len(more) = Len(rest) + 1 - (size + 1)
        BY <1>6, <3>2, <4>1, SliceParts DEF RestOf
      <4> HIDE DEF more
      <4>3. QED
        BY <1>4, <1>6, <4>2
    <3>4. PartOf(more, r1.tag, len, k + m)
      <4>1. Len(rest) >= size => PartOf(RestOf(rest, size), call[c].tag, len, k + size)
        BY <1>1, <1>6, <3>2, ReadOfPart
      <4>2. QED
        BY <1>10, <3>2, <4>1
    <3> HIDE DEF more
    <3>5. (k + m) + Len(more) = len + 1 /\ k + m \in Nat
      <4>1. k + Len(rest) = len + 1 /\ k \in Nat /\ m = size /\ m \in Nat
        BY <1>1, <1>8, <3>2
      <4>2. QED
        BY <1>6, <3>3, <4>1
    <3>6. Len(more) < BulkBuf * (BulkReads - 1 - r1.count)
      <4>1. BulkReads - 1 - r1.count = room - 1
        BY <1>3, <1>4, <1>10 DEF room
      <4>2. QED
        BY <1>4, <1>12, <3>2, <3>3, <4>1
    <3>7. Delivering(r1, engine', commands', stream', len, k + m)
      BY <1>2, <1>10, <1>11, <1>14, <3>1, <3>3, <3>4, <3>5, <3>6 DEF Delivering
    <3>8. QED
      BY <3>5, <3>7 DEF Progress
  <2>4. QED
    BY <2>2, <2>3
<1>16. Seated(c, r1, sessionOpen', pipe')
  BY <1>10, <1>14 DEF AloneInv, Seated, OnWire, fields
<1>17. \A d \in Callers \ {c} : ~OnWire(call[d]) /\ Seated(d, call[d], sessionOpen', pipe')
  BY <1>2, <1>14, OnlyOne DEF AloneInv, fields
<1>18. OnWire(r1)
  BY <1>2, <1>10 DEF OnWire
<1>19. QED
  BY <1>14, <1>15, <1>16, <1>17, <1>18, AloneBy DEF AloneInv, fields

LEMMA ReceiveAlone ==
    ASSUME Alone, AloneInv, SessionOK, CableOK, NEW c \in Callers, Receive(c)
    PROVE  AloneInv'
<1>1. call[c].at = "in" /\ OnWire(call[c]) /\ stream # <<>> /\ call[c].tag \in Tags
  BY DEF Receive, OnWire, SessionOK, Calls
<1>2. Progress(call[c], engine, commands, stream) /\ Seated(c, call[c], sessionOpen, pipe)
  BY <1>1 DEF AloneInv
<1>3. CASE Acked(call[c], engine, commands, stream)
  <2>1. PICK ok \in BOOLEAN : stream = <<Reply(call[c], ok)>> /\ (call[c].op = "bulk" => ~ok)
    BY <1>3 DEF Acked
  <2>2. /\ commands = <<>> /\ Fresh(engine) /\ call[c].payload = <<>> /\ call[c].answered = FALSE
    BY <1>3 DEF Acked, Answerless
  <2>3. sessionOpen => Classify(c, IF ok THEN call[c].payload ELSE <<>>) \in {"own", "nothing"}
    BY <2>2 DEF Classify
  <2>4. QED
    BY <2>1, <2>2, <2>3, ReplyAlone
<1>4. ASSUME NEW len \in 1..MaxLen, Delivered(call[c], engine, commands, stream, len)
      PROVE  AloneInv'
  <2>1. /\ stream = <<Reply(call[c], TRUE)>> /\ commands = <<>> /\ Fresh(engine)
        /\ call[c].payload = Payload(call[c].tag, len)
    BY <1>4 DEF Delivered
  <2>2. Classify(c, call[c].payload) = "own"
    BY <1>1, <2>1, OwnPayload
  <2>3. Classify(c, IF TRUE THEN call[c].payload ELSE <<>>) \in {"own", "nothing"}
    BY <2>2
  <2>4. QED
    BY <2>1, <2>3, ReplyAlone
<1>5. ASSUME NEW len \in 1..MaxLen, NEW k \in Nat,
             Delivering(call[c], engine, commands, stream, len, k)
      PROVE  AloneInv'
  BY <1>5, DeliveryAlone
<1>6. QED
  BY <1>1, <1>2, <1>3, <1>4, <1>5 DEF Progress, Unsent, Unserved

LEMMA CameraAlone ==
    ASSUME Alone, AloneInv, SessionOK, CableOK, Camera
    PROVE  AloneInv'
<1>1. commands # <<>> /\ commands' = Tail(commands) /\ UNCHANGED <<fields, engine>> /\ outcome' = "none"
  BY DEF Camera
<1>2. PICK c \in Callers : OnWire(call[c])
  BY <1>1 DEF AloneInv
<1>3. Unserved(call[c], engine, commands, stream)
  BY <1>1, <1>2 DEF AloneInv, Progress, Unsent, Acked, Delivering, Delivered
<1>4. /\ call[c] \in CallRecords /\ call[c].tag \in Tags /\ call[c].op \in {"bulk", "open"}
      /\ call \in [Callers -> Calls]
  <2>1. call[c] \in Calls
    BY DEF SessionOK
  <2>2. call[c].op \in {"bulk", "open"}
    BY <1>2 DEF AloneInv, Seated
  <2>3. QED
    BY <1>2, <2>1, <2>2 DEF SessionOK, Calls
<1> DEFINE t == call[c].tag
           r1 == [call[c] EXCEPT !.answered = @ \/ call[c].tag = t]
<1>5. /\ stream = <<>> /\ commands = <<[txn |-> t, op |-> call[c].op]>>
      /\ call[c].at = "in" /\ Answerless(call[c], engine)
  BY <1>3 DEF Unserved
<1>6. commands' = <<>> /\ Head(commands).txn = t /\ Head(commands).op = call[c].op
  BY <1>1, <1>5
<1>7. \/ call[c].op = "bulk" /\ Serve(t)
      \/ /\ UNCHANGED call
         /\ \E ok \in BOOLEAN : /\ stream' = Append(stream, <<Response(t, ok)>>)
                                /\ call[c].op = "bulk" => ~ok
  BY <1>4, <1>6 DEF Camera
<1>8. CASE call[c].op = "bulk" /\ Serve(t)
  <2>1. PICK len \in 1..MaxLen : stream' = stream \o <<DataContainer(t, len), <<Response(t, TRUE)>>>>
    BY <1>8 DEF Serve, Alone
  <2> DEFINE rest == DataContainer(t, len)
             reply == <<Response(t, TRUE)>>
  <2>2. rest \in Seq(Units) /\ Len(rest) = 1 + len /\ PartOf(rest, t, len, 0)
    BY <1>4, ContainerIsPart, ContainerType
  <2>3. reply \in Seq(Units)
    <3>1. Response(t, TRUE) \in Units
      BY <1>4, ResponseType
    <3>2. QED
      BY <3>1, SingleType
  <2>4. stream' = stream \o <<rest, reply>>
    BY <2>1
  <2> HIDE DEF rest, reply
  <2>5. stream' = <<rest, reply>>
    <3>1. <<rest, reply>> \in Seq(Seq(Units))
      BY <2>2, <2>3
    <3>2. <<>> \o <<rest, reply>> = <<rest, reply>>
      BY <3>1, ConcatEmptySeq
    <3>3. QED
      BY <1>5, <2>4, <3>2
  <2>6. \A d \in Callers : /\ call'[d].at = call[d].at /\ call'[d].on = call[d].on
                           /\ call'[d].op = call[d].op /\ call'[d].tag = call[d].tag
                           /\ call'[d].payload = call[d].payload /\ call'[d].count = call[d].count
    <3>1. ASSUME NEW d \in Callers
          PROVE  /\ call'[d].at = call[d].at /\ call'[d].on = call[d].on
                 /\ call'[d].op = call[d].op /\ call'[d].tag = call[d].tag
                 /\ call'[d].payload = call[d].payload /\ call'[d].count = call[d].count
      <4>1. call[d] \in CallRecords
        BY <1>4 DEF Calls
      <4>2. PICK x : call'[d] = [call[d] EXCEPT !.answered = x]
        BY <1>8 DEF Serve
      <4>3. QED
        BY <4>1, <4>2 DEF CallRecords
    <3>2. QED
      BY <3>1
  <2>7. Delivering(call'[c], engine', commands', stream', len, 0)
    <3>1. reply = Reply(call'[c], TRUE)
      BY <2>6 DEF Reply, reply
    <3>2. 0 + Len(rest) = len + 1 /\ Len(rest) < BulkBuf * (BulkReads - 1 - call'[c].count)
      <4>1. len \in Nat /\ len <= MaxLen /\ BulkReads \in Nat /\ MaxLen \in Nat /\ BulkBuf \in Nat
        BY SessionAssumption
      <4>2. call'[c].count = 0
        BY <1>5, <2>6 DEF Answerless
      <4>3. BulkReads - 1 - call'[c].count = BulkReads - 1
        BY <4>1, <4>2
      <4>4. MaxLen + 1 < BulkBuf * (BulkReads - 1)
        BY DEF Alone
      <4>5. BulkBuf * (BulkReads - 1) \in Int
        BY <4>1
      <4>6. QED
        BY <2>2, <4>1, <4>3, <4>4, <4>5
    <3>3. Stage(call'[c], engine', len, 0)
      BY <1>1, <1>5, <2>6 DEF Stage, Answerless
    <3>4. PartOf(rest, call'[c].tag, len, 0)
      BY <2>2, <2>6
    <3>5. call'[c].at = "in" /\ call'[c].op = "bulk"
      BY <1>5, <1>8, <2>6
    <3>6. QED
      BY <1>6, <2>2, <2>5, <3>1, <3>2, <3>3, <3>4, <3>5 DEF Delivering
  <2>8. \A d \in Callers : OnWire(call'[d]) => d = c
    BY <1>2, <2>6, OnlyOne DEF OnWire
  <2>9. \A d \in Callers : Seated(d, call'[d], sessionOpen', pipe')
    BY <1>1, <2>6 DEF AloneInv, Seated, OnWire, fields
  <2>10. OnWire(call'[c])
    BY <1>2, <2>6 DEF OnWire
  <2>11. 0 \in Nat
    OBVIOUS
  <2>12. \A d \in Callers : OnWire(call'[d]) => Progress(call'[d], engine', commands', stream')
    BY <2>7, <2>8, <2>11 DEF Progress
  <2>13. QED
    BY <1>1, <2>9, <2>10, <2>12 DEF AloneInv, fields
<1>9. CASE /\ UNCHANGED call
           /\ \E ok \in BOOLEAN : /\ stream' = Append(stream, <<Response(t, ok)>>)
                                  /\ call[c].op = "bulk" => ~ok
  <2>1. PICK ok \in BOOLEAN : /\ stream' = Append(stream, <<Response(t, ok)>>)
                              /\ call[c].op = "bulk" => ~ok
    BY <1>9
  <2> DEFINE reply == Reply(call[c], ok)
  <2>2. stream' = Append(stream, reply)
    BY <2>1 DEF Reply
  <2> HIDE DEF reply
  <2>3. stream' = <<reply>>
    BY <1>5, <2>2
  <2>4. Acked(call[c], engine', commands', stream')
    BY <1>1, <1>5, <1>6, <2>1, <2>3 DEF Acked, Answerless, reply
  <2>5. \A d \in Callers : OnWire(call[d]) => d = c
    BY <1>2, OnlyOne
  <2>6. \A d \in Callers : OnWire(call'[d]) => Progress(call'[d], engine', commands', stream')
    BY <1>9, <2>4, <2>5 DEF Progress
  <2>7. QED
    BY <1>1, <1>2, <1>9, <2>6 DEF AloneInv, fields
<1>10. QED
  BY <1>7, <1>8, <1>9

(* The flag is free, so no bulk call is on the wire; with the session open *)
(* nobody is.                                                              *)
LEMMA FreeWire ==
    ASSUME AloneInv, SessionOK, sessionOpen, ~usbBusy
    PROVE  \A d \in Callers : ~OnWire(call[d])
BY DEF AloneInv, Seated, SessionOK, BulkExclusion, OnTheWire, Bulky

LEMMA SleepAlone ==
    ASSUME AloneInv, SessionOK, NEW c \in Callers, Sleep(c), ~OnWire(call[c]), sessionOpen
    PROVE  AloneInv'
<1> DEFINE r == [Idle EXCEPT !.at = "sleeping", !.count = call[c].count + 1]
<1>1. r.at = "sleeping" /\ ~OnWire(r)
  BY DEF OnWire, Idle
<1>2. /\ call' = [call EXCEPT ![c] = r] /\ outcome' = "none"
      /\ UNCHANGED <<sessionOpen, pipe, engine, commands, stream>>
  BY DEF Sleep, fields, wire
<1> HIDE DEF r
<1>3. Seated(c, r, sessionOpen, pipe)
  BY <1>1 DEF Seated
<1>4. QED
  BY <1>1, <1>2, <1>3, AloneAside

Opens(c, r) ==
    /\ ~sessionOpen /\ ~sessionOpen' /\ c \in Openers /\ ~OnWire(call[c])
    /\ r.at \in {"idle", "asking", "draining"} /\ (r.at = "draining" => pipe' # 0)
    /\ call' = [call EXCEPT ![c] = r]
    /\ commands' \in {commands, <<>>} /\ stream' \in {stream, <<>>} /\ outcome' = "none"

(* The steps of the opener before it sends, with the pipe closed or new:   *)
(* nobody else is anywhere.                                                *)
LEMMA OpenerStep ==
    ASSUME Alone, AloneInv, SessionOK, NEW c \in Callers, NEW r, Opens(c, r)
    PROVE  AloneInv'
<1> USE DEF Opens
<1>1. \A d \in Callers \ {c} : call[d].at = "idle"
  BY OthersIdle
<1>2. \A d \in Callers : ~OnWire(call[d])
  BY <1>1 DEF OnWire
<1>3. commands' = <<>> /\ stream' = <<>>
  BY <1>2 DEF AloneInv
<1>4. \A d \in Callers \ {c} : Seated(d, call[d], sessionOpen', pipe')
  BY <1>1, IdleSeated
<1>5. Seated(c, r, sessionOpen', pipe') /\ ~OnWire(r)
  BY DEF Seated, OnWire
<1>6. QED
  BY <1>2, <1>3, <1>4, <1>5, AloneBy

LEMMA StartAlone ==
    ASSUME Alone, AloneInv, SessionOK, CableOK, NEW c \in Callers, Start(c)
    PROVE  AloneInv'
<1>1. call[c] = Idle /\ call[c].at = "idle" /\ ~OnWire(call[c])
  BY DEF Start, StartBulk, StartMeta, StartConnect, StartClose, Idle, OnWire
<1>2. sessionOpen => pipe # 0
  BY DEF AloneInv
<1>3. CASE StartBulk(c)
  <2>1. CASE Take(c)
    BY <1>2, <1>3, <2>1, FreeWire, SendAlone DEF StartBulk, Take
  <2>2. CASE Sleep(c)
    BY <1>1, <1>3, <2>2, SleepAlone DEF StartBulk
  <2>3. QED
    BY <1>3, <2>1, <2>2 DEF StartBulk
<1>4. CASE c \in Openers /\ StartConnect(c)
  <2>1. ~sessionOpen /\ Disconnect /\ WaitAt(c, "asking") /\ outcome' = "none" /\ UNCHANGED <<engine, wire>>
    BY <1>2, <1>4 DEF StartConnect, Alone
  <2> DEFINE r == [Idle EXCEPT !.at = "asking"]
  <2>2. r.at = "asking" /\ call' = [call EXCEPT ![c] = r]
    BY <2>1 DEF WaitAt, Idle
  <2> HIDE DEF r
  <2>3. QED
    <3>1. Opens(c, r)
      BY <1>1, <1>4, <2>1, <2>2 DEF Opens, Disconnect, wire
    <3>2. QED
      BY <3>1, OpenerStep
<1>5. QED
  BY <1>3, <1>4 DEF Start, Alone

LEMMA ContinueAlone ==
    ASSUME Alone, AloneInv, SessionOK, CableOK, NEW c \in Callers, Continue(c)
    PROVE  AloneInv'
<1>1. Seated(c, call[c], sessionOpen, pipe) /\ (OnWire(call[c]) => Progress(call[c], engine, commands, stream))
  BY DEF AloneInv
<1>2. sessionOpen => pipe # 0
  BY DEF AloneInv
<1>3. Idle.at = "idle" /\ ~OnWire(Idle)
  BY DEF Idle, OnWire
<1>4. CASE WakeUp(c)
  <2>1. sessionOpen /\ ~OnWire(call[c])
    BY <1>1, <1>4 DEF WakeUp, Seated, OnWire
  <2>2. CASE Take(c)
    <3>1. Send(c, "bulk") /\ \A d \in Callers : ~OnWire(call[d])
      BY <2>1, <2>2, FreeWire DEF Take
    <3>2. "bulk" = (IF sessionOpen THEN "bulk" ELSE "open") /\ pipe # 0
      BY <1>2, <2>1
    <3>3. QED
      BY <2>1, <3>1, <3>2, SendAlone
  <2>3. CASE Sleep(c)
    BY <2>1, <2>3, SleepAlone
  <2>4. QED
    BY <1>4, <2>2, <2>3 DEF WakeUp
<1>5. CASE GiveUp(c)
  <2>1. ~OnWire(call[c]) /\ Seated(c, Idle, sessionOpen, pipe)
    BY <1>3, <1>5, IdleSeated DEF GiveUp, OnWire
  <2>2. QED
    BY <1>3, <1>5, <2>1, AloneAside DEF GiveUp, Leave, fields, wire
<1>6. CASE Refused(c)
  <2>1. ~sessionOpen /\ c \in Openers /\ ~OnWire(call[c])
    BY <1>1, <1>6 DEF Refused, Seated, OnWire
  <2>2. QED
    <3>1. Opens(c, Idle)
      BY <1>3, <1>6, <2>1 DEF Opens, Refused, Disconnect, Leave, wire
    <3>2. QED
      BY <3>1, OpenerStep
<1>7. CASE Attach(c)
  <2>1. ~sessionOpen /\ c \in Openers /\ ~OnWire(call[c])
    BY <1>1, <1>7 DEF Attach, Seated, OnWire
  <2> DEFINE r == [Idle EXCEPT !.at = "draining"]
  <2>2. /\ r.at = "draining" /\ call' = [call EXCEPT ![c] = r] /\ sessionOpen' = FALSE
        /\ commands' = <<>> /\ stream' = <<>> /\ outcome' = "none"
    BY <1>7, <2>1 DEF Attach, WaitAt, Idle
  <2>3. pipe' # 0
    BY <1>7 DEF Attach, AnyOf, Pipes
  <2> HIDE DEF r
  <2>4. Opens(c, r)
    BY <2>1, <2>2, <2>3 DEF Opens
  <2>5. QED
    BY <2>4, OpenerStep
<1>8. CASE OpenSession(c)
  <2>1. ~sessionOpen /\ c \in Openers /\ ~OnWire(call[c]) /\ pipe # 0
    BY <1>1, <1>8 DEF OpenSession, Seated, OnWire
  <2>2. \A d \in Callers : ~OnWire(call[d])
    BY <2>1, OthersIdle DEF OnWire
  <2>3. Send(c, "open") /\ "open" = (IF sessionOpen THEN "bulk" ELSE "open")
    BY <1>8, <2>1 DEF OpenSession
  <2>4. QED
    BY <2>1, <2>2, <2>3, SendAlone
<1>9. CASE Sent(c)
  <2>1. call[c] \in CallRecords /\ call \in [Callers -> Calls] /\ OnWire(call[c])
    BY <1>9 DEF SessionOK, Calls, Sent, OnWire
  <2>2. Unsent(call[c], engine, commands, stream)
    BY <1>1, <1>9, <2>1 DEF Sent, Progress, Unserved, Acked, Delivering, Delivered
  <2> DEFINE q == [call[c] EXCEPT !.at = "in"]
             cmd == [txn |-> call[c].tag, op |-> call[c].op]
  <2>3. call' = [call EXCEPT ![c] = q] /\ commands' = Append(commands, cmd)
    BY <1>9, <2>1 DEF Sent
  <2>4. /\ q.at = "in" /\ q.tag = call[c].tag /\ q.op = call[c].op /\ q.on = call[c].on
        /\ q.payload = call[c].payload /\ q.count = call[c].count /\ q.answered = call[c].answered
    BY <2>1 DEF CallRecords
  <2> HIDE DEF q
  <2>5. commands' = <<[txn |-> q.tag, op |-> q.op]>>
    <3> HIDE DEF cmd
    <3>1. commands' = <<cmd>>
      BY <2>2, <2>3 DEF Unsent
    <3>2. QED
      BY <2>4, <3>1 DEF cmd
  <2>6. engine' = engine /\ stream' = <<>> /\ UNCHANGED fields /\ outcome' = "none"
    BY <1>9, <2>2 DEF Sent, Unsent
  <2>7. Unserved(q, engine', commands', stream') /\ OnWire(q)
    BY <2>2, <2>4, <2>5, <2>6 DEF Unserved, Unsent, Answerless, OnWire
  <2>8. Seated(c, q, sessionOpen', pipe')
    BY <1>1, <2>1, <2>4, <2>6 DEF Seated, OnWire, fields
  <2>9. \A d \in Callers \ {c} : ~OnWire(call[d]) /\ Seated(d, call[d], sessionOpen', pipe')
    BY <2>1, <2>6, OnlyOne DEF AloneInv, fields
  <2>10. QED
    BY <1>2, <2>3, <2>6, <2>7, <2>8, <2>9, AloneBy DEF Progress, fields
<1>10. ~SendFails(c)
  <2> SUFFICES ASSUME SendFails(c) PROVE FALSE
    OBVIOUS
  <2>1. OnWire(call[c]) /\ call[c].at = "out"
    BY DEF SendFails, OnWire
  <2>2. commands = <<>>
    BY <1>1, <2>1 DEF Progress, Unsent, Unserved, Acked, Delivering, Delivered
  <2>3. Len(commands) = 0 /\ Backlog # 0
    BY <2>2, SessionAssumption
  <2>4. QED
    BY <1>1, <2>1, <2>3 DEF SendFails, Seated, Alone
<1>11. CASE Receive(c)
  BY <1>11, ReceiveAlone
<1>12. ~ReceiveFails(c)
  <2> SUFFICES ASSUME ReceiveFails(c) PROVE FALSE
    OBVIOUS
  <2>1. OnWire(call[c]) /\ call[c].at = "in"
    BY DEF ReceiveFails, OnWire
  <2>2. stream = <<>> /\ commands = <<>>
    BY <1>1, <2>1 DEF ReceiveFails, Seated, Alone
  <2>3. QED
    BY <1>1, <2>1, <2>2 DEF Progress, Unsent, Unserved, Acked, Delivering, Delivered
<1>13. QED
  BY <1>4, <1>5, <1>6, <1>7, <1>8, <1>9, <1>10, <1>11, <1>12 DEF Continue

LEMMA AloneNext == Alone /\ Inductive /\ AloneInv /\ [Next]_vars => AloneInv'
<1> SUFFICES ASSUME Alone, Inductive, AloneInv, [Next]_vars PROVE AloneInv'
  OBVIOUS
<1>1. SessionOK /\ CableOK
  BY DEF Inductive
<1>2. ASSUME NEW c \in Callers, Start(c) PROVE AloneInv'
  BY <1>1, <1>2, StartAlone
<1>3. ASSUME NEW c \in Callers, Continue(c) PROVE AloneInv'
  BY <1>1, <1>3, ContinueAlone
<1>4. CASE Camera
  BY <1>1, <1>4, CameraAlone
<1>5. CASE UNCHANGED vars
  BY <1>5 DEF vars, fields, wire, AloneInv
<1>6. QED
  BY <1>2, <1>3, <1>4, <1>5 DEF Next

(* A bulk call whose command the camera served comes back with data: no    *)
(* read limit, reset engine or dropped response loses it, as long as the   *)
(* bulk calls are Alone.                                                   *)
THEOREM ServedComesBack ==
    ASSUME Alone PROVE Spec => []ServedIsDelivered
<1>1. AloneInv => ServedIsDelivered
  BY DEF AloneInv, ServedIsDelivered
<1>2. QED
  BY <1>1, AloneInit, AloneNext, AlwaysInductive, PTL DEF Spec
-----------------------------------------------------------------------------
(* The safety half of the contract.  A call for data is pending from the   *)
(* step that starts it to the step that ends it, and only that last step   *)
(* answers; what it answers is in AloneInv.                                *)
IsData(r) == r.at = "sleeping" \/ r.op \in {"bulk", "meta"}

(* Only a call with a transfer outstanding is in a command.                *)
Placed == \A c \in Callers : ~OnWire(call[c]) => call[c].op = "none"

Answers == {"none", "own", "nothing"}

(* A step that moves one call is a step of the contract.                   *)
LEMMA ContractMove ==
    ASSUME SessionOK, Placed, NEW c \in Callers, NEW r, call' = [call EXCEPT ![c] = r],
           OnWire(r) \/ r.op = "none", outcome' \in Answers,
           outcome' # "none" => ~IsData(r),
           IsData(call[c]) /\ ~IsData(r) => outcome' # "none",
           ~IsData(call[c]) => outcome' \in {"none", "nothing"}
    PROVE  Placed' /\ Transport!Next
<1>1. \A d \in Callers : call'[d] = IF d = c THEN r ELSE call[d]
  BY DEF SessionOK
<1>2. Placed'
  BY <1>1 DEF Placed
<1>3. DataCalls = {d \in Callers : IsData(call[d])} /\ DataCalls' = {d \in Callers : IsData(call'[d])}
  BY DEF DataCalls, IsData
<1>4. \A d \in Callers : d # c => (d \in DataCalls' <=> d \in DataCalls)
  BY <1>1, <1>3
<1>5. (c \in DataCalls <=> IsData(call[c])) /\ (c \in DataCalls' <=> IsData(r))
  BY <1>1, <1>3
<1>6. DataCalls \subseteq Callers /\ DataCalls' \subseteq Callers
  BY <1>3
<1>7. CASE IsData(call[c]) /\ IsData(r)
  <2>1. DataCalls' = DataCalls /\ outcome' = "none"
    BY <1>4, <1>5, <1>6, <1>7
  <2>2. QED
    BY <1>2, <2>1 DEF Transport!Next, Transport!Between
<1>8. CASE IsData(call[c]) /\ ~IsData(r)
  <2>1. c \in DataCalls /\ DataCalls' = DataCalls \ {c} /\ outcome' \in {"own", "nothing"}
    BY <1>4, <1>5, <1>6, <1>8 DEF Answers
  <2>2. QED
    BY <1>2, <2>1 DEF Transport!Next, Transport!Answer
<1>9. CASE ~IsData(call[c]) /\ IsData(r)
  <2>1. c \notin DataCalls /\ DataCalls' = DataCalls \cup {c} /\ outcome' = "none"
    BY <1>4, <1>5, <1>6, <1>9
  <2>2. QED
    BY <1>2, <2>1 DEF Transport!Next, Transport!Ask
<1>10. CASE ~IsData(call[c]) /\ ~IsData(r)
  <2>1. c \notin DataCalls /\ DataCalls' = DataCalls /\ outcome' \in {"none", "nothing"}
    BY <1>4, <1>5, <1>6, <1>10
  <2>2. QED
    BY <1>2, <2>1 DEF Transport!Next, Transport!Decline, Transport!Between
<1>11. QED
  BY <1>7, <1>8, <1>9, <1>10

(* A command goes out, or fails at once on a null pipe.                    *)
LEMMA SendContract ==
    ASSUME SessionOK, Placed, NEW c \in Callers, NEW o \in Ops, Send(c, o),
           ~OnWire(call[c]), call[c].at = "sleeping" => o = "bulk", outcome' \in Answers
    PROVE  Placed' /\ Transport!Next
<1>1. IsData(call[c]) => o = "bulk"
  BY DEF Placed, IsData
<1>2. CASE pipe # 0
  <2> DEFINE r == [Idle EXCEPT !.at = "out", !.op = o, !.tag = AnyOf(Tags \ InUse), !.on = pipe]
  <2>1. call' = [call EXCEPT ![c] = r] /\ outcome' = "none"
    BY <1>2 DEF Send
  <2>2. r.at = "out" /\ r.op = o
    BY DEF Idle
  <2> HIDE DEF r
  <2>3. OnWire(r) /\ (IsData(call[c]) => IsData(r))
    BY <1>1, <2>2 DEF OnWire, IsData
  <2>4. QED
    BY <2>1, <2>3, ContractMove
<1>3. CASE pipe = 0
  <2>1. call' = [call EXCEPT ![c] = Idle]
        /\ outcome' = IF o \in {"bulk", "meta"} THEN "nothing" ELSE "none"
    BY <1>3 DEF Send, Leave
  <2>2. Idle.op = "none" /\ ~IsData(Idle)
    BY DEF Idle, IsData
  <2>3. (IsData(call[c]) => outcome' # "none") /\ outcome' \in {"none", "nothing"}
    BY <1>1, <2>1
  <2>4. QED
    BY <2>1, <2>2, <2>3, ContractMove
<1>4. QED
  BY <1>2, <1>3

(* A call ends: with an answer where it was for data, with none elsewhere. *)
LEMMA EndContract ==
    ASSUME SessionOK, Placed, NEW c \in Callers, OnWire(call[c]), NEW ok, NEW data,
           End(c, ok, data), outcome' \in Answers
    PROVE  Placed' /\ Transport!Next
<1>1. Idle.op = "none" /\ ~IsData(Idle)
  BY DEF Idle, IsData
<1>2. CASE ExpectsData(c)
  <2>1. call' = [call EXCEPT ![c] = Idle] /\ outcome' = Classify(c, data)
    BY <1>2 DEF End, Return, Leave
  <2>2. Classify(c, data) # "none" /\ IsData(call[c])
    BY <1>2 DEF Classify, ExpectsData, IsData
  <2>3. QED
    BY <1>1, <2>1, <2>2, ContractMove
<1>3. CASE ~ExpectsData(c)
  <2>1. ~IsData(call[c])
    BY <1>3 DEF ExpectsData, IsData, OnWire
  <2> DEFINE asking == [Idle EXCEPT !.at = "asking"]
  <2>2. asking.op = "none" /\ ~IsData(asking)
    BY DEF Idle, IsData
  <2>3. (call' = [call EXCEPT ![c] = Idle] \/ call' = [call EXCEPT ![c] = asking]) /\ outcome' = "none"
    BY <1>3 DEF End, Acknowledged, Leave, WaitAt
  <2> HIDE DEF asking
  <2>4. QED
    BY <1>1, <2>1, <2>2, <2>3, ContractMove
<1>4. QED
  BY <1>2, <1>3

(* The places before a command, and the ends of calls that sent none.      *)
LEMMA PlaceContract ==
    ASSUME SessionOK, Placed, NEW c \in Callers, ~OnWire(call[c]),
           NEW r, r.op = "none", call' = [call EXCEPT ![c] = r],
           \/ r.at = "sleeping" /\ outcome' = "none"
           \/ call[c].at # "sleeping" /\ r.at # "sleeping" /\ outcome' = "none"
           \/ call[c].at = "sleeping" /\ r.at # "sleeping" /\ outcome' = "nothing"
    PROVE  Placed' /\ Transport!Next
<1>1. (IsData(call[c]) <=> call[c].at = "sleeping") /\ (IsData(r) <=> r.at = "sleeping")
  BY DEF Placed, IsData
<1>2. outcome' \in Answers
  BY DEF Answers
<1>3. QED
  BY <1>1, <1>2, ContractMove

LEMMA SleepContract ==
    ASSUME SessionOK, Placed, NEW c \in Callers, ~OnWire(call[c]), Sleep(c)
    PROVE  Placed' /\ Transport!Next
<1> DEFINE r == [Idle EXCEPT !.at = "sleeping", !.count = call[c].count + 1]
<1>1. r.op = "none" /\ r.at = "sleeping"
  BY DEF Idle
<1>2. call' = [call EXCEPT ![c] = r] /\ outcome' = "none"
  BY DEF Sleep
<1> HIDE DEF r
<1>3. QED
  BY <1>1, <1>2, PlaceContract

LEMMA StartContract ==
    ASSUME SessionOK, Placed, NEW c \in Callers, Start(c), outcome' \in Answers
    PROVE  Placed' /\ Transport!Next
<1>1. Idle.at = "idle" /\ Idle.op = "none" /\ call[c] = Idle
  BY DEF Start, StartBulk, StartMeta, StartConnect, StartClose, Idle
<1>2. ~OnWire(call[c]) /\ call[c].at # "sleeping"
  BY <1>1 DEF OnWire
<1>3. CASE \E o \in Ops : Send(c, o)
  BY <1>2, <1>3, SendContract
<1>4. CASE Sleep(c)
  BY <1>2, <1>4, SleepContract
<1>5. CASE WaitAt(c, "asking") /\ outcome' = "none"
  <2> DEFINE r == [Idle EXCEPT !.at = "asking"]
  <2>1. r.op = "none" /\ r.at = "asking" /\ call' = [call EXCEPT ![c] = r]
    BY <1>5 DEF Idle, WaitAt
  <2> HIDE DEF r
  <2>2. QED
    BY <1>2, <1>5, <2>1, PlaceContract
<1>6. CASE outcome' = "none" /\ call' = call
  <2>1. Placed' /\ DataCalls' = DataCalls
    BY <1>6 DEF Placed, DataCalls
  <2>2. QED
    BY <1>6, <2>1 DEF Transport!Next, Transport!Between
<1>7. (\E o \in Ops : Send(c, o)) \/ Sleep(c) \/ (WaitAt(c, "asking") /\ outcome' = "none")
      \/ (outcome' = "none" /\ call' = call)
  BY DEF Start, StartBulk, Take, StartMeta, StartConnect, StartClose, Ops
<1>8. QED
  BY <1>3, <1>4, <1>5, <1>6, <1>7

LEMMA ContinueContract ==
    ASSUME SessionOK, Placed, NEW c \in Callers, Continue(c), outcome' \in Answers
    PROVE  Placed' /\ Transport!Next
<1>1. Idle.at = "idle" /\ Idle.op = "none"
  BY DEF Idle
<1>2. CASE WakeUp(c)
  <2>1. ~OnWire(call[c]) /\ "bulk" \in Ops
    BY <1>2 DEF WakeUp, OnWire, Ops
  <2>2. CASE Send(c, "bulk")
    BY <2>1, <2>2, SendContract
  <2>3. CASE Sleep(c)
    BY <2>1, <2>3, SleepContract
  <2>4. QED
    BY <1>2, <2>2, <2>3 DEF WakeUp, Take
<1>3. CASE GiveUp(c)
  <2>1. ~OnWire(call[c]) /\ call[c].at = "sleeping" /\ outcome' = "nothing"
        /\ call' = [call EXCEPT ![c] = Idle]
    BY <1>3 DEF GiveUp, Leave, OnWire
  <2>2. QED
    BY <1>1, <2>1, PlaceContract
<1>4. CASE Refused(c)
  <2>1. ~OnWire(call[c]) /\ call[c].at # "sleeping" /\ outcome' = "none"
        /\ call' = [call EXCEPT ![c] = Idle]
    BY <1>4 DEF Refused, Leave, OnWire
  <2>2. QED
    BY <1>1, <2>1, PlaceContract
<1>5. CASE Attach(c)
  <2> DEFINE r == [Idle EXCEPT !.at = "draining"]
  <2>1. r.op = "none" /\ r.at = "draining" /\ call' = [call EXCEPT ![c] = r]
    BY <1>5 DEF Idle, Attach, WaitAt
  <2>2. ~OnWire(call[c]) /\ call[c].at # "sleeping" /\ outcome' = "none"
    BY <1>5 DEF Attach, OnWire
  <2> HIDE DEF r
  <2>3. QED
    BY <2>1, <2>2, PlaceContract
<1>6. CASE OpenSession(c)
  <2>1. ~OnWire(call[c]) /\ call[c].at # "sleeping" /\ Send(c, "open") /\ "open" \in Ops
    BY <1>6 DEF OpenSession, OnWire, Ops
  <2>2. QED
    BY <2>1, SendContract
<1>7. ASSUME NEW r, OnWire(call[c]), OnWire(r), r.op = call[c].op,
             call' = [call EXCEPT ![c] = r], outcome' = "none"
      PROVE  Placed' /\ Transport!Next
  <2>1. IsData(call[c]) <=> IsData(r)
    BY <1>7 DEF IsData, OnWire
  <2>2. QED
    BY <1>7, <2>1, ContractMove
<1>8. CASE Sent(c)
  <2>1. call[c] \in CallRecords /\ OnWire(call[c]) /\ outcome' = "none"
    BY <1>8 DEF SessionOK, Calls, Sent, OnWire
  <2> DEFINE r == [call[c] EXCEPT !.at = "in"]
  <2>2. r.op = call[c].op /\ OnWire(r)
    BY <2>1 DEF CallRecords, OnWire
  <2>3. call' = [call EXCEPT ![c] = r]
    BY <1>8, <2>1 DEF Sent, SessionOK
  <2> HIDE DEF r
  <2>4. QED
    BY <1>7, <2>1, <2>2, <2>3
<1>9. CASE SendFails(c) \/ ReceiveFails(c)
  <2>1. OnWire(call[c]) /\ End(c, FALSE, <<>>)
    BY <1>9 DEF SendFails, ReceiveFails, Fail, OnWire
  <2>2. QED
    BY <2>1, EndContract
<1>10. CASE Receive(c)
  <2>1. call[c] \in CallRecords /\ OnWire(call[c])
    BY <1>10 DEF SessionOK, Calls, Receive, OnWire
  <2>2. CASE \E ok, data : End(c, ok, data)
    BY <2>1, <2>2, EndContract
  <2>3. CASE outcome' = "none" /\ \E data :
               call' = [call EXCEPT ![c].payload = data, ![c].count = @ + 1]
    <3>1. PICK data : call' = [call EXCEPT ![c].payload = data, ![c].count = @ + 1]
      BY <2>3
    <3> DEFINE r == [call[c] EXCEPT !.payload = data, !.count = @ + 1]
    <3>2. r.op = call[c].op /\ OnWire(r)
      BY <2>1 DEF CallRecords, OnWire
    <3>3. call' = [call EXCEPT ![c] = r]
      BY <2>1, <3>1 DEF SessionOK
    <3> HIDE DEF r
    <3>4. QED
      BY <1>7, <2>1, <2>3, <3>2, <3>3
  <2>4. QED
    BY <1>10, <2>2, <2>3 DEF Receive, Fail
<1>11. QED
  BY <1>2, <1>3, <1>4, <1>5, <1>6, <1>8, <1>9, <1>10 DEF Continue

(* What the camera does is between the calls' answers.                     *)
LEMMA CameraContract ==
    ASSUME SessionOK, Placed, Camera
    PROVE  Placed' /\ Transport!Next
<1>1. ASSUME NEW c \in Callers
      PROVE  call'[c].at = call[c].at /\ call'[c].op = call[c].op
  <2>1. call[c] \in CallRecords
    BY DEF SessionOK, Calls
  <2>2. CASE call' = call
    BY <2>2
  <2>3. CASE \E t : Serve(t)
    <3>1. PICK t : Serve(t)
      BY <2>3
    <3> DEFINE said == call[c].answered \/ call[c].tag = t
    <3>2. call'[c] = [call[c] EXCEPT !.answered = said]
      BY <3>1 DEF Serve
    <3> HIDE DEF said
    <3>3. QED
      BY <2>1, <3>2 DEF CallRecords
  <2>4. call' = call \/ \E t : Serve(t)
    BY DEF Camera
  <2>5. QED
    BY <2>2, <2>3, <2>4
<1>2. Placed' /\ DataCalls' = DataCalls
  BY <1>1 DEF Placed, OnWire, DataCalls
<1>3. outcome' = "none"
  BY DEF Camera
<1>4. QED
  BY <1>2, <1>3 DEF Transport!Next, Transport!Between

LEMMA ContractInit == Init => Placed /\ Transport!Init
BY DEF Init, Idle, OnWire, Placed, DataCalls, Transport!Init

Answered == outcome \in Answers

LEMMA ContractNext ==
    Inductive /\ Placed /\ Answered' /\ [Next]_vars
       => Placed' /\ [Transport!Next]_(Transport!vars)
<1> SUFFICES ASSUME Inductive, Placed, Answered', [Next]_vars
             PROVE  Placed' /\ [Transport!Next]_(Transport!vars)
  OBVIOUS
<1>1. SessionOK /\ outcome' \in Answers
  BY DEF Inductive, Answered
<1>2. ASSUME NEW c \in Callers, Start(c) PROVE Placed' /\ Transport!Next
  BY <1>1, <1>2, StartContract
<1>3. ASSUME NEW c \in Callers, Continue(c) PROVE Placed' /\ Transport!Next
  BY <1>1, <1>3, ContinueContract
<1>4. CASE Camera
  BY <1>1, <1>4, CameraContract
<1>5. CASE UNCHANGED vars
  BY <1>5 DEF vars, Placed, DataCalls, Transport!vars
<1>6. QED
  BY <1>2, <1>3, <1>4, <1>5 DEF Next

(* Alone, every step of the session is a step of the contract of           *)
(* PtpTransport or none: a call for data is answered once, with its own    *)
(* object or with nothing, and nothing is answered that was not asked.     *)
THEOREM StepsKeepContract ==
    ASSUME Alone PROVE Spec => Transport!Init /\ [][Transport!Next]_(Transport!vars)
<1>1. AloneInv => Answered
  BY DEF AloneInv, Answered, Answers
<1>2. QED
  BY <1>1, AloneInit, AloneNext, ContractInit, ContractNext, AlwaysInductive, PTL DEF Spec
===============================================================================
