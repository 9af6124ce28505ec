------------------------------ MODULE PtpSession ------------------------------
(***************************************************************************)
(* The USB session of pages/PtpHost.ets: asynchronous calls that share one *)
(* pipe, one engine and one busy flag.  The script runtime has one thread; *)
(* calls interleave where they await a bulk transfer, a permission dialog  *)
(* or a timer, and every action below runs from one await to the next.     *)
(*                                                                         *)
(*   Bulk    callers of getThumb, getObject and getPartialObject           *)
(*   Meta    callers of the commands that skip the busy flag               *)
(*           (getDeviceInfo, getStorageIDs, getObjectHandles,              *)
(*           getObjectInfo)                                                *)
(*   Openers callers of connect                                            *)
(*   Closers callers of closeSessionAndPipe, by itself or at the beginning *)
(*           of connect                                                    *)
(*                                                                         *)
(* One scan runs at a time (CameraPage disables its button meanwhile), so  *)
(* there is one opener; the same caller may play several of these parts.   *)
(*                                                                         *)
(* A tag of Tags stands for one transaction while any trace of it is left, *)
(* and a member of Pipes for one connectDevice call while a transfer is    *)
(* outstanding on it; 0 is neither.  Both are reused, so the two sets      *)
(* bound what is in flight, not the length of a behaviour.                 *)
(***************************************************************************)
EXTENDS PtpEngine, FiniteSets

CONSTANTS
    Bulk, Meta, Openers, Closers,
    NumTags,     \* bound on the transactions in flight
    NumPipes,    \* bound on the pipes with a transfer outstanding
    Backlog,     \* commands, and transfers, the camera holds before it blocks
    MaxLen,      \* longest payload the camera sends, in units
    BulkBuf,     \* size of the read buffer of a bulk call, in units (192 KB)
    MetaBuf,     \* size of the read buffer of the other calls (1 KB)
    BulkReads,   \* reads a bulk call tries (350)
    MetaReads,   \* reads the other calls try (10)
    MaxSleeps,   \* sleeps of 200 ms a bulk call waits for the flag (150)
    Lossy,       \* transfers may fail or time out with the camera attached
    Merging      \* the camera may send data and response as one transfer

Tags  == 1..NumTags
Pipes == 1..NumPipes
Callers == Bulk \cup Meta \cup Openers \cup Closers

ASSUME SessionAssumption ==
    /\ MaxLen \in Nat \ {0}
    /\ BulkBuf \in Nat \ {0} /\ MetaBuf \in Nat \ {0}
    /\ BulkReads \in Nat \ {0} /\ MetaReads \in Nat \ {0}
    /\ MaxSleeps \in Nat \ {0}
    /\ NumTags \in Nat \ {0} /\ NumPipes \in Nat \ {0} /\ Backlog \in Nat \ {0}
    /\ \A c, d \in Openers : c = d
    /\ Lossy \in BOOLEAN /\ Merging \in BOOLEAN

VARIABLES
    sessionOpen,  \* this.sessionOpen
    usbBusy,      \* this.usbBusy
    pipe,         \* this.pipe, 0 for null
    engine,       \* the native engine
    commands,     \* OUT containers the camera has not answered
    stream,       \* IN transfers not yet read, each a sequence of units
    call,         \* the call each caller is in: where it waits and its locals
    outcome       \* ghost: what the call that has just ended got

fields == <<sessionOpen, usbBusy, pipe>>
wire   == <<commands, stream>>
vars   == <<fields, engine, wire, call, outcome>>

Ops == {"bulk", "meta", "open", "close", "reclose"}
Places == {"idle", "sleeping", "asking", "draining", "out", "in"}

(* at: where the call waits; op, tag, on: the command it is in, its        *)
(* transaction and the pipe its transfer was issued on; count: sleeps or   *)
(* reads so far; payload: the local dataPayload.  answered is a ghost: the *)
(* camera sent this call its payload and an OK.                            *)
Idle == [at |-> "idle", op |-> "none", tag |-> 0, on |-> 0, count |-> 0,
         payload |-> <<>>, answered |-> FALSE]

(* What a caller can get: the whole payload of its own transaction, of     *)
(* another one, units of several or of part of one, nothing, or nothing    *)
(* although the camera answered ("missed").  It is "none" after any step   *)
(* in which no call that returns data ends.                                *)
Outcomes == {"none", "own", "foreign", "torn", "nothing", "missed"}

Whole(t, data) == data # <<>> /\ data = Payload(t, Len(data))

Classify(c, data) ==
    CASE data = <<>> -> IF call[c].answered THEN "missed" ELSE "nothing"
      [] Whole(call[c].tag, data) -> "own"
      [] data # <<>> /\ \E t \in Tags \ {call[c].tag} : Whole(t, data) -> "foreign"
      [] OTHER -> "torn"

Transferring == {c \in Callers : call[c].at \in {"out", "in"}}

AnyOf(S) == CHOOSE x \in S : TRUE

(* The tags some trace of which is left.                                   *)
TagsIn(s) == {s[i].txn : i \in DOMAIN s}
InUse ==
    UNION {TagsIn(stream[i]) : i \in DOMAIN stream}
    \cup TagsIn(commands) \cup TagsIn(engine.acc)
    \cup UNION {TagsIn(call[c].payload) : c \in Callers}
    \cup {call[c].tag : c \in Transferring}

Init ==
    /\ sessionOpen = FALSE /\ usbBusy = FALSE /\ pipe = 0
    /\ engine = EngineIdle
    /\ commands = <<>> /\ stream = <<>>
    /\ call = [c \in Callers |-> Idle]
    /\ outcome = "none"
-----------------------------------------------------------------------------
ExpectsData(c) == call[c].op \in {"bulk", "meta"}
BufOf(c)   == IF call[c].op = "bulk" THEN BulkBuf ELSE MetaBuf
ReadsOf(c) == IF call[c].op = "bulk" THEN BulkReads ELSE MetaReads

WaitAt(c, place) == call' = [call EXCEPT ![c] = [Idle EXCEPT !.at = place]]
Leave(c)         == call' = [call EXCEPT ![c] = Idle]

(* closePipe and the nulling of the fields.                                *)
Disconnect == sessionOpen' = FALSE /\ pipe' = 0 /\ UNCHANGED usbBusy

(* Mutant: the flag is given back only where data is returned.             *)
ReturnOnSuccess(c, data) ==
    /\ Leave(c)
    /\ outcome' = Classify(c, data)
    /\ usbBusy' = IF call[c].op = "bulk" /\ data # <<>> THEN FALSE ELSE usbBusy
    /\ UNCHANGED <<sessionOpen, pipe>>

(* The last step of a call that returns data: the finally block gives the  *)
(* flag back.                                                              *)
Return(c, data) ==
    /\ Leave(c)
    /\ outcome' = Classify(c, data)
    /\ usbBusy' = IF call[c].op = "bulk" THEN FALSE ELSE usbBusy
    /\ UNCHANGED <<sessionOpen, pipe>>

(* The last step of a command without a data phase, with what the method   *)
(* that awaited it does next: connect opens the session or gives up, a     *)
(* CloseSession ends in the nulling of the fields whatever its result, and *)
(* the one connect sends first goes on to the permission dialog.           *)
Acknowledged(c, ok) ==
    /\ outcome' = "none"
    /\ \/ call[c].op = "open" /\ ok /\ Leave(c)
          /\ sessionOpen' = TRUE /\ UNCHANGED <<usbBusy, pipe>>
       \/ call[c].op = "open" /\ ~ok /\ Leave(c) /\ Disconnect
       \/ call[c].op = "close" /\ Leave(c) /\ Disconnect
       \/ call[c].op = "reclose" /\ WaitAt(c, "asking") /\ Disconnect

(* ptpCommandGetData and ptpCommandGetLargeData end with "data", and       *)
(* ptpCommand with "ok".                                                   *)
End(c, ok, data) ==
    IF ExpectsData(c) THEN Return(c, data) ELSE Acknowledged(c, ok)

Fail(c) == End(c, FALSE, <<>>)

(* build* and the OUT transfer, which throws at once on a null pipe: a     *)
(* call that holds the flag gives it back, connect gives up.  The builder  *)
(* has reset the engine by then.                                           *)
Send(c, o) ==
    /\ engine' = BuildCommand(engine)
    /\ UNCHANGED <<sessionOpen, pipe, wire>>
    /\ \/ /\ pipe # 0
          /\ Tags \ InUse # {}
          /\ call' = [call EXCEPT ![c] = [Idle EXCEPT !.at = "out", !.op = o,
                                             !.tag = AnyOf(Tags \ InUse), !.on = pipe]]
          /\ usbBusy' = (usbBusy \/ o = "bulk")
          /\ outcome' = "none"
       \/ /\ pipe = 0
          /\ Leave(c)
          /\ UNCHANGED usbBusy
          /\ outcome' = IF o \in {"bulk", "meta"} THEN "nothing" ELSE "none"
-----------------------------------------------------------------------------
(* Mutant: the flag is set but not looked at.                              *)
TakeAnyway(c) == Send(c, "bulk")

(* getThumb, getObject, getPartialObject: the session is looked at once,   *)
(* before any wait; the flag is taken in the step that finds it free.      *)
Take(c) == ~usbBusy /\ Send(c, "bulk")

(* Mutant: the sleeps are not counted.                                     *)
SleepUncounted(c) ==
    /\ usbBusy
    /\ call' = [call EXCEPT ![c] = [Idle EXCEPT !.at = "sleeping"]]
    /\ outcome' = "none"
    /\ UNCHANGED <<fields, engine, wire>>

Sleep(c) ==
    /\ usbBusy
    /\ call' = [call EXCEPT ![c] = [Idle EXCEPT !.at = "sleeping", !.count = call[c].count + 1]]
    /\ outcome' = "none"
    /\ UNCHANGED <<fields, engine, wire>>

StartBulk(c) ==
    /\ call[c] = Idle /\ sessionOpen
    /\ Take(c) \/ Sleep(c)

(* A sleep ends.  After the last one a busy pipe means null.               *)
WakeUp(c) ==
    /\ call[c].at = "sleeping"
    /\ \/ Take(c)
       \/ call[c].count < MaxSleeps /\ Sleep(c)

GiveUp(c) ==
    /\ call[c].at = "sleeping" /\ usbBusy /\ call[c].count = MaxSleeps
    /\ Leave(c) /\ outcome' = "nothing"
    /\ UNCHANGED <<fields, engine, wire>>

(* The commands that skip the flag.  getDeviceInfo looks at the pipe, the  *)
(* others at the session.                                                  *)
StartMeta(c) ==
    /\ call[c] = Idle /\ (pipe # 0 \/ sessionOpen)
    /\ Send(c, "meta")

(* closeSessionAndPipe: with a session it sends CloseSession and waits,    *)
(* without one it only drops the pipe.                                     *)
StartClose(c) ==
    /\ call[c] = Idle /\ pipe # 0
    /\ \/ sessionOpen /\ Send(c, "close")
       \/ /\ ~sessionOpen /\ Disconnect
          /\ outcome' = "none" /\ UNCHANGED <<engine, wire, call>>

(* connect: an existing connection is closed first; then the permission.   *)
StartConnect(c) ==
    /\ call[c] = Idle
    /\ \/ c \in Closers /\ pipe # 0 /\ sessionOpen /\ Send(c, "reclose")
       \/ /\ pipe = 0 \/ ~sessionOpen
          /\ Disconnect /\ WaitAt(c, "asking")
          /\ outcome' = "none" /\ UNCHANGED <<engine, wire>>

(* Permission denied, or no interface to claim: connect returns false.     *)
Refused(c) ==
    /\ call[c].at = "asking"
    /\ Disconnect /\ Leave(c)
    /\ outcome' = "none" /\ UNCHANGED <<engine, wire>>

(* connectDevice and findAndClaimInterface.  Setting the configuration     *)
(* clears the endpoints; then the interrupt endpoint is drained.           *)
Attach(c) ==
    /\ call[c].at = "asking"
    /\ LET free == Pipes \ {call[d].on : d \in Transferring}
       IN free # {} /\ pipe' = AnyOf(free)
    /\ commands' = <<>> /\ stream' = <<>>
    /\ WaitAt(c, "draining")
    /\ outcome' = "none" /\ UNCHANGED <<sessionOpen, usbBusy, engine>>

(* The drain ends (its result is ignored) and OpenSession goes out.        *)
OpenSession(c) ==
    /\ call[c].at = "draining"
    /\ Send(c, "open")
-----------------------------------------------------------------------------
(* The OUT transfer of a call ends: the camera has the command, or the     *)
(* transfer failed (the pipe was closed under it, the camera takes no      *)
(* command for 5 s, or the cable).                                         *)
Sent(c) ==
    /\ call[c].at = "out" /\ call[c].on = pipe /\ Len(commands) < Backlog
    /\ commands' = Append(commands, [txn |-> call[c].tag, op |-> call[c].op])
    /\ call' = [call EXCEPT ![c].at = "in"]
    /\ outcome' = "none" /\ UNCHANGED <<fields, engine, stream>>

SendFails(c) ==
    /\ call[c].at = "out" /\ (call[c].on # pipe \/ Lossy \/ Len(commands) = Backlog)
    /\ Fail(c)
    /\ UNCHANGED <<engine, wire>>

(* A bulk-IN transfer of a call ends with at most size units: a transfer   *)
(* of the camera ends early at its last unit, and one that fills the       *)
(* buffer exactly is followed by a zero-length packet.                     *)
Chunk(size) == SubSeq(Head(stream), 1, Lesser(size, Len(Head(stream))))
AfterChunk(size) ==
    LET rest == SubSeq(Head(stream), size + 1, Len(Head(stream)))
    IN IF Len(Head(stream)) < size THEN Tail(stream) ELSE <<rest>> \o Tail(stream)

(* One turn of the read loop.  A zero-length packet only uses up a read;   *)
(* anything else goes through the engine.                                  *)
Receive(c) ==
    /\ call[c].at = "in" /\ call[c].on = pipe /\ stream # <<>>
    /\ stream' = AfterChunk(BufOf(c))
    /\ UNCHANGED commands
    /\ LET r    == ProcessIncoming(engine, Chunk(BufOf(c)), ExpectsData(c))
           data == IF r.action = 1 /\ r.data # <<>> THEN r.data ELSE call[c].payload
       IN /\ engine' = r.engine
          /\ \/ /\ r.action = 2
                /\ End(c, r.code = "ok", IF r.code = "ok" THEN call[c].payload ELSE <<>>)
             \/ /\ r.action # 2 /\ call[c].count + 1 < ReadsOf(c)
                /\ call' = [call EXCEPT ![c].payload = data, ![c].count = @ + 1]
                /\ outcome' = "none" /\ UNCHANGED fields
             \/ r.action # 2 /\ call[c].count + 1 >= ReadsOf(c) /\ Fail(c)

(* A read fails: the pipe is gone, the camera has nothing more to say for  *)
(* the 10 s of the timeout, or the transfer is lost.                       *)
ReceiveFails(c) ==
    /\ call[c].at = "in"
    /\ call[c].on # pipe \/ Lossy \/ (stream = <<>> /\ commands = <<>>)
    /\ Fail(c)
    /\ UNCHANGED <<engine, wire>>

(* The camera serves its commands in order: data and OK, or an error alone *)
(* for a command with a data phase, a response for the others.  Without a  *)
(* zero-length packet behind the data the response joins its transfer.     *)
Serve(t) ==
    /\ \E len \in 1..MaxLen :
          \/ stream' = stream \o <<DataContainer(t, len), <<Response(t, TRUE)>>>>
          \/ /\ Merging
             /\ stream' = Append(stream, DataContainer(t, len) \o <<Response(t, TRUE)>>)
    /\ call' = [c \in Callers |->
                   [call[c] EXCEPT !.answered = @ \/ call[c].tag = t]]

Camera ==
    /\ commands # <<>> /\ Len(stream) < Backlog
    /\ commands' = Tail(commands)
    /\ LET t == Head(commands).txn
           expectsData == Head(commands).op \in {"bulk", "meta"}
       IN \/ expectsData /\ Serve(t)
          \/ /\ \E ok \in {FALSE, ~expectsData} : stream' = Append(stream, <<Response(t, ok)>>)
             /\ UNCHANGED call
    /\ outcome' = "none" /\ UNCHANGED <<fields, engine>>
-----------------------------------------------------------------------------
Start(c) ==
    \/ c \in Bulk /\ StartBulk(c)
    \/ c \in Meta /\ StartMeta(c)
    \/ c \in Openers /\ StartConnect(c)
    \/ c \in Closers /\ StartClose(c)

(* The steps a started call takes by itself: timers and transfers end.     *)
Continue(c) ==
    \/ WakeUp(c) \/ GiveUp(c)
    \/ Refused(c) \/ Attach(c) \/ OpenSession(c)
    \/ Sent(c) \/ SendFails(c) \/ Receive(c) \/ ReceiveFails(c)

Next ==
    \/ \E c \in Callers : Start(c) \/ Continue(c)
    \/ Camera

Spec == Init /\ [][Next]_vars

(* Every timer fires and every transfer has a timeout, so the runtime      *)
(* never leaves a started call waiting.                                    *)
FairSpec == Spec /\ \A c \in Callers : WF_vars(Continue(c))

(* A camera that answers every command it takes before the timeout.        *)
ServingSpec == FairSpec /\ WF_vars(Camera)
-----------------------------------------------------------------------------
Units == Unit(Tags, MaxLen)

(* A call with a transfer outstanding is in a command of some transaction. *)
CallRecords == [at : Places, op : Ops \cup {"none"}, tag : Tags \cup {0},
                on : Pipes \cup {0}, count : Nat,
                payload : Seq(Units), answered : BOOLEAN]
OnWire(r)   == r.at \in {"out", "in"}
Calls == {r \in CallRecords : OnWire(r) => r.tag \in Tags /\ r.op \in Ops}

Engines == [active : BOOLEAN, remaining : Nat, acc : Seq(Units),
            pending : Codes \cup {"none"}]

TypeOK ==
    /\ sessionOpen \in BOOLEAN /\ usbBusy \in BOOLEAN
    /\ pipe \in Pipes \cup {0}
    /\ engine \in Engines
    /\ commands \in Seq([txn : Tags, op : Ops])
    /\ stream \in Seq(Seq(Units))
    /\ call \in [Callers -> Calls]
    /\ outcome \in Outcomes

(* usbBusy serialises the bulk calls although it is a plain field: it is   *)
(* tested and set between two awaits, and given back on every way out.  At *)
(* most one bulk call has a transfer outstanding, and the flag is set      *)
(* exactly while one has.                                                  *)
Bulky(r) == OnWire(r) /\ r.op = "bulk"
OnTheWire(c) == Bulky(call[c])

BulkExclusion ==
    /\ \A c, d \in Callers : OnTheWire(c) /\ OnTheWire(d) => c = d
    /\ usbBusy <=> \E c \in Callers : OnTheWire(c)

(* No call ever returns a payload pieced together from two containers or   *)
(* from a part of one, whoever else used the engine in between.            *)
NeverTorn == outcome # "torn"

(* A call that returns data returns the data of its own object.            *)
AnswersOwnRequest == outcome # "foreign"

(* A call whose command the camera served does not come back empty.        *)
ServedIsDelivered == outcome # "missed"

(* What the bulk calls need in order to keep the contract: no metadata     *)
(* commands and no disconnects next to them, a cable that neither loses    *)
(* nor merges transfers, and buffers that hold more than a response and,   *)
(* together, more than the longest container.                              *)
Alone ==
    /\ Meta = {} /\ Closers = {} /\ ~Lossy /\ ~Merging
    /\ BulkBuf > 1 /\ MetaBuf > 1
    /\ MaxLen + 1 < BulkBuf * (BulkReads - 1)

(* Alone, the session keeps the contract of PtpTransport: each call for    *)
(* data is answered once, with its own object or with nothing.             *)
DataCalls == {c \in Callers : call[c].at = "sleeping" \/ call[c].op \in {"bulk", "meta"}}

Transport == INSTANCE PtpTransport WITH pending <- DataCalls, answer <- outcome
KeepsContract == Transport!Spec

(* Whatever fails, a started call comes back, and the flag it held is      *)
(* given back.                                                             *)
CallReturns == \A c \in Callers : call[c].at # "idle" ~> call[c].at = "idle"
BusyReleased == usbBusy ~> ~usbBusy
=============================================================================
