----------------------------- MODULE GpsRecorder -----------------------------
(***************************************************************************)
(* Starting and stopping the location recorder (services/GpsRecorder.ets). *)
(* toggle, setGpsMode and autoStart are asynchronous: they wait for a      *)
(* permission dialog, for the want agent and for the background task       *)
(* service, and between two waits any other call may run.  A call of the   *)
(* script runtime runs from one such wait to the next in one step; a       *)
(* promise that is settled already, or that another call settles, is       *)
(* continued in the same step, before any event of the user interface.     *)
(*                                                                         *)
(* The recorder's fields and what the system holds for it are one record,  *)
(* because one step may run through stop and start, and the operators      *)
(* below say what each piece of code makes of that record.                 *)
(***************************************************************************)
EXTENDS Naturals

CONSTANTS
    Callers,    \* calls of the settings page that may be under way at once
    Modes,      \* recording frequencies
    NumSubs     \* bound on the location callbacks the system knows

(* toggle(true), toggle(false), setGpsMode and autoStart.                  *)
Ops  == {"on", "off", "mode", "auto"}
Subs == 1..NumSubs

ASSUME RecorderAssumption == NumSubs \in Nat \ {0} /\ Modes # {}

VARIABLES
    gps,      \* the recorder and what the system holds for it
    call,     \* for each caller, the operation it is in and where it waits
    wanted    \* ghost: where the user put the switch last

recorderVars == <<gps, call, wanted>>

AnyOf(S) == CHOOSE x \in S : TRUE

(* running, mode, starting, permitted: running, gpsMode, startPromise is   *)
(* not null, permissionsChecked.  callback: locationCallback, 0 if it is   *)
(* undefined.  stored: gps_settings.json.  subscribed, task: the callbacks *)
(* registered for locationChange, each with the frequency it was           *)
(* registered at, and the continuous task.  failed is a ghost: since the   *)
(* launch a failure was caught and ignored.                                *)
Launched(saved) ==
    [running |-> FALSE, mode |-> saved.mode, starting |-> FALSE, permitted |-> FALSE,
     callback |-> 0, stored |-> saved, subscribed |-> {}, task |-> FALSE, failed |-> FALSE]

(* The switch is "unmet" after a start was refused, and "overtaken" after  *)
(* it was put off and a change of the frequency started the recorder again. *)
Wishes == {"on", "off", "unmet", "overtaken"}

Idle == [at |-> "idle", op |-> "none"]
CallPlaces == {"idle", "permission", "agent", "background", "joined", "waiting", "cancel"}

Unstored == {[mode |-> m, running |-> FALSE] : m \in Modes}

RecorderInit ==
    /\ \E saved \in Unstored : gps = Launched(saved)
    /\ call = [c \in Callers |-> Idle]
    /\ wanted = "off"
-----------------------------------------------------------------------------
(* Each of these is the set of records a piece of code may leave: two      *)
(* where it catches a failure of the system and goes on.                   *)
OrFails(g, done) == {done, [g EXCEPT !.failed = TRUE]}

(* Mutant: the frequency is left out of the settings.                      *)
SavedWithoutMode(g) == {[g EXCEPT !.stored = [running |-> g.running]]}

(* saveMode.                                                               *)
Saved(g) == OrFails(g, [g EXCEPT !.stored = [mode |-> g.mode, running |-> g.running]])

IdsOf(S) == {s.id : s \in S}

(* on('locationChange') with a new callback, and what follows it.          *)
Subscribed(g) ==
    LET id == AnyOf(Subs \ IdsOf(g.subscribed))
    IN Saved([g EXCEPT !.callback = id, !.running = TRUE,
                       !.subscribed = @ \cup {[id |-> id, mode |-> g.mode]}])

(* The catch of doStart, where on has thrown.                              *)
NotSubscribed(g) == Saved([g EXCEPT !.callback = 0, !.running = FALSE])

(* stop from the end of its wait on: the callback is the one of that       *)
(* moment.  off may fail, as long as the bound leaves room for the next.   *)
Unsubscribed(g) ==
    LET off == [g EXCEPT !.subscribed = {s \in @ : s.id # g.callback}]
    IN IF g.callback # 0 /\ IdsOf(g.subscribed) # Subs THEN OrFails(g, off) ELSE {off}

Stopped(g) ==
    UNION {Saved([h EXCEPT !.running = FALSE, !.callback = 0]) : h \in Unsubscribed(g)}

(* Mutant: the task is taken to be there already.                          *)
NotRequested(g) == {g}

(* startBackgroundRunning and stopBackgroundRunning take effect in the     *)
(* order they are called.                                                  *)
Requested(g) == OrFails(g, [g EXCEPT !.task = TRUE])
Cancelled(g) == OrFails(g, [g EXCEPT !.task = FALSE])
-----------------------------------------------------------------------------
WaitAt(c, o, place) == call' = [call EXCEPT ![c] = [at |-> place, op |-> o]]

(* stop up to its wait; with nothing to cancel it runs to its end.  "who"  *)
(* are the calls that stop in this step, each to the same effect.          *)
StopRecorder(who, g, others) ==
    \/ /\ g.running \/ g.callback # 0
       /\ gps' \in Cancelled(g)
       /\ call' = [c \in Callers |->
                      IF c \in who THEN [others[c] EXCEPT !.at = "cancel"] ELSE others[c]]
    \/ /\ ~g.running /\ g.callback = 0
       /\ gps' \in Stopped(g)
       /\ call' = [c \in Callers |-> IF c \in who THEN Idle ELSE others[c]]

(* Mutant: startPromise is not reset.                                      *)
SettleKeepsPromise(c, g) ==
    /\ gps' = g
    /\ call' = [d \in Callers |-> IF d = c \/ call[d].at = "joined" THEN Idle ELSE call[d]]

(* doStart ends: startPromise is dropped, the calls that joined it return  *)
(* too, and those that waited for it to stop go on.                        *)
Settle(c, g) ==
    LET joined  == {d \in Callers \ {c} : call[d].at = "joined"}
        waiting == {d \in Callers \ {c} : call[d].at = "waiting"}
        others  == [d \in Callers |-> IF d \in joined \cup {c} THEN Idle ELSE call[d]]
        settled == [g EXCEPT !.starting = FALSE]
    IN \/ waiting # {} /\ StopRecorder(waiting, settled, others)
       \/ waiting = {} /\ gps' = settled /\ call' = others

(* doStart behind the permission: the location service may be off, on may  *)
(* throw, and otherwise the want agent is awaited.                         *)
Attempt(c, o, g, wish) ==
    \/ /\ wanted' = IF wish = "off" THEN wish ELSE "unmet"
       /\ \E h \in {g} \cup NotSubscribed(g) : Settle(c, h)
    \/ /\ gps' \in Subscribed(g)
       /\ WaitAt(c, o, "agent") /\ wanted' = wish

(* Mutant: a call does not join a start under way.                         *)
StartTwice(c, o, g, wish) ==
    \/ g.running /\ gps' = g /\ WaitAt(c, "none", "idle") /\ wanted' = wish
    \/ /\ ~g.running /\ gps' = [g EXCEPT !.starting = TRUE]
       /\ WaitAt(c, o, "permission") /\ wanted' = wish

(* start.  A call that finds it running is done, one that finds it         *)
(* starting joins.                                                         *)
Start(c, o, g, wish) ==
    \/ /\ g.running
       /\ gps' = g /\ WaitAt(c, "none", "idle") /\ wanted' = wish
    \/ /\ ~g.running /\ g.starting
       /\ gps' = g /\ WaitAt(c, o, "joined") /\ wanted' = wish
    \/ /\ ~g.running /\ ~g.starting /\ ~g.permitted
       /\ gps' = [g EXCEPT !.starting = TRUE]
       /\ WaitAt(c, o, "permission") /\ wanted' = wish
    \/ /\ ~g.running /\ ~g.starting /\ g.permitted
       /\ Attempt(c, o, [g EXCEPT !.starting = TRUE], wish)
-----------------------------------------------------------------------------
ToggleOn(c) ==
    /\ call[c] = Idle
    /\ Start(c, "on", gps, "on")

(* Mutant: a start under way is not awaited.                               *)
ToggleOffAtOnce(c) ==
    /\ call[c] = Idle
    /\ wanted' = "off"
    /\ StopRecorder({c}, gps, [call EXCEPT ![c].op = "off"])

(* A start under way is awaited first.                                     *)
ToggleOff(c) ==
    /\ call[c] = Idle
    /\ wanted' = "off"
    /\ \/ gps.starting /\ WaitAt(c, "off", "waiting") /\ UNCHANGED gps
       \/ ~gps.starting /\ StopRecorder({c}, gps, [call EXCEPT ![c].op = "off"])

(* Mutant: a recorder that is still starting is left alone.                *)
SetGpsModeUnlessStarting(c) ==
    /\ call[c] = Idle
    /\ \E m \in Modes \ {gps.mode} : \E g \in Saved([gps EXCEPT !.mode = m]) :
          \/ gps.running /\ ~gps.starting /\ StopRecorder({c}, g, [call EXCEPT ![c].op = "mode"])
          \/ (~gps.running \/ gps.starting) /\ gps' = g /\ UNCHANGED call
    /\ UNCHANGED wanted

(* A new frequency is saved, and a running recorder restarted.             *)
SetGpsMode(c) ==
    /\ call[c] = Idle
    /\ \E m \in Modes \ {gps.mode} : \E g \in Saved([gps EXCEPT !.mode = m]) :
          \/ gps.running /\ StopRecorder({c}, g, [call EXCEPT ![c].op = "mode"])
          \/ ~gps.running /\ gps' = g /\ UNCHANGED call
    /\ UNCHANGED wanted

(* The process dies and is launched again: init reads the settings, and    *)
(* autoStart, in a call of its own, starts what was running.               *)
RelaunchRecorder(c) ==
    /\ gps' = [Launched(gps.stored) EXCEPT !.starting = gps.stored.running]
    /\ call' = [d \in Callers |-> IF d = c /\ gps.stored.running
                                  THEN [at |-> "permission", op |-> "auto"] ELSE Idle]
    /\ wanted' = IF gps.stored.running THEN "on" ELSE "off"

(* The permission dialog is answered.                                      *)
Permission(c) ==
    /\ call[c].at = "permission"
    /\ \/ Attempt(c, call[c].op, [gps EXCEPT !.permitted = TRUE], wanted)
       \/ /\ Settle(c, gps)
          /\ wanted' = IF wanted = "off" THEN wanted ELSE "unmet"

(* requestContinuousTask: the want agent is there, or not.                 *)
WantAgent(c) ==
    /\ call[c].at = "agent"
    /\ \/ /\ gps' \in Requested(gps)
          /\ WaitAt(c, call[c].op, "background")
       \/ Settle(c, [gps EXCEPT !.failed = TRUE])
    /\ UNCHANGED wanted

BackgroundRunning(c) ==
    /\ call[c].at = "background"
    /\ Settle(c, gps)
    /\ UNCHANGED wanted

(* cancelContinuousTask returns; setGpsMode goes on to start, whatever the *)
(* user has done with the switch meanwhile.                                *)
TaskCancelled(c) ==
    /\ call[c].at = "cancel"
    /\ \E g \in Stopped(gps) :
          \/ /\ call[c].op = "mode"
             /\ Start(c, "mode", g, IF wanted = "off" THEN "overtaken" ELSE wanted)
          \/ /\ call[c].op = "off"
             /\ gps' = g /\ WaitAt(c, "none", "idle") /\ UNCHANGED wanted

Continue(c) == Permission(c) \/ WantAgent(c) \/ BackgroundRunning(c) \/ TaskCancelled(c)

RecorderNext == \E c \in Callers :
    ToggleOn(c) \/ ToggleOff(c) \/ SetGpsMode(c) \/ RelaunchRecorder(c) \/ Continue(c)

RecorderSpec == RecorderInit /\ [][RecorderNext]_recorderVars

(* The dialog is answered and the system services return.                  *)
RecorderFairSpec == RecorderSpec /\ \A c \in Callers : WF_recorderVars(Continue(c))
-----------------------------------------------------------------------------
Settings == [mode : Modes, running : BOOLEAN]

Recorders == [running : BOOLEAN, mode : Modes, starting : BOOLEAN, permitted : BOOLEAN,
              callback : Subs \cup {0}, stored : Settings,
              subscribed : SUBSET [id : Subs, mode : Modes], task : BOOLEAN,
              failed : BOOLEAN]

Calls == [at : CallPlaces, op : Ops \cup {"none"}]

RecorderTypeOK ==
    /\ gps \in Recorders
    /\ call \in [Callers -> Calls]
    /\ wanted \in Wishes

Quiet == \A c \in Callers : call[c] = Idle

(* The recorder says it is running exactly while its callback is           *)
(* registered, whichever starts and stops overlap; and no second callback  *)
(* is left that would record every fix twice, unless off itself failed.    *)
SubscribedWhileRunning ==
    /\ gps.running <=> gps.callback \in IdsOf(gps.subscribed)
    /\ ~gps.failed => IdsOf(gps.subscribed) \subseteq {gps.callback}

(* The fixes come at the frequency the user chose last, except while the   *)
(* restart that a change needs is waiting.                                 *)
RecordsAtChosenMode ==
    gps.running /\ (\A c \in Callers : call[c].at # "cancel") =>
        \E s \in gps.subscribed : s.id = gps.callback /\ s.mode = gps.mode

(* Once all calls are done, a running recorder has the background task     *)
(* that keeps the process alive.                                           *)
TaskWhileRunning == Quiet /\ gps.running /\ ~gps.failed => gps.task

(* Switched off, and with no change of the frequency under way, the        *)
(* recorder stays off when the calls that overlapped are done, and will    *)
(* not start by itself at the next launch if its settings could be saved.  *)
OffSticks ==
    Quiet /\ wanted = "off" =>
        /\ ~gps.running
        /\ ~gps.failed => ~gps.stored.running

(* Switched off, the recorder stays off, whatever was under way.           *)
OffAlwaysSticks == Quiet /\ wanted \in {"off", "overtaken"} => ~gps.running

(* Every call returns, whatever it joined or waited for, if the process    *)
(* is not killed for ever.                                                 *)
CallReturns ==
    <>[][\A c \in Callers : ~RelaunchRecorder(c)]_recorderVars =>
        \A c \in Callers : call[c] # Idle ~> call[c] = Idle
=============================================================================
