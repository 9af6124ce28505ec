------------------------------ MODULE ViewerQueue ------------------------------
(***************************************************************************)
(* How the photo viewer, pages/PhotoViewer.ets, decides which photos to    *)
(* load in full: the photo shown first, then up to Window on each side of  *)
(* it, one at a time, pausing for gestures.  A load is a call of           *)
(* loadFullPhoto (module PhotoCache), which returns with the photo or with *)
(* nothing.                                                                *)
(*                                                                         *)
(* The list of photos is fixed while the viewer is open; a photo is known  *)
(* here by its place in it.  Every action runs from one await, timer or    *)
(* gesture to the next; of several timers set for the same purpose one     *)
(* stands for all.                                                         *)
(***************************************************************************)
EXTENDS Integers, SequencesExt, Picking

CONSTANTS
    Total,          \* photos in the list
    Opened,         \* places at which the viewer may be opened
    Window,         \* preloadWindow (3)
    Loops,          \* bound: calls of processPreloadQueue that may be alive at once
    MaxFailures,    \* bound: loads that bring nothing
    MaxGestures     \* bound: what the user does

ASSUME ViewerAssumption ==
    /\ Total \in Nat \ {0} /\ {Window, MaxFailures, MaxGestures} \subseteq Nat
    /\ Loops \subseteq Nat /\ Opened \subseteq 1..Total

VARIABLES
    mainIdx,
    fullResMap,     \* places of the photos loaded in full
    loadingHandle,  \* the one that loadFullRes is loading, 0 for none
    preloadedHandles,
    preloadQueue,
    preloadActive,
    loop,           \* each processPreloadQueue: off, loading a photo or yielding
    loadingPaused,
    inertia,        \* the strip of thumbnails is still scrolling
    settling,       \* the swiper has not come to rest
    touching,       \* a gesture on the photo goes on
    scanning,       \* CameraService.scanning: the viewer may be opened during a scan
    timers,         \* those that are set: open, pause, kick, retry
    stable,         \* what stableTimerId will load, 0 if it is not set
    closed,
    failures,
    gestures

photo    == <<mainIdx, fullResMap, loadingHandle>>
preload  == <<preloadedHandles, preloadQueue, preloadActive, loop>>
motion   == <<inertia, settling, touching>>
vars     == <<photo, preload, loadingPaused, motion, scanning, timers, stable, closed,
              failures, gestures>>

Places == 1..Total
Off    == [at |-> "off", handle |-> 0]

Init ==
    /\ mainIdx \in Opened
    /\ fullResMap = {} /\ loadingHandle = 0
    /\ preloadedHandles = {} /\ preloadQueue = <<>> /\ preloadActive = FALSE
    /\ loop = [l \in Loops |-> Off]
    /\ loadingPaused = FALSE /\ inertia = FALSE /\ settling = FALSE /\ touching = FALSE
    /\ scanning \in BOOLEAN
    /\ timers = {"open"} /\ stable = 0
    /\ closed = FALSE /\ failures = 0 /\ gestures = 0
-----------------------------------------------------------------------------
Distance(h, i) == IF h < i THEN i - h ELSE h - i

(* Mutant: the window is one too wide.                                     *)
InWiderWindow(h) == Distance(h, mainIdx') <= Window + 1

(* isInPreloadWindow.                                                      *)
InWindow(h) == Distance(h, mainIdx') <= Window

(* The tasks of the queue that are still needed.                           *)
Wanted(queue, full) ==
    Picked(queue, {i \in DOMAIN queue : queue[i].handle \notin full /\ InWindow(queue[i].handle)})

(* What a handler has made of the state so far; "loading" is what          *)
(* loadingHandle will be when the handler has ended.                       *)
Now == [full |-> fullResMap, marks |-> preloadedHandles, queue |-> preloadQueue,
        timers |-> timers, loading |-> loadingHandle]
Without(t) == [Now EXCEPT !.timers = @ \ {t}]
Keep(s) ==
    /\ fullResMap' = s.full /\ preloadedHandles' = s.marks /\ preloadQueue' = s.queue
    /\ timers' = s.timers /\ loadingHandle' = s.loading

(* loadFullRes up to its call of loadFullPhoto.                            *)
LoadFullRes(h, s) ==
    Keep([s EXCEPT !.loading = IF ~scanning' /\ h \notin s.full /\ loadingHandle = 0 THEN h ELSE @])

Exit(l)      == preloadActive' = FALSE /\ loop' = [loop EXCEPT ![l] = Off]
Begins(l, h) == preloadActive' = TRUE /\ loop' = [loop EXCEPT ![l] = [at |-> "loading", handle |-> h]]

(* Mutant: the next task, which remains, is unmarked as well.              *)
TrimmedUnmarksNext(s) ==
    LET next == SelectInSeq(s.queue, LAMBDA q : q.handle \notin s.full /\ InWindow(q.handle))
        n    == IF next = 0 THEN Len(s.queue) ELSE next - 1
    IN [s EXCEPT !.queue = SubSeq(@, n + 1, Len(@)),
                 !.marks = @ \ {s.queue[i].handle : i \in 1..(IF next = 0 THEN n ELSE next)}]

(* What needs no loading any more is taken off the queue and unmarked.     *)
Trimmed(s) ==
    LET next == SelectInSeq(s.queue, LAMBDA q : q.handle \notin s.full /\ InWindow(q.handle))
        n    == IF next = 0 THEN Len(s.queue) ELSE next - 1
    IN [s EXCEPT !.queue = SubSeq(@, n + 1, Len(@)),
                 !.marks = @ \ {s.queue[i].handle : i \in 1..n}]

(* Mutant: the photo shown is not looked at.                               *)
DrainAny(l, s) ==
    \E t \in {Trimmed(s)} :
       \/ /\ s.queue = <<>> \/ loadingPaused' \/ inertia'
          /\ Exit(l) /\ Keep(s)
       \/ /\ s.queue # <<>> /\ ~loadingPaused' /\ ~inertia'
          /\ \/ t.queue = <<>> /\ Exit(l) /\ Keep(t)
             \/ t.queue # <<>> /\ Begins(l, Head(t.queue).handle) /\ Keep([t EXCEPT !.queue = Tail(@)])

(* The loop of processPreloadQueue from its top to its next await or its   *)
(* end.                                                                    *)
Drain(l, s) ==
    \E t \in {Trimmed(s)}, first \in {mainIdx' \notin s.full /\ loadingHandle = 0} :
       \/ /\ s.queue = <<>> \/ loadingPaused' \/ inertia'
          /\ Exit(l) /\ Keep(s)
       \/ /\ s.queue # <<>> /\ ~loadingPaused' /\ ~inertia' /\ first
          /\ Exit(l) /\ LoadFullRes(mainIdx', s)
       \/ /\ s.queue # <<>> /\ ~loadingPaused' /\ ~inertia' /\ ~first
          /\ \/ t.queue = <<>> /\ Exit(l) /\ Keep(t)
             \/ /\ t.queue # <<>> /\ loadingHandle # 0
                /\ Exit(l) /\ Keep([t EXCEPT !.timers = @ \cup {"retry"}])
             \/ /\ t.queue # <<>> /\ loadingHandle = 0
                /\ Begins(l, Head(t.queue).handle) /\ Keep([t EXCEPT !.queue = Tail(@)])

Idle == {l \in Loops : loop[l] = Off /\ \A k \in Loops : loop[k] = Off => l <= k}

(* Mutant: a second loop is begun beside the first.                        *)
ProcessAnyway(s) ==
    \/ scanning' /\ Keep(s) /\ UNCHANGED <<preloadActive, loop>>
    \/ ~scanning' /\ \E l \in Idle : Drain(l, s)

(* processPreloadQueue.                                                    *)
Process(s) ==
    \/ (scanning' \/ preloadActive) /\ Keep(s) /\ UNCHANGED <<preloadActive, loop>>
    \/ ~scanning' /\ ~preloadActive /\ \E l \in Idle : Drain(l, s)

ProcessIf(wanted, s) ==
    \/ wanted /\ Process(s)
    \/ ~wanted /\ Keep(s) /\ UNCHANGED <<preloadActive, loop>>
-----------------------------------------------------------------------------
(* evictDistantFullRes.                                                    *)
Evicted(full) == {h \in full : Distance(h, mainIdx') > 2 * Window + 1}

(* The tasks of the window that are not yet marked join those of the       *)
(* queue: a stable sort by priority, and one task for each photo.          *)
Tasks(new) ==
    [i \in 1..Cardinality(new) |->
        [handle |-> Ranked(new)[i], priority |-> Distance(Ranked(new)[i], mainIdx')]]
Before(tasks) ==
    {p \in (DOMAIN tasks) \X (DOMAIN tasks) :
        \/ tasks[p[1]].priority < tasks[p[2]].priority
        \/ tasks[p[1]].priority = tasks[p[2]].priority /\ p[1] < p[2]}
Sorted(tasks) == [i \in DOMAIN tasks |-> tasks[InOrder(DOMAIN tasks, Before(tasks))[i]]]
OfEachPhoto(tasks) ==
    Picked(tasks, {i \in DOMAIN tasks : \A j \in 1..(i - 1) : tasks[j].handle # tasks[i].handle})

Queued(s, full, marks, queue) ==
    [full |-> full, marks |-> marks, queue |-> queue, timers |-> s.timers, loading |-> s.loading]

(* preloadNeighbors.                                                       *)
PreloadNeighbors(s) ==
    \/ (scanning' \/ inertia') /\ Keep(s) /\ UNCHANGED <<preloadActive, loop>>
    \/ /\ ~scanning' /\ ~inertia'
       /\ \E near \in {s.full \ Evicted(s.full)}, marks \in {s.marks \ Evicted(s.full)} :
          \E new \in {{h \in Places : InWindow(h) /\ h # mainIdx'} \ (near \cup marks)} :
          \E sorted \in {Sorted(Tasks(new) \o Wanted(s.queue, near))} :
          \E t \in {Queued(s, near, marks \cup new, OfEachPhoto(sorted))} :
             ProcessIf(~preloadActive /\ ~loadingPaused', t)

(* scheduleFullResLoad.                                                    *)
Schedule(s) ==
    \/ scanning' /\ UNCHANGED <<stable, preloadActive, loop>> /\ Keep(s)
    \/ ~scanning' /\ inertia' /\ stable' = 0 /\ UNCHANGED <<preloadActive, loop>> /\ Keep(s)
    \/ ~scanning' /\ ~inertia' /\ mainIdx' \in s.full /\ stable' = 0 /\ PreloadNeighbors(s)
    \/ /\ ~scanning' /\ ~inertia' /\ mainIdx' \notin s.full
       /\ stable' = IF loadingHandle = mainIdx' THEN 0 ELSE mainIdx'
       /\ UNCHANGED <<preloadActive, loop>> /\ Keep(s)
-----------------------------------------------------------------------------
(* The photo has been still for 100 ms.                                    *)
StableFires ==
    /\ stable # 0 /\ stable' = 0
    /\ UNCHANGED <<mainIdx, preloadActive, loop, loadingPaused, motion, scanning, closed, failures, gestures>>
    /\ LoadFullRes(stable, Now)

(* loadFullPhoto returns with the photo or with nothing.                   *)
Returns(brought) ==
    /\ brought \/ failures < MaxFailures
    /\ failures' = IF brought THEN failures ELSE failures + 1
WithPhoto(brought, h) == IF brought THEN fullResMap \cup {h} ELSE fullResMap

(* The finally of loadFullRes: a queue that has waited is taken up again,  *)
(* 50 ms later.                                                            *)
Kick == IF ~loadingPaused /\ preloadQueue' # <<>> /\ ~preloadActive' THEN {"kick"} ELSE {}

(* loadFullPhoto has returned to loadFullRes, for a photo still shown or   *)
(* for another.  Until the end this load counts as under way.              *)
Loaded ==
    /\ loadingHandle # 0
    /\ UNCHANGED <<mainIdx, loadingPaused, motion, scanning, stable, closed, gestures>>
    /\ \E brought \in BOOLEAN, kick \in {{}, {"kick"}} :
       \E s \in {[Now EXCEPT !.full = WithPhoto(brought, loadingHandle), !.loading = 0,
                              !.timers = @ \cup kick]} :
          /\ Returns(brought)
          /\ \/ brought /\ mainIdx = loadingHandle /\ PreloadNeighbors(s)
             \/ /\ ~brought \/ mainIdx # loadingHandle
                /\ Keep(s) /\ UNCHANGED <<preloadActive, loop>>
          /\ kick = Kick

(* loadFullPhoto has returned to the loop, which yields.                   *)
Preloaded(l) ==
    /\ loop[l].at = "loading"
    /\ \E brought \in BOOLEAN :
          Returns(brought) /\ fullResMap' = WithPhoto(brought, loop[l].handle)
    /\ loop' = [loop EXCEPT ![l] = [at |-> "yielding", handle |-> 0]]
    /\ UNCHANGED <<mainIdx, loadingHandle, preloadedHandles, preloadQueue, preloadActive,
                   loadingPaused, motion, scanning, timers, stable, closed, gestures>>

Yielded(l) ==
    /\ loop[l].at = "yielding"
    /\ UNCHANGED <<mainIdx, loadingPaused, motion, scanning, stable, closed, failures, gestures>>
    /\ \E s \in {Now} : Drain(l, s)

(* The timers: 200 ms after opening or 100 ms after a scan, ...            *)
OpenFires ==
    /\ "open" \in timers
    /\ UNCHANGED <<mainIdx, loadingPaused, motion, scanning, closed, failures, gestures>>
    /\ \E s \in {Without("open")} : Schedule(s)

(* ... 50 ms after a load, 200 ms after a loop has met a load, ...         *)
KickFires ==
    /\ "kick" \in timers
    /\ UNCHANGED <<mainIdx, loadingPaused, motion, scanning, stable, closed, failures, gestures>>
    /\ \E s \in {Without("kick")} : Process(s)

RetryFires ==
    /\ "retry" \in timers
    /\ UNCHANGED <<mainIdx, loadingPaused, motion, scanning, stable, closed, failures, gestures>>
    /\ \E s \in {Without("retry")} : ProcessIf(~loadingPaused, s)

(* Mutant: the queue is not taken up again.                                *)
PauseOnlyEnds ==
    /\ "pause" \in timers /\ loadingPaused' = FALSE
    /\ UNCHANGED <<mainIdx, motion, scanning, stable, closed, failures, gestures>>
    /\ Keep(Without("pause")) /\ UNCHANGED <<preloadActive, loop>>

(* ... and 300 ms after a gesture.                                         *)
PauseFires ==
    /\ "pause" \in timers /\ loadingPaused' = FALSE
    /\ UNCHANGED <<mainIdx, motion, scanning, stable, closed, failures, gestures>>
    /\ \E s \in {Without("pause")} : ProcessIf(preloadQueue # <<>> /\ ~preloadActive, s)
-----------------------------------------------------------------------------
Gesture == ~closed /\ gestures < MaxGestures /\ gestures' = gestures + 1

(* The main swiper turns to another photo.                                 *)
MainChange(i) ==
    /\ Gesture /\ i # mainIdx /\ mainIdx' = i
    /\ settling' = TRUE
    /\ UNCHANGED <<loadingPaused, inertia, touching, scanning, closed, failures>>
    /\ \/ inertia /\ UNCHANGED <<stable, fullResMap, loadingHandle, preload, timers>>
       \/ ~inertia /\ \E s \in {Now} : Schedule(s)

(* The strip of thumbnails is dragged, or flung; the swiper follows.       *)
ThumbDrag(i) ==
    /\ Gesture /\ ~inertia /\ i # mainIdx /\ mainIdx' = i
    /\ settling' = TRUE /\ inertia' \in BOOLEAN
    /\ UNCHANGED <<fullResMap, loadingHandle, preload, loadingPaused, touching, scanning, timers,
                   stable, closed, failures>>

(* onMainAnimationEnd.                                                     *)
Settle ==
    /\ settling /\ settling' = FALSE /\ inertia' = FALSE
    /\ UNCHANGED <<mainIdx, loadingPaused, touching, scanning, closed, failures, gestures>>
    /\ \E s \in {Now} : Schedule(s)

PausePreloading ==
    /\ Gesture /\ ~touching /\ touching' = TRUE
    /\ loadingPaused' = TRUE /\ timers' = timers \ {"pause"}
    /\ UNCHANGED <<photo, preload, inertia, settling, scanning, stable, closed, failures>>

ScheduleResumePreloading ==
    /\ touching /\ touching' = FALSE
    /\ timers' = timers \cup {"pause"}
    /\ UNCHANGED <<photo, preload, loadingPaused, inertia, settling, scanning, stable, closed, failures, gestures>>

ScanEnds ==
    /\ scanning /\ scanning' = FALSE
    /\ timers' = IF closed THEN timers ELSE timers \cup {"open"}
    /\ UNCHANGED <<photo, preload, loadingPaused, motion, stable, closed, failures, gestures>>

(* aboutToDisappear; timers other than the stable one still fire.          *)
Close ==
    /\ ~closed /\ closed' = TRUE
    /\ stable' = 0 /\ loadingPaused' = TRUE
    /\ settling' = FALSE /\ touching' = FALSE
    /\ UNCHANGED <<photo, preload, inertia, scanning, timers, failures, gestures>>

TimerFires  == StableFires \/ OpenFires \/ KickFires \/ RetryFires \/ PauseFires
LoopStep(l) == Preloaded(l) \/ Yielded(l)
MotionEnds  == Settle \/ ScheduleResumePreloading

Next ==
    \/ TimerFires
    \/ Loaded
    \/ \E l \in Loops : LoopStep(l)
    \/ MotionEnds
    \/ \E i \in Places : MainChange(i) \/ ThumbDrag(i)
    \/ PausePreloading
    \/ ScanEnds \/ Close

Spec == Init /\ [][Next]_vars

(* A load returns (PhotoCache), and what else is due is not put off for    *)
(* ever: timers fire, loops go on, scans, movements and gestures end.      *)
FairSpec ==
    /\ Spec
    /\ WF_vars(Loaded)
    /\ WF_vars(TimerFires \/ (\E l \in Loops : LoopStep(l)) \/ MotionEnds \/ ScanEnds)
-----------------------------------------------------------------------------
TypeOK ==
    /\ mainIdx \in Places /\ fullResMap \subseteq Places
    /\ loadingHandle \in Places \cup {0} /\ stable \in Places \cup {0}
    /\ preloadedHandles \subseteq Places
    /\ preloadQueue \in Seq([handle : Places, priority : 1..Window])
    /\ loop \in [Loops -> [at : {"off", "loading", "yielding"}, handle : Places \cup {0}]]
    /\ {preloadActive, loadingPaused, inertia, settling, touching, scanning, closed} \subseteq BOOLEAN
    /\ timers \subseteq {"open", "pause", "kick", "retry"}

(* Photos are preloaded one at a time: preloadActive says whether a loop   *)
(* is alive, and there is never a second, whatever timers start one.       *)
Alive == {l \in Loops : loop[l] # Off}
OneLoop ==
    /\ preloadActive <=> Alive # {}
    /\ \A k, l \in Alive : k = l

(* A photo has at most one task, and every task is marked.                 *)
QueueMarked ==
    /\ \A i, j \in DOMAIN preloadQueue : preloadQueue[i].handle = preloadQueue[j].handle => i = j
    /\ \A q \in ToSet(preloadQueue) : q.handle \in preloadedHandles

(* Preloading a neighbour begins only when the photo shown is there.       *)
CurrentFirst ==
    [][\A l \in Loops : loop[l].at # "loading" /\ loop'[l].at = "loading" =>
          mainIdx' \in fullResMap' /\ loadingHandle' = 0]_vars

(* The queue is gone through: no pause, load or exit of a loop leaves it   *)
(* behind with nobody to take it up.                                       *)
QueueDrains == preloadQueue # <<>> ~> preloadQueue = <<>> \/ closed

(* The photo the user stays on is loaded in full.                          *)
CurrentLoads == mainIdx \notin fullResMap ~> mainIdx \in fullResMap \/ closed
=============================================================================
