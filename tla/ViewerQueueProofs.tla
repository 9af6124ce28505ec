-------------------------- MODULE ViewerQueueProofs --------------------------
(***************************************************************************)
(* Proofs about the preloading of the viewer, for any list, window and     *)
(* number of loops: there is never a second loop (OneLoop), none begins to *)
(* load a neighbour before the photo shown is there (CurrentFirst), and a  *)
(* photo has one task at most, which is marked (QueueMarked), along with   *)
(* the types.                                                              *)
(*                                                                         *)
(* Every handler that may start a loop ends in Process or in Drain.        *)
(* DrainServes and the lemmas after it say what these do to preloadActive  *)
(* and loop; the handlers above them only choose whether they are called,  *)
(* and with which queue.  The lemmas ending in Fine follow the queue along *)
(* the same path: each handler hands on a record that is Fine.             *)
(***************************************************************************)
EXTENDS ViewerQueue, DataLemmas

(* OneLoop with what it takes to be inductive: loop is defined on Loops.   *)
IInv ==
    /\ loop = [l \in Loops |-> loop[l]]
    /\ preloadActive \in BOOLEAN
    /\ OneLoop

(* What a handler hands on: a record like Now.                             *)
Like(s) ==
    /\ s = [full |-> s.full, marks |-> s.marks, queue |-> s.queue, timers |-> s.timers,
            loading |-> s.loading]
    /\ loadingHandle = 0 => s.loading = 0

(* What a handler has done to the loops: nothing; or the only one that may *)
(* be alive has ended, or begun to load.  One that begins finds the photo  *)
(* shown, and nothing else being loaded.                                   *)
Untouched   == UNCHANGED <<preloadActive, loop>>
BegunRight  == mainIdx' \in fullResMap' /\ loadingHandle' = 0
OnlyAlive(l) == \A k \in Loops : loop[k] # Off => k = l
Served(l)   == OnlyAlive(l) /\ (Exit(l) \/ (BegunRight /\ \E h : Begins(l, h)))
LoopsServed == Untouched \/ \E l \in Loops : Served(l)
-----------------------------------------------------------------------------
LEMMA DrainServes ==
    ASSUME NEW l \in Loops, NEW s, Like(s), OnlyAlive(l), Drain(l, s)
    PROVE  Served(l)
<1>1. PICK t \in {Trimmed(s)}, first \in {mainIdx' \notin s.full /\ loadingHandle = 0} :
          \/ Exit(l)
          \/ /\ ~first /\ loadingHandle = 0
             /\ Begins(l, Head(t.queue).handle) /\ Keep([t EXCEPT !.queue = Tail(@)])
  BY DEF Drain
<1>2. CASE Exit(l)
  BY <1>2 DEF Served
<1>3. CASE /\ ~first /\ loadingHandle = 0
           /\ Begins(l, Head(t.queue).handle) /\ Keep([t EXCEPT !.queue = Tail(@)])
  <2>1. t.full = s.full /\ t.loading = s.loading
    BY DEF Trimmed, Like
  <2>2. fullResMap' = s.full /\ loadingHandle' = 0
    BY <1>3, <2>1 DEF Keep, Trimmed, Like
  <2>3. BegunRight
    BY <1>3, <2>2 DEF BegunRight
  <2>4. QED
    BY <1>3, <2>3 DEF Served
<1>4. QED
  BY <1>1, <1>2, <1>3

(* Nobody is alive when processPreloadQueue gets past its guard.           *)
LEMMA ProcessServes ==
    ASSUME IInv, NEW s, Like(s), Process(s)
    PROVE  LoopsServed
<1>1. CASE UNCHANGED <<preloadActive, loop>>
  BY <1>1 DEF LoopsServed, Untouched
<1>2. ASSUME ~preloadActive, NEW l \in Idle, Drain(l, s)
      PROVE  LoopsServed
  <2>1. l \in Loops /\ OnlyAlive(l)
    BY <1>2 DEF Idle, OnlyAlive, IInv, OneLoop, Alive
  <2>2. QED
    BY <1>2, <2>1, DrainServes DEF LoopsServed
<1>3. QED
  BY <1>1, <1>2 DEF Process

LEMMA PreloadNeighborsServes ==
    ASSUME IInv, NEW s, Like(s), PreloadNeighbors(s)
    PROVE  LoopsServed
<1>1. CASE UNCHANGED <<preloadActive, loop>>
  BY <1>1 DEF LoopsServed, Untouched
<1>2. CASE ~UNCHANGED <<preloadActive, loop>>
  <2>1. \E full, marks, queue :
           ProcessIf(~preloadActive /\ ~loadingPaused', Queued(s, full, marks, queue))
    <3>1. PICK near \in {s.full \ Evicted(s.full)}, marks \in {s.marks \ Evicted(s.full)} :
          \E new \in {{h \in Places : InWindow(h) /\ h # mainIdx'} \ (near \cup marks)} :
          \E sorted \in {Sorted(Tasks(new) \o Wanted(s.queue, near))} :
          \E t \in {Queued(s, near, marks \cup new, OfEachPhoto(sorted))} :
             ProcessIf(~preloadActive /\ ~loadingPaused', t)
      BY <1>2, Zenon DEF PreloadNeighbors
    <3>2. PICK new \in {{h \in Places : InWindow(h) /\ h # mainIdx'} \ (near \cup marks)} :
          \E sorted \in {Sorted(Tasks(new) \o Wanted(s.queue, near))} :
          \E t \in {Queued(s, near, marks \cup new, OfEachPhoto(sorted))} :
             ProcessIf(~preloadActive /\ ~loadingPaused', t)
      BY <3>1
    <3>3. PICK sorted \in {Sorted(Tasks(new) \o Wanted(s.queue, near))} :
          \E t \in {Queued(s, near, marks \cup new, OfEachPhoto(sorted))} :
             ProcessIf(~preloadActive /\ ~loadingPaused', t)
      BY <3>2
    <3>4. QED
      BY <3>3
  <2>2. PICK t : ProcessIf(~preloadActive /\ ~loadingPaused', t) /\ Like(t)
    <3>1. ASSUME NEW full, NEW marks, NEW queue PROVE Like(Queued(s, full, marks, queue))
      BY DEF Like, Queued
    <3>2. QED
      BY <2>1, <3>1, Zenon
  <2>3. Process(t)
    BY <1>2, <2>2 DEF ProcessIf
  <2>4. QED
    BY <2>2, <2>3, ProcessServes
<1>3. QED
  BY <1>1, <1>2

LEMMA ScheduleServes ==
    ASSUME IInv, NEW s, Like(s), Schedule(s)
    PROVE  LoopsServed
BY PreloadNeighborsServes DEF Schedule, LoopsServed, Untouched
-----------------------------------------------------------------------------
LEMMA NowIsLike ==
    /\ Like(Now)
    /\ \A t : Like(Without(t))
BY DEF Like, Now, Without

(* A step lets a loop that is loading yield, or serves at most one.        *)
LEMMA StepServes ==
    ASSUME IInv, Next
    PROVE  LoopsServed \/ \E l \in Loops : Preloaded(l)
<1>1. CASE TimerFires
  <2>1. CASE StableFires
    BY <2>1 DEF StableFires, LoopsServed, Untouched
  <2>2. CASE OpenFires
    BY <2>2, NowIsLike, ScheduleServes DEF OpenFires
  <2>3. CASE KickFires
    BY <2>3, NowIsLike, ProcessServes DEF KickFires
  <2>4. CASE RetryFires
    BY <2>4, NowIsLike, ProcessServes DEF RetryFires, ProcessIf, LoopsServed, Untouched
  <2>5. CASE PauseFires
    BY <2>5, NowIsLike, ProcessServes DEF PauseFires, ProcessIf, LoopsServed, Untouched
  <2>6. QED
    BY <1>1, <2>1, <2>2, <2>3, <2>4, <2>5 DEF TimerFires
<1>2. CASE Loaded
  <2>1. PICK brought \in BOOLEAN, kick \in {{}, {"kick"}} :
        \E s \in {[Now EXCEPT !.full = WithPhoto(brought, loadingHandle), !.loading = 0,
                              !.timers = @ \cup kick]} :
           PreloadNeighbors(s) \/ UNCHANGED <<preloadActive, loop>>
    BY <1>2 DEF Loaded
  <2>2. PICK s \in {[Now EXCEPT !.full = WithPhoto(brought, loadingHandle), !.loading = 0,
                                !.timers = @ \cup kick]} :
           PreloadNeighbors(s) \/ UNCHANGED <<preloadActive, loop>>
    BY <2>1
  <2>3. Like(s)
    BY <2>2 DEF Like, Now
  <2>4. QED
    BY <2>2, <2>3, PreloadNeighborsServes DEF LoopsServed, Untouched
<1>3. CASE \E l \in Loops : LoopStep(l)
  <2>1. SUFFICES ASSUME NEW l \in Loops, Yielded(l)
                 PROVE  LoopsServed
    BY <1>3 DEF LoopStep
  <2>2. OnlyAlive(l)
    BY <2>1 DEF Yielded, OnlyAlive, IInv, OneLoop, Alive, Off
  <2>3. QED
    BY <2>1, <2>2, NowIsLike, DrainServes DEF Yielded, LoopsServed
<1>4. CASE MotionEnds
  BY <1>4, NowIsLike, ScheduleServes
     DEF MotionEnds, Settle, ScheduleResumePreloading, LoopsServed, Untouched, preload
<1>5. CASE \E i \in Places : MainChange(i) \/ ThumbDrag(i)
  BY <1>5, NowIsLike, ScheduleServes DEF MainChange, ThumbDrag, LoopsServed, Untouched, preload
<1>6. CASE PausePreloading \/ ScanEnds \/ Close
  BY <1>6 DEF PausePreloading, ScanEnds, Close, LoopsServed, Untouched, preload
<1>7. QED
  BY <1>1, <1>2, <1>3, <1>4, <1>5, <1>6 DEF Next
-----------------------------------------------------------------------------
LEMMA InitHolds == Init => IInv
BY DEF Init, IInv, OneLoop, Alive

LEMMA StepKeeps == IInv /\ [Next]_vars => IInv'
<1> SUFFICES ASSUME IInv, [Next]_vars PROVE IInv'
  OBVIOUS
<1>1. CASE UNCHANGED vars \/ Untouched
  BY <1>1 DEF vars, preload, Untouched, IInv, OneLoop, Alive
<1>2. ASSUME NEW l \in Loops, Served(l) PROVE IInv'
  <2>1. CASE Exit(l)
    <3>1. preloadActive' = FALSE /\ \A k \in Loops : loop'[k] = Off
      BY <1>2, <2>1 DEF Served, OnlyAlive, Exit, IInv
    <3>2. loop' = [k \in Loops |-> loop'[k]]
      BY <2>1 DEF Exit, IInv
    <3>3. QED
      BY <3>1, <3>2 DEF IInv, OneLoop, Alive
  <2>2. ASSUME NEW h, Begins(l, h) PROVE IInv'
    <3>1. preloadActive' = TRUE /\ loop'[l] # Off /\ \A k \in Loops : k # l => loop'[k] = Off
      BY <1>2, <2>2 DEF Served, OnlyAlive, Begins, Off, IInv
    <3>2. loop' = [k \in Loops |-> loop'[k]]
      BY <2>2 DEF Begins, IInv
    <3>3. QED
      BY <3>1, <3>2 DEF IInv, OneLoop, Alive
  <2>3. QED
    BY <1>2, <2>1, <2>2 DEF Served
<1>3. ASSUME NEW l \in Loops, Preloaded(l) PROVE IInv'
  <2>1. loop[l] # Off /\ loop'[l] # Off /\ \A k \in Loops : k # l => loop'[k] = loop[k]
    BY <1>3 DEF Preloaded, Off, IInv
  <2>2. loop' = [k \in Loops |-> loop'[k]] /\ preloadActive' = preloadActive
    BY <1>3 DEF Preloaded, IInv
  <2>3. QED
    BY <2>1, <2>2 DEF IInv, OneLoop, Alive
<1>4. QED
  BY <1>1, <1>2, <1>3, StepServes DEF LoopsServed

(* However many timers are due, a second loop is never begun:              *)
(* preloadActive is set exactly while one is alive.                        *)
THEOREM NeverASecondLoop == Spec => []OneLoop
<1>1. IInv => OneLoop
  BY DEF IInv
<1>2. QED
  BY <1>1, InitHolds, StepKeeps, PTL DEF Spec

(* No step of any handler begins to load a neighbour while the photo shown *)
(* is not loaded or another load is under way.                             *)
THEOREM CurrentPhotoFirst == Spec => CurrentFirst
<1> DEFINE Right == \A l \in Loops : loop[l].at # "loading" /\ loop'[l].at = "loading" =>
                       mainIdx' \in fullResMap' /\ loadingHandle' = 0
<1>1. ASSUME IInv, Next PROVE Right
  <2>1. CASE Untouched
    BY <2>1 DEF Untouched
  <2>2. ASSUME NEW l \in Loops, Served(l) PROVE Right
    <3>1. CASE Exit(l)
      BY <3>1 DEF Exit, Off, IInv
    <3>2. CASE BegunRight
      BY <3>2 DEF BegunRight
    <3>3. QED
      BY <2>2, <3>1, <3>2 DEF Served
  <2>3. ASSUME NEW l \in Loops, Preloaded(l) PROVE Right
    BY <2>3 DEF Preloaded, IInv
  <2>4. QED
    BY <1>1, <2>1, <2>2, <2>3, StepServes DEF LoopsServed
<1>2. IInv /\ [Next]_vars => [Right]_vars
  BY <1>1
<1>3. QED
  BY <1>2, InitHolds, StepKeeps, PTL DEF Spec, CurrentFirst
-----------------------------------------------------------------------------
(* The types and QueueMarked together, of the record that a handler hands  *)
(* on as of the variables.  A loop that loads is always loading a photo of *)
(* the list: otherwise fullResMap would not keep its type when it returns. *)
Task   == [handle : Places, priority : 1..Window]
Timers == {"open", "pause", "kick", "retry"}
Marked(queue, marks) ==
    /\ \A i, j \in DOMAIN queue : queue[i].handle = queue[j].handle => i = j
    /\ \A q \in ToSet(queue) : q.handle \in marks
Fine(s) ==
    /\ s = [full |-> s.full, marks |-> s.marks, queue |-> s.queue, timers |-> s.timers,
            loading |-> s.loading]
    /\ s.full \subseteq Places /\ s.marks \subseteq Places /\ s.queue \in Seq(Task)
    /\ s.timers \subseteq Timers /\ s.loading \in Places \cup {0}
    /\ Marked(s.queue, s.marks)
Shape == {Off, [at |-> "yielding", handle |-> 0]} \cup [at : {"loading"}, handle : Places]
QueueInv == Fine(Now) /\ loop \in [Loops -> Shape] /\ preloadActive \in BOOLEAN
RestInv ==
    /\ mainIdx \in Places /\ stable \in Places \cup {0}
    /\ loadingPaused \in BOOLEAN /\ inertia \in BOOLEAN /\ settling \in BOOLEAN
    /\ touching \in BOOLEAN /\ scanning \in BOOLEAN /\ closed \in BOOLEAN

LEMMA OffShape == Off \in Shape
BY DEF Off, Shape

LEMMA KeepFine == ASSUME NEW s, Fine(s), Keep(s) PROVE Fine(Now)'
<1>1. Now' = s
  BY DEF Keep, Now, Fine
<1>2. QED
  BY <1>1 DEF Fine

LEMMA LoadFine ==
    ASSUME NEW s, Fine(s), NEW h \in Places, LoadFullRes(h, s)
    PROVE  Fine(Now)'
<1> DEFINE loading == IF ~scanning' /\ h \notin s.full /\ loadingHandle = 0 THEN h ELSE s.loading
           r == [s EXCEPT !.loading = loading]
<1>1. Keep(r) /\ loading \in Places \cup {0}
  BY DEF LoadFullRes, Fine
<1> HIDE DEF loading
<1>2. Fine(r)
  BY <1>1 DEF Fine
<1>3. QED
  BY <1>1, <1>2, KeepFine

LEMMA ExitFine ==
    ASSUME QueueInv, NEW l \in Loops, Exit(l), Fine(Now)'
    PROVE  QueueInv'
BY OffShape DEF Exit, QueueInv

(* A queue whose first n tasks are taken off and unmarked.                 *)
LEMMA TrimmedFine == ASSUME NEW s, Fine(s) PROVE Fine(Trimmed(s))
<1> DEFINE I    == {i \in 1..Len(s.queue) : s.queue[i].handle \notin s.full /\ InWindow(s.queue[i].handle)}
           next == SelectInSeq(s.queue, LAMBDA q : q.handle \notin s.full /\ InWindow(q.handle))
           n    == IF next = 0 THEN Len(s.queue) ELSE next - 1
           queue == SubSeq(s.queue, n + 1, Len(s.queue))
           marks == s.marks \ {s.queue[i].handle : i \in 1..n}
<1>1. s.queue \in Seq(Task) /\ Len(s.queue) \in Nat /\ DOMAIN s.queue = 1..Len(s.queue)
  BY LenProperties DEF Fine
<1>2. next \in 0..Len(s.queue)
  <2>1. next = IF I # {} THEN Min(I) ELSE 0
    BY DEF SelectInSeq
  <2>2. I \subseteq 1..Len(s.queue)
    OBVIOUS
  <2> HIDE DEF I, next
  <2>3. QED
    BY <1>1, <2>1, <2>2, SelectProperties
<1>3. Trimmed(s) = [s EXCEPT !.queue = queue, !.marks = marks]
  BY DEF Trimmed
<1> HIDE DEF next
<1>4. n \in 0..Len(s.queue)
  BY <1>1, <1>2
<1> HIDE DEF n
<1>5. /\ queue \in Seq(Task) /\ DOMAIN queue = 1..(Len(s.queue) - n)
      /\ \A i \in DOMAIN queue : n + i \in DOMAIN s.queue /\ queue[i] = s.queue[n + i]
  <2> DEFINE m == Len(s.queue)
             z == s.queue
  <2>1. m \in Nat /\ n \in 0..m /\ \A i \in (n + 1)..m : z[i] \in Task
    BY <1>1, <1>4, ElementOfSeq
  <2> HIDE DEF m, z
  <2>2. /\ SubSeq(z, n + 1, m) \in Seq(Task)
        /\ Len(SubSeq(z, n + 1, m)) = IF n + 1 <= m THEN m - (n + 1) + 1 ELSE 0
        /\ \A i \in 1..(m - (n + 1) + 1) : SubSeq(z, n + 1, m)[i] = z[n + 1 + i - 1]
    BY <2>1, SubSeqProperties
  <2>3. DOMAIN SubSeq(z, n + 1, m) = 1..(m - n)
    <3>1. Len(SubSeq(z, n + 1, m)) = m - n
      BY <2>1, <2>2
    <3>2. QED
      BY <2>2, <3>1, LenProperties
  <2>4. ASSUME NEW i \in 1..(m - n) PROVE n + i \in 1..m /\ SubSeq(z, n + 1, m)[i] = z[n + i]
    <3>1. i \in 1..(m - (n + 1) + 1) /\ n + 1 + i - 1 = n + i /\ n + i \in 1..m
      BY <2>1
    <3>2. QED
      BY <2>2, <3>1
  <2>5. QED
    BY <1>1, <2>2, <2>3, <2>4 DEF m, z
<1> HIDE DEF queue
<1>6. Marked(s.queue, s.marks)
  BY DEF Fine
<1>7. \A i, j \in DOMAIN queue : queue[i].handle = queue[j].handle => i = j
  <2>1. SUFFICES ASSUME NEW i \in DOMAIN queue, NEW j \in DOMAIN queue,
                        queue[i].handle = queue[j].handle
                 PROVE  i = j
    OBVIOUS
  <2>2. n + i = n + j
    BY <1>5, <1>6, <2>1 DEF Marked
  <2>3. i \in Int /\ j \in Int /\ n \in Int
    BY <1>1, <1>4, <1>5
  <2>4. QED
    BY <2>2, <2>3
<1>8. \A i \in DOMAIN queue : queue[i].handle \in marks
  <2>1. SUFFICES ASSUME NEW i \in DOMAIN queue PROVE queue[i].handle \in marks
    OBVIOUS
  <2>2. queue[i].handle \in s.marks
    BY <1>5, <1>6 DEF Marked, ToSet
  <2>3. ASSUME NEW k \in 1..n PROVE queue[i].handle # s.queue[k].handle
    <3>1. k \in DOMAIN s.queue /\ n + i # k
      BY <1>1, <1>4, <1>5
    <3>2. QED
      BY <1>5, <1>6, <3>1 DEF Marked
  <2>4. QED
    BY <2>2, <2>3
<1>9. Marked(queue, marks)
  BY <1>7, <1>8 DEF Marked, ToSet
<1>10. marks \subseteq Places
  BY DEF Fine
<1> HIDE DEF marks
<1>11. QED
  BY <1>3, <1>5, <1>9, <1>10 DEF Fine

LEMMA TailFine ==
    ASSUME NEW s, Fine(s), s.queue # <<>>
    PROVE  Fine([s EXCEPT !.queue = Tail(@)]) /\ Head(s.queue).handle \in Places
<1>1. s.queue \in Seq(Task) /\ Len(s.queue) \in Nat /\ DOMAIN s.queue = 1..Len(s.queue)
  BY LenProperties DEF Fine
<1>2. /\ Head(s.queue) \in Task /\ Tail(s.queue) \in Seq(Task)
      /\ DOMAIN Tail(s.queue) = 1..(Len(s.queue) - 1)
      /\ \A i \in DOMAIN Tail(s.queue) : i + 1 \in DOMAIN s.queue /\ Tail(s.queue)[i] = s.queue[i + 1]
  BY <1>1, HeadTailProperties, LenProperties
<1>3. Marked(Tail(s.queue), s.marks)
  <2>1. \A i, j \in DOMAIN Tail(s.queue) : Tail(s.queue)[i].handle = Tail(s.queue)[j].handle => i = j
    BY <1>1, <1>2 DEF Marked, Fine
  <2>2. \A i \in DOMAIN Tail(s.queue) : Tail(s.queue)[i] \in ToSet(s.queue)
    BY <1>2 DEF ToSet
  <2>3. QED
    BY <2>1, <2>2 DEF Marked, Fine, ToSet
<1> DEFINE tail == Tail(s.queue)
           r    == [s EXCEPT !.queue = tail]
<1>4. tail \in Seq(Task) /\ Marked(tail, s.marks)
  BY <1>2, <1>3
<1> HIDE DEF tail
<1>5. Fine(r)
  BY <1>4 DEF Fine
<1>6. QED
  BY <1>2, <1>5 DEF tail, Task

LEMMA DrainFine ==
    ASSUME QueueInv, mainIdx' \in Places, NEW l \in Loops, NEW s, Fine(s), Drain(l, s)
    PROVE  QueueInv'
<1>1. PICK t \in {Trimmed(s)}, first \in {mainIdx' \notin s.full /\ loadingHandle = 0} :
          \/ Exit(l) /\ Keep(s)
          \/ Exit(l) /\ LoadFullRes(mainIdx', s)
          \/ Exit(l) /\ Keep(t)
          \/ Exit(l) /\ Keep([t EXCEPT !.timers = @ \cup {"retry"}])
          \/ /\ t.queue # <<>>
             /\ Begins(l, Head(t.queue).handle) /\ Keep([t EXCEPT !.queue = Tail(@)])
  BY DEF Drain
<1>2. Fine(t)
  BY <1>1, TrimmedFine
<1>3. CASE Exit(l) /\ (Keep(s) \/ Keep(t))
  BY <1>2, <1>3, KeepFine, ExitFine
<1>4. CASE Exit(l) /\ LoadFullRes(mainIdx', s)
  BY <1>4, LoadFine, ExitFine
<1>5. CASE Exit(l) /\ Keep([t EXCEPT !.timers = @ \cup {"retry"}])
  <2> DEFINE timers2 == t.timers \cup {"retry"}
  <2>1. timers2 \subseteq Timers
    BY <1>2 DEF Fine, Timers
  <2> HIDE DEF timers2
  <2>2. Fine([t EXCEPT !.timers = timers2])
    BY <1>2, <2>1 DEF Fine
  <2>3. QED
    BY <1>5, <2>2, KeepFine, ExitFine DEF timers2
<1>6. CASE /\ t.queue # <<>>
           /\ Begins(l, Head(t.queue).handle) /\ Keep([t EXCEPT !.queue = Tail(@)])
  <2>1. Fine(Now)' /\ Head(t.queue).handle \in Places
    BY <1>2, <1>6, TailFine, KeepFine
  <2>2. [at |-> "loading", handle |-> Head(t.queue).handle] \in Shape
    BY <2>1 DEF Shape
  <2>3. QED
    BY <1>6, <2>1, <2>2 DEF Begins, QueueInv
<1>7. QED
  BY <1>1, <1>3, <1>4, <1>5, <1>6

LEMMA ProcessFine ==
    ASSUME QueueInv, mainIdx' \in Places, NEW s, Fine(s), Process(s)
    PROVE  QueueInv'
<1>1. CASE Keep(s) /\ UNCHANGED <<preloadActive, loop>>
  BY <1>1, KeepFine DEF QueueInv
<1>2. ASSUME NEW l \in Idle, Drain(l, s) PROVE QueueInv'
  BY <1>2, DrainFine DEF Idle
<1>3. QED
  BY <1>1, <1>2 DEF Process

LEMMA ProcessIfFine ==
    ASSUME QueueInv, mainIdx' \in Places, NEW s, Fine(s), NEW wanted, ProcessIf(wanted, s)
    PROVE  QueueInv'
<1>1. CASE Keep(s) /\ UNCHANGED <<preloadActive, loop>>
  BY <1>1, KeepFine DEF QueueInv
<1>2. QED
  BY <1>1, ProcessFine DEF ProcessIf
-----------------------------------------------------------------------------
(* The sort and the selection of preloadNeighbors keep to the tasks given. *)
LEMMA SortedType ==
    ASSUME NEW T, \A q \in T : q.priority \in Int, NEW tasks \in Seq(T)
    PROVE  Sorted(tasks) \in Seq(T)
<1> DEFINE D == DOMAIN tasks
           R == Before(tasks)
<1>1. D = 1..Len(tasks) /\ Len(tasks) \in Nat /\ \A i \in D : tasks[i] \in T
  BY LenProperties, ElementOfSeq
<1>2. IsFiniteSet(D) /\ Cardinality(D) = Len(tasks)
  <2>1. Cardinality(1..Len(tasks)) = IF 1 > Len(tasks) THEN 0 ELSE Len(tasks) - 1 + 1
    BY <1>1, FS_Interval
  <2>2. IsFiniteSet(1..Len(tasks))
    BY <1>1, FS_Interval
  <2>3. QED
    BY <1>1, <2>1, <2>2
<1>3. \A i, j \in D : <<i, j>> \in R <=>
         \/ tasks[i].priority < tasks[j].priority
         \/ tasks[i].priority = tasks[j].priority /\ i < j
  BY DEF Before
<1>4. \A i \in D : tasks[i].priority \in Int /\ i \in Int
  BY <1>1
<1> HIDE DEF D, R
<1>5. Orders(R, D)
  BY <1>3, <1>4 DEF Orders
<1>6. InOrder(D, R) \in [1..Cardinality(D) -> D]
  BY <1>2, <1>5, InOrderProperties
<1>7. Sorted(tasks) \in [1..Len(tasks) -> T]
  BY <1>1, <1>2, <1>6 DEF Sorted, D, R
<1>8. QED
  BY <1>1, <1>7, IsASeq

LEMMA OfEachPhotoFine ==
    ASSUME NEW T, NEW tasks \in Seq(T)
    PROVE  /\ OfEachPhoto(tasks) \in Seq(T)
           /\ \A i, j \in DOMAIN OfEachPhoto(tasks) :
                 OfEachPhoto(tasks)[i].handle = OfEachPhoto(tasks)[j].handle => i = j
<1> DEFINE I == {i \in DOMAIN tasks : \A j \in 1..(i - 1) : tasks[j].handle # tasks[i].handle}
           picked == Picked(tasks, I)
           at     == Ranked(I)
<1>1. DOMAIN tasks = 1..Len(tasks) /\ Len(tasks) \in Nat /\ \A i \in DOMAIN tasks : tasks[i] \in T
  BY LenProperties, ElementOfSeq
<1>2. I \subseteq 1..Len(tasks) /\ \A i \in I : tasks[i] \in T
  BY <1>1
<1>3. \A i, j \in I : i < j => tasks[i].handle # tasks[j].handle
  BY <1>1
<1>4. OfEachPhoto(tasks) = picked
  BY DEF OfEachPhoto
<1> HIDE DEF I
<1>5. /\ picked \in Seq(T)
      /\ \A k \in DOMAIN picked : at[k] \in I /\ picked[k] = tasks[at[k]]
      /\ \A k, l \in DOMAIN picked : k < l => at[k] < at[l]
  <2>1. \A n \in Nat : I \subseteq 1..n => Picked(tasks, I) \in Seq(T)
    BY <1>2, PickedProperties
  <2>2. \A n \in Nat : I \subseteq 1..n => \A k \in DOMAIN Picked(tasks, I) : Ranked(I)[k] \in I
    BY <1>2, PickedProperties
  <2>3. \A k \in DOMAIN Picked(tasks, I) : Picked(tasks, I)[k] = tasks[Ranked(I)[k]]
    BY DEF Picked
  <2>4. \A n \in Nat : I \subseteq 1..n =>
           \A k, l \in DOMAIN Picked(tasks, I) : k < l => Ranked(I)[k] < Ranked(I)[l]
    BY <1>2, PickedProperties
  <2>5. QED
    BY <1>1, <1>2, <2>1, <2>2, <2>3, <2>4
<1>6. \A k \in DOMAIN picked : k \in Int
  BY <1>5, LenProperties
<1> HIDE DEF picked, at
<1>7. \A k, l \in DOMAIN picked : picked[k].handle = picked[l].handle => k = l
  <2>1. SUFFICES ASSUME NEW k \in DOMAIN picked, NEW l \in DOMAIN picked, k # l
                 PROVE  picked[k].handle # picked[l].handle
    OBVIOUS
  <2>2. k < l \/ l < k
    BY <1>6, <2>1
  <2>3. QED
    BY <1>3, <1>5, <2>2
<1>8. QED
  BY <1>4, <1>5, <1>7

LEMMA TasksType ==
    ASSUME mainIdx' \in Places, NEW new, new \subseteq Places,
           \A h \in new : InWindow(h) /\ h # mainIdx'
    PROVE  Tasks(new) \in Seq({q \in Task : q.handle \in new})
<1>1. Total \in Nat /\ Window \in Nat
  BY ViewerAssumption
<1>2. new \subseteq Nat /\ IsFiniteSet(new)
  <2>1. IsFiniteSet(1..Total)
    BY <1>1, FS_Interval
  <2>2. IsFiniteSet(new)
    BY <2>1, FS_Subset DEF Places
  <2>3. QED
    BY <2>2 DEF Places
<1>3. Cardinality(new) \in Nat /\ Ranked(new) \in [1..Cardinality(new) -> new]
  BY <1>2, RankedProperties
<1>4. ASSUME NEW h \in new
      PROVE  [handle |-> h, priority |-> Distance(h, mainIdx')] \in {q \in Task : q.handle \in new}
  <2>1. h \in Int /\ mainIdx' \in Int /\ h # mainIdx' /\ Distance(h, mainIdx') <= Window
    BY <1>4 DEF Places, InWindow
  <2>2. Distance(h, mainIdx') = IF h < mainIdx' THEN mainIdx' - h ELSE h - mainIdx'
    BY DEF Distance
  <2>3. Distance(h, mainIdx') \in 1..Window
    <3> DEFINE d == Distance(h, mainIdx')
               m == mainIdx'
    <3>1. h \in Int /\ m \in Int /\ h # m /\ d <= Window /\ d = IF h < m THEN m - h ELSE h - m
      BY <2>1, <2>2
    <3> HIDE DEF d, m
    <3>2. d \in 1..Window
      BY <1>1, <3>1
    <3>3. QED
      BY <3>2 DEF d
  <2>4. QED
    BY <2>3 DEF Task
<1>5. Tasks(new) \in [1..Cardinality(new) -> {q \in Task : q.handle \in new}]
  BY <1>3, <1>4 DEF Tasks
<1>6. QED
  BY <1>3, <1>5, IsASeq

(* What stays of the queue is in the window, so still marked.              *)
LEMMA WantedMarked ==
    ASSUME mainIdx' \in Places, NEW s, Fine(s), NEW full
    PROVE  Wanted(s.queue, full) \in Seq({q \in Task : q.handle \in s.marks \ Evicted(s.full)})
<1> DEFINE I == {i \in DOMAIN s.queue : s.queue[i].handle \notin full /\ InWindow(s.queue[i].handle)}
           T == {q \in Task : q.handle \in s.marks \ Evicted(s.full)}
<1>1. /\ s.queue \in Seq(Task) /\ DOMAIN s.queue = 1..Len(s.queue) /\ Len(s.queue) \in Nat
      /\ \A i \in DOMAIN s.queue : s.queue[i] \in Task
  BY LenProperties, ElementOfSeq DEF Fine
<1>2. ASSUME NEW i \in I PROVE s.queue[i] \in T
  <2>1. s.queue[i] \in Task /\ s.queue[i].handle \in s.marks /\ s.queue[i].handle \in Places
    BY <1>1 DEF Fine, Marked, ToSet, Task
  <2>2. Distance(s.queue[i].handle, mainIdx') <= Window
    BY DEF InWindow
  <2>3. Distance(s.queue[i].handle, mainIdx') \in Nat /\ Window \in Nat
    BY <2>1, ViewerAssumption DEF Distance, Places
  <2>4. ~(Distance(s.queue[i].handle, mainIdx') > 2 * Window + 1)
    BY <2>2, <2>3
  <2>5. QED
    BY <2>1, <2>4 DEF Evicted
<1>3. I \subseteq 1..Len(s.queue)
  BY <1>1
<1>4. Wanted(s.queue, full) = Picked(s.queue, I)
  BY DEF Wanted
<1> HIDE DEF I, T
<1>5. Picked(s.queue, I) \in Seq(T)
  BY <1>1, <1>2, <1>3, PickedProperties
<1>6. QED
  BY <1>4, <1>5 DEF T

(* What preloadNeighbors hands to processPreloadQueue: photos far away are *)
(* dropped and unmarked, new tasks are marked, old ones are still marked.  *)
LEMMA QueuedFine ==
    ASSUME mainIdx' \in Places, NEW s, Fine(s),
           NEW near, near = s.full \ Evicted(s.full),
           NEW marks, marks = s.marks \ Evicted(s.full),
           NEW new, new = {h \in Places : InWindow(h) /\ h # mainIdx'} \ (near \cup marks)
    PROVE  Fine(Queued(s, near, marks \cup new, OfEachPhoto(Sorted(Tasks(new) \o Wanted(s.queue, near)))))
<1> DEFINE G      == {q \in Task : q.handle \in marks \cup new}
           tasks  == Tasks(new) \o Wanted(s.queue, near)
           sorted == Sorted(tasks)
           queue  == OfEachPhoto(sorted)
<1>1. tasks \in Seq(G)
  <2>1. Tasks(new) \in Seq({q \in Task : q.handle \in new})
    BY TasksType
  <2>2. Wanted(s.queue, near) \in Seq({q \in Task : q.handle \in marks})
    BY WantedMarked
  <2>3. Tasks(new) \in Seq(G) /\ Wanted(s.queue, near) \in Seq(G)
    <3>1. {q \in Task : q.handle \in new} \subseteq G /\ {q \in Task : q.handle \in marks} \subseteq G
      OBVIOUS
    <3> HIDE DEF G
    <3>2. QED
      BY <2>1, <2>2, <3>1, SeqMonotonic
  <2> HIDE DEF G
  <2>4. QED
    BY <2>3, ConcatProperties
<1>2. \A q \in G : q.priority \in Int
  BY DEF Task
<1>3. sorted \in Seq(G)
  <2> HIDE DEF G, tasks
  <2>1. QED
    BY <1>1, <1>2, SortedType
<1> HIDE DEF sorted
<1>4. /\ queue \in Seq(G)
      /\ \A i, j \in DOMAIN queue : queue[i].handle = queue[j].handle => i = j
  <2> HIDE DEF G
  <2>1. QED
    BY <1>3, OfEachPhotoFine
<1> HIDE DEF queue
<1>5. queue \in Seq(Task) /\ \A q \in ToSet(queue) : q.handle \in marks \cup new
  <2>1. G \subseteq Task
    OBVIOUS
  <2>2. \A q \in ToSet(queue) : q \in G
    <3> HIDE DEF G
    <3>1. QED
      BY <1>4, ElementOfSeq, LenProperties DEF ToSet
  <2>3. queue \in Seq(Task)
    <3> HIDE DEF G
    <3>1. QED
      BY <1>4, <2>1, SeqMonotonic
  <2>4. QED
    BY <2>2, <2>3
<1>6. Marked(queue, marks \cup new)
  BY <1>4, <1>5 DEF Marked
<1>7. near \subseteq Places /\ marks \cup new \subseteq Places
  BY DEF Fine
<1>8. Fine(Queued(s, near, marks \cup new, queue))
  <2> DEFINE all == marks \cup new
  <2>1. Marked(queue, all) /\ all \subseteq Places
    BY <1>6, <1>7
  <2> HIDE DEF all
  <2>2. Fine(Queued(s, near, all, queue))
    BY <1>5, <1>7, <2>1 DEF Fine, Queued
  <2>3. QED
    BY <2>2 DEF all
<1>9. QED
  BY <1>8 DEF queue, sorted

LEMMA PreloadNeighborsFine ==
    ASSUME QueueInv, mainIdx' \in Places, NEW s, Fine(s), PreloadNeighbors(s)
    PROVE  QueueInv'
<1>1. CASE Keep(s) /\ UNCHANGED <<preloadActive, loop>>
  BY <1>1, KeepFine DEF QueueInv
<1>2. CASE ~(Keep(s) /\ UNCHANGED <<preloadActive, loop>>)
  <2>1. PICK near \in {s.full \ Evicted(s.full)}, marks \in {s.marks \ Evicted(s.full)} :
        \E new \in {{h \in Places : InWindow(h) /\ h # mainIdx'} \ (near \cup marks)} :
        \E sorted \in {Sorted(Tasks(new) \o Wanted(s.queue, near))} :
        \E t \in {Queued(s, near, marks \cup new, OfEachPhoto(sorted))} :
           ProcessIf(~preloadActive /\ ~loadingPaused', t)
    BY <1>2, Zenon DEF PreloadNeighbors
  <2>2. PICK new \in {{h \in Places : InWindow(h) /\ h # mainIdx'} \ (near \cup marks)} :
        \E sorted \in {Sorted(Tasks(new) \o Wanted(s.queue, near))} :
        \E t \in {Queued(s, near, marks \cup new, OfEachPhoto(sorted))} :
           ProcessIf(~preloadActive /\ ~loadingPaused', t)
    BY <2>1
  <2>3. PICK sorted \in {Sorted(Tasks(new) \o Wanted(s.queue, near))} :
        \E t \in {Queued(s, near, marks \cup new, OfEachPhoto(sorted))} :
           ProcessIf(~preloadActive /\ ~loadingPaused', t)
    BY <2>2
  <2>4. PICK t \in {Queued(s, near, marks \cup new, OfEachPhoto(sorted))} :
           ProcessIf(~preloadActive /\ ~loadingPaused', t)
    BY <2>3
  <2>5. Fine(t)
    <3>1. /\ near = s.full \ Evicted(s.full) /\ marks = s.marks \ Evicted(s.full)
          /\ new = {h \in Places : InWindow(h) /\ h # mainIdx'} \ (near \cup marks)
          /\ sorted = Sorted(Tasks(new) \o Wanted(s.queue, near))
          /\ t = Queued(s, near, marks \cup new, OfEachPhoto(sorted))
      BY <2>1, <2>2, <2>3, <2>4
    <3>2. QED
      BY <3>1, QueuedFine
  <2>6. QED
    BY <2>4, <2>5, ProcessIfFine
<1>3. QED
  BY <1>1, <1>2

LEMMA ScheduleFine ==
    ASSUME QueueInv, mainIdx' \in Places, NEW s, Fine(s), Schedule(s)
    PROVE  QueueInv' /\ (stable \in Places \cup {0} => stable' \in Places \cup {0})
<1>1. CASE Keep(s) /\ UNCHANGED <<preloadActive, loop>>
  <2>1. QueueInv'
    BY <1>1, KeepFine DEF QueueInv
  <2>2. QED
    BY <2>1 DEF Schedule
<1>2. CASE PreloadNeighbors(s)
  BY <1>2, PreloadNeighborsFine DEF Schedule
<1>3. QED
  BY <1>1, <1>2 DEF Schedule
-----------------------------------------------------------------------------
LEMMA WithoutFine == ASSUME Fine(Now), NEW t PROVE Fine(Without(t))
<1> DEFINE rest == Now.timers \ {t}
<1>1. rest \subseteq Timers
  BY DEF Fine
<1>2. Without(t) = [Now EXCEPT !.timers = rest]
  BY DEF Without
<1> HIDE DEF rest
<1>3. Fine([Now EXCEPT !.timers = rest])
  BY <1>1 DEF Fine
<1>4. QED
  BY <1>2, <1>3

(* A handler that leaves the queue and the loops alone but for the timers. *)
LEMMA AsideFine ==
    ASSUME QueueInv, UNCHANGED <<photo, preload>> \/ UNCHANGED <<fullResMap, loadingHandle, preload>>,
           timers' \subseteq Timers
    PROVE  QueueInv'
<1> DEFINE after == timers'
<1>1. /\ fullResMap' = fullResMap /\ loadingHandle' = loadingHandle
      /\ preloadedHandles' = preloadedHandles /\ preloadQueue' = preloadQueue
      /\ preloadActive' = preloadActive /\ loop' = loop
  BY DEF photo, preload
<1>2. Now' = [full |-> fullResMap, marks |-> preloadedHandles, queue |-> preloadQueue,
              timers |-> timers', loading |-> loadingHandle]
  BY <1>1 DEF Now
<1>3. Fine(Now)'
  BY <1>2 DEF QueueInv, Fine, Now
<1>4. QED
  BY <1>1, <1>3 DEF QueueInv

(* loadFullPhoto has returned to loadFullRes.                              *)
LEMMA LoadedFine == ASSUME QueueInv, RestInv, Loaded PROVE QueueInv'
<1>1. mainIdx' \in Places
  BY DEF Loaded, RestInv
<1>2. PICK brought \in BOOLEAN, kick \in {{}, {"kick"}} :
      \E s \in {[Now EXCEPT !.full = WithPhoto(brought, loadingHandle), !.loading = 0,
                            !.timers = @ \cup kick]} :
         PreloadNeighbors(s) \/ (Keep(s) /\ UNCHANGED <<preloadActive, loop>>)
  BY DEF Loaded
<1>3. PICK s \in {[Now EXCEPT !.full = WithPhoto(brought, loadingHandle), !.loading = 0,
                              !.timers = @ \cup kick]} :
         PreloadNeighbors(s) \/ (Keep(s) /\ UNCHANGED <<preloadActive, loop>>)
  BY <1>2
<1>4. Fine(s)
  <2> DEFINE full == WithPhoto(brought, loadingHandle)
             due  == Now.timers \cup kick
  <2>1. loadingHandle \in Places /\ fullResMap \subseteq Places
    BY DEF QueueInv, Fine, Now, Loaded
  <2>2. full \subseteq Places
    BY <2>1 DEF WithPhoto
  <2>3. due \subseteq Timers
    BY <1>2 DEF QueueInv, Fine, Timers
  <2>4. s = [Now EXCEPT !.full = full, !.loading = 0, !.timers = due]
    BY <1>3
  <2> HIDE DEF full, due
  <2>5. Fine([Now EXCEPT !.full = full, !.loading = 0, !.timers = due])
    <3>1. ASSUME NEW r, r = [Now EXCEPT !.full = full, !.loading = 0, !.timers = due]
          PROVE  /\ r = [full |-> r.full, marks |-> r.marks, queue |-> r.queue, timers |-> r.timers,
                          loading |-> r.loading]
                 /\ r.full = full /\ r.marks = Now.marks /\ r.queue = Now.queue
                 /\ r.timers = due /\ r.loading = 0
      BY <3>1 DEF Now
    <3>2. Now.marks \subseteq Places /\ Now.queue \in Seq(Task) /\ Marked(Now.queue, Now.marks)
      BY DEF QueueInv, Fine
    <3>3. ASSUME NEW r, r = [Now EXCEPT !.full = full, !.loading = 0, !.timers = due]
          PROVE  Fine(r)
      BY <2>2, <2>3, <3>1, <3>2, <3>3 DEF Fine
    <3>4. QED
      BY <3>3
  <2>6. QED
    BY <2>4, <2>5
<1>5. CASE PreloadNeighbors(s)
  BY <1>1, <1>4, <1>5, PreloadNeighborsFine
<1>6. CASE Keep(s) /\ UNCHANGED <<preloadActive, loop>>
  BY <1>4, <1>6, KeepFine DEF QueueInv
<1>7. QED
  BY <1>3, <1>5, <1>6

(* loadFullPhoto has returned to the loop.                                 *)
LEMMA PreloadedFine ==
    ASSUME QueueInv, RestInv, NEW l \in Loops, Preloaded(l)
    PROVE  QueueInv'
<1>1. PICK brought \in BOOLEAN : fullResMap' = WithPhoto(brought, loop[l].handle)
  BY DEF Preloaded
<1>2. loop[l] \in Shape /\ loop[l].at = "loading"
  BY DEF QueueInv, Preloaded
<1>3. loop[l].handle \in Places
  BY <1>2 DEF Shape, Off
<1>4. Fine(Now)'
  <2> DEFINE full == WithPhoto(brought, loop[l].handle)
  <2>1. full \subseteq Places
    BY <1>3 DEF WithPhoto, QueueInv, Fine, Now
  <2>2. fullResMap' = full
    BY <1>1
  <2> HIDE DEF full
  <2>3. Now' = [Now EXCEPT !.full = full]
    BY <2>2 DEF Now, Preloaded
  <2>4. ASSUME NEW now, Fine(now) PROVE Fine([now EXCEPT !.full = full])
    BY <2>1, <2>4 DEF Fine
  <2>5. Fine([Now EXCEPT !.full = full])
    BY <2>4 DEF QueueInv
  <2>6. QED
    BY <2>3, <2>5 DEF Fine
<1>5. loop' \in [Loops -> Shape] /\ preloadActive' \in BOOLEAN
  BY DEF Preloaded, QueueInv, Shape
<1>6. QED
  BY <1>4, <1>5 DEF QueueInv

LEMMA StepFine == QueueInv /\ RestInv /\ [Next]_vars => QueueInv' /\ RestInv'
<1> SUFFICES ASSUME QueueInv, RestInv, [Next]_vars PROVE QueueInv' /\ RestInv'
  OBVIOUS
<1>0. Fine(Now) /\ \A t : Fine(Without(t))
  BY WithoutFine DEF QueueInv
<1>1. CASE UNCHANGED vars
  <2>1. timers' \subseteq Timers
    BY <1>0, <1>1 DEF vars, Fine, Now
  <2>2. QueueInv'
    BY <1>1, <2>1, AsideFine DEF vars
  <2>3. QED
    BY <1>1, <2>2 DEF vars, photo, preload, motion, RestInv
<1>2. CASE TimerFires
  <2>1. mainIdx' = mainIdx /\ mainIdx' \in Places
    BY <1>2 DEF TimerFires, StableFires, OpenFires, KickFires, RetryFires, PauseFires, RestInv
  <2>2. CASE StableFires
    <3>1. stable \in Places /\ LoadFullRes(stable, Now)
      BY <2>2 DEF StableFires, RestInv
    <3>2. Fine(Now)'
      BY <1>0, <3>1, LoadFine
    <3>3. QueueInv'
      BY <2>2, <3>2 DEF StableFires, QueueInv
    <3>4. QED
      BY <2>1, <2>2, <3>3 DEF StableFires, RestInv, motion
  <2>3. CASE OpenFires
    <3>1. QueueInv' /\ stable' \in Places \cup {0}
      BY <1>0, <2>1, <2>3, ScheduleFine DEF OpenFires, RestInv
    <3>2. QED
      BY <2>1, <2>3, <3>1 DEF OpenFires, RestInv, motion
  <2>4. CASE KickFires
    <3>1. QueueInv'
      BY <1>0, <2>1, <2>4, ProcessFine DEF KickFires
    <3>2. QED
      BY <2>1, <2>4, <3>1 DEF KickFires, RestInv, motion
  <2>5. CASE RetryFires
    <3>1. QueueInv'
      BY <1>0, <2>1, <2>5, ProcessIfFine DEF RetryFires
    <3>2. QED
      BY <2>1, <2>5, <3>1 DEF RetryFires, RestInv, motion
  <2>6. CASE PauseFires
    <3>1. QueueInv'
      BY <1>0, <2>1, <2>6, ProcessIfFine DEF PauseFires
    <3>2. QED
      BY <2>1, <2>6, <3>1 DEF PauseFires, RestInv, motion
  <2>7. QED
    BY <1>2, <2>2, <2>3, <2>4, <2>5, <2>6 DEF TimerFires
<1>3. CASE Loaded
  <2>1. QueueInv'
    BY <1>3, LoadedFine
  <2>2. QED
    BY <1>3, <2>1 DEF Loaded, RestInv, motion
<1>4. ASSUME NEW l \in Loops, LoopStep(l) PROVE QueueInv' /\ RestInv'
  <2>1. CASE Preloaded(l)
    <3>1. QueueInv'
      BY <2>1, PreloadedFine
    <3>2. QED
      BY <2>1, <3>1 DEF Preloaded, RestInv, motion
  <2>2. CASE Yielded(l)
    <3>1. mainIdx' \in Places
      BY <2>2 DEF Yielded, RestInv
    <3>2. QueueInv'
      BY <1>0, <2>2, <3>1, DrainFine DEF Yielded
    <3>3. QED
      BY <2>2, <3>1, <3>2 DEF Yielded, RestInv, motion
  <2>3. QED
    BY <1>4, <2>1, <2>2 DEF LoopStep
<1>5. CASE Settle
  <2>1. mainIdx' \in Places
    BY <1>5 DEF Settle, RestInv
  <2>2. QueueInv' /\ stable' \in Places \cup {0}
    BY <1>0, <1>5, <2>1, ScheduleFine DEF Settle, RestInv
  <2>3. QED
    BY <1>5, <2>1, <2>2 DEF Settle, RestInv
<1>6. ASSUME NEW i \in Places, MainChange(i) PROVE QueueInv' /\ RestInv'
  <2>1. mainIdx' \in Places
    BY <1>6 DEF MainChange
  <2>2. QueueInv' /\ stable' \in Places \cup {0}
    <3>1. CASE UNCHANGED <<stable, fullResMap, loadingHandle, preload, timers>>
      <4>1. timers' \subseteq Timers
        BY <1>0, <3>1 DEF Fine, Now
      <4>2. QED
        BY <3>1, <4>1, AsideFine DEF RestInv
    <3>2. CASE Schedule(Now)
      BY <1>0, <2>1, <3>2, ScheduleFine DEF RestInv
    <3>3. QED
      BY <1>6, <3>1, <3>2 DEF MainChange
  <2>3. QED
    BY <1>6, <2>1, <2>2 DEF MainChange, RestInv
<1>7. ASSUME NEW i \in Places, ThumbDrag(i) PROVE QueueInv' /\ RestInv'
  <2>1. timers' \subseteq Timers
    BY <1>0, <1>7 DEF ThumbDrag, Fine, Now
  <2>2. QueueInv'
    BY <1>7, <2>1, AsideFine DEF ThumbDrag
  <2>3. QED
    BY <1>7, <2>2 DEF ThumbDrag, RestInv
<1>8. CASE ScheduleResumePreloading \/ PausePreloading \/ ScanEnds \/ Close
  <2>1. timers' \subseteq Timers
    <3>1. timers \subseteq Timers
      BY <1>0 DEF Fine, Now
    <3>2. QED
      BY <1>8, <3>1 DEF ScheduleResumePreloading, PausePreloading, ScanEnds, Close, Timers
  <2>2. QueueInv'
    BY <1>8, <2>1, AsideFine DEF ScheduleResumePreloading, PausePreloading, ScanEnds, Close
  <2>3. RestInv'
    <3>1. CASE ScheduleResumePreloading
      BY <3>1 DEF ScheduleResumePreloading, RestInv, photo
    <3>2. CASE PausePreloading
      BY <3>2 DEF PausePreloading, RestInv, photo
    <3>3. CASE ScanEnds
      BY <3>3 DEF ScanEnds, RestInv, photo, motion
    <3>4. CASE Close
      BY <3>4 DEF Close, RestInv, photo
    <3>5. QED
      BY <1>8, <3>1, <3>2, <3>3, <3>4
  <2>4. QED
    BY <2>2, <2>3
<1>9. QED
  BY <1>1, <1>2, <1>3, <1>4, <1>5, <1>6, <1>7, <1>8 DEF Next, MotionEnds

LEMMA InitFine == Init => QueueInv /\ RestInv
<1> SUFFICES ASSUME Init PROVE QueueInv /\ RestInv
  OBVIOUS
<1>1. mainIdx \in Places
  BY ViewerAssumption DEF Init, Places
<1>2. <<>> \in Seq(Task) /\ DOMAIN <<>> = 1..0 /\ Len(<<>>) = 0
  BY EmptySeq
<1>3. Marked(<<>>, {})
  BY <1>2 DEF Marked, ToSet
<1>4. Now = [full |-> {}, marks |-> {}, queue |-> <<>>, timers |-> {"open"}, loading |-> 0]
  BY DEF Init, Now
<1>5. Fine(Now)
  <2> DEFINE none == <<>>
  <2>1. none \in Seq(Task) /\ Marked(none, {})
    BY <1>2, <1>3
  <2> HIDE DEF none
  <2>2. Fine([full |-> {}, marks |-> {}, queue |-> none, timers |-> {"open"}, loading |-> 0])
    BY <2>1 DEF Fine, Timers
  <2>3. QED
    BY <1>4, <2>2 DEF none
<1>6. QED
  BY <1>1, <1>5, OffShape DEF Init, QueueInv, RestInv

LEMMA Safe == Spec => [](QueueInv /\ RestInv)
BY InitFine, StepFine, PTL DEF Spec

(* Every variable of the viewer keeps its type, in particular the tasks'   *)
(* priorities stay between one and the width of the window.                *)
THEOREM TypeCorrect == Spec => []TypeOK
<1>1. QueueInv /\ RestInv => TypeOK
  <2> SUFFICES ASSUME QueueInv, RestInv PROVE TypeOK
    OBVIOUS
  <2>1. /\ fullResMap \subseteq Places /\ preloadedHandles \subseteq Places
        /\ preloadQueue \in Seq([handle : Places, priority : 1..Window])
        /\ timers \subseteq {"open", "pause", "kick", "retry"} /\ loadingHandle \in Places \cup {0}
    BY DEF QueueInv, Fine, Now, Task, Timers
  <2>2. Shape \subseteq [at : {"off", "loading", "yielding"}, handle : Places \cup {0}]
    BY DEF Shape, Off
  <2>3. loop \in [Loops -> [at : {"off", "loading", "yielding"}, handle : Places \cup {0}]]
    BY <2>2 DEF QueueInv
  <2>4. {preloadActive, loadingPaused, inertia, settling, touching, scanning, closed} \subseteq BOOLEAN
    BY DEF QueueInv, RestInv
  <2>5. QED
    BY <2>1, <2>3, <2>4 DEF RestInv, TypeOK
<1>2. QED
  BY <1>1, Safe, PTL

(* No photo is twice in the queue, and every photo in it is marked: one    *)
(* that is not could be queued again while its task waits.                 *)
THEOREM TasksAreMarked == Spec => []QueueMarked
<1>1. QueueInv => QueueMarked
  BY DEF QueueInv, Fine, Marked, Now, QueueMarked
<1>2. QED
  BY <1>1, Safe, PTL
=============================================================================
