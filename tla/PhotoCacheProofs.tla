--------------------------- MODULE PhotoCacheProofs ---------------------------
(***************************************************************************)
(* Proofs about the cache of full photos and the preloading of neighbours, *)
(* for any photos, lists, budget, loads and loops: the types, that a mark  *)
(* is never left behind (MarkedIsFetched), that no loop begins a transfer  *)
(* while the viewer is open (SuspendedStartsNothing), that the bytes       *)
(* counted are those of the photos cached and within the budget            *)
(* (BytesAccounted), and that the furthest photos are evicted              *)
(* (FurthestGoFirst).                                                      *)
(***************************************************************************)
EXTENDS PhotoCache, DataLemmas

(* A load that waits or fetches.                                           *)
Busy == [at : {"waiting", "fetching"}, handle : Handles, count : 0..Tries - 1]

(* A loop that fetches.                                                    *)
Running == [handle : Handles, queue : Seq(Nat)]

(* The type invariant in two parts: what the transfers go by, the cache.   *)
ControlOK ==
    /\ preloadingSet \subseteq Handles
    /\ preloadPhotos \in Lists \cup {<<>>}
    /\ detailIndex \in Nat /\ prevDetailIndex \in Nat /\ timer \in Nat
    /\ preloading \in BOOLEAN /\ suspended \in BOOLEAN
    /\ loader \in [Loaders -> {Resting} \cup Busy]
    /\ loop \in [Loops -> {Over} \cup Running]

(* What may become of a loop and the marks: it ends, or fetches another    *)
(* photo.                                                                  *)
Ends(l, marked) ==
    loop' = [loop EXCEPT ![l] = Over] /\ preloadingSet' = marked /\ preloading' = FALSE
Goes(l, marked) ==
    \E h \in Handles, queue \in Seq(Nat) :
       /\ loop' = [loop EXCEPT ![l] = [handle |-> h, queue |-> queue]]
       /\ preloadingSet' = marked \cup {h} /\ preloading' = TRUE

LEMMA PhotosType == ASSUME ControlOK PROVE preloadPhotos \in Seq(Handles)
<1>1. preloadPhotos \in Lists \/ preloadPhotos = <<>>
  BY DEF ControlOK
<1>2. <<>> \in Seq(Handles)
  BY EmptySeq
<1>3. QED
  BY <1>1, <1>2, CacheAssumption

LEMMA LoopType ==
    ASSUME ControlOK, NEW l \in Loops, Preloaded(l)
    PROVE  /\ loop[l].handle \in Handles /\ loop[l].queue \in Seq(Nat)
           /\ preloadingSet \subseteq Handles
BY DEF ControlOK, Preloaded, Running

LEMMA QueueType ==
    ASSUME ControlOK, NEW total \in Nat
    PROVE  Queue(total) \in Seq(Nat)
<1> DEFINE place(i) == LET d == (i + 1) \div 2
                       IN IF i % 2 = 1 THEN detailIndex + d * Direction
                                       ELSE detailIndex - d * Direction
           places == [i \in 1..2 * Radius |-> place(i)]
           I      == {i \in 1..2 * Radius : place(i) \in 1..total}
<1>1. 2 * Radius \in Nat
  BY CacheAssumption
<1>2. I \subseteq 1..2 * Radius /\ \A i \in I : places[i] \in Nat
  OBVIOUS
<1>3. Queue(total) = Picked(places, I)
  BY DEF Queue
<1> DEFINE n == 2 * Radius
<1> HIDE DEF place, places, I, n
<1>4. Picked(places, I) \in Seq(Nat)
  <2>1. n \in Nat /\ I \subseteq 1..n /\ \A i \in I : places[i] \in Nat
    BY <1>1, <1>2 DEF n
  <2>2. QED
    BY <2>1, PickedProperties
<1>5. QED
  BY <1>3, <1>4

LEMMA AdvanceDoes ==
    ASSUME ControlOK, NEW l \in Loops, NEW queue \in Seq(Nat), NEW on, NEW marked,
           Advance(l, queue, on, marked)
    PROVE  Ends(l, marked) \/ (~suspended /\ Goes(l, marked))
<1> DEFINE next == NextPlace(queue, marked)
           Test(p) == /\ p \in DOMAIN preloadPhotos
                      /\ preloadPhotos[p] \notin ToSet(cached') \cup marked
           I == {i \in 1..Len(queue) : Test(queue[i])}
<1>1. CASE Finish(l, marked)
  BY <1>1 DEF Finish, Ends
<1>2. CASE ~suspended /\ next # 0 /\ Fetching(l, queue, next, marked)
  <2>1. next = IF I # {} THEN Min(I) ELSE 0
    BY DEF NextPlace, SelectInSeq
  <2>2. I \subseteq 1..Len(queue)
    OBVIOUS
  <2>3. next \in I /\ next \in 0..Len(queue)
    <3> HIDE DEF next, I
    <3>1. QED
      BY <1>2, <2>1, <2>2, SelectProperties
  <2>4. queue[next] \in DOMAIN preloadPhotos
    BY <2>3
  <2>5. preloadPhotos[queue[next]] \in Handles
    BY <2>4, PhotosType, ElementOfSeq, LenProperties
  <2>6. SubSeq(queue, next + 1, Len(queue)) \in Seq(Nat)
    <3>1. next \in 1..Len(queue)
      BY <2>3
    <3>2. QED
      BY <3>1, LenProperties, SubSeqProperties
  <2> HIDE DEF next
  <2>7. Goes(l, marked)
    BY <1>2, <2>5, <2>6 DEF Fetching, Goes
  <2>8. QED
    BY <1>2, <2>7
<1>3. QED
  BY <1>1, <1>2 DEF Advance
-----------------------------------------------------------------------------
LEMMA ControlInit == Init => ControlOK
<1> SUFFICES ASSUME Init PROVE ControlOK
  OBVIOUS
<1>1. loader = [c \in Loaders |-> Resting] /\ loop = [l \in Loops |-> Over]
  BY DEF Init
<1>2. loader \in [Loaders -> {Resting} \cup Busy]
  BY <1>1
<1>3. loop \in [Loops -> {Over} \cup Running]
  BY <1>1
<1>4. QED
  BY <1>2, <1>3 DEF Init, ControlOK

LEMMA LoopSteps ==
    ASSUME ControlOK, NEW l \in Loops, NEW marked, marked \subseteq Handles,
           Ends(l, marked) \/ Goes(l, marked)
    PROVE  /\ loop' \in [Loops -> {Over} \cup Running]
           /\ preloadingSet' \subseteq Handles /\ preloading' \in BOOLEAN
<1>1. loop \in [Loops -> {Over} \cup Running]
  BY DEF ControlOK
<1>2. CASE Ends(l, marked)
  BY <1>1, <1>2 DEF Ends
<1>3. CASE Goes(l, marked)
  BY <1>1, <1>3 DEF Goes, Running
<1>4. QED
  BY <1>2, <1>3

LEMMA ControlStep == ControlOK /\ [Next]_vars => ControlOK'
<1> SUFFICES ASSUME ControlOK, [Next]_vars PROVE ControlOK'
  OBVIOUS
<1>1. ASSUME NEW c \in Loaders, NEW h \in Handles, Load(c, h) PROVE ControlOK'
  <2>1. [at |-> "waiting", handle |-> h, count |-> 0] \in Busy
    BY CacheAssumption DEF Busy
  <2>2. [at |-> "fetching", handle |-> h, count |-> 0] \in Busy
    BY CacheAssumption DEF Busy
  <2>3. QED
    BY <1>1, <2>1, <2>2 DEF Load, ControlOK, detail
<1>2. ASSUME NEW c \in Loaders, Waited(c) PROVE ControlOK'
  <2> DEFINE h == loader[c].handle
             n == loader[c].count + 1
  <2>1. loader[c] \in Busy /\ h \in Handles
    BY <1>2 DEF Waited, ControlOK, Resting, Busy
  <2>2. UNCHANGED <<detail, preloading, suspended, timer, loop>>
    BY <1>2 DEF Waited
  <2>3. CASE UNCHANGED preloadingSet /\ loader' = [loader EXCEPT ![c] = Resting]
    BY <2>2, <2>3 DEF ControlOK, detail
  <2>4. CASE UNCHANGED preloadingSet /\ n < Tries /\ loader' = [loader EXCEPT ![c].count = n]
    <3>1. [loader[c] EXCEPT !.count = n] \in Busy
      BY <2>1, <2>4, CacheAssumption DEF Busy
    <3>2. loader' = [loader EXCEPT ![c] = [loader[c] EXCEPT !.count = n]]
      BY <2>4 DEF ControlOK
    <3>3. QED
      BY <2>2, <2>4, <3>1, <3>2 DEF ControlOK, detail
  <2>5. CASE /\ loader' = [loader EXCEPT ![c] = [at |-> "fetching", handle |-> h, count |-> 0]]
             /\ preloadingSet' = preloadingSet \cup {h}
    <3>1. [at |-> "fetching", handle |-> h, count |-> 0] \in Busy
      BY <2>1, CacheAssumption DEF Busy
    <3> HIDE DEF h
    <3>2. QED
      BY <2>1, <2>2, <2>5, <3>1 DEF ControlOK, detail
  <2>6. QED
    BY <1>2, <2>3, <2>4, <2>5 DEF Waited
<1>3. ASSUME NEW c \in Loaders, Fetched(c) PROVE ControlOK'
  BY <1>3 DEF Fetched, Answered, ControlOK, detail
<1>4. ASSUME NEW l \in Loops, Preloaded(l) PROVE ControlOK'
  <2>1. loop[l].queue \in Seq(Nat) /\ preloadingSet \ {loop[l].handle} \subseteq Handles
    BY <1>4, LoopType
  <2>2. Advance(l, loop[l].queue, preloading, preloadingSet \ {loop[l].handle})
    BY <1>4 DEF Preloaded
  <2>3. Ends(l, preloadingSet \ {loop[l].handle}) \/ Goes(l, preloadingSet \ {loop[l].handle})
    BY <2>1, <2>2, AdvanceDoes
  <2>4. UNCHANGED <<detail, suspended, timer, loader>>
    BY <1>4 DEF Preloaded
  <2>5. QED
    BY <2>1, <2>3, <2>4, LoopSteps DEF ControlOK, detail
<1>5. CASE PreloadAdjacent
  <2>1. timer' \in Nat /\ UNCHANGED <<detail, suspended, loader>>
    BY <1>5 DEF PreloadAdjacent
  <2>2. \/ UNCHANGED <<preloadingSet, preloading, loop>>
        \/ \E l \in Loops : Advance(l, Queue(timer), TRUE, preloadingSet)
    BY <1>5 DEF PreloadAdjacent
  <2>3. Queue(timer) \in Seq(Nat)
    BY QueueType DEF ControlOK
  <2>4. ASSUME NEW l \in Loops, Advance(l, Queue(timer), TRUE, preloadingSet)
        PROVE  Ends(l, preloadingSet) \/ Goes(l, preloadingSet)
    BY <2>3, <2>4, AdvanceDoes
  <2>5. ASSUME NEW l \in Loops, Advance(l, Queue(timer), TRUE, preloadingSet)
        PROVE  ControlOK'
    BY <2>1, <2>4, <2>5, LoopSteps DEF ControlOK, detail
  <2>6. QED
    BY <2>1, <2>2, <2>5 DEF ControlOK, detail
<1>6. ASSUME NEW photos \in Lists, NEW i \in DOMAIN photos, SetDetailIndex(i, photos)
      PROVE  ControlOK'
  <2>1. i \in Nat /\ Len(photos) \in Nat
    BY CacheAssumption, LenProperties
  <2>2. QED
    BY <1>6, <2>1 DEF SetDetailIndex, ControlOK
<1>7. CASE CancelPreload
  BY <1>7 DEF CancelPreload, ControlOK, detail
<1>8. CASE SuspendNeighborPreload
  BY <1>8 DEF SuspendNeighborPreload, ControlOK, detail
<1>9. CASE ResumeNeighborPreload
  BY <1>9, PhotosType, LenProperties DEF ResumeNeighborPreload, ControlOK, detail
<1>10. CASE ClearFullCache
  BY <1>10 DEF ClearFullCache, ControlOK
<1>11. CASE UNCHANGED vars
  BY <1>11 DEF vars, detail, ControlOK
<1>12. QED
  BY <1>1, <1>2, <1>3, <1>4, <1>5, <1>6, <1>7, <1>8, <1>9, <1>10, <1>11 DEF Next
-----------------------------------------------------------------------------
(* MarkedIsFetched without its sum: somebody fetches what is marked.       *)
FetchedBy(c, h) == loader[c].at = "fetching" /\ loader[c].handle = h
BeingFetched(h) == (\E c \in Loaders : FetchedBy(c, h)) \/ \E l \in Loops : loop[l].handle = h
MarkInv == \A h \in preloadingSet : BeingFetched(h)

LEMMA FetchedCounts == ASSUME NEW h, BeingFetched(h) PROVE TransfersOf(h) > 0
<1>1. IsFiniteSet(LoadersOf(h)) /\ IsFiniteSet(LoopsOf(h))
  BY CacheAssumption, FS_Subset DEF LoadersOf, LoopsOf
<1>2. Cardinality(LoadersOf(h)) \in Nat /\ Cardinality(LoopsOf(h)) \in Nat
  BY <1>1, FS_CardinalityType
<1>3. LoadersOf(h) # {} \/ LoopsOf(h) # {}
  BY DEF BeingFetched, FetchedBy, LoadersOf, LoopsOf
<1>4. Cardinality(LoadersOf(h)) # 0 \/ Cardinality(LoopsOf(h)) # 0
  BY <1>1, <1>3, FS_EmptySet
<1>5. QED
  BY <1>2, <1>4 DEF TransfersOf

(* One loop turns to another photo or ends; the photo it leaves is no      *)
(* longer marked.                                                          *)
LEMMA LoopMarks ==
    ASSUME ControlOK, MarkInv, NEW l \in Loops, UNCHANGED loader, NEW marked,
           marked \subseteq preloadingSet \ {loop[l].handle}, Ends(l, marked) \/ Goes(l, marked)
    PROVE  MarkInv'
<1>1. ASSUME NEW h \in marked PROVE BeingFetched(h)'
  <2>1. \A k \in Loops \ {l} : loop'[k] = loop[k]
    BY DEF ControlOK, Ends, Goes
  <2>2. h # loop[l].handle /\ BeingFetched(h)
    BY <1>1 DEF MarkInv
  <2>3. QED
    BY <2>1, <2>2 DEF BeingFetched, FetchedBy
<1>2. CASE Ends(l, marked)
  BY <1>1, <1>2 DEF Ends, MarkInv
<1>3. CASE Goes(l, marked)
  <2>1. PICK h \in Handles, queue \in Seq(Nat) :
           /\ loop' = [loop EXCEPT ![l] = [handle |-> h, queue |-> queue]]
           /\ preloadingSet' = marked \cup {h}
    BY <1>3 DEF Goes
  <2>2. loop'[l].handle = h
    BY <2>1 DEF ControlOK
  <2>3. BeingFetched(h)'
    BY <2>2 DEF BeingFetched
  <2>4. QED
    BY <1>1, <2>1, <2>3 DEF MarkInv
<1>4. QED
  BY <1>2, <1>3

(* One load changes, and what it leaves is no longer marked.               *)
LEMMA LoadMarks ==
    ASSUME ControlOK, MarkInv, NEW c \in Loaders, UNCHANGED loop, NEW new,
           loader' = [loader EXCEPT ![c] = new],
           \A h \in preloadingSet' : \/ new.at = "fetching" /\ new.handle = h
                                     \/ h \in preloadingSet /\ ~FetchedBy(c, h)
    PROVE  MarkInv'
<1>1. SUFFICES ASSUME NEW h \in preloadingSet' PROVE BeingFetched(h)'
  BY DEF MarkInv
<1>2. loader'[c] = new /\ \A d \in Loaders \ {c} : loader'[d] = loader[d]
  BY DEF ControlOK
<1>3. CASE new.at = "fetching" /\ new.handle = h
  BY <1>2, <1>3 DEF BeingFetched, FetchedBy
<1>4. CASE h \in preloadingSet /\ ~FetchedBy(c, h)
  BY <1>2, <1>4 DEF MarkInv, BeingFetched, FetchedBy
<1>5. QED
  BY <1>1, <1>3, <1>4

LEMMA MarkStep == ControlOK /\ MarkInv /\ [Next]_vars => MarkInv'
<1> SUFFICES ASSUME ControlOK, MarkInv, [Next]_vars PROVE MarkInv'
  OBVIOUS
<1>1. ASSUME NEW c \in Loaders, NEW h \in Handles, Load(c, h) PROVE MarkInv'
  <2> DEFINE waits   == [at |-> "waiting", handle |-> h, count |-> 0]
             fetches == [at |-> "fetching", handle |-> h, count |-> 0]
  <2>1. UNCHANGED loop /\ \A g : ~FetchedBy(c, g)
    BY <1>1 DEF Load, FetchedBy, Resting
  <2>2. \/ UNCHANGED preloadingSet /\ loader' = [loader EXCEPT ![c] = waits]
        \/ preloadingSet' = preloadingSet \cup {h} /\ loader' = [loader EXCEPT ![c] = fetches]
    BY <1>1 DEF Load
  <2>3. fetches.at = "fetching" /\ fetches.handle = h
    OBVIOUS
  <2> HIDE DEF waits, fetches
  <2>4. QED
    BY <2>1, <2>2, <2>3, LoadMarks
<1>2. ASSUME NEW c \in Loaders, Waited(c) PROVE MarkInv'
  <2> DEFINE h       == loader[c].handle
             counts  == [loader[c] EXCEPT !.count = loader[c].count + 1]
             fetches == [at |-> "fetching", handle |-> h, count |-> 0]
  <2>1. UNCHANGED loop /\ \A g : ~FetchedBy(c, g)
    BY <1>2 DEF Waited, FetchedBy
  <2>2. \/ UNCHANGED preloadingSet /\ loader' = [loader EXCEPT ![c] = Resting]
        \/ UNCHANGED preloadingSet /\ loader' = [loader EXCEPT ![c] = counts]
        \/ preloadingSet' = preloadingSet \cup {h} /\ loader' = [loader EXCEPT ![c] = fetches]
    BY <1>2 DEF Waited, ControlOK
  <2>3. fetches.at = "fetching" /\ fetches.handle = h
    OBVIOUS
  <2> HIDE DEF h, counts, fetches
  <2>4. QED
    BY <2>1, <2>2, <2>3, LoadMarks
<1>3. ASSUME NEW c \in Loaders, Fetched(c) PROVE MarkInv'
  <2>1. /\ loader' = [loader EXCEPT ![c] = Resting] /\ UNCHANGED loop
        /\ preloadingSet' = preloadingSet \ {loader[c].handle}
    BY <1>3 DEF Fetched, Answered
  <2>2. \A h \in preloadingSet' : h \in preloadingSet /\ ~FetchedBy(c, h)
    BY <2>1 DEF FetchedBy
  <2>3. QED
    BY <2>1, <2>2, LoadMarks
<1>4. ASSUME NEW l \in Loops, Preloaded(l) PROVE MarkInv'
  <2> DEFINE marked == preloadingSet \ {loop[l].handle}
  <2>1. /\ Advance(l, loop[l].queue, preloading, marked)
        /\ UNCHANGED loader /\ loop[l].queue \in Seq(Nat)
    BY <1>4, LoopType DEF Preloaded
  <2> HIDE DEF marked
  <2>2. Ends(l, marked) \/ Goes(l, marked)
    BY <2>1, AdvanceDoes
  <2>3. QED
    BY <2>1, <2>2, LoopMarks DEF marked
<1>5. CASE PreloadAdjacent
  <2>1. UNCHANGED loader
    BY <1>5 DEF PreloadAdjacent
  <2>2. \/ UNCHANGED <<preloadingSet, loop>>
        \/ \E l \in Loops : loop[l] = Over /\ Advance(l, Queue(timer), TRUE, preloadingSet)
    BY <1>5 DEF PreloadAdjacent
  <2>3. Queue(timer) \in Seq(Nat)
    BY QueueType DEF ControlOK
  <2>4. ASSUME NEW l \in Loops, loop[l] = Over, Advance(l, Queue(timer), TRUE, preloadingSet)
        PROVE  MarkInv'
    <3>1. Ends(l, preloadingSet) \/ Goes(l, preloadingSet)
      BY <2>3, <2>4, AdvanceDoes
    <3>2. loop[l].handle \notin preloadingSet
      BY <2>4, CacheAssumption DEF Over, ControlOK
    <3>3. QED
      BY <2>1, <3>1, <3>2, LoopMarks
  <2>5. QED
    BY <2>1, <2>2, <2>4 DEF MarkInv, BeingFetched, FetchedBy
<1>6. CASE preloadingSet' \subseteq preloadingSet /\ UNCHANGED <<loader, loop>>
  BY <1>6 DEF MarkInv, BeingFetched, FetchedBy
<1>7. ASSUME NEW photos \in Lists, NEW i \in DOMAIN photos, SetDetailIndex(i, photos)
      PROVE  MarkInv'
  BY <1>6, <1>7 DEF SetDetailIndex
<1>8. CASE CancelPreload \/ SuspendNeighborPreload \/ ResumeNeighborPreload \/ ClearFullCache
  BY <1>6, <1>8 DEF CancelPreload, SuspendNeighborPreload, ResumeNeighborPreload, ClearFullCache
<1>9. CASE UNCHANGED vars
  BY <1>6, <1>9 DEF vars
<1>10. QED
  BY <1>1, <1>2, <1>3, <1>4, <1>5, <1>7, <1>8, <1>9 DEF Next

(* For any photos, loads and loops: a handle marked as being fetched is    *)
(* being fetched, so no later load waits for it in vain.                   *)
THEOREM MarksAreFetched == Spec => []MarkedIsFetched
<1>1. Init => ControlOK /\ MarkInv
  BY ControlInit DEF Init, MarkInv
<1>2. ControlOK /\ MarkInv /\ [Next]_vars => (ControlOK /\ MarkInv)'
  BY ControlStep, MarkStep
<1>3. MarkInv => MarkedIsFetched
  BY FetchedCounts DEF MarkInv, MarkedIsFetched
<1>4. QED
  BY <1>1, <1>2, <1>3, PTL DEF Spec

(* For any photos, loads and loops: while the viewer is open every step    *)
(* leaves a loop as it is or ends it.                                      *)
THEOREM SuspendedLoopsEnd == Spec => SuspendedStartsNothing
<1> DEFINE Calm == suspended => \A l \in Loops : loop'[l] \in {loop[l], Over}
<1>1. ControlOK /\ [Next]_vars => [Calm]_vars
  <2> SUFFICES ASSUME ControlOK, Next, suspended, NEW k \in Loops PROVE loop'[k] \in {loop[k], Over}
    OBVIOUS
  <2>1. ASSUME NEW l \in Loops, NEW marked, Ends(l, marked) PROVE loop'[k] \in {loop[k], Over}
    BY <2>1 DEF Ends, ControlOK
  <2>2. ASSUME NEW l \in Loops, Preloaded(l) PROVE loop'[k] \in {loop[k], Over}
    <3>1. /\ loop[l].queue \in Seq(Nat)
          /\ Advance(l, loop[l].queue, preloading, preloadingSet \ {loop[l].handle})
      BY <2>2, LoopType DEF Preloaded
    <3>2. Ends(l, preloadingSet \ {loop[l].handle})
      BY <3>1, AdvanceDoes
    <3>3. QED
      BY <2>1, <3>2
  <2>3. CASE PreloadAdjacent
    BY <2>3 DEF PreloadAdjacent
  <2>4. CASE UNCHANGED loop
    BY <2>4
  <2>5. ASSUME NEW c \in Loaders,
               (\E h \in Handles : Load(c, h)) \/ Waited(c) \/ Fetched(c)
        PROVE  UNCHANGED loop
    BY <2>5 DEF Load, Waited, Fetched
  <2>6. ASSUME NEW photos \in Lists, NEW i \in DOMAIN photos, SetDetailIndex(i, photos)
        PROVE  UNCHANGED loop
    BY <2>6 DEF SetDetailIndex
  <2>7. CASE CancelPreload \/ SuspendNeighborPreload \/ ResumeNeighborPreload \/ ClearFullCache
    BY <2>4, <2>7
    DEF CancelPreload, SuspendNeighborPreload, ResumeNeighborPreload, ClearFullCache
  <2>8. QED
    BY <2>2, <2>3, <2>4, <2>5, <2>6, <2>7 DEF Next
<1>2. QED
  BY <1>1, ControlInit, ControlStep, PTL DEF Spec, SuspendedStartsNothing
-----------------------------------------------------------------------------
(* A turn of the loop of addToCache, and the contents after n turns.       *)
Turned(now, size) ==
    LET i == FurthestIn(now.keys)
    IN IF now.bytes + size > MaxBytes /\ now.keys # <<>>
       THEN Contents(RemoveAt(now.keys, i), now.bytes - SizeOf[now.keys[i]])
       ELSE now
After(h, n, start, size) == IF n = 0 THEN start ELSE Turned(h[n - 1], size)
Turns(last, start, size) == CHOOSE h : h = [n \in 0..last |-> After(h, n, start, size)]

LEMMA EvictedIsLast ==
    ASSUME NEW keys, NEW bytes, NEW size
    PROVE  Evicted(keys, bytes, size) = Turns(Len(keys), Contents(keys, bytes), size)[Len(keys)]
BY DEF Evicted, Turns, After, Turned

LEMMA TurnsStep ==
    ASSUME NEW last \in Nat, NEW start, NEW size
    PROVE  LET h == Turns(last, start, size)
           IN h[0] = start /\ \A n \in 1..last : h[n] = Turned(h[n - 1], size)
<1> DEFINE Is(h, m) == h = [n \in 0..m |-> After(h, n, start, size)]
           Has(m)   == \E h : Is(h, m)
           Bad      == {m \in Nat : ~Has(m)}
<1>1. Has(0)
  <2> DEFINE h == [n \in 0..0 |-> start]
  <2>1. Is(h, 0)
    BY DEF After
  <2> HIDE DEF h
  <2>2. QED
    BY <2>1
<1>2. ASSUME NEW m \in Nat, Has(m) PROVE Has(m + 1)
  <2>1. PICK h : Is(h, m)
    BY <1>2
  <2> DEFINE g == [n \in 0..m + 1 |-> IF n = m + 1 THEN Turned(h[m], size) ELSE h[n]]
  <2>2. \A n \in 0..m + 1 : g[n] = After(g, n, start, size)
    BY <2>1 DEF After
  <2>3. Is(g, m + 1)
    BY <2>2
  <2> HIDE DEF g
  <2>4. QED
    BY <2>3
<1>3. Bad = {}
  <2>1. SUFFICES ASSUME Bad # {} PROVE FALSE
    OBVIOUS
  <2> HIDE DEF Has
  <2>2. PICK m \in Bad : \A k \in Bad : m <= k
    BY <2>1, LeastExists
  <2>3. m # 0 /\ m \in Nat /\ ~Has(m)
    BY <1>1
  <2>4. m - 1 \in Nat /\ ~(m <= m - 1)
    BY <2>3
  <2>5. Has(m - 1)
    BY <2>2, <2>4
  <2>6. QED
    BY <1>2, <2>3, <2>4, <2>5
<1>4. Has(last)
  <2> HIDE DEF Has
  <2>1. QED
    BY <1>3
<1> DEFINE h == Turns(last, start, size)
<1>5. h = [n \in 0..last |-> After(h, n, start, size)]
  BY <1>4 DEF Turns
<1> HIDE DEF h
<1>6. h[0] = start /\ \A n \in 1..last : h[n] = Turned(h[n - 1], size)
  BY <1>5 DEF After
<1>7. QED
  BY <1>6 DEF h
-----------------------------------------------------------------------------
(* What is in the cache, in the middle of an eviction too: no photo twice, *)
(* and the bytes are theirs.                                               *)
Sound(now) ==
    /\ now.keys \in Seq(Handles) /\ IsInjective(now.keys)
    /\ now.bytes = SumFunctionOnSet(SizeOf, ToSet(now.keys))

CacheInv == Sound(Contents(cached, cacheTotalBytes))

(* Nothing more need be, or can be, evicted for a photo of this size.      *)
Fits(now, size) == now.bytes + size <= MaxBytes \/ now.keys = <<>>

LEMMA SoundBytes == ASSUME NEW now, Sound(now) PROVE now.bytes \in Nat
<1>1. SizeOf \in [Handles -> Nat] /\ IsFiniteSet(ToSet(now.keys)) /\ ToSet(now.keys) \subseteq Handles
  BY CacheAssumption, ToSetFinite DEF Sound
<1>2. QED
  BY <1>1, SumProperties DEF Sound

LEMMA DistanceType == ASSUME ControlOK PROVE Beyond \in Nat /\ \A h : Distance(h) \in 0..Beyond
<1>1. Len(preloadPhotos) \in Nat /\ detailIndex \in Nat /\ preloadPhotos \in Seq(Handles)
  BY PhotosType, LenProperties DEF ControlOK
<1>2. ASSUME NEW h, Contains(preloadPhotos, h) PROVE Distance(h) \in 0..Beyond
  <2> DEFINE I == {i \in 1..Len(preloadPhotos) : preloadPhotos[i] = h}
             n == SelectLastInSeq(preloadPhotos, LAMBDA x : x = h)
  <2>1. I # {} /\ I \subseteq 0..Len(preloadPhotos)
    BY <1>2 DEF Contains
  <2>2. n = Max(I)
    BY <2>1 DEF SelectLastInSeq
  <2>3. n \in 1..Len(preloadPhotos)
    <3>1. Max(I) \in I
      <4> HIDE DEF I
      <4>1. QED
        BY <1>1, <2>1, MaxProperties
    <3>2. QED
      BY <2>2, <3>1
  <2>4. Distance(h) = Magnitude(n - detailIndex)
    BY <1>2 DEF Distance
  <2> HIDE DEF n
  <2>5. QED
    BY <1>1, <2>3, <2>4 DEF Beyond, Magnitude
<1>3. Beyond \in Nat
  BY <1>1 DEF Beyond
<1>4. \A h : ~Contains(preloadPhotos, h) => Distance(h) = Beyond
  BY DEF Distance
<1>5. QED
  BY <1>2, <1>3, <1>4

LEMMA FurthestProperties ==
    ASSUME ControlOK, NEW keys \in Seq(Handles), keys # <<>>
    PROVE  /\ FurthestIn(keys) \in 1..Len(keys)
           /\ \A h \in ToSet(keys) : Distance(keys[FurthestIn(keys)]) >= Distance(h)
<1> DEFINE all  == {Distance(h) : h \in ToSet(keys)}
           most == Max(all)
           I    == {i \in 1..Len(keys) : Distance(keys[i]) = most}
           n    == FurthestIn(keys)
<1>1. Len(keys) \in Nat /\ DOMAIN keys = 1..Len(keys) /\ Beyond \in Nat
  BY LenProperties, DistanceType
<1>2. most \in all /\ \A m \in all : most >= m
  <2>1. all # {} /\ all \subseteq 0..Beyond
    BY DistanceType, ToSetFinite
  <2> HIDE DEF all
  <2>2. QED
    BY <1>1, <2>1, MaxProperties
<1>3. n = IF I # {} THEN Min(I) ELSE 0
  BY DEF FurthestIn, SelectInSeq
<1>4. I # {} /\ I \subseteq 1..Len(keys)
  BY <1>1, <1>2 DEF ToSet
<1>5. n \in I
  <2> HIDE DEF I, n
  <2>1. QED
    BY <1>3, <1>4, SelectProperties
<1>6. Distance(keys[n]) = most /\ n \in 1..Len(keys)
  <2> HIDE DEF n, most
  <2>1. QED
    BY <1>5
<1>7. QED
  BY <1>2, <1>6

LEMMA TurnedSound ==
    ASSUME ControlOK, NEW now, Sound(now), NEW size \in Nat
    PROVE  /\ Sound(Turned(now, size))
           /\ ToSet(Turned(now, size).keys) \subseteq ToSet(now.keys)
           /\ \A gone \in ToSet(now.keys) \ ToSet(Turned(now, size).keys), h \in ToSet(now.keys) :
                 Distance(gone) >= Distance(h)
           /\ \/ Fits(now, size) /\ Turned(now, size) = now
              \/ ~Fits(now, size) /\ Len(Turned(now, size).keys) = Len(now.keys) - 1
<1> DEFINE i    == FurthestIn(now.keys)
           next == Turned(now, size)
<1>1. CASE ~(now.bytes + size > MaxBytes /\ now.keys # <<>>)
  <2>1. next = now
    BY <1>1 DEF Turned
  <2>2. Fits(now, size)
    BY <1>1, SoundBytes, CacheAssumption DEF Fits
  <2>3. QED
    BY <2>1, <2>2
<1>2. CASE now.bytes + size > MaxBytes /\ now.keys # <<>>
  <2>1. now.keys \in Seq(Handles) /\ IsInjective(now.keys)
    BY DEF Sound
  <2>2. i \in 1..Len(now.keys) /\ \A h \in ToSet(now.keys) : Distance(now.keys[i]) >= Distance(h)
    BY <1>2, <2>1, FurthestProperties
  <2> HIDE DEF i
  <2>3. next = Contents(RemoveAt(now.keys, i), now.bytes - SizeOf[now.keys[i]])
    BY <1>2 DEF Turned, i
  <2>4. next.keys = RemoveAt(now.keys, i) /\ next.bytes = now.bytes - SizeOf[now.keys[i]]
    BY <2>3 DEF Contents
  <2>5. /\ next.keys \in Seq(Handles) /\ IsInjective(next.keys)
        /\ Len(next.keys) = Len(now.keys) - 1
        /\ ToSet(next.keys) = ToSet(now.keys) \ {now.keys[i]}
    BY <2>1, <2>2, <2>4, RemoveAtLeaves
  <2>6. now.keys[i] \in ToSet(now.keys)
    BY <2>1, <2>2, LenProperties DEF ToSet
  <2>7. /\ SumFunctionOnSet(SizeOf, ToSet(now.keys)) =
              SizeOf[now.keys[i]] + SumFunctionOnSet(SizeOf, ToSet(now.keys) \ {now.keys[i]})
        /\ SumFunctionOnSet(SizeOf, ToSet(now.keys) \ {now.keys[i]}) \in Nat
        /\ SizeOf[now.keys[i]] \in Nat
    <3>1. SizeOf \in [Handles -> Nat] /\ IsFiniteSet(ToSet(now.keys)) /\ ToSet(now.keys) \subseteq Handles
      BY <2>1, CacheAssumption, ToSetFinite
    <3>2. IsFiniteSet(ToSet(now.keys) \ {now.keys[i]})
      BY <3>1, FS_RemoveElement
    <3>3. QED
      BY <2>6, <3>1, <3>2, SumProperties
  <2>8. next.bytes = SumFunctionOnSet(SizeOf, ToSet(next.keys))
    <3>1. now.bytes = SumFunctionOnSet(SizeOf, ToSet(now.keys))
      BY DEF Sound
    <3>2. QED
      BY <2>4, <2>5, <2>7, <3>1
  <2>9. Sound(next)
    BY <2>5, <2>8 DEF Sound
  <2> HIDE DEF next
  <2>10. /\ ToSet(next.keys) \subseteq ToSet(now.keys)
         /\ \A gone \in ToSet(now.keys) \ ToSet(next.keys), h \in ToSet(now.keys) :
               Distance(gone) >= Distance(h)
    BY <2>2, <2>5
  <2>11. ~Fits(now, size)
    BY <1>2, SoundBytes, CacheAssumption DEF Fits
  <2>12. QED
    BY <2>5, <2>9, <2>10, <2>11 DEF next
<1>3. QED
  BY <1>1, <1>2

(* What the evictions have made of the cache after n turns: it is sound,   *)
(* the photos gone were further away than those left, and either there is  *)
(* room or n photos are gone.                                              *)
Progress(keys, size, now, n) ==
    /\ Sound(now) /\ ToSet(now.keys) \subseteq ToSet(keys)
    /\ \A gone \in ToSet(keys) \ ToSet(now.keys), kept \in ToSet(now.keys) :
          Distance(gone) >= Distance(kept)
    /\ Fits(now, size) \/ Len(now.keys) <= Len(keys) - n

LEMMA ProgressStep ==
    ASSUME ControlOK, NEW keys \in Seq(Handles), NEW size \in Nat, NEW now, NEW n \in Nat,
           Progress(keys, size, now, n)
    PROVE  Progress(keys, size, Turned(now, size), n + 1)
<1> DEFINE next == Turned(now, size)
<1>1. Sound(now)
  BY DEF Progress
<1>2. /\ Sound(next)
      /\ ToSet(next.keys) \subseteq ToSet(now.keys)
      /\ \A gone \in ToSet(now.keys) \ ToSet(next.keys), h \in ToSet(now.keys) :
            Distance(gone) >= Distance(h)
      /\ \/ Fits(now, size) /\ next = now
         \/ ~Fits(now, size) /\ Len(next.keys) = Len(now.keys) - 1
  BY <1>1, TurnedSound
<1>3. Len(now.keys) \in Nat /\ Len(keys) \in Nat
  BY <1>1, LenProperties DEF Sound
<1> HIDE DEF next
<1>4. Fits(next, size) \/ Len(next.keys) <= Len(keys) - (n + 1)
  BY <1>2, <1>3 DEF Progress
<1>5. \A gone \in ToSet(keys) \ ToSet(next.keys), kept \in ToSet(next.keys) :
         Distance(gone) >= Distance(kept)
  BY <1>2 DEF Progress
<1>6. Progress(keys, size, next, n + 1)
  BY <1>2, <1>4, <1>5 DEF Progress
<1>7. QED
  BY <1>6 DEF next

LEMMA EvictedProperties ==
    ASSUME ControlOK, NEW keys, NEW bytes, NEW size \in Nat, Sound(Contents(keys, bytes))
    PROVE  LET left == Evicted(keys, bytes, size)
           IN Progress(keys, size, left, Len(keys)) /\ Fits(left, size)
<1> DEFINE start == Contents(keys, bytes)
           last  == Len(keys)
           h     == Turns(last, start, size)
           Bad   == {n \in Nat : n <= last /\ ~Progress(keys, size, h[n], n)}
<1>1. keys \in Seq(Handles) /\ last \in Nat
  BY LenProperties DEF Sound, Contents
<1>2. h[0] = start /\ \A n \in 1..last : h[n] = Turned(h[n - 1], size)
  BY <1>1, TurnsStep
<1>3. Evicted(keys, bytes, size) = h[last]
  BY EvictedIsLast
<1>4. Progress(keys, size, start, 0)
  BY <1>1 DEF Progress, Contents
<1> HIDE DEF h, start
<1>5. Bad = {}
  <2>1. SUFFICES ASSUME Bad # {} PROVE FALSE
    OBVIOUS
  <2>2. PICK n \in Bad : \A m \in Bad : n <= m
    <3>1. Bad \subseteq Nat
      OBVIOUS
    <3> HIDE DEF Bad
    <3>2. QED
      BY <2>1, <3>1, LeastExists
  <2>3. n \in Nat /\ n <= last /\ ~Progress(keys, size, h[n], n)
    BY <2>2
  <2>4. n # 0
    BY <1>2, <1>4, <2>3
  <2>5. n - 1 \in Nat /\ n - 1 <= last /\ ~(n <= n - 1) /\ n \in 1..last /\ n - 1 + 1 = n
    BY <1>1, <2>3, <2>4
  <2>6. Progress(keys, size, h[n - 1], n - 1)
    BY <2>2, <2>5
  <2>7. Progress(keys, size, Turned(h[n - 1], size), n)
    BY <1>1, <2>5, <2>6, ProgressStep
  <2>8. QED
    BY <1>2, <2>3, <2>5, <2>7
<1>6. Progress(keys, size, h[last], last)
  BY <1>1, <1>5
<1>7. Fits(h[last], size)
  <2>1. SUFFICES ASSUME Len(h[last].keys) <= 0 PROVE h[last].keys = <<>>
    BY <1>1, <1>6 DEF Progress, Fits
  <2>2. h[last].keys \in Seq(Handles)
    BY <1>6 DEF Progress, Sound
  <2>3. Len(h[last].keys) = 0
    BY <2>1, <2>2, LenProperties
  <2>4. QED
    BY <2>2, <2>3, EmptySeq
<1>8. QED
  BY <1>3, <1>6, <1>7
-----------------------------------------------------------------------------
(* What getObject's return does to the cache, or a clearing.               *)
WithinBudget == cacheTotalBytes <= MaxBytes \/ Len(cached) = 1

FurthestGone ==
    \A gone \in ToSet(cached) \ ToSet(cached'), kept \in ToSet(cached) \cap ToSet(cached') :
       Distance(gone) >= Distance(kept)

LEMMA AddToCacheProperties ==
    ASSUME ControlOK, CacheInv, WithinBudget, NEW h \in Handles, AddToCache(h)
    PROVE  CacheInv' /\ WithinBudget' /\ FurthestGone
<1>1. CASE UNCHANGED cache
  BY <1>1 DEF cache, CacheInv, WithinBudget, FurthestGone
<1>2. CASE ~Contains(cached, h)
  <2> DEFINE size == SizeOf[h]
             left == Evicted(cached, cacheTotalBytes, size)
             keys == left.keys
  <2>1. size \in Nat /\ cached' = Append(keys, h) /\ cacheTotalBytes' = left.bytes + size
    BY <1>2, CacheAssumption DEF AddToCache
  <2>2. Progress(cached, size, left, Len(cached)) /\ Fits(left, size)
    BY <2>1, EvictedProperties DEF CacheInv
  <2> HIDE DEF size, left
  <2>3. /\ keys \in Seq(Handles) /\ IsInjective(keys)
        /\ left.bytes = SumFunctionOnSet(SizeOf, ToSet(keys))
        /\ ToSet(keys) \subseteq ToSet(cached)
    BY <2>2 DEF Progress, Sound
  <2> HIDE DEF keys
  <2>4. h \notin ToSet(cached)
    <3>1. cached \in Seq(Handles)
      BY DEF CacheInv, Sound, Contents
    <3>2. QED
      BY <1>2, <3>1, LenProperties DEF Contains, ToSet
  <2>5. /\ cached' \in Seq(Handles) /\ IsInjective(cached')
        /\ Len(cached') = Len(keys) + 1 /\ ToSet(cached') = ToSet(keys) \cup {h}
    BY <2>1, <2>3, <2>4, AppendAdds
  <2>6. cacheTotalBytes' = SumFunctionOnSet(SizeOf, ToSet(cached'))
    <3>1. SizeOf \in [Handles -> Nat] /\ IsFiniteSet(ToSet(cached')) /\ ToSet(cached') \subseteq Handles
      BY <2>5, CacheAssumption, ToSetFinite
    <3>2. h \in ToSet(cached') /\ ToSet(cached') \ {h} = ToSet(keys)
      BY <2>3, <2>4, <2>5
    <3>3. SumFunctionOnSet(SizeOf, ToSet(cached')) = SizeOf[h] + SumFunctionOnSet(SizeOf, ToSet(keys))
      BY <3>1, <3>2, SumProperties
    <3>4. left.bytes \in Nat
      BY <2>2, SoundBytes DEF Progress
    <3>5. QED
      BY <2>1, <2>3, <3>3, <3>4 DEF size
  <2>7. CacheInv'
    BY <2>5, <2>6 DEF CacheInv, Sound, Contents
  <2>8. WithinBudget'
    <3>1. CASE left.bytes + size <= MaxBytes
      BY <2>1, <3>1 DEF WithinBudget
    <3>2. CASE keys = <<>>
      BY <2>5, <3>2 DEF WithinBudget
    <3>3. QED
      BY <2>2, <3>1, <3>2 DEF Fits, keys
  <2>9. FurthestGone
    BY <2>2, <2>4, <2>5 DEF FurthestGone, Progress, keys
  <2>10. QED
    BY <2>7, <2>8, <2>9
<1>3. QED
  BY <1>1, <1>2 DEF AddToCache

LEMMA CacheStep ==
    ControlOK /\ CacheInv /\ WithinBudget /\ [Next]_vars =>
        CacheInv' /\ WithinBudget' /\ FurthestGone
<1> SUFFICES ASSUME ControlOK, CacheInv, WithinBudget, [Next]_vars
             PROVE  CacheInv' /\ WithinBudget' /\ FurthestGone
  OBVIOUS
<1>1. CASE UNCHANGED cache
  BY <1>1 DEF cache, CacheInv, WithinBudget, FurthestGone
<1>2. ASSUME NEW c \in Loaders, Fetched(c) PROVE CacheInv' /\ WithinBudget' /\ FurthestGone
  <2>1. loader[c].handle \in Handles
    BY <1>2 DEF Fetched, Answered, ControlOK, Resting, Busy
  <2>2. QED
    BY <1>1, <1>2, <2>1, AddToCacheProperties DEF Fetched
<1>3. ASSUME NEW l \in Loops, Preloaded(l) PROVE CacheInv' /\ WithinBudget' /\ FurthestGone
  <2>1. AddToCache(loop[l].handle) \/ UNCHANGED cache
    BY <1>3 DEF Preloaded
  <2>2. QED
    BY <1>1, <1>3, <2>1, LoopType, AddToCacheProperties
<1>4. CASE ClearFullCache
  <2>1. cached' = <<>> /\ cacheTotalBytes' = 0
    BY <1>4 DEF ClearFullCache
  <2>2. ToSet(cached') = {}
    BY <2>1 DEF ToSet
  <2>3. SumFunctionOnSet(SizeOf, {}) = 0
    BY CacheAssumption, FS_EmptySet, SumProperties
  <2>4. <<>> \in Seq(Handles) /\ IsInjective(<<>>)
    BY EmptySeq DEF IsInjective
  <2>5. CacheInv' /\ WithinBudget'
    <3>1. CacheInv'
      BY <2>1, <2>2, <2>3, <2>4 DEF CacheInv, Sound, Contents
    <3>2. WithinBudget'
      BY <2>1, CacheAssumption DEF WithinBudget
    <3>3. QED
      BY <3>1, <3>2
  <2>6. QED
    BY <2>2, <2>5 DEF FurthestGone
<1>5. ASSUME NEW c \in Loaders, NEW h \in Handles, Load(c, h) PROVE UNCHANGED cache
  BY <1>5 DEF Load
<1>6. ASSUME NEW c \in Loaders, Waited(c) PROVE UNCHANGED cache
  BY <1>6 DEF Waited
<1>7. CASE PreloadAdjacent
  BY <1>1, <1>7 DEF PreloadAdjacent
<1>8. ASSUME NEW photos \in Lists, NEW i \in DOMAIN photos, SetDetailIndex(i, photos)
      PROVE  UNCHANGED cache
  BY <1>8 DEF SetDetailIndex
<1>9. CASE CancelPreload \/ SuspendNeighborPreload \/ ResumeNeighborPreload
  BY <1>1, <1>9 DEF CancelPreload, SuspendNeighborPreload, ResumeNeighborPreload
<1>10. CASE UNCHANGED vars
  BY <1>1, <1>10 DEF vars
<1>11. QED
  BY <1>1, <1>2, <1>3, <1>4, <1>5, <1>6, <1>7, <1>8, <1>9, <1>10 DEF Next

LEMMA AllInit == Init => ControlOK /\ CacheInv /\ WithinBudget
<1> SUFFICES ASSUME Init PROVE CacheInv /\ WithinBudget
  BY ControlInit
<1>1. cached = <<>> /\ cacheTotalBytes = 0 /\ ToSet(<<>>) = {}
  BY DEF Init, ToSet
<1>2. SumFunctionOnSet(SizeOf, {}) = 0
  BY CacheAssumption, FS_EmptySet, SumProperties
<1>3. <<>> \in Seq(Handles) /\ IsInjective(<<>>)
  BY EmptySeq DEF IsInjective
<1>4. CacheInv
  BY <1>1, <1>2, <1>3 DEF CacheInv, Sound, Contents
<1>5. WithinBudget
  BY <1>1, CacheAssumption DEF WithinBudget
<1>6. QED
  BY <1>4, <1>5

(* The types of all variables.                                             *)
THEOREM TypeCorrect == Spec => []TypeOK
<1>1. ControlOK /\ CacheInv /\ WithinBudget /\ [Next]_vars => (ControlOK /\ CacheInv /\ WithinBudget)'
  BY ControlStep, CacheStep
<1>2. ControlOK /\ CacheInv => TypeOK
  <2>1. CacheInv => cached \in Seq(Handles) /\ IsInjective(cached) /\ cacheTotalBytes \in Nat
    BY SoundBytes DEF CacheInv, Sound, Contents
  <2>2. QED
    BY <2>1 DEF ControlOK, Busy, Running, TypeOK
<1>3. QED
  BY <1>1, <1>2, AllInit, PTL DEF Spec

(* For any photos, sizes and budget, and any transfers under way: the      *)
(* bytes counted are those of the photos in the cache, and within the      *)
(* budget unless a single photo is larger than all of it.                  *)
THEOREM CacheIsAccounted == Spec => []BytesAccounted
<1>1. ControlOK /\ CacheInv /\ WithinBudget /\ [Next]_vars => (ControlOK /\ CacheInv /\ WithinBudget)'
  BY ControlStep, CacheStep
<1>2. CacheInv /\ WithinBudget => BytesAccounted
  BY DEF CacheInv, Sound, Contents, WithinBudget, BytesAccounted
<1>3. QED
  BY <1>1, <1>2, AllInit, PTL DEF Spec

(* For any photos, lists and sizes: what is evicted was at least as far    *)
(* from the photo shown as all that stays, at every step.                  *)
THEOREM FurthestEvicted == Spec => FurthestGoFirst
<1>1. ControlOK /\ CacheInv /\ WithinBudget /\ [Next]_vars => (ControlOK /\ CacheInv /\ WithinBudget)'
  BY ControlStep, CacheStep
<1>2. ControlOK /\ CacheInv /\ WithinBudget /\ [Next]_vars =>
        [\A gone \in ToSet(cached) \ ToSet(cached'), kept \in ToSet(cached) \cap ToSet(cached') :
            Distance(gone) >= Distance(kept)]_vars
  BY CacheStep DEF FurthestGone
<1>3. QED
  BY <1>1, <1>2, AllInit, PTL DEF Spec, FurthestGoFirst
=============================================================================
