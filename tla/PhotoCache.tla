------------------------------ MODULE PhotoCache ------------------------------
(***************************************************************************)
(* The cache of full-resolution photos and the preloading of neighbours in *)
(* services/CameraService.ets.  The photo viewer asks for photos with      *)
(* loadFullPhoto; a timer starts a loop that fetches the neighbours of the *)
(* photo last shown; both go through getObject, which answers with the     *)
(* photo or with nothing (module PtpTransport says that much of it), and   *)
(* share a byte budget and the set of the handles being fetched.           *)
(*                                                                         *)
(* Every action runs from one await to the next.  Decoding, which follows  *)
(* in loadFullPhoto, touches none of this state and is left out.           *)
(***************************************************************************)
EXTENDS Integers, SequencesExt, FiniteSetsExt, Functions, Picking

CONSTANTS
    Handles,    \* photos on the camera
    SizeOf,     \* size of each, in units
    Lists,      \* photo lists the viewer may be showing (each a sequence)
    Loaders,    \* calls of loadFullPhoto that may be under way at once
    Loops,      \* preload loops that may be under way at once
    MaxBytes,   \* cacheMaxBytes (200 MB)
    Radius,     \* preloadRadius (2)
    Tries       \* sleeps of 200 ms a load waits for a preload (25)

None == "none"

ASSUME CacheAssumption ==
    /\ SizeOf \in [Handles -> Nat \ {0}] /\ None \notin Handles
    /\ \A l \in Lists : l \in Seq(Handles) /\ l # <<>>
    /\ IsFiniteSet(Loaders) /\ IsFiniteSet(Loops)
    /\ {MaxBytes, Radius, Tries} \subseteq Nat \ {0}

VARIABLES
    cached,         \* keys of compressedCache, in the order they were added
    cacheTotalBytes,
    preloadingSet,
    detailIndex, prevDetailIndex,   \* counted from 1, 0 for none
    preloadPhotos,  \* the list the index is into
    preloading,     \* a loop is meant to be running
    suspended,      \* neighborPreloadSuspended
    timer,          \* the length preloadTimer was set with, 0 if not set
    loader,         \* each loadFullPhoto: where it waits, handle and sleeps
    loop            \* each preloadAdjacent: handle it fetches, rest of its queue

cache  == <<cached, cacheTotalBytes>>
detail == <<detailIndex, prevDetailIndex, preloadPhotos>>
vars   == <<cache, preloadingSet, detail, preloading, suspended, timer, loader, loop>>

Resting == [at |-> "idle", handle |-> None, count |-> 0]
Over    == [handle |-> None, queue |-> <<>>]

Init ==
    /\ cached = <<>> /\ cacheTotalBytes = 0
    /\ preloadingSet = {}
    /\ detailIndex = 0 /\ prevDetailIndex = 0 /\ preloadPhotos = <<>>
    /\ preloading = FALSE /\ suspended = FALSE /\ timer = 0
    /\ loader = [c \in Loaders |-> Resting]
    /\ loop = [l \in Loops |-> Over]
-----------------------------------------------------------------------------
Magnitude(n) == IF n < 0 THEN -n ELSE n

(* How far a photo is from the one shown; a photo that is not in the list  *)
(* is further away than any that is.                                       *)
Beyond == Len(preloadPhotos) + detailIndex + 1
Distance(h) ==
    IF Contains(preloadPhotos, h)
    THEN Magnitude(SelectLastInSeq(preloadPhotos, LAMBDA x : x = h) - detailIndex)
    ELSE Beyond

(* Mutant: the first photo of the cache is taken, wherever it is.          *)
OldestIn(keys) == 1

(* evictFurthest: of several equally far the one added first.              *)
FurthestIn(keys) ==
    LET most == Max({Distance(h) : h \in ToSet(keys)})
    IN SelectInSeq(keys, LAMBDA h : Distance(h) = most)

Contents(keys, bytes) == [keys |-> keys, bytes |-> bytes]

(* The loop of addToCache, one eviction per turn.                          *)
Evicted(keys, bytes, size) ==
    LET step[n \in 0..Len(keys)] ==
            IF n = 0 THEN Contents(keys, bytes)
            ELSE LET now == step[n - 1]
                     i   == FurthestIn(now.keys)
                 IN IF now.bytes + size > MaxBytes /\ now.keys # <<>>
                    THEN Contents(RemoveAt(now.keys, i), now.bytes - SizeOf[now.keys[i]])
                    ELSE now
    IN step[Len(keys)]

(* Mutant: a photo that two transfers brought is counted twice.            *)
AddTwice(h) ==
    LET left == Evicted(cached, cacheTotalBytes, SizeOf[h])
    IN /\ cached' = IF Contains(cached, h) THEN cached ELSE Append(left.keys, h)
       /\ cacheTotalBytes' = left.bytes + SizeOf[h]

AddToCache(h) ==
    \/ Contains(cached, h) /\ UNCHANGED cache
    \/ /\ ~Contains(cached, h)
       /\ LET left == Evicted(cached, cacheTotalBytes, SizeOf[h])
          IN /\ cached' = Append(left.keys, h)
             /\ cacheTotalBytes' = left.bytes + SizeOf[h]
-----------------------------------------------------------------------------
(* loadFullPhoto up to its first wait: a cached photo is there at once,    *)
(* one that is being fetched is waited for, any other is fetched.          *)
Load(c, h) ==
    /\ loader[c] = Resting
    /\ ~Contains(cached, h)
    /\ \/ /\ h \in preloadingSet
          /\ loader' = [loader EXCEPT ![c] = [at |-> "waiting", handle |-> h, count |-> 0]]
          /\ UNCHANGED preloadingSet
       \/ /\ h \notin preloadingSet
          /\ loader' = [loader EXCEPT ![c] = [at |-> "fetching", handle |-> h, count |-> 0]]
          /\ preloadingSet' = preloadingSet \cup {h}
    /\ UNCHANGED <<cache, detail, preloading, suspended, timer, loop>>

(* Mutant: the sleeps are not counted.                                     *)
WaitedForEver(c) ==
    /\ loader[c].at = "waiting"
    /\ Contains(cached, loader[c].handle)
    /\ loader' = [loader EXCEPT ![c] = Resting]
    /\ UNCHANGED <<cache, preloadingSet, detail, preloading, suspended, timer, loop>>

(* One sleep is over.  After the last one the photo is fetched directly.   *)
Waited(c) ==
    /\ loader[c].at = "waiting"
    /\ LET h == loader[c].handle
           n == loader[c].count + 1
       IN \/ /\ Contains(cached, h)
             /\ loader' = [loader EXCEPT ![c] = Resting]
             /\ UNCHANGED preloadingSet
          \/ /\ ~Contains(cached, h) /\ n < Tries
             /\ loader' = [loader EXCEPT ![c].count = n]
             /\ UNCHANGED preloadingSet
          \/ /\ ~Contains(cached, h) /\ n = Tries
             /\ loader' = [loader EXCEPT ![c] = [at |-> "fetching", handle |-> h, count |-> 0]]
             /\ preloadingSet' = preloadingSet \cup {h}
    /\ UNCHANGED <<cache, detail, preloading, suspended, timer, loop>>

(* Mutant: without a photo the call returns before it takes back the mark. *)
FetchedOrGone(c) ==
    /\ loader[c].at = "fetching"
    /\ loader' = [loader EXCEPT ![c] = Resting]
    /\ \/ AddToCache(loader[c].handle) /\ preloadingSet' = preloadingSet \ {loader[c].handle}
       \/ UNCHANGED <<cache, preloadingSet>>
    /\ UNCHANGED <<detail, preloading, suspended, timer, loop>>

(* getObject returns, with the photo or without.                           *)
Answered(c) == loader[c].at = "fetching" /\ loader' = [loader EXCEPT ![c] = Resting]

Fetched(c) ==
    /\ Answered(c)
    /\ preloadingSet' = preloadingSet \ {loader[c].handle}
    /\ AddToCache(loader[c].handle) \/ UNCHANGED cache
    /\ UNCHANGED <<detail, preloading, suspended, timer, loop>>
-----------------------------------------------------------------------------
(* detectSwipeDirection is the whole distance of the last move, not its    *)
(* sign.                                                                   *)
Direction == IF prevDetailIndex = 0 THEN 1 ELSE detailIndex - prevDetailIndex

(* For d = 1, 2, ..: the photo d moves ahead and the one d moves behind.   *)
Queue(total) ==
    LET place(i) == LET d == (i + 1) \div 2
                    IN IF i % 2 = 1 THEN detailIndex + d * Direction
                                    ELSE detailIndex - d * Direction
    IN Picked([i \in 1..2 * Radius |-> place(i)], {i \in 1..2 * Radius : place(i) \in 1..total})

Fetching(l, queue, next, marked) ==
    LET h == preloadPhotos[queue[next]]
    IN /\ loop' = [loop EXCEPT ![l] =
                      [handle |-> h, queue |-> SubSeq(queue, next + 1, Len(queue))]]
       /\ preloadingSet' = marked \cup {h}
       /\ preloading' = TRUE

(* A loop ends and clears the flag, whoever has set it.                    *)
Finish(l, marked) ==
    /\ loop' = [loop EXCEPT ![l] = Over]
    /\ preloadingSet' = marked
    /\ preloading' = FALSE

(* The next place of the queue whose photo exists and is neither cached by *)
(* then nor marked.                                                        *)
NextPlace(queue, marked) ==
    SelectInSeq(queue, LAMBDA p : /\ p \in DOMAIN preloadPhotos
                                  /\ preloadPhotos[p] \notin ToSet(cached') \cup marked)

(* Mutant: the loop does not look whether it has been suspended.           *)
AdvanceSuspended(l, queue, on, marked) ==
    LET next == NextPlace(queue, marked)
    IN \/ on /\ next # 0 /\ Fetching(l, queue, next, marked)
       \/ (~on \/ next = 0) /\ Finish(l, marked)

(* The for loop of preloadAdjacent up to its next transfer or its end;     *)
(* "on" is the flag it finds.                                              *)
Advance(l, queue, on, marked) ==
    LET next == NextPlace(queue, marked)
    IN \/ on /\ ~suspended /\ next # 0 /\ Fetching(l, queue, next, marked)
       \/ (~on \/ suspended \/ next = 0) /\ Finish(l, marked)

(* The timer runs out.  preloadAdjacent starts no second loop while the    *)
(* flag is set, and none while the viewer is open.                         *)
PreloadAdjacent ==
    /\ timer # 0 /\ timer' = 0
    /\ \/ /\ preloading \/ suspended
          /\ UNCHANGED <<cache, preloadingSet, preloading, loop>>
       \/ /\ ~preloading /\ ~suspended
          /\ UNCHANGED cache
          /\ \E l \in Loops : loop[l] = Over /\ Advance(l, Queue(timer), TRUE, preloadingSet)
    /\ UNCHANGED <<detail, suspended, loader>>

Preloaded(l) ==
    /\ loop[l] # Over
    /\ AddToCache(loop[l].handle) \/ UNCHANGED cache
    /\ Advance(l, loop[l].queue, preloading, preloadingSet \ {loop[l].handle})
    /\ UNCHANGED <<detail, suspended, timer, loader>>
-----------------------------------------------------------------------------
(* The viewer comes to rest on another photo.                              *)
SetDetailIndex(i, photos) ==
    /\ i \in DOMAIN photos /\ i # detailIndex
    /\ prevDetailIndex' = detailIndex /\ detailIndex' = i
    /\ preloadPhotos' = photos
    /\ timer' = Len(photos)
    /\ UNCHANGED <<cache, preloadingSet, preloading, suspended, loader, loop>>

(* A download of selected photos begins.                                   *)
CancelPreload ==
    /\ timer' = 0 /\ preloading' = FALSE
    /\ UNCHANGED <<cache, preloadingSet, detail, suspended, loader, loop>>

SuspendNeighborPreload ==
    /\ suspended' = TRUE /\ timer' = 0
    /\ UNCHANGED <<cache, preloadingSet, detail, preloading, loader, loop>>

ResumeNeighborPreload ==
    /\ suspended' = FALSE
    /\ timer' = IF preloadPhotos = <<>> THEN timer ELSE Len(preloadPhotos)
    /\ UNCHANGED <<cache, preloadingSet, detail, preloading, loader, loop>>

(* A scan of the same camera, or a disconnect.                             *)
ClearFullCache ==
    /\ cached' = <<>> /\ cacheTotalBytes' = 0
    /\ preloadingSet' = {}
    /\ detailIndex' = 0 /\ prevDetailIndex' = 0 /\ preloadPhotos' = <<>>
    /\ UNCHANGED <<preloading, suspended, timer, loader, loop>>

Next ==
    \/ \E c \in Loaders : (\E h \in Handles : Load(c, h)) \/ Waited(c) \/ Fetched(c)
    \/ \E l \in Loops : Preloaded(l)
    \/ PreloadAdjacent
    \/ \E photos \in Lists : \E i \in DOMAIN photos : SetDetailIndex(i, photos)
    \/ CancelPreload \/ SuspendNeighborPreload \/ ResumeNeighborPreload
    \/ ClearFullCache

Spec == Init /\ [][Next]_vars

(* Timers fire, and getObject always returns (CallReturns of PtpSession).  *)
FairSpec ==
    Spec /\ \A c \in Loaders : WF_vars(Waited(c)) /\ WF_loader(Answered(c))
-----------------------------------------------------------------------------
TypeOK ==
    /\ cached \in Seq(Handles) /\ IsInjective(cached)
    /\ cacheTotalBytes \in Nat
    /\ preloadingSet \subseteq Handles
    /\ preloadPhotos \in Lists \cup {<<>>}
    /\ detailIndex \in Nat /\ prevDetailIndex \in Nat /\ timer \in Nat
    /\ preloading \in BOOLEAN /\ suspended \in BOOLEAN
    /\ loader \in [Loaders -> {Resting} \cup [at : {"waiting", "fetching"}, handle : Handles,
                                              count : 0..Tries - 1]]
    /\ loop \in [Loops -> {Over} \cup [handle : Handles, queue : Seq(Nat)]]

(* The byte count is that of the photos in the cache, whatever transfers   *)
(* of the same photo overlap, and stays within the budget unless a single  *)
(* photo is larger than all of it.                                         *)
BytesAccounted ==
    /\ cacheTotalBytes = SumFunctionOnSet(SizeOf, ToSet(cached))
    /\ cacheTotalBytes <= MaxBytes \/ Len(cached) = 1

LoadersOf(h) == {c \in Loaders : loader[c].at = "fetching" /\ loader[c].handle = h}
LoopsOf(h)   == {l \in Loops : loop[l].handle = h}
TransfersOf(h) == Cardinality(LoadersOf(h)) + Cardinality(LoopsOf(h))

(* A handle marked as being fetched is being fetched: no failure leaves a  *)
(* mark behind that later loads would wait for in vain.                    *)
MarkedIsFetched == \A h \in preloadingSet : TransfersOf(h) > 0

(* A photo is never fetched twice at the same time.                        *)
OneTransferPerPhoto == \A h \in Handles : TransfersOf(h) <= 1

(* To make room, photos go that are at least as far from the one shown as  *)
(* every photo that stays.                                                 *)
FurthestGoFirst ==
    [][\A gone \in ToSet(cached) \ ToSet(cached'), kept \in ToSet(cached) \cap ToSet(cached') :
          Distance(gone) >= Distance(kept)]_vars

(* While the viewer is open no loop begins a transfer.                     *)
SuspendedStartsNothing ==
    [][suspended => \A l \in Loops : loop'[l] \in {loop[l], Over}]_vars

(* Every loadFullPhoto returns.                                            *)
LoadReturns == \A c \in Loaders : loader[c] # Resting ~> loader[c] = Resting
=============================================================================
