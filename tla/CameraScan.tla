------------------------------ MODULE CameraScan ------------------------------
(***************************************************************************)
(* Connecting to a camera and scanning it, services/CameraService.ets:     *)
(* scanForCamera with all it calls, disconnect, and what the settings do   *)
(* to the thumbnail cache meanwhile.                                       *)
(*                                                                         *)
(* The scan is one coroutine, the thumbnails of one row are loaded by one  *)
(* coroutine each, and the user's disconnect is another.  Every action     *)
(* runs from one await of one of them to its next.  Cameras are told apart *)
(* by their identity only: they number their photos alike, and name, size  *)
(* and dates of two photos of the same number agree, the worst case for a  *)
(* cache that looks photos up by these.                                    *)
(***************************************************************************)
EXTENDS ThumbnailCache, Integers, FiniteSets

CONSTANTS
    Cameras,
    HandlesOf,      \* handles of the photos on each camera
    Fallback,       \* identity of a camera that does not answer GetDeviceInfo
    RowWidth,       \* photos whose thumbnails are loaded at once
    MaxMod,         \* bound: modifications of a photo
    MaxChances      \* bound: what user, cable, files and camera may do unasked

None == "none"
Identities == Cameras \cup {Fallback[c] : c \in Cameras}
Handles    == UNION {HandlesOf[c] : c \in Cameras}

ASSUME CameraScanAssumption ==
    /\ HandlesOf \in [Cameras -> SUBSET Nat] /\ IsFiniteSet(Handles)
    /\ DOMAIN Fallback = Cameras
    /\ {None, NoDir} \cap Identities = {}
    /\ RowWidth \in Nat \ {0} /\ MaxMod \in Nat \ {0} /\ MaxChances \in Nat

VARIABLES
    bus,            \* the camera that is plugged in
    version,        \* modification date of each photo of each camera
    link, same,     \* device of the session; it has not been unplugged since
    svc,            \* connected, identity, caching and the caching prompt
    prefs,          \* caching preference of each identity, in a file
    photos,         \* the list of the gallery
    thumbs,         \* thumbnailPixelMapMap and thumbnailLoadedSet, by handle
    cache, store,   \* the cache object and the directories
    scan,           \* the coroutine of scanForCamera
    load,           \* the coroutines that load a thumbnail each
    leave,          \* the coroutine of a disconnect by the user
    chances,
    stray,          \* ghost: a scan found no camera, or overlapped a disconnect
    fault,          \* ghost: something failed in this scan
    lost            \* ghost: identities whose thumbnail files were deleted behind the manifest

world   == <<bus, version>>
session == <<link, same>>
ui      == <<photos, thumbs>>
ghosts  == <<stray, fault, lost>>
vars    == <<world, session, svc, prefs, ui, cache, store, scan, load, leave, chances, ghosts>>

NoScan  == [at |-> "idle", quick |-> TRUE, cam |-> None, todo |-> {}, list |-> <<>>, from |-> 1]
NoLoads == [h \in {} |-> 0]
NoThumbs == [h \in {} |-> 0]
Off     == [connected |-> FALSE, identity |-> None, caching |-> FALSE,
            pending |-> FALSE, prompt |-> FALSE, promptFor |-> None]

Init ==
    /\ bus = None /\ version = [c \in Cameras |-> [h \in HandlesOf[c] |-> 1]]
    /\ link = None /\ same = FALSE
    /\ svc = Off /\ prefs = [i \in {} |-> TRUE]
    /\ photos = <<>> /\ thumbs = NoThumbs
    /\ cache = NewCache /\ store = [i \in Identities |-> EmptyDir]
    /\ scan = NoScan /\ load = NoLoads /\ leave = "idle"
    /\ chances = MaxChances
    /\ stray = FALSE /\ fault = FALSE /\ lost = {}
-----------------------------------------------------------------------------
scanning  == scan.at # "idle"
Reachable == link # None /\ same
Sure      == UNCHANGED chances
Chance    == chances > 0 /\ chances' = chances - 1

(* The directory of the cache object, and its change.                      *)
Dir(m)    == IF m.dir = NoDir THEN EmptyDir ELSE store[m.dir]
Put(m, d) == store' = IF m.dir = NoDir THEN store ELSE [store EXCEPT ![m.dir] = d]

(* close and purgeStale write the manifest; the text may be cut short.     *)
Persist(m, d) ==
    \/ Put(m, [d EXCEPT !.manifest = {m.entries}]) /\ Sure
    \/ Put(m, [d EXCEPT !.manifest = {}]) /\ Chance

(* The finally of scanForCamera.                                           *)
ScanOver(s) ==
    /\ scan' = NoScan /\ load' = NoLoads
    /\ svc' = [s EXCEPT !.prompt = @ \/ s.pending, !.pending = FALSE]

(* Mutant: the thumbnails stay.                                            *)
ClearKeeps(s) ==
    /\ svc' = [s EXCEPT !.caching = FALSE, !.prompt = FALSE]
    /\ photos' = <<>> /\ UNCHANGED thumbs
    /\ Persist(cache, Dir(cache)) /\ UNCHANGED cache

(* disconnect, when the session is closed, ...                             *)
Closed == /\ link' = None /\ same' = FALSE
Gone(s) == [s EXCEPT !.connected = FALSE, !.identity = None]

(* ... and when the pending saves are done.  The manifest in memory is     *)
(* written, be it loaded or not.                                           *)
Clear(s) ==
    /\ svc' = [s EXCEPT !.caching = FALSE, !.prompt = FALSE]
    /\ photos' = <<>> /\ thumbs' = NoThumbs
    /\ Persist(cache, Dir(cache)) /\ UNCHANGED cache

(* Mutant: the prompt about another camera stays.                          *)
CheckPreference(s, i) ==
    IF i \in DOMAIN prefs
    THEN [s EXCEPT !.identity = i, !.caching = prefs[i]]
    ELSE [s EXCEPT !.identity = i, !.caching = TRUE, !.prompt = FALSE,
                   !.pending = TRUE, !.promptFor = i]

(* checkCachingState: for a new camera thumbnails are cached at once and   *)
(* the user is asked after the scan.                                       *)
CheckCaching(s, i) ==
    IF i \in DOMAIN prefs
    THEN [s EXCEPT !.identity = i, !.caching = prefs[i], !.prompt = FALSE]
    ELSE [s EXCEPT !.identity = i, !.caching = TRUE, !.prompt = FALSE,
                   !.pending = TRUE, !.promptFor = i]
-----------------------------------------------------------------------------
NoFile == [cam |-> None, mod |-> 0, look |-> None]

(* A thumbnail is loaded from its file, which may be missing, ...          *)
FromFile(p, e, d) ==
    LET file == IF p.handle \in DOMAIN d.files THEN d.files[p.handle] ELSE NoFile
    IN [at |-> "cached", mod |-> p.mod, exif |-> e.exif,
        data |-> IF file = NoFile THEN file ELSE [file EXCEPT !.look = Show(e, file)]]

(* ... or else from the camera.                                            *)
FromCamera(p) == [at |-> "fetching", mod |-> p.mod, exif |-> FALSE, data |-> NoFile]

NewLoad(p, s, m, d) ==
    LET hit == IF s.caching THEN FindCached(m, p.handle, p.mod) ELSE {}
    IN IF hit = {} THEN FromCamera(p) ELSE FromFile(p, CHOOSE e \in hit : TRUE, d)

Loads(begun) ==
    [h \in {p.handle : p \in DOMAIN begun} |-> begun[CHOOSE p \in DOMAIN begun : p.handle = h]]

(* Between the check of the preference and the traversal: a quick scan of  *)
(* a camera known to be cached first shows what the last scan had listed.  *)
Proceed(s, quick, cam, m0, listed, shown) ==
    LET snap == quick /\ s.caching /\ s.identity \in DOMAIN prefs
        m    == IF s.caching THEN InitCache(m0, s.identity) ELSE m0
        m2   == IF snap THEN LoadManifest(m, Dir(m)) ELSE m
        d2   == IF snap THEN Loading(m, Dir(m)) ELSE Dir(m)
        list == IF snap THEN UNION {ToSet(l) : l \in d2.list} ELSE {}
        hits == {p \in list : FindCached(m2, p.handle, p.mod) # {}}
    IN /\ svc' = s /\ cache' = m2 /\ Put(m2, d2)
       /\ photos' = IF list = {} THEN listed ELSE CHOOSE l \in d2.list : TRUE
       /\ thumbs' = shown
       /\ load' = Loads([p \in hits |-> NewLoad(p, s, m2, d2)])
       /\ scan' = [NoScan EXCEPT !.at = IF hits = {} THEN "listing" ELSE "snapshot",
                                 !.quick = quick, !.cam = cam]

(* The end of loadThumbnailsRowByRow.                                      *)
RowsOver(s, list, m, d) ==
    /\ IF s.caching
       THEN LET keys == {p.handle : p \in ToSet(list)}
            IN cache' = PurgeEntries(m, keys) /\ Persist(cache', PurgeFiles(d, m, keys))
       ELSE cache' = m /\ Put(m, d) /\ Sure
    /\ ScanOver(s)

(* Mutant: a row whose first photo has a thumbnail is taken for complete.  *)
RowMissesOne(list, from, shown) ==
    {i \in from..(from + RowWidth - 1) \cap DOMAIN list :
        list[from].handle \notin DOMAIN shown /\ list[i].handle \notin DOMAIN shown}

(* The positions of the row that lack a thumbnail.                         *)
Row(list, from, shown) ==
    {i \in from..(from + RowWidth - 1) \cap DOMAIN list : list[i].handle \notin DOMAIN shown}

(* loadThumbnailsRowByRow from the top of its loop.  A row that is         *)
(* complete is passed over without waiting, but not when disconnected.     *)
Rows(s, list, from, shown, m, d) ==
    LET starts == {from + RowWidth * n : n \in 0..Len(list)}
        next   == {i \in IF s.connected THEN starts ELSE {from} : Row(list, i, shown) # {}}
    IN IF next = {} THEN RowsOver(s, list, m, d)
       ELSE LET start == CHOOSE i \in next : \A j \in next : i <= j
            IN /\ load' = Loads([p \in {list[i] : i \in Row(list, start, shown)} |->
                                    NewLoad(p, s, m, d)])
               /\ scan' = [scan EXCEPT !.at = "rows", !.list = list, !.from = start]
               /\ svc' = s /\ cache' = m /\ Put(m, d) /\ Sure
-----------------------------------------------------------------------------
(* scanForCamera; a full scan is offered while connected.                  *)
StartScan(quick) ==
    /\ ~scanning /\ (quick \/ svc.connected)
    /\ fault' = (leave # "idle")
    /\ UNCHANGED <<world, session, prefs, leave, chances, lost>>
    /\ \/ /\ bus = None
          /\ svc' = [svc EXCEPT !.connected = FALSE]
          /\ stray' = TRUE
          /\ UNCHANGED <<ui, cache, store, scan, load>>
       \/ /\ bus # None /\ svc.connected /\ same
          /\ Proceed(CheckCaching(svc, svc.identity), quick, bus, cache, <<>>, NoThumbs)
          /\ stray' = (leave # "idle")
       \/ /\ bus # None /\ ~(svc.connected /\ same)
          /\ scan' = [NoScan EXCEPT !.at = IF svc.connected THEN "closing" ELSE "connecting",
                                    !.quick = quick, !.cam = bus]
          /\ stray' = (stray \/ leave # "idle")
          /\ UNCHANGED <<svc, ui, cache, store, load>>

(* Another camera, or the same plugged in again: disconnect first.         *)
ScanClosed ==
    /\ scan.at = "closing"
    /\ Closed /\ Clear(Gone(svc))
    /\ scan' = [scan EXCEPT !.at = "connecting"]
    /\ stray' = (leave # "idle")
    /\ UNCHANGED <<world, prefs, load, leave, fault, lost>>

Connected ==
    /\ scan.at = "connecting"
    /\ UNCHANGED <<world, prefs, ui, cache, store, leave, stray, lost>>
    /\ \/ /\ bus = scan.cam /\ Sure
          /\ link' = bus /\ same' = TRUE
          /\ svc' = [svc EXCEPT !.connected = TRUE]
          /\ scan' = [scan EXCEPT !.at = "asking"]
          /\ UNCHANGED <<load, fault>>
       \/ /\ IF bus = scan.cam THEN Chance ELSE Sure
          /\ Closed /\ ScanOver([svc EXCEPT !.connected = FALSE])
          /\ fault' = TRUE

(* GetDeviceInfo: without an answer the identity is made from USB ids.     *)
Asked ==
    /\ scan.at = "asking"
    /\ \E i \in {scan.cam, Fallback[scan.cam]} :
          /\ i = scan.cam => Reachable
          /\ IF Reachable /\ i # scan.cam THEN Chance ELSE Sure
          /\ Proceed(CheckCaching(svc, i), scan.quick, scan.cam, cache, photos, thumbs)
    /\ UNCHANGED <<world, session, prefs, leave, ghosts>>

SnapshotShown ==
    /\ scan.at = "snapshot" /\ load = NoLoads
    /\ scan' = [scan EXCEPT !.at = "listing"]
    /\ UNCHANGED <<world, session, svc, prefs, ui, cache, store, load, leave, chances, ghosts>>
-----------------------------------------------------------------------------
(* The traversal: any part of a camera's photos, as directories may fail   *)
(* to be read; without a storage the scan is over.                         *)
Listed ==
    /\ scan.at = "listing"
    /\ UNCHANGED <<world, session, prefs, thumbs, leave, stray, lost>>
    /\ \/ /\ IF Reachable THEN Chance ELSE Sure
          /\ photos' = <<>> /\ ScanOver(svc) /\ fault' = TRUE
          /\ UNCHANGED <<cache, store>>
       \/ /\ Reachable
          /\ \E found \in SUBSET HandlesOf[scan.cam] :
                /\ IF found = HandlesOf[scan.cam] THEN Sure ELSE Chance
                /\ fault' = (fault \/ found # HandlesOf[scan.cam])
                /\ scan' = [scan EXCEPT !.at = "infos", !.todo = found]
          /\ LET m    == IF svc.identity = None THEN cache ELSE InitCache(cache, svc.identity)
                 load2 == svc.identity # None /\ svc.caching
             IN IF load2 THEN cache' = LoadManifest(m, Dir(m)) /\ Put(m, Loading(m, Dir(m)))
                         ELSE cache' = m /\ UNCHANGED store
          /\ UNCHANGED <<svc, photos, load>>

(* GetObjectInfo of the next photo; one that fails is left out.  The list  *)
(* is kept sorted: no dates here, the higher handle first.                 *)
InfoRead ==
    /\ scan.at = "infos" /\ scan.todo # {}
    /\ LET h == CHOOSE h \in scan.todo : \A k \in scan.todo : h >= k
           p == [handle |-> h, mod |-> version[scan.cam][h]]
       IN \/ /\ Reachable /\ Sure
             /\ scan' = [scan EXCEPT !.todo = @ \ {h}, !.list = Append(@, p)]
             /\ UNCHANGED fault
          \/ /\ IF Reachable THEN Chance ELSE Sure
             /\ scan' = [scan EXCEPT !.todo = @ \ {h}]
             /\ fault' = TRUE
    /\ UNCHANGED <<world, session, svc, prefs, ui, cache, store, load, leave, stray, lost>>

(* cleanupStaleMemoryCache: thumbnails of photos no longer listed go.      *)
StillListed(list) == [h \in DOMAIN thumbs \cap {p.handle : p \in ToSet(list)} |-> thumbs[h]]

(* The list replaces the one before and is saved; the rows begin.          *)
InfosRead ==
    /\ scan.at = "infos" /\ scan.todo = {}
    /\ LET list == scan.list
           keep == svc.identity # None /\ svc.caching
           d    == IF keep THEN [Dir(cache) EXCEPT !.list = {list}] ELSE Dir(cache)
       IN /\ photos' = list /\ thumbs' = StillListed(list)
          /\ IF list = <<>>
             THEN cache' = cache /\ Put(cache, d) /\ Sure /\ ScanOver(svc)
             ELSE Rows(svc, list, 1, thumbs', cache, d)
    /\ UNCHANGED <<world, session, prefs, leave, ghosts>>

RowLoaded ==
    /\ scan.at = "rows" /\ load = NoLoads
    /\ IF svc.connected
       THEN Rows(svc, scan.list, scan.from + RowWidth, thumbs, cache, Dir(cache))
       ELSE RowsOver(svc, scan.list, cache, Dir(cache))
    /\ UNCHANGED <<world, session, prefs, ui, leave, ghosts>>
-----------------------------------------------------------------------------
EndLoad(h) == load' = [k \in DOMAIN load \ {h} |-> load[k]]
Shown(h, data) == thumbs' = With(thumbs, h, data)

(* The thumbnail and the EXIF header have come; the raw thumbnail is saved *)
(* and decoded.                                                            *)
Fetched(h) ==
    /\ load[h].at = "fetching"
    /\ UNCHANGED <<world, session, svc, prefs, ui, scan, leave, stray, lost>>
    /\ \/ /\ IF Reachable THEN Chance ELSE Sure
          /\ EndLoad(h) /\ fault' = TRUE
          /\ UNCHANGED <<cache, store>>
       \/ /\ Reachable
          /\ \E exif \in BOOLEAN :
                LET raw == [cam |-> link, mod |-> version[link][h], look |-> "raw"]
                IN /\ IF exif THEN Sure ELSE Chance
                   /\ load' = [load EXCEPT ![h] =
                          [at |-> "decoding", mod |-> @.mod, exif |-> exif,
                           data |-> [raw EXCEPT !.look = Decoded("raw", exif)]]]
                   /\ IF svc.caching
                      THEN /\ cache' = SetEntry(cache, h, RawEntry(load[h].mod, exif))
                           /\ Put(cache, WriteFile(Dir(cache), h, raw))
                      ELSE UNCHANGED <<cache, store>>
          /\ UNCHANGED fault

(* A worker has decoded it: it is shown and, in its new form, encoded.     *)
DecodedShown(h) ==
    /\ load[h].at = "decoding"
    /\ UNCHANGED <<world, session, svc, prefs, photos, cache, store, scan, leave, stray, lost>>
    /\ \/ /\ Shown(h, load[h].data) /\ Sure
          /\ IF svc.caching THEN load' = [load EXCEPT ![h].at = "encoding"] ELSE EndLoad(h)
          /\ UNCHANGED fault
       \/ Chance /\ EndLoad(h) /\ fault' = TRUE /\ UNCHANGED thumbs

(* saveEncodedThumbnail has encoded it and overwrites the raw one.         *)
Encoded(h) ==
    /\ load[h].at = "encoding" /\ EndLoad(h)
    /\ UNCHANGED <<world, session, svc, prefs, ui, scan, leave, ghosts>>
    /\ \/ /\ cache' = SetEntry(cache, h, EncodedEntry(load[h].mod, load[h].exif))
          /\ Put(cache, WriteFile(Dir(cache), h, load[h].data)) /\ Sure
       \/ Chance /\ UNCHANGED <<cache, store>>

(* A cached thumbnail is decoded, unless its file is missing.              *)
CachedShown(h) ==
    /\ load[h].at = "cached" /\ EndLoad(h)
    /\ UNCHANGED <<world, session, svc, prefs, photos, cache, store, scan, leave, stray, lost>>
    /\ \/ load[h].data # NoFile /\ Shown(h, load[h].data) /\ Sure /\ UNCHANGED fault
       \/ load[h].data # NoFile /\ Chance /\ fault' = TRUE /\ UNCHANGED thumbs
       \/ load[h].data = NoFile /\ UNCHANGED <<thumbs, chances, fault>>

LoadStep(h) == Fetched(h) \/ DecodedShown(h) \/ Encoded(h) \/ CachedShown(h)
-----------------------------------------------------------------------------
(* disconnect by the user; the page offers it while connected.             *)
Leave ==
    /\ svc.connected /\ leave = "idle" /\ Chance
    /\ leave' = "closing"
    /\ stray' = (stray \/ scanning) /\ fault' = TRUE
    /\ UNCHANGED <<world, session, svc, prefs, ui, cache, store, scan, load, lost>>

Saving == \E h \in DOMAIN load : load[h].at = "encoding"

LeaveClosed ==
    /\ leave = "closing" /\ Closed
    /\ IF svc.caching /\ Saving
       THEN leave' = "flushing" /\ svc' = Gone(svc) /\ Sure /\ UNCHANGED <<ui, cache, store>>
       ELSE leave' = "idle" /\ Clear(Gone(svc))
    /\ UNCHANGED <<world, prefs, scan, load, ghosts>>

(* flush waits for the saves under way, and for those begun meanwhile.     *)
LeaveFlushed ==
    /\ leave = "flushing" /\ ~Saving
    /\ leave' = "idle" /\ Clear(svc)
    /\ UNCHANGED <<world, session, prefs, scan, load, ghosts>>

(* The answer to the prompt.  No page of this version calls it.            *)
SetCachingPreference(enabled) ==
    /\ svc.prompt /\ Chance
    /\ prefs' = With(prefs, svc.promptFor, enabled)
    /\ svc' = [svc EXCEPT !.prompt = FALSE, !.caching = enabled, !.pending = FALSE]
    /\ UNCHANGED <<world, session, ui, cache, store, scan, load, leave, ghosts>>

(* The settings page: a preference is turned, or caches are deleted.       *)
ToggleCaching(i) ==
    /\ i \in DOMAIN prefs /\ Chance
    /\ prefs' = [prefs EXCEPT ![i] = ~@]
    /\ UNCHANGED <<world, session, svc, ui, cache, store, scan, load, leave, ghosts>>

DeleteCaches(ids) ==
    /\ ids # {} /\ ids \subseteq DOMAIN prefs /\ Chance
    /\ prefs' = Restrict(prefs, DOMAIN prefs \ ids)
    /\ store' = [i \in Identities |-> IF i \in ids THEN Delete(store[i]) ELSE store[i]]
    /\ lost' = lost \cup (ids \cap {cache.dir})
    /\ UNCHANGED <<world, session, svc, ui, cache, scan, load, leave, stray, fault>>
DeleteSome == (\E i \in DOMAIN prefs : DeleteCaches({i})) \/ DeleteCaches(DOMAIN prefs)
-----------------------------------------------------------------------------
(* External: the cable, and a camera that is used while it is not plugged. *)
Plug(c) ==
    /\ bus = None /\ bus' = c
    /\ UNCHANGED <<version, session, svc, prefs, ui, cache, store, scan, load, leave, chances, ghosts>>
Unplug ==
    /\ bus # None /\ Chance
    /\ bus' = None /\ same' = FALSE
    /\ UNCHANGED <<version, link, svc, prefs, ui, cache, store, scan, load, leave, ghosts>>
Modify(c, h) ==
    /\ bus # c /\ version[c][h] < MaxMod /\ Chance
    /\ version' = [version EXCEPT ![c][h] = @ + 1]
    /\ UNCHANGED <<bus, session, svc, prefs, ui, cache, store, scan, load, leave, ghosts>>

(* The process is killed at any moment and the application launched again. *)
Relaunch ==
    /\ Chance
    /\ link' = None /\ same' = FALSE
    /\ svc' = Off /\ photos' = <<>> /\ thumbs' = NoThumbs
    /\ cache' = NewCache
    /\ scan' = NoScan /\ load' = NoLoads /\ leave' = "idle"
    /\ stray' = FALSE /\ fault' = FALSE
    /\ UNCHANGED <<world, prefs, store, lost>>

ScanStep == \/ ScanClosed \/ Connected \/ Asked \/ SnapshotShown
            \/ Listed \/ InfoRead \/ InfosRead \/ RowLoaded
LeaveStep == LeaveClosed \/ LeaveFlushed

Next ==
    \/ \E quick \in BOOLEAN : StartScan(quick)
    \/ ScanStep \/ LeaveStep \/ Leave
    \/ \E h \in DOMAIN load : LoadStep(h)
    \/ \E enabled \in BOOLEAN : SetCachingPreference(enabled)
    \/ \E i \in DOMAIN prefs : ToggleCaching(i)
    \/ DeleteSome
    \/ \E c \in Cameras : Plug(c) \/ \E h \in HandlesOf[c] : Modify(c, h)
    \/ Unplug \/ Relaunch

Spec == Init /\ [][Next]_vars
-----------------------------------------------------------------------------
Contents == [cam : Cameras, mod : 1..MaxMod, look : Looks]
Entries(f) == /\ DOMAIN f \subseteq Handles
              /\ \A h \in DOMAIN f : f[h] \in [mod : 1..MaxMod, exif : BOOLEAN, corrected : BOOLEAN]
Listing(list) == list \in Seq([handle : Handles, mod : 1..MaxMod])

TypeOK ==
    /\ bus \in Cameras \cup {None} /\ link \in Cameras \cup {None}
    /\ svc \in [connected : BOOLEAN, identity : Identities \cup {None}, caching : BOOLEAN,
                pending : BOOLEAN, prompt : BOOLEAN, promptFor : Identities \cup {None}]
    /\ prefs \in UNION {[I -> BOOLEAN] : I \in SUBSET Identities}
    /\ Listing(photos) /\ DOMAIN thumbs \subseteq Handles /\ Range(thumbs) \subseteq Contents
    /\ cache.dir \in Identities \cup {NoDir} /\ Entries(cache.entries)
    /\ \A i \in Identities :
          /\ DOMAIN store[i].files \subseteq Handles /\ Range(store[i].files) \subseteq Contents
          /\ \A e \in store[i].manifest : Entries(e)
          /\ \A l \in store[i].list : Listing(l)
    /\ svc.caching => cache.dir # NoDir
    /\ DOMAIN load # {} => scan.at \in {"snapshot", "rows"}
    /\ leave \in {"idle", "closing", "flushing"} /\ chances \in 0..MaxChances

(* A thumbnail found in the cache, now or after a restart, is of that very *)
(* modification of the photo and has its transform applied exactly once.   *)
Right(i, entries) ==
    \A h \in DOMAIN entries \cap DOMAIN store[i].files :
        LET e == entries[h]
            f == store[i].files[h]
        IN \A c \in Cameras :
              i \in {c, Fallback[c]} /\ h \in HandlesOf[c] /\ e.mod = version[c][h] =>
                  f.cam = c /\ f.mod = e.mod /\ Show(e, f) \in {"upright", "unread"}
HitIsRight ==
    /\ \A i \in Identities : Right(i, Readable(store[i]))
    /\ cache.dir # NoDir => Right(cache.dir, cache.entries)

(* No thumbnail is shown of a camera that is not the one connected, unless *)
(* a scan has found no camera or has overlapped a disconnect.              *)
ShownIsOwn ==
    ~stray /\ leave = "idle" /\ scan.at # "closing" =>
        \A h \in DOMAIN thumbs : thumbs[h].cam = link

(* The prompt after a scan asks about the camera that is connected.        *)
PromptIsForConnected ==
    svc.prompt /\ svc.connected /\ ~scanning => svc.promptFor = svc.identity

(* When a scan in which nothing failed is over, every photo of the camera  *)
(* is listed and has its thumbnail, unless its cache was deleted under it. *)
ScanShowsAll ==
    svc.connected /\ ~scanning /\ ~fault /\ svc.identity \notin lost =>
        /\ {p.handle : p \in ToSet(photos)} = HandlesOf[link]
        /\ HandlesOf[link] \subseteq DOMAIN thumbs

(* A full scan reads every thumbnail from the camera.                      *)
FullScanIgnoresCache ==
    scanning /\ ~scan.quick => \A h \in DOMAIN load : load[h].at # "cached"
=============================================================================
