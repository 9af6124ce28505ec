--------------------------- MODULE CameraScanProofs ---------------------------
(***************************************************************************)
(* Whatever cameras are plugged in and out, scans, disconnects and kills   *)
(* of the process in between: what a prompt is about, whose thumbnails are *)
(* shown, what a hit in the thumbnail cache shows, and what a scan that    *)
(* nothing disturbed has shown.                                            *)
(*                                                                         *)
(* Grounds is the invariant all of it rests on: the types, whose session,  *)
(* scan and loads these are, and the prompt.  Three more are built on it:  *)
(* OwnInv says of every file, load and picture which camera it is of,      *)
(* HitInv relates photos, files and the manifests in memory and on the     *)
(* disk by their modifications, AllInv says how far a scan has come.       *)
(***************************************************************************)
EXTENDS CameraScan, DataLemmas

(* What the variables hold at any time.                                    *)
Waiting == {"closing", "connecting", "asking"}
Working == {"snapshot", "listing", "infos", "rows"}

Photo    == [handle : Handles, mod : 1..MaxMod]
Entry    == [mod : 1..MaxMod, exif : BOOLEAN, corrected : BOOLEAN]
Services == [connected : BOOLEAN, identity : Identities \cup {None}, caching : BOOLEAN,
             pending : BOOLEAN, prompt : BOOLEAN, promptFor : Identities \cup {None}]
Scans    == [at : {"idle"} \cup Waiting \cup Working, quick : BOOLEAN,
             cam : Cameras \cup {None}, todo : SUBSET Handles, list : Seq(Photo), from : Nat]
LoadKind == [at : {"cached", "fetching", "decoding", "encoding"}, mod : 1..MaxMod,
             exif : BOOLEAN, data : Contents \cup {NoFile}]

FilesOK(f) == f = [h \in DOMAIN f |-> f[h]] /\ DOMAIN f \subseteq Handles
              /\ \A h \in DOMAIN f : f[h] \in Contents
EntriesOK(e) == e = [h \in DOMAIN e |-> e[h]] /\ DOMAIN e \subseteq Handles
                /\ \A h \in DOMAIN e : e[h] \in Entry
DirOK(d) ==
    /\ d = [files |-> d.files, manifest |-> d.manifest, list |-> d.list]
    /\ FilesOK(d.files)
    /\ \A e \in d.manifest : EntriesOK(e)
    /\ \A l \in d.list : l \in Seq(Photo)
MemoryOK(m) ==
    /\ m = [dir |-> m.dir, loaded |-> m.loaded, entries |-> m.entries]
    /\ m.dir \in Identities \cup {NoDir} /\ m.loaded \in BOOLEAN /\ EntriesOK(m.entries)
StoreOK(s) == s = [i \in Identities |-> s[i]] /\ \A i \in Identities : DirOK(s[i])
LoadsOK(l) == DOMAIN l \subseteq Handles /\ \A h \in DOMAIN l : l[h] \in LoadKind

ControlOK ==
    /\ bus \in Cameras \cup {None} /\ link \in Cameras \cup {None} /\ same \in BOOLEAN
    /\ DOMAIN version = Cameras /\ \A c \in Cameras : version[c] \in [HandlesOf[c] -> 1..MaxMod]
    /\ svc \in Services
    /\ prefs = [i \in DOMAIN prefs |-> prefs[i]] /\ DOMAIN prefs \subseteq Identities
    /\ \A i \in DOMAIN prefs : prefs[i] \in BOOLEAN
    /\ leave \in {"idle", "closing", "flushing"} /\ chances \in 0..MaxChances
    /\ stray \in BOOLEAN /\ fault \in BOOLEAN /\ lost \subseteq Identities
ScanOK ==
    /\ scan \in Scans /\ LoadsOK(load)
    /\ scanning => scan.cam \in Cameras /\ scan.todo \subseteq HandlesOf[scan.cam]
    /\ DOMAIN load # {} => scan.at \in {"snapshot", "rows"}
KeptOK ==
    /\ MemoryOK(cache) /\ StoreOK(store)
    /\ photos \in Seq(Photo) /\ FilesOK(thumbs)

(* Whoever is connected and not asked any more is known by an identity,    *)
(* and thumbnails are cached in a directory.                               *)
KnownInv ==
    /\ svc.connected /\ scan.at \notin Waiting => svc.identity # None
    /\ svc.caching \/ svc.prompt \/ svc.pending => cache.dir # NoDir
    /\ svc.prompt \/ svc.pending => svc.promptFor # None

TypeInv == ControlOK /\ ScanOK /\ KeptOK /\ KnownInv
-----------------------------------------------------------------------------
(* The operators.                                                          *)

(* What the assumption on the constants says of each.                      *)
LEMMA Constants ==
    /\ None \notin Identities /\ NoDir \notin Identities
    /\ None \notin Cameras /\ NoDir # None
    /\ \A c \in Cameras : /\ c \in Identities /\ Fallback[c] \in Identities
                          /\ HandlesOf[c] \subseteq Handles /\ HandlesOf[c] \subseteq Nat
    /\ Handles \subseteq Nat /\ IsFiniteSet(Handles)
    /\ RowWidth \in Nat \ {0} /\ MaxMod \in Nat \ {0} /\ MaxChances \in Nat
BY CameraScanAssumption DEF Identities, Handles, None, NoDir

LEMMA NoFileApart == NoFile \notin Contents
BY Constants DEF NoFile, Contents

(* Setting entries of a Map, many or one.                                  *)
LEMMA OntoProperties ==
    ASSUME NEW f, NEW g
    PROVE  /\ DOMAIN Onto(f, g) = DOMAIN f \cup DOMAIN g
           /\ \A k \in DOMAIN f : Onto(f, g)[k] = f[k]
           /\ \A k \in DOMAIN g \ DOMAIN f : Onto(f, g)[k] = g[k]
           /\ Onto(f, g) = [k \in DOMAIN Onto(f, g) |-> Onto(f, g)[k]]
BY DEF Onto

LEMMA WithProperties ==
    ASSUME NEW f, NEW k, NEW v
    PROVE  /\ DOMAIN With(f, k, v) = DOMAIN f \cup {k} /\ With(f, k, v)[k] = v
           /\ \A j \in DOMAIN f \ {k} : With(f, k, v)[j] = f[j]
           /\ With(f, k, v) = [j \in DOMAIN With(f, k, v) |-> With(f, k, v)[j]]
BY DEF Onto, With

(* Directories and objects of the cache keep their types, whatever is done *)
(* to them, and what else is kept.                                         *)
LEMMA NoEntriesOK == EntriesOK(NoEntries) /\ FilesOK(NoThumbs) /\ FilesOK(NoEntries)
BY DEF EntriesOK, FilesOK, NoEntries, NoThumbs

LEMMA EmptyDirOK == DirOK(EmptyDir)
BY NoEntriesOK DEF DirOK, EmptyDir

LEMMA ReadableOK ==
    ASSUME NEW d, DirOK(d)
    PROVE  EntriesOK(Readable(d)) /\ (d.manifest = {} => Readable(d) = NoEntries)
BY NoEntriesOK DEF Readable, DirOK

LEMMA DirTypes == ASSUME KeptOK, NEW m, MemoryOK(m) PROVE DirOK(Dir(m))
BY EmptyDirOK DEF KeptOK, StoreOK, MemoryOK, Dir

LEMMA PutTypes ==
    ASSUME KeptOK, NEW m, MemoryOK(m), NEW d, DirOK(d), Put(m, d)
    PROVE  /\ StoreOK(store')
           /\ m.dir # NoDir => store'[m.dir] = d
           /\ \A i \in Identities : i # m.dir => store'[i] = store[i]
           /\ m.dir = NoDir \/ d = Dir(m) => store' = store
BY DEF KeptOK, StoreOK, MemoryOK, Dir, Put

LEMMA FilesWith ==
    ASSUME NEW f, FilesOK(f), NEW h \in Handles, NEW x \in Contents
    PROVE  FilesOK(With(f, h, x))
<1> DEFINE w == With(f, h, x)
<1>1. /\ DOMAIN w = DOMAIN f \cup {h} /\ w[h] = x /\ w = [j \in DOMAIN w |-> w[j]]
      /\ \A j \in DOMAIN f \ {h} : w[j] = f[j]
  BY DEF Onto, With
<1> HIDE DEF w
<1>2. FilesOK(w)
  BY <1>1 DEF FilesOK
<1>3. QED
  BY <1>2 DEF w

LEMMA EntriesWith ==
    ASSUME NEW f, EntriesOK(f), NEW h \in Handles, NEW x \in Entry
    PROVE  EntriesOK(With(f, h, x))
<1> DEFINE w == With(f, h, x)
<1>1. /\ DOMAIN w = DOMAIN f \cup {h} /\ w[h] = x /\ w = [j \in DOMAIN w |-> w[j]]
      /\ \A j \in DOMAIN f \ {h} : w[j] = f[j]
  BY DEF Onto, With
<1> HIDE DEF w
<1>2. EntriesOK(w)
  BY <1>1 DEF EntriesOK
<1>3. QED
  BY <1>2 DEF w

LEMMA WriteFileTypes ==
    ASSUME NEW d, DirOK(d), NEW h \in Handles, NEW f \in Contents
    PROVE  /\ DirOK(WriteFile(d, h, f)) /\ WriteFile(d, h, f).manifest = d.manifest
           /\ WriteFile(d, h, f).files = With(d.files, h, f)
<1>1. FilesOK(With(d.files, h, f))
  BY FilesWith DEF DirOK
<1>2. QED
  BY <1>1 DEF DirOK, WriteFile

LEMMA SetEntryTypes ==
    ASSUME NEW m, MemoryOK(m), NEW h \in Handles, NEW e \in Entry
    PROVE  /\ MemoryOK(SetEntry(m, h, e)) /\ SetEntry(m, h, e).dir = m.dir
           /\ SetEntry(m, h, e).loaded = m.loaded
           /\ SetEntry(m, h, e).entries = With(m.entries, h, e)
<1>1. EntriesOK(With(m.entries, h, e))
  BY EntriesWith DEF MemoryOK
<1>2. QED
  BY <1>1 DEF MemoryOK, SetEntry

LEMMA InitCacheTypes ==
    ASSUME NEW m, MemoryOK(m), NEW i \in Identities
    PROVE  /\ MemoryOK(InitCache(m, i)) /\ InitCache(m, i).dir = i
           /\ \/ InitCache(m, i) = m
              \/ InitCache(m, i).entries = NoEntries /\ ~InitCache(m, i).loaded
BY NoEntriesOK DEF InitCache, NewCache, MemoryOK

LEMMA OntoNothing ==
    ASSUME NEW e, EntriesOK(e) PROVE Onto(e, NoEntries) = e
BY DEF Onto, EntriesOK, NoEntries

LEMMA OntoTypes ==
    ASSUME NEW e, EntriesOK(e), NEW f, EntriesOK(f) PROVE EntriesOK(Onto(e, f))
<1> DEFINE g == Onto(e, f)
<1>1. /\ DOMAIN g = DOMAIN e \cup DOMAIN f /\ g = [k \in DOMAIN g |-> g[k]]
      /\ \A k \in DOMAIN g : g[k] \in {e[k], f[k]} /\ (k \in DOMAIN e => g[k] = e[k])
      /\ \A k \in DOMAIN g \ DOMAIN e : k \in DOMAIN f /\ g[k] = f[k]
  BY DEF Onto
<1> HIDE DEF g
<1>2. EntriesOK(g)
  BY <1>1 DEF EntriesOK
<1>3. QED
  BY <1>2 DEF g

LEMMA LoadManifestTypes ==
    ASSUME NEW m, MemoryOK(m), NEW d, DirOK(d)
    PROVE  /\ MemoryOK(LoadManifest(m, d)) /\ LoadManifest(m, d).dir = m.dir
           /\ LoadManifest(m, d).loaded
           /\ DirOK(Loading(m, d))
           /\ Loading(m, d).files = d.files /\ Loading(m, d).list = d.list
<1>1. EntriesOK(Onto(Readable(d), m.entries))
  BY ReadableOK, OntoTypes DEF MemoryOK
<1>2. MemoryOK(LoadManifest(m, d)) /\ LoadManifest(m, d).dir = m.dir /\ LoadManifest(m, d).loaded
  BY <1>1 DEF LoadManifest, MemoryOK
<1>3. /\ DirOK(Loading(m, d))
      /\ Loading(m, d).files = d.files /\ Loading(m, d).list = d.list
  BY DEF Loading, MemoryOK, DirOK
<1>4. QED
  BY <1>2, <1>3

LEMMA PurgeTypes ==
    ASSUME NEW m, MemoryOK(m), NEW d, DirOK(d), NEW keys
    PROVE  /\ MemoryOK(PurgeEntries(m, keys)) /\ PurgeEntries(m, keys).dir = m.dir
           /\ PurgeEntries(m, keys).loaded = m.loaded
           /\ DirOK(PurgeFiles(d, m, keys)) /\ PurgeFiles(d, m, keys).manifest = d.manifest
           /\ DOMAIN PurgeEntries(m, keys).entries = DOMAIN m.entries \ Stale(m, keys)
           /\ DOMAIN PurgeFiles(d, m, keys).files = DOMAIN d.files \ Stale(m, keys)
           /\ \A h \in DOMAIN PurgeEntries(m, keys).entries :
                  PurgeEntries(m, keys).entries[h] = m.entries[h]
           /\ \A h \in DOMAIN PurgeFiles(d, m, keys).files :
                  PurgeFiles(d, m, keys).files[h] = d.files[h]
<1>1. \A f : \A S \in SUBSET DOMAIN f :
          /\ DOMAIN Restrict(f, S) = S /\ \A h \in S : Restrict(f, S)[h] = f[h]
          /\ EntriesOK(f) => EntriesOK(Restrict(f, S))
          /\ FilesOK(f) => FilesOK(Restrict(f, S))
  BY DEF Restrict, EntriesOK, FilesOK
<1>2. EntriesOK(m.entries) /\ FilesOK(d.files)
  BY DEF MemoryOK, DirOK
<1> DEFINE K == DOMAIN m.entries \ Stale(m, keys)
           L == DOMAIN d.files \ Stale(m, keys)
<1>3. /\ DOMAIN Restrict(m.entries, K) = K /\ EntriesOK(Restrict(m.entries, K))
      /\ \A h \in K : Restrict(m.entries, K)[h] = m.entries[h]
  BY <1>1, <1>2
<1>4. /\ DOMAIN Restrict(d.files, L) = L /\ FilesOK(Restrict(d.files, L))
      /\ \A h \in L : Restrict(d.files, L)[h] = d.files[h]
  BY <1>1, <1>2
<1>5. PurgeEntries(m, keys) = [dir |-> m.dir, loaded |-> m.loaded, entries |-> Restrict(m.entries, K)]
  BY DEF PurgeEntries, MemoryOK
<1>6. PurgeFiles(d, m, keys) = [files |-> Restrict(d.files, L), manifest |-> d.manifest, list |-> d.list]
  BY DEF PurgeFiles, DirOK
<1>7. MemoryOK(PurgeEntries(m, keys))
  BY <1>3, <1>5 DEF MemoryOK
<1>8. DirOK(PurgeFiles(d, m, keys))
  BY <1>4, <1>6 DEF DirOK
<1>9. QED
  BY <1>3, <1>4, <1>5, <1>6, <1>7, <1>8

LEMMA DeleteTypes ==
    ASSUME NEW d, DirOK(d)
    PROVE  /\ DirOK(Delete(d)) /\ Delete(d).manifest = {}
           /\ DOMAIN Delete(d).files \subseteq DOMAIN d.files
           /\ \A h \in DOMAIN Delete(d).files : Delete(d).files[h] = d.files[h]
<1> DEFINE L == DOMAIN d.files \ DOMAIN Readable(d)
<1>1. /\ DOMAIN Restrict(d.files, L) = L /\ FilesOK(Restrict(d.files, L))
      /\ \A h \in L : Restrict(d.files, L)[h] = d.files[h]
  BY DEF Restrict, DirOK, FilesOK
<1>2. Delete(d) = [files |-> Restrict(d.files, L), manifest |-> {}, list |-> d.list]
  <2>1. d = [files |-> d.files, manifest |-> d.manifest, list |-> d.list]
    BY DEF DirOK
  <2>2. Delete(d) = [d EXCEPT !.files = Restrict(d.files, L), !.manifest = {}]
    BY DEF Delete
  <2> HIDE DEF L
  <2>3. QED
    BY <2>1, <2>2
<1>3. DirOK(Delete(d))
  BY <1>1, <1>2 DEF DirOK
<1>4. QED
  BY <1>1, <1>2, <1>3

(* The manifest is written, if it is.                                      *)
LEMMA PersistTypes ==
    ASSUME KeptOK, chances \in 0..MaxChances, NEW m, MemoryOK(m), NEW d, DirOK(d), Persist(m, d)
    PROVE  /\ StoreOK(store') /\ chances' \in 0..MaxChances
           /\ m.dir # NoDir => /\ store'[m.dir].files = d.files /\ store'[m.dir].list = d.list
                               /\ store'[m.dir].manifest \in {{}, {m.entries}}
           /\ \A i \in Identities : i # m.dir => store'[i] = store[i]
<1>1. PICK text \in {{}, {m.entries}} : Put(m, [d EXCEPT !.manifest = text])
  BY DEF Persist
<1>2. [d EXCEPT !.manifest = text] = [files |-> d.files, manifest |-> text, list |-> d.list]
  BY DEF DirOK
<1>3. DirOK([d EXCEPT !.manifest = text])
  BY <1>1, <1>2 DEF DirOK, MemoryOK
<1>4. chances' \in 0..MaxChances
  BY Constants DEF Persist, Sure, Chance
<1>5. QED
  BY <1>1, <1>2, <1>3, <1>4, PutTypes

(* The loads of a row, by handle.                                          *)
LEMMA LoadsProperties ==
    ASSUME NEW begun
    PROVE  /\ DOMAIN Loads(begun) = {p.handle : p \in DOMAIN begun}
           /\ \A h \in DOMAIN Loads(begun) :
                  \E p \in DOMAIN begun : p.handle = h /\ Loads(begun)[h] = begun[p]
BY DEF Loads

(* What is shown is a thumbnail of the same camera.                        *)
LEMMA ShowTypes ==
    ASSUME NEW e \in Entry, NEW f \in Contents
    PROVE  Show(e, f) \in Looks /\ [f EXCEPT !.look = Show(e, f)] \in Contents
           /\ [f EXCEPT !.look = Show(e, f)].cam = f.cam
BY DEF Show, Decoded, Looks, Entry, Contents

(* A load begins with a file of the cache, or without any.                 *)
LEMMA NewLoadTypes ==
    ASSUME NEW p \in Photo, NEW s \in Services, NEW m, MemoryOK(m), NEW d, DirOK(d)
    PROVE  LET l   == NewLoad(p, s, m, d)
               hit == s.caching /\ p.handle \in DOMAIN m.entries /\ m.entries[p.handle].mod = p.mod
           IN /\ l \in LoadKind /\ l.mod = p.mod
              /\ l.at = (IF hit THEN "cached" ELSE "fetching")
              /\ l.data # NoFile => /\ hit /\ p.handle \in DOMAIN d.files
                                    /\ l.data.cam = d.files[p.handle].cam
              /\ hit /\ l.data = NoFile => p.handle \notin DOMAIN d.files
<1> DEFINE found == FindCached(m, p.handle, p.mod)
           hit == s.caching /\ p.handle \in DOMAIN m.entries /\ m.entries[p.handle].mod = p.mod
           l == NewLoad(p, s, m, d)
<1>1. p.handle \in Handles /\ p.mod \in 1..MaxMod
  BY DEF Photo
<1>2. \A e : e \in found <=> /\ p.handle \in DOMAIN m.entries /\ e = m.entries[p.handle]
                             /\ e.mod = p.mod
  BY DEF FindCached
<1>3. CASE ~hit
  <2>1. l = FromCamera(p)
    BY <1>2, <1>3 DEF NewLoad
  <2>2. l \in LoadKind /\ l.mod = p.mod /\ l.at = "fetching" /\ l.data = NoFile
    BY <1>1, <2>1 DEF FromCamera, LoadKind
  <2>3. QED
    BY <2>2, <1>3
<1>4. CASE hit
  <2> DEFINE e == m.entries[p.handle]
             f == d.files[p.handle]
  <2>1. e \in Entry
    BY <1>4 DEF MemoryOK, EntriesOK
  <2>2. found = {e}
    BY <1>2, <1>4
  <2>3. l = FromFile(p, e, d)
    BY <2>2, <1>4 DEF NewLoad
  <2>4. CASE p.handle \notin DOMAIN d.files
    <3>1. l = [at |-> "cached", mod |-> p.mod, exif |-> e.exif, data |-> NoFile]
      BY <2>3, <2>4 DEF FromFile
    <3>2. QED
      BY <3>1, <2>1, <2>4, <1>1, <1>4 DEF LoadKind, Entry
  <2>5. CASE p.handle \in DOMAIN d.files
    <3>1. f \in Contents /\ f # NoFile
      BY <2>5, NoFileApart DEF DirOK, FilesOK
    <3> DEFINE shown == [f EXCEPT !.look = Show(e, f)]
    <3>2. l = [at |-> "cached", mod |-> p.mod, exif |-> e.exif, data |-> shown]
      BY <2>3, <2>5, <3>1 DEF FromFile
    <3>3. shown \in Contents /\ shown.cam = f.cam
      BY <2>1, <3>1, ShowTypes
    <3> HIDE DEF shown
    <3>4. QED
      BY <3>2, <3>3, <2>1, <2>5, <1>1, <1>4, NoFileApart DEF LoadKind, Entry
  <2>6. QED
    BY <2>4, <2>5
<1>5. QED
  BY <1>3, <1>4
-----------------------------------------------------------------------------
(* The long steps.                                                         *)

(* The cache object becomes m, and may read its manifest.                  *)
Opens(m) == \/ cache' = m /\ store' = store
            \/ /\ m.dir # NoDir /\ cache' = LoadManifest(m, Dir(m))
               /\ Put(cache', Loading(m, Dir(m)))

LEMMA OpensTypes ==
    ASSUME KeptOK, NEW m, MemoryOK(m), Opens(m)
    PROVE  /\ MemoryOK(cache') /\ StoreOK(store') /\ cache'.dir = m.dir
           /\ \A i \in Identities : /\ store'[i].files = store[i].files
                                    /\ store'[i].list = store[i].list
<1>1. CASE cache' = m /\ store' = store
  BY <1>1 DEF KeptOK
<1>2. CASE cache' = LoadManifest(m, Dir(m)) /\ Put(cache', Loading(m, Dir(m)))
  <2>1. DirOK(Dir(m))
    BY DirTypes
  <2>2. /\ MemoryOK(cache') /\ cache'.dir = m.dir /\ DirOK(Loading(m, Dir(m)))
        /\ Loading(m, Dir(m)).files = Dir(m).files /\ Loading(m, Dir(m)).list = Dir(m).list
    BY <1>2, <2>1, LoadManifestTypes
  <2>3. /\ StoreOK(store')
        /\ cache'.dir # NoDir => store'[cache'.dir] = Loading(m, Dir(m))
        /\ \A i \in Identities : i # cache'.dir => store'[i] = store[i]
    BY <1>2, <2>2, PutTypes
  <2>4. QED
    BY <2>2, <2>3, Constants DEF Dir
<1>3. QED
  BY <1>1, <1>2 DEF Opens

(* The cache object that a scan of camera s goes on with.                  *)
Aimed(s) == IF s.caching THEN InitCache(cache, s.identity) ELSE cache

LEMMA AimedTypes ==
    ASSUME KeptOK, NEW s \in Services, s.identity \in Identities
    PROVE  /\ MemoryOK(Aimed(s)) /\ Aimed(s).dir = (IF s.caching THEN s.identity ELSE cache.dir)
           /\ \/ Aimed(s) = cache
              \/ ~Aimed(s).loaded /\ Aimed(s).entries = NoEntries
BY InitCacheTypes DEF KeptOK, Aimed

(* The list on the disk is one of photos.                                  *)
LEMMA ListTypes ==
    ASSUME NEW d, DirOK(d)
    PROVE  /\ UNION {ToSet(l) : l \in d.list} \subseteq Photo
           /\ d.list # {} => (CHOOSE l \in d.list : TRUE) \in Seq(Photo)
BY ToSetFinite DEF DirOK

(* A scan that has its camera begins its work with a snapshot of the last  *)
(* scan or with the traversal.                                             *)
LEMMA ProceedDoes ==
    ASSUME KeptOK, NEW s \in Services, s.identity \in Identities,
           NEW quick \in BOOLEAN, NEW cam \in Cameras,
           NEW listed \in Seq(Photo), NEW shown,
           Proceed(s, quick, cam, cache, listed, shown)
    PROVE  /\ svc' = s /\ photos' \in Seq(Photo)
           /\ Opens(Aimed(s)) /\ MemoryOK(cache') /\ StoreOK(store')
           /\ cache'.dir = IF s.caching THEN s.identity ELSE cache.dir
           /\ \A i \in Identities : store'[i].files = store[i].files
           /\ LoadsOK(load')
           /\ DOMAIN load' # {} => scan'.at = "snapshot"
           /\ \A h \in DOMAIN load' : load'[h].at = "cached"
           /\ \A h \in DOMAIN load' : load'[h].data # NoFile =>
                  /\ s.caching /\ h \in DOMAIN store[s.identity].files
                  /\ load'[h].data.cam = store[s.identity].files[h].cam
           /\ \E at \in {"snapshot", "listing"} :
                  scan' = [at |-> at, quick |-> quick, cam |-> cam, todo |-> {}, list |-> <<>>, from |-> 1]
<1> DEFINE snap == quick /\ s.caching /\ s.identity \in DOMAIN prefs
           m    == Aimed(s)
           m2   == IF snap THEN LoadManifest(m, Dir(m)) ELSE m
           d2   == IF snap THEN Loading(m, Dir(m)) ELSE Dir(m)
           list == IF snap THEN UNION {ToSet(l) : l \in d2.list} ELSE {}
           hits == {p \in list : FindCached(m2, p.handle, p.mod) # {}}
           begun == [p \in hits |-> NewLoad(p, s, m2, d2)]
<1>1. /\ svc' = s /\ cache' = m2 /\ Put(m2, d2)
      /\ photos' = IF list = {} THEN listed ELSE CHOOSE l \in d2.list : TRUE
      /\ thumbs' = shown /\ load' = Loads(begun)
      /\ scan' = [NoScan EXCEPT !.at = IF hits = {} THEN "listing" ELSE "snapshot",
                                !.quick = quick, !.cam = cam]
  BY DEF Proceed, Aimed
<1>2. MemoryOK(m) /\ m.dir = IF s.caching THEN s.identity ELSE cache.dir
  BY AimedTypes
<1>3. DirOK(Dir(m))
  BY <1>2, DirTypes
<1>4. /\ MemoryOK(m2) /\ m2.dir = m.dir /\ DirOK(d2) /\ d2.files = Dir(m).files
  BY <1>2, <1>3, LoadManifestTypes
<1>5. Opens(m)
  <2>1. CASE snap
    BY <1>1, <1>2, <2>1, Constants DEF Opens
  <2>2. CASE ~snap
    BY <1>1, <1>2, <1>3, <2>2, PutTypes DEF Opens
  <2>3. QED
    BY <2>1, <2>2
<1> HIDE DEF m, m2, d2
<1>6. list \subseteq Photo /\ photos' \in Seq(Photo)
  BY <1>1, <1>4, ListTypes
<1>7. MemoryOK(cache') /\ StoreOK(store') /\ cache'.dir = m.dir
      /\ \A i \in Identities : store'[i].files = store[i].files
  BY <1>2, <1>5, OpensTypes
<1>8. ASSUME NEW p \in hits
      PROVE  /\ begun[p] \in LoadKind /\ begun[p].at = "cached"
             /\ begun[p].data # NoFile => /\ s.caching /\ p.handle \in DOMAIN d2.files
                                          /\ begun[p].data.cam = d2.files[p.handle].cam
  <2>1. p \in Photo /\ s.caching /\ p.handle \in DOMAIN m2.entries /\ m2.entries[p.handle].mod = p.mod
    BY <1>6, <1>8 DEF FindCached
  <2>2. begun[p] = NewLoad(p, s, m2, d2)
    OBVIOUS
  <2> HIDE DEF begun
  <2>3. QED
    BY <1>4, <2>1, <2>2, NewLoadTypes
<1>9. ASSUME s.caching PROVE d2.files = store[s.identity].files
  BY <1>2, <1>4, <1>9, Constants DEF Dir
<1> HIDE DEF list
<1>10. DOMAIN begun = hits
  OBVIOUS
<1>11. load' = Loads(begun)
  BY <1>1
<1> HIDE DEF hits, begun
<1>12. /\ DOMAIN load' = {p.handle : p \in hits}
       /\ \A h \in DOMAIN load' : \E p \in hits : p.handle = h /\ load'[h] = begun[p]
  <2>1. /\ DOMAIN Loads(begun) = {p.handle : p \in DOMAIN begun}
        /\ \A h \in DOMAIN Loads(begun) :
               \E p \in DOMAIN begun : p.handle = h /\ Loads(begun)[h] = begun[p]
    BY LoadsProperties
  <2>2. QED
    BY <1>10, <1>11, <2>1
<1>13. hits \subseteq Photo
  BY <1>6 DEF hits
<1>14. LoadsOK(load')
  BY <1>8, <1>12, <1>13 DEF LoadsOK, Photo
<1>15. \A h \in DOMAIN load' : load'[h].at = "cached"
  BY <1>8, <1>12
<1>16. ASSUME NEW h \in DOMAIN load', load'[h].data # NoFile
       PROVE  /\ s.caching /\ h \in DOMAIN store[s.identity].files
              /\ load'[h].data.cam = store[s.identity].files[h].cam
  BY <1>8, <1>9, <1>12, <1>16
<1>17. /\ DOMAIN load' # {} => scan'.at = "snapshot"
       /\ \E at \in {"snapshot", "listing"} :
              scan' = [at |-> at, quick |-> quick, cam |-> cam, todo |-> {}, list |-> <<>>, from |-> 1]
  <2> DEFINE at == IF hits = {} THEN "listing" ELSE "snapshot"
  <2>1. scan' = [NoScan EXCEPT !.at = at, !.quick = quick, !.cam = cam]
    BY <1>1 DEF hits
  <2>2. at \in {"snapshot", "listing"} /\ (hits # {} => at = "snapshot")
    OBVIOUS
  <2> HIDE DEF at
  <2>3. scan' = [at |-> at, quick |-> quick, cam |-> cam, todo |-> {}, list |-> <<>>, from |-> 1]
    BY <2>1 DEF NoScan
  <2>4. QED
    BY <1>12, <2>2, <2>3
<1>18. QED
  BY <1>1, <1>2, <1>5, <1>6, <1>7, <1>14, <1>15, <1>16, <1>17 DEF m

(* When the rows are over, photos that are gone may have left the cache.   *)
LEMMA RowsOverDoes ==
    ASSUME KeptOK, chances \in 0..MaxChances, NEW s \in Services, NEW list \in Seq(Photo),
           NEW d, DirOK(d), RowsOver(s, list, cache, d)
    PROVE  /\ ScanOver(s) /\ chances' \in 0..MaxChances
           /\ MemoryOK(cache') /\ StoreOK(store')
           /\ cache'.dir = cache.dir /\ cache'.loaded = cache.loaded
           /\ \A i \in Identities : i # cache.dir => store'[i] = store[i]
           /\ \E gone \in SUBSET DOMAIN cache.entries :
                 /\ DOMAIN cache'.entries = DOMAIN cache.entries \ gone
                 /\ \A h \in DOMAIN cache'.entries : cache'.entries[h] = cache.entries[h]
                 /\ cache.dir # NoDir =>
                        /\ DOMAIN store'[cache.dir].files = DOMAIN d.files \ gone
                        /\ \A h \in DOMAIN store'[cache.dir].files :
                               store'[cache.dir].files[h] = d.files[h]
                        /\ \/ store'[cache.dir].manifest \in {{}, {cache'.entries}}
                           \/ gone = {} /\ store'[cache.dir].manifest = d.manifest
<1>1. MemoryOK(cache)
  BY DEF KeptOK
<1>2. CASE s.caching
  <2> DEFINE keys   == {p.handle : p \in ToSet(list)}
             gone   == Stale(cache, keys)
             purged == PurgeEntries(cache, keys)
             kept   == PurgeFiles(d, cache, keys)
  <2>1. cache' = purged /\ Persist(purged, kept) /\ ScanOver(s)
    BY <1>2 DEF RowsOver
  <2>2. /\ MemoryOK(purged) /\ purged.dir = cache.dir /\ purged.loaded = cache.loaded
        /\ DirOK(kept)
        /\ DOMAIN purged.entries = DOMAIN cache.entries \ gone
        /\ DOMAIN kept.files = DOMAIN d.files \ gone
    BY <1>1, PurgeTypes
  <2>3. /\ \A h \in DOMAIN purged.entries : purged.entries[h] = cache.entries[h]
        /\ \A h \in DOMAIN kept.files : kept.files[h] = d.files[h]
    BY <1>1, PurgeTypes
  <2>4. gone \subseteq DOMAIN cache.entries
    BY DEF Stale
  <2> HIDE DEF gone, purged, kept, keys
  <2>5. /\ StoreOK(store') /\ chances' \in 0..MaxChances
        /\ purged.dir # NoDir => /\ store'[purged.dir].files = kept.files
                                 /\ store'[purged.dir].manifest \in {{}, {purged.entries}}
        /\ \A i \in Identities : i # purged.dir => store'[i] = store[i]
    BY <2>1, <2>2, PersistTypes
  <2>6. QED
    BY <2>1, <2>2, <2>3, <2>4, <2>5
<1>3. CASE ~s.caching
  <2>1. cache' = cache /\ Put(cache, d) /\ chances' = chances /\ ScanOver(s)
    BY <1>3 DEF RowsOver, Sure
  <2>2. /\ StoreOK(store')
        /\ cache.dir # NoDir => store'[cache.dir] = d
        /\ \A i \in Identities : i # cache.dir => store'[i] = store[i]
    BY <1>1, <2>1, PutTypes
  <2>3. QED
    BY <1>1, <2>1, <2>2
<1>4. QED
  BY <1>2, <1>3

(* Or a row begins, of photos of the list that have no thumbnail.          *)
Begins(s, list, from, shown, d, start) ==
    /\ LoadsOK(load')
    /\ DOMAIN load' = {list[i].handle : i \in Row(list, start, shown)}
    /\ \A h \in DOMAIN load' :
           \E p \in ToSet(list) : p.handle = h /\ load'[h] = NewLoad(p, s, cache, d)
    /\ scan' = [scan EXCEPT !.at = "rows", !.list = list, !.from = start]
    /\ svc' = s /\ cache' = cache /\ Put(cache, d) /\ chances' = chances
    /\ start \in Nat /\ start >= from

LEMMA StartsTypes ==
    ASSUME NEW from \in Nat, NEW n \in Nat
    PROVE  from + RowWidth * n \in Nat /\ from + RowWidth * n >= from
<1>1. RowWidth \in Nat
  BY Constants
<1>2. RowWidth * n \in Nat
  BY <1>1
<1>3. QED
  BY <1>2

LEMMA RowsDo ==
    ASSUME KeptOK, NEW s \in Services, NEW list \in Seq(Photo), NEW from \in Nat, NEW shown,
           NEW d, DirOK(d), Rows(s, list, from, shown, cache, d)
    PROVE  \/ RowsOver(s, list, cache, d)
           \/ \E start : Begins(s, list, from, shown, d, start)
<1> DEFINE starts == {from + RowWidth * n : n \in 0..Len(list)}
           next   == {i \in IF s.connected THEN starts ELSE {from} : Row(list, i, shown) # {}}
<1>1. CASE next = {}
  BY <1>1 DEF Rows
<1>2. CASE next # {}
  <2>1. starts \subseteq {i \in Nat : i >= from}
    BY StartsTypes
  <2>2. next \subseteq {i \in Nat : i >= from}
    BY <2>1
  <2> DEFINE start == CHOOSE i \in next : \A j \in next : i <= j
             begun == [p \in {list[i] : i \in Row(list, start, shown)} |-> NewLoad(p, s, cache, d)]
  <2>3. start \in next
    <3>1. next \subseteq Nat
      BY <2>2
    <3> HIDE DEF next
    <3>2. \E i \in next : \A j \in next : i <= j
      BY <1>2, <3>1, LeastExists
    <3>3. QED
      BY <3>2
  <2>4. /\ load' = Loads(begun)
        /\ scan' = [scan EXCEPT !.at = "rows", !.list = list, !.from = start]
        /\ svc' = s /\ cache' = cache /\ Put(cache, d) /\ chances' = chances
    BY <1>2 DEF Rows, Sure
  <2> HIDE DEF next, starts
  <2>5. start \in Nat /\ start >= from
    BY <2>2, <2>3
  <2> HIDE DEF start
  <2>6. Row(list, start, shown) \subseteq DOMAIN list
    BY DEF Row
  <2>7. {list[i] : i \in Row(list, start, shown)} \subseteq ToSet(list)
    BY <2>6 DEF ToSet
  <2>8. ToSet(list) \subseteq Photo
    BY ToSetFinite
  <2>9. /\ DOMAIN Loads(begun) = {p.handle : p \in DOMAIN begun}
        /\ \A h \in DOMAIN Loads(begun) :
               \E p \in DOMAIN begun : p.handle = h /\ Loads(begun)[h] = begun[p]
    BY LoadsProperties
  <2>10. DOMAIN begun = {list[i] : i \in Row(list, start, shown)}
    OBVIOUS
  <2>11. \A p \in DOMAIN begun : begun[p] = NewLoad(p, s, cache, d)
    OBVIOUS
  <2> HIDE DEF begun
  <2>12. \A h \in DOMAIN load' : \E p \in ToSet(list) : p.handle = h /\ load'[h] = NewLoad(p, s, cache, d)
    BY <2>4, <2>7, <2>9, <2>10, <2>11
  <2>13. DOMAIN load' = {list[i].handle : i \in Row(list, start, shown)}
    BY <2>4, <2>9, <2>10
  <2>14. \A p \in ToSet(list) : NewLoad(p, s, cache, d) \in LoadKind /\ p.handle \in Handles
    BY <2>8, NewLoadTypes DEF KeptOK, Photo
  <2>15. LoadsOK(load')
    BY <2>12, <2>14 DEF LoadsOK
  <2>16. QED
    BY <2>4, <2>5, <2>12, <2>13, <2>15 DEF Begins
<1>3. QED
  BY <1>1, <1>2
-----------------------------------------------------------------------------
(* Types.                                                                  *)

(* What the checks do with the services' state.                            *)
LEMMA CheckCachingDoes ==
    ASSUME ControlOK, NEW i \in Identities
    PROVE  LET s == CheckCaching(svc, i)
           IN /\ s \in Services /\ s.identity = i /\ s.connected = svc.connected /\ ~s.prompt
              /\ s.pending => \/ s.caching /\ s.promptFor = i
                              \/ svc.pending /\ s.promptFor = svc.promptFor
BY DEF CheckCaching, ControlOK, Services

LEMMA ScanOverDoes ==
    ASSUME NEW s \in Services, ScanOver(s)
    PROVE  /\ scan' = NoScan /\ load' = NoLoads /\ DOMAIN load' = {}
           /\ svc' \in Services /\ ~svc'.pending /\ svc'.prompt = (s.prompt \/ s.pending)
           /\ svc' = [s EXCEPT !.prompt = svc'.prompt, !.pending = svc'.pending]
           /\ scan'.at = "idle" /\ scan' \in Scans /\ LoadsOK(load')
<1>1. scan' = NoScan /\ load' = NoLoads
      /\ svc' = [s EXCEPT !.prompt = @ \/ s.pending, !.pending = FALSE]
  BY DEF ScanOver
<1>2. NoScan \in Scans /\ NoScan.at = "idle" /\ DOMAIN NoLoads = {} /\ LoadsOK(NoLoads)
  BY Constants DEF NoScan, NoLoads, Scans, LoadsOK
<1>3. QED
  BY <1>1, <1>2 DEF Services

(* The services' state when the cache object is cleared and written.       *)
LEMMA ClearDoes ==
    ASSUME KeptOK, chances \in 0..MaxChances, NEW s \in Services, Clear(s)
    PROVE  /\ svc' = [s EXCEPT !.caching = FALSE, !.prompt = FALSE] /\ svc' \in Services
           /\ photos' = <<>> /\ thumbs' = NoThumbs /\ cache' = cache
           /\ KeptOK' /\ chances' \in 0..MaxChances
           /\ \A i \in Identities : /\ store'[i].files = store[i].files
                                    /\ store'[i].list = store[i].list
           /\ \A i \in Identities : i # cache.dir => store'[i] = store[i]
           /\ cache.dir # NoDir => store'[cache.dir].manifest \in {{}, {cache.entries}}
<1>1. /\ svc' = [s EXCEPT !.caching = FALSE, !.prompt = FALSE]
      /\ photos' = <<>> /\ thumbs' = NoThumbs /\ cache' = cache
      /\ Persist(cache, Dir(cache))
  BY DEF Clear
<1>2. MemoryOK(cache) /\ DirOK(Dir(cache))
  BY DirTypes DEF KeptOK
<1>3. /\ StoreOK(store') /\ chances' \in 0..MaxChances
      /\ cache.dir # NoDir => /\ store'[cache.dir].files = Dir(cache).files
                              /\ store'[cache.dir].list = Dir(cache).list
                              /\ store'[cache.dir].manifest \in {{}, {cache.entries}}
      /\ \A i \in Identities : i # cache.dir => store'[i] = store[i]
  BY <1>1, <1>2, PersistTypes
<1>4. KeptOK'
  BY <1>1, <1>2, <1>3, NoEntriesOK DEF KeptOK
<1>5. \A i \in Identities : /\ store'[i].files = store[i].files
                            /\ store'[i].list = store[i].list
  BY <1>3, Constants DEF Dir
<1>6. QED
  BY <1>1, <1>3, <1>4, <1>5 DEF Services

LEMMA InitTypes == Init => TypeInv
<1> SUFFICES ASSUME Init PROVE TypeInv
  OBVIOUS
<1> USE Constants DEF Init
<1>1. ControlOK
  <2>1. svc \in Services /\ chances \in 0..MaxChances
    BY DEF Services, Off
  <2>2. DOMAIN version = Cameras /\ \A c \in Cameras : version[c] \in [HandlesOf[c] -> 1..MaxMod]
    OBVIOUS
  <2>3. QED
    BY <2>1, <2>2 DEF ControlOK
<1>2. ScanOK
  BY DEF ScanOK, NoScan, NoLoads, Scans, LoadsOK, scanning
<1>3. KeptOK
  BY EmptyDirOK, NoEntriesOK DEF KeptOK, StoreOK, MemoryOK, NewCache
<1>4. KnownInv
  BY DEF KnownInv, Off
<1>5. QED
  BY <1>1, <1>2, <1>3, <1>4 DEF TypeInv

(* What the scan has after the preference was checked.                     *)
LEMMA ProceedTypes ==
    ASSUME TypeInv, NEW i \in Identities, NEW quick \in BOOLEAN, NEW cam \in Cameras,
           NEW listed \in Seq(Photo), NEW shown, FilesOK(shown),
           Proceed(CheckCaching(svc, i), quick, cam, cache, listed, shown)
    PROVE  svc' \in Services /\ ScanOK' /\ KeptOK' /\ KnownInv'
<1> DEFINE s == CheckCaching(svc, i)
<1>1. /\ s \in Services /\ s.identity = i /\ s.connected = svc.connected /\ ~s.prompt
      /\ s.pending => \/ s.caching /\ s.promptFor = i
                      \/ svc.pending /\ s.promptFor = svc.promptFor
  BY CheckCachingDoes DEF TypeInv
<1>2. KeptOK /\ Proceed(s, quick, cam, cache, listed, shown) /\ s.identity \in Identities
  BY <1>1 DEF TypeInv
<1> HIDE DEF s
<1>3. /\ svc' = s /\ photos' \in Seq(Photo)
      /\ MemoryOK(cache') /\ StoreOK(store')
      /\ cache'.dir = IF s.caching THEN s.identity ELSE cache.dir
      /\ LoadsOK(load')
      /\ DOMAIN load' # {} => scan'.at = "snapshot"
      /\ \E at \in {"snapshot", "listing"} :
             scan' = [at |-> at, quick |-> quick, cam |-> cam, todo |-> {}, list |-> <<>>, from |-> 1]
  BY <1>1, <1>2, ProceedDoes
<1>4. KeptOK'
  BY <1>2, <1>3 DEF KeptOK, Proceed
<1>5. ScanOK'
  <2>1. PICK at \in {"snapshot", "listing"} :
            scan' = [at |-> at, quick |-> quick, cam |-> cam, todo |-> {}, list |-> <<>>, from |-> 1]
    BY <1>3
  <2>2. <<>> \in Seq(Photo) /\ {} \in SUBSET Handles /\ at \in Working
    BY DEF Working
  <2>3. scan' \in Scans /\ scan'.cam = cam /\ scan'.at # "idle"
    BY <2>1, <2>2 DEF Scans, Working
  <2>4. QED
    BY <1>3, <2>1, <2>3 DEF ScanOK, scanning
<1>6. KnownInv'
  BY <1>1, <1>3, Constants DEF KnownInv, TypeInv
<1>7. QED
  BY <1>1, <1>3, <1>4, <1>5, <1>6

LEMMA StartScanTypes == ASSUME TypeInv, NEW quick \in BOOLEAN, StartScan(quick) PROVE TypeInv'
<1> USE DEF TypeInv
<1>1. /\ ~scanning /\ fault' = (leave # "idle") /\ stray' \in BOOLEAN
      /\ UNCHANGED <<bus, version, link, same, prefs, leave, chances, lost>>
  BY DEF StartScan, ControlOK, world, session
<1>2. CASE /\ bus = None /\ svc' = [svc EXCEPT !.connected = FALSE]
           /\ UNCHANGED <<photos, thumbs, cache, store, scan, load>>
  <2>1. ControlOK'
    BY <1>1, <1>2 DEF ControlOK, Services
  <2>2. ScanOK' /\ KeptOK'
    BY <1>2 DEF ScanOK, KeptOK, scanning
  <2>3. KnownInv'
    BY <1>2 DEF KnownInv, ControlOK, Services
  <2>4. QED
    BY <2>1, <2>2, <2>3
<1>3. CASE /\ bus # None /\ svc.connected
           /\ Proceed(CheckCaching(svc, svc.identity), quick, bus, cache, <<>>, NoThumbs)
  <2>1. svc.identity \in Identities /\ bus \in Cameras
    BY <1>1, <1>3 DEF KnownInv, ControlOK, Services, scanning, Waiting
  <2>2. svc' \in Services /\ ScanOK' /\ KeptOK' /\ KnownInv'
    <3>1. FilesOK(NoThumbs) /\ <<>> \in Seq(Photo)
      BY NoEntriesOK
    <3>2. QED
      BY <1>3, <2>1, <3>1, ProceedTypes
  <2>3. ControlOK'
    BY <1>1, <2>2 DEF ControlOK
  <2>4. QED
    BY <2>2, <2>3
<1>4. CASE /\ bus # None
           /\ scan' = [NoScan EXCEPT !.at = IF svc.connected THEN "closing" ELSE "connecting",
                                     !.quick = quick, !.cam = bus]
           /\ UNCHANGED <<svc, photos, thumbs, cache, store, load>>
  <2>1. ControlOK' /\ KeptOK'
    BY <1>1, <1>4 DEF ControlOK, KeptOK
  <2>2. PICK at \in {"closing", "connecting"} :
            scan' = [at |-> at, quick |-> quick, cam |-> bus, todo |-> {}, list |-> <<>>, from |-> 1]
    BY <1>4 DEF NoScan
  <2>3. <<>> \in Seq(Photo) /\ {} \in SUBSET Handles /\ bus \in Cameras
    BY <1>4 DEF ControlOK
  <2>4. scan' \in Scans /\ scan'.at = at /\ scan'.cam \in Cameras /\ scan'.todo = {}
    BY <2>2, <2>3 DEF Scans, Waiting
  <2>5. DOMAIN load' = {}
    BY <1>1, <1>4 DEF ScanOK, scanning
  <2>6. ScanOK'
    BY <1>4, <2>4, <2>5 DEF ScanOK, scanning
  <2>7. KnownInv'
    BY <1>4, <2>4 DEF KnownInv, Waiting
  <2>8. QED
    BY <2>1, <2>6, <2>7
<1>5. QED
  BY <1>2, <1>3, <1>4 DEF StartScan, ui

LEMMA ScanClosedTypes == ASSUME TypeInv, ScanClosed PROVE TypeInv'
<1> USE DEF TypeInv
<1> DEFINE s == Gone(svc)
<1>1. /\ scan.at = "closing" /\ Closed /\ Clear(s)
      /\ scan' = [scan EXCEPT !.at = "connecting"] /\ stray' = (leave # "idle")
      /\ UNCHANGED <<bus, version, prefs, load, leave, fault, lost>>
  BY DEF ScanClosed, world
<1>2. s \in Services /\ ~s.connected /\ s.promptFor = svc.promptFor /\ s.pending = svc.pending
  BY DEF Gone, ControlOK, Services
<1>3. KeptOK /\ chances \in 0..MaxChances
  BY DEF ControlOK
<1> HIDE DEF s
<1>4. /\ svc' = [s EXCEPT !.caching = FALSE, !.prompt = FALSE] /\ svc' \in Services
      /\ cache' = cache /\ KeptOK' /\ chances' \in 0..MaxChances
  BY <1>1, <1>2, <1>3, ClearDoes
<1>5. ControlOK'
  BY <1>1, <1>4 DEF ControlOK, Closed
<1>6. ScanOK'
  BY <1>1 DEF ScanOK, Scans, scanning, Waiting
<1>7. KnownInv'
  BY <1>1, <1>2, <1>4 DEF KnownInv, Services
<1>8. QED
  BY <1>4, <1>5, <1>6, <1>7

LEMMA ConnectedTypes == ASSUME TypeInv, Connected PROVE TypeInv'
<1> USE DEF TypeInv
<1>1. /\ scan.at = "connecting" /\ chances' \in 0..MaxChances
      /\ UNCHANGED <<bus, version, prefs, photos, thumbs, cache, store, leave, stray, lost>>
  BY Constants DEF Connected, world, ui, Sure, Chance, ControlOK
<1>2. KeptOK'
  BY <1>1 DEF KeptOK
<1>3. CASE /\ bus = scan.cam /\ link' = bus /\ same' = TRUE
           /\ svc' = [svc EXCEPT !.connected = TRUE]
           /\ scan' = [scan EXCEPT !.at = "asking"]
           /\ UNCHANGED <<load, fault>>
  <2>1. ControlOK'
    BY <1>1, <1>3 DEF ControlOK, Services
  <2>2. ScanOK'
    BY <1>1, <1>3 DEF ScanOK, Scans, scanning, Waiting
  <2>3. KnownInv'
    BY <1>1, <1>3, <2>2 DEF KnownInv, ControlOK, Services, Waiting, ScanOK, Scans
  <2>4. QED
    BY <1>2, <2>1, <2>2, <2>3
<1>4. CASE Closed /\ ScanOver([svc EXCEPT !.connected = FALSE]) /\ fault' = TRUE
  <2> DEFINE s == [svc EXCEPT !.connected = FALSE]
  <2>1. /\ s \in Services /\ ~s.connected /\ s.prompt = svc.prompt /\ s.pending = svc.pending
        /\ s.promptFor = svc.promptFor /\ s.caching = svc.caching
    BY DEF ControlOK, Services
  <2>2. ScanOver(s)
    BY <1>4
  <2> HIDE DEF s
  <2>3. /\ DOMAIN load' = {} /\ svc' \in Services /\ ~svc'.pending
        /\ svc'.prompt = (s.prompt \/ s.pending)
        /\ svc' = [s EXCEPT !.prompt = svc'.prompt, !.pending = svc'.pending]
        /\ scan'.at = "idle" /\ scan' \in Scans /\ LoadsOK(load')
    BY <2>1, <2>2, ScanOverDoes
  <2>4. svc'.connected = s.connected /\ svc'.caching = s.caching /\ svc'.promptFor = s.promptFor
    BY <2>1, <2>3 DEF Services
  <2>5. ControlOK'
    BY <1>1, <1>4, <2>3 DEF ControlOK, Closed
  <2>6. ScanOK'
    BY <2>3 DEF ScanOK, scanning
  <2>7. KnownInv'
    BY <1>1, <2>1, <2>3, <2>4 DEF KnownInv
  <2>8. QED
    BY <1>2, <2>5, <2>6, <2>7
<1>5. QED
  BY <1>3, <1>4 DEF Connected

LEMMA AskedTypes == ASSUME TypeInv, Asked PROVE TypeInv'
<1> USE DEF TypeInv
<1>1. PICK i \in {scan.cam, Fallback[scan.cam]} :
          /\ IF Reachable /\ i # scan.cam THEN Chance ELSE Sure
          /\ Proceed(CheckCaching(svc, i), scan.quick, scan.cam, cache, photos, thumbs)
  BY DEF Asked
<1>2. /\ scan.cam \in Cameras /\ i \in Identities /\ scan.quick \in BOOLEAN
  BY Constants DEF Asked, ScanOK, scanning, Scans
<1>3. svc' \in Services /\ ScanOK' /\ KeptOK' /\ KnownInv'
  BY <1>1, <1>2, ProceedTypes DEF KeptOK
<1>4. ControlOK'
  <2>1. chances' \in 0..MaxChances
    BY <1>1, Constants DEF ControlOK, Sure, Chance
  <2>2. UNCHANGED <<bus, version, link, same, prefs, leave, stray, fault, lost>>
    BY DEF Asked, world, session, ghosts
  <2>3. QED
    BY <1>3, <2>1, <2>2 DEF ControlOK
<1>5. QED
  BY <1>3, <1>4

LEMMA SnapshotShownTypes == ASSUME TypeInv, SnapshotShown PROVE TypeInv'
<1>1. /\ scan.at = "snapshot" /\ load = NoLoads /\ scan' = [scan EXCEPT !.at = "listing"]
      /\ UNCHANGED <<bus, version, link, same, svc, prefs, photos, thumbs, cache, store, load,
                     leave, chances, stray, fault, lost>>
  BY DEF SnapshotShown, world, session, ui, ghosts
<1>2. DOMAIN load = {}
  BY <1>1 DEF NoLoads
<1>3. ControlOK' /\ KeptOK'
  BY <1>1 DEF TypeInv, ControlOK, KeptOK
<1>4. ScanOK'
  BY <1>1, <1>2 DEF TypeInv, ScanOK, Scans, scanning, Working
<1>5. KnownInv'
  BY <1>1, <1>4 DEF TypeInv, KnownInv, Waiting, ScanOK, Scans
<1>6. QED
  BY <1>3, <1>4, <1>5 DEF TypeInv

LEMMA ListedTypes == ASSUME TypeInv, Listed PROVE TypeInv'
<1> USE DEF TypeInv
<1>1. /\ scan.at = "listing" /\ scan.cam \in Cameras /\ DOMAIN load = {}
      /\ UNCHANGED <<bus, version, link, same, prefs, thumbs, leave, stray, lost>>
  BY DEF Listed, world, session, ScanOK, scanning
<1>2. CASE /\ IF Reachable THEN Chance ELSE Sure
           /\ photos' = <<>> /\ ScanOver(svc) /\ fault' = TRUE
           /\ UNCHANGED <<cache, store>>
  <2>1. svc \in Services
    BY DEF ControlOK
  <2>2. /\ DOMAIN load' = {} /\ svc' \in Services /\ ~svc'.pending
        /\ svc'.prompt = (svc.prompt \/ svc.pending)
        /\ svc' = [svc EXCEPT !.prompt = svc'.prompt, !.pending = svc'.pending]
        /\ scan'.at = "idle" /\ scan' \in Scans /\ LoadsOK(load')
    BY <1>2, <2>1, ScanOverDoes
  <2>3. /\ svc'.connected = svc.connected /\ svc'.caching = svc.caching
        /\ svc'.promptFor = svc.promptFor /\ svc'.identity = svc.identity
    BY <2>1, <2>2 DEF Services
  <2>4. chances' \in 0..MaxChances
    BY <1>2, Constants DEF ControlOK, Sure, Chance
  <2>5. ControlOK'
    BY <1>1, <1>2, <2>2, <2>4 DEF ControlOK
  <2>6. ScanOK'
    BY <2>2 DEF ScanOK, scanning
  <2>7. KeptOK'
    BY <1>1, <1>2 DEF KeptOK
  <2>8. KnownInv'
    BY <1>1, <1>2, <2>2, <2>3 DEF KnownInv, Waiting
  <2>9. QED
    BY <2>5, <2>6, <2>7, <2>8
<1>3. CASE /\ \E found \in SUBSET HandlesOf[scan.cam] :
                  /\ IF found = HandlesOf[scan.cam] THEN Sure ELSE Chance
                  /\ fault' = (fault \/ found # HandlesOf[scan.cam])
                  /\ scan' = [scan EXCEPT !.at = "infos", !.todo = found]
           /\ LET m    == IF svc.identity = None THEN cache ELSE InitCache(cache, svc.identity)
                  load2 == svc.identity # None /\ svc.caching
              IN IF load2 THEN cache' = LoadManifest(m, Dir(m)) /\ Put(m, Loading(m, Dir(m)))
                          ELSE cache' = m /\ UNCHANGED store
           /\ UNCHANGED <<svc, photos, load>>
  <2> DEFINE m == IF svc.identity = None THEN cache ELSE InitCache(cache, svc.identity)
  <2>1. MemoryOK(m) /\ (svc.identity = None => m.dir = cache.dir)
                    /\ (svc.identity # None => m.dir \in Identities)
    BY InitCacheTypes DEF KeptOK, ControlOK, Services
  <2>2. Opens(m)
    <3>1. ASSUME Put(m, Loading(m, Dir(m))), cache' = LoadManifest(m, Dir(m))
          PROVE  Put(cache', Loading(m, Dir(m)))
      BY <2>1, <3>1, DirTypes, LoadManifestTypes DEF Put
    <3>2. QED
      BY <1>3, <2>1, <3>1, Constants DEF Opens
  <2> HIDE DEF m
  <2>3. MemoryOK(cache') /\ StoreOK(store') /\ cache'.dir = m.dir
    BY <2>1, <2>2, OpensTypes
  <2>4. PICK found \in SUBSET HandlesOf[scan.cam] :
            /\ IF found = HandlesOf[scan.cam] THEN Sure ELSE Chance
            /\ fault' = (fault \/ found # HandlesOf[scan.cam])
            /\ scan' = [scan EXCEPT !.at = "infos", !.todo = found]
    BY <1>3
  <2>5. ControlOK'
    <3>1. chances' \in 0..MaxChances
      BY <2>4, Constants DEF ControlOK, Sure, Chance
    <3>2. fault' \in BOOLEAN
      BY <2>4 DEF ControlOK
    <3>3. QED
      BY <1>1, <1>3, <3>1, <3>2 DEF ControlOK
  <2>6. KeptOK'
    BY <1>1, <1>3, <2>3 DEF KeptOK
  <2>7. ScanOK'
    <3>1. found \subseteq Handles
      BY <1>1, Constants
    <3>2. scan' \in Scans /\ scan'.cam \in Cameras /\ scan'.at = "infos"
      BY <1>1, <2>4, <3>1 DEF ScanOK, Scans, Working
    <3>3. QED
      BY <1>1, <1>3, <3>2 DEF ScanOK, scanning
  <2>8. KnownInv'
    <3>1. scan'.at = "infos"
      BY <2>4 DEF ScanOK, Scans
    <3>2. QED
      BY <1>1, <1>3, <2>1, <2>3, <3>1, Constants DEF KnownInv, Waiting
  <2>9. QED
    BY <2>5, <2>6, <2>7, <2>8
<1>4. QED
  BY <1>2, <1>3 DEF Listed

(* The photo whose information comes next.                                 *)
Asking(h) == h \in scan.todo /\ \A k \in scan.todo : h >= k

LEMMA InfoReadDoes ==
    ASSUME TypeInv, InfoRead
    PROVE  /\ scan.at = "infos" /\ scan.cam \in Cameras
           /\ UNCHANGED <<bus, version, link, same, svc, prefs, photos, thumbs, cache, store, load,
                          leave, stray, lost>>
           /\ \E h \in scan.todo :
                 \/ /\ Reachable /\ chances' = chances /\ fault' = fault
                    /\ scan' = [scan EXCEPT !.todo = @ \ {h},
                                   !.list = Append(@, [handle |-> h, mod |-> version[scan.cam][h]])]
                 \/ /\ chances' \in 0..MaxChances /\ fault' = TRUE
                    /\ scan' = [scan EXCEPT !.todo = @ \ {h}]
<1> DEFINE h == CHOOSE h \in scan.todo : \A k \in scan.todo : h >= k
<1>1. scan.todo \subseteq Nat /\ IsFiniteSet(scan.todo)
  BY Constants, FS_Subset DEF TypeInv, ScanOK, Scans
<1>2. h \in scan.todo
  <2>1. \E n \in scan.todo : \A k \in scan.todo : n >= k
    BY <1>1, GreatestExists DEF InfoRead
  <2>2. QED
    BY <2>1
<1>3. /\ scan.at = "infos" /\ scan.cam \in Cameras
      /\ UNCHANGED <<bus, version, link, same, svc, prefs, photos, thumbs, cache, store, load,
                     leave, stray, lost>>
  BY DEF InfoRead, world, session, ui, TypeInv, ScanOK, scanning
<1>4. \/ /\ Reachable /\ Sure /\ UNCHANGED fault
         /\ scan' = [scan EXCEPT !.todo = @ \ {h},
                                 !.list = Append(@, [handle |-> h, mod |-> version[scan.cam][h]])]
      \/ /\ IF Reachable THEN Chance ELSE Sure
         /\ scan' = [scan EXCEPT !.todo = @ \ {h}]
         /\ fault' = TRUE
  BY DEF InfoRead
<1>5. Chance \/ Sure => chances' \in 0..MaxChances
  BY Constants DEF Chance, Sure, TypeInv, ControlOK
<1> HIDE DEF h
<1>6. QED
  BY <1>2, <1>3, <1>4, <1>5 DEF Sure

LEMMA InfoReadTypes == ASSUME TypeInv, InfoRead PROVE TypeInv'
<1> USE DEF TypeInv
<1>1. PICK h \in scan.todo :
         \/ /\ Reachable /\ chances' = chances /\ fault' = fault
            /\ scan' = [scan EXCEPT !.todo = @ \ {h},
                           !.list = Append(@, [handle |-> h, mod |-> version[scan.cam][h]])]
         \/ /\ chances' \in 0..MaxChances /\ fault' = TRUE
            /\ scan' = [scan EXCEPT !.todo = @ \ {h}]
  BY InfoReadDoes
<1>2. /\ scan.at = "infos" /\ scan.cam \in Cameras
      /\ UNCHANGED <<bus, version, link, same, svc, prefs, photos, thumbs, cache, store, load,
                     leave, stray, lost>>
  BY InfoReadDoes
<1>3. ControlOK' /\ KeptOK' /\ LoadsOK(load')
  BY <1>1, <1>2 DEF ControlOK, KeptOK, ScanOK
<1>4. h \in HandlesOf[scan.cam] /\ scan.todo \subseteq HandlesOf[scan.cam]
  BY <1>2 DEF ScanOK, scanning
<1>5. /\ scan' \in Scans /\ scan'.at = "infos" /\ scan'.cam = scan.cam
      /\ scan'.todo = scan.todo \ {h}
  <2>1. CASE scan' = [scan EXCEPT !.todo = @ \ {h}]
    BY <1>2, <2>1 DEF ScanOK, Scans
  <2>2. CASE scan' = [scan EXCEPT !.todo = @ \ {h},
                            !.list = Append(@, [handle |-> h, mod |-> version[scan.cam][h]])]
    <3> DEFINE p == [handle |-> h, mod |-> version[scan.cam][h]]
    <3>1. p \in Photo
      BY <1>2, <1>4, Constants DEF ControlOK, Photo
    <3> HIDE DEF p
    <3>2. Append(scan.list, p) \in Seq(Photo)
      BY <3>1, AppendProperties DEF ScanOK, Scans
    <3>3. scan' = [scan EXCEPT !.todo = @ \ {h}, !.list = Append(@, p)]
      BY <2>2 DEF p
    <3>4. QED
      BY <1>2, <3>2, <3>3 DEF ScanOK, Scans
  <2>3. QED
    BY <1>1, <2>1, <2>2
<1>6. ScanOK'
  BY <1>2, <1>3, <1>4, <1>5 DEF ScanOK, scanning
<1>7. KnownInv'
  BY <1>2, <1>5 DEF KnownInv, Waiting
<1>8. QED
  BY <1>3, <1>6, <1>7

(* The end of the rows, and the row that begins, in what they have alike.  *)
LEMMA EndTypes ==
    ASSUME TypeInv, scan.at \in Working,
           ScanOver(svc), cache'.dir = cache.dir
    PROVE  svc' \in Services /\ ScanOK' /\ KnownInv'
<1>1. svc \in Services
  BY DEF TypeInv, ControlOK
<1>2. /\ DOMAIN load' = {} /\ svc' \in Services /\ ~svc'.pending
      /\ svc'.prompt = (svc.prompt \/ svc.pending)
      /\ svc' = [svc EXCEPT !.prompt = svc'.prompt, !.pending = svc'.pending]
      /\ scan'.at = "idle" /\ scan' \in Scans /\ LoadsOK(load')
  BY <1>1, ScanOverDoes
<1>3. /\ svc'.connected = svc.connected /\ svc'.caching = svc.caching
      /\ svc'.promptFor = svc.promptFor /\ svc'.identity = svc.identity
  BY <1>1, <1>2 DEF Services
<1>4. ScanOK'
  BY <1>2 DEF ScanOK, scanning
<1>5. KnownInv'
  BY <1>2, <1>3 DEF TypeInv, KnownInv, Working, Waiting
<1>6. QED
  BY <1>2, <1>4, <1>5

LEMMA RowsTypes ==
    ASSUME TypeInv, scan.at \in {"infos", "rows"}, NEW list \in Seq(Photo), NEW from \in Nat,
           NEW shown, NEW d, DirOK(d), Rows(svc, list, from, shown, cache, d)
    PROVE  /\ svc' \in Services /\ chances' \in 0..MaxChances /\ ScanOK'
           /\ MemoryOK(cache') /\ StoreOK(store') /\ KnownInv'
<1>1. /\ KeptOK /\ svc \in Services /\ chances \in 0..MaxChances /\ MemoryOK(cache)
      /\ scan.at \in Working
  BY DEF TypeInv, ControlOK, KeptOK, Working
<1>2. CASE RowsOver(svc, list, cache, d)
  <2>1. /\ ScanOver(svc) /\ chances' \in 0..MaxChances
        /\ MemoryOK(cache') /\ StoreOK(store') /\ cache'.dir = cache.dir
    BY <1>1, <1>2, RowsOverDoes
  <2>2. QED
    BY <1>1, <2>1, EndTypes
<1>3. ASSUME NEW start, Begins(svc, list, from, shown, d, start)
      PROVE  /\ svc' \in Services /\ chances' \in 0..MaxChances /\ ScanOK'
             /\ MemoryOK(cache') /\ StoreOK(store') /\ KnownInv'
  <2>1. /\ LoadsOK(load') /\ start \in Nat
        /\ scan' = [scan EXCEPT !.at = "rows", !.list = list, !.from = start]
        /\ svc' = svc /\ cache' = cache /\ Put(cache, d) /\ chances' = chances
    BY <1>3 DEF Begins
  <2>2. MemoryOK(cache') /\ StoreOK(store')
    BY <1>1, <2>1, PutTypes
  <2>3. /\ scan' \in Scans /\ scan'.at = "rows" /\ scan'.cam = scan.cam /\ scan'.todo = scan.todo
    BY <2>1 DEF TypeInv, ScanOK, Scans, Working
  <2>4. ScanOK'
    BY <1>1, <2>1, <2>3 DEF TypeInv, ScanOK, scanning, Working
  <2>5. KnownInv'
    BY <1>1, <2>1, <2>3 DEF TypeInv, KnownInv, Waiting, Working
  <2>6. QED
    BY <1>1, <2>1, <2>2, <2>4, <2>5
<1>4. QED
  BY <1>1, <1>2, <1>3, RowsDo

LEMMA StillListedTypes ==
    ASSUME KeptOK, NEW list
    PROVE  /\ FilesOK(StillListed(list)) /\ DOMAIN StillListed(list) \subseteq DOMAIN thumbs
           /\ \A h \in DOMAIN StillListed(list) : StillListed(list)[h] = thumbs[h]
           /\ DOMAIN StillListed(list) = DOMAIN thumbs \cap {p.handle : p \in ToSet(list)}
<1> DEFINE H == DOMAIN thumbs \cap {p.handle : p \in ToSet(list)}
<1>1. StillListed(list) = [h \in H |-> thumbs[h]]
  BY DEF StillListed
<1>2. H \subseteq DOMAIN thumbs
  OBVIOUS
<1> HIDE DEF H
<1>3. FilesOK([h \in H |-> thumbs[h]])
  BY <1>2 DEF KeptOK, FilesOK
<1>4. QED
  BY <1>1, <1>2, <1>3 DEF H

(* The directory with the list of this scan in it, if it is cached.        *)
Recorded(list) ==
    IF svc.identity # None /\ svc.caching THEN [Dir(cache) EXCEPT !.list = {list}] ELSE Dir(cache)

LEMMA RecordedTypes ==
    ASSUME KeptOK, NEW list \in Seq(Photo)
    PROVE  /\ DirOK(Recorded(list)) /\ Recorded(list).files = Dir(cache).files
           /\ Recorded(list).manifest = Dir(cache).manifest
<1>1. DirOK(Dir(cache))
  BY DirTypes DEF KeptOK
<1>2. QED
  BY <1>1 DEF Recorded, DirOK

LEMMA InfosReadDoes ==
    ASSUME InfosRead
    PROVE  /\ scan.at = "infos" /\ scan.todo = {}
           /\ photos' = scan.list /\ thumbs' = StillListed(scan.list)
           /\ UNCHANGED <<bus, version, link, same, prefs, leave, stray, fault, lost>>
           /\ \/ /\ scan.list = <<>> /\ cache' = cache /\ Put(cache, Recorded(<<>>))
                 /\ chances' = chances /\ ScanOver(svc)
              \/ Rows(svc, scan.list, 1, StillListed(scan.list), cache, Recorded(scan.list))
BY DEF InfosRead, Recorded, world, session, ghosts, Sure

LEMMA InfosReadTypes == ASSUME TypeInv, InfosRead PROVE TypeInv'
<1>1. /\ scan.at = "infos" /\ photos' = scan.list /\ thumbs' = StillListed(scan.list)
      /\ UNCHANGED <<bus, version, link, same, prefs, leave, stray, fault, lost>>
  BY InfosReadDoes
<1>2. /\ KeptOK /\ scan.list \in Seq(Photo) /\ MemoryOK(cache) /\ scan.at \in Working
      /\ chances \in 0..MaxChances
  BY <1>1 DEF TypeInv, ScanOK, Scans, KeptOK, Working, ControlOK
<1>3. /\ svc' \in Services /\ chances' \in 0..MaxChances /\ ScanOK'
      /\ MemoryOK(cache') /\ StoreOK(store') /\ KnownInv'
  <2>1. CASE /\ scan.list = <<>> /\ cache' = cache /\ Put(cache, Recorded(<<>>))
             /\ chances' = chances /\ ScanOver(svc)
    <3>1. DirOK(Recorded(<<>>))
      BY <1>2, <2>1, RecordedTypes
    <3>2. MemoryOK(cache') /\ StoreOK(store')
      BY <1>2, <2>1, <3>1, PutTypes
    <3>3. svc' \in Services /\ ScanOK' /\ KnownInv'
      BY <1>2, <2>1, EndTypes
    <3>4. QED
      BY <1>2, <2>1, <3>2, <3>3
  <2>2. CASE Rows(svc, scan.list, 1, StillListed(scan.list), cache, Recorded(scan.list))
    <3>1. DirOK(Recorded(scan.list))
      BY <1>2, RecordedTypes
    <3>2. QED
      BY <1>1, <1>2, <2>2, <3>1, RowsTypes
  <2>3. QED
    BY <2>1, <2>2, InfosReadDoes
<1>4. ControlOK'
  BY <1>1, <1>3 DEF TypeInv, ControlOK
<1>5. KeptOK'
  BY <1>1, <1>2, <1>3, StillListedTypes DEF KeptOK
<1>6. QED
  BY <1>3, <1>4, <1>5 DEF TypeInv

LEMMA RowLoadedDoes ==
    ASSUME RowLoaded
    PROVE  /\ scan.at = "rows" /\ load = NoLoads
           /\ UNCHANGED <<bus, version, link, same, prefs, photos, thumbs, leave, stray, fault, lost>>
           /\ \/ /\ svc.connected
                 /\ Rows(svc, scan.list, scan.from + RowWidth, thumbs, cache, Dir(cache))
              \/ ~svc.connected /\ RowsOver(svc, scan.list, cache, Dir(cache))
BY DEF RowLoaded, world, session, ui, ghosts

LEMMA RowLoadedTypes == ASSUME TypeInv, RowLoaded PROVE TypeInv'
<1>1. /\ scan.at = "rows"
      /\ UNCHANGED <<bus, version, link, same, prefs, photos, thumbs, leave, stray, fault, lost>>
  BY RowLoadedDoes
<1>2. /\ KeptOK /\ scan.list \in Seq(Photo) /\ MemoryOK(cache) /\ scan.at \in Working
      /\ scan.from + RowWidth \in Nat /\ DirOK(Dir(cache))
      /\ svc \in Services /\ chances \in 0..MaxChances
  <2>1. scan.from \in Nat /\ RowWidth \in Nat
    BY Constants DEF TypeInv, ScanOK, Scans
  <2>2. KeptOK /\ MemoryOK(cache) /\ DirOK(Dir(cache))
    BY DirTypes DEF TypeInv, KeptOK
  <2>3. QED
    BY <1>1, <2>1, <2>2 DEF TypeInv, ScanOK, Scans, Working, ControlOK
<1>3. /\ svc' \in Services /\ chances' \in 0..MaxChances /\ ScanOK'
      /\ MemoryOK(cache') /\ StoreOK(store') /\ KnownInv'
  <2>1. CASE Rows(svc, scan.list, scan.from + RowWidth, thumbs, cache, Dir(cache))
    BY <1>1, <1>2, <2>1, RowsTypes
  <2>2. CASE RowsOver(svc, scan.list, cache, Dir(cache))
    <3>1. /\ ScanOver(svc) /\ chances' \in 0..MaxChances
          /\ MemoryOK(cache') /\ StoreOK(store') /\ cache'.dir = cache.dir
      BY <1>2, <2>2, RowsOverDoes
    <3>2. QED
      BY <1>2, <3>1, EndTypes
  <2>3. QED
    BY <2>1, <2>2, RowLoadedDoes
<1>4. ControlOK'
  BY <1>1, <1>3 DEF TypeInv, ControlOK
<1>5. KeptOK'
  BY <1>1, <1>2, <1>3 DEF KeptOK
<1>6. QED
  BY <1>3, <1>4, <1>5 DEF TypeInv

(* The session is of the camera that is plugged in, or of the one that the *)
(* scan is about, and so is what the scan lists and loads.                 *)
LinkInv ==
    /\ same => link = bus /\ bus # None
    /\ scan.at \in Working \cup {"asking"} => link \in {None, scan.cam}
OursInv ==
    /\ scanning => \A p \in ToSet(scan.list) : p.handle \in HandlesOf[scan.cam]
    /\ \A h \in DOMAIN load :
          /\ load[h].at # "cached" => scan.at = "rows" /\ h \in HandlesOf[scan.cam]
          /\ load[h].at \in {"decoding", "encoding"} => load[h].data # NoFile
          /\ load[h].at = "encoding" => svc.caching
(* The prompt about an identity is of the one that is connected.  While    *)
(* the scan works it is pending, when it does not it is not.               *)
PromptInv ==
    /\ scan.at \notin Working => ~svc.pending
    /\ scan.at \in Working => ~svc.prompt
    /\ svc.connected /\ scan.at \notin Waiting /\ (svc.prompt \/ svc.pending) =>
           svc.promptFor = svc.identity
Grounds == TypeInv /\ LinkInv /\ OursInv /\ PromptInv

LEMMA LoadStepKeeps ==
    ASSUME TypeInv, NEW h \in DOMAIN load, LoadStep(h)
    PROVE  /\ UNCHANGED <<bus, version, link, same, svc, prefs, photos, scan, leave, stray, lost>>
           /\ chances' \in 0..MaxChances /\ fault' \in BOOLEAN
           /\ load[h] \in LoadKind /\ h \in Handles /\ scan.at \in {"snapshot", "rows"}
           /\ DOMAIN load' \subseteq DOMAIN load
           /\ \A k \in DOMAIN load' \ {h} : load'[k] = load[k]
<1>1. UNCHANGED <<bus, version, link, same, svc, prefs, photos, scan, leave, stray, lost>>
  BY DEF LoadStep, Fetched, DecodedShown, Encoded, CachedShown, world, session, ui, ghosts
<1>2. fault' \in {fault, TRUE} /\ (Sure \/ Chance \/ chances' = chances)
  BY DEF LoadStep, Fetched, DecodedShown, Encoded, CachedShown, ghosts, Sure
<1>3. fault' \in BOOLEAN /\ chances' \in 0..MaxChances
  <2>1. fault \in BOOLEAN /\ chances \in 0..MaxChances
    BY DEF TypeInv, ControlOK
  <2>2. fault' \in BOOLEAN
    BY <1>2, <2>1
  <2>3. chances' \in 0..MaxChances
    BY <1>2, <2>1, Constants DEF Sure, Chance
  <2>4. QED
    BY <2>2, <2>3
<1>4. /\ load[h] \in LoadKind /\ h \in Handles /\ scan.at \in {"snapshot", "rows"}
  BY DEF TypeInv, ScanOK, LoadsOK
<1>5. EndLoad(h) \/ \E l : load' = [load EXCEPT ![h] = l]
  <2>1. CASE Fetched(h)
    BY <2>1 DEF Fetched
  <2>2. CASE DecodedShown(h)
    <3>1. load' = [load EXCEPT ![h].at = "encoding"] => load' = [load EXCEPT ![h] = [@ EXCEPT !.at = "encoding"]]
      OBVIOUS
    <3>2. QED
      BY <2>2, <3>1 DEF DecodedShown
  <2>3. CASE Encoded(h) \/ CachedShown(h)
    BY <2>3 DEF Encoded, CachedShown
  <2>4. QED
    BY <2>1, <2>2, <2>3 DEF LoadStep
<1>6. /\ DOMAIN load' \subseteq DOMAIN load
      /\ \A k \in DOMAIN load' \ {h} : load'[k] = load[k]
  BY <1>5 DEF EndLoad
<1>7. QED
  BY <1>1, <1>3, <1>4, <1>6

(* A thumbnail is saved with an entry.                                     *)
Saves(h, e, f) == cache' = SetEntry(cache, h, e) /\ Put(cache, WriteFile(Dir(cache), h, f))

LEMMA SavesTypes ==
    ASSUME KeptOK, cache.dir # NoDir, NEW h \in Handles, NEW e \in Entry, NEW f \in Contents,
           Saves(h, e, f)
    PROVE  /\ MemoryOK(cache') /\ StoreOK(store')
           /\ cache'.dir = cache.dir /\ cache'.loaded = cache.loaded
           /\ cache'.entries = With(cache.entries, h, e)
           /\ store'[cache.dir].files = With(store[cache.dir].files, h, f)
           /\ store'[cache.dir].manifest = store[cache.dir].manifest
           /\ \A i \in Identities : i # cache.dir => store'[i] = store[i]
<1>1. MemoryOK(cache) /\ DirOK(Dir(cache)) /\ Dir(cache) = store[cache.dir]
  BY DirTypes DEF KeptOK, Dir
<1> DEFINE w == WriteFile(Dir(cache), h, f)
<1>2. DirOK(w) /\ w.manifest = store[cache.dir].manifest /\ w.files = With(store[cache.dir].files, h, f)
  BY <1>1, WriteFileTypes
<1> HIDE DEF w
<1>3. StoreOK(store') /\ store'[cache.dir] = w
      /\ \A i \in Identities : i # cache.dir => store'[i] = store[i]
  BY <1>1, <1>2, PutTypes DEF Saves, w
<1>4. /\ MemoryOK(cache') /\ cache'.dir = cache.dir /\ cache'.loaded = cache.loaded
      /\ cache'.entries = With(cache.entries, h, e)
  BY <1>1, SetEntryTypes DEF Saves
<1>5. QED
  BY <1>2, <1>3, <1>4

(* What a load is after its first answer.                                  *)
LEMMA FetchedDoes ==
    ASSUME Grounds, NEW h \in DOMAIN load, Fetched(h)
    PROVE  /\ load[h].at = "fetching" /\ thumbs' = thumbs
           /\ \/ EndLoad(h) /\ fault' = TRUE /\ UNCHANGED <<cache, store>>
              \/ \E exif \in BOOLEAN :
                    LET raw == [cam |-> link, mod |-> version[link][h], look |-> "raw"]
                        new == [raw EXCEPT !.look = Decoded("raw", exif)]
                    IN /\ Reachable /\ link = scan.cam /\ fault' = fault
                       /\ raw \in Contents /\ new \in Contents /\ new.look \in {"upright", "unread"}
                       /\ RawEntry(load[h].mod, exif) \in Entry
                       /\ load' = [load EXCEPT ![h] = [at |-> "decoding", mod |-> load[h].mod,
                                                       exif |-> exif, data |-> new]]
                       /\ IF svc.caching THEN Saves(h, RawEntry(load[h].mod, exif), raw)
                                         ELSE UNCHANGED <<cache, store>>
<1>1. load[h].at = "fetching" /\ thumbs' = thumbs
  BY DEF Fetched, ui
<1>2. CASE EndLoad(h) /\ fault' = TRUE /\ UNCHANGED <<cache, store>>
  BY <1>1, <1>2
<1>3. ASSUME Reachable, NEW exif \in BOOLEAN, UNCHANGED fault,
             load' = [load EXCEPT ![h] =
                          [at |-> "decoding", mod |-> @.mod, exif |-> exif,
                           data |-> [[cam |-> link, mod |-> version[link][h], look |-> "raw"]
                                         EXCEPT !.look = Decoded("raw", exif)]]],
             IF svc.caching
             THEN /\ cache' = SetEntry(cache, h, RawEntry(load[h].mod, exif))
                  /\ Put(cache, WriteFile(Dir(cache), h,
                                    [cam |-> link, mod |-> version[link][h], look |-> "raw"]))
             ELSE UNCHANGED <<cache, store>>
      PROVE  LET raw == [cam |-> link, mod |-> version[link][h], look |-> "raw"]
                 new == [raw EXCEPT !.look = Decoded("raw", exif)]
             IN /\ Reachable /\ link = scan.cam /\ fault' = fault
                /\ raw \in Contents /\ new \in Contents /\ new.look \in {"upright", "unread"}
                /\ RawEntry(load[h].mod, exif) \in Entry
                /\ load' = [load EXCEPT ![h] = [at |-> "decoding", mod |-> load[h].mod,
                                                exif |-> exif, data |-> new]]
                /\ IF svc.caching THEN Saves(h, RawEntry(load[h].mod, exif), raw)
                                  ELSE UNCHANGED <<cache, store>>
  <2> DEFINE raw == [cam |-> link, mod |-> version[link][h], look |-> "raw"]
             new == [raw EXCEPT !.look = Decoded("raw", exif)]
  <2>1. scan.at = "rows" /\ h \in HandlesOf[scan.cam] /\ load[h] \in LoadKind
    BY <1>1 DEF Grounds, OursInv, TypeInv, ScanOK, LoadsOK
  <2>2. link = scan.cam /\ link \in Cameras
    BY <1>3, <2>1 DEF Reachable, Grounds, LinkInv, Working, TypeInv, ControlOK
  <2>3. version[link][h] \in 1..MaxMod
    BY <2>1, <2>2 DEF Grounds, TypeInv, ControlOK
  <2>4. raw \in Contents /\ new \in Contents /\ new.look \in {"upright", "unread"}
    BY <2>2, <2>3 DEF Contents, Looks, Decoded
  <2>5. RawEntry(load[h].mod, exif) \in Entry
    BY <2>1 DEF RawEntry, Entry, LoadKind
  <2> HIDE DEF new
  <2>6. load' = [load EXCEPT ![h] = [at |-> "decoding", mod |-> load[h].mod,
                                     exif |-> exif, data |-> new]]
    BY <1>3 DEF new
  <2>7. IF svc.caching THEN Saves(h, RawEntry(load[h].mod, exif), raw) ELSE UNCHANGED <<cache, store>>
    BY <1>3 DEF Saves
  <2>8. QED
    BY <1>3, <2>2, <2>4, <2>5, <2>6, <2>7 DEF new
<1>4. QED
  BY <1>1, <1>2, <1>3 DEF Fetched

(* After a step of one load the types are those of what it left.           *)
LEMMA LoadTypes ==
    ASSUME TypeInv, NEW h \in DOMAIN load, LoadStep(h),
           MemoryOK(cache'), StoreOK(store'), FilesOK(thumbs'), cache'.dir = cache.dir,
           h \in DOMAIN load' => load'[h] \in LoadKind
    PROVE  TypeInv'
<1>1. /\ UNCHANGED <<bus, version, link, same, svc, prefs, photos, scan, leave, stray, lost>>
      /\ chances' \in 0..MaxChances /\ fault' \in BOOLEAN /\ DOMAIN load' \subseteq DOMAIN load
  BY LoadStepKeeps
<1>2. \A k \in DOMAIN load' \ {h} : load'[k] = load[k]
  BY LoadStepKeeps
<1>3. ControlOK'
  BY <1>1 DEF TypeInv, ControlOK
<1>4. LoadsOK(load')
  BY <1>1, <1>2 DEF TypeInv, ScanOK, LoadsOK
<1>5. ScanOK'
  BY <1>1, <1>4 DEF TypeInv, ScanOK, scanning
<1>6. KeptOK'
  BY <1>1 DEF TypeInv, KeptOK
<1>7. KnownInv'
  BY <1>1 DEF TypeInv, KnownInv
<1>8. QED
  BY <1>3, <1>5, <1>6, <1>7 DEF TypeInv

LEMMA FetchedTypes == ASSUME Grounds, NEW h \in DOMAIN load, Fetched(h) PROVE TypeInv'
<1>1. LoadStep(h) /\ TypeInv /\ KeptOK /\ MemoryOK(cache) /\ StoreOK(store) /\ FilesOK(thumbs)
  BY DEF LoadStep, Grounds, TypeInv, KeptOK
<1>2. load[h] \in LoadKind /\ h \in Handles /\ thumbs' = thumbs
  BY <1>1, LoadStepKeeps, FetchedDoes
<1>3. CASE EndLoad(h) /\ fault' = TRUE /\ UNCHANGED <<cache, store>>
  <2>1. h \notin DOMAIN load'
    BY <1>3 DEF EndLoad
  <2>2. QED
    BY <1>1, <1>2, <1>3, <2>1, LoadTypes
<1>4. ASSUME NEW exif \in BOOLEAN, NEW raw \in Contents, NEW new \in Contents,
             RawEntry(load[h].mod, exif) \in Entry,
             load' = [load EXCEPT ![h] = [at |-> "decoding", mod |-> load[h].mod,
                                          exif |-> exif, data |-> new]],
             IF svc.caching THEN Saves(h, RawEntry(load[h].mod, exif), raw)
                            ELSE UNCHANGED <<cache, store>>
      PROVE  TypeInv'
  <2>1. load'[h] \in LoadKind
    BY <1>2, <1>4 DEF LoadKind
  <2>2. MemoryOK(cache') /\ StoreOK(store') /\ cache'.dir = cache.dir
    <3>1. CASE svc.caching
      <4>1. cache.dir # NoDir
        BY <1>1, <3>1 DEF TypeInv, KnownInv
      <4>2. QED
        BY <1>1, <1>2, <1>4, <3>1, <4>1, SavesTypes
    <3>2. QED
      BY <1>1, <1>4, <3>1
  <2>3. QED
    BY <1>1, <1>2, <2>1, <2>2, LoadTypes
<1>5. QED
  BY <1>3, <1>4, FetchedDoes

LEMMA DecodedShownDoes ==
    ASSUME TypeInv, NEW h \in DOMAIN load, DecodedShown(h)
    PROVE  /\ load[h].at = "decoding" /\ UNCHANGED <<cache, store>>
           /\ \/ EndLoad(h) /\ fault' = TRUE /\ thumbs' = thumbs
              \/ /\ thumbs' = With(thumbs, h, load[h].data) /\ fault' = fault
                 /\ IF svc.caching
                    THEN load' = [load EXCEPT ![h] = [at |-> "encoding", mod |-> load[h].mod,
                                                      exif |-> load[h].exif, data |-> load[h].data]]
                    ELSE EndLoad(h)
<1>1. load[h] \in LoadKind
  BY DEF TypeInv, ScanOK, LoadsOK
<1>2. [load[h] EXCEPT !.at = "encoding"]
          = [at |-> "encoding", mod |-> load[h].mod, exif |-> load[h].exif, data |-> load[h].data]
  BY <1>1 DEF LoadKind
<1>3. [load EXCEPT ![h].at = "encoding"] = [load EXCEPT ![h] = [load[h] EXCEPT !.at = "encoding"]]
  OBVIOUS
<1>4. QED
  BY <1>2, <1>3 DEF DecodedShown, Shown

LEMMA DecodedShownTypes ==
    ASSUME TypeInv, NEW h \in DOMAIN load, DecodedShown(h), load[h].data # NoFile PROVE TypeInv'
<1>1. LoadStep(h) /\ KeptOK /\ MemoryOK(cache) /\ StoreOK(store) /\ FilesOK(thumbs)
  BY DEF LoadStep, TypeInv, KeptOK
<1>2. load[h] \in LoadKind /\ h \in Handles
  BY <1>1, LoadStepKeeps
<1>3. load[h].data \in Contents
  BY <1>2 DEF LoadKind
<1>4. MemoryOK(cache') /\ StoreOK(store') /\ cache'.dir = cache.dir
  BY <1>1, DecodedShownDoes
<1>5. FilesOK(thumbs')
  BY <1>1, <1>2, <1>3, DecodedShownDoes, FilesWith
<1>6. h \in DOMAIN load' => load'[h] \in LoadKind
  <2> DEFINE new == [at |-> "encoding", mod |-> load[h].mod, exif |-> load[h].exif, data |-> load[h].data]
  <2>1. new \in LoadKind
    BY <1>2, <1>3 DEF LoadKind
  <2> HIDE DEF new
  <2>2. EndLoad(h) \/ load' = [load EXCEPT ![h] = new]
    BY DecodedShownDoes DEF new
  <2>3. QED
    BY <2>1, <2>2 DEF EndLoad
<1>7. QED
  BY <1>1, <1>4, <1>5, <1>6, LoadTypes

LEMMA EncodedDoes ==
    ASSUME NEW h \in DOMAIN load, Encoded(h)
    PROVE  /\ load[h].at = "encoding" /\ EndLoad(h) /\ thumbs' = thumbs /\ fault' = fault
           /\ \/ Saves(h, EncodedEntry(load[h].mod, load[h].exif), load[h].data)
              \/ UNCHANGED <<cache, store>>
BY DEF Encoded, Saves, ui, ghosts

LEMMA EncodedTypes ==
    ASSUME TypeInv, NEW h \in DOMAIN load, Encoded(h), load[h].data # NoFile, svc.caching
    PROVE  TypeInv' /\ EncodedEntry(load[h].mod, load[h].exif) \in Entry
<1>1. LoadStep(h) /\ KeptOK /\ MemoryOK(cache) /\ StoreOK(store) /\ FilesOK(thumbs)
      /\ cache.dir # NoDir
  BY DEF LoadStep, TypeInv, KeptOK, KnownInv
<1>2. load[h] \in LoadKind /\ h \in Handles
  BY <1>1, LoadStepKeeps
<1>3. load[h].data \in Contents /\ EncodedEntry(load[h].mod, load[h].exif) \in Entry
  BY <1>2 DEF LoadKind, EncodedEntry, Entry
<1>4. MemoryOK(cache') /\ StoreOK(store') /\ cache'.dir = cache.dir
  <2>1. CASE UNCHANGED <<cache, store>>
    BY <1>1, <2>1
  <2>2. CASE Saves(h, EncodedEntry(load[h].mod, load[h].exif), load[h].data)
    BY <1>1, <1>2, <1>3, <2>2, SavesTypes
  <2>3. QED
    BY <2>1, <2>2, EncodedDoes
<1>5. thumbs' = thumbs /\ h \notin DOMAIN load'
  BY EncodedDoes DEF EndLoad
<1>6. QED
  BY <1>1, <1>3, <1>4, <1>5, LoadTypes

LEMMA CachedShownDoes ==
    ASSUME NEW h \in DOMAIN load, CachedShown(h)
    PROVE  /\ load[h].at = "cached" /\ EndLoad(h) /\ UNCHANGED <<cache, store>>
           /\ \/ /\ load[h].data # NoFile /\ thumbs' = With(thumbs, h, load[h].data)
                 /\ fault' = fault
              \/ load[h].data # NoFile /\ thumbs' = thumbs /\ fault' = TRUE
              \/ load[h].data = NoFile /\ thumbs' = thumbs /\ fault' = fault
BY DEF CachedShown, Shown

LEMMA CachedShownTypes ==
    ASSUME TypeInv, NEW h \in DOMAIN load, CachedShown(h) PROVE TypeInv'
<1>1. LoadStep(h) /\ KeptOK /\ MemoryOK(cache) /\ StoreOK(store) /\ FilesOK(thumbs)
  BY DEF LoadStep, TypeInv, KeptOK
<1>2. load[h] \in LoadKind /\ h \in Handles
  BY <1>1, LoadStepKeeps
<1>3. load[h].data # NoFile => load[h].data \in Contents
  BY <1>2 DEF LoadKind
<1>4. MemoryOK(cache') /\ StoreOK(store') /\ cache'.dir = cache.dir /\ h \notin DOMAIN load'
  BY <1>1, CachedShownDoes DEF EndLoad
<1>5. FilesOK(thumbs')
  BY <1>1, <1>2, <1>3, CachedShownDoes, FilesWith
<1>6. QED
  BY <1>1, <1>4, <1>5, LoadTypes

LEMMA LoadStepTypes == ASSUME Grounds, NEW h \in DOMAIN load, LoadStep(h) PROVE TypeInv'
<1>1. CASE Fetched(h)
  BY <1>1, FetchedTypes
<1>2. CASE DecodedShown(h)
  BY <1>2, DecodedShownDoes, DecodedShownTypes DEF Grounds, OursInv
<1>3. CASE Encoded(h)
  BY <1>3, EncodedDoes, EncodedTypes DEF Grounds, OursInv
<1>4. CASE CachedShown(h)
  BY <1>4, CachedShownTypes DEF Grounds
<1>5. QED
  BY <1>1, <1>2, <1>3, <1>4 DEF LoadStep

LEMMA ClearTypes ==
    ASSUME TypeInv, NEW s \in Services, Clear(s),
           s.connected => svc.connected /\ s.identity = svc.identity,
           s.pending = svc.pending, s.promptFor = svc.promptFor, UNCHANGED <<scan, load>>
    PROVE  svc' \in Services /\ chances' \in 0..MaxChances /\ KeptOK' /\ ScanOK' /\ KnownInv'
<1>1. KeptOK /\ chances \in 0..MaxChances
  BY DEF TypeInv, ControlOK
<1>2. /\ svc' = [s EXCEPT !.caching = FALSE, !.prompt = FALSE] /\ svc' \in Services
      /\ cache' = cache /\ KeptOK' /\ chances' \in 0..MaxChances
  BY <1>1, ClearDoes
<1>3. /\ ~svc'.caching /\ ~svc'.prompt
      /\ svc'.connected = s.connected /\ svc'.identity = s.identity
      /\ svc'.pending = svc.pending /\ svc'.promptFor = svc.promptFor
  BY <1>2 DEF Services
<1>4. ScanOK' /\ KnownInv'
  BY <1>2, <1>3 DEF TypeInv, ScanOK, KnownInv, scanning
<1>5. QED
  BY <1>2, <1>4

LEMMA GoneDoes ==
    ASSUME svc \in Services
    PROVE  /\ Gone(svc) \in Services /\ Gone(svc).connected = FALSE /\ Gone(svc).identity = None
           /\ Gone(svc).pending = svc.pending /\ Gone(svc).promptFor = svc.promptFor
           /\ Gone(svc).caching = svc.caching /\ Gone(svc).prompt = svc.prompt
BY DEF Gone, Services

LEMMA LeaveTypes == ASSUME TypeInv, Leave PROVE TypeInv'
<1>1. /\ leave' = "closing" /\ stray' \in BOOLEAN /\ fault' = TRUE /\ chances' \in 0..MaxChances
      /\ UNCHANGED <<bus, version, link, same, svc, prefs, photos, thumbs, cache, store, scan,
                     load, lost>>
  BY Constants DEF Leave, TypeInv, ControlOK, Chance, world, session, ui
<1>2. QED
  BY <1>1 DEF TypeInv, ControlOK, ScanOK, KeptOK, KnownInv, scanning

LEMMA LeaveClosedTypes == ASSUME TypeInv, LeaveClosed PROVE TypeInv'
<1>1. /\ link' = None /\ same' = FALSE
      /\ UNCHANGED <<bus, version, prefs, scan, load, stray, fault, lost>>
  BY DEF LeaveClosed, Closed, world, ghosts
<1>2. svc \in Services
  BY DEF TypeInv, ControlOK
<1>3. CASE /\ leave' = "flushing" /\ svc' = Gone(svc) /\ Sure
           /\ UNCHANGED <<photos, thumbs, cache, store>>
  <2>1. svc' \in Services /\ ~svc'.connected /\ svc'.pending = svc.pending
        /\ svc'.promptFor = svc.promptFor /\ svc'.caching = svc.caching /\ svc'.prompt = svc.prompt
    BY <1>2, <1>3, GoneDoes
  <2>2. ControlOK' /\ ScanOK' /\ KeptOK'
    BY <1>1, <1>3, <2>1 DEF TypeInv, ControlOK, ScanOK, KeptOK, scanning, Sure
  <2>3. KnownInv'
    BY <1>1, <1>3, <2>1 DEF TypeInv, KnownInv
  <2>4. QED
    BY <2>2, <2>3 DEF TypeInv
<1>4. CASE leave' = "idle" /\ Clear(Gone(svc))
  <2>1. svc' \in Services /\ chances' \in 0..MaxChances /\ KeptOK' /\ ScanOK' /\ KnownInv'
    BY <1>1, <1>2, <1>4, GoneDoes, ClearTypes
  <2>2. ControlOK'
    BY <1>1, <1>4, <2>1 DEF TypeInv, ControlOK
  <2>3. QED
    BY <2>1, <2>2 DEF TypeInv
<1>5. QED
  BY <1>3, <1>4 DEF LeaveClosed, ui

LEMMA LeaveFlushedTypes == ASSUME TypeInv, LeaveFlushed PROVE TypeInv'
<1>1. /\ leave' = "idle" /\ Clear(svc)
      /\ UNCHANGED <<bus, version, link, same, prefs, scan, load, stray, fault, lost>>
  BY DEF LeaveFlushed, world, session, ghosts
<1>2. svc \in Services
  BY DEF TypeInv, ControlOK
<1>3. svc' \in Services /\ chances' \in 0..MaxChances /\ KeptOK' /\ ScanOK' /\ KnownInv'
  BY <1>1, <1>2, ClearTypes
<1>4. ControlOK'
  BY <1>1, <1>3 DEF TypeInv, ControlOK
<1>5. QED
  BY <1>3, <1>4 DEF TypeInv

LEMMA SetCachingPreferenceTypes ==
    ASSUME TypeInv, NEW enabled \in BOOLEAN, SetCachingPreference(enabled) PROVE TypeInv'
<1> DEFINE new == With(prefs, svc.promptFor, enabled)
<1>1. /\ svc.prompt /\ prefs' = new /\ chances' \in 0..MaxChances
      /\ svc' = [svc EXCEPT !.prompt = FALSE, !.caching = enabled, !.pending = FALSE]
      /\ UNCHANGED <<bus, version, link, same, photos, thumbs, cache, store, scan, load, leave,
                     stray, fault, lost>>
  BY Constants DEF SetCachingPreference, Chance, TypeInv, ControlOK, world, session, ui, ghosts
<1>2. svc.promptFor \in Identities
  BY <1>1 DEF TypeInv, KnownInv, ControlOK, Services
<1>3. /\ new = [i \in DOMAIN new |-> new[i]] /\ DOMAIN new = DOMAIN prefs \cup {svc.promptFor}
      /\ \A i \in DOMAIN new : new[i] \in {enabled, prefs[i]}
      /\ \A i \in DOMAIN new \ DOMAIN prefs : new[i] = enabled
  BY DEF Onto, With
<1> HIDE DEF new
<1>4. /\ prefs' = [i \in DOMAIN prefs' |-> prefs'[i]] /\ DOMAIN prefs' \subseteq Identities
      /\ \A i \in DOMAIN prefs' : prefs'[i] \in BOOLEAN
  BY <1>1, <1>2, <1>3 DEF TypeInv, ControlOK
<1>5. svc \in Services
  BY DEF TypeInv, ControlOK
<1> DEFINE s == [svc EXCEPT !.prompt = FALSE]
           t == [s EXCEPT !.caching = enabled]
           u == [t EXCEPT !.pending = FALSE]
<1>6. s \in Services /\ s.connected = svc.connected /\ s.identity = svc.identity /\ ~s.prompt
  BY <1>5 DEF Services
<1>7. svc' = u
  BY <1>1
<1> HIDE DEF s
<1>8. t \in Services /\ t.connected = svc.connected /\ t.identity = svc.identity /\ ~t.prompt
  BY <1>6 DEF Services
<1> HIDE DEF t
<1>9. /\ u \in Services /\ u.connected = svc.connected /\ u.identity = svc.identity
      /\ ~u.prompt /\ ~u.pending
  BY <1>8 DEF Services
<1> HIDE DEF u
<1>10. ControlOK'
  BY <1>1, <1>4, <1>7, <1>9 DEF TypeInv, ControlOK
<1>11. ScanOK' /\ KeptOK'
  BY <1>1 DEF TypeInv, ScanOK, KeptOK, scanning
<1>12. KnownInv'
  BY <1>1, <1>7, <1>9 DEF TypeInv, KnownInv
<1>13. QED
  BY <1>10, <1>11, <1>12 DEF TypeInv

LEMMA ToggleCachingTypes ==
    ASSUME TypeInv, NEW i \in DOMAIN prefs, ToggleCaching(i) PROVE TypeInv'
<1>1. /\ prefs' = [prefs EXCEPT ![i] = ~prefs[i]] /\ chances' \in 0..MaxChances
      /\ UNCHANGED <<bus, version, link, same, svc, photos, thumbs, cache, store, scan, load, leave,
                     stray, fault, lost>>
  BY Constants DEF ToggleCaching, Chance, TypeInv, ControlOK, world, session, ui, ghosts
<1>2. /\ prefs' = [j \in DOMAIN prefs' |-> prefs'[j]] /\ DOMAIN prefs' \subseteq Identities
      /\ \A j \in DOMAIN prefs' : prefs'[j] \in BOOLEAN
  BY <1>1 DEF TypeInv, ControlOK
<1>3. ControlOK'
  BY <1>1, <1>2 DEF TypeInv, ControlOK
<1>4. QED
  BY <1>1, <1>3 DEF TypeInv, ScanOK, KeptOK, KnownInv, scanning

LEMMA DeleteCachesDoes ==
    ASSUME TypeInv, NEW ids, DeleteCaches(ids)
    PROVE  /\ ids \subseteq Identities /\ StoreOK(store')
           /\ lost' = lost \cup (ids \cap {cache.dir})
           /\ \A i \in ids : store'[i] = Delete(store[i])
           /\ \A i \in Identities \ ids : store'[i] = store[i]
           /\ chances' \in 0..MaxChances
           /\ UNCHANGED <<bus, version, link, same, svc, photos, thumbs, cache, scan, load, leave,
                          stray, fault>>
<1>1. /\ ids \subseteq DOMAIN prefs /\ chances' \in 0..MaxChances
      /\ store' = [i \in Identities |-> IF i \in ids THEN Delete(store[i]) ELSE store[i]]
      /\ lost' = lost \cup (ids \cap {cache.dir})
      /\ UNCHANGED <<bus, version, link, same, svc, photos, thumbs, cache, scan, load, leave,
                     stray, fault>>
  BY Constants DEF DeleteCaches, Chance, TypeInv, ControlOK, world, session, ui
<1>2. ids \subseteq Identities
  BY <1>1 DEF TypeInv, ControlOK
<1>3. \A i \in Identities : DirOK(store[i]) /\ DirOK(Delete(store[i]))
  BY DeleteTypes DEF TypeInv, KeptOK, StoreOK
<1>4. /\ \A i \in ids : store'[i] = Delete(store[i])
      /\ \A i \in Identities \ ids : store'[i] = store[i]
  BY <1>1, <1>2
<1>5. store' = [i \in Identities |-> store'[i]]
  BY <1>1
<1>6. StoreOK(store')
  BY <1>3, <1>4, <1>5 DEF StoreOK
<1>7. QED
  BY <1>1, <1>2, <1>4, <1>6

LEMMA DeleteCachesTypes == ASSUME TypeInv, NEW ids, DeleteCaches(ids) PROVE TypeInv'
<1>1. /\ ids \subseteq Identities /\ StoreOK(store') /\ lost' = lost \cup (ids \cap {cache.dir})
      /\ chances' \in 0..MaxChances
      /\ UNCHANGED <<bus, version, link, same, svc, photos, thumbs, cache, scan, load, leave,
                     stray, fault>>
  BY DeleteCachesDoes
<1>2. /\ prefs' = [i \in DOMAIN prefs' |-> prefs'[i]] /\ DOMAIN prefs' \subseteq Identities
      /\ \A i \in DOMAIN prefs' : prefs'[i] \in BOOLEAN
  <2> DEFINE I == DOMAIN prefs \ ids
  <2>1. prefs' = [i \in I |-> prefs[i]]
    BY DEF DeleteCaches, Restrict
  <2>2. QED
    BY <2>1 DEF TypeInv, ControlOK
<1>3. ControlOK'
  BY <1>1, <1>2 DEF TypeInv, ControlOK
<1>4. QED
  BY <1>1, <1>3 DEF TypeInv, ScanOK, KeptOK, KnownInv, scanning

(* Nothing of the application changes when a cable or a camera does.       *)
LEMMA WorldTypes ==
    ASSUME TypeInv, (\E c \in Cameras : Plug(c) \/ \E h \in HandlesOf[c] : Modify(c, h)) \/ Unplug
    PROVE  /\ TypeInv'
           /\ UNCHANGED <<link, svc, prefs, photos, thumbs, cache, store, scan, load, leave,
                          stray, fault, lost>>
<1>1. /\ UNCHANGED <<link, svc, prefs, photos, thumbs, cache, store, scan, load, leave,
                     stray, fault, lost>>
      /\ bus' \in Cameras \cup {None} /\ same' \in BOOLEAN
  BY DEF Plug, Modify, Unplug, session, ui, ghosts, TypeInv, ControlOK
<1>2. chances' \in 0..MaxChances
  BY Constants DEF Plug, Modify, Unplug, Chance, TypeInv, ControlOK
<1>3. DOMAIN version' = Cameras /\ \A c \in Cameras : version'[c] \in [HandlesOf[c] -> 1..MaxMod]
  <2>1. CASE UNCHANGED version
    BY <2>1 DEF TypeInv, ControlOK
  <2>2. ASSUME NEW c \in Cameras, NEW h \in HandlesOf[c], Modify(c, h)
        PROVE  DOMAIN version' = Cameras /\ \A d \in Cameras : version'[d] \in [HandlesOf[d] -> 1..MaxMod]
    <3>1. version[c][h] + 1 \in 1..MaxMod
      BY <2>2, Constants DEF Modify, TypeInv, ControlOK
    <3>2. version' = [version EXCEPT ![c] = [version[c] EXCEPT ![h] = version[c][h] + 1]]
      BY <2>2 DEF Modify
    <3>3. [version[c] EXCEPT ![h] = version[c][h] + 1] \in [HandlesOf[c] -> 1..MaxMod]
      BY <3>1 DEF TypeInv, ControlOK
    <3>4. QED
      BY <3>2, <3>3 DEF TypeInv, ControlOK
  <2>3. QED
    BY <2>1, <2>2 DEF Plug, Unplug
<1>4. ControlOK'
  BY <1>1, <1>2, <1>3 DEF TypeInv, ControlOK
<1>5. QED
  BY <1>1, <1>4 DEF TypeInv, ScanOK, KeptOK, KnownInv, scanning

LEMMA RelaunchTypes == ASSUME TypeInv, Relaunch PROVE TypeInv'
<1>1. /\ link' = None /\ same' = FALSE /\ svc' = Off /\ photos' = <<>> /\ thumbs' = NoThumbs
      /\ cache' = NewCache /\ scan' = NoScan /\ load' = NoLoads /\ leave' = "idle"
      /\ stray' = FALSE /\ fault' = FALSE /\ chances' \in 0..MaxChances
      /\ UNCHANGED <<bus, version, prefs, store, lost>>
  BY Constants DEF Relaunch, Chance, TypeInv, ControlOK, world
<1>2. svc' \in Services
  BY <1>1 DEF Off, Services
<1>3. ControlOK'
  BY <1>1, <1>2 DEF TypeInv, ControlOK
<1>4. ScanOK'
  BY <1>1, Constants DEF ScanOK, NoScan, NoLoads, Scans, LoadsOK, scanning
<1>5. KeptOK'
  BY <1>1, NoEntriesOK DEF TypeInv, KeptOK, MemoryOK, NewCache
<1>6. KnownInv'
  BY <1>1 DEF KnownInv, Off
<1>7. QED
  BY <1>3, <1>4, <1>5, <1>6 DEF TypeInv

LEMMA StepTypes == ASSUME Grounds, [Next]_vars PROVE TypeInv'
<1>0. TypeInv
  BY DEF Grounds
<1>1. ASSUME NEW quick \in BOOLEAN, StartScan(quick) PROVE TypeInv'
  BY <1>0, <1>1, StartScanTypes
<1>2. CASE ScanStep
  BY <1>0, <1>2, ScanClosedTypes, ConnectedTypes, AskedTypes, SnapshotShownTypes, ListedTypes,
     InfoReadTypes, InfosReadTypes, RowLoadedTypes DEF ScanStep
<1>3. CASE LeaveStep \/ Leave
  BY <1>0, <1>3, LeaveTypes, LeaveClosedTypes, LeaveFlushedTypes DEF LeaveStep
<1>4. ASSUME NEW h \in DOMAIN load, LoadStep(h) PROVE TypeInv'
  BY <1>4, LoadStepTypes
<1>5. ASSUME NEW enabled \in BOOLEAN, SetCachingPreference(enabled) PROVE TypeInv'
  BY <1>0, <1>5, SetCachingPreferenceTypes
<1>6. ASSUME NEW i \in DOMAIN prefs, ToggleCaching(i) PROVE TypeInv'
  BY <1>0, <1>6, ToggleCachingTypes
<1>7. CASE DeleteSome
  BY <1>0, <1>7, DeleteCachesTypes DEF DeleteSome
<1>8. CASE (\E c \in Cameras : Plug(c) \/ \E h \in HandlesOf[c] : Modify(c, h)) \/ Unplug
  BY <1>0, <1>8, WorldTypes
<1>9. CASE Relaunch
  BY <1>0, <1>9, RelaunchTypes
<1>10. CASE UNCHANGED vars
  BY <1>0, <1>10 DEF vars, world, session, ui, ghosts, TypeInv, ControlOK, ScanOK, KeptOK, KnownInv,
                     scanning
<1>11. QED
  BY <1>1, <1>2, <1>3, <1>4, <1>5, <1>6, <1>7, <1>8, <1>9, <1>10 DEF Next
-----------------------------------------------------------------------------
(* The steps of the scan in outline.                                       *)

(* The scan of camera c, known by identity i, begins its work.             *)
Begun(i, c) ==
    /\ svc'.connected = svc.connected /\ svc'.identity = i /\ ~svc'.prompt
    /\ svc'.pending => \/ svc'.promptFor = i
                       \/ svc.pending /\ svc'.promptFor = svc.promptFor
    /\ cache'.dir = IF svc'.caching THEN i ELSE cache.dir
    /\ scan'.at \in {"snapshot", "listing"} /\ scan'.cam = c /\ scan'.list = <<>> /\ scan'.todo = {}
    /\ \A h \in DOMAIN load' :
          /\ load'[h].at = "cached"
          /\ load'[h].data # NoFile => /\ svc'.caching /\ h \in DOMAIN store[i].files
                                       /\ load'[h].data.cam = store[i].files[h].cam
    /\ \A j \in Identities : store'[j].files = store[j].files
    /\ Opens(Aimed(svc')) /\ svc' \in Services

LEMMA ProceedBegins ==
    ASSUME TypeInv, NEW i \in Identities, NEW quick \in BOOLEAN, NEW c \in Cameras,
           NEW listed \in Seq(Photo), NEW shown,
           Proceed(CheckCaching(svc, i), quick, c, cache, listed, shown)
    PROVE  Begun(i, c) /\ thumbs' = shown
<1> DEFINE s == CheckCaching(svc, i)
<1>1. /\ s \in Services /\ s.identity = i /\ s.connected = svc.connected /\ ~s.prompt
      /\ s.pending => \/ s.promptFor = i
                      \/ svc.pending /\ s.promptFor = svc.promptFor
  BY CheckCachingDoes DEF TypeInv
<1>2. KeptOK /\ Proceed(s, quick, c, cache, listed, shown) /\ s.identity \in Identities
      /\ thumbs' = shown
  BY <1>1 DEF TypeInv, Proceed
<1> HIDE DEF s
<1>3. /\ svc' = s /\ Opens(Aimed(s))
      /\ cache'.dir = IF s.caching THEN s.identity ELSE cache.dir
      /\ \A j \in Identities : store'[j].files = store[j].files
      /\ \A h \in DOMAIN load' : load'[h].at = "cached"
      /\ \A h \in DOMAIN load' : load'[h].data # NoFile =>
             /\ s.caching /\ h \in DOMAIN store[s.identity].files
             /\ load'[h].data.cam = store[s.identity].files[h].cam
      /\ \E at \in {"snapshot", "listing"} :
             scan' = [at |-> at, quick |-> quick, cam |-> c, todo |-> {}, list |-> <<>>, from |-> 1]
  BY <1>1, <1>2, ProceedDoes
<1>4. /\ scan'.at \in {"snapshot", "listing"} /\ scan'.cam = c /\ scan'.list = <<>>
      /\ scan'.todo = {}
  BY <1>3
<1>5. QED
  BY <1>1, <1>2, <1>3, <1>4 DEF Begun

LEMMA StartScanOutline ==
    ASSUME TypeInv, NEW quick \in BOOLEAN, StartScan(quick)
    PROVE  /\ ~scanning /\ fault' = (leave # "idle")
           /\ UNCHANGED <<bus, version, link, same, prefs, leave, chances, lost>>
           /\ \/ /\ bus = None /\ svc' = [svc EXCEPT !.connected = FALSE] /\ stray' = TRUE
                 /\ UNCHANGED <<photos, thumbs, cache, store, scan, load>>
              \/ /\ bus # None /\ svc.connected /\ same /\ stray' = (leave # "idle")
                 /\ svc.identity \in Identities
                 /\ thumbs' = NoThumbs /\ Begun(svc.identity, bus)
              \/ /\ bus # None /\ ~(svc.connected /\ same) /\ stray' = (stray \/ leave # "idle")
                 /\ scan'.at = (IF svc.connected THEN "closing" ELSE "connecting")
                 /\ scan'.cam = bus /\ scan'.list = <<>>
                 /\ UNCHANGED <<svc, photos, thumbs, cache, store, load>>
<1>1. /\ ~scanning /\ fault' = (leave # "idle")
      /\ UNCHANGED <<bus, version, link, same, prefs, leave, chances, lost>>
  BY DEF StartScan, world, session
<1>2. ASSUME bus # None, svc.connected,
             Proceed(CheckCaching(svc, svc.identity), quick, bus, cache, <<>>, NoThumbs)
      PROVE  svc.identity \in Identities /\ thumbs' = NoThumbs /\ Begun(svc.identity, bus)
  <2>1. svc.identity \in Identities /\ bus \in Cameras
    BY <1>1, <1>2 DEF TypeInv, KnownInv, ControlOK, Services, scanning, Waiting
  <2>2. <<>> \in Seq(Photo)
    OBVIOUS
  <2>3. QED
    BY <1>2, <2>1, <2>2, ProceedBegins
<1>3. ASSUME scan' = [NoScan EXCEPT !.at = IF svc.connected THEN "closing" ELSE "connecting",
                                    !.quick = quick, !.cam = bus]
      PROVE  /\ scan'.at = (IF svc.connected THEN "closing" ELSE "connecting")
             /\ scan'.cam = bus /\ scan'.list = <<>>
  BY <1>3 DEF NoScan
<1>4. QED
  BY <1>1, <1>2, <1>3 DEF StartScan, ui

LEMMA AskedOutline ==
    ASSUME TypeInv, Asked
    PROVE  /\ scan.at = "asking" /\ scan.cam \in Cameras /\ thumbs' = thumbs
           /\ UNCHANGED <<bus, version, link, same, prefs, leave, stray, fault, lost>>
           /\ \E i \in {scan.cam, Fallback[scan.cam]} : Begun(i, scan.cam)
<1>1. PICK i \in {scan.cam, Fallback[scan.cam]} :
          Proceed(CheckCaching(svc, i), scan.quick, scan.cam, cache, photos, thumbs)
  BY DEF Asked
<1>2. /\ scan.at = "asking" /\ scan.cam \in Cameras /\ scan.quick \in BOOLEAN
      /\ photos \in Seq(Photo)
      /\ UNCHANGED <<bus, version, link, same, prefs, leave, stray, fault, lost>>
  BY DEF Asked, world, session, ghosts, TypeInv, ScanOK, Scans, scanning, KeptOK
<1>3. i \in Identities
  BY <1>2, Constants
<1>4. Begun(i, scan.cam) /\ thumbs' = thumbs
  BY <1>1, <1>2, <1>3, ProceedBegins
<1>5. QED
  BY <1>2, <1>4

(* The scan ends, or goes on with its work.                                *)
Ended == /\ scan'.at = "idle" /\ scan'.list = <<>> /\ DOMAIN load' = {}
         /\ svc'.connected = svc.connected /\ svc'.identity = svc.identity
         /\ svc'.caching = svc.caching /\ svc'.promptFor = svc.promptFor
         /\ ~svc'.pending /\ svc'.prompt = (svc.prompt \/ svc.pending)
         /\ cache'.dir = cache.dir
GoesOn == /\ scan'.at \in Working /\ scan'.cam = scan.cam /\ svc' = svc
          /\ \/ cache'.dir = cache.dir
             \/ svc.identity # None /\ cache'.dir = svc.identity
Work == SnapshotShown \/ Listed \/ InfoRead \/ InfosRead \/ RowLoaded

LEMMA OverEnds == ASSUME TypeInv, ScanOver(svc), cache'.dir = cache.dir PROVE Ended
<1>1. svc \in Services
  BY DEF TypeInv, ControlOK
<1>2. /\ DOMAIN load' = {} /\ scan' = NoScan /\ ~svc'.pending
      /\ svc'.prompt = (svc.prompt \/ svc.pending)
      /\ svc' = [svc EXCEPT !.prompt = svc'.prompt, !.pending = svc'.pending]
  BY <1>1, ScanOverDoes
<1>3. /\ svc'.connected = svc.connected /\ svc'.caching = svc.caching
      /\ svc'.promptFor = svc.promptFor /\ svc'.identity = svc.identity
  BY <1>1, <1>2 DEF Services
<1>4. QED
  BY <1>2, <1>3 DEF Ended, NoScan

LEMMA RowsOutline ==
    ASSUME TypeInv, scan.at \in Working, NEW list \in Seq(Photo), NEW from \in Nat, NEW shown,
           NEW d, DirOK(d),
           \/ Rows(svc, list, from, shown, cache, d)
           \/ RowsOver(svc, list, cache, d)
    PROVE  Ended \/ GoesOn
<1>1. /\ KeptOK /\ svc \in Services /\ chances \in 0..MaxChances /\ scan \in Scans
  BY DEF TypeInv, ControlOK, ScanOK
<1>2. CASE RowsOver(svc, list, cache, d)
  BY <1>1, <1>2, RowsOverDoes, OverEnds
<1>3. ASSUME NEW start, Begins(svc, list, from, shown, d, start) PROVE GoesOn
  <2>1. /\ scan' = [scan EXCEPT !.at = "rows", !.list = list, !.from = start]
        /\ svc' = svc /\ cache' = cache
    BY <1>3 DEF Begins
  <2>2. scan'.at = "rows" /\ scan'.cam = scan.cam
    BY <1>1, <2>1 DEF Scans
  <2>3. QED
    BY <2>1, <2>2 DEF GoesOn, Working
<1>4. QED
  BY <1>1, <1>2, <1>3, RowsDo

LEMMA WorkOutline ==
    ASSUME TypeInv, Work
    PROVE  /\ scan.at \in Working
           /\ UNCHANGED <<bus, version, link, same, prefs, leave, stray, lost>>
           /\ Ended \/ GoesOn
<1>1. /\ scan.at \in Working
      /\ UNCHANGED <<bus, version, link, same, prefs, leave, stray, lost>>
  BY DEF Work, SnapshotShown, Listed, InfoRead, InfosRead, RowLoaded, Working, world, session, ghosts
<1>2. /\ KeptOK /\ scan \in Scans /\ scan.list \in Seq(Photo) /\ svc \in Services
      /\ chances \in 0..MaxChances
  BY DEF TypeInv, ScanOK, Scans, ControlOK
<1> SUFFICES Ended \/ GoesOn
  BY <1>1
<1>3. CASE SnapshotShown
  BY <1>2, <1>3 DEF SnapshotShown, GoesOn, Working, Scans
<1>4. CASE Listed
  <2>1. CASE ScanOver(svc) /\ UNCHANGED <<cache, store>>
    BY <2>1, OverEnds
  <2>2. CASE /\ \E found \in SUBSET HandlesOf[scan.cam] : scan' = [scan EXCEPT !.at = "infos", !.todo = found]
             /\ LET m    == IF svc.identity = None THEN cache ELSE InitCache(cache, svc.identity)
                    load2 == svc.identity # None /\ svc.caching
                IN IF load2 THEN cache' = LoadManifest(m, Dir(m)) /\ Put(m, Loading(m, Dir(m)))
                            ELSE cache' = m /\ UNCHANGED store
             /\ svc' = svc
    <3> DEFINE m == IF svc.identity = None THEN cache ELSE InitCache(cache, svc.identity)
    <3>1. scan'.at \in Working /\ scan'.cam = scan.cam
      BY <1>2, <2>2 DEF Scans, Working
    <3>2. /\ MemoryOK(m) /\ DirOK(Dir(m))
          /\ m.dir = IF svc.identity = None THEN cache.dir ELSE svc.identity
      BY <1>2, InitCacheTypes, DirTypes DEF KeptOK, Services
    <3>3. cache' = m \/ cache' = LoadManifest(m, Dir(m))
      BY <2>2
    <3> HIDE DEF m
    <3>4. cache'.dir = m.dir
      BY <3>2, <3>3, LoadManifestTypes
    <3>5. QED
      BY <2>2, <3>1, <3>2, <3>4 DEF GoesOn
  <2>3. QED
    BY <1>4, <2>1, <2>2 DEF Listed
<1>5. CASE InfoRead
  BY <1>2, <1>5, InfoReadDoes DEF GoesOn, Working, Scans
<1>6. CASE InfosRead
  <2>1. CASE /\ scan.list = <<>> /\ cache' = cache /\ Put(cache, Recorded(<<>>))
             /\ chances' = chances /\ ScanOver(svc)
    BY <2>1, OverEnds
  <2>2. CASE Rows(svc, scan.list, 1, StillListed(scan.list), cache, Recorded(scan.list))
    BY <1>1, <1>2, <2>2, RecordedTypes, RowsOutline
  <2>3. QED
    BY <1>6, <2>1, <2>2, InfosReadDoes
<1>7. CASE RowLoaded
  <2>1. scan.from + RowWidth \in Nat /\ DirOK(Dir(cache))
    BY <1>2, Constants, DirTypes DEF Scans, KeptOK
  <2>2. QED
    BY <1>1, <1>2, <1>7, <2>1, RowLoadedDoes, RowsOutline
<1>8. QED
  BY <1>1, <1>3, <1>4, <1>5, <1>6, <1>7 DEF Work

(* The steps around the scan in outline.                                   *)
Cleared ==
    /\ svc'.pending = svc.pending /\ svc'.promptFor = svc.promptFor
    /\ ~svc'.caching /\ ~svc'.prompt /\ thumbs' = NoThumbs /\ cache' = cache
    /\ \A i \in Identities : store'[i].files = store[i].files
    /\ \A i \in Identities : i # cache.dir => store'[i] = store[i]
    /\ cache.dir # NoDir => store'[cache.dir].manifest \in {{}, {cache.entries}}

LEMMA ClearOutline ==
    ASSUME TypeInv, NEW s \in Services, Clear(s),
           s.pending = svc.pending, s.promptFor = svc.promptFor
    PROVE  Cleared /\ svc'.connected = s.connected /\ svc'.identity = s.identity
<1>1. KeptOK /\ chances \in 0..MaxChances
  BY DEF TypeInv, ControlOK
<1>2. /\ svc' = [s EXCEPT !.caching = FALSE, !.prompt = FALSE]
      /\ thumbs' = NoThumbs /\ cache' = cache
      /\ \A i \in Identities : /\ store'[i].files = store[i].files
                               /\ store'[i].list = store[i].list
      /\ \A i \in Identities : i # cache.dir => store'[i] = store[i]
      /\ cache.dir # NoDir => store'[cache.dir].manifest \in {{}, {cache.entries}}
  BY <1>1, ClearDoes
<1>3. /\ ~svc'.caching /\ ~svc'.prompt /\ svc'.connected = s.connected
      /\ svc'.identity = s.identity
      /\ svc'.pending = svc.pending /\ svc'.promptFor = svc.promptFor
  BY <1>2 DEF Services
<1>4. QED
  BY <1>2, <1>3 DEF Cleared

LEMMA ScanClosedOutline ==
    ASSUME TypeInv, ScanClosed
    PROVE  /\ scan.at = "closing" /\ scan'.at = "connecting"
           /\ scan'.cam = scan.cam /\ scan'.list = scan.list
           /\ link' = None /\ same' = FALSE /\ stray' = (leave # "idle")
           /\ svc'.connected = FALSE /\ svc'.identity = None /\ Cleared
           /\ UNCHANGED <<bus, version, prefs, load, leave, fault, lost>>
<1>1. /\ scan.at = "closing" /\ Closed /\ Clear(Gone(svc))
      /\ scan' = [scan EXCEPT !.at = "connecting"] /\ stray' = (leave # "idle")
      /\ UNCHANGED <<bus, version, prefs, load, leave, fault, lost>>
  BY DEF ScanClosed, world
<1>2. svc \in Services /\ scan \in Scans
  BY DEF TypeInv, ControlOK, ScanOK
<1>3. QED
  BY <1>1, <1>2, GoneDoes, ClearOutline DEF Closed, Scans

LEMMA ConnectedOutline ==
    ASSUME TypeInv, Connected
    PROVE  /\ scan.at = "connecting" /\ scan.cam \in Cameras /\ DOMAIN load = {}
           /\ UNCHANGED <<bus, version, prefs, photos, thumbs, cache, store, leave, stray, lost>>
           /\ \/ /\ bus = scan.cam /\ link' = bus /\ same' = TRUE
                 /\ svc' = [svc EXCEPT !.connected = TRUE]
                 /\ scan'.at = "asking" /\ scan'.cam = scan.cam /\ scan'.list = scan.list
                 /\ UNCHANGED <<load, fault>>
              \/ /\ link' = None /\ same' = FALSE /\ svc'.connected = FALSE /\ ~svc'.pending
                 /\ scan'.at = "idle" /\ scan'.list = <<>> /\ DOMAIN load' = {}
                 /\ fault' = TRUE
<1>1. /\ scan.at = "connecting" /\ scan.cam \in Cameras /\ DOMAIN load = {}
      /\ UNCHANGED <<bus, version, prefs, photos, thumbs, cache, store, leave, stray, lost>>
  BY DEF Connected, world, ui, TypeInv, ScanOK, scanning
<1>2. svc \in Services /\ scan \in Scans
  BY DEF TypeInv, ControlOK, ScanOK
<1>3. CASE Closed /\ ScanOver([svc EXCEPT !.connected = FALSE]) /\ fault' = TRUE
  <2> DEFINE s == [svc EXCEPT !.connected = FALSE]
  <2>1. s \in Services /\ s.connected = FALSE
    BY <1>2 DEF Services
  <2>2. ScanOver(s)
    BY <1>3
  <2> HIDE DEF s
  <2>3. /\ DOMAIN load' = {} /\ ~svc'.pending /\ scan' = NoScan
        /\ svc' = [s EXCEPT !.prompt = svc'.prompt, !.pending = svc'.pending]
    BY <2>1, <2>2, ScanOverDoes
  <2>4. svc'.connected = s.connected
    BY <2>1, <2>3 DEF Services
  <2>5. QED
    BY <1>1, <1>3, <2>1, <2>3, <2>4 DEF NoScan, Closed
<1>4. CASE /\ bus = scan.cam /\ link' = bus /\ same' = TRUE
           /\ svc' = [svc EXCEPT !.connected = TRUE]
           /\ scan' = [scan EXCEPT !.at = "asking"]
           /\ UNCHANGED <<load, fault>>
  BY <1>1, <1>2, <1>4 DEF Scans
<1>5. QED
  BY <1>3, <1>4 DEF Connected

LEMMA LeaveOutline ==
    ASSUME Leave
    PROVE  /\ svc.connected /\ leave = "idle" /\ leave' = "closing"
           /\ stray' = (stray \/ scanning) /\ fault' = TRUE
           /\ UNCHANGED <<bus, version, link, same, svc, prefs, photos, thumbs, cache, store, scan,
                          load, lost>>
BY DEF Leave, world, session, ui

LEMMA LeaveClosedOutline ==
    ASSUME TypeInv, LeaveClosed
    PROVE  /\ leave = "closing" /\ link' = None /\ same' = FALSE
           /\ svc'.connected = FALSE /\ svc'.identity = None
           /\ UNCHANGED <<bus, version, prefs, scan, load, stray, fault, lost>>
           /\ \/ /\ leave' = "flushing" /\ svc'.pending = svc.pending /\ svc.caching /\ Saving
                 /\ svc'.promptFor = svc.promptFor /\ svc'.caching = svc.caching
                 /\ svc'.prompt = svc.prompt /\ UNCHANGED <<photos, thumbs, cache, store>>
              \/ leave' = "idle" /\ ~(svc.caching /\ Saving) /\ Cleared
<1>1. svc \in Services
  BY DEF TypeInv, ControlOK
<1>2. /\ leave = "closing" /\ link' = None /\ same' = FALSE
      /\ UNCHANGED <<bus, version, prefs, scan, load, stray, fault, lost>>
  BY DEF LeaveClosed, Closed, world, ghosts
<1>3. CASE /\ svc.caching /\ Saving /\ leave' = "flushing" /\ svc' = Gone(svc)
           /\ UNCHANGED <<photos, thumbs, cache, store>>
  BY <1>1, <1>2, <1>3, GoneDoes
<1>4. CASE leave' = "idle" /\ ~(svc.caching /\ Saving) /\ Clear(Gone(svc))
  BY <1>1, <1>2, <1>4, GoneDoes, ClearOutline
<1>5. QED
  BY <1>3, <1>4 DEF LeaveClosed, ui

LEMMA LeaveFlushedOutline ==
    ASSUME TypeInv, LeaveFlushed
    PROVE  /\ leave = "flushing" /\ leave' = "idle" /\ ~Saving /\ Cleared
           /\ svc'.connected = svc.connected /\ svc'.identity = svc.identity
           /\ UNCHANGED <<bus, version, link, same, prefs, scan, load, stray, fault, lost>>
<1>1. svc \in Services
  BY DEF TypeInv, ControlOK
<1>2. QED
  BY <1>1, ClearOutline DEF LeaveFlushed, world, session, ghosts

LEMMA SetCachingPreferenceOutline ==
    ASSUME TypeInv, NEW enabled \in BOOLEAN, SetCachingPreference(enabled)
    PROVE  /\ svc.prompt /\ svc'.connected = svc.connected /\ svc'.identity = svc.identity
           /\ ~svc'.prompt /\ ~svc'.pending
           /\ UNCHANGED <<bus, version, link, same, photos, thumbs, cache, store, scan, load, leave,
                          stray, fault, lost>>
<1> DEFINE s == [svc EXCEPT !.prompt = FALSE]
           t == [s EXCEPT !.caching = enabled]
           u == [t EXCEPT !.pending = FALSE]
<1>1. s \in Services /\ s.connected = svc.connected /\ s.identity = svc.identity /\ ~s.prompt
  BY DEF TypeInv, ControlOK, Services
<1>2. svc' = u
  BY DEF SetCachingPreference
<1> HIDE DEF s
<1>3. t \in Services /\ t.connected = svc.connected /\ t.identity = svc.identity /\ ~t.prompt
  BY <1>1 DEF Services
<1> HIDE DEF t
<1>4. u.connected = svc.connected /\ u.identity = svc.identity /\ ~u.prompt /\ ~u.pending
  BY <1>3 DEF Services
<1> HIDE DEF u
<1>5. QED
  BY <1>2, <1>4 DEF SetCachingPreference, world, session, ui, ghosts

(* What the settings, the cable and the cameras do changes nothing of it.  *)
Outside == \/ \E i \in DOMAIN prefs : ToggleCaching(i)
           \/ DeleteSome \/ Unplug
           \/ \E c \in Cameras : Plug(c) \/ \E h \in HandlesOf[c] : Modify(c, h)
LEMMA OutsideOutline ==
    ASSUME TypeInv, Outside
    PROVE  /\ UNCHANGED <<link, svc, photos, thumbs, cache, scan, load, leave, stray, fault>>
           /\ \/ UNCHANGED <<bus, same>>
              \/ bus = None /\ bus' \in Cameras /\ same' = same
              \/ same' = FALSE
           /\ lost \subseteq lost'
<1>1. CASE DeleteSome
  BY <1>1, DeleteCachesDoes DEF DeleteSome
<1>2. CASE (\E i \in DOMAIN prefs : ToggleCaching(i)) \/ Unplug
  BY <1>2 DEF ToggleCaching, Unplug, world, session, ui, ghosts
<1>3. CASE \E c \in Cameras : Plug(c) \/ \E h \in HandlesOf[c] : Modify(c, h)
  BY <1>3 DEF Plug, Modify, session, ui, ghosts
<1>4. QED
  BY <1>1, <1>2, <1>3 DEF Outside

LEMMA NextSteps ==
    ASSUME [Next]_vars
    PROVE  \/ \E quick \in BOOLEAN : StartScan(quick)
           \/ ScanClosed \/ Connected \/ Asked \/ Work
           \/ Leave \/ LeaveClosed \/ LeaveFlushed
           \/ \E h \in DOMAIN load : LoadStep(h)
           \/ \E enabled \in BOOLEAN : SetCachingPreference(enabled)
           \/ Outside \/ Relaunch \/ UNCHANGED vars
BY DEF Next, ScanStep, LeaveStep, Work, Outside
-----------------------------------------------------------------------------
(* The session, the prompt, and what is listed and loaded, step by step.   *)
LEMMA LinkStep == ASSUME Grounds, [Next]_vars PROVE LinkInv'
<1>0. TypeInv /\ LinkInv /\ bus \in Cameras \cup {None}
  BY DEF Grounds, TypeInv, ControlOK
<1> USE DEF LinkInv
<1>1. ASSUME NEW quick \in BOOLEAN, StartScan(quick) PROVE LinkInv'
  BY <1>0, <1>1, StartScanOutline DEF Begun, scanning, Working
<1>2. CASE ScanClosed
  BY <1>0, <1>2, ScanClosedOutline
<1>3. CASE Connected
  BY <1>0, <1>3, Constants, ConnectedOutline
<1>4. CASE Asked
  BY <1>0, <1>4, AskedOutline DEF Begun, Working
<1>5. CASE Work
  BY <1>0, <1>5, WorkOutline DEF Ended, GoesOn, Working
<1>6. CASE Leave
  BY <1>0, <1>6, LeaveOutline
<1>7. CASE LeaveClosed
  BY <1>0, <1>7, LeaveClosedOutline
<1>8. CASE LeaveFlushed
  BY <1>0, <1>8, LeaveFlushedOutline
<1>9. ASSUME NEW h \in DOMAIN load, LoadStep(h) PROVE LinkInv'
  BY <1>0, <1>9, LoadStepKeeps
<1>10. ASSUME NEW enabled \in BOOLEAN, SetCachingPreference(enabled) PROVE LinkInv'
  BY <1>0, <1>10, SetCachingPreferenceOutline
<1>11. CASE Outside
  <2>1. /\ UNCHANGED <<link, scan>>
        /\ \/ UNCHANGED <<bus, same>>
           \/ bus = None /\ bus' \in Cameras /\ same' = same
           \/ same' = FALSE
    BY <1>0, <1>11, OutsideOutline
  <2>2. ~same' \/ UNCHANGED <<bus, same>>
    BY <1>0, <2>1
  <2>3. QED
    BY <1>0, <2>1, <2>2
<1>12. CASE Relaunch
  BY <1>12 DEF Relaunch
<1>13. CASE UNCHANGED vars
  BY <1>0, <1>13 DEF vars, world, session
<1>14. QED
  BY <1>1, <1>2, <1>3, <1>4, <1>5, <1>6, <1>7, <1>8, <1>9, <1>10, <1>11, <1>12, <1>13, NextSteps

LEMMA PromptStep == ASSUME Grounds, [Next]_vars PROVE PromptInv'
<1>0. TypeInv /\ PromptInv /\ svc \in Services
  BY DEF Grounds, TypeInv, ControlOK
<1> USE DEF PromptInv
<1>1. ASSUME NEW quick \in BOOLEAN, StartScan(quick) PROVE PromptInv'
  <2>1. CASE svc' = [svc EXCEPT !.connected = FALSE] /\ UNCHANGED scan
    BY <1>0, <2>1 DEF Services
  <2>2. CASE Begun(svc.identity, bus)
    BY <1>0, <1>1, <2>2, StartScanOutline DEF Begun, scanning, Working
  <2>3. CASE UNCHANGED svc /\ scan'.at \in {"closing", "connecting"}
    BY <1>0, <1>1, <2>3, StartScanOutline DEF scanning, Working, Waiting
  <2>4. QED
    BY <1>0, <1>1, <2>1, <2>2, <2>3, StartScanOutline
<1>2. CASE ScanClosed
  BY <1>0, <1>2, ScanClosedOutline DEF Cleared, Working
<1>3. CASE Connected
  <2>1. CASE svc' = [svc EXCEPT !.connected = TRUE] /\ scan'.at = "asking"
    BY <1>0, <1>3, <2>1, ConnectedOutline DEF Working, Waiting, Services
  <2>2. CASE svc'.connected = FALSE /\ ~svc'.pending /\ scan'.at = "idle"
    BY <2>2 DEF Working
  <2>3. QED
    BY <1>0, <1>3, <2>1, <2>2, ConnectedOutline
<1>4. CASE Asked
  BY <1>0, <1>4, AskedOutline DEF Begun, Working
<1>5. CASE Work
  BY <1>0, <1>5, WorkOutline DEF Ended, GoesOn, Working, Waiting
<1>6. CASE Leave
  BY <1>0, <1>6, LeaveOutline
<1>7. CASE LeaveClosed
  BY <1>0, <1>7, LeaveClosedOutline DEF Cleared
<1>8. CASE LeaveFlushed
  BY <1>0, <1>8, LeaveFlushedOutline DEF Cleared
<1>9. ASSUME NEW h \in DOMAIN load, LoadStep(h) PROVE PromptInv'
  BY <1>0, <1>9, LoadStepKeeps
<1>10. ASSUME NEW enabled \in BOOLEAN, SetCachingPreference(enabled) PROVE PromptInv'
  BY <1>0, <1>10, SetCachingPreferenceOutline
<1>11. CASE Outside
  BY <1>0, <1>11, OutsideOutline
<1>12. CASE Relaunch
  BY <1>12 DEF Relaunch, Off, NoScan, Working
<1>13. CASE UNCHANGED vars
  BY <1>0, <1>13 DEF vars
<1>14. QED
  BY <1>1, <1>2, <1>3, <1>4, <1>5, <1>6, <1>7, <1>8, <1>9, <1>10, <1>11, <1>12, <1>13, NextSteps

(* The rows end, and photos that are gone may have left the cache ...      *)
Purged ==
    /\ cache'.loaded = cache.loaded
    /\ \A i \in Identities : i # cache.dir => store'[i] = store[i]
    /\ \E gone \in SUBSET DOMAIN cache.entries :
          /\ DOMAIN cache'.entries = DOMAIN cache.entries \ gone
          /\ \A h \in DOMAIN cache'.entries : cache'.entries[h] = cache.entries[h]
          /\ cache.dir # NoDir =>
                 /\ DOMAIN store'[cache.dir].files = DOMAIN store[cache.dir].files \ gone
                 /\ \A h \in DOMAIN store'[cache.dir].files :
                        store'[cache.dir].files[h] = store[cache.dir].files[h]
                 /\ \/ store'[cache.dir].manifest \in {{}, {cache'.entries}}
                    \/ gone = {} /\ store'[cache.dir].manifest = store[cache.dir].manifest

(* ... or a row begins at a position, with a load for each photo of it     *)
(* that is not shown.                                                      *)
LoadBegun(h, p) ==
    /\ p.handle = h /\ load'[h].mod = p.mod /\ load'[h].at \in {"cached", "fetching"}
    /\ load'[h].at = "fetching" => /\ svc.caching /\ h \in DOMAIN cache.entries =>
                                          cache.entries[h].mod # p.mod
    /\ load'[h].at = "cached" => svc.caching /\ h \in DOMAIN cache.entries
    /\ load'[h].data # NoFile => /\ svc.caching /\ h \in DOMAIN store[cache.dir].files
                                 /\ load'[h].data.cam = store[cache.dir].files[h].cam
    /\ load'[h].at = "cached" /\ load'[h].data = NoFile => h \notin DOMAIN store[cache.dir].files
RowBegun(start) ==
    /\ scan'.at = "rows" /\ scan'.cam = scan.cam /\ scan'.todo = scan.todo
    /\ scan'.list = scan.list /\ scan'.from = start
    /\ svc' = svc /\ cache' = cache
    /\ \A i \in Identities : /\ store'[i].files = store[i].files
                             /\ store'[i].manifest = store[i].manifest
    /\ DOMAIN load' = {scan.list[i].handle : i \in Row(scan.list, start, thumbs')}
    /\ \A h \in DOMAIN load' : \E p \in ToSet(scan.list) : LoadBegun(h, p)

LEMMA PurgedBy ==
    ASSUME TypeInv, NEW list \in Seq(Photo), NEW d, DirOK(d), d.files = Dir(cache).files,
           d.manifest = Dir(cache).manifest, RowsOver(svc, list, cache, d)
    PROVE  Ended /\ Purged
<1>1. /\ KeptOK /\ svc \in Services /\ chances \in 0..MaxChances
  BY DEF TypeInv, ControlOK
<1>2. /\ ScanOver(svc) /\ cache'.dir = cache.dir /\ cache'.loaded = cache.loaded
      /\ \A i \in Identities : i # cache.dir => store'[i] = store[i]
      /\ \E gone \in SUBSET DOMAIN cache.entries :
            /\ DOMAIN cache'.entries = DOMAIN cache.entries \ gone
            /\ \A h \in DOMAIN cache'.entries : cache'.entries[h] = cache.entries[h]
            /\ cache.dir # NoDir =>
                   /\ DOMAIN store'[cache.dir].files = DOMAIN d.files \ gone
                   /\ \A h \in DOMAIN store'[cache.dir].files :
                          store'[cache.dir].files[h] = d.files[h]
                   /\ \/ store'[cache.dir].manifest \in {{}, {cache'.entries}}
                      \/ gone = {} /\ store'[cache.dir].manifest = d.manifest
  BY <1>1, RowsOverDoes
<1>3. cache.dir # NoDir => d.files = store[cache.dir].files /\ d.manifest = store[cache.dir].manifest
  BY DEF Dir
<1>4. QED
  BY <1>2, <1>3, OverEnds DEF Purged

LEMMA PutAside ==
    ASSUME TypeInv, NEW d, DirOK(d), d.files = Dir(cache).files, d.manifest = Dir(cache).manifest,
           Put(cache, d)
    PROVE  \A i \in Identities : /\ store'[i].files = store[i].files
                                 /\ store'[i].manifest = store[i].manifest
<1>1. KeptOK /\ MemoryOK(cache)
  BY DEF TypeInv, KeptOK
<1>2. /\ cache.dir # NoDir => store'[cache.dir] = d
      /\ \A i \in Identities : i # cache.dir => store'[i] = store[i]
  BY <1>1, PutTypes
<1>3. QED
  BY <1>2, Constants DEF Dir

LEMMA BegunBy ==
    ASSUME TypeInv, scan.list \in Seq(Photo), NEW from, NEW d, DirOK(d),
           d.files = Dir(cache).files, d.manifest = Dir(cache).manifest, NEW start,
           Begins(svc, scan.list, from, thumbs', d, start)
    PROVE  RowBegun(start) /\ start \in Nat /\ start >= from
<1>1. /\ KeptOK /\ svc \in Services /\ MemoryOK(cache) /\ scan \in Scans
  BY DEF TypeInv, ControlOK, KeptOK, ScanOK
<1>2. /\ DOMAIN load' = {scan.list[i].handle : i \in Row(scan.list, start, thumbs')}
      /\ \A h \in DOMAIN load' :
             \E p \in ToSet(scan.list) : p.handle = h /\ load'[h] = NewLoad(p, svc, cache, d)
      /\ scan' = [scan EXCEPT !.at = "rows", !.list = scan.list, !.from = start]
      /\ svc' = svc /\ cache' = cache /\ Put(cache, d)
      /\ start \in Nat /\ start >= from
  BY DEF Begins
<1>3. scan'.at = "rows" /\ scan'.cam = scan.cam /\ scan'.todo = scan.todo
      /\ scan'.list = scan.list /\ scan'.from = start
  BY <1>1, <1>2 DEF Scans
<1>4. \A i \in Identities : /\ store'[i].files = store[i].files
                            /\ store'[i].manifest = store[i].manifest
  BY <1>2, PutAside
<1>5. svc.caching => d.files = store[cache.dir].files
  BY DEF Dir, TypeInv, KnownInv
<1>6. ToSet(scan.list) \subseteq Photo
  BY ToSetFinite
<1>7. ASSUME NEW h \in DOMAIN load' PROVE \E p \in ToSet(scan.list) : LoadBegun(h, p)
  <2>1. PICK p \in ToSet(scan.list) : p.handle = h /\ load'[h] = NewLoad(p, svc, cache, d)
    BY <1>2
  <2> DEFINE l == NewLoad(p, svc, cache, d)
             hit == svc.caching /\ p.handle \in DOMAIN cache.entries
                    /\ cache.entries[p.handle].mod = p.mod
  <2>2. /\ l.mod = p.mod /\ l.at = (IF hit THEN "cached" ELSE "fetching")
        /\ l.data # NoFile => /\ hit /\ p.handle \in DOMAIN d.files
                              /\ l.data.cam = d.files[p.handle].cam
        /\ hit /\ l.data = NoFile => p.handle \notin DOMAIN d.files
    BY <1>1, <1>6, NewLoadTypes
  <2>3. load'[h] = l
    BY <2>1
  <2> HIDE DEF l
  <2>4. LoadBegun(h, p)
    BY <1>5, <2>1, <2>2, <2>3 DEF LoadBegun
  <2>5. QED
    BY <2>4
<1>8. QED
  BY <1>2, <1>3, <1>4, <1>7 DEF RowBegun

LEMMA RowWorkDoes ==
    ASSUME TypeInv, InfosRead \/ RowLoaded
    PROVE  /\ scan.at \in {"infos", "rows"} /\ scan.list \in Seq(Photo)
           /\ UNCHANGED <<bus, version, link, same, prefs, leave, stray, fault, lost>>
           /\ \/ /\ scan.at = "infos" /\ scan.todo = {}
                 /\ thumbs' = StillListed(scan.list) /\ photos' = scan.list
              \/ /\ scan.at = "rows" /\ load = NoLoads
                 /\ thumbs' = thumbs /\ photos' = photos
           /\ \/ Ended /\ Purged
              \/ \E start \in Nat : RowBegun(start)
<1>1. /\ KeptOK /\ scan.list \in Seq(Photo) /\ MemoryOK(cache) /\ DirOK(Dir(cache))
  <2>1. KeptOK /\ scan.list \in Seq(Photo) /\ MemoryOK(cache)
    BY DEF TypeInv, ScanOK, Scans, KeptOK
  <2>2. QED
    BY <2>1, DirTypes
<1>2. CASE InfosRead
  <2>1. /\ scan.at = "infos" /\ scan.todo = {}
        /\ photos' = scan.list /\ thumbs' = StillListed(scan.list)
        /\ UNCHANGED <<bus, version, link, same, prefs, leave, stray, fault, lost>>
    BY <1>2, InfosReadDoes
  <2> DEFINE d == Recorded(scan.list)
  <2>2. DirOK(d) /\ d.files = Dir(cache).files /\ d.manifest = Dir(cache).manifest
    BY <1>1, RecordedTypes
  <2>3. CASE /\ scan.list = <<>> /\ cache' = cache /\ Put(cache, Recorded(<<>>))
             /\ ScanOver(svc)
    <3>1. \A i \in Identities : /\ store'[i].files = store[i].files
                                /\ store'[i].manifest = store[i].manifest
      BY <2>2, <2>3, PutAside
    <3>2. \A i \in Identities : i # cache.dir => store'[i] = store[i]
      BY <1>1, <2>2, <2>3, PutTypes
    <3>3. cache.dir # NoDir => cache.dir \in Identities
      BY <1>1 DEF MemoryOK
    <3>4. Purged
      <4>1. /\ {} \in SUBSET DOMAIN cache.entries
            /\ DOMAIN cache'.entries = DOMAIN cache.entries \ {}
            /\ \A h \in DOMAIN cache'.entries : cache'.entries[h] = cache.entries[h]
            /\ cache.dir # NoDir =>
                   /\ DOMAIN store'[cache.dir].files = DOMAIN store[cache.dir].files \ {}
                   /\ \A h \in DOMAIN store'[cache.dir].files :
                          store'[cache.dir].files[h] = store[cache.dir].files[h]
                   /\ store'[cache.dir].manifest = store[cache.dir].manifest
        BY <2>3, <3>1, <3>3
      <4>2. QED
        BY <2>3, <3>2, <4>1 DEF Purged
    <3>5. QED
      BY <2>1, <2>3, <3>4, <1>1, OverEnds
  <2>4. CASE Rows(svc, scan.list, 1, StillListed(scan.list), cache, Recorded(scan.list))
    <3>1. svc \in Services
      BY DEF TypeInv, ControlOK
    <3>2. CASE RowsOver(svc, scan.list, cache, d)
      BY <1>1, <2>1, <2>2, <3>2, PurgedBy
    <3>3. ASSUME NEW start, Begins(svc, scan.list, 1, StillListed(scan.list), d, start)
          PROVE  start \in Nat /\ RowBegun(start)
      <4>1. Begins(svc, scan.list, 1, thumbs', d, start)
        BY <2>1, <3>3
      <4>2. QED
        BY <1>1, <2>2, <4>1, BegunBy
    <3>4. QED
      BY <1>1, <2>1, <2>2, <2>4, <3>1, <3>2, <3>3, RowsDo
  <2>5. QED
    BY <1>2, <2>3, <2>4, InfosReadDoes
<1>3. CASE RowLoaded
  <2>1. /\ scan.at = "rows" /\ load = NoLoads
        /\ UNCHANGED <<bus, version, link, same, prefs, photos, thumbs, leave, stray, fault, lost>>
    BY <1>3, RowLoadedDoes
  <2>2. CASE RowsOver(svc, scan.list, cache, Dir(cache))
    BY <1>1, <2>1, <2>2, PurgedBy
  <2>3. CASE Rows(svc, scan.list, scan.from + RowWidth, thumbs, cache, Dir(cache))
    <3>1. svc \in Services /\ scan.from + RowWidth \in Nat
      BY Constants DEF TypeInv, ControlOK, ScanOK, Scans
    <3>2. ASSUME NEW start, Begins(svc, scan.list, scan.from + RowWidth, thumbs, Dir(cache), start)
          PROVE  start \in Nat /\ RowBegun(start)
      <4>1. Begins(svc, scan.list, scan.from + RowWidth, thumbs', Dir(cache), start)
        BY <2>1, <3>2
      <4>2. QED
        BY <1>1, <4>1, BegunBy
    <3>3. QED
      BY <1>1, <2>1, <2>2, <2>3, <3>1, <3>2, RowsDo
  <2>4. QED
    BY <1>3, <2>2, <2>3, RowLoadedDoes
<1>4. QED
  BY <1>2, <1>3
(* The traversal ends the scan, or has the cache object of the camera.     *)
Turned == IF svc.identity = None THEN cache ELSE InitCache(cache, svc.identity)

LEMMA ListedOutline ==
    ASSUME TypeInv, Listed
    PROVE  /\ scan.at = "listing" /\ DOMAIN load = {} /\ thumbs' = thumbs
           /\ UNCHANGED <<bus, version, link, same, prefs, leave, stray, lost>>
           /\ \/ Ended /\ fault' = TRUE /\ photos' = <<>> /\ UNCHANGED <<cache, store>>
              \/ /\ Reachable /\ UNCHANGED <<svc, photos, load>>
                 /\ scan'.at = "infos" /\ scan'.cam = scan.cam /\ scan'.list = scan.list
                 /\ scan'.todo \subseteq HandlesOf[scan.cam]
                 /\ fault' = (fault \/ scan'.todo # HandlesOf[scan.cam])
                 /\ MemoryOK(Turned) /\ Opens(Turned)
                 /\ Turned.dir = IF svc.identity = None THEN cache.dir ELSE svc.identity
                 /\ svc.identity # None /\ svc.caching => cache'.loaded
<1>1. /\ KeptOK /\ scan \in Scans /\ svc \in Services
  BY DEF TypeInv, ScanOK, ControlOK
<1>2. /\ scan.at = "listing" /\ DOMAIN load = {} /\ thumbs' = thumbs
      /\ UNCHANGED <<bus, version, link, same, prefs, leave, stray, lost>>
  BY DEF Listed, world, session, TypeInv, ScanOK
<1>3. CASE /\ photos' = <<>> /\ ScanOver(svc) /\ fault' = TRUE
           /\ UNCHANGED <<cache, store>>
  BY <1>2, <1>3, OverEnds
<1>4. CASE /\ Reachable
           /\ \E found \in SUBSET HandlesOf[scan.cam] :
                  /\ fault' = (fault \/ found # HandlesOf[scan.cam])
                  /\ scan' = [scan EXCEPT !.at = "infos", !.todo = found]
           /\ LET m    == IF svc.identity = None THEN cache ELSE InitCache(cache, svc.identity)
                  load2 == svc.identity # None /\ svc.caching
              IN IF load2 THEN cache' = LoadManifest(m, Dir(m)) /\ Put(m, Loading(m, Dir(m)))
                          ELSE cache' = m /\ UNCHANGED store
           /\ UNCHANGED <<svc, photos, load>>
  <2>1. /\ scan'.at = "infos" /\ scan'.cam = scan.cam /\ scan'.list = scan.list
        /\ scan'.todo \subseteq HandlesOf[scan.cam]
        /\ fault' = (fault \/ scan'.todo # HandlesOf[scan.cam])
    BY <1>1, <1>4 DEF Scans
  <2>2. /\ MemoryOK(Turned) /\ DirOK(Dir(Turned))
        /\ Turned.dir = IF svc.identity = None THEN cache.dir ELSE svc.identity
    BY <1>1, InitCacheTypes, DirTypes DEF KeptOK, Services, Turned
  <2>3. IF svc.identity # None /\ svc.caching
        THEN cache' = LoadManifest(Turned, Dir(Turned)) /\ Put(Turned, Loading(Turned, Dir(Turned)))
        ELSE cache' = Turned /\ UNCHANGED store
    BY <1>4 DEF Turned
  <2>4. /\ LoadManifest(Turned, Dir(Turned)).dir = Turned.dir
        /\ LoadManifest(Turned, Dir(Turned)).loaded
    BY <2>2, LoadManifestTypes
  <2>5. Opens(Turned)
    BY <1>1, <2>2, <2>3, <2>4, Constants DEF Opens, Put, Services
  <2>6. QED
    BY <1>2, <1>4, <2>1, <2>2, <2>3, <2>4, <2>5
<1>5. QED
  BY <1>3, <1>4 DEF Listed

(* One photo is added to the list, or left out.                            *)
LEMMA InfoReadOutline ==
    ASSUME TypeInv, InfoRead
    PROVE  /\ scan.at = "infos" /\ scan.cam \in Cameras
           /\ UNCHANGED <<bus, version, link, same, svc, prefs, photos, thumbs, cache, store, load,
                          leave, stray, lost>>
           /\ scan'.at = "infos" /\ scan'.cam = scan.cam
           /\ \E h \in scan.todo :
                 /\ scan'.todo = scan.todo \ {h} /\ h \in HandlesOf[scan.cam]
                 /\ \/ /\ Reachable /\ fault' = fault
                       /\ ToSet(scan'.list) = ToSet(scan.list)
                              \cup {[handle |-> h, mod |-> version[scan.cam][h]]}
                    \/ fault' = TRUE /\ scan'.list = scan.list
<1>1. /\ scan \in Scans /\ scan.list \in Seq(Photo)
  BY DEF TypeInv, ScanOK, Scans
<1>2. /\ scan.at = "infos" /\ scan.cam \in Cameras
      /\ UNCHANGED <<bus, version, link, same, svc, prefs, photos, thumbs, cache, store, load,
                     leave, stray, lost>>
  BY InfoReadDoes
<1>3. PICK h \in scan.todo :
         \/ /\ Reachable /\ fault' = fault
            /\ scan' = [scan EXCEPT !.todo = @ \ {h},
                           !.list = Append(@, [handle |-> h, mod |-> version[scan.cam][h]])]
         \/ fault' = TRUE /\ scan' = [scan EXCEPT !.todo = @ \ {h}]
  BY InfoReadDoes
<1>4. h \in HandlesOf[scan.cam]
  BY <1>2 DEF TypeInv, ScanOK, scanning
<1>5. CASE fault' = TRUE /\ scan' = [scan EXCEPT !.todo = @ \ {h}]
  BY <1>1, <1>2, <1>4, <1>5 DEF Scans
<1>6. CASE /\ Reachable /\ fault' = fault
           /\ scan' = [scan EXCEPT !.todo = @ \ {h},
                          !.list = Append(@, [handle |-> h, mod |-> version[scan.cam][h]])]
  <2> DEFINE p == [handle |-> h, mod |-> version[scan.cam][h]]
  <2>1. p \in Photo
    BY <1>2, <1>4, Constants DEF TypeInv, ControlOK, Photo
  <2> HIDE DEF p
  <2>2. scan' = [scan EXCEPT !.todo = @ \ {h}, !.list = Append(@, p)]
    BY <1>6 DEF p
  <2>3. /\ scan'.at = scan.at /\ scan'.cam = scan.cam /\ scan'.todo = scan.todo \ {h}
        /\ scan'.list = Append(scan.list, p)
    BY <1>1, <2>2 DEF Scans
  <2>4. ToSet(scan'.list) = ToSet(scan.list) \cup {p}
    BY <1>1, <2>1, <2>3, AppendAdds
  <2>5. QED
    BY <1>2, <1>4, <1>6, <2>3, <2>4 DEF p
<1>7. QED
  BY <1>3, <1>5, <1>6

LEMMA WorkOurs == ASSUME TypeInv, OursInv, Work PROVE OursInv'
<1>1. /\ scan \in Scans /\ scan.at \in Working /\ scanning
  BY WorkOutline DEF TypeInv, ScanOK, Working, scanning
<1>2. CASE SnapshotShown
  BY <1>1, <1>2 DEF SnapshotShown, NoLoads, OursInv, scanning, Scans
<1>3. CASE Listed
  <2>1. CASE Ended
    BY <2>1 DEF Ended, OursInv, scanning
  <2>2. CASE /\ load' = load /\ DOMAIN load = {}
             /\ scan'.cam = scan.cam /\ scan'.list = scan.list
    BY <1>1, <2>2 DEF OursInv
  <2>3. QED
    BY <1>3, <2>1, <2>2, ListedOutline
<1>4. CASE InfoRead
  <2>1. DOMAIN load = {} /\ load' = load
    BY <1>4, InfoReadOutline DEF TypeInv, ScanOK
  <2>2. PICK h \in scan.todo :
            /\ h \in HandlesOf[scan.cam] /\ scan'.cam = scan.cam
            /\ \/ ToSet(scan'.list) = ToSet(scan.list)
                      \cup {[handle |-> h, mod |-> version[scan.cam][h]]}
               \/ scan'.list = scan.list
    BY <1>4, InfoReadOutline
  <2>3. \A p \in ToSet(scan'.list) : p.handle \in HandlesOf[scan'.cam]
    BY <1>1, <2>2 DEF OursInv
  <2>4. QED
    BY <2>1, <2>3 DEF OursInv
<1>5. CASE InfosRead \/ RowLoaded
  <2>1. CASE Ended
    BY <2>1 DEF Ended, OursInv, scanning
  <2>2. ASSUME NEW start \in Nat, RowBegun(start) PROVE OursInv'
    <3>1. /\ scan'.at = "rows" /\ scan'.cam = scan.cam /\ scan'.list = scan.list
          /\ \A h \in DOMAIN load' : \E p \in ToSet(scan.list) :
                 p.handle = h /\ load'[h].at \in {"cached", "fetching"}
      BY <2>2 DEF RowBegun, LoadBegun
    <3>2. \A p \in ToSet(scan'.list) : p.handle \in HandlesOf[scan'.cam]
      BY <1>1, <3>1 DEF OursInv
    <3>3. QED
      BY <3>1, <3>2 DEF OursInv
  <2>3. QED
    BY <1>5, <2>1, <2>2, RowWorkDoes
<1>6. QED
  BY <1>2, <1>3, <1>4, <1>5 DEF Work

LEMMA LoadOurs == ASSUME Grounds, NEW h \in DOMAIN load, LoadStep(h) PROVE OursInv'
<1>0. TypeInv /\ OursInv
  BY DEF Grounds
<1>1. /\ scan' = scan /\ svc' = svc /\ DOMAIN load' \subseteq DOMAIN load
      /\ load[h] \in LoadKind
  BY <1>0, LoadStepKeeps
<1>2. \A k \in DOMAIN load' \ {h} : load'[k] = load[k]
  BY <1>0, LoadStepKeeps
<1>3. ASSUME h \in DOMAIN load'
      PROVE  /\ load[h].at \in {"fetching", "decoding"} /\ load'[h].data # NoFile
             /\ load'[h].at = "decoding" \/ (load'[h].at = "encoding" /\ svc.caching)
  <2>1. ~EndLoad(h)
    BY <1>3 DEF EndLoad
  <2>2. CASE Fetched(h)
    <3> DEFINE raw == [cam |-> link, mod |-> version[link][h], look |-> "raw"]
               new(exif) == [raw EXCEPT !.look = Decoded("raw", exif)]
    <3>1. PICK exif \in BOOLEAN :
              /\ new(exif) \in Contents
              /\ load' = [load EXCEPT ![h] = [at |-> "decoding", mod |-> load[h].mod,
                                              exif |-> exif, data |-> new(exif)]]
      BY <2>1, <2>2, FetchedDoes
    <3>2. load[h].at = "fetching"
      BY <2>2, FetchedDoes
    <3> HIDE DEF new
    <3>3. load'[h].at = "decoding" /\ load'[h].data = new(exif)
      BY <3>1
    <3>4. QED
      BY <3>1, <3>2, <3>3, NoFileApart
  <2>3. CASE DecodedShown(h)
    <3>1. load[h].at = "decoding" /\ svc.caching
          /\ load' = [load EXCEPT ![h] = [at |-> "encoding", mod |-> load[h].mod,
                                          exif |-> load[h].exif, data |-> load[h].data]]
      BY <1>0, <2>1, <2>3, DecodedShownDoes
    <3>2. load'[h].at = "encoding" /\ load'[h].data = load[h].data
      BY <3>1
    <3>3. QED
      BY <1>0, <3>1, <3>2 DEF OursInv
  <2>4. CASE Encoded(h) \/ CachedShown(h)
    BY <2>1, <2>4, EncodedDoes, CachedShownDoes
  <2>5. QED
    BY <2>2, <2>3, <2>4 DEF LoadStep
<1>4. QED
  BY <1>0, <1>1, <1>2, <1>3 DEF OursInv, scanning

LEMMA OursStep == ASSUME Grounds, [Next]_vars PROVE OursInv'
<1>0. TypeInv /\ OursInv /\ PromptInv /\ scan \in Scans
  BY DEF Grounds, TypeInv, ScanOK
<1>a. scan.at \notin {"snapshot", "rows"} => DOMAIN load = {}
  BY <1>0 DEF TypeInv, ScanOK
<1>b. ASSUME DOMAIN load' = {}, scan'.list = <<>> \/ scan'.at = "idle" PROVE OursInv'
  BY <1>b DEF OursInv, ToSet, scanning
<1>c. ASSUME NEW i, NEW c, Begun(i, c) PROVE OursInv'
  <2>1. ToSet(scan'.list) = {}
    BY <1>c DEF Begun, ToSet
  <2>2. QED
    BY <1>c, <2>1 DEF Begun, OursInv
<1>d. ASSUME UNCHANGED <<scan, load>>, svc.caching => svc'.caching PROVE OursInv'
  BY <1>0, <1>d DEF OursInv, scanning
<1>e. ASSUME UNCHANGED <<scan, load>>, ~(svc.caching /\ Saving) PROVE OursInv'
  <2>1. \A h \in DOMAIN load : load[h].at # "encoding"
    BY <1>0, <1>e DEF OursInv, Saving
  <2>2. QED
    BY <1>0, <1>e, <2>1 DEF OursInv, scanning
<1>1. ASSUME NEW quick \in BOOLEAN, StartScan(quick) PROVE OursInv'
  <2>1. CASE UNCHANGED <<svc, load>> /\ scan'.list = <<>>
    <3>1. DOMAIN load' = {}
      BY <1>0, <1>1, <1>a, <2>1, StartScanOutline DEF scanning
    <3>2. QED
      BY <1>b, <2>1, <3>1
  <2>2. CASE UNCHANGED <<scan, load>> /\ svc' = [svc EXCEPT !.connected = FALSE]
    <3>1. svc'.caching = svc.caching
      BY <1>0, <2>2 DEF TypeInv, ControlOK, Services
    <3>2. QED
      BY <1>d, <2>2, <3>1
  <2>3. QED
    BY <1>0, <1>1, <1>c, <2>1, <2>2, StartScanOutline
<1>2. CASE ScanClosed
  <2>1. /\ scan.at = "closing" /\ scan'.cam = scan.cam /\ scan'.list = scan.list /\ load' = load
    BY <1>0, <1>2, ScanClosedOutline
  <2>2. QED
    BY <1>0, <1>a, <2>1 DEF OursInv, scanning
<1>3. CASE Connected
  <2>1. CASE DOMAIN load' = {} /\ scan'.list = <<>>
    BY <1>b, <2>1
  <2>2. CASE load' = load /\ scan'.cam = scan.cam /\ scan'.list = scan.list
    <3>1. scan.at = "connecting"
      BY <1>0, <1>3, ConnectedOutline
    <3>2. QED
      BY <1>0, <1>a, <2>2, <3>1 DEF OursInv, scanning
  <2>3. QED
    BY <1>0, <1>3, <2>1, <2>2, ConnectedOutline
<1>4. CASE Asked
  BY <1>0, <1>4, <1>c, AskedOutline
<1>5. CASE Work
  BY <1>0, <1>5, WorkOurs
<1>6. CASE Leave
  BY <1>6, <1>d, LeaveOutline
<1>7. CASE LeaveClosed
  BY <1>0, <1>7, <1>d, <1>e, LeaveClosedOutline
<1>8. CASE LeaveFlushed
  BY <1>0, <1>8, <1>e, LeaveFlushedOutline
<1>9. ASSUME NEW h \in DOMAIN load, LoadStep(h) PROVE OursInv'
  BY <1>9, LoadOurs
<1>10. ASSUME NEW enabled \in BOOLEAN, SetCachingPreference(enabled) PROVE OursInv'
  <2>1. svc.prompt /\ UNCHANGED <<scan, load>>
    BY <1>0, <1>10, SetCachingPreferenceOutline
  <2>2. DOMAIN load = {}
    BY <1>0, <1>a, <2>1 DEF PromptInv, Working
  <2>3. QED
    BY <1>e, <2>1, <2>2 DEF Saving
<1>11. CASE Outside
  BY <1>0, <1>11, <1>d, OutsideOutline
<1>12. CASE Relaunch
  BY <1>12, <1>b DEF Relaunch, NoScan, NoLoads
<1>13. CASE UNCHANGED vars
  BY <1>13, <1>d DEF vars
<1>14. QED
  BY <1>1, <1>2, <1>3, <1>4, <1>5, <1>6, <1>7, <1>8, <1>9, <1>10, <1>11, <1>12, <1>13, NextSteps

LEMMA GroundsAlways == Spec => []Grounds
<1>1. Init => Grounds
  <2> SUFFICES ASSUME Init PROVE Grounds
    OBVIOUS
  <2>1. TypeInv
    BY InitTypes
  <2>2. LinkInv /\ OursInv /\ PromptInv
    BY DEF Init, LinkInv, OursInv, PromptInv, Off, NoScan, NoLoads, Working, scanning
  <2>3. QED
    BY <2>1, <2>2 DEF Grounds
<1>2. Grounds /\ [Next]_vars => Grounds'
  BY StepTypes, LinkStep, OursStep, PromptStep DEF Grounds
<1>3. QED
  BY <1>1, <1>2, PTL DEF Spec

(* Every variable of CameraScan keeps its type: the lists, the caches in   *)
(* memory and on the disk, and the loads, through every step of the scan,  *)
(* of a disconnect, of the settings and of a launch.                       *)
THEOREM TypeCorrect == Spec => []TypeOK
<1>1. Grounds => TypeOK
  <2> SUFFICES ASSUME Grounds PROVE TypeOK
    OBVIOUS
  <2>1. ControlOK /\ ScanOK /\ KeptOK /\ KnownInv
    BY DEF Grounds, TypeInv
  <2>2. /\ bus \in Cameras \cup {None} /\ link \in Cameras \cup {None}
        /\ svc \in Services
        /\ leave \in {"idle", "closing", "flushing"} /\ chances \in 0..MaxChances
    BY <2>1 DEF ControlOK
  <2>3. prefs \in UNION {[I -> BOOLEAN] : I \in SUBSET Identities}
    <3>1. prefs \in [DOMAIN prefs -> BOOLEAN] /\ DOMAIN prefs \in SUBSET Identities
      BY <2>1 DEF ControlOK
    <3>2. QED
      BY <3>1
  <2>4. \A f : FilesOK(f) => DOMAIN f \subseteq Handles /\ Range(f) \subseteq Contents
    BY DEF FilesOK, Range
  <2>5. \A e : EntriesOK(e) => Entries(e)
    BY DEF EntriesOK, Entries, Entry
  <2>6. \A l \in Seq(Photo) : Listing(l)
    BY DEF Listing, Photo
  <2>7. /\ Listing(photos) /\ DOMAIN thumbs \subseteq Handles /\ Range(thumbs) \subseteq Contents
        /\ cache.dir \in Identities \cup {NoDir} /\ Entries(cache.entries)
    BY <2>1, <2>4, <2>5, <2>6 DEF KeptOK, MemoryOK
  <2>8. ASSUME NEW i \in Identities
        PROVE  /\ DOMAIN store[i].files \subseteq Handles /\ Range(store[i].files) \subseteq Contents
               /\ \A e \in store[i].manifest : Entries(e)
               /\ \A l \in store[i].list : Listing(l)
    BY <2>1, <2>4, <2>5, <2>6 DEF KeptOK, StoreOK, DirOK
  <2>9. svc.caching => cache.dir # NoDir
    BY <2>1 DEF KnownInv
  <2>10. DOMAIN load # {} => scan.at \in {"snapshot", "rows"}
    BY <2>1 DEF ScanOK
  <2>11. QED
    BY <2>2, <2>3, <2>7, <2>8, <2>9, <2>10 DEF TypeOK, Services
<1>2. QED
  BY <1>1, GroundsAlways, PTL

(* The prompt after a scan is about the camera that is connected: it is    *)
(* not raised for a camera that was taken away while it was pending, nor   *)
(* left from one that was connected before.                                *)
THEOREM PromptIsTimely == Spec => []PromptIsForConnected
<1>1. Grounds => PromptIsForConnected
  BY DEF Grounds, PromptInv, PromptIsForConnected, scanning, Waiting
<1>2. QED
  BY <1>1, GroundsAlways, PTL
-----------------------------------------------------------------------------
(* A load saves its thumbnail with an entry, or the cache stays.           *)
LEMMA LoadStepSaves ==
    ASSUME Grounds, NEW h \in DOMAIN load, LoadStep(h)
    PROVE  \/ UNCHANGED <<cache, store>>
           \/ /\ Fetched(h) /\ svc.caching /\ cache.dir # NoDir /\ Reachable /\ link = scan.cam
              /\ \E exif \in BOOLEAN :
                    LET raw == [cam |-> link, mod |-> version[link][h], look |-> "raw"]
                    IN /\ raw \in Contents /\ RawEntry(load[h].mod, exif) \in Entry
                       /\ Saves(h, RawEntry(load[h].mod, exif), raw)
           \/ /\ Encoded(h) /\ svc.caching /\ cache.dir # NoDir
              /\ load[h].data \in Contents /\ EncodedEntry(load[h].mod, load[h].exif) \in Entry
              /\ Saves(h, EncodedEntry(load[h].mod, load[h].exif), load[h].data)
<1>0. /\ TypeInv /\ load[h] \in LoadKind /\ (svc.caching => cache.dir # NoDir)
  <2>1. TypeInv
    BY DEF Grounds
  <2>2. QED
    BY <2>1, LoadStepKeeps DEF TypeInv, KnownInv
<1>1. CASE Fetched(h)
  BY <1>0, <1>1, FetchedDoes
<1>2. CASE Encoded(h)
  <2>1. load[h].at = "encoding" /\ svc.caching /\ load[h].data # NoFile
    BY <1>2, EncodedDoes DEF Grounds, OursInv
  <2>2. load[h].data \in Contents /\ EncodedEntry(load[h].mod, load[h].exif) \in Entry
    BY <1>0, <1>2, <2>1, EncodedTypes DEF LoadKind
  <2>3. QED
    BY <1>0, <1>2, <2>1, <2>2, EncodedDoes
<1>3. CASE DecodedShown(h) \/ CachedShown(h)
  BY <1>0, <1>3, DecodedShownDoes, CachedShownDoes
<1>4. QED
  BY <1>1, <1>2, <1>3 DEF LoadStep

LEMMA LoadStepDir ==
    ASSUME Grounds, NEW h \in DOMAIN load, LoadStep(h)
    PROVE  cache'.dir = cache.dir /\ cache'.loaded = cache.loaded
<1>1. KeptOK /\ h \in Handles
  BY DEF Grounds, TypeInv, KeptOK, ScanOK, LoadsOK
<1>2. QED
  BY <1>1, LoadStepSaves, SavesTypes
(* Whose thumbnails are shown.  Two cameras are told apart if they do not  *)
(* answer to the same identity, with GetDeviceInfo or without.             *)
Own(i, c) == i \in {c, Fallback[c]}
DistinctIdentities ==
    \A c, d \in Cameras : c # d => {c, Fallback[c]} \cap {d, Fallback[d]} = {}

LEMMA OneOwner ==
    ASSUME DistinctIdentities, NEW i, NEW c \in Cameras, NEW d \in Cameras, Own(i, c), Own(i, d)
    PROVE  c = d
BY DEF DistinctIdentities, Own

(* The identity and the directory in use are those of the camera.          *)
ConnInv ==
    /\ svc.connected => /\ link \in Cameras
                        /\ scan.at # "asking" => Own(svc.identity, link)
                        /\ scan.at \in Working \cup {"asking"} => link = scan.cam
    /\ scan.at = "connecting" => ~svc.connected
    /\ scan.at \in Working /\ svc.identity # None => Own(svc.identity, scan.cam)
    /\ scan.at \in Working /\ svc.caching => Own(cache.dir, scan.cam)

LEMMA ConnStep == ASSUME Grounds, ConnInv, [Next]_vars PROVE ConnInv'
<1>0. /\ TypeInv /\ LinkInv /\ PromptInv /\ svc \in Services
      /\ bus \in Cameras \cup {None} /\ link \in Cameras \cup {None}
  BY DEF Grounds, TypeInv, ControlOK
<1>1. ASSUME NEW quick \in BOOLEAN, StartScan(quick) PROVE ConnInv'
  <2>1. CASE /\ svc' = [svc EXCEPT !.connected = FALSE]
             /\ UNCHANGED <<link, cache, scan>>
    BY <1>0, <1>1, <2>1, StartScanOutline DEF ConnInv, Services, scanning, Working
  <2>2. CASE /\ bus # None /\ svc.connected /\ same /\ link' = link
             /\ Begun(svc.identity, bus)
    <3>1. Own(svc.identity, bus) /\ link' = bus
      BY <1>0, <1>1, <2>2, StartScanOutline DEF ConnInv, LinkInv, scanning
    <3>2. QED
      BY <1>0, <2>2, <3>1 DEF ConnInv, Begun, Working
  <2>3. CASE /\ scan'.at = (IF svc.connected THEN "closing" ELSE "connecting")
             /\ UNCHANGED <<svc, link, cache>>
    BY <1>0, <1>1, <2>3, StartScanOutline DEF ConnInv, scanning, Working
  <2>4. QED
    BY <1>0, <1>1, <2>1, <2>2, <2>3, StartScanOutline
<1>2. CASE ScanClosed
  BY <1>0, <1>2, ScanClosedOutline DEF ConnInv, Working
<1>3. CASE Connected
  <2>1. CASE /\ bus = scan.cam /\ link' = bus /\ svc' = [svc EXCEPT !.connected = TRUE]
             /\ scan'.at = "asking" /\ scan'.cam = scan.cam
    BY <1>0, <1>3, <2>1, ConnectedOutline DEF ConnInv, Working, Services
  <2>2. CASE svc'.connected = FALSE /\ scan'.at = "idle"
    BY <2>2 DEF ConnInv, Working
  <2>3. QED
    BY <1>0, <1>3, <2>1, <2>2, ConnectedOutline
<1>4. CASE Asked
  <2>1. PICK i \in {scan.cam, Fallback[scan.cam]} : Begun(i, scan.cam)
    BY <1>0, <1>4, AskedOutline
  <2>2. scan.at = "asking" /\ scan.cam \in Cameras /\ link' = link /\ Own(i, scan.cam)
    BY <1>0, <1>4, AskedOutline DEF Own
  <2>3. QED
    BY <2>1, <2>2 DEF ConnInv, Begun, Working
<1>5. CASE Work
  BY <1>0, <1>5, WorkOutline DEF ConnInv, Ended, GoesOn, Working
<1>6. CASE Leave
  BY <1>6, LeaveOutline DEF ConnInv
<1>7. CASE LeaveClosed
  BY <1>0, <1>7, LeaveClosedOutline DEF ConnInv, Cleared
<1>8. CASE LeaveFlushed
  BY <1>0, <1>8, LeaveFlushedOutline DEF ConnInv, Cleared
<1>9. ASSUME NEW h \in DOMAIN load, LoadStep(h) PROVE ConnInv'
  <2>1. UNCHANGED <<link, svc, scan>> /\ cache'.dir = cache.dir
    BY <1>0, <1>9, LoadStepKeeps, LoadStepDir
  <2>2. QED
    BY <2>1 DEF ConnInv
<1>10. ASSUME NEW enabled \in BOOLEAN, SetCachingPreference(enabled) PROVE ConnInv'
  BY <1>0, <1>10, SetCachingPreferenceOutline DEF ConnInv, PromptInv
<1>11. CASE Outside
  BY <1>0, <1>11, OutsideOutline DEF ConnInv
<1>12. CASE Relaunch
  BY <1>12 DEF ConnInv, Relaunch, Off, NoScan, Working
<1>13. CASE UNCHANGED vars
  BY <1>13 DEF ConnInv, vars, session
<1>14. QED
  BY <1>1, <1>2, <1>3, <1>4, <1>5, <1>6, <1>7, <1>8, <1>9, <1>10, <1>11, <1>12, <1>13, NextSteps

(* A scan that no disconnect overlaps has the session of its camera.       *)
StrayInv ==
    /\ leave # "idle" /\ scanning => stray
    /\ scan.at \in Working \cup {"asking"} /\ ~stray => link = scan.cam /\ svc.connected

LEMMA StrayStep == ASSUME Grounds, StrayInv, [Next]_vars PROVE StrayInv'
<1>0. /\ TypeInv /\ LinkInv /\ svc \in Services /\ stray \in BOOLEAN
  BY DEF Grounds, TypeInv, ControlOK
<1>1. ASSUME NEW quick \in BOOLEAN, StartScan(quick) PROVE StrayInv'
  BY <1>0, <1>1, StartScanOutline DEF StrayInv, LinkInv, Begun, Working
<1>2. CASE ScanClosed
  BY <1>0, <1>2, ScanClosedOutline DEF StrayInv, Working
<1>3. CASE Connected
  <2>1. CASE /\ bus = scan.cam /\ link' = bus /\ svc' = [svc EXCEPT !.connected = TRUE]
             /\ scan'.at = "asking" /\ scan'.cam = scan.cam
    BY <1>0, <1>3, <2>1, ConnectedOutline DEF StrayInv, Services, scanning
  <2>2. CASE scan'.at = "idle"
    BY <2>2 DEF StrayInv, Working, scanning
  <2>3. QED
    BY <1>0, <1>3, <2>1, <2>2, ConnectedOutline
<1>4. CASE Asked
  BY <1>0, <1>4, AskedOutline DEF StrayInv, Begun, Working, scanning
<1>5. CASE Work
  BY <1>0, <1>5, WorkOutline DEF StrayInv, Ended, GoesOn, Working, scanning
<1>6. CASE Leave
  BY <1>0, <1>6, LeaveOutline DEF StrayInv, scanning, Working
<1>7. CASE LeaveClosed
  BY <1>0, <1>7, LeaveClosedOutline DEF StrayInv, scanning, Working
<1>8. CASE LeaveFlushed
  BY <1>0, <1>8, LeaveFlushedOutline DEF StrayInv, scanning
<1>9. ASSUME NEW h \in DOMAIN load, LoadStep(h) PROVE StrayInv'
  BY <1>0, <1>9, LoadStepKeeps DEF StrayInv, scanning
<1>10. ASSUME NEW enabled \in BOOLEAN, SetCachingPreference(enabled) PROVE StrayInv'
  BY <1>0, <1>10, SetCachingPreferenceOutline DEF StrayInv, scanning
<1>11. CASE Outside
  BY <1>0, <1>11, OutsideOutline DEF StrayInv, scanning
<1>12. CASE Relaunch
  BY <1>12 DEF StrayInv, Relaunch, NoScan, Working, scanning
<1>13. CASE UNCHANGED vars
  BY <1>13 DEF StrayInv, vars, session, ghosts, scanning
<1>14. QED
  BY <1>1, <1>2, <1>3, <1>4, <1>5, <1>6, <1>7, <1>8, <1>9, <1>10, <1>11, <1>12, <1>13, NextSteps
(* Files of the cache are written by the loads only.                       *)
FilesStay ==
    \A i \in Identities : /\ DOMAIN store'[i].files \subseteq DOMAIN store[i].files
                          /\ \A h \in DOMAIN store'[i].files :
                                 store'[i].files[h] = store[i].files[h]

LEMMA SameFiles ==
    ASSUME \A i \in Identities : store'[i].files = store[i].files PROVE FilesStay
BY DEF FilesStay

LEMMA FilesStep ==
    ASSUME Grounds, [Next]_vars
    PROVE  FilesStay \/ \E h \in DOMAIN load : LoadStep(h)
<1>0. TypeInv /\ KeptOK
  BY DEF Grounds, TypeInv
<1>a. ASSUME store' = store PROVE FilesStay
  BY <1>a, SameFiles
<1>b. ASSUME NEW i, NEW c, Begun(i, c) PROVE FilesStay
  BY <1>b, SameFiles DEF Begun
<1>c. ASSUME Cleared PROVE FilesStay
  BY <1>c, SameFiles DEF Cleared
<1>1. ASSUME NEW quick \in BOOLEAN, StartScan(quick) PROVE FilesStay
  BY <1>0, <1>1, <1>a, <1>b, StartScanOutline
<1>2. CASE ScanClosed
  BY <1>0, <1>2, <1>c, ScanClosedOutline
<1>3. CASE Connected
  BY <1>0, <1>3, <1>a, ConnectedOutline
<1>4. CASE Asked
  BY <1>0, <1>4, <1>b, AskedOutline
<1>5. CASE Work
  <2>1. CASE SnapshotShown \/ InfoRead
    BY <1>0, <1>a, <2>1, InfoReadOutline DEF SnapshotShown
  <2>2. CASE Listed
    <3>1. ASSUME MemoryOK(Turned), Opens(Turned) PROVE FilesStay
      BY <1>0, <3>1, OpensTypes, SameFiles
    <3>2. QED
      BY <1>0, <1>a, <2>2, <3>1, ListedOutline
  <2>3. CASE InfosRead \/ RowLoaded
    <3>1. ASSUME Purged PROVE FilesStay
      <4>1. ASSUME NEW i \in Identities
            PROVE  /\ DOMAIN store'[i].files \subseteq DOMAIN store[i].files
                   /\ \A h \in DOMAIN store'[i].files : store'[i].files[h] = store[i].files[h]
        <5>1. CASE i # cache.dir
          BY <3>1, <5>1 DEF Purged
        <5>2. CASE i = cache.dir /\ cache.dir # NoDir
          BY <3>1, <5>2 DEF Purged
        <5>3. QED
          BY <5>1, <5>2, Constants
      <4>2. QED
        BY <4>1 DEF FilesStay
    <3>2. ASSUME NEW start \in Nat, RowBegun(start) PROVE FilesStay
      BY <3>2, SameFiles DEF RowBegun
    <3>3. QED
      BY <1>0, <2>3, <3>1, <3>2, RowWorkDoes
  <2>4. QED
    BY <1>5, <2>1, <2>2, <2>3 DEF Work
<1>6. CASE Leave
  BY <1>6, <1>a, LeaveOutline
<1>7. CASE LeaveClosed
  BY <1>0, <1>7, <1>a, <1>c, LeaveClosedOutline
<1>8. CASE LeaveFlushed
  BY <1>0, <1>8, <1>c, LeaveFlushedOutline
<1>9. ASSUME NEW enabled \in BOOLEAN, SetCachingPreference(enabled) PROVE FilesStay
  BY <1>0, <1>9, <1>a, SetCachingPreferenceOutline
<1>10. CASE Outside
  <2>1. ASSUME NEW ids, DeleteCaches(ids) PROVE FilesStay
    <3>1. /\ \A i \in ids : store'[i] = Delete(store[i])
          /\ \A i \in Identities \ ids : store'[i] = store[i]
      BY <1>0, <2>1, DeleteCachesDoes
    <3>2. ASSUME NEW i \in Identities
          PROVE  /\ DOMAIN store'[i].files \subseteq DOMAIN store[i].files
                 /\ \A h \in DOMAIN store'[i].files : store'[i].files[h] = store[i].files[h]
      <4>1. DirOK(store[i])
        BY <1>0 DEF KeptOK, StoreOK
      <4>2. QED
        BY <3>1, <4>1, DeleteTypes
    <3>3. QED
      BY <3>2 DEF FilesStay
  <2>2. ASSUME ~DeleteSome PROVE store' = store
    BY <1>10, <2>2 DEF Outside, ToggleCaching, Unplug, Plug, Modify
  <2>3. QED
    BY <1>a, <2>1, <2>2 DEF DeleteSome
<1>11. CASE Relaunch
  BY <1>11, <1>a DEF Relaunch
<1>12. CASE UNCHANGED vars
  BY <1>12, <1>a DEF vars
<1>13. QED
  BY <1>1, <1>2, <1>3, <1>4, <1>5, <1>6, <1>7, <1>8, <1>9, <1>10, <1>11, <1>12, NextSteps

(* The files of a directory are of the camera it belongs to, and so is     *)
(* what a load has got.                                                    *)
FilesOwned ==
    \A i \in Identities : \A h \in DOMAIN store[i].files :
        Own(i, store[i].files[h].cam) /\ h \in HandlesOf[store[i].files[h].cam]
LoadsOwned == \A h \in DOMAIN load : load[h].data # NoFile => load[h].data.cam = scan.cam

LEMMA FilesOwnedStep ==
    ASSUME Grounds, ConnInv, FilesOwned, LoadsOwned, [Next]_vars PROVE FilesOwned'
<1>1. CASE FilesStay
  BY <1>1 DEF FilesStay, FilesOwned
<1>2. ASSUME NEW h \in DOMAIN load, LoadStep(h) PROVE FilesOwned'
  <2>1. CASE UNCHANGED <<cache, store>>
    BY <2>1 DEF FilesOwned
  <2>2. ASSUME NEW e \in Entry, NEW f \in Contents, Saves(h, e, f), svc.caching,
               cache.dir # NoDir, f.cam = scan.cam, load[h].at # "cached"
        PROVE  FilesOwned'
    <3>1. /\ KeptOK /\ h \in Handles /\ h \in HandlesOf[scan.cam] /\ scan.at \in Working
          /\ cache.dir \in Identities
      BY <2>2 DEF Grounds, TypeInv, KeptOK, MemoryOK, ScanOK, LoadsOK, OursInv, Working
    <3>2. /\ store'[cache.dir].files = With(store[cache.dir].files, h, f)
          /\ \A i \in Identities : i # cache.dir => store'[i] = store[i]
      BY <2>2, <3>1, SavesTypes
    <3>3. Own(cache.dir, f.cam)
      BY <2>2, <3>1 DEF ConnInv
    <3> DEFINE w == With(store[cache.dir].files, h, f)
    <3>4. /\ DOMAIN w = DOMAIN store[cache.dir].files \cup {h} /\ w[h] = f
          /\ \A k \in DOMAIN store[cache.dir].files \ {h} : w[k] = store[cache.dir].files[k]
      BY DEF Onto, With
    <3>5. store'[cache.dir].files = w
      BY <3>2
    <3> HIDE DEF w
    <3>6. \A k \in DOMAIN w : Own(cache.dir, w[k].cam) /\ k \in HandlesOf[w[k].cam]
      BY <2>2, <3>1, <3>3, <3>4 DEF FilesOwned
    <3>7. QED
      BY <3>2, <3>5, <3>6 DEF FilesOwned
  <2>3. CASE /\ Fetched(h) /\ svc.caching /\ cache.dir # NoDir /\ link = scan.cam
             /\ \E exif \in BOOLEAN :
                   LET raw == [cam |-> link, mod |-> version[link][h], look |-> "raw"]
                   IN /\ raw \in Contents /\ RawEntry(load[h].mod, exif) \in Entry
                      /\ Saves(h, RawEntry(load[h].mod, exif), raw)
    <3> DEFINE raw == [cam |-> link, mod |-> version[link][h], look |-> "raw"]
    <3>1. PICK exif \in BOOLEAN : /\ raw \in Contents /\ RawEntry(load[h].mod, exif) \in Entry
                                  /\ Saves(h, RawEntry(load[h].mod, exif), raw)
      BY <2>3
    <3>2. raw.cam = scan.cam /\ load[h].at # "cached"
      BY <2>3, FetchedDoes
    <3> HIDE DEF raw
    <3>3. QED
      BY <2>2, <2>3, <3>1, <3>2
  <2>4. CASE /\ Encoded(h) /\ svc.caching /\ cache.dir # NoDir
             /\ load[h].data \in Contents /\ EncodedEntry(load[h].mod, load[h].exif) \in Entry
             /\ Saves(h, EncodedEntry(load[h].mod, load[h].exif), load[h].data)
    <3>1. load[h].data.cam = scan.cam /\ load[h].at # "cached"
      BY <2>4, NoFileApart, EncodedDoes DEF LoadsOwned
    <3>2. QED
      BY <2>2, <2>4, <3>1
  <2>5. QED
    BY <1>2, <2>1, <2>3, <2>4, LoadStepSaves
<1>3. QED
  BY <1>1, <1>2, FilesStep

LEMMA LoadsOwnedStep ==
    ASSUME DistinctIdentities, Grounds, ConnInv, FilesOwned, LoadsOwned, [Next]_vars
    PROVE  LoadsOwned'
<1>0. TypeInv /\ KeptOK /\ scan \in Scans
  BY DEF Grounds, TypeInv, ScanOK
<1>a. scan.at \notin {"snapshot", "rows"} => DOMAIN load = {}
  BY <1>0 DEF TypeInv, ScanOK
<1>b. ASSUME DOMAIN load' = {} PROVE LoadsOwned'
  BY <1>b DEF LoadsOwned
<1>c. ASSUME NEW c \in Cameras, NEW i \in Identities, Begun(i, c), Own(i, c) PROVE LoadsOwned'
  <2>1. ASSUME NEW h \in DOMAIN load', load'[h].data # NoFile PROVE load'[h].data.cam = c
    <3>1. h \in DOMAIN store[i].files /\ load'[h].data.cam = store[i].files[h].cam
      BY <1>c, <2>1 DEF Begun
    <3>2. store[i].files[h].cam \in Cameras
      BY <1>0, <3>1 DEF KeptOK, StoreOK, DirOK, FilesOK, Contents
    <3>3. Own(i, store[i].files[h].cam)
      BY <3>1 DEF FilesOwned
    <3>4. QED
      BY <1>c, <3>1, <3>2, <3>3, OneOwner
  <2>2. QED
    BY <1>c, <2>1 DEF LoadsOwned, Begun
<1>d. ASSUME UNCHANGED <<scan, load>> PROVE LoadsOwned'
  BY <1>d DEF LoadsOwned
<1>1. ASSUME NEW quick \in BOOLEAN, StartScan(quick) PROVE LoadsOwned'
  <2>1. CASE load' = load
    BY <1>0, <1>1, <1>a, <1>b, <2>1, StartScanOutline DEF scanning
  <2>2. CASE /\ bus # None /\ svc.connected /\ same /\ svc.identity \in Identities
             /\ Begun(svc.identity, bus)
    <3>1. Own(svc.identity, bus) /\ bus \in Cameras
      <4>1. link = bus
        BY <2>2 DEF Grounds, LinkInv
      <4>2. QED
        BY <1>0, <1>1, <2>2, <4>1, StartScanOutline DEF ConnInv, scanning
    <3>2. QED
      BY <1>c, <2>2, <3>1
  <2>3. QED
    BY <1>0, <1>1, <2>1, <2>2, StartScanOutline
<1>2. CASE ScanClosed
  BY <1>0, <1>2, <1>a, <1>b, ScanClosedOutline
<1>3. CASE Connected
  BY <1>0, <1>3, <1>b, ConnectedOutline
<1>4. CASE Asked
  <2>1. PICK i \in {scan.cam, Fallback[scan.cam]} : Begun(i, scan.cam)
    BY <1>0, <1>4, AskedOutline
  <2>2. scan.cam \in Cameras /\ Own(i, scan.cam) /\ i \in Identities
    BY <1>0, <1>4, AskedOutline, Constants DEF Own
  <2>3. QED
    BY <1>c, <2>1, <2>2
<1>5. CASE Work
  <2>1. CASE SnapshotShown
    BY <1>b, <2>1 DEF SnapshotShown, NoLoads
  <2>2. CASE Listed
    BY <1>0, <1>b, <2>2, ListedOutline DEF Ended
  <2>3. CASE InfoRead
    BY <1>0, <1>a, <1>b, <2>3, InfoReadOutline
  <2>4. CASE InfosRead \/ RowLoaded
    <3>1. CASE Ended
      BY <1>b, <3>1 DEF Ended
    <3>2. ASSUME NEW start \in Nat, RowBegun(start) PROVE LoadsOwned'
      <4>1. scan'.cam = scan.cam /\ scan.cam \in Cameras /\ scan.at \in Working
        BY <1>0, <2>4, <3>2, RowWorkDoes DEF RowBegun, TypeInv, ScanOK, scanning, Working
      <4>2. ASSUME NEW h \in DOMAIN load', load'[h].data # NoFile
            PROVE  load'[h].data.cam = scan.cam
        <5>1. /\ svc.caching /\ h \in DOMAIN store[cache.dir].files
              /\ load'[h].data.cam = store[cache.dir].files[h].cam
          BY <3>2, <4>2 DEF RowBegun, LoadBegun
        <5>2. cache.dir \in Identities
          BY <1>0, <5>1 DEF TypeInv, KnownInv, KeptOK, MemoryOK
        <5>3. store[cache.dir].files[h].cam \in Cameras
          BY <1>0, <5>1, <5>2 DEF KeptOK, StoreOK, DirOK, FilesOK, Contents
        <5>4. Own(cache.dir, store[cache.dir].files[h].cam) /\ Own(cache.dir, scan.cam)
          BY <4>1, <5>1, <5>2 DEF FilesOwned, ConnInv
        <5>5. QED
          BY <4>1, <5>1, <5>2, <5>3, <5>4, OneOwner
      <4>3. QED
        BY <4>1, <4>2 DEF LoadsOwned
    <3>3. QED
      BY <1>0, <2>4, <3>1, <3>2, RowWorkDoes
  <2>5. QED
    BY <1>5, <2>1, <2>2, <2>3, <2>4 DEF Work
<1>6. CASE Leave
  BY <1>6, <1>d, LeaveOutline
<1>7. CASE LeaveClosed
  BY <1>0, <1>7, <1>d, LeaveClosedOutline
<1>8. CASE LeaveFlushed
  BY <1>0, <1>8, <1>d, LeaveFlushedOutline
<1>9. ASSUME NEW h \in DOMAIN load, LoadStep(h) PROVE LoadsOwned'
  <2>1. scan' = scan /\ DOMAIN load' \subseteq DOMAIN load
    BY <1>0, <1>9, LoadStepKeeps
  <2>2. \A k \in DOMAIN load' \ {h} : load'[k] = load[k]
    BY <1>0, <1>9, LoadStepKeeps
  <2>3. ASSUME h \in DOMAIN load' PROVE load'[h].data # NoFile => load'[h].data.cam = scan.cam
    <3>1. ~EndLoad(h)
      BY <2>3 DEF EndLoad
    <3>2. CASE Fetched(h)
      <4> DEFINE raw == [cam |-> link, mod |-> version[link][h], look |-> "raw"]
                 new(exif) == [raw EXCEPT !.look = Decoded("raw", exif)]
      <4>1. PICK exif \in BOOLEAN :
                /\ link = scan.cam
                /\ load' = [load EXCEPT ![h] = [at |-> "decoding", mod |-> load[h].mod,
                                                exif |-> exif, data |-> new(exif)]]
        BY <3>1, <3>2, FetchedDoes
      <4>2. new(exif).cam = link
        OBVIOUS
      <4> HIDE DEF new
      <4>3. load'[h].data = new(exif)
        BY <4>1
      <4>4. QED
        BY <4>1, <4>2, <4>3
    <3>3. CASE DecodedShown(h)
      <4>1. load' = [load EXCEPT ![h] = [at |-> "encoding", mod |-> load[h].mod,
                                         exif |-> load[h].exif, data |-> load[h].data]]
        BY <1>0, <3>1, <3>3, DecodedShownDoes
      <4>2. load'[h].data = load[h].data
        BY <4>1
      <4>3. QED
        BY <4>2 DEF LoadsOwned
    <3>4. CASE Encoded(h) \/ CachedShown(h)
      BY <3>1, <3>4, EncodedDoes, CachedShownDoes
    <3>5. QED
      BY <1>9, <3>2, <3>3, <3>4 DEF LoadStep
  <2>4. QED
    BY <2>1, <2>2, <2>3 DEF LoadsOwned
<1>10. ASSUME NEW enabled \in BOOLEAN, SetCachingPreference(enabled) PROVE LoadsOwned'
  BY <1>0, <1>10, <1>d, SetCachingPreferenceOutline
<1>11. CASE Outside
  BY <1>0, <1>11, <1>d, OutsideOutline
<1>12. CASE Relaunch
  BY <1>12, <1>b DEF Relaunch, NoLoads
<1>13. CASE UNCHANGED vars
  BY <1>13, <1>d DEF vars
<1>14. QED
  BY <1>1, <1>2, <1>3, <1>4, <1>5, <1>6, <1>7, <1>8, <1>9, <1>10, <1>11, <1>12, <1>13, NextSteps

(* The thumbnails that are shown are of the camera of the session; there   *)
(* are none while there is no session, or not yet one for the scan.        *)
ShownInv ==
    /\ ~stray /\ leave = "idle" /\ scan.at # "closing" =>
           \A h \in DOMAIN thumbs : thumbs[h].cam = link
    /\ scan.at \in {"connecting", "asking"} /\ ~stray => DOMAIN thumbs = {}
    /\ ~svc.connected /\ ~scanning /\ ~stray /\ leave = "idle" => DOMAIN thumbs = {}

(* What a step of a load shows is of the camera of the scan.               *)
LEMMA LoadShows ==
    ASSUME Grounds, LoadsOwned, NEW h \in DOMAIN load, LoadStep(h)
    PROVE  \A k \in DOMAIN thumbs' : \/ k \in DOMAIN thumbs /\ thumbs'[k] = thumbs[k]
                                     \/ thumbs'[k].cam = scan.cam
<1>0. TypeInv
  BY DEF Grounds
<1>1. CASE thumbs' = thumbs
  BY <1>1
<1>2. CASE thumbs' = With(thumbs, h, load[h].data) /\ load[h].data # NoFile
  <2>1. load[h].data.cam = scan.cam
    BY <1>2 DEF LoadsOwned
  <2> DEFINE w == With(thumbs, h, load[h].data)
  <2>2. /\ DOMAIN w = DOMAIN thumbs \cup {h} /\ w[h] = load[h].data
        /\ \A k \in DOMAIN thumbs \ {h} : w[k] = thumbs[k]
    BY DEF Onto, With
  <2>3. thumbs' = w
    BY <1>2
  <2> HIDE DEF w
  <2>4. QED
    BY <2>1, <2>2, <2>3
<1>3. CASE Fetched(h)
  BY <1>1, <1>3, FetchedDoes
<1>4. CASE DecodedShown(h)
  <2>1. load[h].data # NoFile
    BY <1>0, <1>4, DecodedShownDoes DEF Grounds, OursInv
  <2>2. thumbs' = thumbs \/ thumbs' = With(thumbs, h, load[h].data)
    BY <1>0, <1>4, DecodedShownDoes
  <2>3. QED
    BY <1>1, <1>2, <2>1, <2>2
<1>5. CASE Encoded(h) \/ CachedShown(h)
  BY <1>1, <1>2, <1>5, EncodedDoes, CachedShownDoes
<1>6. QED
  BY <1>3, <1>4, <1>5 DEF LoadStep

LEMMA ShownStep ==
    ASSUME Grounds, StrayInv, LoadsOwned, ShownInv, [Next]_vars PROVE ShownInv'
<1>0. /\ TypeInv /\ svc \in Services /\ stray \in BOOLEAN /\ KeptOK
      /\ bus \in Cameras \cup {None} /\ link \in Cameras \cup {None}
  BY DEF Grounds, TypeInv, ControlOK
<1>a. ASSUME DOMAIN thumbs' = {} PROVE ShownInv'
  BY <1>a DEF ShownInv
<1>b. thumbs' = NoThumbs => DOMAIN thumbs' = {}
  BY DEF NoThumbs
<1>c. ASSUME stray' = TRUE PROVE ShownInv'
  BY <1>c DEF ShownInv
<1>d. ASSUME UNCHANGED <<link, svc, thumbs, scan, stray, leave>> PROVE ShownInv'
  BY <1>d DEF ShownInv, scanning
<1>1. ASSUME NEW quick \in BOOLEAN, StartScan(quick) PROVE ShownInv'
  <2>1. CASE /\ ~(svc.connected /\ same) /\ stray' = (stray \/ leave # "idle")
             /\ scan'.at = (IF svc.connected THEN "closing" ELSE "connecting")
             /\ UNCHANGED <<svc, thumbs>>
    BY <1>0, <1>1, <1>c, <2>1, StartScanOutline DEF ShownInv, scanning
  <2>2. QED
    BY <1>0, <1>1, <1>a, <1>b, <1>c, <2>1, StartScanOutline
<1>2. CASE ScanClosed
  BY <1>0, <1>2, <1>a, <1>b, ScanClosedOutline DEF Cleared
<1>3. CASE Connected
  BY <1>0, <1>3, <1>a, <1>c, ConnectedOutline DEF ShownInv
<1>4. CASE Asked
  BY <1>0, <1>4, <1>a, <1>c, AskedOutline DEF ShownInv
<1>5. CASE Work
  <2>1. /\ scan.at \in Working /\ UNCHANGED <<link, leave, stray>>
        /\ scan'.at \in Working \cup {"idle"} /\ svc'.connected = svc.connected
    BY <1>0, <1>5, WorkOutline DEF Ended, GoesOn
  <2>2. /\ DOMAIN thumbs' \subseteq DOMAIN thumbs
        /\ \A h \in DOMAIN thumbs' : thumbs'[h] = thumbs[h]
    BY <1>0, <1>5, ListedOutline, InfoReadOutline, RowWorkDoes, StillListedTypes
       DEF Work, SnapshotShown, ui
  <2>3. QED
    BY <1>0, <2>1, <2>2 DEF ShownInv, StrayInv, Working
<1>6. CASE Leave
  BY <1>0, <1>6, LeaveOutline DEF ShownInv, scanning
<1>7. CASE LeaveClosed
  <2>1. CASE leave' = "flushing" /\ UNCHANGED thumbs
    BY <1>0, <1>7, <2>1, LeaveClosedOutline DEF ShownInv, StrayInv, scanning
  <2>2. CASE Cleared
    BY <1>a, <1>b, <2>2 DEF Cleared
  <2>3. QED
    BY <1>0, <1>7, <2>1, <2>2, LeaveClosedOutline
<1>8. CASE LeaveFlushed
  BY <1>0, <1>8, <1>a, <1>b, LeaveFlushedOutline DEF Cleared
<1>9. ASSUME NEW h \in DOMAIN load, LoadStep(h) PROVE ShownInv'
  <2>1. UNCHANGED <<link, svc, scan, leave, stray>> /\ scan.at \in {"snapshot", "rows"}
    BY <1>0, <1>9, LoadStepKeeps
  <2>2. \A k \in DOMAIN thumbs' : \/ k \in DOMAIN thumbs /\ thumbs'[k] = thumbs[k]
                                  \/ thumbs'[k].cam = scan.cam
    BY <1>9, LoadShows
  <2>3. QED
    BY <2>1, <2>2 DEF ShownInv, StrayInv, Working, scanning
<1>10. ASSUME NEW enabled \in BOOLEAN, SetCachingPreference(enabled) PROVE ShownInv'
  BY <1>0, <1>10, SetCachingPreferenceOutline DEF ShownInv, scanning
<1>11. CASE Outside
  BY <1>0, <1>11, <1>d, OutsideOutline
<1>12. CASE Relaunch
  BY <1>12, <1>a, <1>b DEF Relaunch
<1>13. CASE UNCHANGED vars
  BY <1>13, <1>d DEF vars, session, ui, ghosts
<1>14. QED
  BY <1>1, <1>2, <1>3, <1>4, <1>5, <1>6, <1>7, <1>8, <1>9, <1>10, <1>11, <1>12, <1>13, NextSteps

OwnInv == ConnInv /\ StrayInv /\ FilesOwned /\ LoadsOwned /\ ShownInv

LEMMA OwnAlways == ASSUME DistinctIdentities PROVE Spec => [](Grounds /\ OwnInv)
<1>1. Init => OwnInv
  <2> SUFFICES ASSUME Init PROVE OwnInv
    OBVIOUS
  <2>1. ConnInv /\ StrayInv /\ LoadsOwned /\ ShownInv
    BY DEF Init, ConnInv, StrayInv, LoadsOwned, ShownInv, Off, NoScan, NoLoads, NoThumbs,
           Working, scanning
  <2>2. FilesOwned
    BY DEF Init, FilesOwned, EmptyDir, NoEntries
  <2>3. QED
    BY <2>1, <2>2 DEF OwnInv
<1>2. Grounds /\ OwnInv /\ [Next]_vars => OwnInv'
  BY ConnStep, StrayStep, FilesOwnedStep, LoadsOwnedStep, ShownStep DEF OwnInv
<1>3. QED
  BY <1>1, <1>2, GroundsAlways, PTL DEF Spec

(* Cameras that do not answer to the same identity never show each other's *)
(* thumbnails, for however many are plugged in and out, with caches of any *)
(* of them on the disk, and whatever the scan is interrupted by.  Cameras  *)
(* of one model that do not answer GetDeviceInfo share an identity.        *)
THEOREM OwnAreShown == ASSUME DistinctIdentities PROVE Spec => []ShownIsOwn
<1>1. OwnInv => ShownIsOwn
  BY DEF OwnInv, ShownInv, ShownIsOwn
<1>2. QED
  BY <1>1, OwnAlways, PTL
-----------------------------------------------------------------------------
(* What is found in the cache.  The entries of a manifest are never newer  *)
(* than the photos of the camera and never newer than the files; one that  *)
(* is of the modification of its file says what was done to it.            *)
TimelyIn(v, i, entries) ==
    \A c \in Cameras : Own(i, c) =>
        \A h \in DOMAIN entries \cap HandlesOf[c] : entries[h].mod <= v[c][h]
Fits(e, f) == \/ e.mod < f.mod
              \/ e.mod = f.mod /\ Show(e, f) \in {"upright", "unread"}
FitIn(files, entries) == \A h \in DOMAIN entries \cap DOMAIN files : Fits(entries[h], files[h])
FitInv ==
    /\ \A i \in Identities :
          /\ TimelyIn(version, i, Readable(store[i]))
          /\ FitIn(store[i].files, Readable(store[i]))
          /\ \A h \in DOMAIN store[i].files :
                 store[i].files[h].mod <= version[store[i].files[h].cam][h]
    /\ cache.dir # NoDir => /\ TimelyIn(version, cache.dir, cache.entries)
                            /\ FitIn(store[cache.dir].files, cache.entries)

(* The manifest in memory, when it has been read, has what the one on the  *)
(* disk has, or newer.                                                     *)
Behind(entries, others) ==
    \A h \in DOMAIN entries : h \in DOMAIN others /\ entries[h].mod <= others[h].mod
OpenInv == /\ ~cache.loaded => cache.entries = NoEntries
           /\ cache.loaded => cache.dir # NoDir
BehindInv == cache.loaded => Behind(Readable(store[cache.dir]), cache.entries)
CacheInv  == OpenInv /\ BehindInv

(* It has been read when photos are listed and loaded.                     *)
ReadyInv ==
    /\ scan.at \in {"snapshot", "listing", "infos"} /\ svc.caching => svc.identity # None
    /\ scan.at \in {"infos", "rows"} /\ svc.caching => cache.loaded

(* What a scan has listed and loads is not newer than the photo, and as    *)
(* new as it while the camera can be reached; what it fetches is not in    *)
(* the manifest and what it has fetched is newer than on the disk.         *)
ListInv ==
    scan.at \in Working =>
        \A p \in ToSet(scan.list) :
            /\ p.mod <= version[scan.cam][p.handle]
            /\ Reachable => p.mod = version[scan.cam][p.handle]
LoadInv ==
    \A h \in DOMAIN load :
        /\ load[h].at # "cached" => load[h].mod <= version[scan.cam][h]
        /\ load[h].at = "fetching" =>
              /\ Reachable => load[h].mod = version[scan.cam][h]
              /\ svc.caching /\ h \in DOMAIN cache.entries => cache.entries[h].mod # load[h].mod
        /\ load[h].at \in {"decoding", "encoding"} =>
              /\ load[h].data.mod = load[h].mod /\ load[h].data.look \in {"upright", "unread"}
              /\ svc.caching /\ h \in DOMAIN Readable(store[cache.dir]) =>
                     Readable(store[cache.dir])[h].mod < load[h].mod

(* Reading a manifest leaves on the disk what was read.                    *)
LEMMA OpensReads ==
    ASSUME KeptOK, NEW m, MemoryOK(m), Opens(m), m.loaded \/ m.entries = NoEntries
    PROVE  /\ \A i \in Identities : Readable(store'[i]) = Readable(store[i])
           /\ \/ cache' = m
              \/ /\ ~m.loaded /\ m.dir # NoDir /\ cache'.loaded /\ cache'.dir = m.dir
                 /\ cache'.entries = Readable(store[m.dir])
<1>1. CASE cache' = m /\ store' = store
  BY <1>1
<1>2. CASE /\ m.dir # NoDir /\ cache' = LoadManifest(m, Dir(m))
           /\ Put(cache', Loading(m, Dir(m)))
  <2>1. DirOK(Dir(m)) /\ Dir(m) = store[m.dir] /\ m.dir \in Identities
    BY <1>2, DirTypes DEF Dir, MemoryOK
  <2>2. cache'.dir = m.dir /\ cache'.loaded /\ MemoryOK(cache') /\ DirOK(Loading(m, Dir(m)))
    BY <1>2, <2>1, LoadManifestTypes
  <2>3. /\ store'[m.dir] = Loading(m, Dir(m))
        /\ \A i \in Identities : i # m.dir => store'[i] = store[i]
    BY <1>2, <2>2, PutTypes
  <2>4. CASE m.loaded
    <3>1. cache' = m /\ Loading(m, Dir(m)) = Dir(m)
      BY <1>2, <2>4 DEF LoadManifest, Loading
    <3>2. \A i \in Identities : store'[i] = store[i]
      BY <2>1, <2>3, <3>1
    <3>3. QED
      BY <3>1, <3>2
  <2>5. CASE ~m.loaded
    <3>1. EntriesOK(Readable(Dir(m))) /\ m.entries = NoEntries
      BY <2>1, <2>5, ReadableOK
    <3>2. cache'.entries = Onto(Readable(Dir(m)), NoEntries)
      BY <1>2, <2>5, <3>1 DEF LoadManifest, MemoryOK
    <3>3. Onto(Readable(Dir(m)), NoEntries) = Readable(Dir(m))
      BY <3>1, OntoNothing
    <3>4. Readable(Loading(m, Dir(m))) = Readable(Dir(m))
      <4>1. CASE Readable(Dir(m)) # NoEntries
        BY <4>1 DEF Loading
      <4>2. CASE Readable(Dir(m)) = NoEntries
        <5>1. Loading(m, Dir(m)) = [Dir(m) EXCEPT !.manifest = {NoEntries}]
          BY <2>5, <3>1, <4>2 DEF Loading
        <5>2. Loading(m, Dir(m)).manifest = {NoEntries}
          BY <2>1, <5>1 DEF DirOK
        <5>3. QED
          BY <4>2, <5>2 DEF Readable
      <4>3. QED
        BY <4>1, <4>2
    <3>5. ASSUME NEW i \in Identities PROVE Readable(store'[i]) = Readable(store[i])
      <4>1. CASE i = m.dir
        <5>1. store'[i] = Loading(m, Dir(m)) /\ store[i] = Dir(m)
          BY <2>1, <2>3, <4>1
        <5>2. QED
          BY <3>4, <5>1
      <4>2. CASE i # m.dir
        BY <2>3, <4>2
      <4>3. QED
        BY <4>1, <4>2
    <3>6. cache'.entries = Readable(store[m.dir])
      BY <2>1, <3>2, <3>3
    <3>7. QED
      BY <1>2, <2>2, <2>5, <3>5, <3>6
  <2>6. QED
    BY <2>4, <2>5
<1>3. QED
  BY <1>1, <1>2 DEF Opens

(* No step but those of the loads puts entries in a manifest that were not *)
(* in it, or in the one in memory for the one on the disk, or the reverse. *)
PartOf(entries, others) ==
    \A h \in DOMAIN entries : h \in DOMAIN others /\ entries[h] = others[h]
EntriesStay ==
    /\ \A i \in Identities :
          \/ PartOf(Readable(store'[i]), Readable(store[i]))
          \/ i = cache.dir /\ PartOf(Readable(store'[i]), cache.entries)
    /\ cache'.dir # NoDir =>
          \/ cache'.dir = cache.dir /\ PartOf(cache'.entries, cache.entries)
          \/ PartOf(cache'.entries, Readable(store[cache'.dir]))

LEMMA NothingIsPart == \A e : PartOf(NoEntries, e) /\ PartOf(e, e)
BY DEF PartOf, NoEntries

(* Nor do they put the one in memory behind the one on the disk.           *)
Stays == EntriesStay /\ OpenInv' /\ (BehindInv => BehindInv')

(* So when the cache object is opened anew, ...                            *)
LEMMA OpensStay ==
    ASSUME KeptOK, OpenInv, NEW m, MemoryOK(m), Opens(m),
           m = cache \/ (~m.loaded /\ m.entries = NoEntries)
    PROVE  Stays
<1>1. m.loaded \/ m.entries = NoEntries
  BY DEF OpenInv
<1>2. /\ \A i \in Identities : Readable(store'[i]) = Readable(store[i])
      /\ \/ cache' = m
         \/ /\ ~m.loaded /\ m.dir # NoDir /\ cache'.loaded /\ cache'.dir = m.dir
            /\ cache'.entries = Readable(store[m.dir])
  BY <1>1, OpensReads
<1>3. \A i \in Identities : PartOf(Readable(store'[i]), Readable(store[i]))
  BY <1>2, NothingIsPart
<1>4. MemoryOK(cache) /\ (cache.dir # NoDir => cache.dir \in Identities)
      /\ (m.dir # NoDir => m.dir \in Identities)
  BY DEF KeptOK, MemoryOK
<1>5. CASE cache' = m /\ m = cache
  BY <1>2, <1>3, <1>4, <1>5, NothingIsPart DEF Stays, EntriesStay, OpenInv, BehindInv
<1>6. CASE cache' = m /\ ~m.loaded /\ m.entries = NoEntries
  BY <1>2, <1>3, <1>4, <1>6, NothingIsPart DEF Stays, EntriesStay, OpenInv, BehindInv
<1>7. CASE /\ m.dir # NoDir /\ cache'.loaded /\ cache'.dir = m.dir
           /\ cache'.entries = Readable(store[m.dir])
  <2>1. Readable(store'[cache'.dir]) = cache'.entries
    BY <1>2, <1>4, <1>7
  <2>2. Behind(cache'.entries, cache'.entries)
    <3>1. EntriesOK(cache'.entries)
      BY <1>4, <1>7, ReadableOK DEF KeptOK, StoreOK
    <3>2. QED
      BY <3>1 DEF Behind, EntriesOK, Entry
  <2>3. OpenInv' /\ BehindInv'
    BY <1>7, <2>1, <2>2 DEF OpenInv, BehindInv
  <2>4. QED
    BY <1>3, <1>7, <2>3, NothingIsPart DEF Stays, EntriesStay
<1>8. QED
  BY <1>2, <1>5, <1>6, <1>7

LEMMA SameCache ==
    ASSUME TypeInv, OpenInv, cache' = cache,
           \A i \in Identities : PartOf(Readable(store'[i]), Readable(store[i]))
    PROVE  Stays
<1>1. cache.dir # NoDir => cache.dir \in Identities
  BY DEF TypeInv, KeptOK, MemoryOK
<1>2. EntriesStay
  BY NothingIsPart DEF EntriesStay
<1>3. QED
  BY <1>1, <1>2 DEF Stays, OpenInv, BehindInv, Behind, PartOf

LEMMA ClearedStay == ASSUME TypeInv, OpenInv, Cleared PROVE Stays
<1>1. /\ cache' = cache /\ (cache.dir # NoDir => cache.dir \in Identities)
      /\ \A i \in Identities : i # cache.dir => store'[i] = store[i]
      /\ EntriesOK(cache.entries)
  BY DEF Cleared, TypeInv, KeptOK, MemoryOK
<1>2. cache.dir # NoDir => Readable(store'[cache.dir]) \in {NoEntries, cache.entries}
  <2>1. SUFFICES ASSUME cache.dir # NoDir
                 PROVE  Readable(store'[cache.dir]) \in {NoEntries, cache.entries}
    OBVIOUS
  <2>2. store'[cache.dir].manifest \in {{}, {cache.entries}}
    BY <2>1 DEF Cleared
  <2>3. QED
    BY <2>2 DEF Readable
<1>3. ASSUME NEW i \in Identities
      PROVE  \/ PartOf(Readable(store'[i]), Readable(store[i]))
             \/ i = cache.dir /\ PartOf(Readable(store'[i]), cache.entries)
  <2>1. CASE i # cache.dir
    BY <1>1, <2>1, NothingIsPart
  <2>2. CASE i = cache.dir
    BY <1>2, <2>2, NothingIsPart, Constants
  <2>3. QED
    BY <2>1, <2>2
<1>4. EntriesStay
  BY <1>1, <1>3, NothingIsPart DEF EntriesStay
<1>5. Behind(NoEntries, cache.entries) /\ Behind(cache.entries, cache.entries)
  BY <1>1 DEF Behind, NoEntries, EntriesOK, Entry
<1>6. QED
  BY <1>1, <1>2, <1>4, <1>5 DEF Stays, OpenInv, BehindInv

LEMMA PurgedStay ==
    ASSUME TypeInv, TypeInv', OpenInv, Purged, cache'.dir = cache.dir
    PROVE  Stays
<1>1. PICK gone \in SUBSET DOMAIN cache.entries :
          /\ DOMAIN cache'.entries = DOMAIN cache.entries \ gone
          /\ \A h \in DOMAIN cache'.entries : cache'.entries[h] = cache.entries[h]
          /\ cache.dir # NoDir =>
                 \/ store'[cache.dir].manifest \in {{}, {cache'.entries}}
                 \/ gone = {} /\ store'[cache.dir].manifest = store[cache.dir].manifest
  BY DEF Purged
<1>2. /\ cache'.loaded = cache.loaded /\ (cache.dir # NoDir => cache.dir \in Identities)
      /\ \A i \in Identities : i # cache.dir => store'[i] = store[i]
      /\ EntriesOK(cache.entries) /\ EntriesOK(cache'.entries)
  BY DEF Purged, TypeInv, KeptOK, MemoryOK
<1>3. PartOf(cache'.entries, cache.entries)
  BY <1>1 DEF PartOf
<1>4. cache.dir # NoDir => \/ Readable(store'[cache.dir]) \in {NoEntries, cache'.entries}
                           \/ /\ Readable(store'[cache.dir]) = Readable(store[cache.dir])
                              /\ gone = {}
  <2>1. store'[cache.dir].manifest = store[cache.dir].manifest
            => Readable(store'[cache.dir]) = Readable(store[cache.dir])
    BY DEF Readable
  <2>2. store'[cache.dir].manifest \in {{}, {cache'.entries}}
            => Readable(store'[cache.dir]) \in {NoEntries, cache'.entries}
    BY DEF Readable
  <2>3. QED
    BY <1>1, <2>1, <2>2
<1>5. ASSUME NEW i \in Identities
      PROVE  \/ PartOf(Readable(store'[i]), Readable(store[i]))
             \/ i = cache.dir /\ PartOf(Readable(store'[i]), cache.entries)
  <2>1. CASE i # cache.dir
    BY <1>2, <2>1, NothingIsPart
  <2>2. CASE i = cache.dir
    BY <1>3, <1>4, <2>2, NothingIsPart, Constants
  <2>3. QED
    BY <2>1, <2>2
<1>6. EntriesStay
  BY <1>3, <1>5 DEF EntriesStay
<1>7. ASSUME ~cache.loaded PROVE cache'.entries = NoEntries
  <2>1. DOMAIN cache.entries = {}
    BY <1>7 DEF OpenInv, NoEntries
  <2>2. DOMAIN cache'.entries = {}
    BY <1>1, <2>1
  <2>3. QED
    BY <1>2, <2>2 DEF EntriesOK, NoEntries
<1>8. ASSUME BehindInv, cache.loaded PROVE Behind(Readable(store'[cache.dir]), cache'.entries)
  <2>1. Behind(NoEntries, cache'.entries) /\ Behind(cache'.entries, cache'.entries)
    BY <1>2 DEF Behind, NoEntries, EntriesOK, Entry
  <2>2. ASSUME Readable(store'[cache.dir]) = Readable(store[cache.dir]), gone = {}
        PROVE  Behind(Readable(store'[cache.dir]), cache'.entries)
    BY <1>1, <1>8, <2>2 DEF BehindInv, Behind
  <2>3. cache.dir # NoDir
    BY <1>8 DEF OpenInv
  <2>4. QED
    BY <1>4, <2>1, <2>2, <2>3
<1>9. QED
  BY <1>2, <1>6, <1>7, <1>8 DEF Stays, OpenInv, BehindInv

LEMMA OutsideStays ==
    ASSUME TypeInv, Outside
    PROVE  cache' = cache /\ \A i \in Identities : PartOf(Readable(store'[i]), Readable(store[i]))
<1>1. ASSUME NEW ids, DeleteCaches(ids)
      PROVE  cache' = cache /\ \A i \in Identities : PartOf(Readable(store'[i]), Readable(store[i]))
  <2>1. /\ \A i \in ids : store'[i] = Delete(store[i])
        /\ \A i \in Identities \ ids : store'[i] = store[i]
        /\ cache' = cache
    BY <1>1, DeleteCachesDoes
  <2>2. ASSUME NEW i \in Identities PROVE PartOf(Readable(store'[i]), Readable(store[i]))
    <3>1. DirOK(store[i])
      BY DEF TypeInv, KeptOK, StoreOK
    <3>2. i \in ids => store'[i].manifest = {}
      BY <2>1, <3>1, DeleteTypes
    <3>3. i \in ids => Readable(store'[i]) = NoEntries
      BY <3>2 DEF Readable
    <3>4. QED
      BY <2>1, <3>3, NothingIsPart
  <2>3. QED
    BY <2>1, <2>2
<1>2. ASSUME ~DeleteSome PROVE UNCHANGED <<cache, store>>
  BY <1>2 DEF Outside, ToggleCaching, Unplug, Plug, Modify
<1>3. QED
  BY <1>1, <1>2, NothingIsPart DEF DeleteSome

LEMMA EntriesStep ==
    ASSUME Grounds, OpenInv, [Next]_vars
    PROVE  Stays \/ \E h \in DOMAIN load : LoadStep(h)
<1>0. TypeInv /\ TypeInv' /\ KeptOK
  BY StepTypes DEF Grounds, TypeInv
<1> DEFINE P == Stays
<1>a. ASSUME UNCHANGED <<cache, store>> PROVE P
  BY <1>0, <1>a, SameCache, NothingIsPart
<1>b. ASSUME NEW i \in Identities, NEW c, Begun(i, c) PROVE P
  <2>1. svc' \in Services /\ svc'.identity \in Identities /\ Opens(Aimed(svc'))
    BY <1>b DEF Begun
  <2>2. /\ MemoryOK(Aimed(svc'))
        /\ Aimed(svc') = cache \/ (~Aimed(svc').loaded /\ Aimed(svc').entries = NoEntries)
    BY <1>0, <2>1, AimedTypes
  <2>3. QED
    BY <1>0, <2>1, <2>2, OpensStay
<1>c. ASSUME Cleared PROVE P
  BY <1>0, <1>c, ClearedStay
<1> HIDE DEF P
<1> SUFFICES P \/ \E h \in DOMAIN load : LoadStep(h)
  BY DEF P
<1>1. ASSUME NEW quick \in BOOLEAN, StartScan(quick) PROVE P
  BY <1>0, <1>1, <1>a, <1>b, StartScanOutline
<1>2. CASE ScanClosed
  BY <1>0, <1>2, <1>c, ScanClosedOutline
<1>3. CASE Connected
  BY <1>0, <1>3, <1>a, ConnectedOutline
<1>4. CASE Asked
  <2>1. scan.cam \in Cameras /\ \E i \in {scan.cam, Fallback[scan.cam]} : Begun(i, scan.cam)
    BY <1>0, <1>4, AskedOutline
  <2>2. QED
    BY <1>b, <2>1, Constants
<1>5. CASE Work
  <2>1. CASE SnapshotShown \/ InfoRead
    BY <1>0, <1>a, <2>1, InfoReadOutline DEF SnapshotShown
  <2>2. CASE Listed
    <3>1. ASSUME MemoryOK(Turned), Opens(Turned) PROVE P
      <4>1. Turned = cache \/ (~Turned.loaded /\ Turned.entries = NoEntries)
        <5>1. MemoryOK(cache) /\ (svc.identity # None => svc.identity \in Identities)
          BY <1>0 DEF KeptOK, TypeInv, ControlOK, Services
        <5>2. QED
          BY <5>1, InitCacheTypes DEF Turned
      <4>2. QED
        BY <1>0, <3>1, <4>1, OpensStay DEF P
    <3>2. QED
      BY <1>0, <1>a, <2>2, <3>1, ListedOutline
  <2>3. CASE InfosRead \/ RowLoaded
    <3>1. ASSUME Purged, Ended PROVE P
      BY <1>0, <3>1, PurgedStay DEF Ended, P
    <3>2. ASSUME NEW start \in Nat, RowBegun(start) PROVE P
      <4>1. ASSUME NEW i \in Identities PROVE PartOf(Readable(store'[i]), Readable(store[i]))
        <5>1. store'[i].manifest = store[i].manifest
          BY <3>2 DEF RowBegun
        <5>2. Readable(store'[i]) = Readable(store[i])
          BY <5>1 DEF Readable
        <5>3. QED
          BY <5>2, NothingIsPart
      <4>2. QED
        BY <1>0, <3>2, <4>1, SameCache DEF RowBegun, P
    <3>3. QED
      BY <1>0, <2>3, <3>1, <3>2, RowWorkDoes
  <2>4. QED
    BY <1>5, <2>1, <2>2, <2>3 DEF Work
<1>6. CASE Leave
  BY <1>6, <1>a, LeaveOutline
<1>7. CASE LeaveClosed
  BY <1>0, <1>7, <1>a, <1>c, LeaveClosedOutline
<1>8. CASE LeaveFlushed
  BY <1>0, <1>8, <1>c, LeaveFlushedOutline
<1>9. ASSUME NEW enabled \in BOOLEAN, SetCachingPreference(enabled) PROVE P
  BY <1>0, <1>9, <1>a, SetCachingPreferenceOutline
<1>10. CASE Outside
  BY <1>0, <1>10, OutsideStays, SameCache DEF P
<1>11. CASE Relaunch
  <2>1. /\ cache'.dir = NoDir /\ ~cache'.loaded /\ cache'.entries = NoEntries /\ store' = store
    BY <1>11 DEF Relaunch, NewCache
  <2>2. QED
    BY <2>1, NothingIsPart DEF P, Stays, EntriesStay, OpenInv, BehindInv
<1>12. CASE UNCHANGED vars
  BY <1>12, <1>a DEF vars
<1>13. QED
  BY <1>1, <1>2, <1>3, <1>4, <1>5, <1>6, <1>7, <1>8, <1>9, <1>10, <1>11, <1>12, NextSteps

(* Modifications only add up, and none of the photos of a camera that can  *)
(* be reached.                                                             *)
Later == \A c \in Cameras : \A h \in HandlesOf[c] : version[c][h] <= version'[c][h]

LEMMA VersionStep ==
    ASSUME Grounds, [Next]_vars
    PROVE  /\ Later
           /\ link # None => (Reachable /\ version'[link] = version[link]) \/ version' = version
                             \/ ~same
<1>0. TypeInv /\ LinkInv
  BY DEF Grounds
<1>a. ASSUME version' = version PROVE Later
  BY <1>0, <1>a DEF Later, TypeInv, ControlOK
<1>1. CASE version' = version
  BY <1>1, <1>a
<1>2. ASSUME NEW c \in Cameras, NEW h \in HandlesOf[c], Modify(c, h)
      PROVE  Later /\ (link # None => \/ Reachable /\ version'[link] = version[link]
                                      \/ ~same)
  <2>1. /\ bus # c /\ version[c] \in [HandlesOf[c] -> 1..MaxMod] /\ DOMAIN version = Cameras
        /\ version' = [version EXCEPT ![c] = [version[c] EXCEPT ![h] = version[c][h] + 1]]
    BY <1>0, <1>2 DEF Modify, TypeInv, ControlOK
  <2>2. \A d \in Cameras : version[d] \in [HandlesOf[d] -> 1..MaxMod]
    BY <1>0 DEF TypeInv, ControlOK
  <2>3. Later
    BY <2>1, <2>2 DEF Later
  <2>4. ASSUME link # None, same PROVE Reachable /\ version'[link] = version[link]
    BY <1>0, <2>1, <2>4 DEF LinkInv, Reachable, TypeInv, ControlOK
  <2>5. QED
    BY <2>3, <2>4
<1>3. version' = version \/ \E c \in Cameras : \E h \in HandlesOf[c] : Modify(c, h)
  <2>1. CASE Outside
    BY <2>1 DEF Outside, DeleteSome, DeleteCaches, ToggleCaching, Unplug, Plug, world
  <2>2. CASE \E h \in DOMAIN load : LoadStep(h)
    BY <1>0, <2>2, LoadStepKeeps
  <2>3. CASE \E enabled \in BOOLEAN : SetCachingPreference(enabled)
    BY <2>3 DEF SetCachingPreference, world
  <2>4. CASE Relaunch \/ UNCHANGED vars
    BY <2>4 DEF Relaunch, vars, world
  <2>5. CASE \E quick \in BOOLEAN : StartScan(quick)
    BY <2>5 DEF StartScan, world
  <2>6. CASE ScanClosed \/ Connected \/ Asked \/ Work
    BY <1>0, <2>6, WorkOutline DEF ScanClosed, Connected, Asked, world
  <2>7. CASE Leave \/ LeaveClosed \/ LeaveFlushed
    BY <2>7 DEF Leave, LeaveClosed, LeaveFlushed, world
  <2>8. QED
    BY <2>1, <2>2, <2>3, <2>4, <2>5, <2>6, <2>7, NextSteps
<1>4. QED
  BY <1>1, <1>2, <1>3, <1>a

LEMMA ReadyStep == ASSUME Grounds, ReadyInv, [Next]_vars PROVE ReadyInv'
<1>0. /\ TypeInv /\ OursInv /\ PromptInv /\ svc \in Services
  BY DEF Grounds, TypeInv, ControlOK
<1>a. ASSUME ~svc'.caching PROVE ReadyInv'
  BY <1>a DEF ReadyInv
<1>b. ASSUME scan'.at \in {"idle"} \cup Waiting PROVE ReadyInv'
  BY <1>b DEF ReadyInv, Waiting
<1>c. ASSUME NEW i \in Identities, NEW c, Begun(i, c) PROVE ReadyInv'
  BY <1>c, Constants DEF ReadyInv, Begun
<1>d. ASSUME UNCHANGED <<svc, scan>>, cache'.loaded = cache.loaded PROVE ReadyInv'
  BY <1>d DEF ReadyInv
<1>1. ASSUME NEW quick \in BOOLEAN, StartScan(quick) PROVE ReadyInv'
  <2>1. CASE UNCHANGED scan
    BY <1>0, <1>1, <1>b, <2>1, StartScanOutline DEF scanning
  <2>2. QED
    BY <1>0, <1>1, <1>b, <1>c, <2>1, StartScanOutline DEF Waiting
<1>2. CASE ScanClosed
  BY <1>0, <1>2, <1>b, ScanClosedOutline DEF Waiting
<1>3. CASE Connected
  BY <1>0, <1>3, <1>b, ConnectedOutline DEF Waiting
<1>4. CASE Asked
  <2>1. scan.cam \in Cameras /\ \E i \in {scan.cam, Fallback[scan.cam]} : Begun(i, scan.cam)
    BY <1>0, <1>4, AskedOutline
  <2>2. QED
    BY <1>c, <2>1, Constants
<1>5. CASE Work
  <2>1. CASE SnapshotShown
    BY <1>0, <2>1 DEF SnapshotShown, ReadyInv, TypeInv, ScanOK, Scans
  <2>2. CASE Listed
    BY <1>0, <1>b, <2>2, ListedOutline DEF ReadyInv, Ended
  <2>3. CASE InfoRead
    BY <1>0, <2>3, InfoReadOutline DEF ReadyInv
  <2>4. CASE InfosRead \/ RowLoaded
    BY <1>0, <1>b, <2>4, RowWorkDoes DEF ReadyInv, Ended, RowBegun
  <2>5. QED
    BY <1>5, <2>1, <2>2, <2>3, <2>4 DEF Work
<1>6. CASE Leave
  BY <1>6, <1>d, LeaveOutline
<1>7. CASE LeaveClosed
  <2>1. CASE Saving /\ svc'.caching = svc.caching /\ UNCHANGED <<scan, cache>>
    <3>1. scan.at = "rows"
      BY <1>0, <2>1 DEF Saving, OursInv
    <3>2. QED
      BY <2>1, <3>1 DEF ReadyInv
  <2>2. CASE Cleared
    BY <1>a, <2>2 DEF Cleared
  <2>3. QED
    BY <1>0, <1>7, <2>1, <2>2, LeaveClosedOutline
<1>8. CASE LeaveFlushed
  BY <1>0, <1>8, <1>a, LeaveFlushedOutline DEF Cleared
<1>9. ASSUME NEW h \in DOMAIN load, LoadStep(h) PROVE ReadyInv'
  BY <1>0, <1>9, <1>d, LoadStepKeeps, LoadStepDir
<1>10. ASSUME NEW enabled \in BOOLEAN, SetCachingPreference(enabled) PROVE ReadyInv'
  BY <1>0, <1>10, SetCachingPreferenceOutline DEF ReadyInv, PromptInv, Working
<1>11. CASE Outside
  BY <1>0, <1>11, <1>d, OutsideOutline
<1>12. CASE Relaunch
  BY <1>12, <1>b DEF Relaunch, NoScan
<1>13. CASE UNCHANGED vars
  BY <1>13, <1>d DEF vars
<1>14. QED
  BY <1>1, <1>2, <1>3, <1>4, <1>5, <1>6, <1>7, <1>8, <1>9, <1>10, <1>11, <1>12, <1>13, NextSteps

(* A step after which the session is the one before, if there is one, and  *)
(* the photos of its camera are as they were.                              *)
Steady == /\ Later
          /\ Reachable' => Reachable /\ link' = link /\ version'[link] = version[link]

LEMMA SteadyStep ==
    ASSUME Grounds, [Next]_vars, Reachable' => same /\ link' = link PROVE Steady
BY VersionStep DEF Steady, Reachable

LEMMA ListStep == ASSUME Grounds, ListInv, [Next]_vars PROVE ListInv'
<1>0. TypeInv /\ LinkInv /\ OursInv
  BY DEF Grounds
<1>a. ASSUME scan'.at \in {"idle"} \cup Waiting PROVE ListInv'
  BY <1>a DEF ListInv, Waiting, Working
<1>b. ASSUME NEW i, NEW c, Begun(i, c) PROVE ListInv'
  BY <1>b DEF ListInv, Begun, ToSet
<1>c. ASSUME scan'.cam = scan.cam, scan'.list = scan.list, scan.at \in Working \/ scan'.at = scan.at,
             Reachable' => same /\ link' = link
      PROVE  ListInv'
  <2>1. CASE scan.at \in Working
    <3>1. Steady /\ scanning
      BY <1>c, <2>1, SteadyStep DEF Working, scanning
    <3>2. scan.cam \in Cameras /\ scan.list \in Seq(Photo) /\ link \in {None, scan.cam}
      BY <1>0, <2>1, <3>1 DEF TypeInv, ScanOK, Scans, LinkInv
    <3>3. /\ \A c \in Cameras : version[c] \in [HandlesOf[c] -> 1..MaxMod]
          /\ \A c \in Cameras : version'[c] \in [HandlesOf[c] -> 1..MaxMod]
      BY <1>0, StepTypes DEF TypeInv, ControlOK
    <3>4. ToSet(scan.list) \subseteq Photo
      BY <3>2, ToSetFinite
    <3>5. ASSUME NEW p \in ToSet(scan.list)
          PROVE  /\ p.mod <= version'[scan.cam][p.handle]
                 /\ Reachable' => p.mod = version'[scan.cam][p.handle]
      <4>1. p.handle \in HandlesOf[scan.cam] /\ p.mod \in 1..MaxMod
        BY <1>0, <3>1, <3>4 DEF OursInv, Photo
      <4>2. /\ p.mod <= version[scan.cam][p.handle]
            /\ Reachable => p.mod = version[scan.cam][p.handle]
        BY <2>1 DEF ListInv
      <4>3. version[scan.cam][p.handle] <= version'[scan.cam][p.handle]
        BY <3>1, <3>2, <4>1 DEF Steady, Later
      <4>4. Reachable' => Reachable /\ link = scan.cam /\ version'[link] = version[link]
        BY <3>1, <3>2 DEF Steady, Reachable
      <4>5. QED
        BY <3>2, <3>3, <4>1, <4>2, <4>3, <4>4
    <3>6. QED
      BY <1>c, <3>5 DEF ListInv
  <2>2. CASE scan.at \notin Working
    BY <1>c, <2>2 DEF ListInv
  <2>3. QED
    BY <2>1, <2>2
<1>d. ASSUME UNCHANGED <<scan, link, same>> PROVE ListInv'
  BY <1>c, <1>d DEF Reachable
<1>1. ASSUME NEW quick \in BOOLEAN, StartScan(quick) PROVE ListInv'
  <2>1. CASE UNCHANGED scan
    BY <1>0, <1>1, <1>a, <2>1, StartScanOutline DEF scanning
  <2>2. QED
    BY <1>0, <1>1, <1>a, <1>b, <2>1, StartScanOutline DEF Waiting
<1>2. CASE ScanClosed
  BY <1>0, <1>2, <1>a, ScanClosedOutline DEF Waiting
<1>3. CASE Connected
  BY <1>0, <1>3, <1>a, ConnectedOutline DEF Waiting
<1>4. CASE Asked
  BY <1>0, <1>4, <1>b, AskedOutline
<1>5. CASE Work
  <2>0. scan.at \in Working /\ UNCHANGED <<link, same, version>>
    BY <1>0, <1>5, WorkOutline
  <2>1. ASSUME scan'.cam = scan.cam, scan'.list = scan.list PROVE ListInv'
    BY <1>c, <2>0, <2>1 DEF Reachable
  <2>2. CASE SnapshotShown
    BY <1>0, <2>1, <2>2 DEF SnapshotShown, TypeInv, ScanOK, Scans
  <2>3. CASE Listed
    BY <1>0, <1>a, <2>1, <2>3, ListedOutline DEF Ended
  <2>4. CASE InfoRead
    <3>1. PICK h \in scan.todo :
             /\ h \in HandlesOf[scan.cam]
             /\ \/ ToSet(scan'.list) = ToSet(scan.list)
                       \cup {[handle |-> h, mod |-> version[scan.cam][h]]}
                \/ scan'.list = scan.list
      BY <1>0, <2>4, InfoReadOutline
    <3>2. scan'.cam = scan.cam /\ scan.cam \in Cameras
      BY <1>0, <2>4, InfoReadOutline
    <3>3. version[scan.cam][h] <= version[scan.cam][h]
      BY <1>0, <3>1, <3>2, Constants DEF TypeInv, ControlOK
    <3>4. CASE ToSet(scan'.list) = ToSet(scan.list)
                   \cup {[handle |-> h, mod |-> version[scan.cam][h]]}
      <4>1. Reachable' <=> Reachable
        BY <2>0 DEF Reachable
      <4>2. ASSUME NEW p \in ToSet(scan'.list)
            PROVE  /\ p.mod <= version[scan.cam][p.handle]
                   /\ Reachable => p.mod = version[scan.cam][p.handle]
        <5>1. CASE p \in ToSet(scan.list)
          BY <2>0, <5>1 DEF ListInv
        <5>2. CASE p = [handle |-> h, mod |-> version[scan.cam][h]]
          BY <3>3, <5>2
        <5>3. QED
          BY <3>4, <5>1, <5>2
      <4>3. QED
        BY <2>0, <3>2, <4>1, <4>2 DEF ListInv
    <3>5. QED
      BY <2>1, <3>1, <3>2, <3>4
  <2>5. CASE InfosRead \/ RowLoaded
    BY <1>0, <1>a, <2>1, <2>5, RowWorkDoes DEF Ended, RowBegun
  <2>6. QED
    BY <1>5, <2>2, <2>3, <2>4, <2>5 DEF Work
<1>6. CASE Leave
  BY <1>6, <1>d, LeaveOutline
<1>7. CASE LeaveClosed
  BY <1>0, <1>7, <1>c, LeaveClosedOutline DEF Reachable
<1>8. CASE LeaveFlushed
  BY <1>0, <1>8, <1>d, LeaveFlushedOutline
<1>9. ASSUME NEW h \in DOMAIN load, LoadStep(h) PROVE ListInv'
  BY <1>0, <1>9, <1>d, LoadStepKeeps
<1>10. ASSUME NEW enabled \in BOOLEAN, SetCachingPreference(enabled) PROVE ListInv'
  BY <1>0, <1>10, <1>d, SetCachingPreferenceOutline
<1>11. CASE Outside
  <2>1. UNCHANGED <<scan, link>> /\ (Reachable' => same)
    <3>1. /\ UNCHANGED <<link, scan>>
          /\ UNCHANGED <<bus, same>> \/ same' = same \/ same' = FALSE
      BY <1>0, <1>11, OutsideOutline
    <3>2. QED
      BY <3>1 DEF Reachable
  <2>2. QED
    BY <1>c, <2>1
<1>12. CASE Relaunch
  BY <1>12, <1>a DEF Relaunch, NoScan
<1>13. CASE UNCHANGED vars
  BY <1>13, <1>d DEF vars, session
<1>14. QED
  BY <1>1, <1>2, <1>3, <1>4, <1>5, <1>6, <1>7, <1>8, <1>9, <1>10, <1>11, <1>12, <1>13, NextSteps

(* A thumbnail as new as the photo is saved with an entry that says what   *)
(* was done to it, over older ones: what was right remains so.             *)
LEMMA SaveHits ==
    ASSUME DistinctIdentities, Grounds, ConnInv, FitInv, CacheInv, version' = version,
           NEW h \in DOMAIN load, NEW e \in Entry, NEW f \in Contents, Saves(h, e, f),
           svc.caching, cache.dir # NoDir, cache.loaded, load[h].at # "cached",
           e.mod = f.mod, f.cam = scan.cam, Show(e, f) \in {"upright", "unread"},
           f.mod <= version[scan.cam][h],
           h \in DOMAIN Readable(store[cache.dir]) => Readable(store[cache.dir])[h].mod < e.mod
    PROVE  /\ FitInv' /\ CacheInv'
           /\ \A i \in Identities : Readable(store'[i]) = Readable(store[i])
<1> DEFINE dir  == cache.dir
           disk == Readable(store[dir])
           w    == With(store[dir].files, h, f)
           m    == With(cache.entries, h, e)
<1>1. /\ KeptOK /\ h \in Handles /\ h \in HandlesOf[scan.cam] /\ scan.at \in Working
      /\ dir \in Identities /\ scan.cam \in Cameras
  BY DEF Grounds, TypeInv, KeptOK, MemoryOK, ScanOK, LoadsOK, OursInv, Working, scanning
<1>2. /\ cache'.dir = dir /\ cache'.loaded /\ cache'.entries = m
      /\ store'[dir].files = w /\ store'[dir].manifest = store[dir].manifest
      /\ \A i \in Identities : i # dir => store'[i] = store[i]
  BY <1>1, SavesTypes
<1>3. /\ DOMAIN w = DOMAIN store[dir].files \cup {h} /\ w[h] = f
      /\ \A k \in DOMAIN store[dir].files \ {h} : w[k] = store[dir].files[k]
  BY DEF Onto, With
<1>4. /\ DOMAIN m = DOMAIN cache.entries \cup {h} /\ m[h] = e
      /\ \A k \in DOMAIN cache.entries \ {h} : m[k] = cache.entries[k]
  BY DEF Onto, With
<1>5. /\ EntriesOK(disk) /\ EntriesOK(cache.entries) /\ FilesOK(store[dir].files)
  BY <1>1, ReadableOK DEF KeptOK, StoreOK, MemoryOK, DirOK
<1>6. e.mod \in Nat /\ \A k \in DOMAIN disk : disk[k].mod \in Nat
  BY <1>5, Constants DEF EntriesOK, Entry
<1>7. Readable(store'[dir]) = disk
  BY <1>2 DEF Readable
<1>8. \A i \in Identities : Readable(store'[i]) = Readable(store[i])
  BY <1>2, <1>7
<1>9. \A c \in Cameras : Own(dir, c) => c = scan.cam
  BY <1>1, OneOwner DEF ConnInv
<1> HIDE DEF dir, disk, w, m
<1>10. /\ TimelyIn(version, dir, disk) /\ TimelyIn(version, dir, cache.entries)
       /\ FitIn(store[dir].files, disk) /\ FitIn(store[dir].files, cache.entries)
       /\ \A k \in DOMAIN store[dir].files :
              store[dir].files[k].mod <= version[store[dir].files[k].cam][k]
       /\ Behind(disk, cache.entries)
  BY <1>1 DEF FitInv, CacheInv, BehindInv, dir, disk
<1>11. TimelyIn(version, dir, m)
  BY <1>1, <1>4, <1>9, <1>10 DEF TimelyIn
<1>12. FitIn(w, m)
  BY <1>3, <1>4, <1>10 DEF FitIn, Fits
<1>13. FitIn(w, disk)
  <2>1. ASSUME h \in DOMAIN disk PROVE Fits(disk[h], f)
    BY <2>1 DEF Fits, disk, dir
  <2>2. QED
    BY <1>3, <1>10, <2>1 DEF FitIn
<1>14. \A k \in DOMAIN w : w[k].mod <= version[w[k].cam][k]
  BY <1>3, <1>10
<1>15. Behind(disk, m)
  <2>1. h \in DOMAIN disk => disk[h].mod <= e.mod
    BY <1>6 DEF disk, dir
  <2>2. QED
    BY <1>4, <1>10, <2>1 DEF Behind
<1>16. CacheInv'
  BY <1>2, <1>7, <1>15, <1>1, Constants DEF CacheInv, OpenInv, BehindInv
<1>17. ASSUME NEW i \in Identities
       PROVE  /\ TimelyIn(version', i, Readable(store'[i]))
              /\ FitIn(store'[i].files, Readable(store'[i]))
              /\ \A k \in DOMAIN store'[i].files :
                     store'[i].files[k].mod <= version'[store'[i].files[k].cam][k]
  <2>1. CASE i = dir
    BY <1>2, <1>7, <1>10, <1>13, <1>14, <2>1
  <2>2. CASE i # dir
    BY <1>2, <2>2 DEF FitInv
  <2>3. QED
    BY <2>1, <2>2
<1>18. FitInv'
  BY <1>2, <1>11, <1>12, <1>17 DEF FitInv
<1>19. QED
  BY <1>8, <1>16, <1>18

(* The loads save thumbnails only that are as new as the photo.            *)
HitGrounds == Grounds /\ ConnInv /\ LoadsOwned /\ ReadyInv
Fresh(h) == h \in DOMAIN load' =>
    /\ load'[h].at \in {"decoding", "encoding"} /\ load'[h].mod <= version[scan.cam][h]
    /\ load'[h].data.mod = load'[h].mod /\ load'[h].data.look \in {"upright", "unread"}
    /\ svc.caching /\ h \in DOMAIN Readable(store[cache.dir]) =>
           Readable(store[cache.dir])[h].mod < load'[h].mod

LEMMA LoadGoesOn ==
    ASSUME TypeInv, LoadInv, NEW h \in DOMAIN load, LoadStep(h), Fresh(h), cache'.dir = cache.dir,
           \A i \in Identities : Readable(store'[i]) = Readable(store[i]),
           \A k \in DOMAIN cache'.entries \ {h} :
               k \in DOMAIN cache.entries /\ cache'.entries[k] = cache.entries[k]
    PROVE  LoadInv'
<1>1. /\ UNCHANGED <<version, link, same, svc, scan>> /\ DOMAIN load' \subseteq DOMAIN load
      /\ \A k \in DOMAIN load' \ {h} : load'[k] = load[k]
  BY LoadStepKeeps
<1>2. Reachable' <=> Reachable
  BY <1>1 DEF Reachable
<1>3. svc.caching => Readable(store'[cache'.dir]) = Readable(store[cache.dir])
  BY DEF TypeInv, KnownInv, KeptOK, MemoryOK
<1>4. ASSUME NEW k \in DOMAIN load', k # h
      PROVE  /\ load'[k].at # "cached" => load'[k].mod <= version'[scan'.cam][k]
             /\ load'[k].at = "fetching" =>
                   /\ Reachable' => load'[k].mod = version'[scan'.cam][k]
                   /\ svc'.caching /\ k \in DOMAIN cache'.entries =>
                          cache'.entries[k].mod # load'[k].mod
             /\ load'[k].at \in {"decoding", "encoding"} =>
                   /\ load'[k].data.mod = load'[k].mod /\ load'[k].data.look \in {"upright", "unread"}
                   /\ svc'.caching /\ k \in DOMAIN Readable(store'[cache'.dir]) =>
                          Readable(store'[cache'.dir])[k].mod < load'[k].mod
  <2>1. load'[k] = load[k] /\ k \in DOMAIN load
    BY <1>1, <1>4
  <2>2. k \in DOMAIN cache'.entries =>
            k \in DOMAIN cache.entries /\ cache'.entries[k] = cache.entries[k]
    BY <1>4
  <2>3. QED
    BY <1>1, <1>2, <1>3, <2>1, <2>2 DEF LoadInv
<1>5. ASSUME h \in DOMAIN load'
      PROVE  /\ load'[h].at \in {"decoding", "encoding"} /\ load'[h].mod <= version'[scan'.cam][h]
             /\ load'[h].data.mod = load'[h].mod /\ load'[h].data.look \in {"upright", "unread"}
             /\ svc'.caching /\ h \in DOMAIN Readable(store'[cache'.dir]) =>
                    Readable(store'[cache'.dir])[h].mod < load'[h].mod
  BY <1>1, <1>3, <1>5 DEF Fresh
<1>6. QED
  BY <1>4, <1>5 DEF LoadInv

LEMMA SavedHits ==
    ASSUME DistinctIdentities, HitGrounds, FitInv, CacheInv, LoadInv, NEW h \in DOMAIN load, LoadStep(h),
           NEW e \in Entry, NEW f \in Contents, Saves(h, e, f), svc.caching, cache.dir # NoDir,
           load[h].at # "cached", e.mod = f.mod, f.cam = scan.cam,
           Show(e, f) \in {"upright", "unread"}, f.mod <= version[scan.cam][h],
           h \in DOMAIN Readable(store[cache.dir]) => Readable(store[cache.dir])[h].mod < e.mod,
           Fresh(h)
    PROVE  FitInv' /\ CacheInv' /\ LoadInv'
<1>1. version' = version /\ cache'.dir = cache.dir
  BY LoadStepKeeps, LoadStepDir DEF HitGrounds, Grounds
<1>2. cache.loaded
  BY DEF HitGrounds, Grounds, OursInv, ReadyInv
<1>3. FitInv' /\ CacheInv' /\ \A i \in Identities : Readable(store'[i]) = Readable(store[i])
  BY <1>1, <1>2, SaveHits DEF HitGrounds
<1>4. cache'.entries = With(cache.entries, h, e)
  BY SavesTypes DEF HitGrounds, Grounds, TypeInv, ScanOK, LoadsOK
<1>5. \A k \in DOMAIN cache'.entries \ {h} :
          k \in DOMAIN cache.entries /\ cache'.entries[k] = cache.entries[k]
  BY <1>4 DEF With, Onto
<1>6. QED
  BY <1>1, <1>3, <1>5, LoadGoesOn DEF HitGrounds, Grounds

LEMMA UnsavedHits ==
    ASSUME HitGrounds, FitInv, CacheInv, LoadInv, NEW h \in DOMAIN load, LoadStep(h),
           UNCHANGED <<cache, store>>, Fresh(h)
    PROVE  FitInv' /\ CacheInv' /\ LoadInv'
<1>1. version' = version
  BY LoadStepKeeps DEF HitGrounds, Grounds
<1>2. FitInv' /\ CacheInv'
  BY <1>1 DEF FitInv, CacheInv, OpenInv, BehindInv
<1>3. LoadInv'
  BY LoadGoesOn DEF HitGrounds, Grounds
<1>4. QED
  BY <1>2, <1>3

LEMMA FetchedHits ==
    ASSUME DistinctIdentities, HitGrounds, FitInv, CacheInv, LoadInv,
           NEW h \in DOMAIN load, Fetched(h)
    PROVE  FitInv' /\ CacheInv' /\ LoadInv'
<1>0. LoadStep(h) /\ Grounds
  BY DEF LoadStep, HitGrounds
<1>1. load[h].at = "fetching" /\ load[h].at # "cached"
  BY <1>0, FetchedDoes
<1>2. CASE EndLoad(h) /\ UNCHANGED <<cache, store>>
  <2>1. Fresh(h)
    BY <1>2 DEF EndLoad, Fresh
  <2>2. QED
    BY <1>0, <1>2, <2>1, UnsavedHits
<1> DEFINE raw       == [cam |-> link, mod |-> version[link][h], look |-> "raw"]
           new(exif) == [raw EXCEPT !.look = Decoded("raw", exif)]
           Got(exif) == /\ Reachable /\ link = scan.cam
                        /\ raw \in Contents /\ new(exif) \in Contents
                        /\ new(exif).look \in {"upright", "unread"}
                        /\ RawEntry(load[h].mod, exif) \in Entry
                        /\ load' = [load EXCEPT ![h] = [at |-> "decoding", mod |-> load[h].mod,
                                                        exif |-> exif, data |-> new(exif)]]
                        /\ IF svc.caching THEN Saves(h, RawEntry(load[h].mod, exif), raw)
                                          ELSE UNCHANGED <<cache, store>>
<1>3. ASSUME NEW exif \in BOOLEAN, Got(exif) PROVE FitInv' /\ CacheInv' /\ LoadInv'
  <2>1. load[h].mod = version[scan.cam][h]
    BY <1>1, <1>3 DEF LoadInv
  <2>2. raw.mod = load[h].mod /\ raw.cam = scan.cam /\ new(exif).mod = raw.mod
    BY <1>3, <2>1
  <2>3. load'[h] = [at |-> "decoding", mod |-> load[h].mod, exif |-> exif, data |-> new(exif)]
    BY <1>3
  <2>4. /\ RawEntry(load[h].mod, exif).mod = load[h].mod
        /\ Show(RawEntry(load[h].mod, exif), raw) \in {"upright", "unread"}
    BY DEF RawEntry, Show, Decoded
  <2>5. /\ scan.cam \in Cameras /\ h \in HandlesOf[scan.cam]
        /\ load[h].mod \in Nat
    <3>1. scan.at = "rows" /\ h \in HandlesOf[scan.cam]
      BY <1>0, <1>1 DEF Grounds, OursInv
    <3>2. QED
      BY <1>0, <3>1, Constants DEF Grounds, TypeInv, ScanOK, LoadsOK, LoadKind, scanning
  <2>6. ASSUME svc.caching, h \in DOMAIN Readable(store[cache.dir])
        PROVE  Readable(store[cache.dir])[h].mod < load[h].mod
    <3> DEFINE disk == Readable(store[cache.dir])
    <3>1. scan.at = "rows" /\ cache.loaded /\ cache.dir \in Identities /\ Own(cache.dir, scan.cam)
          /\ cache.dir # NoDir
      BY <1>0, <1>1, <2>6
         DEF HitGrounds, Grounds, OursInv, ReadyInv, ConnInv, TypeInv, KeptOK, KnownInv, MemoryOK, Working
    <3>2. EntriesOK(disk) /\ EntriesOK(cache.entries)
      BY <1>0, <3>1, ReadableOK DEF Grounds, TypeInv, KeptOK, StoreOK, MemoryOK
    <3>3. h \in DOMAIN cache.entries /\ disk[h].mod <= cache.entries[h].mod
      BY <2>6, <3>1 DEF CacheInv, BehindInv, Behind
    <3>4. cache.entries[h].mod <= load[h].mod
      BY <2>1, <2>5, <3>1, <3>3 DEF FitInv, TimelyIn
    <3>5. cache.entries[h].mod # load[h].mod
      BY <1>1, <2>6, <3>3 DEF LoadInv
    <3>6. disk[h].mod \in Nat /\ cache.entries[h].mod \in Nat
      BY <2>6, <3>2, <3>3, Constants DEF EntriesOK, Entry
    <3>7. QED
      BY <2>5, <3>3, <3>4, <3>5, <3>6
  <2>7. load[h].mod <= version[scan.cam][h]
    BY <2>1, <2>5
  <2>8. Fresh(h)
    BY <1>3, <2>2, <2>3, <2>6, <2>7 DEF Fresh
  <2>9. CASE svc.caching
    <3>1. Saves(h, RawEntry(load[h].mod, exif), raw) /\ cache.dir # NoDir
      BY <1>0, <1>3, <2>9 DEF Grounds, TypeInv, KnownInv
    <3>2. raw \in Contents /\ RawEntry(load[h].mod, exif) \in Entry
      BY <1>3
    <3>3. raw.mod <= version[scan.cam][h]
      BY <2>2, <2>7
    <3> HIDE DEF raw
    <3>4. QED
      BY <1>0, <1>1, <2>2, <2>4, <2>6, <2>8, <2>9, <3>1, <3>2, <3>3, SavedHits
  <2>10. CASE ~svc.caching
    <3>1. UNCHANGED <<cache, store>>
      BY <1>3, <2>10
    <3>2. QED
      BY <1>0, <2>8, <3>1, UnsavedHits
  <2>11. QED
    BY <2>9, <2>10
<1>4. QED
  <2>1. \/ EndLoad(h) /\ UNCHANGED <<cache, store>>
        \/ \E exif \in BOOLEAN : Got(exif)
    BY <1>0, FetchedDoes
  <2> HIDE DEF Got
  <2>2. QED
    BY <1>2, <1>3, <2>1

LEMMA LoadHits ==
    ASSUME DistinctIdentities, HitGrounds, FitInv, CacheInv, LoadInv,
           NEW h \in DOMAIN load, LoadStep(h)
    PROVE  FitInv' /\ CacheInv' /\ LoadInv'
<1>0. Grounds /\ TypeInv /\ ScanOK
  BY DEF HitGrounds, Grounds, TypeInv
<1>1. CASE Fetched(h)
  BY <1>1, FetchedHits
<1>2. CASE DecodedShown(h)
  <2>1. /\ load[h].at = "decoding" /\ UNCHANGED <<cache, store>>
        /\ \/ EndLoad(h)
           \/ load' = [load EXCEPT ![h] = [at |-> "encoding", mod |-> load[h].mod,
                                           exif |-> load[h].exif, data |-> load[h].data]]
    BY <1>0, <1>2, DecodedShownDoes
  <2>2. Fresh(h)
    BY <2>1 DEF EndLoad, Fresh, LoadInv
  <2>3. QED
    BY <2>1, <2>2, UnsavedHits
<1>3. CASE Encoded(h)
  <2> DEFINE e == EncodedEntry(load[h].mod, load[h].exif)
  <2>1. /\ load[h].at = "encoding" /\ EndLoad(h)
        /\ Saves(h, e, load[h].data) \/ UNCHANGED <<cache, store>>
    BY <1>3, EncodedDoes
  <2>2. Fresh(h)
    BY <2>1 DEF EndLoad, Fresh
  <2>3. /\ load[h].data # NoFile /\ svc.caching /\ cache.dir # NoDir /\ load[h] \in LoadKind
    BY <1>0, <2>1 DEF Grounds, OursInv, TypeInv, KnownInv, ScanOK, LoadsOK
  <2>4. /\ load[h].data \in Contents /\ e \in Entry /\ e.mod = load[h].mod /\ e.corrected
    BY <2>3 DEF LoadKind, EncodedEntry, Entry
  <2>5. /\ load[h].data.mod = load[h].mod /\ load[h].data.look \in {"upright", "unread"}
        /\ load[h].mod <= version[scan.cam][h] /\ load[h].at # "cached"
        /\ h \in DOMAIN Readable(store[cache.dir]) => Readable(store[cache.dir])[h].mod < load[h].mod
    BY <2>1, <2>3 DEF LoadInv
  <2>6. load[h].data.cam = scan.cam
    BY <2>3 DEF HitGrounds, LoadsOwned
  <2>7. Show(e, load[h].data) \in {"upright", "unread"}
    BY <2>4, <2>5 DEF Show
  <2> HIDE DEF e
  <2>8. CASE Saves(h, e, load[h].data)
    BY <2>2, <2>3, <2>4, <2>5, <2>6, <2>7, <2>8, SavedHits
  <2>9. CASE UNCHANGED <<cache, store>>
    BY <2>2, <2>9, UnsavedHits
  <2>10. QED
    BY <2>1, <2>8, <2>9
<1>4. CASE CachedShown(h)
  <2>1. EndLoad(h) /\ UNCHANGED <<cache, store>>
    BY <1>4, CachedShownDoes
  <2>2. Fresh(h)
    BY <2>1 DEF EndLoad, Fresh
  <2>3. QED
    BY <2>1, <2>2, UnsavedHits
<1>5. QED
  BY <1>1, <1>2, <1>3, <1>4 DEF LoadStep

(* All other steps keep the entries and the files that are, or drop some.  *)
LEMMA FitStays ==
    ASSUME Grounds, TypeInv', FilesOwned, FitInv, FilesStay, EntriesStay, Later PROVE FitInv'
<1>1. /\ StoreOK(store) /\ MemoryOK(cache) /\ MemoryOK(cache')
      /\ \A c \in Cameras : version[c] \in [HandlesOf[c] -> 1..MaxMod]
      /\ \A c \in Cameras : version'[c] \in [HandlesOf[c] -> 1..MaxMod]
  BY DEF Grounds, TypeInv, KeptOK, ControlOK
<1>2. \A c \in Cameras : \A h \in HandlesOf[c] :
          version[c][h] \in Nat /\ version'[c][h] \in Nat /\ version[c][h] <= version'[c][h]
  BY <1>1, Constants DEF Later
<1>3. ASSUME NEW i, NEW old, EntriesOK(old), TimelyIn(version, i, old), NEW new, PartOf(new, old)
      PROVE  TimelyIn(version', i, new)
  <2>1. ASSUME NEW c \in Cameras, Own(i, c), NEW h \in DOMAIN new \cap HandlesOf[c]
        PROVE  new[h].mod <= version'[c][h]
    <3>1. h \in DOMAIN old /\ new[h] = old[h] /\ old[h].mod \in Nat
      BY <1>3, <2>1, Constants DEF PartOf, EntriesOK, Entry
    <3>2. old[h].mod <= version[c][h]
      BY <1>3, <2>1, <3>1 DEF TimelyIn
    <3>3. QED
      BY <1>2, <2>1, <3>1, <3>2
  <2>2. QED
    BY <2>1 DEF TimelyIn
<1>4. ASSUME NEW i \in Identities, NEW old, FitIn(store[i].files, old), NEW new, PartOf(new, old)
      PROVE  FitIn(store'[i].files, new)
  BY <1>4 DEF FitIn, PartOf, FilesStay
<1>5. ASSUME NEW i \in Identities
      PROVE  /\ TimelyIn(version', i, Readable(store'[i]))
             /\ FitIn(store'[i].files, Readable(store'[i]))
  <2>1. EntriesOK(Readable(store[i])) /\ EntriesOK(cache.entries)
    BY <1>1, ReadableOK DEF StoreOK, MemoryOK
  <2>2. CASE PartOf(Readable(store'[i]), Readable(store[i]))
    BY <1>3, <1>4, <2>1, <2>2 DEF FitInv
  <2>3. CASE i = cache.dir /\ PartOf(Readable(store'[i]), cache.entries)
    <3>1. TimelyIn(version, i, cache.entries) /\ FitIn(store[i].files, cache.entries)
      BY <2>3, Constants DEF FitInv
    <3>2. QED
      BY <1>3, <1>4, <2>1, <2>3, <3>1
  <2>4. QED
    BY <2>2, <2>3 DEF EntriesStay
<1>6. ASSUME NEW i \in Identities, NEW h \in DOMAIN store'[i].files
      PROVE  store'[i].files[h].mod <= version'[store'[i].files[h].cam][h]
  <2> DEFINE f == store[i].files[h]
  <2>1. h \in DOMAIN store[i].files /\ store'[i].files[h] = f
    BY <1>6 DEF FilesStay
  <2>2. f \in Contents /\ h \in HandlesOf[f.cam] /\ f.mod <= version[f.cam][h]
    BY <1>1, <2>1 DEF FitInv, FilesOwned, StoreOK, DirOK, FilesOK
  <2>3. f.cam \in Cameras /\ f.mod \in Nat
    BY <2>2, Constants DEF Contents
  <2> HIDE DEF f
  <2>4. QED
    BY <1>2, <2>1, <2>2, <2>3
<1>7. ASSUME cache'.dir # NoDir
      PROVE  /\ TimelyIn(version', cache'.dir, cache'.entries)
             /\ FitIn(store'[cache'.dir].files, cache'.entries)
  <2>1. cache'.dir \in Identities /\ EntriesOK(cache.entries) /\ EntriesOK(Readable(store[cache'.dir]))
    BY <1>1, <1>7, ReadableOK DEF StoreOK, MemoryOK
  <2>2. CASE cache'.dir = cache.dir /\ PartOf(cache'.entries, cache.entries)
    <3>1. TimelyIn(version, cache'.dir, cache.entries) /\ FitIn(store[cache'.dir].files, cache.entries)
      BY <1>7, <2>2 DEF FitInv
    <3>2. QED
      BY <1>3, <1>4, <2>1, <2>2, <3>1
  <2>3. CASE PartOf(cache'.entries, Readable(store[cache'.dir]))
    BY <1>3, <1>4, <2>1, <2>3 DEF FitInv
  <2>4. QED
    BY <1>7, <2>2, <2>3 DEF EntriesStay
<1>8. QED
  BY <1>5, <1>6, <1>7 DEF FitInv

LEMMA LoadStays ==
    ASSUME Grounds, TypeInv', LoadInv, UNCHANGED <<scan, load>>, Steady,
           svc'.caching => /\ svc.caching /\ cache' = cache
                           /\ PartOf(Readable(store'[cache.dir]), Readable(store[cache.dir]))
    PROVE  LoadInv'
<1>1. ASSUME NEW h \in DOMAIN load, load[h].at # "cached"
      PROVE  /\ load[h].mod <= version'[scan.cam][h]
             /\ Reachable' => Reachable /\ version'[scan.cam][h] = version[scan.cam][h]
  <2>1. /\ h \in HandlesOf[scan.cam] /\ scan.at = "rows" /\ scan.cam \in Cameras
        /\ link \in {None, scan.cam} /\ load[h] \in LoadKind
    BY <1>1 DEF Grounds, OursInv, TypeInv, ScanOK, LoadsOK, LinkInv, Working, scanning
  <2>2. version[scan.cam][h] \in Nat /\ version'[scan.cam][h] \in Nat /\ load[h].mod \in Nat
    BY <2>1, Constants DEF Grounds, TypeInv, ControlOK, LoadKind
  <2>3. load[h].mod <= version[scan.cam][h] /\ version[scan.cam][h] <= version'[scan.cam][h]
    BY <1>1, <2>1 DEF LoadInv, Steady, Later
  <2>4. Reachable' => Reachable /\ link = scan.cam /\ version'[link] = version[link]
    BY <2>1 DEF Steady, Reachable
  <2>5. QED
    BY <2>2, <2>3, <2>4
<1>2. QED
  BY <1>1 DEF LoadInv, PartOf

LEMMA LoadInvStep ==
    ASSUME Grounds, ListInv, LoadInv, [Next]_vars
    PROVE  LoadInv' \/ \E h \in DOMAIN load : LoadStep(h)
<1>0. TypeInv /\ TypeInv' /\ PromptInv /\ MemoryOK(cache)
  BY StepTypes DEF Grounds, TypeInv, KeptOK
<1>a. ASSUME \A h \in DOMAIN load' : load'[h].at = "cached" PROVE LoadInv'
  BY <1>a DEF LoadInv
<1>b. ASSUME NEW i, NEW c, Begun(i, c) PROVE LoadInv'
  BY <1>a, <1>b DEF Begun
<1>c. ASSUME UNCHANGED load, scan.at \notin {"snapshot", "rows"} PROVE LoadInv'
  BY <1>0, <1>a, <1>c DEF TypeInv, ScanOK
<1>d. ASSUME UNCHANGED <<scan, load, link, same>>, ~svc'.caching PROVE LoadInv'
  <2>1. Steady
    BY <1>d, SteadyStep DEF Reachable
  <2>2. QED
    BY <1>0, <1>d, <2>1, LoadStays
<1>e. ASSUME UNCHANGED <<scan, load, link, same, svc, cache, store>> PROVE LoadInv'
  <2>1. Steady
    BY <1>e, SteadyStep DEF Reachable
  <2>2. PartOf(Readable(store'[cache.dir]), Readable(store[cache.dir]))
    BY <1>e, NothingIsPart
  <2>3. QED
    BY <1>0, <1>e, <2>1, <2>2, LoadStays
<1>1. ASSUME NEW quick \in BOOLEAN, StartScan(quick) PROVE LoadInv'
  <2>1. CASE UNCHANGED load
    BY <1>0, <1>1, <1>c, <2>1, StartScanOutline DEF scanning
  <2>2. QED
    BY <1>0, <1>1, <1>b, <2>1, StartScanOutline
<1>2. CASE ScanClosed
  BY <1>0, <1>2, <1>c, ScanClosedOutline
<1>3. CASE Connected
  BY <1>0, <1>3, <1>a, <1>c, ConnectedOutline
<1>4. CASE Asked
  BY <1>0, <1>4, <1>b, AskedOutline
<1>5. CASE Work
  <2>1. CASE SnapshotShown
    BY <1>a, <2>1 DEF SnapshotShown, NoLoads
  <2>2. CASE Listed
    BY <1>0, <1>a, <1>c, <2>2, ListedOutline DEF Ended
  <2>3. CASE InfoRead
    BY <1>0, <1>c, <2>3, InfoReadOutline
  <2>4. CASE InfosRead \/ RowLoaded
    <3>1. /\ UNCHANGED <<version, link, same>> /\ scan.at \in Working
          /\ Ended \/ \E start \in Nat : RowBegun(start)
      BY <1>0, <2>4, RowWorkDoes DEF Working
    <3>2. CASE Ended
      BY <1>a, <3>2 DEF Ended
    <3>3. ASSUME NEW start \in Nat, RowBegun(start) PROVE LoadInv'
      <4>1. scan'.cam = scan.cam /\ svc' = svc /\ cache' = cache /\ (Reachable' <=> Reachable)
        BY <3>1, <3>3 DEF RowBegun, Reachable
      <4>2. ASSUME NEW h \in DOMAIN load'
            PROVE  /\ load'[h].at \in {"cached", "fetching"}
                   /\ load'[h].mod <= version[scan.cam][h]
                   /\ Reachable => load'[h].mod = version[scan.cam][h]
                   /\ load'[h].at = "fetching" /\ svc.caching /\ h \in DOMAIN cache.entries =>
                          cache.entries[h].mod # load'[h].mod
        <5>1. PICK p \in ToSet(scan.list) : LoadBegun(h, p)
          BY <3>3 DEF RowBegun
        <5>2. /\ p.mod <= version[scan.cam][p.handle]
              /\ Reachable => p.mod = version[scan.cam][p.handle]
          BY <3>1 DEF ListInv
        <5>3. QED
          BY <5>1, <5>2 DEF LoadBegun
      <4>3. QED
        BY <3>1, <4>1, <4>2 DEF LoadInv
    <3>4. QED
      BY <3>1, <3>2, <3>3
  <2>5. QED
    BY <1>5, <2>1, <2>2, <2>3, <2>4 DEF Work
<1>6. CASE Leave
  BY <1>6, <1>e, LeaveOutline
<1>7. CASE LeaveClosed
  <2>1. /\ UNCHANGED <<scan, load>> /\ ~Reachable'
        /\ \/ svc'.caching = svc.caching /\ UNCHANGED <<cache, store>>
           \/ ~svc'.caching
    BY <1>0, <1>7, LeaveClosedOutline DEF Reachable, Cleared
  <2>2. Steady
    BY <2>1, SteadyStep
  <2>3. svc'.caching => /\ svc.caching /\ cache' = cache
                        /\ PartOf(Readable(store'[cache.dir]), Readable(store[cache.dir]))
    BY <2>1, NothingIsPart
  <2>4. QED
    BY <1>0, <2>1, <2>2, <2>3, LoadStays
<1>8. CASE LeaveFlushed
  BY <1>0, <1>8, <1>d, LeaveFlushedOutline DEF Cleared
<1>9. ASSUME NEW enabled \in BOOLEAN, SetCachingPreference(enabled) PROVE LoadInv'
  <2>1. svc.prompt /\ UNCHANGED load
    BY <1>0, <1>9, SetCachingPreferenceOutline
  <2>2. scan.at \notin {"snapshot", "rows"}
    BY <1>0, <2>1 DEF PromptInv, Working
  <2>3. QED
    BY <1>c, <2>1, <2>2
<1>10. CASE Outside
  <2>1. UNCHANGED <<scan, load, link, svc, cache>> /\ (Reachable' => same)
    <3>1. /\ UNCHANGED <<link, scan, load, svc, cache>>
          /\ UNCHANGED <<bus, same>> \/ same' = same \/ same' = FALSE
      BY <1>0, <1>10, OutsideOutline
    <3>2. QED
      BY <3>1 DEF Reachable
  <2>2. Steady
    BY <2>1, SteadyStep
  <2>3. svc.caching => PartOf(Readable(store'[cache.dir]), Readable(store[cache.dir]))
    BY <1>0, <1>10, OutsideStays DEF TypeInv, KnownInv, MemoryOK
  <2>4. QED
    BY <1>0, <2>1, <2>2, <2>3, LoadStays
<1>11. CASE Relaunch
  BY <1>11, <1>a DEF Relaunch, NoLoads
<1>12. CASE UNCHANGED vars
  BY <1>12, <1>e DEF vars, session
<1>13. QED
  BY <1>1, <1>2, <1>3, <1>4, <1>5, <1>6, <1>7, <1>8, <1>9, <1>10, <1>11, <1>12, NextSteps

HitInv == FitInv /\ CacheInv /\ ReadyInv /\ ListInv /\ LoadInv

LEMMA HitStep ==
    ASSUME DistinctIdentities, Grounds, OwnInv, HitInv, [Next]_vars PROVE HitInv'
<1>1. ReadyInv' /\ ListInv' /\ TypeInv'
  BY ReadyStep, ListStep, StepTypes DEF HitInv
<1>2. ASSUME NEW h \in DOMAIN load, LoadStep(h) PROVE FitInv' /\ CacheInv' /\ LoadInv'
  BY <1>2, LoadHits DEF HitInv, OwnInv, HitGrounds
<1>3. CASE ~\E h \in DOMAIN load : LoadStep(h)
  <2>1. FilesStay /\ EntriesStay /\ CacheInv' /\ Later /\ LoadInv'
    BY <1>3, FilesStep, EntriesStep, VersionStep, LoadInvStep DEF HitInv, CacheInv, Stays
  <2>2. FitInv'
    BY <1>1, <2>1, FitStays DEF HitInv, OwnInv
  <2>3. QED
    BY <1>1, <2>1, <2>2 DEF HitInv
<1>4. QED
  BY <1>1, <1>2, <1>3 DEF HitInv

LEMMA HitAlways == ASSUME DistinctIdentities PROVE Spec => []HitInv
<1>1. Init => HitInv
  <2> SUFFICES ASSUME Init PROVE HitInv
    OBVIOUS
  <2>1. \A i \in Identities : Readable(store[i]) = NoEntries /\ store[i].files = NoEntries
    BY DEF Init, Readable, EmptyDir
  <2>2. DOMAIN NoEntries = {}
    BY DEF NoEntries
  <2>3. /\ cache.dir = NoDir /\ ~cache.loaded /\ cache.entries = NoEntries
        /\ scan.at = "idle" /\ DOMAIN load = {}
    BY DEF Init, NewCache, NoScan, NoLoads
  <2>4. FitInv
    BY <2>1, <2>2, <2>3 DEF FitInv, TimelyIn, FitIn
  <2>5. QED
    BY <2>3, <2>4 DEF HitInv, CacheInv, OpenInv, BehindInv, ReadyInv, ListInv, LoadInv, Working
<1>2. Grounds /\ OwnInv /\ HitInv /\ [Next]_vars => HitInv'
  BY HitStep
<1>3. QED
  BY <1>1, <1>2, OwnAlways, PTL DEF Spec

(* A thumbnail found in the cache is of the photo as it is and has its     *)
(* transform applied once, though manifests are read and written late or   *)
(* cut short, loads fail between the two saves, caches are deleted under   *)
(* the manifest in memory and photos are modified: whatever of it the scan *)
(* or the launch meets.                                                    *)
THEOREM HitsAreRight == ASSUME DistinctIdentities PROVE Spec => []HitIsRight
<1>1. Grounds /\ OwnInv /\ HitInv => HitIsRight
  <2> SUFFICES ASSUME Grounds, OwnInv, HitInv PROVE HitIsRight
    OBVIOUS
  <2>1. ASSUME NEW i \in Identities, NEW entries, EntriesOK(entries),
               FitIn(store[i].files, entries), TimelyIn(version, i, entries)
        PROVE  Right(i, entries)
    <3>1. ASSUME NEW h \in DOMAIN entries \cap DOMAIN store[i].files, NEW c \in Cameras,
                 Own(i, c), h \in HandlesOf[c], entries[h].mod = version[c][h]
          PROVE  LET f == store[i].files[h]
                 IN f.cam = c /\ f.mod = entries[h].mod
                    /\ Show(entries[h], f) \in {"upright", "unread"}
      <4> DEFINE f == store[i].files[h]
      <4>1. f \in Contents /\ Own(i, f.cam) /\ f.mod <= version[f.cam][h] /\ Fits(entries[h], f)
        BY <2>1, <3>1 DEF Grounds, TypeInv, KeptOK, StoreOK, DirOK, FilesOK, OwnInv, FilesOwned,
                          HitInv, FitInv, FitIn
      <4>2. f.cam \in Cameras /\ f.mod \in Nat /\ entries[h].mod \in Nat
        BY <2>1, <4>1, Constants DEF Contents, EntriesOK, Entry
      <4> HIDE DEF f
      <4>3. f.cam = c
        BY <3>1, <4>1, <4>2, OneOwner
      <4>4. ~(entries[h].mod < f.mod)
        BY <3>1, <4>1, <4>2, <4>3
      <4>5. QED
        BY <4>1, <4>3, <4>4 DEF Fits, f
    <3>2. QED
      BY <3>1 DEF Right, Own
  <2>2. /\ MemoryOK(cache) /\ \A i \in Identities : EntriesOK(Readable(store[i]))
    BY ReadableOK DEF Grounds, TypeInv, KeptOK, StoreOK
  <2>3. \A i \in Identities : Right(i, Readable(store[i]))
    BY <2>1, <2>2 DEF HitInv, FitInv
  <2>4. cache.dir # NoDir => Right(cache.dir, cache.entries)
    BY <2>1, <2>2 DEF HitInv, FitInv, MemoryOK
  <2>5. QED
    BY <2>3, <2>4 DEF HitIsRight
<1>2. QED
  BY <1>1, OwnAlways, HitAlways, PTL
-----------------------------------------------------------------------------
(* What a scan shows in which nothing fails.  Then no disconnect overlaps  *)
(* it, the camera stays connected and its directory is the one in use.     *)
FaultInv ==
    /\ leave # "idle" => fault
    /\ scan.at \in Working \cup {"asking"} /\ ~fault => link = scan.cam /\ svc.connected
DirInv == scan.at \in Working /\ svc.caching /\ svc.identity # None => cache.dir = svc.identity

LEMMA LoadFault ==
    ASSUME Grounds, NEW h \in DOMAIN load, LoadStep(h) PROVE fault => fault'
<1>1. TypeInv
  BY DEF Grounds
<1>2. CASE Fetched(h)
  BY <1>2, FetchedDoes
<1>3. CASE DecodedShown(h)
  BY <1>1, <1>3, DecodedShownDoes
<1>4. CASE Encoded(h)
  BY <1>4, EncodedDoes
<1>5. CASE CachedShown(h)
  BY <1>5, CachedShownDoes
<1>6. QED
  BY <1>2, <1>3, <1>4, <1>5 DEF LoadStep

LEMMA WorkFault == ASSUME TypeInv, Work PROVE fault => fault'
<1>1. CASE SnapshotShown
  BY <1>1 DEF SnapshotShown, ghosts
<1>2. CASE Listed
  BY <1>2, ListedOutline
<1>3. CASE InfoRead
  BY <1>3, InfoReadOutline
<1>4. CASE InfosRead \/ RowLoaded
  BY <1>4, RowWorkDoes
<1>5. QED
  BY <1>1, <1>2, <1>3, <1>4 DEF Work

LEMMA FaultStep == ASSUME Grounds, FaultInv, [Next]_vars PROVE FaultInv'
<1>0. TypeInv /\ LinkInv
  BY DEF Grounds
<1>a. ASSUME UNCHANGED <<link, scan, leave>>, svc'.connected = svc.connected, fault => fault'
      PROVE  FaultInv'
  BY <1>a DEF FaultInv
<1>1. ASSUME NEW quick \in BOOLEAN, StartScan(quick) PROVE FaultInv'
  BY <1>0, <1>1, StartScanOutline DEF FaultInv, Working, scanning, LinkInv, Begun
<1>2. CASE ScanClosed
  BY <1>0, <1>2, ScanClosedOutline DEF FaultInv, Working
<1>3. CASE Connected
  BY <1>0, <1>3, ConnectedOutline DEF FaultInv, Working, ControlOK, TypeInv, Services
<1>4. CASE Asked
  BY <1>0, <1>4, AskedOutline DEF FaultInv, Begun
<1>5. CASE Work
  <2>1. /\ scan.at \in Working /\ UNCHANGED <<link, leave>>
        /\ Ended \/ GoesOn
    BY <1>0, <1>5, WorkOutline
  <2>2. fault => fault'
    BY <1>0, <1>5, WorkFault
  <2>3. QED
    BY <2>1, <2>2 DEF FaultInv, Ended, GoesOn, Working
<1>6. CASE Leave
  BY <1>6, LeaveOutline DEF FaultInv
<1>7. CASE LeaveClosed
  BY <1>0, <1>7, LeaveClosedOutline DEF FaultInv
<1>8. CASE LeaveFlushed
  BY <1>0, <1>8, LeaveFlushedOutline DEF FaultInv
<1>9. ASSUME NEW h \in DOMAIN load, LoadStep(h) PROVE FaultInv'
  BY <1>0, <1>9, <1>a, LoadStepKeeps, LoadFault
<1>10. ASSUME NEW enabled \in BOOLEAN, SetCachingPreference(enabled) PROVE FaultInv'
  BY <1>0, <1>10, <1>a, SetCachingPreferenceOutline
<1>11. CASE Outside
  BY <1>0, <1>11, <1>a, OutsideOutline
<1>12. CASE Relaunch
  BY <1>12 DEF Relaunch, NoScan, FaultInv, Working
<1>13. CASE UNCHANGED vars
  BY <1>13, <1>a DEF vars, session, ghosts
<1>14. QED
  BY <1>1, <1>2, <1>3, <1>4, <1>5, <1>6, <1>7, <1>8, <1>9, <1>10, <1>11, <1>12, <1>13, NextSteps

LEMMA DirStep == ASSUME Grounds, DirInv, [Next]_vars PROVE DirInv'
<1>0. TypeInv /\ PromptInv
  BY DEF Grounds
<1>a. ASSUME scan'.at \notin Working PROVE DirInv'
  BY <1>a DEF DirInv
<1>b. ASSUME NEW i, NEW c, Begun(i, c) PROVE DirInv'
  BY <1>b DEF DirInv, Begun
<1>c. ASSUME scan'.at = scan.at, svc'.caching = svc.caching, cache'.dir = cache.dir,
             svc'.identity \in {svc.identity, None}
      PROVE  DirInv'
  BY <1>c DEF DirInv
<1>1. ASSUME NEW quick \in BOOLEAN, StartScan(quick) PROVE DirInv'
  <2>1. CASE UNCHANGED scan
    BY <1>0, <1>1, <1>a, <2>1, StartScanOutline DEF scanning, Working
  <2>2. QED
    BY <1>0, <1>1, <1>a, <1>b, <2>1, StartScanOutline DEF Working
<1>2. CASE ScanClosed
  BY <1>0, <1>2, <1>a, ScanClosedOutline DEF Working
<1>3. CASE Connected
  BY <1>0, <1>3, <1>a, ConnectedOutline DEF Working
<1>4. CASE Asked
  BY <1>0, <1>4, <1>b, AskedOutline
<1>5. CASE Work
  BY <1>0, <1>5, <1>a, WorkOutline DEF DirInv, Ended, GoesOn, Working
<1>6. CASE Leave
  BY <1>6, <1>c, LeaveOutline
<1>7. CASE LeaveClosed
  BY <1>0, <1>7, LeaveClosedOutline DEF DirInv
<1>8. CASE LeaveFlushed
  BY <1>0, <1>8, LeaveFlushedOutline DEF DirInv, Cleared
<1>9. ASSUME NEW h \in DOMAIN load, LoadStep(h) PROVE DirInv'
  BY <1>0, <1>9, <1>c, LoadStepKeeps, LoadStepDir
<1>10. ASSUME NEW enabled \in BOOLEAN, SetCachingPreference(enabled) PROVE DirInv'
  BY <1>0, <1>10, <1>a, SetCachingPreferenceOutline DEF PromptInv
<1>11. CASE Outside
  BY <1>0, <1>11, <1>c, OutsideOutline
<1>12. CASE Relaunch
  BY <1>12, <1>a DEF Relaunch, NoScan, Working
<1>13. CASE UNCHANGED vars
  BY <1>13, <1>c DEF vars
<1>14. QED
  BY <1>1, <1>2, <1>3, <1>4, <1>5, <1>6, <1>7, <1>8, <1>9, <1>10, <1>11, <1>12, <1>13, NextSteps

(* The files of the entries are there, but for caches deleted under them.  *)
KeepInv ==
    /\ \A i \in Identities \ lost : DOMAIN Readable(store[i]) \subseteq DOMAIN store[i].files
    /\ cache.dir \notin lost \cup {NoDir} =>
           DOMAIN cache.entries \subseteq DOMAIN store[cache.dir].files

(* Files are dropped when photos are gone and when caches are deleted.     *)
FilesKept == \A i \in Identities : DOMAIN store'[i].files = DOMAIN store[i].files

LEMMA KeptStep ==
    ASSUME Grounds, [Next]_vars
    PROVE  \/ FilesKept /\ lost' = lost
           \/ Purged /\ cache'.dir = cache.dir /\ lost' = lost
           \/ DeleteSome
           \/ \E h \in DOMAIN load : LoadStep(h)
<1> DEFINE P == FilesKept /\ lost' = lost
           Q == P \/ (Purged /\ cache'.dir = cache.dir /\ lost' = lost)
                  \/ DeleteSome \/ \E h \in DOMAIN load : LoadStep(h)
<1>0. TypeInv /\ KeptOK
  BY DEF Grounds, TypeInv
<1>a. ASSUME store' = store, lost' = lost PROVE P
  BY <1>a DEF FilesKept
<1>b. ASSUME NEW i, NEW c, Begun(i, c), lost' = lost PROVE P
  BY <1>b DEF Begun, FilesKept
<1>c. ASSUME Cleared, lost' = lost PROVE P
  BY <1>c DEF Cleared, FilesKept
<1>d. P => Q
  OBVIOUS
<1>e. ASSUME Purged, cache'.dir = cache.dir, lost' = lost PROVE Q
  BY <1>e
<1>f. DeleteSome \/ (\E h \in DOMAIN load : LoadStep(h)) => Q
  OBVIOUS
<1>g. ASSUME FilesKept, lost' = lost PROVE P
  BY <1>g
<1> SUFFICES Q
  OBVIOUS
<1> HIDE DEF P, Q
<1>1. ASSUME NEW quick \in BOOLEAN, StartScan(quick) PROVE P
  BY <1>0, <1>1, <1>a, <1>b, StartScanOutline
<1>2. CASE ScanClosed
  BY <1>0, <1>2, <1>c, <1>d, ScanClosedOutline
<1>3. CASE Connected
  BY <1>0, <1>3, <1>a, <1>d, ConnectedOutline
<1>4. CASE Asked
  BY <1>0, <1>4, <1>b, <1>d, AskedOutline
<1>5. CASE Work
  <2>1. lost' = lost
    BY <1>0, <1>5, WorkOutline
  <2>2. CASE SnapshotShown \/ InfoRead
    BY <1>0, <1>a, <1>d, <2>2, InfoReadOutline DEF SnapshotShown, ghosts
  <2>3. CASE Listed
    <3>1. ASSUME MemoryOK(Turned), Opens(Turned) PROVE P
      <4>1. FilesKept
        BY <1>0, <3>1, OpensTypes DEF FilesKept
      <4>2. QED
        BY <1>g, <2>1, <4>1
    <3>2. QED
      BY <1>0, <1>a, <1>d, <2>1, <2>3, <3>1, ListedOutline
  <2>4. CASE InfosRead \/ RowLoaded
    <3>1. ASSUME NEW start \in Nat, RowBegun(start) PROVE P
      BY <1>g, <2>1, <3>1 DEF RowBegun, FilesKept
    <3>2. QED
      BY <1>0, <1>d, <1>e, <2>1, <2>4, <3>1, RowWorkDoes DEF Ended
  <2>5. QED
    BY <1>5, <2>2, <2>3, <2>4 DEF Work
<1>6. CASE Leave
  BY <1>6, <1>a, <1>d, LeaveOutline
<1>7. CASE LeaveClosed
  BY <1>0, <1>7, <1>a, <1>c, <1>d, LeaveClosedOutline
<1>8. CASE LeaveFlushed
  BY <1>0, <1>8, <1>c, <1>d, LeaveFlushedOutline
<1>9. ASSUME NEW enabled \in BOOLEAN, SetCachingPreference(enabled) PROVE P
  BY <1>0, <1>9, <1>a, SetCachingPreferenceOutline
<1>10. CASE Outside
  <2>1. ASSUME ~DeleteSome PROVE store' = store /\ lost' = lost
    BY <1>10, <2>1 DEF Outside, ToggleCaching, Unplug, Plug, Modify, ghosts
  <2>2. QED
    BY <1>a, <1>d, <1>f, <2>1
<1>11. CASE Relaunch
  BY <1>11, <1>a, <1>d DEF Relaunch
<1>12. CASE UNCHANGED vars
  BY <1>12, <1>a, <1>d DEF vars, ghosts
<1>13. QED
  BY <1>1, <1>2, <1>3, <1>4, <1>5, <1>6, <1>7, <1>8, <1>9, <1>10, <1>11, <1>12, <1>d, <1>f, NextSteps

LEMMA KeepStep == ASSUME Grounds, OpenInv, KeepInv, [Next]_vars PROVE KeepInv'
<1>0. /\ TypeInv /\ TypeInv' /\ KeptOK /\ MemoryOK(cache) /\ MemoryOK(cache')
      /\ cache.dir # NoDir => cache.dir \in Identities
      /\ cache'.dir # NoDir => cache'.dir \in Identities
  BY StepTypes DEF Grounds, TypeInv, KeptOK, MemoryOK
<1>1. CASE FilesKept /\ lost' = lost /\ ~\E h \in DOMAIN load : LoadStep(h)
  <2>1. EntriesStay
    BY <1>1, EntriesStep DEF Stays
  <2>2. ASSUME NEW i \in Identities \ lost'
        PROVE  DOMAIN Readable(store'[i]) \subseteq DOMAIN store'[i].files
    <3>1. DOMAIN Readable(store[i]) \subseteq DOMAIN store[i].files
      BY <1>1 DEF KeepInv
    <3>2. i = cache.dir => DOMAIN cache.entries \subseteq DOMAIN store[i].files
      BY <1>1, Constants DEF KeepInv
    <3>3. DOMAIN store'[i].files = DOMAIN store[i].files
      BY <1>1 DEF FilesKept
    <3>4. QED
      BY <2>1, <3>1, <3>2, <3>3 DEF EntriesStay, PartOf
  <2>3. ASSUME cache'.dir \notin lost' \cup {NoDir}
        PROVE  DOMAIN cache'.entries \subseteq DOMAIN store'[cache'.dir].files
    <3>1. cache'.dir \in Identities \ lost
      BY <1>0, <1>1, <2>3
    <3>2. DOMAIN Readable(store[cache'.dir]) \subseteq DOMAIN store[cache'.dir].files
      BY <3>1 DEF KeepInv
    <3>3. cache'.dir = cache.dir => DOMAIN cache.entries \subseteq DOMAIN store[cache'.dir].files
      BY <1>1, <2>3 DEF KeepInv
    <3>4. DOMAIN store'[cache'.dir].files = DOMAIN store[cache'.dir].files
      BY <1>1, <3>1 DEF FilesKept
    <3>5. QED
      BY <2>1, <2>3, <3>2, <3>3, <3>4 DEF EntriesStay, PartOf
  <2>4. QED
    BY <2>2, <2>3 DEF KeepInv
<1>2. CASE Purged /\ cache'.dir = cache.dir /\ lost' = lost
  <2>1. PICK gone \in SUBSET DOMAIN cache.entries :
          /\ DOMAIN cache'.entries = DOMAIN cache.entries \ gone
          /\ cache.dir # NoDir =>
                 /\ DOMAIN store'[cache.dir].files = DOMAIN store[cache.dir].files \ gone
                 /\ \/ store'[cache.dir].manifest \in {{}, {cache'.entries}}
                    \/ gone = {} /\ store'[cache.dir].manifest = store[cache.dir].manifest
    BY <1>2 DEF Purged
  <2>2. ASSUME cache.dir \in Identities \ lost
        PROVE  /\ DOMAIN cache'.entries \subseteq DOMAIN store'[cache.dir].files
               /\ DOMAIN Readable(store'[cache.dir]) \subseteq DOMAIN store'[cache.dir].files
    <3>1. /\ DOMAIN cache.entries \subseteq DOMAIN store[cache.dir].files /\ cache.dir # NoDir
          /\ DOMAIN Readable(store[cache.dir]) \subseteq DOMAIN store[cache.dir].files
      BY <2>2, Constants DEF KeepInv
    <3>2. DOMAIN cache'.entries \subseteq DOMAIN store'[cache.dir].files
      BY <2>1, <3>1
    <3>3. store'[cache.dir].manifest \in {{}, {cache'.entries}}
              => Readable(store'[cache.dir]) \in {NoEntries, cache'.entries}
      BY DEF Readable
    <3>4. store'[cache.dir].manifest = store[cache.dir].manifest
              => Readable(store'[cache.dir]) = Readable(store[cache.dir])
      BY DEF Readable
    <3>5. DOMAIN NoEntries = {}
      BY DEF NoEntries
    <3>6. QED
      BY <2>1, <3>1, <3>2, <3>3, <3>4, <3>5
  <2>3. \A i \in Identities : i # cache.dir => store'[i] = store[i]
    BY <1>2 DEF Purged
  <2>4. QED
    BY <1>0, <1>2, <2>2, <2>3 DEF KeepInv
<1>3. CASE DeleteSome
  <2>1. PICK ids : DeleteCaches(ids)
    BY <1>3 DEF DeleteSome
  <2>2. /\ ids \subseteq Identities /\ lost' = lost \cup (ids \cap {cache.dir}) /\ cache' = cache
        /\ \A i \in ids : store'[i] = Delete(store[i])
        /\ \A i \in Identities \ ids : store'[i] = store[i]
    BY <1>0, <2>1, DeleteCachesDoes
  <2>3. ASSUME NEW i \in ids PROVE DOMAIN Readable(store'[i]) = {}
    <3>1. DirOK(store[i]) /\ store'[i] = Delete(store[i])
      BY <1>0, <2>2 DEF KeptOK, StoreOK
    <3>2. store'[i].manifest = {}
      BY <3>1, DeleteTypes
    <3>3. QED
      BY <3>2 DEF Readable, NoEntries
  <2>4. QED
    BY <1>0, <2>2, <2>3 DEF KeepInv
<1>4. ASSUME NEW h \in DOMAIN load, LoadStep(h) PROVE KeepInv'
  <2>1. lost' = lost /\ h \in Handles
    BY <1>0, <1>4, LoadStepKeeps
  <2>2. CASE UNCHANGED <<cache, store>>
    BY <2>1, <2>2 DEF KeepInv
  <2>3. ASSUME NEW e \in Entry, NEW f \in Contents, Saves(h, e, f), cache.dir # NoDir PROVE KeepInv'
    <3>1. /\ cache'.dir = cache.dir /\ cache'.entries = With(cache.entries, h, e)
          /\ store'[cache.dir].files = With(store[cache.dir].files, h, f)
          /\ store'[cache.dir].manifest = store[cache.dir].manifest
          /\ \A i \in Identities : i # cache.dir => store'[i] = store[i]
      BY <1>0, <2>1, <2>3, SavesTypes
    <3>2. /\ DOMAIN cache'.entries = DOMAIN cache.entries \cup {h}
          /\ DOMAIN store'[cache.dir].files = DOMAIN store[cache.dir].files \cup {h}
      BY <3>1 DEF With, Onto
    <3>3. Readable(store'[cache.dir]) = Readable(store[cache.dir])
      BY <3>1 DEF Readable
    <3>4. QED
      BY <1>0, <2>1, <2>3, <3>1, <3>2, <3>3 DEF KeepInv
  <2>4. \/ UNCHANGED <<cache, store>>
        \/ cache.dir # NoDir /\ \E e \in Entry, f \in Contents : Saves(h, e, f)
    <3> DEFINE raw == [cam |-> link, mod |-> version[link][h], look |-> "raw"]
    <3>1. \/ UNCHANGED <<cache, store>>
          \/ /\ cache.dir # NoDir
             /\ \E exif \in BOOLEAN : /\ raw \in Contents /\ RawEntry(load[h].mod, exif) \in Entry
                                      /\ Saves(h, RawEntry(load[h].mod, exif), raw)
          \/ /\ cache.dir # NoDir
             /\ load[h].data \in Contents /\ EncodedEntry(load[h].mod, load[h].exif) \in Entry
             /\ Saves(h, EncodedEntry(load[h].mod, load[h].exif), load[h].data)
      BY <1>4, LoadStepSaves
    <3> HIDE DEF raw
    <3>2. QED
      BY <3>1
  <2>5. QED
    BY <2>2, <2>3, <2>4
<1>5. QED
  BY <1>1, <1>2, <1>3, <1>4, KeptStep

(* Every position from the first of a row on is in a row, and the rows     *)
(* that are passed over have all their thumbnails.                         *)
LEMMA RowOf ==
    ASSUME NEW from \in Nat, NEW N \in Nat, NEW i \in Nat, from <= i, i <= N
    PROVE  \E n \in 0..N : from + RowWidth * n <= i /\ i <= from + RowWidth * n + (RowWidth - 1)
<1> DEFINE W == RowWidth
           T == {m \in Nat : i < from + W * (m + 1)}
<1>1. W \in Nat /\ W >= 1
  BY Constants
<1> HIDE DEF W
<1>2. \A m \in Nat : W * m \in Nat /\ W * (m + 1) = W * m + W
  BY <1>1
<1>3. W * (i + 1) >= i + 1
  BY <1>1
<1>4. i \in T
  BY <1>2, <1>3
<1>5. PICK n \in T : \A m \in T : n <= m
  <2>1. T \subseteq Nat /\ T # {}
    BY <1>4
  <2> HIDE DEF T
  <2>2. QED
    BY <2>1, LeastExists
<1>6. n \in Nat /\ n <= i /\ i < from + W * (n + 1)
  BY <1>4, <1>5
<1>7. from + W * n <= i
  <2>1. CASE n = 0
    BY <1>1, <2>1
  <2>2. CASE n # 0
    <3>1. n - 1 \in Nat /\ n - 1 \notin T
      BY <1>5, <1>6, <2>2
    <3>2. ~(i < from + W * ((n - 1) + 1))
      BY <3>1
    <3>3. (n - 1) + 1 = n
      BY <1>6
    <3>4. ~(i < from + W * n) /\ W * n \in Nat
      BY <1>2, <1>6, <3>2, <3>3
    <3>5. QED
      BY <3>4
  <2>3. QED
    BY <2>1, <2>2
<1>8. i <= from + W * n + (W - 1)
  <2>1. W * n \in Nat /\ i < from + (W * n + W)
    BY <1>2, <1>6
  <2>2. QED
    BY <1>1, <2>1
<1>9. QED
  BY <1>6, <1>7, <1>8 DEF W

LEMMA RowsCover ==
    ASSUME TypeInv, NEW s, s.connected, NEW list \in Seq(Photo), NEW from \in Nat, NEW shown, NEW d,
           Rows(s, list, from, shown, cache, d)
    PROVE  \A i \in DOMAIN list :
               from <= i /\ (scan'.at # "idle" => i < scan'.from) => list[i].handle \in DOMAIN shown
<1> DEFINE starts == {from + RowWidth * n : n \in 0..Len(list)}
           next   == {i \in starts : Row(list, i, shown) # {}}
<1>1. ASSUME NEW i \in DOMAIN list, from <= i, list[i].handle \notin DOMAIN shown
      PROVE  \E j \in next : j <= i
  <2>1. i \in Nat /\ i <= Len(list) /\ Len(list) \in Nat
    BY <1>1, LenProperties
  <2>2. PICK n \in 0..Len(list) :
            from + RowWidth * n <= i /\ i <= from + RowWidth * n + (RowWidth - 1)
    BY <1>1, <2>1, RowOf
  <2>3. from + RowWidth * n \in starts /\ from + RowWidth * n \in Nat /\ RowWidth \in Nat
    BY <2>2, StartsTypes, Constants
  <2> DEFINE j == from + RowWidth * n
  <2>4. j \in Nat /\ j <= i /\ i <= j + (RowWidth - 1) /\ j \in starts
    BY <2>2, <2>3
  <2> HIDE DEF j, starts
  <2>5. i \in j..(j + RowWidth - 1)
    BY <2>1, <2>3, <2>4
  <2>6. i \in Row(list, j, shown)
    BY <1>1, <2>5 DEF Row
  <2>7. QED
    BY <2>4, <2>6
<1>2. CASE next = {}
  BY <1>1, <1>2
<1>3. CASE next # {}
  <2> DEFINE start == CHOOSE i \in next : \A j \in next : i <= j
  <2>1. scan' = [scan EXCEPT !.at = "rows", !.list = list, !.from = start]
    BY <1>3 DEF Rows
  <2>2. next \subseteq Nat
    BY StartsTypes
  <2> HIDE DEF next
  <2>3. start \in next /\ \A j \in next : start <= j
    <3>1. \E i \in next : \A j \in next : i <= j
      BY <1>3, <2>2, LeastExists
    <3>2. QED
      BY <3>1
  <2> HIDE DEF start
  <2>4. scan \in Scans
    BY DEF TypeInv, ScanOK
  <2>5. scan'.at = "rows" /\ scan'.from = start
    BY <2>1, <2>4 DEF Scans
  <2>6. ASSUME NEW i \in DOMAIN list, from <= i, i < start PROVE list[i].handle \in DOMAIN shown
    <3>1. i \in Nat
      BY LenProperties
    <3>2. ASSUME NEW j \in next PROVE ~(j <= i)
      BY <2>2, <2>3, <2>6, <3>1, <3>2
    <3>3. QED
      BY <1>1, <2>6, <3>2
  <2>7. QED
    BY <2>5, <2>6
<1>4. QED
  BY <1>2, <1>3

(* So when a row begins the ones before it are complete, and when the rows *)
(* end, all are.                                                           *)
From == IF scan.at = "infos" THEN 1 ELSE scan.from + RowWidth

LEMMA RowWorkCovers ==
    ASSUME TypeInv, InfosRead \/ RowLoaded, svc.connected
    PROVE  \A i \in DOMAIN scan.list :
               From <= i /\ (scan'.at # "idle" => i < scan'.from) =>
                   scan.list[i].handle \in DOMAIN thumbs'
<1>1. scan.list \in Seq(Photo) /\ scan.from \in Nat /\ RowWidth \in Nat
  BY Constants DEF TypeInv, ScanOK, Scans
<1>2. CASE InfosRead
  <2>1. From = 1 /\ thumbs' = StillListed(scan.list)
    BY <1>2, InfosReadDoes DEF From
  <2>2. CASE scan.list = <<>>
    BY <2>2
  <2>3. CASE Rows(svc, scan.list, 1, StillListed(scan.list), cache, Recorded(scan.list))
    BY <1>1, <2>1, <2>3, RowsCover
  <2>4. QED
    BY <1>2, <2>2, <2>3, InfosReadDoes
<1>3. CASE RowLoaded
  <2>1. /\ From = scan.from + RowWidth /\ From \in Nat /\ thumbs' = thumbs
        /\ Rows(svc, scan.list, scan.from + RowWidth, thumbs, cache, Dir(cache))
    BY <1>1, <1>3, RowLoadedDoes DEF From
  <2>2. QED
    BY <1>1, <2>1, RowsCover
<1>4. QED
  BY <1>2, <1>3

(* Every photo is listed, ...                                              *)
HandlesIn(list) == {p.handle : p \in ToSet(list)}
AllListed ==
    /\ scan.at = "infos" /\ ~fault =>
           scan.todo \cup HandlesIn(scan.list) = HandlesOf[scan.cam]
    /\ scan.at = "rows" /\ ~fault =>
           HandlesIn(scan.list) = HandlesOf[scan.cam] /\ photos = scan.list
    /\ svc.connected /\ ~scanning /\ ~fault => HandlesIn(photos) = HandlesOf[link]

(* ... and shown, as far as the rows have come.                            *)
AllShown ==
    /\ scan.at = "rows" /\ ~fault /\ svc.identity \notin lost =>
           /\ \A i \in DOMAIN scan.list : i < scan.from + RowWidth =>
                  scan.list[i].handle \in DOMAIN thumbs \cup DOMAIN load
           /\ \A h \in DOMAIN load : /\ load[h].at = "encoding" => h \in DOMAIN thumbs
                                     /\ load[h].at = "cached" => load[h].data # NoFile
    /\ svc.connected /\ ~scanning /\ ~fault /\ svc.identity \notin lost =>
           HandlesIn(photos) \subseteq DOMAIN thumbs

LEMMA AllListedStep == ASSUME Grounds, FaultInv, AllListed, [Next]_vars PROVE AllListed'
<1>0. TypeInv /\ OursInv
  BY DEF Grounds
<1>a. ASSUME scan'.at \notin {"infos", "rows", "idle"} PROVE AllListed'
  BY <1>a DEF AllListed, scanning
<1>b. ASSUME UNCHANGED <<photos, link, scan>>, svc'.connected = svc.connected, fault => fault'
      PROVE  AllListed'
  BY <1>b DEF AllListed, scanning
<1>c. ASSUME fault' PROVE AllListed'
  BY <1>c DEF AllListed
<1>d. ASSUME scan'.at = "idle", ~svc'.connected PROVE AllListed'
  BY <1>d DEF AllListed
<1>e. ASSUME NEW i, NEW c, Begun(i, c) PROVE AllListed'
  BY <1>a, <1>e DEF Begun
<1>1. ASSUME NEW quick \in BOOLEAN, StartScan(quick) PROVE AllListed'
  <2>1. CASE UNCHANGED scan /\ svc' = [svc EXCEPT !.connected = FALSE]
    <3>1. scan'.at = "idle" /\ svc \in Services
      BY <1>0, <1>1, <2>1, StartScanOutline DEF scanning, TypeInv, ControlOK
    <3>2. ~svc'.connected
      BY <2>1, <3>1 DEF Services
    <3>3. QED
      BY <1>d, <3>1, <3>2
  <2>2. QED
    BY <1>0, <1>1, <1>a, <1>e, <2>1, StartScanOutline
<1>2. CASE ScanClosed
  BY <1>0, <1>2, <1>a, ScanClosedOutline
<1>3. CASE Connected
  BY <1>0, <1>3, <1>a, <1>c, ConnectedOutline
<1>4. CASE Asked
  BY <1>0, <1>4, <1>e, AskedOutline
<1>5. CASE Work
  <2>1. CASE SnapshotShown
    BY <1>0, <1>a, <2>1 DEF SnapshotShown, TypeInv, ScanOK, Scans
  <2>2. CASE Listed
    <3>1. ASSUME scan'.at = "infos", scan'.cam = scan.cam, scan'.list = scan.list,
                 fault' = (fault \/ scan'.todo # HandlesOf[scan.cam]), scan.at = "listing"
          PROVE  AllListed'
      <4>1. HandlesIn(scan.list) \subseteq HandlesOf[scan.cam]
        BY <1>0, <3>1 DEF OursInv, HandlesIn, scanning
      <4>2. QED
        BY <3>1, <4>1 DEF AllListed, scanning
    <3>2. QED
      BY <1>0, <1>c, <2>2, <3>1, ListedOutline
  <2>3. CASE InfoRead
    <3>1. scan.at = "infos" /\ scan'.at = "infos" /\ scan'.cam = scan.cam
      BY <1>0, <2>3, InfoReadOutline
    <3>2. PICK h \in scan.todo :
             /\ scan'.todo = scan.todo \ {h} /\ h \in HandlesOf[scan.cam]
             /\ \/ /\ fault' = fault
                   /\ ToSet(scan'.list) = ToSet(scan.list)
                          \cup {[handle |-> h, mod |-> version[scan.cam][h]]}
                \/ fault' = TRUE
      BY <1>0, <2>3, InfoReadOutline
    <3>3. ASSUME fault' = fault,
                 ToSet(scan'.list) = ToSet(scan.list)
                     \cup {[handle |-> h, mod |-> version[scan.cam][h]]}
          PROVE  AllListed'
      <4>1. HandlesIn(scan'.list) = HandlesIn(scan.list) \cup {h}
        <5> DEFINE r == [handle |-> h, mod |-> version[scan.cam][h]]
        <5>1. r.handle = h /\ ToSet(scan'.list) = ToSet(scan.list) \cup {r}
          BY <3>3
        <5> HIDE DEF r
        <5>2. QED
          BY <5>1 DEF HandlesIn
      <4>2. QED
        BY <3>1, <3>2, <3>3, <4>1 DEF AllListed, scanning
    <3>4. QED
      BY <1>c, <3>2, <3>3
  <2>4. CASE InfosRead \/ RowLoaded
    <3>1. /\ UNCHANGED <<link, fault>> /\ scan.at \in Working
          /\ \/ scan.at = "infos" /\ scan.todo = {} /\ photos' = scan.list
             \/ scan.at = "rows" /\ photos' = photos
          /\ \/ Ended
             \/ \E start \in Nat : RowBegun(start)
      BY <1>0, <2>4, RowWorkDoes DEF Working
    <3>2. ~fault => /\ photos' = scan.list /\ HandlesIn(scan.list) = HandlesOf[scan.cam]
                    /\ link = scan.cam
      BY <3>1 DEF AllListed, FaultInv
    <3>3. \/ scan'.at = "idle"
          \/ scan'.at = "rows" /\ scan'.cam = scan.cam /\ scan'.list = scan.list
      BY <3>1 DEF Ended, RowBegun
    <3>4. QED
      BY <3>1, <3>2, <3>3 DEF AllListed, scanning
  <2>5. QED
    BY <1>5, <2>1, <2>2, <2>3, <2>4 DEF Work
<1>6. CASE Leave
  BY <1>6, <1>c, LeaveOutline
<1>7. CASE LeaveClosed
  BY <1>0, <1>7, <1>c, LeaveClosedOutline DEF FaultInv
<1>8. CASE LeaveFlushed
  BY <1>0, <1>8, <1>c, LeaveFlushedOutline DEF FaultInv
<1>9. ASSUME NEW h \in DOMAIN load, LoadStep(h) PROVE AllListed'
  BY <1>0, <1>9, <1>b, LoadStepKeeps, LoadFault
<1>10. ASSUME NEW enabled \in BOOLEAN, SetCachingPreference(enabled) PROVE AllListed'
  BY <1>0, <1>10, <1>b, SetCachingPreferenceOutline
<1>11. CASE Outside
  BY <1>0, <1>11, <1>b, OutsideOutline
<1>12. CASE Relaunch
  BY <1>12, <1>d DEF Relaunch, NoScan, Off
<1>13. CASE UNCHANGED vars
  BY <1>13, <1>b DEF vars, session, ghosts, ui
<1>14. QED
  BY <1>1, <1>2, <1>3, <1>4, <1>5, <1>6, <1>7, <1>8, <1>9, <1>10, <1>11, <1>12, <1>13, NextSteps

(* A load ends with its thumbnail shown, or something has failed.          *)
LEMMA LoadEnds ==
    ASSUME Grounds, NEW h \in DOMAIN load, LoadStep(h)
    PROVE  /\ DOMAIN thumbs \subseteq DOMAIN thumbs'
           /\ h \in DOMAIN load' => \/ load'[h].at = "decoding"
                                    \/ load'[h].at = "encoding" /\ h \in DOMAIN thumbs'
           /\ h \notin DOMAIN load' => \/ h \in DOMAIN thumbs' \/ fault'
                                       \/ load[h].at = "encoding"
                                       \/ load[h].at = "cached" /\ load[h].data = NoFile
<1>1. TypeInv
  BY DEF Grounds
<1>2. ASSUME EndLoad(h) PROVE h \notin DOMAIN load'
  BY <1>2 DEF EndLoad
<1>3. ASSUME NEW data, thumbs' = With(thumbs, h, data)
      PROVE  DOMAIN thumbs \subseteq DOMAIN thumbs' /\ h \in DOMAIN thumbs'
  BY <1>3 DEF With, Onto
<1>4. CASE Fetched(h)
  <2> DEFINE raw       == [cam |-> link, mod |-> version[link][h], look |-> "raw"]
             new(exif) == [raw EXCEPT !.look = Decoded("raw", exif)]
             got(exif) == [at |-> "decoding", mod |-> load[h].mod, exif |-> exif, data |-> new(exif)]
  <2>1. /\ thumbs' = thumbs
        /\ \/ EndLoad(h) /\ fault' = TRUE
           \/ \E exif \in BOOLEAN : load' = [load EXCEPT ![h] = got(exif)]
    BY <1>4, FetchedDoes
  <2>2. \A exif \in BOOLEAN : got(exif).at = "decoding"
    OBVIOUS
  <2> HIDE DEF got
  <2>3. QED
    BY <1>2, <2>1, <2>2
<1>5. CASE DecodedShown(h)
  <2>1. \/ EndLoad(h) /\ fault' = TRUE /\ thumbs' = thumbs
        \/ /\ thumbs' = With(thumbs, h, load[h].data)
           /\ \/ load' = [load EXCEPT ![h] = [at |-> "encoding", mod |-> load[h].mod,
                                              exif |-> load[h].exif, data |-> load[h].data]]
              \/ EndLoad(h)
    BY <1>1, <1>5, DecodedShownDoes
  <2>2. QED
    BY <1>2, <1>3, <2>1
<1>6. CASE Encoded(h)
  BY <1>2, <1>6, EncodedDoes
<1>7. CASE CachedShown(h)
  BY <1>2, <1>3, <1>7, CachedShownDoes
<1>8. QED
  BY <1>4, <1>5, <1>6, <1>7 DEF LoadStep

LEMMA AllShownStep ==
    ASSUME Grounds, FaultInv, DirInv, KeepInv, AllListed, AllShown, [Next]_vars PROVE AllShown'
<1>0. TypeInv /\ PromptInv
  BY DEF Grounds
<1>a. ASSUME scan'.at \notin {"rows", "idle"} PROVE AllShown'
  BY <1>a DEF AllShown, scanning
<1>b. ASSUME UNCHANGED <<photos, thumbs, link, scan, load>>, svc'.connected = svc.connected,
             svc'.identity = svc.identity, fault => fault', lost \subseteq lost'
      PROVE  AllShown'
  <2>1. ~fault' => ~fault
    BY <1>b
  <2>2. svc'.identity \notin lost' => svc.identity \notin lost
    BY <1>b
  <2>3. QED
    BY <1>b, <2>1, <2>2 DEF AllShown, scanning
<1>c. ASSUME fault' PROVE AllShown'
  BY <1>c DEF AllShown
<1>d. ASSUME scan'.at = "idle", ~svc'.connected PROVE AllShown'
  BY <1>d DEF AllShown
<1>e. ASSUME NEW i, NEW c, Begun(i, c) PROVE AllShown'
  BY <1>a, <1>e DEF Begun
<1>1. ASSUME NEW quick \in BOOLEAN, StartScan(quick) PROVE AllShown'
  <2>1. CASE UNCHANGED scan /\ svc' = [svc EXCEPT !.connected = FALSE]
    <3>1. scan'.at = "idle" /\ svc \in Services
      BY <1>0, <1>1, <2>1, StartScanOutline DEF scanning, TypeInv, ControlOK
    <3>2. ~svc'.connected
      BY <2>1, <3>1 DEF Services
    <3>3. QED
      BY <1>d, <3>1, <3>2
  <2>2. QED
    BY <1>0, <1>1, <1>a, <1>e, <2>1, StartScanOutline
<1>2. CASE ScanClosed
  BY <1>0, <1>2, <1>a, ScanClosedOutline
<1>3. CASE Connected
  BY <1>0, <1>3, <1>a, <1>c, ConnectedOutline
<1>4. CASE Asked
  BY <1>0, <1>4, <1>e, AskedOutline
<1>5. CASE Work
  <2>1. CASE SnapshotShown
    BY <1>0, <1>a, <2>1 DEF SnapshotShown, TypeInv, ScanOK, Scans
  <2>2. CASE Listed
    BY <1>0, <1>a, <1>c, <2>2, ListedOutline
  <2>3. CASE InfoRead
    BY <1>0, <1>a, <2>3, InfoReadOutline
  <2>4. CASE InfosRead \/ RowLoaded
    <3>1. /\ UNCHANGED <<link, fault, lost>> /\ scan.at \in {"infos", "rows"}
          /\ scan.list \in Seq(Photo)
          /\ \/ scan.at = "infos" /\ photos' = scan.list
             \/ scan.at = "rows" /\ load = NoLoads /\ thumbs' = thumbs /\ photos' = photos
          /\ Ended \/ \E start \in Nat : RowBegun(start)
      BY <1>0, <2>4, RowWorkDoes
    <3> SUFFICES ASSUME ~fault, svc.identity \notin lost PROVE AllShown'
      <4>1. svc'.identity = svc.identity
        BY <3>1 DEF Ended, RowBegun
      <4>2. QED
        BY <1>c, <3>1, <4>1 DEF AllShown
    <3>2. svc.connected /\ photos' = scan.list
      BY <3>1 DEF FaultInv, AllListed, Working
    <3>3. \A i \in DOMAIN scan.list :
              From <= i /\ (scan'.at # "idle" => i < scan'.from) =>
                  scan.list[i].handle \in DOMAIN thumbs'
      BY <1>0, <2>4, <3>2, RowWorkCovers
    <3>4. \A i \in DOMAIN scan.list : i \in Nat /\ i >= 1
      BY <3>1, LenProperties
    <3>5. ASSUME NEW i \in DOMAIN scan.list, ~(From <= i)
          PROVE  scan.list[i].handle \in DOMAIN thumbs'
      <4>1. scan.from + RowWidth \in Nat
        BY <1>0, Constants DEF TypeInv, ScanOK, Scans
      <4>2. scan.at = "rows" /\ i < scan.from + RowWidth /\ DOMAIN load = {}
        BY <3>1, <3>4, <3>5, <4>1 DEF From, NoLoads
      <4>3. QED
        BY <3>1, <4>2 DEF AllShown
    <3>6. \A i \in DOMAIN scan.list : (scan'.at # "idle" => i < scan'.from) =>
              scan.list[i].handle \in DOMAIN thumbs'
      BY <3>3, <3>5
    <3>7. CASE Ended
      <4>1. HandlesIn(scan.list) \subseteq DOMAIN thumbs' /\ scan'.at = "idle"
        BY <3>6, <3>7 DEF HandlesIn, ToSet, Ended
      <4>2. QED
        BY <3>2, <4>1 DEF AllShown
    <3>8. ASSUME NEW start \in Nat, RowBegun(start) PROVE AllShown'
      <4>1. /\ scan'.at = "rows" /\ scan'.from = start /\ scan'.list = scan.list
            /\ DOMAIN load' = {scan.list[i].handle : i \in Row(scan.list, start, thumbs')}
            /\ \A h \in DOMAIN load' : \E p \in ToSet(scan.list) : LoadBegun(h, p)
        BY <3>8 DEF RowBegun
      <4>2. ASSUME NEW i \in DOMAIN scan.list, i < start + RowWidth
            PROVE  scan.list[i].handle \in DOMAIN thumbs' \cup DOMAIN load'
        <5>1. CASE i < start
          BY <3>6, <4>1, <5>1
        <5>2. CASE ~(i < start)
          <6>1. i \in start..(start + RowWidth - 1)
            BY <3>4, <4>2, <5>2, Constants
          <6>2. scan.list[i].handle \notin DOMAIN thumbs' => i \in Row(scan.list, start, thumbs')
            BY <6>1 DEF Row
          <6>3. QED
            BY <4>1, <6>2
        <5>3. QED
          BY <5>1, <5>2
      <4>3. ASSUME NEW h \in DOMAIN load'
            PROVE  /\ load'[h].at # "encoding"
                   /\ load'[h].at = "cached" => load'[h].data # NoFile
        <5>1. PICK p \in ToSet(scan.list) : LoadBegun(h, p)
          BY <4>1
        <5>2. ASSUME load'[h].at = "cached", load'[h].data = NoFile PROVE FALSE
          <6>1. svc.caching /\ h \in DOMAIN cache.entries /\ h \notin DOMAIN store[cache.dir].files
            BY <5>1, <5>2 DEF LoadBegun
          <6>2. svc.identity # None /\ cache.dir # NoDir
            BY <1>0, <3>1, <3>2, <6>1 DEF TypeInv, KnownInv, Waiting
          <6>3. cache.dir = svc.identity
            BY <3>1, <6>1, <6>2 DEF DirInv, Working
          <6>4. QED
            BY <6>1, <6>2, <6>3 DEF KeepInv
        <5>3. QED
          BY <5>1, <5>2 DEF LoadBegun
      <4>4. QED
        BY <4>1, <4>2, <4>3 DEF AllShown, scanning
    <3>9. QED
      BY <3>1, <3>7, <3>8
  <2>5. QED
    BY <1>5, <2>1, <2>2, <2>3, <2>4 DEF Work
<1>6. CASE Leave
  BY <1>6, <1>c, LeaveOutline
<1>7. CASE LeaveClosed
  BY <1>0, <1>7, <1>c, LeaveClosedOutline DEF FaultInv
<1>8. CASE LeaveFlushed
  BY <1>0, <1>8, <1>c, LeaveFlushedOutline DEF FaultInv
<1>9. ASSUME NEW h \in DOMAIN load, LoadStep(h) PROVE AllShown'
  <2>1. /\ UNCHANGED <<link, svc, photos, scan, lost>> /\ scan.at \in {"snapshot", "rows"}
        /\ DOMAIN load' \subseteq DOMAIN load
        /\ \A k \in DOMAIN load' \ {h} : load'[k] = load[k]
    BY <1>0, <1>9, LoadStepKeeps
  <2>2. \A k \in DOMAIN load \ {h} : k \in DOMAIN load'
    BY <1>9 DEF LoadStep, Fetched, DecodedShown, Encoded, CachedShown, EndLoad
  <2>3. /\ DOMAIN thumbs \subseteq DOMAIN thumbs'
        /\ h \in DOMAIN load' => \/ load'[h].at = "decoding"
                                 \/ load'[h].at = "encoding" /\ h \in DOMAIN thumbs'
        /\ h \notin DOMAIN load' => \/ h \in DOMAIN thumbs' \/ fault'
                                    \/ load[h].at = "encoding"
                                    \/ load[h].at = "cached" /\ load[h].data = NoFile
    BY <1>9, LoadEnds
  <2>4. fault => fault'
    BY <1>9, LoadFault
  <2>5. CASE scan.at = "rows" /\ ~fault' /\ svc.identity \notin lost
    <3>1. /\ \A i \in DOMAIN scan.list : i < scan.from + RowWidth =>
                 scan.list[i].handle \in DOMAIN thumbs \cup DOMAIN load
          /\ \A k \in DOMAIN load : /\ load[k].at = "encoding" => k \in DOMAIN thumbs
                                    /\ load[k].at = "cached" => load[k].data # NoFile
      BY <2>4, <2>5 DEF AllShown
    <3>2. DOMAIN thumbs \cup DOMAIN load \subseteq DOMAIN thumbs' \cup DOMAIN load'
      BY <2>2, <2>3, <2>5, <3>1
    <3>3. \A k \in DOMAIN load' : /\ load'[k].at = "encoding" => k \in DOMAIN thumbs'
                                  /\ load'[k].at = "cached" => load'[k].data # NoFile
      BY <2>1, <2>3, <3>1
    <3>4. QED
      BY <2>1, <2>5, <3>1, <3>2, <3>3 DEF AllShown, scanning
  <2>6. QED
    BY <2>1, <2>5 DEF AllShown, scanning
<1>10. ASSUME NEW enabled \in BOOLEAN, SetCachingPreference(enabled) PROVE AllShown'
  BY <1>0, <1>10, <1>b, SetCachingPreferenceOutline
<1>11. CASE Outside
  BY <1>0, <1>11, <1>b, OutsideOutline
<1>12. CASE Relaunch
  BY <1>12, <1>d DEF Relaunch, NoScan, Off
<1>13. CASE UNCHANGED vars
  BY <1>13, <1>b DEF vars, session, ghosts, ui
<1>14. QED
  BY <1>1, <1>2, <1>3, <1>4, <1>5, <1>6, <1>7, <1>8, <1>9, <1>10, <1>11, <1>12, <1>13, NextSteps

LEMMA OpenStep == ASSUME Grounds, ReadyInv, OpenInv, [Next]_vars PROVE OpenInv'
<1>1. ASSUME NEW h \in DOMAIN load, LoadStep(h) PROVE OpenInv'
  <2>1. cache'.dir = cache.dir /\ cache'.loaded = cache.loaded
    BY <1>1, LoadStepDir
  <2>2. cache.loaded \/ UNCHANGED cache
    <3>1. \/ UNCHANGED cache
          \/ svc.caching /\ (Fetched(h) \/ Encoded(h))
      BY <1>1, LoadStepSaves
    <3>2. Fetched(h) \/ Encoded(h) => scan.at = "rows"
      BY FetchedDoes, EncodedDoes DEF Grounds, OursInv
    <3>3. QED
      BY <3>1, <3>2 DEF ReadyInv
  <2>3. QED
    BY <2>1, <2>2 DEF OpenInv
<1>2. QED
  BY <1>1, EntriesStep DEF Stays

AllInv == OpenInv /\ ReadyInv /\ FaultInv /\ DirInv /\ KeepInv /\ AllListed /\ AllShown

LEMMA AllAlways == Spec => [](Grounds /\ AllInv)
<1>1. Init => AllInv
  <2> SUFFICES ASSUME Init PROVE AllInv
    OBVIOUS
  <2>1. /\ scan.at = "idle" /\ leave = "idle" /\ ~svc.connected
        /\ cache.dir = NoDir /\ ~cache.loaded /\ cache.entries = NoEntries
    BY DEF Init, NoScan, Off, NewCache
  <2>2. \A i \in Identities : Readable(store[i]) = NoEntries
    BY DEF Init, Readable, EmptyDir
  <2>3. DOMAIN NoEntries = {}
    BY DEF NoEntries
  <2>4. QED
    BY <2>1, <2>2, <2>3 DEF AllInv, OpenInv, ReadyInv, FaultInv, DirInv, KeepInv, AllListed,
                            AllShown, Working
<1>2. Grounds /\ AllInv /\ [Next]_vars => AllInv'
  BY OpenStep, ReadyStep, FaultStep, DirStep, KeepStep, AllListedStep, AllShownStep DEF AllInv
<1>3. QED
  BY <1>1, <1>2, GroundsAlways, PTL DEF Spec

(* A scan in which nothing has failed, of a camera that stays connected,   *)
(* has listed every photo and shows a thumbnail of each, from the cache or *)
(* from the camera, whatever caches are left of earlier scans and of the   *)
(* process being killed, unless its cache was deleted under it.            *)
THEOREM AllAreShown == Spec => []ScanShowsAll
<1>1. Grounds /\ AllInv => ScanShowsAll
  BY DEF AllInv, AllListed, AllShown, HandlesIn, ScanShowsAll
<1>2. QED
  BY <1>1, AllAlways, PTL
===============================================================================
