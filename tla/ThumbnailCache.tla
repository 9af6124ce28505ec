---------------------------- MODULE ThumbnailCache ----------------------------
(***************************************************************************)
(* The thumbnail cache, services/ThumbnailCache.ets: a directory for each  *)
(* camera with a file for each photo, a manifest that says which           *)
(* modification each file is of and whether the EXIF transform is baked    *)
(* into it, and the list of the photos last seen (metadata_cache.json).    *)
(* The object that the application keeps holds the manifest of one         *)
(* directory in memory; it is written to the disk at few moments.          *)
(*                                                                         *)
(* A directory is [files, manifest, list]; manifest and list hold the text *)
(* that can be read, if any.  The object is [dir, loaded, entries].  All   *)
(* file operations here are synchronous.                                   *)
(***************************************************************************)
EXTENDS SequencesExt

NoEntries == [k \in {} |-> 0]
NoDir     == "nodir"
EmptyDir  == [files |-> NoEntries, manifest |-> {}, list |-> {}]
NewCache  == [dir |-> NoDir, loaded |-> FALSE, entries |-> NoEntries]

(* The bytes of a thumbnail: as the camera sends it, turned upright, never *)
(* turned for want of an EXIF header, or turned twice.                     *)
Looks == {"raw", "upright", "unread", "askew"}

(* Decoding applies the transform, if one is known.                        *)
Decoded(look, exif) ==
    IF exif THEN (IF look = "raw" THEN "upright" ELSE "askew")
            ELSE (IF look = "raw" THEN "unread" ELSE look)
-----------------------------------------------------------------------------
(* init: nothing changes for the same camera.                              *)
InitCache(m, dir) == IF m.dir = dir THEN m ELSE [NewCache EXCEPT !.dir = dir]

(* A manifest that is missing, cut short or of an older version says nothing. *)
Readable(d) == IF d.manifest = {} THEN NoEntries ELSE CHOOSE e \in d.manifest : TRUE

(* Entries set in a Map one by one over those it has, and one set alone.   *)
Onto(entries, others) ==
    [k \in DOMAIN entries \cup DOMAIN others |->
        IF k \in DOMAIN entries THEN entries[k] ELSE others[k]]
With(entries, key, value) == Onto([k \in {key} |-> value], entries)

(* loadManifest, and what it leaves of the directory: a manifest without   *)
(* entries is written anew.                                                *)
LoadManifest(m, d) ==
    IF m.loaded THEN m ELSE [m EXCEPT !.loaded = TRUE, !.entries = Onto(Readable(d), @)]
Loading(m, d) ==
    IF m.loaded \/ Readable(d) # NoEntries THEN d ELSE [d EXCEPT !.manifest = {m.entries}]

(* findCached: the entry of a photo, if it is of this modification.        *)
FindCached(m, key, mod) ==
    {e \in {m.entries[k] : k \in {key} \cap DOMAIN m.entries} : e.mod = mod}

(* Mutant: the entry does not say that the transform is baked in.          *)
Unmarked(mod, exif) == [mod |-> mod, exif |-> exif, corrected |-> FALSE]

(* saveRawThumbnail and saveEncodedThumbnail set an entry after the file   *)
(* is written, loadCachedThumbnail decodes what it finds as the entry says. *)
RawEntry(mod, exif)     == [mod |-> mod, exif |-> exif, corrected |-> FALSE]
EncodedEntry(mod, exif) == [mod |-> mod, exif |-> exif, corrected |-> TRUE]
SetEntry(m, key, entry) == [m EXCEPT !.entries = With(@, key, entry)]
WriteFile(d, key, file) == [d EXCEPT !.files = With(@, key, file)]
Show(entry, file) == IF entry.corrected THEN file.look ELSE Decoded(file.look, entry.exif)

(* purgeStale: entries of other photos go, with their files.               *)
Stale(m, keys)         == DOMAIN m.entries \ keys
PurgeEntries(m, keys)  == [m EXCEPT !.entries = Restrict(@, DOMAIN @ \ Stale(m, keys))]
PurgeFiles(d, m, keys) == [d EXCEPT !.files = Restrict(@, DOMAIN @ \ Stale(m, keys))]

(* deleteCameraCache, from the settings: the files that the manifest on    *)
(* the disk names and the manifest itself.  The list is not deleted.       *)
Delete(d) == [d EXCEPT !.files = Restrict(@, DOMAIN @ \ DOMAIN Readable(d)), !.manifest = {}]
=============================================================================
