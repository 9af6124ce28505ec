------------------------------- MODULE Download -------------------------------
(***************************************************************************)
(* Downloading photos in services/CameraService.ets.  A download brings    *)
(* its photos one by one into files of the sandbox, asks the user once,    *)
(* copies the files into the system gallery, deletes them and records      *)
(* each copy in the registry, which is saved to a file.  The registry is   *)
(* pruned of entries whose gallery item is gone: after it is loaded and    *)
(* after every scan, while downloads may be running.                       *)
(*                                                                         *)
(* A task is whatever awaits: a download, a scan's validation, or the      *)
(* loading that the application starts at its launch.  Every action runs   *)
(* from one await of one task to its next.                                 *)
(***************************************************************************)
EXTENDS Integers, SequencesExt, FiniteSetsExt, Functions

CONSTANTS
    Photos,         \* what the camera holds
    NameOf,         \* file name of each photo
    SizeOf,         \* its size; name and size are the key of the registry
    Batches,        \* selections the user may download (sequences of photos)
    Downloads,      \* calls of downloadPhotos under way at once
    Validations,    \* scans that have ended and prune the registry at once
    Items           \* items the system gallery can have

Absent    == "absent"       \* no such file or item
Piece     == "piece"        \* a file that is not the bytes of one photo
Sandboxed == "sandbox"      \* where a photo is that is not in the gallery

ASSUME DownloadAssumption ==
    /\ SizeOf \in [Photos -> Nat \ {0}] /\ DOMAIN NameOf = Photos
    /\ Batches \subseteq Seq(Photos) /\ IsFiniteSet(Downloads)
    /\ {Sandboxed, Absent, Piece} \cap (Items \cup Photos) = {}
    /\ "launch" \notin Downloads \cup Validations /\ Downloads \cap Validations = {}

VARIABLES
    registry,       \* downloadRegistry: gallery item of each key recorded
    registryLoaded,
    downloadAborted,
    disk,           \* download_registry.json: the text that can be read from it, if any
    sandbox,        \* the file of each name
    gallery,        \* the items of the system gallery
    progressBar,    \* downloadProgress is not null: no download can be begun
    task,
    cancelled,      \* ghost: the download that alone was running when the user cancelled
    spoilt,         \* ghost: the last save failed, was cut short or overlapped
    contested       \* ghost: tasks that were validating when another dropped entries

memory == <<registry, registryLoaded>>
files  == <<sandbox, gallery>>
vars   == <<memory, downloadAborted, disk, files, progressBar, task, cancelled, spoilt, contested>>

Tasks  == Downloads \cup Validations \cup {"launch"}
Names  == {NameOf[p] : p \in Photos}
Key(p) == <<NameOf[p], SizeOf[p]>>

NoEntries == [k \in {} |-> 0]

(* A task at rest, and the tasks of an application just launched.          *)
Idle == [at |-> "idle", todo |-> <<>>, done |-> <<>>,
         check |-> {}, now |-> <<>>, stale |-> {}, text |-> NoEntries]
Launched == [t \in Tasks |-> IF t = "launch" THEN [Idle EXCEPT !.at = "reading"] ELSE Idle]

Init ==
    /\ registry = NoEntries /\ registryLoaded = FALSE
    /\ downloadAborted = FALSE
    /\ disk = {}
    /\ sandbox = [n \in Names |-> Absent] /\ gallery = [u \in Items |-> Absent]
    /\ progressBar = FALSE
    /\ task = Launched
    /\ cancelled = {} /\ spoilt = FALSE /\ contested = {}
-----------------------------------------------------------------------------
Goes(t, record) == task' = [task EXCEPT ![t] = record]

(* The gallery phase begins, or the download is over: nothing was brought. *)
Gather(d, done) ==
    Goes(d, [Idle EXCEPT !.at = IF done = <<>> THEN "over" ELSE "dialog", !.done = done])

(* How many photos at the head of a batch need not be brought.             *)
Skipped(todo) ==
    LET n == SelectInSeq(todo, LAMBDA p : Key(p) \notin DOMAIN registry')
    IN IF n = 0 THEN Len(todo) ELSE n - 1

(* The loop of downloadPhotos from its top to its next await.  A photo in  *)
(* the registry counts as done, with its gallery item for a file; one in   *)
(* the preload cache needs no transfer.                                    *)
Ahead(d, aborted, todo, done) ==
    /\ progressBar' = TRUE
    /\ \/ /\ aborted /\ todo # <<>>
          /\ downloadAborted' = FALSE
          /\ Gather(d, done)
       \/ /\ ~aborted \/ todo = <<>>
          /\ downloadAborted' = aborted
          /\ LET n    == Skipped(todo)
                 all  == done \o [i \in 1..n |-> [photo |-> todo[i], from |-> registry'[Key(todo[i])]]]
                 rest == SubSeq(todo, n + 1, Len(todo))
             IN \/ rest = <<>> /\ Gather(d, all)
                \/ /\ rest # <<>>
                   /\ \E at \in {"fetching", "creating"} :
                         Goes(d, [Idle EXCEPT !.at = at, !.todo = rest, !.done = all])

(* A task ends when it has validated or saved the registry.                *)
Ends(t) ==
    /\ Goes(t, [Idle EXCEPT !.at = IF t \in Downloads THEN "over" ELSE "idle"])
    /\ progressBar' = (progressBar \/ t \in Downloads)
    /\ UNCHANGED <<downloadAborted, cancelled>>
-----------------------------------------------------------------------------
Saving(t) == task[t].at \in {"opening", "writing"}

(* Mutant: the text is made before the change.                             *)
SaveRegistryBefore(t) ==
    /\ Goes(t, [Idle EXCEPT !.at = "opening", !.text = registry])
    /\ spoilt' = \E other \in Tasks \ {t} : Saving(other)
    /\ UNCHANGED <<downloadAborted, progressBar, cancelled>>

(* saveRegistry: the text is made at once, the file opened and written later. *)
SaveRegistry(t) ==
    /\ Goes(t, [Idle EXCEPT !.at = "opening", !.text = registry'])
    /\ spoilt' = \E other \in Tasks \ {t} : Saving(other)
    /\ UNCHANGED <<downloadAborted, progressBar, cancelled>>

(* Opening truncates the file.                                             *)
Opened(t) ==
    /\ task[t].at = "opening"
    /\ UNCHANGED <<memory, files, contested>>
    /\ \/ /\ disk' = {}
          /\ task' = [task EXCEPT ![t].at = "writing"]
          /\ UNCHANGED <<downloadAborted, progressBar, cancelled, spoilt>>
       \/ Ends(t) /\ spoilt' = TRUE /\ UNCHANGED disk

(* Each writer has an offset of its own: over another text a shorter one   *)
(* leaves the end of that behind it.                                       *)
Written(t) ==
    /\ task[t].at = "writing"
    /\ UNCHANGED <<memory, files, contested>>
    /\ Ends(t)
    /\ \/ disk' = {task[t].text} /\ UNCHANGED spoilt
       \/ disk' = {} /\ disk \notin {{}, {task[t].text}} /\ UNCHANGED spoilt
       \/ disk' = {} /\ spoilt' = TRUE
-----------------------------------------------------------------------------
(* validateRegistry, with the keys that are left to look at.  An entry     *)
(* deleted in the meantime is passed over.                                 *)
Validate(t, entries, check, stale) ==
    LET live == check \cap DOMAIN entries
    IN \/ /\ live # {}
          /\ registry' = entries
          /\ \E k \in live :
                Goes(t, [task[t] EXCEPT !.at = "checking", !.check = check \ {k}, !.stale = stale,
                                        !.now = [key |-> k, item |-> entries[k]]])
          /\ UNCHANGED <<downloadAborted, progressBar, cancelled, spoilt, contested>>
       \/ /\ live = {} /\ stale = {}
          /\ registry' = entries
          /\ Ends(t)
          /\ contested' = contested \ {t}
          /\ UNCHANGED spoilt
       \/ /\ live = {} /\ stale # {}
          /\ registry' = Restrict(entries, DOMAIN entries \ stale)
          /\ contested' = (contested \cup {x \in Tasks : task[x].at = "checking"}) \ {t}
          /\ SaveRegistry(t)

(* Mutant: the file is looked for in the sandbox.                          *)
GoneFromSandbox(now) == sandbox[now.key[1]] = Absent

(* A gallery item can be opened as long as the user has not deleted it.    *)
Gone(now) == gallery[now.item] = Absent

Checked(t) ==
    /\ task[t].at = "checking"
    /\ LET gone == IF Gone(task[t].now) THEN {task[t].now.key} ELSE {}
       IN Validate(t, registry, task[t].check, task[t].stale \cup gone)
    /\ UNCHANGED <<registryLoaded, disk, files>>

(* What loadRegistry can read from the file.                               *)
FileText == IF disk = {} THEN NoEntries ELSE CHOOSE text \in disk : TRUE

(* Entries set in a Map one by one over those it has.                      *)
Onto(entries, others) ==
    [k \in DOMAIN entries \cup DOMAIN others |->
        IF k \in DOMAIN entries THEN entries[k] ELSE others[k]]

(* loadRegistry has read the file; what it cannot read leaves the registry *)
(* as it is.                                                               *)
Read(t) ==
    /\ task[t].at = "reading"
    /\ registryLoaded' = TRUE
    /\ LET entries == Onto(FileText, registry)
       IN Validate(t, entries, DOMAIN entries, {})
    /\ UNCHANGED <<disk, files>>

(* scanForCamera ends and does not wait for the validation.                *)
ScanEnds(v) ==
    /\ task[v].at = "idle" /\ registry # NoEntries
    /\ Validate(v, registry, DOMAIN registry, {})
    /\ UNCHANGED <<registryLoaded, disk, files>>
-----------------------------------------------------------------------------
(* The page offers a download once a camera has been scanned and photos    *)
(* are selected; by then the file read at the launch is there, and         *)
(* downloadPhotos waits for nothing.  Selected photos that the camera no   *)
(* longer lists are left out.                                              *)
StartDownload(d) ==
    /\ task[d].at = "idle" /\ ~progressBar /\ registryLoaded
    /\ cancelled' = {}
    /\ UNCHANGED <<memory, disk, files, spoilt, contested>>
    /\ \/ \E batch \in Batches : Ahead(d, FALSE, batch, <<>>)
       \/ Goes(d, [Idle EXCEPT !.at = "over"]) /\ progressBar' = TRUE /\ UNCHANGED downloadAborted

(* Mutant: after a failure the loop does not look whether it is aborted.   *)
PassOverUnasked(d) == Ahead(d, FALSE, Tail(task[d].todo), task[d].done)

(* The photo under way has failed: the loop goes on with the next.         *)
PassOver(d) == Ahead(d, downloadAborted, Tail(task[d].todo), task[d].done)

(* getObject brings the photo or fails, and the loop goes on.              *)
Fetched(d) ==
    /\ task[d].at = "fetching"
    /\ UNCHANGED <<memory, disk, files, cancelled, spoilt, contested>>
    /\ \/ /\ task' = [task EXCEPT ![d].at = "creating"]
          /\ UNCHANGED <<downloadAborted, progressBar>>
       \/ PassOver(d)

FileOf(d) == NameOf[Head(task[d].todo)]

(* The file of that name is created, or opened with what it holds.         *)
Created(d) ==
    /\ task[d].at = "creating"
    /\ UNCHANGED <<memory, disk, gallery, cancelled, spoilt, contested>>
    /\ \/ /\ sandbox' = [sandbox EXCEPT ![FileOf(d)] = IF @ = Absent THEN Piece ELSE @]
          /\ task' = [task EXCEPT ![d].at = "storing"]
          /\ UNCHANGED <<downloadAborted, progressBar>>
       \/ PassOver(d) /\ UNCHANGED sandbox

(* What a file holds when a photo has been written over it: the end of a   *)
(* longer one stays.                                                       *)
Overwritten(old, p) ==
    IF old \in Photos /\ SizeOf[old] > SizeOf[p] THEN Piece ELSE p

(* Written and closed, and tagged with a position, which fails silently.   *)
(* A file that has been unlinked is written to no avail.                   *)
Stored(d) ==
    /\ task[d].at = "storing"
    /\ UNCHANGED <<memory, disk, gallery, cancelled, spoilt, contested>>
    /\ LET p == Head(task[d].todo)
           n == FileOf(d)
       IN \/ /\ sandbox' = [sandbox EXCEPT ![n] = IF @ = Absent THEN @ ELSE Overwritten(@, p)]
             /\ Ahead(d, downloadAborted, Tail(task[d].todo),
                      Append(task[d].done, [photo |-> p, from |-> Sandboxed]))
          \/ /\ sandbox' = [sandbox EXCEPT ![n] = IF @ \in {Absent, p} THEN @ ELSE Piece]
             /\ PassOver(d)
-----------------------------------------------------------------------------
(* The gallery items a task refers to, and those nothing refers to.        *)
Held(t) ==
    Range(task[t].text) \cup {r.from : r \in ToSet(task[t].done)}
    \cup (IF task[t].at = "checking" THEN {task[t].now.item} ELSE {})
Fresh ==
    {u \in Items : gallery[u] = Absent} \ UNION ({Range(registry)} \cup {Range(text) : text \in disk}
                                                 \cup {Held(t) : t \in Tasks})

Source(r) == IF r.from = Sandboxed THEN sandbox[NameOf[r.photo]] ELSE gallery[r.from]

(* The user refuses, or the dialog fails: the files stay in the sandbox.   *)
(* The registry is saved all the same.                                     *)
Refused(d) ==
    /\ task[d].at = "dialog"
    /\ UNCHANGED registry
    /\ SaveRegistry(d)
    /\ UNCHANGED <<registryLoaded, disk, files, contested>>

(* Mutant: an item is recorded before the photo is copied into it.         *)
RecordedEarly(done, copied) == DOMAIN done

(* Of the items made those that were copied into are recorded.             *)
Recorded(done, copied) == copied

(* The user agrees and the system makes an item for each photo.  Copying   *)
(* any of them may fail; all the sandbox files are deleted.                *)
Accepted(d) ==
    /\ task[d].at = "dialog"
    /\ LET done == task[d].done
           name(i) == NameOf[done[i].photo]
           key(i)  == Key(done[i].photo)
       IN \E new \in [DOMAIN done -> Fresh], copied \in SUBSET {i \in DOMAIN done : Source(done[i]) # Absent} :
             LET keys    == {key(i) : i \in Recorded(done, copied)} \ DOMAIN registry
                 last(k) == Max({i \in Recorded(done, copied) : key(i) = k})
                 item(i) == IF i \in copied THEN Source(done[i]) ELSE Piece
                 moved   == {name(i) : i \in {j \in DOMAIN done : done[j].from = Sandboxed}}
             IN /\ IsInjective(new)
                /\ gallery' = Onto([u \in ToSet(new) |-> item(AntiFunction(new)[u])], gallery)
                /\ registry' = Onto([k \in keys |-> new[last(k)]], registry)
                /\ sandbox' = [n \in Names |-> IF n \in moved THEN Absent ELSE sandbox[n]]
    /\ SaveRegistry(d)
    /\ UNCHANGED <<registryLoaded, disk, contested>>
-----------------------------------------------------------------------------
(* Downloads between their beginning and the end of the loop.              *)
Looping == {d \in Downloads : task[d].at \in {"fetching", "creating", "storing"}}

CancelDownload ==
    /\ progressBar /\ progressBar' = FALSE
    /\ downloadAborted' = TRUE
    /\ cancelled' = IF Cardinality(Looping) = 1 THEN Looping ELSE cancelled
    /\ UNCHANGED <<memory, disk, files, task, spoilt, contested>>

(* Two seconds after a download has ended the page takes the bar away.     *)
HideProgress(d) ==
    /\ task[d].at = "over" /\ Goes(d, Idle)
    /\ progressBar' = FALSE
    /\ UNCHANGED <<memory, downloadAborted, disk, files, cancelled, spoilt, contested>>

(* External: the user deletes an item in the gallery application.          *)
DeleteItem(u) ==
    /\ gallery[u] # Absent /\ gallery' = [gallery EXCEPT ![u] = Absent]
    /\ UNCHANGED <<memory, downloadAborted, disk, sandbox, progressBar, task, cancelled, spoilt, contested>>

(* The process is killed at any moment and the application launched again. *)
Relaunch ==
    /\ registry' = NoEntries /\ registryLoaded' = FALSE
    /\ downloadAborted' = FALSE /\ progressBar' = FALSE
    /\ task' = Launched
    /\ cancelled' = {} /\ contested' = {}
    /\ spoilt' = (spoilt \/ \E t \in Tasks : task[t].at = "writing")
    /\ UNCHANGED <<disk, files>>

Steps(t) == Read(t) \/ Checked(t) \/ Opened(t) \/ Written(t)
Transfer(d) == Fetched(d) \/ Created(d) \/ Stored(d) \/ Refused(d) \/ Accepted(d) \/ HideProgress(d)

Next ==
    \/ \E t \in Tasks : Steps(t)
    \/ \E d \in Downloads : StartDownload(d) \/ Transfer(d)
    \/ \E v \in Validations : ScanEnds(v)
    \/ \E u \in Items : DeleteItem(u)
    \/ CancelDownload \/ Relaunch

Spec == Init /\ [][Next]_vars
-----------------------------------------------------------------------------
Keys    == {Key(p) : p \in Photos}
Texts   == UNION {[K -> Items] : K \in SUBSET Keys}
Results == [photo : Photos, from : Items \cup {Sandboxed}]
Contents == Photos \cup {Absent, Piece}

TaskRecords ==
    [at : {"idle", "reading", "checking", "opening", "writing",
           "fetching", "creating", "storing", "dialog", "over"},
     todo : Seq(Photos), done : Seq(Results),
     check : SUBSET Keys, now : {<<>>} \cup [key : Keys, item : Items], stale : SUBSET Keys,
     text : Texts]

(* What the await a task is at says of what it holds.                      *)
Shaped(t, r) ==
    /\ r.at = "checking" => r.now \in [key : Keys, item : Items]
    /\ r.at \in {"fetching", "creating", "storing"} => t \in Downloads /\ r.todo # <<>>
    /\ r.at = "dialog" => t \in Downloads /\ r.done # <<>>
    /\ t \notin Downloads => r.done = <<>>

TasksOK == /\ task \in [Tasks -> TaskRecords]
           /\ \A t \in Tasks : Shaped(t, task[t])

TypeOK ==
    /\ registry \in Texts
    /\ disk = {} \/ \E text \in Texts : disk = {text}
    /\ {registryLoaded, downloadAborted, progressBar, spoilt} \subseteq BOOLEAN
    /\ sandbox \in [Names -> Contents] /\ gallery \in [Items -> Contents]
    /\ TasksOK
    /\ cancelled \subseteq Downloads /\ contested \subseteq Tasks

(* The gallery item recorded for a photo holds that photo, whole, unless   *)
(* the user has deleted it.                                                *)
RegisteredIsSaved ==
    \A k \in DOMAIN registry :
        gallery[registry[k]] \in {Absent} \cup {p \in Photos : Key(p) = k}

(* When nobody is reading, checking or saving, the file says what the      *)
(* registry says, unless a save failed, was cut short or overlapped.       *)
AtRest(t) == task[t].at \notin {"reading", "checking", "opening", "writing"}
FileCurrent ==
    registryLoaded /\ ~spoilt /\ (\A t \in Tasks : AtRest(t)) =>
        registry = FileText

(* Validation drops an entry only when its gallery item is gone, ...        *)
Dropped == DOMAIN registry \ DOMAIN registry'
PrunesOnlyGone ==
    [][registryLoaded' => \A k \in Dropped : gallery[registry[k]] = Absent]_vars

(* ... at least if no other validation has dropped entries meanwhile.      *)
DropsOnlyGone ==
    [][\A t \in Tasks \ contested :
          task[t].at = "checking" /\ task'[t] # task[t] /\ registryLoaded' =>
              \A k \in Dropped : gallery[registry[k]] = Absent]_vars

(* A download that is cancelled while it is the only one, and before       *)
(* another is begun, brings no further photo.                              *)
CancelStops ==
    [][\A d \in cancelled \cap Looping : task'[d].todo \in {task[d].todo, <<>>}]_vars
=============================================================================
