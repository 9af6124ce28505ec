----------------------------- MODULE PhotoListing -----------------------------
(***************************************************************************)
(* How a scan finds the photos of a camera: collectPhotoHandles of         *)
(* services/CameraService.ets asks for the objects of one directory after  *)
(* the other.  Module CameraScan takes the outcome, any part of the        *)
(* photos, as it comes; this one says which part it is.                    *)
(*                                                                         *)
(* Each call of the session is one step; it may fail, which                *)
(* getObjectHandles answers with an empty array and getObjectInfo with     *)
(* nothing.  Handles are larger than any number of objects in the model,   *)
(* as those of cameras that build them from directory and file numbers.    *)
(***************************************************************************)
EXTENDS Integers, SequencesExt, Picking

CONSTANTS
    Handles,        \* of the objects of the camera
    Cards,          \* storages of the camera, by their ids
    Root,           \* 0xFFFFFFFF as the parent: the top of a storage
    MaxDepth,       \* directories are followed down to this depth (10)
    MaxFailures     \* bound: calls that fail although the camera could answer

ASSUME ListingAssumption ==
    /\ IsFiniteSet(Handles) /\ IsFiniteSet(Cards) /\ Cards # {}
    /\ Handles \cup Cards \cup {Root, MaxDepth, MaxFailures} \subseteq Nat
    /\ \A h \in Handles \cup Cards \cup {Root} : h > Cardinality(Handles) + Cardinality(Cards)
    /\ Root \notin Handles

VARIABLES
    camera,
    frames,             \* the calls of collectPhotoHandles, the innermost last
    found,              \* what they have collected so far
    formatFilterWorks,  \* "unknown" for null
    failures,
    missed              \* ghost: parents and handles of failed calls, Root if a probe was one

vars == <<camera, frames, found, formatFilterWorks, failures, missed>>
-----------------------------------------------------------------------------
(* The camera: objects with their storage, parent and kind; whether it     *)
(* filters by format, ignores the format or rejects the call; whether      *)
(* parent 0 asks it for all objects of a storage.                          *)
Objects == [Handles -> [card : Cards, parent : Handles \cup {Root}, kind : {"dir", "jpeg", "raw"}]]
Hierarchical(o) ==
    \A h \in Handles : LET p == o[h].parent
                       IN p # Root => p < h /\ o[p].kind = "dir" /\ o[p].card = o[h].card
CameraType == [objects : {o \in Objects : Hierarchical(o)},
               filter : {"works", "ignored", "rejected"}, zeroIsAll : BOOLEAN]

Dirs(c)       == {h \in Handles : c.objects[h].kind = "dir"}
Photos(c)     == Handles \ Dirs(c)
Children(c, sid, p) ==
    {h \in Handles : /\ c.objects[h].card = sid
                     /\ c.objects[h].parent = p \/ (p = 0 /\ c.zeroIsAll)}

(* An array goes over the cable with its length in front.                  *)
U32Array(S) == <<Cardinality(S)>> \o Ranked(S)

(* parseU32Array: every word of the data.                                  *)
ParseU32Array(data) == data

Accepts(c, sid, p) == /\ sid \in Cards
                      /\ p = Root \/ (p = 0 /\ c.zeroIsAll)
                         \/ (p \in Dirs(c) /\ c.objects[p].card = sid)
Answer(c, sid, p, S) == IF Accepts(c, sid, p) THEN ParseU32Array(U32Array(S)) ELSE <<>>

AllOf(c, sid, p) == Answer(c, sid, p, Children(c, sid, p))
OfFormat(c, sid, p, kind) ==
    CASE c.filter = "works"    -> Answer(c, sid, p, {h \in Children(c, sid, p) : c.objects[h].kind = kind})
      [] c.filter = "ignored"  -> AllOf(c, sid, p)
      [] c.filter = "rejected" -> <<>>
-----------------------------------------------------------------------------
storageIDs == ParseU32Array(U32Array(Cards))

Frame(parent, depth) ==
    [sids |-> storageIDs, parent |-> parent, depth |-> depth, at |-> "all", all |-> <<>>, dirs |-> <<>>]

Init ==
    /\ camera \in CameraType
    /\ frames = <<Frame(Root, 0)>> /\ found = <<>>
    /\ formatFilterWorks = "unknown"
    /\ failures = 0 /\ missed = {}

top == Last(frames)

(* The innermost call goes on to its next directory, or returns and the    *)
(* one that made it does; a call beyond MaxDepth returns at once.          *)
Descend(fs) ==
    LET open == {i \in DOMAIN fs : fs[i].dirs # <<>> /\ fs[i].depth < MaxDepth}
        i    == CHOOSE i \in open : \A j \in open : j <= i
    IN IF open = {} THEN <<>>
       ELSE SubSeq(fs, 1, i - 1)
              \o <<[fs[i] EXCEPT !.dirs = Tail(@)], Frame(Head(fs[i].dirs), fs[i].depth + 1)>>

Set(f)   == [frames EXCEPT ![Len(frames)] = f]

(* Mutant: the same storage is asked again.                                *)
SameStorage == Set(top)

(* Nothing on one storage: the next, or the call returns.                  *)
NextStorage ==
    IF Len(top.sids) > 1 THEN Set([top EXCEPT !.sids = Tail(@)]) ELSE Descend(Front(frames))

Succeeds == UNCHANGED <<failures, missed>>
Fails(h) == /\ failures < MaxFailures /\ failures' = failures + 1
            /\ missed' = missed \cup {h}

Listing(all) == Set([top EXCEPT !.all = all,
                                !.at = CASE formatFilterWorks = "unknown" -> "probe"
                                         [] formatFilterWorks = "yes"     -> "dirs"
                                         [] formatFilterWorks = "no"      -> "infos"])

(* getObjectHandles of all objects of a directory.                         *)
ListAll ==
    /\ frames # <<>> /\ top.at = "all"
    /\ LET all == AllOf(camera, Head(top.sids), top.parent)
       IN \/ Succeeds /\ frames' = IF all = <<>> THEN NextStorage ELSE Listing(all)
          \/ all # <<>> /\ Fails(top.parent) /\ frames' = NextStorage
    /\ UNCHANGED <<camera, found, formatFilterWorks>>

(* Mutant: finding as many is taken for a filter that works.               *)
FewerOrAsMany(part, all) == Len(part) <= Len(all)

FewerThan(part, all) == Len(part) < Len(all)

(* Once: does the camera filter by format?                                 *)
Probe ==
    /\ frames # <<>> /\ top.at = "probe"
    /\ LET jpegs == OfFormat(camera, Head(top.sids), top.parent, "jpeg")
       IN \E answer \in {jpegs, <<>>} :
          LET works == FewerThan(answer, top.all)
          IN /\ formatFilterWorks' = IF works THEN "yes" ELSE "no"
             /\ frames' = Set([top EXCEPT !.at = IF works THEN "dirs" ELSE "infos"])
             /\ IF answer = jpegs THEN Succeeds ELSE Fails(Root)
    /\ UNCHANGED <<camera, found>>

(* Mutant: the directories are listed too.                                 *)
AllOfThem(all, dirs) == all

FilesOf(all, dirs) == Picked(all, {i \in DOMAIN all : all[i] \notin ToSet(dirs)})
DirsOf(all, dirs)  == Picked(all, {i \in DOMAIN all : all[i] \in ToSet(dirs)})

(* It does: what is not listed as a directory is a photo.                  *)
ListDirs ==
    /\ frames # <<>> /\ top.at = "dirs"
    /\ LET dirs == OfFormat(camera, Head(top.sids), top.parent, "dir")
       IN \E answer \in {dirs, <<>>} :
          /\ found' = found \o FilesOf(top.all, answer)
          /\ frames' = Descend(Set([top EXCEPT !.dirs = DirsOf(top.all, answer)]))
          /\ IF answer = dirs THEN Succeeds ELSE Fails(top.parent)
    /\ UNCHANGED <<camera, formatFilterWorks>>

(* It does not: each object is asked what it is.                           *)
AskInfo ==
    /\ frames # <<>> /\ top.at = "infos"
    /\ LET h    == Head(top.all)
           then(f) == IF f.all = <<>> THEN Descend(Set(f)) ELSE Set(f)
           rest == [top EXCEPT !.all = Tail(@)]
       IN \/ /\ h \in Photos(camera) /\ Succeeds
             /\ found' = Append(found, h) /\ frames' = then(rest)
          \/ /\ h \in Dirs(camera) /\ Succeeds
             /\ frames' = then([rest EXCEPT !.dirs = Append(@, h)]) /\ UNCHANGED found
          \/ /\ h \notin Handles /\ Succeeds
             /\ frames' = then(rest) /\ UNCHANGED found
          \/ /\ h \in Handles /\ Fails(h)
             /\ frames' = then(rest) /\ UNCHANGED found
    /\ UNCHANGED <<camera, formatFilterWorks>>

Next == ListAll \/ Probe \/ ListDirs \/ AskInfo

Spec == Init /\ [][Next]_vars

(* Calls return (CallReturns of PtpSession).                               *)
FairSpec == Spec /\ WF_vars(Next)
-----------------------------------------------------------------------------
Done == frames = <<>>

(* The directories above an object, and the object: all that is in every   *)
(* set that has it and the parents of what it has.                         *)
Path(h) ==
    {a \in Handles : \A S \in SUBSET Handles :
        h \in S /\ (\A x \in S : camera.objects[x].parent \in S \cup {Root}) => a \in S}

FirstCard == CHOOSE c \in Cards : \A d \in Cards : c <= d

(* The photos of the first storage that are not too deep.                  *)
Due == {h \in Photos(camera) : camera.objects[h].card = FirstCard /\ Cardinality(Path(h)) <= MaxDepth + 1}

(* A call that fails costs the photos below the directory it was about,    *)
(* and no others, unless the probe fails; the numbers in front of the      *)
(* arrays, taken for handles, never hide a photo.                          *)
FailureIsLocal ==
    Done /\ camera.filter # "rejected" /\ Root \notin missed =>
        \A h \in Due : Path(h) \cap missed = {} => h \in ToSet(found)

(* Where nothing fails, no photo is listed twice and no directory as a     *)
(* photo, unless an empty directory makes the listing ask for parent 0.    *)
EmptyDirs == {d \in Dirs(camera) : Children(camera, camera.objects[d].card, d) = {}}
ListedOnce ==
    Done /\ missed = {} /\ camera.filter # "rejected" /\ (camera.zeroIsAll => EmptyDirs = {}) =>
        /\ \A i, j \in DOMAIN found : found[i] = found[j] /\ found[i] \in Handles => i = j
        /\ ToSet(found) \cap Dirs(camera) = {}

(* Every traversal ends, also through parent 0.                            *)
TraversalEnds == <>Done
=============================================================================
