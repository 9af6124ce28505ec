-------------------------- MODULE PhotoListingProofs --------------------------
(***************************************************************************)
(* How a scan finds photos, for any camera, any number of objects and      *)
(* storages, any depth and any failures of its calls.  First what the      *)
(* arrays of the camera hold and how its directories lie; then the types   *)
(* of the calls of collectPhotoHandles and what each of its questions does *)
(* to them; then two invariants.                                           *)
(*                                                                         *)
(* LocalInv: a photo that no failure touches is found, or still owed: a    *)
(* directory on the way to it waits in one of the calls, or the innermost  *)
(* call lists it or will (Owes).  It needs ModeInv: a filter is relied on  *)
(* only where the camera has one.                                          *)
(*                                                                         *)
(* OnceInv: of the objects that wait, and those the innermost call has     *)
(* listed, none is below another or above a photo that is found (Clear);   *)
(* so what is still to come is apart from what came.  It needs that the    *)
(* numbers in front of the arrays, which are taken for objects, list       *)
(* nothing (Blank).                                                        *)
(***************************************************************************)
EXTENDS PhotoListing, DataLemmas

LEMMA Constants ==
    /\ Handles \subseteq Nat /\ Cards \subseteq Nat /\ Root \in Nat /\ MaxDepth \in Nat
    /\ IsFiniteSet(Handles) /\ IsFiniteSet(Cards) /\ Cards # {} /\ Root \notin Handles
    /\ Cardinality(Handles) \in Nat /\ Cardinality(Cards) \in Nat
    /\ \A h \in Handles \cup Cards \cup {Root} : h > Cardinality(Handles) + Cardinality(Cards)
BY ListingAssumption, FS_CardinalityType

(* What a number in front of an array is not.                              *)
LEMMA CountApart ==
    ASSUME NEW S, S \subseteq Handles
    PROVE  /\ IsFiniteSet(S) /\ Cardinality(S) \in Nat
           /\ Cardinality(S) \notin Handles /\ Cardinality(S) \notin Cards /\ Cardinality(S) # Root
           /\ 0 \notin Handles /\ 0 # Root
           /\ Cardinality(S) = 0 => S = {}
<1>1. IsFiniteSet(S) /\ Cardinality(S) \in Nat /\ Cardinality(S) <= Cardinality(Handles)
  BY Constants, FS_Subset, FS_CardinalityType
<1>2. Cardinality(S) = 0 => S = {}
  BY <1>1, FS_EmptySet
<1>3. Cardinality(S) \notin Handles \cup Cards \cup {Root} /\ 0 \notin Handles \cup {Root}
  BY <1>1, Constants
<1>4. QED
  BY <1>1, <1>2, <1>3

(* An array of numbers as it comes from the camera.                        *)
LEMMA ArrayHas ==
    ASSUME NEW S, S \subseteq Nat, IsFiniteSet(S)
    PROVE  LET s == ParseU32Array(U32Array(S))
           IN /\ s \in Seq(Nat) /\ Len(s) = Cardinality(S) + 1 /\ Cardinality(S) \in Nat
              /\ s[1] = Cardinality(S)
              /\ \A k \in 2..Len(s) : s[k] \in S
              /\ \A x \in S : \E k \in 2..Len(s) : s[k] = x
              /\ \A k, l \in 2..Len(s) : k < l => s[k] < s[l]
<1> DEFINE n == Cardinality(S)
           r == Ranked(S)
           s == <<n>> \o r
<1>1. /\ n \in Nat /\ r \in [1..n -> S]
      /\ \A x \in S : \E i \in 1..n : r[i] = x
      /\ \A i, j \in 1..n : i < j => r[i] < r[j]
  BY RankedProperties
<1> HIDE DEF n, r
<1>2. r \in Seq(Nat) /\ Len(r) = n
  <2>1. r \in [1..n -> Nat]
    BY <1>1
  <2>2. QED
    BY <1>1, <2>1
<1>3. /\ s \in Seq(Nat) /\ Len(s) = n + 1 /\ s[1] = n
      /\ \A k \in 2..(n + 1) : s[k] = r[k - 1]
  BY <1>1, <1>2
<1>4. \A k \in 2..(n + 1) : k - 1 \in 1..n
  BY <1>1
<1>5. \A i \in 1..n : i + 1 \in 2..(n + 1) /\ s[i + 1] = r[i]
  BY <1>1, <1>3
<1>6. s = ParseU32Array(U32Array(S))
  BY DEF ParseU32Array, U32Array, n, r
<1> HIDE DEF s
<1>7. \A k \in 2..Len(s) : s[k] \in S
  BY <1>1, <1>3, <1>4
<1>8. \A x \in S : \E k \in 2..Len(s) : s[k] = x
  BY <1>1, <1>3, <1>5
<1>9. \A k, l \in 2..Len(s) : k < l => s[k] < s[l]
  <2> SUFFICES ASSUME NEW k \in 2..Len(s), NEW l \in 2..Len(s), k < l PROVE s[k] < s[l]
    OBVIOUS
  <2>1. k - 1 \in 1..n /\ l - 1 \in 1..n /\ k - 1 < l - 1
    BY <1>1, <1>3
  <2>2. QED
    BY <1>1, <1>3, <2>1
<1>10. QED
  BY <1>1, <1>3, <1>6, <1>7, <1>8, <1>9 DEF n

(* The storages: first the number of them, then the one that is asked.     *)
LEMMA StoragesAre ==
    /\ storageIDs \in Seq(Nat) /\ Len(storageIDs) >= 2
    /\ Head(storageIDs) \notin Cards /\ Head(Tail(storageIDs)) = FirstCard
    /\ FirstCard \in Cards
<1> DEFINE s == storageIDs
<1>1. /\ s \in Seq(Nat) /\ Len(s) = Cardinality(Cards) + 1 /\ Cardinality(Cards) \in Nat
      /\ s[1] = Cardinality(Cards)
      /\ \A k \in 2..Len(s) : s[k] \in Cards
      /\ \A x \in Cards : \E k \in 2..Len(s) : s[k] = x
      /\ \A k, l \in 2..Len(s) : k < l => s[k] < s[l]
  BY ArrayHas, Constants DEF storageIDs
<1> HIDE DEF s
<1>2. Cardinality(Cards) > 0
  BY Constants, FS_EmptySet
<1>3. Len(s) >= 2
  BY <1>1, <1>2
<1>4. Head(s) \notin Cards
  BY <1>1, <1>3, Constants
<1>5. s[2] \in Cards /\ Head(Tail(s)) = s[2]
  BY <1>1, <1>3
<1>6. \A d \in Cards : s[2] <= d
  <2> SUFFICES ASSUME NEW d \in Cards PROVE s[2] <= d
    OBVIOUS
  <2>1. PICK k \in 2..Len(s) : s[k] = d
    BY <1>1
  <2>2. CASE k = 2
    BY <1>5, <2>1, <2>2, Constants
  <2>3. CASE 2 < k
    BY <1>1, <1>3, <1>5, <2>1, <2>3, Constants
  <2>4. QED
    BY <2>2, <2>3
<1>7. FirstCard \in Cards /\ \A d \in Cards : FirstCard <= d
  BY <1>5, <1>6 DEF FirstCard
<1>8. FirstCard = s[2]
  <2>1. FirstCard \in Nat /\ s[2] \in Nat /\ FirstCard <= s[2] /\ s[2] <= FirstCard
    BY <1>5, <1>6, <1>7, Constants
  <2>2. QED
    BY <2>1
<1>9. QED
  BY <1>1, <1>3, <1>4, <1>5, <1>7, <1>8 DEF s

(* What the camera answers: nothing, or the number and then the objects.   *)
LEMMA AnswerHas ==
    ASSUME NEW c, NEW sid, NEW p, NEW S, S \subseteq Handles
    PROVE  LET s == Answer(c, sid, p, S)
           IN /\ s \in Seq(Nat) /\ ToSet(s) \cap Handles \subseteq S
              /\ ~Accepts(c, sid, p) => s = <<>>
              /\ Accepts(c, sid, p) =>
                     /\ Len(s) = Cardinality(S) + 1 /\ s # <<>> /\ ToSet(s) = S \cup {Cardinality(S)}
              /\ \A k, l \in DOMAIN s : s[k] = s[l] /\ s[k] \in Handles => k = l
<1> DEFINE s == ParseU32Array(U32Array(S))
<1>1. S \subseteq Nat /\ Cardinality(S) \in Nat /\ Cardinality(S) \notin Handles /\ IsFiniteSet(S)
  BY CountApart, Constants
<1>2. /\ s \in Seq(Nat) /\ Len(s) = Cardinality(S) + 1
      /\ s[1] = Cardinality(S)
      /\ \A k \in 2..Len(s) : s[k] \in S
      /\ \A x \in S : \E k \in 2..Len(s) : s[k] = x
      /\ \A k, l \in 2..Len(s) : k < l => s[k] < s[l]
  BY <1>1, ArrayHas
<1>3. Answer(c, sid, p, S) = IF Accepts(c, sid, p) THEN s ELSE <<>>
  BY DEF Answer
<1> HIDE DEF s
<1>4. s # <<>> /\ DOMAIN s = 1..Len(s) /\ 1 \in DOMAIN s /\ 2..Len(s) \subseteq DOMAIN s
      /\ \A k \in DOMAIN s : k = 1 \/ k \in 2..Len(s)
  BY <1>1, <1>2
<1>5. ToSet(s) = S \cup {Cardinality(S)}
  BY <1>2, <1>4 DEF ToSet
<1>6. ASSUME NEW k \in DOMAIN s, NEW l \in DOMAIN s, s[k] = s[l], s[k] \in Handles PROVE k = l
  <2>1. k \in 2..Len(s) /\ l \in 2..Len(s)
    BY <1>1, <1>2, <1>4, <1>6
  <2>2. s[k] \in Nat /\ s[l] \in Nat /\ k \in Nat /\ l \in Nat
    BY <1>1, <1>2, <2>1
  <2>3. ~(k < l) /\ ~(l < k)
    BY <1>2, <1>6, <2>1, <2>2
  <2>4. QED
    BY <2>2, <2>3
<1>7. ToSet(<<>>) = {} /\ <<>> \in Seq(Nat) /\ DOMAIN <<>> = {}
  BY DEF ToSet
<1>8. QED
  BY <1>1, <1>2, <1>3, <1>4, <1>5, <1>6, <1>7
-----------------------------------------------------------------------------
(* The tree of directories.                                                *)
Up(x)     == camera.objects[x].parent
Closed(S) == \A x \in S : Up(x) \in S \cup {Root}

LEMMA CameraHas ==
    ASSUME camera \in CameraType, NEW h \in Handles
    PROVE  /\ Up(h) \in Handles \cup {Root} /\ camera.objects[h].card \in Cards
           /\ camera.objects[h].kind \in {"dir", "jpeg", "raw"}
           /\ Up(h) # Root => /\ Up(h) \in Handles /\ Up(h) < h /\ Up(h) \in Dirs(camera)
                              /\ camera.objects[Up(h)].card = camera.objects[h].card
BY DEF CameraType, Objects, Hierarchical, Up, Dirs

LEMMA PathIs ==
    ASSUME NEW h
    PROVE  /\ Path(h) \subseteq Handles
           /\ \A a \in Handles : a \in Path(h) <=>
                  \A S \in SUBSET Handles : h \in S /\ Closed(S) => a \in S
BY DEF Path, Closed, Up

LEMMA PathWithin ==
    ASSUME NEW h, NEW S, S \subseteq Handles, h \in S, Closed(S)
    PROVE  Path(h) \subseteq S
BY PathIs

LEMMA PathClosed ==
    ASSUME camera \in CameraType, NEW h \in Handles
    PROVE  /\ h \in Path(h) /\ Closed(Path(h))
           /\ \A a \in Path(h) : a <= h /\ Path(a) \subseteq Path(h)
           /\ IsFiniteSet(Path(h))
<1>1. h \in Path(h)
  BY PathIs
<1>2. ASSUME NEW x \in Path(h), Up(x) # Root PROVE Up(x) \in Path(h)
  <2>1. x \in Handles /\ Up(x) \in Handles
    BY <1>2, PathIs, CameraHas
  <2>2. ASSUME NEW S \in SUBSET Handles, h \in S, Closed(S) PROVE Up(x) \in S
    BY <1>2, <2>2, PathIs DEF Closed
  <2>3. QED
    BY <2>1, <2>2, PathIs
<1>3. Closed(Path(h))
  BY <1>2 DEF Closed
<1>4. \A a \in Path(h) : Path(a) \subseteq Path(h)
  BY <1>3, PathIs, PathWithin
<1>5. \A a \in Path(h) : a <= h
  <2> DEFINE S == {a \in Handles : a <= h}
  <2>1. Closed(S)
    <3> SUFFICES ASSUME NEW x \in S, Up(x) # Root PROVE Up(x) \in S
      BY DEF Closed
    <3>1. x \in Handles /\ Up(x) \in Handles /\ Up(x) < x /\ x <= h
      BY CameraHas
    <3>2. x \in Nat /\ Up(x) \in Nat /\ h \in Nat
      BY <3>1, Constants
    <3>3. Up(x) <= h
      BY <3>1, <3>2
    <3>4. QED
      BY <3>1, <3>3
  <2>2. h \in S
    BY Constants
  <2>3. Path(h) \subseteq S
    <3> HIDE DEF S
    <3>1. S \subseteq Handles
      BY DEF S
    <3>2. QED
      BY <2>1, <2>2, <3>1, PathWithin
  <2>4. QED
    BY <2>3
<1>6. IsFiniteSet(Path(h))
  BY PathIs, Constants, FS_Subset
<1>7. QED
  BY <1>1, <1>3, <1>4, <1>5, <1>6

(* A child has one directory more above it.                                *)
LEMMA PathStep ==
    ASSUME camera \in CameraType, NEW h \in Handles
    PROVE  /\ Up(h) = Root => Path(h) = {h} /\ Cardinality(Path(h)) = 1
           /\ Up(h) # Root => /\ Path(h) = {h} \cup Path(Up(h)) /\ h \notin Path(Up(h))
                              /\ Cardinality(Path(h)) = Cardinality(Path(Up(h))) + 1
           /\ Cardinality(Path(h)) \in Nat
<1>1. Up(h) \in Handles \cup {Root} /\ h \in Path(h) /\ IsFiniteSet(Path(h)) /\ h \in Nat
  BY CameraHas, PathClosed, Constants
<1>2. ASSUME Up(h) = Root PROVE Path(h) = {h} /\ Cardinality(Path(h)) = 1
  <2>1. Closed({h})
    BY <1>2 DEF Closed
  <2>2. Path(h) = {h}
    BY <1>1, <2>1, PathWithin
  <2>3. QED
    BY <2>2, FS_Singleton
<1>3. ASSUME Up(h) # Root
      PROVE  /\ Path(h) = {h} \cup Path(Up(h)) /\ h \notin Path(Up(h))
             /\ Cardinality(Path(h)) = Cardinality(Path(Up(h))) + 1
  <2>1. /\ Up(h) \in Handles /\ Up(h) < h /\ Closed(Path(Up(h))) /\ IsFiniteSet(Path(Up(h)))
        /\ Path(Up(h)) \subseteq Handles /\ Up(h) \in Path(Up(h))
        /\ \A a \in Path(Up(h)) : a <= Up(h)
    BY <1>3, CameraHas, PathClosed, PathIs
  <2>2. h \notin Path(Up(h))
    <3>1. h \in Nat /\ Up(h) \in Nat /\ Up(h) < h /\ (h \in Path(Up(h)) => h <= Up(h))
      BY <1>1, <2>1, Constants
    <3>2. ~(h <= Up(h))
      BY <3>1
    <3>3. QED
      BY <3>1, <3>2
  <2> DEFINE S == {h} \cup Path(Up(h))
  <2>3. Closed(S)
    BY <2>1 DEF Closed
  <2>4. Path(h) \subseteq S
    <3>1. S \subseteq Handles /\ h \in S
      BY <2>1
    <3> HIDE DEF S
    <3>2. QED
      BY <2>3, <3>1, PathWithin
  <2>5. S \subseteq Path(h)
    <3>1. Up(h) \in Path(h)
      BY <1>1, <1>3, PathClosed DEF Closed
    <3>2. QED
      BY <1>1, <3>1, PathClosed
  <2>6. Cardinality(S) = Cardinality(Path(Up(h))) + 1
    <3>1. S = Path(Up(h)) \cup {h}
      OBVIOUS
    <3>2. QED
      BY <2>1, <2>2, <3>1, FS_AddElement
  <2>7. QED
    BY <2>2, <2>4, <2>5, <2>6
<1>4. QED
  BY <1>1, <1>2, <1>3, FS_CardinalityType

(* The way down from a storage to an object.                               *)
LEMMA WayDown ==
    ASSUME camera \in CameraType, NEW h \in Handles
    PROVE  /\ \E c \in Path(h) : Up(c) = Root
           /\ \A p \in Path(h) \ {h} : \E c \in Path(h) : Up(c) = p
           /\ \A p \in Path(h) \ {h} : p \in Dirs(camera)
           /\ \A p \in Path(h) : camera.objects[p].card = camera.objects[h].card
           /\ \A p \in Path(h) \ {h} : Cardinality(Path(p)) < Cardinality(Path(h))
<1>1. /\ Path(h) \subseteq Handles /\ h \in Path(h) /\ Closed(Path(h)) /\ IsFiniteSet(Path(h))
      /\ Path(h) \subseteq Nat
  BY PathIs, PathClosed, Constants
<1>2. \E c \in Path(h) : Up(c) = Root
  <2>1. PICK c \in Path(h) : \A a \in Path(h) : c <= a
    <3> DEFINE T == Path(h)
    <3>1. T \subseteq Nat /\ T # {}
      BY <1>1
    <3> HIDE DEF T
    <3>2. \E c \in T : \A a \in T : c <= a
      BY <3>1, LeastExists
    <3>3. QED
      BY <3>2 DEF T
  <2>2. CASE Up(c) = Root
    BY <2>2
  <2>3. CASE Up(c) # Root
    <3>1. Up(c) \in Path(h) /\ Up(c) < c /\ c \in Nat /\ Up(c) \in Nat
      BY <1>1, <2>3, CameraHas DEF Closed
    <3>2. c <= Up(c)
      BY <2>1, <3>1
    <3>3. QED
      BY <3>1, <3>2
  <2>4. QED
    BY <2>2, <2>3
<1>3. ASSUME NEW p \in Path(h) \ {h} PROVE \E c \in Path(h) : Up(c) = p
  <2>1. SUFFICES ASSUME \A c \in Path(h) : Up(c) # p PROVE FALSE
    OBVIOUS
  <2> DEFINE S == Path(h) \ {p}
  <2>2. S \subseteq Handles /\ h \in S
    BY <1>1, <1>3
  <2>3. Closed(S)
    BY <1>1, <2>1 DEF Closed
  <2>4. p \notin S
    OBVIOUS
  <2> HIDE DEF S
  <2>5. QED
    BY <1>3, <2>2, <2>3, <2>4, PathWithin
<1>4. ASSUME NEW p \in Path(h) \ {h} PROVE p \in Dirs(camera)
  <2>1. PICK c \in Path(h) : Up(c) = p
    BY <1>3, <1>4
  <2>2. p # Root
    BY <1>1, <1>4, Constants
  <2>3. QED
    BY <1>1, <2>1, <2>2, CameraHas
<1>5. ASSUME NEW p \in Path(h) PROVE camera.objects[p].card = camera.objects[h].card
  <2> DEFINE S == {a \in Handles : camera.objects[a].card = camera.objects[h].card}
  <2>1. S \subseteq Handles /\ h \in S
    BY <1>1
  <2>2. Closed(S)
    <3> SUFFICES ASSUME NEW x \in S, Up(x) # Root PROVE Up(x) \in S
      BY DEF Closed
    <3>1. QED
      BY CameraHas
  <2>3. \A a \in S : camera.objects[a].card = camera.objects[h].card
    OBVIOUS
  <2> HIDE DEF S
  <2>4. QED
    BY <1>5, <2>1, <2>2, <2>3, PathWithin
<1>6. ASSUME NEW p \in Path(h) \ {h} PROVE Cardinality(Path(p)) < Cardinality(Path(h))
  <2>1. p \in Handles /\ p <= h /\ Path(p) \subseteq Path(h) /\ p \in Nat /\ h \in Nat /\ p # h
    BY <1>1, <1>6, PathClosed
  <2>2. h \notin Path(p)
    <3>1. h \in Path(p) => h <= p
      BY <2>1, PathClosed
    <3>2. ~(h <= p)
      BY <2>1
    <3>3. QED
      BY <3>1, <3>2
  <2>3. /\ Cardinality(Path(p)) \in Nat /\ Cardinality(Path(h)) \in Nat
        /\ Cardinality(Path(p)) <= Cardinality(Path(h))
        /\ Cardinality(Path(p)) # Cardinality(Path(h))
    BY <1>1, <2>1, <2>2, FS_Subset, FS_CardinalityType
  <2>4. QED
    BY <2>3
<1>7. QED
  BY <1>2, <1>3, <1>4, <1>5, <1>6
-----------------------------------------------------------------------------
(* The calls.                                                              *)
FrameType == [sids : Seq(Nat), parent : Nat, depth : Nat, at : {"all", "probe", "dirs", "infos"},
              all : Seq(Nat), dirs : Seq(Nat)]

(* The innermost call has what its next question is about.                 *)
TopOK(c, mode, f) ==
    /\ f.at \in {"all", "probe", "dirs"} => f.sids # <<>>
    /\ f.at \in {"probe", "dirs"} => f.all = AllOf(c, Head(f.sids), f.parent)
    /\ f.at # "all" => f.all # <<>>
    /\ f.at # "infos" => f.dirs = <<>>
    /\ f.at = "probe" => mode = "unknown"
    /\ f.at = "dirs" => mode = "yes"
    /\ f.at = "infos" => mode = "no"

TypeInv ==
    /\ camera \in CameraType /\ frames \in Seq(FrameType) /\ found \in Seq(Nat)
    /\ formatFilterWorks \in {"unknown", "yes", "no"}
    /\ failures \in Nat /\ missed \subseteq Nat
    /\ frames # <<>> => TopOK(camera, formatFilterWorks, top)

LEMMA FrameTypes ==
    ASSUME NEW p \in Nat, NEW d \in Nat
    PROVE  /\ Frame(p, d) \in FrameType
           /\ Frame(p, d).at = "all" /\ Frame(p, d).parent = p /\ Frame(p, d).depth = d
           /\ Frame(p, d).sids = storageIDs /\ Frame(p, d).dirs = <<>> /\ Frame(p, d).all = <<>>
           /\ \A c, mode : TopOK(c, mode, Frame(p, d))
<1>1. storageIDs \in Seq(Nat) /\ storageIDs # <<>>
  BY StoragesAre
<1> HIDE DEF storageIDs
<1>2. QED
  BY <1>1 DEF Frame, FrameType, TopOK

(* The innermost call with directories to go to, if any.                   *)
LEMMA DescendDoes ==
    ASSUME NEW fs \in Seq(FrameType)
    PROVE  LET gs == Descend(fs)
           IN \/ /\ gs = <<>>
                 /\ \A i \in DOMAIN fs : fs[i].dirs = <<>> \/ fs[i].depth >= MaxDepth
              \/ \E i \in DOMAIN fs :
                    /\ fs[i].dirs # <<>> /\ fs[i].depth < MaxDepth
                    /\ \A j \in DOMAIN fs : j > i => fs[j].dirs = <<>> \/ fs[j].depth >= MaxDepth
                    /\ gs \in Seq(FrameType) /\ Len(gs) = i + 1 /\ gs # <<>>
                    /\ \A j \in 1..(i - 1) : gs[j] = fs[j]
                    /\ gs[i] = [fs[i] EXCEPT !.dirs = Tail(@)]
                    /\ Last(gs) = Frame(Head(fs[i].dirs), fs[i].depth + 1)
                    /\ gs[i + 1] = Frame(Head(fs[i].dirs), fs[i].depth + 1)
<1> DEFINE open == {i \in DOMAIN fs : fs[i].dirs # <<>> /\ fs[i].depth < MaxDepth}
<1>1. DOMAIN fs = 1..Len(fs) /\ Len(fs) \in Nat /\ \A i \in DOMAIN fs : fs[i] \in FrameType
  BY ElementOfSeq
<1>2. \A i \in DOMAIN fs : fs[i].dirs \in Seq(Nat) /\ fs[i].depth \in Nat
  BY <1>1 DEF FrameType
<1>3. CASE open = {}
  <2>1. Descend(fs) = <<>>
    BY <1>3 DEF Descend
  <2>2. \A i \in DOMAIN fs : fs[i].dirs = <<>> \/ fs[i].depth >= MaxDepth
    BY <1>2, <1>3, Constants
  <2>3. QED
    BY <2>1, <2>2
<1>4. CASE open # {}
  <2> DEFINE i == CHOOSE i \in open : \A j \in open : j <= i
             new == Frame(Head(fs[i].dirs), fs[i].depth + 1)
             old == [fs[i] EXCEPT !.dirs = Tail(@)]
             gs == SubSeq(fs, 1, i - 1) \o <<old, new>>
  <2>1. i \in open /\ \A j \in open : j <= i
    <3>1. open \subseteq Nat /\ IsFiniteSet(open)
      <4>1. IsFiniteSet(1..Len(fs)) /\ open \subseteq 1..Len(fs)
        BY <1>1, FS_Interval
      <4>2. QED
        BY <1>1, <4>1, FS_Subset
    <3>2. \E n \in open : \A m \in open : n >= m
      <4> HIDE DEF open
      <4>1. QED
        BY <1>4, <3>1, GreatestExists
    <3>3. \E n \in open : \A m \in open : m <= n
      BY <3>1, <3>2
    <3> HIDE DEF open
    <3>4. QED
      BY <3>3
  <2>2. Descend(fs) = gs
    BY <1>4 DEF Descend
  <2> HIDE DEF i
  <2>3. i \in 1..Len(fs) /\ fs[i] \in FrameType /\ fs[i].dirs # <<>> /\ fs[i].depth < MaxDepth
    BY <1>1, <2>1
  <2>4. Head(fs[i].dirs) \in Nat /\ Tail(fs[i].dirs) \in Seq(Nat) /\ fs[i].depth + 1 \in Nat
    BY <1>2, <2>3
  <2>5. old \in FrameType
    BY <2>3, <2>4 DEF FrameType
  <2>6. new \in FrameType
    BY <2>4, FrameTypes
  <2>7. \A j \in DOMAIN fs : j > i => fs[j].dirs = <<>> \/ fs[j].depth >= MaxDepth
    <3> SUFFICES ASSUME NEW j \in DOMAIN fs, j > i, fs[j].dirs # <<>>, ~(fs[j].depth >= MaxDepth)
                 PROVE  FALSE
      OBVIOUS
    <3>1. j \in open
      BY <1>2, Constants
    <3>2. QED
      BY <1>1, <2>1, <2>3, <3>1
  <2> HIDE DEF new, old
  <2>8. /\ gs \in Seq(FrameType) /\ Len(gs) = i + 1
        /\ \A j \in 1..(i - 1) : gs[j] = fs[j]
        /\ gs[i] = old /\ gs[i + 1] = new
    <3> DEFINE front == SubSeq(fs, 1, i - 1)
    <3>1. front \in Seq(FrameType) /\ Len(front) = i - 1 /\ \A j \in 1..(i - 1) : front[j] = fs[j]
      BY <1>1, <2>3, SubSeqProperties
    <3> HIDE DEF front
    <3> DEFINE two == <<old, new>>
    <3>2. two \in Seq(FrameType) /\ Len(two) = 2 /\ two[1] = old /\ two[2] = new
      BY <2>5, <2>6
    <3> HIDE DEF two
    <3>3. /\ gs = front \o two
          /\ front \o two \in Seq(FrameType) /\ Len(front \o two) = i - 1 + 2
          /\ \A j \in 1..(i - 1 + 2) :
                 (front \o two)[j] = IF j <= i - 1 THEN front[j] ELSE two[j - (i - 1)]
      BY <3>1, <3>2, ConcatProperties DEF front, two
    <3> HIDE DEF gs
    <3>4. i \in Nat /\ i - 1 \in Nat /\ i >= 1
      BY <2>3
    <3>5. gs[i] = two[i - (i - 1)] /\ gs[i + 1] = two[i + 1 - (i - 1)]
      BY <3>3, <3>4
    <3>6. i - (i - 1) = 1 /\ i + 1 - (i - 1) = 2 /\ i - 1 + 2 = i + 1
      BY <3>4
    <3>7. \A j \in 1..(i - 1) : gs[j] = fs[j]
      BY <3>1, <3>3, <3>4
    <3>8. QED
      BY <3>2, <3>3, <3>5, <3>6, <3>7
  <2> HIDE DEF gs
  <2>9. gs # <<>> /\ Last(gs) = new
    BY <2>3, <2>8 DEF Last
  <2>10. i \in DOMAIN fs
    BY <1>1, <2>3
  <2>11. QED
    BY <2>2, <2>3, <2>7, <2>8, <2>9, <2>10 DEF new, old
<1>5. QED
  BY <1>3, <1>4

(* The innermost call becomes f.                                           *)
LEMMA SetDoes ==
    ASSUME TypeInv, frames # <<>>, NEW f \in FrameType
    PROVE  /\ Set(f) \in Seq(FrameType) /\ Set(f) # <<>> /\ Last(Set(f)) = f
           /\ Len(Set(f)) = Len(frames) /\ DOMAIN Set(f) = DOMAIN frames
           /\ Len(frames) \in DOMAIN frames /\ Set(f)[Len(frames)] = f
           /\ \A i \in DOMAIN frames : i # Len(frames) => Set(f)[i] = frames[i]
<1>1. /\ frames \in Seq(FrameType) /\ Len(frames) \in 1..Len(frames) /\ DOMAIN frames = 1..Len(frames)
      /\ Len(frames) \in Nat
  BY DEF TypeInv
<1>2. Set(f) \in Seq(FrameType) /\ Len(Set(f)) = Len(frames) /\ DOMAIN Set(f) = DOMAIN frames
  BY <1>1, ExceptSeq DEF Set
<1>3. Set(f)[Len(frames)] = f /\ \A i \in DOMAIN frames : i # Len(frames) => Set(f)[i] = frames[i]
  BY <1>1 DEF Set
<1>4. QED
  BY <1>1, <1>2, <1>3 DEF Last

LEMMA TopTypes ==
    ASSUME TypeInv, frames # <<>>
    PROVE  /\ top \in FrameType /\ top = frames[Len(frames)] /\ Len(frames) \in DOMAIN frames
           /\ TopOK(camera, formatFilterWorks, top)
           /\ DOMAIN frames = 1..Len(frames) /\ Len(frames) \in Nat
           /\ \A i \in DOMAIN frames : frames[i] \in FrameType
           /\ Front(frames) \in Seq(FrameType) /\ Len(Front(frames)) = Len(frames) - 1
           /\ DOMAIN Front(frames) = 1..(Len(frames) - 1)
           /\ \A i \in DOMAIN Front(frames) : i \in DOMAIN frames /\ Front(frames)[i] = frames[i]
<1>1. /\ frames \in Seq(FrameType) /\ Len(frames) \in 1..Len(frames) /\ DOMAIN frames = 1..Len(frames)
      /\ Len(frames) \in Nat /\ \A i \in DOMAIN frames : frames[i] \in FrameType
  BY ElementOfSeq DEF TypeInv
<1>2. Front(frames) \in Seq(FrameType) /\ Len(Front(frames)) = Len(frames) - 1
      /\ \A i \in 1..(Len(frames) - 1) : Front(frames)[i] = frames[i]
  <2>1. \A i \in 1..(Len(frames) - 1) : frames[i] \in FrameType
    BY <1>1
  <2>2. /\ Front(frames) \in Seq(FrameType)
        /\ Len(Front(frames)) = IF 1 <= Len(frames) - 1 THEN Len(frames) - 1 - 1 + 1 ELSE 0
        /\ \A i \in 1..(Len(frames) - 1 - 1 + 1) : Front(frames)[i] = frames[1 + i - 1]
    BY <1>1, <2>1, SubSeqProperties DEF Front
  <2> DEFINE r == Front(frames)
  <2> HIDE DEF r
  <2>3. r \in Seq(FrameType) /\ Len(r) = IF 1 <= Len(frames) - 1 THEN Len(frames) - 1 - 1 + 1 ELSE 0
    BY <2>2 DEF r
  <2>4. Len(r) = Len(frames) - 1
    <3> DEFINE n == Len(frames)
    <3>1. n \in Nat /\ n >= 1
      BY <1>1
    <3>2. Len(r) = IF 1 <= n - 1 THEN n - 1 - 1 + 1 ELSE 0
      BY <2>3
    <3> HIDE DEF n
    <3>3. CASE n = 1
      BY <3>2, <3>3 DEF n
    <3>4. CASE n > 1
      <4>1. Len(r) = n - 1
        BY <3>1, <3>2, <3>4
      <4>2. QED
        BY <4>1 DEF n
    <3>5. QED
      BY <3>1, <3>3, <3>4
  <2>5. \A i \in 1..(Len(frames) - 1) : i \in 1..(Len(frames) - 1 - 1 + 1) /\ 1 + i - 1 = i
    BY <1>1
  <2>6. \A i \in 1..(Len(frames) - 1) : r[i] = frames[i]
    BY <2>2, <2>5 DEF r
  <2>7. QED
    BY <2>3, <2>4, <2>6 DEF r
<1>3. QED
  BY <1>1, <1>2 DEF top, Last, TypeInv

(* What the first question about a directory leads to: the objects are     *)
(* sorted out, or it is asked of the next storage, or the call returns.    *)
Next1(f) == /\ f.sids = top.sids /\ f.parent = top.parent /\ f.depth = top.depth /\ f.dirs = top.dirs
            /\ f.all = AllOf(camera, Head(top.sids), top.parent)
            /\ f.at = CASE formatFilterWorks = "unknown" -> "probe"
                        [] formatFilterWorks = "yes"     -> "dirs"
                        [] formatFilterWorks = "no"      -> "infos"

LEMMA ListAllDoes ==
    ASSUME TypeInv, ListAll
    PROVE  /\ frames # <<>> /\ top.at = "all" /\ UNCHANGED <<camera, found, formatFilterWorks>>
           /\ failures' \in Nat
           /\ \/ /\ \E f \in FrameType : frames' = Set(f) /\ Next1(f)
                 /\ Accepts(camera, Head(top.sids), top.parent) /\ missed' = missed
              \/ /\ \/ ~Accepts(camera, Head(top.sids), top.parent) /\ missed' = missed
                    \/ missed' = missed \cup {top.parent}
                 /\ \/ /\ Len(top.sids) > 1 
                       /\ \E f \in FrameType :
                             /\ frames' = Set(f) /\ f.sids = Tail(top.sids) /\ f.at = "all"
                             /\ f.parent = top.parent /\ f.depth = top.depth /\ f.dirs = top.dirs
                    \/ ~(Len(top.sids) > 1) /\ frames' = Descend(Front(frames))
<1> DEFINE all == AllOf(camera, Head(top.sids), top.parent)
<1>1. frames # <<>> /\ top.at = "all" /\ UNCHANGED <<camera, found, formatFilterWorks>>
  BY DEF ListAll
<1>2. top \in FrameType /\ top.sids # <<>>
  BY <1>1, TopTypes DEF TopOK
<1>3. /\ all \in Seq(Nat) /\ (~Accepts(camera, Head(top.sids), top.parent) <=> all = <<>>)
  BY AnswerHas DEF AllOf, Children
<1>4. failures \in Nat /\ formatFilterWorks \in {"unknown", "yes", "no"}
  BY DEF TypeInv
<1>5. \/ /\ missed' = missed /\ failures' = failures /\ all # <<>> /\ frames' = Listing(all)
      \/ /\ missed' = missed /\ failures' = failures /\ all = <<>> /\ frames' = NextStorage
      \/ missed' = missed \cup {top.parent} /\ failures' = failures + 1 /\ frames' = NextStorage
  BY DEF ListAll, Succeeds, Fails
<1> HIDE DEF all
<1>6. ASSUME frames' = Listing(all)
      PROVE  \E f \in FrameType : /\ frames' = Set(f) /\ f.all = all
               /\ f.sids = top.sids /\ f.parent = top.parent /\ f.depth = top.depth /\ f.dirs = top.dirs
               /\ f.at = CASE formatFilterWorks = "unknown" -> "probe"
                           [] formatFilterWorks = "yes"     -> "dirs"
                           [] formatFilterWorks = "no"      -> "infos"
  <2> DEFINE way == CASE formatFilterWorks = "unknown" -> "probe"
                      [] formatFilterWorks = "yes"     -> "dirs"
                      [] formatFilterWorks = "no"      -> "infos"
             f == [top EXCEPT !.all = all, !.at = way]
  <2>1. frames' = Set(f)
    BY <1>6 DEF Listing
  <2>2. way \in {"probe", "dirs", "infos"}
    BY <1>4
  <2> HIDE DEF way
  <2>3. /\ f \in FrameType /\ f.all = all /\ f.at = way
        /\ f.sids = top.sids /\ f.parent = top.parent /\ f.depth = top.depth /\ f.dirs = top.dirs
    BY <1>2, <1>3, <2>2 DEF FrameType
  <2> HIDE DEF f
  <2>4. QED
    BY <2>1, <2>3 DEF way
<1>7. ASSUME frames' = NextStorage
      PROVE  \/ /\ Len(top.sids) > 1
                /\ \E f \in FrameType :
                      /\ frames' = Set(f) /\ f.sids = Tail(top.sids) /\ f.at = "all"
                      /\ f.parent = top.parent /\ f.depth = top.depth /\ f.dirs = top.dirs
             \/ ~(Len(top.sids) > 1) /\ frames' = Descend(Front(frames))
  <2>1. CASE Len(top.sids) > 1
    <3> DEFINE f == [top EXCEPT !.sids = Tail(@)]
    <3>1. frames' = Set(f)
      BY <1>7, <2>1 DEF NextStorage
    <3>2. Tail(top.sids) \in Seq(Nat)
      BY <1>2 DEF FrameType
    <3>3. /\ f \in FrameType /\ f.sids = Tail(top.sids) /\ f.at = top.at
          /\ f.parent = top.parent /\ f.depth = top.depth /\ f.dirs = top.dirs
      BY <1>2, <3>2 DEF FrameType
    <3> HIDE DEF f
    <3>4. QED
      BY <1>1, <2>1, <3>1, <3>3
  <2>2. CASE ~(Len(top.sids) > 1)
    BY <1>7, <2>2 DEF NextStorage
  <2>3. QED
    BY <2>1, <2>2
<1>8. CASE missed' = missed /\ failures' = failures /\ all # <<>> /\ frames' = Listing(all)
  <2>1. \E f \in FrameType : frames' = Set(f) /\ Next1(f)
    BY <1>6, <1>8 DEF Next1, all
  <2>2. QED
    BY <1>1, <1>3, <1>4, <1>8, <2>1
<1>9. CASE /\ frames' = NextStorage
           /\ \/ missed' = missed /\ failures' = failures /\ all = <<>>
              \/ missed' = missed \cup {top.parent} /\ failures' = failures + 1
  <2>1. failures' \in Nat
    BY <1>4, <1>9
  <2>2. \/ ~Accepts(camera, Head(top.sids), top.parent) /\ missed' = missed
        \/ missed' = missed \cup {top.parent}
    BY <1>3, <1>9
  <2>3. QED
    BY <1>1, <1>7, <1>9, <2>1, <2>2
<1>10. QED
  BY <1>5, <1>8, <1>9

(* The answer to the probe is whole or nothing.                            *)
LEMMA ProbeDoes ==
    ASSUME TypeInv, Probe
    PROVE  /\ frames # <<>> /\ top.at = "probe" /\ UNCHANGED <<camera, found>> /\ failures' \in Nat
           /\ formatFilterWorks' \in {"yes", "no"}
           /\ \E f \in FrameType :
                 /\ frames' = Set(f) /\ f.sids = top.sids /\ f.parent = top.parent /\ f.depth = top.depth
                 /\ f.dirs = top.dirs /\ f.all = top.all
                 /\ f.at = IF formatFilterWorks' = "yes" THEN "dirs" ELSE "infos"
           /\ \/ missed' = missed \cup {Root}
              \/ /\ missed' = missed
                 /\ formatFilterWorks' = "yes" <=>
                        Len(OfFormat(camera, Head(top.sids), top.parent, "jpeg")) < Len(top.all)
<1>1. frames # <<>> /\ top.at = "probe" /\ UNCHANGED <<camera, found>>
  BY DEF Probe
<1>2. top \in FrameType /\ failures \in Nat
  BY <1>1, TopTypes DEF TypeInv
<1> DEFINE jpegs == OfFormat(camera, Head(top.sids), top.parent, "jpeg")
<1>3. PICK answer \in {jpegs, <<>>} :
          /\ formatFilterWorks' = IF FewerThan(answer, top.all) THEN "yes" ELSE "no"
          /\ frames' = Set([top EXCEPT !.at = IF FewerThan(answer, top.all) THEN "dirs" ELSE "infos"])
          /\ IF answer = jpegs THEN Succeeds ELSE Fails(Root)
  BY DEF Probe
<1> DEFINE f == [top EXCEPT !.at = IF FewerThan(answer, top.all) THEN "dirs" ELSE "infos"]
<1>4. /\ f \in FrameType /\ f.sids = top.sids /\ f.parent = top.parent /\ f.depth = top.depth
      /\ f.dirs = top.dirs /\ f.all = top.all
      /\ f.at = IF formatFilterWorks' = "yes" THEN "dirs" ELSE "infos"
  BY <1>2, <1>3 DEF FrameType
<1> HIDE DEF f
<1>5. \E g \in FrameType :
          /\ frames' = Set(g) /\ g.sids = top.sids /\ g.parent = top.parent /\ g.depth = top.depth
          /\ g.dirs = top.dirs /\ g.all = top.all
          /\ g.at = IF formatFilterWorks' = "yes" THEN "dirs" ELSE "infos"
  BY <1>3, <1>4 DEF f
<1> HIDE DEF jpegs
<1>6. CASE answer = jpegs
  <2>1. missed' = missed /\ failures' = failures
    BY <1>3, <1>6 DEF Succeeds
  <2>2. formatFilterWorks' = "yes" <=> Len(jpegs) < Len(top.all)
    BY <1>3, <1>6 DEF FewerThan
  <2>3. QED
    BY <1>1, <1>2, <1>3, <1>5, <2>1, <2>2 DEF jpegs
<1>7. CASE answer # jpegs
  <2>1. missed' = missed \cup {Root} /\ failures' = failures + 1
    BY <1>3, <1>7 DEF Fails
  <2>2. QED
    BY <1>1, <1>2, <1>3, <1>5, <2>1
<1>8. QED
  BY <1>6, <1>7

(* No object is in a sequence twice.                                       *)
Distinct(s) == \A k, l \in DOMAIN s : s[k] = s[l] /\ s[k] \in Handles => k = l

(* Objects are sorted out by the answer about directories.                 *)
LEMMA SortedOut ==
    ASSUME NEW all \in Seq(Nat), NEW answer \in Seq(Nat)
    PROVE  /\ FilesOf(all, answer) \in Seq(Nat) /\ DirsOf(all, answer) \in Seq(Nat)
           /\ ToSet(FilesOf(all, answer)) = ToSet(all) \ ToSet(answer)
           /\ ToSet(DirsOf(all, answer)) = ToSet(all) \cap ToSet(answer)
           /\ Distinct(all) => Distinct(FilesOf(all, answer)) /\ Distinct(DirsOf(all, answer))
<1>1. DOMAIN all = 1..Len(all) /\ Len(all) \in Nat /\ \A i \in DOMAIN all : all[i] \in Nat
  OBVIOUS
<1>2. ASSUME NEW I, I \subseteq DOMAIN all
      PROVE  LET r == Picked(all, I)
             IN /\ r \in Seq(Nat) /\ ToSet(r) = {all[i] : i \in I}
                /\ Distinct(all) => Distinct(r)
  <2> DEFINE r == Picked(all, I)
             at == Ranked(I)
  <2>1. /\ r \in Seq(Nat)
        /\ \A k \in DOMAIN r : at[k] \in I /\ r[k] = all[at[k]]
        /\ \A i \in I : \E k \in DOMAIN r : at[k] = i
        /\ \A k, l \in DOMAIN r : k < l => at[k] < at[l]
    BY <1>1, <1>2, PickedProperties
  <2> HIDE DEF r, at
  <2>2. ToSet(r) = {all[i] : i \in I}
    <3>1. ASSUME NEW x \in ToSet(r) PROVE x \in {all[i] : i \in I}
      <4>1. PICK k \in DOMAIN r : x = r[k]
        BY DEF ToSet
      <4>2. at[k] \in I /\ x = all[at[k]]
        BY <2>1, <4>1
      <4>3. QED
        BY <4>2
    <3>2. ASSUME NEW i \in I PROVE all[i] \in ToSet(r)
      <4>1. PICK k \in DOMAIN r : at[k] = i
        BY <2>1
      <4>2. r[k] = all[i]
        BY <2>1, <4>1
      <4>3. QED
        BY <4>2 DEF ToSet
    <3>3. QED
      BY <3>1, <3>2
  <2>3. ASSUME Distinct(all), NEW k \in DOMAIN r, NEW l \in DOMAIN r, r[k] = r[l], r[k] \in Handles
        PROVE  k = l
    <3>1. at[k] = at[l] /\ at[k] \in Nat
      BY <1>1, <1>2, <2>1, <2>3 DEF Distinct
    <3>2. k \in Nat /\ l \in Nat
      BY <2>1
    <3>3. ~(k < l) /\ ~(l < k)
      BY <1>1, <1>2, <2>1, <3>1
    <3>4. QED
      BY <3>2, <3>3
  <2>4. QED
    BY <2>1, <2>2, <2>3 DEF r, Distinct
<1> DEFINE I == {i \in DOMAIN all : all[i] \notin ToSet(answer)}
           J == {i \in DOMAIN all : all[i] \in ToSet(answer)}
<1>3. FilesOf(all, answer) = Picked(all, I) /\ DirsOf(all, answer) = Picked(all, J)
  BY DEF FilesOf, DirsOf
<1>4. /\ {all[i] : i \in I} = ToSet(all) \ ToSet(answer)
      /\ {all[i] : i \in J} = ToSet(all) \cap ToSet(answer)
      /\ I \subseteq DOMAIN all /\ J \subseteq DOMAIN all
  BY DEF ToSet
<1> HIDE DEF I, J
<1>5. /\ Picked(all, I) \in Seq(Nat) /\ ToSet(Picked(all, I)) = {all[i] : i \in I}
      /\ Distinct(all) => Distinct(Picked(all, I))
  BY <1>2, <1>4
<1>6. /\ Picked(all, J) \in Seq(Nat) /\ ToSet(Picked(all, J)) = {all[i] : i \in J}
      /\ Distinct(all) => Distinct(Picked(all, J))
  BY <1>2, <1>4
<1>7. QED
  BY <1>3, <1>4, <1>5, <1>6

LEMMA ListDirsDoes ==
    ASSUME TypeInv, ListDirs
    PROVE  /\ frames # <<>> /\ top.at = "dirs" /\ UNCHANGED <<camera, formatFilterWorks>>
           /\ failures' \in Nat
           /\ \E answer \in Seq(Nat) :
                 /\ found' = found \o FilesOf(top.all, answer)
                 /\ \E f \in FrameType :
                       /\ frames' = Descend(Set(f)) /\ f.sids = top.sids /\ f.at = top.at /\ f.all = top.all
                       /\ f.parent = top.parent /\ f.depth = top.depth
                       /\ f.dirs = DirsOf(top.all, answer)
                 /\ \/ missed' = missed \cup {top.parent}
                    \/ /\ missed' = missed
                       /\ answer = OfFormat(camera, Head(top.sids), top.parent, "dir")
<1>1. frames # <<>> /\ top.at = "dirs" /\ UNCHANGED <<camera, formatFilterWorks>>
  BY DEF ListDirs
<1>2. top \in FrameType /\ top.all \in Seq(Nat) /\ failures \in Nat
  BY <1>1, TopTypes DEF TypeInv, FrameType
<1> DEFINE dirs == OfFormat(camera, Head(top.sids), top.parent, "dir")
<1>3. dirs \in Seq(Nat) /\ <<>> \in Seq(Nat)
  <2>1. \A S \in SUBSET Handles : Answer(camera, Head(top.sids), top.parent, S) \in Seq(Nat)
    BY AnswerHas
  <2>2. camera.filter \in {"works", "ignored", "rejected"}
    BY DEF TypeInv, CameraType
  <2>3. QED
    BY <2>1, <2>2 DEF OfFormat, AllOf, Children
<1>4. PICK answer \in {dirs, <<>>} :
          /\ found' = found \o FilesOf(top.all, answer)
          /\ frames' = Descend(Set([top EXCEPT !.dirs = DirsOf(top.all, answer)]))
          /\ IF answer = dirs THEN Succeeds ELSE Fails(top.parent)
  BY DEF ListDirs
<1> HIDE DEF dirs
<1>5. answer \in Seq(Nat)
  BY <1>3
<1> DEFINE f == [top EXCEPT !.dirs = DirsOf(top.all, answer)]
<1>6. /\ f \in FrameType /\ f.sids = top.sids /\ f.at = top.at /\ f.all = top.all
      /\ f.parent = top.parent /\ f.depth = top.depth
      /\ f.dirs = DirsOf(top.all, answer)
  <2>1. DirsOf(top.all, answer) \in Seq(Nat)
    BY <1>2, <1>5, SortedOut
  <2>2. QED
    BY <1>2, <2>1 DEF FrameType
<1>7. frames' = Descend(Set(f))
  BY <1>4
<1> HIDE DEF f
<1>8. \E g \in FrameType :
          /\ frames' = Descend(Set(g)) /\ g.sids = top.sids /\ g.at = top.at /\ g.all = top.all
          /\ g.parent = top.parent /\ g.depth = top.depth
          /\ g.dirs = DirsOf(top.all, answer)
  BY <1>6, <1>7
<1>9. CASE answer = dirs
  <2>1. missed' = missed /\ failures' = failures
    BY <1>4, <1>9 DEF Succeeds
  <2>2. QED
    BY <1>1, <1>2, <1>4, <1>5, <1>8, <1>9, <2>1 DEF dirs
<1>10. CASE answer # dirs
  <2>1. missed' = missed \cup {top.parent} /\ failures' = failures + 1
    BY <1>4, <1>10 DEF Fails
  <2>2. QED
    BY <1>1, <1>2, <1>4, <1>5, <1>8, <2>1
<1>11. QED
  BY <1>9, <1>10

(* One object is asked what it is: found, a directory, nothing, or failed. *)
LEMMA AskInfoDoes ==
    ASSUME TypeInv, AskInfo
    PROVE  /\ frames # <<>> /\ top.at = "infos" /\ UNCHANGED <<camera, formatFilterWorks>>
           /\ failures' \in Nat
           /\ \E f \in FrameType :
                 /\ frames' = (IF f.all = <<>> THEN Descend(Set(f)) ELSE Set(f))
                 /\ f.sids = top.sids /\ f.at = top.at /\ f.all = Tail(top.all)
                 /\ f.parent = top.parent /\ f.depth = top.depth
                 /\ LET h == Head(top.all)
                    IN \/ /\ h \in Photos(camera) /\ missed' = missed
                          /\ found' = Append(found, h) /\ f.dirs = top.dirs
                       \/ /\ h \in Dirs(camera) /\ missed' = missed
                          /\ found' = found /\ f.dirs = Append(top.dirs, h)
                       \/ /\ h \notin Handles /\ missed' = missed
                          /\ found' = found /\ f.dirs = top.dirs
                       \/ /\ h \in Handles /\ missed' = missed \cup {h}
                          /\ found' = found /\ f.dirs = top.dirs
<1>1. frames # <<>> /\ top.at = "infos" /\ UNCHANGED <<camera, formatFilterWorks>>
  BY DEF AskInfo
<1>2. top \in FrameType /\ top.all # <<>> /\ failures \in Nat
  BY <1>1, TopTypes DEF TypeInv, TopOK
<1> DEFINE h == Head(top.all)
           f == [top EXCEPT !.all = Tail(@)]
           g == [f EXCEPT !.dirs = Append(@, h)]
<1>3. Tail(top.all) \in Seq(Nat) /\ h \in Nat
  BY <1>2 DEF FrameType
<1>4. /\ f \in FrameType /\ f.sids = top.sids /\ f.at = top.at /\ f.all = Tail(top.all)
      /\ f.parent = top.parent /\ f.depth = top.depth /\ f.dirs = top.dirs
  BY <1>2, <1>3 DEF FrameType
<1>5. \/ /\ h \in Photos(camera) /\ Succeeds /\ found' = Append(found, h)
         /\ frames' = IF f.all = <<>> THEN Descend(Set(f)) ELSE Set(f)
      \/ /\ h \in Dirs(camera) /\ Succeeds /\ found' = found
         /\ frames' = IF g.all = <<>> THEN Descend(Set(g)) ELSE Set(g)
      \/ /\ h \notin Handles /\ Succeeds /\ found' = found
         /\ frames' = IF f.all = <<>> THEN Descend(Set(f)) ELSE Set(f)
      \/ /\ h \in Handles /\ Fails(h) /\ found' = found
         /\ frames' = IF f.all = <<>> THEN Descend(Set(f)) ELSE Set(f)
  BY DEF AskInfo
<1> HIDE DEF f, h
<1>6. /\ g \in FrameType /\ g.sids = top.sids /\ g.at = top.at /\ g.all = Tail(top.all)
      /\ g.parent = top.parent /\ g.depth = top.depth /\ g.dirs = Append(top.dirs, h)
  <2>1. Append(f.dirs, h) \in Seq(Nat)
    BY <1>3, <1>4 DEF FrameType
  <2>2. QED
    BY <1>4, <2>1 DEF FrameType
<1> HIDE DEF g
<1>7. /\ Succeeds => missed' = missed /\ failures' \in Nat
      /\ Fails(h) => missed' = missed \cup {h} /\ failures' \in Nat
  BY <1>2 DEF Succeeds, Fails
<1>8. QED
  BY <1>1, <1>4, <1>5, <1>6, <1>7 DEF h
-----------------------------------------------------------------------------
LEMMA DescendTypes ==
    ASSUME NEW fs \in Seq(FrameType)
    PROVE  /\ Descend(fs) \in Seq(FrameType)
           /\ Descend(fs) # <<>> =>
                  /\ Last(Descend(fs)).at = "all" /\ Last(Descend(fs)).sids = storageIDs
                  /\ \A c, mode : TopOK(c, mode, Last(Descend(fs)))
<1> DEFINE gs == Descend(fs)
<1> HIDE DEF gs
<1>1. CASE gs = <<>>
  BY <1>1 DEF gs
<1>2. CASE gs # <<>>
  <2>1. PICK i \in DOMAIN fs :
            /\ fs[i].dirs # <<>> /\ gs \in Seq(FrameType)
            /\ Last(gs) = Frame(Head(fs[i].dirs), fs[i].depth + 1)
    BY <1>2, DescendDoes DEF gs
  <2>2. fs[i].dirs \in Seq(Nat) /\ fs[i].depth \in Nat
    <3>1. i \in 1..Len(fs)
      OBVIOUS
    <3>2. fs[i] \in FrameType
      BY <3>1, ElementOfSeq
    <3>3. QED
      BY <3>2 DEF FrameType
  <2>3. Head(fs[i].dirs) \in Nat /\ fs[i].depth + 1 \in Nat
    BY <2>1, <2>2
  <2>4. QED
    BY <2>1, <2>3, FrameTypes DEF gs
<1>3. QED
  BY <1>1, <1>2

LEMMA TypesFrom ==
    ASSUME TypeInv, camera' = camera, frames' \in Seq(FrameType), found' \in Seq(Nat),
           formatFilterWorks' \in {"unknown", "yes", "no"}, failures' \in Nat, missed' \subseteq Nat,
           frames' # <<>> => TopOK(camera, formatFilterWorks', Last(frames'))
    PROVE  TypeInv'
BY DEF TypeInv, top

LEMMA InitTypes == ASSUME Init PROVE TypeInv
<1>1. Frame(Root, 0) \in FrameType /\ \A c, mode : TopOK(c, mode, Frame(Root, 0))
  BY Constants, FrameTypes
<1> DEFINE f == Frame(Root, 0)
<1> HIDE DEF f
<1>2. frames = <<f>> /\ <<f>> \in Seq(FrameType) /\ Last(<<f>>) = f
  BY <1>1 DEF Init, f, Last
<1>3. QED
  BY <1>1, <1>2 DEF Init, TypeInv, f, top

LEMMA TypeStep == ASSUME TypeInv, [Next]_vars PROVE TypeInv'
<1>1. CASE ListAll
  <2>1. top \in FrameType
    BY <1>1, ListAllDoes, TopTypes
  <2>2. frames' \in Seq(FrameType) /\ (frames' # <<>> => TopOK(camera, formatFilterWorks, Last(frames')))
    <3>1. ASSUME NEW f \in FrameType, frames' = Set(f), Next1(f),
                 Accepts(camera, Head(top.sids), top.parent)
          PROVE  frames' \in Seq(FrameType) /\ TopOK(camera, formatFilterWorks, Last(frames'))
      <4>1. frames' \in Seq(FrameType) /\ Last(frames') = f
        BY <1>1, <3>1, ListAllDoes, SetDoes
      <4>2. f.all # <<>>
        <5>1. f.all = Answer(camera, Head(top.sids), top.parent, Children(camera, Head(top.sids), top.parent))
          BY <3>1 DEF Next1, AllOf
        <5>2. Children(camera, Head(top.sids), top.parent) \subseteq Handles
          BY DEF Children
        <5>3. QED
          BY <3>1, <5>1, <5>2, AnswerHas
      <4>3. top.sids # <<>> /\ top.dirs = <<>> /\ formatFilterWorks \in {"unknown", "yes", "no"}
        BY <1>1, ListAllDoes, TopTypes DEF TopOK, TypeInv
      <4>4. QED
        BY <3>1, <4>1, <4>2, <4>3 DEF TopOK, Next1
    <3>2. ASSUME NEW f \in FrameType, frames' = Set(f), Len(top.sids) > 1, f.sids = Tail(top.sids), f.at = "all",
                 f.dirs = top.dirs
          PROVE  frames' \in Seq(FrameType) /\ TopOK(camera, formatFilterWorks, Last(frames'))
      <4>1. frames' \in Seq(FrameType) /\ Last(frames') = f
        BY <1>1, <3>2, ListAllDoes, SetDoes
      <4>2. f.sids # <<>>
        <5>1. top.sids \in Seq(Nat)
          BY <2>1 DEF FrameType
        <5>2. Len(Tail(top.sids)) = Len(top.sids) - 1
          BY <3>2, <5>1
        <5>3. Len(Tail(top.sids)) > 0
          BY <3>2, <5>1, <5>2
        <5>4. Len(f.sids) > 0
          BY <3>2, <5>3
        <5>5. f.sids = <<>> => Len(f.sids) = 0
          OBVIOUS
        <5>6. QED
          BY <5>4, <5>5
      <4>3. top.dirs = <<>>
        BY <1>1, ListAllDoes, TopTypes DEF TopOK
      <4>4. QED
        BY <3>2, <4>1, <4>2, <4>3 DEF TopOK
    <3>3. CASE frames' = Descend(Front(frames))
      <4>1. Front(frames) \in Seq(FrameType)
        BY <1>1, ListAllDoes, TopTypes
      <4>2. QED
        BY <3>3, <4>1, DescendTypes
    <3>4. QED
      BY <1>1, <3>1, <3>2, <3>3, ListAllDoes
  <2>3. missed' \subseteq Nat
    BY <1>1, <2>1, ListAllDoes DEF TypeInv, FrameType
  <2>4. QED
    BY <1>1, <2>2, <2>3, ListAllDoes, TypesFrom DEF TypeInv
<1>2. CASE Probe
  <2>1. PICK f \in FrameType :
                 /\ frames' = Set(f) /\ f.sids = top.sids /\ f.parent = top.parent /\ f.all = top.all
                 /\ f.at = (IF formatFilterWorks' = "yes" THEN "dirs" ELSE "infos") /\ f.dirs = top.dirs
    BY <1>2, ProbeDoes
  <2>2. frames # <<>> /\ top.at = "probe"
    BY <1>2, ProbeDoes
  <2>3. frames' \in Seq(FrameType) /\ Last(frames') = f
    BY <2>1, <2>2, SetDoes
  <2>4. TopOK(camera, formatFilterWorks', f)
    <3>1. TopOK(camera, formatFilterWorks, top)
      BY <2>2, TopTypes
    <3>2. formatFilterWorks' \in {"yes", "no"}
      BY <1>2, ProbeDoes
    <3>3. QED
      BY <2>1, <2>2, <3>1, <3>2 DEF TopOK
  <2>5. missed' \subseteq Nat
    BY <1>2, ProbeDoes, Constants DEF TypeInv
  <2>6. QED
    BY <1>2, <2>3, <2>4, <2>5, ProbeDoes, TypesFrom DEF TypeInv
<1>3. CASE ListDirs
  <2>1. PICK answer \in Seq(Nat) :
                 /\ found' = found \o FilesOf(top.all, answer)
                 /\ \E f \in FrameType : frames' = Descend(Set(f))
                 /\ missed' = missed \cup {top.parent} \/ missed' = missed
    BY <1>3, ListDirsDoes
  <2>2. frames # <<>> /\ top \in FrameType
    BY <1>3, ListDirsDoes, TopTypes
  <2>3. frames' \in Seq(FrameType) /\ (frames' # <<>> => TopOK(camera, formatFilterWorks, Last(frames')))
    BY <2>1, <2>2, SetDoes, DescendTypes
  <2>4. found' \in Seq(Nat) /\ missed' \subseteq Nat
    <3>1. top.all \in Seq(Nat) /\ top.parent \in Nat
      BY <2>2 DEF FrameType
    <3>2. FilesOf(top.all, answer) \in Seq(Nat)
      BY <3>1, SortedOut
    <3>3. found \in Seq(Nat) /\ missed \subseteq Nat
      BY DEF TypeInv
    <3>4. found \o FilesOf(top.all, answer) \in Seq(Nat)
      BY <3>2, <3>3, ConcatProperties
    <3>5. QED
      BY <2>1, <3>1, <3>3, <3>4
  <2>5. QED
    BY <1>3, <2>3, <2>4, ListDirsDoes, TypesFrom DEF TypeInv
<1>4. CASE AskInfo
  <2>1. frames # <<>> /\ top \in FrameType /\ top.at = "infos" /\ top.all # <<>>
    BY <1>4, AskInfoDoes, TopTypes DEF TopOK
  <2>2. PICK f \in FrameType :
                 /\ frames' = (IF f.all = <<>> THEN Descend(Set(f)) ELSE Set(f))
                 /\ f.sids = top.sids /\ f.at = top.at
    BY <1>4, AskInfoDoes
  <2>3. frames' \in Seq(FrameType) /\ (frames' # <<>> => TopOK(camera, formatFilterWorks, Last(frames')))
    <3>1. Set(f) \in Seq(FrameType) /\ Last(Set(f)) = f
      BY <2>1, SetDoes
    <3>2. formatFilterWorks = "no"
      BY <2>1, TopTypes DEF TopOK
    <3>3. CASE f.all = <<>>
      BY <2>2, <3>1, <3>3, DescendTypes
    <3>4. CASE f.all # <<>>
      BY <2>1, <2>2, <3>1, <3>2, <3>4 DEF TopOK
    <3>5. QED
      BY <3>3, <3>4
  <2>4. found' \in Seq(Nat) /\ missed' \subseteq Nat
    <3>1. Head(top.all) \in Nat /\ found \in Seq(Nat) /\ missed \subseteq Nat
      <4>1. top.all \in Seq(Nat)
        BY <2>1 DEF FrameType
      <4>2. QED
        BY <2>1, <4>1 DEF TypeInv
    <3>2. Append(found, Head(top.all)) \in Seq(Nat)
      BY <3>1
    <3>3. QED
      BY <1>4, <3>1, <3>2, AskInfoDoes
  <2>5. QED
    BY <1>4, <2>3, <2>4, AskInfoDoes, TypesFrom DEF TypeInv
<1>5. CASE UNCHANGED vars
  BY <1>5 DEF vars, TypeInv, top
<1>6. QED
  BY <1>1, <1>2, <1>3, <1>4, <1>5 DEF Next
-----------------------------------------------------------------------------
(* Failures are local.                                                     *)
Local == Root \notin missed /\ camera.filter # "rejected"

(* A filter is relied on only where the camera has one.                    *)
ModeInv == formatFilterWorks = "yes" /\ Local => camera.filter = "works"

LEMMA ModeStep == ASSUME TypeInv, ModeInv, [Next]_vars PROVE ModeInv'
<1>1. camera.filter \in {"works", "ignored", "rejected"}
  BY DEF TypeInv, CameraType
<1>2. CASE Probe
  <2>1. camera' = camera /\ frames # <<>> /\ top.at = "probe"
    BY <1>2, ProbeDoes
  <2>2. SUFFICES ASSUME formatFilterWorks' = "yes", Local' PROVE camera.filter = "works"
    BY <2>1 DEF ModeInv
  <2>3. Len(OfFormat(camera, Head(top.sids), top.parent, "jpeg")) < Len(top.all)
    BY <1>2, <2>2, ProbeDoes DEF Local
  <2>4. top.all = AllOf(camera, Head(top.sids), top.parent) /\ Len(top.all) \in Nat
    BY <2>1, TopTypes DEF TopOK, FrameType
  <2>5. CASE camera.filter = "ignored"
    <3>1. OfFormat(camera, Head(top.sids), top.parent, "jpeg") = top.all
      BY <2>4, <2>5 DEF OfFormat
    <3>2. QED
      BY <2>3, <2>4, <3>1
  <2>6. QED
    BY <1>1, <2>1, <2>2, <2>5 DEF Local
<1>3. CASE ListAll \/ ListDirs \/ AskInfo
  <2>1. camera' = camera /\ formatFilterWorks' = formatFilterWorks /\ missed \subseteq missed'
    <3>1. CASE ListAll
      BY <3>1, ListAllDoes
    <3>2. CASE ListDirs
      BY <3>2, ListDirsDoes
    <3>3. CASE AskInfo
      BY <3>3, AskInfoDoes
    <3>4. QED
      BY <1>3, <3>1, <3>2, <3>3
  <2>2. QED
    BY <2>1 DEF ModeInv, Local
<1>4. CASE UNCHANGED vars
  BY <1>4 DEF vars, ModeInv, Local
<1>5. QED
  BY <1>2, <1>3, <1>4 DEF Next

(* How deep the directory is that lists c.                                 *)
Level(c) == Cardinality(Path(c)) - 1

(* A directory on the way to h is to be gone to; the innermost call will   *)
(* list it, or has.                                                        *)
Waiting(fs, h) == \E c \in Path(h) \ {h}, i \in DOMAIN fs :
                      c \in ToSet(fs[i].dirs) /\ fs[i].depth = Level(c)
Doing(f, h) == \E c \in Path(h) :
                   /\ f.depth = Level(c) /\ f.parent = Up(c)
                   /\ IF f.at = "all" THEN f.sids \in {storageIDs, Tail(storageIDs)} ELSE c \in ToSet(f.all)
Owes(fs, h) == Waiting(fs, h) \/ (fs # <<>> /\ Doing(Last(fs), h))

LocalInv == Local => \A h \in Due : Path(h) \cap missed = {} => h \in ToSet(found) \/ Owes(frames, h)

LEMMA DueIs ==
    ASSUME camera \in CameraType, NEW h \in Due
    PROVE  /\ h \in Handles /\ h \in Photos(camera) /\ h \notin Dirs(camera)
           /\ camera.objects[h].card = FirstCard
           /\ Path(h) \subseteq Handles
           /\ \A c \in Path(h) :
                 /\ Level(c) \in Nat /\ camera.objects[c].card = FirstCard
                 /\ c # h => c \in Dirs(camera) /\ Level(c) < MaxDepth
                 /\ c \in Photos(camera) => c = h
                 /\ Up(c) # Root => Up(c) \in Path(h)
           /\ \A c \in Path(h) \ {h} : \E d \in Path(h) : Up(d) = c /\ Level(d) = Level(c) + 1
<1>1. /\ h \in Handles /\ h \in Photos(camera) /\ camera.objects[h].card = FirstCard
      /\ Cardinality(Path(h)) <= MaxDepth + 1
  BY DEF Due, Photos
<1>2. h \notin Dirs(camera)
  BY <1>1 DEF Photos
<1>3. Path(h) \subseteq Handles /\ \A c \in Path(h) : Up(c) # Root => Up(c) \in Path(h)
  BY <1>1, PathIs, PathClosed DEF Closed
<1>4. ASSUME NEW c \in Path(h) PROVE Cardinality(Path(c)) \in Nat /\ Cardinality(Path(c)) >= 1
  <2>1. c \in Handles
    BY <1>3
  <2>2. Cardinality(Path(c)) \in Nat
    BY <2>1, PathStep
  <2>3. Path(c) # {} /\ IsFiniteSet(Path(c))
    BY <2>1, PathClosed
  <2>4. Cardinality(Path(c)) # 0
    BY <2>3, FS_EmptySet
  <2>5. QED
    BY <2>2, <2>4
<1>5. ASSUME NEW c \in Path(h) \ {h}
      PROVE  c \in Dirs(camera) /\ Level(c) < MaxDepth
  <2>1. /\ c \in Dirs(camera) /\ Cardinality(Path(c)) < Cardinality(Path(h))
    BY <1>1, WayDown
  <2>2. Cardinality(Path(c)) \in Nat /\ Cardinality(Path(h)) \in Nat /\ MaxDepth \in Nat
    BY <1>1, <1>4, PathStep, Constants
  <2>3. Cardinality(Path(c)) - 1 < MaxDepth
    BY <1>1, <2>1, <2>2
  <2>4. QED
    BY <2>1, <2>3 DEF Level
<1>6. ASSUME NEW c \in Path(h) \ {h}
      PROVE  \E d \in Path(h) : Up(d) = c /\ Level(d) = Level(c) + 1
  <2>1. PICK d \in Path(h) : Up(d) = c
    BY <1>1, WayDown
  <2>2. c # Root /\ d \in Handles
    BY <1>3, Constants
  <2>3. Cardinality(Path(d)) = Cardinality(Path(c)) + 1
    BY <2>1, <2>2, PathStep
  <2>4. Level(d) = Level(c) + 1
    BY <1>4, <2>3 DEF Level
  <2>5. QED
    BY <2>1, <2>4
<1>7. \A c \in Path(h) : camera.objects[c].card = FirstCard
  BY <1>1, WayDown
<1>8. \A c \in Path(h) : Level(c) \in Nat
  BY <1>4 DEF Level
<1>9. \A c \in Path(h) : c \in Photos(camera) => c = h
  BY <1>5 DEF Photos
<1>10. QED
  BY <1>1, <1>2, <1>3, <1>5, <1>6, <1>7, <1>8, <1>9

LEMMA HeadAndTail ==
    ASSUME NEW S, NEW s \in Seq(S), s # <<>>
    PROVE  /\ Head(s) \in S /\ Tail(s) \in Seq(S) /\ Head(s) = s[1] /\ 1 \in DOMAIN s
           /\ Len(Tail(s)) = Len(s) - 1 /\ DOMAIN s = 1..Len(s) /\ DOMAIN Tail(s) = 1..(Len(s) - 1)
           /\ \A k \in DOMAIN Tail(s) : k + 1 \in DOMAIN s /\ Tail(s)[k] = s[k + 1]
           /\ ToSet(s) = {Head(s)} \cup ToSet(Tail(s))
<1> DEFINE t == Tail(s)
<1>1. /\ Head(s) \in S /\ t \in Seq(S) /\ Head(s) = s[1] /\ Len(s) \in Nat /\ Len(s) >= 1
      /\ Len(t) = Len(s) - 1 /\ DOMAIN s = 1..Len(s) /\ DOMAIN t = 1..(Len(s) - 1)
      /\ \A k \in 1..(Len(s) - 1) : t[k] = s[k + 1]
  BY HeadTailProperties, LenProperties
<1> HIDE DEF t
<1>2. \A k \in DOMAIN t : k + 1 \in DOMAIN s /\ t[k] = s[k + 1]
  BY <1>1
<1>3. ASSUME NEW x \in ToSet(s) PROVE x \in {Head(s)} \cup ToSet(t)
  <2>1. PICK k \in DOMAIN s : x = s[k]
    BY DEF ToSet
  <2>2. CASE k = 1
    BY <1>1, <2>1, <2>2
  <2>3. CASE k # 1
    <3>1. k - 1 \in DOMAIN t /\ t[k - 1] = s[k - 1 + 1] /\ k - 1 + 1 = k
      BY <1>1, <2>3
    <3>2. QED
      BY <2>1, <3>1 DEF ToSet
  <2>4. QED
    BY <2>2, <2>3
<1>4. 1 \in DOMAIN s
  BY <1>1
<1>5. ASSUME NEW x \in {Head(s)} \cup ToSet(t) PROVE x \in ToSet(s)
  BY <1>1, <1>2, <1>4 DEF ToSet
<1>6. QED
  BY <1>1, <1>2, <1>3, <1>4, <1>5 DEF t

LEMMA DescendOwes ==
    ASSUME camera \in CameraType, NEW fs \in Seq(FrameType), NEW h \in Due, Waiting(fs, h)
    PROVE  Owes(Descend(fs), h)
<1> DEFINE gs == Descend(fs)
<1>1. PICK c \in Path(h) \ {h}, i \in DOMAIN fs : c \in ToSet(fs[i].dirs) /\ fs[i].depth = Level(c)
  BY DEF Waiting
<1>2. /\ c \in Handles /\ Level(c) \in Nat /\ Level(c) < MaxDepth
      /\ \E d \in Path(h) : Up(d) = c /\ Level(d) = Level(c) + 1
  BY DueIs
<1>3. /\ DOMAIN fs = 1..Len(fs) /\ Len(fs) \in Nat
      /\ \A k \in DOMAIN fs : fs[k] \in FrameType /\ fs[k].dirs \in Seq(Nat)
  <2>1. DOMAIN fs = 1..Len(fs) /\ Len(fs) \in Nat /\ \A k \in DOMAIN fs : fs[k] \in FrameType
    BY ElementOfSeq
  <2>2. QED
    BY <2>1 DEF FrameType
<1>4. fs[i].dirs # <<>> /\ ~(fs[i].depth >= MaxDepth)
  <2>1. fs[i].dirs # <<>>
    BY <1>1 DEF ToSet
  <2>2. QED
    BY <1>1, <1>2, <2>1, Constants
<1> HIDE DEF gs
<1>5. PICK j \in DOMAIN fs :
          /\ fs[j].dirs # <<>> /\ fs[j].depth < MaxDepth
          /\ \A k \in DOMAIN fs : k > j => fs[k].dirs = <<>> \/ fs[k].depth >= MaxDepth
          /\ gs \in Seq(FrameType) /\ Len(gs) = j + 1 /\ gs # <<>>
          /\ \A k \in 1..(j - 1) : gs[k] = fs[k]
          /\ gs[j] = [fs[j] EXCEPT !.dirs = Tail(@)]
          /\ Last(gs) = Frame(Head(fs[j].dirs), fs[j].depth + 1)
  BY <1>1, <1>4, DescendDoes DEF gs
<1>6. i \in Nat /\ j \in Nat /\ i >= 1 /\ i <= j /\ 1..(j + 1) = DOMAIN gs
  <2>1. i \in Nat /\ j \in Nat /\ i >= 1 /\ ~(i > j)
    BY <1>1, <1>3, <1>4, <1>5
  <2>2. DOMAIN gs = 1..(j + 1)
    BY <1>5, <2>1
  <2>3. QED
    BY <2>1, <2>2
<1>7. CASE i # j
  <2>1. gs[i] = fs[i] /\ i \in DOMAIN gs
    BY <1>5, <1>6, <1>7
  <2>2. QED
    BY <1>1, <2>1 DEF Owes, Waiting, gs
<1>8. CASE i = j /\ c = Head(fs[j].dirs)
  <2>1. PICK d \in Path(h) : Up(d) = c /\ Level(d) = Level(c) + 1
    BY <1>2
  <2>2. /\ Last(gs).at = "all" /\ Last(gs).sids = storageIDs
        /\ Last(gs).parent = c /\ Last(gs).depth = Level(c) + 1
    BY <1>1, <1>5, <1>8 DEF Frame
  <2>3. Doing(Last(gs), h)
    BY <2>1, <2>2 DEF Doing
  <2>4. QED
    BY <1>5, <2>3 DEF Owes, gs
<1>9. CASE i = j /\ c # Head(fs[j].dirs)
  <2>1. c \in ToSet(Tail(fs[j].dirs))
    BY <1>1, <1>3, <1>5, <1>9, HeadAndTail
  <2>2. gs[j].dirs = Tail(fs[j].dirs) /\ gs[j].depth = fs[j].depth
    BY <1>3, <1>5 DEF FrameType
  <2>3. j \in DOMAIN gs
    BY <1>6
  <2>4. QED
    BY <1>1, <1>9, <2>1, <2>2, <2>3 DEF Owes, Waiting, gs
<1>10. QED
  BY <1>7, <1>8, <1>9

(* What waits below the innermost call, and in it if it keeps it, waits    *)
(* when the innermost call has gone on or returned.                        *)
LEMMA StillWaits ==
    ASSUME TypeInv, frames # <<>>, NEW h, Waiting(frames, h)
    PROVE  /\ \A f \in FrameType : ToSet(top.dirs) \subseteq ToSet(f.dirs) /\ f.depth = top.depth =>
                  Waiting(Set(f), h)
           /\ top.at # "infos" => Waiting(Front(frames), h) /\ \A f \in FrameType : Waiting(Set(f), h)
<1>1. PICK c \in Path(h) \ {h}, i \in DOMAIN frames :
          c \in ToSet(frames[i].dirs) /\ frames[i].depth = Level(c)
  BY DEF Waiting
<1>2. /\ top = frames[Len(frames)] /\ Len(frames) \in Nat /\ DOMAIN frames = 1..Len(frames)
      /\ DOMAIN Front(frames) = 1..(Len(frames) - 1)
      /\ \A k \in DOMAIN Front(frames) : Front(frames)[k] = frames[k]
  BY TopTypes
<1>3. ASSUME NEW f \in FrameType, ToSet(top.dirs) \subseteq ToSet(f.dirs) /\ f.depth = top.depth
      PROVE  Waiting(Set(f), h)
  <2>1. /\ DOMAIN Set(f) = DOMAIN frames /\ Set(f)[Len(frames)] = f
        /\ i # Len(frames) => Set(f)[i] = frames[i]
    BY SetDoes
  <2>2. CASE i = Len(frames)
    BY <1>1, <1>2, <1>3, <2>1, <2>2 DEF Waiting
  <2>3. CASE i # Len(frames)
    BY <1>1, <2>1, <2>3 DEF Waiting
  <2>4. QED
    BY <2>2, <2>3
<1>4. ASSUME top.at # "infos" PROVE Waiting(Front(frames), h) /\ \A f \in FrameType : Waiting(Set(f), h)
  <2>1. ToSet(top.dirs) = {}
    BY <1>4, TopTypes DEF TopOK, ToSet
  <2>2. i # Len(frames)
    BY <1>1, <1>2, <2>1
  <2>3. i \in DOMAIN Front(frames)
    BY <1>2, <2>2
  <2>4. Waiting(Front(frames), h)
    BY <1>1, <1>2, <2>3 DEF Waiting
  <2>5. ASSUME NEW f \in FrameType PROVE Waiting(Set(f), h)
    <3>1. DOMAIN Set(f) = DOMAIN frames /\ Set(f)[i] = frames[i]
      BY <2>2, SetDoes
    <3>2. QED
      BY <1>1, <3>1 DEF Waiting
  <2>6. QED
    BY <2>4, <2>5
<1>5. QED
  BY <1>3, <1>4

LEMMA SameTree ==
    ASSUME camera' = camera
    PROVE  /\ Due' = Due /\ \A h : Path(h)' = Path(h)
           /\ \A h : Owes(frames, h)' <=> Owes(frames', h)
<1>1. \A h : Path(h)' = Path(h)
  BY DEF Path
<1>2. \A h : Up(h)' = Up(h) /\ Level(h)' = Level(h)
  BY <1>1 DEF Up, Level
<1>3. Due' = Due
  BY <1>1 DEF Due, Photos, Dirs
<1>4. storageIDs' = storageIDs
  BY DEF storageIDs, ParseU32Array, U32Array
<1>5. \A h : Owes(frames, h)' <=> Owes(frames', h)
  BY <1>1, <1>2, <1>4 DEF Owes, Waiting, Doing
<1>6. QED
  BY <1>1, <1>3, <1>5

LEMMA ToSetConcat ==
    ASSUME NEW S, NEW s \in Seq(S), NEW t \in Seq(S)
    PROVE  s \o t \in Seq(S) /\ ToSet(s \o t) = ToSet(s) \cup ToSet(t)
<1> DEFINE r == s \o t
<1>1. /\ r \in Seq(S) /\ Len(s) \in Nat /\ Len(t) \in Nat /\ Len(r) = Len(s) + Len(t)
      /\ DOMAIN s = 1..Len(s) /\ DOMAIN t = 1..Len(t) /\ DOMAIN r = 1..(Len(s) + Len(t))
      /\ \A i \in 1..(Len(s) + Len(t)) : r[i] = IF i <= Len(s) THEN s[i] ELSE t[i - Len(s)]
  BY ConcatProperties, LenProperties
<1> HIDE DEF r
<1>2. ASSUME NEW x \in ToSet(r) PROVE x \in ToSet(s) \cup ToSet(t)
  <2>1. PICK i \in DOMAIN r : x = r[i]
    BY DEF ToSet
  <2>2. CASE i <= Len(s)
    <3>1. i \in DOMAIN s /\ x = s[i]
      BY <1>1, <2>1, <2>2
    <3>2. QED
      BY <3>1 DEF ToSet
  <2>3. CASE ~(i <= Len(s))
    <3>1. i - Len(s) \in DOMAIN t /\ x = t[i - Len(s)]
      BY <1>1, <2>1, <2>3
    <3>2. QED
      BY <3>1 DEF ToSet
  <2>4. QED
    BY <2>2, <2>3
<1>3. ASSUME NEW x \in ToSet(s) PROVE x \in ToSet(r)
  <2>1. PICK i \in DOMAIN s : x = s[i]
    BY DEF ToSet
  <2>2. i \in DOMAIN r /\ r[i] = x
    BY <1>1, <2>1
  <2>3. QED
    BY <2>2 DEF ToSet
<1>4. ASSUME NEW x \in ToSet(t) PROVE x \in ToSet(r)
  <2>1. PICK i \in DOMAIN t : x = t[i]
    BY DEF ToSet
  <2>2. Len(s) + i \in DOMAIN r /\ ~(Len(s) + i <= Len(s)) /\ Len(s) + i - Len(s) = i
    BY <1>1, <2>1
  <2>3. r[Len(s) + i] = x
    BY <1>1, <2>1, <2>2
  <2>4. QED
    BY <2>2, <2>3 DEF ToSet
<1>5. QED
  BY <1>1, <1>2, <1>3, <1>4 DEF r

(* The innermost call was to list or sort out a directory on the way to h, *)
(* and did not fail.                                                       *)
LEMMA NotMissed ==
    ASSUME camera \in CameraType, NEW h \in Due, NEW c \in Path(h), NEW missing,
           Root \notin missing, Path(h) \cap missing = {}
    PROVE  Up(c) \notin missing /\ c \notin missing
BY DueIs

LEMMA FirstCardAccepts ==
    ASSUME camera \in CameraType, NEW h \in Due, NEW c \in Path(h)
    PROVE  Accepts(camera, FirstCard, Up(c)) /\ c \in Children(camera, FirstCard, Up(c))
<1>1. c \in Handles /\ camera.objects[c].card = FirstCard /\ FirstCard \in Cards
  BY DueIs, StoragesAre
<1>2. Up(c) = Root \/ (Up(c) \in Dirs(camera) /\ camera.objects[Up(c)].card = FirstCard)
  BY <1>1, CameraHas
<1>3. QED
  BY <1>1, <1>2 DEF Accepts, Children, Up

LEMMA LocalListAll ==
    ASSUME TypeInv, ListAll, NEW h \in Due, Root \notin missed', Path(h) \cap missed' = {}, Owes(frames, h)
    PROVE  Owes(frames', h)
<1>1. frames # <<>> /\ top.at = "all" /\ top \in FrameType /\ camera \in CameraType /\ camera' = camera
  BY ListAllDoes, TopTypes DEF TypeInv
<1>2. CASE Waiting(frames, h)
  <2>1. /\ Waiting(Front(frames), h) /\ \A f \in FrameType : Waiting(Set(f), h)
        /\ Front(frames) \in Seq(FrameType)
    BY <1>1, <1>2, StillWaits, TopTypes
  <2>2. Owes(Descend(Front(frames)), h)
    BY <1>1, <2>1, DescendOwes
  <2>3. \A f \in FrameType : Owes(Set(f), h)
    BY <2>1 DEF Owes
  <2>4. frames' = Descend(Front(frames)) \/ \E f \in FrameType : frames' = Set(f)
    BY ListAllDoes
  <2>5. QED
    BY <2>2, <2>3, <2>4
<1>3. CASE Doing(top, h)
  <2>1. PICK c \in Path(h) : /\ top.depth = Level(c) /\ top.parent = Up(c)
                             /\ top.sids \in {storageIDs, Tail(storageIDs)}
    BY <1>1, <1>3 DEF Doing
  <2>2. /\ storageIDs \in Seq(Nat) /\ Len(storageIDs) >= 2 /\ Head(storageIDs) \notin Cards
        /\ Head(Tail(storageIDs)) = FirstCard /\ FirstCard \in Cards
    BY StoragesAre
  <2> HIDE DEF storageIDs
  <2>3. missed' # missed \cup {top.parent}
    BY <1>1, <2>1, NotMissed
  <2>4. CASE Accepts(camera, Head(top.sids), top.parent)
    <3>1. Head(top.sids) = FirstCard
      BY <2>1, <2>2, <2>4 DEF Accepts
    <3>2. PICK f \in FrameType : frames' = Set(f) /\ Next1(f)
      BY <2>3, <2>4, ListAllDoes
    <3>3. c \in ToSet(f.all)
      <4>1. f.all = Answer(camera, FirstCard, top.parent, Children(camera, FirstCard, top.parent))
        BY <3>1, <3>2 DEF Next1, AllOf
      <4>2. Children(camera, FirstCard, top.parent) \subseteq Handles
        BY DEF Children
      <4>3. ToSet(f.all) = Children(camera, FirstCard, top.parent)
                             \cup {Cardinality(Children(camera, FirstCard, top.parent))}
        BY <2>4, <3>1, <4>1, <4>2, AnswerHas
      <4>4. QED
        BY <1>1, <2>1, <4>3, FirstCardAccepts
    <3>4. f.at # "all" /\ f.depth = Level(c) /\ f.parent = Up(c)
      BY <2>1, <3>2 DEF Next1, TypeInv
    <3>5. Last(frames') = f /\ frames' # <<>>
      BY <1>1, <3>2, SetDoes
    <3>6. Doing(f, h)
      BY <3>3, <3>4 DEF Doing
    <3>7. QED
      BY <3>5, <3>6 DEF Owes
  <2>5. CASE ~Accepts(camera, Head(top.sids), top.parent)
    <3>1. Head(top.sids) # FirstCard
      BY <1>1, <2>1, <2>5, FirstCardAccepts
    <3>2. top.sids = storageIDs /\ Len(top.sids) > 1
      BY <2>1, <2>2, <3>1
    <3>3. PICK f \in FrameType :
             /\ frames' = Set(f) /\ f.sids = Tail(top.sids) /\ f.at = "all"
             /\ f.parent = top.parent /\ f.depth = top.depth
      BY <2>5, <3>2, ListAllDoes
    <3>4. Last(frames') = f /\ frames' # <<>>
      BY <1>1, <3>3, SetDoes
    <3>5. Doing(f, h)
      BY <2>1, <3>2, <3>3 DEF Doing
    <3>6. QED
      BY <3>4, <3>5 DEF Owes
  <2>6. QED
    BY <2>4, <2>5
<1>4. QED
  BY <1>1, <1>2, <1>3 DEF Owes, top

LEMMA LocalProbe ==
    ASSUME TypeInv, Probe, NEW h \in Due, Owes(frames, h)
    PROVE  Owes(frames', h)
<1>1. frames # <<>> /\ top.at = "probe" /\ top \in FrameType
  BY ProbeDoes, TopTypes
<1>2. PICK f \in FrameType :
                 /\ frames' = Set(f) /\ f.parent = top.parent /\ f.depth = top.depth
                 /\ f.dirs = top.dirs /\ f.all = top.all
                 /\ f.at \in {"dirs", "infos"}
  BY ProbeDoes
<1>3. Last(frames') = f /\ frames' # <<>>
  BY <1>1, <1>2, SetDoes
<1>4. CASE Waiting(frames, h)
  BY <1>1, <1>2, <1>4, StillWaits DEF Owes
<1>5. CASE Doing(top, h)
  <2>1. Doing(f, h)
    BY <1>1, <1>2, <1>5 DEF Doing
  <2>2. QED
    BY <1>3, <2>1 DEF Owes
<1>6. QED
  BY <1>1, <1>4, <1>5 DEF Owes, top

LEMMA LocalListDirs ==
    ASSUME TypeInv, ModeInv, Local', ListDirs, NEW h \in Due, Path(h) \cap missed' = {}, Owes(frames, h)
    PROVE  h \in ToSet(found') \/ Owes(frames', h)
<1>1. /\ frames # <<>> /\ top.at = "dirs" /\ top \in FrameType /\ camera \in CameraType
      /\ camera' = camera /\ TopOK(camera, formatFilterWorks, top) /\ found \in Seq(Nat)
      /\ top.all \in Seq(Nat)
  BY ListDirsDoes, TopTypes DEF TypeInv, FrameType
<1>2. PICK answer \in Seq(Nat), f \in FrameType :
                 /\ found' = found \o FilesOf(top.all, answer)
                 /\ frames' = Descend(Set(f)) /\ f.depth = top.depth
                 /\ f.dirs = DirsOf(top.all, answer)
                 /\ \/ missed' = missed \cup {top.parent}
                    \/ /\ missed' = missed
                       /\ answer = OfFormat(camera, Head(top.sids), top.parent, "dir")
  BY ListDirsDoes
<1>3. Set(f) \in Seq(FrameType)
  BY <1>1, SetDoes
<1>4. CASE Waiting(frames, h)
  <2>1. Waiting(Set(f), h)
    BY <1>1, <1>4, StillWaits
  <2>2. QED
    BY <1>1, <1>2, <1>3, <2>1, DescendOwes
<1>5. CASE Doing(top, h)
  <2>1. PICK c \in Path(h) : top.depth = Level(c) /\ top.parent = Up(c) /\ c \in ToSet(top.all)
    BY <1>1, <1>5 DEF Doing
  <2>2. Root \notin missed'
    BY DEF Local
  <2>3. missed' = missed /\ answer = OfFormat(camera, Head(top.sids), top.parent, "dir")
    BY <1>1, <1>2, <2>1, <2>2, NotMissed
  <2>4. camera.filter = "works"
    BY <1>1, <2>3 DEF TopOK, ModeInv, Local
  <2> DEFINE sid == Head(top.sids)
             all == Children(camera, sid, top.parent)
             S == {x \in all : camera.objects[x].kind = "dir"}
  <2>5. /\ answer = Answer(camera, sid, top.parent, S) /\ top.all = Answer(camera, sid, top.parent, all)
        /\ all \subseteq Handles /\ S \subseteq Handles /\ top.all # <<>>
    BY <1>1, <2>3, <2>4 DEF OfFormat, TopOK, AllOf, Children
  <2>6. c \in Handles
    BY <1>1, DueIs
  <2>7. Accepts(camera, sid, top.parent)
    BY <2>5, AnswerHas
  <2>8. c \in all /\ ToSet(answer) = S \cup {Cardinality(S)} /\ Cardinality(S) \notin Handles
    <3> HIDE DEF all, S, sid
    <3>1. ToSet(top.all) = all \cup {Cardinality(all)} /\ ToSet(answer) = S \cup {Cardinality(S)}
      BY <2>5, <2>7, AnswerHas
    <3>2. Cardinality(S) \notin Handles /\ Cardinality(all) \notin Handles
      BY <2>5, CountApart
    <3>3. QED
      BY <2>1, <2>6, <3>1, <3>2
  <2>9. FilesOf(top.all, answer) \in Seq(Nat)
        /\ ToSet(FilesOf(top.all, answer)) = ToSet(top.all) \ ToSet(answer)
        /\ ToSet(DirsOf(top.all, answer)) = ToSet(top.all) \cap ToSet(answer)
    BY <1>1, SortedOut
  <2>10. CASE c = h
    <3>1. c \notin ToSet(answer)
      <4>1. h \notin Dirs(camera)
        BY <1>1, DueIs
      <4>2. QED
        BY <2>6, <2>8, <2>10, <4>1 DEF Dirs
    <3>2. h \in ToSet(FilesOf(top.all, answer))
      BY <2>1, <2>9, <2>10, <3>1
    <3>3. h \in ToSet(found')
      BY <1>1, <1>2, <2>9, <3>2, ToSetConcat
    <3>4. QED
      BY <3>3
  <2>11. CASE c # h
    <3>1. c \in Dirs(camera)
      BY <1>1, <2>11, DueIs
    <3>2. c \in ToSet(f.dirs)
      BY <1>2, <2>1, <2>8, <2>9, <3>1 DEF Dirs
    <3>3. Waiting(Set(f), h)
      <4>1. Len(frames) \in DOMAIN Set(f) /\ Set(f)[Len(frames)] = f
        BY <1>1, SetDoes
      <4>2. QED
        BY <1>2, <2>1, <2>11, <3>2, <4>1 DEF Waiting
    <3>4. QED
      BY <1>1, <1>2, <1>3, <3>3, DescendOwes
  <2>12. QED
    BY <2>10, <2>11
<1>6. QED
  BY <1>1, <1>4, <1>5 DEF Owes, top

LEMMA LocalAskInfo ==
    ASSUME TypeInv, Local', AskInfo, NEW h \in Due, Path(h) \cap missed' = {}, Owes(frames, h)
    PROVE  h \in ToSet(found') \/ Owes(frames', h)
<1> DEFINE x == Head(top.all)
<1>1. /\ frames # <<>> /\ top.at = "infos" /\ top \in FrameType /\ camera \in CameraType
      /\ top.all \in Seq(Nat) /\ top.all # <<>> /\ top.dirs \in Seq(Nat) /\ found \in Seq(Nat)
      /\ camera' = camera
  BY AskInfoDoes, TopTypes DEF TypeInv, FrameType, TopOK
<1>2. x \in Nat /\ ToSet(top.all) = {x} \cup ToSet(Tail(top.all))
  BY <1>1, HeadAndTail
<1> HIDE DEF x
<1>3. PICK f \in FrameType :
         /\ frames' = (IF f.all = <<>> THEN Descend(Set(f)) ELSE Set(f))
         /\ f.at = top.at /\ f.all = Tail(top.all)
         /\ f.parent = top.parent /\ f.depth = top.depth
         /\ \/ /\ x \in Photos(camera) /\ missed' = missed
               /\ found' = Append(found, x) /\ f.dirs = top.dirs
            \/ /\ x \in Dirs(camera) /\ missed' = missed
               /\ found' = found /\ f.dirs = Append(top.dirs, x)
            \/ /\ x \notin Handles /\ missed' = missed
               /\ found' = found /\ f.dirs = top.dirs
            \/ /\ x \in Handles /\ missed' = missed \cup {x}
               /\ found' = found /\ f.dirs = top.dirs
  BY AskInfoDoes DEF x
<1>4. Set(f) \in Seq(FrameType) /\ Last(Set(f)) = f /\ Set(f) # <<>>
      /\ Len(frames) \in DOMAIN Set(f) /\ Set(f)[Len(frames)] = f
  BY <1>1, SetDoes
<1>5. ToSet(Append(top.dirs, x)) = ToSet(top.dirs) \cup {x} /\ ToSet(Append(found, x)) = ToSet(found) \cup {x}
  <2>1. ToSet(Append(found, x)) = ToSet(found) \cup {x}
    BY <1>1, <1>2, AppendAdds
  <2> DEFINE ds == top.dirs
  <2>2. ds \in Seq(Nat)
    BY <1>1
  <2> HIDE DEF ds
  <2>3. ToSet(Append(ds, x)) = ToSet(ds) \cup {x}
    BY <1>2, <2>2, AppendAdds
  <2>4. QED
    BY <2>1, <2>3 DEF ds
<1>6. Waiting(Set(f), h) => Owes(frames', h)
  <2>1. CASE f.all = <<>>
    BY <1>1, <1>3, <1>4, <2>1, DescendOwes
  <2>2. CASE f.all # <<>>
    BY <1>3, <2>2 DEF Owes
  <2>3. QED
    BY <2>1, <2>2
<1>7. CASE Waiting(frames, h)
  <2>1. ToSet(top.dirs) \subseteq ToSet(f.dirs)
    BY <1>3, <1>5
  <2>2. Waiting(Set(f), h)
    BY <1>1, <1>3, <1>7, <2>1, StillWaits
  <2>3. QED
    BY <1>6, <2>2
<1>8. CASE Doing(top, h)
  <2>1. PICK c \in Path(h) : top.depth = Level(c) /\ top.parent = Up(c) /\ c \in ToSet(top.all)
    BY <1>1, <1>8 DEF Doing
  <2>2. c \in Handles /\ c \notin missed'
    BY <1>1, <2>1, DueIs, NotMissed DEF Local
  <2>3. CASE c \in ToSet(Tail(top.all))
    <3>1. f.all # <<>>
      BY <1>3, <2>3 DEF ToSet
    <3>2. Doing(f, h)
      BY <1>1, <1>3, <2>1, <2>3 DEF Doing
    <3>3. QED
      BY <1>3, <1>4, <3>1, <3>2 DEF Owes
  <2>4. CASE c = x
    <3>1. CASE c = h
      <4>1. x \in Photos(camera) /\ x \notin Dirs(camera)
        BY <1>1, <2>4, <3>1, DueIs
      <4>2. found' = Append(found, x)
        BY <1>3, <2>2, <2>4, <4>1
      <4>3. QED
        BY <1>5, <2>4, <3>1, <4>2
    <3>2. CASE c # h
      <4>1. x \in Dirs(camera) /\ x \notin Photos(camera)
        BY <1>1, <2>4, <3>2, DueIs DEF Photos
      <4>2. f.dirs = Append(top.dirs, x)
        BY <1>3, <2>2, <2>4, <4>1
      <4>3. Waiting(Set(f), h)
        BY <1>3, <1>4, <1>5, <2>1, <2>4, <3>2, <4>2 DEF Waiting
      <4>4. QED
        BY <1>6, <4>3
    <3>3. QED
      BY <3>1, <3>2
  <2>5. QED
    BY <1>2, <2>1, <2>3, <2>4
<1>9. QED
  BY <1>1, <1>7, <1>8 DEF Owes, top

LEMMA LocalStep == ASSUME TypeInv, ModeInv, LocalInv, [Next]_vars PROVE LocalInv'
<1>1. CASE UNCHANGED vars
  <2>1. camera' = camera /\ frames' = frames /\ found' = found /\ missed' = missed
    BY <1>1 DEF vars
  <2>2. QED
    BY <2>1, SameTree DEF LocalInv, Local
<1>2. CASE Next
  <2>1. camera' = camera /\ missed \subseteq missed' /\ ToSet(found) \subseteq ToSet(found')
    <3>1. CASE ListAll
      BY <3>1, ListAllDoes
    <3>2. CASE Probe
      BY <3>2, ProbeDoes
    <3>3. CASE ListDirs
      <4>1. PICK answer \in Seq(Nat) : found' = found \o FilesOf(top.all, answer)
        BY <3>3, ListDirsDoes
      <4>2. top.all \in Seq(Nat) /\ found \in Seq(Nat)
        BY <3>3, ListDirsDoes, TopTypes DEF FrameType, TypeInv
      <4>3. FilesOf(top.all, answer) \in Seq(Nat)
        BY <4>2, SortedOut
      <4>4. ToSet(found) \subseteq ToSet(found')
        BY <4>1, <4>2, <4>3, ToSetConcat
      <4>5. QED
        BY <3>3, <4>4, ListDirsDoes
    <3>4. CASE AskInfo
      <4>1. Head(top.all) \in Nat /\ found \in Seq(Nat)
        BY <3>4, AskInfoDoes, TopTypes, HeadAndTail DEF FrameType, TypeInv, TopOK
      <4>2. ToSet(Append(found, Head(top.all))) = ToSet(found) \cup {Head(top.all)}
        BY <4>1, AppendAdds
      <4>3. QED
        BY <3>4, <4>2, AskInfoDoes
    <3>5. QED
      BY <1>2, <3>1, <3>2, <3>3, <3>4 DEF Next
  <2>2. SUFFICES ASSUME Local', NEW h \in Due, Path(h) \cap missed' = {}
                 PROVE  h \in ToSet(found') \/ Owes(frames', h)
    BY <2>1, SameTree DEF LocalInv
  <2>3. CASE h \in ToSet(found)
    BY <2>1, <2>3
  <2>4. CASE h \notin ToSet(found)
    <3>1. Owes(frames, h)
      BY <2>1, <2>2, <2>4 DEF LocalInv, Local
    <3>2. QED
      BY <1>2, <2>2, <3>1, LocalListAll, LocalProbe, LocalListDirs, LocalAskInfo DEF Next, Local
  <2>5. QED
    BY <2>3, <2>4
<1>3. QED
  BY <1>1, <1>2

LEMMA LocalInit == ASSUME Init PROVE ModeInv /\ LocalInv
<1>1. /\ camera \in CameraType /\ frames = <<Frame(Root, 0)>> /\ formatFilterWorks = "unknown"
  BY DEF Init
<1>2. /\ Frame(Root, 0).at = "all" /\ Frame(Root, 0).parent = Root /\ Frame(Root, 0).depth = 0
      /\ Frame(Root, 0).sids = storageIDs
  BY DEF Frame
<1>3. frames # <<>> /\ Last(frames) = Frame(Root, 0)
  BY <1>1 DEF Last
<1>4. ASSUME NEW h \in Due PROVE Doing(Last(frames), h)
  <2>1. h \in Handles
    BY <1>1, DueIs
  <2>2. PICK c \in Path(h) : Up(c) = Root
    BY <1>1, <2>1, WayDown
  <2>3. c \in Handles
    BY <1>1, <2>2, DueIs
  <2>4. Level(c) = 0
    BY <1>1, <2>2, <2>3, PathStep DEF Level
  <2>5. QED
    BY <1>2, <1>3, <2>2, <2>4 DEF Doing
<1>5. QED
  BY <1>1, <1>3, <1>4 DEF ModeInv, LocalInv, Owes

(* Whatever the camera answers and however calls fail, the calls of        *)
(* collectPhotoHandles, and what they have found, keep their types; the    *)
(* innermost one has a storage, or an object, to ask about.                *)
THEOREM TypesKept == Spec => []TypeInv
<1>1. Init => TypeInv
  BY InitTypes
<1>2. TypeInv /\ [Next]_vars => TypeInv'
  BY TypeStep
<1>3. QED
  BY <1>1, <1>2, PTL DEF Spec

(* A getObjectHandles or getObjectInfo that fails costs the photos below   *)
(* the directory or object it was about and no others, if neither the      *)
(* probe of the filter failed nor the camera rejects filters.              *)
THEOREM FailuresAreLocal == Spec => []FailureIsLocal
<1>1. Init => TypeInv /\ ModeInv /\ LocalInv
  BY InitTypes, LocalInit
<1>2. TypeInv /\ ModeInv /\ LocalInv /\ [Next]_vars => (TypeInv /\ ModeInv /\ LocalInv)'
  BY TypeStep, ModeStep, LocalStep
<1>3. TypeInv /\ LocalInv => FailureIsLocal
  <2> SUFFICES ASSUME LocalInv, frames = <<>>, Local, NEW h \in Due, Path(h) \cap missed = {}
               PROVE  h \in ToSet(found)
    BY DEF FailureIsLocal, Done, Local
  <2>1. ~Waiting(<<>>, h)
    BY DEF Waiting
  <2>2. QED
    BY <2>1 DEF LocalInv, Owes
<1>4. QED
  BY <1>1, <1>2, <1>3, PTL DEF Spec
-----------------------------------------------------------------------------
(* Nothing is listed twice.                                                *)
LEMMA DistinctParts ==
    ASSUME NEW s \in Seq(Nat), s # <<>>, Distinct(s)
    PROVE  Distinct(Tail(s)) /\ (Head(s) \in Handles => Head(s) \notin ToSet(Tail(s)))
<1> DEFINE t == Tail(s)
<1>1. /\ 1 \in DOMAIN s /\ Head(s) = s[1] /\ DOMAIN t = 1..(Len(s) - 1) /\ Len(s) \in Nat
      /\ \A k \in DOMAIN t : k + 1 \in DOMAIN s /\ t[k] = s[k + 1]
  BY HeadAndTail
<1> HIDE DEF t
<1>2. ASSUME NEW k \in DOMAIN t, NEW l \in DOMAIN t, t[k] = t[l], t[k] \in Handles PROVE k = l
  <2>1. k + 1 = l + 1
    BY <1>1, <1>2 DEF Distinct
  <2>2. k \in Nat /\ l \in Nat
    BY <1>1
  <2>3. QED
    BY <2>1, <2>2
<1>3. ASSUME Head(s) \in Handles, Head(s) \in ToSet(t) PROVE FALSE
  <2>1. PICK k \in DOMAIN t : t[k] = Head(s)
    BY <1>3 DEF ToSet
  <2>2. s[k + 1] = s[1] /\ s[k + 1] \in Handles /\ k + 1 \in DOMAIN s /\ k \in Nat /\ k # 0
    BY <1>1, <1>3, <2>1
  <2>3. k + 1 = 1
    BY <1>1, <2>2 DEF Distinct
  <2>4. QED
    BY <2>2, <2>3
<1>4. QED
  BY <1>2, <1>3 DEF Distinct, t

LEMMA DistinctConcat ==
    ASSUME NEW s \in Seq(Nat), NEW t \in Seq(Nat), Distinct(s), Distinct(t),
           ToSet(s) \cap ToSet(t) \cap Handles = {}
    PROVE  Distinct(s \o t)
<1> DEFINE r == s \o t
<1>1. /\ r \in Seq(Nat) /\ Len(s) \in Nat /\ Len(t) \in Nat
      /\ DOMAIN s = 1..Len(s) /\ DOMAIN t = 1..Len(t) /\ DOMAIN r = 1..(Len(s) + Len(t))
      /\ \A i \in 1..(Len(s) + Len(t)) : r[i] = IF i <= Len(s) THEN s[i] ELSE t[i - Len(s)]
  BY ConcatProperties, LenProperties
<1> HIDE DEF r
<1>2. \A i \in DOMAIN r : \/ i <= Len(s) /\ i \in DOMAIN s /\ r[i] = s[i] /\ r[i] \in ToSet(s)
                          \/ ~(i <= Len(s)) /\ i - Len(s) \in DOMAIN t /\ r[i] = t[i - Len(s)] /\ r[i] \in ToSet(t)
  <2> SUFFICES ASSUME NEW i \in DOMAIN r
               PROVE  \/ i <= Len(s) /\ i \in DOMAIN s /\ r[i] = s[i] /\ r[i] \in ToSet(s)
                      \/ ~(i <= Len(s)) /\ i - Len(s) \in DOMAIN t /\ r[i] = t[i - Len(s)] /\ r[i] \in ToSet(t)
    OBVIOUS
  <2>1. CASE i <= Len(s)
    <3>1. i \in DOMAIN s /\ r[i] = s[i]
      BY <1>1, <2>1
    <3>2. QED
      BY <2>1, <3>1 DEF ToSet
  <2>2. CASE ~(i <= Len(s))
    <3>1. i - Len(s) \in DOMAIN t /\ r[i] = t[i - Len(s)]
      BY <1>1, <2>2
    <3>2. QED
      BY <2>2, <3>1 DEF ToSet
  <2>3. QED
    BY <2>1, <2>2
<1>3. ASSUME NEW k \in DOMAIN r, NEW l \in DOMAIN r, r[k] = r[l], r[k] \in Handles PROVE k = l
  <2>1. CASE k <= Len(s) /\ l <= Len(s)
    BY <1>2, <1>3, <2>1 DEF Distinct
  <2>2. CASE ~(k <= Len(s)) /\ ~(l <= Len(s))
    <3>1. k - Len(s) = l - Len(s)
      BY <1>2, <1>3, <2>2 DEF Distinct
    <3>2. k \in Nat /\ l \in Nat
      BY <1>1
    <3>3. QED
      BY <1>1, <3>1, <3>2
  <2>3. CASE ~(k <= Len(s) <=> l <= Len(s))
    BY <1>2, <1>3, <2>3
  <2>4. QED
    BY <2>1, <2>2, <2>3
<1>4. QED
  BY <1>3 DEF Distinct, r

LEMMA OneMore ==
    ASSUME NEW s \in Seq(Nat), NEW x \in Nat
    PROVE  /\ <<x>> \in Seq(Nat) /\ ToSet(<<x>>) = {x} /\ Distinct(<<x>>) /\ Append(s, x) = s \o <<x>>
           /\ Append(s, x) \in Seq(Nat) /\ ToSet(Append(s, x)) = ToSet(s) \cup {x}
           /\ Distinct(s) /\ x \notin ToSet(s) \cap Handles => Distinct(Append(s, x))
<1> DEFINE one == <<x>>
<1>1. one \in Seq(Nat) /\ DOMAIN one = {1} /\ one[1] = x
  OBVIOUS
<1>2. Append(s, x) = s \o one
  OBVIOUS
<1> HIDE DEF one
<1>3. ToSet(one) = {x} /\ Distinct(one)
  BY <1>1 DEF ToSet, Distinct
<1>4. Distinct(s) /\ x \notin ToSet(s) \cap Handles => Distinct(s \o one)
  BY <1>1, <1>3, DistinctConcat
<1>5. Append(s, x) \in Seq(Nat) /\ ToSet(Append(s, x)) = ToSet(s) \cup {x}
  BY AppendAdds
<1>6. QED
  BY <1>1, <1>2, <1>3, <1>4, <1>5 DEF one

(* Of what is to come, A, nothing is below another or above what is found. *)
Clear(A, fd) ==
    /\ \A a, b \in A : a \in Path(b) => a = b
    /\ \A a \in A, h \in ToSet(fd) \cap Handles : a \notin Path(h)
    /\ Distinct(fd) /\ ToSet(fd) \cap Dirs(camera) = {}

LEMMA ClearFewer == ASSUME NEW A, NEW B, B \subseteq A, NEW fd, Clear(A, fd) PROVE Clear(B, fd)
BY DEF Clear

(* The children of a directory come in its place.                          *)
LEMMA ClearChildren ==
    ASSUME camera \in CameraType, NEW A, A \subseteq Handles, NEW fd, Clear(A, fd),
           NEW d \in A, NEW C, C \subseteq Handles, \A c \in C : Up(c) = d
    PROVE  Clear((A \ {d}) \cup C, fd) /\ C \cap (A \ {d}) = {}
<1>1. d \in Handles /\ d # Root
  BY Constants
<1>2. ASSUME NEW c \in C
      PROVE  Path(c) = {c} \cup Path(d) /\ d \in Path(c) /\ c \notin Path(d)
  <2>1. c \in Handles /\ Up(c) = d
    OBVIOUS
  <2>2. Path(c) = {c} \cup Path(d) /\ c \notin Path(d)
    BY <1>1, <2>1, PathStep
  <2>3. d \in Path(d)
    BY <1>1, PathClosed
  <2>4. QED
    BY <2>2, <2>3
<1>3. \A h \in Handles, c \in C : c \in Path(h) => d \in Path(h)
  BY <1>2, PathClosed
<1>4. C \cap (A \ {d}) = {}
  BY <1>2 DEF Clear
<1>5. ASSUME NEW a \in (A \ {d}) \cup C, NEW b \in (A \ {d}) \cup C, a \in Path(b) PROVE a = b
  <2>1. CASE a \in A \ {d} /\ b \in A \ {d}
    BY <1>5, <2>1 DEF Clear
  <2>2. CASE a \in A \ {d} /\ b \in C
    <3>1. a = b \/ a \in Path(d)
      BY <1>2, <1>5, <2>2
    <3>2. a \notin Path(d)
      BY <2>2 DEF Clear
    <3>3. QED
      BY <3>1, <3>2
  <2>3. CASE a \in C /\ b \in A \ {d}
    BY <1>3, <1>5, <2>3 DEF Clear
  <2>4. CASE a \in C /\ b \in C
    BY <1>2, <1>5, <2>4
  <2>5. QED
    BY <2>1, <2>2, <2>3, <2>4
<1>6. ASSUME NEW a \in (A \ {d}) \cup C, NEW h \in ToSet(fd) \cap Handles PROVE a \notin Path(h)
  BY <1>3 DEF Clear
<1>7. QED
  BY <1>4, <1>5, <1>6 DEF Clear

(* Some of it is found.                                                    *)
LEMMA ClearFound ==
    ASSUME camera \in CameraType, NEW A, A \subseteq Handles, NEW fd \in Seq(Nat), Clear(A, fd),
           NEW s \in Seq(Nat), Distinct(s), ToSet(s) \cap Handles \subseteq A,
           ToSet(s) \cap Dirs(camera) = {}, NEW B, B \subseteq A, B \cap ToSet(s) = {}
    PROVE  Clear(B, fd \o s)
<1>1. ToSet(fd \o s) = ToSet(fd) \cup ToSet(s)
  BY ToSetConcat
<1>2. ToSet(fd) \cap ToSet(s) \cap Handles = {}
  <2> SUFFICES ASSUME NEW h \in ToSet(fd) \cap ToSet(s) \cap Handles PROVE FALSE
    OBVIOUS
  <2>1. h \in Path(h) /\ h \in A
    BY PathClosed
  <2>2. QED
    BY <2>1 DEF Clear
<1>3. Distinct(fd \o s)
  BY <1>2, DistinctConcat DEF Clear
<1>4. ASSUME NEW a \in B, NEW h \in ToSet(fd \o s) \cap Handles PROVE a \notin Path(h)
  <2>1. CASE h \in ToSet(fd)
    BY <2>1 DEF Clear
  <2>2. CASE h \in ToSet(s)
    BY <2>2 DEF Clear
  <2>3. QED
    BY <1>1, <2>1, <2>2
<1>5. ToSet(fd \o s) \cap Dirs(camera) = {}
  BY <1>1 DEF Clear
<1>6. QED
  BY <1>3, <1>4, <1>5 DEF Clear

(* The objects that wait, and those that the innermost call lists or has   *)
(* listed.                                                                 *)
Under(p)   == Children(camera, FirstCard, p)
Waits(fs)  == {h \in Handles : \E i \in DOMAIN fs : h \in ToSet(fs[i].dirs)}
Items(f)   == IF f.at = "all" THEN Under(f.parent) ELSE ToSet(f.all) \cap Handles
ItemsOf(fs) == IF fs = <<>> THEN {} ELSE Items(Last(fs))

WaitOnce(fs) ==
    /\ \A i \in DOMAIN fs : Distinct(fs[i].dirs)
    /\ \A i, j \in DOMAIN fs : i # j => ToSet(fs[i].dirs) \cap ToSet(fs[j].dirs) \cap Handles = {}

Apart(fs, its, fd) == WaitOnce(fs) /\ its \cap Waits(fs) = {} /\ Clear(its \cup Waits(fs), fd)

(* A directory of the first storage, or a number that is taken for one and *)
(* lists nothing.                                                          *)
Blank(d) == d \notin Handles /\ d # Root /\ Under(d) = {}
Known(d) == Blank(d) \/ (d \in Dirs(camera) /\ camera.objects[d].card = FirstCard)
AllKnown(fs) == \A i \in DOMAIN fs : /\ fs[i].parent = Root \/ Known(fs[i].parent)
                                     /\ \A d \in ToSet(fs[i].dirs) : Known(d)

LEMMA UnderIs ==
    ASSUME camera \in CameraType, NEW d
    PROVE  /\ Under(d) \subseteq Handles /\ \A h \in Under(d) : camera.objects[h].card = FirstCard
           /\ d # 0 => \A h \in Under(d) : Up(h) = d
           /\ d \in Handles => d # 0
BY CountApart DEF Under, Children, Up

(* The innermost call goes on to its next directory: the objects of that   *)
(* come in its place.                                                      *)
LEMMA DescendApart ==
    ASSUME camera \in CameraType, NEW fs \in Seq(FrameType), NEW fd, AllKnown(fs), Apart(fs, {}, fd)
    PROVE  /\ AllKnown(Descend(fs)) /\ Apart(Descend(fs), ItemsOf(Descend(fs)), fd)
<1> DEFINE gs == Descend(fs)
<1> HIDE DEF gs
<1>1. Waits(fs) \subseteq Handles
  BY DEF Waits
<1>2. CASE gs = <<>>
  <2>1. AllKnown(gs) /\ WaitOnce(gs) /\ Waits(gs) = {} /\ ItemsOf(gs) = {}
    BY <1>2 DEF AllKnown, WaitOnce, Waits, ItemsOf
  <2>2. Clear({}, fd)
    BY DEF Apart, Clear
  <2>3. QED
    BY <2>1, <2>2 DEF Apart, gs
<1>3. CASE gs # <<>>
  <2>1. PICK i \in DOMAIN fs :
            /\ fs[i].dirs # <<>>
            /\ gs \in Seq(FrameType) /\ Len(gs) = i + 1
            /\ \A k \in 1..(i - 1) : gs[k] = fs[k]
            /\ gs[i] = [fs[i] EXCEPT !.dirs = Tail(@)]
            /\ Last(gs) = Frame(Head(fs[i].dirs), fs[i].depth + 1)
            /\ gs[i + 1] = Frame(Head(fs[i].dirs), fs[i].depth + 1)
    BY <1>3, DescendDoes DEF gs
  <2>2. /\ i \in Nat /\ DOMAIN gs = 1..(i + 1) /\ i \in DOMAIN gs
        /\ \A k \in DOMAIN gs : k = i + 1 \/ k = i \/ k \in 1..(i - 1)
        /\ \A k \in 1..i : k \in DOMAIN fs
    <3>1. DOMAIN fs = 1..Len(fs) /\ Len(fs) \in Nat
      OBVIOUS
    <3>2. i \in Nat /\ i >= 1 /\ i <= Len(fs)
      BY <3>1
    <3>3. DOMAIN gs = 1..(i + 1)
      BY <2>1, <3>2
    <3>4. QED
      BY <3>1, <3>2, <3>3
  <2>3. fs[i] \in FrameType /\ fs[i].dirs \in Seq(Nat)
    <3>1. fs[i] \in FrameType
      BY ElementOfSeq
    <3>2. QED
      BY <3>1 DEF FrameType
  <2> DEFINE d == Head(fs[i].dirs)
             rest == Tail(fs[i].dirs)
  <2>4. /\ Distinct(rest) /\ (d \in Handles => d \notin ToSet(rest))
        /\ ToSet(fs[i].dirs) = {d} \cup ToSet(rest)
    <3>1. Distinct(fs[i].dirs)
      BY DEF Apart, WaitOnce
    <3>2. QED
      BY <2>1, <2>3, <3>1, DistinctParts, HeadAndTail
  <2>5. /\ gs[i].dirs = rest /\ gs[i].parent = fs[i].parent
        /\ gs[i + 1].dirs = <<>> /\ gs[i + 1].parent = d
        /\ Last(gs).at = "all" /\ Last(gs).parent = d
    BY <2>1, <2>3 DEF FrameType, Frame
  <2> HIDE DEF d, rest
  <2>6. \A k \in DOMAIN gs :
            \/ k = i + 1 /\ gs[k].dirs = <<>> /\ gs[k].parent = d
            \/ k = i /\ gs[k].dirs = rest /\ gs[k].parent = fs[k].parent
            \/ k \in 1..(i - 1) /\ gs[k].dirs = fs[k].dirs /\ gs[k].parent = fs[k].parent
    BY <2>1, <2>2, <2>5
  <2>7. \A k \in DOMAIN gs : /\ Distinct(gs[k].dirs)
                             /\ k # i + 1 => k \in DOMAIN fs /\ ToSet(gs[k].dirs) \subseteq ToSet(fs[k].dirs)
                             /\ k = i + 1 => ToSet(gs[k].dirs) = {}
    <3>1. Distinct(<<>>) /\ ToSet(<<>>) = {}
      BY DEF Distinct, ToSet
    <3>2. \A k \in DOMAIN fs : Distinct(fs[k].dirs)
      BY DEF Apart, WaitOnce
    <3>3. \A k \in 1..(i - 1) : k \in DOMAIN fs /\ k # i + 1
      BY <2>2
    <3>4. i # i + 1
      BY <2>2
    <3>5. QED
      BY <2>4, <2>6, <3>1, <3>2, <3>3, <3>4
  <2>8. WaitOnce(gs)
    BY <2>7 DEF Apart, WaitOnce
  <2>9. Waits(gs) \subseteq Waits(fs) \ {d}
    <3> SUFFICES ASSUME NEW x \in Waits(gs) PROVE x \in Waits(fs) \ {d}
      OBVIOUS
    <3>1. PICK k \in DOMAIN gs : x \in ToSet(gs[k].dirs) /\ x \in Handles
      BY DEF Waits
    <3>2. k \in DOMAIN fs /\ x \in ToSet(fs[k].dirs)
      BY <2>7, <3>1
    <3>3. x \in Waits(fs)
      BY <3>1, <3>2 DEF Waits
    <3>4. x # d
      <4>1. CASE k = i
        BY <2>4, <2>5, <3>1, <4>1
      <4>2. CASE k # i
        <5>1. ToSet(fs[k].dirs) \cap ToSet(fs[i].dirs) \cap Handles = {}
          BY <3>2, <4>2 DEF Apart, WaitOnce
        <5>2. QED
          BY <2>4, <3>1, <3>2, <5>1
      <4>3. QED
        BY <4>1, <4>2
    <3>5. QED
      BY <3>3, <3>4
  <2>10. Known(d)
    BY <2>4 DEF AllKnown
  <2>11. AllKnown(gs)
    <3>1. \A k \in DOMAIN gs : gs[k].parent = Root \/ Known(gs[k].parent)
      BY <2>2, <2>6, <2>10 DEF AllKnown
    <3>2. \A k \in DOMAIN gs : \A x \in ToSet(gs[k].dirs) : Known(x)
      BY <2>7 DEF AllKnown
    <3>3. QED
      BY <3>1, <3>2 DEF AllKnown
  <2>12. ItemsOf(gs) = Under(d)
    BY <1>3, <2>5 DEF ItemsOf, Items
  <2>13. ItemsOf(gs) \cap Waits(gs) = {} /\ Clear(ItemsOf(gs) \cup Waits(gs), fd)
    <3>1. Clear(Waits(fs), fd)
      BY DEF Apart
    <3>2. CASE d \in Handles
      <4>1. d \in Waits(fs)
        BY <2>4, <3>2 DEF Waits
      <4>2. Under(d) \subseteq Handles /\ \A h \in Under(d) : Up(h) = d
        BY <3>2, UnderIs
      <4>3. Clear((Waits(fs) \ {d}) \cup Under(d), fd) /\ Under(d) \cap (Waits(fs) \ {d}) = {}
        BY <1>1, <3>1, <4>1, <4>2, ClearChildren
      <4>4. Clear(ItemsOf(gs) \cup Waits(gs), fd)
        BY <2>9, <2>12, <4>3, ClearFewer
      <4>5. QED
        BY <2>9, <2>12, <4>3, <4>4
    <3>3. CASE d \notin Handles
      <4>1. Under(d) = {}
        BY <2>10, <3>3 DEF Known, Blank, Dirs
      <4>2. QED
        BY <2>9, <2>12, <3>1, <4>1, ClearFewer
    <3>4. QED
      BY <3>2, <3>3
  <2>14. QED
    BY <2>8, <2>11, <2>13 DEF Apart, gs
<1>4. QED
  BY <1>2, <1>3

(* The innermost call becomes f.                                           *)
LEMMA SetApart ==
    ASSUME TypeInv, frames # <<>>, NEW f \in FrameType, AllKnown(frames), WaitOnce(frames),
           f.parent = top.parent, \A d \in ToSet(f.dirs) : Known(d), Distinct(f.dirs),
           \A d \in ToSet(f.dirs) \cap Handles : d \in ToSet(top.dirs) \/ d \notin Waits(frames)
    PROVE  /\ AllKnown(Set(f)) /\ WaitOnce(Set(f))
           /\ Waits(Set(f)) \subseteq Waits(frames) \cup (ToSet(f.dirs) \cap Handles)
<1>1. /\ top = frames[Len(frames)] /\ Len(frames) \in DOMAIN frames
  BY TopTypes
<1>2. /\ DOMAIN Set(f) = DOMAIN frames /\ Set(f)[Len(frames)] = f
      /\ \A i \in DOMAIN frames : i # Len(frames) => Set(f)[i] = frames[i]
  BY SetDoes
<1> DEFINE n == Len(frames)
           gs == Set(f)
<1> HIDE DEF n, gs
<1>3. AllKnown(gs)
  BY <1>1, <1>2 DEF AllKnown, gs, n
<1>4. \A i \in DOMAIN gs : Distinct(gs[i].dirs)
  BY <1>1, <1>2 DEF WaitOnce, gs, n
<1>5. \A i \in DOMAIN frames : i # n => ToSet(f.dirs) \cap ToSet(frames[i].dirs) \cap Handles = {}
  <2> SUFFICES ASSUME NEW i \in DOMAIN frames, i # n,
                      NEW d \in ToSet(f.dirs) \cap ToSet(frames[i].dirs) \cap Handles
               PROVE  FALSE
    OBVIOUS
  <2>1. d \in Waits(frames)
    BY DEF Waits
  <2>2. d \in ToSet(frames[n].dirs)
    BY <1>1, <2>1 DEF n
  <2>3. QED
    BY <1>1, <2>2 DEF WaitOnce, n
<1>6. \A i, j \in DOMAIN gs : i # j => ToSet(gs[i].dirs) \cap ToSet(gs[j].dirs) \cap Handles = {}
  <2> SUFFICES ASSUME NEW i \in DOMAIN gs, NEW j \in DOMAIN gs, i # j
               PROVE  ToSet(gs[i].dirs) \cap ToSet(gs[j].dirs) \cap Handles = {}
    OBVIOUS
  <2>1. i \in DOMAIN frames /\ j \in DOMAIN frames
    BY <1>2 DEF gs
  <2>2. CASE i = n
    BY <1>2, <1>5, <2>1, <2>2 DEF gs, n
  <2>3. CASE j = n
    BY <1>2, <1>5, <2>1, <2>3 DEF gs, n
  <2>4. CASE i # n /\ j # n
    BY <1>2, <2>1, <2>4 DEF gs, n, WaitOnce
  <2>5. QED
    BY <2>2, <2>3, <2>4
<1>7. Waits(gs) \subseteq Waits(frames) \cup (ToSet(f.dirs) \cap Handles)
  <2> SUFFICES ASSUME NEW x \in Waits(gs) PROVE x \in Waits(frames) \cup (ToSet(f.dirs) \cap Handles)
    OBVIOUS
  <2>1. PICK i \in DOMAIN gs : x \in ToSet(gs[i].dirs) /\ x \in Handles
    BY DEF Waits
  <2>2. QED
    BY <1>2, <2>1 DEF Waits, gs
<1>8. QED
  BY <1>3, <1>4, <1>6, <1>7 DEF WaitOnce, gs

(* What the innermost call asks and has been told.                         *)
Asking(f) ==
    /\ f.at = "all" /\ Accepts(camera, FirstCard, f.parent) => f.sids \in {storageIDs, Tail(storageIDs)}
    /\ f.at \in {"probe", "dirs"} => Head(f.sids) = FirstCard
    /\ f.at # "all" => Distinct(f.all) /\ \A d \in ToSet(f.all) : d \in Under(f.parent) \/ Blank(d)

Sound(fs, fd) == /\ AllKnown(fs) /\ Apart(fs, ItemsOf(fs), fd)
                 /\ fs # <<>> => Asking(Last(fs))

Fillable   == camera.zeroIsAll => EmptyDirs = {}
Untroubled == missed = {} /\ camera.filter # "rejected" /\ Fillable
OnceInv    == Untroubled => Sound(frames, found)

(* A number that is taken for a directory lists nothing.                   *)
LEMMA CountBlank ==
    ASSUME camera \in CameraType, Fillable, NEW p, p = Root \/ Known(p), Accepts(camera, FirstCard, p)
    PROVE  Blank(Cardinality(Under(p)))
<1> DEFINE n == Cardinality(Under(p))
<1>1. Under(p) \subseteq Handles
  BY DEF Under, Children
<1>2. n \notin Handles /\ n # Root /\ 0 \notin Handles /\ 0 # Root /\ (n = 0 => Under(p) = {})
  BY <1>1, CountApart
<1>3. ASSUME NEW h \in Under(n), n # 0 PROVE FALSE
  <2>1. Up(h) = n /\ h \in Handles
    BY <1>3 DEF Under, Children, Up
  <2>2. QED
    BY <1>2, <2>1, CameraHas
<1>4. ASSUME NEW h \in Under(n), n = 0 PROVE FALSE
  <2>1. h \in Handles /\ camera.objects[h].card = FirstCard /\ (camera.zeroIsAll \/ Up(h) = 0)
    BY <1>4 DEF Under, Children, Up
  <2>2. camera.zeroIsAll
    BY <1>2, <2>1, CameraHas
  <2>3. CASE p = Root
    <3>1. PICK c \in Path(h) : Up(c) = Root /\ camera.objects[c].card = FirstCard
      BY <2>1, WayDown
    <3>2. c \in Under(p)
      BY <2>3, <3>1, PathIs DEF Under, Children, Up
    <3>3. QED
      BY <1>2, <1>4, <3>2
  <2>4. CASE Blank(p)
    <3>1. p = 0
      BY <2>4 DEF Blank, Accepts, Dirs
    <3>2. QED
      BY <1>4, <2>4, <3>1 DEF Blank
  <2>5. CASE p \in Dirs(camera) /\ camera.objects[p].card = FirstCard
    <3>1. p \in EmptyDirs
      BY <1>2, <1>4, <2>5 DEF EmptyDirs, Under
    <3>2. QED
      BY <2>2, <3>1 DEF Fillable
  <2>6. QED
    BY <2>3, <2>4, <2>5 DEF Known
<1>5. QED
  BY <1>2, <1>3, <1>4 DEF Blank

LEMMA ApartFewer ==
    ASSUME NEW fs, NEW its, NEW jts, jts \subseteq its, NEW fd, Apart(fs, its, fd)
    PROVE  Apart(fs, jts, fd)
<1>1. jts \cup Waits(fs) \subseteq its \cup Waits(fs)
  OBVIOUS
<1>2. QED
  BY <1>1, ClearFewer DEF Apart

LEMMA DescendSound ==
    ASSUME camera \in CameraType, NEW fs \in Seq(FrameType), NEW fd, NEW its,
           AllKnown(fs), Apart(fs, its, fd)
    PROVE  Sound(Descend(fs), fd)
<1>1. Apart(fs, {}, fd)
  BY ApartFewer
<1>2. AllKnown(Descend(fs)) /\ Apart(Descend(fs), ItemsOf(Descend(fs)), fd)
  BY <1>1, DescendApart
<1>3. Descend(fs) # <<>> => Last(Descend(fs)).at = "all" /\ Last(Descend(fs)).sids = storageIDs
  BY DescendTypes
<1>4. Descend(fs) # <<>> => Asking(Last(Descend(fs)))
  BY <1>3 DEF Asking
<1>5. QED
  BY <1>2, <1>4 DEF Sound

LEMMA TopKnown ==
    ASSUME TypeInv, frames # <<>>, Sound(frames, found)
    PROVE  /\ top.parent = Root \/ Known(top.parent)
           /\ \A d \in ToSet(top.dirs) : Known(d)
           /\ Distinct(top.dirs) /\ ToSet(top.dirs) \cap Handles \subseteq Waits(frames)
           /\ WaitOnce(frames) /\ AllKnown(frames) /\ Asking(top)
           /\ Items(top) \cap Waits(frames) = {} /\ Clear(Items(top) \cup Waits(frames), found)
           /\ Items(top) \subseteq Handles /\ Waits(frames) \subseteq Handles
<1>1. top = frames[Len(frames)] /\ Len(frames) \in DOMAIN frames
  BY TopTypes
<1>2. ItemsOf(frames) = Items(top) /\ Last(frames) = top
  BY DEF ItemsOf, top
<1>3. Items(top) \subseteq Handles /\ Waits(frames) \subseteq Handles
  BY DEF Items, Under, Children, Waits
<1>4. ToSet(top.dirs) \cap Handles \subseteq Waits(frames)
  BY <1>1 DEF Waits
<1>5. AllKnown(frames) /\ WaitOnce(frames)
  BY DEF Sound, Apart
<1>6. /\ top.parent = Root \/ Known(top.parent)
      /\ \A d \in ToSet(top.dirs) : Known(d)
      /\ Distinct(top.dirs)
  BY <1>1, <1>5 DEF AllKnown, WaitOnce
<1>7. QED
  BY <1>2, <1>3, <1>4, <1>5, <1>6 DEF Sound, Apart

LEMMA SetSame ==
    ASSUME TypeInv, frames # <<>>, Sound(frames, found), NEW f \in FrameType,
           f.parent = top.parent, f.dirs = top.dirs, Items(f) \subseteq Items(top)
    PROVE  AllKnown(Set(f)) /\ Apart(Set(f), Items(f), found)
<1>1. AllKnown(Set(f)) /\ WaitOnce(Set(f)) /\ Waits(Set(f)) \subseteq Waits(frames)
  BY TopKnown, SetApart
<1>2. Items(f) \cup Waits(Set(f)) \subseteq Items(top) \cup Waits(frames)
  BY <1>1
<1>3. Items(f) \cap Waits(Set(f)) = {} /\ Clear(Items(f) \cup Waits(Set(f)), found)
  BY <1>1, <1>2, TopKnown, ClearFewer
<1>4. QED
  BY <1>1, <1>3 DEF Apart

LEMMA SetSound ==
    ASSUME TypeInv, frames # <<>>, NEW f \in FrameType, NEW fd,
           AllKnown(Set(f)), Apart(Set(f), Items(f), fd), Asking(f)
    PROVE  Sound(Set(f), fd)
<1>1. Set(f) # <<>> /\ Last(Set(f)) = f
  BY SetDoes
<1>2. QED
  BY <1>1 DEF Sound, ItemsOf

LEMMA OnceListAll ==
    ASSUME TypeInv, ListAll, Fillable, missed' = {}, Sound(frames, found)
    PROVE  Sound(frames', found')
<1>1. /\ frames # <<>> /\ top.at = "all" /\ top \in FrameType /\ camera \in CameraType
      /\ camera' = camera /\ found' = found
      /\ formatFilterWorks \in {"unknown", "yes", "no"}
  BY ListAllDoes, TopTypes DEF TypeInv
<1> DEFINE p == top.parent
<1>2. /\ storageIDs \in Seq(Nat) /\ Len(storageIDs) >= 2 /\ Head(storageIDs) \notin Cards
      /\ Head(Tail(storageIDs)) = FirstCard /\ FirstCard \in Cards
  BY StoragesAre
<1>3. p = Root \/ Known(p)
  BY <1>1, TopKnown
<1>4. Accepts(camera, FirstCard, p) => top.sids \in {storageIDs, Tail(storageIDs)}
  BY <1>1, TopKnown DEF Asking
<1> HIDE DEF storageIDs
<1>5. missed' # missed \cup {p}
  OBVIOUS
<1>6. CASE Accepts(camera, Head(top.sids), p)
  <2>1. Accepts(camera, FirstCard, p)
    BY <1>2, <1>3, <1>6 DEF Accepts, Known, Blank, Dirs
  <2>2. Head(top.sids) = FirstCard
    BY <1>2, <1>4, <1>6, <2>1 DEF Accepts
  <2>3. PICK f \in FrameType : frames' = Set(f) /\ Next1(f)
    BY <1>5, <1>6, ListAllDoes
  <2>4. /\ f.all = Answer(camera, FirstCard, p, Under(p)) /\ f.parent = p /\ f.dirs = top.dirs
        /\ Head(f.sids) = FirstCard
    BY <2>2, <2>3 DEF Next1, AllOf, Under
  <2>5. f.at # "all"
    BY <1>1, <2>3 DEF Next1
  <2>6. Under(p) \subseteq Handles
    BY DEF Under, Children
  <2>7. ToSet(f.all) = Under(p) \cup {Cardinality(Under(p))} /\ Distinct(f.all)
    BY <2>1, <2>4, <2>6, AnswerHas DEF Distinct
  <2>8. Blank(Cardinality(Under(p)))
    BY <1>1, <1>3, <2>1, CountBlank
  <2>9. Asking(f)
    BY <2>4, <2>5, <2>7, <2>8 DEF Asking
  <2>10. Items(f) = Items(top)
    BY <1>1, <2>5, <2>6, <2>7, <2>8 DEF Items, Blank
  <2>11. QED
    BY <1>1, <2>3, <2>4, <2>9, <2>10, SetSame, SetSound
<1>7. CASE ~Accepts(camera, Head(top.sids), p)
  <2>1. ASSUME NEW f \in FrameType, frames' = Set(f), f.sids = Tail(top.sids), f.at = "all",
               f.parent = p, f.dirs = top.dirs
        PROVE  Sound(frames', found')
    <3>1. Asking(f)
      <4>1. SUFFICES ASSUME Accepts(camera, FirstCard, p) PROVE f.sids \in {storageIDs, Tail(storageIDs)}
        BY <2>1 DEF Asking
      <4>2. top.sids # Tail(storageIDs)
        BY <1>2, <1>7, <4>1
      <4>3. QED
        BY <1>4, <2>1, <4>1, <4>2
    <3>2. Items(f) = Items(top)
      BY <1>1, <2>1 DEF Items
    <3>3. QED
      BY <1>1, <2>1, <3>1, <3>2, SetSame, SetSound
  <2>2. CASE frames' = Descend(Front(frames))
    <3> DEFINE gs == Front(frames)
    <3>1. gs \in Seq(FrameType) /\ \A i \in DOMAIN gs : i \in DOMAIN frames /\ gs[i] = frames[i]
      BY <1>1, TopTypes
    <3>2. AllKnown(gs) /\ WaitOnce(gs) /\ Waits(gs) \subseteq Waits(frames)
      <4> HIDE DEF gs
      <4>1. AllKnown(gs)
        BY <1>1, <3>1, TopKnown DEF AllKnown
      <4>2. WaitOnce(gs)
        BY <1>1, <3>1, TopKnown DEF WaitOnce
      <4>3. Waits(gs) \subseteq Waits(frames)
        BY <3>1 DEF Waits
      <4>4. QED
        BY <4>1, <4>2, <4>3
    <3>3. Apart(gs, {}, found)
      <4>1. Clear({} \cup Waits(gs), found)
        BY <1>1, <3>2, TopKnown, ClearFewer
      <4>2. QED
        BY <3>2, <4>1 DEF Apart
    <3>4. QED
      BY <1>1, <2>2, <3>1, <3>2, <3>3, DescendSound
  <2>3. QED
    BY <1>7, <1>5, <2>1, <2>2, ListAllDoes
<1>8. QED
  BY <1>6, <1>7

LEMMA OnceProbe == ASSUME TypeInv, Probe, Sound(frames, found) PROVE Sound(frames', found')
<1>1. frames # <<>> /\ top.at = "probe" /\ top \in FrameType /\ found' = found
  BY ProbeDoes, TopTypes
<1>2. PICK f \in FrameType :
                 /\ frames' = Set(f) /\ f.parent = top.parent /\ f.sids = top.sids
                 /\ f.dirs = top.dirs /\ f.all = top.all
                 /\ f.at \in {"dirs", "infos"}
  BY ProbeDoes
<1>3. Asking(f)
  BY <1>1, <1>2, TopKnown DEF Asking
<1>4. Items(f) = Items(top)
  BY <1>1, <1>2 DEF Items
<1>5. QED
  BY <1>1, <1>2, <1>3, <1>4, SetSame, SetSound

LEMMA OnceListDirs ==
    ASSUME TypeInv, ModeInv, ListDirs, missed' = {}, camera.filter # "rejected", Sound(frames, found)
    PROVE  Sound(frames', found')
<1>1. /\ frames # <<>> /\ top.at = "dirs" /\ top \in FrameType /\ camera \in CameraType
      /\ camera' = camera /\ TopOK(camera, formatFilterWorks, top) /\ found \in Seq(Nat)
      /\ top.all \in Seq(Nat)
  BY ListDirsDoes, TopTypes DEF TypeInv, FrameType
<1> DEFINE p == top.parent
           S == {x \in Under(p) : camera.objects[x].kind = "dir"}
<1>2. PICK answer \in Seq(Nat), f \in FrameType :
                 /\ found' = found \o FilesOf(top.all, answer)
                 /\ frames' = Descend(Set(f)) /\ f.parent = p
                 /\ f.dirs = DirsOf(top.all, answer)
                 /\ missed' = missed /\ answer = OfFormat(camera, Head(top.sids), p, "dir")
  BY ListDirsDoes
<1>3. camera.filter = "works"
  BY <1>1, <1>2 DEF TopOK, ModeInv, Local
<1>4. /\ Asking(top) /\ Head(top.sids) = FirstCard /\ Items(top) = ToSet(top.all) \cap Handles
      /\ Distinct(top.all) /\ \A d \in ToSet(top.all) : d \in Under(p) \/ Blank(d)
  BY <1>1, TopKnown DEF Asking, Items
<1>5. /\ answer = Answer(camera, FirstCard, p, S) /\ top.all = Answer(camera, FirstCard, p, Under(p))
      /\ S \subseteq Handles /\ Under(p) \subseteq Handles /\ top.all # <<>>
  BY <1>1, <1>2, <1>3, <1>4 DEF OfFormat, AllOf, TopOK, Under, Children
<1>6. \A x \in S : x \in Dirs(camera) /\ camera.objects[x].card = FirstCard
  BY <1>1, <1>5, UnderIs DEF Dirs
<1>7. \A x \in Under(p) : x \in Dirs(camera) => x \in S
  BY DEF Dirs
<1> HIDE DEF S
<1>8. ToSet(answer) = S \cup {Cardinality(S)} /\ Cardinality(S) \notin Handles
  <2>1. Accepts(camera, FirstCard, p)
    BY <1>5, AnswerHas
  <2>2. QED
    BY <1>5, <2>1, AnswerHas, CountApart
<1> DEFINE files == FilesOf(top.all, answer)
           dirs == DirsOf(top.all, answer)
<1>9. /\ files \in Seq(Nat) /\ dirs \in Seq(Nat) /\ Distinct(files) /\ Distinct(dirs)
      /\ ToSet(files) = ToSet(top.all) \ ToSet(answer)
      /\ ToSet(dirs) = ToSet(top.all) \cap ToSet(answer)
  BY <1>1, <1>4, SortedOut
<1> HIDE DEF files, dirs
<1>10. /\ found' = found \o files /\ f.dirs = dirs
  BY <1>2 DEF files, dirs
<1>11. \A d \in ToSet(dirs) : Known(d)
  <2> SUFFICES ASSUME NEW d \in ToSet(dirs) PROVE Known(d)
    OBVIOUS
  <2>1. d \in Under(p) \/ Blank(d)
    BY <1>4, <1>9
  <2>2. d \in Under(p) => d \in S
    BY <1>5, <1>8, <1>9
  <2>3. QED
    BY <1>6, <2>1, <2>2 DEF Known
<1>12. /\ AllKnown(Set(f)) /\ WaitOnce(Set(f))
       /\ Waits(Set(f)) \subseteq Waits(frames) \cup (ToSet(dirs) \cap Handles)
  <2>1. \A d \in ToSet(dirs) \cap Handles : d \notin Waits(frames)
    BY <1>1, <1>4, <1>9, TopKnown
  <2>2. QED
    BY <1>1, <1>2, <1>9, <1>10, <1>11, <2>1, TopKnown, SetApart
<1>13. Clear(Waits(Set(f)), found \o files)
  <2> DEFINE A == Items(top) \cup Waits(frames)
             B == Waits(Set(f))
  <2>1. A \subseteq Handles /\ Clear(A, found)
    BY <1>1, TopKnown
  <2>2. ToSet(files) \cap Handles \subseteq A
    BY <1>4, <1>9
  <2>3. ToSet(files) \cap Dirs(camera) = {}
    <3> SUFFICES ASSUME NEW x \in ToSet(files) \cap Dirs(camera) PROVE FALSE
      OBVIOUS
    <3>1. x \in Under(p)
      BY <1>4, <1>9 DEF Blank, Dirs
    <3>2. QED
      BY <1>7, <1>8, <1>9, <3>1
  <2>4. B \subseteq A /\ B \cap ToSet(files) = {}
    BY <1>1, <1>4, <1>9, <1>12, TopKnown
  <2> HIDE DEF A, B
  <2>5. Clear(B, found \o files)
    BY <1>1, <1>9, <2>1, <2>2, <2>3, <2>4, ClearFound
  <2>6. QED
    BY <2>5 DEF B
<1>14. Apart(Set(f), {}, found \o files) /\ Set(f) \in Seq(FrameType)
  BY <1>1, <1>12, <1>13, SetDoes DEF Apart
<1>15. QED
  BY <1>1, <1>2, <1>10, <1>12, <1>14, DescendSound

LEMMA OnceAskInfo ==
    ASSUME TypeInv, AskInfo, missed' = {}, Sound(frames, found)
    PROVE  Sound(frames', found')
<1> DEFINE x == Head(top.all)
           rest == Tail(top.all)
<1>1. /\ frames # <<>> /\ top.at = "infos" /\ top \in FrameType /\ camera \in CameraType
      /\ top.all \in Seq(Nat) /\ top.all # <<>> /\ top.dirs \in Seq(Nat) /\ found \in Seq(Nat)
      /\ camera' = camera
  BY AskInfoDoes, TopTypes DEF TypeInv, FrameType, TopOK
<1>2. /\ Asking(top) /\ Items(top) = ToSet(top.all) \cap Handles
      /\ Distinct(top.all) /\ \A d \in ToSet(top.all) : d \in Under(top.parent) \/ Blank(d)
  BY <1>1, TopKnown DEF Asking, Items
<1>3. /\ x \in Nat /\ ToSet(top.all) = {x} \cup ToSet(rest) /\ rest \in Seq(Nat)
      /\ Distinct(rest) /\ (x \in Handles => x \notin ToSet(rest))
  BY <1>1, <1>2, HeadAndTail, DistinctParts
<1> HIDE DEF x, rest
<1>4. PICK f \in FrameType :
         /\ frames' = (IF f.all = <<>> THEN Descend(Set(f)) ELSE Set(f))
         /\ f.at = top.at /\ f.all = rest /\ f.parent = top.parent
         /\ \/ /\ x \in Photos(camera)
               /\ found' = Append(found, x) /\ f.dirs = top.dirs
            \/ /\ x \in Dirs(camera)
               /\ found' = found /\ f.dirs = Append(top.dirs, x)
            \/ /\ x \notin Handles
               /\ found' = found /\ f.dirs = top.dirs
  <2>1. missed' # missed \cup {x}
    OBVIOUS
  <2>2. QED
    BY <2>1, AskInfoDoes DEF x, rest
<1>5. Asking(f) /\ Items(f) = ToSet(rest) \cap Handles /\ Items(f) \subseteq Items(top)
  BY <1>1, <1>2, <1>3, <1>4 DEF Asking, Items
<1>6. AllKnown(Set(f)) /\ Apart(Set(f), Items(f), found')
  <2>1. CASE f.dirs = top.dirs /\ found' = found
    BY <1>1, <1>4, <1>5, <2>1, SetSame
  <2>2. CASE x \in Photos(camera) /\ found' = Append(found, x) /\ f.dirs = top.dirs
    <3>1. /\ AllKnown(Set(f)) /\ WaitOnce(Set(f)) /\ Waits(Set(f)) \subseteq Waits(frames)
          /\ Items(f) \cap Waits(Set(f)) = {}
      BY <1>1, <1>4, <1>5, <2>2, SetSame, SetApart, TopKnown DEF Apart
    <3> DEFINE A == Items(top) \cup Waits(frames)
               B == Items(f) \cup Waits(Set(f))
               one == <<x>>
    <3>2. A \subseteq Handles /\ Clear(A, found) /\ Items(top) \cap Waits(frames) = {}
      BY <1>1, TopKnown
    <3>3. /\ one \in Seq(Nat) /\ ToSet(one) = {x} /\ Distinct(one) /\ Append(found, x) = found \o one
      BY <1>1, <1>3, OneMore
    <3>4. x \in Handles /\ x \notin Dirs(camera)
      BY <2>2 DEF Photos
    <3>5. x \in Items(top) /\ x \notin Items(f) /\ x \notin Waits(frames)
      BY <1>2, <1>3, <1>5, <3>2, <3>4
    <3>6. B \subseteq A /\ x \notin B
      BY <1>5, <3>1, <3>5
    <3>7. x \in A
      BY <3>5
    <3> HIDE DEF A, B, one
    <3>8. Clear(B, found \o one)
      BY <1>1, <3>2, <3>3, <3>4, <3>6, <3>7, ClearFound
    <3>9. QED
      BY <2>2, <3>1, <3>3, <3>8 DEF Apart, B
  <2>3. CASE x \in Dirs(camera) /\ found' = found /\ f.dirs = Append(top.dirs, x)
    <3>1. x \in Handles /\ x \in Under(top.parent)
      BY <1>2, <1>3, <2>3 DEF Dirs, Blank
    <3>2. Known(x)
      BY <1>1, <2>3, <3>1, UnderIs DEF Known
    <3>3. x \in Items(top) /\ x \notin Items(f) /\ x \notin Waits(frames)
      BY <1>1, <1>2, <1>3, <1>5, <3>1, TopKnown
    <3> DEFINE ds == top.dirs
    <3>4. ds \in Seq(Nat) /\ Distinct(ds) /\ (\A d \in ToSet(ds) : Known(d)) /\ ToSet(ds) \cap Handles \subseteq Waits(frames)
      BY <1>1, TopKnown
    <3> HIDE DEF ds
    <3>5. ToSet(Append(ds, x)) = ToSet(ds) \cup {x} /\ Distinct(Append(ds, x))
      BY <1>3, <3>3, <3>4, OneMore
    <3>6. f.dirs = Append(ds, x)
      BY <2>3 DEF ds
    <3>7. \A d \in ToSet(f.dirs) \cap Handles : d \in ToSet(ds) \/ d \notin Waits(frames)
      BY <3>3, <3>5, <3>6
    <3>8. /\ AllKnown(Set(f)) /\ WaitOnce(Set(f))
          /\ Waits(Set(f)) \subseteq Waits(frames) \cup (ToSet(f.dirs) \cap Handles)
      BY <1>1, <1>4, <3>2, <3>4, <3>5, <3>6, <3>7, TopKnown, SetApart DEF ds
    <3>9. Waits(Set(f)) \subseteq Waits(frames) \cup {x}
      BY <3>4, <3>5, <3>6, <3>8
    <3>10. Items(f) \cap Waits(Set(f)) = {} /\ Items(f) \cup Waits(Set(f)) \subseteq Items(top) \cup Waits(frames)
      BY <1>1, <1>5, <3>3, <3>9, TopKnown
    <3>11. Clear(Items(f) \cup Waits(Set(f)), found)
      BY <1>1, <3>10, TopKnown, ClearFewer
    <3>12. QED
      BY <2>3, <3>8, <3>10, <3>11 DEF Apart
  <2>4. QED
    BY <1>4, <2>1, <2>2, <2>3
<1>7. CASE f.all = <<>>
  BY <1>1, <1>4, <1>6, <1>7, SetDoes, DescendSound
<1>8. CASE f.all # <<>>
  BY <1>1, <1>4, <1>5, <1>6, <1>8, SetSound
<1>9. QED
  BY <1>7, <1>8

LEMMA SameScan ==
    ASSUME camera' = camera
    PROVE  /\ Sound(frames, found)' <=> Sound(frames', found')
           /\ Untroubled' <=> missed' = {} /\ camera.filter # "rejected" /\ Fillable
<1>1. /\ \A h : Path(h)' = Path(h)
      /\ Dirs(camera)' = Dirs(camera)
  BY SameTree DEF Dirs
<1>2. \A d : Under(d)' = Under(d)
  BY DEF Under, Children
<1>3. \A d : Known(d)' <=> Known(d)
  BY <1>1, <1>2 DEF Known, Blank
<1>4. \A d : Blank(d)' <=> Blank(d)
  BY <1>2 DEF Blank
<1>5. storageIDs' = storageIDs /\ FirstCard' = FirstCard
  BY DEF storageIDs, ParseU32Array, U32Array, FirstCard
<1>6. AllKnown(frames)' <=> AllKnown(frames')
  BY <1>3 DEF AllKnown
<1>7. \A A, fd : Clear(A, fd)' <=> Clear(A, fd)
  BY <1>1 DEF Clear
<1>8. ItemsOf(frames)' = ItemsOf(frames')
  BY <1>2 DEF ItemsOf, Items
<1>9. Waits(frames)' = Waits(frames') /\ (WaitOnce(frames)' <=> WaitOnce(frames'))
  BY DEF Waits, WaitOnce, Distinct
<1>10. Apart(frames, ItemsOf(frames), found)' <=> Apart(frames', ItemsOf(frames'), found')
  BY <1>1, <1>8, <1>9 DEF Apart, Clear, Distinct
<1>11. Asking(Last(frames))' <=> Asking(Last(frames'))
  BY <1>1, <1>2, <1>4, <1>5 DEF Asking, Accepts, Distinct
<1>12. EmptyDirs' = EmptyDirs
  BY DEF EmptyDirs, Dirs, Children
<1>13. QED
  BY <1>6, <1>10, <1>11, <1>12 DEF Sound, Untroubled, Fillable

LEMMA OnceStep == ASSUME TypeInv, ModeInv, OnceInv, [Next]_vars PROVE OnceInv'
<1>1. CASE UNCHANGED vars
  <2>1. camera' = camera /\ frames' = frames /\ found' = found /\ missed' = missed
    BY <1>1 DEF vars
  <2>2. QED
    BY <2>1, SameScan DEF OnceInv, Untroubled
<1>2. CASE Next
  <2>1. camera' = camera /\ missed \subseteq missed'
    BY <1>2, ListAllDoes, ProbeDoes, ListDirsDoes, AskInfoDoes DEF Next
  <2>2. SUFFICES ASSUME missed' = {}, camera.filter # "rejected", Fillable PROVE Sound(frames', found')
    BY <2>1, SameScan DEF OnceInv
  <2>3. Sound(frames, found)
    BY <2>1, <2>2 DEF OnceInv, Untroubled
  <2>4. QED
    BY <1>2, <2>2, <2>3, OnceListAll, OnceProbe, OnceListDirs, OnceAskInfo DEF Next
<1>3. QED
  BY <1>1, <1>2

LEMMA OnceInit == ASSUME Init PROVE OnceInv
<1> DEFINE f == Frame(Root, 0)
           fs == <<f>>
<1>1. camera \in CameraType /\ frames = fs /\ found = <<>>
  BY DEF Init
<1>2. f.at = "all" /\ f.parent = Root /\ f.sids = storageIDs /\ f.dirs = <<>>
  BY DEF Frame
<1> HIDE DEF f
<1>3. fs # <<>> /\ Last(fs) = f /\ DOMAIN fs = {1} /\ fs[1] = f
  BY DEF Last
<1> HIDE DEF fs
<1>4. ToSet(<<>>) = {} /\ Distinct(<<>>)
  BY DEF ToSet, Distinct
<1>5. AllKnown(fs) /\ WaitOnce(fs) /\ Waits(fs) = {}
  BY <1>2, <1>3, <1>4 DEF AllKnown, WaitOnce, Waits
<1>6. ItemsOf(fs) = Under(Root) /\ Asking(f)
  BY <1>2, <1>3 DEF ItemsOf, Items, Asking
<1>7. Clear(Under(Root), <<>>)
  <2>1. ASSUME NEW a \in Under(Root), NEW b \in Under(Root), a \in Path(b) PROVE a = b
    <3>1. b \in Handles /\ Up(b) = Root
      BY <1>1, Constants, CountApart, UnderIs
    <3>2. Path(b) = {b}
      BY <1>1, <3>1, PathStep
    <3>3. QED
      BY <2>1, <3>2
  <2>2. QED
    BY <1>4, <2>1 DEF Clear
<1>8. QED
  BY <1>1, <1>3, <1>5, <1>6, <1>7 DEF OnceInv, Sound, Apart

(* Where nothing fails and the camera does not reject filters, no photo is *)
(* collected twice and no directory is taken for a photo, unless an empty  *)
(* directory makes collectPhotoHandles ask for parent 0 and the camera     *)
(* answers that with all it has.                                           *)
THEOREM NothingListedTwice == Spec => []ListedOnce
<1>1. Init => TypeInv /\ ModeInv /\ OnceInv
  BY InitTypes, LocalInit, OnceInit
<1>2. TypeInv /\ ModeInv /\ OnceInv /\ [Next]_vars => (TypeInv /\ ModeInv /\ OnceInv)'
  BY TypeStep, ModeStep, OnceStep
<1>3. OnceInv => ListedOnce
  BY DEF OnceInv, Sound, Apart, Clear, Distinct, Untroubled, Fillable, ListedOnce, Done
<1>4. QED
  BY <1>1, <1>2, <1>3, PTL DEF Spec

(* Together: a traversal that nothing disturbs finds each photo of the     *)
(* first storage that is not too deep at exactly one place, and no object  *)
(* that is not a photo.                                                    *)
ExactlyOnce ==
    Done /\ Untroubled =>
        /\ \A h \in Due : \E k \in DOMAIN found : \A l \in DOMAIN found : found[l] = h <=> l = k
        /\ ToSet(found) \cap Handles \subseteq Photos(camera)

THEOREM EachPhotoOnce == Spec => []ExactlyOnce
<1>1. FailureIsLocal /\ ListedOnce => ExactlyOnce
  <2> SUFFICES ASSUME FailureIsLocal, ListedOnce, Done, Untroubled PROVE ExactlyOnce
    BY DEF ExactlyOnce
  <2>1. /\ \A i, j \in DOMAIN found : found[i] = found[j] /\ found[i] \in Handles => i = j
        /\ ToSet(found) \cap Dirs(camera) = {}
    BY DEF ListedOnce, Untroubled, Fillable
  <2>2. ASSUME NEW h \in Due
        PROVE  \E k \in DOMAIN found : \A l \in DOMAIN found : found[l] = h <=> l = k
    <3>1. h \in ToSet(found) /\ h \in Handles
      BY DEF FailureIsLocal, Untroubled, Due, Photos
    <3>2. PICK k \in DOMAIN found : found[k] = h
      BY <3>1 DEF ToSet
    <3>3. QED
      BY <2>1, <3>1, <3>2
  <2>3. QED
    BY <2>1, <2>2 DEF ExactlyOnce, Photos
<1>2. QED
  BY <1>1, FailuresAreLocal, NothingListedTwice, PTL
===============================================================================
