--------------------------- MODULE DownloadProofs ---------------------------
(***************************************************************************)
(* Whatever photos, downloads and scans there may be: what validation      *)
(* drops is gone, the file follows the registry, a cancelled download      *)
(* stops, and what is recorded is saved.                                   *)
(***************************************************************************)
EXTENDS Download, DataLemmas

Transferring == {"fetching", "creating", "storing"}

LEMMA EmptyText == NoEntries \in Texts /\ DOMAIN NoEntries = {}
<1>1. NoEntries \in [{} -> Items]
  BY DEF NoEntries
<1>2. {} \in SUBSET Keys
  OBVIOUS
<1>3. QED
  BY <1>1, <1>2 DEF Texts

LEMMA TextType ==
    ASSUME NEW text \in Texts
    PROVE  DOMAIN text \subseteq Keys /\ text \in [DOMAIN text -> Items]
BY DEF Texts

LEMMA IsText ==
    ASSUME NEW K, K \subseteq Keys, NEW text \in [K -> Items]
    PROVE  text \in Texts
<1>1. K \in SUBSET Keys
  OBVIOUS
<1>2. QED
  BY <1>1 DEF Texts

LEMMA OntoText ==
    ASSUME NEW text \in Texts, NEW other \in Texts
    PROVE  Onto(text, other) \in Texts
<1>1. DOMAIN text \cup DOMAIN other \subseteq Keys
  BY TextType
<1>2. \A k \in DOMAIN text : text[k] \in Items
  BY TextType
<1>3. \A k \in DOMAIN other : other[k] \in Items
  BY TextType
<1>4. Onto(text, other) \in [DOMAIN text \cup DOMAIN other -> Items]
  BY <1>2, <1>3 DEF Onto
<1>5. QED
  BY <1>1, <1>4, IsText

LEMMA RestrictText ==
    ASSUME NEW text \in Texts, NEW S
    PROVE  Restrict(text, DOMAIN text \ S) \in Texts
<1>1. DOMAIN text \ S \subseteq Keys /\ \A k \in DOMAIN text \ S : text[k] \in Items
  BY TextType
<1>2. Restrict(text, DOMAIN text \ S) \in [DOMAIN text \ S -> Items]
  BY <1>1 DEF Restrict
<1>3. QED
  BY <1>1, <1>2, IsText

LEMMA FileTextType ==
    ASSUME disk = {} \/ \E text \in Texts : disk = {text}
    PROVE  FileText \in Texts /\ (disk # {} => disk = {FileText})
<1>1. CASE disk = {}
  BY <1>1, EmptyText DEF FileText
<1>2. CASE disk # {}
  <2>1. PICK text \in Texts : disk = {text}
    BY <1>2
  <2>2. FileText = text
    BY <2>1 DEF FileText
  <2>3. QED
    BY <2>1, <2>2
<1>3. QED
  BY <1>1, <1>2

(* An idle task, and one that saves, whatever they held before.            *)
LEMMA IdleType ==
    /\ Idle \in TaskRecords
    /\ \A text \in Texts : [Idle EXCEPT !.at = "opening", !.text = text] \in TaskRecords
    /\ \A at \in {"idle", "reading", "over"} : [Idle EXCEPT !.at = at] \in TaskRecords
BY EmptyText, EmptySeq DEF Idle, TaskRecords
-----------------------------------------------------------------------------
LEMMA SkippedProperties ==
    ASSUME NEW todo \in Seq(Photos)
    PROVE  /\ Skipped(todo) \in 0..Len(todo)
           /\ \A i \in 1..Skipped(todo) : Key(todo[i]) \in DOMAIN registry'
<1> DEFINE I == {i \in 1..Len(todo) : Key(todo[i]) \notin DOMAIN registry'}
           n == IF I # {} THEN Min(I) ELSE 0
<1>1. Len(todo) \in Nat
  BY LenProperties
<1>2. Skipped(todo) = IF n = 0 THEN Len(todo) ELSE n - 1
  BY DEF Skipped, SelectInSeq
<1>3. I \subseteq 1..Len(todo)
  OBVIOUS
<1>4. /\ n \in 0..Len(todo)
      /\ n # 0 => n \in I /\ \A i \in 1..(n - 1) : i \notin I
      /\ n = 0 => I = {}
  <2> HIDE DEF I
  <2>1. QED
    BY <1>3, SelectProperties
<1>5. QED
  <2> HIDE DEF n
  <2>1. QED
    BY <1>1, <1>2, <1>4

(* Results that are those of done, or come from the registry.              *)
Recalled(results, done) ==
    \A i \in DOMAIN results :
        \/ \E j \in DOMAIN done : results[i] = done[j]
        \/ /\ Key(results[i].photo) \in DOMAIN registry'
           /\ results[i].from = registry'[Key(results[i].photo)]

(* What a download is at after the head of its loop.                       *)
Onward(r, aborted, done) ==
    /\ r \in TaskRecords /\ r.text = NoEntries
    /\ r.at \in {"over", "dialog", "fetching", "creating"}
    /\ r.at \in Transferring => r.todo # <<>> /\ ~aborted
    /\ r.at \notin Transferring => r.todo = <<>>
    /\ r.at = "dialog" => r.done # <<>>
    /\ Recalled(r.done, done)

LEMMA GatherOnward ==
    ASSUME NEW d, NEW done, NEW before, NEW aborted,
           done \in Seq(Results), Recalled(done, before), Gather(d, done)
    PROVE  \E r : Goes(d, r) /\ Onward(r, aborted, before) /\ r.at \in {"over", "dialog"}
<1> DEFINE at == IF done = <<>> THEN "over" ELSE "dialog"
           r  == [Idle EXCEPT !.at = at, !.done = done]
<1>1. Goes(d, r)
  BY DEF Gather
<1>2. at \in {"over", "dialog"} /\ (at = "dialog" => done # <<>>)
  OBVIOUS
<1>3. /\ r \in TaskRecords /\ r.text = NoEntries /\ r.todo = <<>> /\ r.done = done
      /\ r.at = at
  <2> HIDE DEF at
  <2>1. QED
    BY <1>2, IdleType DEF Idle, TaskRecords
<1>4. Onward(r, aborted, before) /\ r.at \in {"over", "dialog"}
  <2> HIDE DEF r, at
  <2>1. QED
    BY <1>2, <1>3 DEF Onward, Transferring
<1>5. QED
  BY <1>1, <1>4

LEMMA AheadProperties ==
    ASSUME registry' \in Texts, NEW d, NEW aborted \in BOOLEAN,
           NEW todo \in Seq(Photos), NEW done \in Seq(Results),
           Ahead(d, aborted, todo, done)
    PROVE  /\ \E r : Goes(d, r) /\ Onward(r, aborted, done)
           /\ progressBar' = TRUE
           /\ downloadAborted' = (aborted /\ todo = <<>>)
<1>1. Recalled(done, done)
  BY DEF Recalled
<1>2. CASE aborted /\ todo # <<>> /\ downloadAborted' = FALSE /\ Gather(d, done)
  BY <1>1, <1>2, GatherOnward DEF Ahead
<1>3. CASE ~aborted \/ todo = <<>>
  <2> DEFINE n    == Skipped(todo)
             old  == [i \in 1..n |-> [photo |-> todo[i], from |-> registry'[Key(todo[i])]]]
             all  == done \o old
             rest == SubSeq(todo, n + 1, Len(todo))
  <2>1. /\ progressBar' = TRUE
        /\ downloadAborted' = aborted
        /\ \/ rest = <<>> /\ Gather(d, all)
           \/ /\ rest # <<>>
              /\ \E at \in {"fetching", "creating"} :
                    Goes(d, [Idle EXCEPT !.at = at, !.todo = rest, !.done = all])
    BY <1>3 DEF Ahead
  <2>2. n \in 0..Len(todo) /\ \A i \in 1..n : Key(todo[i]) \in DOMAIN registry'
    BY SkippedProperties
  <2>3. Len(todo) \in Nat /\ \A i \in 1..Len(todo) : todo[i] \in Photos
    BY LenProperties, ElementOfSeq
  <2>4. n \in Nat /\ \A i \in 1..n : i \in 1..Len(todo)
    <3> HIDE DEF n
    <3>1. QED
      BY <2>2, <2>3
  <2>5. \A k \in DOMAIN registry' : registry'[k] \in Items
    BY TextType
  <2>6. \A i \in 1..n : [photo |-> todo[i], from |-> registry'[Key(todo[i])]] \in Results
    BY <2>2, <2>3, <2>4, <2>5 DEF Results
  <2>7. old \in Seq(Results) /\ Len(old) = n /\ DOMAIN old = 1..n
    <3> HIDE DEF n
    <3>1. old \in [1..n -> Results]
      BY <2>6
    <3>2. QED
      BY <3>1, <2>4, SeqDef
  <2>8. \A i \in 1..n : old[i].photo = todo[i] /\ old[i].from = registry'[Key(todo[i])]
    OBVIOUS
  <2>9. all \in Seq(Results) /\ Recalled(all, done)
    <3> HIDE DEF old, n
    <3>1. /\ all \in Seq(Results) /\ Len(all) = Len(done) + Len(old)
          /\ \A i \in 1..(Len(done) + Len(old)) :
                all[i] = IF i <= Len(done) THEN done[i] ELSE old[i - Len(done)]
      BY <2>7, ConcatProperties
    <3>2. Len(done) \in Nat /\ DOMAIN done = 1..Len(done)
      BY LenProperties
    <3>3. DOMAIN all = 1..(Len(done) + n)
      BY <3>1, <2>7, LenProperties
    <3>4. ASSUME NEW i \in DOMAIN all
          PROVE  \/ \E j \in DOMAIN done : all[i] = done[j]
                 \/ /\ Key(all[i].photo) \in DOMAIN registry'
                    /\ all[i].from = registry'[Key(all[i].photo)]
      <4>1. CASE i <= Len(done)
        BY <4>1, <3>1, <3>2, <3>3, <2>4, <2>7
      <4>2. CASE i > Len(done)
        <5>1. i - Len(done) \in 1..n /\ all[i] = old[i - Len(done)]
          BY <4>2, <3>1, <3>2, <3>3, <2>4, <2>7
        <5>2. QED
          BY <5>1, <2>2, <2>8
      <4>3. QED
        BY <4>1, <4>2, <3>2, <3>3, <2>4
    <3>5. QED
      BY <3>1, <3>4 DEF Recalled
  <2>10. rest \in Seq(Photos)
    <3> HIDE DEF n
    <3>1. \A i \in (n + 1)..Len(todo) : todo[i] \in Photos
      BY <2>3, <2>4
    <3>2. n + 1 \in Int /\ Len(todo) \in Int
      BY <2>3, <2>4
    <3>3. QED
      BY <3>1, <3>2, SubSeqProperties
  <2>11. CASE rest = <<>> /\ Gather(d, all)
    <3> HIDE DEF all, rest, n
    <3>1. QED
      BY <2>11, <2>9, <2>1, <1>3, GatherOnward
  <2>12. CASE rest # <<>> /\ \E at \in {"fetching", "creating"} :
                    Goes(d, [Idle EXCEPT !.at = at, !.todo = rest, !.done = all])
    <3>1. ~aborted
      <4>1. SUFFICES ASSUME todo = <<>> PROVE FALSE
        BY <1>3
      <4>2. Len(todo) = 0
        BY <4>1
      <4>3. rest = <<>>
        <5> HIDE DEF n
        <5>1. n + 1 \in Int /\ 0 \in Int /\ 0 < n + 1
          BY <2>4
        <5>2. QED
          BY <5>1, <4>2, SubSeqEmpty
      <4>4. QED
        BY <4>3, <2>12
    <3> HIDE DEF all, rest, n
    <3>2. PICK at \in {"fetching", "creating"} :
              Goes(d, [Idle EXCEPT !.at = at, !.todo = rest, !.done = all])
      BY <2>12
    <3> DEFINE r == [Idle EXCEPT !.at = at, !.todo = rest, !.done = all]
    <3>3. /\ r \in TaskRecords /\ r.text = NoEntries /\ r.at = at
          /\ r.todo = rest /\ r.done = all
      BY <2>9, <2>10, IdleType DEF Idle, TaskRecords
    <3>4. Onward(r, aborted, done)
      <4> HIDE DEF r
      <4>1. QED
        BY <3>1, <3>3, <2>9, <2>12 DEF Onward, Transferring
    <3>5. Goes(d, r)
      BY <3>2
    <3>6. QED
      <4> HIDE DEF r
      <4>1. QED
        BY <3>1, <3>4, <3>5, <2>1
  <2>13. QED
    BY <2>1, <2>11, <2>12
<1>4. QED
  BY <1>2, <1>3 DEF Ahead
-----------------------------------------------------------------------------
LEMMA GoesType ==
    ASSUME TasksOK, NEW t \in Tasks, NEW r \in TaskRecords, Shaped(t, r), Goes(t, r)
    PROVE  /\ TasksOK'
           /\ task'[t] = r /\ \A x \in Tasks \ {t} : task'[x] = task[x]
<1>1. task' = [task EXCEPT ![t] = r] /\ task \in [Tasks -> TaskRecords]
  BY DEF Goes, TasksOK
<1>2. task' \in [Tasks -> TaskRecords]
  BY <1>1
<1>3. task'[t] = r /\ \A x \in Tasks \ {t} : task'[x] = task[x]
  BY <1>1
<1>4. \A x \in Tasks : Shaped(x, task'[x])
  BY <1>3 DEF TasksOK
<1>5. QED
  BY <1>2, <1>3, <1>4 DEF TasksOK, Shaped

LEMMA SaveType ==
    ASSUME TasksOK, NEW t \in Tasks, registry' \in Texts, SaveRegistry(t)
    PROVE  /\ TasksOK' /\ spoilt' \in BOOLEAN
           /\ task'[t] = [Idle EXCEPT !.at = "opening", !.text = registry']
           /\ \A x \in Tasks \ {t} : task'[x] = task[x]
<1> DEFINE r == [Idle EXCEPT !.at = "opening", !.text = registry']
<1>1. r \in TaskRecords
  BY IdleType
<1>2. Shaped(t, r)
  BY DEF Shaped, Idle
<1>3. Goes(t, r) /\ spoilt' \in BOOLEAN
  BY DEF SaveRegistry
<1>4. TasksOK' /\ task'[t] = r /\ \A x \in Tasks \ {t} : task'[x] = task[x]
  <2> HIDE DEF r
  <2>1. QED
    BY <1>1, <1>2, <1>3, GoesType
<1>5. QED
  BY <1>3, <1>4

LEMMA EndsType ==
    ASSUME TasksOK, NEW t \in Tasks, Ends(t)
    PROVE  /\ TasksOK'
           /\ \E at \in {"idle", "over"} : task'[t] = [Idle EXCEPT !.at = at]
           /\ \A x \in Tasks \ {t} : task'[x] = task[x]
<1>1. PICK at \in {"idle", "over"} : Goes(t, [Idle EXCEPT !.at = at])
  BY DEF Ends
<1> DEFINE r == [Idle EXCEPT !.at = at]
<1>2. r \in TaskRecords
  BY IdleType
<1>3. Shaped(t, r)
  BY DEF Shaped, Idle
<1>4. Goes(t, r)
  BY <1>1
<1>5. QED
  <2>1. TasksOK' /\ task'[t] = r /\ \A x \in Tasks \ {t} : task'[x] = task[x]
    <3> HIDE DEF r
    <3>1. QED
      BY <1>2, <1>3, <1>4, GoesType
  <2>2. QED
    BY <2>1

(* One task has come to its next await, or to its end.                     *)
Moves(t) == TasksOK' /\ \A x \in Tasks \ {t} : task'[x] = task[x]

(* A task that validates looks at an entry, ends, or drops what is stale.  *)
LooksAt(t, entries, stale) ==
    /\ registry' = entries /\ task'[t].at = "checking"
    /\ task'[t].text = task[t].text /\ task'[t].done = task[t].done /\ task'[t].todo = task[t].todo
    /\ task'[t].stale = stale /\ task'[t].now.key \in DOMAIN entries
    /\ task'[t].now.item = entries[task'[t].now.key]
    /\ UNCHANGED <<downloadAborted, progressBar, cancelled, spoilt, contested>>

HasValidated(t, entries) ==
    /\ registry' = entries /\ Ends(t)
    /\ \E at \in {"idle", "over"} : task'[t] = [Idle EXCEPT !.at = at]
    /\ contested' = contested \ {t} /\ UNCHANGED spoilt

Drops(t, entries, stale) ==
    /\ registry' = Restrict(entries, DOMAIN entries \ stale) /\ stale # {}
    /\ contested' = (contested \cup {x \in Tasks : task[x].at = "checking"}) \ {t}
    /\ SaveRegistry(t) /\ spoilt' \in BOOLEAN
    /\ task'[t] = [Idle EXCEPT !.at = "opening", !.text = registry']

LEMMA ValidateCases ==
    ASSUME TasksOK, NEW t \in Tasks, NEW entries \in Texts,
           NEW check \in SUBSET Keys, NEW stale \in SUBSET Keys,
           Validate(t, entries, check, stale)
    PROVE  /\ registry' \in Texts /\ Moves(t)
           /\ LooksAt(t, entries, stale) \/ HasValidated(t, entries) \/ Drops(t, entries, stale)
<1> DEFINE live == check \cap DOMAIN entries
<1>1. CASE /\ live # {} /\ registry' = entries
           /\ \E k \in live :
                Goes(t, [task[t] EXCEPT !.at = "checking", !.check = check \ {k}, !.stale = stale,
                                        !.now = [key |-> k, item |-> entries[k]]])
           /\ UNCHANGED <<downloadAborted, progressBar, cancelled, spoilt, contested>>
  <2>1. PICK k \in live :
                Goes(t, [task[t] EXCEPT !.at = "checking", !.check = check \ {k}, !.stale = stale,
                                        !.now = [key |-> k, item |-> entries[k]]])
    BY <1>1
  <2> DEFINE now == [key |-> k, item |-> entries[k]]
             r   == [task[t] EXCEPT !.at = "checking", !.check = check \ {k}, !.stale = stale, !.now = now]
  <2>2. now \in [key : Keys, item : Items] /\ k \in DOMAIN entries
    BY TextType
  <2>3. task[t] \in TaskRecords
    BY DEF TasksOK
  <2>4. /\ r \in TaskRecords /\ r.at = "checking" /\ r.text = task[t].text
        /\ r.done = task[t].done /\ r.todo = task[t].todo /\ r.stale = stale /\ r.now = now
    <3> HIDE DEF now
    <3>1. QED
      BY <2>2, <2>3 DEF TaskRecords
  <2>5. Shaped(t, r)
    <3>1. Shaped(t, task[t])
      BY DEF TasksOK
    <3> HIDE DEF now, r
    <3>2. QED
      BY <2>2, <2>4, <3>1 DEF Shaped
  <2>6. TasksOK' /\ task'[t] = r /\ \A x \in Tasks \ {t} : task'[x] = task[x]
    <3>1. Goes(t, r)
      BY <2>1
    <3> HIDE DEF r
    <3>2. QED
      BY <2>4, <2>5, <3>1, GoesType
  <2>7. now.key = k /\ now.item = entries[k]
    OBVIOUS
  <2>8. QED
    <3> HIDE DEF r, now
    <3>1. QED
      BY <1>1, <2>2, <2>4, <2>6, <2>7 DEF LooksAt, Moves
<1>2. CASE /\ live = {} /\ stale = {} /\ registry' = entries /\ Ends(t)
           /\ contested' = contested \ {t} /\ UNCHANGED spoilt
  BY <1>2, EndsType DEF HasValidated, Moves
<1>3. CASE /\ live = {} /\ stale # {}
           /\ registry' = Restrict(entries, DOMAIN entries \ stale)
           /\ contested' = (contested \cup {x \in Tasks : task[x].at = "checking"}) \ {t}
           /\ SaveRegistry(t)
  <2>1. registry' \in Texts
    BY <1>3, RestrictText
  <2>2. QED
    BY <1>3, <2>1, SaveType DEF Drops, Moves
<1>4. QED
  <2> HIDE DEF live
  <2>1. QED
    BY <1>1, <1>2, <1>3 DEF Validate, live
-----------------------------------------------------------------------------
LEMMA MovesType ==
    ASSUME TasksOK, NEW t \in Tasks, NEW r, r \in TaskRecords, Shaped(t, r), Goes(t, r)
    PROVE  Moves(t) /\ task'[t] = r
BY GoesType DEF Moves

LEMMA AheadMoves ==
    ASSUME TasksOK, registry' \in Texts, NEW d \in Downloads, NEW aborted \in BOOLEAN,
           NEW todo \in Seq(Photos), NEW done \in Seq(Results),
           Ahead(d, aborted, todo, done)
    PROVE  /\ Moves(d) /\ Onward(task'[d], aborted, done)
           /\ progressBar' = TRUE /\ downloadAborted' = (aborted /\ todo = <<>>)
<1>1. PICK r : Goes(d, r) /\ Onward(r, aborted, done)
  BY AheadProperties
<1>2. progressBar' = TRUE /\ downloadAborted' = (aborted /\ todo = <<>>)
  BY AheadProperties
<1>3. d \in Tasks
  BY DEF Tasks
<1>4. Shaped(d, r)
  BY <1>1 DEF Onward, Shaped, Transferring
<1>5. Moves(d) /\ task'[d] = r
  BY <1>1, <1>3, <1>4, MovesType DEF Onward
<1>6. QED
  BY <1>1, <1>2, <1>5

LEMMA AtMoves ==
    ASSUME TasksOK, NEW t \in Tasks, NEW at \in {"creating", "storing", "writing"},
           task[t].at \in Transferring \/ at = "writing",
           task' = [task EXCEPT ![t].at = at]
    PROVE  Moves(t) /\ task'[t] = [task[t] EXCEPT !.at = at]
<1> DEFINE r == [task[t] EXCEPT !.at = at]
<1>1. task[t] \in TaskRecords /\ Shaped(t, task[t])
  BY DEF TasksOK
<1>2. r \in TaskRecords
  BY <1>1 DEF TaskRecords
<1>3. /\ r.at = at /\ r.now = task[t].now /\ r.todo = task[t].todo /\ r.done = task[t].done
  BY <1>1 DEF TaskRecords
<1>4. Shaped(t, r)
  <2> HIDE DEF r
  <2>1. QED
    BY <1>1, <1>3 DEF Shaped, Transferring
<1>5. Goes(t, r)
  BY DEF Goes, TasksOK
<1>6. Moves(t) /\ task'[t] = r
  <2> HIDE DEF r
  <2>1. QED
    BY <1>2, <1>4, <1>5, MovesType
<1>7. QED
  BY <1>6

LEMMA TodoProperties ==
    ASSUME TasksOK, NEW d \in Downloads, task[d].at \in Transferring
    PROVE  /\ task[d].todo \in Seq(Photos) /\ task[d].todo # <<>>
           /\ Head(task[d].todo) \in Photos /\ Tail(task[d].todo) \in Seq(Photos)
           /\ FileOf(d) \in Names /\ FileOf(d) = NameOf[Head(task[d].todo)]
           /\ task[d].done \in Seq(Results)
           /\ Append(task[d].done, [photo |-> Head(task[d].todo), from |-> Sandboxed]) \in Seq(Results)
<1>1. task[d] \in TaskRecords /\ Shaped(d, task[d])
  BY DEF TasksOK, Tasks
<1>2. task[d].todo \in Seq(Photos) /\ task[d].todo # <<>> /\ task[d].done \in Seq(Results)
  BY <1>1 DEF TaskRecords, Shaped, Transferring
<1>3. Head(task[d].todo) \in Photos /\ Tail(task[d].todo) \in Seq(Photos)
  BY <1>2, HeadTailProperties
<1>4. [photo |-> Head(task[d].todo), from |-> Sandboxed] \in Results
  BY <1>3 DEF Results
<1>5. QED
  BY <1>2, <1>3, <1>4, AppendProperties DEF FileOf, Names

(* What a download has brought: the results so far, and perhaps the photo  *)
(* under way.                                                              *)
Stocked(d) == Append(task[d].done, [photo |-> Head(task[d].todo), from |-> Sandboxed])

(* A download that is transferring comes to the next await of the same     *)
(* photo, or to the head of its loop.                                      *)
LEMMA TransferCases ==
    ASSUME TypeOK, NEW d \in Downloads, Fetched(d) \/ Created(d) \/ Stored(d)
    PROVE  /\ task[d].at \in Transferring /\ Moves(d)
           /\ UNCHANGED <<memory, disk, gallery, cancelled, spoilt, contested>>
           /\ sandbox' \in [Names -> Contents]
           /\ \/ /\ UNCHANGED <<downloadAborted, progressBar>>
                 /\ \E at \in {"creating", "storing"} : task'[d] = [task[d] EXCEPT !.at = at]
              \/ /\ progressBar' = TRUE /\ downloadAborted' \in BOOLEAN
                 /\ \E done \in {task[d].done, Stocked(d)} : Onward(task'[d], downloadAborted, done)
<1>1. TasksOK /\ d \in Tasks /\ downloadAborted \in BOOLEAN /\ sandbox \in [Names -> Contents]
  BY DEF TypeOK, Tasks
<1>2. task[d].at \in Transferring
  BY DEF Fetched, Created, Stored, Transferring
<1>3. UNCHANGED <<memory, disk, gallery, cancelled, spoilt, contested>>
  BY DEF Fetched, Created, Stored, files
<1>4. registry' \in Texts
  BY <1>3 DEF TypeOK, memory
<1>5. /\ Tail(task[d].todo) \in Seq(Photos) /\ Head(task[d].todo) \in Photos
      /\ FileOf(d) \in Names
      /\ task[d].done \in Seq(Results) /\ Stocked(d) \in Seq(Results)
  BY <1>1, <1>2, TodoProperties DEF Stocked
<1>6. ASSUME NEW done \in {task[d].done, Stocked(d)},
             Ahead(d, downloadAborted, Tail(task[d].todo), done)
      PROVE  /\ Moves(d) /\ progressBar' = TRUE /\ downloadAborted' \in BOOLEAN
             /\ Onward(task'[d], downloadAborted, done)
  <2>1. done \in Seq(Results)
    BY <1>5
  <2>2. QED
    BY <1>1, <1>4, <1>5, <1>6, <2>1, AheadMoves
<1>7. ASSUME NEW at \in {"creating", "storing"}, task' = [task EXCEPT ![d].at = at]
      PROVE  Moves(d) /\ task'[d] = [task[d] EXCEPT !.at = at]
  BY <1>1, <1>2, <1>7, AtMoves
<1>8. CASE Fetched(d)
  <2>1. sandbox' = sandbox
    BY <1>8 DEF Fetched, files
  <2>2. QED
    BY <1>1, <1>2, <1>3, <1>6, <1>7, <1>8, <2>1 DEF Fetched, PassOver
<1>9. CASE Created(d)
  <2>1. CASE /\ sandbox' = [sandbox EXCEPT ![FileOf(d)] = IF @ = Absent THEN Piece ELSE @]
             /\ task' = [task EXCEPT ![d].at = "storing"]
             /\ UNCHANGED <<downloadAborted, progressBar>>
    <3>1. sandbox' \in [Names -> Contents]
      BY <1>1, <1>5, <2>1 DEF Contents
    <3>2. QED
      BY <1>2, <1>3, <1>7, <2>1, <3>1
  <2>2. CASE PassOver(d) /\ UNCHANGED sandbox
    BY <1>1, <1>2, <1>3, <1>6, <2>2 DEF PassOver
  <2>3. QED
    BY <1>9, <2>1, <2>2 DEF Created
<1>10. CASE Stored(d)
  <2> DEFINE p == Head(task[d].todo)
             n == FileOf(d)
  <2>1. CASE /\ sandbox' = [sandbox EXCEPT ![n] = IF @ = Absent THEN @ ELSE Overwritten(@, p)]
             /\ Ahead(d, downloadAborted, Tail(task[d].todo), Stocked(d))
    <3>1. sandbox' \in [Names -> Contents]
      BY <1>1, <1>5, <2>1 DEF Contents, Overwritten
    <3>2. QED
      BY <1>2, <1>3, <1>6, <2>1, <3>1
  <2>2. CASE /\ sandbox' = [sandbox EXCEPT ![n] = IF @ \in {Absent, p} THEN @ ELSE Piece]
             /\ PassOver(d)
    <3>1. sandbox' \in [Names -> Contents]
      BY <1>1, <1>5, <2>2 DEF Contents
    <3>2. QED
      BY <1>2, <1>3, <1>6, <2>2, <3>1 DEF PassOver
  <2>3. QED
    BY <1>10, <2>1, <2>2 DEF Stored, Stocked
<1>11. QED
  BY <1>8, <1>9, <1>10

LEMMA StartCases ==
    ASSUME TypeOK, NEW d \in Downloads, StartDownload(d)
    PROVE  /\ task[d].at = "idle" /\ registryLoaded /\ Moves(d)
           /\ UNCHANGED <<memory, disk, files, spoilt, contested>>
           /\ progressBar' = TRUE /\ downloadAborted' \in BOOLEAN /\ cancelled' = {}
           /\ Onward(task'[d], FALSE, <<>>)
<1>1. TasksOK /\ d \in Tasks /\ downloadAborted \in BOOLEAN
  BY DEF TypeOK, Tasks
<1>2. registry' \in Texts
  BY DEF TypeOK, memory, StartDownload
<1>3. <<>> \in Seq(Results)
  BY EmptySeq
<1>4. CASE \E batch \in Batches : Ahead(d, FALSE, batch, <<>>)
  <2>1. PICK batch \in Batches : Ahead(d, FALSE, batch, <<>>)
    BY <1>4
  <2>2. batch \in Seq(Photos)
    BY DownloadAssumption
  <2>3. Moves(d) /\ Onward(task'[d], FALSE, <<>>) /\ progressBar' = TRUE /\ downloadAborted' \in BOOLEAN
    BY <1>1, <1>2, <1>3, <2>1, <2>2, AheadMoves
  <2>4. QED
    BY <2>3 DEF StartDownload
<1>5. CASE Goes(d, [Idle EXCEPT !.at = "over"]) /\ progressBar' = TRUE /\ UNCHANGED downloadAborted
  <2> DEFINE r == [Idle EXCEPT !.at = "over"]
  <2>1. r \in TaskRecords /\ r.at = "over" /\ r.done = <<>> /\ r.todo = <<>> /\ r.text = NoEntries
    BY IdleType DEF Idle
  <2>2. Shaped(d, r) /\ Onward(r, FALSE, <<>>)
    <3> HIDE DEF r
    <3>1. Recalled(r.done, <<>>)
      BY <2>1 DEF Recalled
    <3>2. QED
      BY <2>1, <3>1 DEF Shaped, Onward, Transferring
  <2>3. Moves(d) /\ task'[d] = r
    <3>1. Goes(d, r)
      BY <1>5
    <3> HIDE DEF r
    <3>2. QED
      BY <1>1, <2>1, <2>2, <3>1, MovesType
  <2>4. Onward(task'[d], FALSE, <<>>)
    <3> HIDE DEF r
    <3>1. QED
      BY <2>2, <2>3
  <2>5. QED
    BY <1>1, <1>5, <2>3, <2>4 DEF StartDownload
<1>6. QED
  BY <1>4, <1>5 DEF StartDownload

LEMMA SourceType ==
    ASSUME TypeOK, NEW r \in Results
    PROVE  Source(r) \in Contents
<1>1. r.photo \in Photos /\ r.from \in Items \cup {Sandboxed}
  BY DEF Results
<1>2. NameOf[r.photo] \in Names
  BY <1>1 DEF Names
<1>3. QED
  BY <1>1, <1>2 DEF TypeOK, Source

(* What the gallery and the registry are after the user has agreed.        *)
LEMMA AcceptedCases ==
    ASSUME TypeOK, NEW d \in Downloads, Accepted(d)
    PROVE  /\ task[d].at = "dialog" /\ Moves(d) /\ SaveRegistry(d) /\ spoilt' \in BOOLEAN
           /\ task'[d] = [Idle EXCEPT !.at = "opening", !.text = registry']
           /\ UNCHANGED <<registryLoaded, disk, contested, downloadAborted, progressBar, cancelled>>
           /\ registry' \in Texts
           /\ gallery' \in [Items -> Contents] /\ sandbox' \in [Names -> Contents]
           /\ \A n \in Names : sandbox'[n] \in {sandbox[n], Absent}
           /\ \A u \in Items \ Fresh : gallery'[u] = gallery[u]
           /\ DOMAIN registry \subseteq DOMAIN registry'
           /\ \A k \in DOMAIN registry : registry'[k] = registry[k]
           /\ \A k \in DOMAIN registry' \ DOMAIN registry :
                 \E i \in DOMAIN task[d].done :
                    /\ Key(task[d].done[i].photo) = k /\ Source(task[d].done[i]) # Absent
                    /\ gallery'[registry'[k]] = Source(task[d].done[i])
<1> DEFINE done == task[d].done
           name(i) == NameOf[done[i].photo]
           key(i)  == Key(done[i].photo)
           keys(copied) == {key(i) : i \in copied} \ DOMAIN registry
           last(copied, k) == Max({i \in copied : key(i) = k})
           item(copied, i) == IF i \in copied THEN Source(done[i]) ELSE Piece
           moved == {name(i) : i \in {j \in DOMAIN done : done[j].from = Sandboxed}}
<1>1. PICK new \in [DOMAIN done -> Fresh],
           copied \in SUBSET {i \in DOMAIN done : Source(done[i]) # Absent} :
              /\ IsInjective(new)
              /\ gallery' = Onto([u \in ToSet(new) |-> item(copied, AntiFunction(new)[u])], gallery)
              /\ registry' = Onto([k \in keys(copied) |-> new[last(copied, k)]], registry)
              /\ sandbox' = [n \in Names |-> IF n \in moved THEN Absent ELSE sandbox[n]]
  BY DEF Accepted, Recorded
<1>2. TasksOK /\ d \in Tasks /\ task[d] \in TaskRecords
  BY DEF TypeOK, Tasks, TasksOK
<1>3. done \in Seq(Results) /\ DOMAIN done = 1..Len(done) /\ Len(done) \in Nat
  BY <1>2, LenProperties DEF TaskRecords
<1>4. \A i \in DOMAIN done : done[i] \in Results /\ Source(done[i]) \in Contents
  BY <1>3, ElementOfSeq, SourceType
<1>5. DOMAIN new = DOMAIN done /\ \A i \in DOMAIN done : new[i] \in Fresh
  OBVIOUS
<1>6. Fresh \subseteq Items
  BY DEF Fresh
<1>7. ToSet(new) = {new[i] : i \in DOMAIN done} /\ ToSet(new) \subseteq Fresh
  BY <1>5 DEF ToSet
<1>8. \A i \in DOMAIN done : AntiFunction(new)[new[i]] = i
  <2>1. SUFFICES ASSUME NEW i \in DOMAIN done PROVE AntiFunction(new)[new[i]] = i
    OBVIOUS
  <2>2. new[i] \in Range(new)
    BY <1>5 DEF Range
  <2>3. AntiFunction(new)[new[i]] = CHOOSE s \in DOMAIN new : new[i] \in Range(new) => new[s] = new[i]
    BY <2>2 DEF AntiFunction, Inverse
  <2>4. \A s \in DOMAIN new : (new[i] \in Range(new) => new[s] = new[i]) <=> s = i
    BY <1>1, <1>5, <2>2 DEF IsInjective
  <2>5. QED
    BY <2>3, <2>4, <1>5
<1>9. \A i \in DOMAIN done : item(copied, i) \in Contents
  BY <1>4 DEF Contents
<1>10. /\ \A u \in Items \ Fresh : gallery'[u] = gallery[u]
       /\ \A i \in DOMAIN done : gallery'[new[i]] = item(copied, i)
       /\ gallery' \in [Items -> Contents]
  <2> DEFINE made == [u \in ToSet(new) |-> item(copied, AntiFunction(new)[u])]
  <2>1. gallery \in [Items -> Contents]
    BY DEF TypeOK
  <2>2. \A i \in DOMAIN done : new[i] \in DOMAIN made /\ made[new[i]] = item(copied, i)
    <3> HIDE DEF item
    <3>1. QED
      BY <1>7, <1>8
  <2>3. DOMAIN made = ToSet(new)
    OBVIOUS
  <2>4. \A u \in DOMAIN made : made[u] \in Contents
    <3> HIDE DEF item, made
    <3>1. QED
      BY <1>7, <1>9, <2>2, <2>3
  <2>5. gallery' = Onto(made, gallery)
    BY <1>1
  <2> HIDE DEF made, item
  <2>6. gallery' = [u \in Items |-> IF u \in DOMAIN made THEN made[u] ELSE gallery[u]]
    BY <1>6, <1>7, <2>1, <2>3, <2>5 DEF Onto
  <2>7. QED
    BY <1>5, <1>6, <1>7, <2>1, <2>2, <2>3, <2>4, <2>6
<1>11. \A k \in keys(copied) : last(copied, k) \in copied /\ key(last(copied, k)) = k
  <2>1. SUFFICES ASSUME NEW k \in keys(copied) PROVE last(copied, k) \in copied /\ key(last(copied, k)) = k
    OBVIOUS
  <2> DEFINE T == {i \in copied : key(i) = k}
  <2>2. T # {} /\ T \subseteq 0..Len(done)
    BY <1>3
  <2>3. Max(T) \in T
    <3> HIDE DEF T
    <3>1. QED
      BY <1>3, <2>2, MaxProperties
  <2>4. QED
    BY <2>3
<1>12. \A k \in keys(copied) : new[last(copied, k)] \in Items
  <2> HIDE DEF keys, last
  <2>1. QED
    BY <1>5, <1>6, <1>11
<1>13. keys(copied) \subseteq Keys
  BY <1>4 DEF Keys, Results
<1>14. /\ DOMAIN registry' = keys(copied) \cup DOMAIN registry
       /\ \A k \in keys(copied) : registry'[k] = new[last(copied, k)]
       /\ \A k \in DOMAIN registry : registry'[k] = registry[k]
       /\ registry' \in Texts
  <2> DEFINE more == [k \in keys(copied) |-> new[last(copied, k)]]
  <2>1. keys(copied) \cap DOMAIN registry = {}
    OBVIOUS
  <2>2. registry' = Onto(more, registry)
    BY <1>1
  <2>3. DOMAIN more = keys(copied) /\ \A k \in keys(copied) : more[k] = new[last(copied, k)]
    OBVIOUS
  <2>4. more \in [keys(copied) -> Items]
    <3> HIDE DEF keys, last
    <3>1. QED
      BY <1>12
  <2> HIDE DEF more, keys, last
  <2>5. more \in Texts
    BY <1>13, <2>4, IsText
  <2>6. registry' \in Texts
    BY <2>2, <2>5, OntoText DEF TypeOK
  <2>7. QED
    BY <2>1, <2>2, <2>3, <2>6 DEF Onto
<1>15. \A k \in DOMAIN registry' \ DOMAIN registry :
          \E i \in DOMAIN done : /\ key(i) = k /\ Source(done[i]) # Absent
                                /\ gallery'[registry'[k]] = Source(done[i])
  <2>1. SUFFICES ASSUME NEW k \in DOMAIN registry' \ DOMAIN registry
                 PROVE  \E i \in DOMAIN done : /\ key(i) = k /\ Source(done[i]) # Absent
                                              /\ gallery'[registry'[k]] = Source(done[i])
    OBVIOUS
  <2>2. k \in keys(copied)
    BY <1>14
  <2> DEFINE i == last(copied, k)
  <2>3. i \in copied /\ key(i) = k /\ registry'[k] = new[i]
    <3> HIDE DEF keys, last
    <3>1. QED
      BY <2>2, <1>11, <1>14
  <2>4. i \in DOMAIN done /\ Source(done[i]) # Absent
    <3> HIDE DEF last
    <3>1. QED
      BY <2>3
  <2>5. gallery'[new[i]] = Source(done[i])
    <3> HIDE DEF last
    <3>1. QED
      BY <1>10, <2>3, <2>4
  <2>6. QED
    <3> HIDE DEF last
    <3>1. QED
      BY <2>3, <2>4, <2>5
<1>16. sandbox' \in [Names -> Contents] /\ \A n \in Names : sandbox'[n] \in {sandbox[n], Absent}
  <2> HIDE DEF moved
  <2>1. QED
    BY <1>1 DEF TypeOK, Contents
<1>17. /\ task[d].at = "dialog" /\ SaveRegistry(d)
       /\ UNCHANGED <<registryLoaded, disk, contested, downloadAborted, progressBar, cancelled>>
  BY DEF Accepted, SaveRegistry
<1>18. /\ Moves(d) /\ spoilt' \in BOOLEAN
       /\ task'[d] = [Idle EXCEPT !.at = "opening", !.text = registry']
  BY <1>2, <1>14, <1>17, SaveType DEF Moves
<1>19. QED
  BY <1>10, <1>14, <1>15, <1>16, <1>17, <1>18

LEMMA CheckedCases ==
    ASSUME TypeOK, NEW t \in Tasks, Checked(t)
    PROVE  /\ task[t].at = "checking" /\ task[t].now.key \in Keys
           /\ UNCHANGED <<registryLoaded, disk, files>>
           /\ registry' \in Texts /\ Moves(t)
           /\ LET stale == task[t].stale \cup (IF Gone(task[t].now) THEN {task[t].now.key} ELSE {})
              IN LooksAt(t, registry, stale) \/ HasValidated(t, registry) \/ Drops(t, registry, stale)
<1> DEFINE stale == task[t].stale \cup (IF Gone(task[t].now) THEN {task[t].now.key} ELSE {})
<1>1. TasksOK /\ registry \in Texts /\ task[t] \in TaskRecords /\ Shaped(t, task[t])
  BY DEF TypeOK, TasksOK
<1>2. task[t].at = "checking"
  BY DEF Checked
<1>3. task[t].now.key \in Keys
  BY <1>1, <1>2 DEF Shaped
<1>4. task[t].check \in SUBSET Keys /\ stale \in SUBSET Keys
  BY <1>1, <1>3 DEF TaskRecords
<1>5. Validate(t, registry, task[t].check, stale)
  BY DEF Checked
<1>6. /\ registry' \in Texts /\ Moves(t)
      /\ LooksAt(t, registry, stale) \/ HasValidated(t, registry) \/ Drops(t, registry, stale)
  <2> HIDE DEF stale
  <2>1. QED
    BY <1>1, <1>4, <1>5, ValidateCases
<1>7. QED
  BY <1>2, <1>3, <1>6 DEF Checked

LEMMA ReadCases ==
    ASSUME TypeOK, NEW t \in Tasks, Read(t)
    PROVE  /\ task[t].at = "reading" /\ registryLoaded' = TRUE
           /\ UNCHANGED <<disk, files>>
           /\ registry' \in Texts /\ Moves(t)
           /\ \/ LooksAt(t, Onto(FileText, registry), {})
              \/ HasValidated(t, Onto(FileText, registry))
<1> DEFINE entries == Onto(FileText, registry)
<1>1. TasksOK /\ registry \in Texts
  BY DEF TypeOK
<1>2. FileText \in Texts
  BY FileTextType DEF TypeOK
<1>3. entries \in Texts
  BY <1>1, <1>2, OntoText
<1>4. Validate(t, entries, DOMAIN entries, {})
  BY DEF Read
<1>5. /\ registry' \in Texts /\ Moves(t)
      /\ LooksAt(t, entries, {}) \/ HasValidated(t, entries) \/ Drops(t, entries, {})
  <2> HIDE DEF entries
  <2>1. DOMAIN entries \in SUBSET Keys
    BY <1>3, TextType
  <2>2. QED
    BY <1>1, <1>3, <1>4, <2>1, ValidateCases
<1>6. QED
  BY <1>5 DEF Read, Drops

LEMMA ScanCases ==
    ASSUME TypeOK, NEW t \in Validations, ScanEnds(t)
    PROVE  /\ task[t].at = "idle" /\ registry # NoEntries
           /\ UNCHANGED <<registryLoaded, disk, files>>
           /\ registry' \in Texts /\ Moves(t)
           /\ LooksAt(t, registry, {}) \/ HasValidated(t, registry)
<1>1. TasksOK /\ registry \in Texts /\ t \in Tasks
  BY DEF TypeOK, Tasks
<1>2. Validate(t, registry, DOMAIN registry, {}) /\ DOMAIN registry \in SUBSET Keys
  BY <1>1, TextType DEF ScanEnds
<1>3. /\ registry' \in Texts /\ Moves(t)
      /\ LooksAt(t, registry, {}) \/ HasValidated(t, registry) \/ Drops(t, registry, {})
  BY <1>1, <1>2, ValidateCases
<1>4. QED
  BY <1>3 DEF ScanEnds, Drops

LEMMA OpenedCases ==
    ASSUME TypeOK, NEW t \in Tasks, Opened(t)
    PROVE  /\ task[t].at = "opening" /\ Moves(t)
           /\ UNCHANGED <<memory, files, contested>>
           /\ \/ /\ disk' = {} /\ task'[t] = [task[t] EXCEPT !.at = "writing"]
                 /\ UNCHANGED <<downloadAborted, progressBar, cancelled, spoilt>>
              \/ /\ Ends(t) /\ spoilt' = TRUE /\ UNCHANGED disk
                 /\ \E at \in {"idle", "over"} : task'[t] = [Idle EXCEPT !.at = at]
<1>1. TasksOK
  BY DEF TypeOK
<1>2. CASE /\ disk' = {} /\ task' = [task EXCEPT ![t].at = "writing"]
           /\ UNCHANGED <<downloadAborted, progressBar, cancelled, spoilt>>
  BY <1>1, <1>2, AtMoves DEF Opened
<1>3. CASE Ends(t) /\ spoilt' = TRUE /\ UNCHANGED disk
  BY <1>1, <1>3, EndsType DEF Opened, Moves
<1>4. QED
  BY <1>2, <1>3 DEF Opened

LEMMA WrittenCases ==
    ASSUME TypeOK, NEW t \in Tasks, Written(t)
    PROVE  /\ task[t].at = "writing" /\ Moves(t) /\ Ends(t)
           /\ \E at \in {"idle", "over"} : task'[t] = [Idle EXCEPT !.at = at]
           /\ UNCHANGED <<memory, files, contested>>
           /\ \/ disk' = {task[t].text} /\ UNCHANGED spoilt
              \/ disk' = {} /\ disk \notin {{}, {task[t].text}} /\ UNCHANGED spoilt
              \/ disk' = {} /\ spoilt' = TRUE
<1>1. TasksOK /\ Ends(t)
  BY DEF TypeOK, Written
<1>2. QED
  BY <1>1, EndsType DEF Written, Moves

LEMMA RefusedCases ==
    ASSUME TypeOK, NEW d \in Downloads, Refused(d)
    PROVE  /\ task[d].at = "dialog" /\ Moves(d) /\ SaveRegistry(d) /\ spoilt' \in BOOLEAN
           /\ task'[d] = [Idle EXCEPT !.at = "opening", !.text = registry']
           /\ UNCHANGED <<memory, disk, files, contested, downloadAborted, progressBar, cancelled>>
<1>1. TasksOK /\ d \in Tasks /\ registry' \in Texts
  BY DEF TypeOK, Tasks, Refused
<1>2. SaveRegistry(d)
  BY DEF Refused
<1>3. QED
  BY <1>1, <1>2, SaveType DEF Refused, SaveRegistry, Moves, memory

LEMMA HideCases ==
    ASSUME TypeOK, NEW d \in Downloads, HideProgress(d)
    PROVE  /\ task[d].at = "over" /\ Moves(d) /\ task'[d] = Idle /\ progressBar' = FALSE
           /\ UNCHANGED <<memory, downloadAborted, disk, files, cancelled, spoilt, contested>>
<1>1. TasksOK /\ d \in Tasks /\ Goes(d, Idle)
  BY DEF TypeOK, Tasks, HideProgress
<1>2. Idle \in TaskRecords /\ Shaped(d, Idle)
  BY IdleType DEF Shaped, Idle
<1>3. QED
  BY <1>1, <1>2, MovesType DEF HideProgress

LEMMA LaunchedType ==
    /\ Launched \in [Tasks -> TaskRecords]
    /\ \A t \in Tasks : /\ Shaped(t, Launched[t]) /\ Launched[t].at \in {"idle", "reading"}
                        /\ Launched[t].at = "reading" => t = "launch"
                        /\ Launched[t].text = NoEntries /\ Launched[t].done = <<>> /\ Launched[t].todo = <<>>
<1>1. \A t \in Tasks : Launched[t] = IF t = "launch" THEN [Idle EXCEPT !.at = "reading"] ELSE Idle
  BY DEF Launched
<1>2. \A t \in Tasks : Launched[t] \in TaskRecords
  BY <1>1, IdleType
<1>3. QED
  BY <1>1, <1>2 DEF Launched, Shaped, Idle
-----------------------------------------------------------------------------
LEMMA BooleansType ==
    ASSUME TypeOK
    PROVE  /\ registryLoaded \in BOOLEAN /\ downloadAborted \in BOOLEAN
           /\ progressBar \in BOOLEAN /\ spoilt \in BOOLEAN
BY DEF TypeOK

LEMMA TypeInit == Init => TypeOK
<1> SUFFICES ASSUME Init PROVE TypeOK
  OBVIOUS
<1>1. registry \in Texts /\ disk = {}
  BY EmptyText DEF Init
<1>2. sandbox \in [Names -> Contents] /\ gallery \in [Items -> Contents]
  BY DEF Init, Contents
<1>3. TasksOK
  BY LaunchedType DEF Init, TasksOK
<1>4. QED
  BY <1>1, <1>2, <1>3 DEF Init, TypeOK

(* What has to be shown of a step in which one task moves.                 *)
LEMMA TypeOfStep ==
    ASSUME registry' \in Texts,
           disk' = {} \/ \E text \in Texts : disk' = {text},
           registryLoaded' \in BOOLEAN, downloadAborted' \in BOOLEAN,
           progressBar' \in BOOLEAN, spoilt' \in BOOLEAN,
           sandbox' \in [Names -> Contents], gallery' \in [Items -> Contents],
           TasksOK', cancelled' \subseteq Downloads, contested' \subseteq Tasks
    PROVE  TypeOK'
BY DEF TypeOK

LEMMA TextOfTask ==
    ASSUME TasksOK, NEW t \in Tasks
    PROVE  task[t].text \in Texts /\ task[t] \in TaskRecords /\ Shaped(t, task[t])
BY DEF TasksOK, TaskRecords

LEMMA EndsFlags ==
    ASSUME TypeOK, NEW t, Ends(t)
    PROVE  progressBar' \in BOOLEAN /\ UNCHANGED <<downloadAborted, cancelled>>
BY BooleansType DEF Ends

LEMMA TypeStep == TypeOK /\ [Next]_vars => TypeOK'
<1> SUFFICES ASSUME TypeOK, [Next]_vars PROVE TypeOK'
  OBVIOUS
<1>1. /\ registry \in Texts /\ TasksOK
      /\ disk = {} \/ \E text \in Texts : disk = {text}
      /\ registryLoaded \in BOOLEAN /\ downloadAborted \in BOOLEAN
      /\ progressBar \in BOOLEAN /\ spoilt \in BOOLEAN
      /\ sandbox \in [Names -> Contents] /\ gallery \in [Items -> Contents]
      /\ cancelled \subseteq Downloads /\ contested \subseteq Tasks
  BY DEF TypeOK
<1>2. ASSUME NEW t \in Tasks, NEW entries, NEW stale,
             registry' \in Texts, Moves(t), UNCHANGED <<disk, files>>, registryLoaded' \in BOOLEAN,
             LooksAt(t, entries, stale) \/ HasValidated(t, entries) \/ Drops(t, entries, stale)
      PROVE  TypeOK'
  <2>1. UNCHANGED <<disk, sandbox, gallery>>
    BY <1>2 DEF files
  <2>2. CASE LooksAt(t, entries, stale)
    BY <1>1, <1>2, <2>1, <2>2, TypeOfStep DEF LooksAt, Moves
  <2>3. CASE HasValidated(t, entries)
    <3>1. Ends(t) /\ UNCHANGED spoilt /\ contested' \subseteq Tasks
      BY <1>1, <2>3 DEF HasValidated
    <3>2. QED
      BY <1>1, <1>2, <2>1, <3>1, EndsFlags, TypeOfStep DEF Moves
  <2>4. CASE Drops(t, entries, stale)
    <3>1. UNCHANGED <<downloadAborted, progressBar, cancelled>> /\ spoilt' \in BOOLEAN /\ contested' \subseteq Tasks
      BY <1>1, <2>4 DEF Drops, SaveRegistry
    <3>2. QED
      BY <1>1, <1>2, <2>1, <3>1, TypeOfStep DEF Moves
  <2>5. QED
    BY <1>2, <2>2, <2>3, <2>4
<1>3. ASSUME NEW t \in Tasks, Read(t) PROVE TypeOK'
  BY <1>2, <1>3, ReadCases
<1>4. ASSUME NEW t \in Tasks, Checked(t) PROVE TypeOK'
  <2>1. registryLoaded' \in BOOLEAN
    BY <1>1, <1>4 DEF Checked
  <2>2. QED
    BY <1>2, <1>4, <2>1, CheckedCases
<1>5. ASSUME NEW v \in Validations, ScanEnds(v) PROVE TypeOK'
  <2>1. registryLoaded' \in BOOLEAN /\ v \in Tasks
    BY <1>1, <1>5 DEF ScanEnds, Tasks
  <2>2. QED
    BY <1>2, <1>5, <2>1, ScanCases
<1>6. ASSUME NEW t \in Tasks, Opened(t) PROVE TypeOK'
  <2>1. Moves(t) /\ UNCHANGED <<memory, files, contested>>
    BY <1>6, OpenedCases
  <2>2. UNCHANGED <<registry, registryLoaded, sandbox, gallery>> /\ TasksOK'
    BY <2>1 DEF memory, files, Moves
  <2>3. CASE disk' = {} /\ UNCHANGED <<downloadAborted, progressBar, cancelled, spoilt>>
    BY <1>1, <2>1, <2>2, <2>3, TypeOfStep
  <2>4. CASE Ends(t) /\ spoilt' = TRUE /\ UNCHANGED disk
    BY <1>1, <2>1, <2>2, <2>4, EndsFlags, TypeOfStep
  <2>5. QED
    BY <1>6, <2>3, <2>4, OpenedCases
<1>7. ASSUME NEW t \in Tasks, Written(t) PROVE TypeOK'
  <2>1. Moves(t) /\ Ends(t) /\ UNCHANGED <<memory, files, contested>> /\ spoilt' \in BOOLEAN
        /\ disk' \in {{}, {task[t].text}}
    BY <1>1, <1>7, WrittenCases
  <2>2. UNCHANGED <<registry, registryLoaded, sandbox, gallery>> /\ TasksOK'
    BY <2>1 DEF memory, files, Moves
  <2>3. QED
    BY <1>1, <2>1, <2>2, EndsFlags, TextOfTask, TypeOfStep
<1>8. ASSUME NEW d \in Downloads, StartDownload(d) PROVE TypeOK'
  <2>1. /\ Moves(d) /\ UNCHANGED <<memory, disk, files, spoilt, contested>>
        /\ progressBar' = TRUE /\ downloadAborted' \in BOOLEAN /\ cancelled' = {}
    BY <1>8, StartCases
  <2>2. UNCHANGED <<registry, registryLoaded, sandbox, gallery>> /\ TasksOK'
    BY <2>1 DEF memory, files, Moves
  <2>3. QED
    BY <1>1, <2>1, <2>2, TypeOfStep
<1>9. ASSUME NEW d \in Downloads, Fetched(d) \/ Created(d) \/ Stored(d) PROVE TypeOK'
  <2>1. /\ Moves(d) /\ UNCHANGED <<memory, disk, gallery, cancelled, spoilt, contested>>
        /\ sandbox' \in [Names -> Contents]
        /\ progressBar' \in BOOLEAN /\ downloadAborted' \in BOOLEAN
    BY <1>1, <1>9, TransferCases
  <2>2. UNCHANGED <<registry, registryLoaded>> /\ TasksOK'
    BY <2>1 DEF memory, Moves
  <2>3. QED
    BY <1>1, <2>1, <2>2, TypeOfStep
<1>10. ASSUME NEW d \in Downloads, Refused(d) PROVE TypeOK'
  <2>1. /\ Moves(d) /\ spoilt' \in BOOLEAN
        /\ UNCHANGED <<memory, disk, files, contested, downloadAborted, progressBar, cancelled>>
    BY <1>10, RefusedCases
  <2>2. UNCHANGED <<registry, registryLoaded, sandbox, gallery>> /\ TasksOK'
    BY <2>1 DEF memory, files, Moves
  <2>3. QED
    BY <1>1, <2>1, <2>2, TypeOfStep
<1>11. ASSUME NEW d \in Downloads, Accepted(d) PROVE TypeOK'
  <2>1. /\ Moves(d) /\ spoilt' \in BOOLEAN /\ registry' \in Texts
        /\ gallery' \in [Items -> Contents] /\ sandbox' \in [Names -> Contents]
        /\ UNCHANGED <<registryLoaded, disk, contested, downloadAborted, progressBar, cancelled>>
    BY <1>11, AcceptedCases
  <2>2. TasksOK'
    BY <2>1 DEF Moves
  <2>3. QED
    BY <1>1, <2>1, <2>2, TypeOfStep
<1>12. ASSUME NEW d \in Downloads, HideProgress(d) PROVE TypeOK'
  <2>1. /\ Moves(d) /\ progressBar' = FALSE
        /\ UNCHANGED <<memory, downloadAborted, disk, files, cancelled, spoilt, contested>>
    BY <1>12, HideCases
  <2>2. UNCHANGED <<registry, registryLoaded, sandbox, gallery>> /\ TasksOK'
    BY <2>1 DEF memory, files, Moves
  <2>3. QED
    BY <1>1, <2>1, <2>2, TypeOfStep
<1>13. ASSUME NEW u \in Items, DeleteItem(u) PROVE TypeOK'
  <2>1. UNCHANGED <<registry, registryLoaded, downloadAborted, disk, sandbox, progressBar, task,
                    cancelled, spoilt, contested>>
    BY <1>13 DEF DeleteItem, memory
  <2>2. gallery' \in [Items -> Contents]
    BY <1>1, <1>13 DEF DeleteItem, Contents
  <2>3. TasksOK'
    BY <1>1, <2>1 DEF TasksOK
  <2>4. QED
    BY <1>1, <2>1, <2>2, <2>3, TypeOfStep
<1>14. CASE CancelDownload
  <2>1. /\ UNCHANGED <<registry, registryLoaded, disk, sandbox, gallery, task, spoilt, contested>>
        /\ progressBar' = FALSE /\ downloadAborted' = TRUE
    BY <1>14 DEF CancelDownload, memory, files
  <2>2. cancelled' \subseteq Downloads
    BY <1>1, <1>14 DEF CancelDownload, Looping
  <2>3. TasksOK'
    BY <1>1, <2>1 DEF TasksOK
  <2>4. QED
    BY <1>1, <2>1, <2>2, <2>3, TypeOfStep
<1>15. CASE Relaunch
  <2>1. /\ UNCHANGED <<disk, sandbox, gallery>> /\ registry' = NoEntries
        /\ registryLoaded' = FALSE /\ downloadAborted' = FALSE /\ progressBar' = FALSE
        /\ cancelled' = {} /\ contested' = {} /\ task' = Launched /\ spoilt' \in BOOLEAN
    BY <1>1, <1>15 DEF Relaunch, files
  <2>2. TasksOK'
    BY <2>1, LaunchedType DEF TasksOK
  <2>3. QED
    BY <1>1, <2>1, <2>2, EmptyText, TypeOfStep
<1>16. CASE UNCHANGED vars
  <2>1. UNCHANGED <<registry, registryLoaded, downloadAborted, disk, sandbox, gallery, progressBar, task,
                    cancelled, spoilt, contested>>
    BY <1>16 DEF vars, memory, files
  <2>2. TasksOK'
    BY <1>1, <2>1 DEF TasksOK
  <2>3. QED
    BY <1>1, <2>1, <2>2, TypeOfStep
<1>17. QED
  BY <1>3, <1>4, <1>5, <1>6, <1>7, <1>8, <1>9, <1>10, <1>11, <1>12, <1>13, <1>14, <1>15, <1>16
  DEF Next, Steps, Transfer

(* For any photos, downloads and scans under way at once, the registry,    *)
(* its file, the files and the tasks keep their types.                     *)
THEOREM TypeCorrect == Spec => []TypeOK
<1>1. QED
  BY TypeInit, TypeStep, PTL DEF Spec
-----------------------------------------------------------------------------
(* Until the file has been read nothing but the reading is under way.      *)
Unread ==
    IF registryLoaded THEN \A t \in Tasks : task[t].at # "reading"
                      ELSE registry = NoEntries /\ task = Launched

(* One task saves the registry as it is.                                   *)
OnlySaver(t) ==
    /\ Saving(t) /\ task[t].text = registry
    /\ task[t].at = "writing" => disk = {}
    /\ \A o \in Tasks \ {t} : ~Saving(o)

(* The file is current, or becomes so when the task that saves has ended.  *)
Current ==
    registryLoaded /\ ~spoilt =>
        \/ (\A t \in Tasks : ~Saving(t)) /\ registry = FileText
        \/ \E t \in Tasks : OnlySaver(t)

FileInv == TypeOK /\ Unread /\ Current

LEMMA UnreadRest ==
    ASSUME Unread, ~registryLoaded, NEW t \in Tasks
    PROVE  task[t].at \in {"idle", "reading"} /\ ~Saving(t)
BY LaunchedType DEF Unread, Saving

(* A step in which nobody begins or ends to save.                          *)
LEMMA QuietStep ==
    ASSUME FileInv, UNCHANGED <<registry, registryLoaded, disk, spoilt>>,
           NEW t \in Tasks, \A x \in Tasks \ {t} : task'[x] = task[x],
           ~Saving(t), task'[t].at \notin {"reading", "opening", "writing"},
           task[t].at \in {"idle", "reading"} => registryLoaded
    PROVE  Unread' /\ Current'
<1>1. registryLoaded
  BY UnreadRest DEF FileInv
<1>2. FileText' = FileText
  BY DEF FileText
<1>3. \A x \in Tasks : Saving(x)' <=> Saving(x)
  BY DEF Saving
<1>4. \A x \in Tasks : Saving(x) => task'[x] = task[x]
  OBVIOUS
<1>5. \A x \in Tasks : OnlySaver(x) => OnlySaver(x)'
  BY <1>3, <1>4 DEF OnlySaver
<1>6. QED
  BY <1>1, <1>2, <1>3, <1>5 DEF FileInv, Unread, Current

LEMMA SaveBegins ==
    ASSUME Unread, registryLoaded, NEW t \in Tasks, ~Saving(t), Moves(t), SaveRegistry(t), registryLoaded',
           task'[t] = [Idle EXCEPT !.at = "opening", !.text = registry']
    PROVE  Unread' /\ Current'
<1>1. Unread'
  BY DEF Unread, Moves, Idle
<1>2. Saving(t)' /\ task'[t].text = registry' /\ task'[t].at = "opening"
  BY DEF Saving, Idle
<1>3. SUFFICES ASSUME ~spoilt' PROVE OnlySaver(t)'
  BY <1>1 DEF Current
<1>4. \A o \in Tasks \ {t} : ~Saving(o)
  BY <1>3 DEF SaveRegistry
<1>5. \A o \in Tasks \ {t} : ~Saving(o)'
  BY <1>4 DEF Moves, Saving
<1>6. QED
  BY <1>2, <1>5 DEF OnlySaver

LEMMA ValidateFile ==
    ASSUME FileInv, NEW t \in Tasks, UNCHANGED <<registryLoaded, disk>>, registryLoaded,
           ~Saving(t), Moves(t), NEW stale,
           LooksAt(t, registry, stale) \/ HasValidated(t, registry) \/ Drops(t, registry, stale)
    PROVE  Unread' /\ Current'
<1>1. CASE LooksAt(t, registry, stale) \/ HasValidated(t, registry)
  <2>1. UNCHANGED <<registry, spoilt>> /\ task'[t].at \notin {"reading", "opening", "writing"}
    BY <1>1 DEF LooksAt, HasValidated, Idle
  <2>2. QED
    BY <2>1, QuietStep DEF Moves
<1>2. CASE Drops(t, registry, stale)
  BY <1>2, SaveBegins DEF Drops, FileInv
<1>3. QED
  BY <1>1, <1>2

LEMMA OntoNothing ==
    ASSUME NEW text \in Texts
    PROVE  Onto(text, NoEntries) = text
<1>1. text \in [DOMAIN text -> Items]
  BY TextType
<1>2. DOMAIN text \cup DOMAIN NoEntries = DOMAIN text
  BY EmptyText
<1>3. QED
  BY <1>1, <1>2 DEF Onto

LEMMA FileStep == FileInv /\ [Next]_vars => FileInv'
<1> SUFFICES ASSUME FileInv, [Next]_vars PROVE Unread' /\ Current'
  BY TypeStep DEF FileInv
<1>0. TypeOK /\ Unread /\ Current /\ registryLoaded \in BOOLEAN
  BY BooleansType DEF FileInv
<1>1. ASSUME NEW t \in Tasks, Read(t) PROVE Unread' /\ Current'
  <2>1. /\ task[t].at = "reading" /\ registryLoaded' = TRUE /\ UNCHANGED disk /\ Moves(t)
        /\ \/ LooksAt(t, Onto(FileText, registry), {})
           \/ HasValidated(t, Onto(FileText, registry))
    BY <1>0, <1>1, ReadCases
  <2>2. /\ UNCHANGED spoilt /\ registry' = Onto(FileText, registry)
        /\ task'[t].at \notin {"reading", "opening", "writing"}
    BY <2>1 DEF LooksAt, HasValidated, Idle
  <2>3. ~registryLoaded
    BY <1>0, <2>1 DEF Unread
  <2>4. registry = NoEntries /\ FileText \in Texts /\ task = Launched
    BY <1>0, <2>3, FileTextType DEF Unread, TypeOK
  <2>5. registry' = FileText /\ FileText' = FileText
    BY <2>1, <2>2, <2>4, OntoNothing DEF FileText
  <2>6. \A x \in Tasks : task'[x].at \notin {"reading", "opening", "writing"}
    BY <2>1, <2>2, <2>4, LaunchedType DEF Moves
  <2>7. QED
    BY <2>1, <2>5, <2>6 DEF Unread, Current, Saving
<1>2. ASSUME NEW t \in Tasks, task[t].at \notin {"idle", "reading"} PROVE registryLoaded
  BY <1>0, <1>2, UnreadRest
<1>3. ASSUME NEW t \in Tasks, Checked(t) PROVE Unread' /\ Current'
  <2> DEFINE stale == task[t].stale \cup (IF Gone(task[t].now) THEN {task[t].now.key} ELSE {})
  <2>1. /\ task[t].at = "checking" /\ UNCHANGED <<registryLoaded, disk>> /\ Moves(t)
        /\ LooksAt(t, registry, stale) \/ HasValidated(t, registry) \/ Drops(t, registry, stale)
    BY <1>0, <1>3, CheckedCases
  <2> HIDE DEF stale
  <2>2. ~Saving(t) /\ registryLoaded
    BY <1>2, <2>1 DEF Saving
  <2>3. QED
    BY <2>1, <2>2, ValidateFile
<1>4. ASSUME NEW v \in Validations, ScanEnds(v) PROVE Unread' /\ Current'
  <2>1. /\ task[v].at = "idle" /\ registry # NoEntries /\ UNCHANGED <<registryLoaded, disk>> /\ Moves(v)
        /\ LooksAt(v, registry, {}) \/ HasValidated(v, registry)
    BY <1>0, <1>4, ScanCases
  <2>2. ~Saving(v) /\ registryLoaded /\ v \in Tasks
    BY <1>0, <2>1 DEF Saving, Unread, Tasks
  <2>3. QED
    BY <2>1, <2>2, ValidateFile
<1>5. ASSUME NEW t \in Tasks, Opened(t) PROVE Unread' /\ Current'
  <2>1. task[t].at = "opening" /\ Moves(t) /\ UNCHANGED <<registry, registryLoaded>>
    BY <1>0, <1>5, OpenedCases DEF memory
  <2>2. registryLoaded /\ Saving(t)
    BY <1>2, <2>1 DEF Saving
  <2>3. CASE /\ disk' = {} /\ task'[t] = [task[t] EXCEPT !.at = "writing"] /\ UNCHANGED spoilt
    <3>1. task'[t].at = "writing" /\ task'[t].text = task[t].text
      BY <1>0, <2>3, TextOfTask DEF TypeOK, TaskRecords
    <3>2. Unread'
      BY <1>0, <2>1, <2>2, <3>1 DEF Unread, Moves
    <3>3. ASSUME ~spoilt PROVE OnlySaver(t)'
      <4>1. PICK x \in Tasks : OnlySaver(x)
        BY <1>0, <2>2, <2>3, <3>3 DEF Current
      <4>2. x = t
        BY <2>2, <4>1 DEF OnlySaver
      <4>3. QED
        BY <2>1, <2>3, <3>1, <4>1, <4>2 DEF OnlySaver, Saving, Moves
    <3>4. QED
      BY <2>3, <3>2, <3>3 DEF Current
  <2>4. CASE spoilt' = TRUE /\ \E at \in {"idle", "over"} : task'[t] = [Idle EXCEPT !.at = at]
    BY <1>0, <2>1, <2>2, <2>4 DEF Unread, Current, Moves, Idle
  <2>5. QED
    BY <1>0, <1>5, <2>3, <2>4, OpenedCases
<1>6. ASSUME NEW t \in Tasks, Written(t) PROVE Unread' /\ Current'
  <2>1. /\ task[t].at = "writing" /\ Moves(t) /\ UNCHANGED <<registry, registryLoaded>>
        /\ \E at \in {"idle", "over"} : task'[t] = [Idle EXCEPT !.at = at]
        /\ \/ disk' = {task[t].text} /\ UNCHANGED spoilt
           \/ disk' = {} /\ disk \notin {{}, {task[t].text}} /\ UNCHANGED spoilt
           \/ disk' = {} /\ spoilt' = TRUE
    BY <1>0, <1>6, WrittenCases DEF memory
  <2>2. registryLoaded /\ Saving(t) /\ ~Saving(t)'
    BY <1>2, <2>1 DEF Saving, Idle
  <2>3. Unread'
    BY <1>0, <2>1, <2>2 DEF Unread, Moves, Idle
  <2>4. SUFFICES ASSUME ~spoilt' PROVE (\A x \in Tasks : ~Saving(x)') /\ registry' = FileText'
    BY <2>3 DEF Current
  <2>5. PICK x \in Tasks : OnlySaver(x)
    BY <1>0, <2>1, <2>2, <2>4 DEF Current
  <2>6. x = t /\ disk = {} /\ task[t].text = registry
    BY <2>1, <2>2, <2>5 DEF OnlySaver
  <2>7. \A o \in Tasks : ~Saving(o)'
    BY <2>1, <2>2, <2>5, <2>6 DEF OnlySaver, Saving, Moves
  <2>8. disk' = {registry}
    BY <2>1, <2>4, <2>6
  <2>9. QED
    BY <2>1, <2>7, <2>8 DEF FileText
<1>7. ASSUME NEW d \in Downloads, StartDownload(d) PROVE Unread' /\ Current'
  <2>1. /\ task[d].at = "idle" /\ registryLoaded /\ Moves(d)
        /\ UNCHANGED <<registry, registryLoaded, disk, spoilt>> /\ Onward(task'[d], FALSE, <<>>)
    BY <1>0, <1>7, StartCases DEF memory
  <2>2. d \in Tasks /\ ~Saving(d) /\ task'[d].at \notin {"reading", "opening", "writing"}
    BY <2>1 DEF Tasks, Saving, Onward
  <2>3. QED
    BY <2>1, <2>2, QuietStep DEF Moves
<1>8. ASSUME NEW d \in Downloads, Fetched(d) \/ Created(d) \/ Stored(d) PROVE Unread' /\ Current'
  <2>1. /\ task[d].at \in Transferring /\ Moves(d) /\ UNCHANGED <<registry, registryLoaded, disk, spoilt>>
        /\ \/ \E at \in {"creating", "storing"} : task'[d] = [task[d] EXCEPT !.at = at]
           \/ \E done : Onward(task'[d], downloadAborted, done)
    BY <1>0, <1>8, TransferCases DEF memory
  <2>2. d \in Tasks /\ ~Saving(d) /\ registryLoaded
    BY <1>2, <2>1 DEF Tasks, Saving, Transferring
  <2>3. task'[d].at \notin {"reading", "opening", "writing"}
    <3>1. CASE \E at \in {"creating", "storing"} : task'[d] = [task[d] EXCEPT !.at = at]
      BY <1>0, <2>2, <3>1, TextOfTask DEF TypeOK, TaskRecords
    <3>2. CASE \E done : Onward(task'[d], downloadAborted, done)
      BY <3>2 DEF Onward
    <3>3. QED
      BY <2>1, <3>1, <3>2
  <2>4. QED
    BY <2>1, <2>2, <2>3, QuietStep DEF Moves
<1>9. ASSUME NEW d \in Downloads, Refused(d) \/ Accepted(d) PROVE Unread' /\ Current'
  <2>1. /\ task[d].at = "dialog" /\ Moves(d) /\ SaveRegistry(d) /\ UNCHANGED registryLoaded
        /\ task'[d] = [Idle EXCEPT !.at = "opening", !.text = registry']
    BY <1>0, <1>9, RefusedCases, AcceptedCases DEF memory
  <2>2. d \in Tasks /\ ~Saving(d) /\ registryLoaded
    BY <1>2, <2>1 DEF Tasks, Saving
  <2>3. QED
    BY <1>0, <2>1, <2>2, SaveBegins
<1>10. ASSUME NEW d \in Downloads, HideProgress(d) PROVE Unread' /\ Current'
  <2>1. /\ task[d].at = "over" /\ Moves(d) /\ task'[d] = Idle
        /\ UNCHANGED <<registry, registryLoaded, disk, spoilt>>
    BY <1>0, <1>10, HideCases DEF memory
  <2>2. d \in Tasks /\ ~Saving(d) /\ registryLoaded /\ Idle.at = "idle"
    BY <1>2, <2>1 DEF Tasks, Saving, Idle
  <2>3. QED
    BY <2>1, <2>2, QuietStep DEF Moves
<1>11. ASSUME UNCHANGED <<registry, registryLoaded, disk, task, spoilt>> PROVE Unread' /\ Current'
  BY <1>0, <1>11 DEF Unread, Current, OnlySaver, Saving, FileText
<1>12. CASE Relaunch
  BY <1>12 DEF Relaunch, Unread, Current
<1>13. CASE CancelDownload \/ (\E u \in Items : DeleteItem(u)) \/ UNCHANGED vars
  BY <1>11, <1>13 DEF CancelDownload, DeleteItem, vars, memory
<1>14. QED
  BY <1>1, <1>3, <1>4, <1>5, <1>6, <1>7, <1>8, <1>9, <1>10, <1>12, <1>13 DEF Next, Steps, Transfer

(* For any downloads and scans: when nobody reads, checks or saves, the    *)
(* file says what the registry says, unless a save failed, was cut short   *)
(* or overlapped with another.                                             *)
THEOREM FileFollowsRegistry == Spec => []FileCurrent
<1>1. Init => FileInv
  BY TypeInit DEF Init, FileInv, Unread, Current
<1>2. FileInv => FileCurrent
  BY DEF FileInv, Current, FileCurrent, AtRest, OnlySaver, Saving
<1>3. QED
  BY <1>1, <1>2, FileStep, PTL DEF Spec
-----------------------------------------------------------------------------
(* A download cancelled while it was the only one is still the only one in *)
(* its loop, and is told to stop.                                          *)
AbortInv == \A d \in cancelled \cap Looping : downloadAborted /\ Looping = {d}

NoneBrought(d) == task'[d].todo \in {task[d].todo, <<>>}

LEMMA LoopingShrinks ==
    ASSUME AbortInv, NEW t \in Tasks, \A x \in Tasks \ {t} : task'[x] = task[x],
           t \in Looping => task'[t].todo = task[t].todo,
           task'[t].at \notin Transferring \/ t \in Looping,
           UNCHANGED <<downloadAborted, cancelled>>
    PROVE  AbortInv' /\ \A d \in cancelled \cap Looping : NoneBrought(d)
<1>1. Downloads \subseteq Tasks
  BY DEF Tasks
<1>2. Looping' \subseteq Looping
  BY <1>1 DEF Looping, Transferring
<1>3. \A d \in cancelled \cap Looping : NoneBrought(d)
  BY <1>1 DEF NoneBrought, Looping
<1>4. QED
  BY <1>2, <1>3 DEF AbortInv

LEMMA AbortStep ==
    TypeOK /\ AbortInv /\ [Next]_vars => AbortInv' /\ \A d \in cancelled \cap Looping : NoneBrought(d)
<1> SUFFICES ASSUME TypeOK, AbortInv, [Next]_vars
             PROVE  AbortInv' /\ \A d \in cancelled \cap Looping : NoneBrought(d)
  OBVIOUS
<1> DEFINE Goal == AbortInv' /\ \A d \in cancelled \cap Looping : NoneBrought(d)
<1>0. TasksOK /\ Downloads \subseteq Tasks /\ Validations \subseteq Tasks
  BY DEF TypeOK, Tasks
<1>1. ASSUME NEW t \in Tasks, Moves(t), task'[t].at \notin Transferring, t \notin Looping,
             UNCHANGED <<downloadAborted, cancelled>>
      PROVE  Goal
  BY <1>1, LoopingShrinks DEF Moves
<1>2. ASSUME NEW t \in Tasks, NEW entries, NEW stale, Moves(t), t \notin Looping,
             LooksAt(t, entries, stale) \/ HasValidated(t, entries) \/ Drops(t, entries, stale)
      PROVE  Goal
  <2>1. UNCHANGED <<downloadAborted, cancelled>>
    BY <1>2 DEF LooksAt, HasValidated, Ends, Drops, SaveRegistry
  <2>2. task'[t].at \notin Transferring
    BY <1>2 DEF LooksAt, HasValidated, Drops, Idle, Transferring
  <2>3. QED
    BY <1>1, <1>2, <2>1, <2>2
<1>3. ASSUME NEW t \in Tasks, Read(t) \/ Checked(t) \/ Opened(t) \/ Written(t) PROVE Goal
  <2>1. t \notin Looping
    BY <1>3 DEF Read, Checked, Opened, Written, Looping
  <2>2. CASE Read(t)
    BY <1>2, <2>1, <2>2, ReadCases
  <2>3. CASE Checked(t)
    BY <1>2, <2>1, <2>3, CheckedCases
  <2>4. CASE Opened(t)
    <3>1. Moves(t) /\ UNCHANGED <<downloadAborted, cancelled>>
      BY <2>4, OpenedCases DEF Ends
    <3>2. task'[t].at \notin Transferring
      BY <1>0, <2>4, OpenedCases, TextOfTask DEF Idle, Transferring, TaskRecords
    <3>3. QED
      BY <1>1, <2>1, <3>1, <3>2
  <2>5. CASE Written(t)
    <3>1. Moves(t) /\ UNCHANGED <<downloadAborted, cancelled>> /\ task'[t].at \notin Transferring
      BY <2>5, WrittenCases DEF Ends, Idle, Transferring
    <3>2. QED
      BY <1>1, <2>1, <3>1
  <2>6. QED
    BY <1>3, <2>2, <2>3, <2>4, <2>5
<1>4. ASSUME NEW v \in Validations, ScanEnds(v) PROVE Goal
  <2>1. v \notin Looping /\ v \in Tasks
    BY <1>0, <1>4 DEF ScanEnds, Looping
  <2>2. QED
    BY <1>2, <1>4, <2>1, ScanCases
<1>5. ASSUME NEW d \in Downloads, StartDownload(d) PROVE Goal
  <2>1. task[d].at = "idle" /\ Moves(d) /\ cancelled' = {}
    BY <1>5, StartCases
  <2>2. AbortInv'
    BY <2>1 DEF AbortInv
  <2>3. \A x \in Looping : task'[x] = task[x]
    BY <1>0, <2>1 DEF Moves, Looping
  <2>4. QED
    BY <2>2, <2>3 DEF NoneBrought
<1>6. ASSUME NEW d \in Downloads, Fetched(d) \/ Created(d) \/ Stored(d) PROVE Goal
  <2>1. /\ task[d].at \in Transferring /\ Moves(d) /\ UNCHANGED cancelled
        /\ \/ /\ UNCHANGED downloadAborted
              /\ \E at \in {"creating", "storing"} : task'[d] = [task[d] EXCEPT !.at = at]
           \/ \E done : Onward(task'[d], downloadAborted, done)
    BY <1>6, TransferCases
  <2>2. d \in Looping /\ d \in Tasks
    BY <1>0, <2>1 DEF Looping, Transferring
  <2>3. CASE /\ UNCHANGED downloadAborted
             /\ \E at \in {"creating", "storing"} : task'[d] = [task[d] EXCEPT !.at = at]
    <3>1. task'[d].todo = task[d].todo
      BY <1>0, <2>2, <2>3, TextOfTask DEF TaskRecords
    <3>2. QED
      BY <2>1, <2>2, <2>3, <3>1, LoopingShrinks DEF Moves
  <2>4. CASE \E done : Onward(task'[d], downloadAborted, done)
    <3>1. Looping' \subseteq Looping
      BY <1>0, <2>1, <2>2 DEF Moves, Looping
    <3>2. \A x \in cancelled \cap Looping : x = d /\ downloadAborted
      BY <2>2 DEF AbortInv
    <3>3. downloadAborted => task'[d].todo = <<>> /\ d \notin Looping'
      BY <2>4 DEF Onward, Looping, Transferring
    <3>4. QED
      BY <2>1, <3>1, <3>2, <3>3 DEF AbortInv, NoneBrought
  <2>5. QED
    BY <2>1, <2>3, <2>4
<1>7. ASSUME NEW d \in Downloads, Refused(d) \/ Accepted(d) \/ HideProgress(d) PROVE Goal
  <2>1. /\ Moves(d) /\ task'[d].at \notin Transferring /\ task[d].at \notin Transferring
        /\ UNCHANGED <<downloadAborted, cancelled>>
    <3>1. CASE Refused(d)
      BY <3>1, RefusedCases DEF Idle, Transferring
    <3>2. CASE Accepted(d)
      <4>1. /\ task[d].at = "dialog" /\ Moves(d)
            /\ task'[d] = [Idle EXCEPT !.at = "opening", !.text = registry']
            /\ UNCHANGED <<downloadAborted, cancelled>>
        BY <3>2, AcceptedCases
      <4>2. QED
        BY <4>1 DEF Idle, Transferring
    <3>3. CASE HideProgress(d)
      <4>1. /\ task[d].at = "over" /\ Moves(d) /\ task'[d] = Idle
            /\ UNCHANGED <<downloadAborted, cancelled>>
        BY <3>3, HideCases
      <4>2. QED
        BY <4>1 DEF Idle, Transferring
    <3>4. QED
      BY <1>7, <3>1, <3>2, <3>3
  <2>2. d \notin Looping /\ d \in Tasks
    BY <1>0, <2>1 DEF Looping, Transferring
  <2>3. QED
    BY <1>1, <2>1, <2>2
<1>8. CASE CancelDownload
  <2>1. UNCHANGED task /\ downloadAborted' = TRUE
        /\ cancelled' = IF Cardinality(Looping) = 1 THEN Looping ELSE cancelled
    BY <1>8 DEF CancelDownload
  <2>2. Looping' = Looping
    BY <2>1 DEF Looping
  <2>3. IsFiniteSet(Looping)
    BY DownloadAssumption, FS_Subset DEF Looping
  <2>4. Cardinality(Looping) = 1 <=> \E x : Looping = {x}
    BY <2>3, FS_Singleton
  <2>5. AbortInv'
    <3>1. CASE Cardinality(Looping) = 1
      <4>1. PICK x : Looping = {x}
        BY <2>4, <3>1
      <4>2. QED
        BY <2>1, <2>2, <4>1 DEF AbortInv
    <3>2. CASE Cardinality(Looping) # 1
      <4>1. cancelled \cap Looping = {}
        BY <2>4, <3>2 DEF AbortInv
      <4>2. QED
        BY <2>1, <2>2, <3>2, <4>1 DEF AbortInv
    <3>3. QED
      BY <3>1, <3>2
  <2>6. QED
    BY <2>1, <2>5 DEF NoneBrought
<1>9. CASE Relaunch
  BY <1>0, <1>9, LaunchedType DEF Relaunch, AbortInv, NoneBrought, Looping
<1>10. CASE (\E u \in Items : DeleteItem(u)) \/ UNCHANGED vars
  <2>1. UNCHANGED <<task, downloadAborted, cancelled>>
    BY <1>10 DEF DeleteItem, vars
  <2>2. QED
    BY <2>1 DEF AbortInv, NoneBrought, Looping
<1>11. QED
  BY <1>3, <1>4, <1>5, <1>6, <1>7, <1>8, <1>9, <1>10 DEF Next, Steps, Transfer

(* For any number of downloads: one that is cancelled while it is the only *)
(* one, and before another is begun, brings no further photo.              *)
THEOREM CancelledStops == Spec => CancelStops
<1>1. Init => TypeOK /\ AbortInv
  BY TypeInit DEF Init, AbortInv
<1>2. TypeOK /\ AbortInv /\ [Next]_vars => (TypeOK /\ AbortInv)'
  BY TypeStep, AbortStep
<1>3. TypeOK /\ AbortInv /\ [Next]_vars =>
        [\A d \in cancelled \cap Looping : task'[d].todo \in {task[d].todo, <<>>}]_vars
  BY AbortStep DEF NoneBrought
<1>4. QED
  BY <1>1, <1>2, <1>3, PTL DEF Spec, CancelStops
-----------------------------------------------------------------------------
Checking(t) == task[t].at = "checking"

(* What a task has found stale is in the registry and gone from the        *)
(* gallery, and the entry it looks at is as it was read.                   *)
FoundStale(r) ==
    /\ r.stale \subseteq DOMAIN registry
    /\ \A k \in r.stale : gallery[registry[k]] = Absent
    /\ r.now.key \in DOMAIN registry /\ registry[r.now.key] = r.now.item

StaleInv == \A t \in Tasks \ contested : Checking(t) => FoundStale(task[t])

DropsRight ==
    \A t \in Tasks \ contested :
        task[t].at = "checking" /\ task'[t] # task[t] /\ registryLoaded' =>
            \A k \in Dropped : gallery[registry[k]] = Absent

(* Entries are only added, their items only deleted, and nobody begins to  *)
(* check or looks at another entry.                                        *)
LEMMA StaleKept ==
    ASSUME StaleInv,
           DOMAIN registry \subseteq DOMAIN registry',
           \A k \in DOMAIN registry : /\ registry'[k] = registry[k]
                                     /\ gallery'[registry[k]] \in {gallery[registry[k]], Absent},
           \A t \in Tasks : Checking(t)' => Checking(t) /\ task'[t] = task[t] /\ (t \in contested => t \in contested')
    PROVE  StaleInv' /\ DropsRight
<1>1. Dropped = {}
  BY DEF Dropped
<1>2. ASSUME NEW t \in Tasks \ contested', Checking(t)' PROVE FoundStale(task[t])'
  <2>1. FoundStale(task[t]) /\ task'[t] = task[t]
    BY <1>2 DEF StaleInv
  <2>2. QED
    BY <2>1 DEF FoundStale
<1>3. QED
  BY <1>1, <1>2 DEF StaleInv, DropsRight

LEMMA StaleMoves ==
    ASSUME StaleInv, NEW t \in Tasks, Moves(t), ~Checking(t)', contested \ {t} \subseteq contested',
           UNCHANGED <<registry, gallery>>
    PROVE  StaleInv' /\ DropsRight
<1>1. \A x \in Tasks : Checking(x)' =>
          Checking(x) /\ task'[x] = task[x] /\ (x \in contested => x \in contested')
  BY DEF Checking, Moves
<1>2. QED
  BY <1>1, StaleKept

LEMMA StaleValidate ==
    ASSUME StaleInv, NEW t \in Tasks, NEW stale, Moves(t), UNCHANGED gallery,
           t \notin contested => /\ stale \subseteq DOMAIN registry
                               /\ \A k \in stale : gallery[registry[k]] = Absent,
           LooksAt(t, registry, stale) \/ HasValidated(t, registry) \/ Drops(t, registry, stale)
    PROVE  StaleInv' /\ DropsRight
<1>1. CASE LooksAt(t, registry, stale)
  <2>1. /\ UNCHANGED <<registry, contested>>
        /\ task'[t].stale = stale /\ task'[t].now.key \in DOMAIN registry
        /\ task'[t].now.item = registry[task'[t].now.key]
    BY <1>1 DEF LooksAt
  <2>2. \A x \in Tasks \ {t} : task'[x] = task[x]
    BY DEF Moves
  <2>3. t \notin contested => FoundStale(task[t])'
    BY <2>1 DEF FoundStale
  <2>4. \A x \in Tasks \ {t} : FoundStale(task[x]) => FoundStale(task[x])'
    BY <2>1, <2>2 DEF FoundStale
  <2>5. StaleInv'
    BY <2>1, <2>2, <2>3, <2>4 DEF StaleInv, Checking
  <2>6. QED
    BY <2>1, <2>5 DEF DropsRight, Dropped
<1>2. CASE HasValidated(t, registry)
  BY <1>2, StaleMoves DEF HasValidated, Checking, Idle
<1>3. CASE Drops(t, registry, stale)
  <2>1. /\ registry' = Restrict(registry, DOMAIN registry \ stale)
        /\ contested' = (contested \cup {x \in Tasks : task[x].at = "checking"}) \ {t}
        /\ task'[t].at = "opening"
    BY <1>3 DEF Drops, Idle
  <2>2. \A x \in Tasks \ {t} : task'[x] = task[x]
    BY DEF Moves
  <2>3. StaleInv'
    BY <2>1, <2>2 DEF StaleInv, Checking
  <2>4. Dropped \subseteq stale
    BY <2>1 DEF Dropped, Restrict
  <2>5. QED
    BY <2>2, <2>3, <2>4 DEF DropsRight
<1>4. QED
  BY <1>1, <1>2, <1>3

LEMMA NotFresh ==
    ASSUME TypeOK, NEW k \in DOMAIN registry
    PROVE  registry[k] \in Items \ Fresh
<1>1. registry[k] \in Items
  BY TextType DEF TypeOK
<1>2. registry[k] \in Range(registry)
  BY DEF Range
<1>3. QED
  BY <1>1, <1>2 DEF Fresh

LEMMA StaleStep == FileInv /\ StaleInv /\ [Next]_vars => StaleInv' /\ DropsRight
<1> SUFFICES ASSUME FileInv, StaleInv, [Next]_vars PROVE StaleInv' /\ DropsRight
  OBVIOUS
<1>0. TypeOK /\ Unread /\ TasksOK /\ Downloads \subseteq Tasks /\ Validations \subseteq Tasks
  BY DEF FileInv, TypeOK, Tasks
<1>1. ASSUME NEW t \in Tasks, Read(t) PROVE StaleInv' /\ DropsRight
  <2>1. /\ task[t].at = "reading" /\ Moves(t) /\ UNCHANGED gallery
        /\ \/ LooksAt(t, Onto(FileText, registry), {})
           \/ HasValidated(t, Onto(FileText, registry))
    BY <1>0, <1>1, ReadCases DEF files
  <2>2. registry = NoEntries /\ task = Launched
    BY <1>0, <2>1 DEF Unread
  <2>3. \A x \in Tasks : ~Checking(x)
    BY <2>2, LaunchedType DEF Checking
  <2>4. ~Checking(t)' \/ FoundStale(task[t])'
    BY <2>1 DEF LooksAt, HasValidated, Idle, Checking, FoundStale
  <2>5. StaleInv'
    BY <2>1, <2>3, <2>4 DEF StaleInv, Moves, Checking
  <2>6. QED
    BY <2>3, <2>5 DEF DropsRight, Checking
<1>2. ASSUME NEW t \in Tasks, Checked(t) PROVE StaleInv' /\ DropsRight
  <2> DEFINE stale == task[t].stale \cup (IF Gone(task[t].now) THEN {task[t].now.key} ELSE {})
  <2>1. /\ task[t].at = "checking" /\ UNCHANGED gallery /\ Moves(t)
        /\ LooksAt(t, registry, stale) \/ HasValidated(t, registry) \/ Drops(t, registry, stale)
    BY <1>0, <1>2, CheckedCases DEF files
  <2>2. ASSUME t \notin contested
        PROVE  stale \subseteq DOMAIN registry /\ \A k \in stale : gallery[registry[k]] = Absent
    <3>1. FoundStale(task[t])
      BY <2>1, <2>2 DEF StaleInv, Checking
    <3>2. QED
      BY <3>1 DEF FoundStale, Gone
  <2> HIDE DEF stale
  <2>3. QED
    BY <2>1, <2>2, StaleValidate
<1>3. ASSUME NEW v \in Validations, ScanEnds(v) PROVE StaleInv' /\ DropsRight
  <2>1. UNCHANGED gallery /\ Moves(v) /\ (LooksAt(v, registry, {}) \/ HasValidated(v, registry))
    BY <1>0, <1>3, ScanCases DEF files
  <2>2. QED
    BY <1>0, <2>1, StaleValidate
<1>4. ASSUME NEW t \in Tasks, Opened(t) PROVE StaleInv' /\ DropsRight
  <2>1. Moves(t) /\ UNCHANGED <<registry, gallery, contested>>
    BY <1>0, <1>4, OpenedCases DEF memory, files
  <2>2. ~Checking(t)'
    BY <1>0, <1>4, OpenedCases, TextOfTask DEF Idle, Checking, TaskRecords
  <2>3. QED
    BY <2>1, <2>2, StaleMoves
<1>5. ASSUME NEW t \in Tasks, Written(t) PROVE StaleInv' /\ DropsRight
  <2>1. Moves(t) /\ UNCHANGED <<registry, gallery, contested>> /\ ~Checking(t)'
    BY <1>0, <1>5, WrittenCases DEF memory, files, Idle, Checking
  <2>2. QED
    BY <2>1, StaleMoves
<1>6. ASSUME NEW d \in Downloads, StartDownload(d) PROVE StaleInv' /\ DropsRight
  <2>1. Moves(d) /\ UNCHANGED <<registry, gallery, contested>> /\ ~Checking(d)'
    BY <1>0, <1>6, StartCases DEF memory, files, Onward, Checking
  <2>2. QED
    BY <1>0, <2>1, StaleMoves
<1>7. ASSUME NEW d \in Downloads, Fetched(d) \/ Created(d) \/ Stored(d) PROVE StaleInv' /\ DropsRight
  <2>1. /\ Moves(d) /\ UNCHANGED <<registry, gallery, contested>>
        /\ \/ \E at \in {"creating", "storing"} : task'[d] = [task[d] EXCEPT !.at = at]
           \/ \E done : Onward(task'[d], downloadAborted, done)
    BY <1>0, <1>7, TransferCases DEF memory
  <2>2. ~Checking(d)'
    <3>1. CASE \E at \in {"creating", "storing"} : task'[d] = [task[d] EXCEPT !.at = at]
      BY <1>0, <3>1, TextOfTask DEF TaskRecords, Checking
    <3>2. CASE \E done : Onward(task'[d], downloadAborted, done)
      BY <3>2 DEF Onward, Checking
    <3>3. QED
      BY <2>1, <3>1, <3>2
  <2>3. QED
    BY <1>0, <2>1, <2>2, StaleMoves
<1>8. ASSUME NEW d \in Downloads, Refused(d) PROVE StaleInv' /\ DropsRight
  <2>1. Moves(d) /\ UNCHANGED <<registry, gallery, contested>> /\ ~Checking(d)'
    BY <1>0, <1>8, RefusedCases DEF memory, files, Idle, Checking
  <2>2. QED
    BY <1>0, <2>1, StaleMoves
<1>9. ASSUME NEW d \in Downloads, Accepted(d) PROVE StaleInv' /\ DropsRight
  <2>1. /\ Moves(d) /\ UNCHANGED contested
        /\ task'[d] = [Idle EXCEPT !.at = "opening", !.text = registry']
        /\ \A u \in Items \ Fresh : gallery'[u] = gallery[u]
        /\ DOMAIN registry \subseteq DOMAIN registry'
        /\ \A k \in DOMAIN registry : registry'[k] = registry[k]
    BY <1>0, <1>9, AcceptedCases
  <2>2. \A x \in Tasks : Checking(x)' =>
            Checking(x) /\ task'[x] = task[x] /\ (x \in contested => x \in contested')
    BY <2>1 DEF Moves, Checking, Idle
  <2>3. \A k \in DOMAIN registry : gallery'[registry[k]] = gallery[registry[k]]
    BY <1>0, <2>1, NotFresh
  <2>4. QED
    BY <2>1, <2>2, <2>3, StaleKept
<1>10. ASSUME NEW d \in Downloads, HideProgress(d) PROVE StaleInv' /\ DropsRight
  <2>1. Moves(d) /\ UNCHANGED <<registry, gallery, contested>> /\ task'[d] = Idle
    BY <1>0, <1>10, HideCases DEF memory, files
  <2>2. QED
    BY <1>0, <2>1, StaleMoves DEF Checking, Idle
<1>11. ASSUME NEW u \in Items, DeleteItem(u) PROVE StaleInv' /\ DropsRight
  <2>1. UNCHANGED <<registry, task, contested>> /\ gallery' = [gallery EXCEPT ![u] = Absent]
    BY <1>11 DEF DeleteItem, memory
  <2>2. gallery \in [Items -> Contents]
    BY <1>0 DEF TypeOK
  <2>3. \A x \in Items : gallery'[x] \in {gallery[x], Absent}
    BY <2>1, <2>2
  <2>4. \A k \in DOMAIN registry : registry[k] \in Items
    BY <1>0, NotFresh
  <2>5. QED
    BY <2>1, <2>3, <2>4, StaleKept DEF Checking
<1>12. CASE CancelDownload \/ UNCHANGED vars
  <2>1. UNCHANGED <<registry, gallery, task, contested>>
    BY <1>12 DEF CancelDownload, vars, memory, files
  <2>2. QED
    BY <2>1, StaleKept DEF Checking
<1>13. CASE Relaunch
  BY <1>13, LaunchedType DEF Relaunch, StaleInv, DropsRight, Checking
<1>14. QED
  BY <1>1, <1>2, <1>3, <1>4, <1>5, <1>6, <1>7, <1>8, <1>9, <1>10, <1>11, <1>12, <1>13
  DEF Next, Steps, Transfer

(* For any downloads and scans: a validation drops only entries whose      *)
(* gallery items are gone, if no other has dropped entries meanwhile.      *)
THEOREM OnlyGoneDropped == Spec => DropsOnlyGone
<1>1. Init => FileInv /\ StaleInv
  <2>1. Init => FileInv
    BY TypeInit DEF Init, FileInv, Unread, Current
  <2>2. Init => StaleInv
    BY LaunchedType DEF Init, StaleInv, Checking
  <2>3. QED
    BY <2>1, <2>2
<1>2. FileInv /\ StaleInv /\ [Next]_vars => (FileInv /\ StaleInv)'
  BY FileStep, StaleStep
<1>3. FileInv /\ StaleInv /\ [Next]_vars =>
        [\A t \in Tasks \ contested :
            task[t].at = "checking" /\ task'[t] # task[t] /\ registryLoaded' =>
                \A k \in Dropped : gallery[registry[k]] = Absent]_vars
  BY StaleStep DEF DropsRight
<1>4. QED
  BY <1>1, <1>2, <1>3, PTL DEF Spec, DropsOnlyGone
-----------------------------------------------------------------------------
(* Hypotheses of the theorem on what is recorded: two photos of one name   *)
(* share a sandbox file, and so do two downloads of one photo.             *)
DistinctNames == \A p, q \in Photos : NameOf[p] = NameOf[q] => p = q
OneDownload   == \A d, e \in Downloads : d = e

(* In the gallery g the items of a text are the photos they are filed      *)
(* under, or deleted.                                                      *)
WholeIn(g, text) == \A k \in DOMAIN text : g[text[k]] \in {Absent} \cup {p \in Photos : Key(p) = k}

(* In the gallery g and the sandbox s a result is where it says it is.     *)
SoundIn(g, s, r) ==
    IF r.from = Sandboxed THEN s[NameOf[r.photo]] = r.photo
    ELSE g[r.from] \in {Absent} \cup {p \in Photos : Key(p) = Key(r.photo)}

Opens(t, s) == task[t].at = "storing" => s[FileOf(t)] # Absent

SaveInv ==
    /\ WholeIn(gallery, registry) /\ \A text \in disk : WholeIn(gallery, text)
    /\ \A t \in Tasks : WholeIn(gallery, task[t].text)
    /\ \A d \in Downloads : /\ \A i \in DOMAIN task[d].done : SoundIn(gallery, sandbox, task[d].done[i])
                           /\ Opens(d, sandbox)
    /\ \A n \in Names : sandbox[n] \in Photos => NameOf[sandbox[n]] = n

LEMMA WholeNothing == \A g : WholeIn(g, NoEntries)
BY EmptyText DEF WholeIn

LEMMA WholeOnto ==
    ASSUME NEW g, NEW text, NEW other, WholeIn(g, text), WholeIn(g, other)
    PROVE  WholeIn(g, Onto(text, other))
BY DEF WholeIn, Onto

LEMMA WholeRestrict ==
    ASSUME NEW g, NEW text, NEW S, WholeIn(g, text)
    PROVE  WholeIn(g, Restrict(text, DOMAIN text \ S))
BY DEF WholeIn, Restrict

LEMMA RecalledSound ==
    ASSUME NEW results, NEW done, registry' \in Texts, WholeIn(gallery', registry'),
           \A j \in DOMAIN done : SoundIn(gallery', sandbox', done[j]), Recalled(results, done)
    PROVE  \A i \in DOMAIN results : SoundIn(gallery', sandbox', results[i])
<1>1. SUFFICES ASSUME NEW i \in DOMAIN results, Key(results[i].photo) \in DOMAIN registry',
                      results[i].from = registry'[Key(results[i].photo)]
               PROVE  SoundIn(gallery', sandbox', results[i])
  BY DEF Recalled
<1>2. results[i].from \in Items
  BY <1>1, TextType
<1>3. results[i].from # Sandboxed
  BY <1>2, DownloadAssumption
<1>4. QED
  BY <1>1, <1>3 DEF WholeIn, SoundIn

(* A step of one task that touches neither gallery nor sandbox.            *)
LEMMA SaveMoves ==
    ASSUME TypeOK, SaveInv, NEW t \in Tasks, Moves(t), UNCHANGED <<gallery, sandbox>>,
           WholeIn(gallery', registry'), \A text \in disk' : WholeIn(gallery', text),
           WholeIn(gallery', task'[t].text),
           \A i \in DOMAIN task'[t].done : SoundIn(gallery', sandbox', task'[t].done[i]),
           Opens(t, sandbox)'
    PROVE  SaveInv'
<1>1. \A x \in Tasks \ {t} : task'[x] = task[x] /\ FileOf(x)' = FileOf(x)
  BY DEF Moves, FileOf
<1>2. \A x \in Tasks : WholeIn(gallery', task'[x].text)
  BY <1>1 DEF SaveInv
<1>3. ASSUME NEW d \in Downloads
      PROVE  /\ \A i \in DOMAIN task'[d].done : SoundIn(gallery', sandbox', task'[d].done[i])
             /\ Opens(d, sandbox)'
  <2>1. CASE d = t
    BY <2>1
  <2>2. CASE d # t
    <3>1. task'[d] = task[d] /\ FileOf(d)' = FileOf(d)
      BY <1>1, <2>2 DEF Tasks
    <3>2. QED
      BY <3>1 DEF SaveInv, Opens
  <2>3. QED
    BY <2>1, <2>2
<1>4. QED
  BY <1>2, <1>3 DEF SaveInv

(* A step of the only download, with what it does to gallery and sandbox.  *)
LEMMA SaveDownloads ==
    ASSUME TypeOK, SaveInv, OneDownload, NEW d \in Downloads, Moves(d),
           WholeIn(gallery', registry'), \A text \in disk' : WholeIn(gallery', text),
           \A t \in Tasks : WholeIn(gallery', task'[t].text),
           \A i \in DOMAIN task'[d].done : SoundIn(gallery', sandbox', task'[d].done[i]),
           Opens(d, sandbox)',
           \A n \in Names : sandbox'[n] \in Photos => NameOf[sandbox'[n]] = n
    PROVE  SaveInv'
<1>1. \A e \in Downloads : e = d
  BY DEF OneDownload
<1>2. QED
  BY <1>1 DEF SaveInv

LEMMA DoneSound ==
    ASSUME TypeOK, SaveInv, NEW t \in Tasks
    PROVE  /\ \A i \in DOMAIN task[t].done : SoundIn(gallery, sandbox, task[t].done[i])
           /\ WholeIn(gallery, task[t].text)
<1>1. CASE t \in Downloads
  BY <1>1 DEF SaveInv
<1>2. CASE t \notin Downloads
  <2>1. task[t].done = <<>>
    BY <1>2 DEF TypeOK, TasksOK, Shaped
  <2>2. QED
    BY <2>1 DEF SaveInv
<1>3. QED
  BY <1>1, <1>2

LEMMA ResultType ==
    ASSUME TasksOK, NEW t \in Tasks, NEW i \in DOMAIN task[t].done
    PROVE  task[t].done[i] \in Results /\ task[t].done[i].photo \in Photos
<1>1. task[t].done \in Seq(Results)
  BY DEF TasksOK, TaskRecords
<1>2. task[t].done[i] \in Results
  BY <1>1, LenProperties, ElementOfSeq
<1>3. QED
  BY <1>2 DEF Results

(* A task that starts over with a text that is whole.                      *)
LEMMA SaveAnew ==
    ASSUME TypeOK, SaveInv, NEW t \in Tasks, Moves(t), UNCHANGED <<gallery, sandbox>>,
           WholeIn(gallery, registry'), \A text \in disk' : WholeIn(gallery, text),
           WholeIn(gallery, task'[t].text), task'[t].done = <<>>, task'[t].at # "storing"
    PROVE  SaveInv'
<1>1. \A i \in DOMAIN task'[t].done : SoundIn(gallery', sandbox', task'[t].done[i])
  OBVIOUS
<1>2. Opens(t, sandbox)'
  BY DEF Opens
<1>3. QED
  BY <1>1, <1>2, SaveMoves

LEMMA SaveValidate ==
    ASSUME TypeOK, SaveInv, NEW t \in Tasks, NEW entries, NEW stale, WholeIn(gallery, entries),
           Moves(t), UNCHANGED <<gallery, sandbox, disk>>,
           LooksAt(t, entries, stale) \/ HasValidated(t, entries) \/ Drops(t, entries, stale)
    PROVE  SaveInv'
<1>0. \A text \in disk' : WholeIn(gallery, text)
  BY DEF SaveInv
<1>1. CASE LooksAt(t, entries, stale)
  <2>1. /\ registry' = entries /\ task'[t].at = "checking"
        /\ task'[t].text = task[t].text /\ task'[t].done = task[t].done
    BY <1>1 DEF LooksAt
  <2>2. Opens(t, sandbox)'
    BY <2>1 DEF Opens
  <2>3. QED
    BY <1>0, <2>1, <2>2, DoneSound, SaveMoves
<1>2. CASE HasValidated(t, entries)
  <2>1. registry' = entries /\ \E at \in {"idle", "over"} : task'[t] = [Idle EXCEPT !.at = at]
    BY <1>2 DEF HasValidated
  <2>2. task'[t].done = <<>> /\ task'[t].at # "storing" /\ task'[t].text = NoEntries
    BY <2>1 DEF Idle
  <2>3. QED
    BY <1>0, <2>1, <2>2, WholeNothing, SaveAnew
<1>3. CASE Drops(t, entries, stale)
  <2>1. /\ registry' = Restrict(entries, DOMAIN entries \ stale)
        /\ task'[t] = [Idle EXCEPT !.at = "opening", !.text = registry']
    BY <1>3 DEF Drops
  <2>2. WholeIn(gallery, registry')
    BY <2>1, WholeRestrict
  <2>3. task'[t].done = <<>> /\ task'[t].at # "storing" /\ task'[t].text = registry'
    BY <2>1 DEF Idle
  <2>4. QED
    BY <1>0, <2>2, <2>3, SaveAnew
<1>4. QED
  BY <1>1, <1>2, <1>3

(* What the gallery has for a text that is kept.                           *)
LEMMA WholeKept ==
    ASSUME TypeOK, \A u \in Items \ Fresh : gallery'[u] \in {gallery[u], Absent},
           NEW text \in Texts, Range(text) \cap Fresh = {}, WholeIn(gallery, text)
    PROVE  WholeIn(gallery', text)
<1>1. \A k \in DOMAIN text : text[k] \in Items \ Fresh
  BY TextType DEF Range
<1>2. QED
  BY <1>1 DEF WholeIn

LEMMA SaveRead ==
    ASSUME TypeOK, SaveInv, NEW t \in Tasks, Read(t) \/ Checked(t) \/ (t \in Validations /\ ScanEnds(t))
    PROVE  SaveInv'
<1>1. WholeIn(gallery, registry)
  BY DEF SaveInv
<1>2. CASE Read(t)
  <2>1. FileText \in Texts /\ (disk # {} => FileText \in disk) /\ (disk = {} => FileText = NoEntries)
    BY FileTextType DEF TypeOK, FileText
  <2>2. WholeIn(gallery, FileText)
    BY <2>1, WholeNothing DEF SaveInv
  <2>3. WholeIn(gallery, Onto(FileText, registry))
    BY <1>1, <2>2, WholeOnto
  <2>4. QED
    BY <1>2, <2>3, ReadCases, SaveValidate DEF files
<1>3. CASE Checked(t)
  <2> DEFINE stale == task[t].stale \cup (IF Gone(task[t].now) THEN {task[t].now.key} ELSE {})
  <2>1. /\ UNCHANGED <<gallery, sandbox, disk>> /\ Moves(t)
        /\ LooksAt(t, registry, stale) \/ HasValidated(t, registry) \/ Drops(t, registry, stale)
    BY <1>3, CheckedCases DEF files
  <2> HIDE DEF stale
  <2>2. QED
    BY <1>1, <2>1, SaveValidate
<1>4. CASE t \in Validations /\ ScanEnds(t)
  BY <1>1, <1>4, ScanCases, SaveValidate DEF files
<1>5. QED
  BY <1>2, <1>3, <1>4

LEMMA SaveFile ==
    ASSUME TypeOK, SaveInv, NEW t \in Tasks, Opened(t) \/ Written(t)
    PROVE  SaveInv'
<1>0. WholeIn(gallery, registry) /\ WholeIn(gallery, task[t].text) /\ \A text \in disk : WholeIn(gallery, text)
  BY DEF SaveInv
<1>1. CASE Opened(t)
  <2>1. /\ Moves(t) /\ UNCHANGED <<registry, gallery, sandbox>>
        /\ \/ disk' = {} /\ task'[t] = [task[t] EXCEPT !.at = "writing"]
           \/ UNCHANGED disk /\ \E at \in {"idle", "over"} : task'[t] = [Idle EXCEPT !.at = at]
    BY <1>1, OpenedCases DEF memory, files
  <2>2. CASE disk' = {} /\ task'[t] = [task[t] EXCEPT !.at = "writing"]
    <3>1. task'[t].text = task[t].text /\ task'[t].done = task[t].done /\ task'[t].at = "writing"
      BY <2>2, TextOfTask DEF TypeOK, TaskRecords
    <3>2. Opens(t, sandbox)'
      BY <3>1 DEF Opens
    <3>3. QED
      BY <1>0, <2>1, <2>2, <3>1, <3>2, DoneSound, SaveMoves
  <2>3. CASE UNCHANGED disk /\ \E at \in {"idle", "over"} : task'[t] = [Idle EXCEPT !.at = at]
    <3>1. task'[t].text = NoEntries /\ task'[t].done = <<>> /\ task'[t].at # "storing"
      BY <2>3 DEF Idle
    <3>2. QED
      BY <1>0, <2>1, <2>3, <3>1, WholeNothing, SaveAnew
  <2>4. QED
    BY <2>1, <2>2, <2>3
<1>2. CASE Written(t)
  <2>1. /\ Moves(t) /\ UNCHANGED <<registry, gallery, sandbox>> /\ disk' \subseteq {task[t].text}
        /\ \E at \in {"idle", "over"} : task'[t] = [Idle EXCEPT !.at = at]
    BY <1>2, WrittenCases DEF memory, files
  <2>2. task'[t].text = NoEntries /\ task'[t].done = <<>> /\ task'[t].at # "storing"
    BY <2>1 DEF Idle
  <2>3. QED
    BY <1>0, <2>1, <2>2, WholeNothing, SaveAnew
<1>3. QED
  BY <1>1, <1>2

LEMMA OnwardSound ==
    ASSUME TypeOK, SaveInv, NEW d \in Downloads, UNCHANGED <<registry, gallery>>, NEW aborted, NEW done,
           \A j \in DOMAIN done : SoundIn(gallery', sandbox', done[j]),
           Onward(task'[d], aborted, done)
    PROVE  /\ WholeIn(gallery', task'[d].text) /\ WholeIn(gallery', registry')
           /\ \A i \in DOMAIN task'[d].done : SoundIn(gallery', sandbox', task'[d].done[i])
           /\ Opens(d, sandbox)'
<1>1. Recalled(task'[d].done, done) /\ task'[d].text = NoEntries /\ task'[d].at # "storing"
  BY DEF Onward
<1>2. registry' \in Texts /\ WholeIn(gallery', registry')
  BY DEF TypeOK, SaveInv
<1>3. \A i \in DOMAIN task'[d].done : SoundIn(gallery', sandbox', task'[d].done[i])
  BY <1>1, <1>2, RecalledSound
<1>4. QED
  BY <1>1, <1>2, <1>3, WholeNothing DEF Opens

LEMMA SaveStart ==
    ASSUME TypeOK, SaveInv, NEW d \in Downloads, StartDownload(d)
    PROVE  SaveInv'
<1>1. /\ Moves(d) /\ UNCHANGED <<registry, disk, gallery, sandbox>> /\ Onward(task'[d], FALSE, <<>>)
  BY StartCases DEF memory, files
<1>2. \A text \in disk' : WholeIn(gallery', text)
  BY <1>1 DEF SaveInv
<1>3. \A j \in DOMAIN <<>> : SoundIn(gallery', sandbox', <<>>[j])
  OBVIOUS
<1>4. QED
  BY <1>1, <1>2, <1>3, OnwardSound, SaveMoves DEF Tasks

(* The texts when the gallery stays as it is and one download moves.       *)
LEMMA TextsKept ==
    ASSUME SaveInv, NEW d \in Downloads, Moves(d), UNCHANGED <<gallery, disk>>,
           WholeIn(gallery, task'[d].text)
    PROVE  /\ \A text \in disk' : WholeIn(gallery', text)
           /\ \A t \in Tasks : WholeIn(gallery', task'[t].text)
BY DEF SaveInv, Moves

LEMMA SaveFetched ==
    ASSUME TypeOK, SaveInv, NEW d \in Downloads, Fetched(d)
    PROVE  SaveInv'
<1>1. Moves(d) /\ UNCHANGED <<registry, disk, gallery, sandbox>> /\ task[d].at \in Transferring
  BY TransferCases DEF memory, files, Fetched
<1>2. TasksOK /\ d \in Tasks /\ registry' \in Texts /\ downloadAborted \in BOOLEAN
  BY <1>1 DEF TypeOK, Tasks
<1>3. \A text \in disk' : WholeIn(gallery', text)
  BY <1>1 DEF SaveInv
<1>4. CASE task' = [task EXCEPT ![d].at = "creating"]
  <2>1. task'[d] = [task[d] EXCEPT !.at = "creating"] /\ task[d] \in TaskRecords
    BY <1>2, <1>4 DEF TasksOK
  <2>2. task'[d].at = "creating" /\ task'[d].text = task[d].text /\ task'[d].done = task[d].done
    BY <2>1 DEF TaskRecords
  <2>3. Opens(d, sandbox)' /\ WholeIn(gallery', registry')
    BY <1>1, <2>2 DEF Opens, SaveInv
  <2>4. QED
    BY <1>1, <1>2, <1>3, <2>2, <2>3, DoneSound, SaveMoves
<1>5. CASE PassOver(d)
  <2>1. Tail(task[d].todo) \in Seq(Photos) /\ task[d].done \in Seq(Results)
    BY <1>1, <1>2, TodoProperties
  <2>2. Onward(task'[d], downloadAborted, task[d].done)
    BY <1>2, <1>5, <2>1, AheadMoves DEF PassOver
  <2>3. \A j \in DOMAIN task[d].done : SoundIn(gallery', sandbox', task[d].done[j])
    BY <1>1, <1>2, DoneSound
  <2>4. QED
    BY <1>1, <1>2, <1>3, <2>2, <2>3, OnwardSound, SaveMoves
<1>6. QED
  BY <1>4, <1>5 DEF Fetched

(* A result in the sandbox is not disturbed by a file that keeps it.       *)
LEMMA SoundKept ==
    ASSUME NEW r, UNCHANGED gallery, SoundIn(gallery, sandbox, r),
           r.from = Sandboxed => sandbox'[NameOf[r.photo]] = sandbox[NameOf[r.photo]]
    PROVE  SoundIn(gallery', sandbox', r)
BY DEF SoundIn

LEMMA SaveCreated ==
    ASSUME TypeOK, SaveInv, OneDownload, NEW d \in Downloads, Created(d)
    PROVE  SaveInv'
<1>1. Moves(d) /\ UNCHANGED <<registry, disk, gallery>> /\ task[d].at \in Transferring
  BY TransferCases DEF memory
<1>2. TasksOK /\ d \in Tasks /\ registry' \in Texts /\ downloadAborted \in BOOLEAN
      /\ sandbox \in [Names -> Contents]
  BY <1>1 DEF TypeOK, Tasks
<1>3. /\ Tail(task[d].todo) \in Seq(Photos) /\ task[d].done \in Seq(Results)
      /\ FileOf(d) \in Names
  BY <1>1, <1>2, TodoProperties
<1>4. WholeIn(gallery', registry') /\ WholeIn(gallery, task[d].text)
  BY <1>1, <1>2 DEF SaveInv
<1>5. CASE /\ sandbox' = [sandbox EXCEPT ![FileOf(d)] = IF @ = Absent THEN Piece ELSE @]
           /\ task' = [task EXCEPT ![d].at = "storing"]
  <2>1. task'[d] = [task[d] EXCEPT !.at = "storing"] /\ task[d] \in TaskRecords
    BY <1>2, <1>5 DEF TasksOK
  <2>2. task'[d].text = task[d].text /\ task'[d].done = task[d].done /\ task'[d].todo = task[d].todo
    BY <2>1 DEF TaskRecords
  <2>3. \A n \in Names : sandbox[n] # Absent => sandbox'[n] = sandbox[n]
    BY <1>2, <1>3, <1>5
  <2>4. Absent # Piece /\ Absent \notin Photos /\ Piece \notin Photos
    BY DownloadAssumption DEF Absent, Piece
  <2>5. ASSUME NEW i \in DOMAIN task'[d].done PROVE SoundIn(gallery', sandbox', task'[d].done[i])
    <3> DEFINE r == task[d].done[i]
    <3>1. i \in DOMAIN task[d].done /\ SoundIn(gallery, sandbox, r)
      BY <1>2, <2>2, <2>5, DoneSound
    <3>2. r.photo \in Photos
      BY <1>2, <3>1, ResultType
    <3>3. NameOf[r.photo] \in Names
      BY <3>2 DEF Names
    <3>4. r.from = Sandboxed => sandbox[NameOf[r.photo]] # Absent
      BY <2>4, <3>1, <3>2 DEF SoundIn
    <3>5. r.from = Sandboxed => sandbox'[NameOf[r.photo]] = sandbox[NameOf[r.photo]]
      BY <2>3, <3>3, <3>4
    <3>6. SoundIn(gallery', sandbox', r)
      <4> HIDE DEF r
      <4>1. QED
        BY <1>1, <3>1, <3>5, SoundKept
    <3>7. QED
      BY <2>2, <3>6
  <2>6. Opens(d, sandbox)'
    <3>1. FileOf(d)' = FileOf(d)
      BY <2>2 DEF FileOf
    <3>2. sandbox'[FileOf(d)] # Absent
      BY <1>2, <1>3, <1>5, <2>4
    <3>3. QED
      BY <3>1, <3>2 DEF Opens
  <2>7. \A n \in Names : sandbox'[n] \in Photos => NameOf[sandbox'[n]] = n
    <3>1. \A n \in Names : sandbox'[n] = sandbox[n] \/ sandbox'[n] = Piece
      BY <1>2, <1>3, <1>5
    <3>2. QED
      BY <2>4, <3>1 DEF SaveInv
  <2>8. /\ \A text \in disk' : WholeIn(gallery', text)
        /\ \A t \in Tasks : WholeIn(gallery', task'[t].text)
    BY <1>1, <1>4, <2>2, TextsKept
  <2>9. QED
    BY <1>1, <1>4, <2>5, <2>6, <2>7, <2>8, SaveDownloads
<1>6. CASE PassOver(d) /\ UNCHANGED sandbox
  <2>1. Onward(task'[d], downloadAborted, task[d].done)
    BY <1>2, <1>3, <1>6, AheadMoves DEF PassOver
  <2>2. \A j \in DOMAIN task[d].done : SoundIn(gallery', sandbox', task[d].done[j])
    BY <1>1, <1>2, <1>6, DoneSound
  <2>3. \A text \in disk' : WholeIn(gallery', text)
    BY <1>1 DEF SaveInv
  <2>4. QED
    BY <1>1, <1>2, <1>6, <2>1, <2>2, <2>3, OnwardSound, SaveMoves
<1>7. QED
  BY <1>5, <1>6 DEF Created

LEMMA SaveStored ==
    ASSUME TypeOK, SaveInv, DistinctNames, OneDownload, NEW d \in Downloads, Stored(d)
    PROVE  SaveInv'
<1> DEFINE p == Head(task[d].todo)
           n == FileOf(d)
<1>1. Moves(d) /\ UNCHANGED <<registry, disk, gallery>> /\ task[d].at \in Transferring
  BY TransferCases DEF memory
<1>2. TasksOK /\ d \in Tasks /\ registry' \in Texts /\ downloadAborted \in BOOLEAN
      /\ sandbox \in [Names -> Contents]
  BY <1>1 DEF TypeOK, Tasks
<1>3. /\ Tail(task[d].todo) \in Seq(Photos) /\ task[d].done \in Seq(Results)
      /\ n \in Names /\ n = NameOf[p] /\ p \in Photos /\ Stocked(d) \in Seq(Results)
  BY <1>1, <1>2, TodoProperties DEF Stocked
<1>4. WholeIn(gallery', registry') /\ WholeIn(gallery, task[d].text)
  BY <1>1, <1>2 DEF SaveInv
<1>5. Absent # Piece /\ Absent \notin Photos /\ Piece \notin Photos
  BY DownloadAssumption DEF Absent, Piece
<1>6. sandbox[n] # Absent
  BY DEF SaveInv, Opens, Stored
<1>7. ASSUME NEW done \in {task[d].done, Stocked(d)},
             Ahead(d, downloadAborted, Tail(task[d].todo), done),
             \A j \in DOMAIN done : SoundIn(gallery', sandbox', done[j]),
             \A m \in Names : sandbox'[m] \in {sandbox[m], Piece} \/ (m = n /\ sandbox'[m] = p)
      PROVE  SaveInv'
  <2>1. Onward(task'[d], downloadAborted, done)
    BY <1>2, <1>3, <1>7, AheadMoves
  <2>2. /\ WholeIn(gallery', task'[d].text) /\ Opens(d, sandbox)'
        /\ \A i \in DOMAIN task'[d].done : SoundIn(gallery', sandbox', task'[d].done[i])
    BY <1>1, <1>7, <2>1, OnwardSound
  <2>3. /\ \A text \in disk' : WholeIn(gallery', text)
        /\ \A t \in Tasks : WholeIn(gallery', task'[t].text)
    BY <1>1, <2>2, TextsKept
  <2>4. \A m \in Names : sandbox'[m] \in Photos => NameOf[sandbox'[m]] = m
    BY <1>3, <1>5, <1>7 DEF SaveInv
  <2>5. QED
    BY <1>1, <1>4, <2>2, <2>3, <2>4, SaveDownloads
<1>8. ASSUME NEW i \in DOMAIN task[d].done,
             \A m \in Names \ {n} : sandbox'[m] = sandbox[m],
             sandbox[n] = p => sandbox'[n] = p
      PROVE  SoundIn(gallery', sandbox', task[d].done[i])
  <2> DEFINE r == task[d].done[i]
  <2>1. SoundIn(gallery, sandbox, r) /\ r.photo \in Photos
    BY <1>2, DoneSound, ResultType
  <2>2. NameOf[r.photo] \in Names /\ (NameOf[r.photo] = n => r.photo = p)
    BY <1>3, <2>1 DEF Names, DistinctNames
  <2>3. r.from = Sandboxed => sandbox'[NameOf[r.photo]] = sandbox[NameOf[r.photo]]
    BY <1>8, <2>1, <2>2 DEF SoundIn
  <2>4. QED
    <3> HIDE DEF r
    <3>1. SoundIn(gallery', sandbox', r)
      BY <1>1, <2>1, <2>3, SoundKept
    <3>2. QED
      BY <3>1 DEF r
<1>9. CASE /\ sandbox' = [sandbox EXCEPT ![n] = IF @ = Absent THEN @ ELSE Overwritten(@, p)]
           /\ Ahead(d, downloadAborted, Tail(task[d].todo), Stocked(d))
  <2>1. Overwritten(sandbox[n], p) = p
    <3>1. sandbox[n] \in Photos => sandbox[n] = p
      BY <1>3 DEF SaveInv, DistinctNames
    <3>2. SizeOf[p] \in Nat
      BY <1>3, DownloadAssumption
    <3>3. QED
      BY <3>1, <3>2 DEF Overwritten
  <2>2. sandbox'[n] = p /\ \A m \in Names \ {n} : sandbox'[m] = sandbox[m]
    BY <1>2, <1>3, <1>6, <1>9, <2>1
  <2>3. ASSUME NEW j \in DOMAIN Stocked(d) PROVE SoundIn(gallery', sandbox', Stocked(d)[j])
    <3>1. /\ Len(Stocked(d)) = Len(task[d].done) + 1
          /\ Stocked(d)[Len(task[d].done) + 1] = [photo |-> p, from |-> Sandboxed]
          /\ \A i \in 1..Len(task[d].done) : Stocked(d)[i] = task[d].done[i]
      BY <1>3 DEF Stocked
    <3>2. /\ DOMAIN Stocked(d) = 1..Len(Stocked(d)) /\ Len(task[d].done) \in Nat
          /\ DOMAIN task[d].done = 1..Len(task[d].done)
      BY <1>3, LenProperties
    <3>3. CASE j = Len(task[d].done) + 1
      BY <1>3, <2>2, <3>1, <3>3 DEF SoundIn
    <3>4. CASE j # Len(task[d].done) + 1
      <4>1. j \in DOMAIN task[d].done /\ Stocked(d)[j] = task[d].done[j]
        BY <3>1, <3>2, <3>4
      <4>2. QED
        BY <1>8, <2>2, <4>1
    <3>5. QED
      BY <3>3, <3>4
  <2>4. QED
    BY <1>7, <1>9, <2>2, <2>3
<1>10. CASE /\ sandbox' = [sandbox EXCEPT ![n] = IF @ \in {Absent, p} THEN @ ELSE Piece]
            /\ PassOver(d)
  <2>1. /\ \A m \in Names \ {n} : sandbox'[m] = sandbox[m]
        /\ sandbox'[n] \in {sandbox[n], Piece} /\ (sandbox[n] = p => sandbox'[n] = p)
    BY <1>2, <1>3, <1>10
  <2>2. QED
    BY <1>7, <1>8, <1>10, <2>1 DEF PassOver
<1>11. QED
  BY <1>9, <1>10 DEF Stored, Stocked

LEMMA SourceKey ==
    ASSUME TypeOK, SaveInv, NEW d \in Downloads, NEW i \in DOMAIN task[d].done,
           Source(task[d].done[i]) # Absent
    PROVE  Source(task[d].done[i]) \in {p \in Photos : Key(p) = Key(task[d].done[i].photo)}
<1> DEFINE r == task[d].done[i]
<1>1. SoundIn(gallery, sandbox, r) /\ r.photo \in Photos
  BY DoneSound, ResultType DEF TypeOK, Tasks
<1>2. Source(r) \in {p \in Photos : Key(p) = Key(r.photo)}
  <2> HIDE DEF r
  <2>1. Source(r) # Absent
    BY DEF r
  <2>2. QED
    BY <1>1, <2>1 DEF Source, SoundIn
<1>3. QED
  BY <1>2

LEMMA SaveAccepted ==
    ASSUME TypeOK, SaveInv, OneDownload, NEW d \in Downloads, Accepted(d)
    PROVE  SaveInv'
<1>1. /\ Moves(d) /\ UNCHANGED disk
      /\ task'[d] = [Idle EXCEPT !.at = "opening", !.text = registry']
      /\ registry' \in Texts
      /\ \A n \in Names : sandbox'[n] \in {sandbox[n], Absent}
      /\ \A u \in Items \ Fresh : gallery'[u] = gallery[u]
      /\ \A k \in DOMAIN registry : registry'[k] = registry[k]
      /\ \A k \in DOMAIN registry' \ DOMAIN registry :
            \E i \in DOMAIN task[d].done :
                /\ Key(task[d].done[i].photo) = k /\ Source(task[d].done[i]) # Absent
                /\ gallery'[registry'[k]] = Source(task[d].done[i])
  BY AcceptedCases
<1>2. task'[d].done = <<>> /\ task'[d].at # "storing" /\ task'[d].text = registry'
  BY <1>1 DEF Idle
<1>3. WholeIn(gallery', registry')
  <2>1. SUFFICES ASSUME NEW k \in DOMAIN registry'
                 PROVE  gallery'[registry'[k]] \in {Absent} \cup {p \in Photos : Key(p) = k}
    BY DEF WholeIn
  <2>2. CASE k \in DOMAIN registry
    <3>1. gallery'[registry'[k]] = gallery[registry[k]]
      BY <1>1, <2>2, NotFresh
    <3>2. QED
      BY <2>2, <3>1 DEF SaveInv, WholeIn
  <2>3. CASE k \notin DOMAIN registry
    <3>1. PICK i \in DOMAIN task[d].done :
                /\ Key(task[d].done[i].photo) = k /\ Source(task[d].done[i]) # Absent
                /\ gallery'[registry'[k]] = Source(task[d].done[i])
      BY <1>1, <2>3
    <3>2. QED
      BY <3>1, SourceKey
  <2>4. QED
    BY <2>2, <2>3
<1>4. \A text \in disk' : WholeIn(gallery', text)
  <2>1. SUFFICES ASSUME NEW text \in disk PROVE WholeIn(gallery', text)
    BY <1>1
  <2>2. text \in Texts /\ Range(text) \cap Fresh = {}
    BY DEF TypeOK, Fresh
  <2>3. QED
    BY <1>1, <2>2, WholeKept DEF SaveInv
<1>5. ASSUME NEW t \in Tasks PROVE WholeIn(gallery', task'[t].text)
  <2>1. CASE t = d
    BY <1>2, <1>3, <2>1
  <2>2. CASE t # d
    <3>1. task'[t] = task[t]
      BY <1>1, <2>2 DEF Moves
    <3>2. task[t].text \in Texts
      BY TextOfTask DEF TypeOK
    <3>3. Range(task[t].text) \cap Fresh = {}
      <4>1. Range(task[t].text) \subseteq Held(t)
        BY DEF Held
      <4>2. Held(t) \cap Fresh = {}
        BY DEF Fresh
      <4>3. QED
        BY <4>1, <4>2
    <3>4. WholeIn(gallery, task[t].text)
      BY DEF SaveInv
    <3>5. WholeIn(gallery', task[t].text)
      BY <1>1, <3>2, <3>3, <3>4, WholeKept
    <3>6. QED
      BY <3>1, <3>5
  <2>3. QED
    BY <2>1, <2>2
<1>6. \A i \in DOMAIN task'[d].done : SoundIn(gallery', sandbox', task'[d].done[i])
  BY <1>2
<1>7. Opens(d, sandbox)'
  BY <1>2 DEF Opens
<1>8. \A n \in Names : sandbox'[n] \in Photos => NameOf[sandbox'[n]] = n
  <2>1. Absent \notin Photos
    BY DownloadAssumption
  <2>2. QED
    BY <1>1, <2>1 DEF SaveInv
<1>9. QED
  BY <1>1, <1>3, <1>4, <1>5, <1>6, <1>7, <1>8, SaveDownloads

LEMMA SaveDeleted ==
    ASSUME TypeOK, SaveInv, NEW u \in Items, DeleteItem(u)
    PROVE  SaveInv'
<1>1. /\ UNCHANGED <<registry, disk, sandbox, task>> /\ gallery' = [gallery EXCEPT ![u] = Absent]
  BY DEF DeleteItem, memory
<1>2. \A x \in Items : gallery'[x] \in {gallery[x], Absent}
  BY <1>1 DEF TypeOK
<1>3. ASSUME NEW text \in Texts, WholeIn(gallery, text) PROVE WholeIn(gallery', text)
  BY <1>2, <1>3, TextType DEF WholeIn
<1>4. registry \in Texts /\ (\A text \in disk : text \in Texts) /\ \A t \in Tasks : task[t].text \in Texts
  BY TextOfTask DEF TypeOK
<1>5. ASSUME NEW d \in Downloads, NEW i \in DOMAIN task[d].done
      PROVE  SoundIn(gallery', sandbox', task[d].done[i])
  <2> DEFINE r == task[d].done[i]
  <2>1. SoundIn(gallery, sandbox, r) /\ r \in Results
    BY DoneSound, ResultType DEF TypeOK, Tasks
  <2>2. SoundIn(gallery', sandbox', r)
    <3> HIDE DEF r
    <3>1. QED
      BY <1>1, <1>2, <2>1 DEF SoundIn, Results
  <2>3. QED
    BY <2>2
<1>6. \A d \in Downloads : Opens(d, sandbox)'
  BY <1>1 DEF SaveInv, Opens, FileOf
<1>7. QED
  BY <1>1, <1>3, <1>4, <1>5, <1>6 DEF SaveInv

LEMMA SaveStep ==
    ASSUME DistinctNames, OneDownload, TypeOK, SaveInv, [Next]_vars
    PROVE  SaveInv'
<1>0. Downloads \subseteq Tasks /\ Validations \subseteq Tasks
  BY DEF Tasks
<1>1. ASSUME NEW t \in Tasks, Steps(t) PROVE SaveInv'
  BY <1>1, SaveRead, SaveFile DEF Steps
<1>2. ASSUME NEW v \in Validations, ScanEnds(v) PROVE SaveInv'
  BY <1>0, <1>2, SaveRead
<1>3. ASSUME NEW d \in Downloads, Refused(d) PROVE SaveInv'
  <2>1. /\ Moves(d) /\ task'[d] = [Idle EXCEPT !.at = "opening", !.text = registry']
        /\ UNCHANGED <<registry, disk, gallery, sandbox>>
    BY <1>3, RefusedCases DEF memory, files
  <2>2. task'[d].done = <<>> /\ task'[d].at # "storing" /\ task'[d].text = registry'
    BY <2>1 DEF Idle
  <2>3. WholeIn(gallery, registry') /\ \A text \in disk' : WholeIn(gallery, text)
    BY <2>1 DEF SaveInv
  <2>4. QED
    BY <1>0, <2>1, <2>2, <2>3, SaveAnew
<1>4. ASSUME NEW d \in Downloads, HideProgress(d) PROVE SaveInv'
  <2>1. Moves(d) /\ task'[d] = Idle /\ UNCHANGED <<registry, disk, gallery, sandbox>>
    BY <1>4, HideCases DEF memory, files
  <2>2. task'[d].done = <<>> /\ task'[d].at # "storing" /\ task'[d].text = NoEntries
    BY <2>1 DEF Idle
  <2>3. WholeIn(gallery, registry') /\ \A text \in disk' : WholeIn(gallery, text)
    BY <2>1 DEF SaveInv
  <2>4. QED
    BY <1>0, <2>1, <2>2, <2>3, WholeNothing, SaveAnew
<1>5. ASSUME NEW d \in Downloads, Transfer(d) PROVE SaveInv'
  BY <1>3, <1>4, <1>5, SaveFetched, SaveCreated, SaveStored, SaveAccepted DEF Transfer
<1>6. CASE CancelDownload \/ UNCHANGED vars
  <2>1. UNCHANGED <<registry, disk, gallery, sandbox, task>>
    BY <1>6 DEF CancelDownload, vars, memory, files
  <2>2. QED
    BY <2>1 DEF SaveInv, Opens, FileOf
<1>7. CASE Relaunch
  <2>1. registry' = NoEntries /\ task' = Launched /\ UNCHANGED <<disk, gallery, sandbox>>
    BY <1>7 DEF Relaunch, files
  <2>2. \A t \in Tasks : task'[t].text = NoEntries /\ task'[t].done = <<>> /\ task'[t].at # "storing"
    BY <2>1, LaunchedType
  <2>3. \A d \in Downloads : Opens(d, sandbox)' /\ task'[d].done = <<>>
    BY <1>0, <2>2 DEF Opens
  <2>4. QED
    BY <2>1, <2>2, <2>3, WholeNothing DEF SaveInv
<1>8. QED
  BY <1>1, <1>2, <1>5, <1>6, <1>7, SaveStart, SaveDeleted DEF Next

(* If no two photos have the same name and downloads do not overlap, the   *)
(* gallery item recorded for a photo is that photo, whole, or deleted.     *)
THEOREM RecordedIsSaved ==
    ASSUME DistinctNames, OneDownload
    PROVE  Spec => []RegisteredIsSaved
<1>1. Init => TypeOK /\ SaveInv
  <2>1. SUFFICES ASSUME Init PROVE SaveInv
    BY TypeInit
  <2>2. Absent \notin Photos /\ Downloads \subseteq Tasks
    BY DownloadAssumption DEF Tasks
  <2>3. \A t \in Tasks : task[t].text = NoEntries /\ task[t].done = <<>> /\ task[t].at # "storing"
    BY <2>1, LaunchedType DEF Init
  <2>4. registry = NoEntries /\ disk = {} /\ \A n \in Names : sandbox[n] = Absent
    BY <2>1 DEF Init
  <2>5. \A d \in Downloads : Opens(d, sandbox) /\ task[d].done = <<>>
    BY <2>2, <2>3 DEF Opens
  <2>6. QED
    BY <2>2, <2>3, <2>4, <2>5, WholeNothing DEF SaveInv
<1>2. TypeOK /\ SaveInv /\ [Next]_vars => (TypeOK /\ SaveInv)'
  BY TypeStep, SaveStep
<1>3. SaveInv => RegisteredIsSaved
  BY DEF SaveInv, WholeIn, RegisteredIsSaved
<1>4. QED
  BY <1>1, <1>2, <1>3, PTL DEF Spec
=============================================================================
