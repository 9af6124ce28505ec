----------------------------- MODULE GpsRecords -----------------------------
(***************************************************************************)
(* The store of recorded positions: GpsRecorder.ets from handleLocation on *)
(* and the pure algorithms of utils/GpsTrack.ets.  A fix is merged into    *)
(* the last record while the phone stays in one place, with a new record   *)
(* each Heartbeat; the records stay ordered by time although the clock may *)
(* be set back, for findClosest looks photos up by bisection.  Above       *)
(* DeferAbove records the file is written by a timer, and below at once.   *)
(* The simulated tracks of debug builds are left out.                      *)
(*                                                                         *)
(* When a position is recorded at all is the subject of GpsRecorder; here  *)
(* a fix may come at any time, with any time stamp.  Places are points of  *)
(* a line: near is not transitive, and a place may be too far to reach.    *)
(***************************************************************************)
EXTENDS Integers, SequencesExt, Picking

CONSTANTS
    Fixes,        \* what the location service may report, and when
    SameSpot,     \* SAME_SPOT_METERS
    Heartbeat,    \* HEARTBEAT_MS
    MaxSpeed,     \* MAX_SPEED_MPS
    JumpWindow,   \* JUMP_WINDOW_MS
    DayLength,
    MaxRecords,   \* MAX_RECORDS
    Drop,         \* a tenth of it
    DeferAbove,   \* DEFERRED_SAVE_THRESHOLD
    MaxDiff,      \* the default of findClosest
    Legacy        \* what an older version may have left in the file

ASSUME StoreAssumption ==
    /\ Fixes \subseteq [ts : Nat \ {0}, place : Nat]
    /\ {SameSpot, Heartbeat, DayLength, MaxRecords, Drop} \subseteq Nat \ {0}
    /\ {MaxSpeed, JumpWindow, DeferAbove, MaxDiff} \subseteq Nat
    /\ Drop <= MaxRecords

VARIABLES
    records,  \* records
    lastFix,  \* lastFix: a set of one fix or none
    pending,  \* savePending
    timer,    \* saveTimerId is set
    daily,    \* the cache by day, likewise: none once recordsVersion moved on
    file,     \* gps_records.json
    failed    \* ghost: the file could not be read, or last time not written

vars == <<records, lastFix, pending, timer, daily, file, failed>>
saving == <<pending, timer, file, failed>>

Times  == {fix.ts : fix \in Fixes}
Places == {fix.place : fix \in Fixes}

DayOf(t) == (t - 1) \div DayLength
Days == {DayOf(t) : t \in Times}
StartOfDay(t) == DayOf(t) * DayLength + 1

Abs(n) == IF n < 0 THEN -n ELSE n
Later(m, n) == IF m < n THEN n ELSE m

(* start is runStart; older versions wrote none, and it is 0.              *)
Records  == [ts : Times, place : Places, start : Times]
Unmended == [ts : Times, place : Places, start : {0}]
-----------------------------------------------------------------------------
Near(p, q) == Abs(p - q) < SameSpot

(* runStartOf.                                                             *)
RunStartOf(r) == IF r.start = 0 \/ r.start > r.ts THEN r.ts ELSE r.start

(* Mutant: the time since the last record counts, which each merge renews. *)
ContinuesLast(last, r) ==
    r.ts > last.ts /\ Near(last.place, r.place) /\ r.ts - last.ts < Heartbeat

(* r continues the rest that "last" stands for.                            *)
Continues(last, r) ==
    /\ r.ts > last.ts
    /\ Near(last.place, r.place)
    /\ r.ts - RunStartOf(last) < Heartbeat

(* append, and one round of compact.                                       *)
Added(rs, r) ==
    IF rs # <<>> /\ Continues(Last(rs), r)
    THEN Append(Front(rs), [ts |-> r.ts, place |-> Last(rs).place,
                            start |-> RunStartOf(Last(rs))])
    ELSE Append(rs, r)

Mended(r) == [r EXCEPT !.start = RunStartOf(r)]

(* Mutant: what is no longer near is taken for the same rest.              *)
CompactTimes(rs) ==
    FoldLeft(LAMBDA out, r :
                 IF out # <<>> /\ r.ts > Last(out).ts /\ r.ts - RunStartOf(Last(out)) < Heartbeat
                 THEN Append(Front(out), [Last(out) EXCEPT !.ts = r.ts])
                 ELSE Append(out, Mended(r)), <<>>, rs)

(* compact: its rounds, and what the last of them leaves.                  *)
Rounds(rs) ==
    LET out[i \in 0..Len(rs)] == IF i = 0 THEN <<>> ELSE Added(out[i - 1], Mended(rs[i]))
    IN out
Compact(rs) == Rounds(rs)[Len(rs)]

(* The sort of the script runtime, which is stable.                        *)
Before(rs) ==
    {p \in (DOMAIN rs) \X (DOMAIN rs) :
        rs[p[1]].ts < rs[p[2]].ts \/ (rs[p[1]].ts = rs[p[2]].ts /\ p[1] < p[2])}
Sorted(rs) == [i \in DOMAIN rs |-> rs[InOrder(DOMAIN rs, Before(rs))[i]]]

(* isImplausibleJump.                                                      *)
ImplausibleJump(prev, next) ==
    LET dt == next.ts - prev.ts
    IN dt > 0 /\ dt <= JumpWindow /\ Abs(prev.place - next.place) > MaxSpeed * dt

(* pruneIfNeeded.                                                          *)
Pruned(rs) == IF Len(rs) <= MaxRecords THEN rs ELSE SubSeq(rs, Drop + 1, Len(rs))

(* findClosest: the insertion point of t, by its steps for each range, and *)
(* the records found, one or none.                                         *)
Seeks(rs, t) ==
    LET seek[p \in (DOMAIN rs) \X (DOMAIN rs)] ==
            LET lo == p[1]  hi == p[2]  mid == (lo + hi) \div 2
            IN IF lo >= hi THEN lo
               ELSE IF rs[mid].ts < t THEN seek[<<mid + 1, hi>>] ELSE seek[<<lo, mid>>]
    IN seek
Bisect(rs, t) == Seeks(rs, t)[<<1, Len(rs)>>]

Apart(rs, i, t) == Abs(rs[i].ts - t)

(* Mutant: the insertion point is taken without its left neighbour.        *)
FindClosestAfter(rs, t) ==
    IF rs = <<>> THEN {}
    ELSE LET lo == Bisect(rs, t) IN IF Apart(rs, lo, t) > MaxDiff THEN {} ELSE {rs[lo]}

FindClosest(rs, t) ==
    IF rs = <<>> THEN {}
    ELSE LET lo   == Bisect(rs, t)
             left == IF lo > 1 /\ Apart(rs, lo - 1, t) < Apart(rs, lo, t) THEN lo - 1 ELSE lo
             best == IF lo < Len(rs) /\ Apart(rs, lo + 1, t) < Apart(rs, left, t)
                     THEN lo + 1 ELSE left
         IN IF Apart(rs, best, t) > MaxDiff THEN {} ELSE {rs[best]}

(* ensureDailyCache: the records of each day, and displayRecordCount.      *)
OfDay(rs, d)  == Picked(rs, {i \in DOMAIN rs : DayOf(rs[i].ts) = d})
Without(rs, d) == Picked(rs, {i \in DOMAIN rs : DayOf(rs[i].ts) # d})

Grouped(rs) ==
    [tracks |-> [d \in {DayOf(r.ts) : r \in ToSet(rs)} |-> OfDay(rs, d)],
     total  |-> Len(rs)]

(* What a page shows of a day: the rest that the first record ends is      *)
(* counted from midnight on.                                               *)
GroupOf(recs) ==
    LET begun == RunStartOf(recs[1])
    IN [count |-> Len(recs), first |-> Later(begun, StartOfDay(recs[1].ts)),
        last |-> Last(recs).ts]
-----------------------------------------------------------------------------
(* saveRecords, with savePending as it was when called.  Where the file    *)
(* system cannot rename over a file, writing may fail after the copy.      *)
SaveRecords(rs, was) ==
    /\ timer' = FALSE
    /\ \/ file' = rs /\ pending' = FALSE /\ failed' = FALSE
       \/ file' \in {file, rs} /\ pending' = was /\ failed' = TRUE

(* scheduleSaveRecords.                                                    *)
ScheduleSaveRecords(rs) ==
    \/ Len(rs) <= DeferAbove /\ SaveRecords(rs, pending)
    \/ /\ Len(rs) > DeferAbove
       /\ pending' = TRUE /\ timer' = TRUE /\ UNCHANGED <<file, failed>>

(* flushRecords, and what it leaves of the timer.                          *)
FlushRecords(timerLeft) ==
    \/ pending /\ SaveRecords(records, FALSE)
    \/ ~pending /\ timer' = timerLeft /\ UNCHANGED <<pending, file, failed>>

(* loadRecords of what the file holds.                                     *)
Loaded(rs) ==
    LET sorted    == Sorted(rs)
        compacted == Compact(sorted)
        changed   == Len(compacted) # Len(sorted) \/ \E r \in ToSet(sorted) : r.start = 0
    IN [records |-> IF changed THEN compacted ELSE sorted, changed |-> changed]

ASSUME LegacyAssumption ==
    \A found \in Legacy : found \in Seq(Unmended) /\ Len(Loaded(found).records) <= MaxRecords

(* The process is launched and finds these records; mended, they are       *)
(* written back.                                                           *)
Launch(found) ==
    LET loaded == Loaded(found)
    IN /\ records' = loaded.records
       /\ lastFix' = {} /\ daily' = {}
       /\ \/ loaded.changed /\ SaveRecords(loaded.records, FALSE)
          \/ ~loaded.changed /\ timer' = FALSE /\ pending' = FALSE /\ UNCHANGED file

Init ==
    /\ \E found \in Legacy :
          LET loaded == Loaded(found)
          IN /\ records = loaded.records
             /\ \/ file = loaded.records /\ failed \in {FALSE, loaded.changed}
                \/ file = found /\ failed = loaded.changed
    /\ lastFix = {} /\ daily = {}
    /\ pending = FALSE /\ timer = FALSE
-----------------------------------------------------------------------------
(* Mutant: one record is taken for ordered, whatever is put behind it.     *)
HandleLocationUnsortedPair(fix) ==
    /\ ~\E prev \in lastFix : ImplausibleJump(prev, fix)
    /\ LET added  == Added(records, [ts |-> fix.ts, place |-> fix.place, start |-> fix.ts])
           merged == Len(added) = Len(records)
           late   == ~merged /\ Len(records) > 1 /\ fix.ts < Last(records).ts
           ended  == IF merged THEN [ts |-> fix.ts, place |-> Last(added).place] ELSE fix
       IN /\ records' = Pruned(IF late THEN Sorted(added) ELSE added)
          /\ lastFix' = {ended}
    /\ daily' = {}
    /\ ScheduleSaveRecords(records')

(* A fix comes: dropped if it is a jump, else appended or merged; one from *)
(* before the last record is sorted in.                                    *)
HandleLocation(fix) ==
    \/ /\ \E prev \in lastFix : ImplausibleJump(prev, fix)
       /\ lastFix' = {fix}
       /\ UNCHANGED <<records, daily, saving>>
    \/ /\ ~\E prev \in lastFix : ImplausibleJump(prev, fix)
       /\ LET added  == Added(records, [ts |-> fix.ts, place |-> fix.place, start |-> fix.ts])
              merged == Len(added) = Len(records)
              late   == ~merged /\ records # <<>> /\ fix.ts < Last(records).ts
              ended  == IF merged THEN [ts |-> fix.ts, place |-> Last(added).place] ELSE fix
          IN /\ records' = Pruned(IF late THEN Sorted(added) ELSE added)
             /\ lastFix' = {ended}
       /\ daily' = {}
       /\ ScheduleSaveRecords(records')

(* doStart forgets the last fix; stop does too, and writes what is pending. *)
DoStart ==
    /\ lastFix' = {}
    /\ UNCHANGED <<records, daily, saving>>

Stop ==
    /\ lastFix' = {}
    /\ FlushRecords(timer)
    /\ UNCHANGED <<records, daily>>

TimerFires ==
    /\ timer
    /\ FlushRecords(FALSE)
    /\ UNCHANGED <<records, lastFix, daily>>

(* Mutant: only what is pending already is written.                        *)
DeleteDayFlushes(d) ==
    /\ OfDay(records, d) # <<>>
    /\ records' = Without(records, d)
    /\ lastFix' = {fix \in lastFix : DayOf(fix.ts) # d}
    /\ daily' = {}
    /\ \/ pending /\ SaveRecords(records', FALSE)
       \/ ~pending /\ UNCHANGED saving

(* Mutant: the pages are not told.                                         *)
DeleteDaySilently(d) ==
    /\ OfDay(records, d) # <<>>
    /\ records' = Without(records, d)
    /\ lastFix' = {fix \in lastFix : DayOf(fix.ts) # d}
    /\ SaveRecords(records', pending)
    /\ UNCHANGED daily

(* deleteDay; a day without records is left as it is.                      *)
DeleteDay(d) ==
    /\ OfDay(records, d) # <<>>
    /\ records' = Without(records, d)
    /\ lastFix' = {fix \in lastFix : DayOf(fix.ts) # d}
    /\ daily' = {}
    /\ SaveRecords(records', pending)

(* A page asks for the days.                                               *)
EnsureDailyCache ==
    /\ daily = {}
    /\ daily' = {Grouped(records)}
    /\ UNCHANGED <<records, lastFix, saving>>

(* The process dies, at any time, and the file can be read at the next     *)
(* launch, or not.                                                         *)
Relaunch ==
    \/ Launch(file) /\ (Loaded(file).changed \/ failed' = FALSE)
    \/ Launch(<<>>) /\ failed' = TRUE

Next ==
    \/ \E fix \in Fixes : HandleLocation(fix)
    \/ \E d \in Days : DeleteDay(d)
    \/ EnsureDailyCache \/ DoStart \/ Stop \/ TimerFires \/ Relaunch

Spec == Init /\ [][Next]_vars
-----------------------------------------------------------------------------
TypeOK ==
    /\ records \in Seq(Records) /\ file \in Seq(Records \cup Unmended)
    /\ lastFix \subseteq [ts : Times, place : Places]
    /\ pending \in BOOLEAN /\ timer \in BOOLEAN /\ failed \in BOOLEAN

(* Whatever the clock does, the records are ordered by time, as            *)
(* findClosest needs them, and never more than the bound.                  *)
Ordered ==
    /\ \A i, j \in DOMAIN records : i < j => records[i].ts <= records[j].ts
    /\ Len(records) <= MaxRecords

(* A record stands for a rest shorter than the heartbeat: resting for      *)
(* hours leaves a record for each heartbeat, and not only the last.        *)
RestsAreShort ==
    \A r \in ToSet(records) : r.start <= r.ts /\ r.ts - r.start < Heartbeat

(* For each photo the lookup finds the record nearest in time, or none if  *)
(* that one is too far away.                                               *)
FindsClosest ==
    \A t \in Times :
        LET distances == {Abs(r.ts - t) : r \in ToSet(records)}
            allowed   == {d \in distances : d <= MaxDiff}
        IN /\ FindClosest(records, t) = {} <=> allowed = {}
           /\ \A r \in FindClosest(records, t) :
                 r \in ToSet(records) /\ \A d \in distances : Abs(r.ts - t) <= d

(* What is not in the file yet will be written: a save is pending and its  *)
(* timer runs, unless reading or writing the file has failed.              *)
UnsavedIsPending == records # file /\ ~failed => pending /\ timer

(* What the pages show of the days is what is recorded, the total is that  *)
(* of the days, and no day begins before its midnight or after its end.    *)
DailyCurrent ==
    \A shown \in daily :
        /\ \A d \in Days :
              IF d \in DOMAIN shown.tracks THEN shown.tracks[d] = OfDay(records, d)
                                           ELSE OfDay(records, d) = <<>>
        /\ shown.total = SumFunctionOnSet([d \in DOMAIN shown.tracks |-> GroupOf(shown.tracks[d]).count],
                                          DOMAIN shown.tracks)
        /\ \A d \in DOMAIN shown.tracks :
              LET group == GroupOf(shown.tracks[d])
              IN StartOfDay(group.last) <= group.first /\ group.first <= group.last

(* No instant loses its place: where a record said the phone was resting,  *)
(* there is still a record near that place, within a heartbeat after a fix *)
(* has been merged, added or sorted in (anything but deleting and          *)
(* pruning), and within two after a launch has compacted what it found: a  *)
(* rest that lay across another, as the clock was set back, may have been  *)
(* merged into one that began after it.                                    *)
Anchored(rs, t, p, gap) == \E r \in ToSet(rs) : Abs(r.ts - t) < gap /\ Near(r.place, p)
AllAnchored(rs, old, gap) ==
    \A r \in ToSet(old) : \A t \in r.start .. r.ts : Anchored(rs, t, r.place, gap)

KeepsAnchors ==
    [][ /\ lastFix' # {} /\ Len(records) < MaxRecords /\ Len(records) <= Len(records')
           => AllAnchored(records', records, Heartbeat)
        /\ records = file /\ Relaunch /\ ~failed'
           => AllAnchored(records', records, 2 * Heartbeat)
      ]_vars

(* Stopping writes at once whatever is not written yet.                    *)
StopWritesAll == [][Stop /\ ~pending => records = file]_vars
=============================================================================
