------------------------------- MODULE GpsProofs -------------------------------
(***************************************************************************)
(* The location recorder: its store of positions (GpsRecords), then how it *)
(* is started and stopped (GpsRecorder).                                   *)
(*                                                                         *)
(* Of the store, for any fixes, bounds and old files: the types,           *)
(* the order, that rests stay short and keep their places, that what the   *)
(* file lacks is due to be written, that the days shown are those of the   *)
(* records, and that the lookup finds the nearest record.  The operators   *)
(* come first, each with what it makes of any list (the sort, a fix that   *)
(* is added, the rounds of the compaction, the rounds of the bisection),   *)
(* then the invariant (StoreInv) and the theorems that follow from it.     *)
(***************************************************************************)
EXTENDS GpsRecords, GpsRecorder, DataLemmas

OrderedSeq(rs) == \A i, j \in DOMAIN rs : i < j => rs[i].ts <= rs[j].ts

(* What the file may hold: what this version wrote, or an older one.       *)
Stored == Records \cup Unmended

LEMMA SeqFacts ==
    ASSUME NEW T, NEW rs \in Seq(T)
    PROVE  /\ Len(rs) \in Nat /\ DOMAIN rs = 1..Len(rs) /\ \A i \in DOMAIN rs : rs[i] \in T
           /\ rs \in [1..Len(rs) -> T]
BY LenProperties, ElementOfSeq

LEMMA StoreFacts ==
    /\ \A r \in Stored : r.ts \in Times /\ r.place \in Places /\ r.start \in Times \cup {0}
    /\ \A r \in Records : r \in Stored /\ r.start \in Times
    /\ \A t \in Times : t \in Nat /\ t # 0
    /\ Places \subseteq Nat
    /\ {SameSpot, Heartbeat, DayLength, MaxRecords, Drop} \subseteq Nat \ {0} /\ Drop <= MaxRecords
BY StoreAssumption DEF Stored, Records, Unmended, Times, Places
-----------------------------------------------------------------------------
(* The sort.                                                               *)
LEMMA SortOrders ==
    ASSUME NEW T, \A r \in T : r.ts \in Int, NEW rs \in Seq(T)
    PROVE  /\ Orders(Before(rs), DOMAIN rs)
           /\ IsFiniteSet(DOMAIN rs) /\ Cardinality(DOMAIN rs) = Len(rs)
<1> DEFINE D == DOMAIN rs
           R == Before(rs)
<1>1. D = 1..Len(rs) /\ Len(rs) \in Nat /\ \A i \in D : rs[i] \in T
  BY SeqFacts
<1>2. IsFiniteSet(D) /\ Cardinality(D) = Len(rs)
  <2>1. Cardinality(1..Len(rs)) = IF 1 > Len(rs) THEN 0 ELSE Len(rs) - 1 + 1
    BY <1>1, FS_Interval
  <2>2. IsFiniteSet(1..Len(rs))
    BY <1>1, FS_Interval
  <2>3. QED
    BY <1>1, <2>1, <2>2
<1>3. \A i, j \in D : <<i, j>> \in R <=> rs[i].ts < rs[j].ts \/ (rs[i].ts = rs[j].ts /\ i < j)
  BY DEF Before
<1>4. \A i \in D : rs[i].ts \in Int /\ i \in Int
  BY <1>1
<1> HIDE DEF D, R
<1>5. Orders(R, D)
  BY <1>3, <1>4 DEF Orders
<1>6. QED
  BY <1>2, <1>5 DEF D, R

(* Sorting puts the same records in order of time.                         *)
LEMMA SortedProperties ==
    ASSUME NEW T, \A r \in T : r.ts \in Int, NEW rs \in Seq(T)
    PROVE  /\ Sorted(rs) \in Seq(T) /\ Len(Sorted(rs)) = Len(rs)
           /\ DOMAIN Sorted(rs) = DOMAIN rs
           /\ OrderedSeq(Sorted(rs))
           /\ \A i \in DOMAIN rs : \E k \in DOMAIN rs : Sorted(rs)[k] = rs[i]
           /\ \A k \in DOMAIN rs : \E i \in DOMAIN rs : Sorted(rs)[k] = rs[i]
<1> DEFINE D == DOMAIN rs
           n == Len(rs)
           list == InOrder(D, Before(rs))
<1>1. D = 1..n /\ n \in Nat /\ \A i \in D : rs[i] \in T /\ rs[i].ts \in Int
  BY SeqFacts
<1>2. /\ list \in [1..n -> D]
      /\ \A x \in D : \E i \in 1..n : list[i] = x
      /\ \A i, j \in 1..n : i < j => <<list[i], list[j]>> \in Before(rs)
  BY SortOrders, InOrderProperties
<1>3. Sorted(rs) = [i \in D |-> rs[list[i]]]
  BY DEF Sorted
<1> HIDE DEF list
<1>4. Sorted(rs) \in [1..n -> T]
  BY <1>1, <1>2, <1>3
<1>5. Sorted(rs) \in Seq(T) /\ Len(Sorted(rs)) = n /\ DOMAIN Sorted(rs) = D
  BY <1>1, <1>3, <1>4, IsASeq, LenProperties
<1>6. ASSUME NEW i \in D, NEW j \in D, i < j PROVE rs[list[i]].ts <= rs[list[j]].ts
  <2>1. <<list[i], list[j]>> \in Before(rs) /\ list[i] \in D /\ list[j] \in D
    BY <1>1, <1>2, <1>6
  <2>2. rs[list[i]].ts < rs[list[j]].ts \/ rs[list[i]].ts = rs[list[j]].ts
    BY <2>1 DEF Before
  <2>3. QED
    BY <1>1, <2>1, <2>2
<1>7. OrderedSeq(Sorted(rs))
  BY <1>3, <1>6 DEF OrderedSeq
<1>8. ASSUME NEW i \in D PROVE \E k \in D : Sorted(rs)[k] = rs[i]
  <2>1. PICK k \in 1..n : list[k] = i
    BY <1>2, <1>8
  <2>2. k \in D /\ Sorted(rs)[k] = rs[i]
    BY <1>1, <1>3, <2>1
  <2>3. QED
    BY <2>2
<1>9. ASSUME NEW k \in D PROVE \E i \in D : Sorted(rs)[k] = rs[i]
  <2>1. list[k] \in D /\ Sorted(rs)[k] = rs[list[k]]
    BY <1>1, <1>2, <1>3, <1>9
  <2>2. QED
    BY <2>1
<1>10. QED
  BY <1>5, <1>7, <1>8, <1>9

(* What is in order already stays as it is: the sort is stable.            *)
LEMMA SortedSame ==
    ASSUME NEW T, \A r \in T : r.ts \in Int, NEW rs \in Seq(T), OrderedSeq(rs)
    PROVE  Sorted(rs) = rs
<1> DEFINE D == DOMAIN rs
           n == Len(rs)
           R == Before(rs)
<1>1. D = 1..n /\ n \in Nat /\ \A i \in D : rs[i] \in T /\ rs[i].ts \in Int
  BY SeqFacts
<1>2. \A i, j \in D : <<i, j>> \in R <=> i < j
  <2>1. SUFFICES ASSUME NEW i \in D, NEW j \in D PROVE <<i, j>> \in R <=> i < j
    OBVIOUS
  <2>2. <<i, j>> \in R <=> rs[i].ts < rs[j].ts \/ (rs[i].ts = rs[j].ts /\ i < j)
    BY DEF Before
  <2>3. (i < j => rs[i].ts <= rs[j].ts) /\ (j < i => rs[j].ts <= rs[i].ts)
    BY DEF OrderedSeq
  <2>4. i \in Int /\ j \in Int /\ rs[i].ts \in Int /\ rs[j].ts \in Int
    BY <1>1
  <2>5. QED
    BY <2>2, <2>3, <2>4
<1> HIDE DEF R
<1>3. ASSUME NEW x \in D PROVE CountBefore(D, R, x) = x - 1
  <2>1. {y \in D : <<y, x>> \in R} = 1..(x - 1)
    BY <1>1, <1>2
  <2>2. x \in Int /\ x >= 1
    BY <1>1
  <2>3. Cardinality(1..(x - 1)) = x - 1
    <3>1. x - 1 \in Int /\ 1 \in Int
      BY <2>2
    <3>2. Cardinality(1..(x - 1)) = IF 1 > x - 1 THEN 0 ELSE (x - 1) - 1 + 1
      BY <3>1, FS_Interval
    <3>3. QED
      BY <2>2, <3>2
  <2>4. QED
    BY <2>1, <2>3 DEF CountBefore
<1>4. Cardinality(D) = n
  BY SortOrders
<1>5. ASSUME NEW i \in D PROVE InOrder(D, R)[i] = i
  <2>1. InOrder(D, R)[i] = CHOOSE x \in D : CountBefore(D, R, x) = i - 1
    BY <1>1, <1>4 DEF InOrder
  <2>2. \A x \in D : CountBefore(D, R, x) = i - 1 <=> x = i
    BY <1>1, <1>3
  <2>3. QED
    BY <2>1, <2>2
<1>6. Sorted(rs) = [i \in D |-> rs[i]]
  BY <1>5 DEF Sorted, R
<1>7. QED
  BY <1>6, SeqFacts
-----------------------------------------------------------------------------
(* What one more record makes of the list: it joins the last one, or it    *)
(* comes behind it.                                                        *)
Rest(r)   == r.start <= r.ts /\ r.ts - r.start < Heartbeat
Brief(rs) == \A i \in DOMAIN rs : Rest(rs[i])

Joins(out, rs, r) ==
    LET n == Len(rs)
    IN /\ n >= 1 /\ Continues(rs[n], r) /\ Len(out) = n
       /\ \A i \in 1..(n - 1) : out[i] = rs[i]
       /\ out[n].ts = r.ts /\ out[n].place = rs[n].place /\ out[n].start = RunStartOf(rs[n])

Follows(out, rs, r) ==
    LET n == Len(rs)
    IN Len(out) = n + 1 /\ out[n + 1] = r /\ \A i \in 1..n : out[i] = rs[i]

LEMMA AddedParts ==
    ASSUME NEW rs \in Seq(Records), NEW r \in Records
    PROVE  /\ Added(rs, r) \in Seq(Records)
           /\ Joins(Added(rs, r), rs, r) \/ Follows(Added(rs, r), rs, r)
<1> DEFINE n == Len(rs)
<1>1. DOMAIN rs = 1..n /\ n \in Nat /\ \A j \in DOMAIN rs : rs[j] \in Records
  BY SeqFacts
<1>2. CASE rs # <<>> /\ Continues(Last(rs), r)
  <2> DEFINE m == [ts |-> r.ts, place |-> Last(rs).place, start |-> RunStartOf(Last(rs))]
             front == Front(rs)
  <2>1. n >= 1
    BY <1>1, <1>2, EmptySeq
  <2>2. Last(rs) = rs[n] /\ Last(rs) \in Records
    BY <1>1, <2>1 DEF Last
  <2>3. m \in Records
    BY <2>2 DEF RunStartOf, Records
  <2>4. front \in Seq(Records) /\ Len(front) = n - 1 /\ \A i \in 1..(n - 1) : front[i] = rs[i]
    BY <1>1, <2>1, SubSeqProperties DEF Front
  <2>5. Added(rs, r) = Append(front, m)
    BY <1>2 DEF Added
  <2>6. m.ts = r.ts /\ m.place = rs[n].place /\ m.start = RunStartOf(rs[n])
    BY <2>2
  <2> HIDE DEF m, front
  <2>7. /\ Append(front, m) \in Seq(Records) /\ Len(Append(front, m)) = Len(front) + 1
        /\ \A i \in 1..Len(front) : Append(front, m)[i] = front[i]
        /\ Append(front, m)[Len(front) + 1] = m
    BY <2>3, <2>4, AppendProperties
  <2>8. Len(front) + 1 = n
    BY <1>1, <2>4
  <2>9. Joins(Added(rs, r), rs, r)
    BY <1>2, <2>1, <2>2, <2>4, <2>5, <2>6, <2>7, <2>8 DEF Joins
  <2>10. QED
    BY <2>5, <2>7, <2>9
<1>3. CASE ~(rs # <<>> /\ Continues(Last(rs), r))
  <2>1. Added(rs, r) = Append(rs, r)
    BY <1>3 DEF Added
  <2>2. QED
    BY <2>1, AppendProperties DEF Follows
<1>4. QED
  BY <1>2, <1>3

(* The list grows by one at most; it stays in order unless the record is   *)
(* put behind a later one; and no record stands for more than it may.      *)
LEMMA AddedProperties ==
    ASSUME NEW rs \in Seq(Records), NEW r \in Records, OrderedSeq(rs)
    PROVE  /\ Added(rs, r) \in Seq(Records)
           /\ Len(Added(rs, r)) \in {Len(rs), Len(rs) + 1} /\ Len(Added(rs, r)) >= 1
           /\ Len(Added(rs, r)) = Len(rs) \/ rs = <<>> \/ r.ts >= Last(rs).ts
                 => OrderedSeq(Added(rs, r)) /\ Last(Added(rs, r)).ts = r.ts
           /\ Brief(rs) /\ Rest(r) => Brief(Added(rs, r))
<1> DEFINE n == Len(rs)
           out == Added(rs, r)
<1>1. DOMAIN rs = 1..n /\ n \in Nat /\ \A j \in DOMAIN rs : rs[j] \in Records /\ rs[j].ts \in Nat
  BY SeqFacts, StoreFacts
<1>2. r.ts \in Nat /\ r.start \in Nat /\ r.start # 0
  BY StoreFacts
<1>3. out \in Seq(Records) /\ (Joins(out, rs, r) \/ Follows(out, rs, r))
  BY AddedParts
<1>4. DOMAIN out = 1..Len(out) /\ Len(out) \in Nat
  BY <1>3, LenProperties
<1> HIDE DEF out
<1>5. CASE Joins(out, rs, r)
  <2>1. n >= 1 /\ Len(out) = n /\ \A i \in 1..(n - 1) : out[i] = rs[i]
    BY <1>5 DEF Joins
  <2>2. out[n].ts = r.ts /\ r.ts > rs[n].ts /\ n \in DOMAIN rs
    BY <1>1, <1>5, <2>1 DEF Joins, Continues
  <2>3. OrderedSeq(out)
    <3>1. SUFFICES ASSUME NEW i \in 1..n, NEW j \in 1..n, i < j PROVE out[i].ts <= out[j].ts
      BY <1>4, <2>1 DEF OrderedSeq
    <3>2. rs[i].ts <= rs[j].ts /\ rs[i].ts <= rs[n].ts
      BY <1>1, <2>1, <3>1 DEF OrderedSeq
    <3>3. out[i] = rs[i] /\ rs[i].ts \in Nat /\ rs[n].ts \in Nat
      BY <1>1, <2>1, <3>1
    <3>4. CASE j = n
      BY <1>2, <2>2, <3>2, <3>3, <3>4
    <3>5. CASE j # n
      <4>1. out[j] = rs[j]
        BY <1>1, <2>1, <3>5
      <4>2. QED
        BY <3>2, <3>3, <4>1
    <3>6. QED
      BY <3>4, <3>5
  <2>4. Last(out).ts = r.ts
    BY <2>1, <2>2 DEF Last
  <2>5. ASSUME Brief(rs), Rest(r) PROVE Brief(out)
    <3>1. Rest(rs[n]) /\ rs[n].start \in Nat /\ rs[n].start # 0
      BY <1>1, <2>2, <2>5, StoreFacts DEF Brief
    <3>2. RunStartOf(rs[n]) = rs[n].start
      BY <1>1, <2>2, <3>1 DEF RunStartOf, Rest
    <3>3. out[n].start = rs[n].start /\ r.ts - rs[n].start < Heartbeat
      BY <1>5, <3>2 DEF Joins, Continues
    <3>4. rs[n].start <= rs[n].ts /\ rs[n].ts \in Nat
      BY <1>1, <2>2, <3>1 DEF Rest
    <3>5. out[n].start <= out[n].ts
      BY <1>2, <2>2, <3>1, <3>3, <3>4
    <3>6. Rest(out[n])
      BY <2>2, <3>3, <3>5 DEF Rest
    <3>7. \A i \in 1..n : i = n \/ i \in 1..(n - 1)
      <4> HIDE DEF n
      <4>1. n \in Nat
        BY <1>1
      <4>2. QED
        BY <4>1
    <3>8. \A i \in 1..(n - 1) : Rest(out[i])
      BY <1>1, <2>1, <2>5 DEF Brief
    <3>9. QED
      BY <1>4, <2>1, <3>6, <3>7, <3>8 DEF Brief
  <2>6. QED
    BY <1>1, <1>3, <2>1, <2>3, <2>4, <2>5 DEF out
<1>6. CASE Follows(out, rs, r)
  <2>1. Len(out) = n + 1 /\ out[n + 1] = r /\ \A i \in 1..n : out[i] = rs[i]
    BY <1>6 DEF Follows
  <2>2. \A i \in 1..(n + 1) : i = n + 1 \/ i \in 1..n
    BY <1>1
  <2>3. ASSUME rs = <<>> \/ r.ts >= Last(rs).ts PROVE OrderedSeq(out)
    <3>1. SUFFICES ASSUME NEW i \in 1..(n + 1), NEW j \in 1..(n + 1), i < j
                   PROVE  out[i].ts <= out[j].ts
      BY <1>4, <2>1 DEF OrderedSeq
    <3>2. i \in 1..n /\ n >= 1 /\ rs # <<>>
      BY <1>1, <3>1, EmptySeq
    <3>3. rs[n].ts <= r.ts /\ (i < n => rs[i].ts <= rs[n].ts)
      BY <1>1, <2>3, <3>2 DEF OrderedSeq, Last
    <3>4. rs[i].ts \in Nat /\ rs[n].ts \in Nat /\ i \in Int
      BY <1>1, <3>2
    <3>5. CASE j \in 1..n
      BY <1>1, <2>1, <3>1, <3>2, <3>5 DEF OrderedSeq
    <3>6. CASE j = n + 1
      BY <1>1, <1>2, <2>1, <3>2, <3>3, <3>4, <3>6
    <3>7. QED
      BY <2>2, <3>5, <3>6
  <2>4. Last(out).ts = r.ts
    BY <2>1 DEF Last
  <2>5. ASSUME Brief(rs), Rest(r) PROVE Brief(out)
    BY <1>1, <1>4, <2>1, <2>2, <2>5 DEF Brief
  <2>6. (Len(out) = n \/ rs = <<>> \/ r.ts >= Last(rs).ts) => OrderedSeq(out)
    <3>1. n \in Nat
      BY <1>1
    <3>2. Len(out) # n
      <4> HIDE DEF n
      <4>1. QED
        BY <2>1, <3>1
    <3>3. QED
      BY <2>3, <3>2
  <2>7. Len(out) \in {n, n + 1} /\ Len(out) >= 1
    BY <1>1, <2>1
  <2>8. QED
    BY <1>3, <2>4, <2>5, <2>6, <2>7 DEF out
<1>7. QED
  BY <1>3, <1>5, <1>6

(* Dropping the oldest brings one record too many back within the bound.   *)
LEMMA PrunedProperties ==
    ASSUME NEW rs \in Seq(Records), OrderedSeq(rs), Brief(rs), Len(rs) <= MaxRecords + 1
    PROVE  /\ Pruned(rs) \in Seq(Records) /\ OrderedSeq(Pruned(rs)) /\ Brief(Pruned(rs))
           /\ Len(Pruned(rs)) <= MaxRecords
           /\ Len(rs) <= MaxRecords => Pruned(rs) = rs
<1>1. DOMAIN rs = 1..Len(rs) /\ Len(rs) \in Nat /\ \A j \in DOMAIN rs : rs[j] \in Records
  BY SeqFacts
<1>2. Drop \in Nat /\ Drop >= 1 /\ MaxRecords \in Nat /\ Drop <= MaxRecords
  BY StoreFacts
<1>3. CASE Len(rs) <= MaxRecords
  BY <1>3 DEF Pruned
<1>4. CASE Len(rs) > MaxRecords
  <2> DEFINE kept == SubSeq(rs, Drop + 1, Len(rs))
  <2>1. Pruned(rs) = kept
    BY <1>1, <1>2, <1>4 DEF Pruned
  <2>2. /\ kept \in Seq(Records) /\ Len(kept) = Len(rs) - Drop
        /\ \A i \in 1..(Len(rs) - Drop) : kept[i] = rs[i + Drop]
    <3>1. \A i \in (Drop + 1)..Len(rs) : rs[i] \in Records
      BY <1>1, <1>2
    <3>2. /\ kept \in Seq(Records)
          /\ Len(kept) = IF Drop + 1 <= Len(rs) THEN Len(rs) - (Drop + 1) + 1 ELSE 0
          /\ \A i \in 1..(Len(rs) - (Drop + 1) + 1) : kept[i] = rs[Drop + 1 + i - 1]
      BY <1>1, <1>2, <3>1, SubSeqProperties
    <3> HIDE DEF kept
    <3>3. \A i \in 1..(Len(rs) - Drop) : Drop + 1 + i - 1 = i + Drop
      BY <1>1, <1>2
    <3>4. Len(rs) - (Drop + 1) + 1 = Len(rs) - Drop /\ Drop + 1 <= Len(rs)
      BY <1>1, <1>2, <1>4
    <3>5. QED
      BY <3>2, <3>3, <3>4
  <2> HIDE DEF kept
  <2>3. DOMAIN kept = 1..(Len(rs) - Drop)
    BY <2>2, LenProperties
  <2>4. \A i \in 1..(Len(rs) - Drop) : i + Drop \in DOMAIN rs /\ kept[i] = rs[i + Drop]
    BY <1>1, <1>2, <2>2
  <2>5. OrderedSeq(kept)
    <3>1. \A i, j \in 1..(Len(rs) - Drop) : i < j => i + Drop < j + Drop
      BY <1>1, <1>2
    <3>2. QED
      BY <2>3, <2>4, <3>1 DEF OrderedSeq
  <2>6. Brief(kept)
    BY <2>3, <2>4 DEF Brief
  <2>7. QED
    BY <1>1, <1>2, <1>4, <2>1, <2>2, <2>5, <2>6
<1>5. QED
  BY <1>1, <1>2, <1>3, <1>4
-----------------------------------------------------------------------------
(* The rounds of compact are what their definition says: a list of them    *)
(* exists for every length, or there would be a least length without one.  *)
LEMMA RoundsTurn ==
    ASSUME NEW rs, Len(rs) \in Nat
    PROVE  /\ Rounds(rs)[0] = <<>>
           /\ \A i \in 1..Len(rs) : Rounds(rs)[i] = Added(Rounds(rs)[i - 1], Mended(rs[i]))
<1> DEFINE n == Len(rs)
           Turn(h, i) == IF i = 0 THEN <<>> ELSE Added(h[i - 1], Mended(rs[i]))
           Upto(h, m) == \A i \in 0..m : h[i] = Turn(h, i)
           Bad == {m \in Nat : ~\E h : Upto(h, m)}
<1>1. Bad = {}
  <2>1. SUFFICES ASSUME Bad # {} PROVE FALSE
    OBVIOUS
  <2>2. PICK m \in Bad : \A k \in Bad : m <= k
    <3>1. Bad \subseteq Nat
      OBVIOUS
    <3> HIDE DEF Bad
    <3>2. QED
      BY <2>1, <3>1, LeastExists
  <2>3. m \in Nat /\ ~\E h : Upto(h, m)
    BY <2>2
  <2>4. CASE m = 0
    <3> DEFINE h == [i \in {0} |-> <<>>]
    <3>1. Upto(h, m)
      BY <2>4
    <3>2. QED
      BY <2>3, <3>1
  <2>5. CASE m # 0
    <3>1. m - 1 \in Nat /\ m - 1 < m
      BY <2>3, <2>5
    <3>2. m - 1 \notin Bad
      <4> HIDE DEF Bad
      <4>1. ASSUME m - 1 \in Bad PROVE FALSE
        <5>1. m <= m - 1
          BY <2>2, <4>1
        <5>2. QED
          BY <2>3, <5>1
      <4>2. QED
        BY <4>1
    <3>3. PICK h : Upto(h, m - 1)
      BY <3>1, <3>2
    <3> DEFINE g == [i \in 0..m |-> IF i = m THEN Turn(h, m) ELSE h[i]]
    <3>4. ASSUME NEW i \in 0..m PROVE g[i] = Turn(g, i)
      <4>1. i = 0 \/ (i - 1 \in 0..m /\ i - 1 # m)
        BY <2>3
      <4>2. i # 0 => g[i - 1] = h[i - 1]
        BY <4>1
      <4>3. Turn(g, i) = Turn(h, i)
        BY <4>2
      <4>4. CASE i = m
        BY <4>3, <4>4
      <4>5. CASE i # m
        <5>1. i \in 0..(m - 1)
          BY <2>3, <4>5
        <5>2. g[i] = h[i] /\ h[i] = Turn(h, i)
          BY <3>3, <4>5, <5>1
        <5>3. QED
          BY <4>3, <5>2
      <4>6. QED
        BY <4>4, <4>5
    <3> HIDE DEF g
    <3>5. Upto(g, m)
      BY <3>4
    <3>6. QED
      BY <2>3, <3>5
  <2>6. QED
    BY <2>4, <2>5
<1>2. PICK h : Upto(h, n)
  <2>1. n \in Nat /\ n \notin Bad
    BY <1>1
  <2>2. QED
    BY <2>1
<1> DEFINE g == [i \in 0..n |-> h[i]]
<1>3. ASSUME NEW i \in 0..n PROVE g[i] = Turn(g, i)
  <2>1. i # 0 => i - 1 \in 0..n
    OBVIOUS
  <2>2. i # 0 => g[i - 1] = h[i - 1]
    BY <2>1
  <2>3. QED
    BY <1>2, <2>2
<1>4. g = [i \in 0..n |-> Turn(g, i)]
  BY <1>3
<1> HIDE DEF g
<1>5. Rounds(rs) = [i \in 0..n |-> Turn(Rounds(rs), i)]
  BY <1>4 DEF Rounds
<1>6. \A i \in 0..n : Rounds(rs)[i] = Turn(Rounds(rs), i)
  BY <1>5
<1>7. 0 \in 0..n /\ \A i \in 1..n : i \in 0..n /\ i # 0
  OBVIOUS
<1>8. QED
  BY <1>6, <1>7

LEMMA MendedProperties ==
    ASSUME NEW r \in Stored
    PROVE  /\ Mended(r) \in Records
           /\ Mended(r).ts = r.ts /\ Mended(r).place = r.place
           /\ Mended(r).start = RunStartOf(r) /\ RunStartOf(r) <= r.ts
<1>1. /\ r.ts \in Times /\ r.place \in Places /\ r.start \in Times \cup {0}
      /\ r = [ts |-> r.ts, place |-> r.place, start |-> r.start]
  BY DEF Stored, Records, Unmended
<1>2. RunStartOf(r) \in Times /\ RunStartOf(r) <= r.ts
  <2>1. r.ts \in Nat /\ r.start \in Nat
    BY <1>1, StoreFacts
  <2>2. QED
    BY <1>1, <2>1 DEF RunStartOf
<1>3. Mended(r) = [ts |-> r.ts, place |-> r.place, start |-> RunStartOf(r)]
  BY <1>1 DEF Mended
<1>4. QED
  BY <1>1, <1>2, <1>3 DEF Records

(* What the i-th round of the compaction leaves of a list in order: it     *)
(* ends where the list got to, and near each place where one rested there  *)
(* is a record that ends no earlier and began at most a heartbeat later.   *)
Held(out, t, p) ==
    \E q \in DOMAIN out :
        t <= out[q].ts /\ out[q].start - t < Heartbeat /\ Near(out[q].place, p)

RoundDone(out, rs, i) ==
    /\ out \in Seq(Records) /\ OrderedSeq(out) /\ Brief(out) /\ Len(out) <= i
    /\ i = 0 \/ (out # <<>> /\ Last(out).ts = rs[i].ts)
    /\ \A j \in 1..i : \A t \in RunStartOf(rs[j])..rs[j].ts : Held(out, t, rs[j].place)

LEMMA AddedHolds ==
    ASSUME NEW rs \in Seq(Records), NEW r \in Records, Brief(rs), Rest(r)
    PROVE  /\ rs = <<>> \/ r.ts >= Last(rs).ts
                 => \A t \in Int, p \in Places : Held(rs, t, p) => Held(Added(rs, r), t, p)
           /\ OrderedSeq(rs) => \A t \in r.start..r.ts : Held(Added(rs, r), t, r.place)
<1> DEFINE n == Len(rs)
           out == Added(rs, r)
<1>1. n \in Nat /\ DOMAIN rs = 1..n /\ \A j \in DOMAIN rs : rs[j] \in Records /\ rs[j].ts \in Nat
  BY SeqFacts, StoreFacts
<1>2. r.ts \in Nat /\ r.start \in Nat /\ r.start <= r.ts /\ r.ts - r.start < Heartbeat
  BY StoreFacts DEF Rest
<1>3. out \in Seq(Records) /\ (Joins(out, rs, r) \/ Follows(out, rs, r))
  BY AddedParts
<1>4. DOMAIN out = 1..Len(out) /\ Len(out) \in Nat
  BY <1>3, LenProperties
<1>5. Heartbeat \in Nat /\ Heartbeat > 0 /\ SameSpot \in Nat /\ SameSpot > 0
  BY StoreFacts
<1> HIDE DEF out
<1>6. CASE Joins(out, rs, r)
  <2>1. n >= 1 /\ Len(out) = n /\ n \in DOMAIN out /\ n \in DOMAIN rs
        /\ \A i \in 1..(n - 1) : out[i] = rs[i]
    BY <1>1, <1>4, <1>6 DEF Joins
  <2>2. Rest(rs[n]) /\ rs[n] \in Records /\ rs[n].start \in Nat /\ rs[n].start # 0 /\ rs[n].ts \in Nat
    BY <1>1, <2>1, StoreFacts DEF Brief
  <2>3. RunStartOf(rs[n]) = rs[n].start
    BY <2>2 DEF RunStartOf, Rest
  <2>4. /\ out[n].ts = r.ts /\ out[n].place = rs[n].place /\ out[n].start = rs[n].start
        /\ r.ts > rs[n].ts /\ Near(rs[n].place, r.place) /\ rs[n].start <= rs[n].ts
    BY <1>6, <2>2, <2>3 DEF Joins, Continues, Rest
  <2>5. ASSUME NEW t \in Int, NEW p \in Places, Held(rs, t, p) PROVE Held(out, t, p)
    <3>1. PICK q \in 1..n : t <= rs[q].ts /\ rs[q].start - t < Heartbeat /\ Near(rs[q].place, p)
      BY <1>1, <2>5 DEF Held
    <3>2. CASE q = n
      <4>1. t <= out[n].ts /\ out[n].start - t < Heartbeat /\ Near(out[n].place, p)
        BY <1>2, <2>2, <2>4, <3>1, <3>2
      <4>2. QED
        BY <2>1, <4>1 DEF Held
    <3>3. CASE q # n
      <4>1. q \in 1..(n - 1) /\ q \in DOMAIN out
        <5>1. n \in Nat /\ DOMAIN out = 1..n
          BY <1>1, <1>4, <2>1
        <5> HIDE DEF n
        <5>2. QED
          BY <3>3, <5>1
      <4>2. QED
        BY <2>1, <3>1, <4>1 DEF Held
    <3>4. QED
      BY <3>2, <3>3
  <2>6. ASSUME NEW t \in r.start..r.ts PROVE Held(out, t, r.place)
    <3>1. t \in Int /\ t <= r.ts /\ r.start <= t
      BY <1>2
    <3>2. rs[n].start - t < Heartbeat
      BY <1>2, <1>5, <2>2, <2>4, <3>1
    <3>3. QED
      BY <2>1, <2>4, <3>1, <3>2 DEF Held
  <2>7. QED
    BY <2>5, <2>6 DEF out
<1>7. CASE Follows(out, rs, r)
  <2>1. Len(out) = n + 1 /\ out[n + 1] = r /\ \A i \in 1..n : out[i] = rs[i]
    BY <1>7 DEF Follows
  <2>2. 1..n \subseteq DOMAIN out /\ n + 1 \in DOMAIN out
    BY <1>1, <1>4, <2>1
  <2>3. ASSUME NEW t \in Int, NEW p \in Places, Held(rs, t, p) PROVE Held(out, t, p)
    BY <1>1, <2>1, <2>2, <2>3 DEF Held
  <2>4. ASSUME NEW t \in r.start..r.ts PROVE Held(out, t, r.place)
    <3>1. t \in Int /\ t <= r.ts /\ r.start - t < Heartbeat
      BY <1>2, <1>5
    <3>2. Near(r.place, r.place)
      <4>1. r.place \in Nat
        BY StoreFacts
      <4>2. QED
        BY <1>5, <4>1 DEF Near, Abs
    <3>3. QED
      BY <2>1, <2>2, <3>1, <3>2 DEF Held
  <2>5. QED
    BY <2>3, <2>4 DEF out
<1>8. QED
  BY <1>3, <1>6, <1>7

LEMMA RoundsProperties ==
    ASSUME NEW rs \in Seq(Stored), OrderedSeq(rs),
           \A i \in DOMAIN rs : rs[i].ts - RunStartOf(rs[i]) < Heartbeat
    PROVE  \A i \in 0..Len(rs) : RoundDone(Rounds(rs)[i], rs, i)
<1> DEFINE n == Len(rs)
           Out(i) == Rounds(rs)[i]
           Bad == {i \in 0..n : ~RoundDone(Out(i), rs, i)}
<1>1. n \in Nat /\ DOMAIN rs = 1..n /\ \A j \in DOMAIN rs : rs[j] \in Stored
  BY SeqFacts
<1>2. Out(0) = <<>> /\ \A i \in 1..n : Out(i) = Added(Out(i - 1), Mended(rs[i]))
  BY <1>1, RoundsTurn
<1> HIDE DEF Out
<1>3. RoundDone(Out(0), rs, 0)
  <2>1. <<>> \in Seq(Records) /\ Len(<<>>) = 0 /\ DOMAIN <<>> = {}
    BY EmptySeq
  <2>2. \A j \in 1..0 : FALSE
    OBVIOUS
  <2>3. OrderedSeq(<<>>) /\ Brief(<<>>)
    BY <2>1 DEF OrderedSeq, Brief
  <2>4. \A j \in 1..0 : \A t \in RunStartOf(rs[j])..rs[j].ts : Held(<<>>, t, rs[j].place)
    BY <2>2
  <2>5. <<>> \in Seq(Records) /\ Len(<<>>) <= 0
    BY <2>1
  <2>6. RoundDone(<<>>, rs, 0)
    BY <2>3, <2>4, <2>5, Zenon DEF RoundDone
  <2>7. QED
    BY <1>2, <2>6, Zenon
<1>4. ASSUME NEW i \in 1..n, RoundDone(Out(i - 1), rs, i - 1) PROVE RoundDone(Out(i), rs, i)
  <2> DEFINE old == Out(i - 1)
             r == Mended(rs[i])
  <2>1. rs[i] \in Stored /\ rs[i].ts - RunStartOf(rs[i]) < Heartbeat
    BY <1>1
  <2>2. /\ r \in Records /\ r.ts = rs[i].ts /\ r.place = rs[i].place /\ r.start = RunStartOf(rs[i])
        /\ Rest(r)
    BY <2>1, MendedProperties DEF Rest
  <2>3. /\ old \in Seq(Records) /\ OrderedSeq(old) /\ Brief(old) /\ Len(old) <= i - 1
        /\ i - 1 = 0 \/ (old # <<>> /\ Last(old).ts = rs[i - 1].ts)
        /\ \A j \in 1..(i - 1) : \A t \in RunStartOf(rs[j])..rs[j].ts : Held(old, t, rs[j].place)
    BY <1>4 DEF RoundDone
  <2>4. Out(i) = Added(old, r)
    BY <1>2
  <2>5. old = <<>> \/ r.ts >= Last(old).ts
    <3>1. CASE i = 1
      <4>1. Len(old) = 0
        BY <2>3, <3>1, LenProperties
      <4>2. QED
        BY <2>3, <4>1, EmptySeq
    <3>2. CASE i # 1
      <4>1. i - 1 \in DOMAIN rs /\ i \in DOMAIN rs /\ i - 1 < i
        BY <1>1, <3>2
      <4>2. rs[i - 1].ts <= rs[i].ts /\ rs[i - 1].ts \in Nat /\ rs[i].ts \in Nat
        BY <1>1, <4>1, StoreFacts DEF OrderedSeq
      <4>3. i - 1 # 0
        BY <4>1, <3>2
      <4>4. QED
        BY <2>2, <2>3, <4>2, <4>3
    <3>3. QED
      BY <3>1, <3>2
  <2> HIDE DEF old, r
  <2>6. /\ Out(i) \in Seq(Records) /\ OrderedSeq(Out(i)) /\ Brief(Out(i))
        /\ Len(Out(i)) \in {Len(old), Len(old) + 1} /\ Len(Out(i)) >= 1
        /\ Last(Out(i)).ts = rs[i].ts
    BY <2>2, <2>3, <2>4, <2>5, AddedProperties
  <2>7. Len(Out(i)) <= i /\ Out(i) # <<>>
    <3>1. Len(old) \in Nat
      BY <2>3, LenProperties
    <3>2. Len(Out(i)) <= i
      BY <2>3, <2>6, <3>1
    <3>3. QED
      BY <2>6, <3>2, EmptySeq
  <2>8. ASSUME NEW j \in 1..i, NEW t \in RunStartOf(rs[j])..rs[j].ts
        PROVE  Held(Out(i), t, rs[j].place)
    <3>1. rs[j] \in Stored /\ rs[j].place \in Places /\ t \in Int
      BY <1>1, StoreFacts
    <3>2. CASE j = i
      <4>1. t \in r.start..r.ts
        BY <2>2, <2>8, <3>2
      <4>2. QED
        BY <2>2, <2>3, <2>4, <3>2, <4>1, AddedHolds
    <3>3. CASE j # i
      <4>1. j \in 1..(i - 1)
        BY <3>3
      <4>2. Held(old, t, rs[j].place)
        BY <2>3, <2>8, <4>1
      <4>3. QED
        BY <2>2, <2>3, <2>4, <2>5, <3>1, <4>2, AddedHolds
    <3>4. QED
      BY <3>2, <3>3
  <2>9. QED
    BY <2>6, <2>7, <2>8 DEF RoundDone
<1>5. Bad = {}
  <2>1. SUFFICES ASSUME Bad # {} PROVE FALSE
    OBVIOUS
  <2>2. PICK i \in Bad : \A k \in Bad : i <= k
    <3>1. Bad \subseteq Nat
      BY <1>1
    <3> HIDE DEF Bad
    <3>2. QED
      BY <2>1, <3>1, LeastExists
  <2>3. i \in 0..n /\ ~RoundDone(Out(i), rs, i) /\ i # 0
    BY <1>3, <2>2
  <2>4. i \in 1..n /\ i - 1 \in 0..n /\ ~(i <= i - 1)
    BY <2>3
  <2>5. RoundDone(Out(i - 1), rs, i - 1)
    BY <2>2, <2>4
  <2>6. QED
    BY <1>4, <2>3, <2>4, <2>5
<1>6. QED
  BY <1>5 DEF Out
-----------------------------------------------------------------------------
(* What the store keeps, and what the file may hold.                       *)
InStore(rs) == rs \in Seq(Records) /\ OrderedSeq(rs) /\ Brief(rs) /\ Len(rs) <= MaxRecords
InFile(rs)  == InStore(rs) \/ rs \in Legacy

LEMMA StartProperties ==
    ASSUME NEW rs, InFile(rs)
    PROVE  /\ rs \in Seq(Stored) /\ \A r \in Stored : r.ts \in Int
           /\ \A r \in Stored : r \in Unmended \/ (r \in Records /\ Rest(r))
                 => r.ts - RunStartOf(r) < Heartbeat
           /\ \A i \in DOMAIN rs : rs[i] \in Unmended \/ (rs[i] \in Records /\ Rest(rs[i]))
           /\ \A r \in Records : Rest(r) => RunStartOf(r) = r.start
<1>1. \A r \in Stored : r.ts \in Nat
  BY StoreFacts
<1>2. Seq(Records) \subseteq Seq(Stored) /\ Seq(Unmended) \subseteq Seq(Stored)
  <2>1. Records \subseteq Stored /\ Unmended \subseteq Stored
    BY DEF Stored
  <2>2. QED
    BY <2>1, SeqDef
<1>3. \A r \in Records : Rest(r) => RunStartOf(r) = r.start
  <2>1. SUFFICES ASSUME NEW r \in Records, Rest(r) PROVE RunStartOf(r) = r.start
    OBVIOUS
  <2>2. r.start \in Nat /\ r.start # 0 /\ r.ts \in Nat /\ r.start <= r.ts
    BY <2>1, StoreFacts DEF Rest
  <2>3. QED
    BY <2>2 DEF RunStartOf
<1>4. ASSUME NEW r \in Stored, r \in Unmended \/ (r \in Records /\ Rest(r))
      PROVE  r.ts - RunStartOf(r) < Heartbeat
  <2>1. CASE r \in Unmended
    <3>1. r.start = 0
      BY <2>1 DEF Unmended
    <3>2. RunStartOf(r) = r.ts
      BY <3>1 DEF RunStartOf
    <3>3. r.ts \in Nat /\ Heartbeat \in Nat /\ Heartbeat > 0
      BY <1>1, StoreFacts
    <3>4. QED
      BY <3>2, <3>3
  <2>2. CASE r \in Records /\ Rest(r)
    BY <1>3, <2>2 DEF Rest
  <2>3. QED
    BY <1>4, <2>1, <2>2
<1>5. rs \in Seq(Stored) /\ \A i \in DOMAIN rs : rs[i] \in Unmended \/ (rs[i] \in Records /\ Rest(rs[i]))
  <2>1. CASE InStore(rs)
    <3>1. rs \in Seq(Records) /\ Brief(rs)
      BY <2>1 DEF InStore
    <3>2. \A i \in DOMAIN rs : rs[i] \in Records
      BY <3>1, SeqFacts
    <3>3. QED
      BY <1>2, <3>1, <3>2 DEF Brief
  <2>2. CASE rs \in Legacy
    <3>1. rs \in Seq(Unmended)
      BY <2>2, LegacyAssumption
    <3>2. \A i \in DOMAIN rs : rs[i] \in Unmended
      BY <3>1, SeqFacts
    <3>3. QED
      BY <1>2, <3>1, <3>2
  <2>3. QED
    BY <2>1, <2>2 DEF InFile
<1>6. QED
  BY <1>1, <1>3, <1>4, <1>5

(* Whatever the file holds, a launch brings it in order; it leaves it      *)
(* alone where nothing is to be mended; and it loses no place of a rest.   *)
LEMMA LoadedProperties ==
    ASSUME NEW rs, InFile(rs)
    PROVE  /\ InStore(Loaded(rs).records)
           /\ Loaded(rs).changed \in BOOLEAN
           /\ ~Loaded(rs).changed => Loaded(rs).records = rs
           /\ InStore(rs) => \A i \in DOMAIN rs : \A t \in rs[i].start..rs[i].ts :
                                Held(Loaded(rs).records, t, rs[i].place)
<1> DEFINE sorted == Sorted(rs)
           compacted == Compact(sorted)
           changed == Len(compacted) # Len(sorted) \/ \E r \in ToSet(sorted) : r.start = 0
           records_ == IF changed THEN compacted ELSE sorted
           Fine(r) == r \in Unmended \/ (r \in Records /\ Rest(r))
<1>1. Loaded(rs).records = records_ /\ Loaded(rs).changed = changed
  BY DEF Loaded
<1>2. /\ rs \in Seq(Stored) /\ \A r \in Stored : r.ts \in Int
      /\ \A r \in Stored : Fine(r) => r.ts - RunStartOf(r) < Heartbeat
      /\ \A i \in DOMAIN rs : Fine(rs[i])
  BY StartProperties
<1>3. /\ sorted \in Seq(Stored) /\ Len(sorted) = Len(rs) /\ DOMAIN sorted = DOMAIN rs
      /\ OrderedSeq(sorted)
      /\ \A k \in DOMAIN rs : \E i \in DOMAIN rs : sorted[k] = rs[i]
  BY <1>2, SortedProperties
<1>4. /\ Len(rs) \in Nat /\ DOMAIN rs = 1..Len(rs)
      /\ \A i \in DOMAIN sorted : sorted[i] \in Stored /\ Fine(sorted[i])
  BY <1>2, <1>3, SeqFacts
<1>5. InStore(rs) => sorted = rs
  <2>1. InStore(rs) => rs \in Seq(Records) /\ OrderedSeq(rs)
    BY DEF InStore
  <2>2. QED
    BY <1>2, <2>1, SortedSame
<1> HIDE DEF sorted, Fine
<1>6. \A i \in DOMAIN sorted : sorted[i].ts - RunStartOf(sorted[i]) < Heartbeat
  BY <1>2, <1>4
<1>7. RoundDone(compacted, sorted, Len(sorted))
  <2>1. Len(sorted) \in 0..Len(sorted)
    BY <1>3, <1>4
  <2>2. \A i \in 0..Len(sorted) : RoundDone(Rounds(sorted)[i], sorted, i)
    BY <1>3, <1>6, RoundsProperties
  <2>3. QED
    BY <2>1, <2>2 DEF Compact
<1>8. compacted \in Seq(Records) /\ OrderedSeq(compacted) /\ Brief(compacted) /\ Len(compacted) <= Len(rs)
  BY <1>3, <1>7 DEF RoundDone
<1> HIDE DEF compacted
<1>9. CASE InStore(rs)
  <2>1. sorted = rs /\ Len(compacted) \in Nat /\ MaxRecords \in Nat /\ Len(rs) <= MaxRecords
    BY <1>5, <1>8, <1>9, LenProperties, StoreFacts DEF InStore
  <2>2. Len(compacted) <= MaxRecords
    BY <1>4, <1>8, <2>1
  <2>3. InStore(compacted)
    BY <1>8, <2>2 DEF InStore
  <2>4. InStore(records_) /\ (~changed => records_ = rs)
    BY <1>9, <2>1, <2>3
  <2>5. ASSUME NEW i \in DOMAIN rs, NEW t \in rs[i].start..rs[i].ts
        PROVE  Held(records_, t, rs[i].place)
    <3>1. rs[i] \in Records /\ Rest(rs[i]) /\ RunStartOf(rs[i]) = rs[i].start
      <4>1. rs \in Seq(Records) /\ Brief(rs)
        BY <1>9 DEF InStore
      <4>2. rs[i] \in Records /\ Rest(rs[i])
        BY <4>1, SeqFacts DEF Brief
      <4>3. QED
        BY <4>2, StartProperties
    <3>2. CASE changed
      <4>1. Held(compacted, t, rs[i].place)
        BY <1>3, <1>4, <1>7, <2>1, <2>5, <3>1 DEF RoundDone
      <4>2. QED
        BY <3>2, <4>1
    <3>3. CASE ~changed
      <4>1. records_ = rs
        BY <2>4, <3>3
      <4>2. rs[i].ts \in Nat /\ rs[i].start \in Nat /\ rs[i].place \in Nat
        BY <3>1, StoreFacts
      <4>3. Heartbeat \in Nat /\ Heartbeat > 0 /\ SameSpot \in Nat /\ SameSpot > 0
        BY StoreFacts
      <4>4. t <= rs[i].ts /\ rs[i].start - t < Heartbeat
        BY <2>5, <4>2, <4>3
      <4>5. Near(rs[i].place, rs[i].place)
        BY <4>2, <4>3 DEF Near, Abs
      <4>6. Held(rs, t, rs[i].place)
        BY <4>4, <4>5 DEF Held
      <4>7. QED
        BY <4>1, <4>6
    <3>4. QED
      BY <3>2, <3>3
  <2> HIDE DEF records_, changed
  <2>6. QED
    BY <1>1, <2>4, <2>5 DEF changed
<1>10. CASE ~InStore(rs)
  <2>1. rs \in Legacy
    BY <1>10 DEF InFile
  <2>2. rs \in Seq(Unmended) /\ Len(records_) <= MaxRecords
    BY <1>1, <2>1, LegacyAssumption
  <2>3. CASE changed
    <3>1. records_ = compacted
      BY <2>3
    <3>2. InStore(compacted)
      BY <1>8, <2>2, <3>1 DEF InStore
    <3>3. QED
      BY <1>1, <1>10, <2>3, <3>1, <3>2
  <2>4. CASE ~changed
    <3>1. \A i \in DOMAIN rs : rs[i] \in Unmended
      BY <2>2, SeqFacts
    <3>2. \A i \in DOMAIN sorted : sorted[i].start = 0
      BY <1>3, <3>1 DEF Unmended
    <3>3. DOMAIN rs = {}
      <4>1. SUFFICES ASSUME NEW i \in DOMAIN rs PROVE FALSE
        OBVIOUS
      <4>2. sorted[i] \in ToSet(sorted) /\ sorted[i].start = 0
        BY <1>3, <3>2 DEF ToSet
      <4>3. QED
        BY <2>4, <4>2
    <3>4. Len(rs) = 0
      BY <1>4, <3>3
    <3>5. rs = <<>>
      BY <2>2, <3>4, EmptySeq
    <3>6. InStore(rs)
      <4>1. <<>> \in Seq(Records) /\ Len(<<>>) = 0 /\ DOMAIN <<>> = {}
        BY EmptySeq
      <4>2. MaxRecords \in Nat
        BY StoreFacts
      <4>3. Len(<<>>) <= MaxRecords
        BY <4>1, <4>2
      <4>4. OrderedSeq(<<>>) /\ Brief(<<>>)
        BY <4>1 DEF OrderedSeq, Brief
      <4>5. QED
        BY <3>5, <4>1, <4>3, <4>4, Zenon DEF InStore
    <3>7. QED
      BY <1>10, <3>6
  <2>5. QED
    BY <2>3, <2>4
<1>11. QED
  BY <1>9, <1>10
-----------------------------------------------------------------------------
(* Leaving out records keeps what makes a store.                           *)
LEMMA PickedInStore ==
    ASSUME NEW rs, InStore(rs), NEW I, I \subseteq DOMAIN rs
    PROVE  /\ InStore(Picked(rs, I)) /\ Len(Picked(rs, I)) = Cardinality(I)
           /\ \A k \in DOMAIN Picked(rs, I) : \E i \in I : Picked(rs, I)[k] = rs[i]
           /\ IsFiniteSet(I) /\ Cardinality(I) \in Nat
           /\ I # DOMAIN rs => Len(Picked(rs, I)) < Len(rs)
<1> DEFINE n == Len(rs)
           out == Picked(rs, I)
           list == Ranked(I)
<1>1. rs \in Seq(Records) /\ OrderedSeq(rs) /\ Brief(rs) /\ n <= MaxRecords
  BY DEF InStore
<1>2. n \in Nat /\ DOMAIN rs = 1..n /\ I \subseteq 1..n /\ \A i \in I : rs[i] \in Records
  BY <1>1, SeqFacts
<1>3. /\ out \in Seq(Records) /\ Len(out) = Cardinality(I)
      /\ \A k \in DOMAIN out : list[k] \in I /\ out[k] = rs[list[k]]
      /\ \A k, l \in DOMAIN out : k < l => list[k] < list[l]
  BY <1>2, PickedProperties
<1> HIDE DEF out, list
<1>4. OrderedSeq(out)
  <2>1. SUFFICES ASSUME NEW k \in DOMAIN out, NEW l \in DOMAIN out, k < l PROVE out[k].ts <= out[l].ts
    BY DEF OrderedSeq
  <2>2. list[k] \in DOMAIN rs /\ list[l] \in DOMAIN rs /\ list[k] < list[l]
    BY <1>3, <2>1
  <2>3. QED
    BY <1>1, <1>3, <2>2 DEF OrderedSeq
<1>5. Brief(out)
  BY <1>1, <1>2, <1>3 DEF Brief
<1>6. /\ IsFiniteSet(1..n) /\ Cardinality(1..n) = n
      /\ IsFiniteSet(I) /\ Cardinality(I) \in Nat /\ Cardinality(I) <= n
      /\ I # 1..n => Cardinality(I) < n
  <2>1. IsFiniteSet(1..n) /\ Cardinality(1..n) = IF 1 > n THEN 0 ELSE n - 1 + 1
    BY <1>2, FS_Interval
  <2>2. Cardinality(1..n) = n
    BY <1>2, <2>1
  <2>3. /\ IsFiniteSet(I) /\ Cardinality(I) <= Cardinality(1..n)
        /\ I # 1..n => Cardinality(I) < Cardinality(1..n)
    <3>1. /\ IsFiniteSet(I) /\ Cardinality(I) <= Cardinality(1..n)
          /\ Cardinality(1..n) = Cardinality(I) => 1..n = I
      BY <1>2, <2>1, FS_Subset
    <3>2. Cardinality(I) \in Nat
      BY <3>1, FS_CardinalityType
    <3>3. QED
      BY <1>2, <2>2, <3>1, <3>2
  <2>4. QED
    BY <2>1, <2>2, <2>3, FS_CardinalityType
<1>7. Len(out) <= MaxRecords
  <2>1. MaxRecords \in Nat
    BY StoreFacts
  <2>2. QED
    BY <1>1, <1>2, <1>3, <1>6, <2>1
<1>8. \A k \in DOMAIN out : \E i \in I : out[k] = rs[i]
  BY <1>3
<1>9. QED
  BY <1>2, <1>3, <1>4, <1>5, <1>6, <1>7, <1>8 DEF InStore, out

LEMMA WithoutProperties ==
    ASSUME NEW rs, InStore(rs), NEW d
    PROVE  /\ InStore(Without(rs, d))
           /\ OfDay(rs, d) # <<>> => Len(Without(rs, d)) < Len(rs)
<1> DEFINE I == {i \in DOMAIN rs : DayOf(rs[i].ts) # d}
           J == {i \in DOMAIN rs : DayOf(rs[i].ts) = d}
<1>1. InStore(Without(rs, d)) /\ (I # DOMAIN rs => Len(Without(rs, d)) < Len(rs))
  BY PickedInStore DEF Without
<1>2. ASSUME OfDay(rs, d) # <<>> PROVE I # DOMAIN rs
  <2>1. SUFFICES ASSUME I = DOMAIN rs PROVE FALSE
    OBVIOUS
  <2>2. J = {}
    BY <2>1
  <2>3. OfDay(rs, d) \in Seq(Records) /\ Len(OfDay(rs, d)) = Cardinality(J)
    BY PickedInStore DEF OfDay, InStore
  <2>4. Len(OfDay(rs, d)) = 0
    BY <2>2, <2>3, FS_EmptySet
  <2>5. QED
    BY <1>2, <2>3, <2>4, EmptySeq
<1>3. QED
  BY <1>1, <1>2

(* The records of the days, taken together, are all of them.               *)
LEMMA DaysAddUp ==
    ASSUME NEW rs, InStore(rs)
    PROVE  LET D == {DayOf(r.ts) : r \in ToSet(rs)}
           IN SumFunctionOnSet([d \in D |-> Len(OfDay(rs, d))], D) = Len(rs)
<1> DEFINE D == {DayOf(r.ts) : r \in ToSet(rs)}
           f == [d \in D |-> Len(OfDay(rs, d))]
           At(S) == {i \in DOMAIN rs : DayOf(rs[i].ts) \in S}
           Sum(S) == SumFunctionOnSet(f, S)
           Bad == {S \in SUBSET D : Sum(S) # Cardinality(At(S))}
<1>1. /\ rs \in Seq(Records) /\ Len(rs) \in Nat /\ DOMAIN rs = 1..Len(rs)
      /\ IsFiniteSet(DOMAIN rs) /\ Cardinality(DOMAIN rs) = Len(rs)
  <2>1. rs \in Seq(Records) /\ Len(rs) \in Nat /\ DOMAIN rs = 1..Len(rs)
    BY SeqFacts DEF InStore
  <2>2. IsFiniteSet(1..Len(rs)) /\ Cardinality(1..Len(rs)) = IF 1 > Len(rs) THEN 0 ELSE Len(rs) - 1 + 1
    BY <2>1, FS_Interval
  <2>3. QED
    BY <2>1, <2>2
<1>2. IsFiniteSet(D)
  <2>1. IsFiniteSet(ToSet(rs))
    BY <1>1, ToSetFinite
  <2> DEFINE g == [r \in ToSet(rs) |-> DayOf(r.ts)]
  <2>2. g \in Surjection(ToSet(rs), D)
    BY DEF Surjection
  <2> HIDE DEF D, g
  <2>3. QED
    BY <2>1, <2>2, FS_Surjection
<1>3. \A d : /\ Len(OfDay(rs, d)) \in Nat /\ Len(OfDay(rs, d)) = Cardinality(At({d}))
  <2>1. SUFFICES ASSUME NEW d
                 PROVE  Len(OfDay(rs, d)) \in Nat /\ Len(OfDay(rs, d)) = Cardinality(At({d}))
    OBVIOUS
  <2>2. At({d}) = {i \in DOMAIN rs : DayOf(rs[i].ts) = d}
    OBVIOUS
  <2>3. QED
    BY <2>2, PickedInStore DEF OfDay
<1>4. f \in [D -> Nat] /\ \A d \in D : f[d] = Cardinality(At({d}))
  BY <1>3
<1>5. \A S \in SUBSET D : IsFiniteSet(S)
  BY <1>2, FS_Subset
<1>6. \A S : At(S) \subseteq DOMAIN rs /\ IsFiniteSet(At(S)) /\ Cardinality(At(S)) \in Nat
  <2>1. \A S : At(S) \subseteq DOMAIN rs
    OBVIOUS
  <2> HIDE DEF At
  <2>2. QED
    BY <1>1, <2>1, FS_Subset, FS_CardinalityType
<1> HIDE DEF D, f
<1>7. ASSUME Bad # {} PROVE FALSE
  <2>1. PICK S \in Bad : \A t \in SUBSET S : t # S => t \notin Bad
    <3>1. Bad \subseteq SUBSET D
      OBVIOUS
    <3> HIDE DEF Bad
    <3>2. QED
      BY <1>2, <1>7, <3>1, SmallestFirst
  <2>2. S \in SUBSET D /\ IsFiniteSet(S) /\ Sum(S) # Cardinality(At(S))
    BY <1>5, <2>1
  <2>3. CASE S = {}
    <3>1. Sum(S) = 0
      BY <1>4, <2>2, <2>3, SumProperties
    <3>2. At(S) = {}
      BY <2>3
    <3>3. QED
      BY <2>2, <3>1, <3>2, FS_EmptySet
  <2>4. CASE S # {}
    <3>1. PICK d \in S : TRUE
      BY <2>4
    <3> DEFINE rest == S \ {d}
    <3>2. rest \in SUBSET S /\ rest # S /\ rest \in SUBSET D
      BY <2>2, <3>1
    <3>3. Sum(rest) = Cardinality(At(rest))
      BY <2>1, <3>2
    <3>4. Sum(S) = f[d] + Sum(rest)
      BY <1>4, <2>2, <3>1, SumProperties
    <3>5. f[d] = Cardinality(At({d}))
      BY <1>4, <2>2, <3>1
    <3>6. At(S) = At({d}) \cup At(rest) /\ At({d}) \cap At(rest) = {}
      BY <3>1
    <3> HIDE DEF At, rest
    <3>7. Cardinality(At(S)) = Cardinality(At({d})) + Cardinality(At(rest)) - Cardinality({})
      <4>1. Cardinality(At({d}) \cup At(rest))
                = Cardinality(At({d})) + Cardinality(At(rest)) - Cardinality(At({d}) \cap At(rest))
        BY <1>6, FS_Union
      <4>2. QED
        BY <3>6, <4>1
    <3>8. Cardinality(At({d})) \in Nat /\ Cardinality(At(rest)) \in Nat
      BY <1>6
    <3>9. QED
      BY <2>2, <3>3, <3>4, <3>5, <3>7, <3>8, FS_EmptySet
  <2>5. QED
    BY <2>3, <2>4
<1>8. Sum(D) = Cardinality(At(D))
  BY <1>7
<1>9. At(D) = DOMAIN rs
  BY DEF D, ToSet
<1>10. QED
  BY <1>1, <1>8, <1>9 DEF D, f
-----------------------------------------------------------------------------
(* What holds in every state.  That a day is grouped only as the records   *)
(* are now, and that the file holds either what a store may keep or what   *)
(* an older version left, is what makes it inductive.                      *)
StoreInv ==
    /\ InStore(records) /\ InFile(file)
    /\ daily \subseteq {Grouped(records)}
    /\ lastFix \subseteq [ts : Times, place : Places]
    /\ pending \in BOOLEAN /\ timer \in BOOLEAN /\ failed \in BOOLEAN
    /\ UnsavedIsPending

LEMMA SaveProperties ==
    ASSUME NEW rs, InStore(rs), NEW was \in BOOLEAN, InFile(file), SaveRecords(rs, was)
    PROVE  /\ InFile(file')
           /\ pending' \in BOOLEAN /\ timer' \in BOOLEAN /\ failed' \in BOOLEAN
           /\ file' = rs \/ failed'
BY DEF SaveRecords, InFile

LEMMA ScheduleProperties ==
    ASSUME NEW rs, InStore(rs), InFile(file), ScheduleSaveRecords(rs),
           pending \in BOOLEAN, failed \in BOOLEAN
    PROVE  /\ InFile(file')
           /\ pending' \in BOOLEAN /\ timer' \in BOOLEAN /\ failed' \in BOOLEAN
           /\ file' = rs \/ failed' \/ (pending' /\ timer')
<1>1. CASE Len(rs) <= DeferAbove /\ SaveRecords(rs, pending)
  BY <1>1, SaveProperties
<1>2. CASE ~(Len(rs) <= DeferAbove /\ SaveRecords(rs, pending))
  BY <1>2 DEF ScheduleSaveRecords
<1>3. QED
  BY <1>1, <1>2

LEMMA LaunchKeeps ==
    ASSUME NEW found, InFile(found), InFile(file), failed' \in BOOLEAN, Launch(found),
           ~failed' => found = file
    PROVE  StoreInv'
<1> DEFINE loaded == Loaded(found)
<1>1. /\ InStore(loaded.records) /\ loaded.changed \in BOOLEAN
      /\ ~loaded.changed => loaded.records = found
  BY LoadedProperties
<1>2. /\ records' = loaded.records /\ lastFix' = {} /\ daily' = {}
      /\ \/ loaded.changed /\ SaveRecords(loaded.records, FALSE)
         \/ ~loaded.changed /\ timer' = FALSE /\ pending' = FALSE /\ UNCHANGED file
  BY DEF Launch
<1> HIDE DEF loaded
<1>3. CASE loaded.changed /\ SaveRecords(loaded.records, FALSE)
  <2>1. /\ InFile(file') /\ pending' \in BOOLEAN /\ timer' \in BOOLEAN
        /\ file' = records' \/ failed'
    BY <1>1, <1>2, <1>3, SaveProperties
  <2>2. QED
    BY <1>1, <1>2, <2>1 DEF StoreInv, UnsavedIsPending
<1>4. CASE ~loaded.changed /\ timer' = FALSE /\ pending' = FALSE /\ UNCHANGED file
  BY <1>1, <1>2, <1>4 DEF StoreInv, UnsavedIsPending
<1>5. QED
  BY <1>2, <1>3, <1>4

LEMMA StoreInit == ASSUME Init PROVE StoreInv
<1>1. PICK found \in Legacy :
         /\ records = Loaded(found).records
         /\ \/ file = Loaded(found).records /\ failed \in {FALSE, Loaded(found).changed}
            \/ file = found /\ failed = Loaded(found).changed
  BY DEF Init
<1>2. InFile(found)
  BY DEF InFile
<1>3. /\ InStore(records) /\ Loaded(found).changed \in BOOLEAN
      /\ ~Loaded(found).changed => records = found
  BY <1>1, <1>2, LoadedProperties
<1>4. InFile(file) /\ failed \in BOOLEAN
  BY <1>1, <1>2, <1>3 DEF InFile
<1>5. records = file \/ failed
  BY <1>1, <1>3
<1>6. lastFix = {} /\ daily = {} /\ pending = FALSE /\ timer = FALSE
  BY DEF Init
<1>7. QED
  BY <1>3, <1>4, <1>5, <1>6 DEF StoreInv, UnsavedIsPending

(* A fix, whatever its time stamp.                                         *)
NewRecord(fix) == [ts |-> fix.ts, place |-> fix.place, start |-> fix.ts]

Taken(out, rs, r) ==
    LET added == Added(rs, r)
        late  == Len(added) # Len(rs) /\ rs # <<>> /\ r.ts < Last(rs).ts
    IN out = Pruned(IF late THEN Sorted(added) ELSE added)

LEMMA NewRecordProperties ==
    ASSUME NEW fix \in Fixes
    PROVE  /\ NewRecord(fix) \in Records /\ Rest(NewRecord(fix)) /\ NewRecord(fix).ts = fix.ts
           /\ fix \in [ts : Times, place : Places]
<1>1. fix.ts \in Times /\ fix.place \in Places /\ fix \in [ts : Nat \ {0}, place : Nat]
  BY StoreAssumption DEF Times, Places
<1>2. fix \in [ts : Times, place : Places]
  BY <1>1
<1>3. fix.ts \in Nat /\ Heartbeat \in Nat /\ Heartbeat > 0
  BY <1>1, StoreFacts
<1>4. QED
  BY <1>1, <1>2, <1>3 DEF NewRecord, Records, Rest

LEMMA TakenInStore ==
    ASSUME NEW rs, InStore(rs), NEW r \in Records, Rest(r), NEW out, Taken(out, rs, r)
    PROVE  InStore(out)
<1> DEFINE added == Added(rs, r)
           late == Len(added) # Len(rs) /\ rs # <<>> /\ r.ts < Last(rs).ts
           new == IF late THEN Sorted(added) ELSE added
<1>1. out = Pruned(new)
  BY DEF Taken
<1>2. rs \in Seq(Records) /\ OrderedSeq(rs) /\ Brief(rs) /\ Len(rs) <= MaxRecords
  BY DEF InStore
<1>3. /\ added \in Seq(Records) /\ Len(added) \in {Len(rs), Len(rs) + 1}
      /\ Len(added) = Len(rs) \/ rs = <<>> \/ r.ts >= Last(rs).ts => OrderedSeq(added)
      /\ Brief(added)
  BY <1>2, AddedProperties
<1>4. /\ Len(rs) \in Nat /\ MaxRecords \in Nat /\ r.ts \in Nat
      /\ rs # <<>> => Last(rs).ts \in Nat
  <2>1. Len(rs) \in Nat /\ DOMAIN rs = 1..Len(rs) /\ \A i \in DOMAIN rs : rs[i].ts \in Nat
    BY <1>2, SeqFacts, StoreFacts
  <2>2. ASSUME rs # <<>> PROVE Len(rs) \in DOMAIN rs
    BY <1>2, <2>1, <2>2, EmptySeq
  <2>3. QED
    BY <2>1, <2>2, StoreFacts DEF Last
<1> HIDE DEF added
<1>5. new \in Seq(Records) /\ OrderedSeq(new) /\ Brief(new) /\ Len(new) = Len(added)
  <2>1. CASE late
    <3>1. /\ Sorted(added) \in Seq(Records) /\ Len(Sorted(added)) = Len(added)
          /\ DOMAIN Sorted(added) = DOMAIN added /\ OrderedSeq(Sorted(added))
          /\ \A k \in DOMAIN added : \E i \in DOMAIN added : Sorted(added)[k] = added[i]
      <4>1. \A q \in Records : q.ts \in Int
        BY StoreFacts
      <4>2. QED
        BY <1>3, <4>1, SortedProperties
    <3>2. Brief(Sorted(added))
      BY <1>3, <3>1 DEF Brief
    <3>3. QED
      BY <2>1, <3>1, <3>2
  <2>2. CASE ~late
    BY <1>3, <1>4, <2>2
  <2>3. QED
    BY <2>1, <2>2
<1> HIDE DEF new
<1>6. Len(new) <= MaxRecords + 1
  BY <1>2, <1>3, <1>4, <1>5
<1>7. QED
  BY <1>1, <1>5, <1>6, PrunedProperties DEF InStore

(* A fix that is not dropped: what HandleLocation makes of it.             *)
LEMMA HandledParts ==
    ASSUME StoreInv, NEW fix \in Fixes, HandleLocation(fix)
    PROVE  \/ UNCHANGED <<records, daily, pending, timer, file, failed>> /\ lastFix' = {fix}
           \/ /\ Taken(records', records, NewRecord(fix))
              /\ lastFix' \subseteq [ts : Times, place : Places]
              /\ daily' = {}
              /\ ScheduleSaveRecords(records')
<1> DEFINE r == [ts |-> fix.ts, place |-> fix.place, start |-> fix.ts]
           added == Added(records, r)
           merged == Len(added) = Len(records)
           late == ~merged /\ records # <<>> /\ fix.ts < Last(records).ts
           ended == IF merged THEN [ts |-> fix.ts, place |-> Last(added).place] ELSE fix
<1>1. CASE lastFix' = {fix} /\ UNCHANGED <<records, daily, saving>>
  BY <1>1 DEF saving
<1>2. CASE /\ records' = Pruned(IF late THEN Sorted(added) ELSE added)
           /\ lastFix' = {ended}
           /\ daily' = {}
           /\ ScheduleSaveRecords(records')
  <2>1. /\ NewRecord(fix) \in Records /\ NewRecord(fix).ts = fix.ts
        /\ fix \in [ts : Times, place : Places] /\ r = NewRecord(fix)
    BY NewRecordProperties DEF NewRecord
  <2>2. Taken(records', records, NewRecord(fix))
    BY <1>2, <2>1 DEF Taken
  <2>3. records \in Seq(Records) /\ OrderedSeq(records)
    BY DEF StoreInv, InStore
  <2>4. added \in Seq(Records) /\ Len(added) >= 1
    BY <2>1, <2>3, AddedProperties
  <2>5. Last(added) \in Records
    <3> HIDE DEF added
    <3>1. Len(added) \in Nat /\ DOMAIN added = 1..Len(added) /\ \A i \in DOMAIN added : added[i] \in Records
      BY <2>4, SeqFacts
    <3>2. Len(added) \in DOMAIN added
      BY <2>4, <3>1
    <3>3. QED
      BY <3>1, <3>2 DEF Last
  <2>6. fix.ts \in Times /\ Last(added).place \in Places
    BY <2>1, <2>5, StoreFacts
  <2> HIDE DEF added
  <2>7. ended \in [ts : Times, place : Places]
    BY <2>1, <2>6
  <2>8. QED
    BY <1>2, <2>2, <2>7
<1>3. QED
  BY <1>1, <1>2 DEF HandleLocation

LEMMA StoreNext == ASSUME StoreInv, [Next]_vars PROVE StoreInv'
<1>1. /\ InStore(records) /\ InFile(file) /\ daily \subseteq {Grouped(records)}
      /\ lastFix \subseteq [ts : Times, place : Places]
      /\ pending \in BOOLEAN /\ timer \in BOOLEAN /\ failed \in BOOLEAN
      /\ records = file \/ failed \/ (pending /\ timer)
  BY DEF StoreInv, UnsavedIsPending
<1>2. ASSUME NEW fix \in Fixes, HandleLocation(fix) PROVE StoreInv'
  <2>1. NewRecord(fix) \in Records /\ Rest(NewRecord(fix)) /\ fix \in [ts : Times, place : Places]
    BY NewRecordProperties
  <2>2. CASE UNCHANGED <<records, daily, pending, timer, file, failed>> /\ lastFix' = {fix}
    BY <1>1, <2>1, <2>2 DEF StoreInv, UnsavedIsPending, InStore, InFile, Grouped
  <2>3. CASE /\ Taken(records', records, NewRecord(fix))
             /\ lastFix' \subseteq [ts : Times, place : Places]
             /\ daily' = {}
             /\ ScheduleSaveRecords(records')
    <3>1. InStore(records')
      BY <1>1, <2>1, <2>3, TakenInStore
    <3>2. /\ InFile(file')
          /\ pending' \in BOOLEAN /\ timer' \in BOOLEAN /\ failed' \in BOOLEAN
          /\ file' = records' \/ failed' \/ (pending' /\ timer')
      BY <1>1, <2>3, <3>1, ScheduleProperties
    <3>3. QED
      BY <2>3, <3>1, <3>2 DEF StoreInv, UnsavedIsPending
  <2>4. QED
    BY <1>2, <2>2, <2>3, HandledParts
<1>3. ASSUME NEW d \in Days, DeleteDay(d) PROVE StoreInv'
  <2>1. /\ records' = Without(records, d) /\ SaveRecords(records', pending)
        /\ lastFix' \subseteq lastFix /\ daily' = {}
    BY <1>3 DEF DeleteDay
  <2>2. InStore(records')
    BY <1>1, <2>1, WithoutProperties
  <2>3. /\ InFile(file')
        /\ pending' \in BOOLEAN /\ timer' \in BOOLEAN /\ failed' \in BOOLEAN
        /\ file' = records' \/ failed'
    BY <1>1, <2>1, <2>2, SaveProperties
  <2>4. QED
    BY <1>1, <2>1, <2>2, <2>3 DEF StoreInv, UnsavedIsPending
<1>4. ASSUME EnsureDailyCache PROVE StoreInv'
  <2>1. /\ records' = records /\ lastFix' = lastFix /\ pending' = pending /\ timer' = timer
        /\ file' = file /\ failed' = failed /\ daily' = {Grouped(records)}
    BY <1>4 DEF EnsureDailyCache, saving
  <2>2. daily' \subseteq {Grouped(records')}
    BY <2>1
  <2>3. QED
    BY <1>1, <2>1, <2>2 DEF StoreInv, UnsavedIsPending
<1>5. ASSUME DoStart PROVE StoreInv'
  BY <1>1, <1>5 DEF DoStart, saving, StoreInv, UnsavedIsPending
<1>6. ASSUME NEW left \in BOOLEAN, FlushRecords(left), left = timer \/ left = FALSE,
             records' = records, daily' = daily, lastFix' \subseteq lastFix
      PROVE  StoreInv'
  <2>1. CASE pending /\ SaveRecords(records, FALSE)
    <3>1. /\ InFile(file')
          /\ pending' \in BOOLEAN /\ timer' \in BOOLEAN /\ failed' \in BOOLEAN
          /\ file' = records \/ failed'
      BY <1>1, <2>1, SaveProperties
    <3>2. QED
      BY <1>1, <1>6, <3>1 DEF StoreInv, UnsavedIsPending
  <2>2. CASE ~pending /\ timer' = left /\ UNCHANGED <<pending, file, failed>>
    BY <1>1, <1>6, <2>2 DEF StoreInv, UnsavedIsPending
  <2>3. QED
    BY <1>6, <2>1, <2>2 DEF FlushRecords
<1>7. ASSUME Stop PROVE StoreInv'
  BY <1>1, <1>6, <1>7 DEF Stop
<1>8. ASSUME TimerFires PROVE StoreInv'
  BY <1>1, <1>6, <1>8 DEF TimerFires
<1>9. ASSUME Relaunch PROVE StoreInv'
  <2>1. CASE Launch(file) /\ (Loaded(file).changed \/ failed' = FALSE)
    <3>1. failed' \in BOOLEAN
      BY <1>1, <2>1, SaveProperties, LoadedProperties DEF Launch
    <3>2. QED
      BY <1>1, <2>1, <3>1, LaunchKeeps
  <2>2. CASE Launch(<<>>) /\ failed' = TRUE
    <3>1. InFile(<<>>)
      <4>1. <<>> \in Seq(Records) /\ Len(<<>>) = 0 /\ DOMAIN <<>> = {} /\ MaxRecords \in Nat
        BY EmptySeq, StoreFacts
      <4>2. Len(<<>>) <= MaxRecords
        BY <4>1
      <4>3. OrderedSeq(<<>>) /\ Brief(<<>>)
        BY <4>1 DEF OrderedSeq, Brief
      <4>4. QED
        BY <4>1, <4>2, <4>3, Zenon DEF InStore, InFile
    <3>2. QED
      BY <1>1, <2>2, <3>1, LaunchKeeps
  <2>3. QED
    BY <1>9, <2>1, <2>2 DEF Relaunch
<1>10. ASSUME UNCHANGED vars PROVE StoreInv'
  BY <1>1, <1>10 DEF vars, StoreInv, UnsavedIsPending
<1>11. QED
  BY <1>2, <1>3, <1>4, <1>5, <1>7, <1>8, <1>9, <1>10 DEF Next

LEMMA StoreAlways == Spec => []StoreInv
BY StoreInit, StoreNext, PTL DEF Spec
-----------------------------------------------------------------------------
(* Whatever comes, the store has the types of its model.                   *)
THEOREM TypeCorrect == Spec => []TypeOK
<1>1. StoreInv => TypeOK
  <2>1. \A rs : InFile(rs) => rs \in Seq(Stored)
    BY StartProperties
  <2>2. QED
    BY <2>1 DEF StoreInv, InStore, TypeOK, Stored
<1>2. QED
  BY <1>1, StoreAlways, PTL

(* The records are ordered by time and within the bound, whatever the      *)
(* clock does, and whatever the file held (append, the sort, pruneIfNeeded *)
(* and loadRecords).                                                       *)
THEOREM RecordsInOrder == Spec => []Ordered
<1>1. StoreInv => Ordered
  BY DEF StoreInv, InStore, OrderedSeq, Ordered
<1>2. QED
  BY <1>1, StoreAlways, PTL

(* No record stands for a rest of a heartbeat or more, though each merge   *)
(* makes the rest of its record longer (append and compact).               *)
THEOREM RestsStayShort == Spec => []RestsAreShort
<1>1. StoreInv => RestsAreShort
  BY DEF StoreInv, InStore, Brief, Rest, RestsAreShort, ToSet
<1>2. QED
  BY <1>1, StoreAlways, PTL

(* What is recorded and not in the file will be written, unless reading or *)
(* writing has failed (saveRecords, scheduleSaveRecords and its timer).    *)
THEOREM UnsavedWillBeWritten == Spec => []UnsavedIsPending
<1>1. StoreInv => UnsavedIsPending
  BY DEF StoreInv
<1>2. QED
  BY <1>1, StoreAlways, PTL
-----------------------------------------------------------------------------
(* The pages of the days.                                                  *)
LEMMA DayBegins ==
    ASSUME NEW t \in Times
    PROVE  StartOfDay(t) \in Int /\ StartOfDay(t) <= t
<1>1. t \in Nat /\ t # 0 /\ DayLength \in Nat /\ DayLength > 0
  BY StoreFacts
<1> DEFINE n == t - 1
<1>2. n \in Int /\ n >= 0 /\ t = n + 1
  BY <1>1
<1> HIDE DEF n
<1>3. n \div DayLength \in Int /\ (n \div DayLength) * DayLength <= n
  BY <1>1, <1>2
<1>4. StartOfDay(t) = (n \div DayLength) * DayLength + 1
  BY DEF StartOfDay, DayOf, n
<1>5. QED
  BY <1>1, <1>2, <1>3, <1>4

LEMMA OfDayProperties ==
    ASSUME NEW rs, InStore(rs), NEW d
    PROVE  /\ InStore(OfDay(rs, d))
           /\ \A k \in DOMAIN OfDay(rs, d) : OfDay(rs, d)[k] \in ToSet(rs) /\ DayOf(OfDay(rs, d)[k].ts) = d
           /\ OfDay(rs, d) = <<>> <=> d \notin {DayOf(r.ts) : r \in ToSet(rs)}
<1> DEFINE J == {i \in DOMAIN rs : DayOf(rs[i].ts) = d}
<1>1. /\ InStore(OfDay(rs, d)) /\ Len(OfDay(rs, d)) = Cardinality(J)
      /\ IsFiniteSet(J)
      /\ \A k \in DOMAIN OfDay(rs, d) : \E i \in J : OfDay(rs, d)[k] = rs[i]
  <2>1. OfDay(rs, d) = Picked(rs, J) /\ J \subseteq DOMAIN rs
    BY DEF OfDay
  <2> HIDE DEF J
  <2>2. QED
    BY <2>1, PickedInStore
<1>2. \A k \in DOMAIN OfDay(rs, d) : OfDay(rs, d)[k] \in ToSet(rs) /\ DayOf(OfDay(rs, d)[k].ts) = d
  BY <1>1 DEF ToSet
<1>3. OfDay(rs, d) = <<>> <=> J = {}
  <2>1. OfDay(rs, d) \in Seq(Records)
    BY <1>1 DEF InStore
  <2>2. Cardinality(J) = 0 <=> J = {}
    BY <1>1, FS_EmptySet
  <2>3. OfDay(rs, d) = <<>> <=> Len(OfDay(rs, d)) = 0
    BY <2>1, EmptySeq
  <2>4. QED
    BY <1>1, <2>2, <2>3
<1>4. J = {} <=> d \notin {DayOf(r.ts) : r \in ToSet(rs)}
  BY DEF ToSet
<1>5. QED
  BY <1>1, <1>2, <1>3, <1>4

(* What the pages show of the days is what is recorded (ensureDailyCache), *)
(* and every record is counted in one day.                                 *)
THEOREM DaysAreCurrent == Spec => []DailyCurrent
<1>1. ASSUME StoreInv PROVE DailyCurrent
  <2> DEFINE D == {DayOf(r.ts) : r \in ToSet(records)}
             tracks == [d \in D |-> OfDay(records, d)]
  <2>1. InStore(records) /\ daily \subseteq {Grouped(records)}
    BY <1>1 DEF StoreInv
  <2>2. SUFFICES ASSUME NEW shown \in daily
                 PROVE  /\ \A d \in Days :
                              IF d \in DOMAIN shown.tracks THEN shown.tracks[d] = OfDay(records, d)
                                                           ELSE OfDay(records, d) = <<>>
                        /\ shown.total = SumFunctionOnSet(
                                [d \in DOMAIN shown.tracks |-> GroupOf(shown.tracks[d]).count],
                                DOMAIN shown.tracks)
                        /\ \A d \in DOMAIN shown.tracks :
                              /\ StartOfDay(GroupOf(shown.tracks[d]).last) <= GroupOf(shown.tracks[d]).first
                              /\ GroupOf(shown.tracks[d]).first <= GroupOf(shown.tracks[d]).last
    BY DEF DailyCurrent
  <2>3. shown.tracks = tracks /\ shown.total = Len(records)
    <3>1. shown = [tracks |-> tracks, total |-> Len(records)]
      BY <2>1, <2>2, Zenon DEF Grouped
    <3> HIDE DEF tracks
    <3>2. QED
      BY <3>1
  <2>4. DOMAIN tracks = D /\ \A d \in D : tracks[d] = OfDay(records, d)
    OBVIOUS
  <2> HIDE DEF D, tracks
  <2>5. ASSUME NEW d \in Days
        PROVE  IF d \in DOMAIN tracks THEN tracks[d] = OfDay(records, d) ELSE OfDay(records, d) = <<>>
    <3>1. d \notin D => OfDay(records, d) = <<>>
      BY <2>1, OfDayProperties DEF D
    <3>2. QED
      BY <2>4, <3>1
  <2>6. Len(records) = SumFunctionOnSet([d \in DOMAIN tracks |-> GroupOf(tracks[d]).count], DOMAIN tracks)
    <3>1. [d \in DOMAIN tracks |-> GroupOf(tracks[d]).count] = [d \in D |-> Len(OfDay(records, d))]
      BY <2>4 DEF GroupOf
    <3>2. SumFunctionOnSet([d \in D |-> Len(OfDay(records, d))], D) = Len(records)
      BY <2>1, DaysAddUp DEF D
    <3>3. QED
      BY <2>4, <3>1, <3>2
  <2>7. ASSUME NEW d \in DOMAIN tracks
        PROVE  /\ StartOfDay(GroupOf(tracks[d]).last) <= GroupOf(tracks[d]).first
               /\ GroupOf(tracks[d]).first <= GroupOf(tracks[d]).last
    <3> DEFINE recs == OfDay(records, d)
               begun == RunStartOf(recs[1])
    <3>1. tracks[d] = recs /\ d \in D
      BY <2>4, <2>7
    <3>2. /\ recs \in Seq(Records) /\ OrderedSeq(recs) /\ Brief(recs) /\ recs # <<>>
          /\ \A k \in DOMAIN recs : DayOf(recs[k].ts) = d
      BY <2>1, <3>1, OfDayProperties DEF InStore, D
    <3> HIDE DEF recs
    <3>3. /\ Len(recs) \in Nat /\ Len(recs) >= 1 /\ DOMAIN recs = 1..Len(recs)
          /\ 1 \in DOMAIN recs /\ Len(recs) \in DOMAIN recs
      <4>1. Len(recs) \in Nat /\ Len(recs) # 0 /\ DOMAIN recs = 1..Len(recs)
        BY <3>2, SeqFacts, EmptySeq
      <4>2. QED
        BY <4>1
    <3>4. /\ recs[1].ts \in Times /\ recs[Len(recs)].ts \in Times /\ recs[1].ts <= recs[Len(recs)].ts
          /\ recs[1] \in Records /\ Rest(recs[1])
      <4>1. recs[1] \in Records /\ recs[Len(recs)] \in Records /\ Rest(recs[1])
        BY <3>2, <3>3, SeqFacts DEF Brief
      <4>2. recs[1].ts \in Times /\ recs[Len(recs)].ts \in Times /\ recs[1].ts \in Nat
        BY <4>1, StoreFacts
      <4>3. recs[1].ts <= recs[Len(recs)].ts
        <5>1. CASE Len(recs) = 1
          BY <4>2, <5>1
        <5>2. CASE Len(recs) # 1
          <6>1. 1 < Len(recs)
            BY <3>3, <5>2
          <6>2. QED
            BY <3>2, <3>3, <6>1 DEF OrderedSeq
        <5>3. QED
          BY <5>1, <5>2
      <4>4. QED
        BY <4>1, <4>2, <4>3
    <3>5. StartOfDay(recs[1].ts) = StartOfDay(recs[Len(recs)].ts)
      BY <3>2, <3>3 DEF StartOfDay
    <3>6. /\ StartOfDay(recs[1].ts) \in Int /\ StartOfDay(recs[1].ts) <= recs[1].ts
          /\ recs[1].ts \in Nat /\ recs[Len(recs)].ts \in Nat
      BY <3>4, DayBegins, StoreFacts
    <3>7. begun \in Nat /\ begun <= recs[1].ts
      <4>1. begun = recs[1].start /\ recs[1].start \in Nat
        BY <3>4, <2>1, StartProperties, StoreFacts DEF InFile
      <4>2. QED
        BY <3>4, <4>1 DEF Rest
    <3> DEFINE first == Later(begun, StartOfDay(recs[1].ts))
               last == recs[Len(recs)].ts
    <3>8. GroupOf(tracks[d]).first = first /\ GroupOf(tracks[d]).last = last
      BY <3>1 DEF GroupOf, Last
    <3>9. StartOfDay(recs[1].ts) <= first /\ first <= recs[1].ts
      <4> HIDE DEF begun
      <4>1. QED
        BY <3>6, <3>7 DEF Later
    <3>10. first \in Int
      <4> HIDE DEF begun
      <4>1. QED
        BY <3>6, <3>7 DEF Later
    <3> HIDE DEF first
    <3>11. first <= last
      BY <3>4, <3>6, <3>9, <3>10
    <3>12. StartOfDay(last) <= first
      BY <3>5, <3>9
    <3>13. QED
      BY <3>8, <3>11, <3>12
  <2>8. QED
    BY <2>3, <2>5, <2>6, <2>7
<1>2. QED
  BY <1>1, StoreAlways, PTL
-----------------------------------------------------------------------------
(* The bisection.  Its steps exist for ranges of every length, or there    *)
(* would be a least length without them.                                   *)
Step(rs, t, h, p) ==
    LET mid == (p[1] + p[2]) \div 2
    IN IF p[1] >= p[2] THEN p[1]
       ELSE IF rs[mid].ts < t THEN h[<<mid + 1, p[2]>>] ELSE h[<<p[1], mid>>]

LEMMA Halves ==
    ASSUME NEW n \in Nat, NEW p \in (1..n) \X (1..n), p[1] < p[2]
    PROVE  LET mid == (p[1] + p[2]) \div 2
           IN /\ mid \in p[1]..(p[2] - 1) /\ mid \in 1..n
              /\ <<mid + 1, p[2]>> \in (1..n) \X (1..n) /\ p[2] - (mid + 1) < p[2] - p[1]
              /\ <<p[1], mid>> \in (1..n) \X (1..n) /\ mid - p[1] < p[2] - p[1]
<1> DEFINE lo == p[1]  hi == p[2]  mid == (lo + hi) \div 2
<1>1. lo \in 1..n /\ hi \in 1..n /\ lo < hi
  OBVIOUS
<1> HIDE DEF lo, hi
<1>2. mid \in lo..(hi - 1)
  BY <1>1
<1> HIDE DEF mid
<1>3. /\ mid \in 1..n /\ mid + 1 \in 1..n
      /\ hi - (mid + 1) < hi - lo /\ mid - lo < hi - lo
  BY <1>1, <1>2
<1>4. QED
  BY <1>1, <1>2, <1>3 DEF lo, hi, mid

(* A step looks at shorter ranges only.                                    *)
LEMMA StepLocal ==
    ASSUME NEW n \in Nat, NEW rs, NEW t, NEW m \in Nat, NEW g, NEW h,
           \A p \in (1..n) \X (1..n) : p[2] - p[1] < m => g[p] = h[p],
           NEW p \in (1..n) \X (1..n), p[2] - p[1] <= m
    PROVE  Step(rs, t, g, p) = Step(rs, t, h, p)
<1> DEFINE D == (1..n) \X (1..n)
           mid == (p[1] + p[2]) \div 2
<1>1. CASE p[1] >= p[2]
  BY <1>1 DEF Step
<1>2. CASE ~(p[1] >= p[2])
  <2>1. p[1] \in Int /\ p[2] \in Int /\ p[1] < p[2]
    BY <1>2
  <2>2. /\ <<mid + 1, p[2]>> \in D /\ p[2] - (mid + 1) < p[2] - p[1]
        /\ <<p[1], mid>> \in D /\ mid - p[1] < p[2] - p[1]
        /\ mid \in 1..n
    BY <2>1, Halves
  <2> HIDE DEF mid
  <2>3. p[2] - (mid + 1) < m /\ mid - p[1] < m
    BY <2>1, <2>2
  <2>4. g[<<mid + 1, p[2]>>] = h[<<mid + 1, p[2]>>] /\ g[<<p[1], mid>>] = h[<<p[1], mid>>]
    <3> DEFINE a == <<mid + 1, p[2]>>  b == <<p[1], mid>>
    <3>1. a \in D /\ b \in D /\ a[2] - a[1] < m /\ b[2] - b[1] < m
      BY <2>2, <2>3
    <3> HIDE DEF a, b
    <3>2. g[a] = h[a] /\ g[b] = h[b]
      BY <3>1
    <3>3. QED
      BY <3>2 DEF a, b
  <2>5. QED
    BY <2>4 DEF Step, mid
<1>3. QED
  BY <1>1, <1>2

LEMMA SeeksTurn ==
    ASSUME NEW T, NEW rs \in Seq(T), NEW t
    PROVE  \A p \in (DOMAIN rs) \X (DOMAIN rs) : Seeks(rs, t)[p] = Step(rs, t, Seeks(rs, t), p)
<1> DEFINE n == Len(rs)
           D == (1..n) \X (1..n)
           Upto(h, m) == \A p \in D : p[2] - p[1] <= m => h[p] = Step(rs, t, h, p)
           Bad == {m \in Nat : ~\E h : Upto(h, m)}
<1>1. n \in Nat /\ DOMAIN rs = 1..n
  BY SeqFacts
<1>2. Bad = {}
  <2>1. SUFFICES ASSUME Bad # {} PROVE FALSE
    OBVIOUS
  <2>2. PICK m \in Bad : \A k \in Bad : m <= k
    <3>1. Bad \subseteq Nat
      OBVIOUS
    <3> HIDE DEF Bad
    <3>2. QED
      BY <2>1, <3>1, LeastExists
  <2>3. m \in Nat /\ ~\E h : Upto(h, m)
    BY <2>2
  <2>4. CASE m = 0
    <3> DEFINE h == [p \in D |-> p[1]]
    <3>1. ASSUME NEW p \in D, p[2] - p[1] <= 0 PROVE h[p] = Step(rs, t, h, p)
      <4>1. p[1] \in Int /\ p[2] \in Int
        OBVIOUS
      <4>2. p[1] >= p[2]
        BY <3>1, <4>1
      <4>3. QED
        BY <4>2 DEF Step
    <3> HIDE DEF h
    <3>2. Upto(h, m)
      BY <2>4, <3>1
    <3>3. QED
      BY <2>3, <3>2
  <2>5. CASE m # 0
    <3>1. m - 1 \in Nat /\ ~(m <= m - 1)
      BY <2>3, <2>5
    <3>2. m - 1 \notin Bad
      <4> HIDE DEF Bad
      <4>1. QED
        BY <2>2, <3>1
    <3>3. PICK h : Upto(h, m - 1)
      BY <3>1, <3>2
    <3> DEFINE g == [p \in D |-> IF p[2] - p[1] < m THEN h[p] ELSE Step(rs, t, h, p)]
    <3>4. \A p \in D : p[2] - p[1] < m => g[p] = h[p]
      OBVIOUS
    <3>5. \A p \in D : ~(p[2] - p[1] < m) => g[p] = Step(rs, t, h, p)
      OBVIOUS
    <3> HIDE DEF g
    <3>6. ASSUME NEW p \in D, p[2] - p[1] <= m PROVE g[p] = Step(rs, t, g, p)
      <4>1. Step(rs, t, g, p) = Step(rs, t, h, p)
        <5>1. m \in Nat
          BY <2>3
        <5>2. n \in Nat
          BY <1>1
        <5> HIDE DEF n, Upto, Bad
        <5>3. QED
          BY <3>4, <3>6, <5>1, <5>2, StepLocal
      <4>2. CASE p[2] - p[1] < m
        <5>1. p[2] - p[1] <= m - 1
          <6>1. p[1] \in Int /\ p[2] \in Int
            OBVIOUS
          <6>2. QED
            BY <2>3, <4>2, <6>1
        <5>2. QED
          BY <3>3, <3>4, <4>1, <4>2, <5>1
      <4>3. CASE ~(p[2] - p[1] < m)
        BY <3>5, <4>1, <4>3
      <4>4. QED
        BY <4>2, <4>3
    <3>7. Upto(g, m)
      BY <3>6
    <3>8. QED
      BY <2>3, <3>7
  <2>6. QED
    BY <2>4, <2>5
<1>3. PICK h : Upto(h, n)
  <2>1. n \notin Bad
    BY <1>2
  <2>2. QED
    BY <1>1, <2>1
<1>4. \A p \in D : p[2] - p[1] < n /\ p[2] - p[1] <= n
  BY <1>1
<1> DEFINE g == [p \in D |-> h[p]]
<1>5. \A p \in D : g[p] = h[p]
  OBVIOUS
<1>6. g = [p \in D |-> g[p]]
  OBVIOUS
<1> HIDE DEF g
<1>7. ASSUME NEW p \in D PROVE g[p] = Step(rs, t, g, p)
  <2>1. Step(rs, t, g, p) = Step(rs, t, h, p)
    BY <1>1, <1>4, <1>5, StepLocal
  <2>2. h[p] = Step(rs, t, h, p)
    BY <1>3, <1>4
  <2>3. QED
    BY <1>5, <2>1, <2>2
<1>8. g = [p \in D |-> Step(rs, t, g, p)]
  BY <1>6, <1>7
<1>9. Seeks(rs, t) = [p \in D |-> Step(rs, t, Seeks(rs, t), p)]
  BY <1>1, <1>8 DEF Seeks, Step
<1>10. QED
  BY <1>1, <1>9

(* A range is searched for the first record at t or later: those before    *)
(* the one found are earlier, and only the last of the range may be, too.  *)
Sought(rs, t, lo, hi, i) ==
    /\ i \in lo..hi
    /\ \A j \in lo..(i - 1) : rs[j].ts < t
    /\ i < hi => rs[i].ts >= t

LEMMA SeekProperties ==
    ASSUME NEW rs \in Seq(Records), OrderedSeq(rs), NEW t \in Int
    PROVE  \A p \in (DOMAIN rs) \X (DOMAIN rs) :
              p[1] <= p[2] => Sought(rs, t, p[1], p[2], Seeks(rs, t)[p])
<1> DEFINE n == Len(rs)
           D == (1..n) \X (1..n)
           s == Seeks(rs, t)
           Size(p) == p[2] - p[1]
           Fails(p) == p[1] <= p[2] /\ ~Sought(rs, t, p[1], p[2], s[p])
           Bad == {m \in Nat : \E p \in D : Fails(p) /\ Size(p) = m}
<1>1. n \in Nat /\ DOMAIN rs = 1..n /\ \A j \in 1..n : rs[j].ts \in Int
  BY SeqFacts, StoreFacts
<1>2. \A p \in D : s[p] = Step(rs, t, s, p)
  BY <1>1, SeeksTurn
<1> HIDE DEF s
<1>3. ASSUME NEW p \in D, p[1] <= p[2],
             \A q \in D : q[1] <= q[2] /\ Size(q) < Size(p) => Sought(rs, t, q[1], q[2], s[q])
      PROVE  Sought(rs, t, p[1], p[2], s[p])
  <2> DEFINE lo == p[1]  hi == p[2]  mid == (lo + hi) \div 2
  <2>1. lo \in 1..n /\ hi \in 1..n /\ lo <= hi
    BY <1>3
  <2>2. CASE lo = hi
    <3>1. s[p] = lo
      BY <1>2, <2>1, <2>2 DEF Step
    <3> HIDE DEF lo, hi
    <3>2. Sought(rs, t, lo, hi, lo)
      BY <2>1, <2>2 DEF Sought
    <3>3. QED
      BY <3>1, <3>2 DEF lo, hi
  <2>3. CASE lo # hi
    <3>1. lo < hi
      BY <2>1, <2>3
    <3>2. /\ mid \in lo..(hi - 1) /\ mid \in 1..n
          /\ <<mid + 1, hi>> \in D /\ hi - (mid + 1) < hi - lo
          /\ <<lo, mid>> \in D /\ mid - lo < hi - lo
      BY <1>1, <3>1, Halves
    <3>3. s[p] = IF rs[mid].ts < t THEN s[<<mid + 1, hi>>] ELSE s[<<lo, mid>>]
      <4>1. ~(p[1] >= p[2])
        BY <2>1, <3>1
      <4>2. s[p] = Step(rs, t, s, p)
        BY <1>2
      <4>3. QED
        BY <4>1, <4>2, Zenon DEF Step
    <3> DEFINE right == <<mid + 1, hi>>
               left  == <<lo, mid>>
    <3>4. /\ right \in D /\ right[1] = mid + 1 /\ right[2] = hi
          /\ left \in D /\ left[1] = lo /\ left[2] = mid
          /\ s[p] = IF rs[mid].ts < t THEN s[right] ELSE s[left]
      BY <3>2, <3>3
    <3>5. Size(p) = hi - lo
      OBVIOUS
    <3> HIDE DEF lo, hi, mid, right, left
    <3>6. mid + 1 <= hi /\ lo <= mid /\ mid \in Int
      BY <2>1, <3>2
    <3>7. Sought(rs, t, mid + 1, hi, s[right]) /\ Sought(rs, t, lo, mid, s[left])
      BY <1>3, <3>2, <3>4, <3>5, <3>6
    <3>8. CASE rs[mid].ts < t
      <4> DEFINE i == s[right]
      <4>1. s[p] = i
        BY <3>4, <3>8
      <4> HIDE DEF i
      <4>2. /\ i \in (mid + 1)..hi /\ (\A j \in (mid + 1)..(i - 1) : rs[j].ts < t)
            /\ i < hi => rs[i].ts >= t
        BY <3>7 DEF Sought, i
      <4>3. ASSUME NEW j \in lo..(i - 1) PROVE rs[j].ts < t
        <5>1. j \in Int /\ j \in 1..n
          BY <2>1, <3>6, <4>2
        <5>2. CASE j <= mid
          <6>1. rs[j].ts <= rs[mid].ts
            <7>1. CASE j = mid
              BY <1>1, <3>2, <7>1
            <7>2. CASE j # mid
              <8>1. j < mid
                BY <3>6, <5>1, <5>2, <7>2
              <8>2. QED
                BY <1>1, <3>2, <5>1, <8>1 DEF OrderedSeq
            <7>3. QED
              BY <7>1, <7>2
          <6>2. rs[j].ts \in Int /\ rs[mid].ts \in Int
            BY <1>1, <3>2, <5>1
          <6>3. QED
            BY <3>8, <6>1, <6>2
        <5>3. CASE ~(j <= mid)
          <6>1. j \in (mid + 1)..(i - 1)
            BY <3>6, <4>2, <4>3, <5>1, <5>3
          <6>2. QED
            BY <4>2, <6>1
        <5>4. QED
          BY <5>2, <5>3
      <4>4. i \in lo..hi
        BY <2>1, <3>6, <4>2
      <4>5. QED
        BY <4>1, <4>2, <4>3, <4>4 DEF Sought, lo, hi
    <3>9. CASE ~(rs[mid].ts < t)
      <4> DEFINE i == s[left]
      <4>1. s[p] = i
        BY <3>4, <3>9
      <4> HIDE DEF i
      <4>2. /\ i \in lo..mid /\ (\A j \in lo..(i - 1) : rs[j].ts < t)
            /\ i < mid => rs[i].ts >= t
        BY <3>7 DEF Sought, i
      <4>3. rs[mid].ts >= t
        BY <1>1, <3>2, <3>9
      <4>4. rs[i].ts >= t
        <5>1. i = mid \/ i < mid
          BY <2>1, <3>6, <4>2
        <5>2. QED
          BY <4>2, <4>3, <5>1
      <4>5. i \in lo..hi
        BY <2>1, <3>6, <4>2
      <4>6. QED
        BY <4>1, <4>2, <4>4, <4>5 DEF Sought, lo, hi
    <3>10. QED
      BY <3>8, <3>9
  <2>4. QED
    BY <2>2, <2>3
<1>4. ASSUME Bad # {} PROVE FALSE
  <2>1. PICK m \in Bad : \A k \in Bad : m <= k
    <3>1. Bad \subseteq Nat
      OBVIOUS
    <3> HIDE DEF Bad
    <3>2. QED
      BY <1>4, <3>1, LeastExists
  <2>2. PICK p \in D : Fails(p) /\ Size(p) = m
    BY <2>1
  <2>3. ASSUME NEW q \in D, q[1] <= q[2], Size(q) < Size(p), ~Sought(rs, t, q[1], q[2], s[q])
        PROVE  FALSE
    <3>1. q[1] \in Int /\ q[2] \in Int
      BY <2>3
    <3>2. Size(q) \in Nat
      BY <2>3, <3>1
    <3>3. Size(q) \in Bad
      BY <2>3, <3>2
    <3>4. m <= Size(q) /\ m \in Nat
      <4>1. m \in Nat
        BY <2>1
      <4> HIDE DEF Bad, Size
      <4>2. QED
        BY <2>1, <3>3, <4>1
    <3> HIDE DEF Size
    <3>5. QED
      BY <2>2, <2>3, <3>2, <3>4
  <2>4. QED
    BY <1>3, <2>2, <2>3
<1>5. ASSUME NEW p \in D, p[1] <= p[2] PROVE Sought(rs, t, p[1], p[2], s[p])
  <2>1. SUFFICES ASSUME Fails(p) PROVE FALSE
    BY <1>5
  <2>2. p[1] \in Int /\ p[2] \in Int
    OBVIOUS
  <2>3. Size(p) \in Nat
    BY <1>5, <2>2
  <2>4. Size(p) \in Bad
    BY <2>1, <2>3
  <2> HIDE DEF Bad
  <2>5. QED
    BY <1>4, <2>4
<1>6. QED
  BY <1>1, <1>5 DEF s

(* The place that findClosest settles on: the insertion point or one of    *)
(* its neighbours.                                                         *)
Settled(rs, t) ==
    LET lo   == Bisect(rs, t)
        left == IF lo > 1 /\ Apart(rs, lo - 1, t) < Apart(rs, lo, t) THEN lo - 1 ELSE lo
    IN IF lo < Len(rs) /\ Apart(rs, lo + 1, t) < Apart(rs, left, t) THEN lo + 1 ELSE left

LEMMA SettledIsClosest ==
    ASSUME NEW rs \in Seq(Records), OrderedSeq(rs), rs # <<>>, NEW t \in Int
    PROVE  /\ Settled(rs, t) \in DOMAIN rs
           /\ \A j \in DOMAIN rs : /\ Apart(rs, j, t) \in Int
                                   /\ Apart(rs, Settled(rs, t), t) <= Apart(rs, j, t)
<1> DEFINE n == Len(rs)
           lo == Bisect(rs, t)
           A(j) == Apart(rs, j, t)
           left == IF lo > 1 /\ A(lo - 1) < A(lo) THEN lo - 1 ELSE lo
           best == IF lo < n /\ A(lo + 1) < A(left) THEN lo + 1 ELSE left
<1>1. n \in Nat /\ n >= 1 /\ DOMAIN rs = 1..n /\ \A j \in 1..n : rs[j].ts \in Int
  <2>1. n \in Nat /\ n # 0 /\ DOMAIN rs = 1..n /\ \A j \in 1..n : rs[j].ts \in Nat
    BY SeqFacts, EmptySeq, StoreFacts
  <2>2. QED
    BY <2>1
<1>2. Sought(rs, t, 1, n, lo)
  <2> DEFINE p == <<1, n>>
  <2>1. p \in (DOMAIN rs) \X (DOMAIN rs) /\ p[1] = 1 /\ p[2] = n /\ 1 <= n
    BY <1>1
  <2>2. Sought(rs, t, p[1], p[2], Seeks(rs, t)[p])
    <3> HIDE DEF p
    <3>1. QED
      BY <2>1, SeekProperties
  <2>3. QED
    BY <2>1, <2>2 DEF Bisect
<1>3. Settled(rs, t) = best
  BY DEF Settled
<1>4. \A j \in 1..n : A(j) = IF rs[j].ts < t THEN t - rs[j].ts ELSE rs[j].ts - t
  <2>1. SUFFICES ASSUME NEW j \in 1..n
                 PROVE  A(j) = IF rs[j].ts < t THEN t - rs[j].ts ELSE rs[j].ts - t
    OBVIOUS
  <2>2. rs[j].ts \in Int
    BY <1>1
  <2>3. QED
    BY <2>2 DEF Apart, Abs
<1>5. lo \in 1..n /\ (\A j \in 1..(lo - 1) : rs[j].ts < t) /\ (lo < n => rs[lo].ts >= t)
  BY <1>2 DEF Sought
<1> HIDE DEF lo, A
<1>6. \A j \in 1..n : A(j) \in Int
  BY <1>1, <1>4
<1>7. \A i, j \in 1..n : i <= j => rs[i].ts <= rs[j].ts
  <2>1. SUFFICES ASSUME NEW i \in 1..n, NEW j \in 1..n, i <= j PROVE rs[i].ts <= rs[j].ts
    OBVIOUS
  <2>2. CASE i = j
    BY <1>1, <2>2
  <2>3. CASE i # j
    BY <1>1, <2>1, <2>3 DEF OrderedSeq
  <2>4. QED
    BY <2>2, <2>3
<1>8. left \in 1..n /\ A(left) <= A(lo) /\ (lo > 1 => A(left) <= A(lo - 1))
  <2>1. n \in Nat /\ lo \in 1..n
    BY <1>1, <1>5
  <2> HIDE DEF n
  <2>2. A(lo) \in Int /\ (lo > 1 => lo - 1 \in 1..n /\ A(lo - 1) \in Int)
    BY <1>6, <2>1
  <2>3. QED
    BY <2>1, <2>2
<1> HIDE DEF left
<1>9. best \in 1..n /\ A(best) <= A(left)
  <2>1. n \in Nat /\ lo \in 1..n /\ left \in 1..n
    BY <1>1, <1>5, <1>8
  <2> HIDE DEF n
  <2>2. A(left) \in Int /\ (lo < n => lo + 1 \in 1..n /\ A(lo + 1) \in Int)
    BY <1>6, <2>1
  <2>3. QED
    BY <2>1, <2>2
<1> HIDE DEF best
<1>10. ASSUME NEW j \in 1..n PROVE A(left) <= A(j)
  <2>1. /\ j \in Int /\ lo \in Int /\ n \in Int /\ 1 <= j /\ 1 <= lo /\ lo <= n
        /\ A(j) \in Int /\ A(left) \in Int /\ A(lo) \in Int /\ rs[j].ts \in Int /\ rs[lo].ts \in Int
    BY <1>1, <1>5, <1>6, <1>8
  <2>2. CASE j < lo
    <3>1. lo - 1 \in 1..n /\ lo - 1 \in 1..(lo - 1) /\ j \in 1..(lo - 1) /\ j <= lo - 1 /\ lo > 1
      <4>1. n \in Nat /\ lo \in 1..n /\ j \in 1..n
        BY <1>1, <1>5
      <4> HIDE DEF n
      <4>2. QED
        BY <2>2, <4>1
    <3>2. rs[j].ts < t /\ rs[lo - 1].ts < t /\ rs[j].ts <= rs[lo - 1].ts /\ rs[lo - 1].ts \in Int
      BY <1>1, <1>5, <1>7, <3>1
    <3>3. A(j) = t - rs[j].ts /\ A(lo - 1) = t - rs[lo - 1].ts /\ A(left) <= A(lo - 1)
      BY <1>4, <1>8, <3>1, <3>2
    <3>4. QED
      BY <2>1, <3>2, <3>3
  <2>3. CASE j = lo
    BY <1>8, <2>3
  <2>4. CASE j > lo
    <3>1. lo < n /\ lo <= j
      <4>1. n \in Nat /\ j \in 1..n
        BY <1>1
      <4> HIDE DEF n
      <4>2. QED
        BY <2>1, <2>4, <4>1
    <3>2. rs[lo].ts >= t /\ rs[lo].ts <= rs[j].ts
      BY <1>5, <1>7, <3>1
    <3>3. ~(rs[lo].ts < t) /\ ~(rs[j].ts < t)
      BY <2>1, <3>2
    <3>4. A(lo) = rs[lo].ts - t /\ A(j) = rs[j].ts - t
      BY <1>4, <1>5, <3>3
    <3>5. QED
      BY <1>8, <2>1, <3>2, <3>4
  <2>5. QED
    BY <2>1, <2>2, <2>3, <2>4
<1>11. ASSUME NEW j \in 1..n PROVE A(best) <= A(j)
  BY <1>6, <1>8, <1>9, <1>10
<1>12. QED
  BY <1>1, <1>3, <1>6, <1>9, <1>11 DEF A

(* A photo gets the record nearest in time to it, or none where even that  *)
(* is too far away (findClosest, which bisects what it takes for ordered). *)
THEOREM NearestIsFound == Spec => []FindsClosest
<1>1. ASSUME StoreInv, NEW t \in Times
      PROVE  LET distances == {Abs(r.ts - t) : r \in ToSet(records)}
                 allowed   == {d \in distances : d <= MaxDiff}
             IN /\ FindClosest(records, t) = {} <=> allowed = {}
                /\ \A r \in FindClosest(records, t) :
                      r \in ToSet(records) /\ \A d \in distances : Abs(r.ts - t) <= d
  <2> DEFINE distances == {Abs(r.ts - t) : r \in ToSet(records)}
             allowed   == {d \in distances : d <= MaxDiff}
             best      == Settled(records, t)
             A(j)      == Apart(records, j, t)
  <2>1. records \in Seq(Records) /\ OrderedSeq(records)
    BY <1>1 DEF StoreInv, InStore
  <2>2. t \in Int /\ MaxDiff \in Int
    BY StoreFacts, StoreAssumption
  <2>3. distances = {A(j) : j \in DOMAIN records}
    BY DEF Apart, ToSet
  <2>4. CASE records = <<>>
    <3>1. FindClosest(records, t) = {}
      BY <2>4 DEF FindClosest
    <3>2. DOMAIN records = {}
      BY <2>4
    <3>3. QED
      BY <2>3, <3>1, <3>2
  <2>5. CASE records # <<>>
    <3>1. best \in DOMAIN records /\ \A j \in DOMAIN records : A(j) \in Int /\ A(best) <= A(j)
      BY <2>1, <2>2, <2>5, SettledIsClosest
    <3>2. FindClosest(records, t) = IF A(best) > MaxDiff THEN {} ELSE {records[best]}
      BY <2>5 DEF FindClosest, Settled
    <3>3. Abs(records[best].ts - t) = A(best) /\ records[best] \in ToSet(records)
      BY <3>1 DEF Apart, ToSet
    <3> HIDE DEF distances, best, A
    <3>4. A(best) \in distances /\ \A d \in distances : d \in Int /\ A(best) <= d
      BY <2>3, <3>1
    <3>5. CASE A(best) > MaxDiff
      <4>1. \A d \in distances : ~(d <= MaxDiff)
        BY <2>2, <3>1, <3>4, <3>5
      <4>2. QED
        BY <3>2, <3>5, <4>1 DEF distances
    <3>6. CASE ~(A(best) > MaxDiff)
      <4>1. A(best) <= MaxDiff
        BY <2>2, <3>1, <3>6
      <4>2. A(best) \in allowed
        BY <3>4, <4>1
      <4>3. FindClosest(records, t) = {records[best]}
        BY <3>2, <3>6
      <4>4. \A r \in FindClosest(records, t) :
               r \in ToSet(records) /\ \A d \in distances : Abs(r.ts - t) <= d
        BY <3>3, <3>4, <4>3
      <4> HIDE DEF allowed
      <4>5. allowed # {} /\ FindClosest(records, t) # {}
        BY <4>2, <4>3
      <4>6. QED
        BY <4>4, <4>5 DEF allowed, distances
    <3>7. QED
      BY <3>5, <3>6
  <2>6. QED
    BY <2>4, <2>5
<1>2. StoreInv => FindsClosest
  BY <1>1 DEF FindsClosest
<1>3. QED
  BY <1>2, StoreAlways, PTL
-----------------------------------------------------------------------------
(* A rest keeps a record near its place: what a fix joins is still near    *)
(* the place of the rest, and less than a heartbeat from its begin.        *)
LEMMA OwnAnchor ==
    ASSUME NEW r \in Records, Rest(r), NEW t \in r.start..r.ts
    PROVE  Abs(r.ts - t) < Heartbeat /\ Near(r.place, r.place)
<1>1. /\ r.ts \in Nat /\ r.start \in Nat /\ r.place \in Nat
      /\ SameSpot \in Nat /\ SameSpot > 0 /\ Heartbeat \in Nat
  <2>1. r.ts \in Times /\ r.start \in Times /\ r.place \in Places
    BY StoreFacts
  <2>2. SameSpot \in Nat /\ SameSpot > 0 /\ Heartbeat \in Nat
    BY StoreFacts
  <2>3. (\A q \in Times : q \in Nat) /\ Places \subseteq Nat
    BY StoreFacts
  <2>4. r.ts \in Nat /\ r.start \in Nat /\ r.place \in Nat
    BY <2>1, <2>3
  <2>5. QED
    BY <2>2, <2>4
<1>2. t \in Int /\ t <= r.ts /\ r.start <= t
  BY <1>1
<1>3. Abs(r.ts - t) < Heartbeat
  BY <1>1, <1>2 DEF Abs, Rest
<1>4. Near(r.place, r.place)
  BY <1>1 DEF Near, Abs
<1>5. QED
  BY <1>3, <1>4

LEMMA StoreAnchors ==
    ASSUME NEW rs, InStore(rs)
    PROVE  AllAnchored(rs, rs, Heartbeat)
<1>1. rs \in Seq(Records) /\ Brief(rs)
  BY DEF InStore
<1>2. SUFFICES ASSUME NEW i \in DOMAIN rs, NEW t \in rs[i].start..rs[i].ts
               PROVE  Anchored(rs, t, rs[i].place, Heartbeat)
  BY DEF AllAnchored, ToSet
<1>3. rs[i] \in Records /\ Rest(rs[i]) /\ rs[i] \in ToSet(rs)
  BY <1>1, <1>2, SeqFacts DEF Brief, ToSet
<1>4. QED
  BY <1>2, <1>3, OwnAnchor DEF Anchored

LEMMA FixAnchors ==
    ASSUME NEW rs, InStore(rs), NEW r \in Records, Rest(r), NEW out, Taken(out, rs, r),
           Len(rs) < MaxRecords
    PROVE  AllAnchored(out, rs, Heartbeat)
<1> DEFINE n == Len(rs)
           added == Added(rs, r)
           late == Len(added) # Len(rs) /\ rs # <<>> /\ r.ts < Last(rs).ts
           new == IF late THEN Sorted(added) ELSE added
           Marked(q, i, t) == Abs(q.ts - t) < Heartbeat /\ Near(q.place, rs[i].place)
<1>1. rs \in Seq(Records) /\ OrderedSeq(rs) /\ Brief(rs)
  BY DEF InStore
<1>2. n \in Nat /\ DOMAIN rs = 1..n /\ \A i \in 1..n : rs[i] \in Records /\ Rest(rs[i])
  BY <1>1, SeqFacts DEF Brief
<1>3. /\ added \in Seq(Records) /\ Len(added) \in {n, n + 1}
      /\ Joins(added, rs, r) \/ Follows(added, rs, r)
  BY <1>1, AddedProperties, AddedParts
<1>4. DOMAIN added = 1..Len(added) /\ Len(added) \in Nat
  BY <1>3, LenProperties
<1>5. out = new
  <2>1. Len(new) = Len(added)
    <3>1. \A q \in Records : q.ts \in Int
      BY StoreFacts
    <3>2. Len(Sorted(added)) = Len(added)
      BY <1>3, <3>1, SortedProperties
    <3>3. QED
      BY <3>2
  <2>2. out = Pruned(new)
    BY DEF Taken
  <2>3. Len(added) <= MaxRecords
    <3>1. MaxRecords \in Nat /\ n < MaxRecords
      BY StoreFacts
    <3> HIDE DEF added, n
    <3>2. QED
      BY <1>2, <1>3, <3>1
  <2> HIDE DEF new, added
  <2>4. QED
    BY <2>1, <2>2, <2>3 DEF Pruned
<1> HIDE DEF added
<1>6. ASSUME NEW i \in 1..n, NEW t \in rs[i].start..rs[i].ts
      PROVE  \E k \in DOMAIN added : Marked(added[k], i, t)
  <2>1. Marked(rs[i], i, t)
    BY <1>2, <1>6, OwnAnchor
  <2>2. CASE i \in DOMAIN added /\ added[i] = rs[i]
    BY <2>1, <2>2
  <2>3. CASE ~(i \in DOMAIN added /\ added[i] = rs[i])
    <3>1. 1..n \subseteq DOMAIN added
      <4>1. n \in Nat
        BY <1>2
      <4> HIDE DEF n
      <4>2. Len(added) = n \/ Len(added) = n + 1
        BY <1>3
      <4>3. \A x \in 1..n : x \in 1..Len(added)
        BY <4>1, <4>2
      <4>4. QED
        BY <1>4, <4>3
    <3>2. Joins(added, rs, r)
      BY <1>3, <2>3, <3>1 DEF Follows
    <3>3. i = n
      <4>1. ~(i \in 1..(n - 1))
        BY <2>3, <3>1, <3>2 DEF Joins
      <4>2. n \in Nat
        BY <1>2
      <4> HIDE DEF n
      <4>3. QED
        BY <1>6, <4>1, <4>2
    <3> DEFINE l == rs[n]
    <3>4. l \in Records /\ Rest(l) /\ t \in l.start..l.ts
      BY <1>2, <1>6, <3>3
    <3>5. RunStartOf(l) = l.start
      <4>1. l.start \in Nat /\ l.start # 0 /\ l.ts \in Nat /\ l.start <= l.ts
        BY <3>4, StoreFacts DEF Rest
      <4>2. QED
        BY <4>1 DEF RunStartOf
    <3>6. /\ n \in DOMAIN added /\ added[n].ts = r.ts /\ added[n].place = l.place
          /\ r.ts > l.ts /\ r.ts - l.start < Heartbeat
      BY <1>6, <3>1, <3>2, <3>3, <3>5 DEF Joins, Continues
    <3>7. Abs(r.ts - t) < Heartbeat
      <4>1. l.start \in Nat /\ l.ts \in Nat /\ r.ts \in Nat /\ Heartbeat \in Nat
        BY <3>4, StoreFacts
      <4> HIDE DEF l
      <4>2. t \in Int /\ l.start <= t /\ t <= l.ts
        BY <3>4, <4>1
      <4>3. QED
        BY <3>6, <4>1, <4>2 DEF Abs
    <3>8. Marked(added[n], i, t)
      BY <2>1, <3>3, <3>6, <3>7
    <3>9. QED
      BY <3>6, <3>8
  <2>4. QED
    BY <2>2, <2>3
<1>7. \A k \in DOMAIN added : added[k] \in ToSet(new)
  <2>1. \A k \in DOMAIN added : added[k] \in ToSet(added)
    BY DEF ToSet
  <2>2. ASSUME NEW k \in DOMAIN added PROVE added[k] \in ToSet(Sorted(added))
    <3>1. \A q \in Records : q.ts \in Int
      BY StoreFacts
    <3>2. /\ DOMAIN Sorted(added) = DOMAIN added
          /\ \A i \in DOMAIN added : \E m \in DOMAIN added : Sorted(added)[m] = added[i]
      BY <1>3, <3>1, SortedProperties
    <3>3. PICK m \in DOMAIN added : Sorted(added)[m] = added[k]
      BY <3>2
    <3>4. QED
      BY <3>2, <3>3 DEF ToSet
  <2>3. QED
    BY <2>1, <2>2
<1>8. ASSUME NEW i \in 1..n, NEW t \in rs[i].start..rs[i].ts
      PROVE  Anchored(out, t, rs[i].place, Heartbeat)
  <2>1. PICK k \in DOMAIN added : Marked(added[k], i, t)
    BY <1>6, <1>8
  <2>2. added[k] \in ToSet(out)
    BY <1>5, <1>7
  <2>3. QED
    BY <2>1, <2>2 DEF Anchored
<1>9. QED
  BY <1>2, <1>8 DEF AllAnchored, ToSet

LEMMA LaunchAnchors ==
    ASSUME NEW rs, InStore(rs)
    PROVE  AllAnchored(Loaded(rs).records, rs, 2 * Heartbeat)
<1> DEFINE out == Loaded(rs).records
<1>1. /\ out \in Seq(Records) /\ Brief(out)
      /\ \A i \in DOMAIN rs : \A t \in rs[i].start..rs[i].ts : Held(out, t, rs[i].place)
  BY LoadedProperties DEF InStore, InFile
<1> HIDE DEF out
<1>2. SUFFICES ASSUME NEW i \in DOMAIN rs, NEW t \in rs[i].start..rs[i].ts
               PROVE  Anchored(out, t, rs[i].place, 2 * Heartbeat)
  BY DEF AllAnchored, ToSet, out
<1>3. PICK q \in DOMAIN out : /\ t <= out[q].ts /\ out[q].start - t < Heartbeat
                              /\ Near(out[q].place, rs[i].place)
  BY <1>1, <1>2 DEF Held
<1>4. out[q] \in Records /\ Rest(out[q]) /\ out[q] \in ToSet(out)
  BY <1>1, SeqFacts DEF Brief, ToSet
<1>5. out[q].ts \in Nat /\ out[q].start \in Nat /\ Heartbeat \in Nat
  BY <1>4, StoreFacts
<1>6. t \in Int
  <2>1. rs \in Seq(Records)
    BY DEF InStore
  <2>2. rs[i].start \in Nat /\ rs[i].ts \in Nat
    BY <2>1, SeqFacts, StoreFacts
  <2>3. QED
    BY <1>2, <2>2
<1>7. Abs(out[q].ts - t) < 2 * Heartbeat
  BY <1>3, <1>4, <1>5, <1>6 DEF Abs, Rest
<1>8. QED
  BY <1>3, <1>4, <1>7 DEF Anchored

(* No instant of a rest loses its place to a merge, to a fix of before, or *)
(* to the compaction of a launch (append, compact, and the sorts).         *)
THEOREM RestsKeepTheirPlace == Spec => KeepsAnchors
<1> DEFINE Kept == /\ lastFix' # {} /\ Len(records) < MaxRecords /\ Len(records) <= Len(records')
                         => AllAnchored(records', records, Heartbeat)
                   /\ records = file /\ Relaunch /\ ~failed'
                         => AllAnchored(records', records, 2 * Heartbeat)
<1>1. ASSUME StoreInv, Next PROVE Kept
  <2>1. InStore(records)
    BY <1>1 DEF StoreInv
  <2>2. AllAnchored(records, records, Heartbeat)
    BY <2>1, StoreAnchors
  <2>3. ASSUME lastFix' # {}, Len(records) < MaxRecords, Len(records) <= Len(records')
        PROVE  AllAnchored(records', records, Heartbeat)
    <3>1. CASE records' = records
      BY <2>2, <3>1
    <3>2. ASSUME NEW fix \in Fixes, HandleLocation(fix), records' # records
          PROVE  AllAnchored(records', records, Heartbeat)
      <4>1. NewRecord(fix) \in Records /\ Rest(NewRecord(fix)) /\ Taken(records', records, NewRecord(fix))
        BY <1>1, <3>2, HandledParts, NewRecordProperties
      <4>2. QED
        BY <2>1, <2>3, <4>1, FixAnchors
    <3>3. ASSUME NEW d \in Days, DeleteDay(d) PROVE FALSE
      <4>1. Len(records') < Len(records)
        BY <2>1, <3>3, WithoutProperties DEF DeleteDay
      <4>2. Len(records') \in Nat /\ Len(records) \in Nat
        <5>1. InStore(records')
          BY <2>1, <3>3, WithoutProperties DEF DeleteDay
        <5>2. QED
          BY <2>1, <5>1, LenProperties DEF InStore
      <4>3. QED
        BY <2>3, <4>1, <4>2
    <3>4. Relaunch => lastFix' = {}
      BY DEF Relaunch, Launch
    <3>5. QED
      BY <1>1, <2>3, <3>1, <3>2, <3>3, <3>4
         DEF Next, EnsureDailyCache, DoStart, Stop, TimerFires
  <2>4. ASSUME records = file, Relaunch, ~failed' PROVE AllAnchored(records', records, 2 * Heartbeat)
    <3>1. records' = Loaded(records).records
      BY <2>4 DEF Relaunch, Launch
    <3>2. QED
      BY <2>1, <3>1, LaunchAnchors
  <2>5. QED
    BY <2>3, <2>4
<1>2. StoreInv /\ [Next]_vars => [Kept]_vars
  BY <1>1
<1>3. QED
  <2>1. StoreInv /\ [Next]_vars => [Kept]_vars
    BY <1>2
  <2>2. QED
    BY <2>1, StoreAlways, PTL DEF Spec, KeepsAnchors
-----------------------------------------------------------------------------
(* The second half of the recorder, GpsRecorder: for every number of       *)
(* overlapping calls, with every failure allowed, the types, that it is    *)
(* subscribed exactly while it says it is running, and at the frequency    *)
(* chosen last, that it has its task while it runs, and stays off once     *)
(* switched off.  The argument: only doStart subscribes; there is one      *)
(* doStart at a time, guarded by startPromise; until it subscribes nothing *)
(* else can set running; and a change of the frequency that finds it       *)
(* running leaves a call that will restart it.  Likewise, whatever the     *)
(* switch or the task still lacks has a call under way that will see to it *)
(* (WishInv).                                                              *)

(* What every piece of code leaves of the record.  The last conjunct is    *)
(* the room the bound NumSubs keeps for the next subscription.             *)
Sound(g) ==
    /\ g \in Recorders
    /\ g.running <=> g.callback # 0
    /\ g.callback # 0 => g.callback \in IdsOf(g.subscribed)
    /\ ~g.failed => IdsOf(g.subscribed) \subseteq {g.callback}
    /\ ~g.running => IdsOf(g.subscribed) # Subs

(* The callback is registered at the frequency chosen last.                *)
Chosen(g) == g.callback # 0 => \E s \in g.subscribed : s.id = g.callback /\ s.mode = g.mode

(* What the code outside stop and doStart leaves as it is.                 *)
SameRun(g, h) == h.running = g.running /\ h.starting = g.starting
                 /\ (Chosen(g) => Chosen(h))

LEMMA SavedSound ==
    ASSUME NEW g, Sound(g), NEW h \in Saved(g)
    PROVE  Sound(h) /\ SameRun(g, h)
<1>1. [mode |-> g.mode, running |-> g.running] \in Settings
  BY DEF Sound, Recorders, Settings
<1>2. h = [g EXCEPT !.failed = TRUE]
      \/ h = [g EXCEPT !.stored = [mode |-> g.mode, running |-> g.running]]
  BY DEF Saved, OrFails
<1>3. QED
  BY <1>1, <1>2 DEF Sound, Recorders, SameRun, Chosen

LEMMA TaskSound ==
    ASSUME NEW g, Sound(g), NEW h \in Requested(g) \cup Cancelled(g)
    PROVE  Sound(h) /\ SameRun(g, h)
<1>1. h = [g EXCEPT !.failed = TRUE] \/ \E b \in BOOLEAN : h = [g EXCEPT !.task = b]
  BY DEF Requested, Cancelled, OrFails
<1>2. QED
  BY <1>1 DEF Sound, Recorders, SameRun, Chosen

LEMMA StoppedSound ==
    ASSUME NEW g, Sound(g), NEW h \in Stopped(g)
    PROVE  Sound(h) /\ ~h.running /\ h.starting = g.starting /\ Chosen(h)
<1> DEFINE off == [g EXCEPT !.subscribed = {s \in g.subscribed : s.id # g.callback}]
<1>1. PICK u \in Unsubscribed(g) : h \in Saved([u EXCEPT !.running = FALSE, !.callback = 0])
  BY DEF Stopped
<1> DEFINE k == [u EXCEPT !.running = FALSE, !.callback = 0]
<1>2. u = off \/ (u = [g EXCEPT !.failed = TRUE] /\ IdsOf(g.subscribed) # Subs)
  BY DEF Unsubscribed, OrFails
<1>3. Sound(k) /\ ~k.running /\ k.starting = g.starting
  <2>1. CASE u = [g EXCEPT !.failed = TRUE] /\ IdsOf(g.subscribed) # Subs
    BY <2>1 DEF Sound, Recorders
  <2>2. CASE u = off
    <3>1. off \in Recorders /\ off.starting = g.starting
      BY DEF Sound, Recorders
    <3>2. off.subscribed = {s \in g.subscribed : s.id # g.callback}
      BY DEF Sound, Recorders
    <3>3. k \in Recorders /\ ~k.running /\ k.callback = 0 /\ k.starting = g.starting
          /\ k.subscribed = off.subscribed /\ k.failed = g.failed
      BY <2>2, <3>1 DEF Recorders
    <3>4. ~k.failed => IdsOf(k.subscribed) \subseteq {0}
      BY <3>2, <3>3 DEF Sound, IdsOf
    <3>5. IdsOf(k.subscribed) # Subs
      <4>1. CASE g.callback = 0
        <5>1. IdsOf(k.subscribed) \subseteq IdsOf(g.subscribed)
          BY <3>2, <3>3 DEF IdsOf
        <5>2. IdsOf(g.subscribed) \subseteq Subs /\ IdsOf(g.subscribed) # Subs
          BY <4>1 DEF Sound, Recorders, IdsOf
        <5>3. QED
          BY <5>1, <5>2
      <4>2. CASE g.callback # 0
        <5>1. g.callback \in Subs
          BY <4>2 DEF Sound, Recorders
        <5>2. g.callback \notin IdsOf(k.subscribed)
          BY <3>2, <3>3 DEF IdsOf
        <5>3. QED
          BY <5>1, <5>2
      <4>3. QED
        BY <4>1, <4>2
    <3>6. QED
      BY <3>3, <3>4, <3>5 DEF Sound
  <2>3. QED
    BY <1>2, <2>1, <2>2
<1> HIDE DEF k
<1>4. Sound(h) /\ ~h.running /\ h.starting = g.starting
  BY <1>1, <1>3, SavedSound DEF k, SameRun
<1>5. QED
  BY <1>4 DEF Sound, Chosen

LEMMA SubscribedSound ==
    ASSUME NEW g, Sound(g), ~g.running, NEW h \in Subscribed(g)
    PROVE  Sound(h) /\ h.starting = g.starting /\ Chosen(h)
<1> DEFINE id == AnyOf(Subs \ IdsOf(g.subscribed))
           n  == [id |-> id, mode |-> g.mode]
           k  == [g EXCEPT !.callback = id, !.running = TRUE,
                           !.subscribed = g.subscribed \cup {n}]
<1>1. IdsOf(g.subscribed) \subseteq Subs /\ IdsOf(g.subscribed) # Subs
  BY DEF Sound, Recorders, IdsOf
<1>2. id \in Subs
  BY <1>1 DEF AnyOf
<1>3. id # 0
  BY <1>2, RecorderAssumption DEF Subs
<1>4. h \in Saved(k)
  BY DEF Subscribed, Sound, Recorders
<1> HIDE DEF id
<1>5. n \in [id : Subs, mode : Modes]
  BY <1>2 DEF Sound, Recorders
<1> HIDE DEF n
<1>6. k \in Recorders /\ k.running /\ k.callback = id /\ k.starting = g.starting
      /\ k.subscribed = g.subscribed \cup {n} /\ k.failed = g.failed /\ k.mode = g.mode
  BY <1>2, <1>5 DEF Sound, Recorders
<1>7. IdsOf(k.subscribed) = IdsOf(g.subscribed) \cup {id}
  <2>1. n.id = id
    BY DEF n
  <2>2. QED
    BY <1>6, <2>1 DEF IdsOf
<1>8. ~g.failed => IdsOf(g.subscribed) = {}
  <2>1. IdsOf(g.subscribed) \subseteq Subs /\ 0 \notin Subs
    BY <1>1, RecorderAssumption DEF Subs
  <2>2. QED
    BY <2>1 DEF Sound
<1>9. Sound(k) /\ Chosen(k)
  <2>1. n.id = id /\ n.mode = g.mode
    BY DEF n
  <2>2. QED
    BY <2>1, <1>3, <1>6, <1>7, <1>8 DEF Sound, Chosen
<1> HIDE DEF k
<1>10. QED
  BY <1>4, <1>6, <1>9, SavedSound DEF SameRun

LEMMA NotSubscribedSound ==
    ASSUME NEW g, Sound(g), ~g.running, NEW h \in NotSubscribed(g)
    PROVE  Sound(h) /\ ~h.running /\ h.starting = g.starting /\ Chosen(h)
<1> DEFINE k == [g EXCEPT !.callback = 0, !.running = FALSE]
<1>1. Sound(k) /\ ~k.running /\ k.starting = g.starting /\ Chosen(k)
  BY DEF Sound, Recorders, Chosen
<1>2. h \in Saved(k)
  BY DEF NotSubscribed
<1> HIDE DEF k
<1>3. QED
  BY <1>1, <1>2, SavedSound DEF SameRun
-----------------------------------------------------------------------------
(* A call that is inside doStart owns it.                                  *)
Owns(r) == r.at \in {"permission", "agent", "background"}
(* One call owns doStart at a time, startPromise is set while one does,    *)
(* and nothing is running before it has subscribed.                        *)
CallsOK(g, calls) ==
    /\ calls \in [Callers -> Calls]
    /\ \A c, d \in Callers : Owns(calls[c]) /\ Owns(calls[d]) => c = d
    /\ \A c \in Callers : Owns(calls[c]) => g.starting
    /\ \A c \in Callers : calls[c].at = "permission" => ~g.running

(* The frequency is the chosen one unless a call of S is about to restart. *)
Obeys(g, calls, S) == Chosen(g) \/ \E c \in S : calls[c].at = "cancel"

Inductive ==
    /\ Sound(gps) /\ CallsOK(gps, call) /\ Obeys(gps, call, Callers)
    /\ wanted \in Wishes

LEMMA IdleCall == Idle \in Calls /\ ~Owns(Idle) /\ Idle.at = "idle"
BY DEF Idle, Calls, CallPlaces, Owns

LEMMA StopStep ==
    ASSUME NEW g, Sound(g), NEW others, CallsOK(g, others),
           NEW who \in SUBSET Callers, who # {}, \A c \in who : ~Owns(others[c]),
           StopRecorder(who, g, others)
    PROVE  Sound(gps') /\ CallsOK(gps', call') /\ Obeys(gps', call', Callers)
<1>1. CASE /\ gps' \in Cancelled(g)
           /\ call' = [c \in Callers |->
                         IF c \in who THEN [others[c] EXCEPT !.at = "cancel"] ELSE others[c]]
  <2>1. Sound(gps') /\ SameRun(g, gps')
    BY <1>1, TaskSound
  <2>2. \A c \in Callers : /\ call'[c] \in Calls
                           /\ Owns(call'[c]) => call'[c] = others[c]
                           /\ call'[c].at = "permission" => call'[c] = others[c]
    BY <1>1 DEF CallsOK, Calls, CallPlaces, Owns
  <2>3. call' \in [Callers -> Calls]
    BY <1>1, <2>2
  <2>4. \A c \in who : call'[c].at = "cancel"
    BY <1>1 DEF CallsOK, Calls
  <2>5. QED
    BY <2>1, <2>2, <2>3, <2>4 DEF CallsOK, SameRun, Obeys
<1>2. CASE /\ gps' \in Stopped(g)
           /\ call' = [c \in Callers |-> IF c \in who THEN Idle ELSE others[c]]
  <2>1. Sound(gps') /\ ~gps'.running /\ gps'.starting = g.starting /\ Chosen(gps')
    BY <1>2, StoppedSound
  <2>2. \A c \in Callers : call'[c] \in Calls /\ (Owns(call'[c]) => call'[c] = others[c])
    BY <1>2, IdleCall DEF CallsOK
  <2>3. call' \in [Callers -> Calls]
    BY <1>2, <2>2
  <2>4. QED
    BY <2>1, <2>2, <2>3 DEF CallsOK, Obeys
<1>3. QED
  BY <1>1, <1>2 DEF StopRecorder

LEMMA SettleStep ==
    ASSUME NEW g, Sound(g), call \in [Callers -> Calls], NEW c \in Callers,
           \A d \in Callers \ {c} : ~Owns(call[d]), Obeys(g, call, Callers \ {c}),
           Settle(c, g)
    PROVE  Sound(gps') /\ CallsOK(gps', call') /\ Obeys(gps', call', Callers)
<1> DEFINE joined  == {d \in Callers \ {c} : call[d].at = "joined"}
           waiting == {d \in Callers \ {c} : call[d].at = "waiting"}
           others  == [d \in Callers |-> IF d \in joined \cup {c} THEN Idle ELSE call[d]]
           settled == [g EXCEPT !.starting = FALSE]
<1>1. Sound(settled) /\ (Chosen(g) => Chosen(settled))
  BY DEF Sound, Recorders, Chosen
<1>2. \A d \in Callers : others[d] \in Calls /\ ~Owns(others[d])
  BY IdleCall
<1>3. others \in [Callers -> Calls]
  BY <1>2
<1>4. \A d \in Callers : others[d].at # "permission"
  BY <1>2 DEF Owns
<1>5. \/ waiting # {} /\ StopRecorder(waiting, settled, others)
      \/ gps' = settled /\ call' = others
  BY DEF Settle
<1>6. \A d \in Callers \ {c} : call[d].at = "cancel" => others[d] = call[d]
  OBVIOUS
<1>7. waiting \in SUBSET Callers
  OBVIOUS
<1> HIDE DEF joined, waiting, others, settled
<1>8. CallsOK(settled, others)
  BY <1>2, <1>3, <1>4 DEF CallsOK
<1>9. CASE waiting # {} /\ StopRecorder(waiting, settled, others)
  BY <1>1, <1>2, <1>7, <1>8, <1>9, StopStep
<1>10. CASE gps' = settled /\ call' = others
  BY <1>1, <1>6, <1>8, <1>10 DEF Obeys
<1>11. QED
  BY <1>5, <1>9, <1>10

LEMMA WaitStep ==
    ASSUME NEW g, call \in [Callers -> Calls], NEW c \in Callers, NEW o \in Ops \cup {"none"},
           NEW place \in CallPlaces, WaitAt(c, o, place)
    PROVE  /\ call' \in [Callers -> Calls]
           /\ call'[c].at = place
           /\ \A d \in Callers \ {c} : call'[d] = call[d]
BY DEF WaitAt, Calls

LEMMA AttemptStep ==
    ASSUME NEW g, Sound(g), ~g.running, g.starting, call \in [Callers -> Calls],
           NEW c \in Callers, \A d \in Callers \ {c} : ~Owns(call[d]),
           Obeys(g, call, Callers \ {c}),
           NEW o \in Ops \cup {"none"}, NEW wish \in Wishes, Attempt(c, o, g, wish)
    PROVE  Inductive'
<1>1. CASE /\ wanted' = IF wish = "off" THEN wish ELSE "unmet"
           /\ \E h \in {g} \cup NotSubscribed(g) : Settle(c, h)
  <2>1. PICK h \in {g} \cup NotSubscribed(g) : Settle(c, h)
    BY <1>1
  <2>2. Sound(h) /\ Obeys(h, call, Callers \ {c})
    BY NotSubscribedSound DEF Obeys
  <2>3. Sound(gps') /\ CallsOK(gps', call') /\ Obeys(gps', call', Callers)
    BY <2>1, <2>2, SettleStep
  <2>4. QED
    BY <1>1, <2>3 DEF Inductive, Wishes
<1>2. CASE /\ gps' \in Subscribed(g)
           /\ WaitAt(c, o, "agent") /\ wanted' = wish
  <2>1. Sound(gps') /\ gps'.starting /\ Chosen(gps')
    BY <1>2, SubscribedSound
  <2>2. /\ call' \in [Callers -> Calls] /\ call'[c].at = "agent"
        /\ \A d \in Callers \ {c} : call'[d] = call[d]
    BY <1>2, WaitStep DEF CallPlaces
  <2>3. CallsOK(gps', call')
    BY <2>1, <2>2 DEF CallsOK, Owns
  <2>4. QED
    BY <1>2, <2>1, <2>3 DEF Inductive, Obeys
<1>3. QED
  BY <1>1, <1>2 DEF Attempt

LEMMA StartStep ==
    ASSUME NEW g, Sound(g), CallsOK(g, call), NEW c \in Callers, ~Owns(call[c]),
           Obeys(g, call, Callers \ {c}),
           NEW o \in Ops, NEW wish \in Wishes, Start(c, o, g, wish)
    PROVE  Inductive'
<1> USE DEF CallsOK
<1>1. CASE g.running /\ gps' = g /\ WaitAt(c, "none", "idle") /\ wanted' = wish
  <2>1. /\ call' \in [Callers -> Calls] /\ call'[c].at = "idle"
        /\ \A d \in Callers \ {c} : call'[d] = call[d]
    BY <1>1, WaitStep DEF CallPlaces
  <2>2. QED
    BY <1>1, <2>1 DEF Inductive, Owns, Obeys
<1>2. CASE gps' = g /\ WaitAt(c, o, "joined") /\ wanted' = wish
  <2>1. /\ call' \in [Callers -> Calls] /\ call'[c].at = "joined"
        /\ \A d \in Callers \ {c} : call'[d] = call[d]
    BY <1>2, WaitStep DEF CallPlaces
  <2>2. QED
    BY <1>2, <2>1 DEF Inductive, Owns, Obeys
<1>3. CASE /\ ~g.running /\ ~g.starting
           /\ gps' = [g EXCEPT !.starting = TRUE]
           /\ WaitAt(c, o, "permission") /\ wanted' = wish
  <2>1. /\ call' \in [Callers -> Calls] /\ call'[c].at = "permission"
        /\ \A d \in Callers \ {c} : call'[d] = call[d]
    BY <1>3, WaitStep DEF CallPlaces
  <2>2. Sound(gps') /\ gps'.starting /\ ~gps'.running /\ Chosen(gps')
    BY <1>3 DEF Sound, Recorders, Chosen
  <2>3. QED
    BY <1>3, <2>1, <2>2 DEF Inductive, Owns, Obeys
<1>4. CASE ~g.running /\ ~g.starting /\ Attempt(c, o, [g EXCEPT !.starting = TRUE], wish)
  <2> DEFINE k == [g EXCEPT !.starting = TRUE]
  <2>1. Sound(k) /\ k.starting /\ ~k.running /\ Chosen(k)
    BY <1>4 DEF Sound, Recorders, Chosen
  <2>2. Attempt(c, o, k, wish)
    BY <1>4
  <2>3. \A d \in Callers \ {c} : ~Owns(call[d])
    BY <1>4
  <2> HIDE DEF k
  <2>4. Obeys(k, call, Callers \ {c})
    BY <2>1 DEF Obeys
  <2>5. QED
    BY <2>1, <2>2, <2>3, <2>4, AttemptStep
<1>5. QED
  BY <1>1, <1>2, <1>3, <1>4 DEF Start
-----------------------------------------------------------------------------
LEMMA RelaunchStep ==
    ASSUME Inductive, NEW c \in Callers, RelaunchRecorder(c)
    PROVE  Inductive'
<1> DEFINE saved == gps.stored
<1>1. saved \in Settings
  BY DEF Inductive, Sound, Recorders
<1>2. gps' = [Launched(saved) EXCEPT !.starting = saved.running]
  BY DEF RelaunchRecorder
<1> HIDE DEF saved
<1>3. gps' \in Recorders /\ ~gps'.running /\ gps'.callback = 0 /\ gps'.subscribed = {}
      /\ gps'.starting = saved.running
  BY <1>1, <1>2 DEF Launched, Recorders, Settings
<1>4. IdsOf({}) = {} /\ Subs # {}
  BY RecorderAssumption DEF IdsOf, Subs
<1>5. Sound(gps')
  BY <1>3, <1>4 DEF Sound
<1>6. \A d \in Callers : /\ call'[d] \in Calls
                         /\ Owns(call'[d]) => d = c /\ saved.running
  BY DEF RelaunchRecorder, Idle, Calls, CallPlaces, Ops, Owns, saved
<1>7. call' \in [Callers -> Calls]
  BY <1>6 DEF RelaunchRecorder
<1>8. wanted' \in Wishes
  BY DEF RelaunchRecorder, Wishes
<1>9. Obeys(gps', call', Callers)
  BY <1>3 DEF Obeys, Chosen
<1>10. QED
  BY <1>3, <1>5, <1>6, <1>7, <1>8, <1>9 DEF Inductive, CallsOK

LEMMA SetGpsModeStep ==
    ASSUME Inductive, NEW c \in Callers, SetGpsMode(c)
    PROVE  Inductive'
<1>1. PICK m \in Modes : \E g \in Saved([gps EXCEPT !.mode = m]) :
        \/ StopRecorder({c}, g, [call EXCEPT ![c].op = "mode"])
        \/ ~gps.running /\ gps' = g /\ UNCHANGED call
  BY DEF SetGpsMode
<1> DEFINE k == [gps EXCEPT !.mode = m]
<1>2. PICK g \in Saved(k) :
        \/ StopRecorder({c}, g, [call EXCEPT ![c].op = "mode"])
        \/ ~gps.running /\ gps' = g /\ UNCHANGED call
  BY <1>1
<1>3. Sound(k) /\ k.running = gps.running /\ k.starting = gps.starting
  BY DEF Inductive, Sound, Recorders
<1> HIDE DEF k
<1>4. Sound(g) /\ g.running = gps.running /\ g.starting = gps.starting
  BY <1>2, <1>3, SavedSound DEF SameRun
<1>5. wanted' \in Wishes
  BY DEF SetGpsMode, Inductive
<1>6. CASE StopRecorder({c}, g, [call EXCEPT ![c].op = "mode"])
  <2> DEFINE others == [call EXCEPT ![c].op = "mode"]
  <2>1. others[c].at = "idle" /\ others \in [Callers -> Calls]
        /\ \A d \in Callers \ {c} : others[d] = call[d]
    BY DEF SetGpsMode, Idle, Inductive, CallsOK, Calls, CallPlaces, Ops
  <2> HIDE DEF others
  <2>2. CallsOK(g, others)
    BY <1>4, <2>1 DEF Inductive, CallsOK, Owns
  <2>3. StopRecorder({c}, g, others)
    BY <1>6 DEF others
  <2>4. ~Owns(others[c])
    BY <2>1 DEF Owns
  <2>5. Sound(gps') /\ CallsOK(gps', call') /\ Obeys(gps', call', Callers)
    BY <1>4, <2>2, <2>3, <2>4, StopStep
  <2>6. QED
    BY <1>5, <2>5 DEF Inductive
<1>7. CASE ~gps.running /\ gps' = g /\ UNCHANGED call
  <2>1. Chosen(gps')
    BY <1>4, <1>7 DEF Sound, Chosen
  <2>2. QED
    BY <1>4, <1>5, <1>7, <2>1 DEF Inductive, CallsOK, Obeys
<1>8. QED
  BY <1>2, <1>6, <1>7

LEMMA ToggleOffStep ==
    ASSUME Inductive, NEW c \in Callers, ToggleOff(c)
    PROVE  Inductive'
<1>1. wanted' \in Wishes
  BY DEF ToggleOff, Wishes
<1>2. call[c].at = "idle"
  BY DEF ToggleOff, Idle
<1>3. CASE WaitAt(c, "off", "waiting") /\ UNCHANGED gps
  <2>1. /\ call' \in [Callers -> Calls] /\ call'[c].at = "waiting"
        /\ \A d \in Callers \ {c} : call'[d] = call[d]
    BY <1>3, WaitStep DEF CallPlaces, Ops, Inductive, CallsOK
  <2>2. QED
    BY <1>1, <1>2, <1>3, <2>1 DEF Inductive, CallsOK, Owns, Obeys
<1>4. CASE StopRecorder({c}, gps, [call EXCEPT ![c].op = "off"])
  <2> DEFINE others == [call EXCEPT ![c].op = "off"]
  <2>1. others[c].at = "idle" /\ others \in [Callers -> Calls]
        /\ \A d \in Callers \ {c} : others[d] = call[d]
    BY <1>2 DEF Inductive, CallsOK, Calls, CallPlaces, Ops
  <2> HIDE DEF others
  <2>2. CallsOK(gps, others)
    BY <2>1 DEF Inductive, CallsOK, Owns
  <2>3. StopRecorder({c}, gps, others)
    BY <1>4 DEF others
  <2>4. ~Owns(others[c])
    BY <2>1 DEF Owns
  <2>5. Sound(gps') /\ CallsOK(gps', call') /\ Obeys(gps', call', Callers)
    BY <2>2, <2>3, <2>4, StopStep DEF Inductive
  <2>6. QED
    BY <1>1, <2>5 DEF Inductive
<1>5. QED
  BY <1>3, <1>4 DEF ToggleOff

LEMMA ContinueStep ==
    ASSUME Inductive, NEW c \in Callers, Continue(c)
    PROVE  Inductive'
<1>1. call \in [Callers -> Calls] /\ call[c] \in Calls /\ call[c].op \in Ops \cup {"none"}
  BY DEF Inductive, CallsOK, Calls
<1>2. Owns(call[c]) => gps.starting /\ \A d \in Callers \ {c} : ~Owns(call[d])
  BY DEF Inductive, CallsOK
<1>3. Owns(call[c]) => Obeys(gps, call, Callers \ {c})
  BY DEF Inductive, Obeys, Owns
<1>4. CASE Permission(c)
  <2>1. Owns(call[c]) /\ ~gps.running
    BY <1>4 DEF Permission, Owns, Inductive, CallsOK
  <2>2. CASE Attempt(c, call[c].op, [gps EXCEPT !.permitted = TRUE], wanted)
    <3> DEFINE k == [gps EXCEPT !.permitted = TRUE]
    <3>1. Sound(k) /\ k.starting /\ ~k.running /\ Chosen(k)
      BY <1>2, <2>1 DEF Inductive, Sound, Recorders, Chosen
    <3>2. Attempt(c, call[c].op, k, wanted)
      BY <2>2
    <3> HIDE DEF k
    <3>3. Obeys(k, call, Callers \ {c})
      BY <3>1 DEF Obeys
    <3>4. QED
      BY <1>1, <1>2, <2>1, <3>1, <3>2, <3>3, AttemptStep DEF Inductive
  <2>3. CASE /\ Settle(c, gps)
             /\ wanted' = IF wanted = "off" THEN wanted ELSE "unmet"
    BY <1>1, <1>2, <1>3, <2>1, <2>3, SettleStep DEF Inductive, Wishes
  <2>4. QED
    BY <1>4, <2>2, <2>3 DEF Permission
<1>5. CASE WantAgent(c)
  <2>1. Owns(call[c]) /\ wanted' = wanted
    BY <1>5 DEF WantAgent, Owns
  <2>2. CASE /\ gps' \in Requested(gps)
             /\ WaitAt(c, call[c].op, "background")
    <3>1. Sound(gps') /\ SameRun(gps, gps')
      BY <2>2, TaskSound DEF Inductive
    <3>2. /\ call' \in [Callers -> Calls] /\ call'[c].at = "background"
          /\ \A d \in Callers \ {c} : call'[d] = call[d]
      BY <1>1, <2>2, WaitStep DEF CallPlaces
    <3>3. Obeys(gps', call', Callers)
      BY <1>3, <2>1, <3>1, <3>2 DEF Obeys, SameRun
    <3>4. QED
      BY <1>2, <2>1, <2>2, <3>1, <3>2, <3>3 DEF Inductive, CallsOK, SameRun, Owns
  <2>3. CASE Settle(c, [gps EXCEPT !.failed = TRUE])
    <3> DEFINE k == [gps EXCEPT !.failed = TRUE]
    <3>1. Sound(k) /\ (Chosen(gps) => Chosen(k))
      BY DEF Inductive, Sound, Recorders, Chosen
    <3>2. Settle(c, k)
      BY <2>3
    <3> HIDE DEF k
    <3>3. Obeys(k, call, Callers \ {c})
      BY <1>3, <2>1, <3>1 DEF Obeys
    <3>4. QED
      BY <1>1, <1>2, <2>1, <3>1, <3>2, <3>3, SettleStep DEF Inductive
  <2>4. QED
    BY <1>5, <2>2, <2>3 DEF WantAgent
<1>6. CASE BackgroundRunning(c)
  <2>1. Owns(call[c]) /\ wanted' = wanted /\ Settle(c, gps)
    BY <1>6 DEF BackgroundRunning, Owns
  <2>2. QED
    BY <1>1, <1>2, <1>3, <2>1, SettleStep DEF Inductive
<1>7. CASE TaskCancelled(c)
  <2> DEFINE wish == IF wanted = "off" THEN "overtaken" ELSE wanted
  <2>1. PICK g \in Stopped(gps) :
          \/ Start(c, "mode", g, wish)
          \/ gps' = g /\ WaitAt(c, "none", "idle") /\ UNCHANGED wanted
    BY <1>7 DEF TaskCancelled
  <2>2. Sound(g) /\ ~g.running /\ g.starting = gps.starting /\ Chosen(g)
    BY <2>1, StoppedSound DEF Inductive
  <2>3. CallsOK(g, call) /\ ~Owns(call[c])
    BY <1>7, <2>2 DEF Inductive, CallsOK, TaskCancelled, Owns
  <2>4. wish \in Wishes
    BY DEF Inductive, Wishes
  <2> HIDE DEF wish
  <2>5. CASE Start(c, "mode", g, wish)
    <3>1. Obeys(g, call, Callers \ {c})
      BY <2>2 DEF Obeys
    <3>2. QED
      BY <2>2, <2>3, <2>4, <2>5, <3>1, StartStep DEF Ops
  <2>6. CASE gps' = g /\ WaitAt(c, "none", "idle") /\ UNCHANGED wanted
    <3>1. /\ call' \in [Callers -> Calls] /\ call'[c].at = "idle"
          /\ \A d \in Callers \ {c} : call'[d] = call[d]
      BY <1>1, <2>6, WaitStep DEF CallPlaces
    <3>2. QED
      BY <2>2, <2>3, <2>6, <3>1 DEF Inductive, CallsOK, Owns, Obeys
  <2>7. QED
    BY <2>1, <2>5, <2>6
<1>8. QED
  BY <1>4, <1>5, <1>6, <1>7 DEF Continue

LEMMA InitInductive == RecorderInit => Inductive
<1> SUFFICES ASSUME RecorderInit PROVE Inductive
  OBVIOUS
<1>1. PICK saved \in Unstored : gps = Launched(saved)
  BY DEF RecorderInit
<1>2. saved \in Settings
  <2>1. PICK m \in Modes : saved = [mode |-> m, running |-> FALSE]
    BY <1>1 DEF Unstored
  <2>2. QED
    BY <2>1 DEF Settings
<1>3. gps \in Recorders /\ ~gps.running /\ gps.callback = 0 /\ gps.subscribed = {}
  BY <1>1, <1>2 DEF Launched, Recorders, Settings
<1>4. IdsOf({}) = {} /\ Subs # {}
  BY RecorderAssumption DEF IdsOf, Subs
<1>5. Sound(gps)
  BY <1>3, <1>4 DEF Sound
<1>6. CallsOK(gps, call)
  BY IdleCall DEF RecorderInit, CallsOK
<1>7. Obeys(gps, call, Callers)
  BY <1>3 DEF Obeys, Chosen
<1>8. QED
  BY <1>5, <1>6, <1>7 DEF RecorderInit, Inductive, Wishes

LEMMA NextInductive == Inductive /\ [RecorderNext]_recorderVars => Inductive'
<1> SUFFICES ASSUME Inductive, [RecorderNext]_recorderVars PROVE Inductive'
  OBVIOUS
<1>1. ASSUME NEW c \in Callers, ToggleOn(c) PROVE Inductive'
  <2>1. ~Owns(call[c]) /\ Start(c, "on", gps, "on")
    BY <1>1 DEF ToggleOn, Idle, Owns
  <2>2. Obeys(gps, call, Callers \ {c})
    BY <1>1 DEF Inductive, Obeys, ToggleOn, Idle
  <2>3. QED
    BY <2>1, <2>2, StartStep DEF Inductive, Ops, Wishes
<1>2. CASE UNCHANGED recorderVars
  BY <1>2 DEF recorderVars, Inductive, CallsOK, Sound, Obeys, Chosen
<1>3. QED
  BY <1>1, <1>2, ToggleOffStep, SetGpsModeStep, RelaunchStep, ContinueStep DEF RecorderNext

LEMMA AlwaysInductive == RecorderSpec => []Inductive
BY InitInductive, NextInductive, PTL DEF RecorderSpec

(* Whatever calls overlap and whatever fails, the recorder, its calls and  *)
(* what the system holds keep their types.                                 *)
THEOREM RecorderTypes == RecorderSpec => []RecorderTypeOK
<1>1. Inductive => RecorderTypeOK
  BY DEF Inductive, RecorderTypeOK, Sound, CallsOK, Wishes
<1>2. QED
  BY <1>1, AlwaysInductive, PTL

(* The page never shows a recorder that no location reaches, nor is one    *)
(* left recording behind a switch that is off; and unless off itself fails *)
(* no fix is recorded twice.                                               *)
THEOREM SubscribedExactlyWhileRunning == RecorderSpec => []SubscribedWhileRunning
<1>1. Inductive => SubscribedWhileRunning
  <2>1. Sound(gps) => gps.callback # 0 \/ gps.callback \notin IdsOf(gps.subscribed)
    BY RecorderAssumption DEF Sound, Recorders, IdsOf, Subs
  <2>2. QED
    BY <2>1 DEF Inductive, Sound, SubscribedWhileRunning
<1>2. QED
  BY <1>1, AlwaysInductive, PTL

(* Whatever changes of the frequency, starts and stops overlap, a running  *)
(* recorder records at the frequency chosen last, except while a restart   *)
(* is waiting for the background task to end.                              *)
THEOREM ChosenModeFollowed == RecorderSpec => []RecordsAtChosenMode
<1>1. Inductive => RecordsAtChosenMode
  BY DEF Inductive, Sound, Obeys, Chosen, RecordsAtChosenMode
<1>2. QED
  BY <1>1, AlwaysInductive, PTL
-----------------------------------------------------------------------------
(* What the switch and the background task rely on.  A running recorder    *)
(* without the task is on its way to asking for it, or to stop; and when   *)
(* the switch is off, a start under way has a call waiting for it, and     *)
(* what runs or is stored as running a call that will stop it.             *)
At(calls, places) == \E c \in Callers : calls[c].at \in places
TaskKept(g, calls) == g.running /\ ~g.failed /\ ~g.task => At(calls, {"agent", "cancel"})
OffKept(g, calls) ==
    /\ g.starting => At(calls, {"waiting"})
    /\ g.running \/ (~g.failed /\ g.stored.running) => At(calls, {"waiting", "cancel"})
WishInv == TaskKept(gps, call) /\ (wanted = "off" => OffKept(gps, call))

(* Not running, and not stored as running if it could be stored.           *)
Rests(g) == ~g.running /\ (~g.failed => ~g.stored.running)

LEMMA SavedRests ==
    ASSUME NEW g, Sound(g), NEW h \in Saved(g)
    PROVE  /\ h.running = g.running /\ h.starting = g.starting /\ h.task = g.task
           /\ ~h.failed => ~g.failed /\ h.stored.running = g.running
<1>1. h = [g EXCEPT !.failed = TRUE]
      \/ h = [g EXCEPT !.stored = [mode |-> g.mode, running |-> g.running]]
  BY DEF Saved, OrFails
<1>2. QED
  BY <1>1 DEF Sound, Recorders

LEMMA StoppedRests ==
    ASSUME NEW g, Sound(g), NEW h \in Stopped(g)
    PROVE  Rests(h) /\ h.starting = g.starting
<1>1. PICK u \in Unsubscribed(g) : h \in Saved([u EXCEPT !.running = FALSE, !.callback = 0])
  BY DEF Stopped
<1> DEFINE k == [u EXCEPT !.running = FALSE, !.callback = 0]
<1>2. u \in Recorders
  BY <1>1 DEF Unsubscribed, OrFails, Sound, Recorders
<1>3. h = [k EXCEPT !.failed = TRUE]
      \/ h = [k EXCEPT !.stored = [mode |-> k.mode, running |-> k.running]]
  BY <1>1 DEF Saved, OrFails
<1>4. k \in Recorders /\ ~k.running
  BY <1>2 DEF Recorders
<1> HIDE DEF k
<1>5. Rests(h)
  BY <1>3, <1>4 DEF Rests, Recorders
<1>6. QED
  BY <1>5, StoppedSound

(* Either every call of who waits at the end of its stop, or all of it     *)
(* rests.                                                                  *)
LEMMA StopRests ==
    ASSUME NEW g, Sound(g), NEW others, others \in [Callers -> Calls],
           NEW who \in SUBSET Callers, StopRecorder(who, g, others)
    PROVE  /\ gps'.starting = g.starting
           /\ \A d \in Callers \ who : call'[d] = others[d]
           /\ (\A c \in who : call'[c].at = "cancel") \/ Rests(gps')
<1>1. CASE /\ gps' \in Cancelled(g)
           /\ call' = [c \in Callers |->
                         IF c \in who THEN [others[c] EXCEPT !.at = "cancel"] ELSE others[c]]
  <2>1. gps'.starting = g.starting
    BY <1>1, TaskSound DEF SameRun
  <2>2. \A c \in who : call'[c].at = "cancel"
    BY <1>1 DEF Calls
  <2>3. QED
    BY <1>1, <2>1, <2>2
<1>2. CASE /\ gps' \in Stopped(g)
           /\ call' = [c \in Callers |-> IF c \in who THEN Idle ELSE others[c]]
  BY <1>2, StoppedRests
<1>3. QED
  BY <1>1, <1>2 DEF StopRecorder

LEMMA SettleWish ==
    ASSUME NEW g, Sound(g), call \in [Callers -> Calls], NEW c \in Callers,
           g.running /\ ~g.failed /\ ~g.task => \E d \in Callers \ {c} : call[d].at = "cancel",
           Settle(c, g)
    PROVE  /\ TaskKept(gps', call')
           /\ (\E d \in Callers \ {c} : call[d].at = "waiting") => OffKept(gps', call')
<1> DEFINE joined  == {d \in Callers \ {c} : call[d].at = "joined"}
           waiting == {d \in Callers \ {c} : call[d].at = "waiting"}
           others  == [d \in Callers |-> IF d \in joined \cup {c} THEN Idle ELSE call[d]]
           settled == [g EXCEPT !.starting = FALSE]
<1>1. Sound(settled) /\ ~settled.starting
  BY DEF Sound, Recorders
<1>2. others \in [Callers -> Calls] /\ waiting \in SUBSET Callers
  BY IdleCall
<1>3. \/ waiting # {} /\ StopRecorder(waiting, settled, others)
      \/ waiting = {} /\ gps' = settled /\ call' = others
  BY DEF Settle
<1>4. CASE waiting = {} /\ gps' = settled /\ call' = others
  <2>1. gps'.running = g.running /\ gps'.failed = g.failed /\ gps'.task = g.task
    BY <1>4 DEF Sound, Recorders
  <2>2. \A d \in Callers \ {c} : call[d].at = "cancel" => call'[d].at = "cancel"
    BY <1>4
  <2>3. TaskKept(gps', call')
    BY <2>1, <2>2 DEF TaskKept, At
  <2>4. QED
    BY <1>4, <2>3
<1>5. CASE waiting # {} /\ StopRecorder(waiting, settled, others)
  <2> HIDE DEF settled, others, waiting
  <2>1. /\ ~gps'.starting
        /\ (\E d \in Callers : call'[d].at = "cancel") \/ Rests(gps')
    BY <1>1, <1>2, <1>5, StopRests
  <2>2. QED
    BY <2>1 DEF TaskKept, OffKept, At, Rests
<1>6. QED
  BY <1>3, <1>4, <1>5

LEMMA AttemptWish ==
    ASSUME NEW g, Sound(g), ~g.running, call \in [Callers -> Calls], NEW c \in Callers, NEW o,
           NEW wish, wish = "off" => \E d \in Callers \ {c} : call[d].at = "waiting",
           Attempt(c, o, g, wish)
    PROVE  WishInv'
<1>1. CASE /\ wanted' = IF wish = "off" THEN wish ELSE "unmet"
           /\ \E h \in {g} \cup NotSubscribed(g) : Settle(c, h)
  <2>1. PICK h \in {g} \cup NotSubscribed(g) : Settle(c, h)
    BY <1>1
  <2>2. Sound(h) /\ ~h.running
    BY NotSubscribedSound
  <2>3. /\ TaskKept(gps', call')
        /\ (\E d \in Callers \ {c} : call[d].at = "waiting") => OffKept(gps', call')
    BY <2>1, <2>2, SettleWish
  <2>4. QED
    BY <1>1, <2>3 DEF WishInv
<1>2. CASE WaitAt(c, o, "agent") /\ wanted' = wish
  <2>1. call'[c].at = "agent" /\ \A d \in Callers \ {c} : call'[d] = call[d]
    BY <1>2 DEF WaitAt
  <2>2. QED
    BY <1>2, <2>1 DEF WishInv, TaskKept, OffKept, At
<1>3. QED
  BY <1>1, <1>2 DEF Attempt

(* A start is never the wish of a switch that is off.                      *)
LEMMA StartWish ==
    ASSUME NEW g, Sound(g), call \in [Callers -> Calls], NEW c \in Callers, NEW o,
           g.running /\ ~g.failed /\ ~g.task =>
               \E d \in Callers \ {c} : call[d].at \in {"agent", "cancel"},
           NEW wish, wish # "off", Start(c, o, g, wish)
    PROVE  WishInv'
<1>1. CASE g.running /\ gps' = g /\ WaitAt(c, "none", "idle") /\ wanted' = wish
  BY <1>1 DEF WaitAt, WishInv, TaskKept, At
<1>2. CASE ~g.running /\ gps' = g /\ wanted' = wish
  BY <1>2 DEF WishInv, TaskKept
<1>3. CASE /\ ~g.running /\ gps' = [g EXCEPT !.starting = TRUE] /\ wanted' = wish
  <2>1. ~gps'.running
    BY <1>3 DEF Sound, Recorders
  <2>2. QED
    BY <1>3, <2>1 DEF WishInv, TaskKept
<1>4. CASE ~g.running /\ Attempt(c, o, [g EXCEPT !.starting = TRUE], wish)
  <2> DEFINE k == [g EXCEPT !.starting = TRUE]
  <2>1. Sound(k) /\ ~k.running
    BY <1>4 DEF Sound, Recorders
  <2>2. Attempt(c, o, k, wish)
    BY <1>4
  <2> HIDE DEF k
  <2>3. QED
    BY <2>1, <2>2, AttemptWish
<1>5. QED
  BY <1>1, <1>2, <1>3, <1>4 DEF Start

LEMMA ToggleOffWish ==
    ASSUME Inductive, WishInv, NEW c \in Callers, ToggleOff(c)
    PROVE  WishInv'
<1>1. call \in [Callers -> Calls] /\ call[c].at = "idle" /\ wanted' = "off"
  BY DEF ToggleOff, Idle, Inductive, CallsOK
<1>2. CASE WaitAt(c, "off", "waiting") /\ UNCHANGED gps
  <2>1. call'[c].at = "waiting" /\ \A d \in Callers \ {c} : call'[d] = call[d]
    BY <1>1, <1>2, WaitStep DEF CallPlaces, Ops
  <2>2. TaskKept(gps', call')
    BY <1>1, <1>2, <2>1 DEF WishInv, TaskKept, At
  <2>3. OffKept(gps', call')
    BY <2>1 DEF OffKept, At
  <2>4. QED
    BY <2>2, <2>3 DEF WishInv
<1>3. CASE ~gps.starting /\ StopRecorder({c}, gps, [call EXCEPT ![c].op = "off"])
  <2> DEFINE others == [call EXCEPT ![c].op = "off"]
  <2>1. others \in [Callers -> Calls]
    BY <1>1 DEF Calls, Ops
  <2> HIDE DEF others
  <2>2. ~gps'.starting /\ (call'[c].at = "cancel" \/ Rests(gps'))
    <3>1. StopRecorder({c}, gps, others)
      BY <1>3 DEF others
    <3>2. QED
      BY <1>3, <2>1, <3>1, StopRests DEF Inductive
  <2>3. QED
    BY <2>2 DEF WishInv, TaskKept, OffKept, At, Rests
<1>4. QED
  BY <1>2, <1>3 DEF ToggleOff

LEMMA SetGpsModeWish ==
    ASSUME Inductive, WishInv, NEW c \in Callers, SetGpsMode(c)
    PROVE  WishInv'
<1>1. PICK m \in Modes : \E g \in Saved([gps EXCEPT !.mode = m]) :
        \/ StopRecorder({c}, g, [call EXCEPT ![c].op = "mode"])
        \/ ~gps.running /\ gps' = g /\ UNCHANGED call
  BY DEF SetGpsMode
<1> DEFINE k == [gps EXCEPT !.mode = m]
<1>2. PICK g \in Saved(k) :
        \/ StopRecorder({c}, g, [call EXCEPT ![c].op = "mode"])
        \/ ~gps.running /\ gps' = g /\ UNCHANGED call
  BY <1>1
<1>3. Sound(k) /\ k.running = gps.running /\ k.starting = gps.starting
  BY DEF Inductive, Sound, Recorders
<1> HIDE DEF k
<1>4. /\ Sound(g) /\ g.running = gps.running /\ g.starting = gps.starting
      /\ ~g.failed => g.stored.running = gps.running
  BY <1>2, <1>3, SavedSound, SavedRests
<1>5. wanted' = wanted /\ call[c].at = "idle" /\ call \in [Callers -> Calls]
  BY DEF SetGpsMode, Idle, Inductive, CallsOK
<1>6. CASE StopRecorder({c}, g, [call EXCEPT ![c].op = "mode"])
  <2> DEFINE others == [call EXCEPT ![c].op = "mode"]
  <2>1. others \in [Callers -> Calls] /\ \A d \in Callers \ {c} : others[d] = call[d]
    BY <1>5 DEF Calls, Ops
  <2> HIDE DEF others
  <2>2. StopRecorder({c}, g, others)
    BY <1>6 DEF others
  <2>3. /\ gps'.starting = gps.starting
        /\ \A d \in Callers \ {c} : call'[d] = call[d]
        /\ call'[c].at = "cancel" \/ Rests(gps')
    BY <1>4, <2>1, <2>2, StopRests
  <2>4. TaskKept(gps', call')
    BY <2>3 DEF TaskKept, At, Rests
  <2>5. OffKept(gps, call) => OffKept(gps', call')
    BY <1>5, <2>3 DEF OffKept, At, Rests
  <2>6. QED
    BY <1>5, <2>4, <2>5 DEF WishInv
<1>7. CASE ~gps.running /\ gps' = g /\ UNCHANGED call
  BY <1>4, <1>5, <1>7 DEF WishInv, TaskKept, OffKept
<1>8. QED
  BY <1>2, <1>6, <1>7

LEMMA RelaunchWish ==
    ASSUME Inductive, NEW c \in Callers, RelaunchRecorder(c)
    PROVE  WishInv'
<1> DEFINE saved == gps.stored
<1>1. saved \in Settings
  BY DEF Inductive, Sound, Recorders
<1>2. gps' = [Launched(saved) EXCEPT !.starting = saved.running]
      /\ wanted' = IF saved.running THEN "on" ELSE "off"
  BY DEF RelaunchRecorder
<1> HIDE DEF saved
<1>3. ~gps'.running /\ gps'.starting = saved.running /\ gps'.stored = saved
  BY <1>1, <1>2 DEF Launched, Settings
<1>4. QED
  BY <1>2, <1>3 DEF WishInv, TaskKept, OffKept

LEMMA ContinueWish ==
    ASSUME Inductive, WishInv, NEW c \in Callers, Continue(c)
    PROVE  WishInv'
<1>1. /\ Sound(gps) /\ call \in [Callers -> Calls] /\ call[c].op \in Ops \cup {"none"}
      /\ Owns(call[c]) => gps.starting /\ \A d \in Callers \ {c} : ~Owns(call[d])
  BY DEF Inductive, CallsOK, Calls
<1>2. ASSUME wanted = "off", Owns(call[c])
      PROVE  \E d \in Callers \ {c} : call[d].at = "waiting"
  BY <1>1, <1>2 DEF WishInv, OffKept, At, Owns
<1>3. CASE Permission(c)
  <2>1. Owns(call[c]) /\ ~gps.running
    BY <1>3 DEF Permission, Owns, Inductive, CallsOK
  <2>2. CASE Attempt(c, call[c].op, [gps EXCEPT !.permitted = TRUE], wanted)
    <3> DEFINE k == [gps EXCEPT !.permitted = TRUE]
    <3>1. Sound(k) /\ ~k.running
      BY <1>1, <2>1 DEF Sound, Recorders
    <3>2. Attempt(c, call[c].op, k, wanted)
      BY <2>2
    <3> HIDE DEF k
    <3>3. QED
      BY <1>1, <1>2, <2>1, <3>1, <3>2, AttemptWish
  <2>3. CASE /\ Settle(c, gps)
             /\ wanted' = IF wanted = "off" THEN wanted ELSE "unmet"
    <3>1. /\ TaskKept(gps', call')
          /\ (\E d \in Callers \ {c} : call[d].at = "waiting") => OffKept(gps', call')
      BY <1>1, <2>1, <2>3, SettleWish
    <3>2. QED
      BY <1>2, <2>1, <2>3, <3>1 DEF WishInv
  <2>4. QED
    BY <1>3, <2>2, <2>3 DEF Permission
<1>4. CASE WantAgent(c)
  <2>1. Owns(call[c]) /\ wanted' = wanted
    BY <1>4 DEF WantAgent, Owns
  <2>2. CASE /\ gps' \in Requested(gps)
             /\ WaitAt(c, call[c].op, "background")
    <3>1. gps'.task \/ gps'.failed
      BY <1>1, <2>2 DEF Requested, OrFails, Sound, Recorders
    <3>2. \A d \in Callers \ {c} : call'[d] = call[d]
      BY <1>1, <2>2, WaitStep DEF CallPlaces
    <3>3. gps'.starting = gps.starting /\ (wanted = "off" => At(call', {"waiting"}))
      BY <1>1, <1>2, <2>1, <2>2, <3>2, TaskSound DEF SameRun, At
    <3>4. QED
      BY <2>1, <3>1, <3>3 DEF WishInv, TaskKept, OffKept, At
  <2>3. CASE Settle(c, [gps EXCEPT !.failed = TRUE])
    <3> DEFINE k == [gps EXCEPT !.failed = TRUE]
    <3>1. Sound(k) /\ k.failed
      BY <1>1 DEF Sound, Recorders
    <3>2. Settle(c, k)
      BY <2>3
    <3> HIDE DEF k
    <3>3. /\ TaskKept(gps', call')
          /\ (\E d \in Callers \ {c} : call[d].at = "waiting") => OffKept(gps', call')
      BY <1>1, <3>1, <3>2, SettleWish
    <3>4. QED
      BY <1>2, <2>1, <3>3 DEF WishInv
  <2>4. QED
    BY <1>4, <2>2, <2>3 DEF WantAgent
<1>5. CASE BackgroundRunning(c)
  <2>1. Owns(call[c]) /\ call[c].at = "background" /\ wanted' = wanted /\ Settle(c, gps)
    BY <1>5 DEF BackgroundRunning, Owns
  <2>2. gps.running /\ ~gps.failed /\ ~gps.task => \E d \in Callers \ {c} : call[d].at = "cancel"
    BY <1>1, <2>1 DEF WishInv, TaskKept, At, Owns
  <2>3. /\ TaskKept(gps', call')
        /\ (\E d \in Callers \ {c} : call[d].at = "waiting") => OffKept(gps', call')
    BY <1>1, <2>1, <2>2, SettleWish
  <2>4. QED
    BY <1>2, <2>1, <2>3 DEF WishInv
<1>6. CASE TaskCancelled(c)
  <2> DEFINE wish == IF wanted = "off" THEN "overtaken" ELSE wanted
  <2>1. PICK g \in Stopped(gps) :
          \/ Start(c, "mode", g, wish)
          \/ gps' = g /\ WaitAt(c, "none", "idle") /\ UNCHANGED wanted
    BY <1>6 DEF TaskCancelled
  <2>2. Sound(g) /\ Rests(g) /\ g.starting = gps.starting
    BY <1>1, <2>1, StoppedSound, StoppedRests
  <2>3. CASE Start(c, "mode", g, wish)
    <3>1. wish # "off"
      OBVIOUS
    <3> HIDE DEF wish
    <3>2. QED
      BY <1>1, <2>2, <2>3, <3>1, StartWish DEF Rests
  <2>4. CASE gps' = g /\ WaitAt(c, "none", "idle") /\ UNCHANGED wanted
    <3>1. \A d \in Callers \ {c} : call'[d] = call[d]
      BY <1>1, <2>4, WaitStep DEF CallPlaces
    <3>2. call[c].at # "waiting"
      BY <1>6 DEF TaskCancelled
    <3>3. QED
      BY <2>2, <2>4, <3>1, <3>2 DEF WishInv, TaskKept, OffKept, At, Rests
  <2>5. QED
    BY <2>1, <2>3, <2>4
<1>7. QED
  BY <1>3, <1>4, <1>5, <1>6 DEF Continue

LEMMA InitWish == RecorderInit => WishInv
<1> SUFFICES ASSUME RecorderInit PROVE WishInv
  OBVIOUS
<1>1. PICK saved \in Unstored : gps = Launched(saved)
  BY DEF RecorderInit
<1>2. ~saved.running
  BY <1>1 DEF Unstored
<1>3. ~gps.running /\ ~gps.starting /\ ~gps.stored.running
  BY <1>1, <1>2 DEF Launched
<1>4. QED
  BY <1>3 DEF WishInv, TaskKept, OffKept

LEMMA NextWish == Inductive /\ WishInv /\ [RecorderNext]_recorderVars => WishInv'
<1> SUFFICES ASSUME Inductive, WishInv, [RecorderNext]_recorderVars PROVE WishInv'
  OBVIOUS
<1>1. ASSUME NEW c \in Callers, ToggleOn(c) PROVE WishInv'
  <2>1. call[c].at = "idle" /\ Start(c, "on", gps, "on")
    BY <1>1 DEF ToggleOn, Idle
  <2>2. gps.running /\ ~gps.failed /\ ~gps.task =>
            \E d \in Callers \ {c} : call[d].at \in {"agent", "cancel"}
    BY <2>1 DEF WishInv, TaskKept, At
  <2>3. QED
    BY <2>1, <2>2, StartWish DEF Inductive, CallsOK
<1>2. CASE UNCHANGED recorderVars
  BY <1>2 DEF recorderVars, WishInv, TaskKept, OffKept, At
<1>3. QED
  BY <1>1, <1>2, ToggleOffWish, SetGpsModeWish, RelaunchWish, ContinueWish DEF RecorderNext

LEMMA AlwaysWish == RecorderSpec => [](Inductive /\ WishInv)
<1>1. RecorderInit => Inductive /\ WishInv
  BY InitInductive, InitWish
<1>2. (Inductive /\ WishInv) /\ [RecorderNext]_recorderVars => (Inductive /\ WishInv)'
  BY NextInductive, NextWish
<1>3. QED
  BY <1>1, <1>2, PTL DEF RecorderSpec

(* However starts, stops and changes of the frequency overlap, a recorder  *)
(* that is left running has asked for the background task after the last   *)
(* stop gave it up, unless the system refused.                             *)
THEOREM RunningHasItsTask == RecorderSpec => []TaskWhileRunning
<1>1. WishInv => TaskWhileRunning
  BY DEF WishInv, TaskKept, At, TaskWhileRunning, Quiet, Idle
<1>2. QED
  BY <1>1, AlwaysWish, PTL

(* A switch that was put off, whatever start was under way, leaves the     *)
(* recorder off and its settings saying so once the calls have returned.   *)
THEOREM SwitchedOffSticks == RecorderSpec => []OffSticks
<1>1. WishInv => OffSticks
  BY DEF WishInv, OffKept, At, OffSticks, Quiet, Idle
<1>2. QED
  BY <1>1, AlwaysWish, PTL
===============================================================================
