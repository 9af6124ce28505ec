----------------------------- MODULE DataLemmas -----------------------------
(***************************************************************************)
(* Facts about the operators of the community modules that the proofs      *)
(* share: the least and greatest element of a set of numbers, the first    *)
(* element of a sequence that passes a test.  The library's                *)
(* well-foundedness of < stands in for induction: a set of counterexamples *)
(* that is not empty has a least element.                                  *)
(***************************************************************************)
EXTENDS Integers, SequencesExt, FiniteSetsExt, Functions,
        Picking, FiniteSetTheorems, SequenceTheorems, WellFoundedInduction, TLAPS

LEMMA NatOrder == OpToRel(<, Nat) = {ss \in Nat \X Nat : ss[1] < ss[2]}
BY DEF OpToRel

LEMMA LeastExists ==
    ASSUME NEW T, T \subseteq Nat, T # {}
    PROVE  \E n \in T : \A m \in T : n <= m
<1> DEFINE R == {ss \in Nat \X Nat : ss[1] < ss[2]}
<1>1. IsWellFoundedOn(R, Nat)
  BY NatLessThanWellFounded, NatOrder
<1>2. \E x \in T : \A y \in T : <<y, x>> \notin R
  <2> HIDE DEF R
  <2>1. QED
    BY <1>1, WFMin, Zenon
<1>3. PICK n \in T : \A y \in T : <<y, n>> \notin R
  BY <1>2, Zenon
<1>4. ASSUME NEW m \in T PROVE n <= m
  <2>1. <<m, n>> \in Nat \X Nat /\ <<m, n>>[1] = m /\ <<m, n>>[2] = n
    OBVIOUS
  <2>2. QED
    BY <2>1, <1>3
<1>5. QED
  BY <1>4, Zenon

LEMMA MinProperties ==
    ASSUME NEW T, T \subseteq Nat, T # {}
    PROVE  Min(T) \in T /\ \A m \in T : Min(T) <= m
<1>1. PICK n \in T : \A m \in T : n <= m
  BY LeastExists
<1>2. QED
  BY <1>1 DEF Min

LEMMA MaxProperties ==
    ASSUME NEW n \in Nat, NEW T, T \subseteq 0..n, T # {}
    PROVE  Max(T) \in T /\ \A m \in T : Max(T) >= m
<1> DEFINE B == {k \in Nat : \A m \in T : m <= k}
<1>1. n \in B
  OBVIOUS
<1>2. PICK b \in B : \A m \in B : b <= m
  <2>1. B \subseteq Nat /\ B # {}
    BY <1>1
  <2>2. QED
    BY <2>1, LeastExists
<1>3. b \in Nat /\ \A m \in T : m \in Nat /\ m <= b
  BY <1>2
<1>4. b \in T
  <2>1. SUFFICES ASSUME b \notin T PROVE FALSE
    OBVIOUS
  <2>2. PICK x \in T : TRUE
    OBVIOUS
  <2>3. x \in Nat /\ x <= b /\ x # b
    BY <1>3, <2>1, <2>2
  <2>4. b - 1 \in Nat
    BY <2>3, <1>3
  <2>5. \A m \in T : m <= b - 1
    BY <1>3, <2>1
  <2>6. b - 1 \in B
    BY <2>4, <2>5
  <2>7. QED
    BY <2>6, <1>2, <1>3
<1>5. QED
  BY <1>3, <1>4 DEF Max

(* The first element of a sequence that passes a test, or 0.               *)
LEMMA SelectProperties ==
    ASSUME NEW S, NEW s \in Seq(S), NEW I, I \subseteq 1..Len(s), NEW n,
           n = IF I # {} THEN Min(I) ELSE 0
    PROVE  /\ n \in 0..Len(s)
           /\ n # 0 => n \in I /\ \A i \in 1..(n - 1) : i \notin I
           /\ n = 0 => I = {}
<1>1. Len(s) \in Nat
  BY LenProperties
<1>2. CASE I = {}
  BY <1>1, <1>2
<1>3. CASE I # {}
  <2>1. I \subseteq Nat
    BY <1>1
  <2>2. Min(I) \in I /\ \A m \in I : Min(I) <= m
    BY <1>3, <2>1, MinProperties
  <2>3. n = Min(I) /\ n \in 1..Len(s)
    BY <1>3, <2>2
  <2>4. QED
    BY <1>1, <2>2, <2>3
<1>4. QED
  BY <1>2, <1>3
-----------------------------------------------------------------------------
LEMMA StrictSubset ==
    ASSUME NEW S, IsFiniteSet(S), NEW T, T \subseteq S, T # S
    PROVE  IsFiniteSet(T) /\ Cardinality(T) < Cardinality(S)
<1>1. IsFiniteSet(T) /\ Cardinality(T) <= Cardinality(S) /\ Cardinality(S) # Cardinality(T)
  BY FS_Subset
<1>2. Cardinality(T) \in Nat /\ Cardinality(S) \in Nat
  BY <1>1, FS_CardinalityType
<1>3. QED
  BY <1>1, <1>2

(* Of the sets of a family, one has no smaller one in the family.          *)
LEMMA SmallestFirst ==
    ASSUME NEW Bad, NEW S, IsFiniteSet(S), Bad \subseteq SUBSET S, Bad # {}
    PROVE  \E s \in Bad : \A t \in SUBSET s : t # s => t \notin Bad
<1> DEFINE Sizes == {Cardinality(s) : s \in Bad}
<1>1. \A s \in Bad : IsFiniteSet(s) /\ Cardinality(s) \in Nat
  BY FS_Subset, FS_CardinalityType
<1>2. Sizes \subseteq Nat /\ Sizes # {}
  BY <1>1
<1>3. PICK n \in Sizes : \A m \in Sizes : n <= m
  <2> HIDE DEF Sizes
  <2>1. QED
    BY <1>2, LeastExists
<1>4. PICK s \in Bad : n = Cardinality(s)
  BY <1>3
<1>5. ASSUME NEW t \in SUBSET s, t # s, t \in Bad PROVE FALSE
  <2>1. Cardinality(t) < Cardinality(s)
    BY <1>1, <1>5, StrictSubset
  <2>2. Cardinality(s) <= Cardinality(t)
    BY <1>3, <1>4, <1>5
  <2>3. QED
    BY <1>1, <1>5, <2>1, <2>2
<1>6. QED
  BY <1>5
-----------------------------------------------------------------------------
(* A strict total order on a set.                                          *)
Orders(R, S) ==
    /\ \A x \in S : <<x, x>> \notin R
    /\ \A x, y, z \in S : <<x, y>> \in R /\ <<y, z>> \in R => <<x, z>> \in R
    /\ \A x, y \in S : x # y => <<x, y>> \in R \/ <<y, x>> \in R

LEMMA RankRises ==
    ASSUME NEW S, IsFiniteSet(S), NEW R, Orders(R, S), NEW x \in S
    PROVE  /\ CountBefore(S, R, x) \in 0..(Cardinality(S) - 1)
           /\ \A y \in S : <<x, y>> \in R => CountBefore(S, R, x) < CountBefore(S, R, y)
<1> DEFINE Before(y) == {z \in S : <<z, y>> \in R}
<1>1. CountBefore(S, R, x) \in Nat /\ Cardinality(S) \in Nat /\ CountBefore(S, R, x) < Cardinality(S)
  <2>1. Before(x) # S /\ Before(x) \subseteq S
    BY DEF Orders
  <2>2. QED
    BY <2>1, StrictSubset, FS_CardinalityType DEF CountBefore
<1>2. ASSUME NEW y \in S, <<x, y>> \in R PROVE CountBefore(S, R, x) < CountBefore(S, R, y)
  <2>1. Before(x) \subseteq Before(y) /\ Before(y) \subseteq S /\ Before(x) # Before(y)
    BY <1>2 DEF Orders
  <2>2. IsFiniteSet(Before(y))
    BY <2>1, FS_Subset
  <2>3. QED
    BY <2>1, <2>2, StrictSubset DEF CountBefore
<1>3. QED
  BY <1>1, <1>2

(* InOrder lists every element once, in order.                             *)
LEMMA InOrderProperties ==
    ASSUME NEW S, IsFiniteSet(S), NEW R, Orders(R, S)
    PROVE  /\ Cardinality(S) \in Nat
           /\ InOrder(S, R) \in [1..Cardinality(S) -> S]
           /\ \A x \in S : \E i \in 1..Cardinality(S) : InOrder(S, R)[i] = x
           /\ \A i, j \in 1..Cardinality(S) : i < j => <<InOrder(S, R)[i], InOrder(S, R)[j]>> \in R
<1> DEFINE N == Cardinality(S)
           r == [x \in S |-> CountBefore(S, R, x)]
           list == InOrder(S, R)
<1>1. N \in Nat
  BY FS_CardinalityType
<1>2. r \in [S -> 0..(N - 1)] /\ \A x \in S : r[x] = CountBefore(S, R, x)
  BY RankRises
<1>3. \A x, y \in S : <<x, y>> \in R => r[x] < r[y]
  BY RankRises
<1> HIDE DEF r
<1>4. \A x, y \in S : x # y => r[x] # r[y]
  <2>1. SUFFICES ASSUME NEW x \in S, NEW y \in S, x # y PROVE r[x] # r[y]
    OBVIOUS
  <2>2. <<x, y>> \in R \/ <<y, x>> \in R
    BY <2>1 DEF Orders
  <2>3. r[x] \in Int /\ r[y] \in Int
    BY <1>1, <1>2
  <2>4. QED
    BY <1>3, <2>2, <2>3
<1>5. \A k \in 0..(N - 1) : \E x \in S : r[x] = k
  <2>1. r \in Injection(S, 0..(N - 1))
    BY <1>2, <1>4, Zenon DEF Injection, IsInjective
  <2>2. IsFiniteSet(0..(N - 1)) /\ Cardinality(0..(N - 1)) = N
    <3>1. N - 1 \in Int /\ 0 \in Int
      BY <1>1
    <3>2. IsFiniteSet(0..(N - 1)) /\ Cardinality(0..(N - 1)) = IF 0 > N - 1 THEN 0 ELSE N - 1 - 0 + 1
      BY <3>1, FS_Interval
    <3>3. QED
      BY <1>1, <3>2
  <2>3. r \in Surjection(S, 0..(N - 1))
    BY <2>1, <2>2, FS_Injection
  <2>4. QED
    BY <2>3 DEF Surjection
<1>6. \A i \in 1..N : list[i] \in S /\ r[list[i]] = i - 1
  <2>1. SUFFICES ASSUME NEW i \in 1..N PROVE list[i] \in S /\ r[list[i]] = i - 1
    OBVIOUS
  <2>2. PICK x \in S : r[x] = i - 1
    BY <1>1, <1>5
  <2>3. CountBefore(S, R, x) = i - 1
    BY <1>2, <2>2
  <2>4. list[i] = CHOOSE z \in S : CountBefore(S, R, z) = i - 1
    BY DEF InOrder
  <2>5. list[i] \in S /\ CountBefore(S, R, list[i]) = i - 1
    BY <2>3, <2>4
  <2>6. QED
    BY <1>2, <2>5
<1>7. list \in [1..N -> S]
  BY <1>6 DEF InOrder
<1> HIDE DEF list
<1>8. \A x \in S : \E i \in 1..N : list[i] = x
  <2>1. SUFFICES ASSUME NEW x \in S PROVE \E i \in 1..N : list[i] = x
    OBVIOUS
  <2>2. r[x] + 1 \in 1..N /\ r[x] \in Int
    BY <1>1, <1>2
  <2>3. list[r[x] + 1] \in S /\ r[list[r[x] + 1]] = r[x]
    BY <1>6, <2>2
  <2>4. QED
    BY <1>4, <2>2, <2>3
<1>9. ASSUME NEW i \in 1..N, NEW j \in 1..N, i < j
      PROVE  <<list[i], list[j]>> \in R
  <2>1. list[i] \in S /\ list[j] \in S /\ r[list[i]] = i - 1 /\ r[list[j]] = j - 1
    BY <1>6
  <2>2. list[i] # list[j] /\ ~(r[list[j]] < r[list[i]])
    BY <1>1, <1>9, <2>1
  <2>3. QED
    BY <1>3, <2>1, <2>2 DEF Orders
<1>10. QED
  BY <1>1, <1>7, <1>8, <1>9 DEF list

LEMMA RankedProperties ==
    ASSUME NEW S, S \subseteq Nat, IsFiniteSet(S)
    PROVE  /\ Cardinality(S) \in Nat
           /\ Ranked(S) \in [1..Cardinality(S) -> S]
           /\ \A x \in S : \E i \in 1..Cardinality(S) : Ranked(S)[i] = x
           /\ \A i, j \in 1..Cardinality(S) : i < j => Ranked(S)[i] < Ranked(S)[j]
<1>1. \A x, y \in S : <<x, y>> \in Less(S) <=> x < y
  BY DEF Less
<1>2. Orders(Less(S), S)
  BY <1>1 DEF Orders
<1> DEFINE R == Less(S)
<1> HIDE DEF R
<1>3. /\ Cardinality(S) \in Nat
      /\ InOrder(S, R) \in [1..Cardinality(S) -> S]
      /\ \A x \in S : \E i \in 1..Cardinality(S) : InOrder(S, R)[i] = x
      /\ \A i, j \in 1..Cardinality(S) : i < j => <<InOrder(S, R)[i], InOrder(S, R)[j]>> \in R
  <2>1. Orders(R, S)
    BY <1>2 DEF R
  <2>2. QED
    BY <2>1, InOrderProperties
<1>4. \A i, j \in 1..Cardinality(S) : i < j => InOrder(S, R)[i] < InOrder(S, R)[j]
  BY <1>1, <1>3 DEF R
<1>5. QED
  BY <1>3, <1>4 DEF Ranked, R

(* A pick is a sequence of just the elements picked, in their order.       *)
LEMMA PickedProperties ==
    ASSUME NEW s, NEW n \in Nat, NEW I, I \subseteq 1..n, NEW T, \A i \in I : s[i] \in T
    PROVE  /\ Picked(s, I) \in Seq(T) /\ Len(Picked(s, I)) = Cardinality(I)
           /\ \A k \in DOMAIN Picked(s, I) : /\ Ranked(I)[k] \in I
                                             /\ Picked(s, I)[k] = s[Ranked(I)[k]]
           /\ \A i \in I : \E k \in DOMAIN Picked(s, I) : Ranked(I)[k] = i
           /\ \A k, l \in DOMAIN Picked(s, I) : k < l => Ranked(I)[k] < Ranked(I)[l]
<1>1. I \subseteq Nat /\ IsFiniteSet(I)
  <2>1. IsFiniteSet(1..n)
    BY FS_Interval
  <2>2. IsFiniteSet(I)
    BY <2>1, FS_Subset
  <2>3. QED
    BY <2>2
<1>2. /\ Cardinality(I) \in Nat
      /\ Ranked(I) \in [1..Cardinality(I) -> I]
      /\ \A x \in I : \E i \in 1..Cardinality(I) : Ranked(I)[i] = x
      /\ \A i, j \in 1..Cardinality(I) : i < j => Ranked(I)[i] < Ranked(I)[j]
  BY <1>1, RankedProperties
<1>3. Picked(s, I) \in [1..Cardinality(I) -> T]
  BY <1>2 DEF Picked
<1>4. Picked(s, I) \in Seq(T) /\ Len(Picked(s, I)) = Cardinality(I)
  BY <1>2, <1>3, IsASeq, LenProperties
<1>5. DOMAIN Picked(s, I) = 1..Cardinality(I)
  BY DEF Picked
<1>6. \A k \in 1..Cardinality(I) : Picked(s, I)[k] = s[Ranked(I)[k]]
  BY DEF Picked
<1>7. QED
  BY <1>2, <1>4, <1>5, <1>6
-----------------------------------------------------------------------------
(* Sums over the subsets of S, as the recursion behind SumFunctionOnSet    *)
(* takes them: one element, chosen, and the rest.                          *)
SumFirst(s)     == CHOOSE x \in s : TRUE
SumTurn(f, h, s) == IF s = {} THEN 0 ELSE f[SumFirst(s)] + h[s \ {SumFirst(s)}]
Sums(f, S) == CHOOSE h : h = [s \in SUBSET S |-> SumTurn(f, h, s)]

LEMMA SumIsLast == ASSUME NEW f, NEW S PROVE SumFunctionOnSet(f, S) = Sums(f, S)[S]
BY DEF SumFunctionOnSet, FoldFunctionOnSet, MapThenFoldSet, Sums, SumTurn, SumFirst

LEMMA SumsTurn ==
    ASSUME NEW f, NEW S, IsFiniteSet(S)
    PROVE  \A s \in SUBSET S : Sums(f, S)[s] = SumTurn(f, Sums(f, S), s)
<1> DEFINE Upto(h, n) == \A s \in SUBSET S : Cardinality(s) <= n => h[s] = SumTurn(f, h, s)
           Has(n)     == \E h : Upto(h, n)
           Bad        == {n \in Nat : ~Has(n)}
<1>1. \A s \in SUBSET S : /\ IsFiniteSet(s) /\ Cardinality(s) \in Nat
                          /\ s # {} => /\ SumFirst(s) \in s /\ s \ {SumFirst(s)} \in SUBSET S
                                       /\ Cardinality(s \ {SumFirst(s)}) = Cardinality(s) - 1
                          /\ Cardinality(s) <= 0 => s = {}
  <2>1. SUFFICES ASSUME NEW s \in SUBSET S
                 PROVE  /\ IsFiniteSet(s) /\ Cardinality(s) \in Nat
                        /\ s # {} => /\ SumFirst(s) \in s /\ s \ {SumFirst(s)} \in SUBSET S
                                     /\ Cardinality(s \ {SumFirst(s)}) = Cardinality(s) - 1
                        /\ Cardinality(s) <= 0 => s = {}
    OBVIOUS
  <2>2. IsFiniteSet(s) /\ Cardinality(s) \in Nat
    BY FS_Subset, FS_CardinalityType
  <2>3. Cardinality(s) = 0 => s = {}
    BY <2>2, FS_EmptySet
  <2>4. s # {} => SumFirst(s) \in s
    BY DEF SumFirst
  <2>5. s # {} => Cardinality(s \ {SumFirst(s)}) = Cardinality(s) - 1
    BY <2>2, <2>4, FS_RemoveElement
  <2>6. QED
    BY <2>2, <2>3, <2>4, <2>5
<1>2. Has(0)
  <2> DEFINE h == [s \in SUBSET S |-> 0]
  <2>1. Upto(h, 0)
    BY <1>1 DEF SumTurn
  <2>2. QED
    BY <2>1
<1>3. ASSUME NEW n \in Nat, Has(n) PROVE Has(n + 1)
  <2>1. PICK h : Upto(h, n)
    BY <1>3
  <2> DEFINE g == [s \in SUBSET S |-> IF Cardinality(s) = n + 1 THEN SumTurn(f, h, s) ELSE h[s]]
  <2>2. ASSUME NEW s \in SUBSET S, Cardinality(s) <= n + 1 PROVE g[s] = SumTurn(f, g, s)
    <3>1. g[s] = SumTurn(f, h, s)
      <4>1. CASE Cardinality(s) = n + 1
        BY <4>1
      <4>2. CASE Cardinality(s) # n + 1
        <5>1. Cardinality(s) \in Nat
          BY <1>1
        <5>2. Cardinality(s) <= n
          BY <1>3, <2>2, <4>2, <5>1
        <5>3. QED
          BY <2>1, <4>2, <5>2
      <4>3. QED
        BY <4>1, <4>2
    <3>2. s # {} => g[s \ {SumFirst(s)}] = h[s \ {SumFirst(s)}]
      BY <1>1, <2>2
    <3>3. QED
      BY <3>1, <3>2 DEF SumTurn
  <2> HIDE DEF g
  <2>3. Upto(g, n + 1)
    BY <2>2
  <2>4. QED
    BY <2>3
<1>4. Bad = {}
  <2>1. SUFFICES ASSUME Bad # {} PROVE FALSE
    OBVIOUS
  <2> HIDE DEF Has
  <2>2. PICK n \in Bad : \A m \in Bad : n <= m
    BY <2>1, LeastExists
  <2>3. n # 0 /\ n \in Nat /\ ~Has(n)
    BY <1>2
  <2>4. n - 1 \in Nat /\ ~(n <= n - 1)
    BY <2>3
  <2>5. Has(n - 1)
    BY <2>2, <2>4
  <2>6. QED
    BY <1>3, <2>3, <2>4, <2>5
<1>5. PICK h : Upto(h, Cardinality(S))
  <2>1. Cardinality(S) \in Nat
    BY <1>1
  <2>2. Has(Cardinality(S))
    <3> HIDE DEF Has
    <3>1. QED
      BY <1>4, <2>1
  <2>3. QED
    BY <2>2
<1>6. \A s \in SUBSET S : h[s] = SumTurn(f, h, s)
  BY <1>5, FS_Subset
<1> DEFINE g == [s \in SUBSET S |-> h[s]]
<1>7. g = [s \in SUBSET S |-> SumTurn(f, g, s)]
  <2>1. \A s \in SUBSET S : SumTurn(f, g, s) = SumTurn(f, h, s)
    BY <1>1 DEF SumTurn
  <2>2. QED
    BY <1>6, <2>1
<1>8. Sums(f, S) = [s \in SUBSET S |-> SumTurn(f, Sums(f, S), s)]
  <2> HIDE DEF g
  <2>1. QED
    BY <1>7 DEF Sums
<1>9. QED
  BY <1>8

LEMMA SumsAgree ==
    ASSUME NEW f, NEW S, IsFiniteSet(S), NEW T, T \subseteq S
    PROVE  Sums(f, S)[T] = SumFunctionOnSet(f, T)
<1> DEFINE Bad == {s \in SUBSET T : Sums(f, S)[s] # Sums(f, T)[s]}
<1>1. IsFiniteSet(T)
  BY FS_Subset
<1>2. ASSUME Bad # {} PROVE FALSE
  <2>1. PICK s \in Bad : \A t \in SUBSET s : t # s => t \notin Bad
    <3>1. Bad \subseteq SUBSET T
      OBVIOUS
    <3> HIDE DEF Bad
    <3>2. QED
      BY <1>1, <1>2, <3>1, SmallestFirst
  <2>2. SumTurn(f, Sums(f, S), s) = SumTurn(f, Sums(f, T), s)
    <3>1. s # {} => SumFirst(s) \in s
      BY DEF SumFirst
    <3>2. s # {} => s \ {SumFirst(s)} \in SUBSET T /\ s \ {SumFirst(s)} \notin Bad
      BY <2>1, <3>1
    <3>3. QED
      BY <3>2 DEF SumTurn
  <2>3. QED
    BY <1>1, <2>2, SumsTurn
<1>3. QED
  BY <1>2, SumIsLast

LEMMA SumProperties ==
    ASSUME NEW D, NEW f \in [D -> Nat], NEW S, S \subseteq D, IsFiniteSet(S)
    PROVE  /\ SumFunctionOnSet(f, {}) = 0
           /\ SumFunctionOnSet(f, S) \in Nat
           /\ \A x \in S : SumFunctionOnSet(f, S) = f[x] + SumFunctionOnSet(f, S \ {x})
<1> DEFINE Sum(s) == SumFunctionOnSet(f, s)
<1>1. \A s \in SUBSET S : /\ Sum(s) = IF s = {} THEN 0 ELSE f[SumFirst(s)] + Sum(s \ {SumFirst(s)})
                          /\ s # {} => SumFirst(s) \in s
  <2>1. \A s \in SUBSET S : Sum(s) = Sums(f, S)[s]
    BY SumsAgree
  <2>2. \A s \in SUBSET S : Sum(s) = SumTurn(f, Sums(f, S), s)
    BY <2>1, SumsTurn
  <2> HIDE DEF Sum
  <2>3. \A s \in SUBSET S : s # {} => SumFirst(s) \in s
    BY DEF SumFirst
  <2>4. QED
    BY <2>1, <2>2, <2>3 DEF SumTurn
<1> HIDE DEF Sum
<1>2. \A s \in SUBSET S : Sum(s) \in Nat
  <2> DEFINE Bad == {s \in SUBSET S : Sum(s) \notin Nat}
  <2>1. SUFFICES ASSUME Bad # {} PROVE FALSE
    OBVIOUS
  <2>2. PICK s \in Bad : \A t \in SUBSET s : t # s => t \notin Bad
    <3>1. Bad \subseteq SUBSET S
      OBVIOUS
    <3> HIDE DEF Bad
    <3>2. QED
      BY <2>1, <3>1, SmallestFirst
  <2>3. s \in SUBSET S /\ Sum(s) \notin Nat
    BY <2>2
  <2>4. s # {} => f[SumFirst(s)] \in Nat /\ Sum(s \ {SumFirst(s)}) \in Nat
    BY <1>1, <2>2, <2>3
  <2>5. Sum(s) \in Nat
    <3>1. s = {} => Sum(s) = 0
      BY <1>1, <2>3
    <3>2. s # {} => Sum(s) = f[SumFirst(s)] + Sum(s \ {SumFirst(s)})
      BY <1>1, <2>3
    <3>3. QED
      BY <2>4, <3>1, <3>2
  <2>6. QED
    BY <2>3, <2>5
<1>3. \A s \in SUBSET S : \A x \in s : Sum(s) = f[x] + Sum(s \ {x})
  <2> DEFINE Bad == {s \in SUBSET S : \E x \in s : Sum(s) # f[x] + Sum(s \ {x})}
  <2>1. SUFFICES ASSUME Bad # {} PROVE FALSE
    OBVIOUS
  <2>2. PICK s \in Bad : \A t \in SUBSET s : t # s => t \notin Bad
    <3>1. Bad \subseteq SUBSET S
      OBVIOUS
    <3> HIDE DEF Bad
    <3>2. QED
      BY <2>1, <3>1, SmallestFirst
  <2>3. PICK x \in s : Sum(s) # f[x] + Sum(s \ {x})
    OBVIOUS
  <2> DEFINE y == SumFirst(s)
             r == (s \ {x}) \ {y}
  <2>4. y \in s /\ Sum(s) = f[y] + Sum(s \ {y}) /\ x # y
    BY <1>1, <2>3
  <2>5. Sum(s \ {y}) = f[x] + Sum(r)
    <3>1. s \ {y} \notin Bad /\ s \ {y} \in SUBSET S /\ x \in s \ {y} /\ (s \ {y}) \ {x} = r
      BY <2>2, <2>4
    <3>2. QED
      BY <3>1
  <2>6. Sum(s \ {x}) = f[y] + Sum(r)
    <3>1. s \ {x} \notin Bad /\ s \ {x} \in SUBSET S /\ y \in s \ {x}
      BY <2>2, <2>4
    <3>2. QED
      BY <3>1
  <2>7. Sum(r) \in Nat /\ f[x] \in Nat /\ f[y] \in Nat
    BY <1>2, <2>4
  <2> HIDE DEF r, y
  <2>8. QED
    BY <2>3, <2>4, <2>5, <2>6, <2>7
<1>4. QED
  BY <1>1, <1>2, <1>3 DEF Sum
-----------------------------------------------------------------------------
(* Sequences without repetitions, one element less or more.                *)
LEMMA RemoveAtLeaves ==
    ASSUME NEW S, NEW s \in Seq(S), IsInjective(s), NEW i \in 1..Len(s)
    PROVE  /\ RemoveAt(s, i) \in Seq(S) /\ Len(RemoveAt(s, i)) = Len(s) - 1
           /\ IsInjective(RemoveAt(s, i))
           /\ ToSet(RemoveAt(s, i)) = ToSet(s) \ {s[i]}
<1> DEFINE r == RemoveAt(s, i)
           a == SubSeq(s, 1, i - 1)
           b == SubSeq(s, i + 1, Len(s))
<1>1. Len(s) \in Nat /\ DOMAIN s = 1..Len(s) /\ \A k \in 1..Len(s) : s[k] \in S
  BY LenProperties, ElementOfSeq
<1>2. /\ a \in Seq(S) /\ Len(a) = i - 1
      /\ \A k \in 1..(i - 1) : a[k] = s[k]
  BY <1>1, SubSeqProperties
<1>3. /\ b \in Seq(S) /\ Len(b) = Len(s) - i
      /\ \A k \in 1..(Len(s) - i) : b[k] = s[i + k]
  <2>1. i + 1 \in Int /\ Len(s) \in Int /\ \A k \in (i + 1)..Len(s) : s[k] \in S
    BY <1>1
  <2>2. /\ b \in Seq(S) /\ Len(b) = IF i + 1 <= Len(s) THEN Len(s) - (i + 1) + 1 ELSE 0
        /\ \A k \in 1..(Len(s) - (i + 1) + 1) : b[k] = s[i + 1 + k - 1]
    BY <2>1, SubSeqProperties
  <2>3. Len(s) - (i + 1) + 1 = Len(s) - i
    BY <1>1
  <2>4. ASSUME NEW k \in 1..(Len(s) - i) PROVE b[k] = s[i + k]
    <3>1. i + 1 + k - 1 = i + k
      BY <1>1
    <3>2. QED
      BY <2>2, <2>3, <3>1
  <2> HIDE DEF b
  <2>5. i \in Int /\ i <= Len(s) /\ Len(s) \in Int
    BY <1>1
  <2>6. Len(b) = Len(s) - i
    <3> DEFINE n == Len(s)
    <3>1. n \in Int /\ i \in Int /\ i <= n /\ Len(b) = IF i + 1 <= n THEN n - (i + 1) + 1 ELSE 0
      BY <2>2, <2>5
    <3> HIDE DEF n
    <3>2. Len(b) = n - i
      BY <3>1
    <3>3. QED
      BY <3>2 DEF n
  <2>7. QED
    BY <2>2, <2>4, <2>6
<1>4. r = a \o b
  BY DEF RemoveAt
<1> HIDE DEF r, a, b
<1>5. r \in Seq(S) /\ Len(r) = Len(s) - 1
  <2>1. Len(a \o b) = Len(a) + Len(b) /\ a \o b \in Seq(S)
    BY <1>2, <1>3, ConcatProperties
  <2>2. QED
    BY <1>1, <1>2, <1>3, <1>4, <2>1
<1>6. \A k \in 1..Len(r) : r[k] = IF k < i THEN s[k] ELSE s[k + 1]
  <2>1. SUFFICES ASSUME NEW k \in 1..Len(r) PROVE r[k] = IF k < i THEN s[k] ELSE s[k + 1]
    OBVIOUS
  <2>2. r[k] = IF k <= Len(a) THEN a[k] ELSE b[k - Len(a)]
    BY <1>1, <1>2, <1>3, <1>4, <1>5, ConcatProperties
  <2>3. CASE k < i
    BY <1>1, <1>2, <2>2, <2>3
  <2>4. CASE k >= i
    <3>1. k - (i - 1) \in 1..(Len(s) - i) /\ i + (k - (i - 1)) = k + 1 /\ ~(k <= i - 1)
      BY <1>1, <1>5, <2>4
    <3>2. QED
      BY <1>2, <1>3, <2>2, <2>4, <3>1
  <2>5. QED
    BY <1>1, <1>5, <2>3, <2>4
<1>7. DOMAIN r = 1..(Len(s) - 1)
  BY <1>5, LenProperties
<1>8. IsInjective(r)
  <2>1. SUFFICES ASSUME NEW k \in DOMAIN r, NEW l \in DOMAIN r, r[k] = r[l] PROVE k = l
    BY DEF IsInjective
  <2> DEFINE at(n) == IF n < i THEN n ELSE n + 1
  <2>2. at(k) \in 1..Len(s) /\ at(l) \in 1..Len(s) /\ r[k] = s[at(k)] /\ r[l] = s[at(l)]
    BY <1>1, <1>5, <1>6, <1>7
  <2>3. at(k) = at(l)
    BY <1>1, <2>1, <2>2 DEF IsInjective
  <2>4. QED
    BY <1>1, <1>7, <2>3
<1>9. ToSet(r) = ToSet(s) \ {s[i]}
  <2>1. ASSUME NEW x \in ToSet(r) PROVE x \in ToSet(s) \ {s[i]}
    <3>1. PICK k \in 1..(Len(s) - 1) : x = r[k]
      BY <1>7 DEF ToSet
    <3>2. PICK n \in 1..Len(s) : x = s[n] /\ n # i
      BY <1>1, <1>5, <1>6, <3>1
    <3>3. QED
      BY <1>1, <3>2 DEF ToSet, IsInjective
  <2>2. ASSUME NEW x \in ToSet(s), x # s[i] PROVE x \in ToSet(r)
    <3>1. PICK n \in 1..Len(s) : x = s[n] /\ n # i
      BY <1>1, <2>2 DEF ToSet
    <3> DEFINE k == IF n < i THEN n ELSE n - 1
    <3>2. k \in 1..(Len(s) - 1) /\ (IF k < i THEN k ELSE k + 1) = n
      BY <1>1, <3>1
    <3>3. r[k] = x
      BY <1>5, <1>6, <3>1, <3>2
    <3>4. QED
      BY <1>7, <3>2, <3>3 DEF ToSet
  <2>3. QED
    BY <2>1, <2>2
<1>10. QED
  BY <1>5, <1>8, <1>9 DEF r

LEMMA AppendAdds ==
    ASSUME NEW S, NEW s \in Seq(S), NEW x \in S
    PROVE  /\ Append(s, x) \in Seq(S) /\ Len(Append(s, x)) = Len(s) + 1
           /\ ToSet(Append(s, x)) = ToSet(s) \cup {x}
           /\ IsInjective(s) /\ x \notin ToSet(s) => IsInjective(Append(s, x))
<1> DEFINE r == Append(s, x)
<1>1. /\ Len(s) \in Nat /\ DOMAIN s = 1..Len(s)
      /\ r \in Seq(S) /\ Len(r) = Len(s) + 1 /\ DOMAIN r = 1..(Len(s) + 1)
      /\ \A i \in 1..Len(s) : r[i] = s[i]
      /\ r[Len(s) + 1] = x
  BY LenProperties, AppendProperties
<1> HIDE DEF r
<1>2. ToSet(r) = ToSet(s) \cup {x}
  BY <1>1 DEF ToSet
<1>3. ASSUME IsInjective(s), x \notin ToSet(s) PROVE IsInjective(r)
  BY <1>1, <1>3 DEF IsInjective, ToSet
<1>4. QED
  BY <1>1, <1>2, <1>3 DEF r

LEMMA ToSetFinite ==
    ASSUME NEW S, NEW s \in Seq(S)
    PROVE  IsFiniteSet(ToSet(s)) /\ ToSet(s) \subseteq S /\ (ToSet(s) = {} <=> s = <<>>)
<1>1. Len(s) \in Nat /\ DOMAIN s = 1..Len(s) /\ \A i \in 1..Len(s) : s[i] \in S
  BY LenProperties, ElementOfSeq
<1>2. s \in Surjection(1..Len(s), ToSet(s))
  BY <1>1 DEF Surjection, ToSet
<1>3. IsFiniteSet(1..Len(s))
  BY <1>1, FS_Interval
<1>4. IsFiniteSet(ToSet(s))
  BY <1>2, <1>3, FS_Surjection
<1>5. ToSet(s) = {} <=> s = <<>>
  BY <1>1 DEF ToSet
<1>6. QED
  BY <1>1, <1>4, <1>5 DEF ToSet

(* A finite set of numbers that is not empty has a greatest.               *)
LEMMA GreatestExists ==
    ASSUME NEW T, IsFiniteSet(T), T \subseteq Nat, T # {}
    PROVE  \E n \in T : \A m \in T : n >= m
<1> DEFINE Bad == {s \in SUBSET T : s # {} /\ \A n \in s : \E m \in s : ~(n >= m)}
<1>1. ASSUME Bad # {} PROVE FALSE
  <2>1. PICK s \in Bad : \A t \in SUBSET s : t # s => t \notin Bad
    BY <1>1, SmallestFirst
  <2>2. s \subseteq T /\ s # {} /\ \A n \in s : \E m \in s : ~(n >= m)
    BY <2>1
  <2>3. PICK x \in s : TRUE
    BY <2>2
  <2> DEFINE rest == s \ {x}
  <2>4. rest # {}
    BY <2>2, <2>3
  <2>5. PICK n \in rest : \A m \in rest : n >= m
    BY <2>1, <2>2, <2>3, <2>4
  <2>6. CASE n >= x
    BY <2>2, <2>5, <2>6
  <2>7. CASE ~(n >= x)
    BY <2>2, <2>3, <2>5, <2>7
  <2>8. QED
    BY <2>6, <2>7
<1>2. QED
  BY <1>1
===============================================================================
