------------------------------- MODULE Picking -------------------------------
(***************************************************************************)
(* Sorting and selecting without recursion: the element that k others come *)
(* before is the (k+1)-st.                                                 *)
(***************************************************************************)
EXTENDS Integers, Sequences, FiniteSets

(* The elements of a finite set by a strict total order, a set of pairs.   *)
CountBefore(S, R, x) == Cardinality({y \in S : <<y, x>> \in R})
InOrder(S, R) == [i \in 1..Cardinality(S) |-> CHOOSE x \in S : CountBefore(S, R, x) = i - 1]

(* Numbers in ascending order.                                             *)
Less(S)   == {p \in S \X S : p[1] < p[2]}
Ranked(S) == InOrder(S, Less(S))

(* The elements of a sequence at the given places.                         *)
Picked(s, I) == [i \in 1..Cardinality(I) |-> s[Ranked(I)[i]]]
=============================================================================
