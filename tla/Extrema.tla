------------------------------- MODULE Extrema -------------------------------
(***************************************************************************)
(* The first and the last of a set of numbers: what Min, Max and the       *)
(* CHOOSE of the models' operators return.  That they exist is the well-   *)
(* foundedness of the natural numbers.                                     *)
(***************************************************************************)
EXTENDS Integers, FiniteSetsExt, WellFoundedInduction, TLAPS

\* A set of numbers that is not empty has a first.
LEMMA LeastExists ==
    ASSUME NEW S, S \subseteq Nat, S # {}
    PROVE  \E n \in S : \A m \in S : n <= m
<1>1. PICK n \in S : \A m \in S : ~(<<m, n>> \in OpToRel(<, Nat))
  BY WFMin, NatLessThanWellFounded
<1>2. \A m \in S : ~(m < n)
  BY <1>1 DEF OpToRel
<1> QED
  BY <1>2

\* If it is bounded, it has a last: its distance from the bound is least.
LEMMA GreatestExists ==
    ASSUME NEW N \in Nat, NEW S, S \subseteq 0..N, S # {}
    PROVE  \E n \in S : \A m \in S : m <= n
<1> DEFINE R == {k \in 0..N : N - k \in S}
<1>1. PICK s \in S : TRUE
  OBVIOUS
<1>2. s \in 0..N /\ N - s \in R
  BY <1>1
<1>3. PICK r \in R : \A k \in R : r <= k
  <2>1. R \subseteq Nat /\ R # {}
    BY <1>2
  <2> HIDE DEF R
  <2> QED
    BY <2>1, LeastExists
<1>4. ASSUME NEW m \in S PROVE m <= N - r
  <2>1. m \in 0..N /\ N - m \in 0..N /\ N - (N - m) = m
    BY <1>4
  <2>2. r <= N - m
    BY <2>1, <1>3
  <2> QED
    BY <2>1, <2>2, r \in 0..N
<1> QED
  BY <1>3, <1>4

\* Min returns the first of a set of numbers.
LEMMA MinIsLeast ==
    ASSUME NEW S, S \subseteq Nat, S # {}
    PROVE  Min(S) \in S /\ \A m \in S : Min(S) <= m
  BY LeastExists DEF Min

\* Max returns the last of a bounded set of numbers.
LEMMA MaxIsGreatest ==
    ASSUME NEW N \in Nat, NEW S, S \subseteq 0..N, S # {}
    PROVE  Max(S) \in S /\ \A m \in S : m <= Max(S)
  BY GreatestExists DEF Max
=============================================================================
