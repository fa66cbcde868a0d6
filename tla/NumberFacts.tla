----------------------------- MODULE NumberFacts ------------------------------
(***************************************************************************)
(* Facts about numbers that stand in for induction in the proofs of the    *)
(* components: a nonempty set of numbers has a least one, and numbers that *)
(* increase have no room to move in an interval of their size.             *)
(***************************************************************************)
EXTENDS Naturals, WellFoundedInduction, TLAPS

\* A nonempty set of numbers has a least one.
LEMMA LeastNumber ==
  ASSUME NEW T \in SUBSET Nat, T # {}
  PROVE  \E x \in T : \A y \in T : x <= y
<1>1. IsWellFoundedOn(OpToRel(<, Nat), Nat) BY NatLessThanWellFounded
<1>2. PICK x \in T : \A y \in T : ~ (<<y, x>> \in OpToRel(<, Nat)) BY <1>1, WFMin
<1>3. ASSUME NEW y \in T PROVE x <= y
  <2>1. ~ (y < x) BY <1>2 DEF OpToRel
  <2>2. x \in Nat /\ y \in Nat OBVIOUS
  <2> QED BY <2>1, <2>2
<1> QED BY <1>3

\* m numbers that increase, of m numbers in a row, are all of them in order.
LEMMA IncreasingIsInterval ==
  ASSUME NEW a \in Nat, NEW m \in Nat, NEW s \in [1..m -> a..(a + m - 1)],
         \A i, j \in 1..m : i < j => s[i] < s[j]
  PROVE  s = [i \in 1..m |-> a + i - 1]
<1>1. ASSUME NEW k \in 1..m, s[k] < a + k - 1 PROVE FALSE
  <2> DEFINE T == {i \in 1..m : s[i] < a + i - 1}
  <2>1. PICK i \in T : \A j \in T : i <= j
    <3>1. T \in SUBSET Nat OBVIOUS
    <3>2. k \in T BY <1>1
    <3> HIDE DEF T
    <3> QED BY <3>1, <3>2, LeastNumber
  <2>2. i \in 1..m /\ s[i] < a + i - 1 /\ s[i] \in a..(a + m - 1) OBVIOUS
  <2>3. i - 1 \in 1..m /\ i - 1 < i BY <2>2
  <2>4. s[i - 1] \in a..(a + m - 1) /\ s[i - 1] < s[i] BY <2>2, <2>3
  <2>5. ~ (i - 1 \in T) BY <2>1, <2>2, <2>3
  <2>6. ~ (s[i - 1] < a + (i - 1) - 1) BY <2>3, <2>5
  <2> HIDE DEF T
  <2> QED BY <2>2, <2>3, <2>4, <2>6
<1>2. ASSUME NEW k \in 1..m, s[k] > a + k - 1 PROVE FALSE
  <2> DEFINE T == {n \in 0..(m - 1) : s[m - n] > a + (m - n) - 1}
  <2>1. PICK n \in T : \A j \in T : n <= j
    <3>1. T \in SUBSET Nat OBVIOUS
    <3>2. m - k \in 0..(m - 1) /\ m - (m - k) = k OBVIOUS
    <3>3. m - k \in T BY <1>2, <3>2
    <3> HIDE DEF T
    <3> QED BY <3>1, <3>3, LeastNumber
  <2>2. n \in 0..(m - 1) /\ s[m - n] > a + (m - n) - 1 OBVIOUS
  <2>3. m - n \in 1..m BY <2>2
  <2>4. s[m - n] \in a..(a + m - 1) BY <2>3
  <2>5. n # 0 BY <2>2, <2>4
  <2>6. n - 1 \in 0..(m - 1) /\ m - (n - 1) \in 1..m /\ m - n < m - (n - 1)
    BY <2>2, <2>5
  <2>7. s[m - n] < s[m - (n - 1)] /\ s[m - (n - 1)] \in a..(a + m - 1) BY <2>3, <2>6
  <2>8. ~ (n - 1 \in T)
    <3>1. ~ (n <= n - 1) BY <2>2
    <3> HIDE DEF T
    <3> QED BY <3>1, <2>1
  <2>9. ~ (s[m - (n - 1)] > a + (m - (n - 1)) - 1) BY <2>6, <2>8
  <2> HIDE DEF T
  <2> QED BY <2>2, <2>4, <2>7, <2>9
<1>3. ASSUME NEW k \in 1..m PROVE s[k] = a + k - 1
  <2>1. s[k] \in a..(a + m - 1) OBVIOUS
  <2>2. ~ (s[k] < a + k - 1) BY <1>1
  <2>3. ~ (s[k] > a + k - 1) BY <1>2
  <2>4. s[k] \in Nat /\ a + k - 1 \in Nat BY <2>1
  <2> QED BY <2>2, <2>3, <2>4
<1> QED BY <1>3
=============================================================================
