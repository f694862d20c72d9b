---------------------------- MODULE NaturalExtrema ----------------------------
(***************************************************************************)
(* Sets of natural numbers have a least element and, when they are         *)
(* bounded, a greatest one: what a CHOOSE of the first or last day and of  *)
(* the largest id rests on.                                                *)
(***************************************************************************)
EXTENDS Integers, WellFoundedInduction, TLAPS

(* A non-empty set of natural numbers has a least element. *)
THEOREM LeastNatural ==
  ASSUME NEW T, T \subseteq Nat, T # {}
  PROVE  \E x \in T : \A y \in T : x <= y
<1>1. \E x \in T : \A y \in T : <<y, x>> \notin OpToRel(<, Nat)
  BY NatLessThanWellFounded, WFMin
<1>2. PICK x \in T : \A y \in T : <<y, x>> \notin OpToRel(<, Nat)
  BY <1>1
<1>3. \A y \in T : ~ (y < x)
  BY <1>2 DEF OpToRel
<1> QED
  BY <1>3

(* A bounded non-empty set of natural numbers has a greatest element. *)
THEOREM GreatestNatural ==
  ASSUME NEW T, NEW n \in Nat, T \subseteq Nat, \A x \in T : x <= n, T # {}
  PROVE  \E x \in T : \A y \in T : y <= x
<1> DEFINE S == {n - x : x \in T}
<1>1. S \subseteq Nat
  OBVIOUS
<1>2. S # {}
  <2>1. PICK x : x \in T
    OBVIOUS
  <2>2. n - x \in S
    BY <2>1
  <2> QED
    BY <2>2
<1>3. PICK s \in S : \A y \in S : s <= y
  BY <1>1, <1>2, LeastNatural
<1>4. PICK x \in T : s = n - x
  OBVIOUS
<1>5. ASSUME NEW y \in T PROVE y <= x
  <2>1. n - y \in S
    OBVIOUS
  <2>2. s <= n - y
    BY <1>3, <2>1
  <2> QED
    BY <1>4, <2>2
<1> QED
  BY <1>5

(* Numbers at finitely many places have a highest one, by its first place  *)
(* and by its last.  A least bound up to which there is none would have to *)
(* be the place of the highest itself.                                     *)
LEMMA HighestExists ==
  ASSUME NEW n \in Nat, NEW S, S \subseteq 1..n, S # {},
         NEW f, \A i \in S : f[i] \in Nat
  PROVE  \E i \in S : \A j \in S : f[j] <= f[i]
<1> DEFINE Upto(m) == {i \in S : i <= m}
           Has(m) == Upto(m) = {} \/ \E i \in Upto(m) : \A j \in Upto(m) : f[j] <= f[i]
           T == {m \in Nat : ~Has(m)}
<1>1. T = {}
  <2> SUFFICES ASSUME T # {} PROVE FALSE
    OBVIOUS
  <2>1. T \subseteq Nat
    OBVIOUS
  <2>2. \E m \in T : \A k \in T : m <= k
    <3> HIDE DEF T
    <3> QED
      BY <2>1, LeastNatural
  <2>3. PICK m \in Nat : ~Has(m) /\ \A k \in Nat : ~Has(k) => m <= k
    BY <2>2
  <2>4. m # 0
    <3>1. \A i \in S : ~ (i <= 0)
      OBVIOUS
    <3>2. Upto(0) = {}
      BY <3>1
    <3> QED
      BY <2>3, <3>2
  <2>5. Has(m - 1)
    <3>1. m - 1 \in Nat /\ ~ (m <= m - 1)
      BY <2>3, <2>4
    <3> HIDE DEF Has
    <3> QED
      BY <2>3, <3>1
  <2>6. Upto(m) = Upto(m - 1) \cup (S \cap {m})
    <3>1. \A i \in S : i <= m <=> i <= m - 1 \/ i = m
      BY <2>3
    <3> QED
      BY <3>1
  <2>7. \A i \in Upto(m) : f[i] \in Nat
    OBVIOUS
  <2> HIDE DEF Upto
  <2>8. CASE m \notin S
    BY <2>3, <2>5, <2>6, <2>8
  <2>9. CASE m \in S /\ Upto(m - 1) = {}
    BY <2>3, <2>6, <2>7, <2>9
  <2>10. CASE m \in S /\ Upto(m - 1) # {}
    <3>1. PICK i \in Upto(m - 1) : \A j \in Upto(m - 1) : f[j] <= f[i]
      BY <2>5, <2>10
    <3>2. CASE f[m] <= f[i]
      BY <2>3, <2>6, <3>1, <3>2
    <3>3. CASE f[i] <= f[m]
      <4>1. \A j \in Upto(m) : f[j] <= f[m]
        BY <2>6, <2>7, <2>10, <3>1, <3>3
      <4> QED
        BY <2>3, <2>6, <2>10, <4>1
    <3>4. f[m] \in Nat /\ f[i] \in Nat
      BY <2>3, <2>6, <2>7, <2>10, <3>1
    <3>5. f[m] <= f[i] \/ f[i] <= f[m]
      BY <3>4
    <3> QED
      BY <3>2, <3>3, <3>5
  <2> QED
    BY <2>8, <2>9, <2>10
<1>2. Has(n)
  BY <1>1
<1>3. Upto(n) = S
  <2>1. \A i \in S : i <= n
    OBVIOUS
  <2> QED
    BY <2>1
<1> QED
  BY <1>2, <1>3

THEOREM FirstHighestExists ==
  ASSUME NEW n \in Nat, NEW S, S \subseteq 1..n, S # {},
         NEW f, \A i \in S : f[i] \in Nat
  PROVE  \E i \in S : \A j \in S : f[j] < f[i] \/ (f[j] = f[i] /\ i <= j)
<1>1. PICK h \in S : \A j \in S : f[j] <= f[h]
  BY HighestExists
<1> DEFINE T == {i \in S : f[i] = f[h]}
<1>2. T \subseteq Nat /\ T # {}
  <2>1. \A i \in S : i \in Nat
    OBVIOUS
  <2>2. h \in T
    OBVIOUS
  <2> QED
    BY <2>1, <2>2
<1>3. PICK i \in T : \A j \in T : i <= j
  <2> HIDE DEF T
  <2> QED
    BY <1>2, LeastNatural
<1>4. \A j \in S : f[j] < f[i] \/ (f[j] = f[i] /\ i <= j)
  BY <1>1, <1>3
<1> QED
  BY <1>3, <1>4

THEOREM LastHighestExists ==
  ASSUME NEW n \in Nat, NEW S, S \subseteq 1..n, S # {},
         NEW f, \A i \in S : f[i] \in Nat
  PROVE  \E i \in S : \A j \in S : f[j] < f[i] \/ (f[j] = f[i] /\ j <= i)
<1>1. PICK h \in S : \A j \in S : f[j] <= f[h]
  BY HighestExists
<1> DEFINE T == {i \in S : f[i] = f[h]}
<1>2. T \subseteq Nat /\ T # {} /\ \A i \in T : i <= n
  <2>1. \A i \in S : i \in Nat /\ i <= n
    OBVIOUS
  <2>2. h \in T
    OBVIOUS
  <2> QED
    BY <2>1, <2>2
<1>3. PICK i \in T : \A j \in T : j <= i
  <2> HIDE DEF T
  <2> QED
    BY <1>2, GreatestNatural
<1>4. \A j \in S : f[j] < f[i] \/ (f[j] = f[i] /\ j <= i)
  BY <1>1, <1>3
<1> QED
  BY <1>3, <1>4
=============================================================================
