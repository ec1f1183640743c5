---------------------------- MODULE Recursion ----------------------------
(***************************************************************************)
(* Induction over the natural numbers, stated of sets of them, and that a  *)
(* function is defined by a first value and a step.                        *)
(***************************************************************************)
EXTENDS Integers, WellFoundedInduction, TLAPS

(* A set of natural numbers that is not empty has a least one.             *)
LEMMA LeastNatural ==
    ASSUME NEW S, S \subseteq Nat, S # {}
    PROVE  \E m \in S : \A k \in S : m <= k
<1> DEFINE Less == OpToRel(<, Nat)
<1>1. IsWellFoundedOn(Less, Nat)
  BY NatLessThanWellFounded
<1>2. \A j, k \in Nat : j < k => <<j, k>> \in Less
  BY DEF OpToRel
<1> HIDE DEF Less
<1>3. PICK m \in S : \A k \in S : ~(<<k, m>> \in Less)
  BY <1>1, WFMin
<1>4. \A k \in S : ~(k < m)
  BY <1>2, <1>3
<1>5. \A k \in S : m <= k
  BY <1>3, <1>4
<1>6. QED
  BY <1>3, <1>5

(* A set that has 0 and every successor has them all.                      *)
LEMMA EveryNatural ==
    ASSUME NEW S, 0 \in S, \A n \in Nat : n \in S => n + 1 \in S
    PROVE  \A n \in Nat : n \in S
<1>1. SUFFICES ASSUME Nat \ S # {}
               PROVE  FALSE
  OBVIOUS
<1>2. PICK m \in Nat \ S : \A k \in Nat \ S : m <= k
  BY <1>1, LeastNatural
<1>3. m # 0 /\ m - 1 \in Nat /\ (m - 1) + 1 = m /\ ~(m <= m - 1)
  <2>1. m \in Nat /\ m # 0
    OBVIOUS
  <2>2. QED
    BY ONLY <2>1
<1>4. m - 1 \in S
  BY <1>2, <1>3
<1>5. QED
  BY <1>3, <1>4

(* f goes from the first value to the last, a step at a time.              *)
Steps(X, first, step, last, f) ==
    /\ f \in [0..last -> X]
    /\ f[0] = first
    /\ \A i \in 1..last : f[i] = step[i][f[i - 1]]

IsStep(X, step) == step \in [Nat -> [X -> X]]

(* A first value and a step from each value to the next define a function. *)
LEMMA StepsDefine ==
    ASSUME NEW X, NEW first \in X, NEW step, IsStep(X, step), NEW last \in Nat
    PROVE  \E f : Steps(X, first, step, last, f)
<1>a. step \in [Nat -> [X -> X]]
  BY DEF IsStep
<1> DEFINE Defines(n, f) == /\ f[0] = first
                            /\ \A i \in 1..n : f[i] = step[i][f[i - 1]]
           Good == {n \in Nat : \E f \in [0..n -> X] : Defines(n, f)}
<1>1. 0 \in Good
  <2> DEFINE f == [i \in 0..0 |-> first]
  <2>1. f \in [0..0 -> X] /\ Defines(0, f)
    OBVIOUS
  <2>2. QED
    BY <2>1
<1>2. ASSUME NEW n \in Nat, n \in Good
      PROVE  n + 1 \in Good
  <2>1. PICK f \in [0..n -> X] : Defines(n, f)
    BY <1>2
  <2> DEFINE next == step[n + 1][f[n]]
             longer == [i \in 0..n + 1 |-> IF i = n + 1 THEN next ELSE f[i]]
  <2>2. n \in 0..n /\ next \in X
    BY <1>a
  <2> HIDE DEF next
  <2>3. \A i \in 0..n + 1 : i = n + 1 \/ i \in 0..n
    OBVIOUS
  <2>4. longer \in [0..n + 1 -> X]
    BY <2>2, <2>3
  <2>5. \A i \in 0..n : i \in 0..n + 1 /\ i # n + 1
    OBVIOUS
  <2>6. (\A i \in 0..n : longer[i] = f[i]) /\ longer[n + 1] = next
    BY <2>5
  <2> HIDE DEF longer
  <2>7. ASSUME NEW i \in 1..n + 1
        PROVE  longer[i] = step[i][longer[i - 1]]
    <3>1. CASE i = n + 1
      <4>1. i - 1 = n
        BY <3>1
      <4>2. QED
        BY <2>2, <2>6, <3>1, <4>1 DEF next
    <3>2. CASE i # n + 1
      <4>1. i \in 1..n /\ i \in 0..n /\ i - 1 \in 0..n
        BY <3>2
      <4>2. QED
        BY <2>1, <2>6, <4>1
    <3>3. QED
      BY <3>1, <3>2
  <2>8. longer[0] = first
    <3>1. 0 \in 0..n
      OBVIOUS
    <3>2. QED
      BY <2>1, <2>6, <3>1
  <2>9. n + 1 \in Nat
    OBVIOUS
  <2>10. QED
    BY <2>4, <2>7, <2>8, <2>9
<1>3. last \in Good
  <2> HIDE DEF Good
  <2>1. QED
    BY <1>1, <1>2, EveryNatural
<1>4. QED
  BY <1>3 DEF Steps

(* Induction up to a bound.                                                *)
LEMMA EveryIndex ==
    ASSUME NEW last \in Nat, NEW S, 0 \in S, \A i \in 1..last : i - 1 \in S => i \in S
    PROVE  \A i \in 0..last : i \in S
<1> DEFINE Good == {n \in Nat : n \in 0..last => n \in S}
<1>1. 0 \in Good
  OBVIOUS
<1>2. ASSUME NEW n \in Nat, n \in Good
      PROVE  n + 1 \in Good
  <2>1. n + 1 \in 0..last => n \in 0..last /\ n + 1 \in 1..last /\ n + 1 - 1 = n
    OBVIOUS
  <2>2. QED
    BY <1>2, <2>1
<1>3. \A n \in Nat : n \in Good
  <2> HIDE DEF Good
  <2>1. QED
    BY <1>1, <1>2, EveryNatural
<1>4. QED
  BY <1>3

==========================================================================
