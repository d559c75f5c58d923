------------------------- MODULE ArithmeticProofs -------------------------
(***************************************************************************)
(* Facts about natural numbers and paths that the other proofs cite:       *)
(* induction, least and greatest elements, powers of two, division, and    *)
(* functions defined by recursion on an interval.                          *)
(***************************************************************************)
EXTENDS Integers, FiniteSets, FiniteSetsExt, FiniteSetTheorems,
        WellFoundedInduction, TLAPS

(* A nonempty set of naturals has a least element.                         *)
LEMMA LeastNatural ==
  ASSUME NEW S \in SUBSET Nat, S # {}
  PROVE  \E n \in S : \A m \in S : n <= m
<1>1. PICK n \in S : \A m \in S : <<m, n>> \notin OpToRel(<, Nat)
  BY NatLessThanWellFounded, WFMin
<1>2. ASSUME NEW m \in S PROVE n <= m
  <2>1. ~(m < n)
    BY <1>1 DEF OpToRel
  <2> QED
    BY <2>1
<1> QED
  BY <1>2

(* Induction, for a set instead of a predicate.                            *)
LEMMA Induction ==
  ASSUME NEW S, 0 \in S, \A n \in Nat : n \in S => n + 1 \in S
  PROVE  Nat \subseteq S
<1> SUFFICES ASSUME Nat \ S # {} PROVE FALSE
  OBVIOUS
<1>1. PICK n \in Nat \ S : \A m \in Nat \ S : n <= m
  BY LeastNatural
<1>2. n - 1 \in Nat
  OBVIOUS
<1>3. n - 1 \in S
  BY <1>1, <1>2
<1>4. (n - 1) + 1 \in S
  BY <1>2, <1>3
<1> QED
  BY <1>4

(* A nonempty set of naturals below a bound has a greatest element, and it *)
(* is what Max chooses.                                                    *)
LEMMA GreatestNatural ==
  ASSUME NEW S \in SUBSET Nat, S # {}, NEW k \in Nat, \A n \in S : n <= k
  PROVE  Max(S) \in S /\ \A n \in S : n <= Max(S)
<1> DEFINE Above == {m \in Nat : \A n \in S : n <= m}
<1>1. PICK m \in Above : \A l \in Above : m <= l
  <2>1. k \in Above
    OBVIOUS
  <2> HIDE DEF Above
  <2>2. Above \in SUBSET Nat
    BY DEF Above
  <2> QED
    BY <2>1, <2>2, LeastNatural
<1>2. m \in S
  <2> SUFFICES ASSUME m \notin S PROVE FALSE
    OBVIOUS
  <2>1. \A n \in S : n < m
    BY <1>1
  <2>3. m - 1 \in Nat
    <3>1. PICK n \in S : TRUE
      OBVIOUS
    <3> QED
      BY <2>1, <3>1
  <2>2. m - 1 \in Above
    BY <2>1, <2>3
  <2> QED
    BY <2>2, <1>1
<1>3. \E x \in S : \A y \in S : x >= y
  BY <1>1, <1>2
<1> QED
  BY <1>3 DEF Max

-----------------------------------------------------------------------------
(* The subsets of 1 .. n + 1 are those of 1 .. n, each with and without    *)
(* n + 1; this is how the prover gets to know of powers of two.            *)
LEMMA DoublePower ==
  ASSUME NEW n \in Nat
  PROVE  2^(n + 1) = 2 * 2^n
<1> DEFINE S == 1 .. n
           A == SUBSET S
           B == {T \cup {n + 1} : T \in A}
           f == [T \in A |-> T \cup {n + 1}]
<1>1. IsFiniteSet(S) /\ Cardinality(S) = n
  BY FS_Interval
<1>2. IsFiniteSet(1 .. n + 1) /\ Cardinality(1 .. n + 1) = n + 1
  BY FS_Interval
<1>3. IsFiniteSet(A) /\ Cardinality(A) = 2^n
  BY <1>1, FS_SUBSET
<1>4. Cardinality(SUBSET (1 .. n + 1)) = 2^(n + 1)
  BY <1>2, FS_SUBSET
<1>5. ExistsBijection(A, B)
  <2>1. \A T, U \in A : f[T] = f[U] => T = U
    <3> SUFFICES ASSUME NEW T \in A, NEW U \in A, f[T] = f[U]
                 PROVE  T = U
      OBVIOUS
    <3>1. n + 1 \notin T /\ n + 1 \notin U
      OBVIOUS
    <3> QED
      BY <3>1
  <2>2. f \in [A -> B]
    OBVIOUS
  <2>3. \A x \in B : \E T \in A : f[T] = x
    OBVIOUS
  <2>4. f \in Bijection(A, B)
    BY <2>1, <2>2, <2>3 DEF Bijection, Injection, Surjection, IsInjective
  <2> QED
    BY <2>4 DEF ExistsBijection
<1>6. IsFiniteSet(B) /\ Cardinality(B) = 2^n
  BY <1>3, <1>5, FS_Bijection
<1>7. SUBSET (1 .. n + 1) = A \cup B
  <2>1. ASSUME NEW U \in SUBSET (1 .. n + 1), n + 1 \in U
        PROVE  U \in B
    <3>1. U \ {n + 1} \in A /\ U = (U \ {n + 1}) \cup {n + 1}
      BY <2>1
    <3> QED
      BY <3>1
  <2>2. ASSUME NEW U \in SUBSET (1 .. n + 1), n + 1 \notin U
        PROVE  U \in A
    BY <2>2
  <2>3. A \subseteq SUBSET (1 .. n + 1)
    OBVIOUS
  <2>4. ASSUME NEW T \in A PROVE T \cup {n + 1} \in SUBSET (1 .. n + 1)
    OBVIOUS
  <2>5. B \subseteq SUBSET (1 .. n + 1)
    BY <2>4
  <2> HIDE DEF A, B, S
  <2> QED
    BY <2>1, <2>2, <2>3, <2>5
<1>8. A \cap B = {}
  <2>1. \A T \in A : n + 1 \notin T
    OBVIOUS
  <2>2. \A T \in B : n + 1 \in T
    OBVIOUS
  <2> HIDE DEF A, B
  <2> QED
    BY <2>1, <2>2
<1> HIDE DEF A, B
<1>9. Cardinality(A \cup B) = Cardinality(A) + Cardinality(B) - Cardinality({})
  BY <1>3, <1>6, <1>8, FS_Union
<1>10. Cardinality({}) = 0
  BY FS_EmptySet
<1>11. 2^n \in Nat
  BY <1>3, FS_CardinalityType
<1>12. 2^(n + 1) = Cardinality(A) + Cardinality(B) - 0
  BY <1>4, <1>7, <1>9, <1>10
<1>13. 2^(n + 1) = 2^n + 2^n - 0
  BY <1>3, <1>6, <1>12
<1> QED
  BY <1>11, <1>13

(* Powers of two are positive.                                             *)
LEMMA PowerPositive ==
  ASSUME NEW n \in Nat
  PROVE  2^n \in Nat /\ 1 <= 2^n
<1> DEFINE S == {m \in Nat : 2^m \in Nat /\ 1 <= 2^m}
<1>1. 0 \in S
  BY 2^0 = 1
<1>2. ASSUME NEW m \in Nat, m \in S PROVE m + 1 \in S
  BY <1>2, DoublePower
<1> HIDE DEF S
<1>3. Nat \subseteq S
  BY <1>1, <1>2, Induction
<1> QED
  BY <1>3 DEF S

(* They grow.                                                              *)
LEMMA PowerMonotone ==
  ASSUME NEW m \in Nat, NEW n \in Nat, m <= n
  PROVE  2^m <= 2^n
<1> DEFINE S == {d \in Nat : 2^m <= 2^(m + d)}
<1>1. 0 \in S
  BY PowerPositive, m + 0 = m
<1>2. ASSUME NEW d \in Nat, d \in S PROVE d + 1 \in S
  <2>1. 2^((m + d) + 1) = 2 * 2^(m + d) /\ 2^(m + d) \in Nat /\ 2^m \in Nat
    BY DoublePower, PowerPositive
  <2>2. m + (d + 1) = (m + d) + 1
    OBVIOUS
  <2> QED
    BY <1>2, <2>1, <2>2
<1> HIDE DEF S
<1>3. n - m \in S
  BY <1>1, <1>2, Induction
<1>4. m + (n - m) = n
  OBVIOUS
<1> QED
  BY <1>3, <1>4 DEF S

-----------------------------------------------------------------------------
(* Quotient and remainder are the only numbers that do what they do.       *)
LEMMA DivisionUnique ==
  ASSUME NEW M \in Nat \ {0}, NEW q \in Nat, NEW r \in Nat, r < M
  PROVE  (q * M + r) % M = r /\ (q * M + r) \div M = q
<1> DEFINE x == q * M + r
           p == x \div M
           e == x % M
<1>1. x \in Nat
  OBVIOUS
<1>2. p \in Int /\ e \in Nat /\ e < M /\ x = p * M + e
  BY <1>1
<1>3. (p - q) * M = r - e
  BY <1>2
<1>4. ~(p - q >= 1)
  <2> SUFFICES ASSUME p - q >= 1 PROVE FALSE
    OBVIOUS
  <2> HIDE DEF p, e, x
  <2>1. (p - q) * M >= M
    BY <1>2
  <2> QED
    BY <1>2, <1>3, <2>1
<1>5. ~(p - q <= 0 - 1)
  <2> SUFFICES ASSUME p - q <= 0 - 1 PROVE FALSE
    OBVIOUS
  <2> HIDE DEF p, e, x
  <2>1. (p - q) * M <= 0 - M
    BY <1>2
  <2> QED
    BY <1>2, <1>3, <2>1
<1>6. p = q
  BY <1>2, <1>4, <1>5
<1>7. e = r
  BY <1>2, <1>3, <1>6
<1> QED
  BY <1>6, <1>7

(* The lowest bit apart, a remainder is the remainder of the half.         *)
LEMMA HalfRemainder ==
  ASSUME NEW x \in Nat, NEW M \in Nat \ {0}
  PROVE  x % (2 * M) = (x % 2) + 2 * ((x \div 2) % M)
<1> DEFINE h == x \div 2
           q == h \div M
           r == h % M
<1>1. h \in Nat /\ x = 2 * h + (x % 2) /\ x % 2 \in 0 .. 1
  OBVIOUS
<1>2. q \in Nat /\ r \in Nat /\ r < M /\ h = q * M + r
  BY <1>1
<1>3. (x % 2) + 2 * r \in Nat /\ (x % 2) + 2 * r < 2 * M /\ 2 * M \in Nat \ {0}
  BY <1>1, <1>2
<1> HIDE DEF q, r, h
<1>4. q * (2 * M) = 2 * (q * M) /\ q * M \in Nat
  BY <1>2
<1>5. h = q * M + r
  BY <1>2
<1>6. x = q * (2 * M) + ((x % 2) + 2 * r)
  BY <1>1, <1>2, <1>4, <1>5
<1>7. (q * (2 * M) + ((x % 2) + 2 * r)) % (2 * M) = (x % 2) + 2 * r
  BY <1>2, <1>3, DivisionUnique
<1> QED
  BY <1>6, <1>7 DEF r, h

(* Without its highest bit, a number is its remainder.                     *)
LEMMA HighestBitRemainder ==
  ASSUME NEW M \in Nat \ {0}, NEW x \in Nat, M <= x, x < 2 * M
  PROVE  x - M = x % M
<1>1. x - M \in Nat /\ x - M < M
  OBVIOUS
<1>2. (1 * M + (x - M)) % M = x - M
  BY <1>1, DivisionUnique
<1> QED
  BY <1>2

-----------------------------------------------------------------------------
(* A walk of n steps along nxt, which stops at 0, is what its recursive    *)
(* definition says.                                                        *)
IsWalk(f, nxt, first, n) ==
  f = [i \in 0 .. n |-> IF i = 0 THEN first
                        ELSE IF f[i - 1] = 0 THEN 0 ELSE nxt[f[i - 1]]]

LEMMA WalkExists ==
  ASSUME NEW nxt, NEW first, NEW n \in Nat
  PROVE  \E f : IsWalk(f, nxt, first, n)
<1> DEFINE Step(f, i) == IF i = 0 THEN first
                         ELSE IF f[i - 1] = 0 THEN 0 ELSE nxt[f[i - 1]]
           S == {k \in Nat : \E f : f = [i \in 0 .. k |-> Step(f, i)]}
<1>1. 0 \in S
  <2>1. [i \in 0 .. 0 |-> first]
           = [i \in 0 .. 0 |-> Step([j \in 0 .. 0 |-> first], i)]
    OBVIOUS
  <2> QED
    BY <2>1
<1>2. ASSUME NEW k \in Nat, k \in S PROVE k + 1 \in S
  <2>1. PICK f : f = [i \in 0 .. k |-> Step(f, i)]
    BY <1>2
  <2> DEFINE g == [i \in 0 .. k + 1 |-> IF i <= k THEN f[i] ELSE Step(f, i)]
  <2>2. ASSUME NEW i \in 0 .. k + 1 PROVE g[i] = Step(g, i)
    <3>1. i # 0 => i - 1 \in 0 .. k /\ g[i - 1] = f[i - 1]
      OBVIOUS
    <3>2. Step(g, i) = Step(f, i)
      BY <3>1
    <3>3. i <= k => f[i] = Step(f, i)
      BY <2>1
    <3> QED
      BY <3>2, <3>3
  <2>3. g = [i \in 0 .. k + 1 |-> Step(g, i)]
    BY <2>2
  <2> HIDE DEF g, Step
  <2>4. \E e : e = [i \in 0 .. k + 1 |-> Step(e, i)]
    BY <2>3
  <2> QED
    BY <2>4
<1> HIDE DEF S
<1>3. n \in S
  BY <1>1, <1>2, Induction
<1> QED
  BY <1>3 DEF S, IsWalk
=============================================================================
