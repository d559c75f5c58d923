-------------------------- MODULE HashTableProofs --------------------------
(***************************************************************************)
(* The hash table, for any number of threads, keys, hashes and bits.       *)
(*                                                                         *)
(* First two things that do not speak of its list: that reversed bits      *)
(* number the buckets as ht_get_sentinel needs it, and that what ht_resize *)
(* publishes is there before an index needs it.  Then the list: that it    *)
(* stays sorted, and what follows from it.                                 *)
(***************************************************************************)
EXTENDS HashTable, ArithmeticProofs

-----------------------------------------------------------------------------
(* Reversing bits.                                                         *)

Hashes == 0 .. MaxHash

(* There are hashes, and halves and remainders of hashes are hashes.       *)
LEMMA HashesFacts ==
  /\ MaxHash \in Nat /\ 2^Width \in Nat
  /\ \A h \in Hashes : h \div 2 \in Hashes
  /\ \A w \in 0 .. Width : 2^w \in Nat /\ 1 <= 2^w /\ 2^w - 1 <= MaxHash
<1>1. 2^Width \in Nat /\ 1 <= 2^Width
  BY WidthAssumption, PowerPositive
<1>2. MaxHash \in Nat
  BY <1>1 DEF MaxHash
<1>3. \A h \in Hashes : h \div 2 \in Hashes
  BY <1>2 DEF Hashes
<1>4. ASSUME NEW w \in 0 .. Width
      PROVE  2^w \in Nat /\ 1 <= 2^w /\ 2^w - 1 <= MaxHash
  <2>1. 2^w \in Nat /\ 1 <= 2^w /\ 2^w <= 2^Width
    BY WidthAssumption, PowerPositive, PowerMonotone
  <2> QED
    BY <1>1, <2>1 DEF MaxHash
<1> QED
  BY <1>1, <1>2, <1>3, <1>4

(* The recursion that defines Reversed has a solution.                     *)
LEMMA ReversedIs ==
  Reversed = [w \in 0 .. Width |->
                [h \in 0 .. MaxHash |->
                   IF w = 0 THEN 0
                   ELSE (h % 2) * 2^(w - 1) + Reversed[w - 1][h \div 2]]]
<1> DEFINE Row(f, w) ==
             [h \in 0 .. MaxHash |->
                IF w = 0 THEN 0 ELSE (h % 2) * 2^(w - 1) + f[w - 1][h \div 2]]
           S == {k \in Nat : \E f : f = [w \in 0 .. k |-> Row(f, w)]}
<1>1. 0 \in S
  <2> DEFINE g == [w \in 0 .. 0 |-> [h \in 0 .. MaxHash |-> 0]]
  <2>1. \A w \in 0 .. 0 : Row(g, w) = [h \in 0 .. MaxHash |-> 0]
    OBVIOUS
  <2>2. g = [w \in 0 .. 0 |-> Row(g, w)]
    BY <2>1
  <2> HIDE DEF g, Row
  <2>3. \E f : f = [w \in 0 .. 0 |-> Row(f, w)]
    BY <2>2
  <2> QED
    BY <2>3
<1>2. ASSUME NEW k \in Nat, k \in S PROVE k + 1 \in S
  <2>1. PICK f : f = [w \in 0 .. k |-> Row(f, w)]
    BY <1>2
  <2> DEFINE g == [w \in 0 .. k + 1 |-> IF w <= k THEN f[w] ELSE Row(f, w)]
  <2>2. ASSUME NEW w \in 0 .. k + 1 PROVE g[w] = Row(g, w)
    <3>1. w # 0 => w - 1 \in 0 .. k /\ g[w - 1] = f[w - 1]
      OBVIOUS
    <3>2. Row(g, w) = Row(f, w)
      BY <3>1
    <3>3. w <= k => f[w] = Row(f, w)
      <4> HIDE DEF Row
      <4> QED
        BY <2>1
    <3> HIDE DEF Row
    <3> QED
      BY <3>2, <3>3
  <2> HIDE DEF Row
  <2>3. g = [w \in 0 .. k + 1 |-> Row(g, w)]
    BY <2>2
  <2> HIDE DEF g
  <2>4. \E e : e = [w \in 0 .. k + 1 |-> Row(e, w)]
    BY <2>3
  <2> QED
    BY <2>4
<1> HIDE DEF S
<1>3. Width \in S
  BY <1>1, <1>2, Induction, WidthAssumption
<1>4. \E f : f = [w \in 0 .. Width |-> Row(f, w)]
  BY <1>3 DEF S
<1> QED
  BY <1>4 DEF Reversed

(* One step of it: the lowest bit goes to the top.                         *)
LEMMA ReversedStep ==
  ASSUME NEW h \in Hashes
  PROVE  /\ Reversed[0][h] = 0
         /\ \A w \in Nat : w + 1 <= Width =>
              Reversed[w + 1][h] = (h % 2) * 2^w + Reversed[w][h \div 2]
<1>1. 0 \in 0 .. Width
  BY WidthAssumption
<1>2. Reversed[0][h] = 0
  BY <1>1, ReversedIs DEF Hashes
<1>3. ASSUME NEW w \in Nat, w + 1 <= Width
      PROVE  Reversed[w + 1][h] = (h % 2) * 2^w + Reversed[w][h \div 2]
  <2>1. w + 1 \in 0 .. Width /\ w + 1 # 0 /\ (w + 1) - 1 = w
    BY <1>3, WidthAssumption
  <2>2. Reversed[w + 1] =
          [g \in 0 .. MaxHash |->
             IF w + 1 = 0 THEN 0
             ELSE (g % 2) * 2^((w + 1) - 1) + Reversed[(w + 1) - 1][g \div 2]]
    BY <2>1, ReversedIs
  <2>3. Reversed[w + 1] = [g \in 0 .. MaxHash |->
                             (g % 2) * 2^w + Reversed[w][g \div 2]]
    BY <2>1, <2>2
  <2> QED
    BY <2>3 DEF Hashes
<1> QED
  BY <1>2, <1>3

(* w bits are reversed into w bits.                                        *)
LEMMA ReversedRange ==
  ASSUME NEW w \in 0 .. Width, NEW h \in Hashes
  PROVE  Reversed[w][h] \in 0 .. 2^w - 1
<1> DEFINE S == {v \in Nat : v <= Width =>
                   \A g \in Hashes : Reversed[v][g] \in 0 .. 2^v - 1}
<1>1. 0 \in S
  BY ReversedStep, 2^0 = 1
<1>2. ASSUME NEW v \in Nat, v \in S PROVE v + 1 \in S
  <2> SUFFICES ASSUME v + 1 <= Width, NEW g \in Hashes
               PROVE  Reversed[v + 1][g] \in 0 .. 2^(v + 1) - 1
    OBVIOUS
  <2>1. g \div 2 \in Hashes /\ g \in Nat
    BY HashesFacts DEF Hashes
  <2>2. Reversed[v][g \div 2] \in 0 .. 2^v - 1
    BY <1>2, <2>1, WidthAssumption
  <2>3. Reversed[v + 1][g] = (g % 2) * 2^v + Reversed[v][g \div 2]
    BY ReversedStep
  <2>4. 2^(v + 1) = 2 * 2^v /\ 2^v \in Nat
    BY DoublePower, PowerPositive
  <2>5. (g % 2) * 2^v = 0 \/ (g % 2) * 2^v = 2^v
    <3>1. g % 2 = 0 \/ g % 2 = 1
      BY <2>1
    <3>2. 0 * 2^v = 0 /\ 1 * 2^v = 2^v
      BY <2>4
    <3> QED
      BY <3>1, <3>2
  <2> QED
    BY <2>2, <2>3, <2>4, <2>5
<1> HIDE DEF S
<1>3. w \in S
  BY <1>1, <1>2, Induction, WidthAssumption
<1> QED
  BY <1>3, WidthAssumption DEF S

(* The same without a product.                                             *)
LEMMA ReversedCases ==
  ASSUME NEW w \in Nat, w + 1 <= Width, NEW h \in Hashes
  PROVE  /\ h % 2 = 0 => Reversed[w + 1][h] = Reversed[w][h \div 2]
         /\ h % 2 = 1 => Reversed[w + 1][h] = 2^w + Reversed[w][h \div 2]
<1>1. Reversed[w + 1][h] = (h % 2) * 2^w + Reversed[w][h \div 2]
  BY ReversedStep
<1>2. Reversed[w][h \div 2] \in Int
  <2>1. h \div 2 \in Hashes /\ w \in 0 .. Width /\ 2^w \in Nat
    BY HashesFacts, WidthAssumption
  <2> QED
    BY <2>1, ReversedRange
<1>3. 0 * 2^w = 0 /\ 1 * 2^w = 2^w
  BY PowerPositive
<1> QED
  BY <1>1, <1>2, <1>3

(* Nothing reversed is nothing, something is something.                    *)
LEMMA ReversedPositive ==
  ASSUME NEW w \in 0 .. Width, NEW h \in 0 .. 2^w - 1
  PROVE  Reversed[w][h] = 0 <=> h = 0
<1> DEFINE S == {v \in Nat : v <= Width =>
                   \A g \in 0 .. 2^v - 1 : Reversed[v][g] = 0 <=> g = 0}
<1>1. 0 \in S
  <2>1. 0 \in Hashes
    BY HashesFacts DEF Hashes
  <2> QED
    BY <2>1, ReversedStep, 2^0 = 1
<1>2. ASSUME NEW v \in Nat, v \in S PROVE v + 1 \in S
  <2> SUFFICES ASSUME v + 1 <= Width, NEW g \in 0 .. 2^(v + 1) - 1
               PROVE  Reversed[v + 1][g] = 0 <=> g = 0
    OBVIOUS
  <2>1. v + 1 \in 0 .. Width /\ v \in 0 .. Width
    BY WidthAssumption
  <2>2. g \in Hashes /\ g \in Nat
    BY <2>1, HashesFacts DEF Hashes
  <2>3. 2^(v + 1) = 2 * 2^v /\ 2^v \in Nat /\ 1 <= 2^v
    BY DoublePower, PowerPositive
  <2>4. g \div 2 \in 0 .. 2^v - 1 /\ g \div 2 \in Hashes
    BY <2>2, <2>3, HashesFacts
  <2>5. Reversed[v][g \div 2] = 0 <=> g \div 2 = 0
    BY <1>2, <2>1, <2>4
  <2>6. Reversed[v][g \div 2] \in Nat
    BY <2>1, <2>3, <2>4, ReversedRange
  <2>7. CASE g % 2 = 0
    <3>1. Reversed[v + 1][g] = Reversed[v][g \div 2]
      BY <2>2, <2>7, ReversedCases
    <3>2. g \div 2 = 0 <=> g = 0
      BY <2>2, <2>7
    <3> QED
      BY <2>5, <3>1, <3>2
  <2>8. CASE g % 2 = 1
    <3>1. Reversed[v + 1][g] = 2^v + Reversed[v][g \div 2]
      BY <2>2, <2>8, ReversedCases
    <3>2. g # 0
      BY <2>2, <2>8
    <3> QED
      BY <2>3, <2>6, <3>1, <3>2
  <2> QED
    BY <2>2, <2>7, <2>8
<1> HIDE DEF S
<1>3. w \in S
  BY <1>1, <1>2, Induction, WidthAssumption
<1> QED
  BY <1>3, WidthAssumption DEF S

(* A bit on top of w others ends up lowest.                                *)
LEMMA ReversedTop ==
  ASSUME NEW w \in Nat, w + 1 <= Width, NEW h \in 0 .. 2^w - 1
  PROVE  /\ Reversed[w + 1][h] = 2 * Reversed[w][h]
         /\ Reversed[w + 1][h + 2^w] = 2 * Reversed[w][h] + 1
<1> DEFINE Good(v) == \A g \in 0 .. 2^v - 1 :
                        /\ Reversed[v + 1][g] = 2 * Reversed[v][g]
                        /\ Reversed[v + 1][g + 2^v] = 2 * Reversed[v][g] + 1
           S == {v \in Nat : v + 1 <= Width => Good(v)}
<1>1. 0 \in S
  <2>1. 0 \in Hashes /\ 1 \in Hashes
    <3>1. 1 \in 0 .. Width /\ 2^1 = 2
      BY WidthAssumption
    <3>2. 2^1 - 1 <= MaxHash /\ MaxHash \in Nat
      BY <3>1, HashesFacts
    <3> QED
      BY <3>1, <3>2 DEF Hashes
  <2>2. Reversed[0][0] = 0 /\ Reversed[0 + 1][0] = Reversed[0][0 \div 2]
    BY <2>1, ReversedStep, ReversedCases, WidthAssumption
  <2>3. Reversed[0 + 1][1] = 2^0 + Reversed[0][1 \div 2]
    <3>1. 0 \in Nat /\ 0 + 1 <= Width /\ 1 % 2 = 1
      BY WidthAssumption
    <3> QED
      BY <2>1, <3>1, ReversedCases
  <2>4. 0 \div 2 = 0 /\ 1 \div 2 = 0 /\ 2^0 = 1 /\ 0 .. 2^0 - 1 = {0} /\ 0 + 2^0 = 1
    OBVIOUS
  <2>5. Reversed[0 + 1][0] = 0 /\ Reversed[0 + 1][1] = 1
    BY <2>2, <2>3, <2>4
  <2>6. Good(0)
    BY <2>2, <2>4, <2>5
  <2> QED
    BY <2>6
<1>2. ASSUME NEW v \in Nat, v \in S PROVE v + 1 \in S
  <2> SUFFICES ASSUME (v + 1) + 1 <= Width, NEW g \in 0 .. 2^(v + 1) - 1
               PROVE  /\ Reversed[(v + 1) + 1][g] = 2 * Reversed[v + 1][g]
                      /\ Reversed[(v + 1) + 1][g + 2^(v + 1)]
                           = 2 * Reversed[v + 1][g] + 1
    OBVIOUS
  <2> DEFINE half == g \div 2
             top  == g + 2^(v + 1)
  <2>1. v \in 0 .. Width /\ v + 1 \in 0 .. Width /\ (v + 1) + 1 \in 0 .. Width
        /\ v + 1 \in Nat /\ v + 1 <= Width
    BY WidthAssumption
  <2>2. 2^(v + 1) = 2 * 2^v /\ 2^v \in Nat /\ 1 <= 2^v
        /\ 2^((v + 1) + 1) = 2 * 2^(v + 1)
    BY <2>1, DoublePower, PowerPositive
  <2>3. 2^((v + 1) + 1) - 1 <= MaxHash /\ MaxHash \in Nat
    BY <2>1, HashesFacts
  <2>4. g \in Hashes /\ top \in Hashes
    BY <2>2, <2>3 DEF Hashes
  <2>5. half \in 0 .. 2^v - 1 /\ top % 2 = g % 2 /\ top \div 2 = half + 2^v
        /\ g % 2 \in 0 .. 1
    BY <2>2
  <2>6. half \in Hashes
    BY <2>4, HashesFacts
  <2>7. /\ Reversed[v + 1][half] = 2 * Reversed[v][half]
        /\ Reversed[v + 1][half + 2^v] = 2 * Reversed[v][half] + 1
    BY <1>2, <2>1, <2>5
  <2>8. Reversed[v][half] \in Nat
    BY <2>1, <2>2, <2>6, ReversedRange
  <2>9. CASE g % 2 = 0
    <3>1. /\ Reversed[(v + 1) + 1][g] = Reversed[v + 1][half]
          /\ Reversed[(v + 1) + 1][top] = Reversed[v + 1][half + 2^v]
          /\ Reversed[v + 1][g] = Reversed[v][half]
      BY <2>1, <2>4, <2>5, <2>9, ReversedCases
    <3> QED
      BY <2>7, <3>1
  <2>10. CASE g % 2 = 1
    <3>1. /\ Reversed[(v + 1) + 1][g] = 2^(v + 1) + Reversed[v + 1][half]
          /\ Reversed[(v + 1) + 1][top]
               = 2^(v + 1) + Reversed[v + 1][half + 2^v]
          /\ Reversed[v + 1][g] = 2^v + Reversed[v][half]
      BY <2>1, <2>4, <2>5, <2>10, ReversedCases
    <3> HIDE DEF half, top
    <3>2. /\ Reversed[(v + 1) + 1][g] = 2 * Reversed[v + 1][g]
          /\ Reversed[(v + 1) + 1][top] = 2 * Reversed[v + 1][g] + 1
      BY <2>2, <2>7, <2>8, <3>1
    <3> QED
      BY <3>2 DEF top
  <2> QED
    BY <2>5, <2>9, <2>10
<1> HIDE DEF S
<1>3. w \in S
  BY <1>1, <1>2, Induction
<1> QED
  BY <1>3 DEF S

(* Reversing bits twice changes nothing.                                   *)
LEMMA ReversedTwice ==
  ASSUME NEW w \in 0 .. Width, NEW h \in 0 .. 2^w - 1
  PROVE  Reversed[w][Reversed[w][h]] = h
<1> DEFINE S == {v \in Nat : v <= Width =>
                   \A g \in 0 .. 2^v - 1 : Reversed[v][Reversed[v][g]] = g}
<1>1. 0 \in S
  <2>1. 0 \in Hashes
    BY HashesFacts DEF Hashes
  <2> QED
    BY <2>1, ReversedStep, 2^0 = 1
<1>2. ASSUME NEW v \in Nat, v \in S PROVE v + 1 \in S
  <2> SUFFICES ASSUME v + 1 <= Width, NEW g \in 0 .. 2^(v + 1) - 1
               PROVE  Reversed[v + 1][Reversed[v + 1][g]] = g
    OBVIOUS
  <2> DEFINE half == g \div 2
             r    == Reversed[v][half]
  <2>1. v + 1 \in 0 .. Width /\ v \in 0 .. Width
    BY WidthAssumption
  <2>2. 2^(v + 1) = 2 * 2^v /\ 2^v \in Nat /\ 1 <= 2^v
    BY DoublePower, PowerPositive
  <2>3. g \in Hashes /\ g \in Nat
    BY <2>1, HashesFacts DEF Hashes
  <2>4. half \in 0 .. 2^v - 1 /\ half \in Hashes
    BY <2>2, <2>3, HashesFacts
  <2>5. r \in 0 .. 2^v - 1
    BY <2>1, <2>4, ReversedRange
  <2>6. Reversed[v][r] = half
    BY <1>2, <2>1, <2>4
  <2> HIDE DEF r
  <2>7. /\ Reversed[v + 1][r] = 2 * Reversed[v][r]
        /\ Reversed[v + 1][r + 2^v] = 2 * Reversed[v][r] + 1
    BY <2>5, ReversedTop
  <2>8. CASE g % 2 = 0
    <3>1. Reversed[v + 1][g] = r
      BY <2>3, <2>8, ReversedCases DEF r
    <3>2. 2 * half = g
      BY <2>3, <2>8
    <3> QED
      BY <2>6, <2>7, <3>1, <3>2
  <2>9. CASE g % 2 = 1
    <3>1. Reversed[v + 1][g] = 2^v + r
      BY <2>3, <2>9, ReversedCases DEF r
    <3>2. 2 * half + 1 = g /\ 2^v + r = r + 2^v
      BY <2>2, <2>3, <2>5, <2>9
    <3> QED
      BY <2>6, <2>7, <3>1, <3>2
  <2> QED
    BY <2>3, <2>8, <2>9
<1> HIDE DEF S
<1>3. w \in S
  BY <1>1, <1>2, Induction, WidthAssumption
<1> QED
  BY <1>3, WidthAssumption DEF S

(* Taking the highest bits off makes the reverse smaller, if they were not *)
(* 0: a parent comes before its children in the list.                      *)
LEMMA ReversedPrefix ==
  ASSUME NEW w \in 0 .. Width, NEW h \in 0 .. 2^w - 1, NEW j \in Nat
  PROVE  /\ h % 2^j \in 0 .. h
         /\ Reversed[w][h % 2^j] <= Reversed[w][h]
         /\ h % 2^j # h => Reversed[w][h % 2^j] < Reversed[w][h]
<1> DEFINE Good(v) == \A g \in 0 .. 2^v - 1, i \in Nat :
                        /\ g % 2^i \in 0 .. g
                        /\ Reversed[v][g % 2^i] <= Reversed[v][g]
                        /\ g % 2^i # g => Reversed[v][g % 2^i] < Reversed[v][g]
           S == {v \in Nat : v <= Width => Good(v)}
<1>1. 0 \in S
  <2>1. ASSUME NEW i \in Nat PROVE 0 % 2^i = 0
    <3>1. 2^i \in Nat \ {0}
      BY PowerPositive
    <3> QED
      BY <3>1
  <2>2. 0 .. 2^0 - 1 = {0}
    BY 2^0 = 1
  <2>3. 0 \in Hashes
    BY HashesFacts DEF Hashes
  <2>4. Reversed[0][0] = 0
    BY <2>3, ReversedStep
  <2>5. Good(0)
    BY <2>1, <2>2, <2>4
  <2> QED
    BY <2>5
<1>2. ASSUME NEW v \in Nat, v \in S PROVE v + 1 \in S
  <2> SUFFICES ASSUME v + 1 <= Width, NEW g \in 0 .. 2^(v + 1) - 1, NEW i \in Nat
               PROVE  /\ g % 2^i \in 0 .. g
                      /\ Reversed[v + 1][g % 2^i] <= Reversed[v + 1][g]
                      /\ g % 2^i # g =>
                           Reversed[v + 1][g % 2^i] < Reversed[v + 1][g]
    OBVIOUS
  <2>1. v + 1 \in 0 .. Width /\ v \in 0 .. Width
    BY WidthAssumption
  <2>2. 2^(v + 1) = 2 * 2^v /\ 2^v \in Nat /\ 1 <= 2^v
    BY DoublePower, PowerPositive
  <2>3. g \in Hashes /\ g \in Nat
    BY <2>1, HashesFacts DEF Hashes
  <2>4. Reversed[v + 1][g] \in 0 .. 2^(v + 1) - 1
    BY <2>1, <2>3, ReversedRange
  <2>5. CASE i = 0
    <3>1. g % 2^i = 0
      BY <2>3, <2>5, 2^0 = 1
    <3>2. 0 \in 0 .. 2^(v + 1) - 1
      BY <2>2
    <3>3. Reversed[v + 1][0] = 0
      BY <2>1, <3>2, ReversedPositive
    <3>4. g # 0 => Reversed[v + 1][g] # 0
      BY <2>1, ReversedPositive
    <3> QED
      BY <2>2, <2>3, <2>4, <3>1, <3>3, <3>4
  <2>6. CASE i # 0
    <3> DEFINE half == g \div 2
               rest == half % 2^(i - 1)
               low  == g % 2^i
    <3>1. half \in 0 .. 2^v - 1 /\ half \in Hashes
      BY <2>2, <2>3, HashesFacts
    <3>2. i - 1 \in Nat /\ (i - 1) + 1 = i
      BY <2>6
    <3>3. 2^i = 2 * 2^(i - 1) /\ 2^(i - 1) \in Nat \ {0}
      BY <3>2, DoublePower, PowerPositive
    <3>4. low = (g % 2) + 2 * rest
      BY <2>3, <3>3, HalfRemainder
    <3>5. /\ rest \in 0 .. half
          /\ Reversed[v][rest] <= Reversed[v][half]
          /\ rest # half => Reversed[v][rest] < Reversed[v][half]
      BY <1>2, <2>1, <3>1, <3>2
    <3>6. g = (g % 2) + 2 * half /\ g % 2 \in 0 .. 1
      BY <2>3
    <3>7. rest \in Hashes
      BY <3>1, <3>5, HashesFacts DEF Hashes
    <3>8. Reversed[v][rest] \in Nat /\ Reversed[v][half] \in Nat
      BY <2>1, <2>2, <3>1, <3>7, ReversedRange
    <3> HIDE DEF half, rest, low
    <3>9. low \in 0 .. g /\ low % 2 = g % 2 /\ low \div 2 = rest
          /\ (low # g => rest # half)
      <4>1. rest \in Nat /\ half \in Nat /\ rest <= half
        BY <2>2, <3>1, <3>5
      <4> QED
        BY <3>4, <3>6, <4>1
    <3>10. low \in Hashes
      BY <2>3, <3>9, HashesFacts DEF Hashes
    <3>11. g \div 2 = half
      BY DEF half
    <3>12. CASE g % 2 = 0
      <4>1. /\ Reversed[v + 1][low] = Reversed[v][rest]
            /\ Reversed[v + 1][g] = Reversed[v][half]
        BY <2>3, <3>9, <3>10, <3>11, <3>12, ReversedCases
      <4> QED
        BY <3>5, <3>9, <4>1 DEF low
    <3>13. CASE g % 2 = 1
      <4>1. /\ Reversed[v + 1][low] = 2^v + Reversed[v][rest]
            /\ Reversed[v + 1][g] = 2^v + Reversed[v][half]
        BY <2>3, <3>9, <3>10, <3>11, <3>13, ReversedCases
      <4>2. /\ Reversed[v + 1][low] <= Reversed[v + 1][g]
            /\ low # g => Reversed[v + 1][low] < Reversed[v + 1][g]
        BY <2>2, <3>5, <3>8, <3>9, <4>1
      <4> QED
        BY <3>9, <4>2 DEF low
    <3> QED
      BY <3>6, <3>12, <3>13
  <2> QED
    BY <2>5, <2>6
<1> HIDE DEF S
<1>3. w \in S
  BY <1>1, <1>2, Induction, WidthAssumption
<1> QED
  BY <1>3, WidthAssumption DEF S

-----------------------------------------------------------------------------
(* The buckets.                                                            *)

Slots == 0 .. 2^MaxBitlen - 1

(* A bucket has one hash, and no other bucket has the same.                *)
LEMMA ReverseFacts ==
  /\ Reverse(0) = 0 /\ Reverse(1) = 2^(Width - 1)
  /\ {0, 1} \subseteq Slots /\ Slots \subseteq Hashes
  /\ \A h \in Hashes : Reverse(h) \in Hashes /\ Reverse(Reverse(h)) = h
<1> USE DEF Reverse
<1>1. Width \in 0 .. Width /\ Width - 1 \in Nat /\ (Width - 1) + 1 = Width
      /\ MaxBitlen \in 0 .. Width /\ MaxBitlen \in Nat /\ 1 \in 0 .. Width
      /\ Width - 1 \in 0 .. Width
  BY WidthAssumption, BoundsAssumption
<1>2. 2^MaxBitlen \in Nat /\ 2^MaxBitlen - 1 <= MaxHash /\ MaxHash \in Nat
      /\ Hashes = 0 .. 2^Width - 1
  BY <1>1, HashesFacts DEF Hashes, MaxHash
<1>3. 2 <= 2^MaxBitlen
  <2>1. 1 \in Nat /\ MaxBitlen \in Nat /\ 1 <= MaxBitlen
    BY <1>1, BoundsAssumption
  <2>2. 2^1 <= 2^MaxBitlen
    BY <2>1, PowerMonotone
  <2> QED
    BY <2>2
<1>4. {0, 1} \subseteq Slots /\ Slots \subseteq Hashes
  BY <1>2, <1>3 DEF Slots, Hashes
<1>5. ASSUME NEW h \in Hashes
      PROVE  Reverse(h) \in Hashes /\ Reverse(Reverse(h)) = h
  BY <1>1, <1>2, ReversedRange, ReversedTwice
<1>6. 0 \in Hashes /\ 1 \in Hashes
  BY <1>4
<1>7. Reverse(0) = 0
  BY <1>1, <1>2, <1>6, ReversedPositive
<1>8. Reverse(1) = 2^(Width - 1)
  <2>1. Reversed[Width][1] = 2^(Width - 1) + Reversed[Width - 1][1 \div 2]
    <3>1. Reversed[(Width - 1) + 1][1]
            = 2^(Width - 1) + Reversed[Width - 1][1 \div 2]
      <4>1. Width - 1 \in Nat /\ (Width - 1) + 1 <= Width /\ 1 % 2 = 1
        BY <1>1
      <4> QED
        BY <1>6, <4>1, ReversedCases
    <3> QED
      BY <1>1, <3>1
  <2>2. 1 \div 2 = 0
    OBVIOUS
  <2>3. 2^(Width - 1) \in Nat /\ 1 <= 2^(Width - 1)
    BY <1>1, PowerPositive
  <2>4. Reversed[Width - 1][0] = 0
    <3>1. 0 \in 0 .. 2^(Width - 1) - 1
      BY <2>3
    <3> QED
      BY <1>1, <3>1, ReversedPositive
  <2> QED
    BY <2>1, <2>2, <2>3, <2>4
<1> QED
  BY <1>4, <1>5, <1>7, <1>8

LEMMA SlotReverse ==
  ASSUME NEW s \in Slots
  PROVE  s \in Hashes /\ Reverse(s) \in Hashes /\ Reverse(s) \in Nat
<1>1. s \in Hashes /\ Reverse(s) \in Hashes
  BY ReverseFacts
<1> QED
  BY <1>1 DEF Hashes

LEMMA ReverseInjective ==
  ASSUME NEW g \in Hashes, NEW h \in Hashes, Reverse(g) = Reverse(h)
  PROVE  g = h
BY ReverseFacts

(* The reverse of a remainder of a bucket's number.                        *)
LEMMA PrefixFacts ==
  ASSUME NEW h \in Hashes, NEW j \in Nat
  PROVE  /\ h % 2^j \in 0 .. h
         /\ Reverse(h % 2^j) <= Reverse(h)
         /\ h % 2^j # h => Reverse(h % 2^j) < Reverse(h)
<1>1. Width \in 0 .. Width /\ h \in 0 .. 2^Width - 1
  BY WidthAssumption DEF Hashes, MaxHash
<1> QED
  BY <1>1, ReversedPrefix DEF Reverse

(* A hash falls into a bucket whose sentinel is not behind it.             *)
LEMMA SlotFacts ==
  ASSUME NEW h \in Hashes, NEW bits \in 1 .. MaxBitlen
  PROVE  SlotOf(h, bits) \in Slots /\ Reverse(SlotOf(h, bits)) <= h
<1> DEFINE idx == Reverse(h) % 2^bits
<1>1. h \in Nat /\ Reverse(h) \in Hashes /\ Reverse(h) \in Nat
      /\ Reverse(Reverse(h)) = h
  BY ReverseFacts DEF Hashes
<1>2. bits \in Nat /\ MaxBitlen \in Nat /\ bits <= MaxBitlen
  BY BoundsAssumption
<1>3. 2^bits \in Nat \ {0} /\ 2^bits <= 2^MaxBitlen /\ 2^MaxBitlen \in Nat
  BY <1>2, PowerPositive, PowerMonotone
<1>4. idx \in 0 .. 2^bits - 1
  BY <1>1, <1>3
<1>5. Reverse(idx) <= h
  BY <1>1, <1>2, PrefixFacts
<1>6. SlotOf(h, bits) = IF idx = 1 THEN 0 ELSE idx
  BY DEF SlotOf
<1> HIDE DEF idx
<1>7. SlotOf(h, bits) \in Slots
  BY <1>3, <1>4, <1>6 DEF Slots
<1>8. Reverse(SlotOf(h, bits)) <= h
  BY <1>1, <1>5, <1>6, ReverseFacts
<1> QED
  BY <1>7, <1>8

(* The offset within the array is the slot without its highest bit.        *)
LEMMA OffsetFacts ==
  ASSUME NEW slot \in Slots, slot # 0
  PROVE  \E b \in Nat : Offset(slot) = slot % 2^b /\ slot % 2^b < slot
<1> DEFINE B == {b \in 0 .. Width : 2^b <= slot}
           top == Max(B)
<1>1. slot \in Nat /\ 1 <= slot /\ slot < 2^MaxBitlen
      /\ MaxBitlen \in Nat /\ MaxBitlen <= Width /\ Width \in Nat
  <2>1. 2^MaxBitlen \in Nat /\ MaxBitlen \in Nat
    BY BoundsAssumption, PowerPositive
  <2> QED
    BY <2>1, BoundsAssumption, WidthAssumption DEF Slots
<1>2. top \in B /\ \A b \in B : b <= top
  <2>1. B \in SUBSET Nat /\ 0 \in B /\ \A b \in B : b <= Width
    BY <1>1, 2^0 = 1
  <2> HIDE DEF B
  <2> QED
    BY <1>1, <2>1, GreatestNatural
<1> HIDE DEF top
<1>3. top \in Nat /\ top <= Width /\ 2^top <= slot
  BY <1>1, <1>2
<1>4. 2^top \in Nat \ {0} /\ 2^(top + 1) = 2 * 2^top
  BY <1>3, PowerPositive, DoublePower
<1>5. slot < 2 * 2^top
  <2>1. SUFFICES ASSUME 2^(top + 1) <= slot PROVE FALSE
    BY <1>1, <1>4
  <2>2. ~(MaxBitlen <= top + 1)
    <3>1. MaxBitlen <= top + 1 => 2^MaxBitlen <= 2^(top + 1)
      BY <1>1, <1>3, PowerMonotone
    <3> QED
      BY <1>1, <1>4, <2>1, <3>1, PowerPositive
  <2>3. top + 1 \in B
    BY <1>1, <1>3, <2>1, <2>2
  <2> QED
    BY <1>2, <1>3, <2>3
<1>6. slot - 2^top = slot % 2^top
  BY <1>1, <1>3, <1>4, <1>5, HighestBitRemainder
<1>7. Offset(slot) = slot - 2^top
  BY DEF Offset, top
<1>8. slot % 2^top < slot
  BY <1>1, <1>4, <1>6
<1> QED
  BY <1>3, <1>6, <1>7, <1>8

(* A bucket falls back on one whose sentinel is in use and comes before.   *)
LEMMA ParentFacts ==
  ASSUME NEW slot \in Slots \ {0, 1}, NEW create \in BOOLEAN,
         buckets[0] # Null, buckets[1] # Null
  PROVE  /\ Parent(slot, create) \in Slots
         /\ buckets[Parent(slot, create)] # Null
         /\ Reverse(Parent(slot, create)) < Reverse(slot)
<1> DEFINE C == {s \in {Offset(slot) % 2^j : j \in 1 .. Width} :
                   buckets[s] # Null}
           up == Max(C)
<1>1. PICK b \in Nat : Offset(slot) = slot % 2^b /\ slot % 2^b < slot
  BY OffsetFacts
<1>2. slot \in Hashes /\ slot \in Nat
  BY ReverseFacts DEF Hashes
<1>3. /\ Offset(slot) \in 0 .. slot
      /\ Reverse(Offset(slot)) < Reverse(slot)
  BY <1>1, <1>2, PrefixFacts
<1>4. Offset(slot) \in Nat /\ Offset(slot) \in Hashes /\ Offset(slot) <= slot
  BY <1>2, <1>3, HashesFacts DEF Hashes
<1>5. up \in C
  <2>1. ASSUME NEW s \in C PROVE s \in 0 .. Offset(slot)
    <3>1. PICK j \in 1 .. Width : s = Offset(slot) % 2^j
      OBVIOUS
    <3> QED
      BY <1>4, <3>1, PrefixFacts, WidthAssumption
  <2>2. Offset(slot) % 2^1 \in C
    <3>1. 2^1 = 2 /\ 1 \in 1 .. Width
      BY WidthAssumption
    <3>2. Offset(slot) % 2 = 0 \/ Offset(slot) % 2 = 1
      BY <1>4
    <3>3. buckets[Offset(slot) % 2^1] # Null
      BY <3>1, <3>2
    <3> QED
      BY <3>1, <3>3
  <2> HIDE DEF C
  <2>3. C \in SUBSET Nat /\ C # {} /\ \A s \in C : s <= Offset(slot)
    BY <1>4, <2>1, <2>2
  <2> QED
    BY <1>4, <2>3, GreatestNatural
<1> HIDE DEF up
<1>6. PICK j \in 1 .. Width : up = Offset(slot) % 2^j
  BY <1>5
<1>7. up \in 0 .. slot /\ Reverse(up) < Reverse(slot) /\ buckets[up] # Null
  <2>1. up \in 0 .. Offset(slot) /\ Reverse(up) <= Reverse(Offset(slot))
    BY <1>4, <1>6, PrefixFacts, WidthAssumption
  <2>2. up \in Hashes
    BY <1>4, <2>1, HashesFacts DEF Hashes
  <2>3. Reverse(up) \in Nat /\ Reverse(Offset(slot)) \in Nat
        /\ Reverse(slot) \in Nat
    BY <1>2, <1>4, <2>2, ReverseFacts DEF Hashes
  <2>4. buckets[up] # Null
    BY <1>5
  <2> HIDE DEF C
  <2> QED
    BY <1>2, <1>3, <1>4, <2>1, <2>3, <2>4
<1>8. Parent(slot, create) = IF up = 1 /\ ~create THEN 0 ELSE up
  BY DEF Parent, up
<1>9. up \in Slots /\ 0 \in Slots
  <2>1. 2^MaxBitlen \in Nat
    BY BoundsAssumption, PowerPositive
  <2> QED
    BY <1>7, <2>1, ReverseFacts DEF Slots
<1>10. up = 1 => Reverse(0) < Reverse(slot)
  <2>1. Reverse(1) \in Nat /\ Reverse(0) = 0 /\ Reverse(slot) \in Nat
    BY <1>2, ReverseFacts DEF Hashes
  <2> QED
    BY <1>7, <2>1
<1> QED
  BY <1>7, <1>8, <1>9, <1>10

-----------------------------------------------------------------------------
(* ht_resize.                                                              *)

Resizing == {"array", "bits"}

(* What EXCEPT needs to know of pc and word.                               *)
Shape == /\ pc = [t \in Threads |-> pc[t]]
         /\ word = [t \in Threads |-> word[t]]

Counters == bitlen \in Int /\ bitlenInternal \in Int /\ 1 <= bitlen
            /\ bitlen <= bitlenInternal

(* A thread in ht_resize has claimed a number nobody has published yet.    *)
Claimed == \A t \in Threads :
  pc[t] \in Resizing => word[t] \in bitlen + 1 .. bitlenInternal

(* Two threads never claim the same one (the CAS on bitlen_internal).      *)
ClaimedOnce == \A s, t \in Threads :
  pc[s] \in Resizing /\ pc[t] \in Resizing /\ word[s] = word[t] => s = t

(* Who waits to publish a number has published the array it stands for.    *)
ArrayFirst == \A t \in Threads : pc[t] = "bits" => word[t] - 1 \in arrays

(* The inductive invariant.                                                *)
ResizeInv ==
  Shape /\ Counters /\ Claimed /\ ClaimedOnce /\ ArrayFirst /\ ArraysPublished

-----------------------------------------------------------------------------
(* The table of ht_init has one array, and nobody is in a call.            *)
LEMMA InitResize == Init => ResizeInv
<1> SUFFICES ASSUME Init PROVE ResizeInv
  OBVIOUS
<1>1. Shape
  <2>1. /\ pc = [t \in Threads |-> "idle"]
        /\ word = [t \in Threads |-> 0]
    BY DEF Init
  <2> QED
    BY <2>1 DEF Shape
<1>2. arrays = {0} /\ bitlen = 1 /\ bitlenInternal = 1
  BY DEF Init
<1>3. Counters /\ ArraysPublished
  BY <1>2 DEF Counters, ArraysPublished
<1>4. \A t \in Threads : pc[t] \notin Resizing
  <2>1. pc = [t \in Threads |-> "idle"]
    BY DEF Init
  <2> QED
    BY <2>1 DEF Resizing
<1>5. Claimed /\ ClaimedOnce /\ ArrayFirst
  BY <1>4 DEF Claimed, ClaimedOnce, ArrayFirst, Resizing
<1> QED
  BY <1>1, <1>3, <1>5 DEF ResizeInv

(* A step of a thread that is in ht_resize neither before nor after it,    *)
(* and leaves the counters and the arrays alone, does not disturb it.      *)
LEMMA Elsewhere ==
  ASSUME ResizeInv, NEW t \in Threads, NEW label, NEW value,
         label \notin Resizing,
         pc' = [pc EXCEPT ![t] = label],
         word' = [word EXCEPT ![t] = value],
         UNCHANGED <<arrays, bitlen, bitlenInternal>>
  PROVE  ResizeInv'
<1> USE DEF ResizeInv
<1>1. Shape'
  BY DEF Shape
<1>2. \A s \in Threads : pc'[s] \in Resizing => pc[s] = pc'[s]
                                                /\ word[s] = word'[s]
  BY DEF Shape
<1>3. Counters' /\ ArraysPublished'
  BY DEF Counters, ArraysPublished
<1>4. Claimed' /\ ClaimedOnce'
  BY <1>2 DEF Claimed, ClaimedOnce
<1>5. ArrayFirst'
  BY <1>2 DEF ArrayFirst, Resizing
<1> QED
  BY <1>1, <1>3, <1>4, <1>5

(* The same for a step that does not touch word.                           *)
LEMMA ElsewhereKept ==
  ASSUME ResizeInv, NEW t \in Threads, NEW label,
         label \notin Resizing,
         pc' = [pc EXCEPT ![t] = label],
         UNCHANGED <<word, arrays, bitlen, bitlenInternal>>
  PROVE  ResizeInv'
<1>1. word' = [word EXCEPT ![t] = word[t]]
  BY DEF ResizeInv, Shape
<1> QED
  BY <1>1, Elsewhere

(* A step that touches nothing the invariant speaks of.                    *)
LEMMA Untouched ==
  ASSUME ResizeInv, UNCHANGED <<pc, word, arrays, bitlen, bitlenInternal>>
  PROVE  ResizeInv'
BY DEF ResizeInv, Shape, Counters, Claimed, ClaimedOnce, ArrayFirst,
       ArraysPublished

(* Claiming the next number.                                               *)
LEMMA ClaimStep ==
  ASSUME ResizeInv, NEW t \in Threads, ClaimBitlen(t)
  PROVE  ResizeInv'
<1> USE DEF ResizeInv, ClaimBitlen, Goto
<1>1. Shape'
  BY DEF Shape
<1>2. Counters' /\ ArraysPublished'
  BY DEF Counters, ArraysPublished
<1>3. /\ pc'[t] = "array" /\ word'[t] = bitlenInternal + 1
      /\ \A s \in Threads \ {t} : pc'[s] = pc[s] /\ word'[s] = word[s]
  BY DEF Shape
<1>4. Claimed'
  BY <1>3 DEF Claimed, Counters
<1>5. ClaimedOnce'
  <2>1. \A s \in Threads \ {t} : pc'[s] \in Resizing => word'[s] # word'[t]
    BY <1>3 DEF Claimed, Counters
  <2> QED
    BY <1>3, <2>1 DEF ClaimedOnce
<1>6. ArrayFirst'
  BY <1>3 DEF ArrayFirst
<1> QED
  BY <1>1, <1>2, <1>4, <1>5, <1>6

(* Publishing the array.                                                   *)
LEMMA ArrayStep ==
  ASSUME ResizeInv, NEW t \in Threads, PublishArray(t)
  PROVE  ResizeInv'
<1> USE DEF ResizeInv, PublishArray, Goto, index, search
<1>1. Shape'
  BY DEF Shape
<1>2. Counters' /\ ArraysPublished'
  BY DEF Counters, ArraysPublished
<1>3. /\ pc[t] = "array" /\ pc'[t] = "bits" /\ word' = word
      /\ \A s \in Threads \ {t} : pc'[s] = pc[s]
  BY DEF Shape
<1>4. Claimed' /\ ClaimedOnce'
  BY <1>3 DEF Claimed, ClaimedOnce, Resizing
<1>5. ArrayFirst'
  BY <1>3 DEF ArrayFirst
<1> QED
  BY <1>1, <1>2, <1>4, <1>5

(* Publishing the number: the one before has been published, so its array  *)
(* and all before it are there, and this thread's own is too.              *)
LEMMA BitlenStep ==
  ASSUME ResizeInv, NEW t \in Threads, PublishBitlen(t)
  PROVE  ResizeInv'
<1> USE DEF ResizeInv, PublishBitlen, Goto
<1>1. Shape'
  BY DEF Shape
<1>2. word[t] \in bitlen + 1 .. bitlenInternal /\ bitlen' = bitlen + 1
  BY DEF Claimed, Counters, Resizing
<1>3. Counters'
  BY <1>2 DEF Counters
<1>4. ArraysPublished'
  <2>1. bitlen \in arrays
    BY <1>2 DEF ArrayFirst, Counters
  <2> QED
    BY <1>2, <2>1 DEF ArraysPublished, Counters
<1>5. /\ pc[t] = "bits" /\ pc'[t] = "locate" /\ word[t] = bitlen + 1
      /\ \A s \in Threads \ {t} : pc'[s] = pc[s] /\ word'[s] = word[s]
  BY <1>2 DEF Shape, Counters
<1>6. Claimed'
  <2> SUFFICES ASSUME NEW s \in Threads, pc'[s] \in Resizing
               PROVE  word'[s] \in bitlen' + 1 .. bitlenInternal'
    BY DEF Claimed
  <2>1. s # t
    BY <1>5 DEF Resizing
  <2>2. word[s] \in bitlen + 1 .. bitlenInternal /\ word[s] # word[t]
    BY <1>5, <2>1 DEF Claimed, ClaimedOnce, Resizing
  <2> QED
    BY <1>2, <1>5, <2>1, <2>2 DEF Counters
<1>7. ClaimedOnce' /\ ArrayFirst'
  BY <1>5 DEF ClaimedOnce, ArrayFirst, Resizing
<1> QED
  BY <1>1, <1>3, <1>4, <1>6, <1>7

-----------------------------------------------------------------------------
(* Every step keeps the invariant; all but the three above are elsewhere.  *)
LEMMA NextResize == ResizeInv /\ [Next]_vars => ResizeInv'
<1> SUFFICES ASSUME ResizeInv, [Next]_vars PROVE ResizeInv'
  OBVIOUS
<1> USE DEF Goto, index, search
<1>1. CASE UNCHANGED vars
  BY <1>1, Untouched DEF vars
<1>2. ASSUME NEW t \in Threads, Begin(t) PROVE ResizeInv'
  <2>1. PICK o \in Ops : Goto(t, IF o = "store" THEN "count" ELSE "locate")
    BY <1>2 DEF Begin
  <2>2. (IF o = "store" THEN "count" ELSE "locate") \notin Resizing
    BY DEF Resizing
  <2> QED
    BY <1>2, <2>1, <2>2, ElsewhereKept DEF Begin
<1>3. ASSUME NEW t \in Threads, Resize(t) PROVE ResizeInv'
  BY <1>3, ClaimStep, ArrayStep, BitlenStep DEF Resize
<1>4. ASSUME NEW t \in Threads, GetSentinel(t) PROVE ResizeInv'
  <2>1. CASE LocateSentinel(t)
    BY <2>1, ElsewhereKept DEF LocateSentinel, Resizing
  <2>2. CASE NewSentinel(t)
    BY <2>2, Elsewhere DEF NewSentinel, Resizing
  <2>3. CASE PublishSentinel(t)
    BY <2>3, ElsewhereKept DEF PublishSentinel, Resizing
  <2>4. CASE SeekFirst(t)
    BY <2>4, ElsewhereKept DEF SeekFirst, Resizing
  <2>5. CASE SeekNext(t)
    BY <2>5, Untouched DEF SeekNext
  <2>6. CASE AimSentinel(t)
    BY <2>6, ElsewhereKept DEF AimSentinel, Resizing
  <2>7. CASE SpliceSentinel(t)
    BY <2>7, ElsewhereKept DEF SpliceSentinel, Resizing
  <2> QED
    BY <1>4, <2>1, <2>2, <2>3, <2>4, <2>5, <2>6, <2>7 DEF GetSentinel
<1>5. ASSUME NEW t \in Threads, Search(t) PROVE ResizeInv'
  <2>1. CASE Walk(t)
    BY <2>1, ElsewhereKept DEF Walk, Resizing
  <2>2. CASE Pass(t)
    BY <2>2, Untouched DEF Pass
  <2>3. CASE Answer(t)
    BY <2>3, Elsewhere DEF Answer, Return, Resizing
  <2> QED
    BY <1>5, <2>1, <2>2, <2>3 DEF Search
<1>6. ASSUME NEW t \in Threads, Store(t) PROVE ResizeInv'
  <2>1. CASE CheckCount(t)
    <3>1. (IF elementCount > 2^bitlen THEN "claim" ELSE "locate") \notin Resizing
      BY DEF Resizing
    <3> QED
      BY <2>1, <3>1, ElsewhereKept DEF CheckCount
  <2>2. CASE PrepareNode(t)
    BY <2>2, ElsewhereKept DEF PrepareNode, Resizing
  <2>3. CASE LinkNode(t)
    BY <2>3, ElsewhereKept DEF LinkNode, Resizing
  <2>4. CASE CountNode(t)
    BY <2>4, Elsewhere DEF CountNode, Return, Resizing
  <2> QED
    BY <1>6, <2>1, <2>2, <2>3, <2>4 DEF Store
<1>7. ASSUME NEW t \in Threads, Delete(t) PROVE ResizeInv'
  <2>1. CASE ReadNext(t)
    BY <2>1, Elsewhere DEF ReadNext, Resizing
  <2>2. CASE CutNode(t) /\ next[prev[t]] = cur[t]
    <3>1. /\ pc' = [pc EXCEPT ![t] = "idle"]
          /\ word' = [word EXCEPT ![t] = 0]
          /\ UNCHANGED <<arrays, bitlen, bitlenInternal>>
      BY <2>2 DEF CutNode, Return
    <3>2. "idle" \notin Resizing
      BY DEF Resizing
    <3> QED
      BY <3>1, <3>2, Elsewhere
  <2>3. CASE CutNode(t) /\ next[prev[t]] # cur[t]
    BY <2>3, ElsewhereKept DEF CutNode, Resizing
  <2> QED
    BY <1>7, <2>1, <2>2, <2>3 DEF Delete
<1> QED
  BY <1>1, <1>2, <1>3, <1>4, <1>5, <1>6, <1>7 DEF Next

(* The invariant holds in every state of the table.                        *)
THEOREM ResizeInvariance == Spec => []ResizeInv
<1> QED
  BY InitResize, NextResize, PTL DEF Spec

(* Whatever threads double the table at once, and however far each of them *)
(* has got in ht_resize, every array an index below 2^bitlen falls into is *)
(* there: ht_get_sentinel never reads through a NULL in buckets.           *)
THEOREM ArraysArePublished == Spec => []ArraysPublished
<1>1. ResizeInv => ArraysPublished
  BY DEF ResizeInv
<1> QED
  BY <1>1, ResizeInvariance, PTL

-----------------------------------------------------------------------------
(* The sorted list.                                                        *)
(*                                                                         *)
(* The invariant speaks of two things the program does not keep: L, the    *)
(* nodes that were ever linked into the list, and b, for each node the     *)
(* keys of its own hash it was linked behind.  An invariant that only      *)
(* speaks of the nodes in the list does not last: a thread may link a key  *)
(* behind a node that another has cut out, or that is not spliced in yet.  *)

Live == 1 .. allocated
IsKey(n) == key[n] # NoKey
InBucket(n) == n # Null /\ \E s \in Slots : buckets[s] = n
SameRun(m, n) == IsKey(m) /\ hash[m] = hash[n]

(* The link from n to m is one of the sorted list.  Of the keys m was      *)
(* linked behind only those between n and m are not in it any more.        *)
Edge(L, b, n, m) ==
  /\ m \in L
  /\ hash[n] <= hash[m]
  /\ ~IsKey(m) /\ m # End => hash[n] < hash[m]
  /\ IsKey(m) /\ SameRun(n, m) => /\ {n} \cup b[n] \subseteq b[m]
                                  /\ b[m] \ ({n} \cup b[n]) \subseteq collected
  /\ IsKey(m) /\ ~SameRun(n, m) => b[m] \subseteq collected

(* It still leads from a sentinel that is not in the list to its parent.   *)
Lazy(L, n) ==
  ~IsKey(n) /\ n \notin L /\ InBucket(next[n]) /\ hash[next[n]] < hash[n]

Ghosts(L, b) ==
  /\ {First, Half, End} \subseteq L /\ L \subseteq Live
  /\ b \in [Nodes -> SUBSET L]
  /\ \A n \in Nodes : \A m \in b[n] :
       /\ n \in L /\ m # n /\ n \notin b[m]
       /\ IsKey(m) /\ IsKey(n) /\ hash[m] = hash[n]
       /\ key[m] = key[n] => m \in collected

Fields ==
  /\ ~IsKey(First) /\ ~IsKey(Half) /\ ~IsKey(End)
  /\ hash[End] = MaxHash /\ next[End] = Null
  /\ \A n \in Live : IsKey(n) => hash[n] = Hash[key[n]]

Buckets(L) ==
  /\ buckets[0] = First /\ buckets[1] = Half
  /\ \A s \in Slots : buckets[s] # Null =>
       /\ buckets[s] \in Live \ {End} /\ ~IsKey(buckets[s])
       /\ hash[buckets[s]] = Reverse(s)
  /\ \A n \in L \ {End} : ~IsKey(n) => InBucket(n)

Links(L, b) == \A n \in Live \ {End} : Edge(L, b, n, next[n]) \/ Lazy(L, n)

Sorted(L, b) == Ghosts(L, b) /\ Fields /\ Buckets(L) /\ Links(L, b)

-----------------------------------------------------------------------------
(* What a thread has found out when it gets to a line.                     *)

(* A node to link something behind.                                        *)
Seen(L, n) == n \in Live \ {End} /\ (n \in L \/ InBucket(n))

(* What was read from n->next, now or earlier.                             *)
Passed(L, b, n, m) ==
  Edge(L, b, n, m) \/ (InBucket(m) /\ hash[m] < hash[n])

(* The key is not among those of its hash that the search has passed.      *)
Knows(L, b, t) ==
  /\ Seen(L, prev[t]) /\ hash[prev[t]] <= Target(t)
  /\ SameRun(prev[t], prev[t]) /\ hash[prev[t]] = Target(t) =>
       \A m \in b[prev[t]] \cup {prev[t]} : key[m] = arg[t] => m \in collected

OwnKey(L, t) ==
  op[t] = "store" /\ fresh[t] \in Live \ L /\ key[fresh[t]] = arg[t]

OwnSentinel(L, t) ==
  /\ op[t] = "store"
  /\ fresh[t] \in Live \ L /\ ~IsKey(fresh[t])
  /\ word[t] \in Slots /\ hash[fresh[t]] = Reverse(word[t])
  /\ hash[fresh[t]] <= Target(t)
  /\ Seen(L, prev[t]) /\ hash[prev[t]] < hash[fresh[t]]

Started(t) == InBucket(start[t]) /\ hash[start[t]] <= Target(t)

Thread(L, b, t) ==
  /\ pc[t] # "idle" => arg[t] \in Keys /\ op[t] \in Ops
  /\ pc[t] \in {"count", "claim", "array", "bits"} => op[t] = "store"
  /\ pc[t] \in {"idle", "count", "claim", "array", "bits", "locate"} =>
       fresh[t] = Null
  /\ pc[t] \in {"walk", "scan", "cut", "link"} => Started(t)
  /\ pc[t] \in {"walk", "scan"} => fresh[t] = Null \/ OwnKey(L, t)
  /\ pc[t] = "scan" => Knows(L, b, t) /\ Passed(L, b, prev[t], cur[t])
  /\ pc[t] = "link" => /\ Knows(L, b, t) /\ OwnKey(L, t)
                       /\ Target(t) < hash[cur[t]] /\ next[fresh[t]] = cur[t]
  /\ pc[t] = "bump" => op[t] = "store"
  /\ pc[t] = "cut" => /\ op[t] = "del" /\ fresh[t] = Null
                      /\ Seen(L, prev[t]) /\ IsKey(cur[t])
                      /\ Edge(L, b, prev[t], cur[t])
                      /\ Edge(L, b, cur[t], word[t])
  /\ pc[t] \in {"publish", "first", "seek", "splice"} => OwnSentinel(L, t)
  /\ pc[t] = "publish" => ~InBucket(fresh[t])
  /\ pc[t] \in {"first", "seek", "splice"} => buckets[word[t]] = fresh[t]
  /\ pc[t] = "seek" => Passed(L, b, prev[t], cur[t])
  /\ pc[t] = "splice" => /\ Edge(L, b, prev[t], cur[t])
                         /\ hash[fresh[t]] <= hash[cur[t]]
                         /\ Edge(L, b, fresh[t], next[fresh[t]])

(* No two threads hold the same new node.                                  *)
Distinct ==
  /\ \A t \in Threads : fresh[t] \in Live \cup {Null}
  /\ \A s, t \in Threads : s # t /\ fresh[s] = fresh[t] => fresh[s] = Null

(* n is one of the nodes behind x.                                         *)
Behind(b, x, n) ==
  \/ hash[x] < hash[n]
  \/ x \in b[n]
  \/ ~IsKey(x) /\ IsKey(n) /\ hash[x] = hash[n]
  \/ n = End /\ x # End

(* The keys that were stored have been linked; as long as nothing is       *)
(* deleted and no bucket split, what was linked stays in the list.         *)
Kept(L) ==
  /\ \A k \in stored : \E n \in L : key[n] = k
  /\ Plain => L \subseteq List

(* A search for a key that was stored has not passed it.                   *)
Sought(L, b, t) ==
  pc[t] # "idle" /\ sure[t] =>
    /\ arg[t] \in stored
    /\ pc[t] = "scan" /\ Plain =>
         \E n \in L : key[n] = arg[t] /\ (n = cur[t] \/ Behind(b, cur[t], n))

IInv(L, b) ==
  /\ Sorted(L, b) /\ Distinct /\ Kept(L)
  /\ \A t \in Threads : Thread(L, b, t) /\ Sought(L, b, t)

(* The inductive invariant.                                                *)
TableInv == TypeOK /\ ResizeInv /\ \E L, b : IInv(L, b)

-----------------------------------------------------------------------------
(* The list.                                                               *)

Path[i \in 0 .. allocated] ==
  IF i = 0 THEN First
  ELSE IF Path[i - 1] = Null THEN Null ELSE next[Path[i - 1]]

(* What the definition of List says.                                       *)
LEMMA ListIs ==
  ASSUME TypeOK
  PROVE  /\ allocated \in Nat
         /\ List = {Path[i] : i \in 0 .. allocated} \ {Null}
         /\ Path[0] = First
         /\ \A i \in 0 .. allocated : i # 0 =>
              Path[i] = IF Path[i - 1] = Null THEN Null ELSE next[Path[i - 1]]
<1>1. allocated \in Nat
  BY DEF TypeOK
<1>2. List = {Path[i] : i \in 0 .. allocated} \ {Null}
  BY DEF List, Path
<1>3. \E f : IsWalk(f, next, First, allocated)
  BY <1>1, WalkExists
<1>4. Path = [i \in 0 .. allocated |->
                IF i = 0 THEN First
                ELSE IF Path[i - 1] = Null THEN Null ELSE next[Path[i - 1]]]
  BY <1>3 DEF Path, IsWalk, Null
<1>5. Path[0] = First
  BY <1>1, <1>4
<1>6. ASSUME NEW i \in 0 .. allocated, i # 0
      PROVE  Path[i] = IF Path[i - 1] = Null THEN Null ELSE next[Path[i - 1]]
  BY <1>4, <1>6
<1> QED
  BY <1>1, <1>2, <1>5, <1>6

(* The list is in every set that has the first sentinel and is closed.     *)
LEMMA ListLeast ==
  ASSUME TypeOK, NEW C, First \in C,
         \A n \in C \cap List : next[n] # Null => next[n] \in C
  PROVE  List \subseteq C
<1> DEFINE S == {i \in Nat : i <= allocated =>
                   Path[i] = Null \/ Path[i] \in C}
<1>1. 0 \in S
  BY ListIs
<1>2. ASSUME NEW i \in Nat, i \in S PROVE i + 1 \in S
  <2> SUFFICES ASSUME i + 1 <= allocated
               PROVE  Path[i + 1] = Null \/ Path[i + 1] \in C
    OBVIOUS
  <2>1. i \in 0 .. allocated /\ i + 1 \in 0 .. allocated /\ i + 1 # 0
        /\ (i + 1) - 1 = i /\ allocated \in Nat
    BY ListIs
  <2>2. Path[i + 1] = IF Path[i] = Null THEN Null ELSE next[Path[i]]
    BY <2>1, ListIs
  <2>3. Path[i] # Null => Path[i] \in C \cap List
    BY <1>2, <2>1, ListIs
  <2> QED
    BY <2>2, <2>3
<1> HIDE DEF S
<1>3. Nat \subseteq S
  BY <1>1, <1>2, Induction
<1> SUFFICES ASSUME NEW n \in List PROVE n \in C
  OBVIOUS
<1>4. PICK i \in 0 .. allocated : n = Path[i] /\ n # Null
  BY ListIs
<1>5. i \in Nat /\ i <= allocated
  BY <1>4, ListIs
<1> QED
  BY <1>3, <1>4, <1>5 DEF S

(* Numbers, so that the provers need not look at every type.               *)
LEMMA HashTypes ==
  ASSUME TypeOK, NEW n \in Nodes
  PROVE  /\ hash[n] \in Nat /\ hash[n] <= MaxHash
         /\ next[n] \in Nodes \cup {Null} /\ key[n] \in Keys \cup {NoKey}
<1>1. hash \in [Nodes -> 0 .. MaxHash] /\ next \in [Nodes -> Nodes \cup {Null}]
      /\ key \in [Nodes -> Keys \cup {NoKey}]
  BY DEF TypeOK
<1> QED
  BY <1>1, HashesFacts

LEMMA LiveNodes ==
  ASSUME TypeOK
  PROVE  Live \subseteq Nodes /\ Null \notin Nodes /\ allocated \in Nat
         /\ allocated <= MaxNodes /\ {First, Half, End} \subseteq Live
BY BoundsAssumption DEF TypeOK, Live, Nodes, Null, First, Half, End

(* A key of the table and what the last node has are different hashes.     *)
LEMMA KeyHash ==
  ASSUME TypeOK, Fields, NEW n \in Live, IsKey(n)
  PROVE  hash[n] < MaxHash /\ n # End
<1>1. key[n] \in Keys
  BY HashTypes, LiveNodes DEF IsKey
<1>2. Hash[key[n]] \in 1 .. MaxHash - 1
  BY <1>1, HashAssumption
<1> QED
  BY <1>2, HashesFacts DEF Fields

LEMMA NextInL ==
  ASSUME TypeOK, NEW L, NEW b, Sorted(L, b), NEW n \in L \ {End}
  PROVE  /\ n \in Live /\ n \in Nodes /\ n # Null
         /\ Edge(L, b, n, next[n]) /\ next[n] \in L /\ next[n] # Null
<1>1. L \subseteq Live
  BY DEF Sorted, Ghosts
<1>2. n \in Live /\ n \in Nodes /\ n # Null
  BY <1>1, LiveNodes
<1>3. Edge(L, b, n, next[n])
  BY <1>2 DEF Sorted, Links, Lazy
<1> QED
  BY <1>1, <1>2, <1>3, LiveNodes DEF Edge

LEMMA BehindEdge ==
  ASSUME TypeOK, NEW L, NEW b, Sorted(L, b), NEW n \in L \ {End}
  PROVE  Behind(b, n, next[n])
<1>1. Edge(L, b, n, next[n]) /\ n \in Nodes /\ next[n] \in Nodes
  BY NextInL, HashTypes
<1>2. hash[n] \in Nat /\ hash[next[n]] \in Nat
  BY <1>1, HashTypes
<1> QED
  BY <1>1, <1>2 DEF Edge, Behind, SameRun

LEMMA BehindPast ==
  ASSUME TypeOK, NEW L, NEW b, Sorted(L, b), NEW x \in L, NEW n \in L \ {End},
         Behind(b, x, n)
  PROVE  Behind(b, x, next[n])
<1>1. Edge(L, b, n, next[n]) /\ n \in Nodes /\ next[n] \in L
  BY NextInL
<1>2. L \subseteq Live /\ L \subseteq Nodes
  BY LiveNodes DEF Sorted, Ghosts
<1>3. hash[x] \in Nat /\ hash[n] \in Nat /\ hash[next[n]] \in Nat
  BY <1>1, <1>2, HashTypes
<1>4. CASE hash[x] < hash[n]
  BY <1>1, <1>3, <1>4 DEF Edge, Behind
<1>5. CASE x \in b[n]
  <2>1. IsKey(n) /\ IsKey(x) /\ hash[x] = hash[n] /\ x # End
    BY <1>1, <1>5 DEF Sorted, Ghosts, Fields
  <2> QED
    BY <1>1, <1>3, <1>5, <2>1 DEF Edge, Behind, SameRun
<1>6. CASE ~IsKey(x) /\ IsKey(n) /\ hash[x] = hash[n]
  <2>1. hash[n] < hash[End]
    BY <1>2, <1>6, KeyHash DEF Sorted, Fields
  <2> QED
    BY <1>1, <1>3, <1>6, <2>1 DEF Edge, Behind, SameRun
<1> QED
  BY <1>4, <1>5, <1>6 DEF Behind

LEMMA BehindOnce ==
  ASSUME TypeOK, NEW L, NEW b, Sorted(L, b), NEW x \in L, NEW n \in L,
         Behind(b, x, n)
  PROVE  ~Behind(b, n, x)
<1>1. x \in Live /\ n \in Live /\ x \in Nodes /\ n \in Nodes
  BY LiveNodes DEF Sorted, Ghosts
<1>2. hash[x] \in Nat /\ hash[n] \in Nat /\ hash[x] <= MaxHash
      /\ hash[n] <= MaxHash /\ hash[End] = MaxHash /\ ~IsKey(End)
  BY <1>1, HashTypes DEF Sorted, Fields
<1>3. x \in b[n] => IsKey(x) /\ IsKey(n) /\ hash[x] = hash[n] /\ n \notin b[x]
  BY <1>1 DEF Sorted, Ghosts
<1>4. n \in b[x] => IsKey(x) /\ IsKey(n) /\ hash[x] = hash[n]
  BY <1>1 DEF Sorted, Ghosts
<1>5. (IsKey(x) => hash[x] < MaxHash) /\ (IsKey(n) => hash[n] < MaxHash)
  BY <1>1, KeyHash DEF Sorted
<1> QED
  BY <1>2, <1>3, <1>4, <1>5, HashesFacts DEF Behind

LEMMA BehindNotSelf ==
  ASSUME TypeOK, NEW L, NEW b, Sorted(L, b), NEW x \in L
  PROVE  ~Behind(b, x, x)
BY BehindOnce

(* A walk stays among the nodes that were linked.                          *)
LEMMA PathInL ==
  ASSUME TypeOK, NEW L, NEW b, Sorted(L, b), NEW i \in 0 .. allocated
  PROVE  Path[i] \in L \cup {Null}
<1> DEFINE S == {j \in Nat : j <= allocated => Path[j] \in L \cup {Null}}
<1>1. 0 \in S
  BY ListIs DEF Sorted, Ghosts
<1>2. ASSUME NEW j \in Nat, j \in S PROVE j + 1 \in S
  <2> SUFFICES ASSUME j + 1 <= allocated PROVE Path[j + 1] \in L \cup {Null}
    OBVIOUS
  <2>1. j + 1 \in 0 .. allocated /\ j + 1 # 0 /\ (j + 1) - 1 = j
        /\ allocated \in Nat /\ j <= allocated
    BY ListIs
  <2>2. Path[j + 1] = IF Path[j] = Null THEN Null ELSE next[Path[j]]
    BY <2>1, ListIs
  <2>3. Path[j] \in L \cup {Null}
    BY <1>2, <2>1
  <2>4. next[End] = Null
    BY DEF Sorted, Fields
  <2> QED
    BY <2>2, <2>3, <2>4, NextInL
<1> HIDE DEF S
<1>3. i \in S
  BY <1>1, <1>2, Induction, ListIs
<1> QED
  BY <1>3, ListIs DEF S

(* What a walk meets later is behind what it met earlier.                  *)
LEMMA PathBehind ==
  ASSUME TypeOK, NEW L, NEW b, Sorted(L, b),
         NEW i \in 0 .. allocated, NEW j \in 0 .. allocated, i < j,
         Path[j] # Null
  PROVE  /\ Path[i] \in L \ {End} /\ Path[j] \in L
         /\ Behind(b, Path[i], Path[j])
<1> DEFINE Good(k) == /\ Path[i] \in L \ {End} /\ Path[k] \in L
                      /\ Behind(b, Path[i], Path[k])
           S == {d \in Nat : i + d + 1 <= allocated /\ Path[i + d + 1] # Null
                               => Good(i + d + 1)}
<1>1. allocated \in Nat /\ next[End] = Null
  BY ListIs DEF Sorted, Fields
<1>2. ASSUME NEW k \in 0 .. allocated, k # 0, Path[k] # Null
      PROVE  k - 1 \in 0 .. allocated /\ Path[k - 1] \in L \ {End}
             /\ Path[k] = next[Path[k - 1]]
  <2>1. k - 1 \in 0 .. allocated
    BY <1>1, <1>2
  <2>2. Path[k] = IF Path[k - 1] = Null THEN Null ELSE next[Path[k - 1]]
    BY <1>2, ListIs
  <2> QED
    BY <1>1, <1>2, <2>1, <2>2, PathInL
<1>3. 0 \in S
  <2> SUFFICES ASSUME i + 0 + 1 <= allocated, Path[i + 0 + 1] # Null
               PROVE  Good(i + 0 + 1)
    OBVIOUS
  <2>1. i + 0 + 1 \in 0 .. allocated /\ i + 0 + 1 # 0 /\ (i + 0 + 1) - 1 = i
    BY <1>1
  <2>2. Path[i] \in L \ {End} /\ Path[i + 0 + 1] = next[Path[i]]
    BY <1>2, <2>1
  <2> QED
    BY <2>2, NextInL, BehindEdge
<1>4. ASSUME NEW d \in Nat, d \in S PROVE d + 1 \in S
  <2> DEFINE k == i + (d + 1) + 1
  <2> SUFFICES ASSUME k <= allocated, Path[k] # Null PROVE Good(k)
    OBVIOUS
  <2>1. k \in 0 .. allocated /\ k # 0 /\ k - 1 = i + d + 1 /\ i + d + 1 <= allocated
    BY <1>1
  <2>2. Path[k - 1] \in L \ {End} /\ Path[k] = next[Path[k - 1]]
    BY <1>2, <2>1
  <2>3. Path[k - 1] # Null
    BY <2>2, NextInL
  <2>4. Good(k - 1)
    BY <1>4, <2>1, <2>3
  <2> HIDE DEF k
  <2> QED
    BY <2>2, <2>4, NextInL, BehindPast
<1> HIDE DEF S
<1>5. j - i - 1 \in Nat /\ i + (j - i - 1) + 1 = j /\ j <= allocated
  BY <1>1
<1>6. j - i - 1 \in S
  BY <1>3, <1>4, <1>5, Induction
<1> QED
  BY <1>5, <1>6 DEF S

(* So it cannot go on for ever, and it ends at the last node.              *)
LEMMA EndReached ==
  ASSUME TypeOK, NEW L, NEW b, Sorted(L, b)
  PROVE  End \in List
<1> SUFFICES ASSUME End \notin List PROVE FALSE
  OBVIOUS
<1>1. allocated \in Nat /\ L \subseteq Live /\ First \in L /\ First # End
  BY LiveNodes DEF Sorted, Ghosts, First, End
<1>2. ASSUME NEW i \in 0 .. allocated PROVE Path[i] \in L \ {End}
  <2> DEFINE S == {j \in Nat : j <= allocated => Path[j] \in L \ {End}}
  <2>1. 0 \in S
    BY <1>1, ListIs
  <2>2. ASSUME NEW j \in Nat, j \in S PROVE j + 1 \in S
    <3> SUFFICES ASSUME j + 1 <= allocated PROVE Path[j + 1] \in L \ {End}
      OBVIOUS
    <3>1. j + 1 \in 0 .. allocated /\ j + 1 # 0 /\ (j + 1) - 1 = j
          /\ j <= allocated
      BY <1>1
    <3>2. Path[j] \in L \ {End}
      BY <2>2, <3>1
    <3>3. Path[j + 1] = next[Path[j]]
      BY <3>1, <3>2, ListIs, NextInL
    <3>4. Path[j + 1] \in L /\ Path[j + 1] # Null
      BY <3>2, <3>3, NextInL
    <3>5. Path[j + 1] # End
      BY <3>1, <3>4, ListIs
    <3> QED
      BY <3>4, <3>5
  <2> HIDE DEF S
  <2>3. i \in S
    BY <1>1, <2>1, <2>2, Induction
  <2> QED
    BY <1>1, <2>3 DEF S
<1>3. ASSUME NEW i \in 0 .. allocated, NEW j \in 0 .. allocated, i < j
      PROVE  Path[i] # Path[j]
  BY <1>2, <1>3, PathBehind, BehindNotSelf, NextInL
<1> DEFINE f == [i \in 0 .. allocated |-> Path[i]]
<1>4. f \in [0 .. allocated -> Live]
  BY <1>1, <1>2
<1>5. Cardinality(0 .. allocated) = allocated + 1 /\ IsFiniteSet(0 .. allocated)
  BY <1>1, FS_Interval
<1>6. Cardinality(Live) = allocated /\ IsFiniteSet(Live)
  BY <1>1, FS_Interval DEF Live
<1>7. \E i, j \in 0 .. allocated : i # j /\ f[i] = f[j]
  <2>1. Cardinality(Live) < Cardinality(0 .. allocated)
    BY <1>1, <1>5, <1>6
  <2> HIDE DEF f
  <2> QED
    BY ZenonT(60), <1>4, <1>5, <1>6, <2>1, FS_PigeonHole
<1>8. PICK i \in 0 .. allocated, j \in 0 .. allocated : i # j /\ Path[i] = Path[j]
  BY <1>7
<1>9. i < j \/ j < i
  BY <1>1, <1>8
<1> QED
  BY <1>3, <1>8, <1>9

(* The next node of one in the list is in the list.                        *)
LEMMA ListClosed ==
  ASSUME TypeOK, NEW L, NEW b, Sorted(L, b)
  PROVE  /\ First \in List /\ List \subseteq L /\ next[End] = Null
         /\ \A n \in List \ {End} : next[n] \in List
<1>1. allocated \in Nat /\ next[End] = Null
  BY ListIs DEF Sorted, Fields
<1>2. First \in List
  <2>1. 0 \in 0 .. allocated /\ First # Null
    BY <1>1 DEF First, Null
  <2> QED
    BY <2>1, ListIs
<1>3. List \subseteq L
  BY PathInL, ListIs
<1>4. PICK e \in 0 .. allocated : Path[e] = End
  BY EndReached, ListIs
<1>5. ASSUME NEW n \in List \ {End} PROVE next[n] \in List
  <2>1. PICK i \in 0 .. allocated : Path[i] = n /\ n # Null
    BY ListIs
  <2>2. i < e
    <3>1. i # e
      BY <1>4, <2>1
    <3>2. ~(e < i)
      BY <1>4, <2>1, PathBehind
    <3> QED
      BY <1>1, <3>1, <3>2
  <2>3. i + 1 \in 0 .. allocated /\ i + 1 # 0 /\ (i + 1) - 1 = i
    BY <1>1, <2>2
  <2>4. Path[i + 1] = next[n]
    BY <2>1, <2>3, ListIs
  <2>5. next[n] # Null
    BY <1>3, NextInL
  <2> QED
    BY <2>3, <2>4, <2>5, ListIs
<1> QED
  BY <1>1, <1>2, <1>3, <1>5

(* Of two nodes in the list one is behind the other.                       *)
LEMMA Comparable ==
  ASSUME TypeOK, NEW L, NEW b, Sorted(L, b), NEW m \in List, NEW n \in List
  PROVE  m = n \/ Behind(b, m, n) \/ Behind(b, n, m)
<1>1. PICK i \in 0 .. allocated : Path[i] = m /\ m # Null
  BY ListIs
<1>2. PICK j \in 0 .. allocated : Path[j] = n /\ n # Null
  BY ListIs
<1>3. i < j \/ j < i \/ i = j
  BY ListIs
<1> QED
  BY <1>1, <1>2, <1>3, PathBehind

(* What is behind a node is the next one or behind that.                   *)
LEMMA Successor ==
  ASSUME TypeOK, NEW L, NEW b, Sorted(L, b), L \subseteq List,
         NEW x \in L, NEW n \in L, Behind(b, x, n)
  PROVE  n = next[x] \/ Behind(b, next[x], n)
<1>1. PICK i \in 0 .. allocated : Path[i] = x /\ x # Null
  BY ListIs
<1>2. PICK j \in 0 .. allocated : Path[j] = n /\ n # Null
  BY ListIs
<1>3. i < j
  <2>1. i # j
    BY <1>1, <1>2, BehindNotSelf
  <2>2. ~(j < i)
    BY <1>1, <1>2, PathBehind, BehindOnce
  <2> QED
    BY <2>1, <2>2, ListIs
<1>4. i + 1 \in 0 .. allocated /\ i + 1 # 0 /\ (i + 1) - 1 = i
      /\ (i + 1 < j \/ i + 1 = j)
  BY <1>3, ListIs
<1>5. Path[i + 1] = next[x]
  BY <1>1, <1>4, ListIs
<1> QED
  BY <1>2, <1>4, <1>5, PathBehind

-----------------------------------------------------------------------------
(* What the invariant says of the list.                                    *)

LEMMA SplitOrderHolds ==
  ASSUME TypeOK, NEW L, NEW b, Sorted(L, b)
  PROVE  SplitOrder
<1>1. ASSUME NEW n \in List \ {End}
      PROVE  /\ hash[n] <= hash[next[n]]
             /\ next[n] # End /\ key[next[n]] = NoKey => hash[n] < hash[next[n]]
  BY ListClosed, NextInL DEF Edge, IsKey
<1> QED
  BY <1>1, EndReached DEF SplitOrder

LEMMA UniqueKeysHold ==
  ASSUME TypeOK, NEW L, NEW b, Sorted(L, b)
  PROVE  UniqueKeys
<1>1. ASSUME NEW m \in List, NEW n \in List, n # m, IsKey(m), IsKey(n),
             key[m] = key[n], Behind(b, m, n)
      PROVE  m \in collected
  <2>1. m \in Live /\ n \in Live /\ m \in Nodes /\ n \in Nodes
    BY ListClosed, LiveNodes DEF Sorted, Ghosts
  <2>2. hash[m] = hash[n] /\ n # End /\ hash[n] \in Nat
    BY <1>1, <2>1, HashTypes, KeyHash DEF Sorted, Fields
  <2>3. m \in b[n]
    BY <1>1, <2>2 DEF Behind
  <2> QED
    BY <1>1, <2>1, <2>3 DEF Sorted, Ghosts
<1> SUFFICES ASSUME NEW m \in List \ collected, NEW n \in List \ collected,
                    key[m] # NoKey, key[n] # NoKey, key[m] = key[n]
             PROVE  m = n
  BY DEF UniqueKeys
<1> QED
  BY <1>1, Comparable DEF IsKey

LEMMA KeysKeptHolds ==
  ASSUME TypeOK, NEW L, Kept(L)
  PROVE  KeysKept
<1> SUFFICES ASSUME Plain, NEW k \in stored PROVE k \in Linked
  BY DEF KeysKept
<1>1. PICK n \in L : key[n] = k
  BY DEF Kept
<1>2. k # NoKey
  BY KeyAssumption DEF TypeOK
<1> QED
  BY <1>1, <1>2 DEF Kept, Linked

LEMMA AssertionsHoldHere ==
  ASSUME TypeOK, NEW L, NEW b, Sorted(L, b),
         \A t \in Threads : Thread(L, b, t)
  PROVE  AssertionsHold
<1> SUFFICES ASSUME NEW t \in Threads
             PROVE  /\ pc[t] = "publish" => hash[prev[t]] <= hash[fresh[t]]
                    /\ pc[t] = "walk" => hash[start[t]] <= Target(t)
                    /\ pc[t] = "link" => /\ hash[prev[t]] <= Target(t)
                                         /\ Target(t) <= hash[cur[t]]
  BY DEF AssertionsHold
<1>1. CASE pc[t] = "publish"
  <2>1. OwnSentinel(L, t)
    BY <1>1 DEF Thread
  <2>2. prev[t] \in Nodes /\ fresh[t] \in Nodes
    BY <2>1, LiveNodes DEF OwnSentinel, Seen
  <2>3. hash[prev[t]] \in Nat /\ hash[fresh[t]] \in Nat
    BY <2>2, HashTypes
  <2> QED
    BY <1>1, <2>1, <2>3 DEF OwnSentinel
<1>2. CASE pc[t] = "walk"
  BY <1>2 DEF Thread, Started
<1>3. CASE pc[t] = "link"
  <2>1. Knows(L, b, t) /\ Target(t) < hash[cur[t]] /\ OwnKey(L, t)
        /\ next[fresh[t]] = cur[t]
    BY <1>3 DEF Thread
  <2>2. arg[t] \in Keys
    BY <1>3 DEF Thread
  <2>3. Target(t) \in Nat
    BY <2>2, HashAssumption DEF Target
  <2>4. fresh[t] \in Nodes
    BY <2>1, LiveNodes DEF OwnKey
  <2>5. fresh[t] \in Live \ {End} /\ IsKey(fresh[t])
    <3>1. fresh[t] \in Live /\ key[fresh[t]] = arg[t] /\ fresh[t] \notin L
      BY <2>1 DEF OwnKey
    <3> QED
      BY <2>2, <3>1, KeyAssumption DEF IsKey, Sorted, Ghosts
  <2>6. Edge(L, b, fresh[t], cur[t])
    BY <2>1, <2>5 DEF Sorted, Links, Lazy
  <2>7. hash[cur[t]] \in Nat
    <3>1. cur[t] \in Nodes
      BY <2>6, LiveNodes DEF Edge, Sorted, Ghosts
    <3> QED
      BY <3>1, HashTypes
  <2> QED
    BY <1>3, <2>1, <2>3, <2>7 DEF Knows
<1> QED
  BY <1>1, <1>2, <1>3

-----------------------------------------------------------------------------
(* What a step of one thread leaves to the others.                         *)

(* The values of a thread's own variables stay.                            *)
Same(s) == /\ pc'[s] = pc[s] /\ op'[s] = op[s] /\ arg'[s] = arg[s]
           /\ sure'[s] = sure[s] /\ start'[s] = start[s]
           /\ prev'[s] = prev[s] /\ cur'[s] = cur[s]
           /\ fresh'[s] = fresh[s] /\ word'[s] = word[s]

(* A step of t: the nodes and the ghosts grow from L and b to M and c, and *)
(* the only link that changes is that of x, be it t's new node or a node   *)
(* of the list, or a sentinel on the way there, whose new link is sorted.  *)
Change(L, b, M, c, t, x) ==
  /\ L \subseteq M /\ M \subseteq L \cup ({fresh[t]} \ {Null})
  /\ \A n \in Live : n \in Live' /\ key'[n] = key[n] /\ hash'[n] = hash[n]
  /\ \A n \in Live \ {x} : next'[n] = next[n]
  /\ x = Null \/ x = fresh[t] \/ (Seen(L, x) /\ Edge(M, c, x, next[x])')
  /\ \A n \in Live : n \in L \/ ~IsKey(n) => c[n] = b[n]
  /\ collected \subseteq collected' /\ stored \subseteq stored'
  /\ \A i \in Slots : buckets[i] # Null => buckets'[i] = buckets[i]
  /\ \A i \in Slots : buckets'[i] = buckets[i] \/ buckets'[i] = fresh[t]

LEMMA BucketNodes ==
  ASSUME NEW L, NEW b, Sorted(L, b), NEW n, InBucket(n)
  PROVE  n \in Live \ {End} /\ ~IsKey(n)
BY DEF Sorted, Buckets, InBucket

LEMMA SeenStays ==
  ASSUME NEW L, NEW b, NEW M, NEW c, NEW t, NEW x, Change(L, b, M, c, t, x),
         NEW n
  PROVE  /\ InBucket(n) => InBucket(n)'
         /\ Seen(L, n) => Seen(M, n)'
<1>1. InBucket(n) => InBucket(n)'
  BY DEF Change, InBucket
<1> QED
  BY <1>1 DEF Change, Seen

LEMMA EdgeStays ==
  ASSUME NEW L, NEW b, Sorted(L, b),
         NEW M, NEW c, NEW t, NEW x, Change(L, b, M, c, t, x),
         NEW n \in Live, NEW m, Edge(L, b, n, m), c[n] = b[n]
  PROVE  Edge(M, c, n, m)'
<1>1. m \in L /\ m \in Live /\ m \in M /\ c[m] = b[m]
  BY DEF Edge, Sorted, Ghosts, Change
<1>2. /\ key'[n] = key[n] /\ key'[m] = key[m]
      /\ hash'[n] = hash[n] /\ hash'[m] = hash[m] /\ collected \subseteq collected'
  BY <1>1 DEF Change
<1> QED
  BY <1>1, <1>2 DEF Edge, IsKey, SameRun

LEMMA SeenGhost ==
  ASSUME NEW L, NEW b, Sorted(L, b),
         NEW M, NEW c, NEW t, NEW x, Change(L, b, M, c, t, x),
         NEW n, Seen(L, n)
  PROVE  n \in Live /\ c[n] = b[n] /\ (IsKey(n) => n \in L)
<1>1. n \in Live /\ (n \in L \/ ~IsKey(n))
  BY BucketNodes DEF Seen
<1> QED
  BY <1>1 DEF Change

LEMMA PassedStays ==
  ASSUME NEW L, NEW b, Sorted(L, b),
         NEW M, NEW c, NEW t, NEW x, Change(L, b, M, c, t, x),
         NEW n, Seen(L, n), NEW m
  PROVE  /\ Edge(L, b, n, m) => Edge(M, c, n, m)'
         /\ Passed(L, b, n, m) => Passed(M, c, n, m)'
<1>1. Edge(L, b, n, m) => Edge(M, c, n, m)'
  BY SeenGhost, EdgeStays
<1>2. ASSUME InBucket(m), hash[m] < hash[n]
      PROVE  InBucket(m)' /\ hash'[m] < hash'[n]
  <2>1. m \in Live /\ n \in Live
    BY <1>2, BucketNodes, SeenGhost
  <2>2. hash'[m] = hash[m] /\ hash'[n] = hash[n]
    BY <2>1 DEF Change
  <2> QED
    BY <1>2, <2>2, SeenStays
<1> QED
  BY <1>1, <1>2 DEF Passed

(* What another thread knows stays true.                                   *)
LEMMA OtherKnows ==
  ASSUME TypeOK, NEW L, NEW b, Sorted(L, b), NEW t, NEW s,
         NEW M, NEW c, NEW x, Change(L, b, M, c, t, x),
         Same(s), Knows(L, b, s)
  PROVE  Knows(M, c, s)'
<1> USE DEF Same
<1> DEFINE p == prev[s]
<1>1. Target(s)' = Target(s)
  BY DEF Target
<1>2. Seen(L, p) /\ hash[p] <= Target(s)
  BY DEF Knows
<1>3. Seen(M, p)' /\ p \in Live /\ c[p] = b[p] /\ p \in Nodes
  BY <1>2, SeenStays, SeenGhost, LiveNodes
<1>4. key'[p] = key[p] /\ hash'[p] = hash[p] /\ collected \subseteq collected'
  BY <1>3 DEF Change
<1>5. b[p] \subseteq Live
  BY <1>3 DEF Sorted, Ghosts
<1>6. ASSUME IsKey(p), hash[p] = Target(s),
             NEW m \in b[p] \cup {p}, key'[m] = arg[s]
      PROVE  m \in collected'
  <2>1. m \in Live
    BY <1>3, <1>5
  <2>2. key[m] = arg[s]
    BY <1>6, <2>1 DEF Change
  <2> QED
    BY <1>4, <1>6, <2>2 DEF Knows, SameRun
<1> QED
  BY <1>1, <1>2, <1>3, <1>4, <1>6 DEF Knows, SameRun, IsKey

(* Another thread's new node stays its own, and keeps its link: to a key   *)
(* nothing is linked yet, to a sentinel only what is sorted.               *)
LEMMA OtherNode ==
  ASSUME TypeOK, NEW L, NEW b, Sorted(L, b), Distinct,
         NEW t \in Threads, NEW s \in Threads \ {t},
         NEW M, NEW c, NEW x, Change(L, b, M, c, t, x), Same(s)
  PROVE  /\ OwnKey(L, s) /\ arg[s] \in Keys =>
              OwnKey(M, s)' /\ next'[fresh[s]] = next[fresh[s]]
         /\ OwnSentinel(L, s) => OwnSentinel(M, s)'
         /\ OwnSentinel(L, s) /\ Edge(L, b, fresh[s], next[fresh[s]]) =>
              Edge(M, c, fresh[s], next[fresh[s]])'
<1> USE DEF Same
<1> DEFINE f == fresh[s]
<1>1. Target(s)' = Target(s) /\ Null \notin Live
  BY LiveNodes DEF Target
<1>2. f # Null => f # fresh[t] /\ f \in Live /\ (f \notin L => f \notin M)
  BY DEF Distinct, Change
<1>3. ASSUME OwnKey(L, s), arg[s] \in Keys
      PROVE  OwnKey(M, s)' /\ next'[f] = next[f]
  <2>1. f \in Live \ L /\ key[f] = arg[s] /\ IsKey(f) /\ f # Null
    BY <1>1, <1>3, KeyAssumption DEF OwnKey, IsKey
  <2>2. f # x
    BY <1>2, <2>1, BucketNodes DEF Change, Seen
  <2>3. next'[f] = next[f] /\ key'[f] = key[f] /\ f \in Live'
    BY <2>1, <2>2 DEF Change
  <2>4. f \notin M
    BY <1>2, <2>1
  <2> QED
    BY <1>3, <2>1, <2>3, <2>4 DEF OwnKey
<1>4. ASSUME OwnSentinel(L, s)
      PROVE  OwnSentinel(M, s)'
  <2>1. f \in Live \ L /\ ~IsKey(f) /\ f # Null /\ Seen(L, prev[s])
    BY <1>1, <1>4 DEF OwnSentinel
  <2>2. f \notin M /\ f \in Live' /\ key'[f] = key[f] /\ hash'[f] = hash[f]
    BY <1>2, <2>1 DEF Change
  <2>3. Seen(M, prev[s])' /\ prev[s] \in Live /\ hash'[prev[s]] = hash[prev[s]]
    <3>1. Seen(M, prev[s])' /\ prev[s] \in Live
      BY <2>1, SeenStays, SeenGhost
    <3> QED
      BY <3>1 DEF Change
  <2> QED
    BY <1>1, <1>4, <2>1, <2>2, <2>3 DEF OwnSentinel, IsKey
<1>5. ASSUME OwnSentinel(L, s), Edge(L, b, f, next[f])
      PROVE  Edge(M, c, f, next[f])'
  <2>1. f \in Live \ L /\ ~IsKey(f) /\ f # Null
    BY <1>1, <1>5 DEF OwnSentinel
  <2>2. CASE x = f
    BY <1>2, <2>1, <2>2 DEF Change
  <2>3. CASE x # f
    <3>1. next'[f] = next[f] /\ c[f] = b[f]
      BY <2>1, <2>3 DEF Change
    <3>2. PICK m : m = next[f]
      OBVIOUS
    <3>3. Edge(M, c, f, m)'
      BY <1>5, <2>1, <3>1, <3>2, EdgeStays
    <3> QED
      BY <3>1, <3>2, <3>3
  <2> QED
    BY <2>2, <2>3
<1> QED
  BY <1>3, <1>4, <1>5

(* So does all else that holds of the line it has got to.                  *)
LEMMA OtherThread ==
  ASSUME TypeOK, NEW L, NEW b, Sorted(L, b), Distinct,
         NEW t \in Threads, NEW s \in Threads \ {t},
         NEW M, NEW c, NEW x, Change(L, b, M, c, t, x),
         Thread(L, b, s), Same(s)
  PROVE  Thread(M, c, s)'
<1> USE DEF Same
<1>1. Target(s)' = Target(s) /\ Null \notin Live
  BY LiveNodes DEF Target
<1>2. fresh[s] # Null => fresh[s] # fresh[t]
  BY DEF Distinct
<1>3. Knows(L, b, s) => Knows(M, c, s)'
  BY OtherKnows
<1>4. Started(s) => Started(s)'
  <2> SUFFICES ASSUME Started(s) PROVE Started(s)'
    OBVIOUS
  <2>1. InBucket(start[s])' /\ start[s] \in Live
    BY SeenStays, BucketNodes DEF Started
  <2>2. hash'[start[s]] = hash[start[s]]
    BY <2>1 DEF Change
  <2> QED
    BY <1>1, <2>1, <2>2 DEF Started
<1>5. /\ pc[s] # "idle" => arg[s] \in Keys /\ op[s] \in Ops
      /\ pc[s] \in {"count", "claim", "array", "bits"} => op[s] = "store"
      /\ pc[s] \in {"idle", "count", "claim", "array", "bits", "locate"} =>
           fresh[s] = Null
      /\ pc[s] \in {"walk", "scan", "cut", "link"} => Started(s)
      /\ pc[s] = "bump" => op[s] = "store"
  BY DEF Thread
<1>6. pc[s] \in {"walk", "scan"} => fresh[s] = Null \/ OwnKey(M, s)'
  BY <1>5, OtherNode DEF Thread
<1>7. pc[s] = "scan" => Knows(M, c, s)' /\ Passed(M, c, prev[s], cur[s])'
  <2> SUFFICES ASSUME pc[s] = "scan"
               PROVE  Knows(M, c, s)' /\ Passed(M, c, prev[s], cur[s])'
    OBVIOUS
  <2>1. Knows(L, b, s) /\ Passed(L, b, prev[s], cur[s])
    BY DEF Thread
  <2>2. Seen(L, prev[s])
    BY <2>1 DEF Knows
  <2> QED
    BY <1>3, <2>1, <2>2, PassedStays
<1>8. pc[s] = "link" => /\ Knows(M, c, s)' /\ OwnKey(M, s)'
                        /\ Target(s)' < hash'[cur[s]] /\ next'[fresh[s]] = cur[s]
  <2> SUFFICES ASSUME pc[s] = "link"
               PROVE  /\ Knows(M, c, s)' /\ OwnKey(M, s)'
                      /\ Target(s)' < hash'[cur[s]] /\ next'[fresh[s]] = cur[s]
    OBVIOUS
  <2>1. Knows(L, b, s) /\ OwnKey(L, s) /\ Target(s) < hash[cur[s]]
        /\ next[fresh[s]] = cur[s] /\ arg[s] \in Keys
    BY DEF Thread
  <2>2. OwnKey(M, s)' /\ next'[fresh[s]] = next[fresh[s]]
    BY <2>1, OtherNode
  <2>3. hash'[cur[s]] = hash[cur[s]]
    <3>1. fresh[s] \in Live \ {End} /\ IsKey(fresh[s])
      BY <2>1, KeyAssumption DEF OwnKey, IsKey, Sorted, Ghosts
    <3>2. Edge(L, b, fresh[s], cur[s])
      BY <2>1, <3>1 DEF Sorted, Links, Lazy
    <3>3. cur[s] \in Live
      BY <3>2 DEF Edge, Sorted, Ghosts
    <3> QED
      BY <3>3 DEF Change
  <2> QED
    BY <1>1, <1>3, <2>1, <2>2, <2>3
<1>9. pc[s] = "cut" => /\ op[s] = "del" /\ fresh[s] = Null
                       /\ Seen(M, prev[s])' /\ IsKey(cur[s])'
                       /\ Edge(M, c, prev[s], cur[s])'
                       /\ Edge(M, c, cur[s], word[s])'
  <2> SUFFICES ASSUME pc[s] = "cut"
               PROVE  /\ op[s] = "del" /\ fresh[s] = Null
                      /\ Seen(M, prev[s])' /\ IsKey(cur[s])'
                      /\ Edge(M, c, prev[s], cur[s])'
                      /\ Edge(M, c, cur[s], word[s])'
    OBVIOUS
  <2>1. /\ op[s] = "del" /\ fresh[s] = Null
        /\ Seen(L, prev[s]) /\ IsKey(cur[s])
        /\ Edge(L, b, prev[s], cur[s]) /\ Edge(L, b, cur[s], word[s])
    BY DEF Thread
  <2>2. cur[s] \in L /\ cur[s] \in Live
    BY <2>1 DEF Edge, Sorted, Ghosts
  <2>3. IsKey(cur[s])' /\ c[cur[s]] = b[cur[s]]
    BY <2>1, <2>2 DEF Change, IsKey
  <2>4. Edge(M, c, cur[s], word[s])'
    BY <2>1, <2>2, <2>3, EdgeStays
  <2>5. Seen(M, prev[s])' /\ Edge(M, c, prev[s], cur[s])'
    BY <2>1, SeenStays, PassedStays
  <2> QED
    BY <2>1, <2>3, <2>4, <2>5
<1>10. pc[s] \in {"publish", "first", "seek", "splice"} =>
         OwnSentinel(L, s) /\ OwnSentinel(M, s)'
  BY OtherNode DEF Thread
<1>11. pc[s] = "publish" => ~InBucket(fresh[s])'
  <2> SUFFICES ASSUME pc[s] = "publish" PROVE ~InBucket(fresh[s])'
    OBVIOUS
  <2>1. ~InBucket(fresh[s]) /\ fresh[s] # Null
    BY <1>1, <1>10 DEF Thread, OwnSentinel
  <2> QED
    BY <1>2, <2>1 DEF Change, InBucket
<1>12. pc[s] \in {"first", "seek", "splice"} => buckets'[word[s]] = fresh[s]
  <2> SUFFICES ASSUME pc[s] \in {"first", "seek", "splice"}
               PROVE  buckets'[word[s]] = fresh[s]
    OBVIOUS
  <2>1. buckets[word[s]] = fresh[s] /\ word[s] \in Slots /\ fresh[s] # Null
    BY <1>1, <1>10 DEF Thread, OwnSentinel
  <2> QED
    BY <2>1 DEF Change
<1>13. pc[s] = "seek" => Passed(M, c, prev[s], cur[s])'
  <2> SUFFICES ASSUME pc[s] = "seek" PROVE Passed(M, c, prev[s], cur[s])'
    OBVIOUS
  <2>1. Passed(L, b, prev[s], cur[s]) /\ Seen(L, prev[s])
    BY <1>10 DEF Thread, OwnSentinel
  <2> QED
    BY <2>1, PassedStays
<1>14. pc[s] = "splice" => /\ Edge(M, c, prev[s], cur[s])'
                           /\ hash'[fresh[s]] <= hash'[cur[s]]
                           /\ Edge(M, c, fresh[s], next[fresh[s]])'
  <2> SUFFICES ASSUME pc[s] = "splice"
               PROVE  /\ Edge(M, c, prev[s], cur[s])'
                      /\ hash'[fresh[s]] <= hash'[cur[s]]
                      /\ Edge(M, c, fresh[s], next[fresh[s]])'
    OBVIOUS
  <2>1. /\ Edge(L, b, prev[s], cur[s]) /\ hash[fresh[s]] <= hash[cur[s]]
        /\ Edge(L, b, fresh[s], next[fresh[s]]) /\ OwnSentinel(L, s)
    BY <1>10 DEF Thread
  <2>2. Seen(L, prev[s]) /\ fresh[s] \in Live /\ cur[s] \in Live
    BY <2>1 DEF OwnSentinel, Edge, Sorted, Ghosts
  <2>3. hash'[fresh[s]] = hash[fresh[s]] /\ hash'[cur[s]] = hash[cur[s]]
    BY <2>2 DEF Change
  <2>4. Edge(M, c, prev[s], cur[s])'
    BY <2>1, <2>2, PassedStays
  <2>5. Edge(M, c, fresh[s], next[fresh[s]])'
    BY <2>1, OtherNode
  <2> QED
    BY <2>1, <2>3, <2>4, <2>5
<1> QED
  BY <1>4, <1>5, <1>6, <1>7, <1>8, <1>9, <1>10, <1>11, <1>12, <1>13, <1>14
     DEF Thread

(* Once a node is deleted or a bucket split, this is so for ever.          *)
LEMMA PlainWas ==
  ASSUME TypeOK, TypeOK', NEW L, NEW b, NEW M, NEW c, NEW t, NEW x,
         Change(L, b, M, c, t, x), Plain'
  PROVE  Plain
<1>1. DOMAIN buckets = Slots /\ (DOMAIN buckets)' = Slots
  BY DEF TypeOK, Slots
<1>2. collected = {}
  BY DEF Change, Plain
<1>3. ASSUME NEW i \in Slots, i > 1 PROVE buckets[i] = Null
  BY <1>1, <1>3 DEF Change, Plain
<1> QED
  BY <1>1, <1>2, <1>3 DEF Plain

LEMMA BehindStays ==
  ASSUME NEW L, NEW b, Sorted(L, b),
         NEW M, NEW c, NEW t, NEW x, Change(L, b, M, c, t, x),
         NEW y \in Live, NEW n \in L, Behind(b, y, n)
  PROVE  Behind(c, y, n)'
<1>1. n \in Live
  BY DEF Sorted, Ghosts
<1>2. /\ key'[n] = key[n] /\ key'[y] = key[y]
      /\ hash'[n] = hash[n] /\ hash'[y] = hash[y] /\ c[n] = b[n]
  BY <1>1 DEF Change
<1> QED
  BY <1>2 DEF Behind, IsKey

LEMMA OtherSought ==
  ASSUME TypeOK, TypeOK', NEW L, NEW b, Sorted(L, b),
         NEW t, NEW s, NEW M, NEW c, NEW x, Change(L, b, M, c, t, x),
         Thread(L, b, s), Sought(L, b, s), Same(s)
  PROVE  Sought(M, c, s)'
<1> USE DEF Same
<1> SUFFICES ASSUME pc[s] # "idle", sure[s]
             PROVE  /\ arg[s] \in stored'
                    /\ pc[s] = "scan" /\ Plain' =>
                         \E n \in M : /\ key'[n] = arg[s]
                                      /\ n = cur[s] \/ Behind(c, cur[s], n)'
  BY DEF Sought
<1>1. arg[s] \in stored'
  BY DEF Sought, Change
<1>2. ASSUME pc[s] = "scan", Plain'
      PROVE  \E n \in M : key'[n] = arg[s] /\ (n = cur[s] \/ Behind(c, cur[s], n)')
  <2>1. Plain
    BY <1>2, PlainWas
  <2>2. PICK n \in L : key[n] = arg[s] /\ (n = cur[s] \/ Behind(b, cur[s], n))
    BY <1>2, <2>1 DEF Sought
  <2>3. Passed(L, b, prev[s], cur[s])
    BY <1>2 DEF Thread
  <2>4. cur[s] \in Live
    <3>1. InBucket(cur[s]) => cur[s] \in Live
      BY BucketNodes
    <3> QED
      BY <2>3, <3>1 DEF Passed, Edge, Sorted, Ghosts
  <2>5. n \in M /\ key'[n] = key[n]
    BY DEF Change, Sorted, Ghosts
  <2>6. Behind(b, cur[s], n) => Behind(c, cur[s], n)'
    BY <2>4, BehindStays
  <2> QED
    BY <2>2, <2>5, <2>6
<1> QED
  BY <1>1, <1>2

(* A thread's new node: the one it had, none, or one just allocated.       *)
LEMMA DistinctStays ==
  ASSUME TypeOK, Distinct, NEW t \in Threads, NEW f,
         fresh' = [fresh EXCEPT ![t] = f],
         \/ f \in {Null, fresh[t]} /\ allocated' = allocated
         \/ f = allocated + 1 /\ allocated' = allocated + 1
  PROVE  Distinct'
<1>1. fresh'[t] = f /\ \A s \in Threads \ {t} : fresh'[s] = fresh[s]
  BY DEF TypeOK
<1>2. allocated \in Nat
  BY LiveNodes
<1>3. \A s \in Threads : fresh[s] \in Live \cup {Null} /\ fresh[s] # allocated + 1
  BY <1>2 DEF Distinct, Live, Null
<1>4. ASSUME NEW s \in Threads PROVE (fresh[s] \in Live \cup {Null})'
  BY <1>1, <1>2, <1>3 DEF Live, Null
<1>5. ASSUME NEW s \in Threads, NEW u \in Threads, s # u, fresh'[s] = fresh'[u]
      PROVE  fresh'[s] = Null
  BY <1>1, <1>3, <1>5 DEF Distinct
<1> QED
  BY <1>4, <1>5 DEF Distinct

(* The parts of the invariant put together again.                          *)
LEMMA Assemble ==
  ASSUME TypeOK, TypeOK', NEW L, NEW b, IInv(L, b),
         NEW t \in Threads, \A s \in Threads \ {t} : Same(s),
         NEW M, NEW c, NEW x, Change(L, b, M, c, t, x),
         Sorted(M, c)', Distinct', Kept(M)', Thread(M, c, t)', Sought(M, c, t)'
  PROVE  IInv(M, c)'
<1>1. Sorted(L, b) /\ Distinct /\ \A s \in Threads : Thread(L, b, s) /\ Sought(L, b, s)
  BY DEF IInv
<1>2. ASSUME NEW s \in Threads \ {t}
      PROVE  Thread(M, c, s)' /\ Sought(M, c, s)'
  BY <1>1, OtherThread, OtherSought
<1> QED
  BY <1>2 DEF IInv

-----------------------------------------------------------------------------
(* The steps that change no node and no bucket.                            *)

LEMMA LocalStep ==
  ASSUME TypeOK, TypeOK', NEW L, NEW b, IInv(L, b),
         NEW t \in Threads, \A s \in Threads \ {t} : Same(s),
         UNCHANGED <<nodes, buckets, collected, stored>>,
         Distinct', Thread(L, b, t)', Sought(L, b, t)'
  PROVE  IInv(L, b)'
<1> USE DEF nodes
<1>1. Change(L, b, L, b, t, Null)
  BY DEF Change, Live
<1>2. Sorted(L, b)'
  BY DEF IInv, Sorted, Ghosts, Fields, Buckets, Links, Edge, Lazy, IsKey,
         InBucket, SameRun, Live
<1>3. Kept(L)'
  <2>1. List' = List
    BY DEF List
  <2>2. Plain' = Plain
    BY DEF Plain
  <2> QED
    BY <2>1, <2>2 DEF IInv, Kept
<1> QED
  BY <1>1, <1>2, <1>3, Assemble

LEMMA BeginStep ==
  ASSUME TypeOK, NEW L, NEW b, IInv(L, b), NEW t \in Threads, Begin(t)
  PROVE  TypeOK' /\ IInv(L, b)'
<1> USE DEF Begin, Goto, nodes, index, search
<1>1. PICK o \in Ops, k \in Keys :
        /\ op' = [op EXCEPT ![t] = o]
        /\ arg' = [arg EXCEPT ![t] = k]
        /\ sure' = [sure EXCEPT ![t] = k \in stored]
        /\ pc' = [pc EXCEPT ![t] = IF o = "store" THEN "count" ELSE "locate"]
  OBVIOUS
<1>2. TypeOK'
  <2>1. sure' \in [Threads -> BOOLEAN]
    BY <1>1 DEF TypeOK
  <2>2. arg' \in [Threads -> Keys \cup {NoKey}]
    BY <1>1 DEF TypeOK
  <2>3. op' \in [Threads -> Ops \cup {"none"}]
    BY <1>1 DEF TypeOK
  <2>4. pc' \in [Threads -> {"idle", "count", "claim", "array", "bits", "locate",
                         "publish", "first", "seek", "splice", "walk", "scan",
                         "link", "bump", "cut"}]
    BY <1>1 DEF TypeOK
  <2>5. calls' \in 0 .. MaxCalls
    BY BoundsAssumption DEF TypeOK
  <2> QED
    BY <2>1, <2>2, <2>3, <2>4, <2>5 DEF TypeOK
<1>3. \A s \in Threads \ {t} : Same(s)
  BY <1>1 DEF TypeOK, Same
<1>4. /\ op'[t] = o /\ arg'[t] = k /\ (sure'[t] => k \in stored)
      /\ pc'[t] = IF o = "store" THEN "count" ELSE "locate"
  BY <1>1 DEF TypeOK
<1>5. Distinct' /\ fresh'[t] = Null
  BY DEF IInv, Distinct, Live, Thread
<1>6. Thread(L, b, t)' /\ Sought(L, b, t)'
  BY <1>4, <1>5 DEF Thread, Sought
<1> QED
  BY <1>2, <1>3, <1>5, <1>6, LocalStep

LEMMA CheckCountStep ==
  ASSUME TypeOK, NEW L, NEW b, IInv(L, b), NEW t \in Threads, CheckCount(t)
  PROVE  TypeOK' /\ IInv(L, b)'
<1> USE DEF CheckCount, Goto, nodes, index, call, search
<1> DEFINE label == IF elementCount > 2^bitlen THEN "claim" ELSE "locate"
<1>1. label \in {"claim", "locate"} /\ pc' = [pc EXCEPT ![t] = label]
  OBVIOUS
<1> HIDE DEF label
<1>2. TypeOK'
  BY <1>1 DEF TypeOK
<1>3. \A s \in Threads \ {t} : Same(s)
  BY <1>1 DEF TypeOK, Same
<1>4. pc'[t] \in {"claim", "locate"} /\ pc[t] = "count"
  BY <1>1 DEF TypeOK
<1>5. Distinct' /\ Thread(L, b, t) /\ Sought(L, b, t)
  BY DEF IInv, Distinct, Live
<1>6. Thread(L, b, t)' /\ Sought(L, b, t)'
  BY <1>4, <1>5 DEF Thread, Sought
<1> QED
  BY <1>2, <1>3, <1>5, <1>6, LocalStep

LEMMA ClaimBitlenStep ==
  ASSUME TypeOK, NEW L, NEW b, IInv(L, b), NEW t \in Threads, ClaimBitlen(t)
  PROVE  TypeOK' /\ IInv(L, b)'
<1> USE DEF ClaimBitlen, Goto, nodes, call
<1>1. TypeOK'
  <2>1. bitlenInternal' \in 1 .. MaxBitlen
    BY BoundsAssumption DEF TypeOK
  <2>2. word' \in [Threads -> Nat]
    BY BoundsAssumption DEF TypeOK
  <2> QED
    BY <2>1, <2>2 DEF TypeOK
<1>2. \A s \in Threads \ {t} : Same(s)
  BY DEF TypeOK, Same
<1>3. pc'[t] = "array" /\ pc[t] = "claim"
  BY DEF TypeOK
<1>4. Distinct' /\ Thread(L, b, t) /\ Sought(L, b, t)
  BY DEF IInv, Distinct, Live
<1>5. Thread(L, b, t)' /\ Sought(L, b, t)'
  BY <1>3, <1>4 DEF Thread, Sought
<1> QED
  BY <1>1, <1>2, <1>4, <1>5, LocalStep

LEMMA PublishArrayStep ==
  ASSUME TypeOK, ResizeInv, NEW L, NEW b, IInv(L, b), NEW t \in Threads,
         PublishArray(t)
  PROVE  TypeOK' /\ IInv(L, b)'
<1> USE DEF PublishArray, Goto, nodes, call, search
<1>1. TypeOK'
  <2>1. word[t] \in bitlen + 1 .. bitlenInternal
    BY DEF ResizeInv, Claimed, Resizing
  <2>2. bitlen \in 1 .. MaxBitlen /\ bitlenInternal \in 1 .. MaxBitlen
        /\ arrays \subseteq 0 .. MaxBitlen - 1 /\ MaxBitlen \in Nat
    BY BoundsAssumption DEF TypeOK
  <2>3. word[t] - 1 \in 0 .. MaxBitlen - 1
    BY <2>1, <2>2
  <2>4. arrays' = arrays \cup {word[t] - 1}
    OBVIOUS
  <2>5. arrays' \subseteq 0 .. MaxBitlen - 1
    BY <2>2, <2>3, <2>4
  <2> QED
    BY <2>5 DEF TypeOK
<1>2. \A s \in Threads \ {t} : Same(s)
  BY DEF TypeOK, Same
<1>3. pc'[t] = "bits" /\ pc[t] = "array"
  BY DEF TypeOK
<1>4. Distinct' /\ Thread(L, b, t) /\ Sought(L, b, t)
  BY DEF IInv, Distinct, Live
<1>5. Thread(L, b, t)' /\ Sought(L, b, t)'
  BY <1>3, <1>4 DEF Thread, Sought
<1> QED
  BY <1>1, <1>2, <1>4, <1>5, LocalStep

LEMMA PublishBitlenStep ==
  ASSUME TypeOK, ResizeInv, NEW L, NEW b, IInv(L, b), NEW t \in Threads,
         PublishBitlen(t)
  PROVE  TypeOK' /\ IInv(L, b)'
<1> USE DEF PublishBitlen, Goto, nodes, call
<1>1. TypeOK'
  <2>1. word[t] \in bitlen + 1 .. bitlenInternal
    BY DEF ResizeInv, Claimed, Resizing
  <2>2. bitlen' \in 1 .. MaxBitlen
    BY <2>1, BoundsAssumption DEF TypeOK
  <2> QED
    BY <2>2 DEF TypeOK
<1>2. \A s \in Threads \ {t} : Same(s)
  BY DEF TypeOK, Same
<1>3. pc'[t] = "locate" /\ pc[t] = "bits"
  BY DEF TypeOK
<1>4. Distinct' /\ Thread(L, b, t) /\ Sought(L, b, t)
  BY DEF IInv, Distinct, Live
<1>5. Thread(L, b, t)' /\ Sought(L, b, t)'
  BY <1>3, <1>4 DEF Thread, Sought
<1> QED
  BY <1>1, <1>2, <1>4, <1>5, LocalStep

(* What a return leaves of a call: nothing.                                *)
LEMMA Returned ==
  ASSUME TypeOK, NEW L, NEW b, NEW M, NEW c, IInv(L, b), NEW t \in Threads,
         Return(t), allocated' = allocated
  PROVE  /\ Distinct' /\ Thread(M, c, t)' /\ Sought(M, c, t)'
         /\ \A s \in Threads \ {t} : Same(s)
<1> USE DEF Return, Goto
<1>1. Distinct'
  <2>1. fresh' = [fresh EXCEPT ![t] = Null] /\ Null \in {Null, fresh[t]}
    OBVIOUS
  <2> QED
    BY <2>1, DistinctStays DEF IInv
<1>2. \A s \in Threads \ {t} : Same(s)
  BY DEF TypeOK, Same
<1>3. pc'[t] = "idle" /\ fresh'[t] = Null
  BY DEF TypeOK
<1>4. Thread(M, c, t)' /\ Sought(M, c, t)'
  BY <1>3 DEF Thread, Sought
<1> QED
  BY <1>1, <1>2, <1>4

LEMMA ReturnTypes ==
  ASSUME TypeOK, NEW t \in Threads, Return(t)
  PROVE  /\ op' \in [Threads -> Ops \cup {"none"}]
         /\ arg' \in [Threads -> Keys \cup {NoKey}]
         /\ sure' \in [Threads -> BOOLEAN]
         /\ \A ptr \in {start', prev', cur', fresh'} :
              ptr \in [Threads -> Nodes \cup {Null}]
         /\ word' \in [Threads -> Nat]
         /\ pc' = [pc EXCEPT ![t] = "idle"]
BY DEF Return, Goto, TypeOK

LEMMA AnswerStep ==
  ASSUME TypeOK, NEW L, NEW b, IInv(L, b), NEW t \in Threads, Answer(t)
  PROVE  TypeOK' /\ IInv(L, b)'
<1>1. Return(t) /\ UNCHANGED <<nodes, index, elementCount, collected, calls, stored>>
  BY DEF Answer
<1>2. TypeOK'
  BY <1>1, ReturnTypes DEF TypeOK, nodes, index
<1>3. Distinct' /\ Thread(L, b, t)' /\ Sought(L, b, t)'
      /\ \A s \in Threads \ {t} : Same(s)
  BY <1>1, Returned DEF nodes
<1> QED
  BY <1>1, <1>2, <1>3, LocalStep DEF index

LEMMA CountNodeStep ==
  ASSUME TypeOK, NEW L, NEW b, IInv(L, b), NEW t \in Threads, CountNode(t)
  PROVE  TypeOK' /\ IInv(L, b)'
<1>1. Return(t) /\ UNCHANGED <<nodes, index, collected, calls, stored>>
      /\ elementCount' = elementCount + 1
  BY DEF CountNode
<1>2. TypeOK'
  <2>1. elementCount' \in Nat
    BY <1>1 DEF TypeOK
  <2>2. pc' \in [Threads -> {"idle", "count", "claim", "array", "bits", "locate",
                         "publish", "first", "seek", "splice", "walk", "scan",
                         "link", "bump", "cut"}]
    BY <1>1, ReturnTypes DEF TypeOK
  <2> QED
    BY <1>1, <2>1, <2>2, ReturnTypes DEF TypeOK, nodes, index
<1>3. Distinct' /\ Thread(L, b, t)' /\ Sought(L, b, t)'
      /\ \A s \in Threads \ {t} : Same(s)
  BY <1>1, Returned DEF nodes
<1> QED
  BY <1>1, <1>2, <1>3, LocalStep DEF index

(* In a call the target is a hash of a key.                                *)
LEMMA TargetFacts ==
  ASSUME NEW L, NEW b, NEW t \in Threads, Thread(L, b, t), pc[t] # "idle"
  PROVE  /\ arg[t] \in Keys /\ op[t] \in Ops /\ arg[t] # NoKey
         /\ Target(t) \in Hashes /\ Target(t) \in Nat /\ Target(t) < MaxHash
<1>1. arg[t] \in Keys /\ op[t] \in Ops
  BY DEF Thread
<1>2. Target(t) \in 1 .. MaxHash - 1
  BY <1>1, HashAssumption DEF Target
<1> QED
  BY <1>1, <1>2, KeyAssumption, HashesFacts DEF Hashes

(* What is read from the link of a node, and where it leads.               *)
LEMMA LinkRead ==
  ASSUME TypeOK, NEW L, NEW b, Sorted(L, b), NEW p, Seen(L, p)
  PROVE  Passed(L, b, p, next[p]) /\ p \in Nodes
<1>1. p \in Live \ {End} /\ p \in Nodes
  BY LiveNodes DEF Seen
<1> QED
  BY <1>1 DEF Sorted, Links, Lazy, Passed

LEMMA PassedNode ==
  ASSUME TypeOK, NEW L, NEW b, Sorted(L, b), NEW p, NEW q,
         Passed(L, b, p, q)
  PROVE  q \in Live /\ q \in Nodes /\ hash[q] \in Nat
         /\ (hash[q] < MaxHash => Seen(L, q))
         /\ (IsKey(q) => Edge(L, b, p, q) /\ q \in L /\ q # End)
<1>1. CASE Edge(L, b, p, q)
  <2>1. q \in L /\ q \in Live /\ q \in Nodes
    BY <1>1, LiveNodes DEF Edge, Sorted, Ghosts
  <2>2. hash[q] \in Nat /\ hash[End] = MaxHash /\ MaxHash \in Nat /\ ~IsKey(End)
    BY <2>1, HashTypes, HashesFacts DEF Sorted, Fields
  <2> QED
    BY <1>1, <2>1, <2>2 DEF Seen
<1>2. CASE InBucket(q) /\ hash[q] < hash[p]
  <2>1. q \in Live \ {End} /\ ~IsKey(q) /\ q \in Nodes
    BY <1>2, BucketNodes, LiveNodes
  <2> QED
    BY <1>2, <2>1, HashTypes DEF Seen
<1> QED
  BY <1>1, <1>2 DEF Passed

(* Before a bucket is split there are two sentinels.                       *)
LEMMA PlainBucket ==
  ASSUME TypeOK, NEW L, NEW b, Sorted(L, b), Plain, NEW n, InBucket(n)
  PROVE  n \in L
<1>1. PICK i \in Slots : buckets[i] = n /\ n # Null
  BY DEF InBucket
<1>2. i = 0 \/ i = 1
  <2>1. i \in Nat /\ i \in DOMAIN buckets
    BY BoundsAssumption, PowerPositive DEF Slots, TypeOK
  <2> QED
    BY <1>1, <2>1 DEF Plain
<1> QED
  BY <1>1, <1>2 DEF Sorted, Buckets, Ghosts

LEMMA LocateStep ==
  ASSUME TypeOK, NEW L, NEW b, IInv(L, b), NEW t \in Threads,
         LocateSentinel(t)
  PROVE  TypeOK' /\ IInv(L, b)'
<1> USE DEF nodes, index, call
<1> DEFINE slot == SlotOf(Target(t), bitlen)
           from == IF buckets[slot] # Null THEN slot ELSE Parent(slot, FALSE)
<1>1. Sorted(L, b) /\ Distinct /\ Thread(L, b, t) /\ Sought(L, b, t)
      /\ pc[t] = "locate"
  BY DEF IInv, LocateSentinel
<1>2. Target(t) \in Hashes /\ Target(t) \in Nat
  BY <1>1, TargetFacts
<1>3. slot \in Slots /\ Reverse(slot) <= Target(t)
  BY <1>2, SlotFacts DEF TypeOK
<1>4. /\ start' = [start EXCEPT ![t] = buckets[from]]
      /\ pc' = [pc EXCEPT ![t] = "walk"]
      /\ UNCHANGED <<nodes, index, elementCount, collected, calls, stored, call,
                    prev, cur, fresh, word>>
  BY DEF LocateSentinel, Goto
<1> HIDE DEF slot
<1>5. /\ from \in Slots /\ buckets[from] # Null
      /\ Reverse(from) <= Target(t)
  <2>1. CASE buckets[slot] # Null
    BY <1>3, <2>1
  <2>2. CASE buckets[slot] = Null
    <3>1. buckets[0] # Null /\ buckets[1] # Null
      BY <1>1 DEF Sorted, Buckets, First, Half, Null
    <3>2. slot \in Slots \ {0, 1} /\ FALSE \in BOOLEAN
      BY <1>3, <2>2, <3>1
    <3>3. /\ Parent(slot, FALSE) \in Slots
          /\ buckets[Parent(slot, FALSE)] # Null
          /\ Reverse(Parent(slot, FALSE)) < Reverse(slot)
      BY <3>1, <3>2, ParentFacts
    <3>4. from = Parent(slot, FALSE)
      BY <2>2
    <3> HIDE DEF from
    <3>5. from \in Slots /\ buckets[from] # Null /\ Reverse(from) < Reverse(slot)
      BY <3>3, <3>4
    <3>6. Reverse(from) \in Nat /\ Reverse(slot) \in Nat
      BY <1>3, <3>5, SlotReverse
    <3> QED
      BY <1>2, <1>3, <3>5, <3>6
  <2> QED
    BY <2>1, <2>2
<1> HIDE DEF from
<1>6. /\ buckets[from] \in Live \ {End} /\ hash[buckets[from]] = Reverse(from)
      /\ buckets[from] \in Nodes
  BY <1>1, <1>5, LiveNodes DEF Sorted, Buckets
<1>7. TypeOK'
  <2>1. start' \in [Threads -> Nodes \cup {Null}]
    BY <1>4, <1>6 DEF TypeOK
  <2> QED
    BY <1>4, <2>1 DEF TypeOK
<1>8. \A s \in Threads \ {t} : Same(s)
  BY <1>4 DEF TypeOK, Same
<1>9. start'[t] = buckets[from] /\ pc'[t] = "walk"
  BY <1>4 DEF TypeOK
<1>10. Started(t)'
  BY <1>4, <1>5, <1>6, <1>9 DEF Started, InBucket, Target
<1>11. Distinct'
  BY <1>4, <1>1 DEF Distinct, Live
<1>12. Thread(L, b, t)' /\ Sought(L, b, t)'
  BY <1>4, <1>1, <1>9, <1>10 DEF Thread, Sought
<1> QED
  BY <1>4, <1>7, <1>8, <1>11, <1>12, LocalStep

LEMMA SeekFirstStep ==
  ASSUME TypeOK, NEW L, NEW b, IInv(L, b), NEW t \in Threads, SeekFirst(t)
  PROVE  TypeOK' /\ IInv(L, b)'
<1> USE DEF SeekFirst, Goto, nodes, index, call
<1>1. Sorted(L, b) /\ Distinct /\ Thread(L, b, t) /\ Sought(L, b, t)
      /\ pc[t] = "first"
  BY DEF IInv
<1>2. OwnSentinel(L, t) /\ Seen(L, prev[t])
  BY <1>1 DEF Thread, OwnSentinel
<1>3. Passed(L, b, prev[t], next[prev[t]]) /\ prev[t] \in Nodes
  BY <1>1, <1>2, LinkRead
<1>4. TypeOK'
  BY SMTT(60), <1>3, HashTypes DEF TypeOK
<1>5. \A s \in Threads \ {t} : Same(s)
  BY DEF TypeOK, Same
<1>6. cur'[t] = next[prev[t]] /\ pc'[t] = "seek"
  BY DEF TypeOK
<1>7. Passed(L, b, prev[t], cur[t])'
  BY <1>3, <1>6 DEF Passed, Edge, InBucket, IsKey, SameRun
<1>8. OwnSentinel(L, t)'
  BY <1>2 DEF OwnSentinel, Live, IsKey, Seen, Target, InBucket
<1>9. Distinct'
  BY <1>1 DEF Distinct, Live
<1>10. Thread(L, b, t)' /\ Sought(L, b, t)'
  BY <1>1, <1>6, <1>7, <1>8 DEF Thread, Sought
<1> QED
  BY <1>4, <1>5, <1>9, <1>10, LocalStep

LEMMA SeekNextStep ==
  ASSUME TypeOK, NEW L, NEW b, IInv(L, b), NEW t \in Threads, SeekNext(t)
  PROVE  TypeOK' /\ IInv(L, b)'
<1> USE DEF SeekNext, Advance, nodes, index, call
<1>1. Sorted(L, b) /\ Distinct /\ Thread(L, b, t) /\ Sought(L, b, t)
      /\ pc[t] = "seek" /\ hash[cur[t]] < hash[fresh[t]]
  BY DEF IInv
<1>2. OwnSentinel(L, t) /\ Passed(L, b, prev[t], cur[t])
  BY <1>1 DEF Thread
<1>3. Target(t) \in Nat /\ Target(t) < MaxHash /\ MaxHash \in Nat
  BY <1>1, TargetFacts, HashesFacts
<1>4. hash[fresh[t]] \in Nat /\ hash[fresh[t]] <= Target(t)
  BY <1>2, LiveNodes, HashTypes DEF OwnSentinel
<1>5. Seen(L, cur[t])
  BY <1>1, <1>2, <1>3, <1>4, PassedNode
<1>6. Passed(L, b, cur[t], next[cur[t]]) /\ cur[t] \in Nodes
  BY <1>1, <1>5, LinkRead
<1>7. TypeOK'
  BY <1>6, HashTypes DEF TypeOK
<1>8. \A s \in Threads \ {t} : Same(s)
  BY DEF TypeOK, Same
<1>9. prev'[t] = cur[t] /\ cur'[t] = next[cur[t]] /\ pc'[t] = pc[t]
  BY DEF TypeOK
<1>10. Passed(L, b, prev[t], cur[t])'
  BY <1>6, <1>9 DEF Passed, Edge, InBucket, IsKey, SameRun
<1>11. OwnSentinel(L, t)'
  BY <1>1, <1>2, <1>5, <1>9 DEF OwnSentinel, Live, IsKey, Seen, Target, InBucket
<1>12. Distinct'
  BY <1>1 DEF Distinct, Live
<1>13. Thread(L, b, t)' /\ Sought(L, b, t)'
  BY <1>1, <1>9, <1>10, <1>11 DEF Thread, Sought
<1> QED
  BY <1>7, <1>8, <1>12, <1>13, LocalStep

(* What was so of nodes that nobody touches.                               *)
LEMMA Unmoved ==
  ASSUME UNCHANGED <<nodes, buckets, collected>>, NEW L, NEW b, NEW n, NEW m
  PROVE  /\ Edge(L, b, n, m)' <=> Edge(L, b, n, m)
         /\ Passed(L, b, n, m)' <=> Passed(L, b, n, m)
         /\ Seen(L, n)' <=> Seen(L, n)
         /\ InBucket(n)' <=> InBucket(n)
         /\ Behind(b, n, m)' <=> Behind(b, n, m)
BY DEF nodes, Edge, Passed, Seen, InBucket, Behind, IsKey, SameRun, Live

LEMMA WalkStep ==
  ASSUME TypeOK, NEW L, NEW b, IInv(L, b), NEW t \in Threads, Walk(t)
  PROVE  TypeOK' /\ IInv(L, b)'
<1> USE DEF Walk, Goto, nodes, index, call
<1>1. Sorted(L, b) /\ Distinct /\ Kept(L) /\ Thread(L, b, t) /\ Sought(L, b, t)
      /\ pc[t] = "walk"
  BY DEF IInv
<1>2. PICK p : p = start[t]
  OBVIOUS
<1>3. InBucket(p) /\ hash[p] <= Target(t) /\ p \in Live \ {End} /\ ~IsKey(p)
  BY <1>1, <1>2, BucketNodes DEF Thread, Started
<1>4. Seen(L, p)
  BY <1>3 DEF Seen
<1>5. Passed(L, b, p, next[p]) /\ p \in Nodes
  BY <1>1, <1>4, LinkRead
<1>6. TypeOK'
  <2>1. prev' \in [Threads -> Nodes \cup {Null}]
    BY <1>2, <1>5 DEF TypeOK
  <2>2. cur' \in [Threads -> Nodes \cup {Null}]
    BY <1>2, <1>5, HashTypes DEF TypeOK
  <2> QED
    BY <2>1, <2>2 DEF TypeOK
<1>7. \A s \in Threads \ {t} : Same(s)
  BY DEF TypeOK, Same
<1>8. prev'[t] = p /\ cur'[t] = next[p] /\ pc'[t] = "scan"
  BY <1>2 DEF TypeOK
<1>9. Passed(L, b, prev[t], cur[t])'
  BY <1>5, <1>8, Unmoved
<1>10. Knows(L, b, t)'
  BY <1>3, <1>4, <1>8, Unmoved DEF Knows, Target, SameRun, IsKey
<1>11. Started(t)'
  BY <1>1, Unmoved DEF Thread, Started, Target
<1>12. fresh'[t] = Null \/ OwnKey(L, t)'
  BY <1>1 DEF Thread, OwnKey, Live
<1>13. Distinct'
  BY <1>1 DEF Distinct, Live
<1>14. Thread(L, b, t)'
  BY <1>1, <1>8, <1>9, <1>10, <1>11, <1>12 DEF Thread
<1>15. Sought(L, b, t)'
  <2> SUFFICES ASSUME sure[t]
               PROVE  /\ arg[t] \in stored
                      /\ Plain' => \E n \in L : /\ key[n] = arg[t]
                                                /\ \/ n = cur'[t]
                                                   \/ Behind(b, cur[t], n)'
    BY DEF Sought
  <2>1. arg[t] \in stored
    BY <1>1 DEF Sought
  <2>2. ASSUME Plain'
        PROVE  \E n \in L : key[n] = arg[t] /\ (n = cur'[t] \/ Behind(b, cur[t], n)')
    <3>1. Plain
      BY <2>2 DEF Plain
    <3>2. PICK n \in L : key[n] = arg[t]
      BY <1>1, <2>1 DEF Kept
    <3>3. p \in L /\ L \subseteq List
      BY <1>1, <1>3, <3>1, PlainBucket DEF Kept
    <3>4. Behind(b, p, n)
      <4>1. n \in Live /\ IsKey(n)
        BY <1>1, <3>2, TargetFacts DEF Sorted, Ghosts, IsKey
      <4>2. hash[n] = Target(t)
        BY <1>1, <3>2, <4>1 DEF Sorted, Fields, Target
      <4>3. hash[p] \in Nat /\ Target(t) \in Nat
        BY <1>1, <1>5, HashTypes, TargetFacts
      <4> QED
        BY <1>3, <4>1, <4>2, <4>3 DEF Behind
    <3>5. n = next[p] \/ Behind(b, next[p], n)
      BY <1>1, <3>3, <3>4, Successor
    <3> QED
      BY <1>8, <3>2, <3>5, Unmoved
  <2> QED
    BY <2>1, <2>2
<1> QED
  BY <1>6, <1>7, <1>13, <1>14, <1>15, LocalStep

(* The node a search goes past is one it may link something behind.        *)
LEMMA PassedKnows ==
  ASSUME TypeOK, NEW L, NEW b, Sorted(L, b), NEW t \in Threads,
         Thread(L, b, t), pc[t] = "scan",
         \/ hash[cur[t]] < Target(t)
         \/ hash[cur[t]] = Target(t) /\ key[cur[t]] # arg[t]
  PROVE  /\ Seen(L, cur[t]) /\ hash[cur[t]] <= Target(t)
         /\ IsKey(cur[t]) /\ hash[cur[t]] = Target(t) =>
              \A m \in b[cur[t]] \cup {cur[t]} :
                key[m] = arg[t] => m \in collected
<1> DEFINE p == prev[t]
           q == cur[t]
<1>1. Knows(L, b, t) /\ Passed(L, b, p, q)
  BY DEF Thread
<1>2. Target(t) \in Nat /\ Target(t) < MaxHash /\ MaxHash \in Nat
  BY TargetFacts, HashesFacts
<1>3. hash[q] \in Nat /\ (IsKey(q) => Edge(L, b, p, q))
      /\ (hash[q] < MaxHash => Seen(L, q))
  BY <1>1, PassedNode
<1>4. Seen(L, q) /\ hash[q] <= Target(t)
  BY <1>2, <1>3
<1>5. ASSUME IsKey(q), hash[q] = Target(t),
             NEW m \in b[q] \cup {q}, key[m] = arg[t]
      PROVE  m \in collected
  <2>1. Edge(L, b, p, q)
    BY <1>3, <1>5
  <2>2. m # q /\ m \in b[q]
    BY <1>2, <1>5
  <2>3. CASE SameRun(p, q)
    <3>1. hash[p] = Target(t) /\ SameRun(p, p)
      BY <1>5, <2>3 DEF SameRun
    <3>2. m \in b[p] \cup {p} => m \in collected
      BY <1>1, <1>5, <3>1 DEF Knows
    <3> QED
      BY <1>5, <2>1, <2>2, <2>3, <3>2 DEF Edge
  <2>4. CASE ~SameRun(p, q)
    BY <1>5, <2>1, <2>2, <2>4 DEF Edge
  <2> QED
    BY <2>3, <2>4
<1> QED
  BY <1>4, <1>5

LEMMA PassStep ==
  ASSUME TypeOK, NEW L, NEW b, IInv(L, b), NEW t \in Threads, Pass(t)
  PROVE  TypeOK' /\ IInv(L, b)'
<1> USE DEF Pass, Advance, nodes, index, call
<1>1. Sorted(L, b) /\ Distinct /\ Kept(L) /\ Thread(L, b, t) /\ Sought(L, b, t)
      /\ pc[t] = "scan"
  BY DEF IInv
<1>2. PICK q : q = cur[t]
  OBVIOUS
<1>3. /\ Seen(L, q) /\ hash[q] <= Target(t)
      /\ IsKey(q) /\ hash[q] = Target(t) =>
           \A m \in b[q] \cup {q} : key[m] = arg[t] => m \in collected
  BY <1>1, <1>2, PassedKnows
<1>4. Passed(L, b, q, next[q]) /\ q \in Nodes
  BY <1>1, <1>3, LinkRead
<1>5. TypeOK'
  <2>1. prev' \in [Threads -> Nodes \cup {Null}]
    BY <1>2, <1>4 DEF TypeOK
  <2>2. cur' \in [Threads -> Nodes \cup {Null}]
    BY <1>2, <1>4, HashTypes DEF TypeOK
  <2> QED
    BY <2>1, <2>2 DEF TypeOK
<1>6. \A s \in Threads \ {t} : Same(s)
  BY DEF TypeOK, Same
<1>7. prev'[t] = q /\ cur'[t] = next[q] /\ pc'[t] = "scan"
  BY <1>1, <1>2 DEF TypeOK
<1>8. Passed(L, b, prev[t], cur[t])'
  BY <1>4, <1>7, Unmoved
<1>9. Knows(L, b, t)'
  BY <1>3, <1>7, Unmoved DEF Knows, Target, SameRun, IsKey
<1>10. Started(t)'
  BY <1>1, Unmoved DEF Thread, Started, Target
<1>11. fresh'[t] = Null \/ OwnKey(L, t)'
  BY <1>1 DEF Thread, OwnKey, Live
<1>12. Distinct'
  BY <1>1 DEF Distinct, Live
<1>13. Thread(L, b, t)'
  BY <1>1, <1>7, <1>8, <1>9, <1>10, <1>11 DEF Thread
<1>14. Sought(L, b, t)'
  <2> SUFFICES ASSUME sure[t]
               PROVE  /\ arg[t] \in stored
                      /\ Plain' => \E n \in L : /\ key[n] = arg[t]
                                                /\ \/ n = cur'[t]
                                                   \/ Behind(b, cur[t], n)'
    BY DEF Sought
  <2>1. arg[t] \in stored
    BY <1>1 DEF Sought
  <2>2. ASSUME Plain'
        PROVE  \E n \in L : key[n] = arg[t] /\ (n = cur'[t] \/ Behind(b, cur[t], n)')
    <3>1. Plain
      BY <2>2 DEF Plain
    <3>2. PICK n \in L : key[n] = arg[t] /\ (n = q \/ Behind(b, q, n))
      BY <1>1, <1>2, <2>1, <3>1 DEF Sought
    <3>3. q \in L /\ L \subseteq List
      BY <1>1, <1>3, <3>1, PlainBucket DEF Kept, Seen
    <3>4. n # q
      <4>1. n \in Live /\ IsKey(n) /\ Target(t) \in Nat
        BY <1>1, <3>2, TargetFacts DEF Sorted, Ghosts, IsKey
      <4>2. hash[n] = Target(t)
        BY <1>1, <3>2, <4>1 DEF Sorted, Fields, Target
      <4> QED
        BY <1>2, <3>2, <4>1, <4>2
    <3>5. n = next[q] \/ Behind(b, next[q], n)
      BY <1>1, <3>2, <3>3, <3>4, Successor
    <3> QED
      BY <1>7, <3>2, <3>5, Unmoved
  <2> QED
    BY <2>1, <2>2
<1> QED
  BY <1>5, <1>6, <1>12, <1>13, <1>14, LocalStep

LEMMA ReadNextStep ==
  ASSUME TypeOK, NEW L, NEW b, IInv(L, b), NEW t \in Threads, ReadNext(t)
  PROVE  TypeOK' /\ IInv(L, b)'
<1> USE DEF ReadNext, Hit, Goto, nodes, index, call
<1>1. Sorted(L, b) /\ Distinct /\ Thread(L, b, t) /\ Sought(L, b, t)
      /\ pc[t] = "scan" /\ key[cur[t]] = arg[t] /\ op[t] = "del"
  BY DEF IInv
<1>2. Knows(L, b, t) /\ Passed(L, b, prev[t], cur[t]) /\ Seen(L, prev[t])
      /\ Started(t) /\ fresh[t] = Null
  BY <1>1 DEF Thread, Knows, OwnKey
<1>3. IsKey(cur[t])
  BY <1>1, TargetFacts DEF IsKey
<1>4. Edge(L, b, prev[t], cur[t]) /\ cur[t] \in L \ {End}
  BY <1>1, <1>2, <1>3, PassedNode
<1>5. Edge(L, b, cur[t], next[cur[t]]) /\ next[cur[t]] \in L
  BY <1>1, <1>4, NextInL
<1>6. next[cur[t]] \in Nat
  <2>1. next[cur[t]] \in Live
    BY <1>1, <1>5 DEF Sorted, Ghosts
  <2> QED
    BY <2>1 DEF Live
<1>7. TypeOK'
  <2>1. word' \in [Threads -> Nat]
    BY <1>6 DEF TypeOK
  <2> QED
    BY <2>1 DEF TypeOK
<1>8. \A s \in Threads \ {t} : Same(s)
  BY DEF TypeOK, Same
<1>9. word'[t] = next[cur[t]] /\ pc'[t] = "cut" /\ prev' = prev /\ cur' = cur
  BY DEF TypeOK
<1>10. /\ Edge(L, b, prev[t], cur[t])' /\ Edge(L, b, cur[t], word[t])'
       /\ Seen(L, prev[t])' /\ IsKey(cur[t])'
  BY <1>2, <1>3, <1>4, <1>5, <1>9, Unmoved DEF IsKey
<1>11. Started(t)'
  BY <1>2, Unmoved DEF Started, Target
<1>12. Distinct'
  BY <1>1 DEF Distinct, Live
<1>13. Thread(L, b, t)' /\ Sought(L, b, t)'
  BY <1>1, <1>2, <1>9, <1>10, <1>11 DEF Thread, Sought
<1> QED
  BY <1>7, <1>8, <1>12, <1>13, LocalStep

(* A CAS that fails.                                                       *)
LEMMA PublishLost ==
  ASSUME TypeOK, NEW L, NEW b, IInv(L, b), NEW t \in Threads,
         PublishSentinel(t), buckets[word[t]] # Null
  PROVE  TypeOK' /\ IInv(L, b)'
<1> USE DEF PublishSentinel, Goto, nodes, call
<1>1. Sorted(L, b) /\ Distinct /\ Thread(L, b, t) /\ Sought(L, b, t)
      /\ pc[t] = "publish"
  BY DEF IInv
<1>2. OwnSentinel(L, t)
  BY <1>1 DEF Thread
<1>3. PICK n : n = buckets[word[t]]
  OBVIOUS
<1>4. n \in Live \ {End} /\ n \in Nodes /\ hash[n] = Reverse(word[t])
      /\ InBucket(n) /\ hash[n] <= Target(t)
  BY <1>1, <1>2, <1>3, LiveNodes DEF OwnSentinel, Sorted, Buckets, InBucket
<1>5. TypeOK'
  <2>1. start' \in [Threads -> Nodes \cup {Null}]
    BY <1>3, <1>4 DEF TypeOK
  <2>2. fresh' \in [Threads -> Nodes \cup {Null}]
    BY DEF TypeOK
  <2> QED
    BY <2>1, <2>2 DEF TypeOK
<1>6. \A s \in Threads \ {t} : Same(s)
  BY DEF TypeOK, Same
<1>7. start'[t] = n /\ fresh'[t] = Null /\ pc'[t] = "walk"
  BY <1>3 DEF TypeOK
<1>8. Started(t)'
  BY <1>4, <1>7, Unmoved DEF Started, Target
<1>9. Distinct'
  <2>1. fresh' = [fresh EXCEPT ![t] = Null] /\ Null \in {Null, fresh[t]}
    OBVIOUS
  <2> QED
    BY <1>1, <2>1, DistinctStays
<1>10. Thread(L, b, t)' /\ Sought(L, b, t)'
  BY <1>1, <1>7, <1>8 DEF Thread, Sought
<1> QED
  BY <1>5, <1>6, <1>9, <1>10, LocalStep

(* The same for the one that tries again with all it has.                  *)
LEMMA LostRace ==
  ASSUME TypeOK, NEW L, NEW b, IInv(L, b), NEW t \in Threads, NEW label,
         \/ pc[t] \in {"link", "cut"} /\ label = "walk"
         \/ pc[t] = "splice" /\ label = "first",
         pc' = [pc EXCEPT ![t] = label],
         UNCHANGED <<nodes, index, elementCount, collected, calls, stored,
                     call, search>>
  PROVE  TypeOK' /\ IInv(L, b)'
<1> USE DEF nodes, index, call, search
<1>1. Sorted(L, b) /\ Distinct /\ Thread(L, b, t) /\ Sought(L, b, t)
  BY DEF IInv
<1>2. TypeOK'
  BY DEF TypeOK
<1>3. \A s \in Threads \ {t} : Same(s)
  BY DEF TypeOK, Same
<1>4. pc'[t] = label
  BY DEF TypeOK
<1>5. Distinct'
  BY <1>1 DEF Distinct, Live
<1>6. Sought(L, b, t)'
  BY <1>1, <1>4 DEF Sought
<1>7. ASSUME pc[t] \in {"link", "cut"} PROVE Thread(L, b, t)'
  <2>1. Started(t) /\ (fresh[t] = Null \/ OwnKey(L, t))
    BY <1>1, <1>7 DEF Thread
  <2>2. Started(t)' /\ (fresh'[t] = Null \/ OwnKey(L, t)')
    BY <2>1, Unmoved DEF Started, Target, OwnKey, Live
  <2> QED
    BY <1>1, <1>4, <1>7, <2>2 DEF Thread
<1>8. ASSUME pc[t] = "splice" PROVE Thread(L, b, t)'
  <2>1. OwnSentinel(L, t) /\ buckets[word[t]] = fresh[t]
    BY <1>1, <1>8 DEF Thread
  <2>2. OwnSentinel(L, t)' /\ buckets'[word'[t]] = fresh'[t]
    BY <2>1, Unmoved DEF OwnSentinel, Target, Live, IsKey
  <2> QED
    BY <1>1, <1>4, <1>8, <2>2 DEF Thread
<1> QED
  BY <1>2, <1>3, <1>5, <1>6, <1>7, <1>8, LocalStep

-----------------------------------------------------------------------------
(* The steps that change a node or a bucket: what stays.                   *)

Closed(L) == First \in List /\ List \subseteq L /\ next[End] = Null
             /\ \A n \in List \ {End} : next[n] \in List

LEMMA ClosedHere == \A L, b : TypeOK /\ Sorted(L, b) => Closed(L)
BY ListClosed DEF Closed

(* In the next state too.                                                  *)
LEMMA ClosedNext == (\A L, b : TypeOK /\ Sorted(L, b) => Closed(L))'
BY ClosedHere, PTL

(* A step that changes a link drops nothing from the list if the node that *)
(* follows now has the old follower behind it.                             *)
LEMMA ListStays ==
  ASSUME TypeOK, TypeOK', NEW L, NEW b, Sorted(L, b), NEW M, NEW c,
         Sorted(M, c)', NEW t, NEW x, Change(L, b, M, c, t, x),
         x \in L => next'[x] # End /\ next'[next'[x]] = next[x]
  PROVE  List \subseteq List'
<1>1. PICK C : C = List'
  OBVIOUS
<1>2. /\ First \in C /\ next'[End] = Null
      /\ \A n \in C \ {End} : next'[n] \in C
  BY <1>1, ClosedNext DEF Closed
<1>3. ASSUME NEW n \in C \cap List, next[n] # Null PROVE next[n] \in C
  <2>1. n \in L /\ n # End /\ n \in Live
    BY <1>3, ListClosed, LiveNodes DEF Sorted, Ghosts
  <2>2. CASE n = x
    BY <1>2, <2>1, <2>2
  <2>3. CASE n # x
    BY <1>2, <2>1, <2>3 DEF Change
  <2> QED
    BY <2>2, <2>3
<1> QED
  BY <1>1, <1>2, <1>3, ListLeast

LEMMA GhostsGrow ==
  ASSUME NEW L, NEW b, Sorted(L, b), NEW t, NEW x, NEW M,
         Change(L, b, M, b, t, x), M \subseteq Live'
  PROVE  Ghosts(M, b)'
<1>1. Ghosts(L, b)
  BY DEF Sorted
<1>2. L \subseteq M /\ \A n \in L : key'[n] = key[n] /\ hash'[n] = hash[n]
  BY <1>1 DEF Ghosts, Change
<1>3. ASSUME NEW n \in Nodes, NEW m \in b[n]
      PROVE  /\ n \in M /\ m # n /\ n \notin b[m]
             /\ IsKey(m)' /\ IsKey(n)' /\ hash'[m] = hash'[n]
             /\ key'[m] = key'[n] => m \in collected'
  <2>1. m \in L /\ n \in L
    BY <1>1 DEF Ghosts
  <2>2. collected \subseteq collected'
    BY DEF Change
  <2> QED
    BY <1>1, <1>2, <2>1, <2>2 DEF Ghosts, IsKey
<1>4. b \in [Nodes -> SUBSET M] /\ {First, Half, End} \subseteq M
  BY <1>1, <1>2 DEF Ghosts
<1> QED
  BY <1>3, <1>4 DEF Ghosts

LEMMA GhostsStay ==
  ASSUME NEW L, NEW b, Sorted(L, b), NEW t, NEW x, Change(L, b, L, b, t, x)
  PROVE  Ghosts(L, b)'
<1>1. L \subseteq Live'
  BY DEF Sorted, Ghosts, Change
<1> QED
  BY <1>1, GhostsGrow

LEMMA FieldsStay ==
  ASSUME TypeOK, NEW L, NEW b, Sorted(L, b), NEW M, NEW c, NEW t, NEW x,
         Change(L, b, M, c, t, x), x # End,
         \A n \in Live' \ Live : IsKey(n)' => hash'[n] = Hash[key'[n]]
  PROVE  Fields'
<1>1. /\ ~IsKey(First) /\ ~IsKey(Half) /\ ~IsKey(End)
      /\ hash[End] = MaxHash /\ next[End] = Null
      /\ \A n \in Live : IsKey(n) => hash[n] = Hash[key[n]]
  BY DEF Sorted, Fields
<1>2. /\ \A n \in Live : key'[n] = key[n] /\ hash'[n] = hash[n]
      /\ \A n \in Live \ {x} : next'[n] = next[n]
  BY DEF Change
<1>3. First \in Live /\ Half \in Live /\ End \in Live
  BY LiveNodes
<1>4. ASSUME NEW n \in Live', IsKey(n)' PROVE hash'[n] = Hash[key'[n]]
  BY <1>1, <1>2, <1>4 DEF IsKey
<1> QED
  BY <1>1, <1>2, <1>3, <1>4 DEF Fields, IsKey

LEMMA BucketsStay ==
  ASSUME NEW L, NEW b, Sorted(L, b), NEW t, NEW x, Change(L, b, L, b, t, x),
         buckets' = buckets
  PROVE  Buckets(L)'
<1>1. /\ buckets[0] = First /\ buckets[1] = Half
      /\ \A i \in Slots : buckets[i] # Null =>
           /\ buckets[i] \in Live \ {End} /\ ~IsKey(buckets[i])
           /\ hash[buckets[i]] = Reverse(i)
      /\ \A n \in L \ {End} : ~IsKey(n) => InBucket(n)
  BY DEF Sorted, Buckets
<1>2. \A n \in Live : n \in Live' /\ key'[n] = key[n] /\ hash'[n] = hash[n]
  BY DEF Change
<1>3. ASSUME NEW i \in Slots, buckets[i] # Null
      PROVE  /\ buckets[i] \in Live' \ {End} /\ key'[buckets[i]] = NoKey
             /\ hash'[buckets[i]] = Reverse(i)
  BY <1>1, <1>2, <1>3 DEF IsKey
<1>4. ASSUME NEW n \in L \ {End}, key'[n] = NoKey PROVE InBucket(n)'
  <2>1. ~IsKey(n)
    BY <1>2, <1>4 DEF IsKey, Sorted, Ghosts
  <2> QED
    BY <1>1, <2>1 DEF InBucket
<1> QED
  BY <1>1, <1>3, <1>4 DEF Buckets, IsKey

LEMMA LinkStays ==
  ASSUME NEW L, NEW b, Sorted(L, b), NEW M, NEW c, NEW t, NEW x,
         Change(L, b, M, c, t, x),
         NEW n \in Live \ {End}, n # x, c[n] = b[n], n \notin M \ L
  PROVE  (Edge(M, c, n, next[n]) \/ Lazy(M, n))'
<1>1. PICK m : m = next[n]
  OBVIOUS
<1>2. next'[n] = m /\ key'[n] = key[n] /\ hash'[n] = hash[n]
  BY <1>1 DEF Change
<1>3. CASE Edge(L, b, n, m)
  BY <1>2, <1>3, EdgeStays
<1>4. CASE Lazy(L, n)
  <2>1. ~IsKey(n) /\ n \notin M /\ InBucket(m) /\ hash[m] < hash[n]
    BY <1>1, <1>4 DEF Lazy, Change
  <2>2. InBucket(m)' /\ m \in Live
    BY <2>1, SeenStays, BucketNodes
  <2>3. hash'[m] = hash[m]
    BY <2>2 DEF Change
  <2> QED
    BY <1>2, <2>1, <2>2, <2>3 DEF Lazy, IsKey
<1> QED
  BY <1>1, <1>3, <1>4 DEF Sorted, Links

(* malloc: one node more.                                                  *)
LEMMA Allocated ==
  ASSUME TypeOK, NEW k \in Keys \cup {NoKey}, NEW h \in Hashes,
         NEW m \in Nodes \cup {Null}, Allocate(k, h, m)
  PROVE  /\ allocated + 1 \in Nodes /\ allocated + 1 \notin Live
         /\ allocated + 1 # End /\ allocated' = allocated + 1
         /\ Live' = Live \cup {allocated + 1} /\ allocated' \in 3 .. MaxNodes
         /\ next' \in [Nodes -> Nodes \cup {Null}]
         /\ key' \in [Nodes -> Keys \cup {NoKey}]
         /\ hash' \in [Nodes -> 0 .. MaxHash]
         /\ key'[allocated + 1] = k /\ hash'[allocated + 1] = h
         /\ next'[allocated + 1] = m
         /\ \A n \in Live : key'[n] = key[n] /\ hash'[n] = hash[n]
                            /\ next'[n] = next[n]
<1>1. allocated \in 3 .. MaxNodes /\ MaxNodes \in Nat /\ allocated < MaxNodes
      /\ allocated' = allocated + 1
  BY BoundsAssumption DEF TypeOK, Allocate
<1>2. /\ allocated + 1 \in Nodes /\ allocated + 1 \notin Live
      /\ allocated + 1 # End /\ allocated' \in 3 .. MaxNodes
      /\ Live' = Live \cup {allocated + 1}
  BY <1>1 DEF Nodes, Live, End
<1>3. /\ next' = [next EXCEPT ![allocated + 1] = m]
      /\ key' = [key EXCEPT ![allocated + 1] = k]
      /\ hash' = [hash EXCEPT ![allocated + 1] = h]
  BY DEF Allocate
<1>4. /\ next \in [Nodes -> Nodes \cup {Null}]
      /\ key \in [Nodes -> Keys \cup {NoKey}]
      /\ hash \in [Nodes -> 0 .. MaxHash]
  BY DEF TypeOK
<1>5. /\ next' \in [Nodes -> Nodes \cup {Null}]
      /\ key' \in [Nodes -> Keys \cup {NoKey}]
      /\ hash' \in [Nodes -> 0 .. MaxHash]
  BY <1>3, <1>4 DEF Hashes
<1>6. /\ key'[allocated + 1] = k /\ hash'[allocated + 1] = h
      /\ next'[allocated + 1] = m
  BY <1>2, <1>3, <1>4
<1>7. ASSUME NEW n \in Live
      PROVE  key'[n] = key[n] /\ hash'[n] = hash[n] /\ next'[n] = next[n]
  BY <1>2, <1>3, <1>4, LiveNodes
<1> QED
  BY <1>1, <1>2, <1>5, <1>6, <1>7

-----------------------------------------------------------------------------
(* The steps that change a node or a bucket.                               *)

LEMMA NewSentinelStep ==
  ASSUME TypeOK, NEW L, NEW b, IInv(L, b), NEW t \in Threads, NewSentinel(t)
  PROVE  TypeOK' /\ IInv(L, b)'
<1> DEFINE slot == SlotOf(Target(t), bitlen)
           from == Parent(slot, TRUE)
<1>1. PICK parent, f : parent = buckets[from] /\ f = allocated + 1
  OBVIOUS
<1>2. Sorted(L, b) /\ Distinct /\ Kept(L) /\ Thread(L, b, t) /\ Sought(L, b, t)
      /\ pc[t] = "locate" /\ op[t] = "store"
  BY DEF IInv, NewSentinel
<1>3. Target(t) \in Hashes /\ Target(t) \in Nat
  BY <1>2, TargetFacts
<1>4. slot \in Slots /\ Reverse(slot) <= Target(t)
  BY <1>3, SlotFacts DEF TypeOK
<1>5. /\ buckets[slot] = Null /\ Allocate(NoKey, Reverse(slot), parent)
      /\ prev' = [prev EXCEPT ![t] = parent]
      /\ word' = [word EXCEPT ![t] = slot]
      /\ fresh' = [fresh EXCEPT ![t] = f]
      /\ pc' = [pc EXCEPT ![t] = "publish"]
      /\ UNCHANGED <<index, elementCount, collected, calls, stored, call,
                    start, cur>>
  BY <1>1 DEF NewSentinel, Goto
<1> HIDE DEF slot
<1>6. from \in Slots /\ buckets[from] # Null /\ Reverse(from) < Reverse(slot)
  <2>1. buckets[0] # Null /\ buckets[1] # Null
    BY <1>2 DEF Sorted, Buckets, First, Half, Null
  <2>2. slot \in Slots \ {0, 1} /\ TRUE \in BOOLEAN
    BY <1>4, <1>5, <2>1
  <2> QED
    BY <2>1, <2>2, ParentFacts
<1> HIDE DEF from
<1>7. slot \in Nat /\ Reverse(slot) \in Hashes
  BY <1>4, SlotReverse DEF Hashes
<1>8. /\ parent \in Live \ {End} /\ hash[parent] = Reverse(from)
      /\ parent \in Nodes /\ InBucket(parent)
  BY <1>1, <1>2, <1>6, LiveNodes DEF Sorted, Buckets, InBucket
<1>9. /\ f \in Nodes /\ f \notin Live /\ f # End /\ allocated' = f
      /\ Live' = Live \cup {f} /\ allocated' \in 3 .. MaxNodes
      /\ next' \in [Nodes -> Nodes \cup {Null}]
      /\ key' \in [Nodes -> Keys \cup {NoKey}]
      /\ hash' \in [Nodes -> 0 .. MaxHash]
      /\ key'[f] = NoKey /\ hash'[f] = Reverse(slot) /\ next'[f] = parent
      /\ \A n \in Live : key'[n] = key[n] /\ hash'[n] = hash[n]
                         /\ next'[n] = next[n]
  BY <1>1, <1>5, <1>7, <1>8, Allocated
<1> USE DEF index, call
<1>10. TypeOK'
  <2>1. /\ prev' \in [Threads -> Nodes \cup {Null}]
        /\ fresh' \in [Threads -> Nodes \cup {Null}]
        /\ word' \in [Threads -> Nat]
    BY <1>5, <1>7, <1>8, <1>9 DEF TypeOK
  <2> QED
    BY SMTT(60), <1>5, <1>9, <2>1 DEF TypeOK
<1>11. \A s \in Threads \ {t} : Same(s)
  BY <1>5 DEF TypeOK, Same
<1>12. /\ prev'[t] = parent /\ word'[t] = slot /\ fresh'[t] = f
       /\ pc'[t] = "publish" /\ op' = op /\ arg' = arg /\ sure' = sure
       /\ buckets' = buckets /\ collected' = collected /\ stored' = stored
  BY <1>5 DEF TypeOK
<1>13. Change(L, b, L, b, t, Null)
  BY <1>9, <1>12 DEF Change
<1>14. Sorted(L, b)'
  <2>1. Ghosts(L, b)' /\ Buckets(L)'
    BY <1>2, <1>12, <1>13, GhostsStay, BucketsStay
  <2>2. Fields'
    BY <1>2, <1>9, <1>13, FieldsStay DEF IsKey, Null, End
  <2>3. ASSUME NEW n \in Live' \ {End}
        PROVE  (Edge(L, b, n, next[n]) \/ Lazy(L, n))'
    <3>1. CASE n \in Live
      BY <1>2, <1>13, <3>1, LinkStays, LiveNodes
    <3>2. CASE n = f
      <4>1. InBucket(parent)' /\ hash'[parent] < hash'[f] /\ f \notin L
        BY <1>2, <1>6, <1>8, <1>9, <1>12 DEF InBucket, Sorted, Ghosts
      <4> QED
        BY <1>9, <3>2, <4>1 DEF Lazy, IsKey
    <3> QED
      BY <1>9, <3>1, <3>2
  <2> QED
    BY <2>1, <2>2, <2>3 DEF Sorted, Links
<1>15. Distinct'
  BY <1>1, <1>2, <1>5, <1>9, DistinctStays
<1>16. Kept(L)'
  <2>1. List \subseteq List'
    BY <1>2, <1>10, <1>13, <1>14, ListStays, LiveNodes DEF Sorted, Ghosts
  <2>2. \A n \in L : key'[n] = key[n]
    BY <1>2, <1>9 DEF Sorted, Ghosts
  <2>3. Plain' => Plain
    BY <1>10, <1>13, PlainWas
  <2> QED
    BY <1>2, <1>12, <2>1, <2>2, <2>3 DEF Kept
<1>17. Thread(L, b, t)' /\ Sought(L, b, t)'
  <2>1. OwnSentinel(L, t)'
    <3>1. Seen(L, parent)' /\ hash'[parent] < hash'[f]
      BY <1>6, <1>8, <1>9, <1>13, SeenStays DEF Seen
    <3>2. f \in Live' \ L /\ hash'[f] <= Target(t)'
      BY <1>2, <1>4, <1>9, <1>12 DEF Sorted, Ghosts, Target
    <3> QED
      BY <1>2, <1>4, <1>9, <1>12, <3>1, <3>2 DEF OwnSentinel, IsKey
  <2>2. ~InBucket(fresh[t])'
    <3>1. \A i \in Slots : buckets[i] # f
      BY <1>2, <1>9, LiveNodes DEF Sorted, Buckets
    <3> QED
      BY <1>12, <3>1 DEF InBucket
  <2> QED
    BY <1>2, <1>12, <2>1, <2>2 DEF Thread, Sought
<1> QED
  BY <1>10, <1>11, <1>13, <1>14, <1>15, <1>16, <1>17, Assemble

(* A sentinel's bucket is not one of the first two.                        *)
LEMMA OwnSlot ==
  ASSUME TypeOK, NEW L, NEW b, Sorted(L, b), NEW t, OwnSentinel(L, t)
  PROVE  /\ word[t] \in Slots /\ word[t] \in Nat
         /\ fresh[t] \in Live \ L /\ fresh[t] # End /\ fresh[t] # Null
         /\ buckets[word[t]] = fresh[t] \/ buckets[word[t]] = Null
              => word[t] > 1
         /\ buckets[word[t]] = fresh[t] => ~Plain
<1>1. fresh[t] \in Live \ L /\ word[t] \in Slots
  BY DEF OwnSentinel
<1>2. fresh[t] \notin {First, Half, End, Null}
  BY <1>1, LiveNodes DEF Sorted, Ghosts
<1>3. word[t] \in Nat /\ word[t] \in DOMAIN buckets
  BY <1>1, SlotReverse DEF Hashes, TypeOK, Slots
<1>4. buckets[word[t]] = fresh[t] \/ buckets[word[t]] = Null => word[t] \notin {0, 1}
  BY <1>2 DEF Sorted, Buckets, First, Half, Null
<1>5. buckets[word[t]] = fresh[t] \/ buckets[word[t]] = Null => word[t] > 1
  BY <1>3, <1>4
<1>6. buckets[word[t]] = fresh[t] => ~Plain
  BY <1>2, <1>3, <1>5 DEF Plain
<1> QED
  BY <1>1, <1>2, <1>3, <1>5, <1>6

LEMMA PublishWon ==
  ASSUME TypeOK, NEW L, NEW b, IInv(L, b), NEW t \in Threads,
         PublishSentinel(t), buckets[word[t]] = Null
  PROVE  TypeOK' /\ IInv(L, b)'
<1>1. Sorted(L, b) /\ Distinct /\ Kept(L) /\ Thread(L, b, t) /\ Sought(L, b, t)
      /\ pc[t] = "publish" /\ OwnSentinel(L, t) /\ ~InBucket(fresh[t])
  BY DEF IInv, PublishSentinel, Thread
<1>2. PICK f, w : f = fresh[t] /\ w = word[t]
  OBVIOUS
<1>3. /\ w \in Slots /\ w > 1 /\ f \in Live \ L /\ f # End /\ f # Null
      /\ f \in Nodes /\ ~IsKey(f) /\ hash[f] = Reverse(w) /\ w \in Nat
  BY <1>1, <1>2, OwnSlot, LiveNodes DEF OwnSentinel
<1>4. /\ buckets' = [buckets EXCEPT ![w] = f] /\ pc' = [pc EXCEPT ![t] = "first"]
      /\ UNCHANGED <<nodes, start, fresh, arrays, bitlen, bitlenInternal,
                    elementCount, collected, calls, stored, call, prev, cur,
                    word>>
  BY <1>2 DEF PublishSentinel, Goto
<1> USE DEF nodes, call
<1>5. buckets \in [Slots -> Nodes \cup {Null}]
  BY DEF TypeOK, Slots
<1>6. /\ buckets' \in [Slots -> Nodes \cup {Null}] /\ buckets'[w] = f
      /\ \A i \in Slots \ {w} : buckets'[i] = buckets[i]
  BY <1>3, <1>4, <1>5
<1>7. TypeOK'
  BY <1>4, <1>6 DEF TypeOK, Slots
<1>8. \A s \in Threads \ {t} : Same(s)
  BY <1>4 DEF TypeOK, Same
<1>9. pc'[t] = "first"
  BY <1>4 DEF TypeOK
<1>10. Change(L, b, L, b, t, Null)
  BY <1>1, <1>2, <1>4, <1>6 DEF Change, Live
<1>11. Sorted(L, b)'
  <2>1. Ghosts(L, b)'
    BY <1>1, <1>10, GhostsStay
  <2>2. Fields'
    BY <1>1, <1>4, <1>10, FieldsStay DEF Live, Null, End
  <2>3. Buckets(L)'
    <3>1. buckets'[0] = First /\ buckets'[1] = Half
      <4>1. 0 \in Slots \ {w} /\ 1 \in Slots \ {w}
        BY <1>3, ReverseFacts
      <4> QED
        BY <1>1, <1>6, <4>1 DEF Sorted, Buckets
    <3>2. ASSUME NEW i \in Slots, buckets'[i] # Null
          PROVE  /\ buckets'[i] \in Live \ {End} /\ ~IsKey(buckets'[i])
                 /\ hash[buckets'[i]] = Reverse(i)
      BY <1>1, <1>3, <1>6, <3>2 DEF Sorted, Buckets
    <3>3. ASSUME NEW n \in L \ {End}, ~IsKey(n) PROVE InBucket(n)'
      BY <1>1, <1>10, <3>3, SeenStays DEF Sorted, Buckets
    <3>4. Live' = Live /\ hash' = hash /\ key' = key
      BY <1>4 DEF Live
    <3> QED
      BY <3>1, <3>2, <3>3, <3>4 DEF Buckets, IsKey
  <2>4. Links(L, b)'
    <3>1. ASSUME NEW n \in Live \ {End}
          PROVE  (Edge(L, b, n, next[n]) \/ Lazy(L, n))'
      BY <1>1, <1>10, LinkStays, LiveNodes
    <3> QED
      BY <1>4, <3>1 DEF Links, Live
  <2> QED
    BY <2>1, <2>2, <2>3, <2>4 DEF Sorted
<1>12. Distinct'
  BY <1>1, <1>4 DEF Distinct, Live
<1>13. Kept(L)'
  <2>1. ~Plain'
    <3>1. buckets'[w] # Null /\ w \in (DOMAIN buckets)'
      BY <1>3, <1>6
    <3> QED
      BY <1>3, <3>1 DEF Plain
  <2> QED
    BY <1>1, <1>4, <2>1 DEF Kept
<1>14. Thread(L, b, t)' /\ Sought(L, b, t)'
  <2>1. OwnSentinel(L, t)'
    <3>1. Seen(L, prev[t])'
      BY <1>1, <1>4, <1>10, SeenStays DEF OwnSentinel
    <3> QED
      BY <1>1, <1>4, <3>1 DEF OwnSentinel, IsKey, Live, Target
  <2>2. buckets'[word'[t]] = fresh'[t]
    BY <1>2, <1>4, <1>6
  <2> QED
    BY <1>1, <1>4, <1>9, <2>1, <2>2 DEF Thread, Sought
<1> QED
  BY <1>7, <1>8, <1>10, <1>11, <1>12, <1>13, <1>14, Assemble

(* What a sentinel is aimed at comes right behind it: two buckets have two *)
(* hashes, so no sentinel of its own hash is in the list yet.              *)
LEMMA AimEdge ==
  ASSUME TypeOK, NEW L, NEW b, Sorted(L, b), NEW t \in Threads,
         Thread(L, b, t), pc[t] = "seek", hash[cur[t]] >= hash[fresh[t]]
  PROVE  /\ Edge(L, b, prev[t], cur[t])
         /\ Edge(L, b, fresh[t], cur[t])
         /\ hash[fresh[t]] <= hash[cur[t]]
<1>1. OwnSentinel(L, t) /\ Passed(L, b, prev[t], cur[t])
      /\ buckets[word[t]] = fresh[t]
  BY DEF Thread
<1>2. PICK p, q, f, w : p = prev[t] /\ q = cur[t] /\ f = fresh[t] /\ w = word[t]
  OBVIOUS
<1>3. /\ Seen(L, p) /\ hash[p] < hash[f] /\ f \in Live \ L /\ ~IsKey(f)
      /\ w \in Slots /\ hash[f] = Reverse(w) /\ buckets[w] = f
  BY <1>1, <1>2 DEF OwnSentinel
<1>4. hash[p] \in Nat /\ hash[q] \in Nat /\ hash[f] \in Nat /\ hash[f] <= hash[q]
  <2>1. p \in Nodes /\ f \in Nodes /\ q \in Nodes
    BY <1>1, <1>2, <1>3, LiveNodes, PassedNode DEF Seen
  <2> QED
    BY <1>2, <2>1, HashTypes
<1>5. Edge(L, b, p, q)
  BY <1>1, <1>2, <1>3, <1>4 DEF Passed
<1>6. q \in L
  BY <1>5 DEF Edge
<1>7. ASSUME ~IsKey(q), q # End PROVE hash[f] < hash[q]
  <2> SUFFICES ASSUME hash[f] = hash[q] PROVE FALSE
    BY <1>4
  <2>1. InBucket(q)
    BY <1>6, <1>7 DEF Sorted, Buckets
  <2>2. PICK i \in Slots : buckets[i] = q /\ q # Null
    BY <2>1 DEF InBucket
  <2>3. Reverse(i) = Reverse(w)
    BY <1>3, <2>2 DEF Sorted, Buckets
  <2>4. i = w
    BY <1>3, <2>3, SlotReverse, ReverseInjective
  <2> QED
    BY <1>3, <1>6, <2>2, <2>4
<1>8. IsKey(q) => b[q] \subseteq collected
  BY <1>3, <1>4, <1>5 DEF Edge, SameRun
<1>9. Edge(L, b, f, q)
  BY <1>3, <1>4, <1>6, <1>7, <1>8 DEF Edge, SameRun
<1> QED
  BY <1>2, <1>4, <1>5, <1>9

LEMMA AimStep ==
  ASSUME TypeOK, NEW L, NEW b, IInv(L, b), NEW t \in Threads, AimSentinel(t)
  PROVE  TypeOK' /\ IInv(L, b)'
<1>1. Sorted(L, b) /\ Distinct /\ Kept(L) /\ Thread(L, b, t) /\ Sought(L, b, t)
      /\ pc[t] = "seek" /\ hash[cur[t]] >= hash[fresh[t]]
  BY DEF IInv, AimSentinel
<1>2. OwnSentinel(L, t) /\ buckets[word[t]] = fresh[t]
  BY <1>1 DEF Thread
<1>3. PICK p, q, f : p = prev[t] /\ q = cur[t] /\ f = fresh[t]
  OBVIOUS
<1>4. /\ Edge(L, b, p, q) /\ Edge(L, b, f, q) /\ hash[f] <= hash[q]
      /\ Seen(L, p)
  BY <1>1, <1>2, <1>3, AimEdge DEF OwnSentinel
<1>5. f \in Live \ L /\ f # End /\ f \in Nodes /\ q \in Nodes /\ q \in L
  BY <1>1, <1>2, <1>3, <1>4, OwnSlot, LiveNodes DEF Edge, Sorted, Ghosts
<1>6. /\ next' = [next EXCEPT ![f] = q] /\ pc' = [pc EXCEPT ![t] = "splice"]
      /\ UNCHANGED <<allocated, key, hash, index, elementCount, collected,
                    calls, stored, call, search>>
  BY <1>3 DEF AimSentinel, Goto
<1> USE DEF index, call, search
<1>7. /\ next' \in [Nodes -> Nodes \cup {Null}] /\ next'[f] = q
      /\ \A n \in Nodes \ {f} : next'[n] = next[n]
  BY <1>5, <1>6 DEF TypeOK
<1>8. TypeOK'
  BY <1>6, <1>7 DEF TypeOK
<1>9. \A s \in Threads \ {t} : Same(s)
  BY <1>6 DEF TypeOK, Same
<1>10. pc'[t] = "splice"
  BY <1>6 DEF TypeOK
<1>11. Change(L, b, L, b, t, f)
  BY <1>3, <1>6, <1>7, LiveNodes DEF Change, Live
<1>12. /\ Edge(L, b, p, q)' /\ Edge(L, b, f, q)' /\ Seen(L, p)'
  BY <1>1, <1>4, <1>5, <1>11, EdgeStays, SeenStays DEF Seen
<1>13. Sorted(L, b)'
  <2>1. Ghosts(L, b)' /\ Buckets(L)'
    BY <1>1, <1>6, <1>11, GhostsStay, BucketsStay
  <2>2. Fields'
    BY <1>1, <1>5, <1>6, <1>11, FieldsStay DEF Live
  <2>3. ASSUME NEW n \in Live \ {End}
        PROVE  (Edge(L, b, n, next[n]) \/ Lazy(L, n))'
    <3>1. CASE n # f
      BY <1>1, <1>11, <3>1, LinkStays
    <3>2. CASE n = f
      BY <1>7, <1>12, <3>2
    <3> QED
      BY <3>1, <3>2
  <2> QED
    BY <1>6, <2>1, <2>2, <2>3 DEF Sorted, Links, Live
<1>14. Distinct'
  BY <1>1, <1>6 DEF Distinct, Live
<1>15. Kept(L)'
  <2>1. ~Plain'
    BY <1>1, <1>2, <1>6, OwnSlot DEF Plain
  <2> QED
    BY <1>1, <1>6, <2>1 DEF Kept
<1>16. Thread(L, b, t)' /\ Sought(L, b, t)'
  <2>1. OwnSentinel(L, t)'
    BY <1>2, <1>3, <1>6, <1>12 DEF OwnSentinel, IsKey, Live, Target
  <2>2. /\ Edge(L, b, prev[t], cur[t])' /\ hash'[fresh'[t]] <= hash'[cur'[t]]
        /\ Edge(L, b, fresh[t], next[fresh[t]])'
    <3>1. prev'[t] = p /\ cur'[t] = q /\ fresh'[t] = f
      BY <1>3, <1>6
    <3> QED
      BY <1>4, <1>6, <1>7, <1>12, <3>1
  <2> QED
    BY <1>1, <1>2, <1>6, <1>10, <2>1, <2>2 DEF Thread, Sought
<1> QED
  BY <1>8, <1>9, <1>11, <1>13, <1>14, <1>15, <1>16, Assemble

LEMMA SpliceWon ==
  ASSUME TypeOK, NEW L, NEW b, IInv(L, b), NEW t \in Threads,
         SpliceSentinel(t), next[prev[t]] = cur[t]
  PROVE  TypeOK' /\ \E M : IInv(M, b)'
<1>1. Sorted(L, b) /\ Distinct /\ Kept(L) /\ Thread(L, b, t) /\ Sought(L, b, t)
      /\ pc[t] = "splice"
  BY DEF IInv, SpliceSentinel
<1>2. /\ OwnSentinel(L, t) /\ buckets[word[t]] = fresh[t]
      /\ Edge(L, b, fresh[t], next[fresh[t]])
  BY <1>1 DEF Thread
<1>3. PICK p, f, m, M : /\ p = prev[t] /\ f = fresh[t] /\ m = next[f]
                        /\ M = L \cup {f}
  OBVIOUS
<1>4. /\ Edge(L, b, f, m) /\ Seen(L, p) /\ hash[p] < hash[f]
      /\ ~IsKey(f) /\ hash[f] <= Target(t) /\ InBucket(f)
  BY <1>2, <1>3, OwnSlot, <1>1 DEF OwnSentinel, InBucket
<1>5. f \in Live \ L /\ f # End /\ f # Null /\ f \in Nodes /\ p \in Nodes
      /\ p \in Live \ {End}
  BY <1>1, <1>2, <1>3, <1>4, OwnSlot, LiveNodes DEF Seen
<1>6. p # f
  BY <1>4, <1>5, HashTypes
<1>7. /\ next' = [next EXCEPT ![p] = f]
      /\ start' = [start EXCEPT ![t] = f]
      /\ fresh' = [fresh EXCEPT ![t] = Null]
      /\ pc' = [pc EXCEPT ![t] = "walk"]
      /\ UNCHANGED <<allocated, key, hash, index, elementCount, collected,
                    calls, stored, call, prev, cur, word>>
  BY <1>3 DEF SpliceSentinel, Goto
<1> USE DEF index, call
<1>8. /\ next' \in [Nodes -> Nodes \cup {Null}] /\ next'[p] = f
      /\ \A n \in Nodes \ {p} : next'[n] = next[n]
  BY <1>5, <1>7 DEF TypeOK
<1>9. TypeOK'
  <2>1. /\ start' \in [Threads -> Nodes \cup {Null}]
        /\ fresh' \in [Threads -> Nodes \cup {Null}]
    BY <1>5, <1>7 DEF TypeOK
  <2> QED
    BY <1>7, <1>8, <2>1 DEF TypeOK
<1>10. \A s \in Threads \ {t} : Same(s)
  BY <1>7 DEF TypeOK, Same
<1>11. pc'[t] = "walk" /\ start'[t] = f /\ fresh'[t] = Null
  BY <1>7 DEF TypeOK
<1>12. Edge(M, b, p, f)' /\ hash' = hash /\ key' = key /\ Live' = Live
  <2>1. hash[p] \in Nat /\ hash[f] \in Nat
    BY <1>5, HashTypes
  <2>2. hash' = hash /\ key' = key /\ Live' = Live
    BY <1>7 DEF Live
  <2> QED
    BY <1>3, <1>4, <2>1, <2>2 DEF Edge, IsKey
<1>13. Change(L, b, M, b, t, p)
  <2>1. Edge(M, b, p, next[p])'
    BY <1>8, <1>12
  <2> QED
    BY <1>3, <1>4, <1>5, <1>7, <1>8, <1>12, <2>1, LiveNodes DEF Change
<1>14. Sorted(M, b)'
  <2>1. Ghosts(M, b)'
    <3>1. M \subseteq Live'
      BY <1>1, <1>3, <1>5, <1>12 DEF Sorted, Ghosts
    <3> QED
      BY <1>1, <1>13, <3>1, GhostsGrow
  <2>2. Fields'
    BY <1>1, <1>5, <1>12, <1>13, FieldsStay
  <2>3. Buckets(M)'
    <3>1. InBucket(f)' /\ \A n \in L \ {End} : ~IsKey(n) => InBucket(n)'
      BY <1>1, <1>4, <1>13, SeenStays DEF Sorted, Buckets
    <3> QED
      BY <1>1, <1>3, <1>7, <1>12, <3>1 DEF Sorted, Buckets, IsKey
  <2>4. ASSUME NEW n \in Live \ {End}
        PROVE  (Edge(M, b, n, next[n]) \/ Lazy(M, n))'
    <3>1. CASE n = p
      BY <1>8, <1>12, <3>1
    <3>2. CASE n = f
      <4>1. Edge(M, b, f, m)'
        BY <1>1, <1>4, <1>5, <1>13, EdgeStays
      <4>2. next'[f] = m
        BY <1>3, <1>5, <1>6, <1>8
      <4> QED
        BY <3>2, <4>1, <4>2
    <3>3. CASE n # p /\ n # f
      BY <1>1, <1>3, <1>13, <3>3, LinkStays
    <3> QED
      BY <3>1, <3>2, <3>3
  <2> QED
    BY <1>12, <2>1, <2>2, <2>3, <2>4 DEF Sorted, Links
<1>15. Distinct'
  BY <1>1, <1>7, DistinctStays
<1>16. Kept(M)'
  <2>1. ~Plain'
    BY <1>1, <1>2, <1>7, OwnSlot DEF Plain
  <2> QED
    BY <1>1, <1>3, <1>7, <2>1 DEF Kept
<1>17. Thread(M, b, t)' /\ Sought(M, b, t)'
  <2>1. InBucket(f)'
    BY <1>4, <1>13, SeenStays
  <2>2. Started(t)'
    BY <1>4, <1>7, <1>11, <2>1 DEF Started, Target
  <2> QED
    BY <1>1, <1>7, <1>11, <2>2 DEF Thread, Sought
<1>18. IInv(M, b)'
  BY <1>9, <1>10, <1>13, <1>14, <1>15, <1>16, <1>17, Assemble
<1> QED
  BY <1>9, <1>18

(* What a key is to be linked before.                                      *)
LEMMA MissEdge ==
  ASSUME TypeOK, NEW L, NEW b, Sorted(L, b), NEW t \in Threads,
         Thread(L, b, t), pc[t] = "scan", hash[cur[t]] > Target(t)
  PROVE  /\ Edge(L, b, prev[t], cur[t]) /\ cur[t] \in L
         /\ IsKey(cur[t]) => b[cur[t]] \subseteq collected
<1>1. Knows(L, b, t) /\ Passed(L, b, prev[t], cur[t])
      /\ Seen(L, prev[t]) /\ hash[prev[t]] <= Target(t)
  BY DEF Thread, Knows
<1>2. prev[t] \in Nodes /\ Target(t) \in Nat
  BY <1>1, LinkRead, TargetFacts
<1>3. hash[prev[t]] \in Nat /\ hash[cur[t]] \in Nat
  BY <1>1, <1>2, PassedNode, HashTypes
<1>4. Edge(L, b, prev[t], cur[t])
  BY <1>1, <1>2, <1>3 DEF Passed
<1> QED
  BY <1>1, <1>2, <1>3, <1>4 DEF Edge, SameRun

(* A new key is aimed, not linked yet.                                     *)
LEMMA PrepareStep ==
  ASSUME TypeOK, NEW L, NEW b, IInv(L, b), NEW t \in Threads, PrepareNode(t)
  PROVE  TypeOK' /\ IInv(L, b)'
<1>1. Sorted(L, b) /\ Distinct /\ Kept(L) /\ Thread(L, b, t) /\ Sought(L, b, t)
      /\ pc[t] = "scan" /\ hash[cur[t]] > Target(t) /\ op[t] = "store"
  BY DEF IInv, PrepareNode, Miss
<1>2. PICK q, f, k, h : /\ q = cur[t] /\ k = arg[t] /\ h = Target(t)
                        /\ f = IF fresh[t] = Null THEN allocated + 1 ELSE fresh[t]
  OBVIOUS
<1>3. q \in L /\ q \in Live /\ q \in Nodes /\ hash[q] > h
      /\ (IsKey(q) => b[q] \subseteq collected)
  BY <1>1, <1>2, MissEdge, LiveNodes DEF Sorted, Ghosts
<1>4. k \in Keys /\ k # NoKey /\ h \in Hashes /\ h = Hash[k] /\ h \in Nat
  BY <1>1, <1>2, TargetFacts DEF Target
<1>5. /\ pc' = [pc EXCEPT ![t] = "link"]
      /\ UNCHANGED <<index, elementCount, collected, calls, stored, call, start,
                    prev, cur, word>>
  BY DEF PrepareNode, Goto
<1>6. fresh[t] = Null \/ OwnKey(L, t)
  BY <1>1 DEF Thread
<1> USE DEF index, call
<1>7. /\ f \in Nodes /\ f # End /\ f # Null /\ f \notin L
      /\ Live' = Live \cup {f} /\ allocated' \in 3 .. MaxNodes
      /\ next' \in [Nodes -> Nodes \cup {Null}]
      /\ key' \in [Nodes -> Keys \cup {NoKey}]
      /\ hash' \in [Nodes -> 0 .. MaxHash]
      /\ key'[f] = k /\ hash'[f] = h /\ next'[f] = q
      /\ \A n \in Live : key'[n] = key[n] /\ hash'[n] = hash[n]
      /\ \A n \in Live \ {f} : next'[n] = next[n]
      /\ fresh' = [fresh EXCEPT ![t] = f]
      /\ \/ f = fresh[t] /\ allocated' = allocated
         \/ f \notin Live /\ f = allocated + 1 /\ allocated' = allocated + 1
  <2>1. CASE fresh[t] = Null
    <3>1. Allocate(k, h, q) /\ fresh' = [fresh EXCEPT ![t] = f] /\ f = allocated + 1
      BY <1>2, <2>1 DEF PrepareNode
    <3>2. f # Null /\ (f \notin Live => f \notin L)
      BY <1>1, <3>1, LiveNodes DEF Sorted, Ghosts, Null
    <3> QED
      BY <1>3, <1>4, <3>1, <3>2, Allocated
  <2>2. CASE fresh[t] # Null
    <3>1. /\ f = fresh[t] /\ next' = [next EXCEPT ![f] = q]
          /\ UNCHANGED <<allocated, key, hash, fresh>>
      BY <1>2, <2>2 DEF PrepareNode
    <3>2. f \in Live \ L /\ key[f] = k
      BY <1>2, <1>6, <2>2, <3>1 DEF OwnKey
    <3>3. f \in Nodes /\ f # End /\ hash[f] = h /\ Live' = Live
      BY <1>1, <1>4, <3>1, <3>2, LiveNodes DEF Sorted, Fields, Ghosts, IsKey, Live
    <3>4. /\ next \in [Nodes -> Nodes \cup {Null}]
          /\ key \in [Nodes -> Keys \cup {NoKey}]
          /\ hash \in [Nodes -> 0 .. MaxHash]
          /\ allocated \in 3 .. MaxNodes
          /\ fresh' = [fresh EXCEPT ![t] = f]
      BY <3>1 DEF TypeOK
    <3>5. /\ next' \in [Nodes -> Nodes \cup {Null}] /\ next'[f] = q
          /\ \A n \in Nodes \ {f} : next'[n] = next[n]
      BY <1>3, <3>1, <3>3, <3>4
    <3>6. f # Null /\ f \notin L /\ Live' = Live \cup {f}
      BY <3>2, <3>3, LiveNodes
    <3>7. key'[f] = k /\ hash'[f] = h
          /\ \A n \in Live : key'[n] = key[n] /\ hash'[n] = hash[n]
      BY <3>1, <3>2, <3>3
    <3>8. \A n \in Live \ {f} : next'[n] = next[n]
      BY <3>5, LiveNodes
    <3>9. /\ key' \in [Nodes -> Keys \cup {NoKey}]
          /\ hash' \in [Nodes -> 0 .. MaxHash] /\ allocated' \in 3 .. MaxNodes
          /\ f = fresh[t] /\ allocated' = allocated
      BY <3>1, <3>4
    <3> QED
      BY <3>3, <3>4, <3>5, <3>6, <3>7, <3>8, <3>9
  <2> QED
    BY <2>1, <2>2
<1>8. TypeOK'
  <2>1. fresh' \in [Threads -> Nodes \cup {Null}]
    BY <1>7 DEF TypeOK
  <2> QED
    BY <1>5, <1>7, <2>1 DEF TypeOK
<1>9. \A s \in Threads \ {t} : Same(s)
  BY <1>5, <1>7 DEF TypeOK, Same
<1>10. fresh'[t] = f /\ pc'[t] = "link"
  BY <1>5, <1>7 DEF TypeOK
<1>11. PICK x : x = IF f \in Live THEN f ELSE Null
  OBVIOUS
<1>12. Change(L, b, L, b, t, x)
  BY <1>5, <1>7, <1>11, LiveNodes DEF Change
<1>13. Edge(L, b, f, q)'
  <2>1. hash'[q] = hash[q] /\ key'[q] = key[q] /\ hash[q] \in Nat
    BY <1>3, <1>7, HashTypes
  <2> QED
    BY <1>3, <1>4, <1>5, <1>7, <2>1 DEF Edge, SameRun, IsKey
<1>14. Sorted(L, b)'
  <2>1. Ghosts(L, b)' /\ Buckets(L)'
    BY <1>1, <1>5, <1>12, GhostsStay, BucketsStay
  <2>2. Fields'
    BY <1>1, <1>4, <1>7, <1>11, <1>12, FieldsStay DEF Null, End
  <2>3. ASSUME NEW n \in Live' \ {End}
        PROVE  (Edge(L, b, n, next[n]) \/ Lazy(L, n))'
    <3>1. CASE n = f
      BY <1>7, <1>13, <3>1
    <3>2. CASE n # f
      <4>1. n \in Live \ {End} /\ n # x
        BY <1>7, <1>11, <3>2, LiveNodes
      <4> QED
        BY <1>1, <1>12, <4>1, LinkStays
    <3> QED
      BY <3>1, <3>2
  <2> QED
    BY <2>1, <2>2, <2>3 DEF Sorted, Links
<1>15. Distinct'
  BY <1>1, <1>7, DistinctStays
<1>16. Kept(L)'
  <2>1. List \subseteq List'
    <3>1. x \notin L
      BY <1>1, <1>7, <1>11, LiveNodes DEF Sorted, Ghosts
    <3> QED
      BY <1>1, <1>8, <1>12, <1>14, <3>1, ListStays
  <2>2. \A n \in L : key'[n] = key[n]
    BY <1>1, <1>7 DEF Sorted, Ghosts
  <2>3. Plain' => Plain
    BY <1>8, <1>12, PlainWas
  <2> QED
    BY <1>1, <1>5, <2>1, <2>2, <2>3 DEF Kept
<1>17. Thread(L, b, t)' /\ Sought(L, b, t)'
  <2>1. Knows(L, b, t) /\ Started(t)
    BY <1>1 DEF Thread
  <2>2. op'[t] = op[t] /\ arg'[t] = arg[t] /\ start'[t] = start[t]
        /\ prev'[t] = prev[t] /\ cur'[t] = cur[t] /\ Target(t)' = Target(t)
    BY <1>5 DEF Target
  <2>3. Knows(L, b, t)'
    <3>1. PICK p : p = prev[t]
      OBVIOUS
    <3>2. Seen(L, p) /\ p \in Live /\ b[p] \subseteq Live
      <4>1. Seen(L, p) /\ p \in Live /\ p \in Nodes
        BY <2>1, <3>1, LiveNodes DEF Knows, Seen
      <4> QED
        BY <1>1, <4>1 DEF Sorted, Ghosts
    <3>3. Seen(L, p)' /\ hash'[p] = hash[p] /\ key'[p] = key[p]
          /\ \A n \in b[p] : key'[n] = key[n]
      BY <1>7, <1>12, <3>2, SeenStays
    <3> QED
      BY <1>5, <2>1, <2>2, <3>1, <3>3 DEF Knows, SameRun, IsKey
  <2>4. Started(t)'
    <3>1. PICK n : n = start[t]
      OBVIOUS
    <3>2. InBucket(n) /\ n \in Live
      BY <1>1, <2>1, <3>1, BucketNodes DEF Started
    <3>3. InBucket(n)' /\ hash'[n] = hash[n]
      BY <1>7, <1>12, <3>2, SeenStays
    <3> QED
      BY <2>1, <2>2, <3>1, <3>3 DEF Started
  <2>5. OwnKey(L, t)'
    BY <1>1, <1>2, <1>7, <1>10, <2>2 DEF OwnKey
  <2>6. Target(t)' < hash'[cur'[t]] /\ next'[fresh'[t]] = cur'[t]
    BY <1>2, <1>3, <1>7, <1>10, <2>2
  <2> QED
    BY <1>1, <1>5, <1>10, <2>2, <2>3, <2>4, <2>5, <2>6 DEF Thread, Sought
<1> QED
  BY <1>8, <1>9, <1>12, <1>14, <1>15, <1>16, <1>17, Assemble

(* The CAS that links a key: the node gets its place among those of its    *)
(* hash, right behind the one the search stopped at.                       *)
LEMMA LinkWon ==
  ASSUME TypeOK, NEW L, NEW b, IInv(L, b), NEW t \in Threads,
         LinkNode(t), next[prev[t]] = cur[t]
  PROVE  TypeOK' /\ \E M, c : IInv(M, c)'
<1>1. Sorted(L, b) /\ Distinct /\ Kept(L) /\ Thread(L, b, t) /\ Sought(L, b, t)
      /\ pc[t] = "link"
  BY DEF IInv, LinkNode
<1>2. /\ Knows(L, b, t) /\ OwnKey(L, t) /\ Target(t) < hash[cur[t]]
      /\ next[fresh[t]] = cur[t]
  BY <1>1 DEF Thread
<1>3. PICK p, q, f, k : p = prev[t] /\ q = cur[t] /\ f = fresh[t] /\ k = arg[t]
  OBVIOUS
<1>4. /\ k \in Keys /\ k # NoKey /\ Target(t) = Hash[k] /\ Hash[k] \in Nat
      /\ Hash[k] < MaxHash
  BY <1>1, <1>3, TargetFacts DEF Target
<1>5. /\ f \in Live \ L /\ f \in Nodes /\ f # End /\ f # Null /\ key[f] = k
      /\ IsKey(f) /\ hash[f] = Hash[k] /\ next[f] = q
  <2>1. f \in Live \ L /\ key[f] = k /\ next[f] = q
    BY <1>2, <1>3 DEF OwnKey
  <2> QED
    BY <1>1, <1>4, <2>1, LiveNodes DEF Sorted, Fields, Ghosts, IsKey
<1>6. /\ Seen(L, p) /\ p \in Live \ {End} /\ p \in Nodes /\ p # f
      /\ hash[p] \in Nat /\ hash[p] <= Hash[k] /\ next[p] = q
      /\ (IsKey(p) => p \in L)
  <2>1. Seen(L, p) /\ p \in Live \ {End} /\ p \in Nodes /\ hash[p] <= Hash[k]
    BY <1>2, <1>3, <1>4, LiveNodes DEF Knows, Seen
  <2>2. p # f /\ (IsKey(p) => p \in L)
    BY <1>1, <1>5, <2>1, BucketNodes DEF Seen
  <2> QED
    BY <1>3, <2>1, <2>2, HashTypes
<1>7. Edge(L, b, f, q) /\ q \in L /\ q \in Nodes /\ Hash[k] < hash[q]
      /\ hash[q] \in Nat /\ (IsKey(q) => b[q] \subseteq collected)
  <2>1. Edge(L, b, f, q) /\ Hash[k] < hash[q]
    BY <1>1, <1>2, <1>3, <1>4, <1>5 DEF Sorted, Links, Lazy
  <2>2. q \in L /\ q \in Nodes
    BY <1>1, <2>1, LiveNodes DEF Edge, Sorted, Ghosts
  <2>3. hash[q] \in Nat
    BY <2>2, HashTypes
  <2> QED
    BY <1>4, <1>5, <2>1, <2>2, <2>3 DEF Edge, SameRun
<1>8. PICK M, d, c : /\ M = L \cup {f}
                     /\ d = IF SameRun(p, f) THEN {p} \cup b[p] ELSE {}
                     /\ c = [b EXCEPT ![f] = d]
  OBVIOUS
<1>9. /\ b \in [Nodes -> SUBSET L] /\ d \subseteq L /\ c \in [Nodes -> SUBSET M]
      /\ c[f] = d /\ \A n \in Nodes \ {f} : c[n] = b[n]
  <2>1. b \in [Nodes -> SUBSET L]
    BY <1>1 DEF Sorted, Ghosts
  <2>2. d \subseteq L
    BY <1>6, <1>8, <2>1 DEF SameRun
  <2> QED
    BY <1>5, <1>8, <2>1, <2>2
<1>10. /\ next' = [next EXCEPT ![p] = f] /\ pc' = [pc EXCEPT ![t] = "bump"]
       /\ stored' = stored \cup {k}
       /\ UNCHANGED <<allocated, key, hash, index, elementCount, collected,
                     calls, call, search>>
  BY <1>3 DEF LinkNode, Goto
<1> USE DEF index, call, search
<1>11. /\ next' \in [Nodes -> Nodes \cup {Null}] /\ next'[p] = f
       /\ \A n \in Nodes \ {p} : next'[n] = next[n]
  BY <1>5, <1>6, <1>10 DEF TypeOK
<1>12. TypeOK'
  <2>1. stored' \subseteq Keys
    BY <1>4, <1>10 DEF TypeOK
  <2> QED
    BY <1>10, <1>11, <2>1 DEF TypeOK
<1>13. \A s \in Threads \ {t} : Same(s)
  BY <1>10 DEF TypeOK, Same
<1>14. pc'[t] = "bump"
  BY <1>10 DEF TypeOK
<1>15. /\ hash' = hash /\ key' = key /\ Live' = Live /\ collected' = collected
       /\ buckets' = buckets
  BY <1>10 DEF Live
<1>16. Edge(M, c, p, f)'
  <2>1. IsKey(f) /\ c[p] = b[p]
    BY <1>5, <1>6, <1>9
  <2>2. SameRun(p, f) => d = {p} \cup b[p]
    BY <1>8
  <2>3. ~SameRun(p, f) => d = {}
    BY <1>8
  <2> QED
    BY <1>5, <1>6, <1>8, <1>9, <1>15, <2>1, <2>2, <2>3 DEF Edge, SameRun, IsKey
<1>17. Edge(M, c, f, q)'
  <2>1. c[q] = b[q] /\ q \in M /\ q # f
    BY <1>5, <1>7, <1>8, <1>9
  <2> QED
    BY <1>5, <1>7, <1>15, <2>1 DEF Edge, SameRun, IsKey
<1>18. Change(L, b, M, c, t, p)
  <2>1. Edge(M, c, p, next[p])'
    BY <1>11, <1>16
  <2>2. \A n \in Live : n \in L \/ ~IsKey(n) => c[n] = b[n]
    BY <1>5, <1>9, LiveNodes
  <2> QED
    BY <1>3, <1>5, <1>6, <1>8, <1>10, <1>11, <1>15, <2>1, <2>2, LiveNodes
       DEF Change
<1>19. Ghosts(M, c)'
  <2>1. /\ {First, Half, End} \subseteq L /\ L \subseteq Live
        /\ \A n \in Nodes : \A m \in b[n] :
             /\ n \in L /\ m # n /\ n \notin b[m]
             /\ IsKey(m) /\ IsKey(n) /\ hash[m] = hash[n]
             /\ key[m] = key[n] => m \in collected
    BY <1>1 DEF Sorted, Ghosts
  <2>2. ASSUME NEW n \in Nodes, NEW m \in c[n]
        PROVE  /\ n \in M /\ m # n /\ n \notin c[m]
               /\ IsKey(m) /\ IsKey(n) /\ hash[m] = hash[n]
               /\ key[m] = key[n] => m \in collected
    <3>1. m \in L /\ m \in Nodes /\ m # f /\ c[m] = b[m]
      BY <1>5, <1>9, <2>1, <2>2, LiveNodes
    <3>2. CASE n # f
      BY <1>8, <1>9, <2>1, <2>2, <3>1, <3>2
    <3>3. CASE n = f
      <4>1. m \in d /\ SameRun(p, f) /\ d = {p} \cup b[p]
        BY <1>8, <1>9, <2>2, <3>3
      <4>2. IsKey(p) /\ hash[p] = Hash[k] /\ hash[p] = hash[f]
        BY <1>5, <4>1 DEF SameRun
      <4>3. IsKey(m) /\ hash[m] = hash[p]
        BY <1>6, <2>1, <4>1, <4>2
      <4>4. key[m] = k => m \in collected
        BY <1>2, <1>3, <1>4, <4>1, <4>2 DEF Knows, SameRun
      <4>5. f \notin b[m] /\ f \in M
        BY <1>5, <1>8, <1>9, <3>1
      <4> QED
        BY <1>5, <3>1, <3>3, <4>2, <4>3, <4>4, <4>5
    <3> QED
      BY <3>2, <3>3
  <2>3. {First, Half, End} \subseteq M /\ M \subseteq Live'
    BY <1>5, <1>8, <1>15, <2>1
  <2> QED
    BY <1>9, <1>15, <2>2, <2>3 DEF Ghosts, IsKey
<1>20. Sorted(M, c)'
  <2>1. Fields'
    BY <1>1, <1>6, <1>15, <1>18, FieldsStay
  <2>2. Buckets(M)'
    BY <1>1, <1>5, <1>8, <1>15 DEF Sorted, Buckets, InBucket, IsKey
  <2>3. ASSUME NEW n \in Live \ {End}
        PROVE  (Edge(M, c, n, next[n]) \/ Lazy(M, n))'
    <3>1. CASE n = p
      BY <1>11, <1>16, <3>1
    <3>2. CASE n = f
      <4>1. next'[f] = q
        BY <1>5, <1>6, <1>11
      <4> QED
        BY <1>17, <3>2, <4>1
    <3>3. CASE n # p /\ n # f
      <4>1. c[n] = b[n] /\ n \notin M \ L
        BY <1>8, <1>9, <3>3, LiveNodes
      <4> QED
        BY <1>1, <1>18, <3>3, <4>1, LinkStays
    <3> QED
      BY <3>1, <3>2, <3>3
  <2> QED
    BY <1>15, <1>19, <2>1, <2>2, <2>3 DEF Sorted, Links
<1>21. Distinct'
  BY <1>1, <1>10, <1>15 DEF Distinct
<1>22. Kept(M)'
  <2>1. ASSUME NEW n \in stored' PROVE \E m \in M : key'[m] = n
    BY <1>1, <1>5, <1>8, <1>10, <1>15, <2>1 DEF Kept
  <2>2. ASSUME Plain' PROVE M \subseteq List'
    <3>1. Plain
      BY <1>12, <1>18, <2>2, PlainWas
    <3>2. p \in L /\ L \subseteq List
      BY <1>1, <1>6, <3>1, PlainBucket DEF Kept, Seen
    <3>3. next'[p] # End /\ next'[next'[p]] = next[p]
      BY <1>5, <1>6, <1>11
    <3>4. List \subseteq List'
      BY <1>1, <1>12, <1>18, <1>20, <3>3, ListStays
    <3>5. p \in List' \ {End}
      BY <1>6, <3>2, <3>4
    <3>6. next'[p] \in List'
      BY <1>12, <1>20, <3>5, ClosedNext DEF Closed
    <3> QED
      BY <1>8, <1>11, <3>2, <3>4, <3>6
  <2> QED
    BY <2>1, <2>2 DEF Kept
<1>23. Thread(M, c, t)' /\ Sought(M, c, t)'
  BY <1>1, <1>2, <1>10, <1>14 DEF Thread, Sought, OwnKey
<1>24. IInv(M, c)'
  BY <1>12, <1>13, <1>18, <1>20, <1>21, <1>22, <1>23, Assemble
<1> QED
  BY <1>12, <1>24

(* The CAS that cuts a key out: what it was linked behind is, for the next *)
(* node, still what the one before it knows of.                            *)
LEMMA CutEdge ==
  ASSUME TypeOK, NEW L, NEW b, Sorted(L, b), NEW p \in Live, NEW q, NEW w,
         Edge(L, b, p, q), Edge(L, b, q, w), IsKey(q),
         UNCHANGED <<allocated, key, hash>>, collected' = collected \cup {q}
  PROVE  Edge(L, b, p, w)'
<1>1. q \in L /\ w \in L
  BY DEF Edge
<1>2. p \in Nodes /\ q \in Nodes /\ w \in Nodes
  BY <1>1, LiveNodes DEF Sorted, Ghosts
<1>3. hash[p] \in Nat /\ hash[q] \in Nat /\ hash[w] \in Nat
  BY <1>2, HashTypes
<1>4. hash[p] <= hash[q] /\ hash[q] <= hash[w]
  BY DEF Edge
<1>5. hash[p] <= hash[w] /\ (~IsKey(w) /\ w # End => hash[p] < hash[w])
  BY <1>3, <1>4 DEF Edge
<1>6. ASSUME IsKey(w), SameRun(p, w)
      PROVE  {p} \cup b[p] \subseteq b[w]
             /\ b[w] \ ({p} \cup b[p]) \subseteq collected'
  <2>1. SameRun(p, q) /\ SameRun(q, w)
    BY <1>3, <1>4, <1>6 DEF SameRun
  <2> QED
    BY <1>6, <2>1 DEF Edge
<1>7. ASSUME IsKey(w), ~SameRun(p, w) PROVE b[w] \subseteq collected'
  <2>1. CASE ~SameRun(q, w)
    BY <1>7, <2>1 DEF Edge
  <2>2. CASE SameRun(q, w)
    <3>1. ~SameRun(p, q)
      BY <1>7, <2>2 DEF SameRun
    <3> QED
      BY <1>7, <2>2, <3>1 DEF Edge
  <2> QED
    BY <2>1, <2>2
<1> QED
  BY <1>1, <1>5, <1>6, <1>7 DEF Edge, SameRun, IsKey

LEMMA CutWon ==
  ASSUME TypeOK, NEW L, NEW b, IInv(L, b), NEW t \in Threads,
         CutNode(t), next[prev[t]] = cur[t]
  PROVE  TypeOK' /\ IInv(L, b)'
<1>1. Sorted(L, b) /\ Distinct /\ Kept(L) /\ Thread(L, b, t) /\ Sought(L, b, t)
      /\ pc[t] = "cut"
  BY DEF IInv, CutNode
<1>2. PICK p, q, w : p = prev[t] /\ q = cur[t] /\ w = word[t]
  OBVIOUS
<1>3. /\ Seen(L, p) /\ IsKey(q) /\ Edge(L, b, p, q) /\ Edge(L, b, q, w)
  BY <1>1, <1>2 DEF Thread
<1>4. /\ p \in Live \ {End} /\ p \in Nodes /\ q \in L /\ q \in Nodes
      /\ w \in L /\ w \in Nodes
  BY <1>1, <1>3, LiveNodes DEF Seen, Edge, Sorted, Ghosts
<1>5. /\ next' = [next EXCEPT ![p] = w] /\ collected' = collected \cup {q}
      /\ Return(t)
      /\ UNCHANGED <<allocated, key, hash, index, elementCount, calls, stored>>
  BY <1>2 DEF CutNode
<1>6. /\ next' \in [Nodes -> Nodes \cup {Null}] /\ next'[p] = w
      /\ \A n \in Nodes \ {p} : next'[n] = next[n]
  BY <1>4, <1>5 DEF TypeOK
<1>7. TypeOK'
  <2>1. collected' \subseteq Nodes
    BY <1>4, <1>5 DEF TypeOK
  <2>2. /\ op' \in [Threads -> Ops \cup {"none"}]
        /\ arg' \in [Threads -> Keys \cup {NoKey}]
        /\ sure' \in [Threads -> BOOLEAN]
        /\ \A ptr \in {start', prev', cur', fresh'} :
             ptr \in [Threads -> Nodes \cup {Null}]
        /\ word' \in [Threads -> Nat]
        /\ pc' = [pc EXCEPT ![t] = "idle"]
    BY <1>5, ReturnTypes
  <2> QED
    BY <1>5, <1>6, <2>1, <2>2 DEF TypeOK, index
<1> USE DEF index
<1>8. /\ Distinct' /\ Thread(L, b, t)' /\ Sought(L, b, t)'
      /\ \A s \in Threads \ {t} : Same(s)
  BY <1>5, Returned
<1>9. /\ hash' = hash /\ key' = key /\ Live' = Live /\ buckets' = buckets
      /\ stored' = stored
  BY <1>5 DEF Live
<1>10. Edge(L, b, p, w)'
  BY <1>1, <1>3, <1>4, <1>5, CutEdge
<1>11. Change(L, b, L, b, t, p)
  <2>1. Edge(L, b, p, next[p])'
    BY <1>6, <1>10
  <2> QED
    BY <1>3, <1>5, <1>6, <1>9, <2>1, LiveNodes DEF Change
<1>12. Sorted(L, b)'
  <2>1. Ghosts(L, b)' /\ Buckets(L)'
    BY <1>1, <1>9, <1>11, GhostsStay, BucketsStay
  <2>2. Fields'
    BY <1>1, <1>4, <1>9, <1>11, FieldsStay
  <2>3. ASSUME NEW n \in Live \ {End}
        PROVE  (Edge(L, b, n, next[n]) \/ Lazy(L, n))'
    <3>1. CASE n = p
      BY <1>6, <1>10, <3>1
    <3>2. CASE n # p
      BY <1>1, <1>11, <3>2, LinkStays
    <3> QED
      BY <3>1, <3>2
  <2> QED
    BY <1>9, <2>1, <2>2, <2>3 DEF Sorted, Links
<1>13. Kept(L)'
  <2>1. ~Plain'
    BY <1>5 DEF Plain
  <2> QED
    BY <1>1, <1>9, <2>1 DEF Kept
<1> QED
  BY <1>7, <1>8, <1>11, <1>12, <1>13, Assemble

-----------------------------------------------------------------------------
(* Every step.                                                             *)

LEMMA IdleStep ==
  ASSUME TypeOK, NEW L, NEW b, IInv(L, b), UNCHANGED vars
  PROVE  TypeOK' /\ IInv(L, b)'
<1>1. TypeOK' <=> TypeOK
  BY DEF vars, nodes, index, call, search, TypeOK
<1>2. Sorted(L, b)' <=> Sorted(L, b)
  BY DEF vars, nodes, index, Sorted, Ghosts, Fields, Buckets, Links, Edge,
         Lazy, Live, IsKey, InBucket, SameRun
<1>3. Distinct' <=> Distinct
  BY DEF vars, nodes, search, Distinct, Live
<1>4. Kept(L)' <=> Kept(L)
  BY DEF vars, nodes, index, Kept, Plain, List
<1>5. \A t \in Threads : Thread(L, b, t)' <=> Thread(L, b, t)
  BY DEF vars, nodes, index, call, search, Thread, Started, OwnKey,
         OwnSentinel, Knows, Passed, Seen, Edge, Live, IsKey, InBucket,
         SameRun, Target
<1>6. \A t \in Threads : Sought(L, b, t)' <=> Sought(L, b, t)
  BY DEF vars, nodes, index, call, search, Sought, Behind, IsKey, Plain
<1> QED
  BY <1>1, <1>2, <1>3, <1>4, <1>5, <1>6 DEF IInv

LEMMA ThreadStep ==
  ASSUME TypeOK, ResizeInv, NEW L, NEW b, IInv(L, b), NEW t \in Threads,
         \/ Begin(t) \/ Resize(t) \/ GetSentinel(t)
         \/ Search(t) \/ Store(t) \/ Delete(t)
  PROVE  TypeOK' /\ \E M, c : IInv(M, c)'
<1>1. CASE Begin(t)
  BY <1>1, BeginStep
<1>2. CASE Resize(t)
  BY <1>2, ClaimBitlenStep, PublishArrayStep, PublishBitlenStep DEF Resize
<1>3. CASE GetSentinel(t)
  <2>1. CASE LocateSentinel(t)
    BY <2>1, LocateStep
  <2>2. CASE NewSentinel(t)
    BY <2>2, NewSentinelStep
  <2>3. CASE PublishSentinel(t)
    BY <2>3, PublishWon, PublishLost
  <2>4. CASE SeekFirst(t)
    BY <2>4, SeekFirstStep
  <2>5. CASE SeekNext(t)
    BY <2>5, SeekNextStep
  <2>6. CASE AimSentinel(t)
    BY <2>6, AimStep
  <2>7. CASE SpliceSentinel(t) /\ next[prev[t]] = cur[t]
    BY <2>7, SpliceWon
  <2>8. CASE SpliceSentinel(t) /\ next[prev[t]] # cur[t]
    <3>1. /\ pc[t] = "splice" /\ pc' = [pc EXCEPT ![t] = "first"]
          /\ UNCHANGED <<nodes, index, elementCount, collected, calls, stored,
                        call, search>>
      BY <2>8 DEF SpliceSentinel, Goto, nodes, search
    <3> QED
      BY <3>1, LostRace
  <2> QED
    BY <1>3, <2>1, <2>2, <2>3, <2>4, <2>5, <2>6, <2>7, <2>8 DEF GetSentinel
<1>4. CASE Search(t)
  BY <1>4, WalkStep, PassStep, AnswerStep DEF Search
<1>5. CASE Store(t)
  <2>1. CASE LinkNode(t) /\ next[prev[t]] = cur[t]
    BY <2>1, LinkWon
  <2>2. CASE LinkNode(t) /\ next[prev[t]] # cur[t]
    <3>1. /\ pc[t] = "link" /\ pc' = [pc EXCEPT ![t] = "walk"]
          /\ UNCHANGED <<nodes, index, elementCount, collected, calls, stored,
                        call, search>>
      BY <2>2 DEF LinkNode, Goto, nodes
    <3> QED
      BY <3>1, LostRace
  <2> QED
    BY <1>5, <2>1, <2>2, CheckCountStep, PrepareStep, CountNodeStep DEF Store
<1>6. CASE Delete(t)
  <2>1. CASE CutNode(t) /\ next[prev[t]] = cur[t]
    BY <2>1, CutWon
  <2>2. CASE CutNode(t) /\ next[prev[t]] # cur[t]
    <3>1. /\ pc[t] = "cut" /\ pc' = [pc EXCEPT ![t] = "walk"]
          /\ UNCHANGED <<nodes, index, elementCount, collected, calls, stored,
                        call, search>>
      BY <2>2 DEF CutNode, Goto, nodes
    <3> QED
      BY <3>1, LostRace
  <2> QED
    BY <1>6, <2>1, <2>2, ReadNextStep DEF Delete
<1> QED
  BY <1>1, <1>2, <1>3, <1>4, <1>5, <1>6

-----------------------------------------------------------------------------
(* The table the threads start with.                                       *)

LEMMA OwnerFacts ==
  /\ Cardinality(Preloaded) \in 0 .. 3
  /\ Owner \in [Loaded -> Preloaded]
  /\ \A k \in Preloaded : \E n \in Loaded : Owner[n] = k
  /\ \A m, n \in Loaded : Owner[m] = Owner[n] => m = n
<1>1. IsFiniteSet(Preloaded) /\ Cardinality(Preloaded) \in 0 .. 3
  BY PreloadAssumption, FS_CardinalityType
<1>2. IsFiniteSet(Loaded) /\ Cardinality(Loaded) = Cardinality(Preloaded)
  BY <1>1, FS_Interval DEF Loaded
<1>3. \E f \in [Loaded -> Preloaded] :
        \A k \in Preloaded : \E n \in Loaded : f[n] = k
  <2>1. ExistsBijection(Loaded, Preloaded)
    BY <1>1, <1>2, FS_SameCardinalityBij
  <2>2. PICK f : f \in Bijection(Loaded, Preloaded)
    BY <2>1, Zenon DEF ExistsBijection
  <2>3. f \in Surjection(Loaded, Preloaded)
    BY <2>2 DEF Bijection
  <2> QED
    BY <2>3 DEF Surjection
<1>4. /\ Owner \in [Loaded -> Preloaded]
      /\ \A k \in Preloaded : \E n \in Loaded : Owner[n] = k
  BY <1>3 DEF Owner
<1>5. Owner \in Surjection(Loaded, Preloaded)
  BY <1>4 DEF Surjection
<1>6. Owner \in Injection(Loaded, Preloaded)
  BY <1>2, <1>5, FS_SurjSameCardinalityImpliesInj
<1>7. \A m, n \in Loaded : Owner[m] = Owner[n] => m = n
  BY <1>4, <1>6 DEF Injection, IsInjective
<1> QED
  BY <1>1, <1>4, <1>7

(* Each node has its place, the first sentinel before all others and the   *)
(* end behind them.                                                        *)
LEMMA WeightFacts ==
  /\ Loaded \subseteq Used /\ {First, Half, End} \subseteq Used
  /\ Used = Loaded \cup {First, Half, End}
  /\ Loaded \cap {First, Half, End} = {}
  /\ \A n \in Used : /\ FirstHash(n) \in Hashes /\ Weight(n) \in Nat
                     /\ Weight(n) <= Weight(End)
                     /\ n \in Loaded => Weight(n) = 2 * FirstHash(n) + 1
                     /\ n \notin Loaded => Weight(n) = 2 * FirstHash(n)
                     /\ n \in Loaded => FirstHash(n) = Hash[Owner[n]]
  /\ FirstHash(First) = 0 /\ FirstHash(Half) = 2^(Width - 1)
  /\ FirstHash(End) = MaxHash
  /\ \A m, n \in Used : Weight(m) = Weight(n) => m = n
<1>1. Cardinality(Preloaded) \in Nat
  BY OwnerFacts
<1>2. /\ Used = Loaded \cup {First, Half, End}
      /\ Loaded \cap {First, Half, End} = {}
  BY <1>1 DEF Loaded, Used, First, Half, End
<1>3. PICK p : p = 2^(Width - 1)
  OBVIOUS
<1>4. p \in Nat /\ 2 <= p /\ MaxHash = 2 * p - 1
  <2>1. Width - 1 \in Nat /\ Width - 2 \in Nat
        /\ (Width - 1) + 1 = Width /\ (Width - 2) + 1 = Width - 1
    BY WidthAssumption
  <2>2. 2^Width = 2 * p
    BY <1>3, <2>1, DoublePower
  <2>3. p = 2 * 2^(Width - 2) /\ 2^(Width - 2) \in Nat /\ 1 <= 2^(Width - 2)
    BY <1>3, <2>1, DoublePower, PowerPositive
  <2> QED
    BY <2>2, <2>3 DEF MaxHash
<1>5. FirstHash(First) = 0 /\ FirstHash(Half) = p /\ FirstHash(End) = MaxHash
  BY <1>2, <1>3 DEF FirstHash, First, Half, End
<1>6. ASSUME NEW n \in Loaded
      PROVE  FirstHash(n) = Hash[Owner[n]] /\ FirstHash(n) \in 1 .. MaxHash - 1
  <2>1. n # Half /\ n # End
    BY <1>2
  <2>2. Owner[n] \in Keys
    BY OwnerFacts, PreloadAssumption
  <2> QED
    BY <2>1, <2>2, HashAssumption DEF FirstHash
<1>7. ASSUME NEW n \in Used
      PROVE  /\ FirstHash(n) \in Nat /\ FirstHash(n) <= MaxHash
             /\ n \in Loaded => Weight(n) = 2 * FirstHash(n) + 1
             /\ n \notin Loaded => Weight(n) = 2 * FirstHash(n)
             /\ n \in Loaded => FirstHash(n) < MaxHash
  BY <1>2, <1>4, <1>5, <1>6 DEF Weight
<1>8. Weight(First) = 0 /\ Weight(Half) = 2 * p /\ Weight(End) = 2 * MaxHash
  BY <1>2, <1>5 DEF Weight
<1>9. ASSUME NEW n \in Used PROVE Weight(n) \in Nat /\ Weight(n) <= Weight(End)
  BY <1>4, <1>7, <1>8
<1>10. ASSUME NEW m \in Used, NEW n \in Used, Weight(m) = Weight(n)
       PROVE  m = n
  <2>1. CASE m \in Loaded /\ n \in Loaded
    <3>1. Hash[Owner[m]] = Hash[Owner[n]]
      BY <1>6, <1>7, <1>10, <2>1
    <3>2. Owner[m] = Owner[n]
      BY <2>1, <3>1, OwnerFacts, PreloadAssumption
    <3> QED
      BY <2>1, <3>2, OwnerFacts
  <2>2. CASE m \in Loaded /\ n \notin Loaded
    BY <1>7, <1>10, <2>2
  <2>3. CASE m \notin Loaded /\ n \in Loaded
    BY <1>7, <1>10, <2>3
  <2>4. CASE m \notin Loaded /\ n \notin Loaded
    BY <1>2, <1>4, <1>8, <1>10, <2>4
  <2> QED
    BY <2>1, <2>2, <2>3, <2>4
<1>11. \A n \in Used : FirstHash(n) \in Hashes
  BY <1>4, <1>7 DEF Hashes
<1> QED
  BY <1>2, <1>3, <1>5, <1>6, <1>7, <1>9, <1>10, <1>11

(* Of all but the last there is a next one.                                *)
LEMMA FollowerFacts ==
  ASSUME NEW n \in Used \ {End}
  PROVE  /\ Follower(n) \in Used /\ Weight(n) < Weight(Follower(n))
         /\ \A o \in Used : Weight(n) < Weight(o) =>
                              Weight(Follower(n)) <= Weight(o)
<1> DEFINE More == {o \in Used : Weight(n) < Weight(o)}
           S == {Weight(o) : o \in More}
<1>1. \A o \in Used : Weight(o) \in Nat /\ Weight(o) <= Weight(End)
  BY WeightFacts
<1>2. End \in Used /\ Weight(n) # Weight(End)
  BY WeightFacts
<1>3. End \in More
  BY <1>1, <1>2
<1>4. S \in SUBSET Nat /\ S # {}
  BY <1>1, <1>3
<1>5. PICK w \in S : \A v \in S : w <= v
  BY <1>4, LeastNatural
<1>6. \E m \in Used : /\ Weight(n) < Weight(m)
                      /\ \A o \in Used : Weight(n) < Weight(o)
                                           => Weight(m) <= Weight(o)
  BY <1>5
<1> QED
  BY <1>6 DEF Follower

(* What the first state says, part by part.                                *)
LEMMA InitNodes ==
  ASSUME Init
  PROVE  /\ allocated = 3 + Cardinality(Preloaded) /\ Live = Used
         /\ Used \subseteq Nodes /\ allocated \in 3 .. MaxNodes
         /\ key = [n \in Nodes |-> IF n \in Loaded THEN Owner[n] ELSE NoKey]
         /\ hash = [n \in Nodes |-> FirstHash(n)]
         /\ next = [n \in Nodes |->
                      IF n \in Used \ {End} THEN Follower(n) ELSE Null]
         /\ buckets = [s \in Slots |->
                         CASE s = 0 -> First [] s = 1 -> Half [] OTHER -> Null]
         /\ collected = {} /\ stored = Preloaded
<1>1. allocated = 3 + Cardinality(Preloaded)
  BY DEF Init
<1>2. Cardinality(Preloaded) \in 0 .. 3
  BY OwnerFacts
<1>3. Live = Used /\ Used \subseteq Nodes /\ allocated \in 3 .. MaxNodes
  BY <1>1, <1>2, BoundsAssumption DEF Live, Used, Nodes
<1>4. /\ key = [n \in Nodes |-> IF n \in Loaded THEN Owner[n] ELSE NoKey]
      /\ hash = [n \in Nodes |-> FirstHash(n)]
      /\ next = [n \in Nodes |->
                   IF n \in Used \ {End} THEN Follower(n) ELSE Null]
  BY DEF Init
<1>5. buckets = [s \in Slots |->
                   CASE s = 0 -> First [] s = 1 -> Half [] OTHER -> Null]
  BY DEF Init, Slots
<1>6. collected = {} /\ stored = Preloaded
  BY DEF Init
<1> QED
  BY <1>1, <1>3, <1>4, <1>5, <1>6

LEMMA InitThreads ==
  ASSUME Init
  PROVE  /\ pc = [t \in Threads |-> "idle"]
         /\ op = [t \in Threads |-> "none"]
         /\ arg = [t \in Threads |-> NoKey]
         /\ sure = [t \in Threads |-> FALSE]
         /\ start = [t \in Threads |-> Null]
         /\ prev = [t \in Threads |-> Null]
         /\ cur = [t \in Threads |-> Null]
         /\ fresh = [t \in Threads |-> Null]
         /\ word = [t \in Threads |-> 0]
BY DEF Init

LEMMA InitTypes == Init => TypeOK
<1> SUFFICES ASSUME Init PROVE TypeOK
  OBVIOUS
<1>1. /\ allocated \in 3 .. MaxNodes
      /\ key \in [Nodes -> Keys \cup {NoKey}]
      /\ collected \subseteq Nodes /\ stored \subseteq Keys
  <2>1. Owner \in [Loaded -> Keys]
    BY OwnerFacts, PreloadAssumption
  <2> QED
    BY <2>1, InitNodes, PreloadAssumption
<1>2. next \in [Nodes -> Nodes \cup {Null}]
  <2>1. \A n \in Used \ {End} : Follower(n) \in Nodes
    BY InitNodes, FollowerFacts
  <2> QED
    BY <2>1, InitNodes
<1>3. hash \in [Nodes -> 0 .. MaxHash]
  <2>1. ASSUME NEW n \in Nodes PROVE FirstHash(n) \in 0 .. MaxHash
    <3>1. CASE n \in Used
      BY <3>1, WeightFacts DEF Hashes
    <3>2. CASE n \notin Used
      <4>1. n \notin Loaded /\ n # Half /\ n # End
        BY <3>2, WeightFacts
      <4>2. FirstHash(n) = 0
        BY <4>1 DEF FirstHash
      <4> QED
        BY <4>2, HashesFacts
    <3> QED
      BY <3>1, <3>2
  <2> QED
    BY <2>1, InitNodes
<1>4. buckets \in [0 .. 2^MaxBitlen - 1 -> Nodes \cup {Null}]
  <2>1. First \in Nodes /\ Half \in Nodes
    BY InitNodes, WeightFacts
  <2> QED
    BY <2>1, InitNodes DEF Slots
<1>5. /\ arrays \subseteq 0 .. MaxBitlen - 1
      /\ {bitlen, bitlenInternal} \subseteq 1 .. MaxBitlen
      /\ calls \in 0 .. MaxCalls
  <2>1. arrays = {0} /\ bitlen = 1 /\ bitlenInternal = 1 /\ calls = 0
    BY DEF Init
  <2> QED
    BY <2>1, BoundsAssumption, WidthAssumption
<1>6. elementCount \in Nat
  BY OwnerFacts DEF Init
<1>7. /\ arg \in [Threads -> Keys \cup {NoKey}]
      /\ op \in [Threads -> Ops \cup {"none"}]
      /\ \A ptr \in {start, prev, cur, fresh} :
           ptr \in [Threads -> Nodes \cup {Null}]
      /\ word \in [Threads -> Nat] /\ sure \in [Threads -> BOOLEAN]
  <2>1. \A ptr \in {start, prev, cur, fresh} : ptr = [t \in Threads |-> Null]
    BY InitThreads
  <2>2. \A ptr \in {start, prev, cur, fresh} :
          ptr \in [Threads -> Nodes \cup {Null}]
    BY <2>1
  <2>3. word \in [Threads -> Nat]
    BY InitThreads
  <2>4. sure \in [Threads -> BOOLEAN]
    BY InitThreads
  <2>5. /\ arg \in [Threads -> Keys \cup {NoKey}]
        /\ op \in [Threads -> Ops \cup {"none"}]
    BY InitThreads
  <2> QED
    BY <2>2, <2>3, <2>4, <2>5
<1>8. pc \in [Threads -> {"idle", "count", "claim", "array", "bits", "locate",
                          "publish", "first", "seek", "splice", "walk", "scan",
                          "link", "bump", "cut"}]
  BY InitThreads
<1> QED
  BY <1>1, <1>2, <1>3, <1>4, <1>5, <1>6, <1>7, <1>8 DEF TypeOK

(* Every node the table starts with is in its list.                        *)
LEMMA InitList ==
  ASSUME Init, TypeOK, NEW L, NEW b, Sorted(L, b), L = Used
  PROVE  Used \subseteq List
<1> SUFFICES ASSUME NEW u \in Used, u \notin List PROVE FALSE
  OBVIOUS
<1> DEFINE Before == {n \in List : Weight(n) < Weight(u)}
           S == {Weight(n) : n \in Before}
<1>1. First \in List /\ List \subseteq Used
      /\ \A n \in List \ {End} : next[n] \in List
  BY ListClosed
<1>2. \A n \in Used : Weight(n) \in Nat /\ Weight(n) <= Weight(End)
  BY WeightFacts
<1>3. Weight(First) = 0 /\ Weight(u) # Weight(First)
  BY <1>1, WeightFacts
<1>4. Weight(First) \in S
  BY <1>1, <1>2, <1>3
<1>5. S \in SUBSET Nat /\ Weight(u) \in Nat /\ \A w \in S : w <= Weight(u)
  BY <1>1, <1>2
<1> HIDE DEF S
<1>6. Max(S) \in S /\ \A w \in S : w <= Max(S)
  BY <1>4, <1>5, GreatestNatural
<1>7. PICK n \in List : Weight(n) < Weight(u) /\ Weight(n) = Max(S)
  BY <1>6 DEF S
<1>8. n \in Used \ {End}
  BY <1>1, <1>2, <1>7
<1>9. next[n] = Follower(n) /\ next[n] \in List
  BY <1>1, <1>8, InitNodes
<1>10. /\ Follower(n) \in Used /\ Weight(n) < Weight(Follower(n))
       /\ Weight(Follower(n)) <= Weight(u)
  BY <1>7, <1>8, FollowerFacts
<1>11. Weight(Follower(n)) # Weight(u)
  BY <1>9, <1>10, WeightFacts
<1>12. Weight(Follower(n)) \in S
  BY <1>2, <1>9, <1>10, <1>11 DEF S
<1> QED
  BY <1>2, <1>6, <1>7, <1>8, <1>10, <1>12

LEMMA InitSorted ==
  ASSUME Init, TypeOK, NEW b, b = [n \in Nodes |-> {}]
  PROVE  Sorted(Used, b)
<1>1. Used \subseteq Nodes /\ Used = Loaded \cup {First, Half, End}
      /\ Loaded \cap {First, Half, End} = {}
  BY InitNodes, WeightFacts
<1>2. ASSUME NEW n \in Used
      PROVE  /\ IsKey(n) <=> n \in Loaded
             /\ hash[n] = FirstHash(n)
  <2>1. n \in Nodes /\ hash[n] = FirstHash(n)
    BY <1>1, InitNodes
  <2>2. key[n] = IF n \in Loaded THEN Owner[n] ELSE NoKey
    BY <2>1, InitNodes
  <2>3. n \in Loaded => Owner[n] # NoKey
    BY OwnerFacts, PreloadAssumption, KeyAssumption
  <2> QED
    BY <2>1, <2>2, <2>3 DEF IsKey
<1>3. Ghosts(Used, b)
  BY <1>1, InitNodes DEF Ghosts
<1>4. Fields
  <2>1. next[End] = Null
    BY <1>1, InitNodes
  <2>2. ASSUME NEW n \in Live, IsKey(n) PROVE hash[n] = Hash[key[n]]
    <3>1. n \in Loaded /\ n \in Nodes /\ hash[n] = Hash[Owner[n]]
      BY <1>1, <1>2, <2>2, InitNodes, WeightFacts
    <3>2. key[n] = Owner[n]
      BY <3>1, InitNodes
    <3> QED
      BY <3>1, <3>2
  <2>3. hash[End] = MaxHash
    BY <1>1, <1>2, WeightFacts
  <2> QED
    BY <1>1, <1>2, <2>1, <2>2, <2>3 DEF Fields
<1>5. Buckets(Used)
  <2>1. /\ 0 \in Slots /\ 1 \in Slots
        /\ \A s \in Slots : buckets[s] = IF s = 0 THEN First
                                         ELSE IF s = 1 THEN Half ELSE Null
    BY InitNodes, ReverseFacts
  <2>2. buckets[0] = First /\ buckets[1] = Half
    BY <2>1
  <2>3. ASSUME NEW s \in Slots, buckets[s] # Null
        PROVE  /\ buckets[s] \in Live \ {End} /\ ~IsKey(buckets[s])
               /\ hash[buckets[s]] = Reverse(s)
    <3>1. hash[First] = Reverse(0) /\ hash[Half] = Reverse(1)
      BY <1>1, <1>2, WeightFacts, ReverseFacts
    <3>2. {First, Half} \subseteq Live \ {End} /\ ~IsKey(First) /\ ~IsKey(Half)
      BY <1>1, <1>2, InitNodes DEF First, Half, End
    <3>3. s = 0 \/ s = 1
      BY <2>1, <2>3
    <3> QED
      BY <2>2, <3>1, <3>2, <3>3
  <2>4. InBucket(First) /\ InBucket(Half)
    BY <2>1, <2>2 DEF InBucket, First, Half, Null
  <2>5. ASSUME NEW n \in Used \ {End}, ~IsKey(n) PROVE InBucket(n)
    BY <1>1, <1>2, <2>4, <2>5
  <2> QED
    BY <2>2, <2>3, <2>5 DEF Buckets
<1>6. ASSUME NEW n \in Live \ {End} PROVE Edge(Used, b, n, next[n])
  <2>1. PICK m : m = next[n]
    OBVIOUS
  <2>2. n \in Used \ {End} /\ n \in Nodes
    BY <1>1, InitNodes
  <2>3. m = Follower(n)
    BY <2>1, <2>2, InitNodes
  <2>4. m \in Used /\ Weight(n) < Weight(m)
    BY <2>2, <2>3, FollowerFacts
  <2>5. /\ hash[n] \in Nat /\ hash[m] \in Nat
        /\ Weight(n) = IF IsKey(n) THEN 2 * hash[n] + 1 ELSE 2 * hash[n]
        /\ Weight(m) = IF IsKey(m) THEN 2 * hash[m] + 1 ELSE 2 * hash[m]
    BY <1>2, <2>2, <2>4, WeightFacts DEF Hashes
  <2>6. /\ hash[n] <= hash[m] /\ (~IsKey(m) => hash[n] < hash[m])
        /\ (IsKey(n) /\ IsKey(m) => hash[n] < hash[m])
    BY <2>4, <2>5
  <2>7. b[m] = {} /\ (IsKey(m) => ~SameRun(n, m))
    BY <1>1, <2>4, <2>5, <2>6 DEF SameRun
  <2> QED
    BY <2>1, <2>4, <2>6, <2>7 DEF Edge
<1> QED
  BY <1>3, <1>4, <1>5, <1>6 DEF Sorted, Links

LEMMA InitTable == Init => TableInv
<1> SUFFICES ASSUME Init PROVE TableInv
  OBVIOUS
<1>1. TypeOK /\ ResizeInv
  BY InitTypes, InitResize
<1>2. PICK b : b = [n \in Nodes |-> {}]
  OBVIOUS
<1>3. Sorted(Used, b)
  BY <1>1, <1>2, InitSorted
<1>4. Distinct
  BY InitThreads DEF Distinct
<1>5. Kept(Used)
  <2>1. ASSUME NEW k \in stored PROVE \E n \in Used : key[n] = k
    <3>1. PICK n \in Loaded : Owner[n] = k
      BY <2>1, InitNodes, OwnerFacts
    <3>2. n \in Used /\ n \in Nodes
      BY InitNodes, WeightFacts
    <3>3. key[n] = k
      BY <3>1, <3>2, InitNodes
    <3> QED
      BY <3>2, <3>3
  <2> QED
    BY <1>1, <1>3, <2>1, InitList DEF Kept
<1>6. ASSUME NEW t \in Threads PROVE Thread(Used, b, t) /\ Sought(Used, b, t)
  BY InitThreads DEF Thread, Sought
<1>7. IInv(Used, b)
  BY <1>3, <1>4, <1>5, <1>6 DEF IInv
<1> QED
  BY <1>1, <1>7 DEF TableInv

LEMMA NextTable == TableInv /\ [Next]_vars => TableInv'
<1> SUFFICES ASSUME TableInv, [Next]_vars PROVE TableInv'
  OBVIOUS
<1>1. TypeOK /\ ResizeInv
  BY DEF TableInv
<1>2. PICK L, b : IInv(L, b)
  BY DEF TableInv
<1>3. ResizeInv'
  BY <1>1, NextResize
<1>4. TypeOK' /\ \E M, c : IInv(M, c)'
  <2>1. CASE UNCHANGED vars
    BY <1>1, <1>2, <2>1, IdleStep
  <2>2. CASE Next
    <3>1. PICK t \in Threads : \/ Begin(t) \/ Resize(t) \/ GetSentinel(t)
                               \/ Search(t) \/ Store(t) \/ Delete(t)
      BY <2>2 DEF Next
    <3> QED
      BY <1>1, <1>2, <3>1, ThreadStep
  <2> QED
    BY <2>1, <2>2
<1> QED
  BY <1>3, <1>4 DEF TableInv

-----------------------------------------------------------------------------
(* The theorems.                                                           *)

(* The inductive invariant holds in every state of the table.              *)
THEOREM TableInvariance == Spec => []TableInv
<1> QED
  BY InitTable, NextTable, PTL DEF Spec

(* Every field of the table keeps its type, whatever the threads call.     *)
THEOREM TypeCorrect == Spec => []TypeOK
<1>1. TableInv => TypeOK
  BY DEF TableInv
<1> QED
  BY <1>1, TableInvariance, PTL

(* The list is in split order from the first sentinel to the end: what     *)
(* ht_store, ht_get_sentinel and ht_del do to it at once, by the CAS they  *)
(* share or, for a new sentinel, without one, never links a node behind a  *)
(* larger hash, nor makes a walk miss the end.                             *)
THEOREM ListInSplitOrder == Spec => []SplitOrder
<1>1. TableInv => SplitOrder
  BY SplitOrderHolds DEF TableInv, IInv
<1> QED
  BY <1>1, TableInvariance, PTL

(* Two calls of ht_store for one key never both link a node of it, unless  *)
(* ht_del has cut one out in between.                                      *)
THEOREM KeysUnique == Spec => []UniqueKeys
<1>1. TableInv => UniqueKeys
  BY UniqueKeysHold DEF TableInv, IInv
<1> QED
  BY <1>1, TableInvariance, PTL

(* The assertions of ht_get_sentinel and ht_store never fail, and a search *)
(* never starts behind its key.                                            *)
THEOREM AssertionsAlwaysHold == Spec => []AssertionsHold
<1>1. TableInv => AssertionsHold
  BY AssertionsHoldHere DEF TableInv, IInv
<1> QED
  BY <1>1, TableInvariance, PTL

(* As long as nothing is deleted and no bucket split, every key ht_store   *)
(* has linked is in the list.                                              *)
THEOREM StoredKeysKept == Spec => []KeysKept
<1>1. TableInv => KeysKept
  BY KeysKeptHolds DEF TableInv, IInv
<1> QED
  BY <1>1, TableInvariance, PTL

(* A search that has come to a larger hash has met the key if it is there. *)
LEMMA MissIsRight ==
  ASSUME TypeOK, NEW L, NEW b, IInv(L, b), NEW t \in Threads,
         sure[t], Miss(t), Plain
  PROVE  FALSE
<1>1. Sorted(L, b) /\ Thread(L, b, t) /\ Sought(L, b, t)
      /\ pc[t] = "scan" /\ hash[cur[t]] > Target(t)
  BY DEF IInv, Miss
<1>2. PICK n \in L : key[n] = arg[t] /\ (n = cur[t] \/ Behind(b, cur[t], n))
  BY <1>1 DEF Sought
<1>3. /\ arg[t] \in Keys /\ arg[t] # NoKey /\ Target(t) \in Nat
      /\ Target(t) < MaxHash
  BY <1>1, TargetFacts
<1>4. n \in Live /\ n \in Nodes /\ IsKey(n) /\ hash[n] = Target(t)
      /\ n # End
  BY <1>1, <1>2, <1>3, LiveNodes
     DEF Sorted, Ghosts, Fields, IsKey, Target
<1>5. cur[t] \in L /\ cur[t] \in Nodes /\ hash[cur[t]] \in Nat
  BY <1>1, MissEdge, LiveNodes, HashTypes DEF Sorted, Ghosts
<1>6. cur[t] \in b[n] => hash[cur[t]] = hash[n]
  BY <1>1, <1>4 DEF Sorted, Ghosts
<1> QED
  BY <1>1, <1>2, <1>3, <1>4, <1>5, <1>6 DEF Behind

(* Then ht_find answers NOT_FOUND only for a key that was not stored when  *)
(* it was called: it never overlooks one others link keys around.          *)
THEOREM FindAnswersRightly == Spec => FindIsRight
<1>1. ASSUME TableInv, NEW t \in Threads,
             op[t] = "find" /\ sure[t] /\ Miss(t) /\ Plain
      PROVE  FALSE
  BY <1>1, MissIsRight DEF TableInv
<1>2. TableInv => [\A t \in Threads :
                     op[t] = "find" /\ sure[t] /\ Miss(t) /\ Plain
                       => pc'[t] # "idle"]_vars
  BY <1>1
<1> QED
  BY <1>2, TableInvariance, PTL DEF FindIsRight
=============================================================================
