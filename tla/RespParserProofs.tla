-------------------------- MODULE RespParserProofs --------------------------
(***************************************************************************)
(* The parser yields the commands of its stream, however the stream is cut *)
(* into reads and pages: proofs, for any inputs and any size of a page.    *)
(*                                                                         *)
(* First the encoding is put into positions: where in the stream a command *)
(* and each of its arguments begins, and which bytes are there.  Then the  *)
(* parser is followed along these positions.                               *)
(***************************************************************************)
EXTENDS RespParser, ArithmeticProofs, SequenceTheorems

-----------------------------------------------------------------------------
(* Flattening.                                                             *)

Flat(f, seqs) ==
  f = [i \in 1 .. Len(seqs) |-> IF i = 1 THEN seqs[i] ELSE f[i - 1] \o seqs[i]]

(* FlattenSeq chooses a function that adds piece after piece.  There is    *)
(* one.                                                                    *)
LEMMA FlatExists ==
  ASSUME NEW T, NEW seqs \in Seq(Seq(T))
  PROVE  \E f : Flat(f, seqs)
<1> DEFINE Step(f, i) == IF i = 1 THEN seqs[i] ELSE f[i - 1] \o seqs[i]
           S == {k \in Nat : \E f : f = [i \in 1 .. k |-> Step(f, i)]}
<1>1. 0 \in S
  <2>1. \A i \in 1 .. 0 : FALSE
    OBVIOUS
  <2>2. [i \in 1 .. 0 |-> 0] = [i \in 1 .. 0 |-> Step([j \in 1 .. 0 |-> 0], i)]
    BY <2>1
  <2> HIDE DEF Step
  <2> QED
    BY <2>2
<1>2. ASSUME NEW k \in Nat, k \in S PROVE k + 1 \in S
  <2>1. PICK f : f = [i \in 1 .. k |-> Step(f, i)]
    BY <1>2
  <2> DEFINE g == [i \in 1 .. k + 1 |-> IF i <= k THEN f[i] ELSE Step(f, i)]
  <2>2. ASSUME NEW i \in 1 .. k + 1 PROVE g[i] = Step(g, i)
    <3>1. i # 1 => i - 1 \in 1 .. k /\ g[i - 1] = f[i - 1]
      OBVIOUS
    <3>2. Step(g, i) = Step(f, i)
      BY <3>1
    <3>3. i <= k => f[i] = Step(f, i)
      <4> HIDE DEF Step
      <4>1. \A j \in 1 .. k : f[j] = Step(f, j)
        BY <2>1
      <4>2. i <= k => i \in 1 .. k
        OBVIOUS
      <4> QED
        BY <4>1, <4>2
    <3>4. g[i] = IF i <= k THEN f[i] ELSE Step(f, i)
      OBVIOUS
    <3> QED
      BY <3>2, <3>3, <3>4
  <2>3. g = [i \in 1 .. k + 1 |-> Step(g, i)]
    BY <2>2
  <2> HIDE DEF g, Step
  <2>4. \E e : e = [i \in 1 .. k + 1 |-> Step(e, i)]
    BY <2>3
  <2> QED
    BY <2>4
<1> HIDE DEF S
<1>3. Len(seqs) \in S
  <2>1. Len(seqs) \in Nat
    OBVIOUS
  <2> QED
    BY <1>1, <1>2, <2>1, Induction
<1> QED
  BY <1>3 DEF S, Flat

(* What FlattenSeq takes is one.                                           *)
LEMMA FlattenIs ==
  ASSUME NEW T, NEW seqs \in Seq(Seq(T)), Len(seqs) # 0
  PROVE  \E f : Flat(f, seqs) /\ FlattenSeq(seqs) = f[Len(seqs)]
<1>1. \E f : Flat(f, seqs)
  BY FlatExists
<1> DEFINE flatten == CHOOSE f : Flat(f, seqs)
<1>2. Flat(flatten, seqs)
  BY <1>1
<1>3. FlattenSeq(seqs) = flatten[Len(seqs)]
  BY DEF FlattenSeq, Flat
<1> QED
  BY <1>2, <1>3

(* Its first value is the first piece; each later one has a piece more.    *)
LEMMA FlatSteps ==
  ASSUME NEW f, NEW s, Len(s) \in Nat, Flat(f, s)
  PROVE  /\ Len(s) > 0 => f[1] = s[1]
         /\ \A i \in 2 .. Len(s) : f[i] = f[i - 1] \o s[i]
<1> DEFINE Step(h, i) == IF i = 1 THEN s[i] ELSE h[i - 1] \o s[i]
<1>1. f = [i \in 1 .. Len(s) |-> Step(f, i)]
  BY DEF Flat
<1> HIDE DEF Step
<1>2. \A i \in 1 .. Len(s) : f[i] = Step(f, i)
  BY <1>1
<1>3. Len(s) > 0 => f[1] = Step(f, 1)
  BY <1>2
<1>4. ASSUME NEW i \in 2 .. Len(s) PROVE f[i] = f[i - 1] \o s[i]
  <2>1. f[i] = Step(f, i) /\ i # 1
    BY <1>2
  <2> QED
    BY <2>1 DEF Step
<1> QED
  BY <1>3, <1>4 DEF Step

(* Nothing flattens to nothing.                                            *)
LEMMA FlattenEmpty ==
  FlattenSeq(<<>>) = <<>>
BY DEF FlattenSeq

Sums(f, s, n) == f[1] = s[1] /\ \A i \in 2 .. n : f[i] = f[i - 1] \o s[i]
Agree(s, t, n, T) == \A i \in 1 .. n : t[i] = s[i] /\ s[i] \in Seq(T)

(* Two sequences that agree so far flatten to the same so far.             *)
LEMMA FlatPrefix ==
  ASSUME NEW T, NEW n \in Nat, n # 0, NEW f, NEW g, NEW s, NEW t,
         Sums(f, s, n), Sums(g, t, n), Agree(s, t, n, T)
  PROVE  \A i \in 1 .. n : f[i] = g[i] /\ f[i] \in Seq(T)
<1> DEFINE Good(i) == i < n => f[i + 1] = g[i + 1] /\ f[i + 1] \in Seq(T)
           S == {i \in Nat : Good(i)}
<1> USE DEF Sums, Agree
<1>1. Good(0)
  <2>1. 1 \in 1 .. n
    OBVIOUS
  <2> QED
    BY <2>1
<1>2. ASSUME NEW i \in Nat, Good(i) PROVE Good(i + 1)
  <2>1. SUFFICES ASSUME i + 1 < n PROVE f[i + 2] = g[i + 2] /\ f[i + 2] \in Seq(T)
    BY (i + 1) + 1 = i + 2
  <2>2. f[i + 1] = g[i + 1] /\ f[i + 1] \in Seq(T)
    BY <1>2, <2>1
  <2>3. i + 2 \in 2 .. n /\ i + 2 \in 1 .. n /\ (i + 2) - 1 = i + 1
    BY <2>1
  <2>4. f[i + 2] = f[i + 1] \o s[i + 2]
    BY <2>3
  <2>5. g[i + 2] = g[i + 1] \o t[i + 2]
    BY <2>3
  <2>6. t[i + 2] = s[i + 2] /\ s[i + 2] \in Seq(T)
    BY <2>3
  <2>7. f[i + 1] \o s[i + 2] \in Seq(T)
    BY <2>2, <2>6, ConcatProperties
  <2> QED
    BY <2>2, <2>4, <2>5, <2>6, <2>7
<1> HIDE DEF Good
<1>3. 0 \in S
  BY <1>1
<1>4. \A i \in Nat : i \in S => i + 1 \in S
  BY <1>2
<1> HIDE DEF S
<1>5. Nat \subseteq S
  BY <1>3, <1>4, Induction
<1>6. \A i \in Nat : Good(i)
  BY <1>5 DEF S
<1>7. ASSUME NEW i \in 1 .. n PROVE f[i] = g[i] /\ f[i] \in Seq(T)
  <2>1. i - 1 \in Nat /\ i - 1 < n /\ (i - 1) + 1 = i
    OBVIOUS
  <2>2. Good(i - 1)
    BY <1>6, <2>1
  <2> QED
    BY <2>1, <2>2 DEF Good
<1> QED
  BY <1>7

(* One sequence more.                                                      *)
LEMMA FlattenLonger ==
  ASSUME NEW T, NEW n \in Nat, NEW s \in Seq(Seq(T)), NEW t \in Seq(Seq(T)),
         Len(s) = n, Len(t) = n + 1, \A i \in 1 .. n : t[i] = s[i]
  PROVE  /\ FlattenSeq(s) \in Seq(T)
         /\ FlattenSeq(t) = FlattenSeq(s) \o t[n + 1]
<1>1. PICK g : Flat(g, t) /\ FlattenSeq(t) = g[n + 1]
  BY FlattenIs
<1>2. g[1] = t[1] /\ \A i \in 2 .. n + 1 : g[i] = g[i - 1] \o t[i]
  <2>1. Len(t) \in Nat /\ Len(t) > 0
    OBVIOUS
  <2>2. Flat(g, t)
    BY <1>1
  <2>3. g[1] = t[1] /\ \A i \in 2 .. Len(t) : g[i] = g[i - 1] \o t[i]
    BY ONLY <2>1, <2>2, FlatSteps
  <2> QED
    BY <2>3
<1>3. CASE n = 0
  <2>1. s = <<>>
    BY <1>3
  <2>2. t[1] \in Seq(T)
    <3>1. 1 \in 1 .. Len(t)
      BY <1>3
    <3> QED
      BY <3>1, ElementOfSeq
  <2>3. FlattenSeq(s) = <<>> /\ <<>> \in Seq(T) /\ <<>> \o t[1] = t[1]
    BY <2>1, <2>2, FlattenEmpty, ConcatEmptySeq, EmptySeq
  <2>4. n + 1 = 1
    BY <1>3
  <2> QED
    BY <1>1, <1>2, <2>3, <2>4
<1>4. CASE n # 0
  <2>1. PICK f : Flat(f, s) /\ FlattenSeq(s) = f[n]
    BY <1>4, FlattenIs
  <2>2. f[1] = s[1] /\ \A i \in 2 .. n : f[i] = f[i - 1] \o s[i]
    <3>1. Len(s) \in Nat /\ Len(s) > 0
      BY <1>4
    <3>2. Flat(f, s)
      BY <2>1
    <3>3. f[1] = s[1] /\ \A i \in 2 .. Len(s) : f[i] = f[i - 1] \o s[i]
      BY ONLY <3>1, <3>2, FlatSteps
    <3> QED
      BY <3>3
  <2>3. \A i \in 1 .. n : t[i] = s[i] /\ s[i] \in Seq(T)
    OBVIOUS
  <2>5. \A i \in 2 .. n : g[i] = g[i - 1] \o t[i]
    <3>1. \A i \in 2 .. n : i \in 2 .. n + 1
      OBVIOUS
    <3> QED
      BY <1>2, <3>1
  <2>6. f[n] = g[n] /\ f[n] \in Seq(T)
    <3>0. Sums(f, s, n) /\ Sums(g, t, n) /\ Agree(s, t, n, T)
      BY <1>2, <2>2, <2>3, <2>5 DEF Sums, Agree
    <3>1. \A i \in 1 .. n : f[i] = g[i] /\ f[i] \in Seq(T)
      BY <1>4, <3>0, FlatPrefix
    <3>2. n \in 1 .. n
      BY <1>4
    <3> QED
      BY <3>1, <3>2
  <2>7. g[n + 1] = g[n] \o t[n + 1]
    <3>1. n + 1 \in 2 .. n + 1 /\ (n + 1) - 1 = n
      BY <1>4
    <3> QED
      BY <1>2, <3>1
  <2> QED
    BY <1>1, <2>1, <2>6, <2>7
<1> QED
  BY <1>3, <1>4

(* Where a piece begins, and what is there.                                *)
Off(s, k) == Len(FlattenSeq(SubSeq(s, 1, k)))

Laid(s) ==
  /\ \A k \in 0 .. Len(s) : Off(s, k) \in Nat
  /\ Off(s, 0) = 0
  /\ Off(s, Len(s)) = Len(FlattenSeq(s))
  /\ \A k \in 0 .. Len(s) - 1 : Off(s, k + 1) = Off(s, k) + Len(s[k + 1])
  /\ \A k \in 0 .. Len(s) - 1 : \A j \in 1 .. Len(s[k + 1]) :
       /\ Off(s, k) + j <= Len(FlattenSeq(s))
       /\ FlattenSeq(s)[Off(s, k) + j] = s[k + 1][j]
  /\ \A p \in 1 .. Len(FlattenSeq(s)) :
       \E k \in 0 .. Len(s) - 1 : \E j \in 1 .. Len(s[k + 1]) : p = Off(s, k) + j

(* Every byte of every piece is behind the pieces before it, and there     *)
(* are no other bytes.                                                     *)
LEMMA Pieces ==
  ASSUME NEW T, NEW s \in Seq(Seq(T))
  PROVE  /\ FlattenSeq(s) \in Seq(T)
         /\ Laid(s)
<1> DEFINE F(k) == FlattenSeq(SubSeq(s, 1, k))
           Begun(k) ==
             /\ F(k) \in Seq(T)
             /\ \A i \in 0 .. k - 1 : \A j \in 1 .. Len(s[i + 1]) :
                  /\ Len(F(i)) + j <= Len(F(k))
                  /\ F(k)[Len(F(i)) + j] = s[i + 1][j]
             /\ \A p \in 1 .. Len(F(k)) :
                  \E i \in 0 .. k - 1 : \E j \in 1 .. Len(s[i + 1]) : p = Len(F(i)) + j
           Good(k) == k <= Len(s) => Begun(k)
           S == {k \in Nat : Good(k)}
<1>1. Len(s) \in Nat /\ \A k \in 1 .. Len(s) : s[k] \in Seq(T)
  OBVIOUS
<1>2. \A k \in 0 .. Len(s) : SubSeq(s, 1, k) \in Seq(Seq(T))
  BY <1>1, SubSeqProperties
<1>3. SubSeq(s, 1, 0) = <<>> /\ SubSeq(s, 1, Len(s)) = s
  <2>1. SubSeq(s, 1, 0) = <<>>
    BY SubSeqEmpty
  <2>2. SubSeq(s, 1, Len(s)) = s
    BY <1>1
  <2> QED
    BY <2>1, <2>2
<1>4. F(0) = <<>>
  BY <1>3, FlattenEmpty
<1>5. ASSUME NEW k \in 0 .. Len(s) - 1
      PROVE  F(k) \in Seq(T) /\ F(k + 1) = F(k) \o s[k + 1]
  <2>1. SubSeq(s, 1, k) \in Seq(Seq(T)) /\ SubSeq(s, 1, k + 1) \in Seq(Seq(T))
    BY <1>2
  <2>2. k \in Nat /\ Len(SubSeq(s, 1, k)) = k /\ Len(SubSeq(s, 1, k + 1)) = k + 1
    BY <1>1
  <2>3. \A i \in 1 .. k : SubSeq(s, 1, k + 1)[i] = SubSeq(s, 1, k)[i]
    BY <1>1
  <2>4. SubSeq(s, 1, k + 1)[k + 1] = s[k + 1]
    BY <1>1
  <2> DEFINE u == SubSeq(s, 1, k)
             v == SubSeq(s, 1, k + 1)
  <2>5. /\ k \in Nat /\ u \in Seq(Seq(T)) /\ v \in Seq(Seq(T)) /\ Len(u) = k
        /\ Len(v) = k + 1 /\ \A i \in 1 .. k : v[i] = u[i]
    BY <2>1, <2>2, <2>3
  <2>6. v[k + 1] = s[k + 1] /\ F(k) = FlattenSeq(u) /\ F(k + 1) = FlattenSeq(v)
    BY <2>4
  <2> HIDE DEF u, v, F
  <2>7. FlattenSeq(u) \in Seq(T) /\ FlattenSeq(v) = FlattenSeq(u) \o v[k + 1]
    BY ONLY <2>5, FlattenLonger
  <2> QED
    BY ONLY <2>6, <2>7
<1>6. ASSUME NEW k \in 0 .. Len(s) - 1
      PROVE  Len(F(k)) \in Nat /\ Len(F(k + 1)) = Len(F(k)) + Len(s[k + 1])
  <2> HIDE DEF F
  <2>1. F(k) \in Seq(T) /\ s[k + 1] \in Seq(T) /\ F(k + 1) = F(k) \o s[k + 1]
    BY <1>1, <1>5
  <2> QED
    BY <2>1, ConcatProperties, LenProperties
<1> HIDE DEF F
<1>7. Good(0)
  <2>1. F(0) \in Seq(T) /\ Len(F(0)) = 0
    BY <1>4, EmptySeq
  <2> QED
    BY <2>1
<1>8. ASSUME NEW k \in Nat, Good(k) PROVE Good(k + 1)
  <2>1. SUFFICES ASSUME k + 1 <= Len(s) PROVE Begun(k + 1)
    OBVIOUS
  <2>2. k \in 0 .. Len(s) - 1 /\ k \in Nat /\ Begun(k)
    BY <1>1, <1>8, <2>1
  <2> DEFINE e == s[k + 1]
             m == Len(F(k))
  <2>3. /\ F(k) \in Seq(T) /\ e \in Seq(T) /\ F(k + 1) = F(k) \o e
        /\ m \in Nat /\ Len(e) \in Nat
    BY <1>1, <1>5, <2>2, LenProperties
  <2>4. /\ F(k + 1) \in Seq(T) /\ Len(F(k + 1)) = m + Len(e)
        /\ \A i \in 1 .. m + Len(e) :
             F(k + 1)[i] = IF i <= m THEN F(k)[i] ELSE e[i - m]
    <3> HIDE DEF e, m
    <3>1. /\ F(k) \o e \in Seq(T) /\ Len(F(k) \o e) = Len(F(k)) + Len(e)
          /\ \A i \in 1 .. Len(F(k)) + Len(e) :
               (F(k) \o e)[i] = IF i <= Len(F(k)) THEN F(k)[i] ELSE e[i - Len(F(k))]
      BY <2>3, ConcatProperties
    <3>2. m = Len(F(k))
      BY DEF m
    <3> QED
      BY <2>3, <3>1, <3>2
  <2>5. ASSUME NEW i \in 0 .. k, NEW j \in 1 .. Len(s[i + 1])
        PROVE  Len(F(i)) + j <= Len(F(k + 1)) /\ F(k + 1)[Len(F(i)) + j] = s[i + 1][j]
    <3>1. CASE i = k
      <4>1. m + j \in 1 .. m + Len(e) /\ ~(m + j <= m) /\ (m + j) - m = j
        BY <2>3, <3>1
      <4> QED
        BY <2>4, <3>1, <4>1
    <3>2. CASE i # k
      <4>1. i \in 0 .. k - 1 /\ Len(F(i)) \in Nat
        BY <1>6, <2>2, <3>2
      <4>2. Len(F(i)) + j <= m /\ F(k)[Len(F(i)) + j] = s[i + 1][j]
        BY <2>2, <4>1
      <4>3. Len(F(i)) + j \in 1 .. m + Len(e)
        BY <2>3, <4>1, <4>2, SMTT(60)
      <4> QED
        BY <2>3, <2>4, <4>2, <4>3
    <3> QED
      BY <3>1, <3>2
  <2>6. ASSUME NEW p \in 1 .. Len(F(k + 1))
        PROVE  \E i \in 0 .. k : \E j \in 1 .. Len(s[i + 1]) : p = Len(F(i)) + j
    <3>1. CASE p <= m
      <4>0. p \in 1 .. Len(F(k))
        BY <2>3, <3>1
      <4>1. PICK i \in 0 .. k - 1 : \E j \in 1 .. Len(s[i + 1]) : p = Len(F(i)) + j
        BY <2>2, <4>0
      <4>2. i \in 0 .. k
        OBVIOUS
      <4> QED
        BY <4>1, <4>2
    <3>2. CASE ~(p <= m)
      <4>1. p - m \in 1 .. Len(e) /\ p = Len(F(k)) + (p - m)
        BY <2>3, <2>4, <3>2
      <4>2. k \in 0 .. k
        BY <2>2
      <4> QED
        BY <4>1, <4>2
    <3> QED
      BY <3>1, <3>2
  <2>7. (k + 1) - 1 = k
    OBVIOUS
  <2> QED
    BY <2>4, <2>5, <2>6, <2>7
<1> HIDE DEF Begun
<1>9. \A k \in 0 .. Len(s) : Begun(k)
  <2> HIDE DEF Good
  <2>1. 0 \in S /\ \A k \in Nat : k \in S => k + 1 \in S
    BY <1>7, <1>8
  <2> HIDE DEF S
  <2>2. Nat \subseteq S
    BY <2>1, Induction
  <2>3. \A k \in Nat : Good(k)
    BY <2>2 DEF S
  <2> QED
    BY <1>1, <2>3 DEF Good
<1> USE DEF Begun
<1>10. F(Len(s)) = FlattenSeq(s)
  BY <1>3 DEF F
<1>11. Begun(Len(s))
  <2>1. Len(s) \in 0 .. Len(s)
    BY <1>1
  <2> HIDE DEF Begun
  <2> QED
    BY <1>9, <2>1
<1>12. \A k : Off(s, k) = Len(F(k))
  BY DEF Off, F
<1>13. \A k \in 0 .. Len(s) : Len(F(k)) \in Nat
  BY <1>9, LenProperties
<1>14. Len(F(0)) = 0
  BY <1>4
<1>15. FlattenSeq(s) \in Seq(T)
  BY <1>10, <1>11
<1>16. \A k \in 0 .. Len(s) - 1 : Off(s, k + 1) = Off(s, k) + Len(s[k + 1])
  BY <1>6, <1>12
<1>17. \A k \in 0 .. Len(s) - 1 : \A j \in 1 .. Len(s[k + 1]) :
         /\ Off(s, k) + j <= Len(FlattenSeq(s))
         /\ FlattenSeq(s)[Off(s, k) + j] = s[k + 1][j]
  <2> SUFFICES ASSUME NEW k \in 0 .. Len(s) - 1, NEW j \in 1 .. Len(s[k + 1])
               PROVE  /\ Off(s, k) + j <= Len(FlattenSeq(s))
                      /\ FlattenSeq(s)[Off(s, k) + j] = s[k + 1][j]
    OBVIOUS
  <2> HIDE DEF F
  <2>1. /\ Len(F(k)) + j <= Len(F(Len(s)))
        /\ F(Len(s))[Len(F(k)) + j] = s[k + 1][j]
    BY <1>11
  <2>2. Off(s, k) = Len(F(k))
    BY <1>12
  <2> HIDE DEF Begun
  <2> QED
    BY <1>10, <2>1, <2>2
<1>18. \A p \in 1 .. Len(FlattenSeq(s)) :
         \E k \in 0 .. Len(s) - 1 : \E j \in 1 .. Len(s[k + 1]) : p = Off(s, k) + j
  BY <1>10, <1>11, <1>12
<1>19. Off(s, Len(s)) = Len(FlattenSeq(s)) /\ Off(s, 0) = 0
       /\ \A k \in 0 .. Len(s) : Off(s, k) \in Nat
  BY <1>10, <1>12, <1>13, <1>14
<1> QED
  BY <1>15, <1>16, <1>17, <1>18, <1>19 DEF Laid

-----------------------------------------------------------------------------
(* The bytes of a header, an argument and a command.                       *)
Plain == (0 .. 14) \ {Star}
Width(n) == IF n < 10 THEN 1 ELSE 2

(* The two digits of a number below 100.                                   *)
LEMMA DigitFacts ==
  ASSUME NEW n \in 0 .. 99
  PROVE  /\ n \div 10 \in 0 .. 9 /\ n % 10 \in 0 .. 9 /\ n = 10 * (n \div 10) + (n % 10)
         /\ Width(n) \in {1, 2}
<1>1. n \div 10 \in 0 .. 9
  OBVIOUS
<1>2. n % 10 \in 0 .. 9
  OBVIOUS
<1>3. n = 10 * (n \div 10) + (n % 10)
  OBVIOUS
<1>4. Width(n) \in {1, 2}
  BY DEF Width
<1> QED
  BY <1>1, <1>2, <1>3, <1>4

HeaderBytes(h, mark, n) ==
  /\ h \in Seq(0 .. 14)
  /\ Len(h) = 3 + Width(n)
  /\ h[1] = mark
  /\ h[2] = (IF n < 10 THEN n ELSE n \div 10)
  /\ n >= 10 => h[3] = n % 10
  /\ h[2 + Width(n)] = CR
  /\ h[3 + Width(n)] = LF
  /\ \A j \in 2 .. 3 + Width(n) : h[j] \in Plain

(* The bytes of a header: mark, one or two digits, CR, LF.                 *)
LEMMA HeaderFacts ==
  ASSUME NEW mark \in {Star, Dollar}, NEW n \in 0 .. 99
  PROVE  HeaderBytes(Header(mark, n), mark, n)
<1> DEFINE d == Digits(n)
           w == Width(n)
           m == <<mark>>
           e == <<CR, LF>>
           md == m \o d
           h == md \o e
           S == 0 .. 14
<1>1. /\ w \in {1, 2} /\ n \div 10 \in 0 .. 9 /\ n % 10 \in 0 .. 9
  BY DigitFacts
<1>2. /\ d \in Seq(0 .. 9) /\ Len(d) = w
      /\ d[1] = (IF n < 10 THEN n ELSE n \div 10)
      /\ n >= 10 => d[2] = n % 10
  <2>1. CASE n < 10
    <3>1. d = <<n>> /\ w = 1
      BY <2>1 DEF Digits, Width
    <3> HIDE DEF d
    <3> QED
      BY <2>1, <3>1
  <2>2. CASE ~(n < 10)
    <3> DEFINE a == n \div 10
               b == n % 10
    <3>1. d = <<a, b>> /\ w = 2
      BY <2>2 DEF Digits, Width
    <3>2. a \in 0 .. 9 /\ b \in 0 .. 9
      BY <1>1
    <3> HIDE DEF d, a, b
    <3>3. /\ d \in Seq(0 .. 9) /\ Len(d) = w /\ d[1] = a /\ d[2] = b
      BY <3>1, <3>2
    <3> USE DEF a, b
    <3> QED
      BY <2>2, <3>3
  <2> QED
    BY <2>1, <2>2
<1>3. d \in Seq(S) /\ \A i \in 1 .. w : d[i] \in 0 .. 9
  <2> HIDE DEF d
  <2>1. \A i \in 1 .. w : d[i] \in 0 .. 9
    BY <1>2, ElementOfSeq
  <2>2. 0 .. 9 \subseteq S
    OBVIOUS
  <2>3. d \in Seq(S)
    BY <1>2, <2>2, SeqMonotonic
  <2> QED
    BY <2>1, <2>3
<1>4. m \in Seq(S) /\ Len(m) = 1 /\ m[1] = mark
  BY DEF Star, Dollar
<1>5. e \in Seq(S) /\ Len(e) = 2 /\ e[1] = CR /\ e[2] = LF
  BY DEF CR, LF
<1>6. Header(mark, n) = h
  BY DEF Header
<1> HIDE DEF d, m, e, w, S
<1>7. /\ md \in Seq(S) /\ Len(md) = Len(m) + Len(d)
      /\ \A i \in 1 .. Len(m) + Len(d) : md[i] = IF i <= Len(m) THEN m[i] ELSE d[i - Len(m)]
  BY <1>3, <1>4, ConcatProperties
<1> HIDE DEF md
<1>8. /\ h \in Seq(S) /\ Len(h) = Len(md) + Len(e)
      /\ \A i \in 1 .. Len(md) + Len(e) : h[i] = IF i <= Len(md) THEN md[i] ELSE e[i - Len(md)]
  <2>1. md \in Seq(S) /\ e \in Seq(S)
    BY <1>5, <1>7
  <2>2. /\ md \o e \in Seq(S) /\ Len(md \o e) = Len(md) + Len(e)
        /\ \A i \in 1 .. Len(md) + Len(e) :
             (md \o e)[i] = IF i <= Len(md) THEN md[i] ELSE e[i - Len(md)]
    BY <2>1, ConcatProperties
  <2> QED
    BY <2>2
<1> HIDE DEF h
<1>9. /\ Len(md) = 1 + w /\ md[1] = mark /\ md[2] = d[1]
      /\ w = 2 => md[3] = d[2]
  BY <1>1, <1>2, <1>4, <1>7
<1>10. /\ Len(h) = 3 + w /\ h[1] = mark /\ h[2] = d[1] /\ h[2 + w] = CR /\ h[3 + w] = LF
       /\ w = 2 => h[3] = d[2]
  <2>1. Len(h) = 3 + w
    BY <1>1, <1>5, <1>8, <1>9
  <2>2. h[1] = mark /\ h[2] = d[1]
    BY <1>1, <1>5, <1>8, <1>9
  <2>3. h[2 + w] = CR /\ h[3 + w] = LF
    BY <1>1, <1>5, <1>8, <1>9
  <2>4. w = 2 => h[3] = d[2]
    BY <1>5, <1>8, <1>9
  <2> QED
    BY <2>1, <2>2, <2>3, <2>4
<1>11. n >= 10 => w = 2
  BY DEF w, Width
<1>12. \A j \in 2 .. 3 + w : h[j] \in Plain
  <2>1. CR \in Plain /\ LF \in Plain /\ \A x \in 0 .. 9 : x \in Plain
    BY DEF CR, LF, Star, Plain
  <2>2. d[1] \in 0 .. 9 /\ (w = 2 => d[2] \in 0 .. 9)
    BY <1>1, <1>3
  <2>3. CASE w = 1
    <3>1. \A j \in 2 .. 4 : j = 2 \/ j = 3 \/ j = 4
      OBVIOUS
    <3> QED
      BY <1>10, <2>1, <2>2, <2>3, <3>1
  <2>4. CASE w = 2
    <3>1. \A j \in 2 .. 5 : j = 2 \/ j = 3 \/ j = 4 \/ j = 5
      OBVIOUS
    <3> QED
      BY <1>10, <2>1, <2>2, <2>4, <3>1
  <2> QED
    BY <1>1, <2>3, <2>4
<1>13. HeaderBytes(h, mark, n)
  <2>1. h \in Seq(0 .. 14)
    BY <1>8 DEF S
  <2> QED
    BY <1>2, <1>10, <1>11, <1>12, <2>1 DEF HeaderBytes, w
<1> QED
  BY <1>6, <1>13

ArgumentBytes(a, n) ==
  /\ a \in Seq(Plain)
  /\ Len(a) = 5 + Width(n) + n
  /\ a[1] = Dollar
  /\ a[2] = (IF n < 10 THEN n ELSE n \div 10)
  /\ n >= 10 => a[3] = n % 10
  /\ a[2 + Width(n)] = CR
  /\ a[3 + Width(n)] = LF
  /\ a[4 + Width(n) + n] = CR
  /\ a[5 + Width(n) + n] = LF

(* The bytes of an argument: its header, its own bytes, CR, LF.            *)
LEMMA ArgumentFacts ==
  ASSUME NEW n \in 0 .. 99
  PROVE  ArgumentBytes(Argument(n), n)
<1> DEFINE h == Header(Dollar, n)
           body == [i \in 1 .. n |-> Other]
           tail == <<CR, LF>>
           w == Width(n)
<1>1. HeaderBytes(h, Dollar, n)
  BY HeaderFacts
<1>2. w \in {1, 2} /\ n \in Nat
  BY DigitFacts
<1>3. h \in Seq(Plain) /\ Len(h) = 3 + w
  <2> HIDE DEF h, w
  <2>1. /\ h \in Seq(0 .. 14) /\ Len(h) = 3 + w
        /\ h[1] = Dollar /\ \A j \in 2 .. 3 + w : h[j] \in Plain
    BY <1>1 DEF HeaderBytes, w
  <2>2. Dollar \in Plain
    BY DEF Dollar, Plain, Star
  <2>3. \A j \in 1 .. Len(h) : h[j] \in Plain
    BY <1>2, <2>1, <2>2
  <2> QED
    BY <2>1, <2>3, SeqDef, LenProperties
<1>4. body \in Seq(Plain) /\ Len(body) = n /\ tail \in Seq(Plain) /\ Len(tail) = 2
  BY <1>2 DEF Plain, Other, CR, LF, Star
<1>5. Argument(n) = (h \o body) \o tail
  BY DEF Argument
<1>6. tail[1] = CR /\ tail[2] = LF
  OBVIOUS
<1> HIDE DEF body, tail, h, w
<1> DEFINE hb == h \o body
           a == hb \o tail
<1>7. /\ hb \in Seq(Plain) /\ Len(hb) = 3 + w + n
      /\ \A i \in 1 .. 3 + w : hb[i] = h[i]
  BY <1>2, <1>3, <1>4, ConcatProperties
<1> HIDE DEF hb
<1>8. /\ a \in Seq(Plain) /\ Len(a) = 5 + w + n
      /\ \A i \in 1 .. 3 + w + n : a[i] = hb[i]
      /\ a[4 + w + n] = tail[1] /\ a[5 + w + n] = tail[2]
  <2>1. /\ hb \o tail \in Seq(Plain) /\ Len(hb \o tail) = Len(hb) + Len(tail)
        /\ \A i \in 1 .. Len(hb) + Len(tail) :
             (hb \o tail)[i] = IF i <= Len(hb) THEN hb[i] ELSE tail[i - Len(hb)]
    <3>1. hb \in Seq(Plain) /\ tail \in Seq(Plain)
      BY <1>4, <1>7
    <3> QED
      BY <3>1, ConcatProperties
  <2> HIDE DEF a
  <2>2. a = hb \o tail
    BY DEF a
  <2>3. /\ a \in Seq(Plain) /\ Len(a) = 5 + w + n
        /\ \A i \in 1 .. 5 + w + n :
             a[i] = IF i <= 3 + w + n THEN hb[i] ELSE tail[i - (3 + w + n)]
    BY <1>2, <1>4, <1>7, <2>1, <2>2
  <2>4. /\ 4 + w + n \in 1 .. 5 + w + n /\ ~(4 + w + n <= 3 + w + n)
        /\ (4 + w + n) - (3 + w + n) = 1
    BY <1>2
  <2>5. /\ 5 + w + n \in 1 .. 5 + w + n /\ ~(5 + w + n <= 3 + w + n)
        /\ (5 + w + n) - (3 + w + n) = 2
    BY <1>2
  <2>6. \A i \in 1 .. 3 + w + n : i \in 1 .. 5 + w + n /\ i <= 3 + w + n
    BY <1>2
  <2> QED
    BY <2>3, <2>4, <2>5, <2>6
<1>9. Argument(n) = a
  BY <1>5 DEF hb
<1> HIDE DEF a
<1>10. \A i \in 1 .. 3 + w : a[i] = h[i]
  BY <1>2, <1>7, <1>8
<1>11. a[1] = h[1] /\ a[2] = h[2] /\ a[3] = h[3] /\ a[2 + w] = h[2 + w] /\ a[3 + w] = h[3 + w]
  BY <1>2, <1>10
<1>12. ArgumentBytes(a, n)
  BY <1>1, <1>6, <1>8, <1>11 DEF HeaderBytes, ArgumentBytes, w
<1> QED
  BY <1>9, <1>12

Arguments(c) == [i \in DOMAIN c |-> Argument(c[i])]

CommandBytes(s, c) ==
  /\ s \in Seq(0 .. 14)
  /\ Len(s) = 4 + Off(Arguments(c), Len(c))
  /\ s[1] = Star /\ s[2] = Len(c) /\ s[3] = CR /\ s[4] = LF
  /\ \A i \in 0 .. Len(c) - 1 : \A j \in 1 .. Len(Argument(c[i + 1])) :
       /\ 4 + Off(Arguments(c), i) + j <= Len(s)
       /\ s[4 + Off(Arguments(c), i) + j] = Argument(c[i + 1])[j]
  /\ \A j \in 2 .. Len(s) : s[j] \in Plain

(* The arguments of a command are sequences of bytes, none a star.         *)
LEMMA ArgumentsAreSequences ==
  ASSUME NEW c \in Seq(0 .. 99)
  PROVE  /\ Arguments(c) \in Seq(Seq(Plain))
         /\ Len(Arguments(c)) = Len(c)
         /\ \A i \in 1 .. Len(c) : c[i] \in 0 .. 99 /\ Arguments(c)[i] = Argument(c[i])
<1>1. Len(c) \in Nat /\ DOMAIN c = 1 .. Len(c) /\ \A i \in 1 .. Len(c) : c[i] \in 0 .. 99
  BY LenProperties, ElementOfSeq
<1>2. \A i \in 1 .. Len(c) : Argument(c[i]) \in Seq(Plain)
  BY <1>1, ArgumentFacts DEF ArgumentBytes
<1>3. Arguments(c) = [i \in 1 .. Len(c) |-> Argument(c[i])]
  BY <1>1 DEF Arguments
<1> QED
  BY <1>1, <1>2, <1>3

(* The bytes of a command: its header, then those of its arguments.        *)
LEMMA CommandFacts ==
  ASSUME NEW c \in Seq(0 .. 99), Len(c) < 10
  PROVE  CommandBytes(Command(c), c)
<1> DEFINE h == Header(Star, Len(c))
           t == FlattenSeq(Arguments(c))
           s == h \o t
<1>1. Command(c) = s
  BY DEF Command, Arguments
<1>2. Len(c) \in 0 .. 99 /\ Width(Len(c)) = 1
  <2> DEFINE l == Len(c)
  <2>1. l \in Nat /\ l < 10
    OBVIOUS
  <2> HIDE DEF l
  <2>2. l \in 0 .. 99 /\ Width(l) = 1
    BY <2>1 DEF Width
  <2> QED
    BY <2>2 DEF l
<1>3. HeaderBytes(h, Star, Len(c))
  BY <1>2, HeaderFacts
<1>4. /\ h \in Seq(0 .. 14) /\ Len(h) = 4 /\ h[1] = Star /\ h[2] = Len(c)
      /\ h[3] = CR /\ h[4] = LF /\ \A j \in 2 .. 4 : h[j] \in Plain
  <2> HIDE DEF h
  <2>1. 3 + 1 = 4 /\ 2 + 1 = 3
    OBVIOUS
  <2> QED
    BY <1>2, <1>3, <2>1 DEF HeaderBytes
<1>5. t \in Seq(Plain) /\ Laid(Arguments(c))
  BY ArgumentsAreSequences, Pieces
<1>6. Len(t) = Off(Arguments(c), Len(c))
  BY <1>5, ArgumentsAreSequences DEF Laid
<1>7. t \in Seq(0 .. 14) /\ Len(t) \in Nat /\ \A j \in 1 .. Len(t) : t[j] \in Plain
  <2> HIDE DEF t
  <2>1. Plain \subseteq 0 .. 14
    BY DEF Plain
  <2> QED
    BY <1>5, <2>1, SeqMonotonic, ElementOfSeq, LenProperties
<1> HIDE DEF h, t
<1>8. /\ s \in Seq(0 .. 14) /\ Len(s) = 4 + Len(t)
      /\ \A i \in 1 .. 4 + Len(t) : s[i] = IF i <= 4 THEN h[i] ELSE t[i - 4]
  <2>1. /\ h \o t \in Seq(0 .. 14) /\ Len(h \o t) = Len(h) + Len(t)
        /\ \A i \in 1 .. Len(h) + Len(t) :
             (h \o t)[i] = IF i <= Len(h) THEN h[i] ELSE t[i - Len(h)]
    <3>1. h \in Seq(0 .. 14) /\ t \in Seq(0 .. 14)
      BY <1>4, <1>7
    <3> QED
      BY <3>1, ConcatProperties
  <2> QED
    BY <1>4, <2>1
<1> HIDE DEF s
<1>9. s[1] = Star /\ s[2] = Len(c) /\ s[3] = CR /\ s[4] = LF
  BY <1>4, <1>7, <1>8
<1>10. \A j \in 2 .. Len(s) : s[j] \in Plain
  BY <1>4, <1>7, <1>8, SMTT(60)
<1>11. ASSUME NEW i \in 0 .. Len(c) - 1, NEW j \in 1 .. Len(Argument(c[i + 1]))
       PROVE  /\ 4 + Off(Arguments(c), i) + j <= Len(s)
              /\ s[4 + Off(Arguments(c), i) + j] = Argument(c[i + 1])[j]
  <2> DEFINE o == Off(Arguments(c), i)
  <2>1. Arguments(c)[i + 1] = Argument(c[i + 1]) /\ Len(Arguments(c)) = Len(c)
        /\ i \in 0 .. Len(c)
    BY ArgumentsAreSequences
  <2>2. o \in Nat /\ o + j <= Len(t) /\ t[o + j] = Argument(c[i + 1])[j]
    BY <1>5, <2>1 DEF Laid, t
  <2> HIDE DEF o
  <2>3. j \in Nat /\ j >= 1
    OBVIOUS
  <2>4. 4 + o + j \in 1 .. 4 + Len(t) /\ ~(4 + o + j <= 4) /\ (4 + o + j) - 4 = o + j
    BY <1>7, <2>2, <2>3
  <2>5. 4 + o + j <= Len(s) /\ s[4 + o + j] = Argument(c[i + 1])[j]
    BY <1>8, <2>2, <2>4
  <2> QED
    BY <2>5 DEF o
<1>12. CommandBytes(s, c)
  BY <1>6, <1>8, <1>9, <1>10, <1>11 DEF CommandBytes
<1> QED
  BY <1>1, <1>12

-----------------------------------------------------------------------------
(* The stream of an input: after k commands, and before the argument i + 1 *)
(* of the next one, what is there.                                         *)
Commands(cs) == [k \in DOMAIN cs |-> Command(cs[k])]
Ends(cs, k) == Off(Commands(cs), k)
ArgAt(cs, k, i) == Ends(cs, k) + 4 + Off(Arguments(cs[k + 1]), i)

CommandAt(cs, k) ==
  LET st == StreamOf[cs]
      p == Ends(cs, k)
      n == Len(cs[k + 1])
  IN  /\ p \in Nat /\ n \in 0 .. 9
      /\ p + 4 <= Len(st)
      /\ st[p + 1] = Star /\ st[p + 2] = n /\ st[p + 3] = CR /\ st[p + 4] = LF
      /\ ArgAt(cs, k, 0) = p + 4
      /\ ArgAt(cs, k, n) = Ends(cs, k + 1)

ArgumentAt(cs, k, i) ==
  LET st == StreamOf[cs]
      p == ArgAt(cs, k, i)
      n == cs[k + 1][i + 1]
      w == Width(n)
  IN  /\ p \in Nat /\ n \in 0 .. 99 /\ w \in {1, 2} /\ (w = 2 <=> n >= 10)
      /\ st[p + 1] = Dollar
      /\ st[p + 2] = (IF n < 10 THEN n ELSE n \div 10)
      /\ n >= 10 => st[p + 3] = n % 10
      /\ st[p + 2 + w] = CR /\ st[p + 3 + w] = LF
      /\ st[p + 4 + w + n] = CR /\ st[p + 5 + w + n] = LF
      /\ ArgAt(cs, k, i + 1) = p + 5 + w + n
      /\ p + 5 + w + n <= Len(st)

Layout(cs) ==
  /\ StreamOf[cs] \in Seq(0 .. 14)
  /\ Len(cs) \in Nat /\ Ends(cs, 0) = 0 /\ Ends(cs, Len(cs)) = Len(StreamOf[cs])
  /\ \A k \in 0 .. Len(cs) - 1 : CommandAt(cs, k)
  /\ \A k \in 0 .. Len(cs) - 1 : \A i \in 0 .. Len(cs[k + 1]) - 1 : ArgumentAt(cs, k, i)
  /\ \A p \in 1 .. Len(StreamOf[cs]) :
       StreamOf[cs][p] = Star => \E k \in 0 .. Len(cs) - 1 : p = Ends(cs, k) + 1

(* The commands of an input are sequences of bytes.                        *)
LEMMA CommandsAreSequences ==
  ASSUME NEW cs \in Inputs
  PROVE  /\ cs \in Seq(Seq(0 .. 99)) /\ Len(cs) \in Nat /\ DOMAIN cs = 1 .. Len(cs)
         /\ \A k \in 1 .. Len(cs) : cs[k] \in Seq(0 .. 99) /\ Len(cs[k]) \in 0 .. 9
         /\ Commands(cs) \in Seq(Seq(0 .. 14)) /\ Len(Commands(cs)) = Len(cs)
         /\ \A k \in 1 .. Len(cs) : Commands(cs)[k] = Command(cs[k])
         /\ \A k \in 1 .. Len(cs) : CommandBytes(Command(cs[k]), cs[k])
<1>1. cs \in Seq(Seq(0 .. 99)) /\ \A k \in DOMAIN cs : Len(cs[k]) < 10
  BY InputsAssumption
<1>2. Len(cs) \in Nat /\ DOMAIN cs = 1 .. Len(cs)
  BY <1>1, LenProperties
<1>3. \A k \in 1 .. Len(cs) : cs[k] \in Seq(0 .. 99)
  BY <1>1, ElementOfSeq
<1>4. ASSUME NEW k \in 1 .. Len(cs) PROVE Len(cs[k]) \in 0 .. 9 /\ Len(cs[k]) < 10
  <2>1. Len(cs[k]) \in Nat
    BY <1>3, LenProperties
  <2>2. Len(cs[k]) < 10
    BY <1>1, <1>2
  <2> DEFINE l == Len(cs[k])
  <2>3. l \in Nat /\ l < 10
    BY <2>1, <2>2
  <2> HIDE DEF l
  <2>4. l \in 0 .. 9 /\ l < 10
    BY <2>3
  <2> QED
    BY <2>4 DEF l
<1>5. \A k \in 1 .. Len(cs) : CommandBytes(Command(cs[k]), cs[k])
  BY <1>3, <1>4, CommandFacts
<1>6. Commands(cs) = [k \in 1 .. Len(cs) |-> Command(cs[k])]
  BY <1>2 DEF Commands
<1>7. \A k \in 1 .. Len(cs) : Command(cs[k]) \in Seq(0 .. 14)
  BY <1>5 DEF CommandBytes
<1>8. Commands(cs) \in Seq(Seq(0 .. 14)) /\ Len(Commands(cs)) = Len(cs)
      /\ \A k \in 1 .. Len(cs) : Commands(cs)[k] = Command(cs[k])
  BY <1>2, <1>6, <1>7
<1> QED
  BY <1>1, <1>2, <1>3, <1>4, <1>5, <1>8

(* The stream is the commands, one after the other.                        *)
LEMMA StreamIs ==
  ASSUME NEW cs \in Inputs
  PROVE  StreamOf[cs] = FlattenSeq(Commands(cs))
BY DEF StreamOf, Encoding, Commands

(* A byte of a command, as a byte of the stream.                           *)
LEMMA ByteOfCommand ==
  ASSUME NEW cs \in Inputs, NEW k \in 0 .. Len(cs) - 1
  PROVE  /\ Ends(cs, k) \in Nat
         /\ Ends(cs, k + 1) = Ends(cs, k) + Len(Command(cs[k + 1]))
         /\ \A j \in 1 .. Len(Command(cs[k + 1])) :
              /\ Ends(cs, k) + j <= Len(StreamOf[cs])
              /\ StreamOf[cs][Ends(cs, k) + j] = Command(cs[k + 1])[j]
<1> DEFINE s == Commands(cs)
<1>1. s \in Seq(Seq(0 .. 14)) /\ Len(s) = Len(cs) /\ Len(cs) \in Nat
  BY CommandsAreSequences
<1>2. s[k + 1] = Command(cs[k + 1])
  BY <1>1, CommandsAreSequences
<1>3. Laid(s)
  BY <1>1, Pieces
<1>4. k \in 0 .. Len(s) /\ k \in 0 .. Len(s) - 1
  BY <1>1
<1>5. /\ Off(s, k) \in Nat
      /\ Off(s, k + 1) = Off(s, k) + Len(s[k + 1])
      /\ \A j \in 1 .. Len(s[k + 1]) :
           /\ Off(s, k) + j <= Len(FlattenSeq(s))
           /\ FlattenSeq(s)[Off(s, k) + j] = s[k + 1][j]
  BY <1>3, <1>4 DEF Laid
<1> QED
  BY <1>2, <1>5, StreamIs DEF Ends

(* Where a command begins, the stream has its star, its digit, CR and LF.  *)
LEMMA CommandPlace ==
  ASSUME NEW cs \in Inputs, NEW k \in 0 .. Len(cs) - 1
  PROVE  CommandAt(cs, k)
<1> DEFINE c == cs[k + 1]
           p == Ends(cs, k)
           st == StreamOf[cs]
           o == Off(Arguments(c), Len(c))
<1>1. k + 1 \in 1 .. Len(cs)
  BY CommandsAreSequences
<1>2. c \in Seq(0 .. 99) /\ Len(c) \in 0 .. 9 /\ CommandBytes(Command(c), c)
  BY <1>1, CommandsAreSequences
<1>3. Off(Arguments(c), 0) = 0 /\ o \in Nat
  <2>1. Laid(Arguments(c)) /\ Len(Arguments(c)) = Len(c)
    BY <1>2, ArgumentsAreSequences, Pieces
  <2>2. Len(c) \in 0 .. Len(c)
    BY <1>2
  <2> QED
    BY <2>1, <2>2 DEF Laid
<1>4. /\ Len(Command(c)) = 4 + o
      /\ Command(c)[1] = Star /\ Command(c)[2] = Len(c)
      /\ Command(c)[3] = CR /\ Command(c)[4] = LF
  BY <1>2 DEF CommandBytes
<1>5. /\ p \in Nat /\ Ends(cs, k + 1) = p + Len(Command(c))
      /\ \A j \in 1 .. Len(Command(c)) : p + j <= Len(st) /\ st[p + j] = Command(c)[j]
  BY ByteOfCommand
<1> HIDE DEF p, st, c, o
<1>6. 1 \in 1 .. 4 + o /\ 2 \in 1 .. 4 + o /\ 3 \in 1 .. 4 + o /\ 4 \in 1 .. 4 + o
  BY <1>3
<1>7. /\ p + 4 <= Len(st) /\ st[p + 1] = Star /\ st[p + 2] = Len(c)
      /\ st[p + 3] = CR /\ st[p + 4] = LF
  BY <1>4, <1>5, <1>6
<1>8. ArgAt(cs, k, 0) = p + 4 /\ ArgAt(cs, k, Len(c)) = Ends(cs, k + 1)
  <2>1. ArgAt(cs, k, 0) = p + 4 + Off(Arguments(c), 0)
    BY DEF ArgAt, p, c
  <2>2. ArgAt(cs, k, Len(c)) = p + 4 + o
    BY DEF ArgAt, p, c, o
  <2> QED
    BY <1>3, <1>4, <1>5, <2>1, <2>2
<1> QED
  BY <1>2, <1>5, <1>7, <1>8 DEF CommandAt, p, c, st

(* Where an argument begins, the stream has all the bytes of its           *)
(* encoding.                                                               *)
LEMMA ArgumentPlace ==
  ASSUME NEW cs \in Inputs, NEW k \in 0 .. Len(cs) - 1,
         NEW i \in 0 .. Len(cs[k + 1]) - 1
  PROVE  ArgumentAt(cs, k, i)
<1> DEFINE c == cs[k + 1]
           n == c[i + 1]
           w == Width(n)
           a == Argument(n)
           e == Ends(cs, k)
           o == Off(Arguments(c), i)
           p == ArgAt(cs, k, i)
           st == StreamOf[cs]
<1>1. k + 1 \in 1 .. Len(cs)
  BY CommandsAreSequences
<1>2. c \in Seq(0 .. 99) /\ Len(c) \in 0 .. 9 /\ CommandBytes(Command(c), c)
  BY <1>1, CommandsAreSequences
<1>3. i + 1 \in 1 .. Len(c) /\ i \in 0 .. Len(c) /\ i + 1 \in 0 .. Len(c)
  BY <1>2
<1>4. n \in 0 .. 99 /\ Arguments(c)[i + 1] = a
  BY <1>2, <1>3, ArgumentsAreSequences
<1>5. ArgumentBytes(a, n) /\ w \in {1, 2} /\ (w = 2 <=> n >= 10)
  <2>1. w = 2 <=> n >= 10
    <3>1. w = IF n < 10 THEN 1 ELSE 2
      BY DEF Width
    <3> HIDE DEF w, n
    <3> QED
      BY <1>4, <3>1
  <2> QED
    BY <1>4, <2>1, ArgumentFacts, DigitFacts
<1>6. o \in Nat /\ Off(Arguments(c), i + 1) = o + Len(a)
  <2>1. Laid(Arguments(c)) /\ Len(Arguments(c)) = Len(c)
    BY <1>2, ArgumentsAreSequences, Pieces
  <2> QED
    BY <1>3, <1>4, <2>1 DEF Laid
<1>7. /\ e \in Nat
      /\ \A j \in 1 .. Len(Command(c)) : e + j <= Len(st) /\ st[e + j] = Command(c)[j]
  BY ByteOfCommand
<1>8. p = e + 4 + o
  BY DEF ArgAt
<1>9. ArgAt(cs, k, i + 1) = p + Len(a)
  <2>1. ArgAt(cs, k, i + 1) = e + 4 + Off(Arguments(c), i + 1)
    BY DEF ArgAt
  <2>2. Len(a) \in Nat
    BY <1>4, <1>5 DEF ArgumentBytes
  <2> QED
    BY <1>6, <1>7, <1>8, <2>1, <2>2
<1>10. ASSUME NEW j \in 1 .. Len(a)
       PROVE  p + j <= Len(st) /\ st[p + j] = a[j]
  <2> DEFINE s == Command(c)
  <2>1. 4 + o + j <= Len(s) /\ s[4 + o + j] = a[j]
    BY <1>2 DEF CommandBytes
  <2> HIDE DEF s, o, p, st, e, a
  <2>2. 4 + o + j \in 1 .. Len(s) /\ e + (4 + o + j) = p + j
    <3>1. j \in Nat /\ j >= 1
      OBVIOUS
    <3>2. Len(s) \in Nat
      BY <1>2, LenProperties DEF CommandBytes, s
    <3> QED
      BY <1>6, <1>7, <1>8, <2>1, <3>1, <3>2
  <2>3. e + (4 + o + j) <= Len(st) /\ st[e + (4 + o + j)] = s[4 + o + j]
    BY <1>7, <2>2 DEF s
  <2> QED
    BY <2>1, <2>2, <2>3
<1> HIDE DEF a, p, st, o, e
<1>11. /\ Len(a) = 5 + w + n /\ a[1] = Dollar
       /\ a[2] = (IF n < 10 THEN n ELSE n \div 10)
       /\ n >= 10 => a[3] = n % 10
       /\ a[2 + w] = CR /\ a[3 + w] = LF /\ a[4 + w + n] = CR /\ a[5 + w + n] = LF
  BY <1>5 DEF ArgumentBytes
<1> HIDE DEF w, n
<1>12. /\ 1 \in 1 .. Len(a) /\ 2 \in 1 .. Len(a) /\ 3 \in 1 .. Len(a)
       /\ 2 + w \in 1 .. Len(a) /\ 3 + w \in 1 .. Len(a)
       /\ 4 + w + n \in 1 .. Len(a) /\ 5 + w + n \in 1 .. Len(a)
  <2> DEFINE l == Len(a)
  <2>1. l = 5 + w + n /\ n \in Nat /\ w \in {1, 2}
    <3>1. n \in Nat /\ w \in {1, 2}
      <4>1. n \in Nat
        BY <1>4
      <4>2. w \in {1, 2}
        BY <1>5
      <4> QED
        BY <4>1, <4>2
    <3>2. l = 5 + w + n
      BY <1>11
    <3> QED
      BY <3>1, <3>2
  <2> HIDE DEF l
  <2>2. l \in Nat /\ l >= 6
    BY <2>1
  <2>3. 1 \in 1 .. l /\ 2 \in 1 .. l /\ 3 \in 1 .. l
    BY <2>2
  <2>4. 2 + w \in 1 .. l /\ 3 + w \in 1 .. l
    BY <2>1
  <2>5. 4 + w + n \in 1 .. l /\ 5 + w + n \in 1 .. l
    BY <2>1
  <2> QED
    BY <2>3, <2>4, <2>5 DEF l
<1>13. p \in Nat
  BY <1>6, <1>7, <1>8
<1>14. /\ p + (2 + w) = p + 2 + w /\ p + (3 + w) = p + 3 + w
       /\ p + (4 + w + n) = p + 4 + w + n /\ p + (5 + w + n) = p + 5 + w + n
  BY <1>4, <1>5, <1>13
<1>15. st[p + 1] = Dollar /\ st[p + 2] = (IF n < 10 THEN n ELSE n \div 10)
       /\ (n >= 10 => st[p + 3] = n % 10)
  BY <1>10, <1>11, <1>12
<1>16. st[p + 2 + w] = CR /\ st[p + 3 + w] = LF
  BY <1>10, <1>11, <1>12, <1>14
<1>17. st[p + 4 + w + n] = CR /\ st[p + 5 + w + n] = LF /\ p + 5 + w + n <= Len(st)
  BY <1>10, <1>11, <1>12, <1>14
<1>18. ArgAt(cs, k, i + 1) = p + 5 + w + n
  BY <1>9, <1>11, <1>14
<1>19. n \in 0 .. 99 /\ w \in {1, 2} /\ (w = 2 <=> n >= 10)
  BY <1>4, <1>5
<1> QED
  BY <1>13, <1>15, <1>16, <1>17, <1>18, <1>19 DEF ArgumentAt, st, p, n, w, c

(* The only stars are where commands begin.                                *)
LEMMA StarPlace ==
  ASSUME NEW cs \in Inputs, NEW p \in 1 .. Len(StreamOf[cs]), StreamOf[cs][p] = Star
  PROVE  \E k \in 0 .. Len(cs) - 1 : p = Ends(cs, k) + 1
<1>1. Commands(cs) \in Seq(Seq(0 .. 14)) /\ Len(Commands(cs)) = Len(cs)
  BY CommandsAreSequences
<1>2. Laid(Commands(cs))
  BY <1>1, Pieces
<1>3. p \in 1 .. Len(FlattenSeq(Commands(cs)))
  BY StreamIs
<1>4. PICK k \in 0 .. Len(cs) - 1 :
        \E j \in 1 .. Len(Commands(cs)[k + 1]) : p = Off(Commands(cs), k) + j
  BY <1>1, <1>2, <1>3 DEF Laid
<1>5. PICK j \in 1 .. Len(Commands(cs)[k + 1]) : p = Ends(cs, k) + j
  BY <1>4 DEF Ends
<1>6. k + 1 \in 1 .. Len(cs)
  BY CommandsAreSequences
<1>7. Commands(cs)[k + 1] = Command(cs[k + 1]) /\ CommandBytes(Command(cs[k + 1]), cs[k + 1])
  BY <1>6, CommandsAreSequences
<1>8. Command(cs[k + 1])[j] = Star
  BY <1>5, <1>7, ByteOfCommand
<1>9. j = 1
  <2>1. \A m \in 2 .. Len(Command(cs[k + 1])) : Command(cs[k + 1])[m] \in Plain
    BY <1>7 DEF CommandBytes
  <2>2. j # 1 => j \in 2 .. Len(Command(cs[k + 1]))
    BY <1>7
  <2>3. Star \notin Plain
    BY DEF Plain
  <2> QED
    BY <1>8, <2>1, <2>2, <2>3
<1> QED
  BY <1>5, <1>9

(* Commands and arguments are where Ends and ArgAt say.                    *)
LEMMA LayoutHolds ==
  ASSUME NEW cs \in Inputs
  PROVE  Layout(cs)
<1>1. Commands(cs) \in Seq(Seq(0 .. 14)) /\ Len(Commands(cs)) = Len(cs) /\ Len(cs) \in Nat
  BY CommandsAreSequences
<1>2. FlattenSeq(Commands(cs)) \in Seq(0 .. 14) /\ Laid(Commands(cs))
  BY <1>1, Pieces
<1>3. Ends(cs, 0) = 0 /\ Ends(cs, Len(cs)) = Len(StreamOf[cs])
  BY <1>1, <1>2, StreamIs DEF Laid, Ends
<1>4. StreamOf[cs] \in Seq(0 .. 14)
  BY <1>2, StreamIs
<1> QED
  BY <1>1, <1>3, <1>4, CommandPlace, ArgumentPlace, StarPlace DEF Layout

(* What is expected of the parser, by places.                              *)
Entry(cs, k, i) ==
  <<ArgAt(cs, k, i) + 3 + Width(cs[k + 1][i + 1]), cs[k + 1][i + 1]>>

Expected(cs) ==
  /\ ArgumentsOf[cs] \in Seq(Seq(Nat \X Nat)) /\ Len(ArgumentsOf[cs]) = Len(cs)
  /\ \A k \in 0 .. Len(cs) - 1 :
       /\ Len(ArgumentsOf[cs][k + 1]) = Len(cs[k + 1])
       /\ \A i \in 0 .. Len(cs[k + 1]) - 1 : ArgumentsOf[cs][k + 1][i + 1] = Entry(cs, k, i)

(* What ArgumentsOf counts in front of a command is Ends.                  *)
LEMMA FrontOfStream ==
  ASSUME NEW cs \in Inputs, NEW k \in 0 .. Len(cs)
  PROVE  /\ Encoding(SubSeq(cs, 1, k)) \in Seq(0 .. 14)
         /\ Len(Encoding(SubSeq(cs, 1, k))) = Ends(cs, k)
<1> DEFINE f == SubSeq(cs, 1, k)
           g == SubSeq(Commands(cs), 1, k)
<1>1. /\ cs \in Seq(Seq(0 .. 99)) /\ Len(cs) \in Nat
      /\ Commands(cs) \in Seq(Seq(0 .. 14)) /\ Len(Commands(cs)) = Len(cs)
      /\ \A j \in 1 .. Len(cs) : Commands(cs)[j] = Command(cs[j])
  BY CommandsAreSequences
<1>2. DOMAIN f = 1 .. k /\ \A j \in 1 .. k : f[j] = cs[j]
  BY <1>1
<1>3. g \in Seq(Seq(0 .. 14)) /\ Len(g) = k /\ \A j \in 1 .. k : g[j] = Command(cs[j])
  BY <1>1
<1>4. g = [j \in 1 .. k |-> g[j]]
  <2> HIDE DEF g
  <2> QED
    BY <1>3, LenProperties
<1>5. [j \in DOMAIN f |-> Command(f[j])] = g
  <2> HIDE DEF f, g
  <2> QED
    BY <1>2, <1>3, <1>4
<1>6. Encoding(f) = FlattenSeq(g)
  BY <1>5 DEF Encoding
<1>7. FlattenSeq(g) \in Seq(0 .. 14)
  BY <1>3, Pieces
<1> QED
  BY <1>6, <1>7 DEF Ends, Off

(* What it counts in front of an argument is the length of those before    *)
(* it.                                                                     *)
LEMMA FrontOfArguments ==
  ASSUME NEW c \in Seq(0 .. 99), NEW i \in 0 .. Len(c)
  PROVE  /\ FlattenSeq([j \in 1 .. i |-> Argument(c[j])]) \in Seq(0 .. 14)
         /\ Len(FlattenSeq([j \in 1 .. i |-> Argument(c[j])])) = Off(Arguments(c), i)
<1> DEFINE g == SubSeq(Arguments(c), 1, i)
<1>1. /\ Arguments(c) \in Seq(Seq(Plain)) /\ Len(Arguments(c)) = Len(c) /\ Len(c) \in Nat
      /\ \A j \in 1 .. Len(c) : Arguments(c)[j] = Argument(c[j])
  BY ArgumentsAreSequences, LenProperties
<1>2. g \in Seq(Seq(Plain)) /\ Len(g) = i /\ \A j \in 1 .. i : g[j] = Argument(c[j])
  BY <1>1
<1>3. g = [j \in 1 .. i |-> g[j]]
  <2> HIDE DEF g
  <2> QED
    BY <1>2, LenProperties
<1>4. [j \in 1 .. i |-> Argument(c[j])] = g
  <2> HIDE DEF g
  <2> QED
    BY <1>2, <1>3
<1>5. FlattenSeq(g) \in Seq(Plain)
  BY <1>2, Pieces
<1>6. FlattenSeq(g) \in Seq(0 .. 14)
  <2>1. Plain \subseteq 0 .. 14
    BY DEF Plain
  <2> QED
    <3> DEFINE t == FlattenSeq(g)
    <3>1. t \in Seq(Plain)
      BY <1>5
    <3> HIDE DEF t
    <3>2. t \in Seq(0 .. 14)
      BY <2>1, <3>1, SeqMonotonic
    <3> QED
      BY <3>2 DEF t
<1> QED
  BY <1>4, <1>6 DEF Off

(* The arguments a client has sent are where ArgAt says.                   *)
LEMMA ExpectedHolds ==
  ASSUME NEW cs \in Inputs
  PROVE  Expected(cs)
<1>1. cs \in Seq(Seq(0 .. 99)) /\ Len(cs) \in Nat /\ DOMAIN cs = 1 .. Len(cs)
      /\ \A k \in 1 .. Len(cs) : cs[k] \in Seq(0 .. 99) /\ Len(cs[k]) \in 0 .. 9
  BY CommandsAreSequences
<1> DEFINE before(k, i) ==
             Len(Encoding(SubSeq(cs, 1, k - 1)) \o Header(Star, Len(cs[k]))
                 \o FlattenSeq([j \in 1 .. i - 1 |-> Argument(cs[k][j])])
                 \o Header(Dollar, cs[k][i]))
<1>2. ArgumentsOf[cs] = [k \in 1 .. Len(cs) |->
                           [i \in DOMAIN cs[k] |-> <<before(k, i), cs[k][i]>>]]
  BY <1>1 DEF ArgumentsOf
<1>3. ASSUME NEW k \in 1 .. Len(cs), NEW i \in 1 .. Len(cs[k])
      PROVE  /\ before(k, i) = ArgAt(cs, k - 1, i - 1) + 3 + Width(cs[k][i])
             /\ before(k, i) \in Nat /\ cs[k][i] \in Nat
  <2> DEFINE x == Encoding(SubSeq(cs, 1, k - 1))
             h == Header(Star, Len(cs[k]))
             y == FlattenSeq([j \in 1 .. i - 1 |-> Argument(cs[k][j])])
             z == Header(Dollar, cs[k][i])
             xh == x \o h
             xhy == xh \o y
             all == xhy \o z
             S == 0 .. 14
             n == cs[k][i]
  <2>1. k - 1 \in 0 .. Len(cs) /\ (k - 1) + 1 = k /\ i - 1 \in 0 .. Len(cs[k])
    BY <1>1
  <2>2. x \in Seq(S) /\ Len(x) = Ends(cs, k - 1)
    BY <2>1, FrontOfStream
  <2>3. h \in Seq(S) /\ Len(h) = 4
    <3>1. Len(cs[k]) \in 0 .. 99 /\ Width(Len(cs[k])) = 1
      <4> DEFINE l == Len(cs[k])
      <4>1. l \in 0 .. 9
        BY <1>1
      <4> HIDE DEF l
      <4>2. l \in 0 .. 99 /\ Width(l) = 1
        BY <4>1 DEF Width
      <4> QED
        BY <4>2 DEF l
    <3>2. HeaderBytes(h, Star, Len(cs[k]))
      BY <3>1, HeaderFacts
    <3> QED
      BY <3>1, <3>2 DEF HeaderBytes
  <2>4. y \in Seq(S) /\ Len(y) = Off(Arguments(cs[k]), i - 1)
    BY <1>1, <2>1, FrontOfArguments
  <2>5. n \in 0 .. 99
    BY <1>1, ElementOfSeq
  <2>6. z \in Seq(S) /\ Len(z) = 3 + Width(n) /\ Width(n) \in {1, 2}
    <3>1. HeaderBytes(z, Dollar, n)
      BY <2>5, HeaderFacts
    <3> QED
      BY <2>5, <3>1, DigitFacts DEF HeaderBytes
  <2>7. before(k, i) = Len(all)
    OBVIOUS
  <2>8. ArgAt(cs, k - 1, i - 1) = Ends(cs, k - 1) + 4 + Off(Arguments(cs[k]), i - 1)
    BY <2>1 DEF ArgAt
  <2> HIDE DEF x, h, y, z, S, n, before
  <2>9. xh \in Seq(S) /\ Len(xh) = Len(x) + Len(h)
    BY <2>2, <2>3, ConcatProperties
  <2> HIDE DEF xh
  <2>10. xhy \in Seq(S) /\ Len(xhy) = Len(xh) + Len(y)
    BY <2>4, <2>9, ConcatProperties
  <2> HIDE DEF xhy
  <2>11. all \in Seq(S) /\ Len(all) = Len(xhy) + Len(z)
    BY <2>6, <2>10, ConcatProperties
  <2> HIDE DEF all
  <2>12. Len(x) \in Nat /\ Len(y) \in Nat /\ Len(all) \in Nat
    BY <2>2, <2>4, <2>11, LenProperties
  <2>13. Len(all) = ArgAt(cs, k - 1, i - 1) + 3 + Width(n)
    <3>1. Len(xh) = Len(x) + 4
      BY <2>3, <2>9
    <3>2. Len(xhy) = Len(x) + 4 + Len(y)
      BY <2>10, <3>1
    <3>3. Len(all) = (Len(x) + 4 + Len(y)) + (3 + Width(n))
      BY <2>6, <2>11, <3>2
    <3>4. ArgAt(cs, k - 1, i - 1) = Len(x) + 4 + Len(y)
      BY <2>2, <2>4, <2>8
    <3> QED
      BY <2>6, <2>12, <3>3, <3>4
  <2>14. n \in Nat
    BY <2>5
  <2> QED
    BY <2>7, <2>12, <2>13, <2>14 DEF n
<1> HIDE DEF before
<1>4. ASSUME NEW k \in 1 .. Len(cs)
      PROVE  /\ ArgumentsOf[cs][k] = [i \in 1 .. Len(cs[k]) |-> <<before(k, i), cs[k][i]>>]
             /\ ArgumentsOf[cs][k] \in Seq(Nat \X Nat)
             /\ Len(ArgumentsOf[cs][k]) = Len(cs[k])
  <2>1. cs[k] \in Seq(0 .. 99) /\ DOMAIN cs[k] = 1 .. Len(cs[k]) /\ Len(cs[k]) \in Nat
    BY <1>1, LenProperties
  <2>2. ArgumentsOf[cs][k] = [i \in 1 .. Len(cs[k]) |-> <<before(k, i), cs[k][i]>>]
    BY <1>2, <2>1
  <2>3. \A i \in 1 .. Len(cs[k]) : <<before(k, i), cs[k][i]>> \in Nat \X Nat
    BY <1>3
  <2> DEFINE b == [i \in 1 .. Len(cs[k]) |-> <<before(k, i), cs[k][i]>>]
  <2>4. b \in Seq(Nat \X Nat) /\ Len(b) = Len(cs[k])
    BY <2>1, <2>3
  <2> HIDE DEF b
  <2>5. ArgumentsOf[cs][k] = b
    BY <2>2 DEF b
  <2> QED
    BY <2>2, <2>4, <2>5
<1>5. ArgumentsOf[cs] \in Seq(Seq(Nat \X Nat)) /\ Len(ArgumentsOf[cs]) = Len(cs)
  <2> DEFINE b == ArgumentsOf[cs]
  <2>1. DOMAIN b = 1 .. Len(cs) /\ b = [k \in 1 .. Len(cs) |-> b[k]]
    BY <1>2
  <2>2. \A k \in 1 .. Len(cs) : b[k] \in Seq(Nat \X Nat)
    BY <1>4
  <2> HIDE DEF b
  <2> QED
    BY <1>1, <2>1, <2>2 DEF b
<1>6. ASSUME NEW k \in 0 .. Len(cs) - 1
      PROVE  /\ Len(ArgumentsOf[cs][k + 1]) = Len(cs[k + 1])
             /\ \A i \in 0 .. Len(cs[k + 1]) - 1 :
                  ArgumentsOf[cs][k + 1][i + 1] = Entry(cs, k, i)
  <2>1. k + 1 \in 1 .. Len(cs) /\ (k + 1) - 1 = k
    BY <1>1
  <2>2. ASSUME NEW i \in 0 .. Len(cs[k + 1]) - 1
        PROVE  ArgumentsOf[cs][k + 1][i + 1] = Entry(cs, k, i)
    <3>1. i + 1 \in 1 .. Len(cs[k + 1]) /\ (i + 1) - 1 = i
      BY <1>1, <2>1
    <3>2. ArgumentsOf[cs][k + 1][i + 1] = <<before(k + 1, i + 1), cs[k + 1][i + 1]>>
      BY <1>4, <2>1, <3>1
    <3>3. before(k + 1, i + 1)
            = ArgAt(cs, (k + 1) - 1, (i + 1) - 1) + 3 + Width(cs[k + 1][i + 1])
      BY <1>3, <2>1, <3>1
    <3> QED
      BY <2>1, <3>1, <3>2, <3>3 DEF Entry
  <2> QED
    BY <1>4, <2>1, <2>2
<1> QED
  BY <1>5, <1>6 DEF Expected

-----------------------------------------------------------------------------
(* strtol on a page.                                                       *)
Received ==
  /\ commands \in Inputs
  /\ arrived \in Nat /\ arrived <= Len(Stream)
  /\ base \in Nat /\ end \in Nat /\ base + end <= arrived

(* A byte on the page is a byte of the stream.                             *)
LEMMA ReceivedBytes ==
  ASSUME Received
  PROVE  /\ \A i \in Nat : Byte(i) \in 0 .. 15
         /\ \A i \in Nat : i < end => Byte(i) = Stream[base + i + 1]
         /\ \A i \in Nat : i < end => base + i + 1 \in 1 .. Len(Stream)
         /\ \A i \in Nat : i >= end => Byte(i) = Unread
         /\ \A i \in Nat : i < end => Byte(i) \in 0 .. 14
<1>1. Layout(commands)
  BY LayoutHolds DEF Received
<1>2. Stream \in Seq(0 .. 14) /\ Len(Stream) \in Nat
  BY <1>1, LenProperties DEF Layout, Stream
<1>3. ASSUME NEW i \in Nat, i < end
      PROVE  /\ base + i + 1 \in 1 .. Len(Stream)
             /\ Byte(i) = Stream[base + i + 1] /\ Byte(i) \in 0 .. 14
  <2>1. base + i + 1 \in 1 .. Len(Stream)
    BY <1>2, <1>3 DEF Received
  <2>2. Stream[base + i + 1] \in 0 .. 14
    BY <1>2, <2>1, ElementOfSeq
  <2> QED
    BY <1>3, <2>1, <2>2 DEF Byte
<1>4. ASSUME NEW i \in Nat, i >= end
      PROVE  Byte(i) = Unread
  BY <1>4 DEF Byte, Received
<1>5. ASSUME NEW i \in Nat PROVE Byte(i) \in 0 .. 15
  <2>1. i < end \/ i >= end
    BY DEF Received
  <2> QED
    BY <1>3, <1>4, <2>1 DEF Unread
<1> QED
  BY <1>3, <1>4, <1>5

(* The first offset where a condition holds.                               *)
LEMMA FirstOf ==
  ASSUME NEW S, NEW i \in Nat, NEW m \in Nat, i <= m, m \in S
  PROVE  \E j \in i .. m : (\A k \in i .. j - 1 : k \notin S) /\ j \in S
<1> DEFINE T == {j \in Nat : i <= j /\ j \in S}
<1>1. PICK j \in T : \A k \in T : j <= k
  <2>1. T \in SUBSET Nat /\ T # {}
    OBVIOUS
  <2> HIDE DEF T
  <2> QED
    BY <2>1, LeastNatural
<1>2. m \in T
  OBVIOUS
<1>3. j \in i .. m /\ j \in S
  BY <1>1, <1>2
<1>4. ASSUME NEW k \in i .. j - 1 PROVE k \notin S
  <2>1. k \in Nat /\ i <= k /\ ~(j <= k)
    BY <1>3
  <2> QED
    BY <1>1, <2>1
<1> QED
  BY <1>3, <1>4

IsFirstDigit(i, j) ==
  /\ j \in i .. end
  /\ \A k \in i .. j - 1 : Byte(k) \in {CR, LF}
  /\ Byte(j) \notin {CR, LF}

IsAfter(d, j) ==
  /\ j \in d .. end
  /\ \A k \in d .. j - 1 : Byte(k) <= 9
  /\ Byte(j) > 9

(* FirstDigit is the first place from i on that strtol does not skip, and  *)
(* is not beyond what was received.                                        *)
LEMMA FirstDigitIs ==
  ASSUME Received, NEW i \in 0 .. end
  PROVE  IsFirstDigit(i, FirstDigit(i))
<1> DEFINE S == {j \in Nat : Byte(j) \notin {CR, LF}}
<1>1. end \in Nat /\ i \in Nat /\ i <= end
  BY DEF Received
<1>2. end \in S
  BY <1>1, ReceivedBytes DEF Unread, CR, LF
<1>3. PICK j \in i .. end : (\A k \in i .. j - 1 : k \notin S) /\ j \in S
  <2> HIDE DEF S
  <2> QED
    BY <1>1, <1>2, FirstOf
<1>4. \E l \in i .. end : /\ \A k \in i .. l - 1 : Byte(k) \in {CR, LF}
                          /\ Byte(l) \notin {CR, LF}
  <2>1. \A k \in i .. j - 1 : Byte(k) \in {CR, LF}
    BY <1>1, <1>3
  <2>2. Byte(j) \notin {CR, LF}
    BY <1>3
  <2> QED
    BY <2>1, <2>2
<1> QED
  BY <1>4 DEF IsFirstDigit, FirstDigit

(* There is one such place.                                                *)
LEMMA FirstDigitUnique ==
  ASSUME Received, NEW i \in 0 .. end, NEW j, IsFirstDigit(i, j)
  PROVE  FirstDigit(i) = j
<1> DEFINE d == FirstDigit(i)
<1>1. IsFirstDigit(i, d)
  BY FirstDigitIs
<1>2. i \in Int /\ end \in Int
  BY DEF Received
<1> HIDE DEF d
<1>3. ~(d < j)
  <2> SUFFICES ASSUME d < j PROVE FALSE
    OBVIOUS
  <2>1. d \in i .. j - 1
    BY <1>1, <1>2 DEF IsFirstDigit
  <2> QED
    BY <1>1, <2>1 DEF IsFirstDigit
<1>4. ~(j < d)
  <2> SUFFICES ASSUME j < d PROVE FALSE
    OBVIOUS
  <2>1. j \in i .. d - 1
    BY <1>1, <1>2 DEF IsFirstDigit
  <2> QED
    BY <1>1, <2>1 DEF IsFirstDigit
<1>5. d \in Int /\ j \in Int
  BY <1>1, <1>2 DEF IsFirstDigit
<1>6. d = j
  BY <1>3, <1>4, <1>5
<1> QED
  BY <1>6 DEF d

(* The digits end somewhere.                                               *)
LEMMA AfterExists ==
  ASSUME Received, NEW d \in 0 .. end
  PROVE  \E j : IsAfter(d, j)
<1> DEFINE S == {j \in Nat : Byte(j) > 9}
<1>1. end \in Nat /\ d \in Nat /\ d <= end
  BY DEF Received
<1>2. end \in S
  BY <1>1, ReceivedBytes DEF Unread
<1>3. PICK j \in d .. end : (\A k \in d .. j - 1 : k \notin S) /\ j \in S
  <2> HIDE DEF S
  <2> QED
    BY <1>1, <1>2, FirstOf
<1>4. ASSUME NEW k \in d .. j - 1 PROVE Byte(k) <= 9
  <2>1. k \in Nat
    BY <1>1, <1>3
  <2>2. ~(Byte(k) > 9)
    BY <1>3, <2>1
  <2>3. Byte(k) \in 0 .. 15
    BY <2>1, ReceivedBytes
  <2> QED
    BY <2>2, <2>3
<1> QED
  BY <1>3, <1>4 DEF IsAfter

(* They end at one place.                                                  *)
LEMMA AfterUnique ==
  ASSUME Received, NEW d \in 0 .. end, NEW j, NEW l, IsAfter(d, j), IsAfter(d, l)
  PROVE  j = l
<1>1. d \in Int /\ end \in Int
  BY DEF Received
<1>2. j \in d .. end /\ l \in d .. end /\ j \in Nat /\ l \in Nat
  BY <1>1 DEF IsAfter
<1>3. ~(j < l)
  <2> SUFFICES ASSUME j < l PROVE FALSE
    OBVIOUS
  <2>1. j \in d .. l - 1
    BY <1>1, <1>2
  <2>2. Byte(j) <= 9 /\ Byte(j) > 9 /\ Byte(j) \in 0 .. 15
    BY <1>2, <2>1, ReceivedBytes DEF IsAfter
  <2> QED
    BY <2>2
<1>4. ~(l < j)
  <2> SUFFICES ASSUME l < j PROVE FALSE
    OBVIOUS
  <2>1. l \in d .. j - 1
    BY <1>1, <1>2
  <2>2. Byte(l) <= 9 /\ Byte(l) > 9 /\ Byte(l) \in 0 .. 15
    BY <1>2, <2>1, ReceivedBytes DEF IsAfter
  <2> QED
    BY <2>2
<1> QED
  BY <1>2, <1>3, <1>4

(* AfterDigits is that place.                                              *)
LEMMA AfterDigitsIs ==
  ASSUME Received, NEW i \in 0 .. end
  PROVE  \/ Byte(FirstDigit(i)) > 9 /\ AfterDigits(i) = i
         \/ IsAfter(FirstDigit(i), AfterDigits(i)) /\ AfterDigits(i) # FirstDigit(i)
<1> DEFINE d == FirstDigit(i)
<1>1. IsFirstDigit(i, d)
  BY FirstDigitIs
<1>2. d \in 0 .. end
  BY <1>1 DEF IsFirstDigit, Received
<1> HIDE DEF d
<1>3. CASE Byte(d) > 9
  BY <1>3 DEF AfterDigits, d
<1>4. CASE ~(Byte(d) > 9)
  <2>1. \E j : IsAfter(d, j)
    BY <1>2, AfterExists
  <2>2. AfterDigits(i) = CHOOSE j \in d .. end : /\ \A k \in d .. j - 1 : Byte(k) <= 9
                                                 /\ Byte(j) > 9
    BY <1>4 DEF AfterDigits, d
  <2>3. \E j \in d .. end : (\A k \in d .. j - 1 : Byte(k) <= 9) /\ Byte(j) > 9
    BY <2>1 DEF IsAfter
  <2>4. IsAfter(d, AfterDigits(i))
    BY <2>2, <2>3 DEF IsAfter
  <2>5. AfterDigits(i) # d
    BY <1>4, <2>4 DEF IsAfter
  <2> QED
    BY <2>4, <2>5 DEF d
<1> QED
  BY <1>3, <1>4 DEF d

(* It is not beyond what was received.                                     *)
LEMMA AfterDigitsType ==
  ASSUME Received, NEW i \in 0 .. end
  PROVE  AfterDigits(i) \in i .. end
<1>1. IsFirstDigit(i, FirstDigit(i))
  BY FirstDigitIs
<1>2. i \in Int /\ end \in Int /\ i <= end
  BY DEF Received
<1> QED
  BY <1>1, <1>2, AfterDigitsIs DEF IsFirstDigit, IsAfter

(* The value of the digits.                                                *)
IsValue(f, d) ==
  f = [k \in d .. end |-> IF k = d THEN Byte(k) ELSE 10 * f[k - 1] + Byte(k)]

(* There is a function that gives the value of the digits up to each       *)
(* place.                                                                  *)
LEMMA ValueExists ==
  ASSUME Received, NEW d \in 0 .. end
  PROVE  \E f : IsValue(f, d)
<1> DEFINE Step(f, k) == IF k = d THEN Byte(k) ELSE 10 * f[k - 1] + Byte(k)
           Part(m) == \E f : f = [k \in d .. d + m |-> Step(f, k)]
           S == {m \in Nat : Part(m)}
<1>0. d \in Nat /\ end \in Nat
  BY DEF Received
<1>1. Part(0)
  <2> DEFINE g == [k \in d .. d |-> Byte(d)]
  <2>1. \A k \in d .. d : k = d
    BY <1>0
  <2>2. g = [k \in d .. d |-> Step(g, k)]
    BY <2>1
  <2>3. d + 0 = d
    BY <1>0
  <2> HIDE DEF g, Step
  <2>4. \E f : f = [k \in d .. d |-> Step(f, k)]
    BY <2>2
  <2> QED
    BY <2>3, <2>4
<1>2. ASSUME NEW m \in Nat, Part(m) PROVE Part(m + 1)
  <2>1. PICK f : f = [k \in d .. d + m |-> Step(f, k)]
    BY <1>2
  <2> DEFINE n == d + (m + 1)
             g == [k \in d .. n |-> IF k <= d + m THEN f[k] ELSE Step(f, k)]
  <2>2. ASSUME NEW k \in d .. n PROVE g[k] = Step(g, k)
    <3>0. k \in Int /\ n = (d + m) + 1 /\ d + m \in Nat
      BY <1>0
    <3> DEFINE e == d + m
    <3>1. k # d => k - 1 \in d .. n /\ k - 1 <= e
      BY <1>0, <3>0
    <3>2. k # d => g[k - 1] = f[k - 1]
      BY <3>1
    <3>3. Step(g, k) = Step(f, k)
      <4> HIDE DEF g, n
      <4> QED
        BY <3>2
    <3>4. k <= e => f[k] = Step(f, k)
      <4> HIDE DEF Step
      <4>1. \A j \in d .. d + m : f[j] = Step(f, j)
        BY <2>1
      <4>2. k <= e => k \in d .. d + m
        BY <1>0, <3>0
      <4> QED
        BY <4>1, <4>2
    <3>5. g[k] = IF k <= e THEN f[k] ELSE Step(f, k)
      OBVIOUS
    <3> HIDE DEF e, g, Step, n
    <3> QED
      BY <3>3, <3>4, <3>5
  <2>3. g = [k \in d .. n |-> Step(g, k)]
    <3> HIDE DEF Step, n
    <3>1. g = [k \in d .. n |-> g[k]]
      OBVIOUS
    <3> HIDE DEF g
    <3> QED
      BY <2>2, <3>1
  <2> HIDE DEF g, Step
  <2> QED
    BY <2>3
<1> HIDE DEF Part
<1>3. 0 \in S /\ \A m \in Nat : m \in S => m + 1 \in S
  BY <1>1, <1>2
<1> HIDE DEF S
<1>4. Nat \subseteq S
  BY <1>3, Induction
<1>5. end - d \in Nat /\ d + (end - d) = end
  BY <1>0
<1>6. Part(end - d)
  BY <1>4, <1>5 DEF S
<1>7. \E f : f = [k \in d .. end |-> Step(f, k)]
  <2>1. \E f : f = [k \in d .. d + (end - d) |-> Step(f, k)]
    BY <1>6 DEF Part
  <2> HIDE DEF Step
  <2> QED
    BY <1>5, <2>1
<1> QED
  BY <1>7 DEF IsValue

(* Number is its value at the last digit.                                  *)
LEMMA ValueIs ==
  ASSUME Received, NEW d \in 0 .. end, NEW f, IsValue(f, d)
  PROVE  /\ f[d] = Byte(d)
         /\ \A k \in d + 1 .. end : f[k] = 10 * f[k - 1] + Byte(k)
         /\ \A k \in d .. end : f[k] \in Nat
<1> DEFINE Step(k) == IF k = d THEN Byte(k) ELSE 10 * f[k - 1] + Byte(k)
           Good(m) == d + m <= end => f[d + m] \in Nat
           S == {m \in Nat : Good(m)}
<1>0. d \in Nat /\ end \in Nat /\ d <= end
  BY DEF Received
<1>1. \A k \in d .. end : f[k] = Step(k)
  <2>1. f = [k \in d .. end |-> Step(k)]
    BY DEF IsValue
  <2> HIDE DEF Step
  <2> QED
    BY <2>1
<1>2. f[d] = Byte(d)
  BY <1>0, <1>1
<1>3. ASSUME NEW k \in d + 1 .. end PROVE f[k] = 10 * f[k - 1] + Byte(k)
  <2>1. k \in d .. end /\ k # d
    BY <1>0
  <2>2. f[k] = Step(k)
    BY <1>1, <2>1
  <2> QED
    BY <2>1, <2>2
<1>4. Good(0)
  <2>1. d + 0 = d
    BY <1>0
  <2>2. Byte(d) \in 0 .. 15
    BY <1>0, ReceivedBytes
  <2> QED
    BY <1>2, <2>1, <2>2
<1>5. ASSUME NEW m \in Nat, Good(m) PROVE Good(m + 1)
  <2> SUFFICES ASSUME d + (m + 1) <= end PROVE f[d + (m + 1)] \in Nat
    OBVIOUS
  <2>1. d + (m + 1) \in d + 1 .. end /\ (d + (m + 1)) - 1 = d + m /\ d + m <= end
    BY <1>0
  <2>2. f[d + (m + 1)] = 10 * f[d + m] + Byte(d + (m + 1))
    BY <1>3, <2>1
  <2>3. f[d + m] \in Nat
    BY <1>5, <2>1
  <2>4. Byte(d + (m + 1)) \in 0 .. 15
    BY <1>0, ReceivedBytes
  <2> QED
    BY <2>2, <2>3, <2>4
<1> HIDE DEF Good
<1>6. 0 \in S /\ \A m \in Nat : m \in S => m + 1 \in S
  BY <1>4, <1>5
<1> HIDE DEF S
<1>7. Nat \subseteq S
  BY <1>6, Induction
<1>8. ASSUME NEW k \in d .. end PROVE f[k] \in Nat
  <2>1. k - d \in Nat /\ d + (k - d) = k /\ k <= end
    BY <1>0
  <2>2. Good(k - d)
    BY <1>7, <2>1 DEF S
  <2> QED
    BY <2>1, <2>2 DEF Good
<1> QED
  BY <1>2, <1>3, <1>8

(* What it gives for the first digit, and for each digit more.             *)
LEMMA NumberIs ==
  ASSUME Received, NEW i \in 0 .. end
  PROVE  \E f : /\ IsValue(f, FirstDigit(i))
                /\ Number(i) = IF AfterDigits(i) = i THEN 0 ELSE f[AfterDigits(i) - 1]
<1> DEFINE d == FirstDigit(i)
           f == CHOOSE f : IsValue(f, d)
<1>1. d \in 0 .. end
  BY FirstDigitIs DEF IsFirstDigit, Received
<1>2. IsValue(f, d)
  <2> HIDE DEF d
  <2> QED
    BY <1>1, ValueExists
<1>3. Number(i) = IF AfterDigits(i) = i THEN 0 ELSE f[AfterDigits(i) - 1]
  BY DEF Number, IsValue
<1> HIDE DEF f
<1> QED
  BY <1>2, <1>3

(* A number is a natural.                                                  *)
LEMMA NumberType ==
  ASSUME Received, NEW i \in 0 .. end
  PROVE  Number(i) \in Nat
<1> DEFINE d == FirstDigit(i)
           a == AfterDigits(i)
<1>1. PICK f : IsValue(f, d) /\ Number(i) = IF a = i THEN 0 ELSE f[a - 1]
  BY NumberIs
<1>2. IsFirstDigit(i, d)
  BY FirstDigitIs
<1>3. d \in 0 .. end /\ d >= i
  BY <1>2 DEF IsFirstDigit, Received
<1>4. a = i \/ (IsAfter(d, a) /\ a # d)
  BY AfterDigitsIs
<1> HIDE DEF a, d
<1>5. CASE a = i
  BY <1>1, <1>5
<1>6. CASE a # i
  <2>1. a - 1 \in d .. end
    BY <1>3, <1>4, <1>6 DEF IsAfter, Received
  <2>2. f[a - 1] \in Nat
    BY <1>1, <1>3, <2>1, ValueIs
  <2> QED
    BY <1>1, <1>6, <2>2
<1> QED
  BY <1>5, <1>6

(* Without a digit, with one and with two.                                 *)
LEMMA NoDigit ==
  ASSUME Received, NEW i \in 0 .. end, Byte(i) > 9, Byte(i) \notin {CR, LF}
  PROVE  AfterDigits(i) = i /\ Number(i) = 0
<1>1. IsFirstDigit(i, i)
  <2>1. i \in i .. end /\ i .. i - 1 = {}
    BY DEF Received
  <2> QED
    BY <2>1 DEF IsFirstDigit
<1>2. FirstDigit(i) = i
  BY <1>1, FirstDigitUnique
<1>3. AfterDigits(i) = i
  BY <1>2 DEF AfterDigits
<1> QED
  BY <1>3 DEF Number

(* One digit or two, and then something else.                              *)
LEMMA SomeDigits ==
  ASSUME Received, NEW i \in 0 .. end, NEW m \in 1 .. 2, i + m <= end,
         Byte(i) <= 9, m = 2 => Byte(i + 1) <= 9, Byte(i + m) > 9
  PROVE  /\ AfterDigits(i) = i + m
         /\ Number(i) = IF m = 1 THEN Byte(i) ELSE 10 * Byte(i) + Byte(i + 1)
<1>0. i \in Nat /\ end \in Nat
  BY DEF Received
<1>1. IsFirstDigit(i, i)
  <2>1. i \in i .. end /\ i .. i - 1 = {}
    BY <1>0
  <2>2. Byte(i) \in 0 .. 15
    BY <1>0, ReceivedBytes
  <2>3. Byte(i) \notin {CR, LF}
    BY <2>2 DEF CR, LF
  <2> QED
    BY <2>1, <2>3 DEF IsFirstDigit
<1>2. FirstDigit(i) = i
  BY <1>1, FirstDigitUnique
<1>3. IsAfter(i, i + m)
  <2>1. i + m \in i .. end
    BY <1>0
  <2>2. \A k \in i .. i + m - 1 : k = i \/ (m = 2 /\ k = i + 1)
    BY <1>0
  <2> QED
    BY <2>1, <2>2 DEF IsAfter
<1>4. IsAfter(i, AfterDigits(i))
  <2>1. Byte(i) \in 0 .. 15
    BY <1>0, ReceivedBytes
  <2>2. ~(Byte(i) > 9)
    BY <2>1
  <2> QED
    BY <1>2, <2>2, AfterDigitsIs
<1>5. AfterDigits(i) = i + m
  BY <1>3, <1>4, AfterUnique
<1>6. PICK f : IsValue(f, i) /\ Number(i) = IF AfterDigits(i) = i THEN 0 ELSE f[AfterDigits(i) - 1]
  BY <1>2, NumberIs
<1>7. Number(i) = f[i + m - 1]
  BY <1>0, <1>5, <1>6
<1>8. f[i] = Byte(i) /\ \A k \in i + 1 .. end : f[k] = 10 * f[k - 1] + Byte(k)
  BY <1>6, ValueIs
<1>9. CASE m = 1
  <2>1. i + m - 1 = i
    BY <1>0, <1>9
  <2> QED
    BY <1>5, <1>7, <1>8, <1>9, <2>1
<1>10. CASE m = 2
  <2>1. i + m - 1 = i + 1 /\ i + 1 \in i + 1 .. end /\ (i + 1) - 1 = i
    BY <1>0, <1>10
  <2>2. f[i + 1] = 10 * f[i] + Byte(i + 1)
    BY <1>8, <2>1
  <2> QED
    BY <1>5, <1>7, <1>8, <1>10, <2>1, <2>2
<1> QED
  BY <1>9, <1>10

-----------------------------------------------------------------------------
(* What holds whatever bytes the parser reads, and where it is in the      *)
(* stream as long as no bytes were given up.                               *)
Labels == {"idle", "clean", "ary", "pre", "bs", "body", "fit", "big", "finish",
           "error", "closed"}
States == {"clean", "ary", "pre", "bs", "fit", "big"}
Places == Seq(Nat \X Nat)

Types ==
  /\ Received /\ gone \in BOOLEAN
  /\ pc \in Labels /\ state \in States
  /\ start \in Nat /\ length \in Nat /\ start <= end /\ end <= length
  /\ bsLength \in Nat /\ argc \in Nat /\ spoiled \in BOOLEAN
  /\ args \in Places /\ parsed \in Seq(Places)

Control ==
  /\ pc \in States => state = pc
  /\ pc = "body" => state = "bs"
  /\ pc = "finish" => state \in {"fit", "big"}
  /\ state = "clean" => start = 0 /\ length \in {0, PageSize}
  /\ state # "clean" /\ (state = "big" => pc = "finish") => length = PageSize
  /\ state = "ary" => start = 1 /\ args = <<>> /\ Stream[base + 1] = Star
  /\ state = "pre" => bsLength = 0
  /\ state \in {"pre", "bs"} => Len(args) < argc
  /\ state \in {"fit", "big"} /\ pc # "finish" => Len(args) < argc
  /\ Len(args) <= argc
  /\ state = "big" /\ pc # "finish" => start = 0 /\ length = bsLength + 2

Current == commands[Len(parsed) + 1]
Size == Current[Len(args) + 1]
Here == ArgAt(commands, Len(parsed), Len(args))
InBody == pc = "body" \/ (state \in {"fit", "big"} /\ pc # "finish")

Parsed ==
  /\ Len(parsed) <= Len(commands)
  /\ \A k \in 1 .. Len(parsed) : parsed[k] = ArgumentsOf[commands][k]

Taken ==
  /\ Len(parsed) < Len(commands)
  /\ argc = Len(Current)
  /\ \A i \in 1 .. Len(args) : args[i] = ArgumentsOf[commands][Len(parsed) + 1][i]

(* Before a length, or before its second digit, on a new page.             *)
AtLength ==
  \/ base + start = Here + 1 /\ bsLength = 0
  \/ /\ base + start = Here + 2 /\ bsLength = Size \div 10 /\ Size >= 10
     /\ start = 0 /\ length = PageSize

Placed ==
  /\ Parsed
  /\ state = "clean" => base + start = Ends(commands, Len(parsed))
  /\ state = "ary" => Len(parsed) < Len(commands) /\ base = Ends(commands, Len(parsed))
  /\ state \notin {"clean", "ary"} => Taken
  /\ state = "pre" => base + start = Here
  /\ state = "bs" /\ pc # "body" => AtLength
  /\ InBody => bsLength = Size /\ base + start = Here + 3 + Width(Size)
  /\ pc = "finish" => base + start = Here
  /\ pc = "error" => Len(parsed) < Len(commands) /\ Current = <<>>

ParserInv == Types /\ Control /\ (spoiled \/ Placed)

(* At the start nothing has been read.                                     *)
LEMMA InitParserInv ==
  ASSUME Init
  PROVE  ParserInv
<1>1. commands \in Inputs
  BY DEF Init
<1>2. Layout(commands) /\ Len(commands) \in Nat
  BY <1>1, LayoutHolds, CommandsAreSequences
<1>3. Len(Stream) \in Nat
  BY <1>2, LenProperties DEF Layout, Stream
<1>4. Types
  <2>1. args \in Places /\ parsed \in Seq(Places)
    BY DEF Init, Places
  <2> QED
    <3>1. Received
      BY <1>1, <1>3 DEF Init, Received
    <3>2. pc \in Labels /\ state \in States
      BY DEF Init, Labels, States
    <3>3. /\ start \in Nat /\ length \in Nat /\ start <= end /\ end <= length
          /\ bsLength \in Nat /\ argc \in Nat
      BY DEF Init
    <3>4. gone \in BOOLEAN /\ spoiled \in BOOLEAN
      BY DEF Init
    <3> QED
      BY <2>1, <3>1, <3>2, <3>3, <3>4 DEF Types
<1>5. Control
  BY DEF Init, Control, States
<1>6. Placed
  <2>1. Len(parsed) = 0
    BY DEF Init
  <2> QED
    BY <1>2, <2>1 DEF Init, Placed, Parsed, InBody, Layout
<1> QED
  BY <1>4, <1>5, <1>6 DEF ParserInv

(* recv into the page, and into a new one.                                 *)
LEMMA FillFacts ==
  ASSUME Types, NEW label, Fill(label), UNCHANGED network
  PROVE  /\ base' = base /\ start' = start /\ length' = length
         /\ Received' /\ end <= end' /\ end' <= length'
         /\ pc' \in {label, "idle", "closed"}
<1> DEFINE n == Incoming(base + end, length - end)
<1>1. n \in Nat /\ n <= arrived - (base + end) /\ n <= length - end
  BY DEF Types, Received, Incoming, Min2
<1>2. end' = end + n /\ UNCHANGED <<base, start, length>>
  BY DEF Fill
<1>3. pc' \in {label, "idle", "closed"}
  BY DEF Fill, Proceed
<1> HIDE DEF n
<1>4. end' \in Nat /\ end <= end' /\ end' <= length /\ base + end' <= arrived
  BY <1>1, <1>2 DEF Types, Received
<1>5. Received'
  BY <1>2, <1>4 DEF Types, Received, network, Stream
<1> QED
  BY <1>2, <1>3, <1>4, <1>5

LEMMA NewPageFacts ==
  ASSUME Types, NEW size \in Nat, NEW label, NewPage(size, label), UNCHANGED network
  PROVE  /\ base' = base + end /\ start' = 0 /\ length' = size
         /\ Received' /\ start' <= end' /\ end' <= length'
         /\ pc' \in {label, "idle", "closed"}
<1> DEFINE n == Incoming(base + end, size)
<1>1. n \in Nat /\ n <= arrived - (base + end) /\ n <= size
  BY DEF Types, Received, Incoming, Min2
<1>2. end' = n /\ base' = base + end /\ start' = 0 /\ length' = size
  BY DEF NewPage
<1>3. pc' \in {label, "idle", "closed"}
  BY DEF NewPage, Proceed
<1> HIDE DEF n
<1>4. end' \in Nat /\ base' \in Nat /\ end' <= size /\ base' + end' <= arrived
  BY <1>1, <1>2 DEF Types, Received
<1>5. Received'
  BY <1>2, <1>4 DEF Types, Received, network, Stream
<1> QED
  BY <1>1, <1>2, <1>3, <1>4, <1>5

(* The current argument.                                                   *)
LEMMA ArgumentHere ==
  ASSUME Types, Taken, Len(args) < argc
  PROVE  /\ ArgumentAt(commands, Len(parsed), Len(args))
         /\ Size \in 0 .. 99 /\ Width(Size) \in {1, 2} /\ Here \in Nat
         /\ (Width(Size) = 2 <=> Size >= 10)
         /\ Stream[Here + 1] = Dollar
         /\ Stream[Here + 2] = (IF Size < 10 THEN Size ELSE Size \div 10)
         /\ Size >= 10 => Stream[Here + 3] = Size % 10
         /\ Stream[Here + 2 + Width(Size)] = CR
         /\ Stream[Here + 3 + Width(Size)] = LF
         /\ Stream[Here + 4 + Width(Size) + Size] = CR
         /\ Stream[Here + 5 + Width(Size) + Size] = LF
         /\ ArgAt(commands, Len(parsed), Len(args) + 1) = Here + 5 + Width(Size) + Size
         /\ Here + 5 + Width(Size) + Size <= Len(Stream)
<1>1. commands \in Inputs
  BY DEF Types, Received
<1>2. Layout(commands)
  BY <1>1, LayoutHolds
<1>3. Len(parsed) \in Nat /\ Len(args) \in Nat
  BY LenProperties DEF Types, Places
<1>4. Len(parsed) \in 0 .. Len(commands) - 1 /\ Len(args) \in 0 .. Len(Current) - 1
  <2>1. Len(commands) \in Nat /\ argc \in Nat
    BY <1>1, CommandsAreSequences DEF Types
  <2> QED
    BY <1>3, <2>1 DEF Taken
<1>5. ArgumentAt(commands, Len(parsed), Len(args))
  BY <1>2, <1>4 DEF Layout, Current
<1> QED
  BY <1>5 DEF ArgumentAt, Here, Size, Current, Stream

(* The steps of the client: more bytes arrive; it hangs up.                *)
LEMMA DeliverStep ==
  ASSUME ParserInv, Deliver
  PROVE  ParserInv'
<1>1. UNCHANGED <<commands, gone, pc, state, base, start, end, length, bsLength, argc, args,
                  parsed, spoiled>>
  BY DEF Deliver, buffer, result
<1>2. arrived' \in Nat /\ arrived <= arrived' /\ arrived' <= Len(Stream)
  <2>1. PICK n \in arrived + 1 .. Len(Stream) : arrived' = n
    BY DEF Deliver
  <2>2. Len(Stream) \in Nat /\ arrived \in Nat
    <3>1. Layout(commands)
      BY LayoutHolds DEF ParserInv, Types, Received
    <3> QED
      BY <3>1, LenProperties DEF Layout, Stream, ParserInv, Types, Received
  <2> QED
    BY <2>1, <2>2
<1>3. Types'
  BY <1>1, <1>2 DEF ParserInv, Types, Received, Stream
<1>4. Control'
  BY <1>1 DEF ParserInv, Control, Stream
<1>5. Placed => Placed'
  BY <1>1 DEF Placed, Parsed, Taken, AtLength, InBody, Here, Size, Current
<1> QED
  BY <1>1, <1>3, <1>4, <1>5 DEF ParserInv

LEMMA HangUpStep ==
  ASSUME ParserInv, HangUp
  PROVE  ParserInv'
<1>1. UNCHANGED <<commands, arrived, pc, state, base, start, end, length, bsLength, argc, args,
                  parsed, spoiled>> /\ gone' = TRUE
  BY DEF HangUp, buffer, result
<1>2. Types'
  BY <1>1 DEF ParserInv, Types, Received, Stream
<1>3. Control'
  BY <1>1 DEF ParserInv, Control, Stream
<1>4. Placed => Placed'
  BY <1>1 DEF Placed, Parsed, Taken, AtLength, InBody, Here, Size, Current
<1> QED
  BY <1>1, <1>2, <1>3, <1>4 DEF ParserInv

(* The parser is called again where it has stopped.                        *)
LEMMA CallStep ==
  ASSUME ParserInv, Call
  PROVE  ParserInv'
<1>1. /\ UNCHANGED <<commands, arrived, gone, state, base, start, end, length, bsLength, argc,
                     args, parsed, spoiled>>
      /\ pc = "idle" /\ pc' = state
  BY DEF Call, network, buffer, result
<1>2. Types'
  BY <1>1 DEF ParserInv, Types, Received, Stream, States, Labels
<1>3. state \in States
  BY DEF ParserInv, Types
<1>4. Control'
  BY <1>1, <1>3 DEF ParserInv, Control, Stream, States
<1>5. Placed => Placed'
  BY <1>1, <1>3 DEF Placed, Parsed, Taken, AtLength, InBody, Here, Size, Current, States
<1> QED
  BY <1>1, <1>2, <1>4, <1>5 DEF ParserInv

(* The types of what the invariant counts with.                            *)
LEMMA InvFacts ==
  ASSUME Types
  PROVE  /\ commands \in Inputs /\ Layout(commands) /\ Expected(commands)
         /\ Len(commands) \in Nat /\ Len(parsed) \in Nat /\ Len(args) \in Nat
         /\ Len(Stream) \in Nat
         /\ \A k \in 1 .. Len(commands) :
              commands[k] \in Seq(0 .. 99) /\ Len(commands[k]) \in 0 .. 9
<1>1. commands \in Inputs
  BY DEF Types, Received
<1>2. Layout(commands) /\ Expected(commands)
  BY <1>1, LayoutHolds, ExpectedHolds
<1>3. Len(Stream) \in Nat
  BY <1>2, LenProperties DEF Layout, Stream
<1>4. Len(parsed) \in Nat /\ Len(args) \in Nat
  BY LenProperties DEF Types, Places
<1> QED
  BY <1>1, <1>2, <1>3, <1>4, CommandsAreSequences

(* Between two commands the next byte is a star.                           *)
LEMMA StartOfCommand ==
  ASSUME Types, Parsed, base + start = Ends(commands, Len(parsed)), start < end
  PROVE  Len(parsed) < Len(commands) /\ Byte(start) = Star
<1> DEFINE K == Len(parsed)
<1>1. Byte(start) = Stream[base + start + 1] /\ base + start + 1 \in 1 .. Len(Stream)
  BY ReceivedBytes DEF Types
<1>2. /\ Len(commands) \in Nat /\ K \in Nat /\ K <= Len(commands)
      /\ Ends(commands, Len(commands)) = Len(Stream)
      /\ \A k \in 0 .. Len(commands) - 1 : CommandAt(commands, k)
  BY InvFacts DEF Layout, Stream, Parsed
<1>3. K # Len(commands)
  <2> SUFFICES ASSUME K = Len(commands) PROVE FALSE
    OBVIOUS
  <2>1. base + start = Len(Stream)
    BY <1>2
  <2> QED
    BY <1>1, <2>1
<1>4. K \in 0 .. Len(commands) - 1
  BY <1>2, <1>3
<1>5. Stream[Ends(commands, K) + 1] = Star
  BY <1>2, <1>4 DEF CommandAt, Stream
<1> QED
  BY <1>1, <1>4, <1>5

(* A command begins.                                                       *)
LEMMA CleanStep ==
  ASSUME ParserInv, Clean
  PROVE  ParserInv'
<1>0. /\ Types /\ Control /\ pc = "clean" /\ state = "clean" /\ start = 0
      /\ length \in {0, PageSize}
  BY DEF ParserInv, Clean, Control, States
<1>1. /\ UNCHANGED <<commands, arrived, gone, bsLength, parsed, spoiled>>
      /\ argc' = 0 /\ args' = <<>>
  BY DEF Clean, NewResult, network
<1>2. UNCHANGED network
  BY DEF Clean
<1>3. args' \in Places /\ Len(args') = 0
  BY <1>1 DEF Places
<1>4. CASE /\ length = 0 \/ (length > 0 /\ start = end)
           /\ NewPage(PageSize, "clean") \/ Fill("clean")
           /\ state' = state
  <2>1. end = start
    BY <1>0, <1>4 DEF Types, Received
  <2>2. /\ Received' /\ start' = 0 /\ end' <= length' /\ start' <= end'
        /\ length' \in Nat /\ length' \in {0, PageSize} /\ base' = base
        /\ pc' \in {"clean", "idle", "closed"}
    <3>1. CASE NewPage(PageSize, "clean")
      <4>1. base + end = base
        BY <1>0, <2>1 DEF Types, Received
      <4> QED
        BY <1>0, <1>2, <3>1, <4>1, NewPageFacts, PageAssumption
    <3>2. CASE Fill("clean")
      <4>1. /\ base' = base /\ start' = start /\ length' = length /\ Received'
            /\ end <= end' /\ end' <= length' /\ pc' \in {"clean", "idle", "closed"}
        BY <1>0, <1>2, <3>2, FillFacts
      <4> QED
        BY <1>0, <2>1, <4>1 DEF Types
    <3> QED
      BY <1>4, <3>1, <3>2
  <2>3. Types'
    BY <1>0, <1>1, <1>3, <1>4, <2>2 DEF Types, Labels
  <2>4. Control'
    BY <1>0, <1>1, <1>3, <1>4, <2>2 DEF Control, States
  <2>5. Placed => Placed'
    <3> SUFFICES ASSUME Placed PROVE Placed'
      OBVIOUS
    <3>1. base' + start' = base + start
      BY <1>0, <2>2
    <3> QED
      BY <1>0, <1>1, <1>4, <2>2, <3>1 DEF Placed, Parsed, InBody
  <2> QED
    BY <1>1, <2>3, <2>4, <2>5 DEF ParserInv
<1>5. CASE /\ start < end /\ Byte(start) = Star
           /\ state' = "ary" /\ pc' = "ary" /\ start' = start + 1
           /\ UNCHANGED <<base, end, length>>
  <2>0. length' = PageSize
    BY <1>0, <1>5 DEF Types, Received
  <2>1. start' = 1 /\ 1 <= end /\ Stream[base + 1] = Star
    <3>1. Byte(start) = Stream[base + start + 1]
      BY <1>0, <1>5, ReceivedBytes DEF Types
    <3>2. base + start + 1 = base + 1
      BY <1>0 DEF Types, Received
    <3> QED
      BY <1>0, <1>5, <3>1, <3>2 DEF Types, Received
  <2>2. Types'
    BY <1>0, <1>1, <1>3, <1>5, <2>1 DEF Types, Received, Labels, States, Stream
  <2>3. Control'
    BY <1>0, <1>1, <1>3, <1>5, <2>0, <2>1 DEF Control, States, Stream
  <2>4. Placed => Placed'
    <3> SUFFICES ASSUME Placed PROVE Placed'
      OBVIOUS
    <3>1. base + start = Ends(commands, Len(parsed)) /\ Parsed
      BY <1>0 DEF Placed
    <3>2. Len(parsed) < Len(commands)
      BY <1>0, <1>5, <3>1, StartOfCommand
    <3>3. base = Ends(commands, Len(parsed))
      BY <1>0, <3>1 DEF Types, Received
    <3> QED
      BY <1>1, <1>5, <3>1, <3>2, <3>3 DEF Placed, Parsed, InBody
  <2> QED
    BY <1>1, <2>2, <2>3, <2>4 DEF ParserInv
<1>6. CASE /\ start < end /\ Byte(start) # Star
           /\ pc' = "error" /\ UNCHANGED <<state, start, base, end, length>>
  <2>1. Types'
    BY <1>0, <1>1, <1>3, <1>6 DEF Types, Received, Labels, Stream
  <2>2. Control'
    BY <1>0, <1>1, <1>3, <1>6 DEF Control, States, Stream
  <2>3. ~Placed
    BY <1>0, <1>6, StartOfCommand DEF Placed
  <2> QED
    BY <1>1, <2>1, <2>2, <2>3 DEF ParserInv
<1> QED
  BY <1>4, <1>5, <1>6 DEF Clean

(* The header of a command on the page.                                    *)
LEMMA HeaderRead ==
  ASSUME Types, start = 1, NEW k \in 0 .. Len(commands) - 1, base = Ends(commands, k)
  PROVE  /\ Len(commands[k + 1]) \in 0 .. 9
         /\ ArgAt(commands, k, 0) = base + 4
         /\ Terminated(2) => /\ AfterDigits(start) = 2 /\ LineEnds(start)
                             /\ Number(start) = Len(commands[k + 1])
                             /\ 4 < end
                             /\ Byte(4) = Dollar <=> Len(commands[k + 1]) # 0
         /\ ~Terminated(2) => end - start < MaxChars
<1> DEFINE n == Len(commands[k + 1])
<1>1. Received /\ base \in Nat /\ end \in Nat
  BY DEF Types, Received
<1>2. Layout(commands) /\ Len(commands) \in Nat /\ Len(Stream) \in Nat
  BY InvFacts
<1>3. /\ n \in 0 .. 9 /\ Stream[base + 2] = n /\ Stream[base + 3] = CR /\ Stream[base + 4] = LF
      /\ ArgAt(commands, k, 0) = base + 4 /\ ArgAt(commands, k, n) = Ends(commands, k + 1)
  BY <1>2 DEF Layout, CommandAt, Stream
<1> HIDE DEF n
<1>4. /\ 1 < end => Byte(1) = n
      /\ 2 < end => Byte(2) = CR
      /\ 3 < end => Byte(3) = LF
      /\ 4 < end => Byte(4) = Stream[base + 5]
  <2>1. base + 1 + 1 = base + 2 /\ base + 2 + 1 = base + 3 /\ base + 3 + 1 = base + 4
        /\ base + 4 + 1 = base + 5
    BY <1>1
  <2> QED
    BY <1>1, <1>3, <2>1, ReceivedBytes
<1>5. Terminated(2) => 4 < end
  <2> SUFFICES ASSUME Terminated(2) PROVE 4 < end
    OBVIOUS
  <2>1. PICK i \in 1 .. end - 2 - 1 : Byte(i) = CR
    BY DEF Terminated
  <2>2. i # 1
    <3>1. 1 < end
      BY <1>1, <2>1
    <3> QED
      BY <1>3, <1>4, <2>1, <3>1 DEF CR
  <2> QED
    BY <1>1, <2>1, <2>2
<1>6. 4 < end => Terminated(2)
  <2> SUFFICES ASSUME 4 < end PROVE Terminated(2)
    OBVIOUS
  <2>1. 2 \in 1 .. end - 2 - 1 /\ Byte(2) = CR
    BY <1>1, <1>4
  <2> QED
    BY <2>1 DEF Terminated
<1>7. ASSUME 4 < end PROVE AfterDigits(1) = 2 /\ LineEnds(1) /\ Number(1) = n
  <2>1. 1 \in 0 .. end /\ 1 \in 1 .. 2 /\ 1 + 1 <= end /\ 1 + 1 = 2
    BY <1>1, <1>7
  <2>2. Byte(1) = n /\ Byte(2) = CR /\ Byte(3) = LF
    BY <1>1, <1>4, <1>7
  <2>3. Byte(1) <= 9 /\ Byte(1 + 1) > 9
    BY <1>3, <2>1, <2>2 DEF CR
  <2>4. /\ AfterDigits(1) = 1 + 1
        /\ Number(1) = IF 1 = 1 THEN Byte(1) ELSE 10 * Byte(1) + Byte(1 + 1)
    BY <1>1, <2>1, <2>3, SomeDigits
  <2>5. AfterDigits(1) = 2 /\ Number(1) = n
    BY <2>1, <2>2, <2>4
  <2>6. 2 + 1 = 3
    OBVIOUS
  <2> QED
    BY <2>2, <2>5, <2>6 DEF LineEnds
<1>8. ASSUME 4 < end PROVE Byte(4) = Dollar <=> n # 0
  <2>1. Byte(4) = Stream[base + 5] /\ base + 5 <= Len(Stream)
    BY <1>1, <1>2, <1>4, <1>8 DEF Received
  <2>2. CASE n # 0
    <3>1. 0 \in 0 .. Len(commands[k + 1]) - 1
      BY <1>3, <2>2 DEF n
    <3>2. ArgumentAt(commands, k, 0)
      BY <1>2, <3>1 DEF Layout
    <3>3. Stream[base + 4 + 1] = Dollar
      BY <1>3, <3>2 DEF ArgumentAt, Stream
    <3>4. base + 4 + 1 = base + 5
      BY <1>1
    <3> QED
      BY <2>1, <2>2, <3>3, <3>4
  <2>3. CASE n = 0
    <3>1. Ends(commands, k + 1) = base + 4
      BY <1>3, <2>3
    <3>2. k + 1 # Len(commands)
      <4>1. Ends(commands, Len(commands)) = Len(Stream)
        BY <1>2 DEF Layout, Stream
      <4> QED
        BY <1>1, <1>2, <2>1, <3>1, <4>1
    <3>3. k + 1 \in 0 .. Len(commands) - 1
      BY <1>2, <3>2
    <3>4. CommandAt(commands, k + 1)
      BY <1>2, <3>3 DEF Layout
    <3>5. Stream[base + 4 + 1] = Star
      BY <3>1, <3>4 DEF CommandAt, Stream
    <3>6. base + 4 + 1 = base + 5
      BY <1>1
    <3> QED
      BY <2>1, <2>3, <3>5, <3>6 DEF Star, Dollar
  <2> QED
    BY <2>2, <2>3
<1>9. ~Terminated(2) => end - start < MaxChars
  BY <1>1, <1>6, PageAssumption
<1>10. Terminated(2) => /\ AfterDigits(start) = 2 /\ LineEnds(start) /\ Number(start) = n
                        /\ 4 < end /\ (Byte(4) = Dollar <=> n # 0)
  BY <1>5, <1>7, <1>8
<1> QED
  BY <1>3, <1>9, <1>10 DEF n

(* Behind a star is the header of some command, in step or not.            *)
LEMMA HeaderSomewhere ==
  ASSUME Types, Control, state = "ary"
  PROVE  \E k \in 0 .. Len(commands) - 1 : base = Ends(commands, k)
<1>1. start = 1 /\ Stream[base + 1] = Star /\ base \in Nat
  BY DEF Control, Types, Received
<1>2. Layout(commands) /\ Len(commands) \in Nat /\ Len(Stream) \in Nat
  BY InvFacts
<1>3. base + 1 \in 1 .. Len(Stream)
  BY <1>1, <1>2 DEF Types, Received
<1>4. PICK k \in 0 .. Len(commands) - 1 : base + 1 = Ends(commands, k) + 1
  BY <1>1, <1>2, <1>3 DEF Layout, Stream
<1>5. Ends(commands, k) \in Nat
  BY <1>2 DEF Layout, CommandAt
<1> QED
  BY <1>1, <1>4, <1>5

(* An action that fails, where the parser should not.                      *)
LEMMA FailStep ==
  ASSUME ParserInv, Fail, UNCHANGED <<network, parsed>>,
         Placed => Len(parsed) < Len(commands) /\ Current = <<>>,
         pc # "finish", state # "bs" \/ pc # "body"
  PROVE  ParserInv'
<1>1. /\ UNCHANGED <<commands, arrived, gone, state, base, start, end, length, bsLength, argc,
                     args, parsed, spoiled>>
      /\ pc' = "error"
  BY DEF Fail, network, buffer, result
<1>2. Types'
  BY <1>1 DEF ParserInv, Types, Received, Stream, Labels
<1>3. Control'
  BY <1>1 DEF ParserInv, Control, Stream, States
<1>4. Placed => Placed'
  <2> SUFFICES ASSUME Placed PROVE Placed'
    OBVIOUS
  <2>1. Parsed' /\ (state \notin {"clean", "ary"} => Taken')
    BY <1>1 DEF Placed, Parsed, Taken, Current
  <2>2. state = "bs" /\ pc # "body" => AtLength'
    BY <1>1 DEF Placed, AtLength, Here, Size, Current
  <2>3. InBody' => InBody
    BY <1>1 DEF InBody
  <2>4. InBody => (bsLength = Size /\ base + start = Here + 3 + Width(Size))'
    BY <1>1 DEF Placed, Here, Size, Current
  <2>5. state = "pre" => (base + start = Here)'
    BY <1>1 DEF Placed, Here
  <2>6. (Len(parsed) < Len(commands) /\ Current = <<>>)'
    BY <1>1 DEF Current
  <2> QED
    BY <1>1, <2>1, <2>2, <2>3, <2>4, <2>5, <2>6 DEF Placed
<1> QED
  BY <1>1, <1>2, <1>3, <1>4 DEF ParserInv

(* An action that only fills the page and may come back to its label.      *)
LEMMA FillStep ==
  ASSUME ParserInv, NEW label \in {"ary", "pre", "bs", "fit", "big"}, pc = label,
         Fill(label),
         UNCHANGED <<network, parsed, state, bsLength, argc, args, spoiled>>
  PROVE  ParserInv'
<1>0. Types /\ Control /\ state = pc /\ pc \in {"ary", "pre", "bs", "fit", "big"}
  BY DEF ParserInv, Control, States
<1>1. /\ base' = base /\ start' = start /\ length' = length
      /\ Received' /\ end <= end' /\ end' <= length' /\ pc' \in {pc, "idle", "closed"}
  BY <1>0, FillFacts
<1>2. /\ UNCHANGED <<commands, arrived, gone, state, bsLength, argc, args, parsed, spoiled>>
  BY DEF network
<1>3. start' <= end'
  BY <1>0, <1>1 DEF Types, Received
<1>4. pc' \in Labels
  BY <1>0, <1>1 DEF Labels
<1>5. Types'
  BY <1>0, <1>1, <1>2, <1>3, <1>4 DEF Types
<1>6. Control'
  BY <1>0, <1>1, <1>2 DEF Control, Stream, States
<1>7. Placed => Placed'
  <2> SUFFICES ASSUME Placed PROVE Placed'
    OBVIOUS
  <2>1. Parsed' /\ (state \notin {"clean", "ary"} => Taken')
    BY <1>2 DEF Placed, Parsed, Taken, Current
  <2>2. state = "bs" /\ pc # "body" => AtLength'
    BY <1>1, <1>2 DEF Placed, AtLength, Here, Size, Current
  <2>3. InBody' <=> InBody
    BY <1>0, <1>1, <1>2 DEF InBody
  <2>4. InBody => (bsLength = Size /\ base + start = Here + 3 + Width(Size))'
    BY <1>1, <1>2 DEF Placed, Here, Size, Current
  <2>5. state = "pre" => (base + start = Here)'
    BY <1>1, <1>2 DEF Placed, Here
  <2> QED
    BY <1>0, <1>1, <1>2, <2>1, <2>2, <2>3, <2>4, <2>5 DEF Placed
<1> QED
  BY <1>2, <1>5, <1>6, <1>7 DEF ParserInv

(* A sequence without members is the empty one.                            *)
LEMMA EmptyIs ==
  ASSUME NEW S, NEW s \in Seq(S), Len(s) = 0
  PROVE  s = <<>>
OBVIOUS

(* The number of arguments.                                                *)
LEMMA AryStep ==
  ASSUME ParserInv, AryStart
  PROVE  ParserInv'
<1>0. Types /\ Control /\ pc = "ary" /\ state = "ary" /\ start = 1 /\ args = <<>>
  BY DEF ParserInv, AryStart, Control, States
<1>10. length = PageSize
  BY <1>0 DEF Control
<1>1. UNCHANGED <<network, parsed>>
  BY DEF AryStart
<1>2. UNCHANGED <<commands, arrived, gone, parsed>>
  BY <1>1 DEF network
<1>3. PICK k \in 0 .. Len(commands) - 1 : base = Ends(commands, k)
  BY <1>0, HeaderSomewhere
<1>4. Received /\ base \in Nat /\ end \in Nat
  BY <1>0 DEF Types, Received
<1>5. CASE /\ Terminated(2) /\ LineEnds(start) /\ Byte(AfterDigits(start) + 2) = Dollar
           /\ argc' = Number(start) /\ start' = AfterDigits(start) + 2
           /\ NextString /\ UNCHANGED <<base, end, length, args, spoiled>>
  <2>1. /\ AfterDigits(start) = 2 /\ Number(start) = Len(commands[k + 1]) /\ 4 < end
        /\ (Byte(4) = Dollar <=> Len(commands[k + 1]) # 0)
    BY <1>0, <1>3, <1>5, HeaderRead
  <2>2. start' = 4 /\ argc' \in 0 .. 9 /\ argc' # 0
    <3>1. 2 + 2 = 4 /\ Len(commands[k + 1]) \in 0 .. 9
      BY <1>0, <1>3, HeaderRead
    <3> QED
      BY <1>5, <2>1, <3>1
  <2>3. /\ bsLength' = 0 /\ state' = "pre" /\ pc' = "pre"
        /\ UNCHANGED <<base, end, length, args, spoiled>>
    BY <1>5 DEF NextString
  <2>4. args' = <<>> /\ Len(args') = 0
    BY <1>0, <2>3
  <2>5. Types'
    BY <1>0, <1>2, <2>1, <2>2, <2>3 DEF Types, Received, Stream, Labels, States
  <2>6. Control'
    BY <1>10, <2>2, <2>3, <2>4 DEF Control, States
  <2>7. Placed => Placed'
    <3> SUFFICES ASSUME Placed PROVE Placed'
      OBVIOUS
    <3> DEFINE K == Len(parsed)
    <3>1. Parsed /\ K < Len(commands) /\ base = Ends(commands, K)
      BY <1>0 DEF Placed
    <3>2. K \in 0 .. Len(commands) - 1
      BY <1>0, <3>1, InvFacts
    <3>3. /\ AfterDigits(start) = 2 /\ Number(start) = Len(commands[K + 1])
          /\ ArgAt(commands, K, 0) = base + 4
      BY <1>0, <1>5, <3>1, <3>2, HeaderRead
    <3>4. Parsed'
      BY <1>2, <3>1 DEF Parsed
    <3>5. Taken'
      <4>1. argc' = Len(commands[K + 1])
        BY <1>5, <3>3
      <4> QED
        BY <1>2, <2>4, <3>1, <4>1 DEF Taken, Current
    <3>6. Here' = base + 4
      BY <1>2, <2>4, <3>3 DEF Here
    <3> QED
      BY <2>2, <2>3, <3>4, <3>5, <3>6 DEF Placed, InBody
  <2> QED
    BY <2>3, <2>5, <2>6, <2>7 DEF ParserInv
<1>6. CASE /\ Terminated(2) /\ ~(LineEnds(start) /\ Byte(AfterDigits(start) + 2) = Dollar)
           /\ Fail
  <2>1. Placed => Len(parsed) < Len(commands) /\ Current = <<>>
    <3> SUFFICES ASSUME Placed PROVE Len(parsed) < Len(commands) /\ Current = <<>>
      OBVIOUS
    <3> DEFINE K == Len(parsed)
    <3>1. K < Len(commands) /\ base = Ends(commands, K)
      BY <1>0 DEF Placed
    <3>2. K \in 0 .. Len(commands) - 1
      BY <1>0, <3>1, InvFacts
    <3>3. /\ AfterDigits(start) = 2 /\ LineEnds(start)
          /\ (Byte(4) = Dollar <=> Len(commands[K + 1]) # 0)
      BY <1>0, <1>6, <3>1, <3>2, HeaderRead
    <3>4. Len(commands[K + 1]) = 0
      <4>1. 2 + 2 = 4
        OBVIOUS
      <4> QED
        BY <1>6, <3>3, <4>1
    <3>5. commands[K + 1] \in Seq(0 .. 99)
      <4>1. K + 1 \in 1 .. Len(commands)
        BY <1>0, <3>2, InvFacts
      <4> QED
        BY <1>0, <4>1, InvFacts
    <3>6. commands[K + 1] = <<>>
      BY <3>4, <3>5, EmptyIs
    <3> QED
      BY <3>1, <3>6 DEF Current
  <2> QED
    BY <1>0, <1>1, <1>6, <2>1, FailStep
<1>7. ~(~Terminated(2) /\ end - start >= MaxChars)
  <2>1. ~Terminated(2) => end - start < MaxChars
    BY <1>0, <1>3, HeaderRead
  <2>2. end - start \in Int /\ MaxChars \in Int
    BY <1>0, <1>4, PageAssumption DEF Types
  <2> QED
    BY <2>1, <2>2
<1>8. CASE Fill("ary") /\ UNCHANGED <<state, bsLength, result, spoiled>>
  <2>1. UNCHANGED <<network, parsed, state, bsLength, argc, args, spoiled>>
    BY <1>1, <1>8 DEF result
  <2> QED
    BY <1>0, <1>8, <2>1, FillStep
<1> QED
  BY <1>5, <1>6, <1>7, <1>8 DEF AryStart

(* The dollar of an argument, and the page it is on.                       *)
LEMMA PreStep ==
  ASSUME ParserInv, BsStartPre
  PROVE  ParserInv'
<1>0. Types /\ Control /\ pc = "pre" /\ state = "pre" /\ Len(args) < argc
  BY DEF ParserInv, BsStartPre, Control, States
<1>1. UNCHANGED <<network, parsed>>
  BY DEF BsStartPre
<1>2. UNCHANGED <<commands, arrived, gone, parsed>>
  BY <1>1 DEF network
<1>3. Received /\ base \in Nat /\ end \in Nat /\ start \in Nat
  BY <1>0 DEF Types, Received
<1>4. CASE start < end /\ Byte(start) # Dollar /\ Fail
  <2>1. ~Placed
    <3> SUFFICES ASSUME Placed PROVE FALSE
      OBVIOUS
    <3>1. Taken /\ base + start = Here
      BY <1>0 DEF Placed
    <3>2. Stream[Here + 1] = Dollar
      BY <1>0, <3>1, ArgumentHere
    <3>3. Byte(start) = Stream[base + start + 1]
      BY <1>3, <1>4, ReceivedBytes
    <3> QED
      BY <1>4, <3>1, <3>2, <3>3
  <2> QED
    BY <1>0, <1>1, <1>4, <2>1, FailStep
<1>5. CASE /\ start < end /\ Byte(start) = Dollar
           /\ start' = start + 1 /\ state' = "bs" /\ pc' = "bs"
           /\ UNCHANGED <<base, end, length, bsLength, result, spoiled>>
  <2>1. UNCHANGED <<base, end, length, bsLength, argc, args, spoiled>>
    BY <1>5 DEF result
  <2>2. start' \in Nat /\ start' <= end
    BY <1>3, <1>5
  <2>3. Types'
    BY <1>0, <1>2, <1>5, <2>1, <2>2 DEF Types, Received, Stream, Labels, States
  <2>4. Control'
    BY <1>0, <1>5, <2>1 DEF Control, States
  <2>5. Placed => Placed'
    <3> SUFFICES ASSUME Placed PROVE Placed'
      OBVIOUS
    <3>1. Parsed /\ Taken /\ base + start = Here
      BY <1>0 DEF Placed
    <3>2. Parsed' /\ Taken' /\ Here' = Here
      BY <1>2, <2>1, <3>1 DEF Parsed, Taken, Here, Current
    <3>3. base' + start' = Here' + 1
      BY <1>3, <1>5, <2>1, <3>1, <3>2
    <3>4. AtLength'
      BY <1>0, <2>1, <3>3 DEF AtLength, Control
    <3> QED
      BY <1>5, <3>2, <3>4 DEF Placed, InBody
  <2> QED
    BY <2>1, <2>3, <2>4, <2>5 DEF ParserInv
<1>6. CASE Fill("pre") /\ UNCHANGED <<state, bsLength, result, spoiled>>
  <2>1. UNCHANGED <<network, parsed, state, bsLength, argc, args, spoiled>>
    BY <1>1, <1>6 DEF result
  <2> QED
    BY <1>0, <1>6, <2>1, FillStep
<1>7. CASE /\ start >= end /\ NewPage(PageSize, "pre")
           /\ UNCHANGED <<state, bsLength, result, spoiled>>
  <2>1. UNCHANGED <<state, bsLength, argc, args, spoiled>>
    BY <1>7 DEF result
  <2>2. /\ base' = base + end /\ start' = 0 /\ length' = PageSize
        /\ Received' /\ start' <= end' /\ end' <= length' /\ pc' \in {"pre", "idle", "closed"}
    BY <1>0, <1>1, <1>7, NewPageFacts, PageAssumption
  <2>3. base' + start' = base + start
    BY <1>0, <1>3, <1>7, <2>2 DEF Types
  <2>4. Types'
    BY <1>0, <1>2, <2>1, <2>2, PageAssumption DEF Types, Labels
  <2>5. Control'
    BY <1>0, <2>1, <2>2 DEF Control, States
  <2>6. Placed => Placed'
    <3> SUFFICES ASSUME Placed PROVE Placed'
      OBVIOUS
    <3>1. Parsed /\ Taken /\ base + start = Here
      BY <1>0 DEF Placed
    <3>2. Parsed' /\ Taken' /\ Here' = Here
      BY <1>2, <2>1, <3>1 DEF Parsed, Taken, Here, Current
    <3> QED
      BY <1>0, <2>1, <2>2, <2>3, <3>1, <3>2 DEF Placed, InBody
  <2> QED
    BY <2>1, <2>4, <2>5, <2>6 DEF ParserInv
<1> QED
  BY <1>4, <1>5, <1>6, <1>7 DEF BsStartPre

-----------------------------------------------------------------------------
(* The length of an argument on the page, of which `m` digits are left.    *)
Left(m) ==
  /\ m \in 1 .. Width(Size)
  /\ base + start + m = Here + 1 + Width(Size)
  /\ m = Width(Size) => bsLength = 0
  /\ m # Width(Size) => bsLength = Size \div 10 /\ start = 0 /\ length = PageSize

(* One digit of a length is left to be read, or two.                       *)
LEMMA DigitsLeft ==
  ASSUME Types, Taken, Len(args) < argc, AtLength
  PROVE  \E m : Left(m)
<1>1. Width(Size) \in {1, 2} /\ (Width(Size) = 2 <=> Size >= 10) /\ Here \in Nat
  BY ArgumentHere
<1>2. base \in Nat /\ start \in Nat
  BY DEF Types, Received
<1>3. CASE base + start = Here + 1 /\ bsLength = 0
  <2>1. Left(Width(Size))
    BY <1>1, <1>2, <1>3 DEF Left
  <2> QED
    BY <2>1
<1>4. CASE /\ base + start = Here + 2 /\ bsLength = Size \div 10 /\ Size >= 10
           /\ start = 0 /\ length = PageSize
  <2>1. Left(1)
    BY <1>1, <1>2, <1>4 DEF Left
  <2> QED
    BY <2>1
<1> QED
  BY <1>3, <1>4 DEF AtLength

(* The bytes of a length and its line, as far as they are on the page.     *)
LEMMA LengthBytes ==
  ASSUME Types, Taken, Len(args) < argc, NEW m, Left(m)
  PROVE  /\ m \in {1, 2} /\ Size \in 0 .. 99
         /\ start < end => Byte(start) = (IF m = Width(Size) /\ m = 2 THEN Size \div 10
                                          ELSE Size % 10)
         /\ m = 2 /\ start + 1 < end => Byte(start + 1) = Size % 10
         /\ start + m < end => Byte(start + m) = CR
         /\ start + m + 1 < end => Byte(start + m + 1) = LF
<1> DEFINE w == Width(Size)
           p == Here
           n == Size
<1>1. /\ w \in {1, 2} /\ (w = 2 <=> n >= 10) /\ p \in Nat /\ n \in 0 .. 99
      /\ Stream[p + 2] = (IF n < 10 THEN n ELSE n \div 10)
      /\ n >= 10 => Stream[p + 3] = n % 10
      /\ Stream[p + 2 + w] = CR
      /\ Stream[p + 3 + w] = LF
  BY ArgumentHere
<1>2. base \in Nat /\ start \in Nat /\ end \in Nat /\ Received
  BY DEF Types, Received
<1>3. m \in 1 .. w /\ base + start + m = p + 1 + w
  BY DEF Left
<1> HIDE DEF w, p, n
<1>4. m \in {1, 2} /\ m <= w
  BY <1>1, <1>3
<1>5. \A i \in Nat : start + i < end => Byte(start + i) = Stream[base + start + i + 1]
  <2> TAKE i \in Nat
  <2>1. start + i \in Nat /\ base + (start + i) + 1 = base + start + i + 1
    BY <1>2
  <2> QED
    BY <1>2, <2>1, ReceivedBytes
<1>6. start + m < end => Byte(start + m) = CR
  <2>1. base + start + m + 1 = p + 2 + w
    BY <1>1, <1>2, <1>3, <1>4
  <2> QED
    BY <1>1, <1>4, <1>5, <2>1
<1>7. start + m + 1 < end => Byte(start + m + 1) = LF
  <2>1. base + start + (m + 1) + 1 = p + 3 + w /\ start + (m + 1) = start + m + 1
    BY <1>1, <1>2, <1>3, <1>4
  <2>2. m + 1 \in Nat
    BY <1>4
  <2> QED
    BY <1>1, <1>5, <2>1, <2>2
<1>8. start < end => Byte(start) = Stream[base + start + 1]
  BY <1>2, ReceivedBytes
<1>9. start < end => Byte(start) = (IF m = w /\ m = 2 THEN n \div 10 ELSE n % 10)
  <2>1. CASE m = w /\ m = 2
    <3>1. base + start + 1 = p + 2
      BY <1>1, <1>2, <1>3, <2>1
    <3> QED
      BY <1>1, <1>8, <2>1, <3>1
  <2>2. CASE m = w /\ m = 1
    <3>1. base + start + 1 = p + 2 /\ n < 10
      BY <1>1, <1>2, <1>3, <2>2
    <3>2. n % 10 = n
      BY <1>1, <3>1
    <3> QED
      BY <1>1, <1>8, <2>2, <3>1, <3>2
  <2>3. CASE m # w
    <3>1. m = 1 /\ w = 2
      BY <1>1, <1>4, <2>3
    <3>2. base + start + 1 = p + 3 /\ n >= 10
      BY <1>1, <1>2, <1>3, <3>1
    <3> QED
      BY <1>1, <1>8, <2>3, <3>2
  <2> QED
    BY <1>4, <2>1, <2>2, <2>3
<1>10. m = 2 /\ start + 1 < end => Byte(start + 1) = n % 10
  <2> SUFFICES ASSUME m = 2, start + 1 < end PROVE Byte(start + 1) = n % 10
    OBVIOUS
  <2>1. w = 2
    BY <1>1, <1>4
  <2>2. base + start + 1 + 1 = p + 3
    BY <1>1, <1>2, <1>3, <2>1
  <2>3. Byte(start + 1) = Stream[base + start + 1 + 1]
    BY <1>5
  <2> QED
    BY <1>1, <2>1, <2>2, <2>3
<1> QED
  BY <1>1, <1>4, <1>6, <1>7, <1>9, <1>10 DEF w, n

(* The whole line is there, or it is short.                                *)
LEMMA LengthTerminated ==
  ASSUME Types, Taken, Len(args) < argc, NEW m, Left(m)
  PROVE  /\ Terminated(1) <=> start + m + 1 < end
         /\ ~Terminated(1) => end - start < MaxChars
<1>1. /\ m \in {1, 2} /\ Size \in 0 .. 99
      /\ start < end => Byte(start) = (IF m = Width(Size) /\ m = 2 THEN Size \div 10
                                       ELSE Size % 10)
      /\ m = 2 /\ start + 1 < end => Byte(start + 1) = Size % 10
      /\ start + m < end => Byte(start + m) = CR
  BY LengthBytes
<1>2. start \in Nat /\ end \in Nat
  BY DEF Types, Received
<1>3. Size \div 10 \in 0 .. 9 /\ Size % 10 \in 0 .. 9
  BY <1>1, DigitFacts
<1>4. ASSUME Terminated(1) PROVE start + m + 1 < end
  <2>1. PICK i \in start .. end - 1 - 1 : Byte(i) = CR
    BY <1>4 DEF Terminated
  <2>2. start < end
    BY <1>2, <2>1
  <2>3. i # start
    BY <1>1, <1>3, <2>1, <2>2 DEF CR
  <2>4. start + 1 < end
    BY <1>2, <2>1, <2>3
  <2>5. m = 2 => i # start + 1
    BY <1>1, <1>3, <2>1, <2>4 DEF CR
  <2> QED
    BY <1>1, <1>2, <2>1, <2>3, <2>5
<1>5. ASSUME start + m + 1 < end PROVE Terminated(1)
  <2>1. start + m \in start .. end - 1 - 1 /\ start + m < end
    BY <1>1, <1>2, <1>5
  <2> QED
    BY <1>1, <2>1 DEF Terminated
<1>6. ~Terminated(1) => end - start < MaxChars
  <2>1. ~(start + m + 1 < end) => end - start < 4
    BY <1>1, <1>2
  <2> QED
    BY <1>2, <1>5, <2>1, PageAssumption
<1> QED
  BY <1>4, <1>5, <1>6

(* A line that is there is read as the length of the argument.             *)
LEMMA LengthRead ==
  ASSUME Types, Taken, Len(args) < argc, NEW m, Left(m), start + m + 1 < end
  PROVE  /\ LineEnds(start) /\ WholeLength(start) = Size
         /\ AfterDigits(start) = start + m
         /\ base + (AfterDigits(start) + 2) = Here + 3 + Width(Size)
<1> DEFINE w == Width(Size)
           n == Size
           q == n \div 10
           r == n % 10
<1>0. Received /\ start \in Nat /\ end \in Nat /\ base \in Nat
  BY DEF Types, Received
<1>1. /\ m \in {1, 2} /\ n \in 0 .. 99
      /\ start < end => Byte(start) = (IF m = w /\ m = 2 THEN q ELSE r)
      /\ m = 2 /\ start + 1 < end => Byte(start + 1) = r
      /\ start + m < end => Byte(start + m) = CR
      /\ start + m + 1 < end => Byte(start + m + 1) = LF
  BY LengthBytes
<1>2. w \in {1, 2} /\ (w = 2 <=> n >= 10) /\ Here \in Nat
  BY ArgumentHere
<1>3. q \in 0 .. 9 /\ r \in 0 .. 9 /\ n = 10 * q + r
  BY <1>1, DigitFacts
<1>4. /\ m \in 1 .. w /\ base + start + m = Here + 1 + w
      /\ m = w => bsLength = 0
      /\ m # w => bsLength = q
  BY DEF Left
<1> HIDE DEF w, n, q, r
<1>5. start < end /\ start + m < end /\ (m = 2 => start + 1 < end)
  BY <1>0, <1>1
<1>6. /\ Byte(start) = (IF m = w /\ m = 2 THEN q ELSE r)
      /\ m = 2 => Byte(start + 1) = r
      /\ Byte(start + m) = CR /\ Byte(start + m + 1) = LF
  BY <1>1, <1>5
<1>7. /\ AfterDigits(start) = start + m
      /\ Number(start) = IF m = 1 THEN Byte(start) ELSE 10 * Byte(start) + Byte(start + 1)
  <2>1. start \in 0 .. end /\ m \in 1 .. 2 /\ start + m <= end
    BY <1>0, <1>1, <1>5
  <2>2. Byte(start) <= 9 /\ (m = 2 => Byte(start + 1) <= 9) /\ Byte(start + m) > 9
    BY <1>3, <1>6 DEF CR
  <2> QED
    BY <1>0, <2>1, <2>2, SomeDigits
<1>8. LineEnds(start)
  BY <1>6, <1>7 DEF LineEnds
<1>9. WholeLength(start) = n
  <2>0. AfterDigits(start) - start = m
    BY <1>0, <1>1, <1>7
  <2>1. WholeLength(start) = bsLength * (10 * m) + Number(start)
    BY <2>0 DEF WholeLength
  <2>2. CASE m = 2
    <3>1. w = 2 /\ bsLength = 0
      BY <1>2, <1>4, <2>2
    <3>2. Number(start) = 10 * q + r
      BY <1>6, <1>7, <2>2, <3>1
    <3> QED
      BY <1>3, <2>1, <2>2, <3>1, <3>2
  <2>3. CASE m = 1 /\ w = 1
    <3>1. bsLength = 0 /\ Number(start) = r
      BY <1>4, <1>6, <1>7, <2>3
    <3>2. n < 10
      BY <1>1, <1>2, <2>3
    <3>3. q = 0
      BY <1>1, <1>3, <3>2
    <3> QED
      BY <1>3, <2>1, <2>3, <3>1, <3>3
  <2>4. CASE m = 1 /\ w = 2
    <3>1. bsLength = q /\ Number(start) = r
      BY <1>4, <1>6, <1>7, <2>4
    <3> QED
      BY <1>3, <2>1, <2>4, <3>1
  <2> QED
    BY <1>1, <1>2, <2>2, <2>3, <2>4
<1>10. base + (AfterDigits(start) + 2) = Here + 3 + w
  BY <1>0, <1>1, <1>2, <1>4, <1>7
<1> QED
  BY <1>7, <1>8, <1>9, <1>10 DEF w, n

(* The page ends inside the line, just before the last digit if it was     *)
(* begun at all.                                                           *)
LEMMA LengthSplit ==
  ASSUME Types, Taken, Len(args) < argc, NEW m, Left(m), ~(start + m + 1 < end), end = length,
         ~BadSplit
  PROVE  \/ base + end = Here + 1 /\ Number(start) = 0
         \/ base + end = Here + 2 /\ Number(start) = Size \div 10 /\ Size >= 10
<1> DEFINE w == Width(Size)
           n == Size
           p == Here
<1>0. Received /\ start \in Nat /\ end \in Nat /\ base \in Nat /\ start <= end
  BY DEF Types, Received
<1>1. /\ m \in {1, 2} /\ n \in 0 .. 99
      /\ start < end => Byte(start) = (IF m = w /\ m = 2 THEN n \div 10 ELSE n % 10)
  BY LengthBytes
<1>2. /\ w \in {1, 2} /\ (w = 2 <=> n >= 10) /\ p \in Nat
      /\ Stream[p + 2 + w] = CR /\ Stream[p + 3 + w] = LF
  BY ArgumentHere
<1>3. n \div 10 \in 0 .. 9
  BY <1>1, DigitFacts
<1>4. /\ m \in 1 .. w /\ base + start + m = p + 1 + w
      /\ m # w => start = 0 /\ length = PageSize
  BY DEF Left
<1> HIDE DEF w, n, p
<1>5. m = w
  <2> SUFFICES ASSUME m # w PROVE FALSE
    OBVIOUS
  <2>1. end > 4
    BY <1>4, PageAssumption
  <2> QED
    BY <1>0, <1>1, <1>4, <2>1
<1>6. base + start = p + 1
  BY <1>0, <1>1, <1>2, <1>4, <1>5
<1>7. CASE start = end
  <2>1. Byte(start) = Unread
    BY <1>0, <1>7, ReceivedBytes
  <2>2. Byte(start) > 9 /\ Byte(start) \notin {CR, LF} /\ start \in 0 .. end
    BY <1>0, <2>1 DEF Unread, CR, LF
  <2>3. Number(start) = 0
    BY <1>0, <2>2, NoDigit
  <2> QED
    BY <1>6, <1>7, <2>3 DEF p
<1>8. CASE start # end
  <2>1. start < end /\ Stream[base + end + 1] <= 9 /\ Stream[base + end + 2] = CR
    BY <1>0, <1>8 DEF BadSplit
  <2>2. end # start + w
    <3> SUFFICES ASSUME end = start + w PROVE FALSE
      OBVIOUS
    <3>1. base + end + 1 = p + 2 + w
      BY <1>0, <1>2, <1>6
    <3> QED
      BY <1>2, <2>1, <3>1 DEF CR
  <2>3. end # start + w + 1
    <3> SUFFICES ASSUME end = start + w + 1 PROVE FALSE
      OBVIOUS
    <3>1. base + end + 1 = p + 3 + w
      BY <1>0, <1>2, <1>6
    <3> QED
      BY <1>2, <2>1, <3>1 DEF LF
  <2>4. w = 2 /\ end = start + 1
    BY <1>0, <1>1, <1>2, <1>5, <2>1, <2>2, <2>3
  <2>5. base + end = p + 2 /\ n >= 10
    BY <1>0, <1>2, <1>6, <2>4
  <2>6. Byte(start) = n \div 10
    BY <1>1, <1>5, <2>1, <2>4
  <2>7. Byte(start + 1) = Unread
    BY <1>0, <2>4, ReceivedBytes
  <2>8. /\ start \in 0 .. end /\ 1 \in 1 .. 2 /\ start + 1 <= end
        /\ Byte(start) <= 9 /\ Byte(start + 1) > 9
    BY <1>0, <1>3, <2>4, <2>6, <2>7 DEF Unread
  <2>9. Number(start) = IF 1 = 1 THEN Byte(start) ELSE 10 * Byte(start) + Byte(start + 1)
    BY <1>0, <2>8, SomeDigits
  <2> QED
    BY <2>5, <2>6, <2>9 DEF p, n
<1> QED
  BY <1>7, <1>8

(* The length of an argument, whole or cut by the end of the page.         *)
LEMMA BsStep ==
  ASSUME ParserInv, BsStart
  PROVE  ParserInv'
<1>0. Types /\ Control /\ pc = "bs" /\ state = "bs" /\ Len(args) < argc
  BY DEF ParserInv, BsStart, Control, States
<1>1. UNCHANGED <<network, parsed>> /\ state' = state
  BY DEF BsStart
<1>2. UNCHANGED <<commands, arrived, gone, parsed>>
  BY <1>1 DEF network
<1>3. Received /\ base \in Nat /\ end \in Nat /\ start \in Nat /\ start <= end
  BY <1>0 DEF Types, Received
<1>4. ASSUME Placed
      PROVE  /\ Parsed /\ Taken
             /\ \E m : Left(m)
  BY <1>0, <1>4, DigitsLeft DEF Placed
<1>5. CASE /\ Terminated(1) /\ LineEnds(start)
           /\ bsLength' = WholeLength(start)
           /\ start' = AfterDigits(start) + 2 /\ pc' = "body"
           /\ UNCHANGED <<base, end, length, result, spoiled>>
  <2>1. UNCHANGED <<base, end, length, argc, args, spoiled>>
    BY <1>5 DEF result
  <2>2. AfterDigits(start) \in start .. end /\ Number(start) \in Nat
    <3>1. start \in 0 .. end
      BY <1>3
    <3> QED
      BY <1>3, <3>1, AfterDigitsType, NumberType
  <2>3. start' \in Nat /\ start' <= end
    <3>1. Byte(AfterDigits(start) + 1) = LF
      BY <1>5 DEF LineEnds
    <3>2. ~(AfterDigits(start) + 1 >= end)
      BY <1>3, <2>2, <3>1, ReceivedBytes DEF LF, Unread
    <3> QED
      BY <1>3, <1>5, <2>2, <3>2
  <2>4. bsLength' \in Nat
    <3> DEFINE d == 10 * (AfterDigits(start) - start)
    <3>1. d \in Nat /\ bsLength \in Nat
      BY <1>0, <1>3, <2>2 DEF Types
    <3>2. bsLength' = bsLength * d + Number(start)
      BY <1>5 DEF WholeLength
    <3> HIDE DEF d
    <3>3. bsLength * d \in Nat
      BY <3>1
    <3> QED
      BY <2>2, <3>2, <3>3
  <2>5. Types'
    BY <1>0, <1>1, <1>2, <1>5, <2>1, <2>3, <2>4 DEF Types, Received, Stream, Labels
  <2>6. Control'
    BY <1>0, <1>1, <1>5, <2>1 DEF Control, States
  <2>7. Placed => Placed'
    <3> SUFFICES ASSUME Placed PROVE Placed'
      OBVIOUS
    <3>1. Parsed /\ Taken
      BY <1>4
    <3>2. PICK m : Left(m)
      BY <1>4
    <3>3. start + m + 1 < end
      BY <1>0, <1>5, <3>1, <3>2, LengthTerminated
    <3>4. WholeLength(start) = Size /\ base + (AfterDigits(start) + 2) = Here + 3 + Width(Size)
      BY <1>0, <3>1, <3>2, <3>3, LengthRead
    <3>5. Parsed' /\ Taken' /\ Here' = Here /\ Size' = Size
      BY <1>2, <2>1, <3>1 DEF Parsed, Taken, Here, Size, Current
    <3>6. bsLength' = Size' /\ base' + start' = Here' + 3 + Width(Size')
      BY <1>5, <2>1, <3>4, <3>5
    <3> QED
      BY <1>0, <1>1, <1>5, <3>5, <3>6 DEF Placed
  <2> QED
    BY <2>1, <2>5, <2>6, <2>7 DEF ParserInv
<1>6. CASE Terminated(1) /\ ~LineEnds(start) /\ Fail
  <2>1. ~Placed
    <3> SUFFICES ASSUME Placed PROVE FALSE
      OBVIOUS
    <3>1. Parsed /\ Taken
      BY <1>4
    <3>2. PICK m : Left(m)
      BY <1>4
    <3>3. start + m + 1 < end
      BY <1>0, <1>6, <3>1, <3>2, LengthTerminated
    <3> QED
      BY <1>0, <1>6, <3>1, <3>2, <3>3, LengthRead
  <2> QED
    BY <1>0, <1>1, <1>6, <2>1, FailStep
<1>7. CASE ~Terminated(1) /\ end - start >= MaxChars /\ Fail
  <2>1. ~Placed
    <3> SUFFICES ASSUME Placed PROVE FALSE
      OBVIOUS
    <3>1. Parsed /\ Taken
      BY <1>4
    <3>2. PICK m : Left(m)
      BY <1>4
    <3>3. end - start < MaxChars
      BY <1>0, <1>7, <3>1, <3>2, LengthTerminated
    <3> QED
      BY <1>3, <1>7, <3>3, PageAssumption
  <2> QED
    BY <1>0, <1>1, <1>7, <2>1, FailStep
<1>8. CASE Fill("bs") /\ UNCHANGED <<bsLength, result, spoiled>>
  <2>1. UNCHANGED <<network, parsed, state, bsLength, argc, args, spoiled>>
    BY <1>1, <1>8 DEF result
  <2> QED
    BY <1>0, <1>8, <2>1, FillStep
<1>9. CASE /\ ~Terminated(1) /\ end = length
           /\ bsLength' = Number(start) /\ spoiled' = (spoiled \/ BadSplit)
           /\ NewPage(PageSize, "bs") /\ UNCHANGED <<argc, args>>
  <2>1. /\ base' = base + end /\ start' = 0 /\ length' = PageSize
        /\ Received' /\ start' <= end' /\ end' <= length' /\ pc' \in {"bs", "idle", "closed"}
    BY <1>0, <1>1, <1>9, NewPageFacts, PageAssumption
  <2>2. bsLength' \in Nat
    <3>1. start \in 0 .. end
      BY <1>3
    <3> QED
      BY <1>3, <1>9, <3>1, NumberType
  <2>3. spoiled' \in BOOLEAN
    BY <1>9
  <2>4. Types'
    BY <1>0, <1>1, <1>2, <1>9, <2>1, <2>2, <2>3, PageAssumption DEF Types, Labels
  <2>5. Control'
    BY <1>0, <1>1, <1>9, <2>1 DEF Control, States
  <2>6. Placed /\ ~BadSplit => Placed'
    <3> SUFFICES ASSUME Placed, ~BadSplit PROVE Placed'
      OBVIOUS
    <3>1. Parsed /\ Taken
      BY <1>4
    <3>2. PICK m : Left(m)
      BY <1>4
    <3>3. ~(start + m + 1 < end)
      BY <1>0, <1>9, <3>1, <3>2, LengthTerminated
    <3>4. \/ base + end = Here + 1 /\ Number(start) = 0
          \/ base + end = Here + 2 /\ Number(start) = Size \div 10 /\ Size >= 10
      BY <1>0, <1>9, <3>1, <3>2, <3>3, LengthSplit
    <3>5. Parsed' /\ Taken' /\ Here' = Here /\ Size' = Size
      BY <1>2, <1>9, <3>1 DEF Parsed, Taken, Here, Size, Current
    <3>6. base' + start' = base + end
      BY <1>3, <2>1
    <3>7. AtLength'
      BY <1>9, <2>1, <3>4, <3>5, <3>6 DEF AtLength
    <3> QED
      BY <1>0, <1>1, <2>1, <3>5, <3>7 DEF Placed, InBody
  <2>7. spoiled \/ Placed
    BY DEF ParserInv
  <2>8. spoiled' \/ Placed'
    BY <1>9, <2>6, <2>7
  <2> QED
    BY <2>4, <2>5, <2>8 DEF ParserInv
<1> QED
  BY <1>5, <1>6, <1>7, <1>8, <1>9 DEF BsStart

(* The rest of the argument fits into the page or gets one of its own.     *)
LEMMA BodyStep ==
  ASSUME ParserInv, Body
  PROVE  ParserInv'
<1>0. Types /\ Control /\ pc = "body" /\ state = "bs" /\ Len(args) < argc /\ length = PageSize
  BY DEF ParserInv, Body, Control
<1>1. UNCHANGED <<network, parsed, bsLength, argc, args>>
  BY DEF Body
<1>2. UNCHANGED <<commands, arrived, gone, parsed, bsLength, argc, args>>
  BY <1>1 DEF network
<1>3. Received /\ base \in Nat /\ end \in Nat /\ start \in Nat /\ start <= end /\ bsLength \in Nat
  BY <1>0 DEF Types, Received
<1>4. ASSUME Placed
      PROVE  /\ Parsed' /\ Taken' /\ Here' = Here /\ Size' = Size
             /\ bsLength' = Size' /\ base + start = Here' + 3 + Width(Size')
  <2>1. Parsed /\ Taken /\ bsLength = Size /\ base + start = Here + 3 + Width(Size)
    BY <1>0, <1>4 DEF Placed, InBody
  <2> QED
    BY <1>2, <2>1 DEF Parsed, Taken, Here, Size, Current
<1>5. CASE state' = "fit" /\ pc' = "fit" /\ UNCHANGED <<buffer, spoiled>>
  <2>1. UNCHANGED <<base, start, end, length, spoiled>>
    BY <1>5 DEF buffer
  <2>2. Types'
    BY <1>0, <1>2, <1>5, <2>1 DEF Types, Received, Stream, Labels, States
  <2>3. Control'
    BY <1>0, <1>2, <1>5, <2>1 DEF Control, States
  <2>4. Placed => Placed'
    BY <1>4, <1>5, <2>1 DEF Placed
  <2> QED
    BY <2>1, <2>2, <2>3, <2>4 DEF ParserInv
<1>6. CASE /\ state' = "big" /\ spoiled' = (spoiled \/ start < end)
           /\ NewPage(bsLength + 2, "big")
  <2>1. /\ base' = base + end /\ start' = 0 /\ length' = bsLength + 2
        /\ Received' /\ start' <= end' /\ end' <= length' /\ pc' \in {"big", "idle", "closed"}
    <3>1. bsLength + 2 \in Nat
      BY <1>3
    <3> QED
      BY <1>0, <1>1, <1>6, <3>1, NewPageFacts
  <2>2. spoiled' \in BOOLEAN
    BY <1>6
  <2>3. Types'
    <3>1. length' \in Nat /\ start' \in Nat
      BY <1>3, <2>1
    <3> QED
      BY <1>0, <1>2, <1>6, <2>1, <2>2, <3>1 DEF Types, Labels, States
  <2>4. Control'
    BY <1>0, <1>2, <1>6, <2>1 DEF Control, States
  <2>5. Placed /\ ~(start < end) => Placed'
    <3> SUFFICES ASSUME Placed, ~(start < end) PROVE Placed'
      OBVIOUS
    <3>1. base' + start' = base + start
      BY <1>3, <2>1
    <3> QED
      BY <1>4, <1>6, <2>1, <3>1 DEF Placed
  <2>6. spoiled \/ Placed
    BY DEF ParserInv
  <2>7. spoiled' \/ Placed'
    BY <1>6, <2>5, <2>6
  <2> QED
    BY <2>3, <2>4, <2>7 DEF ParserInv
<1> QED
  BY <1>5, <1>6 DEF Body

(* What appending leaves and adds.                                         *)
LEMMA AppendFacts ==
  ASSUME NEW S, NEW s \in Seq(S), NEW x \in S
  PROVE  /\ Len(Append(s, x)) = Len(s) + 1 /\ Append(s, x)[Len(s) + 1] = x
         /\ \A i \in 1 .. Len(s) : Append(s, x)[i] = s[i]
OBVIOUS

(* An argument is taken.                                                   *)
LEMMA TakeArgument ==
  ASSUME Types, Placed, Taken, Len(args) < argc, UNCHANGED <<commands, parsed, argc>>,
         bsLength = Size, base + start = Here + 3 + Width(Size),
         args' = Append(args, <<base + start, bsLength>>)
  PROVE  /\ Parsed' /\ Taken'
         /\ Here' = base + start + bsLength + 2
<1> DEFINE K == Len(parsed)
           j == Len(args)
           e == <<base + start, bsLength>>
<1>1. /\ Size \in 0 .. 99 /\ Width(Size) \in {1, 2} /\ Here \in Nat
      /\ ArgAt(commands, K, j + 1) = Here + 5 + Width(Size) + Size
  BY ArgumentHere
<1>2. K \in Nat /\ j \in Nat /\ Len(commands) \in Nat /\ Expected(commands)
  BY InvFacts
<1>3. e = Entry(commands, K, j)
  BY DEF Entry, Here, Size, Current
<1>4. K \in 0 .. Len(commands) - 1 /\ j \in 0 .. Len(commands[K + 1]) - 1
  <2>1. argc \in Nat
    BY DEF Types
  <2> QED
    BY <1>2, <2>1 DEF Taken, Current
<1>5. ArgumentsOf[commands][K + 1][j + 1] = e
  BY <1>2, <1>3, <1>4 DEF Expected
<1> HIDE DEF e
<1>6. args \in Places /\ args' = Append(args, e)
  BY DEF Types, e
<1>7. /\ Len(args') = j + 1 /\ args'[j + 1] = e
      /\ \A i \in 1 .. j : args'[i] = args[i]
  <2> DEFINE S == Nat \X Nat
  <2>1. args \in Seq(S) /\ args' = Append(args, e) /\ e \in S
    <3>1. base \in Nat /\ start \in Nat /\ bsLength \in Nat
      BY DEF Types, Received
    <3>2. base + start \in Nat
      BY <3>1
    <3> QED
      BY <1>6, <3>1, <3>2 DEF Places, e
  <2> HIDE DEF S
  <2>2. /\ Len(Append(args, e)) = j + 1 /\ Append(args, e)[j + 1] = e
        /\ \A i \in 1 .. j : Append(args, e)[i] = args[i]
    BY <2>1, AppendFacts
  <2> QED
    BY <2>1, <2>2
<1>8. \A i \in 1 .. j + 1 : args'[i] = ArgumentsOf[commands][K + 1][i]
  <2>1. \A i \in 1 .. j : args'[i] = ArgumentsOf[commands][K + 1][i]
    BY <1>7 DEF Taken
  <2>2. \A i \in 1 .. j + 1 : i = j + 1 \/ i \in 1 .. j
    BY <1>2
  <2> QED
    BY <1>5, <1>7, <2>1, <2>2
<1>9. Taken'
  BY <1>7, <1>8 DEF Taken, Current
<1>10. Parsed'
  BY DEF Placed, Parsed
<1>11. Here' = ArgAt(commands, K, j + 1)
  BY <1>7 DEF Here
<1>12. base + start + bsLength + 2 = Here + 5 + Width(Size) + Size
  BY <1>1
<1> QED
  BY <1>1, <1>9, <1>10, <1>11, <1>12

(* An argument that fits into its page.                                    *)
LEMMA FitStep ==
  ASSUME ParserInv, Fit
  PROVE  ParserInv'
<1>0. Types /\ Control /\ pc = "fit" /\ state = "fit" /\ Len(args) < argc /\ length = PageSize
  BY DEF ParserInv, Fit, Control, States
<1>1. UNCHANGED <<network, parsed, state, bsLength, argc, spoiled>>
  BY DEF Fit
<1>2. UNCHANGED <<commands, arrived, gone, parsed, state, bsLength, argc, spoiled>>
  BY <1>1 DEF network
<1>3. Received /\ base \in Nat /\ end \in Nat /\ start \in Nat /\ start <= end /\ bsLength \in Nat
      /\ args \in Places
  BY <1>0 DEF Types, Received
<1>4. Placed => /\ Parsed /\ Taken /\ bsLength = Size
                /\ base + start = Here + 3 + Width(Size)
  BY <1>0 DEF Placed, InBody
<1>5. CASE Fill("fit") /\ UNCHANGED args
  <2>1. UNCHANGED <<network, parsed, state, bsLength, argc, args, spoiled>>
    BY <1>1, <1>5
  <2> QED
    BY <1>0, <1>5, <2>1, FillStep
<1>6. CASE /\ BodyReceived
           /\ args' = Append(args, <<base + start, bsLength>>)
           /\ start' = start + bsLength + 2 /\ pc' = "finish"
           /\ UNCHANGED <<base, end, length>>
  <2>1. start' \in Nat /\ start' <= end
    BY <1>3, <1>6 DEF BodyReceived
  <2>2. args' \in Places /\ Len(args') = Len(args) + 1
    <3> DEFINE e == <<base + start, bsLength>>
    <3>1. e \in Nat \X Nat
      BY <1>3
    <3>2. args' = Append(args, e)
      BY <1>6
    <3> HIDE DEF e
    <3> QED
      BY <1>3, <3>1, <3>2 DEF Places
  <2>3. Types'
    BY <1>0, <1>2, <1>6, <2>1, <2>2 DEF Types, Received, Stream, Labels
  <2>4. Len(args') <= argc'
    BY <1>0, <1>2, <2>2, InvFacts DEF Types
  <2>5. Control'
    BY <1>0, <1>2, <1>6, <2>4 DEF Control, States
  <2>6. Placed => Placed'
    <3> SUFFICES ASSUME Placed PROVE Placed'
      OBVIOUS
    <3>1. Parsed' /\ Taken' /\ Here' = base + start + bsLength + 2
      BY <1>0, <1>2, <1>4, <1>6, TakeArgument
    <3>2. base' + start' = Here'
      BY <1>3, <1>6, <3>1
    <3> QED
      BY <1>0, <1>2, <1>6, <3>1, <3>2 DEF Placed, InBody
  <2> QED
    BY <1>2, <2>3, <2>5, <2>6 DEF ParserInv
<1>7. CASE /\ BodyReceived
           /\ ~(Byte(start + bsLength) = CR /\ Byte(start + bsLength + 1) = LF)
           /\ pc' = "error" /\ UNCHANGED <<args, buffer>>
  <2>1. UNCHANGED <<base, start, end, length>>
    BY <1>7 DEF buffer
  <2>2. Types'
    BY <1>0, <1>2, <1>7, <2>1 DEF Types, Received, Stream, Labels
  <2>3. Control'
    BY <1>0, <1>2, <1>7, <2>1 DEF Control, States
  <2>4. ~Placed
    <3> SUFFICES ASSUME Placed PROVE FALSE
      OBVIOUS
    <3> DEFINE w == Width(Size)
    <3>1. /\ Size \in 0 .. 99 /\ w \in {1, 2} /\ Here \in Nat
          /\ Stream[Here + 4 + w + Size] = CR /\ Stream[Here + 5 + w + Size] = LF
      BY <1>0, <1>4, ArgumentHere
    <3>2. /\ start + bsLength \in Nat /\ start + bsLength + 1 \in Nat
          /\ start + bsLength < end /\ start + bsLength + 1 < end
      BY <1>3, <1>7 DEF BodyReceived
    <3>3. /\ Byte(start + bsLength) = Stream[base + (start + bsLength) + 1]
          /\ Byte(start + bsLength + 1) = Stream[base + (start + bsLength + 1) + 1]
      BY <1>3, <3>2, ReceivedBytes
    <3>4. /\ base + (start + bsLength) + 1 = Here + 4 + w + Size
          /\ base + (start + bsLength + 1) + 1 = Here + 5 + w + Size
      <4> HIDE DEF w
      <4>1. bsLength = Size /\ base + start = Here + 3 + w
        BY <1>4 DEF w
      <4> QED
        BY <1>3, <3>1, <4>1
    <3> QED
      BY <1>7, <3>1, <3>3, <3>4
  <2> QED
    BY <1>2, <2>2, <2>3, <2>4 DEF ParserInv
<1> QED
  BY <1>5, <1>6, <1>7 DEF Fit

(* An argument with a page of its own.                                     *)
LEMMA BigStep ==
  ASSUME ParserInv, Big
  PROVE  ParserInv'
<1>0. /\ Types /\ Control /\ pc = "big" /\ state = "big" /\ Len(args) < argc
      /\ start = 0 /\ length = bsLength + 2
  BY DEF ParserInv, Big, Control, States
<1>1. UNCHANGED <<network, parsed, state, bsLength, argc, spoiled>>
  BY DEF Big
<1>2. UNCHANGED <<commands, arrived, gone, parsed, state, bsLength, argc, spoiled>>
  BY <1>1 DEF network
<1>3. Received /\ base \in Nat /\ end \in Nat /\ start \in Nat /\ end <= length /\ bsLength \in Nat
      /\ args \in Places
  BY <1>0 DEF Types, Received
<1>4. Placed => /\ Parsed /\ Taken /\ bsLength = Size
                /\ base + start = Here + 3 + Width(Size)
  BY <1>0 DEF Placed, InBody
<1>5. CASE Fill("big") /\ UNCHANGED args
  <2>1. UNCHANGED <<network, parsed, state, bsLength, argc, args, spoiled>>
    BY <1>1, <1>5
  <2> QED
    BY <1>0, <1>5, <2>1, FillStep
<1>6. CASE /\ BodyReceived
           /\ args' = Append(args, <<base, bsLength>>)
           /\ base' = base + end /\ start' = 0 /\ end' = 0 /\ length' = PageSize
           /\ pc' = "finish"
  <2>1. base + start = base /\ end = bsLength + 2
    BY <1>0, <1>3, <1>6 DEF BodyReceived
  <2>2. args' = Append(args, <<base + start, bsLength>>)
    BY <1>6, <2>1
  <2>3. args' \in Places /\ Len(args') = Len(args) + 1
    <3> DEFINE e == <<base, bsLength>>
    <3>1. e \in Nat \X Nat
      BY <1>3
    <3>2. args' = Append(args, e)
      BY <1>6
    <3> HIDE DEF e
    <3> QED
      BY <1>3, <3>1, <3>2 DEF Places
  <2>4. Received'
    <3>1. base' \in Nat /\ end' \in Nat /\ base' + end' <= arrived
      BY <1>3, <1>6 DEF Received
    <3> QED
      BY <1>2, <1>3, <3>1 DEF Received, Stream
  <2>5. Types'
    BY <1>0, <1>2, <1>6, <2>3, <2>4, PageAssumption DEF Types, Labels
  <2>6. Len(args') <= argc'
    BY <1>0, <1>2, <2>3, InvFacts DEF Types
  <2>7. Control'
    BY <1>0, <1>2, <1>6, <2>6 DEF Control, States
  <2>8. Placed => Placed'
    <3> SUFFICES ASSUME Placed PROVE Placed'
      OBVIOUS
    <3>1. Parsed' /\ Taken' /\ Here' = base + start + bsLength + 2
      BY <1>0, <1>2, <1>4, <2>2, TakeArgument
    <3>2. base' + start' = Here'
      BY <1>3, <1>6, <2>1, <3>1
    <3> QED
      BY <1>0, <1>2, <1>6, <3>1, <3>2 DEF Placed, InBody
  <2> QED
    BY <1>2, <2>5, <2>7, <2>8 DEF ParserInv
<1> QED
  BY <1>5, <1>6 DEF Big

(* An argument has been taken: the next one, or the command is yielded.    *)
LEMMA FinishStep ==
  ASSUME ParserInv, Finish
  PROVE  ParserInv'
<1>0. /\ Types /\ Control /\ pc = "finish" /\ state \in {"fit", "big"} /\ length = PageSize
      /\ Len(args) <= argc
  BY DEF ParserInv, Finish, Control
<1>1. UNCHANGED <<network, result, spoiled>>
  BY DEF Finish
<1>2. UNCHANGED <<commands, arrived, gone, argc, args, spoiled>>
  BY <1>1 DEF network, result
<1>3. Received /\ base \in Nat /\ end \in Nat /\ start \in Nat /\ start <= end /\ end <= length
  BY <1>0 DEF Types, Received
<1>4. Placed => Parsed /\ Taken /\ base + start = Here
  BY <1>0 DEF Placed
<1>5. CASE Len(args) < argc /\ NextString /\ UNCHANGED <<buffer, parsed>>
  <2>1. UNCHANGED <<base, start, end, length, parsed>>
        /\ bsLength' = 0 /\ state' = "pre" /\ pc' = "pre"
    BY <1>5 DEF buffer, NextString
  <2>2. Types'
    BY <1>0, <1>2, <2>1 DEF Types, Received, Stream, Labels, States
  <2>3. Control'
    BY <1>0, <1>2, <1>5, <2>1 DEF Control, States
  <2>4. Placed => Placed'
    <3> SUFFICES ASSUME Placed PROVE Placed'
      OBVIOUS
    <3>1. Parsed' /\ Taken' /\ base' + start' = Here'
      BY <1>2, <1>4, <2>1 DEF Parsed, Taken, Here, Current
    <3> QED
      BY <2>1, <3>1 DEF Placed, InBody
  <2> QED
    BY <1>2, <2>2, <2>3, <2>4 DEF ParserInv
<1>6. CASE /\ Len(args) >= argc
           /\ parsed' = Append(parsed, args) /\ state' = "clean"
           /\ base' = base + start /\ start' = 0 /\ end' = end - start
           /\ IF start = end THEN length' = 0 /\ pc' = "idle"
                             ELSE length' = PageSize /\ pc' = "clean"
           /\ UNCHANGED bsLength
  <2>1. /\ base' \in Nat /\ end' \in Nat /\ end' <= length' /\ length' \in {0, PageSize}
        /\ pc' \in {"idle", "clean"} /\ base' + end' = base + end
    BY <1>0, <1>3, <1>6, PageAssumption
  <2>2. parsed \in Seq(Places) /\ args \in Places /\ Len(parsed) \in Nat /\ Len(args) \in Nat
        /\ argc \in Nat
    BY <1>0, InvFacts DEF Types
  <2>3. /\ parsed' \in Seq(Places) /\ Len(parsed') = Len(parsed) + 1
        /\ parsed'[Len(parsed) + 1] = args
        /\ \A k \in 1 .. Len(parsed) : parsed'[k] = parsed[k]
    <3> DEFINE P == Places
    <3>1. parsed \in Seq(P) /\ args \in P /\ parsed' = Append(parsed, args)
      BY <1>6, <2>2
    <3> HIDE DEF P
    <3>2. /\ parsed' \in Seq(P) /\ Len(parsed') = Len(parsed) + 1
          /\ parsed'[Len(parsed) + 1] = args
          /\ \A k \in 1 .. Len(parsed) : parsed'[k] = parsed[k]
      BY <3>1
    <3> QED
      BY <3>2 DEF P
  <2>4. Received'
    BY <1>2, <1>3, <2>1 DEF Received, Stream
  <2>5. Types'
    <3>1. length' \in Nat /\ start' <= end' /\ start' \in Nat
      BY <1>6, <2>1, PageAssumption
    <3> QED
      BY <1>0, <1>2, <1>6, <2>1, <2>3, <2>4, <3>1 DEF Types, Labels, States
  <2>6. Control'
    BY <1>0, <1>2, <1>6, <2>1 DEF Control, States
  <2>7. Placed => Placed'
    <3> SUFFICES ASSUME Placed PROVE Placed'
      OBVIOUS
    <3> DEFINE K == Len(parsed)
               want == ArgumentsOf[commands][K + 1]
    <3>1. /\ K < Len(commands) /\ argc = Len(Current)
          /\ \A i \in 1 .. Len(args) : args[i] = want[i]
      BY <1>4 DEF Taken
    <3>2. Len(args) = Len(Current)
      BY <1>0, <1>6, <2>2, <3>1
    <3>3. /\ Layout(commands) /\ Expected(commands) /\ Len(commands) \in Nat
      BY <1>0, InvFacts
    <3>4. K \in 0 .. Len(commands) - 1 /\ K + 1 \in 1 .. Len(commands)
      BY <2>2, <3>1, <3>3
    <3>5. args = want
      <4>1. want \in Places /\ Len(want) = Len(Current)
        BY <3>3, <3>4, ElementOfSeq DEF Expected, Current, Places
      <4> HIDE DEF want
      <4> QED
        BY <2>2, <3>1, <3>2, <4>1, SeqEqual DEF Places
    <3>6. base + start = Ends(commands, K + 1)
      <4>1. ArgAt(commands, K, Len(Current)) = Ends(commands, K + 1)
        BY <3>3, <3>4 DEF Layout, CommandAt, Current
      <4> QED
        BY <1>4, <3>2, <4>1 DEF Here
    <3>7. Parsed'
      <4>1. K + 1 <= Len(commands)
        BY <2>2, <3>4
      <4>2. \A k \in 1 .. K + 1 : k = K + 1 \/ k \in 1 .. K
        BY <2>2
      <4>3. \A k \in 1 .. K : parsed[k] = ArgumentsOf[commands][k]
        BY <1>4 DEF Parsed
      <4>4. \A k \in 1 .. K + 1 : parsed'[k] = ArgumentsOf[commands][k]
        BY <2>3, <3>5, <4>2, <4>3
      <4> QED
        BY <1>2, <2>3, <4>1, <4>4 DEF Parsed
    <3>8. base' + start' = Ends(commands', Len(parsed'))
      <4>1. base' + start' = base + start
        BY <1>3, <1>6
      <4> QED
        BY <1>2, <2>3, <3>6, <4>1
    <3> QED
      BY <1>6, <2>1, <3>7, <3>8 DEF Placed, InBody
  <2> QED
    BY <1>2, <2>5, <2>6, <2>7 DEF ParserInv
<1> QED
  BY <1>5, <1>6 DEF Finish

-----------------------------------------------------------------------------
(* In every state of every behaviour the parser is in the stream where its *)
(* state says, and has taken what the client has sent, unless it has cut a *)
(* length or an argument in one of the ways the code gets wrong.           *)
THEOREM ParserInvariance ==
  Spec => []ParserInv
<1>1. Init => ParserInv
  BY InitParserInv
<1>2. ASSUME ParserInv, [Next]_vars PROVE ParserInv'
  <2>1. CASE Deliver
    BY <1>2, <2>1, DeliverStep
  <2>2. CASE HangUp
    BY <1>2, <2>2, HangUpStep
  <2>3. CASE Call
    BY <1>2, <2>3, CallStep
  <2>4. CASE Clean
    BY <1>2, <2>4, CleanStep
  <2>5. CASE AryStart
    BY <1>2, <2>5, AryStep
  <2>6. CASE BsStartPre
    BY <1>2, <2>6, PreStep
  <2>7. CASE BsStart
    BY <1>2, <2>7, BsStep
  <2>8. CASE Body
    BY <1>2, <2>8, BodyStep
  <2>9. CASE Fit
    BY <1>2, <2>9, FitStep
  <2>10. CASE Big
    BY <1>2, <2>10, BigStep
  <2>11. CASE Finish
    BY <1>2, <2>11, FinishStep
  <2>12. CASE UNCHANGED vars
    <3>1. UNCHANGED <<commands, arrived, gone, pc, state, base, start, end, length, bsLength,
                      argc, args, parsed, spoiled>>
      BY <2>12 DEF vars, network, buffer, result
    <3>2. Types'
      BY <1>2, <3>1 DEF ParserInv, Types, Received, Stream
    <3>3. Control'
      BY <1>2, <3>1 DEF ParserInv, Control, Stream
    <3>4. Placed => Placed'
      BY <3>1 DEF Placed, Parsed, Taken, AtLength, InBody, Here, Size, Current
    <3> QED
      BY <1>2, <3>1, <3>2, <3>3, <3>4 DEF ParserInv
  <2> QED
    BY <1>2, <2>1, <2>2, <2>3, <2>4, <2>5, <2>6, <2>7, <2>8, <2>9, <2>10, <2>11, <2>12
    DEF Next, Parse
<1> QED
  BY <1>1, <1>2, PTL DEF Spec

(* Every variable keeps its type; what was received is never ahead of what *)
(* arrived nor beyond the page.                                            *)
THEOREM ParserTypeCorrect ==
  Spec => []TypeOK
<1>1. ParserInv => TypeOK
  <2> SUFFICES ASSUME ParserInv PROVE TypeOK
    OBVIOUS
  <2>1. Types /\ Len(args) <= argc
    BY DEF ParserInv, Control
  <2>2. arrived \in 0 .. Len(Stream) /\ end \in 0 .. length
    BY <2>1, InvFacts DEF Types, Received
  <2> QED
    BY <2>1, <2>2 DEF TypeOK, Types, Received, Labels, States
<1> QED
  BY <1>1, ParserInvariance, PTL

(* However the stream is cut into reads and pages, the parser yields the   *)
(* commands the client sent, each argument where it is and as long as it   *)
(* is, and refuses none but the empty array.                               *)
THEOREM CommandsParsedRightly ==
  Spec => []CommandsParsed
<1>1. ParserInv => CommandsParsed
  <2> SUFFICES ASSUME ParserInv, ~spoiled PROVE CommandsParsed
    BY DEF CommandsParsed
  <2>1. Types /\ Placed
    BY DEF ParserInv
  <2> DEFINE want == ArgumentsOf[commands]
             K == Len(parsed)
  <2>2. /\ want \in Seq(Places) /\ Len(want) = Len(commands) /\ K \in Nat
        /\ Len(commands) \in Nat
    BY <2>1, InvFacts DEF Expected, Places
  <2>3. K <= Len(want) /\ \A k \in 1 .. K : parsed[k] = want[k]
    BY <2>1, <2>2 DEF Placed, Parsed
  <2>4. parsed \in Seq(Places)
    BY <2>1 DEF Types
  <2> HIDE DEF want
  <2>5. SubSeq(parsed, 1, K) = SubSeq(want, 1, K)
    <3> DEFINE P == Places
    <3>1. parsed \in Seq(P) /\ want \in Seq(P)
      BY <2>2, <2>4
    <3> HIDE DEF P
    <3>2. \A k \in 1 .. K : parsed[k] \in P /\ want[k] \in P
      BY <2>2, <2>3, <3>1
    <3>3. /\ SubSeq(parsed, 1, K) \in Seq(P) /\ Len(SubSeq(parsed, 1, K)) = K
          /\ \A k \in 1 .. K : SubSeq(parsed, 1, K)[k] = parsed[k]
      BY <2>2, <3>1, <3>2
    <3>4. /\ SubSeq(want, 1, K) \in Seq(P) /\ Len(SubSeq(want, 1, K)) = K
          /\ \A k \in 1 .. K : SubSeq(want, 1, K)[k] = want[k]
      BY <2>2, <2>3, <3>1, <3>2
    <3> QED
      BY <2>3, <3>3, <3>4, SeqEqual
  <2>6. IsPrefix(parsed, want)
    BY <2>3, <2>5 DEF IsPrefix
  <2>7. pc = "error" => commands[Len(parsed) + 1] = <<>>
    BY <2>1 DEF Placed, Current
  <2> QED
    BY <2>6, <2>7 DEF CommandsParsed, want
<1> QED
  BY <1>1, ParserInvariance, PTL
=============================================================================
