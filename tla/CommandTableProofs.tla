------------------------- MODULE CommandTableProofs -------------------------
(***************************************************************************)
(* Proofs about the command and type tables: whatever names are registered *)
(* and however their hashes collide, a request finds its command; and the  *)
(* walk over a format string, jumps included, takes every argument as the  *)
(* string means it.                                                        *)
(***************************************************************************)
EXTENDS CommandTable, ArithmeticProofs, SequenceTheorems

(* Min and Max of the sets that occur here.                                *)
LEMMA MinFacts ==
  ASSUME NEW S \in SUBSET Nat, S # {}
  PROVE  Min(S) \in S /\ \A m \in S : Min(S) <= m
<1>1. \E n \in S : \A m \in S : n <= m
  BY LeastNatural
<1> QED
  BY <1>1 DEF Min

LEMMA MaxFacts ==
  ASSUME NEW S, NEW n \in Nat, S \subseteq 1 .. n, S # {}
  PROVE  Max(S) \in S /\ \A m \in S : m <= Max(S)
<1>1. S \in SUBSET Nat /\ \A m \in S : m <= n
  OBVIOUS
<1> QED
  BY <1>1, GreatestNatural

(* What the assumptions say of one registration.                           *)
LEMMA StartupFacts ==
  /\ Len(Startup) \in Nat /\ DOMAIN Startup = 1 .. Len(Startup)
  /\ \A k \in DOMAIN Startup :
       /\ Startup[k].kind \in {"type", "meta", "normal"}
       /\ Startup[k].name \in DOMAIN Home
       /\ Home[Startup[k].name] \in 0 .. Size - 1
       /\ Startup[k].kind = "normal" =>
            /\ Startup[k].format \in Seq(Marks)
            /\ Startup[k].type \in DOMAIN Home \cup {""}
<1>1. /\ Len(Startup) \in Nat /\ DOMAIN Startup = 1 .. Len(Startup)
      /\ \A k \in DOMAIN Startup : Startup[k] \in Registrations
  BY StartupAssumption
<1>2. ASSUME NEW k \in DOMAIN Startup
      PROVE  /\ Startup[k].kind \in {"type", "meta", "normal"}
             /\ Startup[k].name \in DOMAIN Home
             /\ Startup[k].kind = "normal" =>
                  /\ Startup[k].format \in Seq(Marks)
                  /\ Startup[k].type \in DOMAIN Home \cup {""}
  BY <1>1, <1>2 DEF Registrations
<1> QED
  BY <1>1, <1>2, HomeAssumption

LEMMA NextRegistration ==
  ASSUME NEW n \in 0 .. Len(Startup) - 1
  PROVE  /\ Len(Startup) \in Nat /\ n \in 0 .. Len(Startup)
         /\ n + 1 \in 0 .. Len(Startup) /\ n + 1 \in DOMAIN Startup
<1>1. Len(Startup) \in Nat /\ DOMAIN Startup = 1 .. Len(Startup)
  BY StartupFacts
<1> QED
  BY <1>1

-----------------------------------------------------------------------------
(* A table: an entry is at or behind its home slot, with no gap between.   *)
IsTable(table) ==
  \A i \in DOMAIN table :
    /\ i \in 0 .. Size - 1 /\ table[i].name \in DOMAIN Home
    /\ Home[table[i].name] .. i \subseteq DOMAIN table
    /\ Home[table[i].name] <= i

(* The entries, and the first n registrations, that start at slot h or     *)
(* behind it.                                                              *)
Above(table, h) == {i \in DOMAIN table : Home[table[i].name] >= h}
Due(n, ofType, h) ==
  {k \in 1 .. n : /\ (Startup[k].kind = "type") = ofType
                  /\ Home[Startup[k].name] >= h}

(* A table has no more entries than there were registrations.              *)
Roomy(table, n, ofType) ==
  \A h \in 0 .. Size - 1 :
    Cardinality(Above(table, h)) <= Cardinality(Due(n, ofType, h))

LEMMA DueFinite ==
  ASSUME NEW n \in 0 .. Len(Startup), NEW ofType \in BOOLEAN, NEW h \in 0 .. Size - 1
  PROVE  /\ IsFiniteSet(Due(n, ofType, h))
         /\ Cardinality(Due(n, ofType, h)) \in Nat
         /\ Cardinality(Due(n, ofType, h)) < Size - h
<1> DEFINE all == {k \in DOMAIN Startup : /\ (Startup[k].kind = "type") = ofType
                                          /\ Home[Startup[k].name] >= h}
<1>0. Len(Startup) \in Nat /\ DOMAIN Startup = 1 .. Len(Startup)
  BY StartupFacts
<1>1. IsFiniteSet(DOMAIN Startup)
  BY <1>0, FS_Interval
<1>2. IsFiniteSet(all)
  BY <1>1, FS_Subset
<1>3. Due(n, ofType, h) \subseteq all
  BY <1>0 DEF Due
<1>4. /\ IsFiniteSet(Due(n, ofType, h))
      /\ Cardinality(Due(n, ofType, h)) <= Cardinality(all)
  BY <1>2, <1>3, FS_Subset
<1>5. Cardinality(all) < Size - h
  BY RoomAssumption
<1> QED
  BY <1>2, <1>4, <1>5, FS_CardinalityType, SizeAssumption

LEMMA AboveFinite ==
  ASSUME NEW table, IsTable(table), NEW h \in 0 .. Size - 1
  PROVE  IsFiniteSet(Above(table, h)) /\ Cardinality(Above(table, h)) \in Nat
<1>1. Above(table, h) \subseteq 0 .. Size - 1
  BY DEF Above, IsTable
<1>2. IsFiniteSet(0 .. Size - 1)
  BY SizeAssumption, FS_Interval
<1>3. IsFiniteSet(Above(table, h))
  BY <1>1, <1>2, FS_Subset
<1> QED
  BY <1>3, FS_CardinalityType

(* The last slot is never used: else the entries from some slot h on, all  *)
(* of which start there or behind, would be too many.                      *)
LEMMA LastSlotFree ==
  ASSUME NEW table, NEW n \in 0 .. Len(Startup), NEW ofType \in BOOLEAN,
         IsTable(table), Roomy(table, n, ofType)
  PROVE  Size - 1 \notin DOMAIN table
<1> SUFFICES ASSUME Size - 1 \in DOMAIN table PROVE FALSE
  OBVIOUS
<1> DEFINE full == {h \in 0 .. Size - 1 : h .. Size - 1 \subseteq DOMAIN table}
<1>1. Size \in Nat /\ Size - 1 \in full
  BY SizeAssumption
<1>2. full \in SUBSET Nat /\ full # {}
  <2>1. \A h \in full : h \in Nat
    OBVIOUS
  <2> HIDE DEF full
  <2> QED
    BY <1>1, <2>1
<1>3. PICK h \in full : \A m \in full : h <= m
  BY <1>2, LeastNatural
<1>4. h \in 0 .. Size - 1 /\ h .. Size - 1 \subseteq DOMAIN table
  OBVIOUS
<1>5. h > 0 => h - 1 \notin DOMAIN table
  <2> SUFFICES ASSUME h > 0, h - 1 \in DOMAIN table PROVE FALSE
    OBVIOUS
  <2>1. h - 1 \in 0 .. Size - 1
    BY <1>1, <1>4
  <2>2. (h - 1) .. Size - 1 \subseteq DOMAIN table
    BY <1>1, <1>4
  <2>3. h - 1 \in full
    BY <2>1, <2>2
  <2> QED
    BY <1>3, <1>4, <2>3
<1>6. h .. Size - 1 \subseteq Above(table, h)
  <2> SUFFICES ASSUME NEW i \in h .. Size - 1 PROVE Home[table[i].name] >= h
    BY <1>4 DEF Above
  <2>1. /\ i \in DOMAIN table /\ table[i].name \in DOMAIN Home
        /\ Home[table[i].name] .. i \subseteq DOMAIN table
    BY <1>4 DEF IsTable
  <2>2. Home[table[i].name] \in 0 .. Size - 1
    BY <2>1, HomeAssumption
  <2> QED
    BY <1>1, <1>4, <1>5, <2>1, <2>2
<1>7. IsFiniteSet(Above(table, h)) /\ Cardinality(Above(table, h)) \in Nat
  BY <1>4, AboveFinite
<1>8. Cardinality(h .. Size - 1) = Size - h
  BY <1>1, <1>4, FS_Interval
<1>9. Cardinality(h .. Size - 1) <= Cardinality(Above(table, h))
  BY <1>6, <1>7, FS_Subset
<1>10. Cardinality(Above(table, h)) <= Cardinality(Due(n, ofType, h))
  BY <1>4 DEF Roomy
<1> QED
  BY <1>1, <1>4, <1>7, <1>8, <1>9, <1>10, DueFinite

(* So probing finds a free slot, and stops.                                *)
LEMMA ProbingEnds ==
  ASSUME NEW table, NEW n \in 0 .. Len(Startup), NEW ofType \in BOOLEAN,
         IsTable(table), Roomy(table, n, ofType), NEW nm \in DOMAIN Home
  PROVE  Size - 1 \in Free(table, nm) /\ Size - 1 \in Stops(table, nm)
<1>1. Home[nm] \in 0 .. Size - 1 /\ Size \in Nat
  BY HomeAssumption, SizeAssumption
<1> QED
  BY <1>1, LastSlotFree DEF Free, Stops

(* A fetch finds the first entry of a name, if there is one.               *)
First(table, nm, m) ==
  /\ table[m].name = nm /\ Fetched(table, nm) = table[m]
  /\ \A i \in DOMAIN table : table[i].name = nm => m <= i

LEMMA FetchFinds ==
  ASSUME NEW table, NEW n \in 0 .. Len(Startup), NEW ofType \in BOOLEAN,
         IsTable(table), Roomy(table, n, ofType), NEW nm \in DOMAIN Home
  PROVE  /\ (\E i \in DOMAIN table : table[i].name = nm) => Found(table, nm)
         /\ Found(table, nm) => \E m \in DOMAIN table : First(table, nm, m)
<1> DEFINE stops == Stops(table, nm)
<1>1. Home[nm] \in 0 .. Size - 1 /\ Size \in Nat
  BY HomeAssumption, SizeAssumption
<1>2. stops \in SUBSET Nat /\ stops # {}
  BY <1>1, ProbingEnds DEF Stops
<1>3. Min(stops) \in stops /\ \A m \in stops : Min(stops) <= m
  BY <1>2, MinFacts
<1>4. ASSUME NEW i \in DOMAIN table, table[i].name = nm
      PROVE  /\ i \in stops
             /\ Min(stops) \in DOMAIN table /\ table[Min(stops)].name = nm
  <2>1. /\ i \in 0 .. Size - 1 /\ Home[nm] <= i
        /\ Home[nm] .. i \subseteq DOMAIN table
    BY <1>4 DEF IsTable
  <2>2. i \in stops
    BY <1>1, <1>4, <2>1 DEF Stops
  <2>3. Min(stops) \in Home[nm] .. i
    BY <1>1, <1>3, <2>1, <2>2 DEF Stops
  <2> QED
    BY <1>3, <2>1, <2>2, <2>3 DEF Stops
<1>5. Found(table, nm) => Min(stops) \in DOMAIN table /\ table[Min(stops)].name = nm
  BY <1>3 DEF Found, Stops
<1> QED
  BY <1>2, <1>3, <1>4, <1>5 DEF Found, Fetched, First

-----------------------------------------------------------------------------
(* A store puts the entry into the first free slot.                        *)
Puts(table, e, s, new) ==
  /\ s \notin DOMAIN table
  /\ Home[e.name] <= s /\ Home[e.name] .. s - 1 \subseteq DOMAIN table
  /\ DOMAIN new = DOMAIN table \cup {s} /\ new[s] = e
  /\ \A i \in DOMAIN table : new[i] = table[i]

LEMMA StorePuts ==
  ASSUME NEW table, NEW n \in 0 .. Len(Startup), NEW ofType \in BOOLEAN,
         IsTable(table), Roomy(table, n, ofType),
         NEW e, e.name \in DOMAIN Home
  PROVE  \E s \in 0 .. Size - 1 : Puts(table, e, s, Store(table, e))
<1> DEFINE free == Free(table, e.name)
           s == Min(free)
<1>1. Home[e.name] \in 0 .. Size - 1 /\ Size \in Nat
  BY HomeAssumption, SizeAssumption
<1>2. \A i \in free : i \in Nat
  BY <1>1 DEF Free
<1>3. Size - 1 \in free
  BY ProbingEnds
<1>4. s \in free /\ \A i \in free : s <= i
  <2> HIDE DEF free
  <2>1. free \in SUBSET Nat /\ free # {}
    BY <1>2, <1>3
  <2> QED
    BY <2>1, MinFacts
<1>5. s \in Home[e.name] .. Size - 1 /\ s \notin DOMAIN table
  BY <1>4 DEF Free
<1>6. Home[e.name] .. s - 1 \subseteq DOMAIN table
  <2> SUFFICES ASSUME NEW i \in Home[e.name] .. s - 1 PROVE i \in DOMAIN table
    OBVIOUS
  <2>1. i \in Home[e.name] .. Size - 1 /\ ~(s <= i)
    BY <1>1, <1>5
  <2> QED
    BY <1>4, <2>1 DEF Free
<1>7. /\ DOMAIN Store(table, e) = DOMAIN table \cup {s}
      /\ Store(table, e)[s] = e
      /\ \A i \in DOMAIN table : Store(table, e)[i] = table[i]
  BY <1>5 DEF Store, Put
<1> HIDE DEF s
<1> QED
  BY <1>1, <1>5, <1>6, <1>7 DEF Puts

LEMMA StoreKeepsTable ==
  ASSUME NEW table, NEW n \in 0 .. Len(Startup), NEW ofType \in BOOLEAN,
         IsTable(table), Roomy(table, n, ofType),
         NEW e, e.name \in DOMAIN Home
  PROVE  IsTable(Store(table, e))
<1> DEFINE new == Store(table, e)
<1>1. PICK s \in 0 .. Size - 1 : Puts(table, e, s, new)
  BY StorePuts
<1> HIDE DEF new
<1>2. Home[e.name] \in 0 .. Size - 1 /\ Size \in Nat
  BY HomeAssumption, SizeAssumption
<1>3. Home[e.name] .. s \subseteq DOMAIN new
  BY <1>1, <1>2 DEF Puts
<1> SUFFICES ASSUME NEW i \in DOMAIN new
             PROVE  /\ i \in 0 .. Size - 1 /\ new[i].name \in DOMAIN Home
                    /\ Home[new[i].name] .. i \subseteq DOMAIN new
                    /\ Home[new[i].name] <= i
  BY DEF IsTable, new
<1>4. CASE i = s
  BY <1>1, <1>3, <1>4 DEF Puts
<1>5. CASE i \in DOMAIN table
  <2>1. new[i] = table[i] /\ DOMAIN table \subseteq DOMAIN new
    BY <1>1, <1>5 DEF Puts
  <2>2. /\ i \in 0 .. Size - 1 /\ table[i].name \in DOMAIN Home
        /\ Home[table[i].name] .. i \subseteq DOMAIN table
        /\ Home[table[i].name] <= i
    BY <1>5 DEF IsTable
  <2> QED
    BY <2>1, <2>2
<1> QED
  BY <1>1, <1>4, <1>5 DEF Puts

(* One registration more, stored or not.                                   *)
LEMMA DueGrows ==
  ASSUME NEW n \in 0 .. Len(Startup) - 1, NEW ofType \in BOOLEAN,
         NEW h \in 0 .. Size - 1
  PROVE  /\ Cardinality(Due(n, ofType, h)) <= Cardinality(Due(n + 1, ofType, h))
         /\ /\ (Startup[n + 1].kind = "type") = ofType
            /\ Home[Startup[n + 1].name] >= h
            => Cardinality(Due(n + 1, ofType, h)) = Cardinality(Due(n, ofType, h)) + 1
<1>1. Len(Startup) \in Nat /\ n \in 0 .. Len(Startup) /\ n + 1 \in 0 .. Len(Startup)
  BY NextRegistration
<1>2. IsFiniteSet(Due(n, ofType, h)) /\ IsFiniteSet(Due(n + 1, ofType, h))
  BY <1>1, DueFinite
<1>3. Due(n, ofType, h) \subseteq Due(n + 1, ofType, h)
  BY <1>1 DEF Due
<1>4. Cardinality(Due(n, ofType, h)) <= Cardinality(Due(n + 1, ofType, h))
  BY <1>2, <1>3, FS_Subset
<1>5. ASSUME (Startup[n + 1].kind = "type") = ofType, Home[Startup[n + 1].name] >= h
      PROVE  Cardinality(Due(n + 1, ofType, h)) = Cardinality(Due(n, ofType, h)) + 1
  <2>1. Due(n + 1, ofType, h) = Due(n, ofType, h) \cup {n + 1}
    BY <1>1, <1>5 DEF Due
  <2>2. n + 1 \notin Due(n, ofType, h)
    BY <1>1 DEF Due
  <2> QED
    BY <1>2, <2>1, <2>2, FS_AddElement
<1> QED
  BY <1>4, <1>5

LEMMA RoomKept ==
  ASSUME NEW table, NEW n \in 0 .. Len(Startup) - 1, NEW ofType \in BOOLEAN,
         IsTable(table), Roomy(table, n, ofType)
  PROVE  Roomy(table, n + 1, ofType)
<1> SUFFICES ASSUME NEW h \in 0 .. Size - 1
             PROVE  Cardinality(Above(table, h)) <= Cardinality(Due(n + 1, ofType, h))
  BY DEF Roomy
<1>1. Len(Startup) \in Nat /\ n \in 0 .. Len(Startup) /\ n + 1 \in 0 .. Len(Startup)
  BY NextRegistration
<1>2. /\ Cardinality(Due(n, ofType, h)) \in Nat
      /\ Cardinality(Due(n + 1, ofType, h)) \in Nat
  BY <1>1, DueFinite
<1>3. Cardinality(Above(table, h)) <= Cardinality(Due(n, ofType, h))
  BY DEF Roomy
<1>4. Cardinality(Above(table, h)) \in Nat
  BY AboveFinite
<1> QED
  BY <1>2, <1>3, <1>4, DueGrows

LEMMA RoomStored ==
  ASSUME NEW table, NEW n \in 0 .. Len(Startup) - 1, NEW ofType \in BOOLEAN,
         IsTable(table), Roomy(table, n, ofType), NEW e,
         e.name = Startup[n + 1].name, (Startup[n + 1].kind = "type") = ofType
  PROVE  Roomy(Store(table, e), n + 1, ofType)
<1> DEFINE new == Store(table, e)
<1> SUFFICES ASSUME NEW h \in 0 .. Size - 1
             PROVE  Cardinality(Above(new, h)) <= Cardinality(Due(n + 1, ofType, h))
  BY DEF Roomy
<1>1. /\ Len(Startup) \in Nat /\ n \in 0 .. Len(Startup) /\ n + 1 \in 0 .. Len(Startup)
      /\ n + 1 \in DOMAIN Startup
  BY NextRegistration
<1>2. e.name \in DOMAIN Home
  BY <1>1, StartupFacts
<1>3. PICK s \in 0 .. Size - 1 : Puts(table, e, s, new)
  BY <1>1, <1>2, StorePuts
<1>4. /\ Cardinality(Due(n, ofType, h)) \in Nat
      /\ Cardinality(Due(n + 1, ofType, h)) \in Nat
  BY <1>1, DueFinite
<1>5. /\ Cardinality(Above(table, h)) <= Cardinality(Due(n, ofType, h))
      /\ IsFiniteSet(Above(table, h)) /\ Cardinality(Above(table, h)) \in Nat
  BY AboveFinite DEF Roomy
<1> HIDE DEF new
<1>6. CASE Home[e.name] >= h
  <2>1. Above(new, h) = Above(table, h) \cup {s}
    BY <1>3, <1>6 DEF Above, Puts
  <2>2. s \notin Above(table, h)
    BY <1>3 DEF Above, Puts
  <2>3. Cardinality(Above(new, h)) = Cardinality(Above(table, h)) + 1
    BY <1>5, <2>1, <2>2, FS_AddElement
  <2> QED
    BY <1>4, <1>5, <1>6, <2>3, DueGrows
<1>7. CASE ~(Home[e.name] >= h)
  <2>1. Above(new, h) = Above(table, h)
    BY <1>3, <1>7 DEF Above, Puts
  <2> QED
    BY <1>4, <1>5, <2>1, DueGrows
<1> QED
  BY <1>6, <1>7

-----------------------------------------------------------------------------
(* Format strings.                                                         *)
Format(k) == Startup[k].format

(* A legal format string has no bars, or two with something in between.    *)
LEMMA BarsFacts ==
  ASSUME NEW k \in DOMAIN Startup, Startup[k].kind = "normal", Legal(k),
         Bars(Format(k)) # {}
  PROVE  LET first  == Min(Bars(Format(k)))
             second == Max(Bars(Format(k)))
         IN  /\ Len(Format(k)) \in Nat
             /\ first \in 1 .. Len(Format(k)) /\ second \in 1 .. Len(Format(k))
             /\ second - first > 1 /\ Bars(Format(k)) = {first, second}
<1> DEFINE bars == Bars(Format(k))
<1>0. Format(k) \in Seq(Marks)
  BY StartupFacts DEF Format
<1>1. Len(Format(k)) \in Nat /\ bars \subseteq 1 .. Len(Format(k))
  BY <1>0 DEF Bars
<1>2. IsFiniteSet(bars)
  <2>1. IsFiniteSet(1 .. Len(Format(k)))
    BY <1>1, FS_Interval
  <2> QED
    BY <1>1, <2>1, FS_Subset
<1>3. Cardinality(bars) \in Nat /\ Cardinality(bars) # 0
  BY <1>2, FS_CardinalityType, FS_EmptySet
<1>4. /\ Cardinality(bars) # 1 /\ Cardinality(bars) <= 2
      /\ Cardinality(bars) = 2 => Max(bars) - Min(bars) > 1
  BY FormatAssumption DEF Legal, Format
<1> HIDE DEF bars
<1>5. Cardinality(bars) = 2 /\ Max(bars) - Min(bars) > 1
  BY <1>3, <1>4
<1>6. Min(bars) \in bars
  <2>1. bars \in SUBSET Nat /\ bars # {}
    BY <1>1 DEF bars
  <2> QED
    BY <2>1, MinFacts
<1>7. Max(bars) \in bars
  <2>1. bars # {}
    BY DEF bars
  <2> QED
    BY <1>1, <2>1, MaxFacts
<1>8. bars = {Min(bars), Max(bars)}
  <2>1. Min(bars) # Max(bars)
    <3> SUFFICES ASSUME Min(bars) = Max(bars) PROVE FALSE
      OBVIOUS
    <3>1. Max(bars) \in 1 .. Len(Format(k))
      BY <1>1, <1>7
    <3>2. Max(bars) - Max(bars) = 0
      BY <3>1
    <3> QED
      BY <1>5, <3>2
  <2>2. /\ IsFiniteSet({Min(bars), Max(bars)})
        /\ Cardinality({Min(bars), Max(bars)}) = 2
    <3>1. IsFiniteSet({Min(bars)}) /\ Cardinality({Min(bars)}) = 1
      BY FS_Singleton
    <3>2. {Min(bars), Max(bars)} = {Min(bars)} \cup {Max(bars)}
      OBVIOUS
    <3>3. Max(bars) \notin {Min(bars)}
      BY <2>1
    <3>4. /\ IsFiniteSet({Min(bars)} \cup {Max(bars)})
          /\ Cardinality({Min(bars)} \cup {Max(bars)}) = Cardinality({Min(bars)}) + 1
      BY <3>1, <3>3, FS_AddElement
    <3>5. 1 + 1 = 2
      OBVIOUS
    <3> QED
      BY <3>1, <3>2, <3>4, <3>5
  <2>3. {Min(bars), Max(bars)} \subseteq bars
    BY <1>6, <1>7
  <2> QED
    BY <1>2, <1>5, <2>2, <2>3, FS_Subset
<1> QED
  BY <1>1, <1>5, <1>6, <1>7, <1>8 DEF bars

LEMMA RemoveAtFacts ==
  ASSUME NEW S, NEW s \in Seq(S), NEW i \in 1 .. Len(s)
  PROVE  /\ RemoveAt(s, i) \in Seq(S) /\ Len(RemoveAt(s, i)) = Len(s) - 1
         /\ \A j \in 1 .. Len(s) - 1 :
              RemoveAt(s, i)[j] = IF j < i THEN s[j] ELSE s[j + 1]
<1> DEFINE left  == SubSeq(s, 1, i - 1)
           right == SubSeq(s, i + 1, Len(s))
<1>1. /\ left \in Seq(S) /\ Len(left) = i - 1
      /\ \A j \in 1 .. i - 1 : left[j] = s[j]
  OBVIOUS
<1>2. /\ right \in Seq(S) /\ Len(right) = Len(s) - i
      /\ \A j \in 1 .. Len(s) - i : right[j] = s[i + j]
  OBVIOUS
<1> HIDE DEF left, right
<1>3. left \o right \in Seq(S) /\ Len(left \o right) = Len(s) - 1
  <2>1. left \o right \in Seq(S) /\ Len(left \o right) = Len(left) + Len(right)
    BY <1>1, <1>2, ConcatProperties
  <2>2. Len(s) \in Nat
    OBVIOUS
  <2> QED
    BY <1>1, <1>2, <2>1, <2>2
<1>4. ASSUME NEW j \in 1 .. Len(s) - 1
      PROVE  (left \o right)[j] = IF j < i THEN s[j] ELSE s[j + 1]
  <2>1. CASE j < i
    BY <1>1, <1>2, <2>1
  <2>2. CASE ~(j < i)
    <3>1. j - (i - 1) \in 1 .. Len(s) - i /\ i + (j - (i - 1)) = j + 1
      BY <2>2
    <3>2. (left \o right)[j] = right[j - (i - 1)]
      BY <1>1, <1>2, <2>2
    <3> QED
      BY <1>2, <2>2, <3>1, <3>2
  <2> QED
    BY <2>1, <2>2
<1> QED
  BY <1>3, <1>4 DEF RemoveAt, left, right

(* The entry a registration makes.                                         *)
EntryOf(k) ==
  IF Startup[k].kind = "meta" THEN Entry(Startup[k].name, TRUE, <<>>, 0)
  ELSE Parsed(Startup[k].name, Startup[k].format)

LEMMA EntryFacts ==
  ASSUME NEW k \in DOMAIN Startup, Startup[k].kind # "type", Legal(k)
  PROVE  /\ EntryOf(k).name = Startup[k].name
         /\ EntryOf(k).meta = (Startup[k].kind = "meta")
         /\ EntryOf(k).marks \in Seq(Marks) /\ EntryOf(k).target \in Nat
<1>1. CASE Startup[k].kind = "meta"
  <2>1. EntryOf(k) = [name |-> Startup[k].name, meta |-> TRUE, marks |-> <<>>,
                      target |-> 0]
    BY <1>1 DEF EntryOf, Entry
  <2>2. <<>> \in Seq(Marks) /\ 0 \in Nat
    OBVIOUS
  <2>3. /\ EntryOf(k).name = Startup[k].name /\ EntryOf(k).meta = TRUE
        /\ EntryOf(k).marks = <<>> /\ EntryOf(k).target = 0
    BY <2>1
  <2> QED
    BY <1>1, <2>2, <2>3, Zenon
<1>2. CASE Startup[k].kind # "meta"
  <2>1. Startup[k].kind = "normal" /\ Format(k) \in Seq(Marks)
    BY <1>2, StartupFacts DEF Format
  <2>2. CASE Bars(Format(k)) = {}
    BY <1>2, <2>1, <2>2 DEF EntryOf, Entry, Parsed, Format
  <2>3. CASE Bars(Format(k)) # {}
    <3>1. Min(Bars(Format(k))) \in 1 .. Len(Format(k))
      BY <2>1, <2>3, BarsFacts
    <3>2. RemoveAt(Format(k), Min(Bars(Format(k)))) \in Seq(Marks)
      BY <2>1, <3>1, RemoveAtFacts
    <3>3. EntryOf(k) = [name |-> Startup[k].name, meta |-> FALSE,
                        marks |-> RemoveAt(Format(k), Min(Bars(Format(k)))),
                        target |-> Min(Bars(Format(k))) - 1]
      BY <1>2, <2>3 DEF EntryOf, Entry, Parsed, Format
    <3>4. Min(Bars(Format(k))) - 1 \in Nat
      BY <2>1, <3>1
    <3>5. /\ EntryOf(k).name = Startup[k].name /\ EntryOf(k).meta = FALSE
          /\ EntryOf(k).marks = RemoveAt(Format(k), Min(Bars(Format(k))))
          /\ EntryOf(k).target = Min(Bars(Format(k))) - 1
      BY <3>3
    <3>6. (Startup[k].kind = "meta") = FALSE
      BY <1>2
    <3> QED
      BY <3>2, <3>4, <3>5, <3>6, Zenon
  <2> QED
    BY <2>2, <2>3
<1> QED
  BY <1>1, <1>2

LEMMA StraightEntry ==
  ASSUME NEW k \in DOMAIN Startup, Startup[k].kind # "type", Bars(Format(k)) = {}
  PROVE  Startup[k].kind = "normal" => EntryOf(k).marks = Format(k)
  BY DEF EntryOf, Entry, Parsed, Format

LEMMA LoopedEntry ==
  ASSUME NEW k \in DOMAIN Startup, Startup[k].kind = "normal", Legal(k),
         Bars(Format(k)) # {}
  PROVE  LET first == Min(Bars(Format(k)))
             marks == EntryOf(k).marks
         IN  /\ EntryOf(k).target = first - 1
             /\ Len(marks) = Len(Format(k)) - 1
             /\ \A j \in 1 .. Len(Format(k)) - 1 :
                  marks[j] = IF j < first THEN Format(k)[j] ELSE Format(k)[j + 1]
<1>1. Format(k) \in Seq(Marks)
  BY StartupFacts DEF Format
<1>2. Min(Bars(Format(k))) \in 1 .. Len(Format(k))
  BY BarsFacts
<1>3. /\ EntryOf(k).target = Min(Bars(Format(k))) - 1
      /\ EntryOf(k).marks = RemoveAt(Format(k), Min(Bars(Format(k))))
  BY DEF EntryOf, Entry, Parsed, Format
<1> QED
  BY <1>1, <1>2, <1>3, RemoveAtFacts

LEMMA ChosenFacts ==
  ASSUME NEW nm, Registered(nm) # {}
  PROVE  /\ Min(Registered(nm)) \in Registered(nm)
         /\ Min(Registered(nm)) \in DOMAIN Startup
         /\ \A k \in Registered(nm) : Min(Registered(nm)) <= k
<1>1. \A k \in Registered(nm) : k \in DOMAIN Startup
  BY DEF Registered
<1>2. Registered(nm) \in SUBSET Nat
  <2>1. DOMAIN Startup = 1 .. Len(Startup) /\ Len(Startup) \in Nat
    BY StartupFacts
  <2> QED
    BY <1>1, <2>1
<1> QED
  BY <1>1, <1>2, MinFacts

LEMMA ChoiceIsNumber ==
  ASSUME NEW nm, Registered(nm) # {}
  PROVE  Min(Registered(nm)) \in Nat
<1>1. DOMAIN Startup = 1 .. Len(Startup) /\ Len(Startup) \in Nat
  BY StartupFacts
<1> QED
  BY <1>1, ChosenFacts

-----------------------------------------------------------------------------
(* The tables while main fills them: a type is found if it was registered, *)
(* a command is in its table with the first registration of its name.      *)
Choice(nm) == Min(Registered(nm))

TypeKnown ==
  \A nm \in DOMAIN Home :
    (\E i \in DOMAIN types : types[i].name = nm)
      <=> (\E k \in 1 .. loaded : Startup[k].kind = "type" /\ Startup[k].name = nm)

FirstWins ==
  \A i \in DOMAIN commands :
    /\ Registered(commands[i].name) # {} /\ Choice(commands[i].name) <= loaded
    /\ \E j \in DOMAIN commands :
         j <= i /\ commands[j] = EntryOf(Choice(commands[i].name))

AllStored ==
  \A k \in 1 .. loaded : k \in Registered(Startup[k].name) =>
    \E i \in DOMAIN commands : commands[i].name = Startup[k].name

Tables ==
  /\ loaded \in 0 .. Len(Startup)
  /\ IsTable(types) /\ Roomy(types, loaded, TRUE)
  /\ IsTable(commands) /\ Roomy(commands, loaded, FALSE)
  /\ TypeKnown /\ FirstWins /\ AllStored

LEMMA InitTables == Init => Tables
<1> SUFFICES ASSUME Init PROVE Tables
  OBVIOUS
<1>1. loaded = 0 /\ DOMAIN types = {} /\ DOMAIN commands = {}
  <2>1. DOMAIN <<>> = {}
    OBVIOUS
  <2> QED
    BY <2>1 DEF Init
<1>2. Len(Startup) \in Nat
  BY StartupFacts
<1>3. ASSUME NEW h \in 0 .. Size - 1, NEW ofType \in BOOLEAN
      PROVE  /\ Cardinality(Above(types, h)) <= Cardinality(Due(0, ofType, h))
             /\ Cardinality(Above(commands, h)) <= Cardinality(Due(0, ofType, h))
  <2>1. Above(types, h) = {} /\ Above(commands, h) = {} /\ Due(0, ofType, h) = {}
    BY <1>1 DEF Above, Due
  <2>2. Cardinality({}) = 0
    BY FS_EmptySet
  <2> QED
    BY <2>1, <2>2
<1>4. Roomy(types, loaded, TRUE) /\ Roomy(commands, loaded, FALSE)
  BY <1>1, <1>3 DEF Roomy
<1>5. TypeKnown /\ FirstWins /\ AllStored
  BY <1>1 DEF TypeKnown, FirstWins, AllStored
<1>6. IsTable(types) /\ IsTable(commands)
  BY <1>1 DEF IsTable
<1>7. loaded \in 0 .. Len(Startup)
  BY <1>1, <1>2
<1> QED
  BY <1>4, <1>5, <1>6, <1>7 DEF Tables

(* A format string is accepted if it should be.                            *)
LEMMA AcceptedIsLegal ==
  ASSUME Tables, loaded < Len(Startup), Startup[loaded + 1].kind = "normal"
  PROVE  Accepted(Startup[loaded + 1].format, Startup[loaded + 1].type)
           <=> Legal(loaded + 1)
<1> DEFINE s == Startup[loaded + 1]
           keyed == ToSet(s.format) \cap KeyMarks # {}
<1>1. /\ loaded \in 0 .. Len(Startup) /\ IsTable(types) /\ Roomy(types, loaded, TRUE)
      /\ TypeKnown
  BY DEF Tables
<1>2. Len(Startup) \in Nat /\ loaded + 1 \in DOMAIN Startup
  BY <1>1, NextRegistration
<1>3. s.type \in DOMAIN Home \cup {""} /\ (keyed => s.type # "")
  BY <1>2, StartupFacts, FormatAssumption
<1>4. ASSUME keyed
      PROVE  Found(types, s.type) <=>
               \E i \in 1 .. loaded : Startup[i].kind = "type" /\ Startup[i].name = s.type
  <2>1. s.type \in DOMAIN Home
    BY <1>3, <1>4
  <2>2. Found(types, s.type) <=> \E i \in DOMAIN types : types[i].name = s.type
    <3>1. \A nm \in DOMAIN Home :
            Found(types, nm) <=> \E i \in DOMAIN types : types[i].name = nm
      BY <1>1, FetchFinds DEF First
    <3> QED
      BY <2>1, <3>1
  <2> QED
    BY <1>1, <2>1, <2>2 DEF TypeKnown
<1>5. (loaded + 1) - 1 = loaded
  BY <1>1
<1> QED
  BY <1>4, <1>5 DEF Accepted, Legal

(* A type is stored.                                                       *)
LEMMA LoadType ==
  ASSUME Tables, loaded < Len(Startup), loaded' = loaded + 1,
         Startup[loaded + 1].kind = "type", UNCHANGED commands,
         types' = Store(types, Entry(Startup[loaded + 1].name, FALSE, <<>>, 0))
  PROVE  Tables'
<1> DEFINE k == loaded + 1
           e == Entry(Startup[k].name, FALSE, <<>>, 0)
<1>1. /\ loaded \in 0 .. Len(Startup)
      /\ IsTable(types) /\ Roomy(types, loaded, TRUE)
      /\ IsTable(commands) /\ Roomy(commands, loaded, FALSE)
      /\ TypeKnown /\ FirstWins /\ AllStored
  BY DEF Tables
<1>2. /\ Len(Startup) \in Nat /\ loaded \in 0 .. Len(Startup) - 1
      /\ k \in 0 .. Len(Startup) /\ k \in DOMAIN Startup
  BY <1>1, NextRegistration
<1>3. e.name = Startup[k].name /\ e.name \in DOMAIN Home
  BY <1>2, StartupFacts DEF Entry
<1>4. IsTable(types') /\ Roomy(types', k, TRUE)
  <2>1. IsTable(Store(types, e))
    BY <1>1, <1>3, StoreKeepsTable
  <2>2. (Startup[k].kind = "type") = TRUE
    OBVIOUS
  <2>3. Roomy(Store(types, e), k, TRUE)
    BY <1>1, <1>2, <1>3, <2>2, RoomStored
  <2> QED
    BY <2>1, <2>3
<1>5. IsTable(commands') /\ Roomy(commands', k, FALSE)
  BY <1>1, <1>2, RoomKept
<1>6. PICK s \in 0 .. Size - 1 : Puts(types, e, s, types')
  BY <1>1, <1>3, StorePuts
<1> HIDE DEF e
<1>7. TypeKnown'
  <2> SUFFICES ASSUME NEW nm \in DOMAIN Home
               PROVE  (\E i \in DOMAIN types' : types'[i].name = nm) <=>
                      (\E j \in 1 .. k : /\ Startup[j].kind = "type"
                                         /\ Startup[j].name = nm)
    BY DEF TypeKnown
  <2>1. (\E i \in DOMAIN types' : types'[i].name = nm) <=>
        ((\E i \in DOMAIN types : types[i].name = nm) \/ e.name = nm)
    BY <1>6 DEF Puts
  <2>2. (\E j \in 1 .. k : Startup[j].kind = "type" /\ Startup[j].name = nm) <=>
        ((\E j \in 1 .. loaded : Startup[j].kind = "type" /\ Startup[j].name = nm)
           \/ Startup[k].name = nm)
    BY <1>1, <1>2
  <2> QED
    BY <1>1, <1>3, <2>1, <2>2 DEF TypeKnown
<1>8. FirstWins'
  <2>1. \A n \in Int : n <= loaded => n <= k
    BY <1>1
  <2> SUFFICES ASSUME NEW i \in DOMAIN commands
               PROVE  /\ Registered(commands[i].name) # {}
                      /\ Choice(commands[i].name) <= k
                      /\ \E j \in DOMAIN commands :
                           j <= i /\ commands[j] = EntryOf(Choice(commands[i].name))
    BY DEF FirstWins
  <2>2. /\ Registered(commands[i].name) # {}
        /\ Choice(commands[i].name) <= loaded
        /\ \E j \in DOMAIN commands :
             j <= i /\ commands[j] = EntryOf(Choice(commands[i].name))
    BY <1>1 DEF FirstWins
  <2>3. Choice(commands[i].name) \in Int
    BY <2>2, ChoiceIsNumber DEF Choice
  <2> QED
    BY <2>1, <2>2, <2>3
<1>9. AllStored'
  <2>1. k \notin Registered(Startup[k].name)
    BY DEF Registered
  <2>2. \A j \in 1 .. k : j = k \/ j \in 1 .. loaded
    BY <1>1
  <2> QED
    BY <1>1, <2>1, <2>2 DEF AllStored
<1> QED
  BY <1>2, <1>4, <1>5, <1>7, <1>8, <1>9 DEF Tables

(* A command is stored, or refused.                                        *)
LEMMA LoadCommand ==
  ASSUME Tables, loaded < Len(Startup), loaded' = loaded + 1,
         Startup[loaded + 1].kind # "type", Legal(loaded + 1), UNCHANGED types,
         commands' = Store(commands, EntryOf(loaded + 1))
  PROVE  Tables'
<1> DEFINE k == loaded + 1
           e == EntryOf(k)
           nm == Startup[k].name
<1>1. /\ loaded \in 0 .. Len(Startup)
      /\ IsTable(types) /\ Roomy(types, loaded, TRUE)
      /\ IsTable(commands) /\ Roomy(commands, loaded, FALSE)
      /\ TypeKnown /\ FirstWins /\ AllStored
  BY DEF Tables
<1>2. /\ Len(Startup) \in Nat /\ loaded \in 0 .. Len(Startup) - 1
      /\ k \in 0 .. Len(Startup) /\ k \in DOMAIN Startup
  BY <1>1, NextRegistration
<1>3. e.name = nm /\ e.name \in DOMAIN Home
  BY <1>2, StartupFacts, EntryFacts
<1>4. k \in Registered(nm)
  BY <1>2 DEF Registered
<1>5. IsTable(types') /\ Roomy(types', k, TRUE)
  BY <1>1, <1>2, RoomKept
<1>6. IsTable(commands') /\ Roomy(commands', k, FALSE)
  <2>1. IsTable(Store(commands, e))
    BY <1>1, <1>3, StoreKeepsTable
  <2>2. (Startup[k].kind = "type") = FALSE
    OBVIOUS
  <2>3. Roomy(Store(commands, e), k, FALSE)
    BY <1>1, <1>2, <1>3, <2>2, RoomStored
  <2> QED
    BY <2>1, <2>3
<1>7. PICK s \in 0 .. Size - 1 : Puts(commands, e, s, commands')
  BY <1>1, <1>3, StorePuts
<1> HIDE DEF e
<1>8. TypeKnown'
  <2>1. \A j \in 1 .. k : j = k \/ j \in 1 .. loaded
    BY <1>1
  <2>2. \A j \in 1 .. loaded : j \in 1 .. k
    BY <1>1
  <2> QED
    BY <1>1, <2>1, <2>2 DEF TypeKnown
<1>9. FirstWins'
  <2> SUFFICES ASSUME NEW i \in DOMAIN commands'
               PROVE  /\ Registered(commands'[i].name) # {}
                      /\ Choice(commands'[i].name) <= k
                      /\ \E j \in DOMAIN commands' :
                           /\ j <= i
                           /\ commands'[j] = EntryOf(Choice(commands'[i].name))
    BY DEF FirstWins
  <2>1. CASE i \in DOMAIN commands
    <3>1. commands'[i] = commands[i] /\ DOMAIN commands \subseteq DOMAIN commands'
      BY <1>7, <2>1 DEF Puts
    <3>2. PICK j \in DOMAIN commands :
            j <= i /\ commands[j] = EntryOf(Choice(commands[i].name))
      BY <1>1, <2>1 DEF FirstWins
    <3>3. commands'[j] = commands[j]
      BY <1>7 DEF Puts
    <3>4. Registered(commands[i].name) # {} /\ Choice(commands[i].name) <= loaded
      BY <1>1, <2>1 DEF FirstWins
    <3>5. Choice(commands[i].name) \in Nat
      BY <3>4, ChoiceIsNumber DEF Choice
    <3>6. Choice(commands[i].name) <= k
      BY <1>1, <3>4, <3>5
    <3> QED
      BY <3>1, <3>2, <3>3, <3>4, <3>6
  <2>2. CASE i = s
    <3>1. commands'[s].name = nm /\ s \in DOMAIN commands' /\ commands'[s] = e
      BY <1>3, <1>7 DEF Puts
    <3>2. /\ Choice(nm) \in Registered(nm) /\ Choice(nm) \in Nat
          /\ Choice(nm) <= k /\ Choice(nm) \in DOMAIN Startup
      BY <1>4, ChosenFacts, ChoiceIsNumber DEF Choice
    <3>3. CASE Choice(nm) = k
      BY <1>4, <2>2, <3>1, <3>2, <3>3 DEF e
    <3>4. CASE Choice(nm) # k
      <4>1. Choice(nm) \in 1 .. loaded /\ Startup[Choice(nm)].name = nm
        <5>1. Choice(nm) \in 1 .. Len(Startup)
          BY <3>2, StartupFacts
        <5> QED
          BY <1>1, <3>2, <3>4, <5>1 DEF Registered
      <4>2. PICK i0 \in DOMAIN commands : commands[i0].name = nm
        BY <1>1, <3>2, <4>1 DEF AllStored
      <4>3. PICK j \in DOMAIN commands : commands[j] = EntryOf(Choice(nm))
        BY <1>1, <4>2 DEF FirstWins
      <4>4. commands[j].name = nm
        BY <3>2, <4>1, <4>3, EntryFacts DEF Registered
      <4>5. /\ j \in 0 .. Size - 1 /\ Home[nm] .. j \subseteq DOMAIN commands
        BY <1>1, <4>4 DEF IsTable
      <4>6. s \notin DOMAIN commands /\ Home[nm] <= s
        BY <1>3, <1>7 DEF Puts
      <4>7. Home[nm] \in Nat /\ Size \in Nat
        BY <1>3, HomeAssumption, SizeAssumption
      <4>8. j <= s
        BY <4>5, <4>6, <4>7
      <4>9. commands'[j] = commands[j] /\ j \in DOMAIN commands'
        BY <1>7 DEF Puts
      <4> QED
        BY <1>4, <2>2, <3>1, <3>2, <4>3, <4>8, <4>9
    <3> QED
      BY <3>3, <3>4
  <2> QED
    BY <1>7, <2>1, <2>2 DEF Puts
<1>10. AllStored'
  <2>1. \A j \in 1 .. k : j = k \/ j \in 1 .. loaded
    BY <1>1
  <2>2. commands'[s].name = nm /\ s \in DOMAIN commands'
    BY <1>3, <1>7 DEF Puts
  <2>3. \A i \in DOMAIN commands : i \in DOMAIN commands' /\ commands'[i] = commands[i]
    BY <1>7 DEF Puts
  <2> QED
    BY <1>1, <2>1, <2>2, <2>3 DEF AllStored
<1> QED
  BY <1>2, <1>5, <1>6, <1>8, <1>9, <1>10 DEF Tables

LEMMA LoadRefused ==
  ASSUME Tables, loaded < Len(Startup), loaded' = loaded + 1,
         Startup[loaded + 1].kind # "type", ~Legal(loaded + 1),
         UNCHANGED <<types, commands>>
  PROVE  Tables'
<1> DEFINE k == loaded + 1
<1>1. /\ loaded \in 0 .. Len(Startup)
      /\ IsTable(types) /\ Roomy(types, loaded, TRUE)
      /\ IsTable(commands) /\ Roomy(commands, loaded, FALSE)
      /\ TypeKnown /\ FirstWins /\ AllStored
  BY DEF Tables
<1>2. /\ Len(Startup) \in Nat /\ loaded \in 0 .. Len(Startup) - 1
      /\ k \in 0 .. Len(Startup) /\ k \in DOMAIN Startup
  BY <1>1, NextRegistration
<1>3. \A j \in 1 .. k : j = k \/ j \in 1 .. loaded
  BY <1>1
<1>4. \A j \in 1 .. loaded : j \in 1 .. k
  BY <1>1
<1>5. /\ IsTable(types') /\ Roomy(types', k, TRUE)
      /\ IsTable(commands') /\ Roomy(commands', k, FALSE)
  BY <1>1, <1>2, RoomKept
<1>6. TypeKnown'
  BY <1>1, <1>3, <1>4 DEF TypeKnown
<1>7. FirstWins'
  <2>1. ASSUME NEW i \in DOMAIN commands
        PROVE  Choice(commands[i].name) <= k
    <3>1. Registered(commands[i].name) # {} /\ Choice(commands[i].name) <= loaded
      BY <1>1 DEF FirstWins
    <3>2. Choice(commands[i].name) \in Nat
      BY <3>1, ChoiceIsNumber DEF Choice
    <3> QED
      BY <1>1, <3>1, <3>2
  <2> QED
    BY <1>1, <2>1 DEF FirstWins
<1>8. AllStored'
  <2>1. k \notin Registered(Startup[k].name)
    BY DEF Registered
  <2> QED
    BY <1>1, <1>3, <2>1 DEF AllStored
<1> QED
  BY <1>2, <1>5, <1>6, <1>7, <1>8 DEF Tables

(* Loading never passes the last slot.                                     *)
LEMMA LoadTables == Tables /\ Load => Tables' /\ pc' = pc
<1> SUFFICES ASSUME Tables, Load PROVE Tables' /\ pc' = pc
  OBVIOUS
<1> DEFINE k == loaded + 1
           s == Startup[k]
<1>1. /\ loaded < Len(Startup) /\ loaded' = loaded + 1
      /\ loaded \in 0 .. Len(Startup)
      /\ IsTable(types) /\ Roomy(types, loaded, TRUE)
      /\ IsTable(commands) /\ Roomy(commands, loaded, FALSE)
  BY DEF Load, Tables
<1>2. k \in DOMAIN Startup
  BY <1>1, NextRegistration
<1>3. s.name \in DOMAIN Home
  BY <1>2, StartupFacts
<1>4. Free(types, s.name) # {}
  BY <1>1, <1>3, ProbingEnds
<1>5. Free(commands, s.name) # {}
  BY <1>1, <1>3, ProbingEnds
<1>6. CASE /\ s.kind = "type"
           /\ types' = Store(types, Entry(s.name, FALSE, <<>>, 0))
           /\ UNCHANGED <<commands, pc>>
  BY <1>1, <1>6, LoadType
<1>7. CASE /\ s.kind = "meta"
           /\ commands' = Store(commands, Entry(s.name, TRUE, <<>>, 0))
           /\ UNCHANGED <<types, pc>>
  <2>1. Legal(k) /\ EntryOf(k) = Entry(s.name, TRUE, <<>>, 0)
    BY <1>7 DEF Legal, EntryOf
  <2> QED
    BY <1>1, <1>7, <2>1, LoadCommand
<1>8. CASE /\ s.kind = "normal"
           /\ commands' = IF Accepted(s.format, s.type)
                          THEN Store(commands, Parsed(s.name, s.format)) ELSE commands
           /\ UNCHANGED <<types, pc>>
  <2>1. Accepted(s.format, s.type) <=> Legal(k)
    BY <1>1, <1>8, AcceptedIsLegal
  <2>2. EntryOf(k) = Parsed(s.name, s.format)
    BY <1>8 DEF EntryOf
  <2>3. CASE Legal(k)
    BY <1>1, <1>8, <2>1, <2>2, <2>3, LoadCommand
  <2>4. CASE ~Legal(k)
    BY <1>1, <1>8, <2>1, <2>4, LoadRefused
  <2> QED
    BY <2>3, <2>4
<1> QED
  BY <1>4, <1>5, <1>6, <1>7, <1>8 DEF Load

-----------------------------------------------------------------------------
(* The walk over a format string with a repeated part, in numbers: n       *)
(* arguments, a of them taken, p the node.  Up to the jump node, the       *)
(* distance of a and p is what the repetitions have taken, whole ones; and *)
(* there is room for one more among the arguments that are for the         *)
(* repeated part.  Behind the jump node there are as many nodes left as    *)
(* arguments.                                                              *)
Repeated(format, n) == n - (Min(Bars(format)) - 1) - Rest(format)

Whole(format, n, a, p) ==
  IF p <= Max(Bars(format)) - 2
  THEN /\ a - p \in Nat /\ (a - p) % Round(format) = 0
       /\ a - p + Round(format) <= Repeated(format, n)
  ELSE n - a = Len(format) - 1 - p

Placed(format, n, a, p) ==
  /\ p < Min(Bars(format)) - 1 => p = a
  /\ p > Max(Bars(format)) - 2 => n - a <= Len(format) - 1 - p
  /\ Fits(format, n) => Whole(format, n, a, p)

LEMMA Multiples ==
  ASSUME NEW M \in Nat \ {0}, NEW x \in Nat, x % M = 0
  PROVE  /\ (x + M) % M = 0
         /\ \A r \in 0 .. M - 1 : (x + r) % M = r
         /\ \A y \in Nat : y % M = 0 /\ x < y => x + M <= y
<1> DEFINE q == x \div M
<1>1. q \in Nat /\ x = q * M + 0
  BY DEF q
<1> HIDE DEF q
<1>2. q + 1 \in Nat /\ x + M = (q + 1) * M + 0 /\ 0 < M
  BY <1>1
<1>3. (x + M) % M = 0
  <2>1. ((q + 1) * M + 0) % M = 0
    BY <1>2, DivisionUnique
  <2> QED
    BY <1>2, <2>1
<1>4. ASSUME NEW r \in 0 .. M - 1
      PROVE  (x + r) % M = r
  <2>1. (q * M + r) % M = r
    BY <1>1, <1>4, DivisionUnique
  <2> QED
    BY <1>1, <2>1
<1>5. ASSUME NEW y \in Nat, y % M = 0, x < y
      PROVE  x + M <= y
  <2> DEFINE d == y \div M
  <2>1. d \in Nat /\ y = d * M
    BY <1>5 DEF d
  <2> HIDE DEF d
  <2>2. ~(d <= q)
    <3> SUFFICES ASSUME d <= q PROVE FALSE
      OBVIOUS
    <3>1. d * M <= q * M
      BY <1>1, <2>1
    <3> QED
      BY <1>1, <1>5, <2>1, <3>1
  <2>3. d >= q + 1
    BY <1>1, <2>1, <2>2
  <2>4. d * M >= (q + 1) * M
    BY <1>1, <2>1, <2>3
  <2> QED
    BY <1>2, <2>1, <2>4
<1> QED
  BY <1>3, <1>4, <1>5

(* The numbers of a format string with a repeated part.                    *)
LEMMA LoopFacts ==
  ASSUME NEW k \in DOMAIN Startup, Startup[k].kind = "normal", Legal(k),
         Bars(Format(k)) # {}
  PROVE  LET f == Min(Bars(Format(k)))
             s == Max(Bars(Format(k)))
             N == Len(Format(k))
         IN  /\ N \in Nat /\ f \in 1 .. N /\ s \in 1 .. N
             /\ Round(Format(k)) \in Nat \ {0} /\ Round(Format(k)) = s - f - 1
             /\ Rest(Format(k)) = N - s /\ Rest(Format(k)) \in Nat
             /\ \A i \in 1 .. N : Format(k)[i] = "|" <=> i = f \/ i = s
             /\ EntryOf(k).target = f - 1 /\ Len(EntryOf(k).marks) = N - 1
             /\ \A j \in 1 .. N - 1 : EntryOf(k).marks[j] =
                  IF j < f THEN Format(k)[j] ELSE Format(k)[j + 1]
<1> DEFINE f == Min(Bars(Format(k)))
           s == Max(Bars(Format(k)))
           N == Len(Format(k))
<1>1. N \in Nat /\ f \in 1 .. N /\ s \in 1 .. N /\ s - f > 1 /\ Bars(Format(k)) = {f, s}
  BY BarsFacts
<1>2. Format(k) \in Seq(Marks)
  BY StartupFacts DEF Format
<1>3. DOMAIN Format(k) = 1 .. N
  BY <1>2
<1>4. \A i \in 1 .. N : Format(k)[i] = "|" <=> i = f \/ i = s
  <2>1. \A i \in 1 .. N : Format(k)[i] = "|" <=> i \in Bars(Format(k))
    BY <1>3 DEF Bars
  <2> QED
    BY <1>1, <2>1
<1>5. Round(Format(k)) = s - f - 1 /\ Rest(Format(k)) = N - s
  BY DEF Round, Rest
<1> HIDE DEF f, s, N
<1>6. s - f - 1 \in Nat \ {0} /\ N - s \in Nat
  BY <1>1
<1>7. /\ EntryOf(k).target = f - 1 /\ Len(EntryOf(k).marks) = N - 1
      /\ \A j \in 1 .. N - 1 : EntryOf(k).marks[j] =
           IF j < f THEN Format(k)[j] ELSE Format(k)[j + 1]
  BY LoopedEntry DEF f, s, N
<1> QED
  BY <1>1, <1>4, <1>5, <1>6, <1>7 DEF f, s, N

(* The walk begins in place, and a node that takes an argument keeps it.   *)
LEMMA PlacedFirst ==
  ASSUME NEW k \in DOMAIN Startup, Startup[k].kind = "normal", Legal(k),
         Bars(Format(k)) # {}, NEW n \in Nat, Len(EntryOf(k).marks) <= n
  PROVE  Placed(Format(k), n, 0, 0)
<1> DEFINE f == Min(Bars(Format(k)))
           s == Max(Bars(Format(k)))
           N == Len(Format(k))
           M == Round(Format(k))
           R == Rest(Format(k))
<1>1. /\ N \in Nat /\ f \in 1 .. N /\ s \in 1 .. N /\ M \in Nat \ {0} /\ M = s - f - 1
      /\ R = N - s /\ N - 1 <= n
  BY LoopFacts
<1> HIDE DEF f, s, N, M, R
<1>2. 0 % M = 0
  BY <1>1
<1>3. 0 <= s - 2 /\ 0 + M <= n - (f - 1) - R
  BY <1>1
<1>4. Whole(Format(k), n, 0, 0)
  BY <1>1, <1>2, <1>3 DEF Whole, Repeated, f, s, N, M, R
<1> QED
  BY <1>1, <1>3, <1>4 DEF Placed, f, s, N, M, R

LEMMA PlacedOn ==
  ASSUME NEW k \in DOMAIN Startup, Startup[k].kind = "normal", Legal(k),
         Bars(Format(k)) # {}, NEW n \in Nat, NEW a \in Nat, NEW p \in Nat,
         Placed(Format(k), n, a, p), p # Max(Bars(Format(k))) - 2
  PROVE  Placed(Format(k), n, a + 1, p + 1)
<1> DEFINE f == Min(Bars(Format(k)))
           s == Max(Bars(Format(k)))
           N == Len(Format(k))
<1>1. N \in Nat /\ f \in 1 .. N /\ s \in 1 .. N
  BY LoopFacts
<1>2. /\ p # s - 2
      /\ p < f - 1 => p = a
      /\ p > s - 2 => n - a <= N - 1 - p
      /\ Fits(Format(k), n) => Whole(Format(k), n, a, p)
  BY DEF Placed
<1> HIDE DEF f, s, N
<1>3. (a + 1) - (p + 1) = a - p /\ (p <= s - 2 <=> p + 1 <= s - 2)
  BY <1>1, <1>2
<1>4. Whole(Format(k), n, a, p) => Whole(Format(k), n, a + 1, p + 1)
  <2>1. CASE p <= s - 2
    BY <1>3, <2>1 DEF Whole, s
  <2>2. CASE ~(p <= s - 2)
    <3>1. n - a = N - 1 - p => n - (a + 1) = N - 1 - (p + 1)
      BY <1>1
    <3> QED
      BY <1>3, <2>2, <3>1 DEF Whole, s, N
  <2> QED
    BY <2>1, <2>2
<1>5. /\ p + 1 < f - 1 => p + 1 = a + 1
      /\ p + 1 > s - 2 => n - (a + 1) <= N - 1 - (p + 1)
  BY <1>1, <1>2
<1> QED
  BY <1>2, <1>4, <1>5 DEF Placed, f, s, N

(* The jump node, which takes no argument, keeps it too.                   *)
LEMMA PlacedJump ==
  ASSUME NEW k \in DOMAIN Startup, Startup[k].kind = "normal", Legal(k),
         Bars(Format(k)) # {}, NEW n \in Nat, NEW a \in Nat,
         Placed(Format(k), n, a, Max(Bars(Format(k))) - 2)
  PROVE  LET f == Min(Bars(Format(k)))
             s == Max(Bars(Format(k)))
         IN  /\ n - a > Len(Format(k)) - s => Placed(Format(k), n, a, f - 1)
             /\ ~(n - a > Len(Format(k)) - s) => Placed(Format(k), n, a, s - 1)
<1> DEFINE f == Min(Bars(Format(k)))
           s == Max(Bars(Format(k)))
           N == Len(Format(k))
           M == Round(Format(k))
           R == Rest(Format(k))
           T == Repeated(Format(k), n)
<1>1. /\ N \in Nat /\ f \in 1 .. N /\ s \in 1 .. N /\ M \in Nat \ {0} /\ M = s - f - 1
      /\ R = N - s
  BY LoopFacts
<1>2. T = n - (f - 1) - R
  BY DEF Repeated
<1>3. Fits(Format(k), n) =>
        /\ a - (s - 2) \in Nat /\ (a - (s - 2)) % M = 0
        /\ a - (s - 2) + M <= T /\ T % M = 0
  <2>1. s - 2 <= s - 2
    BY <1>1
  <2> QED
    BY <2>1 DEF Placed, Whole, Fits, Repeated
<1> HIDE DEF f, s, N, M, R, T
<1>4. ASSUME n - a > N - s
      PROVE  Placed(Format(k), n, a, f - 1)
  <2>1. ASSUME Fits(Format(k), n)
        PROVE  Whole(Format(k), n, a, f - 1)
    <3> DEFINE x == a - (s - 2)
    <3>1. x \in Nat /\ x % M = 0 /\ x + M <= T /\ T % M = 0 /\ T \in Nat
      BY <1>1, <1>2, <1>3, <2>1
    <3>2. a - (f - 1) = x + M
      BY <1>1
    <3>3. x + M < T
      BY <1>1, <1>2, <1>4
    <3> HIDE DEF x
    <3>4. (x + M) % M = 0 /\ x + M \in Nat
      BY <1>1, <3>1, Multiples
    <3>5. (x + M) + M <= T
      BY <1>1, <3>1, <3>3, <3>4, Multiples
    <3>6. f - 1 <= s - 2
      BY <1>1
    <3> QED
      BY <3>2, <3>4, <3>5, <3>6 DEF Whole, f, s, M, T
  <2>2. ~(f - 1 < f - 1) /\ ~(f - 1 > s - 2)
    BY <1>1
  <2> QED
    BY <2>1, <2>2 DEF Placed, f, s
<1>5. ASSUME ~(n - a > N - s)
      PROVE  Placed(Format(k), n, a, s - 1)
  <2>1. ~(s - 1 < f - 1) /\ ~(s - 1 <= s - 2) /\ n - a <= N - 1 - (s - 1)
    BY <1>1, <1>5
  <2>2. ASSUME Fits(Format(k), n)
        PROVE  n - a = N - 1 - (s - 1)
    BY <1>1, <1>2, <1>3, <1>5, <2>2
  <2> QED
    BY <2>1, <2>2 DEF Placed, Whole, f, s, N
<1> QED
  BY <1>4, <1>5 DEF f, s, N

(* The jump is the node before the second bar's place.                     *)
LEMMA JumpMark ==
  ASSUME NEW k \in DOMAIN Startup, Startup[k].kind = "normal", Legal(k),
         Bars(Format(k)) # {}, NEW p \in Nat, p < Len(EntryOf(k).marks)
  PROVE  EntryOf(k).marks[p + 1] = "|" <=> p = Max(Bars(Format(k))) - 2
<1> DEFINE f == Min(Bars(Format(k)))
           s == Max(Bars(Format(k)))
           N == Len(Format(k))
           marks == EntryOf(k).marks
<1>1. /\ N \in Nat /\ f \in 1 .. N /\ s \in 1 .. N /\ s - f - 1 \in Nat \ {0}
      /\ \A i \in 1 .. N : Format(k)[i] = "|" <=> i = f \/ i = s
      /\ Len(marks) = N - 1
      /\ \A j \in 1 .. N - 1 :
           marks[j] = IF j < f THEN Format(k)[j] ELSE Format(k)[j + 1]
  BY LoopFacts
<1>2. p < N - 1
  BY <1>1
<1> HIDE DEF f, s, N, marks
<1>3. p + 1 \in 1 .. N - 1 /\ p + 1 \in 1 .. N /\ p + 2 \in 1 .. N
  BY <1>1, <1>2
<1>4. marks[p + 1] = IF p + 1 < f THEN Format(k)[p + 1] ELSE Format(k)[p + 2]
  <2>1. (p + 1) + 1 = p + 2
    OBVIOUS
  <2> QED
    BY <1>1, <1>3, <2>1
<1>5. marks[p + 1] = "|" <=> p = s - 2
  <2>1. CASE p + 1 < f
    <3>1. ~(p + 1 = f \/ p + 1 = s) /\ p # s - 2
      BY <1>1, <2>1
    <3> QED
      BY <1>1, <1>3, <1>4, <2>1, <3>1
  <2>2. CASE ~(p + 1 < f)
    <3>1. (p + 2 = f \/ p + 2 = s) <=> p = s - 2
      BY <1>1, <2>2
    <3> QED
      BY <1>1, <1>3, <1>4, <2>2, <3>1
  <2> QED
    BY <2>1, <2>2
<1> QED
  BY <1>5 DEF s, marks

(* The node at the place of an argument has the mark that is meant for it. *)
LEMMA LoopMark ==
  ASSUME NEW k \in DOMAIN Startup, Startup[k].kind = "normal", Legal(k),
         Bars(Format(k)) # {}, NEW n \in Nat, NEW a \in Nat, NEW p \in Nat,
         Fits(Format(k), n), Placed(Format(k), n, a, p),
         Len(EntryOf(k).marks) <= n, a < n, p < Len(EntryOf(k).marks),
         p # Max(Bars(Format(k))) - 2
  PROVE  EntryOf(k).marks[p + 1] = Meant(Format(k), a + 1, n)
<1> DEFINE f == Min(Bars(Format(k)))
           s == Max(Bars(Format(k)))
           N == Len(Format(k))
           M == Round(Format(k))
           R == Rest(Format(k))
           marks == EntryOf(k).marks
           x == a - p
<1>1. /\ N \in Nat /\ f \in 1 .. N /\ s \in 1 .. N /\ M \in Nat \ {0} /\ M = s - f - 1
      /\ R = N - s
      /\ Len(marks) = N - 1
      /\ \A j \in 1 .. N - 1 :
           marks[j] = IF j < f THEN Format(k)[j] ELSE Format(k)[j + 1]
  BY LoopFacts
<1>2. Meant(Format(k), a + 1, n) =
        IF a + 1 < f THEN Format(k)[a + 1]
        ELSE IF a + 1 > n - R THEN Format(k)[N - n + (a + 1)]
        ELSE Format(k)[f + 1 + (((a + 1) - f) % M)]
  BY DEF Meant
<1>3. p < f - 1 => p = a
  BY DEF Placed
<1>4. IF p <= s - 2
      THEN x \in Nat /\ x % M = 0 /\ x + M <= n - (f - 1) - R
      ELSE n - a = N - 1 - p
  BY DEF Placed, Whole, Repeated
<1>5. p < N - 1 /\ N - 1 <= n
  BY <1>1
<1> HIDE DEF f, s, N, M, R, marks, x
<1>6. p + 1 \in 1 .. N - 1 /\ p + 1 \in 1 .. N /\ p + 2 \in 1 .. N
  BY <1>1, <1>5
<1>7. marks[p + 1] = IF p + 1 < f THEN Format(k)[p + 1] ELSE Format(k)[p + 2]
  <2>1. (p + 1) + 1 = p + 2
    OBVIOUS
  <2> QED
    BY <1>1, <1>6, <2>1
<1>8. p # s - 2
  BY DEF s
<1>9. marks[p + 1] = Meant(Format(k), a + 1, n)
  <2>1. CASE p + 1 < f
    BY <1>1, <1>2, <1>3, <1>7, <2>1
  <2>2. CASE ~(p + 1 < f) /\ p <= s - 2
    <3>1. x \in Nat /\ x % M = 0 /\ x + M <= n - (f - 1) - R
      BY <1>4, <2>2
    <3>2. a = x + p
      BY DEF x
    <3>3. p + 1 - f \in 0 .. M - 1
      BY SMTT(60), <1>1, <1>8, <2>2
    <3>4. ~(a + 1 < f) /\ ~(a + 1 > n - R) /\ (a + 1) - f = x + (p + 1 - f)
      BY <1>1, <1>8, <2>2, <3>1, <3>2
    <3>5. (x + (p + 1 - f)) % M = p + 1 - f
      BY <1>1, <3>1, <3>3, Multiples
    <3>6. f + 1 + (p + 1 - f) = p + 2
      BY <1>1
    <3> QED
      BY <1>2, <1>7, <2>2, <3>4, <3>5, <3>6
  <2>3. CASE ~(p <= s - 2)
    <3>1. ~(p + 1 < f)
      BY <1>1, <2>3
    <3>2. n - a = N - 1 - p
      BY <1>4, <2>3
    <3>3. ~(a + 1 < f) /\ a + 1 > n - R /\ N - n + (a + 1) = p + 2
      BY <1>1, <1>5, <2>3, <3>2
    <3> QED
      BY <1>2, <1>7, <3>1, <3>3
  <2> QED
    BY <2>1, <2>2, <2>3
<1> QED
  BY <1>9 DEF marks

(* A node out of its place would be outside of the format string.          *)
LEMMA PlacedInside ==
  ASSUME NEW k \in DOMAIN Startup, Startup[k].kind = "normal", Legal(k),
         Bars(Format(k)) # {}, NEW n \in Nat, NEW a \in Nat, NEW p \in Nat,
         Placed(Format(k), n, a, p), a < n
  PROVE  p < Len(EntryOf(k).marks)
<1> DEFINE s == Max(Bars(Format(k)))
           N == Len(Format(k))
<1>1. N \in Nat /\ s \in 1 .. N /\ Len(EntryOf(k).marks) = N - 1
  BY LoopFacts
<1>2. p > s - 2 => n - a <= N - 1 - p
  BY DEF Placed
<1> HIDE DEF s, N
<1> QED
  BY <1>1, <1>2

-----------------------------------------------------------------------------
(* The request in service: its entry is the one its first registration     *)
(* makes, the node is in place, and the arguments were accessed as meant.  *)
Busy == {"fetch", "resolve", "run", "refused", "unknown", "astray", "crashed"}
Held == {"resolve", "run", "refused", "astray", "crashed"}

Served ==
  /\ pc \in {"start", "idle"} \cup Busy
  /\ pc # "start" => loaded = Len(Startup)
  /\ argc \in 0 .. MaxArgs /\ node \in Nat
  /\ access \in Seq({"S", "R", "r", "W"}) /\ Len(access) <= argc
  /\ pc \in Busy => name \in Requests
  /\ pc = "fetch" => access = <<>> /\ node = 0
  /\ pc = "unknown" => Registered(name) = {}

Chosen ==
  pc \in Held =>
    /\ Registered(name) # {} /\ entry = EntryOf(Choice(name))
    /\ pc \in {"resolve", "astray", "crashed"} => Startup[Choice(name)].kind = "normal"
    /\ Startup[Choice(name)].kind = "meta" => access = <<>>

Walking ==
  pc = "resolve" =>
    LET format == Format(Choice(name)) IN
    /\ Nodes <= argc
    /\ Arg <= Nodes => IF Bars(format) = {} THEN node = Arg
                       ELSE Placed(format, argc, Arg, node)

AsMeant ==
  pc \in Held =>
    LET format == Format(Choice(name)) IN
    /\ Fits(format, argc) =>
         \A j \in 1 .. Len(access) :
           j <= Nodes + (IF Bars(format) = {} THEN 0 ELSE 1)
             => access[j] = Meant(format, j, argc)
    /\ pc = "astray" => Bars(format) = {} /\ argc > Len(format)

CommandInv == Tables /\ Served /\ Chosen /\ Walking /\ AsMeant

LEMMA ChoiceFacts ==
  ASSUME NEW nm, Registered(nm) # {}
  PROVE  /\ Choice(nm) \in DOMAIN Startup /\ Startup[Choice(nm)].kind # "type"
         /\ Startup[Choice(nm)].name = nm /\ Legal(Choice(nm))
         /\ EntryOf(Choice(nm)).name = nm
         /\ EntryOf(Choice(nm)).meta = (Startup[Choice(nm)].kind = "meta")
         /\ Startup[Choice(nm)].kind = "meta" \/ Startup[Choice(nm)].kind = "normal"
         /\ Len(EntryOf(Choice(nm)).marks) \in Nat
         /\ EntryOf(Choice(nm)).marks \in Seq(Marks)
         /\ EntryOf(Choice(nm)).target \in Nat
<1>1. Choice(nm) \in Registered(nm)
  BY ChosenFacts DEF Choice
<1>2. /\ Choice(nm) \in DOMAIN Startup /\ Startup[Choice(nm)].kind # "type"
      /\ Startup[Choice(nm)].name = nm /\ Legal(Choice(nm))
  BY <1>1 DEF Registered
<1> HIDE DEF Choice
<1>3. /\ EntryOf(Choice(nm)).name = Startup[Choice(nm)].name
      /\ EntryOf(Choice(nm)).meta = (Startup[Choice(nm)].kind = "meta")
      /\ EntryOf(Choice(nm)).marks \in Seq(Marks) /\ EntryOf(Choice(nm)).target \in Nat
  BY <1>2, EntryFacts
<1>4. Len(EntryOf(Choice(nm)).marks) \in Nat
  BY <1>3
<1>5. Startup[Choice(nm)].kind \in {"type", "meta", "normal"}
  BY <1>2, StartupFacts
<1> QED
  BY <1>2, <1>3, <1>4, <1>5, Zenon

LEMMA TablesKept == Tables /\ UNCHANGED <<loaded, types, commands>> => Tables'
<1> SUFFICES ASSUME Tables, UNCHANGED <<loaded, types, commands>> PROVE Tables'
  OBVIOUS
<1>1. loaded' = loaded /\ types' = types /\ commands' = commands
  OBVIOUS
<1>2. /\ IsTable(types') /\ Roomy(types', loaded', TRUE)
      /\ IsTable(commands') /\ Roomy(commands', loaded', FALSE)
  BY <1>1 DEF Tables
<1>3. TypeKnown'
  BY <1>1 DEF Tables, TypeKnown
<1>4. FirstWins'
  BY <1>1 DEF Tables, FirstWins
<1>5. AllStored'
  BY <1>1 DEF Tables, AllStored
<1> QED
  BY <1>1, <1>2, <1>3, <1>4, <1>5 DEF Tables

LEMMA InitCommand == Init => CommandInv
<1> SUFFICES ASSUME Init PROVE CommandInv
  OBVIOUS
<1>1. Tables
  BY InitTables
<1>2. pc = "start" /\ argc = 0 /\ node = 0 /\ access = <<>>
  BY DEF Init
<1>3. MaxArgs \in Nat /\ <<>> \in Seq({"S", "R", "r", "W"}) /\ Len(<<>>) = 0
  BY SizeAssumption
<1>4. Served
  BY <1>2, <1>3 DEF Served, Busy
<1> QED
  BY <1>1, <1>2, <1>4 DEF CommandInv, Chosen, Walking, AsMeant, Held

LEMMA LoadCommandInv == CommandInv /\ Load => CommandInv'
<1> SUFFICES ASSUME CommandInv, Load PROVE CommandInv'
  OBVIOUS
<1>1. Tables' /\ pc' = pc
  BY LoadTables DEF CommandInv
<1>2. pc' = "start" /\ UNCHANGED <<request, walk>>
  BY <1>1 DEF Load
<1>3. Served'
  BY <1>2 DEF CommandInv, Served, Busy, Load, request, walk
<1> QED
  BY <1>1, <1>2, <1>3 DEF CommandInv, Chosen, Walking, AsMeant, Held

LEMMA ServeCommandInv == CommandInv /\ Serve => CommandInv'
<1> SUFFICES ASSUME CommandInv, Serve PROVE CommandInv'
  OBVIOUS
<1>1. Tables'
  BY TablesKept DEF CommandInv, Serve
<1>2. Served'
  BY DEF CommandInv, Served, Busy, Serve, request, walk
<1> QED
  BY <1>1, <1>2 DEF CommandInv, Chosen, Walking, AsMeant, Held, Serve

LEMMA RequestCommandInv == CommandInv /\ Request => CommandInv'
<1> SUFFICES ASSUME CommandInv, Request PROVE CommandInv'
  OBVIOUS
<1>1. Tables'
  BY TablesKept DEF CommandInv, Request
<1>2. /\ pc = "idle" /\ pc' = "fetch" /\ name' \in Requests /\ argc' \in 0 .. MaxArgs
      /\ node' = 0 /\ access' = <<>> /\ loaded' = loaded
  BY DEF Request
<1>3. <<>> \in Seq({"S", "R", "r", "W"}) /\ Len(<<>>) = 0 /\ MaxArgs \in Nat
  BY SizeAssumption
<1>4. loaded' = Len(Startup)
  BY <1>2 DEF CommandInv, Served
<1>5. Served'
  BY <1>2, <1>3, <1>4 DEF Served, Busy
<1> QED
  BY <1>1, <1>2, <1>5 DEF CommandInv, Chosen, Walking, AsMeant, Held

LEMMA FinishCommandInv == CommandInv /\ Finish => CommandInv'
<1> SUFFICES ASSUME CommandInv, Finish PROVE CommandInv'
  OBVIOUS
<1>1. Tables'
  BY TablesKept DEF CommandInv, Finish
<1>2. /\ pc \in {"run", "refused", "unknown"} /\ pc' = "idle" /\ argc' = 0
      /\ node' = 0 /\ access' = <<>> /\ loaded' = loaded
  BY DEF Finish
<1>3. <<>> \in Seq({"S", "R", "r", "W"}) /\ Len(<<>>) = 0 /\ MaxArgs \in Nat
  BY SizeAssumption
<1>4. loaded' = Len(Startup)
  BY <1>2 DEF CommandInv, Served
<1>5. Served'
  BY <1>2, <1>3, <1>4 DEF Served, Busy
<1> QED
  BY <1>1, <1>2, <1>5 DEF CommandInv, Chosen, Walking, AsMeant, Held

LEMMA ResolvedCommandInv == CommandInv /\ Resolved => CommandInv'
<1> SUFFICES ASSUME CommandInv, Resolved PROVE CommandInv'
  OBVIOUS
<1>1. Tables'
  BY TablesKept DEF CommandInv, Resolved
<1>2. /\ pc = "resolve" /\ pc' = "run" /\ name' = name /\ argc' = argc
      /\ entry' = entry /\ node' = node /\ access' = access /\ loaded' = loaded
  BY DEF Resolved, request, walk
<1>3. Served'
  BY <1>2 DEF CommandInv, Served, Busy
<1>4. Chosen'
  BY <1>2 DEF CommandInv, Chosen, Held
<1>5. Walking'
  BY <1>2 DEF Walking
<1>6. AsMeant'
  BY <1>2 DEF CommandInv, AsMeant, Held, Nodes
<1> QED
  BY <1>1, <1>3, <1>4, <1>5, <1>6 DEF CommandInv

(* A fetch finds the first registration, or there is none.                 *)
LEMMA FetchCommandInv == CommandInv /\ Fetch => CommandInv'
<1> SUFFICES ASSUME CommandInv, Fetch PROVE CommandInv'
  OBVIOUS
<1> DEFINE k == Choice(name)
<1>1. /\ Tables /\ loaded \in 0 .. Len(Startup)
      /\ IsTable(commands) /\ Roomy(commands, loaded, FALSE)
      /\ FirstWins /\ AllStored
  BY DEF CommandInv, Tables
<1>2. /\ pc = "fetch" /\ name \in Requests /\ loaded = Len(Startup)
      /\ access = <<>> /\ node = 0 /\ argc \in 0 .. MaxArgs
      /\ Len(access) <= argc /\ access \in Seq({"S", "R", "r", "W"})
  BY DEF CommandInv, Served, Fetch, Busy
<1>3. name \in DOMAIN Home
  BY <1>2, HomeAssumption
<1>4. /\ name' = name /\ argc' = argc /\ node' = node /\ access' = access
      /\ loaded' = loaded /\ types' = types /\ commands' = commands
  BY DEF Fetch, request
<1>5. Tables'
  BY <1>1, <1>4, TablesKept
<1>6. /\ (\E i \in DOMAIN commands : commands[i].name = name) => Found(commands, name)
      /\ Found(commands, name) => \E m \in DOMAIN commands : First(commands, name, m)
  BY <1>1, <1>3, FetchFinds
<1>7. CASE Found(commands, name)
  <2>1. PICK m \in DOMAIN commands : First(commands, name, m)
    BY <1>6, <1>7
  <2>2. commands[m].name = name /\ Fetched(commands, name) = commands[m]
    BY <2>1 DEF First
  <2>3. Registered(name) # {} /\ k <= loaded
    BY <1>1, <2>2 DEF FirstWins
  <2>4. PICK j \in DOMAIN commands : j <= m /\ commands[j] = EntryOf(k)
    BY <1>1, <2>2 DEF FirstWins
  <2>5. /\ Startup[k].kind = "meta" \/ Startup[k].kind = "normal"
        /\ EntryOf(k).meta = (Startup[k].kind = "meta")
    BY <2>3, ChoiceFacts
  <2>6. EntryOf(k).name = name
    BY <2>3, ChoiceFacts
  <2>7. k \in DOMAIN Startup /\ Legal(k) /\ Len(EntryOf(k).marks) \in Nat
    BY <2>3, ChoiceFacts
  <2>8. m <= j
    BY <2>1, <2>4, <2>6 DEF First
  <2>9. m \in 0 .. Size - 1 /\ j \in 0 .. Size - 1
    BY <1>1 DEF IsTable
  <2>10. m = j
    BY <2>4, <2>8, <2>9
  <2>11. entry' = EntryOf(k)
    BY <1>7, <2>2, <2>4, <2>10 DEF Fetch
  <2>12. pc' = IF EntryOf(k).meta THEN "run"
               ELSE IF Len(EntryOf(k).marks) > argc THEN "refused" ELSE "resolve"
    BY <1>7, <2>11 DEF Fetch
  <2>13. pc' \in {"run", "refused", "resolve"}
    BY <2>12
  <2>14. pc' = "resolve" =>
           Startup[k].kind = "normal" /\ Len(EntryOf(k).marks) <= argc
    <3> SUFFICES ASSUME pc' = "resolve"
                 PROVE  Startup[k].kind = "normal" /\ Len(EntryOf(k).marks) <= argc
      OBVIOUS
    <3>1. ~EntryOf(k).meta /\ ~(Len(EntryOf(k).marks) > argc)
      BY <2>12
    <3>2. argc \in Nat
      BY <1>2, SizeAssumption
    <3>3. Startup[k].kind = "normal"
      BY <2>5, <3>1, Zenon
    <3> QED
      BY <2>7, <3>1, <3>2, <3>3
  <2> HIDE DEF k
  <2>15. Served'
    BY <1>2, <1>4, <2>13 DEF Served, Busy
  <2>16. Chosen'
    BY <1>2, <1>4, <2>3, <2>11, <2>13, <2>14 DEF Chosen, Held, k
  <2>17. Walking'
    <3> SUFFICES ASSUME pc' = "resolve"
                 PROVE  /\ Len(EntryOf(k).marks) <= argc
                        /\ IF Bars(Format(k)) = {} THEN 0 = 0
                           ELSE Placed(Format(k), argc, 0, 0)
      <4>1. Len(access) = 0
        BY <1>2
      <4> QED
        BY <1>2, <1>4, <2>11, <4>1 DEF Walking, Nodes, Arg, k
    <3>1. argc \in Nat
      BY <1>2, SizeAssumption
    <3> QED
      BY <2>7, <2>14, <3>1, PlacedFirst
  <2>18. AsMeant'
    <3>1. pc' # "astray" /\ Len(access') = 0
      BY <1>2, <1>4, <2>13
    <3> QED
      BY <3>1 DEF AsMeant
  <2> QED
    BY <1>5, <2>15, <2>16, <2>17, <2>18 DEF CommandInv
<1>8. CASE ~Found(commands, name)
  <2>1. Stops(commands, name) # {}
    BY <1>1, <1>3, ProbingEnds
  <2>2. pc' = "unknown"
    BY <1>8, <2>1 DEF Fetch
  <2>3. Registered(name) = {}
    <3> SUFFICES ASSUME Registered(name) # {} PROVE FALSE
      OBVIOUS
    <3>1. k \in Registered(name)
      BY ChosenFacts DEF Choice
    <3>2. Startup[k].name = name /\ k \in DOMAIN Startup
      BY ChoiceFacts
    <3>3. k \in 1 .. loaded
      <4>1. DOMAIN Startup = 1 .. Len(Startup)
        BY StartupFacts
      <4> QED
        BY <1>2, <3>2, <4>1
    <3>4. \E i \in DOMAIN commands : commands[i].name = name
      <4> HIDE DEF k
      <4> QED
        BY <1>1, <3>1, <3>2, <3>3 DEF AllStored
    <3> QED
      BY <1>6, <1>8, <3>4
  <2>4. Served'
    BY <1>2, <1>4, <2>2, <2>3 DEF Served, Busy
  <2> QED
    BY <1>5, <2>2, <2>4 DEF CommandInv, Chosen, Walking, AsMeant, Held
<1> QED
  BY <1>7, <1>8

-----------------------------------------------------------------------------
(* One argument more that is accessed as meant.                            *)
LEMMA OneMore ==
  ASSUME NEW S, NEW seq \in Seq(S), NEW e \in S
  PROVE  /\ Append(seq, e) \in Seq(S) /\ Len(Append(seq, e)) = Len(seq) + 1
         /\ Len(seq) \in Nat /\ Append(seq, e)[Len(seq) + 1] = e
         /\ \A j \in 1 .. Len(seq) : Append(seq, e)[j] = seq[j]
         /\ \A j \in 1 .. Len(seq) + 1 : j = Len(seq) + 1 \/ j \in 1 .. Len(seq)
  OBVIOUS

LEMMA ResolveCommandInv == CommandInv /\ Resolve => CommandInv'
<1> SUFFICES ASSUME CommandInv, Resolve PROVE CommandInv'
  OBVIOUS
<1> DEFINE k == Choice(name)
           marks == EntryOf(k).marks
           n == Len(marks)
           a == Len(access)
           bars == Bars(Format(k))
           limit == n + (IF bars = {} THEN 0 ELSE 1)
<1>1. pc = "resolve" /\ argc \in Nat /\ a < argc
  BY SizeAssumption DEF Resolve, Arg, CommandInv, Served
<1>2. /\ name' = name /\ argc' = argc /\ entry' = entry /\ loaded' = loaded
      /\ types' = types /\ commands' = commands
  BY DEF Resolve, request
<1>3. /\ node \in Nat /\ access \in Seq({"S", "R", "r", "W"}) /\ a \in Nat
      /\ name \in Requests /\ argc \in 0 .. MaxArgs /\ loaded = Len(Startup)
  <2>1. /\ node \in Nat /\ access \in Seq({"S", "R", "r", "W"})
        /\ name \in Requests /\ argc \in 0 .. MaxArgs /\ loaded = Len(Startup)
    BY <1>1 DEF CommandInv, Served, Busy
  <2> QED
    BY <2>1
<1>4. /\ Registered(name) # {} /\ entry = EntryOf(k) /\ Startup[k].kind = "normal"
  BY <1>1 DEF CommandInv, Chosen, Held
<1>5. /\ k \in DOMAIN Startup /\ Legal(k) /\ n \in Nat
      /\ marks \in Seq(Marks) /\ EntryOf(k).target \in Nat
  BY <1>4, ChoiceFacts
<1>6. /\ n <= argc
      /\ a <= n => IF bars = {} THEN node = a ELSE Placed(Format(k), argc, a, node)
  BY <1>1, <1>4 DEF CommandInv, Walking, Nodes, Arg
<1>7. Fits(Format(k), argc) =>
        \A j \in 1 .. a : j <= limit => access[j] = Meant(Format(k), j, argc)
  BY <1>1, <1>4 DEF CommandInv, AsMeant, Held, Nodes
<1>8. Tables'
  BY <1>2, TablesKept DEF CommandInv
<1>9. /\ Nodes = n /\ Arg = a /\ Mark = marks[node + 1]
      /\ Nodes' = n
  BY <1>2, <1>4 DEF Nodes, Arg, Mark
<1>10. Beyond <=> a > n
  BY <1>9 DEF Beyond
<1>11. ASSUME pc' \in {"resolve", "refused", "crashed"}, node' \in Nat,
              access' \in Seq({"S", "R", "r", "W"}), Len(access') <= argc
       PROVE  Served' /\ Chosen'
  <2>1. Served'
    BY <1>2, <1>3, <1>11 DEF Served, Busy
  <2>2. Chosen'
    BY <1>2, <1>4, <1>11 DEF Chosen, Held
  <2> QED
    BY <2>1, <2>2
<1>12. ASSUME access' = access
       PROVE  Fits(Format(k), argc) =>
                \A j \in 1 .. Len(access') :
                  j <= limit => access'[j] = Meant(Format(k), j, argc)
  BY <1>7, <1>12
<1>13. ASSUME pc' # "astray",
              Fits(Format(k), argc) =>
                \A j \in 1 .. Len(access') :
                  j <= limit => access'[j] = Meant(Format(k), j, argc)
       PROVE  AsMeant'
  BY <1>2, <1>9, <1>13 DEF AsMeant
<1>14. ASSUME a <= n, bars # {}
       PROVE  node < n
  BY <1>1, <1>3, <1>4, <1>5, <1>6, <1>14, PlacedInside
<1>15. ASSUME a <= n, bars = {}
       PROVE  marks = Format(k) /\ node = a
  BY <1>4, <1>5, <1>6, <1>15, StraightEntry
<1>16. CASE ~Beyond /\ node >= Nodes /\ pc' = "astray" /\ UNCHANGED <<node, access>>
  <2>1. bars = {} /\ marks = Format(k) /\ argc > n
    BY <1>1, <1>3, <1>5, <1>9, <1>10, <1>14, <1>15, <1>16
  <2>2. Served'
    BY <1>1, <1>2, <1>3, <1>16 DEF Served, Busy
  <2>3. Chosen'
    BY <1>2, <1>4, <1>16 DEF Chosen, Held
  <2>4. AsMeant'
    BY <1>2, <1>9, <1>12, <1>16, <2>1 DEF AsMeant
  <2> QED
    BY <1>8, <1>16, <2>2, <2>3, <2>4 DEF CommandInv, Walking
<1>17. CASE ~Beyond /\ node < Nodes /\ Mark = "|" /\ node' = AfterJump
              /\ UNCHANGED <<pc, access>>
  <2>1. a <= n /\ node < n /\ marks[node + 1] = "|"
    BY <1>3, <1>5, <1>9, <1>10, <1>17
  <2>2. bars # {}
    <3> SUFFICES ASSUME bars = {} PROVE FALSE
      OBVIOUS
    <3>1. node + 1 \in DOMAIN Format(k) /\ Format(k)[node + 1] = "|"
      <4>1. node + 1 \in DOMAIN marks
        BY <1>3, <1>5, <2>1
      <4> QED
        BY <1>15, <2>1, <4>1
    <3> QED
      BY <3>1 DEF Bars
  <2> DEFINE f == Min(bars)
             s == Max(bars)
             N == Len(Format(k))
  <2>3. /\ N \in Nat /\ f \in 1 .. N /\ s \in 1 .. N /\ n = N - 1
        /\ EntryOf(k).target = f - 1
    BY <1>4, <1>5, <2>2, LoopFacts
  <2>4. Placed(Format(k), argc, a, node)
    BY <1>6, <2>1, <2>2
  <2>5. node = s - 2
    BY <1>1, <1>3, <1>4, <1>5, <1>6, <2>1, <2>2, <2>4, JumpMark
  <2>6. /\ argc - a > N - s => Placed(Format(k), argc, a, f - 1)
        /\ ~(argc - a > N - s) => Placed(Format(k), argc, a, s - 1)
    BY <1>1, <1>3, <1>4, <1>5, <2>2, <2>4, <2>5, PlacedJump
  <2> HIDE DEF f, s, N, k
  <2>7. node' = IF argc - a > n - 1 - node THEN f - 1 ELSE node + 1
    BY <1>4, <1>9, <1>17, <2>3 DEF AfterJump, k
  <2>8. n - 1 - node = N - s /\ node + 1 = s - 1 /\ f - 1 \in Nat
    BY <1>3, <2>3, <2>5
  <2>9. Placed(Format(k), argc, a, node') /\ node' \in Nat
    BY <1>3, <2>6, <2>7, <2>8
  <2>10. Walking'
    BY <1>2, <1>6, <1>9, <1>17, <2>2, <2>9 DEF Walking, Arg, k
  <2>11. Served' /\ Chosen'
    BY <1>1, <1>3, <1>11, <1>17, <2>9
  <2> QED
    BY <1>1, <1>8, <1>12, <1>13, <1>17, <2>10, <2>11 DEF CommandInv
<1>18. CASE /\ Beyond \/ (node < Nodes /\ Mark \in {"S", "R", "r", "W"})
            /\ access' = Append(access, IF Beyond THEN "S" ELSE Mark)
            /\ node' = node + 1
            /\ UNCHANGED pc
  <2> DEFINE m == IF Beyond THEN "S" ELSE Mark
  <2>1. m \in {"S", "R", "r", "W"}
    BY <1>18
  <2> HIDE DEF m
  <2>2. /\ access' \in Seq({"S", "R", "r", "W"}) /\ Len(access') = a + 1
        /\ access'[a + 1] = m
        /\ \A j \in 1 .. a : access'[j] = access[j]
        /\ \A j \in 1 .. a + 1 : j = a + 1 \/ j \in 1 .. a
    <3>1. access' = Append(access, m)
      BY <1>18 DEF m
    <3> QED
      BY <1>3, <2>1, <3>1, OneMore
  <2>3. node' = node + 1 /\ pc' = "resolve" /\ node' \in Nat
    BY <1>1, <1>3, <1>18
  <2>4. Served' /\ Chosen'
    BY <1>1, <1>3, <1>11, <2>2, <2>3
  <2>5. ~Beyond => a <= n /\ m = marks[node + 1]
                   /\ marks[node + 1] \in {"S", "R", "r", "W"} /\ node < n
    BY <1>3, <1>5, <1>9, <1>10, <1>18 DEF m
  <2>6. bars # {} /\ ~Beyond => node # Max(bars) - 2
    BY <1>1, <1>3, <1>4, <1>5, <1>6, <2>5, JumpMark
  <2>7. a + 1 <= n => IF bars = {} THEN node' = a + 1
                      ELSE Placed(Format(k), argc, a + 1, node')
    <3> SUFFICES ASSUME a + 1 <= n
                 PROVE  IF bars = {} THEN node' = a + 1
                        ELSE Placed(Format(k), argc, a + 1, node')
      OBVIOUS
    <3>1. a <= n /\ ~Beyond
      BY <1>3, <1>5, <1>10
    <3>2. CASE bars = {}
      BY <1>15, <2>3, <3>1, <3>2
    <3>3. CASE bars # {}
      BY <1>1, <1>3, <1>4, <1>5, <1>6, <2>3, <2>6, <3>1, <3>3, PlacedOn
    <3> QED
      BY <3>2, <3>3
  <2>8. Walking'
    BY <1>2, <1>6, <1>9, <2>2, <2>7 DEF Walking, Arg
  <2>9. ASSUME Fits(Format(k), argc), a + 1 <= limit
        PROVE  m = Meant(Format(k), a + 1, argc)
    <3>1. a <= n /\ ~Beyond
      <4>1. limit = n + 0 \/ limit = n + 1
        OBVIOUS
      <4> HIDE DEF limit, a, n
      <4> QED
        BY <1>1, <1>3, <1>5, <1>10, <2>9, <4>1
    <3>2. CASE bars = {}
      BY <1>15, <2>5, <3>1, <3>2 DEF Meant
    <3>3. CASE bars # {}
      BY <1>1, <1>3, <1>4, <1>5, <1>6, <2>5, <2>6,
         <2>9, <3>1, <3>3, LoopMark
    <3> QED
      BY <3>2, <3>3
  <2>10. ASSUME Fits(Format(k), argc), NEW j \in 1 .. Len(access'), j <= limit
         PROVE  access'[j] = Meant(Format(k), j, argc)
    <3>1. CASE j = a + 1
      BY <2>2, <2>9, <2>10, <3>1
    <3>2. CASE j \in 1 .. a
      BY <1>7, <2>2, <2>10, <3>2
    <3> QED
      BY <2>2, <2>10, <3>1, <3>2
  <2>11. AsMeant'
    BY <1>13, <2>3, <2>10
  <2> QED
    BY <1>8, <2>4, <2>8, <2>11 DEF CommandInv
<1>19. CASE pc' \in {"refused", "crashed"} /\ UNCHANGED <<node, access>>
  <2>1. Served' /\ Chosen'
    BY <1>1, <1>3, <1>11, <1>19
  <2>2. AsMeant'
    BY <1>12, <1>13, <1>19
  <2> QED
    BY <1>8, <1>19, <2>1, <2>2 DEF CommandInv, Walking
<1> QED
  BY <1>16, <1>17, <1>18, <1>19 DEF Resolve

-----------------------------------------------------------------------------
(* The invariant of the tables and the walk, and what follows from it.     *)
THEOREM CommandInvariance == Spec => []CommandInv
<1>1. Init => CommandInv
  BY InitCommand
<1>2. CommandInv /\ [Next]_vars => CommandInv'
  <2> SUFFICES ASSUME CommandInv, [Next]_vars PROVE CommandInv'
    OBVIOUS
  <2>1. CASE Load
    BY <2>1, LoadCommandInv
  <2>2. CASE Serve
    BY <2>2, ServeCommandInv
  <2>3. CASE Request
    BY <2>3, RequestCommandInv
  <2>4. CASE Fetch
    BY <2>4, FetchCommandInv
  <2>5. CASE Resolve
    BY <2>5, ResolveCommandInv
  <2>6. CASE Resolved
    BY <2>6, ResolvedCommandInv
  <2>7. CASE Finish
    BY <2>7, FinishCommandInv
  <2>8. CASE UNCHANGED vars
    <3>1. /\ loaded' = loaded /\ types' = types /\ commands' = commands /\ pc' = pc
          /\ name' = name /\ argc' = argc /\ entry' = entry /\ node' = node
          /\ access' = access
      BY <2>8 DEF vars, request, walk
    <3>2. Tables'
      BY <3>1, TablesKept DEF CommandInv
    <3>3. Served'
      BY <3>1 DEF CommandInv, Served, Busy
    <3>4. Chosen'
      BY <3>1 DEF CommandInv, Chosen, Held
    <3>5. Walking'
      BY <3>1 DEF CommandInv, Walking, Nodes, Arg
    <3>6. AsMeant'
      BY <3>1 DEF CommandInv, AsMeant, Held, Nodes
    <3> QED
      BY <3>2, <3>3, <3>4, <3>5, <3>6 DEF CommandInv
  <2> QED
    BY <2>1, <2>2, <2>3, <2>4, <2>5, <2>6, <2>7, <2>8 DEF Next, Handle
<1> QED
  BY <1>1, <1>2, PTL DEF Spec

(* Whatever is registered and asked for, the variables keep their types:   *)
(* probing stays in the tables, and no more arguments are accessed than    *)
(* the request has.                                                        *)
THEOREM TablesTypeCorrect == Spec => []TypeOK
<1>1. CommandInv => TypeOK
  <2> SUFFICES ASSUME CommandInv PROVE TypeOK
    OBVIOUS
  <2>1. ASSUME NEW table, IsTable(table)
        PROVE  /\ DOMAIN table \subseteq 0 .. Size - 1
               /\ \A i \in DOMAIN table : Home[table[i].name] <= i
    BY <2>1 DEF IsTable
  <2>2. loaded \in 0 .. Len(Startup) /\ IsTable(types) /\ IsTable(commands)
    BY DEF CommandInv, Tables
  <2>3. \A table \in {types, commands} :
          DOMAIN table \subseteq 0 .. Size - 1 /\ \A i \in DOMAIN table : Home[table[i].name] <= i
    BY <2>1, <2>2
  <2> QED
    BY <2>2, <2>3 DEF TypeOK, CommandInv, Served, Busy
<1> QED
  BY <1>1, CommandInvariance, PTL

(* A request finds the first command registered under its name, however    *)
(* hashes collide (command_ht_fetch), and runner() takes every argument as *)
(* the format string means it, over its jumps and however often the        *)
(* repeated part is repeated.                                              *)
THEOREM RequestsFollowFormats == Spec => []FormatFollowed
<1>1. CommandInv => FormatFollowed
  <2> SUFFICES ASSUME CommandInv PROVE CommandFound /\ MarksFollowed
    BY DEF FormatFollowed
  <2>1. ASSUME pc \in Held
        PROVE  /\ Registered(name) # {}
               /\ entry.meta = (Startup[Min(Registered(name))].kind = "meta")
    <3>1. Registered(name) # {} /\ entry = EntryOf(Choice(name))
      BY <2>1 DEF CommandInv, Chosen
    <3>2. EntryOf(Choice(name)).meta = (Startup[Choice(name)].kind = "meta")
      BY <3>1, ChoiceFacts
    <3> QED
      BY <3>1, <3>2, Zenon DEF Choice
  <2>2. CommandFound
    <3>1. pc = "unknown" => Registered(name) = {}
      BY DEF CommandInv, Served
    <3> QED
      BY <2>1, <3>1, Zenon DEF CommandFound, Held
  <2>3. MarksFollowed
    BY DEF CommandInv, AsMeant, Held, MarksFollowed, Format, Choice
  <2> QED
    BY <2>2, <2>3
<1> QED
  BY <1>1, CommandInvariance, PTL
=============================================================================
