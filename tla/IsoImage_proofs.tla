--------------------------- MODULE IsoImage_proofs ---------------------------
(***************************************************************************)
(* Theorems about IsoImage, for every set of names, every record and sector *)
(* length, and any number of calls.                                        *)
(***************************************************************************)
EXTENDS IsoImage, FiniteSetTheorems, SequenceTheorems, WellFoundedInduction, TLAPS

USE DirectoryAssumption

-----------------------------------------------------------------------------
(***************************************************************************)
(* Induction, with a set for the predicate, and definition by recursion,   *)
(* with a function for the step.                                           *)
(***************************************************************************)

\* A set of numbers has a least element.
LEMMA LeastElement ==
  ASSUME NEW S \in SUBSET Nat, S # {}
  PROVE  \E m \in S : \A k \in S : m <= k
<1>1. PICK m \in S : \A k \in S : ~(<<k, m>> \in OpToRel(<, Nat))
  BY NatLessThanWellFounded, WFMin
<1>2. ASSUME NEW k \in S PROVE m <= k
  <2>1. ~(<<k, m>> \in OpToRel(<, Nat))
    BY <1>1
  <2> QED
    BY <2>1 DEF OpToRel
<1> QED
  BY <1>2

\* What holds of 0, and of every number with its predecessor, holds up to n.
LEMMA IntervalInduction ==
  ASSUME NEW n \in Nat, NEW T, 0 \in T, \A i \in 1..n : i - 1 \in T => i \in T
  PROVE  \A i \in 0..n : i \in T
<1> DEFINE Bad == {i \in 0..n : i \notin T}
<1>1. SUFFICES ASSUME Bad # {} PROVE FALSE
  OBVIOUS
<1>2. Bad \in SUBSET Nat
  OBVIOUS
<1>3. PICK m \in Bad : \A k \in Bad : m <= k
  BY <1>1, <1>2, LeastElement
<1>4. m \in 1..n /\ m - 1 \in 0..n /\ m - 1 \notin Bad
  BY <1>3
<1> QED
  BY <1>3, <1>4

\* A function that starts with a value and goes on by steps exists.
StepsOn(V, n) == [1..n -> [V -> V]]

Follows(f, V, n, start, step) ==
  /\ f \in [0..n -> V]
  /\ f[0] = start
  /\ \A i \in 1..n : f[i] = step[i][f[i - 1]]

LEMMA Recursion ==
  ASSUME NEW V, NEW n \in Nat, NEW start \in V, NEW step \in StepsOn(V, n)
  PROVE  \E f : Follows(f, V, n, start, step)
<1> USE DEF StepsOn
<1> DEFINE Upto(f, k) == f[0] = start /\ \A i \in 1..k : f[i] = step[i][f[i - 1]]
           T == {k \in 0..n : \E f \in [0..k -> V] : Upto(f, k)}
<1>1. 0 \in T
  <2> DEFINE f == [i \in 0..0 |-> start]
  <2>1. f \in [0..0 -> V] /\ f[0] = start
    OBVIOUS
  <2>2. Upto(f, 0)
    BY <2>1
  <2> HIDE DEF f, Upto
  <2>3. \E h \in [0..0 -> V] : Upto(h, 0)
    BY <2>1, <2>2
  <2> QED
    BY <2>3
<1>2. ASSUME NEW k \in 1..n, k - 1 \in T PROVE k \in T
  <2>1. PICK f \in [0..(k - 1) -> V] : Upto(f, k - 1)
    BY <1>2
  <2> DEFINE g == [i \in 0..k |-> IF i = k THEN step[k][f[k - 1]] ELSE f[i]]
  <2>2. g \in [0..k -> V]
    BY <2>1
  <2>3. ASSUME NEW i \in 1..k PROVE g[i] = step[i][g[i - 1]]
    <3>1. CASE i = k
      BY <3>1
    <3>2. CASE i # k
      BY <2>1, <3>2
    <3> QED
      BY <3>1, <3>2
  <2>4. Upto(g, k)
    BY <2>1, <2>3
  <2> HIDE DEF g, Upto
  <2>5. \E h \in [0..k -> V] : Upto(h, k)
    BY <2>2, <2>4
  <2> QED
    BY <2>5
<1> HIDE DEF T
<1>3. \A k \in 0..n : k \in T
  BY <1>1, <1>2, IntervalInduction
<1> QED
  BY <1>3 DEF T, Upto, Follows

\* Two ascending sequences of numbers with the same elements are the same.
Climbing(n) == {f \in [1..n -> Nat] : \A i, j \in 1..n : i < j => f[i] < f[j]}

Within(f, g, n) == \A i \in 1..n : \E m \in 1..n : f[i] = g[m]

LEMMA AscendingUnique ==
  ASSUME NEW n \in Nat, NEW f \in Climbing(n), NEW g \in Climbing(n),
         Within(f, g, n), Within(g, f, n)
  PROVE  f = g
<1> USE DEF Climbing, Within
<1> DEFINE Bad == {i \in 1..n : f[i] # g[i]}
<1>1. SUFFICES ASSUME Bad # {} PROVE FALSE
  <2>1. \A i \in 1..n : i \notin Bad => f[i] = g[i]
    OBVIOUS
  <2>2. f \in [1..n -> Nat] /\ g \in [1..n -> Nat]
    OBVIOUS
  <2> HIDE DEF Bad
  <2>3. Bad = {} => f = g
    BY <2>1, <2>2
  <2> QED
    BY <2>3
<1>2. PICK i \in 1..n : f[i] # g[i] /\ \A k \in 1..n : k < i => f[k] = g[k]
  <2>1. Bad \in SUBSET Nat
    OBVIOUS
  <2>2. PICK i \in Bad : \A k \in Bad : i <= k
    BY <1>1, <2>1, LeastElement
  <2>3. \A k \in 1..n : k < i => k \notin Bad
    BY <2>2
  <2> QED
    BY <2>2, <2>3
<1> HIDE DEF Bad
<1>3. f[i] \in Nat /\ g[i] \in Nat /\ f[i] # g[i]
  BY <1>2
<1>4. CASE f[i] < g[i]
  <2>1. PICK m \in 1..n : f[i] = g[m]
    BY <1>3
  <2>2. i < m => g[i] < g[m]
    OBVIOUS
  <2>3. ~(g[i] < g[m])
    <3>1. \A x, y \in Nat : x < y => ~(y < x)
      OBVIOUS
    <3> QED
      BY <1>3, <1>4, <2>1, <3>1, Zenon
  <2>4. i # m
    BY <1>3, <1>4, <2>1
  <2>5. m < i
    BY <2>2, <2>3, <2>4
  <2> QED
    BY <1>2, <1>3, <1>4, <2>1, <2>4, <2>5
<1>5. CASE g[i] < f[i]
  <2>1. PICK m \in 1..n : g[i] = f[m]
    BY <1>3
  <2>2. i < m => f[i] < f[m]
    OBVIOUS
  <2>3. ~(f[i] < f[m])
    BY <1>3, <1>5, <2>1
  <2>4. i # m
    BY <1>3, <1>5, <2>1
  <2>5. m < i
    BY <2>2, <2>3, <2>4
  <2> QED
    BY <1>2, <1>3, <1>5, <2>1, <2>4, <2>5
<1> QED
  BY <1>3, <1>4, <1>5

-----------------------------------------------------------------------------
(***************************************************************************)
(* The layout of a directory.                                              *)
(***************************************************************************)

Records == [name : Names, at : Nat, size : 1..MaxSize]

NamesIn(records) == {records[i].name : i \in DOMAIN records}

Ascending(records) ==
  \A i, j \in DOMAIN records : i < j => records[i].name < records[j].name

\* The fields of a record.
LEMMA RecordType ==
  ASSUME NEW s \in Seq(Records), NEW i \in 1..Len(s)
  PROVE  /\ s[i] \in Records
         /\ s[i].name \in Names /\ s[i].at \in Nat /\ s[i].size \in 1..MaxSize
<1>1. s[i] \in Records
  BY ElementOfSeq
<1> QED
  BY <1>1 DEF Records

\* A number is in a sector; the next boundary is the start of the sector after
\* it, unless it is a boundary itself.
LEMMA Sectors ==
  ASSUME NEW n \in Nat
  PROVE  \E q \in Nat, r \in 0..(Sector - 1) :
           /\ n = q * Sector + r /\ n % Sector = r /\ q * Sector \in Nat
           /\ RoundUp(n) = (IF r = 0 THEN q * Sector ELSE q * Sector + Sector)
<1> DEFINE q == n \div Sector
           r == n % Sector
<1>1. q \in Nat /\ r \in 0..(Sector - 1) /\ n = q * Sector + r /\ q * Sector \in Nat
  OBVIOUS
<1>2. \A k \in Nat, l \in 0..(Sector - 1) : (k * Sector + l) \div Sector = k
  OBVIOUS
<1> HIDE DEF q, r
<1>3. CASE r = 0
  <2>1. n + Sector - 1 = q * Sector + (Sector - 1) /\ Sector - 1 \in 0..(Sector - 1)
    BY <1>1, <1>3
  <2>2. RoundUp(n) = q * Sector
    BY <1>1, <1>2, <2>1 DEF RoundUp
  <2> QED
    BY <1>1, <1>3, <2>2 DEF r
<1>4. CASE r # 0
  <2>1. n + Sector - 1 = (q + 1) * Sector + (r - 1) /\ r - 1 \in 0..(Sector - 1)
        /\ q + 1 \in Nat
    BY <1>1, <1>4
  <2>2. RoundUp(n) = (q + 1) * Sector
    BY <1>2, <2>1 DEF RoundUp
  <2>3. (q + 1) * Sector = q * Sector + Sector
    BY <1>1
  <2> QED
    BY <1>1, <1>4, <2>2, <2>3 DEF r
<1> QED
  BY <1>3, <1>4

\* A number in an earlier sector is a sector or more before.
LEMMA EarlierSector ==
  ASSUME NEW q \in Nat, NEW p \in Nat, q < p
  PROVE  q * Sector + Sector <= p * Sector
<1>1. PICK d \in Nat : p = q + 1 + d
  OBVIOUS
<1>2. p * Sector = q * Sector + Sector + d * Sector /\ d * Sector \in Nat
      /\ q * Sector \in Nat
  BY <1>1
<1> QED
  BY <1>2

\* Rounding up is monotonic, and does nothing the second time.
LEMMA RoundUpFacts ==
  ASSUME NEW n \in Nat
  PROVE  /\ RoundUp(n) \in Nat /\ n <= RoundUp(n)
         /\ RoundUp(RoundUp(n)) = RoundUp(n)
         /\ \A m \in Nat : n <= m => RoundUp(n) <= RoundUp(m)
<1>1. PICK q \in Nat, r \in 0..(Sector - 1) :
        /\ n = q * Sector + r /\ n % Sector = r /\ q * Sector \in Nat
        /\ RoundUp(n) = (IF r = 0 THEN q * Sector ELSE q * Sector + Sector)
  BY Sectors
<1>2. RoundUp(n) \in Nat /\ n <= RoundUp(n)
  BY <1>1
<1>3. ASSUME NEW k \in Nat PROVE RoundUp(k * Sector) = k * Sector
  <2>1. (k * Sector + (Sector - 1)) \div Sector = k
    OBVIOUS
  <2>2. k * Sector + Sector - 1 = k * Sector + (Sector - 1)
    OBVIOUS
  <2> QED
    BY <2>1, <2>2 DEF RoundUp
<1>4. RoundUp(RoundUp(n)) = RoundUp(n)
  <2>1. (q + 1) * Sector = q * Sector + Sector
    OBVIOUS
  <2>2. RoundUp((q + 1) * Sector) = (q + 1) * Sector
    <3>1. q + 1 \in Nat
      OBVIOUS
    <3> QED
      BY <1>3, <3>1
  <2>3. RoundUp(q * Sector) = q * Sector
    BY <1>3
  <2> QED
    BY <1>1, <2>1, <2>2, <2>3
<1>5. ASSUME NEW m \in Nat, n <= m PROVE RoundUp(n) <= RoundUp(m)
  <2>1. PICK p \in Nat, s \in 0..(Sector - 1) :
          /\ m = p * Sector + s /\ m % Sector = s /\ p * Sector \in Nat
          /\ RoundUp(m) = (IF s = 0 THEN p * Sector ELSE p * Sector + Sector)
    BY Sectors
  <2>2. p < q => p * Sector + Sector <= q * Sector
    BY EarlierSector
  <2>3. q < p => q * Sector + Sector <= p * Sector
    BY EarlierSector
  <2>4. q = p => q * Sector = p * Sector
    OBVIOUS
  <2> QED
    BY <1>1, <1>5, <2>1, <2>2, <2>3, <2>4
<1> QED
  BY <1>2, <1>4, <1>5

\* A record ends behind where it is put, and the further the later.
LEMMA EndOfFacts ==
  ASSUME NEW p \in Nat, NEW r, r.name \in Names
  PROVE  /\ EndOf(p, r) \in Nat /\ p <= EndOf(p, r)
         /\ \A s \in Nat : p <= s => EndOf(p, r) <= EndOf(s, r)
<1> DEFINE l == RecordLen[r.name]
<1>1. l \in 1..Sector
  OBVIOUS
<1> HIDE DEF l
<1>2. PICK q \in Nat, k \in 0..(Sector - 1) :
        /\ p = q * Sector + k /\ p % Sector = k /\ q * Sector \in Nat
        /\ RoundUp(p) = (IF k = 0 THEN q * Sector ELSE q * Sector + Sector)
  BY Sectors
<1>3. EndOf(p, r) = (IF k + l > Sector THEN RoundUp(p) ELSE p) + l
  BY <1>2 DEF EndOf, StartOf, l
<1>4. EndOf(p, r) \in Nat /\ p <= EndOf(p, r)
  BY <1>1, <1>2, <1>3
<1>5. ASSUME NEW s \in Nat, p <= s PROVE EndOf(p, r) <= EndOf(s, r)
  <2>1. PICK b \in Nat, m \in 0..(Sector - 1) :
          /\ s = b * Sector + m /\ s % Sector = m /\ b * Sector \in Nat
          /\ RoundUp(s) = (IF m = 0 THEN b * Sector ELSE b * Sector + Sector)
    BY Sectors
  <2>2. EndOf(s, r) = (IF m + l > Sector THEN RoundUp(s) ELSE s) + l
    BY <2>1 DEF EndOf, StartOf, l
  <2>3. b < q => b * Sector + Sector <= q * Sector
    BY EarlierSector
  <2>4. q < b => q * Sector + Sector <= b * Sector
    BY EarlierSector
  <2>5. q = b => q * Sector = b * Sector
    OBVIOUS
  <2> QED
    BY <1>1, <1>2, <1>3, <1>5, <2>1, <2>2, <2>3, <2>4, <2>5
<1> QED
  BY <1>4, <1>5

\* The recursion is what it says.
LEMMA EndsFacts ==
  ASSUME NEW s \in Seq(Records)
  PROVE  /\ Ends(s) \in [0..Len(s) -> Nat] /\ Ends(s)[0] = DotLen
         /\ \A i \in 1..Len(s) : Ends(s)[i] = EndOf(Ends(s)[i - 1], s[i])
<1> DEFINE n == Len(s)
           Step(e, i) == IF i = 0 THEN DotLen ELSE EndOf(e[i - 1], s[i])
           step == [i \in 1..n |-> [p \in Nat |-> EndOf(p, s[i])]]
<1>1. n \in Nat /\ DotLen \in Nat
  OBVIOUS
<1>2. ASSUME NEW i \in 1..n PROVE s[i].name \in Names
  BY RecordType
<1>3. step \in StepsOn(Nat, n)
  BY <1>2, EndOfFacts DEF StepsOn
<1>4. \A i \in 1..n, p \in Nat : step[i][p] = EndOf(p, s[i])
  OBVIOUS
<1> HIDE DEF step, n
<1>5. PICK f : Follows(f, Nat, n, DotLen, step)
  BY <1>1, <1>3, Recursion
<1>6. ASSUME NEW i \in 1..n PROVE f[i] = EndOf(f[i - 1], s[i])
  <2>1. i - 1 \in 0..n
    BY <1>1
  <2>2. f[i - 1] \in Nat /\ f[i] = step[i][f[i - 1]]
    BY <1>5, <2>1 DEF Follows
  <2> QED
    BY <1>4, <2>2
<1>7. f = [i \in 0..n |-> Step(f, i)]
  <2>1. \A i \in 0..n : f[i] = Step(f, i)
    BY <1>1, <1>5, <1>6 DEF Follows
  <2> HIDE DEF Step
  <2> QED
    BY <1>5, <2>1 DEF Follows
<1>8. Ends(s) = CHOOSE e : e = [i \in 0..n |-> Step(e, i)]
  BY DEF Ends, n
<1>9. Ends(s) = [i \in 0..n |-> Step(Ends(s), i)]
  <2> HIDE DEF Step
  <2> QED
    BY <1>7, <1>8
<1>10. Ends(s)[0] = DotLen /\ \A i \in 1..n : Ends(s)[i] = EndOf(Ends(s)[i - 1], s[i])
  BY <1>1, <1>9
<1>11. \A i \in 0..n : Ends(s)[i] \in Nat
  <2> DEFINE T == {i \in 0..n : Ends(s)[i] \in Nat}
  <2>1. 0 \in T
    BY <1>1, <1>10
  <2>2. ASSUME NEW i \in 1..n, i - 1 \in T PROVE i \in T
    <3>1. s[i].name \in Names /\ Ends(s)[i - 1] \in Nat /\ i \in 0..n
      BY <1>1, <1>2, <2>2
    <3>2. EndOf(Ends(s)[i - 1], s[i]) \in Nat
      BY <3>1, EndOfFacts
    <3> QED
      BY <1>10, <3>1, <3>2
  <2>3. \A i \in 0..n : i \in T
    <3> HIDE DEF T
    <3> QED
      BY <1>1, <2>1, <2>2, IntervalInduction
  <2> QED
    BY <2>3
<1>12. DOMAIN Ends(s) = 0..n
  <2> HIDE DEF Step
  <2> QED
    BY <1>9
<1> QED
  BY <1>9, <1>10, <1>11, <1>12 DEF n

\* One record behind the other: none ends behind the last.
LEMMA EndsAscend ==
  ASSUME NEW s \in Seq(Records)
  PROVE  LayoutEnd(s) \in Nat /\ \A i \in 0..Len(s) : Ends(s)[i] <= LayoutEnd(s)
<1> DEFINE n == Len(s)
           e == Ends(s)
           T == {i \in 0..n : \A j \in 0..i : e[j] <= e[i]}
<1>1. n \in Nat /\ n \in 0..n
  OBVIOUS
<1>2. e \in [0..n -> Nat] /\ \A i \in 1..n : e[i] = EndOf(e[i - 1], s[i])
  BY EndsFacts
<1>3. ASSUME NEW i \in 1..n PROVE e[i - 1] \in Nat /\ e[i] \in Nat /\ e[i - 1] <= e[i]
  <2>1. i - 1 \in 0..n /\ i \in 0..n
    OBVIOUS
  <2>2. s[i].name \in Names
    BY RecordType
  <2>3. e[i - 1] \in Nat /\ e[i] \in Nat
    BY <1>2, <2>1
  <2> QED
    BY <1>2, <2>2, <2>3, EndOfFacts
<1> HIDE DEF e, n
<1>4. 0 \in T
  BY <1>1, <1>2
<1>5. ASSUME NEW i \in 1..n, i - 1 \in T PROVE i \in T
  <2>1. \A j \in 0..i : j = i \/ j \in 0..(i - 1)
    BY <1>1
  <2>2. \A j \in 0..(i - 1) : e[j] \in Nat /\ e[j] <= e[i - 1]
    BY <1>1, <1>2, <1>5
  <2>3. \A j \in 0..(i - 1) : e[j] <= e[i]
    BY <1>3, <2>2
  <2>4. e[i] <= e[i]
    BY <1>3
  <2> QED
    BY <1>1, <2>1, <2>3, <2>4
<1>6. \A i \in 0..n : i \in T
  <2> HIDE DEF T
  <2> QED
    BY <1>1, <1>4, <1>5, IntervalInduction
<1>7. n \in T
  BY <1>1, <1>6
<1> QED
  BY <1>1, <1>2, <1>7 DEF LayoutEnd, e, n

\* The layout depends on the names only.
LEMMA EndsOfNames ==
  ASSUME NEW s \in Seq(Records), NEW t \in Seq(Records), Len(s) = Len(t),
         \A i \in 1..Len(s) : s[i].name = t[i].name
  PROVE  LayoutEnd(s) = LayoutEnd(t)
<1> DEFINE n == Len(s)
           T == {i \in 0..n : Ends(s)[i] = Ends(t)[i]}
<1>1. n \in Nat /\ n \in 0..n /\ n = Len(t)
  OBVIOUS
<1>2. Ends(s)[0] = DotLen /\ \A i \in 1..n : Ends(s)[i] = EndOf(Ends(s)[i - 1], s[i])
  BY EndsFacts
<1>3. Ends(t)[0] = DotLen /\ \A i \in 1..n : Ends(t)[i] = EndOf(Ends(t)[i - 1], t[i])
  BY EndsFacts
<1> HIDE DEF n
<1>4. 0 \in T
  BY <1>1, <1>2, <1>3
<1>5. ASSUME NEW i \in 1..n, i - 1 \in T PROVE i \in T
  <2>1. s[i].name = t[i].name
    BY DEF n
  <2>2. EndOf(Ends(s)[i - 1], s[i]) = EndOf(Ends(t)[i - 1], t[i])
    BY <1>5, <2>1 DEF EndOf, StartOf
  <2> QED
    BY <1>1, <1>2, <1>3, <2>2
<1>6. \A i \in 0..n : i \in T
  <2> HIDE DEF T
  <2> QED
    BY <1>1, <1>4, <1>5, IntervalInduction
<1> QED
  BY <1>1, <1>6 DEF LayoutEnd, n

\* A record put in between.
Inserted(s, k, r) ==
  [i \in 1..(Len(s) + 1) |-> IF i < k THEN s[i] ELSE IF i = k THEN r ELSE s[i - 1]]

LEMMA InsertedType ==
  ASSUME NEW s \in Seq(Records), NEW k \in 1..(Len(s) + 1), NEW r \in Records
  PROVE  Inserted(s, k, r) \in Seq(Records) /\ Len(Inserted(s, k, r)) = Len(s) + 1
<1>1. \A i \in 1..(Len(s) + 1) : Inserted(s, k, r)[i] \in Records
  BY DEF Inserted
<1>2. Inserted(s, k, r) = [i \in 1..(Len(s) + 1) |-> Inserted(s, k, r)[i]]
  BY DEF Inserted
<1>3. Len(s) + 1 \in Nat
  OBVIOUS
<1> HIDE DEF Inserted
<1> QED
  BY <1>1, <1>2, <1>3, IsASeq

\* It makes the directory no shorter.
LEMMA InsertedLayout ==
  ASSUME NEW s \in Seq(Records), NEW k \in 1..(Len(s) + 1), NEW r \in Records
  PROVE  LayoutEnd(s) <= LayoutEnd(Inserted(s, k, r))
<1> DEFINE n == Len(s)
           t == Inserted(s, k, r)
           T == {i \in 0..n : \/ i < k /\ Ends(t)[i] = Ends(s)[i]
                              \/ i >= k - 1 /\ Ends(s)[i] <= Ends(t)[i + 1]}
<1>1. n \in Nat /\ n \in 0..n /\ k \in 1..(n + 1) /\ n + 1 \in Nat
  OBVIOUS
<1>2. t \in Seq(Records) /\ Len(t) = n + 1
  BY InsertedType
<1>3. /\ Ends(s) \in [0..n -> Nat] /\ Ends(s)[0] = DotLen
      /\ \A i \in 1..n : Ends(s)[i] = EndOf(Ends(s)[i - 1], s[i])
  BY EndsFacts
<1>4. /\ Ends(t) \in [0..(n + 1) -> Nat] /\ Ends(t)[0] = DotLen
      /\ \A i \in 1..(n + 1) : Ends(t)[i] = EndOf(Ends(t)[i - 1], t[i])
  BY <1>2, EndsFacts
<1>5. /\ \A i \in 1..n : i < k => t[i] = s[i]
      /\ \A i \in 1..n : i >= k => t[i + 1] = s[i]
      /\ t[k] = r
  BY DEF Inserted
<1>6. \A i \in 1..n : s[i].name \in Names
  BY RecordType
<1>r. r.name \in Names
  BY DEF Records
<1> HIDE DEF n, t
<1>7. 0 \in T
  BY <1>1, <1>3, <1>4
<1>8. ASSUME NEW i \in 1..n, i - 1 \in T PROVE i \in T
  <2>1. /\ i \in 0..n /\ i - 1 \in 0..n /\ i \in 0..(n + 1) /\ i + 1 \in 1..(n + 1)
        /\ (i + 1) - 1 = i /\ (i - 1) + 1 = i
    BY <1>1
  <2>2. Ends(s)[i - 1] \in Nat /\ Ends(s)[i] \in Nat /\ Ends(t)[i] \in Nat
        /\ Ends(t)[i - 1] \in Nat
    <3>1. i - 1 \in 0..(n + 1)
      BY <1>1
    <3>2. Ends(s)[i - 1] \in Nat /\ Ends(s)[i] \in Nat
      BY <1>3, <2>1
    <3>3. Ends(t)[i - 1] \in Nat /\ Ends(t)[i] \in Nat
      BY <1>4, <2>1, <3>1
    <3> QED
      BY <3>2, <3>3
  <2>3. Ends(t)[i + 1] = EndOf(Ends(t)[i], t[i + 1])
    BY <1>4, <2>1
  <2>4. CASE i < k
    <3>1. Ends(t)[i - 1] = Ends(s)[i - 1] \/ i - 1 >= k - 1
      BY <1>1, <1>8
    <3>2. Ends(t)[i - 1] = Ends(s)[i - 1]
      BY <1>1, <2>4, <3>1
    <3> QED
      BY <1>3, <1>4, <1>5, <2>1, <2>4, <3>2
  <2>5. CASE i >= k
    <3>1. Ends(s)[i - 1] <= Ends(t)[i]
      <4>1. CASE i - 1 >= k - 1 /\ Ends(s)[i - 1] <= Ends(t)[(i - 1) + 1]
        BY <2>1, <4>1
      <4>2. CASE i - 1 < k /\ Ends(t)[i - 1] = Ends(s)[i - 1]
        <5>1. i = k
          BY <1>1, <2>5, <4>2
        <5>2. Ends(t)[i] = EndOf(Ends(t)[i - 1], r)
          BY <1>4, <1>5, <2>1, <5>1
        <5> QED
          BY <1>r, <2>2, <4>2, <5>2, EndOfFacts
      <4> QED
        BY <1>8, <4>1, <4>2
    <3>2. EndOf(Ends(s)[i - 1], s[i]) <= EndOf(Ends(t)[i], s[i])
      BY <1>6, <2>2, <3>1, EndOfFacts
    <3>3. Ends(s)[i] <= Ends(t)[i + 1]
      BY <1>3, <1>5, <2>3, <2>5, <3>2
    <3> QED
      BY <1>1, <2>1, <2>5, <3>3
  <2> QED
    BY <1>1, <2>4, <2>5
<1>9. \A i \in 0..n : i \in T
  <2> HIDE DEF T
  <2> QED
    BY <1>1, <1>7, <1>8, IntervalInduction
<1>10. CASE n < k /\ Ends(t)[n] = Ends(s)[n]
  <2>1. k = n + 1 /\ n + 1 \in 1..(n + 1) /\ (n + 1) - 1 = n /\ n \in 0..(n + 1)
    BY <1>1, <1>10
  <2>2. Ends(t)[n + 1] = EndOf(Ends(t)[n], r) /\ Ends(t)[n] \in Nat
    BY <1>4, <1>5, <2>1
  <2>3. Ends(t)[n] <= Ends(t)[n + 1]
    BY <1>r, <2>2, EndOfFacts
  <2> QED
    BY <1>2, <1>10, <2>3 DEF LayoutEnd, n, t
<1>11. CASE Ends(s)[n] <= Ends(t)[n + 1]
  BY <1>2, <1>11 DEF LayoutEnd, n, t
<1> QED
  BY <1>1, <1>9, <1>10, <1>11

\* There is a place for a new name.
LEMMA PlaceFor ==
  ASSUME NEW s \in Seq(Records), Ascending(s), NEW r \in Records,
         r.name \notin NamesIn(s)
  PROVE  \E k \in 1..(Len(s) + 1) : \A i \in 1..Len(s) :
           /\ i < k => s[i].name < r.name
           /\ i >= k => r.name < s[i].name
<1> DEFINE n == Len(s)
           Above == {i \in 1..(n + 1) : i = n + 1 \/ r.name < s[i].name}
<1>1. n \in Nat /\ r.name \in Nat /\ n + 1 \in Above
  <2>1. n \in Nat /\ n + 1 \in 1..(n + 1)
    OBVIOUS
  <2>2. r.name \in Nat
    BY DEF Records
  <2> QED
    BY <2>1, <2>2
<1>2. \A i \in 1..n : s[i].name \in Nat /\ s[i].name # r.name
  BY RecordType, SMTT(30) DEF NamesIn
<1>3. \A i, j \in 1..n : i < j => s[i].name < s[j].name
  BY DEF Ascending
<1>4. PICK k \in Above : \A i \in Above : k <= i
  <2>1. Above \in SUBSET Nat
    BY <1>1
  <2> QED
    BY <1>1, <2>1, LeastElement
<1> HIDE DEF n
<1>5. k \in 1..(n + 1)
  OBVIOUS
<1>6. ASSUME NEW i \in 1..n, i < k PROVE s[i].name < r.name
  <2>1. i \notin Above
    BY <1>1, <1>4, <1>5, <1>6
  <2>2. ~(r.name < s[i].name)
    BY <1>1, <2>1
  <2> QED
    BY <1>1, <1>2, <2>2
<1>7. ASSUME NEW i \in 1..n, i >= k PROVE r.name < s[i].name
  <2>1. k \in 1..n /\ r.name < s[k].name
    BY <1>1, <1>5, <1>7
  <2>2. s[k].name <= s[i].name
    <3>1. CASE k = i
      BY <1>2, <3>1
    <3>2. CASE k < i
      BY <1>2, <1>3, <2>1, <3>2
    <3> QED
      BY <1>5, <1>7, <3>1, <3>2
  <2> QED
    BY <1>1, <1>2, <2>1, <2>2
<1> QED
  BY <1>5, <1>6, <1>7 DEF n

\* In that place it leaves the directory sorted.
LEMMA InsertedAscending ==
  ASSUME NEW s \in Seq(Records), Ascending(s), NEW r \in Records,
         NEW k \in 1..(Len(s) + 1),
         \A i \in 1..Len(s) : /\ i < k => s[i].name < r.name
                              /\ i >= k => r.name < s[i].name
  PROVE  Ascending(Inserted(s, k, r))
<1> DEFINE n == Len(s)
           t == Inserted(s, k, r)
<1>1. n \in Nat /\ k \in 1..(n + 1) /\ DOMAIN t = 1..(n + 1)
  BY DEF Inserted
<1>2. \A i, j \in 1..n : i < j => s[i].name < s[j].name
  BY DEF Ascending
<1>3. \A i \in 1..(n + 1) :
        t[i] = (IF i < k THEN s[i] ELSE IF i = k THEN r ELSE s[i - 1])
  BY DEF Inserted
<1>4. \A i \in 1..n : s[i].name \in Nat
  BY RecordType
<1>5. r.name \in Nat
  BY DEF Records
<1>6. \A i \in 1..n : (i < k => s[i].name < r.name) /\ (i >= k => r.name < s[i].name)
  OBVIOUS
<1> HIDE DEF n, t
<1>7. ASSUME NEW i \in 1..(n + 1), NEW j \in 1..(n + 1), i < j
      PROVE  t[i].name < t[j].name
  <2>1. CASE j < k
    <3>1. i \in 1..n /\ j \in 1..n /\ i < k
      BY <1>1, <1>7, <2>1
    <3> QED
      BY <1>2, <1>3, <1>7, <2>1, <3>1
  <2>2. CASE j = k
    <3>1. i \in 1..n /\ i < k
      BY <1>1, <1>7, <2>2
    <3>2. t[i] = s[i] /\ t[j] = r
      BY <1>1, <1>3, <2>2, <3>1
    <3> QED
      BY <1>6, <3>1, <3>2
  <2>3. CASE j > k /\ i < k
    <3>1. i \in 1..n /\ j - 1 \in 1..n /\ j - 1 >= k
      BY <1>1, <1>7, <2>3
    <3>2. t[i] = s[i] /\ t[j] = s[j - 1]
      BY <1>1, <1>3, <2>3
    <3>3. s[i].name < r.name /\ r.name < s[j - 1].name
      BY <1>6, <2>3, <3>1
    <3> QED
      BY <1>4, <1>5, <3>1, <3>2, <3>3
  <2>4. CASE j > k /\ i = k
    <3>1. j - 1 \in 1..n /\ j - 1 >= k
      BY <1>1, <1>7, <2>4
    <3>2. t[i] = r /\ t[j] = s[j - 1]
      BY <1>1, <1>3, <2>4
    <3> QED
      BY <1>6, <3>1, <3>2
  <2>5. CASE j > k /\ i > k
    <3>1. i - 1 \in 1..n /\ j - 1 \in 1..n /\ i - 1 < j - 1
      BY <1>1, <1>7, <2>5
    <3>2. t[i] = s[i - 1] /\ t[j] = s[j - 1]
      BY <1>1, <1>3, <2>5
    <3> QED
      BY <1>2, <3>1, <3>2
  <2> QED
    BY <1>1, <2>1, <2>2, <2>3, <2>4, <2>5
<1> QED
  BY <1>1, <1>7 DEF Ascending, t

\* Sorting after appending inserts.
LEMMA SortedAppend ==
  ASSUME NEW s \in Seq(Records), Ascending(s), NEW r \in Records,
         r.name \notin NamesIn(s)
  PROVE  \E k \in 1..(Len(s) + 1) :
           Sorted(Append(s, r)) = Inserted(s, k, r) /\ Ascending(Inserted(s, k, r))
<1> DEFINE n == Len(s)
           N == n + 1
           a == Append(s, r)
           IsSorted(u) == \A i, j \in 1..Len(u) : i < j => u[i].name <= u[j].name
<1>1. n \in Nat /\ N \in Nat /\ a \in Seq(Records) /\ Len(a) = N
      /\ a[N] = r /\ \A i \in 1..n : a[i] = s[i]
  BY AppendProperties
<1>2. PICK k \in 1..N : \A i \in 1..n : /\ i < k => s[i].name < r.name
                                        /\ i >= k => r.name < s[i].name
  BY PlaceFor
<1> DEFINE t == Inserted(s, k, r)
           p == [i \in 1..N |-> IF i < k THEN i ELSE IF i = k THEN N ELSE i - 1]
<1>3. Ascending(t) /\ t \in Seq(Records) /\ Len(t) = N
  BY <1>2, InsertedAscending, InsertedType
<1>4. \A i \in 1..N : t[i] = a[p[i]]
  BY <1>1 DEF Inserted
<1>5. p \in Bijection(1..N, 1..N)
  <2>1. p \in [1..N -> 1..N]
    BY <1>1
  <2>2. \A i, j \in 1..N : p[i] = p[j] => i = j
    BY <1>1
  <2>3. ASSUME NEW m \in 1..N PROVE \E i \in 1..N : p[i] = m
    <3>1. CASE m = N
      BY <1>1, <3>1
    <3>2. CASE m # N /\ m < k
      BY <1>1, <3>2
    <3>3. CASE m # N /\ m >= k
      <4>1. m + 1 \in 1..N /\ p[m + 1] = m
        BY <1>1, <3>3
      <4> QED
        BY <4>1
    <3> QED
      BY <1>1, <3>1, <3>2, <3>3
  <2>4. DOMAIN p = 1..N
    OBVIOUS
  <2> HIDE DEF p, N
  <2> QED
    BY <2>1, <2>2, <2>3, <2>4 DEF Bijection, Injection, Surjection, IsInjective
<1>6. t = [i \in 1..N |-> a[p[i]]]
  BY <1>4 DEF Inserted
<1>7. \A i, j \in 1..N : a[i].name = a[j].name => i = j
  <2>1. ASSUME NEW i \in 1..n, NEW j \in 1..n, s[i].name = s[j].name PROVE i = j
    <3>1. s[i].name \in Nat /\ s[j].name \in Nat
      BY RecordType
    <3>2. (i < j => s[i].name < s[j].name) /\ (j < i => s[j].name < s[i].name)
      BY DEF Ascending
    <3> QED
      BY <1>1, <2>1, <3>1, <3>2
  <2>2. \A i \in 1..n : s[i].name # r.name
    BY DEF NamesIn
  <2>3. \A i \in 1..N : i = N \/ i \in 1..n
    BY <1>1
  <2> HIDE DEF a, N, n
  <2> QED
    BY <1>1, <2>1, <2>2, <2>3
<1>8. \A i \in 1..N : a[i].name \in Nat
  BY <1>1, RecordType
<1> HIDE DEF p, a, t, N
<1>9. Sorted(a) \in Rearranged(a) /\ IsSorted(Sorted(a))
  <2>1. t \in Rearranged(a)
    BY <1>1, <1>5, <1>6 DEF Rearranged
  <2>2. ASSUME NEW i \in 1..Len(t), NEW j \in 1..Len(t), i < j
        PROVE  t[i].name <= t[j].name
    <3>1. t[i].name \in Nat /\ t[j].name \in Nat
      BY <1>3, RecordType
    <3>2. t[i].name < t[j].name
      BY <1>3, <2>2 DEF Ascending
    <3> QED
      BY <3>1, <3>2
  <2>4. IsSorted(t)
    BY <2>2
  <2>3. Sorted(a) = CHOOSE u \in Rearranged(a) : IsSorted(u)
    BY DEF Sorted
  <2> HIDE DEF IsSorted
  <2> QED
    BY <2>1, <2>3, <2>4
<1> DEFINE u == Sorted(a)
<1>10. PICK q \in Bijection(1..N, 1..N) : u = [i \in 1..N |-> a[q[i]]]
  BY <1>1, <1>9 DEF Rearranged
<1>11. Len(u) = N
  BY <1>1, <1>10
<1>12. \A i, j \in 1..N : i < j => u[i].name <= u[j].name
  BY <1>9, <1>11
<1> HIDE DEF u
<1>13. /\ p \in [1..N -> 1..N] /\ q \in [1..N -> 1..N]
       /\ \A i, j \in 1..N : q[i] = q[j] => i = j
       /\ \A m \in 1..N : \E i \in 1..N : p[i] = m
       /\ \A m \in 1..N : \E i \in 1..N : q[i] = m
  BY <1>5, <1>10 DEF Bijection, Injection, Surjection, IsInjective
<1>14. \A i \in 1..N : u[i] = a[q[i]] /\ t[i] = a[p[i]]
  BY <1>6, <1>10
<1> DEFINE f == [i \in 1..N |-> t[i].name]
           g == [i \in 1..N |-> u[i].name]
<1>15. f \in [1..N -> Nat] /\ g \in [1..N -> Nat]
  <2>1. ASSUME NEW i \in 1..N PROVE t[i].name \in Nat /\ u[i].name \in Nat
    <3>1. p[i] \in 1..N /\ q[i] \in 1..N
      BY <1>13
    <3> QED
      BY <1>8, <1>14, <3>1, Zenon
  <2> QED
    BY <2>1, Zenon
<1>16. \A i, j \in 1..N : i < j => f[i] < f[j]
  BY <1>1, <1>3, SMTT(30) DEF Ascending
<1>17. ASSUME NEW i \in 1..N, NEW j \in 1..N, i < j PROVE g[i] < g[j]
  <2>1. g[i] \in Nat /\ g[j] \in Nat /\ g[i] <= g[j]
    BY <1>12, <1>15, <1>17
  <2>2. q[i] # q[j]
    BY <1>1, <1>13, <1>17
  <2>3. g[i] # g[j]
    <3>1. q[i] \in 1..N /\ q[j] \in 1..N
      BY <1>13
    <3>2. g[i] = a[q[i]].name /\ g[j] = a[q[j]].name
      BY <1>14
    <3> QED
      BY <1>7, <2>2, <3>1, <3>2
  <2> QED
    BY <2>1, <2>3
<1>18. ASSUME NEW i \in 1..N PROVE \E m \in 1..N : f[i] = g[m]
  <2>1. PICK m \in 1..N : q[m] = p[i]
    BY <1>13
  <2> QED
    BY <1>14, <2>1
<1>19. ASSUME NEW i \in 1..N PROVE \E m \in 1..N : g[i] = f[m]
  <2>1. PICK m \in 1..N : p[m] = q[i]
    BY <1>13
  <2> QED
    BY <1>14, <2>1
<1>20. f = g
  <2> HIDE DEF f, g
  <2>1. f \in Climbing(N) /\ g \in Climbing(N)
    BY <1>15, <1>16, <1>17 DEF Climbing
  <2>2. Within(f, g, N) /\ Within(g, f, N)
    BY <1>18, <1>19 DEF Within
  <2> QED
    BY <1>1, <2>1, <2>2, AscendingUnique
<1>21. ASSUME NEW i \in 1..N PROVE u[i] = t[i]
  <2>1. q[i] \in 1..N /\ p[i] \in 1..N
    BY <1>13
  <2>2. a[q[i]].name = a[p[i]].name
    BY <1>14, <1>20
  <2>3. q[i] = p[i]
    BY <1>7, <2>1, <2>2
  <2> QED
    BY <1>14, <2>3
<1>22. u = t
  BY <1>6, <1>10, <1>21
<1> QED
  BY <1>2, <1>3, <1>22 DEF u, t, a, N

-----------------------------------------------------------------------------
(***************************************************************************)
(* The inductive invariant.                                                *)
(***************************************************************************)

Over == {"dead", "torn"}
Data == Nat \X Nat

\* The call under way has a directory to write and data to put at the end.
TypeInv ==
  /\ TypeOK
  /\ data \in Seq(Data)
  /\ pc \in Writes =>
       /\ call.records \in Seq(Records)
       /\ call.len = LayoutEnd(call.records)
       /\ call.at \in Nat
       /\ pc # "volume" => call.at = Len(data)

\* The directory is sorted and ends within its length in the root, and both
\* the old one and the one to be written fill the same sectors; which lengths
\* agree depends on how far the call has come.
LayoutInv ==
  /\ pc # "torn" => Ascending(dir)
  /\ pc \notin {"root-length", "torn"} => LayoutEnd(dir) <= rootLen
  /\ pc \notin Over => RoundUp(LayoutEnd(dir)) = extent /\ RoundUp(rootLen) = extent
  /\ pc \notin Over \cup {"self-length"} => selfLen = rootLen
  /\ pc \notin Over \cup {"volume"} => volume = Len(data)
  /\ pc \in {"directory", "record"} =>
       Ascending(call.records) /\ RoundUp(LayoutEnd(call.records)) = extent
  /\ pc = "record" => LayoutEnd(call.records) = LayoutEnd(dir)
  /\ pc \in {"root-length", "self-length"} => call.len = LayoutEnd(dir)
  /\ pc = "self-length" => call.len = rootLen

\* A record whose file reads back as promised.
Kept(r) ==
  /\ r.name \in DOMAIN promised
  /\ r.at + r.size <= Len(data)
  /\ SubSeq(data, r.at + 1, r.at + r.size) = promised[r.name]

\* A record as the call makes it.
Redirected(r) == r.name = call.name /\ r.at = call.at /\ r.size = call.size

\* Every promised file has a record, and every record but that of the file
\* under way keeps its promise; that one points to where the data goes, or is
\* not written yet.
FilesInv ==
  /\ DOMAIN promised \subseteq NamesIn(dir)
  /\ \A i \in DOMAIN dir : Kept(dir[i]) \/ (pc # "idle" /\ dir[i].name = call.name)
  /\ pc \in {"directory", "record"} =>
       /\ \A i \in DOMAIN call.records :
            \/ Kept(call.records[i]) /\ call.records[i].name # call.name
            \/ Redirected(call.records[i])
       /\ DOMAIN promised \cup {call.name} \subseteq NamesIn(call.records)
       /\ \A i \in DOMAIN dir : Kept(dir[i])
  /\ pc = "record" =>
       /\ DOMAIN call.records = DOMAIN dir
       /\ \A i \in DOMAIN dir :
            /\ call.records[i].name = dir[i].name
            /\ dir[i].name = call.name \/ call.records[i] = dir[i]
  /\ pc \in {"root-length", "self-length", "data", "volume"} =>
       /\ call.name \in NamesIn(dir)
       /\ \A i \in DOMAIN dir : dir[i].name = call.name => Redirected(dir[i])
  /\ pc = "volume" =>
       /\ call.at + call.size <= Len(data)
       /\ SubSeq(data, call.at + 1, call.at + call.size) = Fresh(calls, call.size)

IInv == TypeInv /\ LayoutInv /\ FilesInv

\* The types of the invariant, for the proofs.
LEMMA Types ==
  ASSUME TypeInv
  PROVE  /\ dir \in Seq(Records) /\ Len(dir) \in Nat /\ DOMAIN dir = 1..Len(dir)
         /\ data \in Seq(Data) /\ Len(data) \in Nat
         /\ rootLen \in Nat /\ selfLen \in Nat /\ extent \in Nat /\ volume \in Nat
         /\ calls \in 0..MaxCalls /\ DOMAIN promised \subseteq Names
         /\ pc \in {"idle", "dead", "torn"} \cup Writes
<1>1. dir \in Seq(Records) /\ data \in Seq(Data)
  BY DEF TypeInv, TypeOK, Records
<1>2. Len(dir) \in Nat /\ DOMAIN dir = 1..Len(dir) /\ Len(data) \in Nat
  BY <1>1, LenProperties
<1> QED
  BY <1>1, <1>2 DEF TypeInv, TypeOK

\* A directory that ends within its length in the root is all read.
LEMMA AllVisible ==
  ASSUME TypeInv, LayoutEnd(dir) <= rootLen
  PROVE  Visible = dir /\ ~Cut
<1>1. dir \in Seq(Records) /\ Len(dir) \in Nat /\ rootLen \in Nat
  BY Types
<1>2. \A i \in 1..Len(dir) : Ends(dir)[i] \in Nat /\ Ends(dir)[i] <= rootLen
  <2> SUFFICES ASSUME NEW i \in 1..Len(dir)
               PROVE  Ends(dir)[i] \in Nat /\ Ends(dir)[i] <= rootLen
    OBVIOUS
  <2>1. i \in 0..Len(dir)
    BY <1>1
  <2>2. Ends(dir)[i] \in Nat
    BY <1>1, <2>1, EndsFacts
  <2>3. LayoutEnd(dir) \in Nat /\ Ends(dir)[i] <= LayoutEnd(dir)
    BY <1>1, <2>1, EndsAscend
  <2> QED
    BY <1>1, <2>2, <2>3
<1>3. {i \in 1..Len(dir) : Ends(dir)[i] <= rootLen} = 1..Len(dir)
  BY <1>2
<1>4. Cardinality(1..Len(dir)) = Len(dir)
  <2>1. Cardinality(1..Len(dir)) = (IF 1 > Len(dir) THEN 0 ELSE Len(dir) - 1 + 1)
    <3>1. Len(dir) \in Int /\ 1 \in Int
      BY <1>1
    <3> QED
      BY <3>1, FS_Interval, Zenon
  <2> QED
    BY <1>1, <2>1
<1>5. Visible = dir
  BY <1>1, <1>3, <1>4, SubSeqFull DEF Visible
<1>6. ~Cut
  BY <1>1, <1>2 DEF Cut
<1> QED
  BY <1>5, <1>6

\* What a file is does not change while data is added behind it.
LEMMA KeptWhenAdding ==
  ASSUME TypeInv, NEW r \in Records, Kept(r), NEW more \in Seq(Data),
         data' = data \o more, promised' = promised
  PROVE  Kept(r)'
<1>1. data \in Seq(Data) /\ Len(data) \in Nat /\ Len(more) \in Nat
  BY Types, LenProperties
<1>2. Len(data') = Len(data) + Len(more)
  BY <1>1, ConcatProperties
<1>3. r.at \in Nat /\ r.size \in 1..MaxSize /\ r.at + r.size <= Len(data)
  BY DEF Records, Kept
<1>4. r.at + 1 \in 1..Len(data) /\ r.at + r.size \in 1..Len(data)
  BY <1>1, <1>3
<1>5. SubSeq(data', r.at + 1, r.at + r.size) = SubSeq(data, r.at + 1, r.at + r.size)
  BY <1>1, <1>4, SubSeqOfConcat1
<1> QED
  BY <1>1, <1>2, <1>3, <1>5 DEF Kept

\* New contents are data of their size.
LEMMA FreshType ==
  ASSUME NEW k \in Nat, NEW n \in Nat
  PROVE  Fresh(k, n) \in Seq(Data) /\ Len(Fresh(k, n)) = n
<1>1. \A i \in 1..n : <<k, i>> \in Data
  BY DEF Data
<1>2. Fresh(k, n) = [i \in 1..n |-> <<k, i>>]
  BY DEF Fresh
<1> HIDE DEF Data
<1>3. Fresh(k, n) \in [1..n -> Data]
  BY <1>1, <1>2
<1> QED
  BY <1>3

-----------------------------------------------------------------------------
(***************************************************************************)
(* The steps.                                                              *)
(***************************************************************************)

\* An original ISO is sound, and its files are what they are.
LEMMA InitSound == Init => IInv
<1> SUFFICES ASSUME Init PROVE IInv
  OBVIOUS
<1>1. PICK count \in 0..Cardinality(Names) : \E names \in [1..count -> Names] :
        /\ \A i, j \in 1..count : i < j => names[i] < names[j]
        /\ dir = [i \in 1..count |-> Record(names[i], i - 1, 1)]
        /\ data = [i \in 1..count |-> <<0, names[i]>>]
        /\ promised = [n \in {names[i] : i \in 1..count} |-> <<<<0, n>>>>]
  BY DEF Init
<1>2. PICK names \in [1..count -> Names] :
        /\ \A i, j \in 1..count : i < j => names[i] < names[j]
        /\ dir = [i \in 1..count |-> Record(names[i], i - 1, 1)]
        /\ data = [i \in 1..count |-> <<0, names[i]>>]
        /\ promised = [n \in {names[i] : i \in 1..count} |-> <<<<0, n>>>>]
  BY <1>1
<1>3. /\ rootLen = RoundUp(LayoutEnd(dir)) /\ selfLen = rootLen /\ extent = rootLen
      /\ volume = Len(data) /\ pc = "idle" /\ calls = 0
  BY DEF Init
<1>4. count \in Nat
  BY FS_CardinalityType
<1>5. ASSUME NEW i \in 1..count
      PROVE  Record(names[i], i - 1, 1) \in Records /\ <<0, names[i]>> \in Data
  <2>1. names[i] \in Names /\ names[i] \in Nat
    BY <1>2
  <2>4. i - 1 \in Nat /\ 1 \in 1..MaxSize
    BY <1>4
  <2>2. Record(names[i], i - 1, 1) \in Records
    BY <2>1, <2>4 DEF Record, Records
  <2>3. <<0, names[i]>> \in Data
    BY <2>1 DEF Data
  <2> QED
    BY <2>2, <2>3
<1>6. dir \in Seq(Records) /\ data \in Seq(Data) /\ Len(dir) = count /\ Len(data) = count
  <2>1. dir \in [1..count -> Records] /\ data \in [1..count -> Data]
    BY <1>2, <1>5
  <2> QED
    BY <1>4, <2>1
<1>7. LayoutEnd(dir) \in Nat
  BY <1>6, EndsAscend
<1>8. rootLen \in Nat /\ LayoutEnd(dir) <= rootLen /\ RoundUp(rootLen) = rootLen
  BY <1>3, <1>7, RoundUpFacts
<1>9. TypeInv
  <2>1. DOMAIN promised \subseteq Names
    BY <1>2
  <2>2. dir \in Seq([name : Names, at : Nat, size : 1..MaxSize])
    BY <1>6 DEF Records
  <2> QED
    BY <1>3, <1>4, <1>6, <1>8, <2>1, <2>2 DEF TypeInv, TypeOK, Writes
<1>10. Ascending(dir)
  BY <1>2 DEF Ascending, Record
<1>11. LayoutInv
  BY <1>3, <1>8, <1>10 DEF LayoutInv, Over
<1>12. ASSUME NEW i \in 1..count PROVE Kept(dir[i])
  <2>1. dir[i].name = names[i] /\ dir[i].at + 1 = i /\ dir[i].at + dir[i].size = i
    BY <1>2, <1>4 DEF Record
  <2>2. SubSeq(data, i, i) = <<data[i]>>
    <3>1. /\ SubSeq(data, i, i) \in Seq(Data) /\ Len(SubSeq(data, i, i)) = 1
          /\ SubSeq(data, i, i)[1] = data[i]
      BY <1>4, <1>6
    <3>2. <<data[i]>> \in Seq(Data)
      BY <1>6, ElementOfSeq
    <3>3. Len(<<data[i]>>) = 1 /\ \A j \in 1..1 : <<data[i]>>[j] = data[i]
      OBVIOUS
    <3>4. \A j \in 1..1 : SubSeq(data, i, i)[j] = <<data[i]>>[j]
      BY <3>1, <3>3
    <3> QED
      BY <3>1, <3>2, <3>3, <3>4, SeqEqual
  <2>3. promised[names[i]] = <<<<0, names[i]>>>> /\ names[i] \in DOMAIN promised
    BY <1>2
  <2>4. data[i] = <<0, names[i]>>
    BY <1>2
  <2>5. i <= Len(data)
    BY <1>4, <1>6
  <2> QED
    BY <2>1, <2>2, <2>3, <2>4, <2>5 DEF Kept
<1>13. FilesInv
  <2>1. DOMAIN dir = 1..count
    BY <1>2
  <2>2. DOMAIN promised \subseteq NamesIn(dir)
    BY <1>2 DEF NamesIn, Record
  <2> QED
    BY <1>3, <1>12, <2>1, <2>2 DEF FilesInv
<1> QED
  BY <1>9, <1>11, <1>13 DEF IInv

\* At rest the whole directory is read, and every record keeps its promise.
LEMMA AtRest ==
  ASSUME IInv, pc = "idle"
  PROVE  /\ Visible = dir /\ Ascending(dir) /\ LayoutEnd(dir) <= rootLen
         /\ RoundUp(LayoutEnd(dir)) = extent /\ RoundUp(rootLen) = extent
         /\ \A i \in DOMAIN dir : Kept(dir[i])
         /\ NamesIn(dir) = DOMAIN promised
<1>1. TypeInv /\ LayoutInv /\ FilesInv
  BY DEF IInv
<1>2. Ascending(dir) /\ LayoutEnd(dir) <= rootLen
      /\ RoundUp(LayoutEnd(dir)) = extent /\ RoundUp(rootLen) = extent
  BY <1>1 DEF LayoutInv, Over
<1>3. Visible = dir
  BY <1>1, <1>2, AllVisible
<1>4. \A i \in DOMAIN dir : Kept(dir[i])
  BY <1>1 DEF FilesInv
<1>5. NamesIn(dir) = DOMAIN promised
  BY <1>1, <1>4 DEF FilesInv, NamesIn, Kept
<1> QED
  BY <1>2, <1>3, <1>4, <1>5

\* A call that is refused changes nothing.
LEMMA RefusedStep ==
  ASSUME IInv, pc = "idle", Refused, calls' \in 0..MaxCalls
  PROVE  IInv'
<1> USE DEF Refused, dirVars
<1>1. TypeInv'
  BY DEF IInv, TypeInv, TypeOK, Writes
<1>2. LayoutInv'
  BY DEF IInv, LayoutInv, Over
<1>3. FilesInv'
  BY DEF IInv, FilesInv, NamesIn, Kept
<1> QED
  BY <1>1, <1>2, <1>3 DEF IInv

\* A new file: the directory to be written is the old one with its record put
\* in its place, in the same sectors.
LEMMA AppendStep ==
  ASSUME IInv, NEW name \in Names, NEW size \in 0..MaxSize, AppendFile(name, size)
  PROVE  IInv'
<1>0. PICK r, records : r = Record(name, Len(data), size)
                        /\ records = Sorted(Append(Visible, r))
  OBVIOUS
<1>1. TypeInv /\ LayoutInv /\ FilesInv
  BY DEF IInv
<1>2. pc = "idle" /\ calls < MaxCalls /\ calls' = calls + 1
  BY DEF AppendFile
<1>3. calls' \in 0..MaxCalls
  BY <1>1, <1>2, Types
<1>4. CASE Refused
  BY <1>2, <1>3, <1>4, RefusedStep
<1>5. CASE /\ size # 0 /\ Find(name) = {} /\ Fits(records)
           /\ Called(name, size, records, "directory")
  <2>1. /\ Visible = dir /\ Ascending(dir) /\ LayoutEnd(dir) <= rootLen
        /\ RoundUp(LayoutEnd(dir)) = extent /\ RoundUp(rootLen) = extent
        /\ \A i \in DOMAIN dir : Kept(dir[i])
        /\ NamesIn(dir) = DOMAIN promised
    BY <1>2, AtRest
  <2>2. /\ dir \in Seq(Records) /\ Len(dir) \in Nat /\ DOMAIN dir = 1..Len(dir)
        /\ data \in Seq(Data) /\ Len(data) \in Nat /\ rootLen \in Nat
    BY <1>1, Types
  <2>3. r \in Records
    BY <1>0, <1>5, <2>2 DEF Record, Records
  <2>4. r.name = name /\ r.at = Len(data) /\ r.size = size
    BY <1>0 DEF Record
  <2>5. \A i \in 1..Len(dir) : dir[i].name # name
    BY <1>5, <2>1 DEF Find
  <2>6. r.name \notin NamesIn(dir)
    BY <2>2, <2>4, <2>5 DEF NamesIn
  <2>7. PICK k \in 1..(Len(dir) + 1) :
          records = Inserted(dir, k, r) /\ Ascending(Inserted(dir, k, r))
    BY <1>0, <2>1, <2>2, <2>3, <2>6, SortedAppend
  <2>8. /\ records \in Seq(Records) /\ DOMAIN records = 1..(Len(dir) + 1)
        /\ LayoutEnd(dir) <= LayoutEnd(records)
    <3>1. records \in Seq(Records)
      BY <2>2, <2>3, <2>7, InsertedType
    <3>2. DOMAIN records = 1..(Len(dir) + 1)
      BY <2>7 DEF Inserted
    <3>3. LayoutEnd(dir) <= LayoutEnd(records)
      BY <2>2, <2>3, <2>7, InsertedLayout
    <3> QED
      BY <3>1, <3>2, <3>3
  <2>9. \A i \in 1..(Len(dir) + 1) : records[i] =
          (IF i < k THEN dir[i] ELSE IF i = k THEN r ELSE dir[i - 1])
    BY <2>7 DEF Inserted
  <2>10. /\ pc' = "directory" /\ UNCHANGED <<dirVars, data, volume, promised>>
         /\ call' = [name |-> name, size |-> size, at |-> Len(data),
                     records |-> records, len |-> LayoutEnd(records)]
    BY <1>5 DEF Called
  <2>11. Ascending(records) /\ LayoutEnd(records) <= RoundUp(rootLen)
    BY <1>5, <2>7 DEF Fits
  <2>12. RoundUp(LayoutEnd(records)) = extent
    <3>1. LayoutEnd(dir) \in Nat /\ LayoutEnd(records) \in Nat
      BY <2>2, <2>8, EndsAscend
    <3>2. RoundUp(LayoutEnd(dir)) <= RoundUp(LayoutEnd(records))
      BY <2>8, <3>1, RoundUpFacts
    <3>3. RoundUp(rootLen) \in Nat /\ RoundUp(RoundUp(rootLen)) = RoundUp(rootLen)
      BY <2>2, RoundUpFacts
    <3>4. RoundUp(LayoutEnd(records)) <= RoundUp(RoundUp(rootLen))
      BY <2>11, <3>1, <3>3, RoundUpFacts
    <3>5. RoundUp(LayoutEnd(records)) \in Nat /\ RoundUp(LayoutEnd(dir)) \in Nat
      BY <3>1, RoundUpFacts
    <3> QED
      BY <2>1, <3>2, <3>3, <3>4, <3>5
  <2>13. TypeInv'
    <3>1. TypeOK'
      <4>1. size \in 1..MaxSize
        BY <1>5
      <4> QED
        BY <1>1, <1>3, <2>10, <4>1 DEF TypeInv, TypeOK, Writes, dirVars
    <3>2. data' \in Seq(Data)
      BY <2>2, <2>10
    <3> QED
      BY <2>2, <2>8, <2>10, <3>1, <3>2 DEF TypeInv
  <2>14. LayoutInv'
    BY <1>1, <1>2, <2>1, <2>10, <2>11, <2>12 DEF LayoutInv, Over, dirVars
  <2>15. FilesInv'
    <3>1. \A x : Kept(x)' <=> Kept(x)
      BY <2>10 DEF Kept
    <3>2. Redirected(r)'
      BY <2>4, <2>10 DEF Redirected
    <3>3. ASSUME NEW i \in DOMAIN records
          PROVE  (Kept(records[i])' /\ records[i].name # name) \/ Redirected(records[i])'
      <4>1. i \in 1..(Len(dir) + 1)
        BY <2>8
      <4>2. CASE i = k
        BY <2>9, <3>2, <4>1, <4>2
      <4>3. CASE i < k
        <5>1. i \in 1..Len(dir) /\ records[i] = dir[i]
          BY <2>2, <2>9, <4>1, <4>3
        <5> QED
          BY <2>1, <2>2, <2>5, <3>1, <5>1
      <4>4. CASE i > k
        <5>1. i - 1 \in 1..Len(dir) /\ records[i] = dir[i - 1]
          BY <2>2, <2>9, <4>1, <4>4
        <5> QED
          BY <2>1, <2>2, <2>5, <3>1, <5>1
      <4> QED
        BY <2>2, <4>1, <4>2, <4>3, <4>4
    <3>4. name \in NamesIn(records)
      <4>1. k \in DOMAIN records /\ records[k] = r
        BY <2>8, <2>9
      <4> QED
        BY <2>4, <4>1 DEF NamesIn
    <3>5. NamesIn(dir) \subseteq NamesIn(records)
      <4> SUFFICES ASSUME NEW i \in 1..Len(dir) PROVE dir[i].name \in NamesIn(records)
        BY <2>2 DEF NamesIn
      <4>1. CASE i < k
        <5>1. i \in DOMAIN records /\ records[i] = dir[i]
          BY <2>2, <2>8, <2>9, <4>1
        <5> QED
          BY <5>1 DEF NamesIn
      <4>2. CASE i >= k
        <5>1. i + 1 \in DOMAIN records /\ records[i + 1] = dir[i]
          BY <2>2, <2>8, <2>9, <4>2
        <5> QED
          BY <5>1 DEF NamesIn
      <4> QED
        BY <2>2, <4>1, <4>2
    <3>6. dir' = dir /\ promised' = promised /\ call'.name = name /\ call'.records = records
      BY <2>10 DEF dirVars
    <3>7. NamesIn(dir)' = NamesIn(dir) /\ NamesIn(call.records)' = NamesIn(records)
      BY <3>6 DEF NamesIn
    <3>8. DOMAIN promised \cup {name} \subseteq NamesIn(records)
      BY <2>1, <3>4, <3>5
    <3> QED
      BY <2>1, <2>10, <3>1, <3>3, <3>6, <3>7, <3>8 DEF FilesInv
  <2> QED
    BY <2>13, <2>14, <2>15 DEF IInv
<1> QED
  BY <1>0, <1>4, <1>5 DEF AppendFile

\* New contents for a file: the directory to be written is the old one but for
\* the address and the size in one record.
LEMMA ReplaceStep ==
  ASSUME IInv, NEW name \in Names, NEW size \in 0..MaxSize, ReplaceFile(name, size)
  PROVE  IInv'
<1>1. TypeInv /\ LayoutInv /\ FilesInv
  BY DEF IInv
<1>2. pc = "idle" /\ calls < MaxCalls /\ calls' = calls + 1
  BY DEF ReplaceFile
<1>3. calls' \in 0..MaxCalls
  BY <1>1, <1>2, Types
<1>4. CASE Refused
  BY <1>2, <1>3, <1>4, RefusedStep
<1>5. CASE size # 0 /\ Find(name) # {} /\ ~Refused
  <2>1. /\ Visible = dir /\ Ascending(dir) /\ LayoutEnd(dir) <= rootLen
        /\ RoundUp(LayoutEnd(dir)) = extent /\ RoundUp(rootLen) = extent
        /\ \A i \in DOMAIN dir : Kept(dir[i])
        /\ NamesIn(dir) = DOMAIN promised
    BY <1>2, AtRest
  <2>2. /\ dir \in Seq(Records) /\ Len(dir) \in Nat /\ DOMAIN dir = 1..Len(dir)
        /\ data \in Seq(Data) /\ Len(data) \in Nat /\ rootLen \in Nat
    BY <1>1, Types
  <2>3. PICK k, r, records :
          /\ k \in 1..Len(dir) /\ dir[k].name = name
          /\ r = Record(name, Len(data), size)
          /\ records = [dir EXCEPT ![k] = r]
          /\ Called(name, size, records, "record")
    <3> DEFINE k == CHOOSE j \in Find(name) : TRUE
    <3>1. k \in Find(name)
      BY <1>5
    <3>2. k \in 1..Len(dir) /\ dir[k].name = name
      BY <2>1, <3>1 DEF Find
    <3>3. Called(name, size, [dir EXCEPT ![k] = Record(name, Len(data), size)], "record")
      BY <1>5, <2>1 DEF ReplaceFile
    <3> HIDE DEF k
    <3> QED
      BY <3>2, <3>3
  <2>4. r.name = name /\ r.at = Len(data) /\ r.size = size
    BY <2>3 DEF Record
  <2>5. r \in Records
    BY <1>5, <2>2, <2>3 DEF Record, Records
  <2>6. records \in Seq(Records) /\ Len(records) = Len(dir) /\ DOMAIN records = 1..Len(dir)
    BY <2>2, <2>3, <2>5
  <2>7. \A i \in 1..Len(dir) : records[i] = (IF i = k THEN r ELSE dir[i])
    BY <2>2, <2>3
  <2>8. \A i \in 1..Len(dir) : records[i].name = dir[i].name
    BY <2>3, <2>4, <2>7
  <2>9. LayoutEnd(records) = LayoutEnd(dir)
    BY <2>2, <2>6, <2>8, EndsOfNames
  <2>10. Ascending(records)
    BY <2>1, <2>2, <2>6, <2>8 DEF Ascending
  <2>11. ASSUME NEW i \in 1..Len(dir), i # k PROVE dir[i].name # name
    <3>0. k \in 1..Len(dir)
      BY <2>3
    <3>1. dir[i].name \in Nat /\ dir[k].name \in Nat
      BY <2>2, <3>0, RecordType
    <3>2. (i < k => dir[i].name < dir[k].name) /\ (k < i => dir[k].name < dir[i].name)
      BY <2>1, <2>2, <3>0 DEF Ascending
    <3> QED
      BY <2>2, <2>3, <2>11, <3>0, <3>1, <3>2
  <2>12. /\ pc' = "record" /\ UNCHANGED <<dirVars, data, volume, promised>>
         /\ call' = [name |-> name, size |-> size, at |-> Len(data),
                     records |-> records, len |-> LayoutEnd(records)]
    BY <2>3 DEF Called
  <2>13. TypeInv'
    <3>1. TypeOK'
      <4>1. size \in 1..MaxSize
        BY <1>5
      <4> QED
        BY <1>1, <1>3, <2>12, <4>1 DEF TypeInv, TypeOK, Writes, dirVars
    <3>2. data' \in Seq(Data)
      BY <2>2, <2>12
    <3> QED
      BY <2>2, <2>6, <2>12, <3>1, <3>2 DEF TypeInv
  <2>14. LayoutInv'
    BY <1>1, <1>2, <2>1, <2>9, <2>10, <2>12 DEF LayoutInv, Over, dirVars
  <2>15. FilesInv'
    <3>1. \A x : Kept(x)' <=> Kept(x)
      BY <2>12 DEF Kept
    <3>2. Redirected(r)'
      BY <2>4, <2>12 DEF Redirected
    <3>3. ASSUME NEW i \in DOMAIN records
          PROVE  (Kept(records[i])' /\ records[i].name # name) \/ Redirected(records[i])'
      <4>1. i \in 1..Len(dir)
        BY <2>6
      <4>2. CASE i = k
        BY <2>7, <3>2, <4>1, <4>2
      <4>3. CASE i # k
        <5>1. records[i] = dir[i]
          BY <2>7, <4>1, <4>3
        <5> QED
          BY <2>1, <2>2, <2>11, <3>1, <4>1, <4>3, <5>1
      <4> QED
        BY <4>2, <4>3
    <3>4. NamesIn(records) = NamesIn(dir)
      BY <2>2, <2>6, <2>8 DEF NamesIn
    <3>5. name \in NamesIn(dir)
      BY <2>2, <2>3 DEF NamesIn
    <3>6. dir' = dir /\ promised' = promised /\ call'.name = name /\ call'.records = records
      BY <2>12 DEF dirVars
    <3>7. NamesIn(dir)' = NamesIn(dir) /\ NamesIn(call.records)' = NamesIn(records)
      BY <3>6 DEF NamesIn
    <3>8. DOMAIN promised \cup {name} \subseteq NamesIn(records)
      BY <2>1, <3>4, <3>5
    <3>9. DOMAIN records = DOMAIN dir
          /\ \A i \in DOMAIN dir : /\ records[i].name = dir[i].name
                                   /\ dir[i].name = name \/ records[i] = dir[i]
      BY <2>2, <2>3, <2>6, <2>7, <2>8
    <3> QED
      BY <2>1, <2>12, <3>1, <3>3, <3>6, <3>7, <3>8, <3>9 DEF FilesInv
  <2> QED
    BY <2>13, <2>14, <2>15 DEF IInv
<1> QED
  BY <1>4, <1>5 DEF ReplaceFile

\* Writing the directory, its lengths and the record.
LEMMA DirectoryStep ==
  ASSUME IInv, WriteDirectory \/ WriteRootLength \/ WriteSelfLength \/ WriteRecord
  PROVE  IInv'
<1>1. TypeInv /\ LayoutInv /\ FilesInv
  BY DEF IInv
<1>2. /\ dir \in Seq(Records) /\ Len(dir) \in Nat /\ DOMAIN dir = 1..Len(dir)
      /\ data \in Seq(Data) /\ Len(data) \in Nat /\ rootLen \in Nat
  BY <1>1, Types
<1>3. pc \in Writes /\ pc # "volume" /\ UNCHANGED <<data, promised, call, calls, extent, volume>>
  BY DEF WriteDirectory, WriteRootLength, WriteSelfLength, WriteRecord, Writes
<1>4. call.records \in Seq(Records) /\ call.len = LayoutEnd(call.records)
      /\ call.at \in Nat /\ call.at = Len(data)
  BY <1>1, <1>3 DEF TypeInv
<1>5. call.len \in Nat
  BY <1>4, EndsAscend
<1>6. \A x : (Kept(x)' <=> Kept(x)) /\ (Redirected(x)' <=> Redirected(x))
  BY <1>3 DEF Kept, Redirected
<1>7. dir' \in {dir, call.records} /\ rootLen' \in {rootLen, call.len}
      /\ selfLen' \in {selfLen, call.len} /\ pc' \in {"root-length", "self-length", "data"}
  BY DEF WriteDirectory, WriteRootLength, WriteSelfLength, WriteRecord
<1>8. TypeInv'
  <2>1. TypeOK'
    BY <1>1, <1>3, <1>4, <1>5, <1>7 DEF TypeInv, TypeOK, Writes, Records
  <2> QED
    BY <1>2, <1>3, <1>4, <1>7, <2>1 DEF TypeInv, Writes
<1>9. LayoutInv'
  <2>1. CASE WriteDirectory
    BY <1>1, <1>3, <1>4, <2>1 DEF LayoutInv, Over, WriteDirectory
  <2>2. CASE WriteRootLength
    BY <1>1, <1>3, <1>4, <1>5, <2>2 DEF LayoutInv, Over, WriteRootLength
  <2>3. CASE WriteSelfLength
    BY <1>1, <1>3, <1>4, <2>3 DEF LayoutInv, Over, WriteSelfLength
  <2>4. CASE WriteRecord
    BY <1>1, <1>3, <1>4, <2>4 DEF LayoutInv, Over, WriteRecord
  <2> QED
    BY <2>1, <2>2, <2>3, <2>4
<1>10. FilesInv'
  <2>1. CASE WriteDirectory \/ WriteRecord
    <3>0. PICK recs, name : recs = call.records /\ name = call.name
      OBVIOUS
    <3>1. /\ dir' = recs /\ call'.name = name /\ promised' = promised
          /\ pc \in {"directory", "record"} /\ pc' \in {"root-length", "data"}
      BY <1>3, <2>1, <3>0 DEF WriteDirectory, WriteRecord
    <3>2. \A i \in DOMAIN recs : \/ Kept(recs[i]) /\ recs[i].name # name
                                 \/ Redirected(recs[i])
      BY <1>1, <3>0, <3>1 DEF FilesInv
    <3>3. DOMAIN promised \cup {name} \subseteq NamesIn(recs)
      BY <1>1, <3>0, <3>1 DEF FilesInv
    <3>4. NamesIn(dir)' = NamesIn(recs)
      BY <3>1 DEF NamesIn
    <3>5. ASSUME NEW i \in DOMAIN recs
          PROVE  /\ Kept(recs[i])' \/ recs[i].name = name
                 /\ recs[i].name = name => Redirected(recs[i])'
      <4>1. (Kept(recs[i]) /\ recs[i].name # name) \/ Redirected(recs[i])
        BY <3>2
      <4>2. Redirected(recs[i]) => recs[i].name = name
        BY <3>0 DEF Redirected
      <4> QED
        BY <1>6, <4>1, <4>2
    <3>6. \A i \in DOMAIN dir' : Kept(dir[i])' \/ dir'[i].name = call'.name
      <4> SUFFICES ASSUME NEW i \in DOMAIN recs
                   PROVE  Kept(dir[i])' \/ dir'[i].name = call'.name
        BY <3>1
      <4>1. Kept(recs[i])' <=> Kept(dir[i])'
        BY <3>1 DEF Kept
      <4> QED
        BY <3>1, <3>5, <4>1
    <3>7. \A i \in DOMAIN dir' : dir'[i].name = call'.name => Redirected(dir[i])'
      <4> SUFFICES ASSUME NEW i \in DOMAIN recs, dir'[i].name = call'.name
                   PROVE  Redirected(dir[i])'
        BY <3>1
      <4>1. Redirected(recs[i])' <=> Redirected(dir[i])'
        BY <3>1 DEF Redirected
      <4> QED
        BY <3>1, <3>5, <4>1
    <3> QED
      BY <3>1, <3>3, <3>4, <3>6, <3>7 DEF FilesInv
  <2>2. CASE WriteRootLength \/ WriteSelfLength
    <3>1. dir' = dir /\ pc \in {"root-length", "self-length"}
          /\ pc' \in {"self-length", "data"}
      BY <2>2 DEF WriteRootLength, WriteSelfLength
    <3>2. /\ DOMAIN promised \subseteq NamesIn(dir) /\ call.name \in NamesIn(dir)
          /\ \A i \in DOMAIN dir : Kept(dir[i]) \/ dir[i].name = call.name
          /\ \A i \in DOMAIN dir : dir[i].name = call.name => Redirected(dir[i])
      BY <1>1, <3>1 DEF FilesInv
    <3>3. NamesIn(dir)' = NamesIn(dir)
      BY <3>1 DEF NamesIn
    <3> QED
      BY <1>3, <1>6, <3>1, <3>2, <3>3 DEF FilesInv
  <2> QED
    BY <2>1, <2>2
<1> QED
  BY <1>8, <1>9, <1>10 DEF IInv

\* The data goes behind everything else: it changes no other file, and it is
\* what the record of its own file points to.
LEMMA DataStep ==
  ASSUME IInv, WriteData
  PROVE  IInv'
<1>0. PICK more, at, size, name : /\ more = Fresh(calls, call.size)
                                  /\ at = call.at /\ size = call.size /\ name = call.name
  OBVIOUS
<1>1. TypeInv /\ LayoutInv /\ FilesInv
  BY DEF IInv
<1>2. /\ dir \in Seq(Records) /\ Len(dir) \in Nat /\ DOMAIN dir = 1..Len(dir)
      /\ data \in Seq(Data) /\ Len(data) \in Nat /\ calls \in Nat
  BY <1>1, Types
<1>3. /\ pc = "data" /\ pc' = "volume" /\ data' = data \o more
      /\ UNCHANGED <<dir, rootLen, selfLen, extent, volume, call, calls, promised>>
  BY <1>0 DEF WriteData, dirVars
<1>4. /\ call.records \in Seq(Records) /\ call.len = LayoutEnd(call.records)
      /\ call.at \in Nat /\ at = Len(data) /\ size \in 1..MaxSize
  BY <1>0, <1>1, <1>3 DEF TypeInv, TypeOK, Writes
<1>5. more \in Seq(Data) /\ Len(more) = size
  BY <1>0, <1>2, <1>4, FreshType, SMTT(30)
<1>6. data' \in Seq(Data) /\ Len(data') = Len(data) + size
  BY <1>2, <1>3, <1>5, ConcatProperties
<1>7. TypeInv'
  <2>1. TypeOK'
    BY <1>1, <1>3 DEF TypeInv, TypeOK, Writes
  <2> QED
    BY <1>3, <1>4, <1>6, <2>1 DEF TypeInv
<1>8. LayoutInv'
  BY <1>1, <1>3 DEF LayoutInv, Over
<1>9. SubSeq(data', at + 1, at + size) = more
  <2>1. at + 1 \in Len(data)+1 .. Len(data)+Len(more)
        /\ at + size \in Len(data)+1 .. Len(data)+Len(more)
    BY <1>2, <1>4, <1>5
  <2>2. PICK m \in Len(data)+1 .. Len(data)+Len(more),
             n \in Len(data)+1 .. Len(data)+Len(more) : m = at + 1 /\ n = at + size
    BY <2>1
  <2>3. SubSeq(data \o more, m, n) = SubSeq(more, m - Len(data), n - Len(data))
    <3>1. data \in Seq(Data) /\ more \in Seq(Data)
      BY <1>2, <1>5
    <3> QED
      BY <3>1, SubSeqOfConcat2, Zenon
  <2>4. m - Len(data) = 1 /\ n - Len(data) = Len(more)
    BY <1>2, <1>4, <1>5, <2>2
  <2> QED
    BY <1>3, <1>5, <2>2, <2>3, <2>4, SubSeqFull
<1>10. FilesInv'
  <2>1. /\ DOMAIN promised \subseteq NamesIn(dir) /\ name \in NamesIn(dir)
        /\ \A i \in DOMAIN dir : Kept(dir[i]) \/ dir[i].name = name
        /\ \A i \in DOMAIN dir : dir[i].name = name => Redirected(dir[i])
    BY <1>0, <1>1, <1>3 DEF FilesInv
  <2>2. \A x \in Records : Kept(x) => Kept(x)'
    BY <1>1, <1>3, <1>5, KeptWhenAdding
  <2>3. \A x : Redirected(x)' <=> Redirected(x)
    BY <1>3 DEF Redirected
  <2>4. dir' = dir /\ promised' = promised /\ call'.name = name
        /\ call'.at = at /\ call'.size = size
    BY <1>0, <1>3
  <2>5. NamesIn(dir)' = NamesIn(dir) /\ (DOMAIN promised)' = DOMAIN promised
    BY <2>4 DEF NamesIn
  <2>6. ASSUME NEW i \in DOMAIN dir PROVE Kept(dir[i])' \/ dir[i].name = name
    <3>1. PICK x \in Records : x = dir[i]
      BY <1>2
    <3>2. Kept(x)' \/ x.name = name
      BY <2>1, <2>2, <3>1
    <3>3. Kept(x)' <=> Kept(dir[i])'
      BY <1>3, <3>1 DEF Kept
    <3> QED
      BY <3>1, <3>2, <3>3
  <2>7. at + size <= Len(data') /\ Fresh(calls, call.size)' = more
    BY <1>0, <1>2, <1>3, <1>4, <1>6 DEF Fresh
  <2> QED
    BY <1>3, <1>9, <2>1, <2>3, <2>4, <2>5, <2>6, <2>7 DEF FilesInv
<1> QED
  BY <1>7, <1>8, <1>10 DEF IInv

\* With the volume size the call is complete: what it brought is promised, and
\* its record keeps the promise.
LEMMA VolumeStep ==
  ASSUME IInv, WriteVolumeSize
  PROVE  IInv'
<1>0. PICK at, size, name, new : /\ at = call.at /\ size = call.size /\ name = call.name
                                 /\ new = Fresh(calls, call.size)
  OBVIOUS
<1>1. TypeInv /\ LayoutInv /\ FilesInv
  BY DEF IInv
<1>2. /\ dir \in Seq(Records) /\ Len(dir) \in Nat /\ DOMAIN dir = 1..Len(dir)
      /\ data \in Seq(Data) /\ Len(data) \in Nat /\ DOMAIN promised \subseteq Names
  BY <1>1, Types
<1>3. /\ pc = "volume" /\ pc' = "idle" /\ volume' = Len(data)
      /\ promised' = [n \in DOMAIN promised \cup {name} |->
                        IF n = name THEN new ELSE promised[n]]
      /\ UNCHANGED <<dir, rootLen, selfLen, extent, data, calls>>
  BY <1>0 DEF WriteVolumeSize, dirVars
<1>4. name \in Names
  BY <1>0, <1>1, <1>3 DEF TypeInv, TypeOK, Writes
<1>5. TypeInv'
  <2>1. TypeOK'
    BY <1>1, <1>2, <1>3, <1>4 DEF TypeInv, TypeOK, Writes
  <2> QED
    BY <1>2, <1>3, <2>1 DEF TypeInv, Writes
<1>6. LayoutInv'
  BY <1>1, <1>3 DEF LayoutInv, Over
<1>7. FilesInv'
  <2>1. /\ DOMAIN promised \subseteq NamesIn(dir) /\ name \in NamesIn(dir)
        /\ \A i \in DOMAIN dir : Kept(dir[i]) \/ dir[i].name = name
        /\ \A i \in DOMAIN dir : dir[i].name = name => Redirected(dir[i])
        /\ at + size <= Len(data) /\ SubSeq(data, at + 1, at + size) = new
    BY <1>0, <1>1, <1>3 DEF FilesInv
  <2>2. ASSUME NEW i \in DOMAIN dir PROVE Kept(dir[i])'
    <3>1. CASE dir[i].name = name
      <4>1. dir[i].at = at /\ dir[i].size = size
        BY <1>0, <2>1, <3>1 DEF Redirected
      <4> QED
        BY <1>3, <2>1, <3>1, <4>1 DEF Kept
    <3>2. CASE dir[i].name # name
      <4>1. Kept(dir[i])
        BY <2>1, <3>2
      <4> QED
        BY <1>3, <3>2, <4>1 DEF Kept
    <3> QED
      BY <3>1, <3>2
  <2>3. NamesIn(dir)' = NamesIn(dir) /\ DOMAIN promised' = DOMAIN promised \cup {name}
    BY <1>3 DEF NamesIn
  <2> QED
    BY <1>3, <2>1, <2>2, <2>3 DEF FilesInv
<1> QED
  BY <1>5, <1>6, <1>7 DEF IInv

\* Where a call dies the records but its own are still good, unless it was
\* rewriting the directory.
LEMMA DiesStep ==
  ASSUME IInv, Dies
  PROVE  IInv'
<1>1. TypeInv /\ LayoutInv /\ FilesInv
  BY DEF IInv
<1>2. /\ dir \in Seq(Records) /\ Len(dir) \in Nat /\ DOMAIN dir = 1..Len(dir)
      /\ data \in Seq(Data) /\ Len(data) \in Nat /\ rootLen \in Nat /\ calls \in Nat
  BY <1>1, Types
<1>3. /\ pc \in Writes /\ pc' \in Over
      /\ pc = "root-length" => pc' = "torn"
      /\ UNCHANGED <<rootLen, selfLen, extent, volume, call, calls, promised>>
  BY <1>1, Types DEF Dies, Over, Writes, dirVars
<1>4. /\ call.size \in 1..MaxSize /\ call.records \in Seq(Records)
      /\ call.len = LayoutEnd(call.records) /\ call.at \in Nat
  BY <1>1, <1>3 DEF TypeInv, TypeOK, Writes
<1>5. SUFFICES ASSUME NEW recs \in Seq(Records), dir' = recs,
                      Len(recs) = Len(dir),
                      \A i \in 1..Len(dir) :
                        /\ recs[i].name = dir[i].name
                        /\ recs[i] = dir[i] \/ dir[i].name = call.name,
                      NEW more \in Seq(Data), data' = data \o more
               PROVE  IInv'
  <2>1. data = data \o <<>> /\ <<>> \in Seq(Data)
    BY <1>2, ConcatEmptySeq
  <2>2. CASE UNCHANGED <<dirVars, data>>
    <3>1. dir' = dir /\ data' = data
      BY <2>2 DEF dirVars
    <3> QED
      BY <1>2, <1>5, <2>1, <3>1
  <2>3. CASE /\ pc = "record" /\ data' = data
             /\ dir' = [i \in 1..Len(dir) |-> [dir[i] EXCEPT !.at = call.records[i].at]]
    <3> DEFINE r(i) == [dir[i] EXCEPT !.at = call.records[i].at]
    <3>1. PICK recs : recs = [i \in 1..Len(dir) |-> r(i)]
      OBVIOUS
    <3>2. DOMAIN call.records = 1..Len(dir)
          /\ \A i \in 1..Len(dir) : dir[i].name = call.name \/ call.records[i] = dir[i]
      BY <1>1, <1>2, <2>3 DEF FilesInv
    <3>3. ASSUME NEW i \in 1..Len(dir)
          PROVE  /\ recs[i] \in Records /\ recs[i].name = dir[i].name
                 /\ recs[i] = dir[i] \/ dir[i].name = call.name
      <4>1. dir[i] \in Records /\ call.records[i] \in Records
        BY <1>2, <1>4, <3>2
      <4>2. recs[i] = [dir[i] EXCEPT !.at = call.records[i].at]
        BY <3>1
      <4>3. recs[i] \in Records /\ recs[i].name = dir[i].name
        BY <4>1, <4>2 DEF Records
      <4>4. call.records[i] = dir[i] => recs[i] = dir[i]
        BY <4>1, <4>2 DEF Records
      <4> QED
        BY <3>2, <4>3, <4>4
    <3>4. recs \in Seq(Records) /\ Len(recs) = Len(dir)
      <4>1. recs \in [1..Len(dir) -> Records]
        BY <3>1, <3>3
      <4> QED
        BY <1>2, <4>1
    <3>5. dir' = recs
      BY <2>3, <3>1
    <3> QED
      BY <1>5, <2>1, <2>3, <3>3, <3>4, <3>5
  <2>4. CASE dir' = dir /\ \E n \in 1..call.size : data' = data \o Fresh(calls, n)
    <3>1. PICK n \in 1..call.size : data' = data \o Fresh(calls, n)
      BY <2>4
    <3>2. Fresh(calls, n) \in Seq(Data)
      BY <1>2, <1>4, FreshType
    <3> QED
      BY <1>2, <1>5, <2>4, <3>1, <3>2
  <2> QED
    BY <2>2, <2>3, <2>4 DEF Dies, dirVars
<1>6. data' \in Seq(Data) /\ LayoutEnd(recs) = LayoutEnd(dir)
      /\ (Ascending(dir) => Ascending(recs)) /\ NamesIn(recs) = NamesIn(dir)
  <2>1. data' \in Seq(Data)
    BY <1>2, <1>5, ConcatProperties
  <2>2. LayoutEnd(recs) = LayoutEnd(dir)
    BY <1>2, <1>5, EndsOfNames
  <2>3. \A i \in 1..Len(dir) : recs[i].name = dir[i].name
    BY <1>5
  <2>4. DOMAIN recs = 1..Len(dir) /\ Len(recs) = Len(dir)
    BY <1>5
  <2>5. Ascending(dir) => Ascending(recs)
    BY <2>3, <2>4 DEF Ascending
  <2>6. NamesIn(recs) = NamesIn(dir)
    BY <1>2, <2>3, <2>4 DEF NamesIn
  <2> QED
    BY <2>1, <2>2, <2>5, <2>6
<1>7. TypeInv'
  <2>1. TypeOK'
    <3>1. dir' \in Seq([name : Names, at : Nat, size : 1..MaxSize])
      BY <1>5 DEF Records
    <3> QED
      BY <1>1, <1>3, <3>1 DEF TypeInv, TypeOK, Over, Writes
  <2> QED
    BY <1>3, <1>6, <2>1 DEF TypeInv, Over, Writes
<1>8. LayoutInv'
  <2>1. pc' # "torn" => Ascending(dir')
    BY <1>1, <1>3, <1>5, <1>6 DEF LayoutInv, Over, Writes
  <2>2. pc' # "torn" => LayoutEnd(dir') <= rootLen'
    BY <1>1, <1>3, <1>5, <1>6 DEF LayoutInv, Over, Writes
  <2>3. Ascending(dir)' <=> Ascending(dir')
    BY DEF Ascending
  <2>4. LayoutEnd(dir)' = LayoutEnd(dir')
    BY DEF LayoutEnd, Ends, EndOf, StartOf, RoundUp
  <2> QED
    BY <1>3, <2>1, <2>2, <2>3, <2>4 DEF LayoutInv, Over
<1>9. FilesInv'
  <2>1. PICK name : name = call.name /\ name = call'.name
    BY <1>3
  <2>2. /\ DOMAIN promised \subseteq NamesIn(dir)
        /\ \A i \in DOMAIN dir : Kept(dir[i]) \/ dir[i].name = name
    BY <1>1, <2>1 DEF FilesInv
  <2>3. \A x \in Records : Kept(x) => Kept(x)'
    BY <1>1, <1>3, <1>5, KeptWhenAdding
  <2>4. ASSUME NEW i \in 1..Len(dir) PROVE Kept(recs[i])' \/ recs[i].name = name
    BY <1>2, <1>5, <2>1, <2>2, <2>3, SMTT(30)
  <2>5. DOMAIN recs = 1..Len(dir)
    BY <1>5
  <2>6. \A i \in DOMAIN dir' : Kept(dir[i])' \/ dir'[i].name = call'.name
    <3> SUFFICES ASSUME NEW i \in DOMAIN recs
                 PROVE  Kept(dir[i])' \/ dir'[i].name = call'.name
      BY <1>5
    <3>1. Kept(recs[i])' <=> Kept(dir[i])'
      BY <1>5 DEF Kept
    <3> QED
      BY <1>5, <2>1, <2>4, <2>5, <3>1
  <2>7. DOMAIN promised' \subseteq NamesIn(dir)'
    BY <1>3, <1>5, <1>6, <2>2 DEF NamesIn
  <2> QED
    BY <1>3, <2>6, <2>7 DEF FilesInv, Over, Writes
<1> QED
  BY <1>7, <1>8, <1>9 DEF IInv

\* Every step preserves the invariant.
LEMMA StepSound == IInv /\ [Next]_vars => IInv'
<1> SUFFICES ASSUME IInv, [Next]_vars PROVE IInv'
  OBVIOUS
<1>1. CASE \E name \in Names, size \in 0..MaxSize : AppendFile(name, size)
  BY <1>1, AppendStep
<1>2. CASE \E name \in Names, size \in 0..MaxSize : ReplaceFile(name, size)
  BY <1>2, ReplaceStep
<1>3. CASE WriteDirectory \/ WriteRootLength \/ WriteSelfLength \/ WriteRecord
  BY <1>3, DirectoryStep
<1>4. CASE WriteData
  BY <1>4, DataStep
<1>5. CASE WriteVolumeSize
  BY <1>5, VolumeStep
<1>6. CASE Dies
  BY <1>6, DiesStep
<1>7. CASE UNCHANGED vars
  <2> USE <1>7 DEF vars, dirVars
  <2>1. TypeInv'
    BY DEF IInv, TypeInv, TypeOK, Writes
  <2>2. LayoutInv'
    BY DEF IInv, LayoutInv, Over
  <2>3. FilesInv'
    <3>1. \A x : (Kept(x)' <=> Kept(x)) /\ (Redirected(x)' <=> Redirected(x))
      BY DEF Kept, Redirected
    <3> QED
      BY <3>1 DEF IInv, FilesInv, NamesIn, Fresh
  <2> QED
    BY <2>1, <2>2, <2>3 DEF IInv
<1> QED
  BY <1>1, <1>2, <1>3, <1>4, <1>5, <1>6, <1>7 DEF Next, Done

LEMMA Invariance == Spec => []IInv
BY InitSound, StepSound, PTL DEF Spec

-----------------------------------------------------------------------------
(***************************************************************************)
(* The theorems.                                                           *)
(***************************************************************************)

\* No call gets to a write without contents to write, whatever was added and
\* replaced before.
THEOREM TypeCorrect == Spec => []TypeOK
<1>1. IInv => TypeOK
  BY DEF IInv, TypeInv
<1> QED
  BY <1>1, Invariance, PTL

\* After any number of calls the directory is strictly sorted, inside the
\* sectors it was mastered with, under the same length in both records, and the
\* volume covers the image: the writes of the record, of the two lengths and of
\* the volume size leave nothing behind that disagrees.
THEOREM DirectoryAlwaysSound == Spec => []DirectorySound
<1>1. ASSUME IInv, pc = "idle"
      PROVE  /\ \A i, j \in 1..Len(dir) : i < j => dir[i].name < dir[j].name
             /\ Visible = dir /\ ~Cut
             /\ LayoutEnd(dir) <= rootLen /\ RoundUp(rootLen) = extent
             /\ selfLen = rootLen
             /\ volume = Len(data)
  <2>1. TypeInv /\ LayoutInv
    BY <1>1 DEF IInv
  <2>2. /\ Ascending(dir) /\ LayoutEnd(dir) <= rootLen /\ RoundUp(rootLen) = extent
        /\ selfLen = rootLen /\ volume = Len(data)
    BY <1>1, <2>1 DEF LayoutInv, Over
  <2>3. Visible = dir /\ ~Cut
    BY <2>1, <2>2, AllVisible
  <2>4. DOMAIN dir = 1..Len(dir)
    BY <2>1, Types
  <2>5. \A i, j \in 1..Len(dir) : i < j => dir[i].name < dir[j].name
    BY <2>2, <2>4 DEF Ascending
  <2> QED
    BY <2>2, <2>3, <2>5
<1>2. IInv => DirectorySound
  BY <1>1 DEF DirectorySound
<1> QED
  BY <1>2, Invariance, PTL

\* After any number of calls the directory names the promised files, and each
\* of them reads back as it was last written: no call writes over the data of
\* another.
THEOREM FilesAlwaysReadBack == Spec => []FilesReadBack
<1>1. ASSUME IInv, pc = "idle"
      PROVE  /\ {dir[i].name : i \in 1..Len(dir)} = DOMAIN promised
             /\ \A i \in 1..Len(dir) : Contents(dir[i]) = promised[dir[i].name]
  <2>1. DOMAIN dir = 1..Len(dir)
    BY <1>1, Types DEF IInv
  <2>2. (\A i \in DOMAIN dir : Kept(dir[i])) /\ NamesIn(dir) = DOMAIN promised
    BY <1>1, AtRest
  <2> QED
    BY <2>1, <2>2 DEF NamesIn, Kept, Contents
<1>2. IInv => FilesReadBack
  BY <1>1 DEF FilesReadBack
<1> QED
  BY <1>2, Invariance, PTL

\* Wherever a call is, or has died, except between the rewrite of the directory
\* and that of its length, every file it was not about is found in the directory
\* and reads back as promised.
THEOREM OthersAlwaysSurvive == Spec => []OthersSurvive
<1>1. ASSUME IInv, pc \notin {"root-length", "torn"},
             NEW n \in DOMAIN promised \ {call.name}
      PROVE  \E i \in 1..Len(Visible) :
               Visible[i].name = n /\ Contents(Visible[i]) = promised[n]
  <2>1. TypeInv /\ LayoutInv /\ FilesInv
    BY <1>1 DEF IInv
  <2>2. Visible = dir
    BY <1>1, <2>1, AllVisible DEF LayoutInv
  <2>3. DOMAIN dir = 1..Len(dir)
    BY <2>1, Types
  <2>4. PICK i \in 1..Len(dir) : dir[i].name = n
    BY <1>1, <2>1, <2>3 DEF FilesInv, NamesIn
  <2>5. Kept(dir[i])
    BY <1>1, <2>1, <2>3, <2>4 DEF FilesInv
  <2> QED
    BY <2>2, <2>4, <2>5 DEF Kept, Contents
<1>2. IInv => OthersSurvive
  BY <1>1 DEF OthersSurvive
<1> QED
  BY <1>2, Invariance, PTL
=============================================================================
