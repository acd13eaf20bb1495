-------------------------- MODULE FatFloppy_proofs --------------------------
(***************************************************************************)
(* Theorems about FatFloppy, for every number of clusters the code admits,  *)
(* every cluster size, any number of slots, copies and calls.              *)
(***************************************************************************)
EXTENDS FatFloppy, FiniteSetTheorems, SequenceTheorems, WellFoundedInduction, TLAPS

-----------------------------------------------------------------------------
(***************************************************************************)
(* Induction, with a set for the predicate, and definition by recursion,   *)
(* with a function for the step.                                           *)
(***************************************************************************)

\* A set of numbers has a least element.
LEMMA LeastElement ==
  ASSUME NEW S \in SUBSET Nat, S # {}
  PROVE  \E m \in S : \A k \in S : m <= k
<1>1. PICK m \in S : \A k \in S : ~(<<k, m>> \in OpToRel(<, Nat))
  BY NatLessThanWellFounded, WFMin
<1>2. ASSUME NEW k \in S PROVE m <= k
  <2>1. ~(<<k, m>> \in OpToRel(<, Nat))
    BY <1>1
  <2> QED
    BY <2>1 DEF OpToRel
<1> QED
  BY <1>2

\* What holds of 0, and of every number with its predecessor, holds up to n.
LEMMA IntervalInduction ==
  ASSUME NEW n \in Nat, NEW T, 0 \in T, \A i \in 1..n : i - 1 \in T => i \in T
  PROVE  \A i \in 0..n : i \in T
<1> DEFINE Bad == {i \in 0..n : i \notin T}
<1>1. SUFFICES ASSUME Bad # {} PROVE FALSE
  OBVIOUS
<1>2. Bad \in SUBSET Nat
  OBVIOUS
<1>3. PICK m \in Bad : \A k \in Bad : m <= k
  BY <1>1, <1>2, LeastElement
<1>4. m \in 1..n /\ m - 1 \in 0..n /\ m - 1 \notin Bad
  BY <1>3
<1> QED
  BY <1>3, <1>4

\* A function that starts with a value and goes on by steps exists.
StepsOn(V, n) == [1..n -> [V -> V]]

Follows(f, V, n, start, step) ==
  /\ f \in [0..n -> V]
  /\ f[0] = start
  /\ \A i \in 1..n : f[i] = step[i][f[i - 1]]

LEMMA Recursion ==
  ASSUME NEW V, NEW n \in Nat, NEW start \in V, NEW step \in StepsOn(V, n)
  PROVE  \E f : Follows(f, V, n, start, step)
<1> USE DEF StepsOn
<1> DEFINE Upto(f, k) == f[0] = start /\ \A i \in 1..k : f[i] = step[i][f[i - 1]]
           T == {k \in 0..n : \E f \in [0..k -> V] : Upto(f, k)}
<1>1. 0 \in T
  <2> DEFINE f == [i \in 0..0 |-> start]
  <2>1. f \in [0..0 -> V] /\ f[0] = start
    OBVIOUS
  <2>2. Upto(f, 0)
    BY <2>1
  <2> HIDE DEF f, Upto
  <2>3. \E h \in [0..0 -> V] : Upto(h, 0)
    BY <2>1, <2>2
  <2> QED
    BY <2>3
<1>2. ASSUME NEW k \in 1..n, k - 1 \in T PROVE k \in T
  <2>1. PICK f \in [0..(k - 1) -> V] : Upto(f, k - 1)
    BY <1>2
  <2> DEFINE g == [i \in 0..k |-> IF i = k THEN step[k][f[k - 1]] ELSE f[i]]
  <2>2. g \in [0..k -> V]
    BY <2>1
  <2>3. ASSUME NEW i \in 1..k PROVE g[i] = step[i][g[i - 1]]
    <3>1. CASE i = k
      BY <3>1
    <3>2. CASE i # k
      BY <2>1, <3>2
    <3> QED
      BY <3>1, <3>2
  <2>4. Upto(g, k)
    BY <2>1, <2>3
  <2> HIDE DEF g, Upto
  <2>5. \E h \in [0..k -> V] : Upto(h, k)
    BY <2>2, <2>4
  <2> QED
    BY <2>5
<1> HIDE DEF T
<1>3. \A k \in 0..n : k \in T
  BY <1>1, <1>2, IntervalInduction
<1> QED
  BY <1>3 DEF T, Upto, Follows

-----------------------------------------------------------------------------
(***************************************************************************)
(* What the table, the directory and the data of an image are, and when    *)
(* they are sound together.  The chain of every slot is given beside them.  *)
(***************************************************************************)

Byte     == 0..255
Nibble   == 0..15
Value    == 0..4095
Copies   == [FatBytes -> Byte]
Fats     == {f \in [1..FatCopies -> Copies] : \A k \in 1..FatCopies : f[k] = f[1]}
Cell     == Nat \X Nat
Entries  == [kind : {"used"}, name : Names, first : ClusterNumbers, size : 1..MaxSize]
Roots    == [Slots -> {Never, Deleted} \cup Entries]
Datas    == [ClusterNumbers -> [1..ClusterSize -> Cell]]
Chains   == Seq(ClusterNumbers)

UsedIn(r) == {s \in Slots : r[s].kind = "used"}

Elements(chain) == {chain[i] : i \in DOMAIN chain}

Injected(chain) == \A i, j \in DOMAIN chain : chain[i] = chain[j] => i = j

\* The table leads from `first' along the chain to an end mark.
Linked(f, first, chain) ==
  /\ chain # <<>> /\ chain[1] = first
  /\ \A i \in 1..(Len(chain) - 1) : ReadFat(f, chain[i]) = chain[i + 1]
  /\ ReadFat(f, chain[Len(chain)]) = EOC

\* Every entry in use has a chain of the length of its file, the chains are
\* disjoint, and what is not free belongs to one.
ChainsSound(f, r, ch) ==
  /\ \A s \in UsedIn(r) : /\ Linked(f, r[s].first, ch[s]) /\ Injected(ch[s])
                          /\ Len(ch[s]) = NeededClusters(r[s].size)
  /\ \A s, t \in UsedIn(r) : s # t => Elements(ch[s]) \cap Elements(ch[t]) = {}
  /\ \A c \in ClusterNumbers :
       ReadFat(f, c) # 0 => \E s \in UsedIn(r) : c \in Elements(ch[s])

\* No name is in use twice, and every entry in use is before the end mark.
NamesSound(r) ==
  /\ \A s, t \in UsedIn(r) : r[s].name = r[t].name => s = t
  /\ \A s \in UsedIn(r) : \A t \in 0..s : r[t].kind # "never"

\* Byte k of the file in a chain.
At(d, chain, k) ==
  d[chain[((k - 1) \div ClusterSize) + 1]][((k - 1) % ClusterSize) + 1]

\* Exactly the promised files are there, with the promised bytes.
FilesSound(r, d, p, ch) ==
  /\ DOMAIN p = {r[s].name : s \in UsedIn(r)}
  /\ \A s \in UsedIn(r) : p[r[s].name] = [k \in 1..r[s].size |-> At(d, ch[s], k)]

Sound(f, r, d, p, ch) ==
  /\ f \in Fats /\ r \in Roots /\ d \in Datas
  /\ ch \in [Slots -> Chains]
  /\ ChainsSound(f, r, ch) /\ NamesSound(r) /\ FilesSound(r, d, p, ch)

CallInv == calls \in 0..MaxCalls /\ result \in {"ok", "absent", "error"}

\* The inductive invariant.
IInv == CallInv /\ \E ch \in [Slots -> Chains] : Sound(fat, root, data, promised, ch)

-----------------------------------------------------------------------------
(***************************************************************************)
(* The allocation table, byte by byte.                                     *)
(***************************************************************************)

\* The first byte of an entry: even entries share their second byte, odd ones
\* their first.
Pos(c) == (c * 3) \div 2

LEMMA Place ==
  ASSUME NEW c \in ClusterNumbers
  PROVE  /\ \E k \in Nat : \/ c = 2 * k /\ c % 2 = 0 /\ Pos(c) = 3 * k
                           \/ c = 2 * k + 1 /\ c % 2 = 1 /\ Pos(c) = 3 * k + 1
         /\ Pos(c) \in FatBytes /\ Pos(c) + 1 \in FatBytes
<1> USE DEF Pos
<1> DEFINE k == c \div 2
<1>1. c \in Nat /\ k \in Nat /\ (c = 2 * k \/ c = 2 * k + 1)
  BY LayoutAssumption DEF ClusterNumbers
<1>2. CASE c = 2 * k
  <2>1. c % 2 = 0 /\ (c * 3) \div 2 = 3 * k
    BY <1>1, <1>2
  <2> QED
    BY <1>1, <1>2, <2>1, LayoutAssumption DEF ClusterNumbers, FatBytes
<1>3. CASE c = 2 * k + 1
  <2>1. c % 2 = 1 /\ (c * 3) \div 2 = 3 * k + 1
    BY <1>1, <1>3
  <2> QED
    BY <1>1, <1>3, <2>1, LayoutAssumption DEF ClusterNumbers, FatBytes
<1> QED
  BY <1>1, <1>2, <1>3

\* A value is put together again from two bytes, and a byte from its halves.
LEMMA Split ==
  ASSUME NEW v \in Value
  PROVE  /\ v % 256 \in Byte /\ v \div 256 \in Nibble /\ v = 256 * (v \div 256) + (v % 256)
         /\ v % 16 \in Nibble /\ v \div 16 \in Byte /\ v = 16 * (v \div 16) + (v % 16)
<1>1. v % 256 \in Byte /\ v \div 256 \in Nibble /\ v = 256 * (v \div 256) + (v % 256)
  BY DEF Byte, Nibble, Value
<1>2. v % 16 \in Nibble /\ v \div 16 \in Byte /\ v = 16 * (v \div 16) + (v % 16)
  BY DEF Byte, Nibble, Value
<1> QED
  BY <1>1, <1>2

LEMMA Halves ==
  ASSUME NEW b \in Byte
  PROVE  b % 16 \in Nibble /\ b \div 16 \in Nibble /\ b = 16 * (b \div 16) + (b % 16)
BY DEF Byte, Nibble, Value

LEMMA Joint ==
  ASSUME NEW h \in Nibble, NEW l \in Nibble
  PROVE  h * 16 + l \in Byte
BY DEF Byte, Nibble, Value

LEMMA LowHalf ==
  ASSUME NEW a \in Byte, NEW h \in Nibble, NEW l \in Nibble
  PROVE  (a + 256 * (h * 16 + l)) % 4096 = a + 256 * l
BY DEF Byte, Nibble, Value

LEMMA HighHalf ==
  ASSUME NEW a \in Byte, NEW h \in Nibble, NEW l \in Nibble
  PROVE  ((h * 16 + l) + 256 * a) \div 16 = h + 16 * a
BY DEF Byte, Nibble, Value

\* Two bytes of a copy replaced.
Put(copy, at, x, y) ==
  [b \in FatBytes |-> IF b = at THEN x ELSE IF b = at + 1 THEN y ELSE copy[b]]

\* The two bytes a write leaves behind.
First(copy, c, v) ==
  IF c % 2 = 0 THEN v % 256 ELSE ((v % 16) * 16) + (copy[Pos(c)] % 16)

Second(copy, c, v) ==
  IF c % 2 = 0 THEN ((copy[Pos(c) + 1] \div 16) * 16) + (v \div 256) ELSE v \div 16

LEMMA BytesType ==
  ASSUME NEW copy \in Copies, NEW c \in ClusterNumbers, NEW v \in Value
  PROVE  First(copy, c, v) \in Byte /\ Second(copy, c, v) \in Byte
<1>1. Pos(c) \in FatBytes /\ Pos(c) + 1 \in FatBytes
  BY Place
<1>2. copy[Pos(c)] \in Byte /\ copy[Pos(c) + 1] \in Byte
  BY <1>1 DEF Copies
<1>3. First(copy, c, v) \in Byte
  <2>1. v % 256 \in Byte /\ v % 16 \in Nibble
    BY Split
  <2>2. copy[Pos(c)] % 16 \in Nibble
    BY <1>2, Halves
  <2>3. ((v % 16) * 16) + (copy[Pos(c)] % 16) \in Byte
    BY <2>1, <2>2, Joint
  <2> QED
    BY <2>1, <2>3 DEF First
<1>4. Second(copy, c, v) \in Byte
  <2>1. v \div 16 \in Byte /\ v \div 256 \in Nibble
    BY Split
  <2>2. copy[Pos(c) + 1] \div 16 \in Nibble
    BY <1>2, Halves
  <2>3. ((copy[Pos(c) + 1] \div 16) * 16) + (v \div 256) \in Byte
    BY <2>1, <2>2, Joint
  <2> QED
    BY <2>1, <2>3 DEF Second
<1> QED
  BY <1>3, <1>4

LEMMA WriteFatBytes ==
  ASSUME NEW copy \in Copies, NEW c \in ClusterNumbers, NEW v \in Value
  PROVE  /\ WriteFat(copy, c, v) = Put(copy, Pos(c), First(copy, c, v), Second(copy, c, v))
         /\ WriteFat(copy, c, v) \in Copies
<1> DEFINE new(x, y) == [copy EXCEPT ![Pos(c)] = x, ![Pos(c) + 1] = y]
<1>1. ASSUME NEW x \in Byte, NEW y \in Byte
      PROVE  new(x, y) = Put(copy, Pos(c), x, y) /\ new(x, y) \in Copies
  <2>1. PICK p, q : /\ p = Pos(c) /\ q = Pos(c) + 1
                    /\ p \in FatBytes /\ q \in FatBytes /\ p # q
    BY Place DEF FatBytes
  <2>2. copy \in [FatBytes -> Byte]
    BY DEF Copies
  <2>3. [copy EXCEPT ![p] = x, ![q] = y] =
          [i \in FatBytes |-> IF i = p THEN x ELSE IF i = q THEN y ELSE copy[i]]
    BY <2>1, <2>2
  <2>4. [copy EXCEPT ![p] = x, ![q] = y] = Put(copy, Pos(c), x, y)
    BY <2>1, <2>3 DEF Put
  <2>5. new(x, y) = [copy EXCEPT ![p] = x, ![q] = y]
    BY <2>1
  <2>6. Put(copy, Pos(c), x, y) \in Copies
    BY <2>2 DEF Put, Copies
  <2> QED
    BY <2>4, <2>5, <2>6
<1>2. c % 2 = 0 => WriteFat(copy, c, v) =
                     new(v % 256, (copy[Pos(c) + 1] \div 16) * 16 + v \div 256)
  BY DEF WriteFat, Pos
<1>3. c % 2 # 0 => WriteFat(copy, c, v) =
                     new(((v % 16) * 16) + (copy[Pos(c)] % 16), v \div 16)
  BY DEF WriteFat, Pos
<1> HIDE DEF new
<1>4. WriteFat(copy, c, v) = new(First(copy, c, v), Second(copy, c, v))
  BY <1>2, <1>3 DEF First, Second
<1> QED
  BY <1>1, <1>4, BytesType

\* read_fat12 of one copy.
ReadCopy(copy, c) ==
  LET pair == copy[Pos(c)] + 256 * copy[Pos(c) + 1]
  IN  IF c % 2 = 0 THEN pair % 4096 ELSE pair \div 16

\* An entry reads back as it was written, and the other entry with which it
\* shares a byte is not disturbed.
LEMMA ReadWritten ==
  ASSUME NEW copy \in Copies, NEW c \in ClusterNumbers, NEW v \in Value,
         NEW d \in ClusterNumbers
  PROVE  ReadCopy(WriteFat(copy, c, v), d) = IF d = c THEN v ELSE ReadCopy(copy, d)
<1> DEFINE w == WriteFat(copy, c, v)
<1>1. /\ Pos(c) \in FatBytes /\ Pos(c) + 1 \in FatBytes
      /\ Pos(d) \in FatBytes /\ Pos(d) + 1 \in FatBytes
  BY Place
<1>2. Pos(c) \in Nat /\ Pos(d) \in Nat
  BY <1>1 DEF FatBytes
<1>3. \A b \in FatBytes : w[b] = IF b = Pos(c) THEN First(copy, c, v)
                                 ELSE IF b = Pos(c) + 1 THEN Second(copy, c, v)
                                 ELSE copy[b]
  BY WriteFatBytes DEF Put
<1>4. \A b \in FatBytes : copy[b] \in Byte
  BY DEF Copies
<1> HIDE DEF w
<1>5. CASE d = c
  <2>1. w[Pos(c)] = First(copy, c, v) /\ w[Pos(c) + 1] = Second(copy, c, v)
    BY <1>1, <1>2, <1>3
  <2>2. CASE c % 2 = 0
    <3>1. v % 256 \in Byte /\ copy[Pos(c) + 1] \div 16 \in Nibble /\ v \div 256 \in Nibble
      BY <1>1, <1>4, Split, Halves
    <3>2. w[Pos(c)] = v % 256 /\ w[Pos(c) + 1] = ((copy[Pos(c) + 1] \div 16) * 16) + (v \div 256)
      BY <2>1, <2>2 DEF First, Second
    <3>3. (w[Pos(c)] + 256 * w[Pos(c) + 1]) % 4096 = (v % 256) + 256 * (v \div 256)
      BY <3>1, <3>2, LowHalf
    <3>4. v = 256 * (v \div 256) + (v % 256)
      BY Split
    <3>5. (v % 256) + 256 * (v \div 256) = v
      BY <3>1, <3>4 DEF Byte, Nibble
    <3> QED
      BY <1>5, <2>2, <3>3, <3>5 DEF ReadCopy, w
  <2>3. CASE c % 2 # 0
    <3>1. v % 16 \in Nibble /\ copy[Pos(c)] % 16 \in Nibble /\ v \div 16 \in Byte
      BY <1>1, <1>4, Split, Halves
    <3>2. w[Pos(c)] = ((v % 16) * 16) + (copy[Pos(c)] % 16) /\ w[Pos(c) + 1] = v \div 16
      BY <2>1, <2>3 DEF First, Second
    <3>3. (w[Pos(c)] + 256 * w[Pos(c) + 1]) \div 16 = (v % 16) + 16 * (v \div 16)
      BY <3>1, <3>2, HighHalf
    <3>4. v = 16 * (v \div 16) + (v % 16)
      BY Split
    <3>5. (v % 16) + 16 * (v \div 16) = v
      BY <3>1, <3>4 DEF Byte, Nibble
    <3> QED
      BY <1>5, <2>3, <3>3, <3>5 DEF ReadCopy, w
  <2> QED
    BY <2>2, <2>3
<1>6. CASE d # c
  <2>1. PICK k \in Nat : \/ c = 2 * k /\ c % 2 = 0 /\ Pos(c) = 3 * k
                         \/ c = 2 * k + 1 /\ c % 2 = 1 /\ Pos(c) = 3 * k + 1
    BY Place
  <2>2. PICK m \in Nat : \/ d = 2 * m /\ d % 2 = 0 /\ Pos(d) = 3 * m
                         \/ d = 2 * m + 1 /\ d % 2 = 1 /\ Pos(d) = 3 * m + 1
    BY Place
  <2>3. CASE c % 2 = 0 /\ d % 2 = 1 /\ k = m
    <3>1. Pos(d) = Pos(c) + 1 /\ Pos(d) + 1 # Pos(c) /\ Pos(d) + 1 # Pos(c) + 1 /\ Pos(d) # Pos(c)
      BY <2>1, <2>2, <2>3
    <3>2. /\ w[Pos(d)] = ((copy[Pos(d)] \div 16) * 16) + (v \div 256)
          /\ w[Pos(d) + 1] = copy[Pos(d) + 1]
      BY <1>1, <1>3, <2>3, <3>1 DEF Second
    <3>3. /\ copy[Pos(d)] \div 16 \in Nibble /\ copy[Pos(d)] % 16 \in Nibble
          /\ v \div 256 \in Nibble /\ copy[Pos(d) + 1] \in Byte /\ copy[Pos(d)] \in Byte
      BY <1>1, <1>4, Split, Halves
    <3>4. copy[Pos(d)] = ((copy[Pos(d)] \div 16) * 16) + (copy[Pos(d)] % 16)
      <4>1. copy[Pos(d)] = 16 * (copy[Pos(d)] \div 16) + (copy[Pos(d)] % 16)
        BY <3>3, Halves
      <4> QED
        BY <3>3, <4>1 DEF Nibble
    <3>5. (w[Pos(d)] + 256 * w[Pos(d) + 1]) \div 16
            = (copy[Pos(d)] \div 16) + 16 * copy[Pos(d) + 1]
      BY <3>2, <3>3, HighHalf
    <3>6. (copy[Pos(d)] + 256 * copy[Pos(d) + 1]) \div 16
            = (copy[Pos(d)] \div 16) + 16 * copy[Pos(d) + 1]
      <4>1. \A x : x = ((copy[Pos(d)] \div 16) * 16) + (copy[Pos(d)] % 16) =>
              (x + 256 * copy[Pos(d) + 1]) \div 16
                = (copy[Pos(d)] \div 16) + 16 * copy[Pos(d) + 1]
        BY <3>3, HighHalf
      <4> QED
        BY <3>4, <4>1
    <3> QED
      BY <1>6, <2>3, <3>5, <3>6 DEF ReadCopy, w
  <2>4. CASE c % 2 = 1 /\ d % 2 = 0 /\ k = m
    <3>1. Pos(c) = Pos(d) + 1 /\ Pos(d) # Pos(c) /\ Pos(d) # Pos(c) + 1
      BY <2>1, <2>2, <2>4
    <3>2. /\ w[Pos(d)] = copy[Pos(d)]
          /\ w[Pos(d) + 1] = ((v % 16) * 16) + (copy[Pos(d) + 1] % 16)
      BY <1>1, <1>3, <2>4, <3>1 DEF First
    <3>3. /\ copy[Pos(d) + 1] \div 16 \in Nibble /\ copy[Pos(d) + 1] % 16 \in Nibble
          /\ v % 16 \in Nibble /\ copy[Pos(d)] \in Byte /\ copy[Pos(d) + 1] \in Byte
      BY <1>1, <1>4, Split, Halves
    <3>4. copy[Pos(d) + 1] = ((copy[Pos(d) + 1] \div 16) * 16) + (copy[Pos(d) + 1] % 16)
      <4>1. copy[Pos(d) + 1] = 16 * (copy[Pos(d) + 1] \div 16) + (copy[Pos(d) + 1] % 16)
        BY <3>3, Halves
      <4> QED
        BY <3>3, <4>1 DEF Nibble
    <3>5. (w[Pos(d)] + 256 * w[Pos(d) + 1]) % 4096
            = copy[Pos(d)] + 256 * (copy[Pos(d) + 1] % 16)
      BY <3>2, <3>3, LowHalf
    <3>6. (copy[Pos(d)] + 256 * copy[Pos(d) + 1]) % 4096
            = copy[Pos(d)] + 256 * (copy[Pos(d) + 1] % 16)
      <4>1. \A x : x = ((copy[Pos(d) + 1] \div 16) * 16) + (copy[Pos(d) + 1] % 16) =>
              (copy[Pos(d)] + 256 * x) % 4096
                = copy[Pos(d)] + 256 * (copy[Pos(d) + 1] % 16)
        BY <3>3, LowHalf
      <4> QED
        BY <3>4, <4>1
    <3> QED
      BY <1>6, <2>4, <3>5, <3>6 DEF ReadCopy, w
  <2>5. CASE ~(c % 2 = 0 /\ d % 2 = 1 /\ k = m) /\ ~(c % 2 = 1 /\ d % 2 = 0 /\ k = m)
    <3>1. /\ Pos(d) # Pos(c) /\ Pos(d) # Pos(c) + 1
          /\ Pos(d) + 1 # Pos(c) /\ Pos(d) + 1 # Pos(c) + 1
      BY <1>6, <2>1, <2>2, <2>5
    <3>2. w[Pos(d)] = copy[Pos(d)] /\ w[Pos(d) + 1] = copy[Pos(d) + 1]
      BY <1>1, <1>3, <3>1
    <3> QED
      BY <1>6, <3>2 DEF ReadCopy, w
  <2> QED
    BY <2>3, <2>4, <2>5
<1> QED
  BY <1>5, <1>6

\* The same for all copies, which stay the same.
LEMMA WriteFatAllFacts ==
  ASSUME NEW f \in Fats, NEW c \in ClusterNumbers, NEW v \in Value
  PROVE  /\ WriteFatAll(f, c, v) \in Fats
         /\ \A d \in ClusterNumbers :
              ReadFat(WriteFatAll(f, c, v), d) = IF d = c THEN v ELSE ReadFat(f, d)
<1>1. 1 \in 1..FatCopies
  BY LayoutAssumption
<1>2. f \in [1..FatCopies -> Copies] /\ \A k \in 1..FatCopies : f[k] = f[1]
  BY DEF Fats
<1>3. f[1] \in Copies
  BY <1>1, <1>2
<1>4. WriteFatAll(f, c, v) = [k \in 1..FatCopies |-> WriteFat(f[1], c, v)]
  BY <1>2 DEF WriteFatAll
<1>5. WriteFat(f[1], c, v) \in Copies
  BY <1>3, WriteFatBytes
<1>6. WriteFatAll(f, c, v) \in Fats
  BY <1>1, <1>4, <1>5 DEF Fats
<1>7. \A g, d : ReadFat(g, d) = ReadCopy(g[1], d)
  BY DEF ReadFat, ReadCopy, Pos
<1>8. WriteFatAll(f, c, v)[1] = WriteFat(f[1], c, v)
  BY <1>1, <1>4
<1> QED
  BY <1>3, <1>6, <1>7, <1>8, ReadWritten

-----------------------------------------------------------------------------
(***************************************************************************)
(* Chains.                                                                 *)
(***************************************************************************)

LEMMA ChainType ==
  ASSUME NEW chain \in Chains
  PROVE  /\ Len(chain) \in Nat /\ DOMAIN chain = 1..Len(chain)
         /\ \A i \in 1..Len(chain) : chain[i] \in ClusterNumbers
BY DEF Chains

\* Cluster numbers are values that end no chain.
LEMMA NumbersAreValues ==
  /\ ClusterNumbers \subseteq Value /\ EOC \in Value /\ 0 \in Value
  /\ \A c \in ClusterNumbers : c # 0 /\ ~Ends(c)
  /\ Ends(EOC) /\ EOC # 0
<1>1. ClusterCount \in 1..4084
  BY LayoutAssumption
<1> QED
  BY <1>1 DEF ClusterNumbers, Value, EOC, Ends

\* The first clusters of a chain are a chain.
LEMMA Prefix ==
  ASSUME NEW chain \in Chains, NEW j \in 0..Len(chain)
  PROVE  /\ SubSeq(chain, 1, j) \in Chains /\ Len(SubSeq(chain, 1, j)) = j
         /\ \A i \in 1..j : SubSeq(chain, 1, j)[i] = chain[i]
<1>1. Len(chain) \in Nat /\ \A i \in 1..Len(chain) : chain[i] \in ClusterNumbers
  BY ChainType
<1>2. j \in Int /\ 1 \in Int /\ \A i \in 1..j : chain[i] \in ClusterNumbers
  BY <1>1
<1>3. /\ SubSeq(chain, 1, j) \in Seq(ClusterNumbers)
      /\ Len(SubSeq(chain, 1, j)) = (IF 1 <= j THEN j - 1 + 1 ELSE 0)
      /\ \A i \in 1..(j - 1 + 1) : SubSeq(chain, 1, j)[i] = chain[1 + i - 1]
  BY <1>2, SubSeqProperties
<1>4. Len(SubSeq(chain, 1, j)) = j
  BY <1>1, <1>3
<1>5. ASSUME NEW i \in 1..j PROVE SubSeq(chain, 1, j)[i] = chain[i]
  <2>1. i \in 1..(j - 1 + 1) /\ 1 + i - 1 = i
    BY <1>2
  <2> QED
    BY <1>3, <2>1
<1> QED
  BY <1>3, <1>4, <1>5 DEF Chains

LEMMA PrefixGrows ==
  ASSUME NEW chain \in Chains, NEW j \in 0..(Len(chain) - 1)
  PROVE  Append(SubSeq(chain, 1, j), chain[j + 1]) = SubSeq(chain, 1, j + 1)
<1>1. Len(chain) \in Nat /\ j \in 0..Len(chain) /\ j + 1 \in 1..Len(chain)
      /\ j + 1 \in 0..Len(chain)
  BY ChainType
<1> DEFINE s == SubSeq(chain, 1, j)
           t == SubSeq(chain, 1, j + 1)
           a == Append(s, chain[j + 1])
<1>2. s \in Chains /\ Len(s) = j /\ \A i \in 1..j : s[i] = chain[i]
  BY <1>1, Prefix
<1>3. t \in Chains /\ Len(t) = j + 1 /\ \A i \in 1..(j + 1) : t[i] = chain[i]
  BY <1>1, Prefix
<1>4. chain[j + 1] \in ClusterNumbers
  BY <1>1, ChainType
<1>5. /\ a \in Chains /\ Len(a) = j + 1 /\ a[j + 1] = chain[j + 1]
      /\ \A i \in 1..j : a[i] = s[i]
  <2> HIDE DEF s
  <2> QED
    BY <1>2, <1>4, AppendProperties DEF Chains
<1> HIDE DEF s, t, a
<1>6. ASSUME NEW i \in 1..(j + 1) PROVE a[i] = t[i]
  <2>1. i = j + 1 \/ i \in 1..j
    BY <1>1
  <2> QED
    BY <1>2, <1>3, <1>5, <2>1
<1>7. a = t
  BY <1>3, <1>5, <1>6, SeqEqual DEF Chains
<1> QED
  BY <1>7 DEF a, s, t

\* A chain without repetition is not longer than the table.
LEMMA ChainFits ==
  ASSUME NEW chain \in Chains, Injected(chain)
  PROVE  Len(chain) <= ClusterCount
<1>1. ClusterCount \in Nat /\ 1 \in Int /\ 2 \in Int /\ ClusterCount + 1 \in Int
  BY LayoutAssumption
<1>2. Len(chain) \in Nat /\ Len(chain) \in Int
  BY ChainType
<1>3. IsFiniteSet(ClusterNumbers) /\ Cardinality(ClusterNumbers) = ClusterCount
  <2>0. PICK n \in Int : n = ClusterCount + 1
    BY <1>1
  <2>1. IsFiniteSet(2..n) /\ Cardinality(2..n) = (IF 2 > n THEN 0 ELSE n - 2 + 1)
    BY <1>1, FS_Interval, Zenon
  <2> QED
    BY <1>1, <2>0, <2>1, LayoutAssumption DEF ClusterNumbers
<1>4. Cardinality(1..Len(chain)) = Len(chain)
  <2>1. Cardinality(1..Len(chain)) = (IF 1 > Len(chain) THEN 0 ELSE Len(chain) - 1 + 1)
    BY <1>1, <1>2, FS_Interval, Zenon
  <2> QED
    BY <1>2, <2>1
<1>5. chain \in Injection(1..Len(chain), ClusterNumbers)
  <2>1. chain \in [1..Len(chain) -> ClusterNumbers]
    BY ChainType DEF Chains
  <2> QED
    BY <2>1 DEF Injection, IsInjective, Injected
<1>6. Cardinality(1..Len(chain)) <= Cardinality(ClusterNumbers)
  BY <1>3, <1>5, FS_Injection
<1> QED
  BY <1>3, <1>4, <1>6

\* The walk from a file's first cluster visits its chain, and ends with it.
LEMMA ChainFollowed ==
  ASSUME NEW f, NEW first, NEW chain \in Chains, Linked(f, first, chain), Injected(chain)
  PROVE  ChainFrom(f, first) = chain
<1> DEFINE n == ClusterCount
           L == Len(chain)
           Pre(j) == SubSeq(chain, 1, j)
           Go(seen, k) ==
             IF seen = <<>> \/ Len(seen) < k THEN seen
             ELSE IF Ends(ReadFat(f, seen[Len(seen)]))
                     \/ ReadFat(f, seen[Len(seen)]) \notin ClusterNumbers THEN seen
             ELSE Append(seen, ReadFat(f, seen[Len(seen)]))
           Start == IF first \in ClusterNumbers THEN <<first>> ELSE <<>>
           Step(v, k) == IF k = 0 THEN Start ELSE Go(v[k - 1], k)
           len(k) == IF k < L THEN k + 1 ELSE L
           g == [k \in 0..n |-> Pre(len(k))]
<1>1. n \in Nat /\ L \in 1..n /\ chain[1] = first
  <2>1. chain # <<>> /\ chain[1] = first
    BY DEF Linked
  <2>2. L \in Nat /\ L # 0
    BY <2>1, ChainType DEF Chains
  <2> QED
    BY <2>1, <2>2, ChainFits, LayoutAssumption
<1>2. \A i \in 1..L : chain[i] \in ClusterNumbers
  BY ChainType
<1>3. \A j \in 1..L : Pre(j) \in Chains /\ Len(Pre(j)) = j /\ Pre(j)[j] = chain[j] /\ Pre(j) # <<>>
  <2> SUFFICES ASSUME NEW j \in 1..L
               PROVE  Pre(j) \in Chains /\ Len(Pre(j)) = j /\ Pre(j)[j] = chain[j] /\ Pre(j) # <<>>
    OBVIOUS
  <2>1. j \in 0..L /\ j \in 1..j /\ j # 0
    BY <1>1
  <2>2. Pre(j) \in Chains /\ Len(Pre(j)) = j /\ Pre(j)[j] = chain[j]
    BY <2>1, Prefix
  <2>3. Len(<<>>) = 0
    OBVIOUS
  <2> HIDE DEF Pre
  <2> QED
    BY <2>1, <2>2, <2>3
<1>4. \A i \in 1..(L - 1) : ReadFat(f, chain[i]) = chain[i + 1]
  BY DEF Linked
<1>5. ReadFat(f, chain[L]) = EOC
  BY DEF Linked
<1>6. ASSUME NEW j \in 1..(L - 1) PROVE Append(Pre(j), chain[j + 1]) = Pre(j + 1)
  <2>1. j \in 0..(L - 1)
    BY <1>1
  <2> QED
    BY <2>1, PrefixGrows
<1>7. Start = Pre(1)
  <2>1. <<first>> \in Chains /\ Len(<<first>>) = 1 /\ <<first>>[1] = first
    BY <1>1, <1>2 DEF Chains
  <2>2. Pre(1) \in Chains /\ Len(Pre(1)) = 1 /\ Pre(1)[1] = first
    BY <1>1, <1>3
  <2>3. <<first>> = Pre(1)
    <3> HIDE DEF Pre
    <3>1. \A i \in 1..1 : i = 1
      OBVIOUS
    <3> QED
      BY <2>1, <2>2, <3>1, SeqEqual DEF Chains
  <2> QED
    BY <1>1, <1>2, <2>3
<1> HIDE DEF Pre
<1>8. ASSUME NEW k \in 1..n PROVE Go(Pre(len(k - 1)), k) = Pre(len(k))
  <2>1. CASE k > L
    <3>1. len(k - 1) = L /\ len(k) = L
      BY <1>1, <2>1
    <3>2. Len(Pre(L)) = L
      BY <1>1, <1>3
    <3>3. Len(Pre(L)) < k
      BY <1>1, <2>1, <3>2
    <3> HIDE DEF len
    <3> QED
      BY <3>1, <3>3
  <2>2. CASE k = L
    <3>1. len(k - 1) = L /\ len(k) = L
      BY <1>1, <2>2
    <3>2. Pre(L)[Len(Pre(L))] = chain[L]
      BY <1>1, <1>3
    <3>3. Ends(ReadFat(f, Pre(L)[Len(Pre(L))]))
      BY <1>5, <3>2, NumbersAreValues
    <3> HIDE DEF len
    <3> QED
      BY <3>1, <3>3
  <2>3. CASE k < L
    <3>1. len(k - 1) = k /\ len(k) = k + 1 /\ k \in 1..L /\ k \in 1..(L - 1)
      BY <1>1, <2>3
    <3>2. Len(Pre(k)) = k /\ Pre(k)[Len(Pre(k))] = chain[k] /\ Pre(k) # <<>>
      BY <1>3, <3>1
    <3>3. ReadFat(f, chain[k]) = chain[k + 1] /\ chain[k + 1] \in ClusterNumbers
      BY <1>1, <1>2, <1>4, <3>1
    <3>4. ~Ends(chain[k + 1])
      BY <3>3, NumbersAreValues
    <3>5. Append(Pre(k), chain[k + 1]) = Pre(k + 1)
      BY <1>6, <3>1
    <3>6. ~(Len(Pre(k)) < k)
      BY <3>1, <3>2
    <3> HIDE DEF len
    <3> QED
      BY <3>1, <3>2, <3>3, <3>4, <3>5, <3>6
  <2> QED
    BY <1>1, <2>1, <2>2, <2>3
<1>9. g = [k \in 0..n |-> Step(g, k)]
  <2>1. ASSUME NEW k \in 0..n PROVE Pre(len(k)) = Step(g, k)
    <3>1. CASE k = 0
      <4>1. len(0) = 1
        BY <1>1
      <4> HIDE DEF len, Start
      <4> QED
        BY <1>7, <3>1, <4>1
    <3>2. CASE k # 0
      <4>1. k \in 1..n /\ k - 1 \in 0..n
        BY <1>1, <3>2
      <4>2. g[k - 1] = Pre(len(k - 1))
        BY <4>1
      <4>3. Step(g, k) = Go(g[k - 1], k)
        BY <3>2
      <4> HIDE DEF g, Go, len, Step
      <4> QED
        BY <1>8, <4>1, <4>2, <4>3
    <3> QED
      BY <3>1, <3>2
  <2>2. \A k \in 0..n : Pre(len(k)) = Step(g, k)
    BY <2>1
  <2> HIDE DEF Step, len
  <2> QED
    BY <2>2
<1> HIDE DEF Go, Start, g
<1> DEFINE v == Visited(f, first)
<1>10. v = [k \in 0..n |-> Step(v, k)]
  <2>1. v = CHOOSE u : u = [k \in 0..n |-> Step(u, k)]
    BY DEF Visited, Go, Start
  <2> HIDE DEF Step, v
  <2> QED
    BY <1>9, <2>1
<1>11. v[0] = Start /\ \A k \in 1..n : v[k] = Go(v[k - 1], k)
  <2> HIDE DEF v
  <2> QED
    BY <1>1, <1>10
<1>12. \A k \in 0..n : v[k] = Pre(len(k))
  <2> DEFINE T == {k \in 0..n : v[k] = Pre(len(k))}
  <2>1. 0 \in T
    <3>1. len(0) = 1 /\ 0 \in 0..n
      BY <1>1
    <3> HIDE DEF v, len
    <3> QED
      BY <1>7, <1>11, <3>1
  <2>2. ASSUME NEW k \in 1..n, k - 1 \in T PROVE k \in T
    <3>1. k \in 0..n /\ v[k - 1] = Pre(len(k - 1))
      BY <1>1, <2>2
    <3> HIDE DEF v, len
    <3> QED
      BY <1>8, <1>11, <3>1
  <2> HIDE DEF T
  <2>3. \A k \in 0..n : k \in T
    BY <1>1, <2>1, <2>2, IntervalInduction
  <2> QED
    BY <2>3 DEF T
<1>13. n \in 0..n /\ len(n) = L
  BY <1>1
<1>14. Pre(L) = chain
  BY SubSeqFull DEF Pre, Chains
<1> HIDE DEF len
<1> QED
  BY <1>12, <1>13, <1>14 DEF ChainFrom

\* Values written along a chain are there, and nothing else has changed.
LEMMA WrittenFacts ==
  ASSUME NEW f \in Fats, NEW chain \in Chains, Injected(chain),
         NEW values, \A i \in 1..Len(chain) : values[i] \in Value
  PROVE  LET g == Written(f, chain, values)
         IN  /\ g \in Fats
             /\ \A i \in 1..Len(chain) : ReadFat(g, chain[i]) = values[i]
             /\ \A d \in ClusterNumbers \ Elements(chain) : ReadFat(g, d) = ReadFat(f, d)
<1> DEFINE n == Len(chain)
           Next1(g, i) == WriteFatAll(g, chain[i], values[i])
           Step(t, i) == IF i = 0 THEN f ELSE Next1(t[i - 1], i)
           step == [i \in 1..n |-> [g \in Fats |-> Next1(g, i)]]
           t == Tables(f, chain, values)
<1>1. n \in Nat /\ \A i \in 1..n : chain[i] \in ClusterNumbers
  BY ChainType
<1>2. ASSUME NEW i \in 1..n, NEW g \in Fats
      PROVE  /\ Next1(g, i) \in Fats
             /\ \A d \in ClusterNumbers :
                  ReadFat(Next1(g, i), d) = IF d = chain[i] THEN values[i] ELSE ReadFat(g, d)
  BY <1>1, WriteFatAllFacts
<1>3. step \in StepsOn(Fats, n) /\ \A i \in 1..n, g \in Fats : step[i][g] = Next1(g, i)
  <2> HIDE DEF Next1
  <2> QED
    BY <1>2 DEF StepsOn
<1> HIDE DEF step, n
<1>4. PICK h : Follows(h, Fats, n, f, step)
  BY <1>1, <1>3, Recursion
<1>5. h = [i \in 0..n |-> Step(h, i)]
  <2>1. ASSUME NEW i \in 1..n PROVE h[i] = Next1(h[i - 1], i)
    <3>1. i - 1 \in 0..n
      BY <1>1
    <3>2. h[i - 1] \in Fats /\ h[i] = step[i][h[i - 1]]
      BY <1>4, <3>1 DEF Follows
    <3> HIDE DEF Next1
    <3> QED
      BY <1>3, <3>2
  <2>2. \A i \in 0..n : h[i] = Step(h, i)
    <3> HIDE DEF Next1
    <3> QED
      BY <1>1, <1>4, <2>1 DEF Follows
  <2> HIDE DEF Step
  <2> QED
    BY <1>4, <2>2 DEF Follows
<1>6. t = CHOOSE u : u = [i \in 0..n |-> Step(u, i)]
  BY DEF Tables, n
<1>7. t = [i \in 0..n |-> Step(t, i)]
  <2> HIDE DEF Step, t
  <2> QED
    BY <1>5, <1>6
<1> HIDE DEF t, Next1
<1>8. t[0] = f /\ \A i \in 1..n : t[i] = Next1(t[i - 1], i)
  BY <1>1, <1>7
<1> DEFINE Right(i) == /\ t[i] \in Fats
                       /\ \A j \in 1..i : ReadFat(t[i], chain[j]) = values[j]
                       /\ \A d \in ClusterNumbers :
                            (\A j \in 1..i : d # chain[j]) => ReadFat(t[i], d) = ReadFat(f, d)
           T == {i \in 0..n : Right(i)}
<1>9. 0 \in T
  BY <1>1, <1>8
<1>10. ASSUME NEW i \in 1..n, i - 1 \in T PROVE i \in T
  <2>1. i \in 0..n /\ \A j \in 1..i : j = i \/ j \in 1..(i - 1)
    BY <1>1
  <2>2. Right(i - 1)
    BY <1>10
  <2>3. t[i - 1] \in Fats /\ t[i] = Next1(t[i - 1], i)
    BY <1>8, <2>2
  <2>4. /\ t[i] \in Fats
        /\ \A d \in ClusterNumbers :
             ReadFat(t[i], d) = IF d = chain[i] THEN values[i] ELSE ReadFat(t[i - 1], d)
    BY <1>2, <2>3
  <2>5. ASSUME NEW j \in 1..i PROVE ReadFat(t[i], chain[j]) = values[j]
    <3>1. CASE j = i
      BY <1>1, <2>4, <3>1
    <3>2. CASE j \in 1..(i - 1)
      <4>1. j \in 1..n /\ j # i
        BY <1>1, <3>2
      <4>2. chain[j] # chain[i] /\ chain[j] \in ClusterNumbers
        BY <1>1, <4>1, ChainType DEF Injected, n
      <4> QED
        BY <2>2, <2>4, <3>2, <4>2
    <3> QED
      BY <2>1, <3>1, <3>2
  <2>6. ASSUME NEW d \in ClusterNumbers, \A j \in 1..i : d # chain[j]
        PROVE  ReadFat(t[i], d) = ReadFat(f, d)
    <3>1. d # chain[i] /\ \A j \in 1..(i - 1) : d # chain[j]
      BY <1>1, <2>6
    <3> QED
      BY <2>2, <2>4, <3>1
  <2> QED
    BY <2>1, <2>4, <2>5, <2>6
<1>11. \A i \in 0..n : i \in T
  <2> HIDE DEF T
  <2> QED
    BY <1>1, <1>9, <1>10, IntervalInduction
<1>12. n \in 0..n
  BY <1>1
<1>13. Right(n)
  BY <1>11, <1>12
<1>14. DOMAIN chain = 1..n /\ Written(f, chain, values) = t[n]
  BY ChainType DEF Written, t, n
<1> QED
  BY <1>13, <1>14 DEF Elements, n

\* The clusters found free are free, and none is found twice.
LEMMA FreeFacts ==
  ASSUME NEW f
  PROVE  /\ FreeClusters(f) \in Chains /\ Injected(FreeClusters(f))
         /\ \A i \in 1..Len(FreeClusters(f)) : ReadFat(f, FreeClusters(f)[i]) = 0
<1> DEFINE n == ClusterCount
           Next1(s, i) == IF ReadFat(f, i + 1) = 0 THEN Append(s, i + 1) ELSE s
           Step(v, i) == IF i = 0 THEN <<>> ELSE Next1(v[i - 1], i)
           step == [i \in 1..n |-> [s \in Chains |-> Next1(s, i)]]
           v == Found(f)
<1>1. n \in Nat /\ <<>> \in Chains /\ \A i \in 1..n : i + 1 \in ClusterNumbers
  BY LayoutAssumption DEF ClusterNumbers, Chains
<1>2. ASSUME NEW i \in 1..n, NEW s \in Chains PROVE Next1(s, i) \in Chains
  BY <1>1, AppendProperties DEF Chains
<1>3. step \in StepsOn(Chains, n) /\ \A i \in 1..n, s \in Chains : step[i][s] = Next1(s, i)
  <2> HIDE DEF Next1
  <2> QED
    BY <1>2 DEF StepsOn
<1> HIDE DEF step
<1>4. PICK h : Follows(h, Chains, n, <<>>, step)
  BY <1>1, <1>3, Recursion
<1>5. h = [i \in 0..n |-> Step(h, i)]
  <2>1. ASSUME NEW i \in 1..n PROVE h[i] = Next1(h[i - 1], i)
    <3>1. i - 1 \in 0..n
      BY <1>1
    <3>2. h[i - 1] \in Chains /\ h[i] = step[i][h[i - 1]]
      BY <1>4, <3>1 DEF Follows
    <3> HIDE DEF Next1
    <3> QED
      BY <1>3, <3>2
  <2>2. \A i \in 0..n : h[i] = Step(h, i)
    <3> HIDE DEF Next1
    <3> QED
      BY <1>1, <1>4, <2>1 DEF Follows
  <2> HIDE DEF Step
  <2> QED
    BY <1>4, <2>2 DEF Follows
<1>6. v = CHOOSE u : u = [i \in 0..n |-> Step(u, i)]
  BY DEF Found
<1>7. v = [i \in 0..n |-> Step(v, i)]
  <2> HIDE DEF Step, v
  <2> QED
    BY <1>5, <1>6
<1> HIDE DEF v, Next1
<1>8. v[0] = <<>> /\ \A i \in 1..n : v[i] = Next1(v[i - 1], i)
  BY <1>1, <1>7
<1> DEFINE Right(i) == /\ v[i] \in Chains /\ Injected(v[i])
                       /\ \A j \in 1..Len(v[i]) : v[i][j] <= i + 1 /\ ReadFat(f, v[i][j]) = 0
           T == {i \in 0..n : Right(i)}
<1>9. 0 \in T
  <2>1. Right(0)
    BY <1>1, <1>8 DEF Injected
  <2> QED
    BY <1>1, <2>1
<1>10. ASSUME NEW i \in 1..n, i - 1 \in T PROVE i \in T
  <2> DEFINE s == v[i - 1]
             a == v[i]
  <2>1. Right(i - 1) /\ a = Next1(s, i) /\ i \in 0..n /\ i - 1 + 1 = i
    BY <1>1, <1>8, <1>10
  <2>2. /\ s \in Chains /\ Injected(s) /\ Len(s) \in Nat /\ DOMAIN s = 1..Len(s)
        /\ \A j \in 1..Len(s) : s[j] \in ClusterNumbers /\ s[j] <= i /\ ReadFat(f, s[j]) = 0
    BY <2>1, ChainType
  <2>3. \A c \in ClusterNumbers : c <= i => c <= i + 1 /\ c # i + 1
    BY DEF ClusterNumbers
  <2> HIDE DEF s, a
  <2>4. CASE ReadFat(f, i + 1) # 0
    <3>1. a = s
      BY <2>1, <2>4 DEF Next1
    <3>2. Right(i)
      BY <2>2, <2>3, <3>1 DEF a
    <3> QED
      BY <2>1, <3>2
  <2>5. CASE ReadFat(f, i + 1) = 0
    <3>1. a = Append(s, i + 1) /\ i + 1 \in ClusterNumbers
      BY <1>1, <2>1, <2>5 DEF Next1
    <3>2. /\ a \in Chains /\ Len(a) = Len(s) + 1 /\ a[Len(s) + 1] = i + 1
          /\ \A j \in 1..Len(s) : a[j] = s[j]
      BY <2>2, <3>1, AppendProperties DEF Chains
    <3>3. DOMAIN a = 1..(Len(s) + 1)
      BY <3>2, ChainType
    <3>4. \A j \in 1..(Len(s) + 1) : j = Len(s) + 1 \/ j \in 1..Len(s)
      BY <2>2
    <3>5. \A j \in 1..Len(a) : a[j] <= i + 1 /\ ReadFat(f, a[j]) = 0
      BY <2>2, <2>3, <2>5, <3>2, <3>4
    <3>6. \A j \in 1..Len(s) : a[j] # i + 1
      BY <2>2, <2>3, <3>2
    <3>7. \A j, m \in 1..Len(s) : a[j] = a[m] => j = m
      BY <2>2, <3>2 DEF Injected
    <3>8. Injected(a)
      BY <3>2, <3>3, <3>4, <3>6, <3>7 DEF Injected
    <3> QED
      BY <2>1, <3>2, <3>5, <3>8 DEF a
  <2> QED
    BY <2>4, <2>5
<1>11. \A i \in 0..n : i \in T
  <2> HIDE DEF T
  <2> QED
    BY <1>1, <1>9, <1>10, IntervalInduction
<1>12. n \in 0..n
  BY <1>1
<1>13. Right(n)
  BY <1>11, <1>12
<1> QED
  BY <1>13 DEF FreeClusters, v

-----------------------------------------------------------------------------
(***************************************************************************)
(* Bytes and clusters.                                                     *)
(***************************************************************************)

\* More clusters are more bytes.
LEMMA MoreClusters ==
  ASSUME NEW a \in Nat, NEW b \in Nat, a < b
  PROVE  a * ClusterSize + ClusterSize <= b * ClusterSize
<1>1. ClusterSize \in Nat \ {0}
  BY LayoutAssumption
<1>2. PICK e \in Nat : b = a + 1 + e
  <2>1. b - a - 1 \in Nat /\ b = a + 1 + (b - a - 1)
    OBVIOUS
  <2> QED
    BY <2>1
<1>3. b * ClusterSize = a * ClusterSize + ClusterSize + e * ClusterSize
  BY <1>1, <1>2
<1>4. e * ClusterSize \in Nat /\ a * ClusterSize \in Nat
  BY <1>1
<1> QED
  BY <1>1, <1>3, <1>4

\* A cluster number and a place in the cluster, for a byte of a file.
Cluster(k) == ((k - 1) \div ClusterSize) + 1
Offset(k)  == ((k - 1) % ClusterSize) + 1

LEMMA ByteFacts ==
  ASSUME NEW k \in Nat \ {0}
  PROVE  /\ Cluster(k) \in Nat \ {0} /\ Offset(k) \in 1..ClusterSize
         /\ (Cluster(k) - 1) * ClusterSize + Offset(k) = k
<1>1. ClusterSize \in Nat \ {0} /\ k - 1 \in Nat
  BY LayoutAssumption
<1> DEFINE q == (k - 1) \div ClusterSize
           r == (k - 1) % ClusterSize
<1>2. q \in Nat /\ r \in 0..(ClusterSize - 1) /\ k - 1 = q * ClusterSize + r
  BY <1>1
<1>3. q * ClusterSize \in Nat
  BY <1>1, <1>2
<1>4. Cluster(k) = q + 1 /\ Offset(k) = r + 1
  BY DEF Cluster, Offset
<1> HIDE DEF q, r
<1>5. Cluster(k) \in Nat \ {0} /\ Offset(k) \in 1..ClusterSize
  BY <1>1, <1>2, <1>4
<1>6. Cluster(k) - 1 = q
  BY <1>2, <1>4
<1>7. (Cluster(k) - 1) * ClusterSize + Offset(k) = k
  BY <1>1, <1>2, <1>3, <1>4, <1>6
<1> QED
  BY <1>5, <1>7

\* A file has as many clusters as its bytes need.
LEMMA NeededFacts ==
  ASSUME NEW size \in Nat \ {0}
  PROVE  /\ NeededClusters(size) \in Nat \ {0}
         /\ size <= NeededClusters(size) * ClusterSize
         /\ \A k \in 1..size : Cluster(k) \in 1..NeededClusters(size)
<1>1. ClusterSize \in Nat \ {0} /\ size + ClusterSize - 1 \in Nat
  BY LayoutAssumption
<1> DEFINE q == NeededClusters(size)
           r == (size + ClusterSize - 1) % ClusterSize
<1>2. q \in Nat /\ r \in 0..(ClusterSize - 1)
      /\ size + ClusterSize - 1 = q * ClusterSize + r
  BY <1>1 DEF NeededClusters
<1>3. q * ClusterSize \in Nat
  BY <1>1, <1>2
<1> HIDE DEF q, r
<1>4. size <= q * ClusterSize
  BY <1>1, <1>2, <1>3
<1>5. q # 0
  <2>1. q = 0 => q * ClusterSize = 0
    BY <1>1
  <2> QED
    BY <1>4, <2>1
<1>6. ASSUME NEW k \in 1..size PROVE Cluster(k) \in 1..q
  <2>1. k \in Nat \ {0} /\ k <= size
    OBVIOUS
  <2>2. /\ Cluster(k) \in Nat \ {0} /\ Offset(k) \in 1..ClusterSize
        /\ (Cluster(k) - 1) * ClusterSize + Offset(k) = k
    BY <2>1, ByteFacts
  <2>3. Cluster(k) - 1 \in Nat /\ (Cluster(k) - 1) * ClusterSize \in Nat
    BY <1>1, <2>2
  <2>4. CASE q < Cluster(k)
    <3>1. q = Cluster(k) - 1 \/ q < Cluster(k) - 1
      BY <1>2, <2>2, <2>4
    <3>2. q * ClusterSize <= (Cluster(k) - 1) * ClusterSize
      <4>1. CASE q = Cluster(k) - 1
        BY <1>3, <4>1
      <4>2. CASE q < Cluster(k) - 1
        <5>1. q * ClusterSize + ClusterSize <= (Cluster(k) - 1) * ClusterSize
          BY <1>2, <2>3, <4>2, MoreClusters
        <5> QED
          BY <1>1, <1>3, <2>3, <5>1
      <4> QED
        BY <3>1, <4>1, <4>2
    <3> QED
      BY <1>1, <1>3, <1>4, <2>1, <2>2, <2>3, <3>2
  <2> QED
    BY <1>2, <2>2, <2>4
<1> QED
  BY <1>2, <1>4, <1>5, <1>6 DEF q

-----------------------------------------------------------------------------
(***************************************************************************)
(* Sound images.                                                           *)
(***************************************************************************)

\* A chain whose entries did not change is still linked.
LEMMA LinkedKeeps ==
  ASSUME NEW f, NEW g, NEW first, NEW chain \in Chains, Linked(f, first, chain),
         \A c \in Elements(chain) : ReadFat(g, c) = ReadFat(f, c)
  PROVE  Linked(g, first, chain)
<1>1. Len(chain) \in Nat /\ DOMAIN chain = 1..Len(chain) /\ Len(chain) # 0
  <2>1. chain # <<>>
    BY DEF Linked
  <2> QED
    BY <2>1, ChainType DEF Chains
<1>2. \A i \in 1..Len(chain) : ReadFat(g, chain[i]) = ReadFat(f, chain[i])
  BY <1>1 DEF Elements
<1>3. \A i \in 1..(Len(chain) - 1) : i \in 1..Len(chain)
  BY <1>1
<1>4. Len(chain) \in 1..Len(chain)
  BY <1>1
<1> QED
  BY <1>2, <1>3, <1>4 DEF Linked

\* The entries of a linked chain are not free.
LEMMA LinkedUsed ==
  ASSUME NEW f, NEW first, NEW chain \in Chains, Linked(f, first, chain),
         NEW c \in Elements(chain)
  PROVE  ReadFat(f, c) # 0 /\ c \in ClusterNumbers
<1>1. /\ Len(chain) \in Nat /\ DOMAIN chain = 1..Len(chain)
      /\ \A i \in 1..Len(chain) : chain[i] \in ClusterNumbers
  BY ChainType
<1>2. PICK i \in 1..Len(chain) : c = chain[i]
  BY <1>1 DEF Elements
<1>3. CASE i = Len(chain)
  BY <1>1, <1>2, <1>3, NumbersAreValues DEF Linked
<1>4. CASE i # Len(chain)
  <2>1. i \in 1..(Len(chain) - 1) /\ i + 1 \in 1..Len(chain)
    <3>1. PICK n \in Nat : n = Len(chain)
      BY <1>1
    <3>2. i \in 1..n /\ i # n
      BY <1>4, <3>1
    <3>3. i \in 1..(n - 1) /\ i + 1 \in 1..n
      BY <3>2
    <3> QED
      BY <3>1, <3>3
  <2>2. ReadFat(f, c) = chain[i + 1]
    BY <1>2, <2>1 DEF Linked
  <2> QED
    BY <1>1, <1>2, <2>1, <2>2, NumbersAreValues
<1> QED
  BY <1>3, <1>4

\* What an entry in use is.
LEMMA UsedEntry ==
  ASSUME NEW r \in Roots, NEW s \in UsedIn(r)
  PROVE  /\ s \in Slots /\ r[s].kind = "used" /\ r[s].name \in Names
         /\ r[s].first \in ClusterNumbers /\ r[s].size \in 1..MaxSize
         /\ r[s].size \in Nat \ {0} /\ r[s] \in Entries
<1>1. s \in Slots /\ r[s] \in {Never, Deleted} \cup Entries /\ r[s].kind = "used"
  BY DEF Roots, UsedIn
<1>2. r[s] \in Entries
  <2>1. Never.kind = "never" /\ Deleted.kind = "deleted"
    BY DEF Never, Deleted
  <2> QED
    BY <1>1, <2>1
<1>3. MaxSize \in Nat
  BY LayoutAssumption
<1> QED
  BY <1>1, <1>2, <1>3 DEF Entries

\* The chain of an entry in use is what the walk visits.
LEMMA ChainOfUsed ==
  ASSUME NEW f, NEW r \in Roots, NEW ch \in [Slots -> Chains], ChainsSound(f, r, ch),
         NEW s \in UsedIn(r)
  PROVE  ch[s] \in Chains /\ ChainFrom(f, r[s].first) = ch[s]
<1>1. s \in Slots
  BY DEF UsedIn
<1>2. ch[s] \in Chains /\ Linked(f, r[s].first, ch[s]) /\ Injected(ch[s])
  BY <1>1 DEF ChainsSound
<1> QED
  BY <1>2, ChainFollowed

\* remove_file leaves a sound image, without the file.
Without(p, name) == [n \in DOMAIN p \ {name} |-> p[n]]

LEMMA RemoveSound ==
  ASSUME NEW f, NEW r, NEW d, NEW p, NEW ch, Sound(f, r, d, p, ch), NEW s \in UsedIn(r)
  PROVE  Sound(Freed(f, r[s].first), [r EXCEPT ![s] = Deleted], d,
               Without(p, r[s].name), ch)
<1> DEFINE g == Freed(f, r[s].first)
           r2 == [r EXCEPT ![s] = Deleted]
           p2 == Without(p, r[s].name)
           chain == ch[s]
<1>1. /\ f \in Fats /\ r \in Roots /\ d \in Datas /\ ch \in [Slots -> Chains]
      /\ ChainsSound(f, r, ch) /\ NamesSound(r) /\ FilesSound(r, d, p, ch)
  BY DEF Sound
<1>2. s \in Slots /\ chain \in Chains /\ Injected(chain)
  BY <1>1 DEF ChainsSound, UsedIn
<1>3. ChainFrom(f, r[s].first) = chain
  BY <1>1, ChainOfUsed
<1>4. /\ g \in Fats
      /\ \A c \in Elements(chain) : ReadFat(g, c) = 0
      /\ \A c \in ClusterNumbers \ Elements(chain) : ReadFat(g, c) = ReadFat(f, c)
  <2> DEFINE values == [i \in 1..Len(chain) |-> 0]
  <2>1. \A i \in 1..Len(chain) : values[i] \in Value /\ values[i] = 0
    BY NumbersAreValues
  <2>2. g = Written(f, chain, values)
    BY <1>3 DEF Freed
  <2> HIDE DEF values, g
  <2>3. /\ g \in Fats
        /\ \A i \in 1..Len(chain) : ReadFat(g, chain[i]) = values[i]
        /\ \A c \in ClusterNumbers \ Elements(chain) : ReadFat(g, c) = ReadFat(f, c)
    BY <1>1, <1>2, <2>1, <2>2, WrittenFacts
  <2>4. DOMAIN chain = 1..Len(chain)
    BY <1>2, ChainType
  <2> QED
    BY <2>1, <2>3, <2>4 DEF Elements
<1>5. /\ r2 \in Roots /\ r2[s] = Deleted /\ \A t \in Slots : t # s => r2[t] = r[t]
  BY <1>1, <1>2 DEF Roots
<1>6. Deleted.kind = "deleted"
  BY DEF Deleted, Never
<1> HIDE DEF g, r2, chain
<1>7. UsedIn(r2) = UsedIn(r) \ {s}
  BY <1>2, <1>5, <1>6 DEF UsedIn
<1>8. \A t \in UsedIn(r2) : t \in UsedIn(r) /\ t # s /\ t \in Slots /\ r2[t] = r[t]
  BY <1>5, <1>7 DEF UsedIn
<1>9. ChainsSound(g, r2, ch)
  <2>1. ASSUME NEW t \in UsedIn(r2)
        PROVE  /\ Linked(g, r2[t].first, ch[t]) /\ Injected(ch[t])
               /\ Len(ch[t]) = NeededClusters(r2[t].size)
    <3>1. /\ Linked(f, r[t].first, ch[t]) /\ Injected(ch[t])
          /\ Len(ch[t]) = NeededClusters(r[t].size) /\ ch[t] \in Chains
      BY <1>1, <1>8 DEF ChainsSound
    <3>2. Elements(ch[t]) \cap Elements(chain) = {}
      BY <1>1, <1>8 DEF ChainsSound, chain
    <3>3. \A c \in Elements(ch[t]) : ReadFat(g, c) = ReadFat(f, c)
      BY <1>4, <3>1, <3>2, LinkedUsed
    <3>4. Linked(g, r[t].first, ch[t])
      BY <3>1, <3>3, LinkedKeeps
    <3> QED
      BY <1>8, <3>1, <3>4
  <2>2. \A t, u \in UsedIn(r2) : t # u => Elements(ch[t]) \cap Elements(ch[u]) = {}
    BY <1>1, <1>8 DEF ChainsSound
  <2>3. ASSUME NEW c \in ClusterNumbers, ReadFat(g, c) # 0
        PROVE  \E t \in UsedIn(r2) : c \in Elements(ch[t])
    <3>1. c \notin Elements(chain) /\ ReadFat(f, c) # 0
      BY <1>4, <2>3
    <3>2. PICK t \in UsedIn(r) : c \in Elements(ch[t])
      BY <1>1, <3>1 DEF ChainsSound
    <3> QED
      BY <1>7, <3>1, <3>2 DEF chain
  <2> QED
    BY <2>1, <2>2, <2>3 DEF ChainsSound
<1>10. NamesSound(r2)
  <2>1. \A t, u \in UsedIn(r2) : r2[t].name = r2[u].name => t = u
    BY <1>1, <1>8 DEF NamesSound
  <2>2. ASSUME NEW t \in UsedIn(r2), NEW u \in 0..t PROVE r2[u].kind # "never"
    <3>1. r[u].kind # "never"
      BY <1>1, <1>8 DEF NamesSound
    <3>2. u \in Slots
      BY <1>8, LayoutAssumption DEF Slots
    <3> QED
      BY <1>5, <1>6, <3>1, <3>2
  <2> QED
    BY <2>1, <2>2 DEF NamesSound
<1>11. FilesSound(r2, d, p2, ch)
  <2>1. DOMAIN p = {r[t].name : t \in UsedIn(r)}
    BY <1>1 DEF FilesSound
  <2>2. \A t \in UsedIn(r) : t # s => r[t].name # r[s].name
    BY <1>1 DEF NamesSound
  <2>3. DOMAIN p2 = DOMAIN p \ {r[s].name} /\ \A n \in DOMAIN p2 : p2[n] = p[n]
    BY DEF Without
  <2> HIDE DEF p2
  <2>4. DOMAIN p2 = {r2[t].name : t \in UsedIn(r2)}
    BY <1>7, <1>8, <2>1, <2>2, <2>3
  <2>5. ASSUME NEW t \in UsedIn(r2)
        PROVE  p2[r2[t].name] = [k \in 1..r2[t].size |-> At(d, ch[t], k)]
    <3>1. p2[r2[t].name] = p[r[t].name]
      BY <1>8, <2>3, <2>4
    <3>2. p[r[t].name] = [k \in 1..r[t].size |-> At(d, ch[t], k)]
      BY <1>1, <1>8 DEF FilesSound
    <3> QED
      BY <1>8, <3>1, <3>2
  <2> QED
    BY <2>4, <2>5 DEF FilesSound
<1> HIDE DEF p2
<1>12. Sound(g, r2, d, p2, ch)
  BY <1>1, <1>4, <1>5, <1>9, <1>10, <1>11 DEF Sound
<1> QED
  BY <1>12 DEF g, r2, p2

\* The slot taken is the first that is free.
LEMMA FreeSlotFacts ==
  ASSUME NEW r \in Roots, FreeSlots(r) # {}
  PROVE  /\ FreeSlot(r) \in Slots /\ FreeSlot(r) \notin UsedIn(r)
         /\ \A t \in Slots : t < FreeSlot(r) => t \in UsedIn(r)
<1>1. FreeSlots(r) \in SUBSET Nat /\ FreeSlots(r) \subseteq Slots
  BY LayoutAssumption DEF FreeSlots, Slots
<1>2. \E m \in FreeSlots(r) : \A t \in FreeSlots(r) : m <= t
  BY <1>1, LeastElement
<1>3. FreeSlot(r) \in FreeSlots(r) /\ \A t \in FreeSlots(r) : FreeSlot(r) <= t
  BY <1>2 DEF FreeSlot
<1>4. ASSUME NEW t \in Slots, t < FreeSlot(r) PROVE t \in UsedIn(r)
  <2>1. t \in Nat /\ FreeSlot(r) \in Nat
    BY <1>1, <1>3, LayoutAssumption DEF Slots
  <2>2. t \notin FreeSlots(r)
    BY <1>3, <1>4, <2>1
  <2> QED
    BY <2>2 DEF FreeSlots, UsedIn
<1> QED
  BY <1>1, <1>3, <1>4 DEF FreeSlots, UsedIn

\* The clusters that allocate_clusters chains are linked, and no other entry
\* changes.
LEMMA ChainedFacts ==
  ASSUME NEW f \in Fats, NEW chain \in Chains, Injected(chain), chain # <<>>
  PROVE  /\ Chained(f, chain) \in Fats /\ Linked(Chained(f, chain), chain[1], chain)
         /\ \A c \in ClusterNumbers \ Elements(chain) :
              ReadFat(Chained(f, chain), c) = ReadFat(f, c)
<1> DEFINE n == Len(chain)
           g == Chained(f, chain)
           values == [i \in 1..n |-> IF i = n THEN EOC ELSE chain[i + 1]]
<1>1. n \in Nat \ {0} /\ \A i \in 1..n : chain[i] \in ClusterNumbers
  BY ChainType DEF Chains
<1>2. g = Written(f, chain, values)
  BY DEF Chained
<1> HIDE DEF g, n
<1>3. n = Len(chain)
  BY DEF n
<1>4. \A i \in 1..(n - 1) : i \in 1..n /\ i # n /\ i + 1 \in 1..n
  BY <1>1
<1>5. \A i \in 1..n : i = n \/ i \in 1..(n - 1)
  BY <1>1
<1>6. /\ n \in 1..n /\ values[n] = EOC
      /\ \A i \in 1..(n - 1) : values[i] = chain[i + 1]
  BY <1>1, <1>4
<1> HIDE DEF values
<1>7. \A i \in 1..n : values[i] \in Value
  BY <1>1, <1>4, <1>5, <1>6, NumbersAreValues
<1>8. /\ g \in Fats
      /\ \A i \in 1..n : ReadFat(g, chain[i]) = values[i]
      /\ \A c \in ClusterNumbers \ Elements(chain) : ReadFat(g, c) = ReadFat(f, c)
  BY <1>2, <1>3, <1>7, WrittenFacts
<1>9. \A i \in 1..(n - 1) : ReadFat(g, chain[i]) = chain[i + 1]
  BY <1>4, <1>6, <1>8
<1>10. ReadFat(g, chain[n]) = EOC
  BY <1>6, <1>8
<1>11. Linked(g, chain[1], chain)
  BY <1>3, <1>9, <1>10 DEF Linked
<1> QED
  BY <1>8, <1>11 DEF g

\* write_file_data: the bytes of a file are at their places, and no other
\* cluster changes.
LEMMA FilledFacts ==
  ASSUME data \in Datas, NEW chain \in Chains, Injected(chain),
         NEW k \in Nat, NEW size \in Nat \ {0}, Len(chain) = NeededClusters(size)
  PROVE  LET d == Filled(chain, Content(k, size))
         IN  /\ d \in Datas
             /\ \A c \in ClusterNumbers \ Elements(chain) : d[c] = data[c]
             /\ \A b \in 1..size : At(d, chain, b) = Content(k, size)[b]
<1> DEFINE d == Filled(chain, Content(k, size))
           Stored(i) == [o \in 1..ClusterSize |->
                           LET at == (i - 1) * ClusterSize + o
                           IN  IF at <= size THEN Content(k, size)[at] ELSE Pad]
<1>1. /\ Len(chain) \in Nat /\ DOMAIN chain = 1..Len(chain)
      /\ \A i \in 1..Len(chain) : chain[i] \in ClusterNumbers
  BY ChainType
<1>2. Len(Content(k, size)) = size
  BY DEF Content
<1>3. ASSUME NEW b \in 1..size PROVE Content(k, size)[b] \in Cell
  BY DEF Content, Cell
<1>4. Pad \in Cell
  BY DEF Pad, Cell
<1>5. ASSUME NEW i \in 1..Len(chain) PROVE d[chain[i]] = Stored(i)
  <2>1. chain[i] \in ClusterNumbers /\ \E j \in 1..Len(chain) : chain[j] = chain[i]
    BY <1>1
  <2>2. \A j \in 1..Len(chain) : chain[j] = chain[i] => j = i
    BY <1>1 DEF Injected
  <2>3. (CHOOSE j \in 1..Len(chain) : chain[j] = chain[i]) = i
    BY <2>2
  <2>4. d[chain[i]] =
          LET m == CHOOSE j \in 1..Len(chain) : chain[j] = chain[i]
          IN [o \in 1..ClusterSize |->
                LET at == (m - 1) * ClusterSize + o
                IN IF at <= Len(Content(k, size)) THEN Content(k, size)[at] ELSE Pad]
    BY <2>1 DEF Filled
  <2> QED
    BY <1>2, <2>3, <2>4
<1>6. ASSUME NEW c \in ClusterNumbers \ Elements(chain) PROVE d[c] = data[c]
  <2>1. ~ \E i \in 1..Len(chain) : chain[i] = c
    BY <1>1 DEF Elements
  <2> QED
    BY <2>1 DEF Filled
<1>7. DOMAIN d = ClusterNumbers /\ d = [c \in ClusterNumbers |-> d[c]]
  BY DEF Filled
<1> HIDE DEF d
<1>8. ASSUME NEW i \in 1..Len(chain) PROVE Stored(i) \in [1..ClusterSize -> Cell]
  <2>1. ASSUME NEW o \in 1..ClusterSize
        PROVE  (IF (i - 1) * ClusterSize + o <= size
                THEN Content(k, size)[(i - 1) * ClusterSize + o] ELSE Pad) \in Cell
    <3>1. ClusterSize \in Nat /\ i - 1 \in Nat
      BY <1>1, LayoutAssumption
    <3>2. (i - 1) * ClusterSize \in Nat
      BY <3>1
    <3>3. PICK at \in Nat \ {0} : at = (i - 1) * ClusterSize + o
      BY <3>1, <3>2
    <3>4. at <= size => at \in 1..size
      BY <3>3
    <3> QED
      BY <1>3, <1>4, <3>3, <3>4
  <2> QED
    BY <2>1
<1> HIDE DEF Stored
<1>9. ASSUME NEW c \in ClusterNumbers PROVE d[c] \in [1..ClusterSize -> Cell]
  <2>1. CASE c \in Elements(chain)
    BY <1>1, <1>5, <1>8, <2>1 DEF Elements
  <2>2. CASE c \notin Elements(chain)
    BY <1>6, <2>2 DEF Datas
  <2> QED
    BY <2>1, <2>2
<1>10. d \in Datas
  BY <1>7, <1>9 DEF Datas
<1>11. ASSUME NEW b \in 1..size PROVE At(d, chain, b) = Content(k, size)[b]
  <2>0. b \in Nat \ {0} /\ b <= size
    OBVIOUS
  <2>1. /\ Cluster(b) \in 1..Len(chain) /\ Offset(b) \in 1..ClusterSize
        /\ (Cluster(b) - 1) * ClusterSize + Offset(b) = b
    BY <2>0, ByteFacts, NeededFacts
  <2>2. At(d, chain, b) = d[chain[Cluster(b)]][Offset(b)]
    BY DEF At, Cluster, Offset
  <2>3. d[chain[Cluster(b)]] = Stored(Cluster(b))
    BY <1>5, <2>1
  <2>4. Stored(Cluster(b))[Offset(b)] = Content(k, size)[b]
    BY <2>0, <2>1 DEF Stored
  <2> QED
    BY <2>2, <2>3, <2>4
<1> QED
  BY <1>6, <1>10, <1>11 DEF d

\* add_file leaves a sound image, with the file.
With(p, name, bytes) ==
  [n \in DOMAIN p \cup {name} |-> IF n = name THEN bytes ELSE p[n]]

LEMMA AddSound ==
  ASSUME NEW f, NEW r, NEW p, NEW ch, Sound(f, r, data, p, ch),
         NEW name \in Names, \A s \in UsedIn(r) : r[s].name # name,
         NEW size \in 1..MaxSize, NEW k \in Nat, FreeSlots(r) # {},
         Len(FreeClusters(f)) >= NeededClusters(size),
         NEW chain, chain = SubSeq(FreeClusters(f), 1, NeededClusters(size))
  PROVE  \E ch2 \in [Slots -> Chains] :
           Sound(Chained(f, chain), [r EXCEPT ![FreeSlot(r)] = Entry(name, chain[1], size)],
                 Filled(chain, Content(k, size)), With(p, name, Content(k, size)), ch2)
<1> DEFINE n == NeededClusters(size)
           g == Chained(f, chain)
           new == FreeSlot(r)
           r2 == [r EXCEPT ![new] = Entry(name, chain[1], size)]
           d2 == Filled(chain, Content(k, size))
           p2 == With(p, name, Content(k, size))
           ch2 == [ch EXCEPT ![new] = chain]
<1>1. /\ f \in Fats /\ r \in Roots /\ data \in Datas /\ ch \in [Slots -> Chains]
      /\ ChainsSound(f, r, ch) /\ NamesSound(r) /\ FilesSound(r, data, p, ch)
  BY DEF Sound
<1>2. size \in Nat \ {0} /\ n \in Nat \ {0}
  <2>1. size \in Nat \ {0}
    BY LayoutAssumption
  <2> QED
    BY <2>1, NeededFacts
<1>3. /\ chain \in Chains /\ Len(chain) = n /\ Injected(chain) /\ chain # <<>>
      /\ \A c \in Elements(chain) : c \in ClusterNumbers /\ ReadFat(f, c) = 0
  <2> DEFINE free == FreeClusters(f)
  <2>1. /\ free \in Chains /\ Injected(free)
        /\ \A i \in 1..Len(free) : ReadFat(f, free[i]) = 0
    BY FreeFacts
  <2>2. n \in 0..Len(free) /\ chain = SubSeq(free, 1, n) /\ Len(free) \in Nat
    BY <1>2, <2>1, ChainType
  <2> HIDE DEF free, n
  <2>3. chain \in Chains /\ Len(chain) = n /\ \A i \in 1..n : chain[i] = free[i]
    BY <2>1, <2>2, Prefix
  <2>4. DOMAIN chain = 1..n /\ DOMAIN free = 1..Len(free)
    BY <2>1, <2>3, ChainType
  <2>8. \A i \in 1..n : i \in 1..Len(free)
    BY <2>2
  <2>5. Injected(chain)
    <3>1. ASSUME NEW i \in 1..n, NEW j \in 1..n, chain[i] = chain[j] PROVE i = j
      <4>1. free[i] = free[j]
        BY <2>3, <3>1, Zenon
      <4>2. i \in DOMAIN free /\ j \in DOMAIN free
        BY <2>4, <2>8, Zenon
      <4> QED
        BY <2>1, <4>1, <4>2, Zenon DEF Injected
    <3> QED
      BY <2>4, <3>1, Zenon DEF Injected
  <2>6. \A c \in Elements(chain) : c \in ClusterNumbers /\ ReadFat(f, c) = 0
    <3>1. ASSUME NEW i \in 1..n PROVE chain[i] \in ClusterNumbers /\ ReadFat(f, chain[i]) = 0
      <4>1. chain[i] = free[i] /\ i \in 1..Len(free)
        BY <2>3, <2>8, Zenon
      <4>2. free[i] \in ClusterNumbers
        BY <2>1, <4>1, ChainType
      <4> QED
        BY <2>1, <4>1, <4>2, Zenon
    <3>2. Elements(chain) = {chain[i] : i \in 1..n}
      BY <2>4 DEF Elements
    <3> QED
      BY <3>1, <3>2
  <2>7. Len(<<>>) = 0
    OBVIOUS
  <2> QED
    BY <1>2, <2>3, <2>5, <2>6, <2>7
<1>4. chain[1] \in ClusterNumbers
  <2>1. 1 \in 1..n
    <3> HIDE DEF n
    <3> QED
      BY <1>2
  <2> QED
    BY <1>3, <2>1, ChainType
<1>5. /\ g \in Fats /\ Linked(g, chain[1], chain)
      /\ \A c \in ClusterNumbers \ Elements(chain) : ReadFat(g, c) = ReadFat(f, c)
  BY <1>1, <1>3, ChainedFacts
<1>6. /\ new \in Slots /\ new \notin UsedIn(r)
      /\ \A t \in Slots : t < new => t \in UsedIn(r)
  BY <1>1, FreeSlotFacts
<1>7. /\ d2 \in Datas
      /\ \A c \in ClusterNumbers \ Elements(chain) : d2[c] = data[c]
      /\ \A b \in 1..size : At(d2, chain, b) = Content(k, size)[b]
  BY <1>1, <1>2, <1>3, FilledFacts
<1> DEFINE e == Entry(name, chain[1], size)
<1>8. /\ e \in Entries /\ e.kind = "used" /\ e.name = name
      /\ e.first = chain[1] /\ e.size = size
  BY <1>4 DEF Entry, Entries
<1> HIDE DEF e, g, d2, new, n
<1>9. r2 \in Roots /\ r2[new] = e /\ \A t \in Slots : t # new => r2[t] = r[t]
  BY <1>1, <1>6, <1>8 DEF Roots, e
<1>10. /\ ch2 \in [Slots -> Chains] /\ ch2[new] = chain
       /\ \A t \in Slots : t # new => ch2[t] = ch[t]
  BY <1>1, <1>3, <1>6
<1> HIDE DEF r2, ch2
<1>11. UsedIn(r2) = UsedIn(r) \cup {new}
  BY <1>6, <1>8, <1>9 DEF UsedIn
<1>12. \A t \in UsedIn(r) : t \in Slots /\ t # new /\ r2[t] = r[t] /\ ch2[t] = ch[t]
  BY <1>6, <1>9, <1>10 DEF UsedIn
<1>13. ASSUME NEW t \in UsedIn(r)
       PROVE  /\ Linked(f, r[t].first, ch[t]) /\ Injected(ch[t]) /\ ch[t] \in Chains
              /\ Len(ch[t]) = NeededClusters(r[t].size)
              /\ Elements(ch[t]) \cap Elements(chain) = {}
              /\ Elements(ch[t]) \subseteq ClusterNumbers
  <2>1. /\ Linked(f, r[t].first, ch[t]) /\ Injected(ch[t]) /\ ch[t] \in Chains
        /\ Len(ch[t]) = NeededClusters(r[t].size)
    BY <1>1, <1>12 DEF ChainsSound
  <2>2. \A c \in Elements(ch[t]) : ReadFat(f, c) # 0 /\ c \in ClusterNumbers
    BY <2>1, LinkedUsed
  <2> QED
    BY <1>3, <2>1, <2>2
<1>14. ChainsSound(g, r2, ch2)
  <2>1. ASSUME NEW t \in UsedIn(r2)
        PROVE  /\ Linked(g, r2[t].first, ch2[t]) /\ Injected(ch2[t])
               /\ Len(ch2[t]) = NeededClusters(r2[t].size)
    <3>1. CASE t = new
      BY <1>3, <1>5, <1>8, <1>9, <1>10, <3>1 DEF n
    <3>2. CASE t \in UsedIn(r)
      <4>1. \A c \in Elements(ch[t]) : ReadFat(g, c) = ReadFat(f, c)
        BY <1>5, <1>13, <3>2
      <4>2. Linked(g, r[t].first, ch[t])
        BY <1>13, <3>2, <4>1, LinkedKeeps
      <4> QED
        BY <1>12, <1>13, <3>2, <4>2
    <3> QED
      BY <1>11, <3>1, <3>2
  <2>2. ASSUME NEW t \in UsedIn(r2), NEW u \in UsedIn(r2), t # u
        PROVE  Elements(ch2[t]) \cap Elements(ch2[u]) = {}
    <3>1. CASE t \in UsedIn(r) /\ u \in UsedIn(r)
      BY <1>1, <1>12, <2>2, <3>1 DEF ChainsSound
    <3>2. CASE t = new
      BY <1>10, <1>11, <1>12, <1>13, <2>2, <3>2
    <3>3. CASE u = new
      BY <1>10, <1>11, <1>12, <1>13, <2>2, <3>3
    <3> QED
      BY <1>11, <3>1, <3>2, <3>3
  <2>3. ASSUME NEW c \in ClusterNumbers, ReadFat(g, c) # 0
        PROVE  \E t \in UsedIn(r2) : c \in Elements(ch2[t])
    <3>1. CASE c \in Elements(chain)
      BY <1>10, <1>11, <3>1
    <3>2. CASE c \notin Elements(chain)
      <4>1. ReadFat(f, c) # 0
        BY <1>5, <2>3, <3>2
      <4>2. PICK t \in UsedIn(r) : c \in Elements(ch[t])
        BY <1>1, <4>1 DEF ChainsSound
      <4> QED
        BY <1>11, <1>12, <4>2
    <3> QED
      BY <3>1, <3>2
  <2> QED
    BY <2>1, <2>2, <2>3 DEF ChainsSound
<1>15. NamesSound(r2)
  <2>1. ASSUME NEW t \in UsedIn(r2), NEW u \in UsedIn(r2), r2[t].name = r2[u].name
        PROVE  t = u
    <3>1. \A v \in UsedIn(r) : r2[v].name # name
      BY <1>12
    <3>2. r2[new].name = name
      BY <1>8, <1>9
    <3>3. CASE t \in UsedIn(r) /\ u \in UsedIn(r)
      BY <1>1, <1>12, <2>1, <3>3 DEF NamesSound
    <3> QED
      BY <1>11, <2>1, <3>1, <3>2, <3>3
  <2>2. ASSUME NEW t \in UsedIn(r2), NEW u \in 0..t PROVE r2[u].kind # "never"
    <3>1. t \in Slots /\ u \in Slots /\ t \in Nat /\ u \in Nat /\ new \in Nat
      BY <1>6, <1>11, <1>12, LayoutAssumption DEF Slots
    <3>2. CASE u = new
      BY <1>8, <1>9, <3>2
    <3>3. CASE u # new /\ t = new
      <4>1. u \in UsedIn(r)
        BY <1>6, <3>1, <3>3
      <4> QED
        BY <1>12, <4>1 DEF UsedIn
    <3>4. CASE u # new /\ t \in UsedIn(r)
      BY <1>1, <1>9, <3>1, <3>4 DEF NamesSound
    <3> QED
      BY <1>11, <3>2, <3>3, <3>4
  <2> QED
    BY <2>1, <2>2 DEF NamesSound
<1>16. FilesSound(r2, d2, p2, ch2)
  <2>1. DOMAIN p = {r[t].name : t \in UsedIn(r)}
    BY <1>1 DEF FilesSound
  <2>2. /\ DOMAIN p2 = DOMAIN p \cup {name} /\ p2[name] = Content(k, size)
        /\ \A m \in DOMAIN p : m # name => p2[m] = p[m]
    BY DEF With
  <2> HIDE DEF p2
  <2>3. DOMAIN p2 = {r2[t].name : t \in UsedIn(r2)}
    <3>1. {r2[t].name : t \in UsedIn(r)} = DOMAIN p
      BY <1>12, <2>1
    <3>2. r2[new].name = name
      BY <1>8, <1>9
    <3> QED
      BY <1>11, <2>2, <3>1, <3>2
  <2>4. p2[r2[new].name] = [b \in 1..r2[new].size |-> At(d2, ch2[new], b)]
    <3>1. Content(k, size) = [b \in 1..size |-> Content(k, size)[b]]
      BY DEF Content
    <3>2. Content(k, size) = [b \in 1..size |-> At(d2, chain, b)]
      BY <1>7, <3>1
    <3>3. r2[new].name = name /\ r2[new].size = size /\ ch2[new] = chain
      BY <1>8, <1>9, <1>10
    <3> QED
      BY <2>2, <3>2, <3>3
  <2>5. ASSUME NEW t \in UsedIn(r)
        PROVE  p2[r2[t].name] = [b \in 1..r2[t].size |-> At(d2, ch2[t], b)]
    <3>1. p2[r2[t].name] = p[r[t].name]
      BY <1>12, <2>1, <2>2
    <3>2. p[r[t].name] = [b \in 1..r[t].size |-> At(data, ch[t], b)]
      BY <1>1 DEF FilesSound
    <3>3. ASSUME NEW b \in 1..r[t].size PROVE At(d2, ch[t], b) = At(data, ch[t], b)
      <4>1. r[t].size \in Nat \ {0}
        BY <1>1, UsedEntry
      <4>2. Cluster(b) \in 1..Len(ch[t])
        BY <1>13, <4>1, NeededFacts
      <4>3. ch[t][Cluster(b)] \in Elements(ch[t])
        BY <1>13, <4>2, ChainType DEF Elements
      <4>4. d2[ch[t][Cluster(b)]] = data[ch[t][Cluster(b)]]
        BY <1>7, <1>13, <4>3
      <4> QED
        BY <4>4 DEF At, Cluster
    <3> QED
      BY <1>12, <3>1, <3>2, <3>3
  <2> QED
    BY <1>11, <2>3, <2>4, <2>5 DEF FilesSound
<1> HIDE DEF p2
<1>17. Sound(g, r2, d2, p2, ch2)
  BY <1>5, <1>7, <1>9, <1>10, <1>14, <1>15, <1>16 DEF Sound
<1>18. r2 = [r EXCEPT ![FreeSlot(r)] = Entry(name, chain[1], size)]
  BY DEF r2, new
<1> QED
  BY <1>10, <1>17, <1>18 DEF g, d2, p2

-----------------------------------------------------------------------------
(***************************************************************************)
(* The calls.                                                              *)
(***************************************************************************)

\* In a sound image a name is found exactly where it is in use.
LEMMA SlotFacts ==
  ASSUME NEW ch, Sound(fat, root, data, promised, ch), NEW name \in Names
  PROVE  /\ Present(name) <=> name \in DOMAIN promised
         /\ Present(name) => SlotOf(name) \in UsedIn(root) /\ root[SlotOf(name)].name = name
         /\ ~Present(name) => \A s \in UsedIn(root) : root[s].name # name
<1>1. /\ root \in Roots /\ NamesSound(root)
      /\ DOMAIN promised = {root[s].name : s \in UsedIn(root)}
  BY DEF Sound, FilesSound
<1>2. SlotsOf(name) = {s \in UsedIn(root) : root[s].name = name}
  <2>1. ASSUME NEW s \in UsedIn(root) PROVE s \in Searched
    BY <1>1 DEF NamesSound, Searched, UsedIn
  <2>2. ASSUME NEW s \in Searched, root[s].kind = "used" PROVE s \in UsedIn(root)
    BY <2>2 DEF Searched, UsedIn
  <2>3. \A s \in UsedIn(root) : root[s].kind = "used"
    BY DEF UsedIn
  <2> QED
    BY <2>1, <2>2, <2>3 DEF SlotsOf
<1>3. Present(name) <=> name \in DOMAIN promised
  BY <1>1, <1>2 DEF Present
<1>4. ASSUME Present(name)
      PROVE  SlotOf(name) \in UsedIn(root) /\ root[SlotOf(name)].name = name
  <2>1. PICK s \in UsedIn(root) : root[s].name = name
    BY <1>2, <1>4 DEF Present
  <2>2. SlotsOf(name) = {s}
    BY <1>1, <1>2, <2>1 DEF NamesSound
  <2>3. s \in Nat
    BY LayoutAssumption DEF UsedIn, Slots
  <2>4. SlotOf(name) = s
    BY <2>2, <2>3 DEF SlotOf
  <2> QED
    BY <2>1, <2>4
<1> QED
  BY <1>2, <1>3, <1>4 DEF Present

\* Removing a file, where it is present, leaves a sound image without it.
LEMMA RemovedSound ==
  ASSUME NEW ch, Sound(fat, root, data, promised, ch), NEW name \in Names
  PROVE  LET f == IF Present(name) THEN FatWithout(name) ELSE fat
             r == IF Present(name) THEN RootWithout(name) ELSE root
         IN  /\ Sound(f, r, data, Without(promised, name), ch)
             /\ \A s \in UsedIn(r) : r[s].name # name
<1>1. CASE Present(name)
  <2> DEFINE s == SlotOf(name)
  <2>1. s \in UsedIn(root) /\ root[s].name = name
    BY <1>1, SlotFacts
  <2>2. Sound(Freed(fat, root[s].first), [root EXCEPT ![s] = Deleted], data,
              Without(promised, name), ch)
    <3> HIDE DEF s
    <3>1. Sound(Freed(fat, root[s].first), [root EXCEPT ![s] = Deleted], data,
                Without(promised, root[s].name), ch)
      BY <2>1, RemoveSound
    <3> QED
      BY <2>1, <3>1
  <2>3. Sound(FatWithout(name), RootWithout(name), data, Without(promised, name), ch)
    BY <2>2 DEF FatWithout, RootWithout
  <2>4. DOMAIN Without(promised, name) = {RootWithout(name)[t].name :
                                            t \in UsedIn(RootWithout(name))}
    BY <2>3 DEF Sound, FilesSound
  <2>5. name \notin DOMAIN Without(promised, name)
    BY DEF Without
  <2> QED
    BY <1>1, <2>3, <2>4, <2>5
<1>2. CASE ~Present(name)
  <2>1. name \notin DOMAIN promised /\ \A s \in UsedIn(root) : root[s].name # name
    BY <1>2, SlotFacts
  <2>2. FilesSound(root, data, promised, ch)
    BY DEF Sound
  <2>3. FilesSound(root, data, Without(promised, name), ch)
    <3>1. DOMAIN Without(promised, name) = DOMAIN promised
      BY <2>1 DEF Without
    <3>2. \A m \in DOMAIN promised : Without(promised, name)[m] = promised[m]
      BY <2>1 DEF Without
    <3>3. \A s \in UsedIn(root) : root[s].name \in DOMAIN promised
      BY <2>2 DEF FilesSound
    <3> QED
      BY <2>2, <3>1, <3>2, <3>3 DEF FilesSound
  <2> QED
    BY <1>2, <2>1, <2>3 DEF Sound
<1> QED
  BY <1>1, <1>2

\* Adding a file that fits leaves a sound image with it.
LEMMA AddedSound ==
  ASSUME NEW f, NEW r, NEW p, NEW ch, Sound(f, r, data, p, ch),
         NEW name \in Names, \A s \in UsedIn(r) : r[s].name # name,
         NEW size \in 0..MaxSize, Added(f, r, name, size), calls' \in Nat
  PROVE  \E ch2 \in [Slots -> Chains] :
           Sound(fat', root', data', With(p, name, Content(calls', size)), ch2)
<1> DEFINE chain == SubSeq(FreeClusters(f), 1, NeededClusters(size))
<1>1. /\ size > 0 /\ FreeSlots(r) # {}
      /\ Len(FreeClusters(f)) >= NeededClusters(size)
      /\ fat' = Chained(f, chain) /\ data' = Filled(chain, Content(calls', size))
      /\ root' = [r EXCEPT ![FreeSlot(r)] = Entry(name, chain[1], size)]
  BY DEF Added
<1>2. size \in 1..MaxSize
  BY <1>1, LayoutAssumption
<1>3. PICK k \in Nat : k = calls'
  OBVIOUS
<1>4. \E ch2 \in [Slots -> Chains] :
        Sound(Chained(f, chain), [r EXCEPT ![FreeSlot(r)] = Entry(name, chain[1], size)],
              Filled(chain, Content(k, size)), With(p, name, Content(k, size)), ch2)
  BY <1>1, <1>2, AddSound
<1> HIDE DEF chain
<1> QED
  BY <1>1, <1>3, <1>4

\* The empty floppy is sound.
LEMMA InitSound ==
  ASSUME Init
  PROVE  IInv
<1> DEFINE ch == [s \in Slots |-> <<>>]
<1>1. /\ fat = [k \in 1..FatCopies |-> [b \in FatBytes |-> 0]]
      /\ root = [s \in Slots |-> Never]
      /\ data = [c \in ClusterNumbers |-> [k \in 1..ClusterSize |-> Pad]]
      /\ calls = 0 /\ result = "ok" /\ promised = <<>>
  BY DEF Init
<1>2. fat \in Fats /\ \A b \in FatBytes : fat[1][b] = 0
  <2>1. 1 \in 1..FatCopies
    BY LayoutAssumption
  <2>2. 0 \in Byte
    BY DEF Byte
  <2> QED
    BY <1>1, <2>1, <2>2 DEF Fats, Copies
<1>3. root \in Roots /\ UsedIn(root) = {}
  <2>1. Never.kind = "never"
    BY DEF Never
  <2> QED
    BY <1>1, <2>1 DEF Roots, UsedIn
<1>4. data \in Datas
  <2>1. Pad \in Cell
    BY DEF Pad, Cell
  <2> QED
    BY <1>1, <2>1 DEF Datas
<1>5. ch \in [Slots -> Chains]
  BY DEF Chains
<1>6. ASSUME NEW c \in ClusterNumbers PROVE ReadFat(fat, c) = 0
  <2>1. fat[1][Pos(c)] = 0 /\ fat[1][Pos(c) + 1] = 0
    BY <1>2, Place
  <2>2. (0 + 256 * 0) % 4096 = 0 /\ (0 + 256 * 0) \div 16 = 0
    OBVIOUS
  <2> QED
    BY <2>1, <2>2 DEF ReadFat, Pos
<1>7. DOMAIN promised = {}
  BY <1>1
<1> HIDE DEF ch
<1>8. ChainsSound(fat, root, ch) /\ NamesSound(root) /\ FilesSound(root, data, promised, ch)
  BY <1>3, <1>6, <1>7 DEF ChainsSound, NamesSound, FilesSound
<1>9. Sound(fat, root, data, promised, ch)
  BY <1>2, <1>3, <1>4, <1>5, <1>8 DEF Sound
<1>10. CallInv
  BY <1>1, LayoutAssumption DEF CallInv
<1> QED
  BY <1>5, <1>9, <1>10 DEF IInv

\* Every step keeps the image sound.
LEMMA StepSound ==
  ASSUME IInv, [Next]_vars
  PROVE  IInv'
<1>1. PICK ch \in [Slots -> Chains] : Sound(fat, root, data, promised, ch)
  BY DEF IInv
<1>2. calls \in 0..MaxCalls /\ result \in {"ok", "absent", "error"} /\ MaxCalls \in Nat
  BY LayoutAssumption DEF IInv, CallInv
<1>3. ASSUME Called PROVE calls' \in 0..MaxCalls /\ calls' \in Nat
  BY <1>2, <1>3 DEF Called
<1>4. ASSUME CallInv', NEW p, p = promised',
             \E ch2 \in [Slots -> Chains] : Sound(fat', root', data', p, ch2)
      PROVE  IInv'
  BY <1>4 DEF IInv
<1>5. ASSUME NEW name \in Names, RemoveFile(name) PROVE IInv'
  <2> DEFINE f == IF Present(name) THEN FatWithout(name) ELSE fat
             r == IF Present(name) THEN RootWithout(name) ELSE root
  <2>1. CallInv'
    BY <1>3, <1>5 DEF RemoveFile, CallInv
  <2>2. Sound(f, r, data, Without(promised, name), ch)
    BY <1>1, RemovedSound
  <2>3. CASE Present(name)
    <3>1. fat' = f /\ root' = r /\ data' = data
      BY <1>5, <2>3 DEF RemoveFile
    <3>2. promised' = Without(promised, name)
      BY <1>5, <2>3 DEF RemoveFile, Forget, Without
    <3> HIDE DEF f, r
    <3> QED
      BY <1>4, <2>1, <2>2, <3>1, <3>2
  <2>4. CASE ~Present(name)
    <3>1. fat' = fat /\ root' = root /\ data' = data /\ promised' = promised
      BY <1>5, <2>4 DEF RemoveFile
    <3> QED
      BY <1>1, <1>4, <2>1, <3>1
  <2> QED
    BY <2>3, <2>4
<1>6. ASSUME NEW name \in Names, NEW size \in 0..MaxSize, AddFile(name, size) PROVE IInv'
  <2>1. CallInv' /\ calls' \in Nat
    BY <1>3, <1>6 DEF AddFile, CallInv
  <2>2. CASE ~Present(name) /\ Added(fat, root, name, size) /\ Promise(name, size)
    <3>1. \A s \in UsedIn(root) : root[s].name # name
      BY <1>1, <2>2, SlotFacts
    <3>2. \E ch2 \in [Slots -> Chains] :
            Sound(fat', root', data', With(promised, name, Content(calls', size)), ch2)
      BY <1>1, <2>1, <2>2, <3>1, AddedSound
    <3>3. promised' = With(promised, name, Content(calls', size))
      BY <2>2 DEF Promise, With
    <3> QED
      BY <1>4, <2>1, <3>2, <3>3
  <2>3. CASE UNCHANGED <<image, promised>>
    <3>1. fat' = fat /\ root' = root /\ data' = data /\ promised' = promised
      BY <2>3 DEF image
    <3> QED
      BY <1>1, <1>4, <2>1, <3>1
  <2> QED
    BY <1>6, <2>2, <2>3 DEF AddFile
<1>7. ASSUME NEW name \in Names, NEW size \in 0..MaxSize, ReplaceFile(name, size)
      PROVE  IInv'
  <2> DEFINE f == IF Present(name) THEN FatWithout(name) ELSE fat
             r == IF Present(name) THEN RootWithout(name) ELSE root
             p == Without(promised, name)
  <2>1. CallInv' /\ calls' \in Nat
    BY <1>3, <1>7 DEF ReplaceFile, CallInv
  <2>2. Sound(f, r, data, p, ch) /\ \A s \in UsedIn(r) : r[s].name # name
    BY <1>1, RemovedSound
  <2>3. \/ Added(f, r, name, size) /\ Promise(name, size)
        \/ fat' = f /\ root' = r /\ data' = data /\ Forget(name)
    BY <1>7 DEF ReplaceFile
  <2> HIDE DEF f, r
  <2>4. CASE Added(f, r, name, size) /\ Promise(name, size)
    <3>1. \E ch2 \in [Slots -> Chains] :
            Sound(fat', root', data', With(p, name, Content(calls', size)), ch2)
      <4> HIDE DEF p
      <4> QED
        BY <2>1, <2>2, <2>4, AddedSound
    <3>2. promised' = With(p, name, Content(calls', size))
      <4>1. promised' = [n \in DOMAIN promised \cup {name} |->
                           IF n = name THEN Content(calls', size) ELSE promised[n]]
        BY <2>4 DEF Promise
      <4>2. DOMAIN p = DOMAIN promised \ {name} /\ \A n \in DOMAIN p : p[n] = promised[n]
        BY DEF Without
      <4> HIDE DEF p
      <4>3. DOMAIN p \cup {name} = DOMAIN promised \cup {name}
        BY <4>2
      <4>4. \A n \in DOMAIN promised \cup {name} :
              (IF n = name THEN Content(calls', size) ELSE promised[n])
                = (IF n = name THEN Content(calls', size) ELSE p[n])
        BY <4>2
      <4> QED
        BY <4>1, <4>3, <4>4 DEF With
    <3> HIDE DEF p
    <3> QED
      BY <1>4, <2>1, <3>1, <3>2
  <2>5. CASE fat' = f /\ root' = r /\ data' = data /\ Forget(name)
    <3>1. promised' = p
      BY <2>5 DEF Forget, Without
    <3> HIDE DEF p
    <3> QED
      BY <1>1, <1>4, <2>1, <2>2, <2>5, <3>1
  <2> QED
    BY <2>3, <2>4, <2>5
<1>8. ASSUME UNCHANGED vars PROVE IInv'
  <2>1. /\ fat' = fat /\ root' = root /\ data' = data /\ promised' = promised
        /\ calls' = calls /\ result' = result
    BY <1>8 DEF vars
  <2>2. CallInv'
    BY <1>2, <2>1 DEF CallInv
  <2> QED
    BY <1>1, <1>4, <2>1, <2>2
<1> QED
  BY <1>5, <1>6, <1>7, <1>8 DEF Next, Done

\* The image is sound in every reachable state.
LEMMA Invariance == Spec => []IInv
<1>1. Init => IInv
  BY InitSound
<1>2. IInv /\ [Next]_vars => IInv'
  BY StepSound
<1> QED
  BY <1>1, <1>2, PTL DEF Spec

-----------------------------------------------------------------------------
(***************************************************************************)
(* What holds of a sound image.                                            *)
(***************************************************************************)

\* A chain without repetition has as many clusters as it is long.
LEMMA ElementsCount ==
  ASSUME NEW chain \in Chains, Injected(chain)
  PROVE  Cardinality(Elements(chain)) = Len(chain)
<1> DEFINE n == Len(chain)
           E == Elements(chain)
<1>1. n \in Nat /\ 1 \in Int /\ n \in Int /\ DOMAIN chain = 1..n
  BY ChainType
<1>2. IsFiniteSet(1..n) /\ Cardinality(1..n) = n
  <2>0. PICK m \in Int : m = n
    BY <1>1
  <2>1. IsFiniteSet(1..m) /\ Cardinality(1..m) = (IF 1 > m THEN 0 ELSE m - 1 + 1)
    BY <1>1, FS_Interval, Zenon
  <2> QED
    BY <1>1, <2>0, <2>1
<1>3. chain \in [1..n -> E] /\ E = {chain[i] : i \in 1..n}
  BY <1>1 DEF Elements, Chains
<1> HIDE DEF n, E
<1>4. chain \in Bijection(1..n, E)
  <2>1. \A i, j \in 1..n : chain[i] = chain[j] => i = j
    BY <1>1 DEF Injected
  <2>2. \A e \in E : \E i \in 1..n : chain[i] = e
    BY <1>3
  <2> QED
    BY <1>3, <2>1, <2>2 DEF Bijection, Injection, Surjection, IsInjective
<1>5. Cardinality(E) = Cardinality(1..n)
  BY <1>2, <1>4, FS_Bijection DEF ExistsBijection
<1> QED
  BY <1>2, <1>5 DEF n, E

\* What the properties say of the slots is what the invariant says.
LEMMA UsedFacts ==
  ASSUME NEW ch \in [Slots -> Chains], Sound(fat, root, data, promised, ch)
  PROVE  /\ Used = UsedIn(root)
         /\ \A s \in Used : /\ ch[s] \in Chains /\ ChainOf(s) = ch[s]
                            /\ ClustersOf(s) = Elements(ch[s])
<1>1. root \in Roots /\ ChainsSound(fat, root, ch)
  BY DEF Sound
<1>2. Used = UsedIn(root)
  BY DEF Used, UsedIn
<1>3. ASSUME NEW s \in Used
      PROVE  /\ ch[s] \in Chains /\ ChainOf(s) = ch[s]
             /\ ClustersOf(s) = Elements(ch[s])
  <2>1. ch[s] \in Chains /\ ChainOf(s) = ch[s]
    BY <1>1, <1>2, ChainOfUsed DEF ChainOf
  <2>2. DOMAIN ch[s] = 1..Len(ch[s])
    BY <2>1, ChainType
  <2> QED
    BY <2>1, <2>2 DEF ClustersOf, Elements
<1> QED
  BY <1>2, <1>3

LEMMA TypeFollows == IInv => TypeOK
<1> SUFFICES ASSUME IInv PROVE TypeOK
  OBVIOUS
<1>1. PICK ch \in [Slots -> Chains] : Sound(fat, root, data, promised, ch)
  BY DEF IInv
<1>2. fat \in [1..FatCopies -> [FatBytes -> 0..255]]
  BY <1>1 DEF Sound, Fats, Copies, Byte
<1>3. root \in Roots /\ data \in Datas
  BY <1>1 DEF Sound
<1>4. ASSUME NEW s \in Slots
      PROVE  root[s] \in {Never, Deleted}
               \cup {Entry(n, f, z) : n \in Names, f \in ClusterNumbers, z \in 1..MaxSize}
  <2>1. root[s] \in {Never, Deleted} \cup Entries
    BY <1>3 DEF Roots
  <2>2. CASE root[s] \in Entries
    <3>1. PICK n \in Names, f \in ClusterNumbers, z \in 1..MaxSize :
            root[s] = [kind |-> "used", name |-> n, first |-> f, size |-> z]
      BY <2>2 DEF Entries
    <3> QED
      BY <3>1 DEF Entry
  <2> QED
    BY <2>1, <2>2
<1>5. DOMAIN data = ClusterNumbers /\ \A c \in ClusterNumbers : DOMAIN data[c] = 1..ClusterSize
  BY <1>3 DEF Datas
<1>6. DOMAIN promised \subseteq Names
  <2>1. DOMAIN promised = {root[s].name : s \in UsedIn(root)}
    BY <1>1 DEF Sound, FilesSound
  <2> QED
    BY <1>3, <2>1, UsedEntry
<1> QED
  BY <1>2, <1>4, <1>5, <1>6 DEF TypeOK, IInv, CallInv

LEMMA TableFollows == IInv => TableExact
<1> SUFFICES ASSUME IInv PROVE TableExact
  OBVIOUS
<1>1. PICK ch \in [Slots -> Chains] : Sound(fat, root, data, promised, ch)
  BY DEF IInv
<1>2. /\ Used = UsedIn(root)
      /\ \A s \in Used : /\ ch[s] \in Chains /\ ChainOf(s) = ch[s]
                         /\ ClustersOf(s) = Elements(ch[s])
  BY <1>1, UsedFacts
<1>3. ChainsSound(fat, root, ch)
  BY <1>1 DEF Sound
<1>4. ASSUME NEW s \in Used
      PROVE  /\ Len(ChainOf(s)) = NeededClusters(root[s].size)
             /\ Cardinality(ClustersOf(s)) = Len(ChainOf(s))
             /\ ReadFat(fat, ChainOf(s)[Len(ChainOf(s))]) = EOC
  <2>1. /\ Linked(fat, root[s].first, ch[s]) /\ Injected(ch[s])
        /\ Len(ch[s]) = NeededClusters(root[s].size)
    BY <1>2, <1>3 DEF ChainsSound
  <2>2. Cardinality(Elements(ch[s])) = Len(ch[s])
    BY <1>2, <2>1, ElementsCount
  <2> QED
    BY <1>2, <2>1, <2>2 DEF Linked
<1>5. \A s, t \in Used : s # t => ClustersOf(s) \cap ClustersOf(t) = {}
  BY <1>2, <1>3 DEF ChainsSound
<1>6. \A c \in ClusterNumbers :
        ReadFat(fat, c) # 0 => \E s \in Used : c \in ClustersOf(s)
  BY <1>2, <1>3 DEF ChainsSound
<1> QED
  BY <1>4, <1>5, <1>6 DEF TableExact

LEMMA FilesFollow == IInv => FilesReadBack
<1> SUFFICES ASSUME IInv PROVE FilesReadBack
  OBVIOUS
<1>1. PICK ch \in [Slots -> Chains] : Sound(fat, root, data, promised, ch)
  BY DEF IInv
<1>2. /\ Used = UsedIn(root)
      /\ \A s \in Used : ch[s] \in Chains /\ ChainOf(s) = ch[s]
  BY <1>1, UsedFacts
<1>3. /\ root \in Roots /\ ChainsSound(fat, root, ch) /\ FilesSound(root, data, promised, ch)
  BY <1>1 DEF Sound
<1>4. DOMAIN promised \subseteq Names
  BY <1>3, UsedEntry DEF FilesSound
<1>5. {n \in Names : Present(n)} = DOMAIN promised
  BY <1>1, <1>4, SlotFacts
<1>6. ASSUME NEW n \in DOMAIN promised PROVE ReadFile(n) = promised[n]
  <2> DEFINE s == SlotOf(n)
             z == root[s].size
             there == Len(ch[s]) * ClusterSize
  <2>1. s \in UsedIn(root) /\ root[s].name = n
    BY <1>1, <1>4, SlotFacts
  <2> HIDE DEF s
  <2>2. z \in Nat \ {0} /\ Len(ch[s]) = NeededClusters(z)
    BY <1>3, <2>1, UsedEntry DEF ChainsSound
  <2>3. z <= there
    BY <2>2, NeededFacts
  <2>4. (IF there < z THEN there ELSE z) = z
    <3>1. Len(ch[s]) \in Nat
      BY <1>2, <2>1, ChainType
    <3>2. there \in Nat
      BY <3>1, LayoutAssumption
    <3> HIDE DEF there, z
    <3> QED
      BY <2>2, <2>3, <3>2
  <2>5. ReadFile(n) = [k \in 1..(IF there < z THEN there ELSE z) |-> At(data, ch[s], k)]
    <3>1. ChainFrom(fat, root[s].first) = ch[s]
      BY <1>2, <2>1 DEF ChainOf
    <3> QED
      BY <3>1 DEF ReadFile, At, s
  <2>6. promised[n] = [k \in 1..z |-> At(data, ch[s], k)]
    BY <1>3, <2>1 DEF FilesSound
  <2> QED
    BY <2>4, <2>5, <2>6
<1> QED
  BY <1>5, <1>6 DEF FilesReadBack

-----------------------------------------------------------------------------
(***************************************************************************)
(* The theorems.                                                           *)
(***************************************************************************)

\* ntxp_floppy.rs keeps a FAT12 image: tables of bytes, entries that are never
\* used, deleted, or name a data cluster and a size.
THEOREM TypeCorrect == Spec => []TypeOK
BY Invariance, TypeFollows, PTL

\* write_fat12_all: the copies of the allocation table never differ, whatever
\* calls were made.
THEOREM CopiesAlwaysAgree == Spec => []CopiesAgree
<1>1. IInv => CopiesAgree
  BY DEF IInv, Sound, Fats, CopiesAgree
<1> QED
  BY <1>1, Invariance, PTL

\* add_file, remove_file and replace_file: the chains of the files are as long
\* as the files need, end in an end mark, share no cluster, and no cluster is
\* marked that belongs to no file, although two entries share a byte.
THEOREM TableAlwaysExact == Spec => []TableExact
BY Invariance, TableFollows, PTL

\* Every file reads back as the last call that succeeded left it, and no other
\* file is there, for images of any size and any sequence of calls.
THEOREM FilesAlwaysReadBack == Spec => []FilesReadBack
BY Invariance, FilesFollow, PTL
=============================================================================
