-------------------------- MODULE Slipstream_proofs --------------------------
(***************************************************************************)
(* Theorems about Slipstream, for every pack, every pair of manifests and  *)
(* every set of files.                                                     *)
(***************************************************************************)
EXTENDS Slipstream, SequenceTheorems, WellFoundedInduction, TLAPS

-----------------------------------------------------------------------------
(***************************************************************************)
(* Induction, with a set for the predicate, and definition by recursion,   *)
(* with a function for the step.                                           *)
(***************************************************************************)

\* A set of numbers has a least element.
LEMMA LeastElement ==
  ASSUME NEW S \in SUBSET Nat, S # {}
  PROVE  \E m \in S : \A k \in S : m <= k
<1>1. PICK m \in S : \A k \in S : ~(<<k, m>> \in OpToRel(<, Nat))
  BY NatLessThanWellFounded, WFMin
<1>2. ASSUME NEW k \in S PROVE m <= k
  <2>1. ~(<<k, m>> \in OpToRel(<, Nat))
    BY <1>1
  <2> QED
    BY <2>1 DEF OpToRel
<1> QED
  BY <1>2

\* What holds of 0, and of every number with its predecessor, holds up to n.
LEMMA IntervalInduction ==
  ASSUME NEW n \in Nat, NEW T, 0 \in T, \A i \in 1..n : i - 1 \in T => i \in T
  PROVE  \A i \in 0..n : i \in T
<1> DEFINE Bad == {i \in 0..n : i \notin T}
<1>1. SUFFICES ASSUME Bad # {} PROVE FALSE
  OBVIOUS
<1>2. Bad \in SUBSET Nat
  OBVIOUS
<1>3. PICK m \in Bad : \A k \in Bad : m <= k
  BY <1>1, <1>2, LeastElement
<1>4. m \in 1..n /\ m - 1 \in 0..n /\ m - 1 \notin Bad
  BY <1>3
<1> QED
  BY <1>3, <1>4

\* A function that starts with a value and goes on by steps exists.
StepsOn(V, n) == [1..n -> [V -> V]]

Follows(f, V, n, start, step) ==
  /\ f \in [0..n -> V]
  /\ f[0] = start
  /\ \A i \in 1..n : f[i] = step[i][f[i - 1]]

LEMMA Recursion ==
  ASSUME NEW V, NEW n \in Nat, NEW start \in V, NEW step \in StepsOn(V, n)
  PROVE  \E f : Follows(f, V, n, start, step)
<1> USE DEF StepsOn
<1> DEFINE Upto(f, k) == f[0] = start /\ \A i \in 1..k : f[i] = step[i][f[i - 1]]
           T == {k \in 0..n : \E f \in [0..k -> V] : Upto(f, k)}
<1>1. 0 \in T
  <2> DEFINE f == [i \in 0..0 |-> start]
  <2>1. f \in [0..0 -> V] /\ f[0] = start
    OBVIOUS
  <2>2. Upto(f, 0)
    BY <2>1
  <2> HIDE DEF f, Upto
  <2>3. \E h \in [0..0 -> V] : Upto(h, 0)
    BY <2>1, <2>2
  <2> QED
    BY <2>3
<1>2. ASSUME NEW k \in 1..n, k - 1 \in T PROVE k \in T
  <2>1. PICK f \in [0..(k - 1) -> V] : Upto(f, k - 1)
    BY <1>2
  <2> DEFINE g == [i \in 0..k |-> IF i = k THEN step[k][f[k - 1]] ELSE f[i]]
  <2>2. g \in [0..k -> V]
    BY <2>1
  <2>3. ASSUME NEW i \in 1..k PROVE g[i] = step[i][g[i - 1]]
    <3>1. CASE i = k
      BY <3>1
    <3>2. CASE i # k
      BY <2>1, <3>2
    <3> QED
      BY <3>1, <3>2
  <2>4. Upto(g, k)
    BY <2>1, <2>3
  <2> HIDE DEF g, Upto
  <2>5. \E h \in [0..k -> V] : Upto(h, k)
    BY <2>2, <2>4
  <2> QED
    BY <2>5
<1> HIDE DEF T
<1>3. \A k \in 0..n : k \in T
  BY <1>1, <1>2, IntervalInduction
<1> QED
  BY <1>3 DEF T, Upto, Follows

-----------------------------------------------------------------------------
(***************************************************************************)
(* What a filter and a concatenation compute.                              *)
(***************************************************************************)

\* The steps of a filter.
Choosing(c, s, I, W) ==
  /\ c \in [0..Len(s) -> Seq(W)] /\ c[0] = <<>>
  /\ \A i \in 1..Len(s) : c[i] = IF i \in I THEN Append(c[i - 1], s[i]) ELSE c[i - 1]

LEMMA ChosenSteps ==
  ASSUME NEW V, NEW s \in Seq(V), NEW I,
         NEW W, \A i \in 1..Len(s) : i \in I => s[i] \in W
  PROVE  \E c : Choosing(c, s, I, W) /\ Chosen(s, I) = c[Len(s)]
<1> DEFINE n == Len(s)
           Go(v, i) == IF i \in I THEN Append(v, s[i]) ELSE v
           Step(c, i) == IF i = 0 THEN <<>> ELSE Go(c[i - 1], i)
           step == [i \in 1..n |-> [v \in Seq(W) |-> Go(v, i)]]
<1>1. n \in Nat /\ <<>> \in Seq(W) /\ \A i \in 1..n : i \in I => s[i] \in W
  OBVIOUS
<1>2. ASSUME NEW i \in 1..n, NEW v \in Seq(W) PROVE Go(v, i) \in Seq(W)
  BY <1>1
<1>3. step \in StepsOn(Seq(W), n) /\ \A i \in 1..n, v \in Seq(W) : step[i][v] = Go(v, i)
  <2> HIDE DEF Go
  <2> QED
    BY <1>2 DEF StepsOn
<1> HIDE DEF step, n
<1>4. PICK h : Follows(h, Seq(W), n, <<>>, step)
  BY <1>1, <1>3, Recursion
<1>5. /\ h \in [0..n -> Seq(W)] /\ h[0] = <<>>
      /\ \A i \in 1..n : h[i] = Go(h[i - 1], i)
  <2>1. ASSUME NEW i \in 1..n PROVE h[i] = Go(h[i - 1], i)
    <3>1. i - 1 \in 0..n
      BY <1>1
    <3>2. h[i - 1] \in Seq(W) /\ h[i] = step[i][h[i - 1]]
      BY <1>4, <3>1 DEF Follows
    <3> HIDE DEF Go
    <3> QED
      BY <1>3, <3>2
  <2> QED
    BY <1>4, <2>1 DEF Follows
<1>6. h = [i \in 0..n |-> Step(h, i)]
  <2>1. \A i \in 0..n : h[i] = Step(h, i)
    <3> HIDE DEF Go
    <3> QED
      BY <1>1, <1>5
  <2> HIDE DEF Step
  <2> QED
    BY <1>5, <2>1
<1> DEFINE c == CHOOSE u : u = [i \in 0..n |-> Step(u, i)]
<1>7. c = [i \in 0..n |-> Step(c, i)]
  <2> HIDE DEF Step
  <2> QED
    BY <1>6
<1>8. Chosen(s, I) = c[n]
  BY DEF Chosen, n
<1> HIDE DEF c, Go
<1>9. c[0] = <<>> /\ \A i \in 1..n : c[i] = Go(c[i - 1], i)
  BY <1>1, <1>7
<1> DEFINE T == {i \in 0..n : c[i] \in Seq(W)}
<1>10. \A i \in 0..n : i \in T
  <2> HIDE DEF Step
  <2>1. 0 \in T
    <3>1. c[0] \in Seq(W) /\ 0 \in 0..n
      BY <1>1, <1>9
    <3> QED
      BY <3>1
  <2>2. ASSUME NEW i \in 1..n, i - 1 \in T PROVE i \in T
    <3>1. i \in 0..n /\ c[i - 1] \in Seq(W)
      BY <1>1, <2>2
    <3>2. c[i] \in Seq(W)
      BY <1>2, <1>9, <3>1
    <3> QED
      BY <3>1, <3>2
  <2> HIDE DEF T
  <2> QED
    BY <1>1, <2>1, <2>2, IntervalInduction
<1>11. c \in [0..n -> Seq(W)]
  <2>1. \A i \in 0..n : c[i] \in Seq(W)
    BY <1>10
  <2> HIDE DEF Step
  <2> QED
    BY <1>7, <2>1
<1>12. Choosing(c, s, I, W)
  BY <1>9, <1>11 DEF Choosing, Go, n
<1> QED
  BY <1>8, <1>12 DEF n

\* What a filter keeps is what its places hold.
LEMMA ChosenType ==
  ASSUME NEW V, NEW s \in Seq(V), NEW I,
         NEW W, \A i \in 1..Len(s) : i \in I => s[i] \in W
  PROVE  Chosen(s, I) \in Seq(W)
<1>1. PICK c : Choosing(c, s, I, W) /\ Chosen(s, I) = c[Len(s)]
  BY ChosenSteps, Zenon
<1> QED
  BY <1>1 DEF Choosing

\* The filter of a longer sequence goes on from that of the shorter one.
LEMMA ChosenAppend ==
  ASSUME NEW V, NEW s \in Seq(V), NEW e \in V, NEW I, NEW J,
         \A i \in 1..Len(s) : i \in I <=> i \in J
  PROVE  Chosen(Append(s, e), J) =
           IF Len(s) + 1 \in J THEN Append(Chosen(s, I), e) ELSE Chosen(s, I)
<1> DEFINE n == Len(s)
           t == Append(s, e)
<1>1. /\ n \in Nat /\ t \in Seq(V) /\ Len(t) = n + 1 /\ t[n + 1] = e
      /\ \A i \in 1..n : t[i] = s[i] /\ s[i] \in V
      /\ \A i \in 1..(n + 1) : t[i] \in V
  OBVIOUS
<1>2. PICK c : Choosing(c, s, I, V) /\ Chosen(s, I) = c[n]
  BY <1>1, ChosenSteps
<1> HIDE DEF t
<1>3. PICK d : Choosing(d, t, J, V) /\ Chosen(t, J) = d[n + 1]
  BY <1>1, ChosenSteps
<1> DEFINE T == {i \in 0..n : d[i] = c[i]}
<1>4. \A i \in 0..n : i \in T
  <2>1. 0 \in T
    BY <1>1, <1>2, <1>3 DEF Choosing
  <2>2. ASSUME NEW i \in 1..n, i - 1 \in T PROVE i \in T
    <3>1. i \in 1..(n + 1) /\ i \in 0..n /\ t[i] = s[i] /\ (i \in I <=> i \in J)
      BY <1>1
    <3>2. d[i] = IF i \in J THEN Append(d[i - 1], t[i]) ELSE d[i - 1]
      BY <1>1, <1>3, <3>1 DEF Choosing
    <3>3. c[i] = IF i \in I THEN Append(c[i - 1], s[i]) ELSE c[i - 1]
      BY <1>2 DEF Choosing
    <3> QED
      BY <2>2, <3>1, <3>2, <3>3
  <2> HIDE DEF T
  <2> QED
    BY <1>1, <2>1, <2>2, IntervalInduction
<1>5. d[n] = c[n]
  BY <1>1, <1>4
<1>6. d[n + 1] = IF n + 1 \in J THEN Append(d[n], e) ELSE d[n]
  <2>1. n + 1 \in 1..Len(t) /\ (n + 1) - 1 = n
    BY <1>1
  <2>2. d[n + 1] = IF n + 1 \in J THEN Append(d[(n + 1) - 1], t[n + 1]) ELSE d[(n + 1) - 1]
    BY <1>3, <2>1 DEF Choosing
  <2> QED
    BY <1>1, <2>1, <2>2
<1> QED
  BY <1>2, <1>3, <1>5, <1>6 DEF t

\* The steps of a concatenation.
Joining(f, ss, V) ==
  /\ f \in [0..Len(ss) -> Seq(V)] /\ f[0] = <<>>
  /\ \A i \in 1..Len(ss) : f[i] = f[i - 1] \o ss[i]

LEMMA FlattenSteps ==
  ASSUME NEW V, NEW ss \in Seq(Seq(V))
  PROVE  \E f : Joining(f, ss, V) /\ FlattenSeq(ss) = f[Len(ss)]
<1> DEFINE n == Len(ss)
           step == [i \in 1..n |-> [v \in Seq(V) |-> v \o ss[i]]]
           Step(f, i) == IF i = 1 THEN ss[i] ELSE f[i - 1] \o ss[i]
<1>1. n \in Nat /\ <<>> \in Seq(V) /\ \A i \in 1..n : ss[i] \in Seq(V)
  OBVIOUS
<1>2. step \in StepsOn(Seq(V), n) /\ \A i \in 1..n, v \in Seq(V) : step[i][v] = v \o ss[i]
  BY <1>1 DEF StepsOn
<1> HIDE DEF step, n
<1>3. PICK h : Follows(h, Seq(V), n, <<>>, step)
  BY <1>1, <1>2, Recursion
<1>4. /\ h \in [0..n -> Seq(V)] /\ h[0] = <<>>
      /\ \A i \in 1..n : h[i] = h[i - 1] \o ss[i]
  <2>1. ASSUME NEW i \in 1..n PROVE h[i] = h[i - 1] \o ss[i]
    <3>1. i - 1 \in 0..n
      BY <1>1
    <3>2. h[i - 1] \in Seq(V) /\ h[i] = step[i][h[i - 1]]
      BY <1>3, <3>1 DEF Follows
    <3> QED
      BY <1>2, <3>2
  <2> QED
    BY <1>3, <2>1 DEF Follows
<1>5. CASE n = 0
  <2>1. FlattenSeq(ss) = ss /\ ss = <<>>
    BY <1>1, <1>5 DEF FlattenSeq, n
  <2>2. h[n] = <<>>
    BY <1>4, <1>5
  <2>3. Joining(h, ss, V)
    BY <1>4 DEF Joining, n
  <2> QED
    BY <2>1, <2>2, <2>3 DEF n
<1>6. CASE n # 0
  <2> DEFINE u == [i \in 1..n |-> h[i]]
             g == CHOOSE v : v = [i \in 1..n |-> Step(v, i)]
  <2>1. u = [i \in 1..n |-> Step(u, i)]
    <3>1. ASSUME NEW i \in 1..n PROVE u[i] = Step(u, i)
      <4>1. CASE i = 1
        <5>1. h[i] = h[i - 1] \o ss[i]
          BY <1>4
        <5>2. i - 1 = 0 /\ ss[i] \in Seq(V)
          BY <1>1, <4>1
        <5>3. h[i - 1] = <<>>
          BY <1>4, <5>2
        <5>4. <<>> \o ss[i] = ss[i]
          BY <5>2
        <5> QED
          BY <4>1, <5>1, <5>3, <5>4
      <4>2. CASE i # 1
        <5>1. h[i] = h[i - 1] \o ss[i]
          BY <1>4
        <5>2. i - 1 \in 1..n
          BY <1>1, <4>2
        <5> QED
          BY <4>2, <5>1, <5>2
      <4> QED
        BY <4>1, <4>2
    <3> HIDE DEF Step
    <3> QED
      BY <3>1
  <2>2. g = [i \in 1..n |-> Step(g, i)]
    <3> HIDE DEF Step, u
    <3> QED
      BY <2>1
  <2>3. FlattenSeq(ss) = g[n]
    BY <1>6 DEF FlattenSeq, n
  <2> HIDE DEF g
  <2>4. \A i \in 1..n : g[i] = Step(g, i)
    <3> HIDE DEF Step
    <3> QED
      BY <2>2
  <2> DEFINE T == {i \in 0..n : i = 0 \/ g[i] = h[i]}
  <2>5. \A i \in 0..n : i \in T
    <3>1. 0 \in T
      BY <1>1
    <3>2. ASSUME NEW i \in 1..n, i - 1 \in T PROVE i \in T
      <4>1. u[i] = Step(u, i) /\ u[i] = h[i]
        <5> HIDE DEF Step
        <5> QED
          BY <2>1
      <4>2. CASE i = 1
        <5>1. g[i] = ss[i] /\ u[i] = ss[i]
          BY <2>4, <4>1, <4>2
        <5> QED
          BY <1>1, <4>1, <5>1
      <4>3. CASE i # 1
        <5>1. i \in 0..n /\ i - 1 # 0
          BY <1>1, <4>3
        <5>2. g[i - 1] = h[i - 1]
          BY <3>2, <5>1
        <5>3. g[i] = g[i - 1] \o ss[i]
          BY <2>4, <4>3
        <5>4. h[i] = h[i - 1] \o ss[i]
          BY <1>4
        <5> QED
          BY <5>1, <5>2, <5>3, <5>4
      <4> QED
        BY <4>2, <4>3
    <3> HIDE DEF T
    <3> QED
      BY <1>1, <3>1, <3>2, IntervalInduction
  <2>6. g[n] = h[n]
    BY <1>1, <1>6, <2>5
  <2>7. Joining(h, ss, V)
    BY <1>4 DEF Joining, n
  <2> QED
    BY <2>3, <2>6, <2>7 DEF n
<1> QED
  BY <1>5, <1>6

LEMMA FlattenType ==
  ASSUME NEW V, NEW ss \in Seq(Seq(V))
  PROVE  FlattenSeq(ss) \in Seq(V)
<1>1. PICK f : Joining(f, ss, V) /\ FlattenSeq(ss) = f[Len(ss)]
  BY FlattenSteps
<1> QED
  BY <1>1 DEF Joining

\* What stands at a place that is chosen is kept.
LEMMA ChosenElements ==
  ASSUME NEW V, NEW s \in Seq(V), NEW I, NEW i \in 1..Len(s), i \in I
  PROVE  s[i] \in ToSet(Chosen(s, I))
<1> DEFINE n == Len(s)
<1>1. n \in Nat /\ \A k \in 1..n : s[k] \in V
  OBVIOUS
<1>2. PICK c : Choosing(c, s, I, V) /\ Chosen(s, I) = c[n]
  BY <1>1, ChosenSteps
<1>3. /\ \A k \in 0..n : c[k] \in Seq(V)
      /\ \A k \in 1..n : c[k] = IF k \in I THEN Append(c[k - 1], s[k]) ELSE c[k - 1]
  BY <1>2 DEF Choosing
<1> DEFINE Holds(k) == s[i] \in ToSet(c[k])
           T == {k \in 0..n : k < i \/ Holds(k)}
<1> HIDE DEF n
<1>4. ASSUME NEW r \in Seq(V), NEW x \in V
      PROVE  /\ \A y \in ToSet(r) : y \in ToSet(Append(r, x))
             /\ x \in ToSet(Append(r, x))
  <2>1. /\ DOMAIN r = 1..Len(r) /\ Len(r) \in Nat
        /\ DOMAIN Append(r, x) = 1..(Len(r) + 1) /\ Append(r, x)[Len(r) + 1] = x
        /\ \A k \in 1..Len(r) : Append(r, x)[k] = r[k]
    OBVIOUS
  <2> QED
    BY <2>1 DEF ToSet
<1>5. 0 \in T
  BY <1>1 DEF n
<1>6. ASSUME NEW k \in 1..n, k - 1 \in T PROVE k \in T
  <2>1. k \in 0..n /\ k - 1 \in 0..n /\ c[k - 1] \in Seq(V) /\ s[k] \in V
    <3>1. k \in 0..n /\ k - 1 \in 0..n
      BY <1>1
    <3> QED
      BY <1>1, <1>3, <3>1
  <2>2. CASE k = i
    <3>1. c[k] = Append(c[k - 1], s[k])
      BY <1>3, <2>2
    <3>2. Holds(k)
      BY <1>4, <2>1, <2>2, <3>1
    <3> HIDE DEF Holds
    <3> QED
      BY <2>1, <3>2
  <2>3. CASE k # i /\ Holds(k - 1)
    <3>1. s[i] \in ToSet(c[k - 1])
      BY <2>3
    <3>2. Holds(k)
      BY <1>3, <1>4, <2>1, <3>1
    <3> HIDE DEF Holds
    <3> QED
      BY <2>1, <3>2
  <2>4. CASE k # i /\ ~Holds(k - 1)
    <3>1. k - 1 < i
      BY <1>6, <2>4
    <3>2. k < i
      BY <1>1, <2>4, <3>1 DEF n
    <3> QED
      BY <2>1, <3>2
  <2> QED
    BY <2>2, <2>3, <2>4
<1>7. \A k \in 0..n : k \in T
  <2> HIDE DEF T
  <2> QED
    BY <1>1, <1>5, <1>6, IntervalInduction
<1>8. n \in T /\ ~(n < i)
  BY <1>1, <1>7 DEF n
<1> QED
  BY <1>2, <1>8

\* A concatenation has what its parts have.
LEMMA FlattenElements ==
  ASSUME NEW V, NEW ss \in Seq(Seq(V)), NEW i \in 1..Len(ss), NEW x \in ToSet(ss[i])
  PROVE  x \in ToSet(FlattenSeq(ss))
<1> DEFINE n == Len(ss)
<1>1. n \in Nat /\ \A k \in 1..n : ss[k] \in Seq(V)
  OBVIOUS
<1>2. PICK f : Joining(f, ss, V) /\ FlattenSeq(ss) = f[n]
  BY FlattenSteps
<1>3. /\ \A k \in 0..n : f[k] \in Seq(V)
      /\ \A k \in 1..n : f[k] = f[k - 1] \o ss[k]
  BY <1>2 DEF Joining
<1> DEFINE Holds(k) == x \in ToSet(f[k])
           T == {k \in 0..n : k < i \/ Holds(k)}
<1> HIDE DEF n
<1>4. ASSUME NEW r \in Seq(V), NEW t \in Seq(V)
      PROVE  ToSet(r) \cup ToSet(t) \subseteq ToSet(r \o t)
  <2>1. /\ DOMAIN r = 1..Len(r) /\ Len(r) \in Nat
        /\ DOMAIN t = 1..Len(t) /\ Len(t) \in Nat
        /\ DOMAIN (r \o t) = 1..(Len(r) + Len(t))
        /\ \A k \in 1..Len(r) : (r \o t)[k] = r[k]
        /\ \A k \in 1..Len(t) : (r \o t)[Len(r) + k] = t[k]
    OBVIOUS
  <2>2. ASSUME NEW k \in 1..Len(t) PROVE Len(r) + k \in 1..(Len(r) + Len(t))
    BY <2>1
  <2>3. ASSUME NEW k \in 1..Len(r) PROVE k \in 1..(Len(r) + Len(t))
    BY <2>1
  <2>4. ASSUME NEW y \in ToSet(r) PROVE y \in ToSet(r \o t)
    <3>1. PICK k \in 1..Len(r) : y = r[k]
      BY <2>1 DEF ToSet
    <3>2. k \in DOMAIN (r \o t) /\ (r \o t)[k] = y
      BY <2>1, <2>3, <3>1
    <3> QED
      BY <3>2, Zenon DEF ToSet
  <2>5. ASSUME NEW y \in ToSet(t) PROVE y \in ToSet(r \o t)
    <3>1. PICK k \in 1..Len(t) : y = t[k]
      BY <2>1 DEF ToSet
    <3>2. Len(r) + k \in DOMAIN (r \o t) /\ (r \o t)[Len(r) + k] = y
      BY <2>1, <2>2, <3>1
    <3> QED
      BY <3>2, Zenon DEF ToSet
  <2> QED
    BY <2>4, <2>5
<1>5. 0 \in T
  BY <1>1 DEF n
<1>6. ASSUME NEW k \in 1..n, k - 1 \in T PROVE k \in T
  <2>1. /\ k \in 0..n /\ k - 1 \in 0..n
        /\ f[k - 1] \in Seq(V) /\ ss[k] \in Seq(V) /\ f[k] = f[k - 1] \o ss[k]
    <3>1. k \in 0..n /\ k - 1 \in 0..n
      BY <1>1
    <3> QED
      BY <1>1, <1>3, <3>1
  <2>2. ToSet(f[k - 1]) \cup ToSet(ss[k]) \subseteq ToSet(f[k])
    BY <1>4, <2>1
  <2>3. CASE k = i \/ Holds(k - 1)
    <3>1. Holds(k)
      BY <2>2, <2>3
    <3> HIDE DEF Holds
    <3> QED
      BY <2>1, <3>1
  <2>4. CASE k # i /\ ~Holds(k - 1)
    <3>1. k - 1 < i
      BY <1>6, <2>4
    <3>2. k < i
      BY <1>1, <2>4, <3>1 DEF n
    <3> QED
      BY <2>1, <3>2
  <2> QED
    BY <2>3, <2>4
<1>7. \A k \in 0..n : k \in T
  <2> HIDE DEF T
  <2> QED
    BY <1>1, <1>5, <1>6, IntervalInduction
<1>8. n \in T /\ ~(n < i)
  BY <1>1, <1>7 DEF n
<1> QED
  BY <1>2, <1>8

\* Of equal elements one stays.
LEMMA DistinctElements ==
  ASSUME NEW V, NEW s \in Seq(V), NEW x \in ToSet(s)
  PROVE  x \in ToSet(Distinct(s))
<1> DEFINE P == {i \in 1..Len(s) : s[i] = x}
           I == {i \in DOMAIN s : \A j \in 1..(i - 1) : s[j] # s[i]}
<1>1. Len(s) \in Nat /\ DOMAIN s = 1..Len(s)
  OBVIOUS
<1>2. P \in SUBSET Nat /\ P # {}
  BY <1>1 DEF ToSet
<1>3. PICK i \in P : \A k \in P : i <= k
  BY <1>2, LeastElement
<1>4. i \in 1..Len(s) /\ s[i] = x
  BY <1>3
<1>5. ASSUME NEW j \in 1..(i - 1) PROVE s[j] # s[i]
  <2>1. j \in 1..Len(s) /\ ~(i <= j)
    BY <1>1, <1>4
  <2> QED
    BY <1>3, <1>4, <2>1
<1>6. i \in I
  BY <1>1, <1>4, <1>5
<1> HIDE DEF I, P
<1>7. s[i] \in ToSet(Chosen(s, I))
  BY <1>4, <1>6, ChosenElements
<1> QED
  BY <1>4, <1>7 DEF Distinct, I

-----------------------------------------------------------------------------
(***************************************************************************)
(* What the slipstream reads from a pack is sequences.                     *)
(***************************************************************************)

LEMMA FilterType ==
  ASSUME NEW V, NEW s \in Seq(V), NEW I
  PROVE  Chosen(s, I) \in Seq(V)
<1>1. \A i \in 1..Len(s) : i \in I => s[i] \in V
  OBVIOUS
<1> QED
  BY <1>1, ChosenType

LEMMA SequenceOf ==
  ASSUME NEW V, NEW s \in Seq(V)
  PROVE  IsSequence(s) /\ \A x \in ToSet(s) : x \in V
<1>1. /\ Len(s) \in Nat /\ DOMAIN s = 1..Len(s)
      /\ s \in [1..Len(s) -> V]
  OBVIOUS
<1>2. s \in [1..Len(s) -> ToSet(s)] /\ \A x \in ToSet(s) : x \in V
  BY <1>1 DEF ToSet
<1>3. s \in Seq(ToSet(s))
  BY <1>1, <1>2
<1> QED
  BY <1>2, <1>3 DEF IsSequence

SectionsSound(pack) ==
  IsSequence(pack) /\ \A i \in DOMAIN pack : IsSequence(pack[i].lines)

LinesIn(pack) == UNION {ToSet(sec.lines) : sec \in ToSet(pack)}

LEMMA LinesType ==
  ASSUME NEW pack, SectionsSound(pack), NEW kind
  PROVE  LinesOf(OfKind(pack, kind)) \in Seq(LinesIn(pack))
<1> DEFINE P == ToSet(pack)
           S == OfKind(pack, kind)
           ss == [i \in DOMAIN S |-> S[i].lines]
<1>1. pack \in Seq(P)
  BY DEF SectionsSound, IsSequence
<1>2. S \in Seq(P)
  BY <1>1, FilterType DEF OfKind, Filtered
<1>3. \A sec \in P : sec.lines \in Seq(LinesIn(pack))
  <2>1. ASSUME NEW sec \in P PROVE sec.lines \in Seq(LinesIn(pack))
    <3>1. PICK i \in DOMAIN pack : sec = pack[i]
      BY DEF ToSet
    <3>2. sec.lines \in Seq(ToSet(sec.lines))
      BY <3>1 DEF SectionsSound, IsSequence
    <3>3. ToSet(sec.lines) \subseteq LinesIn(pack)
      BY DEF LinesIn
    <3> QED
      BY <3>2, <3>3
  <2> QED
    BY <2>1
<1> HIDE DEF P, S
<1>4. Len(S) \in Nat /\ DOMAIN S = 1..Len(S) /\ \A i \in DOMAIN S : S[i] \in P
  BY <1>2
<1>5. ss \in [1..Len(S) -> Seq(LinesIn(pack))]
  BY <1>3, <1>4
<1>6. ss \in Seq(Seq(LinesIn(pack)))
  BY <1>4, <1>5
<1> HIDE DEF ss
<1>7. FlattenSeq(ss) \in Seq(LinesIn(pack))
  BY <1>6, FlattenType
<1> QED
  BY <1>7 DEF LinesOf, ss, S

LEMMA ReferencedType ==
  ASSUME NEW pack, SectionsSound(pack)
  PROVE  IsSequence(ReferencedFilenames(pack))
<1> DEFINE L == LinesIn(pack)
           U == {l.value : l \in L}
           s == Keyed(LinesOf(OfKind(pack, "Files")))
           v == [i \in DOMAIN s |-> s[i].value]
<1>1. LinesOf(OfKind(pack, "Files")) \in Seq(L)
  BY LinesType
<1> HIDE DEF L
<1>2. s \in Seq(L)
  BY <1>1, FilterType DEF Keyed, Filtered
<1> HIDE DEF s
<1>3. v \in Seq(U)
  <2>1. Len(s) \in Nat /\ DOMAIN s = 1..Len(s) /\ \A i \in DOMAIN s : s[i] \in L
    BY <1>2
  <2>2. v \in [1..Len(s) -> U]
    BY <2>1
  <2> QED
    BY <2>1, <2>2
<1> HIDE DEF U
<1>4. Values(s) \in Seq(U)
  <2> HIDE DEF v
  <2>1. \A I : Chosen(v, I) \in Seq(U)
    BY <1>3, FilterType
  <2> QED
    BY <2>1 DEF Values, Filtered, v
<1>5. Distinct(Values(s)) \in Seq(U)
  BY <1>4, FilterType DEF Distinct
<1> QED
  BY <1>5, SequenceOf DEF ReferencedFilenames, s

LEMMA HardwareIdsType ==
  ASSUME NEW pack, SectionsSound(pack)
  PROVE  IsSequence(HardwareIds(pack))
<1> DEFINE L == LinesIn(pack)
           U == {<<l.value, l.extra>> : l \in L}
           s == IdLines(pack)
           v == [i \in DOMAIN s |-> <<s[i].value, s[i].extra>>]
<1>1. LinesOf(OfKind(pack, "HardwareIds")) \in Seq(L)
  BY LinesType
<1> HIDE DEF L
<1>2. s \in Seq(L)
  <2>1. Keyed(LinesOf(OfKind(pack, "HardwareIds"))) \in Seq(L)
    BY <1>1, FilterType DEF Keyed, Filtered
  <2> QED
    BY <2>1, FilterType DEF IdLines, Filtered
<1> HIDE DEF s
<1>3. v \in Seq(U)
  <2>1. Len(s) \in Nat /\ DOMAIN s = 1..Len(s) /\ \A i \in DOMAIN s : s[i] \in L
    BY <1>2
  <2>2. v \in [1..Len(s) -> U]
    BY <2>1
  <2> QED
    BY <2>1, <2>2
<1> HIDE DEF U, v
<1>4. Distinct(v) \in Seq(U)
  BY <1>3, FilterType DEF Distinct
<1> QED
  BY <1>4, SequenceOf DEF HardwareIds, s, v

-----------------------------------------------------------------------------
(***************************************************************************)
(* The service of a regular pack.                                          *)
(***************************************************************************)

LEMMA ChosenWithin ==
  ASSUME NEW V, NEW s \in Seq(V), NEW I, NEW x \in ToSet(Chosen(s, I))
  PROVE  \E i \in 1..Len(s) : i \in I /\ x = s[i]
<1> DEFINE W == {s[i] : i \in {j \in 1..Len(s) : j \in I}}
<1>1. \A i \in 1..Len(s) : i \in I => s[i] \in W
  OBVIOUS
<1> HIDE DEF W
<1>2. Chosen(s, I) \in Seq(W)
  BY <1>1, ChosenType
<1>3. x \in W
  BY <1>2, SequenceOf
<1> QED
  BY <1>3 DEF W

LEMMA FlattenWithin ==
  ASSUME NEW V, NEW ss \in Seq(Seq(V)), NEW x \in ToSet(FlattenSeq(ss))
  PROVE  \E i \in 1..Len(ss) : x \in ToSet(ss[i])
<1> DEFINE W == UNION {ToSet(ss[i]) : i \in 1..Len(ss)}
<1>1. Len(ss) \in Nat /\ DOMAIN ss = 1..Len(ss) /\ \A i \in 1..Len(ss) : ss[i] \in Seq(V)
  OBVIOUS
<1>2. ASSUME NEW i \in 1..Len(ss) PROVE ss[i] \in Seq(W)
  <2>1. ss[i] \in Seq(ToSet(ss[i])) /\ ToSet(ss[i]) \subseteq W
    BY <1>1, SequenceOf DEF IsSequence
  <2> HIDE DEF W
  <2> QED
    BY <2>1
<1> HIDE DEF W
<1>3. ss \in [1..Len(ss) -> Seq(W)]
  <2>1. ss = [i \in 1..Len(ss) |-> ss[i]]
    BY <1>1
  <2> QED
    BY <1>2, <2>1
<1>4. ss \in Seq(Seq(W))
  BY <1>1, <1>3
<1>5. FlattenSeq(ss) \in Seq(W)
  BY <1>4, FlattenType
<1>6. x \in W
  BY <1>5, SequenceOf
<1> QED
  BY <1>6 DEF W

LEMMA ControllersType ==
  ASSUME NEW pack, SectionsSound(pack)
  PROVE  IsSequence(Controllers(pack))
<1> DEFINE L == LinesIn(pack)
           U == {l.key : l \in L}
           s == Declared(pack)
           v == [i \in DOMAIN s |-> s[i].key]
<1>1. LinesOf(OfKind(pack, "SCSI")) \in Seq(L)
  BY LinesType
<1> HIDE DEF L
<1>2. s \in Seq(L)
  <2>1. Keyed(LinesOf(OfKind(pack, "SCSI"))) \in Seq(L)
    BY <1>1, FilterType DEF Keyed, Filtered
  <2> QED
    BY <2>1, FilterType DEF Declared, Filtered
<1> HIDE DEF s
<1>3. v \in Seq(U)
  <2>1. Len(s) \in Nat /\ DOMAIN s = 1..Len(s) /\ \A i \in DOMAIN s : s[i] \in L
    BY <1>2
  <2>2. v \in [1..Len(s) -> U]
    BY <2>1
  <2> QED
    BY <2>1, <2>2
<1> HIDE DEF U, v
<1>4. Distinct(v) \in Seq(U)
  BY <1>3, FilterType DEF Distinct
<1> QED
  BY <1>4, SequenceOf DEF Controllers, s, v

\* The services on the driver lines of a section.
ServicesIn(sec) ==
  LET drivers == Filtered(sec.lines, LAMBDA l : l.key = "driver")
  IN  Filtered([i \in DOMAIN drivers |-> drivers[i].raw], LAMBDA s : s # None)

LEMMA ServicesInFacts ==
  ASSUME NEW V, NEW sec, sec.lines \in Seq(V)
  PROVE  /\ ServicesIn(sec) \in Seq({l.raw : l \in V})
         /\ \A l \in ToSet(sec.lines) :
              l.key = "driver" /\ l.raw # None => l.raw \in ToSet(ServicesIn(sec))
<1> DEFINE I == {i \in DOMAIN sec.lines : sec.lines[i].key = "driver"}
           d == Chosen(sec.lines, I)
           U == {l.raw : l \in V}
           v == [i \in DOMAIN d |-> d[i].raw]
           J == {i \in DOMAIN v : v[i] # None}
<1>1. ServicesIn(sec) = Chosen(v, J)
  BY DEF ServicesIn, Filtered
<1>2. d \in Seq(V)
  <2> HIDE DEF I
  <2> QED
    BY FilterType
<1>3. ASSUME NEW l \in ToSet(sec.lines), l.key = "driver" PROVE l \in ToSet(d)
  <2>1. PICK i \in 1..Len(sec.lines) : l = sec.lines[i]
    BY DEF ToSet
  <2>2. i \in I
    BY <1>3, <2>1
  <2> HIDE DEF I
  <2> QED
    BY <2>1, <2>2, ChosenElements
<1> HIDE DEF d
<1>4. v \in Seq(U) /\ Len(v) = Len(d) /\ DOMAIN v = 1..Len(v) /\ DOMAIN d = 1..Len(d)
  <2>1. Len(d) \in Nat /\ DOMAIN d = 1..Len(d) /\ \A i \in DOMAIN d : d[i] \in V
    BY <1>2
  <2>2. v \in [1..Len(d) -> U]
    BY <2>1
  <2> HIDE DEF U
  <2> QED
    BY <2>1, <2>2
<1>5. Chosen(v, J) \in Seq(U)
  <2> HIDE DEF J, U, v
  <2> QED
    BY <1>4, FilterType
<1>6. ASSUME NEW l \in ToSet(sec.lines), l.key = "driver", l.raw # None
      PROVE  l.raw \in ToSet(Chosen(v, J))
  <2>1. PICK i \in DOMAIN d : l = d[i]
    BY <1>3, <1>6 DEF ToSet
  <2>2. i \in 1..Len(v) /\ v[i] = l.raw /\ i \in J
    BY <1>4, <1>6, <2>1
  <2> HIDE DEF J, v, U
  <2>3. v[i] \in ToSet(Chosen(v, J))
    BY <1>4, <2>2, ChosenElements
  <2> QED
    BY <2>2, <2>3
<1> QED
  BY <1>1, <1>5, <1>6

\* A regular pack has its one service on every driver line that
\* names any.
LEMMA OneService ==
  ASSUME NEW pack, SectionsSound(pack), Regular(pack), Len(CollectServices(pack)) = 1,
         NEW l \in DriverLines(pack), l.extra # None
  PROVE  CollectServices(pack)[1] = l.extra
<1> DEFINE P == ToSet(pack)
           S == OfKind(pack, "Files")
           L == LinesIn(pack)
           U == {k.raw : k \in L}
           I == {i \in DOMAIN pack : pack[i].kind = "Files"}
           ss == [i \in DOMAIN S |-> S[i].lines]
           lines == LinesOf(S)
<1>0. l.raw = l.extra /\ l.raw # None
  BY DEF Regular, ReadAlike
<1>1. pack \in Seq(P) /\ DOMAIN pack = 1..Len(pack) /\ Len(pack) \in Nat
  BY DEF SectionsSound, IsSequence
<1>2. ASSUME NEW sec \in P PROVE sec.lines \in Seq(L)
  <2>1. PICK i \in DOMAIN pack : sec = pack[i]
    BY DEF ToSet
  <2>2. sec.lines \in Seq(ToSet(sec.lines))
    BY <2>1 DEF SectionsSound, IsSequence
  <2>3. ToSet(sec.lines) \subseteq L
    BY DEF LinesIn
  <2> HIDE DEF L
  <2> QED
    BY <2>2, <2>3
<1>3. S = Chosen(pack, I)
  BY DEF OfKind, Filtered
<1> HIDE DEF P, L
<1>4. S \in Seq(P)
  <2> HIDE DEF I
  <2> QED
    BY <1>1, <1>3, FilterType
<1>5. PICK sec : sec \in ToSet(S) /\ l \in ToSet(sec.lines) /\ l.key = "driver"
  <2> DEFINE K == {i \in DOMAIN lines : lines[i].key = "driver"}
  <2>1. lines \in Seq(L)
    BY LinesType DEF L
  <2>2. l \in ToSet(Chosen(lines, K))
    BY DEF DriverLines, Filtered
  <2> HIDE DEF lines, S
  <2>3. PICK i \in 1..Len(lines) : i \in K /\ l = lines[i]
    <3> HIDE DEF K
    <3> QED
      BY <2>1, <2>2, ChosenWithin
  <2>4. l \in ToSet(lines) /\ l.key = "driver"
    BY <2>3 DEF ToSet
  <2>5. Len(S) \in Nat /\ DOMAIN S = 1..Len(S) /\ \A k \in DOMAIN S : S[k] \in P
    BY <1>4
  <2>6. ss \in [1..Len(S) -> Seq(L)]
    BY <1>2, <2>5
  <2>7. ss \in Seq(Seq(L)) /\ Len(ss) = Len(S)
    <3> HIDE DEF ss
    <3> QED
      BY <2>5, <2>6
  <2>8. lines = FlattenSeq(ss)
    BY DEF lines, LinesOf
  <2>9. PICK k \in 1..Len(S) : l \in ToSet(ss[k])
    <3> HIDE DEF ss
    <3> QED
      BY <2>4, <2>7, <2>8, FlattenWithin
  <2>10. ss[k] = S[k].lines /\ S[k] \in ToSet(S)
    BY <2>5 DEF ToSet
  <2> QED
    BY <2>4, <2>9, <2>10
<1>6. sec \in P /\ sec.kind = "Files"
  <2>1. sec \in ToSet(Chosen(pack, I))
    BY <1>3, <1>5
  <2>2. PICK i \in 1..Len(pack) : i \in I /\ sec = pack[i]
    <3> HIDE DEF I
    <3> QED
      BY <1>1, <2>1, ChosenWithin
  <2> QED
    BY <2>2 DEF P, ToSet
<1> DEFINE id == sec.id
           F == FilesOf(pack, id)
           seen == Filtered(F, LAMBDA s : s.exact)
<1>7. sec.exact /\ id \in ToSet(Controllers(pack)) /\ Len(F) = 1
  <2>1. PICK i \in DOMAIN S : sec = S[i]
    BY <1>5 DEF ToSet
  <2> QED
    BY <2>1 DEF Regular, WellFormed
<1>8. F \in Seq({sec}) /\ F[1] = sec
  <2> DEFINE K == {i \in DOMAIN pack : pack[i].kind = "Files" /\ pack[i].id = id}
  <2>1. F = Chosen(pack, K)
    BY DEF FilesOf, Filtered
  <2>2. PICK i \in 1..Len(pack) : sec = pack[i]
    BY <1>1, <1>6 DEF P, ToSet
  <2>3. i \in K
    BY <1>1, <1>6, <2>2
  <2> HIDE DEF K
  <2>4. pack[i] \in ToSet(F) /\ F \in Seq(P)
    BY <1>1, <2>1, <2>3, ChosenElements, FilterType
  <2> HIDE DEF F
  <2>5. DOMAIN F = {1}
    BY <1>7, <2>4
  <2>6. F[1] = sec
    BY <2>2, <2>4, <2>5 DEF ToSet
  <2> DEFINE one == {sec}
  <2>7. F \in [1..Len(F) -> one] /\ Len(F) \in Nat
    <3>1. F = [k \in 1..Len(F) |-> F[k]] /\ DOMAIN F = 1..Len(F) /\ Len(F) \in Nat
      BY <2>4
    <3> QED
      BY <2>5, <2>6, <3>1
  <2>8. F \in Seq({sec})
    <3> HIDE DEF one
    <3>1. F \in Seq(one)
      BY <2>7
    <3> QED
      BY <3>1 DEF one
  <2> QED
    BY <2>6, <2>8
<1> HIDE DEF F
<1>9. seen # <<>> /\ seen[1] = sec
  <2> DEFINE K == {i \in DOMAIN F : F[i].exact}
             one == {sec}
  <2>1. seen = Chosen(F, K)
    BY DEF Filtered
  <2>2. 1 \in 1..Len(F) /\ 1 \in K
    BY <1>7, <1>8
  <2> HIDE DEF K, seen
  <2>3. F[1] \in ToSet(Chosen(F, K)) /\ Chosen(F, K) \in Seq(one)
    <3> HIDE DEF one
    <3> QED
      BY <1>8, <2>2, ChosenElements, FilterType DEF one
  <2>4. DOMAIN seen = 1..Len(seen) /\ Len(seen) \in Nat /\ DOMAIN seen # {}
    BY <2>1, <2>3 DEF ToSet
  <2>5. 1 \in DOMAIN seen
    BY <2>4
  <2> QED
    BY <2>1, <2>3, <2>5
<1>10. ServicesOf(pack, id) = ServicesIn(sec)
  BY <1>9 DEF ServicesOf, ServicesIn, F
<1> HIDE DEF seen
<1>11. l.raw \in ToSet(ServicesOf(pack, id))
  BY <1>0, <1>2, <1>5, <1>6, <1>10, ServicesInFacts
<1>12. ASSUME NEW c PROVE ServicesOf(pack, c) \in Seq(U)
  <2> DEFINE K == {i \in DOMAIN pack : pack[i].kind = "Files" /\ pack[i].id = c}
             G == FilesOf(pack, c)
             M == {i \in DOMAIN G : G[i].exact}
             found == Filtered(G, LAMBDA s : s.exact)
  <2>1. G = Chosen(pack, K) /\ found = Chosen(G, M)
    BY DEF FilesOf, Filtered
  <2> HIDE DEF K, M
  <2>2. found \in Seq(P)
    BY <1>1, <2>1, FilterType
  <2>3. CASE found = <<>>
    <3>1. ServicesOf(pack, c) = <<>>
      BY <2>3 DEF ServicesOf
    <3> HIDE DEF U
    <3> QED
      BY <3>1
  <2>4. CASE found # <<>>
    <3>1. ServicesOf(pack, c) = ServicesIn(found[1])
      BY <2>4 DEF ServicesOf, ServicesIn
    <3>2. found[1] \in P
      <4> HIDE DEF found
      <4> QED
        BY <2>2, <2>4
    <3>3. found[1].lines \in Seq(L)
      BY <1>2, <3>2
    <3> HIDE DEF found
    <3> QED
      BY <3>1, <3>3, ServicesInFacts
  <2> QED
    BY <2>3, <2>4
<1> HIDE DEF U
<1> DEFINE ids == Controllers(pack)
           all == [i \in DOMAIN ids |-> ServicesOf(pack, ids[i])]
<1>13. Len(ids) \in Nat /\ DOMAIN ids = 1..Len(ids)
  BY ControllersType DEF IsSequence
<1> HIDE DEF ids
<1>14. all \in Seq(Seq(U)) /\ Len(all) = Len(ids)
  <2>1. all \in [1..Len(ids) -> Seq(U)]
    BY <1>12, <1>13
  <2> HIDE DEF all
  <2> QED
    BY <1>13, <2>1
<1>15. PICK j \in 1..Len(ids) : id = ids[j]
  BY <1>7, <1>13 DEF ToSet, ids
<1>16. l.raw \in ToSet(all[j])
  BY <1>11, <1>13, <1>15
<1>17. CollectServices(pack) = Distinct(FlattenSeq(all))
  BY DEF CollectServices, ids
<1> HIDE DEF all
<1>18. l.raw \in ToSet(FlattenSeq(all)) /\ FlattenSeq(all) \in Seq(U)
  BY <1>14, <1>16, FlattenElements, FlattenType
<1>19. l.raw \in ToSet(CollectServices(pack)) /\ CollectServices(pack) \in Seq(U)
  <2>1. l.raw \in ToSet(CollectServices(pack))
    BY <1>17, <1>18, DistinctElements
  <2>2. Distinct(FlattenSeq(all)) \in Seq(U)
    BY <1>18, FilterType DEF Distinct
  <2> QED
    BY <1>17, <2>1, <2>2
<1>20. CollectServices(pack)[1] = l.raw
  BY <1>19 DEF ToSet
<1> QED
  BY <1>0, <1>20

-----------------------------------------------------------------------------
(***************************************************************************)
(* A manifest with lines added to it, and without them again.              *)
(***************************************************************************)

LEMMA WithoutEmpty == Without(<<>>) = <<>>
<1>1. <<>> \in Seq({}) /\ Len(<<>>) = 0
  OBVIOUS
<1>2. \A I : Chosen(<<>>, I) = <<>>
  <2>1. ASSUME NEW I PROVE Chosen(<<>>, I) = <<>>
    <3>1. \A i \in 1..Len(<<>>) : i \in I => <<>>[i] \in {}
      BY <1>1
    <3>2. PICK c : Choosing(c, <<>>, I, {}) /\ Chosen(<<>>, I) = c[Len(<<>>)]
      BY <1>1, <3>1, ChosenSteps
    <3> QED
      BY <1>1, <3>2 DEF Choosing
  <2> QED
    BY <2>1
<1> QED
  BY <1>2 DEF Without, Filtered

LEMMA WithoutAppend ==
  ASSUME NEW V, NEW s \in Seq(V), NEW l \in V
  PROVE  Without(Append(s, l)) = IF IsAdded(l) THEN Without(s) ELSE Append(Without(s), l)
<1> DEFINE t == Append(s, l)
           I == {i \in DOMAIN s : ~IsAdded(s[i])}
           J == {i \in DOMAIN t : ~IsAdded(t[i])}
<1>1. /\ Len(s) \in Nat /\ DOMAIN s = 1..Len(s) /\ DOMAIN t = 1..(Len(s) + 1)
      /\ t[Len(s) + 1] = l /\ \A i \in 1..Len(s) : t[i] = s[i]
  OBVIOUS
<1> HIDE DEF t
<1>2. \A i \in 1..Len(s) : i \in I <=> i \in J
  BY <1>1
<1>3. Len(s) + 1 \in J <=> ~IsAdded(l)
  BY <1>1
<1>4. Without(s) = Chosen(s, I) /\ Without(t) = Chosen(t, J)
  BY DEF Without, Filtered
<1> HIDE DEF I, J
<1>5. Chosen(Append(s, l), J) =
        IF Len(s) + 1 \in J THEN Append(Chosen(s, I), l) ELSE Chosen(s, I)
  BY <1>2, ChosenAppend
<1> QED
  BY <1>3, <1>4, <1>5 DEF t

\* Added lines at the end do not show.
LEMMA WithoutTail ==
  ASSUME NEW V, NEW s \in Seq(V), NEW t \in Seq(V), \A i \in 1..Len(t) : IsAdded(t[i])
  PROVE  Without(s \o t) = Without(s)
<1> DEFINE n == Len(t)
           front(k) == s \o SubSeq(t, 1, k)
           T == {k \in 0..n : Without(front(k)) = Without(s)}
<1>1. n \in Nat
  OBVIOUS
<1>2. 0 \in T
  <2>1. front(0) = s
    OBVIOUS
  <2>2. 0 \in 0..n
    BY <1>1
  <2> HIDE DEF front, n
  <2> QED
    BY <2>1, <2>2
<1>3. ASSUME NEW k \in 1..n, k - 1 \in T PROVE k \in T
  <2>1. front(k) = Append(front(k - 1), t[k]) /\ front(k - 1) \in Seq(V) /\ t[k] \in V
    <3>1. t[k] \in V /\ SubSeq(t, 1, k - 1) \in Seq(V)
      OBVIOUS
    <3>2. SubSeq(t, 1, k) = Append(SubSeq(t, 1, k - 1), t[k])
      OBVIOUS
    <3>3. ASSUME NEW r \in Seq(V), NEW x \in V PROVE s \o Append(r, x) = Append(s \o r, x)
      OBVIOUS
    <3> QED
      BY <3>1, <3>2, <3>3
  <2>2. k \in 0..n /\ IsAdded(t[k])
    BY <1>1
  <2>3. Without(front(k - 1)) = Without(s)
    BY <1>3
  <2> HIDE DEF front
  <2>4. Without(front(k)) = Without(front(k - 1))
    BY <2>1, <2>2, WithoutAppend
  <2> QED
    BY <2>2, <2>3, <2>4
<1>4. \A k \in 0..n : k \in T
  <2> HIDE DEF T, n
  <2> QED
    BY <1>1, <1>2, <1>3, IntervalInduction
<1>5. Without(front(n)) = Without(s)
  BY <1>1, <1>4
<1>6. front(n) = s \o t
  OBVIOUS
<1> QED
  BY <1>5, <1>6

LEMMA SplicedWithout ==
  ASSUME NEW M, NEW A, NEW m \in Seq(M), NEW added \in [DOMAIN m -> Seq(A)],
         \A l \in M : ~IsAdded(l), \A l \in A : IsAdded(l)
  PROVE  Spliced(m, added) \in Seq(M \cup A) /\ Without(Spliced(m, added)) = m
<1> DEFINE n == Len(m)
           V == M \cup A
           ss == [i \in DOMAIN m |-> <<m[i]>> \o added[i]]
<1>1. n \in Nat /\ DOMAIN m = 1..n /\ \A i \in 1..n : m[i] \in M /\ added[i] \in Seq(A)
  OBVIOUS
<1>2. ss \in Seq(Seq(V)) /\ Len(ss) = n
  <2>1. ASSUME NEW i \in 1..n PROVE <<m[i]>> \o added[i] \in Seq(V)
    <3>1. <<m[i]>> \in Seq(V)
      BY <1>1
    <3>2. added[i] \in Seq(V)
      BY <1>1
    <3> QED
      BY <3>1, <3>2
  <2>2. ss \in [1..n -> Seq(V)]
    BY <1>1, <2>1
  <2> HIDE DEF ss, n, V
  <2> QED
    BY <1>1, <2>2
<1> HIDE DEF n, V
<1>3. PICK f : Joining(f, ss, V) /\ FlattenSeq(ss) = f[n]
  <2> HIDE DEF ss
  <2> QED
    BY <1>2, FlattenSteps
<1>4. /\ \A i \in 0..n : f[i] \in Seq(V)
      /\ f[0] = <<>> /\ \A i \in 1..n : f[i] = f[i - 1] \o ss[i]
  <2> HIDE DEF ss
  <2> QED
    BY <1>2, <1>3 DEF Joining
<1> DEFINE T == {i \in 0..n : Without(f[i]) = SubSeq(m, 1, i)}
<1>5. 0 \in T
  <2>1. 0 \in 0..n /\ SubSeq(m, 1, 0) = <<>>
    BY <1>1
  <2> QED
    BY <1>4, <2>1, WithoutEmpty
<1>6. ASSUME NEW i \in 1..n, i - 1 \in T PROVE i \in T
  <2> DEFINE g == Append(f[i - 1], m[i])
  <2>1. /\ i \in 0..n /\ i - 1 \in 0..n /\ f[i - 1] \in Seq(V)
        /\ m[i] \in M /\ m[i] \in V /\ added[i] \in Seq(A) /\ added[i] \in Seq(V)
    <3>1. i \in 0..n /\ i - 1 \in 0..n
      BY <1>1
    <3>2. m[i] \in M /\ added[i] \in Seq(A)
      BY <1>1
    <3>3. added[i] \in Seq(V)
      BY <3>2 DEF V
    <3> QED
      BY <1>4, <3>1, <3>2, <3>3 DEF V
  <2>2. f[i] = g \o added[i] /\ g \in Seq(V)
    <3>1. f[i] = f[i - 1] \o (<<m[i]>> \o added[i])
      BY <1>1, <1>4
    <3>2. ASSUME NEW r \in Seq(V), NEW x \in V, NEW t \in Seq(V)
          PROVE  r \o (<<x>> \o t) = Append(r, x) \o t
      <4>1. <<x>> \in Seq(V)
        OBVIOUS
      <4>2. (r \o <<x>>) \o t = r \o (<<x>> \o t)
        BY <4>1, ConcatAssociative, SMTT(30)
      <4>3. Append(r, x) = r \o <<x>>
        BY AppendIsConcat, Zenon
      <4> QED
        BY <4>2, <4>3, Zenon
    <3>3. g \in Seq(V)
      BY <2>1
    <3> QED
      BY <2>1, <3>1, <3>2, <3>3
  <2>3. Without(g) = Append(Without(f[i - 1]), m[i])
    BY <2>1, WithoutAppend
  <2>4. Without(g \o added[i]) = Without(g)
    <3>1. \A j \in 1..Len(added[i]) : IsAdded(added[i][j])
      BY <2>1
    <3> HIDE DEF g
    <3> QED
      BY <2>1, <2>2, <3>1, WithoutTail
  <2>5. Append(SubSeq(m, 1, i - 1), m[i]) = SubSeq(m, 1, i)
    BY <1>1 DEF n
  <2>6. Without(f[i - 1]) = SubSeq(m, 1, i - 1)
    BY <1>6
  <2> HIDE DEF g
  <2> QED
    BY <2>1, <2>2, <2>3, <2>4, <2>5, <2>6
<1>7. \A i \in 0..n : i \in T
  <2> HIDE DEF T
  <2> QED
    BY <1>1, <1>5, <1>6, IntervalInduction
<1>8. Without(f[n]) = SubSeq(m, 1, n) /\ f[n] \in Seq(V)
  <2>1. n \in 0..n
    BY <1>1
  <2> HIDE DEF ss
  <2> QED
    BY <1>4, <1>7, <2>1
<1>9. SubSeq(m, 1, n) = m
  BY DEF n
<1>10. Spliced(m, added) = f[n]
  BY <1>3 DEF Spliced
<1> QED
  BY <1>8, <1>9, <1>10 DEF V

\* The file a line names.
FileOf(l) == l.text[IF l.text[1] = "load" THEN 3 ELSE 2]

Original(l) == l.tag \in {"header", "body", "blank"} /\ ~IsAdded(l)

\* An added line that names no file but those in F.
Adds(l, F) == IsAdded(l) /\ (l.text[1] \in {"load", "file", "d1"} => FileOf(l) \in F)

Tagged(m) == \A i \in DOMAIN m : m[i].tag \in {"header", "body", "blank"}

LEMMA SplicedSound ==
  ASSUME NEW m, IsSequence(m), \A l \in ToSet(m) : Original(l), NEW F,
         NEW A, NEW added \in [DOMAIN m -> Seq(A)], \A l \in A : Adds(l, F)
  PROVE  /\ Without(Spliced(m, added)) = m
         /\ Tagged(Spliced(m, added)) /\ FilesNamed(Spliced(m, added)) \subseteq F
<1> DEFINE s == Spliced(m, added)
<1>1. /\ m \in Seq(ToSet(m))
      /\ \A l \in ToSet(m) : ~IsAdded(l)
      /\ \A l \in A : IsAdded(l)
  BY DEF IsSequence, Original, Adds
<1>2. s \in Seq(ToSet(m) \cup A) /\ Without(s) = m
  BY <1>1, SplicedWithout
<1> HIDE DEF s
<1>3. \A i \in DOMAIN s : Original(s[i]) \/ Adds(s[i], F)
  BY <1>2
<1>4. Tagged(s)
  BY <1>3 DEF Tagged, Original, Adds, IsAdded
<1>5. ASSUME NEW i \in DOMAIN s, IsAdded(s[i]), s[i].text[1] \in {"load", "file", "d1"}
      PROVE  FileOf(s[i]) \in F
  BY <1>3, <1>5 DEF Original, Adds
<1>6. FilesNamed(s) \subseteq F
  BY <1>5 DEF FilesNamed, FileOf
<1> QED
  BY <1>2, <1>4, <1>6 DEF s

\* A manifest nobody patched names no file, and neither does a lost one.
LEMMA OriginalFacts ==
  ASSUME NEW m, IsSequence(m), \A l \in ToSet(m) : Original(l)
  PROVE  Tagged(m) /\ FilesNamed(m) = {} /\ Without(m) = m
<1>1. \A i \in DOMAIN m : Original(m[i])
  BY DEF ToSet
<1>2. Tagged(m) /\ FilesNamed(m) = {}
  BY <1>1 DEF Tagged, FilesNamed, Original
<1>3. Without(m) = m
  <2> DEFINE n == Len(m)
             T == {i \in 0..n : Without(SubSeq(m, 1, i)) = SubSeq(m, 1, i)}
  <2>1. m \in Seq(ToSet(m)) /\ n \in Nat /\ DOMAIN m = 1..n
    BY DEF IsSequence
  <2>2. 0 \in T
    <3>1. 0 \in 0..n /\ SubSeq(m, 1, 0) = <<>>
      BY <2>1
    <3> QED
      BY <3>1, WithoutEmpty
  <2>3. ASSUME NEW i \in 1..n, i - 1 \in T PROVE i \in T
    <3>1. i \in 0..n /\ m[i] \in ToSet(m) /\ ~IsAdded(m[i])
      BY <1>1, <2>1 DEF Original
    <3>2. SubSeq(m, 1, i - 1) \in Seq(ToSet(m))
      BY <2>1
    <3>3. SubSeq(m, 1, i) = Append(SubSeq(m, 1, i - 1), m[i])
      BY <2>1
    <3> QED
      BY <2>3, <3>1, <3>2, <3>3, WithoutAppend
  <2>4. \A i \in 0..n : i \in T
    <3> HIDE DEF T, n
    <3> QED
      BY <2>1, <2>2, <2>3, IntervalInduction
  <2>5. Without(SubSeq(m, 1, n)) = SubSeq(m, 1, n)
    BY <2>1, <2>4
  <2>6. SubSeq(m, 1, n) = m
    BY <2>1
  <2> QED
    BY <2>5, <2>6
<1> QED
  BY <1>2, <1>3

LEMMA LostFacts == Tagged(Lost) /\ FilesNamed(Lost) = {}
BY DEF Tagged, FilesNamed, Lost

-----------------------------------------------------------------------------
(***************************************************************************)
(* Where the lines of a manifest with additions come from.                 *)
(***************************************************************************)

\* The first i lines of m and what is added to them are the first at[i] of s.
Places(at, m, added, s) ==
  /\ at \in [0..Len(m) -> Nat] /\ at[0] = 0 /\ at[Len(m)] = Len(s)
  /\ \A i \in 1..Len(m) :
       /\ at[i] = at[i - 1] + 1 + Len(added[i])
       /\ s[at[i - 1] + 1] = m[i]
       /\ \A k \in 1..Len(added[i]) : s[at[i - 1] + 1 + k] = added[i][k]

LEMMA SplicedPlaces ==
  ASSUME NEW V, NEW m \in Seq(V), NEW added \in [DOMAIN m -> Seq(V)]
  PROVE  \E at : Places(at, m, added, Spliced(m, added))
<1> DEFINE n == Len(m)
           ss == [i \in DOMAIN m |-> <<m[i]>> \o added[i]]
<1>1. n \in Nat /\ DOMAIN m = 1..n /\ \A i \in 1..n : m[i] \in V /\ added[i] \in Seq(V)
  OBVIOUS
<1>2. ss \in Seq(Seq(V)) /\ Len(ss) = n
  <2>1. ASSUME NEW i \in 1..n PROVE <<m[i]>> \o added[i] \in Seq(V)
    BY <1>1
  <2>2. ss \in [1..n -> Seq(V)]
    BY <1>1, <2>1
  <2> HIDE DEF ss, n
  <2> QED
    BY <1>1, <2>2
<1> HIDE DEF n
<1>3. PICK f : Joining(f, ss, V) /\ FlattenSeq(ss) = f[n]
  <2> HIDE DEF ss
  <2> QED
    BY <1>2, FlattenSteps
<1>4. /\ \A i \in 0..n : f[i] \in Seq(V)
      /\ f[0] = <<>> /\ \A i \in 1..n : f[i] = f[i - 1] \o ss[i]
  <2> HIDE DEF ss
  <2> QED
    BY <1>2, <1>3 DEF Joining
<1> DEFINE Parts(u, r, x, t) == /\ Len(u) = Len(r) + 1 + Len(t)
                                /\ \A k \in 1..Len(r) : u[k] = r[k]
                                /\ u[Len(r) + 1] = x
                                /\ \A k \in 1..Len(t) : u[Len(r) + 1 + k] = t[k]
<1>5. ASSUME NEW r \in Seq(V), NEW x \in V, NEW t \in Seq(V)
      PROVE  Parts(r \o (<<x>> \o t), r, x, t)
  OBVIOUS
<1> HIDE DEF Parts
<1>6. ASSUME NEW i \in 1..n
      PROVE  /\ i \in 0..n /\ i - 1 \in 0..n
             /\ Len(f[i]) \in Nat /\ Len(f[i - 1]) \in Nat /\ Len(added[i]) \in Nat
             /\ Len(f[i]) = Len(f[i - 1]) + 1 + Len(added[i])
             /\ \A k \in 1..Len(f[i - 1]) : f[i][k] = f[i - 1][k]
             /\ f[i][Len(f[i - 1]) + 1] = m[i]
             /\ \A k \in 1..Len(added[i]) : f[i][Len(f[i - 1]) + 1 + k] = added[i][k]
  <2>1. i \in 0..n /\ i - 1 \in 0..n
    BY <1>1
  <2>2. f[i - 1] \in Seq(V) /\ f[i] \in Seq(V) /\ m[i] \in V /\ added[i] \in Seq(V)
    BY <1>1, <1>4, <2>1
  <2>3. f[i] = f[i - 1] \o (<<m[i]>> \o added[i])
    BY <1>1, <1>4
  <2>4. Len(f[i]) \in Nat /\ Len(f[i - 1]) \in Nat /\ Len(added[i]) \in Nat
    BY <2>2
  <2>5. Parts(f[i], f[i - 1], m[i], added[i])
    BY <1>5, <2>2, <2>3
  <2> QED
    BY <2>1, <2>4, <2>5, Zenon DEF Parts
<1> DEFINE Prefixed(i, j) == /\ Len(f[i]) <= Len(f[j])
                         /\ \A k \in 1..Len(f[i]) : f[j][k] = f[i][k]
           T == {j \in 0..n : \A i \in 0..j : Prefixed(i, j)}
<1> HIDE DEF ss
<1>7. \A j \in 0..n : j \in T
  <2>1. 0 \in T
    BY <1>1, <1>4
  <2>2. ASSUME NEW j \in 1..n, j - 1 \in T PROVE j \in T
    <3>1. ASSUME NEW i \in 0..j PROVE Prefixed(i, j)
      <4>1. CASE i = j
        <5>1. Len(f[j]) \in Nat
          BY <1>6
        <5> QED
          BY <4>1, <5>1
      <4>2. CASE i # j
        <5>1. i \in 0..(j - 1) /\ i \in 0..n
          BY <1>1, <4>2
        <5>2. Prefixed(i, j - 1)
          BY <2>2, <5>1
        <5>3. Len(f[i]) \in Nat
          BY <1>4, <5>1
        <5>4. /\ Len(f[j]) \in Nat /\ Len(f[j - 1]) \in Nat /\ Len(added[j]) \in Nat
              /\ Len(f[j]) = Len(f[j - 1]) + 1 + Len(added[j])
              /\ \A k \in 1..Len(f[j - 1]) : f[j][k] = f[j - 1][k]
          BY <1>6
        <5>5. Len(f[i]) <= Len(f[j])
          <6>1. /\ Len(f[j]) \in Nat /\ Len(f[j - 1]) \in Nat /\ Len(added[j]) \in Nat
                /\ Len(f[j]) = Len(f[j - 1]) + 1 + Len(added[j]) /\ Len(f[i]) <= Len(f[j - 1])
            BY <5>2, <5>4
          <6>2. \A a, b, c, d \in Nat : a <= b /\ d = b + 1 + c => a <= d
            OBVIOUS
          <6> QED
            BY <5>3, <6>1, <6>2, Zenon
        <5>6. ASSUME NEW k \in 1..Len(f[i]) PROVE f[j][k] = f[i][k]
          <6>1. k \in 1..Len(f[j - 1])
            BY <5>2, <5>3, <5>4
          <6> QED
            BY <5>2, <5>4, <6>1
        <5> QED
          BY <5>5, <5>6
      <4> QED
        BY <4>1, <4>2
    <3>2. j \in 0..n
      BY <1>6
    <3> HIDE DEF Prefixed
    <3> QED
      BY <3>1, <3>2
  <2> HIDE DEF T
  <2> QED
    BY <1>1, <2>1, <2>2, IntervalInduction
<1> DEFINE at == [i \in 0..n |-> Len(f[i])]
           s == f[n]
<1>8. ASSUME NEW i \in 1..n
      PROVE  /\ at[i] = at[i - 1] + 1 + Len(added[i])
             /\ s[at[i - 1] + 1] = m[i]
             /\ \A k \in 1..Len(added[i]) : s[at[i - 1] + 1 + k] = added[i][k]
  <2>1. i \in 0..n /\ i - 1 \in 0..n
    BY <1>6
  <2>2. at[i] = Len(f[i]) /\ at[i - 1] = Len(f[i - 1])
    BY <2>1
  <2>3. Prefixed(i, n)
    BY <1>1, <1>7, <2>1
  <2>4. /\ Len(f[i - 1]) + 1 \in 1..Len(f[i])
        /\ \A k \in 1..Len(added[i]) : Len(f[i - 1]) + 1 + k \in 1..Len(f[i])
    <3>1. /\ Len(f[i]) \in Nat /\ Len(f[i - 1]) \in Nat /\ Len(added[i]) \in Nat
          /\ Len(f[i]) = Len(f[i - 1]) + 1 + Len(added[i])
      BY <1>6
    <3>2. \A p, q, l \in Nat :
            p = q + 1 + l => q + 1 \in 1..p /\ \A k \in 1..l : q + 1 + k \in 1..p
      OBVIOUS
    <3> QED
      BY <3>1, <3>2, Zenon
  <2>5. /\ Len(f[i]) = Len(f[i - 1]) + 1 + Len(added[i])
        /\ f[i][Len(f[i - 1]) + 1] = m[i]
        /\ \A k \in 1..Len(added[i]) : f[i][Len(f[i - 1]) + 1 + k] = added[i][k]
    BY <1>6
  <2> HIDE DEF at
  <2> QED
    BY <2>2, <2>3, <2>4, <2>5
<1>9. at \in [0..n -> Nat] /\ at[0] = 0 /\ at[n] = Len(s)
  <2>1. \A i \in 0..n : Len(f[i]) \in Nat
    BY <1>4
  <2>2. 0 \in 0..n /\ n \in 0..n /\ Len(f[0]) = 0
    BY <1>1, <1>4
  <2> QED
    BY <2>1, <2>2
<1> HIDE DEF at, s
<1>10. Places(at, m, added, s)
  BY <1>8, <1>9 DEF Places, n
<1>11. Spliced(m, added) = s
  BY <1>3 DEF Spliced, ss, s
<1> QED
  BY <1>10, <1>11

LEMMA PlacesAscend ==
  ASSUME NEW V, NEW m \in Seq(V), NEW added \in [DOMAIN m -> Seq(V)], NEW s, NEW at,
         Places(at, m, added, s), NEW i \in 0..Len(m), NEW j \in 0..Len(m), i <= j
  PROVE  at[i] <= at[j]
<1> DEFINE n == Len(m)
           T == {k \in 0..n : \A h \in 0..k : at[h] <= at[k]}
<1>1. n \in Nat /\ \A k \in 0..n : at[k] \in Nat
  <2>1. at \in [0..n -> Nat]
    BY DEF Places
  <2> QED
    BY <2>1
<1>2. \A k \in 1..n : Len(added[k]) \in Nat /\ at[k] = at[k - 1] + 1 + Len(added[k])
  BY DEF Places
<1> HIDE DEF n
<1>3. 0 \in T
  BY <1>1
<1>4. ASSUME NEW k \in 1..n, k - 1 \in T PROVE k \in T
  <2>1. k \in 0..n /\ k - 1 \in 0..n
    BY <1>1
  <2>2. at[k - 1] \in Nat /\ at[k] \in Nat /\ at[k - 1] <= at[k]
    BY <1>1, <1>2, <2>1
  <2>3. ASSUME NEW h \in 0..k PROVE at[h] <= at[k]
    <3>1. CASE h = k
      BY <2>2, <3>1
    <3>2. CASE h # k
      <4>1. h \in 0..(k - 1) /\ h \in 0..n
        BY <1>1, <3>2
      <4>2. at[h] <= at[k - 1] /\ at[h] \in Nat
        BY <1>1, <1>4, <4>1
      <4> QED
        BY <2>2, <4>2
    <3> QED
      BY <3>1, <3>2
  <2> QED
    BY <2>1, <2>3
<1>5. \A k \in 0..n : k \in T
  <2> HIDE DEF T
  <2> QED
    BY <1>1, <1>3, <1>4, IntervalInduction
<1>6. j \in T /\ i \in 0..j
  BY <1>5 DEF n
<1> QED
  BY <1>6

\* Every line is an original one or one that was added.
LEMMA PlacesCover ==
  ASSUME NEW V, NEW m \in Seq(V), NEW added \in [DOMAIN m -> Seq(V)], NEW s, NEW at,
         Places(at, m, added, s), Len(s) \in Nat, NEW q \in 1..Len(s)
  PROVE  \E i \in 1..Len(m) : \/ q = at[i - 1] + 1
                              \/ \E k \in 1..Len(added[i]) : q = at[i - 1] + 1 + k
<1> DEFINE n == Len(m)
           P == {i \in 0..n : q <= at[i]}
<1>1. n \in Nat /\ at[0] = 0 /\ at[n] = Len(s) /\ \A i \in 0..n : at[i] \in Nat
  <2>1. at \in [0..n -> Nat] /\ at[0] = 0 /\ at[n] = Len(s)
    BY DEF Places
  <2>2. n \in Nat
    OBVIOUS
  <2> HIDE DEF n
  <2> QED
    BY <2>1, <2>2
<1>2. P \in SUBSET Nat /\ n \in P /\ 0 \notin P
  BY <1>1
<1>3. PICK i \in P : \A k \in P : i <= k
  BY <1>2, LeastElement
<1>4. i \in 1..n /\ i - 1 \in 0..n /\ q <= at[i]
  BY <1>1, <1>2, <1>3
<1>5. ~(q <= at[i - 1])
  BY <1>3, <1>4
<1>6. at[i] = at[i - 1] + 1 + Len(added[i]) /\ Len(added[i]) \in Nat
  BY <1>4 DEF Places
<1>7. at[i - 1] \in Nat /\ at[i] \in Nat
  BY <1>1, <1>4
<1> DEFINE k == q - (at[i - 1] + 1)
<1>8. k = 0 \/ k \in 1..Len(added[i])
  <2>1. \A a, b, l, x \in Nat :
          b = a + 1 + l /\ x <= b /\ ~(x <= a) => x - (a + 1) = 0 \/ x - (a + 1) \in 1..l
    OBVIOUS
  <2>2. q \in Nat
    OBVIOUS
  <2> QED
    BY <1>4, <1>5, <1>6, <1>7, <2>1, <2>2, Zenon
<1>9. q = at[i - 1] + 1 + k
  BY <1>7
<1>10. k = 0 => q = at[i - 1] + 1
  BY <1>7
<1> HIDE DEF k
<1> QED
  BY <1>4, <1>8, <1>9, <1>10

-----------------------------------------------------------------------------
(***************************************************************************)
(* The headers of a manifest with additions, and what is under them.       *)
(***************************************************************************)

LEMMA MinFacts ==
  ASSUME NEW n \in Nat, NEW S \in SUBSET (1..n), S # {}
  PROVE  /\ Min(S) \in S /\ \A x \in S : Min(S) <= x
         /\ \A y \in S : (\A x \in S : y <= x) => Min(S) = y
<1>1. S \in SUBSET Nat
  OBVIOUS
<1>2. \E y \in S : \A x \in S : y <= x
  BY <1>1, LeastElement
<1>3. Min(S) \in S /\ \A x \in S : Min(S) <= x
  BY <1>2 DEF Min
<1>4. ASSUME NEW y \in S, \A x \in S : y <= x PROVE Min(S) = y
  <2>1. y <= Min(S) /\ Min(S) <= y /\ y \in Nat /\ Min(S) \in Nat
    BY <1>1, <1>3, <1>4
  <2> QED
    BY <2>1
<1> QED
  BY <1>3, <1>4

LEMMA MaxFacts ==
  ASSUME NEW n \in Nat, NEW S \in SUBSET (1..n), S # {}
  PROVE  /\ Max(S) \in S /\ \A x \in S : x <= Max(S)
         /\ \A y \in S : (\A x \in S : x <= y) => Max(S) = y
<1> DEFINE R == {n - x : x \in S}
<1>1. S \in SUBSET Nat /\ R \in SUBSET Nat /\ R # {}
  OBVIOUS
<1>2. PICK r \in R : \A k \in R : r <= k
  BY <1>1, LeastElement
<1>3. PICK y \in S : r = n - y
  BY <1>2
<1>4. ASSUME NEW x \in S PROVE x <= y
  <2>1. n - y <= n - x /\ x \in Nat /\ y \in Nat
    BY <1>1, <1>2, <1>3
  <2> QED
    BY <2>1
<1>5. Max(S) \in S /\ \A x \in S : x <= Max(S)
  BY <1>4 DEF Max
<1>6. ASSUME NEW z \in S, \A x \in S : x <= z PROVE Max(S) = z
  <2>1. z <= Max(S) /\ Max(S) <= z /\ z \in Nat /\ Max(S) \in Nat
    BY <1>1, <1>5, <1>6
  <2> QED
    BY <2>1
<1> QED
  BY <1>5, <1>6

\* Body lines are added to m, which makes s.
Added(V, m, added, s, at) ==
  /\ m \in Seq(V) /\ added \in [DOMAIN m -> Seq(V)] /\ s \in Seq(V)
  /\ Places(at, m, added, s)
  /\ \A i \in DOMAIN m : \A k \in DOMAIN added[i] : added[i][k].tag = "body"

\* Where a line of m is in s.
Now(at, i) == at[i - 1] + 1

LEMMA PlaceFacts ==
  ASSUME NEW V, NEW m, NEW added, NEW s, NEW at, Added(V, m, added, s, at)
  PROVE  /\ Len(m) \in Nat /\ DOMAIN m = 1..Len(m) /\ Len(s) \in Nat /\ DOMAIN s = 1..Len(s)
         /\ \A i \in 1..Len(m) :
              /\ at[i - 1] \in Nat /\ at[i] \in Nat /\ Len(added[i]) \in Nat
              /\ DOMAIN added[i] = 1..Len(added[i])
              /\ at[i] = at[i - 1] + 1 + Len(added[i]) /\ at[i] <= Len(s)
              /\ s[Now(at, i)] = m[i]
              /\ \A k \in 1..Len(added[i]) : s[Now(at, i) + k] = added[i][k]
         /\ \A i, j \in 1..Len(m) : i < j => at[i] <= at[j - 1]
<1> DEFINE n == Len(m)
<1>1. /\ n \in Nat /\ DOMAIN m = 1..n /\ Len(s) \in Nat /\ DOMAIN s = 1..Len(s)
  BY DEF Added
<1>2. at \in [0..n -> Nat] /\ at[n] = Len(s)
  BY DEF Added, Places
<1>3. ASSUME NEW i \in 1..n
      PROVE  /\ i \in 0..n /\ i - 1 \in 0..n /\ i <= n
             /\ at[i - 1] \in Nat /\ at[i] \in Nat
             /\ Len(added[i]) \in Nat /\ DOMAIN added[i] = 1..Len(added[i])
  <2>1. i \in 0..n /\ i - 1 \in 0..n /\ i <= n
    BY <1>1
  <2>2. added[i] \in Seq(V)
    BY <1>1 DEF Added
  <2> HIDE DEF n
  <2> QED
    BY <1>2, <2>1, <2>2
<1>4. ASSUME NEW i \in 0..n, NEW j \in 0..n, i <= j PROVE at[i] <= at[j]
  BY <1>4, PlacesAscend DEF Added
<1>5. ASSUME NEW i \in 1..n
      PROVE  /\ at[i] = at[i - 1] + 1 + Len(added[i])
             /\ s[Now(at, i)] = m[i]
             /\ \A k \in 1..Len(added[i]) : s[Now(at, i) + k] = added[i][k]
  BY DEF Added, Places, Now
<1>6. ASSUME NEW i \in 1..n PROVE at[i] <= Len(s)
  <2>1. n \in 0..n
    BY <1>1
  <2> QED
    BY <1>2, <1>3, <1>4, <2>1
<1>7. ASSUME NEW i \in 1..n, NEW j \in 1..n, i < j PROVE at[i] <= at[j - 1]
  <2>1. i <= j - 1
    BY <1>1, <1>7
  <2> QED
    BY <1>3, <1>4, <2>1
<1> HIDE DEF n
<1> QED
  BY <1>1, <1>3, <1>5, <1>6, <1>7 DEF n

\* The headers are those there were, in their order.
LEMMA HeaderFacts ==
  ASSUME NEW V, NEW m, NEW added, NEW s, NEW at, Added(V, m, added, s, at)
  PROVE  /\ \A q \in Headers(s) : \E h \in Headers(m) : q = Now(at, h) /\ s[q] = m[h]
         /\ \A h \in DOMAIN m : Now(at, h) \in DOMAIN s /\ s[Now(at, h)] = m[h]
         /\ \A g, h \in DOMAIN m : g <= h => Now(at, g) <= Now(at, h)
<1>1. ASSUME NEW q \in Headers(s)
      PROVE  \E h \in Headers(m) : q = Now(at, h) /\ s[q] = m[h]
  <2>1. q \in 1..Len(s) /\ s[q].tag = "header"
    BY PlaceFacts DEF Headers
  <2>2. PICK i \in 1..Len(m) : \/ q = at[i - 1] + 1
                              \/ \E k \in 1..Len(added[i]) : q = at[i - 1] + 1 + k
    <3>1. Len(s) \in Nat
      BY PlaceFacts
    <3> QED
      BY <2>1, <3>1, PlacesCover DEF Added
  <2>3. CASE q = at[i - 1] + 1
    <3>1. s[q] = m[i] /\ i \in DOMAIN m
      BY <2>3, PlaceFacts DEF Now
    <3> QED
      BY <2>1, <2>3, <3>1 DEF Headers, Now
  <2>4. ASSUME NEW k \in 1..Len(added[i]), q = at[i - 1] + 1 + k PROVE FALSE
    <3>1. s[q] = added[i][k] /\ i \in DOMAIN m /\ k \in DOMAIN added[i]
      BY <2>4, PlaceFacts DEF Now
    <3>2. added[i][k].tag = "body"
      BY <3>1 DEF Added
    <3> QED
      BY <2>1, <3>1, <3>2
  <2> QED
    BY <2>2, <2>3, <2>4
<1>2. ASSUME NEW h \in DOMAIN m PROVE Now(at, h) \in DOMAIN s /\ s[Now(at, h)] = m[h]
  <2>1. /\ at[h - 1] \in Nat /\ at[h] \in Nat /\ Len(added[h]) \in Nat /\ Len(s) \in Nat
        /\ at[h] = at[h - 1] + 1 + Len(added[h]) /\ at[h] <= Len(s)
    BY PlaceFacts
  <2>2. \A a, b, c, d \in Nat : a = b + 1 + c /\ a <= d => b + 1 \in 1..d
    OBVIOUS
  <2>3. Now(at, h) \in 1..Len(s)
    BY <2>1, <2>2, Zenon DEF Now
  <2> QED
    BY <2>3, PlaceFacts
<1>3. ASSUME NEW g \in DOMAIN m, NEW h \in DOMAIN m, g <= h
      PROVE  Now(at, g) <= Now(at, h)
  <2>1. /\ at[g - 1] \in Nat /\ at[g] \in Nat /\ Len(added[g]) \in Nat /\ at[h - 1] \in Nat
        /\ at[g] = at[g - 1] + 1 + Len(added[g])
    <3>1. g \in 1..Len(m) /\ h \in 1..Len(m)
      BY PlaceFacts
    <3>2. \A i \in 1..Len(m) :
            /\ at[i - 1] \in Nat /\ at[i] \in Nat /\ Len(added[i]) \in Nat
            /\ at[i] = at[i - 1] + 1 + Len(added[i])
      BY PlaceFacts
    <3> QED
      BY <3>1, <3>2, Zenon
  <2>2. CASE g = h
    BY <2>1, <2>2 DEF Now
  <2>3. CASE g # h
    <3>1. g < h
      BY <1>3, <2>3, PlaceFacts
    <3>2. at[g] <= at[h - 1]
      BY <3>1, PlaceFacts
    <3>3. \A a, b, c, d \in Nat : a = b + 1 + c /\ a <= d => b + 1 <= d + 1
      OBVIOUS
    <3> QED
      BY <2>1, <3>2, <3>3, Zenon DEF Now
  <2> QED
    BY <2>2, <2>3
<1> QED
  BY <1>1, <1>2, <1>3

\* The first and the last header of a name are the first and the last one now.
LEMMA NamedFacts ==
  ASSUME NEW V, NEW m, NEW added, NEW s, NEW at, Added(V, m, added, s, at),
         NEW name, Named(m, name) # {}
  PROVE  /\ Min(Named(s, name)) = Now(at, Min(Named(m, name)))
         /\ Max(Named(s, name)) = Now(at, Max(Named(m, name)))
         /\ Min(Named(m, name)) \in Named(m, name) /\ Max(Named(m, name)) \in Named(m, name)
<1> DEFINE N == Named(m, name)
           R == Named(s, name)
<1>1. Len(m) \in Nat /\ N \in SUBSET (1..Len(m)) /\ Len(s) \in Nat /\ R \in SUBSET (1..Len(s))
  BY PlaceFacts DEF Named
<1>2. \A h \in N : Now(at, h) \in R
  BY HeaderFacts DEF Named
<1>3. ASSUME NEW q \in R PROVE \E h \in N : q = Now(at, h)
  <2>1. q \in Headers(s) /\ s[q] = Header(name)
    BY DEF Named, Headers, Header
  <2>2. PICK h \in Headers(m) : q = Now(at, h) /\ s[q] = m[h]
    BY <2>1, HeaderFacts
  <2>3. h \in N
    BY <2>1, <2>2 DEF Named, Headers
  <2> QED
    BY <2>2, <2>3
<1> HIDE DEF N, R
<1>4. /\ Min(N) \in N /\ \A x \in N : Min(N) <= x
      /\ Max(N) \in N /\ \A x \in N : x <= Max(N)
  BY <1>1, MinFacts, MaxFacts DEF N
<1>5. \A g, h \in N : g <= h => Now(at, g) <= Now(at, h)
  BY HeaderFacts DEF N, Named
<1>6. Now(at, Min(N)) \in R /\ \A q \in R : Now(at, Min(N)) <= q
  BY <1>2, <1>3, <1>4, <1>5
<1>7. Now(at, Max(N)) \in R /\ \A q \in R : q <= Now(at, Max(N))
  BY <1>2, <1>3, <1>4, <1>5
<1>8. R # {}
  BY <1>6
<1>9. Min(R) = Now(at, Min(N)) /\ Max(R) = Now(at, Max(N))
  BY <1>1, <1>6, <1>7, <1>8, MinFacts, MaxFacts
<1> QED
  BY <1>4, <1>9 DEF N, R

\* What is added behind a line is under the last header up to that line.
LEMMA AddedInBlock ==
  ASSUME NEW V, NEW m, NEW added, NEW s, NEW at, Added(V, m, added, s, at),
         NEW h \in DOMAIN m, NEW a \in DOMAIN m, h <= a,
         \A g \in Headers(m) : ~(g \in (h + 1)..a),
         NEW k \in DOMAIN added[a]
  PROVE  added[a][k].text \in Block(s, Now(at, h))
<1> DEFINE q == Now(at, a) + k
<1>1. /\ at[a - 1] \in Nat /\ at[a] \in Nat /\ Len(added[a]) \in Nat /\ Len(s) \in Nat
      /\ k \in 1..Len(added[a]) /\ at[a] = at[a - 1] + 1 + Len(added[a]) /\ at[a] <= Len(s)
      /\ s[q] = added[a][k] /\ DOMAIN s = 1..Len(s) /\ at[h - 1] \in Nat
  <2>1. a \in 1..Len(m) /\ h \in 1..Len(m) /\ DOMAIN s = 1..Len(s) /\ Len(s) \in Nat
    BY PlaceFacts
  <2>2. \A i \in 1..Len(m) :
          /\ at[i - 1] \in Nat /\ at[i] \in Nat /\ Len(added[i]) \in Nat
          /\ DOMAIN added[i] = 1..Len(added[i])
          /\ at[i] = at[i - 1] + 1 + Len(added[i]) /\ at[i] <= Len(s)
    BY PlaceFacts
  <2>3. \A i \in 1..Len(m) : \A j \in 1..Len(added[i]) : s[Now(at, i) + j] = added[i][j]
    BY PlaceFacts
  <2> QED
    BY <2>1, <2>2, <2>3, Zenon
<1>2. s[q].tag = "body"
  BY <1>1 DEF Added
<1>3. \A x, y, l, z \in Nat : \A j \in 1..l :
        y = x + 1 + l /\ y <= z => x + 1 + j \in 1..z /\ x + 1 + j <= y /\ x + 1 < x + 1 + j
  OBVIOUS
<1>4. q \in 1..Len(s) /\ q <= at[a] /\ Now(at, a) < q
  BY <1>1, <1>3, Zenon DEF Now
<1>5. q \in Bodies(s)
  BY <1>1, <1>2, <1>4 DEF Bodies
<1>6. Now(at, h) <= Now(at, a) /\ Now(at, a) \in Nat /\ Now(at, h) \in Nat /\ q \in Nat
  <2>1. Now(at, a) \in Nat /\ Now(at, h) \in Nat
    <3>1. at[a - 1] \in Nat /\ at[h - 1] \in Nat
      BY <1>1
    <3> QED
      BY <3>1 DEF Now
  <2> QED
    BY <1>4, <2>1, HeaderFacts
<1>7. q > Now(at, h)
  BY <1>4, <1>6
<1>8. ASSUME NEW r \in Headers(s), r \in (Now(at, h) + 1)..q PROVE FALSE
  <2>1. PICK g \in Headers(m) : r = Now(at, g)
    BY HeaderFacts
  <2>2. g \in DOMAIN m /\ g \in Nat /\ h \in Nat /\ a \in Nat
    BY <2>1, PlaceFacts DEF Headers
  <2>3. r \in Nat /\ Now(at, h) < r /\ r <= q
    BY <1>6, <1>8
  <2>4. ~(g <= h)
    <3>1. g <= h => Now(at, g) <= Now(at, h)
      BY <2>2, HeaderFacts
    <3> QED
      BY <1>6, <2>1, <2>3, <3>1
  <2>5. ~(a < g)
    <3>1. a < g => at[a] <= at[g - 1]
      BY <2>2, PlaceFacts
    <3>2. r = at[g - 1] + 1 /\ at[g - 1] \in Nat
      BY <2>1, <2>2, PlaceFacts DEF Now
    <3> QED
      BY <1>1, <1>4, <1>6, <2>3, <3>1, <3>2
  <2>6. g \in (h + 1)..a
    BY <2>2, <2>4, <2>5
  <2> QED
    BY <2>1, <2>6
<1> HIDE DEF q
<1>9. s[q].text \in Block(s, Now(at, h))
  BY <1>5, <1>7, <1>8 DEF Block
<1> QED
  BY <1>1, <1>9

-----------------------------------------------------------------------------
(***************************************************************************)
(* The inductive invariant.                                                *)
(***************************************************************************)

GivenSound == \E family \in Families : given \in family

\* What has been appended is there, and patching starts when all of it is.
FilesInv ==
  /\ \A j \in 1..(next - 1) : Referenced[j] \in i386
  /\ pc \in {"txtsetup", "dosnet"} => next = Len(Referenced) + 1

\* A manifest is as it was given until its step.
ManifestInv ==
  /\ pc \in {"start", "append", "txtsetup"} => txtsetup = given.txtsetup
  /\ pc # "end" => dosnet = given.dosnet

IInv ==
  TypeOK /\ GivenSound /\ FilesInv /\ ManifestInv /\ OriginalKept /\ PresentBeforeNamed

LEMMA GivenFacts ==
  ASSUME GivenSound
  PROVE  /\ SectionsSound(given.pack)
         /\ \A m \in {given.txtsetup, given.dosnet} :
              IsSequence(m) /\ \A l \in ToSet(m) : Original(l)
         /\ IsSequence(Referenced) /\ IsSequence(PciPairs) /\ IsSequence(DriverSys)
         /\ ToSet(DriverSys) \subseteq ToSet(Referenced)
<1>1. /\ SectionsSound(given.pack)
      /\ \A m \in {given.txtsetup, given.dosnet} :
           IsSequence(m) /\ \A l \in ToSet(m) : Original(l)
  <2>1. IsPack(given.pack)
    BY GivenAssumption DEF GivenSound
  <2>2. SectionsSound(given.pack)
    BY <2>1 DEF IsPack, SectionsSound
  <2> QED
    BY <2>2, GivenAssumption DEF GivenSound, Original
<1>2. IsSequence(Referenced) /\ IsSequence(Ids)
  BY <1>1, ReferencedType, HardwareIdsType DEF Referenced, Ids
<1>3. PciPairs \in Seq(ToSet(Ids)) /\ DriverSys \in Seq(ToSet(Referenced))
  BY <1>2, FilterType DEF IsSequence, PciPairs, DriverSys, Filtered
<1>4. IsSequence(PciPairs) /\ IsSequence(DriverSys) /\ ToSet(DriverSys) \subseteq ToSet(Referenced)
  BY <1>3, SequenceOf
<1> QED
  BY <1>1, <1>2, <1>4

\* The lines a patch adds name referenced files only.
LEMMA AddedLines ==
  ASSUME GivenSound, DriverSys # <<>>, NEW section \in Required
  PROVE  /\ IsSequence(AddedTo(section))
         /\ \A l \in ToSet(AddedTo(section)) : Adds(l, ToSet(Referenced))
<1> DEFINE F == ToSet(Referenced)
           Sound(added) == IsSequence(added) /\ \A l \in ToSet(added) : Adds(l, F)
<1>1. ASSUME NEW W, NEW added \in Seq(W), \A l \in W : Adds(l, F)
      PROVE  Sound(added)
  BY <1>1, SequenceOf
<1>2. /\ Len(Referenced) \in Nat /\ DOMAIN Referenced = 1..Len(Referenced)
      /\ \A i \in DOMAIN Referenced : Referenced[i] \in F
  BY GivenFacts DEF IsSequence
<1>3. DriverSys[1] \in F
  <2>1. DriverSys \in Seq(ToSet(DriverSys)) /\ ToSet(DriverSys) \subseteq F
    BY GivenFacts DEF IsSequence
  <2>2. DriverSys \in Seq(F)
    BY <2>1
  <2> HIDE DEF F
  <2> QED
    BY <2>2
<1> HIDE DEF F, Sound
<1>4. CASE section = "SCSI.Load"
  <2> DEFINE l == Body(<<"load", Service, DriverSys[1]>>)
  <2>1. Adds(l, F)
    BY <1>3 DEF Adds, IsAdded, FileOf, Body
  <2>2. AddedTo(section) = <<l>>
    BY <1>4 DEF AddedTo
  <2> HIDE DEF l
  <2> DEFINE W == {l}
  <2>3. <<l>> \in Seq(W) /\ \A x \in W : Adds(x, F)
    BY <2>1
  <2> HIDE DEF W
  <2>4. Sound(<<l>>)
    BY <1>1, <2>3
  <2> QED
    BY <2>2, <2>4 DEF Sound, F
<1>5. CASE section = "SCSI"
  <2> DEFINE l == Body(<<"name", Service, DisplayName(given.pack, Service)>>)
  <2>1. Adds(l, F)
    BY DEF Adds, IsAdded, FileOf, Body
  <2>2. AddedTo(section) = <<l>>
    BY <1>5 DEF AddedTo
  <2> HIDE DEF l
  <2> DEFINE W == {l}
  <2>3. <<l>> \in Seq(W) /\ \A x \in W : Adds(x, F)
    BY <2>1
  <2> HIDE DEF W
  <2>4. Sound(<<l>>)
    BY <1>1, <2>3
  <2> QED
    BY <2>2, <2>4 DEF Sound, F
<1>6. CASE section = "HardwareIdsDatabase"
  <2> DEFINE line(i) == Body(<<"id", PciPairs[i][1], PciPairs[i][2]>>)
             W == {line(i) : i \in DOMAIN PciPairs}
             added == [i \in DOMAIN PciPairs |-> line(i)]
  <2>1. \A l \in W : Adds(l, F)
    BY DEF Adds, IsAdded, FileOf, Body
  <2>2. AddedTo(section) = added
    BY <1>6 DEF AddedTo
  <2>3. Len(PciPairs) \in Nat /\ DOMAIN PciPairs = 1..Len(PciPairs)
    BY GivenFacts DEF IsSequence
  <2> HIDE DEF line
  <2>4. added \in [1..Len(PciPairs) -> W]
    BY <2>3
  <2>5. added \in Seq(W)
    BY <2>3, <2>4
  <2>6. Sound(added)
    BY <1>1, <2>1, <2>5
  <2> QED
    BY <2>2, <2>6 DEF Sound, F
<1>7. CASE section = "SourceDisksFiles"
  <2> DEFINE line(i) == Body(<<"file", Referenced[i], DestOf(Referenced[i])>>)
             W == {line(i) : i \in DOMAIN Referenced}
             added == [i \in DOMAIN Referenced |-> line(i)]
  <2>1. \A l \in W : Adds(l, F)
    BY <1>2 DEF Adds, IsAdded, FileOf, Body
  <2>2. AddedTo(section) = added
    BY <1>7 DEF AddedTo
  <2> HIDE DEF line
  <2>3. added \in [1..Len(Referenced) -> W]
    BY <1>2
  <2>4. added \in Seq(W)
    BY <1>2, <2>3
  <2>5. Sound(added)
    BY <1>1, <2>1, <2>4
  <2> QED
    BY <2>2, <2>5 DEF Sound, F
<1> QED
  BY <1>4, <1>5, <1>6, <1>7 DEF Required

\* The lines the patches add.
Addable == UNION {ToSet(AddedTo(section)) : section \in Required}

Entries == {Body(<<"d1", Referenced[k]>>) : k \in DOMAIN Referenced}

\* What is added behind each line of a TXTSETUP.SIF, and of a DOSNET.INF.
SifAdditions(m) ==
  LET at(i) == {s \in Required : TxtsetupAnchor(m, s) = i}
  IN  [i \in DOMAIN m |-> IF at(i) = {} THEN <<>> ELSE AddedTo(CHOOSE s \in at(i) : TRUE)]

InfAdditions(m) ==
  LET entries == [k \in DOMAIN Referenced |-> Body(<<"d1", Referenced[k]>>)]
  IN  [i \in DOMAIN m |-> IF i = DosnetAnchor(m) THEN entries ELSE <<>>]

LEMMA SifAdditionsType ==
  ASSUME GivenSound, DriverSys # <<>>, NEW m
  PROVE  /\ SifAdditions(m) \in [DOMAIN m -> Seq(Addable)]
         /\ \A l \in Addable : Adds(l, ToSet(Referenced))
<1> DEFINE at(i) == {s \in Required : TxtsetupAnchor(m, s) = i}
<1>1. ASSUME NEW section \in Required PROVE AddedTo(section) \in Seq(Addable)
  <2>1. AddedTo(section) \in Seq(ToSet(AddedTo(section)))
    BY AddedLines DEF IsSequence
  <2>2. ToSet(AddedTo(section)) \subseteq Addable
    BY DEF Addable
  <2> QED
    BY <2>1, <2>2
<1>2. \A l \in Addable : Adds(l, ToSet(Referenced))
  BY AddedLines DEF Addable
<1>3. ASSUME NEW i \in DOMAIN m
      PROVE  (IF at(i) = {} THEN <<>> ELSE AddedTo(CHOOSE s \in at(i) : TRUE)) \in Seq(Addable)
  <2>1. CASE at(i) = {}
    <3>1. <<>> \in Seq(Addable)
      OBVIOUS
    <3> QED
      BY <2>1, <3>1
  <2>2. CASE at(i) # {}
    <3>1. (CHOOSE s \in at(i) : TRUE) \in at(i)
      BY <2>2
    <3>2. (CHOOSE s \in at(i) : TRUE) \in Required
      BY <3>1
    <3> HIDE DEF at
    <3> QED
      BY <1>1, <2>2, <3>2
  <2> QED
    BY <2>1, <2>2
<1>4. SifAdditions(m) =
        [i \in DOMAIN m |-> IF at(i) = {} THEN <<>> ELSE AddedTo(CHOOSE s \in at(i) : TRUE)]
  BY DEF SifAdditions
<1> HIDE DEF at
<1> QED
  BY <1>2, <1>3, <1>4

LEMMA InfAdditionsType ==
  ASSUME GivenSound, NEW m
  PROVE  /\ InfAdditions(m) \in [DOMAIN m -> Seq(Entries)]
         /\ \A l \in Entries : Adds(l, ToSet(Referenced))
<1> DEFINE F == ToSet(Referenced)
           line(k) == Body(<<"d1", Referenced[k]>>)
           entries == [k \in DOMAIN Referenced |-> line(k)]
<1>1. /\ Len(Referenced) \in Nat /\ DOMAIN Referenced = 1..Len(Referenced)
      /\ \A i \in DOMAIN Referenced : Referenced[i] \in F
  BY GivenFacts DEF IsSequence
<1>2. \A l \in Entries : Adds(l, F)
  BY <1>1 DEF Adds, IsAdded, FileOf, Body, Entries
<1>3. Entries = {line(k) : k \in DOMAIN Referenced}
  BY DEF Entries
<1>4. InfAdditions(m) = [i \in DOMAIN m |-> IF i = DosnetAnchor(m) THEN entries ELSE <<>>]
  BY DEF InfAdditions
<1> HIDE DEF line, F
<1>5. entries \in [1..Len(Referenced) -> Entries]
  BY <1>1, <1>3
<1>6. entries \in Seq(Entries) /\ <<>> \in Seq(Entries)
  BY <1>1, <1>5
<1> HIDE DEF entries
<1>7. InfAdditions(m) \in [DOMAIN m -> Seq(Entries)]
  BY <1>4, <1>6
<1> QED
  BY <1>2, <1>7 DEF F

\* A patched manifest, without what was added, is the one it was made from.
Patches(patched, m) ==
  /\ Without(patched) = m /\ Tagged(patched)
  /\ FilesNamed(patched) \subseteq ToSet(Referenced)

LEMMA TxtsetupPatched ==
  ASSUME GivenSound, txtsetup = given.txtsetup, DriverSys # <<>>
  PROVE  Patches(PatchedTxtsetup, txtsetup)
<1>1. PatchedTxtsetup = Spliced(txtsetup, SifAdditions(txtsetup))
  BY DEF PatchedTxtsetup, SifAdditions
<1>2. IsSequence(txtsetup) /\ \A l \in ToSet(txtsetup) : Original(l)
  BY GivenFacts
<1>3. /\ SifAdditions(txtsetup) \in [DOMAIN txtsetup -> Seq(Addable)]
      /\ \A l \in Addable : Adds(l, ToSet(Referenced))
  BY SifAdditionsType
<1> QED
  BY <1>1, <1>2, <1>3, SplicedSound DEF Patches

LEMMA DosnetPatched ==
  ASSUME GivenSound, dosnet = given.dosnet
  PROVE  Patches(PatchedDosnet, dosnet)
<1>1. PatchedDosnet = Spliced(dosnet, InfAdditions(dosnet))
  BY DEF PatchedDosnet, InfAdditions
<1>2. IsSequence(dosnet) /\ \A l \in ToSet(dosnet) : Original(l)
  BY GivenFacts
<1>3. /\ InfAdditions(dosnet) \in [DOMAIN dosnet -> Seq(Entries)]
      /\ \A l \in Entries : Adds(l, ToSet(Referenced))
  BY InfAdditionsType
<1> QED
  BY <1>1, <1>2, <1>3, SplicedSound DEF Patches

-----------------------------------------------------------------------------
(***************************************************************************)
(* Every step preserves the invariant.                                     *)
(***************************************************************************)

LEMMA InitSound == Init => IInv
<1> SUFFICES ASSUME Init PROVE IInv
  OBVIOUS
<1>1. GivenSound
  BY DEF Init, GivenSound
<1>2. Len(Referenced) \in Nat
  BY <1>1, GivenFacts DEF IsSequence
<1>3. \A m \in {txtsetup, dosnet} : Tagged(m) /\ FilesNamed(m) = {} /\ Without(m) = m
  BY <1>1, GivenFacts, OriginalFacts DEF Init
<1>4. TypeOK
  BY <1>2, <1>3 DEF Init, TypeOK, Tagged, Referenced
<1>5. FilesInv /\ ManifestInv
  BY DEF Init, FilesInv, ManifestInv
<1>6. OriginalKept /\ PresentBeforeNamed
  BY <1>3 DEF Init, OriginalKept, Kept, PresentBeforeNamed
<1> QED
  BY <1>1, <1>4, <1>5, <1>6 DEF IInv

\* What follows from `given' stays, since it does.
LEMMA Constant ==
  ASSUME given' = given
  PROVE  /\ GivenSound' = GivenSound /\ Referenced' = Referenced
         /\ ReferencedFilenames(given.pack)' = ReferencedFilenames(given.pack)
BY DEF GivenSound, Referenced

LEMMA ReadSound == IInv /\ ReadPack => IInv'
<1> SUFFICES ASSUME IInv, ReadPack PROVE IInv'
  OBVIOUS
<1> USE DEF IInv
<1>1. /\ UNCHANGED <<given, next, i386, txtsetup, dosnet>> /\ pc = "start"
      /\ pc' \in {"append", "end"} /\ (pc' = "end" => report' = "failure")
      /\ (pc' = "append" => report' = report)
  BY DEF ReadPack, Goto, Bail
<1>2. GivenSound' /\ Referenced' = Referenced
  BY <1>1, Constant
<1>3. TypeOK'
  BY <1>1 DEF TypeOK
<1>4. FilesInv' /\ ManifestInv'
  BY <1>1, <1>2 DEF FilesInv, ManifestInv
<1>5. OriginalKept'
  BY <1>1 DEF OriginalKept, Kept, TypeOK
<1>6. PresentBeforeNamed'
  BY <1>1 DEF PresentBeforeNamed, FilesNamed
<1> QED
  BY <1>2, <1>3, <1>4, <1>5, <1>6

LEMMA AppendSound == IInv /\ AppendDriver => IInv'
<1> SUFFICES ASSUME IInv, AppendDriver PROVE IInv'
  OBVIOUS
<1> USE DEF IInv
<1>1. UNCHANGED <<given, txtsetup, dosnet>> /\ pc = "append" /\ next <= Len(Referenced)
  BY DEF AppendDriver
<1>2. GivenSound' /\ Referenced' = Referenced
  BY <1>1, Constant
<1>3. Len(Referenced) \in Nat /\ next \in 1..Len(Referenced)
  <2>1. Len(Referenced) \in Nat /\ next \in 1..(Len(Referenced) + 1)
    BY GivenFacts DEF IsSequence, TypeOK, Referenced
  <2> QED
    BY <1>1, <2>1
<1>4. CASE /\ Referenced[next] \in given.dir \ i386
           /\ i386' = i386 \cup {Referenced[next]}
           /\ next' = next + 1
           /\ Goto(IF next = Len(Referenced) THEN "txtsetup" ELSE "append")
  <2>1. /\ pc' = IF next = Len(Referenced) THEN "txtsetup" ELSE "append"
        /\ report' = report
    BY <1>4 DEF Goto
  <2>2. next' \in 1..(Len(Referenced) + 1)
    BY <1>3, <1>4
  <2>3. TypeOK'
    <3>1. next' \in 1..(Len(ReferencedFilenames(given.pack)) + 1)'
      BY <1>1, <1>2, <2>2 DEF Referenced
    <3>2. i386' \subseteq given.holds \cup given.dir
      BY <1>4 DEF TypeOK
    <3> QED
      BY <1>1, <2>1, <3>1, <3>2 DEF TypeOK
  <2>4. FilesInv'
    <3>1. ASSUME NEW j \in 1..(next' - 1) PROVE Referenced[j] \in i386'
      <4>1. j \in 1..(next - 1) \/ j = next
        BY <1>3, <1>4
      <4> QED
        BY <1>4, <4>1 DEF FilesInv
    <3>2. pc' \in {"txtsetup", "dosnet"} => next' = Len(Referenced) + 1
      BY <1>4, <2>1
    <3> QED
      BY <1>2, <3>1, <3>2 DEF FilesInv
  <2>5. ManifestInv'
    BY <1>1, <2>1 DEF ManifestInv
  <2>6. OriginalKept'
    BY <1>1, <2>1 DEF OriginalKept, Kept
  <2>7. PresentBeforeNamed'
    BY <1>1, <1>4 DEF PresentBeforeNamed, FilesNamed
  <2> QED
    BY <1>2, <2>3, <2>4, <2>5, <2>6, <2>7
<1>5. CASE /\ Bail
           /\ i386' \in {i386, i386 \cup ({Referenced[next]} \cap given.dir)}
           /\ UNCHANGED next
  <2>1. pc' = "end" /\ report' = "failure" /\ next' = next /\ i386 \subseteq i386'
    BY <1>5 DEF Bail
  <2>2. TypeOK'
    BY <1>1, <1>5, <2>1 DEF TypeOK
  <2>3. FilesInv' /\ ManifestInv'
    BY <1>1, <1>2, <2>1 DEF FilesInv, ManifestInv
  <2>4. OriginalKept'
    BY <1>1, <2>1 DEF OriginalKept, Kept, TypeOK
  <2>5. PresentBeforeNamed'
    BY <1>1, <2>1 DEF PresentBeforeNamed, FilesNamed
  <2> QED
    BY <1>2, <2>2, <2>3, <2>4, <2>5
<1> QED
  BY <1>4, <1>5 DEF AppendDriver

\* When the manifests are patched, every referenced file is there.
LEMMA AllPresent ==
  ASSUME IInv, pc \in {"txtsetup", "dosnet"}
  PROVE  ToSet(Referenced) \subseteq i386
<1>1. Referenced \in Seq(ToSet(Referenced)) /\ next = Len(Referenced) + 1
  BY GivenFacts DEF IInv, FilesInv, IsSequence
<1>2. DOMAIN Referenced = 1..Len(Referenced) /\ Len(Referenced) \in Nat
  BY <1>1
<1>3. \A j \in DOMAIN Referenced : Referenced[j] \in i386
  <2>1. next - 1 = Len(Referenced)
    BY <1>1, <1>2
  <2> QED
    BY <1>2, <2>1 DEF IInv, FilesInv
<1> QED
  BY <1>3 DEF ToSet

LEMMA TxtsetupSound == IInv /\ PatchTxtsetupSif => IInv'
<1> SUFFICES ASSUME IInv, PatchTxtsetupSif PROVE IInv'
  OBVIOUS
<1> USE DEF IInv
<1>1. UNCHANGED <<given, next, i386, dosnet>> /\ pc = "txtsetup" /\ report = "none"
  BY DEF PatchTxtsetupSif, TypeOK
<1>2. GivenSound' /\ Referenced' = Referenced
  BY <1>1, Constant
<1>3. /\ txtsetup = given.txtsetup /\ dosnet = given.dosnet
      /\ Tagged(txtsetup) /\ Tagged(dosnet)
      /\ Without(txtsetup) = given.txtsetup /\ Without(dosnet) = given.dosnet
  BY <1>1 DEF ManifestInv, TypeOK, Tagged, OriginalKept, Kept
<1>4. FilesNamed(txtsetup) \subseteq i386 /\ FilesNamed(dosnet) \subseteq i386
  BY DEF PresentBeforeNamed
<1>5. /\ pc' \in {"dosnet", "end"}
      /\ (pc' = "dosnet" => report' = "none") /\ (pc' = "end" => report' = "failure")
      /\ \/ txtsetup' = txtsetup
         \/ DriverSys # <<>> /\ txtsetup' = PatchedTxtsetup
         \/ pc' = "end" /\ txtsetup' = Lost
  BY <1>1 DEF PatchTxtsetupSif, Goto, Bail, Unpatchable
<1>6. /\ Tagged(txtsetup') /\ FilesNamed(txtsetup') \subseteq i386
      /\ Without(txtsetup') = given.txtsetup \/ (pc' = "end" /\ txtsetup' = Lost)
  <2>1. CASE txtsetup' = txtsetup
    BY <1>3, <1>4, <2>1
  <2>2. CASE DriverSys # <<>> /\ txtsetup' = PatchedTxtsetup
    <3>1. Patches(PatchedTxtsetup, txtsetup)
      BY <1>3, <2>2, TxtsetupPatched
    <3> QED
      BY <1>1, <1>3, <2>2, <3>1, AllPresent DEF Patches
  <2>3. CASE pc' = "end" /\ txtsetup' = Lost
    BY <2>3, LostFacts
  <2> QED
    BY <1>5, <2>1, <2>2, <2>3
<1>7. TypeOK'
  BY <1>1, <1>3, <1>5, <1>6 DEF TypeOK, Tagged
<1>8. FilesInv' /\ ManifestInv'
  BY <1>1, <1>2, <1>5 DEF FilesInv, ManifestInv
<1>9. OriginalKept'
  BY <1>1, <1>3, <1>5, <1>6 DEF OriginalKept, Kept
<1>10. PresentBeforeNamed'
  BY <1>1, <1>4, <1>6 DEF PresentBeforeNamed, FilesNamed
<1> QED
  BY <1>2, <1>7, <1>8, <1>9, <1>10

LEMMA DosnetSound == IInv /\ PatchDosnetInf => IInv'
<1> SUFFICES ASSUME IInv, PatchDosnetInf PROVE IInv'
  OBVIOUS
<1> USE DEF IInv
<1>1. UNCHANGED <<given, next, i386, txtsetup>> /\ pc = "dosnet" /\ report = "none"
  BY DEF PatchDosnetInf, TypeOK
<1>2. GivenSound' /\ Referenced' = Referenced
  BY <1>1, Constant
<1>3. /\ dosnet = given.dosnet /\ Tagged(txtsetup) /\ Tagged(dosnet)
      /\ Without(txtsetup) = given.txtsetup /\ Without(dosnet) = given.dosnet
  BY <1>1 DEF ManifestInv, TypeOK, Tagged, OriginalKept, Kept
<1>4. FilesNamed(txtsetup) \subseteq i386 /\ FilesNamed(dosnet) \subseteq i386
  BY DEF PresentBeforeNamed
<1>5. /\ pc' = "end" /\ report' \in {"success", "failure"}
      /\ \/ dosnet' = dosnet
         \/ dosnet' = PatchedDosnet
         \/ report' = "failure" /\ dosnet' = Lost
  BY DEF PatchDosnetInf, Bail
<1>6. /\ Tagged(dosnet') /\ FilesNamed(dosnet') \subseteq i386
      /\ Without(dosnet') = given.dosnet \/ (report' = "failure" /\ dosnet' = Lost)
  <2>1. CASE dosnet' = dosnet
    BY <1>3, <1>4, <2>1
  <2>2. CASE dosnet' = PatchedDosnet
    <3>1. Patches(PatchedDosnet, dosnet)
      BY <1>3, DosnetPatched
    <3> QED
      BY <1>1, <1>3, <2>2, <3>1, AllPresent DEF Patches
  <2>3. CASE report' = "failure" /\ dosnet' = Lost
    BY <2>3, LostFacts
  <2> QED
    BY <1>5, <2>1, <2>2, <2>3
<1>7. TypeOK'
  BY <1>1, <1>3, <1>5, <1>6 DEF TypeOK, Tagged
<1>8. FilesInv' /\ ManifestInv'
  BY <1>1, <1>2, <1>5 DEF FilesInv, ManifestInv
<1>9. OriginalKept'
  BY <1>1, <1>3, <1>6 DEF OriginalKept, Kept
<1>10. PresentBeforeNamed'
  BY <1>1, <1>4, <1>6 DEF PresentBeforeNamed, FilesNamed
<1> QED
  BY <1>2, <1>7, <1>8, <1>9, <1>10

LEMMA StutterSound == IInv /\ UNCHANGED vars => IInv'
BY DEF vars, IInv, TypeOK, GivenSound, FilesInv, ManifestInv, OriginalKept, Kept,
       PresentBeforeNamed, FilesNamed, Referenced

LEMMA Invariance == Spec => []IInv
<1>1. IInv /\ [Next]_vars => IInv'
  BY ReadSound, AppendSound, TxtsetupSound, DosnetSound, StutterSound DEF Next, Done
<1> QED
  BY InitSound, <1>1, PTL DEF Spec

-----------------------------------------------------------------------------
(***************************************************************************)
(* Where the lines of a patch go, and what Setup then reads.               *)
(***************************************************************************)

\* Between the first header of a name and its anchor all headers have that
\* name.
LEMMA TxtsetupAnchorFacts ==
  ASSUME NEW V, NEW m \in Seq(V), NEW name, Named(m, name) # {}
  PROVE  LET first == Min(Named(m, name))
             a     == TxtsetupAnchor(m, name)
         IN  /\ first \in Named(m, name) /\ a \in DOMAIN m /\ first <= a
             /\ \A h \in Headers(m) : h \in first..a => m[h] = Header(name)
<1> DEFINE n == Len(m)
           first == Min(Named(m, name))
           own == {i \in Bodies(m) :
                     /\ i > first
                     /\ \A h \in Headers(m) : h \in first..i => m[h] = Header(name)}
           a == Max(own \cup {first})
<1>1. n \in Nat /\ DOMAIN m = 1..n
  OBVIOUS
<1>2. first \in Named(m, name) /\ first \in 1..n /\ m[first] = Header(name)
  <2>1. Named(m, name) \in SUBSET (1..n)
    BY <1>1 DEF Named
  <2>2. first \in Named(m, name)
    BY <1>1, <2>1, MinFacts
  <2> QED
    BY <1>1, <2>2 DEF Named
<1> HIDE DEF first
<1>3. own \cup {first} \in SUBSET (1..n)
  BY <1>1, <1>2 DEF Bodies
<1>4. a \in own \cup {first} /\ first <= a
  <2> DEFINE S == own \cup {first}
  <2>1. S \in SUBSET (1..n) /\ first \in S
    BY <1>3
  <2> HIDE DEF S
  <2>2. Max(S) \in S /\ first <= Max(S)
    BY <1>1, <2>1, MaxFacts
  <2> QED
    BY <2>2 DEF S
<1>5. a \in DOMAIN m
  BY <1>1, <1>3, <1>4
<1> HIDE DEF a
<1>6. ASSUME NEW h \in Headers(m), h \in first..a PROVE m[h] = Header(name)
  <2>1. CASE a = first
    <3>1. h = first
      BY <1>2, <1>6, <2>1
    <3> QED
      BY <1>2, <3>1
  <2>2. CASE a \in own
    BY <1>6, <2>2
  <2> QED
    BY <1>4, <2>1, <2>2
<1>7. a = TxtsetupAnchor(m, name)
  BY DEF TxtsetupAnchor, a, first
<1> QED
  BY <1>2, <1>4, <1>5, <1>6, <1>7 DEF first

LEMMA DosnetAnchorFacts ==
  ASSUME NEW V, NEW m \in Seq(V), Named(m, "Files") # {}
  PROVE  LET last == Max(Named(m, "Files"))
             a    == DosnetAnchor(m)
         IN  /\ last \in Named(m, "Files") /\ a \in DOMAIN m /\ last <= a
             /\ \A h \in Headers(m) : ~(h \in (last + 1)..a)
<1> DEFINE n == Len(m)
           last == Max(Named(m, "Files"))
           own == {i \in Bodies(m) :
                     i > last /\ \A h \in Headers(m) : ~(h \in (last + 1)..i)}
           a == Max(own \cup {last})
<1>1. n \in Nat /\ DOMAIN m = 1..n
  OBVIOUS
<1>2. last \in Named(m, "Files") /\ last \in 1..n
  <2>1. Named(m, "Files") \in SUBSET (1..n)
    BY <1>1 DEF Named
  <2>2. last \in Named(m, "Files")
    BY <1>1, <2>1, MaxFacts
  <2> QED
    BY <2>1, <2>2
<1> HIDE DEF last
<1>3. own \cup {last} \in SUBSET (1..n)
  BY <1>1, <1>2 DEF Bodies
<1>4. a \in own \cup {last} /\ last <= a
  <2> DEFINE S == own \cup {last}
  <2>1. S \in SUBSET (1..n) /\ last \in S
    BY <1>3
  <2> HIDE DEF S
  <2>2. Max(S) \in S /\ last <= Max(S)
    BY <1>1, <2>1, MaxFacts
  <2> QED
    BY <2>2 DEF S
<1>5. a \in DOMAIN m
  BY <1>1, <1>3, <1>4
<1> HIDE DEF a
<1>6. ASSUME NEW h \in Headers(m), h \in (last + 1)..a PROVE FALSE
  <2>1. CASE a = last
    BY <1>2, <1>6, <2>1
  <2>2. CASE a \in own
    BY <1>6, <2>2
  <2> QED
    BY <1>4, <2>1, <2>2
<1>7. a = DosnetAnchor(m)
  BY DEF DosnetAnchor, a, last
<1> QED
  BY <1>2, <1>4, <1>5, <1>6, <1>7 DEF last

\* Two sections never have their additions at one place.
LEMMA AnchorsApart ==
  ASSUME NEW V, NEW m \in Seq(V), NEW x, NEW y,
         Named(m, x) # {}, Named(m, y) # {}, TxtsetupAnchor(m, x) = TxtsetupAnchor(m, y)
  PROVE  x = y
<1> DEFINE fx == Min(Named(m, x))
           fy == Min(Named(m, y))
           a == TxtsetupAnchor(m, x)
<1>1. /\ fx \in Named(m, x) /\ a \in DOMAIN m /\ fx <= a
      /\ \A h \in Headers(m) : h \in fx..a => m[h] = Header(x)
  BY TxtsetupAnchorFacts
<1>2. /\ fy \in Named(m, y) /\ fy <= a
      /\ \A h \in Headers(m) : h \in fy..a => m[h] = Header(y)
  BY TxtsetupAnchorFacts
<1> HIDE DEF fx, fy, a
<1>3. /\ fx \in Headers(m) /\ m[fx] = Header(x) /\ fx \in Nat
      /\ fy \in Headers(m) /\ m[fy] = Header(y) /\ fy \in Nat /\ a \in Nat
  <2>1. fx \in DOMAIN m /\ m[fx] = Header(x) /\ fy \in DOMAIN m /\ m[fy] = Header(y)
    BY <1>1, <1>2 DEF Named
  <2>2. DOMAIN m = 1..Len(m) /\ Len(m) \in Nat
    OBVIOUS
  <2>3. fx \in Nat /\ fy \in Nat /\ a \in Nat
    BY <1>1, <2>1, <2>2
  <2> QED
    BY <2>1, <2>3 DEF Headers, Header
<1>4. Header(x) = Header(y)
  <2>1. CASE fx <= fy
    <3>1. fy \in fx..a
      BY <1>2, <1>3, <2>1
    <3> QED
      BY <1>1, <1>3, <3>1
  <2>2. CASE fy <= fx
    <3>1. fx \in fy..a
      BY <1>1, <1>3, <2>2
    <3> QED
      BY <1>2, <1>3, <3>1
  <2>3. \A i, j \in Nat : i <= j \/ j <= i
    OBVIOUS
  <2>4. fx <= fy \/ fy <= fx
    BY <1>3, <2>3, Zenon
  <2> QED
    BY <2>1, <2>2, <2>4
<1>5. Header(x).text = Header(y).text
  BY <1>4
<1> QED
  BY <1>5 DEF Header

\* The lines of a manifest as the slipstream is given it, or adds them.
LEMMA PatchAdds ==
  ASSUME NEW m, IsSequence(m), NEW A, NEW added \in [DOMAIN m -> Seq(A)],
         \A l \in A : IsAdded(l)
  PROVE  \E V, at : Added(V, m, added, Spliced(m, added), at)
<1> DEFINE V == ToSet(m) \cup A
           s == Spliced(m, added)
<1>1. m \in Seq(ToSet(m)) /\ DOMAIN m = 1..Len(m) /\ Len(m) \in Nat
  BY DEF IsSequence
<1>2. m \in Seq(V)
  BY <1>1
<1>3. added \in [DOMAIN m -> Seq(V)]
  <2>1. \A i \in DOMAIN m : added[i] \in Seq(A)
    OBVIOUS
  <2>2. \A t \in Seq(A) : t \in Seq(V)
    OBVIOUS
  <2> HIDE DEF V
  <2> QED
    BY <2>1, <2>2
<1>4. \A i \in DOMAIN m : \A k \in DOMAIN added[i] : added[i][k].tag = "body"
  <2>1. ASSUME NEW i \in DOMAIN m, NEW k \in DOMAIN added[i] PROVE added[i][k].tag = "body"
    <3>1. added[i] \in Seq(A)
      OBVIOUS
    <3>2. added[i][k] \in A
      BY <3>1
    <3> QED
      BY <3>2 DEF IsAdded
  <2> QED
    BY <2>1
<1> HIDE DEF V
<1>5. s \in Seq(V)
  <2> DEFINE ss == [i \in DOMAIN m |-> <<m[i]>> \o added[i]]
  <2>1. ASSUME NEW i \in DOMAIN m PROVE <<m[i]>> \o added[i] \in Seq(V)
    <3>1. m[i] \in V /\ added[i] \in Seq(V)
      BY <1>2, <1>3
    <3> QED
      BY <3>1
  <2>2. ss \in [1..Len(m) -> Seq(V)]
    BY <1>1, <2>1
  <2> HIDE DEF ss
  <2>3. ss \in Seq(Seq(V))
    BY <1>1, <2>2
  <2>4. FlattenSeq(ss) \in Seq(V)
    BY <2>3, FlattenType
  <2> QED
    BY <2>4 DEF Spliced, ss
<1>6. PICK at : Places(at, m, added, s)
  BY <1>2, <1>3, SplicedPlaces
<1> HIDE DEF s
<1>7. Added(V, m, added, s, at)
  BY <1>2, <1>3, <1>4, <1>5, <1>6 DEF Added
<1> QED
  BY <1>7 DEF s

\* In a patched TXTSETUP.SIF every line that was added to a section is under
\* the first header of its name, unless two headers of that name adjoin.
LEMMA AddedToFirstBlock ==
  ASSUME GivenSound, DriverSys # <<>>, NEW m, IsSequence(m),
         \A name \in Required : Named(m, name) # {},
         NEW section \in Required, ~Adjoining(m, section),
         NEW k \in DOMAIN AddedTo(section)
  PROVE  AddedTo(section)[k].text \in FirstBlock(Spliced(m, SifAdditions(m)), section)
<1> DEFINE added == SifAdditions(m)
           s == Spliced(m, added)
           first == Min(Named(m, section))
           a == TxtsetupAnchor(m, section)
           at(i) == {name \in Required : TxtsetupAnchor(m, name) = i}
<1>1. added \in [DOMAIN m -> Seq(Addable)] /\ \A l \in Addable : IsAdded(l)
  BY SifAdditionsType DEF Adds
<1>2. m \in Seq(ToSet(m)) /\ DOMAIN m = 1..Len(m) /\ Len(m) \in Nat
  BY DEF IsSequence
<1>3. /\ first \in Named(m, section) /\ a \in DOMAIN m /\ first <= a
      /\ \A h \in Headers(m) : h \in first..a => m[h] = Header(section)
  BY <1>2, TxtsetupAnchorFacts
<1>4. added[a] = AddedTo(section)
  <2>1. ASSUME NEW name \in at(a) PROVE name = section
    <3>1. name \in Required /\ TxtsetupAnchor(m, name) = TxtsetupAnchor(m, section)
      OBVIOUS
    <3>3. Named(m, name) # {} /\ Named(m, section) # {}
      BY <3>1
    <3> HIDE DEF a, added, s, first, at
    <3> QED
      BY <1>2, <3>1, <3>3, AnchorsApart
  <2>2. section \in at(a)
    OBVIOUS
  <2>3. added[a] = IF at(a) = {} THEN <<>> ELSE AddedTo(CHOOSE x \in at(a) : TRUE)
    BY <1>3 DEF SifAdditions
  <2>4. (CHOOSE x \in at(a) : TRUE) \in at(a)
    BY <2>2
  <2> HIDE DEF at, added
  <2> QED
    BY <2>1, <2>2, <2>3, <2>4
<1>5. \A g \in Headers(m) : ~(g \in (first + 1)..a)
  <2>1. ASSUME NEW g \in Headers(m), g \in (first + 1)..a PROVE FALSE
    <3>1. first \in Nat /\ a \in Nat /\ g \in Nat
      BY <1>2, <1>3, <2>1 DEF Named, Headers
    <3>2. g > first
      BY <2>1, <3>1
    <3>3. ASSUME NEW h \in Headers(m), h \in first..g PROVE m[h] = Header(section)
      <4>1. h \in first..a
        BY <2>1, <3>1, <3>3
      <4> QED
        BY <1>3, <4>1
    <3>4. Adjoining(m, section)
      BY <3>2, <3>3 DEF Adjoining
    <3> QED
      BY <3>4
  <2> QED
    BY <2>1
<1> HIDE DEF added, first, a
<1>6. PICK V, place : Added(V, m, added, s, place)
  BY <1>1, PatchAdds
<1> HIDE DEF s
<1>7. Min(Named(s, section)) = Now(place, first)
  BY <1>6, NamedFacts DEF first
<1>8. first \in DOMAIN m
  BY <1>3 DEF Named
<1>9. k \in DOMAIN added[a]
  BY <1>4
<1>10. added[a][k].text \in Block(s, Now(place, first))
  BY <1>3, <1>5, <1>6, <1>8, <1>9, AddedInBlock
<1> QED
  BY <1>4, <1>7, <1>10 DEF FirstBlock, s, added

\* In a patched DOSNET.INF every entry that was added is under the last
\* [Files].
LEMMA AddedToLastBlock ==
  ASSUME GivenSound, NEW m, IsSequence(m), Named(m, "Files") # {},
         NEW k \in DOMAIN Referenced
  PROVE  LET s == Spliced(m, InfAdditions(m))
         IN  <<"d1", Referenced[k]>> \in Block(s, Max(Named(s, "Files")))
<1> DEFINE added == InfAdditions(m)
           s == Spliced(m, added)
           last == Max(Named(m, "Files"))
           a == DosnetAnchor(m)
<1>1. added \in [DOMAIN m -> Seq(Entries)] /\ \A l \in Entries : IsAdded(l)
  BY InfAdditionsType DEF Adds
<1>2. m \in Seq(ToSet(m))
  BY DEF IsSequence
<1>3. /\ last \in Named(m, "Files") /\ a \in DOMAIN m /\ last <= a
      /\ \A h \in Headers(m) : ~(h \in (last + 1)..a)
  BY <1>2, DosnetAnchorFacts
<1>4. k \in DOMAIN added[a] /\ added[a][k].text = <<"d1", Referenced[k]>>
  <2>1. added[a] = [j \in DOMAIN Referenced |-> Body(<<"d1", Referenced[j]>>)]
    BY <1>3 DEF InfAdditions
  <2> HIDE DEF added, a
  <2>2. k \in DOMAIN added[a] /\ added[a][k] = Body(<<"d1", Referenced[k]>>)
    BY <2>1
  <2> QED
    BY <2>2 DEF Body
<1> HIDE DEF added, last, a
<1>5. PICK V, place : Added(V, m, added, s, place)
  BY <1>1, PatchAdds
<1> HIDE DEF s
<1>6. Max(Named(s, "Files")) = Now(place, last)
  BY <1>5, NamedFacts DEF last
<1>7. last \in DOMAIN m
  BY <1>3 DEF Named
<1>8. added[a][k].text \in Block(s, Now(place, last))
  BY <1>3, <1>4, <1>5, <1>7, AddedInBlock
<1> QED
  BY <1>4, <1>6, <1>8 DEF s, added

-----------------------------------------------------------------------------
(***************************************************************************)
(* What a burn has settled by the time it succeeds.                        *)
(***************************************************************************)

\* Every hardware id is for a service.
LEMMA IdsNameServices ==
  ASSUME NEW pack, SectionsSound(pack), NEW i \in DOMAIN HardwareIds(pack)
  PROVE  HardwareIds(pack)[i][2] # None
<1> DEFINE t == Keyed(LinesOf(OfKind(pack, "HardwareIds")))
           I == {j \in DOMAIN t : t[j].value # None /\ t[j].extra # None}
           s == IdLines(pack)
           v == [j \in DOMAIN s |-> <<s[j].value, s[j].extra>>]
           U == {<<l.value, l.extra>> : l \in LinesIn(pack)}
           J == {j \in DOMAIN v : \A k \in 1..(j - 1) : v[k] # v[j]}
<1>1. t \in Seq(LinesIn(pack))
  BY LinesType, FilterType DEF Keyed, Filtered
<1>2. s = Chosen(t, I)
  BY DEF IdLines, Filtered
<1>3. ASSUME NEW l \in ToSet(s) PROVE l.extra # None
  <2>1. PICK j \in 1..Len(t) : j \in I /\ l = t[j]
    <3> HIDE DEF t, I, s
    <3> QED
      BY <1>1, <1>2, <1>3, ChosenWithin
  <2> QED
    BY <2>1
<1>4. s \in Seq(LinesIn(pack))
  <2> HIDE DEF t, I, s
  <2> QED
    BY <1>1, <1>2, FilterType
<1> HIDE DEF s
<1>5. /\ Len(s) \in Nat /\ DOMAIN s = 1..Len(s)
      /\ \A j \in DOMAIN s : s[j] \in ToSet(s) /\ s[j] \in LinesIn(pack)
  BY <1>4 DEF ToSet
<1>6. v \in Seq(U) /\ DOMAIN v = 1..Len(v) /\ DOMAIN v = DOMAIN s
  <2>1. v \in [1..Len(s) -> U]
    BY <1>5
  <2> HIDE DEF U
  <2> QED
    BY <1>5, <2>1
<1>7. HardwareIds(pack) = Chosen(v, J)
  BY DEF HardwareIds, Distinct, s
<1>8. HardwareIds(pack)[i] \in ToSet(HardwareIds(pack))
  BY DEF ToSet
<1>9. PICK j \in 1..Len(v) : HardwareIds(pack)[i] = v[j]
  <2> HIDE DEF v, J, U
  <2> QED
    BY <1>6, <1>7, <1>8, ChosenWithin
<1>10. v[j] = <<s[j].value, s[j].extra>> /\ s[j] \in ToSet(s)
  BY <1>5, <1>6
<1> QED
  BY <1>3, <1>9, <1>10

\* A PCI pair is one of the hardware ids; a driver file that is loaded is one
\* the pack refers to.
LEMMA PciFacts ==
  ASSUME GivenSound, NEW i \in DOMAIN PciPairs
  PROVE  \E j \in DOMAIN Ids : PciPairs[i] = Ids[j]
<1> DEFINE I == {j \in DOMAIN Ids : Ids[j][1] \in PciIds}
<1>1. Ids \in Seq(ToSet(Ids)) /\ DOMAIN Ids = 1..Len(Ids)
  BY GivenFacts, HardwareIdsType DEF IsSequence, Ids
<1>2. PciPairs = Chosen(Ids, I)
  BY DEF PciPairs, Filtered
<1>3. PciPairs[i] \in ToSet(Chosen(Ids, I))
  BY <1>2 DEF ToSet
<1> HIDE DEF I
<1> QED
  BY <1>1, <1>3, ChosenWithin

LEMMA LoadedFacts ==
  ASSUME GivenSound, DriverSys # <<>>
  PROVE  \E k \in DOMAIN Referenced : DriverSys[1] = Referenced[k] /\ DriverSys[1] \in SysFiles
<1> DEFINE I == {j \in DOMAIN Referenced : Referenced[j] \in SysFiles}
<1>1. Referenced \in Seq(ToSet(Referenced)) /\ DOMAIN Referenced = 1..Len(Referenced)
  BY GivenFacts DEF IsSequence
<1>2. DriverSys = Chosen(Referenced, I)
  BY DEF DriverSys, Filtered
<1>3. DriverSys[1] \in ToSet(DriverSys)
  <2>1. DriverSys \in Seq(ToSet(DriverSys))
    BY GivenFacts DEF IsSequence
  <2> QED
    BY <2>1
<1>4. PICK k \in 1..Len(Referenced) : k \in I /\ DriverSys[1] = Referenced[k]
  <2> HIDE DEF I
  <2> QED
    BY <1>1, <1>2, <1>3, ChosenWithin
<1> QED
  BY <1>1, <1>4

\* One service since the pack was read, a patched TXTSETUP.SIF since it was
\* patched, and both manifests patched at the end.
SifPatched == Spliced(given.txtsetup, SifAdditions(given.txtsetup))
InfPatched == Spliced(given.dosnet, InfAdditions(given.dosnet))

SifSettled ==
  /\ DriverSys # <<>> /\ \A name \in Required : Named(given.txtsetup, name) # {}
  /\ txtsetup = SifPatched
  /\ ToSet(Referenced) \subseteq i386

Settled ==
  /\ pc \in {"append", "txtsetup", "dosnet"} \/ report = "success" => Len(Services) = 1
  /\ pc = "dosnet" \/ report = "success" => SifSettled
  /\ report = "success" => Named(given.dosnet, "Files") # {} /\ dosnet = InfPatched

LEMMA ConstantChoices ==
  ASSUME given' = given
  PROVE  /\ Services' = Services /\ DriverSys' = DriverSys
         /\ SifPatched' = SifPatched /\ InfPatched' = InfPatched
         /\ Referenced' = Referenced
<1>1. Referenced' = Referenced /\ Ids' = Ids /\ Services' = Services /\ Service' = Service
  BY DEF Referenced, Ids, Services, Service
<1>2. DriverSys' = DriverSys /\ PciPairs' = PciPairs
  <2>1. DriverSys' = DriverSys
    BY <1>1 DEF DriverSys, Filtered
  <2>2. PciPairs' = PciPairs
    BY <1>1 DEF PciPairs, Filtered
  <2> QED
    BY <2>1, <2>2
<1>3. \A section : AddedTo(section)' = AddedTo(section)
  BY <1>1, <1>2 DEF AddedTo
<1>4. SifPatched' = SifPatched
  BY <1>3 DEF SifPatched, SifAdditions
<1>5. InfPatched' = InfPatched
  BY <1>1 DEF InfPatched, InfAdditions
<1> QED
  BY <1>1, <1>2, <1>4, <1>5

LEMMA InitSettled == Init => Settled
BY DEF Init, Settled

LEMMA ReadSettled == IInv /\ ReadPack => Settled'
<1> SUFFICES ASSUME IInv, ReadPack PROVE Settled'
  OBVIOUS
<1>1. UNCHANGED given /\ report = "none"
  BY DEF ReadPack, IInv, TypeOK
<1>2. \/ pc' = "append" /\ report' = "none" /\ Len(Services) = 1
      \/ pc' = "end" /\ report' = "failure"
  BY <1>1 DEF ReadPack, Goto, Bail
<1>3. Services' = Services
  BY <1>1, ConstantChoices
<1> QED
  BY <1>2, <1>3 DEF Settled

LEMMA AppendSettled == IInv /\ Settled /\ AppendDriver => Settled'
<1> SUFFICES ASSUME IInv, Settled, AppendDriver PROVE Settled'
  OBVIOUS
<1>1. UNCHANGED given /\ pc = "append" /\ report = "none"
  BY DEF AppendDriver, IInv, TypeOK
<1>2. \/ pc' \in {"append", "txtsetup"} /\ report' = "none"
      \/ pc' = "end" /\ report' = "failure"
  BY <1>1 DEF AppendDriver, Goto, Bail
<1>3. Services' = Services /\ Len(Services) = 1
  BY <1>1, ConstantChoices DEF Settled
<1> QED
  BY <1>2, <1>3 DEF Settled

LEMMA TxtsetupSettled == IInv /\ Settled /\ PatchTxtsetupSif => Settled'
<1> SUFFICES ASSUME IInv, Settled, PatchTxtsetupSif PROVE Settled'
  OBVIOUS
<1>1. /\ UNCHANGED <<given, i386>> /\ pc = "txtsetup" /\ report = "none"
      /\ txtsetup = given.txtsetup
  BY DEF PatchTxtsetupSif, IInv, TypeOK, ManifestInv
<1>2. \/ pc' = "end" /\ report' = "failure"
      \/ pc' = "dosnet" /\ report' = "none" /\ ~Unpatchable /\ txtsetup' = PatchedTxtsetup
  BY <1>1 DEF PatchTxtsetupSif, Goto, Bail
<1>3. Services' = Services /\ Len(Services) = 1
  BY <1>1, ConstantChoices DEF Settled
<1>4. ASSUME ~Unpatchable, txtsetup' = PatchedTxtsetup PROVE SifSettled'
  <2>1. DriverSys # <<>> /\ \A name \in Required : Named(given.txtsetup, name) # {}
    BY <1>1, <1>4 DEF Unpatchable
  <2>2. PatchedTxtsetup = SifPatched
    BY <1>1 DEF PatchedTxtsetup, SifPatched, SifAdditions
  <2>3. ToSet(Referenced) \subseteq i386
    BY <1>1, AllPresent
  <2>4. DriverSys' = DriverSys /\ SifPatched' = SifPatched /\ Referenced' = Referenced
    BY <1>1, ConstantChoices
  <2> QED
    BY <1>1, <1>4, <2>1, <2>2, <2>3, <2>4 DEF SifSettled
<1> QED
  BY <1>2, <1>3, <1>4 DEF Settled

LEMMA DosnetSettled == IInv /\ Settled /\ PatchDosnetInf => Settled'
<1> SUFFICES ASSUME IInv, Settled, PatchDosnetInf PROVE Settled'
  OBVIOUS
<1>1. /\ UNCHANGED <<given, i386, txtsetup>> /\ pc = "dosnet" /\ report = "none"
      /\ dosnet = given.dosnet
  BY DEF PatchDosnetInf, IInv, TypeOK, ManifestInv
<1>2. /\ pc' = "end"
      /\ \/ report' = "failure"
         \/ report' = "success" /\ Named(dosnet, "Files") # {} /\ dosnet' = PatchedDosnet
  BY <1>1 DEF PatchDosnetInf, Bail
<1>3. /\ Services' = Services /\ DriverSys' = DriverSys /\ Referenced' = Referenced
      /\ SifPatched' = SifPatched /\ InfPatched' = InfPatched
  BY <1>1, ConstantChoices
<1>4. Len(Services) = 1 /\ SifSettled /\ SifSettled'
  BY <1>1, <1>3 DEF Settled, SifSettled
<1>5. PatchedDosnet = InfPatched
  BY <1>1 DEF PatchedDosnet, InfPatched, InfAdditions
<1> QED
  BY <1>1, <1>2, <1>3, <1>4, <1>5 DEF Settled

LEMMA StutterSettled == Settled /\ UNCHANGED vars => Settled'
<1> SUFFICES ASSUME Settled, UNCHANGED vars PROVE Settled'
  OBVIOUS
<1>1. UNCHANGED <<given, pc, report, i386, txtsetup, dosnet>>
  BY DEF vars
<1>2. /\ Services' = Services /\ DriverSys' = DriverSys /\ Referenced' = Referenced
      /\ SifPatched' = SifPatched /\ InfPatched' = InfPatched
  BY <1>1, ConstantChoices
<1> QED
  BY <1>1, <1>2 DEF Settled, SifSettled

LEMMA AlwaysSettled == Spec => []Settled
<1>1. IInv /\ Settled /\ [Next]_vars => Settled'
  BY ReadSettled, AppendSettled, TxtsetupSettled, DosnetSettled, StutterSettled DEF Next, Done
<1> QED
  BY InitSettled, Invariance, <1>1, PTL DEF Spec

\* The chain of a regular pack's PCI id, once both manifests are patched.
LEMMA ChainHolds ==
  ASSUME IInv, Settled, report = "success", Regular(given.pack),
         \A name \in Required : ~Adjoining(given.txtsetup, name),
         NEW i \in DOMAIN PciPairs
  PROVE  Binds(PciPairs[i])
<1> DEFINE p == PciPairs[i]
           f == DriverSys[1]
<1>1. GivenSound /\ SectionsSound(given.pack) /\ Len(Services) = 1 /\ SifSettled
  BY GivenFacts DEF IInv, Settled
<1>2. /\ IsSequence(given.txtsetup) /\ IsSequence(given.dosnet) /\ IsSequence(Referenced)
      /\ Named(given.dosnet, "Files") # {} /\ dosnet = InfPatched
  BY <1>1, GivenFacts DEF Settled
<1>3. /\ DriverSys # <<>> /\ \A name \in Required : Named(given.txtsetup, name) # {}
      /\ txtsetup = SifPatched /\ ToSet(Referenced) \subseteq i386
  BY <1>1 DEF SifSettled
<1>4. PICK l \in DriverLines(given.pack) : l.extra = p[2] /\ l.extra # None
  <2>1. PICK j \in DOMAIN Ids : p = Ids[j]
    BY <1>1, PciFacts
  <2>2. j \in DOMAIN HardwareIds(given.pack) /\ p[2] = HardwareIds(given.pack)[j][2]
    BY <2>1 DEF Ids
  <2>3. p[2] # None
    BY <1>1, <2>2, IdsNameServices
  <2>4. \E l \in DriverLines(given.pack) : l.extra = HardwareIds(given.pack)[j][2]
    BY <2>2 DEF Regular, WellFormed
  <2> HIDE DEF p
  <2> QED
    BY <2>2, <2>3, <2>4
<1>5. Service = p[2]
  <2>1. CollectServices(given.pack)[1] = l.extra
    BY <1>1, <1>4, OneService DEF Services
  <2> QED
    BY <1>4, <2>1 DEF Service, Services
<1>6. PICK k \in DOMAIN Referenced : f = Referenced[k] /\ f \in SysFiles
  BY <1>1, <1>3, LoadedFacts
<1>7. l.value = f
  <2>1. f \in ToSet(ReferencedFilenames(given.pack)) \cap SysFiles
    BY <1>6 DEF ToSet, Referenced
  <2>2. \E d \in DriverLines(given.pack) : d.value = f
    BY <2>1 DEF Regular, WellFormed
  <2>3. \A d, e \in DriverLines(given.pack) : d.value = e.value
    BY DEF Regular, WellFormed
  <2> HIDE DEF f
  <2> QED
    BY <1>4, <2>2, <2>3
<1> HIDE DEF p, f
<1>8. ASSUME NEW section \in Required, NEW n \in DOMAIN AddedTo(section)
      PROVE  AddedTo(section)[n].text \in FirstBlock(txtsetup, section)
  BY <1>1, <1>2, <1>3, <1>8, AddedToFirstBlock DEF SifPatched
<1>9. <<"id", p[1], p[2]>> \in FirstBlock(txtsetup, "HardwareIdsDatabase")
  <2> DEFINE added == [n \in DOMAIN PciPairs |-> Body(<<"id", PciPairs[n][1], PciPairs[n][2]>>)]
  <2>1. AddedTo("HardwareIdsDatabase") = added /\ "HardwareIdsDatabase" \in Required
    BY DEF AddedTo, Required
  <2>2. i \in DOMAIN added /\ added[i].text = <<"id", p[1], p[2]>>
    BY DEF Body, p
  <2> HIDE DEF added
  <2> QED
    BY <1>8, <2>1, <2>2
<1>10. <<"load", p[2], l.value>> \in FirstBlock(txtsetup, "SCSI.Load")
  <2> DEFINE added == << Body(<<"load", Service, DriverSys[1]>>) >>
  <2>1. AddedTo("SCSI.Load") = added /\ "SCSI.Load" \in Required
    BY DEF AddedTo, Required
  <2>2. 1 \in DOMAIN added /\ added[1].text = <<"load", Service, f>>
    BY DEF Body, f
  <2> HIDE DEF added
  <2> QED
    BY <1>5, <1>7, <1>8, <2>1, <2>2
<1>11. <<"file", l.value, "drivers">> \in FirstBlock(txtsetup, "SourceDisksFiles")
  <2> DEFINE added == [n \in DOMAIN Referenced |->
                         Body(<<"file", Referenced[n], DestOf(Referenced[n])>>)]
  <2>1. AddedTo("SourceDisksFiles") = added /\ "SourceDisksFiles" \in Required
    BY DEF AddedTo, Required
  <2>2. k \in DOMAIN added /\ added[k].text = <<"file", f, "drivers">>
    BY <1>6 DEF Body, DestOf
  <2> HIDE DEF added
  <2> QED
    BY <1>7, <1>8, <2>1, <2>2
<1>12. <<"d1", l.value>> \in Block(dosnet, Max(Named(dosnet, "Files")))
  BY <1>1, <1>2, <1>6, <1>7, AddedToLastBlock DEF InfPatched
<1>13. l.value \in i386
  BY <1>3, <1>6, <1>7 DEF ToSet
<1> QED
  BY <1>4, <1>9, <1>10, <1>11, <1>12, <1>13 DEF Binds, p

-----------------------------------------------------------------------------
(***************************************************************************)
(* The elements of a sequence that are in a set, and concatenations.       *)
(***************************************************************************)

\* What holds of the empty sequence, and of every sequence with one element
\* more, holds of all.
LEMMA SequenceInduction ==
  ASSUME NEW V, NEW T, <<>> \in T,
         \A s \in Seq(V), e \in V : s \in T => Append(s, e) \in T
  PROVE  \A s \in Seq(V) : s \in T
<1> SUFFICES ASSUME NEW s \in Seq(V) PROVE s \in T
  OBVIOUS
<1> DEFINE n == Len(s)
           upto(i) == SubSeq(s, 1, i)
           U == {i \in 0..n : upto(i) \in T}
<1>1. n \in Nat /\ upto(0) = <<>> /\ upto(n) = s
  OBVIOUS
<1>2. ASSUME NEW i \in 1..n
      PROVE  /\ i \in 0..n /\ i - 1 \in 0..n /\ upto(i - 1) \in Seq(V) /\ s[i] \in V
             /\ upto(i) = Append(upto(i - 1), s[i])
  OBVIOUS
<1> HIDE DEF upto, n
<1>3. 0 \in U
  BY <1>1
<1>4. ASSUME NEW i \in 1..n, i - 1 \in U PROVE i \in U
  BY <1>2, <1>4
<1>5. \A i \in 0..n : i \in U
  <2> HIDE DEF U
  <2> QED
    BY <1>1, <1>3, <1>4, IntervalInduction
<1> QED
  BY <1>1, <1>5

\* The elements of s that are in S, in their order.
Picked(s, S) == Chosen(s, {i \in DOMAIN s : s[i] \in S})

LEMMA PickedType ==
  ASSUME NEW V, NEW s \in Seq(V), NEW S
  PROVE  Picked(s, S) \in Seq(V) /\ Picked(s, S) \in Seq(V \cap S)
<1> DEFINE I == {i \in DOMAIN s : s[i] \in S}
<1>1. \A i \in 1..Len(s) : i \in I => s[i] \in V \cap S
  OBVIOUS
<1> HIDE DEF I
<1>2. Chosen(s, I) \in Seq(V \cap S)
  BY <1>1, ChosenType
<1>3. Chosen(s, I) \in Seq(V)
  BY FilterType
<1> QED
  BY <1>2, <1>3 DEF Picked, I

LEMMA PickedAppend ==
  ASSUME NEW V, NEW s \in Seq(V), NEW e \in V, NEW S
  PROVE  Picked(Append(s, e), S) =
           IF e \in S THEN Append(Picked(s, S), e) ELSE Picked(s, S)
<1> DEFINE t == Append(s, e)
           I == {i \in DOMAIN s : s[i] \in S}
           J == {i \in DOMAIN t : t[i] \in S}
<1>1. /\ Len(s) \in Nat /\ DOMAIN s = 1..Len(s) /\ DOMAIN t = 1..(Len(s) + 1)
      /\ t[Len(s) + 1] = e /\ \A i \in 1..Len(s) : t[i] = s[i]
  OBVIOUS
<1> HIDE DEF t
<1>2. \A i \in 1..Len(s) : i \in I <=> i \in J
  BY <1>1
<1>3. Len(s) + 1 \in J <=> e \in S
  BY <1>1
<1> HIDE DEF I, J
<1>4. Chosen(Append(s, e), J) =
        IF Len(s) + 1 \in J THEN Append(Chosen(s, I), e) ELSE Chosen(s, I)
  BY <1>2, ChosenAppend
<1>5. Picked(s, S) = Chosen(s, I) /\ Picked(t, S) = Chosen(t, J)
  BY DEF Picked, I, J
<1> QED
  BY <1>3, <1>4, <1>5 DEF t

\* A filter that no element passes leaves nothing.
LEMMA PickedNone ==
  ASSUME NEW V, NEW s \in Seq(V), NEW S, \A i \in DOMAIN s : s[i] \notin S
  PROVE  Picked(s, S) = <<>>
<1> DEFINE I == {i \in DOMAIN s : s[i] \in S}
<1>1. \A i \in 1..Len(s) : i \in I => s[i] \in {}
  OBVIOUS
<1> HIDE DEF I
<1>2. Chosen(s, I) \in Seq({})
  BY <1>1, ChosenType
<1>3. \A t \in Seq({}) : t = <<>>
  OBVIOUS
<1> QED
  BY <1>2, <1>3 DEF Picked, I

LEMMA PickedEmpty == \A S : Picked(<<>>, S) = <<>>
<1>1. <<>> \in Seq({}) /\ \A S : \A i \in DOMAIN <<>> : <<>>[i] \notin S
  OBVIOUS
<1> QED
  BY <1>1, PickedNone

LEMMA PickedSame ==
  ASSUME NEW V, NEW s \in Seq(V), NEW A, NEW B,
         \A i \in DOMAIN s : s[i] \in A <=> s[i] \in B
  PROVE  Picked(s, A) = Picked(s, B)
<1>1. {i \in DOMAIN s : s[i] \in A} = {i \in DOMAIN s : s[i] \in B}
  OBVIOUS
<1> QED
  BY <1>1 DEF Picked

LEMMA AppendConcat ==
  ASSUME NEW V, NEW s \in Seq(V), NEW t \in Seq(V), NEW e \in V
  PROVE  s \o Append(t, e) = Append(s \o t, e)
<1>1. <<e>> \in Seq(V) /\ s \o t \in Seq(V)
  OBVIOUS
<1>2. (s \o t) \o <<e>> = s \o (t \o <<e>>)
  BY <1>1, ConcatAssociative, SMTT(30)
<1> QED
  BY <1>1, <1>2, AppendIsConcat, Zenon

\* Picking distributes over concatenation.
LEMMA PickedConcat ==
  ASSUME NEW V, NEW s \in Seq(V), NEW t \in Seq(V), NEW S
  PROVE  Picked(s \o t, S) = Picked(s, S) \o Picked(t, S)
<1> DEFINE Same(u) == Picked(s \o u, S) = Picked(s, S) \o Picked(u, S)
           T == {u \in Seq(V) : Same(u)}
<1>1. <<>> \in T
  <2>1. s \o <<>> = s /\ <<>> \in Seq(V)
    OBVIOUS
  <2>2. Picked(s, S) \o <<>> = Picked(s, S)
    BY PickedType
  <2> QED
    BY <2>1, <2>2, PickedEmpty
<1>2. ASSUME NEW u \in Seq(V), NEW e \in V, u \in T PROVE Append(u, e) \in T
  <2> DEFINE p == Picked(s, S)
             q == Picked(u, S)
  <2>1. p \in Seq(V) /\ q \in Seq(V) /\ s \o u \in Seq(V) /\ Append(u, e) \in Seq(V)
    <3> HIDE DEF T, Same
    <3>1. p \in Seq(V) /\ q \in Seq(V)
      BY PickedType
    <3> HIDE DEF p, q
    <3> QED
      BY <3>1
  <2>2. s \o Append(u, e) = Append(s \o u, e) /\ p \o Append(q, e) = Append(p \o q, e)
    <3>1. \A v, w \in Seq(V) : v \o Append(w, e) = Append(v \o w, e)
      BY AppendConcat
    <3> HIDE DEF p, q
    <3> QED
      BY <2>1, <3>1
  <2>3. /\ Picked(Append(s \o u, e), S) =
             IF e \in S THEN Append(Picked(s \o u, S), e) ELSE Picked(s \o u, S)
        /\ Picked(Append(u, e), S) = IF e \in S THEN Append(q, e) ELSE q
    BY <2>1, PickedAppend
  <2>4. Picked(s \o u, S) = p \o q
    BY <1>2
  <2>5. Picked(s \o Append(u, e), S) = p \o Picked(Append(u, e), S)
    <3> HIDE DEF p, q
    <3> QED
      BY <2>2, <2>3, <2>4
  <2> QED
    BY <2>1, <2>5
<1> HIDE DEF T
<1>3. t \in T
  BY <1>1, <1>2, SequenceInduction
<1> QED
  BY <1>3 DEF T

\* A filter that all elements pass changes nothing.
LEMMA PickedAll ==
  ASSUME NEW V, NEW s \in Seq(V), NEW S, \A i \in DOMAIN s : s[i] \in S
  PROVE  Picked(s, S) = s
<1> DEFINE W == V \cap S
           T == {u \in Seq(W) : Picked(u, S) = u}
<1>1. <<>> \in T
  BY PickedEmpty
<1>2. ASSUME NEW u \in Seq(W), NEW e \in W, u \in T PROVE Append(u, e) \in T
  <2>1. Picked(Append(u, e), S) = Append(Picked(u, S), e)
    <3>1. e \in S
      OBVIOUS
    <3> HIDE DEF T, W
    <3>2. Picked(Append(u, e), S) = IF e \in S THEN Append(Picked(u, S), e) ELSE Picked(u, S)
      BY PickedAppend
    <3> QED
      BY <3>1, <3>2
  <2>2. Append(u, e) \in Seq(W) /\ Picked(u, S) = u
    <3> HIDE DEF W
    <3> QED
      BY <1>2
  <2> QED
    BY <2>1, <2>2
<1>3. s \in Seq(W)
  <2>1. Len(s) \in Nat /\ s \in [1..Len(s) -> W]
    OBVIOUS
  <2> QED
    BY <2>1
<1> HIDE DEF T, W
<1>4. s \in T
  BY <1>1, <1>2, <1>3, SequenceInduction
<1> QED
  BY <1>4 DEF T

\* One filter after another is one filter.
LEMMA PickedTwice ==
  ASSUME NEW V, NEW s \in Seq(V), NEW A, NEW B
  PROVE  Picked(Picked(s, A), B) = Picked(s, A \cap B)
<1> DEFINE T == {u \in Seq(V) : Picked(Picked(u, A), B) = Picked(u, A \cap B)}
<1>1. <<>> \in T
  BY PickedEmpty
<1>2. ASSUME NEW u \in Seq(V), NEW e \in V, u \in T PROVE Append(u, e) \in T
  <2>1. Picked(u, A) \in Seq(V) /\ Append(u, e) \in Seq(V)
    <3> HIDE DEF T
    <3>1. Picked(u, A) \in Seq(V)
      BY PickedType
    <3> QED
      BY <3>1
  <2>2. /\ Picked(Append(u, e), A) = IF e \in A THEN Append(Picked(u, A), e) ELSE Picked(u, A)
        /\ Picked(Append(u, e), A \cap B) =
             IF e \in A \cap B THEN Append(Picked(u, A \cap B), e) ELSE Picked(u, A \cap B)
        /\ Picked(Append(Picked(u, A), e), B) =
             IF e \in B THEN Append(Picked(Picked(u, A), B), e) ELSE Picked(Picked(u, A), B)
    BY <2>1, PickedAppend
  <2>3. Picked(Picked(u, A), B) = Picked(u, A \cap B)
    BY <1>2
  <2>4. e \in A \cap B <=> e \in A /\ e \in B
    OBVIOUS
  <2>5. Picked(Picked(Append(u, e), A), B) = Picked(Append(u, e), A \cap B)
    <3>1. CASE e \in A
      BY <2>2, <2>3, <2>4, <3>1
    <3>2. CASE e \notin A
      BY <2>2, <2>3, <2>4, <3>2
    <3> QED
      BY <3>1, <3>2
  <2> QED
    BY <2>1, <2>5
<1> HIDE DEF T
<1>3. s \in T
  BY <1>1, <1>2, SequenceInduction
<1> QED
  BY <1>3 DEF T

\* The flattening of one more sequence ends with it.
LEMMA FlattenAppend ==
  ASSUME NEW V, NEW ss \in Seq(Seq(V)), NEW x \in Seq(V)
  PROVE  FlattenSeq(Append(ss, x)) = FlattenSeq(ss) \o x
<1> DEFINE n == Len(ss)
           tt == Append(ss, x)
<1>1. /\ n \in Nat /\ tt \in Seq(Seq(V)) /\ Len(tt) = n + 1 /\ tt[n + 1] = x
      /\ \A i \in 1..n : tt[i] = ss[i]
  OBVIOUS
<1>2. PICK f : Joining(f, ss, V) /\ FlattenSeq(ss) = f[n]
  BY FlattenSteps
<1> HIDE DEF tt
<1>3. PICK g : Joining(g, tt, V) /\ FlattenSeq(tt) = g[n + 1]
  BY <1>1, FlattenSteps
<1> HIDE DEF n
<1>4. /\ f[0] = <<>> /\ \A i \in 1..n : f[i] = f[i - 1] \o ss[i]
      /\ g[0] = <<>> /\ \A i \in 1..(n + 1) : g[i] = g[i - 1] \o tt[i]
  BY <1>1, <1>2, <1>3 DEF Joining, n
<1> DEFINE T == {i \in 0..n : g[i] = f[i]}
<1>5. 0 \in T
  BY <1>1, <1>4
<1>6. ASSUME NEW i \in 1..n, i - 1 \in T PROVE i \in T
  <2>1. i \in 0..n /\ i \in 1..(n + 1) /\ g[i - 1] = f[i - 1]
    BY <1>1, <1>6
  <2> QED
    BY <1>1, <1>4, <2>1
<1>7. n \in T
  <2> HIDE DEF T
  <2>1. \A i \in 0..n : i \in T
    BY <1>1, <1>5, <1>6, IntervalInduction
  <2> QED
    BY <1>1, <2>1
<1>8. g[n + 1] = g[n] \o tt[n + 1]
  <2>1. n + 1 \in 1..(n + 1) /\ (n + 1) - 1 = n
    BY <1>1
  <2> QED
    BY <1>4, <2>1
<1> QED
  BY <1>1, <1>2, <1>3, <1>7, <1>8 DEF tt

-----------------------------------------------------------------------------
(***************************************************************************)
(* The sections of a kind and their lines.                                 *)
(***************************************************************************)

\* A file in which K, I and L are the kinds, the ids and the lines.
Sections(K, I, L) == [kind : K, id : I, exact : BOOLEAN, lines : Seq(L)]

\* The lines of all sections of a kind.
Lines(pack, kind) == LinesOf(OfKind(pack, kind))

LEMMA LinesOfAppend ==
  ASSUME NEW K, NEW I, NEW L, NEW p \in Seq(Sections(K, I, L)), NEW x \in Sections(K, I, L)
  PROVE  LinesOf(p) \in Seq(L) /\ LinesOf(Append(p, x)) = LinesOf(p) \o x.lines
<1> DEFINE V == Sections(K, I, L)
           ss == [i \in DOMAIN p |-> p[i].lines]
           q == Append(p, x)
           tt == [i \in DOMAIN q |-> q[i].lines]
<1>1. \A y \in V : y.lines \in Seq(L)
  BY DEF Sections
<1> HIDE DEF V
<1>2. /\ Len(p) \in Nat /\ DOMAIN p = 1..Len(p) /\ \A i \in 1..Len(p) : p[i] \in V
      /\ DOMAIN q = 1..(Len(p) + 1) /\ q[Len(p) + 1] = x
      /\ \A i \in 1..Len(p) : q[i] = p[i]
  BY DEF V
<1>3. ss \in Seq(Seq(L)) /\ Len(ss) = Len(p)
  <2>1. ss \in [1..Len(p) -> Seq(L)]
    BY <1>1, <1>2
  <2> QED
    BY <1>2, <2>1
<1>4. x.lines \in Seq(L)
  BY <1>1 DEF V
<1>5. tt = Append(ss, x.lines)
  <2>1. /\ DOMAIN Append(ss, x.lines) = 1..(Len(p) + 1)
        /\ Append(ss, x.lines)[Len(p) + 1] = x.lines
        /\ \A i \in 1..Len(p) : Append(ss, x.lines)[i] = ss[i]
        /\ Append(ss, x.lines) = [i \in 1..(Len(p) + 1) |-> Append(ss, x.lines)[i]]
    <3> HIDE DEF ss, q
    <3> QED
      BY <1>2, <1>3, <1>4
  <2>2. \A i \in 1..Len(p) : ss[i] = p[i].lines
    BY <1>2
  <2>3. \A i \in 1..(Len(p) + 1) : i \in 1..Len(p) \/ i = Len(p) + 1
    BY <1>2
  <2> HIDE DEF ss, q
  <2>4. \A i \in 1..(Len(p) + 1) : q[i].lines = Append(ss, x.lines)[i]
    BY <1>2, <2>1, <2>2, <2>3
  <2>5. tt = [i \in 1..(Len(p) + 1) |-> q[i].lines]
    BY <1>2
  <2> QED
    BY <2>1, <2>4, <2>5
<1> HIDE DEF ss, tt, q
<1>6. FlattenSeq(ss) \in Seq(L) /\ FlattenSeq(tt) = FlattenSeq(ss) \o x.lines
  BY <1>3, <1>4, <1>5, FlattenType, FlattenAppend
<1> QED
  BY <1>6 DEF LinesOf, ss, tt, q

LEMMA LinesOfEmpty == LinesOf(<<>>) = <<>>
<1>1. [i \in DOMAIN <<>> |-> <<>>[i].lines] = <<>>
  OBVIOUS
<1>2. FlattenSeq(<<>>) = <<>>
  BY DEF FlattenSeq
<1> QED
  BY <1>1, <1>2 DEF LinesOf

LEMMA LinesOfType ==
  ASSUME NEW K, NEW I, NEW L, NEW p \in Seq(Sections(K, I, L))
  PROVE  LinesOf(p) \in Seq(L)
<1> DEFINE V == Sections(K, I, L)
           T == {u \in Seq(V) : LinesOf(u) \in Seq(L)}
<1>0. \A M : <<>> \in Seq(M)
  OBVIOUS
<1>1. <<>> \in T
  <2> HIDE DEF V
  <2> QED
    BY <1>0, LinesOfEmpty
<1>2. ASSUME NEW u \in Seq(V), NEW x \in V, u \in T PROVE Append(u, x) \in T
  <2>1. Append(u, x) \in Seq(V)
    <3> HIDE DEF V, T
    <3> QED
      OBVIOUS
  <2>2. LinesOf(Append(u, x)) \in Seq(L)
    <3>1. LinesOf(u) \in Seq(L) /\ LinesOf(Append(u, x)) = LinesOf(u) \o x.lines
      BY LinesOfAppend
    <3>2. x.lines \in Seq(L)
      BY DEF Sections
    <3> HIDE DEF V, T
    <3> QED
      BY <3>1, <3>2
  <2> HIDE DEF V
  <2> QED
    BY <2>1, <2>2
<1> HIDE DEF T, V
<1>3. p \in T
  BY <1>1, <1>2, SequenceInduction DEF V
<1> QED
  BY <1>3 DEF T

\* The lines of two files, one after the other.
LEMMA LinesOfConcat ==
  ASSUME NEW K, NEW I, NEW L,
         NEW p \in Seq(Sections(K, I, L)), NEW q \in Seq(Sections(K, I, L))
  PROVE  LinesOf(p \o q) = LinesOf(p) \o LinesOf(q)
<1> DEFINE V == Sections(K, I, L)
           Same(u) == LinesOf(p \o u) = LinesOf(p) \o LinesOf(u)
           T == {u \in Seq(V) : Same(u)}
<1>0. p \in Seq(V) /\ q \in Seq(V)
  OBVIOUS
<1>1. <<>> \in T
  <2>1. LinesOf(p) \in Seq(L)
    BY LinesOfType
  <2>2. LinesOf(p) \o <<>> = LinesOf(p)
    BY <2>1
  <2>3. p \o <<>> = p /\ <<>> \in Seq(V)
    BY <1>0
  <2> QED
    BY <2>2, <2>3, LinesOfEmpty
<1>2. ASSUME NEW u \in Seq(V), NEW x \in V, u \in T PROVE Append(u, x) \in T
  <2>1. p \o u \in Seq(V) /\ Append(u, x) \in Seq(V) /\ p \o Append(u, x) = Append(p \o u, x)
    <3> HIDE DEF V, T
    <3>1. p \o Append(u, x) = Append(p \o u, x)
      BY <1>0, AppendConcat
    <3> QED
      BY <1>0, <3>1
  <2>2. /\ LinesOf(Append(p \o u, x)) = LinesOf(p \o u) \o x.lines
        /\ LinesOf(Append(u, x)) = LinesOf(u) \o x.lines
    <3>1. \A w \in Seq(Sections(K, I, L)), y \in Sections(K, I, L) :
            LinesOf(Append(w, y)) = LinesOf(w) \o y.lines
      BY LinesOfAppend
    <3> HIDE DEF T
    <3> QED
      BY <2>1, <3>1
  <2>3. LinesOf(p) \in Seq(L) /\ LinesOf(u) \in Seq(L) /\ x.lines \in Seq(L)
    BY LinesOfType DEF Sections
  <2>4. (LinesOf(p) \o LinesOf(u)) \o x.lines = LinesOf(p) \o (LinesOf(u) \o x.lines)
    <3> DEFINE a == LinesOf(p)
               b == LinesOf(u)
               c == x.lines
    <3>1. a \in Seq(L) /\ b \in Seq(L) /\ c \in Seq(L)
      BY <2>3
    <3> HIDE DEF a, b, c, T, V
    <3>2. (a \o b) \o c = a \o (b \o c)
      BY <3>1, ConcatAssociative, SMTT(30)
    <3> QED
      BY <3>2 DEF a, b, c
  <2>5. LinesOf(p \o u) = LinesOf(p) \o LinesOf(u)
    BY <1>2
  <2> QED
    BY <2>1, <2>2, <2>4, <2>5
<1> HIDE DEF T, V
<1>3. q \in T
  BY <1>0, <1>1, <1>2, SequenceInduction
<1> QED
  BY <1>3 DEF T

\* The sections of a kind are a filter of the file.
LEMMA OfKindPicked ==
  ASSUME NEW V, NEW p \in Seq(V), NEW kind
  PROVE  OfKind(p, kind) = Picked(p, {x \in V : x.kind = kind})
<1>1. {i \in DOMAIN p : p[i].kind = kind} = {i \in DOMAIN p : p[i] \in {x \in V : x.kind = kind}}
  OBVIOUS
<1> QED
  BY <1>1 DEF OfKind, Filtered, Picked

LEMMA OfKindConcat ==
  ASSUME NEW V, NEW kind
  PROVE  \A p, q \in Seq(V) : OfKind(p \o q, kind) = OfKind(p, kind) \o OfKind(q, kind)
<1> SUFFICES ASSUME NEW p \in Seq(V), NEW q \in Seq(V)
             PROVE  OfKind(p \o q, kind) = OfKind(p, kind) \o OfKind(q, kind)
  OBVIOUS
<1> DEFINE S == {x \in V : x.kind = kind}
<1>1. p \o q \in Seq(V)
  OBVIOUS
<1>2. /\ OfKind(p, kind) = Picked(p, S) /\ OfKind(q, kind) = Picked(q, S)
      /\ OfKind(p \o q, kind) = Picked(p \o q, S)
  BY <1>1, OfKindPicked
<1> HIDE DEF S
<1>3. Picked(p \o q, S) = Picked(p, S) \o Picked(q, S)
  BY PickedConcat
<1> QED
  BY <1>2, <1>3

LEMMA OfKindAppend ==
  ASSUME NEW V, NEW p \in Seq(V), NEW x \in V, NEW kind
  PROVE  /\ OfKind(p, kind) \in Seq(V)
         /\ OfKind(Append(p, x), kind) =
              IF x.kind = kind THEN Append(OfKind(p, kind), x) ELSE OfKind(p, kind)
<1> DEFINE S == {y \in V : y.kind = kind}
<1>1. Append(p, x) \in Seq(V) /\ (x \in S <=> x.kind = kind)
  OBVIOUS
<1>2. OfKind(p, kind) = Picked(p, S) /\ OfKind(Append(p, x), kind) = Picked(Append(p, x), S)
  BY <1>1, OfKindPicked
<1> HIDE DEF S
<1>3. Picked(p, S) \in Seq(V)
  BY PickedType
<1>4. Picked(Append(p, x), S) = IF x \in S THEN Append(Picked(p, S), x) ELSE Picked(p, S)
  BY PickedAppend
<1> QED
  BY <1>1, <1>2, <1>3, <1>4

LEMMA OfKindNone ==
  ASSUME NEW V, NEW p \in Seq(V), NEW kind, \A i \in DOMAIN p : p[i].kind # kind
  PROVE  OfKind(p, kind) = <<>>
<1> DEFINE S == {y \in V : y.kind = kind}
<1>1. \A i \in DOMAIN p : p[i] \notin S
  OBVIOUS
<1> HIDE DEF S
<1>2. Picked(p, S) = <<>>
  BY <1>1, PickedNone
<1> QED
  BY <1>2, OfKindPicked DEF S

LEMMA KindLinesType ==
  ASSUME NEW K, NEW I, NEW L, NEW p \in Seq(Sections(K, I, L)), NEW kind
  PROVE  /\ OfKind(p, kind) \in Seq(Sections(K, I, L)) /\ Lines(p, kind) \in Seq(L)
         /\ \A i \in DOMAIN OfKind(p, kind) : OfKind(p, kind)[i].kind = kind
<1> DEFINE V == Sections(K, I, L)
           S == {y \in V : y.kind = kind}
<1> HIDE DEF V
<1>1. OfKind(p, kind) \in Seq(V) /\ OfKind(p, kind) \in Seq(V \cap S)
  <2>1. OfKind(p, kind) = Picked(p, S)
    BY OfKindPicked DEF V
  <2> HIDE DEF S
  <2> QED
    BY <2>1, PickedType DEF V
<1>2. \A i \in DOMAIN OfKind(p, kind) : OfKind(p, kind)[i] \in V \cap S
  <2> HIDE DEF S
  <2> QED
    BY <1>1
<1> QED
  BY <1>1, <1>2, LinesOfType DEF V, Lines

LEMMA LinesAppend ==
  ASSUME NEW K, NEW I, NEW L, NEW kind,
         NEW p \in Seq(Sections(K, I, L)), NEW x \in Sections(K, I, L)
  PROVE  Lines(Append(p, x), kind) =
           IF x.kind = kind THEN Lines(p, kind) \o x.lines ELSE Lines(p, kind)
<1>1. /\ OfKind(p, kind) \in Seq(Sections(K, I, L))
      /\ OfKind(Append(p, x), kind) =
           IF x.kind = kind THEN Append(OfKind(p, kind), x) ELSE OfKind(p, kind)
  BY OfKindAppend
<1>2. LinesOf(Append(OfKind(p, kind), x)) = LinesOf(OfKind(p, kind)) \o x.lines
  BY <1>1, LinesOfAppend
<1> QED
  BY <1>1, <1>2 DEF Lines

-----------------------------------------------------------------------------
(***************************************************************************)
(* One section joins a file.                                               *)
(***************************************************************************)

\* The first section of a kind, which is the one that grows, and the others.
Lead(pack, kind) ==
  IF OfKind(pack, kind) = <<>> THEN <<>> ELSE OfKind(pack, kind)[1].lines

Follow(pack, kind) ==
  IF OfKind(pack, kind) = <<>> THEN <<>> ELSE LinesOf(Tail(OfKind(pack, kind)))

\* What a section adds to the first of its kind.
Addition(lead, sec) ==
  IF sec.kind = "Disks" THEN NewDisks(lead, sec.lines) ELSE sec.lines

LEMMA NewDisksType ==
  ASSUME NEW L, NEW lead, NEW lines \in Seq(L)
  PROVE  NewDisks(lead, lines) \in Seq(L)
BY FilterType DEF NewDisks, Filtered

LEMMA AdditionType ==
  ASSUME NEW K, NEW I, NEW L, NEW lead, NEW sec \in Sections(K, I, L)
  PROVE  sec.lines \in Seq(L) /\ Addition(lead, sec) \in Seq(L)
<1>1. sec.lines \in Seq(L)
  BY DEF Sections
<1>2. NewDisks(lead, sec.lines) \in Seq(L)
  BY <1>1, NewDisksType
<1> QED
  BY <1>1, <1>2 DEF Addition

\* The lines of the first section of a kind after one more has joined.
Longer(lead, sec) == lead \o Addition(lead, sec)

\* A section that grows.
Grown(x, sec) == [x EXCEPT !.lines = Longer(x.lines, sec)]

\* A sequence with one element replaced.
Put(s, at, y) == [s EXCEPT ![at] = y]

LEMMA GrownFacts ==
  ASSUME NEW K, NEW I, NEW L, NEW x \in Sections(K, I, L), NEW sec \in Sections(K, I, L)
  PROVE  /\ Grown(x, sec) \in Sections(K, I, L) /\ Grown(x, sec).kind = x.kind
         /\ Grown(x, sec).lines = Longer(x.lines, sec)
<1> DEFINE ls == Longer(x.lines, sec)
<1>1. ls \in Seq(L)
  <2>1. x.lines \in Seq(L) /\ Addition(x.lines, sec) \in Seq(L)
    BY AdditionType
  <2> QED
    BY <2>1 DEF Longer
<1> HIDE DEF ls
<1>2. Grown(x, sec) = [x EXCEPT !.lines = ls]
  BY DEF Grown, ls
<1>3. /\ [x EXCEPT !.lines = ls] \in Sections(K, I, L)
      /\ [x EXCEPT !.lines = ls].kind = x.kind /\ [x EXCEPT !.lines = ls].lines = ls
  BY <1>1 DEF Sections
<1> QED
  BY <1>2, <1>3 DEF ls

\* A section is left out, goes to the end, or adds its lines to the first of
\* its kind.
LEMMA JoinedSteps ==
  ASSUME NEW K, NEW I, NEW L,
         NEW out \in Seq(Sections(K, I, L)), NEW sec \in Sections(K, I, L)
  PROVE  \/ sec.kind = "Defaults" /\ Joined(out, sec) = out
         \/ /\ sec.kind # "Defaults"
            /\ sec.kind \in {"Disks", "SCSI"} => \A i \in DOMAIN out : out[i].kind # sec.kind
            /\ Joined(out, sec) = Append(out, sec)
         \/ /\ sec.kind \in {"Disks", "SCSI"}
            /\ \E at \in DOMAIN out :
                 /\ out[at].kind = sec.kind
                 /\ \A i \in 1..(at - 1) : out[i].kind # sec.kind
                 /\ Joined(out, sec) = Put(out, at, Grown(out[at], sec))
<1> DEFINE S == {i \in 1..Len(out) : out[i].kind = sec.kind}
           at == IF S # {} THEN Min(S) ELSE 0
           J == IF sec.kind = "Defaults" THEN out
                ELSE IF sec.kind \in {"Disks", "SCSI"} /\ at # 0
                     THEN Put(out, at, Grown(out[at], sec))
                     ELSE Append(out, sec)
<1>1. Len(out) \in Nat /\ DOMAIN out = 1..Len(out) /\ S \in SUBSET (1..Len(out))
  OBVIOUS
<1>2. Joined(out, sec) = J
  BY Zenon DEF Joined, SelectInSeq, Put, Grown, Longer, Addition
<1>3. S = {} => at = 0 /\ \A i \in DOMAIN out : out[i].kind # sec.kind
  BY <1>1
<1>4. S # {} => /\ at \in DOMAIN out /\ at # 0 /\ out[at].kind = sec.kind
                /\ \A i \in 1..(at - 1) : out[i].kind # sec.kind
  <2> SUFFICES ASSUME S # {} PROVE /\ at \in DOMAIN out /\ at # 0 /\ out[at].kind = sec.kind
                                   /\ \A i \in 1..(at - 1) : out[i].kind # sec.kind
    OBVIOUS
  <2> HIDE DEF S
  <2>1. at \in S /\ \A x \in S : at <= x
    BY <1>1, MinFacts
  <2> HIDE DEF at
  <2>2. at \in 1..Len(out) /\ out[at].kind = sec.kind
    BY <2>1 DEF S
  <2>3. ASSUME NEW i \in 1..(at - 1), out[i].kind = sec.kind PROVE FALSE
    <3>1. i \in 1..Len(out) /\ ~(at <= i)
      BY <1>1, <2>2
    <3>2. i \in S
      BY <2>3, <3>1 DEF S
    <3> QED
      BY <2>1, <3>1, <3>2
  <2> QED
    BY <1>1, <2>2, <2>3
<1> HIDE DEF S, at
<1> QED
  BY <1>2, <1>3, <1>4

\* A and B are what stands before and after a place of s.
Around(A, B, s, at, y) ==
  /\ s = Append(A, s[at]) \o B /\ Put(s, at, y) = Append(A, y) \o B
  /\ Len(A) = at - 1 /\ \A i \in 1..(at - 1) : A[i] = s[i]

\* Every place of a sequence has a before and an after.
LEMMA SplitAt ==
  ASSUME NEW V, NEW s \in Seq(V), NEW at \in DOMAIN s, NEW y \in V
  PROVE  \E A \in Seq(V), B \in Seq(V) : Around(A, B, s, at, y)
<1> DEFINE A == SubSeq(s, 1, at - 1)
           B == SubSeq(s, at + 1, Len(s))
<1>1. Len(s) \in Nat /\ DOMAIN s = 1..Len(s) /\ at \in 1..Len(s) /\ s[at] \in V
  OBVIOUS
<1>2. /\ A \in Seq(V) /\ Len(A) = at - 1 /\ \A i \in 1..(at - 1) : A[i] = s[i]
  BY <1>1
<1>3. /\ B \in Seq(V) /\ Len(B) = Len(s) - at /\ \A i \in 1..(Len(s) - at) : B[i] = s[at + i]
  BY <1>1
<1> HIDE DEF A, B
<1>4. ASSUME NEW z \in V
      PROVE  Append(A, z) \o B = [i \in 1..Len(s) |-> IF i = at THEN z ELSE s[i]]
  <2> DEFINE C == Append(A, z)
  <2>1. /\ C \in Seq(V) /\ Len(C) = at /\ C[at] = z /\ \A i \in 1..(at - 1) : C[i] = s[i]
    BY <1>1, <1>2
  <2> HIDE DEF C
  <2>2. /\ Len(C \o B) = Len(s) /\ C \o B \in Seq(V)
        /\ \A i \in 1..at : (C \o B)[i] = C[i]
        /\ \A i \in 1..(Len(s) - at) : (C \o B)[at + i] = B[i]
    <3>1. /\ Len(C \o B) = Len(C) + Len(B) /\ C \o B \in Seq(V)
          /\ \A i \in 1..Len(C) : (C \o B)[i] = C[i]
          /\ \A i \in 1..Len(B) : (C \o B)[Len(C) + i] = B[i]
      <4>1. /\ Len(C \o B) = Len(C) + Len(B) /\ C \o B \in Seq(V)
            /\ \A i \in 1..(Len(C) + Len(B)) :
                 (C \o B)[i] = IF i <= Len(C) THEN C[i] ELSE B[i - Len(C)]
        BY <1>3, <2>1, ConcatProperties
      <4>2. Len(C) \in Nat /\ Len(B) \in Nat
        BY <1>3, <2>1
      <4>3. ASSUME NEW i \in 1..Len(C) PROVE (C \o B)[i] = C[i]
        BY <4>1, <4>2
      <4>4. ASSUME NEW i \in 1..Len(B) PROVE (C \o B)[Len(C) + i] = B[i]
        <5>1. /\ Len(C) + i \in 1..(Len(C) + Len(B)) /\ ~(Len(C) + i <= Len(C))
              /\ (Len(C) + i) - Len(C) = i
          BY <4>2
        <5> QED
          BY <4>1, <5>1
      <4> QED
        BY <4>1, <4>3, <4>4
    <3>2. at + (Len(s) - at) = Len(s)
      BY <1>1
    <3> QED
      BY <1>3, <2>1, <3>1, <3>2
  <2>3. ASSUME NEW i \in 1..Len(s)
        PROVE  (C \o B)[i] = IF i = at THEN z ELSE s[i]
    <3>1. CASE i = at
      BY <1>1, <2>1, <2>2, <3>1
    <3>2. CASE i < at
      <4>1. i \in 1..at /\ i \in 1..(at - 1) /\ i # at
        BY <1>1, <3>2
      <4> QED
        BY <2>1, <2>2, <4>1
    <3>3. CASE i > at
      <4>1. i - at \in 1..(Len(s) - at) /\ at + (i - at) = i /\ i # at
        BY <1>1, <3>3
      <4>2. (C \o B)[at + (i - at)] = B[i - at] /\ B[i - at] = s[at + (i - at)]
        BY <1>3, <2>2, <4>1
      <4> QED
        BY <4>1, <4>2
    <3>4. i = at \/ i < at \/ i > at
      BY <1>1
    <3> QED
      BY <3>1, <3>2, <3>3, <3>4
  <2>4. C \o B = [i \in 1..Len(s) |-> (C \o B)[i]]
    <3>1. \A t \in Seq(V) : t = [i \in 1..Len(t) |-> t[i]]
      OBVIOUS
    <3> QED
      BY <2>2, <3>1
  <2> QED
    BY <2>3, <2>4 DEF C
<1>5. s = Append(A, s[at]) \o B
  <2>1. s = [i \in 1..Len(s) |-> IF i = at THEN s[at] ELSE s[i]]
    BY <1>1
  <2> QED
    BY <1>1, <1>4, <2>1
<1>6. Put(s, at, y) = Append(A, y) \o B
  <2>1. Put(s, at, y) = [i \in 1..Len(s) |-> IF i = at THEN y ELSE s[i]]
    BY <1>1 DEF Put
  <2> QED
    BY <1>4, <2>1
<1> QED
  BY <1>2, <1>3, <1>5, <1>6 DEF Around

\* To the first [Disks] all its lines are new.
LEMMA NewDisksFirst ==
  ASSUME NEW L, NEW lines \in Seq(L)
  PROVE  NewDisks(<<>>, lines) = lines
<1> DEFINE I == {i \in DOMAIN lines :
                   lines[i].key = None \/ \A j \in DOMAIN <<>> : <<>>[j].key # lines[i].key}
           J == {i \in DOMAIN lines : lines[i] \in L}
<1>1. I = DOMAIN lines /\ J = DOMAIN lines
  <2>1. DOMAIN <<>> = {} /\ \A i \in DOMAIN lines : lines[i] \in L
    OBVIOUS
  <2>2. I = DOMAIN lines
    BY <2>1
  <2> QED
    BY <2>1, <2>2
<1>2. NewDisks(<<>>, lines) = Chosen(lines, I)
  BY DEF NewDisks, Filtered
<1>3. Picked(lines, L) = Chosen(lines, J)
  BY DEF Picked
<1>4. Picked(lines, L) = lines
  <2>1. \A i \in DOMAIN lines : lines[i] \in L
    OBVIOUS
  <2> QED
    BY <2>1, PickedAll
<1> HIDE DEF I, J
<1> QED
  BY <1>1, <1>2, <1>3, <1>4

\* The sections of a kind when none of the kind is before one of them.
LEMMA FirstOfKind ==
  ASSUME NEW V, NEW A \in Seq(V), NEW B \in Seq(V), NEW z \in V,
         \A i \in DOMAIN A : A[i].kind # z.kind
  PROVE  /\ OfKind(Append(A, z) \o B, z.kind) # <<>>
         /\ OfKind(Append(A, z) \o B, z.kind)[1] = z
         /\ Tail(OfKind(Append(A, z) \o B, z.kind)) = OfKind(B, z.kind)
<1> DEFINE R == OfKind(B, z.kind)
<1>1. R \in Seq(V) /\ Append(A, z) \in Seq(V)
  <2>1. R \in Seq(V)
    BY OfKindAppend
  <2> HIDE DEF R
  <2> QED
    BY <2>1
<1>2. OfKind(A, z.kind) = <<>>
  BY OfKindNone
<1>3. OfKind(Append(A, z), z.kind) = <<z>>
  <2>1. OfKind(Append(A, z), z.kind) = Append(OfKind(A, z.kind), z)
    BY OfKindAppend
  <2> QED
    BY <1>2, <2>1
<1>4. OfKind(Append(A, z) \o B, z.kind) = <<z>> \o R
  <2>1. OfKind(Append(A, z) \o B, z.kind) = OfKind(Append(A, z), z.kind) \o OfKind(B, z.kind)
    BY <1>1, OfKindConcat
  <2> QED
    BY <1>3, <2>1
<1> HIDE DEF R
<1>5. <<z>> \o R # <<>> /\ (<<z>> \o R)[1] = z /\ Tail(<<z>> \o R) = R
  <2>1. Len(<<z>> \o R) = 1 + Len(R) /\ Len(R) \in Nat
    BY <1>1
  <2>2. (<<z>> \o R)[1] = z /\ Tail(<<z>> \o R) = R
    BY <1>1
  <2> QED
    BY <2>1, <2>2
<1> QED
  BY <1>4, <1>5 DEF R

\* A section at its place does not matter to another kind.
LEMMA OtherKind ==
  ASSUME NEW V, NEW A \in Seq(V), NEW B \in Seq(V), NEW z \in V, NEW kind, z.kind # kind
  PROVE  OfKind(Append(A, z) \o B, kind) = OfKind(A, kind) \o OfKind(B, kind)
<1>1. Append(A, z) \in Seq(V)
  OBVIOUS
<1>2. OfKind(Append(A, z), kind) = OfKind(A, kind)
  BY OfKindAppend
<1>3. OfKind(Append(A, z) \o B, kind) = OfKind(Append(A, z), kind) \o OfKind(B, kind)
  BY <1>1, OfKindConcat
<1> QED
  BY <1>2, <1>3

\* What of a file is as before when a section has joined it, and what grows.
Joins(out, sec, new) ==
  /\ \A kind : kind # sec.kind \/ kind = "Defaults" => OfKind(new, kind) = OfKind(out, kind)
  /\ sec.kind \notin {"Disks", "SCSI", "Defaults"} =>
       OfKind(new, sec.kind) = Append(OfKind(out, sec.kind), sec)
  /\ sec.kind \in {"Disks", "SCSI"} =>
       /\ Follow(new, sec.kind) = Follow(out, sec.kind)
       /\ Lead(new, sec.kind) = Longer(Lead(out, sec.kind), sec)

\* A section that joins changes nothing of the other kinds, follows the sections
\* of its own, or makes the first of them longer.
LEMMA JoinedFacts ==
  ASSUME NEW K, NEW I, NEW L,
         NEW out \in Seq(Sections(K, I, L)), NEW sec \in Sections(K, I, L)
  PROVE  /\ Joined(out, sec) \in Seq(Sections(K, I, L))
         /\ Joins(out, sec, Joined(out, sec))
<1> DEFINE V == Sections(K, I, L)
           J == Joined(out, sec)
           Type == J \in Seq(V)
           Others == \A kind : kind # sec.kind \/ kind = "Defaults" => OfKind(J, kind) = OfKind(out, kind)
           Own == sec.kind \notin {"Disks", "SCSI", "Defaults"} =>
                    OfKind(J, sec.kind) = Append(OfKind(out, sec.kind), sec)
           Grows == sec.kind \in {"Disks", "SCSI"} =>
              /\ Follow(J, sec.kind) = Follow(out, sec.kind)
              /\ Lead(J, sec.kind) = Longer(Lead(out, sec.kind), sec)
<1> SUFFICES Type /\ Others /\ Own /\ Grows
  BY DEF Joins
<1> HIDE DEF V, J, Type, Others, Own, Grows
<1>0. out \in Seq(V) /\ sec \in V
  BY DEF V
<1>1. /\ sec.lines \in Seq(L) /\ \A lead : Addition(lead, sec) \in Seq(L)
      /\ Longer(<<>>, sec) = sec.lines
  <2>1. sec.lines \in Seq(L) /\ \A lead : Addition(lead, sec) \in Seq(L)
    BY AdditionType
  <2>2. Addition(<<>>, sec) = sec.lines
    BY <2>1, NewDisksFirst DEF Addition
  <2>3. <<>> \o sec.lines = sec.lines
    BY <2>1
  <2> QED
    BY <2>1, <2>2, <2>3 DEF Longer
<1>2. CASE sec.kind = "Defaults" /\ J = out
  <2>1. Type /\ Others
    BY <1>0, <1>2 DEF Type, Others
  <2>2. Own /\ Grows
    BY <1>2 DEF Own, Grows
  <2> QED
    BY <2>1, <2>2
<1>3. CASE /\ sec.kind # "Defaults"
           /\ sec.kind \in {"Disks", "SCSI"} => \A i \in DOMAIN out : out[i].kind # sec.kind
           /\ J = Append(out, sec)
  <2>1. Type
    BY <1>0, <1>3 DEF Type
  <2>2. \A kind : OfKind(J, kind) =
           IF sec.kind = kind THEN Append(OfKind(out, kind), sec) ELSE OfKind(out, kind)
    <3>1. \A kind : OfKind(Append(out, sec), kind) =
           IF sec.kind = kind THEN Append(OfKind(out, kind), sec) ELSE OfKind(out, kind)
      BY <1>0, OfKindAppend
    <3> QED
      BY <1>3, <3>1
  <2>3. Others /\ Own
    BY <1>3, <2>2 DEF Others, Own
  <2>4. ASSUME sec.kind \in {"Disks", "SCSI"}
        PROVE  /\ Follow(J, sec.kind) = Follow(out, sec.kind)
               /\ Lead(J, sec.kind) = Longer(Lead(out, sec.kind), sec)
    <3>1. OfKind(out, sec.kind) = <<>>
      BY <1>0, <1>3, <2>4, OfKindNone
    <3>2. OfKind(J, sec.kind) = <<sec>>
      <4>1. OfKind(J, sec.kind) = Append(<<>>, sec)
        BY <2>2, <3>1
      <4> QED
        BY <4>1
    <3>3. <<sec>> # <<>> /\ <<sec>>[1] = sec /\ Tail(<<sec>>) = <<>>
      OBVIOUS
    <3>4. Follow(out, sec.kind) = <<>> /\ Lead(out, sec.kind) = <<>>
      BY <3>1 DEF Follow, Lead
    <3>5. Follow(J, sec.kind) = <<>> /\ Lead(J, sec.kind) = sec.lines
      BY <3>2, <3>3, LinesOfEmpty DEF Follow, Lead
    <3> QED
      BY <1>1, <3>4, <3>5
  <2>5. Grows
    BY <2>4 DEF Grows
  <2> QED
    BY <2>1, <2>3, <2>5
<1>4. CASE /\ sec.kind \in {"Disks", "SCSI"}
           /\ \E at \in DOMAIN out :
                /\ out[at].kind = sec.kind
                /\ \A i \in 1..(at - 1) : out[i].kind # sec.kind
                /\ J = Put(out, at, Grown(out[at], sec))
  <2>1. PICK at \in DOMAIN out :
                /\ out[at].kind = sec.kind
                /\ \A i \in 1..(at - 1) : out[i].kind # sec.kind
                /\ J = Put(out, at, Grown(out[at], sec))
    BY <1>4
  <2> DEFINE x == out[at]
             y == Grown(x, sec)
  <2>2. x \in V
    BY <1>0
  <2>3. y \in V /\ y.kind = sec.kind /\ y.lines = Longer(x.lines, sec)
    <3>1. x.kind = sec.kind
      BY <2>1
    <3> HIDE DEF x, y
    <3>2. y \in V /\ y.kind = x.kind /\ y.lines = Longer(x.lines, sec)
      <4>1. x \in Sections(K, I, L)
        BY <2>2 DEF V
      <4>2. /\ Grown(x, sec) \in Sections(K, I, L) /\ Grown(x, sec).kind = x.kind
            /\ Grown(x, sec).lines = Longer(x.lines, sec)
        BY <4>1, GrownFacts
      <4> QED
        BY <4>2 DEF y, V
    <3> QED
      BY <3>1, <3>2
  <2>4. \E A \in Seq(V), B \in Seq(V) :
           /\ out = Append(A, x) \o B /\ J = Append(A, y) \o B
           /\ Len(A) = at - 1 /\ \A i \in 1..(at - 1) : A[i] = out[i]
    <3> HIDE DEF y
    <3>1. \E A \in Seq(V), B \in Seq(V) : Around(A, B, out, at, y)
      BY <1>0, <2>1, <2>3, SplitAt
    <3>2. J = Put(out, at, y)
      BY <2>1 DEF y
    <3> QED
      BY <3>1, <3>2 DEF Around
  <2> HIDE DEF y, x
  <2>5. PICK A \in Seq(V), B \in Seq(V) :
           /\ out = Append(A, x) \o B /\ J = Append(A, y) \o B
           /\ Len(A) = at - 1 /\ \A i \in 1..(at - 1) : A[i] = out[i]
    BY <2>4
  <2>6. \A i \in DOMAIN A : A[i].kind # sec.kind
    <3>1. DOMAIN A = 1..(at - 1)
      BY <2>5
    <3> QED
      BY <2>1, <2>5, <3>1
  <2>7. Type
    BY <2>3, <2>5 DEF Type
  <2>8. x.kind = sec.kind
    BY <2>1 DEF x
  <2>9. Others
    <3>1. ASSUME NEW kind, kind # sec.kind PROVE OfKind(J, kind) = OfKind(out, kind)
      <4>1. /\ OfKind(Append(A, x) \o B, kind) = OfKind(A, kind) \o OfKind(B, kind)
            /\ OfKind(Append(A, y) \o B, kind) = OfKind(A, kind) \o OfKind(B, kind)
        BY <2>2, <2>3, <2>8, <3>1, OtherKind
      <4> QED
        BY <2>5, <4>1
    <3> QED
      BY <1>4, <3>1 DEF Others
  <2>10. /\ OfKind(out, sec.kind) # <<>> /\ OfKind(J, sec.kind) # <<>>
         /\ OfKind(out, sec.kind)[1] = x /\ OfKind(J, sec.kind)[1] = y
         /\ Tail(OfKind(out, sec.kind)) = Tail(OfKind(J, sec.kind))
    <3>1. \A z \in V : z.kind = sec.kind =>
            /\ OfKind(Append(A, z) \o B, sec.kind) # <<>>
            /\ OfKind(Append(A, z) \o B, sec.kind)[1] = z
            /\ Tail(OfKind(Append(A, z) \o B, sec.kind)) = OfKind(B, sec.kind)
      BY <2>6, FirstOfKind
    <3> QED
      BY <2>2, <2>3, <2>5, <2>8, <3>1
  <2>11. Grows
    BY <2>3, <2>10 DEF Follow, Lead, Grows
  <2>12. Own
    BY <1>4 DEF Own
  <2> QED
    BY <2>7, <2>9, <2>11, <2>12
<1>5. \/ sec.kind = "Defaults" /\ J = out
      \/ /\ sec.kind # "Defaults"
         /\ sec.kind \in {"Disks", "SCSI"} => \A i \in DOMAIN out : out[i].kind # sec.kind
         /\ J = Append(out, sec)
      \/ /\ sec.kind \in {"Disks", "SCSI"}
         /\ \E at \in DOMAIN out :
              /\ out[at].kind = sec.kind
              /\ \A i \in 1..(at - 1) : out[i].kind # sec.kind
              /\ J = Put(out, at, Grown(out[at], sec))
  BY JoinedSteps DEF J
<1> QED
  BY <1>2, <1>3, <1>4, <1>5

-----------------------------------------------------------------------------
(***************************************************************************)
(* A file joins another, section by section.                               *)
(***************************************************************************)

\* The steps of a merge.
Merging(m, base, oem, W) ==
  /\ m \in [0..Len(oem) -> W] /\ m[0] = base
  /\ \A i \in 1..Len(oem) : m[i] = Joined(m[i - 1], oem[i])

\* A section that joins leaves sections of V.
Closed(V) == \A out \in Seq(V), sec \in V : Joined(out, sec) \in Seq(V)

\* What the recursion of Combine runs through.
LEMMA MergeSteps ==
  ASSUME NEW V, NEW base \in Seq(V), NEW oem \in Seq(V), Closed(V)
  PROVE  \E m : Merging(m, base, oem, Seq(V)) /\ Combine(base, oem) = m[Len(oem)]
<1> DEFINE n == Len(oem)
           W == Seq(V)
           step == [i \in 1..n |-> [v \in W |-> Joined(v, oem[i])]]
           Step(c, i) == IF i = 0 THEN base ELSE Joined(c[i - 1], oem[i])
<1>1. n \in Nat /\ base \in W /\ \A i \in 1..n : oem[i] \in V
  OBVIOUS
<1>2. ASSUME NEW i \in 1..n, NEW v \in W PROVE Joined(v, oem[i]) \in W
  BY <1>1 DEF Closed
<1> HIDE DEF W, n
<1>3. step \in StepsOn(W, n) /\ \A i \in 1..n, v \in W : step[i][v] = Joined(v, oem[i])
  BY <1>2 DEF StepsOn
<1> HIDE DEF step
<1>4. PICK h : Follows(h, W, n, base, step)
  BY <1>1, <1>3, Recursion
<1>5. /\ h \in [0..n -> W] /\ h[0] = base
      /\ \A i \in 1..n : h[i] = Joined(h[i - 1], oem[i])
  <2>1. ASSUME NEW i \in 1..n PROVE h[i] = Joined(h[i - 1], oem[i])
    <3>1. i - 1 \in 0..n
      BY <1>1
    <3>2. h[i - 1] \in W /\ h[i] = step[i][h[i - 1]]
      BY <1>4, <3>1 DEF Follows
    <3> QED
      BY <1>3, <3>2
  <2> QED
    BY <1>4, <2>1 DEF Follows
<1>6. h = [i \in 0..n |-> Step(h, i)]
  <2>1. \A i \in 0..n : h[i] = Step(h, i)
    BY <1>1, <1>5
  <2> HIDE DEF Step
  <2> QED
    BY <1>5, <2>1
<1> DEFINE c == CHOOSE u : u = [i \in 0..n |-> Step(u, i)]
<1>7. c = [i \in 0..n |-> Step(c, i)]
  <2> HIDE DEF Step
  <2> QED
    BY <1>6
<1>8. Combine(base, oem) = c[n]
  BY DEF Combine, n
<1> HIDE DEF c
<1>9. c[0] = base /\ \A i \in 1..n : c[i] = Joined(c[i - 1], oem[i])
  BY <1>1, <1>7
<1> DEFINE T == {i \in 0..n : c[i] \in W}
<1>10. \A i \in 0..n : i \in T
  <2> HIDE DEF Step
  <2>1. 0 \in T
    BY <1>1, <1>9
  <2>2. ASSUME NEW i \in 1..n, i - 1 \in T PROVE i \in T
    <3>1. i \in 0..n /\ c[i - 1] \in W
      BY <1>1, <2>2
    <3>2. c[i] \in W
      BY <1>2, <1>9, <3>1
    <3> QED
      BY <3>1, <3>2
  <2> HIDE DEF T
  <2> QED
    BY <1>1, <2>1, <2>2, IntervalInduction
<1>11. c \in [0..n -> W]
  <2>1. \A i \in 0..n : c[i] \in W
    BY <1>10
  <2> HIDE DEF Step
  <2> QED
    BY <1>7, <2>1
<1>12. Merging(c, base, oem, W)
  BY <1>9, <1>11 DEF Merging, n
<1> QED
  BY <1>8, <1>12 DEF n, W

LEMMA CombineType ==
  ASSUME NEW V, NEW base \in Seq(V), NEW oem \in Seq(V), Closed(V)
  PROVE  Combine(base, oem) \in Seq(V) /\ (oem = <<>> => Combine(base, oem) = base)
<1> DEFINE n == Len(oem)
<1>1. n \in 0..n /\ (oem = <<>> => n = 0)
  OBVIOUS
<1>2. PICK c : Merging(c, base, oem, Seq(V)) /\ Combine(base, oem) = c[n]
  BY MergeSteps
<1> QED
  BY <1>1, <1>2 DEF Merging

\* A merge with one more section is one more step.
LEMMA CombineAppend ==
  ASSUME NEW V, NEW base \in Seq(V), NEW oem \in Seq(V), NEW sec \in V, Closed(V)
  PROVE  Combine(base, Append(oem, sec)) = Joined(Combine(base, oem), sec)
<1> DEFINE n == Len(oem)
           t == Append(oem, sec)
<1>1. /\ n \in Nat /\ t \in Seq(V) /\ Len(t) = n + 1 /\ t[n + 1] = sec
      /\ \A i \in 1..n : t[i] = oem[i]
  OBVIOUS
<1>2. PICK c : Merging(c, base, oem, Seq(V)) /\ Combine(base, oem) = c[n]
  BY <1>1, MergeSteps
<1> HIDE DEF t
<1>3. PICK d : Merging(d, base, t, Seq(V)) /\ Combine(base, t) = d[n + 1]
  <2>1. \A u \in Seq(V) :
          \E m : Merging(m, base, u, Seq(V)) /\ Combine(base, u) = m[Len(u)]
    BY MergeSteps, Zenon
  <2>2. \E m : Merging(m, base, t, Seq(V)) /\ Combine(base, t) = m[Len(t)]
    BY <1>1, <2>1, Zenon
  <2> QED
    BY <1>1, <2>2, Zenon
<1>4. Len(oem) = n
  OBVIOUS
<1> HIDE DEF n
<1> DEFINE T == {i \in 0..n : d[i] = c[i]}
<1>5. \A i \in 0..n : i \in T
  <2>1. 0 \in T
    BY <1>1, <1>2, <1>3, <1>4 DEF Merging
  <2>2. ASSUME NEW i \in 1..n, i - 1 \in T PROVE i \in T
    <3>1. i \in 1..(n + 1) /\ i \in 0..n /\ t[i] = oem[i]
      BY <1>1
    <3>2. d[i] = Joined(d[i - 1], t[i])
      BY <1>1, <1>3, <3>1 DEF Merging
    <3>3. c[i] = Joined(c[i - 1], oem[i])
      BY <1>2, <1>4 DEF Merging
    <3> QED
      BY <2>2, <3>1, <3>2, <3>3
  <2> HIDE DEF T
  <2> QED
    BY <1>1, <2>1, <2>2, IntervalInduction
<1>6. d[n] = c[n]
  BY <1>1, <1>5
<1>7. d[n + 1] = Joined(d[n], sec)
  <2>1. n + 1 \in 1..Len(t) /\ (n + 1) - 1 = n
    BY <1>1
  <2>2. d[n + 1] = Joined(d[(n + 1) - 1], t[n + 1])
    BY <1>3, <2>1 DEF Merging
  <2> QED
    BY <1>1, <2>1, <2>2
<1> QED
  BY <1>2, <1>3, <1>6, <1>7 DEF t

\* What a merge keeps of both files: nothing but the new disks differs from
\* the lines of one after those of the other.
KeepsBoth(base, oem, merged) ==
  /\ OfKind(merged, "Defaults") = OfKind(base, "Defaults")
  /\ \A kind \in {"Files", "HardwareIds"} :
       OfKind(merged, kind) = OfKind(base, kind) \o OfKind(oem, kind)
  /\ \A kind \in {"Disks", "SCSI"} : Follow(merged, kind) = Follow(base, kind)
  /\ Lead(merged, "SCSI") = Lead(base, "SCSI") \o Lines(oem, "SCSI")

\* A merge keeps both files: by induction on the sections that join.
LEMMA CombineFacts ==
  ASSUME NEW K, NEW I, NEW L,
         NEW base \in Seq(Sections(K, I, L)), NEW oem \in Seq(Sections(K, I, L))
  PROVE  /\ Combine(base, oem) \in Seq(Sections(K, I, L))
         /\ KeepsBoth(base, oem, Combine(base, oem))
<1> DEFINE V == Sections(K, I, L)
           Default(u) == OfKind(Combine(base, u), "Defaults") = OfKind(base, "Defaults")
           Both(u, kind) == OfKind(Combine(base, u), kind) = OfKind(base, kind) \o OfKind(u, kind)
           Still(u, kind) == Follow(Combine(base, u), kind) = Follow(base, kind)
           Grows(u) == Lead(Combine(base, u), "SCSI") = Lead(base, "SCSI") \o Lines(u, "SCSI")
           T == {u \in Seq(V) : /\ Default(u) /\ Grows(u)
                                /\ Both(u, "Files") /\ Both(u, "HardwareIds")
                                /\ Still(u, "Disks") /\ Still(u, "SCSI")}
<1>1. Closed(V)
  BY JoinedFacts DEF Closed
<1>2. ASSUME NEW kind
      PROVE  /\ OfKind(base, kind) \in Seq(V) /\ Lead(base, kind) \in Seq(L)
             /\ \A u \in Seq(V) : OfKind(u, kind) \in Seq(V) /\ Lines(u, kind) \in Seq(L)
  <2>1. \A u \in Seq(V) : OfKind(u, kind) \in Seq(V) /\ Lines(u, kind) \in Seq(L)
    BY KindLinesType
  <2>2. Lead(base, kind) \in Seq(L)
    <3> DEFINE F == OfKind(base, kind)
    <3>1. F \in Seq(V)
      BY <2>1
    <3> HIDE DEF F
    <3>2. F # <<>> => F[1] \in V
      <4> HIDE DEF V
      <4> QED
        BY <3>1
    <3>3. \A x \in V : x.lines \in Seq(L)
      BY DEF Sections
    <3>4. <<>> \in Seq(L)
      OBVIOUS
    <3> HIDE DEF V
    <3> QED
      BY <3>2, <3>3, <3>4 DEF Lead, F
  <2> QED
    BY <2>1, <2>2
<1> HIDE DEF V
<1>3. base \in Seq(V) /\ oem \in Seq(V)
  BY DEF V
<1>4. /\ \A u \in Seq(V), x \in V : Combine(base, Append(u, x)) = Joined(Combine(base, u), x)
      /\ \A u \in Seq(V) : Combine(base, u) \in Seq(V) /\ (u = <<>> => Combine(base, u) = base)
  BY <1>1, <1>3, CombineAppend, CombineType
<1>5. <<>> \in T
  <2>1. /\ <<>> \in Seq(V) /\ Combine(base, <<>>) = base
    <3>1. <<>> \in Seq(V)
      OBVIOUS
    <3> QED
      BY <1>4, <3>1
  <2>2. ASSUME NEW kind
        PROVE  /\ OfKind(<<>>, kind) = <<>> /\ Lines(<<>>, kind) = <<>>
               /\ OfKind(base, kind) \o <<>> = OfKind(base, kind)
               /\ Lead(base, kind) \o <<>> = Lead(base, kind)
    <3>1. OfKind(<<>>, kind) = <<>>
      <4>1. \A i \in DOMAIN <<>> : <<>>[i].kind # kind
        OBVIOUS
      <4> QED
        BY <2>1, <4>1, OfKindNone
    <3>2. OfKind(base, kind) \o <<>> = OfKind(base, kind) /\ Lead(base, kind) \o <<>> = Lead(base, kind)
      <4> DEFINE a == OfKind(base, kind)
                 b == Lead(base, kind)
      <4>1. a \in Seq(V) /\ b \in Seq(L)
        BY <1>2
      <4> HIDE DEF a, b
      <4>2. a \o <<>> = a /\ b \o <<>> = b
        BY <4>1
      <4> QED
        BY <4>2 DEF a, b
    <3> QED
      BY <3>1, <3>2, LinesOfEmpty DEF Lines
  <2>3. Default(<<>>) /\ \A kind : Both(<<>>, kind) /\ Still(<<>>, kind)
    BY <2>1, <2>2
  <2>4. Grows(<<>>)
    BY <2>1, <2>2
  <2> HIDE DEF Default, Both, Still, Grows
  <2> QED
    BY <2>1, <2>3, <2>4
<1>6. ASSUME NEW u \in Seq(V), NEW x \in V, u \in T PROVE Append(u, x) \in T
  <2> DEFINE c == Combine(base, u)
             d == Combine(base, Append(u, x))
  <2>1. c \in Seq(V) /\ d = Joined(c, x) /\ Append(u, x) \in Seq(V)
    <3> HIDE DEF T
    <3>1. Append(u, x) \in Seq(V)
      OBVIOUS
    <3> QED
      BY <1>4, <3>1
  <2>2. /\ Default(u) /\ Grows(u) /\ Both(u, "Files") /\ Both(u, "HardwareIds")
        /\ Still(u, "Disks") /\ Still(u, "SCSI")
    BY <1>6
  <2> HIDE DEF T
  <2>3. /\ \A kind : kind # x.kind \/ kind = "Defaults" => OfKind(d, kind) = OfKind(c, kind)
        /\ x.kind \notin {"Disks", "SCSI", "Defaults"} =>
             OfKind(d, x.kind) = Append(OfKind(c, x.kind), x)
        /\ x.kind \in {"Disks", "SCSI"} =>
             /\ Follow(d, x.kind) = Follow(c, x.kind)
             /\ Lead(d, x.kind) = Longer(Lead(c, x.kind), x)
    <3> HIDE DEF c, d
    <3>1. c \in Seq(Sections(K, I, L)) /\ x \in Sections(K, I, L)
      BY <2>1 DEF V
    <3>2. Joins(c, x, d)
      BY <2>1, <3>1, JoinedFacts
    <3> QED
      BY <3>2 DEF Joins
  <2>4. \A kind : /\ OfKind(Append(u, x), kind) =
                       IF x.kind = kind THEN Append(OfKind(u, kind), x) ELSE OfKind(u, kind)
                  /\ Lines(Append(u, x), kind) =
                       IF x.kind = kind THEN Lines(u, kind) \o x.lines ELSE Lines(u, kind)
    <3>1. x \in Sections(K, I, L) /\ u \in Seq(Sections(K, I, L))
      BY DEF V
    <3>2. \A kind : OfKind(Append(u, x), kind) =
                      IF x.kind = kind THEN Append(OfKind(u, kind), x) ELSE OfKind(u, kind)
      BY <3>1, OfKindAppend
    <3>3. ASSUME NEW kind
          PROVE  Lines(Append(u, x), kind) =
                   IF x.kind = kind THEN Lines(u, kind) \o x.lines ELSE Lines(u, kind)
      BY <3>1, LinesAppend
    <3> QED
      BY <3>2, <3>3
  <2>5. Default(Append(u, x))
    BY <2>2, <2>3
  <2>6. ASSUME NEW kind \in {"Files", "HardwareIds"} PROVE Both(Append(u, x), kind)
    <3>1. CASE x.kind = kind
      <4>1. kind \notin {"Disks", "SCSI", "Defaults"}
        OBVIOUS
      <4>2. OfKind(d, kind) = Append(OfKind(c, kind), x)
        BY <2>3, <3>1, <4>1
      <4>3. OfKind(base, kind) \o Append(OfKind(u, kind), x) =
              Append(OfKind(base, kind) \o OfKind(u, kind), x)
        BY <1>2, AppendConcat
      <4>4. OfKind(Append(u, x), kind) = Append(OfKind(u, kind), x)
        BY <2>4, <3>1
      <4>5. OfKind(c, kind) = OfKind(base, kind) \o OfKind(u, kind)
        BY <2>2
      <4> QED
        BY <4>2, <4>3, <4>4, <4>5
    <3>2. CASE x.kind # kind
      <4>1. OfKind(d, kind) = OfKind(c, kind) /\ OfKind(Append(u, x), kind) = OfKind(u, kind)
        BY <2>3, <2>4, <3>2
      <4>2. OfKind(c, kind) = OfKind(base, kind) \o OfKind(u, kind)
        BY <2>2
      <4> QED
        BY <4>1, <4>2
    <3> QED
      BY <3>1, <3>2
  <2>7. ASSUME NEW kind \in {"Disks", "SCSI"} PROVE Still(Append(u, x), kind)
    <3>1. Follow(c, kind) = Follow(base, kind)
      BY <2>2
    <3>2. Follow(d, kind) = Follow(c, kind)
      <4>1. CASE x.kind = kind
        BY <2>3, <4>1
      <4>2. CASE x.kind # kind
        <5>1. OfKind(d, kind) = OfKind(c, kind)
          BY <2>3, <4>2
        <5> QED
          BY <5>1 DEF Follow
      <4> QED
        BY <4>1, <4>2
    <3> QED
      BY <3>1, <3>2
  <2>8. Grows(Append(u, x))
    <3>1. Lead(c, "SCSI") = Lead(base, "SCSI") \o Lines(u, "SCSI")
      BY <2>2
    <3>2. CASE x.kind = "SCSI"
      <4> DEFINE a == Lead(base, "SCSI")
                 b == Lines(u, "SCSI")
                 e == x.lines
      <4>1. a \in Seq(L) /\ b \in Seq(L) /\ e \in Seq(L)
        BY <1>2 DEF V, Sections
      <4> HIDE DEF a, b, c, d, e
      <4>2. (a \o b) \o e = a \o (b \o e)
        BY <4>1, ConcatAssociative, SMTT(30)
      <4>3. Lead(d, "SCSI") = Longer(Lead(c, "SCSI"), x)
        BY <2>3, <3>2
      <4>4. Longer(Lead(c, "SCSI"), x) = Lead(c, "SCSI") \o e
        BY <3>2 DEF Longer, Addition, e
      <4>5. Lines(Append(u, x), "SCSI") = b \o e
        BY <2>4, <3>2 DEF b, e
      <4>6. Lead(c, "SCSI") = a \o b
        BY <3>1 DEF a, b
      <4>7. Lead(d, "SCSI") = a \o Lines(Append(u, x), "SCSI")
        BY <4>2, <4>3, <4>4, <4>5, <4>6
      <4> QED
        BY <4>7 DEF a, d
    <3>3. CASE x.kind # "SCSI"
      <4>1. OfKind(d, "SCSI") = OfKind(c, "SCSI") /\ Lines(Append(u, x), "SCSI") = Lines(u, "SCSI")
        BY <2>3, <2>4, <3>3
      <4>2. Lead(d, "SCSI") = Lead(c, "SCSI")
        BY <4>1 DEF Lead
      <4> QED
        BY <3>1, <4>1, <4>2
    <3> QED
      BY <3>2, <3>3
  <2>9. /\ Both(Append(u, x), "Files") /\ Both(Append(u, x), "HardwareIds")
        /\ Still(Append(u, x), "Disks") /\ Still(Append(u, x), "SCSI")
    <3> HIDE DEF Both, Still
    <3> QED
      BY <2>6, <2>7
  <2> HIDE DEF Default, Both, Still, Grows
  <2> QED
    BY <2>1, <2>5, <2>8, <2>9 DEF T
<1>7. oem \in T
  <2> HIDE DEF T
  <2> QED
    BY <1>3, <1>5, <1>6, SequenceInduction
<1>8. /\ Combine(base, oem) \in Seq(V)
      /\ Default(oem) /\ Grows(oem) /\ Both(oem, "Files") /\ Both(oem, "HardwareIds")
      /\ Still(oem, "Disks") /\ Still(oem, "SCSI")
  <2>1. Combine(base, oem) \in Seq(V)
    BY <1>3, <1>4
  <2> HIDE DEF Default, Both, Still, Grows
  <2> QED
    BY <1>7, <2>1
<1>9. /\ \A kind \in {"Files", "HardwareIds"} : Both(oem, kind)
      /\ \A kind \in {"Disks", "SCSI"} : Still(oem, kind)
  <2> HIDE DEF Default, Both, Still, Grows
  <2> QED
    BY <1>8
<1> QED
  BY <1>8, <1>9 DEF V, KeepsBoth

\* The lines of a kind are those of its first section, then the others.
LEMMA LeadFollow ==
  ASSUME NEW K, NEW I, NEW L, NEW pack \in Seq(Sections(K, I, L)), NEW kind
  PROVE  /\ Lead(pack, kind) \in Seq(L) /\ Follow(pack, kind) \in Seq(L)
         /\ Lines(pack, kind) = Lead(pack, kind) \o Follow(pack, kind)
<1> DEFINE V == Sections(K, I, L)
           F == OfKind(pack, kind)
<1>1. F \in Seq(V)
  BY KindLinesType
<1>2. \A x \in V : x.lines \in Seq(L)
  BY DEF Sections
<1>3. CASE F = <<>>
  <2>1. Lead(pack, kind) = <<>> /\ Follow(pack, kind) = <<>> /\ Lines(pack, kind) = <<>>
    BY <1>3, LinesOfEmpty DEF Lead, Follow, Lines
  <2>2. <<>> \o <<>> = <<>> /\ <<>> \in Seq(L)
    OBVIOUS
  <2> QED
    BY <2>1, <2>2
<1>4. CASE F # <<>>
  <2> DEFINE x == F[1]
             R == Tail(F)
  <2> HIDE DEF V, F
  <2>1. x \in V /\ R \in Seq(V) /\ F = <<x>> \o R
    BY <1>1, <1>4
  <2> HIDE DEF x, R
  <2>2. <<>> \in Seq(V) /\ Append(<<>>, x) = <<x>> /\ <<x>> \in Seq(V)
    BY <2>1
  <2>3. x.lines \in Seq(L) /\ <<>> \o x.lines = x.lines
    BY <1>2, <2>1
  <2>4. LinesOf(<<x>>) = x.lines
    <3>1. \A w \in Seq(V), y \in V : LinesOf(Append(w, y)) = LinesOf(w) \o y.lines
      BY LinesOfAppend DEF V
    <3>2. LinesOf(Append(<<>>, x)) = LinesOf(<<>>) \o x.lines
      BY <2>1, <2>2, <3>1
    <3> QED
      BY <2>2, <2>3, <3>2, LinesOfEmpty
  <2>5. LinesOf(<<x>> \o R) = LinesOf(<<x>>) \o LinesOf(R) /\ LinesOf(R) \in Seq(L)
    <3>1. \A w, y \in Seq(V) : LinesOf(w \o y) = LinesOf(w) \o LinesOf(y)
      BY LinesOfConcat DEF V
    <3>2. \A w \in Seq(V) : LinesOf(w) \in Seq(L)
      BY LinesOfType DEF V
    <3> QED
      BY <2>1, <2>2, <3>1, <3>2
  <2>6. LinesOf(F) = x.lines \o LinesOf(R)
    BY <2>1, <2>4, <2>5
  <2>7. Lead(pack, kind) = x.lines /\ Follow(pack, kind) = LinesOf(R)
    BY <1>4 DEF Lead, Follow, F, x, R
  <2> QED
    BY <2>3, <2>5, <2>6, <2>7 DEF Lines, F
<1> QED
  BY <1>3, <1>4

-----------------------------------------------------------------------------
(***************************************************************************)
(* No disk is declared twice.                                              *)
(***************************************************************************)

\* No key is on two lines.
Once(lines) ==
  \A i, j \in DOMAIN lines : lines[i].key = lines[j].key /\ lines[i].key # None => i = j

\* The line l has none of the keys there.
Unlike(lines, l) == l.key = None \/ \A i \in DOMAIN lines : lines[i].key # l.key

LEMMA OnceAppend ==
  ASSUME NEW L, NEW s \in Seq(L), NEW l \in L
  PROVE  Once(Append(s, l)) <=> Once(s) /\ Unlike(s, l)
<1> DEFINE t == Append(s, l)
           n == Len(s)
<1>1. /\ n \in Nat /\ DOMAIN s = 1..n /\ DOMAIN t = 1..(n + 1) /\ t[n + 1] = l
      /\ \A i \in 1..n : t[i] = s[i]
  OBVIOUS
<1>2. \A i \in 1..(n + 1) : i \in 1..n \/ i = n + 1
  BY <1>1
<1>3. n + 1 \in 1..(n + 1) /\ \A i \in 1..n : i \in 1..(n + 1) /\ i # n + 1
  BY <1>1
<1> HIDE DEF t, n
<1>4. ASSUME Once(t) PROVE Once(s) /\ Unlike(s, l)
  <2>1. Once(s)
    BY <1>1, <1>3, <1>4 DEF Once
  <2>2. ASSUME l.key # None, NEW i \in 1..n, s[i].key = l.key PROVE FALSE
    BY <1>1, <1>3, <1>4, <2>2 DEF Once
  <2> QED
    BY <1>1, <2>1, <2>2 DEF Unlike
<1>5. ASSUME Once(s), Unlike(s, l) PROVE Once(t)
  <2> SUFFICES ASSUME NEW i \in 1..(n + 1), NEW j \in 1..(n + 1),
                      t[i].key = t[j].key, t[i].key # None
               PROVE  i = j
    BY <1>1 DEF Once
  <2>1. CASE i \in 1..n /\ j \in 1..n
    BY <1>1, <1>5, <2>1 DEF Once
  <2>2. CASE i = n + 1 /\ j \in 1..n
    BY <1>1, <1>5, <2>2 DEF Unlike
  <2>3. CASE i \in 1..n /\ j = n + 1
    BY <1>1, <1>5, <2>3 DEF Unlike
  <2> QED
    BY <1>2, <2>1, <2>2, <2>3
<1> QED
  BY <1>4, <1>5 DEF t

\* Leaving lines out declares nothing twice.
LEMMA OncePicked ==
  ASSUME NEW L, NEW s \in Seq(L), NEW S
  PROVE  Once(s) => Once(Picked(s, S))
<1> DEFINE Stays(u) == \A l \in L : Unlike(u, l) => Unlike(Picked(u, S), l)
           Good(u) == Once(u) => Once(Picked(u, S))
           T == {u \in Seq(L) : Stays(u) /\ Good(u)}
<1>1. <<>> \in T
  <2>1. <<>> \in Seq(L)
    OBVIOUS
  <2> QED
    BY <2>1, PickedEmpty
<1>2. ASSUME NEW u \in Seq(L), NEW e \in L, u \in T PROVE Append(u, e) \in T
  <2>1. Append(u, e) \in Seq(L) /\ Picked(u, S) \in Seq(L)
    <3> HIDE DEF T
    <3>1. Picked(u, S) \in Seq(L)
      BY PickedType
    <3> QED
      BY <3>1
  <2>2. Stays(u) /\ Good(u)
    BY <1>2
  <2>3. Picked(Append(u, e), S) = IF e \in S THEN Append(Picked(u, S), e) ELSE Picked(u, S)
    BY PickedAppend
  <2> HIDE DEF T
  <2>4. ASSUME NEW r \in Seq(L), NEW l \in L
        PROVE  Unlike(Append(r, e), l) <=> Unlike(r, l) /\ (l.key = None \/ e.key # l.key)
    <3>1. /\ Len(r) \in Nat /\ DOMAIN r = 1..Len(r) /\ DOMAIN Append(r, e) = 1..(Len(r) + 1)
          /\ Append(r, e)[Len(r) + 1] = e /\ \A i \in 1..Len(r) : Append(r, e)[i] = r[i]
      OBVIOUS
    <3>2. \A i \in 1..(Len(r) + 1) : i \in 1..Len(r) \/ i = Len(r) + 1
      BY <3>1
    <3>3. Len(r) + 1 \in 1..(Len(r) + 1) /\ \A i \in 1..Len(r) : i \in 1..(Len(r) + 1)
      BY <3>1
    <3> DEFINE a == Append(r, e)
               n == Len(r)
    <3> HIDE DEF a, n
    <3> QED
      BY <3>1, <3>2, <3>3 DEF Unlike, a, n
  <2>5. Stays(Append(u, e))
    BY <2>1, <2>2, <2>3, <2>4
  <2>6. Good(Append(u, e))
    BY <2>1, <2>2, <2>3, OnceAppend
  <2> HIDE DEF Stays, Good
  <2> QED
    BY <2>1, <2>5, <2>6 DEF T
<1>3. s \in T
  <2> HIDE DEF T
  <2> QED
    BY <1>1, <1>2, SequenceInduction
<1> QED
  BY <1>3

\* What a section adds to the disks it finds is not among them.
LEMMA NewDisksOnce ==
  ASSUME NEW L, NEW lead \in Seq(L), NEW lines \in Seq(L), Once(lines)
  PROVE  /\ NewDisks(lead, lines) \in Seq(L) /\ Once(NewDisks(lead, lines))
         /\ \A i \in DOMAIN NewDisks(lead, lines) : Unlike(lead, NewDisks(lead, lines)[i])
<1> DEFINE S == {l \in L : Unlike(lead, l)}
           I == {i \in DOMAIN lines :
                   lines[i].key = None \/ \A j \in DOMAIN lead : lead[j].key # lines[i].key}
           J == {i \in DOMAIN lines : lines[i] \in S}
<1>1. I = J
  <2>1. \A i \in DOMAIN lines : lines[i] \in L
    OBVIOUS
  <2> QED
    BY <2>1 DEF Unlike
<1>2. NewDisks(lead, lines) = Picked(lines, S)
  <2>1. NewDisks(lead, lines) = Chosen(lines, I)
    BY DEF NewDisks, Filtered
  <2> HIDE DEF S, I
  <2> QED
    BY <1>1, <2>1 DEF Picked
<1>3. Picked(lines, S) \in Seq(L \cap S) /\ Picked(lines, S) \in Seq(L) /\ Once(Picked(lines, S))
  <2> HIDE DEF S
  <2> QED
    BY PickedType, OncePicked
<1>4. \A i \in DOMAIN Picked(lines, S) : Picked(lines, S)[i] \in L \cap S
  <2> HIDE DEF S
  <2> QED
    BY <1>3
<1> QED
  BY <1>2, <1>3, <1>4

\* Two lists declare nothing twice together when neither does and they have
\* no key in common.
LEMMA OnceConcat ==
  ASSUME NEW L, NEW a \in Seq(L), NEW b \in Seq(L)
  PROVE  Once(a \o b) <=> Once(a) /\ Once(b) /\ \A j \in DOMAIN b : Unlike(a, b[j])
<1> DEFINE n == Len(a)
           m == Len(b)
           c == a \o b
<1>1. /\ n \in Nat /\ m \in Nat /\ DOMAIN a = 1..n /\ DOMAIN b = 1..m
      /\ DOMAIN c = 1..(n + m)
      /\ \A i \in 1..(n + m) : c[i] = IF i <= n THEN a[i] ELSE b[i - n]
  <2>1. Len(c) = n + m /\ c \in Seq(L)
    BY ConcatProperties
  <2>2. \A i \in 1..(n + m) : c[i] = IF i <= n THEN a[i] ELSE b[i - n]
    BY ConcatProperties
  <2> HIDE DEF c
  <2> QED
    BY <2>1, <2>2
<1> HIDE DEF n, m, c
<1>2. \A i \in 1..n : i \in 1..(n + m) /\ c[i] = a[i]
  BY <1>1
<1>3. \A j \in 1..m : n + j \in 1..(n + m) /\ c[n + j] = b[j]
  <2> SUFFICES ASSUME NEW j \in 1..m PROVE n + j \in 1..(n + m) /\ c[n + j] = b[j]
    OBVIOUS
  <2>1. n + j \in 1..(n + m) /\ ~(n + j <= n) /\ (n + j) - n = j
    BY <1>1
  <2> QED
    BY <1>1, <2>1
<1>4. \A i \in 1..(n + m) : i \in 1..n \/ \E j \in 1..m : i = n + j
  <2> SUFFICES ASSUME NEW i \in 1..(n + m), i \notin 1..n PROVE \E j \in 1..m : i = n + j
    OBVIOUS
  <2>1. i - n \in 1..m /\ i = n + (i - n)
    BY <1>1
  <2> QED
    BY <2>1
<1>5. /\ \A i \in 1..n, j \in 1..m : i # n + j
      /\ \A j, k \in 1..m : n + j = n + k => j = k
  BY <1>1
<1>6. ASSUME Once(c) PROVE Once(a) /\ Once(b) /\ \A j \in DOMAIN b : Unlike(a, b[j])
  <2>1. Once(a)
    BY <1>1, <1>2, <1>6 DEF Once
  <2>2. Once(b)
    <3> SUFFICES ASSUME NEW j \in 1..m, NEW k \in 1..m, b[j].key = b[k].key, b[j].key # None
                 PROVE  j = k
      BY <1>1 DEF Once
    <3>1. n + j \in DOMAIN c /\ n + k \in DOMAIN c /\ c[n + j] = b[j] /\ c[n + k] = b[k]
      BY <1>1, <1>3
    <3>2. n + j = n + k
      BY <1>6, <3>1 DEF Once
    <3> QED
      BY <1>5, <3>2
  <2>3. ASSUME NEW j \in 1..m, b[j].key # None, NEW i \in 1..n, a[i].key = b[j].key PROVE FALSE
    BY <1>1, <1>2, <1>3, <1>5, <1>6, <2>3 DEF Once
  <2> QED
    BY <1>1, <2>1, <2>2, <2>3 DEF Unlike
<1>7. ASSUME Once(a), Once(b), \A j \in DOMAIN b : Unlike(a, b[j]) PROVE Once(c)
  <2> SUFFICES ASSUME NEW x \in 1..(n + m), NEW y \in 1..(n + m),
                      c[x].key = c[y].key, c[x].key # None
               PROVE  x = y
    BY <1>1 DEF Once
  <2>1. CASE x \in 1..n /\ y \in 1..n
    BY <1>1, <1>2, <1>7, <2>1 DEF Once
  <2>2. CASE x \in 1..n /\ \E j \in 1..m : y = n + j
    <3>1. PICK j \in 1..m : y = n + j
      BY <2>2
    <3>2. c[y] = b[j] /\ c[x] = a[x] /\ Unlike(a, b[j])
      BY <1>1, <1>2, <1>3, <1>7, <2>2, <3>1
    <3> QED
      BY <1>1, <2>2, <3>2 DEF Unlike
  <2>3. CASE (\E j \in 1..m : x = n + j) /\ y \in 1..n
    <3>1. PICK j \in 1..m : x = n + j
      BY <2>3
    <3>2. c[x] = b[j] /\ c[y] = a[y] /\ Unlike(a, b[j])
      BY <1>1, <1>2, <1>3, <1>7, <2>3, <3>1
    <3> QED
      BY <1>1, <2>3, <3>2 DEF Unlike
  <2>4. CASE (\E j \in 1..m : x = n + j) /\ (\E j \in 1..m : y = n + j)
    <3>1. PICK j \in 1..m, k \in 1..m : x = n + j /\ y = n + k
      BY <2>4
    <3>2. c[x] = b[j] /\ c[y] = b[k]
      BY <1>3, <3>1
    <3>3. j = k
      BY <1>1, <1>7, <3>2 DEF Once
    <3> QED
      BY <3>1, <3>3
  <2> QED
    BY <1>4, <2>1, <2>2, <2>3, <2>4
<1> QED
  BY <1>6, <1>7 DEF c

\* A merge with a file that has one [Disks] declares no disk twice.
LEMMA MergedOnce ==
  ASSUME NEW K, NEW I, NEW L,
         NEW base \in Seq(Sections(K, I, L)), NEW oem \in Seq(Sections(K, I, L)),
         Len(OfKind(base, "Disks")) = 1, DisksOnce(base), DisksOnce(oem)
  PROVE  DisksOnce(Combine(base, oem))
<1> DEFINE V == Sections(K, I, L)
           Good(u) == Once(Lines(u, "Disks")) => Once(Lead(Combine(base, u), "Disks"))
           T == {u \in Seq(V) : Good(u)}
<1>1. Closed(V)
  BY JoinedFacts DEF Closed
<1> HIDE DEF V
<1>2. base \in Seq(V) /\ oem \in Seq(V)
  BY DEF V
<1>3. /\ \A u \in Seq(V), x \in V : Combine(base, Append(u, x)) = Joined(Combine(base, u), x)
      /\ \A u \in Seq(V) : Combine(base, u) \in Seq(V) /\ (u = <<>> => Combine(base, u) = base)
  BY <1>1, <1>2, CombineAppend, CombineType
<1>4. \A u \in Seq(V) : /\ Lead(u, "Disks") \in Seq(L) /\ Lines(u, "Disks") \in Seq(L)
                        /\ Follow(u, "Disks") \in Seq(L)
  BY LeadFollow, KindLinesType DEF V
<1>5. Follow(base, "Disks") = <<>>
  <2> DEFINE F == OfKind(base, "Disks")
  <2>1. F \in Seq(V) /\ Len(F) = 1
    BY KindLinesType DEF V
  <2> HIDE DEF F
  <2>2. Tail(F) = <<>>
    <3>1. F # <<>> /\ Len(F) - 1 = 0
      <4>1. Len(F) # 0 /\ Len(F) - 1 = 0
        BY <2>1
      <4> QED
        BY <4>1, EmptySeq, Zenon
    <3>2. Tail(F) \in Seq(V) /\ Len(Tail(F)) = 0
      BY <2>1, <3>1, HeadTailProperties
    <3> QED
      BY <3>2, EmptySeq
  <2> QED
    BY <2>2, LinesOfEmpty DEF Follow, F
<1>6. \A u \in Seq(V) : Lines(u, "Disks") = Lead(u, "Disks") \o Follow(u, "Disks")
  BY LeadFollow DEF V
<1>7. \A p \in Seq(V) : Follow(p, "Disks") = <<>> => Lines(p, "Disks") = Lead(p, "Disks")
  <2> SUFFICES ASSUME NEW p \in Seq(V), Follow(p, "Disks") = <<>>
               PROVE  Lines(p, "Disks") = Lead(p, "Disks")
    OBVIOUS
  <2> DEFINE a == Lead(p, "Disks")
  <2>1. Lines(p, "Disks") = a \o <<>> /\ a \in Seq(L)
    BY <1>4, <1>6
  <2> HIDE DEF a
  <2>2. a \o <<>> = a
    BY <2>1
  <2> QED
    BY <2>1, <2>2 DEF a
<1>8. <<>> \in T
  <2>1. <<>> \in Seq(V)
    OBVIOUS
  <2>2. Combine(base, <<>>) = base
    BY <1>3, <2>1
  <2>3. Once(Lead(base, "Disks"))
    BY <1>2, <1>5, <1>7 DEF DisksOnce, Once, Lines
  <2> QED
    BY <2>1, <2>2, <2>3
<1>9. ASSUME NEW u \in Seq(V), NEW x \in V, u \in T PROVE Append(u, x) \in T
  <2> DEFINE c == Combine(base, u)
             d == Combine(base, Append(u, x))
             a == Lead(c, "Disks")
  <2>1. Good(u)
    BY <1>9
  <2> HIDE DEF T
  <2>2. c \in Seq(V) /\ d = Joined(c, x) /\ Append(u, x) \in Seq(V)
    <3>1. Append(u, x) \in Seq(V)
      OBVIOUS
    <3> QED
      BY <1>3, <3>1
  <2> HIDE DEF c, d
  <2>3. x \in Sections(K, I, L) /\ u \in Seq(Sections(K, I, L)) /\ c \in Seq(Sections(K, I, L))
    BY <2>2 DEF V
  <2>4. Joins(c, x, d)
    BY <2>2, <2>3, JoinedFacts
  <2>5. Lines(Append(u, x), "Disks") =
          IF x.kind = "Disks" THEN Lines(u, "Disks") \o x.lines ELSE Lines(u, "Disks")
    BY <2>3, LinesAppend
  <2>6. CASE x.kind = "Disks"
    <3>1. Lead(d, "Disks") = Longer(a, x)
      BY <2>4, <2>6 DEF Joins
    <3>2. a \in Seq(L) /\ x.lines \in Seq(L) /\ Lines(u, "Disks") \in Seq(L)
      BY <1>4, <2>2, <2>3 DEF Sections
    <3> HIDE DEF a
    <3>3. SUFFICES ASSUME Once(Lines(Append(u, x), "Disks")) PROVE Once(Lead(d, "Disks"))
      BY <2>2 DEF T, d
    <3>4. Once(Lines(u, "Disks")) /\ Once(x.lines)
      <4> DEFINE b == Lines(u, "Disks")
                 e == x.lines
      <4>1. Once(b \o e) /\ b \in Seq(L) /\ e \in Seq(L)
        BY <2>5, <2>6, <3>2, <3>3
      <4> HIDE DEF b, e
      <4>2. Once(b) /\ Once(e)
        BY <4>1, OnceConcat
      <4> QED
        BY <4>2 DEF b, e
    <3>5. Once(a)
      BY <2>1, <3>4 DEF a, c
    <3> DEFINE new == NewDisks(a, x.lines)
    <3>6. new \in Seq(L) /\ Once(new) /\ \A i \in DOMAIN new : Unlike(a, new[i])
      BY <3>2, <3>4, NewDisksOnce
    <3>7. Longer(a, x) = a \o new
      BY <2>6 DEF Longer, Addition
    <3> HIDE DEF new
    <3>8. Once(a \o new)
      BY <3>2, <3>5, <3>6, OnceConcat
    <3> QED
      BY <3>1, <3>7, <3>8
  <2>7. CASE x.kind # "Disks"
    <3>1. OfKind(d, "Disks") = OfKind(c, "Disks") /\ Lines(Append(u, x), "Disks") = Lines(u, "Disks")
      BY <2>4, <2>5, <2>7 DEF Joins
    <3>2. Lead(d, "Disks") = Lead(c, "Disks")
      BY <3>1 DEF Lead
    <3>3. Good(Append(u, x))
      BY <2>1, <3>1, <3>2 DEF c, d
    <3> HIDE DEF Good
    <3> QED
      BY <2>2, <3>3 DEF T
  <2> QED
    BY <2>6, <2>7
<1>10. oem \in T
  <2> HIDE DEF T
  <2> QED
    BY <1>2, <1>8, <1>9, SequenceInduction
<1>11. Once(Lead(Combine(base, oem), "Disks"))
  <2>1. Once(Lines(oem, "Disks"))
    BY DEF DisksOnce, Once, Lines
  <2> QED
    BY <1>10, <2>1
<1>12. Lines(Combine(base, oem), "Disks") = Lead(Combine(base, oem), "Disks")
  <2>1. Combine(base, oem) \in Seq(V)
    BY <1>2, <1>3
  <2>2. Follow(Combine(base, oem), "Disks") = Follow(base, "Disks")
    BY CombineFacts DEF KeepsBoth
  <2> QED
    BY <1>5, <1>7, <2>1, <2>2
<1> QED
  BY <1>11, <1>12 DEF DisksOnce, Once, Lines

-----------------------------------------------------------------------------
(***************************************************************************)
(* Packs are sequences of sections.                                        *)
(***************************************************************************)

\* A pack is a sequence of sections of the sets its parts are in.
LEMMA PackSections ==
  ASSUME NEW p, NEW K, NEW I, NEW L, IsPack(p),
         \A i \in DOMAIN p : p[i].kind \in K /\ p[i].id \in I /\ ToSet(p[i].lines) \subseteq L
  PROVE  p \in Seq(Sections(K, I, L))
<1> DEFINE V == Sections(K, I, L)
<1>1. p \in Seq(ToSet(p)) /\ \A i \in DOMAIN p : p[i] \in ToSet(p)
  BY DEF IsPack, IsSequence, ToSet
<1>2. Len(p) \in Nat /\ DOMAIN p = 1..Len(p)
  BY <1>1
<1>3. ASSUME NEW i \in DOMAIN p PROVE p[i] \in V
  <2> DEFINE s == p[i]
  <2>1. /\ s \in [kind : {s.kind}, id : {s.id}, exact : BOOLEAN, lines : {s.lines}]
        /\ s.lines \in Seq(ToSet(s.lines))
    BY DEF IsPack, IsSequence
  <2>2. s.kind \in K /\ s.id \in I /\ ToSet(s.lines) \subseteq L
    OBVIOUS
  <2> HIDE DEF s
  <2>3. s.lines \in Seq(L)
    BY <2>1, <2>2
  <2>4. s \in [kind : K, id : I, exact : BOOLEAN, lines : Seq(L)]
    BY <2>1, <2>2, <2>3
  <2> QED
    BY <2>4 DEF Sections, s
<1> HIDE DEF V
<1>4. p \in [1..Len(p) -> V]
  <2>1. p = [i \in 1..Len(p) |-> p[i]]
    BY <1>1, <1>2
  <2> QED
    BY <1>2, <1>3, <2>1
<1> QED
  BY <1>2, <1>4 DEF V

\* Two packs are sequences of sections of the same sets.
LEMMA TwoPacks ==
  ASSUME NEW p, NEW q, IsPack(p), IsPack(q)
  PROVE  \E K, I, L : p \in Seq(Sections(K, I, L)) /\ q \in Seq(Sections(K, I, L))
<1> DEFINE K == {p[i].kind : i \in DOMAIN p} \cup {q[i].kind : i \in DOMAIN q}
           I == {p[i].id : i \in DOMAIN p} \cup {q[i].id : i \in DOMAIN q}
           P == {ToSet(p[i].lines) : i \in DOMAIN p}
           Q == {ToSet(q[i].lines) : i \in DOMAIN q}
           L == UNION (P \cup Q)
<1>1. /\ \A i \in DOMAIN p : p[i].kind \in K /\ p[i].id \in I /\ ToSet(p[i].lines) \subseteq L
      /\ \A i \in DOMAIN q : q[i].kind \in K /\ q[i].id \in I /\ ToSet(q[i].lines) \subseteq L
  <2>1. /\ \A i \in DOMAIN p : p[i].kind \in K /\ p[i].id \in I
        /\ \A i \in DOMAIN q : q[i].kind \in K /\ q[i].id \in I
    OBVIOUS
  <2>2. /\ \A i \in DOMAIN p : ToSet(p[i].lines) \subseteq L
        /\ \A i \in DOMAIN q : ToSet(q[i].lines) \subseteq L
    <3>1. /\ \A i \in DOMAIN p : ToSet(p[i].lines) \in P
          /\ \A i \in DOMAIN q : ToSet(q[i].lines) \in Q
      OBVIOUS
    <3> HIDE DEF P, Q
    <3>2. \A X \in P \cup Q : X \subseteq L
      OBVIOUS
    <3> HIDE DEF L
    <3> QED
      BY <3>1, <3>2
  <2> HIDE DEF K, I, L
  <2> QED
    BY <2>1, <2>2
<1> HIDE DEF K, I, L
<1>2. p \in Seq(Sections(K, I, L)) /\ q \in Seq(Sections(K, I, L))
  BY <1>1, PackSections
<1> QED
  BY <1>2

LEMMA GivenPack ==
  ASSUME GivenSound
  PROVE  IsPack(given.pack)
BY GivenAssumption DEF GivenSound

\* One floppy and one default.
LEMMA FloppyOnce ==
  ASSUME GivenSound
  PROVE  OneFloppy
<1> DEFINE base == FloppyOem
           oem == given.pack
<1>1. /\ IsPack(base) /\ IsPack(oem)
      /\ Len(OfKind(base, "Disks")) = 1 /\ DisksOnce(base)
  BY FloppyAssumption, GivenPack
<1> HIDE DEF base, oem
<1>2. PICK K, I, L : base \in Seq(Sections(K, I, L)) /\ oem \in Seq(Sections(K, I, L))
  BY <1>1, TwoPacks
<1>3. DisksOnce(oem) => DisksOnce(Combine(base, oem))
  BY <1>1, <1>2, MergedOnce
<1>4. OfKind(Combine(base, oem), "Defaults") = OfKind(base, "Defaults")
  BY <1>2, CombineFacts DEF KeepsBoth
<1> QED
  BY <1>3, <1>4 DEF OneFloppy, base, oem

-----------------------------------------------------------------------------
(***************************************************************************)
(* What a file says, and what is left of it without some controllers.      *)
(***************************************************************************)

\* The lines that declare a controller.
Decl(L) == {l \in L : l.key # None /\ l.value # None}

\* The sections with an id, and those with none of the ids D.
OfId(V, id) == {x \in V : x.id = id}

NotOf(V, D) == {x \in V : x.id \notin D}

\* The declarations are a filter of the lines under [SCSI].
LEMMA DeclaredPicked ==
  ASSUME NEW K, NEW I, NEW L, NEW p \in Seq(Sections(K, I, L))
  PROVE  Declared(p) = Picked(Lines(p, "SCSI"), Decl(L))
<1> DEFINE A == {l \in L : l.key # None}
           B == {l \in L : l.value # None}
           s == Lines(p, "SCSI")
           t == Keyed(s)
<1>1. s \in Seq(L)
  BY KindLinesType
<1> HIDE DEF s
<1>2. t = Picked(s, A)
  <2>1. {i \in DOMAIN s : s[i].key # None} = {i \in DOMAIN s : s[i] \in A}
    BY <1>1
  <2> QED
    BY <2>1 DEF Keyed, Filtered, Picked
<1>3. t \in Seq(L)
  <2> HIDE DEF A, t
  <2> QED
    BY <1>1, <1>2, PickedType
<1> HIDE DEF t
<1>4. Declared(p) = Picked(t, B)
  <2>1. {i \in DOMAIN t : t[i].value # None} = {i \in DOMAIN t : t[i] \in B}
    BY <1>3
  <2>2. Declared(p) = Chosen(t, {i \in DOMAIN t : t[i].value # None})
    BY DEF Declared, Filtered, t, s, Lines
  <2> QED
    BY <2>1, <2>2 DEF Picked
<1>5. A \cap B = Decl(L)
  BY DEF Decl
<1> HIDE DEF A, B
<1>6. Picked(Picked(s, A), B) = Picked(s, A \cap B)
  BY <1>1, PickedTwice
<1> QED
  BY <1>2, <1>4, <1>5, <1>6 DEF s

\* The files of a controller are a filter of the [Files] sections.
LEMMA FilesOfPicked ==
  ASSUME NEW V, NEW p \in Seq(V), NEW id
  PROVE  FilesOf(p, id) = Picked(OfKind(p, "Files"), OfId(V, id))
<1> DEFINE A == {x \in V : x.kind = "Files"}
           B == OfId(V, id)
<1>1. FilesOf(p, id) = Picked(p, A \cap B)
  <2>1. {i \in DOMAIN p : p[i].kind = "Files" /\ p[i].id = id} =
        {i \in DOMAIN p : p[i] \in A \cap B}
    BY DEF OfId
  <2> QED
    BY <2>1 DEF FilesOf, Filtered, Picked
<1>2. OfKind(p, "Files") = Picked(p, A)
  BY OfKindPicked
<1> HIDE DEF A, B
<1>3. Picked(Picked(p, A), B) = Picked(p, A \cap B)
  BY PickedTwice
<1> QED
  BY <1>1, <1>2, <1>3 DEF B

\* What the slipstream reads depends on three things only.
LEMMA ReadingOf ==
  ASSUME NEW V, NEW p \in Seq(V), NEW q \in Seq(V), Declared(p) = Declared(q),
         OfKind(p, "Files") = OfKind(q, "Files"),
         OfKind(p, "HardwareIds") = OfKind(q, "HardwareIds")
  PROVE  Reading(p) = Reading(q)
<1>1. \A id : FilesOf(p, id) = FilesOf(q, id)
  BY FilesOfPicked
<1>2. ASSUME NEW id, NEW key PROVE FileUnder(p, id, key) = FileUnder(q, id, key)
  <2>1. FilesOf(p, id) = FilesOf(q, id)
    BY <1>1
  <2> QED
    BY <2>1, Zenon DEF FileUnder
<1>3. Controllers(p) = Controllers(q) /\ \A id : DisplayOf(p, id) = DisplayOf(q, id)
  BY Zenon DEF Controllers, DisplayOf
<1>4. ScsiControllers(p) = ScsiControllers(q)
  BY <1>2, <1>3, Zenon DEF ScsiControllers
<1>5. ReferencedFilenames(p) = ReferencedFilenames(q)
  BY Zenon DEF ReferencedFilenames
<1>6. HardwareIds(p) = HardwareIds(q)
  <2>1. IdLines(p) = IdLines(q)
    BY Zenon DEF IdLines
  <2> QED
    BY <2>1, Zenon DEF HardwareIds
<1> QED
  BY <1>4, <1>5, <1>6 DEF Reading

\* A section without the lines of some controllers.
Bare(x, D) == [x EXCEPT !.lines = Filtered(@, LAMBDA l : l.key \notin D)]

\* What becomes of a section when the controllers D are stripped.
Stripped(x, D) == IF x.kind # "SCSI" THEN x ELSE Bare(x, D)

\* The lines of other controllers than D.
Others(L, D) == {l \in L : l.key \notin D}

LEMMA StrippedFacts ==
  ASSUME NEW K, NEW I, NEW L, NEW x \in Sections(K, I, L), NEW D
  PROVE  /\ Stripped(x, D) \in Sections(K, I, L) /\ Stripped(x, D).kind = x.kind
         /\ x.kind # "SCSI" => Stripped(x, D) = x
         /\ x.kind = "SCSI" => Stripped(x, D).lines = Picked(x.lines, Others(L, D))
<1>1. x.lines \in Seq(L)
  BY DEF Sections
<1> DEFINE ls == Filtered(x.lines, LAMBDA l : l.key \notin D)
<1>2. ls = Picked(x.lines, Others(L, D))
  <2>1. {i \in DOMAIN x.lines : x.lines[i].key \notin D} =
        {i \in DOMAIN x.lines : x.lines[i] \in Others(L, D)}
    BY <1>1 DEF Others
  <2> QED
    BY <2>1 DEF Filtered, Picked
<1>3. Bare(x, D) = [x EXCEPT !.lines = ls]
  BY DEF Bare
<1> HIDE DEF ls
<1>4. ls \in Seq(L)
  BY <1>1, <1>2, PickedType
<1>5. /\ Bare(x, D) \in Sections(K, I, L) /\ Bare(x, D).kind = x.kind
      /\ Bare(x, D).lines = ls
  BY <1>3, <1>4 DEF Sections
<1> QED
  BY <1>2, <1>5 DEF Stripped

\* Every section of a file, stripped.
AllStripped(u, D) == [i \in DOMAIN u |-> Stripped(u[i], D)]

LEMMA AllStrippedFacts ==
  ASSUME NEW K, NEW I, NEW L, NEW p \in Seq(Sections(K, I, L)), NEW D
  PROVE  /\ AllStripped(p, D) \in Seq(Sections(K, I, L))
         /\ \A kind : kind # "SCSI" => OfKind(AllStripped(p, D), kind) = OfKind(p, kind)
         /\ Lines(AllStripped(p, D), "SCSI") = Picked(Lines(p, "SCSI"), Others(L, D))
<1> DEFINE V == Sections(K, I, L)
           Rest(u) == \A kind : kind # "SCSI" => OfKind(AllStripped(u, D), kind) = OfKind(u, kind)
           Own(u) == Lines(AllStripped(u, D), "SCSI") = Picked(Lines(u, "SCSI"), Others(L, D))
           T == {u \in Seq(V) : Rest(u) /\ Own(u)}
<1>1. \A x \in V : Stripped(x, D) \in V /\ Stripped(x, D).kind = x.kind
  BY StrippedFacts
<1>2. \A x \in V : /\ x.kind # "SCSI" => Stripped(x, D) = x
                   /\ x.kind = "SCSI" => Stripped(x, D).lines = Picked(x.lines, Others(L, D))
  BY StrippedFacts
<1> HIDE DEF V
<1>3. \A u \in Seq(V) : AllStripped(u, D) \in Seq(V)
  <2> SUFFICES ASSUME NEW u \in Seq(V) PROVE AllStripped(u, D) \in Seq(V)
    OBVIOUS
  <2>1. Len(u) \in Nat /\ DOMAIN u = 1..Len(u) /\ \A i \in 1..Len(u) : u[i] \in V
    OBVIOUS
  <2>2. AllStripped(u, D) \in [1..Len(u) -> V]
    BY <1>1, <2>1 DEF AllStripped
  <2> QED
    BY <2>1, <2>2
<1>4. ASSUME NEW u \in Seq(V), NEW x \in V
      PROVE  AllStripped(Append(u, x), D) = Append(AllStripped(u, D), Stripped(x, D))
  <2> DEFINE t == Append(u, x)
             m == AllStripped(u, D)
             n == Len(u)
             y == Stripped(x, D)
             a == Append(m, y)
  <2>1. /\ n \in Nat /\ DOMAIN u = 1..n /\ DOMAIN t = 1..(n + 1) /\ t[n + 1] = x
        /\ \A i \in 1..n : t[i] = u[i]
    OBVIOUS
  <2>2. m \in Seq(V) /\ y \in V /\ Len(m) = n /\ \A i \in 1..n : m[i] = Stripped(u[i], D)
    <3>1. m \in Seq(V) /\ y \in V
      BY <1>1, <1>3
    <3>2. DOMAIN m = 1..n /\ \A i \in 1..n : m[i] = Stripped(u[i], D)
      BY <2>1 DEF AllStripped
    <3> HIDE DEF m, y, n
    <3> QED
      BY <2>1, <3>1, <3>2
  <2> HIDE DEF m, y, n, t
  <2>3. /\ a \in Seq(V) /\ Len(a) = n + 1 /\ a[n + 1] = y
        /\ \A i \in 1..n : a[i] = m[i]
    BY <2>2
  <2> HIDE DEF a
  <2>4. \A i \in 1..(n + 1) : a[i] = Stripped(t[i], D)
    <3> SUFFICES ASSUME NEW i \in 1..(n + 1) PROVE a[i] = Stripped(t[i], D)
      OBVIOUS
    <3>1. i \in 1..n \/ i = n + 1
      BY <2>1
    <3> QED
      BY <2>1, <2>2, <2>3, <3>1 DEF y
  <2>5. a = [i \in 1..(n + 1) |-> a[i]]
    BY <2>3
  <2>6. a = [i \in DOMAIN t |-> Stripped(t[i], D)]
    BY <2>1, <2>4, <2>5
  <2> QED
    BY <2>6 DEF AllStripped, a, t, m, y
<1>5. <<>> \in T
  <2>1. AllStripped(<<>>, D) = <<>> /\ <<>> \in Seq(V)
    BY DEF AllStripped
  <2>2. Lines(<<>>, "SCSI") = <<>>
    <3>1. OfKind(<<>>, "SCSI") = <<>>
      <4>1. \A i \in DOMAIN <<>> : <<>>[i].kind # "SCSI"
        OBVIOUS
      <4> QED
        BY <2>1, <4>1, OfKindNone
    <3> QED
      BY <3>1, LinesOfEmpty DEF Lines
  <2>3. Rest(<<>>) /\ Own(<<>>)
    BY <2>1, <2>2, PickedEmpty
  <2> HIDE DEF Rest, Own
  <2> QED
    BY <2>1, <2>3
<1>6. ASSUME NEW u \in Seq(V), NEW x \in V, u \in T PROVE Append(u, x) \in T
  <2> DEFINE m == AllStripped(u, D)
             y == Stripped(x, D)
             t == Append(u, x)
             b == AllStripped(t, D)
  <2>1. Rest(u) /\ Own(u)
    BY <1>6
  <2> HIDE DEF T
  <2>2. m \in Seq(V) /\ y \in V /\ y.kind = x.kind /\ b = Append(m, y)
    BY <1>1, <1>3, <1>4
  <2>3. t \in Seq(V)
    OBVIOUS
  <2> HIDE DEF m, y, t, b
  <2>4. \A v \in Seq(V), z \in V : \A kind :
          OfKind(Append(v, z), kind) =
            IF z.kind = kind THEN Append(OfKind(v, kind), z) ELSE OfKind(v, kind)
    BY OfKindAppend
  <2>5. Rest(t)
    <3> SUFFICES ASSUME NEW kind, kind # "SCSI" PROVE OfKind(b, kind) = OfKind(t, kind)
      BY DEF b
    <3>1. OfKind(m, kind) = OfKind(u, kind)
      BY <2>1 DEF m
    <3>2. OfKind(b, kind) = IF x.kind = kind THEN Append(OfKind(m, kind), y) ELSE OfKind(m, kind)
      BY <2>2, <2>4
    <3>3. OfKind(t, kind) = IF x.kind = kind THEN Append(OfKind(u, kind), x) ELSE OfKind(u, kind)
      BY <2>4 DEF t
    <3>4. x.kind = kind => y = x
      BY <1>2 DEF y
    <3> QED
      BY <3>1, <3>2, <3>3, <3>4
  <2>6. Own(t)
    <3> DEFINE s == Lines(u, "SCSI")
               e == x.lines
               S == Others(L, D)
    <3>1. s \in Seq(L) /\ e \in Seq(L)
      <4>1. x \in Sections(K, I, L) /\ u \in Seq(Sections(K, I, L))
        BY DEF V
      <4> QED
        BY <4>1, KindLinesType DEF Sections
    <3>2. Lines(m, "SCSI") = Picked(s, S)
      BY <2>1 DEF m
    <3>3. ASSUME NEW v \in Seq(V), NEW z \in V
          PROVE  Lines(Append(v, z), "SCSI") =
                   IF z.kind = "SCSI" THEN Lines(v, "SCSI") \o z.lines ELSE Lines(v, "SCSI")
      <4>1. z \in Sections(K, I, L) /\ v \in Seq(Sections(K, I, L))
        BY DEF V
      <4> QED
        BY <4>1, LinesAppend
    <3>4. CASE x.kind = "SCSI"
      <4>1. y.lines = Picked(e, S)
        BY <1>2, <3>4 DEF y
      <4>2. Lines(b, "SCSI") = Lines(m, "SCSI") \o y.lines /\ Lines(t, "SCSI") = s \o e
        BY <2>2, <3>3, <3>4 DEF t
      <4> HIDE DEF s, e, S
      <4>3. Picked(s \o e, S) = Picked(s, S) \o Picked(e, S)
        BY <3>1, PickedConcat
      <4>4. Lines(b, "SCSI") = Picked(Lines(t, "SCSI"), S)
        BY <3>2, <4>1, <4>2, <4>3
      <4> QED
        BY <4>4 DEF b, S
    <3>5. CASE x.kind # "SCSI"
      <4>1. Lines(b, "SCSI") = Lines(m, "SCSI") /\ Lines(t, "SCSI") = s
        BY <2>2, <3>3, <3>5 DEF t
      <4> QED
        BY <3>2, <4>1 DEF b
    <3> QED
      BY <3>4, <3>5
  <2> HIDE DEF Rest, Own
  <2> QED
    BY <2>3, <2>5, <2>6 DEF T, t
<1>7. p \in T
  <2>1. p \in Seq(V)
    BY DEF V
  <2> HIDE DEF T
  <2> QED
    BY <1>5, <1>6, <2>1, SequenceInduction
<1>8. AllStripped(p, D) \in Seq(V)
  BY <1>3 DEF V
<1> QED
  BY <1>7, <1>8 DEF V

\* What is left of the declarations and of the sections with an id.
Leaves(p, D, r, V, L) ==
  /\ Declared(r) = Picked(Lines(p, "SCSI"), Others(L, D) \cap Decl(L))
  /\ \A kind \in {"Files", "HardwareIds"} :
       OfKind(r, kind) = Picked(OfKind(p, kind), NotOf(V, D))

\* Stripping is two filters: one of the lines, one of the sections.
LEMMA StripFacts ==
  ASSUME NEW K, NEW I, NEW L, NEW p \in Seq(Sections(K, I, L)), NEW D
  PROVE  /\ StripControllers(p, D) \in Seq(Sections(K, I, L))
         /\ Leaves(p, D, StripControllers(p, D), Sections(K, I, L), L)
<1> DEFINE V == Sections(K, I, L)
           S == {x \in V : x.kind \in {"Files", "HardwareIds"} => x.id \notin D}
           left == Picked(p, S)
           r == StripControllers(p, D)
<1>1. r = AllStripped(left, D)
  <2>1. {i \in DOMAIN p : p[i].kind \in {"Files", "HardwareIds"} => p[i].id \notin D} =
        {i \in DOMAIN p : p[i] \in S}
    OBVIOUS
  <2>2. Filtered(p, LAMBDA s : s.kind \in {"Files", "HardwareIds"} => s.id \notin D) = left
    BY <2>1 DEF Filtered, Picked
  <2> HIDE DEF left, S, V
  <2> QED
    BY <2>2, Zenon DEF StripControllers, AllStripped, Stripped, Bare
<1>2. left \in Seq(V)
  <2> HIDE DEF S
  <2> QED
    BY PickedType
<1> HIDE DEF r, left
<1>3. /\ r \in Seq(V)
      /\ \A kind : kind # "SCSI" => OfKind(r, kind) = OfKind(left, kind)
      /\ Lines(r, "SCSI") = Picked(Lines(left, "SCSI"), Others(L, D))
  BY <1>1, <1>2, AllStrippedFacts
<1>4. ASSUME NEW kind
      PROVE  /\ OfKind(left, kind) = Picked(p, S \cap {x \in V : x.kind = kind})
             /\ OfKind(p, kind) = Picked(p, {x \in V : x.kind = kind})
  <2> DEFINE A == {x \in V : x.kind = kind}
  <2>1. OfKind(left, kind) = Picked(left, A) /\ OfKind(p, kind) = Picked(p, A)
    BY <1>2, OfKindPicked
  <2> HIDE DEF A, S, V
  <2>2. p \in Seq(V)
    BY DEF V
  <2>3. Picked(Picked(p, S), A) = Picked(p, S \cap A)
    BY <2>2, PickedTwice
  <2> QED
    BY <2>1, <2>3 DEF left, A
<1>5. ASSUME NEW kind \in {"Files", "HardwareIds"}
      PROVE  OfKind(r, kind) = Picked(OfKind(p, kind), NotOf(V, D))
  <2> DEFINE A == {x \in V : x.kind = kind}
             B == NotOf(V, D)
  <2>1. S \cap A = A \cap B
    BY DEF NotOf
  <2>2. OfKind(r, kind) = Picked(p, S \cap A) /\ OfKind(p, kind) = Picked(p, A)
    BY <1>3, <1>4
  <2> HIDE DEF A, B, S, V
  <2>3. p \in Seq(V)
    BY DEF V
  <2>4. Picked(Picked(p, A), B) = Picked(p, A \cap B)
    BY <2>3, PickedTwice
  <2> QED
    BY <2>1, <2>2, <2>4 DEF B
<1>6. Lines(left, "SCSI") = Lines(p, "SCSI")
  <2> DEFINE A == {x \in V : x.kind = "SCSI"}
  <2>1. S \cap A = A
    OBVIOUS
  <2>2. OfKind(left, "SCSI") = OfKind(p, "SCSI")
    <3> HIDE DEF S, A
    <3>1. OfKind(left, "SCSI") = Picked(p, S \cap A) /\ OfKind(p, "SCSI") = Picked(p, A)
      BY <1>4 DEF A
    <3> QED
      BY <2>1, <3>1
  <2> QED
    BY <2>2 DEF Lines
<1>7. Declared(r) = Picked(Lines(p, "SCSI"), Others(L, D) \cap Decl(L))
  <2> DEFINE s == Lines(p, "SCSI")
             A == Others(L, D)
             B == Decl(L)
  <2>1. s \in Seq(L)
    BY KindLinesType
  <2>2. Declared(r) = Picked(Lines(r, "SCSI"), B)
    BY <1>3, DeclaredPicked
  <2> HIDE DEF s, A, B
  <2>3. Picked(Picked(s, A), B) = Picked(s, A \cap B)
    BY <2>1, PickedTwice
  <2>4. Lines(r, "SCSI") = Picked(s, A)
    BY <1>3, <1>6 DEF s, A
  <2> QED
    BY <2>2, <2>3, <2>4 DEF s, A, B
<1> QED
  BY <1>3, <1>5, <1>7 DEF r, V, Leaves

-----------------------------------------------------------------------------
(***************************************************************************)
(* The controllers a file mentions.                                        *)
(***************************************************************************)

\* A line that declares a controller of the file.
Mentions(p, l) == l.key # None /\ l.value # None => l.key \in Mentioned(p)

\* Every declaration is of a controller the file mentions.
LEMMA LinesMention ==
  ASSUME NEW K, NEW I, NEW L, NEW p \in Seq(Sections(K, I, L)),
         NEW i \in DOMAIN Lines(p, "SCSI")
  PROVE  Mentions(p, Lines(p, "SCSI")[i])
<1> DEFINE s == Lines(p, "SCSI")
           J == {k \in DOMAIN s : s[k] \in Decl(L)}
           d == Declared(p)
           keys == [k \in DOMAIN d |-> d[k].key]
<1>1. s \in Seq(L) /\ d = Picked(s, Decl(L)) /\ d \in Seq(L)
  <2>1. s \in Seq(L) /\ d = Picked(s, Decl(L))
    BY KindLinesType, DeclaredPicked
  <2> HIDE DEF s, d
  <2> QED
    BY <2>1, PickedType
<1> HIDE DEF s, d
<1>2. s[i] \in L /\ i \in 1..Len(s) /\ i \in DOMAIN s
  <2>1. i \in DOMAIN s
    BY DEF s
  <2> QED
    BY <1>1, <2>1
<1> SUFFICES ASSUME s[i].key # None, s[i].value # None
             PROVE  s[i].key \in Mentioned(p)
  BY DEF Mentions, s
<1>3. i \in J
  BY <1>2 DEF Decl
<1>4. s[i] \in ToSet(d)
  <2> HIDE DEF J
  <2>1. s[i] \in ToSet(Chosen(s, J))
    BY <1>1, <1>2, <1>3, ChosenElements
  <2> QED
    BY <1>1, <2>1 DEF Picked, J
<1>5. PICK k \in DOMAIN d : d[k] = s[i]
  BY <1>4 DEF ToSet
<1>6. keys \in Seq({l.key : l \in L}) /\ s[i].key \in ToSet(keys)
  <2>1. Len(d) \in Nat /\ DOMAIN d = 1..Len(d) /\ \A j \in 1..Len(d) : d[j] \in L
    BY <1>1
  <2>2. keys \in [1..Len(d) -> {l.key : l \in L}]
    BY <2>1
  <2>3. keys[k] = s[i].key /\ k \in DOMAIN keys
    BY <1>5
  <2> HIDE DEF keys
  <2>4. keys \in Seq({l.key : l \in L})
    BY <2>1, <2>2
  <2> QED
    BY <2>3, <2>4 DEF ToSet
<1>7. Controllers(p) = Distinct(keys)
  BY DEF Controllers, keys, d
<1> HIDE DEF keys
<1>8. s[i].key \in ToSet(Controllers(p))
  BY <1>6, <1>7, DistinctElements
<1> QED
  BY <1>8 DEF Mentioned

\* So is every section with an id.
LEMMA SectionsMention ==
  ASSUME NEW K, NEW I, NEW L, NEW p \in Seq(Sections(K, I, L)), IsPack(p),
         NEW kind \in {"Files", "HardwareIds"}, NEW i \in DOMAIN OfKind(p, kind)
  PROVE  OfKind(p, kind)[i].id \in Mentioned(p)
<1> DEFINE F == OfKind(p, kind)
           J == {k \in DOMAIN p : p[k].kind = kind}
<1>1. F = Chosen(p, J)
  BY DEF OfKind, Filtered
<1> HIDE DEF F
<1>2. F[i] \in ToSet(F)
  BY DEF ToSet, F
<1>3. PICK j \in 1..Len(p) : j \in J /\ F[i] = p[j]
  <2> HIDE DEF J
  <2>1. F[i] \in ToSet(Chosen(p, J))
    BY <1>1, <1>2
  <2> QED
    BY <2>1, ChosenWithin
<1>4. j \in DOMAIN p /\ p[j].kind = kind
  BY <1>3
<1>5. p[j].id # None
  BY <1>4 DEF IsPack
<1>6. p[j].id \in {p[k].id : k \in DOMAIN p}
  BY <1>4
<1>7. p[j].id \in Mentioned(p)
  BY <1>5, <1>6 DEF Mentioned
<1> QED
  BY <1>3, <1>7 DEF F

-----------------------------------------------------------------------------
(***************************************************************************)
(* A filter that keeps one part of a concatenation.                        *)
(***************************************************************************)

\* What holds of every element of a concatenation holds of its parts.
LEMMA ConcatWithin ==
  ASSUME NEW V, NEW a \in Seq(V), NEW b \in Seq(V), NEW W,
         \A i \in DOMAIN (a \o b) : (a \o b)[i] \in W
  PROVE  (\A i \in DOMAIN a : a[i] \in W) /\ (\A i \in DOMAIN b : b[i] \in W)
<1> DEFINE n == Len(a)
           m == Len(b)
           c == a \o b
<1>1. /\ n \in Nat /\ m \in Nat /\ DOMAIN a = 1..n /\ DOMAIN b = 1..m
      /\ DOMAIN c = 1..(n + m)
      /\ \A i \in 1..(n + m) : c[i] = IF i <= n THEN a[i] ELSE b[i - n]
  <2>1. Len(c) = n + m /\ c \in Seq(V)
    BY ConcatProperties
  <2>2. \A i \in 1..(n + m) : c[i] = IF i <= n THEN a[i] ELSE b[i - n]
    BY ConcatProperties
  <2> HIDE DEF c
  <2> QED
    BY <2>1, <2>2
<1>2. \A i \in DOMAIN c : c[i] \in W
  OBVIOUS
<1> HIDE DEF n, m, c
<1>3. ASSUME NEW i \in 1..n PROVE a[i] \in W
  <2>1. i \in 1..(n + m) /\ i <= n
    BY <1>1
  <2> QED
    BY <1>1, <1>2, <2>1
<1>4. ASSUME NEW j \in 1..m PROVE b[j] \in W
  <2>1. n + j \in 1..(n + m) /\ ~(n + j <= n) /\ (n + j) - n = j
    BY <1>1
  <2> QED
    BY <1>1, <1>2, <2>1
<1> QED
  BY <1>1, <1>3, <1>4

\* c is a and then b; s is t with m in it.
Joint(c, a, b) == c = a \o b

Inserted(s, t, a, m, b) == s = (a \o m) \o b /\ t = a \o b

\* All, or none, of the elements of s are in S; A and B have the same of them.
AllIn(s, S) == \A i \in DOMAIN s : s[i] \in S

NoneIn(s, S) == \A i \in DOMAIN s : s[i] \notin S

Agree(s, A, B) == \A i \in DOMAIN s : s[i] \in A <=> s[i] \in B

LEMMA PickedJoint ==
  ASSUME NEW V, NEW a \in Seq(V), NEW b \in Seq(V), NEW c, Joint(c, a, b), NEW S
  PROVE  c \in Seq(V) /\ Picked(c, S) = Picked(a, S) \o Picked(b, S)
<1>1. a \o b \in Seq(V)
  OBVIOUS
<1>2. Picked(a \o b, S) = Picked(a, S) \o Picked(b, S)
  BY PickedConcat
<1> QED
  BY <1>1, <1>2 DEF Joint

LEMMA PickedFacts ==
  ASSUME NEW V, NEW s \in Seq(V), NEW A, NEW B
  PROVE  /\ Picked(s, A) \o <<>> = Picked(s, A) /\ <<>> \o Picked(s, A) = Picked(s, A)
         /\ AllIn(s, A) => Picked(s, A) = s
         /\ NoneIn(s, A) => Picked(s, A) = <<>>
         /\ Agree(s, A, B) => Picked(s, A) = Picked(s, B)
<1> DEFINE p == Picked(s, A)
<1>1. p \in Seq(V)
  BY PickedType
<1> HIDE DEF p
<1>2. p \o <<>> = p /\ <<>> \o p = p
  BY <1>1
<1>3. AllIn(s, A) => Picked(s, A) = s
  BY PickedAll DEF AllIn
<1>4. NoneIn(s, A) => Picked(s, A) = <<>>
  BY PickedNone DEF NoneIn
<1>5. Agree(s, A, B) => Picked(s, A) = Picked(s, B)
  BY PickedSame DEF Agree
<1> QED
  BY <1>2, <1>3, <1>4, <1>5 DEF p

\* The filter keeps the first part, or the second.
LEMMA PickedLeft ==
  ASSUME NEW V, NEW a \in Seq(V), NEW b \in Seq(V), NEW c, Joint(c, a, b), NEW S,
         AllIn(a, S), NoneIn(b, S)
  PROVE  Picked(c, S) = a
<1>1. Picked(c, S) = Picked(a, S) \o Picked(b, S)
  BY PickedJoint
<1>2. /\ Picked(a, S) = a /\ Picked(b, S) = <<>>
      /\ Picked(a, S) \o <<>> = Picked(a, S)
  BY PickedFacts
<1> QED
  BY <1>1, <1>2

LEMMA PickedRight ==
  ASSUME NEW V, NEW a \in Seq(V), NEW b \in Seq(V), NEW c, Joint(c, a, b), NEW S,
         NoneIn(a, S), AllIn(b, S)
  PROVE  Picked(c, S) = b
<1>1. Picked(c, S) = Picked(a, S) \o Picked(b, S)
  BY PickedJoint
<1>2. /\ Picked(a, S) = <<>> /\ Picked(b, S) = b
      /\ <<>> \o Picked(b, S) = Picked(b, S)
  BY PickedFacts
<1> QED
  BY <1>1, <1>2

\* What is inserted is filtered out again.
LEMMA PickedAround ==
  ASSUME NEW V, NEW a \in Seq(V), NEW m \in Seq(V), NEW b \in Seq(V), NEW A, NEW B,
         NEW s, NEW t, Inserted(s, t, a, m, b),
         Agree(a, A, B), Agree(b, A, B), NoneIn(m, A)
  PROVE  Picked(s, A) = Picked(t, B)
<1> DEFINE c == a \o m
<1>1. Joint(c, a, m) /\ Joint(s, c, b) /\ Joint(t, a, b)
  BY DEF Joint, Inserted
<1> HIDE DEF c
<1>2. c \in Seq(V)
  BY <1>1, PickedJoint
<1>3. Picked(c, A) = Picked(a, A) \o Picked(m, A)
  BY <1>1, PickedJoint
<1>4. Picked(s, A) = Picked(c, A) \o Picked(b, A)
  BY <1>1, <1>2, PickedJoint
<1>5. Picked(t, B) = Picked(a, B) \o Picked(b, B)
  BY <1>1, PickedJoint
<1>6. /\ Picked(a, A) = Picked(a, B) /\ Picked(b, A) = Picked(b, B) /\ Picked(m, A) = <<>>
      /\ Picked(a, A) \o <<>> = Picked(a, A)
  BY PickedFacts
<1> QED
  BY <1>3, <1>4, <1>5, <1>6

\* Only what is inserted passes.
LEMMA PickedBetween ==
  ASSUME NEW V, NEW a \in Seq(V), NEW m \in Seq(V), NEW b \in Seq(V), NEW A, NEW B,
         NEW s, NEW t, Inserted(s, t, a, m, b),
         NoneIn(a, A), NoneIn(b, A), Agree(m, A, B)
  PROVE  Picked(s, A) = Picked(m, B)
<1> DEFINE c == a \o m
<1>1. Joint(c, a, m) /\ Joint(s, c, b)
  BY DEF Joint, Inserted
<1> HIDE DEF c
<1>2. c \in Seq(V)
  BY <1>1, PickedJoint
<1>3. Picked(c, A) = Picked(a, A) \o Picked(m, A)
  BY <1>1, PickedJoint
<1>4. Picked(s, A) = Picked(c, A) \o Picked(b, A)
  BY <1>1, <1>2, PickedJoint
<1>5. /\ Picked(m, A) = Picked(m, B) /\ Picked(a, A) = <<>> /\ Picked(b, A) = <<>>
      /\ <<>> \o Picked(m, A) = Picked(m, A) /\ Picked(m, A) \o <<>> = Picked(m, A)
  BY PickedFacts
<1> QED
  BY <1>3, <1>4, <1>5

\* Stripping the controllers of one of two merged files leaves the other.
LEMMA MergeLeaves ==
  ASSUME NEW K, NEW I, NEW L,
         NEW base \in Seq(Sections(K, I, L)), NEW oem \in Seq(Sections(K, I, L)),
         IsPack(base), IsPack(oem), Mentioned(base) \cap Mentioned(oem) = {}
  PROVE  LET merged == Combine(base, oem)
         IN  /\ Reading(StripControllers(merged, Mentioned(oem))) = Reading(base)
             /\ Reading(StripControllers(merged, Mentioned(base))) = Reading(oem)
<1> DEFINE V == Sections(K, I, L)
           c == Combine(base, oem)
           D == Mentioned(oem)
           E == Mentioned(base)
           r == StripControllers(c, D)
           q == StripControllers(c, E)
           a == Lead(base, "SCSI")
           m == Lines(oem, "SCSI")
           b == Follow(base, "SCSI")
<1>1. /\ c \in Seq(V)
      /\ \A kind \in {"Files", "HardwareIds"} :
           OfKind(c, kind) = OfKind(base, kind) \o OfKind(oem, kind)
      /\ Lead(c, "SCSI") = a \o m /\ Follow(c, "SCSI") = b
  <2>1. c \in Seq(V) /\ KeepsBoth(base, oem, c)
    BY CombineFacts
  <2> HIDE DEF V, c
  <2> QED
    BY <2>1 DEF KeepsBoth
<1>2. /\ a \in Seq(L) /\ m \in Seq(L) /\ b \in Seq(L) /\ Lines(base, "SCSI") = a \o b
  BY LeadFollow, KindLinesType
<1>3. D \cap E = {}
  OBVIOUS
<1> HIDE DEF c, D, E
<1>4. Inserted(Lines(c, "SCSI"), Lines(base, "SCSI"), a, m, b)
  <2>1. Lines(c, "SCSI") = Lead(c, "SCSI") \o Follow(c, "SCSI")
    BY <1>1, LeadFollow
  <2> HIDE DEF a, m, b
  <2> QED
    BY <1>1, <1>2, <2>1 DEF Inserted
<1>5. /\ \A i \in DOMAIN Lines(base, "SCSI") : Mentions(base, Lines(base, "SCSI")[i])
      /\ \A i \in DOMAIN m : Mentions(oem, m[i])
  BY LinesMention
<1> HIDE DEF a, m, b
<1>6. /\ \A i \in DOMAIN a : a[i] \in L /\ Mentions(base, a[i])
      /\ \A i \in DOMAIN b : b[i] \in L /\ Mentions(base, b[i])
      /\ \A i \in DOMAIN m : m[i] \in L /\ Mentions(oem, m[i])
  <2> DEFINE W == {l \in L : Mentions(base, l)}
             s == Lines(base, "SCSI")
  <2>1. s = a \o b /\ s \in Seq(L)
    <3>1. s \in Seq(L)
      BY KindLinesType
    <3> QED
      BY <1>2, <3>1
  <2>2. \A i \in DOMAIN s : Mentions(base, s[i])
    BY <1>5
  <2> HIDE DEF s
  <2>3. \A i \in DOMAIN s : s[i] \in W
    BY <2>1, <2>2
  <2> HIDE DEF W
  <2>4. \A i \in DOMAIN (a \o b) : (a \o b)[i] \in W
    BY <2>1, <2>3
  <2>5. (\A i \in DOMAIN a : a[i] \in W) /\ (\A i \in DOMAIN b : b[i] \in W)
    BY <1>2, <2>4, ConcatWithin
  <2>6. \A i \in DOMAIN m : m[i] \in L
    BY <1>2
  <2> QED
    BY <1>5, <2>5, <2>6 DEF W
<1>7. /\ r \in Seq(V) /\ q \in Seq(V)
      /\ Declared(r) = Picked(Lines(c, "SCSI"), Others(L, D) \cap Decl(L))
      /\ Declared(q) = Picked(Lines(c, "SCSI"), Others(L, E) \cap Decl(L))
      /\ \A kind \in {"Files", "HardwareIds"} :
           /\ OfKind(r, kind) = Picked(OfKind(c, kind), NotOf(V, D))
           /\ OfKind(q, kind) = Picked(OfKind(c, kind), NotOf(V, E))
  <2>1. /\ r \in Seq(V) /\ Leaves(c, D, r, V, L)
        /\ q \in Seq(V) /\ Leaves(c, E, q, V, L)
    BY <1>1, StripFacts
  <2> HIDE DEF V, r, q
  <2> QED
    BY <2>1 DEF Leaves
<1> HIDE DEF r, q
<1>8. Declared(base) = Picked(Lines(base, "SCSI"), Decl(L)) /\ Declared(oem) = Picked(m, Decl(L))
  BY DeclaredPicked DEF m
<1>9. /\ \A l \in L : Mentions(base, l) => /\ l \in Others(L, D) \cap Decl(L) <=> l \in Decl(L)
                                           /\ l \notin Others(L, E) \cap Decl(L)
      /\ \A l \in L : Mentions(oem, l) => /\ l \in Others(L, E) \cap Decl(L) <=> l \in Decl(L)
                                          /\ l \notin Others(L, D) \cap Decl(L)
  BY <1>3 DEF Mentions, Others, Decl, D, E
<1>10. Declared(r) = Declared(base)
  <2> DEFINE A == Others(L, D) \cap Decl(L)
             B == Decl(L)
  <2>1. Agree(a, A, B) /\ Agree(b, A, B) /\ NoneIn(m, A)
    BY <1>6, <1>9 DEF Agree, NoneIn
  <2> HIDE DEF A, B
  <2>2. Picked(Lines(c, "SCSI"), A) = Picked(Lines(base, "SCSI"), B)
    BY <1>2, <1>4, <2>1, PickedAround
  <2> QED
    BY <1>7, <1>8, <2>2 DEF A, B
<1>11. Declared(q) = Declared(oem)
  <2> DEFINE A == Others(L, E) \cap Decl(L)
             B == Decl(L)
  <2>1. NoneIn(a, A) /\ NoneIn(b, A) /\ Agree(m, A, B)
    BY <1>6, <1>9 DEF Agree, NoneIn
  <2> HIDE DEF A, B
  <2>2. Picked(Lines(c, "SCSI"), A) = Picked(m, B)
    BY <1>2, <1>4, <2>1, PickedBetween
  <2> QED
    BY <1>7, <1>8, <2>2 DEF A, B
<1>12. ASSUME NEW kind \in {"Files", "HardwareIds"}
       PROVE  OfKind(r, kind) = OfKind(base, kind) /\ OfKind(q, kind) = OfKind(oem, kind)
  <2> DEFINE x == OfKind(base, kind)
             y == OfKind(oem, kind)
  <2>1. /\ x \in Seq(V) /\ y \in Seq(V)
        /\ \A i \in DOMAIN x : x[i].id \in E
        /\ \A i \in DOMAIN y : y[i].id \in D
    <3>1. x \in Seq(V) /\ y \in Seq(V)
      BY KindLinesType
    <3>2. \A i \in DOMAIN x : x[i].id \in E
      BY SectionsMention DEF E
    <3>3. \A i \in DOMAIN y : y[i].id \in D
      BY SectionsMention DEF D
    <3> HIDE DEF x, y
    <3> QED
      BY <3>1, <3>2, <3>3
  <2>2. /\ OfKind(r, kind) = Picked(OfKind(c, kind), NotOf(V, D))
        /\ OfKind(q, kind) = Picked(OfKind(c, kind), NotOf(V, E))
    BY <1>7
  <2>3. Joint(OfKind(c, kind), x, y)
    BY <1>1 DEF Joint
  <2> HIDE DEF x, y, V
  <2>4. /\ \A i \in DOMAIN x : x[i] \in V /\ x[i].id \in E
        /\ \A i \in DOMAIN y : y[i] \in V /\ y[i].id \in D
    BY <2>1
  <2>5. /\ AllIn(x, NotOf(V, D)) /\ NoneIn(x, NotOf(V, E))
        /\ NoneIn(y, NotOf(V, D)) /\ AllIn(y, NotOf(V, E))
    BY <1>3, <2>4 DEF NotOf, AllIn, NoneIn
  <2>6. Picked(OfKind(c, kind), NotOf(V, D)) = x
    BY <2>1, <2>3, <2>5, PickedLeft
  <2>7. Picked(OfKind(c, kind), NotOf(V, E)) = y
    BY <2>1, <2>3, <2>5, PickedRight
  <2> QED
    BY <2>2, <2>6, <2>7 DEF x, y
<1>13. Reading(r) = Reading(base) /\ Reading(q) = Reading(oem)
  <2>1. base \in Seq(V) /\ oem \in Seq(V)
    OBVIOUS
  <2> HIDE DEF V
  <2> QED
    BY <1>7, <1>10, <1>11, <1>12, <2>1, ReadingOf
<1> QED
  BY <1>13 DEF r, q, c, D, E

\* Merging the given pack with the embedded one loses nothing of either.
LEMMA FloppySeparates ==
  ASSUME GivenSound
  PROVE  MergeSeparates
<1> DEFINE base == FloppyOem
           oem == given.pack
<1>1. IsPack(base) /\ IsPack(oem)
  BY FloppyAssumption, GivenPack
<1> HIDE DEF base, oem
<1>2. PICK K, I, L : base \in Seq(Sections(K, I, L)) /\ oem \in Seq(Sections(K, I, L))
  BY <1>1, TwoPacks
<1>3. Mentioned(base) \cap Mentioned(oem) = {} =>
        LET merged == Combine(base, oem)
        IN  /\ Reading(StripControllers(merged, Mentioned(oem))) = Reading(base)
            /\ Reading(StripControllers(merged, Mentioned(base))) = Reading(oem)
  BY <1>1, <1>2, MergeLeaves
<1> QED
  BY <1>3 DEF MergeSeparates, base, oem

-----------------------------------------------------------------------------
(***************************************************************************)
(* The theorems.                                                           *)
(***************************************************************************)

\* slipstream_ahci_into_iso appends files of the pack to I386 and keeps each
\* manifest a sequence of headers, bodies and blanks.
THEOREM TypeCorrect == Spec => []TypeOK
BY Invariance, PTL DEF IInv

\* patch_txtsetup_sif and patch_dosnet_inf keep every line and its place: a
\* manifest without what was added is the original, unless its replacement
\* failed.
THEOREM OriginalAlwaysKept == Spec => []OriginalKept
BY Invariance, PTL DEF IInv

\* Whatever the pack refers to and wherever the burn stops, no manifest names
\* a file that was not appended to I386 before.
THEOREM PresentAlwaysBeforeNamed == Spec => []PresentBeforeNamed
BY Invariance, PTL DEF IInv

\* A burn that reports success with a regular pack leaves an install source in
\* which Setup, given any PCI id of the pack, reads the service, the driver
\* file to load for it, and where both manifests say the file is.  It takes
\* every patch: where apply_additions and patch_dosnet_inf put a line, and
\* that collect_services, which reads driver lines by rules of its own, comes
\* to the service that hardware_ids pairs with the id.
THEOREM DriverAlwaysBinds == Spec => []DriverBinds
<1>1. IInv /\ Settled => DriverBinds
  BY ChainHolds DEF DriverBinds
<1> QED
  BY Invariance, AlwaysSettled, <1>1, PTL

\* Whatever pack without the controllers of the embedded file merge puts into
\* it, strip_controllers takes out again: without the controllers of one, the
\* readers find what the other said, the controllers, the files and the
\* services of the hardware ids, in their order.
THEOREM MergeAlwaysSeparates == Spec => []MergeSeparates
<1>1. IInv => MergeSeparates
  BY FloppySeparates DEF IInv
<1> QED
  BY Invariance, <1>1, PTL

\* merge declares no disk twice unless the pack does, in whatever sections and
\* however often it names them, and keeps the embedded [Defaults].
THEOREM FloppyAlwaysOne == Spec => []OneFloppy
<1>1. IInv => OneFloppy
  BY FloppyOnce DEF IInv
<1> QED
  BY Invariance, <1>1, PTL
=============================================================================
