---------------------------- MODULE Document_proof ----------------------------
(***************************************************************************)
(* What holds of every page, every price and every contract: the tree the  *)
(* builder makes, the text read off it, the prices in that text, and what  *)
(* the difference from a contract reports. Positions and induction come    *)
(* first, then the modules in the order in which Document composes them.   *)
(***************************************************************************)
EXTENDS Document, SequenceTheorems, FiniteSetTheorems, WellFoundedInduction, TLAPS

-----------------------------------------------------------------------------
(* Induction, as a fact about a set of numbers.                            *)

\* A set of naturals that has n whenever it has everything below n has them all.
LEMMA EveryNumber ==
  ASSUME NEW S,
         \A n \in Nat : (\A m \in 0 .. n - 1 : m \in S) => n \in S
  PROVE  Nat \subseteq S
<1> SUFFICES ASSUME Nat \ S # {} PROVE FALSE
  OBVIOUS
<1> DEFINE T == Nat \ S
           R == OpToRel(<, Nat)
<1>1. PICK k \in T : \A l \in T : ~ (<<l, k>> \in R)
  <2> HIDE DEF R
  <2>1. IsWellFoundedOn(R, Nat)
    BY NatLessThanWellFounded DEF R
  <2>2. T \subseteq Nat /\ T # {}
    OBVIOUS
  <2> HIDE DEF T
  <2> QED BY <2>1, <2>2, WFMin
<1>2. \A l \in T : ~ (l < k)
  BY <1>1 DEF OpToRel
<1>3. \A m \in 0 .. k - 1 : m \in S
  <2> HIDE DEF R
  <2> QED BY <1>2
<1> QED BY <1>3

\* The same for the numbers up to n, one by one.
LEMMA EveryUpTo ==
  ASSUME NEW n \in Nat, NEW S, 0 \in S,
         \A k \in 1 .. n : k - 1 \in S => k \in S
  PROVE  \A k \in 0 .. n : k \in S
<1> DEFINE T == {k \in Nat : k <= n => k \in S}
<1>1. ASSUME NEW k \in Nat, \A m \in 0 .. k - 1 : m \in T
      PROVE  k \in T
  <2>1. CASE k = 0
    BY <2>1
  <2>2. CASE k # 0 /\ k <= n
    <3>1. k - 1 \in 0 .. k - 1 /\ k - 1 <= n
      BY <2>2
    <3>2. k - 1 \in S
      BY <1>1, <3>1
    <3> QED BY <2>2, <3>2
  <2> QED BY <2>1, <2>2
<1> HIDE DEF T
<1>2. Nat \subseteq T
  BY <1>1, EveryNumber
<1> QED BY <1>2 DEF T

-----------------------------------------------------------------------------
(* A recursive function exists: what it has for an argument rests on what  *)
(* it has for those of a smaller measure.                                  *)

Determined(D, V, M, measure, E) ==
  /\ V # {} /\ M \in Nat
  /\ measure \in [D -> 0 .. M]
  /\ E \in [[D -> V] -> [D -> V]]
  /\ \A x \in D : \A g, h \in [D -> V] :
       (\A y \in D : measure[y] < measure[x] => g[y] = h[y]) => E[g][x] = E[h][x]

LEMMA Recursion ==
  ASSUME NEW D, NEW V, NEW M, NEW measure, NEW E, Determined(D, V, M, measure, E)
  PROVE  \E f \in [D -> V] : f = E[f]
<1> PICK v \in V : TRUE
  BY DEF Determined
<1>0. /\ M \in Nat
      /\ measure \in [D -> 0 .. M]
      /\ E \in [[D -> V] -> [D -> V]]
  BY DEF Determined
<1> DEFINE Solves(g, k) == \A x \in D : measure[x] < k => g[x] = E[g][x]
           S == {k \in Nat : \E g \in [D -> V] : Solves(g, k)}
<1>1. 0 \in S
  <2>1. [x \in D |-> v] \in [D -> V]
    OBVIOUS
  <2>2. Solves([x \in D |-> v], 0)
    BY <1>0
  <2> HIDE DEF Solves
  <2> QED BY <2>1, <2>2
<1>2. ASSUME NEW k \in Nat, k \in S
      PROVE  k + 1 \in S
  <2>1. PICK g \in [D -> V] : Solves(g, k)
    BY <1>2
  <2> DEFINE h == [x \in D |-> IF measure[x] = k THEN E[g][x] ELSE g[x]]
  <2>2. h \in [D -> V]
    BY <1>0
  <2>3. Solves(h, k + 1)
    <3> SUFFICES ASSUME NEW x \in D, measure[x] < k + 1
                 PROVE  h[x] = E[h][x]
      OBVIOUS
    <3>1. \A y \in D : measure[y] < measure[x] => g[y] = h[y]
      BY <1>0
    <3>2. E[g][x] = E[h][x]
      <4> HIDE DEF h
      <4> QED BY <2>2, <3>1 DEF Determined
    <3>3. measure[x] # k => measure[x] < k
      <4>1. measure[x] \in Nat
        BY <1>0
      <4> QED BY <4>1
    <3>4. measure[x] # k => g[x] = E[g][x]
      BY <2>1, <3>3
    <3> QED BY <3>2, <3>4
  <2> HIDE DEF Solves, h
  <2> QED BY <2>2, <2>3
<1>3. \A k \in 0 .. M + 1 : k \in S
  <2> HIDE DEF S
  <2>1. \A k \in 1 .. M + 1 : k - 1 \in S => k \in S
    BY <1>0, <1>2
  <2> QED BY <1>0, <1>1, <2>1, EveryUpTo
<1>4. PICK g \in [D -> V] : Solves(g, M + 1)
  <2> HIDE DEF Solves
  <2>1. M + 1 \in 0 .. M + 1
    BY <1>0
  <2> QED BY <1>3, <2>1
<1>5. \A x \in D : measure[x] < M + 1
  BY <1>0
<1>6. \A x \in D : g[x] = E[g][x]
  BY <1>4, <1>5
<1> QED BY <1>0, <1>6

-----------------------------------------------------------------------------
(* FlattenSeq, by what its first blocks make.                              *)

LEMMA FlattenSteps ==
  ASSUME NEW T, NEW s \in Seq(Seq(T))
  PROVE  \E f : /\ f[0] = << >>
                /\ \A i \in 1 .. Len(s) : f[i] = f[i - 1] \o s[i]
                /\ f[Len(s)] = FlattenSeq(s)
<1> DEFINE n == Len(s)
           e(g, i) == IF i = 1 THEN s[i] ELSE g[i - 1] \o s[i]
           D == 1 .. n
           V == Seq(T)
           E == [g \in [D -> V] |-> [i \in D |-> e(g, i)]]
           measure == [i \in D |-> i]
<1>1. n \in Nat /\ \A i \in D : s[i] \in V
  BY LenProperties, ElementOfSeq
<1>2. \A g \in [D -> V] : \A i \in D : e(g, i) \in V
  <2> TAKE g \in [D -> V]
  <2> TAKE i \in D
  <2>1. CASE i = 1
    BY <1>1, <2>1
  <2>2. CASE i # 1
    <3>1. i - 1 \in D
      BY <1>1, <2>2
    <3>2. g[i - 1] \in Seq(T) /\ s[i] \in Seq(T)
      BY <1>1, <3>1
    <3> QED BY <2>2, <3>2, ConcatProperties
  <2> QED BY <2>1, <2>2
<1>3. \E f \in [D -> V] : f = E[f]
  <2>1. E \in [[D -> V] -> [D -> V]]
    <3> HIDE DEF e, D, V
    <3> QED BY <1>2
  <2>2. measure \in [D -> 0 .. n]
    BY <1>1
  <2>3. \A i \in D : \A g, h \in [D -> V] :
          (\A j \in D : measure[j] < measure[i] => g[j] = h[j]) => E[g][i] = E[h][i]
    <3> SUFFICES ASSUME NEW i \in D, NEW g \in [D -> V], NEW h \in [D -> V],
                        \A j \in D : j < i => g[j] = h[j]
                 PROVE  e(g, i) = e(h, i)
      OBVIOUS
    <3>1. CASE i = 1
      BY <3>1
    <3>2. CASE i # 1
      <4>1. i - 1 \in D /\ i - 1 < i
        BY <1>1, <3>2
      <4> QED BY <3>2, <4>1
    <3> QED BY <3>1, <3>2
  <2>4. V # {}
    BY EmptySeq
  <2> HIDE DEF D, V, E, measure, n
  <2>5. Determined(D, V, n, measure, E)
    BY <1>1, <2>1, <2>2, <2>3, <2>4 DEF Determined
  <2> QED BY <2>5, Recursion
<1>4. PICK f0 \in [D -> V] : f0 = [i \in D |-> e(f0, i)]
  <2> HIDE DEF e, D, V
  <2> QED BY <1>3
<1> DEFINE g == CHOOSE g : g = [i \in 1 .. n |-> e(g, i)]
<1>5. g = [i \in 1 .. n |-> e(g, i)]
  <2> HIDE DEF e
  <2> QED BY <1>4
<1>6. n # 0 => FlattenSeq(s) = g[n]
  BY DEF FlattenSeq
<1> DEFINE f == [i \in 0 .. n |-> IF i = 0 THEN << >> ELSE g[i]]
<1>7. ASSUME NEW i \in 1 .. n
      PROVE  f[i] = f[i - 1] \o s[i]
  <2>1. g[i] = e(g, i)
    <3> HIDE DEF g, e
    <3> QED BY <1>5
  <2> HIDE DEF g
  <2>2. CASE i = 1
    <3>1. << >> \o s[1] = s[1]
      BY <1>1, <2>2, ConcatEmptySeq
    <3> QED BY <1>1, <2>1, <2>2, <3>1
  <2>3. CASE i # 1
    <3>1. f[i] = g[i] /\ f[i - 1] = g[i - 1]
      BY <1>1, <2>3
    <3> QED BY <2>1, <2>3, <3>1
  <2> QED BY <2>2, <2>3
<1>8. f[n] = FlattenSeq(s)
  <2> HIDE DEF g
  <2>1. CASE n = 0
    <3>1. s = << >>
      BY <2>1, EmptySeq
    <3>2. FlattenSeq(s) = s
      BY <2>1 DEF FlattenSeq
    <3> QED BY <1>1, <2>1, <3>1, <3>2
  <2> QED BY <1>1, <1>6, <2>1
<1>9. f[0] = << >>
  BY <1>1
<1> HIDE DEF f
<1> QED BY <1>7, <1>8, <1>9

LEMMA FlattenEmpty == FlattenSeq(<< >>) = << >>
<1> QED BY DEF FlattenSeq

\* The last block is put behind what the others make.
LEMMA FlattenLast ==
  ASSUME NEW T, NEW n \in Nat, NEW s \in [1 .. n + 1 -> Seq(T)]
  PROVE  FlattenSeq(s) = FlattenSeq([i \in 1 .. n |-> s[i]]) \o s[n + 1]
<1> DEFINE t == [i \in 1 .. n |-> s[i]]
<1>1. /\ s \in Seq(Seq(T)) /\ Len(s) = n + 1
      /\ t \in Seq(Seq(T)) /\ Len(t) = n
  OBVIOUS
<1>2. PICK f : /\ f[0] = << >>
               /\ \A i \in 1 .. n + 1 : f[i] = f[i - 1] \o s[i]
               /\ f[n + 1] = FlattenSeq(s)
  BY <1>1, FlattenSteps
<1>3. PICK g : /\ g[0] = << >>
               /\ \A i \in 1 .. n : g[i] = g[i - 1] \o t[i]
               /\ g[n] = FlattenSeq(t)
  <2> HIDE DEF t
  <2> QED BY <1>1, FlattenSteps
<1> DEFINE S == {k \in 0 .. n : f[k] = g[k]}
<1>4. 0 \in S
  BY <1>2, <1>3
<1>5. ASSUME NEW k \in 1 .. n, k - 1 \in S
      PROVE  k \in S
  <2>1. t[k] = s[k] /\ k \in 1 .. n + 1
    OBVIOUS
  <2> HIDE DEF t
  <2>2. f[k - 1] = g[k - 1]
    BY <1>5
  <2>3. f[k] = f[k - 1] \o s[k] /\ g[k] = g[k - 1] \o t[k]
    BY <1>2, <1>3, <2>1
  <2>4. f[k] = g[k]
    BY <2>1, <2>2, <2>3
  <2> QED BY <2>4
<1>6. \A k \in 0 .. n : k \in S
  <2> HIDE DEF S
  <2> QED BY <1>4, <1>5, EveryUpTo
<1>7. f[n] = g[n]
  BY <1>6
<1>8. f[n + 1] = f[n] \o s[n + 1]
  <2>1. n + 1 \in 1 .. n + 1 /\ (n + 1) - 1 = n
    OBVIOUS
  <2>2. f[n + 1] = f[(n + 1) - 1] \o s[n + 1]
    BY <1>2, <2>1
  <2> QED BY <2>1, <2>2
<1> QED BY <1>2, <1>3, <1>7, <1>8

LEMMA FlattenType ==
  ASSUME NEW T, NEW s \in Seq(Seq(T))
  PROVE  FlattenSeq(s) \in Seq(T)
<1>1. Len(s) \in Nat /\ \A i \in 1 .. Len(s) : s[i] \in Seq(T)
  BY LenProperties, ElementOfSeq
<1>2. PICK f : /\ f[0] = << >>
               /\ \A i \in 1 .. Len(s) : f[i] = f[i - 1] \o s[i]
               /\ f[Len(s)] = FlattenSeq(s)
  BY FlattenSteps
<1> DEFINE S == {k \in 0 .. Len(s) : f[k] \in Seq(T)}
<1>3. 0 \in S
  <2>1. f[0] \in Seq(T)
    BY <1>2, EmptySeq
  <2> QED BY <1>1, <2>1
<1>4. ASSUME NEW k \in 1 .. Len(s), k - 1 \in S
      PROVE  k \in S
  <2>1. f[k - 1] \in Seq(T) /\ s[k] \in Seq(T)
    BY <1>1, <1>4
  <2>2. f[k] = f[k - 1] \o s[k]
    BY <1>2
  <2>3. f[k] \in Seq(T)
    BY <2>1, <2>2, ConcatProperties
  <2> QED BY <2>3
<1>5. \A k \in 0 .. Len(s) : k \in S
  <2> HIDE DEF S
  <2> QED BY <1>1, <1>3, <1>4, EveryUpTo
<1> QED BY <1>1, <1>2, <1>5

-----------------------------------------------------------------------------
(* Increasing sequences.                                                   *)

Increasing(q) == \A i, j \in DOMAIN q : i < j => q[i] < q[j]

\* Everything in one sequence is smaller than everything in the other.
Below(q, r) == \A x \in Range(q), y \in Range(r) : x < y

LEMMA Joined ==
  ASSUME NEW q \in Seq(Int), NEW r \in Seq(Int), Increasing(q), Increasing(r), Below(q, r)
  PROVE  /\ q \o r \in Seq(Int)
         /\ Increasing(q \o r)
         /\ Range(q \o r) = Range(q) \cup Range(r)
<1>1. /\ Len(q) \in Nat /\ DOMAIN q = 1 .. Len(q)
      /\ Len(r) \in Nat /\ DOMAIN r = 1 .. Len(r)
  BY LenProperties
<1> DEFINE t == q \o r
<1>2. /\ t \in Seq(Int) /\ Len(t) = Len(q) + Len(r)
      /\ DOMAIN t = 1 .. Len(q) + Len(r)
      /\ \A i \in 1 .. Len(q) + Len(r) : t[i] = IF i <= Len(q) THEN q[i] ELSE r[i - Len(q)]
  BY ConcatProperties, LenProperties
<1>3. Range(t) = Range(q) \cup Range(r)
  BY RangeConcatenation
<1> HIDE DEF t
<1>4. Increasing(t)
  <2> SUFFICES ASSUME NEW i \in 1 .. Len(q) + Len(r), NEW j \in 1 .. Len(q) + Len(r), i < j
               PROVE  t[i] < t[j]
    BY <1>2 DEF Increasing
  <2>1. CASE j <= Len(q)
    <3>1. i \in DOMAIN q /\ j \in DOMAIN q
      BY <1>1, <2>1
    <3> QED BY <1>1, <1>2, <2>1, <3>1 DEF Increasing
  <2>2. CASE i > Len(q)
    <3>1. i - Len(q) \in DOMAIN r /\ j - Len(q) \in DOMAIN r /\ i - Len(q) < j - Len(q)
      BY <1>1, <2>2
    <3>2. t[i] = r[i - Len(q)] /\ t[j] = r[j - Len(q)]
      BY <1>1, <1>2, <2>2
    <3> QED BY <3>1, <3>2 DEF Increasing
  <2>3. CASE i <= Len(q) /\ j > Len(q)
    <3>1. i \in DOMAIN q /\ j - Len(q) \in DOMAIN r
      BY <1>1, <2>3
    <3>2. t[i] = q[i] /\ t[j] = r[j - Len(q)]
      BY <1>1, <1>2, <2>3
    <3> QED BY <3>1, <3>2 DEF Below, Range
  <2> QED BY <1>1, <2>1, <2>2, <2>3
<1> QED BY <1>2, <1>3, <1>4 DEF t

\* Two increasing sequences with the same members are the same sequence.
LEMMA SameMembers ==
  ASSUME NEW q \in Seq(Int), NEW r \in Seq(Int), Increasing(q), Increasing(r),
         Range(q) = Range(r)
  PROVE  q = r
<1>1. /\ Len(q) \in Nat /\ DOMAIN q = 1 .. Len(q) /\ \A i \in 1 .. Len(q) : q[i] \in Int
      /\ Len(r) \in Nat /\ DOMAIN r = 1 .. Len(r) /\ \A i \in 1 .. Len(r) : r[i] \in Int
  BY LenProperties, ElementOfSeq
<1>2. /\ \A i \in DOMAIN q : \E j \in DOMAIN r : q[i] = r[j]
      /\ \A i \in DOMAIN r : \E j \in DOMAIN q : r[i] = q[j]
  BY DEF Range
<1> DEFINE S == {k \in Nat : k \in DOMAIN q \cap DOMAIN r => q[k] = r[k]}
<1>3. ASSUME NEW k \in Nat, \A m \in 0 .. k - 1 : m \in S
      PROVE  k \in S
  <2> SUFFICES ASSUME k \in DOMAIN q, k \in DOMAIN r
               PROVE  q[k] = r[k]
    OBVIOUS
  <2>1. PICK i \in DOMAIN r : q[k] = r[i]
    BY <1>2
  <2>2. PICK j \in DOMAIN q : r[k] = q[j]
    BY <1>2
  <2>3. i >= k
    <3> SUFFICES ASSUME i < k PROVE FALSE
      BY <1>1
    <3>1. i \in S /\ i \in DOMAIN q
      BY <1>1, <1>3
    <3>2. q[i] = r[i] /\ q[i] < q[k]
      BY <1>1, <3>1 DEF Increasing
    <3> QED BY <1>1, <2>1, <3>1, <3>2
  <2>4. j >= k
    <3> SUFFICES ASSUME j < k PROVE FALSE
      BY <1>1
    <3>1. j \in S /\ j \in DOMAIN r
      BY <1>1, <1>3
    <3>2. q[j] = r[j] /\ r[j] < r[k]
      BY <1>1, <3>1 DEF Increasing
    <3> QED BY <1>1, <2>2, <3>1, <3>2
  <2>5. r[k] <= r[i] /\ q[k] <= q[j]
    <3>1. (k = i \/ k < i) /\ (k = j \/ k < j)
      BY <1>1, <2>3, <2>4
    <3>2. /\ k < i => r[k] < r[i]
          /\ k < j => q[k] < q[j]
      BY DEF Increasing
    <3> QED BY <1>1, <3>1, <3>2
  <2> QED BY <1>1, <2>1, <2>2, <2>5
<1>4. Nat \subseteq S
  <2> HIDE DEF S
  <2> QED BY <1>3, EveryNumber
<1>5. \A k \in DOMAIN q \cap DOMAIN r : q[k] = r[k]
  BY <1>1, <1>4
<1>6. ~ (Len(q) < Len(r))
  <2> SUFFICES ASSUME Len(q) < Len(r) PROVE FALSE
    OBVIOUS
  <2>1. Len(q) + 1 \in DOMAIN r
    BY <1>1
  <2>2. PICK j \in DOMAIN q : r[Len(q) + 1] = q[j]
    BY <1>2, <2>1
  <2>3. j \in DOMAIN r /\ j < Len(q) + 1 /\ q[j] = r[j]
    BY <1>1, <1>5
  <2>4. r[j] < r[Len(q) + 1]
    BY <2>1, <2>3 DEF Increasing
  <2> QED BY <1>1, <2>1, <2>2, <2>3, <2>4
<1>7. ~ (Len(r) < Len(q))
  <2> SUFFICES ASSUME Len(r) < Len(q) PROVE FALSE
    OBVIOUS
  <2>1. Len(r) + 1 \in DOMAIN q
    BY <1>1
  <2>2. PICK j \in DOMAIN r : q[Len(r) + 1] = r[j]
    BY <1>2, <2>1
  <2>3. j \in DOMAIN q /\ j < Len(r) + 1 /\ q[j] = r[j]
    BY <1>1, <1>5
  <2>4. q[j] < q[Len(r) + 1]
    BY <2>1, <2>3 DEF Increasing
  <2> QED BY <1>1, <2>1, <2>2, <2>3, <2>4
<1>8. Len(q) = Len(r)
  <2>1. Len(q) \in Nat /\ Len(r) \in Nat
    BY <1>1
  <2> QED BY <1>6, <1>7, <2>1
<1> QED BY <1>1, <1>5, <1>8, SeqEqual

\* Increasing blocks in increasing order make an increasing sequence, of what is
\* in the blocks.
LEMMA Flattened ==
  ASSUME NEW s \in Seq(Seq(Int)),
         \A i \in DOMAIN s : Increasing(s[i]),
         \A i, j \in DOMAIN s : i < j => Below(s[i], s[j])
  PROVE  /\ FlattenSeq(s) \in Seq(Int)
         /\ Increasing(FlattenSeq(s))
         /\ Range(FlattenSeq(s)) = UNION {Range(s[i]) : i \in DOMAIN s}
<1> DEFINE n == Len(s)
<1>1. n \in Nat /\ DOMAIN s = 1 .. n /\ \A i \in 1 .. n : s[i] \in Seq(Int)
  BY LenProperties, ElementOfSeq
<1>2. PICK f : /\ f[0] = << >>
               /\ \A i \in 1 .. n : f[i] = f[i - 1] \o s[i]
               /\ f[n] = FlattenSeq(s)
  BY FlattenSteps
<1> DEFINE Good(k) == /\ f[k] \in Seq(Int)
                      /\ Increasing(f[k])
                      /\ Range(f[k]) = UNION {Range(s[i]) : i \in 1 .. k}
           S == {k \in 0 .. n : Good(k)}
<1> HIDE DEF n
<1>3. Good(0)
  <2>1. << >> \in Seq(Int) /\ DOMAIN << >> = {}
    OBVIOUS
  <2> QED BY <1>2, <2>1 DEF Increasing, Range
<1>4. ASSUME NEW k \in 1 .. n, Good(k - 1)
      PROVE  Good(k)
  <2>1. k \in DOMAIN s /\ s[k] \in Seq(Int) /\ Increasing(s[k])
    BY <1>1
  <2>2. Below(f[k - 1], s[k])
    <3>1. \A i \in 1 .. k - 1 : i \in DOMAIN s /\ i < k
      BY <1>1
    <3> QED BY <1>4, <2>1, <3>1 DEF Below
  <2>3. /\ f[k - 1] \o s[k] \in Seq(Int)
        /\ Increasing(f[k - 1] \o s[k])
        /\ Range(f[k - 1] \o s[k]) = Range(f[k - 1]) \cup Range(s[k])
    BY <1>4, <2>1, <2>2, Joined
  <2>4. f[k] = f[k - 1] \o s[k]
    BY <1>2
  <2>5. UNION {Range(s[i]) : i \in 1 .. k} =
          (UNION {Range(s[i]) : i \in 1 .. k - 1}) \cup Range(s[k])
    <3>1. 1 .. k = (1 .. k - 1) \cup {k}
      BY <1>1
    <3> QED BY <3>1
  <2> QED BY <1>4, <2>3, <2>4, <2>5
<1>5. \A k \in 0 .. n : k \in S
  <2> HIDE DEF Good
  <2>1. 0 \in S /\ \A k \in 1 .. n : k - 1 \in S => k \in S
    BY <1>1, <1>3, <1>4
  <2> HIDE DEF S
  <2> QED BY <1>1, <2>1, EveryUpTo
<1>6. Good(n)
  <2> HIDE DEF Good
  <2> QED BY <1>1, <1>5
<1> QED BY <1>1, <1>2, <1>6

-----------------------------------------------------------------------------
(* Ordered and Picked.                                                     *)

\* Ordered is the members of a set up to n, each once, in order.
LEMMA OrderedIs ==
  ASSUME NEW S, NEW n \in Nat
  PROVE  /\ Ordered(S, n) \in Seq(S \cap (1 .. n))
         /\ Ordered(S, n) \in Seq(Int)
         /\ Increasing(Ordered(S, n))
         /\ Range(Ordered(S, n)) = S \cap (1 .. n)
<1> DEFINE s == [i \in 1 .. n |-> IF i \in S THEN <<i>> ELSE << >>]
<1>1. \A i \in 1 .. n : /\ s[i] \in Seq(Int)
                        /\ Range(s[i]) = {i} \cap S
                        /\ Increasing(s[i])
  <2> TAKE i \in 1 .. n
  <2>1. CASE i \in S
    <3>1. s[i] = <<i>>
      BY <2>1
    <3> HIDE DEF s
    <3> QED BY <2>1, <3>1 DEF Range, Increasing
  <2>2. CASE i \notin S
    <3>1. s[i] = << >>
      BY <2>2
    <3> HIDE DEF s
    <3> QED BY <2>2, <3>1 DEF Range, Increasing
  <2> QED BY <2>1, <2>2
<1>2. DOMAIN s = 1 .. n /\ Len(s) = n
  OBVIOUS
<1>3. s \in Seq(Seq(Int))
  <2>1. s \in [1 .. n -> Seq(Int)]
    OBVIOUS
  <2> HIDE DEF s
  <2> QED BY <2>1
<1>4. \A i, j \in 1 .. n : i < j => Below(s[i], s[j])
  <2> HIDE DEF s
  <2> QED BY <1>1 DEF Below
<1>5. /\ FlattenSeq(s) \in Seq(Int)
      /\ Increasing(FlattenSeq(s))
      /\ Range(FlattenSeq(s)) = UNION {Range(s[i]) : i \in DOMAIN s}
  <2> HIDE DEF s
  <2> QED BY <1>1, <1>2, <1>3, <1>4, Flattened
<1>6. UNION {Range(s[i]) : i \in DOMAIN s} = S \cap (1 .. n)
  <2> HIDE DEF s
  <2> QED BY <1>1, <1>2
<1>7. Ordered(S, n) = FlattenSeq(s)
  BY DEF Ordered
<1>8. FlattenSeq(s) \in Seq(Range(FlattenSeq(s)))
  <2> HIDE DEF s
  <2> QED BY <1>5, SeqOfRange
<1> QED BY <1>5, <1>6, <1>7, <1>8

LEMMA OrderedEmpty ==
  ASSUME NEW S
  PROVE  Ordered(S, 0) = << >>
<1>1. Ordered(S, 0) \in Seq(S \cap (1 .. 0)) /\ S \cap (1 .. 0) = {}
  BY OrderedIs
<1> DEFINE q == Ordered(S, 0)
<1>2. Len(q) = 0
  <2> SUFFICES ASSUME Len(q) # 0 PROVE FALSE
    OBVIOUS
  <2> HIDE DEF q
  <2>1. 1 \in 1 .. Len(q)
    BY <1>1, LenProperties DEF q
  <2>2. q[1] \in S \cap (1 .. 0)
    BY <1>1, <2>1, ElementOfSeq DEF q
  <2> QED BY <1>1, <2>2
<1> QED BY <1>1, <1>2, EmptySeq

LEMMA OrderedLast ==
  ASSUME NEW S, NEW n \in Nat
  PROVE  Ordered(S, n + 1) = Ordered(S, n) \o (IF n + 1 \in S THEN <<n + 1>> ELSE << >>)
<1> DEFINE s == [i \in 1 .. n + 1 |-> IF i \in S THEN <<i>> ELSE << >>]
<1>1. s \in [1 .. n + 1 -> Seq(Int)]
  OBVIOUS
<1>2. [i \in 1 .. n |-> s[i]] = [i \in 1 .. n |-> IF i \in S THEN <<i>> ELSE << >>]
  OBVIOUS
<1>3. s[n + 1] = IF n + 1 \in S THEN <<n + 1>> ELSE << >>
  OBVIOUS
<1>4. FlattenSeq(s) = FlattenSeq([i \in 1 .. n |-> s[i]]) \o s[n + 1]
  <2> HIDE DEF s
  <2> QED BY <1>1, FlattenLast
<1>5. Ordered(S, n + 1) = FlattenSeq(s)
  BY DEF Ordered
<1>6. Ordered(S, n) = FlattenSeq([i \in 1 .. n |-> s[i]])
  BY <1>2 DEF Ordered
<1> HIDE DEF s
<1> QED BY <1>3, <1>4, <1>5, <1>6

\* What is picked from a sequence is what it has at the positions, in order.
LEMMA PickedIs ==
  ASSUME NEW T, NEW s \in Seq(T), NEW at
  PROVE  /\ Picked(s, at) \in Seq(T)
         /\ Len(Picked(s, at)) = Len(Ordered(at, Len(s)))
         /\ \A k \in DOMAIN Ordered(at, Len(s)) :
              /\ Ordered(at, Len(s))[k] \in DOMAIN s
              /\ Picked(s, at)[k] = s[Ordered(at, Len(s))[k]]
<1> DEFINE N == Len(s)
           b == [i \in 1 .. N |-> IF i \in at THEN <<s[i]>> ELSE << >>]
           P(n) == FlattenSeq([i \in 1 .. n |-> b[i]])
           O(n) == Ordered(at, n)
           Good(n) == /\ P(n) \in Seq(T) /\ Len(P(n)) = Len(O(n))
                      /\ \A k \in 1 .. Len(O(n)) : P(n)[k] = s[O(n)[k]]
           S == {n \in 0 .. N : Good(n)}
<1>1. N \in Nat /\ DOMAIN s = 1 .. N /\ \A i \in 1 .. N : s[i] \in T
  BY LenProperties, ElementOfSeq
<1>2. b \in [1 .. N -> Seq(T)]
  BY <1>1
<1>3. Good(0)
  <2>1. O(0) = << >>
    BY OrderedEmpty
  <2>2. P(0) = << >>
    <3>1. [i \in 1 .. 0 |-> b[i]] = << >>
      OBVIOUS
    <3> HIDE DEF b
    <3> QED BY <3>1, FlattenEmpty
  <2>3. << >> \in Seq(T) /\ Len(<< >>) = 0
    BY EmptySeq
  <2> HIDE DEF O, P
  <2>4. 1 .. Len(O(0)) = {}
    BY <2>1, <2>3
  <2>5. P(0) \in Seq(T) /\ Len(P(0)) = Len(O(0))
    BY <2>1, <2>2, <2>3
  <2> QED BY <2>4, <2>5
<1>4. ASSUME NEW n \in 1 .. N, Good(n - 1)
      PROVE  Good(n)
  <2> DEFINE m == n - 1
             c == [i \in 1 .. m + 1 |-> b[i]]
  <2>1. m \in Nat /\ m + 1 = n
    BY <1>1
  <2>2. c \in [1 .. m + 1 -> Seq(T)]
    <3> HIDE DEF b
    <3> QED BY <1>1, <1>2, <2>1
  <2>3. FlattenSeq(c) = FlattenSeq([i \in 1 .. m |-> c[i]]) \o c[m + 1]
    <3> HIDE DEF c, m
    <3> QED BY <2>1, <2>2, FlattenLast
  <2>4. [i \in 1 .. m |-> c[i]] = [i \in 1 .. m |-> b[i]] /\ c[m + 1] = b[n]
    <3> HIDE DEF b
    <3> QED BY <2>1
  <2>5. P(n) = P(m) \o b[n]
    <3> HIDE DEF b
    <3> QED BY <2>1, <2>3, <2>4
  <2>6. O(n) = O(m) \o (IF n \in at THEN <<n>> ELSE << >>)
    BY <2>1, OrderedLast
  <2>7. b[n] = IF n \in at THEN <<s[n]>> ELSE << >>
    BY <1>1
  <2>8. O(m) \in Seq(Int) /\ \A k \in 1 .. Len(O(m)) : O(m)[k] \in Int
    BY <2>1, OrderedIs, ElementOfSeq
  <2>9. Good(m)
    BY <1>4
  <2> HIDE DEF O, P, b
  <2>10. CASE n \in at
    <3>1. O(n) = Append(O(m), n)
      BY <2>6, <2>8, <2>10, AppendIsConcat
    <3>2. P(n) = Append(P(m), s[n])
      BY <1>1, <2>5, <2>7, <2>9, <2>10, AppendIsConcat
    <3>3. s[n] \in T /\ n \in Int
      BY <1>1
    <3>4. /\ Len(O(n)) = Len(O(m)) + 1 /\ O(n)[Len(O(m)) + 1] = n
          /\ \A k \in 1 .. Len(O(m)) : O(n)[k] = O(m)[k]
      BY <2>8, <3>1, <3>3, AppendProperties
    <3>5. /\ P(n) \in Seq(T)
          /\ Len(P(n)) = Len(P(m)) + 1 /\ P(n)[Len(P(m)) + 1] = s[n]
          /\ \A k \in 1 .. Len(P(m)) : P(n)[k] = P(m)[k]
      BY <2>9, <3>2, <3>3, AppendProperties
    <3>6. Len(O(m)) \in Nat /\ Len(P(m)) = Len(O(m))
      BY <2>8, <2>9, LenProperties
    <3>7. ASSUME NEW k \in 1 .. Len(O(n))
          PROVE  P(n)[k] = s[O(n)[k]]
      <4>1. CASE k = Len(O(m)) + 1
        BY <3>4, <3>5, <3>6, <4>1
      <4>2. CASE k # Len(O(m)) + 1
        <5>1. k \in 1 .. Len(O(m))
          BY <3>4, <3>6, <4>2
        <5> QED BY <2>9, <3>4, <3>5, <3>6, <5>1
      <4> QED BY <4>1, <4>2
    <3> QED BY <3>4, <3>5, <3>6, <3>7
  <2>11. CASE n \notin at
    <3>1. O(n) = O(m)
      BY <2>6, <2>8, <2>11, ConcatEmptySeq
    <3>2. P(n) = P(m)
      BY <2>5, <2>7, <2>9, <2>11, ConcatEmptySeq
    <3> QED BY <2>9, <3>1, <3>2
  <2> QED BY <2>10, <2>11
<1>5. Good(N)
  <2> HIDE DEF Good
  <2>1. 0 \in S /\ \A k \in 1 .. N : k - 1 \in S => k \in S
    BY <1>1, <1>3, <1>4
  <2>2. \A k \in 0 .. N : k \in S
    <3> HIDE DEF S, N
    <3> QED BY <1>1, <2>1, EveryUpTo
  <2> QED BY <1>1, <2>2
<1>6. Picked(s, at) = P(N)
  <2>1. [i \in 1 .. N |-> b[i]] = [i \in DOMAIN s |-> IF i \in at THEN <<s[i]>> ELSE << >>]
    BY <1>1
  <2> QED BY <2>1 DEF Picked
<1>7. /\ O(N) \in Seq(at \cap (1 .. N))
      /\ DOMAIN O(N) = 1 .. Len(O(N))
      /\ \A k \in 1 .. Len(O(N)) : O(N)[k] \in 1 .. N
  <2>1. O(N) \in Seq(at \cap (1 .. N))
    BY <1>1, OrderedIs
  <2> HIDE DEF O, N
  <2> QED BY <2>1, LenProperties, ElementOfSeq
<1> HIDE DEF b
<1> QED BY <1>1, <1>5, <1>6, <1>7

-----------------------------------------------------------------------------
(* The tree of a page.                                                    *)

\* The open elements were created in the order in which they are nested.
OpenInOrder ==
  \A i, j \in DOMAIN open : i < j => open[i] < open[j]

\* Whatever was created since an open element was created is inside it.
OpenSpans ==
  \A i \in DOMAIN open : \A k \in DOMAIN nodes :
    open[i] < k => open[i] <= nodes[k].parent

\* The part of the invariant that is about the tree and its open elements.
TreeShape ==
  /\ OpenIsAPath
  /\ OpenInOrder
  /\ OpenSpans
  /\ NumberedInDocumentOrder
  /\ NothingImpliedStaysOpen

TreeInv == TypeOK /\ TreeShape

-----------------------------------------------------------------------------
(* The search of the open elements.                                        *)

\* A set of positions has a last one.
LEMMA LastExists ==
  ASSUME NEW n \in Nat, NEW S \in SUBSET (1 .. n), S # {}
  PROVE  \E m \in S : \A j \in S : j <= m
<1> DEFINE T == {k \in Nat : n - k \in S}
           R == OpToRel(<, Nat)
<1>1. T \subseteq Nat /\ T # {}
  <2>1. PICK s \in S : TRUE
    OBVIOUS
  <2>2. n - s \in T
    BY <2>1
  <2> QED BY <2>2
<1>2. PICK k \in T : \A l \in T : ~ (<<l, k>> \in R)
  <2> HIDE DEF T, R
  <2>1. IsWellFoundedOn(R, Nat)
    BY NatLessThanWellFounded DEF R
  <2> QED BY <1>1, <2>1, WFMin
<1>3. \A l \in T : ~ (l < k)
  BY <1>2 DEF OpToRel
<1>4. \A j \in S : j <= n - k
  <2> TAKE j \in S
  <2>1. n - j \in T
    OBVIOUS
  <2> QED BY <2>1, <1>3
<1> QED BY <1>4

LEMMA OpenType ==
  ASSUME TypeOK
  PROVE  /\ Len(open) \in Nat
         /\ DOMAIN open = 1 .. Len(open)
         /\ Len(nodes) \in Nat
         /\ DOMAIN nodes = 1 .. Len(nodes)
         /\ \A i \in 1 .. Len(open) : open[i] \in 1 .. Len(nodes)
         /\ \A k \in 1 .. Len(nodes) : nodes[k] \in Node
<1>1. open \in Seq(DOMAIN nodes) /\ nodes \in Seq(Node)
  BY DEF TypeOK
<1> QED BY <1>1, LenProperties, ElementOfSeq

\* Innermost finds the last open element of one of the names, if there is one.
LEMMA InnermostFinds ==
  ASSUME TypeOK, NEW tags
  PROVE  \/ /\ Innermost(tags) = 0
            /\ \A i \in 1 .. Len(open) : OpenTag(i) \notin tags
         \/ /\ Innermost(tags) \in 1 .. Len(open)
            /\ OpenTag(Innermost(tags)) \in tags
            /\ \A i \in 1 .. Len(open) : OpenTag(i) \in tags => i <= Innermost(tags)
<1> DEFINE found == {i \in DOMAIN open : OpenTag(i) \in tags}
<1>1. Len(open) \in Nat /\ DOMAIN open = 1 .. Len(open)
  BY OpenType
<1>2. CASE found = {}
  BY <1>1, <1>2 DEF Innermost
<1>3. CASE found # {}
  <2>1. \E m \in found : \A j \in found : j <= m
    <3> HIDE DEF found
    <3>1. found \in SUBSET (1 .. Len(open))
      BY <1>1 DEF found
    <3> QED BY <1>1, <1>3, <3>1, LastExists
  <2>2. Innermost(tags) = CHOOSE m \in found : \A j \in found : j <= m
    BY <1>3 DEF Innermost
  <2>3. Innermost(tags) \in found /\ \A j \in found : j <= Innermost(tags)
    <3> HIDE DEF found
    <3> QED BY <2>1, <2>2
  <2> QED BY <2>3, <1>1
<1> QED BY <1>2, <1>3

\* What is left of the open elements when some are closed: the first m of them.
FirstOpen(stack, m) ==
  /\ m \in 0 .. Len(open)
  /\ stack \in Seq(1 .. Len(nodes))
  /\ Len(stack) = m
  /\ \A i \in 1 .. m : stack[i] = open[i]

LEMMA OpenIsPrefix ==
  ASSUME TypeOK
  PROVE  FirstOpen(open, Len(open))
<1> QED BY OpenType DEF FirstOpen, TypeOK

LEMMA CloseFromIsPrefix ==
  ASSUME TypeOK, NEW i \in 1 .. Len(open)
  PROVE  FirstOpen(CloseFrom(i), i - 1)
<1>1. i \in Int /\ i - 1 \in Int /\ Len(open) \in Nat
  BY OpenType
<1>2. \A j \in 1 .. i - 1 : open[j] \in 1 .. Len(nodes)
  BY <1>1, OpenType
<1>3. /\ CloseFrom(i) \in Seq(1 .. Len(nodes))
      /\ Len(CloseFrom(i)) = IF 1 <= i - 1 THEN i - 1 - 1 + 1 ELSE 0
      /\ \A j \in 1 .. i - 1 - 1 + 1 : CloseFrom(i)[j] = open[1 + j - 1]
  BY <1>1, <1>2, SubSeqProperties DEF CloseFrom
<1> QED BY <1>1, <1>3 DEF FirstOpen

LEMMA EndTagIsPrefix ==
  ASSUME TypeOK, NEW tag, Innermost({tag}) # 0
  PROVE  \E m \in 0 .. Len(open) : FirstOpen(CloseFrom(Innermost({tag})), m)
<1>1. Innermost({tag}) \in 1 .. Len(open)
  BY InnermostFinds
<1>2. Innermost({tag}) - 1 \in 0 .. Len(open)
  BY <1>1, OpenType
<1> QED BY <1>1, <1>2, CloseFromIsPrefix

\* The elements a start tag ends would themselves end the same ones, within the
\* same scopes.
LEMMA ImpliedRows ==
  ASSUME NEW t, NEW c \in Implied(t).closes
  PROVE  Implied(c) = Implied(t)
<1>1. CASE t \in DOMAIN ImpliedEnd
  <2>1. t \in {"li", "dt", "dd", "td", "th", "tr", "option"}
    BY <1>1 DEF ImpliedEnd
  <2>2. /\ Implied("li") = Row({"li"}, {"ul", "ol", "menu", "table", "td", "th"})
        /\ Implied("dt") = Term /\ Implied("dd") = Term
        /\ Implied("td") = Cell /\ Implied("th") = Cell
        /\ Implied("tr") = Row({"tr"}, {"table", "thead", "tbody", "tfoot"})
        /\ Implied("option") = Row({"option"}, {"select", "datalist", "optgroup"})
    BY DEF Implied, ImpliedEnd
  <2> QED BY <2>1, <2>2 DEF Row, Cell, Term
<1>2. CASE t \notin DOMAIN ImpliedEnd /\ t \in ClosesP
  <2>1. Implied(t) = Row({"p"}, BlockScope)
    BY <1>2 DEF Implied
  <2>2. c = "p"
    BY <2>1 DEF Row
  <2>3. "p" \notin DOMAIN ImpliedEnd /\ "p" \in ClosesP
    BY DEF ImpliedEnd, ClosesP
  <2> QED BY <2>1, <2>2, <2>3 DEF Implied
<1>3. CASE t \notin DOMAIN ImpliedEnd /\ t \notin ClosesP
  BY <1>3 DEF Implied, Row
<1> QED BY <1>1, <1>2, <1>3

\* A start tag leaves a prefix of the open elements, in which everything it ends
\* is behind a boundary.
LEMMA CloseImpliedLeaves ==
  ASSUME TypeOK, NothingImpliedStaysOpen, NEW t
  PROVE  \E m \in 0 .. Len(open) :
           /\ FirstOpen(CloseImplied(t), m)
           /\ \A i \in 1 .. m : OpenTag(i) \in Implied(t).closes =>
                \E b \in i + 1 .. m : OpenTag(b) \in Implied(t).boundary
<1> DEFINE closes == Implied(t).closes
           boundary == Implied(t).boundary
           last == Innermost(closes \cup boundary)
<1> HIDE DEF closes, boundary, last
<1>1. Len(open) \in Nat /\ DOMAIN open = 1 .. Len(open)
  BY OpenType
<1>2. CloseImplied(t) =
        IF last # 0 /\ OpenTag(last) \in closes THEN CloseFrom(last) ELSE open
  BY DEF CloseImplied, closes, boundary, last
<1>3. \/ last = 0 /\ \A i \in 1 .. Len(open) : OpenTag(i) \notin closes \cup boundary
      \/ /\ last \in 1 .. Len(open)
         /\ OpenTag(last) \in closes \cup boundary
         /\ \A i \in 1 .. Len(open) : OpenTag(i) \in closes \cup boundary => i <= last
  BY InnermostFinds DEF last
<1>4. CASE last \in 1 .. Len(open) /\ OpenTag(last) \in closes
  <2>1. FirstOpen(CloseImplied(t), last - 1)
    BY <1>1, <1>2, <1>4, CloseFromIsPrefix
  <2>2. Implied(OpenTag(last)).closes = closes /\ Implied(OpenTag(last)).boundary = boundary
    BY <1>4, ImpliedRows DEF closes, boundary
  <2>3. ASSUME NEW i \in 1 .. last - 1, OpenTag(i) \in closes
        PROVE  \E b \in i + 1 .. last - 1 : OpenTag(b) \in boundary
    <3>1. i \in DOMAIN open /\ last \in DOMAIN open /\ i < last
      BY <1>1, <1>4
    <3> QED BY <2>2, <2>3, <3>1 DEF NothingImpliedStaysOpen
  <2>4. last - 1 \in 0 .. Len(open)
    BY <1>1, <1>4
  <2> QED BY <2>1, <2>3, <2>4 DEF closes, boundary
<1>5. CASE ~ (last \in 1 .. Len(open) /\ OpenTag(last) \in closes)
  <2>1. FirstOpen(CloseImplied(t), Len(open))
    BY <1>2, <1>3, <1>5, OpenIsPrefix
  <2>2. ASSUME NEW i \in 1 .. Len(open), OpenTag(i) \in closes
        PROVE  \E b \in i + 1 .. Len(open) : OpenTag(b) \in boundary
    <3>1. last \in 1 .. Len(open) /\ OpenTag(last) \in boundary /\ i <= last
      BY <1>3, <1>5, <2>2
    <3>2. i # last
      BY <1>5, <2>2, <3>1
    <3>3. last \in i + 1 .. Len(open)
      BY <1>1, <3>1, <3>2
    <3> QED BY <3>1, <3>3
  <2>3. Len(open) \in 0 .. Len(open)
    BY <1>1
  <2> QED BY <2>1, <2>2, <2>3 DEF closes, boundary
<1> QED BY <1>4, <1>5

-----------------------------------------------------------------------------
(* Steps.                                                                  *)

\* Closing elements, or none, keeps the shape of the tree.
LEMMA ClosingKeepsShape ==
  ASSUME TypeOK, TreeShape, NEW m, FirstOpen(open', m), UNCHANGED nodes
  PROVE  TreeShape'
<1>1. /\ Len(open) \in Nat
      /\ DOMAIN open = 1 .. Len(open)
  BY OpenType
<1>2. /\ m \in 0 .. Len(open)
      /\ DOMAIN open' = 1 .. m
      /\ \A i \in 1 .. m : i \in DOMAIN open /\ open'[i] = open[i]
  <2>1. DOMAIN open' = 1 .. Len(open')
    BY LenProperties DEF FirstOpen
  <2> QED BY <1>1, <2>1 DEF FirstOpen
<1>3. OpenInOrder' /\ OpenIsAPath'
  BY <1>2 DEF TreeShape, OpenInOrder, OpenIsAPath
<1>4. OpenSpans'
  BY <1>2 DEF TreeShape, OpenSpans
<1>5. NumberedInDocumentOrder'
  BY DEF TreeShape, NumberedInDocumentOrder
<1>6. NothingImpliedStaysOpen'
  <2>1. \A i \in 1 .. m : OpenTag(i)' = OpenTag(i)
    BY <1>2 DEF OpenTag
  <2> SUFFICES ASSUME NEW i \in 1 .. m, NEW j \in 1 .. m, i < j,
                      OpenTag(i) \in Implied(OpenTag(j)).closes
               PROVE  \E b \in i + 1 .. j - 1 : OpenTag(b)' \in Implied(OpenTag(j)).boundary
    BY <1>2, <2>1 DEF NothingImpliedStaysOpen
  <2>2. PICK b \in i + 1 .. j - 1 : OpenTag(b) \in Implied(OpenTag(j)).boundary
    BY <1>2 DEF TreeShape, NothingImpliedStaysOpen
  <2>3. b \in 1 .. m
    BY <1>1, <1>2
  <2> QED BY <2>1, <2>2, <2>3
<1> QED BY <1>3, <1>4, <1>5, <1>6 DEF TreeShape

\* A start tag adds an element to the innermost of the first m open ones, and at most
\* this one is open behind them.
Grows(tag, attrs, m, n) ==
  /\ m \in 0 .. Len(open) /\ n \in {m, m + 1}
  /\ \A i \in 1 .. m : OpenTag(i) \in Implied(tag).closes =>
       \E b \in i + 1 .. m : OpenTag(b) \in Implied(tag).boundary
  /\ nodes' \in Seq(Node)
  /\ Len(nodes') = Len(nodes) + 1
  /\ DOMAIN nodes' = 1 .. Len(nodes) + 1
  /\ nodes' = Append(nodes, nodes'[Len(nodes) + 1])
  /\ \A k \in 1 .. Len(nodes) : nodes'[k] = nodes[k]
  /\ nodes'[Len(nodes) + 1].tag = tag
  /\ nodes'[Len(nodes) + 1].parent = (IF m = 0 THEN 0 ELSE open[m])
  /\ open' \in Seq(1 .. Len(nodes) + 1)
  /\ DOMAIN open' = 1 .. n
  /\ \A i \in 1 .. m : open'[i] = open[i]
  /\ n = m + 1 => open'[m + 1] = Len(nodes) + 1

LEMMA StartElementGrows ==
  ASSUME TypeOK, TreeShape, NEW tag \in Tag \ SkippedSubtrees, NEW attrs \in Attrs,
         StartElement(tag, attrs)
  PROVE  \E m, n \in Nat : Grows(tag, attrs, m, n)
<1> DEFINE stack == CloseImplied(tag)
           new   == [tag |-> tag, attrs |-> attrs, parent |-> Current(stack)]
           N     == Len(nodes)
<1>1. /\ Len(open) \in Nat
      /\ N \in Nat
      /\ DOMAIN open = 1 .. Len(open)
      /\ DOMAIN nodes = 1 .. N
      /\ \A i \in 1 .. Len(open) : open[i] \in 1 .. N
      /\ \A k \in 1 .. N : nodes[k] \in Node
      /\ nodes \in Seq(Node)
  BY OpenType DEF TypeOK
<1>2. PICK m \in 0 .. Len(open) :
        /\ FirstOpen(stack, m)
        /\ \A i \in 1 .. m : OpenTag(i) \in Implied(tag).closes =>
             \E b \in i + 1 .. m : OpenTag(b) \in Implied(tag).boundary
  BY CloseImpliedLeaves DEF TreeShape
<1>3. /\ nodes' = Append(nodes, new)
      /\ open' = stack \/ open' = Append(stack, N + 1)
  BY DEF StartElement
<1> HIDE DEF stack
<1>4. /\ stack \in Seq(1 .. N)
      /\ Len(stack) = m
      /\ \A i \in 1 .. m : stack[i] = open[i] /\ open[i] \in 1 .. N
      /\ DOMAIN stack = 1 .. m
  BY <1>1, <1>2, LenProperties DEF FirstOpen
<1>5. Current(stack) = (IF m = 0 THEN 0 ELSE open[m]) /\ Current(stack) \in 0 .. N
  <2>1. CASE m = 0
    <3>1. stack = << >>
      BY <1>4, <2>1, EmptySeq
    <3> QED BY <1>1, <2>1, <3>1 DEF Current, Document
  <2>2. CASE m # 0
    <3>1. stack # << >> /\ m \in 1 .. m
      BY <1>4, <2>2
    <3> QED BY <1>1, <1>4, <2>2, <3>1 DEF Current
  <2> QED BY <2>1, <2>2
<1>6. new \in Node
  BY <1>1, <1>5 DEF Node
<1> HIDE DEF new
<1>7. /\ nodes' \in Seq(Node)
      /\ Len(nodes') = N + 1
      /\ DOMAIN nodes' = 1 .. N + 1
      /\ \A k \in 1 .. N : nodes'[k] = nodes[k]
      /\ nodes'[N + 1] = new
  BY <1>1, <1>3, <1>6
<1>8. new.tag = tag /\ new.parent = (IF m = 0 THEN 0 ELSE open[m])
  BY <1>5 DEF new
<1>9. ASSUME open' = stack
      PROVE  Grows(tag, attrs, m, m)
  <2>1. open' \in Seq(1 .. N + 1)
    BY <1>1, <1>4, <1>9
  <2> QED BY <1>1, <1>2, <1>3, <1>4, <1>7, <1>8, <1>9, <2>1 DEF Grows
<1>10. ASSUME open' = Append(stack, N + 1)
       PROVE  Grows(tag, attrs, m, m + 1)
  <2>1. stack \in Seq(1 .. N + 1)
    BY <1>1, <1>4
  <2>2. /\ open' \in Seq(1 .. N + 1)
        /\ DOMAIN open' = 1 .. m + 1
        /\ \A i \in 1 .. m : open'[i] = open[i]
        /\ open'[m + 1] = N + 1
    BY <1>1, <1>2, <1>4, <1>10, <2>1
  <2> QED BY <1>1, <1>2, <1>3, <1>7, <1>8, <2>2 DEF Grows
<1> QED BY <1>1, <1>3, <1>9, <1>10

LEMMA StartElementKeepsShape ==
  ASSUME TypeOK, TreeShape, NEW tag \in Tag \ SkippedSubtrees, NEW attrs \in Attrs,
         StartElement(tag, attrs)
  PROVE  /\ nodes' \in Seq(Node)
         /\ open' \in Seq(DOMAIN nodes')
         /\ TreeShape'
<1> DEFINE N == Len(nodes)
<1>1. /\ Len(open) \in Nat
      /\ N \in Nat
      /\ DOMAIN open = 1 .. Len(open)
      /\ DOMAIN nodes = 1 .. N
      /\ \A i \in 1 .. Len(open) : open[i] \in 1 .. N
      /\ \A k \in 1 .. N : nodes[k] \in Node
      /\ nodes \in Seq(Node)
  BY OpenType DEF TypeOK
<1>2. PICK m \in Nat, n \in Nat : Grows(tag, attrs, m, n)
  BY StartElementGrows
<1>3. m \in 0 .. Len(open) /\ n \in {m, m + 1}
  BY <1>2 DEF Grows
<1>4. \A i \in 1 .. m : open[i] \in 1 .. N
  BY <1>1, <1>3
<1>7. /\ nodes' \in Seq(Node)
      /\ DOMAIN nodes' = 1 .. N + 1
      /\ \A k \in 1 .. N : nodes'[k] = nodes[k]
  BY <1>2 DEF Grows
<1>8. /\ nodes'[N + 1].tag = tag
      /\ nodes'[N + 1].parent = (IF m = 0 THEN 0 ELSE open[m])
  BY <1>2 DEF Grows
<1>9. \A i \in 1 .. m : OpenTag(i) \in Implied(tag).closes =>
        \E b \in i + 1 .. m : OpenTag(b) \in Implied(tag).boundary
  BY <1>2 DEF Grows
<1>10. /\ open' \in Seq(1 .. N + 1)
       /\ DOMAIN open' = 1 .. n
       /\ \A i \in 1 .. m : open'[i] = open[i]
       /\ n = m + 1 => open'[m + 1] = N + 1
  BY <1>2 DEF Grows
<1> HIDE DEF N
<1>11. \A i \in 1 .. n : i \in 1 .. m \/ (i = m + 1 /\ n = m + 1)
  BY <1>1, <1>3, <1>10
<1>12. \A i \in 1 .. m : i \in DOMAIN open
  BY <1>1, <1>3
<1>13. OpenInOrder'
  <2> SUFFICES ASSUME NEW i \in 1 .. n, NEW j \in 1 .. n, i < j
               PROVE  open'[i] < open'[j]
    BY <1>10 DEF OpenInOrder
  <2>1. i \in 1 .. m
    BY <1>1, <1>11
  <2>2. CASE j \in 1 .. m
    BY <1>10, <1>12, <2>1, <2>2 DEF TreeShape, OpenInOrder
  <2>3. CASE j = m + 1 /\ n = m + 1
    BY <1>1, <1>4, <1>10, <2>1, <2>3
  <2> QED BY <1>11, <2>2, <2>3
<1>14. OpenSpans'
  <2> SUFFICES ASSUME NEW i \in 1 .. n, NEW k \in 1 .. N + 1, open'[i] < k
               PROVE  open'[i] <= nodes'[k].parent
    BY <1>7, <1>10 DEF OpenSpans
  <2>1. i \in 1 .. m
    BY <1>1, <1>3, <1>10, <1>11
  <2>2. CASE k \in 1 .. N
    BY <1>1, <1>7, <1>10, <1>12, <2>1, <2>2 DEF TreeShape, OpenSpans
  <2>3. CASE k = N + 1
    <3>1. m \in 1 .. m /\ (i = m \/ i < m)
      BY <2>1
    <3>2. open[i] <= open[m]
      BY <1>4, <1>12, <2>1, <3>1 DEF TreeShape, OpenInOrder
    <3> QED BY <1>7, <1>8, <1>10, <2>1, <2>3, <3>1, <3>2
  <2> QED BY <1>1, <2>2, <2>3
<1>15. NumberedInDocumentOrder'
  <2>1. ASSUME NEW k \in 1 .. N + 1
        PROVE  nodes'[k].parent < k
    <3>1. CASE k \in 1 .. N
      BY <1>1, <1>7, <3>1 DEF TreeShape, NumberedInDocumentOrder
    <3>2. CASE k = N + 1
      BY <1>1, <1>4, <1>7, <1>8, <3>2
    <3> QED BY <1>1, <3>1, <3>2
  <2>2. ASSUME NEW k \in 1 .. N + 1, NEW j \in 1 .. N + 1, nodes'[k].parent < j, j < k
        PROVE  nodes'[j].parent >= nodes'[k].parent
    <3>1. j \in 1 .. N /\ nodes'[j] = nodes[j] /\ nodes[j].parent \in Nat
      <4>1. j \in 1 .. N
        BY <1>1, <2>2
      <4> QED BY <1>1, <1>7, <4>1 DEF Node
    <3>2. CASE k \in 1 .. N
      BY <1>1, <1>7, <2>2, <3>1, <3>2 DEF TreeShape, NumberedInDocumentOrder
    <3>3. CASE k = N + 1 /\ m = 0
      BY <1>7, <1>8, <3>1, <3>3
    <3>4. CASE k = N + 1 /\ m # 0
      <4>1. nodes'[k].parent = open[m] /\ open[m] < j /\ m \in DOMAIN open
        BY <1>7, <1>8, <1>12, <2>2, <3>4
      <4>2. open[m] <= nodes[j].parent
        BY <1>1, <3>1, <4>1 DEF TreeShape, OpenSpans
      <4> QED BY <1>4, <3>1, <3>4, <4>1, <4>2
    <3> QED BY <1>1, <3>2, <3>3, <3>4
  <2> QED BY <1>7, <2>1, <2>2 DEF NumberedInDocumentOrder
<1>16. NothingImpliedStaysOpen'
  <2>1. \A i \in 1 .. m : OpenTag(i)' = OpenTag(i)
    BY <1>4, <1>7, <1>10 DEF OpenTag
  <2>2. n = m + 1 => OpenTag(m + 1)' = tag
    BY <1>7, <1>8, <1>10 DEF OpenTag
  <2> SUFFICES ASSUME NEW i \in 1 .. n, NEW j \in 1 .. n, i < j,
                      OpenTag(i)' \in Implied(OpenTag(j)').closes
               PROVE  \E b \in i + 1 .. j - 1 : OpenTag(b)' \in Implied(OpenTag(j)').boundary
    BY <1>10 DEF NothingImpliedStaysOpen
  <2>3. i \in 1 .. m
    BY <1>1, <1>11
  <2>4. CASE j \in 1 .. m
    <3>1. PICK b \in i + 1 .. j - 1 : OpenTag(b) \in Implied(OpenTag(j)).boundary
      BY <1>12, <2>1, <2>3, <2>4 DEF TreeShape, NothingImpliedStaysOpen
    <3>2. b \in 1 .. m
      BY <1>1, <2>3, <2>4
    <3> QED BY <2>1, <2>4, <3>1, <3>2
  <2>5. CASE j = m + 1 /\ n = m + 1
    <3>1. PICK b \in i + 1 .. m : OpenTag(b) \in Implied(tag).boundary
      BY <1>9, <2>1, <2>2, <2>3, <2>5
    <3>2. b \in 1 .. m /\ b \in i + 1 .. j - 1
      BY <1>1, <2>3, <2>5
    <3> QED BY <2>1, <2>2, <2>5, <3>1, <3>2
  <2> QED BY <1>11, <2>4, <2>5
<1>17. OpenIsAPath'
  <2> SUFFICES ASSUME NEW i \in 1 .. n
               PROVE  nodes'[open'[i]].parent = (IF i = 1 THEN Document ELSE open'[i - 1])
    BY <1>10 DEF OpenIsAPath
  <2>1. CASE i \in 1 .. m
    <3>1. nodes'[open'[i]] = nodes[open[i]]
      BY <1>4, <1>7, <1>10, <2>1
    <3>2. i # 1 => open'[i - 1] = open[i - 1]
      BY <1>10, <2>1
    <3> QED BY <1>12, <2>1, <3>1, <3>2 DEF TreeShape, OpenIsAPath
  <2>2. CASE i = m + 1 /\ n = m + 1
    <3>1. nodes'[open'[i]].parent = (IF m = 0 THEN 0 ELSE open[m])
      BY <1>7, <1>8, <1>10, <2>2
    <3>2. m # 0 => open'[m] = open[m]
      BY <1>10
    <3> QED BY <2>2, <3>1, <3>2 DEF Document
  <2> QED BY <1>11, <2>1, <2>2
<1>18. open' \in Seq(DOMAIN nodes')
  BY <1>7, <1>10
<1> QED BY <1>7, <1>13, <1>14, <1>15, <1>16, <1>17, <1>18 DEF TreeShape

LEMMA EndElementKeepsShape ==
  ASSUME TypeOK, TreeShape, NEW tag, EndElement(tag)
  PROVE  open' \in Seq(DOMAIN nodes) /\ TreeShape'
<1>1. \E m : FirstOpen(open', m)
  BY EndTagIsPrefix, OpenIsPrefix DEF EndElement
<1>2. open' \in Seq(DOMAIN nodes)
  BY <1>1, OpenType DEF FirstOpen
<1> QED BY <1>1, <1>2, ClosingKeepsShape DEF EndElement

LEMMA SameTreeKeepsShape ==
  ASSUME TypeOK, TreeShape, UNCHANGED <<nodes, open>>
  PROVE  TreeShape'
<1> QED BY OpenIsPrefix, ClosingKeepsShape

\* The feeding of a page.
LEMMA FeedType ==
  ASSUME TypeOK, Feed
  PROVE  page' \in Pages /\ fed' \in 0 .. page'.length
<1>1. page \in Pages /\ page.length \in Nat
  BY TreeAssumption DEF TypeOK
<1> QED BY <1>1 DEF TypeOK, Feed

LEMMA TextRunType ==
  ASSUME TypeOK, NEW data \in Data
  PROVE  TextRun(data) \in Run
<1>1. Current(open) \in Nat
  <2>1. CASE open = << >>
    BY <2>1 DEF Current, Document
  <2>2. CASE open # << >>
    <3>1. Len(open) \in 1 .. Len(open)
      BY <2>2, EmptySeq, OpenType DEF TypeOK
    <3> QED BY <2>2, <3>1, OpenType DEF Current
  <2> QED BY <2>1, <2>2
<1>2. Cardinality({k \in DOMAIN nodes : nodes[k].parent = Current(open)}) \in Nat
  <2>1. IsFiniteSet(DOMAIN nodes)
    BY OpenType, FS_Interval
  <2> QED BY <2>1, FS_Subset, FS_CardinalityType
<1> QED BY <1>1, <1>2 DEF TextRun, Run

LEMMA TreeInit ==
  ASSUME Init
  PROVE  TreeInv
<1>1. page.length \in Nat
  BY TreeAssumption DEF Init
<1>2. TypeOK
  BY <1>1, EmptySeq DEF Init, TypeOK
<1>3. TreeShape
  BY DEF Init, TreeShape, OpenIsAPath, OpenInOrder, OpenSpans, NumberedInDocumentOrder, NothingImpliedStaysOpen
<1> QED BY <1>2, <1>3 DEF TreeInv

LEMMA TreeStep ==
  ASSUME TreeInv, [Next]_vars
  PROVE  TreeInv'
<1> USE DEF TreeInv
<1>1. ASSUME Feed, NEW start \in page.starts, StartInSkipped(start[1])
      PROVE  TreeInv'
  <2>1. TreeShape'
    BY <1>1, SameTreeKeepsShape DEF StartInSkipped
  <2>2. TypeOK'
    BY <1>1, FeedType DEF StartInSkipped, TypeOK
  <2> QED BY <2>1, <2>2
<1>2. ASSUME Feed, NEW start \in page.starts, StartSkipping(start[1])
      PROVE  TreeInv'
  <2>1. TreeShape'
    BY <1>2, SameTreeKeepsShape DEF StartSkipping
  <2>2. TypeOK'
    BY <1>2, FeedType, TreeAssumption DEF StartSkipping, TypeOK
  <2> QED BY <2>1, <2>2
<1>3. ASSUME Feed, NEW start \in page.starts, StartElement(start[1], start[2])
      PROVE  TreeInv'
  <2>1. start[1] \in Tag /\ start[2] \in Attrs
    BY TreeAssumption DEF TypeOK
  <2>2. start[1] \in Tag \ SkippedSubtrees
    BY <1>3, <2>1 DEF StartElement
  <2>3. nodes' \in Seq(Node) /\ open' \in Seq(DOMAIN nodes') /\ TreeShape'
    BY <1>3, <2>1, <2>2, StartElementKeepsShape
  <2>4. UNCHANGED <<texts, skipped, depth>>
    BY <1>3 DEF StartElement
  <2>5. TypeOK'
    BY <1>3, <2>3, <2>4, FeedType DEF TypeOK
  <2> QED BY <2>3, <2>5
<1>4. ASSUME Feed, NEW tag, EndInSkipped(tag)
      PROVE  TreeInv'
  <2>1. TreeShape'
    BY <1>4, SameTreeKeepsShape DEF EndInSkipped
  <2>2. depth' \in Nat /\ skipped' \in SkippedSubtrees \cup {Nothing}
    BY <1>4 DEF EndInSkipped, TypeOK
  <2>3. (skipped' = Nothing) <=> (depth' = 0)
    BY <1>4 DEF EndInSkipped, TypeOK
  <2>4. TypeOK'
    BY <1>4, <2>2, <2>3, FeedType DEF EndInSkipped, TypeOK
  <2> QED BY <2>1, <2>4
<1>5. ASSUME Feed, NEW tag, EndElement(tag)
      PROVE  TreeInv'
  <2>1. open' \in Seq(DOMAIN nodes) /\ TreeShape'
    BY <1>5, EndElementKeepsShape
  <2>2. TypeOK'
    BY <1>5, <2>1, FeedType DEF EndElement, TypeOK
  <2> QED BY <2>1, <2>2
<1>6. ASSUME HandleData
      PROVE  TreeInv'
  <2>1. TreeShape'
    BY <1>6, SameTreeKeepsShape DEF HandleData
  <2>2. PICK data \in page.data :
          texts' = IF skipped = Nothing THEN Append(texts, TextRun(data)) ELSE texts
    BY <1>6 DEF HandleData
  <2>3. data \in Data
    BY <2>2, TreeAssumption DEF TypeOK
  <2>4. texts' \in Seq(Run)
    BY <2>2, <2>3, TextRunType DEF TypeOK
  <2>5. TypeOK'
    BY <1>6, <2>4, FeedType DEF HandleData, TypeOK
  <2> QED BY <2>1, <2>5
<1>7. CASE UNCHANGED vars
  <2>1. TreeShape'
    BY <1>7, SameTreeKeepsShape DEF vars
  <2>2. TypeOK'
    BY <1>7 DEF vars, TypeOK
  <2> QED BY <2>1, <2>2
<1> QED BY <1>1, <1>2, <1>3, <1>4, <1>5, <1>6, <1>7 DEF Next, HandleStartTag, HandleEndTag

-----------------------------------------------------------------------------
(* Theorems.                                                               *)

THEOREM TreeInvariance == Spec => []TreeInv
<1> QED BY TreeInit, TreeStep, PTL DEF Spec

\* For every alphabet of tags, attributes and text, and for pages of every length,
\* the builder's variables keep their types, and a subtree is being skipped exactly
\* while some of it is open (normalize.py:159-230).
THEOREM TreeType == Spec => []TypeOK
<1> QED BY TreeInvariance, PTL DEF TreeInv

\* No page, however its tags are nested or left open, leaves an element open around
\* one whose start tag ends it (normalize.py:168-186).
THEOREM ImpliedIsClosed == Spec => []NothingImpliedStaysOpen
<1>1. TreeInv => NothingImpliedStaysOpen
  BY DEF TreeInv, TreeShape
<1> QED BY <1>1, TreeInvariance, PTL

\* The open elements are one chain from the document down, so a text or an element
\* is put where the page has it (normalize.py:168-208).
THEOREM OneChain == Spec => []OpenIsAPath
<1>1. TreeInv => OpenIsAPath
  BY DEF TreeInv, TreeShape
<1> QED BY <1>1, TreeInvariance, PTL

\* Whatever is numbered between an element and a child of it is inside that element
\* too, so the numbers select() sorts by are the order of the page
\* (normalize.py:150-156, 205, 502).
THEOREM DocumentOrder == Spec => []NumberedInDocumentOrder
<1>1. TreeInv => NumberedInDocumentOrder
  BY DEF TreeInv, TreeShape
<1> QED BY <1>1, TreeInvariance, PTL

-----------------------------------------------------------------------------
(* A price in a convention.                                                *)

\* Where what is no digit stands before the point of a price of w places.
NotDigits(text, w) == {i \in 1 .. w : text[i] \notin Digit}

Marks(n) == {i \in 1 .. n : (n - i) % 4 = 0}

\* The first w characters are the whole part: plain, or in groups of three.
Whole(text, c, w) ==
  /\ w \in 1 .. Len(text)
  /\ text[1] \in Digit
  /\ \A i \in 1 .. w : text[i] \in Digit \/ text[i] = c.group
  /\ NotDigits(text, w) # {} => NotDigits(text, w) = {i \in 1 .. w : (w - i + 1) % 4 = 0}

Pointed(text, c, w) ==
  /\ w + 1 < Len(text)
  /\ text[w + 1] = c.point
  /\ \A i \in w + 2 .. Len(text) : text[i] \in Digit

LEMMA ConventionIs ==
  ASSUME NEW c \in Conventions
  PROVE  /\ c.point \in DecimalSeparators /\ c.group \in Separator
         /\ c.point # c.group /\ c.point \notin Digit /\ c.group \notin Digit
<1>1. \/ c.point = "." /\ c.group = ","
      \/ c.point = "." /\ c.group = " "
      \/ c.point = "," /\ c.group = "."
      \/ c.point = "," /\ c.group = " "
  <2>1. \/ c = [point |-> ".", group |-> ","] \/ c = [point |-> ".", group |-> " "]
        \/ c = [point |-> ",", group |-> "."] \/ c = [point |-> ",", group |-> " "]
    BY DEF Conventions
  <2>2. CASE c = [point |-> ".", group |-> ","]
    BY <2>2
  <2>3. CASE c = [point |-> ".", group |-> " "]
    BY <2>3
  <2>4. CASE c = [point |-> ",", group |-> "."]
    BY <2>4
  <2>5. CASE c = [point |-> ",", group |-> " "]
    BY <2>5
  <2> QED BY <2>1, <2>2, <2>3, <2>4, <2>5
<1>2. "." \notin Digit /\ "," \notin Digit /\ " " \notin Digit
  BY DEF Digit
<1>3. {".", ","} \subseteq DecimalSeparators /\ {".", ",", " "} \subseteq Separator
  BY DEF DecimalSeparators, Separator
<1>4. "." # "," /\ "." # " " /\ "," # " "
  OBVIOUS
<1> QED BY <1>1, <1>2, <1>3, <1>4

LEMMA SliceIs ==
  ASSUME NEW T, NEW s \in Seq(T), NEW a \in Nat \ {0}, NEW b \in 0 .. Len(s)
  PROVE  /\ SubSeq(s, a, b) \in Seq(T)
         /\ Len(SubSeq(s, a, b)) = (IF a <= b THEN b - a + 1 ELSE 0)
         /\ DOMAIN SubSeq(s, a, b) = 1 .. (IF a <= b THEN b - a + 1 ELSE 0)
         /\ \A i \in DOMAIN SubSeq(s, a, b) : SubSeq(s, a, b)[i] = s[a + i - 1]
<1>1. Len(s) \in Nat /\ DOMAIN s = 1 .. Len(s)
  BY LenProperties
<1>2. a \in Int /\ b \in Int
  BY <1>1
<1>3. \A i \in a .. b : s[i] \in T
  BY <1>1, ElementOfSeq
<1>4. /\ SubSeq(s, a, b) \in Seq(T)
      /\ Len(SubSeq(s, a, b)) = (IF a <= b THEN b - a + 1 ELSE 0)
      /\ \A i \in 1 .. b - a + 1 : SubSeq(s, a, b)[i] = s[a + i - 1]
  BY <1>2, <1>3, SubSeqProperties
<1>5. DOMAIN SubSeq(s, a, b) = 1 .. Len(SubSeq(s, a, b))
  BY <1>4, LenProperties
<1>6. \A i \in 1 .. (IF a <= b THEN b - a + 1 ELSE 0) : i \in 1 .. b - a + 1
  BY <1>2
<1> QED BY <1>4, <1>5, <1>6

LEMMA SliceAll ==
  ASSUME NEW T, NEW s \in Seq(T)
  PROVE  SubSeq(s, 1, Len(s)) = s
<1>1. Len(s) \in Nat /\ DOMAIN s = 1 .. Len(s) /\ Len(s) \in 0 .. Len(s)
  BY LenProperties
<1>2. /\ SubSeq(s, 1, Len(s)) \in Seq(T) /\ Len(SubSeq(s, 1, Len(s))) = Len(s)
      /\ \A i \in 1 .. Len(s) : SubSeq(s, 1, Len(s))[i] = s[i]
  BY <1>1, SliceIs
<1> QED BY <1>2, SeqEqual

LEMMA PriceIs ==
  ASSUME NEW T, NEW text \in Seq(T), NEW c \in Conventions, WrittenIn(text, c)
  PROVE  \E w \in 1 .. Len(text) :
           /\ Whole(text, c, w)
           /\ w = Len(text) \/ Pointed(text, c, w)
           /\ Reading(text, c) =
                Decimal(FALSE, Digits(SubSeq(text, 1, w)), SubSeq(text, w + 2, Len(text)))
<1> DEFINE L == Len(text)
           points == {i \in DOMAIN text : text[i] = c.point}
           wh(s)  == /\ s # << >> /\ s[1] \in Digit
                     /\ {i \in DOMAIN s : s[i] \notin Digit} # {} =>
                          {i \in DOMAIN s : s[i] \notin Digit}
                            = {i \in DOMAIN s : (Len(s) - i + 1) % 4 = 0}
                     /\ \A i \in {j \in DOMAIN s : s[j] \notin Digit} : s[i] = c.group
<1>1. L \in Nat /\ DOMAIN text = 1 .. L
  BY LenProperties
<1>2. Cardinality(points) <= 1
  BY DEF WrittenIn
<1>3. ASSUME NEW w \in 1 .. L, wh(SubSeq(text, 1, w))
      PROVE  Whole(text, c, w)
  <2> DEFINE s == SubSeq(text, 1, w)
  <2>1. /\ Len(s) = w /\ DOMAIN s = 1 .. w
        /\ \A i \in 1 .. w : s[i] = text[i]
    BY <1>1, SliceIs
  <2>2. wh(s)
    BY <1>3
  <2> HIDE DEF s
  <2>3. {i \in DOMAIN s : s[i] \notin Digit} = NotDigits(text, w)
    BY <2>1 DEF NotDigits
  <2>4. {i \in DOMAIN s : (Len(s) - i + 1) % 4 = 0} = {i \in 1 .. w : (w - i + 1) % 4 = 0}
    BY <2>1
  <2>5. \A i \in 1 .. w : text[i] \in Digit \/ text[i] = c.group
    BY <2>1, <2>2
  <2>6. text[1] \in Digit
    BY <2>1, <2>2
  <2> QED BY <1>1, <2>2, <2>3, <2>4, <2>5, <2>6 DEF Whole
<1>4. CASE points = {}
  <2>1. wh(text)
    BY <1>4 DEF WrittenIn
  <2>2. SubSeq(text, 1, L) = text
    BY SliceAll
  <2>3. L \in 1 .. L
    <3>1. text # << >>
      BY <2>1
    <3>2. L # 0
      BY <3>1, EmptySeq
    <3> QED BY <1>1, <3>2
  <2>4. Whole(text, c, L)
    <3> HIDE DEF L, wh
    <3> QED BY <1>3, <2>1, <2>2, <2>3
  <2>5. SubSeq(text, L + 2, L) = << >>
    <3>1. L + 2 \in Nat \ {0} /\ L \in 0 .. L /\ ~ (L + 2 <= L)
      BY <1>1
    <3>2. SubSeq(text, L + 2, L) \in Seq(T) /\ Len(SubSeq(text, L + 2, L)) = 0
      BY <3>1, SliceIs
    <3> QED BY <3>2, EmptySeq
  <2>6. Reading(text, c) = Decimal(FALSE, Digits(text), << >>)
    BY <1>4 DEF Reading
  <2> QED BY <2>2, <2>3, <2>4, <2>5, <2>6
<1>5. CASE points # {}
  <2>1. PICK p : points = {p}
    <3>1. IsFiniteSet(points)
      <4>1. IsFiniteSet(1 .. L)
        BY <1>1, FS_Interval
      <4> QED BY <1>1, <4>1, FS_Subset
    <3> HIDE DEF points
    <3>2. Cardinality(points) # 0 /\ Cardinality(points) \in Nat
      BY <1>5, <3>1, FS_EmptySet, FS_CardinalityType
    <3>3. Cardinality(points) = 1
      BY <1>2, <3>2
    <3> QED BY <3>1, <3>3, FS_Singleton
  <2>2. SetMin(points) = p
    <3>1. p \in Int
      BY <1>1, <2>1
    <3> HIDE DEF points
    <3>2. \A n \in points : n = p
      BY <2>1
    <3>3. SetMin(points) \in points
      <4>1. p \in points /\ \A m \in points : p <= m
        BY <2>1, <3>1
      <4> QED BY <4>1 DEF SetMin
    <3> QED BY <3>2, <3>3
  <2>3. p \in 1 .. L /\ text[p] = c.point
    BY <1>1, <2>1
  <2>4. /\ wh(SubSeq(text, 1, p - 1))
        /\ SubSeq(text, p + 1, L) # << >>
        /\ Range(SubSeq(text, p + 1, L)) \subseteq Digit
    BY <1>5, <2>2 DEF WrittenIn
  <2>5. Reading(text, c) = Decimal(FALSE, Digits(SubSeq(text, 1, p - 1)), SubSeq(text, p + 1, L))
    BY <1>5, <2>2 DEF Reading
  <2>6. p - 1 \in 1 .. L
    <3>1. SubSeq(text, 1, p - 1) # << >>
      BY <2>4
    <3>2. p - 1 \in 0 .. L
      BY <1>1, <2>3
    <3>3. SubSeq(text, 1, p - 1) \in Seq(T) /\ Len(SubSeq(text, 1, p - 1)) = IF 1 <= p - 1 THEN p - 1 - 1 + 1 ELSE 0
      BY <3>2, SliceIs
    <3> HIDE DEF L
    <3>4. Len(SubSeq(text, 1, p - 1)) # 0
      BY <3>1, <3>3, EmptySeq
    <3> QED BY <3>2, <3>3, <3>4
  <2>7. Whole(text, c, p - 1)
    <3> HIDE DEF L, wh
    <3> QED BY <1>3, <2>4, <2>6
  <2>8. Pointed(text, c, p - 1)
    <3> DEFINE r == SubSeq(text, p + 1, L)
    <3>1. p + 1 \in Nat \ {0} /\ L \in 0 .. L
      BY <1>1, <2>3
    <3>2. /\ r \in Seq(T) /\ Len(r) = (IF p + 1 <= L THEN L - (p + 1) + 1 ELSE 0)
          /\ DOMAIN r = 1 .. (IF p + 1 <= L THEN L - (p + 1) + 1 ELSE 0)
          /\ \A i \in DOMAIN r : r[i] = text[p + 1 + i - 1]
      BY <3>1, SliceIs
    <3>3. r # << >> /\ Range(r) \subseteq Digit
      BY <2>4
    <3> HIDE DEF r, L
    <3>4. Len(r) # 0
      BY <3>2, <3>3, EmptySeq
    <3>5. p + 1 <= L
      BY <3>2, <3>4
    <3>6. \A i \in DOMAIN r : r[i] \in Digit
      BY <3>3 DEF Range
    <3>7. \A i \in p + 1 .. L : text[i] \in Digit
      <4> TAKE i \in p + 1 .. L
      <4>1. i - p \in DOMAIN r /\ p + 1 + (i - p) - 1 = i
        BY <1>1, <2>3, <3>2, <3>5
      <4> QED BY <3>2, <3>6, <4>1
    <3>8. p - 1 + 1 = p /\ p - 1 + 2 = p + 1 /\ p < L
      BY <1>1, <2>3, <3>5
    <3> QED BY <2>3, <3>7, <3>8 DEF Pointed, L
  <2>9. p - 1 + 2 = p + 1
    BY <2>3
  <2> QED BY <2>5, <2>6, <2>7, <2>8, <2>9
<1> QED BY <1>4, <1>5

-----------------------------------------------------------------------------
(* What parse_decimal makes of it.                                         *)

\* No decoration: the text starts and ends with a digit.
LEMMA CleanedIs ==
  ASSUME NEW T, NEW text \in Seq(T), Len(text) # 0,
         text[1] \in Digit, text[Len(text)] \in Digit
  PROVE  Cleaned(text) = text
<1> DEFINE L == Len(text)
           body == {i \in DOMAIN text : i > 0 /\ text[i] \in Digit \cup Sign}
<1>1. L \in Nat \ {0} /\ DOMAIN text = 1 .. L /\ text # << >>
  BY LenProperties, EmptySeq
<1>2. Digit \cap Sign = {}
  BY DEF Digit, Sign
<1>3. SetMin(body) = 1
  <2>1. 1 \in body /\ \A m \in body : 1 <= m
    BY <1>1
  <2>2. \A m \in body : m \in Int
    BY <1>1
  <2> HIDE DEF body
  <2>3. SetMin(body) \in body /\ \A m \in body : SetMin(body) <= m
    BY <2>1 DEF SetMin
  <2> QED BY <2>1, <2>2, <2>3
<1>4. SetMax(DigitsAt(text)) = L
  <2> DEFINE digits == DigitsAt(text)
  <2>1. L \in digits /\ \A m \in digits : m <= L
    BY <1>1 DEF DigitsAt
  <2>2. \A m \in digits : m \in Int
    BY <1>1 DEF DigitsAt
  <2> HIDE DEF digits, L
  <2>3. SetMax(digits) \in digits /\ \A m \in digits : m <= SetMax(digits)
    BY <2>1 DEF SetMax
  <2>4. L <= SetMax(digits) /\ SetMax(digits) <= L /\ SetMax(digits) \in Int /\ L \in Int
    BY <2>1, <2>2, <2>3
  <2>5. SetMax(digits) = L
    BY <2>4
  <2> QED BY <2>5 DEF digits
<1>5. DigitsAt(text) # {}
  BY <1>1 DEF DigitsAt
<1>6. ~ (text # << >> /\ text[1] \in Sign)
  BY <1>2
<1>7. Cleaned(text) = SubSeq(text, 1, 0) \o SubSeq(text, SetMin(body), SetMax(DigitsAt(text)))
  BY <1>5, <1>6 DEF Cleaned
<1>8. SubSeq(text, 1, 0) = << >>
  <2>1. 1 \in Nat \ {0} /\ 0 \in 0 .. L /\ ~ (1 <= 0)
    BY <1>1
  <2>2. SubSeq(text, 1, 0) \in Seq(T) /\ Len(SubSeq(text, 1, 0)) = 0
    BY <2>1, SliceIs
  <2> QED BY <2>2, EmptySeq
<1>9. Cleaned(text) = << >> \o text
  BY <1>3, <1>4, <1>7, <1>8, SliceAll
<1> QED BY <1>9, ConcatEmptySeq

\* Where the separators of a price are, and that none stands next to another or at
\* an end.
LEMMA PriceSeparators ==
  ASSUME NEW T, NEW text \in Seq(T), NEW c \in Conventions, NEW w \in 1 .. Len(text),
         Whole(text, c, w), w = Len(text) \/ Pointed(text, c, w)
  PROVE  /\ Len(text) \in Nat \ {0} /\ DOMAIN text = 1 .. Len(text)
         /\ text[Len(text)] \in Digit
         /\ w = Len(text) => SeparatorsAt(text) = NotDigits(text, w)
         /\ w # Len(text) => SeparatorsAt(text) = NotDigits(text, w) \cup {w + 1}
         /\ \A i \in NotDigits(text, w) : text[i] = c.group
         /\ \A i \in 1 .. w : text[i] \notin Digit =>
              i # w /\ i # 1 /\ text[i + 1] \in Digit
         /\ IsNumeric(text)
<1> DEFINE L == Len(text)
           G == NotDigits(text, w)
<1>0. L \in Nat
  BY LenProperties
<1>1. L \in Nat \ {0} /\ DOMAIN text = 1 .. L /\ text # << >>
  BY LenProperties, EmptySeq
<1>2. \A i \in 1 .. w : (text[i] \in Digit /\ i \notin G) \/ (text[i] = c.group /\ i \in G)
  BY ConventionIs DEF Whole, NotDigits
<1>3. \A i \in G : i \in 1 .. w /\ (w - i + 1) % 4 = 0
  BY DEF Whole, NotDigits
<1>4. \A i \in 1 .. w : i \in G => i # w /\ i # 1 /\ i + 1 \in 1 .. w /\ i + 1 \notin G
  <2> HIDE DEF G
  <2> SUFFICES ASSUME NEW i \in 1 .. w, i \in G
               PROVE  i # w /\ i # 1 /\ i + 1 \in 1 .. w /\ i + 1 \notin G
    OBVIOUS
  <2>1. (w - i + 1) % 4 = 0
    BY <1>3
  <2>2. i # w
    BY <2>1
  <2>3. i + 1 \in 1 .. w
    BY <2>2
  <2>4. ~ (i + 1 \in G)
    <3> SUFFICES ASSUME i + 1 \in G PROVE FALSE
      OBVIOUS
    <3>1. (w - (i + 1) + 1) % 4 = 0
      BY <1>3
    <3> QED BY <2>1, <3>1
  <2>5. i # 1
    BY DEF G, NotDigits, Whole
  <2> QED BY <2>2, <2>3, <2>4, <2>5
<1>5. \A i \in 1 .. w : text[i] \notin Digit => i # w /\ i # 1 /\ text[i + 1] \in Digit
  BY <1>2, <1>4
<1>6. text[w] \in Digit
  BY <1>5
<1>7. text[L] \in Digit
  <2>1. CASE w = L
    BY <1>6, <2>1
  <2>2. CASE Pointed(text, c, w)
    <3>1. L \in w + 2 .. L
      <4>1. w + 1 < L /\ w \in Int
        BY <2>2 DEF Pointed
      <4> HIDE DEF L
      <4> QED BY <1>0, <4>1
    <3> QED BY <2>2, <3>1 DEF Pointed
  <2> QED BY <2>1, <2>2
<1>8. \A i \in G : text[i] = c.group
  BY <1>2, <1>3
<1>9. w = L => SeparatorsAt(text) = G
  BY <1>1 DEF SeparatorsAt, DigitsAt, NotDigits
<1>10. w # L => SeparatorsAt(text) = G \cup {w + 1}
  <2> SUFFICES ASSUME Pointed(text, c, w) PROVE SeparatorsAt(text) = G \cup {w + 1}
    OBVIOUS
  <2>1. SeparatorsAt(text) = {i \in 1 .. L : text[i] \notin Digit}
    BY <1>1 DEF SeparatorsAt, DigitsAt
  <2>2. w + 1 \in 1 .. L /\ text[w + 1] \notin Digit
    <3>1. w + 1 < L /\ text[w + 1] = c.point
      BY DEF Pointed
    <3>2. w + 1 \in 1 .. L
      BY <1>1, <3>1
    <3> QED BY <3>1, <3>2, ConventionIs
  <2>3. \A i \in 1 .. L : i \in 1 .. w \/ i = w + 1 \/ i \in w + 2 .. L
    BY <1>1
  <2>4. \A i \in 1 .. L : text[i] \notin Digit <=> (i \in G \/ i = w + 1)
    <3>1. \A i \in w + 2 .. L : text[i] \in Digit /\ i # w + 1 /\ i \notin G
      BY <1>3 DEF Pointed
    <3>2. \A i \in 1 .. w : i # w + 1 /\ (text[i] \notin Digit <=> i \in G)
      BY DEF NotDigits
    <3> QED BY <2>2, <2>3, <3>1, <3>2
  <2>5. \A i \in G : i \in 1 .. L
    BY <1>1, <1>3
  <2> QED BY <2>1, <2>2, <2>4, <2>5
<1>11. IsNumeric(text)
  <2>1. text[1] \in Digit
    BY DEF Whole
  <2>2. c.group \in Separator /\ c.point \in Separator
    BY ConventionIs DEF Separator
  <2>3. \A i \in 1 .. L : i \in 1 .. w \/ (Pointed(text, c, w) /\ (i = w + 1 \/ i \in w + 2 .. L))
    <3>1. w \in Int /\ L \in Int
      BY <1>0
    <3>2. \A i \in 1 .. L : i \in 1 .. w \/ i = w + 1 \/ i \in w + 2 .. L
      BY <3>1
    <3>3. w = L \/ Pointed(text, c, w)
      OBVIOUS
    <3> HIDE DEF L
    <3>4. CASE w = L
      BY <3>4
    <3> QED BY <3>2, <3>3, <3>4
  <2>4. \A i \in 1 .. L : text[i] \in Digit \cup Separator
    BY <1>2, <2>2, <2>3 DEF Pointed
  <2>5. \A i \in 1 .. L - 1 : text[i] \in Digit \/ text[i + 1] \in Digit
    <3> TAKE i \in 1 .. L - 1
    <3>1. CASE i \in 1 .. w
      BY <1>5, <3>1
    <3>2. CASE Pointed(text, c, w) /\ i = w + 1
      <4>1. i + 1 \in w + 2 .. L
        BY <1>1, <3>2
      <4> QED BY <3>2, <4>1 DEF Pointed
    <3>3. CASE Pointed(text, c, w) /\ i \in w + 2 .. L
      BY <3>3 DEF Pointed
    <3>4. i \in 1 .. L
      <4>1. L \in Int
        BY <1>0
      <4> HIDE DEF L
      <4> QED BY <4>1
    <3> HIDE DEF L
    <3> QED BY <2>3, <3>1, <3>2, <3>3, <3>4
  <2> QED BY <1>1, <1>7, <2>1, <2>4, <2>5 DEF IsNumeric
<1> QED BY <1>1, <1>5, <1>7, <1>8, <1>9, <1>10, <1>11

\* Every fourth number down from n, in order.
LEMMA MarksApart ==
  ASSUME NEW n \in Nat, NEW q \in Seq(Int), Increasing(q), Range(q) = Marks(n)
  PROVE  /\ Len(q) # 0 => q[1] \in 1 .. 4
         /\ \A i \in 2 .. Len(q) : q[i] = q[i - 1] + 4
<1>1. /\ Len(q) \in Nat /\ DOMAIN q = 1 .. Len(q)
      /\ \A i \in DOMAIN q : q[i] \in 1 .. n /\ (n - q[i]) % 4 = 0
  <2>1. \A i \in DOMAIN q : q[i] \in Marks(n)
    BY DEF Range
  <2> QED BY <2>1, LenProperties DEF Marks
<1>2. \A x \in Marks(n) : \E i \in DOMAIN q : q[i] = x
  BY DEF Range
<1>3. ASSUME NEW i \in DOMAIN q, q[i] > 4
      PROVE  \E k \in DOMAIN q : k < i /\ q[k] = q[i] - 4
  <2>1. q[i] - 4 \in Marks(n)
    <3>1. q[i] \in 1 .. n /\ (n - q[i]) % 4 = 0
      BY <1>1
    <3>2. \A x \in 1 .. n : x > 4 /\ (n - x) % 4 = 0 => x - 4 \in 1 .. n /\ (n - (x - 4)) % 4 = 0
      OBVIOUS
    <3> QED BY <1>3, <3>1, <3>2 DEF Marks
  <2>2. PICK k \in DOMAIN q : q[k] = q[i] - 4
    BY <1>2, <2>1
  <2>3. ~ (i <= k)
    <3> SUFFICES ASSUME i <= k PROVE FALSE
      OBVIOUS
    <3>1. i = k \/ i < k
      BY <1>1
    <3>2. q[i] <= q[k]
      BY <1>1, <3>1 DEF Increasing
    <3> QED BY <1>1, <2>2, <3>2
  <2>4. k < i
    BY <1>1, <2>3
  <2> QED BY <2>2, <2>4
<1>4. ASSUME Len(q) # 0
      PROVE  q[1] \in 1 .. 4
  <2>1. 1 \in DOMAIN q
    BY <1>1, <1>4
  <2>2. ~ (q[1] > 4)
    BY <1>1, <1>3, <2>1
  <2> QED BY <1>1, <2>1, <2>2
<1>5. ASSUME NEW i \in 2 .. Len(q)
      PROVE  q[i] = q[i - 1] + 4
  <2>1. i \in DOMAIN q /\ i - 1 \in DOMAIN q /\ i - 1 < i
    BY <1>1
  <2>2. q[i - 1] < q[i]
    BY <2>1 DEF Increasing
  <2>3. /\ q[i] \in 1 .. n /\ (n - q[i]) % 4 = 0
        /\ q[i - 1] \in 1 .. n /\ (n - q[i - 1]) % 4 = 0
    BY <1>1, <2>1
  <2>4. q[i] >= q[i - 1] + 4
    <3>1. \A x, y \in 1 .. n : x < y /\ (n - x) % 4 = 0 /\ (n - y) % 4 = 0 => y >= x + 4
      OBVIOUS
    <3> QED BY <2>2, <2>3, <3>1
  <2>5. PICK k \in DOMAIN q : k < i /\ q[k] = q[i] - 4
    <3>1. q[i] > 4
      BY <2>3, <2>4
    <3> QED BY <1>3, <2>1, <3>1
  <2>6. q[k] <= q[i - 1]
    <3>1. k = i - 1 \/ k < i - 1
      BY <1>1, <2>1, <2>5
    <3>2. k < i - 1 => q[k] < q[i - 1]
      BY <2>1, <2>5 DEF Increasing
    <3>3. q[k] \in Int /\ q[i - 1] \in Int
      BY <1>1, <2>1, <2>5
    <3> QED BY <3>1, <3>2, <3>3
  <2>7. q[i] \in Int /\ q[i - 1] \in Int /\ q[k] = q[i] - 4
    BY <2>3, <2>5
  <2> DEFINE x == q[i]
             y == q[i - 1]
  <2>8. x \in Int /\ y \in Int /\ x >= y + 4 /\ x - 4 <= y
    BY <2>4, <2>6, <2>7
  <2> HIDE DEF x, y
  <2>9. x = y + 4
    BY <2>8
  <2> QED BY <2>9 DEF x, y
<1> QED BY <1>4, <1>5

At(text) == Ordered(SeparatorsAt(text), Len(text))

LEMMA AtIs ==
  ASSUME NEW T, NEW text \in Seq(T)
  PROVE  /\ At(text) \in Seq(Int) /\ Increasing(At(text))
         /\ Range(At(text)) = SeparatorsAt(text)
         /\ Len(At(text)) \in Nat /\ DOMAIN At(text) = 1 .. Len(At(text))
         /\ \A k \in 1 .. Len(At(text)) : At(text)[k] \in SeparatorsAt(text)
         /\ Separators(text) \in Seq(T)
         /\ Len(Separators(text)) = Len(At(text))
         /\ \A k \in 1 .. Len(At(text)) : Separators(text)[k] = text[At(text)[k]]
<1> DEFINE S == SeparatorsAt(text)
<1>1. Len(text) \in Nat /\ DOMAIN text = 1 .. Len(text)
  BY LenProperties
<1>2. S \cap (1 .. Len(text)) = S
  BY <1>1 DEF SeparatorsAt
<1>3. At(text) \in Seq(Int) /\ Increasing(At(text)) /\ Range(At(text)) = S
  <2> HIDE DEF S
  <2> QED BY <1>1, <1>2, OrderedIs DEF At, S
<1>4. Len(At(text)) \in Nat /\ DOMAIN At(text) = 1 .. Len(At(text))
  BY <1>3, LenProperties
<1>5. /\ Separators(text) \in Seq(T) /\ Len(Separators(text)) = Len(At(text))
      /\ \A k \in DOMAIN At(text) : Separators(text)[k] = text[At(text)[k]]
  BY PickedIs DEF Separators, At
<1> QED BY <1>3, <1>4, <1>5 DEF Range

LEMMA WidthsAre ==
  ASSUME NEW T, NEW text \in Seq(T)
  PROVE  /\ Len(Widths(text)) = Len(At(text)) + 1
         /\ DOMAIN Widths(text) = 1 .. Len(At(text)) + 1
         /\ \A i \in 1 .. Len(At(text)) + 1 :
              Widths(text)[i] = (IF i > Len(At(text)) THEN Len(text) + 1 ELSE At(text)[i])
                                  - (IF i = 1 THEN 0 ELSE At(text)[i - 1]) - 1
<1> DEFINE m == Len(At(text))
           width(i) == (IF i > m THEN Len(text) + 1 ELSE At(text)[i])
                         - (IF i = 1 THEN 0 ELSE At(text)[i - 1]) - 1
<1>1. m \in Nat
  BY AtIs
<1>2. Widths(text) = [i \in 1 .. m + 1 |-> width(i)]
  BY DEF Widths, At
<1> HIDE DEF m, width
<1>3. DOMAIN Widths(text) = 1 .. m + 1 /\ \A i \in 1 .. m + 1 : Widths(text)[i] = width(i)
  BY <1>2
<1>4. Len(Widths(text)) = m + 1
  BY <1>1, <1>2, <1>3
<1> QED BY <1>3, <1>4 DEF m, width

Grouped3(text, n) ==
  Widths(text)[1] <= 3 /\ \A i \in 2 .. n : Widths(text)[i] = 3

\* A price without a point has one group more than separators, each of three digits.
LEMMA PlainGroups ==
  ASSUME NEW T, NEW text \in Seq(T), NEW c \in Conventions, Len(text) # 0,
         Whole(text, c, Len(text)), Len(At(text)) # 0
  PROVE  Grouped3(text, Len(At(text)) + 1)
<1> DEFINE L == Len(text)
           at == At(text)
           m == Len(at)
           S == SeparatorsAt(text)
           q == at \o <<L + 1>>
<1>1. /\ L \in 1 .. L /\ L \in Nat
      /\ S = NotDigits(text, L)
  <2>1. L \in Nat
    BY LenProperties
  <2>2. L \in 1 .. L
    BY <2>1
  <2> QED BY <2>1, <2>2, PriceSeparators
<1>2. /\ at \in Seq(Int) /\ Increasing(at) /\ Range(at) = S
      /\ m \in Nat /\ DOMAIN at = 1 .. m
      /\ \A k \in 1 .. m : at[k] \in S
  BY AtIs
<1>3. S = {i \in 1 .. L : (L - i + 1) % 4 = 0}
  <2>1. at[1] \in S
    BY <1>2
  <2> QED BY <1>1, <2>1 DEF Whole
<1> HIDE DEF L, at, m, S
<1>4. /\ <<L + 1>> \in Seq(Int) /\ Increasing(<<L + 1>>) /\ Range(<<L + 1>>) = {L + 1}
  BY <1>1 DEF Increasing, Range
<1>5. Below(at, <<L + 1>>)
  <2>1. \A x \in S : x < L + 1
    BY <1>1, <1>3
  <2> HIDE DEF Below
  <2>2. \A x \in Range(at), y \in Range(<<L + 1>>) : x < y
    BY <1>2, <1>4, <2>1
  <2> QED BY <2>2 DEF Below
<1>6. q \in Seq(Int) /\ Increasing(q) /\ Range(q) = S \cup {L + 1}
  BY <1>2, <1>4, <1>5, Joined
<1>7. S \cup {L + 1} = Marks(L + 1)
  <2>1. ASSUME NEW n, n = L + 1
        PROVE  S \cup {n} = Marks(n)
    <3>1. \A i \in 1 .. L : (L - i + 1) = (n - i)
      BY <1>1, <2>1
    <3>2. (n - n) % 4 = 0
      BY <1>1, <2>1
    <3>3. \A i : i \in 1 .. n <=> (i \in 1 .. L \/ i = n)
      BY <1>1, <2>1
    <3>4. \A i \in 1 .. L : i \in S <=> (n - i) % 4 = 0
      BY <1>3, <3>1
    <3>5. \A i \in S : i \in 1 .. L
      BY <1>3
    <3>6. \A i : i \in S \cup {n} <=> (i \in 1 .. n /\ (n - i) % 4 = 0)
      BY <3>2, <3>3, <3>4, <3>5
    <3> QED BY <3>6 DEF Marks
  <2> QED BY <2>1
<1>8. Len(q) = m + 1 /\ (\A i \in 1 .. m : q[i] = at[i]) /\ q[m + 1] = L + 1
  <2>1. L + 1 \in Int
    BY <1>1
  <2>2. q = Append(at, L + 1)
    BY <1>2, <2>1, AppendIsConcat
  <2> QED BY <1>2, <2>1, <2>2, AppendProperties DEF m
<1>9. /\ q[1] \in 1 .. 4
      /\ \A i \in 2 .. m + 1 : q[i] = q[i - 1] + 4
  <2> HIDE DEF q
  <2>1. Len(q) # 0 /\ L + 1 \in Nat
    BY <1>1, <1>2, <1>8
  <2> QED BY <1>6, <1>7, <1>8, <2>1, MarksApart
<1>10. \A i \in 1 .. m + 1 :
         Widths(text)[i] = (IF i > m THEN L + 1 ELSE at[i]) - (IF i = 1 THEN 0 ELSE at[i - 1]) - 1
  BY WidthsAre DEF L, m, at
<1>11. \A i \in 1 .. m + 1 : Widths(text)[i] = q[i] - (IF i = 1 THEN 0 ELSE q[i - 1]) - 1
  <2> TAKE i \in 1 .. m + 1
  <2>1. (IF i > m THEN L + 1 ELSE at[i]) = q[i]
    <3>1. i > m => i = m + 1
      BY <1>2
    <3>2. ~ (i > m) => i \in 1 .. m
      BY <1>2
    <3> HIDE DEF q
    <3> QED BY <1>8, <3>1, <3>2
  <2>2. (IF i = 1 THEN 0 ELSE at[i - 1]) = (IF i = 1 THEN 0 ELSE q[i - 1])
    <3>1. i # 1 => i - 1 \in 1 .. m
      BY <1>2
    <3> HIDE DEF q
    <3> QED BY <1>8, <3>1
  <2> HIDE DEF q
  <2> QED BY <1>10, <2>1, <2>2
<1> HIDE DEF q
<1>12. Widths(text)[1] <= 3
  <2>1. 1 \in 1 .. m + 1
    BY <1>2
  <2> QED BY <1>9, <1>11, <2>1
<1>13. \A i \in 2 .. m + 1 : Widths(text)[i] = 3
  <2> TAKE i \in 2 .. m + 1
  <2>1. i \in 1 .. m + 1 /\ i # 1 /\ i - 1 \in 1 .. m + 1
    BY <1>2
  <2>2. q[i - 1] \in Int
    BY <1>2, <1>6, <1>8, <2>1, ElementOfSeq
  <2> QED BY <1>9, <1>11, <2>1, <2>2
<1> QED BY <1>12, <1>13 DEF Grouped3, m, at

\* The last separator of a price with a point is the point, and when there are others
\* every group before it has three digits.
LEMMA PointedGroups ==
  ASSUME NEW T, NEW text \in Seq(T), NEW c \in Conventions, NEW w \in 1 .. Len(text),
         Whole(text, c, w), Pointed(text, c, w)
  PROVE  /\ Len(At(text)) # 0
         /\ At(text)[Len(At(text))] = w + 1
         /\ \A k \in 1 .. Len(At(text)) - 1 : At(text)[k] \in NotDigits(text, w)
         /\ Len(At(text)) > 1 => Grouped3(text, Len(At(text)))
<1> DEFINE L == Len(text)
           at == At(text)
           m == Len(at)
           S == SeparatorsAt(text)
           G == NotDigits(text, w)
<1>0. L \in Nat /\ w \in Int /\ w + 1 < L
  BY LenProperties DEF Pointed
<1>1. S = G \cup {w + 1}
  BY <1>0, PriceSeparators
<1>2. /\ at \in Seq(Int) /\ Increasing(at) /\ Range(at) = S
      /\ m \in Nat /\ DOMAIN at = 1 .. m
      /\ \A k \in 1 .. m : at[k] \in S
  BY AtIs
<1>3. \A i \in G : i \in 1 .. w
  BY DEF NotDigits
<1>4. G # {} => G = {i \in 1 .. w : (w - i + 1) % 4 = 0}
  BY DEF Whole
<1>5. \A i \in 1 .. m + 1 :
        Widths(text)[i] = (IF i > m THEN L + 1 ELSE at[i]) - (IF i = 1 THEN 0 ELSE at[i - 1]) - 1
  BY WidthsAre
<1> HIDE DEF L, at, m, S, G
<1>6. PICK k \in 1 .. m : at[k] = w + 1
  BY <1>1, <1>2 DEF Range
<1>7. k = m
  <2> SUFFICES ASSUME k # m PROVE FALSE
    OBVIOUS
  <2>1. k < m /\ m \in 1 .. m
    BY <1>2
  <2>2. at[k] < at[m] /\ at[m] \in S
    BY <1>2, <2>1 DEF Increasing
  <2>3. at[m] \in 1 .. w \/ at[m] = w + 1
    BY <1>1, <1>3, <2>2
  <2> QED BY <1>0, <1>6, <2>2, <2>3
<1>8. \A j \in 1 .. m - 1 : at[j] \in G
  <2> TAKE j \in 1 .. m - 1
  <2>1. j \in 1 .. m /\ m \in 1 .. m /\ j < m
    BY <1>2
  <2>2. at[j] < at[m] /\ at[j] \in S
    BY <1>2, <2>1 DEF Increasing
  <2> QED BY <1>1, <1>6, <1>7, <2>2, <1>0
<1>9. ASSUME m > 1
      PROVE  Widths(text)[1] <= 3 /\ \A i \in 2 .. m : Widths(text)[i] = 3
  <2>1. G # {}
    <3>1. 1 \in 1 .. m - 1
      BY <1>2, <1>9
    <3> QED BY <1>8, <3>1
  <2>2. S = Marks(w + 1)
    <3>1. \A i \in 1 .. w + 1 : i \in S <=> (w + 1 - i) % 4 = 0
      <4>1. \A i \in 1 .. w : (w - i + 1) = (w + 1 - i)
        BY <1>0
      <4>2. (w + 1 - (w + 1)) % 4 = 0
        BY <1>0
      <4>3. \A i \in 1 .. w + 1 : i \in 1 .. w \/ i = w + 1
        BY <1>0
      <4>4. \A i \in 1 .. w : i # w + 1
        BY <1>0
      <4> QED BY <1>1, <1>4, <2>1, <4>1, <4>2, <4>3, <4>4
    <3>2. \A i \in S : i \in 1 .. w + 1
      BY <1>0, <1>1, <1>3
    <3>3. \A i : i \in S <=> i \in Marks(w + 1)
      BY <3>1, <3>2 DEF Marks
    <3> QED BY <3>3
  <2>3. w + 1 \in Nat
    BY <1>0
  <2>4. Len(at) # 0 /\ Len(at) = m
    BY <1>2, <1>9 DEF m
  <2>5. at[1] \in 1 .. 4 /\ \A i \in 2 .. m : at[i] = at[i - 1] + 4
    BY <1>2, <2>2, <2>3, <2>4, MarksApart
  <2>6. Widths(text)[1] = at[1] - 0 - 1
    <3>1. 1 \in 1 .. m + 1 /\ ~ (1 > m)
      BY <1>2, <1>9
    <3> QED BY <1>5, <3>1
  <2>7. \A i \in 2 .. m : Widths(text)[i] = 3
    <3> TAKE i \in 2 .. m
    <3>1. i \in 1 .. m + 1 /\ ~ (i > m) /\ i # 1 /\ i - 1 \in 1 .. m
      BY <1>2
    <3>2. Widths(text)[i] = at[i] - at[i - 1] - 1
      BY <1>5, <3>1
    <3>3. at[i - 1] \in Int
      BY <1>2, <3>1, ElementOfSeq DEF m
    <3> QED BY <2>5, <3>2, <3>3
  <2> QED BY <2>5, <2>6, <2>7
<1>10. m # 0
  BY <1>2, <1>6
<1> QED BY <1>6, <1>7, <1>8, <1>9, <1>10 DEF Grouped3, m, at, G

\* The digits of a text that has nothing else.
LEMMA DigitsOfDigits ==
  ASSUME NEW T, NEW s \in Seq(T), \A i \in DOMAIN s : s[i] \in Digit
  PROVE  Digits(s) = s
<1> DEFINE n == Len(s)
           all == [i \in 1 .. n |-> i]
           q == Ordered(DigitsAt(s), n)
           d == Digits(s)
<1>1. n \in Nat /\ DOMAIN s = 1 .. n
  BY LenProperties
<1>2. DigitsAt(s) = 1 .. n
  BY <1>1 DEF DigitsAt
<1>3. q \in Seq(Int) /\ Increasing(q) /\ Range(q) = 1 .. n
  <2>1. (1 .. n) \cap (1 .. n) = 1 .. n
    OBVIOUS
  <2> HIDE DEF n
  <2> QED BY <1>1, <1>2, <2>1, OrderedIs
<1>4. all \in Seq(Int) /\ Increasing(all) /\ Range(all) = 1 .. n
  <2> HIDE DEF n
  <2>1. all \in [1 .. n -> Int] /\ Len(all) = n
    BY <1>1
  <2> QED BY <1>1, <2>1 DEF Increasing, Range
<1>5. q = all
  <2> HIDE DEF q, all
  <2> QED BY <1>3, <1>4, SameMembers
<1>6. Len(q) = n /\ DOMAIN q = 1 .. n /\ \A i \in 1 .. n : q[i] = i
  <2> HIDE DEF q, n
  <2> QED BY <1>1, <1>5
<1>7. d \in Seq(T) /\ Len(d) = Len(q) /\ \A i \in DOMAIN q : d[i] = s[q[i]]
  BY PickedIs DEF Digits
<1> HIDE DEF d, q
<1>8. Len(d) = n /\ \A i \in 1 .. n : d[i] = s[i]
  BY <1>6, <1>7
<1>9. d = s
  BY <1>7, <1>8, SeqEqual
<1> QED BY <1>9 DEF d

\* What is no digit at the end of a text adds none.
LEMMA DigitsBefore ==
  ASSUME NEW T, NEW s \in Seq(T), NEW w \in Nat, w + 1 <= Len(s), s[w + 1] \notin Digit
  PROVE  Digits(SubSeq(s, 1, w + 1)) = Digits(SubSeq(s, 1, w))
<1> DEFINE long == SubSeq(s, 1, w + 1)
           short == SubSeq(s, 1, w)
           ql == Ordered(DigitsAt(long), w + 1)
           qs == Ordered(DigitsAt(short), w)
<1>0. Len(s) \in Nat /\ w + 1 \in 0 .. Len(s) /\ w \in 0 .. Len(s)
  BY LenProperties
<1>1. /\ long \in Seq(T) /\ Len(long) = w + 1 /\ DOMAIN long = 1 .. w + 1
      /\ \A i \in 1 .. w + 1 : long[i] = s[i]
  <2>1. (IF 1 <= w + 1 THEN w + 1 - 1 + 1 ELSE 0) = w + 1
    OBVIOUS
  <2> QED BY <1>0, <2>1, SliceIs
<1>2. /\ short \in Seq(T) /\ Len(short) = w /\ DOMAIN short = 1 .. w
      /\ \A i \in 1 .. w : short[i] = s[i]
  <2>1. (IF 1 <= w THEN w - 1 + 1 ELSE 0) = w
    OBVIOUS
  <2> QED BY <1>0, <2>1, SliceIs
<1> HIDE DEF long, short
<1>3. w + 1 \notin DigitsAt(long)
  BY <1>1 DEF DigitsAt
<1>4. DigitsAt(long) \cap (1 .. w) = DigitsAt(short) \cap (1 .. w)
  BY <1>1, <1>2 DEF DigitsAt
<1>5. ql = Ordered(DigitsAt(long), w) \o << >>
  BY <1>3, OrderedLast
<1>6. Ordered(DigitsAt(long), w) = qs
  <2> DEFINE S == DigitsAt(long)
             U == DigitsAt(short)
  <2>1. S \cap (1 .. w) = U \cap (1 .. w)
    BY <1>4
  <2> HIDE DEF S, U
  <2>2. Ordered(S, w) = Ordered(U, w)
    <3>1. \A i \in 1 .. w : i \in S <=> i \in U
      BY <2>1
    <3>2. [i \in 1 .. w |-> IF i \in S THEN <<i>> ELSE << >>] =
            [i \in 1 .. w |-> IF i \in U THEN <<i>> ELSE << >>]
      BY <3>1
    <3> QED BY <3>2 DEF Ordered
  <2> QED BY <2>2 DEF S, U
<1>7. qs \in Seq(Int) /\ qs \in Seq(DigitsAt(short) \cap (1 .. w))
  BY OrderedIs
<1> HIDE DEF ql, qs
<1>8. ql = qs
  BY <1>5, <1>6, <1>7, ConcatEmptySeq
<1>9. /\ Digits(long) \in Seq(T) /\ Len(Digits(long)) = Len(qs)
      /\ \A k \in DOMAIN qs : Digits(long)[k] = long[qs[k]]
  BY <1>1, <1>8, PickedIs DEF Digits, ql
<1>10. /\ Digits(short) \in Seq(T) /\ Len(Digits(short)) = Len(qs)
       /\ \A k \in DOMAIN qs : Digits(short)[k] = short[qs[k]]
  BY <1>2, PickedIs DEF Digits, qs
<1>11. DOMAIN qs = 1 .. Len(qs) /\ \A k \in 1 .. Len(qs) : qs[k] \in 1 .. w
  BY <1>7, LenProperties, ElementOfSeq
<1>12. \A k \in 1 .. Len(qs) : Digits(long)[k] = Digits(short)[k]
  <2> TAKE k \in 1 .. Len(qs)
  <2>1. qs[k] \in 1 .. w /\ qs[k] \in 1 .. w + 1
    BY <1>11
  <2>2. long[qs[k]] = s[qs[k]] /\ short[qs[k]] = s[qs[k]]
    BY <1>1, <1>2, <2>1
  <2> QED BY <1>9, <1>10, <1>11, <2>2
<1>13. Digits(long) = Digits(short)
  BY <1>9, <1>10, <1>12, SeqEqual
<1> QED BY <1>13 DEF long, short

LEMMA PlainIsJudged ==
  ASSUME NEW T, NEW text \in Seq(T), NEW declared, Len(text) # 0,
         text[1] \in Digit, text[Len(text)] \in Digit
  PROVE  ParseDecimal(text, declared) = Judged(FALSE, text, declared)
<1> DEFINE signed(s) == s # << >> /\ s[1] \in Sign
           negative(s) == signed(s) /\ s[1] = "-"
           body(s) == IF signed(s) THEN Tail(s) ELSE s
<1>1. ParseDecimal(text, declared) =
        Judged(negative(Cleaned(text)), body(Cleaned(text)), declared)
  BY DEF ParseDecimal
<1>2. ~ signed(text)
  BY DEF Digit, Sign
<1>3. negative(text) = FALSE /\ body(text) = text
  BY <1>2
<1>4. Cleaned(text) = text
  BY CleanedIs
<1> HIDE DEF negative, body
<1> QED BY <1>1, <1>3, <1>4

\* Which separator is the point, when it is declared.
LEMMA DeclaredPoint ==
  ASSUME NEW separators, NEW last, NEW declared \in DecimalSeparators,
         Len(separators) \in Nat \ {0},
         DOMAIN separators = 1 .. Len(separators)
  PROVE  /\ separators[Len(separators)] = declared =>
              PointIndex(separators, last, declared) = Len(separators)
         /\ declared \notin Range(separators) =>
              PointIndex(separators, last, declared) = NoPoint
<1>1. declared # Undeclared
  BY DecimalAssumption
<1>2. Len(separators) \in DOMAIN separators
  OBVIOUS
<1>3. ASSUME separators[Len(separators)] = declared
      PROVE  PointIndex(separators, last, declared) = Len(separators)
  <2>1. declared \in Range(separators)
    BY <1>2, <1>3 DEF Range
  <2> QED BY <1>1, <1>3, <2>1 DEF PointIndex
<1>4. ASSUME declared \notin Range(separators)
      PROVE  PointIndex(separators, last, declared) = NoPoint
  <2>1. separators[Len(separators)] # declared
    BY <1>2, <1>4 DEF Range
  <2> QED BY <1>1, <1>4, <2>1 DEF PointIndex
<1> QED BY <1>3, <1>4

LEMMA DeclaredReads ==
  ASSUME NEW T, NEW text \in Seq(T), NEW c \in Conventions, WrittenIn(text, c)
  PROVE  ParseDecimal(text, c.point) = Reading(text, c)
<1> DEFINE L == Len(text)
           m == Len(At(text))
           seps == Separators(text)
           grouping == SubSeq(seps, 1, m - 1)
           point == IF m = 0 THEN NoPoint ELSE PointIndex(seps, Widths(text)[m + 1], c.point)
           wf == CASE point = Ambiguous -> FALSE
                   [] point = NoPoint   -> Grouped(Widths(text), seps)
                   [] OTHER -> /\ seps[point] \notin Range(grouping)
                               /\ Grouped(SubSeq(Widths(text), 1, m), grouping)
<1>1. PICK w \in 1 .. L :
        /\ Whole(text, c, w)
        /\ w = L \/ Pointed(text, c, w)
        /\ Reading(text, c) =
             Decimal(FALSE, Digits(SubSeq(text, 1, w)), SubSeq(text, w + 2, L))
  BY PriceIs
<1>2. /\ L \in Nat \ {0} /\ DOMAIN text = 1 .. L
      /\ text[L] \in Digit /\ text[1] \in Digit
      /\ w = L => SeparatorsAt(text) = NotDigits(text, w)
      /\ \A i \in NotDigits(text, w) : text[i] = c.group
      /\ IsNumeric(text)
  <2>1. /\ L \in Nat \ {0} /\ DOMAIN text = 1 .. L
        /\ text[L] \in Digit
        /\ w = L => SeparatorsAt(text) = NotDigits(text, w)
        /\ \A i \in NotDigits(text, w) : text[i] = c.group
        /\ IsNumeric(text)
    BY <1>1, PriceSeparators
  <2>2. text[1] \in Digit
    BY <1>1 DEF Whole
  <2> QED BY <2>1, <2>2
<1>3. L \in Nat
  BY LenProperties
<1>4. ParseDecimal(text, c.point) = Judged(FALSE, text, c.point)
  BY <1>2, PlainIsJudged
<1>5. /\ m \in Nat /\ DOMAIN At(text) = 1 .. m
      /\ \A k \in 1 .. m : At(text)[k] \in SeparatorsAt(text)
      /\ seps \in Seq(T) /\ Len(seps) = m /\ DOMAIN seps = 1 .. m
      /\ \A k \in 1 .. m : seps[k] = text[At(text)[k]]
  BY AtIs, LenProperties
<1>6. /\ Len(Widths(text)) = m + 1 /\ DOMAIN Widths(text) = 1 .. m + 1
  BY WidthsAre
<1>7. Judged(FALSE, text, c.point) =
        IF IsNumeric(text) /\ wf THEN Read(FALSE, text, point) ELSE NoValue
  BY <1>5 DEF Judged
<1>8. c.point \in DecimalSeparators /\ c.point # c.group
  BY ConventionIs
<1>9. CASE w = L
  <2>1. \A k \in 1 .. m : seps[k] = c.group
    BY <1>2, <1>5, <1>9
  <2>2. c.point \notin Range(seps)
    BY <1>5, <1>8, <2>1 DEF Range
  <2>3. point = NoPoint
    <3> HIDE DEF seps, m
    <3>1. m # 0 => PointIndex(seps, Widths(text)[m + 1], c.point) = NoPoint
      BY <1>5, <1>8, <2>2, DeclaredPoint
    <3> QED BY <3>1
  <2>4. Grouped(Widths(text), seps)
    <3>1. CASE m = 0
      <4>1. seps = << >>
        BY <1>5, <3>1, EmptySeq
      <4> QED BY <4>1 DEF Grouped
    <3>2. CASE m # 0
      <4>1. Grouped3(text, m + 1)
        BY <1>1, <1>2, <1>9, <3>2, PlainGroups
      <4> QED BY <1>6, <4>1 DEF Grouped, Grouped3
    <3> QED BY <3>1, <3>2
  <2> HIDE DEF point
  <2>5. wf
    BY <2>3, <2>4 DEF NoPoint, Ambiguous
  <2>6. Read(FALSE, text, NoPoint) =
          Decimal(FALSE, Digits(SubSeq(text, 1, L)), Digits(SubSeq(text, L + 1, L)))
    BY DEF Read
  <2>7. Digits(SubSeq(text, L + 1, L)) = << >> /\ SubSeq(text, L + 2, L) = << >>
    <3> DEFINE none == SubSeq(text, L + 1, L)
    <3>1. /\ L + 1 \in Nat \ {0} /\ L + 2 \in Nat \ {0} /\ L \in 0 .. L
          /\ ~ (L + 1 <= L) /\ ~ (L + 2 <= L)
      <4> HIDE DEF L
      <4> QED BY <1>3
    <3>2. /\ SubSeq(text, L + 1, L) \in Seq(T) /\ Len(SubSeq(text, L + 1, L)) = 0
          /\ SubSeq(text, L + 2, L) \in Seq(T) /\ Len(SubSeq(text, L + 2, L)) = 0
      BY <3>1, SliceIs
    <3>3. SubSeq(text, L + 1, L) = << >> /\ SubSeq(text, L + 2, L) = << >>
      BY <3>2, EmptySeq
    <3>4. Digits(<< >>) = << >>
      <4>1. << >> \in Seq(T) /\ DOMAIN << >> = {}
        OBVIOUS
      <4> QED BY <4>1, DigitsOfDigits
    <3> QED BY <3>3, <3>4
  <2> HIDE DEF wf
  <2> QED BY <1>1, <1>2, <1>4, <1>7, <1>9, <2>3, <2>5, <2>6, <2>7
<1>10. CASE w # L
  <2>1. Pointed(text, c, w) /\ Whole(text, c, w)
    BY <1>1, <1>10
  <2>2. /\ m # 0 /\ At(text)[m] = w + 1
        /\ \A k \in 1 .. m - 1 : At(text)[k] \in NotDigits(text, w)
        /\ m > 1 => Grouped3(text, m)
    BY <2>1, PointedGroups
  <2>3. seps[m] = c.point /\ \A k \in 1 .. m - 1 : seps[k] = c.group
    <3>1. m \in 1 .. m /\ \A k \in 1 .. m - 1 : k \in 1 .. m
      BY <1>5, <2>2
    <3> QED BY <1>2, <1>5, <2>1, <2>2, <3>1 DEF Pointed
  <2>4. point = m
    <3> HIDE DEF seps, m
    <3>1. PointIndex(seps, Widths(text)[m + 1], c.point) = m
      BY <1>5, <1>8, <2>2, <2>3, DeclaredPoint
    <3> QED BY <2>2, <3>1
  <2>5. /\ grouping \in Seq(T) /\ Len(grouping) = m - 1
        /\ DOMAIN grouping = 1 .. m - 1
        /\ \A k \in 1 .. m - 1 : grouping[k] = seps[k]
    <3>1. m - 1 \in 0 .. Len(seps) /\ 1 \in Nat \ {0}
      BY <1>5, <2>2
    <3>2. (IF 1 <= m - 1 THEN m - 1 - 1 + 1 ELSE 0) = m - 1
      BY <1>5, <2>2
    <3> HIDE DEF seps, m
    <3>3. /\ grouping \in Seq(T) /\ Len(grouping) = m - 1 /\ DOMAIN grouping = 1 .. m - 1
          /\ \A k \in DOMAIN grouping : grouping[k] = seps[1 + k - 1]
      BY <1>5, <3>1, <3>2, SliceIs
    <3>4. \A k \in 1 .. m - 1 : 1 + k - 1 = k
      OBVIOUS
    <3> HIDE DEF grouping
    <3> QED BY <3>3, <3>4
  <2>6. seps[m] \notin Range(grouping)
    <3> HIDE DEF grouping, seps
    <3> QED BY <1>8, <2>3, <2>5 DEF Range
  <2>7. Grouped(SubSeq(Widths(text), 1, m), grouping)
    <3> DEFINE first == SubSeq(Widths(text), 1, m)
    <3>1. CASE m = 1
      <4> HIDE DEF grouping
      <4>1. grouping = << >>
        BY <2>5, <3>1, EmptySeq
      <4> QED BY <4>1 DEF Grouped
    <3>2. CASE m # 1
      <4>1. Grouped3(text, m)
        BY <1>5, <2>2, <3>2
      <4>2. Widths(text) \in Seq(Range(Widths(text)))
        <5>1. Widths(text) \in [1 .. m + 1 -> Range(Widths(text))]
          <6>1. Widths(text) = [i \in DOMAIN Widths(text) |-> Widths(text)[i]]
            BY DEF Widths
          <6> QED BY <1>6, <6>1 DEF Range
        <5> HIDE DEF m
        <5> QED BY <1>5, <5>1
      <4>3. m \in 0 .. Len(Widths(text)) /\ 1 \in Nat \ {0}
        BY <1>5, <1>6
      <4>4. (IF 1 <= m THEN m - 1 + 1 ELSE 0) = m
        BY <1>5, <2>2
      <4> HIDE DEF m
      <4>5. /\ Len(first) = m /\ DOMAIN first = 1 .. m
            /\ \A i \in DOMAIN first : first[i] = Widths(text)[1 + i - 1]
        BY <4>2, <4>3, <4>4, SliceIs
      <4>6. \A i \in 1 .. m : 1 + i - 1 = i
        BY <1>5
      <4> HIDE DEF first, grouping
      <4>7. Len(first) = m /\ \A i \in 1 .. m : first[i] = Widths(text)[i]
        BY <4>5, <4>6
      <4>8. 1 \in 1 .. m /\ \A i \in 2 .. m : i \in 1 .. m
        BY <1>5, <2>2
      <4>9. Grouped(first, grouping)
        BY <4>1, <4>7, <4>8 DEF Grouped, Grouped3
      <4> QED BY <4>9 DEF first
    <3> QED BY <3>1, <3>2
  <2>8. m # NoPoint /\ m # Ambiguous
    BY <1>5, <2>2 DEF NoPoint, Ambiguous
  <2> HIDE DEF point, seps, grouping
  <2>9. wf
    BY <2>4, <2>6, <2>7, <2>8
  <2>10. Read(FALSE, text, m) =
           Decimal(FALSE, Digits(SubSeq(text, 1, w + 1)), Digits(SubSeq(text, w + 2, L)))
    <3>1. Read(FALSE, text, m) =
            Decimal(FALSE, Digits(SubSeq(text, 1, w + 1)), Digits(SubSeq(text, w + 1 + 1, L)))
      BY <2>2, <2>8 DEF Read, At
    <3>2. w + 1 + 1 = w + 2
      OBVIOUS
    <3> QED BY <3>1, <3>2
  <2>11. Digits(SubSeq(text, 1, w + 1)) = Digits(SubSeq(text, 1, w))
    <3>1. w \in Nat /\ w + 1 <= L /\ text[w + 1] \notin Digit
      <4>1. w + 1 < L /\ text[w + 1] = c.point /\ L \in Nat
        BY <1>2, <2>1 DEF Pointed
      <4> HIDE DEF L
      <4> QED BY <4>1, ConventionIs
    <3> QED BY <3>1, DigitsBefore
  <2>12. Digits(SubSeq(text, w + 2, L)) = SubSeq(text, w + 2, L)
    <3> DEFINE r == SubSeq(text, w + 2, L)
    <3>1. w + 2 \in Nat \ {0} /\ L \in 0 .. L /\ L \in Nat
      BY <1>3
    <3>2. /\ r \in Seq(T) /\ DOMAIN r = 1 .. (IF w + 2 <= L THEN L - (w + 2) + 1 ELSE 0)
          /\ \A i \in DOMAIN r : r[i] = text[w + 2 + i - 1]
      BY <3>1, SliceIs
    <3>3. \A i \in w + 2 .. L : text[i] \in Digit
      BY <2>1 DEF Pointed
    <3> HIDE DEF r, L
    <3>4. \A i \in DOMAIN r : r[i] \in Digit
      <4> TAKE i \in DOMAIN r
      <4>1. w + 2 + i - 1 \in w + 2 .. L
        BY <3>1, <3>2
      <4> QED BY <3>2, <3>3, <4>1
    <3>5. Digits(r) = r
      BY <3>2, <3>4, DigitsOfDigits
    <3> QED BY <3>5 DEF r
  <2> HIDE DEF wf
  <2> QED BY <1>1, <1>2, <1>4, <1>7, <2>4, <2>9, <2>10, <2>11, <2>12
<1> QED BY <1>9, <1>10

-----------------------------------------------------------------------------
(* The best of some things.                                                *)

LEMMA LeastExists ==
  ASSUME NEW S \in SUBSET Nat, S # {}
  PROVE  \E m \in S : \A j \in S : m <= j
<1> SUFFICES ASSUME \A m \in S : \E j \in S : j < m PROVE FALSE
  OBVIOUS
<1> DEFINE T == Nat \ S
<1>1. ASSUME NEW n \in Nat, \A m \in 0 .. n - 1 : m \in T
      PROVE  n \in T
  <2> SUFFICES ASSUME n \in S PROVE FALSE
    OBVIOUS
  <2>1. PICK j \in S : j < n
    OBVIOUS
  <2>2. j \in 0 .. n - 1
    BY <2>1
  <2> QED BY <1>1, <2>2
<1>2. Nat \subseteq T
  <2> HIDE DEF T
  <2> QED BY <1>1, EveryNumber
<1> QED BY <1>2

Best(S, f, g, h, x) ==
  \A y \in S : \/ f[x] < f[y]
               \/ f[x] = f[y] /\ g[x] < g[y]
               \/ f[x] = f[y] /\ g[x] = g[y] /\ h[x] <= h[y]

\* Something has the least f; of these the least g; of these the least h.
LEMMA BestExists ==
  ASSUME NEW S, S # {}, NEW f \in [S -> Nat], NEW g \in [S -> Nat], NEW h \in [S -> Nat]
  PROVE  \E x \in S : Best(S, f, g, h, x)
<1>1. \A U \in SUBSET S : \A v \in [S -> Nat] : U # {} =>
        \E x \in U : \A y \in U : v[x] <= v[y]
  <2> TAKE U \in SUBSET S
  <2> TAKE v \in [S -> Nat]
  <2> SUFFICES ASSUME U # {} PROVE \E x \in U : \A y \in U : v[x] <= v[y]
    OBVIOUS
  <2> DEFINE T == {v[x] : x \in U}
  <2>1. T \in SUBSET Nat /\ T # {}
    OBVIOUS
  <2>2. PICK m \in T : \A j \in T : m <= j
    <3> HIDE DEF T
    <3> QED BY <2>1, LeastExists
  <2> QED BY <2>2
<1> DEFINE S1 == {x \in S : \A y \in S : f[x] <= f[y]}
           S2 == {x \in S1 : \A y \in S1 : g[x] <= g[y]}
<1>2. S1 \in SUBSET S /\ S1 # {}
  BY <1>1
<1>3. S2 \in SUBSET S1 /\ S2 # {}
  <2> HIDE DEF S1
  <2> QED BY <1>1, <1>2
<1>4. PICK x \in S2 : \A y \in S2 : h[x] <= h[y]
  <2>1. S2 \in SUBSET S
    BY <1>2, <1>3
  <2> HIDE DEF S1, S2
  <2> QED BY <1>1, <1>3, <2>1
<1>5. x \in S /\ (\A y \in S : f[x] <= f[y]) /\ (\A y \in S1 : g[x] <= g[y])
  BY <1>2, <1>3
<1>6. ASSUME NEW y \in S
      PROVE  \/ f[x] < f[y]
             \/ f[x] = f[y] /\ g[x] < g[y]
             \/ f[x] = f[y] /\ g[x] = g[y] /\ h[x] <= h[y]
  <2>1. /\ f[x] \in Nat /\ f[y] \in Nat /\ g[x] \in Nat /\ g[y] \in Nat
        /\ f[x] <= f[y]
    BY <1>5
  <2>2. f[y] <= f[x] => y \in S1
    <3> SUFFICES ASSUME f[y] <= f[x], NEW z \in S PROVE f[y] <= f[z]
      OBVIOUS
    <3>1. f[x] <= f[z] /\ f[z] \in Nat
      BY <1>5
    <3> QED BY <2>1, <3>1
  <2>3. y \in S1 /\ g[y] <= g[x] => y \in S2
    <3> SUFFICES ASSUME y \in S1, g[y] <= g[x], NEW z \in S1 PROVE g[y] <= g[z]
      OBVIOUS
    <3>1. g[x] <= g[z] /\ g[z] \in Nat
      BY <1>5
    <3> QED BY <2>1, <3>1
  <2>4. y \in S2 => h[x] <= h[y]
    BY <1>4
  <2>5. y \in S1 => g[x] <= g[y]
    BY <1>5
  <2> HIDE DEF S1, S2
  <2> QED BY <2>1, <2>2, <2>3, <2>4, <2>5
<1> QED BY <1>5, <1>6 DEF Best

-----------------------------------------------------------------------------
(* The kept pairs.                                                         *)

LEMMA BestBlockIs ==
  ASSUME NEW n \in Nat, NEW E \in SUBSET ((1 .. n) \X Nat), E # {}
  PROVE  /\ BestBlock(E, n)[1] \in E /\ BestBlock(E, n)[2] \in 1 .. n
         /\ Diagonal(BestBlock(E, n)[1], BestBlock(E, n)[2]) \subseteq E
         /\ \A y \in PairBlocks(E, n) : FirstLongest(BestBlock(E, n), y)
<1> DEFINE S == PairBlocks(E, n)
           f == [x \in S |-> n - x[2]]
           g == [x \in S |-> x[1][1]]
           h == [x \in S |-> x[1][2]]
<1>1. \A x \in S : x[1] \in E /\ x[2] \in 1 .. n /\ x[1][1] \in 1 .. n /\ x[1][2] \in Nat
  BY DEF PairBlocks
<1>2. S # {}
  <2>1. PICK p \in E : TRUE
    OBVIOUS
  <2>2. p \in (1 .. n) \X Nat /\ p[1] \in 1 .. n /\ p[2] \in Nat /\ p = <<p[1], p[2]>>
    OBVIOUS
  <2>3. Diagonal(p, 1) = {p}
    <3>1. 0 .. 1 - 1 = {0}
      OBVIOUS
    <3>2. p[1] + 0 = p[1] /\ p[2] + 0 = p[2]
      BY <2>2
    <3> QED BY <2>2, <3>1, <3>2 DEF Diagonal
  <2>4. 1 \in 1 .. n
    BY <2>2
  <2>5. <<p, 1>> \in S
    BY <2>3, <2>4 DEF PairBlocks
  <2> QED BY <2>5
<1>3. f \in [S -> Nat] /\ g \in [S -> Nat] /\ h \in [S -> Nat]
  <2> HIDE DEF S
  <2> QED BY <1>1
<1>4. PICK x \in S : Best(S, f, g, h, x)
  <2> HIDE DEF S, f, g, h
  <2> QED BY <1>2, <1>3, BestExists
<1>5. \A y \in S : FirstLongest(x, y)
  <2> TAKE y \in S
  <2>1. /\ n - x[2] < n - y[2] => x[2] > y[2]
        /\ n - x[2] = n - y[2] => x[2] = y[2]
    BY <1>1
  <2> HIDE DEF S
  <2> QED BY <1>4, <2>1 DEF Best, FirstLongest
<1>6. BestBlock(E, n) \in S /\ \A y \in S : FirstLongest(BestBlock(E, n), y)
  <2>1. BestBlock(E, n) = CHOOSE z \in S : \A y \in S : FirstLongest(z, y)
    BY DEF BestBlock
  <2> HIDE DEF S
  <2> QED BY <1>5, <2>1
<1> QED BY <1>1, <1>6 DEF PairBlocks

Spread(E) == Cardinality({p[1] : p \in E})

LEMMA SpreadLess ==
  ASSUME NEW n \in Nat, NEW E \in SUBSET ((1 .. n) \X Nat), NEW F \in SUBSET E,
         NEW p \in E, \A q \in F : q[1] # p[1]
  PROVE  Spread(F) < Spread(E)
<1> DEFINE SE == {q[1] : q \in E}
           SF == {q[1] : q \in F}
<1>1. IsFiniteSet(1 .. n)
  BY FS_Interval
<1>2. SE \in SUBSET (1 .. n) /\ SF \in SUBSET SE /\ p[1] \in SE /\ p[1] \notin SF
  OBVIOUS
<1> HIDE DEF SE, SF
<1>3. IsFiniteSet(SE) /\ IsFiniteSet(SF)
  <2>1. SF \in SUBSET (1 .. n)
    BY <1>2
  <2> QED BY <1>1, <1>2, <2>1, FS_Subset
<1>4. Cardinality(SE) \in Nat /\ Cardinality(SF) \in Nat
  BY <1>3, FS_CardinalityType
<1>5. Cardinality(SF) <= Cardinality(SE) /\ Cardinality(SE) # Cardinality(SF)
  BY <1>2, <1>3, FS_Subset
<1>6. Cardinality(SF) < Cardinality(SE)
  BY <1>4, <1>5
<1> QED BY <1>6 DEF Spread, SE, SF

LEMMA SpreadType ==
  ASSUME NEW n \in Nat, NEW E \in SUBSET ((1 .. n) \X Nat)
  PROVE  Spread(E) \in 0 .. n
<1> DEFINE SE == {q[1] : q \in E}
<1>1. IsFiniteSet(1 .. n) /\ Cardinality(1 .. n) = n
  <2>1. Cardinality(1 .. n) = IF 1 > n THEN 0 ELSE n - 1 + 1
    BY FS_Interval
  <2> QED BY <2>1, FS_Interval
<1>2. SE \in SUBSET (1 .. n)
  OBVIOUS
<1> HIDE DEF SE
<1>3. IsFiniteSet(SE) /\ Cardinality(SE) <= Cardinality(1 .. n)
  BY <1>1, <1>2, FS_Subset
<1>4. Cardinality(SE) \in Nat
  BY <1>3, FS_CardinalityType
<1> QED BY <1>1, <1>3, <1>4 DEF Spread, SE

OneOne(M) == \A p, q \in M : (p[1] = q[1]) <=> (p[2] = q[2])

\* What lies before a block and behind it has fewer places in the baseline.
LEMMA RestIsLess ==
  ASSUME NEW n \in Nat, NEW E \in SUBSET ((1 .. n) \X Nat), NEW p \in E, NEW k \in 1 .. n
  PROVE  /\ PairsBefore(E, p) \in SUBSET E /\ Spread(PairsBefore(E, p)) < Spread(E)
         /\ PairsBehind(E, p, k) \in SUBSET E /\ Spread(PairsBehind(E, p, k)) < Spread(E)
<1>1. p[1] \in Int /\ p[2] \in Int /\ \A q \in E : q[1] \in Int /\ q[2] \in Int
  OBVIOUS
<1>2. PairsBefore(E, p) \in SUBSET E /\ PairsBehind(E, p, k) \in SUBSET E
  BY DEF PairsBefore, PairsBehind
<1>3. \A q \in PairsBefore(E, p) : q[1] # p[1]
  BY <1>1 DEF PairsBefore
<1>4. \A q \in PairsBehind(E, p, k) : q[1] # p[1]
  BY <1>1 DEF PairsBehind
<1> QED BY <1>2, <1>3, <1>4, SpreadLess

EqualPairs(a, b) == {p \in (DOMAIN a) \X (DOMAIN b) : a[p[1]] = b[p[2]]}

\* What is kept of some pairs, by what is kept of fewer.
KeptOf(f, E, n) ==
  IF E = {} THEN {}
  ELSE (Diagonal(BestBlock(E, n)[1], BestBlock(E, n)[2])
          \cup f[PairsBefore(E, BestBlock(E, n)[1])])
          \cup f[PairsBehind(E, BestBlock(E, n)[1], BestBlock(E, n)[2])]

LEMMA KeptIs ==
  ASSUME NEW a, NEW b, Len(a) \in Nat, DOMAIN a = 1 .. Len(a)
  PROVE  \E f \in [SUBSET ((DOMAIN a) \X Nat) -> SUBSET ((DOMAIN a) \X Nat)] :
           /\ Matched(a, b) = f[EqualPairs(a, b)]
           /\ \A E \in SUBSET ((DOMAIN a) \X Nat) : f[E] = KeptOf(f, E, Len(a))
<1> DEFINE n == Len(a)
           D == SUBSET ((DOMAIN a) \X Nat)
           p(X) == BestBlock(X, n)[1]
           k(X) == BestBlock(X, n)[2]
           e(g, X) == IF X = {} THEN {}
                      ELSE (Diagonal(p(X), k(X)) \cup g[PairsBefore(X, p(X))])
                              \cup g[PairsBehind(X, p(X), k(X))]
           E == [g \in [D -> D] |-> [X \in D |-> e(g, X)]]
           measure == [X \in D |-> Spread(X)]
<1>1. D = SUBSET ((1 .. n) \X Nat)
  OBVIOUS
<1>2. ASSUME NEW X \in D, X # {}
      PROVE  /\ Diagonal(p(X), k(X)) \in D
             /\ PairsBefore(X, p(X)) \in D /\ Spread(PairsBefore(X, p(X))) < Spread(X)
             /\ PairsBehind(X, p(X), k(X)) \in D
             /\ Spread(PairsBehind(X, p(X), k(X))) < Spread(X)
  <2>1. X \in SUBSET ((1 .. n) \X Nat) /\ n \in Nat
    BY <1>1
  <2>2. p(X) \in X /\ k(X) \in 1 .. n /\ Diagonal(p(X), k(X)) \subseteq X
    <3> HIDE DEF n
    <3> QED BY <1>2, <2>1, BestBlockIs
  <2> HIDE DEF p, k, n, D
  <2>3. /\ PairsBefore(X, p(X)) \in SUBSET X /\ Spread(PairsBefore(X, p(X))) < Spread(X)
        /\ PairsBehind(X, p(X), k(X)) \in SUBSET X
        /\ Spread(PairsBehind(X, p(X), k(X))) < Spread(X)
    BY <2>1, <2>2, RestIsLess
  <2>4. \A Y \in SUBSET X : Y \in D
    BY DEF D
  <2> QED BY <2>2, <2>3, <2>4
<1> HIDE DEF p, k
<1>3. Determined(D, D, n, measure, E)
  <2>1. measure \in [D -> 0 .. n]
    <3>1. \A X \in D : Spread(X) \in 0 .. n
      <4> HIDE DEF n, D
      <4> QED BY <1>1, SpreadType DEF n
    <3> HIDE DEF D, n
    <3> QED BY <3>1
  <2>2. \A g \in [D -> D], X \in D : e(g, X) \in D
    <3> TAKE g \in [D -> D], X \in D
    <3>1. CASE X = {}
      BY <3>1
    <3>2. CASE X # {}
      <4>1. g[PairsBefore(X, p(X))] \in D /\ g[PairsBehind(X, p(X), k(X))] \in D
        <5> HIDE DEF D
        <5> QED BY <1>2, <3>2
      <4> QED BY <1>2, <3>2, <4>1
    <3> QED BY <3>1, <3>2
  <2>3. E \in [[D -> D] -> [D -> D]]
    <3> HIDE DEF e, D
    <3> QED BY <2>2
  <2>4. \A X \in D : \A g, h \in [D -> D] :
          (\A Y \in D : measure[Y] < measure[X] => g[Y] = h[Y]) => E[g][X] = E[h][X]
    <3> SUFFICES ASSUME NEW X \in D, NEW g \in [D -> D], NEW h \in [D -> D],
                        \A Y \in D : Spread(Y) < Spread(X) => g[Y] = h[Y]
                 PROVE  e(g, X) = e(h, X)
      <4> HIDE DEF D, e
      <4> QED OBVIOUS
    <3>1. CASE X = {}
      BY <3>1
    <3>2. CASE X # {}
      <4>1. /\ g[PairsBefore(X, p(X))] = h[PairsBefore(X, p(X))]
            /\ g[PairsBehind(X, p(X), k(X))] = h[PairsBehind(X, p(X), k(X))]
        <5> HIDE DEF D
        <5> QED BY <1>2, <3>2
      <4> QED BY <4>1
    <3> QED BY <3>1, <3>2
  <2>5. D # {}
    OBVIOUS
  <2> HIDE DEF D, E, measure
  <2> QED BY <2>1, <2>3, <2>4, <2>5 DEF Determined
<1>4. PICK f0 \in [D -> D] : f0 = [X \in D |-> e(f0, X)]
  <2>1. \E f \in [D -> D] : f = E[f]
    <3> HIDE DEF D, E, measure
    <3> QED BY <1>3, Recursion
  <2> HIDE DEF e, D
  <2> QED BY <2>1
<1> DEFINE kept == CHOOSE f : f = [X \in D |-> e(f, X)]
<1>5. kept = [X \in D |-> e(kept, X)]
  <2> HIDE DEF e
  <2> QED BY <1>4
<1>6. Matched(a, b) = kept[{q \in (DOMAIN a) \X (DOMAIN b) : a[q[1]] = b[q[2]]}]
  BY DEF Matched, p, k
<1> HIDE DEF kept
<1>7. \A X \in D : kept[X] = e(kept, X)
  <2> HIDE DEF e
  <2> QED BY <1>5
<1>8. kept \in [D -> D]
  <2>1. DOMAIN kept = D
    BY <1>5
  <2> DEFINE T == {m \in Nat : \A X \in D : Spread(X) = m => kept[X] \in D}
  <2>2. ASSUME NEW m \in Nat, \A j \in 0 .. m - 1 : j \in T
        PROVE  m \in T
    <3> SUFFICES ASSUME NEW X \in D, Spread(X) = m PROVE kept[X] \in D
      OBVIOUS
    <3>1. CASE X = {}
      BY <1>7, <3>1
    <3>2. CASE X # {}
      <4>1. \A Y \in D : Spread(Y) \in 0 .. n
        <5> HIDE DEF n, D
        <5> QED BY <1>1, SpreadType DEF n
      <4>2. \A Y \in D : Spread(Y) < m => kept[Y] \in D
        <5> SUFFICES ASSUME NEW Y \in D, Spread(Y) < m PROVE kept[Y] \in D
          OBVIOUS
        <5> HIDE DEF D, n
        <5>1. Spread(Y) \in 0 .. m - 1
          BY <4>1
        <5>2. Spread(Y) \in T
          <6> HIDE DEF T
          <6> QED BY <2>2, <5>1
        <5>3. \A Z \in D : Spread(Z) = Spread(Y) => kept[Z] \in D
          BY <5>2
        <5> QED BY <5>3
      <4>3. kept[PairsBefore(X, p(X))] \in D /\ kept[PairsBehind(X, p(X), k(X))] \in D
        <5> HIDE DEF D
        <5> QED BY <1>2, <3>2, <4>2
      <4>4. Diagonal(p(X), k(X)) \in D
        <5> HIDE DEF D
        <5> QED BY <1>2, <3>2
      <4>5. kept[X] = (Diagonal(p(X), k(X)) \cup kept[PairsBefore(X, p(X))])
                        \cup kept[PairsBehind(X, p(X), k(X))]
        <5> HIDE DEF D
        <5> QED BY <1>7, <3>2
      <4> QED BY <4>3, <4>4, <4>5
    <3> QED BY <3>1, <3>2
  <2>3. Nat \subseteq T
    <3> HIDE DEF T
    <3> QED BY <2>2, EveryNumber
  <2>4. \A X \in D : kept[X] \in D
    <3> TAKE X \in D
    <3>1. Spread(X) \in 0 .. n
      <4> HIDE DEF n, D
      <4> QED BY <1>1, SpreadType DEF n
    <3>2. Spread(X) \in T
      <4> HIDE DEF T, n
      <4> QED BY <2>3, <3>1
    <3> HIDE DEF D
    <3> QED BY <3>2
  <2>5. kept = [X \in D |-> kept[X]]
    <3> HIDE DEF e
    <3> QED BY <1>5
  <2> HIDE DEF D
  <2> QED BY <2>4, <2>5
<1>9. \A X \in D : kept[X] = KeptOf(kept, X, n)
  <2> HIDE DEF D
  <2> QED BY <1>7 DEF KeptOf, p, k
<1>10. Matched(a, b) = kept[EqualPairs(a, b)]
  BY <1>6 DEF EqualPairs
<1> HIDE DEF e
<1> QED BY <1>8, <1>9, <1>10

\* The kept pairs are pairs of equal lines, each line in one pair at most, and in
\* the same order on both sides.
Chain(M) == \A p, q \in M : (p[1] < q[1]) <=> (p[2] < q[2])

LEMMA MatchedIs ==
  ASSUME NEW a, NEW b, Len(a) \in Nat, DOMAIN a = 1 .. Len(a),
         DOMAIN b = 1 .. Len(b)
  PROVE  /\ \A p \in Matched(a, b) : /\ p \in (DOMAIN a) \X (DOMAIN b)
                                     /\ a[p[1]] = b[p[2]]
         /\ OneOne(Matched(a, b)) /\ Chain(Matched(a, b))
<1> DEFINE n == Len(a)
           D == SUBSET ((DOMAIN a) \X Nat)
           E0 == EqualPairs(a, b)
           p(X) == BestBlock(X, n)[1]
           k(X) == BestBlock(X, n)[2]
<1>0. PICK f \in [D -> D] :
        /\ Matched(a, b) = f[E0]
        /\ \A X \in D : f[X] = KeptOf(f, X, n)
  BY KeptIs
<1>1. /\ Matched(a, b) = f[E0]
      /\ \A X \in D : f[X] = IF X = {} THEN {}
                               ELSE (Diagonal(p(X), k(X)) \cup f[PairsBefore(X, p(X))])
                                      \cup f[PairsBehind(X, p(X), k(X))]
  <2> HIDE DEF D
  <2> QED BY <1>0 DEF KeptOf
<1>2. D = SUBSET ((1 .. n) \X Nat) /\ n \in Nat
  OBVIOUS
<1>3. ASSUME NEW X \in D, X # {}
      PROVE  /\ p(X) \in X /\ k(X) \in 1 .. n /\ Diagonal(p(X), k(X)) \subseteq X
             /\ PairsBefore(X, p(X)) \in D /\ Spread(PairsBefore(X, p(X))) < Spread(X)
             /\ PairsBehind(X, p(X), k(X)) \in D
             /\ Spread(PairsBehind(X, p(X), k(X))) < Spread(X)
  <2>1. X \in SUBSET ((1 .. n) \X Nat)
    BY <1>2
  <2>2. p(X) \in X /\ k(X) \in 1 .. n /\ Diagonal(p(X), k(X)) \subseteq X
    <3> HIDE DEF n
    <3> QED BY <1>2, <1>3, <2>1, BestBlockIs
  <2> HIDE DEF p, k, n, D
  <2>3. /\ PairsBefore(X, p(X)) \in SUBSET X /\ Spread(PairsBefore(X, p(X))) < Spread(X)
        /\ PairsBehind(X, p(X), k(X)) \in SUBSET X
        /\ Spread(PairsBehind(X, p(X), k(X))) < Spread(X)
    BY <1>2, <2>1, <2>2, RestIsLess
  <2>4. \A Y \in SUBSET X : Y \in D
    BY DEF D
  <2> QED BY <2>2, <2>3, <2>4
<1> HIDE DEF p, k
<1> DEFINE Good(X) == f[X] \subseteq X /\ Chain(f[X])
           T == {m \in Nat : \A X \in D : Spread(X) = m => Good(X)}
<1>4. \A X \in D : Spread(X) \in 0 .. n
  <2> HIDE DEF D, n
  <2> QED BY <1>2, SpreadType
<1>5. ASSUME NEW m \in Nat, \A j \in 0 .. m - 1 : j \in T
      PROVE  m \in T
  <2> SUFFICES ASSUME NEW X \in D, Spread(X) = m PROVE Good(X)
    OBVIOUS
  <2>1. CASE X = {}
    BY <1>1, <2>1 DEF Chain
  <2>2. CASE X # {}
    <3> DEFINE front == PairsBefore(X, p(X))
               behind == PairsBehind(X, p(X), k(X))
               diagonal == Diagonal(p(X), k(X))
    <3>1. ASSUME NEW Y \in D, Spread(Y) < m
          PROVE  Good(Y)
      <4>1. Spread(Y) \in 0 .. m - 1
        BY <1>4, <3>1
      <4>2. Spread(Y) \in T
        <5> HIDE DEF T
        <5> QED BY <1>5, <4>1
      <4> HIDE DEF Good
      <4> QED BY <4>2
    <3>2. Good(front) /\ Good(behind)
      <4> HIDE DEF Good, D
      <4> QED BY <1>3, <2>2, <3>1
    <3>3. f[X] = (diagonal \cup f[front]) \cup f[behind]
      <4> HIDE DEF D
      <4> QED BY <1>1, <2>2
    <3>4. /\ p(X) \in X /\ k(X) \in 1 .. n /\ diagonal \subseteq X
          /\ p(X)[1] \in Int /\ p(X)[2] \in Int
          /\ \A q \in X : q[1] \in Int /\ q[2] \in Int
      <4>1. p(X) \in X /\ k(X) \in 1 .. n /\ diagonal \subseteq X
        BY <1>3, <2>2
      <4> QED BY <1>2, <4>1
    <3>5. \A q \in f[front] : q \in X /\ q[1] < p(X)[1] /\ q[2] < p(X)[2]
      BY <3>2 DEF PairsBefore
    <3>6. \A q \in f[behind] : q \in X /\ q[1] >= p(X)[1] + k(X) /\ q[2] >= p(X)[2] + k(X)
      BY <3>2 DEF PairsBehind
    <3>7. \A q \in diagonal : \E d \in 0 .. k(X) - 1 : q = <<p(X)[1] + d, p(X)[2] + d>>
      BY DEF Diagonal
    <3>8. \A q \in diagonal :
            /\ q \in X
            /\ q[1] - p(X)[1] = q[2] - p(X)[2]
            /\ q[1] >= p(X)[1] /\ q[1] < p(X)[1] + k(X)
            /\ q[2] >= p(X)[2] /\ q[2] < p(X)[2] + k(X)
      <4> SUFFICES ASSUME NEW q \in diagonal
                   PROVE  /\ q \in X
                          /\ q[1] - p(X)[1] = q[2] - p(X)[2]
                          /\ q[1] >= p(X)[1] /\ q[1] < p(X)[1] + k(X)
                          /\ q[2] >= p(X)[2] /\ q[2] < p(X)[2] + k(X)
        <5> HIDE DEF diagonal, D
        <5> QED OBVIOUS
      <4> DEFINE u == p(X)[1]
                 w == p(X)[2]
                 l == k(X)
      <4>1. PICK d \in 0 .. l - 1 : q = <<u + d, w + d>>
        BY <3>7
      <4>2. u \in Int /\ w \in Int /\ l \in Int /\ q \in X
        BY <3>4
      <4> HIDE DEF u, w, l, diagonal, D
      <4>3. q[1] = u + d /\ q[2] = w + d /\ d \in Int /\ 0 <= d /\ d < l
        BY <4>1, <4>2
      <4>4. /\ q[1] - u = d /\ q[2] - w = d
            /\ q[1] >= u /\ q[1] < u + l /\ q[2] >= w /\ q[2] < w + l
        BY <4>2, <4>3
      <4> QED BY <4>2, <4>4 DEF u, w, l
    <3>9. Chain(f[front]) /\ Chain(f[behind])
      BY <3>2
    <3> HIDE DEF front, behind, diagonal, D
    <3>10. f[X] \subseteq X
      BY <3>3, <3>5, <3>6, <3>8
    <3>11. ASSUME NEW q \in f[X], NEW r \in f[X]
           PROVE  (q[1] < r[1]) <=> (q[2] < r[2])
      <4>1. q \in X /\ r \in X /\ q[1] \in Int /\ q[2] \in Int /\ r[1] \in Int /\ r[2] \in Int
        BY <3>4, <3>10
      <4>2. \/ q \in diagonal /\ r \in diagonal
            \/ q \in f[front] /\ r \in f[front]
            \/ q \in f[behind] /\ r \in f[behind]
            \/ q \in diagonal /\ r \in f[front]
            \/ q \in diagonal /\ r \in f[behind]
            \/ r \in diagonal /\ q \in f[front]
            \/ r \in diagonal /\ q \in f[behind]
            \/ q \in f[front] /\ r \in f[behind]
            \/ r \in f[front] /\ q \in f[behind]
        BY <3>3
      <4> DEFINE p1 == p(X)[1]
                 p2 == p(X)[2]
                 k0 == k(X)
      <4>3. k0 \in Int /\ k0 > 0 /\ p1 \in Int /\ p2 \in Int
        BY <3>4
      <4>4. CASE q \in diagonal /\ r \in diagonal
        <5>1. q[1] - p1 = q[2] - p2 /\ r[1] - p1 = r[2] - p2
          BY <3>8, <4>4
        <5> DEFINE x1 == q[1]
                   x2 == q[2]
                   y1 == r[1]
                   y2 == r[2]
        <5>2. /\ x1 \in Int /\ x2 \in Int /\ y1 \in Int /\ y2 \in Int
              /\ x1 - p1 = x2 - p2 /\ y1 - p1 = y2 - p2
          BY <4>1, <5>1
        <5> HIDE DEF p1, p2, k0, x1, x2, y1, y2
        <5>3. (x1 < y1) <=> (x2 < y2)
          BY <4>3, <5>2
        <5> QED BY <5>3 DEF x1, x2, y1, y2
      <4>5. CASE (q \in f[front] /\ r \in f[front]) \/ (q \in f[behind] /\ r \in f[behind])
        BY <3>9, <4>5 DEF Chain
      <4>6. CASE q \in diagonal /\ r \in f[front]
        <5>1. q[1] >= p1 /\ q[2] >= p2
          BY <3>8, <4>6
        <5>2. r[1] < p1 /\ r[2] < p2
          BY <3>5, <4>6
        <5> HIDE DEF p1, p2, k0
        <5> QED BY <4>1, <4>3, <5>1, <5>2
      <4>7. CASE q \in diagonal /\ r \in f[behind]
        <5>1. q[1] < p1 + k0 /\ q[2] < p2 + k0
          BY <3>8, <4>7
        <5>2. r[1] >= p1 + k0 /\ r[2] >= p2 + k0
          BY <3>6, <4>7
        <5> HIDE DEF p1, p2, k0
        <5> QED BY <4>1, <4>3, <5>1, <5>2
      <4>8. CASE r \in diagonal /\ q \in f[front]
        <5>1. r[1] >= p1 /\ r[2] >= p2
          BY <3>8, <4>8
        <5>2. q[1] < p1 /\ q[2] < p2
          BY <3>5, <4>8
        <5> HIDE DEF p1, p2, k0
        <5> QED BY <4>1, <4>3, <5>1, <5>2
      <4>9. CASE r \in diagonal /\ q \in f[behind]
        <5>1. r[1] < p1 + k0 /\ r[2] < p2 + k0
          BY <3>8, <4>9
        <5>2. q[1] >= p1 + k0 /\ q[2] >= p2 + k0
          BY <3>6, <4>9
        <5> HIDE DEF p1, p2, k0
        <5> QED BY <4>1, <4>3, <5>1, <5>2
      <4>10. CASE q \in f[front] /\ r \in f[behind]
        <5>1. q[1] < p1 /\ q[2] < p2 /\ r[1] >= p1 + k0 /\ r[2] >= p2 + k0
          BY <3>5, <3>6, <4>10
        <5> HIDE DEF p1, p2, k0
        <5> QED BY <4>1, <4>3, <5>1
      <4>11. CASE r \in f[front] /\ q \in f[behind]
        <5>1. r[1] < p1 /\ r[2] < p2 /\ q[1] >= p1 + k0 /\ q[2] >= p2 + k0
          BY <3>5, <3>6, <4>11
        <5> HIDE DEF p1, p2, k0
        <5> QED BY <4>1, <4>3, <5>1
      <4> QED BY <4>2, <4>4, <4>5, <4>6, <4>7, <4>8, <4>9, <4>10, <4>11
    <3> QED BY <3>10, <3>11 DEF Chain
  <2> QED BY <2>1, <2>2
<1>6. Nat \subseteq T
  <2> HIDE DEF T
  <2> QED BY <1>5, EveryNumber
<1>7. E0 \in D /\ \A q \in E0 : q \in (DOMAIN a) \X (DOMAIN b) /\ a[q[1]] = b[q[2]]
  <2>1. \A q \in E0 : q \in (DOMAIN a) \X (DOMAIN b) /\ a[q[1]] = b[q[2]]
    BY DEF EqualPairs
  <2>2. \A q \in (DOMAIN a) \X (DOMAIN b) : q \in (DOMAIN a) \X Nat
    OBVIOUS
  <2> HIDE DEF E0
  <2> QED BY <2>1, <2>2
<1>8. Good(E0)
  <2>1. Spread(E0) \in 0 .. n
    <3> HIDE DEF D, n, E0
    <3> QED BY <1>4, <1>7
  <2>2. Spread(E0) \in T
    <3> HIDE DEF T, n, E0
    <3> QED BY <1>6, <2>1
  <2> HIDE DEF Good, E0, D
  <2> QED BY <1>7, <2>2
<1>9. Matched(a, b) \subseteq E0 /\ Chain(Matched(a, b))
  <2> HIDE DEF E0
  <2> QED BY <1>1, <1>8
<1>10. \A q \in Matched(a, b) : q[1] \in Int /\ q[2] \in Int
  <2> HIDE DEF E0
  <2>1. \A q \in (DOMAIN a) \X (DOMAIN b) : q[1] \in Int /\ q[2] \in Int
    OBVIOUS
  <2> QED BY <1>7, <1>9, <2>1
<1>11. OneOne(Matched(a, b))
  <2> SUFFICES ASSUME NEW q \in Matched(a, b), NEW r \in Matched(a, b)
               PROVE  (q[1] = r[1]) <=> (q[2] = r[2])
    BY DEF OneOne
  <2>1. /\ (q[1] < r[1]) <=> (q[2] < r[2])
        /\ (r[1] < q[1]) <=> (r[2] < q[2])
    BY <1>9 DEF Chain
  <2>2. q[1] \in Int /\ q[2] \in Int /\ r[1] \in Int /\ r[2] \in Int
    BY <1>10
  <2> QED BY <2>1, <2>2
<1> HIDE DEF E0
<1> QED BY <1>7, <1>9, <1>11

-----------------------------------------------------------------------------
(* How many of the lines of a sequence are of a kind.                      *)

CountIn(s, W) == Cardinality({i \in DOMAIN s : s[i] \in W})

\* The cardinality of some positions is a number.
LEMMA SomeOf ==
  ASSUME NEW n \in Nat, NEW S \in SUBSET (1 .. n)
  PROVE  IsFiniteSet(S) /\ Cardinality(S) \in Nat
<1>1. IsFiniteSet(1 .. n)
  BY FS_Interval
<1>2. IsFiniteSet(S)
  BY <1>1, FS_Subset
<1> QED BY <1>2, FS_CardinalityType

LEMMA FewerOf ==
  ASSUME NEW n \in Nat, NEW T \in SUBSET (1 .. n), NEW S \in SUBSET T
  PROVE  Cardinality(S) <= Cardinality(T)
<1> QED BY SomeOf, FS_Subset

LEMMA SplitOf ==
  ASSUME NEW n \in Nat, NEW S \in SUBSET (1 .. n), NEW U
  PROVE  Cardinality(S) = Cardinality(S \cap U) + Cardinality(S \ U)
<1>1. S \cap U \in SUBSET (1 .. n) /\ S \ U \in SUBSET (1 .. n)
  OBVIOUS
<1>2. IsFiniteSet(S \cap U) /\ IsFiniteSet(S \ U)
  BY <1>1, SomeOf
<1>3. S = (S \cap U) \cup (S \ U) /\ (S \cap U) \cap (S \ U) = {}
  OBVIOUS
<1>4. Cardinality((S \cap U) \cup (S \ U)) =
        Cardinality(S \cap U) + Cardinality(S \ U) - Cardinality((S \cap U) \cap (S \ U))
  BY <1>2, FS_Union
<1>5. Cardinality(S \cap U) \in Nat /\ Cardinality(S \ U) \in Nat
  BY <1>2, FS_CardinalityType
<1> DEFINE x == Cardinality(S \cap U)
           y == Cardinality(S \ U)
<1>6. Cardinality(S) = x + y - 0
  BY <1>3, <1>4, FS_EmptySet
<1>7. x \in Nat /\ y \in Nat
  BY <1>5
<1> HIDE DEF x, y
<1>8. Cardinality(S) = x + y
  BY <1>6, <1>7
<1> QED BY <1>8 DEF x, y

\* What is picked counts as much as where it is picked.
LEMMA PickedCounts ==
  ASSUME NEW T, NEW s \in Seq(T), NEW at, NEW W
  PROVE  CountIn(Picked(s, at), W) = Cardinality({i \in DOMAIN s : s[i] \in W} \cap at)
<1> DEFINE q == Ordered(at, Len(s))
           r == Picked(s, at)
           K == {k \in DOMAIN r : r[k] \in W}
           S == {i \in DOMAIN s : s[i] \in W} \cap at
           f == [k \in K |-> q[k]]
<1>1. Len(s) \in Nat /\ DOMAIN s = 1 .. Len(s)
  BY LenProperties
<1>2. /\ q \in Seq(Int) /\ Increasing(q) /\ Range(q) = at \cap (1 .. Len(s))
  BY <1>1, OrderedIs
<1>3. /\ r \in Seq(T) /\ Len(r) = Len(q)
      /\ \A k \in DOMAIN q : q[k] \in DOMAIN s /\ r[k] = s[q[k]]
  BY PickedIs
<1> HIDE DEF q, r
<1>4. Len(q) \in Nat /\ DOMAIN q = 1 .. Len(q) /\ DOMAIN r = DOMAIN q
  BY <1>2, <1>3, LenProperties
<1>5. \A k \in DOMAIN q : q[k] \in Int /\ q[k] \in at
  BY <1>2, <1>4 DEF Range
<1>6. f \in [K -> S]
  BY <1>3, <1>4, <1>5
<1>7. \A j, k \in K : f[j] = f[k] => j = k
  <2> SUFFICES ASSUME NEW j \in K, NEW k \in K, q[j] = q[k]
               PROVE  j = k
    OBVIOUS
  <2>1. j \in 1 .. Len(q) /\ k \in 1 .. Len(q) /\ q[j] \in Int
    BY <1>4, <1>5
  <2>2. ~ (j < k) /\ ~ (k < j)
    BY <1>2, <1>4, <1>5, <2>1 DEF Increasing
  <2> QED BY <1>4, <2>1, <2>2
<1>8. \A i \in S : \E k \in K : f[k] = i
  <2> TAKE i \in S
  <2>1. PICK k \in DOMAIN q : q[k] = i
    BY <1>1, <1>2 DEF Range
  <2> QED BY <1>3, <1>4, <2>1
<1>9. f \in Bijection(K, S)
  <2> HIDE DEF f, K, S
  <2> QED BY <1>6, <1>7, <1>8 DEF Bijection, Injection, Surjection, IsInjective
<1>10. IsFiniteSet(K)
  <2>1. K \in SUBSET (1 .. Len(q))
    BY <1>4
  <2> HIDE DEF K
  <2> QED BY <1>4, <2>1, SomeOf
<1>11. ExistsBijection(K, S)
  BY <1>9 DEF ExistsBijection
<1>12. Cardinality(S) = Cardinality(K)
  <2> HIDE DEF f, K, S
  <2> QED BY <1>10, <1>11, FS_Bijection
<1> QED BY <1>12 DEF CountIn, r

-----------------------------------------------------------------------------
(* What is gone and what is new make the difference.                       *)

LEMMA RawCounts ==
  ASSUME NEW T, NEW a \in Seq(T), NEW b \in Seq(T), NEW W
  PROVE  /\ RawDiff(a, b).removed \in Seq(T) /\ RawDiff(a, b).added \in Seq(T)
         /\ CountIn(a, W) \in Nat /\ CountIn(b, W) \in Nat
         /\ CountIn(RawDiff(a, b).removed, W) \in Nat
         /\ CountIn(RawDiff(a, b).added, W) \in Nat
         /\ CountIn(a, W) + CountIn(RawDiff(a, b).added, W) =
              CountIn(b, W) + CountIn(RawDiff(a, b).removed, W)
<1> DEFINE M  == Matched(a, b)
           M1 == {p[1] : p \in M}
           M2 == {p[2] : p \in M}
           X  == {i \in DOMAIN a : a[i] \in W}
           Y  == {j \in DOMAIN b : b[j] \in W}
           R  == Picked(a, DOMAIN a \ M1)
           A  == Picked(b, DOMAIN b \ M2)
<1>1. /\ Len(a) \in Nat /\ DOMAIN a = 1 .. Len(a)
      /\ Len(b) \in Nat /\ DOMAIN b = 1 .. Len(b)
  BY LenProperties
<1>2. RawDiff(a, b).removed = R /\ RawDiff(a, b).added = A
  BY DEF RawDiff
<1>3. R \in Seq(T) /\ A \in Seq(T)
  <2> HIDE DEF M1, M2
  <2> QED BY PickedIs
<1>4. /\ \A p \in M : p \in (DOMAIN a) \X (DOMAIN b) /\ a[p[1]] = b[p[2]]
      /\ OneOne(M)
  BY <1>1, MatchedIs
<1>5. /\ CountIn(R, W) = Cardinality(X \cap (DOMAIN a \ M1))
      /\ CountIn(A, W) = Cardinality(Y \cap (DOMAIN b \ M2))
  <2> HIDE DEF M1, M2
  <2> QED BY PickedCounts
<1>6. X \cap (DOMAIN a \ M1) = X \ M1 /\ Y \cap (DOMAIN b \ M2) = Y \ M2
  OBVIOUS
<1>7. X \in SUBSET (1 .. Len(a)) /\ Y \in SUBSET (1 .. Len(b))
  BY <1>1
<1>8. /\ Cardinality(X) = Cardinality(X \cap M1) + Cardinality(X \ M1)
      /\ Cardinality(Y) = Cardinality(Y \cap M2) + Cardinality(Y \ M2)
  <2> HIDE DEF X, Y, M1, M2
  <2> QED BY <1>1, <1>7, SplitOf
<1>9. Cardinality(X \cap M1) = Cardinality(Y \cap M2)
  <2> DEFINE P == X \cap M1
             Q == Y \cap M2
             other(i) == (CHOOSE p \in M : p[1] = i)[2]
             f == [i \in P |-> other(i)]
  <2> HIDE DEF M
  <2>1. \A i \in P : \E p \in M : p[1] = i /\ p[2] = other(i) /\ p[2] \in Q
    <3> TAKE i \in P
    <3>1. \E p \in M : p[1] = i
      OBVIOUS
    <3> DEFINE z == CHOOSE p \in M : p[1] = i
    <3>2. z \in M /\ z[1] = i
      BY <3>1
    <3> HIDE DEF z
    <3>3. a[z[1]] = b[z[2]] /\ z[2] \in DOMAIN b
      BY <1>4, <3>2
    <3>4. z[2] \in Q
      BY <3>2, <3>3
    <3>5. other(i) = z[2]
      BY DEF z
    <3> QED BY <3>2, <3>4, <3>5
  <2> HIDE DEF other
  <2>2. f \in [P -> Q]
    BY <2>1
  <2>3. \A i, j \in P : f[i] = f[j] => i = j
    <3> SUFFICES ASSUME NEW i \in P, NEW j \in P, other(i) = other(j)
                 PROVE  i = j
      OBVIOUS
    <3> HIDE DEF P, Q
    <3>1. PICK p \in M : p[1] = i /\ p[2] = other(i)
      BY <2>1
    <3>2. PICK r \in M : r[1] = j /\ r[2] = other(j)
      BY <2>1
    <3> QED BY <1>4, <3>1, <3>2 DEF OneOne
  <2>4. \A j \in Q : \E i \in P : f[i] = j
    <3> TAKE j \in Q
    <3>1. PICK p \in M : p[2] = j
      OBVIOUS
    <3>2. a[p[1]] = b[p[2]] /\ p[1] \in DOMAIN a
      BY <1>4, <3>1
    <3>3. p[1] \in P
      BY <3>1, <3>2
    <3>4. PICK r \in M : r[1] = p[1] /\ r[2] = other(p[1])
      <4> HIDE DEF P, Q
      <4> QED BY <2>1, <3>3
    <3>5. r[2] = p[2]
      BY <1>4, <3>4 DEF OneOne
    <3>6. f[p[1]] = j
      <4> HIDE DEF P, Q
      <4> QED BY <3>1, <3>3, <3>4, <3>5
    <3> QED BY <3>3, <3>6
  <2>5. P \in SUBSET (1 .. Len(a))
    BY <1>7
  <2> HIDE DEF P, Q, f
  <2>6. f \in Bijection(P, Q)
    BY <2>2, <2>3, <2>4 DEF Bijection, Injection, Surjection, IsInjective
  <2>7. ExistsBijection(P, Q)
    BY <2>6 DEF ExistsBijection
  <2>8. IsFiniteSet(P)
    BY <1>1, <2>5, SomeOf
  <2>9. Cardinality(P) = Cardinality(Q)
    BY <2>7, <2>8, FS_Bijection
  <2> QED BY <2>9 DEF P, Q
<1>10. /\ Cardinality(X) \in Nat /\ Cardinality(Y) \in Nat
       /\ Cardinality(X \ M1) \in Nat /\ Cardinality(Y \ M2) \in Nat
       /\ Cardinality(X \cap M1) \in Nat
  <2>1. X \ M1 \in SUBSET (1 .. Len(a)) /\ Y \ M2 \in SUBSET (1 .. Len(b))
        /\ X \cap M1 \in SUBSET (1 .. Len(a))
    BY <1>7
  <2> HIDE DEF X, Y, M1, M2
  <2> QED BY <1>1, <1>7, <2>1, SomeOf
<1> HIDE DEF X, Y, M1, M2, R, A
<1>11. Cardinality(X) + Cardinality(Y \ M2) = Cardinality(Y) + Cardinality(X \ M1)
  BY <1>8, <1>9, <1>10
<1>12. CountIn(a, W) = Cardinality(X) /\ CountIn(b, W) = Cardinality(Y)
  BY DEF CountIn, X, Y
<1> QED BY <1>2, <1>3, <1>5, <1>6, <1>10, <1>11, <1>12

-----------------------------------------------------------------------------
(* What is moved uses up what is new.                                      *)

LineOf(K) == [depth : Int, key : K, folded : BOOLEAN]

\* Some line like x is the n-th of them, for every n up to their count.
LEMMA HasOccurrence ==
  ASSUME NEW s, Len(s) \in Nat, DOMAIN s = 1 .. Len(s), NEW x, NEW n \in Nat \ {0},
         n <= CountOf(s, x)
  PROVE  \E j \in DOMAIN s : s[j] = x /\ Occurrence(s, j) = n
<1> DEFINE upTo(l) == {j \in 1 .. l : s[j] = x}
           Good(l) == n <= Cardinality(upTo(l)) =>
                        \E j \in 1 .. l : s[j] = x /\ Occurrence(s, j) = n
           S == {l \in 0 .. Len(s) : Good(l)}
<1>1. 0 \in S
  <2>1. upTo(0) = {}
    OBVIOUS
  <2>2. Cardinality(upTo(0)) = 0
    BY <2>1, FS_EmptySet
  <2>3. ~ (n <= Cardinality(upTo(0)))
    <3> HIDE DEF upTo
    <3> QED BY <2>2
  <2> QED BY <2>3
<1>2. ASSUME NEW k \in 1 .. Len(s), k - 1 \in S
      PROVE  k \in S
  <2>1. k \in Nat /\ k - 1 \in Nat /\ Good(k - 1)
    BY <1>2
  <2>2. \A l \in Nat : IsFiniteSet(upTo(l)) /\ Cardinality(upTo(l)) \in Nat
    <3> TAKE l \in Nat
    <3>1. upTo(l) \in SUBSET (1 .. l)
      OBVIOUS
    <3> HIDE DEF upTo
    <3> QED BY <3>1, SomeOf
  <2> SUFFICES ASSUME n <= Cardinality(upTo(k))
               PROVE  \E j \in 1 .. k : s[j] = x /\ Occurrence(s, j) = n
    OBVIOUS
  <2>3. CASE n <= Cardinality(upTo(k - 1))
    <3>1. PICK j \in 1 .. k - 1 : s[j] = x /\ Occurrence(s, j) = n
      <4> HIDE DEF upTo
      <4> QED BY <2>1, <2>3
    <3>2. j \in 1 .. k
      BY <2>1
    <3> QED BY <3>1, <3>2
  <2>4. CASE ~ (n <= Cardinality(upTo(k - 1)))
    <3>1. CASE s[k] # x
      <4>1. upTo(k) = upTo(k - 1)
        <5>1. \A i \in 1 .. k : i \in 1 .. k - 1 \/ i = k
          BY <2>1
        <5>2. \A i \in 1 .. k - 1 : i \in 1 .. k
          BY <2>1
        <5> QED BY <3>1, <5>1, <5>2
      <4> HIDE DEF upTo
      <4> QED BY <2>4, <4>1
    <3>2. CASE s[k] = x
      <4>1. upTo(k) = upTo(k - 1) \cup {k} /\ k \notin upTo(k - 1)
        <5>1. \A i \in 1 .. k : i \in 1 .. k - 1 \/ i = k
          BY <2>1
        <5>2. \A i \in 1 .. k - 1 : i \in 1 .. k
          BY <2>1
        <5>3. k \in 1 .. k /\ k \notin 1 .. k - 1
          BY <2>1
        <5> QED BY <3>2, <5>1, <5>2, <5>3
      <4>2. Occurrence(s, k) = Cardinality(upTo(k))
        BY <3>2 DEF Occurrence
      <4> HIDE DEF upTo
      <4>3. Cardinality(upTo(k)) = Cardinality(upTo(k - 1)) + 1
        BY <2>1, <2>2, <4>1, FS_AddElement
      <4>4. n = Cardinality(upTo(k))
        BY <2>1, <2>2, <2>4, <4>3
      <4>5. k \in 1 .. k
        BY <2>1
      <4> QED BY <3>2, <4>2, <4>4, <4>5
    <3> QED BY <3>1, <3>2
  <2> QED BY <2>3, <2>4
<1>3. Len(s) \in S
  <2>1. \A l \in 0 .. Len(s) : l \in S
    <3> HIDE DEF S
    <3> QED BY <1>1, <1>2, EveryUpTo
  <2> QED BY <2>1
<1>4. Good(Len(s)) /\ CountOf(s, x) = Cardinality(upTo(Len(s)))
  BY <1>3 DEF CountOf
<1> QED BY <1>4

\* Two places of like lines are not the same of them.
LEMMA OccurrenceApart ==
  ASSUME NEW s, Len(s) \in Nat, DOMAIN s = 1 .. Len(s),
         NEW i \in DOMAIN s, NEW j \in DOMAIN s, s[i] = s[j],
         Occurrence(s, i) = Occurrence(s, j)
  PROVE  i = j
<1>1. ASSUME NEW l \in DOMAIN s, NEW m \in DOMAIN s, l < m, s[l] = s[m]
      PROVE  Occurrence(s, l) # Occurrence(s, m)
  <2> DEFINE L == {k \in 1 .. l : s[k] = s[l]}
             U == {k \in 1 .. m : s[k] = s[m]}
  <2>1. L \in SUBSET U /\ m \in U /\ m \notin L /\ U \in SUBSET (1 .. m)
    BY <1>1
  <2>2. Occurrence(s, l) = Cardinality(L) /\ Occurrence(s, m) = Cardinality(U)
    BY DEF Occurrence
  <2>3. m \in Nat
    OBVIOUS
  <2> HIDE DEF L, U
  <2>4. IsFiniteSet(U)
    BY <2>1, <2>3, SomeOf
  <2>5. Cardinality(U) # Cardinality(L)
    BY <2>1, <2>4, FS_Subset
  <2> QED BY <2>2, <2>5
<1>2. i \in Int /\ j \in Int
  OBVIOUS
<1>3. ~ (i < j) /\ ~ (j < i)
  BY <1>1
<1> QED BY <1>2, <1>3

LEMMA ShiftedIs ==
  ASSUME NEW K, NEW x \in LineOf(K), NEW d \in Int
  PROVE  /\ Shifted(x, d) \in LineOf(K)
         /\ Shifted(x, d).key = x.key /\ Shifted(x, d).folded = x.folded
         /\ Shifted(x, d).depth = x.depth + d
<1> QED BY DEF LineOf, Shifted

LEMMA ShiftedApart ==
  ASSUME NEW K, NEW x \in LineOf(K), NEW y \in LineOf(K), NEW d \in Int,
         Shifted(x, d) = Shifted(y, d)
  PROVE  x = y
<1>1. x.key = y.key /\ x.folded = y.folded /\ x.depth + d = y.depth + d
  BY ShiftedIs
<1>2. x.depth \in Int /\ y.depth \in Int
  BY DEF LineOf
<1>3. x.depth = y.depth
  <2> DEFINE u == x.depth
             w == y.depth
  <2>1. u \in Int /\ w \in Int /\ u + d = w + d
    BY <1>1, <1>2
  <2> HIDE DEF u, w
  <2>2. u = w
    BY <2>1
  <2> QED BY <2>2 DEF u, w
<1> QED BY <1>1, <1>3 DEF LineOf

\* As many gone lines of a kind are told apart as moved as there are new ones of it.
LEMMA MovedCounts ==
  ASSUME NEW K, NEW R \in Seq(LineOf(K)), NEW A \in Seq(LineOf(K)), NEW d \in Int, NEW W,
         \A x \in LineOf(K) : x \in W => Shifted(x, d) \in W
  PROVE  Cardinality({i \in DOMAIN R : R[i] \in W} \cap MovedAt(R, A, d)) <= CountIn(A, W)
<1> DEFINE X == {i \in DOMAIN R : R[i] \in W} \cap MovedAt(R, A, d)
           Y == {j \in DOMAIN A : A[j] \in W}
           Answers(i, j) == A[j] = Shifted(R[i], d) /\ Occurrence(A, j) = Occurrence(R, i)
           f == [i \in X |-> CHOOSE j \in DOMAIN A : Answers(i, j)]
<1>1. /\ Len(R) \in Nat /\ DOMAIN R = 1 .. Len(R) /\ \A i \in DOMAIN R : R[i] \in LineOf(K)
      /\ Len(A) \in Nat /\ DOMAIN A = 1 .. Len(A) /\ \A j \in DOMAIN A : A[j] \in LineOf(K)
  BY LenProperties, ElementOfSeq
<1>2. \A i \in X : \E j \in DOMAIN A : Answers(i, j)
  <2> TAKE i \in X
  <2>1. i \in DOMAIN R /\ Occurrence(R, i) <= CountOf(A, Shifted(R[i], d))
    BY DEF MovedAt
  <2>2. Occurrence(R, i) \in Nat \ {0}
    <3> DEFINE S == {k \in 1 .. i : R[k] = R[i]}
    <3>1. i \in Nat /\ i \in S /\ S \in SUBSET (1 .. i)
      BY <1>1, <2>1
    <3>2. Occurrence(R, i) = Cardinality(S)
      BY DEF Occurrence
    <3> HIDE DEF S
    <3>3. IsFiniteSet(S) /\ Cardinality(S) \in Nat
      BY <3>1, SomeOf
    <3>4. S # {}
      BY <3>1
    <3>5. Cardinality(S) # 0
      BY <3>3, <3>4, FS_EmptySet
    <3> QED BY <3>2, <3>3, <3>5
  <2> QED BY <1>1, <2>1, <2>2, HasOccurrence
<1>3. \A i \in X : f[i] \in DOMAIN A /\ Answers(i, f[i])
  <2> HIDE DEF X, Answers
  <2> QED BY <1>2
<1> HIDE DEF f
<1>4. \A i \in X : i \in DOMAIN R /\ R[i] \in W
  OBVIOUS
<1>5. \A i \in X : f[i] \in Y
  <2> TAKE i \in X
  <2>1. A[f[i]] = Shifted(R[i], d) /\ f[i] \in DOMAIN A
    BY <1>3
  <2> HIDE DEF X
  <2>2. Shifted(R[i], d) \in W
    BY <1>1, <1>4
  <2> QED BY <2>1, <2>2
<1>6. ASSUME NEW i \in X, NEW j \in X, f[i] = f[j]
      PROVE  i = j
  <2>1. /\ A[f[i]] = Shifted(R[i], d) /\ Occurrence(A, f[i]) = Occurrence(R, i)
        /\ A[f[i]] = Shifted(R[j], d) /\ Occurrence(A, f[i]) = Occurrence(R, j)
    BY <1>3, <1>6
  <2>2. i \in DOMAIN R /\ j \in DOMAIN R
    BY <1>4
  <2> HIDE DEF X
  <2>3. Shifted(R[i], d) = Shifted(R[j], d)
    BY <2>1
  <2>4. R[i] = R[j]
    BY <1>1, <2>2, <2>3, ShiftedApart
  <2> QED BY <1>1, <2>1, <2>2, <2>4, OccurrenceApart
<1>7. f \in [X -> Y]
  <2>1. f = [i \in X |-> f[i]]
    <3> HIDE DEF X, Answers
    <3> QED BY DEF f
  <2> HIDE DEF X, Y
  <2> QED BY <1>5, <2>1
<1> HIDE DEF X
<1>8. Y \in SUBSET (1 .. Len(A))
  BY <1>1
<1> HIDE DEF Y
<1>9. f \in Injection(X, Y)
  BY <1>6, <1>7 DEF Injection, IsInjective
<1>10. IsFiniteSet(Y)
  BY <1>1, <1>8, SomeOf
<1>11. Cardinality(X) <= Cardinality(Y)
  BY <1>9, <1>10, FS_Injection
<1> QED BY <1>11 DEF CountIn, X, Y

\* There is a shift that most pairs share.
LEMMA DominantIs ==
  ASSUME NEW K, NEW R \in Seq(LineOf(K)), NEW A \in Seq(LineOf(K)), Shifts(R, A) # {}
  PROVE  DominantShift(R, A) \in Int
<1> DEFINE S == Shifts(R, A)
           count(s) == Cardinality(PairsAt(R, A, s))
           C == Cardinality((DOMAIN R) \X (DOMAIN A))
           f == [s \in S |-> C - count(s)]
           g == [s \in S |-> Distance(s)]
           h == [s \in S |-> s + Distance(s)]
<1>1. /\ Len(R) \in Nat /\ DOMAIN R = 1 .. Len(R) /\ \A i \in DOMAIN R : R[i] \in LineOf(K)
      /\ Len(A) \in Nat /\ DOMAIN A = 1 .. Len(A) /\ \A j \in DOMAIN A : A[j] \in LineOf(K)
  BY LenProperties, ElementOfSeq
<1>2. S \in SUBSET Int
  <2>1. \A x, y \in LineOf(K) : x.depth - y.depth \in Int
    BY DEF LineOf
  <2> SUFFICES ASSUME NEW p \in (DOMAIN R) \X (DOMAIN A)
               PROVE  A[p[2]].depth - R[p[1]].depth \in Int
    BY DEF Shifts
  <2> QED BY <1>1, <2>1
<1>3. IsFiniteSet((DOMAIN R) \X (DOMAIN A))
  <2>1. IsFiniteSet(DOMAIN R) /\ IsFiniteSet(DOMAIN A)
    BY <1>1, FS_Interval
  <2> QED BY <2>1, FS_Product
<1>4. C \in Nat /\ \A s : count(s) \in Nat /\ count(s) <= C
  <2>1. C \in Nat
    BY <1>3, FS_CardinalityType
  <2>2. ASSUME NEW s PROVE count(s) \in Nat /\ count(s) <= C
    <3>1. PairsAt(R, A, s) \in SUBSET ((DOMAIN R) \X (DOMAIN A))
      BY DEF PairsAt
    <3>2. IsFiniteSet(PairsAt(R, A, s)) /\ count(s) <= C
      BY <1>3, <3>1, FS_Subset
    <3> QED BY <3>2, FS_CardinalityType
  <2> QED BY <2>1, <2>2
<1> HIDE DEF count, C
<1>5. f \in [S -> Nat] /\ g \in [S -> Nat] /\ h \in [S -> Nat]
  <2>1. \A s \in S : C - count(s) \in Nat
    BY <1>4
  <2>2. \A s \in S : Distance(s) \in Nat /\ s + Distance(s) \in Nat
    BY <1>2 DEF Distance
  <2> HIDE DEF S
  <2> QED BY <2>1, <2>2
<1>6. PICK s \in S : Best(S, f, g, h, s)
  <2> HIDE DEF S, f, g, h
  <2> QED BY <1>5, BestExists DEF S
<1>7. ASSUME NEW t \in S
      PROVE  \/ count(s) > count(t)
             \/ count(s) = count(t) /\ Distance(s) < Distance(t)
             \/ count(s) = count(t) /\ Distance(s) = Distance(t) /\ s <= t
  <2>1. \/ C - count(s) < C - count(t)
        \/ C - count(s) = C - count(t) /\ Distance(s) < Distance(t)
        \/ /\ C - count(s) = C - count(t) /\ Distance(s) = Distance(t)
           /\ s + Distance(s) <= t + Distance(t)
    <3> HIDE DEF S
    <3> QED BY <1>6 DEF Best
  <2>2. s \in Int /\ t \in Int /\ Distance(s) \in Int /\ Distance(t) \in Int
    <3> HIDE DEF S
    <3> QED BY <1>2 DEF Distance
  <2>3. count(s) \in Int /\ count(t) \in Int /\ C \in Int
    BY <1>4
  <2> QED BY <2>1, <2>2, <2>3
<1>8. DominantShift(R, A) = CHOOSE u \in S : \A t \in S :
          \/ count(u) > count(t)
          \/ count(u) = count(t) /\ Distance(u) < Distance(t)
          \/ count(u) = count(t) /\ Distance(u) = Distance(t) /\ u <= t
  BY DEF DominantShift, count
<1> HIDE DEF S
<1>9. DominantShift(R, A) \in S
  BY <1>6, <1>7, <1>8
<1> QED BY <1>2, <1>9

\* Of what a page has fewer of, as many are reported gone as are missing, and no more
\* are reported moved than the page has.
LEMMA RemovalCounts ==
  ASSUME NEW K, NEW a \in Seq(LineOf(K)), NEW b \in Seq(LineOf(K)), NEW W,
         \A x \in LineOf(K) : \A d \in Int : x \in W => Shifted(x, d) \in W
  PROVE  /\ CountIn(StructureChange(a, b).removed, W) >= CountIn(a, W) - CountIn(b, W)
         /\ CountIn(StructureChange(a, b).moved, W) <= CountIn(b, W)
<1> DEFINE R == RawDiff(a, b).removed
           A == RawDiff(a, b).added
           d == DominantShift(R, A)
           moved == MovedAt(R, A, d)
           change == StructureChange(a, b)
           X == {i \in DOMAIN R : R[i] \in W}
<1>1. /\ R \in Seq(LineOf(K)) /\ A \in Seq(LineOf(K))
      /\ CountIn(a, W) \in Nat /\ CountIn(b, W) \in Nat
      /\ CountIn(R, W) \in Nat /\ CountIn(A, W) \in Nat
      /\ CountIn(a, W) + CountIn(A, W) = CountIn(b, W) + CountIn(R, W)
  BY RawCounts
<1>2. CountIn(A, W) <= CountIn(b, W)
  <2> DEFINE at == DOMAIN b \ {p[2] : p \in Matched(a, b)}
             Y == {j \in DOMAIN b : b[j] \in W}
  <2>1. A = Picked(b, at)
    BY DEF RawDiff
  <2>2. CountIn(A, W) = Cardinality(Y \cap at)
    <3> HIDE DEF A, at
    <3> QED BY <2>1, PickedCounts
  <2>3. Len(b) \in Nat /\ Y \in SUBSET (1 .. Len(b)) /\ Y \cap at \in SUBSET Y
    BY LenProperties
  <2>4. CountIn(b, W) = Cardinality(Y)
    BY DEF CountIn
  <2> HIDE DEF Y, at, A
  <2>5. Cardinality(Y \cap at) <= Cardinality(Y)
    BY <2>3, FewerOf
  <2> QED BY <2>2, <2>4, <2>5
<1>3. change = IF Shifts(R, A) = {}
               THEN [moved |-> << >>, removed |-> R, added |-> A]
               ELSE [moved |-> Picked(R, moved), removed |-> Picked(R, DOMAIN R \ moved),
                     added |-> Reparented(R, A).added]
  BY DEF StructureChange, Reparented
<1> HIDE DEF R, A, change
<1>4. CASE Shifts(R, A) = {}
  <2>1. change.removed = R /\ change.moved = << >>
    BY <1>3, <1>4
  <2>2. CountIn(<< >>, W) = 0
    <3>1. {i \in DOMAIN << >> : << >>[i] \in W} = {}
      OBVIOUS
    <3> QED BY <3>1, FS_EmptySet DEF CountIn
  <2> QED BY <1>1, <2>1, <2>2 DEF change
<1>5. CASE Shifts(R, A) # {}
  <2>1. change.moved = Picked(R, moved) /\ change.removed = Picked(R, DOMAIN R \ moved)
    BY <1>3, <1>5
  <2>2. d \in Int
    BY <1>1, <1>5, DominantIs
  <2> HIDE DEF d
  <2>3. Cardinality(X \cap moved) <= CountIn(A, W)
    BY <1>1, <2>2, MovedCounts
  <2> HIDE DEF moved
  <2>4. /\ CountIn(change.moved, W) = Cardinality(X \cap moved)
        /\ CountIn(change.removed, W) = Cardinality(X \cap (DOMAIN R \ moved))
    <3>1. \A at : CountIn(Picked(R, at), W) = Cardinality(X \cap at)
      <4> HIDE DEF X
      <4> QED BY <1>1, PickedCounts DEF X
    <3> QED BY <2>1, <3>1
  <2>5. X \cap (DOMAIN R \ moved) = X \ moved
    OBVIOUS
  <2>6. Len(R) \in Nat /\ DOMAIN R = 1 .. Len(R)
    BY <1>1, LenProperties
  <2>7. X \in SUBSET (1 .. Len(R)) /\ X \cap moved \in SUBSET (1 .. Len(R))
        /\ X \ moved \in SUBSET (1 .. Len(R))
    BY <2>6
  <2>8. CountIn(R, W) = Cardinality(X)
    BY DEF CountIn
  <2> HIDE DEF X
  <2>9. Cardinality(X) = Cardinality(X \cap moved) + Cardinality(X \ moved)
    BY <2>6, <2>7, SplitOf
  <2>10. Cardinality(X \cap moved) \in Nat /\ Cardinality(X \ moved) \in Nat
    BY <2>6, <2>7, SomeOf
  <2>11. CountIn(change.removed, W) = Cardinality(X \ moved)
    BY <2>4, <2>5
  <2>12. /\ Cardinality(X \ moved) >= CountIn(a, W) - CountIn(b, W)
         /\ Cardinality(X \cap moved) <= CountIn(b, W)
    BY <1>1, <1>2, <2>3, <2>8, <2>9, <2>10
  <2> QED BY <2>4, <2>11, <2>12 DEF change
<1> QED BY <1>4, <1>5

-----------------------------------------------------------------------------
(* No change is reported exactly when the lines are the same.              *)

LEMMA PickedNone ==
  ASSUME NEW T, NEW s \in Seq(T), NEW at
  PROVE  Picked(s, at) = << >> <=> DOMAIN s \cap at = {}
<1> DEFINE n == Len(s)
           q == Ordered(at, n)
<1>1. n \in Nat /\ DOMAIN s = 1 .. n
  BY LenProperties
<1> HIDE DEF n
<1>2. q \in Seq(Int) /\ Range(q) = at \cap (1 .. n)
  BY <1>1, OrderedIs
<1>3. Picked(s, at) \in Seq(T) /\ Len(Picked(s, at)) = Len(q)
  BY PickedIs DEF n
<1> HIDE DEF q
<1>4. Range(q) = {q[i] : i \in 1 .. Len(q)} /\ Len(q) \in Nat
  BY <1>2, RangeEquality, LenProperties
<1>5. Len(q) = 0 <=> Range(q) = {}
  <2>1. Len(q) # 0 => 1 \in 1 .. Len(q)
    BY <1>4
  <2>2. Len(q) = 0 => 1 .. Len(q) = {}
    OBVIOUS
  <2> QED BY <1>4, <2>1, <2>2
<1>6. Picked(s, at) = << >> <=> Len(Picked(s, at)) = 0
  BY <1>3, EmptySeq
<1> QED BY <1>1, <1>2, <1>3, <1>5, <1>6

\* Of two equal sequences every line is kept.
LEMMA SameIsKept ==
  ASSUME NEW T, NEW a \in Seq(T)
  PROVE  \A i \in DOMAIN a : <<i, i>> \in Matched(a, a)
<1> DEFINE n == Len(a)
           E0 == EqualPairs(a, a)
           x == BestBlock(E0, n)
           start == <<1, 1>>
<1>1. n \in Nat /\ DOMAIN a = 1 .. n
  BY LenProperties
<1>2. PICK f \in [SUBSET ((DOMAIN a) \X Nat) -> SUBSET ((DOMAIN a) \X Nat)] :
        /\ Matched(a, a) = f[E0]
        /\ \A E \in SUBSET ((DOMAIN a) \X Nat) : f[E] = KeptOf(f, E, n)
  BY <1>1, KeptIs
<1>3. E0 \in SUBSET ((1 .. n) \X Nat) /\ \A p \in E0 : p[1] \in 1 .. n /\ p[2] \in 1 .. n
  BY <1>1 DEF EqualPairs
<1>4. \A i \in 1 .. n : <<i, i>> \in E0
  BY <1>1 DEF EqualPairs
<1> HIDE DEF E0, n
<1> SUFFICES ASSUME NEW i \in 1 .. n PROVE <<i, i>> \in Matched(a, a)
  BY <1>1
<1>5. n # 0 /\ n \in 1 .. n /\ 1 \in 1 .. n
  BY <1>1
<1>6. start \in E0
  BY <1>4, <1>5
<1>7. \A d \in 0 .. n - 1 : d + 1 \in 1 .. n /\ 1 + d \in 1 .. n
  BY <1>1
<1>8. <<start, n>> \in PairBlocks(E0, n)
  <2>1. Diagonal(start, n) \subseteq E0
    <3>1. start[1] = 1 /\ start[2] = 1
      OBVIOUS
    <3> HIDE DEF start
    <3> QED BY <1>4, <1>7, <3>1 DEF Diagonal
  <2> HIDE DEF start
  <2> QED BY <1>5, <1>6, <2>1 DEF PairBlocks
<1>9. /\ x[1] \in E0 /\ x[2] \in 1 .. n
      /\ Diagonal(x[1], x[2]) \subseteq E0
      /\ FirstLongest(x, <<start, n>>)
  <2> HIDE DEF start
  <2> QED BY <1>1, <1>3, <1>6, <1>8, BestBlockIs
<1> HIDE DEF x
<1>10. x[2] = n
  <2>1. x[2] >= n
    <3>1. <<start, n>>[2] = n
      OBVIOUS
    <3> HIDE DEF start
    <3> QED BY <1>1, <1>9, <3>1 DEF FirstLongest
  <2> QED BY <1>1, <1>9, <2>1
<1>11. x[1][1] = 1 /\ x[1][2] = 1
  <2>1. <<x[1][1] + (n - 1), x[1][2] + (n - 1)>> \in Diagonal(x[1], n)
    <3>1. n - 1 \in 0 .. n - 1
      BY <1>1, <1>5
    <3> QED BY <3>1 DEF Diagonal
  <2>2. x[1][1] + (n - 1) \in 1 .. n /\ x[1][2] + (n - 1) \in 1 .. n
    BY <1>3, <1>9, <1>10, <2>1
  <2>3. x[1][1] \in 1 .. n /\ x[1][2] \in 1 .. n
    BY <1>3, <1>9
  <2> QED BY <1>1, <2>2, <2>3
<1>12. <<i, i>> \in Diagonal(x[1], x[2])
  <2>1. i - 1 \in 0 .. n - 1 /\ 1 + (i - 1) = i
    BY <1>1
  <2> QED BY <1>10, <1>11, <2>1 DEF Diagonal
<1>13. f[E0] = KeptOf(f, E0, n)
  BY <1>1, <1>2, <1>3
<1> QED BY <1>2, <1>6, <1>12, <1>13 DEF KeptOf, x

\* Lines that are all kept, in order, are the same lines.
LEMMA AllKeptIsSame ==
  ASSUME NEW T, NEW a \in Seq(T), NEW b \in Seq(T), NEW M,
         \A p \in M : p \in (DOMAIN a) \X (DOMAIN b) /\ a[p[1]] = b[p[2]],
         Chain(M),
         \A i \in DOMAIN a : \E p \in M : p[1] = i,
         \A j \in DOMAIN b : \E p \in M : p[2] = j
  PROVE  a = b
<1> DEFINE n == Len(a)
           m == Len(b)
           at(i) == (CHOOSE p \in M : p[1] = i)[2]
           q == [i \in 1 .. n |-> at(i)]
           r == [j \in 1 .. m |-> j]
<1>1. n \in Nat /\ DOMAIN a = 1 .. n /\ m \in Nat /\ DOMAIN b = 1 .. m
  BY LenProperties
<1> HIDE DEF n, m
<1>2. \A p \in M : p[1] \in 1 .. n /\ p[2] \in 1 .. m /\ a[p[1]] = b[p[2]]
  BY <1>1
<1>3. ASSUME NEW i \in 1 .. n
      PROVE  \E p \in M : p[1] = i /\ p[2] = at(i)
  <2> DEFINE z == CHOOSE p \in M : p[1] = i
  <2>1. z \in M /\ z[1] = i
    BY <1>1
  <2> QED BY <2>1
<1> HIDE DEF at
<1>4. \A i \in 1 .. n : at(i) \in 1 .. m /\ a[i] = b[at(i)]
  BY <1>2, <1>3
<1>5. q \in Seq(Int) /\ Len(q) = n /\ DOMAIN q = 1 .. n
  <2>1. q \in [1 .. n -> Int]
    BY <1>1, <1>4
  <2> QED BY <1>1, <2>1
<1>6. r \in Seq(Int) /\ Len(r) = m /\ DOMAIN r = 1 .. m
  BY <1>1
<1>7. Increasing(r)
  BY <1>6 DEF Increasing
<1>8. Increasing(q)
  <2> SUFFICES ASSUME NEW i \in 1 .. n, NEW j \in 1 .. n, i < j PROVE at(i) < at(j)
    BY <1>5 DEF Increasing
  <2>1. PICK p \in M : p[1] = i /\ p[2] = at(i)
    BY <1>3
  <2>2. PICK u \in M : u[1] = j /\ u[2] = at(j)
    BY <1>3
  <2> QED BY <2>1, <2>2 DEF Chain
<1>9. Range(q) = 1 .. m
  <2>1. \A j \in 1 .. m : \E i \in 1 .. n : q[i] = j
    <3> SUFFICES ASSUME NEW j \in 1 .. m PROVE \E i \in 1 .. n : q[i] = j
      OBVIOUS
    <3>1. PICK p \in M : p[2] = j
      BY <1>1
    <3>2. p[1] \in 1 .. n
      BY <1>2
    <3>3. PICK u \in M : u[1] = p[1] /\ u[2] = at(p[1])
      BY <1>3, <3>2
    <3>4. u[2] = p[2]
      <4>1. ~ (u[2] < p[2]) /\ ~ (p[2] < u[2])
        BY <1>2, <3>2, <3>3 DEF Chain
      <4> QED BY <1>2, <4>1
    <3> QED BY <3>1, <3>2, <3>3, <3>4
  <2> QED BY <1>4, <1>5, <2>1 DEF Range
<1>10. Range(r) = 1 .. m
  BY <1>6 DEF Range
<1> HIDE DEF q, r
<1>11. q = r
  BY <1>5, <1>6, <1>7, <1>8, <1>9, <1>10, SameMembers
<1>12. n = m /\ \A i \in 1 .. n : at(i) = i
  BY <1>5, <1>6, <1>11 DEF q, r
<1> QED BY <1>4, <1>12, SeqEqual DEF n, m

\* Nothing is gone, new or moved exactly when nothing is different.
LEMMA NoChange ==
  ASSUME NEW T, NEW a \in Seq(T), NEW b \in Seq(T)
  PROVE  ChangeKinds(StructureChange(a, b)) = {} <=> a = b
<1> DEFINE R == RawDiff(a, b).removed
           A == RawDiff(a, b).added
           M == Matched(a, b)
           M1 == {p[1] : p \in M}
           M2 == {p[2] : p \in M}
           change == StructureChange(a, b)
           moved == MovedAt(R, A, DominantShift(R, A))
<1>1. R \in Seq(T) /\ A \in Seq(T)
  BY RawCounts
<1>2. R = Picked(a, DOMAIN a \ M1) /\ A = Picked(b, DOMAIN b \ M2)
  BY DEF RawDiff
<1>3. R = << >> /\ A = << >> <=> DOMAIN a \subseteq M1 /\ DOMAIN b \subseteq M2
  <2> HIDE DEF M1, M2, R, A
  <2>1. R = << >> <=> DOMAIN a \cap (DOMAIN a \ M1) = {}
    BY <1>2, PickedNone
  <2>2. A = << >> <=> DOMAIN b \cap (DOMAIN b \ M2) = {}
    BY <1>2, PickedNone
  <2> QED BY <2>1, <2>2
<1>4. ChangeKinds(change) = {} <=>
        change.moved = << >> /\ change.removed = << >> /\ change.added = << >>
  <2>1. DOMAIN change = {"moved", "removed", "added"}
    BY DEF StructureChange, Reparented
  <2> HIDE DEF change
  <2> QED BY <2>1 DEF ChangeKinds
<1>5. ChangeKinds(change) = {} <=> R = << >> /\ A = << >>
  <2>1. change = Reparented(R, A)
    BY DEF StructureChange
  <2>2. R = << >> => Shifts(R, A) = {}
    BY DEF Shifts
  <2>3. CASE Shifts(R, A) = {}
    <3>1. change.moved = << >> /\ change.removed = R /\ change.added = A
      BY <2>1, <2>3 DEF Reparented
    <3> HIDE DEF change, R, A
    <3> QED BY <1>4, <3>1
  <2>4. CASE Shifts(R, A) # {}
    <3>1. change.moved = Picked(R, moved) /\ change.removed = Picked(R, DOMAIN R \ moved)
      BY <2>1, <2>4 DEF Reparented
    <3> HIDE DEF change, moved, R, A
    <3>2. ~ (Picked(R, moved) = << >> /\ Picked(R, DOMAIN R \ moved) = << >>)
      <4>1. ASSUME DOMAIN R = {} PROVE FALSE
        BY <1>1, <2>2, <2>4, <4>1, EmptySeq, LenProperties
      <4>2. /\ Picked(R, moved) = << >> <=> DOMAIN R \cap moved = {}
            /\ Picked(R, DOMAIN R \ moved) = << >> <=> DOMAIN R \cap (DOMAIN R \ moved) = {}
        BY <1>1, PickedNone
      <4> QED BY <4>1, <4>2
    <3> QED BY <1>4, <2>2, <2>4, <3>1, <3>2
  <2> QED BY <2>3, <2>4
<1>6. ASSUME a = b PROVE DOMAIN a \subseteq M1 /\ DOMAIN b \subseteq M2
  <2>1. \A i \in DOMAIN a : <<i, i>> \in M
    BY <1>6, SameIsKept
  <2>2. \A i : <<i, i>>[1] = i /\ <<i, i>>[2] = i
    OBVIOUS
  <2> HIDE DEF M
  <2> QED BY <1>6, <2>1, <2>2
<1>7. ASSUME DOMAIN a \subseteq M1, DOMAIN b \subseteq M2 PROVE a = b
  <2>1. Len(a) \in Nat /\ DOMAIN a = 1 .. Len(a) /\ DOMAIN b = 1 .. Len(b)
    BY LenProperties
  <2>2. /\ \A p \in M : p \in (DOMAIN a) \X (DOMAIN b) /\ a[p[1]] = b[p[2]]
        /\ Chain(M)
    BY <2>1, MatchedIs
  <2> HIDE DEF M
  <2>3. /\ \A i \in DOMAIN a : \E p \in M : p[1] = i
        /\ \A j \in DOMAIN b : \E p \in M : p[2] = j
    BY <1>7
  <2> HIDE DEF M1, M2
  <2> QED BY <2>2, <2>3, AllKeptIsSame
<1> HIDE DEF change, R, A, M1, M2
<1> QED BY <1>3, <1>5, <1>6, <1>7 DEF change

-----------------------------------------------------------------------------
(* What is below what.                                                     *)

\* A node is numbered behind its parent.
Tree(tree) ==
  /\ tree \in Seq(Node)
  /\ \A k \in DOMAIN tree : tree[k].parent < k

Inside(tree, k, n) == k = n \/ Descends(tree, k, n)

LEMMA TreeIs ==
  ASSUME NEW tree, Tree(tree)
  PROVE  /\ Len(tree) \in Nat /\ DOMAIN tree = 1 .. Len(tree)
         /\ \A k \in 1 .. Len(tree) : tree[k] \in Node /\ tree[k].parent \in 0 .. k - 1
<1>1. Len(tree) \in Nat /\ DOMAIN tree = 1 .. Len(tree)
  BY LenProperties DEF Tree
<1>2. \A k \in 1 .. Len(tree) : tree[k] \in Node
  BY ElementOfSeq DEF Tree
<1>3. \A k \in 1 .. Len(tree) : tree[k].parent \in Nat /\ tree[k].parent < k
  BY <1>1, <1>2 DEF Tree, Node
<1>4. \A k \in 1 .. Len(tree) : tree[k].parent \in 0 .. k - 1
  BY <1>1, <1>3
<1> QED BY <1>1, <1>2, <1>4

LEMMA DescendsIs ==
  ASSUME NEW tree, Tree(tree), NEW n
  PROVE  /\ ~ Descends(tree, 0, n)
         /\ \A k \in 1 .. Len(tree) :
              Descends(tree, k, n) <=> Inside(tree, tree[k].parent, n)
<1> DEFINE D == 0 .. Len(tree)
           e(g, j) == j # 0 /\ (tree[j].parent = n \/ g[tree[j].parent])
           E == [g \in [D -> BOOLEAN] |-> [j \in D |-> e(g, j)]]
           measure == [j \in D |-> j]
<1>1. Len(tree) \in Nat /\ \A k \in 1 .. Len(tree) : tree[k].parent \in 0 .. k - 1
  BY TreeIs
<1>2. Determined(D, BOOLEAN, Len(tree), measure, E)
  <2>1. measure \in [D -> 0 .. Len(tree)]
    BY <1>1
  <2>2. \A g \in [D -> BOOLEAN], j \in D : e(g, j) \in BOOLEAN
    BY <1>1
  <2>3. E \in [[D -> BOOLEAN] -> [D -> BOOLEAN]]
    <3> HIDE DEF e, D
    <3> QED BY <2>2
  <2>4. \A j \in D : \A g, h \in [D -> BOOLEAN] :
          (\A i \in D : measure[i] < measure[j] => g[i] = h[i]) => E[g][j] = E[h][j]
    <3> SUFFICES ASSUME NEW j \in D, NEW g \in [D -> BOOLEAN], NEW h \in [D -> BOOLEAN],
                        \A i \in D : i < j => g[i] = h[i]
                 PROVE  e(g, j) = e(h, j)
      OBVIOUS
    <3>1. j # 0 => tree[j].parent \in D /\ tree[j].parent < j
      BY <1>1
    <3> QED BY <3>1
  <2> HIDE DEF D, E, measure
  <2> QED BY <1>1, <2>1, <2>3, <2>4 DEF Determined
<1>3. PICK f0 \in [D -> BOOLEAN] : f0 = [j \in D |-> e(f0, j)]
  <2>1. \E f \in [D -> BOOLEAN] : f = E[f]
    <3> HIDE DEF D, E, measure
    <3> QED BY <1>2, Recursion
  <2> HIDE DEF e, D
  <2> QED BY <2>1
<1> DEFINE below == CHOOSE f : f = [j \in D |-> e(f, j)]
<1>4. below = [j \in D |-> e(below, j)]
  <2> HIDE DEF e
  <2> QED BY <1>3
<1>5. \A k : Descends(tree, k, n) = below[k]
  BY DEF Descends
<1>6. \A j \in D : below[j] = e(below, j)
  <2> HIDE DEF below, e
  <2> QED BY <1>4
<1> HIDE DEF below
<1>7. ~ Descends(tree, 0, n)
  <2>1. 0 \in D
    BY <1>1
  <2>2. below[0] = e(below, 0)
    <3> HIDE DEF e
    <3> QED BY <1>6, <2>1
  <2>3. ~ below[0]
    BY <2>2
  <2> QED BY <1>5, <2>3
<1>8. ASSUME NEW k \in 1 .. Len(tree)
      PROVE  Descends(tree, k, n) <=> Inside(tree, tree[k].parent, n)
  <2>1. below[k] = (k # 0 /\ (tree[k].parent = n \/ below[tree[k].parent]))
    BY <1>1, <1>6
  <2>2. Descends(tree, k, n) = below[k] /\ Descends(tree, tree[k].parent, n) = below[tree[k].parent]
    BY <1>5
  <2> QED BY <2>1, <2>2 DEF Inside
<1> QED BY <1>7, <1>8

LEMMA KidsAre ==
  ASSUME NEW tree, Tree(tree), NEW n \in 0 .. Len(tree)
  PROVE  /\ Kids(tree, n) \in Seq(Int)
         /\ Increasing(Kids(tree, n))
         /\ Len(Kids(tree, n)) \in Nat
         /\ DOMAIN Kids(tree, n) = 1 .. Len(Kids(tree, n))
         /\ \A c \in DOMAIN Kids(tree, n) :
              /\ Kids(tree, n)[c] \in n + 1 .. Len(tree)
              /\ tree[Kids(tree, n)[c]].parent = n
         /\ \A k \in 1 .. Len(tree) :
              tree[k].parent = n => \E c \in DOMAIN Kids(tree, n) : Kids(tree, n)[c] = k
<1> DEFINE K == {k \in DOMAIN tree : tree[k].parent = n}
           q == Kids(tree, n)
<1>1. /\ Len(tree) \in Nat /\ DOMAIN tree = 1 .. Len(tree)
      /\ \A k \in 1 .. Len(tree) : tree[k].parent \in 0 .. k - 1
  BY TreeIs
<1>2. q = Ordered(K, Len(tree))
  BY DEF Kids
<1>3. K \cap (1 .. Len(tree)) = K
  BY <1>1
<1>4. q \in Seq(Int) /\ Increasing(q) /\ Range(q) = K
  <2> HIDE DEF q, K
  <2> QED BY <1>1, <1>2, <1>3, OrderedIs
<1> HIDE DEF q
<1>5. Len(q) \in Nat /\ DOMAIN q = 1 .. Len(q)
  BY <1>4, LenProperties
<1>6. \A c \in DOMAIN q : q[c] \in K
  <2> HIDE DEF K
  <2> QED BY <1>4 DEF Range
<1>7. \A k \in K : \E c \in DOMAIN q : q[c] = k
  <2> HIDE DEF K
  <2> QED BY <1>4 DEF Range
<1>8. \A k \in K : k \in n + 1 .. Len(tree)
  BY <1>1
<1> QED BY <1>1, <1>4, <1>5, <1>6, <1>7, <1>8 DEF q

\* What is below a node is one of its children or below one.
LEMMA DescendsByChild ==
  ASSUME NEW tree, Tree(tree), NEW n \in 0 .. Len(tree), NEW k \in 0 .. Len(tree)
  PROVE  Descends(tree, k, n) <=>
           \E c \in DOMAIN Kids(tree, n) : Inside(tree, k, Kids(tree, n)[c])
<1> DEFINE q == Kids(tree, n)
           Good(j) == Descends(tree, j, n) <=> \E c \in DOMAIN q : Inside(tree, j, q[c])
           S == {j \in Nat : j <= Len(tree) => Good(j)}
<1>1. /\ Len(tree) \in Nat
      /\ \A j \in 1 .. Len(tree) : tree[j].parent \in 0 .. j - 1
  BY TreeIs
<1>2. /\ \A c \in DOMAIN q : q[c] \in 1 .. Len(tree) /\ tree[q[c]].parent = n
      /\ \A j \in 1 .. Len(tree) : tree[j].parent = n => \E c \in DOMAIN q : q[c] = j
  BY <1>1, KidsAre
<1> HIDE DEF q
<1>3. ASSUME NEW j \in Nat, \A m \in 0 .. j - 1 : m \in S
      PROVE  j \in S
  <2> SUFFICES ASSUME j <= Len(tree) PROVE Good(j)
    OBVIOUS
  <2>1. CASE j = 0
    BY <1>1, <1>2, <2>1, DescendsIs DEF Inside
  <2>2. CASE j # 0
    <3> DEFINE up == tree[j].parent
    <3>1. j \in 1 .. Len(tree) /\ up \in 0 .. j - 1
      BY <1>1, <2>2
    <3>2. Good(up)
      <4>1. up \in S /\ up <= Len(tree)
        BY <1>1, <1>3, <3>1
      <4> HIDE DEF Good
      <4> QED BY <4>1
    <3>3. Descends(tree, j, n) <=> (up = n \/ Descends(tree, up, n))
      BY <3>1, DescendsIs DEF Inside
    <3>4. \A c : Descends(tree, j, q[c]) <=> Inside(tree, up, q[c])
      BY <3>1, DescendsIs
    <3>5. ASSUME up = n
          PROVE  \E c \in DOMAIN q : Inside(tree, j, q[c])
      BY <1>2, <3>1, <3>5 DEF Inside
    <3>6. ASSUME Descends(tree, up, n)
          PROVE  \E c \in DOMAIN q : Inside(tree, j, q[c])
      BY <3>2, <3>4, <3>6 DEF Inside
    <3>7. ASSUME NEW c \in DOMAIN q, Inside(tree, j, q[c])
          PROVE  up = n \/ Descends(tree, up, n)
      <4>1. CASE j = q[c]
        BY <1>2, <4>1
      <4>2. CASE j # q[c]
        BY <3>2, <3>4, <3>7, <4>2 DEF Inside
      <4> QED BY <4>1, <4>2
    <3> QED BY <3>3, <3>5, <3>6, <3>7
  <2> QED BY <2>1, <2>2
<1>4. Nat \subseteq S
  <2> HIDE DEF S
  <2> QED BY <1>3, EveryNumber
<1>5. Good(k)
  <2> HIDE DEF Good
  <2> QED BY <1>1, <1>4
<1> QED BY <1>5 DEF q

-----------------------------------------------------------------------------
(* The runs of text in an element, by the runs in its children.            *)

Blocks(tree, ts, m) ==
  [c \in DOMAIN Kids(tree, m) |->
     InOrder(tree, ts, Kids(tree, m)[c]) \o OwnRuns(ts, m, c)]

LEMMA OwnRunsAre ==
  ASSUME NEW ts, Len(ts) \in Nat, DOMAIN ts = 1 .. Len(ts), NEW m, NEW c
  PROVE  /\ OwnRuns(ts, m, c) \in Seq(Int)
         /\ Increasing(OwnRuns(ts, m, c))
         /\ Range(OwnRuns(ts, m, c)) = {i \in DOMAIN ts : ts[i].at = m /\ ts[i].after = c}
<1> DEFINE S == {i \in DOMAIN ts : ts[i].at = m /\ ts[i].after = c}
<1>1. OwnRuns(ts, m, c) = Ordered(S, Len(ts)) /\ S \cap (1 .. Len(ts)) = S
  BY DEF OwnRuns
<1> HIDE DEF S
<1> QED BY <1>1, OrderedIs DEF S

LEMMA InOrderIs ==
  ASSUME NEW tree, Tree(tree), NEW ts, Len(ts) \in Nat, DOMAIN ts = 1 .. Len(ts)
  PROVE  \A m \in 0 .. Len(tree) :
           InOrder(tree, ts, m) = OwnRuns(ts, m, 0) \o FlattenSeq(Blocks(tree, ts, m))
<1> DEFINE N == Len(tree)
           D == 0 .. N
           V == Seq(Int)
           kids(m) == Kids(tree, m)
           b(g, m) == [c \in DOMAIN kids(m) |-> g[kids(m)[c]] \o OwnRuns(ts, m, c)]
           e(g, m) == OwnRuns(ts, m, 0) \o FlattenSeq(b(g, m))
           E == [g \in [D -> V] |-> [m \in D |-> e(g, m)]]
           measure == [m \in D |-> N - m]
<1>1. N \in Nat
  BY TreeIs
<1>2. \A m \in D : /\ Len(kids(m)) \in Nat /\ DOMAIN kids(m) = 1 .. Len(kids(m))
                   /\ \A c \in DOMAIN kids(m) : kids(m)[c] \in m + 1 .. N
  BY KidsAre
<1> HIDE DEF kids
<1>3. Determined(D, V, N, measure, E)
  <2>1. measure \in [D -> 0 .. N]
    BY <1>1
  <2>2. \A g \in [D -> V], m \in D : e(g, m) \in V
    <3> TAKE g \in [D -> V], m \in D
    <3>1. \A c \in DOMAIN kids(m) : g[kids(m)[c]] \o OwnRuns(ts, m, c) \in Seq(Int)
      <4> TAKE c \in DOMAIN kids(m)
      <4>1. kids(m)[c] \in D
        BY <1>1, <1>2
      <4> QED BY <4>1, OwnRunsAre, ConcatProperties
    <3>2. b(g, m) \in Seq(Seq(Int))
      <4>1. b(g, m) \in [1 .. Len(kids(m)) -> Seq(Int)]
        BY <1>2, <3>1
      <4> HIDE DEF b
      <4> QED BY <1>2, <4>1
    <3>3. FlattenSeq(b(g, m)) \in Seq(Int)
      <4> HIDE DEF b
      <4> QED BY <3>2, FlattenType
    <3> HIDE DEF b
    <3> QED BY <3>3, OwnRunsAre, ConcatProperties
  <2>3. E \in [[D -> V] -> [D -> V]]
    <3> HIDE DEF e, D, V
    <3> QED BY <2>2
  <2>4. \A m \in D : \A g, h \in [D -> V] :
          (\A i \in D : measure[i] < measure[m] => g[i] = h[i]) => E[g][m] = E[h][m]
    <3>1. ASSUME NEW m \in D, NEW g \in [D -> V], NEW h \in [D -> V],
                 \A i \in D : N - i < N - m => g[i] = h[i]
          PROVE  e(g, m) = e(h, m)
      <4>1. \A c \in DOMAIN kids(m) : g[kids(m)[c]] = h[kids(m)[c]]
        BY <1>1, <1>2, <3>1
      <4>2. b(g, m) = b(h, m)
        BY <4>1
      <4> HIDE DEF b
      <4> QED BY <4>2
    <3> HIDE DEF e
    <3> QED BY <3>1
  <2>5. V # {}
    BY EmptySeq
  <2> HIDE DEF D, E, measure, V, N
  <2> QED BY <1>1, <2>1, <2>3, <2>4, <2>5 DEF Determined
<1>4. PICK f0 \in [D -> V] : f0 = [m \in D |-> e(f0, m)]
  <2>1. \E f \in [D -> V] : f = E[f]
    <3> HIDE DEF D, E, measure, V, N
    <3> QED BY <1>3, Recursion
  <2> HIDE DEF e, D, V
  <2> QED BY <2>1
<1> DEFINE runs == CHOOSE f : f = [m \in D |-> e(f, m)]
<1>5. runs = [m \in D |-> e(runs, m)]
  <2> HIDE DEF e
  <2> QED BY <1>4
<1>6. \A m : InOrder(tree, ts, m) = runs[m]
  BY DEF InOrder, kids
<1>7. \A m \in D : runs[m] = e(runs, m)
  <2> HIDE DEF runs, e
  <2> QED BY <1>5
<1> HIDE DEF runs
<1>8. ASSUME NEW m \in D
      PROVE  InOrder(tree, ts, m) = OwnRuns(ts, m, 0) \o FlattenSeq(Blocks(tree, ts, m))
  <2>1. b(runs, m) = Blocks(tree, ts, m)
    BY <1>6 DEF Blocks, kids
  <2>2. runs[m] = OwnRuns(ts, m, 0) \o FlattenSeq(b(runs, m))
    BY <1>7
  <2> HIDE DEF b
  <2> QED BY <1>6, <2>1, <2>2
<1> QED BY <1>8

-----------------------------------------------------------------------------
(* Runs that are noted where they stand.                                   *)

\* Where the i-th run stands among what is in m: behind as many children, or in
\* one of them.
StandsAt(tree, ts, i, m, place) ==
  \/ ts[i].at = m /\ place = 2 * ts[i].after + 1
  \/ \E c \in DOMAIN Kids(tree, m) :
       Inside(tree, ts[i].at, Kids(tree, m)[c]) /\ place = 2 * c

Placed(tree, ts) ==
  \A i \in DOMAIN ts :
    /\ ts[i].at \in 0 .. Len(tree)
    /\ ts[i].after \in 0 .. Len(Kids(tree, ts[i].at))

\* A later run never stands before an earlier one.
Follow(tree, ts) ==
  \A m \in 0 .. Len(tree) : \A i, j \in DOMAIN ts : \A a, b \in Nat :
    i <= j /\ StandsAt(tree, ts, i, m, a) /\ StandsAt(tree, ts, j, m, b) => a <= b

Within(tree, ts, n) == {i \in DOMAIN ts : Inside(tree, ts[i].at, n)}

LEMMA PlacesApart ==
  ASSUME NEW tree, NEW ts, Len(ts) \in Nat, DOMAIN ts = 1 .. Len(ts), Follow(tree, ts),
         NEW m \in 0 .. Len(tree), NEW i \in DOMAIN ts, NEW j \in DOMAIN ts,
         NEW a \in Nat, NEW b \in Nat, a < b,
         StandsAt(tree, ts, i, m, a), StandsAt(tree, ts, j, m, b)
  PROVE  i < j
<1>1. ~ (j <= i)
  <2> SUFFICES ASSUME j <= i PROVE FALSE
    OBVIOUS
  <2>1. b <= a
    BY DEF Follow
  <2> QED BY <2>1
<1>2. i \in Int /\ j \in Int
  OBVIOUS
<1> QED BY <1>1, <1>2

\* The runs of an element are those in it, in the order in which they were noted.
LEMMA RunsInOrder ==
  ASSUME NEW tree, Tree(tree), NEW ts, Len(ts) \in Nat, DOMAIN ts = 1 .. Len(ts),
         Placed(tree, ts), Follow(tree, ts)
  PROVE  \A n \in 0 .. Len(tree) :
           /\ InOrder(tree, ts, n) \in Seq(Int)
           /\ Increasing(InOrder(tree, ts, n))
           /\ Range(InOrder(tree, ts, n)) = Within(tree, ts, n)
<1> DEFINE N == Len(tree)
           Good(n) == /\ InOrder(tree, ts, n) \in Seq(Int)
                      /\ Increasing(InOrder(tree, ts, n))
                      /\ Range(InOrder(tree, ts, n)) = Within(tree, ts, n)
           S == {d \in Nat : d <= N => Good(N - d)}
<1>1. N \in Nat
  BY TreeIs
<1>2. ASSUME NEW n \in 0 .. N, \A k \in n + 1 .. N : Good(k)
      PROVE  Good(n)
  <2> DEFINE q == Kids(tree, n)
             B == Blocks(tree, ts, n)
             own(c) == OwnRuns(ts, n, c)
  <2>1. /\ Len(q) \in Nat /\ DOMAIN q = 1 .. Len(q)
        /\ \A c \in DOMAIN q : q[c] \in n + 1 .. N
    BY KidsAre
  <2>2. \A c : /\ own(c) \in Seq(Int) /\ Increasing(own(c))
               /\ Range(own(c)) = {i \in DOMAIN ts : ts[i].at = n /\ ts[i].after = c}
    BY OwnRunsAre
  <2>3. \A c \in DOMAIN q : /\ InOrder(tree, ts, q[c]) \in Seq(Int)
                            /\ Increasing(InOrder(tree, ts, q[c]))
                            /\ Range(InOrder(tree, ts, q[c])) = Within(tree, ts, q[c])
    <3> HIDE DEF q
    <3> QED BY <1>2, <2>1
  <2>4. \A c \in Nat : \A i \in Range(own(c)) : StandsAt(tree, ts, i, n, 2 * c + 1)
    <3> HIDE DEF own
    <3> QED BY <2>2 DEF StandsAt
  <2>5. \A c \in DOMAIN q : \A i \in Within(tree, ts, q[c]) : StandsAt(tree, ts, i, n, 2 * c)
    BY DEF StandsAt, Within
  <2>6. /\ \A c : Range(own(c)) \subseteq DOMAIN ts
        /\ \A c : Within(tree, ts, q[c]) \subseteq DOMAIN ts
    BY <2>2 DEF Within
  <2>7. B = [c \in DOMAIN q |-> InOrder(tree, ts, q[c]) \o own(c)]
    BY DEF Blocks
  <2>8. InOrder(tree, ts, n) = own(0) \o FlattenSeq(B)
    BY InOrderIs
  <2> HIDE DEF q, own, B
  <2>9. \A c \in DOMAIN q : /\ B[c] \in Seq(Int) /\ Increasing(B[c])
                            /\ Range(B[c]) = Within(tree, ts, q[c]) \cup Range(own(c))
    <3> TAKE c \in DOMAIN q
    <3>1. c \in Nat /\ 2 * c \in Nat /\ 2 * c + 1 \in Nat /\ 2 * c < 2 * c + 1
      BY <2>1
    <3>2. Below(InOrder(tree, ts, q[c]), own(c))
      <4> SUFFICES ASSUME NEW i \in Within(tree, ts, q[c]), NEW j \in Range(own(c))
                   PROVE  i < j
        BY <2>3 DEF Below
      <4>1. i \in DOMAIN ts /\ j \in DOMAIN ts
        BY <2>6
      <4>2. StandsAt(tree, ts, i, n, 2 * c) /\ StandsAt(tree, ts, j, n, 2 * c + 1)
        BY <2>4, <2>5, <3>1
      <4> QED BY <3>1, <4>1, <4>2, PlacesApart
    <3>3. B[c] = InOrder(tree, ts, q[c]) \o own(c)
      BY <2>7
    <3> QED BY <2>2, <2>3, <3>2, <3>3, Joined
  <2>10. /\ B \in Seq(Seq(Int)) /\ DOMAIN B = DOMAIN q
    <3>1. B \in [1 .. Len(q) -> Seq(Int)]
      <4>1. DOMAIN B = 1 .. Len(q) /\ \A c \in 1 .. Len(q) : B[c] \in Seq(Int)
        BY <2>1, <2>7, <2>9
      <4>2. B = [c \in DOMAIN B |-> B[c]]
        BY <2>7
      <4> QED BY <4>1, <4>2
    <3> QED BY <2>1, <3>1
  <2>11. \A c, d \in DOMAIN q : c < d => Below(B[c], B[d])
    <3> SUFFICES ASSUME NEW c \in DOMAIN q, NEW d \in DOMAIN q, c < d,
                        NEW i \in Range(B[c]), NEW j \in Range(B[d])
                 PROVE  i < j
      BY DEF Below
    <3>1. i \in DOMAIN ts /\ j \in DOMAIN ts
      BY <2>6, <2>9
    <3>2. \E a \in {2 * c, 2 * c + 1} : StandsAt(tree, ts, i, n, a)
      BY <2>1, <2>4, <2>5, <2>9
    <3>3. \E b \in {2 * d, 2 * d + 1} : StandsAt(tree, ts, j, n, b)
      BY <2>1, <2>4, <2>5, <2>9
    <3>4. PICK a \in {2 * c, 2 * c + 1} : StandsAt(tree, ts, i, n, a)
      BY <3>2
    <3>5. PICK b \in {2 * d, 2 * d + 1} : StandsAt(tree, ts, j, n, b)
      BY <3>3
    <3>6. a \in Nat /\ b \in Nat /\ a < b
      <4>1. c \in Nat /\ d \in Nat
        BY <2>1
      <4>2. (a = 2 * c \/ a = 2 * c + 1) /\ (b = 2 * d \/ b = 2 * d + 1)
        BY <3>4, <3>5
      <4> HIDE DEF q, B, own
      <4> QED BY <4>1, <4>2
    <3> QED BY <3>1, <3>4, <3>5, <3>6, PlacesApart
  <2>12. /\ FlattenSeq(B) \in Seq(Int)
         /\ Increasing(FlattenSeq(B))
         /\ Range(FlattenSeq(B)) = UNION {Range(B[c]) : c \in DOMAIN B}
    <3>1. \A c \in DOMAIN B : Increasing(B[c])
      BY <2>9, <2>10
    <3>2. \A c, d \in DOMAIN B : c < d => Below(B[c], B[d])
      BY <2>10, <2>11
    <3> QED BY <2>10, <3>1, <3>2, Flattened
  <2>13. Below(own(0), FlattenSeq(B))
    <3> SUFFICES ASSUME NEW i \in Range(own(0)), NEW c \in DOMAIN q, NEW j \in Range(B[c])
                 PROVE  i < j
      BY <2>10, <2>12 DEF Below
    <3>1. i \in DOMAIN ts /\ j \in DOMAIN ts
      BY <2>6, <2>9
    <3>2. StandsAt(tree, ts, i, n, 1)
      <4>1. StandsAt(tree, ts, i, n, 2 * 0 + 1)
        BY <2>4
      <4> QED BY <4>1
    <3>3. \E b \in {2 * c, 2 * c + 1} : StandsAt(tree, ts, j, n, b)
      BY <2>1, <2>4, <2>5, <2>9
    <3>4. PICK b \in {2 * c, 2 * c + 1} : StandsAt(tree, ts, j, n, b)
      BY <3>3
    <3>5. b \in Nat /\ 1 < b
      BY <2>1
    <3> QED BY <3>1, <3>2, <3>4, <3>5, PlacesApart
  <2>14. Range(own(0)) \cup UNION {Range(B[c]) : c \in DOMAIN B} = Within(tree, ts, n)
    <3>1. ASSUME NEW i \in DOMAIN ts
          PROVE  Inside(tree, ts[i].at, n) <=>
                   (i \in Range(own(0)) \/ \E c \in DOMAIN q : i \in Range(B[c]))
      <4>1. ts[i].at \in 0 .. N /\ ts[i].after \in 0 .. Len(Kids(tree, ts[i].at))
        BY DEF Placed
      <4>2. Inside(tree, ts[i].at, n) <=>
              (ts[i].at = n \/ \E c \in DOMAIN q : i \in Within(tree, ts, q[c]))
        BY <4>1, DescendsByChild DEF Inside, Within, q
      <4>3. ts[i].at = n <=>
              (i \in Range(own(0)) \/ \E c \in DOMAIN q : i \in Range(own(c)))
        <5>1. ts[i].at = n => ts[i].after = 0 \/ ts[i].after \in DOMAIN q
          BY <2>1, <4>1 DEF q
        <5> QED BY <2>2, <5>1
      <4> QED BY <2>9, <4>2, <4>3
    <3>2. \A c \in DOMAIN q : Range(B[c]) \subseteq DOMAIN ts
      BY <2>6, <2>9
    <3> QED BY <2>6, <2>10, <3>1, <3>2 DEF Within
  <2>15. /\ own(0) \o FlattenSeq(B) \in Seq(Int)
         /\ Increasing(own(0) \o FlattenSeq(B))
         /\ Range(own(0) \o FlattenSeq(B)) = Range(own(0)) \cup Range(FlattenSeq(B))
    BY <2>2, <2>12, <2>13, Joined
  <2> QED BY <2>8, <2>12, <2>14, <2>15
<1>3. ASSUME NEW d \in Nat, \A m \in 0 .. d - 1 : m \in S
      PROVE  d \in S
  <2> HIDE DEF Good
  <2> SUFFICES ASSUME d <= N PROVE Good(N - d)
    OBVIOUS
  <2>1. N - d \in 0 .. N
    BY <1>1
  <2>2. ASSUME NEW k \in N - d + 1 .. N
        PROVE  Good(k)
    <3>1. N - k \in 0 .. d - 1 /\ N - k <= N /\ N - (N - k) = k
      BY <1>1
    <3>2. N - k \in S
      BY <1>3, <3>1
    <3> QED BY <3>1, <3>2
  <2> QED BY <1>2, <2>1, <2>2
<1>4. Nat \subseteq S
  <2> HIDE DEF S
  <2> QED BY <1>3, EveryNumber
<1>5. ASSUME NEW n \in 0 .. N
      PROVE  Good(n)
  <2> HIDE DEF Good
  <2>1. N - n \in S /\ N - n <= N /\ N - (N - n) = n
    BY <1>1, <1>4
  <2> QED BY <2>1
<1> QED BY <1>5

-----------------------------------------------------------------------------
(* A tree with one element more.                                           *)

LEMMA OrderedSame ==
  ASSUME NEW S, NEW U, NEW n \in Nat, S \cap (1 .. n) = U \cap (1 .. n)
  PROVE  Ordered(S, n) = Ordered(U, n)
<1>1. \A i \in 1 .. n : i \in S <=> i \in U
  OBVIOUS
<1>2. [i \in 1 .. n |-> IF i \in S THEN <<i>> ELSE << >>] =
        [i \in 1 .. n |-> IF i \in U THEN <<i>> ELSE << >>]
  BY <1>1
<1> QED BY <1>2 DEF Ordered

\* What is below a node is numbered behind it.
LEMMA DescendsBehind ==
  ASSUME NEW tree, Tree(tree), NEW k \in 0 .. Len(tree), NEW n \in Nat, Inside(tree, k, n)
  PROVE  n <= k
<1> DEFINE S == {j \in Nat : j <= Len(tree) /\ Inside(tree, j, n) => n <= j}
<1>1. /\ Len(tree) \in Nat
      /\ \A j \in 1 .. Len(tree) : tree[j].parent \in 0 .. j - 1
  BY TreeIs
<1>2. ASSUME NEW j \in Nat, \A m \in 0 .. j - 1 : m \in S
      PROVE  j \in S
  <2> SUFFICES ASSUME j <= Len(tree), Inside(tree, j, n) PROVE n <= j
    OBVIOUS
  <2>1. CASE j = 0
    BY <1>1, <2>1, DescendsIs DEF Inside
  <2>2. CASE j # 0 /\ j # n
    <3>1. j \in 1 .. Len(tree) /\ tree[j].parent \in 0 .. j - 1
      BY <1>1, <2>2
    <3>2. Inside(tree, tree[j].parent, n)
      BY <2>2, <3>1, DescendsIs DEF Inside
    <3>3. tree[j].parent \in S
      BY <1>2, <3>1
    <3>4. n <= tree[j].parent
      BY <1>1, <3>1, <3>2, <3>3
    <3> QED BY <3>1, <3>4
  <2> QED BY <2>1, <2>2
<1>3. Nat \subseteq S
  <2> HIDE DEF S
  <2> QED BY <1>2, EveryNumber
<1>4. k \in S
  BY <1>1, <1>3
<1> QED BY <1>1, <1>4

LEMMA Grown ==
  ASSUME NEW tree, Tree(tree), NEW v \in Node, v.parent \in 0 .. Len(tree)
  PROVE  /\ Tree(Append(tree, v)) /\ Len(Append(tree, v)) = Len(tree) + 1
         /\ \A n : \A k \in 0 .. Len(tree) :
              Inside(Append(tree, v), k, n) <=> Inside(tree, k, n)
         /\ \A n \in 0 .. Len(tree) :
              Kids(Append(tree, v), n) =
                IF v.parent = n THEN Append(Kids(tree, n), Len(tree) + 1) ELSE Kids(tree, n)
<1> DEFINE N == Len(tree)
           grown == Append(tree, v)
<1>1. /\ N \in Nat /\ DOMAIN tree = 1 .. N
      /\ \A j \in 1 .. N : tree[j] \in Node /\ tree[j].parent \in 0 .. j - 1
  BY TreeIs
<1>2. /\ grown \in Seq(Node) /\ Len(grown) = N + 1 /\ DOMAIN grown = 1 .. N + 1
      /\ \A j \in 1 .. N : grown[j] = tree[j]
      /\ grown[N + 1] = v
  BY <1>1, AppendProperties, LenProperties DEF Tree
<1> HIDE DEF grown
<1>3. Tree(grown)
  <2>1. \A j \in 1 .. N + 1 : grown[j].parent < j
    <3> TAKE j \in 1 .. N + 1
    <3>1. CASE j = N + 1
      BY <1>1, <1>2, <3>1
    <3>2. CASE j # N + 1
      <4>1. j \in 1 .. N
        BY <1>1, <3>2
      <4>2. tree[j].parent \in 0 .. j - 1
        BY <1>1, <4>1
      <4> QED BY <1>2, <4>1, <4>2
    <3> QED BY <3>1, <3>2
  <2> QED BY <1>2, <2>1 DEF Tree
<1>4. ASSUME NEW n, NEW k \in 0 .. N
      PROVE  Inside(grown, k, n) <=> Inside(tree, k, n)
  <2> DEFINE S == {j \in Nat : j <= N => (Inside(grown, j, n) <=> Inside(tree, j, n))}
  <2>1. ASSUME NEW j \in Nat, \A m \in 0 .. j - 1 : m \in S
        PROVE  j \in S
    <3> SUFFICES ASSUME j <= N PROVE Inside(grown, j, n) <=> Inside(tree, j, n)
      OBVIOUS
    <3>1. CASE j = 0
      BY <1>3, <3>1, DescendsIs DEF Inside
    <3>2. CASE j # 0
      <4>1. j \in 1 .. N /\ j \in 1 .. N + 1
        BY <1>1, <3>2
      <4>2. tree[j].parent \in 0 .. j - 1 /\ grown[j] = tree[j]
        BY <1>1, <1>2, <4>1
      <4>3. tree[j].parent \in S /\ tree[j].parent <= N
        BY <1>1, <2>1, <4>1, <4>2
      <4>4. Inside(grown, tree[j].parent, n) <=> Inside(tree, tree[j].parent, n)
        BY <4>3
      <4>5. /\ Descends(tree, j, n) <=> Inside(tree, tree[j].parent, n)
            /\ Descends(grown, j, n) <=> Inside(grown, grown[j].parent, n)
        BY <1>2, <1>3, <4>1, DescendsIs
      <4> QED BY <4>2, <4>4, <4>5 DEF Inside
    <3> QED BY <3>1, <3>2
  <2>2. Nat \subseteq S
    <3> HIDE DEF S
    <3> QED BY <2>1, EveryNumber
  <2>3. k \in S /\ k <= N
    BY <1>1, <2>2
  <2> QED BY <2>3
<1>5. ASSUME NEW n \in 0 .. N
      PROVE  Kids(grown, n) =
               IF v.parent = n THEN Append(Kids(tree, n), N + 1) ELSE Kids(tree, n)
  <2> DEFINE K == {k \in DOMAIN tree : tree[k].parent = n}
             G == {k \in DOMAIN grown : grown[k].parent = n}
  <2>1. Kids(tree, n) = Ordered(K, N) /\ Kids(grown, n) = Ordered(G, N + 1)
    BY <1>2 DEF Kids
  <2>2. G \cap (1 .. N) = K \cap (1 .. N) /\ (N + 1 \in G <=> v.parent = n)
    BY <1>1, <1>2
  <2> HIDE DEF G, K
  <2>3. Ordered(G, N) = Ordered(K, N)
    BY <1>1, <2>2, OrderedSame
  <2>4. Ordered(G, N + 1) = Ordered(K, N) \o (IF v.parent = n THEN <<N + 1>> ELSE << >>)
    BY <1>1, <2>2, <2>3, OrderedLast
  <2>5. Ordered(K, N) \in Seq(Int)
    BY <1>1, OrderedIs
  <2>6. N + 1 \in Int
    BY <1>1
  <2> HIDE DEF N
  <2>7. /\ Append(Ordered(K, N), N + 1) = Ordered(K, N) \o <<N + 1>>
        /\ Ordered(K, N) \o << >> = Ordered(K, N)
    BY <2>5, <2>6, AppendIsConcat, ConcatEmptySeq
  <2> QED BY <2>1, <2>4, <2>7
<1> QED BY <1>2, <1>3, <1>4, <1>5 DEF grown

\* The number of children is the length of the list of them.
LEMMA OrderedCounts ==
  ASSUME NEW n \in Nat, NEW S \in SUBSET (1 .. n)
  PROVE  Cardinality(S) = Len(Ordered(S, n))
<1> DEFINE q == Ordered(S, n)
<1>1. q \in Seq(Int) /\ Increasing(q) /\ Range(q) = S
  <2>1. S \cap (1 .. n) = S
    OBVIOUS
  <2> QED BY <2>1, OrderedIs
<1> HIDE DEF q
<1>2. Len(q) \in Nat /\ DOMAIN q = 1 .. Len(q) /\ q \in [1 .. Len(q) -> Int]
  BY <1>1, LenProperties
<1>3. q \in [1 .. Len(q) -> S]
  BY <1>1, <1>2 DEF Range
<1>4. \A i, j \in 1 .. Len(q) : q[i] = q[j] => i = j
  <2> SUFFICES ASSUME NEW i \in 1 .. Len(q), NEW j \in 1 .. Len(q), q[i] = q[j]
               PROVE  ~ (i < j) /\ ~ (j < i)
    BY <1>2
  <2>1. q[i] \in Int /\ q[j] \in Int
    BY <1>2
  <2> QED BY <1>1, <1>2, <2>1 DEF Increasing
<1>5. q \in Bijection(1 .. Len(q), S)
  <2>1. \A x \in S : \E i \in 1 .. Len(q) : q[i] = x
    BY <1>1, <1>2 DEF Range
  <2> QED BY <1>3, <1>4, <2>1 DEF Bijection, Injection, Surjection, IsInjective
<1>6. ExistsBijection(1 .. Len(q), S)
  BY <1>5 DEF ExistsBijection
<1>7. IsFiniteSet(1 .. Len(q)) /\ Cardinality(1 .. Len(q)) = Len(q)
  BY <1>2, FS_Interval
<1>8. Cardinality(S) = Len(q)
  BY <1>6, <1>7, FS_Bijection
<1> QED BY <1>8 DEF q

-----------------------------------------------------------------------------
(* The runs of a page stand where they are noted.                          *)

\* No run stands behind an element that is still open.
NoneBehindOpen ==
  \A p \in DOMAIN open : \A i \in DOMAIN texts :
    texts[i].at = nodes[open[p]].parent =>
      texts[i].after < Len(Kids(nodes, texts[i].at))

TextsInv == Placed(nodes, texts) /\ Follow(nodes, texts) /\ NoneBehindOpen

LEMMA PageIs ==
  ASSUME TreeInv
  PROVE  /\ Tree(nodes)
         /\ Len(nodes) \in Nat /\ DOMAIN nodes = 1 .. Len(nodes)
         /\ Len(open) \in Nat /\ DOMAIN open = 1 .. Len(open)
         /\ \A p \in DOMAIN open : open[p] \in 1 .. Len(nodes)
         /\ \A p \in DOMAIN open : nodes[open[p]].parent \in 0 .. Len(nodes)
         /\ \A p \in DOMAIN open : nodes[open[p]].parent < open[p]
         /\ Len(texts) \in Nat /\ DOMAIN texts = 1 .. Len(texts)
         /\ Current(open) \in 0 .. Len(nodes)
<1>1. TypeOK /\ TreeShape
  BY DEF TreeInv
<1>2. Tree(nodes)
  BY <1>1 DEF TypeOK, TreeShape, NumberedInDocumentOrder, Tree
<1>3. /\ Len(nodes) \in Nat /\ DOMAIN nodes = 1 .. Len(nodes)
      /\ Len(open) \in Nat /\ DOMAIN open = 1 .. Len(open)
      /\ \A p \in DOMAIN open : open[p] \in 1 .. Len(nodes)
  BY <1>1, OpenType
<1>4. /\ \A p \in DOMAIN open : nodes[open[p]].parent \in 0 .. Len(nodes)
      /\ \A p \in DOMAIN open : nodes[open[p]].parent < open[p]
  <2>1. \A p \in DOMAIN open : nodes[open[p]].parent \in 0 .. open[p] - 1
    BY <1>2, <1>3, TreeIs
  <2> QED BY <1>3, <2>1
<1>5. Len(texts) \in Nat /\ DOMAIN texts = 1 .. Len(texts)
  BY <1>1, LenProperties DEF TypeOK
<1>6. Current(open) \in 0 .. Len(nodes)
  <2>1. CASE open = << >>
    BY <1>3, <2>1 DEF Current, Document
  <2>2. CASE open # << >>
    <3>1. Len(open) \in DOMAIN open
      BY <1>1, <1>3, <2>2, EmptySeq DEF TypeOK
    <3>2. open[Len(open)] \in 0 .. Len(nodes)
      BY <1>3, <3>1
    <3> QED BY <2>2, <3>2 DEF Current
  <2> QED BY <2>1, <2>2
<1> QED BY <1>2, <1>3, <1>4, <1>5, <1>6

\* An open element is only in open elements.
LEMMA OpenIsInOpen ==
  ASSUME TreeInv, NEW p \in DOMAIN open, NEW k \in 1 .. Len(nodes),
         Inside(nodes, open[p], k)
  PROVE  \E r \in DOMAIN open : r <= p /\ open[r] = k
<1> DEFINE Good(j) == j \in DOMAIN open /\ Inside(nodes, open[j], k) =>
                        \E r \in DOMAIN open : r <= j /\ open[r] = k
           S == {j \in Nat : Good(j)}
<1>1. /\ Tree(nodes)
      /\ Len(open) \in Nat /\ DOMAIN open = 1 .. Len(open)
      /\ \A j \in DOMAIN open : open[j] \in 1 .. Len(nodes)
  BY PageIs
<1>2. \A j \in DOMAIN open :
        nodes[open[j]].parent = (IF j = 1 THEN Document ELSE open[j - 1])
  BY DEF TreeInv, TreeShape, OpenIsAPath
<1>3. ASSUME NEW j \in Nat, \A m \in 0 .. j - 1 : m \in S
      PROVE  j \in S
  <2> SUFFICES ASSUME j \in DOMAIN open, Inside(nodes, open[j], k), open[j] # k
               PROVE  \E r \in DOMAIN open : r <= j /\ open[r] = k
    BY <1>1
  <2>1. Inside(nodes, nodes[open[j]].parent, k)
    BY <1>1, DescendsIs DEF Inside
  <2>2. CASE j = 1
    <3>1. Inside(nodes, 0, k)
      BY <1>2, <2>1, <2>2 DEF Document
    <3> QED BY <1>1, <3>1, DescendsIs DEF Inside
  <2>3. CASE j # 1
    <3>1. j - 1 \in 0 .. j - 1 /\ j - 1 \in DOMAIN open
      BY <1>1, <2>3
    <3>2. Good(j - 1)
      BY <1>3, <3>1
    <3>3. Inside(nodes, open[j - 1], k)
      BY <1>2, <2>1, <2>3
    <3>4. PICK r \in DOMAIN open : r <= j - 1 /\ open[r] = k
      BY <3>1, <3>2, <3>3
    <3> QED BY <1>1, <3>4
  <2> QED BY <2>2, <2>3
<1>4. Nat \subseteq S
  <2> HIDE DEF S
  <2> QED BY <1>3, EveryNumber
<1>5. Good(p)
  <2> HIDE DEF Good
  <2>1. p \in Nat
    BY <1>1
  <2> QED BY <1>4, <2>1
<1> QED BY <1>5

\* An open element is the last child of its parent.
LEMMA OpenIsLastKid ==
  ASSUME TreeInv, NEW p \in DOMAIN open, NEW c,
         c \in DOMAIN Kids(nodes, nodes[open[p]].parent),
         Kids(nodes, nodes[open[p]].parent)[c] = open[p]
  PROVE  c = Len(Kids(nodes, nodes[open[p]].parent))
<1> DEFINE m == nodes[open[p]].parent
           q == Kids(nodes, m)
<1>1. /\ Tree(nodes) /\ DOMAIN nodes = 1 .. Len(nodes) /\ Len(nodes) \in Nat
      /\ m \in 0 .. Len(nodes) /\ m < open[p] /\ open[p] \in 1 .. Len(nodes)
  BY PageIs
<1>2. /\ Increasing(q) /\ Len(q) \in Nat /\ DOMAIN q = 1 .. Len(q)
      /\ \A d \in DOMAIN q : q[d] \in m + 1 .. Len(nodes) /\ nodes[q[d]].parent = m
  <2> HIDE DEF m
  <2> QED BY <1>1, KidsAre
<1>3. c \in 1 .. Len(q) /\ q[c] = open[p]
  BY <1>2
<1> HIDE DEF q
<1>4. ASSUME c # Len(q) PROVE FALSE
  <2>1. Len(q) \in DOMAIN q /\ c \in DOMAIN q /\ c < Len(q)
    BY <1>2, <1>3, <1>4
  <2>2. q[c] < q[Len(q)] /\ q[Len(q)] \in DOMAIN nodes
    BY <1>1, <1>2, <2>1 DEF Increasing
  <2>3. open[p] <= nodes[q[Len(q)]].parent
    BY <1>3, <2>2 DEF TreeInv, TreeShape, OpenSpans
  <2>4. nodes[q[Len(q)]].parent = m
    BY <1>2, <2>1
  <2> QED BY <1>1, <2>3, <2>4
<1> QED BY <1>4 DEF q

\* A new run stands where no earlier one stands behind it.
LEMMA NewRunIsLast ==
  ASSUME TreeInv, TextsInv, NEW m \in 0 .. Len(nodes), NEW b \in Nat,
         \/ Current(open) = m /\ b = 2 * Len(Kids(nodes, m)) + 1
         \/ \E d \in DOMAIN Kids(nodes, m) :
              Inside(nodes, Current(open), Kids(nodes, m)[d]) /\ b = 2 * d
  PROVE  /\ Current(open) = m => b = 2 * Len(Kids(nodes, m)) + 1
         /\ Current(open) # m => b = 2 * Len(Kids(nodes, m))
         /\ \A i \in DOMAIN texts : \A a \in Nat :
              StandsAt(nodes, texts, i, m, a) => a <= b
<1> DEFINE cur == Current(open)
           q   == Kids(nodes, m)
           Old(i, a) == \/ texts[i].at = m /\ a = 2 * texts[i].after + 1
                        \/ \E c \in DOMAIN q : a = 2 * c
<1>1. /\ Tree(nodes) /\ Len(nodes) \in Nat
      /\ Len(open) \in Nat /\ DOMAIN open = 1 .. Len(open)
      /\ \A p \in DOMAIN open : open[p] \in 1 .. Len(nodes)
      /\ cur \in 0 .. Len(nodes)
  BY PageIs
<1>2. /\ Len(q) \in Nat /\ DOMAIN q = 1 .. Len(q)
      /\ \A c \in DOMAIN q : q[c] \in m + 1 .. Len(nodes) /\ nodes[q[c]].parent = m
  BY <1>1, KidsAre
<1>3. \A i \in DOMAIN texts : \A a \in Nat : StandsAt(nodes, texts, i, m, a) => Old(i, a)
  BY DEF StandsAt
<1>4. \A i \in DOMAIN texts :
        texts[i].at = m => texts[i].after \in 0 .. Len(q)
  BY DEF TextsInv, Placed
<1>5. \/ cur = m /\ b = 2 * Len(q) + 1
      \/ \E d \in DOMAIN q : Inside(nodes, cur, q[d]) /\ b = 2 * d
  OBVIOUS
<1>6. \A p \in DOMAIN open : nodes[open[p]].parent = m =>
        \A i \in DOMAIN texts : texts[i].at = m => texts[i].after < Len(q)
  BY DEF TextsInv, NoneBehindOpen
<1>7. \A d \in DOMAIN q : Inside(nodes, cur, q[d]) =>
        cur # m /\ d = Len(q) /\ \E p \in DOMAIN open : nodes[open[p]].parent = m
  <2> SUFFICES ASSUME NEW d \in DOMAIN q, Inside(nodes, cur, q[d])
               PROVE  cur # m /\ d = Len(q) /\ \E p \in DOMAIN open : nodes[open[p]].parent = m
    OBVIOUS
  <2>1. q[d] \in Nat /\ q[d] \in 1 .. Len(nodes) /\ m < q[d]
    BY <1>1, <1>2
  <2> HIDE DEF cur
  <2>2. q[d] <= cur
    BY <1>1, <2>1, DescendsBehind
  <2>3. cur # 0 /\ cur # m
    BY <1>1, <2>1, <2>2
  <2>4. Len(open) \in DOMAIN open /\ cur = open[Len(open)]
    <3>1. open # << >>
      BY <2>3 DEF cur, Current, Document
    <3>2. Len(open) # 0
      <4>1. open \in Seq(DOMAIN nodes)
        BY DEF TreeInv, TypeOK
      <4> QED BY <3>1, <4>1, EmptySeq
    <3> QED BY <1>1, <3>1, <3>2 DEF cur, Current
  <2>5. PICK p \in DOMAIN open : open[p] = q[d]
    <3> HIDE DEF q
    <3>1. Inside(nodes, open[Len(open)], q[d])
      BY <2>4
    <3> QED BY <2>1, <2>4, <3>1, OpenIsInOpen
  <2>6. nodes[open[p]].parent = m
    BY <1>2, <2>5
  <2>7. d = Len(q)
    BY <2>5, <2>6, OpenIsLastKid
  <2> QED BY <2>3, <2>6, <2>7
<1> HIDE DEF q, cur
<1>8. CASE cur = m /\ b = 2 * Len(q) + 1
  <2>1. \A i \in DOMAIN texts : \A a \in Nat : Old(i, a) => a <= b
    BY <1>2, <1>4, <1>8
  <2> HIDE DEF Old
  <2> QED BY <1>3, <1>8, <2>1 DEF q, cur
<1>9. CASE \E d \in DOMAIN q : Inside(nodes, cur, q[d]) /\ b = 2 * d
  <2>1. cur # m /\ b = 2 * Len(q) /\ \E p \in DOMAIN open : nodes[open[p]].parent = m
    BY <1>7, <1>9
  <2>2. \A i \in DOMAIN texts : texts[i].at = m => texts[i].after < Len(q)
    BY <1>6, <2>1
  <2>3. \A i \in DOMAIN texts : \A a \in Nat : Old(i, a) => a <= b
    BY <1>2, <1>4, <2>1, <2>2
  <2> HIDE DEF Old
  <2> QED BY <1>3, <2>1, <2>3 DEF q, cur
<1> QED BY <1>5, <1>8, <1>9

LEMMA DataKeepsTexts ==
  ASSUME TreeInv, TextsInv, NEW data, texts' = Append(texts, TextRun(data)),
         UNCHANGED <<nodes, open>>
  PROVE  TextsInv'
<1> DEFINE cur == Current(open)
           L   == Len(texts)
           N   == Len(nodes)
           new == L + 1
<1>1. /\ Tree(nodes) /\ N \in Nat /\ DOMAIN nodes = 1 .. N
      /\ Len(open) \in Nat /\ DOMAIN open = 1 .. Len(open)
      /\ \A p \in DOMAIN open : open[p] \in 1 .. N
      /\ \A p \in DOMAIN open : nodes[open[p]].parent < open[p]
      /\ \A p \in DOMAIN open : nodes[open[p]].parent \in 0 .. N
      /\ L \in Nat /\ DOMAIN texts = 1 .. L
      /\ cur \in 0 .. N
  BY PageIs
<1>2. TextRun(data).at = cur /\ TextRun(data).after = Len(Kids(nodes, cur))
  <2> DEFINE K == {k \in DOMAIN nodes : nodes[k].parent = cur}
  <2>1. K \in SUBSET (1 .. N)
    BY <1>1
  <2>2. Cardinality(K) = Len(Ordered(K, N))
    <3> HIDE DEF K, N
    <3> QED BY <1>1, <2>1, OrderedCounts
  <2> QED BY <2>2 DEF TextRun, Kids
<1>3. /\ DOMAIN texts' = 1 .. new
      /\ \A i \in 1 .. L : texts'[i] = texts[i]
      /\ texts'[new].at = cur /\ texts'[new].after = Len(Kids(nodes, cur))
  <2>1. texts \in Seq(Run)
    BY DEF TreeInv, TypeOK
  <2>2. /\ DOMAIN texts' = 1 .. new /\ texts'[new] = TextRun(data)
        /\ \A i \in 1 .. L : texts'[i] = texts[i]
    <3> DEFINE run == TextRun(data)
    <3>1. run \in Run \cup {run} /\ texts \in Seq(Run \cup {run})
      BY <2>1
    <3> HIDE DEF run
    <3> QED BY <1>1, <3>1, AppendProperties, LenProperties DEF run
  <2> QED BY <1>2, <2>2
<1> HIDE DEF L, N
<1>4. \A i \in 1 .. new : i \in 1 .. L \/ i = new
  BY <1>1
<1>5. \A m \in 0 .. N : Len(Kids(nodes, m)) \in Nat
  BY <1>1, KidsAre DEF N
<1>6. \A i \in 1 .. L : /\ texts[i].at \in 0 .. N
                        /\ texts[i].after \in 0 .. Len(Kids(nodes, texts[i].at))
  BY <1>1 DEF TextsInv, Placed, N
<1>7. Placed(nodes, texts')
  <2> SUFFICES ASSUME NEW i \in 1 .. new
               PROVE  /\ texts'[i].at \in 0 .. N
                      /\ texts'[i].after \in 0 .. Len(Kids(nodes, texts'[i].at))
    BY <1>3 DEF Placed, N
  <2>1. CASE i \in 1 .. L
    BY <1>3, <1>6, <2>1
  <2>2. CASE i = new
    <3>1. Len(Kids(nodes, cur)) \in 0 .. Len(Kids(nodes, cur))
      BY <1>1, <1>5
    <3> QED BY <1>1, <1>3, <2>2, <3>1
  <2> QED BY <1>4, <2>1, <2>2
<1>8. Follow(nodes, texts')
  <2> SUFFICES ASSUME NEW m \in 0 .. N, NEW i \in 1 .. new, NEW j \in 1 .. new,
                      NEW a \in Nat, NEW b \in Nat, i <= j,
                      StandsAt(nodes, texts', i, m, a), StandsAt(nodes, texts', j, m, b)
               PROVE  a <= b
    BY <1>3 DEF Follow, N
  <2>1. \A k \in 1 .. L : \A p \in Nat :
          StandsAt(nodes, texts', k, m, p) <=> StandsAt(nodes, texts, k, m, p)
    BY <1>3 DEF StandsAt
  <2>2. \A p \in Nat : StandsAt(nodes, texts', new, m, p) =>
          \/ cur = m /\ p = 2 * Len(Kids(nodes, m)) + 1
          \/ \E d \in DOMAIN Kids(nodes, m) :
               Inside(nodes, cur, Kids(nodes, m)[d]) /\ p = 2 * d
    BY <1>3 DEF StandsAt
  <2>3. \A p \in Nat : StandsAt(nodes, texts', new, m, p) =>
          /\ cur = m => p = 2 * Len(Kids(nodes, m)) + 1
          /\ cur # m => p = 2 * Len(Kids(nodes, m))
          /\ \A k \in DOMAIN texts : \A r \in Nat :
               StandsAt(nodes, texts, k, m, r) => r <= p
    <3> SUFFICES ASSUME NEW p \in Nat, StandsAt(nodes, texts', new, m, p)
                 PROVE  /\ cur = m => p = 2 * Len(Kids(nodes, m)) + 1
                        /\ cur # m => p = 2 * Len(Kids(nodes, m))
                        /\ \A k \in DOMAIN texts : \A r \in Nat :
                             StandsAt(nodes, texts, k, m, r) => r <= p
      OBVIOUS
    <3> QED BY <2>2, NewRunIsLast DEF N
  <2>4. CASE i \in 1 .. L /\ j \in 1 .. L
    BY <1>1, <2>1, <2>4 DEF TextsInv, Follow, N
  <2>5. CASE i \in 1 .. L /\ j = new
    BY <1>1, <2>1, <2>3, <2>5
  <2>6. CASE i = new
    <3>1. j = new
      BY <1>1, <2>6
    <3>2. a = b
      BY <2>3, <2>6, <3>1
    <3> QED BY <3>2
  <2> QED BY <1>4, <2>4, <2>5, <2>6
<1>9. NoneBehindOpen'
  <2> SUFFICES ASSUME NEW p \in DOMAIN open, NEW i \in 1 .. new,
                      texts'[i].at = nodes[open[p]].parent
               PROVE  texts'[i].after < Len(Kids(nodes, texts'[i].at))
    BY <1>3 DEF NoneBehindOpen
  <2>1. CASE i \in 1 .. L
    BY <1>1, <1>3, <2>1 DEF TextsInv, NoneBehindOpen
  <2>2. CASE i = new
    <3>1. Len(open) \in DOMAIN open /\ p <= Len(open)
      BY <1>1
    <3>2. cur = open[Len(open)]
      BY <1>1, <3>1 DEF Current
    <3>3. open[p] <= open[Len(open)]
      <4>1. CASE p = Len(open)
        BY <1>1, <4>1
      <4>2. CASE p # Len(open)
        <5>1. p < Len(open)
          BY <1>1, <3>1, <4>2
        <5>2. open[p] < open[Len(open)]
          BY <3>1, <5>1 DEF TreeInv, TreeShape, OpenInOrder
        <5> QED BY <1>1, <3>1, <5>2
      <4> QED BY <4>1, <4>2
    <3>4. nodes[open[p]].parent < cur
      <4>1. nodes[open[p]].parent < open[p] /\ nodes[open[p]].parent \in 0 .. N
        BY <1>1
      <4>2. open[p] \in 1 .. N /\ cur \in 0 .. N
        BY <1>1
      <4> QED BY <3>2, <3>3, <4>1, <4>2, <1>1
    <3>5. nodes[open[p]].parent \in 0 .. N
      BY <1>1
    <3> QED BY <1>1, <1>3, <2>2, <3>4, <3>5
  <2> QED BY <1>4, <2>1, <2>2
<1>10. nodes' = nodes
  OBVIOUS
<1>11. Placed(nodes', texts') /\ Follow(nodes', texts')
  BY <1>7, <1>8, <1>10
<1> QED BY <1>9, <1>11 DEF TextsInv

LEMMA StartKeepsTexts ==
  ASSUME TreeInv, TextsInv, NEW tag, NEW attrs, NEW m, NEW n, Grows(tag, attrs, m, n),
         UNCHANGED texts
  PROVE  TextsInv'
<1> DEFINE N   == Len(nodes)
           v   == nodes'[N + 1]
<1>1. /\ Tree(nodes) /\ N \in Nat /\ DOMAIN nodes = 1 .. N
      /\ Len(open) \in Nat /\ DOMAIN open = 1 .. Len(open)
      /\ \A p \in DOMAIN open : open[p] \in 1 .. N
      /\ \A p \in DOMAIN open : nodes[open[p]].parent \in 0 .. N
  BY PageIs
<1>2. /\ nodes' = Append(nodes, v) /\ v \in Node
      /\ m \in 0 .. Len(open) /\ n \in {m, m + 1}
      /\ \A k \in 1 .. N : nodes'[k] = nodes[k]
      /\ v.parent = (IF m = 0 THEN 0 ELSE open[m])
      /\ DOMAIN open' = 1 .. n
      /\ \A i \in 1 .. m : open'[i] = open[i]
      /\ n = m + 1 => open'[m + 1] = N + 1
  <2>1. N + 1 \in 1 .. N + 1
    BY <1>1
  <2> QED BY <2>1, ElementOfSeq DEF Grows
<1>3. v.parent \in 0 .. N
  BY <1>1, <1>2
<1> HIDE DEF v
<1>4. /\ Tree(nodes') /\ Len(nodes') = N + 1
      /\ \A e : \A k \in 0 .. N : Inside(nodes', k, e) <=> Inside(nodes, k, e)
      /\ \A e \in 0 .. N :
           Kids(nodes', e) =
             IF v.parent = e THEN Append(Kids(nodes, e), N + 1) ELSE Kids(nodes, e)
  BY <1>1, <1>2, <1>3, Grown
<1> HIDE DEF N
<1>5. \A e \in 0 .. N :
        /\ Kids(nodes, e) \in Seq(Int) /\ Len(Kids(nodes, e)) \in Nat
        /\ DOMAIN Kids(nodes, e) = 1 .. Len(Kids(nodes, e))
  BY <1>1, KidsAre DEF N
<1>6. \A e \in 0 .. N :
        /\ Len(Kids(nodes', e)) = Len(Kids(nodes, e)) + (IF v.parent = e THEN 1 ELSE 0)
        /\ DOMAIN Kids(nodes', e) =
             1 .. Len(Kids(nodes, e)) + (IF v.parent = e THEN 1 ELSE 0)
        /\ \A c \in DOMAIN Kids(nodes, e) : Kids(nodes', e)[c] = Kids(nodes, e)[c]
        /\ v.parent = e => Kids(nodes', e)[Len(Kids(nodes, e)) + 1] = N + 1
  <2> TAKE e \in 0 .. N
  <2> DEFINE q == Kids(nodes, e)
  <2>1. q \in Seq(Int) /\ Len(q) \in Nat /\ DOMAIN q = 1 .. Len(q)
    BY <1>5
  <2>2. Kids(nodes', e) = IF v.parent = e THEN Append(q, N + 1) ELSE q
    BY <1>4
  <2>3. N + 1 \in Int
    BY <1>1
  <2> HIDE DEF q
  <2>4. CASE v.parent = e
    <3>1. /\ Append(q, N + 1) \in Seq(Int)
          /\ Len(Append(q, N + 1)) = Len(q) + 1
          /\ \A c \in 1 .. Len(q) : Append(q, N + 1)[c] = q[c]
          /\ Append(q, N + 1)[Len(q) + 1] = N + 1
      BY <2>1, <2>3, AppendProperties
    <3>2. DOMAIN Append(q, N + 1) = 1 .. Len(q) + 1
      BY <3>1, LenProperties
    <3> QED BY <2>1, <2>2, <2>4, <3>1, <3>2 DEF q
  <2>5. CASE v.parent # e
    BY <2>1, <2>2, <2>5 DEF q
  <2> QED BY <2>4, <2>5
<1>7. \A i \in DOMAIN texts :
        /\ texts[i].at \in 0 .. N
        /\ texts[i].after \in 0 .. Len(Kids(nodes, texts[i].at))
  BY DEF TextsInv, Placed, N
<1>8. Placed(nodes', texts)
  <2> SUFFICES ASSUME NEW i \in DOMAIN texts
               PROVE  /\ texts[i].at \in 0 .. N + 1
                      /\ texts[i].after \in 0 .. Len(Kids(nodes', texts[i].at))
    BY <1>4 DEF Placed
  <2> QED BY <1>1, <1>5, <1>6, <1>7
<1>9. ASSUME NEW i \in DOMAIN texts, NEW e \in 0 .. N + 1, NEW a \in Nat,
             StandsAt(nodes', texts, i, e, a)
      PROVE  e \in 0 .. N /\ StandsAt(nodes, texts, i, e, a)
  <2>1. \A k \in 0 .. N : ~ Inside(nodes', k, N + 1)
    <3> SUFFICES ASSUME NEW k \in 0 .. N, Inside(nodes', k, N + 1) PROVE FALSE
      OBVIOUS
    <3>1. k \in 0 .. Len(nodes') /\ N + 1 \in Nat
      BY <1>1, <1>4
    <3>2. N + 1 <= k
      BY <1>4, <3>1, DescendsBehind
    <3> QED BY <1>1, <3>2
  <2>2. CASE e = N + 1
    <3>1. e \in 0 .. Len(nodes')
      BY <1>4
    <3>2. \A c \in DOMAIN Kids(nodes', e) : Kids(nodes', e)[c] \in e + 1 .. Len(nodes')
      BY <1>4, <3>1, KidsAre
    <3>3. \A c \in DOMAIN Kids(nodes', e) : FALSE
      BY <1>1, <1>4, <2>2, <3>2
    <3>4. texts[i].at # e
      BY <1>1, <1>7, <2>2
    <3> QED BY <1>9, <3>3, <3>4 DEF StandsAt
  <2>3. CASE e # N + 1
    <3>1. e \in 0 .. N
      BY <1>1, <2>3
    <3>2. CASE texts[i].at = e /\ a = 2 * texts[i].after + 1
      BY <3>1, <3>2 DEF StandsAt
    <3>3. ASSUME NEW c \in DOMAIN Kids(nodes', e),
                 Inside(nodes', texts[i].at, Kids(nodes', e)[c]), a = 2 * c
          PROVE  StandsAt(nodes, texts, i, e, a)
      <4>1. Kids(nodes', e)[c] # N + 1
        BY <1>7, <2>1, <3>3
      <4>2. c \in DOMAIN Kids(nodes, e)
        BY <1>5, <1>6, <3>1, <3>3, <4>1
      <4>3. Inside(nodes, texts[i].at, Kids(nodes, e)[c])
        BY <1>4, <1>6, <1>7, <3>1, <3>3, <4>2
      <4> QED BY <3>3, <4>2, <4>3 DEF StandsAt
    <3> QED BY <1>9, <3>1, <3>2, <3>3 DEF StandsAt
  <2> QED BY <2>2, <2>3
<1>10. Follow(nodes', texts)
  <2> SUFFICES ASSUME NEW e \in 0 .. N + 1, NEW i \in DOMAIN texts, NEW j \in DOMAIN texts,
                      NEW a \in Nat, NEW b \in Nat, i <= j,
                      StandsAt(nodes', texts, i, e, a), StandsAt(nodes', texts, j, e, b)
               PROVE  a <= b
    BY <1>4 DEF Follow
  <2>1. /\ e \in 0 .. N
        /\ StandsAt(nodes, texts, i, e, a) /\ StandsAt(nodes, texts, j, e, b)
    BY <1>9
  <2> QED BY <2>1 DEF TextsInv, Follow, N
<1>11. NoneBehindOpen'
  <2> SUFFICES ASSUME NEW p \in 1 .. n, NEW i \in DOMAIN texts,
                      texts[i].at = nodes'[open'[p]].parent
               PROVE  texts[i].after < Len(Kids(nodes', texts[i].at))
    BY <1>2 DEF NoneBehindOpen
  <2>1. CASE p \in 1 .. m
    <3>1. p \in DOMAIN open /\ open'[p] = open[p] /\ nodes'[open[p]] = nodes[open[p]]
      BY <1>1, <1>2, <2>1
    <3>2. texts[i].after < Len(Kids(nodes, texts[i].at))
      BY <3>1 DEF TextsInv, NoneBehindOpen
    <3> QED BY <1>5, <1>6, <1>7, <3>2
  <2>2. CASE p \notin 1 .. m
    <3>1. p = m + 1 /\ open'[p] = N + 1
      BY <1>1, <1>2, <2>2
    <3>2. texts[i].at = v.parent
      BY <3>1 DEF v, N
    <3> QED BY <1>5, <1>6, <1>7, <3>2
  <2> QED BY <2>1, <2>2
<1>12. Placed(nodes', texts') /\ Follow(nodes', texts')
  BY <1>8, <1>10
<1> QED BY <1>11, <1>12 DEF TextsInv

LEMMA ClosingKeepsTexts ==
  ASSUME TreeInv, TextsInv, NEW m, FirstOpen(open', m), UNCHANGED <<nodes, texts>>
  PROVE  TextsInv'
<1>1. /\ DOMAIN open' = 1 .. m /\ m \in 0 .. Len(open)
      /\ \A i \in 1 .. m : open'[i] = open[i]
  BY LenProperties DEF FirstOpen
<1>2. DOMAIN open = 1 .. Len(open) /\ Len(open) \in Nat
  BY PageIs
<1>3. NoneBehindOpen'
  BY <1>1, <1>2 DEF TextsInv, NoneBehindOpen
<1>4. Placed(nodes', texts') /\ Follow(nodes', texts')
  BY DEF TextsInv
<1> QED BY <1>3, <1>4 DEF TextsInv

LEMMA TextsInit ==
  ASSUME Init
  PROVE  TextsInv
<1>1. texts = << >> /\ open = << >>
  BY DEF Init
<1>2. DOMAIN texts = {} /\ DOMAIN open = {}
  BY <1>1
<1> QED BY <1>2 DEF TextsInv, Placed, Follow, NoneBehindOpen

LEMMA TextsStep ==
  ASSUME TreeInv, TextsInv, [Next]_vars
  PROVE  TextsInv'
<1>1. TypeOK /\ TreeShape
  BY DEF TreeInv
<1>2. ASSUME UNCHANGED <<nodes, texts, open>>
      PROVE  TextsInv'
  BY <1>1, <1>2, OpenIsPrefix, ClosingKeepsTexts
<1>3. CASE HandleStartTag
  <2>1. PICK start \in page.starts :
          \/ StartInSkipped(start[1]) \/ StartSkipping(start[1])
          \/ StartElement(start[1], start[2])
    BY <1>3 DEF HandleStartTag
  <2>2. CASE StartInSkipped(start[1]) \/ StartSkipping(start[1])
    BY <1>2, <2>2 DEF StartInSkipped, StartSkipping
  <2>3. CASE StartElement(start[1], start[2])
    <3>1. start[1] \in Tag \ SkippedSubtrees /\ start[2] \in Attrs
      BY <1>1, <2>3, TreeAssumption DEF TypeOK, StartElement
    <3>2. PICK m \in Nat, n \in Nat : Grows(start[1], start[2], m, n)
      BY <1>1, <2>3, <3>1, StartElementGrows
    <3>3. UNCHANGED texts
      BY <2>3 DEF StartElement
    <3> QED BY <3>2, <3>3, StartKeepsTexts
  <2> QED BY <2>1, <2>2, <2>3
<1>4. CASE HandleEndTag
  <2>1. PICK tag \in page.ends : EndInSkipped(tag) \/ EndElement(tag)
    BY <1>4 DEF HandleEndTag
  <2>2. CASE EndInSkipped(tag)
    BY <1>2, <2>2 DEF EndInSkipped
  <2>3. CASE EndElement(tag)
    <3>1. PICK m : FirstOpen(open', m)
      <4>1. CASE tag \in VoidElements \/ Innermost({tag}) = 0
        <5>1. open' = open
          BY <2>3, <4>1 DEF EndElement
        <5> QED BY <1>1, <5>1, OpenIsPrefix
      <4>2. CASE ~ (tag \in VoidElements \/ Innermost({tag}) = 0)
        <5>1. open' = CloseFrom(Innermost({tag}))
          BY <2>3, <4>2 DEF EndElement
        <5> QED BY <1>1, <4>2, <5>1, EndTagIsPrefix
      <4> QED BY <4>1, <4>2
    <3>2. UNCHANGED <<nodes, texts>>
      BY <2>3 DEF EndElement
    <3> QED BY <3>1, <3>2, ClosingKeepsTexts
  <2> QED BY <2>1, <2>2, <2>3
<1>5. CASE HandleData
  <2>1. UNCHANGED <<nodes, open>>
    BY <1>5 DEF HandleData
  <2>2. PICK data \in page.data :
          texts' = IF skipped = Nothing THEN Append(texts, TextRun(data)) ELSE texts
    BY <1>5 DEF HandleData
  <2>3. CASE skipped = Nothing
    BY <2>1, <2>2, <2>3, DataKeepsTexts
  <2>4. CASE skipped # Nothing
    BY <1>2, <2>1, <2>2, <2>4
  <2> QED BY <2>3, <2>4
<1>6. CASE UNCHANGED vars
  BY <1>2, <1>6 DEF vars
<1> QED BY <1>3, <1>4, <1>5, <1>6 DEF Next

-----------------------------------------------------------------------------
(* Theorems about a page, recorded or not.                                 *)

PageInv == TreeInv /\ TextsInv

LEMMA PageInit == Init => PageInv
<1> QED BY TreeInit, TextsInit DEF PageInv

\* The next page starts from nothing, like the first.
LEMMA RecordStarts ==
  ASSUME TypeOK, Record
  PROVE  Init'
<1> QED BY DEF TypeOK, Record, Init

LEMMA PageStep == PageInv /\ [DocNext]_docVars => PageInv' \/ Init'
<1> SUFFICES ASSUME PageInv, [DocNext]_docVars PROVE PageInv' \/ Init'
  OBVIOUS
<1>1. TreeInv /\ TextsInv /\ TypeOK
  BY DEF PageInv, TreeInv
<1>2. CASE [Next]_vars
  BY <1>1, <1>2, TreeStep, TextsStep DEF PageInv
<1>3. CASE Record
  BY <1>1, <1>3, RecordStarts
<1> QED BY <1>2, <1>3 DEF DocNext, Parse, docVars

\* The tree and the places of its texts are those of a page in every state of a
\* document, before and after a recording (normalize.py:159-237).
THEOREM PageInvariance == DocSpec => []PageInv
<1>1. DocInit => PageInv
  BY PageInit DEF DocInit
<1>2. PageInv /\ [DocNext]_docVars => PageInv'
  BY PageInit, PageStep, PTL
<1> QED BY <1>1, <1>2, PTL DEF DocSpec

\* For every page, whatever is noted where, left open or interrupted, the text of an
\* element is the runs in it in the order in which the parser met them: the place a
\* run is noted at, by the number of children before it, always says as much
\* (normalize.py:100-140, 222-230).
THEOREM TextOrder == DocSpec => []TextInDocumentOrder
<1>1. PageInv => TextInDocumentOrder
  <2> SUFFICES ASSUME PageInv, NEW n \in DOMAIN nodes \cup {Document}
               PROVE  InOrder(nodes, texts, n) =
                        Ordered({i \in DOMAIN texts : texts[i].at = n
                                   \/ Descends(nodes, texts[i].at, n)}, Len(texts))
    BY DEF TextInDocumentOrder
  <2> DEFINE W == Within(nodes, texts, n)
             q == InOrder(nodes, texts, n)
             r == Ordered(W, Len(texts))
  <2>1. /\ Tree(nodes) /\ Len(nodes) \in Nat /\ DOMAIN nodes = 1 .. Len(nodes)
        /\ Len(texts) \in Nat /\ DOMAIN texts = 1 .. Len(texts)
        /\ Placed(nodes, texts) /\ Follow(nodes, texts)
    BY PageIs DEF PageInv, TextsInv
  <2>2. n \in 0 .. Len(nodes)
    BY <2>1 DEF Document
  <2>3. q \in Seq(Int) /\ Increasing(q) /\ Range(q) = W
    BY <2>1, <2>2, RunsInOrder
  <2>4. W \cap (1 .. Len(texts)) = W
    BY <2>1 DEF Within
  <2>5. W = {i \in DOMAIN texts : texts[i].at = n \/ Descends(nodes, texts[i].at, n)}
    BY DEF Within, Inside
  <2> HIDE DEF q, W
  <2>6. r \in Seq(Int) /\ Increasing(r) /\ Range(r) = W
    BY <2>1, <2>4, OrderedIs
  <2>7. q = r
    <3> HIDE DEF r
    <3> QED BY <2>3, <2>6, SameMembers
  <2> QED BY <2>5, <2>7 DEF q
<1> QED BY <1>1, PageInvariance, PTL

-----------------------------------------------------------------------------
(* The pages and texts of a document.                                      *)

\* Every page of a document is a page of the builder, also those that are checked
\* after another one was recorded (normalize.py:159-237, canary.py:268-291).
THEOREM PagesAreTrees == DocSpec => [](TypeOK /\ NothingImpliedStaysOpen)
<1>1. PageInv => TypeOK /\ NothingImpliedStaysOpen
  BY DEF PageInv, TreeInv, TreeShape
<1> QED BY <1>1, PageInvariance, PTL

-----------------------------------------------------------------------------
(* The texts of a page.                                                    *)

LEMMA TextIsText ==
  ASSUME PageInv, NEW k \in DOMAIN nodes
  PROVE  TextOf(k) \in Seq(STRING)
<1> DEFINE runs == InOrder(nodes, texts, k)
           data == [i \in DOMAIN runs |-> texts[runs[i]].data]
           s    == FlattenSeq(data)
<1>1. /\ Tree(nodes) /\ Len(nodes) \in Nat /\ DOMAIN nodes = 1 .. Len(nodes)
      /\ Len(texts) \in Nat /\ DOMAIN texts = 1 .. Len(texts)
      /\ Placed(nodes, texts) /\ Follow(nodes, texts)
  BY PageIs DEF PageInv, TextsInv
<1>2. k \in 0 .. Len(nodes)
  BY <1>1
<1>3. runs \in Seq(Int) /\ Range(runs) = Within(nodes, texts, k)
  BY <1>1, <1>2, RunsInOrder
<1>4. Len(runs) \in Nat /\ DOMAIN runs = 1 .. Len(runs)
  <2> HIDE DEF runs
  <2> QED BY <1>3, LenProperties
<1> HIDE DEF runs
<1>5. \A i \in DOMAIN runs : runs[i] \in DOMAIN texts
  BY <1>3 DEF Range, Within
<1>6. \A j \in DOMAIN texts : texts[j].data \in Seq(STRING)
  <2>1. texts \in Seq(Run)
    BY DEF PageInv, TreeInv, TypeOK
  <2>2. \A j \in DOMAIN texts : texts[j] \in Run
    BY <1>1, <2>1, ElementOfSeq
  <2> QED BY <2>2, DocumentAssumption DEF Run
<1>7. data \in Seq(Seq(STRING))
  <2>1. data \in [1 .. Len(runs) -> Seq(STRING)]
    BY <1>4, <1>5, <1>6
  <2> HIDE DEF data
  <2> QED BY <1>4, <2>1
<1>8. s \in Seq(STRING)
  <2> HIDE DEF data
  <2> QED BY <1>7, FlattenType
<1>9. TextOf(k) = Collapsed(s)
  BY DEF TextOf, Text, runs
<1> HIDE DEF s
<1> QED BY <1>8, <1>9, PickedIs DEF Collapsed

\* However the markup cuts a price into pieces, and whatever else is on the page: a
\* text that is a price of a convention is read as that price once the decimal
\* separator of the convention is declared. The groups are counted, the point is the
\* declared one, and no digit is lost or gained (canary.py:307-358).
THEOREM DeclaredIsRead == DocSpec => []DeclaredReadsRight
<1>1. PageInv => DeclaredReadsRight
  BY TextIsText, DeclaredReads DEF DeclaredReadsRight
<1> QED BY <1>1, PageInvariance, PTL

-----------------------------------------------------------------------------
(* What a selector reaches.                                                *)

LEMMA SelectIs ==
  ASSUME NEW tree, NEW steps \in Seq(SelectorStep) \ {<< >>}
  PROVE  Select(tree, steps) \subseteq DOMAIN tree
<1> DEFINE L == Len(steps)
           D == 1 .. L
           V == SUBSET DOMAIN tree
           hits(j) == {k \in DOMAIN tree : Matches(tree[k], steps[j].compound)}
           under(j, k, e) == IF steps[j].combinator = ">" THEN tree[k].parent = e
                             ELSE Descends(tree, k, e)
           r(g, j) == IF j = 1 THEN hits(1)
                      ELSE {k \in hits(j) : \E e \in g[j - 1] : under(j, k, e)}
           E == [g \in [D -> V] |-> [j \in D |-> r(g, j)]]
           measure == [j \in D |-> j]
<1>1. L \in Nat /\ L \in D
  BY EmptySeq, LenProperties
<1> HIDE DEF L, under
<1>2. Determined(D, V, L, measure, E)
  <2>1. measure \in [D -> 0 .. L]
    BY <1>1
  <2>2. \A g \in [D -> V], j \in D : r(g, j) \in V
    OBVIOUS
  <2>3. E \in [[D -> V] -> [D -> V]]
    <3> HIDE DEF r, D, V
    <3> QED BY <2>2
  <2>4. \A j \in D : \A g, h \in [D -> V] :
          (\A i \in D : measure[i] < measure[j] => g[i] = h[i]) => E[g][j] = E[h][j]
    <3>1. ASSUME NEW j \in D, NEW g \in [D -> V], NEW h \in [D -> V],
                 \A i \in D : i < j => g[i] = h[i]
          PROVE  r(g, j) = r(h, j)
      <4>1. j # 1 => j - 1 \in D /\ j - 1 < j
        BY <1>1
      <4>2. j # 1 => g[j - 1] = h[j - 1]
        BY <3>1, <4>1
      <4> QED BY <4>2
    <3> HIDE DEF r, D, V
    <3> QED BY <1>1, <3>1
  <2>5. V # {}
    OBVIOUS
  <2> HIDE DEF D, E, measure, V
  <2> QED BY <1>1, <2>1, <2>3, <2>4, <2>5 DEF Determined
<1>3. PICK f0 \in [D -> V] : f0 = [j \in D |-> r(f0, j)]
  <2>1. \E f \in [D -> V] : f = E[f]
    <3> HIDE DEF D, E, measure, V
    <3> QED BY <1>2, Recursion
  <2> HIDE DEF r, D, V
  <2> QED BY <2>1
<1> DEFINE reached == CHOOSE f : f = [j \in D |-> r(f, j)]
<1>4. reached = [j \in D |-> r(reached, j)]
  <2> HIDE DEF r
  <2> QED BY <1>3
<1>5. Select(tree, steps) = reached[L]
  BY DEF Select, Reached, L, under
<1>6. reached[L] = r(reached, L)
  <2> HIDE DEF reached, r
  <2> QED BY <1>1, <1>4
<1> HIDE DEF reached
<1> QED BY <1>5, <1>6

-----------------------------------------------------------------------------
(* The lines of a page.                                                    *)

Keys == {NodeKey(v) : v \in Node}

LEMMA IsSeq ==
  ASSUME NEW T, NEW n \in Nat, NEW s \in [1 .. n -> T]
  PROVE  s \in Seq(T)
<1> QED OBVIOUS

LEMMA FoldedLinesType ==
  ASSUME NEW K, NEW blocks \in Seq(Seq(LineOf(K)))
  PROVE  FoldedLines(blocks) \in Seq(LineOf(K))
<1>1. ASSUME NEW block \in Seq(LineOf(K))
      PROVE  Folded(block) \in Seq(LineOf(K))
  <2>1. Len(block) \in Nat /\ DOMAIN block = 1 .. Len(block)
        /\ \A i \in 1 .. Len(block) : block[i] \in LineOf(K)
    BY LenProperties, ElementOfSeq
  <2>2. Folded(block) =
          [i \in DOMAIN block |-> IF i = 1 THEN [block[1] EXCEPT !.folded = TRUE] ELSE block[i]]
    BY DEF Folded
  <2>3. \A i \in 1 .. Len(block) : [block[i] EXCEPT !.folded = TRUE] \in LineOf(K)
    BY <2>1 DEF LineOf
  <2>4. Folded(block) \in [1 .. Len(block) -> LineOf(K)]
    BY <2>1, <2>2, <2>3
  <2> QED BY <2>1, <2>4
<1> DEFINE part(i) == IF ~RunStarts(blocks, i) THEN << >>
                      ELSE IF RunEnds(blocks, i) THEN blocks[i] ELSE Folded(blocks[i])
           parts == [i \in DOMAIN blocks |-> part(i)]
<1>2. Len(blocks) \in Nat /\ DOMAIN blocks = 1 .. Len(blocks)
      /\ \A i \in DOMAIN blocks : blocks[i] \in Seq(LineOf(K))
  BY LenProperties, ElementOfSeq
<1>3. \A i \in DOMAIN blocks : part(i) \in Seq(LineOf(K))
  <2> TAKE i \in DOMAIN blocks
  <2>1. << >> \in Seq(LineOf(K)) /\ blocks[i] \in Seq(LineOf(K))
        /\ Folded(blocks[i]) \in Seq(LineOf(K))
    BY <1>1, <1>2, EmptySeq
  <2> QED BY <2>1
<1>4. parts \in Seq(Seq(LineOf(K)))
  <2> HIDE DEF part
  <2>1. parts \in [1 .. Len(blocks) -> Seq(LineOf(K))]
    BY <1>2, <1>3
  <2> HIDE DEF parts
  <2> QED BY <1>2, <2>1, IsSeq
<1>5. FoldedLines(blocks) = FlattenSeq(parts)
  BY DEF FoldedLines
<1> HIDE DEF parts
<1> QED BY <1>4, <1>5, FlattenType

KeysOf(tree) == {NodeKey(tree[k]) : k \in DOMAIN tree}

\* What Subtree makes of a node, of what it makes of the children.
PathOf(tree, m, above) == IF m = 0 THEN above ELSE Append(above, NodeKey(tree[m]))

OwnLine(tree, m, above) ==
  IF m = 0 THEN << >> ELSE <<Line(Len(above), NodeKey(tree[m]))>>

KidsLines(tree, m, above) ==
  [i \in DOMAIN Kids(tree, m) |-> Subtree(tree, Kids(tree, m)[i], PathOf(tree, m, above)).lines]

KidsCounts(tree, m, above) ==
  [i \in DOMAIN Kids(tree, m) |-> Subtree(tree, Kids(tree, m)[i], PathOf(tree, m, above)).counts]

KidsPaths(tree, m, above) ==
  [i \in DOMAIN Kids(tree, m) |->
     Append(PathOf(tree, m, above), NodeKey(tree[Kids(tree, m)[i]]))]

CountsOf(tree) ==
  Seq(KeysOf(tree)) \X {RunLength(b, i) : b \in Seq(Seq(LineOf(Keys))), i \in Nat}

LEMMA SubtreeIs ==
  ASSUME NEW tree, Tree(tree)
  PROVE  \A n \in 0 .. Len(tree) : \A above \in Seq(KeysOf(tree)) :
           /\ Subtree(tree, n, above) =
                [lines  |-> OwnLine(tree, n, above) \o FoldedLines(KidsLines(tree, n, above)),
                 counts |-> RunCounts(KidsLines(tree, n, above), KidsCounts(tree, n, above),
                                      KidsPaths(tree, n, above))]
           /\ Subtree(tree, n, above).lines \in Seq(LineOf(Keys))
           /\ Subtree(tree, n, above).counts \in Seq(CountsOf(tree))
           /\ PathOf(tree, n, above) \in Seq(KeysOf(tree))
           /\ \A i \in DOMAIN Kids(tree, n) : Kids(tree, n)[i] \in n + 1 .. Len(tree)
<1> DEFINE N == Len(tree)
           keys == {NodeKey(tree[k]) : k \in DOMAIN tree}
           D == (0 .. N) \X Seq(keys)
           Q == Seq(keys) \X {RunLength(b, i) : b \in Seq(Seq(LineOf(Keys))), i \in Nat}
           C == Seq(Q)
           V == [lines : Seq(LineOf(Keys)), counts : C]
           kids(m) == Kids(tree, m)
           path(x) == IF x[1] = 0 THEN x[2] ELSE Append(x[2], NodeKey(tree[x[1]]))
           under(g, x) == [i \in DOMAIN kids(x[1]) |-> g[<<kids(x[1])[i], path(x)>>]]
           blocks(g, x) == [i \in DOMAIN kids(x[1]) |-> under(g, x)[i].lines]
           counts(g, x) == [i \in DOMAIN kids(x[1]) |-> under(g, x)[i].counts]
           paths(x) == [i \in DOMAIN kids(x[1]) |-> Append(path(x), NodeKey(tree[kids(x[1])[i]]))]
           own(x) == IF x[1] = 0 THEN << >> ELSE <<Line(Len(x[2]), NodeKey(tree[x[1]]))>>
           r(g, x) == [lines  |-> own(x) \o FoldedLines(blocks(g, x)),
                       counts |-> RunCounts(blocks(g, x), counts(g, x), paths(x))]
           E == [g \in [D -> V] |-> [x \in D |-> r(g, x)]]
           measure == [x \in D |-> N - x[1]]
<1>1. /\ N \in Nat /\ DOMAIN tree = 1 .. N
      /\ \A k \in 1 .. N : tree[k] \in Node
  BY TreeIs
<1>2. \A m \in 0 .. N : /\ Len(kids(m)) \in Nat /\ DOMAIN kids(m) = 1 .. Len(kids(m))
                        /\ \A c \in DOMAIN kids(m) : kids(m)[c] \in m + 1 .. N
  BY KidsAre
<1>3. \A k \in 1 .. N : NodeKey(tree[k]) \in keys /\ NodeKey(tree[k]) \in Keys
  BY <1>1 DEF Keys
<1> HIDE DEF kids, keys
<1>4. ASSUME NEW x \in D
      PROVE  /\ path(x) \in Seq(keys)
             /\ own(x) \in Seq(LineOf(Keys))
             /\ \A i \in DOMAIN kids(x[1]) : /\ <<kids(x[1])[i], path(x)>> \in D
                                             /\ kids(x[1])[i] > x[1]
  <2>1. x[1] \in 0 .. N /\ x[2] \in Seq(keys) /\ Len(x[2]) \in Nat
    BY LenProperties
  <2>2. path(x) \in Seq(keys)
    BY <1>3, <2>1, AppendProperties
  <2>3. own(x) \in Seq(LineOf(Keys))
    <3>1. CASE x[1] = 0
      BY <3>1, EmptySeq
    <3>2. CASE x[1] # 0
      <4>1. Line(Len(x[2]), NodeKey(tree[x[1]])) \in LineOf(Keys)
        <5>1. NodeKey(tree[x[1]]) \in Keys
          BY <1>1, <1>3, <2>1, <3>2
        <5> QED BY <2>1, <5>1 DEF Line, LineOf
      <4> QED BY <3>2, <4>1
    <3> QED BY <3>1, <3>2
  <2> HIDE DEF path
  <2>4. \A i \in DOMAIN kids(x[1]) : /\ <<kids(x[1])[i], path(x)>> \in D
                                     /\ kids(x[1])[i] > x[1]
    <3> TAKE i \in DOMAIN kids(x[1])
    <3>1. kids(x[1])[i] \in x[1] + 1 .. N
      BY <1>2, <2>1
    <3>2. kids(x[1])[i] \in 0 .. N /\ kids(x[1])[i] > x[1]
      BY <1>1, <2>1, <3>1
    <3> QED BY <2>2, <3>2
  <2> QED BY <2>2, <2>3, <2>4
<1>5. ASSUME NEW g, NEW x \in D,
             \A i \in DOMAIN kids(x[1]) : g[<<kids(x[1])[i], path(x)>>] \in V
      PROVE  r(g, x) \in V
  <2>1. \A i \in DOMAIN kids(x[1]) : g[<<kids(x[1])[i], path(x)>>] \in V
    <3> HIDE DEF path, V, D
    <3> QED BY <1>5
  <2> HIDE DEF path, D
  <2>2. x[1] \in 0 .. N
    BY DEF D
  <2> DEFINE L == Len(kids(x[1]))
             B == blocks(g, x)
             U == counts(g, x)
             P == paths(x)
             part(i) == U[i] \o (IF RunEnds(B, i) /\ ~RunStarts(B, i)
                                 THEN << <<P[i], RunLength(B, i)>> >> ELSE << >>)
             parts == [i \in DOMAIN B |-> part(i)]
             SL == Seq(LineOf(Keys))
  <2>3. L \in Nat /\ DOMAIN kids(x[1]) = 1 .. L
    BY <1>2, <2>2
  <2>4. \A i \in 1 .. L : /\ g[<<kids(x[1])[i], path(x)>>].lines \in SL
                          /\ g[<<kids(x[1])[i], path(x)>>].counts \in C
    <3> HIDE DEF C, SL
    <3>1. V = [lines : SL, counts : C]
      BY DEF SL
    <3> HIDE DEF V
    <3> QED BY <2>1, <2>3, <3>1
  <2>5. B \in [1 .. L -> Seq(LineOf(Keys))]
    <3> HIDE DEF L
    <3>1. B = [i \in 1 .. L |-> g[<<kids(x[1])[i], path(x)>>].lines]
      BY <2>3
    <3> HIDE DEF B, SL, C
    <3>2. B \in [1 .. L -> SL]
      BY <2>4, <3>1
    <3> QED BY <3>2 DEF SL
  <2>6. U \in [1 .. L -> C]
    <3> HIDE DEF L
    <3>1. U = [i \in 1 .. L |-> g[<<kids(x[1])[i], path(x)>>].counts]
      BY <2>3
    <3> HIDE DEF C, U
    <3> QED BY <2>4, <3>1
  <2>7. \A c \in 1 .. L : P[c] \in Seq(keys)
    <3> SUFFICES ASSUME NEW c \in 1 .. L PROVE P[c] \in Seq(keys)
      <4> HIDE DEF P
      <4> QED OBVIOUS
    <3>1. path(x) \in Seq(keys)
      BY <1>4
    <3>2. kids(x[1])[c] \in 1 .. N
      <4>1. kids(x[1])[c] \in x[1] + 1 .. N
        BY <1>2, <2>2, <2>3
      <4> QED BY <1>1, <2>2, <4>1
    <3>3. NodeKey(tree[kids(x[1])[c]]) \in keys
      BY <1>3, <3>2
    <3>4. P[c] = Append(path(x), NodeKey(tree[kids(x[1])[c]]))
      BY <2>3
    <3> HIDE DEF P
    <3> QED BY <3>1, <3>3, <3>4, AppendProperties
  <2> HIDE DEF B, U, P, L
  <2>8. B \in Seq(Seq(LineOf(Keys))) /\ DOMAIN B = 1 .. L
    BY <2>3, <2>5, IsSeq
  <2>9. \A c \in 1 .. L : part(c) \in Seq(Q)
    <3> SUFFICES ASSUME NEW c \in 1 .. L PROVE part(c) \in Seq(Q)
      <4> HIDE DEF part, Q
      <4> QED OBVIOUS
    <3>1. <<P[c], RunLength(B, c)>> \in Q
      BY <2>3, <2>7, <2>8
    <3>2. U[c] \in Seq(Q)
      BY <2>6
    <3> HIDE DEF Q
    <3>3. << <<P[c], RunLength(B, c)>> >> \in Seq(Q) /\ << >> \in Seq(Q)
      BY <3>1, EmptySeq
    <3> QED BY <3>2, <3>3, ConcatProperties
  <2>10. RunCounts(B, U, P) \in C
    <3>1. RunCounts(B, U, P) = FlattenSeq(parts)
      BY DEF RunCounts
    <3>2. parts \in [1 .. L -> Seq(Q)]
      <4> HIDE DEF part, Q
      <4> QED BY <2>8, <2>9
    <3> HIDE DEF parts, Q
    <3>3. parts \in Seq(Seq(Q))
      BY <2>3, <3>2, IsSeq
    <3> QED BY <3>1, <3>3, FlattenType
  <2>11. FoldedLines(B) \in Seq(LineOf(Keys))
    BY <2>8, FoldedLinesType
  <2>12. own(x) \o FoldedLines(B) \in Seq(LineOf(Keys))
    <3> HIDE DEF own
    <3> QED BY <1>4, <2>11, ConcatProperties
  <2>13. r(g, x) = [lines |-> own(x) \o FoldedLines(B), counts |-> RunCounts(B, U, P)]
    BY DEF B, U, P
  <2> HIDE DEF own, C, r
  <2> QED BY <2>10, <2>12, <2>13
<1>6. ASSUME NEW x \in D, NEW g \in [D -> V], NEW h \in [D -> V],
             \A y \in D : N - y[1] < N - x[1] => g[y] = h[y]
      PROVE  r(g, x) = r(h, x)
  <2>1. ASSUME NEW c \in DOMAIN kids(x[1])
        PROVE  g[<<kids(x[1])[c], path(x)>>] = h[<<kids(x[1])[c], path(x)>>]
    <3> DEFINE z == kids(x[1])[c]
               y == <<z, path(x)>>
    <3>1. y \in D /\ z > x[1]
      <4>1. \A i \in DOMAIN kids(x[1]) : /\ <<kids(x[1])[i], path(x)>> \in D
                                         /\ kids(x[1])[i] > x[1]
        <5> HIDE DEF D, V, path, own
        <5> QED BY <1>4
      <4> HIDE DEF D, path
      <4> QED BY <4>1
    <3>2. z \in Int /\ x[1] \in Int
      BY <3>1
    <3>3. N - z < N - x[1]
      <4> HIDE DEF z, path
      <4> QED BY <1>1, <3>1, <3>2
    <3>4. y[1] = z
      OBVIOUS
    <3> HIDE DEF y, D
    <3>5. g[y] = h[y]
      BY <1>6, <3>1, <3>3, <3>4
    <3> QED BY <3>5 DEF y
  <2> HIDE DEF path
  <2>2. under(g, x) = under(h, x)
    BY <2>1
  <2> HIDE DEF under, own, paths
  <2> QED BY <2>2
<1>7. Determined(D, V, N, measure, E)
  <2>1. measure \in [D -> 0 .. N]
    BY <1>1
  <2>2. E \in [[D -> V] -> [D -> V]]
    <3> SUFFICES ASSUME NEW g \in [D -> V], NEW x \in D PROVE r(g, x) \in V
      <4> HIDE DEF r, D, V
      <4> QED OBVIOUS
    <3>1. \A i \in DOMAIN kids(x[1]) : g[<<kids(x[1])[i], path(x)>>] \in V
      <4> HIDE DEF D, V, path
      <4> QED BY <1>4
    <3> HIDE DEF r, D, V, path
    <3> QED BY <1>5, <3>1
  <2>3. \A x \in D : \A g, h \in [D -> V] :
          (\A y \in D : measure[y] < measure[x] => g[y] = h[y]) => E[g][x] = E[h][x]
    <3> HIDE DEF r, D, V
    <3> QED BY <1>6
  <2>4. V # {}
    <3>1. [lines |-> << >>, counts |-> << >>] \in V
      BY EmptySeq
    <3> HIDE DEF V
    <3> QED BY <3>1
  <2> HIDE DEF D, E, measure, V, N
  <2> QED BY <1>1, <2>1, <2>2, <2>3, <2>4 DEF Determined
<1>8. PICK f0 \in [D -> V] : f0 = [x \in D |-> r(f0, x)]
  <2>1. \E f \in [D -> V] : f = E[f]
    <3> HIDE DEF D, E, measure, V, N
    <3> QED BY <1>1, <1>7, Recursion
  <2> HIDE DEF r, D, V
  <2> QED BY <2>1
<1> DEFINE render == CHOOSE f : f = [x \in D |-> r(f, x)]
<1>9. render = [x \in D |-> r(render, x)]
  <2> HIDE DEF r, D, V
  <2> QED BY <1>8
<1>10. \A n, above : Subtree(tree, n, above) = render[<<n, above>>]
  BY DEF Subtree, kids, keys
<1>11. \A x \in D : render[x] = r(render, x)
  <2> HIDE DEF r, D, render
  <2> QED BY <1>9
<1> DEFINE T == {d \in Nat : \A x \in D : N - x[1] = d => render[x] \in V}
<1> HIDE DEF render
<1>12. ASSUME NEW d \in Nat, \A c \in 0 .. d - 1 : c \in T
       PROVE  d \in T
  <2> SUFFICES ASSUME NEW x \in D, N - x[1] = d PROVE render[x] \in V
    <3> HIDE DEF D, V
    <3> QED OBVIOUS
  <2>1. x[1] \in 0 .. N
    OBVIOUS
  <2> HIDE DEF D, V, path
  <2>2. ASSUME NEW i \in DOMAIN kids(x[1])
        PROVE  render[<<kids(x[1])[i], path(x)>>] \in V
    <3> DEFINE z == kids(x[1])[i]
               y == <<z, path(x)>>
    <3>1. y \in D /\ z > x[1]
      BY <1>4
    <3>2. z \in 0 .. N /\ y[1] = z
      BY <3>1 DEF D
    <3>3. N - z \in 0 .. d - 1
      <4> HIDE DEF z
      <4> QED BY <1>1, <2>1, <3>1, <3>2
    <3> HIDE DEF z
    <3>4. N - z \in T
      <4> HIDE DEF T
      <4> QED BY <1>12, <3>3
    <3> HIDE DEF y
    <3>5. render[y] \in V
      BY <3>1, <3>2, <3>4
    <3> QED BY <3>5 DEF y, z
  <2> HIDE DEF r
  <2> QED BY <1>5, <1>11, <2>2
<1>13. Nat \subseteq T
  <2> HIDE DEF T
  <2> QED BY <1>12, EveryNumber
<1>14. \A x \in D : render[x] \in V
  <2> SUFFICES ASSUME NEW x \in D PROVE render[x] \in V
    <3> HIDE DEF D, V
    <3> QED OBVIOUS
  <2>1. N - x[1] \in Nat
    BY <1>1
  <2>2. N - x[1] \in T
    <3> HIDE DEF T, D
    <3> QED BY <1>13, <2>1
  <2> HIDE DEF D, V
  <2> QED BY <2>2
<1>15. ASSUME NEW n \in 0 .. N, NEW above \in Seq(keys)
       PROVE  /\ Subtree(tree, n, above) =
                   [lines  |-> OwnLine(tree, n, above) \o FoldedLines(KidsLines(tree, n, above)),
                    counts |-> RunCounts(KidsLines(tree, n, above), KidsCounts(tree, n, above),
                                         KidsPaths(tree, n, above))]
              /\ Subtree(tree, n, above).lines \in Seq(LineOf(Keys))
              /\ Subtree(tree, n, above).counts \in C
              /\ PathOf(tree, n, above) \in Seq(keys)
              /\ \A i \in DOMAIN kids(n) : kids(n)[i] \in n + 1 .. N
  <2> DEFINE x == <<n, above>>
  <2>1. x \in D /\ x[1] = n /\ x[2] = above
    <3> HIDE DEF N
    <3> QED OBVIOUS
  <2> HIDE DEF x, D
  <2>2. /\ own(x) = OwnLine(tree, n, above) /\ path(x) = PathOf(tree, n, above)
    BY <2>1 DEF OwnLine, PathOf
  <2>3. path(x) \in Seq(keys)
    BY <1>4, <2>1
  <2>4. paths(x) = KidsPaths(tree, n, above)
    <3> HIDE DEF path
    <3> QED BY <2>1, <2>2 DEF KidsPaths, kids
  <2>5. \A i : render[<<kids(n)[i], path(x)>>] = Subtree(tree, kids(n)[i], path(x))
    <3> HIDE DEF path
    <3> QED BY <1>10
  <2>6. blocks(render, x) = KidsLines(tree, n, above)
        /\ counts(render, x) = KidsCounts(tree, n, above)
    <3> HIDE DEF path
    <3>1. /\ blocks(render, x) = [i \in DOMAIN kids(n) |-> render[<<kids(n)[i], path(x)>>].lines]
          /\ counts(render, x) = [i \in DOMAIN kids(n) |-> render[<<kids(n)[i], path(x)>>].counts]
      BY <2>1
    <3> DEFINE w(i) == render[<<kids(n)[i], path(x)>>]
               u(i) == Subtree(tree, kids(n)[i], path(x))
    <3>2. /\ KidsLines(tree, n, above) = [i \in DOMAIN kids(n) |-> u(i).lines]
          /\ KidsCounts(tree, n, above) = [i \in DOMAIN kids(n) |-> u(i).counts]
      BY <2>2 DEF KidsLines, KidsCounts, kids
    <3>3. \A i : w(i) = u(i)
      BY <2>5
    <3>4. /\ blocks(render, x) = [i \in DOMAIN kids(n) |-> w(i).lines]
          /\ counts(render, x) = [i \in DOMAIN kids(n) |-> w(i).counts]
      BY <3>1
    <3> HIDE DEF w, u, blocks, counts
    <3> QED BY <3>2, <3>3, <3>4
  <2>7. render[x] = r(render, x) /\ render[x] \in V
    <3> HIDE DEF r, V
    <3> QED BY <1>11, <1>14, <2>1
  <2>8. Subtree(tree, n, above) = render[x]
    BY <1>10 DEF x
  <2> HIDE DEF own, path, paths, blocks, counts, C
  <2>9. Subtree(tree, n, above) \in V /\ Subtree(tree, n, above) = r(render, x)
    BY <2>7, <2>8
  <2>10. Subtree(tree, n, above).lines \in Seq(LineOf(Keys))
         /\ Subtree(tree, n, above).counts \in C
    <3> DEFINE SL == Seq(LineOf(Keys))
               sub == Subtree(tree, n, above)
    <3> HIDE DEF sub, SL
    <3>1. sub \in [lines : SL, counts : C]
      BY <2>9 DEF sub, SL
    <3>2. sub.lines \in SL /\ sub.counts \in C
      BY <3>1
    <3> QED BY <3>2 DEF sub, SL
  <2> HIDE DEF V
  <2> QED BY <1>2, <2>2, <2>3, <2>4, <2>6, <2>9, <2>10
<1> HIDE DEF N
<1>16. keys = KeysOf(tree) /\ C = Seq(CountsOf(tree))
  BY DEF keys, KeysOf, CountsOf
<1> HIDE DEF C
<1> QED BY <1>15, <1>16 DEF N, kids

LEMMA SubtreeLines ==
  ASSUME NEW tree, Tree(tree), NEW n \in 0 .. Len(tree)
  PROVE  Subtree(tree, n, << >>).lines \in Seq(LineOf(Keys))
<1>1. << >> \in Seq(KeysOf(tree))
  BY EmptySeq
<1> DEFINE none == << >>
<1>2. none \in Seq(KeysOf(tree))
  BY <1>1
<1> HIDE DEF none
<1>3. Subtree(tree, n, none).lines \in Seq(LineOf(Keys))
  BY <1>2, SubtreeIs
<1> QED BY <1>3 DEF none

-----------------------------------------------------------------------------
(* A contract remembers lines.                                             *)

LEMMA PageLines ==
  ASSUME PageInv
  PROVE  NormalizeTree(nodes, Container).lines \in Seq(LineOf(Keys))
<1> DEFINE scope == Select(nodes, Container)
<1>1. Tree(nodes) /\ Len(nodes) \in Nat /\ DOMAIN nodes = 1 .. Len(nodes)
  BY PageIs DEF PageInv
<1>2. scope \subseteq 1 .. Len(nodes)
  BY <1>1, SelectIs, DocumentAssumption
<1> HIDE DEF scope
<1>3. CASE scope = {}
  BY <1>3, EmptySeq DEF NormalizeTree, scope
<1>4. CASE scope # {}
  <2>1. Min(scope) \in scope
    <3>1. \E m \in scope : \A j \in scope : m <= j
      <4>1. scope \in SUBSET Nat
        BY <1>2
      <4> QED BY <1>4, <4>1, LeastExists
    <3> QED BY <3>1 DEF Min
  <2>2. Min(scope) \in 0 .. Len(nodes)
    <3>1. \A m \in 1 .. Len(nodes) : m \in 0 .. Len(nodes)
      BY <1>1
    <3> QED BY <1>2, <2>1, <3>1
  <2>3. NormalizeTree(nodes, Container) = Subtree(nodes, Min(scope), << >>)
    BY <1>4 DEF NormalizeTree, scope
  <2> QED BY <1>1, <2>2, <2>3, SubtreeLines
<1> QED BY <1>3, <1>4

LEMMA ChangeType ==
  ASSUME NEW T, NEW a \in Seq(T), NEW b \in Seq(T)
  PROVE  /\ StructureChange(a, b).removed \in Seq(T)
         /\ StructureChange(a, b).moved \in Seq(T)
<1> DEFINE R == RawDiff(a, b).removed
           A == RawDiff(a, b).added
           change == StructureChange(a, b)
           moved == MovedAt(R, A, DominantShift(R, A))
<1>1. R \in Seq(T)
  BY RawCounts
<1>2. \/ change.removed = R /\ change.moved = << >>
      \/ change.removed = Picked(R, DOMAIN R \ moved) /\ change.moved = Picked(R, moved)
  <2> HIDE DEF R, A
  <2> QED BY DEF StructureChange, Reparented, R, A
<1> HIDE DEF R, moved, change
<1>3. << >> \in Seq(T)
  BY EmptySeq
<1>4. \A at : Picked(R, at) \in Seq(T)
  BY <1>1, PickedIs
<1>5. change.removed \in Seq(T) /\ change.moved \in Seq(T)
  BY <1>1, <1>2, <1>3, <1>4
<1> QED BY <1>5 DEF change

ContractInv == contract = Nothing \/ contract.baseline \in Seq(LineOf(Keys))

LEMMA ContractStep == PageInv /\ ContractInv /\ [DocNext]_docVars => ContractInv'
<1> SUFFICES ASSUME PageInv, ContractInv, [DocNext]_docVars PROVE ContractInv'
  OBVIOUS
<1>1. CASE UNCHANGED contract
  BY <1>1 DEF ContractInv
<1>2. CASE Record
  <2>1. PICK separator \in DeclaredSeparators : contract' = Recorded(nodes, separator)
    BY <1>2 DEF Record
  <2>2. contract'.baseline = NormalizeTree(nodes, Container).lines
    BY <2>1 DEF Recorded
  <2>3. contract'.baseline \in Seq(LineOf(Keys))
    BY <2>2, PageLines
  <2> QED BY <2>3 DEF ContractInv
<1> QED BY <1>1, <1>2 DEF DocNext, Parse, docVars

\* However the difference falls and whatever is paired with what, a contract and a
\* page of any size: of a node the page has fewer of than the contract, as many as
\* are missing are reported gone, and no more of it is reported moved than the page
\* has (canary.py:447-508).
THEOREM NothingMasked == DocSpec => []RemovalIsNeverMasked
<1>1. DocInit => ContractInv
  BY DEF DocInit, ContractInv
<1>2. PageInv /\ ContractInv => RemovalIsNeverMasked
  <2> SUFFICES ASSUME PageInv, ContractInv, contract # Nothing,
                      NEW line \in Range(contract.baseline)
               PROVE  LET change == StructureChange(contract.baseline, Observed)
                          of(s) == Cardinality({i \in DOMAIN s : SameNode(s[i], line)})
                      IN  /\ of(change.removed) >= of(contract.baseline) - of(Observed)
                          /\ of(change.moved) <= of(Observed)
    BY DEF RemovalIsNeverMasked
  <2> DEFINE a == contract.baseline
             b == Observed
             W == {x \in LineOf(Keys) : SameNode(x, line)}
             change == StructureChange(a, b)
             of(s) == Cardinality({i \in DOMAIN s : SameNode(s[i], line)})
  <2>1. a \in Seq(LineOf(Keys)) /\ b \in Seq(LineOf(Keys))
    BY PageLines DEF ContractInv, Observed
  <2>2. \A x \in LineOf(Keys) : \A d \in Int : x \in W => Shifted(x, d) \in W
    BY ShiftedIs DEF SameNode
  <2>3. \A s \in Seq(LineOf(Keys)) : of(s) = CountIn(s, W)
    <3> SUFFICES ASSUME NEW s \in Seq(LineOf(Keys)) PROVE of(s) = CountIn(s, W)
      OBVIOUS
    <3>1. \A i \in DOMAIN s : s[i] \in LineOf(Keys)
      BY LenProperties, ElementOfSeq
    <3>2. {i \in DOMAIN s : SameNode(s[i], line)} = {i \in DOMAIN s : s[i] \in W}
      BY <3>1
    <3> QED BY <3>2 DEF CountIn
  <2> HIDE DEF W, a, b
  <2>4. change.removed \in Seq(LineOf(Keys)) /\ change.moved \in Seq(LineOf(Keys))
    BY <2>1, ChangeType
  <2>5. /\ CountIn(change.removed, W) >= CountIn(a, W) - CountIn(b, W)
        /\ CountIn(change.moved, W) <= CountIn(b, W)
    BY <2>1, <2>2, RemovalCounts
  <2> HIDE DEF change, of
  <2>6. of(change.removed) >= of(a) - of(b) /\ of(change.moved) <= of(b)
    BY <2>1, <2>3, <2>4, <2>5
  <2> QED BY <2>6 DEF change, of, a, b
<1> QED BY <1>1, <1>2, ContractStep, PageInvariance, PTL DEF DocSpec

-----------------------------------------------------------------------------
(* Blocks of lines, told apart again.                                      *)

\* Some of the pieces in their places, and the same pieces one behind the other.
Chosen(s, S, n) == [i \in 1 .. n |-> IF i \in S THEN s[i] ELSE << >>]

Along(s, q) == [j \in DOMAIN q |-> s[q[j]]]

LEMMA FlattenChosen ==
  ASSUME NEW T, NEW n \in Nat, NEW s \in [1 .. n -> Seq(T)], NEW S
  PROVE  FlattenSeq(Chosen(s, S, n)) = FlattenSeq(Along(s, Ordered(S, n)))
<1> DEFINE g(k) == [i \in 1 .. k |-> IF i \in S THEN s[i] ELSE << >>]
           q(k) == Ordered(S, k)
           c(k) == [j \in DOMAIN q(k) |-> s[q(k)[j]]]
           U == {k \in 0 .. n : FlattenSeq(g(k)) = FlattenSeq(c(k))}
<1>1. << >> \in Seq(T)
  BY EmptySeq
<1>2. \A k \in 0 .. n : /\ q(k) \in Seq(Int) /\ Len(q(k)) \in Nat
                        /\ DOMAIN q(k) = 1 .. Len(q(k))
                        /\ \A j \in DOMAIN q(k) : q(k)[j] \in 1 .. k
  <2> SUFFICES ASSUME NEW k \in 0 .. n
               PROVE  /\ q(k) \in Seq(Int) /\ Len(q(k)) \in Nat
                      /\ DOMAIN q(k) = 1 .. Len(q(k))
                      /\ \A j \in DOMAIN q(k) : q(k)[j] \in 1 .. k
    <3> HIDE DEF q
    <3> QED OBVIOUS
  <2>0. k \in Nat
    OBVIOUS
  <2>1. q(k) \in Seq(S \cap (1 .. k)) /\ q(k) \in Seq(Int)
    BY <2>0, OrderedIs
  <2> HIDE DEF q
  <2>2. Len(q(k)) \in Nat /\ DOMAIN q(k) = 1 .. Len(q(k))
    BY <2>1, LenProperties
  <2>3. \A j \in DOMAIN q(k) : q(k)[j] \in S \cap (1 .. k)
    BY <2>1, <2>2, ElementOfSeq
  <2> QED BY <2>1, <2>2, <2>3
<1>3. 0 \in U
  <2>1. q(0) = << >>
    BY OrderedEmpty
  <2>2. c(0) = << >> /\ g(0) = << >>
    BY <2>1
  <2> HIDE DEF c, g
  <2> QED BY <2>2
<1>4. ASSUME NEW k \in 1 .. n, k - 1 \in U
      PROVE  k \in U
  <2> DEFINE l == k - 1
             v == IF k \in S THEN s[k] ELSE << >>
  <2>1. l \in Nat /\ l + 1 = k /\ l \in 0 .. n /\ k \in 0 .. n
    OBVIOUS
  <2>2. FlattenSeq(g(l)) = FlattenSeq(c(l))
    BY <1>4
  <2>3. FlattenSeq(g(k)) = FlattenSeq(g(l)) \o v
    <3>1. g(k) \in [1 .. l + 1 -> Seq(T)]
      BY <1>1
    <3>2. [i \in 1 .. l |-> g(k)[i]] = g(l) /\ g(k)[l + 1] = v
      OBVIOUS
    <3> HIDE DEF g, v, l
    <3> QED BY <2>1, <3>1, <3>2, FlattenLast
  <2>4. q(k) = q(l) \o (IF k \in S THEN <<k>> ELSE << >>)
    <3> HIDE DEF l
    <3>1. Ordered(S, l + 1) = Ordered(S, l) \o (IF l + 1 \in S THEN <<l + 1>> ELSE << >>)
      BY <2>1, OrderedLast
    <3> QED BY <2>1, <3>1
  <2> HIDE DEF q, l
  <2>5. /\ q(l) \in Seq(Int) /\ Len(q(l)) \in Nat /\ DOMAIN q(l) = 1 .. Len(q(l))
        /\ \A j \in DOMAIN q(l) : q(l)[j] \in 1 .. l
    BY <1>2, <2>1
  <2>6. FlattenSeq(c(k)) = FlattenSeq(c(l)) \o v
    <3>1. CASE k \notin S
      <4>1. q(k) = q(l)
        BY <2>4, <2>5, <3>1, ConcatEmptySeq
      <4>2. c(k) = c(l)
        BY <4>1
      <4>3. FlattenSeq(c(l)) \in Seq(T)
        <5>1. c(l) \in [1 .. Len(q(l)) -> Seq(T)]
          BY <2>1, <2>5
        <5> HIDE DEF c
        <5>2. c(l) \in Seq(Seq(T))
          BY <2>5, <5>1, IsSeq
        <5> QED BY <5>2, FlattenType
      <4> QED BY <3>1, <4>2, <4>3, ConcatEmptySeq
    <3>2. CASE k \in S
      <4> DEFINE h == Len(q(l))
      <4>1. q(k) = q(l) \o <<k>> /\ <<k>> \in Seq(Int) /\ Len(<<k>>) = 1 /\ <<k>>[1] = k
        BY <2>4, <3>2
      <4>2. /\ Len(q(k)) = h + 1 /\ DOMAIN q(k) = 1 .. h + 1
            /\ q(k)[h + 1] = k /\ \A j \in 1 .. h : q(k)[j] = q(l)[j]
        <5>1. q(l) \o <<k>> \in Seq(Int) /\ Len(q(l) \o <<k>>) = h + 1
              /\ \A i \in 1 .. h + 1 :
                   (q(l) \o <<k>>)[i] = IF i <= h THEN q(l)[i] ELSE <<k>>[i - h]
          BY <2>5, <4>1, ConcatProperties
        <5>2. h \in Nat /\ h + 1 \in 1 .. h + 1 /\ ~ (h + 1 <= h) /\ (h + 1) - h = 1
          BY <2>5
        <5>3. \A i \in 1 .. h : i \in 1 .. h + 1 /\ i <= h
          BY <5>2
        <5> HIDE DEF h
        <5> QED BY <4>1, <5>1, <5>2, <5>3, LenProperties
      <4>3. h \in Nat /\ DOMAIN q(l) = 1 .. h
        BY <2>5
      <4> HIDE DEF h
      <4>4. c(k) \in [1 .. h + 1 -> Seq(T)]
        <5>1. \A j \in 1 .. h + 1 : q(k)[j] \in 1 .. n
          <6> SUFFICES ASSUME NEW j \in 1 .. h + 1 PROVE q(k)[j] \in 1 .. n
            OBVIOUS
          <6>1. CASE j = h + 1
            BY <4>2, <6>1
          <6>2. CASE j # h + 1
            <7>1. j \in 1 .. h
              BY <4>3, <6>2
            <7>2. q(l)[j] \in 1 .. l
              BY <2>5, <4>3, <7>1
            <7> QED BY <2>1, <4>2, <7>1, <7>2
          <6> QED BY <6>1, <6>2
        <5> QED BY <4>2, <5>1
      <4>5. [j \in 1 .. h |-> c(k)[j]] = c(l)
        <5>1. \A j \in 1 .. h : j \in 1 .. h + 1
          BY <4>3
        <5> QED BY <4>2, <4>3, <5>1
      <4>6. c(k)[h + 1] = v
        <5>1. h + 1 \in 1 .. h + 1
          BY <4>3
        <5> QED BY <3>2, <4>2, <5>1
      <4> HIDE DEF c, v
      <4> QED BY <4>3, <4>4, <4>5, <4>6, FlattenLast
    <3> QED BY <3>1, <3>2
  <2> HIDE DEF g, c
  <2> QED BY <2>1, <2>2, <2>3, <2>6
<1>5. \A k \in 0 .. n : k \in U
  <2> HIDE DEF U
  <2> QED BY <1>3, <1>4, EveryUpTo
<1>6. n \in U
  BY <1>5
<1>7. Chosen(s, S, n) = g(n) /\ Along(s, Ordered(S, n)) = c(n)
  BY DEF Chosen, Along
<1> HIDE DEF g, c
<1> QED BY <1>6, <1>7

\* A block begins at depth e and goes on below it.
BlockAt(b, e) ==
  /\ Len(b) # 0 /\ b[1].depth = e
  /\ \A i \in 2 .. Len(b) : b[i].depth > e

\* A block behind what stands before it can be told from it.
LEMMA LastBlock ==
  ASSUME NEW K, NEW e \in Int,
         NEW u \in Seq(LineOf(K)), NEW v \in Seq(LineOf(K)),
         NEW b \in Seq(LineOf(K)), NEW c \in Seq(LineOf(K)),
         BlockAt(b, e), BlockAt(c, e), u \o b = v \o c
  PROVE  u = v /\ b = c
<1> DEFINE T == LineOf(K)
<1>1. \A p, r, x, y \in Seq(T) :
        BlockAt(x, e) /\ BlockAt(y, e) /\ p \o x = r \o y => ~ (Len(p) < Len(r))
  <2> SUFFICES ASSUME NEW p \in Seq(T), NEW r \in Seq(T), NEW x \in Seq(T), NEW y \in Seq(T),
                      BlockAt(x, e), BlockAt(y, e), p \o x = r \o y, Len(p) < Len(r)
               PROVE  FALSE
    OBVIOUS
  <2> HIDE DEF T
  <2>1. /\ Len(p) \in Nat /\ Len(r) \in Nat /\ Len(x) \in Nat /\ Len(y) \in Nat
        /\ Len(y) # 0 /\ y[1].depth = e
        /\ \A i \in 2 .. Len(x) : x[i].depth > e
    BY LenProperties DEF BlockAt
  <2> DEFINE i == Len(r) + 1
  <2>2. /\ Len(p) + Len(x) = Len(r) + Len(y)
        /\ \A j \in 1 .. Len(p) + Len(x) : (p \o x)[j] = IF j <= Len(p) THEN p[j] ELSE x[j - Len(p)]
        /\ \A j \in 1 .. Len(r) + Len(y) : (r \o y)[j] = IF j <= Len(r) THEN r[j] ELSE y[j - Len(r)]
    BY ConcatProperties
  <2>3. i \in 1 .. Len(r) + Len(y) /\ ~ (i <= Len(r)) /\ i - Len(r) = 1 /\ ~ (i <= Len(p))
        /\ i - Len(p) \in 2 .. Len(x)
    BY <2>1, <2>2
  <2>4. (r \o y)[i] = y[1]
    BY <2>2, <2>3
  <2>5. (p \o x)[i] = x[i - Len(p)]
    BY <2>2, <2>3
  <2>6. x[i - Len(p)].depth > e
    BY <2>1, <2>3
  <2> QED BY <2>1, <2>4, <2>5, <2>6
<1>2. Len(u) \in Nat /\ Len(v) \in Nat /\ Len(b) \in Nat /\ Len(c) \in Nat
  BY LenProperties
<1>3. Len(u) = Len(v)
  <2>1. u \in Seq(T) /\ v \in Seq(T) /\ b \in Seq(T) /\ c \in Seq(T)
    OBVIOUS
  <2> HIDE DEF T
  <2>2. ~ (Len(u) < Len(v))
    BY <1>1, <2>1
  <2>3. ~ (Len(v) < Len(u))
    BY <1>1, <2>1
  <2> QED BY <1>2, <2>2, <2>3
<1> HIDE DEF T
<1>4. /\ Len(u) + Len(b) = Len(v) + Len(c)
      /\ \A j \in 1 .. Len(u) + Len(b) : (u \o b)[j] = IF j <= Len(u) THEN u[j] ELSE b[j - Len(u)]
      /\ \A j \in 1 .. Len(v) + Len(c) : (v \o c)[j] = IF j <= Len(v) THEN v[j] ELSE c[j - Len(v)]
  BY ConcatProperties
<1>5. u = v
  <2>1. \A j \in 1 .. Len(u) : j \in 1 .. Len(u) + Len(b) /\ j <= Len(u)
    BY <1>2
  <2>2. \A j \in 1 .. Len(u) : u[j] = v[j]
    BY <1>3, <1>4, <2>1
  <2> QED BY <1>3, <2>2, SeqEqual
<1>6. b = c
  <2>1. \A j \in 1 .. Len(b) : /\ Len(u) + j \in 1 .. Len(u) + Len(b)
                               /\ ~ (Len(u) + j <= Len(u)) /\ (Len(u) + j) - Len(u) = j
    BY <1>2
  <2>2. \A j \in 1 .. Len(b) : b[j] = c[j]
    BY <1>3, <1>4, <2>1
  <2>3. Len(b) = Len(c)
    BY <1>2, <1>3, <1>4
  <2> QED BY <2>2, <2>3, SeqEqual
<1> QED BY <1>5, <1>6

BlocksAt(P, e) == \A i \in DOMAIN P : BlockAt(P[i], e)

\* What stands behind the others in some blocks, and the others.
LEMMA BlocksLast ==
  ASSUME NEW K, NEW e \in Int, NEW P \in Seq(Seq(LineOf(K))), BlocksAt(P, e), Len(P) # 0
  PROVE  \E p \in Seq(Seq(LineOf(K))), b \in Seq(LineOf(K)) :
           /\ P = Append(p, b) /\ Len(P) = Len(p) + 1
           /\ BlocksAt(p, e) /\ BlockAt(b, e)
           /\ FlattenSeq(P) = FlattenSeq(p) \o b
           /\ FlattenSeq(P) # << >>
<1> DEFINE T == LineOf(K)
           n == Len(P) - 1
           p == [i \in 1 .. n |-> P[i]]
           b == P[n + 1]
<1>1. n \in Nat /\ Len(P) = n + 1 /\ P \in [1 .. n + 1 -> Seq(T)] /\ DOMAIN P = 1 .. n + 1
  BY LenProperties
<1> HIDE DEF n
<1>2. p \in [1 .. n -> Seq(T)] /\ b \in Seq(T)
  <2> HIDE DEF T
  <2> QED BY <1>1
<1>3. p \in Seq(Seq(T)) /\ Len(p) = n /\ DOMAIN p = 1 .. n
  <2> HIDE DEF T
  <2>1. p \in Seq(Seq(T)) /\ DOMAIN p = 1 .. n
    BY <1>1, <1>2
  <2> HIDE DEF p
  <2> QED BY <1>1, <2>1, LenProperties
<1>4. P = Append(p, b)
  <2> HIDE DEF T
  <2>1. /\ Append(p, b) \in Seq(Seq(T)) /\ Len(Append(p, b)) = n + 1
        /\ \A i \in 1 .. n : Append(p, b)[i] = p[i]
        /\ Append(p, b)[n + 1] = b
    <3> HIDE DEF p, b
    <3> QED BY <1>2, <1>3, AppendProperties
  <2>2. \A i \in 1 .. n + 1 : P[i] = Append(p, b)[i]
    <3> SUFFICES ASSUME NEW i \in 1 .. n + 1 PROVE P[i] = Append(p, b)[i]
      OBVIOUS
    <3>1. CASE i = n + 1
      BY <2>1, <3>1
    <3>2. CASE i # n + 1
      <4>1. i \in 1 .. n
        BY <1>1, <3>2
      <4>2. p[i] = P[i]
        BY <4>1
      <4> HIDE DEF p, b
      <4> QED BY <2>1, <4>1, <4>2
    <3> QED BY <3>1, <3>2
  <2> HIDE DEF p, b
  <2> QED BY <1>1, <2>1, <2>2, SeqEqual DEF T
<1>5. BlocksAt(p, e) /\ BlockAt(b, e)
  <2>1. n + 1 \in 1 .. n + 1 /\ \A i \in 1 .. n : i \in 1 .. n + 1 /\ p[i] = P[i]
    BY <1>1
  <2> QED BY <1>1, <1>3, <2>1 DEF BlocksAt
<1>6. FlattenSeq(P) = FlattenSeq(p) \o b
  <2> HIDE DEF T
  <2> QED BY <1>1, FlattenLast
<1>7. FlattenSeq(P) # << >>
  <2> HIDE DEF T, p, b
  <2>1. FlattenSeq(p) \in Seq(T)
    BY <1>3, FlattenType
  <2>2. b # << >>
    BY <1>5, EmptySeq DEF BlockAt
  <2> QED BY <1>2, <1>6, <2>1, <2>2, ConcatEqualIffEmpty
<1> HIDE DEF p, b
<1> QED BY <1>1, <1>2, <1>3, <1>4, <1>5, <1>6, <1>7 DEF T

\* Lines that are blocks one after the other are so in one way only.
LEMMA OneSplit ==
  ASSUME NEW K, NEW e \in Int,
         NEW P \in Seq(Seq(LineOf(K))), NEW Q \in Seq(Seq(LineOf(K))),
         BlocksAt(P, e), BlocksAt(Q, e), FlattenSeq(P) = FlattenSeq(Q)
  PROVE  P = Q
<1> DEFINE B == Seq(Seq(LineOf(K)))
           Told(p, q) == BlocksAt(p, e) /\ BlocksAt(q, e) /\ FlattenSeq(p) = FlattenSeq(q) => p = q
           S == {n \in Nat : \A p, q \in B : Len(p) = n => Told(p, q)}
<1>1. 0 \in S
  <2> SUFFICES ASSUME NEW p \in B, NEW q \in B, Len(p) = 0,
                      BlocksAt(p, e), BlocksAt(q, e), FlattenSeq(p) = FlattenSeq(q)
               PROVE  p = q
    OBVIOUS
  <2>1. p = << >> /\ FlattenSeq(p) = << >>
    BY EmptySeq, FlattenEmpty
  <2>2. Len(q) = 0
    BY <2>1, BlocksLast
  <2> QED BY <2>1, <2>2, EmptySeq
<1>2. ASSUME NEW n \in Nat, n \in S
      PROVE  n + 1 \in S
  <2> SUFFICES ASSUME NEW p \in B, NEW q \in B, Len(p) = n + 1,
                      BlocksAt(p, e), BlocksAt(q, e), FlattenSeq(p) = FlattenSeq(q)
               PROVE  p = q
    OBVIOUS
  <2>1. PICK u \in B, b \in Seq(LineOf(K)) :
          /\ p = Append(u, b) /\ Len(p) = Len(u) + 1
          /\ BlocksAt(u, e) /\ BlockAt(b, e)
          /\ FlattenSeq(p) = FlattenSeq(u) \o b /\ FlattenSeq(p) # << >>
    <3>1. Len(p) # 0
      OBVIOUS
    <3> QED BY <3>1, BlocksLast
  <2>2. Len(q) # 0
    <3>1. q = << >> => FlattenSeq(q) = << >>
      BY FlattenEmpty
    <3> QED BY <2>1, <3>1, EmptySeq
  <2>3. PICK v \in B, c \in Seq(LineOf(K)) :
          /\ q = Append(v, c) /\ Len(q) = Len(v) + 1
          /\ BlocksAt(v, e) /\ BlockAt(c, e)
          /\ FlattenSeq(q) = FlattenSeq(v) \o c /\ FlattenSeq(q) # << >>
    BY <2>2, BlocksLast
  <2>4. FlattenSeq(u) \in Seq(LineOf(K)) /\ FlattenSeq(v) \in Seq(LineOf(K))
    BY FlattenType
  <2>5. FlattenSeq(u) = FlattenSeq(v) /\ b = c
    <3>1. FlattenSeq(u) \o b = FlattenSeq(v) \o c
      BY <2>1, <2>3
    <3>2. BlockAt(b, e) /\ BlockAt(c, e)
      BY <2>1, <2>3
    <3> DEFINE x == FlattenSeq(u)
               y == FlattenSeq(v)
    <3>3. x \in Seq(LineOf(K)) /\ y \in Seq(LineOf(K)) /\ x \o b = y \o c
      BY <2>4, <3>1
    <3> HIDE DEF x, y, B
    <3>4. x = y /\ b = c
      BY <3>2, <3>3, LastBlock
    <3> QED BY <3>4 DEF x, y
  <2>6. Len(u) = n
    <3>1. Len(u) \in Nat
      BY LenProperties
    <3> QED BY <2>1, <3>1
  <2>7. u = v
    <3>1. Told(u, v)
      <4> HIDE DEF Told, B
      <4> QED BY <1>2, <2>6
    <3> QED BY <2>1, <2>3, <2>5, <3>1
  <2> QED BY <2>1, <2>3, <2>5, <2>7
<1>3. Len(P) \in Nat
  BY LenProperties
<1>4. Len(P) \in S
  <2> HIDE DEF S
  <2>1. \A k \in 0 .. Len(P) : k \in S
    <3>1. \A k \in 1 .. Len(P) : k - 1 \in S => k \in S
      <4> SUFFICES ASSUME NEW k \in 1 .. Len(P), k - 1 \in S PROVE k \in S
        OBVIOUS
      <4>1. k - 1 \in Nat /\ (k - 1) + 1 = k
        OBVIOUS
      <4>2. (k - 1) + 1 \in S
        BY <1>2, <4>1
      <4> QED BY <4>1, <4>2
    <3> QED BY <1>1, <1>3, <3>1, EveryUpTo
  <2> QED BY <1>3, <2>1
<1> QED BY <1>4

-----------------------------------------------------------------------------
(* Folded runs, told apart again.                                          *)

\* The first of each run of equal neighbours, and whether the run is longer.
Firsts(s) == Ordered({i \in DOMAIN s : i = 1 \/ s[i] # s[i - 1]}, Len(s))

Repeated(s, i) == i < Len(s) /\ s[i + 1] = s[i]

Shaped(s) == [j \in DOMAIN Firsts(s) |-> <<s[Firsts(s)[j]], Repeated(s, Firsts(s)[j])>>]

LEMMA FirstsAre ==
  ASSUME NEW s, Len(s) \in Nat, DOMAIN s = 1 .. Len(s)
  PROVE  /\ Firsts(s) \in Seq(Int)
         /\ Len(Firsts(s)) \in Nat /\ DOMAIN Firsts(s) = 1 .. Len(Firsts(s))
         /\ \A j \in DOMAIN Firsts(s) : Firsts(s)[j] \in 1 .. Len(s)
<1> DEFINE S == {i \in DOMAIN s : i = 1 \/ s[i] # s[i - 1]}
           q == Firsts(s)
<1>1. q \in Seq(S \cap (1 .. Len(s))) /\ q \in Seq(Int)
  <2>1. q = Ordered(S, Len(s))
    BY DEF Firsts
  <2> HIDE DEF S
  <2> QED BY <2>1, OrderedIs
<1> HIDE DEF S, q
<1>2. Len(q) \in Nat /\ DOMAIN q = 1 .. Len(q)
  BY <1>1, LenProperties
<1>3. \A j \in DOMAIN q : q[j] \in S \cap (1 .. Len(s))
  BY <1>1, <1>2, ElementOfSeq
<1> QED BY <1>1, <1>2, <1>3 DEF q

LEMMA ShapedSame ==
  ASSUME NEW B, NEW C,
         Len(B) \in Nat, DOMAIN B = 1 .. Len(B),
         Len(C) \in Nat, DOMAIN C = 1 .. Len(C)
  PROVE  Shaped(B) = Shaped(C) <=>
           /\ Len(Firsts(B)) = Len(Firsts(C))
           /\ \A j \in 1 .. Len(Firsts(B)) :
                /\ B[Firsts(B)[j]] = C[Firsts(C)[j]]
                /\ Repeated(B, Firsts(B)[j]) = Repeated(C, Firsts(C)[j])
<1> DEFINE p == Firsts(B)
           q == Firsts(C)
<1>1. /\ Len(p) \in Nat /\ DOMAIN p = 1 .. Len(p)
      /\ Len(q) \in Nat /\ DOMAIN q = 1 .. Len(q)
  BY FirstsAre
<1> DEFINE f(j) == <<B[p[j]], Repeated(B, p[j])>>
           g(j) == <<C[q[j]], Repeated(C, q[j])>>
<1>2. Shaped(B) = [j \in 1 .. Len(p) |-> f(j)] /\ Shaped(C) = [j \in 1 .. Len(q) |-> g(j)]
  BY <1>1 DEF Shaped
<1>3. 1 .. Len(p) = 1 .. Len(q) <=> Len(p) = Len(q)
  <2>1. \A m, n \in Nat : 1 .. m = 1 .. n => ~ (m < n)
    <3> SUFFICES ASSUME NEW m \in Nat, NEW n \in Nat, 1 .. m = 1 .. n, m < n PROVE FALSE
      OBVIOUS
    <3>1. n \in 1 .. n /\ n \notin 1 .. m
      OBVIOUS
    <3> QED BY <3>1
  <2> DEFINE a == Len(p)
             b == Len(q)
  <2>2. a \in Nat /\ b \in Nat
    BY <1>1
  <2> HIDE DEF a, b
  <2>3. 1 .. a = 1 .. b <=> a = b
    <3>1. 1 .. a = 1 .. b => ~ (a < b) /\ ~ (b < a)
      BY <2>1, <2>2
    <3> QED BY <2>2, <3>1
  <2> QED BY <2>3 DEF a, b
<1>4. \A j : f(j) = g(j) <=> B[p[j]] = C[q[j]] /\ Repeated(B, p[j]) = Repeated(C, q[j])
  <2> TAKE j
  <2> HIDE DEF p, q
  <2> DEFINE u == B[p[j]]
             v == C[q[j]]
             x == Repeated(B, p[j])
             y == Repeated(C, q[j])
  <2> HIDE DEF u, v, x, y
  <2>1. <<u, x>> = <<v, y>> <=> u = v /\ x = y
    OBVIOUS
  <2> QED BY <2>1 DEF u, v, x, y
<1> HIDE DEF f, g
<1>5. [j \in 1 .. Len(p) |-> f(j)] = [j \in 1 .. Len(q) |-> g(j)] <=>
        1 .. Len(p) = 1 .. Len(q) /\ \A j \in 1 .. Len(p) : f(j) = g(j)
  <2> HIDE DEF p, q
  <2> DEFINE P == 1 .. Len(p)
             Q == 1 .. Len(q)
  <2> HIDE DEF P, Q
  <2>1. [j \in P |-> f(j)] = [j \in Q |-> g(j)] <=> P = Q /\ \A j \in P : f(j) = g(j)
    <3>1. DOMAIN [j \in P |-> f(j)] = P /\ DOMAIN [j \in Q |-> g(j)] = Q
      OBVIOUS
    <3>2. \A j \in P : [i \in P |-> f(i)][j] = f(j)
      OBVIOUS
    <3>3. \A j \in Q : [i \in Q |-> g(i)][j] = g(j)
      OBVIOUS
    <3> QED BY <3>1, <3>2, <3>3
  <2> QED BY <2>1 DEF P, Q
<1> QED BY <1>2, <1>3, <1>4, <1>5

LEMMA FirstsRepeat ==
  ASSUME NEW n \in Nat, NEW B, NEW s,
         Len(B) = n, DOMAIN B = 1 .. n, Len(s) = n, DOMAIN s = 1 .. n,
         \A i, j \in 1 .. n : B[i] = B[j] <=> s[i] = s[j]
  PROVE  /\ Firsts(B) = Firsts(s)
         /\ \A i \in 1 .. n : Repeated(B, i) <=> Repeated(s, i)
<1>1. {i \in 1 .. n : i = 1 \/ B[i] # B[i - 1]} = {i \in 1 .. n : i = 1 \/ s[i] # s[i - 1]}
  <2>1. \A i \in 1 .. n : i # 1 => i - 1 \in 1 .. n
    OBVIOUS
  <2> QED BY <2>1
<1>2. Firsts(B) = Firsts(s)
  BY <1>1 DEF Firsts
<1>3. \A i \in 1 .. n : i < n => i + 1 \in 1 .. n
  OBVIOUS
<1>4. \A i \in 1 .. n : Repeated(B, i) <=> Repeated(s, i)
  BY <1>3 DEF Repeated
<1> QED BY <1>2, <1>4

\* Two sequences of one length, and two pairs of them alike in what is equal.
Paired(B, s) ==
  /\ Len(B) \in Nat /\ DOMAIN B = 1 .. Len(B)
  /\ Len(s) = Len(B) /\ DOMAIN s = 1 .. Len(B)

Alike(B, C, s, t) == \A i \in DOMAIN B : \A j \in DOMAIN C : B[i] = C[j] <=> s[i] = t[j]

\* What is equal, here and there, decides how neighbours are folded.
LEMMA FoldedAlike ==
  ASSUME NEW B, NEW C, NEW s, NEW t, Paired(B, s), Paired(C, t),
         Alike(B, B, s, s), Alike(C, C, t, t), Alike(B, C, s, t)
  PROVE  Shaped(B) = Shaped(C) <=> Shaped(s) = Shaped(t)
<1> DEFINE p == Firsts(B)
           q == Firsts(C)
           m == Len(B)
           n == Len(C)
<1>0. /\ m \in Nat /\ DOMAIN B = 1 .. m /\ Len(s) = m /\ DOMAIN s = 1 .. m
      /\ n \in Nat /\ DOMAIN C = 1 .. n /\ Len(t) = n /\ DOMAIN t = 1 .. n
      /\ \A i, j \in 1 .. m : B[i] = B[j] <=> s[i] = s[j]
      /\ \A i, j \in 1 .. n : C[i] = C[j] <=> t[i] = t[j]
      /\ \A i \in 1 .. m : \A j \in 1 .. n : B[i] = C[j] <=> s[i] = t[j]
      /\ Len(B) = m /\ Len(C) = n
  BY DEF Paired, Alike
<1> HIDE DEF m, n
<1>1. /\ p = Firsts(s) /\ \A i \in 1 .. m : Repeated(B, i) <=> Repeated(s, i)
      /\ q = Firsts(t) /\ \A i \in 1 .. n : Repeated(C, i) <=> Repeated(t, i)
  BY <1>0, FirstsRepeat
<1>2. /\ Len(p) \in Nat /\ \A j \in 1 .. Len(p) : p[j] \in 1 .. m
      /\ Len(q) \in Nat /\ \A j \in 1 .. Len(q) : q[j] \in 1 .. n
  BY <1>0, FirstsAre
<1> DEFINE Agree(U, V) == /\ Len(p) = Len(q)
                          /\ \A j \in 1 .. Len(p) :
                               /\ U[p[j]] = V[q[j]]
                               /\ Repeated(U, p[j]) = Repeated(V, q[j])
<1>3. Shaped(B) = Shaped(C) <=> Agree(B, C)
  BY <1>0, ShapedSame
<1>4. Shaped(s) = Shaped(t) <=> Agree(s, t)
  <2>1. /\ Len(s) \in Nat /\ DOMAIN s = 1 .. Len(s)
        /\ Len(t) \in Nat /\ DOMAIN t = 1 .. Len(t)
    BY <1>0
  <2>2. Shaped(s) = Shaped(t) <=>
          /\ Len(Firsts(s)) = Len(Firsts(t))
          /\ \A j \in 1 .. Len(Firsts(s)) :
               /\ s[Firsts(s)[j]] = t[Firsts(t)[j]]
               /\ Repeated(s, Firsts(s)[j]) = Repeated(t, Firsts(t)[j])
    BY <2>1, ShapedSame
  <2> HIDE DEF p, q
  <2> QED BY <1>1, <2>2
<1> HIDE DEF p, q
<1>5. Agree(B, C) <=> Agree(s, t)
  <2>1. CASE Len(p) # Len(q)
    BY <2>1
  <2>2. CASE Len(p) = Len(q)
    <3>1. \A j \in 1 .. Len(p) : p[j] \in 1 .. m /\ q[j] \in 1 .. n
      BY <1>2, <2>2
    <3>2. \A j \in 1 .. Len(p) : B[p[j]] = C[q[j]] <=> s[p[j]] = t[q[j]]
      BY <1>0, <3>1
    <3>3. \A j \in 1 .. Len(p) : /\ Repeated(B, p[j]) <=> Repeated(s, p[j])
                                 /\ Repeated(C, q[j]) <=> Repeated(t, q[j])
      BY <1>1, <3>1
    <3>4. \A i : /\ Repeated(B, i) \in BOOLEAN /\ Repeated(C, i) \in BOOLEAN
                 /\ Repeated(s, i) \in BOOLEAN /\ Repeated(t, i) \in BOOLEAN
      BY DEF Repeated
    <3> QED BY <2>2, <3>2, <3>3, <3>4
  <2> QED BY <2>1, <2>2
<1> QED BY <1>3, <1>4, <1>5

-----------------------------------------------------------------------------
(* Siblings as lines.                                                      *)

\* A block as it is before its run is folded.
Fresh(b, e) == BlockAt(b, e) /\ b[1].folded = FALSE

LEMMA FoldedIs ==
  ASSUME NEW K, NEW b \in Seq(LineOf(K))
  PROVE  /\ Folded(b) \in Seq(LineOf(K)) /\ Len(Folded(b)) = Len(b)
         /\ \A i \in 1 .. Len(b) :
              Folded(b)[i] = IF i = 1 THEN [b[1] EXCEPT !.folded = TRUE] ELSE b[i]
<1>1. Len(b) \in Nat /\ DOMAIN b = 1 .. Len(b)
      /\ \A i \in 1 .. Len(b) : b[i] \in LineOf(K)
  BY LenProperties, ElementOfSeq
<1>2. Folded(b) =
        [i \in DOMAIN b |-> IF i = 1 THEN [b[1] EXCEPT !.folded = TRUE] ELSE b[i]]
  BY DEF Folded
<1>3. \A i \in 1 .. Len(b) : [b[i] EXCEPT !.folded = TRUE] \in LineOf(K)
  BY <1>1 DEF LineOf
<1>4. Folded(b) \in [1 .. Len(b) -> LineOf(K)]
  BY <1>1, <1>2, <1>3
<1>5. Folded(b) \in Seq(LineOf(K)) /\ DOMAIN Folded(b) = 1 .. Len(b)
  BY <1>1, <1>4
<1>6. Len(Folded(b)) = Len(b)
  BY <1>1, <1>5, LenProperties
<1> QED BY <1>1, <1>2, <1>5, <1>6

LEMMA FoldedTold ==
  ASSUME NEW K, NEW e \in Int, NEW b \in Seq(LineOf(K)), NEW c \in Seq(LineOf(K)),
         Fresh(b, e), Fresh(c, e)
  PROVE  /\ BlockAt(Folded(b), e)
         /\ Folded(b) # c
         /\ Folded(b) = Folded(c) => b = c
<1>1. /\ Len(b) \in Nat /\ 1 \in 1 .. Len(b) /\ \A i \in 1 .. Len(b) : b[i] \in LineOf(K)
      /\ Len(c) \in Nat /\ 1 \in 1 .. Len(c) /\ \A i \in 1 .. Len(c) : c[i] \in LineOf(K)
  BY LenProperties, ElementOfSeq DEF Fresh, BlockAt
<1>2. /\ Folded(b)[1] = [b[1] EXCEPT !.folded = TRUE]
      /\ Folded(c)[1] = [c[1] EXCEPT !.folded = TRUE]
      /\ \A i \in 2 .. Len(b) : Folded(b)[i] = b[i]
      /\ \A i \in 2 .. Len(c) : Folded(c)[i] = c[i]
      /\ Len(Folded(b)) = Len(b) /\ Len(Folded(c)) = Len(c)
  <2>1. ASSUME NEW d \in Seq(LineOf(K)), Len(d) \in Nat, 1 \in 1 .. Len(d)
        PROVE  /\ Folded(d)[1] = [d[1] EXCEPT !.folded = TRUE]
               /\ \A i \in 2 .. Len(d) : Folded(d)[i] = d[i]
               /\ Len(Folded(d)) = Len(d)
    <3>1. /\ Len(Folded(d)) = Len(d)
          /\ \A i \in 1 .. Len(d) :
               Folded(d)[i] = IF i = 1 THEN [d[1] EXCEPT !.folded = TRUE] ELSE d[i]
      BY FoldedIs
    <3>2. \A i \in 2 .. Len(d) : i \in 1 .. Len(d) /\ i # 1
      BY <2>1
    <3> QED BY <2>1, <3>1, <3>2
  <2> QED BY <1>1, <2>1
<1>3. \A x \in LineOf(K) : /\ [x EXCEPT !.folded = TRUE].depth = x.depth
                           /\ [x EXCEPT !.folded = TRUE].folded = TRUE
                           /\ [x EXCEPT !.folded = TRUE].key = x.key
  BY DEF LineOf
<1>4. BlockAt(Folded(b), e)
  BY <1>1, <1>2, <1>3 DEF Fresh, BlockAt
<1>5. Folded(b) # c
  <2>1. Folded(b)[1].folded = TRUE
    BY <1>1, <1>2, <1>3
  <2> QED BY <2>1 DEF Fresh
<1>6. ASSUME Folded(b) = Folded(c)
      PROVE  b = c
  <2>1. Len(b) = Len(c)
    BY <1>2, <1>6
  <2>2. b[1] = c[1]
    <3> DEFINE x == b[1]
               y == c[1]
    <3>1. x \in LineOf(K) /\ y \in LineOf(K)
      BY <1>1
    <3>2. [x EXCEPT !.folded = TRUE] = [y EXCEPT !.folded = TRUE]
      BY <1>2, <1>6
    <3>3. x.folded = FALSE /\ y.folded = FALSE
      BY DEF Fresh
    <3> HIDE DEF x, y
    <3>4. x.depth = y.depth /\ x.key = y.key
      BY <1>3, <3>1, <3>2
    <3>5. x = y
      BY <3>1, <3>3, <3>4 DEF LineOf
    <3> QED BY <3>5 DEF x, y
  <2>3. \A i \in 2 .. Len(b) : b[i] = c[i]
    BY <1>2, <1>6, <2>1
  <2>4. \A i \in 1 .. Len(b) : b[i] = c[i]
    <3>1. \A i \in 1 .. Len(b) : i = 1 \/ i \in 2 .. Len(b)
      BY <1>1
    <3> QED BY <2>2, <2>3, <3>1
  <2> QED BY <2>1, <2>4, SeqEqual
<1> QED BY <1>4, <1>5, <1>6

\* What is left of each run.
Parts(B) ==
  [j \in DOMAIN Firsts(B) |->
     IF Repeated(B, Firsts(B)[j]) THEN Folded(B[Firsts(B)[j]]) ELSE B[Firsts(B)[j]]]

LEMMA PartsAre ==
  ASSUME NEW K, NEW B \in Seq(Seq(LineOf(K)))
  PROVE  /\ Parts(B) \in Seq(Seq(LineOf(K)))
         /\ Len(Parts(B)) = Len(Firsts(B)) /\ DOMAIN Parts(B) = 1 .. Len(Firsts(B))
         /\ FoldedLines(B) = FlattenSeq(Parts(B))
<1> DEFINE T == LineOf(K)
           n == Len(B)
           S == {i \in DOMAIN B : i = 1 \/ B[i] # B[i - 1]}
           q == Firsts(B)
           part(i) == IF Repeated(B, i) THEN Folded(B[i]) ELSE B[i]
           s == [i \in 1 .. n |-> part(i)]
<1>1. n \in Nat /\ DOMAIN B = 1 .. n /\ \A i \in 1 .. n : B[i] \in Seq(T)
  BY LenProperties, ElementOfSeq
<1>2. s \in [1 .. n -> Seq(T)]
  <2>1. \A i \in 1 .. n : part(i) \in Seq(T)
    BY <1>1, FoldedIs
  <2> HIDE DEF T, part, n
  <2> QED BY <2>1
<1>3. q = Ordered(S, n) /\ Len(q) \in Nat /\ DOMAIN q = 1 .. Len(q)
      /\ \A j \in DOMAIN q : q[j] \in 1 .. n
  BY <1>1, FirstsAre DEF Firsts
<1>4. FoldedLines(B) = FlattenSeq([i \in 1 .. n |-> IF i \in S THEN s[i] ELSE << >>])
  <2>1. \A i \in 1 .. n : /\ RunStarts(B, i) <=> i \in S
                          /\ ~ RunEnds(B, i) <=> Repeated(B, i)
    <3> SUFFICES ASSUME NEW i \in 1 .. n
                 PROVE  /\ RunStarts(B, i) <=> i \in S
                        /\ ~ RunEnds(B, i) <=> Repeated(B, i)
      OBVIOUS
    <3>1. i + 1 # 1 /\ (i + 1) - 1 = i /\ (i # n <=> i < n)
      <4>1. n \in Nat
        BY <1>1
      <4> HIDE DEF n
      <4> QED BY <4>1
    <3> QED BY <1>1, <3>1 DEF RunStarts, RunEnds, Repeated
  <2> DEFINE x(i) == IF ~RunStarts(B, i) THEN << >>
                     ELSE IF RunEnds(B, i) THEN B[i] ELSE Folded(B[i])
             y(i) == IF i \in S THEN s[i] ELSE << >>
  <2>2. \A i \in 1 .. n : x(i) = y(i)
    <3> HIDE DEF n, S
    <3> QED BY <2>1
  <2>3. FoldedLines(B) = FlattenSeq([i \in DOMAIN B |-> x(i)])
    BY DEF FoldedLines
  <2>4. [i \in DOMAIN B |-> x(i)] = [i \in 1 .. n |-> y(i)]
    <3> HIDE DEF x, y, n
    <3> QED BY <1>1, <2>2
  <2> HIDE DEF x, n, s, S
  <2> QED BY <2>3, <2>4
<1>5. FoldedLines(B) = FlattenSeq([j \in DOMAIN q |-> s[q[j]]])
  <2>1. n \in Nat
    BY <1>1
  <2> HIDE DEF T, s, q, S, n
  <2>2. FlattenSeq([i \in 1 .. n |-> IF i \in S THEN s[i] ELSE << >>]) =
          FlattenSeq([j \in DOMAIN Ordered(S, n) |-> s[Ordered(S, n)[j]]])
    <3>1. FlattenSeq(Chosen(s, S, n)) = FlattenSeq(Along(s, Ordered(S, n)))
      BY <1>2, <2>1, FlattenChosen
    <3> QED BY <3>1 DEF Chosen, Along
  <2> QED BY <1>3, <1>4, <2>2
<1>6. Parts(B) = [j \in DOMAIN q |-> s[q[j]]]
  <2>1. \A j \in DOMAIN q : s[q[j]] = part(q[j])
    <3> HIDE DEF q, part, n
    <3> QED BY <1>3
  <2>2. Parts(B) = [j \in DOMAIN q |-> part(q[j])]
    BY DEF Parts
  <2> HIDE DEF q, part, s
  <2> QED BY <2>1, <2>2
<1> DEFINE r == [j \in DOMAIN q |-> s[q[j]]]
<1>7. r \in [1 .. Len(q) -> Seq(T)]
  <2> HIDE DEF T, s, q, n
  <2> QED BY <1>2, <1>3
<1>8. r \in Seq(Seq(T)) /\ DOMAIN r = 1 .. Len(q)
  <2> HIDE DEF r, T, q
  <2> QED BY <1>3, <1>7, IsSeq
<1>9. Len(r) = Len(q)
  <2> HIDE DEF r, T, q
  <2> QED BY <1>3, <1>8, LenProperties
<1> HIDE DEF s, n, S, part
<1> QED BY <1>5, <1>6, <1>8, <1>9

\* Lines of siblings tell the siblings apart, but for how long their runs are.
LEMMA FoldedApart ==
  ASSUME NEW K, NEW e \in Int,
         NEW B \in Seq(Seq(LineOf(K))), NEW C \in Seq(Seq(LineOf(K))),
         \A i \in DOMAIN B : Fresh(B[i], e), \A i \in DOMAIN C : Fresh(C[i], e)
  PROVE  FoldedLines(B) = FoldedLines(C) <=> Shaped(B) = Shaped(C)
<1> DEFINE p == Firsts(B)
           q == Firsts(C)
           P == Parts(B)
           Q == Parts(C)
           Z == Seq(Seq(LineOf(K)))
<1>1. /\ Len(B) \in Nat /\ DOMAIN B = 1 .. Len(B)
      /\ Len(C) \in Nat /\ DOMAIN C = 1 .. Len(C)
      /\ \A i \in DOMAIN B : B[i] \in Seq(LineOf(K))
      /\ \A i \in DOMAIN C : C[i] \in Seq(LineOf(K))
  BY LenProperties, ElementOfSeq
<1>2. /\ Len(p) \in Nat /\ DOMAIN p = 1 .. Len(p) /\ \A j \in DOMAIN p : p[j] \in DOMAIN B
      /\ Len(q) \in Nat /\ DOMAIN q = 1 .. Len(q) /\ \A j \in DOMAIN q : q[j] \in DOMAIN C
  BY <1>1, FirstsAre
<1>3. /\ P \in Z /\ Len(P) = Len(p) /\ DOMAIN P = 1 .. Len(p) /\ FoldedLines(B) = FlattenSeq(P)
      /\ Q \in Z /\ Len(Q) = Len(q) /\ DOMAIN Q = 1 .. Len(q) /\ FoldedLines(C) = FlattenSeq(Q)
  BY PartsAre
<1>4. /\ \A j \in DOMAIN p :
           P[j] = IF Repeated(B, p[j]) THEN Folded(B[p[j]]) ELSE B[p[j]]
      /\ \A j \in DOMAIN q :
           Q[j] = IF Repeated(C, q[j]) THEN Folded(C[q[j]]) ELSE C[q[j]]
  BY DEF Parts
<1> HIDE DEF p, q, P, Q
<1>5. BlocksAt(P, e) /\ BlocksAt(Q, e)
  <2>1. \A i \in DOMAIN B : BlockAt(B[i], e) /\ BlockAt(Folded(B[i]), e)
    BY <1>1, FoldedTold DEF Fresh
  <2>2. \A i \in DOMAIN C : BlockAt(C[i], e) /\ BlockAt(Folded(C[i]), e)
    BY <1>1, FoldedTold DEF Fresh
  <2>3. \A j \in DOMAIN p : BlockAt(P[j], e)
    BY <1>2, <1>4, <2>1
  <2>4. \A j \in DOMAIN q : BlockAt(Q[j], e)
    BY <1>2, <1>4, <2>2
  <2> QED BY <1>2, <1>3, <2>3, <2>4 DEF BlocksAt
<1>6. FlattenSeq(P) = FlattenSeq(Q) <=> P = Q
  BY <1>3, <1>5, OneSplit
<1> DEFINE Agree == /\ Len(p) = Len(q)
                    /\ \A j \in 1 .. Len(p) :
                         /\ B[p[j]] = C[q[j]]
                         /\ Repeated(B, p[j]) = Repeated(C, q[j])
<1>7. P = Q <=> Agree
  <2>1. ASSUME NEW j \in 1 .. Len(p), Len(p) = Len(q)
        PROVE  P[j] = Q[j] <=> B[p[j]] = C[q[j]] /\ Repeated(B, p[j]) = Repeated(C, q[j])
    <3> DEFINE b == B[p[j]]
               c == C[q[j]]
               x == Repeated(B, p[j])
               y == Repeated(C, q[j])
    <3>1. p[j] \in DOMAIN B /\ q[j] \in DOMAIN C
      BY <1>2, <2>1
    <3>2. Fresh(b, e) /\ Fresh(c, e) /\ b \in Seq(LineOf(K)) /\ c \in Seq(LineOf(K))
      BY <1>1, <3>1
    <3>3. x \in BOOLEAN /\ y \in BOOLEAN
      BY DEF Repeated
    <3>4. P[j] = (IF x THEN Folded(b) ELSE b) /\ Q[j] = (IF y THEN Folded(c) ELSE c)
      BY <1>2, <1>4, <2>1
    <3> HIDE DEF b, c, x, y
    <3>5. Folded(b) # c /\ Folded(c) # b /\ (Folded(b) = Folded(c) => b = c)
      BY <3>2, FoldedTold
    <3>6. P[j] = Q[j] <=> b = c /\ x = y
      BY <3>3, <3>4, <3>5
    <3> QED BY <3>6 DEF b, c, x, y
  <2>2. P = Q => Len(p) = Len(q)
    BY <1>3
  <2>3. ASSUME Agree
        PROVE  P = Q
    <3>1. Len(P) = Len(Q)
      BY <1>3, <2>3
    <3>2. \A j \in 1 .. Len(P) : P[j] = Q[j]
      BY <1>3, <2>1, <2>3
    <3> QED BY <1>3, <3>1, <3>2, SeqEqual
  <2> QED BY <2>1, <2>2, <2>3
<1>8. Shaped(B) = Shaped(C) <=> Agree
  BY <1>1, ShapedSame DEF p, q
<1> HIDE DEF Agree
<1> QED BY <1>3, <1>6, <1>7, <1>8

-----------------------------------------------------------------------------
(* The shape and the lines of a node, from those of its children.          *)

KidsShapes(tree, n) == [i \in DOMAIN Kids(tree, n) |-> ShapeOf(tree, Kids(tree, n)[i])]

OwnShape(tree, n) == IF n = Document THEN << >> ELSE <<NodeKey(tree[n])>>

LEMMA ShapeIs ==
  ASSUME NEW tree, Tree(tree)
  PROVE  \A n \in 0 .. Len(tree) :
           ShapeOf(tree, n) = <<OwnShape(tree, n), Shaped(KidsShapes(tree, n))>>
<1> DEFINE N == Len(tree)
           kids(m) == Kids(tree, m)
           under(g, m) == [i \in DOMAIN kids(m) |-> g[kids(m)[i]]]
           first(s, m) == Ordered({i \in DOMAIN kids(m) : i = 1 \/ s[i] # s[i - 1]}, Len(kids(m)))
           repeated(s, m, i) == i < Len(kids(m)) /\ s[i + 1] = s[i]
           made(s, m) == <<IF m = Document THEN << >> ELSE <<NodeKey(tree[m])>>,
                           [i \in DOMAIN first(s, m) |->
                              <<s[first(s, m)[i]], repeated(s, m, first(s, m)[i])>>]>>
           r(g, m) == made(under(g, m), m)
           From(d) == (N + 1 - d) .. N
           T == {d \in 0 .. N + 1 : \E g : g = [m \in From(d) |-> r(g, m)]}
<1>1. N \in Nat /\ DOMAIN tree = 1 .. N
  BY TreeIs
<1>2. \A m \in 0 .. N : /\ Len(kids(m)) \in Nat /\ DOMAIN kids(m) = 1 .. Len(kids(m))
                        /\ \A c \in DOMAIN kids(m) : kids(m)[c] \in m + 1 .. N
  BY KidsAre
<1> HIDE DEF N, kids, made
<1>3. ASSUME NEW m \in 0 .. N, NEW g, NEW h, \A k \in m + 1 .. N : g[k] = h[k]
      PROVE  r(g, m) = r(h, m)
  <2>1. \A c \in DOMAIN kids(m) : g[kids(m)[c]] = h[kids(m)[c]]
    BY <1>2, <1>3
  <2>2. under(g, m) = under(h, m)
    BY <2>1
  <2> HIDE DEF under
  <2> QED BY <2>2
<1> HIDE DEF r
<1>4. 0 \in T
  <2>1. From(0) = {}
    BY <1>1
  <2>2. [i \in {} |-> 0] = [m \in From(0) |-> r([i \in {} |-> 0], m)]
    <3> HIDE DEF From
    <3> QED BY <2>1
  <2>3. 0 \in 0 .. N + 1
    BY <1>1
  <2> HIDE DEF From
  <2> QED BY <2>2, <2>3
<1>5. ASSUME NEW d \in 1 .. N + 1, d - 1 \in T
      PROVE  d \in T
  <2> DEFINE k == N + 1 - d
  <2>1. k \in 0 .. N /\ From(d) = {k} \cup From(d - 1) /\ k \notin From(d - 1)
        /\ From(d - 1) = k + 1 .. N
    BY <1>1
  <2>2. PICK g : g = [m \in From(d - 1) |-> r(g, m)]
    <3> HIDE DEF From
    <3> QED BY <1>5
  <2> HIDE DEF From, k
  <2> DEFINE h == [m \in From(d) |-> IF m = k THEN r(g, k) ELSE g[m]]
  <2>3. \A m \in k + 1 .. N : h[m] = g[m]
    BY <2>1
  <2>4. \A m \in From(d) : h[m] = r(h, m)
    <3> SUFFICES ASSUME NEW m \in From(d) PROVE h[m] = r(h, m)
      OBVIOUS
    <3>1. CASE m = k
      <4>1. h[m] = r(g, k)
        BY <3>1
      <4> HIDE DEF h
      <4>2. r(g, k) = r(h, k)
        BY <1>3, <2>1, <2>3
      <4> QED BY <3>1, <4>1, <4>2
    <3>2. CASE m # k
      <4>1. m \in k + 1 .. N
        BY <2>1, <3>2
      <4>2. h[m] = g[m]
        BY <2>3, <4>1
      <4>3. g[m] = r(g, m)
        <5>1. \A j \in k + 1 .. N : [i \in From(d - 1) |-> r(g, i)][j] = r(g, j)
          BY <2>1
        <5> QED BY <2>2, <4>1, <5>1
      <4>4. \A j \in m + 1 .. N : j \in k + 1 .. N
        BY <1>1, <2>1, <4>1
      <4>5. m \in 0 .. N
        BY <1>1, <2>1, <4>1
      <4> HIDE DEF h
      <4>6. r(g, m) = r(h, m)
        BY <1>3, <2>3, <4>4, <4>5
      <4> QED BY <4>2, <4>3, <4>6
    <3> QED BY <3>1, <3>2
  <2>5. h = [m \in From(d) |-> r(h, m)]
    <3>1. h = [m \in From(d) |-> h[m]]
      OBVIOUS
    <3> HIDE DEF h
    <3> QED BY <2>4, <3>1
  <2>6. d \in 0 .. N + 1
    BY <1>1
  <2> HIDE DEF h
  <2> QED BY <2>5, <2>6
<1>6. PICK g0 : g0 = [m \in 0 .. N |-> r(g0, m)]
  <2>1. N + 1 \in Nat /\ \A k \in 1 .. N + 1 : k - 1 \in T => k \in T
    BY <1>1, <1>5
  <2>2. \A k \in 0 .. N + 1 : k \in T
    <3> HIDE DEF T
    <3> QED BY <1>4, <2>1, EveryUpTo
  <2>3. N + 1 \in 0 .. N + 1 /\ From(N + 1) = 0 .. N
    BY <1>1
  <2>4. \E g : g = [m \in From(N + 1) |-> r(g, m)]
    <3> HIDE DEF From
    <3> QED BY <2>2, <2>3
  <2> HIDE DEF From
  <2> QED BY <2>3, <2>4
<1> DEFINE shape == CHOOSE f : f = [m \in 0 .. N |-> r(f, m)]
<1>7. shape = [m \in 0 .. N |-> r(shape, m)]
  BY <1>6
<1>8. \A n : ShapeOf(tree, n) = shape[n]
  BY DEF ShapeOf, N, kids, r, made
<1> HIDE DEF shape
<1> SUFFICES ASSUME NEW n \in 0 .. N
             PROVE  ShapeOf(tree, n) = <<OwnShape(tree, n), Shaped(KidsShapes(tree, n))>>
  BY DEF N
<1> DEFINE s == KidsShapes(tree, n)
           L == Len(kids(n))
<1>9. shape[n] = r(shape, n)
  BY <1>7
<1>10. under(shape, n) = s
  BY <1>8 DEF KidsShapes, kids
<1>11. L \in Nat /\ DOMAIN kids(n) = 1 .. L
  BY <1>2
<1> HIDE DEF under
<1>12. DOMAIN s = 1 .. L /\ Len(s) = L
  <2>1. DOMAIN s = 1 .. L
    BY <1>11 DEF KidsShapes, kids
  <2>2. s = [i \in 1 .. L |-> s[i]]
    BY <1>11 DEF KidsShapes, kids
  <2> DEFINE Z == {s[i] : i \in 1 .. L}
  <2> HIDE DEF s, L
  <2>3. s \in [1 .. L -> Z]
    BY <2>2
  <2>4. s \in Seq(Z)
    <3> HIDE DEF Z
    <3> QED BY <1>11, <2>3, IsSeq
  <2> QED BY <1>11, <2>1, <2>4, LenProperties
<1> HIDE DEF s, L
<1>13. first(s, n) = Firsts(s)
  BY <1>11, <1>12 DEF Firsts, L
<1>14. \A i : repeated(s, n, i) = Repeated(s, i)
  BY <1>12 DEF Repeated, L
<1> HIDE DEF first, repeated
<1>15. made(s, n) = <<OwnShape(tree, n), Shaped(s)>>
  BY <1>13, <1>14 DEF made, OwnShape, Shaped
<1>16. r(shape, n) = made(s, n)
  BY <1>10 DEF r
<1> QED BY <1>8, <1>9, <1>15, <1>16 DEF s

-----------------------------------------------------------------------------
(* The lines of a node are a block.                                        *)

LEMMA FoldedBelow ==
  ASSUME NEW K, NEW e \in Int, NEW B \in Seq(Seq(LineOf(K))),
         \A i \in DOMAIN B : Fresh(B[i], e)
  PROVE  /\ FoldedLines(B) \in Seq(LineOf(K))
         /\ \A i \in 1 .. Len(FoldedLines(B)) : FoldedLines(B)[i].depth >= e
<1> DEFINE Deep == {x \in LineOf(K) : x.depth >= e}
           P == Parts(B)
           q == Firsts(B)
<1>1. Len(B) \in Nat /\ DOMAIN B = 1 .. Len(B) /\ \A i \in DOMAIN B : B[i] \in Seq(LineOf(K))
  BY LenProperties, ElementOfSeq
<1>2. Len(q) \in Nat /\ DOMAIN q = 1 .. Len(q) /\ \A j \in DOMAIN q : q[j] \in DOMAIN B
  BY <1>1, FirstsAre
<1>3. /\ P \in Seq(Seq(LineOf(K))) /\ Len(P) = Len(q) /\ DOMAIN P = 1 .. Len(q)
      /\ FoldedLines(B) = FlattenSeq(P)
      /\ \A j \in DOMAIN q : P[j] = IF Repeated(B, q[j]) THEN Folded(B[q[j]]) ELSE B[q[j]]
  BY PartsAre DEF Parts
<1> HIDE DEF P, q
<1>4. ASSUME NEW b \in Seq(LineOf(K)), BlockAt(b, e)
      PROVE  b \in Seq(Deep)
  <2>1. Len(b) \in Nat /\ DOMAIN b = 1 .. Len(b) /\ \A i \in 1 .. Len(b) : b[i] \in LineOf(K)
    BY LenProperties, ElementOfSeq
  <2>2. \A i \in 1 .. Len(b) : b[i].depth >= e
    <3>1. \A i \in 1 .. Len(b) : i = 1 \/ i \in 2 .. Len(b)
      BY <2>1
    <3>2. \A i \in 1 .. Len(b) : b[i].depth \in Int
      BY <2>1 DEF LineOf
    <3> QED BY <1>4, <3>1, <3>2 DEF BlockAt
  <2>3. b \in [1 .. Len(b) -> Deep]
    <3>1. b = [i \in 1 .. Len(b) |-> b[i]]
      BY <2>1
    <3> QED BY <2>1, <2>2, <3>1
  <2> HIDE DEF Deep
  <2> QED BY <2>1, <2>3, IsSeq
<1>5. \A j \in DOMAIN P : P[j] \in Seq(Deep)
  <2> SUFFICES ASSUME NEW j \in DOMAIN P PROVE P[j] \in Seq(Deep)
    OBVIOUS
  <2>1. q[j] \in DOMAIN B /\ (P[j] = Folded(B[q[j]]) \/ P[j] = B[q[j]])
    BY <1>2, <1>3
  <2>2. Fresh(B[q[j]], e) /\ B[q[j]] \in Seq(LineOf(K))
    BY <1>1, <2>1
  <2>3. BlockAt(B[q[j]], e) /\ BlockAt(Folded(B[q[j]]), e) /\ Folded(B[q[j]]) \in Seq(LineOf(K))
    BY <2>2, FoldedTold, FoldedIs DEF Fresh
  <2> HIDE DEF Deep
  <2> QED BY <1>4, <2>1, <2>2, <2>3
<1>6. P \in Seq(Seq(Deep))
  <2>1. P \in [1 .. Len(q) -> Seq(Deep)]
    <3>1. P = [j \in 1 .. Len(q) |-> P[j]]
      BY <1>3
    <3> HIDE DEF Deep
    <3> QED BY <1>3, <1>5, <3>1
  <2> HIDE DEF Deep
  <2> QED BY <1>2, <2>1, IsSeq
<1>7. FlattenSeq(P) \in Seq(Deep)
  <2> HIDE DEF Deep
  <2> QED BY <1>6, FlattenType
<1> DEFINE F == FoldedLines(B)
<1>8. F \in Seq(Deep)
  BY <1>3, <1>7
<1> HIDE DEF F
<1>9. \A i \in 1 .. Len(F) : F[i] \in Deep
  <2> HIDE DEF Deep
  <2> QED BY <1>8, LenProperties, ElementOfSeq
<1> QED BY <1>3, <1>9, FoldedLinesType DEF F

\* Behind its own line a node has its children's.
LEMMA LinesAreFresh ==
  ASSUME NEW tree, Tree(tree)
  PROVE  \A n \in 1 .. Len(tree) : \A above \in Seq(KeysOf(tree)) :
           Fresh(Subtree(tree, n, above).lines, Len(above))
<1> DEFINE N == Len(tree)
           T == {d \in Nat : \A n \in 1 .. N : N - n = d =>
                   \A above \in Seq(KeysOf(tree)) :
                     Fresh(Subtree(tree, n, above).lines, Len(above))}
<1>1. N \in Nat /\ DOMAIN tree = 1 .. N
  BY TreeIs
<1>2. ASSUME NEW d \in Nat, \A c \in 0 .. d - 1 : c \in T
      PROVE  d \in T
  <2> SUFFICES ASSUME NEW n \in 1 .. N, N - n = d, NEW above \in Seq(KeysOf(tree))
               PROVE  Fresh(Subtree(tree, n, above).lines, Len(above))
    OBVIOUS
  <2> DEFINE e == Len(above)
             kids == Kids(tree, n)
             path == PathOf(tree, n, above)
             B == KidsLines(tree, n, above)
             own == Line(e, NodeKey(tree[n]))
             F == FoldedLines(B)
  <2>1. e \in Nat /\ n \in 0 .. N /\ n # 0
    BY <1>1, LenProperties
  <2>2. /\ Subtree(tree, n, above).lines = <<own>> \o F
        /\ Subtree(tree, n, above).lines \in Seq(LineOf(Keys))
        /\ path \in Seq(KeysOf(tree)) /\ path = Append(above, NodeKey(tree[n]))
        /\ \A i \in DOMAIN kids : kids[i] \in n + 1 .. N
    BY <2>1, SubtreeIs DEF OwnLine, PathOf
  <2>3. Len(path) = e + 1
    <3>1. NodeKey(tree[n]) \in KeysOf(tree)
      BY <1>1 DEF KeysOf
    <3> HIDE DEF path
    <3> QED BY <2>2, <3>1, AppendProperties
  <2>4. Len(kids) \in Nat /\ DOMAIN kids = 1 .. Len(kids)
    BY <2>1, KidsAre
  <2>5. \A i \in DOMAIN kids : /\ B[i] = Subtree(tree, kids[i], path).lines
                               /\ B[i] \in Seq(LineOf(Keys))
    <3> SUFFICES ASSUME NEW i \in DOMAIN kids
                 PROVE  /\ B[i] = Subtree(tree, kids[i], path).lines
                        /\ B[i] \in Seq(LineOf(Keys))
      OBVIOUS
    <3>1. B[i] = Subtree(tree, kids[i], path).lines
      BY DEF KidsLines
    <3>2. kids[i] \in 0 .. N
      BY <2>1, <2>2
    <3>3. Subtree(tree, kids[i], path).lines \in Seq(LineOf(Keys))
      <4> HIDE DEF kids, path
      <4> QED BY <2>2, <3>2, SubtreeIs
    <3> QED BY <3>1, <3>3
  <2>6. B \in Seq(Seq(LineOf(Keys))) /\ DOMAIN B = DOMAIN kids
    <3>1. B = [i \in DOMAIN kids |-> B[i]] /\ DOMAIN B = DOMAIN kids
      BY DEF KidsLines
    <3> HIDE DEF B, kids
    <3> DEFINE SL == Seq(LineOf(Keys))
    <3> HIDE DEF SL
    <3>2. \A i \in DOMAIN kids : B[i] \in SL
      BY <2>5 DEF SL
    <3>3. B \in [1 .. Len(kids) -> SL]
      BY <2>4, <3>1, <3>2
    <3>4. B \in Seq(SL)
      BY <2>4, <3>3, IsSeq
    <3> QED BY <3>1, <3>4 DEF SL
  <2>7. \A i \in DOMAIN B : Fresh(B[i], e + 1)
    <3> SUFFICES ASSUME NEW i \in DOMAIN kids PROVE Fresh(B[i], e + 1)
      BY <2>6
    <3> DEFINE z == kids[i]
    <3>1. z \in n + 1 .. N
      BY <2>2
    <3> HIDE DEF z
    <3>2. z \in 1 .. N /\ N - z \in 0 .. d - 1
      BY <1>1, <2>1, <3>1
    <3>3. N - z \in T
      <4> HIDE DEF T
      <4> QED BY <1>2, <3>2
    <3>4. Fresh(Subtree(tree, z, path).lines, Len(path))
      <4> HIDE DEF path
      <4> QED BY <2>2, <3>2, <3>3
    <3> QED BY <2>3, <2>5, <3>4 DEF z
  <2> HIDE DEF B, e, path
  <2>8. F \in Seq(LineOf(Keys)) /\ \A i \in 1 .. Len(F) : F[i].depth >= e + 1
    <3>1. e + 1 \in Int
      BY <2>1
    <3> QED BY <2>6, <2>7, <3>1, FoldedBelow
  <2>9. own \in LineOf(Keys) /\ own.depth = e /\ own.folded = FALSE
    <3>1. tree[n] \in Node
      BY <1>1, TreeIs
    <3>2. NodeKey(tree[n]) \in Keys
      BY <3>1 DEF Keys
    <3> QED BY <2>1, <3>2 DEF Line, LineOf
  <2> HIDE DEF F, own
  <2>10. /\ Len(<<own>> \o F) = 1 + Len(F) /\ (<<own>> \o F)[1] = own
         /\ \A i \in 2 .. 1 + Len(F) : (<<own>> \o F)[i] = F[i - 1]
    <3>1. Len(F) \in Nat /\ <<own>> \in Seq(LineOf(Keys)) /\ Len(<<own>>) = 1 /\ <<own>>[1] = own
      BY <2>8, <2>9, LenProperties
    <3>2. /\ Len(<<own>> \o F) = 1 + Len(F)
          /\ \A i \in 1 .. 1 + Len(F) :
               (<<own>> \o F)[i] = IF i <= 1 THEN <<own>>[i] ELSE F[i - 1]
      BY <2>8, <3>1, ConcatProperties
    <3>3. 1 \in 1 .. 1 + Len(F) /\ \A i \in 2 .. 1 + Len(F) : i \in 1 .. 1 + Len(F) /\ ~ (i <= 1)
      BY <3>1
    <3> QED BY <3>1, <3>2, <3>3
  <2>11. Fresh(<<own>> \o F, e)
    <3> DEFINE b == <<own>> \o F
    <3> HIDE DEF b
    <3>1. Len(F) \in Nat
      BY <2>8, LenProperties
    <3>2. \A i \in 2 .. 1 + Len(F) : i - 1 \in 1 .. Len(F)
      BY <3>1
    <3>3. \A i \in 1 .. Len(F) : F[i].depth \in Int
      <4>1. \A i \in 1 .. Len(F) : F[i] \in LineOf(Keys)
        BY <2>8, ElementOfSeq
      <4> QED BY <4>1 DEF LineOf
    <3>4. \A i \in 2 .. 1 + Len(F) : b[i].depth > e
      <4> SUFFICES ASSUME NEW i \in 2 .. 1 + Len(F) PROVE b[i].depth > e
        OBVIOUS
      <4>1. b[i] = F[i - 1] /\ i - 1 \in 1 .. Len(F)
        BY <2>10, <3>2 DEF b
      <4> DEFINE x == F[i - 1].depth
      <4>2. x \in Int /\ x >= e + 1
        BY <2>8, <3>3, <4>1
      <4>3. b[i].depth = x
        BY <4>1
      <4> HIDE DEF x
      <4> QED BY <2>1, <4>2, <4>3
    <3>5. Len(b) = 1 + Len(F) /\ b[1] = own
      BY <2>10 DEF b
    <3>6. Fresh(b, e)
      BY <2>9, <3>1, <3>4, <3>5 DEF Fresh, BlockAt
    <3> QED BY <3>6 DEF b
  <2> QED BY <2>2, <2>11 DEF e
<1>3. Nat \subseteq T
  <2> HIDE DEF T
  <2> QED BY <1>2, EveryNumber
<1> SUFFICES ASSUME NEW n \in 1 .. N, NEW above \in Seq(KeysOf(tree))
             PROVE  Fresh(Subtree(tree, n, above).lines, Len(above))
  OBVIOUS
<1>4. N - n \in Nat
  BY <1>1
<1>5. N - n \in T
  <2> HIDE DEF T
  <2> QED BY <1>3, <1>4
<1> QED BY <1>5

-----------------------------------------------------------------------------
(* Lines and shapes tell nodes apart alike.                                *)

LEMMA KidsBlocks ==
  ASSUME NEW tree, Tree(tree), NEW n \in 0 .. Len(tree), NEW above \in Seq(KeysOf(tree))
  PROVE  /\ Len(Kids(tree, n)) \in Nat /\ DOMAIN Kids(tree, n) = 1 .. Len(Kids(tree, n))
         /\ PathOf(tree, n, above) \in Seq(KeysOf(tree))
         /\ Len(PathOf(tree, n, above)) = IF n = 0 THEN Len(above) ELSE Len(above) + 1
         /\ KidsLines(tree, n, above) \in Seq(Seq(LineOf(Keys)))
         /\ Len(KidsLines(tree, n, above)) = Len(Kids(tree, n))
         /\ DOMAIN KidsLines(tree, n, above) = 1 .. Len(Kids(tree, n))
         /\ Len(KidsShapes(tree, n)) = Len(Kids(tree, n))
         /\ DOMAIN KidsShapes(tree, n) = 1 .. Len(Kids(tree, n))
         /\ \A i \in 1 .. Len(Kids(tree, n)) :
              /\ Kids(tree, n)[i] \in n + 1 .. Len(tree)
              /\ KidsLines(tree, n, above)[i] =
                   Subtree(tree, Kids(tree, n)[i], PathOf(tree, n, above)).lines
              /\ KidsShapes(tree, n)[i] = ShapeOf(tree, Kids(tree, n)[i])
              /\ Fresh(KidsLines(tree, n, above)[i], Len(PathOf(tree, n, above)))
<1> DEFINE N == Len(tree)
           kids == Kids(tree, n)
           L == Len(kids)
           path == PathOf(tree, n, above)
           B == KidsLines(tree, n, above)
           s == KidsShapes(tree, n)
<1>1. N \in Nat /\ DOMAIN tree = 1 .. N /\ n \in 0 .. N
  BY TreeIs
<1>2. L \in Nat /\ DOMAIN kids = 1 .. L /\ \A i \in 1 .. L : kids[i] \in n + 1 .. N
  BY KidsAre
<1>3. path \in Seq(KeysOf(tree))
  BY SubtreeIs
<1>4. Len(path) = IF n = 0 THEN Len(above) ELSE Len(above) + 1
  <2>1. CASE n = 0
    BY <2>1 DEF PathOf
  <2>2. CASE n # 0
    <3>1. n \in 1 .. N
      BY <1>1, <2>2
    <3>2. NodeKey(tree[n]) \in KeysOf(tree)
      BY <1>1, <3>1 DEF KeysOf
    <3>3. path = Append(above, NodeKey(tree[n]))
      BY <2>2 DEF PathOf
    <3> HIDE DEF path
    <3> QED BY <2>2, <3>2, <3>3, AppendProperties
  <2> QED BY <2>1, <2>2
<1>5. /\ B = [i \in 1 .. L |-> Subtree(tree, kids[i], path).lines]
      /\ s = [i \in 1 .. L |-> ShapeOf(tree, kids[i])]
  BY <1>2 DEF KidsLines, KidsShapes
<1> DEFINE SL == Seq(LineOf(Keys))
<1> HIDE DEF N, kids, L, path, B, s, SL
<1>6. \A i \in 1 .. L : kids[i] \in 1 .. N
  BY <1>1, <1>2
<1>7. \A i \in 1 .. L : Subtree(tree, kids[i], path).lines \in SL
  <2> SUFFICES ASSUME NEW i \in 1 .. L PROVE Subtree(tree, kids[i], path).lines \in SL
    OBVIOUS
  <2>1. kids[i] \in 0 .. Len(tree)
    BY <1>1, <1>6 DEF N
  <2> QED BY <1>3, <2>1, SubtreeIs DEF SL
<1>8. \A i \in 1 .. L : Fresh(B[i], Len(path))
  <2> SUFFICES ASSUME NEW i \in 1 .. L PROVE Fresh(B[i], Len(path))
    OBVIOUS
  <2>1. kids[i] \in 1 .. Len(tree)
    BY <1>6 DEF N
  <2>2. Fresh(Subtree(tree, kids[i], path).lines, Len(path))
    BY <1>3, <2>1, LinesAreFresh
  <2>3. B[i] = Subtree(tree, kids[i], path).lines
    BY <1>5
  <2> QED BY <2>2, <2>3
<1>9. B \in [1 .. L -> SL] /\ DOMAIN B = 1 .. L
  BY <1>5, <1>7
<1>10. B \in Seq(SL) /\ Len(B) = L
  <2>1. B \in Seq(SL)
    BY <1>2, <1>9, IsSeq
  <2> QED BY <1>2, <1>9, <2>1, LenProperties
<1>11. DOMAIN s = 1 .. L /\ Len(s) = L
  <2> DEFINE Z == {s[i] : i \in 1 .. L}
  <2>1. s \in [1 .. L -> Z] /\ DOMAIN s = 1 .. L
    BY <1>5
  <2>2. s \in Seq(Z)
    <3> HIDE DEF Z
    <3> QED BY <1>2, <2>1, IsSeq
  <2> QED BY <1>2, <2>1, <2>2, LenProperties
<1>12. \A i \in 1 .. L : /\ B[i] = Subtree(tree, kids[i], path).lines
                         /\ s[i] = ShapeOf(tree, kids[i])
  BY <1>5
<1> QED BY <1>2, <1>3, <1>4, <1>8, <1>9, <1>10, <1>11, <1>12 DEF N, kids, L, path, B, s, SL

InFront(x, F) == <<x>> \o F

LEMMA InFrontSame ==
  ASSUME NEW T, NEW x \in T, NEW y \in T, NEW F \in Seq(T), NEW G \in Seq(T)
  PROVE  InFront(x, F) = InFront(y, G) <=> x = y /\ F = G
<1> DEFINE u == <<x>>
           v == <<y>>
<1>1. /\ u \in Seq(T) /\ Len(u) = 1 /\ u[1] = x
      /\ v \in Seq(T) /\ Len(v) = 1 /\ v[1] = y
  OBVIOUS
<1>2. Len(F) \in Nat /\ Len(G) \in Nat
  BY LenProperties
<1> HIDE DEF u, v
<1>3. /\ Len(u \o F) = 1 + Len(F)
      /\ \A i \in 1 .. 1 + Len(F) : (u \o F)[i] = IF i <= 1 THEN u[i] ELSE F[i - 1]
      /\ Len(v \o G) = 1 + Len(G)
      /\ \A i \in 1 .. 1 + Len(G) : (v \o G)[i] = IF i <= 1 THEN v[i] ELSE G[i - 1]
  BY <1>1, ConcatProperties
<1>4. ASSUME u \o F = v \o G
      PROVE  x = y /\ F = G
  <2>1. Len(F) = Len(G)
    BY <1>2, <1>3, <1>4
  <2>2. 1 \in 1 .. 1 + Len(F)
    BY <1>2
  <2>3. x = y
    BY <1>1, <1>3, <1>4, <2>1, <2>2
  <2>4. \A i \in 1 .. Len(F) : /\ i + 1 \in 1 .. 1 + Len(F) /\ ~ (i + 1 <= 1)
                                /\ (i + 1) - 1 = i
    BY <1>2
  <2>5. \A i \in 1 .. Len(F) : F[i] = G[i]
    BY <1>3, <1>4, <2>1, <2>4
  <2> QED BY <2>1, <2>3, <2>5, SeqEqual
<1>5. x = y /\ F = G => u \o F = v \o G
  BY DEF u, v
<1>6. u \o F = v \o G <=> x = y /\ F = G
  BY <1>4, <1>5
<1> QED BY <1>6 DEF u, v, InFront

\* Two nodes with as many keys above them have equal lines exactly if they have
\* equal shapes, in one page or in two.
LEMMA LinesTellShapes ==
  ASSUME NEW W, \A t \in W : Tree(t)
  PROVE  \A t, u \in W : \A n \in 1 .. Len(t), m \in 1 .. Len(u) :
           \A a \in Seq(KeysOf(t)), b \in Seq(KeysOf(u)) :
             Len(a) = Len(b) =>
               (Subtree(t, n, a).lines = Subtree(u, m, b).lines <=>
                  ShapeOf(t, n) = ShapeOf(u, m))
<1> DEFINE SameThere(t, u, n, m) ==
             \A a \in Seq(KeysOf(t)), b \in Seq(KeysOf(u)) :
               Len(a) = Len(b) =>
                 (Subtree(t, n, a).lines = Subtree(u, m, b).lines <=>
                    ShapeOf(t, n) = ShapeOf(u, m))
           S == {d \in Nat : \A t, u \in W : \A n \in 1 .. Len(t), m \in 1 .. Len(u) :
                   Len(t) - n <= d /\ Len(u) - m <= d => SameThere(t, u, n, m)}
<1>1. \A t \in W : Len(t) \in Nat /\ DOMAIN t = 1 .. Len(t) /\ Tree(t)
                   /\ \A k \in 1 .. Len(t) : NodeKey(t[k]) \in Keys
  BY TreeIs DEF Keys
<1>2. ASSUME NEW d \in Nat, \A c \in 0 .. d - 1 : c \in S
      PROVE  d \in S
  <2> SUFFICES ASSUME NEW t \in W, NEW u \in W, NEW n \in 1 .. Len(t), NEW m \in 1 .. Len(u),
                      Len(t) - n <= d, Len(u) - m <= d
               PROVE  SameThere(t, u, n, m)
    <3> HIDE DEF SameThere
    <3> QED OBVIOUS
  <2> SUFFICES ASSUME NEW a \in Seq(KeysOf(t)), NEW b \in Seq(KeysOf(u)), Len(a) = Len(b)
               PROVE  Subtree(t, n, a).lines = Subtree(u, m, b).lines <=>
                        ShapeOf(t, n) = ShapeOf(u, m)
    OBVIOUS
  <2> DEFINE e == Len(a) + 1
             B == KidsLines(t, n, a)
             C == KidsLines(u, m, b)
             s == KidsShapes(t, n)
             v == KidsShapes(u, m)
             p == Len(Kids(t, n))
             q == Len(Kids(u, m))
             c(i) == Kids(t, n)[i]
             k(i) == Kids(u, m)[i]
             f == PathOf(t, n, a)
             g == PathOf(u, m, b)
  <2>1. /\ Tree(t) /\ n \in 0 .. Len(t) /\ n # 0 /\ Len(t) \in Nat
        /\ Tree(u) /\ m \in 0 .. Len(u) /\ m # 0 /\ Len(u) \in Nat
        /\ Len(a) \in Nat
    BY <1>1, LenProperties
  <2>2. /\ p \in Nat /\ f \in Seq(KeysOf(t)) /\ Len(f) = e
        /\ B \in Seq(Seq(LineOf(Keys))) /\ Len(B) = p /\ DOMAIN B = 1 .. p
        /\ Len(s) = p /\ DOMAIN s = 1 .. p
        /\ \A i \in 1 .. p : /\ c(i) \in n + 1 .. Len(t)
                              /\ B[i] = Subtree(t, c(i), f).lines
                              /\ s[i] = ShapeOf(t, c(i))
                              /\ Fresh(B[i], e)
    BY <2>1, KidsBlocks
  <2>3. /\ q \in Nat /\ g \in Seq(KeysOf(u)) /\ Len(g) = e
        /\ C \in Seq(Seq(LineOf(Keys))) /\ Len(C) = q /\ DOMAIN C = 1 .. q
        /\ Len(v) = q /\ DOMAIN v = 1 .. q
        /\ \A i \in 1 .. q : /\ k(i) \in m + 1 .. Len(u)
                              /\ C[i] = Subtree(u, k(i), g).lines
                              /\ v[i] = ShapeOf(u, k(i))
                              /\ Fresh(C[i], e)
    <3> DEFINE h == Len(b) + 1
    <3>1. h = e
      OBVIOUS
    <3> HIDE DEF e
    <3>2. /\ q \in Nat /\ g \in Seq(KeysOf(u)) /\ Len(g) = h
          /\ C \in Seq(Seq(LineOf(Keys))) /\ Len(C) = q /\ DOMAIN C = 1 .. q
          /\ Len(v) = q /\ DOMAIN v = 1 .. q
          /\ \A i \in 1 .. q : /\ k(i) \in m + 1 .. Len(u)
                                /\ C[i] = Subtree(u, k(i), g).lines
                                /\ v[i] = ShapeOf(u, k(i))
                                /\ Fresh(C[i], h)
      BY <2>1, KidsBlocks
    <3> HIDE DEF h
    <3> QED BY <3>1, <3>2
  <2>4. ASSUME NEW t1 \in W, NEW t2 \in W, NEW x \in 1 .. Len(t1), NEW y \in 1 .. Len(t2),
               Len(t1) - x < d, Len(t2) - y < d,
               NEW w1 \in Seq(KeysOf(t1)), NEW w2 \in Seq(KeysOf(t2)), Len(w1) = Len(w2)
        PROVE  Subtree(t1, x, w1).lines = Subtree(t2, y, w2).lines <=>
                 ShapeOf(t1, x) = ShapeOf(t2, y)
    <3> DEFINE l1 == Len(t1)
               l2 == Len(t2)
    <3>1. l1 \in Nat /\ l2 \in Nat /\ x \in 1 .. l1 /\ y \in 1 .. l2 /\ l1 - x < d /\ l2 - y < d
      BY <1>1, <2>4
    <3> HIDE DEF l1, l2
    <3>2. d - 1 \in 0 .. d - 1 /\ l1 - x <= d - 1 /\ l2 - y <= d - 1
      BY <3>1
    <3>3. d - 1 \in S
      <4> HIDE DEF S
      <4> QED BY <1>2, <3>2
    <3>4. SameThere(t1, t2, x, y)
      <4> HIDE DEF SameThere
      <4> QED BY <3>2, <3>3 DEF l1, l2
    <3> QED BY <2>4, <3>4
  <2>5. /\ \A i \in 1 .. p : c(i) \in 1 .. Len(t) /\ Len(t) - c(i) < d
        /\ \A i \in 1 .. q : k(i) \in 1 .. Len(u) /\ Len(u) - k(i) < d
    <3>1. ASSUME NEW N \in Nat, NEW x \in 1 .. N, N - x <= d, NEW y \in x + 1 .. N
          PROVE  y \in 1 .. N /\ N - y < d
      BY <3>1
    <3> HIDE DEF p, q, c, k
    <3> QED BY <2>1, <2>2, <2>3, <3>1
  <2> HIDE DEF B, C, s, v, p, q, c, k, f, g, e
  <2>6. /\ \A i, j \in 1 .. p : B[i] = B[j] <=> s[i] = s[j]
        /\ \A i, j \in 1 .. q : C[i] = C[j] <=> v[i] = v[j]
        /\ \A i \in 1 .. p : \A j \in 1 .. q : B[i] = C[j] <=> s[i] = v[j]
    <3>1. \A i, j \in 1 .. p : B[i] = B[j] <=> s[i] = s[j]
      <4> SUFFICES ASSUME NEW i \in 1 .. p, NEW j \in 1 .. p PROVE B[i] = B[j] <=> s[i] = s[j]
        OBVIOUS
      <4>1. Subtree(t, c(i), f).lines = Subtree(t, c(j), f).lines <=>
              ShapeOf(t, c(i)) = ShapeOf(t, c(j))
        BY <2>2, <2>4, <2>5
      <4> QED BY <2>2, <4>1
    <3>2. \A i, j \in 1 .. q : C[i] = C[j] <=> v[i] = v[j]
      <4> SUFFICES ASSUME NEW i \in 1 .. q, NEW j \in 1 .. q PROVE C[i] = C[j] <=> v[i] = v[j]
        OBVIOUS
      <4>1. Subtree(u, k(i), g).lines = Subtree(u, k(j), g).lines <=>
              ShapeOf(u, k(i)) = ShapeOf(u, k(j))
        <5> DEFINE X == k(i)
                   Y == k(j)
        <5>1. /\ X \in 1 .. Len(u) /\ Len(u) - X < d /\ Y \in 1 .. Len(u) /\ Len(u) - Y < d
              /\ g \in Seq(KeysOf(u))
          BY <2>3, <2>5
        <5> HIDE DEF X, Y
        <5>2. Subtree(u, X, g).lines = Subtree(u, Y, g).lines <=> ShapeOf(u, X) = ShapeOf(u, Y)
          BY <2>4, <5>1
        <5> QED BY <5>2 DEF X, Y
      <4> QED BY <2>3, <4>1
    <3>3. \A i \in 1 .. p : \A j \in 1 .. q : B[i] = C[j] <=> s[i] = v[j]
      <4> SUFFICES ASSUME NEW i \in 1 .. p, NEW j \in 1 .. q PROVE B[i] = C[j] <=> s[i] = v[j]
        OBVIOUS
      <4>1. Subtree(t, c(i), f).lines = Subtree(u, k(j), g).lines <=>
              ShapeOf(t, c(i)) = ShapeOf(u, k(j))
        <5> DEFINE X == c(i)
                   Y == k(j)
        <5>1. /\ X \in 1 .. Len(t) /\ Len(t) - X < d /\ Y \in 1 .. Len(u) /\ Len(u) - Y < d
              /\ f \in Seq(KeysOf(t)) /\ g \in Seq(KeysOf(u)) /\ Len(f) = Len(g)
          BY <2>2, <2>3, <2>5
        <5> HIDE DEF X, Y
        <5>2. Subtree(t, X, f).lines = Subtree(u, Y, g).lines <=> ShapeOf(t, X) = ShapeOf(u, Y)
          BY <2>4, <5>1
        <5> QED BY <5>2 DEF X, Y
      <4> QED BY <2>2, <2>3, <4>1
    <3> QED BY <3>1, <3>2, <3>3
  <2>7. FoldedLines(B) = FoldedLines(C) <=> Shaped(B) = Shaped(C)
    <3>1. e \in Int
      BY <2>1 DEF e
    <3> QED BY <2>2, <2>3, <3>1, FoldedApart
  <2>8. Shaped(B) = Shaped(C) <=> Shaped(s) = Shaped(v)
    <3>1. /\ p \in Nat /\ Len(B) = p /\ DOMAIN B = 1 .. p /\ Len(s) = p /\ DOMAIN s = 1 .. p
          /\ q \in Nat /\ Len(C) = q /\ DOMAIN C = 1 .. q /\ Len(v) = q /\ DOMAIN v = 1 .. q
      BY <2>2, <2>3
    <3>2. Paired(B, s) /\ Paired(C, v)
      BY <3>1 DEF Paired
    <3>3. Alike(B, B, s, s) /\ Alike(C, C, v, v) /\ Alike(B, C, s, v)
      BY <2>6, <3>1 DEF Alike
    <3> QED BY <3>2, <3>3, FoldedAlike
  <2> DEFINE x == NodeKey(t[n])
             y == NodeKey(u[m])
             z == Len(a)
  <2>9. /\ Subtree(t, n, a).lines = <<Line(z, x)>> \o FoldedLines(B)
        /\ Subtree(u, m, b).lines = <<Line(z, y)>> \o FoldedLines(C)
    <3>1. Subtree(t, n, a).lines = OwnLine(t, n, a) \o FoldedLines(B)
      BY <2>1, SubtreeIs DEF B
    <3>2. Subtree(u, m, b).lines = OwnLine(u, m, b) \o FoldedLines(C)
      BY <2>1, SubtreeIs DEF C
    <3>3. OwnLine(t, n, a) = <<Line(z, x)>> /\ OwnLine(u, m, b) = <<Line(z, y)>>
      BY <2>1 DEF OwnLine
    <3> QED BY <3>1, <3>2, <3>3
  <2>10. /\ ShapeOf(t, n) = << <<x>>, Shaped(s)>>
         /\ ShapeOf(u, m) = << <<y>>, Shaped(v)>>
    BY <2>1, ShapeIs DEF OwnShape, s, v, Document
  <2>11. x \in Keys /\ y \in Keys /\ z \in Nat
    BY <1>1, <2>1
  <2> HIDE DEF x, y, z
  <2>12. /\ Line(z, x) \in LineOf(Keys) /\ Line(z, y) \in LineOf(Keys)
         /\ Line(z, x) = Line(z, y) <=> x = y
    <3>1. \A w \in Keys : Line(z, w) \in LineOf(Keys)
      BY <2>11 DEF Line, LineOf
    <3>2. Line(z, x).key = x /\ Line(z, y).key = y
      BY DEF Line
    <3> QED BY <2>11, <3>1, <3>2
  <2>13. FoldedLines(B) \in Seq(LineOf(Keys)) /\ FoldedLines(C) \in Seq(LineOf(Keys))
    BY <2>2, <2>3, FoldedLinesType
  <2>14. Subtree(t, n, a).lines = Subtree(u, m, b).lines <=>
           x = y /\ FoldedLines(B) = FoldedLines(C)
    <3> DEFINE F == FoldedLines(B)
               G == FoldedLines(C)
               lx == Line(z, x)
               ly == Line(z, y)
    <3> HIDE DEF F, G, lx, ly
    <3>1. InFront(lx, F) = InFront(ly, G) <=> lx = ly /\ F = G
      <4>1. /\ lx \in LineOf(Keys) /\ ly \in LineOf(Keys)
            /\ F \in Seq(LineOf(Keys)) /\ G \in Seq(LineOf(Keys))
        BY <2>12, <2>13 DEF F, G, lx, ly
      <4> QED BY <4>1, InFrontSame
    <3> QED BY <2>9, <2>12, <3>1 DEF F, G, lx, ly, InFront
  <2>15. ShapeOf(t, n) = ShapeOf(u, m) <=> x = y /\ Shaped(s) = Shaped(v)
    <3> DEFINE X == Shaped(s)
               Y == Shaped(v)
    <3> HIDE DEF X, Y
    <3>1. << <<x>>, X>> = << <<y>>, Y>> <=> x = y /\ X = Y
      OBVIOUS
    <3> QED BY <2>10, <3>1 DEF X, Y
  <2> QED BY <2>7, <2>8, <2>14, <2>15
<1>3. Nat \subseteq S
  <2> HIDE DEF S
  <2> QED BY <1>2, EveryNumber
<1> SUFFICES ASSUME NEW t \in W, NEW u \in W, NEW n \in 1 .. Len(t), NEW m \in 1 .. Len(u)
             PROVE  SameThere(t, u, n, m)
  OBVIOUS
<1> DEFINE l1 == Len(t)
           l2 == Len(u)
           d == IF l1 - n <= l2 - m THEN l2 - m ELSE l1 - n
<1>4. l1 \in Nat /\ l2 \in Nat /\ n \in 1 .. l1 /\ m \in 1 .. l2
  BY <1>1
<1> HIDE DEF l1, l2
<1>5. d \in Nat /\ l1 - n <= d /\ l2 - m <= d
  BY <1>4
<1> HIDE DEF d
<1>6. d \in S
  <2> HIDE DEF S
  <2> QED BY <1>3, <1>5
<1> HIDE DEF SameThere
<1> QED BY <1>5, <1>6 DEF l1, l2

-----------------------------------------------------------------------------
(* The verdict on a page, and the page its contract was recorded from.     *)

\* Of any findings the first of its kind is left, and every severity gates.
LEMMA AnyFindingGates ==
  ASSUME NEW S, \A f \in S : f.at \in Nat /\ f.severity \in Severity
  PROVE  Gates(Dedupe(S), "WARNING") <=> S # {}
<1>1. ASSUME NEW f \in S
      PROVE  \E g \in S : g \in Dedupe(S)
  <2> DEFINE R == {g \in S : g.kind = f.kind /\ g.selector = f.selector}
             A == {g.at : g \in R}
  <2>1. f.at \in A /\ A \in SUBSET Nat
    OBVIOUS
  <2>2. PICK m \in A : \A j \in A : m <= j
    <3> HIDE DEF A
    <3> QED BY <2>1, LeastExists
  <2>3. PICK g \in R : g.at = m
    OBVIOUS
  <2>4. \A h \in S : h.kind = g.kind /\ h.selector = g.selector => g.at <= h.at
    BY <2>2, <2>3
  <2> QED BY <2>3, <2>4 DEF Dedupe
<1>2. \A f \in Dedupe(S) : f \in S
  BY DEF Dedupe
<1>3. \A v \in Severity : SeverityOrder[v] >= SeverityOrder["WARNING"]
  BY DEF Severity, SeverityOrder
<1> QED BY <1>1, <1>2, <1>3 DEF Gates

LEMMA StructureKinds ==
  ASSUME NEW a, NEW b
  PROVE  ChangeKinds(StructureChange(a, b)) \subseteq {"removed", "moved", "added"}
<1> DEFINE r == RawDiff(a, b)
           change == StructureChange(a, b)
<1>1. DOMAIN change = {"removed", "moved", "added"}
  <2> HIDE DEF r
  <2> QED BY DEF StructureChange, Reparented, r
<1> HIDE DEF change
<1> QED BY <1>1 DEF ChangeKinds, change

LEMMA SelectCounts ==
  ASSUME NEW tree, Tree(tree), NEW s \in Selector
  PROVE  /\ Select(tree, s) \in SUBSET (1 .. Len(tree))
         /\ Cardinality(Select(tree, s)) \in Nat
         /\ Cardinality(Select(tree, s)) = 0 <=> Select(tree, s) = {}
<1>1. Len(tree) \in Nat /\ DOMAIN tree = 1 .. Len(tree)
  BY TreeIs
<1>2. Select(tree, s) \in SUBSET (1 .. Len(tree))
  BY <1>1, SelectIs, DocumentAssumption
<1> DEFINE X == Select(tree, s)
<1> HIDE DEF X
<1>3. IsFiniteSet(X) /\ Cardinality(X) \in Nat
  BY <1>1, <1>2, SomeOf DEF X
<1>4. Cardinality(X) = 0 <=> X = {}
  BY <1>3, FS_EmptySet
<1> QED BY <1>2, <1>3, <1>4 DEF X

LEMMA ScopeIs ==
  ASSUME NEW tree, Tree(tree), Select(tree, Container) # {}
  PROVE  /\ Min(Select(tree, Container)) \in 1 .. Len(tree)
         /\ NormalizeTree(tree, Container) =
              Subtree(tree, Min(Select(tree, Container)), << >>)
<1> DEFINE scope == Select(tree, Container)
<1>1. scope \in SUBSET (1 .. Len(tree))
  BY SelectCounts, DocumentAssumption
<1>2. Min(scope) \in scope
  <2> HIDE DEF scope
  <2>1. scope \in SUBSET Nat
    BY <1>1
  <2>2. scope # {}
    BY DEF scope
  <2>3. \E m \in scope : \A j \in scope : m <= j
    BY <2>1, <2>2, LeastExists
  <2> QED BY <2>3 DEF Min
<1>3. NormalizeTree(tree, Container) = Subtree(tree, Min(scope), << >>)
  BY DEF NormalizeTree
<1> QED BY <1>1, <1>2, <1>3

\* The lines of two pages are the same exactly if what is in their containers is.
LEMMA ScopesTold ==
  ASSUME NEW tree, Tree(tree), Select(tree, Container) # {},
         NEW seen, Tree(seen), Select(seen, Container) # {}
  PROVE  NormalizeTree(tree, Container).lines = NormalizeTree(seen, Container).lines <=>
           ShapeOf(tree, Min(Select(tree, Container))) =
             ShapeOf(seen, Min(Select(seen, Container)))
<1> DEFINE W == {tree, seen}
           n == Min(Select(tree, Container))
           m == Min(Select(seen, Container))
           none == << >>
<1>1. \A t \in W : Tree(t)
  OBVIOUS
<1>2. /\ n \in 1 .. Len(tree) /\ NormalizeTree(tree, Container) = Subtree(tree, n, none)
      /\ m \in 1 .. Len(seen) /\ NormalizeTree(seen, Container) = Subtree(seen, m, none)
  BY ScopeIs
<1>3. none \in Seq(KeysOf(tree)) /\ none \in Seq(KeysOf(seen))
  BY EmptySeq
<1>4. tree \in W /\ seen \in W
  OBVIOUS
<1> HIDE DEF none, n, m, W
<1>5. Subtree(tree, n, none).lines = Subtree(seen, m, none).lines <=>
        ShapeOf(tree, n) = ShapeOf(seen, m)
  BY <1>1, <1>2, <1>3, <1>4, LinesTellShapes
<1> QED BY <1>2, <1>5 DEF n, m

-----------------------------------------------------------------------------
\* The page a contract was recorded from.
RecordedFrom(tree) ==
  /\ Tree(tree) /\ Select(tree, Container) # {}
  /\ good = ShapeOf(tree, Min(Select(tree, Container)))
  /\ \E separator \in DeclaredSeparators : contract = Recorded(tree, separator)

RecordedInv == contract # Nothing => \E tree : RecordedFrom(tree)

LEMMA RecordedStep == PageInv /\ RecordedInv /\ [DocNext]_docVars => RecordedInv'
<1> SUFFICES ASSUME PageInv, RecordedInv, [DocNext]_docVars PROVE RecordedInv'
  OBVIOUS
<1>1. CASE UNCHANGED <<contract, good>>
  <2>1. \A tree : RecordedFrom(tree) => RecordedFrom(tree)'
    BY <1>1 DEF RecordedFrom
  <2> QED BY <1>1, <2>1 DEF RecordedInv
<1>2. CASE Record
  <2> DEFINE tree == nodes
  <2>1. Tree(tree)
    BY PageIs DEF PageInv
  <2>2. PICK separator \in DeclaredSeparators : contract' = Recorded(tree, separator)
    BY <1>2 DEF Record
  <2>3. /\ Select(tree, Container) # {}
        /\ good' = ShapeOf(tree, Min(Select(tree, Container)))
    BY <1>2 DEF Record, ScopeShape
  <2>4. \E t : /\ Tree(t) /\ Select(t, Container) # {}
               /\ good' = ShapeOf(t, Min(Select(t, Container)))
               /\ \E s \in DeclaredSeparators : contract' = Recorded(t, s)
    BY <2>1, <2>2, <2>3
  <2> QED BY <2>4 DEF RecordedInv, RecordedFrom
<1> QED BY <1>1, <1>2 DEF DocNext, Parse, docVars

\* The three layers, on a page against the contract recorded from another.
LEMMA RequiredFound ==
  ASSUME PageInv, NEW tree, NEW separator, Tree(tree), contract = Recorded(tree, separator)
  PROVE  LET found == SelectorFindings(PageSeen(contract), contract.rules)
         IN  /\ \A f \in found : f.at \in Nat /\ f.severity \in Severity
             /\ found = {} <=>
                  \A i \in DOMAIN Required :
                    Cardinality(Select(nodes, Required[i])) = contract.rules.required[i].min
<1> DEFINE c == contract.rules
           page0 == PageSeen(contract)
           R == contract.rules.required
           seen(i) == page0.count[R[i].selector]
           broken == {i \in DOMAIN R : ~InRange(seen(i), R[i])}
           missing(i) == seen(i) = 0 /\ R[i].min >= 1
           finding(i) == IF missing(i) THEN Found(i, "missing_selector", R[i].selector, R[i].severity)
                         ELSE Found(i, "count_out_of_range", R[i].selector, "MAJOR")
           n == Len(Required)
<1>1. /\ Tree(nodes) /\ n \in Nat /\ DOMAIN Required = 1 .. n
      /\ \A i \in 1 .. n : Required[i] \in Selector
  <2>1. Tree(nodes)
    BY PageIs DEF PageInv
  <2> QED BY <2>1, DocumentAssumption, LenProperties, ElementOfSeq
<1>2. /\ DOMAIN R = 1 .. n
      /\ \A i \in 1 .. n : R[i] = Pinned(tree, Required[i])
  BY <1>1 DEF Recorded
<1>3. ASSUME NEW i \in 1 .. n
      PROVE  /\ R[i].selector = Required[i] /\ R[i].severity = "CRITICAL"
             /\ R[i].min \in Nat /\ R[i].max = R[i].min
             /\ seen(i) = Cardinality(Select(nodes, Required[i]))
             /\ seen(i) \in Nat
  <2> HIDE DEF R
  <2>1. /\ R[i].selector = Required[i] /\ R[i].severity = "CRITICAL"
        /\ R[i].min = Cardinality(Select(tree, Required[i])) /\ R[i].max = R[i].min
    BY <1>2 DEF Pinned
  <2>2. /\ Cardinality(Select(tree, Required[i])) \in Nat
        /\ Cardinality(Select(nodes, Required[i])) \in Nat
    BY <1>1, SelectCounts
  <2>3. seen(i) = Cardinality(Select(nodes, Required[i]))
    BY <1>1, <2>1 DEF PageSeen
  <2> QED BY <2>1, <2>2, <2>3
<1>4. SelectorFindings(page0, c) = {finding(i) : i \in broken}
  BY DEF SelectorFindings
<1> HIDE DEF R, page0, seen, n
<1>5. \A i \in 1 .. n : i \in broken <=> seen(i) # R[i].min
  BY <1>2, <1>3, DocumentAssumption DEF InRange
<1>6. \A i \in broken : finding(i).at \in Nat /\ finding(i).severity \in Severity
  <2> SUFFICES ASSUME NEW i \in broken
               PROVE  finding(i).at \in Nat /\ finding(i).severity \in Severity
    OBVIOUS
  <2>1. i \in 1 .. n
    BY <1>2
  <2>2. {"CRITICAL", "MAJOR", "WARNING"} \subseteq Severity
    BY DEF Severity, SeverityOrder
  <2>3. finding(i).at = i /\ finding(i).severity \in {"CRITICAL", "MAJOR"}
    BY <1>3, <2>1 DEF Found
  <2> HIDE DEF finding
  <2> QED BY <2>1, <2>2, <2>3
<1> HIDE DEF finding
<1>7. {finding(i) : i \in broken} = {} <=> \A i \in 1 .. n : seen(i) = R[i].min
  BY <1>2, <1>5
<1>8. {finding(i) : i \in broken} = {} <=>
        \A i \in 1 .. n : Cardinality(Select(nodes, Required[i])) = R[i].min
  BY <1>3, <1>7
<1> QED BY <1>1, <1>4, <1>6, <1>8 DEF R, page0

LEMMA FieldsFound ==
  ASSUME PageInv, NEW tree, NEW separator, contract = Recorded(tree, separator)
  PROVE  LET found == FieldFindings(PageSeen(contract), contract.rules)
         IN  /\ \A f \in found : f.at \in Nat /\ f.severity \in Severity
             /\ found = {} <=>
                  \A i \in DOMAIN Fields :
                    /\ Select(nodes, Fields[i].selector) # {}
                    /\ \A k \in Select(nodes, Fields[i].selector) :
                         ShapeOk(Fields[i].shape, TextOf(k), contract.decimal_separator)
<1> DEFINE c == contract.rules
           page0 == PageSeen(contract)
           n == Len(Fields)
           sel(i) == Fields[i].selector
           absent(i) == page0.count[sel(i)] = 0
           misread(i) == <<sel(i), Fields[i].shape>> \in page0.misshapen
           broken == {i \in DOMAIN Fields : absent(i) \/ misread(i)}
           q == Len(contract.rules.required)
           finding(i) == Found(q + i, IF absent(i) THEN "missing_selector" ELSE "field_shape",
                               sel(i), Fields[i].severity)
<1>1. /\ Tree(nodes) /\ n \in Nat /\ DOMAIN Fields = 1 .. n
      /\ \A i \in 1 .. n : /\ sel(i) \in Selector /\ Fields[i].shape \in Shape
                           /\ Fields[i].severity \in Severity
  <2>1. Tree(nodes)
    BY PageIs DEF PageInv
  <2>2. n \in Nat /\ DOMAIN Fields = 1 .. n /\ \A i \in 1 .. n : Fields[i] \in FieldRule
    BY DocumentAssumption, LenProperties, ElementOfSeq
  <2> QED BY <2>1, <2>2 DEF FieldRule
<1>2. c.fields = Fields /\ q \in Nat
  <2>1. c.fields = Fields /\ c.required = [i \in DOMAIN Required |-> Pinned(tree, Required[i])]
    BY DEF Recorded
  <2>2. Len(Required) \in Nat /\ DOMAIN Required = 1 .. Len(Required)
    BY DocumentAssumption, LenProperties
  <2> DEFINE r == c.required
             Z == {Pinned(tree, Required[i]) : i \in 1 .. Len(Required)}
  <2>3. r \in [1 .. Len(Required) -> Z]
    BY <2>1, <2>2
  <2> HIDE DEF r, Z
  <2>4. r \in Seq(Z)
    BY <2>2, <2>3, IsSeq
  <2>5. Len(r) \in Nat
    BY <2>4, LenProperties
  <2> QED BY <2>1, <2>5 DEF r
<1>3. ASSUME NEW i \in 1 .. n
      PROVE  /\ absent(i) <=> Select(nodes, sel(i)) = {}
             /\ misread(i) <=> \E k \in Select(nodes, sel(i)) :
                  ~ShapeOk(Fields[i].shape, TextOf(k), contract.decimal_separator)
  <2>1. sel(i) \in Selector /\ Fields[i].shape \in Shape
    BY <1>1
  <2>2. page0.count[sel(i)] = Cardinality(Select(nodes, sel(i)))
    BY <2>1 DEF PageSeen
  <2>3. absent(i) <=> Select(nodes, sel(i)) = {}
    BY <1>1, <2>1, <2>2, SelectCounts
  <2> DEFINE x == sel(i)
             y == Fields[i].shape
             bad(a, b) == \E k \in Select(nodes, a) :
                            ~ShapeOk(b, TextOf(k), contract.decimal_separator)
             M == {m \in Selector \X Shape : bad(m[1], m[2])}
  <2>4. page0.misshapen = M
    BY DEF PageSeen
  <2>5. x \in Selector /\ y \in Shape
    BY <2>1
  <2> HIDE DEF x, y, bad
  <2>6. <<x, y>> \in M <=> bad(x, y)
    BY <2>5
  <2>7. misread(i) <=> <<x, y>> \in M
    BY <2>4 DEF x, y
  <2> HIDE DEF misread, M
  <2>8. misread(i) <=> bad(x, y)
    BY <2>6, <2>7
  <2> QED BY <2>3, <2>8 DEF bad, x, y
<1>4. FieldFindings(page0, c) = {finding(i) : i \in broken}
  BY <1>2 DEF FieldFindings
<1> HIDE DEF page0, absent, misread, q, n
<1>5. \A i \in broken : finding(i).at \in Nat /\ finding(i).severity \in Severity
  <2> SUFFICES ASSUME NEW i \in broken
               PROVE  finding(i).at \in Nat /\ finding(i).severity \in Severity
    OBVIOUS
  <2>1. i \in 1 .. n
    BY <1>1
  <2>2. finding(i).at = q + i /\ finding(i).severity = Fields[i].severity
    BY DEF Found
  <2> HIDE DEF finding
  <2> QED BY <1>1, <1>2, <2>1, <2>2
<1> HIDE DEF finding
<1>6. {finding(i) : i \in broken} = {} <=> \A i \in 1 .. n : ~ absent(i) /\ ~ misread(i)
  BY <1>1
<1>7. {finding(i) : i \in broken} = {} <=>
        \A i \in 1 .. n :
          /\ Select(nodes, sel(i)) # {}
          /\ \A k \in Select(nodes, sel(i)) :
               ShapeOk(Fields[i].shape, TextOf(k), contract.decimal_separator)
  BY <1>3, <1>6
<1> QED BY <1>1, <1>4, <1>5, <1>7 DEF page0

LEMMA StructureFound ==
  ASSUME PageInv, NEW tree, RecordedFrom(tree), Select(nodes, Container) # {},
         contract.baseline = NormalizeTree(tree, Container).lines,
         NEW q \in Nat, Len(contract.rules.required) + Len(contract.rules.fields) = q
  PROVE  LET found == StructureFindings(PageSeen(contract), contract.rules)
         IN  /\ \A f \in found : f.at \in Nat /\ f.severity \in Severity
             /\ found = {} <=> ScopeShape = good
<1> DEFINE a == contract.baseline
           b == Observed
           kinds == ChangeKinds(StructureChange(a, b))
           page0 == PageSeen(contract)
           all == {Found(q + 1, "structure_removed", None, "MAJOR"),
                   Found(q + 2, "structure_moved", None, "WARNING"),
                   Found(q + 3, "structure_added", None, "WARNING")}
           seen(f) == \/ f.kind = "structure_removed" /\ "removed" \in page0.structure
                      \/ f.kind = "structure_moved" /\ "moved" \in page0.structure
                      \/ f.kind = "structure_added" /\ "added" \in page0.structure
           found == StructureFindings(page0, contract.rules)
<1>1. /\ Tree(nodes) /\ Tree(tree) /\ Select(tree, Container) # {}
      /\ good = ShapeOf(tree, Min(Select(tree, Container)))
  BY PageIs DEF PageInv, RecordedFrom
<1>2. a \in Seq(LineOf(Keys)) /\ b \in Seq(LineOf(Keys))
  <2>1. ASSUME NEW t, Tree(t), Select(t, Container) # {}
        PROVE  NormalizeTree(t, Container).lines \in Seq(LineOf(Keys))
    <3> DEFINE k == Min(Select(t, Container))
    <3>1. k \in 1 .. Len(t) /\ NormalizeTree(t, Container) = Subtree(t, k, << >>)
      BY <2>1, ScopeIs
    <3> HIDE DEF k
    <3>2. k \in 0 .. Len(t)
      BY <3>1
    <3> QED BY <2>1, <3>1, <3>2, SubtreeLines
  <2> QED BY <1>1, <2>1 DEF Observed
<1>3. kinds = {} <=> a = b
  <2> HIDE DEF a, b
  <2> QED BY <1>2, NoChange
<1>4. a = b <=> ScopeShape = good
  BY <1>1, ScopesTold DEF Observed, ScopeShape
<1>5. page0.structure = kinds /\ kinds \subseteq {"removed", "moved", "added"}
  BY StructureKinds DEF PageSeen
<1>6. found = {f \in all : seen(f)}
  BY DEF StructureFindings
<1> HIDE DEF page0, kinds, found, a, b
<1>7. \A f \in found : f.at \in Nat /\ f.severity \in Severity
  <2>1. {"CRITICAL", "MAJOR", "WARNING"} \subseteq Severity
    BY DEF Severity, SeverityOrder
  <2>2. \A f \in all : f.at \in Nat /\ f.severity \in {"MAJOR", "WARNING"}
    BY DEF Found
  <2> HIDE DEF all, seen
  <2> QED BY <1>6, <2>1, <2>2
<1>8. found = {} <=> kinds = {}
  <2>1. /\ "removed" \in kinds => Found(q + 1, "structure_removed", None, "MAJOR") \in found
        /\ "moved" \in kinds => Found(q + 2, "structure_moved", None, "WARNING") \in found
        /\ "added" \in kinds => Found(q + 3, "structure_added", None, "WARNING") \in found
    BY <1>5, <1>6 DEF Found
  <2>2. found # {} => kinds # {}
    BY <1>5, <1>6
  <2> QED BY <1>5, <2>1, <2>2
<1> QED BY <1>3, <1>4, <1>7, <1>8 DEF found, page0

LEMMA VerdictIs ==
  ASSUME PageInv, NEW tree, RecordedFrom(tree), contract # Nothing
  PROVE  OkIsTheRecordedPage
<1> DEFINE page0 == PageSeen(contract)
           c == contract.rules
           S1 == SelectorFindings(page0, c)
           S2 == FieldFindings(page0, c)
           S3 == StructureFindings(page0, c)
           S == S1 \cup S2 \cup S3
           here == Select(nodes, Container) # {}
           counts == \A i \in DOMAIN Required :
             Cardinality(Select(nodes, Required[i])) = contract.rules.required[i].min
           value(k) == ParseDecimal(TextOf(k), contract.decimal_separator)
           shaped(i, k) ==
             CASE Fields[i].shape = "text"    -> TextOf(k) # << >>
               [] Fields[i].shape = "decimal" -> value(k) # NoValue
               [] Fields[i].shape = "integer" ->
                    value(k) # NoValue /\ Range(value(k).fraction) \subseteq {"0"}
           fields == \A i \in DOMAIN Fields :
             /\ Select(nodes, Fields[i].selector) # {}
             /\ \A k \in Select(nodes, Fields[i].selector) : shaped(i, k)
           kept == ScopeShape = good /\ counts /\ fields
           status == Checked(contract).status
<1>1. PICK separator \in DeclaredSeparators : contract = Recorded(tree, separator)
  BY DEF RecordedFrom
<1>2. Tree(tree)
  BY DEF RecordedFrom
<1>3. status = IF ~here THEN "BLOCKED"
               ELSE IF Gates(Dedupe(S), "WARNING") THEN "DRIFT" ELSE "OK"
  <2>1. page0.container = here
    BY DEF PageSeen
  <2> HIDE DEF page0, here, S
  <2> QED BY <2>1 DEF Checked, CheckHtml, Report, S, page0
<1>4. (\A f \in S1 : f.at \in Nat /\ f.severity \in Severity) /\ (S1 = {} <=> counts)
  BY <1>1, <1>2, RequiredFound
<1>5. (\A f \in S2 : f.at \in Nat /\ f.severity \in Severity) /\ (S2 = {} <=> fields)
  <2> DEFINE ok(i, k) == ShapeOk(Fields[i].shape, TextOf(k), contract.decimal_separator)
  <2>1. \A i, k : ok(i, k) = shaped(i, k)
    BY DEF ShapeOk
  <2>2. /\ \A f \in S2 : f.at \in Nat /\ f.severity \in Severity
        /\ S2 = {} <=> \A i \in DOMAIN Fields :
                         /\ Select(nodes, Fields[i].selector) # {}
                         /\ \A k \in Select(nodes, Fields[i].selector) : ok(i, k)
    BY <1>1, FieldsFound
  <2> HIDE DEF ok, shaped, S2
  <2> QED BY <2>1, <2>2
<1>6. ASSUME here
      PROVE  /\ \A f \in S3 : f.at \in Nat /\ f.severity \in Severity
             /\ S3 = {} <=> ScopeShape = good
  <2>1. contract.baseline = NormalizeTree(tree, Container).lines
    BY <1>1 DEF Recorded
  <2> DEFINE q == Len(contract.rules.required) + Len(contract.rules.fields)
  <2>2. q \in Nat
    <3>1. /\ contract.rules.required = [i \in DOMAIN Required |-> Pinned(tree, Required[i])]
          /\ contract.rules.fields = Fields
      BY <1>1 DEF Recorded
    <3>2. /\ Len(Required) \in Nat /\ DOMAIN Required = 1 .. Len(Required)
          /\ Len(Fields) \in Nat
      BY DocumentAssumption, LenProperties
    <3> DEFINE r == contract.rules.required
               Z == {Pinned(tree, Required[i]) : i \in 1 .. Len(Required)}
    <3>3. r \in [1 .. Len(Required) -> Z]
      BY <3>1, <3>2
    <3> HIDE DEF r, Z
    <3>4. r \in Seq(Z)
      BY <3>2, <3>3, IsSeq
    <3>5. Len(r) \in Nat
      BY <3>4, LenProperties
    <3> QED BY <3>1, <3>2, <3>5 DEF r
  <2>3. Len(contract.rules.required) + Len(contract.rules.fields) = q
    OBVIOUS
  <2> HIDE DEF q
  <2> QED BY <1>6, <2>1, <2>2, <2>3, StructureFound
<1> HIDE DEF S1, S2, S3, counts, fields
<1>7. ASSUME here
      PROVE  Gates(Dedupe(S), "WARNING") <=> ~ kept
  <2>1. \A f \in S : f.at \in Nat /\ f.severity \in Severity
    BY <1>4, <1>5, <1>6, <1>7
  <2>2. S = {} <=> kept
    BY <1>4, <1>5, <1>6, <1>7
  <2> HIDE DEF S, kept
  <2>3. Gates(Dedupe(S), "WARNING") <=> S # {}
    BY <2>1, AnyFindingGates
  <2> QED BY <2>2, <2>3
<1> HIDE DEF S, kept, status
<1>8. status = IF ~here THEN "BLOCKED" ELSE IF kept THEN "OK" ELSE "DRIFT"
  BY <1>3, <1>7
<1> QED BY <1>8 DEF OkIsTheRecordedPage, status, kept, counts, fields

\* On pages of any size and with any rules: a contract is kept by exactly the pages
\* with the same nodes in the same places below the container, the same counts of
\* what was asked for and fields of their shapes. The lines with their folded runs
\* tell no two such pages apart and confuse no two others, the difference of two
\* lists of lines is empty only for one list, and no finding is lost on the way to
\* the verdict (canary.py:268-291, 575-613).
THEOREM OkIsRecorded == DocSpec => []OkIsTheRecordedPage
<1>1. DocInit => RecordedInv
  BY DEF DocInit, RecordedInv
<1>2. PageInv /\ RecordedInv => OkIsTheRecordedPage
  <2> SUFFICES ASSUME PageInv, RecordedInv PROVE OkIsTheRecordedPage
    OBVIOUS
  <2>1. CASE contract = Nothing
    BY <2>1 DEF OkIsTheRecordedPage
  <2>2. CASE contract # Nothing
    <3>1. PICK tree : RecordedFrom(tree)
      BY <2>2 DEF RecordedInv
    <3> QED BY <2>2, <3>1, VerdictIs
  <2> QED BY <2>1, <2>2
<1> QED BY <1>1, <1>2, RecordedStep, PageInvariance, PTL DEF DocSpec

-----------------------------------------------------------------------------
(* Sequences that list sets.                                               *)

\* s has what f says of each member of X, as often as f says it.
Lists(s, X, f) == \A W : CountIn(s, W) = Cardinality({x \in X : f[x] \in W})

LEMMA ListsNone ==
  ASSUME NEW f
  PROVE  Lists(<< >>, {}, f)
<1> SUFFICES ASSUME NEW W PROVE CountIn(<< >>, W) = Cardinality({x \in {} : f[x] \in W})
  BY DEF Lists
<1>1. {i \in DOMAIN << >> : << >>[i] \in W} = {}
  OBVIOUS
<1>2. {x \in {} : f[x] \in W} = {}
  OBVIOUS
<1> QED BY <1>1, <1>2 DEF CountIn

LEMMA ListsOne ==
  ASSUME NEW f, NEW x
  PROVE  Lists(<<f[x]>>, {x}, f)
<1> SUFFICES ASSUME NEW W PROVE CountIn(<<f[x]>>, W) = Cardinality({y \in {x} : f[y] \in W})
  BY DEF Lists
<1> DEFINE s == <<f[x]>>
<1>1. DOMAIN s = {1} /\ s[1] = f[x]
  <2>1. DOMAIN s = 1 .. 1
    OBVIOUS
  <2>2. 1 .. 1 = {1}
    OBVIOUS
  <2> QED BY <2>1, <2>2
<1> HIDE DEF s
<1>2. CASE f[x] \in W
  <2>1. {i \in DOMAIN s : s[i] \in W} = {1} /\ {y \in {x} : f[y] \in W} = {x}
    BY <1>1, <1>2
  <2>2. Cardinality({1}) = 1 /\ Cardinality({x}) = 1
    BY FS_Singleton
  <2> QED BY <2>1, <2>2 DEF CountIn, s
<1>3. CASE f[x] \notin W
  <2>1. {i \in DOMAIN s : s[i] \in W} = {} /\ {y \in {x} : f[y] \in W} = {}
    BY <1>1, <1>3
  <2> QED BY <2>1 DEF CountIn, s
<1> QED BY <1>2, <1>3

LEMMA ConcatCounts ==
  ASSUME NEW T, NEW s \in Seq(T), NEW t \in Seq(T), NEW W
  PROVE  CountIn(s \o t, W) = CountIn(s, W) + CountIn(t, W)
<1> DEFINE m == Len(s)
           n == Len(t)
           r == s \o t
           R == {i \in DOMAIN r : r[i] \in W}
           A == {i \in DOMAIN s : s[i] \in W}
           B == {j \in DOMAIN t : t[j] \in W}
           U == 1 .. m
           g == [j \in B |-> m + j]
<1>1. /\ m \in Nat /\ DOMAIN s = 1 .. m
      /\ n \in Nat /\ DOMAIN t = 1 .. n
      /\ DOMAIN r = 1 .. m + n
      /\ \A i \in 1 .. m + n : r[i] = IF i <= m THEN s[i] ELSE t[i - m]
  <2>1. /\ r \in Seq(T) /\ Len(r) = m + n
        /\ \A i \in 1 .. m + n : r[i] = IF i <= m THEN s[i] ELSE t[i - m]
    BY ConcatProperties
  <2>2. DOMAIN r = 1 .. Len(r)
    <3> HIDE DEF r
    <3> QED BY <2>1, LenProperties
  <2> HIDE DEF r
  <2> QED BY <2>1, <2>2, LenProperties
<1> HIDE DEF m, n, r
<1>2. R \cap U = A
  BY <1>1
<1>3. Cardinality(R \ U) = Cardinality(B)
  <2>1. \A j \in B : m + j \in R \ U
    <3> SUFFICES ASSUME NEW j \in 1 .. n, t[j] \in W PROVE m + j \in R \ U
      BY <1>1
    <3>1. m + j \in 1 .. m + n /\ ~ (m + j <= m) /\ (m + j) - m = j
      BY <1>1
    <3>2. r[m + j] = t[j]
      BY <1>1, <3>1
    <3> QED BY <1>1, <3>1, <3>2
  <2>2. g \in [B -> R \ U]
    <3> HIDE DEF R, U, B
    <3> QED BY <2>1
  <2>3. \A j, k \in B : g[j] = g[k] => j = k
    BY <1>1
  <2>4. \A i \in R \ U : \E j \in B : g[j] = i
    <3> SUFFICES ASSUME NEW i \in R \ U PROVE \E j \in B : g[j] = i
      OBVIOUS
    <3>1. i \in 1 .. m + n /\ ~ (i <= m) /\ r[i] \in W
      BY <1>1
    <3>2. i - m \in 1 .. n /\ m + (i - m) = i
      BY <1>1, <3>1
    <3>3. r[i] = t[i - m]
      BY <1>1, <3>1
    <3>4. i - m \in B
      BY <1>1, <3>1, <3>2, <3>3
    <3> QED BY <3>2, <3>4
  <2> HIDE DEF g
  <2> DEFINE V == R \ U
  <2> HIDE DEF V
  <2>5. g \in Bijection(B, V)
    <3> HIDE DEF B
    <3>1. g \in [B -> V] /\ \A i \in V : \E j \in B : g[j] = i
      BY <2>2, <2>4 DEF V
    <3> QED BY <2>3, <3>1 DEF Bijection, Injection, Surjection, IsInjective
  <2>6. ExistsBijection(B, V)
    BY <2>5 DEF ExistsBijection
  <2>7. IsFiniteSet(B)
    <3>1. B \in SUBSET (1 .. n)
      BY <1>1
    <3> HIDE DEF B
    <3> QED BY <1>1, <3>1, SomeOf
  <2>8. Cardinality(V) = Cardinality(B)
    <3> HIDE DEF B
    <3> QED BY <2>6, <2>7, FS_Bijection
  <2> QED BY <2>8 DEF V
<1>4. Cardinality(R) = Cardinality(R \cap U) + Cardinality(R \ U)
  <2>1. R \in SUBSET (1 .. m + n) /\ m + n \in Nat
    BY <1>1
  <2> HIDE DEF R, U
  <2> QED BY <2>1, SplitOf
<1> HIDE DEF R, A, B, U
<1> QED BY <1>2, <1>3, <1>4 DEF CountIn, R, A, B, r

LEMMA ListsJoin ==
  ASSUME NEW T, NEW s \in Seq(T), NEW t \in Seq(T), NEW X, NEW Y, NEW f,
         IsFiniteSet(X), IsFiniteSet(Y), X \cap Y = {}, Lists(s, X, f), Lists(t, Y, f)
  PROVE  Lists(s \o t, X \cup Y, f) /\ IsFiniteSet(X \cup Y)
<1> SUFFICES ASSUME NEW W
             PROVE  CountIn(s \o t, W) = Cardinality({x \in X \cup Y : f[x] \in W})
  BY FS_Union DEF Lists
<1> DEFINE A == {x \in X : f[x] \in W}
           B == {x \in Y : f[x] \in W}
<1>1. CountIn(s, W) = Cardinality(A) /\ CountIn(t, W) = Cardinality(B)
  BY DEF Lists
<1>2. {x \in X \cup Y : f[x] \in W} = A \cup B /\ A \cap B = {}
  OBVIOUS
<1>3. IsFiniteSet(A) /\ IsFiniteSet(B)
  BY FS_Subset
<1> HIDE DEF A, B
<1>4. Cardinality(A \cup B) = Cardinality(A) + Cardinality(B) - Cardinality(A \cap B)
  BY <1>3, FS_Union
<1>5. Cardinality(A \cap B) = 0
  BY <1>2, FS_EmptySet
<1>6. Cardinality(A) \in Nat /\ Cardinality(B) \in Nat
  BY <1>3, FS_CardinalityType
<1>7. Cardinality(A \cup B) = Cardinality(A) + Cardinality(B)
  BY <1>4, <1>5, <1>6
<1>8. CountIn(s \o t, W) = CountIn(s, W) + CountIn(t, W)
  BY ConcatCounts
<1>9. CountIn(s \o t, W) = Cardinality(A \cup B)
  BY <1>1, <1>7, <1>8
<1> QED BY <1>2, <1>9

\* The n sets of X apart from one another, listed one by one, and all together.
Listed(s, X, n, f) ==
  /\ \A i \in 1 .. n : IsFiniteSet(X[i]) /\ Lists(s[i], X[i], f)
  /\ \A i, j \in 1 .. n : i # j => X[i] \cap X[j] = {}

AllOf(X, n) == UNION {X[i] : i \in 1 .. n}

LEMMA ListsFlatten ==
  ASSUME NEW T, NEW n \in Nat, NEW s \in [1 .. n -> Seq(T)], NEW X, NEW f, Listed(s, X, n, f)
  PROVE  Lists(FlattenSeq(s), AllOf(X, n), f) /\ IsFiniteSet(AllOf(X, n))
<1> USE DEF Listed
<1> DEFINE g(k) == [i \in 1 .. k |-> s[i]]
           all(k) == UNION {X[i] : i \in 1 .. k}
           S == {k \in 0 .. n : Lists(FlattenSeq(g(k)), all(k), f) /\ IsFiniteSet(all(k))}
<1>1. 0 \in S
  <2>1. g(0) = << >> /\ all(0) = {}
    OBVIOUS
  <2> HIDE DEF g, all
  <2> QED BY <2>1, ListsNone, FlattenEmpty, FS_EmptySet
<1>2. ASSUME NEW k \in 1 .. n, k - 1 \in S
      PROVE  k \in S
  <2> DEFINE l == k - 1
  <2>1. l \in Nat /\ l + 1 = k /\ k \in 0 .. n /\ l \in 0 .. n
    OBVIOUS
  <2>2. Lists(FlattenSeq(g(l)), all(l), f) /\ IsFiniteSet(all(l))
    BY <1>2
  <2>3. FlattenSeq(g(k)) = FlattenSeq(g(l)) \o s[k]
    <3>1. g(k) \in [1 .. l + 1 -> Seq(T)]
      OBVIOUS
    <3>2. [i \in 1 .. l |-> g(k)[i]] = g(l) /\ g(k)[l + 1] = s[k]
      OBVIOUS
    <3> HIDE DEF g, l
    <3> QED BY <2>1, <3>1, <3>2, FlattenLast
  <2>4. FlattenSeq(g(l)) \in Seq(T)
    <3>1. g(l) \in [1 .. l -> Seq(T)]
      OBVIOUS
    <3> HIDE DEF g, l
    <3>2. g(l) \in Seq(Seq(T))
      BY <2>1, <3>1, IsSeq
    <3> QED BY <3>2, FlattenType
  <2>5. all(k) = all(l) \cup X[k]
    <3>1. \A i : i \in 1 .. k <=> i \in 1 .. l \/ i = k
      OBVIOUS
    <3> HIDE DEF l
    <3> QED BY <3>1
  <2>6. all(l) \cap X[k] = {}
    <3>1. \A i \in 1 .. l : i \in 1 .. n /\ i # k
      OBVIOUS
    <3> HIDE DEF l
    <3> QED BY <3>1
  <2>7. IsFiniteSet(X[k]) /\ Lists(s[k], X[k], f) /\ s[k] \in Seq(T)
    OBVIOUS
  <2> HIDE DEF g, all, l
  <2> DEFINE a == FlattenSeq(g(l))
             b == s[k]
             P == all(l)
             Q == X[k]
  <2>8. /\ a \in Seq(T) /\ b \in Seq(T) /\ IsFiniteSet(P) /\ IsFiniteSet(Q) /\ P \cap Q = {}
        /\ Lists(a, P, f) /\ Lists(b, Q, f)
    BY <2>2, <2>4, <2>6, <2>7
  <2> HIDE DEF a, b, P, Q
  <2>9. Lists(a \o b, P \cup Q, f) /\ IsFiniteSet(P \cup Q)
    BY <2>8, ListsJoin
  <2>10. Lists(FlattenSeq(g(k)), all(k), f) /\ IsFiniteSet(all(k))
    BY <2>3, <2>5, <2>9 DEF a, b, P, Q
  <2> QED BY <2>1, <2>10
<1>3. n \in S
  <2> HIDE DEF S
  <2>1. \A k \in 0 .. n : k \in S
    BY <1>1, <1>2, EveryUpTo
  <2> QED BY <2>1
<1>4. g(n) = s
  OBVIOUS
<1> HIDE DEF g
<1> QED BY <1>3, <1>4 DEF AllOf

-----------------------------------------------------------------------------
(* Where a node is.                                                        *)

LEMMA InsideDocument ==
  ASSUME NEW tree, Tree(tree)
  PROVE  \A k \in 1 .. Len(tree) : Descends(tree, k, 0)
<1> DEFINE S == {k \in Nat : k \in 1 .. Len(tree) => Descends(tree, k, 0)}
<1>1. ASSUME NEW k \in Nat, \A j \in 0 .. k - 1 : j \in S
      PROVE  k \in S
  <2> SUFFICES ASSUME k \in 1 .. Len(tree) PROVE Descends(tree, k, 0)
    OBVIOUS
  <2> DEFINE p == tree[k].parent
  <2>1. p \in 0 .. k - 1
    BY TreeIs
  <2>2. Descends(tree, k, 0) <=> Inside(tree, p, 0)
    BY DescendsIs
  <2> HIDE DEF p
  <2>3. p # 0 => p \in 1 .. Len(tree)
    <3>1. Len(tree) \in Nat
      BY TreeIs
    <3> QED BY <2>1, <3>1
  <2>4. p \in S
    BY <1>1, <2>1
  <2> QED BY <2>2, <2>3, <2>4 DEF Inside
<1>2. Nat \subseteq S
  <2> HIDE DEF S
  <2> QED BY <1>1, EveryNumber
<1>3. \A k \in 1 .. Len(tree) : k \in Nat
  OBVIOUS
<1> QED BY <1>2, <1>3

\* A child is not in another child, nor is its parent.
LEMMA KidsApart ==
  ASSUME NEW tree, Tree(tree), NEW n \in 0 .. Len(tree),
         NEW c \in DOMAIN Kids(tree, n), NEW d \in DOMAIN Kids(tree, n)
  PROVE  /\ ~ Descends(tree, Kids(tree, n)[c], Kids(tree, n)[d])
         /\ Kids(tree, n)[c] = Kids(tree, n)[d] => c = d
<1> DEFINE x == Kids(tree, n)[c]
           y == Kids(tree, n)[d]
<1>1. /\ x \in n + 1 .. Len(tree) /\ tree[x].parent = n
      /\ y \in n + 1 .. Len(tree)
      /\ Increasing(Kids(tree, n)) /\ Len(Kids(tree, n)) \in Nat
      /\ DOMAIN Kids(tree, n) = 1 .. Len(Kids(tree, n))
  BY KidsAre
<1>2. Len(tree) \in Nat
  BY TreeIs
<1>3. x = y => c = d
  <2>1. c \in Int /\ d \in Int /\ x \in Int /\ y \in Int
    BY <1>1
  <2>2. (c < d => x < y) /\ (d < c => y < x)
    BY <1>1 DEF Increasing
  <2> HIDE DEF x, y
  <2> QED BY <2>1, <2>2
<1> HIDE DEF x, y
<1>4. ~ Descends(tree, x, y)
  <2>1. x \in 1 .. Len(tree) /\ y \in Nat /\ ~ (y <= n)
    BY <1>1, <1>2
  <2>2. Descends(tree, x, y) <=> Inside(tree, n, y)
    BY <1>1, <2>1, DescendsIs
  <2>3. Inside(tree, n, y) => y <= n
    BY <2>1, DescendsBehind
  <2> QED BY <2>1, <2>2, <2>3
<1> QED BY <1>3, <1>4 DEF x, y

LEMMA OneKid ==
  ASSUME NEW tree, Tree(tree), NEW n \in 0 .. Len(tree),
         NEW c \in DOMAIN Kids(tree, n), NEW d \in DOMAIN Kids(tree, n),
         NEW k \in 1 .. Len(tree),
         Inside(tree, k, Kids(tree, n)[c]), Inside(tree, k, Kids(tree, n)[d])
  PROVE  c = d
<1> DEFINE x == Kids(tree, n)[c]
           y == Kids(tree, n)[d]
           S == {j \in Nat : j \in 1 .. Len(tree) /\ Inside(tree, j, x) /\ Inside(tree, j, y)
                               => c = d}
<1>1. ~ Descends(tree, x, y) /\ ~ Descends(tree, y, x) /\ (x = y => c = d)
  BY KidsApart
<1>2. Len(tree) \in Nat
  BY TreeIs
<1> HIDE DEF x, y
<1>3. ASSUME NEW j \in Nat, \A i \in 0 .. j - 1 : i \in S
      PROVE  j \in S
  <2> SUFFICES ASSUME j \in 1 .. Len(tree), Inside(tree, j, x), Inside(tree, j, y)
               PROVE  c = d
    OBVIOUS
  <2>1. CASE j = x \/ j = y
    BY <1>1, <2>1 DEF Inside
  <2>2. CASE j # x /\ j # y
    <3> DEFINE p == tree[j].parent
    <3>1. p \in 0 .. j - 1
      BY TreeIs
    <3>2. Inside(tree, p, x) /\ Inside(tree, p, y)
      BY <2>2, DescendsIs DEF Inside
    <3>3. p # 0
      <4>1. x # 0 /\ y # 0
        BY <1>2, KidsAre DEF x, y
      <4>2. ~ Descends(tree, 0, x)
        BY DescendsIs
      <4> QED BY <3>2, <4>1, <4>2 DEF Inside
    <3> HIDE DEF p
    <3>4. p \in 1 .. Len(tree)
      BY <1>2, <3>1, <3>3
    <3>5. p \in S
      BY <1>3, <3>1
    <3> QED BY <3>2, <3>4, <3>5
  <2> QED BY <2>1, <2>2
<1>4. Nat \subseteq S
  <2> HIDE DEF S
  <2> QED BY <1>3, EveryNumber
<1>5. k \in S
  <2> HIDE DEF S
  <2> QED BY <1>4
<1> QED BY <1>5 DEF x, y

LEMMA PathIs ==
  ASSUME Tree(nodes)
  PROVE  /\ PathTo(0) = << >>
         /\ \A n \in 1 .. Len(nodes) :
              PathTo(n) = Append(PathTo(nodes[n].parent), NodeKey(nodes[n]))
<1> DEFINE N == Len(nodes)
           D == 0 .. N
           V == Seq(KeysOf(nodes))
           e(g, j) == IF j = Document THEN << >>
                      ELSE Append(g[nodes[j].parent], NodeKey(nodes[j]))
           E == [g \in [D -> V] |-> [j \in D |-> e(g, j)]]
           measure == [j \in D |-> j]
<1>1. /\ N \in Nat /\ DOMAIN nodes = 1 .. N
      /\ \A k \in 1 .. N : nodes[k].parent \in 0 .. k - 1
  BY TreeIs
<1>2. \A k \in 1 .. N : NodeKey(nodes[k]) \in KeysOf(nodes) /\ nodes[k].parent \in D
                       /\ nodes[k].parent < k
  BY <1>1 DEF KeysOf
<1>3. << >> \in V
  BY EmptySeq
<1> HIDE DEF N
<1>4. \A j \in D : j = Document \/ j \in 1 .. N
  BY <1>1 DEF Document
<1>5. Determined(D, V, N, measure, E)
  <2>1. measure \in [D -> 0 .. N]
    OBVIOUS
  <2>2. \A g \in [D -> V], j \in D : e(g, j) \in V
    <3> SUFFICES ASSUME NEW g \in [D -> V], NEW j \in D PROVE e(g, j) \in V
      <4> HIDE DEF e, D, V
      <4> QED OBVIOUS
    <3>1. CASE j = Document
      BY <1>3, <3>1
    <3>2. CASE j # Document
      <4>1. j \in 1 .. N
        BY <1>4, <3>2
      <4> DEFINE k == NodeKey(nodes[j])
                 w == g[nodes[j].parent]
      <4>2. w \in V /\ k \in KeysOf(nodes)
        <5> HIDE DEF D, V
        <5> QED BY <1>2, <4>1
      <4>3. e(g, j) = Append(w, k)
        BY <3>2
      <4> HIDE DEF w, k, e
      <4> QED BY <4>2, <4>3, AppendProperties
    <3> QED BY <3>1, <3>2
  <2>3. E \in [[D -> V] -> [D -> V]]
    <3> HIDE DEF e, D, V
    <3> QED BY <2>2
  <2>4. \A j \in D : \A g, h \in [D -> V] :
          (\A i \in D : measure[i] < measure[j] => g[i] = h[i]) => E[g][j] = E[h][j]
    <3>1. ASSUME NEW j \in D, NEW g \in [D -> V], NEW h \in [D -> V],
                 \A i \in D : i < j => g[i] = h[i]
          PROVE  e(g, j) = e(h, j)
      <4>1. j # Document => g[nodes[j].parent] = h[nodes[j].parent]
        <5> HIDE DEF D, V
        <5> QED BY <1>2, <1>4, <3>1
      <4> QED BY <4>1
    <3> HIDE DEF e, V
    <3> QED BY <1>1, <3>1
  <2>5. V # {}
    BY <1>3
  <2> HIDE DEF D, E, measure, V
  <2> QED BY <1>1, <2>1, <2>3, <2>4, <2>5 DEF Determined
<1>6. PICK f0 \in [D -> V] : f0 = [j \in D |-> e(f0, j)]
  <2>1. \E f \in [D -> V] : f = E[f]
    <3> HIDE DEF D, E, measure, V
    <3> QED BY <1>1, <1>5, Recursion
  <2> HIDE DEF e, D, V
  <2> QED BY <2>1
<1> DEFINE path == CHOOSE f : f = [j \in D |-> e(f, j)]
<1>7. path = [j \in D |-> e(path, j)]
  <2> HIDE DEF e, D
  <2> QED BY <1>6
<1>8. \A n : PathTo(n) = path[n]
  BY DEF PathTo, N
<1>9. \A j \in D : path[j] = e(path, j)
  <2> HIDE DEF path, e, D
  <2>1. \A j \in D : [i \in D |-> e(path, i)][j] = e(path, j)
    OBVIOUS
  <2> QED BY <1>7, <2>1
<1> HIDE DEF path
<1>10. 0 \in D /\ \A n \in 1 .. N : n \in D /\ n # 0
  BY <1>1
<1> HIDE DEF D
<1>11. PathTo(0) = << >>
  BY <1>8, <1>9, <1>10 DEF Document
<1>12. \A n \in 1 .. N : PathTo(n) = Append(PathTo(nodes[n].parent), NodeKey(nodes[n]))
  BY <1>8, <1>9, <1>10 DEF Document
<1> QED BY <1>11, <1>12 DEF N

-----------------------------------------------------------------------------
(* The runs among some neighbours.                                         *)

\* From i to j all is equal, and neither neighbour of them is.
IsRun(s, i, j) ==
  /\ i < j
  /\ \A m \in i .. j : s[m] = s[i]
  /\ i = 1 \/ s[i - 1] # s[i]
  /\ j = Len(s) \/ s[j + 1] # s[i]

\* Whether a run ends at j, as the folding asks.
Closes(s, j) == RunEnds(s, j) /\ ~RunStarts(s, j)

\* The start found by looking back for the last one is the start of the run.
LEMMA RunIsClosed ==
  ASSUME NEW n \in Nat, NEW s, Len(s) = n, DOMAIN s = 1 .. n,
         NEW i \in 1 .. n, NEW j \in 1 .. n, IsRun(s, i, j)
  PROVE  Closes(s, j) /\ RunLength(s, j) = 1 + j - i
<1> DEFINE S == {l \in 1 .. j : RunStarts(s, l)}
<1>1. i < j /\ i \in 1 .. j
  BY DEF IsRun
<1>2. i \in S
  BY <1>1 DEF IsRun, RunStarts
<1>3. \A l \in S : l <= i
  <2> SUFFICES ASSUME NEW l \in 1 .. j, RunStarts(s, l), ~ (l <= i) PROVE FALSE
    OBVIOUS
  <2>1. l \in i .. j /\ l - 1 \in i .. j /\ l # 1
    BY <1>1
  <2>2. s[l] = s[i] /\ s[l - 1] = s[i]
    BY <2>1 DEF IsRun
  <2> QED BY <2>1, <2>2 DEF RunStarts
<1>4. Max(S) = i
  <2>1. S \subseteq Int
    OBVIOUS
  <2> HIDE DEF S
  <2>2. \A x \in S : (\A y \in S : x >= y) <=> x = i
    BY <1>1, <1>2, <1>3, <2>1
  <2> QED BY <1>2, <2>2 DEF Max
<1>5. RunLength(s, j) = 1 + j - i
  BY <1>4 DEF RunLength
<1>6. ~ RunStarts(s, j)
  BY <1>1, <1>3
<1>7. RunEnds(s, j)
  <2>1. CASE j = Len(s)
    BY <2>1 DEF RunEnds
  <2>2. CASE s[j + 1] # s[i]
    <3>1. s[j] = s[i] /\ (j + 1) - 1 = j
      BY <1>1 DEF IsRun
    <3> QED BY <2>2, <3>1 DEF RunEnds, RunStarts
  <2> QED BY <2>1, <2>2 DEF IsRun
<1> QED BY <1>5, <1>6, <1>7 DEF Closes

\* And where the folding sees a run end, one does.
LEMMA ClosedIsRun ==
  ASSUME NEW n \in Nat, NEW s, Len(s) = n, DOMAIN s = 1 .. n,
         NEW j \in 1 .. n, Closes(s, j)
  PROVE  \E i \in 1 .. n : IsRun(s, i, j)
<1> DEFINE S == {l \in 1 .. j : RunStarts(s, l)}
<1>1. PICK i \in S : \A l \in S : l <= i
  <2>1. 1 \in S
    BY DEF RunStarts
  <2>2. S \in SUBSET (1 .. j) /\ j \in Nat
    OBVIOUS
  <2> HIDE DEF S
  <2> QED BY <2>1, <2>2, LastExists
<1>2. i \in 1 .. j /\ i # j /\ i \in 1 .. n /\ RunStarts(s, i)
  BY DEF Closes
<1>3. \A l \in i + 1 .. j : s[l] = s[l - 1]
  <2> SUFFICES ASSUME NEW l \in i + 1 .. j, s[l] # s[l - 1] PROVE FALSE
    OBVIOUS
  <2>1. l \in 1 .. j /\ ~ (l <= i)
    BY <1>2
  <2>2. l \in S
    BY <2>1 DEF RunStarts
  <2> HIDE DEF S
  <2> QED BY <1>1, <2>1, <2>2
<1>4. \A m \in i .. j : s[m] = s[i]
  <2> DEFINE d == j - i
             T == {k \in 0 .. d : s[i + k] = s[i]}
  <2>1. d \in Nat /\ 0 \in T
    BY <1>2
  <2>2. ASSUME NEW k \in 1 .. d, k - 1 \in T
        PROVE  k \in T
    <3>1. i + k \in i + 1 .. j /\ (i + k) - 1 = i + (k - 1) /\ k \in 0 .. d
      BY <1>2
    <3>2. s[i + k] = s[i + (k - 1)]
      <4> DEFINE l == i + k
      <4> HIDE DEF l
      <4>1. s[l] = s[l - 1]
        BY <1>3, <3>1 DEF l
      <4> QED BY <3>1, <4>1 DEF l
    <3>3. s[i + (k - 1)] = s[i]
      BY <2>2
    <3> QED BY <3>1, <3>2, <3>3
  <2>3. \A k \in 0 .. d : k \in T
    <3> HIDE DEF T, d
    <3> QED BY <2>1, <2>2, EveryUpTo
  <2>4. \A m \in i .. j : m - i \in 0 .. d /\ i + (m - i) = m
    BY <1>2
  <2>5. \A k \in 0 .. d : s[i + k] = s[i]
    BY <2>3
  <2> HIDE DEF d, T
  <2> SUFFICES ASSUME NEW m \in i .. j PROVE s[m] = s[i]
    OBVIOUS
  <2> DEFINE k == m - i
  <2>6. k \in 0 .. d /\ i + k = m
    BY <2>4
  <2> HIDE DEF k
  <2> QED BY <2>5, <2>6
<1>5. j = Len(s) \/ s[j + 1] # s[i]
  <2>1. s[j] = s[i]
    BY <1>2, <1>4
  <2>2. (j + 1) - 1 = j /\ j + 1 # 1
    OBVIOUS
  <2> QED BY <2>1, <2>2 DEF Closes, RunEnds, RunStarts
<1>6. i < j
  BY <1>2
<1> QED BY <1>2, <1>4, <1>5, <1>6 DEF IsRun, RunStarts

\* Runs are the same where the same is equal.
LEMMA RunsAlike ==
  ASSUME NEW n \in Nat, NEW B, NEW s,
         Len(B) = n, DOMAIN B = 1 .. n, Len(s) = n, DOMAIN s = 1 .. n,
         \A i, j \in 1 .. n : B[i] = B[j] <=> s[i] = s[j],
         NEW i \in 1 .. n, NEW j \in 1 .. n
  PROVE  IsRun(B, i, j) <=> IsRun(s, i, j)
<1>1. \A m \in i .. j : m \in 1 .. n
  OBVIOUS
<1>2. (\A m \in i .. j : B[m] = B[i]) <=> (\A m \in i .. j : s[m] = s[i])
  BY <1>1
<1>3. i # 1 => i - 1 \in 1 .. n
  OBVIOUS
<1>4. j # n => j + 1 \in 1 .. n
  OBVIOUS
<1>5. (i = 1 \/ B[i - 1] # B[i]) <=> (i = 1 \/ s[i - 1] # s[i])
  BY <1>3
<1>6. (j = n \/ B[j + 1] # B[i]) <=> (j = n \/ s[j + 1] # s[i])
  BY <1>4
<1> QED BY <1>2, <1>5, <1>6 DEF IsRun

-----------------------------------------------------------------------------
(* The runs of a page.                                                     *)

RunFrom(n, i, j) == [first |-> Kids(nodes, n)[i], length |-> 1 + j - i]

\* The runs among the children of n that end at the j-th, and those inside n.
RunsTo(n, j) ==
  {RunFrom(n, i, j) : i \in {k \in DOMAIN Kids(nodes, n) : IsRun(KidsShapes(nodes, n), k, j)}}

RunsIn(n) == {r \in EqualRuns : Descends(nodes, r.first, n)}

AsCounted == [r \in EqualRuns |-> <<PathTo(r.first), r.length>>]

LEMMA EqualRunsAre ==
  ASSUME Tree(nodes)
  PROVE  EqualRuns = UNION {UNION {RunsTo(n, j) : j \in DOMAIN Kids(nodes, n)} :
                              n \in 0 .. Len(nodes)}
<1> DEFINE kids(n)     == Kids(nodes, n)
           shape(n, i) == ShapeOf(nodes, kids(n)[i])
           isRun(n, i, j) ==
             /\ i < j
             /\ \A m \in i .. j : shape(n, m) = shape(n, i)
             /\ i = 1 \/ shape(n, i - 1) # shape(n, i)
             /\ j = Len(kids(n)) \/ shape(n, j + 1) # shape(n, i)
           runsOf(n) == {r \in (DOMAIN kids(n)) \X (DOMAIN kids(n)) : isRun(n, r[1], r[2])}
           made(n)   == {RunFrom(n, r[1], r[2]) : r \in runsOf(n)}
           all       == 0 .. Len(nodes)
<1>1. all = DOMAIN nodes \cup {Document}
  <2>1. Len(nodes) \in Nat /\ DOMAIN nodes = 1 .. Len(nodes)
    BY TreeIs
  <2> QED BY <2>1 DEF Document
<1>2. EqualRuns = UNION {made(n) : n \in all}
  <2>1. EqualRuns = UNION {made(n) : n \in DOMAIN nodes \cup {Document}}
    BY DEF EqualRuns, RunFrom
  <2> HIDE DEF made, all
  <2> QED BY <1>1, <2>1
<1>3. ASSUME NEW n \in all
      PROVE  made(n) = UNION {RunsTo(n, j) : j \in DOMAIN kids(n)}
  <2>1. /\ Len(kids(n)) \in Nat /\ DOMAIN kids(n) = 1 .. Len(kids(n))
        /\ Len(KidsShapes(nodes, n)) = Len(kids(n))
    <3> DEFINE none == << >>
    <3>1. none \in Seq(KeysOf(nodes))
      BY EmptySeq
    <3> HIDE DEF none
    <3> QED BY <3>1, KidsBlocks
  <2> DEFINE L == Len(kids(n))
             s == KidsShapes(nodes, n)
  <2>2. \A c \in 1 .. L : s[c] = shape(n, c)
    BY <2>1 DEF KidsShapes
  <2>3. ASSUME NEW i \in 1 .. L, NEW j \in 1 .. L
        PROVE  isRun(n, i, j) <=> IsRun(s, i, j)
    <3>1. L \in Nat /\ Len(s) = L
      BY <2>1
    <3> HIDE DEF L, s, shape
    <3>2. \A m \in i .. j : m \in 1 .. L
      BY <3>1
    <3>3. i # 1 => i - 1 \in 1 .. L
      BY <3>1
    <3>4. j # L => j + 1 \in 1 .. L
      BY <3>1
    <3>5. (\A m \in i .. j : s[m] = s[i]) <=> (\A m \in i .. j : shape(n, m) = shape(n, i))
      BY <2>2, <3>2
    <3>6. (i = 1 \/ s[i - 1] # s[i]) <=> (i = 1 \/ shape(n, i - 1) # shape(n, i))
      BY <2>2, <3>3
    <3>7. (j = L \/ s[j + 1] # s[i]) <=> (j = L \/ shape(n, j + 1) # shape(n, i))
      BY <2>2, <3>4
    <3> QED BY <3>1, <3>5, <3>6, <3>7 DEF IsRun, L
  <2>4. DOMAIN kids(n) = 1 .. L
    BY <2>1
  <2> HIDE DEF L, s, isRun, kids
  <2>5. \A r : r \in made(n) <=> \E i, j \in 1 .. L : IsRun(s, i, j) /\ r = RunFrom(n, i, j)
    <3>1. \A r : r \in made(n) <=>
                   \E p \in (1 .. L) \X (1 .. L) : isRun(n, p[1], p[2]) /\ r = RunFrom(n, p[1], p[2])
      BY <2>4
    <3>2. \A r : (\E p \in (1 .. L) \X (1 .. L) : isRun(n, p[1], p[2]) /\ r = RunFrom(n, p[1], p[2]))
                   <=> \E i, j \in 1 .. L : isRun(n, i, j) /\ r = RunFrom(n, i, j)
      <4> SUFFICES ASSUME NEW r
                   PROVE  (\E p \in (1 .. L) \X (1 .. L) :
                             isRun(n, p[1], p[2]) /\ r = RunFrom(n, p[1], p[2]))
                            <=> \E i, j \in 1 .. L : isRun(n, i, j) /\ r = RunFrom(n, i, j)
        OBVIOUS
      <4>1. ASSUME NEW p \in (1 .. L) \X (1 .. L),
                   isRun(n, p[1], p[2]) /\ r = RunFrom(n, p[1], p[2])
            PROVE  \E i, j \in 1 .. L : isRun(n, i, j) /\ r = RunFrom(n, i, j)
        <5>1. p[1] \in 1 .. L /\ p[2] \in 1 .. L
          OBVIOUS
        <5> QED BY <4>1, <5>1
      <4>2. ASSUME NEW i \in 1 .. L, NEW j \in 1 .. L, isRun(n, i, j) /\ r = RunFrom(n, i, j)
            PROVE  \E p \in (1 .. L) \X (1 .. L) :
                     isRun(n, p[1], p[2]) /\ r = RunFrom(n, p[1], p[2])
        <5> DEFINE p == <<i, j>>
        <5>1. p \in (1 .. L) \X (1 .. L) /\ p[1] = i /\ p[2] = j
          OBVIOUS
        <5> HIDE DEF p
        <5> QED BY <4>2, <5>1
      <4> QED BY <4>1, <4>2
    <3> HIDE DEF made
    <3> QED BY <2>3, <3>1, <3>2
  <2>6. \A r : r \in UNION {RunsTo(n, j) : j \in DOMAIN kids(n)} <=>
                 \E i, j \in 1 .. L : IsRun(s, i, j) /\ r = RunFrom(n, i, j)
    <3>1. \A j : \A r : r \in RunsTo(n, j) <=>
                   \E i \in 1 .. L : IsRun(s, i, j) /\ r = RunFrom(n, i, j)
      BY <2>4 DEF RunsTo, s, kids
    <3> QED BY <2>4, <3>1
  <2> HIDE DEF made
  <2> QED BY <2>5, <2>6
<1> HIDE DEF made, all
<1>4. UNION {made(n) : n \in all} =
        UNION {UNION {RunsTo(n, j) : j \in DOMAIN kids(n)} : n \in all}
  BY <1>3
<1> QED BY <1>2, <1>4 DEF all

LEMMA RunFromIs ==
  ASSUME Tree(nodes), NEW n \in 0 .. Len(nodes), NEW j \in DOMAIN Kids(nodes, n),
         NEW r \in RunsTo(n, j)
  PROVE  /\ r \in EqualRuns
         /\ \E i \in DOMAIN Kids(nodes, n) :
              IsRun(KidsShapes(nodes, n), i, j) /\ r = RunFrom(n, i, j)
<1>1. r \in EqualRuns
  BY EqualRunsAre
<1> QED BY <1>1 DEF RunsTo

\* What is in a node is in one of its children, or ends at one of them.
LEMMA RunsSplit ==
  ASSUME Tree(nodes), NEW n \in 0 .. Len(nodes)
  PROVE  RunsIn(n) = UNION {RunsIn(Kids(nodes, n)[j]) \cup RunsTo(n, j) :
                              j \in 1 .. Len(Kids(nodes, n))}
<1> DEFINE kid(c) == Kids(nodes, n)[c]
           L == Len(Kids(nodes, n))
           N == Len(nodes)
<1>1. DOMAIN Kids(nodes, n) = 1 .. L /\ L \in Nat /\ N \in Nat
  BY KidsAre, TreeIs
<1>2. \A m \in 0 .. N : \A c \in DOMAIN Kids(nodes, m) :
        /\ Kids(nodes, m)[c] \in 1 .. N
        /\ nodes[Kids(nodes, m)[c]].parent = m
  <2> SUFFICES ASSUME NEW m \in 0 .. N, NEW c \in DOMAIN Kids(nodes, m)
               PROVE  /\ Kids(nodes, m)[c] \in 1 .. N
                      /\ nodes[Kids(nodes, m)[c]].parent = m
    OBVIOUS
  <2>1. Kids(nodes, m)[c] \in m + 1 .. N /\ nodes[Kids(nodes, m)[c]].parent = m
    BY KidsAre
  <2> QED BY <1>1, <2>1
<1> HIDE DEF L, N
<1>3. ASSUME NEW r \in RunsIn(n)
      PROVE  \E j \in 1 .. L : r \in RunsIn(kid(j)) \cup RunsTo(n, j)
  <2>1. r \in EqualRuns /\ Descends(nodes, r.first, n)
    BY DEF RunsIn
  <2>2. PICK m \in 0 .. N : \E j \in DOMAIN Kids(nodes, m) : r \in RunsTo(m, j)
    BY <2>1, EqualRunsAre DEF N
  <2>3. PICK j \in DOMAIN Kids(nodes, m) : r \in RunsTo(m, j)
    BY <2>2
  <2>4. PICK i \in DOMAIN Kids(nodes, m) : r = RunFrom(m, i, j)
    BY <2>3 DEF RunsTo
  <2>5. r.first = Kids(nodes, m)[i]
    BY <2>4 DEF RunFrom
  <2>6. r.first \in 1 .. N /\ nodes[r.first].parent = m
    BY <1>2, <2>5
  <2>7. Inside(nodes, m, n)
    BY <2>1, <2>6, DescendsIs DEF N
  <2>8. CASE m = n
    BY <1>1, <2>3, <2>8
  <2>9. CASE m # n
    <3>1. Descends(nodes, m, n)
      BY <2>7, <2>9 DEF Inside
    <3>2. PICK c \in DOMAIN Kids(nodes, n) : Inside(nodes, m, Kids(nodes, n)[c])
      BY <3>1, DescendsByChild DEF N
    <3>3. Descends(nodes, r.first, kid(c))
      BY <2>6, <3>2, DescendsIs DEF N
    <3>4. r \in RunsIn(kid(c))
      BY <2>1, <3>3 DEF RunsIn
    <3> QED BY <1>1, <3>4
  <2> QED BY <2>8, <2>9
<1>4. ASSUME NEW j \in 1 .. L, NEW r \in RunsIn(kid(j)) \cup RunsTo(n, j)
      PROVE  r \in RunsIn(n)
  <2>1. j \in DOMAIN Kids(nodes, n)
    BY <1>1
  <2>2. CASE r \in RunsIn(kid(j))
    <3>1. r \in EqualRuns /\ Descends(nodes, r.first, kid(j))
      BY <2>2 DEF RunsIn
    <3>2. r.first \in 0 .. N
      <4>1. PICK m \in 0 .. N : \E c \in DOMAIN Kids(nodes, m) : r \in RunsTo(m, c)
        BY <3>1, EqualRunsAre DEF N
      <4>2. PICK i \in DOMAIN Kids(nodes, m) : \E c : r = RunFrom(m, i, c)
        BY <4>1 DEF RunsTo
      <4>3. r.first = Kids(nodes, m)[i]
        BY <4>2 DEF RunFrom
      <4>4. r.first \in 1 .. N
        BY <1>2, <4>3
      <4> QED BY <4>4
    <3>3. Inside(nodes, r.first, kid(j))
      BY <3>1 DEF Inside
    <3>4. Descends(nodes, r.first, n)
      BY <2>1, <3>2, <3>3, DescendsByChild DEF N
    <3> QED BY <3>1, <3>4 DEF RunsIn
  <2>3. CASE r \in RunsTo(n, j)
    <3>1. r \in EqualRuns
      BY <2>1, <2>3, RunFromIs
    <3>2. PICK i \in DOMAIN Kids(nodes, n) : r = RunFrom(n, i, j)
      BY <2>3 DEF RunsTo
    <3>3. r.first = Kids(nodes, n)[i]
      BY <3>2 DEF RunFrom
    <3>4. r.first \in 1 .. N /\ nodes[r.first].parent = n
      BY <1>2, <3>3 DEF N
    <3>5. Descends(nodes, r.first, n)
      BY <3>4, DescendsIs DEF Inside, N
    <3> QED BY <3>1, <3>5 DEF RunsIn
  <2> QED BY <2>2, <2>3
<1> HIDE DEF kid
<1>5. RunsIn(n) = UNION {RunsIn(kid(j)) \cup RunsTo(n, j) : j \in 1 .. L}
  BY <1>3, <1>4
<1> QED BY <1>5 DEF kid, L

LEMMA RunsApart ==
  ASSUME Tree(nodes), NEW n \in 0 .. Len(nodes),
         NEW c \in DOMAIN Kids(nodes, n), NEW d \in DOMAIN Kids(nodes, n)
  PROVE  /\ RunsIn(Kids(nodes, n)[c]) \cap RunsTo(n, d) = {}
         /\ c # d => /\ RunsIn(Kids(nodes, n)[c]) \cap RunsIn(Kids(nodes, n)[d]) = {}
                     /\ RunsTo(n, c) \cap RunsTo(n, d) = {}
<1> DEFINE kid(i) == Kids(nodes, n)[i]
<1>1. ASSUME NEW r \in RunsIn(kid(c)), r \in RunsTo(n, d)
      PROVE  FALSE
  <2>1. Descends(nodes, r.first, kid(c))
    BY DEF RunsIn
  <2>2. PICK i \in DOMAIN Kids(nodes, n) : r = RunFrom(n, i, d)
    BY <1>1 DEF RunsTo
  <2>3. r.first = kid(i)
    BY <2>2 DEF RunFrom
  <2>4. ~ Descends(nodes, kid(i), kid(c))
    BY KidsApart
  <2> QED BY <2>1, <2>3, <2>4
<1>2. ASSUME NEW r \in RunsIn(kid(c)), r \in RunsIn(kid(d))
      PROVE  c = d
  <2>1. /\ r \in EqualRuns
        /\ Inside(nodes, r.first, kid(c)) /\ Inside(nodes, r.first, kid(d))
    BY <1>2 DEF RunsIn, Inside
  <2>2. r.first \in 1 .. Len(nodes)
    <3>1. PICK m \in 0 .. Len(nodes) : \E j \in DOMAIN Kids(nodes, m) : r \in RunsTo(m, j)
      BY <2>1, EqualRunsAre
    <3>2. PICK i \in DOMAIN Kids(nodes, m) : \E j : r = RunFrom(m, i, j)
      BY <3>1 DEF RunsTo
    <3>3. r.first = Kids(nodes, m)[i]
      BY <3>2 DEF RunFrom
    <3>4. Kids(nodes, m)[i] \in m + 1 .. Len(nodes) /\ Len(nodes) \in Nat
      BY KidsAre, TreeIs
    <3> DEFINE k == Kids(nodes, m)[i]
    <3> HIDE DEF k
    <3>5. k \in 1 .. Len(nodes)
      BY <3>4 DEF k
    <3> QED BY <3>3, <3>5 DEF k
  <2> QED BY <2>1, <2>2, OneKid
<1>3. ASSUME NEW r \in RunsTo(n, c), r \in RunsTo(n, d)
      PROVE  c = d
  <2>1. PICK i \in DOMAIN Kids(nodes, n) : r = RunFrom(n, i, c)
    BY <1>3 DEF RunsTo
  <2>2. PICK j \in DOMAIN Kids(nodes, n) : r = RunFrom(n, j, d)
    BY <1>3 DEF RunsTo
  <2>3. kid(i) = kid(j) /\ 1 + c - i = 1 + d - j
    BY <2>1, <2>2 DEF RunFrom
  <2>4. i = j
    BY <2>3, KidsApart
  <2>5. DOMAIN Kids(nodes, n) \subseteq Int
    BY KidsAre
  <2> QED BY <2>3, <2>4, <2>5
<1> QED BY <1>1, <1>2, <1>3

\* What RunCounts adds at the j-th child of n, below some parents.
RunTail(n, above, j) ==
  IF Closes(KidsLines(nodes, n, above), j)
  THEN << <<KidsPaths(nodes, n, above)[j], RunLength(KidsLines(nodes, n, above), j)>> >>
  ELSE << >>

\* The lines of the children repeat where the children do.
LEMMA LinesRepeat ==
  ASSUME Tree(nodes), NEW n \in 0 .. Len(nodes), NEW above \in Seq(KeysOf(nodes)),
         NEW i \in 1 .. Len(Kids(nodes, n)), NEW j \in 1 .. Len(Kids(nodes, n))
  PROVE  KidsLines(nodes, n, above)[i] = KidsLines(nodes, n, above)[j] <=>
           KidsShapes(nodes, n)[i] = KidsShapes(nodes, n)[j]
<1> DEFINE W == {nodes}
           path == PathOf(nodes, n, above)
           x == Kids(nodes, n)[i]
           y == Kids(nodes, n)[j]
<1>1. /\ path \in Seq(KeysOf(nodes))
      /\ x \in n + 1 .. Len(nodes) /\ y \in n + 1 .. Len(nodes)
      /\ KidsLines(nodes, n, above)[i] = Subtree(nodes, x, path).lines
      /\ KidsLines(nodes, n, above)[j] = Subtree(nodes, y, path).lines
      /\ KidsShapes(nodes, n)[i] = ShapeOf(nodes, x)
      /\ KidsShapes(nodes, n)[j] = ShapeOf(nodes, y)
  BY KidsBlocks
<1>2. Len(nodes) \in Nat
  BY TreeIs
<1>3. \A t \in W : Tree(t)
  OBVIOUS
<1> HIDE DEF path, x, y
<1>4. x \in 1 .. Len(nodes) /\ y \in 1 .. Len(nodes)
  BY <1>1, <1>2
<1>5. nodes \in W
  OBVIOUS
<1> HIDE DEF W
<1>6. \A t, u \in W : \A k \in 1 .. Len(t), m \in 1 .. Len(u) :
        \A a \in Seq(KeysOf(t)), b \in Seq(KeysOf(u)) :
          Len(a) = Len(b) =>
            (Subtree(t, k, a).lines = Subtree(u, m, b).lines <=> ShapeOf(t, k) = ShapeOf(u, m))
  BY <1>3, LinesTellShapes
<1>7. Subtree(nodes, x, path).lines = Subtree(nodes, y, path).lines <=>
        ShapeOf(nodes, x) = ShapeOf(nodes, y)
  BY <1>1, <1>4, <1>5, <1>6
<1> QED BY <1>1, <1>7

\* It adds the run that ends there, if one does, by the path of its first element.
LEMMA TailLists ==
  ASSUME Tree(nodes), NEW n \in 0 .. Len(nodes), NEW above \in Seq(KeysOf(nodes)),
         PathOf(nodes, n, above) = PathTo(n), NEW j \in 1 .. Len(Kids(nodes, n))
  PROVE  Lists(RunTail(n, above, j), RunsTo(n, j), AsCounted) /\ IsFiniteSet(RunsTo(n, j))
<1> DEFINE L == Len(Kids(nodes, n))
           B == KidsLines(nodes, n, above)
           s == KidsShapes(nodes, n)
           kid(i) == Kids(nodes, n)[i]
<1>1. /\ L \in Nat /\ DOMAIN Kids(nodes, n) = 1 .. L
      /\ Len(B) = L /\ DOMAIN B = 1 .. L /\ Len(s) = L /\ DOMAIN s = 1 .. L
      /\ \A i \in 1 .. L : kid(i) \in n + 1 .. Len(nodes) /\ s[i] = ShapeOf(nodes, kid(i))
  BY KidsBlocks
<1>2. \A i, k \in 1 .. L : B[i] = B[k] <=> s[i] = s[k]
  BY LinesRepeat
<1>3. j \in 1 .. L
  OBVIOUS
<1>4. \A r : r \in RunsTo(n, j) <=> \E i \in 1 .. L : IsRun(s, i, j) /\ r = RunFrom(n, i, j)
  BY <1>1 DEF RunsTo
<1>5. \A i \in 1 .. L : IsRun(B, i, j) <=> IsRun(s, i, j)
  <2> HIDE DEF L, B, s
  <2> QED BY <1>1, <1>2, <1>3, RunsAlike
<1>6. CASE ~ Closes(B, j)
  <2>1. \A i \in 1 .. L : ~ IsRun(B, i, j)
    <3> HIDE DEF L, B
    <3> QED BY <1>1, <1>3, <1>6, RunIsClosed
  <2>2. RunsTo(n, j) = {}
    <3> HIDE DEF L, B, s
    <3> QED BY <1>4, <1>5, <2>1
  <2>3. RunTail(n, above, j) = << >>
    BY <1>6 DEF RunTail
  <2> QED BY <2>2, <2>3, ListsNone, FS_EmptySet
<1>7. CASE Closes(B, j)
  <2>1. PICK i \in 1 .. L : IsRun(B, i, j)
    <3> HIDE DEF L, B
    <3> QED BY <1>1, <1>3, <1>7, ClosedIsRun
  <2>2. RunLength(B, j) = 1 + j - i
    <3> HIDE DEF L, B
    <3> QED BY <1>1, <1>3, <2>1, RunIsClosed
  <2> DEFINE r == RunFrom(n, i, j)
  <2>3. \A k \in 1 .. L : IsRun(B, k, j) => k = i
    <3> SUFFICES ASSUME NEW k \in 1 .. L, IsRun(B, k, j) PROVE k = i
      OBVIOUS
    <3>1. RunLength(B, j) = 1 + j - k
      <4> HIDE DEF L, B
      <4> QED BY <1>1, <1>3, RunIsClosed
    <3> HIDE DEF B
    <3> QED BY <1>1, <2>2, <3>1
  <2>4. RunsTo(n, j) = {r}
    <3> HIDE DEF L, B, s
    <3> QED BY <1>4, <1>5, <2>1, <2>3
  <2>5. r \in EqualRuns
    <3>1. r \in RunsTo(n, j) /\ j \in DOMAIN Kids(nodes, n)
      BY <1>1, <2>4
    <3> HIDE DEF r
    <3> QED BY <3>1, RunFromIs
  <2>6. AsCounted[r] = <<PathTo(kid(i)), 1 + j - i>>
    <3>1. r.first = kid(i) /\ r.length = 1 + j - i
      BY DEF RunFrom
    <3> HIDE DEF r, kid
    <3>2. AsCounted[r] = <<PathTo(r.first), r.length>>
      BY <2>5 DEF AsCounted
    <3> QED BY <3>1, <3>2
  <2>7. PathTo(kid(i)) = KidsPaths(nodes, n, above)[j]
    <3> DEFINE x == kid(i)
               y == kid(j)
    <3>1. x \in 1 .. Len(nodes) /\ y \in 1 .. Len(nodes) /\ x \in 0 .. Len(nodes)
          /\ y \in 0 .. Len(nodes)
      <4>1. Len(nodes) \in Nat /\ x \in n + 1 .. Len(nodes) /\ y \in n + 1 .. Len(nodes)
        BY <1>1, <1>3, TreeIs
      <4> HIDE DEF x, y
      <4> QED BY <4>1
    <3>2. nodes[x].parent = n
      BY <1>1, KidsAre
    <3>3. ShapeOf(nodes, x) = ShapeOf(nodes, y)
      <4>1. s[j] = s[i]
        <5>1. IsRun(s, i, j)
          BY <1>5, <2>1
        <5>2. j \in i .. j
          BY <5>1 DEF IsRun
        <5> HIDE DEF s
        <5> QED BY <5>1, <5>2 DEF IsRun
      <4> QED BY <1>1, <1>3, <4>1
    <3>4. KidsPaths(nodes, n, above)[j] = Append(PathTo(n), NodeKey(nodes[y]))
      BY <1>1 DEF KidsPaths
    <3> HIDE DEF x, y
    <3>5. OwnShape(nodes, x) = OwnShape(nodes, y)
      <4>1. /\ ShapeOf(nodes, x) = <<OwnShape(nodes, x), Shaped(KidsShapes(nodes, x))>>
            /\ ShapeOf(nodes, y) = <<OwnShape(nodes, y), Shaped(KidsShapes(nodes, y))>>
        BY <3>1, ShapeIs
      <4> DEFINE p == <<OwnShape(nodes, x), Shaped(KidsShapes(nodes, x))>>
                 q == <<OwnShape(nodes, y), Shaped(KidsShapes(nodes, y))>>
      <4>2. p = q
        BY <3>3, <4>1
      <4>3. p[1] = OwnShape(nodes, x) /\ q[1] = OwnShape(nodes, y)
        OBVIOUS
      <4> HIDE DEF p, q
      <4> QED BY <4>2, <4>3
    <3>6. NodeKey(nodes[x]) = NodeKey(nodes[y])
      <4> DEFINE a == NodeKey(nodes[x])
                 b == NodeKey(nodes[y])
      <4>1. OwnShape(nodes, x) = <<a>> /\ OwnShape(nodes, y) = <<b>>
        BY <3>1 DEF OwnShape, Document
      <4> HIDE DEF a, b
      <4>2. <<a>> = <<b>>
        BY <3>5, <4>1
      <4>3. a = b
        BY <4>2
      <4> QED BY <4>3 DEF a, b
    <3>7. PathTo(x) = Append(PathTo(n), NodeKey(nodes[x]))
      BY <3>1, <3>2, PathIs
    <3> QED BY <3>4, <3>6, <3>7 DEF x
  <2>8. RunTail(n, above, j) = <<AsCounted[r]>>
    <3>1. RunTail(n, above, j) = << <<KidsPaths(nodes, n, above)[j], RunLength(B, j)>> >>
      BY <1>7 DEF RunTail
    <3> HIDE DEF r, B, kid
    <3> QED BY <2>2, <2>6, <2>7, <3>1
  <2> HIDE DEF r
  <2> QED BY <2>4, <2>8, ListsOne, FS_Singleton
<1> QED BY <1>6, <1>7

\* The counts of a node list the runs inside it.
LEMMA CountsListRuns ==
  ASSUME Tree(nodes)
  PROVE  \A n \in 0 .. Len(nodes) : \A above \in Seq(KeysOf(nodes)) :
           PathOf(nodes, n, above) = PathTo(n) =>
             /\ IsFiniteSet(RunsIn(n))
             /\ Lists(Subtree(nodes, n, above).counts, RunsIn(n), AsCounted)
<1> DEFINE N == Len(nodes)
           C == CountsOf(nodes)
           keys == KeysOf(nodes)
           Right(n) == \A above \in Seq(keys) :
             PathOf(nodes, n, above) = PathTo(n) =>
               /\ IsFiniteSet(RunsIn(n))
               /\ Lists(Subtree(nodes, n, above).counts, RunsIn(n), AsCounted)
           S == {d \in Nat : \A n \in 0 .. N : N - n = d => Right(n)}
<1>1. N \in Nat
  BY TreeIs
<1>2. ASSUME NEW d \in Nat, \A c \in 0 .. d - 1 : c \in S
      PROVE  d \in S
  <2> SUFFICES ASSUME NEW n \in 0 .. N, N - n = d, NEW above \in Seq(keys),
                      PathOf(nodes, n, above) = PathTo(n)
               PROVE  /\ IsFiniteSet(RunsIn(n))
                      /\ Lists(Subtree(nodes, n, above).counts, RunsIn(n), AsCounted)
    <3> HIDE DEF N, keys
    <3> QED BY DEF Right
  <2> DEFINE L == Len(Kids(nodes, n))
             B == KidsLines(nodes, n, above)
             U == KidsCounts(nodes, n, above)
             P == KidsPaths(nodes, n, above)
             path == PathOf(nodes, n, above)
             kid(j) == Kids(nodes, n)[j]
             part(j) == U[j] \o RunTail(n, above, j)
             parts == [j \in 1 .. L |-> part(j)]
             X == [j \in 1 .. L |-> RunsIn(kid(j)) \cup RunsTo(n, j)]
  <2>1. /\ L \in Nat /\ DOMAIN Kids(nodes, n) = 1 .. L /\ DOMAIN B = 1 .. L
        /\ path \in Seq(keys) /\ B \in Seq(Seq(LineOf(Keys)))
        /\ \A j \in 1 .. L : kid(j) \in n + 1 .. N
    BY KidsBlocks
  <2>2. Subtree(nodes, n, above).counts = FlattenSeq(parts)
    <3>1. Subtree(nodes, n, above).counts = RunCounts(B, U, P)
      <4>1. Subtree(nodes, n, above) =
              [lines |-> OwnLine(nodes, n, above) \o FoldedLines(B), counts |-> RunCounts(B, U, P)]
        BY SubtreeIs
      <4> HIDE DEF B, U, P
      <4> QED BY <4>1
    <3>2. RunCounts(B, U, P) = FlattenSeq([j \in 1 .. L |-> part(j)])
      <4>1. \A j : RunTail(n, above, j) = IF RunEnds(B, j) /\ ~RunStarts(B, j)
                                          THEN << <<P[j], RunLength(B, j)>> >> ELSE << >>
        BY DEF RunTail, Closes
      <4> HIDE DEF B, U, P, L
      <4>2. RunCounts(B, U, P) =
              FlattenSeq([j \in DOMAIN B |-> U[j] \o
                (IF RunEnds(B, j) /\ ~RunStarts(B, j)
                 THEN << <<P[j], RunLength(B, j)>> >> ELSE << >>)])
        BY DEF RunCounts
      <4> DEFINE w(j) == IF RunEnds(B, j) /\ ~RunStarts(B, j)
                         THEN << <<P[j], RunLength(B, j)>> >> ELSE << >>
      <4>3. \A j : RunTail(n, above, j) = w(j)
        BY <4>1
      <4>4. RunCounts(B, U, P) = FlattenSeq([j \in DOMAIN B |-> U[j] \o w(j)])
        BY <4>2
      <4> HIDE DEF w
      <4> QED BY <2>1, <4>3, <4>4
    <3> HIDE DEF part, B, U, P, L
    <3> QED BY <3>1, <3>2
  <2>3. \A j \in 1 .. L :
          /\ U[j] = Subtree(nodes, kid(j), path).counts
          /\ U[j] \in Seq(C)
          /\ RunTail(n, above, j) \in Seq(C)
    <3> SUFFICES ASSUME NEW j \in 1 .. L
                 PROVE  /\ U[j] = Subtree(nodes, kid(j), path).counts
                        /\ U[j] \in Seq(C)
                        /\ RunTail(n, above, j) \in Seq(C)
      <4> HIDE DEF L, U, C, path, kid
      <4> QED OBVIOUS
    <3>1. kid(j) \in 0 .. N /\ kid(j) \in 1 .. N
      <4>1. kid(j) \in n + 1 .. N
        BY <2>1
      <4> HIDE DEF kid, N
      <4> QED BY <1>1, <4>1
    <3>2. U[j] = Subtree(nodes, kid(j), path).counts
      BY <2>1 DEF KidsCounts
    <3>3. Subtree(nodes, kid(j), path).counts \in Seq(C)
      <4> DEFINE k == kid(j)
      <4> HIDE DEF k, path
      <4>1. k \in 0 .. N /\ path \in Seq(keys)
        BY <2>1, <3>1 DEF k
      <4>2. Subtree(nodes, k, path).counts \in Seq(C)
        BY <4>1, SubtreeIs
      <4> QED BY <4>2 DEF k
    <3>4. P[j] = Append(path, NodeKey(nodes[kid(j)]))
      BY <2>1 DEF KidsPaths
    <3>5. P[j] \in Seq(keys)
      <4> DEFINE key == NodeKey(nodes[kid(j)])
      <4>1. key \in keys
        <5> DOMAIN nodes = 1 .. N
          BY TreeIs
        <5> QED BY <3>1 DEF KeysOf
      <4> HIDE DEF key, keys, path
      <4>2. Append(path, key) \in Seq(keys)
        BY <2>1, <4>1, AppendProperties
      <4> QED BY <3>4, <4>2 DEF key
    <3>6. RunTail(n, above, j) \in Seq(C)
      <4> DEFINE c == <<P[j], RunLength(B, j)>>
      <4>1. c \in C
        <5>1. j \in Nat
          BY <2>1
        <5> HIDE DEF P, B
        <5> QED BY <2>1, <3>5, <5>1 DEF CountsOf
      <4>2. RunTail(n, above, j) = <<c>> \/ RunTail(n, above, j) = << >>
        BY DEF RunTail
      <4> HIDE DEF c, C
      <4>3. <<c>> \in Seq(C) /\ << >> \in Seq(C)
        BY <4>1, EmptySeq
      <4> QED BY <4>2, <4>3
    <3> QED BY <3>2, <3>3, <3>6
  <2>4. \A j \in 1 .. L : /\ IsFiniteSet(RunsIn(kid(j)))
                          /\ Lists(U[j], RunsIn(kid(j)), AsCounted)
    <3> SUFFICES ASSUME NEW j \in 1 .. L
                 PROVE  /\ IsFiniteSet(RunsIn(kid(j)))
                        /\ Lists(U[j], RunsIn(kid(j)), AsCounted)
      <4> HIDE DEF L, U, kid
      <4> QED OBVIOUS
    <3> DEFINE k == kid(j)
               e == N - k
    <3>1. k \in n + 1 .. N /\ nodes[k].parent = n
      <4>1. j \in DOMAIN Kids(nodes, n)
        BY <2>1
      <4> HIDE DEF S, Right, U, path
      <4> QED BY <4>1, KidsAre
    <3> HIDE DEF k
    <3>2. k \in 1 .. N /\ k # 0 /\ k \in 0 .. N /\ e \in 0 .. d - 1
      <4> HIDE DEF N
      <4> QED BY <1>1, <3>1
    <3>3. Right(k)
      <4>1. e \in S
        <5> HIDE DEF S, e
        <5> QED BY <1>2, <3>2
      <4> HIDE DEF Right
      <4> QED BY <3>2, <4>1
    <3>4. PathOf(nodes, k, path) = PathTo(k)
      <4>1. path = PathTo(n)
        OBVIOUS
      <4>2. PathTo(k) = Append(PathTo(n), NodeKey(nodes[k]))
        BY <3>1, <3>2, PathIs
      <4> HIDE DEF path
      <4> QED BY <3>2, <4>1, <4>2 DEF PathOf
    <3>5. /\ IsFiniteSet(RunsIn(k))
          /\ Lists(Subtree(nodes, k, path).counts, RunsIn(k), AsCounted)
      <4>1. path \in Seq(keys)
        BY <2>1
      <4> HIDE DEF path
      <4> QED BY <3>3, <3>4, <4>1
    <3>6. U[j] = Subtree(nodes, k, path).counts
      <4> HIDE DEF U, path
      <4> QED BY <2>3 DEF k
    <3> HIDE DEF U, path
    <3> QED BY <3>5, <3>6 DEF k
  <2>5. \A j \in 1 .. L : /\ IsFiniteSet(RunsTo(n, j))
                          /\ Lists(RunTail(n, above, j), RunsTo(n, j), AsCounted)
    BY TailLists
  <2>6. \A j \in 1 .. L : RunsIn(kid(j)) \cap RunsTo(n, j) = {}
    BY <2>1, RunsApart
  <2> HIDE DEF U, kid, C, path, L
  <2>7. parts \in [1 .. L -> Seq(C)]
    <3>1. \A j \in 1 .. L : part(j) \in Seq(C)
      <4> SUFFICES ASSUME NEW j \in 1 .. L PROVE part(j) \in Seq(C)
        <5> HIDE DEF part
        <5> QED OBVIOUS
      <4>1. U[j] \in Seq(C) /\ RunTail(n, above, j) \in Seq(C)
        BY <2>3
      <4> QED BY <4>1, ConcatProperties
    <3> HIDE DEF part
    <3> QED BY <3>1
  <2>8. \A j \in 1 .. L : IsFiniteSet(X[j]) /\ Lists(parts[j], X[j], AsCounted)
    <3> SUFFICES ASSUME NEW j \in 1 .. L
                 PROVE  IsFiniteSet(X[j]) /\ Lists(parts[j], X[j], AsCounted)
      <4> HIDE DEF X, parts
      <4> QED OBVIOUS
    <3> DEFINE a == U[j]
               b == RunTail(n, above, j)
               Y == RunsIn(kid(j))
               Z == RunsTo(n, j)
    <3>1. /\ a \in Seq(C) /\ b \in Seq(C) /\ IsFiniteSet(Y) /\ IsFiniteSet(Z) /\ Y \cap Z = {}
          /\ Lists(a, Y, AsCounted) /\ Lists(b, Z, AsCounted)
      BY <2>3, <2>4, <2>5, <2>6
    <3>2. parts[j] = a \o b /\ X[j] = Y \cup Z
      OBVIOUS
    <3> HIDE DEF a, b, Y, Z, parts, X
    <3>3. Lists(a \o b, Y \cup Z, AsCounted) /\ IsFiniteSet(Y \cup Z)
      BY <3>1, ListsJoin
    <3> QED BY <3>2, <3>3
  <2>9. \A i, j \in 1 .. L : i # j => X[i] \cap X[j] = {}
    <3> SUFFICES ASSUME NEW i \in 1 .. L, NEW j \in 1 .. L, i # j
                 PROVE  X[i] \cap X[j] = {}
      <4> HIDE DEF X
      <4> QED OBVIOUS
    <3>1. i \in DOMAIN Kids(nodes, n) /\ j \in DOMAIN Kids(nodes, n)
      BY <2>1
    <3>2. /\ RunsIn(kid(i)) \cap RunsTo(n, j) = {} /\ RunsIn(kid(j)) \cap RunsTo(n, i) = {}
          /\ RunsIn(kid(i)) \cap RunsIn(kid(j)) = {} /\ RunsTo(n, i) \cap RunsTo(n, j) = {}
      BY <3>1, RunsApart DEF kid
    <3>3. X[i] = RunsIn(kid(i)) \cup RunsTo(n, i) /\ X[j] = RunsIn(kid(j)) \cup RunsTo(n, j)
      OBVIOUS
    <3> HIDE DEF X
    <3> QED BY <3>2, <3>3
  <2>10. RunsIn(n) = UNION {X[j] : j \in 1 .. L}
    <3>1. RunsIn(n) = UNION {RunsIn(kid(j)) \cup RunsTo(n, j) : j \in 1 .. L}
      BY RunsSplit DEF kid, L
    <3>2. \A j \in 1 .. L : X[j] = RunsIn(kid(j)) \cup RunsTo(n, j)
      OBVIOUS
    <3> HIDE DEF X
    <3> QED BY <3>1, <3>2
  <2> HIDE DEF parts, X
  <2>11. Listed(parts, X, L, AsCounted)
    BY <2>8, <2>9 DEF Listed
  <2>12. /\ Lists(FlattenSeq(parts), AllOf(X, L), AsCounted)
         /\ IsFiniteSet(AllOf(X, L))
    BY <2>1, <2>7, <2>11, ListsFlatten
  <2> QED BY <2>2, <2>10, <2>12 DEF AllOf
<1>3. Nat \subseteq S
  <2> HIDE DEF S
  <2> QED BY <1>2, EveryNumber
<1>4. \A n \in 0 .. N : Right(n)
  <2> SUFFICES ASSUME NEW n \in 0 .. N PROVE Right(n)
    <3> HIDE DEF Right, N
    <3> QED OBVIOUS
  <2>1. N - n \in Nat
    BY <1>1
  <2> HIDE DEF Right, N
  <2> QED BY <1>3, <2>1
<1> QED BY <1>4

LEMMA PageCountsRuns ==
  ASSUME Tree(nodes)
  PROVE  EveryRunIsCounted
<1> DEFINE counts == WholeTree(nodes).counts
           none   == << >>
           W      == Range(counts) \cup {AsCounted[r] : r \in EqualRuns}
<1>1. none \in Seq(KeysOf(nodes)) /\ 0 \in 0 .. Len(nodes) /\ Len(nodes) \in Nat
  BY EmptySeq, TreeIs
<1>2. PathOf(nodes, 0, none) = PathTo(0)
  BY PathIs DEF PathOf
<1>3. counts = Subtree(nodes, 0, none).counts
  BY DEF WholeTree
<1> HIDE DEF none, counts
<1>4. Lists(counts, RunsIn(0), AsCounted)
  BY <1>1, <1>2, <1>3, CountsListRuns
<1>5. counts \in Seq(CountsOf(nodes))
  BY <1>1, <1>3, SubtreeIs
<1>6. RunsIn(0) = EqualRuns
  <2> SUFFICES ASSUME NEW r \in EqualRuns PROVE Descends(nodes, r.first, 0)
    BY DEF RunsIn
  <2>1. PICK n \in 0 .. Len(nodes) : \E j \in DOMAIN Kids(nodes, n) : r \in RunsTo(n, j)
    BY EqualRunsAre
  <2>2. PICK i \in DOMAIN Kids(nodes, n) : \E j : r = RunFrom(n, i, j)
    BY <2>1 DEF RunsTo
  <2> DEFINE k == Kids(nodes, n)[i]
  <2>3. r.first = k
    BY <2>2 DEF RunFrom
  <2>4. k \in n + 1 .. Len(nodes)
    BY KidsAre
  <2> HIDE DEF k
  <2>5. k \in 1 .. Len(nodes)
    BY <1>1, <2>4
  <2> QED BY <2>3, <2>5, InsideDocument
<1>7. Lists(counts, EqualRuns, AsCounted)
  BY <1>4, <1>6
<1>8. Len(counts) \in Nat /\ DOMAIN counts = 1 .. Len(counts)
  BY <1>5, LenProperties
<1>9. Len(counts) = Cardinality(EqualRuns)
  <2>1. {i \in DOMAIN counts : counts[i] \in W} = 1 .. Len(counts)
    BY <1>8 DEF Range
  <2>2. {r \in EqualRuns : AsCounted[r] \in W} = EqualRuns
    OBVIOUS
  <2>3. Cardinality(1 .. Len(counts)) = Len(counts)
    <3> DEFINE l == Len(counts)
    <3>1. l \in Nat
      BY <1>8
    <3> HIDE DEF l
    <3>2. Cardinality(1 .. l) = IF 1 > l THEN 0 ELSE l - 1 + 1
      BY <3>1, FS_Interval
    <3>3. Cardinality(1 .. l) = l
      BY <3>1, <3>2
    <3> QED BY <3>3 DEF l
  <2> HIDE DEF W
  <2>4. CountIn(counts, W) = Cardinality({r \in EqualRuns : AsCounted[r] \in W})
    BY <1>7 DEF Lists
  <2> QED BY <2>1, <2>2, <2>3, <2>4 DEF CountIn
<1>10. ASSUME NEW c
       PROVE  Cardinality({i \in DOMAIN counts : counts[i] = c}) =
                Cardinality({r \in EqualRuns : <<PathTo(r.first), r.length>> = c})
  <2> DEFINE C == {c}
  <2>1. CountIn(counts, C) = Cardinality({r \in EqualRuns : AsCounted[r] \in C})
    BY <1>7 DEF Lists
  <2>2. {i \in DOMAIN counts : counts[i] \in C} = {i \in DOMAIN counts : counts[i] = c}
    OBVIOUS
  <2>3. {r \in EqualRuns : AsCounted[r] \in C} =
          {r \in EqualRuns : <<PathTo(r.first), r.length>> = c}
    BY DEF AsCounted
  <2> HIDE DEF C
  <2> QED BY <2>1, <2>2, <2>3 DEF CountIn
<1> QED BY <1>9, <1>10 DEF EveryRunIsCounted, counts

\* In every page each run of equal neighbours, at any depth, has a count of its own
\* and nothing else has one (normalize.py:281-292).
THEOREM RunsCounted == DocSpec => []EveryRunIsCounted
<1>1. PageInv => Tree(nodes)
  BY PageIs DEF PageInv
<1>2. PageInv => EveryRunIsCounted
  BY <1>1, PageCountsRuns
<1> QED BY <1>2, PageInvariance, PTL
=============================================================================
