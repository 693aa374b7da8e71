--------------------------- MODULE BeeRequestsProofs ---------------------------
(***************************************************************************)
(* Theorems about BeeRequests, for every set of calls, values of every     *)
(* depth, and every step of the sizes of msgpack.  A recursive function is *)
(* only there if something is chosen that has what it says (BeeRecursion); *)
(* what it has for a value is then found by induction on the depth.        *)
(***************************************************************************)
EXTENDS BeeRequests, FiniteSetTheorems, SequenceTheorems, TLAPS

-----------------------------------------------------------------------------
(* Sums, sequences of sequences, and what is read of items.                *)

SumStep(f, s, it) ==
    IF s = {} THEN 0 ELSE LET x == CHOOSE x \in s : TRUE IN f[x] + it[s \ {x}]
Sums == INSTANCE BeeRecursion WITH def <- SumStep

\* What is left of a finite set has one element fewer.
LEMMA SubsetRank ==
    ASSUME NEW D, IsFiniteSet(D)
    PROVE  /\ [s \in SUBSET D |-> Cardinality(s)] \in [SUBSET D -> Nat]
           /\ \A s \in SUBSET D : IsFiniteSet(s)
           /\ \A s \in SUBSET D : \A x \in s :
                s \ {x} \in SUBSET D /\ Cardinality(s \ {x}) = Cardinality(s) - 1
<1>1. \A s \in SUBSET D : IsFiniteSet(s) /\ Cardinality(s) \in Nat
  BY FS_Subset, FS_CardinalityType
<1>2. ASSUME NEW s \in SUBSET D, NEW x \in s
      PROVE s \ {x} \in SUBSET D /\ Cardinality(s \ {x}) = Cardinality(s) - 1
  BY <1>1, FS_RemoveElement
<1> QED BY <1>1, <1>2

\* What FoldFunction chooses exists: a sum over every subset.
LEMMA SumIter ==
    ASSUME NEW D, IsFiniteSet(D), NEW f
    PROVE  \E it : /\ it = [s \in SUBSET D |-> SumStep(f, s, it)]
                   /\ SumFunctionOnSet(f, D) = it[D]
<1> DEFINE rank == [s \in SUBSET D |-> Cardinality(s)]
<1>1. rank \in [SUBSET D -> Nat]
  BY SubsetRank
<1>2. ASSUME NEW s \in SUBSET D, NEW g, NEW h,
             \A t \in SUBSET D : rank[t] < rank[s] => g[t] = h[t]
      PROVE  SumStep(f, s, g) = SumStep(f, s, h)
  <2>1. CASE s = {}
    BY <2>1 DEF SumStep
  <2>2. CASE s # {}
    <3> DEFINE x == CHOOSE x \in s : TRUE
    <3>1. x \in s
      BY <2>2
    <3> HIDE DEF x
    <3>2. s \ {x} \in SUBSET D /\ Cardinality(s \ {x}) = Cardinality(s) - 1 /\ Cardinality(s) \in Nat
      BY <3>1, SubsetRank
    <3>3. rank[s \ {x}] < rank[s]
      BY <3>2
    <3>4. g[s \ {x}] = h[s \ {x}]
      BY ONLY <1>2, <3>2, <3>3
    <3> QED BY <2>2, <3>4 DEF SumStep, x
  <2> QED BY <2>1, <2>2
<1> HIDE DEF rank
<1>3. Sums!Local(f, SUBSET D, rank)
  BY <1>2 DEF Sums!Local
<1>4. \E it : it = [s \in SUBSET D |-> SumStep(f, s, it)]
  BY <1>1, <1>3, Sums!Recursion, ZenonT(60)
<1> DEFINE it == CHOOSE it : it = [s \in SUBSET D |-> SumStep(f, s, it)]
<1>5. it = [s \in SUBSET D |-> SumStep(f, s, it)]
  BY <1>4, Zenon
<1>6. SumFunctionOnSet(f, D) = it[D]
  BY Zenon DEF SumFunctionOnSet, FoldFunctionOnSet, MapThenFoldSet, SumStep
<1> HIDE DEF it
<1> QED BY <1>5, <1>6

\* A sum is that of all but one and the one.
LEMMA SumPoint ==
    ASSUME NEW D, IsFiniteSet(D), NEW f, \A d \in D : f[d] \in Int,
           NEW it, \A s \in SUBSET D : it[s] = SumStep(f, s, it)
    PROVE  \A s \in SUBSET D : it[s] \in Int /\ \A x \in s : it[s] = f[x] + it[s \ {x}]
<1> DEFINE first(s) == CHOOSE x \in s : TRUE
<1>1. it[{}] = 0
  BY DEF SumStep
<1>2. \A s \in SUBSET D : s # {} => first(s) \in s /\ it[s] = f[first(s)] + it[s \ {first(s)}]
  BY DEF SumStep
<1> HIDE DEF first
<1>3. \A s \in SUBSET D : Cardinality(s) \in Nat /\ (Cardinality(s) = 0 <=> s = {})
  BY SubsetRank, FS_EmptySet, FS_CardinalityType
<1>4. \A s \in SUBSET D : \A x \in s :
        s \ {x} \in SUBSET D /\ Cardinality(s \ {x}) = Cardinality(s) - 1
  BY SubsetRank
<1> DEFINE I(n) == \A s \in SUBSET D : Cardinality(s) = n => it[s] \in Int
           Is1 == {n \in Nat : I(n)}
<1>5. Is1 = Nat
  <2>1. I(0)
    BY ONLY <1>1, <1>3
  <2>2. ASSUME NEW n \in Nat, I(n) PROVE I(n + 1)
    <3>1. ASSUME NEW s \in SUBSET D, Cardinality(s) = n + 1 PROVE it[s] \in Int
      <4>1. s # {}
        BY ONLY <1>3, <3>1, n \in Nat
      <4>2. first(s) \in s /\ it[s] = f[first(s)] + it[s \ {first(s)}]
        BY <1>2, <4>1
      <4>3. s \ {first(s)} \in SUBSET D /\ Cardinality(s \ {first(s)}) = n
        BY ONLY <1>4, <3>1, <4>2, n \in Nat
      <4>4. it[s \ {first(s)}] \in Int
        BY ONLY <2>2, <4>3
      <4>5. f[first(s)] \in Int
        BY <4>2
      <4> QED BY ONLY <4>2, <4>4, <4>5
    <3> QED BY ONLY <3>1
  <2>3. 0 \in Is1 /\ \A n \in Is1 : n + 1 \in Is1
    <3> HIDE DEF I
    <3> QED BY ONLY <2>1, <2>2
  <2> QED BY ONLY <2>3, Sums!NatSet
<1>6. \A s \in SUBSET D : it[s] \in Int
  BY ONLY <1>3, <1>5
<1> HIDE DEF Is1
<1> DEFINE P(s) == \A x \in s : it[s] = f[x] + it[s \ {x}]
           Q(n) == \A s \in SUBSET D : Cardinality(s) = n => P(s)
           Ns == {n \in Nat : Q(n)}
<1>7. Ns = Nat
  <2>1. Q(0)
    BY ONLY <1>3
  <2>2. ASSUME NEW n \in Nat, Q(n) PROVE Q(n + 1)
    <3>1. ASSUME NEW s \in SUBSET D, Cardinality(s) = n + 1, NEW x \in s
          PROVE  it[s] = f[x] + it[s \ {x}]
      <4> DEFINE c == first(s)
      <4>1. c \in s /\ it[s] = f[c] + it[s \ {c}]
        BY <1>2
      <4> HIDE DEF c
      <4>2. CASE x = c
        BY <4>1, <4>2
      <4>3. CASE x # c
        <5>1. s \ {c} \in SUBSET D /\ s \ {x} \in SUBSET D /\ x \in s \ {c} /\ c \in s \ {x}
          BY <4>1, <4>3
        <5>2. Cardinality(s \ {c}) = n /\ Cardinality(s \ {x}) = n
          BY ONLY <1>4, <3>1, <4>1, n \in Nat
        <5>3. P(s \ {c}) /\ P(s \ {x})
          BY ONLY <2>2, <5>1, <5>2
        <5>4. (s \ {c}) \ {x} = (s \ {x}) \ {c}
          OBVIOUS
        <5>5. it[s \ {c}] = f[x] + it[(s \ {x}) \ {c}]
          BY <5>1, <5>3, <5>4
        <5>6. it[s \ {x}] = f[c] + it[(s \ {x}) \ {c}]
          BY <5>1, <5>3
        <5>7. it[(s \ {x}) \ {c}] \in Int /\ f[x] \in Int /\ f[c] \in Int
          BY <1>6, <4>1, <5>1
        <5> HIDE DEF P
        <5> QED BY <4>1, <5>5, <5>6, <5>7
      <4> QED BY <4>2, <4>3
    <3> QED BY ONLY <3>1
  <2>3. 0 \in Ns /\ \A n \in Ns : n + 1 \in Ns
    <3> HIDE DEF Q
    <3> QED BY ONLY <2>1, <2>2
  <2> QED BY ONLY <2>3, Sums!NatSet
<1>8. \A s \in SUBSET D : Cardinality(s) \in Ns
  BY ONLY <1>3, <1>7
<1> QED BY <1>6, <1>8

\* What a sum is of every part of what is summed up.
Table(D, f, it) ==
    /\ SumFunctionOnSet(f, D) = it[D] /\ it[{}] = 0
    /\ \A s \in SUBSET D : it[s] \in Int /\ \A x \in s : it[s] = f[x] + it[s \ {x}]
AreInts(D, f) == \A d \in D : f[d] \in Int

\* A sum of numbers is a number, and one more element adds its number.
LEMMA SumTable ==
    ASSUME NEW D, IsFiniteSet(D), NEW f, AreInts(D, f)
    PROVE  \E it : Table(D, f, it)
<1>1. PICK it : it = [s \in SUBSET D |-> SumStep(f, s, it)] /\ SumFunctionOnSet(f, D) = it[D]
  BY SumIter
<1>2. \A s \in SUBSET D : it[s] = SumStep(f, s, it)
  BY <1>1
<1>3. it[{}] = 0
  BY <1>1 DEF SumStep
<1>4. \A s \in SUBSET D : it[s] \in Int /\ \A x \in s : it[s] = f[x] + it[s \ {x}]
  BY <1>2, SumPoint DEF AreInts
<1> QED BY <1>1, <1>3, <1>4 DEF Table

\* A sum over the numbers from 1 has its partial sums.
LEMMA PartialSums ==
    ASSUME NEW n \in Nat, NEW f, AreInts(1..n, f), DOMAIN f = 1..n
    PROVE  \E t : /\ t \in [0..n -> Int] /\ t[0] = 0 /\ t[n] = SumFunction(f)
                  /\ \A k \in 1..n : t[k] = t[k - 1] + f[k]
<1>1. IsFiniteSet(1..n)
  BY FS_Interval
<1>2. PICK it : Table(1..n, f, it)
  BY <1>1, SumTable
<1>3. \A k \in 0..n : it[1..k] \in Int
  BY <1>2 DEF Table
<1> DEFINE t == [k \in 0..n |-> it[1..k]]
<1>4. t \in [0..n -> Int]
  BY <1>3
<1>5. t[0] = 0
  <2>1. 1..0 = {}
    OBVIOUS
  <2> QED BY <1>2, <2>1 DEF Table
<1>6. t[n] = SumFunction(f)
  BY <1>2 DEF SumFunction, Table
<1>7. ASSUME NEW k \in 1..n PROVE t[k] = t[k - 1] + f[k]
  <2>1. (1..k) \ {k} = 1..k - 1 /\ k \in 1..k /\ 1..k \in SUBSET (1..n)
        /\ k \in 0..n /\ k - 1 \in 0..n
    OBVIOUS
  <2>2. it[1..k] = f[k] + it[(1..k) \ {k}]
    BY <1>2, <2>1 DEF Table
  <2>3. it[1..k - 1] \in Int /\ f[k] \in Int
    BY <1>3, <2>1 DEF AreInts
  <2>4. t[k] = it[1..k] /\ t[k - 1] = it[1..k - 1]
    BY <2>1
  <2>5. it[1..k] = f[k] + it[1..k - 1]
    BY <2>1, <2>2
  <2> HIDE DEF t
  <2> QED BY <2>3, <2>4, <2>5
<1> HIDE DEF t
<1> QED BY <1>4, <1>5, <1>6, <1>7

FlatStep(seqs, i, flatten) == IF i = 1 THEN seqs[i] ELSE flatten[i - 1] \o seqs[i]
Flats == INSTANCE BeeRecursion WITH def <- FlatStep

AreSeqs(n, seqs, I) == \A i \in 1..n : seqs[i] \in Seq(I)

\* Sequences one behind the other: the first of them, the first two, and so on.
Flattening(n, seqs, I, q) ==
    /\ \A k \in 0..n : q[k] \in Seq(I)
    /\ q[0] = <<>> /\ q[n] = FlattenSeq(seqs)
    /\ \A k \in 1..n : q[k] = q[k - 1] \o seqs[k]

\* FlattenSeq puts sequences one behind the other, step by step.
LEMMA PartialSequences ==
    ASSUME NEW n, n \in Nat, NEW I, NEW seqs, AreSeqs(n, seqs, I),
           seqs = [i \in 1..n |-> seqs[i]]
    PROVE  \E q : Flattening(n, seqs, I, q)
<1>1. seqs \in Seq(Seq(I)) /\ Len(seqs) = n
  BY DEF AreSeqs
<1>2. CASE n = 0
  <2>1. seqs = <<>>
    BY <1>1, <1>2
  <2>2. FlattenSeq(seqs) = <<>>
    BY <1>1, <1>2, <2>1 DEF FlattenSeq
  <2>3. \A k \in 0..n : k = 0
    BY <1>2
  <2> DEFINE q == [k \in 0..0 |-> <<>>]
  <2>4. q[0] = <<>>
    OBVIOUS
  <2> HIDE DEF q
  <2>5. \A k \in 0..n : q[k] \in Seq(I)
    BY <2>3, <2>4
  <2>6. 1..n = {}
    BY <1>2
  <2>7. Flattening(n, seqs, I, q)
    BY <1>2, <2>2, <2>4, <2>5, <2>6 DEF Flattening
  <2> QED BY <2>7
<1>3. CASE n # 0
  <2> DEFINE rank == [i \in 1..n |-> i]
             it == CHOOSE k : k = [i \in 1..n |-> FlatStep(seqs, i, k)]
  <2>1. ASSUME NEW i \in 1..n, NEW g, NEW h, \A j \in 1..n : rank[j] < rank[i] => g[j] = h[j]
        PROVE  FlatStep(seqs, i, g) = FlatStep(seqs, i, h)
    <3>1. i # 1 => i - 1 \in 1..n /\ i - 1 < i
      OBVIOUS
    <3> QED BY <2>1, <3>1 DEF FlatStep
  <2>2. rank \in [1..n -> Nat]
    OBVIOUS
  <2> HIDE DEF rank
  <2>3. Flats!Local(seqs, 1..n, rank)
    BY <2>1 DEF Flats!Local
  <2>4. \E k : k = [i \in 1..n |-> FlatStep(seqs, i, k)]
    BY <2>2, <2>3, Flats!Recursion, ZenonT(60)
  <2>5. it = [i \in 1..n |-> FlatStep(seqs, i, it)]
    BY <2>4, Zenon
  <2>6. FlattenSeq(seqs) = it[n]
    <3>1. Len(seqs) # 0
      BY <1>1, <1>3
    <3>2. FlattenSeq(seqs) = (CHOOSE k : k = [i \in 1..Len(seqs) |-> FlatStep(seqs, i, k)])[Len(seqs)]
      BY <3>1, Zenon DEF FlattenSeq, FlatStep
    <3> QED BY <1>1, <3>2, Zenon
  <2> HIDE DEF it
  <2> DEFINE q == [k \in 0..n |-> IF k = 0 THEN <<>> ELSE it[k]]
  <2>7. \A k \in 1..n : q[k] = q[k - 1] \o seqs[k]
    <3> SUFFICES ASSUME NEW k \in 1..n PROVE q[k] = q[k - 1] \o seqs[k]
      OBVIOUS
    <3>1. q[k] = FlatStep(seqs, k, it) /\ seqs[k] \in Seq(I)
      <4>1. q[k] = it[k] /\ seqs[k] \in Seq(I)
        BY DEF AreSeqs
      <4>2. it[k] = FlatStep(seqs, k, it)
        BY <2>5, Zenon
      <4> QED BY <4>1, <4>2
    <3>2. CASE k = 1
      <4>1. q[k - 1] = <<>>
        BY <3>2
      <4> HIDE DEF q
      <4> QED BY <3>1, <3>2, <4>1 DEF FlatStep
    <3>3. CASE k # 1
      <4>1. q[k - 1] = it[k - 1]
        BY <3>3
      <4> HIDE DEF q
      <4> QED BY <3>1, <3>3, <4>1 DEF FlatStep
    <3> QED BY <3>2, <3>3
  <2>8. q[0] = <<>> /\ q[n] = FlattenSeq(seqs)
    BY <1>3, <2>6
  <2> HIDE DEF q
  <2>9. \A k \in 0..n : q[k] \in Seq(I)
    <3> DEFINE Ns == {k \in 0..n : q[k] \in Seq(I)}
    <3>1. 0 \in Ns
      <4>1. q[0] \in Seq(I)
        BY <2>8
      <4> QED BY <4>1
    <3>2. ASSUME NEW k \in 1..n, k - 1 \in Ns PROVE k \in Ns
      <4>1. q[k] = q[k - 1] \o seqs[k] /\ seqs[k] \in Seq(I) /\ q[k - 1] \in Seq(I)
        BY <2>7, <3>2 DEF AreSeqs
      <4>2. q[k] \in Seq(I)
        BY <4>1
      <4> QED BY <4>2
    <3>3. \A k \in 0..n : k \in Ns
      <4> HIDE DEF Ns
      <4> QED BY <3>1, <3>2, Flats!Upwards
    <3> QED BY <3>3
  <2>10. Flattening(n, seqs, I, q)
    BY <2>7, <2>8, <2>9 DEF Flattening
  <2> QED BY <2>10
<1> QED BY <1>2, <1>3

-----------------------------------------------------------------------------
(* What the server reads, item by item.                                    *)

\* What it has read from each item to the end.
Reading(items, n, behind, r) ==
    r[n] = behind /\ \A k \in 1..n : r[k - 1] = ReadItem(items[k], r[k])

ReadStep(p, s, it) ==
    IF s = {} THEN p.behind
    ELSE LET x == Min(s) IN ReadItem(p.items[x], it[s \ {x}])
Reads == INSTANCE BeeRecursion WITH def <- ReadStep

IsReadIter(D, p, it) == it = [s \in SUBSET D |-> ReadStep(p, s, it)]

\* What FoldRight chooses exists: a reading of every set of items.
LEMMA ReadIter ==
    ASSUME NEW D, IsFiniteSet(D), D \subseteq Nat, NEW p
    PROVE  \E it : IsReadIter(D, p, it)
<1> DEFINE rank == [s \in SUBSET D |-> Cardinality(s)]
<1>1. rank \in [SUBSET D -> Nat]
  BY SubsetRank
<1>2. ASSUME NEW s \in SUBSET D, NEW g, NEW h,
             \A t \in SUBSET D : rank[t] < rank[s] => g[t] = h[t]
      PROVE  ReadStep(p, s, g) = ReadStep(p, s, h)
  <2>1. CASE s = {}
    BY <2>1 DEF ReadStep
  <2>2. CASE s # {}
    <3>1. Min(s) \in s
      <4>1. \E x \in s : \A y \in s : x <= y
        BY <2>2, Reads!Least
      <4> QED BY <4>1 DEF Min
    <3>2. s \ {Min(s)} \in SUBSET D /\ Cardinality(s \ {Min(s)}) = Cardinality(s) - 1 /\ Cardinality(s) \in Nat
      BY <3>1, SubsetRank
    <3>3. rank[s \ {Min(s)}] < rank[s]
      BY <3>2
    <3>4. g[s \ {Min(s)}] = h[s \ {Min(s)}]
      BY ONLY <1>2, <3>2, <3>3
    <3> QED BY <2>2, <3>4 DEF ReadStep
  <2> QED BY <2>1, <2>2
<1> HIDE DEF rank
<1>3. Reads!Local(p, SUBSET D, rank)
  BY <1>2 DEF Reads!Local
<1> DEFINE parts == SUBSET D
<1>4. rank \in [parts -> Nat] /\ Reads!Local(p, parts, rank)
  BY <1>1, <1>3
<1> HIDE DEF parts
<1>5. \E it : it = [s \in parts |-> ReadStep(p, s, it)]
  BY <1>4, Reads!Recursion
<1> QED BY <1>5, Zenon DEF parts, IsReadIter

\* What is read of items is what is read step by step.
LEMMA ReadThere ==
    ASSUME NEW n \in Nat, NEW items, DOMAIN items = 1..n, NEW behind
    PROVE  \E r : Reading(items, n, behind, r) /\ r[0] = Read(items, behind)
<1> DEFINE D == DOMAIN items
           step(s, k) == IF s = {} THEN behind
                         ELSE LET x == Min(s) IN ReadItem(items[x], k[s \ {x}])
           it == CHOOSE k : k = [s \in SUBSET D |-> step(s, k)]
<1>1. it = [s \in SUBSET D |-> step(s, it)]
  <2>1. IsFiniteSet(1..n) /\ 1..n \subseteq Nat
    BY FS_Interval
  <2>2. IsFiniteSet(D) /\ D \subseteq Nat
    BY <2>1
  <2> DEFINE p == [items |-> items, behind |-> behind]
  <2>3. p.items = items /\ p.behind = behind
    OBVIOUS
  <2> HIDE DEF p, D
  <2>4. PICK k : IsReadIter(D, p, k)
    BY <2>2, ReadIter
  <2>5. \A s : ReadStep(p, s, k) = step(s, k)
    BY <2>3 DEF ReadStep
  <2> HIDE DEF step
  <2>6. k = [s \in SUBSET D |-> step(s, k)]
    BY <2>4, <2>5 DEF IsReadIter
  <2>7. \E q : q = [s \in SUBSET D |-> step(s, q)]
    BY <2>6
  <2> QED BY <2>7, Zenon
<1>2. Read(items, behind) = it[DOMAIN items]
  BY Zenon DEF Read, FoldRight, MapThenFoldSet
<1> HIDE DEF it
<1>3. ASSUME NEW k \in 1..n PROVE it[k..n] = ReadItem(items[k], it[k + 1..n])
  <2>1. Min(k..n) = k
    <3>1. k \in k..n /\ \A y \in k..n : k <= y
      OBVIOUS
    <3>2. \A x \in k..n : (\A y \in k..n : x <= y) => x = k
      OBVIOUS
    <3> QED BY <3>1, <3>2 DEF Min
  <2>2. (k..n) \ {k} = k + 1..n /\ k..n # {} /\ k..n \in SUBSET DOMAIN items
    OBVIOUS
  <2>3. it[k..n] = step(k..n, it)
    BY <1>1, <2>2, Zenon
  <2> QED BY <2>1, <2>2, <2>3
<1>4. it[n + 1..n] = behind
  <2>1. n + 1..n = {} /\ {} \in SUBSET DOMAIN items
    OBVIOUS
  <2>2. it[{}] = step({}, it)
    BY <1>1, <2>1, Zenon
  <2> QED BY <2>1, <2>2
<1> HIDE DEF step, D
<1> DEFINE r == [k \in 0..n |-> it[k + 1..n]]
<1>5. r[n] = behind /\ r[0] = Read(items, behind)
  BY <1>2, <1>4
<1>6. ASSUME NEW k \in 1..n PROVE r[k - 1] = ReadItem(items[k], r[k])
  <2>1. k - 1 \in 0..n /\ k \in 0..n /\ (k - 1) + 1 = k
    OBVIOUS
  <2>2. r[k - 1] = it[k..n] /\ r[k] = it[k + 1..n]
    BY <2>1
  <2> QED BY <1>3, <2>2
<1> HIDE DEF r
<1> QED BY <1>5, <1>6 DEF Reading

\* What is read step by step is what is read.
LEMMA ReadIs ==
    ASSUME NEW n \in Nat, NEW items, DOMAIN items = 1..n, NEW behind, NEW r,
           Reading(items, n, behind, r)
    PROVE  Read(items, behind) = r[0]
<1>1. PICK q : Reading(items, n, behind, q) /\ q[0] = Read(items, behind)
  BY ReadThere
<1> DEFINE S == {k \in 0..n : q[k] = r[k]}
<1>2. n \in S
  BY <1>1 DEF Reading
<1>3. ASSUME NEW k \in 1..n, k \in S PROVE k - 1 \in S
  BY <1>1, <1>3 DEF Reading
<1>4. \A k \in 0..n : k \in S
  <2> HIDE DEF S
  <2> QED BY <1>2, <1>3, Reads!Downwards
<1>5. 0 \in S
  BY <1>4
<1> QED BY <1>1, <1>5

\* Reading one item, none, and some behind others.
LEMMA ReadOne == \A item, behind : Read(<<item>>, behind) = ReadItem(item, behind)
<1> SUFFICES ASSUME NEW item, NEW behind PROVE Read(<<item>>, behind) = ReadItem(item, behind)
  OBVIOUS
<1> DEFINE items == <<item>>
           r == [k \in 0..1 |-> IF k = 0 THEN ReadItem(item, behind) ELSE behind]
<1>1. DOMAIN items = 1..1 /\ items[1] = item
  OBVIOUS
<1>2. r[0] = ReadItem(item, behind) /\ r[1] = behind
  OBVIOUS
<1> HIDE DEF r, items
<1>3. Reading(items, 1, behind, r)
  <2>1. \A k \in 1..1 : k = 1 /\ k - 1 = 0
    OBVIOUS
  <2> QED BY <1>1, <1>2, <2>1 DEF Reading
<1>4. Read(items, behind) = r[0]
  BY <1>1, <1>3, ReadIs
<1> QED BY <1>2, <1>4 DEF items

\* Nothing adds nothing to what is read.
LEMMA ReadNone == \A behind : Read(<<>>, behind) = behind
<1> SUFFICES ASSUME NEW behind PROVE Read(<<>>, behind) = behind
  OBVIOUS
<1> DEFINE items == <<>>
           r == [k \in 0..0 |-> behind]
<1>1. DOMAIN items = 1..0
  OBVIOUS
<1>2. r[0] = behind
  OBVIOUS
<1> HIDE DEF r, items
<1>3. Reading(items, 0, behind, r)
  BY <1>2 DEF Reading
<1>4. Read(items, behind) = r[0]
  BY <1>1, <1>3, ReadIs
<1> QED BY <1>2, <1>4 DEF items

\* Two sequences are read from the last item of the second.
LEMMA ReadBoth ==
    ASSUME NEW I, NEW a \in Seq(I), NEW b \in Seq(I), NEW behind
    PROVE  Read(a \o b, behind) = Read(a, Read(b, behind))
<1> DEFINE n == Len(a)
           m == Len(b)
           ab == a \o b
<1>1. n \in Nat /\ m \in Nat /\ DOMAIN a = 1..n /\ DOMAIN b = 1..m /\ DOMAIN ab = 1..n + m
  OBVIOUS
<1>2. /\ \A k \in 1..n : ab[k] = a[k]
      /\ \A k \in 1..m : ab[n + k] = b[k]
  OBVIOUS
<1> HIDE DEF n, m, ab
<1>3. n + m \in Nat
  BY <1>1
<1>4. PICK r : Reading(ab, n + m, behind, r) /\ r[0] = Read(ab, behind)
  BY <1>1, <1>3, ReadThere
<1> DEFINE rb == [k \in 0..m |-> r[n + k]]
<1>5. Reading(b, m, behind, rb)
  <2>1. rb[m] = behind
    BY <1>1, <1>4 DEF Reading
  <2>2. ASSUME NEW k \in 1..m PROVE rb[k - 1] = ReadItem(b[k], rb[k])
    <3>1. n + k \in 1..n + m /\ (n + k) - 1 = n + (k - 1) /\ k - 1 \in 0..m /\ k \in 0..m
      BY <1>1
    <3>2. r[(n + k) - 1] = ReadItem(ab[n + k], r[n + k])
      BY <1>4, <3>1 DEF Reading
    <3> QED BY <1>2, <3>1, <3>2
  <2> HIDE DEF rb
  <2> QED BY <2>1, <2>2 DEF Reading
<1>6. rb[0] = r[n]
  BY <1>1
<1> HIDE DEF rb
<1>7. Read(b, behind) = r[n]
  BY <1>1, <1>5, <1>6, ReadIs
<1>8. Reading(a, n, Read(b, behind), r)
  <2>1. ASSUME NEW k \in 1..n PROVE r[k - 1] = ReadItem(a[k], r[k])
    <3>1. k \in 1..n + m
      BY <1>1
    <3> QED BY <1>2, <1>4, <3>1 DEF Reading
  <2> QED BY <1>7, <2>1 DEF Reading
<1>9. Read(a, Read(b, behind)) = r[0]
  BY <1>1, <1>8, ReadIs
<1> QED BY <1>4, <1>9 DEF ab

\* The first item is read last.
LEMMA ReadFirst ==
    ASSUME NEW I, NEW items \in Seq(I), NEW item, NEW behind
    PROVE  Read(<<item>> \o items, behind) = ReadItem(item, Read(items, behind))
<1> DEFINE J == I \cup {item}
           one == <<item>>
<1>1. one \in Seq(J) /\ items \in Seq(J)
  OBVIOUS
<1>2. Read(one, Read(items, behind)) = ReadItem(item, Read(items, behind))
  BY ReadOne
<1> HIDE DEF one, J
<1>3. Read(one \o items, behind) = Read(one, Read(items, behind))
  BY <1>1, ReadBoth
<1> QED BY <1>2, <1>3 DEF one

\* What is read of the items behind, and the items with more in front of them.
Behind(trees, bytes, requests) == [trees |-> trees, bytes |-> bytes, requests |-> requests]
Adds(items, ws, n) ==
    \A T, trees, bytes, requests : trees \in Seq(T) /\ bytes \in Nat =>
        Read(items, Behind(trees, bytes, requests)) =
        Behind(ws \o trees, n + bytes, requests)

\* What an item takes is a number of trees.
LEMMA Takings ==
    /\ \A n, trees : /\ ~Is([list |-> n], "size") /\ Takes([list |-> n]) = n
                     /\ Tree([list |-> n], trees) = [list |-> SubSeq(trees, 1, n)]
    /\ \A n, trees : /\ ~Is([map |-> n], "size") /\ Takes([map |-> n]) = 2 * n
                     /\ Tree([map |-> n], trees) =
                          [map |-> [i \in 1..n |-> <<trees[2 * i - 1], trees[2 * i]>>]]
    /\ \A says, trees : ~Is(says, "list") /\ ~Is(says, "map") =>
                        Takes(says) = 0 /\ Tree(says, trees) = says
BY DEF Is, Takes, Tree

\* What an item does with trees it takes, whatever is behind them.
LEMMA ReadItemOn ==
    ASSUME NEW says, NEW b, ~Is(says, "size"), NEW trees, NEW bytes, NEW requests
    PROVE  ReadItem(Item(says, b), Behind(trees, bytes, requests)) =
           Behind(<<Tree(says, trees)>> \o SubSeq(trees, Takes(says) + 1, Len(trees)),
                  bytes + b, requests)
BY DEF ReadItem, Item, Behind

\* Trees in front of others.
LEMMA Widened ==
    ASSUME NEW T, NEW trees \in Seq(T), NEW U, NEW ws \in Seq(U)
    PROVE  trees \in Seq(T \cup U) /\ ws \in Seq(T \cup U) /\ ws \o trees \in Seq(T \cup U)
<1> DEFINE S == T \cup U
<1>1. trees \in Seq(S) /\ ws \in Seq(S)
  OBVIOUS
<1> HIDE DEF S
<1>2. ws \o trees \in Seq(S)
  BY <1>1
<1> QED BY <1>1, <1>2 DEF S

\* No items add no trees.
LEMMA AddsNone == Adds(<<>>, <<>>, 0)
<1> SUFFICES ASSUME NEW T, NEW trees, NEW bytes, NEW requests, trees \in Seq(T), bytes \in Nat
             PROVE  Behind(trees, bytes, requests) = Behind(<<>> \o trees, 0 + bytes, requests)
  BY ReadNone DEF Adds
<1>1. <<>> \o trees = trees /\ 0 + bytes = bytes
  OBVIOUS
<1> QED BY <1>1

\* An item alone adds the tree it is, and its bytes.
LEMMA AddsItem ==
    ASSUME NEW says, NEW b \in Nat, ~Is(says, "size"), ~Is(says, "list"), ~Is(says, "map")
    PROVE  Adds(<<Item(says, b)>>, <<says>>, b)
<1> SUFFICES ASSUME NEW T, NEW trees, NEW bytes, NEW requests, trees \in Seq(T), bytes \in Nat
             PROVE  ReadItem(Item(says, b), Behind(trees, bytes, requests)) =
                    Behind(<<says>> \o trees, b + bytes, requests)
  BY ReadOne DEF Adds
<1>1. SubSeq(trees, 0 + 1, Len(trees)) = trees /\ bytes + b = b + bytes
  OBVIOUS
<1>2. Takes(says) = 0 /\ Tree(says, trees) = says
  BY Takings
<1>3. ReadItem(Item(says, b), Behind(trees, bytes, requests)) =
        Behind(<<Tree(says, trees)>> \o SubSeq(trees, Takes(says) + 1, Len(trees)),
               bytes + b, requests)
  BY ONLY ~Is(says, "size"), ReadItemOn
<1> QED BY ONLY <1>1, <1>2, <1>3

\* Items behind items add their trees behind the others.
LEMMA AddsBoth ==
    ASSUME NEW I, NEW a, a \in Seq(I), NEW b, b \in Seq(I),
           NEW U, NEW wa, wa \in Seq(U), NEW wb, wb \in Seq(U),
           NEW na, na \in Nat, NEW nb, nb \in Nat, Adds(a, wa, na), Adds(b, wb, nb)
    PROVE  Adds(a \o b, wa \o wb, na + nb)
<1> SUFFICES ASSUME NEW T, NEW trees, NEW bytes, NEW requests, trees \in Seq(T), bytes \in Nat
             PROVE  Read(a \o b, Behind(trees, bytes, requests)) =
                    Behind((wa \o wb) \o trees, (na + nb) + bytes, requests)
  BY DEF Adds
<1> DEFINE S == T \cup U
<1>1. trees \in Seq(S) /\ wa \in Seq(S) /\ wb \in Seq(S) /\ wb \o trees \in Seq(S)
  BY Widened
<1> HIDE DEF S
<1>2. Read(b, Behind(trees, bytes, requests)) = Behind(wb \o trees, nb + bytes, requests)
  BY ONLY trees \in Seq(T), bytes \in Nat, Adds(b, wb, nb) DEF Adds
<1>3. nb + bytes \in Nat
  OBVIOUS
<1> DEFINE more == wb \o trees
           longer == nb + bytes
<1>8. more \in Seq(S) /\ longer \in Nat
  BY <1>1, <1>3
<1> HIDE DEF more, longer
<1>4. Read(a, Behind(more, longer, requests)) = Behind(wa \o more, na + longer, requests)
  BY ONLY <1>8, Adds(a, wa, na) DEF Adds
<1>5. Read(a \o b, Behind(trees, bytes, requests)) =
        Behind(wa \o (wb \o trees), na + (nb + bytes), requests)
  BY <1>2, <1>4, ReadBoth DEF more, longer
<1>6. wa \o (wb \o trees) = (wa \o wb) \o trees
  BY ONLY <1>1, ConcatAssociative, SMTT(40)
<1>7. na + (nb + bytes) = (na + nb) + bytes
  OBVIOUS
<1> QED BY <1>5, <1>6, <1>7

\* The item of a list or a map takes the trees behind it.
LEMMA AddsTaking ==
    ASSUME NEW I, NEW items, items \in Seq(I), NEW U, NEW ws, ws \in Seq(U),
           NEW says, NEW tree, NEW b, b \in Nat, NEW m, m \in Nat, Adds(items, ws, m),
           ~Is(says, "size"), Takes(says) = Len(ws),
           \A T, trees : trees \in Seq(T) => Tree(says, ws \o trees) = tree
    PROVE  Adds(<<Item(says, b)>> \o items, <<tree>>, b + m)
<1> DEFINE its == <<Item(says, b)>> \o items
           one == <<tree>>
<1> SUFFICES ASSUME NEW T, NEW trees, NEW bytes, NEW requests, trees \in Seq(T), bytes \in Nat
             PROVE  Read(its, Behind(trees, bytes, requests)) =
                    Behind(one \o trees, (b + m) + bytes, requests)
  <2> HIDE DEF its, one
  <2>1. Adds(its, one, b + m)
    BY DEF Adds
  <2> QED BY <2>1 DEF its, one
<1>1. Read(items, Behind(trees, bytes, requests)) = Behind(ws \o trees, m + bytes, requests)
  BY DEF Adds
<1> DEFINE S == T \cup U
<1>2. trees \in Seq(S) /\ ws \in Seq(S)
  BY Widened
<1> HIDE DEF S
<1>3. SubSeq(ws \o trees, Len(ws) + 1, Len(ws \o trees)) = trees
  BY <1>2
<1> DEFINE all == ws \o trees
<1>6. Tree(says, all) = tree
  BY <1>2
<1> HIDE DEF all
<1>7. ReadItem(Item(says, b), Behind(all, m + bytes, requests)) =
        Behind(<<Tree(says, all)>> \o SubSeq(all, Takes(says) + 1, Len(all)),
               (m + bytes) + b, requests)
  BY ONLY ~Is(says, "size"), ReadItemOn
<1>4. ReadItem(Item(says, b), Behind(all, m + bytes, requests)) =
        Behind(<<tree>> \o trees, (m + bytes) + b, requests)
  BY ONLY <1>3, <1>6, <1>7, Takes(says) = Len(ws) DEF all
<1>5. (m + bytes) + b = (b + m) + bytes
  OBVIOUS
<1>8. Read(<<Item(says, b)>> \o items, Behind(trees, bytes, requests)) =
        ReadItem(Item(says, b), Read(items, Behind(trees, bytes, requests)))
  BY ONLY items \in Seq(I), ReadFirst
<1> QED BY <1>1, <1>4, <1>5, <1>8 DEF all

\* The item of a list makes one tree of the trees behind it.
LEMMA AddsList ==
    ASSUME NEW I, NEW items, items \in Seq(I), NEW U, NEW ws, ws \in Seq(U),
           NEW b, b \in Nat, NEW m, m \in Nat, Adds(items, ws, m)
    PROVE  Adds(<<Item([list |-> Len(ws)], b)>> \o items, <<[list |-> ws]>>, b + m)
<1>1. ASSUME NEW T, NEW trees, trees \in Seq(T)
      PROVE  Tree([list |-> Len(ws)], ws \o trees) = [list |-> ws]
  <2> DEFINE S == T \cup U
  <2>1. trees \in Seq(S) /\ ws \in Seq(S)
    BY <1>1, Widened
  <2> HIDE DEF S
  <2>2. SubSeq(ws \o trees, 1, Len(ws)) = ws
    BY <2>1
  <2> QED BY <2>2, Takings
<1> DEFINE says == [list |-> Len(ws)]
           tree == [list |-> ws]
<1>2. ~Is(says, "size") /\ Takes(says) = Len(ws)
  BY Takings
<1> HIDE DEF says, tree
<1>3. \A T, trees : trees \in Seq(T) => Tree(says, ws \o trees) = tree
  BY <1>1 DEF says, tree
<1>4. Adds(<<Item(says, b)>> \o items, <<tree>>, b + m)
  BY <1>2, <1>3, AddsTaking
<1> QED BY <1>4 DEF says, tree

\* The item of a map makes one tree of the pairs behind it.
LEMMA AddsMap ==
    ASSUME NEW I, NEW items, items \in Seq(I), NEW U, NEW ws, ws \in Seq(U),
           NEW n, n \in Nat, Len(ws) = 2 * n,
           NEW b, b \in Nat, NEW m, m \in Nat, Adds(items, ws, m)
    PROVE  Adds(<<Item([map |-> n], b)>> \o items,
                <<[map |-> [i \in 1..n |-> <<ws[2 * i - 1], ws[2 * i]>>]]>>, b + m)
<1> DEFINE says == [map |-> n]
           tree == [map |-> [i \in 1..n |-> <<ws[2 * i - 1], ws[2 * i]>>]]
<1>1. ASSUME NEW T, NEW trees, trees \in Seq(T) PROVE Tree(says, ws \o trees) = tree
  <2> DEFINE S == T \cup U
             all == ws \o trees
  <2>1. trees \in Seq(S) /\ ws \in Seq(S)
    BY <1>1, Widened
  <2> HIDE DEF S
  <2>2. \A i \in 1..Len(ws) : all[i] = ws[i]
    BY <2>1
  <2>3. \A i \in 1..n : 2 * i - 1 \in 1..Len(ws) /\ 2 * i \in 1..Len(ws)
    OBVIOUS
  <2> HIDE DEF all
  <2>4. [i \in 1..n |-> <<all[2 * i - 1], all[2 * i]>>] =
        [i \in 1..n |-> <<ws[2 * i - 1], ws[2 * i]>>]
    BY <2>2, <2>3
  <2>5. Tree([map |-> n], all) = [map |-> [i \in 1..n |-> <<all[2 * i - 1], all[2 * i]>>]]
    BY ONLY Takings
  <2> QED BY <2>4, <2>5 DEF all
<1>2. ~Is(says, "size") /\ Takes(says) = Len(ws)
  BY Takings
<1> HIDE DEF says, tree
<1>3. \A T, trees : trees \in Seq(T) => Tree(says, ws \o trees) = tree
  BY <1>1
<1>4. Adds(<<Item(says, b)>> \o items, <<tree>>, b + m)
  BY <1>2, <1>3, AddsTaking
<1> QED BY <1>4 DEF says, tree

AddEach(n, seqs, W, f) == \A i \in 1..n : Adds(seqs[i], W[i], f[i])
AreNats(n, f) == DOMAIN f = 1..n /\ \A i \in 1..n : f[i] \in Nat

\* One behind the other: the trees of all of them, and the sum of their bytes.
LEMMA AddsAll ==
    ASSUME NEW n, n \in Nat, NEW I, NEW U, NEW seqs, NEW W, NEW f,
           AreSeqs(n, seqs, I), seqs = [i \in 1..n |-> seqs[i]],
           AreSeqs(n, W, U), W = [i \in 1..n |-> W[i]],
           AreNats(n, f), AddEach(n, seqs, W, f)
    PROVE  /\ Adds(FlattenSeq(seqs), FlattenSeq(W), SumFunction(f))
           /\ FlattenSeq(seqs) \in Seq(I) /\ FlattenSeq(W) \in Seq(U) /\ SumFunction(f) \in Nat
<1>q. PICK q : Flattening(n, seqs, I, q)
  BY ONLY n \in Nat, AreSeqs(n, seqs, I), seqs = [i \in 1..n |-> seqs[i]], PartialSequences
<1>1. /\ \A k \in 0..n : q[k] \in Seq(I)
     /\ q[0] = <<>> /\ q[n] = FlattenSeq(seqs)
     /\ \A k \in 1..n : q[k] = q[k - 1] \o seqs[k]
  BY <1>q DEF Flattening
<1>w. PICK w : Flattening(n, W, U, w)
  BY ONLY n \in Nat, AreSeqs(n, W, U), W = [i \in 1..n |-> W[i]], PartialSequences
<1>2. /\ \A k \in 0..n : w[k] \in Seq(U)
     /\ w[0] = <<>> /\ w[n] = FlattenSeq(W)
     /\ \A k \in 1..n : w[k] = w[k - 1] \o W[k]
  BY <1>w DEF Flattening
<1>3. PICK t : /\ t \in [0..n -> Int] /\ t[0] = 0 /\ t[n] = SumFunction(f)
               /\ \A k \in 1..n : t[k] = t[k - 1] + f[k]
  <2>1. AreInts(1..n, f) /\ DOMAIN f = 1..n
    BY DEF AreNats, AreInts
  <2> QED BY ONLY n \in Nat, <2>1, PartialSums
<1> DEFINE S == {k \in 0..n : t[k] \in Nat /\ Adds(q[k], w[k], t[k])}
<1>4. 0 \in S
  BY <1>1, <1>2, <1>3, AddsNone
<1>5. ASSUME NEW k \in 1..n, k - 1 \in S PROVE k \in S
  <2>1. /\ q[k - 1] \in Seq(I) /\ seqs[k] \in Seq(I) /\ w[k - 1] \in Seq(U) /\ W[k] \in Seq(U)
        /\ t[k - 1] \in Nat /\ f[k] \in Nat
    BY <1>1, <1>2, <1>5 DEF AreSeqs, AreNats
  <2>2. Adds(q[k - 1], w[k - 1], t[k - 1]) /\ Adds(seqs[k], W[k], f[k])
    BY <1>5 DEF AddEach
  <2>3. Adds(q[k - 1] \o seqs[k], w[k - 1] \o W[k], t[k - 1] + f[k])
    BY ONLY <2>1, <2>2, AddsBoth
  <2>4. q[k] = q[k - 1] \o seqs[k] /\ w[k] = w[k - 1] \o W[k] /\ t[k] = t[k - 1] + f[k]
    BY <1>1, <1>2, <1>3
  <2>5. t[k] \in Nat /\ Adds(q[k], w[k], t[k])
    BY ONLY <2>1, <2>3, <2>4
  <2> QED BY <2>5
<1>6. \A k \in 0..n : k \in S
  <2> HIDE DEF S
  <2> QED BY ONLY n \in Nat, <1>4, <1>5, Reads!Upwards
<1>7. n \in S /\ n \in 0..n
  BY <1>6
<1> QED BY <1>1, <1>2, <1>3, <1>7

\* Sequences of items, each of one tree, add these trees and all their bytes.
LEMMA Singles ==
    ASSUME NEW n, n \in Nat, NEW w
    PROVE  FlattenSeq([i \in 1..n |-> <<w[i]>>]) = [i \in 1..n |-> w[i]]
<1> DEFINE U == {w[i] : i \in 1..n}
           W == [i \in 1..n |-> <<w[i]>>]
<1>1. AreSeqs(n, W, U) /\ W = [i \in 1..n |-> W[i]]
  BY DEF AreSeqs
<1>2. \A k \in 1..n : W[k] = <<w[k]>> /\ w[k] \in U
  OBVIOUS
<1> HIDE DEF W, U
<1>q. PICK q : Flattening(n, W, U, q)
  BY ONLY n \in Nat, <1>1, PartialSequences
<1>3. /\ \A k \in 0..n : q[k] \in Seq(U)
     /\ q[0] = <<>> /\ q[n] = FlattenSeq(W)
     /\ \A k \in 1..n : q[k] = q[k - 1] \o W[k]
  BY <1>q DEF Flattening
<1> DEFINE S == {k \in 0..n : Len(q[k]) = k /\ \A i \in 1..k : q[k][i] = w[i]}
<1>4. 0 \in S
  BY <1>3
<1>5. ASSUME NEW k \in 1..n, k - 1 \in S PROVE k \in S
  <2> DEFINE p == q[k - 1]
             e == w[k]
  <2>1. p \in Seq(U) /\ e \in U /\ q[k] = p \o <<e>> /\ Len(p) = k - 1
        /\ \A i \in 1..k - 1 : p[i] = w[i]
    BY <1>2, <1>3, <1>5
  <2> HIDE DEF p
  <2>2. Len(q[k]) = k /\ \A i \in 1..k : q[k][i] = IF i <= k - 1 THEN p[i] ELSE e
    <3> HIDE DEF e
    <3> QED BY ONLY <2>1, k \in 1..n, n \in Nat
  <2>3. \A i \in 1..k : q[k][i] = w[i]
    <3>1. \A i \in 1..k : i <= k - 1 => i \in 1..k - 1
      OBVIOUS
    <3>2. \A i \in 1..k : ~(i <= k - 1) => i = k
      OBVIOUS
    <3> QED BY <2>1, <2>2, <3>1, <3>2
  <2> QED BY <2>2, <2>3
<1>6. \A k \in 0..n : k \in S
  <2> HIDE DEF S
  <2> QED BY ONLY n \in Nat, <1>4, <1>5, Reads!Upwards
<1>7. n \in S /\ q[n] \in Seq(U)
  BY <1>3, <1>6
<1>8. FlattenSeq(W) \in Seq(U) /\ Len(FlattenSeq(W)) = n /\ \A i \in 1..n : FlattenSeq(W)[i] = w[i]
  BY <1>3, <1>7
<1>9. FlattenSeq(W) = [i \in 1..n |-> w[i]]
  BY ONLY n \in Nat, <1>8
<1> QED BY <1>9 DEF W

Paired(n, x, y, flat) ==
    /\ Len(flat) = 2 * n
    /\ \A i \in 1..n : flat[2 * i - 1] = x[i] /\ flat[2 * i] = y[i]

\* Sequences of items, each of two trees, add them in pairs.
LEMMA Pairs ==
    ASSUME NEW n, n \in Nat, NEW x, NEW y
    PROVE  Paired(n, x, y, FlattenSeq([i \in 1..n |-> <<x[i], y[i]>>]))
<1> DEFINE U == {x[i] : i \in 1..n} \cup {y[i] : i \in 1..n}
           W == [i \in 1..n |-> <<x[i], y[i]>>]
<1>1. AreSeqs(n, W, U) /\ W = [i \in 1..n |-> W[i]]
  BY DEF AreSeqs
<1>2. \A k \in 1..n : W[k] = <<x[k], y[k]>> /\ x[k] \in U /\ y[k] \in U
  OBVIOUS
<1> HIDE DEF W, U
<1>q. PICK q : Flattening(n, W, U, q)
  BY ONLY n \in Nat, <1>1, PartialSequences
<1>3. /\ \A k \in 0..n : q[k] \in Seq(U)
     /\ q[0] = <<>> /\ q[n] = FlattenSeq(W)
     /\ \A k \in 1..n : q[k] = q[k - 1] \o W[k]
  BY <1>q DEF Flattening
<1> DEFINE P(k) == Len(q[k]) = 2 * k /\ \A i \in 1..k : q[k][2 * i - 1] = x[i] /\ q[k][2 * i] = y[i]
           S == {k \in 0..n : P(k)}
<1>4. 0 \in S
  BY <1>3
<1>5. ASSUME NEW k \in 1..n, k - 1 \in S PROVE k \in S
  <2> DEFINE p == q[k - 1]
             e == x[k]
             f == y[k]
  <2>1. p \in Seq(U) /\ e \in U /\ f \in U /\ q[k] = p \o <<e, f>> /\ Len(p) = 2 * (k - 1)
        /\ \A i \in 1..k - 1 : p[2 * i - 1] = x[i] /\ p[2 * i] = y[i]
    BY <1>2, <1>3, <1>5
  <2> HIDE DEF p
  <2>2. /\ Len(q[k]) = 2 * k
        /\ \A j \in 1..2 * k : q[k][j] = IF j <= 2 * k - 2 THEN p[j]
                                         ELSE IF j = 2 * k - 1 THEN e ELSE f
    <3> DEFINE m == 2 * (k - 1)
    <3>1. m \in Nat /\ Len(p) = m
      BY <2>1
    <3>2. 2 * k = m + 2 /\ 2 * k - 2 = m /\ 2 * k - 1 = m + 1
      OBVIOUS
    <3> HIDE DEF e, f, m
    <3>3. /\ Len(p \o <<e, f>>) = m + 2
          /\ \A j \in 1..m + 2 : (p \o <<e, f>>)[j] = IF j <= m THEN p[j]
                                                   ELSE IF j = m + 1 THEN e ELSE f
      BY ONLY <2>1, <3>1
    <3> QED BY ONLY <2>1, <3>2, <3>3
  <2>3. ASSUME NEW i \in 1..k PROVE q[k][2 * i - 1] = x[i] /\ q[k][2 * i] = y[i]
    <3>1. 2 * i - 1 \in 1..2 * k /\ 2 * i \in 1..2 * k
      OBVIOUS
    <3>2. CASE i = k
      BY <2>2, <3>1, <3>2
    <3>3. CASE i # k
      <4>1. i \in 1..k - 1 /\ 2 * i - 1 <= 2 * k - 2 /\ 2 * i <= 2 * k - 2
        BY <3>3
      <4> QED BY <2>1, <2>2, <3>1, <4>1
    <3> QED BY <3>2, <3>3
  <2>4. P(k)
    BY <2>2, <2>3
  <2> QED BY <2>4
<1>6. \A k \in 0..n : k \in S
  <2> HIDE DEF S
  <2> QED BY ONLY n \in Nat, <1>4, <1>5, Reads!Upwards
<1>7. P(n)
  <2>1. n \in 0..n
    OBVIOUS
  <2>2. n \in S
    <3> HIDE DEF S
    <3> QED BY ONLY <1>6, <2>1
  <2> HIDE DEF P
  <2> QED BY ONLY <2>2 DEF S
<1> QED BY <1>3, <1>7 DEF W, Paired

-----------------------------------------------------------------------------
(* Values, what is below them, and what is defined by what is below them.  *)

\* What is in an array, and nil, which stands for what is not there.
Inside(v, w) == w \in Values /\ Depth[w] < Depth[v]

\* What an array has is in it, one level below.
LEMMA Elemental ==
    ASSUME NEW v, v \in Values, Is(v, "array")
    PROVE  /\ IsArray(v) /\ Count(v) \in Nat /\ v.array \in Seq(Index \X Values)
           /\ DOMAIN v.array = 1..Count(v)
           /\ \A i \in 1..Count(v) :
                /\ v.array[i][1] \in Index
                /\ Inside(v, v.array[i][2]) /\ Inside(v, Elements(v)[i])
<1>1. IsArray(v)
  <2>1. v \notin Scalars
    BY DEF Scalars, Is, Nil, Object
  <2> QED BY <2>1, ValuesAssumption
<1>2. v.array \in Seq(Index \X Values)
  BY <1>1 DEF IsArray
<1>3. Count(v) \in Nat /\ DOMAIN v.array = 1..Count(v)
  BY <1>2 DEF Count
<1>4. ASSUME NEW i \in 1..Count(v)
      PROVE  v.array[i][1] \in Index /\ Inside(v, v.array[i][2])
  <2>1. v.array[i] \in Index \X Values
    BY <1>2, <1>3
  <2> QED BY <1>1, <1>3, <2>1 DEF IsArray, Inside
<1>5. ASSUME NEW i \in 1..Count(v) PROVE Inside(v, Elements(v)[i])
  <2>1. CASE Has(v, Long(i - 1))
    <3>1. Elements(v)[i] = At(v, Long(i - 1))
      BY <2>1 DEF Elements
    <3> DEFINE pair == CHOOSE pair \in ToSet(v.array) : pair[1] = Long(i - 1)
    <3>2. pair \in ToSet(v.array)
      BY <2>1 DEF Has, ArrayKeys
    <3>3. At(v, Long(i - 1)) = pair[2]
      BY DEF At
    <3> HIDE DEF pair
    <3>4. PICK j \in 1..Count(v) : pair = v.array[j]
      BY <1>3, <3>2 DEF ToSet
    <3> QED BY <1>4, <3>1, <3>3, <3>4
  <2>2. CASE ~Has(v, Long(i - 1))
    <3>1. Elements(v)[i] = Nil
      BY <2>2 DEF Elements
    <3> QED BY <1>1, <3>1, ValuesAssumption DEF IsArray, Inside
  <2> QED BY <2>1, <2>2
<1> QED BY <1>1, <1>2, <1>3, <1>4, <1>5

\* The definitions of Sizeof, Pack, Means and NotMistaken, each with what it
\* has below as an argument.
SizeofStep(p, v, sizeof) ==
    CASE Is(v, "array")  -> IF IsHash(v) THEN SizeofHash(v, sizeof)
                            ELSE SizeofArray(v, sizeof)
      [] Is(v, "int")    -> SizeofLong(v.int)
      [] Is(v, "double") -> 9
      [] Is(v, "str")    -> SizeofString(v.str)
      [] OTHER           -> 1
PackStep(p, v, pack) ==
    CASE Is(v, "array")  -> IF IsHash(v) THEN PackHash(v, pack) ELSE PackArray(v, pack)
      [] Is(v, "int")    -> PackLong(v.int)
      [] Is(v, "double") -> <<Item(v, 9)>>
      [] Is(v, "bool")   -> <<Item(v, 1)>>
      [] Is(v, "str")    -> PackString(v.str)
      [] OTHER           -> PackNil
MeansStep(p, v, means) ==
    CASE Is(v, "array") ->
            IF IsList(v)
            THEN [list |-> [i \in 1..Count(v) |-> means[At(v, Long(i - 1))]]]
            ELSE [map |-> [i \in 1..Count(v) |->
                            <<v.array[i][1], means[v.array[i][2]]>>]]
      [] Is(v, "object")  -> Nil
      [] OTHER            -> v
NotMistakenStep(p, v, not) ==
    Is(v, "array") =>
        /\ IsHash(v) <=> ~IsList(v)
        /\ \A i \in DOMAIN v.array : not[v.array[i][2]]

Sizeofs == INSTANCE BeeRecursion WITH def <- SizeofStep
Packs == INSTANCE BeeRecursion WITH def <- PackStep
Meanings == INSTANCE BeeRecursion WITH def <- MeansStep
NotMistakens == INSTANCE BeeRecursion WITH def <- NotMistakenStep

SameInside(v, g, h) == \A w : Inside(v, w) => g[w] = h[w]

\* Sizeof is a function, and has what its definition says.
LEMMA SizeofIs ==
    ASSUME NEW v, v \in Values
    PROVE  Sizeof[v] = SizeofStep(0, v, Sizeof)
<1>1. ASSUME NEW x \in Values, NEW g, NEW h,
             \A y \in Values : Depth[y] < Depth[x] => g[y] = h[y]
      PROVE  SizeofStep(0, x, g) = SizeofStep(0, x, h)
  <2>1. SameInside(x, g, h)
    BY ONLY <1>1 DEF SameInside, Inside
  <2>2. CASE Is(x, "array")
    <3>1. \A i \in 1..Count(x) : g[x.array[i][2]] = h[x.array[i][2]]
                              /\ g[Elements(x)[i]] = h[Elements(x)[i]]
      BY ONLY <2>1, <2>2, x \in Values, Elemental DEF SameInside
    <3>2. SizeofHash(x, g) = SizeofHash(x, h)
      BY ONLY <3>1 DEF SizeofHash
    <3>3. SizeofArray(x, g) = SizeofArray(x, h)
      BY ONLY <3>1 DEF SizeofArray
    <3> QED BY ONLY <3>2, <3>3, Zenon DEF SizeofStep
  <2>3. CASE ~Is(x, "array")
    BY ONLY <2>3 DEF SizeofStep
  <2> QED BY ONLY <2>2, <2>3
<1>2. Sizeofs!Local(0, Values, Depth)
  BY <1>1 DEF Sizeofs!Local
<1>3. Depth \in [Values -> Nat]
  BY ValuesAssumption
<1>4. \E f : f = [x \in Values |-> SizeofStep(0, x, f)]
  BY ONLY <1>2, <1>3, Sizeofs!Recursion
<1> DEFINE it == CHOOSE f : f = [x \in Values |-> SizeofStep(0, x, f)]
<1>6. it = [x \in Values |-> SizeofStep(0, x, it)]
  BY ONLY <1>4, Zenon
<1>7. Sizeof = it
  BY ONLY Zenon DEF Sizeof, SizeofStep
<1> HIDE DEF it
<1>5. Sizeof = [x \in Values |-> SizeofStep(0, x, Sizeof)]
  BY ONLY <1>6, <1>7
<1> QED BY ONLY <1>5, v \in Values, Zenon

\* So is Pack.
LEMMA PackIs ==
    ASSUME NEW v, v \in Values
    PROVE  Pack[v] = PackStep(0, v, Pack)
<1>1. ASSUME NEW x \in Values, NEW g, NEW h,
             \A y \in Values : Depth[y] < Depth[x] => g[y] = h[y]
      PROVE  PackStep(0, x, g) = PackStep(0, x, h)
  <2>1. SameInside(x, g, h)
    BY ONLY <1>1 DEF SameInside, Inside
  <2>2. CASE Is(x, "array")
    <3>1. \A i \in 1..Count(x) : g[x.array[i][2]] = h[x.array[i][2]]
                              /\ g[Elements(x)[i]] = h[Elements(x)[i]]
      BY ONLY <2>1, <2>2, x \in Values, Elemental DEF SameInside
    <3>2. PackHash(x, g) = PackHash(x, h)
      BY ONLY <3>1 DEF PackHash
    <3>3. PackArray(x, g) = PackArray(x, h)
      BY ONLY <3>1 DEF PackArray
    <3> QED BY ONLY <3>2, <3>3, Zenon DEF PackStep
  <2>3. CASE ~Is(x, "array")
    BY ONLY <2>3 DEF PackStep
  <2> QED BY ONLY <2>2, <2>3
<1>2. Packs!Local(0, Values, Depth)
  BY <1>1 DEF Packs!Local
<1>3. Depth \in [Values -> Nat]
  BY ValuesAssumption
<1>4. \E f : f = [x \in Values |-> PackStep(0, x, f)]
  BY ONLY <1>2, <1>3, Packs!Recursion
<1> DEFINE it == CHOOSE f : f = [x \in Values |-> PackStep(0, x, f)]
<1>6. it = [x \in Values |-> PackStep(0, x, it)]
  BY ONLY <1>4, Zenon
<1>7. Pack = it
  BY ONLY Zenon DEF Pack, PackStep
<1> HIDE DEF it
<1>5. Pack = [x \in Values |-> PackStep(0, x, Pack)]
  BY ONLY <1>6, <1>7
<1> QED BY ONLY <1>5, v \in Values, Zenon

\* So is Means.
LEMMA MeansIs ==
    ASSUME NEW v, v \in Values
    PROVE  Means[v] = MeansStep(0, v, Means)
<1>1. ASSUME NEW x \in Values, NEW g, NEW h,
             \A y \in Values : Depth[y] < Depth[x] => g[y] = h[y]
      PROVE  MeansStep(0, x, g) = MeansStep(0, x, h)
  <2>1. SameInside(x, g, h)
    BY ONLY <1>1 DEF SameInside, Inside
  <2>2. CASE Is(x, "array")
    <3>1. \A i \in 1..Count(x) : g[x.array[i][2]] = h[x.array[i][2]]
                              /\ g[Elements(x)[i]] = h[Elements(x)[i]]
      BY ONLY <2>1, <2>2, x \in Values, Elemental DEF SameInside
    <3>2. CASE IsList(x)
      <4>1. \A i \in 1..Count(x) : Elements(x)[i] = At(x, Long(i - 1))
        <5>1. \A i \in 1..Count(x) : i - 1 \in 0..Count(x) - 1
          BY ONLY <2>2, x \in Values, Elemental
        <5> QED BY ONLY <3>2, <5>1 DEF IsList, Elements, Has
      <4>2. \A i \in 1..Count(x) : g[At(x, Long(i - 1))] = h[At(x, Long(i - 1))]
        BY ONLY <3>1, <4>1
      <4> QED BY ONLY <2>2, <3>2, <4>2 DEF MeansStep
    <3>3. CASE ~IsList(x)
      BY ONLY <2>2, <3>3, <3>1 DEF MeansStep
    <3> QED BY ONLY <3>2, <3>3
  <2>3. CASE ~Is(x, "array")
    BY ONLY <2>3 DEF MeansStep
  <2> QED BY ONLY <2>2, <2>3
<1>2. Meanings!Local(0, Values, Depth)
  BY <1>1 DEF Meanings!Local
<1>3. Depth \in [Values -> Nat]
  BY ValuesAssumption
<1>4. \E f : f = [x \in Values |-> MeansStep(0, x, f)]
  BY ONLY <1>2, <1>3, Meanings!Recursion
<1>5. Means = [x \in Values |-> MeansStep(0, x, Means)]
  BY ONLY <1>4, Zenon DEF Means, MeansStep
<1> QED BY ONLY <1>5, v \in Values, Zenon

\* So is NotMistaken.
LEMMA NotMistakenIs ==
    ASSUME NEW v, v \in Values
    PROVE  NotMistaken[v] = NotMistakenStep(0, v, NotMistaken)
<1>1. ASSUME NEW x \in Values, NEW g, NEW h,
             \A y \in Values : Depth[y] < Depth[x] => g[y] = h[y]
      PROVE  NotMistakenStep(0, x, g) = NotMistakenStep(0, x, h)
  <2>1. SameInside(x, g, h)
    BY ONLY <1>1 DEF SameInside, Inside
  <2>2. CASE Is(x, "array")
    <3>1. \A i \in 1..Count(x) : g[x.array[i][2]] = h[x.array[i][2]]
      BY ONLY <2>1, <2>2, x \in Values, Elemental DEF SameInside
    <3>2. DOMAIN x.array = 1..Count(x)
      BY ONLY <2>2, x \in Values, Elemental
    <3>3. (\A i \in DOMAIN x.array : g[x.array[i][2]]) = (\A i \in DOMAIN x.array : h[x.array[i][2]])
      BY ONLY <3>1, <3>2, Zenon
    <3> QED BY ONLY <3>3, Zenon DEF NotMistakenStep
  <2>3. CASE ~Is(x, "array")
    BY ONLY <2>3, Zenon DEF NotMistakenStep
  <2> QED BY ONLY <2>2, <2>3
<1>2. NotMistakens!Local(0, Values, Depth)
  BY <1>1, Zenon DEF NotMistakens!Local
<1>3. Depth \in [Values -> Nat]
  BY ValuesAssumption
<1>4. \E f : f = [x \in Values |-> NotMistakenStep(0, x, f)]
  BY ONLY <1>2, <1>3, NotMistakens!Recursion, SMTT(40)
<1>5. NotMistaken = [x \in Values |-> NotMistakenStep(0, x, NotMistaken)]
  BY ONLY <1>4, Zenon DEF NotMistaken, NotMistakenStep
<1> QED BY ONLY <1>5, v \in Values, Zenon

-----------------------------------------------------------------------------
(* What a value is packed to.                                              *)

Says == Scalars \cup [list : Nat] \cup [map : Nat] \cup [size : Nat]
Positive == Nat \ {0}
Items == [says : Says, bytes : Positive]

\* There are as many classes as steps, and one more.
LEMMA ClassRange ==
    ASSUME NEW m, m \in Nat, NEW steps, DOMAIN steps = 1..m, NEW n
    PROVE  Class(steps, n) \in 1..m + 1
<1> DEFINE below == {i \in DOMAIN steps : steps[i] < n}
           all == 1..m
<1>1. IsFiniteSet(all) /\ Cardinality(all) = m
  BY FS_Interval
<1>2. below \in SUBSET all
  OBVIOUS
<1> HIDE DEF below, all
<1>3. IsFiniteSet(below) /\ Cardinality(below) <= m
  BY <1>1, <1>2, FS_Subset
<1>4. Cardinality(below) \in Nat
  BY <1>3, FS_CardinalityType
<1>5. Class(steps, n) = 1 + Cardinality(below)
  BY DEF Class, below
<1> QED BY <1>3, <1>4, <1>5

\* Every number, string and length takes at least a byte.
LEMMA BytesType ==
    /\ \A n : UintBytes(n) \in Positive /\ IntBytes(n) \in Positive
    /\ \A n : SeqBytes(n) \in Positive /\ SizeofLong(n) \in Positive
    /\ \A n : n \in Nat => StrBytes(n) \in Positive
<1> DEFINE of4 == <<1, 2, 3, 5, 9>>
           of3 == <<1, 2, 3, 5>>
           of2 == <<1, 3, 5>>
<1>1. /\ \A k \in 1..4 + 1 : of4[k] \in Positive
      /\ \A k \in 1..3 + 1 : of3[k] \in Positive
      /\ \A k \in 1..2 + 1 : of2[k] \in Positive
  <2>1. 1..4 + 1 = {1, 2, 3, 4, 5} /\ 1..3 + 1 = {1, 2, 3, 4} /\ 1..2 + 1 = {1, 2, 3}
    OBVIOUS
  <2> QED BY <2>1 DEF Positive
<1>2. /\ DOMAIN UintSteps = 1..4 /\ DOMAIN IntSteps = 1..4
      /\ DOMAIN StrSteps = 1..3 /\ DOMAIN SeqSteps = 1..2
  BY StepsAssumption
<1>3. \A n : /\ UintBytes(n) = of4[Class(UintSteps, n)] /\ IntBytes(n) = of4[Class(IntSteps, -n)]
             /\ StrBytes(n) = n + of3[Class(StrSteps, n)] /\ SeqBytes(n) = of2[Class(SeqSteps, n)]
  BY DEF UintBytes, IntBytes, StrBytes, SeqBytes
<1> HIDE DEF of4, of3, of2
<1>4. 4 \in Nat /\ 3 \in Nat /\ 2 \in Nat
  OBVIOUS
<1>5. \A n : Class(UintSteps, n) \in 1..4 + 1 /\ Class(IntSteps, n) \in 1..4 + 1
  BY ONLY <1>2, <1>4, ClassRange
<1>6. \A n : Class(StrSteps, n) \in 1..3 + 1 /\ Class(SeqSteps, n) \in 1..2 + 1
  BY ONLY <1>2, <1>4, ClassRange
<1>7. \A n : UintBytes(n) \in Positive /\ IntBytes(n) \in Positive /\ SeqBytes(n) \in Positive
  BY ONLY <1>1, <1>3, <1>5, <1>6
<1>8. ASSUME NEW n, n \in Nat PROVE StrBytes(n) \in Positive
  <2>1. of3[Class(StrSteps, n)] \in Positive
    BY ONLY <1>1, <1>6
  <2> QED BY ONLY <1>3, <1>8, <2>1 DEF Positive
<1> QED BY ONLY <1>7, <1>8 DEF SizeofLong

\* One item for a number, for a string, and for the key of a pair.
IsOne(items, w, n) ==
    items \in Seq(Items) /\ n \in Positive /\ Adds(items, <<w>>, n)

\* An item of no list and no map adds itself.
LEMMA OneItem ==
    ASSUME NEW says, says \in Scalars, NEW b, b \in Positive
    PROVE  IsOne(<<Item(says, b)>>, says, b)
<1>1. b \in Nat /\ Item(says, b) \in Items
  BY DEF Positive, Items, Item, Says
<1>2. ~Is(says, "size") /\ ~Is(says, "list") /\ ~Is(says, "map")
  BY DEF Scalars, Is, Nil, Object
<1>3. Adds(<<Item(says, b)>>, <<says>>, b)
  BY <1>1, <1>2, AddsItem
<1>4. <<Item(says, b)>> \in Seq(Items)
  BY <1>1
<1> QED BY <1>3, <1>4 DEF IsOne

\* A number adds itself, with the bytes that are counted for it.
LEMMA OneLong ==
    ASSUME NEW n, n \in Longs
    PROVE  IsOne(PackLong(n), Long(n), SizeofLong(n))
<1>1. Long(n) \in Scalars
  BY DEF Long, Scalars
<1>2. SizeofLong(n) \in Positive
  BY BytesType
<1> DEFINE says == Long(n)
           b == SizeofLong(n)
<1>3. PackLong(n) = <<Item(says, b)>> /\ says \in Scalars /\ b \in Positive
  BY <1>1, <1>2 DEF PackLong
<1> HIDE DEF says, b
<1>4. IsOne(PackLong(n), says, b)
  BY <1>3, OneItem
<1> QED BY <1>4 DEF says, b

\* So does a string.
LEMMA OneString ==
    ASSUME NEW s, s \in Texts
    PROVE  IsOne(PackString(s), Str(s), SizeofString(s))
<1>1. Str(s) \in Scalars
  BY DEF Str, Scalars
<1>2. SizeofString(s) \in Positive
  BY BytesType DEF SizeofString, Texts
<1> DEFINE says == Str(s)
           b == SizeofString(s)
<1>3. PackString(s) = <<Item(says, b)>> /\ says \in Scalars /\ b \in Positive
  BY <1>1, <1>2 DEF PackString
<1> HIDE DEF says, b
<1>4. IsOne(PackString(s), says, b)
  BY <1>3, OneItem
<1> QED BY <1>4 DEF says, b

\* So does the key of a pair.
LEMMA OneIndex ==
    ASSUME NEW key, key \in Index
    PROVE  IsOne(PackIndex(key), key, SizeofIndex(key))
<1>1. CASE key \in [int : Longs]
  <2>1. Is(key, "int") /\ key.int \in Longs /\ key = Long(key.int)
    BY <1>1 DEF Is, Long
  <2> DEFINE n == key.int
  <2>2. IsOne(PackLong(n), Long(n), SizeofLong(n))
    BY <2>1, OneLong
  <2> QED BY <2>1, <2>2 DEF PackIndex, SizeofIndex
<1>2. CASE key \in [str : Texts]
  <2>1. ~Is(key, "int") /\ key.str \in Texts /\ key = Str(key.str)
    BY <1>2 DEF Is, Str
  <2> DEFINE s == key.str
  <2>2. IsOne(PackString(s), Str(s), SizeofString(s))
    BY <2>1, OneString
  <2> QED BY <2>1, <2>2 DEF PackIndex, SizeofIndex
<1> QED BY <1>1, <1>2 DEF Index

\* A value is packed to what the server reads as one tree, and to as many bytes
\* as are counted; the tree is what is meant, if no array is mistaken.
IsTree(v, w) == IsOne(Pack[v], w, Sizeof[v]) /\ (NotMistaken[v] => w = Means[v])
TreeOf(v) == CHOOSE w : IsTree(v, w)
Packed(v) == IsTree(v, TreeOf(v))

\* What is no array is one item, with the bytes that are counted for it.
LEMMA PackedScalar ==
    ASSUME NEW v, v \in Values, ~Is(v, "array")
    PROVE  Packed(v)
<1>1. Pack[v] = PackStep(0, v, Pack) /\ Sizeof[v] = SizeofStep(0, v, Sizeof)
      /\ Means[v] = MeansStep(0, v, Means)
  BY PackIs, SizeofIs, MeansIs
<1>2. v \in Scalars
  BY ValuesAssumption DEF IsArray, Is
<1>3. \E w : IsTree(v, w)
  <2>1. CASE v \in [int : Longs]
    <3>1. /\ Is(v, "int") /\ v.int \in Longs /\ v = Long(v.int)
          /\ ~Is(v, "object")
      BY <2>1 DEF Is, Long
    <3>2. Pack[v] = PackLong(v.int) /\ Sizeof[v] = SizeofLong(v.int) /\ Means[v] = v
      <4>1. ~Is(v, "double") /\ ~Is(v, "str") /\ ~Is(v, "bool")
        BY <2>1 DEF Is
      <4> QED BY ONLY <1>1, <3>1, <4>1, ~Is(v, "array") DEF PackStep, SizeofStep, MeansStep
    <3> DEFINE n == v.int
    <3>3. IsOne(PackLong(n), Long(n), SizeofLong(n))
      BY <3>1, OneLong
    <3> QED BY <3>1, <3>2, <3>3 DEF IsTree
  <2>2. CASE v \in [str : Texts]
    <3>1. /\ Is(v, "str") /\ v.str \in Texts /\ v = Str(v.str)
          /\ ~Is(v, "object")
      BY <2>2 DEF Is, Str
    <3>2. Pack[v] = PackString(v.str) /\ Sizeof[v] = SizeofString(v.str) /\ Means[v] = v
      <4>1. ~Is(v, "double") /\ ~Is(v, "int") /\ ~Is(v, "bool")
        BY <2>2 DEF Is
      <4> QED BY ONLY <1>1, <3>1, <4>1, ~Is(v, "array") DEF PackStep, SizeofStep, MeansStep
    <3> DEFINE s == v.str
    <3>3. IsOne(PackString(s), Str(s), SizeofString(s))
      BY <3>1, OneString
    <3> QED BY <3>1, <3>2, <3>3 DEF IsTree
  <2>3. CASE v \in [double : Int]
    <3>1. /\ Is(v, "double") /\ ~Is(v, "object") /\ ~Is(v, "int") /\ ~Is(v, "str")
          /\ ~Is(v, "bool")
      BY <2>3 DEF Is
    <3>2. Pack[v] = <<Item(v, 9)>> /\ Sizeof[v] = 9 /\ Means[v] = v
      BY ONLY <1>1, <3>1, ~Is(v, "array") DEF PackStep, SizeofStep, MeansStep
    <3>3. 9 \in Positive
      BY DEF Positive
    <3>4. IsOne(<<Item(v, 9)>>, v, 9)
      BY <1>2, <3>3, OneItem
    <3> QED BY <3>2, <3>4 DEF IsTree
  <2>4. CASE v \in [bool : BOOLEAN]
    <3>1. /\ Is(v, "bool") /\ ~Is(v, "object") /\ ~Is(v, "int") /\ ~Is(v, "str")
          /\ ~Is(v, "double")
      BY <2>4 DEF Is
    <3>2. Pack[v] = <<Item(v, 1)>> /\ Sizeof[v] = 1 /\ Means[v] = v
      BY ONLY <1>1, <3>1, ~Is(v, "array") DEF PackStep, SizeofStep, MeansStep
    <3>3. 1 \in Positive
      BY DEF Positive
    <3>4. IsOne(<<Item(v, 1)>>, v, 1)
      BY <1>2, <3>3, OneItem
    <3> QED BY <3>2, <3>4 DEF IsTree
  <2>5. CASE v = Nil \/ v = Object
    <3>1. /\ ~Is(v, "bool") /\ ~Is(v, "int") /\ ~Is(v, "str") /\ ~Is(v, "double")
          /\ (Is(v, "object") <=> v = Object) /\ Nil # Object
      BY <2>5 DEF Is, Nil, Object
    <3>2. Pack[v] = <<Item(Nil, 1)>> /\ Sizeof[v] = 1 /\ Means[v] = Nil
      BY ONLY <1>1, <2>5, <3>1, ~Is(v, "array") DEF PackStep, SizeofStep, MeansStep, PackNil
    <3> DEFINE nothing == Nil
    <3>3. 1 \in Positive /\ nothing \in Scalars
      BY DEF Positive, Scalars
    <3> HIDE DEF nothing
    <3>4. IsOne(<<Item(nothing, 1)>>, nothing, 1)
      BY <3>3, OneItem
    <3> QED BY <3>2, <3>4 DEF IsTree, nothing
  <2> QED BY ONLY <1>2, <2>1, <2>2, <2>3, <2>4, <2>5 DEF Scalars
<1> QED BY ONLY <1>3 DEF Packed, TreeOf

\* What the lemmas on sequences need of the trees of what is inside.
LEMMA PackedInside ==
    ASSUME NEW v, v \in Values, NEW w, Inside(v, w), \A x : Inside(v, x) => Packed(x)
    PROVE  /\ Pack[w] \in Seq(Items) /\ Sizeof[w] \in Positive
           /\ Adds(Pack[w], <<TreeOf(w)>>, Sizeof[w])
           /\ NotMistaken[w] => TreeOf(w) = Means[w]
BY DEF Packed, IsTree, IsOne

\* What an array is made of.
LEMMA ArrayIs ==
    ASSUME NEW v, v \in Values, Is(v, "array")
    PROVE  /\ IsHash(v) => Sizeof[v] = SizeofHash(v, Sizeof) /\ Pack[v] = PackHash(v, Pack)
           /\ ~IsHash(v) => Sizeof[v] = SizeofArray(v, Sizeof) /\ Pack[v] = PackArray(v, Pack)
           /\ IsList(v) => Means[v] = [list |-> [i \in 1..Count(v) |-> Means[At(v, Long(i - 1))]]]
           /\ ~IsList(v) => Means[v] = [map |-> [i \in 1..Count(v) |->
                                <<v.array[i][1], Means[v.array[i][2]]>>]]
<1>1. Sizeof[v] = SizeofStep(0, v, Sizeof) /\ Pack[v] = PackStep(0, v, Pack)
      /\ Means[v] = MeansStep(0, v, Means)
  BY SizeofIs, PackIs, MeansIs
<1>5. DOMAIN v = {"array", "next"}
  BY Elemental DEF IsArray
<1>2. SizeofStep(0, v, Sizeof) = IF IsHash(v) THEN SizeofHash(v, Sizeof) ELSE SizeofArray(v, Sizeof)
  <2>1. ~Is(v, "int") /\ ~Is(v, "str") /\ ~Is(v, "double")
    BY ONLY <1>5 DEF Is
  <2> QED BY ONLY <2>1, Is(v, "array") DEF SizeofStep
<1>3. PackStep(0, v, Pack) = IF IsHash(v) THEN PackHash(v, Pack) ELSE PackArray(v, Pack)
  <2>1. ~Is(v, "int") /\ ~Is(v, "str") /\ ~Is(v, "double") /\ ~Is(v, "bool")
    BY ONLY <1>5 DEF Is
  <2> QED BY ONLY <2>1, Is(v, "array") DEF PackStep
<1>4. MeansStep(0, v, Means) =
        IF IsList(v) THEN [list |-> [i \in 1..Count(v) |-> Means[At(v, Long(i - 1))]]]
        ELSE [map |-> [i \in 1..Count(v) |-> <<v.array[i][1], Means[v.array[i][2]]>>]]
  <2>1. ~Is(v, "object")
    BY ONLY <1>5 DEF Is
  <2> QED BY ONLY <2>1, Is(v, "array") DEF MeansStep
<1> QED BY ONLY <1>1, <1>2, <1>3, <1>4

\* Two elements.
LEMMA Two == \A a, b : <<a>> \o <<b>> = <<a, b>>
<1> SUFFICES ASSUME NEW a, NEW b PROVE <<a>> \o <<b>> = <<a, b>>
  OBVIOUS
<1> DEFINE T == {a, b}
<1>1. <<a>> \in Seq(T) /\ <<b>> \in Seq(T) /\ <<a, b>> \in Seq(T)
  OBVIOUS
<1>2. Len(<<a>> \o <<b>>) = 2 /\ <<a>> \o <<b>> \in Seq(T)
  BY <1>1
<1>3. (<<a>> \o <<b>>)[1] = a /\ (<<a>> \o <<b>>)[2] = b
  BY <1>1
<1>4. Len(<<a, b>>) = 2 /\ <<a, b>>[1] = a /\ <<a, b>>[2] = b
  OBVIOUS
<1>5. 1..2 = {1, 2}
  OBVIOUS
<1> DEFINE x == <<a>> \o <<b>>
           y == <<a, b>>
<1>6. x \in Seq(T) /\ y \in Seq(T) /\ Len(x) = Len(y) /\ \A i \in 1..Len(x) : x[i] = y[i]
  BY <1>1, <1>2, <1>3, <1>4, <1>5
<1> HIDE DEF x, y, T
<1>7. x = y
  BY ONLY <1>6, SeqEqual
<1> QED BY <1>7 DEF x, y

\* An array that is a list to php_mp_is_hash and to PHP has what is meant
\* at each index.
LEMMA ListElements ==
    ASSUME NEW v, v \in Values, Is(v, "array"), IsList(v)
    PROVE  \A i \in 1..Count(v) : /\ Elements(v)[i] = At(v, Long(i - 1))
                                  /\ \E j \in DOMAIN v.array : Elements(v)[i] = v.array[j][2]
<1> SUFFICES ASSUME NEW i \in 1..Count(v)
             PROVE  /\ Elements(v)[i] = At(v, Long(i - 1))
                    /\ \E j \in DOMAIN v.array : Elements(v)[i] = v.array[j][2]
  OBVIOUS
<1>1. Has(v, Long(i - 1))
  <2>1. i - 1 \in 0..Count(v) - 1
    BY Elemental
  <2> QED BY <2>1 DEF IsList, Has
<1>2. Elements(v)[i] = At(v, Long(i - 1))
  BY <1>1 DEF Elements
<1> DEFINE pair == CHOOSE pair \in ToSet(v.array) : pair[1] = Long(i - 1)
<1>3. pair \in ToSet(v.array)
  BY <1>1 DEF Has, ArrayKeys
<1>4. At(v, Long(i - 1)) = pair[2]
  BY DEF At
<1> HIDE DEF pair
<1> QED BY <1>2, <1>3, <1>4 DEF ToSet

\* An array that is packed as a list.
LEMMA PackedList ==
    ASSUME NEW v, v \in Values, Is(v, "array"), ~IsHash(v), \A x : Inside(v, x) => Packed(x)
    PROVE  Packed(v)
<1> DEFINE n == Count(v)
           e(i) == Elements(v)[i]
           seqs == [i \in 1..n |-> Pack[e(i)]]
           f == [i \in 1..n |-> Sizeof[e(i)]]
           t == [i \in 1..n |-> TreeOf(e(i))]
           W == [i \in 1..n |-> <<t[i]>>]
           U == {t[i] : i \in 1..n}
           b == SeqBytes(n)
           ws == FlattenSeq(W)
           items == FlattenSeq(seqs)
           m == SumFunction(f)
<1>1. n \in Nat
  BY Elemental
<1>2. \A i \in 1..n : Inside(v, e(i))
  BY Elemental
<1> HIDE DEF e
<1>3. \A i \in 1..n :
        /\ Pack[e(i)] \in Seq(Items) /\ Sizeof[e(i)] \in Positive
        /\ Adds(Pack[e(i)], <<TreeOf(e(i))>>, Sizeof[e(i)])
        /\ NotMistaken[e(i)] => TreeOf(e(i)) = Means[e(i)]
  BY <1>2, PackedInside
<1>4. b \in Positive
  BY BytesType
<1> HIDE DEF n
<1>5. AreSeqs(n, seqs, Items) /\ seqs = [i \in 1..n |-> seqs[i]]
  BY <1>3 DEF AreSeqs
<1>6. AreSeqs(n, W, U) /\ W = [i \in 1..n |-> W[i]]
  BY DEF AreSeqs
<1>7. AreNats(n, f)
  BY <1>3 DEF AreNats, Positive
<1>8. AddEach(n, seqs, W, f)
  BY <1>3 DEF AddEach
<1>9. ws = [i \in 1..n |-> t[i]]
  <2> HIDE DEF t
  <2> QED BY <1>1, Singles
<1>10. Len(ws) = n
  <2> HIDE DEF ws, t
  <2> QED BY ONLY <1>1, <1>9
<1>18. \A i \in 1..n : t[i] = TreeOf(e(i))
  OBVIOUS
<1>19. NotMistaken[v] => [i \in 1..n |-> t[i]] = [i \in 1..n |-> Means[At(v, Long(i - 1))]]
  <2> SUFFICES ASSUME NotMistaken[v], NEW i \in 1..n PROVE t[i] = Means[At(v, Long(i - 1))]
    OBVIOUS
  <2>1. IsList(v) /\ \A j \in DOMAIN v.array : NotMistaken[v.array[j][2]]
    BY NotMistakenIs DEF NotMistakenStep
  <2>2. e(i) = At(v, Long(i - 1)) /\ \E j \in DOMAIN v.array : e(i) = v.array[j][2]
    BY <2>1, ListElements DEF e, n
  <2>3. NotMistaken[e(i)]
    BY <2>1, <2>2
  <2>4. t[i] = Means[e(i)]
    BY <1>3, <1>18, <2>3
  <2> QED BY <2>2, <2>4
<1>20. Sizeof[v] = b + m
  <2>1. Sizeof[v] = SizeofArray(v, Sizeof)
    BY ONLY v \in Values, Is(v, "array"), ~IsHash(v), ArrayIs
  <2> QED BY <2>1 DEF SizeofArray, n, e
<1>21. Pack[v] = <<Item([list |-> n], b)>> \o items
  <2>1. Pack[v] = PackArray(v, Pack)
    BY ONLY v \in Values, Is(v, "array"), ~IsHash(v), ArrayIs
  <2> QED BY <2>1 DEF PackArray, PackList, n, e
<1> HIDE DEF seqs, f, t, W, U, b
<1>11. /\ Adds(items, ws, m)
       /\ items \in Seq(Items) /\ ws \in Seq(U) /\ m \in Nat
  BY ONLY <1>1, <1>5, <1>6, <1>7, <1>8, AddsAll
<1> HIDE DEF items, ws, m
<1>12. Adds(<<Item([list |-> n], b)>> \o items, <<[list |-> ws]>>, b + m)
  <2>1. b \in Nat
    BY <1>4 DEF Positive
  <2>2. Adds(<<Item([list |-> Len(ws)], b)>> \o items, <<[list |-> ws]>>, b + m)
    BY ONLY <1>11, <2>1, AddsList
  <2> QED BY <1>10, <2>2
<1>13. <<Item([list |-> n], b)>> \o items \in Seq(Items)
  <2>1. Item([list |-> n], b) \in Items
    BY <1>1, <1>4 DEF Item, Items, Says
  <2> QED BY <1>11, <2>1
<1>14. b + m \in Positive
  BY <1>4, <1>11 DEF Positive
<1>15. NotMistaken[v] => [list |-> ws] = Means[v]
  <2> SUFFICES ASSUME NotMistaken[v] PROVE [list |-> ws] = Means[v]
    OBVIOUS
  <2>1. IsList(v)
    BY NotMistakenIs DEF NotMistakenStep
  <2>2. Means[v] = [list |-> [i \in 1..n |-> Means[At(v, Long(i - 1))]]]
    BY ONLY v \in Values, Is(v, "array"), <2>1, ArrayIs DEF n
  <2> QED BY <1>9, <1>19, <2>2
<1>16. IsTree(v, [list |-> ws])
  BY ONLY <1>12, <1>13, <1>14, <1>15, <1>20, <1>21 DEF IsTree, IsOne
<1> QED BY ONLY <1>16 DEF Packed, TreeOf

\* A map of pairs, each with the items, the tree and the bytes of its key and of
\* its value.
PairsAre(n, keys, x, kb, values, y, vb) ==
    \A i \in 1..n : IsOne(keys[i], x[i], kb[i]) /\ IsOne(values[i], y[i], vb[i])

PairItems(n, keys, values) ==
    PackMap(n) \o FlattenSeq([i \in 1..n |-> keys[i] \o values[i]])
PairTree(n, x, y) == [map |-> [i \in 1..n |-> <<x[i], y[i]>>]]
PairBytes(n, kb, vb) == SeqBytes(n) + SumFunction([i \in 1..n |-> kb[i] + vb[i]])

\* Pairs, each a key and a value.
LEMMA PackedPairs ==
    ASSUME NEW n, n \in Nat, NEW keys, NEW x, NEW kb, NEW values, NEW y, NEW vb,
           PairsAre(n, keys, x, kb, values, y, vb)
    PROVE  IsOne(PairItems(n, keys, values), PairTree(n, x, y), PairBytes(n, kb, vb))
<1> DEFINE seqs == [i \in 1..n |-> keys[i] \o values[i]]
           f == [i \in 1..n |-> kb[i] + vb[i]]
           W == [i \in 1..n |-> <<x[i], y[i]>>]
           U == {x[i] : i \in 1..n} \cup {y[i] : i \in 1..n}
           b == SeqBytes(n)
           ws == FlattenSeq(W)
           items == FlattenSeq(seqs)
           m == SumFunction(f)
           tree == [map |-> [i \in 1..n |-> <<ws[2 * i - 1], ws[2 * i]>>]]
<1>1. ASSUME NEW i \in 1..n
      PROVE  seqs[i] \in Seq(Items) /\ f[i] \in Nat /\ Adds(seqs[i], W[i], f[i])
  <2> DEFINE p == keys[i]
             q == values[i]
             k == kb[i]
             d == vb[i]
             wp == x[i]
             wq == y[i]
             wk == <<wp>>
             wd == <<wq>>
             T == {wp, wq}
  <2>1. seqs[i] = p \o q /\ f[i] = k + d /\ W[i] = <<wp, wq>>
    OBVIOUS
  <2>2. IsOne(p, wp, k) /\ IsOne(q, wq, d)
    BY DEF PairsAre
  <2> HIDE DEF p, q, k, d, wp, wq
  <2>3. /\ p \in Seq(Items) /\ k \in Nat /\ Adds(p, wk, k)
        /\ q \in Seq(Items) /\ d \in Nat /\ Adds(q, wd, d)
    BY ONLY <2>2 DEF IsOne, Positive
  <2>4. wk \in Seq(T) /\ wd \in Seq(T)
    OBVIOUS
  <2>5. wk \o wd = <<wp, wq>>
    BY ONLY Two
  <2> HIDE DEF wk, wd, T
  <2>6. Adds(p \o q, wk \o wd, k + d)
    BY ONLY <2>3, <2>4, AddsBoth
  <2>7. p \o q \in Seq(Items) /\ k + d \in Nat
    BY ONLY <2>3
  <2> HIDE DEF seqs, f, W
  <2> QED BY ONLY <2>1, <2>5, <2>6, <2>7
<1>2. b \in Positive
  BY BytesType
<1>3. seqs = [i \in 1..n |-> seqs[i]] /\ W = [i \in 1..n |-> W[i]] /\ DOMAIN f = 1..n
  OBVIOUS
<1>4. AreSeqs(n, W, U)
  BY DEF AreSeqs
<1>5. Len(ws) = 2 * n /\ \A i \in 1..n : ws[2 * i - 1] = x[i] /\ ws[2 * i] = y[i]
  <2>1. Paired(n, x, y, FlattenSeq([i \in 1..n |-> <<x[i], y[i]>>]))
    BY ONLY n \in Nat, Pairs
  <2> QED BY ONLY <2>1 DEF Paired, ws, W
<1>6. PackMap(n) = <<Item([map |-> n], b)>>
  BY DEF PackMap
<1> HIDE DEF seqs, f, W, U, b
<1>7. AreSeqs(n, seqs, Items) /\ AreNats(n, f) /\ AddEach(n, seqs, W, f)
  BY <1>1, <1>3 DEF AreSeqs, AreNats, AddEach
<1>8. /\ Adds(items, ws, m)
      /\ items \in Seq(Items) /\ ws \in Seq(U) /\ m \in Nat
  BY ONLY n \in Nat, <1>3, <1>4, <1>7, AddsAll
<1> HIDE DEF items, ws, m
<1>9. Adds(<<Item([map |-> n], b)>> \o items, <<tree>>, b + m)
  <2>1. b \in Nat
    BY <1>2 DEF Positive
  <2> QED BY ONLY n \in Nat, <1>5, <1>8, <2>1, AddsMap
<1>10. <<Item([map |-> n], b)>> \o items \in Seq(Items)
  <2>1. Item([map |-> n], b) \in Items
    BY <1>2 DEF Item, Items, Says
  <2> QED BY <1>8, <2>1
<1>11. b + m \in Positive
  BY <1>2, <1>8 DEF Positive
<1>12. tree = [map |-> [i \in 1..n |-> <<x[i], y[i]>>]]
  BY <1>5
<1> HIDE DEF tree
<1>13. IsOne(PackMap(n) \o items, tree, b + m)
  BY ONLY <1>6, <1>9, <1>10, <1>11 DEF IsOne
<1> QED BY ONLY <1>12, <1>13 DEF items, seqs, m, f, b, PairItems, PairTree, PairBytes

\* An array that is packed as a map.
LEMMA PackedMap ==
    ASSUME NEW v, v \in Values, Is(v, "array"), IsHash(v), \A x : Inside(v, x) => Packed(x)
    PROVE  Packed(v)
<1> DEFINE n == Count(v)
           x == [i \in 1..n |-> v.array[i][1]]
           e == [i \in 1..n |-> v.array[i][2]]
           keys == [i \in 1..n |-> PackIndex(x[i])]
           kb == [i \in 1..n |-> SizeofIndex(x[i])]
           values == [i \in 1..n |-> Pack[e[i]]]
           vb == [i \in 1..n |-> Sizeof[e[i]]]
           y == [i \in 1..n |-> TreeOf(e[i])]
           tree == [map |-> [i \in 1..n |-> <<x[i], y[i]>>]]
<1>1. n \in Nat
  BY Elemental
<1>2. \A i \in 1..n : x[i] \in Index /\ Inside(v, e[i])
  BY Elemental
<1>3. Sizeof[v] = SeqBytes(n) + SumFunction([i \in 1..n |-> SizeofIndex(x[i]) + Sizeof[e[i]]])
  <2>1. Sizeof[v] = SizeofHash(v, Sizeof)
    BY ONLY v \in Values, Is(v, "array"), IsHash(v), ArrayIs
  <2> QED BY <2>1 DEF SizeofHash
<1>4. Pack[v] = PackMap(n) \o FlattenSeq([i \in 1..n |-> PackIndex(x[i]) \o Pack[e[i]]])
  <2>1. Pack[v] = PackHash(v, Pack)
    BY ONLY v \in Values, Is(v, "array"), IsHash(v), ArrayIs
  <2> QED BY <2>1 DEF PackHash
<1>5. ASSUME NotMistaken[v] PROVE Means[v] = tree
  <2>1. ~IsList(v) /\ \A j \in DOMAIN v.array : NotMistaken[v.array[j][2]]
    BY <1>5, NotMistakenIs DEF NotMistakenStep
  <2>2. Means[v] = [map |-> [i \in 1..n |-> <<v.array[i][1], Means[v.array[i][2]]>>]]
    BY ONLY v \in Values, Is(v, "array"), <2>1, ArrayIs
  <2>3. \A i \in 1..n : NotMistaken[e[i]]
    BY <2>1, Elemental
  <2>4. \A i \in 1..n : x[i] = v.array[i][1] /\ y[i] = Means[v.array[i][2]]
    <3>1. \A i \in 1..n : e[i] = v.array[i][2] /\ y[i] = TreeOf(e[i])
      OBVIOUS
    <3>2. \A i \in 1..n : TreeOf(e[i]) = Means[e[i]]
      <4> HIDE DEF e, n
      <4> QED BY <1>2, <2>3, PackedInside
    <3> QED BY <3>1, <3>2
  <2> QED BY ONLY <2>2, <2>4
<1> HIDE DEF n, x, e
<1>6. \A i \in 1..n : IsOne(PackIndex(x[i]), x[i], SizeofIndex(x[i]))
  BY ONLY <1>2, OneIndex
<1>7. \A i \in 1..n : IsOne(Pack[e[i]], TreeOf(e[i]), Sizeof[e[i]])
  BY <1>2 DEF Packed, IsTree
<1>8. PairsAre(n, keys, x, kb, values, y, vb)
  BY <1>6, <1>7 DEF PairsAre
<1>9. /\ [i \in 1..n |-> keys[i] \o values[i]] = [i \in 1..n |-> PackIndex(x[i]) \o Pack[e[i]]]
      /\ [i \in 1..n |-> kb[i] + vb[i]] = [i \in 1..n |-> SizeofIndex(x[i]) + Sizeof[e[i]]]
  OBVIOUS
<1> HIDE DEF keys, kb, values, vb, y
<1>10. IsOne(PairItems(n, keys, values), PairTree(n, x, y), PairBytes(n, kb, vb))
  BY ONLY <1>1, <1>8, PackedPairs
<1>13. tree = PairTree(n, x, y)
  BY DEF PairTree
<1> HIDE DEF tree
<1>11. IsOne(Pack[v], tree, Sizeof[v])
  BY ONLY <1>3, <1>4, <1>9, <1>10, <1>13 DEF PairItems, PairBytes
<1>12. IsTree(v, tree)
  BY ONLY <1>5, <1>11 DEF IsTree
<1> QED BY ONLY <1>12 DEF Packed, TreeOf

\* However deep a value is.
LEMMA AllPacked == \A v \in Values : Packed(v)
<1> DEFINE S == {n \in Nat : \A v \in Values : Depth[v] < n => Packed(v)}
<1>1. \A v \in Values : Depth[v] \in Nat
  BY ValuesAssumption
<1>2. 0 \in S
  BY <1>1
<1>3. ASSUME NEW n \in S PROVE n + 1 \in S
  <2>1. ASSUME NEW v \in Values, Depth[v] < n + 1 PROVE Packed(v)
    <3>1. \A x : Inside(v, x) => Packed(x)
      BY ONLY <1>1, <1>3, <2>1 DEF Inside
    <3> QED BY ONLY v \in Values, <3>1, PackedScalar, PackedList, PackedMap
  <2> QED BY ONLY <1>3, <2>1
<1>4. S = Nat
  <2>1. S \in SUBSET Nat
    OBVIOUS
  <2> HIDE DEF S
  <2> QED BY ONLY <1>2, <1>3, <2>1, Sums!NatSet
<1>5. ASSUME NEW v \in Values PROVE Packed(v)
  <2>1. Depth[v] + 1 \in S /\ Depth[v] < Depth[v] + 1
    BY <1>1, <1>4
  <2> QED BY ONLY v \in Values, <2>1
<1> QED BY ONLY <1>5

-----------------------------------------------------------------------------
(* What a request is packed to.                                            *)

\* The fields of a request: a name and a value.
AreFields(fields) ==
    /\ Len(fields) \in Nat /\ DOMAIN fields = 1..Len(fields)
    /\ \A i \in 1..Len(fields) : fields[i][1] \in DOMAIN Field /\ fields[i][2] \in Values

HeaderTree(type, s) == [map |-> <<<<Long(CODE), Long(type)>>, <<Long(SYNC), Long(s)>>>>]
BodyTree(fields) ==
    [map |-> [i \in 1..Len(fields) |->
                <<Long(Field[fields[i][1]]), TreeOf(fields[i][2])>>]]

\* What a header says fits in a long.
LEMMA NumbersFitLong ==
    /\ CODE \in Longs /\ SYNC \in Longs
    /\ \A m \in DOMAIN RequestType : RequestType[m] \in Longs
    /\ \A f \in DOMAIN Field : Field[f] \in Longs
<1>1. LongMax \in Nat /\ LongMax > 64
  BY StepsAssumption, WordAssumption
<1>2. \A k \in 0..64 : k \in Longs
  BY <1>1 DEF Longs
<1>3. CODE \in 0..64 /\ SYNC \in 0..64
  BY DEF CODE, SYNC
<1>4. \A m \in DOMAIN RequestType : RequestType[m] \in 0..64
  BY DEF RequestType
<1>5. \A f \in DOMAIN Field : Field[f] \in 0..64
  BY DEF Field
<1> QED BY <1>2, <1>3, <1>4, <1>5

\* A body is one map, of as many bytes as are counted for it.
LEMMA BodyPacked ==
    ASSUME NEW fields, AreFields(fields)
    PROVE  IsOne(PackBody(fields), BodyTree(fields), SizeofBody(fields))
<1> DEFINE n == Len(fields)
           no == [i \in 1..n |-> Field[fields[i][1]]]
           e == [i \in 1..n |-> fields[i][2]]
           keys == [i \in 1..n |-> PackLong(no[i])]
           x == [i \in 1..n |-> Long(no[i])]
           kb == [i \in 1..n |-> SizeofLong(no[i])]
           values == [i \in 1..n |-> Pack[e[i]]]
           vb == [i \in 1..n |-> Sizeof[e[i]]]
           y == [i \in 1..n |-> TreeOf(e[i])]
<1>1. n \in Nat /\ DOMAIN fields = 1..n
  BY DEF AreFields
<1>2. \A i \in 1..n : no[i] \in Longs /\ e[i] \in Values
  BY NumbersFitLong DEF AreFields
<1>3. SizeofBody(fields) = SeqBytes(n) + SumFunction([i \in 1..n |-> SizeofLong(no[i]) + Sizeof[e[i]]])
  BY <1>1 DEF SizeofBody
<1>4. PackBody(fields) = PackMap(n) \o FlattenSeq([i \in 1..n |-> PackLong(no[i]) \o Pack[e[i]]])
  BY <1>1 DEF PackBody
<1>5. BodyTree(fields) = [map |-> [i \in 1..n |-> <<Long(no[i]), TreeOf(e[i])>>]]
  BY DEF BodyTree
<1> HIDE DEF n, no, e
<1>6. \A i \in 1..n : IsOne(PackLong(no[i]), Long(no[i]), SizeofLong(no[i]))
  BY ONLY <1>2, OneLong
<1>7. \A i \in 1..n : IsOne(Pack[e[i]], TreeOf(e[i]), Sizeof[e[i]])
  BY <1>2, AllPacked DEF Packed, IsTree
<1>8. PairsAre(n, keys, x, kb, values, y, vb)
  BY <1>6, <1>7 DEF PairsAre
<1>9. /\ [i \in 1..n |-> keys[i] \o values[i]] = [i \in 1..n |-> PackLong(no[i]) \o Pack[e[i]]]
      /\ [i \in 1..n |-> kb[i] + vb[i]] = [i \in 1..n |-> SizeofLong(no[i]) + Sizeof[e[i]]]
      /\ [i \in 1..n |-> <<x[i], y[i]>>] = [i \in 1..n |-> <<Long(no[i]), TreeOf(e[i])>>]
  OBVIOUS
<1> HIDE DEF keys, kb, values, vb, x, y
<1>10. IsOne(PairItems(n, keys, values), PairTree(n, x, y), PairBytes(n, kb, vb))
  BY ONLY <1>1, <1>8, PackedPairs
<1> QED BY ONLY <1>3, <1>4, <1>5, <1>9, <1>10 DEF PairItems, PairBytes, PairTree

Associates(a, b, c, d, e) == (((a \o b) \o c) \o d) \o e = a \o (b \o (c \o (d \o e)))

\* Five sequences, from the left or from the right.
LEMMA Associated ==
    ASSUME NEW I, NEW a, NEW b, NEW c, NEW d, NEW e, a \in Seq(I), b \in Seq(I), c \in Seq(I),
           d \in Seq(I), e \in Seq(I)
    PROVE  Associates(a, b, c, d, e)
<1> DEFINE ab == a \o b
           abc == ab \o c
           de == d \o e
           cde == c \o de
<1>1. ab \in Seq(I) /\ abc \in Seq(I) /\ de \in Seq(I) /\ cde \in Seq(I)
  OBVIOUS
<1> HIDE DEF ab, abc, de, cde
<1>2. (abc \o d) \o e = abc \o (d \o e)
  BY ONLY <1>1, d \in Seq(I), e \in Seq(I)
<1>3. (ab \o c) \o de = ab \o (c \o de)
  BY ONLY <1>1, c \in Seq(I), ConcatAssociative, SMTT(40)
<1>4. (a \o b) \o cde = a \o (b \o cde)
  BY ONLY <1>1, a \in Seq(I), b \in Seq(I), ConcatAssociative, SMTT(40)
<1> QED BY <1>2, <1>3, <1>4 DEF ab, abc, de, cde, Associates

\* A sync that is written.
IsSent(sent, n) == IsOne(sent.items, Long(n), sent.bytes)

\* The counter of the process, as it is on the wire.
LEMMA SentIs ==
    ASSUME NEW s, s \in Nat
    PROVE  IsSent(OnWire(s), s % Word) /\ IsSent(Fixed(s), s % Word)
<1> DEFINE n == s % Word
           says == Long(n)
<1>1. n \in Longs
  <2>1. Word \in Nat /\ Word > 0 /\ LongMax \in Nat /\ Word <= LongMax
    BY WordAssumption, StepsAssumption
  <2>2. n \in 0..Word - 1
    BY ONLY <2>1, s \in Nat
  <2> HIDE DEF n
  <2> QED BY ONLY <2>1, <2>2 DEF Longs
<1>2. IsSent(OnWire(s), n)
  <2>1. IsOne(PackLong(n), Long(n), SizeofLong(n))
    BY ONLY <1>1, OneLong
  <2>2. OnWire(s).items = PackLong(n) /\ OnWire(s).bytes = SizeofLong(n)
    BY ONLY TRUE DEF OnWire
  <2> HIDE DEF n
  <2> QED BY ONLY <2>1, <2>2 DEF IsSent
<1>3. IsSent(Fixed(s), n)
  <2>1. says \in Scalars
    BY ONLY <1>1 DEF Long, Scalars
  <2>2. 5 \in Positive
    BY DEF Positive
  <2>3. Fixed(s).items = <<Item(says, 5)>> /\ Fixed(s).bytes = 5
    BY ONLY TRUE DEF Fixed
  <2> HIDE DEF says
  <2>4. IsOne(<<Item(says, 5)>>, says, 5)
    BY ONLY <2>1, <2>2, OneItem
  <2>5. IsOne(Fixed(s).items, says, Fixed(s).bytes)
    BY ONLY <2>3, <2>4
  <2> QED BY ONLY <2>5 DEF IsSent, says
<1> QED BY <1>2, <1>3

\* What is behind the size: the header, and the body if there is one.
HeaderItems(type, sent) ==
    PackMap(2) \o (PackLong(CODE) \o (PackLong(type) \o (PackLong(SYNC) \o sent.items)))

\* A header is one map, of as many bytes as are counted for it.
LEMMA HeaderPacked ==
    ASSUME NEW type, type \in Longs, NEW s, NEW sent, IsSent(sent, s)
    PROVE  IsOne(HeaderItems(type, sent), HeaderTree(type, s), SizeofHeader(type, sent))
<1> DEFINE c == PackLong(CODE)
           t == PackLong(type)
           y == PackLong(SYNC)
           z == sent.items
           wc == Long(CODE)
           wt == Long(type)
           wy == Long(SYNC)
           wz == Long(s)
           nc == SizeofLong(CODE)
           nt == SizeofLong(type)
           ny == SizeofLong(SYNC)
           nz == sent.bytes
           T == {wc, wt, wy, wz}
           b == SeqBytes(2)
<1>1. IsOne(c, wc, nc) /\ IsOne(t, wt, nt) /\ IsOne(y, wy, ny) /\ IsOne(z, wz, nz)
  BY NumbersFitLong, OneLong DEF IsSent
<1>2. b \in Positive
  BY BytesType
<1>3. HeaderItems(type, sent) = <<Item([map |-> 2], b)>> \o (c \o (t \o (y \o z)))
  BY DEF HeaderItems, PackMap
<1>4. HeaderTree(type, s) = [map |-> <<<<wc, wt>>, <<wy, wz>>>>]
  BY DEF HeaderTree
<1>5. SizeofHeader(type, sent) = (((b + nc) + nt) + ny) + nz
  BY DEF SizeofHeader
<1> HIDE DEF c, t, y, z, wc, wt, wy, wz, nc, nt, ny, nz, b
<1>6. /\ c \in Seq(Items) /\ t \in Seq(Items) /\ y \in Seq(Items) /\ z \in Seq(Items)
      /\ nc \in Nat /\ nt \in Nat /\ ny \in Nat /\ nz \in Nat
      /\ Adds(c, <<wc>>, nc) /\ Adds(t, <<wt>>, nt) /\ Adds(y, <<wy>>, ny) /\ Adds(z, <<wz>>, nz)
  BY ONLY <1>1 DEF IsOne, Positive
<1>7. /\ <<wc>> \in Seq(T) /\ <<wt>> \in Seq(T) /\ <<wy>> \in Seq(T) /\ <<wz>> \in Seq(T)
      /\ <<wc, wt, wy, wz>> \in Seq(T)
  OBVIOUS
<1> DEFINE uc == <<wc>>
           ut == <<wt>>
           uy == <<wy>>
           uz == <<wz>>
           us == uc \o (ut \o (uy \o uz))
<1>8. us = <<wc, wt, wy, wz>>
  <2> DEFINE all == <<wc, wt, wy, wz>>
  <2>1. us \in Seq(T) /\ Len(us) = 4
    BY ONLY <1>7
  <2>2. us[1] = wc /\ us[2] = wt /\ us[3] = wy /\ us[4] = wz
    BY ONLY <1>7
  <2>3. all \in Seq(T) /\ Len(all) = 4
    BY ONLY <1>7
  <2>4. all[1] = wc /\ all[2] = wt /\ all[3] = wy /\ all[4] = wz
    OBVIOUS
  <2>5. 1..4 = {1, 2, 3, 4}
    OBVIOUS
  <2> HIDE DEF us, all, T
  <2>6. \A i \in 1..Len(us) : us[i] = all[i]
    BY ONLY <2>1, <2>2, <2>4, <2>5
  <2>7. us = all
    BY ONLY <2>1, <2>3, <2>6, SeqEqual
  <2> QED BY <2>7 DEF all
<1>9. uc \in Seq(T) /\ ut \in Seq(T) /\ uy \in Seq(T) /\ uz \in Seq(T)
      /\ Adds(c, uc, nc) /\ Adds(t, ut, nt) /\ Adds(y, uy, ny) /\ Adds(z, uz, nz)
  BY ONLY <1>6, <1>7
<1> HIDE DEF T, uc, ut, uy, uz
<1> DEFINE yz == y \o z
           uyz == uy \o uz
           nyz == ny + nz
           tyz == t \o yz
           utyz == ut \o uyz
           ntyz == nt + nyz
           ctyz == c \o tyz
           n == nc + ntyz
<1>10. yz \in Seq(Items) /\ uyz \in Seq(T) /\ nyz \in Nat /\ Adds(yz, uyz, nyz)
  <2>1. Adds(y \o z, uy \o uz, ny + nz)
    BY ONLY <1>6, <1>9, AddsBoth
  <2> QED BY ONLY <1>6, <1>9, <2>1
<1> HIDE DEF yz, uyz, nyz
<1>11. tyz \in Seq(Items) /\ utyz \in Seq(T) /\ ntyz \in Nat /\ Adds(tyz, utyz, ntyz)
  <2>1. Adds(t \o yz, ut \o uyz, nt + nyz)
    BY ONLY <1>6, <1>9, <1>10, AddsBoth
  <2> QED BY ONLY <1>6, <1>9, <1>10, <2>1
<1> HIDE DEF tyz, utyz, ntyz
<1>12. ctyz \in Seq(Items) /\ us \in Seq(T) /\ n \in Nat /\ Adds(ctyz, us, n)
  <2>1. Adds(c \o tyz, uc \o utyz, nc + ntyz)
    BY ONLY <1>6, <1>9, <1>11, AddsBoth
  <2>2. us = uc \o utyz
    BY DEF utyz, uyz
  <2>3. c \o tyz \in Seq(Items) /\ uc \o utyz \in Seq(T) /\ nc + ntyz \in Nat
    BY ONLY <1>6, <1>9, <1>11
  <2> HIDE DEF us
  <2> QED BY ONLY <2>1, <2>2, <2>3
<1> HIDE DEF ctyz, us, n
<1>13. Len(us) = 4 /\ us[1] = wc /\ us[2] = wt /\ us[3] = wy /\ us[4] = wz
  BY ONLY <1>8
<1> DEFINE tree == [map |-> [i \in 1..2 |-> <<us[2 * i - 1], us[2 * i]>>]]
<1>14. Adds(<<Item([map |-> 2], b)>> \o ctyz, <<tree>>, b + n)
  <2>1. b \in Nat /\ 2 \in Nat /\ Len(us) = 2 * 2
    BY <1>2, <1>13 DEF Positive
  <2> QED BY ONLY <1>12, <2>1, AddsMap
<1>15. tree = HeaderTree(type, s)
  <2>1. [i \in 1..2 |-> <<us[2 * i - 1], us[2 * i]>>] = <<<<wc, wt>>, <<wy, wz>>>>
    BY ONLY <1>13
  <2> QED BY ONLY <1>4, <2>1
<1>16. b + n \in Positive /\ b + n = SizeofHeader(type, sent)
  <2>1. b + n \in Positive
    BY ONLY <1>2, <1>12 DEF Positive
  <2>2. n = nc + (nt + (ny + nz))
    BY DEF n, ntyz, nyz
  <2>3. b \in Nat
    BY <1>2 DEF Positive
  <2> QED BY ONLY <1>5, <1>6, <2>1, <2>2, <2>3
<1>17. <<Item([map |-> 2], b)>> \o ctyz \in Seq(Items)
  <2>1. Item([map |-> 2], b) \in Items
    BY <1>2 DEF Item, Items, Says
  <2> QED BY ONLY <1>12, <2>1
<1>18. HeaderItems(type, sent) = <<Item([map |-> 2], b)>> \o ctyz
  BY <1>3 DEF ctyz, tyz, yz
<1> HIDE DEF tree
<1> QED BY ONLY <1>14, <1>15, <1>16, <1>17, <1>18 DEF IsOne

\* A header behind its size.
LEMMA PackHeaderIs ==
    ASSUME NEW n, n \in Nat, NEW type, type \in Longs, NEW s, NEW sent, IsSent(sent, s)
    PROVE  PackHeader(n, type, sent) = <<Item([size |-> n], 5)>> \o HeaderItems(type, sent)
<1> DEFINE e == <<Item([size |-> n], 5)>>
           m == PackMap(2)
           c == PackLong(CODE)
           t == PackLong(type)
           y == PackLong(SYNC)
           z == sent.items
           em == e \o m
           more == c \o (t \o (y \o z))
<1>1. c \in Seq(Items) /\ t \in Seq(Items) /\ y \in Seq(Items) /\ z \in Seq(Items)
  BY NumbersFitLong, OneLong DEF IsOne, IsSent
<1>2. m \in Seq(Items)
  <2>1. Item([map |-> 2], SeqBytes(2)) \in Items
    BY BytesType DEF Item, Items, Says
  <2> QED BY ONLY <2>1 DEF PackMap
<1>3. e \in Seq(Items)
  <2>1. Item([size |-> n], 5) \in Items
    BY DEF Item, Items, Says, Positive
  <2> QED BY ONLY <2>1
<1>4. PackHeader(n, type, sent) = ((((e \o m) \o c) \o t) \o y) \o z
  BY DEF PackHeader
<1>5. HeaderItems(type, sent) = m \o (c \o (t \o (y \o z)))
  BY DEF HeaderItems
<1> HIDE DEF e, m, c, t, y, z
<1>6. em \in Seq(Items) /\ more \in Seq(Items)
  BY ONLY <1>1, <1>2, <1>3
<1> HIDE DEF em
<1>7. (((em \o c) \o t) \o y) \o z = em \o (c \o (t \o (y \o z)))
  <2>1. Associates(em, c, t, y, z)
    BY ONLY <1>1, <1>6, Associated
  <2> QED BY ONLY <2>1 DEF Associates
<1> HIDE DEF more
<1>8. (e \o m) \o more = e \o (m \o more)
  BY ONLY <1>2, <1>3, <1>6, ConcatAssociative
<1> QED BY ONLY <1>4, <1>5, <1>7, <1>8 DEF em, more, e

-----------------------------------------------------------------------------
(* Requests one behind the other.                                          *)

Frame(n, trees) == [size |-> n, bytes |-> n, trees |-> trees]
Holds(items, frames) ==
    /\ items \in Seq(Items)
    /\ \A F, requests : requests \in Seq(F) =>
        Read(items, Behind(<<>>, 0, requests)) = Behind(<<>>, 0, frames \o requests)

\* No items hold no requests.
LEMMA HoldsNone == Holds(<<>>, <<>>)
<1>1. <<>> \in Seq(Items)
  OBVIOUS
<1> SUFFICES ASSUME NEW F, NEW requests, requests \in Seq(F)
             PROVE  Behind(<<>>, 0, requests) = Behind(<<>>, 0, <<>> \o requests)
  BY <1>1, ReadNone DEF Holds
<1>2. <<>> \o requests = requests
  OBVIOUS
<1> QED BY <1>2

\* Items behind items hold the requests of both.
LEMMA HoldsBoth ==
    ASSUME NEW a, NEW F, NEW fs, fs \in Seq(F), Holds(a, fs),
           NEW b, NEW G, NEW gs, gs \in Seq(G), Holds(b, gs)
    PROVE  Holds(a \o b, fs \o gs)
<1>1. a \in Seq(Items) /\ b \in Seq(Items)
  BY DEF Holds
<1>2. a \o b \in Seq(Items)
  BY <1>1
<1>3. ASSUME NEW R, NEW requests, requests \in Seq(R)
      PROVE  Read(a \o b, Behind(<<>>, 0, requests)) = Behind(<<>>, 0, (fs \o gs) \o requests)
  <2> DEFINE T == G \cup R
             S == F \cup T
             more == gs \o requests
  <2>1. more \in Seq(T) /\ gs \in Seq(T) /\ requests \in Seq(T)
    BY <1>3, Widened
  <2>2. gs \in Seq(S) /\ requests \in Seq(S) /\ fs \in Seq(S)
    <3> HIDE DEF T
    <3>1. fs \in Seq(S) /\ gs \in Seq(S)
      BY ONLY <2>1, fs \in Seq(F), Widened
    <3>2. requests \in Seq(S)
      BY ONLY <2>1, fs \in Seq(F), Widened
    <3> QED BY <3>1, <3>2
  <2>3. Read(b, Behind(<<>>, 0, requests)) = Behind(<<>>, 0, more)
    BY <1>3 DEF Holds
  <2> HIDE DEF T, S, more
  <2>4. Read(a, Behind(<<>>, 0, more)) = Behind(<<>>, 0, fs \o more)
    BY ONLY <2>1, Holds(a, fs) DEF Holds
  <2>5. Read(a \o b, Behind(<<>>, 0, requests)) = Read(a, Read(b, Behind(<<>>, 0, requests)))
    <3> DEFINE r == Behind(<<>>, 0, requests)
    <3> HIDE DEF r
    <3>1. Read(a \o b, r) = Read(a, Read(b, r))
      BY ONLY <1>1, ReadBoth
    <3> QED BY <3>1 DEF r
  <2>6. (fs \o gs) \o requests = fs \o (gs \o requests)
    BY ONLY <2>2, ConcatAssociative
  <2> QED BY ONLY <2>3, <2>4, <2>5, <2>6 DEF more
<1> QED BY ONLY <1>2, <1>3 DEF Holds

\* A size and what it counts are a request.
LEMMA Framing ==
    ASSUME NEW items, items \in Seq(Items), NEW U, NEW ws, ws \in Seq(U),
           NEW n, n \in Positive, Adds(items, ws, n)
    PROVE  Holds(<<Item([size |-> n], 5)>> \o items, <<Frame(n, ws)>>)
<1>1. Item([size |-> n], 5) \in Items
  BY DEF Item, Items, Says, Positive
<1>2. <<Item([size |-> n], 5)>> \o items \in Seq(Items)
  BY ONLY <1>1, items \in Seq(Items)
<1>3. ASSUME NEW F, NEW requests, requests \in Seq(F)
      PROVE  Read(<<Item([size |-> n], 5)>> \o items, Behind(<<>>, 0, requests)) =
             Behind(<<>>, 0, <<Frame(n, ws)>> \o requests)
  <2> DEFINE r == Behind(<<>>, 0, requests)
             item == Item([size |-> n], 5)
             none == <<>>
             zero == 0
  <2>1. none \in Seq(U) /\ zero \in Nat
    OBVIOUS
  <2>2. Read(items, r) = Behind(ws \o <<>>, n + 0, requests)
    <3> HIDE DEF none, zero
    <3>1. Read(items, Behind(none, zero, requests)) = Behind(ws \o none, n + zero, requests)
      BY ONLY <2>1, Adds(items, ws, n) DEF Adds
    <3> QED BY <3>1 DEF none, zero
  <2>3. ws \o <<>> = ws /\ n + 0 = n
    <3>1. ws \o <<>> = ws
      BY ONLY ws \in Seq(U), ConcatEmptySeq
    <3> QED BY <3>1 DEF Positive
  <2>4. ReadItem(item, Behind(ws, n, requests)) = Behind(<<>>, 0, <<Frame(n, ws)>> \o requests)
    BY ONLY TRUE DEF ReadItem, Is, Item, Behind, Frame
  <2> HIDE DEF r, item
  <2>5. Read(<<item>> \o items, r) = ReadItem(item, Read(items, r))
    BY ONLY items \in Seq(Items), ReadFirst
  <2> QED BY ONLY <2>2, <2>3, <2>4, <2>5 DEF r, item
<1> QED BY ONLY <1>2, <1>3 DEF Holds

-----------------------------------------------------------------------------
(* The package of a call.                                                  *)

Sendable == {c \in Calls : IsGood(RequestOf(c))}
Asking == Sendable \cup Own
OwnMethods == {"lookup", "auth"}

\* What is assumed of a call.
LEMMA CallOf == ASSUME NEW c, c \in Calls PROVE IsCall(c)
BY CallsAssumption

\* The request of each method.
LEMMA RequestIs ==
    ASSUME NEW c
    PROVE  /\ c.method = "ping" => RequestOf(c) = Request("no", <<>>)
           /\ c.method = "select" => RequestOf(c) = SelectRequest(c)
           /\ c.method \in {"insert", "replace"} => RequestOf(c) = StoreRequest(c)
           /\ c.method = "delete" => RequestOf(c) = DeleteRequest(c)
           /\ c.method = "update" => RequestOf(c) = UpdateRequest(c)
           /\ c.method = "upsert" => RequestOf(c) = UpsertRequest(c)
           /\ c.method = "call" => RequestOf(c) = RunRequest(c, "function")
           /\ c.method = "eval" => RequestOf(c) = RunRequest(c, "expression")
           /\ c.method \in OwnMethods => RequestOf(c) = Request("no", c.fields)
BY ONLY TRUE DEF RequestOf, OwnMethods

\* The methods there are.
LEMMA Methods ==
    ASSUME NEW c, IsCall(c)
    PROVE  /\ c.method \in {"ping", "select", "insert", "replace", "delete", "update",
                            "upsert", "call", "eval"}
           /\ c.method \in DOMAIN RequestType /\ c.method \notin OwnMethods
<1>1. DOMAIN Parameters = {"ping", "select", "insert", "replace", "delete", "update",
                           "upsert", "call", "eval"}
  BY DEF Parameters
<1>2. DOMAIN Parameters \subseteq DOMAIN RequestType
  BY <1>1 DEF RequestType
<1> QED BY <1>1, <1>2 DEF IsCall, OwnMethods

\* How many fields, and which.
Fielded(fields, n) ==
    /\ Len(fields) = n /\ DOMAIN fields = 1..n
    /\ \A i \in 1..n : fields[i][1] \in DOMAIN Field

\* The fields of a request are fields the protocol has.
LEMMA FieldsOfMethods ==
    ASSUME NEW c, IsCall(c)
    PROVE  \E n \in Nat : Fielded(RequestOf(c).fields, n)
<1>1. CASE c.method = "ping"
  <2>1. RequestOf(c).fields = <<>>
    BY ONLY <1>1, RequestIs DEF Request
  <2>2. Fielded(RequestOf(c).fields, 0)
    BY ONLY <2>1 DEF Fielded
  <2> QED BY <2>2
<1>2. CASE c.method = "select"
  <2> DEFINE a == SpaceNo(c.space).v
             b == IndexNo(c.index).v
             d == Number(c.offset)
             e == LimitNo(c.limit).v
             f == ConvertIterator(c.iterator, NoKey(c.key)).v
             g == PackKey(c.key, TRUE)
  <2>1. RequestOf(c).fields = <<<<"space", a>>, <<"index", b>>, <<"offset", d>>,
              <<"limit", e>>, <<"iterator", f>>, <<"key", g>>>>
    <3>1. RequestOf(c) = SelectRequest(c)
      BY ONLY <1>2, RequestIs
    <3>2. SelectRequest(c).fields = <<<<"space", a>>, <<"index", b>>, <<"offset", d>>,
              <<"limit", e>>, <<"iterator", f>>, <<"key", g>>>>
      BY ONLY TRUE DEF SelectRequest, Request
    <3> QED BY ONLY <3>1, <3>2
  <2> HIDE DEF a, b, d, e, f, g
  <2>2. Fielded(RequestOf(c).fields, 6)
    <3>1. 1..6 = {1, 2, 3, 4, 5, 6}
      OBVIOUS
    <3> QED BY ONLY <2>1, <3>1 DEF Fielded, Field
  <2> QED BY <2>2
<1>3. CASE c.method \in {"insert", "replace"}
  <2>1. PICK a, b : RequestOf(c).fields = <<<<"space", a>>, <<"tuple", b>>>>
    BY ONLY <1>3, RequestIs DEF StoreRequest, Request
  <2>2. Fielded(RequestOf(c).fields, 2)
    BY ONLY <2>1 DEF Fielded, Field
  <2> QED BY <2>2
<1>4. CASE c.method = "delete"
  <2> DEFINE a == SpaceNo(c.space).v
             b == IndexNo(c.index).v
             d == PackKey(c.key, FALSE)
  <2>1. RequestOf(c).fields = <<<<"space", a>>, <<"index", b>>, <<"key", d>>>>
    <3>1. RequestOf(c) = DeleteRequest(c)
      BY ONLY <1>4, RequestIs
    <3>2. DeleteRequest(c).fields = <<<<"space", a>>, <<"index", b>>, <<"key", d>>>>
      BY ONLY TRUE DEF DeleteRequest, Request
    <3> QED BY ONLY <3>1, <3>2
  <2> HIDE DEF a, b, d
  <2>2. Fielded(RequestOf(c).fields, 3)
    BY ONLY <2>1 DEF Fielded, Field
  <2> QED BY <2>2
<1>5. CASE c.method = "update"
  <2> DEFINE a == SpaceNo(c.space).v
             b == IndexNo(c.index).v
             d == PackKey(c.key, FALSE)
             e == VerifyArgs(c.ops).v
  <2>1. RequestOf(c).fields = <<<<"space", a>>, <<"index", b>>, <<"key", d>>, <<"tuple", e>>>>
    <3>1. RequestOf(c) = UpdateRequest(c)
      BY ONLY <1>5, RequestIs
    <3>2. UpdateRequest(c).fields = <<<<"space", a>>, <<"index", b>>, <<"key", d>>, <<"tuple", e>>>>
      BY ONLY TRUE DEF UpdateRequest, Request
    <3> QED BY ONLY <3>1, <3>2
  <2> HIDE DEF a, b, d, e
  <2>2. Fielded(RequestOf(c).fields, 4)
    BY ONLY <2>1 DEF Fielded, Field
  <2> QED BY <2>2
<1>6. CASE c.method = "upsert"
  <2> DEFINE a == SpaceNo(c.space).v
             b == c.tuple
             d == VerifyArgs(c.ops).v
  <2>1. RequestOf(c).fields = <<<<"space", a>>, <<"tuple", b>>, <<"ops", d>>>>
    <3>1. RequestOf(c) = UpsertRequest(c)
      BY ONLY <1>6, RequestIs
    <3>2. UpsertRequest(c).fields = <<<<"space", a>>, <<"tuple", b>>, <<"ops", d>>>>
      BY ONLY TRUE DEF UpsertRequest, Request
    <3> QED BY ONLY <3>1, <3>2
  <2> HIDE DEF a, b, d
  <2>2. Fielded(RequestOf(c).fields, 3)
    BY ONLY <2>1 DEF Fielded, Field
  <2> QED BY <2>2
<1>7. CASE c.method \in {"call", "eval"}
  <2> DEFINE a == IF c.method = "call" THEN "function" ELSE "expression"
             b == c.proc
             d == PackKey(c.args, TRUE)
  <2>1. RequestOf(c).fields = <<<<a, b>>, <<"tuple", d>>>>
    <3>1. RequestOf(c) = RunRequest(c, a)
      BY ONLY <1>7, RequestIs
    <3>2. RunRequest(c, a).fields = <<<<a, b>>, <<"tuple", d>>>>
      BY ONLY TRUE DEF RunRequest, Request
    <3> QED BY ONLY <3>1, <3>2
  <2>2. a \in {"function", "expression"}
    OBVIOUS
  <2> HIDE DEF a, b, d
  <2>3. Fielded(RequestOf(c).fields, 2)
    BY ONLY <2>1, <2>2 DEF Fielded, Field
  <2> QED BY <2>3
<1> QED BY <1>1, <1>2, <1>3, <1>4, <1>5, <1>6, <1>7, Methods

\* The requests of the extension's own are lookups and authentications.
LEMMA OwnForms ==
    ASSUME NEW q, q \in Own
    PROVE  \/ \E space, index, key : q = Lookup(space, index, key)
           \/ \E login : q = Auth(login)
<1>1. ASSUME NEW c, q \in Lookups(c)
      PROVE  \E space, index, key : q = Lookup(space, index, key)
  BY <1>1, Zenon DEF Lookups
<1>2. \/ \E login \in Logins : q = Auth(login)
      \/ q = AllSpaces \/ q = AllIndexes
      \/ \E c \in Calls : q \in Lookups(c)
  BY DEF Own
<1>3. AllSpaces = Lookup(SPACE_SPACE, 0, <<>>) /\ AllIndexes = Lookup(SPACE_INDEX, 0, <<>>)
  BY DEF AllSpaces, AllIndexes
<1> QED BY ONLY <1>1, <1>2, <1>3, Zenon

\* What is known of a request of the extension's own.
LEMMA OwnIs ==
    ASSUME NEW q, q \in Own
    PROVE  /\ q.method \in OwnMethods /\ q.method \in DOMAIN RequestType
           /\ RequestOf(q) = Request("no", q.fields)
           /\ AreFields(q.fields) /\ \A f \in ToSet(q.fields) : f[2] \in Values
<1>1. \A f \in ToSet(q.fields) : f[2] \in Values
  BY OwnAssumption
<1>2. CASE \E space, index, key : q = Lookup(space, index, key)
  <2>1. PICK space, index, key : q = Lookup(space, index, key)
    BY <1>2
  <2> DEFINE a == Number(space)
             b == Number(index)
             d == Number(0)
             e == Number(LookupLimit)
             f == ListOf(key)
  <2>2. /\ q.method = "lookup"
        /\ q.fields = <<<<"space", a>>, <<"index", b>>, <<"offset", d>>, <<"limit", e>>, <<"key", f>>>>
    BY ONLY <2>1 DEF Lookup
  <2> HIDE DEF a, b, d, e, f
  <2>3. Fielded(q.fields, 5)
    <3>1. 1..5 = {1, 2, 3, 4, 5}
      OBVIOUS
    <3> QED BY ONLY <2>2, <3>1 DEF Fielded, Field
  <2>4. q.method \in OwnMethods /\ q.method \in DOMAIN RequestType
    BY ONLY <2>2 DEF OwnMethods, RequestType
  <2>5. AreFields(q.fields)
    BY ONLY <1>1, <2>3 DEF Fielded, AreFields, ToSet
  <2> QED BY ONLY <1>1, <2>4, <2>5, RequestIs
<1>3. CASE \E login : q = Auth(login)
  <2>1. PICK login : q = Auth(login)
    BY <1>3
  <2> DEFINE a == login.user
             b == IF Is(login.scramble, "nil") THEN EmptyArr
                  ELSE ListOf(<<Str(""), login.scramble>>)
  <2>2. q.method = "auth" /\ q.fields = <<<<"username", a>>, <<"tuple", b>>>>
    BY ONLY <2>1 DEF Auth
  <2> HIDE DEF a, b
  <2>3. Fielded(q.fields, 2)
    BY ONLY <2>2 DEF Fielded, Field
  <2>4. q.method \in OwnMethods /\ q.method \in DOMAIN RequestType
    BY ONLY <2>2 DEF OwnMethods, RequestType
  <2>5. AreFields(q.fields)
    BY ONLY <1>1, <2>3 DEF Fielded, AreFields, ToSet
  <2> QED BY ONLY <1>1, <2>4, <2>5, RequestIs
<1> QED BY ONLY q \in Own, <1>2, <1>3, OwnForms

\* So are their values values.
LEMMA AreFieldsOf ==
    ASSUME NEW c, c \in Asking
    PROVE  AreFields(RequestOf(c).fields)
<1>0. CASE c \in Own
  BY ONLY <1>0, OwnIs DEF Request
<1> SUFFICES ASSUME c \in Sendable PROVE AreFields(RequestOf(c).fields)
  BY <1>0 DEF Asking
<1>1. IsCall(c) /\ IsGood(RequestOf(c))
  BY CallOf DEF Sendable
<1>2. PICK n \in Nat : Fielded(RequestOf(c).fields, n)
  BY <1>1, FieldsOfMethods
<1>3. \A f \in ToSet(RequestOf(c).fields) : f[2] \in Values
  BY <1>1 DEF IsCall
<1> QED BY <1>2, <1>3 DEF Fielded, AreFields, ToSet

TypeOf(c) == RequestType[c.method]
SentAs(c, s) == IF c.method \in OwnMethods THEN Fixed(s) ELSE OnWire(s)
PackageOf(c, s) ==
    IF c.method = "ping" THEN EncodePing(SentAs(c, s))
    ELSE Encode(TypeOf(c), SentAs(c, s), RequestOf(c).fields)
TreesOf(c, s) ==
    IF c.method = "ping" THEN <<HeaderTree(TypeOf(c), s % Word)>>
    ELSE <<HeaderTree(TypeOf(c), s % Word), BodyTree(RequestOf(c).fields)>>
SizeOf(c, s) ==
    IF c.method = "ping" THEN SizeofHeader(TypeOf(c), SentAs(c, s))
    ELSE SizeofHeader(TypeOf(c), SentAs(c, s)) + SizeofBody(RequestOf(c).fields)
FrameOf(c, s) == Frame(SizeOf(c, s), TreesOf(c, s))

\* What the encoders write for a call is one request, behind its own size.
LEMMA Packaged ==
    ASSUME NEW c, c \in Asking, NEW s, s \in Nat
    PROVE  Holds(PackageOf(c, s), <<FrameOf(c, s)>>)
<1> DEFINE type == TypeOf(c)
           fields == RequestOf(c).fields
           sent == SentAs(c, s)
           no == s % Word
           h == HeaderItems(type, sent)
           b == PackBody(fields)
           wh == HeaderTree(type, no)
           wb == BodyTree(fields)
           nh == SizeofHeader(type, sent)
           nb == SizeofBody(fields)
<1>1. type \in Longs /\ IsSent(sent, no)
  <2>1. IsSent(sent, no)
    BY ONLY s \in Nat, SentIs DEF SentAs
  <2>2. c.method \in DOMAIN RequestType
    <3>1. CASE c \in Own
      BY ONLY <3>1, OwnIs
    <3>2. CASE c \in Sendable
      BY ONLY <3>2, CallOf, Methods DEF Sendable
    <3> QED BY ONLY c \in Asking, <3>1, <3>2 DEF Asking
  <2> QED BY <2>1, <2>2, NumbersFitLong DEF TypeOf
<1>2. AreFields(fields)
  BY ONLY c \in Asking, AreFieldsOf
<1>3. c.method = "ping" => type = RequestType.ping
  BY DEF TypeOf
<1> HIDE DEF type, fields, sent, no
<1>4. h \in Seq(Items) /\ nh \in Positive /\ Adds(h, <<wh>>, nh)
  BY ONLY <1>1, HeaderPacked DEF IsOne
<1>5. b \in Seq(Items) /\ nb \in Positive /\ Adds(b, <<wb>>, nb)
  BY ONLY <1>2, BodyPacked DEF IsOne
<1>6. \A n : n \in Nat => PackHeader(n, type, sent) = <<Item([size |-> n], 5)>> \o h
  BY ONLY <1>1, PackHeaderIs
<1>7. CASE c.method = "ping"
  <2>1. PackageOf(c, s) = <<Item([size |-> nh], 5)>> \o h
    BY <1>3, <1>4, <1>6, <1>7 DEF PackageOf, EncodePing, Positive, sent
  <2>2. FrameOf(c, s) = Frame(nh, <<wh>>)
    BY <1>7 DEF FrameOf, SizeOf, TreesOf, type, sent, no
  <2> DEFINE ws == <<wh>>
             U == {wh}
  <2>3. ws \in Seq(U) /\ Adds(h, ws, nh)
    BY <1>4
  <2>4. FrameOf(c, s) = Frame(nh, ws)
    BY <2>2
  <2> HIDE DEF ws, U, h, nh
  <2>5. Holds(<<Item([size |-> nh], 5)>> \o h, <<Frame(nh, ws)>>)
    BY ONLY <1>4, <2>3, Framing
  <2> QED BY ONLY <2>1, <2>4, <2>5
<1>8. CASE c.method # "ping"
  <2> DEFINE hb == h \o b
             n == nh + nb
             uh == <<wh>>
             ub == <<wb>>
             ws == <<wh, wb>>
             U == {wh, wb}
  <2>7. PackageOf(c, s) = PackHeader(n, type, sent) \o b
    BY <1>8 DEF PackageOf, Encode, type, fields, sent
  <2>8. FrameOf(c, s) = Frame(n, ws)
    BY <1>8 DEF FrameOf, SizeOf, TreesOf, type, sent, no, fields
  <2> HIDE DEF h, b, wh, wb, nh, nb
  <2>1. n \in Positive /\ n \in Nat /\ hb \in Seq(Items) /\ nh \in Nat /\ nb \in Nat
    BY ONLY <1>4, <1>5 DEF Positive
  <2>2. uh \in Seq(U) /\ ub \in Seq(U) /\ ws \in Seq(U)
    OBVIOUS
  <2>3. uh \o ub = ws
    BY ONLY Two
  <2>4. Adds(h, uh, nh) /\ Adds(b, ub, nb)
    BY <1>4, <1>5
  <2> HIDE DEF uh, ub, ws, U
  <2>5. Adds(h \o b, uh \o ub, nh + nb)
    BY ONLY <1>4, <1>5, <2>1, <2>2, <2>4, AddsBoth
  <2>6. Adds(hb, ws, n)
    BY ONLY <2>3, <2>5
  <2>9. PackageOf(c, s) = (<<Item([size |-> n], 5)>> \o h) \o b
    BY ONLY <1>6, <2>1, <2>7
  <2>10. (<<Item([size |-> n], 5)>> \o h) \o b = <<Item([size |-> n], 5)>> \o hb
    <3> DEFINE e == <<Item([size |-> n], 5)>>
    <3>1. Item([size |-> n], 5) \in Items
      BY <2>1 DEF Item, Items, Says, Positive
    <3>2. e \in Seq(Items)
      BY ONLY <3>1
    <3> HIDE DEF e
    <3>3. (e \o h) \o b = e \o (h \o b)
      BY ONLY <1>4, <1>5, <3>2, ConcatAssociative
    <3> QED BY ONLY <3>3 DEF e, hb
  <2> HIDE DEF hb, n
  <2>11. Holds(<<Item([size |-> n], 5)>> \o hb, <<Frame(n, ws)>>)
    BY ONLY <2>1, <2>2, <2>6, Framing
  <2> QED BY ONLY <2>8, <2>9, <2>10, <2>11
<1> QED BY <1>7, <1>8

-----------------------------------------------------------------------------
(* The requests of calls, one behind the other.                            *)

Frames == {FrameOf(c, s) : c \in Asking, s \in Nat}
CarriedIn(frames, items, calls) ==
    /\ frames \in Seq(Frames) /\ Len(frames) = Len(calls) /\ Holds(items, frames)
    /\ \A i \in 1..Len(calls) : \E s \in Nat : frames[i] = FrameOf(calls[i], s)
Carries(items, calls) ==
    calls \in Seq(Asking) /\ \E frames : CarriedIn(frames, items, calls)

\* Nothing carries no requests.
LEMMA CarriesNone == Carries(<<>>, <<>>)
<1>1. CarriedIn(<<>>, <<>>, <<>>)
  BY HoldsNone DEF CarriedIn
<1> QED BY <1>1 DEF Carries

\* A request behind those of other calls.
LEMMA CarriesMore ==
    ASSUME NEW items, NEW calls, Carries(items, calls), NEW c, c \in Asking,
           NEW s, s \in Nat
    PROVE  Carries(items \o PackageOf(c, s), Append(calls, c))
<1>1. PICK frames : CarriedIn(frames, items, calls)
  BY DEF Carries
<1> DEFINE f == FrameOf(c, s)
           one == <<f>>
           more == Append(calls, c)
           both == frames \o one
           package == PackageOf(c, s)
<1>2. f \in Frames
  BY DEF Frames
<1>3. frames \in Seq(Frames) /\ one \in Seq(Frames)
  BY <1>1, <1>2 DEF CarriedIn
<1>4. Holds(items, frames) /\ Holds(package, one)
  BY <1>1, Packaged DEF CarriedIn
<1> HIDE DEF one, package
<1>5. Holds(items \o package, frames \o one)
  BY ONLY <1>3, <1>4, HoldsBoth
<1>6. calls \in Seq(Asking)
  BY DEF Carries
<1>7. more \in Seq(Asking) /\ Len(more) = Len(calls) + 1
      /\ (\A i \in 1..Len(calls) : more[i] = calls[i]) /\ more[Len(calls) + 1] = c
      /\ Len(calls) \in Nat
  BY ONLY <1>6, c \in Asking
<1>8. Len(one) = 1 /\ one[1] = f
  BY DEF one
<1>9. both \in Seq(Frames) /\ Len(both) = Len(frames) + 1
      /\ (\A i \in 1..Len(frames) : both[i] = frames[i]) /\ both[Len(frames) + 1] = f
  <2>4. /\ both \in Seq(Frames) /\ Len(both) = Len(frames) + Len(one)
        /\ \A i \in 1..Len(frames) + Len(one) :
            both[i] = IF i <= Len(frames) THEN frames[i] ELSE one[i - Len(frames)]
    BY ONLY <1>3, ConcatProperties
  <2>5. Len(frames) \in Nat
    BY <1>3
  <2> HIDE DEF both, f
  <2>1. both \in Seq(Frames) /\ Len(both) = Len(frames) + 1
    BY ONLY <2>4, <1>8
  <2>2. \A i \in 1..Len(frames) : both[i] = frames[i]
    BY ONLY <2>4, <2>5, <1>8
  <2>3. both[Len(frames) + 1] = f
    <3>1. Len(frames) + 1 \in 1..Len(frames) + Len(one) /\ (Len(frames) + 1) - Len(frames) = 1
          /\ ~(Len(frames) + 1 <= Len(frames))
      BY ONLY <2>5, <1>8
    <3> QED BY ONLY <2>4, <3>1, <1>8
  <2> QED BY <2>1, <2>2, <2>3
<1>10. Len(frames) = Len(calls) /\ \A i \in 1..Len(calls) : \E t \in Nat : frames[i] = FrameOf(calls[i], t)
  BY <1>1 DEF CarriedIn
<1>11. f = FrameOf(c, s)
  OBVIOUS
<1> HIDE DEF f, both, more
<1>12. ASSUME NEW i \in 1..Len(more) PROVE \E t \in Nat : both[i] = FrameOf(more[i], t)
  <2>1. CASE i \in 1..Len(calls)
    <3>1. PICK t \in Nat : frames[i] = FrameOf(calls[i], t)
      BY <1>10, <2>1
    <3>2. both[i] = frames[i] /\ more[i] = calls[i]
      BY <1>7, <1>9, <1>10, <2>1
    <3> QED BY <3>1, <3>2
  <2>2. CASE i \notin 1..Len(calls)
    <3>1. i = Len(calls) + 1
      BY <1>7, <2>2
    <3>2. both[i] = f /\ more[i] = c
      BY <1>7, <1>9, <1>10, <3>1
    <3> QED BY ONLY s \in Nat, <1>11, <3>2
  <2> QED BY <2>1, <2>2
<1>13. CarriedIn(both, items \o package, more)
  <2>1. both = frames \o one
    BY DEF both
  <2>2. Holds(items \o package, both)
    BY ONLY <1>5, <2>1
  <2>3. Len(both) = Len(more)
    BY ONLY <1>7, <1>9, <1>10
  <2> QED BY ONLY <1>9, <1>12, <2>2, <2>3 DEF CarriedIn
<1>14. Carries(items \o package, more)
  BY ONLY <1>7, <1>13 DEF Carries
<1> QED BY <1>14 DEF package, more

\* What a request asks for.
Asked(c) ==
    [type   |-> TypeOf(c),
     fields |-> {<<Long(Field[f[1]]), TreeOf(f[2])>> : f \in ToSet(RequestOf(c).fields)}]

\* What the server reads of the trees of a request.
LEMMA AskedIs ==
    ASSUME NEW c, c \in Asking, NEW s
    PROVE  AsAsked(TreesOf(c, s)) = Asked(c)
<1> DEFINE trees == TreesOf(c, s)
           head == <<Long(CODE), TypeOf(c)>>
           fields == RequestOf(c).fields
           p == <<Long(CODE), Long(TypeOf(c))>>
           q == <<Long(SYNC), Long(s % Word)>>
           set == {<<Long(Field[f[1]]), TreeOf(f[2])>> : f \in ToSet(fields)}
           type == CHOOSE pair \in ToSet(trees[1].map) : pair[1] = Long(CODE)
<1>1. trees[1] = HeaderTree(TypeOf(c), s % Word)
  BY DEF TreesOf
<1>2. trees[1].map = <<p, q>>
  BY <1>1 DEF HeaderTree
<1>3. ToSet(trees[1].map) = {p, q}
  <2> HIDE DEF trees, p, q
  <2> QED BY ONLY <1>2 DEF ToSet
<1>4. p[1] = Long(CODE) /\ q[1] # Long(CODE) /\ p[2].int = TypeOf(c)
  BY DEF Long, CODE, SYNC
<1> HIDE DEF p, q
<1>5. type = p
  BY ONLY <1>3, <1>4
<1>6. type[2].int = TypeOf(c)
  BY ONLY <1>4, <1>5
<1>7. (IF Len(trees) = 1 THEN {} ELSE ToSet(trees[2].map)) = set
  <2>1. CASE c.method = "ping"
    <3>1. Len(trees) = 1
      BY <2>1 DEF TreesOf
    <3>2. fields = <<>>
      BY ONLY <2>1, RequestIs DEF Request
    <3>3. ToSet(fields) = {}
      BY ONLY <3>2 DEF ToSet
    <3>4. set = {}
      BY ONLY <3>3
    <3> QED BY ONLY <3>1, <3>4
  <2>2. CASE c.method # "ping"
    <3>1. Len(trees) = 2 /\ trees[2] = BodyTree(fields)
      BY <2>2 DEF TreesOf
    <3>2. trees[2].map = [i \in 1..Len(fields) |-> <<Long(Field[fields[i][1]]), TreeOf(fields[i][2])>>]
      BY ONLY <3>1 DEF BodyTree
    <3>3. DOMAIN fields = 1..Len(fields)
      BY ONLY c \in Asking, AreFieldsOf DEF AreFields
    <3> DEFINE w == trees[2].map
               n == Len(fields)
               at(f) == <<Long(Field[f[1]]), TreeOf(f[2])>>
    <3>5. DOMAIN w = 1..n /\ \A i \in 1..n : w[i] = at(fields[i])
      <4> HIDE DEF trees, fields
      <4> QED BY ONLY <3>2
    <3>6. set = {at(f) : f \in ToSet(fields)}
      OBVIOUS
    <3> HIDE DEF trees, fields, w, n, at, set
    <3>7. \A x \in ToSet(w) : x \in set
      BY ONLY <3>3, <3>5, <3>6 DEF ToSet, n
    <3>8. \A x \in set : x \in ToSet(w)
      BY ONLY <3>3, <3>5, <3>6 DEF ToSet, n
    <3>4. ToSet(trees[2].map) = set
      BY ONLY <3>7, <3>8 DEF w
    <3> QED BY ONLY <3>1, <3>4
  <2> QED BY <2>1, <2>2
<1>8. AsAsked(trees) = [type |-> type[2].int, fields |-> IF Len(trees) = 1 THEN {} ELSE ToSet(trees[2].map)]
  BY ONLY Zenon DEF AsAsked
<1> HIDE DEF type, set
<1>9. AsAsked(trees) = [type |-> TypeOf(c), fields |-> set]
  BY ONLY <1>6, <1>7, <1>8
<1> QED BY ONLY <1>9 DEF Asked, set, trees, fields

\* What is read of the requests of calls.
IsUnderstood(items, calls) ==
    /\ items \in Seq(Items) /\ Framed(items)
    /\ Len(Read(items, Nothing).requests) = Len(calls)
    /\ Understood(items) = [i \in 1..Len(calls) |-> Asked(calls[i])]
    /\ calls # <<>> => items # <<>>

\* The server reads, of the requests of calls, what each of them asks for, and
\* nothing else.
LEMMA CarriesUnderstood ==
    ASSUME NEW items, NEW calls, Carries(items, calls)
    PROVE  IsUnderstood(items, calls)
<1>1. PICK frames : CarriedIn(frames, items, calls)
  BY DEF Carries
<1>2. calls \in Seq(Asking)
  BY DEF Carries
<1>3. /\ frames \in Seq(Frames) /\ Len(frames) = Len(calls) /\ Holds(items, frames)
      /\ \A i \in 1..Len(calls) : \E s \in Nat : frames[i] = FrameOf(calls[i], s)
  BY <1>1 DEF CarriedIn
<1>4. Read(items, Nothing) = Behind(<<>>, 0, frames)
  <2> DEFINE none == <<>>
  <2>1. none \in Seq(Frames)
    OBVIOUS
  <2>2. Nothing = Behind(<<>>, 0, none)
    BY DEF Nothing, Behind
  <2>3. frames \o none = frames
    BY <1>3
  <2> HIDE DEF none
  <2>4. Read(items, Behind(<<>>, 0, none)) = Behind(<<>>, 0, frames \o none)
    BY ONLY <1>3, <2>1 DEF Holds
  <2> QED BY ONLY <2>2, <2>3, <2>4
<1>5. Read(items, Nothing).trees = <<>> /\ Read(items, Nothing).requests = frames
  BY ONLY <1>4 DEF Behind
<1>6. DOMAIN frames = 1..Len(calls)
  BY <1>3
<1>7. Framed(items)
  <2>1. \A i \in DOMAIN frames : frames[i].size = frames[i].bytes
    BY ONLY <1>3, <1>6 DEF FrameOf, Frame
  <2> QED BY ONLY <1>5, <2>1 DEF Framed, InFrames
<1>8. \A i \in 1..Len(calls) : AsAsked(frames[i].trees) = Asked(calls[i])
  <2> SUFFICES ASSUME NEW i \in 1..Len(calls) PROVE AsAsked(frames[i].trees) = Asked(calls[i])
    OBVIOUS
  <2>1. PICK s \in Nat : frames[i] = FrameOf(calls[i], s)
    BY <1>3
  <2> DEFINE c == calls[i]
  <2>2. c \in Asking
    BY <1>2
  <2>3. frames[i].trees = TreesOf(c, s)
    BY <2>1 DEF FrameOf, Frame
  <2> HIDE DEF c
  <2>4. AsAsked(TreesOf(c, s)) = Asked(c)
    BY ONLY <2>2, AskedIs
  <2> QED BY <2>3, <2>4 DEF c
<1>9. Understood(items) = [i \in 1..Len(calls) |-> Asked(calls[i])]
  <2>1. Understood(items) = [i \in DOMAIN frames |-> AsAsked(frames[i].trees)]
    <3> DEFINE read == Read(items, Nothing)
    <3>1. InFrames(read) /\ read.requests = frames
      BY ONLY <1>5, <1>7 DEF Framed
    <3>2. Understood(items) = IF InFrames(read)
            THEN [i \in DOMAIN read.requests |-> AsAsked(read.requests[i].trees)] ELSE None
      BY ONLY Zenon DEF Understood
    <3> HIDE DEF read
    <3> QED BY ONLY <3>1, <3>2
  <2> QED BY ONLY <1>6, <1>8, <2>1
<1>10. calls # <<>> => items # <<>>
  <2> SUFFICES ASSUME items = <<>> PROVE calls = <<>>
    OBVIOUS
  <2>1. Read(items, Nothing) = Nothing
    BY ReadNone
  <2>2. frames = <<>>
    BY ONLY <1>5, <2>1 DEF Nothing
  <2>3. Len(calls) = 0
    BY <1>3, <2>2
  <2> QED BY ONLY <1>2, <2>3
<1>11. items \in Seq(Items)
  BY <1>3 DEF Holds
<1> QED BY ONLY <1>3, <1>5, <1>7, <1>9, <1>10, <1>11 DEF IsUnderstood

-----------------------------------------------------------------------------
(* The invariant.                                                          *)

Proper(r) == ~Is(r.raised, "nil") => r.v = Bool(FALSE)
\* What the server was sent, and what it makes of it, are the requests of calls.
Arrival(items, requests) ==
    \/ items = <<>> /\ requests = <<>>
    \/ /\ items # <<>> /\ requests = Understood(items)
       /\ \E calls : calls # <<>> /\ Carries(items, calls)
Inv ==
    /\ call \in Calls \cup {None} /\ answer \in (UNION Range(Answers)) \cup {None}
    /\ Carries(buffer, unsent) /\ Len(unsent) <= MaxWaiting
    /\ Arrival(arrived, received) /\ (arrived # <<>> => call \in Calls)
    /\ Proper(result)

\* What a method returns that has reached the server, or has failed without a word.
Told(r) == Proper(r) /\ r.raised # ByNetwork

\* What the methods return goes with the exception.
LEMMA ResultsProper ==
    /\ \A what : Proper(Raised(what))
    /\ \A v : Told(Returned(v)) /\ Proper(Returned(v))
    /\ Told(Raised(ByClient)) /\ \A code, text : Told(Raised(ByServer(code, text)))
    /\ \A err : Told(FailedWith(err)) /\ Proper(FailedWith(err))
<1>1. \A v : Proper(Returned(v)) /\ Returned(v).raised = Nil
  BY DEF Proper, Returned, Is, Nil
<1>2. \A what : Proper(Raised(what)) /\ Raised(what).raised = what
  BY DEF Proper, Raised
<1>3. Nil # ByNetwork /\ ByClient # ByNetwork /\ \A code, text : ByServer(code, text) # ByNetwork
  <2>1. /\ DOMAIN Nil = {"nil"} /\ DOMAIN ByNetwork = {"network"} /\ DOMAIN ByClient = {"client"}
        /\ \A code, text : DOMAIN ByServer(code, text) = {"server"}
    BY DEF Nil, ByNetwork, ByClient, ByServer
  <2> QED BY ONLY <2>1
<1>4. \A err : FailedWith(err) = Raised(ByClient) \/ FailedWith(err) = Raised(Nil)
  BY DEF FailedWith
<1>5. \A v : Told(Returned(v))
  BY ONLY <1>1, <1>3 DEF Told
<1>6. Told(Raised(ByClient)) /\ Told(Raised(Nil))
  BY ONLY <1>2, <1>3 DEF Told
<1>7. \A code, text : Told(Raised(ByServer(code, text)))
  BY ONLY <1>2, <1>3 DEF Told
<1>8. \A err : Told(FailedWith(err))
  BY ONLY <1>4, <1>6
<1> QED BY ONLY <1>1, <1>2, <1>5, <1>6, <1>7, <1>8 DEF Told

\* So does what bee_step_recv fails with, and it has reached the server.
LEMMA RecvProper ==
    ASSUME NEW items, NEW s, "failure" \in DOMAIN Recv(items, s)
    PROVE  Told(Recv(items, s).failure)
<1> DEFINE header == Unpack(items, 1)
           body   == Unpack(items, header.next)
           code   == At(header.v, Long(CODE)).int
           number == code % ErrorBit
           text   == At(body.v, Long(ERROR))
           outcome == Recv(items, s)
<1>1. outcome =
        IF header.err # "no" THEN Failure(FailedWith(header.err))
        ELSE IF ~Is(header.v, "array") THEN Failure(FailedWith("silent"))
        ELSE IF body.err # "no" THEN Failure(FailedWith(body.err))
        ELSE IF Has(header.v, Long(SYNC)) /\ At(header.v, Long(SYNC)) # Long(s)
        THEN Failure(Raised(ByClient))
        ELSE IF ~Has(header.v, Long(CODE)) THEN Failure(Raised(ByClient))
        ELSE IF code = 0 THEN [body |-> body.v]
        ELSE Failure(Raised(ByServer(number, text)))
  BY ONLY Zenon DEF Recv
<1> HIDE DEF header, body, code, number, text
<1>2. \/ outcome = [body |-> body.v]
      \/ \E err : outcome = Failure(FailedWith(err))
      \/ outcome = Failure(Raised(ByClient))
      \/ outcome = Failure(Raised(ByServer(number, text)))
  <2> HIDE DEF outcome
  <2> QED BY ONLY <1>1, Zenon
<1>3. outcome # [body |-> body.v]
  <2>1. DOMAIN [body |-> body.v] = {"body"}
    OBVIOUS
  <2> QED BY <2>1
<1>4. \A r : Failure(r).failure = r
  BY DEF Failure
<1> HIDE DEF outcome
<1>5. Told(outcome.failure)
  BY ONLY <1>2, <1>3, <1>4, ResultsProper
<1> QED BY <1>5 DEF outcome

\* A step is the answer, that of a method that connects, or that of a call that
\* gives up, is refused, or has a request.
Step ==
    \/ Answered
    \/ Connects
    \/ \E c \in Calls : GivesUp(c)
    \/ \E c \in Calls : Refuses(c, RequestOf(c).err)
    \/ \E c \in Sendable, s \in Syncs : Sends(c, s, PackageOf(c, s))
    \/ UNCHANGED vars

\* The step of a method with a request.
LEMMA RequestsStep ==
    ASSUME NEW c, c \in Calls, c.method # "ping", Requests(c, RequestOf(c))
    PROVE  Step
<1>1. CASE Refuses(c, RequestOf(c).err)
  BY ONLY <1>1, c \in Calls DEF Step
<1>2. ASSUME NEW s \in Syncs, RequestOf(c).err = "no",
             Sends(c, s, Encode(RequestType[c.method], OnWire(s), RequestOf(c).fields))
      PROVE  Step
  <2>1. c \in Sendable
    BY ONLY <1>2, c \in Calls DEF Sendable, IsGood
  <2>2. PackageOf(c, s) = Encode(RequestType[c.method], OnWire(s), RequestOf(c).fields)
    <3>1. c.method \notin OwnMethods
      BY ONLY c \in Calls, CallOf, Methods
    <3> QED BY ONLY c.method # "ping", <3>1 DEF PackageOf, TypeOf, SentAs
  <2>3. Sends(c, s, PackageOf(c, s))
    BY ONLY <1>2, <2>2
  <2> QED BY ONLY <2>1, <2>3, s \in Syncs DEF Step
<1> QED BY ONLY Requests(c, RequestOf(c)), <1>1, <1>2 DEF Requests

\* The steps there are.
LEMMA StepOf == ASSUME [Next]_vars PROVE Step
<1>1. CASE UNCHANGED vars
  BY ONLY <1>1 DEF Step
<1>2. CASE Answered
  BY ONLY <1>2 DEF Step
<1>3. CASE Ping
  <2>1. PICK c \in Of("ping"), s \in Syncs : Sends(c, s, EncodePing(OnWire(s)))
    BY <1>3 DEF Ping
  <2>2. c \in Calls /\ c.method = "ping"
    BY DEF Of
  <2>3. RequestOf(c) = Request("no", <<>>)
    BY ONLY <2>2, RequestIs
  <2>4. c \in Sendable
    BY ONLY <2>2, <2>3 DEF Sendable, IsGood, Request
  <2>5. PackageOf(c, s) = EncodePing(OnWire(s))
    BY ONLY <2>2 DEF PackageOf, SentAs, OwnMethods
  <2>6. Sends(c, s, PackageOf(c, s))
    BY ONLY <2>1, <2>5
  <2> QED BY ONLY <2>4, <2>6, s \in Syncs DEF Step
<1>4. CASE Select
  <2>1. PICK c \in Of("select") : Requests(c, SelectRequest(c))
    BY <1>4 DEF Select
  <2>2. c \in Calls /\ c.method = "select" /\ c.method # "ping"
    BY DEF Of
  <2>3. RequestOf(c) = SelectRequest(c)
    BY ONLY <2>2, RequestIs
  <2> QED BY ONLY <2>1, <2>2, <2>3, RequestsStep
<1>5. CASE Insert
  <2>1. PICK c \in Of("insert") : Requests(c, StoreRequest(c))
    BY <1>5 DEF Insert
  <2>2. c \in Calls /\ c.method = "insert" /\ c.method # "ping"
    BY DEF Of
  <2>3. RequestOf(c) = StoreRequest(c)
    BY ONLY <2>2, RequestIs
  <2> QED BY ONLY <2>1, <2>2, <2>3, RequestsStep
<1>6. CASE Replace
  <2>1. PICK c \in Of("replace") : Requests(c, StoreRequest(c))
    BY <1>6 DEF Replace
  <2>2. c \in Calls /\ c.method = "replace" /\ c.method # "ping"
    BY DEF Of
  <2>3. RequestOf(c) = StoreRequest(c)
    BY ONLY <2>2, RequestIs
  <2> QED BY ONLY <2>1, <2>2, <2>3, RequestsStep
<1>7. CASE Delete
  <2>1. PICK c \in Of("delete") : Requests(c, DeleteRequest(c))
    BY <1>7 DEF Delete
  <2>2. c \in Calls /\ c.method = "delete" /\ c.method # "ping"
    BY DEF Of
  <2>3. RequestOf(c) = DeleteRequest(c)
    BY ONLY <2>2, RequestIs
  <2> QED BY ONLY <2>1, <2>2, <2>3, RequestsStep
<1>8. CASE Call
  <2>1. PICK c \in Of("call") : Requests(c, RunRequest(c, "function"))
    BY <1>8 DEF Call
  <2>2. c \in Calls /\ c.method = "call" /\ c.method # "ping"
    BY DEF Of
  <2>3. RequestOf(c) = RunRequest(c, "function")
    BY ONLY <2>2, RequestIs
  <2> QED BY ONLY <2>1, <2>2, <2>3, RequestsStep
<1>9. CASE Eval
  <2>1. PICK c \in Of("eval") : Requests(c, RunRequest(c, "expression"))
    BY <1>9 DEF Eval
  <2>2. c \in Calls /\ c.method = "eval" /\ c.method # "ping"
    BY DEF Of
  <2>3. RequestOf(c) = RunRequest(c, "expression")
    BY ONLY <2>2, RequestIs
  <2> QED BY ONLY <2>1, <2>2, <2>3, RequestsStep
<1>10. CASE Update
  <2>1. PICK c \in Of("update") : Requests(c, UpdateRequest(c))
    BY <1>10 DEF Update
  <2>2. c \in Calls /\ c.method = "update" /\ c.method # "ping"
    BY DEF Of
  <2>3. RequestOf(c) = UpdateRequest(c)
    BY ONLY <2>2, RequestIs
  <2> QED BY ONLY <2>1, <2>2, <2>3, RequestsStep
<1>11. CASE Upsert
  <2>1. PICK c \in Of("upsert") : Requests(c, UpsertRequest(c))
    BY <1>11 DEF Upsert
  <2>2. c \in Calls /\ c.method = "upsert" /\ c.method # "ping"
    BY DEF Of
  <2>3. RequestOf(c) = UpsertRequest(c)
    BY ONLY <2>2, RequestIs
  <2> QED BY ONLY <2>1, <2>2, <2>3, RequestsStep
<1>12. CASE Connects
  BY ONLY <1>12 DEF Step
<1>13. CASE \E c \in Calls : GivesUp(c)
  BY ONLY <1>13 DEF Step
<1> QED BY ONLY [Next]_vars, <1>1, <1>2, <1>3, <1>4, <1>5, <1>6, <1>7, <1>8, <1>9, <1>10, <1>11,
     <1>12, <1>13 DEF Next

\* The counter of the process is a number.
LEMMA SyncsAre == \A s \in Syncs : s \in Nat
<1>1. LongMax \in Nat /\ Syncs \subseteq 0..LongMax
  BY CallsAssumption, StepsAssumption
<1> QED BY ONLY <1>1

\* What a request is encoded over is the requests of calls.
LEMMA WaitingCarries ==
    ASSUME Inv, NEW waits, waits \in Waiting
    PROVE  Carries(waits.items, waits.calls) /\ Len(waits.calls) <= MaxWaiting
<1>1. MaxWaiting \in Nat
  BY BoundsAssumption
<1>2. \/ waits.items = buffer /\ waits.calls = unsent
      \/ waits.items = <<>> /\ waits.calls = <<>>
  BY DEF Waiting
<1> QED BY <1>1, <1>2, CarriesNone DEF Inv

\* What is encoded for a request of the extension's own.
LEMMA OwnPackage ==
    ASSUME NEW q, q \in Own, NEW s
    PROVE  PackageOf(q, s) = EncodeOwn(q, s)
<1>1. q.method \in OwnMethods /\ q.method # "ping" /\ RequestOf(q) = Request("no", q.fields)
  BY ONLY q \in Own, OwnIs DEF OwnMethods
<1>2. RequestOf(q).fields = q.fields
  BY ONLY <1>1 DEF Request
<1> QED BY ONLY <1>1, <1>2 DEF PackageOf, EncodeOwn, SentAs, TypeOf

\* Such a request behind other requests.
LEMMA OwnCarries ==
    ASSUME NEW items, NEW calls, Carries(items, calls), NEW q, q \in Own, NEW s, s \in Nat
    PROVE  Carries(items \o EncodeOwn(q, s), Append(calls, q))
<1>1. q \in Asking
  BY DEF Asking
<1>2. Carries(items \o PackageOf(q, s), Append(calls, q))
  BY ONLY <1>1, Carries(items, calls), s \in Nat, CarriesMore
<1> QED BY ONLY <1>2, q \in Own, OwnPackage

\* Such a request alone.
LEMMA OneCarries ==
    ASSUME NEW q, q \in Own, NEW s, s \in Nat
    PROVE  Carries(EncodeOwn(q, s), <<q>>)
<1> DEFINE none == <<>>
           package == EncodeOwn(q, s)
<1>1. Carries(none, none)
  BY ONLY CarriesNone
<1>2. package \in Seq(Items)
  <2>1. q \in Asking
    BY DEF Asking
  <2>2. Holds(PackageOf(q, s), <<FrameOf(q, s)>>)
    BY ONLY <2>1, s \in Nat, Packaged
  <2>3. PackageOf(q, s) \in Seq(Items)
    BY ONLY <2>2 DEF Holds
  <2> QED BY ONLY <2>3, q \in Own, OwnPackage
<1> HIDE DEF none
<1>3. Carries(none \o package, Append(none, q))
  BY ONLY <1>1, q \in Own, s \in Nat, OwnCarries
<1> HIDE DEF package
<1>4. none \o package = package
  BY ONLY <1>2 DEF none
<1>5. Append(none, q) = <<q>>
  BY ONLY TRUE DEF none
<1>6. Carries(package, <<q>>)
  BY ONLY <1>3, <1>4, <1>5
<1> QED BY ONLY <1>6 DEF package

\* What is looked up, or sent to authenticate, is such a request.
LEMMA OwnOf ==
    /\ AllSpaces \in Own /\ AllIndexes \in Own
    /\ \A login \in Logins : Auth(login) \in Own
    /\ \A c \in Calls : \A q \in Lookups(c) : q \in Own
BY DEF Own

\* A sequence that has one element more than another.
LEMMA AppendedIs ==
    ASSUME NEW T, NEW two \in Seq(T), NEW r \in T, NEW y \in Seq(T),
           Len(y) = Len(two) + 1, y[Len(y)] = r, \A i \in 1..Len(two) : y[i] = two[i]
    PROVE  Append(two, r) = y
<1> DEFINE x == Append(two, r)
<1>1. x \in Seq(T)
  OBVIOUS
<1>2. Len(x) = Len(two) + 1
  OBVIOUS
<1>3. x[Len(two) + 1] = r
  OBVIOUS
<1>4. \A i \in 1..Len(two) : x[i] = two[i]
  OBVIOUS
<1> HIDE DEF x
<1>5. \A i \in 1..Len(x) : x[i] = y[i]
  <2>1. Len(two) \in Nat
    OBVIOUS
  <2> QED BY <1>2, <1>3, <1>4, <2>1
<1>6. x = y
  BY ONLY y \in Seq(T), Len(y) = Len(two) + 1, <1>1, <1>2, <1>5, SeqEqual
<1> QED BY ONLY <1>6 DEF x

\* An authentication is three requests.
LEMMA AuthCarries ==
    ASSUME NEW s, s \in Nat, NEW batch, batch \in AuthBatches(s)
    PROVE  Carries(batch.items, batch.calls) /\ batch.calls \in AuthMessages
<1>1. PICK login \in Logins :
        batch = [items |-> EncodeOwn(Auth(login), s) \o EncodeOwn(AllSpaces, s + 1)
                              \o EncodeOwn(AllIndexes, s + 2),
                 calls |-> <<Auth(login), AllSpaces, AllIndexes>>]
  BY DEF AuthBatches
<1> DEFINE p == Auth(login)
           q == AllSpaces
           r == AllIndexes
           ep == EncodeOwn(p, s)
           eq == EncodeOwn(q, s + 1)
           er == EncodeOwn(r, s + 2)
<1>2. p \in Own /\ q \in Own /\ r \in Own /\ s + 1 \in Nat /\ s + 2 \in Nat
  BY OwnOf
<1>3. batch.items = (ep \o eq) \o er /\ batch.calls = <<p, q, r>>
  BY ONLY <1>1
<1>4. batch.calls \in AuthMessages
  BY <1>3 DEF AuthMessages
<1> HIDE DEF p, q, r
<1>5. Carries(ep, <<p>>)
  BY ONLY <1>2, s \in Nat, OneCarries
<1> DEFINE one == <<p>>
           two == Append(one, q)
<1>6. Append(two, r) = <<p, q, r>>
  <2> DEFINE T == {p, q, r}
             pair == <<p, q>>
             three == <<p, q, r>>
  <2>1. q \in T /\ r \in T /\ one \in Seq(T) /\ pair \in Seq(T) /\ three \in Seq(T)
    <3>1. p \in T /\ q \in T /\ r \in T
      OBVIOUS
    <3> HIDE DEF T
    <3> QED BY ONLY <3>1
  <2>2. Len(one) = 1 /\ one[1] = p /\ Len(pair) = 2 /\ pair[1] = p /\ pair[2] = q
    OBVIOUS
  <2>3. Len(three) = 3 /\ three[1] = p /\ three[2] = q /\ three[3] = r
    OBVIOUS
  <2> HIDE DEF T, one, pair, three
  <2>4. two = pair
    <3>1. Len(pair) = Len(one) + 1 /\ pair[Len(pair)] = q /\ \A i \in 1..Len(one) : pair[i] = one[i]
      BY ONLY <2>2
    <3> QED BY ONLY <2>1, <3>1, AppendedIs DEF two
  <2> HIDE DEF two
  <2>5. Append(pair, r) = three
    <3>1. /\ Len(three) = Len(pair) + 1 /\ three[Len(three)] = r
          /\ \A i \in 1..Len(pair) : three[i] = pair[i]
      BY ONLY <2>2, <2>3
    <3> QED BY ONLY <2>1, <3>1, AppendedIs
  <2> QED BY ONLY <2>4, <2>5 DEF three
<1> HIDE DEF ep
<1>7. Carries(ep, one)
  BY ONLY <1>5
<1> HIDE DEF one
<1>8. Carries(ep \o eq, two)
  BY ONLY <1>2, <1>7, OwnCarries
<1> DEFINE both == ep \o eq
<1> HIDE DEF two, eq
<1>9. Carries(both, two)
  BY ONLY <1>8
<1> HIDE DEF both
<1>10. Carries(both \o er, Append(two, r))
  BY ONLY <1>2, <1>9, OwnCarries
<1>11. Carries(batch.items, batch.calls)
  BY ONLY <1>3, <1>6, <1>10 DEF both
<1> QED BY ONLY <1>4, <1>11

\* A lookup is one request.
LEMMA LookupCarries ==
    ASSUME NEW c, c \in Calls, NEW s, s \in Nat, NEW batch, batch \in LookupBatches(c, s)
    PROVE  Carries(batch.items, batch.calls) /\ batch.calls \in {<<q>> : q \in Lookups(c)}
<1>1. PICK q \in Lookups(c) : batch = [items |-> EncodeOwn(q, s), calls |-> <<q>>]
  BY DEF LookupBatches
<1>2. q \in Own
  BY ONLY c \in Calls, OwnOf
<1>3. Carries(EncodeOwn(q, s), <<q>>)
  BY ONLY <1>2, s \in Nat, OneCarries
<1>4. batch.items = EncodeOwn(q, s) /\ batch.calls = <<q>>
  BY ONLY <1>1
<1>5. batch.calls \in {<<x>> : x \in Lookups(c)}
  BY ONLY <1>4, q \in Lookups(c)
<1> QED BY ONLY <1>3, <1>4, <1>5

\* The invariant holds at first, and every step keeps it.
LEMMA InitInv == Init => Inv
<1> SUFFICES ASSUME Init PROVE Inv
  OBVIOUS
<1>1. Len(unsent) <= MaxWaiting
  BY BoundsAssumption DEF Init
<1>2. call \in Calls \cup {None} /\ answer \in (UNION Range(Answers)) \cup {None}
  BY DEF Init
<1>3. Carries(buffer, unsent) /\ Proper(result)
  BY CarriesNone, ResultsProper DEF Init
<1>4. Arrival(arrived, received) /\ arrived = <<>>
  BY DEF Init, Arrival
<1> QED BY ONLY <1>1, <1>2, <1>3, <1>4 DEF Inv

\* Every step keeps the invariant.
LEMMA StepInv == Inv /\ [Next]_vars => Inv'
<1> SUFFICES ASSUME Inv, [Next]_vars PROVE Inv'
  OBVIOUS
<1>1. Step
  BY StepOf
<1>2. CASE UNCHANGED vars
  BY ONLY Inv, <1>2 DEF Inv, vars
<1>3. CASE Answered
  <2>1. PICK a \in Answers[call] :
          /\ answer' = a
          /\ LET outcome == Recv(Wire(a, sync % Word), sync)
             IN  result' = IF "failure" \in DOMAIN outcome THEN outcome.failure
                           ELSE IF call.method = "ping" THEN Returned(Bool(TRUE))
                           ELSE ReturnData(outcome.body)
    BY <1>3 DEF Answered
  <2>2. arrived # <<>> /\ arrived' = <<>> /\ received' = <<>> /\ call' = call /\ sync' = sync
        /\ buffer' = buffer /\ unsent' = unsent
    BY <1>3 DEF Answered
  <2>3. call \in Calls
    BY <2>2 DEF Inv
  <2>4. answer' \in UNION Range(Answers)
    <3>1. Answers[call] \in Range(Answers)
      BY <2>3, CallsAssumption DEF Range
    <3> QED BY <2>1, <3>1
  <2>5. Proper(result')
    <3> DEFINE outcome == Recv(Wire(a, sync % Word), sync)
    <3>1. "failure" \in DOMAIN outcome => Proper(outcome.failure)
      BY RecvProper DEF Told
    <3>2. \A body : Proper(ReturnData(body))
      BY ResultsProper DEF ReturnData
    <3>3. result' = IF "failure" \in DOMAIN outcome THEN outcome.failure
                    ELSE IF call.method = "ping" THEN Returned(Bool(TRUE))
                    ELSE ReturnData(outcome.body)
      BY <2>1
    <3> HIDE DEF outcome
    <3> QED BY ONLY <3>1, <3>2, <3>3, ResultsProper
  <2> QED BY <2>2, <2>3, <2>4, <2>5 DEF Inv, Arrival
<1>4. ASSUME NEW c \in Calls, Refuses(c, RequestOf(c).err) PROVE Inv'
  <2>1. arrived = <<>> /\ call' = c /\ answer' = None /\ result' = FailedWith(RequestOf(c).err)
        /\ arrived' = arrived /\ received' = received
    BY ONLY <1>4 DEF Refuses, Asks
  <2>2. PICK waits \in Waiting : buffer' = waits.items /\ unsent' = waits.calls
    BY ONLY <1>4 DEF Refuses, Keeps
  <2>3. Carries(buffer', unsent') /\ Len(unsent') <= MaxWaiting
    BY ONLY Inv, <2>2, WaitingCarries
  <2>4. Proper(result')
    BY ONLY <2>1, ResultsProper
  <2>5. call' \in Calls \cup {None} /\ answer' \in (UNION Range(Answers)) \cup {None}
    BY ONLY c \in Calls, <2>1
  <2>6. Arrival(arrived', received') /\ (arrived' # <<>> => call' \in Calls)
    BY ONLY Inv, c \in Calls, <2>1 DEF Inv
  <2> QED BY ONLY <2>3, <2>4, <2>5, <2>6 DEF Inv
<1>5. ASSUME NEW c \in Sendable, NEW s \in Syncs, Sends(c, s, PackageOf(c, s)) PROVE Inv'
  <2>1. arrived = <<>> /\ call' = c /\ answer' = None /\ c \in Calls
    BY ONLY <1>5 DEF Sends, Asks, Sendable
  <2>2. PICK waits \in Waiting : Writes(waits.items \o PackageOf(c, s), Append(waits.calls, c))
    BY ONLY <1>5 DEF Sends
  <2> DEFINE items == waits.items \o PackageOf(c, s)
             calls == Append(waits.calls, c)
  <2>10. c \in Asking /\ s \in Nat
    BY ONLY c \in Sendable, s \in Syncs, SyncsAre DEF Asking
  <2>3. Carries(items, calls)
    BY ONLY Inv, <2>2, <2>10, WaitingCarries, CarriesMore
  <2>4. calls # <<>>
    <3>1. waits.calls \in Seq(Asking)
      BY ONLY Inv, <2>2, WaitingCarries DEF Carries
    <3> QED BY ONLY <3>1, <2>10
  <2>5. Writes(items, calls)
    BY <2>2
  <2> HIDE DEF items, calls
  <2>6. IsUnderstood(items, calls)
    BY ONLY <2>3, CarriesUnderstood
  <2>9. call' \in Calls \cup {None} /\ answer' \in (UNION Range(Answers)) \cup {None}
    BY ONLY <2>1
  <2>7. CASE /\ arrived' = items /\ received' = Understood(items)
             /\ buffer' = <<>> /\ unsent' = <<>> /\ UNCHANGED result
    <3>1. Arrival(arrived', received')
      BY ONLY <2>3, <2>4, <2>6, <2>7 DEF Arrival, IsUnderstood
    <3>2. Carries(buffer', unsent') /\ Len(unsent') <= MaxWaiting
      BY ONLY <2>7, CarriesNone, BoundsAssumption
    <3>3. Proper(result') /\ call' \in Calls
      BY ONLY Inv, <2>1, <2>7 DEF Inv
    <3> QED BY ONLY <2>9, <3>1, <3>2, <3>3 DEF Inv
  <2>8. CASE /\ Len(calls) <= MaxWaiting /\ Last(calls) \in Fails
             /\ buffer' = items /\ unsent' = calls /\ result' = FailedWith("silent")
             /\ UNCHANGED <<arrived, received>>
    <3>1. Proper(result')
      BY ONLY <2>8, ResultsProper
    <3>2. Arrival(arrived', received') /\ call' \in Calls
      BY ONLY Inv, <2>1, <2>8 DEF Inv
    <3>3. Carries(buffer', unsent') /\ Len(unsent') <= MaxWaiting
      BY ONLY <2>3, <2>8
    <3> QED BY ONLY <2>9, <3>1, <3>2, <3>3 DEF Inv
  <2> QED BY ONLY <2>5, <2>7, <2>8 DEF Writes
<1>6. ASSUME NEW c \in Calls, GivesUp(c) PROVE Inv'
  <2>1. call' = c /\ answer' = None /\ arrived' = arrived /\ received' = received
    BY ONLY <1>6 DEF GivesUp, Asks
  <2>2. Proper(result')
    BY ONLY <1>6, ResultsProper DEF GivesUp
  <2>3. Carries(buffer', unsent') /\ Len(unsent') <= MaxWaiting
    <3>1. CASE \E waits \in Waiting : Keeps(waits)
      BY ONLY Inv, <3>1, WaitingCarries DEF Keeps
    <3>2. CASE \E s \in Syncs : \E batch \in AuthBatches(s) \cup LookupBatches(c, s) :
                Len(batch.calls) <= MaxWaiting /\ Keeps(batch)
      <4>1. PICK s \in Syncs : \E batch \in AuthBatches(s) \cup LookupBatches(c, s) :
                Len(batch.calls) <= MaxWaiting /\ Keeps(batch)
        BY ONLY <3>2
      <4>2. PICK batch \in AuthBatches(s) \cup LookupBatches(c, s) :
                Len(batch.calls) <= MaxWaiting /\ Keeps(batch)
        BY ONLY <4>1
      <4>3. s \in Nat
        BY ONLY SyncsAre
      <4>4. Carries(batch.items, batch.calls)
        BY ONLY c \in Calls, <4>2, <4>3, AuthCarries, LookupCarries
      <4> QED BY ONLY <4>2, <4>4 DEF Keeps
    <3> QED BY ONLY <1>6, <3>1, <3>2 DEF GivesUp
  <2>4. Arrival(arrived', received') /\ (arrived' # <<>> => call' \in Calls)
    BY ONLY Inv, c \in Calls, <2>1 DEF Inv
  <2>5. call' \in Calls \cup {None} /\ answer' \in (UNION Range(Answers)) \cup {None}
    BY ONLY c \in Calls, <2>1
  <2> QED BY ONLY <2>2, <2>3, <2>4, <2>5 DEF Inv
<1>7. CASE Connects
  <2>1. /\ call' = None /\ answer' = None /\ arrived = <<>> /\ arrived' = arrived
        /\ received' = received
    BY ONLY <1>7 DEF Connects
  <2>2. Proper(result')
    BY ONLY <1>7, ResultsProper DEF Connects
  <2>3. Carries(buffer', unsent') /\ Len(unsent') <= MaxWaiting
    <3>1. CASE \E waits \in Waiting : Keeps(waits)
      BY ONLY Inv, <3>1, WaitingCarries DEF Keeps
    <3>2. CASE \E s \in Syncs : \E batch \in AuthBatches(s) :
                Len(batch.calls) <= MaxWaiting /\ Keeps(batch)
      <4>1. PICK s \in Syncs : \E batch \in AuthBatches(s) :
                Len(batch.calls) <= MaxWaiting /\ Keeps(batch)
        BY ONLY <3>2
      <4>2. PICK batch \in AuthBatches(s) : Len(batch.calls) <= MaxWaiting /\ Keeps(batch)
        BY ONLY <4>1
      <4>3. s \in Nat
        BY ONLY SyncsAre
      <4>4. Carries(batch.items, batch.calls)
        BY ONLY <4>2, <4>3, AuthCarries
      <4> QED BY ONLY <4>2, <4>4 DEF Keeps
    <3> QED BY ONLY <1>7, <3>1, <3>2 DEF Connects
  <2>4. Arrival(arrived', received') /\ (arrived' # <<>> => call' \in Calls)
    BY ONLY Inv, <2>1 DEF Inv
  <2>5. call' \in Calls \cup {None} /\ answer' \in (UNION Range(Answers)) \cup {None}
    BY ONLY <2>1
  <2> QED BY ONLY <2>2, <2>3, <2>4, <2>5 DEF Inv
<1> QED BY ONLY <1>1, <1>2, <1>3, <1>4, <1>5, <1>6, <1>7 DEF Step

\* The buffer and what has arrived are requests of calls, at every step: what
\* bee_proto.c encodes behind what waits, and what is written of it.
THEOREM InvInvariant == Spec => []Inv
<1> QED BY InitInv, StepInv, PTL DEF Spec

\* What has arrived is made of requests behind their sizes.
LEMMA ArrivalUnderstood ==
    ASSUME NEW items, NEW requests, Arrival(items, requests)
    PROVE  items \in Seq(Items) /\ Framed(items)
<1>1. CASE items = <<>>
  BY ONLY <1>1, CarriesNone, CarriesUnderstood DEF IsUnderstood
<1>2. CASE items # <<>>
  BY ONLY <1>2, Arrival(items, requests), CarriesUnderstood DEF IsUnderstood, Arrival
<1> QED BY <1>1, <1>2

\* So the sizes are exact.
LEMMA InvAnnouncedSize == Inv => AnnouncedSize
BY ONLY CarriesUnderstood, ArrivalUnderstood DEF Inv, IsUnderstood, AnnouncedSize

\* The size in front of every request is the number of bytes behind it, for
\* every call and every value, however deep it nests: php_mp_sizeof and
\* php_mp_pack agree, and so do php_tp_sizeof_... and php_tp_encode_...
THEOREM AnnouncedSizeInvariant == Spec => []AnnouncedSize
<1> QED BY InvInvariant, InvAnnouncedSize, PTL

\* What the items of the buffer say.
LEMMA ItemsType ==
    ASSUME NEW items, items \in Seq(Items)
    PROVE  \A i \in DOMAIN items :
             /\ items[i].bytes > 0
             /\ Is(items[i].says, "int") => items[i].says.int \in -LongMax - 1..LongMax
<1> SUFFICES ASSUME NEW i \in DOMAIN items
             PROVE  /\ items[i].bytes > 0
                    /\ Is(items[i].says, "int") => items[i].says.int \in Longs
  BY DEF Longs
<1>1. items[i] \in Items
  OBVIOUS
<1>2. items[i].bytes \in Positive /\ items[i].says \in Says
  BY <1>1 DEF Items
<1>3. \A says \in Says : Is(says, "int") => says.int \in Longs
  BY DEF Says, Scalars, Is, Nil, Object
<1> QED BY <1>2, <1>3 DEF Positive

\* The invariant has the types.
LEMMA InvTypeOK == Inv => TypeOK
<1> SUFFICES ASSUME Inv PROVE TypeOK
  OBVIOUS
<1>1. IsUnderstood(buffer, unsent)
  BY ONLY Inv, CarriesUnderstood DEF Inv
<1>2. buffer \in Seq(Items) /\ arrived \in Seq(Items)
  BY ONLY Inv, <1>1, ArrivalUnderstood DEF Inv, IsUnderstood
<1>3. Len(Read(buffer, Nothing).requests) = Len(unsent)
  BY ONLY <1>1 DEF IsUnderstood
<1>4. \A items \in {buffer, arrived} : \A i \in DOMAIN items :
        /\ items[i].bytes > 0
        /\ Is(items[i].says, "int") => items[i].says.int \in -LongMax - 1..LongMax
  BY ONLY <1>2, ItemsType
<1> QED BY ONLY Inv, <1>3, <1>4 DEF Inv, TypeOK, Proper

\* No number is packed that a long does not hold, every item has a byte, as many
\* requests are in the buffer as calls wait, and a method that raises an
\* exception returns FALSE.
THEOREM TypeOKInvariant == Spec => []TypeOK
<1> QED BY InvInvariant, InvTypeOK, PTL

-----------------------------------------------------------------------------
(* Arrays that are made of values, one after the other.                    *)

\* What the array is with each value.
Pushing(values, n, r) ==
    r[0] = EmptyArr /\ \A k \in 1..n : r[k] = Push(r[k - 1], values[k])

PushStep(values, s, it) ==
    IF s = {} THEN EmptyArr
    ELSE LET x == Max(s) IN Push(it[s \ {x}], values[x])
Pushes == INSTANCE BeeRecursion WITH def <- PushStep

IsPushIter(D, values, it) == it = [s \in SUBSET D |-> PushStep(values, s, it)]

\* A set of numbers up to n has a largest.
LEMMA Largest ==
    ASSUME NEW n \in Nat, NEW s, s \subseteq 1..n, s # {}
    PROVE  Max(s) \in s
<1> DEFINE t == {n - x : x \in s}
<1>1. t \subseteq Nat /\ t # {}
  <2>1. ASSUME NEW x \in s PROVE n - x \in Nat
    OBVIOUS
  <2>2. PICK x \in s : TRUE
    OBVIOUS
  <2>3. n - x \in t
    OBVIOUS
  <2> QED BY <2>1, <2>3
<1>2. PICK y \in t : \A z \in t : y <= z
  <2> HIDE DEF t
  <2> QED BY <1>1, Reads!Least
<1>3. PICK x \in s : y = n - x
  BY <1>2
<1>4. \A z \in s : x >= z
  <2> SUFFICES ASSUME NEW z \in s PROVE x >= z
    OBVIOUS
  <2>1. n - z \in t
    OBVIOUS
  <2>2. n - x <= n - z
    BY <1>2, <1>3, <2>1
  <2> QED BY <2>2
<1> QED BY <1>3, <1>4 DEF Max

\* What FoldLeft chooses exists: a list of every set of numbers' values.
LEMMA PushIter ==
    ASSUME NEW n \in Nat, NEW values
    PROVE  \E it : IsPushIter(1..n, values, it)
<1> DEFINE D == 1..n
           rank == [s \in SUBSET D |-> Cardinality(s)]
<1>0. IsFiniteSet(D) /\ D \subseteq Nat
  BY FS_Interval
<1>6. \A s \in SUBSET D : s # {} => Max(s) \in s
  BY Largest
<1> HIDE DEF D
<1>1. rank \in [SUBSET D -> Nat]
  BY <1>0, SubsetRank
<1>2. ASSUME NEW s \in SUBSET D, NEW g, NEW h,
             \A t \in SUBSET D : rank[t] < rank[s] => g[t] = h[t]
      PROVE  PushStep(values, s, g) = PushStep(values, s, h)
  <2>1. CASE s = {}
    BY <2>1 DEF PushStep
  <2>2. CASE s # {}
    <3>1. Max(s) \in s
      BY <1>6, <2>2
    <3>5. s \ {Max(s)} \in SUBSET D
      BY ONLY s \in SUBSET D
    <3>2. s \ {Max(s)} \in SUBSET D /\ Cardinality(s \ {Max(s)}) = Cardinality(s) - 1 /\ Cardinality(s) \in Nat
      BY <1>0, <3>1, <3>5, SubsetRank, ZenonT(60)
    <3>3. rank[s \ {Max(s)}] < rank[s]
      BY <3>2
    <3>4. g[s \ {Max(s)}] = h[s \ {Max(s)}]
      BY ONLY <1>2, <3>2, <3>3
    <3> QED BY <2>2, <3>4 DEF PushStep
  <2> QED BY <2>1, <2>2
<1> HIDE DEF rank
<1>3. Pushes!Local(values, SUBSET D, rank)
  BY <1>2 DEF Pushes!Local
<1> DEFINE parts == SUBSET D
<1>4. rank \in [parts -> Nat] /\ Pushes!Local(values, parts, rank)
  BY <1>1, <1>3
<1> HIDE DEF parts
<1>5. \E it : it = [s \in parts |-> PushStep(values, s, it)]
  BY <1>4, Pushes!Recursion
<1> QED BY <1>5, Zenon DEF parts, IsPushIter, D

\* So does what is pushed step by step, and its end is the list.
LEMMA PushThere ==
    ASSUME NEW n \in Nat, NEW values, DOMAIN values = 1..n
    PROVE  \E r : Pushing(values, n, r) /\ r[n] = ListOf(values)
<1> DEFINE D == DOMAIN values
           step(s, k) == IF s = {} THEN EmptyArr
                         ELSE LET x == Max(s) IN Push(k[s \ {x}], values[x])
           it == CHOOSE k : k = [s \in SUBSET D |-> step(s, k)]
<1>1. it = [s \in SUBSET D |-> step(s, it)]
  <2>1. PICK k : IsPushIter(D, values, k)
    BY PushIter
  <2>2. \A s : PushStep(values, s, k) = step(s, k)
    BY DEF PushStep
  <2> HIDE DEF step
  <2>3. k = [s \in SUBSET D |-> step(s, k)]
    BY <2>1, <2>2 DEF IsPushIter
  <2>4. \E q : q = [s \in SUBSET D |-> step(s, q)]
    BY <2>3
  <2> QED BY <2>4, Zenon
<1>2. ListOf(values) = it[DOMAIN values]
  BY Zenon DEF ListOf, FoldLeft, MapThenFoldSet
<1> HIDE DEF it
<1>3. ASSUME NEW k \in 1..n PROVE it[1..k] = Push(it[1..k - 1], values[k])
  <2>1. Max(1..k) = k
    <3>1. k \in 1..k /\ \A y \in 1..k : k >= y
      OBVIOUS
    <3>2. \A x \in 1..k : (\A y \in 1..k : x >= y) => x = k
      OBVIOUS
    <3> QED BY <3>1, <3>2 DEF Max
  <2>2. (1..k) \ {k} = 1..k - 1 /\ 1..k # {} /\ 1..k \in SUBSET DOMAIN values
    OBVIOUS
  <2>3. it[1..k] = step(1..k, it)
    BY <1>1, <2>2, Zenon
  <2> QED BY <2>1, <2>2, <2>3
<1>4. it[1..0] = EmptyArr
  <2>1. 1..0 = {} /\ {} \in SUBSET DOMAIN values
    OBVIOUS
  <2>2. it[{}] = step({}, it)
    BY <1>1, <2>1, Zenon
  <2> QED BY <2>1, <2>2
<1> HIDE DEF step, D
<1> DEFINE r == [k \in 0..n |-> it[1..k]]
<1>5. r[0] = EmptyArr /\ r[n] = ListOf(values)
  BY <1>2, <1>4
<1>6. ASSUME NEW k \in 1..n PROVE r[k] = Push(r[k - 1], values[k])
  <2>1. k - 1 \in 0..n /\ k \in 0..n
    OBVIOUS
  <2>2. r[k - 1] = it[1..k - 1] /\ r[k] = it[1..k]
    BY <2>1
  <2> QED BY <1>3, <2>2
<1> HIDE DEF r
<1> QED BY <1>5, <1>6 DEF Pushing

\* The pairs of a list.
Numbers(values, n) == [i \in 1..n |-> <<Long(i - 1), values[i]>>]

\* A value that is pushed on those numbered from 0 has the next number.
LEMMA PushNumbers ==
    ASSUME NEW values, NEW k \in Nat
    PROVE  Push(Arr(Numbers(values, k), k), values[k + 1])
             = Arr(Numbers(values, k + 1), k + 1)
<1> DEFINE pairs == Numbers(values, k)
           arr == Arr(pairs, k)
           key == Long(k)
           v == values[k + 1]
<1>1. arr.array = pairs /\ arr.next = k
  BY DEF Arr
<1>2. Is(key, "int") /\ key.int = k
  BY DEF Long, Is
<1>3. DOMAIN pairs = 1..k /\ \A i \in 1..k : pairs[i] = <<Long(i - 1), values[i]>>
  BY DEF Numbers
<1>4. ~Has(arr, key)
  <2> SUFFICES ASSUME Has(arr, key) PROVE FALSE
    OBVIOUS
  <2> HIDE DEF pairs, arr, key
  <2>1. PICK pair \in ToSet(pairs) : pair[1] = key
    BY ONLY <1>1, Has(arr, key) DEF Has, ArrayKeys
  <2>2. PICK i \in 1..k : pair = pairs[i]
    BY ONLY <1>3, <2>1 DEF ToSet
  <2>3. key = Long(i - 1)
    BY ONLY <1>3, <2>1, <2>2
  <2>4. Long(i - 1).int = i - 1
    BY ONLY TRUE DEF Long
  <2> QED BY <1>2, <2>3, <2>4
<1>5. Append(pairs, <<key, v>>) = Numbers(values, k + 1)
  <2> DEFINE more == Append(pairs, <<key, v>>)
             other == Numbers(values, k + 1)
  <2>1. pairs \in Seq({<<Long(i - 1), values[i]>> : i \in 1..k}) /\ Len(pairs) = k
    BY <1>3 DEF Numbers
  <2>2. DOMAIN more = 1..k + 1 /\ (\A i \in 1..k : more[i] = pairs[i]) /\ more[k + 1] = <<key, v>>
    <3> HIDE DEF pairs, key, v
    <3> QED BY <2>1
  <2>3. DOMAIN other = 1..k + 1 /\ \A i \in 1..k + 1 : other[i] = <<Long(i - 1), values[i]>>
    BY DEF Numbers
  <2>4. (k + 1) - 1 = k
    OBVIOUS
  <2>5. \A i \in 1..k + 1 : i \in 1..k \/ i = k + 1
    OBVIOUS
  <2>6. more = [i \in DOMAIN more |-> more[i]] /\ other = [i \in DOMAIN other |-> other[i]]
    <3>1. other = [i \in DOMAIN other |-> other[i]]
      BY DEF Numbers
    <3>2. more = [i \in DOMAIN more |-> more[i]]
      <4> HIDE DEF pairs, key, v
      <4> QED BY <2>1
    <3> QED BY <3>1, <3>2
  <2>7. \A i \in 1..k + 1 : more[i] = other[i]
    <3> HIDE DEF more, other
    <3> QED BY <1>3, <2>2, <2>3, <2>4, <2>5
  <2> HIDE DEF more, other
  <2> QED BY ONLY <2>2, <2>3, <2>6, <2>7 DEF more, other
<1> HIDE DEF pairs, arr, key, v
<1>6. Put(arr, key, v) = Arr(Append(pairs, <<key, v>>), k + 1)
  BY ONLY k \in Nat, <1>1, <1>2, <1>4 DEF Put
<1>7. Push(arr, v) = Put(arr, key, v)
  BY ONLY <1>1 DEF Push, key
<1> QED BY ONLY <1>5, <1>6, <1>7 DEF arr, pairs, v

\* The list of values has each of them under its number.
LEMMA ListOfIs ==
    ASSUME NEW n \in Nat, NEW values, DOMAIN values = 1..n
    PROVE  ListOf(values) = Arr(Numbers(values, n), n)
<1>1. PICK r : Pushing(values, n, r) /\ r[n] = ListOf(values)
  BY PushThere
<1> DEFINE S == {k \in 0..n : r[k] = Arr(Numbers(values, k), k)}
<1>2. 0 \in S
  <2>1. Numbers(values, 0) = <<>>
    BY DEF Numbers
  <2> QED BY <1>1, <2>1 DEF Pushing, EmptyArr
<1>3. ASSUME NEW k \in 1..n, k - 1 \in S PROVE k \in S
  <2>1. r[k] = Push(r[k - 1], values[k]) /\ r[k - 1] = Arr(Numbers(values, k - 1), k - 1)
    BY <1>1, <1>3 DEF Pushing
  <2>2. k - 1 \in Nat /\ (k - 1) + 1 = k
    OBVIOUS
  <2>3. Push(Arr(Numbers(values, k - 1), k - 1), values[k]) = Arr(Numbers(values, k), k)
    BY ONLY <2>2, PushNumbers
  <2> QED BY <2>1, <2>3
<1>4. \A k \in 0..n : k \in S
  <2> HIDE DEF S
  <2> QED BY <1>2, <1>3, Pushes!Upwards
<1>5. n \in S
  BY <1>4
<1> QED BY <1>1, <1>5

-----------------------------------------------------------------------------
(* The keys of an array.                                                   *)

\* f has no key twice.
Apart(f, n) == \A i, j \in 1..n : f[i] = f[j] => i = j
KeysOf(f, n) == {f[i] : i \in 1..n}

\* Keys that are apart are as many as there are.
LEMMA Counted ==
    ASSUME NEW n \in Nat, NEW f, Apart(f, n)
    PROVE  IsFiniteSet(KeysOf(f, n)) /\ Cardinality(KeysOf(f, n)) = n
<1> DEFINE D == 1..n
           T == KeysOf(f, n)
           g == [i \in D |-> f[i]]
<1>1. g \in Bijection(D, T)
  <2>1. g \in [D -> T]
    BY DEF KeysOf
  <2>2. \A a, b \in D : g[a] = g[b] => a = b
    BY DEF Apart
  <2>3. \A t \in T : \E s \in D : g[s] = t
    BY DEF KeysOf
  <2>4. DOMAIN g = D
    OBVIOUS
  <2> HIDE DEF g, D, T
  <2> QED BY ONLY <2>1, <2>2, <2>3, <2>4 DEF Bijection, Injection, Surjection, IsInjective
<1>2. ExistsBijection(D, T)
  BY <1>1 DEF ExistsBijection
<1>3. IsFiniteSet(D) /\ Cardinality(D) = n
  BY FS_Interval
<1> HIDE DEF D, T, g
<1>4. IsFiniteSet(T) /\ Cardinality(T) = Cardinality(D)
  BY ONLY <1>2, <1>3, FS_Bijection
<1> QED BY <1>3, <1>4 DEF T

\* An array has as many keys as elements.
LEMMA KeysCounted ==
    ASSUME NEW v, v \in Values, Is(v, "array")
    PROVE  IsFiniteSet(ArrayKeys(v)) /\ Cardinality(ArrayKeys(v)) = Count(v)
<1> DEFINE n == Count(v)
           f == [i \in 1..n |-> v.array[i][1]]
<1>1. n \in Nat /\ DOMAIN v.array = 1..n
  BY Elemental
<1>2. Apart(f, n)
  <2>1. \A i, j \in DOMAIN v.array : v.array[i][1] = v.array[j][1] => i = j
    BY Elemental DEF IsArray
  <2> QED BY <1>1, <2>1 DEF Apart
<1>3. ArrayKeys(v) = KeysOf(f, n)
  BY <1>1 DEF ArrayKeys, KeysOf, ToSet
<1> HIDE DEF n, f
<1> QED BY <1>1, <1>2, <1>3, Counted DEF n

\* As many keys as there are pairs are all there are.
LEMMA KeysAre ==
    ASSUME NEW v, v \in Values, Is(v, "array"), NEW n \in Nat, NEW f, Apart(f, n)
    PROVE  /\ Count(v) = n /\ (\A i \in 1..n : Has(v, f[i])) => ArrayKeys(v) = KeysOf(f, n)
           /\ ArrayKeys(v) = KeysOf(f, n) => Count(v) = n /\ \A i \in 1..n : Has(v, f[i])
<1>1. IsFiniteSet(ArrayKeys(v)) /\ Cardinality(ArrayKeys(v)) = Count(v)
  BY KeysCounted
<1>2. Cardinality(KeysOf(f, n)) = n
  BY Counted
<1>3. ASSUME Count(v) = n, \A i \in 1..n : Has(v, f[i]) PROVE ArrayKeys(v) = KeysOf(f, n)
  <2> DEFINE S == ArrayKeys(v)
             T == KeysOf(f, n)
  <2>1. T \in SUBSET S
    BY <1>3 DEF Has, KeysOf
  <2>2. IsFiniteSet(S) /\ Cardinality(S) = Cardinality(T)
    BY <1>1, <1>2, <1>3
  <2> HIDE DEF S, T
  <2>3. S = T
    BY ONLY <2>1, <2>2, FS_Subset
  <2> QED BY <2>3 DEF S, T
<1>4. ASSUME ArrayKeys(v) = KeysOf(f, n) PROVE Count(v) = n /\ \A i \in 1..n : Has(v, f[i])
  BY <1>1, <1>2, <1>4 DEF Has, KeysOf
<1> QED BY <1>3, <1>4

\* What is under a key of an array is a value, and what is there.
LEMMA AtHas ==
    ASSUME NEW v, v \in Values, Is(v, "array"), NEW key, Has(v, key)
    PROVE  /\ At(v, key) \in Values
           /\ \A i \in 1..Count(v) : v.array[i][1] = key => At(v, key) = v.array[i][2]
<1> DEFINE pair == CHOOSE pair \in ToSet(v.array) : pair[1] = key
<1>1. pair \in ToSet(v.array) /\ pair[1] = key
  BY DEF Has, ArrayKeys
<1>2. At(v, key) = pair[2]
  BY DEF At
<1> HIDE DEF pair
<1>3. DOMAIN v.array = 1..Count(v)
  BY Elemental
<1>4. PICK i \in 1..Count(v) : pair = v.array[i]
  BY ONLY <1>1, <1>3 DEF ToSet
<1>5. v.array[i][2] \in Values
  BY Elemental DEF Inside
<1>6. \A j \in 1..Count(v) : v.array[j][1] = key => j = i
  <2>1. \A k, j \in DOMAIN v.array : v.array[k][1] = v.array[j][1] => k = j
    BY Elemental DEF IsArray
  <2> QED BY ONLY <1>1, <1>3, <1>4, <2>1
<1> QED BY ONLY <1>2, <1>4, <1>5, <1>6

-----------------------------------------------------------------------------
(* What a list of values means.                                            *)

\* Numbers are apart.
LEMMA NumberKeys == \A n \in Nat : Apart([i \in 1..n |-> Long(i - 1)], n)
BY DEF Apart, Long

\* The list of values means the list of what they mean.
LEMMA MeansListOf ==
    ASSUME NEW n \in Nat, NEW values, DOMAIN values = 1..n, ListOf(values) \in Values
    PROVE  /\ \A i \in 1..n : values[i] \in Values
           /\ Means[ListOf(values)] = [list |-> [i \in 1..n |-> Means[values[i]]]]
<1> DEFINE v == ListOf(values)
           f == [i \in 1..n |-> Long(i - 1)]
<1>1. v = Arr(Numbers(values, n), n)
  BY ListOfIs
<1>2. v.array = Numbers(values, n) /\ Is(v, "array")
  BY <1>1 DEF Arr, Is
<1>3. v \in Values
  OBVIOUS
<1> HIDE DEF v
<1>4. Count(v) = n /\ \A i \in 1..n : v.array[i] = <<f[i], values[i]>>
  <2>1. DOMAIN v.array = 1..n /\ \A i \in 1..n : v.array[i] = <<f[i], values[i]>>
    BY <1>2 DEF Numbers
  <2>2. DOMAIN v.array = 1..Count(v) /\ Count(v) \in Nat
    BY <1>2, <1>3, Elemental
  <2>3. Count(v) = n
    BY <2>1, <2>2
  <2> QED BY <2>1, <2>3
<1> HIDE DEF f
<1>5. DOMAIN v.array = 1..n
  BY <1>2, <1>3, <1>4, Elemental
<1>6. ArrayKeys(v) = KeysOf(f, n)
  BY ONLY <1>4, <1>5 DEF ArrayKeys, KeysOf, ToSet
<1>7. \A i \in 1..n : f[i] = Long(i - 1)
  BY DEF f
<1>8. \A i \in 1..n : At(v, f[i]) = values[i] /\ values[i] \in Values
  <2> SUFFICES ASSUME NEW i \in 1..n PROVE At(v, f[i]) = values[i] /\ values[i] \in Values
    OBVIOUS
  <2> DEFINE key == f[i]
  <2>1. Has(v, key)
    BY <1>6 DEF Has, KeysOf
  <2>2. v.array[i][1] = key /\ v.array[i][2] = values[i]
    BY <1>4
  <2> HIDE DEF key
  <2>3. At(v, key) \in Values /\ At(v, key) = v.array[i][2]
    BY ONLY <1>2, <1>3, <1>4, <2>1, <2>2, i \in 1..n, AtHas
  <2> QED BY <2>2, <2>3 DEF key
<1>9. IsList(v)
  <2>1. KeysOf(f, n) = {Long(i) : i \in 0..n - 1}
    <3>1. ASSUME NEW i \in 1..n PROVE \E j \in 0..n - 1 : f[i] = Long(j)
      <4>1. i - 1 \in 0..n - 1
        OBVIOUS
      <4> QED BY <1>7, <4>1
    <3>2. ASSUME NEW j \in 0..n - 1 PROVE \E i \in 1..n : f[i] = Long(j)
      <4>1. j + 1 \in 1..n /\ (j + 1) - 1 = j
        OBVIOUS
      <4> QED BY <1>7, <4>1
    <3> QED BY <3>1, <3>2 DEF KeysOf
  <2> QED BY <1>4, <1>6, <2>1 DEF IsList
<1>10. Means[v] = [list |-> [i \in 1..n |-> Means[At(v, Long(i - 1))]]]
  BY <1>2, <1>3, <1>4, <1>9, ArrayIs
<1>11. \A i \in 1..n : At(v, Long(i - 1)) = values[i]
  BY <1>7, <1>8
<1>12. Means[v] = [list |-> [i \in 1..n |-> Means[values[i]]]]
  BY <1>10, <1>11
<1> QED BY <1>8, <1>12 DEF v

-----------------------------------------------------------------------------
(* The first argument that is bad decides.                                 *)

\* No argument is bad, or the first one decides.
LEMMA ErrOfIs ==
    ASSUME NEW args, NEW n \in Nat, Len(args) = n
    PROVE  ErrOf(args) = "no" <=> \A i \in 1..n : IsGood(args[i])
<1> DEFINE bad == {i \in 1..Len(args) : ~IsGood(args[i])}
<1>1. ErrOf(args) = IF (IF bad # {} THEN Min(bad) ELSE 0) = 0 THEN "no"
                    ELSE args[IF bad # {} THEN Min(bad) ELSE 0].err
  BY ONLY Zenon DEF ErrOf, SelectInSeq
<1>2. CASE bad = {}
  BY <1>1, <1>2
<1>3. CASE bad # {}
  <2>1. bad \subseteq Nat
    OBVIOUS
  <2>2. Min(bad) \in bad
    <3> HIDE DEF bad
    <3>1. \E x \in bad : \A y \in bad : x <= y
      BY <1>3, <2>1, Reads!Least
    <3> QED BY <3>1 DEF Min
  <2>3. Min(bad) # 0 /\ ~IsGood(args[Min(bad)]) /\ Min(bad) \in 1..n
    BY <2>2
  <2>4. args[Min(bad)].err # "no"
    BY <2>3 DEF IsGood
  <2> DEFINE m == Min(bad)
  <2>5. ErrOf(args) = args[m].err
    <3> HIDE DEF bad
    <3> QED BY <1>1, <1>3, <2>3
  <2> QED BY <2>3, <2>4, <2>5
<1> QED BY <1>2, <1>3

-----------------------------------------------------------------------------
(* Operations of an update.                                                *)

\* What is sent of an operation, by the number of its fields.
FiveNames == <<"op", "field", "offset", "length", "list">>
ThreeNames == <<"op", "field", "arg">>
NamesOf(op) == IF Count(op) = 5 THEN FiveNames ELSE ThreeNames
Strs(names, n) == [i \in 1..n |-> Str(names[i])]

Sign(op) == At(op, Str("op")).str
Splices(op) ==
    /\ Sign(op) = ":" /\ Count(op) = 5
    /\ HasOf(op, "offset", "int") /\ HasOf(op, "length", "int") /\ HasOf(op, "list", "str")
Changes(op) ==
    /\ Count(op) = 3
    /\ \/ Sign(op) \in {"+", "-", "&", "|", "^", "#"} /\ HasOf(op, "arg", "int")
       \/ /\ Sign(op) \in {"=", "!"}
          /\ Has(op, Str("arg")) /\ Serializable(At(op, Str("arg")))
Operates(op) == HasOf(op, "op", "str") /\ HasOf(op, "field", "int")

\* What bee_update_verify_op accepts, in one condition.
LEMMA VerifyOpIs ==
    ASSUME NEW op
    PROVE  VerifyOp(op) =
             IF Is(op, "array") /\ IsHash(op) /\ Operates(op) /\ Len(Sign(op)) = 1
                /\ (Splices(op) \/ Changes(op))
             THEN Good(ListOf(OpArgs(op, NamesOf(op)))) ELSE Bad("exception")
<1>1. Splices(op) => NamesOf(op) = FiveNames
  BY DEF Splices, NamesOf
<1>2. Changes(op) => NamesOf(op) = ThreeNames
  BY DEF Changes, NamesOf
<1>3. VerifyOp(op) =
        IF ~(Is(op, "array") /\ IsHash(op)) THEN Bad("exception")
        ELSE IF ~(HasOf(op, "op", "str") /\ Len(Sign(op)) = 1 /\ HasOf(op, "field", "int"))
        THEN Bad("exception")
        ELSE IF Splices(op) THEN Good(ListOf(OpArgs(op, FiveNames)))
        ELSE IF Changes(op) THEN Good(ListOf(OpArgs(op, ThreeNames)))
        ELSE Bad("exception")
  BY ONLY Zenon DEF VerifyOp, Splices, Changes, Sign, FiveNames, ThreeNames
<1> QED BY ONLY <1>1, <1>2, <1>3, Zenon DEF Operates

\* The names of the fields of a splice are five.
LEMMA FiveKeys ==
    /\ Apart(Strs(FiveNames, 5), 5)
    /\ KeysOf(Strs(FiveNames, 5), 5) =
        {Str(name) : name \in {"op", "field", "offset", "length", "list"}}
<1>1. 1..5 = {1, 2, 3, 4, 5}
  OBVIOUS
<1>2. \A a, b : Str(a) = Str(b) => a = b
  BY DEF Str
<1>3. /\ Strs(FiveNames, 5)[1] = Str("op") /\ Strs(FiveNames, 5)[2] = Str("field")
      /\ Strs(FiveNames, 5)[3] = Str("offset") /\ Strs(FiveNames, 5)[4] = Str("length")
      /\ Strs(FiveNames, 5)[5] = Str("list")
  BY DEF Strs, FiveNames
<1>4. Apart(Strs(FiveNames, 5), 5)
  BY ONLY <1>1, <1>2, <1>3 DEF Apart
<1>5. KeysOf(Strs(FiveNames, 5), 5) =
        {Str(name) : name \in {"op", "field", "offset", "length", "list"}}
  BY ONLY <1>1, <1>3 DEF KeysOf
<1> QED BY <1>4, <1>5

\* Those of any other operation are three.
LEMMA ThreeKeys ==
    /\ Apart(Strs(ThreeNames, 3), 3)
    /\ KeysOf(Strs(ThreeNames, 3), 3) = {Str(name) : name \in {"op", "field", "arg"}}
<1>1. 1..3 = {1, 2, 3}
  OBVIOUS
<1>2. \A a, b : Str(a) = Str(b) => a = b
  BY DEF Str
<1>3. /\ Strs(ThreeNames, 3)[1] = Str("op") /\ Strs(ThreeNames, 3)[2] = Str("field")
      /\ Strs(ThreeNames, 3)[3] = Str("arg")
  BY DEF Strs, ThreeNames
<1>4. Apart(Strs(ThreeNames, 3), 3)
  BY ONLY <1>1, <1>2, <1>3 DEF Apart
<1>5. KeysOf(Strs(ThreeNames, 3), 3) = {Str(name) : name \in {"op", "field", "arg"}}
  BY ONLY <1>1, <1>3 DEF KeysOf
<1> QED BY <1>4, <1>5

\* An array has the fields of an operation and no other, if it has as many and
\* these are there.
LEMMA HasFive ==
    ASSUME NEW op, op \in Values, Is(op, "array")
    PROVE  HasFields(op, {"op", "field", "offset", "length", "list"}) <=>
             /\ Count(op) = 5 /\ Has(op, Str("op")) /\ Has(op, Str("field"))
             /\ Has(op, Str("offset")) /\ Has(op, Str("length")) /\ Has(op, Str("list"))
<1> DEFINE f == Strs(FiveNames, 5)
<1>1. f[1] = Str("op") /\ f[2] = Str("field") /\ f[3] = Str("offset")
      /\ f[4] = Str("length") /\ f[5] = Str("list")
  BY DEF Strs, FiveNames
<1>2. 1..5 = {1, 2, 3, 4, 5}
  OBVIOUS
<1>3. Apart(f, 5) /\ KeysOf(f, 5) = {Str(name) : name \in {"op", "field", "offset", "length", "list"}}
  BY FiveKeys
<1> HIDE DEF f
<1>4. /\ Count(op) = 5 /\ (\A i \in 1..5 : Has(op, f[i])) => ArrayKeys(op) = KeysOf(f, 5)
      /\ ArrayKeys(op) = KeysOf(f, 5) => Count(op) = 5 /\ \A i \in 1..5 : Has(op, f[i])
  BY <1>3, KeysAre
<1>5. (\A i \in 1..5 : Has(op, f[i])) <=>
        /\ Has(op, Str("op")) /\ Has(op, Str("field"))
        /\ Has(op, Str("offset")) /\ Has(op, Str("length")) /\ Has(op, Str("list"))
  BY ONLY <1>1, <1>2
<1>6. HasFields(op, {"op", "field", "offset", "length", "list"}) <=> ArrayKeys(op) = KeysOf(f, 5)
  BY ONLY <1>3 DEF HasFields
<1> QED BY ONLY <1>4, <1>5, <1>6

\* So has one with three fields, if it has those.
LEMMA HasThree ==
    ASSUME NEW op, op \in Values, Is(op, "array")
    PROVE  HasFields(op, {"op", "field", "arg"}) <=>
             /\ Count(op) = 3 /\ Has(op, Str("op")) /\ Has(op, Str("field"))
             /\ Has(op, Str("arg"))
<1> DEFINE f == Strs(ThreeNames, 3)
<1>1. f[1] = Str("op") /\ f[2] = Str("field") /\ f[3] = Str("arg")
  BY DEF Strs, ThreeNames
<1>2. 1..3 = {1, 2, 3}
  OBVIOUS
<1>3. Apart(f, 3) /\ KeysOf(f, 3) = {Str(name) : name \in {"op", "field", "arg"}}
  BY ThreeKeys
<1> HIDE DEF f
<1>4. /\ Count(op) = 3 /\ (\A i \in 1..3 : Has(op, f[i])) => ArrayKeys(op) = KeysOf(f, 3)
      /\ ArrayKeys(op) = KeysOf(f, 3) => Count(op) = 3 /\ \A i \in 1..3 : Has(op, f[i])
  BY <1>3, KeysAre
<1>5. (\A i \in 1..3 : Has(op, f[i])) <=>
        Has(op, Str("op")) /\ Has(op, Str("field")) /\ Has(op, Str("arg"))
  BY ONLY <1>1, <1>2
<1>6. HasFields(op, {"op", "field", "arg"}) <=> ArrayKeys(op) = KeysOf(f, 3)
  BY ONLY <1>3 DEF HasFields
<1> QED BY ONLY <1>4, <1>5, <1>6

\* What an operation is, in the words of the code.
LEMMA OperationIs ==
    ASSUME NEW op, op \in Values
    PROVE  IsOperation(op) <=> Is(op, "array") /\ Operates(op) /\ (Splices(op) \/ Changes(op))
<1> SUFFICES ASSUME Is(op, "array"), Operates(op)
             PROVE  IsOperation(op) <=> Splices(op) \/ Changes(op)
  BY DEF IsOperation, Operates
<1> DEFINE five == HasFields(op, {"op", "field", "offset", "length", "list"})
           three == HasFields(op, {"op", "field", "arg"})
           w == At(op, Str("op"))
<1>1. Has(op, Str("op")) /\ Has(op, Str("field")) /\ Is(w, "str")
  BY DEF Operates, HasOf
<1>2. w = Str(":") <=> Sign(op) = ":"
  <2>1. w \in Values
    BY <1>1, AtHas
  <2>2. w \in Scalars
    BY <1>1, <2>1, ValuesAssumption DEF IsArray, Is
  <2>3. w \in [str : Texts]
    BY <1>1, <2>2 DEF Scalars, Is, Nil, Object
  <2>4. w = Str(w.str)
    BY <2>3 DEF Str
  <2>5. \A a, b : Str(a) = Str(b) => a = b
    BY DEF Str
  <2> QED BY <2>4, <2>5 DEF Sign
<1>3. five <=> /\ Count(op) = 5 /\ Has(op, Str("offset")) /\ Has(op, Str("length"))
               /\ Has(op, Str("list"))
  BY ONLY op \in Values, Is(op, "array"), <1>1, HasFive
<1>4. three <=> Count(op) = 3 /\ Has(op, Str("arg"))
  BY ONLY op \in Values, Is(op, "array"), <1>1, HasThree
<1>5. IsOperation(op) <=>
        \/ /\ w = Str(":") /\ five
           /\ HasOf(op, "offset", "int") /\ HasOf(op, "length", "int")
           /\ HasOf(op, "list", "str")
        \/ /\ Sign(op) \in {"+", "-", "&", "^", "|", "#"}
           /\ three /\ HasOf(op, "arg", "int")
        \/ /\ Sign(op) \in {"=", "!"}
           /\ three /\ ~HasOf(op, "arg", "object")
  BY ONLY Is(op, "array"), Operates(op), Zenon DEF IsOperation, Operates, Sign
<1> HIDE DEF five, three, w
<1> QED BY ONLY <1>2, <1>3, <1>4, <1>5 DEF Splices, Changes, HasOf, Serializable

\* What bee_update_verify_op lets pass is an operation, and what it makes of it
\* is what it means.
LEMMA OpVerified ==
    ASSUME NEW op, op \in Values
    PROVE  /\ IsGood(VerifyOp(op)) <=> IsOperation(op)
           /\ IsGood(VerifyOp(op)) /\ VerifyOp(op).v \in Values =>
                Means[VerifyOp(op).v] = OperationMeant(op)
<1>1. IsOperation(op) <=> Is(op, "array") /\ Operates(op) /\ (Splices(op) \/ Changes(op))
  BY OperationIs
<1>2. Splices(op) \/ Changes(op) => Len(Sign(op)) = 1
  <2>1. Splices(op) \/ Changes(op) => Sign(op) \in Signs
    BY DEF Splices, Changes, Signs
  <2> QED BY <2>1, SignsAssumption
<1>3. Is(op, "array") /\ Operates(op) => IsHash(op)
  <2>1. Operates(op) => Str("op") \in ArrayKeys(op)
    BY DEF Operates, HasOf, Has
  <2>2. ~Is(Str("op"), "int")
    BY DEF Str, Is
  <2> QED BY <2>1, <2>2 DEF IsHash
<1>4. VerifyOp(op) = IF IsOperation(op) THEN Good(ListOf(OpArgs(op, NamesOf(op))))
                     ELSE Bad("exception")
  <2>1. IsOperation(op) <=>
          /\ Is(op, "array") /\ IsHash(op) /\ Operates(op) /\ Len(Sign(op)) = 1
          /\ Splices(op) \/ Changes(op)
    BY ONLY <1>1, <1>2, <1>3
  <2>2. VerifyOp(op) =
             IF Is(op, "array") /\ IsHash(op) /\ Operates(op) /\ Len(Sign(op)) = 1
                /\ (Splices(op) \/ Changes(op))
             THEN Good(ListOf(OpArgs(op, NamesOf(op)))) ELSE Bad("exception")
    BY VerifyOpIs
  <2> QED BY ONLY <2>1, <2>2
<1>5. \A v : IsGood(Good(v)) /\ Good(v).v = v
  BY DEF IsGood, Good
<1>6. ~IsGood(Bad("exception"))
  BY DEF IsGood, Bad
<1>7. ASSUME IsOperation(op), ListOf(OpArgs(op, NamesOf(op))) \in Values
      PROVE  Means[ListOf(OpArgs(op, NamesOf(op)))] = OperationMeant(op)
  <2> DEFINE names == NamesOf(op)
             n == Count(op)
             values == OpArgs(op, names)
  <2>1. n \in {3, 5}
    BY <1>1, <1>7 DEF Splices, Changes
  <2>2. DOMAIN names = 1..n /\ names = IF Count(op) = 5 THEN <<"op", "field", "offset", "length", "list">>
                                       ELSE <<"op", "field", "arg">>
    <3>1. names = IF n = 5 THEN <<"op", "field", "offset", "length", "list">>
                  ELSE <<"op", "field", "arg">>
      BY ONLY TRUE DEF NamesOf, FiveNames, ThreeNames
    <3> HIDE DEF names, n
    <3>2. ASSUME n = 5 PROVE DOMAIN names = 1..n
      BY ONLY <3>1, <3>2
    <3>3. ASSUME n = 3 PROVE DOMAIN names = 1..n
      BY ONLY <3>1, <3>3
    <3>4. names = IF Count(op) = 5 THEN <<"op", "field", "offset", "length", "list">>
                  ELSE <<"op", "field", "arg">>
      BY ONLY <3>1 DEF n
    <3>5. DOMAIN names = 1..n
      BY ONLY <2>1, <3>1, <3>2, <3>3
    <3> QED BY ONLY <3>4, <3>5
  <2>3. OperationMeant(op) = [list |-> [i \in 1..n |-> Means[At(op, Str(names[i]))]]]
    BY ONLY <2>2 DEF OperationMeant
  <2> HIDE DEF names
  <2>4. DOMAIN values = 1..n /\ \A i \in 1..n : values[i] = At(op, Str(names[i]))
    BY ONLY <2>2 DEF OpArgs
  <2>5. ListOf(values) \in Values
    BY <1>7 DEF names
  <2>6. n \in Nat
    BY <2>1
  <2> HIDE DEF n, values
  <2>7. Means[ListOf(values)] = [list |-> [i \in 1..n |-> Means[values[i]]]]
    BY ONLY <2>4, <2>5, <2>6, MeansListOf
  <2>8. Means[ListOf(values)] = OperationMeant(op)
    BY ONLY <2>3, <2>4, <2>7
  <2> QED BY ONLY <2>8 DEF values, names
<1> QED BY ONLY <1>4, <1>5, <1>6, <1>7

-----------------------------------------------------------------------------
(* What the methods make of an argument, and what it means.                *)

\* An argument that is good is what is meant; one that is bad means nothing.
Renders(arg, meant) ==
    /\ IsGood(arg) => meant # None /\ (arg.v \in Values => Means[arg.v] = meant)
    /\ ~IsGood(arg) => meant = None

\* An argument is good or bad.
LEMMA GoodOrBad ==
    /\ \A v : IsGood(Good(v)) /\ Good(v).v = v
    /\ ~IsGood(Bad("silent")) /\ ~IsGood(Bad("exception"))
BY DEF IsGood, Good, Bad

\* Everything means something.
LEMMA MeansSome == \A v \in Values : Means[v] # None
<1> SUFFICES ASSUME NEW v \in Values PROVE Means[v] # None
  OBVIOUS
<1>1. DOMAIN None = {"none"}
  BY DEF None
<1>2. CASE Is(v, "array")
  <2>1. PICK a : Means[v] = [list |-> a] \/ Means[v] = [map |-> a]
    BY <1>2, ArrayIs
  <2>2. DOMAIN [list |-> a] = {"list"} /\ DOMAIN [map |-> a] = {"map"}
    OBVIOUS
  <2> QED BY <1>1, <2>1, <2>2
<1>3. CASE ~Is(v, "array")
  <2>1. Means[v] = IF Is(v, "object") THEN Nil ELSE v
    <3>1. Means[v] = MeansStep(0, v, Means)
      BY MeansIs
    <3> QED BY <1>3, <3>1 DEF MeansStep
  <2>2. v \in Scalars
    BY <1>3, ValuesAssumption DEF IsArray, Is
  <2>3. Means[v] \in Scalars
    BY <2>1, <2>2 DEF Scalars
  <2>4. \A w \in Scalars : "none" \notin DOMAIN w
    BY DEF Scalars, Nil, Object
  <2> QED BY <1>1, <2>3, <2>4
<1> QED BY <1>2, <1>3

\* A number is something.
LEMMA LongSome == \A n : Long(n) # None
BY DEF Long, None

\* A number means itself.
LEMMA MeansLong == ASSUME NEW n, Long(n) \in Values PROVE Means[Long(n)] = Long(n)
<1>1. Means[Long(n)] = MeansStep(0, Long(n), Means)
  BY MeansIs
<1>2. ~Is(Long(n), "array") /\ ~Is(Long(n), "object")
  BY DEF Long, Is
<1> QED BY ONLY <1>1, <1>2 DEF MeansStep

\* A number renders itself.
LEMMA LongRenders == \A n : Renders(Good(Long(n)), Long(n))
BY GoodOrBad, LongSome, MeansLong DEF Renders

\* A value renders what it means.
LEMMA ValueRenders == \A v \in Values : Renders(Good(v), Means[v])
BY GoodOrBad, MeansSome DEF Renders

\* A bad argument renders nothing.
LEMMA NoneRenders == Renders(Bad("silent"), None) /\ Renders(Bad("exception"), None)
BY GoodOrBad DEF Renders

\* Two below a multiple.
LEMMA TwoBelow ==
    ASSUME NEW w \in Nat, w > 2, NEW n \in Int, (n + 1) % w = 0
    PROVE  (n - 1) % w = w - 2
<1> DEFINE a == (n + 1) \div w
           b == (n - 1) \div w
           r == (n - 1) % w
<1>1. a \in Int /\ n + 1 = w * a + ((n + 1) % w)
  BY SMTT(20)
<1>2. b \in Int /\ r \in 0..w - 1 /\ n - 1 = w * b + r
  BY SMTT(20)
<1>3. n + 1 = w * a
  BY <1>1
<1> HIDE DEF a, b, r
<1>4. w * (a - b) = w * a - w * b
  BY <1>1, <1>2, SMTT(20)
<1>5. w * (a - b) = r + 2
  BY <1>1, <1>2, <1>3, <1>4
<1> DEFINE d == a - b
<1>6. d \in Int /\ w * d = r + 2
  BY <1>1, <1>2, <1>5
<1> HIDE DEF d
<1>7. d > 0
  <2>1. d <= 0 => w * d <= 0
    BY <1>6, SMTT(20)
  <2> QED BY <1>2, <1>6, <2>1
<1>8. d < 2
  <2>1. d >= 2 => w * d >= w * 2
    BY <1>6, SMTT(20)
  <2>2. w * 2 = w + w
    OBVIOUS
  <2> QED BY <1>2, <1>6, <2>1, <2>2
<1>9. d = 1
  BY <1>6, <1>7, <1>8
<1>10. r = w - 2
  BY <1>2, <1>6, <1>9
<1> QED BY <1>10 DEF r

\* Numbers that fit are kept, and -1 becomes the largest.
LEMMA Modulo ==
    /\ \A n \in 0..Word - 1 : n % Word = n
    /\ (-1) % Word = Word - 1
    /\ (LongMax - 1) % Word = Word - 2
<1>1. Word \in Nat /\ Word > 64 /\ LongMax \in Nat /\ (LongMax + 1) % Word = 0
  BY WordAssumption, StepsAssumption
<1>2. \A n \in 0..Word - 1 : n % Word = n
  BY ONLY <1>1
<1>3. (-1) % Word = Word - 1
  BY ONLY <1>1
<1>4. (LongMax - 1) % Word = Word - 2
  <2>1. Word \in Nat /\ Word > 2 /\ LongMax \in Int /\ (LongMax + 1) % Word = 0
    BY ONLY <1>1
  <2> QED BY ONLY <2>1, TwoBelow, Zenon
<1> QED BY <1>2, <1>3, <1>4

\* A value that is a number is the number.
LEMMA IntIs == ASSUME NEW v \in Values, Is(v, "int") PROVE v = Long(v.int) /\ v.int \in Int
<1>1. v \in Scalars
  BY ValuesAssumption DEF IsArray, Is
<1>2. v \in [int : Longs]
  BY <1>1 DEF Scalars, Is, Nil, Object
<1> QED BY <1>2 DEF Long, Longs

\* A value is of one type.
LEMMA TypesApart ==
    ASSUME NEW v \in Values
    PROVE  /\ Is(v, "int") => ~Is(v, "str") /\ ~Is(v, "nil") /\ ~Is(v, "array")
           /\ Is(v, "nil") => ~Is(v, "str") /\ ~Is(v, "array")
           /\ Is(v, "str") => ~Is(v, "array")
<1>1. CASE v \in Scalars
  BY <1>1 DEF Scalars, Is, Nil, Object
<1>2. CASE IsArray(v)
  BY <1>2 DEF IsArray, Is
<1> QED BY <1>1, <1>2, ValuesAssumption

\* The number of a space, an index or an iterator: given, or by its name.
LEMMA NumberRenders ==
    ASSUME NEW v \in Values, Is(v, "int") => v.int \in -1..Word - 1,
           NEW nos, \A name \in DOMAIN nos : nos[name] \in 0..Word - 1
    PROVE  Renders(IF Is(v, "int") THEN Numbered(v.int) ELSE Named(nos, v),
                   NumberMeant(v, nos))
<1>0. Word \in Nat /\ Word > 64
  BY WordAssumption
<1>1. CASE Is(v, "int")
  <2> DEFINE n == v.int
  <2>1. v = Long(n) /\ n \in -1..Word - 1 /\ ~Is(v, "str")
    BY <1>1, IntIs, TypesApart
  <2>2. NumberMeant(v, nos) = IF n \in 0..Word - 2 THEN v ELSE None
    BY ONLY <1>1, <2>1 DEF NumberMeant
  <2>3. Numbered(n) = IF n \in 0..Word - 2 THEN Good(Long(n)) ELSE Bad("silent")
    <3> HIDE DEF n
    <3>1. CASE n \in 0..Word - 2
      <4>1. n % Word = n /\ n # Word - 1
        BY <1>0, <3>1, Modulo
      <4> QED BY ONLY <3>1, <4>1 DEF Numbered, Number
    <3>2. CASE n \notin 0..Word - 2
      <4>1. n = -1 \/ n = Word - 1
        BY <1>0, <2>1, <3>2
      <4>2. n % Word = Word - 1
        BY <1>0, <4>1, Modulo
      <4> QED BY ONLY <3>2, <4>2 DEF Numbered
    <3> QED BY <3>1, <3>2
  <2> HIDE DEF n
  <2>4. Renders(Numbered(n), NumberMeant(v, nos))
    BY ONLY <2>1, <2>2, <2>3, LongRenders, NoneRenders
  <2> QED BY ONLY <1>1, <2>4 DEF n
<1>2. CASE ~Is(v, "int") /\ Is(v, "str") /\ v.str \in DOMAIN nos
  <2> DEFINE n == nos[v.str]
  <2>1. NumberMeant(v, nos) = Long(n)
    BY ONLY <1>2 DEF NumberMeant
  <2>2. n % Word = n
    BY <1>2, Modulo
  <2>3. Named(nos, v) = Good(Long(n))
    BY ONLY <1>2, <2>2 DEF Named, Number
  <2> QED BY ONLY <1>2, <2>1, <2>3, LongRenders
<1>3. CASE ~Is(v, "int") /\ ~(Is(v, "str") /\ v.str \in DOMAIN nos)
  <2>1. NumberMeant(v, nos) = None
    BY ONLY <1>3 DEF NumberMeant
  <2>2. Named(nos, v) = Bad("exception")
    BY ONLY <1>3 DEF Named
  <2> QED BY ONLY <1>3, <2>1, <2>2, NoneRenders
<1> QED BY <1>1, <1>2, <1>3

\* A key that is no array is the only value of one.
LEMMA KeyRenders ==
    ASSUME NEW v \in Values, NEW select \in BOOLEAN
    PROVE  Renders(Good(PackKey(v, select)),
                   IF Is(v, "nil") /\ select THEN [list |-> <<>>] ELSE KeyMeant(v))
<1> DEFINE one == <<v>>
           none == <<>>
<1>1. CASE Is(v, "array")
  <2>1. ~Is(v, "nil")
    BY <1>1, TypesApart
  <2>2. PackKey(v, select) = v /\ KeyMeant(v) = Means[v]
    BY ONLY <1>1 DEF PackKey, KeyMeant
  <2> QED BY ONLY v \in Values, <2>1, <2>2, ValueRenders
<1>2. CASE ~Is(v, "array") /\ select /\ Is(v, "nil")
  <2>1. PackKey(v, select) = EmptyArr
    BY ONLY <1>2 DEF PackKey
  <2>2. EmptyArr = ListOf(none)
    <3>1. DOMAIN none = 1..0 /\ Numbers(none, 0) = <<>>
      BY DEF Numbers
    <3> QED BY <3>1, ListOfIs DEF EmptyArr
  <2>3. ListOf(none) \in Values => Means[ListOf(none)] = [list |-> <<>>]
    <3> DEFINE n == 0
    <3>1. n \in Nat /\ DOMAIN none = 1..n /\ [i \in 1..n |-> Means[none[i]]] = <<>>
      OBVIOUS
    <3> HIDE DEF none, n
    <3>2. ListOf(none) \in Values =>
            Means[ListOf(none)] = [list |-> [i \in 1..n |-> Means[none[i]]]]
      BY ONLY <3>1, MeansListOf, Zenon
    <3> QED BY ONLY <3>1, <3>2
  <2>4. [list |-> <<>>] # None
    <3>1. DOMAIN [list |-> <<>>] = {"list"} /\ DOMAIN None = {"none"}
      BY DEF None
    <3> QED BY <3>1
  <2> HIDE DEF none
  <2> QED BY ONLY <1>2, <2>1, <2>2, <2>3, <2>4, GoodOrBad DEF Renders
<1>3. CASE ~Is(v, "array") /\ ~(select /\ Is(v, "nil"))
  <2>1. PackKey(v, select) = ListOf(one)
    BY ONLY <1>3 DEF PackKey
  <2>2. KeyMeant(v) = [list |-> <<Means[v]>>]
    BY ONLY <1>3 DEF KeyMeant
  <2>3. ListOf(one) \in Values => Means[ListOf(one)] = [list |-> <<Means[v]>>]
    <3> DEFINE n == 1
    <3>1. n \in Nat /\ DOMAIN one = 1..n /\ [i \in 1..n |-> Means[one[i]]] = <<Means[v]>>
      OBVIOUS
    <3> HIDE DEF one, n
    <3>2. ListOf(one) \in Values =>
            Means[ListOf(one)] = [list |-> [i \in 1..n |-> Means[one[i]]]]
      BY ONLY <3>1, MeansListOf, Zenon
    <3> QED BY ONLY <3>1, <3>2
  <2>4. [list |-> <<Means[v]>>] # None
    <3>1. DOMAIN [list |-> <<Means[v]>>] = {"list"} /\ DOMAIN None = {"none"}
      BY DEF None
    <3> QED BY <3>1
  <2> HIDE DEF one
  <2> QED BY ONLY <1>3, <2>1, <2>2, <2>3, <2>4, GoodOrBad DEF Renders
<1> QED BY <1>1, <1>2, <1>3

\* The operations of an update.
OpsMeant(ops) ==
    IF Is(ops, "array") /\ IsList(ops)
       /\ \A i \in 1..Count(ops) : IsOperation(At(ops, Long(i - 1)))
    THEN [list |-> [i \in 1..Count(ops) |-> OperationMeant(At(ops, Long(i - 1)))]]
    ELSE None

\* The keys of a list are the numbers from 0.
LEMMA NumberKeysAre ==
    ASSUME NEW n \in Nat
    PROVE  KeysOf([i \in 1..n |-> Long(i - 1)], n) = {Long(i) : i \in 0..n - 1}
<1> DEFINE f == [i \in 1..n |-> Long(i - 1)]
<1>1. \A i \in 1..n : f[i] = Long(i - 1)
  OBVIOUS
<1> HIDE DEF f
<1>2. ASSUME NEW i \in 1..n PROVE \E j \in 0..n - 1 : f[i] = Long(j)
  <2>1. i - 1 \in 0..n - 1
    OBVIOUS
  <2> QED BY <1>1, <2>1
<1>3. ASSUME NEW j \in 0..n - 1 PROVE \E i \in 1..n : f[i] = Long(j)
  <2>1. j + 1 \in 1..n /\ (j + 1) - 1 = j
    OBVIOUS
  <2> QED BY <1>1, <2>1
<1>4. KeysOf(f, n) = {Long(i) : i \in 0..n - 1}
  BY <1>2, <1>3 DEF KeysOf
<1> QED BY <1>4 DEF f

\* What has an element at every number below their number is a list.
LEMMA ListHas ==
    ASSUME NEW v, v \in Values, Is(v, "array")
    PROVE  IsList(v) <=> \A i \in 1..Count(v) : Has(v, Long(i - 1))
<1> DEFINE n == Count(v)
           f == [i \in 1..n |-> Long(i - 1)]
<1>1. n \in Nat
  BY Elemental
<1>2. Apart(f, n) /\ KeysOf(f, n) = {Long(i) : i \in 0..n - 1}
  BY <1>1, NumberKeys, NumberKeysAre
<1>3. \A i \in 1..n : f[i] = Long(i - 1)
  OBVIOUS
<1> HIDE DEF f
<1>4. ArrayKeys(v) = KeysOf(f, n) <=> \A i \in 1..n : Has(v, f[i])
  BY <1>1, <1>2, KeysAre
<1>5. IsList(v) <=> ArrayKeys(v) = KeysOf(f, n)
  BY ONLY <1>2 DEF IsList
<1> QED BY ONLY <1>3, <1>4, <1>5

\* The operations that are sent are those that were given; if one of them is
\* none, nothing is.
LEMMA OpsRenders ==
    ASSUME NEW ops, ops \in Values, Is(ops, "array") /\ IsList(ops) => ~IsHash(ops)
    PROVE  Renders(VerifyArgs(ops), OpsMeant(ops))
<1> DEFINE n == Count(ops)
           at(i) == At(ops, Long(i - 1))
           vs == [i \in 1..n |-> VerifyOp(at(i)).v]
           good == Is(ops, "array") /\ ~IsHash(ops) /\ (\A i \in 1..n :
                      Has(ops, Long(i - 1)) /\ IsGood(VerifyOp(at(i))))
           meant == Is(ops, "array") /\ IsList(ops) /\ \A i \in 1..n : IsOperation(at(i))
<1>1. ASSUME Is(ops, "array"), IsList(ops)
      PROVE  n \in Nat /\ \A i \in 1..n : at(i) \in Values
  BY <1>1, Elemental, ListHas, AtHas
<1>2. good <=> meant
  <2>1. good => meant
    <3> SUFFICES ASSUME good PROVE meant
      OBVIOUS
    <3>1. IsList(ops)
      BY ListHas
    <3> QED BY <1>1, <3>1, OpVerified
  <2>2. meant => good
    <3> SUFFICES ASSUME meant PROVE good
      OBVIOUS
    <3>1. \A i \in 1..n : Has(ops, Long(i - 1))
      BY ListHas
    <3> QED BY <1>1, <3>1, OpVerified
  <2> QED BY <2>1, <2>2
<1>3. VerifyArgs(ops) = IF good THEN Good(ListOf(vs)) ELSE Bad("exception")
  BY ONLY Zenon DEF VerifyArgs
<1>4. OpsMeant(ops) = IF meant THEN [list |-> [i \in 1..n |-> OperationMeant(at(i))]] ELSE None
  BY ONLY Zenon DEF OpsMeant
<1>5. ASSUME meant, ListOf(vs) \in Values
      PROVE  Means[ListOf(vs)] = [list |-> [i \in 1..n |-> OperationMeant(at(i))]]
  <2>1. n \in Nat /\ \A i \in 1..n : at(i) \in Values
    BY ONLY <1>1, <1>5
  <2>2. \A i \in 1..n : IsGood(VerifyOp(at(i)))
    BY ONLY <1>2, <1>5
  <2>3. DOMAIN vs = 1..n /\ \A i \in 1..n : vs[i] = VerifyOp(at(i)).v
    OBVIOUS
  <2> HIDE DEF n, vs, at
  <2>4. (\A i \in 1..n : vs[i] \in Values) /\ Means[ListOf(vs)] = [list |-> [i \in 1..n |-> Means[vs[i]]]]
    BY ONLY <1>5, <2>1, <2>3, MeansListOf
  <2>5. \A i \in 1..n : Means[vs[i]] = OperationMeant(at(i))
    BY ONLY <2>1, <2>2, <2>3, <2>4, OpVerified
  <2> QED BY ONLY <2>4, <2>5
<1>6. \A a : [list |-> a] # None
  <2>1. \A a : DOMAIN [list |-> a] = {"list"}
    OBVIOUS
  <2>2. DOMAIN None = {"none"}
    BY DEF None
  <2> QED BY <2>1, <2>2
<1> HIDE DEF good, meant, vs, at, n
<1>7. CASE good
  BY ONLY <1>2, <1>3, <1>4, <1>5, <1>6, <1>7, GoodOrBad DEF Renders
<1>8. CASE ~good
  BY ONLY <1>2, <1>3, <1>4, <1>8, NoneRenders
<1> QED BY ONLY <1>7, <1>8

-----------------------------------------------------------------------------
(* The parameters of a call.                                               *)

\* What is asked of the arguments of a call.
LEMMA Fits ==
    ASSUME NumbersFit, NoneMistaken, NEW c, c \in Calls
    PROVE  /\ \A p \in DOMAIN c \cap {"space", "index", "iterator"} :
                Is(c[p], "int") => c[p].int \in -1..Word - 1
           /\ "limit" \in DOMAIN c /\ Is(c.limit, "int") => c.limit.int \in 0..Word - 1
           /\ "offset" \in DOMAIN c => c.offset \in 0..Word - 1
           /\ "ops" \in DOMAIN c /\ IsList(c.ops) => ~IsHash(c.ops)
           /\ \A p \in DOMAIN c \ {"method", "offset"} : c[p] \in Values
BY CallOf DEF NumbersFit, NoneMistaken, IsCall

\* The space.
LEMMA SpaceRenders ==
    ASSUME NumbersFit, NoneMistaken, NEW c, c \in Calls, "space" \in DOMAIN c
    PROVE  Renders(SpaceNo(c.space), ParameterMeant(c, "space"))
<1> DEFINE v == c.space
<1>1. v \in Values /\ (Is(v, "int") => v.int \in -1..Word - 1)
  BY Fits
<1>2. \A name \in DOMAIN SpaceNos : SpaceNos[name] \in 0..Word - 1
  BY WordAssumption
<1>3. ParameterMeant(c, "space") = NumberMeant(v, SpaceNos)
  BY ONLY TRUE DEF ParameterMeant
<1> HIDE DEF v
<1>4. Renders(IF Is(v, "int") THEN Numbered(v.int) ELSE Named(SpaceNos, v), NumberMeant(v, SpaceNos))
  BY ONLY <1>1, <1>2, NumberRenders
<1>5. SpaceNo(v) = IF Is(v, "int") THEN Numbered(v.int) ELSE Named(SpaceNos, v)
  BY ONLY TRUE DEF SpaceNo
<1>6. Renders(SpaceNo(v), ParameterMeant(c, "space"))
  BY ONLY <1>3, <1>4, <1>5
<1> QED BY ONLY <1>6 DEF v

\* Zero is the first index.
LEMMA NumberZero == Number(0) = Long(0)
BY WordAssumption, Modulo DEF Number

\* The index, which is the first one if there is none.
LEMMA IndexRenders ==
    ASSUME NumbersFit, NoneMistaken, NEW c, c \in Calls, "index" \in DOMAIN c
    PROVE  Renders(IndexNo(c.index), ParameterMeant(c, "index"))
<1> DEFINE v == c.index
<1>1. v \in Values /\ (Is(v, "int") => v.int \in -1..Word - 1)
  BY Fits
<1>2. \A name \in DOMAIN IndexNos : IndexNos[name] \in 0..Word - 1
  BY WordAssumption
<1>3. ParameterMeant(c, "index") = IF Is(v, "nil") THEN Long(0) ELSE NumberMeant(v, IndexNos)
  BY ONLY TRUE DEF ParameterMeant
<1> HIDE DEF v
<1>4. Renders(IF Is(v, "int") THEN Numbered(v.int) ELSE Named(IndexNos, v), NumberMeant(v, IndexNos))
  BY ONLY <1>1, <1>2, NumberRenders
<1>5. IndexNo(v) = IF Is(v, "nil") THEN Good(Number(0))
                   ELSE IF Is(v, "int") THEN Numbered(v.int) ELSE Named(IndexNos, v)
  BY ONLY TRUE DEF IndexNo
<1>6. Renders(IndexNo(v), ParameterMeant(c, "index"))
  BY ONLY <1>3, <1>4, <1>5, NumberZero, LongRenders
<1> QED BY ONLY <1>6 DEF v

\* The limit, which is the largest there is if there is none.
LEMMA LimitRenders ==
    ASSUME NumbersFit, NoneMistaken, NEW c, c \in Calls, "limit" \in DOMAIN c
    PROVE  Renders(LimitNo(c.limit), ParameterMeant(c, "limit"))
<1> DEFINE v == c.limit
<1>1. v \in Values /\ (Is(v, "int") => v.int \in 0..Word - 1)
  BY Fits
<1>3. ParameterMeant(c, "limit") = IF Is(v, "nil") THEN Long(Word - 2)
                                   ELSE IF Is(v, "int") THEN v ELSE None
  BY ONLY TRUE DEF ParameterMeant
<1> HIDE DEF v
<1>4. Is(v, "int") => v = Long(v.int) /\ Number(v.int) = Long(v.int)
  BY <1>1, IntIs, Modulo DEF Number
<1>5. Number(LongMax - 1) = Long(Word - 2)
  BY Modulo DEF Number
<1>6. LimitNo(v) = IF Is(v, "nil") THEN Good(Number(LongMax - 1))
                   ELSE IF Is(v, "int") THEN Good(Number(v.int)) ELSE Bad("exception")
  BY ONLY TRUE DEF LimitNo
<1>7. Renders(LimitNo(v), ParameterMeant(c, "limit"))
  BY ONLY <1>3, <1>4, <1>5, <1>6, LongRenders, NoneRenders
<1> QED BY ONLY <1>7 DEF v

\* The offset.
LEMMA OffsetRenders ==
    ASSUME NumbersFit, NoneMistaken, NEW c, c \in Calls, "offset" \in DOMAIN c
    PROVE  Renders(Good(Number(c.offset)), ParameterMeant(c, "offset"))
<1>1. Number(c.offset) = Long(c.offset)
  BY Fits, Modulo DEF Number
<1>2. ParameterMeant(c, "offset") = Long(c.offset)
  BY ONLY TRUE DEF ParameterMeant
<1> QED BY ONLY <1>1, <1>2, LongRenders

\* The iterator: EQ, or ALL without a key, if there is none.
LEMMA IteratorRenders ==
    ASSUME NumbersFit, NoneMistaken, NEW c, c \in Calls, "iterator" \in DOMAIN c
    PROVE  Renders(ConvertIterator(c.iterator, NoKey(c.key)), ParameterMeant(c, "iterator"))
<1> DEFINE v == c.iterator
           all == NoKey(c.key)
           known == Is(v, "str") /\ v.str \in DOMAIN Upper /\ Upper[v.str] \in DOMAIN IteratorType
           type == IteratorType[Upper[v.str]]
           default == IteratorType[IF all THEN "ALL" ELSE "EQ"]
           none == <<>>
<1>1. v \in Values /\ (Is(v, "int") => v.int \in -1..Word - 1)
  BY Fits
<1>2. \A name \in DOMAIN none : none[name] \in 0..Word - 1
  OBVIOUS
<1>3. ParameterMeant(c, "iterator") =
        IF Is(v, "nil") THEN Long(IF all THEN IteratorType.ALL ELSE IteratorType.EQ)
        ELSE IF Is(v, "int") THEN NumberMeant(v, none)
        ELSE IF known THEN Long(type) ELSE None
  BY ONLY TRUE DEF ParameterMeant
<1>4. Renders(IF Is(v, "int") THEN Numbered(v.int) ELSE Named(none, v), NumberMeant(v, none))
  <2> HIDE DEF v, none
  <2> QED BY ONLY <1>1, <1>2, NumberRenders
<1>5. ConvertIterator(v, all) =
        IF Is(v, "nil") THEN Good(Number(default))
        ELSE IF Is(v, "int") THEN Numbered(v.int)
        ELSE IF known THEN Good(Number(type)) ELSE Bad("exception")
  BY ONLY TRUE DEF ConvertIterator
<1>6. \A name \in DOMAIN IteratorType : IteratorType[name] \in 0..Word - 1
  BY WordAssumption DEF IteratorType
<1>7. \A n \in 0..Word - 1 : Number(n) = Long(n)
  BY Modulo DEF Number
<1>8. known => Number(type) = Long(type)
  BY ONLY <1>6, <1>7
<1>9. Number(default) = Long(IF all THEN IteratorType.ALL ELSE IteratorType.EQ)
  <2>1. {"ALL", "EQ"} \subseteq DOMAIN IteratorType
    BY DEF IteratorType
  <2> HIDE DEF all
  <2> QED BY ONLY <1>6, <1>7, <2>1
<1> HIDE DEF v, all, known, type, default, none
<1>10. Renders(ConvertIterator(v, all), ParameterMeant(c, "iterator"))
  BY ONLY <1>3, <1>4, <1>5, <1>8, <1>9, LongRenders, NoneRenders
<1> QED BY ONLY <1>10 DEF v, all

\* What a method makes of each of its parameters.
ArgOf(c, p) ==
    CASE p = "space"    -> SpaceNo(c.space)
      [] p = "index"    -> IndexNo(c.index)
      [] p = "limit"    -> LimitNo(c.limit)
      [] p = "offset"   -> Good(Number(c.offset))
      [] p = "iterator" -> ConvertIterator(c.iterator, NoKey(c.key))
      [] p = "key"      -> Good(PackKey(c.key, c.method = "select"))
      [] p = "args"     -> Good(PackKey(c.args, TRUE))
      [] p = "proc"     -> Good(c.proc)
      [] p = "tuple"    -> Good(c.tuple)
      [] p = "ops"      -> VerifyArgs(c.ops)

ParametersOf(c) == DOMAIN c \ {"method"}

\* The parameters of each method.
LEMMA ParametersAre ==
    ASSUME NEW c, c \in Calls
    PROVE  /\ c.method = "ping" => ParametersOf(c) = {}
           /\ c.method = "select" =>
                ParametersOf(c) = {"space", "index", "key", "limit", "offset", "iterator"}
           /\ c.method \in {"insert", "replace"} => ParametersOf(c) = {"space", "tuple"}
           /\ c.method = "delete" => ParametersOf(c) = {"space", "index", "key"}
           /\ c.method = "update" => ParametersOf(c) = {"space", "index", "key", "ops"}
           /\ c.method = "upsert" => ParametersOf(c) = {"space", "tuple", "ops"}
           /\ c.method \in {"call", "eval"} => ParametersOf(c) = {"proc", "args"}
<1>1. DOMAIN c = {"method"} \cup Parameters[c.method]
  BY CallOf DEF IsCall
<1>2. /\ Parameters.ping = {} /\ Parameters.delete = {"space", "index", "key"}
      /\ Parameters.select = {"space", "index", "key", "limit", "offset", "iterator"}
      /\ Parameters.insert = {"space", "tuple"} /\ Parameters.replace = {"space", "tuple"}
      /\ Parameters.update = {"space", "index", "key", "ops"}
      /\ Parameters.upsert = {"space", "tuple", "ops"}
      /\ Parameters.call = {"proc", "args"} /\ Parameters.eval = {"proc", "args"}
  BY ONLY TRUE DEF Parameters
<1>3. \A s : "method" \notin s => ({"method"} \cup s) \ {"method"} = s
  OBVIOUS
<1>4. CASE c.method = "ping"
  BY ONLY <1>1, <1>2, <1>4 DEF ParametersOf
<1>5. CASE c.method = "select"
  BY ONLY <1>1, <1>2, <1>3, <1>5 DEF ParametersOf
<1>6. CASE c.method = "insert"
  BY ONLY <1>1, <1>2, <1>3, <1>6 DEF ParametersOf
<1>7. CASE c.method = "replace"
  BY ONLY <1>1, <1>2, <1>3, <1>7 DEF ParametersOf
<1>8. CASE c.method = "delete"
  BY ONLY <1>1, <1>2, <1>3, <1>8 DEF ParametersOf
<1>9. CASE c.method = "update"
  BY ONLY <1>1, <1>2, <1>3, <1>9 DEF ParametersOf
<1>10. CASE c.method = "upsert"
  BY ONLY <1>1, <1>2, <1>3, <1>10 DEF ParametersOf
<1>11. CASE c.method = "call"
  BY ONLY <1>1, <1>2, <1>3, <1>11 DEF ParametersOf
<1>12. CASE c.method = "eval"
  BY ONLY <1>1, <1>2, <1>3, <1>12 DEF ParametersOf
<1> QED BY <1>4, <1>5, <1>6, <1>7, <1>8, <1>9, <1>10, <1>11, <1>12, CallOf, Methods

\* The key, and the arguments of a procedure.
LEMMA KeyParameter ==
    ASSUME NumbersFit, NoneMistaken, NEW c, c \in Calls, NEW p, p \in {"key", "args"},
           p \in ParametersOf(c)
    PROVE  Renders(ArgOf(c, p), ParameterMeant(c, p))
<1> DEFINE v == c[p]
           select == c.method \in {"select", "call", "eval"}
<1>1. v \in Values
  BY Fits DEF ParametersOf
<1>2. ArgOf(c, p) = Good(PackKey(v, select))
  <2>1. CASE p = "key"
    <3>1. c.method \notin {"call", "eval"}
      BY <2>1, ParametersAre
    <3>2. select <=> c.method = "select"
      BY <3>1
    <3>3. ArgOf(c, p) = Good(PackKey(v, c.method = "select"))
      BY ONLY <2>1 DEF ArgOf
    <3>4. select = (c.method = "select")
      BY ONLY <3>2
    <3> QED BY ONLY <3>3, <3>4
  <2>2. CASE p = "args"
    <3>1. c.method \in {"call", "eval"}
      BY <2>2, ParametersAre, CallOf, Methods
    <3>2. select = TRUE
      BY <3>1
    <3>3. ArgOf(c, p) = Good(PackKey(v, TRUE))
      BY ONLY <2>2 DEF ArgOf
    <3> QED BY ONLY <3>2, <3>3
  <2> QED BY <2>1, <2>2
<1>3. ParameterMeant(c, p) = IF Is(v, "nil") /\ select THEN [list |-> <<>>] ELSE KeyMeant(v)
  BY ONLY p \in {"key", "args"} DEF ParameterMeant
<1>4. select \in BOOLEAN
  OBVIOUS
<1> HIDE DEF v, select
<1> QED BY ONLY <1>1, <1>2, <1>3, <1>4, KeyRenders

\* Every method makes of every parameter what it means.
LEMMA ArgRenders ==
    ASSUME NumbersFit, NoneMistaken, NEW c, c \in Calls, NEW p, p \in ParametersOf(c)
    PROVE  Renders(ArgOf(c, p), ParameterMeant(c, p))
<1>0. p \in DOMAIN c /\ (p # "offset" => c[p] \in Values)
  BY Fits DEF ParametersOf
<1>1. CASE p = "space"
  <2>1. ArgOf(c, p) = SpaceNo(c.space)
    BY ONLY <1>1 DEF ArgOf
  <2> QED BY ONLY NumbersFit, NoneMistaken, c \in Calls, <1>0, <1>1, <2>1, SpaceRenders
<1>2. CASE p = "index"
  <2>1. ArgOf(c, p) = IndexNo(c.index)
    BY ONLY <1>2 DEF ArgOf
  <2> QED BY ONLY NumbersFit, NoneMistaken, c \in Calls, <1>0, <1>2, <2>1, IndexRenders
<1>3. CASE p = "limit"
  <2>1. ArgOf(c, p) = LimitNo(c.limit)
    BY ONLY <1>3 DEF ArgOf
  <2> QED BY ONLY NumbersFit, NoneMistaken, c \in Calls, <1>0, <1>3, <2>1, LimitRenders
<1>4. CASE p = "offset"
  <2>1. ArgOf(c, p) = Good(Number(c.offset))
    BY ONLY <1>4 DEF ArgOf
  <2> QED BY ONLY NumbersFit, NoneMistaken, c \in Calls, <1>0, <1>4, <2>1, OffsetRenders
<1>5. CASE p = "iterator"
  <2>1. ArgOf(c, p) = ConvertIterator(c.iterator, NoKey(c.key))
    BY ONLY <1>5 DEF ArgOf
  <2> QED BY ONLY NumbersFit, NoneMistaken, c \in Calls, <1>0, <1>5, <2>1, IteratorRenders
<1>6. CASE p \in {"key", "args"}
  BY ONLY NumbersFit, NoneMistaken, c \in Calls, p \in ParametersOf(c), <1>6, KeyParameter
<1>7. CASE p \in {"proc", "tuple"}
  <2>1. ArgOf(c, p) = Good(c[p])
    BY ONLY <1>7 DEF ArgOf
  <2>2. ParameterMeant(c, p) = Means[c[p]]
    BY ONLY <1>7 DEF ParameterMeant
  <2>3. c[p] \in Values
    BY <1>0, <1>7
  <2> QED BY ONLY <2>1, <2>2, <2>3, ValueRenders
<1>8. CASE p = "ops"
  <2>1. ArgOf(c, p) = VerifyArgs(c.ops)
    BY ONLY <1>8 DEF ArgOf
  <2>2. ParameterMeant(c, p) = OpsMeant(c.ops)
    BY ONLY <1>8, Zenon DEF ParameterMeant, OpsMeant
  <2>3. c.ops \in Values /\ (Is(c.ops, "array") /\ IsList(c.ops) => ~IsHash(c.ops))
    BY <1>0, <1>8, Fits
  <2> QED BY ONLY <2>1, <2>2, <2>3, OpsRenders
<1>9. p \in {"space", "index", "limit", "offset", "iterator", "key", "args", "proc", "tuple", "ops"}
  BY ParametersAre, CallOf, Methods
<1> QED BY ONLY <1>1, <1>2, <1>3, <1>4, <1>5, <1>6, <1>7, <1>8, <1>9

-----------------------------------------------------------------------------
(* The fields of a request are the parameters of its call.                 *)

\* The field has the parameter.
Matches(f, c, p) == Field[f[1]] = FieldOf(c, p) /\ f[2] = ArgOf(c, p).v
AllGood(c) == \A p \in ParametersOf(c) : IsGood(ArgOf(c, p))
Aligned(c) ==
    /\ IsGood(RequestOf(c)) <=> AllGood(c)
    /\ \A f \in ToSet(RequestOf(c).fields) : \E p \in ParametersOf(c) : Matches(f, c, p)
    /\ \A p \in ParametersOf(c) : \E f \in ToSet(RequestOf(c).fields) : Matches(f, c, p)

\* The elements of a sequence.
LEMMA ToSets ==
    /\ \A a, b : ToSet(<<a, b>>) = {a, b}
    /\ \A a, b, d : ToSet(<<a, b, d>>) = {a, b, d}
    /\ \A a, b, d, e : ToSet(<<a, b, d, e>>) = {a, b, d, e}
    /\ \A a, b, d, e, f, g : ToSet(<<a, b, d, e, f, g>>) = {a, b, d, e, f, g}
<1>1. \A a, b : ToSet(<<a, b>>) = {a, b}
  BY DEF ToSet
<1>2. \A a, b, d : ToSet(<<a, b, d>>) = {a, b, d}
  BY DEF ToSet
<1>3. \A a, b, d, e : ToSet(<<a, b, d, e>>) = {a, b, d, e}
  <2> TAKE a, b, d, e
  <2> DEFINE s == <<a, b, d, e>>
  <2>1. DOMAIN s = {1, 2, 3, 4} /\ s[1] = a /\ s[2] = b /\ s[3] = d /\ s[4] = e
    OBVIOUS
  <2> HIDE DEF s
  <2>2. ToSet(s) = {a, b, d, e}
    BY ONLY <2>1 DEF ToSet
  <2> QED BY <2>2 DEF s
<1>4. \A a, b, d, e, f, g : ToSet(<<a, b, d, e, f, g>>) = {a, b, d, e, f, g}
  <2> TAKE a, b, d, e, f, g
  <2> DEFINE s == <<a, b, d, e, f, g>>
  <2>1. /\ DOMAIN s = {1, 2, 3, 4, 5, 6} /\ s[1] = a /\ s[2] = b /\ s[3] = d /\ s[4] = e
        /\ s[5] = f /\ s[6] = g
    OBVIOUS
  <2> HIDE DEF s
  <2>2. ToSet(s) = {a, b, d, e, f, g}
    BY ONLY <2>1 DEF ToSet
  <2> QED BY <2>2 DEF s
<1> QED BY <1>1, <1>2, <1>3, <1>4

\* Where the parameters that are named after their field go.
LEMMA MatchesOwn ==
    ASSUME NEW c, NEW p, p \in {"space", "index", "limit", "offset", "iterator", "key", "tuple"},
           NEW v, v = ArgOf(c, p).v
    PROVE  Matches(<<p, v>>, c, p)
<1>1. FieldOf(c, p) = Field[p]
  BY DEF FieldOf
<1> QED BY ONLY v = ArgOf(c, p).v, <1>1 DEF Matches

\* What is made of each of them.
LEMMA ArgsAre ==
    ASSUME NEW c
    PROVE  /\ ArgOf(c, "space") = SpaceNo(c.space)
           /\ ArgOf(c, "index") = IndexNo(c.index)
           /\ ArgOf(c, "limit") = LimitNo(c.limit)
           /\ ArgOf(c, "offset") = Good(Number(c.offset))
           /\ ArgOf(c, "iterator") = ConvertIterator(c.iterator, NoKey(c.key))
           /\ ArgOf(c, "key") = Good(PackKey(c.key, c.method = "select"))
           /\ ArgOf(c, "args") = Good(PackKey(c.args, TRUE))
           /\ ArgOf(c, "proc") = Good(c.proc)
           /\ ArgOf(c, "tuple") = Good(c.tuple)
           /\ ArgOf(c, "ops") = VerifyArgs(c.ops)
BY ONLY TRUE DEF ArgOf

\* What a request has.
LEMMA RequestHas ==
    \A err, fields : /\ Request(err, fields).fields = fields
                     /\ IsGood(Request(err, fields)) <=> err = "no"
BY DEF Request, IsGood

\* ping has none.
LEMMA PingAligned == ASSUME NEW c, c \in Calls, c.method = "ping" PROVE Aligned(c)
<1>1. RequestOf(c).fields = <<>> /\ IsGood(RequestOf(c))
  BY ONLY c.method = "ping", RequestIs, RequestHas
<1>2. ParametersOf(c) = {}
  BY ParametersAre
<1>3. ToSet(RequestOf(c).fields) = {}
  BY ONLY <1>1 DEF ToSet
<1> QED BY ONLY <1>1, <1>2, <1>3 DEF Aligned, AllGood

\* select has all six, and each field one of them.
LEMMA SelectAligned == ASSUME NEW c, c \in Calls, c.method = "select" PROVE Aligned(c)
<1> DEFINE limit == LimitNo(c.limit)
           space == SpaceNo(c.space)
           index == IndexNo(c.index)
           iter == ConvertIterator(c.iterator, NoKey(c.key))
           offset == Number(c.offset)
           key == PackKey(c.key, TRUE)
           args == <<limit, space, index, iter>>
           fields == <<<<"space", space.v>>, <<"index", index.v>>, <<"offset", offset>>,
                       <<"limit", limit.v>>, <<"iterator", iter.v>>, <<"key", key>>>>
           P(p) == IsGood(ArgOf(c, p))
<1>1. RequestOf(c) = Request(ErrOf(args), fields)
  <2>1. RequestOf(c) = SelectRequest(c)
    BY ONLY c.method = "select", RequestIs
  <2>2. SelectRequest(c) = Request(ErrOf(args), fields)
    BY ONLY Zenon DEF SelectRequest
  <2> QED BY ONLY <2>1, <2>2
<1>2. ParametersOf(c) = {"space", "index", "key", "limit", "offset", "iterator"}
  BY ParametersAre
<1>3. /\ ArgOf(c, "space") = space /\ ArgOf(c, "index") = index /\ ArgOf(c, "limit") = limit
      /\ ArgOf(c, "offset") = Good(offset) /\ ArgOf(c, "iterator") = iter
      /\ ArgOf(c, "key") = Good(key)
  <2>1. (c.method = "select") = TRUE
    OBVIOUS
  <2> QED BY ONLY <2>1, ArgsAre
<1> HIDE DEF limit, space, index, iter, offset, key
<1>4. ErrOf(args) = "no" <=> IsGood(limit) /\ IsGood(space) /\ IsGood(index) /\ IsGood(iter)
  <2>1. Len(args) = 4 /\ args[1] = limit /\ args[2] = space /\ args[3] = index /\ args[4] = iter
    OBVIOUS
  <2>2. 1..4 = {1, 2, 3, 4} /\ 4 \in Nat
    OBVIOUS
  <2> HIDE DEF args
  <2>3. ErrOf(args) = "no" <=> \A i \in 1..4 : IsGood(args[i])
    BY ONLY <2>1, <2>2, ErrOfIs
  <2> QED BY ONLY <2>1, <2>2, <2>3
<1>5. IsGood(RequestOf(c)) <=> ErrOf(args) = "no"
  BY ONLY <1>1, RequestHas
<1>6. IsGood(RequestOf(c)) <=> AllGood(c)
  <2> HIDE DEF args, fields
  <2> QED BY ONLY <1>2, <1>3, <1>4, <1>5, GoodOrBad DEF AllGood
<1>7. ToSet(RequestOf(c).fields) =
        {<<"space", space.v>>, <<"index", index.v>>, <<"offset", offset>>,
         <<"limit", limit.v>>, <<"iterator", iter.v>>, <<"key", key>>}
  <2>1. RequestOf(c).fields = fields
    BY ONLY <1>1, RequestHas
  <2> QED BY ONLY <2>1, ToSets
<1>8. /\ Matches(<<"space", space.v>>, c, "space") /\ Matches(<<"index", index.v>>, c, "index")
      /\ Matches(<<"offset", offset>>, c, "offset") /\ Matches(<<"limit", limit.v>>, c, "limit")
      /\ Matches(<<"iterator", iter.v>>, c, "iterator") /\ Matches(<<"key", key>>, c, "key")
  BY ONLY <1>3, GoodOrBad, MatchesOwn
<1> QED BY ONLY <1>2, <1>6, <1>7, <1>8 DEF Aligned

\* insert and replace.
LEMMA StoreAligned ==
    ASSUME NEW c, c \in Calls, c.method \in {"insert", "replace"} PROVE Aligned(c)
<1> DEFINE space == SpaceNo(c.space)
           tuple == c.tuple
           fields == <<<<"space", space.v>>, <<"tuple", tuple>>>>
<1>1. RequestOf(c) = Request(space.err, fields)
  <2>1. RequestOf(c) = StoreRequest(c)
    BY ONLY c.method \in {"insert", "replace"}, RequestIs
  <2>2. StoreRequest(c) = Request(space.err, fields)
    BY ONLY Zenon DEF StoreRequest
  <2> QED BY ONLY <2>1, <2>2
<1>2. ParametersOf(c) = {"space", "tuple"}
  BY ParametersAre
<1>3. ArgOf(c, "space") = space /\ ArgOf(c, "tuple") = Good(tuple)
  BY ONLY ArgsAre
<1> HIDE DEF space, tuple
<1>4. IsGood(RequestOf(c)) <=> IsGood(space)
  BY ONLY <1>1, RequestHas DEF IsGood
<1>5. IsGood(RequestOf(c)) <=> AllGood(c)
  BY ONLY <1>2, <1>3, <1>4, GoodOrBad DEF AllGood
<1>6. ToSet(RequestOf(c).fields) = {<<"space", space.v>>, <<"tuple", tuple>>}
  <2>1. RequestOf(c).fields = fields
    BY ONLY <1>1, RequestHas
  <2> QED BY ONLY <2>1, ToSets
<1>7. Matches(<<"space", space.v>>, c, "space") /\ Matches(<<"tuple", tuple>>, c, "tuple")
  BY ONLY <1>3, GoodOrBad, MatchesOwn
<1> QED BY ONLY <1>2, <1>5, <1>6, <1>7 DEF Aligned

\* delete.
LEMMA DeleteAligned == ASSUME NEW c, c \in Calls, c.method = "delete" PROVE Aligned(c)
<1> DEFINE space == SpaceNo(c.space)
           index == IndexNo(c.index)
           key == PackKey(c.key, FALSE)
           args == <<space, index>>
           fields == <<<<"space", space.v>>, <<"index", index.v>>, <<"key", key>>>>
<1>1. RequestOf(c) = Request(ErrOf(args), fields)
  <2>1. RequestOf(c) = DeleteRequest(c)
    BY ONLY c.method = "delete", RequestIs
  <2>2. DeleteRequest(c) = Request(ErrOf(args), fields)
    BY ONLY Zenon DEF DeleteRequest
  <2> QED BY ONLY <2>1, <2>2
<1>2. ParametersOf(c) = {"space", "index", "key"}
  BY ParametersAre
<1>3. ArgOf(c, "space") = space /\ ArgOf(c, "index") = index /\ ArgOf(c, "key") = Good(key)
  <2>1. (c.method = "select") = FALSE
    OBVIOUS
  <2> QED BY ONLY <2>1, ArgsAre
<1> HIDE DEF space, index, key
<1>4. ErrOf(args) = "no" <=> IsGood(space) /\ IsGood(index)
  <2>1. Len(args) = 2 /\ args[1] = space /\ args[2] = index
    OBVIOUS
  <2>2. 1..2 = {1, 2} /\ 2 \in Nat
    OBVIOUS
  <2> HIDE DEF args
  <2>3. ErrOf(args) = "no" <=> \A i \in 1..2 : IsGood(args[i])
    BY ONLY <2>1, <2>2, ErrOfIs
  <2> QED BY ONLY <2>1, <2>2, <2>3
<1>5. IsGood(RequestOf(c)) <=> ErrOf(args) = "no"
  BY ONLY <1>1, RequestHas
<1>6. IsGood(RequestOf(c)) <=> AllGood(c)
  <2> HIDE DEF args, fields
  <2> QED BY ONLY <1>2, <1>3, <1>4, <1>5, GoodOrBad DEF AllGood
<1>7. ToSet(RequestOf(c).fields) = {<<"space", space.v>>, <<"index", index.v>>, <<"key", key>>}
  <2>1. RequestOf(c).fields = fields
    BY ONLY <1>1, RequestHas
  <2> QED BY ONLY <2>1, ToSets
<1>8. /\ Matches(<<"space", space.v>>, c, "space") /\ Matches(<<"index", index.v>>, c, "index")
      /\ Matches(<<"key", key>>, c, "key")
  BY ONLY <1>3, GoodOrBad, MatchesOwn
<1> QED BY ONLY <1>2, <1>6, <1>7, <1>8 DEF Aligned

\* update, whose operations go where others have the tuple.
LEMMA UpdateAligned == ASSUME NEW c, c \in Calls, c.method = "update" PROVE Aligned(c)
<1> DEFINE space == SpaceNo(c.space)
           index == IndexNo(c.index)
           key == PackKey(c.key, FALSE)
           ops == VerifyArgs(c.ops)
           args == <<space, index, ops>>
           fields == <<<<"space", space.v>>, <<"index", index.v>>, <<"key", key>>,
                       <<"tuple", ops.v>>>>
<1>1. RequestOf(c) = Request(ErrOf(args), fields)
  <2>1. RequestOf(c) = UpdateRequest(c)
    BY ONLY c.method = "update", RequestIs
  <2>2. UpdateRequest(c) = Request(ErrOf(args), fields)
    BY ONLY Zenon DEF UpdateRequest
  <2> QED BY ONLY <2>1, <2>2
<1>2. ParametersOf(c) = {"space", "index", "key", "ops"}
  BY ParametersAre
<1>3. /\ ArgOf(c, "space") = space /\ ArgOf(c, "index") = index
      /\ ArgOf(c, "key") = Good(key) /\ ArgOf(c, "ops") = ops
  <2>1. (c.method = "select") = FALSE
    OBVIOUS
  <2> QED BY ONLY <2>1, ArgsAre
<1> HIDE DEF space, index, key, ops
<1>4. ErrOf(args) = "no" <=> IsGood(space) /\ IsGood(index) /\ IsGood(ops)
  <2>1. Len(args) = 3 /\ args[1] = space /\ args[2] = index /\ args[3] = ops
    OBVIOUS
  <2>2. 1..3 = {1, 2, 3} /\ 3 \in Nat
    OBVIOUS
  <2> HIDE DEF args
  <2>3. ErrOf(args) = "no" <=> \A i \in 1..3 : IsGood(args[i])
    BY ONLY <2>1, <2>2, ErrOfIs
  <2> QED BY ONLY <2>1, <2>2, <2>3
<1>5. IsGood(RequestOf(c)) <=> ErrOf(args) = "no"
  BY ONLY <1>1, RequestHas
<1>6. IsGood(RequestOf(c)) <=> AllGood(c)
  <2> HIDE DEF args, fields
  <2> QED BY ONLY <1>2, <1>3, <1>4, <1>5, GoodOrBad DEF AllGood
<1>7. ToSet(RequestOf(c).fields) =
        {<<"space", space.v>>, <<"index", index.v>>, <<"key", key>>, <<"tuple", ops.v>>}
  <2>1. RequestOf(c).fields = fields
    BY ONLY <1>1, RequestHas
  <2> QED BY ONLY <2>1, ToSets
<1>8. /\ Matches(<<"space", space.v>>, c, "space") /\ Matches(<<"index", index.v>>, c, "index")
      /\ Matches(<<"key", key>>, c, "key")
  BY ONLY <1>3, GoodOrBad, MatchesOwn
<1>9. Matches(<<"tuple", ops.v>>, c, "ops")
  <2>1. FieldOf(c, "ops") = Field["tuple"]
    BY ONLY c.method = "update" DEF FieldOf
  <2> QED BY ONLY <1>3, <2>1 DEF Matches
<1> QED BY ONLY <1>2, <1>6, <1>7, <1>8, <1>9 DEF Aligned

\* upsert.
LEMMA UpsertAligned == ASSUME NEW c, c \in Calls, c.method = "upsert" PROVE Aligned(c)
<1> DEFINE space == SpaceNo(c.space)
           tuple == c.tuple
           ops == VerifyArgs(c.ops)
           args == <<space, ops>>
           fields == <<<<"space", space.v>>, <<"tuple", tuple>>, <<"ops", ops.v>>>>
<1>1. RequestOf(c) = Request(ErrOf(args), fields)
  <2>1. RequestOf(c) = UpsertRequest(c)
    BY ONLY c.method = "upsert", RequestIs
  <2>2. UpsertRequest(c) = Request(ErrOf(args), fields)
    BY ONLY Zenon DEF UpsertRequest
  <2> QED BY ONLY <2>1, <2>2
<1>2. ParametersOf(c) = {"space", "tuple", "ops"}
  BY ParametersAre
<1>3. ArgOf(c, "space") = space /\ ArgOf(c, "tuple") = Good(tuple) /\ ArgOf(c, "ops") = ops
  BY ONLY ArgsAre
<1> HIDE DEF space, tuple, ops
<1>4. ErrOf(args) = "no" <=> IsGood(space) /\ IsGood(ops)
  <2>1. Len(args) = 2 /\ args[1] = space /\ args[2] = ops
    OBVIOUS
  <2>2. 1..2 = {1, 2} /\ 2 \in Nat
    OBVIOUS
  <2> HIDE DEF args
  <2>3. ErrOf(args) = "no" <=> \A i \in 1..2 : IsGood(args[i])
    BY ONLY <2>1, <2>2, ErrOfIs
  <2> QED BY ONLY <2>1, <2>2, <2>3
<1>5. IsGood(RequestOf(c)) <=> ErrOf(args) = "no"
  BY ONLY <1>1, RequestHas
<1>6. IsGood(RequestOf(c)) <=> AllGood(c)
  <2> HIDE DEF args, fields
  <2> QED BY ONLY <1>2, <1>3, <1>4, <1>5, GoodOrBad DEF AllGood
<1>7. ToSet(RequestOf(c).fields) = {<<"space", space.v>>, <<"tuple", tuple>>, <<"ops", ops.v>>}
  <2>1. RequestOf(c).fields = fields
    BY ONLY <1>1, RequestHas
  <2> QED BY ONLY <2>1, ToSets
<1>8. Matches(<<"space", space.v>>, c, "space") /\ Matches(<<"tuple", tuple>>, c, "tuple")
  BY ONLY <1>3, GoodOrBad, MatchesOwn
<1>9. Matches(<<"ops", ops.v>>, c, "ops")
  <2>1. FieldOf(c, "ops") = Field["ops"]
    BY ONLY c.method = "upsert" DEF FieldOf
  <2> QED BY ONLY <1>3, <2>1 DEF Matches
<1> QED BY ONLY <1>2, <1>6, <1>7, <1>8, <1>9 DEF Aligned

\* call and eval, which refuse nothing.
LEMMA RunAligned ==
    ASSUME NEW c, c \in Calls, c.method \in {"call", "eval"} PROVE Aligned(c)
<1> DEFINE field == IF c.method = "call" THEN "function" ELSE "expression"
           proc == c.proc
           key == PackKey(c.args, TRUE)
           fields == <<<<field, proc>>, <<"tuple", key>>>>
<1>1. RequestOf(c) = Request("no", fields)
  <2>1. RequestOf(c) = RunRequest(c, field)
    BY ONLY c.method \in {"call", "eval"}, RequestIs
  <2>2. RunRequest(c, field) = Request("no", fields)
    BY ONLY Zenon DEF RunRequest
  <2> QED BY ONLY <2>1, <2>2
<1>2. ParametersOf(c) = {"proc", "args"}
  BY ParametersAre
<1>3. ArgOf(c, "proc") = Good(proc) /\ ArgOf(c, "args") = Good(key)
  BY ONLY ArgsAre
<1>4. FieldOf(c, "proc") = Field[field] /\ FieldOf(c, "args") = Field["tuple"]
  BY ONLY TRUE DEF FieldOf
<1> HIDE DEF field, proc, key
<1>5. IsGood(RequestOf(c))
  BY ONLY <1>1, RequestHas
<1>6. AllGood(c)
  BY ONLY <1>2, <1>3, GoodOrBad DEF AllGood
<1>7. ToSet(RequestOf(c).fields) = {<<field, proc>>, <<"tuple", key>>}
  <2>1. RequestOf(c).fields = fields
    BY ONLY <1>1, RequestHas
  <2> QED BY ONLY <2>1, ToSets
<1>8. Matches(<<field, proc>>, c, "proc") /\ Matches(<<"tuple", key>>, c, "args")
  BY ONLY <1>3, <1>4, GoodOrBad DEF Matches
<1> QED BY ONLY <1>2, <1>5, <1>6, <1>7, <1>8 DEF Aligned

\* And so for every call.
LEMMA AllAligned == \A c \in Calls : Aligned(c)
BY CallOf, Methods, PingAligned, SelectAligned, StoreAligned, DeleteAligned, UpdateAligned,
   UpsertAligned, RunAligned

\* A call that has a request asks for what it means, and one that has none for
\* nothing.
LEMMA AskedMeant ==
    ASSUME NumbersFit, NoneMistaken, NEW c, c \in Calls
    PROVE  /\ c \in Sendable => Meaning[c] = Asked(c) /\ Meaning[c] # None
           /\ c \notin Sendable => Meaning[c] = None
<1> DEFINE ps == ParametersOf(c)
           fs == ToSet(RequestOf(c).fields)
           a(f) == <<Long(Field[f[1]]), TreeOf(f[2])>>
           m(p) == <<Long(FieldOf(c, p)), ParameterMeant(c, p)>>
<1>1. Meaning[c] = IF \E p \in ps : ParameterMeant(c, p) = None THEN None
                   ELSE [type |-> RequestType[c.method], fields |-> {m(p) : p \in ps}]
  <2>1. Meaning[c] = Meant(c)
    <3>1. c \notin Own
      BY ONLY c \in Calls, CallOf, Methods, OwnIs
    <3> QED BY ONLY c \in Calls, <3>1, Zenon DEF Meaning
  <2>2. Meant(c) = IF \E p \in ps : ParameterMeant(c, p) = None THEN None
                   ELSE [type |-> RequestType[c.method], fields |-> {m(p) : p \in ps}]
    BY ONLY Zenon DEF Meant, ParametersOf
  <2> QED BY ONLY <2>1, <2>2
<1>2. Aligned(c)
  BY AllAligned
<1>3. \A p \in ps : Renders(ArgOf(c, p), ParameterMeant(c, p))
  BY ArgRenders
<1>4. c \in Sendable <=> \A p \in ps : ParameterMeant(c, p) # None
  <2>1. c \in Sendable <=> AllGood(c)
    BY <1>2 DEF Sendable, Aligned
  <2> HIDE DEF fs
  <2> QED BY ONLY <1>3, <2>1 DEF Renders, AllGood
<1>5. ASSUME c \in Sendable PROVE {m(p) : p \in ps} = {a(f) : f \in fs}
  <2>1. \A f \in fs : f[2] \in Values /\ TreeOf(f[2]) = Means[f[2]]
    <3>1. \A f \in fs : f[2] \in Values
      BY <1>5, CallOf DEF Sendable, IsCall
    <3>2. \A f \in fs : NotMistaken[f[2]]
      BY <1>5 DEF Sendable, NoneMistaken
    <3> QED BY ONLY <3>1, <3>2, AllPacked DEF Packed, IsTree
  <2>2. \A p \in ps : IsGood(ArgOf(c, p))
    BY <1>2, <1>5 DEF Sendable, Aligned, AllGood
  <2>3. ASSUME NEW f \in fs, NEW p \in ps, Matches(f, c, p) PROVE a(f) = m(p)
    <3>1. Field[f[1]] = FieldOf(c, p) /\ f[2] = ArgOf(c, p).v
      BY ONLY <2>3 DEF Matches
    <3>2. ArgOf(c, p).v \in Values => Means[ArgOf(c, p).v] = ParameterMeant(c, p)
      BY ONLY <1>3, <2>2, <2>3 DEF Renders
    <3>3. TreeOf(f[2]) = ParameterMeant(c, p)
      BY ONLY <2>1, <2>3, <3>1, <3>2
    <3> QED BY ONLY <3>1, <3>3
  <2>4. \A f \in fs : \E p \in ps : Matches(f, c, p)
    BY ONLY <1>2 DEF Aligned
  <2>5. \A p \in ps : \E f \in fs : Matches(f, c, p)
    BY ONLY <1>2 DEF Aligned
  <2> HIDE DEF ps, fs, a, m
  <2> QED BY ONLY <2>3, <2>4, <2>5
<1>6. Asked(c) = [type |-> RequestType[c.method], fields |-> {a(f) : f \in fs}]
  BY ONLY TRUE DEF Asked, TypeOf
<1>7. Asked(c) # None
  <2>1. DOMAIN Asked(c) = {"type", "fields"}
    BY <1>6
  <2>2. DOMAIN None = {"none"}
    BY DEF None
  <2> QED BY ONLY <2>1, <2>2
<1> HIDE DEF ps, fs, a, m
<1>8. ASSUME c \in Sendable PROVE Meaning[c] = Asked(c)
  <2>1. ~\E p \in ps : ParameterMeant(c, p) = None
    BY ONLY <1>4, <1>8
  <2>2. Meaning[c] = [type |-> RequestType[c.method], fields |-> {m(p) : p \in ps}]
    BY ONLY <1>1, <2>1
  <2>3. {m(p) : p \in ps} = {a(f) : f \in fs}
    BY ONLY <1>5, <1>8
  <2> QED BY ONLY <1>6, <2>2, <2>3
<1>9. ASSUME c \notin Sendable PROVE Meaning[c] = None
  <2>1. \E p \in ps : ParameterMeant(c, p) = None
    BY ONLY <1>4, <1>9
  <2> QED BY ONLY <1>1, <2>1
<1> QED BY ONLY <1>7, <1>8, <1>9

\* A request of the extension's own asks for what its fields say.
LEMMA OwnAskedMeant ==
    ASSUME NoneMistaken, NEW q, q \in Own
    PROVE  Meaning[q] = Asked(q) /\ Meaning[q] # None
<1> DEFINE fs == ToSet(q.fields)
           a(f) == <<Long(Field[f[1]]), TreeOf(f[2])>>
           m(f) == <<Long(Field[f[1]]), Means[f[2]]>>
<1>1. Meaning[q] = [type |-> RequestType[q.method], fields |-> {m(f) : f \in fs}]
  <2>1. Meaning[q] = OwnMeant(q)
    BY ONLY q \in Own, Zenon DEF Meaning
  <2> QED BY ONLY <2>1, Zenon DEF OwnMeant
<1>2. Asked(q) = [type |-> RequestType[q.method], fields |-> {a(f) : f \in fs}]
  <2>1. RequestOf(q).fields = q.fields
    BY ONLY q \in Own, OwnIs DEF Request
  <2> QED BY ONLY <2>1 DEF Asked, TypeOf
<1>3. \A f \in fs : TreeOf(f[2]) = Means[f[2]]
  <2>1. \A f \in fs : f[2] \in Values
    BY ONLY q \in Own, OwnIs
  <2>2. \A f \in fs : NotMistaken[f[2]]
    BY ONLY q \in Own, NoneMistaken DEF NoneMistaken
  <2> QED BY ONLY <2>1, <2>2, AllPacked DEF Packed, IsTree
<1>4. {m(f) : f \in fs} = {a(f) : f \in fs}
  <2> HIDE DEF fs
  <2> QED BY ONLY <1>3
<1> HIDE DEF fs, a, m
<1>5. Asked(q) # None
  <2>1. DOMAIN Asked(q) = {"type", "fields"}
    BY ONLY <1>2
  <2>2. DOMAIN None = {"none"}
    BY DEF None
  <2> QED BY ONLY <2>1, <2>2
<1>6. Meaning[q] = Asked(q)
  BY ONLY <1>1, <1>2, <1>4
<1> QED BY ONLY <1>5, <1>6

-----------------------------------------------------------------------------
(* What the methods write implements the messages.                         *)

\* Something has arrived where something has been understood.
LEMMA ArrivedOrNot == Inv => (arrived = <<>> <=> received = <<>>)
<1> SUFFICES ASSUME Inv PROVE arrived = <<>> <=> received = <<>>
  OBVIOUS
<1>1. Arrival(arrived, received)
  BY DEF Inv
<1>2. CASE arrived = <<>>
  BY ONLY <1>1, <1>2 DEF Arrival
<1>3. CASE arrived # <<>>
  <2>1. PICK calls : calls # <<>> /\ Carries(arrived, calls)
    BY ONLY <1>1, <1>3 DEF Arrival
  <2>2. received = [i \in 1..Len(calls) |-> Asked(calls[i])]
    BY ONLY <1>1, <1>3, <2>1, CarriesUnderstood DEF Arrival, IsUnderstood
  <2>3. calls \in Seq(Asking)
    BY ONLY <2>1 DEF Carries
  <2>4. 1 \in DOMAIN received
    <3>1. Len(calls) \in Nat /\ Len(calls) # 0
      BY ONLY <2>1, <2>3
    <3> QED BY ONLY <2>2, <3>1
  <2>5. received # <<>>
    BY ONLY <2>4
  <2> QED BY <1>3, <2>5
<1> QED BY <1>2, <1>3

\* What waits of the requests is what waits of the messages.
LEMMA WaitingMessages ==
    ASSUME NEW waits, waits \in Waiting
    PROVE  waits.calls \in Messages!Before
<1>1. CASE waits = [items |-> buffer, calls |-> unsent]
  <2>1. waits.calls = unsent
    BY ONLY <1>1
  <2> QED BY ONLY <2>1 DEF Messages!Before
<1>2. CASE waits = [items |-> <<>>, calls |-> <<>>]
  <2>1. waits.calls = <<>>
    BY ONLY <1>2
  <2> QED BY ONLY <2>1 DEF Messages!Before
<1> QED BY ONLY waits \in Waiting, <1>1, <1>2 DEF Waiting

\* The initial states map to the initial state.
LEMMA InitImplements == Init => Messages!Init
<1> SUFFICES ASSUME Init PROVE Messages!Init
  OBVIOUS
<1>1. result.raised # ByNetwork
  BY ONLY Init, ResultsProper DEF Init, Told
<1> QED BY ONLY Init, <1>1 DEF Init, Messages!Init, Unreached

\* An answer is an answer.
LEMMA AnsweredImplements == Inv /\ Answered => Messages!Answered
<1> SUFFICES ASSUME Inv, Answered PROVE Messages!Answered
  OBVIOUS
<1>1. arrived # <<>> /\ received' = <<>> /\ UNCHANGED <<call, unsent>>
  BY DEF Answered
<1>2. received # <<>>
  BY ONLY Inv, <1>1, ArrivedOrNot
<1>3. Told(result')
  <2>1. PICK a \in Answers[call] :
          LET outcome == Recv(Wire(a, sync % Word), sync)
          IN  result' = IF "failure" \in DOMAIN outcome THEN outcome.failure
                        ELSE IF call.method = "ping" THEN Returned(Bool(TRUE))
                        ELSE ReturnData(outcome.body)
    BY DEF Answered
  <2> DEFINE outcome == Recv(Wire(a, sync % Word), sync)
  <2>2. "failure" \in DOMAIN outcome => Told(outcome.failure)
    BY RecvProper
  <2>3. \A body : Told(ReturnData(body))
    BY ResultsProper DEF ReturnData
  <2>4. result' = IF "failure" \in DOMAIN outcome THEN outcome.failure
                  ELSE IF call.method = "ping" THEN Returned(Bool(TRUE))
                  ELSE ReturnData(outcome.body)
    BY <2>1
  <2> HIDE DEF outcome
  <2> QED BY ONLY <2>2, <2>3, <2>4, ResultsProper
<1>4. Unreached' = FALSE
  BY ONLY <1>3 DEF Told, Unreached
<1> QED BY ONLY <1>1, <1>2, <1>4 DEF Messages!Answered

\* A call is refused that means nothing.
LEMMA RefusesImplements ==
    ASSUME NumbersFit, NoneMistaken, Inv, NEW c, c \in Calls, Refuses(c, RequestOf(c).err)
    PROVE  Messages!Refused(c)
<1>1. /\ arrived = <<>> /\ call' = c /\ RequestOf(c).err # "no"
      /\ \E waits \in Waiting : unsent' = waits.calls
      /\ received' = received /\ result' = FailedWith(RequestOf(c).err)
  BY DEF Refuses, Asks, Keeps
<1>2. Meaning[c] = None
  <2>1. c \notin Sendable
    BY ONLY <1>1 DEF Sendable, IsGood
  <2> QED BY ONLY NumbersFit, NoneMistaken, c \in Calls, <2>1, AskedMeant
<1>3. received = <<>>
  BY ONLY Inv, <1>1, ArrivedOrNot
<1>4. unsent' \in Messages!Before
  BY ONLY <1>1, WaitingMessages
<1>5. Unreached' = FALSE
  BY ONLY <1>1, ResultsProper DEF Told, Unreached
<1> QED BY ONLY <1>1, <1>2, <1>3, <1>4, <1>5 DEF Messages!Refused, Messages!Asks

\* A request that is written, or left in the buffer, is a message that is sent,
\* or waits.
LEMMA SendsImplements ==
    ASSUME NumbersFit, NoneMistaken, Inv, NEW c, c \in Sendable, NEW s, s \in Syncs,
           Sends(c, s, PackageOf(c, s))
    PROVE  Messages!Sent(c) \/ Messages!NotSent(c)
<1>1. arrived = <<>> /\ call' = c /\ c \in Calls
  BY DEF Sends, Asks
<1>2. received = <<>>
  BY ONLY Inv, <1>1, ArrivedOrNot
<1>3. Meaning[c] # None
  BY ONLY NumbersFit, NoneMistaken, c \in Sendable, <1>1, AskedMeant
<1>4. PICK waits \in Waiting :
        Writes(waits.items \o PackageOf(c, s), Append(waits.calls, c))
  BY DEF Sends
<1> DEFINE before == waits.calls
           items == waits.items \o PackageOf(c, s)
           calls == Append(before, c)
<1>5. before \in Messages!Before
  BY ONLY <1>4, WaitingMessages
<1>12. c \in Asking /\ s \in Nat
  BY ONLY c \in Sendable, s \in Syncs, SyncsAre DEF Asking
<1>6. before \in Seq(Asking)
  BY ONLY Inv, <1>4, WaitingCarries DEF Carries
<1>7. Carries(items, calls)
  BY ONLY Inv, <1>4, <1>12, WaitingCarries, CarriesMore
<1>8. calls \in Seq(Asking) /\ Len(calls) = Len(before) + 1 /\ Len(before) \in Nat
  BY ONLY <1>6, <1>12
<1>9. Writes(items, calls)
  BY <1>4
<1> HIDE DEF before, items
<1>10. CASE received' = Understood(items) /\ unsent' = <<>> /\ result' = result
  <2> DEFINE n == Len(before) + 1
  <2>1. Understood(items) = [i \in 1..n |-> Asked(calls[i])]
    <3>1. Understood(items) = [i \in 1..Len(calls) |-> Asked(calls[i])]
      BY ONLY <1>7, CarriesUnderstood DEF IsUnderstood
    <3>2. n = Len(calls)
      BY ONLY <1>8
    <3> HIDE DEF n, calls
    <3> QED BY ONLY <3>1, <3>2
  <2>2. \A i \in 1..n : Asked(calls[i]) = Meaning[calls[i]]
    <3>1. \A i \in 1..n : calls[i] \in Asking
      <4> HIDE DEF calls
      <4> QED BY ONLY <1>8
    <3>2. \A d \in Asking : Asked(d) = Meaning[d]
      BY ONLY NumbersFit, NoneMistaken, AskedMeant, OwnAskedMeant DEF Sendable, Asking
    <3> HIDE DEF n, calls
    <3> QED BY ONLY <3>1, <3>2
  <2> HIDE DEF n
  <2>3. received' = [i \in 1..n |-> Meaning[calls[i]]]
    BY ONLY <1>10, <2>1, <2>2
  <2>4. received' = [i \in 1..Len(before) + 1 |-> Meaning[Append(before, c)[i]]]
    BY ONLY <2>3 DEF n
  <2>5. UNCHANGED Unreached
    BY ONLY <1>10 DEF Unreached
  <2> QED BY ONLY <1>1, <1>2, <1>3, <1>5, <1>10, <2>4, <2>5 DEF Messages!Sent, Messages!Asks
<1>11. CASE /\ Len(calls) <= MaxWaiting /\ unsent' = calls /\ UNCHANGED received
            /\ result' = FailedWith("silent")
  <2>1. Len(before) < MaxWaiting
    BY ONLY <1>8, <1>11, BoundsAssumption
  <2>2. unsent' = Append(before, c)
    BY ONLY <1>11
  <2>3. Unreached' = FALSE
    BY ONLY <1>11, ResultsProper DEF Told, Unreached
  <2> QED BY ONLY <1>1, <1>2, <1>3, <1>5, <1>11, <2>1, <2>2, <2>3
      DEF Messages!NotSent, Messages!Asks
<1> QED BY ONLY <1>9, <1>10, <1>11 DEF Writes

\* The batches of a call, and those of the methods that only connect.
LEMMA BatchesAre ==
    /\ AuthMessages \subseteq Batches[None]
    /\ \A c \in Calls : AuthMessages \cup {<<q>> : q \in Lookups(c)} \subseteq Batches[c]
<1>1. \A c \in Calls : c # None
  <2>1. \A c \in Calls : "method" \in DOMAIN c
    BY ONLY CallOf, Zenon DEF IsCall
  <2>2. "method" \notin DOMAIN None
    BY DEF None
  <2> QED BY ONLY <2>1, <2>2
<1>2. \A c \in Calls \cup {None} :
        Batches[c] = AuthMessages \cup (IF c = None THEN {} ELSE {<<q>> : q \in Lookups(c)})
  BY ONLY Zenon DEF Batches
<1> QED BY ONLY <1>1, <1>2

\* A call that gives up is one that has not come to its own request.
LEMMA GivesUpImplements ==
    ASSUME Inv, NEW c, c \in Calls, GivesUp(c)
    PROVE  Messages!GivenUp(c)
<1>1. arrived = <<>> /\ call' = c /\ received' = received
  BY DEF GivesUp, Asks
<1>2. received = <<>>
  BY ONLY Inv, <1>1, ArrivedOrNot
<1>3. CASE (\E waits \in Waiting : Keeps(waits)) /\ result' = Raised(ByNetwork)
  <2>1. unsent' \in Messages!Before
    BY ONLY <1>3, WaitingMessages DEF Keeps
  <2>2. Unreached' = TRUE
    BY ONLY <1>3 DEF Unreached, Raised
  <2> QED BY ONLY <1>1, <1>2, <2>1, <2>2 DEF Messages!GivenUp, Messages!Asks
<1>4. CASE /\ \E s \in Syncs : \E batch \in AuthBatches(s) \cup LookupBatches(c, s) :
                Len(batch.calls) <= MaxWaiting /\ Keeps(batch)
           /\ result' = FailedWith("silent")
  <2>1. PICK s \in Syncs : \E batch \in AuthBatches(s) \cup LookupBatches(c, s) : Keeps(batch)
    BY ONLY <1>4
  <2>2. PICK batch \in AuthBatches(s) \cup LookupBatches(c, s) : Keeps(batch)
    BY ONLY <2>1
  <2>3. s \in Nat
    BY ONLY SyncsAre
  <2>4. batch.calls \in AuthMessages \cup {<<q>> : q \in Lookups(c)}
    BY ONLY c \in Calls, <2>2, <2>3, AuthCarries, LookupCarries
  <2>5. unsent' \in Batches[c]
    BY ONLY c \in Calls, <2>2, <2>4, BatchesAre DEF Keeps
  <2>6. Unreached' = FALSE
    BY ONLY <1>4, ResultsProper DEF Told, Unreached
  <2> QED BY ONLY <1>1, <1>2, <2>5, <2>6 DEF Messages!GivenUp, Messages!Asks
<1> QED BY ONLY GivesUp(c), <1>3, <1>4 DEF GivesUp

\* So is a method that connects, which has none.
LEMMA ConnectsImplements ==
    ASSUME Inv, Connects
    PROVE  Messages!Connected
<1>1. arrived = <<>> /\ call' = None /\ received' = received
  BY DEF Connects
<1>2. received = <<>>
  BY ONLY Inv, <1>1, ArrivedOrNot
<1>3. unsent' \in Messages!Before \cup Batches[None]
  <2>1. CASE \E waits \in Waiting : Keeps(waits)
    BY ONLY <2>1, WaitingMessages DEF Keeps
  <2>2. CASE \E s \in Syncs : \E batch \in AuthBatches(s) :
                Len(batch.calls) <= MaxWaiting /\ Keeps(batch)
    <3>1. PICK s \in Syncs : \E batch \in AuthBatches(s) : Keeps(batch)
      BY ONLY <2>2
    <3>2. PICK batch \in AuthBatches(s) : Keeps(batch)
      BY ONLY <3>1
    <3>3. s \in Nat
      BY ONLY SyncsAre
    <3>4. batch.calls \in AuthMessages
      BY ONLY <3>2, <3>3, AuthCarries
    <3> QED BY ONLY <3>2, <3>4, BatchesAre DEF Keeps
  <2> QED BY ONLY Connects, <2>1, <2>2 DEF Connects
<1>4. Unreached' \in BOOLEAN
  BY DEF Unreached
<1> QED BY ONLY <1>1, <1>2, <1>3, <1>4 DEF Messages!Connected, Messages!Asks

\* Every step is one of the messages, or none of them.
LEMMA StepImplements ==
    ASSUME NumbersFit, NoneMistaken, Inv, [Next]_vars
    PROVE  [Messages!Next]_(Messages!messageVars)
<1>1. CASE UNCHANGED vars
  BY ONLY <1>1 DEF vars, Messages!messageVars, Unreached
<1>2. CASE Answered
  BY ONLY Inv, <1>2, AnsweredImplements DEF Messages!Next
<1>3. ASSUME NEW c \in Calls, Refuses(c, RequestOf(c).err) PROVE Messages!Next
  BY ONLY NumbersFit, NoneMistaken, Inv, <1>3, RefusesImplements DEF Messages!Next
<1>4. ASSUME NEW c \in Sendable, NEW s \in Syncs, Sends(c, s, PackageOf(c, s))
      PROVE  Messages!Next
  <2>1. c \in Calls
    BY DEF Sendable
  <2> QED BY ONLY NumbersFit, NoneMistaken, Inv, <1>4, <2>1, SendsImplements DEF Messages!Next
<1>5. CASE Connects
  BY ONLY Inv, <1>5, ConnectsImplements DEF Messages!Next
<1>6. ASSUME NEW c \in Calls, GivesUp(c) PROVE Messages!Next
  BY ONLY Inv, <1>6, GivesUpImplements DEF Messages!Next
<1> QED BY ONLY [Next]_vars, StepOf, <1>1, <1>2, <1>3, <1>4, <1>5, <1>6 DEF Step

\* What the server reads, of every write that gets through, is what the calls
\* ask for, in the order they were made, however many of them had to wait, behind
\* at most the lookup or the authentication that could not be written before them;
\* what asks for nothing is refused before its request is written; and what waits
\* is written again whole or, if a call authenticates or looks a name up, lost
\* whole (bee.c, bee_proto.c, bee_msgpack.c, tp.h).  This is so for calls whose
\* numbers fit in those of a request, and whose arrays php_mp_is_hash and PHP take
\* for the same: MCBeeRequests shows that the calls it checks are such calls.
THEOREM Implements == NumbersFit /\ NoneMistaken => (Spec => IsMessages)
<1> SUFFICES ASSUME NumbersFit, NoneMistaken PROVE Spec => IsMessages
  OBVIOUS
<1>1. Inv /\ [Next]_vars => [Messages!Next]_(Messages!messageVars)
  BY StepImplements
<1> QED BY InitImplements, InvInvariant, <1>1, PTL DEF Spec, IsMessages, Messages!Spec
===============================================================================
