----------------------------- MODULE BeeRecursion -----------------------------
(***************************************************************************)
(* Recursive functions are there: a definition f[x \in S] == def(p, x, f)  *)
(* has a function, if it only asks f for what is of lower rank.            *)
(***************************************************************************)
EXTENDS Integers, WellFoundedInduction, TLAPS

CONSTANT
    def(_, _, _)    \* what the function has at a place, by what it has below;
                    \* the first argument is what else the definition reads

\* Induction over the numbers from 0.
LEMMA NatSet ==
    ASSUME NEW S \in SUBSET Nat, 0 \in S, \A n \in S : n + 1 \in S
    PROVE  S = Nat
<1> DEFINE R == OpToRel(<, Nat)
<1>1. IsWellFoundedOn(R, Nat)
  BY NatLessThanWellFounded
<1>2. \A a, b \in Nat : a < b => <<a, b>> \in R
  <2> SUFFICES ASSUME NEW a \in Nat, NEW b \in Nat, a < b PROVE <<a, b>> \in R
    OBVIOUS
  <2>1. <<a, b>> \in Nat \X Nat /\ <<a, b>>[1] = a /\ <<a, b>>[2] = b
    OBVIOUS
  <2> QED BY <2>1, Zenon DEF OpToRel
<1> HIDE DEF R
<1> SUFFICES ASSUME Nat \ S # {} PROVE FALSE
  OBVIOUS
<1>3. PICK x \in Nat \ S : \A y \in Nat \ S : ~ (<<y, x>> \in R)
  BY <1>1, WFMin
<1>4. x # 0 /\ x - 1 \in Nat /\ x - 1 < x
  OBVIOUS
<1>5. x - 1 \in S
  BY <1>2, <1>3, <1>4
<1>6. (x - 1) + 1 = x
  OBVIOUS
<1> QED BY <1>5, <1>6

\* Induction from 0 up to a number.
LEMMA Upwards ==
    ASSUME NEW n \in Nat, NEW S, 0 \in S, \A k \in 1..n : k - 1 \in S => k \in S
    PROVE  \A k \in 0..n : k \in S
<1> DEFINE Ns == {k \in Nat : k <= n => k \in S}
<1>1. 0 \in Ns
  OBVIOUS
<1>2. ASSUME NEW k \in Ns PROVE k + 1 \in Ns
  <2>1. k \in Nat /\ (k + 1) - 1 = k
    OBVIOUS
  <2>2. k + 1 <= n => k + 1 \in 1..n /\ k \in S
    BY <2>1
  <2>3. k + 1 <= n => k + 1 \in S
    BY <2>1, <2>2
  <2> QED BY <2>1, <2>3
<1>3. Ns = Nat
  <2>1. Ns \in SUBSET Nat
    OBVIOUS
  <2> HIDE DEF Ns
  <2> QED BY <1>1, <1>2, <2>1, NatSet
<1> QED BY <1>3

\* And from a number down to 0.
LEMMA Downwards ==
    ASSUME NEW n \in Nat, NEW S, n \in S, \A k \in 1..n : k \in S => k - 1 \in S
    PROVE  \A k \in 0..n : k \in S
<1> DEFINE D == {k \in 0..n : n - k \in S}
<1>1. 0 \in D
  OBVIOUS
<1>2. ASSUME NEW k \in 1..n, k - 1 \in D PROVE k \in D
  <2>1. n - (k - 1) \in 1..n /\ n - (k - 1) \in S /\ (n - (k - 1)) - 1 = n - k
    BY <1>2
  <2>2. n - k \in S
    BY <2>1
  <2> QED BY <2>2
<1> HIDE DEF D
<1>3. \A k \in 0..n : k \in D
  BY <1>1, <1>2, Upwards
<1>4. ASSUME NEW k \in 0..n PROVE k \in S
  <2>1. n - k \in 0..n /\ n - (n - k) = k
    OBVIOUS
  <2>2. n - k \in D
    BY <1>3, <2>1
  <2> QED BY <2>1, <2>2 DEF D
<1> QED BY <1>4

\* A set of numbers has a least.
LEMMA Least ==
    ASSUME NEW S \in SUBSET Nat, S # {}
    PROVE  \E x \in S : \A y \in S : x <= y
<1> SUFFICES ASSUME \A x \in S : \E y \in S : y < x PROVE FALSE
  OBVIOUS
<1> DEFINE Ns == {n \in Nat : \A y \in S : n < y}
<1>1. 0 \in Ns
  <2>1. ASSUME NEW y \in S PROVE 0 < y
    <3>1. PICK z \in S : z < y
      OBVIOUS
    <3> QED BY <3>1
  <2> QED BY <2>1
<1>2. ASSUME NEW n \in Ns PROVE n + 1 \in Ns
  <2>1. ASSUME NEW y \in S PROVE n + 1 < y
    <3>1. PICK z \in S : z < y
      OBVIOUS
    <3>2. n \in Nat /\ n < z
      OBVIOUS
    <3> QED BY <3>1, <3>2
  <2> QED BY <2>1
<1>3. Ns = Nat
  <2>1. Ns \in SUBSET Nat
    OBVIOUS
  <2> HIDE DEF Ns
  <2> QED BY <1>1, <1>2, <2>1, NatSet
<1>4. PICK x \in S : TRUE
  OBVIOUS
<1>5. x \in Ns
  BY <1>3
<1> QED BY <1>4, <1>5

\* What the function has below a rank, whatever it has above.
Upto(p, S, rank, n, f) == \A x \in S : rank[x] < n => f[x] = def(p, x, f)
Local(p, S, rank) ==
    \A x \in S : \A g, h :
        (\A y \in S : rank[y] < rank[x] => g[y] = h[y]) => def(p, x, g) = def(p, x, h)

\* There is such a function below every rank.
LEMMA Approximations ==
    ASSUME NEW p, NEW S, NEW rank \in [S -> Nat], Local(p, S, rank)
    PROVE  \A n \in Nat : \E f : Upto(p, S, rank, n, f)
<1> DEFINE Ns == {n \in Nat : \E f : Upto(p, S, rank, n, f)}
<1>1. 0 \in Ns
  <2>1. Upto(p, S, rank, 0, S)
    BY DEF Upto
  <2> QED BY <2>1
<1>2. ASSUME NEW n \in Ns PROVE n + 1 \in Ns
  <2>1. PICK f : Upto(p, S, rank, n, f)
    OBVIOUS
  <2> DEFINE g == [x \in S |-> IF rank[x] < n THEN f[x] ELSE def(p, x, f)]
  <2>2. ASSUME NEW x \in S, rank[x] < n + 1 PROVE g[x] = def(p, x, g)
    <3>1. g[x] = def(p, x, f)
      BY <2>1 DEF Upto
    <3>2. \A y \in S : rank[y] < rank[x] => g[y] = f[y]
      <4>1. n \in Nat /\ \A y \in S : rank[y] \in Nat
        OBVIOUS
      <4> QED BY <2>2, <4>1
    <3> HIDE DEF g
    <3>3. def(p, x, g) = def(p, x, f)
      BY <3>2 DEF Local
    <3> QED BY <3>1, <3>3
  <2> HIDE DEF g
  <2>3. Upto(p, S, rank, n + 1, g)
    BY <2>2 DEF Upto
  <2>4. \E h : Upto(p, S, rank, n + 1, h)
    BY <2>3
  <2> QED BY <2>4
<1>3. Ns = Nat
  <2> HIDE DEF Ns
  <2>1. Ns \in SUBSET Nat
    BY DEF Ns
  <2> QED BY <1>1, <1>2, <2>1, NatSet
<1> QED BY <1>3

\* Two of them agree as far as both go.
LEMMA Agree ==
    ASSUME NEW p, NEW S, NEW rank \in [S -> Nat], Local(p, S, rank), NEW g, NEW h,
           NEW k \in Nat, NEW m \in Nat, Upto(p, S, rank, k, g), Upto(p, S, rank, m, h)
    PROVE  \A x \in S : rank[x] < k /\ rank[x] < m => g[x] = h[x]
<1> DEFINE Same(n) == \A x \in S : rank[x] < n /\ rank[x] < k /\ rank[x] < m => g[x] = h[x]
           Ns == {n \in Nat : Same(n)}
<1>1. 0 \in Ns
  OBVIOUS
<1>2. ASSUME NEW n \in Ns PROVE n + 1 \in Ns
  <2>1. ASSUME NEW x \in S, rank[x] < n + 1, rank[x] < k, rank[x] < m PROVE g[x] = h[x]
    <3>1. n \in Nat /\ \A y \in S : rank[y] \in Nat
      OBVIOUS
    <3>2. \A y \in S : rank[y] < rank[x] => g[y] = h[y]
      BY <2>1, <3>1
    <3>3. def(p, x, g) = def(p, x, h)
      BY <3>2 DEF Local
    <3> QED BY <2>1, <3>3 DEF Upto
  <2> QED BY <2>1
<1>3. Ns = Nat
  <2> HIDE DEF Same
  <2> QED BY <1>1, <1>2, NatSet
<1>4. ASSUME NEW x \in S, rank[x] < k, rank[x] < m PROVE g[x] = h[x]
  <2>1. rank[x] + 1 \in Ns /\ rank[x] < rank[x] + 1
    BY <1>3
  <2> QED BY <1>4, <2>1
<1> QED BY <1>4

\* The function there is.
LEMMA Recursion ==
    ASSUME NEW p, NEW S, NEW rank \in [S -> Nat], Local(p, S, rank)
    PROVE  \E f : f = [x \in S |-> def(p, x, f)]
<1> DEFINE at(n) == CHOOSE f : Upto(p, S, rank, n, f)
<1>1. \A n \in Nat : Upto(p, S, rank, n, at(n))
  BY Approximations
<1> HIDE DEF at
<1> DEFINE f == [x \in S |-> at(rank[x] + 1)[x]]
<1>2. ASSUME NEW x \in S PROVE f[x] = def(p, x, f)
  <2>1. rank[x] \in Nat /\ rank[x] + 1 \in Nat /\ Upto(p, S, rank, rank[x] + 1, at(rank[x] + 1))
    BY <1>1
  <2>2. f[x] = def(p, x, at(rank[x] + 1))
    BY <2>1 DEF Upto
  <2>3. ASSUME NEW y \in S, rank[y] < rank[x] PROVE f[y] = at(rank[x] + 1)[y]
    <3>1. rank[y] + 1 \in Nat /\ rank[y] < rank[y] + 1 /\ rank[y] < rank[x] + 1
      BY <2>1, <2>3
    <3>2. Upto(p, S, rank, rank[y] + 1, at(rank[y] + 1))
      BY <1>1, <3>1
    <3> QED BY <2>1, <3>1, <3>2, Agree
  <2> HIDE DEF f
  <2>4. def(p, x, f) = def(p, x, at(rank[x] + 1))
    BY <2>3 DEF Local
  <2> QED BY <2>2, <2>4
<1>3. f = [x \in S |-> def(p, x, f)]
  <2>1. \A x \in S : f[x] = def(p, x, f)
    BY <1>2
  <2>2. f = [x \in S |-> f[x]]
    OBVIOUS
  <2> HIDE DEF f
  <2> QED BY <2>1, <2>2, Zenon
<1> QED BY <1>3
===============================================================================
