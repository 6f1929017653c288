--------------------------- MODULE DappRun_proofs ---------------------------
(***************************************************************************)
(* Proofs about the driver and its caches, for any files and call trees, any *)
(* list of numbers of transactions and any number of kills.                  *)
(***************************************************************************)
EXTENDS DappRun, FiniteSetTheorems, WellFoundedInduction, TLAPS

(***************************************************************************)
(* Induction over the natural numbers, for sets of numbers.                 *)
(***************************************************************************)
\* Every set of numbers that is not empty has a least element.
LEMMA NatMinimum ==
  ASSUME NEW T \in SUBSET Nat, T # {}
  PROVE  \E x \in T : \A y \in T : x <= y
  <1>1. IsWellFoundedOn({p \in Nat \X Nat : p[1] < p[2]}, Nat)
    BY NatLessThanWellFounded, Zenon DEF OpToRel
  <1>2. PICK x \in T : \A y \in T : ~ (<<y, x>> \in {p \in Nat \X Nat : p[1] < p[2]})
    BY <1>1, WFMin, Zenon
  <1>3. ASSUME NEW y \in T PROVE x <= y
    <2>1. x \in Nat /\ y \in Nat /\ <<y, x>> \in Nat \X Nat
      OBVIOUS
    <2>2. ~ (<<y, x>>[1] < <<y, x>>[2])
      BY <1>2, <2>1, Zenon
    <2> QED BY <2>1, <2>2
  <1> QED BY <1>3

\* A set of numbers that holds each number below which it holds all is Nat.
LEMMA StrongInduction ==
  ASSUME NEW T \in SUBSET Nat, \A n \in Nat : (\A m \in 0..(n - 1) : m \in T) => n \in T
  PROVE  T = Nat
  <1> SUFFICES ASSUME Nat \ T # {} PROVE FALSE
    OBVIOUS
  <1>1. PICK x \in Nat \ T : \A y \in Nat \ T : x <= y
    BY NatMinimum
  <1>2. \A m \in 0..(x - 1) : m \in T
    BY <1>1
  <1> QED BY <1>1, <1>2

LEMMA SetInduction ==
  ASSUME NEW T \in SUBSET Nat, 0 \in T, \A n \in T : n + 1 \in T
  PROVE  T = Nat
  <1>1. ASSUME NEW n \in Nat, \A m \in 0..(n - 1) : m \in T PROVE n \in T
    <2>1. CASE n = 0
      BY <2>1
    <2>2. CASE n # 0
      <3>1. n - 1 \in T /\ n - 1 + 1 = n
        BY <1>1, <2>2
      <3> QED BY <3>1
    <2> QED BY <2>1, <2>2
  <1> QED BY <1>1, StrongInduction

(***************************************************************************)
(* InOrder.                                                                 *)
(***************************************************************************)
StrictOrder(S, R) ==
    /\ \A x \in S : <<x, x>> \notin R
    /\ \A x, y, z \in S : <<x, y>> \in R /\ <<y, z>> \in R => <<x, z>> \in R
    /\ \A x, y \in S : x # y => <<x, y>> \in R \/ <<y, x>> \in R

\* q has each element of S once, the earlier ones first.
Enumerates(q, S, R) ==
    /\ q \in Seq(S) /\ Len(q) = Cardinality(S) /\ DOMAIN q = 1..Cardinality(S)
    /\ \A x \in S : \E i \in DOMAIN q : q[i] = x
    /\ \A i, j \in DOMAIN q : i < j => <<q[i], q[j]>> \in R
    /\ \A i, j \in DOMAIN q : q[i] = q[j] => i = j

LEMMA InOrderEnumerates ==
  ASSUME NEW S, IsFiniteSet(S), NEW R, StrictOrder(S, R)
  PROVE  Enumerates(InOrder(S, R), S, R)
  <1> DEFINE Below(x) == {y \in S : <<y, x>> \in R}
             n == Cardinality(S)
             q == InOrder(S, R)
  <1>1. n \in Nat /\ IsFiniteSet(1..n) /\ Cardinality(1..n) = n
    BY FS_CardinalityType, FS_Interval
  <1>2. ASSUME NEW x \in S
        PROVE  /\ IsFiniteSet(Below(x)) /\ Cardinality(Below(x)) \in Nat
               /\ Cardinality(Below(x)) < n
    <2>1. Below(x) \in SUBSET S /\ x \notin Below(x)
      BY DEF StrictOrder
    <2>2. /\ IsFiniteSet(Below(x)) /\ Cardinality(Below(x)) <= n
          /\ Cardinality(S) = Cardinality(Below(x)) => S = Below(x)
      BY <2>1, FS_Subset
    <2>3. Cardinality(Below(x)) \in Nat
      BY <2>2, FS_CardinalityType
    <2> QED BY <1>1, <2>1, <2>2, <2>3
  <1>3. ASSUME NEW x \in S, NEW y \in S, <<x, y>> \in R
        PROVE  Cardinality(Below(x)) < Cardinality(Below(y))
    <2>1. Below(x) \in SUBSET Below(y) /\ x \in Below(y) /\ x \notin Below(x)
      BY <1>3 DEF StrictOrder
    <2>2. /\ Cardinality(Below(x)) <= Cardinality(Below(y))
          /\ Cardinality(Below(y)) = Cardinality(Below(x)) => Below(y) = Below(x)
      BY <1>2, <2>1, FS_Subset
    <2>3. Cardinality(Below(x)) \in Nat /\ Cardinality(Below(y)) \in Nat
      BY <1>2
    <2> QED BY <2>1, <2>2, <2>3
  <1> DEFINE below == [x \in S |-> Cardinality(Below(x))]
  <1>a. /\ \A x \in S : below[x] = Cardinality(Below(x))
        /\ below \in [S -> 0..(n - 1)]
        /\ \A x, y \in S : <<x, y>> \in R => below[x] < below[y]
    <2>1. \A x \in S : below[x] = Cardinality(Below(x))
      BY Zenon
    <2>2. \A x \in S : below[x] \in 0..(n - 1)
      <3> TAKE x \in S
      <3>1. below[x] \in Nat /\ below[x] < n
        BY <1>2, <2>1, Zenon
      <3> HIDE DEF below
      <3> QED BY <1>1, <3>1
    <2>3. \A x, y \in S : <<x, y>> \in R => below[x] < below[y]
      BY <1>3, <2>1, Zenon
    <2>4. below = [x \in S |-> below[x]]
      BY Zenon
    <2> HIDE DEF below
    <2> QED BY <2>1, <2>2, <2>3, <2>4
  <1>b. \A i \in 1..n : q[i] = CHOOSE x \in S : below[x] = i - 1
    <2>1. \A i \in 1..n : q[i] = CHOOSE x \in S : Cardinality(Below(x)) = i - 1
      BY Zenon DEF InOrder
    <2>2. \A x : x \in S => below[x] = Cardinality(Below(x))
      BY <1>a, Zenon
    <2> HIDE DEF below, Below, q
    <2> QED BY <2>1, <2>2
  <1>c. q = [i \in 1..n |-> q[i]]
    <2> DEFINE pick(i) == CHOOSE x \in S : Cardinality(Below(x)) = i - 1
    <2>1. q = [i \in 1..n |-> pick(i)]
      BY Zenon DEF InOrder
    <2> HIDE DEF pick, q, n, Below
    <2> QED BY <2>1
  <1> HIDE DEF below, Below, q, n
  <1>4. /\ \A x, y \in S : below[x] = below[y] => x = y
        /\ below \in Injection(S, 0..(n - 1))
    <2>1. \A x, y \in S : below[x] = below[y] => x = y
      <3> TAKE x, y \in S
      <3>1. below[x] \in Int /\ below[y] \in Int
        BY <1>1, <1>a
      <3>2. x # y => below[x] < below[y] \/ below[y] < below[x]
        BY <1>a, Zenon DEF StrictOrder
      <3> QED BY <3>1, <3>2
    <2> QED BY <1>a, <2>1, Zenon DEF Injection, IsInjective
  <1>5. below \in Surjection(S, 0..(n - 1))
    <2>1. IsFiniteSet(0..(n - 1)) /\ Cardinality(0..(n - 1)) = n
      <3>1. 0 \in Int /\ n - 1 \in Int /\ (IF 0 > n - 1 THEN 0 ELSE (n - 1) - 0 + 1) = n
        BY <1>1
      <3> QED BY <3>1, FS_Interval, Zenon
    <2> QED BY <1>4, <2>1, FS_Injection, Zenon DEF n
  <1>6. ASSUME NEW i \in 1..n
        PROVE  q[i] \in S /\ below[q[i]] = i - 1
    <2>1. i - 1 \in 0..(n - 1)
      BY <1>1
    <2>2. PICK x \in S : below[x] = i - 1
      BY <1>5, <2>1, Zenon DEF Surjection
    <2> QED BY <1>b, <2>2
  <1>7. DOMAIN q = 1..n /\ q \in Seq(S) /\ Len(q) = n
    BY <1>1, <1>6, <1>c
  <1>8. ASSUME NEW x \in S PROVE \E i \in DOMAIN q : q[i] = x
    <2> DEFINE i == below[x] + 1
    <2>1. i \in 1..n /\ i - 1 = below[x]
      BY <1>1, <1>a
    <2> HIDE DEF i
    <2>2. q[i] \in S /\ below[q[i]] = below[x]
      BY <1>6, <2>1
    <2> QED BY <1>4, <1>7, <2>1, <2>2
  <1>9. ASSUME NEW i \in DOMAIN q, NEW j \in DOMAIN q, i < j PROVE <<q[i], q[j]>> \in R
    <2>1. /\ q[i] \in S /\ q[j] \in S /\ below[q[i]] = i - 1 /\ below[q[j]] = j - 1
          /\ i \in Int /\ j \in Int
      BY <1>1, <1>6, <1>7
    <2>2. ~ (below[q[j]] < below[q[i]]) /\ q[i] # q[j]
      BY <1>9, <2>1
    <2> QED BY <1>a, <2>1, <2>2 DEF StrictOrder
  <1>10. ASSUME NEW i \in DOMAIN q, NEW j \in DOMAIN q, q[i] = q[j] PROVE i = j
    <2>1. i - 1 = below[q[i]] /\ j - 1 = below[q[j]] /\ i \in Int /\ j \in Int
      BY <1>1, <1>6, <1>7
    <2> QED BY <1>10, <2>1
  <1> QED BY <1>7, <1>8, <1>9, <1>10 DEF Enumerates, q, n

\* The same in the order of numbers.
LEMMA UpwardsEnumerates ==
  ASSUME NEW S \in SUBSET Nat, IsFiniteSet(S)
  PROVE  /\ Enumerates(Upwards(S), S, {p \in S \X S : p[1] < p[2]})
         /\ \A i, j \in DOMAIN Upwards(S) : i < j => Upwards(S)[i] < Upwards(S)[j]
  <1> DEFINE R == {p \in S \X S : p[1] < p[2]}
  <1>1. \A x, y \in S : <<x, y>> \in R <=> x < y
    OBVIOUS
  <1> HIDE DEF R
  <1>2. StrictOrder(S, R)
    <2>1. \A x, y, z \in S : ~(x < x) /\ (x < y /\ y < z => x < z) /\ (x # y => x < y \/ y < x)
      OBVIOUS
    <2> QED BY <1>1, <2>1, Zenon DEF StrictOrder
  <1>3. Enumerates(Upwards(S), S, R)
    BY <1>2, InOrderEnumerates, Zenon DEF Upwards, R
  <1>4. ASSUME NEW i \in DOMAIN Upwards(S), NEW j \in DOMAIN Upwards(S), i < j
        PROVE  Upwards(S)[i] < Upwards(S)[j]
    <2>1. Upwards(S)[i] \in S /\ Upwards(S)[j] \in S /\ <<Upwards(S)[i], Upwards(S)[j]>> \in R
      BY <1>3, <1>4 DEF Enumerates
    <2> QED BY <1>1, <2>1
  <1> QED BY <1>3, <1>4 DEF R

(***************************************************************************)
(* FlattenSeq.                                                              *)
(***************************************************************************)
Flattening(ss, n, f) == f = [i \in 1..n |-> IF i = 1 THEN ss[i] ELSE f[i - 1] \o ss[i]]

LEMMA FlatteningExists ==
  ASSUME NEW ss, NEW n \in Nat
  PROVE  \E f : Flattening(ss, n, f)
  <1> DEFINE T == {m \in Nat : \E f : Flattening(ss, m, f)}
  <1>1. 0 \in T
    <2> DEFINE f == [i \in 1..0 |-> <<>>]
    <2>1. f = [i \in 1..0 |-> IF i = 1 THEN ss[i] ELSE f[i - 1] \o ss[i]]
      OBVIOUS
    <2>2. Flattening(ss, 0, f)
      BY <2>1, Zenon DEF Flattening
    <2> QED BY <2>2
  <1>2. ASSUME NEW m \in T PROVE m + 1 \in T
    <2>1. PICK g : Flattening(ss, m, g)
      OBVIOUS
    <2> DEFINE Next1(h, i) == IF i = 1 THEN ss[i] ELSE h[i - 1] \o ss[i]
               f == [i \in 1..(m + 1) |-> IF i = m + 1 THEN Next1(g, i) ELSE g[i]]
    <2>2. \A i \in 1..m : g[i] = Next1(g, i)
      BY <2>1, Zenon DEF Flattening
    <2>3. \A i \in 1..(m + 1) : f[i] = Next1(f, i)
      <3> TAKE i \in 1..(m + 1)
      <3>1. i \in 1..m \/ i = m + 1
        OBVIOUS
      <3>2. f[i] = Next1(g, i)
        <4>1. i # m + 1 => i \in 1..m
          BY <3>1
        <4> QED BY <2>2, <4>1, Zenon
      <3>3. i # 1 => f[i - 1] = g[i - 1]
        <4>1. i # 1 => i - 1 \in 1..(m + 1) /\ i - 1 # m + 1
          OBVIOUS
        <4> HIDE DEF Next1
        <4> QED BY <4>1
      <3> HIDE DEF f
      <3> QED BY <3>2, <3>3, Zenon
    <2>4. f = [i \in 1..(m + 1) |-> f[i]]
      <3> DEFINE e(i) == IF i = m + 1 THEN Next1(g, i) ELSE g[i]
      <3>1. f = [i \in 1..(m + 1) |-> e(i)]
        BY Zenon
      <3> HIDE DEF e, f
      <3> QED BY <3>1
    <2>5. f = [i \in 1..(m + 1) |-> Next1(f, i)]
      <3> HIDE DEF f, Next1
      <3> QED BY <2>3, <2>4
    <2> HIDE DEF f
    <2>6. Flattening(ss, m + 1, f)
      BY <2>5, Zenon DEF Flattening
    <2> QED BY <2>6
  <1> HIDE DEF T
  <1>3. T = Nat
    <2>1. T \in SUBSET Nat
      BY DEF T
    <2> QED BY <1>1, <1>2, <2>1, SetInduction
  <1> QED BY <1>3 DEF T

\* F is made of the elements of the first n sequences of ss: row and col tell which is where.
Spreads(F, ss, n, row, col) ==
    /\ row \in [DOMAIN F -> 1..n] /\ col \in [DOMAIN F -> Nat]
    /\ \A p \in DOMAIN F : col[p] \in DOMAIN ss[row[p]] /\ F[p] = ss[row[p]][col[p]]
    /\ \A p, q \in DOMAIN F : row[p] = row[q] /\ col[p] = col[q] => p = q
    /\ \A i \in 1..n : \A j \in DOMAIN ss[i] : \E p \in DOMAIN F : row[p] = i /\ col[p] = j

LEMMA ConcatFacts ==
  ASSUME NEW X, NEW F \in Seq(X), NEW s \in Seq(X)
  PROVE  /\ F \o s \in Seq(X) /\ Len(F) \in Nat /\ Len(s) \in Nat
         /\ DOMAIN F = 1..Len(F) /\ DOMAIN s = 1..Len(s)
         /\ DOMAIN (F \o s) = 1..(Len(F) + Len(s)) /\ Len(F \o s) = Len(F) + Len(s)
         /\ \A p \in 1..Len(F) : (F \o s)[p] = F[p]
         /\ \A p \in 1..Len(s) : (F \o s)[Len(F) + p] = s[p]
  OBVIOUS

LEMMA SpreadStep ==
  ASSUME NEW X, NEW ss \in Seq(Seq(X)), NEW n \in Nat, n + 1 \in 1..Len(ss),
         NEW F \in Seq(X), NEW row, NEW col, Spreads(F, ss, n, row, col)
  PROVE  \E row1, col1 : Spreads(F \o ss[n + 1], ss, n + 1, row1, col1)
  <1> DEFINE s == ss[n + 1]
             G == F \o s
             row1 == [p \in DOMAIN G |-> IF p <= Len(F) THEN row[p] ELSE n + 1]
             col1 == [p \in DOMAIN G |-> IF p <= Len(F) THEN col[p] ELSE p - Len(F)]
  <1>1. s \in Seq(X)
    OBVIOUS
  <1>2. /\ G \in Seq(X) /\ Len(F) \in Nat /\ Len(s) \in Nat
        /\ DOMAIN F = 1..Len(F) /\ DOMAIN s = 1..Len(s)
        /\ DOMAIN G = 1..(Len(F) + Len(s))
        /\ \A p \in 1..Len(F) : G[p] = F[p]
        /\ \A p \in 1..Len(s) : G[Len(F) + p] = s[p]
    <2> HIDE DEF s
    <2> QED BY <1>1, ConcatFacts
  <1>3. ASSUME NEW p \in DOMAIN G
        PROVE  /\ p \in Nat
               /\ p <= Len(F) => p \in DOMAIN F /\ row1[p] = row[p] /\ col1[p] = col[p] /\ G[p] = F[p]
               /\ p > Len(F) => /\ row1[p] = n + 1 /\ col1[p] = p - Len(F)
                                /\ p - Len(F) \in DOMAIN s /\ G[p] = s[p - Len(F)]
    <2> HIDE DEF G, s
    <2>1. p \in Nat
      BY <1>2
    <2>2. row1[p] = (IF p <= Len(F) THEN row[p] ELSE n + 1)
          /\ col1[p] = IF p <= Len(F) THEN col[p] ELSE p - Len(F)
      BY Zenon
    <2> HIDE DEF row1, col1
    <2>3. p > Len(F) => p - Len(F) \in 1..Len(s) /\ Len(F) + (p - Len(F)) = p
      BY <1>2, <2>1
    <2>4. p <= Len(F) => p \in 1..Len(F)
      BY <1>2, <2>1
    <2>5. p > Len(F) => ~(p <= Len(F))
      BY <1>2, <2>1
    <2> QED BY <1>2, <2>1, <2>2, <2>3, <2>4, <2>5
  <1>4. /\ row \in [DOMAIN F -> 1..n] /\ col \in [DOMAIN F -> Nat]
        /\ \A p \in DOMAIN F : col[p] \in DOMAIN ss[row[p]] /\ F[p] = ss[row[p]][col[p]]
        /\ \A p, q \in DOMAIN F : row[p] = row[q] /\ col[p] = col[q] => p = q
        /\ \A i \in 1..n : \A j \in DOMAIN ss[i] : \E p \in DOMAIN F : row[p] = i /\ col[p] = j
    BY DEF Spreads
  <1>a. row1 = [p \in DOMAIN G |-> row1[p]] /\ col1 = [p \in DOMAIN G |-> col1[p]]
    <2> DEFINE e(p) == IF p <= Len(F) THEN row[p] ELSE n + 1
               d(p) == IF p <= Len(F) THEN col[p] ELSE p - Len(F)
    <2>1. row1 = [p \in DOMAIN G |-> e(p)] /\ col1 = [p \in DOMAIN G |-> d(p)]
      BY Zenon
    <2> HIDE DEF row1, col1, G, e, d
    <2> QED BY <2>1
  <1> HIDE DEF row1, col1, G
  <1>5. row1 \in [DOMAIN G -> 1..(n + 1)] /\ col1 \in [DOMAIN G -> Nat]
    <2>1. \A p \in DOMAIN G : row1[p] \in 1..(n + 1) /\ col1[p] \in Nat
      <3> TAKE p \in DOMAIN G
      <3>1. p \in Nat /\ (p <= Len(F) \/ p > Len(F))
        BY <1>2, <1>3
      <3> QED BY <1>2, <1>3, <1>4, <3>1, SMTT(60)
    <2> QED BY <1>a, <2>1
  <1>6. ASSUME NEW p \in DOMAIN G
        PROVE  col1[p] \in DOMAIN ss[row1[p]] /\ G[p] = ss[row1[p]][col1[p]]
    <2>1. p \in Nat /\ (p <= Len(F) \/ p > Len(F))
      BY <1>2, <1>3
    <2>2. CASE p <= Len(F)
      <3>1. p \in DOMAIN F /\ row1[p] = row[p] /\ col1[p] = col[p] /\ G[p] = F[p]
        BY <1>3, <2>2
      <3> QED BY <1>4, <3>1
    <2>3. CASE p > Len(F)
      <3>1. row1[p] = n + 1 /\ col1[p] = p - Len(F) /\ p - Len(F) \in DOMAIN s /\ G[p] = s[p - Len(F)]
        BY <1>3, <2>3
      <3> QED BY <3>1
    <2> QED BY <2>1, <2>2, <2>3
  <1>7. ASSUME NEW p \in DOMAIN G, NEW q \in DOMAIN G, row1[p] = row1[q], col1[p] = col1[q]
        PROVE  p = q
    <2> HIDE DEF s
    <2>1. /\ p \in Nat /\ (p <= Len(F) \/ p > Len(F))
          /\ q \in Nat /\ (q <= Len(F) \/ q > Len(F))
      BY <1>2, <1>3
    <2>2. CASE p <= Len(F) /\ q <= Len(F)
      <3>1. p \in DOMAIN F /\ q \in DOMAIN F /\ row[p] = row[q] /\ col[p] = col[q]
        BY <1>3, <1>7, <2>2
      <3> QED BY <1>4, <3>1
    <2>3. CASE p > Len(F) /\ q > Len(F)
      <3>1. col1[p] = p - Len(F) /\ col1[q] = q - Len(F)
        BY <1>3, <2>3
      <3>2. p - Len(F) = q - Len(F) /\ Len(F) \in Nat /\ p \in Nat /\ q \in Nat
        BY <1>2, <1>7, <2>1, <3>1, Zenon
      <3> QED BY <3>2
    <2>4. CASE p <= Len(F) /\ q > Len(F)
      <3>1. row1[p] \in 1..n /\ row1[q] = n + 1
        BY <1>3, <1>4, <2>4
      <3> QED BY <1>7, <3>1
    <2>5. CASE p > Len(F) /\ q <= Len(F)
      <3>1. row1[q] \in 1..n /\ row1[p] = n + 1
        BY <1>3, <1>4, <2>5
      <3> QED BY <1>7, <3>1
    <2> QED BY <2>1, <2>2, <2>3, <2>4, <2>5
  <1>8. ASSUME NEW i \in 1..(n + 1), NEW j \in DOMAIN ss[i]
        PROVE  \E p \in DOMAIN G : row1[p] = i /\ col1[p] = j
    <2>1. CASE i \in 1..n
      <3>1. PICK p \in DOMAIN F : row[p] = i /\ col[p] = j
        BY <1>4, <2>1
      <3>2. p \in DOMAIN G /\ p <= Len(F)
        <4> HIDE DEF s
        <4> QED BY <1>2
      <3> QED BY <1>3, <3>1, <3>2
    <2>2. CASE i = n + 1
      <3>1. j \in DOMAIN s
        BY <2>2
      <3> HIDE DEF s
      <3> DEFINE p == Len(F) + j
      <3>2. p \in DOMAIN G /\ p > Len(F) /\ p - Len(F) = j
        BY <1>2, <3>1, SMTT(60)
      <3> HIDE DEF p
      <3> QED BY <1>3, <2>2, <3>2
    <2> QED BY <2>1, <2>2
  <1>9. Spreads(G, ss, n + 1, row1, col1)
    BY <1>5, <1>6, <1>7, <1>8, Zenon DEF Spreads
  <1> QED BY <1>9, Zenon DEF G

LEMMA FlattenSpreads ==
  ASSUME NEW X, NEW ss \in Seq(Seq(X))
  PROVE  /\ FlattenSeq(ss) \in Seq(X)
         /\ \E row, col : Spreads(FlattenSeq(ss), ss, Len(ss), row, col)
  <1> DEFINE N == Len(ss)
  <1>1. N \in Nat /\ DOMAIN ss = 1..N
    OBVIOUS
  <1>2. CASE N = 0
    <2>1. FlattenSeq(ss) = <<>>
      <3>1. FlattenSeq(ss) = ss
        BY <1>2, Zenon DEF FlattenSeq
      <3> QED BY <1>2, <3>1
    <2> DEFINE e == [p \in {} |-> 0]
    <2>2. Spreads(<<>>, ss, N, e, e)
      BY <1>2 DEF Spreads
    <2> HIDE DEF e
    <2> QED BY <2>1, <2>2
  <1>3. CASE N # 0
    <2> DEFINE f == CHOOSE f : Flattening(ss, N, f)
    <2>1. Flattening(ss, N, f)
      BY <1>1, FlatteningExists, Zenon
    <2>2. FlattenSeq(ss) = f[N]
      BY <1>3, Zenon DEF FlattenSeq, Flattening
    <2> HIDE DEF f
    <2>3. \A i \in 1..N : f[i] = IF i = 1 THEN ss[i] ELSE f[i - 1] \o ss[i]
      BY <2>1, Zenon DEF Flattening
    <2> DEFINE P(i) == f[i] \in Seq(X) /\ \E row, col : Spreads(f[i], ss, i, row, col)
               T == {i \in Nat : i + 1 <= N => P(i + 1)}
    <2>4. 0 \in T
      <3>1. 1 \in 1..N /\ 0 + 1 = 1 /\ f[1] = ss[1]
        BY <1>1, <1>3, <2>3
      <3>2. <<>> \o ss[1] = ss[1] /\ ss[1] \in Seq(X)
        BY <3>1
      <3> DEFINE e == [p \in {} |-> 0]
      <3>3. Spreads(<<>>, ss, 0, e, e)
        BY DEF Spreads
      <3> HIDE DEF e
      <3>4. \E row, col : Spreads(<<>> \o ss[0 + 1], ss, 0 + 1, row, col)
        <4>1. <<>> \in Seq(X) /\ 0 + 1 \in 1..Len(ss) /\ 0 \in Nat
          BY <3>1
        <4> QED BY <3>3, <4>1, SpreadStep, Zenon
      <3> QED BY <3>1, <3>2, <3>4
    <2>5. ASSUME NEW i \in T PROVE i + 1 \in T
      <3> SUFFICES ASSUME (i + 1) + 1 <= N PROVE P((i + 1) + 1)
        OBVIOUS
      <3> DEFINE k == i + 1
      <3>1. k \in Nat /\ k \in 1..N /\ k + 1 \in 1..N /\ k + 1 # 1 /\ (k + 1) - 1 = k
        BY <1>1
      <3>2. P(k)
        BY <3>1
      <3>3. f[k + 1] = f[k] \o ss[k + 1]
        <4> HIDE DEF k
        <4> QED BY <2>3, <3>1
      <3>4. PICK row, col : Spreads(f[k], ss, k, row, col)
        BY <3>2
      <3> HIDE DEF k
      <3>5. \E row1, col1 : Spreads(f[k] \o ss[k + 1], ss, k + 1, row1, col1)
        BY <3>1, <3>2, <3>4, SpreadStep, Zenon
      <3>6. f[k] \o ss[k + 1] \in Seq(X)
        <4>1. ss[k + 1] \in Seq(X)
          BY <1>1, <3>1
        <4> QED BY <3>2, <4>1, ConcatFacts, Zenon
      <3>7. P(k + 1)
        BY <3>3, <3>5, <3>6
      <3> QED BY <3>7 DEF k
    <2> HIDE DEF T
    <2>6. T = Nat
      <3>1. T \in SUBSET Nat
        BY DEF T
      <3> QED BY <2>4, <2>5, <3>1, SetInduction
    <2>7. N - 1 \in T /\ (N - 1) + 1 = N
      BY <1>1, <1>3, <2>6
    <2>8. P(N)
      BY <1>1, <2>7 DEF T
    <2> QED BY <2>2, <2>8
  <1> QED BY <1>2, <1>3

\* s is a list of elements with the labels D, each of them once.
Labelled(s, lab, D) ==
    /\ \A p \in DOMAIN s : lab[s[p]] \in D
    /\ \A d \in D : \E p \in DOMAIN s : lab[s[p]] = d
    /\ \A p, q \in DOMAIN s : lab[s[p]] = lab[s[q]] => p = q

AllLabelled(ss, lab, DD) == \A i \in DOMAIN ss : Labelled(ss[i], lab, DD[i])
Apart(ss, DD) == \A h, i \in DOMAIN ss : \A d \in DD[h] : d \in DD[i] => h = i
FromSome(F, ss) == \A p \in DOMAIN F : \E i \in DOMAIN ss : \E j \in DOMAIN ss[i] : F[p] = ss[i][j]

LEMMA FlattenLabels ==
  ASSUME NEW X, NEW lab, NEW DD, NEW ss \in Seq(Seq(X)), NEW F, F = FlattenSeq(ss),
         NEW D, D = UNION {DD[i] : i \in DOMAIN ss},
         AllLabelled(ss, lab, DD), Apart(ss, DD)
  PROVE  F \in Seq(X) /\ FromSome(F, ss) /\ Labelled(F, lab, D)
  <1>1. F \in Seq(X) /\ \E row, col : Spreads(F, ss, Len(ss), row, col)
    BY FlattenSpreads
  <1>2. PICK row, col : Spreads(F, ss, Len(ss), row, col)
    BY <1>1
  <1>3. DOMAIN ss = 1..Len(ss)
    OBVIOUS
  <1>4. /\ row \in [DOMAIN F -> DOMAIN ss]
        /\ \A p \in DOMAIN F : col[p] \in DOMAIN ss[row[p]] /\ F[p] = ss[row[p]][col[p]]
        /\ \A p, q \in DOMAIN F : row[p] = row[q] /\ col[p] = col[q] => p = q
        /\ \A i \in DOMAIN ss : \A j \in DOMAIN ss[i] : \E p \in DOMAIN F : row[p] = i /\ col[p] = j
    BY <1>2, <1>3, ZenonT(60) DEF Spreads
  <1>5. ASSUME NEW p \in DOMAIN F
        PROVE  row[p] \in DOMAIN ss /\ col[p] \in DOMAIN ss[row[p]] /\ F[p] = ss[row[p]][col[p]]
    BY <1>4
  <1>6. ASSUME NEW p \in DOMAIN F PROVE lab[F[p]] \in DD[row[p]]
    BY <1>5 DEF Labelled, AllLabelled
  <1>7. ASSUME NEW p \in DOMAIN F, NEW q \in DOMAIN F, lab[F[p]] = lab[F[q]] PROVE p = q
    <2>1. row[p] = row[q]
      <3>1. lab[F[p]] \in DD[row[p]] /\ lab[F[p]] \in DD[row[q]]
        BY <1>6, <1>7
      <3> QED BY <1>5, <3>1, Zenon DEF Apart
    <2>2. Labelled(ss[row[p]], lab, DD[row[p]])
      BY <1>5 DEF AllLabelled
    <2>3. col[p] = col[q]
      <3> DEFINE i == row[p]
                 j == col[p]
                 k == col[q]
      <3>1. j \in DOMAIN ss[i] /\ k \in DOMAIN ss[i] /\ F[p] = ss[i][j] /\ F[q] = ss[i][k]
        BY <1>5, <2>1
      <3>2. Labelled(ss[i], lab, DD[i])
        BY <2>2
      <3> HIDE DEF i, j, k
      <3>3. lab[ss[i][j]] = lab[ss[i][k]]
        BY <1>7, <3>1, Zenon
      <3>4. j = k
        BY <3>1, <3>2, <3>3, Zenon DEF Labelled
      <3> QED BY <3>4 DEF j, k
    <2> QED BY <1>4, <2>1, <2>3, Zenon
  <1>8. ASSUME NEW d \in D PROVE \E p \in DOMAIN F : lab[F[p]] = d
    <2>1. PICK i \in DOMAIN ss : d \in DD[i]
      OBVIOUS
    <2>2. PICK j \in DOMAIN ss[i] : lab[ss[i][j]] = d
      BY <2>1 DEF Labelled, AllLabelled
    <2>3. PICK p \in DOMAIN F : row[p] = i /\ col[p] = j
      BY <1>4
    <2> QED BY <1>5, <2>2, <2>3
  <1>9. \A p \in DOMAIN F : \E i \in DOMAIN ss : \E j \in DOMAIN ss[i] : F[p] = ss[i][j]
    BY <1>5
  <1>10. \A p \in DOMAIN F : lab[F[p]] \in D
    BY <1>5, <1>6
  <1>11. Labelled(F, lab, D)
    <2> QED BY <1>7, <1>8, <1>10, Zenon DEF Labelled
  <1> QED BY <1>1, <1>9, <1>11 DEF FromSome

(***************************************************************************)
(* The tree of calls.                                                       *)
(***************************************************************************)
LEMMA TreeFacts ==
  ASSUME NEW tx, IsTree(tx)
  PROVE  /\ Len(tx.call) \in Nat \ {0} /\ DOMAIN tx.call = 1..Len(tx.call) /\ 1 \in DOMAIN tx.call
         /\ \A n \in DOMAIN tx.call : tx.call[n] \in CallFrame
         /\ \A n \in DOMAIN tx.call : n # 1 => tx.parent[n] \in DOMAIN tx.call /\ tx.parent[n] < n
         /\ tx.parent[1] = 0
  <1> DEFINE c == tx.call
             q == tx.parent
  <1>1. /\ c \in Seq(CallFrame) /\ c # <<>> /\ q \in Seq(Nat) /\ Len(q) = Len(c) /\ q[1] = 0
        /\ \A n \in 2..Len(c) : q[n] \in 1..(n - 1)
    BY DEF IsTree
  <1> HIDE DEF c, q
  <1>2. Len(c) \in Nat \ {0} /\ DOMAIN c = 1..Len(c) /\ \A n \in DOMAIN c : c[n] \in CallFrame
    BY <1>1
  <1>3. \A n \in DOMAIN c : n # 1 => q[n] \in DOMAIN c /\ q[n] < n
    BY <1>1, <1>2
  <1> QED BY <1>1, <1>2, <1>3 DEF c, q

LEMMA ChildrenFacts ==
  ASSUME NEW tx, IsTree(tx), NEW n \in DOMAIN tx.call
  PROVE  /\ Children(tx, n) \in SUBSET Nat /\ IsFiniteSet(Children(tx, n))
         /\ \A m \in Children(tx, n) : m \in DOMAIN tx.call /\ m > n /\ tx.parent[m] = n
  <1>1. \A m \in Children(tx, n) : m \in DOMAIN tx.call /\ m > n /\ tx.parent[m] = n
    BY TreeFacts DEF Children
  <1>2. IsFiniteSet(DOMAIN tx.call) /\ Children(tx, n) \in SUBSET DOMAIN tx.call
    <2>1. DOMAIN tx.call = 1..Len(tx.call) /\ 1 \in Int /\ Len(tx.call) \in Int
      BY TreeFacts
    <2>2. IsFiniteSet(1..Len(tx.call))
      BY <2>1, FS_Interval, Zenon
    <2>3. Children(tx, n) \in SUBSET DOMAIN tx.call
      BY DEF Children
    <2> QED BY <2>1, <2>2, <2>3
  <1> QED BY <1>1, <1>2, FS_Subset, TreeFacts

\* A call is visited after the calls made in it.
LEMMA VisitCallLocal ==
  ASSUME NEW tx, IsTree(tx), NEW n \in DOMAIN tx.call, NEW f, NEW g,
         \A m \in Children(tx, n) : f[m] = g[m]
  PROVE  visitCall(tx, f, n) = visitCall(tx, g, n)
  <1> DEFINE kids == Upwards(Children(tx, n))
  <1>1. kids \in Seq(Children(tx, n))
    BY ChildrenFacts, UpwardsEnumerates DEF Enumerates
  <1> HIDE DEF kids
  <1>2. \A i \in DOMAIN kids : f[kids[i]] = g[kids[i]]
    BY <1>1
  <1>3. /\ [i \in DOMAIN kids |-> f[kids[i]].calls] = [i \in DOMAIN kids |-> g[kids[i]].calls]
        /\ [i \in DOMAIN kids |-> f[kids[i]].events] = [i \in DOMAIN kids |-> g[kids[i]].events]
        /\ (\E i \in DOMAIN kids : f[kids[i]].isErr) <=> (\E i \in DOMAIN kids : g[kids[i]].isErr)
    BY <1>2
  <1> QED BY <1>3, Zenon DEF visitCall, kids

Visiting(tx, f) == f = [n \in DOMAIN tx.call |-> visitCall(tx, f, n)]

LEMMA VisitingExists ==
  ASSUME NEW tx, IsTree(tx)
  PROVE  \E f : Visiting(tx, f)
  <1> DEFINE N == Len(tx.call)
             Done(d, f) == /\ f = [n \in 1..N |-> f[n]]
                           /\ \A n \in 1..N : n > N - d => f[n] = visitCall(tx, f, n)
             T == {d \in Nat : d <= N => \E f : Done(d, f)}
  <1>1. N \in Nat /\ DOMAIN tx.call = 1..N
    BY TreeFacts
  <1> HIDE DEF N
  <1>2. 0 \in T
    <2> DEFINE f == [n \in 1..N |-> 0]
    <2>1. Done(0, f)
      BY <1>1
    <2> HIDE DEF f, Done
    <2> QED BY <2>1
  <1>3. ASSUME NEW d \in T PROVE d + 1 \in T
    <2> SUFFICES ASSUME d + 1 <= N PROVE \E f : Done(d + 1, f)
      OBVIOUS
    <2>1. d \in Nat /\ d <= N
      BY <1>1
    <2>2. PICK g : Done(d, g)
      BY <2>1
    <2> DEFINE k == N - d
               v == visitCall(tx, g, k)
               f == [n \in 1..N |-> IF n = k THEN v ELSE g[n]]
    <2>3. k \in 1..N /\ \A n \in 1..N : n > N - (d + 1) => n = k \/ n > k
      BY <1>1, <2>1
    <2> HIDE DEF k, v
    <2>4. f = [n \in 1..N |-> f[n]]
      OBVIOUS
    <2>5. \A n \in 1..N : f[n] = IF n = k THEN v ELSE g[n]
      OBVIOUS
    <2> HIDE DEF f
    <2>6. ASSUME NEW n \in 1..N, n = k \/ n > k PROVE visitCall(tx, f, n) = visitCall(tx, g, n)
      <3>1. \A m \in Children(tx, n) : f[m] = g[m]
        <4> TAKE m \in Children(tx, n)
        <4>1. m \in 1..N /\ m > n
          BY <1>1, ChildrenFacts
        <4>2. m # k
          BY <2>3, <2>6, <4>1
        <4> QED BY <2>5, <4>1, <4>2
      <3> QED BY <1>1, <3>1, VisitCallLocal
    <2>7. ASSUME NEW n \in 1..N, n > N - (d + 1) PROVE f[n] = visitCall(tx, f, n)
      <3>1. n = k \/ n > k
        BY <2>3, <2>7
      <3>2. visitCall(tx, f, n) = visitCall(tx, g, n)
        BY <2>6, <3>1
      <3>3. CASE n = k
        BY <2>5, <3>2, <3>3 DEF v
      <3>4. CASE n > k /\ n # k
        <4>1. g[n] = visitCall(tx, g, n)
          BY <2>2, <3>4 DEF k
        <4> QED BY <2>5, <3>2, <3>4, <4>1
      <3> QED BY <2>3, <3>1, <3>3, <3>4
    <2>8. Done(d + 1, f)
      BY <2>4, <2>7, Zenon
    <2> QED BY <2>8
  <1> HIDE DEF T
  <1>4. T = Nat
    <2>1. T \in SUBSET Nat
      BY DEF T
    <2> QED BY <1>2, <1>3, <2>1, SetInduction
  <1>5. PICK f : Done(N, f)
    <2>1. N \in T /\ N <= N
      BY <1>1, <1>4
    <2> QED BY <2>1 DEF T
  <1>6. \A n \in 1..N : f[n] = visitCall(tx, f, n)
    BY <1>1, <1>5
  <1>7. f = [n \in 1..N |-> visitCall(tx, f, n)]
    BY <1>5, <1>6
  <1> QED BY <1>1, <1>7, Zenon DEF Visiting

\* What the recursion of extractcall computes.
visited(tx) == CHOOSE f : Visiting(tx, f)

LEMMA ExtractVisits ==
  ASSUME NEW tx, IsTree(tx)
  PROVE  /\ \A n \in DOMAIN tx.call : visited(tx)[n] = visitCall(tx, visited(tx), n)
         /\ extractcall(tx) = visited(tx)[1].calls
  <1>1. Visiting(tx, visited(tx))
    BY VisitingExists, Zenon DEF visited
  <1>2. \A n \in DOMAIN tx.call : visited(tx)[n] = visitCall(tx, visited(tx), n)
    BY <1>1, Zenon DEF Visiting
  <1> QED BY <1>2, Zenon DEF extractcall, visited, Visiting

Upwarding(tx, f) == f = [m \in DOMAIN tx.call |-> IF m = 1 THEN {1} ELSE {m} \cup f[tx.parent[m]]]

LEMMA UpwardingExists ==
  ASSUME NEW tx, IsTree(tx)
  PROVE  \E f : Upwarding(tx, f)
  <1> DEFINE N == Len(tx.call)
             up(f, m) == IF m = 1 THEN {1} ELSE {m} \cup f[tx.parent[m]]
             Done(d, f) == /\ f = [m \in 1..N |-> f[m]]
                           /\ \A m \in 1..N : m <= d => f[m] = up(f, m)
             T == {d \in Nat : d <= N => \E f : Done(d, f)}
  <1>1. N \in Nat /\ DOMAIN tx.call = 1..N
    BY TreeFacts
  <1>2. \A m \in 1..N : m # 1 => tx.parent[m] \in 1..N /\ tx.parent[m] < m
    BY TreeFacts
  <1> HIDE DEF N
  <1>3. 0 \in T
    <2> DEFINE f == [m \in 1..N |-> {}]
    <2>1. Done(0, f)
      BY <1>1
    <2> HIDE DEF f, Done
    <2> QED BY <2>1
  <1>4. ASSUME NEW d \in T PROVE d + 1 \in T
    <2> SUFFICES ASSUME d + 1 <= N PROVE \E f : Done(d + 1, f)
      <3> HIDE DEF Done
      <3> QED OBVIOUS
    <2>1. d \in Nat /\ d <= N /\ d + 1 \in 1..N
      BY <1>1
    <2>2. PICK g : Done(d, g)
      BY <2>1
    <2> DEFINE k == d + 1
               v == up(g, k)
               f == [m \in 1..N |-> IF m = k THEN v ELSE g[m]]
    <2> HIDE DEF v
    <2> DEFINE e(m) == IF m = k THEN v ELSE g[m]
    <2>a. f = [m \in 1..N |-> e(m)]
      OBVIOUS
    <2>b. \A m \in 1..N : f[m] = e(m)
      <3> HIDE DEF e, f
      <3> QED BY <2>a
    <2>3. \A m \in 1..N : f[m] = IF m = k THEN v ELSE g[m]
      BY <2>b, Zenon
    <2>4. f = [m \in 1..N |-> f[m]]
      <3> HIDE DEF e, f
      <3> QED BY <2>a
    <2> HIDE DEF f
    <2>5. ASSUME NEW m \in 1..N, m <= d + 1 PROVE f[m] = up(f, m)
      <3>1. m # 1 => f[tx.parent[m]] = g[tx.parent[m]]
        <4> SUFFICES ASSUME m # 1 PROVE f[tx.parent[m]] = g[tx.parent[m]]
          OBVIOUS
        <4> DEFINE a == tx.parent[m]
        <4>1. a \in 1..N /\ a < m
          BY <1>2
        <4> HIDE DEF a
        <4>2. a # k
          BY <2>1, <2>5, <4>1
        <4>3. f[a] = g[a]
          BY <2>3, <4>1, <4>2
        <4> QED BY <4>3 DEF a
      <3>2. up(f, m) = up(g, m)
        BY <3>1
      <3>3. CASE m = k
        BY <2>3, <3>2, <3>3 DEF v
      <3>4. CASE m # k
        <4>1. m <= d
          BY <2>1, <2>5, <3>4
        <4>2. g[m] = up(g, m)
          BY <2>2, <4>1
        <4> QED BY <2>3, <3>2, <3>4, <4>2
      <3> QED BY <3>3, <3>4
    <2>6. Done(d + 1, f)
      BY <2>4, <2>5, Zenon
    <2> QED BY <2>6
  <1> HIDE DEF T
  <1>5. T = Nat
    <2>1. T \in SUBSET Nat
      BY DEF T
    <2> QED BY <1>3, <1>4, <2>1, SetInduction
  <1>6. PICK f : Done(N, f)
    <2>1. N \in T /\ N <= N
      BY <1>1, <1>5
    <2> QED BY <2>1 DEF T
  <1>7. \A m \in 1..N : f[m] = up(f, m)
    <2>1. \A m \in 1..N : m <= N => f[m] = up(f, m)
      BY <1>6, Zenon
    <2> HIDE DEF up
    <2> QED BY <1>1, <2>1
  <1>8. f = [m \in 1..N |-> up(f, m)]
    <2> HIDE DEF up
    <2> QED BY <1>6, <1>7
  <1>9. Upwarding(tx, f)
    BY <1>1, <1>8, Zenon DEF Upwarding
  <1> QED BY <1>9

\* The calls around a call: itself and those around the one it was made in.
LEMMA AroundStep ==
  ASSUME NEW tx, IsTree(tx), NEW n \in DOMAIN tx.call
  PROVE  Around(tx, n) = IF n = 1 THEN {1} ELSE {n} \cup Around(tx, tx.parent[n])
  <1> DEFINE f == CHOOSE f : Upwarding(tx, f)
  <1>1. Upwarding(tx, f)
    BY UpwardingExists, Zenon
  <1>2. Around(tx, n) = f[n] /\ Around(tx, tx.parent[n]) = f[tx.parent[n]]
    BY Zenon DEF Around, Upwarding
  <1> HIDE DEF f
  <1>3. f[n] = IF n = 1 THEN {1} ELSE {n} \cup f[tx.parent[n]]
    BY <1>1, Zenon DEF Upwarding
  <1> QED BY <1>2, <1>3, Zenon

\* What holds of a call when it holds of the one it was made in holds of all.
LEMMA TreeInduction ==
  ASSUME NEW tx, IsTree(tx), NEW G,
         \A n \in DOMAIN tx.call : (n = 1 \/ tx.parent[n] \in G) => n \in G
  PROVE  \A n \in DOMAIN tx.call : n \in G
  <1> DEFINE T == {n \in Nat : n \in DOMAIN tx.call => n \in G}
  <1>1. T \in SUBSET Nat
    OBVIOUS
  <1>2. ASSUME NEW n \in Nat, \A m \in 0..(n - 1) : m \in T PROVE n \in T
    <2> SUFFICES ASSUME n \in DOMAIN tx.call, n # 1 PROVE tx.parent[n] \in G
      OBVIOUS
    <2> DEFINE m == tx.parent[n]
    <2>1. m \in DOMAIN tx.call /\ m < n /\ m \in Nat
      BY TreeFacts
    <2> HIDE DEF m
    <2>2. m \in T
      BY <1>2, <2>1
    <2> QED BY <2>1, <2>2 DEF m
  <1>3. T = Nat
    <2> HIDE DEF T
    <2> QED BY <1>1, <1>2, StrongInduction
  <1> QED BY <1>3, TreeFacts

LEMMA AroundFacts ==
  ASSUME NEW tx, IsTree(tx), NEW n \in DOMAIN tx.call
  PROVE  /\ n \in Around(tx, n) /\ 1 \in Around(tx, n)
         /\ \A m \in Around(tx, n) : m \in DOMAIN tx.call /\ m <= n
         /\ \A m \in Around(tx, n) : Around(tx, m) \subseteq Around(tx, n)
  <1> DEFINE P(m) == /\ m \in Around(tx, m) /\ 1 \in Around(tx, m)
                     /\ \A k \in Around(tx, m) : k \in DOMAIN tx.call /\ k <= m
                     /\ \A k \in Around(tx, m) : Around(tx, k) \subseteq Around(tx, m)
             G == {m \in DOMAIN tx.call : P(m)}
  <1>1. ASSUME NEW m \in DOMAIN tx.call, m = 1 \/ tx.parent[m] \in G PROVE m \in G
    <2>1. CASE m = 1
      BY <2>1, AroundStep
    <2>2. CASE m # 1
      <3> DEFINE a == tx.parent[m]
      <3>1. a \in G /\ a \in DOMAIN tx.call /\ a < m /\ a \in Nat /\ m \in Nat
        BY <1>1, <2>2, TreeFacts
      <3>2. Around(tx, m) = {m} \cup Around(tx, a)
        BY <2>2, AroundStep
      <3> HIDE DEF a
      <3>3. \A k \in Around(tx, a) : k \in DOMAIN tx.call /\ k <= a /\ k \in Nat /\ Around(tx, k) \subseteq Around(tx, a)
        BY <3>1, TreeFacts
      <3>4. \A k \in Around(tx, m) : k \in DOMAIN tx.call /\ k <= m
        BY <3>1, <3>2, <3>3
      <3>5. \A k \in Around(tx, m) : Around(tx, k) \subseteq Around(tx, m)
        BY <3>2, <3>3
      <3> QED BY <3>1, <3>2, <3>4, <3>5
    <2> QED BY <2>1, <2>2
  <1> HIDE DEF G
  <1>2. n \in G
    BY <1>1, TreeInduction
  <1> QED BY <1>2 DEF G

\* Around a call there is at most one of the calls made in n, and one of them if n is around it.
LEMMA Siblings ==
  ASSUME NEW tx, IsTree(tx), NEW n \in DOMAIN tx.call, NEW r \in DOMAIN tx.call,
         NEW j \in Children(tx, n), NEW k \in Children(tx, n), j \in Around(tx, r), k \in Around(tx, r)
  PROVE  j = k
  <1> DEFINE G == {m \in DOMAIN tx.call : j \in Around(tx, m) /\ k \in Around(tx, m) => j = k}
  <1>0. /\ j \in DOMAIN tx.call /\ j > n /\ tx.parent[j] = n
        /\ k \in DOMAIN tx.call /\ k > n /\ tx.parent[k] = n
    BY ChildrenFacts
  <1>a. j \in Nat /\ k \in Nat /\ n \in Nat
    BY <1>0, TreeFacts
  <1>1. ASSUME NEW m \in DOMAIN tx.call, m = 1 \/ tx.parent[m] \in G PROVE m \in G
    <2> SUFFICES ASSUME j \in Around(tx, m), k \in Around(tx, m), j # k PROVE FALSE
      OBVIOUS
    <2>1. m # 1
      BY AroundStep
    <2> DEFINE a == tx.parent[m]
    <2>2. a \in G /\ a \in DOMAIN tx.call /\ Around(tx, m) = {m} \cup Around(tx, a)
      BY <1>1, <2>1, AroundStep, TreeFacts
    <2>3. ~ (j \in Around(tx, a) /\ k \in Around(tx, a))
      BY <2>2
    <2>4. \A x \in Around(tx, n) : x <= n /\ x \in Nat
      BY AroundFacts, TreeFacts
    <2>5. CASE m = j
      <3>1. k \in Around(tx, n)
        BY <1>0, <2>2, <2>5
      <3> QED BY <1>0, <1>a, <2>4, <3>1
    <2>6. CASE m = k
      <3>1. j \in Around(tx, n)
        BY <1>0, <2>2, <2>6
      <3> QED BY <1>0, <1>a, <2>4, <3>1
    <2> QED BY <2>2, <2>3, <2>5, <2>6
  <1> HIDE DEF G
  <1>2. r \in G
    BY <1>1, TreeInduction
  <1> QED BY <1>2 DEF G

LEMMA Descend ==
  ASSUME NEW tx, IsTree(tx), NEW n \in DOMAIN tx.call, NEW r \in DOMAIN tx.call,
         n \in Around(tx, r), n # r
  PROVE  \E k \in Children(tx, n) : k \in Around(tx, r)
  <1> DEFINE G == {m \in DOMAIN tx.call : n \in Around(tx, m) /\ n # m =>
                                             \E k \in Children(tx, n) : k \in Around(tx, m)}
  <1>1. ASSUME NEW m \in DOMAIN tx.call, m = 1 \/ tx.parent[m] \in G PROVE m \in G
    <2> SUFFICES ASSUME n \in Around(tx, m), n # m PROVE \E k \in Children(tx, n) : k \in Around(tx, m)
      OBVIOUS
    <2>1. m # 1
      BY AroundStep
    <2> DEFINE a == tx.parent[m]
    <2>2. a \in G /\ a \in DOMAIN tx.call /\ Around(tx, m) = {m} \cup Around(tx, a)
      BY <1>1, <2>1, AroundStep, TreeFacts
    <2>3. CASE a = n
      <3>1. m \in Children(tx, n)
        BY <2>3 DEF Children
      <3> QED BY <2>2, <3>1
    <2>4. CASE a # n
      BY <2>2, <2>4
    <2> QED BY <2>3, <2>4
  <1> HIDE DEF G
  <1>2. r \in G
    BY <1>1, TreeInduction
  <1> QED BY <1>2 DEF G

\* What holds of a call when it holds of the calls made in it holds of all.
LEMMA InnerInduction ==
  ASSUME NEW tx, IsTree(tx), NEW G,
         \A n \in DOMAIN tx.call : (\A k \in Children(tx, n) : k \in G) => n \in G
  PROVE  \A n \in DOMAIN tx.call : n \in G
  <1> DEFINE N == Len(tx.call)
             T == {d \in Nat : N - d \in DOMAIN tx.call => N - d \in G}
  <1>1. N \in Nat /\ DOMAIN tx.call = 1..N
    BY TreeFacts
  <1> HIDE DEF N
  <1>2. ASSUME NEW d \in Nat, \A e \in 0..(d - 1) : e \in T PROVE d \in T
    <2> SUFFICES ASSUME N - d \in DOMAIN tx.call PROVE N - d \in G
      OBVIOUS
    <2> DEFINE n == N - d
    <2>1. ASSUME NEW k \in Children(tx, n) PROVE k \in G
      <3>1. k \in DOMAIN tx.call /\ k > n
        BY ChildrenFacts
      <3>2. N - k \in 0..(d - 1) /\ N - (N - k) = k
        BY <1>1, <3>1
      <3> QED BY <1>2, <3>1, <3>2
    <2> HIDE DEF n
    <2>2. n \in DOMAIN tx.call
      BY DEF n
    <2>3. n \in G
      BY <2>1, <2>2
    <2> QED BY <2>3 DEF n
  <1>3. T = Nat
    <2>1. T \in SUBSET Nat
      OBVIOUS
    <2> HIDE DEF T
    <2> QED BY <1>2, <2>1, StrongInduction
  <1>4. ASSUME NEW n \in DOMAIN tx.call PROVE n \in G
    <2>1. N - n \in Nat /\ N - (N - n) = n
      BY <1>1
    <2>2. N - n \in T
      BY <1>3, <2>1
    <2> QED BY <2>1, <2>2
  <1> QED BY <1>4

LEMMA VisitedFacts ==
  ASSUME NEW tx, IsTree(tx), NEW n \in DOMAIN tx.call
  PROVE  /\ n \in Visited(tx) <=> ~tx.call[n].err /\ (n = 1 \/ tx.parent[n] \in Visited(tx))
         /\ n \in Visited(tx) => \A m \in Around(tx, n) : m \in Visited(tx)
  <1>1. n # 1 => tx.parent[n] \in DOMAIN tx.call
    BY TreeFacts
  <1>2. Around(tx, n) = IF n = 1 THEN {1} ELSE {n} \cup Around(tx, tx.parent[n])
    BY AroundStep
  <1>3. \A m \in Around(tx, n) : m \in DOMAIN tx.call /\ Around(tx, m) \subseteq Around(tx, n)
    BY AroundFacts
  <1>4. n \in Visited(tx) <=> ~tx.call[n].err /\ (n = 1 \/ tx.parent[n] \in Visited(tx))
    <2>1. CASE n = 1
      BY <1>2, <2>1 DEF Visited
    <2>2. CASE n # 1
      BY <1>1, <1>2, <2>2 DEF Visited
    <2> QED BY <2>1, <2>2
  <1>5. n \in Visited(tx) => \A m \in Around(tx, n) : m \in Visited(tx)
    BY <1>3 DEF Visited
  <1> QED BY <1>4, <1>5

(***************************************************************************)
(* What extractcall has made of a call: the recorded calls inside of it,    *)
(* each once with exactly its events, and the events left for its caller.   *)
(***************************************************************************)
Entry == [call : Nat, logs : Seq(Nat)]
callOf == [x \in Entry |-> x.call]
eventOf == [n \in Nat |-> n]

Within(tx, n) == {r \in Recorded(tx) : n \in Around(tx, r)}

Open(tx, n) ==
    {m \in Visited(tx) : /\ tx.call[m].logs = "event" /\ n \in Around(tx, m)
                         /\ \A r \in Recorded(tx) : r \in Around(tx, m) => r \in Around(tx, n)}

LeftOver(tx, n) == {m \in Open(tx, n) : n \notin Recorded(tx)}

EntryOK(tx, e) == e \in Entry /\ Labelled(e.logs, eventOf, EventsOf(tx, e.call))

VisitOK(tx, v, n) ==
    /\ v.isErr = tx.call[n].err
    /\ v.calls \in Seq(Entry) /\ Labelled(v.calls, callOf, Within(tx, n))
    /\ \A p \in DOMAIN v.calls : EntryOK(tx, v.calls[p])
    /\ v.events \in Seq(Nat) /\ Labelled(v.events, eventOf, LeftOver(tx, n))

LEMMA RecordedFacts ==
  ASSUME NEW tx, IsTree(tx)
  PROVE  /\ Recorded(tx) \subseteq Visited(tx) /\ Visited(tx) \subseteq DOMAIN tx.call
         /\ DOMAIN tx.call \subseteq Nat
         /\ \A n \in DOMAIN tx.call : n \in Recorded(tx) => EventsOf(tx, n) = Open(tx, n)
  <1>1. Recorded(tx) \subseteq Visited(tx) /\ Visited(tx) \subseteq DOMAIN tx.call
    BY DEF Recorded, Visited
  <1>2. \A n \in DOMAIN tx.call : n \in Recorded(tx) => EventsOf(tx, n) = Open(tx, n)
    BY DEF EventsOf, Open
  <1>3. DOMAIN tx.call \subseteq Nat
    BY TreeFacts
  <1> QED BY <1>1, <1>2, <1>3

\* What is in a call, from what is in the calls made in it.
LEMMA WithinStep ==
  ASSUME NEW tx, IsTree(tx), NEW n \in Visited(tx)
  PROVE  /\ Within(tx, n) = (Recorded(tx) \cap {n}) \cup UNION {Within(tx, k) : k \in Children(tx, n)}
         /\ Open(tx, n) = {m \in {n} : tx.call[m].logs = "event"}
                              \cup UNION {LeftOver(tx, k) : k \in Children(tx, n)}
  <1>1. n \in DOMAIN tx.call /\ n \in Around(tx, n) /\ n \in Nat
    BY RecordedFacts, AroundFacts
  <1>2. ASSUME NEW k \in Children(tx, n)
        PROVE  k \in DOMAIN tx.call /\ Around(tx, k) = {k} \cup Around(tx, n) /\ k \notin Around(tx, n)
    <2>1. k \in DOMAIN tx.call /\ k > n /\ tx.parent[k] = n
      BY <1>1, ChildrenFacts
    <2>2. k # 1 /\ k \in Nat
      BY <1>1, <2>1, TreeFacts
    <2>3. \A x \in Around(tx, n) : x <= n
      BY <1>1, AroundFacts
    <2> QED BY <1>1, <2>1, <2>2, <2>3, AroundStep
  <1>3. ASSUME NEW r \in DOMAIN tx.call
        PROVE  n \in Around(tx, r) <=> r = n \/ \E k \in Children(tx, n) : k \in Around(tx, r)
    <2>1. ASSUME NEW k \in Children(tx, n), k \in Around(tx, r) PROVE n \in Around(tx, r)
      <3>1. Around(tx, k) \subseteq Around(tx, r)
        BY <2>1, AroundFacts
      <3> QED BY <1>1, <1>2, <3>1
    <2> QED BY <1>1, <2>1, Descend
  <1>4. Within(tx, n) = (Recorded(tx) \cap {n}) \cup UNION {Within(tx, k) : k \in Children(tx, n)}
    BY <1>3, RecordedFacts DEF Within
  <1>5. ASSUME NEW m, m \in Open(tx, n), m # n
        PROVE  \E k \in Children(tx, n) : m \in LeftOver(tx, k)
    <2>1. /\ m \in Visited(tx) /\ tx.call[m].logs = "event" /\ n \in Around(tx, m) /\ m \in DOMAIN tx.call
          /\ \A r \in Recorded(tx) : r \in Around(tx, m) => r \in Around(tx, n)
      BY <1>5, RecordedFacts DEF Open
    <2>2. PICK k \in Children(tx, n) : k \in Around(tx, m)
      BY <1>3, <1>5, <2>1
    <2>3. k \notin Recorded(tx)
      BY <1>2, <2>1, <2>2
    <2> QED BY <1>2, <2>1, <2>2, <2>3 DEF LeftOver, Open
  <1>6. ASSUME NEW k \in Children(tx, n), NEW m \in LeftOver(tx, k)
        PROVE  m \in Open(tx, n)
    <2>1. /\ m \in Visited(tx) /\ tx.call[m].logs = "event" /\ k \in Around(tx, m) /\ m \in DOMAIN tx.call
          /\ \A r \in Recorded(tx) : r \in Around(tx, m) => r \in Around(tx, k)
          /\ k \notin Recorded(tx)
      BY RecordedFacts DEF LeftOver, Open
    <2>2. \A r \in Recorded(tx) : r \in Around(tx, m) => r \in Around(tx, n)
      BY <1>2, <2>1
    <2> QED BY <1>3, <2>1, <2>2 DEF Open
  <1>7. n \in Open(tx, n) <=> tx.call[n].logs = "event"
    BY <1>1 DEF Open
  <1>8. Open(tx, n) = {m \in {n} : tx.call[m].logs = "event"}
                          \cup UNION {LeftOver(tx, k) : k \in Children(tx, n)}
    BY <1>5, <1>6, <1>7
  <1> QED BY <1>4, <1>8

LEMMA AppendLabels ==
  ASSUME NEW X, NEW lab, NEW D, NEW s \in Seq(X), NEW e \in X, Labelled(s, lab, D), lab[e] \notin D
  PROVE  /\ Append(s, e) \in Seq(X) /\ Labelled(Append(s, e), lab, {lab[e]} \cup D)
         /\ \A p \in DOMAIN Append(s, e) : Append(s, e)[p] = e \/ \E q \in DOMAIN s : Append(s, e)[p] = s[q]
  <1> DEFINE t == Append(s, e)
             n == Len(s)
  <1>1. /\ n \in Nat /\ DOMAIN s = 1..n /\ DOMAIN t = 1..(n + 1) /\ t[n + 1] = e /\ t \in Seq(X)
        /\ \A p \in 1..n : t[p] = s[p]
    OBVIOUS
  <1> HIDE DEF t, n
  <1>2. \A p \in DOMAIN t : p = n + 1 \/ p \in DOMAIN s
    BY <1>1
  <1>3. \A p \in DOMAIN t : t[p] = e \/ \E q \in DOMAIN s : t[p] = s[q]
    BY <1>1, <1>2
  <1>4. /\ \A p \in DOMAIN s : lab[s[p]] \in D
        /\ \A d \in D : \E p \in DOMAIN s : lab[s[p]] = d
        /\ \A p, q \in DOMAIN s : lab[s[p]] = lab[s[q]] => p = q
    BY DEF Labelled
  <1>5. \A p \in DOMAIN t : lab[t[p]] \in {lab[e]} \cup D
    BY <1>3, <1>4
  <1>6. \A d \in {lab[e]} \cup D : \E p \in DOMAIN t : lab[t[p]] = d
    <2>1. n + 1 \in DOMAIN t /\ \A p \in DOMAIN s : p \in DOMAIN t /\ t[p] = s[p]
      BY <1>1
    <2> QED BY <1>1, <1>4, <2>1
  <1>7. \A p, q \in DOMAIN t : lab[t[p]] = lab[t[q]] => p = q
    BY <1>1, <1>2, <1>4
  <1> QED BY <1>1, <1>3, <1>5, <1>6, <1>7, Zenon DEF Labelled, t

\* The lists that the calls made in n hand up, one after the other.
KidsLabelled(kids, X, ss, lab, DD) ==
    /\ DOMAIN ss = DOMAIN kids /\ ss = [i \in DOMAIN kids |-> ss[i]]
    /\ \A i \in DOMAIN kids : ss[i] \in Seq(X) /\ Labelled(ss[i], lab, DD[kids[i]])
AllInside(tx, n, DD) ==
    \A k \in Children(tx, n) : \A d \in DD[k] : d \in DOMAIN tx.call /\ k \in Around(tx, d)

LEMMA MergeKids ==
  ASSUME NEW tx, IsTree(tx), NEW n \in DOMAIN tx.call, NEW X, NEW lab, NEW DD, NEW kids, NEW F,
         kids = Upwards(Children(tx, n)), NEW ss, F = FlattenSeq(ss), NEW D,
         D = UNION {DD[k] : k \in Children(tx, n)},
         KidsLabelled(kids, X, ss, lab, DD), AllInside(tx, n, DD)
  PROVE  F \in Seq(X) /\ FromSome(F, ss) /\ Labelled(F, lab, D)
  <1>0. /\ DOMAIN ss = DOMAIN kids /\ ss = [i \in DOMAIN kids |-> ss[i]]
        /\ \A i \in DOMAIN kids : ss[i] \in Seq(X) /\ Labelled(ss[i], lab, DD[kids[i]])
        /\ \A k \in Children(tx, n) : \A d \in DD[k] : d \in DOMAIN tx.call /\ k \in Around(tx, d)
    BY Zenon DEF KidsLabelled, AllInside
  <1>1. /\ kids \in Seq(Children(tx, n)) /\ Len(kids) \in Nat /\ DOMAIN kids = 1..Len(kids)
        /\ \A k \in Children(tx, n) : \E i \in DOMAIN kids : kids[i] = k
        /\ \A i, j \in DOMAIN kids : kids[i] = kids[j] => i = j
    <2>1. Enumerates(kids, Children(tx, n), {p \in Children(tx, n) \X Children(tx, n) : p[1] < p[2]})
      BY ChildrenFacts, UpwardsEnumerates
    <2>2. kids \in Seq(Children(tx, n))
      BY <2>1, Zenon DEF Enumerates
    <2>3. Len(kids) \in Nat /\ DOMAIN kids = 1..Len(kids)
      BY <2>2
    <2> QED BY <2>1, <2>2, <2>3, Zenon DEF Enumerates
  <1>2. \A i \in DOMAIN kids : kids[i] \in Children(tx, n)
    BY <1>1
  <1> DEFINE EE == [i \in DOMAIN kids |-> DD[kids[i]]]
             E == UNION {EE[i] : i \in DOMAIN ss}
  <1>3. \A i \in DOMAIN kids : EE[i] = DD[kids[i]]
    OBVIOUS
  <1>4. D = E
    <2>1. \A k \in Children(tx, n) : \E i \in DOMAIN ss : EE[i] = DD[k]
      BY <1>0, <1>1, <1>3, SMTT(60)
    <2>2. \A i \in DOMAIN ss : \E k \in Children(tx, n) : EE[i] = DD[k]
      BY <1>0, <1>2, <1>3
    <2> HIDE DEF EE
    <2> QED BY <2>1, <2>2
  <1> HIDE DEF EE
  <1>5. ss \in Seq(Seq(X))
    <2>1. \A i \in 1..Len(kids) : ss[i] \in Seq(X)
      BY <1>0, <1>1
    <2>2. ss = [i \in 1..Len(kids) |-> ss[i]]
      BY <1>0, <1>1
    <2> QED BY <1>1, <2>1, <2>2
  <1>6. AllLabelled(ss, lab, EE)
    BY <1>0, <1>3 DEF AllLabelled
  <1>7. Apart(ss, EE)
    <2> SUFFICES ASSUME NEW h \in DOMAIN kids, NEW i \in DOMAIN kids, NEW d, d \in EE[h], d \in EE[i]
                 PROVE  h = i
      BY <1>0, Zenon DEF Apart
    <2>1. d \in DOMAIN tx.call /\ kids[h] \in Around(tx, d) /\ kids[i] \in Around(tx, d)
      BY <1>0, <1>2, <1>3
    <2>2. kids[h] \in Children(tx, n) /\ kids[i] \in Children(tx, n)
      BY <1>2
    <2>3. kids[h] = kids[i]
      BY <2>1, <2>2, Siblings, Zenon
    <2> QED BY <1>1, <2>3
  <1>8. E = UNION {EE[i] : i \in DOMAIN ss}
    BY DEF E
  <1> HIDE DEF E
  <1>9. F \in Seq(X) /\ FromSome(F, ss) /\ Labelled(F, lab, E)
    BY <1>5, <1>6, <1>7, <1>8, FlattenLabels, Zenon
  <1> QED BY <1>4, <1>9

LEMMA VisitStep ==
  ASSUME NEW tx, IsTree(tx), NEW n \in DOMAIN tx.call, NEW f,
         n = 1 \/ tx.parent[n] \in Visited(tx),
         n \in Visited(tx) => \A k \in Children(tx, n) : VisitOK(tx, f[k], k)
  PROVE  VisitOK(tx, visitCall(tx, f, n), n)
  <1> DEFINE kids     == Upwards(Children(tx, n))
             cc       == [i \in DOMAIN kids |-> f[kids[i]].calls]
             ee       == [i \in DOMAIN kids |-> f[kids[i]].events]
             callList == FlattenSeq(cc)
             below    == FlattenSeq(ee)
             own      == IF tx.call[n].logs = "event" THEN <<n>> ELSE <<>>
             events   == below \o own
             includeErr == \E i \in DOMAIN kids : f[kids[i]].isErr
             recorded == isTargetFunction(tx.call[n]) /\ isState(tx, n) /\ ~includeErr
             v == visitCall(tx, f, n)
  <1>1. v = IF tx.call[n].err
            THEN [calls |-> <<>>, events |-> <<>>, isErr |-> TRUE]
            ELSE [calls |-> IF recorded THEN Append(callList, [call |-> n, logs |-> events])
                            ELSE callList,
                  events |-> handedUp(recorded, events), isErr |-> FALSE]
    BY Zenon DEF visitCall
  <1> HIDE DEF v
  <1>2. tx.call[n].err \in BOOLEAN /\ n \in Nat
    BY TreeFacts DEF CallFrame
  <1>3. n \in Visited(tx) <=> ~tx.call[n].err
    BY VisitedFacts
  <1>4. CASE tx.call[n].err
    <2>1. n \notin Visited(tx)
      BY <1>3, <1>4
    <2>2. \A r \in Visited(tx) : n \notin Around(tx, r)
      BY <2>1, VisitedFacts, RecordedFacts
    <2>3. Within(tx, n) = {} /\ LeftOver(tx, n) = {}
      BY <2>2, RecordedFacts DEF Within, LeftOver, Open
    <2>4. v.calls = <<>> /\ v.events = <<>> /\ v.isErr = TRUE
      BY <1>1, <1>4
    <2>5. \A lab : Labelled(<<>>, lab, {})
      BY DEF Labelled
    <2>6. <<>> \in Seq(Entry) /\ <<>> \in Seq(Nat) /\ \A p \in DOMAIN <<>> : FALSE
      OBVIOUS
    <2>7. v.isErr = tx.call[n].err
      BY <1>2, <1>4, <2>4
    <2>8. v.calls \in Seq(Entry) /\ Labelled(v.calls, callOf, Within(tx, n))
          /\ \A p \in DOMAIN v.calls : EntryOK(tx, v.calls[p])
      BY <2>3, <2>4, <2>5, <2>6
    <2>9. v.events \in Seq(Nat) /\ Labelled(v.events, eventOf, LeftOver(tx, n))
      BY <2>3, <2>4, <2>5, <2>6
    <2> QED BY <2>7, <2>8, <2>9, Zenon DEF VisitOK, v
  <1>5. CASE ~tx.call[n].err
    <2>1. n \in Visited(tx) /\ \A k \in Children(tx, n) : VisitOK(tx, f[k], k)
      BY <1>3, <1>5
    <2>2. \A i \in DOMAIN kids : kids[i] \in Children(tx, n)
      <3>1. kids \in Seq(Children(tx, n))
        BY ChildrenFacts, UpwardsEnumerates DEF Enumerates
      <3> HIDE DEF kids
      <3> QED BY <3>1
    <2>3. \A k \in Children(tx, n) : \E i \in DOMAIN kids : kids[i] = k
      <3>1. Enumerates(kids, Children(tx, n), {p \in Children(tx, n) \X Children(tx, n) : p[1] < p[2]})
        BY ChildrenFacts, UpwardsEnumerates
      <3> QED BY <3>1, Zenon DEF Enumerates
    <2>4. /\ DOMAIN cc = DOMAIN kids /\ \A i \in DOMAIN kids : cc[i] = f[kids[i]].calls
          /\ cc = [i \in DOMAIN kids |-> cc[i]]
          /\ DOMAIN ee = DOMAIN kids /\ \A i \in DOMAIN kids : ee[i] = f[kids[i]].events
          /\ ee = [i \in DOMAIN kids |-> ee[i]]
      <3> HIDE DEF kids
      <3> QED OBVIOUS
    <2>5. kids = Upwards(Children(tx, n))
      OBVIOUS
    <2> HIDE DEF kids, cc, ee
    <2> DEFINE CD == [k \in Children(tx, n) |-> Within(tx, k)]
               ED == [k \in Children(tx, n) |-> LeftOver(tx, k)]
               callsIn == UNION {Within(tx, k) : k \in Children(tx, n)}
               eventsIn == UNION {LeftOver(tx, k) : k \in Children(tx, n)}
    <2>6. \A k \in Children(tx, n) : CD[k] = Within(tx, k) /\ ED[k] = LeftOver(tx, k)
      OBVIOUS
    <2>7. UNION {CD[k] : k \in Children(tx, n)} = callsIn /\ UNION {ED[k] : k \in Children(tx, n)} = eventsIn
      OBVIOUS
    <2> HIDE DEF CD, ED, callsIn, eventsIn
    <2>8. AllInside(tx, n, CD) /\ AllInside(tx, n, ED)
      BY <2>6, RecordedFacts DEF Within, LeftOver, Open, AllInside
    <2>9. /\ callList \in Seq(Entry) /\ Labelled(callList, callOf, callsIn)
          /\ \A p \in DOMAIN callList : EntryOK(tx, callList[p])
      <3>1. KidsLabelled(kids, Entry, cc, callOf, CD)
        BY <2>1, <2>2, <2>4, <2>6 DEF VisitOK, KidsLabelled
      <3>2. callList = FlattenSeq(cc)
        OBVIOUS
      <3> HIDE DEF callList
      <3>3. callList \in Seq(Entry) /\ FromSome(callList, cc) /\ Labelled(callList, callOf, callsIn)
        BY <2>5, <2>7, <2>8, <3>1, <3>2, MergeKids, Zenon
      <3>4. \A i \in DOMAIN cc : \A j \in DOMAIN cc[i] : EntryOK(tx, cc[i][j])
        BY <2>1, <2>2, <2>4 DEF VisitOK
      <3> QED BY <3>3, <3>4 DEF FromSome
    <2>10. below \in Seq(Nat) /\ Labelled(below, eventOf, eventsIn)
      <3>1. KidsLabelled(kids, Nat, ee, eventOf, ED)
        BY <2>1, <2>2, <2>4, <2>6 DEF VisitOK, KidsLabelled
      <3>2. below = FlattenSeq(ee)
        OBVIOUS
      <3> HIDE DEF below
      <3> QED BY <2>5, <2>7, <2>8, <3>1, <3>2, MergeKids, Zenon
    <2> HIDE DEF callList, below
    <2>11. /\ Within(tx, n) = (Recorded(tx) \cap {n}) \cup callsIn
           /\ Open(tx, n) = {m \in {n} : tx.call[m].logs = "event"} \cup eventsIn
      BY <2>1, WithinStep DEF callsIn, eventsIn
    <2>12. n \notin callsIn /\ n \notin eventsIn
      <3>1. ASSUME NEW k \in Children(tx, n), NEW d \in CD[k] \cup ED[k] PROVE d # n
        <4>1. d \in DOMAIN tx.call /\ k \in Around(tx, d)
          BY <2>8 DEF AllInside
        <4>2. k > n /\ k <= d /\ k \in Nat /\ d \in Nat
          BY <4>1, ChildrenFacts, AroundFacts, RecordedFacts
        <4> QED BY <1>2, <4>2
      <3> QED BY <2>6, <3>1 DEF callsIn, eventsIn
    <2>13. events \in Seq(Nat) /\ Labelled(events, eventOf, Open(tx, n))
      <3>1. CASE tx.call[n].logs = "event"
        <4>1. events = Append(below, n)
          <5>1. own = <<n>>
            BY <3>1
          <5>2. below \o <<n>> = Append(below, n)
            BY <2>10
          <5> QED BY <5>1, <5>2
        <4>2. eventOf[n] = n
          BY <1>2 DEF eventOf
        <4>3. Append(below, n) \in Seq(Nat) /\ Labelled(Append(below, n), eventOf, {n} \cup eventsIn)
          BY <1>2, <2>10, <2>12, <4>2, AppendLabels
        <4>4. Open(tx, n) = {n} \cup eventsIn
          BY <2>11, <3>1
        <4> QED BY <4>1, <4>3, <4>4
      <3>2. CASE tx.call[n].logs # "event"
        <4>1. events = below
          <5>1. own = <<>>
            BY <3>2
          <5>2. below \o <<>> = below
            BY <2>10
          <5> QED BY <5>1, <5>2
        <4>2. Open(tx, n) = eventsIn
          BY <2>11, <3>2
        <4> QED BY <2>10, <4>1, <4>2
      <3> QED BY <3>1, <3>2
    <2> HIDE DEF events
    <2>14. recorded <=> n \in Recorded(tx)
      <3>1. \A k \in Children(tx, n) : f[k].isErr = tx.call[k].err
        BY <2>1 DEF VisitOK
      <3>2. includeErr <=> \E k \in Children(tx, n) : tx.call[k].err
        BY <2>2, <2>3, <3>1
      <3> HIDE DEF includeErr
      <3> QED BY <2>1, <3>2 DEF Recorded
    <2> HIDE DEF recorded
    <2>15. /\ v.calls = (IF recorded THEN Append(callList, [call |-> n, logs |-> events]) ELSE callList)
           /\ v.events = handedUp(recorded, events) /\ v.isErr = FALSE
      BY <1>1, <1>5
    <2>16. v.isErr = tx.call[n].err
      BY <1>2, <1>5, <2>15
    <2>17. CASE n \in Recorded(tx)
      <3> DEFINE e == [call |-> n, logs |-> events]
      <3>1. v.calls = Append(callList, e) /\ v.events = <<>>
        BY <2>14, <2>15, <2>17 DEF handedUp
      <3>2. e \in Entry /\ e.logs = events /\ e.call = n /\ callOf[e] = n
        BY <1>2, <2>13 DEF Entry, callOf
      <3> HIDE DEF e
      <3>3. EntryOK(tx, e)
        BY <2>13, <2>17, <3>2, RecordedFacts DEF EntryOK
      <3>4. /\ v.calls \in Seq(Entry) /\ Labelled(v.calls, callOf, {n} \cup callsIn)
            /\ \A p \in DOMAIN v.calls : v.calls[p] = e \/ \E q \in DOMAIN callList : v.calls[p] = callList[q]
        BY <2>9, <2>12, <3>1, <3>2, AppendLabels
      <3>5. Within(tx, n) = {n} \cup callsIn /\ LeftOver(tx, n) = {}
        BY <2>11, <2>17 DEF LeftOver
      <3>6. \A p \in DOMAIN v.calls : EntryOK(tx, v.calls[p])
        BY <2>9, <3>3, <3>4
      <3>7. v.events \in Seq(Nat) /\ Labelled(v.events, eventOf, {})
        BY <3>1 DEF Labelled
      <3> QED BY <2>16, <3>4, <3>5, <3>6, <3>7, Zenon DEF VisitOK, v
    <2>18. CASE n \notin Recorded(tx)
      <3>1. v.calls = callList /\ v.events = events
        BY <2>14, <2>15, <2>18 DEF handedUp
      <3>2. Within(tx, n) = callsIn /\ LeftOver(tx, n) = Open(tx, n)
        BY <2>11, <2>18 DEF LeftOver
      <3> QED BY <2>9, <2>13, <2>16, <3>1, <3>2, Zenon DEF VisitOK, v
    <2> QED BY <2>17, <2>18
  <1> QED BY <1>4, <1>5

(***************************************************************************)
(* extractcall records what Recorded says, each call once and with exactly  *)
(* the events that are its own.                                             *)
(***************************************************************************)
LEMMA ExtractExact ==
  ASSUME NEW tx, IsTree(tx)
  PROVE  /\ extractcall(tx) \in Seq(Entry) /\ Labelled(extractcall(tx), callOf, Recorded(tx))
         /\ \A p \in DOMAIN extractcall(tx) : EntryOK(tx, extractcall(tx)[p])
  <1> DEFINE f == visited(tx)
             G == {n \in DOMAIN tx.call : n = 1 \/ tx.parent[n] \in Visited(tx) => VisitOK(tx, f[n], n)}
  <1>1. (\A n \in DOMAIN tx.call : f[n] = visitCall(tx, f, n)) /\ extractcall(tx) = f[1].calls
    BY ExtractVisits
  <1> HIDE DEF f
  <1>2. ASSUME NEW n \in DOMAIN tx.call, \A k \in Children(tx, n) : k \in G PROVE n \in G
    <2> SUFFICES ASSUME n = 1 \/ tx.parent[n] \in Visited(tx) PROVE VisitOK(tx, f[n], n)
      OBVIOUS
    <2>1. n \in Visited(tx) => \A k \in Children(tx, n) : VisitOK(tx, f[k], k)
      BY <1>2, ChildrenFacts
    <2>2. VisitOK(tx, visitCall(tx, f, n), n)
      BY <2>1, VisitStep
    <2> QED BY <1>1, <2>2
  <1> HIDE DEF G
  <1>3. 1 \in G
    BY <1>2, InnerInduction, TreeFacts
  <1>4. VisitOK(tx, f[1], 1)
    BY <1>3 DEF G
  <1>5. Within(tx, 1) = Recorded(tx)
    BY AroundFacts, RecordedFacts DEF Within
  <1> QED BY <1>1, <1>4, <1>5 DEF VisitOK

(***************************************************************************)
(* The order of strings.                                                    *)
(***************************************************************************)
\* As numbered lists of numbers, without regard to their type.
Lex(s, m, t, n) ==
    \/ \E i \in 1..m : i <= n /\ s[i] < t[i] /\ \A k \in 1..(i - 1) : s[k] = t[k]
    \/ m < n /\ \A k \in 1..m : s[k] = t[k]

Letters(s, m) == \A i \in 1..m : s[i] \in Nat

LEMMA LexAt ==
  ASSUME NEW s, NEW m \in Nat, NEW t, NEW n \in Nat, NEW i \in 1..m,
         i <= n, s[i] < t[i], \A k \in 1..(i - 1) : s[k] = t[k]
  PROVE  Lex(s, m, t, n)
  BY DEF Lex

LEMMA LexIrreflexive ==
  ASSUME NEW s, NEW m \in Nat, Letters(s, m)
  PROVE  ~Lex(s, m, s, m)
  BY DEF Lex, Letters

LEMMA LexTransitive ==
  ASSUME NEW s, NEW m \in Nat, Letters(s, m), NEW t, NEW n \in Nat, Letters(t, n),
         NEW u, NEW l \in Nat, Letters(u, l), Lex(s, m, t, n), Lex(t, n, u, l)
  PROVE  Lex(s, m, u, l)
  <1>1. CASE m < n /\ \A k \in 1..m : s[k] = t[k]
    <2>1. CASE n < l /\ \A k \in 1..n : t[k] = u[k]
      <3>1. m < l /\ \A k \in 1..m : k \in 1..n
        BY <1>1, <2>1
      <3>2. \A k \in 1..m : s[k] = u[k]
        BY <1>1, <2>1, <3>1
      <3> QED BY <3>1, <3>2 DEF Lex
    <2>2. CASE \E j \in 1..n : j <= l /\ t[j] < u[j] /\ \A k \in 1..(j - 1) : t[k] = u[k]
      <3>1. PICK j \in 1..n : j <= l /\ t[j] < u[j] /\ \A k \in 1..(j - 1) : t[k] = u[k]
        BY <2>2
      <3>2. CASE j <= m
        <4>1. j \in 1..m /\ \A k \in 1..(j - 1) : k \in 1..m
          BY <3>1, <3>2
        <4>2. s[j] < u[j] /\ \A k \in 1..(j - 1) : s[k] = u[k]
          BY <1>1, <3>1, <4>1
        <4> QED BY <3>1, <4>1, <4>2, LexAt
      <3>3. CASE m < j
        <4>1. m < l /\ \A k \in 1..m : k \in 1..(j - 1)
          BY <3>1, <3>3
        <4>2. \A k \in 1..m : s[k] = u[k]
          BY <1>1, <3>1, <4>1
        <4> QED BY <4>1, <4>2 DEF Lex
      <3> QED BY <3>2, <3>3
    <2> QED BY <2>1, <2>2 DEF Lex
  <1>2. CASE \E i \in 1..m : i <= n /\ s[i] < t[i] /\ \A k \in 1..(i - 1) : s[k] = t[k]
    <2>1. PICK i \in 1..m : i <= n /\ s[i] < t[i] /\ \A k \in 1..(i - 1) : s[k] = t[k]
      BY <1>2
    <2>2. CASE n < l /\ \A k \in 1..n : t[k] = u[k]
      <3>1. i <= l /\ i \in 1..n /\ \A k \in 1..(i - 1) : k \in 1..n
        BY <2>1, <2>2
      <3>2. s[i] < u[i] /\ \A k \in 1..(i - 1) : s[k] = u[k]
        BY <2>1, <2>2, <3>1
      <3> QED BY <3>1, <3>2, LexAt
    <2>3. CASE \E j \in 1..n : j <= l /\ t[j] < u[j] /\ \A k \in 1..(j - 1) : t[k] = u[k]
      <3>1. PICK j \in 1..n : j <= l /\ t[j] < u[j] /\ \A k \in 1..(j - 1) : t[k] = u[k]
        BY <2>3
      <3>2. CASE i < j
        <4>1. i <= l /\ i \in 1..(j - 1) /\ \A k \in 1..(i - 1) : k \in 1..(j - 1)
          BY <2>1, <3>1, <3>2
        <4>2. s[i] < u[i] /\ \A k \in 1..(i - 1) : s[k] = u[k]
          BY <2>1, <3>1, <4>1
        <4> QED BY <4>1, <4>2, LexAt
      <3>3. CASE j < i
        <4>1. j \in 1..m /\ j \in 1..(i - 1) /\ \A k \in 1..(j - 1) : k \in 1..(i - 1)
          BY <2>1, <3>1, <3>3
        <4>2. s[j] < u[j] /\ \A k \in 1..(j - 1) : s[k] = u[k]
          BY <2>1, <3>1, <4>1
        <4> QED BY <3>1, <4>1, <4>2, LexAt
      <3>4. CASE i = j
        <4>1. s[i] \in Nat /\ t[i] \in Nat /\ u[i] \in Nat
          BY <2>1, <3>1, <3>4 DEF Letters
        <4>2. s[i] < u[i]
          BY <2>1, <3>1, <3>4, <4>1
        <4>3. \A k \in 1..(i - 1) : s[k] = u[k]
          BY <2>1, <3>1, <3>4
        <4> QED BY <3>1, <3>4, <4>2, <4>3, LexAt
      <3> QED BY <3>2, <3>3, <3>4
    <2> QED BY <2>2, <2>3 DEF Lex
  <1> QED BY <1>1, <1>2 DEF Lex

LEMMA LexTotal ==
  ASSUME NEW s, NEW m \in Nat, Letters(s, m), NEW t, NEW n \in Nat, Letters(t, n)
  PROVE  Lex(s, m, t, n) \/ Lex(t, n, s, m) \/ (m = n /\ \A k \in 1..m : s[k] = t[k])
  <1> DEFINE D == {i \in 1..m : i <= n /\ s[i] # t[i]}
  <1>1. CASE D # {}
    <2>1. D \in SUBSET Nat
      OBVIOUS
    <2>2. PICK i \in D : \A j \in D : i <= j
      <3> HIDE DEF D
      <3> QED BY <1>1, <2>1, NatMinimum
    <2>3. i \in 1..m /\ i \in 1..n /\ i <= n /\ i <= m /\ s[i] # t[i]
      OBVIOUS
    <2>4. s[i] \in Nat /\ t[i] \in Nat
      BY <2>3 DEF Letters
    <2>5. \A j \in 1..(i - 1) : s[j] = t[j]
      <3> SUFFICES ASSUME NEW j \in 1..(i - 1), s[j] # t[j] PROVE FALSE
        OBVIOUS
      <3>1. j \in D /\ j < i
        BY <2>3
      <3> HIDE DEF D
      <3>2. i <= j
        BY <2>2, <3>1
      <3> QED BY <2>3, <3>1, <3>2
    <2>6. CASE s[i] < t[i]
      BY <2>3, <2>5, <2>6, LexAt
    <2>7. CASE t[i] < s[i]
      <3>1. \A j \in 1..(i - 1) : t[j] = s[j]
        BY <2>5
      <3> QED BY <2>3, <2>7, <3>1, LexAt
    <2> HIDE DEF D
    <2> QED BY <2>3, <2>4, <2>6, <2>7
  <1>2. CASE D = {}
    <2>1. \A i \in 1..m : i <= n => s[i] = t[i]
      BY <1>2
    <2> HIDE DEF D
    <2>2. CASE m < n
      <3>1. \A k \in 1..m : s[k] = t[k]
        BY <2>1, <2>2
      <3> QED BY <2>2, <3>1 DEF Lex
    <2>3. CASE n < m
      <3>1. \A k \in 1..n : k \in 1..m /\ k <= n
        BY <2>3
      <3>2. \A k \in 1..n : t[k] = s[k]
        BY <2>1, <3>1
      <3> QED BY <2>3, <3>2 DEF Lex
    <2>4. CASE m = n
      BY <2>1, <2>4
    <2> QED BY <2>2, <2>3, <2>4
  <1> QED BY <1>1, <1>2

\* A sequence is made of its elements.
LEMMA SameSequence ==
  ASSUME NEW S, NEW s \in Seq(S), NEW t \in Seq(S),
         Len(s) = Len(t), \A k \in 1..Len(s) : s[k] = t[k]
  PROVE  s = t
  BY SMT

LEMMA BeforeMeans ==
  ASSUME NEW s \in Seq(Nat), NEW t \in Seq(Nat)
  PROVE  Before(s, t) <=> Lex(s, Len(s), t, Len(t))
  <1>1. Len(s) \in Nat /\ Len(t) \in Nat /\ DOMAIN s = 1..Len(s) /\ DOMAIN t = 1..Len(t)
    OBVIOUS
  <1>2. IsStrictPrefix(s, t) <=> Len(s) < Len(t) /\ \A k \in 1..Len(s) : s[k] = t[k]
    <2>1. ASSUME Len(s) <= Len(t)
          PROVE  SubSeq(s, 1, Len(s)) = SubSeq(t, 1, Len(s)) <=> \A k \in 1..Len(s) : s[k] = t[k]
      <3>1. /\ SubSeq(s, 1, Len(s)) = [k \in 1..Len(s) |-> s[k]]
            /\ SubSeq(t, 1, Len(s)) = [k \in 1..Len(s) |-> t[k]]
        BY <1>1, <2>1
      <3>2. [k \in 1..Len(s) |-> s[k]] = [k \in 1..Len(s) |-> t[k]]
               <=> \A k \in 1..Len(s) : s[k] = t[k]
        <4>1. ASSUME [k \in 1..Len(s) |-> s[k]] = [k \in 1..Len(s) |-> t[k]], NEW k \in 1..Len(s)
              PROVE  s[k] = t[k]
          <5>1. [l \in 1..Len(s) |-> s[l]][k] = [l \in 1..Len(s) |-> t[l]][k]
            BY <4>1, Zenon
          <5> QED BY <5>1, Zenon
        <4>2. ASSUME \A k \in 1..Len(s) : s[k] = t[k]
              PROVE  [k \in 1..Len(s) |-> s[k]] = [k \in 1..Len(s) |-> t[k]]
          BY <4>2, Zenon
        <4> QED BY <4>1, <4>2, Zenon
      <3> QED BY <3>1, <3>2, Zenon
    <2>2. Len(s) = Len(t) /\ (\A k \in 1..Len(s) : s[k] = t[k]) => s = t
      BY SameSequence
    <2>3. s = t => Len(s) = Len(t)
      OBVIOUS
    <2>4. /\ Len(s) < Len(t) <=> Len(s) <= Len(t) /\ Len(s) # Len(t)
          /\ Len(s) <= Len(t) => Len(s) < Len(t) \/ Len(s) = Len(t)
      <3>1. \A m, n \in Nat : (m < n <=> m <= n /\ m # n) /\ (m <= n => m < n \/ m = n)
        OBVIOUS
      <3> QED BY <1>1, <3>1, Zenon
    <2> QED BY <2>1, <2>2, <2>3, <2>4, Zenon DEF IsStrictPrefix, IsPrefix
  <1>3. \A i : i \in (1..Len(s)) \cap (1..Len(t)) <=> i \in 1..Len(s) /\ i <= Len(t)
    BY <1>1
  <1> QED BY <1>1, <1>2, <1>3, Zenon DEF Before, Lex

LEMMA BeforeStrict ==
  ASSUME NEW s \in Seq(Nat), NEW t \in Seq(Nat), NEW u \in Seq(Nat)
  PROVE  /\ ~Before(s, s)
         /\ Before(s, t) /\ Before(t, u) => Before(s, u)
         /\ s # t => Before(s, t) \/ Before(t, s)
  <1>1. /\ Len(s) \in Nat /\ Letters(s, Len(s))
        /\ Len(t) \in Nat /\ Letters(t, Len(t))
        /\ Len(u) \in Nat /\ Letters(u, Len(u))
    BY DEF Letters
  <1>2. /\ Before(s, s) <=> Lex(s, Len(s), s, Len(s))
        /\ Before(s, t) <=> Lex(s, Len(s), t, Len(t))
        /\ Before(t, s) <=> Lex(t, Len(t), s, Len(s))
        /\ Before(t, u) <=> Lex(t, Len(t), u, Len(u))
        /\ Before(s, u) <=> Lex(s, Len(s), u, Len(u))
    BY BeforeMeans
  <1>3. ~Lex(s, Len(s), s, Len(s))
    BY <1>1, LexIrreflexive
  <1>4. Lex(s, Len(s), t, Len(t)) /\ Lex(t, Len(t), u, Len(u)) => Lex(s, Len(s), u, Len(u))
    BY <1>1, LexTransitive
  <1>5. s # t => Lex(s, Len(s), t, Len(t)) \/ Lex(t, Len(t), s, Len(s))
    BY <1>1, LexTotal, SameSequence
  <1> QED BY <1>2, <1>3, <1>4, <1>5, Zenon

(***************************************************************************)
(* The digits of a number.                                                  *)
(***************************************************************************)
LEMMA DivTen ==
  ASSUME NEW n \in Nat
  PROVE  /\ n \div 10 \in Nat /\ n % 10 \in 0..9 /\ n = 10 * (n \div 10) + (n % 10)
         /\ n >= 10 => n \div 10 < n
         /\ n < 10 => n \div 10 = 0 /\ n % 10 = n
  <1>1. \A k \in Nat : \E q \in Nat, r \in 0..9 : k = 10 * q + r
    <2> DEFINE T == {k \in Nat : \E q \in Nat, r \in 0..9 : k = 10 * q + r}
    <2>1. 0 \in T
      <3>1. 0 = 10 * 0 + 0
        OBVIOUS
      <3> QED BY <3>1
    <2>2. ASSUME NEW k \in T PROVE k + 1 \in T
      <3>1. PICK q \in Nat, r \in 0..9 : k = 10 * q + r
        OBVIOUS
      <3>2. CASE r < 9
        <4>1. k + 1 = 10 * q + (r + 1) /\ r + 1 \in 0..9
          BY <3>1, <3>2
        <4> QED BY <4>1
      <3>3. CASE r = 9
        <4>1. k + 1 = 10 * (q + 1) + 0 /\ q + 1 \in Nat
          BY <3>1, <3>3
        <4> QED BY <4>1
      <3> QED BY <3>2, <3>3
    <2> HIDE DEF T
    <2>3. T = Nat
      <3>1. T \in SUBSET Nat
        BY DEF T
      <3> QED BY <2>1, <2>2, <3>1, SetInduction
    <2> QED BY <2>3 DEF T
  <1>2. PICK q \in Nat, r \in 0..9 : n = 10 * q + r
    BY <1>1
  <1>3. n \div 10 = q
    BY <1>2
  <1>4. n % 10 = r
    BY <1>2
  <1>5. n = 10 * (n \div 10) + (n % 10)
    <2>1. 10 * (n \div 10) + (n % 10) = 10 * q + r
      BY <1>3, <1>4, Zenon
    <2>2. n = 10 * q + r
      BY <1>2, Zenon
    <2>3. \A x : x = 10 * q + r => n = x
      BY <2>2, Zenon
    <2> QED BY <2>1, <2>3, Zenon
  <1>6. (n >= 10 => q < n) /\ (n < 10 => q = 0 /\ r = n)
    BY <1>2
  <1> QED BY <1>3, <1>4, <1>5, <1>6

digit(d, m) == IF m < 10 THEN <<m>> ELSE Append(d[m \div 10], m % 10)

Digitizing(n, d) == d = [m \in 0..n |-> IF m < 10 THEN <<m>> ELSE Append(d[m \div 10], m % 10)]

LEMMA DigitizingMeans ==
  ASSUME NEW n \in Nat, NEW d
  PROVE  Digitizing(n, d) <=> d = [m \in 0..n |-> digit(d, m)]
  BY Zenon DEF Digitizing, digit

LEMMA DigitizingExists ==
  ASSUME NEW n \in Nat
  PROVE  \E d : Digitizing(n, d)
  <1> DEFINE T == {k \in Nat : \E d : Digitizing(k, d)}
  <1>1. 0 \in T
    <2> DEFINE d == [m \in 0..0 |-> <<m>>]
    <2>1. \A m \in 0..0 : digit(d, m) = <<m>>
      BY DEF digit
    <2>2. d = [m \in 0..0 |-> digit(d, m)]
      <3>1. \A m \in 0..0 : d[m] = <<m>>
        OBVIOUS
      <3>2. d = [m \in 0..0 |-> d[m]]
        OBVIOUS
      <3> HIDE DEF d
      <3> QED BY <2>1, <3>1, <3>2
    <2> HIDE DEF d
    <2>3. Digitizing(0, d)
      BY <2>2, DigitizingMeans
    <2> QED BY <2>3
  <1>2. ASSUME NEW k \in T PROVE k + 1 \in T
    <2>1. k \in Nat /\ k + 1 \in Nat
      OBVIOUS
    <2>2. PICK g : Digitizing(k, g)
      OBVIOUS
    <2>3. g = [m \in 0..k |-> digit(g, m)]
      BY <2>1, <2>2, DigitizingMeans
    <2> DEFINE v == digit(g, k + 1)
               e(m) == IF m = k + 1 THEN v ELSE g[m]
               d == [m \in 0..(k + 1) |-> e(m)]
    <2>4. \A m \in 0..(k + 1) : d[m] = e(m)
      <3> HIDE DEF e
      <3> QED OBVIOUS
    <2>5. d = [m \in 0..(k + 1) |-> d[m]]
      <3> HIDE DEF e
      <3> QED OBVIOUS
    <2> HIDE DEF d
    <2>6. ASSUME NEW m \in 0..(k + 1) PROVE d[m] = digit(d, m)
      <3>1. m \in Nat /\ (m = k + 1 \/ m \in 0..k)
        BY <2>1
      <3>2. m >= 10 => m \div 10 \in 0..k
        BY <2>1, <3>1, DivTen
      <3>3. m >= 10 => d[m \div 10] = g[m \div 10]
        <4> DEFINE q == m \div 10
        <4> SUFFICES ASSUME q \in 0..k PROVE d[q] = g[q]
          BY <3>2
        <4> HIDE DEF q, v
        <4>1. q # k + 1 /\ q \in 0..(k + 1)
          BY <2>1
        <4> QED BY <2>4, <4>1
      <3>4. digit(d, m) = digit(g, m)
        <4>1. ~(m < 10) => m >= 10
          BY <3>1
        <4> QED BY <3>3, <4>1, Zenon DEF digit
      <3>5. CASE m = k + 1
        <4> HIDE DEF v
        <4>1. d[m] = v
          BY <2>4, <3>5
        <4> QED BY <3>4, <3>5, <4>1 DEF v
      <3>6. CASE m \in 0..k
        <4>1. g[m] = digit(g, m)
          BY <2>3, <3>6, Zenon
        <4>2. m # k + 1
          BY <2>1, <3>6
        <4> HIDE DEF v
        <4>3. d[m] = g[m]
          BY <2>4, <4>2
        <4> QED BY <3>4, <4>1, <4>3
      <3> QED BY <3>1, <3>5, <3>6
    <2>7. d = [m \in 0..(k + 1) |-> digit(d, m)]
      BY <2>5, <2>6
    <2>8. Digitizing(k + 1, d)
      BY <2>1, <2>7, DigitizingMeans
    <2> QED BY <2>8
  <1> HIDE DEF T
  <1>3. T = Nat
    <2>1. T \in SUBSET Nat
      BY DEF T
    <2> QED BY <1>1, <1>2, <2>1, SetInduction
  <1> QED BY <1>3 DEF T

LEMMA DigitizingSame ==
  ASSUME NEW n \in Nat, NEW k \in Nat, NEW d, NEW e, Digitizing(n, d), Digitizing(k, e)
  PROVE  \A m \in Nat : m <= n /\ m <= k => d[m] = e[m]
  <1> DEFINE T == {m \in Nat : m <= n /\ m <= k => d[m] = e[m]}
  <1>1. d = [m \in 0..n |-> digit(d, m)] /\ e = [m \in 0..k |-> digit(e, m)]
    BY DigitizingMeans
  <1>2. ASSUME NEW m \in Nat, \A j \in 0..(m - 1) : j \in T PROVE m \in T
    <2> SUFFICES ASSUME m <= n, m <= k PROVE d[m] = e[m]
      OBVIOUS
    <2>1. m \in 0..n /\ m \in 0..k
      OBVIOUS
    <2>2. d[m] = digit(d, m) /\ e[m] = digit(e, m)
      BY <1>1, <2>1, Zenon
    <2>3. ~(m < 10) => d[m \div 10] = e[m \div 10]
      <3> SUFFICES ASSUME m >= 10 PROVE d[m \div 10] = e[m \div 10]
        OBVIOUS
      <3> DEFINE q == m \div 10
      <3>1. q \in Nat /\ q < m
        BY DivTen
      <3> HIDE DEF q
      <3>2. q \in T /\ q <= n /\ q <= k
        BY <1>2, <3>1
      <3>3. d[q] = e[q]
        BY <3>2
      <3> QED BY <3>3 DEF q
    <2>4. digit(d, m) = digit(e, m)
      BY <2>3, Zenon DEF digit
    <2> QED BY <2>2, <2>4
  <1>3. T = Nat
    <2>1. T \in SUBSET Nat
      OBVIOUS
    <2> HIDE DEF T
    <2> QED BY <1>2, <2>1, StrongInduction
  <1> QED BY <1>3

LEMMA DigitsStep ==
  ASSUME NEW n \in Nat
  PROVE  Digits(n) = IF n < 10 THEN <<n>> ELSE Append(Digits(n \div 10), n % 10)
  <1> DEFINE d == CHOOSE d : Digitizing(n, d)
             k == n \div 10
             e == CHOOSE e : Digitizing(k, e)
  <1>1. k \in Nat /\ (n >= 10 => k < n)
    BY DivTen
  <1>2. Digitizing(n, d) /\ Digitizing(k, e)
    BY <1>1, DigitizingExists, Zenon
  <1>3. Digits(n) = d[n] /\ Digits(k) = e[k]
    BY Zenon DEF Digits, Digitizing
  <1> HIDE DEF d, e
  <1>4. d = [m \in 0..n |-> digit(d, m)]
    BY <1>2, DigitizingMeans
  <1>5. d[n] = digit(d, n)
    <2>1. n \in 0..n
      OBVIOUS
    <2> QED BY <1>4, <2>1, Zenon
  <1>6. n >= 10 => d[k] = e[k]
    BY <1>1, <1>2, DigitizingSame
  <1>7. ~(n < 10) => n >= 10
    OBVIOUS
  <1> QED BY <1>3, <1>5, <1>6, <1>7, Zenon DEF digit, k

LEMMA DigitsType ==
  ASSUME NEW n \in Nat
  PROVE  Digits(n) \in Seq(0..9) /\ Len(Digits(n)) \in Nat \ {0}
  <1> DEFINE T == {m \in Nat : Digits(m) \in Seq(0..9) /\ Len(Digits(m)) \in Nat \ {0}}
  <1>1. ASSUME NEW m \in Nat, \A j \in 0..(m - 1) : j \in T PROVE m \in T
    <2>1. CASE m < 10
      <3>1. Digits(m) = <<m>>
        BY <2>1, DigitsStep
      <3>2. <<m>> \in Seq(0..9) /\ Len(<<m>>) = 1
        BY <2>1
      <3> HIDE DEF T
      <3>3. Digits(m) \in Seq(0..9) /\ Len(Digits(m)) \in Nat \ {0}
        BY <3>1, <3>2
      <3> QED BY <3>3 DEF T
    <2>2. CASE ~(m < 10)
      <3> DEFINE q == m \div 10
                 r == m % 10
      <3>1. q \in Nat /\ q < m /\ r \in 0..9
        BY <2>2, DivTen
      <3>2. Digits(m) = Append(Digits(q), r)
        BY <2>2, DigitsStep
      <3> HIDE DEF q, r
      <3>3. q \in T
        BY <1>1, <3>1
      <3>4. Digits(q) \in Seq(0..9) /\ Len(Digits(q)) \in Nat \ {0}
        BY <3>3
      <3>5. Append(Digits(q), r) \in Seq(0..9) /\ Len(Append(Digits(q), r)) = Len(Digits(q)) + 1
        BY <3>1, <3>4
      <3> HIDE DEF T
      <3>6. Digits(m) \in Seq(0..9) /\ Len(Digits(m)) \in Nat \ {0}
        BY <3>2, <3>4, <3>5
      <3> QED BY <3>6 DEF T
    <2> QED BY <2>1, <2>2
  <1>2. T = Nat
    <2>1. T \in SUBSET Nat
      OBVIOUS
    <2> HIDE DEF T
    <2> QED BY <1>1, <2>1, StrongInduction
  <1> QED BY <1>2

(***************************************************************************)
(* Numbers filled up with zeros are ordered like the strings they become.   *)
(***************************************************************************)
\* The digit i of n, filled up to w digits.
PadAt(w, n, i) ==
    IF i <= w - Len(Digits(n)) THEN 0 ELSE Digits(n)[i - (w - Len(Digits(n)))]

LEMMA DigitsNat ==
  ASSUME NEW n \in Nat
  PROVE  Digits(n) \in Seq(Nat) /\ Len(Digits(n)) \in Nat \ {0}
  <1>1. \A d \in Seq(0..9) : d \in Seq(Nat)
    <2> TAKE d \in Seq(0..9)
    <2>1. Len(d) \in Nat /\ DOMAIN d = 1..Len(d) /\ d = [i \in 1..Len(d) |-> d[i]]
      OBVIOUS
    <2>2. \A i \in 1..Len(d) : d[i] \in Nat
      OBVIOUS
    <2> QED BY <2>1, <2>2
  <1> QED BY <1>1, DigitsType, Zenon

LEMMA DigitsFacts ==
  ASSUME NEW n \in Nat
  PROVE  /\ Digits(n) \in Seq(Nat) /\ Len(Digits(n)) \in Nat \ {0}
         /\ n < 10 => Len(Digits(n)) = 1 /\ Digits(n)[1] = n
         /\ n >= 10 => /\ Len(Digits(n)) = Len(Digits(n \div 10)) + 1
                       /\ \A i \in 1..Len(Digits(n \div 10)) : Digits(n)[i] = Digits(n \div 10)[i]
                       /\ Digits(n)[Len(Digits(n))] = n % 10
  <1>1. Digits(n) \in Seq(Nat) /\ Len(Digits(n)) \in Nat \ {0}
    BY DigitsNat, Zenon
  <1>2. ASSUME n < 10 PROVE Len(Digits(n)) = 1 /\ Digits(n)[1] = n
    <2>1. Digits(n) = <<n>>
      BY <1>2, DigitsStep
    <2> QED BY <2>1
  <1>3. ASSUME n >= 10
        PROVE  /\ Len(Digits(n)) = Len(Digits(n \div 10)) + 1
               /\ \A i \in 1..Len(Digits(n \div 10)) : Digits(n)[i] = Digits(n \div 10)[i]
               /\ Digits(n)[Len(Digits(n))] = n % 10
    <2> DEFINE q == n \div 10
               r == n % 10
               d == Digits(q)
    <2>1. q \in Nat /\ r \in Nat
      BY DivTen
    <2>2. Digits(n) = Append(d, r)
      <3>1. ~(n < 10)
        BY <1>3
      <3> QED BY <3>1, DigitsStep, Zenon
    <2> HIDE DEF q, r
    <2>3. d \in Seq(Nat)
      BY <2>1, DigitsNat, Zenon
    <2> HIDE DEF d
    <2>4. /\ Len(Append(d, r)) = Len(d) + 1 /\ Append(d, r)[Len(d) + 1] = r
          /\ \A i \in 1..Len(d) : Append(d, r)[i] = d[i]
      BY <2>1, <2>3
    <2>5. /\ Len(Digits(n)) = Len(d) + 1 /\ Digits(n)[Len(Digits(n))] = r
          /\ \A i \in 1..Len(d) : Digits(n)[i] = d[i]
      BY <2>2, <2>4, Zenon
    <2> QED BY <2>5 DEF d, q, r
  <1> QED BY <1>1, <1>2, <1>3

LEMMA PadStep ==
  ASSUME NEW w \in Nat, NEW n \in Nat, Len(Digits(n)) <= w + 1
  PROVE  /\ PadAt(w + 1, n, w + 1) = n % 10
         /\ \A i \in 1..w : PadAt(w + 1, n, i) = PadAt(w, n \div 10, i)
  <1>1. CASE n < 10
    <2>1. n \div 10 = 0 /\ n % 10 = n
      BY <1>1, DivTen
    <2>2. /\ Len(Digits(n)) = 1 /\ Digits(n)[1] = n
          /\ Len(Digits(0)) = 1 /\ Digits(0)[1] = 0
      BY <1>1, DigitsFacts
    <2>3. PadAt(w + 1, n, w + 1) = n
      <3>1. /\ ~(w + 1 <= (w + 1) - 1) /\ (w + 1) - ((w + 1) - 1) = 1
        OBVIOUS
      <3> QED BY <2>2, <3>1, Zenon DEF PadAt
    <2>4. ASSUME NEW i \in 1..w PROVE PadAt(w + 1, n, i) = PadAt(w, 0, i)
      <3>1. PadAt(w + 1, n, i) = 0
        <4>1. i <= (w + 1) - 1
          OBVIOUS
        <4> QED BY <2>2, <4>1, Zenon DEF PadAt
      <3>2. PadAt(w, 0, i) = 0
        <4>1. i <= w - 1 \/ (~(i <= w - 1) /\ i - (w - 1) = 1)
          OBVIOUS
        <4> QED BY <2>2, <4>1, Zenon DEF PadAt
      <3> QED BY <3>1, <3>2
    <2> QED BY <2>1, <2>3, <2>4, Zenon
  <1>2. CASE n >= 10
    <2> DEFINE q == n \div 10
               r == n % 10
               l == Len(Digits(q))
               m == Len(Digits(n))
    <2>1. q \in Nat
      BY DivTen
    <2>2. l \in Nat \ {0} /\ m = l + 1 /\ m <= w + 1
      BY <1>2, <2>1, DigitsFacts, DigitsType
    <2>3. Digits(n)[m] = r /\ \A i \in 1..l : Digits(n)[i] = Digits(q)[i]
      BY <1>2, DigitsFacts, Zenon
    <2> HIDE DEF q, r
    <2>4. PadAt(w + 1, n, w + 1) = r
      <3>1. ~(w + 1 <= (w + 1) - m) /\ (w + 1) - ((w + 1) - m) = m
        <4> HIDE DEF l, m
        <4> QED BY <2>2
      <3> QED BY <2>3, <3>1, Zenon DEF PadAt
    <2>5. ASSUME NEW i \in 1..w PROVE PadAt(w + 1, n, i) = PadAt(w, q, i)
      <3>1. /\ (i <= (w + 1) - m <=> i <= w - l)
            /\ i - ((w + 1) - m) = i - (w - l)
            /\ ~(i <= w - l) => i - (w - l) \in 1..l
        <4> HIDE DEF l, m
        <4> QED BY <2>2
      <3>2. CASE i <= w - l
        BY <3>1, <3>2, Zenon DEF PadAt
      <3>3. CASE ~(i <= w - l)
        <4>1. Digits(n)[i - (w - l)] = Digits(q)[i - (w - l)]
          BY <2>3, <3>1, <3>3, Zenon
        <4> QED BY <3>1, <3>3, <4>1, Zenon DEF PadAt
      <3> QED BY <3>2, <3>3
    <2> QED BY <2>4, <2>5 DEF q, r
  <1> QED BY <1>1, <1>2

\* Where the strings of two numbers that fit differ first.
PadLess(w, a, b) ==
    \E i \in 1..w : /\ PadAt(w, a, i) < PadAt(w, b, i)
                    /\ \A j \in 1..(i - 1) : PadAt(w, a, j) = PadAt(w, b, j)

LEMMA PadOrder ==
  ASSUME NEW w \in Nat, NEW a \in Nat, NEW b \in Nat, a < b,
         Len(Digits(a)) <= w, Len(Digits(b)) <= w
  PROVE  PadLess(w, a, b)
  <1> DEFINE Fits(v, n) == Len(Digits(n)) <= v
             T == {v \in Nat : \A x, y \in Nat : x < y /\ Fits(v, x) /\ Fits(v, y) => PadLess(v, x, y)}
  <1>1. 0 \in T
    <2>1. \A x \in Nat : ~Fits(0, x)
      BY DigitsType
    <2> HIDE DEF Fits
    <2> QED BY <2>1
  <1>2. ASSUME NEW v \in T PROVE v + 1 \in T
    <2> SUFFICES ASSUME NEW x \in Nat, NEW y \in Nat, x < y, Fits(v + 1, x), Fits(v + 1, y)
                 PROVE  PadLess(v + 1, x, y)
      OBVIOUS
    <2> DEFINE p == x \div 10
               q == y \div 10
    <2>0. v \in Nat
      OBVIOUS
    <2>1. /\ p \in Nat /\ q \in Nat /\ x % 10 \in Nat /\ y % 10 \in Nat
          /\ x % 10 <= 9 /\ y % 10 <= 9
          /\ x = 10 * p + (x % 10) /\ y = 10 * q + (y % 10)
      BY DivTen
    <2>2. /\ PadAt(v + 1, x, v + 1) = x % 10 /\ \A i \in 1..v : PadAt(v + 1, x, i) = PadAt(v, p, i)
          /\ PadAt(v + 1, y, v + 1) = y % 10 /\ \A i \in 1..v : PadAt(v + 1, y, i) = PadAt(v, q, i)
      BY <2>0, PadStep
    <2> DEFINE r == x % 10
               s == y % 10
    <2>3. p <= q /\ (p = q => r < s) /\ (p < q => y >= 10)
      <3> HIDE DEF p, q, r, s
      <3>1. /\ p \in Nat /\ q \in Nat /\ r \in Nat /\ s \in Nat /\ r <= 9 /\ s <= 9
            /\ x = 10 * p + r /\ y = 10 * q + s
        BY <2>1 DEF r, s
      <3> QED BY <3>1
    <2>4. CASE p < q
      <3>1. y >= 10
        BY <2>3, <2>4
      <3>2. Len(Digits(y)) = Len(Digits(q)) + 1
        BY <3>1, DigitsFacts
      <3>3. Len(Digits(q)) \in Nat \ {0} /\ Len(Digits(p)) \in Nat \ {0}
        BY <2>1, DigitsType
      <3>4. Fits(v, q)
        BY <2>0, <3>2, <3>3
      <3>5. Fits(v, p)
        <4>1. CASE x >= 10
          <5>1. Len(Digits(x)) = Len(Digits(p)) + 1
            BY <4>1, DigitsFacts
          <5> QED BY <2>0, <3>3, <5>1
        <4>2. CASE x < 10
          <5>1. p = 0
            BY <4>2, DivTen
          <5>2. Len(Digits(0)) = 1
            BY DigitsFacts
          <5>3. Len(Digits(p)) = 1
            BY <5>1, <5>2, Zenon
          <5>4. Len(Digits(q)) <= v
            BY <3>4
          <5> HIDE DEF p, q
          <5> QED BY <2>0, <3>3, <5>3, <5>4
        <4> QED BY <4>1, <4>2
      <3> HIDE DEF p, q, Fits
      <3>6. PadLess(v, p, q)
        BY <2>1, <2>4, <3>4, <3>5
      <3>7. PICK i \in 1..v : /\ PadAt(v, p, i) < PadAt(v, q, i)
                              /\ \A j \in 1..(i - 1) : PadAt(v, p, j) = PadAt(v, q, j)
        BY <3>6 DEF PadLess
      <3>8. i \in 1..(v + 1) /\ \A j \in 1..(i - 1) : j \in 1..v
        BY <2>0
      <3>9. PadAt(v + 1, x, i) < PadAt(v + 1, y, i)
        BY <2>2, <3>7
      <3>10. \A j \in 1..(i - 1) : PadAt(v + 1, x, j) = PadAt(v + 1, y, j)
        BY <2>2, <3>7, <3>8
      <3> QED BY <3>8, <3>9, <3>10 DEF PadLess
    <2>5. CASE p = q
      <3>1. r < s
        BY <2>3, <2>5
      <3>2. \A j \in 1..((v + 1) - 1) : j \in 1..v
        BY <2>0
      <3>3. \A j \in 1..((v + 1) - 1) : PadAt(v + 1, x, j) = PadAt(v + 1, y, j)
        <4> HIDE DEF p, q
        <4> QED BY <2>2, <2>5, <3>2
      <3>4. v + 1 \in 1..(v + 1)
        BY <2>0
      <3>5. PadAt(v + 1, x, v + 1) < PadAt(v + 1, y, v + 1)
        BY <2>2, <3>1, Zenon
      <3> HIDE DEF r, s, p, q
      <3> QED BY <3>3, <3>4, <3>5, Zenon DEF PadLess
    <2> HIDE DEF p, q
    <2> QED BY <2>1, <2>3, <2>4, <2>5
  <1> HIDE DEF T
  <1>3. T = Nat
    <2>1. T \in SUBSET Nat
      BY DEF T
    <2> QED BY <1>1, <1>2, <2>1, SetInduction
  <1>4. w \in T
    BY <1>3
  <1> QED BY <1>4 DEF T

LEMMA DigitsDiffer ==
  ASSUME NEW a \in Nat, NEW b \in Nat, Digits(a) = Digits(b)
  PROVE  a = b
  <1>1. ASSUME NEW x \in Nat, NEW y \in Nat, Digits(x) = Digits(y), x < y PROVE FALSE
    <2> DEFINE w == Len(Digits(x))
    <2>1. w \in Nat /\ Len(Digits(x)) <= w /\ Len(Digits(y)) <= w
      BY <1>1, DigitsType
    <2>2. \A i : PadAt(w, x, i) = PadAt(w, y, i)
      BY <1>1, Zenon DEF PadAt
    <2>3. PadLess(w, x, y)
      BY <1>1, <2>1, PadOrder
    <2>4. PICK i \in 1..w : PadAt(w, x, i) < PadAt(w, y, i)
      BY <2>3 DEF PadLess
    <2>5. PadAt(w, x, i) \in Nat
      <3> DEFINE v == w - Len(Digits(x))
      <3>1. v = 0
        BY <2>1
      <3>2. i \in 1..Len(Digits(x)) /\ ~(i <= 0) /\ i - 0 = i
        BY <2>1
      <3>3. PadAt(w, x, i) = Digits(x)[i]
        BY <3>1, <3>2, Zenon DEF PadAt
      <3>4. Digits(x) \in Seq(Nat)
        BY DigitsFacts
      <3> QED BY <3>2, <3>3, <3>4
    <2> QED BY <2>2, <2>4, <2>5
  <1> QED BY <1>1

(***************************************************************************)
(* The names of files and of calls.                                         *)
(***************************************************************************)
LEMMA JoinTwo ==
  ASSUME NEW s \in Seq(Nat), NEW t \in Seq(Nat)
  PROVE  /\ s \o t \in Seq(Nat) /\ Len(s \o t) = Len(s) + Len(t)
         /\ Len(s) \in Nat /\ Len(t) \in Nat
         /\ \A i \in 1..Len(s) : (s \o t)[i] = s[i]
         /\ \A i \in 1..Len(t) : (s \o t)[Len(s) + i] = t[i]
  BY ConcatFacts

\* Joining three strings.
LEMMA JoinFacts ==
  ASSUME NEW s \in Seq(Nat), NEW t \in Seq(Nat), NEW u \in Seq(Nat)
  PROVE  /\ (s \o t) \o u \in Seq(Nat)
         /\ Len((s \o t) \o u) = Len(s) + Len(t) + Len(u)
         /\ \A i \in 1..Len(s) : ((s \o t) \o u)[i] = s[i]
         /\ \A i \in 1..Len(t) : ((s \o t) \o u)[Len(s) + i] = t[i]
         /\ \A i \in 1..Len(u) : ((s \o t) \o u)[Len(s) + Len(t) + i] = u[i]
  <1> DEFINE p == s \o t
  <1>1. /\ p \in Seq(Nat) /\ Len(p) = Len(s) + Len(t) /\ Len(s) \in Nat /\ Len(t) \in Nat
        /\ \A i \in 1..Len(s) : p[i] = s[i]
        /\ \A i \in 1..Len(t) : p[Len(s) + i] = t[i]
    BY JoinTwo, Zenon
  <1> HIDE DEF p
  <1>2. /\ p \o u \in Seq(Nat) /\ Len(p \o u) = Len(p) + Len(u) /\ Len(u) \in Nat
        /\ \A i \in 1..Len(p) : (p \o u)[i] = p[i]
        /\ \A i \in 1..Len(u) : (p \o u)[Len(p) + i] = u[i]
    BY <1>1, JoinTwo, Zenon
  <1>3. /\ \A i \in 1..Len(s) : i \in 1..Len(p)
        /\ \A i \in 1..Len(t) : Len(s) + i \in 1..Len(p)
    BY <1>1
  <1>4. /\ \A i \in 1..Len(s) : (p \o u)[i] = s[i]
        /\ \A i \in 1..Len(t) : (p \o u)[Len(s) + i] = t[i]
    BY <1>1, <1>2, <1>3
  <1>5. \A i \in 1..Len(u) : (p \o u)[Len(s) + Len(t) + i] = u[i]
    BY <1>1, <1>2
  <1>6. Len(p \o u) = Len(s) + Len(t) + Len(u)
    BY <1>1, <1>2
  <1> QED BY <1>2, <1>4, <1>5, <1>6 DEF p

LEMMA KeyShape ==
  ASSUME NEW tx \in TxFiles
  PROVE  /\ tx[1] \in Nat /\ tx[2] \in Nat /\ Width \in Nat /\ Len(Digits(tx[1])) <= Width
         /\ getTxKey(tx) \in Seq(Nat)
         /\ Len(getTxKey(tx)) = Width + 1 + Len(Digits(tx[2]))
         /\ \A i \in 1..Width : getTxKey(tx)[i] = PadAt(Width, tx[1], i)
         /\ \A i \in 1..Len(Digits(tx[2])) : getTxKey(tx)[Width + 1 + i] = Digits(tx[2])[i]
  <1> DEFINE D == Digits(tx[1])
             E == Digits(tx[2])
             Z == [i \in 1..(Width - Len(D)) |-> 0]
             P == Z \o D
  <1>1. tx[1] \in Nat /\ tx[2] \in Nat /\ Width \in Nat
    <2>1. tx \in Nat \X Nat /\ Width \in Nat
      BY DappAssumption
    <2> QED BY <2>1
  <1>2. Len(D) <= Width
    BY WidthAssumption
  <1>3. D \in Seq(Nat) /\ Len(D) \in Nat /\ E \in Seq(Nat) /\ Len(E) \in Nat
    BY <1>1, DigitsFacts
  <1> HIDE DEF D, E
  <1>4. Z \in Seq(Nat) /\ Len(Z) = Width - Len(D) /\ \A i \in 1..(Width - Len(D)) : Z[i] = 0
    BY <1>1, <1>2, <1>3
  <1> HIDE DEF Z
  <1>5. /\ P \in Seq(Nat) /\ Len(P) = Len(Z) + Len(D)
        /\ \A i \in 1..Len(Z) : P[i] = Z[i]
        /\ \A i \in 1..Len(D) : P[Len(Z) + i] = D[i]
    BY <1>3, <1>4, JoinTwo, Zenon
  <1> HIDE DEF P
  <1>6. Len(P) = Width
    BY <1>1, <1>2, <1>3, <1>4, <1>5
  <1>7. ASSUME NEW i \in 1..Width PROVE P[i] = PadAt(Width, tx[1], i)
    <2>1. CASE i <= Width - Len(D)
      <3>1. i \in 1..(Width - Len(D))
        BY <1>1, <1>2, <1>3, <2>1
      <3>2. P[i] = 0
        BY <1>4, <1>5, <3>1
      <3> QED BY <2>1, <3>2, Zenon DEF PadAt, D
    <2>2. CASE ~(i <= Width - Len(D))
      <3> DEFINE k == i - (Width - Len(D))
      <3>1. k \in 1..Len(D) /\ i = Len(Z) + k
        BY <1>1, <1>2, <1>3, <1>4, <2>2
      <3>2. P[i] = D[k]
        <4> HIDE DEF k
        <4> QED BY <1>5, <3>1
      <3> QED BY <2>2, <3>2, Zenon DEF PadAt, D
    <2> QED BY <2>1, <2>2
  <1>8. Underscore \in Seq(Nat) /\ Len(Underscore) = 1
    BY DEF Underscore
  <1>9. getTxKey(tx) = (P \o Underscore) \o E
    BY DEF getTxKey, P, Z, D, E
  <1>10. /\ getTxKey(tx) \in Seq(Nat)
         /\ Len(getTxKey(tx)) = Width + 1 + Len(E)
         /\ \A i \in 1..Width : getTxKey(tx)[i] = P[i]
         /\ \A i \in 1..Len(E) : getTxKey(tx)[Width + 1 + i] = E[i]
    <2>0. P \in Seq(Nat) /\ Underscore \in Seq(Nat) /\ E \in Seq(Nat)
      BY <1>3, <1>5, <1>8
    <2>1. /\ (P \o Underscore) \o E \in Seq(Nat)
          /\ Len((P \o Underscore) \o E) = Len(P) + Len(Underscore) + Len(E)
          /\ \A i \in 1..Len(P) : ((P \o Underscore) \o E)[i] = P[i]
          /\ \A i \in 1..Len(E) : ((P \o Underscore) \o E)[Len(P) + Len(Underscore) + i] = E[i]
      BY <2>0, JoinFacts
    <2> DEFINE K == (P \o Underscore) \o E
    <2>2. getTxKey(tx) = K
      BY <1>9
    <2> HIDE DEF K
    <2>3. K \in Seq(Nat) /\ Len(K) = Width + 1 + Len(E)
      BY <1>6, <1>8, <2>1, Zenon DEF K
    <2>4. \A i \in 1..Width : K[i] = P[i]
      BY <1>6, <2>1, Zenon DEF K
    <2>5. \A i \in 1..Len(E) : K[Width + 1 + i] = E[i]
      BY <1>6, <1>8, <2>1, Zenon DEF K
    <2> QED BY <2>2, <2>3, <2>4, <2>5, Zenon
  <1> QED BY <1>1, <1>2, <1>7, <1>10 DEF D, E

\* A file of an earlier block comes first.
LEMMA KeyOrder ==
  ASSUME NEW s \in TxFiles, NEW t \in TxFiles, s[1] < t[1]
  PROVE  Before(getTxKey(s), getTxKey(t))
  <1> DEFINE S == getTxKey(s)
             T == getTxKey(t)
  <1>1. /\ s[1] \in Nat /\ t[1] \in Nat /\ Width \in Nat
        /\ Len(Digits(s[1])) <= Width /\ Len(Digits(t[1])) <= Width
        /\ S \in Seq(Nat) /\ T \in Seq(Nat)
    BY KeyShape
  <1>2. /\ \A i \in 1..Width : S[i] = PadAt(Width, s[1], i)
        /\ \A i \in 1..Width : T[i] = PadAt(Width, t[1], i)
    BY KeyShape
  <1>3. Len(S) \in Nat /\ Len(T) \in Nat /\ Width <= Len(S) /\ Width <= Len(T)
    <2>1. /\ Len(S) = Width + 1 + Len(Digits(s[2])) /\ s[2] \in Nat
          /\ Len(T) = Width + 1 + Len(Digits(t[2])) /\ t[2] \in Nat
      BY KeyShape
    <2>2. Len(Digits(s[2])) \in Nat /\ Len(Digits(t[2])) \in Nat
      BY <2>1, DigitsNat
    <2>3. \A a, b \in Nat : a + 1 + b \in Nat /\ a <= a + 1 + b
      OBVIOUS
    <2> QED BY <1>1, <2>1, <2>2, <2>3, Zenon
  <1> HIDE DEF S, T
  <1>4. PadLess(Width, s[1], t[1])
    BY <1>1, PadOrder
  <1>5. PICK i \in 1..Width : /\ PadAt(Width, s[1], i) < PadAt(Width, t[1], i)
                              /\ \A j \in 1..(i - 1) : PadAt(Width, s[1], j) = PadAt(Width, t[1], j)
    BY <1>4 DEF PadLess
  <1>6. i \in 1..Len(S) /\ i <= Len(T) /\ \A j \in 1..(i - 1) : j \in 1..Width
    BY <1>1, <1>3
  <1>7. S[i] < T[i] /\ \A j \in 1..(i - 1) : S[j] = T[j]
    BY <1>2, <1>5, <1>6
  <1>8. Lex(S, Len(S), T, Len(T))
    BY <1>3, <1>6, <1>7, LexAt
  <1> QED BY <1>1, <1>8, BeforeMeans DEF S, T

\* No two files have the same name.
LEMMA KeysDiffer ==
  ASSUME NEW s \in TxFiles, NEW t \in TxFiles, getTxKey(s) = getTxKey(t)
  PROVE  s = t
  <1>1. /\ s[1] \in Nat /\ t[1] \in Nat /\ s[2] \in Nat /\ t[2] \in Nat
        /\ getTxKey(s) \in Seq(Nat)
    BY KeyShape
  <1>2. s[1] = t[1]
    <2>1. ~Before(getTxKey(s), getTxKey(s))
      BY <1>1, BeforeStrict
    <2>2. ~(s[1] < t[1]) /\ ~(t[1] < s[1])
      BY <2>1, KeyOrder, Zenon
    <2> QED BY <1>1, <2>2
  <1>3. s[2] = t[2]
    <2> DEFINE D == Digits(s[2])
               E == Digits(t[2])
    <2>1. /\ Len(getTxKey(s)) = Width + 1 + Len(D) /\ Len(getTxKey(t)) = Width + 1 + Len(E)
          /\ \A i \in 1..Len(D) : getTxKey(s)[Width + 1 + i] = D[i]
          /\ \A i \in 1..Len(E) : getTxKey(t)[Width + 1 + i] = E[i]
          /\ Width \in Nat
      BY KeyShape, Zenon
    <2>2. D \in Seq(Nat) /\ E \in Seq(Nat) /\ Len(D) \in Nat /\ Len(E) \in Nat
      BY <1>1, DigitsFacts
    <2> HIDE DEF D, E
    <2>3. Len(D) = Len(E)
      BY <2>1, <2>2
    <2>4. \A i \in 1..Len(D) : D[i] = E[i]
      BY <2>1, <2>3, Zenon
    <2>5. D = E
      BY <2>2, <2>3, <2>4, SameSequence
    <2> QED BY <1>1, <2>5, DigitsDiffer DEF D, E
  <1>4. s \in Nat \X Nat /\ t \in Nat \X Nat
    BY DappAssumption
  <1> QED BY <1>2, <1>3, <1>4

\* The order in which files are read is one.
LEMMA AheadStrict ==
  ASSUME NEW m \in Modes, NEW S \in SUBSET TxFiles
  PROVE  StrictOrder(S, {p \in S \X S : Ahead(m, p[1], p[2])})
  <1> DEFINE R == {p \in S \X S : Ahead(m, p[1], p[2])}
  <1>1. \A x, y \in S : <<x, y>> \in R <=> Ahead(m, x, y)
    OBVIOUS
  <1>2. \A x \in S : getTxKey(x) \in Seq(Nat)
    BY KeyShape
  <1>3. \A x \in S : ~Ahead(m, x, x)
    BY <1>2, BeforeStrict DEF Ahead
  <1>4. ASSUME NEW x \in S, NEW y \in S, NEW z \in S, Ahead(m, x, y), Ahead(m, y, z)
        PROVE  Ahead(m, x, z)
    <2>1. /\ Before(getTxKey(x), getTxKey(y)) /\ Before(getTxKey(y), getTxKey(z))
                => Before(getTxKey(x), getTxKey(z))
          /\ Before(getTxKey(z), getTxKey(y)) /\ Before(getTxKey(y), getTxKey(x))
                => Before(getTxKey(z), getTxKey(x))
      BY <1>2, BeforeStrict
    <2> QED BY <1>4, <2>1, Zenon DEF Ahead
  <1>5. ASSUME NEW x \in S, NEW y \in S, x # y PROVE Ahead(m, x, y) \/ Ahead(m, y, x)
    <2>1. getTxKey(x) # getTxKey(y)
      BY <1>5, KeysDiffer
    <2>2. Before(getTxKey(x), getTxKey(y)) \/ Before(getTxKey(y), getTxKey(x))
      BY <1>2, <2>1, BeforeStrict
    <2> QED BY <2>2, Zenon DEF Ahead
  <1> HIDE DEF R
  <1>6. StrictOrder(S, R)
    BY <1>1, <1>3, <1>4, <1>5, Zenon DEF StrictOrder
  <1> QED BY <1>6 DEF R

(***************************************************************************)
(* Lists of calls.                                                          *)
(***************************************************************************)
FromEither(r, s, t) ==
    \A p \in DOMAIN r : (\E q \in DOMAIN s : r[p] = s[q]) \/ (\E q \in DOMAIN t : r[p] = t[q])

LEMMA ConcatLabels ==
  ASSUME NEW X, NEW lab, NEW D, NEW H, NEW s \in Seq(X), NEW t \in Seq(X),
         Labelled(s, lab, D), Labelled(t, lab, H), D \cap H = {}
  PROVE  s \o t \in Seq(X) /\ FromEither(s \o t, s, t) /\ Labelled(s \o t, lab, D \cup H)
  <1> DEFINE r == s \o t
             m == Len(s)
             n == Len(t)
  <1>1. /\ r \in Seq(X) /\ m \in Nat /\ n \in Nat
        /\ DOMAIN s = 1..m /\ DOMAIN t = 1..n /\ DOMAIN r = 1..(m + n)
        /\ \A p \in 1..m : r[p] = s[p]
        /\ \A p \in 1..n : r[m + p] = t[p]
    BY ConcatFacts
  <1> HIDE DEF r, m, n
  <1>2. \A p \in 1..(m + n) : p \in 1..m \/ (p - m \in 1..n /\ p = m + (p - m))
    BY <1>1
  <1>3. /\ \A p \in 1..m : p \in 1..(m + n)
        /\ \A p \in 1..n : m + p \in 1..(m + n)
    BY <1>1
  <1>4. \A p \in DOMAIN r : \/ p \in DOMAIN s /\ r[p] = s[p]
                            \/ p - m \in DOMAIN t /\ p = m + (p - m) /\ r[p] = t[p - m]
    <2> TAKE p \in DOMAIN r
    <2>1. CASE p \in 1..m
      BY <1>1, <2>1, Zenon
    <2>2. CASE p - m \in 1..n /\ p = m + (p - m)
      <3>1. r[m + (p - m)] = t[p - m]
        BY <1>1, <2>2, Zenon
      <3>2. r[p] = r[m + (p - m)]
        BY <2>2, Zenon
      <3> QED BY <1>1, <2>2, <3>1, <3>2, Zenon
    <2> QED BY <1>1, <1>2, <2>1, <2>2, Zenon
  <1>5. FromEither(r, s, t)
    BY <1>4, Zenon DEF FromEither
  <1>6. ASSUME NEW p \in DOMAIN r PROVE lab[r[p]] \in D \cup H
    <2>1. CASE p \in DOMAIN s /\ r[p] = s[p]
      <3>1. lab[r[p]] \in D
        BY <2>1, Zenon DEF Labelled
      <3> QED BY <3>1, Zenon
    <2>2. CASE p - m \in DOMAIN t /\ r[p] = t[p - m]
      <3>1. lab[r[p]] \in H
        BY <2>2, Zenon DEF Labelled
      <3> QED BY <3>1, Zenon
    <2> QED BY <1>4, <2>1, <2>2, Zenon
  <1>7. ASSUME NEW d \in D \cup H PROVE \E p \in DOMAIN r : lab[r[p]] = d
    <2>1. CASE d \in D
      <3>1. PICK p \in DOMAIN s : lab[s[p]] = d
        BY <2>1, Zenon DEF Labelled
      <3>2. p \in DOMAIN r /\ r[p] = s[p]
        BY <1>1, <1>3, Zenon
      <3> QED BY <3>1, <3>2, Zenon
    <2>2. CASE d \in H
      <3>1. PICK p \in DOMAIN t : lab[t[p]] = d
        BY <2>2, Zenon DEF Labelled
      <3>2. m + p \in DOMAIN r /\ r[m + p] = t[p]
        BY <1>1, <1>3, Zenon
      <3> QED BY <3>1, <3>2, Zenon
    <2> QED BY <2>1, <2>2, Zenon
  <1>8. ASSUME NEW p \in DOMAIN r, NEW q \in DOMAIN r, lab[r[p]] = lab[r[q]] PROVE p = q
    <2>1. CASE p \in DOMAIN s /\ r[p] = s[p]
      <3>1. lab[r[p]] \in D
        BY <2>1, Zenon DEF Labelled
      <3>2. CASE q \in DOMAIN s /\ r[q] = s[q]
        <4>1. lab[s[p]] = lab[s[q]]
          BY <1>8, <2>1, <3>2, Zenon
        <4> QED BY <2>1, <3>2, <4>1, Zenon DEF Labelled
      <3>3. CASE q - m \in DOMAIN t /\ r[q] = t[q - m]
        <4>1. lab[r[q]] \in H
          BY <3>3, Zenon DEF Labelled
        <4> QED BY <1>8, <3>1, <4>1, Zenon
      <3> QED BY <1>4, <3>2, <3>3, Zenon
    <2>2. CASE p - m \in DOMAIN t /\ p = m + (p - m) /\ r[p] = t[p - m]
      <3>1. lab[r[p]] \in H
        BY <2>2, Zenon DEF Labelled
      <3>2. CASE q \in DOMAIN s /\ r[q] = s[q]
        <4>1. lab[r[q]] \in D
          BY <3>2, Zenon DEF Labelled
        <4> QED BY <1>8, <3>1, <4>1, Zenon
      <3>3. CASE q - m \in DOMAIN t /\ q = m + (q - m) /\ r[q] = t[q - m]
        <4>1. lab[t[p - m]] = lab[t[q - m]]
          BY <1>8, <2>2, <3>3, Zenon
        <4>2. p - m = q - m
          BY <2>2, <3>3, <4>1, Zenon DEF Labelled
        <4> QED BY <2>2, <3>3, <4>2, Zenon
      <3> QED BY <1>4, <3>2, <3>3, Zenon
    <2> QED BY <1>4, <2>1, <2>2, Zenon
  <1>9. Labelled(r, lab, D \cup H)
    BY <1>6, <1>7, <1>8, Zenon DEF Labelled
  <1> QED BY <1>1, <1>5, <1>9, Zenon DEF r

\* The list y has the elements of x, in the order o.
Reorders(x, y, o) ==
    /\ \A k \in DOMAIN y : o[k] \in DOMAIN x /\ y[k] = x[o[k]]
    /\ \A i \in DOMAIN x : \E k \in DOMAIN y : o[k] = i
    /\ \A k, l \in DOMAIN y : o[k] = o[l] => k = l

LEMMA ReorderEnumerated ==
  ASSUME NEW X, NEW x \in Seq(X), NEW R, NEW o, Enumerates(o, DOMAIN x, R),
         NEW y, y = [k \in DOMAIN o |-> x[o[k]]]
  PROVE  y \in Seq(X) /\ Reorders(x, y, o)
  <1>1. /\ o \in Seq(DOMAIN x) /\ Len(o) = Cardinality(DOMAIN x) /\ DOMAIN o = 1..Cardinality(DOMAIN x)
        /\ \A i \in DOMAIN x : \E k \in DOMAIN o : o[k] = i
        /\ \A i, j \in DOMAIN o : o[i] = o[j] => i = j
    BY Zenon DEF Enumerates
  <1>2. DOMAIN o = 1..Len(o) /\ Len(o) \in Nat /\ \A k \in DOMAIN o : o[k] \in DOMAIN x
    <2> DEFINE Y == DOMAIN x
    <2>1. o \in Seq(Y)
      BY <1>1
    <2> HIDE DEF Y
    <2>2. DOMAIN o = 1..Len(o) /\ Len(o) \in Nat /\ \A k \in DOMAIN o : o[k] \in Y
      BY <2>1
    <2> QED BY <2>2 DEF Y
  <1>3. DOMAIN y = DOMAIN o /\ \A k \in DOMAIN o : y[k] = x[o[k]]
    BY Zenon
  <1>4. \A i \in DOMAIN x : x[i] \in X
    OBVIOUS
  <1>5. y \in Seq(X)
    <2>1. \A k \in 1..Len(o) : x[o[k]] \in X
      BY <1>2, <1>4, Zenon
    <2>2. y = [k \in 1..Len(o) |-> x[o[k]]]
      BY <1>2, Zenon
    <2> DEFINE e(k) == x[o[k]]
    <2> HIDE DEF e
    <2>3. y = [k \in 1..Len(o) |-> e(k)] /\ \A k \in 1..Len(o) : e(k) \in X
      BY <2>1, <2>2, Zenon DEF e
    <2> QED BY <1>2, <2>3
  <1>6. Reorders(x, y, o)
    BY <1>1, <1>2, <1>3, Zenon DEF Reorders
  <1> QED BY <1>5, <1>6

LEMMA ReorderLabels ==
  ASSUME NEW lab, NEW D, NEW x, NEW y, NEW o, Reorders(x, y, o), Labelled(x, lab, D)
  PROVE  Labelled(y, lab, D)
  <1>1. ASSUME NEW p \in DOMAIN y PROVE lab[y[p]] \in D
    <2>1. o[p] \in DOMAIN x /\ y[p] = x[o[p]]
      BY Zenon DEF Reorders
    <2>2. lab[x[o[p]]] \in D
      BY <2>1, Zenon DEF Labelled
    <2> QED BY <2>1, <2>2, Zenon
  <1>2. ASSUME NEW d \in D PROVE \E p \in DOMAIN y : lab[y[p]] = d
    <2>1. PICK i \in DOMAIN x : lab[x[i]] = d
      BY Zenon DEF Labelled
    <2>2. PICK k \in DOMAIN y : o[k] = i
      BY Zenon DEF Reorders
    <2>3. y[k] = x[i]
      BY <2>2, Zenon DEF Reorders
    <2> QED BY <2>1, <2>3, Zenon
  <1>3. ASSUME NEW p \in DOMAIN y, NEW q \in DOMAIN y, lab[y[p]] = lab[y[q]] PROVE p = q
    <2>1. /\ o[p] \in DOMAIN x /\ y[p] = x[o[p]]
          /\ o[q] \in DOMAIN x /\ y[q] = x[o[q]]
      <3>1. o[p] \in DOMAIN x /\ y[p] = x[o[p]]
        BY Zenon DEF Reorders
      <3>2. o[q] \in DOMAIN x /\ y[q] = x[o[q]]
        BY Zenon DEF Reorders
      <3> QED BY <3>1, <3>2
    <2>2. lab[x[o[p]]] = lab[x[o[q]]]
      BY <1>3, <2>1, Zenon
    <2>3. o[p] = o[q]
      <3>1. \A i, j \in DOMAIN x : lab[x[i]] = lab[x[j]] => i = j
        BY Zenon DEF Labelled
      <3> HIDE DEF Labelled
      <3>2. o[p] \in DOMAIN x /\ o[q] \in DOMAIN x
        BY <2>1
      <3> QED BY <2>2, <3>1, <3>2
    <2> QED BY <2>3, Zenon DEF Reorders
  <1> QED BY <1>1, <1>2, <1>3, Zenon DEF Labelled

(***************************************************************************)
(* Sorting.                                                                 *)
(***************************************************************************)
LEMMA NameType ==
  ASSUME NEW c \in VarDict
  PROVE  getVarDictBlockTx(c) \in Seq(Nat)
  <1>1. c.tx \in TxFiles /\ c.index \in Nat
    BY DEF VarDict
  <1>2. c.tx[1] \in Nat /\ c.tx[2] \in Nat
    BY <1>1, KeyShape
  <1>3. Underscore \in Seq(Nat)
    BY DEF Underscore
  <1>4. Digits(c.tx[1]) \in Seq(Nat) /\ Digits(c.tx[2]) \in Seq(Nat) /\ Digits(c.index) \in Seq(Nat)
    BY <1>1, <1>2, DigitsNat, Zenon
  <1>5. Digits(c.tx[1]) \o Underscore \in Seq(Nat)
    BY <1>3, <1>4, JoinTwo, Zenon
  <1>6. Digits(c.tx[1]) \o Underscore \o Digits(c.tx[2]) \in Seq(Nat)
    BY <1>4, <1>5, JoinTwo, Zenon
  <1>7. Digits(c.tx[1]) \o Underscore \o Digits(c.tx[2]) \o Underscore \in Seq(Nat)
    BY <1>3, <1>6, JoinTwo, Zenon
  <1> QED BY <1>4, <1>7, JoinTwo, Zenon DEF getVarDictBlockTx

LEMMA SortReorders ==
  ASSUME NEW x \in Seq(VarDict)
  PROVE  sortCalls(x) \in Seq(VarDict) /\ \E o : Reorders(x, sortCalls(x), o)
  <1> DEFINE Earlier(i, j) == Before(getVarDictBlockTx(x[i]), getVarDictBlockTx(x[j]))
             S == DOMAIN x
             Less(i, j) == Earlier(i, j) \/ (i < j /\ ~Earlier(j, i))
             R == {p \in S \X S : Less(p[1], p[2])}
             o == InOrder(S, R)
  <1>1. S = 1..Len(x) /\ Len(x) \in Nat /\ IsFiniteSet(S) /\ S \in SUBSET Nat
    <2>1. S = 1..Len(x) /\ Len(x) \in Nat
      OBVIOUS
    <2> HIDE DEF S
    <2>2. S \in SUBSET Nat
      BY <2>1
    <2>3. IsFiniteSet(S)
      BY <2>1, FS_Interval
    <2> QED BY <2>1, <2>2, <2>3
  <1>2. \A i \in S : getVarDictBlockTx(x[i]) \in Seq(Nat)
    <2>1. \A i \in S : x[i] \in VarDict
      OBVIOUS
    <2> QED BY <2>1, NameType
  <1>3. \A i, j, k \in S : /\ ~Earlier(i, i)
                           /\ Earlier(i, j) /\ Earlier(j, k) => Earlier(i, k)
                           /\ Earlier(i, j) \/ Earlier(j, i) \/ getVarDictBlockTx(x[i]) = getVarDictBlockTx(x[j])
    BY <1>2, BeforeStrict
  <1>4. \A i, j, k \in S : getVarDictBlockTx(x[i]) = getVarDictBlockTx(x[j]) =>
            /\ Earlier(i, k) <=> Earlier(j, k)
            /\ Earlier(k, i) <=> Earlier(k, j)
    BY Zenon
  <1> HIDE DEF Earlier
  <1>5. \A i, j, k \in S : ~Earlier(i, j) /\ ~Earlier(j, i) =>
            /\ Earlier(i, k) <=> Earlier(j, k)
            /\ Earlier(k, i) <=> Earlier(k, j)
    BY <1>3, <1>4, Zenon
  <1>6. StrictOrder(S, R)
    <2>0. \A i, j \in S : <<i, j>> \in R <=> Less(i, j)
      <3> HIDE DEF Less
      <3> QED OBVIOUS
    <2>1. \A i \in S : ~Less(i, i)
      BY <1>1, <1>3
    <2>2. ASSUME NEW i \in S, NEW j \in S, NEW k \in S, Less(i, j), Less(j, k) PROVE Less(i, k)
      <3>1. i < j /\ j < k => i < k
        BY <1>1
      <3>2. CASE Earlier(i, j)
        <4>1. CASE Earlier(j, k)
          BY <1>3, <3>2, <4>1, Zenon
        <4>2. CASE ~Earlier(j, k) /\ ~Earlier(k, j)
          BY <1>5, <3>2, <4>2, Zenon
        <4> QED BY <2>2, <4>1, <4>2, Zenon
      <3>3. CASE ~Earlier(i, j) /\ ~Earlier(j, i) /\ i < j
        <4>1. CASE Earlier(j, k)
          BY <1>5, <3>3, <4>1, Zenon
        <4>2. CASE ~Earlier(j, k) /\ ~Earlier(k, j) /\ j < k
          <5>1. ~Earlier(k, i)
            BY <1>5, <3>3, <4>2, Zenon
          <5> QED BY <3>1, <3>3, <4>2, <5>1, Zenon
        <4> QED BY <2>2, <4>1, <4>2, Zenon
      <3> QED BY <2>2, <3>2, <3>3, Zenon
    <2>3. ASSUME NEW i \in S, NEW j \in S, i # j PROVE Less(i, j) \/ Less(j, i)
      <3>1. i < j \/ j < i
        BY <1>1, <2>3
      <3> QED BY <3>1, Zenon
    <2> HIDE DEF Less, R
    <2> QED BY <2>0, <2>1, <2>2, <2>3, Zenon DEF StrictOrder
  <1>7. Enumerates(o, S, R)
    <2> HIDE DEF S, R
    <2> QED BY <1>1, <1>6, InOrderEnumerates, Zenon
  <1>8. sortCalls(x) = [k \in DOMAIN o |-> x[o[k]]]
    BY Zenon DEF sortCalls, Earlier
  <1> HIDE DEF R, o
  <1>9. sortCalls(x) \in Seq(VarDict) /\ Reorders(x, sortCalls(x), o)
    BY <1>7, <1>8, ReorderEnumerated, Zenon
  <1> QED BY <1>9, Zenon

(***************************************************************************)
(* What a list of calls may be: the calls of the transactions of a set, each *)
(* once and with its own events, where the set has, with a transaction, all  *)
(* those in range that are ahead of it.                                     *)
(***************************************************************************)
nameOf == [c \in VarDict |-> <<c.tx, c.call>>]

Calls(f, S) == {p \in S \X Nat : p[2] \in Recorded(f[p[1]])}

EventsRight(f, c) == Labelled(c.logs, eventOf, EventsOf(f[c.tx], c.call))

NoneAhead(f, m, S) ==
    \A tx \in S : \A s \in TxFiles :
        InRange(m, s) /\ Ahead(m, s, tx) /\ Recorded(f[s]) # {} => s \in S

Made(f, m, l, S) ==
    /\ l \in Seq(VarDict) /\ \A i \in DOMAIN l : EventsRight(f, l[i])
    /\ S \in SUBSET TxFiles /\ \A tx \in S : InRange(m, tx)
    /\ Labelled(l, nameOf, Calls(f, S))
    /\ NoneAhead(f, m, S)

ListOK(f, m, l) == \E S : Made(f, m, l, S)

LEMMA VarDictFacts ==
  ASSUME NEW c \in VarDict
  PROVE  /\ c.tx \in TxFiles /\ c.index \in Nat /\ c.call \in Nat /\ c.logs \in Seq(Nat)
         /\ nameOf[c] = <<c.tx, c.call>>
  <1>1. c.tx \in TxFiles /\ c.index \in Nat /\ c.call \in Nat /\ c.logs \in Seq(Nat)
    BY DEF VarDict
  <1>2. nameOf[c] = <<c.tx, c.call>>
    BY Zenon DEF nameOf
  <1> QED BY <1>1, <1>2

LEMMA CallsHas ==
  ASSUME NEW f, NEW S, NEW tx, NEW n
  PROVE  <<tx, n>> \in Calls(f, S) <=> tx \in S /\ n \in Nat /\ n \in Recorded(f[tx])
  <1> DEFINE p == <<tx, n>>
  <1>1. p[1] = tx /\ p[2] = n /\ (p \in S \X Nat <=> tx \in S /\ n \in Nat)
    OBVIOUS
  <1> HIDE DEF p
  <1> QED BY <1>1, Zenon DEF Calls, p

LEMMA EmptyList ==
  ASSUME NEW f, NEW m
  PROVE  ListOK(f, m, <<>>)
  <1>1. <<>> \in Seq(VarDict) /\ DOMAIN <<>> = {}
    OBVIOUS
  <1>2. Calls(f, {}) = {}
    BY DEF Calls
  <1>3. Labelled(<<>>, nameOf, {})
    BY <1>1, Zenon DEF Labelled
  <1>4. NoneAhead(f, m, {})
    BY Zenon DEF NoneAhead
  <1>5. Made(f, m, <<>>, {})
    BY <1>1, <1>2, <1>3, <1>4, Zenon DEF Made
  <1> QED BY <1>5, Zenon DEF ListOK

LEMMA ReorderMade ==
  ASSUME NEW f, NEW m, NEW x, NEW y \in Seq(VarDict), NEW o, Reorders(x, y, o), NEW S,
         Made(f, m, x, S)
  PROVE  Made(f, m, y, S)
  <1>1. Labelled(y, nameOf, Calls(f, S))
    BY ReorderLabels, Zenon DEF Made
  <1>2. ASSUME NEW i \in DOMAIN y PROVE EventsRight(f, y[i])
    <2>1. o[i] \in DOMAIN x /\ y[i] = x[o[i]]
      BY Zenon DEF Reorders
    <2>2. EventsRight(f, x[o[i]])
      BY <2>1, Zenon DEF Made
    <2> QED BY <2>1, <2>2, Zenon
  <1> QED BY <1>1, <1>2, Zenon DEF Made

LEMMA SortedOK ==
  ASSUME NEW f, NEW m, NEW l, ListOK(f, m, l)
  PROVE  ListOK(f, m, sortCalls(l)) /\ sortCalls(l) \in Seq(VarDict)
  <1>1. PICK S : Made(f, m, l, S)
    BY Zenon DEF ListOK
  <1>2. l \in Seq(VarDict)
    BY <1>1, Zenon DEF Made
  <1>3. sortCalls(l) \in Seq(VarDict) /\ \E o : Reorders(l, sortCalls(l), o)
    BY <1>2, SortReorders, Zenon
  <1>4. PICK o : Reorders(l, sortCalls(l), o)
    BY <1>3, Zenon
  <1>5. Made(f, m, sortCalls(l), S)
    BY <1>1, <1>3, <1>4, ReorderMade, Zenon
  <1> QED BY <1>3, <1>5, Zenon DEF ListOK

(***************************************************************************)
(* What holds of such a list: the properties of one list.                   *)
(***************************************************************************)
ExactList(f, m, calls) ==
    \A i \in DOMAIN calls :
        /\ InRange(m, calls[i].tx)
        /\ {calls[j].call : j \in CallsOf(calls, calls[i].tx)} = Recorded(f[calls[i].tx])
        /\ Cardinality(CallsOf(calls, calls[i].tx)) = Cardinality(Recorded(f[calls[i].tx]))
        /\ ToSet(calls[i].logs) = EventsOf(f[calls[i].tx], calls[i].call)
        /\ Len(calls[i].logs) = Cardinality(ToSet(calls[i].logs))

GapFree(f, m, calls) ==
    \A i \in DOMAIN calls :
        \A tx \in TxFiles :
            InRange(m, tx) /\ CallsOf(calls, tx) = {} /\ Recorded(f[tx]) # {} =>
                IF m = "mine" THEN tx[1] <= calls[i].tx[1] ELSE tx[1] >= calls[i].tx[1]

LEMMA MadeFacts ==
  ASSUME NEW f, NEW m, NEW l, NEW S, Made(f, m, l, S)
  PROVE  /\ \A i \in DOMAIN l : /\ l[i] \in VarDict /\ l[i].tx \in S
                                /\ l[i].call \in Recorded(f[l[i].tx])
         /\ \A i, j \in DOMAIN l : l[i].tx = l[j].tx /\ l[i].call = l[j].call => i = j
         /\ \A tx \in S : \A n \in Recorded(f[tx]) \cap Nat :
                \E i \in DOMAIN l : l[i].tx = tx /\ l[i].call = n
  <1>1. /\ l \in Seq(VarDict)
        /\ \A i \in DOMAIN l : nameOf[l[i]] \in Calls(f, S)
        /\ \A d \in Calls(f, S) : \E i \in DOMAIN l : nameOf[l[i]] = d
        /\ \A i, j \in DOMAIN l : nameOf[l[i]] = nameOf[l[j]] => i = j
    <2>1. l \in Seq(VarDict) /\ Labelled(l, nameOf, Calls(f, S))
      BY Zenon DEF Made
    <2>2. \A i \in DOMAIN l : nameOf[l[i]] \in Calls(f, S)
      BY <2>1, Zenon DEF Labelled
    <2>3. \A d \in Calls(f, S) : \E i \in DOMAIN l : nameOf[l[i]] = d
      BY <2>1, Zenon DEF Labelled
    <2>4. \A i, j \in DOMAIN l : nameOf[l[i]] = nameOf[l[j]] => i = j
      BY <2>1, Zenon DEF Labelled
    <2> QED BY <2>1, <2>2, <2>3, <2>4
  <1>2. \A i \in DOMAIN l : l[i] \in VarDict
    BY <1>1
  <1>3. \A i \in DOMAIN l : nameOf[l[i]] = <<l[i].tx, l[i].call>>
    BY <1>2, VarDictFacts, Zenon
  <1>4. ASSUME NEW i \in DOMAIN l
        PROVE  l[i].tx \in S /\ l[i].call \in Recorded(f[l[i].tx])
    <2>0. nameOf[l[i]] \in Calls(f, S) /\ nameOf[l[i]] = <<l[i].tx, l[i].call>>
      BY <1>1, <1>3, Zenon
    <2>1. <<l[i].tx, l[i].call>> \in Calls(f, S)
      BY <2>0
    <2> QED BY <2>1, CallsHas, Zenon
  <1>5. ASSUME NEW i \in DOMAIN l, NEW j \in DOMAIN l, l[i].tx = l[j].tx, l[i].call = l[j].call
        PROVE  i = j
    <2>1. nameOf[l[i]] = <<l[j].tx, l[j].call>>
      BY <1>3, <1>5
    <2> QED BY <1>1, <1>3, <2>1
  <1>6. ASSUME NEW tx \in S, NEW n \in Recorded(f[tx]) \cap Nat
        PROVE  \E i \in DOMAIN l : l[i].tx = tx /\ l[i].call = n
    <2>1. <<tx, n>> \in Calls(f, S)
      BY DEF Calls
    <2>2. PICK i \in DOMAIN l : nameOf[l[i]] = <<tx, n>>
      BY <1>1, <2>1, Zenon
    <2>3. <<l[i].tx, l[i].call>> = <<tx, n>>
      BY <1>3, <2>2, Zenon
    <2> QED BY <2>3
  <1> QED BY <1>2, <1>4, <1>5, <1>6

LEMMA RecordedNat ==
  ASSUME NEW tx, IsTree(tx)
  PROVE  Recorded(tx) \in SUBSET Nat
  <1>1. DOMAIN tx.call = 1..Len(tx.call) /\ Len(tx.call) \in Nat
    BY TreeFacts
  <1>2. Recorded(tx) \subseteq DOMAIN tx.call
    BY Zenon DEF Recorded, Visited
  <1> QED BY <1>1, <1>2

\* As many positions as numbers, where each position has a number of its own.
LEMMA OneEach ==
  ASSUME NEW A, NEW B, IsFiniteSet(A), NEW h, \A a \in A : h[a] \in B,
         \A b \in B : \E a \in A : h[a] = b, \A a, c \in A : h[a] = h[c] => a = c
  PROVE  Cardinality(A) = Cardinality(B)
  <1> DEFINE g == [a \in A |-> h[a]]
  <1>1. g \in Bijection(A, B)
    <2>1. g \in [A -> B]
      BY Zenon
    <2>2. \A a, c \in A : g[a] = g[c] => a = c
      BY Zenon
    <2>3. ASSUME NEW b \in B PROVE \E a \in A : g[a] = b
      <3>1. PICK a \in A : h[a] = b
        BY Zenon
      <3> QED BY <3>1, Zenon
    <2>4. DOMAIN g = A
      BY Zenon
    <2> HIDE DEF g
    <2> QED BY <2>1, <2>2, <2>3, <2>4, Zenon DEF Bijection, Injection, Surjection, IsInjective
  <1>2. ExistsBijection(A, B)
    BY <1>1, Zenon DEF ExistsBijection
  <1> QED BY <1>2, FS_Bijection, Zenon

LEMMA LogsOnce ==
  ASSUME NEW s \in Seq(Nat), NEW D, Labelled(s, eventOf, D)
  PROVE  ToSet(s) = D /\ Len(s) = Cardinality(ToSet(s))
  <1>1. DOMAIN s = 1..Len(s) /\ Len(s) \in Nat /\ \A p \in DOMAIN s : s[p] \in Nat
    OBVIOUS
  <1>2. \A p \in DOMAIN s : eventOf[s[p]] = s[p]
    BY <1>1, Zenon DEF eventOf
  <1>3. /\ \A p \in DOMAIN s : s[p] \in D
        /\ \A d \in D : \E p \in DOMAIN s : s[p] = d
        /\ \A p, q \in DOMAIN s : s[p] = s[q] => p = q
    <2>1. \A p \in DOMAIN s : eventOf[s[p]] \in D
      BY Zenon DEF Labelled
    <2>2. \A d \in D : \E p \in DOMAIN s : eventOf[s[p]] = d
      BY Zenon DEF Labelled
    <2>3. \A p, q \in DOMAIN s : eventOf[s[p]] = eventOf[s[q]] => p = q
      BY Zenon DEF Labelled
    <2>4. \A p, q \in DOMAIN s : s[p] = s[q] => p = q
      BY <1>2, <2>3, Zenon
    <2> QED BY <1>2, <2>1, <2>2, <2>4, Zenon
  <1>4. ToSet(s) = D
    <2>1. \A d \in D : d \in {s[i] : i \in DOMAIN s}
      BY <1>3
    <2>2. \A p \in DOMAIN s : s[p] \in D
      BY <1>3
    <2> QED BY <2>1, <2>2 DEF ToSet
  <1>5. IsFiniteSet(1..Len(s)) /\ Cardinality(1..Len(s)) = Len(s)
    <2> DEFINE n == Len(s)
    <2>1. n \in Nat
      BY <1>1
    <2> HIDE DEF n
    <2>2. IsFiniteSet(1..n) /\ Cardinality(1..n) = n
      BY <2>1, FS_Interval
    <2> QED BY <2>2 DEF n
  <1>6. Cardinality(DOMAIN s) = Cardinality(D)
    <2> DEFINE A == DOMAIN s
    <2>1. IsFiniteSet(A)
      BY <1>1, <1>5
    <2>2. /\ \A a \in A : s[a] \in D
          /\ \A d \in D : \E a \in A : s[a] = d
          /\ \A a, c \in A : s[a] = s[c] => a = c
      BY <1>3
    <2> HIDE DEF A
    <2>3. Cardinality(A) = Cardinality(D)
      BY <2>1, <2>2, OneEach
    <2> QED BY <2>3 DEF A
  <1> QED BY <1>1, <1>4, <1>5, <1>6, Zenon

LEMMA ListExact ==
  ASSUME NEW f \in Contents, NEW m, NEW l, ListOK(f, m, l)
  PROVE  ExactList(f, m, l)
  <1>1. PICK S : Made(f, m, l, S)
    BY Zenon DEF ListOK
  <1>2. /\ \A i \in DOMAIN l : /\ l[i] \in VarDict /\ l[i].tx \in S
                               /\ l[i].call \in Recorded(f[l[i].tx])
        /\ \A i, j \in DOMAIN l : l[i].tx = l[j].tx /\ l[i].call = l[j].call => i = j
        /\ \A tx \in S : \A n \in Recorded(f[tx]) \cap Nat :
                \E i \in DOMAIN l : l[i].tx = tx /\ l[i].call = n
    BY <1>1, MadeFacts
  <1>3. /\ l \in Seq(VarDict) /\ \A i \in DOMAIN l : EventsRight(f, l[i])
        /\ S \in SUBSET TxFiles /\ \A tx \in S : InRange(m, tx)
    BY <1>1, Zenon DEF Made
  <1>4. IsFiniteSet(DOMAIN l)
    <2> DEFINE n == Len(l)
    <2>1. n \in Nat /\ DOMAIN l = 1..n
      BY <1>3
    <2> HIDE DEF n
    <2> QED BY <2>1, FS_Interval
  <1>5. SUFFICES ASSUME NEW i \in DOMAIN l
                 PROVE  /\ InRange(m, l[i].tx)
                        /\ {l[j].call : j \in CallsOf(l, l[i].tx)} = Recorded(f[l[i].tx])
                        /\ Cardinality(CallsOf(l, l[i].tx)) = Cardinality(Recorded(f[l[i].tx]))
                        /\ ToSet(l[i].logs) = EventsOf(f[l[i].tx], l[i].call)
                        /\ Len(l[i].logs) = Cardinality(ToSet(l[i].logs))
    BY Zenon DEF ExactList
  <1> DEFINE tx == l[i].tx
             A == CallsOf(l, tx)
             D == Recorded(f[tx])
             h == [j \in A |-> l[j].call]
  <1>6. tx \in S /\ tx \in TxFiles /\ InRange(m, tx)
    BY <1>2, <1>3
  <1>7. D \in SUBSET Nat
    <2>1. IsTree(f[tx])
      BY <1>6, DappAssumption, Zenon
    <2> QED BY <2>1, RecordedNat, Zenon
  <1>8. A \in SUBSET DOMAIN l /\ \A j \in A : l[j].tx = tx
    BY DEF CallsOf
  <1>9. \A j \in DOMAIN l : l[j].tx = tx => j \in A
    BY DEF CallsOf
  <1>10. IsFiniteSet(A)
    BY <1>4, <1>8, FS_Subset, Zenon
  <1>11. \A j \in A : h[j] = l[j].call
    BY Zenon
  <1> HIDE DEF tx, A, D, h
  <1>12. \A j \in A : l[j].call \in D
    BY <1>2, <1>8, Zenon DEF D
  <1>13. ASSUME NEW n \in D PROVE \E j \in A : l[j].call = n
    <2>1. n \in Recorded(f[tx]) \cap Nat
      BY <1>7 DEF D
    <2>2. PICK j \in DOMAIN l : l[j].tx = tx /\ l[j].call = n
      BY <1>2, <1>6, <2>1, ZenonT(60)
    <2> QED BY <1>9, <2>2, Zenon
  <1>14. ASSUME NEW a \in A, NEW c \in A, h[a] = h[c] PROVE a = c
    <2>1. l[a].call = l[c].call /\ l[a].tx = l[c].tx
      BY <1>8, <1>11, <1>14
    <2> QED BY <1>2, <1>8, <2>1
  <1>15. {l[j].call : j \in A} = D
    BY <1>12, <1>13
  <1>16. Cardinality(A) = Cardinality(D)
    <2>1. /\ \A a \in A : h[a] \in D
          /\ \A d \in D : \E a \in A : h[a] = d
          /\ \A a, c \in A : h[a] = h[c] => a = c
      BY <1>11, <1>12, <1>13, <1>14
    <2> QED BY <1>10, <2>1, OneEach
  <1>17. ToSet(l[i].logs) = EventsOf(f[l[i].tx], l[i].call) /\ Len(l[i].logs) = Cardinality(ToSet(l[i].logs))
    <2>1. l[i].logs \in Seq(Nat)
      BY <1>2, VarDictFacts
    <2>2. Labelled(l[i].logs, eventOf, EventsOf(f[l[i].tx], l[i].call))
      BY <1>3, Zenon DEF EventsRight
    <2> QED BY <2>1, <2>2, LogsOnce
  <1> QED BY <1>6, <1>15, <1>16, <1>17, Zenon DEF tx, A, D

LEMMA ListGapFree ==
  ASSUME NEW f \in Contents, NEW m \in Modes, NEW l, ListOK(f, m, l)
  PROVE  GapFree(f, m, l)
  <1>1. PICK S : Made(f, m, l, S)
    BY Zenon DEF ListOK
  <1>2. /\ \A i \in DOMAIN l : l[i].tx \in S
        /\ \A tx \in S : \A n \in Recorded(f[tx]) \cap Nat :
                \E i \in DOMAIN l : l[i].tx = tx /\ l[i].call = n
    BY <1>1, MadeFacts
  <1>3. S \in SUBSET TxFiles /\ NoneAhead(f, m, S)
    BY <1>1, Zenon DEF Made
  <1>4. SUFFICES ASSUME NEW i \in DOMAIN l, NEW tx \in TxFiles, InRange(m, tx),
                        CallsOf(l, tx) = {}, Recorded(f[tx]) # {}
                 PROVE  IF m = "mine" THEN tx[1] <= l[i].tx[1] ELSE tx[1] >= l[i].tx[1]
    BY Zenon DEF GapFree
  <1> DEFINE t == l[i].tx
  <1>5. t \in S /\ t \in TxFiles
    BY <1>2, <1>3
  <1>6. tx \notin S
    <2> SUFFICES ASSUME tx \in S PROVE FALSE
      OBVIOUS
    <2>1. IsTree(f[tx])
      BY DappAssumption, Zenon
    <2>2. PICK n \in Recorded(f[tx]) \cap Nat : TRUE
      BY <1>4, <2>1, RecordedNat
    <2>3. PICK j \in DOMAIN l : l[j].tx = tx
      BY <1>2, <2>2
    <2> QED BY <1>4, <2>3 DEF CallsOf
  <1>7. tx[1] \in Nat /\ t[1] \in Nat
    BY <1>5, KeyShape
  <1>8. ~Ahead(m, tx, t)
    BY <1>3, <1>4, <1>5, <1>6, Zenon DEF NoneAhead
  <1> HIDE DEF t
  <1>9. CASE m = "mine"
    <2>1. ~Before(getTxKey(t), getTxKey(tx))
      BY <1>8, <1>9, Zenon DEF Ahead
    <2>2. ~(t[1] < tx[1])
      BY <1>5, <2>1, KeyOrder, Zenon
    <2>3. tx[1] <= t[1]
      BY <1>7, <2>2
    <2> QED BY <1>9, <2>3 DEF t
  <1>10. CASE m # "mine"
    <2>1. ~Before(getTxKey(tx), getTxKey(t))
      BY <1>8, <1>10, Zenon DEF Ahead
    <2>2. ~(tx[1] < t[1])
      BY <1>5, <2>1, KeyOrder, Zenon
    <2>3. tx[1] >= t[1]
      BY <1>7, <2>2
    <2> QED BY <1>10, <2>3 DEF t
  <1> QED BY <1>9, <1>10

(***************************************************************************)
(* readVarDict.                                                             *)
(***************************************************************************)
LEMMA DictsMade ==
  ASSUME files \in Contents, NEW tx \in TxFiles
  PROVE  /\ readTxToVarDict(tx) \in Seq(VarDict)
         /\ Labelled(readTxToVarDict(tx), nameOf, Calls(files, {tx}))
         /\ \A i \in DOMAIN readTxToVarDict(tx) : EventsRight(files, readTxToVarDict(tx)[i])
  <1> DEFINE x == extractcall(files[tx])
             e(i) == [tx |-> tx, index |-> i - 1, call |-> x[i].call, logs |-> x[i].logs]
             y == [i \in DOMAIN x |-> e(i)]
  <1>1. readTxToVarDict(tx) = y
    BY Zenon DEF readTxToVarDict
  <1>2. IsTree(files[tx])
    BY DappAssumption, Zenon
  <1>3. /\ x \in Seq(Entry) /\ Labelled(x, callOf, Recorded(files[tx]))
        /\ \A p \in DOMAIN x : EntryOK(files[tx], x[p])
    BY <1>2, ExtractExact, Zenon
  <1> HIDE DEF x
  <1>4. /\ DOMAIN x = 1..Len(x) /\ Len(x) \in Nat
        /\ \A i \in DOMAIN x : x[i] \in Entry
    BY <1>3
  <1>5. \A i \in DOMAIN x : x[i].call \in Nat /\ x[i].logs \in Seq(Nat) /\ callOf[x[i]] = x[i].call
    <2>1. \A c \in Entry : c.call \in Nat /\ c.logs \in Seq(Nat)
      BY DEF Entry
    <2>2. \A c \in Entry : callOf[c] = c.call
      BY Zenon DEF callOf
    <2> QED BY <1>4, <2>1, <2>2
  <1>6. ASSUME NEW i \in DOMAIN x
        PROVE  /\ e(i) \in VarDict /\ e(i).tx = tx /\ e(i).call = x[i].call /\ e(i).logs = x[i].logs
    <2>1. i - 1 \in Nat
      BY <1>4
    <2> QED BY <1>5, <2>1 DEF VarDict
  <1> HIDE DEF e
  <1>7. y \in Seq(VarDict) /\ DOMAIN y = DOMAIN x /\ \A i \in DOMAIN x : y[i] = e(i)
    BY <1>4, <1>6
  <1> HIDE DEF y
  <1>8. \A i \in DOMAIN y : nameOf[y[i]] = <<tx, x[i].call>>
    BY <1>6, <1>7, VarDictFacts
  <1>9. /\ \A i \in DOMAIN x : x[i].call \in Recorded(files[tx])
        /\ \A n \in Recorded(files[tx]) : \E i \in DOMAIN x : x[i].call = n
        /\ \A i, j \in DOMAIN x : x[i].call = x[j].call => i = j
    <2>1. \A i \in DOMAIN x : callOf[x[i]] \in Recorded(files[tx])
      BY <1>3, Zenon DEF Labelled
    <2>2. \A n \in Recorded(files[tx]) : \E i \in DOMAIN x : callOf[x[i]] = n
      BY <1>3, Zenon DEF Labelled
    <2>3. \A i, j \in DOMAIN x : callOf[x[i]] = callOf[x[j]] => i = j
      BY <1>3, Zenon DEF Labelled
    <2> QED BY <1>5, <2>1, <2>2, <2>3
  <1>10. Labelled(y, nameOf, Calls(files, {tx}))
    <2>1. ASSUME NEW i \in DOMAIN y PROVE nameOf[y[i]] \in Calls(files, {tx})
      <3>1. <<tx, x[i].call>> \in Calls(files, {tx})
        BY <1>5, <1>7, <1>9, CallsHas
      <3> QED BY <1>8, <3>1
    <2>2. ASSUME NEW d \in Calls(files, {tx}) PROVE \E i \in DOMAIN y : nameOf[y[i]] = d
      <3>1. d = <<tx, d[2]>> /\ d[2] \in Recorded(files[tx])
        BY DEF Calls
      <3>2. PICK i \in DOMAIN x : x[i].call = d[2]
        BY <1>9, <3>1, Zenon
      <3>3. i \in DOMAIN y /\ nameOf[y[i]] = <<tx, x[i].call>>
        BY <1>7, <1>8
      <3> QED BY <3>1, <3>2, <3>3
    <2>3. ASSUME NEW i \in DOMAIN y, NEW j \in DOMAIN y, nameOf[y[i]] = nameOf[y[j]] PROVE i = j
      <3>1. <<tx, x[i].call>> = <<tx, x[j].call>>
        BY <1>8, <2>3
      <3> QED BY <1>7, <1>9, <3>1
    <2> QED BY <2>1, <2>2, <2>3, Zenon DEF Labelled
  <1>11. ASSUME NEW i \in DOMAIN y PROVE EventsRight(files, y[i])
    <2>1. EntryOK(files[tx], x[i])
      BY <1>3, <1>7
    <2>2. Labelled(x[i].logs, eventOf, EventsOf(files[tx], x[i].call))
      BY <2>1, Zenon DEF EntryOK
    <2>3. y[i].tx = tx /\ y[i].call = x[i].call /\ y[i].logs = x[i].logs
      BY <1>6, <1>7
    <2> QED BY <2>2, <2>3, Zenon DEF EventsRight
  <1> QED BY <1>1, <1>7, <1>10, <1>11, Zenon

CacheOK(m) == cache[m] \in {Missing, Torn} \/ ListOK(files, m, cache[m])

LEMMA CachedMade ==
  ASSUME NEW m \in Modes, CacheOK(m), cache[m] # Torn
  PROVE  /\ ListOK(files, m, Cached(m))
         /\ cache[m] # Missing =>
                \A i \in DOMAIN cache[m] : \E k \in DOMAIN Cached(m) : Cached(m)[k] = cache[m][i]
  <1>1. CASE cache[m] = Missing
    <2>1. Cached(m) = <<>>
      BY <1>1, Zenon DEF Cached
    <2> QED BY <1>1, <2>1, EmptyList, Zenon
  <1>2. CASE cache[m] # Missing
    <2>0. ListOK(files, m, cache[m])
      BY <1>2, Zenon DEF CacheOK
    <2>1. PICK S : Made(files, m, cache[m], S)
      BY <2>0, Zenon DEF ListOK
    <2> DEFINE l == cache[m]
               W == {i \in DOMAIN l : l[i].tx \in TxFiles /\ InRange(m, l[i].tx)}
               o == Upwards(W)
    <2>2. l \in Seq(VarDict) /\ S \in SUBSET TxFiles /\ \A tx \in S : InRange(m, tx)
      BY <2>1, Zenon DEF Made
    <2>3. \A i \in DOMAIN l : l[i].tx \in S
      BY <2>1, MadeFacts
    <2>4. W = DOMAIN l
      BY <2>2, <2>3
    <2>5. Cached(m) = [k \in DOMAIN o |-> l[o[k]]]
      BY <1>2, Zenon DEF Cached
    <2> HIDE DEF W
    <2>6. W \in SUBSET Nat /\ IsFiniteSet(W)
      <3> DEFINE n == Len(l)
      <3>1. n \in Nat /\ DOMAIN l = 1..n
        BY <2>2
      <3> HIDE DEF n
      <3> QED BY <2>4, <3>1, FS_Interval
    <2> DEFINE R == {p \in W \X W : p[1] < p[2]}
    <2>7. Enumerates(o, W, R)
      BY <2>6, UpwardsEnumerates, Zenon
    <2> HIDE DEF l, o, R
    <2>8. Cached(m) \in Seq(VarDict) /\ Reorders(l, Cached(m), o)
      BY <2>2, <2>4, <2>5, <2>7, ReorderEnumerated, Zenon
    <2>9. Made(files, m, Cached(m), S)
      BY <2>1, <2>8, ReorderMade, Zenon DEF l
    <2>10. ASSUME NEW i \in DOMAIN l PROVE \E k \in DOMAIN Cached(m) : Cached(m)[k] = l[i]
      <3>1. PICK k \in DOMAIN Cached(m) : o[k] = i
        BY <2>8, Zenon DEF Reorders
      <3>2. Cached(m)[k] = l[o[k]]
        BY <2>8, Zenon DEF Reorders
      <3> QED BY <3>1, <3>2, Zenon
    <2> QED BY <2>9, <2>10, Zenon DEF ListOK, l
  <1> QED BY <1>1, <1>2

Names(m) == {tx \in TxFiles : InRange(m, tx)} \ {c.tx : c \in ToSet(Cached(m))}

LEMMA RoadFacts ==
  ASSUME NEW m \in Modes
  PROVE  Enumerates(toRoadTxs(m), Names(m), {p \in Names(m) \X Names(m) : Ahead(m, p[1], p[2])})
  <1> DEFINE R == {p \in Names(m) \X Names(m) : Ahead(m, p[1], p[2])}
  <1>1. toRoadTxs(m) = InOrder(Names(m), R)
    BY Zenon DEF toRoadTxs, Names
  <1>2. Names(m) \in SUBSET TxFiles
    BY DEF Names
  <1>3. IsFiniteSet(Names(m))
    BY <1>2, DappAssumption, FS_Subset, Zenon
  <1>4. StrictOrder(Names(m), R)
    BY <1>2, AheadStrict, Zenon
  <1> HIDE DEF R
  <1>5. Enumerates(InOrder(Names(m), R), Names(m), R)
    BY <1>3, <1>4, InOrderEnumerates, Zenon
  <1> QED BY <1>1, <1>5, Zenon DEF R

LEMMA NumReadBounded ==
  ASSUME NEW m, NEW w \in Nat, NEW v, Len(v) \in Nat, Len(Cached(m)) \in Nat
  PROVE  numRead(m, w, v) \in 0..Len(v)
  <1> DEFINE n == Len(v)
             Filled(k) == {j \in 1..k : \E i \in 1..j : v[i] # <<>>}
             txCount(k) == Len(Cached(m)) + Cardinality(Filled(k))
             Good(k) == /\ n > 0 => k > 0
                        /\ k < n => txCount(k) >= w
                        /\ \A j \in 1..(k - 1) : txCount(j) < w
  <1>1. numRead(m, w, v) = CHOOSE k \in 0..n : Good(k)
    BY Zenon DEF numRead
  <1>2. \A k \in 0..n : txCount(k) \in Nat
    <2> TAKE k \in 0..n
    <2>1. IsFiniteSet(1..k)
      BY FS_Interval
    <2>2. Filled(k) \in SUBSET (1..k)
      OBVIOUS
    <2> HIDE DEF Filled
    <2>3. IsFiniteSet(Filled(k))
      BY <2>1, <2>2, FS_Subset, Zenon
    <2>4. Cardinality(Filled(k)) \in Nat
      BY <2>3, FS_CardinalityType, Zenon
    <2> QED BY <2>4
  <1> HIDE DEF txCount
  <1>3. \E k \in 0..n : Good(k)
    <2>1. CASE n = 0
      BY <2>1
    <2>2. CASE n # 0
      <3> DEFINE T == {k \in 1..n : k = n \/ txCount(k) >= w}
      <3>1. T \in SUBSET Nat /\ n \in T
        BY <2>2
      <3> HIDE DEF T
      <3>2. PICK k \in T : \A j \in T : k <= j
        BY <3>1, NatMinimum
      <3>3. k \in 1..n /\ (k = n \/ txCount(k) >= w)
        BY <3>2 DEF T
      <3>4. ASSUME NEW j \in 1..(k - 1) PROVE txCount(j) < w
        <4>1. j \in 1..n /\ ~(k <= j)
          BY <3>3
        <4>2. j \notin T
          BY <3>2, <4>1
        <4>3. ~(txCount(j) >= w)
          BY <4>1, <4>2 DEF T
        <4> QED BY <1>2, <4>1, <4>3
      <3>5. Good(k)
        BY <2>2, <3>3, <3>4
      <3> QED BY <3>3, <3>5
    <2> QED BY <2>1, <2>2
  <1> HIDE DEF Good, n
  <1>4. (CHOOSE k \in 0..n : Good(k)) \in 0..n
    BY <1>3, Zenon
  <1> QED BY <1>1, <1>4, Zenon DEF n

\* The first n of the files that are to be read.
Roads(m, n) == {toRoadTxs(m)[i] : i \in 1..n}
RoadDicts(m) == [i \in DOMAIN toRoadTxs(m) |-> readTxToVarDict(toRoadTxs(m)[i])]

LEMMA RoadDictsMade ==
  ASSUME files \in Contents, NEW m \in Modes
  PROVE  /\ RoadDicts(m) \in Seq(Seq(VarDict)) /\ DOMAIN RoadDicts(m) = DOMAIN toRoadTxs(m)
         /\ \A i \in DOMAIN toRoadTxs(m) : /\ toRoadTxs(m)[i] \in Names(m) /\ toRoadTxs(m)[i] \in TxFiles
                                           /\ RoadDicts(m)[i] = readTxToVarDict(toRoadTxs(m)[i])
         /\ Len(toRoadTxs(m)) \in Nat /\ DOMAIN toRoadTxs(m) = 1..Len(toRoadTxs(m))
         /\ Len(RoadDicts(m)) = Len(toRoadTxs(m))
  <1> DEFINE road == toRoadTxs(m)
             N == Names(m)
  <1>1. road \in Seq(N)
    BY RoadFacts, Zenon DEF Enumerates
  <1>2. N \in SUBSET TxFiles
    BY DEF Names
  <1> HIDE DEF road, N
  <1>3. Len(road) \in Nat /\ DOMAIN road = 1..Len(road) /\ \A i \in DOMAIN road : road[i] \in N
    BY <1>1
  <1>4. \A i \in DOMAIN road : road[i] \in TxFiles
    BY <1>2, <1>3
  <1>5. \A i \in DOMAIN road : readTxToVarDict(road[i]) \in Seq(VarDict)
    BY <1>4, DictsMade, Zenon
  <1> DEFINE y == [i \in DOMAIN road |-> readTxToVarDict(road[i])]
  <1>6. RoadDicts(m) = y
    BY Zenon DEF RoadDicts, road
  <1>7. y \in Seq(Seq(VarDict)) /\ DOMAIN y = DOMAIN road /\ \A i \in DOMAIN road : y[i] = readTxToVarDict(road[i])
    <2> DEFINE e(i) == readTxToVarDict(road[i])
               X == Seq(VarDict)
    <2>1. \A i \in DOMAIN road : e(i) \in X
      BY <1>5
    <2> HIDE DEF e, X
    <2>2. [i \in DOMAIN road |-> e(i)] \in Seq(X)
      BY <1>3, <2>1
    <2>3. y \in Seq(Seq(VarDict))
      BY <2>2, Zenon DEF e, X
    <2> QED BY <2>3, Zenon
  <1>8. Len(y) = Len(road)
    <2> DEFINE X == Seq(VarDict)
    <2>1. y \in Seq(X) /\ DOMAIN y = DOMAIN road
      BY <1>7
    <2> HIDE DEF X, y
    <2> QED BY <1>3, <2>1
  <1> QED BY <1>3, <1>4, <1>6, <1>7, <1>8, Zenon DEF road, N

\* The calls of the first n files.
LEMMA ReadMade ==
  ASSUME files \in Contents, NEW m \in Modes, NEW n \in 0..Len(toRoadTxs(m)), NEW F,
         F = FlattenSeq(SubSeq(RoadDicts(m), 1, n))
  PROVE  /\ F \in Seq(VarDict) /\ \A p \in DOMAIN F : EventsRight(files, F[p])
         /\ Labelled(F, nameOf, Calls(files, Roads(m, n)))
  <1> DEFINE road == toRoadTxs(m)
             v == RoadDicts(m)
             ss == SubSeq(v, 1, n)
             DD == [i \in 1..n |-> Calls(files, {road[i]})]
             D == UNION {DD[i] : i \in DOMAIN ss}
  <1>1. /\ v \in Seq(Seq(VarDict)) /\ Len(v) = Len(road)
        /\ Len(road) \in Nat /\ DOMAIN road = 1..Len(road)
        /\ \A i \in DOMAIN road : road[i] \in TxFiles /\ v[i] = readTxToVarDict(road[i])
    BY RoadDictsMade
  <1>2. \A i, j \in DOMAIN road : road[i] = road[j] => i = j
    BY RoadFacts, Zenon DEF Enumerates
  <1>3. F = FlattenSeq(ss)
    OBVIOUS
  <1> HIDE DEF road, v
  <1>4. n \in Nat /\ \A i \in 1..n : i \in DOMAIN road
    BY <1>1 DEF road
  <1>5. ss \in Seq(Seq(VarDict)) /\ DOMAIN ss = 1..n /\ \A i \in 1..n : ss[i] = v[i]
    <2> DEFINE X == Seq(VarDict)
    <2>1. v \in Seq(X) /\ Len(v) \in Nat /\ n \in 0..Len(v)
      BY <1>1 DEF road
    <2> HIDE DEF X
    <2>2. SubSeq(v, 1, n) \in Seq(X)
      BY <2>1
    <2>3. Len(SubSeq(v, 1, n)) = n
      BY <2>1
    <2>4. \A i \in 1..n : SubSeq(v, 1, n)[i] = v[i]
      BY <2>1
    <2> HIDE DEF ss
    <2>5. ss \in Seq(X) /\ Len(ss) = n /\ \A i \in 1..n : ss[i] = v[i]
      BY <2>2, <2>3, <2>4 DEF ss
    <2>6. DOMAIN ss = 1..n
      BY <2>5
    <2> QED BY <2>5, <2>6 DEF X
  <1> HIDE DEF ss
  <1>6. ASSUME NEW i \in DOMAIN ss
        PROVE  /\ i \in 1..n /\ road[i] \in TxFiles /\ ss[i] = readTxToVarDict(road[i])
               /\ DD[i] = Calls(files, {road[i]})
    <2>1. i \in 1..n
      BY <1>5
    <2>2. DD[i] = Calls(files, {road[i]})
      BY <2>1, Zenon
    <2> HIDE DEF DD
    <2> QED BY <1>1, <1>4, <1>5, <2>1, <2>2
  <1> HIDE DEF DD
  <1>7. AllLabelled(ss, nameOf, DD)
    <2>1. ASSUME NEW i \in DOMAIN ss PROVE Labelled(ss[i], nameOf, DD[i])
      <3>1. Labelled(readTxToVarDict(road[i]), nameOf, Calls(files, {road[i]}))
        BY <1>6, DictsMade, Zenon
      <3> QED BY <1>6, <3>1, Zenon
    <2> QED BY <2>1, Zenon DEF AllLabelled
  <1>8. Apart(ss, DD)
    <2>1. ASSUME NEW h \in DOMAIN ss, NEW i \in DOMAIN ss, NEW d \in DD[h], d \in DD[i]
          PROVE  h = i
      <3>1. d \in Calls(files, {road[h]}) /\ d \in Calls(files, {road[i]})
        BY <1>6, <2>1, Zenon
      <3>2. d[1] = road[h] /\ d[1] = road[i]
        BY <3>1 DEF Calls
      <3>3. h \in DOMAIN road /\ i \in DOMAIN road
        BY <1>4, <1>6, Zenon
      <3> QED BY <1>2, <3>2, <3>3
    <2> QED BY <2>1, Zenon DEF Apart
  <1>9. F \in Seq(VarDict) /\ FromSome(F, ss) /\ Labelled(F, nameOf, D)
    <2> HIDE DEF D
    <2>1. D = UNION {DD[i] : i \in DOMAIN ss}
      BY Zenon DEF D
    <2> QED BY <1>3, <1>5, <1>7, <1>8, <2>1, FlattenLabels, Zenon
  <1>10. D = Calls(files, Roads(m, n))
    <2>1. ASSUME NEW d \in D PROVE d \in Calls(files, Roads(m, n))
      <3>1. PICK i \in DOMAIN ss : d \in DD[i]
        BY DEF D
      <3>2. d \in Calls(files, {road[i]}) /\ i \in 1..n
        BY <1>6, <3>1, Zenon
      <3>3. road[i] \in Roads(m, n)
        BY <3>2, Zenon DEF Roads, road
      <3> QED BY <3>2, <3>3 DEF Calls
    <2>2. ASSUME NEW d \in Calls(files, Roads(m, n)) PROVE d \in D
      <3>1. d[1] \in Roads(m, n)
        BY DEF Calls
      <3>2. PICK i \in 1..n : d[1] = road[i]
        BY <3>1, Zenon DEF Roads, road
      <3>3. d \in Calls(files, {road[i]})
        BY <3>2 DEF Calls
      <3>4. i \in DOMAIN ss /\ d \in DD[i]
        BY <1>5, <1>6, <3>3, Zenon
      <3> QED BY <3>4 DEF D
    <2> HIDE DEF D
    <2> QED BY <2>1, <2>2
  <1>11. ASSUME NEW p \in DOMAIN F PROVE EventsRight(files, F[p])
    <2>1. PICK i \in DOMAIN ss : \E j \in DOMAIN ss[i] : F[p] = ss[i][j]
      BY <1>9, Zenon DEF FromSome
    <2>2. PICK j \in DOMAIN ss[i] : F[p] = ss[i][j]
      BY <2>1, Zenon
    <2>3. EventsRight(files, readTxToVarDict(road[i])[j])
      BY <1>6, <2>2, DictsMade, Zenon
    <2> QED BY <1>6, <2>2, <2>3, Zenon
  <1> QED BY <1>9, <1>10, <1>11, Zenon

LEMMA SelectionMade ==
  ASSUME files \in Contents, NEW m \in Modes, CacheOK(m), txNumOf(m) \in Nat, Selection(m) # Torn
  PROVE  /\ ListOK(files, m, Selection(m))
         /\ Whole(m) => ToSet(cache[m]) \subseteq ToSet(Selection(m))
  <1> DEFINE road == toRoadTxs(m)
             old == Cached(m)
             n == numRead(m, txNumOf(m), RoadDicts(m))
             F == FlattenSeq(SubSeq(RoadDicts(m), 1, n))
             T == Roads(m, n)
  <1>1. cache[m] # Torn /\ Selection(m) = old \o F
    <2>1. Selection(m) =
            IF cache[m] = Torn \/ \E i \in 1..n : Unreadable(files[road[i]]) THEN Torn ELSE old \o F
      BY Zenon DEF Selection, RoadDicts
    <2> HIDE DEF n, F, road, old
    <2>2. CASE cache[m] = Torn \/ \E i \in 1..n : Unreadable(files[road[i]])
      BY <2>1, <2>2, Zenon
    <2>3. CASE ~(cache[m] = Torn \/ \E i \in 1..n : Unreadable(files[road[i]]))
      BY <2>1, <2>3, Zenon
    <2> QED BY <2>2, <2>3, Zenon
  <1>2. /\ ListOK(files, m, old)
        /\ cache[m] # Missing => \A i \in DOMAIN cache[m] : \E k \in DOMAIN old : old[k] = cache[m][i]
    BY <1>1, CachedMade, Zenon
  <1>3. PICK S : Made(files, m, old, S)
    BY <1>2, Zenon DEF ListOK
  <1>4. /\ old \in Seq(VarDict) /\ \A i \in DOMAIN old : EventsRight(files, old[i])
        /\ S \in SUBSET TxFiles /\ \A tx \in S : InRange(m, tx)
        /\ Labelled(old, nameOf, Calls(files, S))
        /\ NoneAhead(files, m, S)
    BY <1>3, Zenon DEF Made
  <1>5. /\ Len(road) \in Nat /\ DOMAIN road = 1..Len(road)
        /\ \A i \in DOMAIN road : road[i] \in Names(m) /\ road[i] \in TxFiles
        /\ Len(RoadDicts(m)) = Len(road)
    BY RoadDictsMade, Zenon
  <1>6. n \in 0..Len(road)
    <2>1. Len(old) \in Nat
      BY <1>4
    <2>2. numRead(m, txNumOf(m), RoadDicts(m)) \in 0..Len(RoadDicts(m))
      BY <1>5, <2>1, NumReadBounded, Zenon
    <2> QED BY <1>5, <2>2, Zenon
  <1> HIDE DEF n
  <1>7. /\ F \in Seq(VarDict) /\ \A p \in DOMAIN F : EventsRight(files, F[p])
        /\ Labelled(F, nameOf, Calls(files, T))
    BY <1>6, ReadMade, Zenon
  <1> HIDE DEF F
  <1>8. \A i \in 1..n : i \in DOMAIN road
    BY <1>5, <1>6
  <1>9. Names(m) = {tx \in TxFiles : InRange(m, tx)} \ {c.tx : c \in ToSet(old)}
    BY Zenon DEF Names
  <1>10. \A tx \in Names(m) : tx \in TxFiles /\ InRange(m, tx) /\ \A p \in DOMAIN old : old[p].tx # tx
    <2>1. \A p \in DOMAIN old : old[p] \in ToSet(old)
      BY DEF ToSet
    <2> HIDE DEF old
    <2> QED BY <1>9, <2>1
  <1>11. \A tx \in TxFiles : InRange(m, tx) /\ (\A p \in DOMAIN old : old[p].tx # tx) => tx \in Names(m)
    <2>1. \A c \in ToSet(old) : \E p \in DOMAIN old : c = old[p]
      BY DEF ToSet
    <2> HIDE DEF old
    <2> QED BY <1>9, <2>1
  <1> HIDE DEF road, old
  <1>12. \A tx \in T : tx \in Names(m)
    <2>1. ASSUME NEW tx \in T PROVE tx \in Names(m)
      <3>1. PICK i \in 1..n : tx = toRoadTxs(m)[i]
        BY DEF Roads
      <3> QED BY <1>5, <1>8, <3>1, Zenon DEF road
    <2> QED BY <2>1, Zenon
  <1>13. Calls(files, S) \cap Calls(files, T) = {}
    <2> SUFFICES ASSUME NEW d \in Calls(files, S), d \in Calls(files, T) PROVE FALSE
      OBVIOUS
    <2>0. d \in S \X Nat /\ d \in T \X Nat /\ d[2] \in Recorded(files[d[1]])
      BY Zenon DEF Calls
    <2> HIDE DEF T
    <2>1. d[1] \in S /\ d[1] \in T /\ d[2] \in Recorded(files[d[1]]) \cap Nat
      BY <2>0
    <2>2. PICK p \in DOMAIN old : old[p].tx = d[1]
      <3>1. \A tx \in S : \A k \in Recorded(files[tx]) \cap Nat :
                \E p \in DOMAIN old : old[p].tx = tx /\ old[p].call = k
        BY <1>3, MadeFacts
      <3>2. PICK k \in Recorded(files[d[1]]) \cap Nat : TRUE
        BY <2>1, Zenon
      <3>3. \E p \in DOMAIN old : old[p].tx = d[1] /\ old[p].call = k
        BY <2>1, <3>1
      <3> QED BY <3>3, Zenon
    <2> QED BY <1>10, <1>12, <2>1, <2>2, Zenon
  <1>14. Calls(files, S \cup T) = Calls(files, S) \cup Calls(files, T)
    BY DEF Calls
  <1> DEFINE l == old \o F
  <1>15. l \in Seq(VarDict) /\ FromEither(l, old, F) /\ Labelled(l, nameOf, Calls(files, S \cup T))
    <2>1. /\ old \o F \in Seq(VarDict) /\ FromEither(old \o F, old, F)
          /\ Labelled(old \o F, nameOf, Calls(files, S) \cup Calls(files, T))
      <3> DEFINE D == Calls(files, S)
                 H == Calls(files, T)
      <3>1. D \cap H = {} /\ Labelled(old, nameOf, D) /\ Labelled(F, nameOf, H)
        BY <1>4, <1>7, <1>13
      <3> HIDE DEF D, H
      <3> QED BY <1>4, <1>7, <3>1, ConcatLabels, Zenon DEF D, H
    <2> QED BY <1>14, <2>1
  <1>16. ASSUME NEW p \in DOMAIN l PROVE EventsRight(files, l[p])
    <2>1. (\E q \in DOMAIN old : l[p] = old[q]) \/ (\E q \in DOMAIN F : l[p] = F[q])
      BY <1>15, Zenon DEF FromEither
    <2>2. CASE \E q \in DOMAIN old : l[p] = old[q]
      <3>1. PICK q \in DOMAIN old : l[p] = old[q]
        BY <2>2, Zenon
      <3>2. EventsRight(files, old[q])
        BY <1>4, Zenon
      <3> QED BY <3>1, <3>2, Zenon
    <2>3. CASE \E q \in DOMAIN F : l[p] = F[q]
      <3>1. PICK q \in DOMAIN F : l[p] = F[q]
        BY <2>3, Zenon
      <3>2. EventsRight(files, F[q])
        BY <1>7, Zenon
      <3> QED BY <3>1, <3>2, Zenon
    <2> QED BY <2>1, <2>2, <2>3, Zenon
  <1>17. S \cup T \in SUBSET TxFiles /\ \A tx \in S \cup T : InRange(m, tx)
    <2>1. \A tx \in S \cup T : tx \in TxFiles /\ InRange(m, tx)
      BY <1>4, <1>10, <1>12
    <2> QED BY <2>1
  <1>18. NoneAhead(files, m, S \cup T)
    <2> SUFFICES ASSUME NEW tx \in S \cup T, NEW s \in TxFiles, InRange(m, s), Ahead(m, s, tx),
                        Recorded(files[s]) # {}, s \notin S
                 PROVE  s \in T
      BY DEF NoneAhead
    <2>1. tx \notin S
      BY <1>4, Zenon DEF NoneAhead
    <2>2. PICK i \in 1..n : tx = road[i]
      BY <2>1, Zenon DEF Roads, road
    <2>3. \A p \in DOMAIN old : old[p].tx # s
      BY <1>3, MadeFacts
    <2>4. s \in Names(m)
      BY <1>11, <2>3, Zenon
    <2> DEFINE R == {p \in Names(m) \X Names(m) : Ahead(m, p[1], p[2])}
    <2>5. /\ \A x \in Names(m) : \E j \in DOMAIN road : road[j] = x
          /\ \A h, j \in DOMAIN road : h < j => <<road[h], road[j]>> \in R
      BY RoadFacts, Zenon DEF Enumerates, road
    <2>6. PICK j \in DOMAIN road : road[j] = s
      BY <2>4, <2>5, Zenon
    <2>7. StrictOrder(Names(m), R)
      <3>1. Names(m) \in SUBSET TxFiles
        BY DEF Names
      <3> QED BY <3>1, AheadStrict, Zenon
    <2>8. tx \in Names(m) /\ i \in DOMAIN road
      BY <1>8, <1>5, <2>2 DEF road
    <2>9. <<s, tx>> \in R
      BY <2>4, <2>8
    <2> HIDE DEF R
    <2>10. ~(i < j)
      <3> SUFFICES ASSUME i < j PROVE FALSE
        OBVIOUS
      <3>1. <<tx, s>> \in R
        BY <2>2, <2>5, <2>6, <2>8
      <3>2. <<s, s>> \in R
        BY <2>4, <2>7, <2>8, <2>9, <3>1, Zenon DEF StrictOrder
      <3> QED BY <2>4, <2>7, <3>2, Zenon DEF StrictOrder
    <2>11. j \in 1..n
      BY <1>5, <1>6, <2>8, <2>10 DEF road
    <2> QED BY <2>6, <2>11, Zenon DEF Roads, road
  <1>19. Made(files, m, l, S \cup T)
    BY <1>15, <1>16, <1>17, <1>18, Zenon DEF Made
  <1>20. ListOK(files, m, Selection(m))
    BY <1>1, <1>19, Zenon DEF ListOK
  <1>21. ASSUME Whole(m) PROVE ToSet(cache[m]) \subseteq ToSet(Selection(m))
    <2>1. cache[m] # Missing
      BY <1>21, Zenon DEF Whole, IsCalls
    <2>2. \A k \in DOMAIN old : k \in DOMAIN l /\ l[k] = old[k]
      <3> HIDE DEF l
      <3>1. \A k \in 1..Len(old) : (old \o F)[k] = old[k]
        BY <1>4, <1>7, ConcatFacts
      <3>2. DOMAIN (old \o F) = 1..(Len(old) + Len(F)) /\ DOMAIN old = 1..Len(old) /\ Len(old) \in Nat /\ Len(F) \in Nat
        BY <1>4, <1>7, ConcatFacts
      <3> QED BY <3>1, <3>2 DEF l
    <2> HIDE DEF l
    <2>3. ASSUME NEW i \in DOMAIN cache[m] PROVE \E k \in DOMAIN l : l[k] = cache[m][i]
      <3>1. PICK k \in DOMAIN old : old[k] = cache[m][i]
        BY <1>2, <2>1, Zenon
      <3> QED BY <2>2, <3>1, Zenon
    <2>4. ToSet(cache[m]) \subseteq ToSet(l)
      BY <2>3 DEF ToSet
    <2> QED BY <1>1, <2>4, Zenon DEF l
  <1> QED BY <1>20, <1>21, Zenon

(***************************************************************************)
(* The invariant of the run, in named parts.                                *)
(***************************************************************************)
Dump == {Missing} \cup Seq(VarDict)
Verdict == {Missing, Torn} \cup [mined : Seq(VarDict), checked : Seq(VarDict)]

Points == {"start", "mine", "openMineCache", "writeMineCache", "dumpMined", "check",
           "openCheckCache", "writeCheckCache", "dumpChecked", "openViolated",
           "writeViolated", "raised"}
AfterMined == {"check", "openCheckCache", "writeCheckCache", "dumpChecked", "openViolated",
               "writeViolated"}

Shape ==
    /\ files \in Contents /\ todo \in 1..(Len(TrainNums) + 1)
    /\ crashes \in 0..MaxCrashes /\ pc \in Points
    /\ cache \in [Modes -> {Missing, Torn} \cup Seq(VarDict)]
    /\ loaded \in [Modes -> Seq(VarDict)]
    /\ result \in [DOMAIN TrainNums -> [mined : Dump, checked : Dump, violatedTxs : Verdict]]

\* A number is run only while it has no verdict.
Running ==
    pc \notin {"start", "raised"} =>
        /\ todo \in DOMAIN TrainNums
        /\ result[todo].violatedTxs = IF pc = "writeViolated" THEN Torn ELSE Missing

TornCaches ==
    \A m \in Modes : /\ cache[m] = Torn => pc = WriteCache(m) \/ crashes > 0
                     /\ pc = WriteCache(m) => cache[m] = Torn

TornVerdicts ==
    \A i \in DOMAIN TrainNums :
        result[i].violatedTxs = Torn => crashes > 0 \/ (pc = "writeViolated" /\ todo = i)

ListsOK == \A m \in Modes : CacheOK(m) /\ ListOK(files, m, loaded[m])

DumpsOK ==
    \A i \in DOMAIN TrainNums :
        /\ result[i].mined = Missing \/ ListOK(files, "mine", result[i].mined)
        /\ result[i].checked = Missing \/ ListOK(files, "check", result[i].checked)

\* What is dumped is what the process goes on with.
InHand ==
    /\ pc \in AfterMined => result[todo].mined = sortCalls(loaded["mine"])
    /\ pc \in {"openViolated", "writeViolated"} => result[todo].checked = sortCalls(loaded["check"])

\* The cache is about to be written again with all that it holds.
KeepAll ==
    \A m \in Modes : pc = OpenCache(m) /\ Whole(m) => ToSet(cache[m]) \subseteq ToSet(loaded[m])

Inv ==
    /\ Shape /\ Running /\ TornCaches /\ TornVerdicts
    /\ ListsOK /\ DumpsOK /\ OneVerdict /\ InHand /\ KeepAll

LEMMA PointNames ==
  /\ Modes = {"mine", "check"}
  /\ OpenCache("mine") = "openMineCache" /\ OpenCache("check") = "openCheckCache"
  /\ WriteCache("mine") = "writeMineCache" /\ WriteCache("check") = "writeCheckCache"
  /\ After("mine") = "dumpMined" /\ After("check") = "dumpChecked"
  BY DEF Modes, OpenCache, WriteCache, After

LEMMA NotAList ==
  ASSUME NEW x \in Seq(VarDict)
  PROVE  x # Missing /\ x # Torn
  BY FileAssumption

LEMMA InitKeeps == Init => Inv
  <1> SUFFICES ASSUME Init PROVE Inv
    OBVIOUS
  <1> USE DEF Init
  <1>1. <<>> \in Seq(VarDict)
    OBVIOUS
  <1>2. Shape
    <2>1. NoResult \in [mined : Dump, checked : Dump, violatedTxs : Verdict]
      BY DEF NoResult, Dump, Verdict
    <2>2. crashes \in 0..MaxCrashes /\ todo \in 1..(Len(TrainNums) + 1)
      <3>1. Len(TrainNums) \in Nat /\ MaxCrashes \in Nat
        BY DappAssumption
      <3> QED BY <3>1
    <2>3. pc \in Points
      BY DEF Points
    <2>4. cache \in [Modes -> {Missing, Torn} \cup Seq(VarDict)] /\ loaded \in [Modes -> Seq(VarDict)]
      BY <1>1
    <2>5. result \in [DOMAIN TrainNums -> [mined : Dump, checked : Dump, violatedTxs : Verdict]]
      BY <2>1
    <2> QED BY <2>2, <2>3, <2>4, <2>5 DEF Shape
  <1>3. \A i \in DOMAIN TrainNums : /\ result[i].mined = Missing /\ result[i].checked = Missing
                                    /\ result[i].violatedTxs = Missing
    BY DEF NoResult
  <1>4. \A m \in Modes : cache[m] = Missing /\ loaded[m] = <<>>
    OBVIOUS
  <1>5. Missing # Torn
    BY FileAssumption
  <1>6. Running /\ InHand
    BY DEF Running, InHand, AfterMined
  <1>7. TornCaches
    BY <1>4, <1>5, PointNames DEF TornCaches
  <1>8. TornVerdicts
    BY <1>3, <1>5 DEF TornVerdicts
  <1>9. ListsOK
    BY <1>4, EmptyList, Zenon DEF ListsOK, CacheOK
  <1>10. DumpsOK
    BY <1>3, Zenon DEF DumpsOK
  <1>11. OneVerdict
    BY <1>3, Zenon DEF OneVerdict, IsCalls
  <1>12. KeepAll
    BY PointNames DEF KeepAll
  <1> QED BY <1>2, <1>6, <1>7, <1>8, <1>9, <1>10, <1>11, <1>12 DEF Inv

(***************************************************************************)
(* Steps that change no file.                                               *)
(***************************************************************************)
LEMMA NumbersType ==
  /\ Len(TrainNums) \in Nat /\ DOMAIN TrainNums = 1..Len(TrainNums)
  /\ \A i \in DOMAIN TrainNums : TrainNums[i] \in Nat
  /\ CheckNum \in Nat /\ MaxCrashes \in Nat
  <1>1. TrainNums \in Seq(Nat) /\ CheckNum \in Nat /\ MaxCrashes \in Nat
    BY DappAssumption
  <1> QED BY <1>1

LEMMA SameFiles ==
  ASSUME Inv, UNCHANGED <<files, cache, result>>, \A m \in Modes : ListOK(files, m, loaded'[m])
  PROVE  ListsOK' /\ DumpsOK' /\ OneVerdict'
  <1>1. \A m \in Modes : cache'[m] = cache[m] /\ CacheOK(m)
    BY DEF Inv, ListsOK
  <1>2. ListsOK'
    BY <1>1, Zenon DEF ListsOK, CacheOK
  <1>3. DumpsOK'
    BY Zenon DEF Inv, DumpsOK
  <1>4. OneVerdict'
    BY Zenon DEF Inv, OneVerdict, IsCalls
  <1> QED BY <1>2, <1>3, <1>4

LEMMA BeginKeeps ==
  ASSUME Inv, Begin
  PROVE  Inv'
  <1>1. pc = "start" /\ pc' = "mine" /\ UNCHANGED <<files, cache, result, todo, loaded, crashes>>
    BY DEF Begin, Goto
  <1>2. todo \in DOMAIN TrainNums /\ result[todo].violatedTxs = Missing
    BY DEF Begin
  <1>3. Shape'
    BY <1>1 DEF Inv, Shape, Points
  <1>4. Running'
    BY <1>1, <1>2 DEF Running
  <1>5. TornCaches' /\ TornVerdicts'
    <2>1. TornCaches /\ TornVerdicts
      BY DEF Inv
    <2> QED BY <1>1, <2>1, PointNames DEF TornCaches, TornVerdicts
  <1>6. ListsOK' /\ DumpsOK' /\ OneVerdict'
    <2>1. \A m \in Modes : ListOK(files, m, loaded'[m])
      BY <1>1, Zenon DEF Inv, ListsOK
    <2> QED BY <1>1, <2>1, SameFiles
  <1>7. InHand' /\ KeepAll'
    BY <1>1, PointNames DEF InHand, AfterMined, KeepAll
  <1> QED BY <1>3, <1>4, <1>5, <1>6, <1>7 DEF Inv

LEMMA SkipKeeps ==
  ASSUME Inv, Skip
  PROVE  Inv'
  <1>1. /\ pc = "start" /\ pc' = "start" /\ todo' = todo + 1 /\ todo \in DOMAIN TrainNums
        /\ UNCHANGED <<files, cache, result, loaded, crashes>>
    BY DEF Skip, Goto
  <1>3. Shape'
    <2>1. todo' \in 1..(Len(TrainNums) + 1)
      BY <1>1, NumbersType
    <2> QED BY <1>1, <2>1 DEF Inv, Shape
  <1>4. Running'
    BY <1>1 DEF Running
  <1>5. TornCaches' /\ TornVerdicts'
    <2>1. TornCaches /\ TornVerdicts
      BY DEF Inv
    <2> QED BY <1>1, <2>1, PointNames DEF TornCaches, TornVerdicts
  <1>6. ListsOK' /\ DumpsOK' /\ OneVerdict'
    <2>1. \A m \in Modes : ListOK(files, m, loaded'[m])
      BY <1>1, Zenon DEF Inv, ListsOK
    <2> QED BY <1>1, <2>1, SameFiles
  <1>7. InHand' /\ KeepAll'
    BY <1>1, PointNames DEF InHand, AfterMined, KeepAll
  <1> QED BY <1>3, <1>4, <1>5, <1>6, <1>7 DEF Inv

LEMMA RestartKeeps ==
  ASSUME Inv, Restart, crashes' \in 0..MaxCrashes, crashes' >= crashes,
         pc = "raised" \/ crashes' > 0
  PROVE  Inv'
  <1>1. /\ pc' = "start" /\ todo' = 1 /\ loaded' = [m \in Modes |-> <<>>]
        /\ UNCHANGED <<files, cache, result>>
    BY DEF Restart
  <1>2. \A m \in Modes : loaded'[m] = <<>>
    BY <1>1
  <1>3. Shape'
    <2>1. loaded' \in [Modes -> Seq(VarDict)] /\ 1 \in 1..(Len(TrainNums) + 1)
      BY <1>1, NumbersType
    <2> QED BY <1>1, <2>1 DEF Inv, Shape, Points
  <1>4. Running'
    BY <1>1 DEF Running
  <1>5. crashes' \in Nat /\ crashes \in Nat /\ (crashes > 0 => crashes' > 0)
    BY NumbersType DEF Inv, Shape
  <1>6. TornCaches' /\ TornVerdicts'
    <2>1. TornCaches /\ TornVerdicts
      BY DEF Inv
    <2>2. \A m \in Modes : cache[m] = Torn => crashes' > 0
      BY <1>5, <2>1, PointNames DEF TornCaches
    <2>3. \A i \in DOMAIN TrainNums : result[i].violatedTxs = Torn => crashes' > 0
      BY <1>5, <2>1 DEF TornVerdicts
    <2>4. TornCaches'
      BY <1>1, <2>2, PointNames DEF TornCaches
    <2>5. TornVerdicts'
      BY <1>1, <2>3 DEF TornVerdicts
    <2> QED BY <2>4, <2>5
  <1>7. ListsOK' /\ DumpsOK' /\ OneVerdict'
    <2>1. \A m \in Modes : ListOK(files, m, loaded'[m])
      BY <1>2, EmptyList, Zenon
    <2> QED BY <1>1, <2>1, SameFiles
  <1>8. InHand' /\ KeepAll'
    BY <1>1, PointNames DEF InHand, AfterMined, KeepAll
  <1> QED BY <1>3, <1>4, <1>6, <1>7, <1>8 DEF Inv

LEMMA ReadKeeps ==
  ASSUME Inv, NEW m \in Modes, readVarDict(m)
  PROVE  Inv'
  <1>1. /\ pc = m /\ UNCHANGED <<files, cache, result, todo, crashes>>
    BY DEF readVarDict
  <1>2. /\ Selection(m) = Torn => loaded' = loaded /\ pc' = "raised"
        /\ Selection(m) # Torn => /\ loaded' = [loaded EXCEPT ![m] = Selection(m)]
                                  /\ pc' = After(m) \/ pc' = OpenCache(m)
    <2>1. PICK s \in {Selection(m)} :
            /\ loaded' = IF s = Torn THEN loaded ELSE [loaded EXCEPT ![m] = s]
            /\ pc' = CASE s = Torn -> "raised"
                       [] s # Torn /\ Len(s) = Len(Cached(m)) -> After(m)
                       [] OTHER -> OpenCache(m)
      BY Zenon DEF readVarDict
    <2>2. s = Selection(m)
      BY <2>1
    <2>3. CASE s = Torn
      BY <2>1, <2>2, <2>3, Zenon
    <2>4. CASE s # Torn /\ Len(s) = Len(Cached(m))
      BY <2>1, <2>2, <2>4, Zenon
    <2>5. CASE s # Torn /\ Len(s) # Len(Cached(m))
      BY <2>1, <2>2, <2>5, Zenon
    <2> QED BY <2>3, <2>4, <2>5, Zenon
  <1>3. /\ todo \in DOMAIN TrainNums /\ result[todo].violatedTxs = Missing
        /\ files \in Contents /\ CacheOK(m) /\ loaded \in [Modes -> Seq(VarDict)]
    BY <1>1, PointNames DEF Inv, Running, Shape, ListsOK
  <1>4. txNumOf(m) \in Nat
    BY <1>3, NumbersType DEF txNumOf
  <1>5. Selection(m) # Torn => /\ ListOK(files, m, Selection(m)) /\ Selection(m) \in Seq(VarDict)
                               /\ Whole(m) => ToSet(cache[m]) \subseteq ToSet(Selection(m))
    BY <1>3, <1>4, SelectionMade, Zenon DEF ListOK, Made
  <1>6. \A x \in Modes : loaded'[x] = IF x = m /\ Selection(m) # Torn THEN Selection(m) ELSE loaded[x]
    BY <1>2, <1>3
  <1>7. Shape'
    <2>1. loaded' \in [Modes -> Seq(VarDict)]
      BY <1>2, <1>3, <1>5
    <2>2. pc' \in Points
      BY <1>2, PointNames DEF Points
    <2> QED BY <1>1, <2>1, <2>2 DEF Inv, Shape
  <1>8. Running'
    <2>1. pc' # "writeViolated"
      BY <1>2, PointNames
    <2> QED BY <1>1, <1>3, <2>1 DEF Running
  <1>9. TornCaches' /\ TornVerdicts'
    <2>1. TornCaches /\ TornVerdicts
      BY DEF Inv
    <2>2. \A x \in Modes : pc # WriteCache(x) /\ pc' # WriteCache(x)
      BY <1>1, <1>2, PointNames
    <2>3. pc # "writeViolated"
      BY <1>1, PointNames
    <2> QED BY <1>1, <2>1, <2>2, <2>3 DEF TornCaches, TornVerdicts
  <1>10. ListsOK' /\ DumpsOK' /\ OneVerdict'
    <2>1. \A x \in Modes : ListOK(files, x, loaded[x])
      BY Zenon DEF Inv, ListsOK
    <2>2. \A x \in Modes : ListOK(files, x, loaded'[x])
      BY <1>5, <1>6, <2>1, Zenon
    <2> QED BY <1>1, <2>2, SameFiles
  <1>11. InHand'
    <2>1. CASE m = "mine" \/ Selection(m) = Torn
      <3>1. pc' \notin AfterMined /\ pc' \notin {"openViolated", "writeViolated"}
        BY <1>2, <2>1, PointNames DEF AfterMined
      <3> QED BY <3>1 DEF InHand
    <2>2. CASE m = "check" /\ Selection(m) # Torn
      <3>1. result[todo].mined = sortCalls(loaded["mine"])
        BY <1>1, <2>2 DEF Inv, InHand, AfterMined
      <3>2. loaded'["mine"] = loaded["mine"]
        BY <1>6, <2>2, PointNames
      <3>3. pc' \notin {"openViolated", "writeViolated"}
        BY <1>2, <2>2, PointNames
      <3>4. result'[todo'].mined = sortCalls(loaded'["mine"])
        BY <1>1, <3>1, <3>2, Zenon
      <3> QED BY <3>3, <3>4, Zenon DEF InHand
    <2> QED BY <2>1, <2>2, PointNames
  <1>12. KeepAll'
    <2> SUFFICES ASSUME NEW x \in Modes, (pc = OpenCache(x) /\ Whole(x))'
                 PROVE  ToSet(cache'[x]) \subseteq ToSet(loaded'[x])
      BY DEF KeepAll
    <2>1. x = m /\ Selection(m) # Torn
      BY <1>2, PointNames
    <2>2. Whole(m) /\ cache'[x] = cache[m] /\ loaded'[x] = Selection(m)
      BY <1>1, <1>6, <2>1 DEF Whole, IsCalls
    <2> QED BY <1>5, <2>1, <2>2, Zenon
  <1> QED BY <1>7, <1>8, <1>9, <1>10, <1>11, <1>12 DEF Inv

(***************************************************************************)
(* Steps that write a file.                                                 *)
(***************************************************************************)
LEMMA SameDumps ==
  ASSUME Inv, UNCHANGED <<files, result>>
  PROVE  DumpsOK' /\ OneVerdict'
  <1>1. DumpsOK'
    BY Zenon DEF Inv, DumpsOK
  <1>2. OneVerdict'
    BY Zenon DEF Inv, OneVerdict, IsCalls
  <1> QED BY <1>1, <1>2

LEMMA SameLists ==
  ASSUME Inv, UNCHANGED <<files, cache, loaded>>
  PROVE  ListsOK'
  BY Zenon DEF Inv, ListsOK, CacheOK

LEMMA OpenCacheKeeps ==
  ASSUME Inv, NEW m \in Modes, openCache(m)
  PROVE  Inv'
  <1>1. /\ pc = OpenCache(m) /\ pc' = WriteCache(m) /\ cache' = [cache EXCEPT ![m] = Torn]
        /\ UNCHANGED <<files, result, todo, loaded, crashes>>
    BY DEF openCache, Goto
  <1>2. cache \in [Modes -> {Missing, Torn} \cup Seq(VarDict)]
    BY DEF Inv, Shape
  <1>3. \A x \in Modes : cache'[x] = IF x = m THEN Torn ELSE cache[x]
    BY <1>1, <1>2
  <1>4. Shape'
    <2>1. cache' \in [Modes -> {Missing, Torn} \cup Seq(VarDict)]
      BY <1>1, <1>2
    <2>2. pc' \in Points
      BY <1>1, PointNames DEF Points
    <2> QED BY <1>1, <2>1, <2>2 DEF Inv, Shape
  <1>5. Running'
    BY <1>1, PointNames DEF Inv, Running
  <1>6. TornCaches'
    <2>1. TornCaches
      BY DEF Inv
    <2> QED BY <1>1, <1>3, <2>1, PointNames DEF TornCaches
  <1>7. TornVerdicts'
    <2>1. TornVerdicts
      BY DEF Inv
    <2> QED BY <1>1, <2>1, PointNames DEF TornVerdicts
  <1>8. ListsOK'
    <2>1. \A x \in Modes : cache'[x] = Torn \/ cache'[x] = cache[x]
      BY <1>3
    <2> QED BY <1>1, <2>1, Zenon DEF Inv, ListsOK, CacheOK
  <1>9. DumpsOK' /\ OneVerdict'
    BY <1>1, SameDumps, Zenon
  <1>10. InHand'
    <2>1. CASE m = "mine"
      BY <1>1, <2>1, PointNames DEF InHand, AfterMined
    <2>2. CASE m = "check"
      <3>1. result[todo].mined = sortCalls(loaded["mine"])
        BY <1>1, <2>2, PointNames DEF Inv, InHand, AfterMined
      <3>2. pc' \notin {"openViolated", "writeViolated"}
        BY <1>1, <2>2, PointNames
      <3>3. result'[todo'].mined = sortCalls(loaded'["mine"])
        BY <1>1, <3>1, Zenon
      <3> QED BY <3>2, <3>3, Zenon DEF InHand
    <2> QED BY <2>1, <2>2, PointNames
  <1>11. KeepAll'
    BY <1>1, PointNames DEF KeepAll
  <1> QED BY <1>4, <1>5, <1>6, <1>7, <1>8, <1>9, <1>10, <1>11 DEF Inv

LEMMA WriteCacheKeeps ==
  ASSUME Inv, NEW m \in Modes, writeCache(m)
  PROVE  Inv'
  <1>1. /\ pc = WriteCache(m) /\ pc' = After(m) /\ cache' = [cache EXCEPT ![m] = loaded[m]]
        /\ UNCHANGED <<files, result, todo, loaded, crashes>>
    BY DEF writeCache, Goto
  <1>2. cache \in [Modes -> {Missing, Torn} \cup Seq(VarDict)] /\ loaded \in [Modes -> Seq(VarDict)]
    BY DEF Inv, Shape
  <1>3. \A x \in Modes : cache'[x] = IF x = m THEN loaded[m] ELSE cache[x]
    BY <1>1, <1>2
  <1>4. Shape'
    <2>1. cache' \in [Modes -> {Missing, Torn} \cup Seq(VarDict)]
      BY <1>1, <1>2
    <2>2. pc' \in Points
      BY <1>1, PointNames DEF Points
    <2> QED BY <1>1, <2>1, <2>2 DEF Inv, Shape
  <1>5. Running'
    BY <1>1, PointNames DEF Inv, Running
  <1>6. TornCaches'
    <2>1. TornCaches
      BY DEF Inv
    <2>2. cache'[m] # Torn
      BY <1>2, <1>3, NotAList
    <2> QED BY <1>1, <1>3, <2>1, <2>2, PointNames DEF TornCaches
  <1>7. TornVerdicts'
    <2>1. TornVerdicts
      BY DEF Inv
    <2> QED BY <1>1, <2>1, PointNames DEF TornVerdicts
  <1>8. ListsOK'
    <2>1. \A x \in Modes : cache'[x] = loaded[x] \/ cache'[x] = cache[x]
      BY <1>3
    <2> QED BY <1>1, <2>1, Zenon DEF Inv, ListsOK, CacheOK
  <1>9. DumpsOK' /\ OneVerdict'
    BY <1>1, SameDumps, Zenon
  <1>10. InHand'
    <2>1. CASE m = "mine"
      BY <1>1, <2>1, PointNames DEF InHand, AfterMined
    <2>2. CASE m = "check"
      <3>1. result[todo].mined = sortCalls(loaded["mine"])
        BY <1>1, <2>2, PointNames DEF Inv, InHand, AfterMined
      <3>2. pc' \notin {"openViolated", "writeViolated"}
        BY <1>1, <2>2, PointNames
      <3>3. result'[todo'].mined = sortCalls(loaded'["mine"])
        BY <1>1, <3>1, Zenon
      <3> QED BY <3>2, <3>3, Zenon DEF InHand
    <2> QED BY <2>1, <2>2, PointNames
  <1>11. KeepAll'
    BY <1>1, PointNames DEF KeepAll
  <1> QED BY <1>4, <1>5, <1>6, <1>7, <1>8, <1>9, <1>10, <1>11 DEF Inv

LEMMA DumpMinedKeeps ==
  ASSUME Inv, dumpMined
  PROVE  Inv'
  <1> DEFINE x == sortCalls(loaded["mine"])
  <1>1. /\ pc = "dumpMined" /\ pc' = "check" /\ result' = [result EXCEPT ![todo].mined = x]
        /\ UNCHANGED <<files, cache, todo, loaded, crashes>>
    BY DEF dumpMined, Goto
  <1>2. /\ todo \in DOMAIN TrainNums /\ result[todo].violatedTxs = Missing
        /\ result \in [DOMAIN TrainNums -> [mined : Dump, checked : Dump, violatedTxs : Verdict]]
    BY <1>1 DEF Inv, Running, Shape
  <1>3. ListOK(files, "mine", x) /\ x \in Seq(VarDict)
    <2>1. ListOK(files, "mine", loaded["mine"])
      BY PointNames DEF Inv, ListsOK
    <2> QED BY <2>1, SortedOK, Zenon
  <1> HIDE DEF x
  <1>4. \A i \in DOMAIN TrainNums : /\ result'[i].mined = IF i = todo THEN x ELSE result[i].mined
                                    /\ result'[i].checked = result[i].checked
                                    /\ result'[i].violatedTxs = result[i].violatedTxs
    BY <1>1, <1>2
  <1>5. Shape'
    <2>1. result' \in [DOMAIN TrainNums -> [mined : Dump, checked : Dump, violatedTxs : Verdict]]
      <3>1. x \in Dump
        BY <1>3 DEF Dump
      <3> QED BY <1>1, <1>2, <3>1
    <2> QED BY <1>1, <2>1 DEF Inv, Shape, Points
  <1>6. Running'
    BY <1>1, <1>2, <1>4 DEF Running
  <1>7. TornCaches' /\ TornVerdicts'
    <2>1. TornCaches /\ TornVerdicts
      BY DEF Inv
    <2> QED BY <1>1, <1>4, <2>1, PointNames DEF TornCaches, TornVerdicts
  <1>8. ListsOK'
    BY <1>1, SameLists, Zenon
  <1>9. DumpsOK'
    <2>1. DumpsOK
      BY DEF Inv
    <2> QED BY <1>1, <1>3, <1>4, <2>1 DEF DumpsOK
  <1>10. OneVerdict'
    <2>1. OneVerdict
      BY DEF Inv
    <2> QED BY <1>2, <1>4, <2>1 DEF OneVerdict, IsCalls
  <1>11. InHand'
    <2>1. result'[todo'].mined = sortCalls(loaded'["mine"])
      BY <1>1, <1>2, <1>4 DEF x
    <2> QED BY <1>1, <2>1 DEF InHand
  <1>12. KeepAll'
    BY <1>1, PointNames DEF KeepAll
  <1> QED BY <1>5, <1>6, <1>7, <1>8, <1>9, <1>10, <1>11, <1>12 DEF Inv

LEMMA DumpCheckedKeeps ==
  ASSUME Inv, dumpChecked
  PROVE  Inv'
  <1> DEFINE x == sortCalls(loaded["check"])
  <1>1. /\ pc = "dumpChecked" /\ pc' = "openViolated"
        /\ result' = [result EXCEPT ![todo].checked = x]
        /\ UNCHANGED <<files, cache, todo, loaded, crashes>>
    BY DEF dumpChecked, Goto
  <1>2. /\ todo \in DOMAIN TrainNums /\ result[todo].violatedTxs = Missing
        /\ result \in [DOMAIN TrainNums -> [mined : Dump, checked : Dump, violatedTxs : Verdict]]
    BY <1>1 DEF Inv, Running, Shape
  <1>3. ListOK(files, "check", x) /\ x \in Seq(VarDict)
    <2>1. ListOK(files, "check", loaded["check"])
      BY PointNames DEF Inv, ListsOK
    <2> QED BY <2>1, SortedOK, Zenon
  <1> HIDE DEF x
  <1>4. \A i \in DOMAIN TrainNums : /\ result'[i].checked = IF i = todo THEN x ELSE result[i].checked
                                    /\ result'[i].mined = result[i].mined
                                    /\ result'[i].violatedTxs = result[i].violatedTxs
    BY <1>1, <1>2
  <1>5. Shape'
    <2>1. result' \in [DOMAIN TrainNums -> [mined : Dump, checked : Dump, violatedTxs : Verdict]]
      <3>1. x \in Dump
        BY <1>3 DEF Dump
      <3> QED BY <1>1, <1>2, <3>1
    <2> QED BY <1>1, <2>1 DEF Inv, Shape, Points
  <1>6. Running'
    BY <1>1, <1>2, <1>4 DEF Running
  <1>7. TornCaches' /\ TornVerdicts'
    <2>1. TornCaches /\ TornVerdicts
      BY DEF Inv
    <2> QED BY <1>1, <1>4, <2>1, PointNames DEF TornCaches, TornVerdicts
  <1>8. ListsOK'
    BY <1>1, SameLists, Zenon
  <1>9. DumpsOK'
    <2>1. DumpsOK
      BY DEF Inv
    <2> QED BY <1>1, <1>3, <1>4, <2>1 DEF DumpsOK
  <1>10. OneVerdict'
    <2>1. OneVerdict
      BY DEF Inv
    <2> QED BY <1>2, <1>4, <2>1 DEF OneVerdict, IsCalls
  <1>11. InHand'
    <2>1. result[todo].mined = sortCalls(loaded["mine"])
      BY <1>1 DEF Inv, InHand, AfterMined
    <2>2. result'[todo'].mined = sortCalls(loaded'["mine"])
      BY <1>1, <1>2, <1>4, <2>1
    <2>3. result'[todo'].checked = sortCalls(loaded'["check"])
      BY <1>1, <1>2, <1>4 DEF x
    <2> QED BY <2>2, <2>3, Zenon DEF InHand
  <1>12. KeepAll'
    BY <1>1, PointNames DEF KeepAll
  <1> QED BY <1>5, <1>6, <1>7, <1>8, <1>9, <1>10, <1>11, <1>12 DEF Inv

LEMMA OpenViolatedKeeps ==
  ASSUME Inv, openViolated
  PROVE  Inv'
  <1>1. /\ pc = "openViolated" /\ pc' = "writeViolated"
        /\ result' = [result EXCEPT ![todo].violatedTxs = Torn]
        /\ UNCHANGED <<files, cache, todo, loaded, crashes>>
    BY DEF openViolated, Goto
  <1>2. /\ todo \in DOMAIN TrainNums
        /\ result \in [DOMAIN TrainNums -> [mined : Dump, checked : Dump, violatedTxs : Verdict]]
    BY <1>1 DEF Inv, Running, Shape
  <1>4. \A i \in DOMAIN TrainNums :
          /\ result'[i].mined = result[i].mined
          /\ result'[i].checked = result[i].checked
          /\ result'[i].violatedTxs = IF i = todo THEN Torn ELSE result[i].violatedTxs
    BY <1>1, <1>2
  <1>5. Shape'
    <2>1. result' \in [DOMAIN TrainNums -> [mined : Dump, checked : Dump, violatedTxs : Verdict]]
      <3>1. Torn \in Verdict
        BY DEF Verdict
      <3> QED BY <1>1, <1>2, <3>1
    <2> QED BY <1>1, <2>1 DEF Inv, Shape, Points
  <1>6. Running'
    BY <1>1, <1>2, <1>4 DEF Running
  <1>7. TornCaches' /\ TornVerdicts'
    <2>1. TornCaches /\ TornVerdicts
      BY DEF Inv
    <2>2. TornCaches'
      BY <1>1, <2>1, PointNames DEF TornCaches
    <2>3. TornVerdicts'
      BY <1>1, <1>4, <2>1 DEF TornVerdicts
    <2> QED BY <2>2, <2>3
  <1>8. ListsOK'
    BY <1>1, SameLists, Zenon
  <1>9. DumpsOK'
    <2>1. DumpsOK
      BY DEF Inv
    <2> QED BY <1>1, <1>4, <2>1 DEF DumpsOK
  <1>10. OneVerdict'
    <2>1. OneVerdict
      BY DEF Inv
    <2> QED BY <1>4, <2>1 DEF OneVerdict, IsCalls
  <1>11. InHand'
    <2>1. result[todo].mined = sortCalls(loaded["mine"]) /\ result[todo].checked = sortCalls(loaded["check"])
      BY <1>1 DEF Inv, InHand, AfterMined
    <2>2. result'[todo'].mined = sortCalls(loaded'["mine"])
      BY <1>1, <1>2, <1>4, <2>1
    <2>3. result'[todo'].checked = sortCalls(loaded'["check"])
      BY <1>1, <1>2, <1>4, <2>1
    <2> QED BY <2>2, <2>3, Zenon DEF InHand
  <1>12. KeepAll'
    BY <1>1, PointNames DEF KeepAll
  <1> QED BY <1>5, <1>6, <1>7, <1>8, <1>9, <1>10, <1>11, <1>12 DEF Inv

LEMMA WriteViolatedKeeps ==
  ASSUME Inv, writeViolated
  PROVE  Inv'
  <1> DEFINE x == sortCalls(loaded["mine"])
             y == sortCalls(loaded["check"])
             v == [mined |-> x, checked |-> y]
  <1>1. /\ pc = "writeViolated" /\ pc' = "start" /\ result' = [result EXCEPT ![todo].violatedTxs = v]
        /\ todo' = todo + 1 /\ loaded' = [m \in Modes |-> <<>>]
        /\ UNCHANGED <<files, cache, crashes>>
    BY DEF writeViolated, Goto
  <1>2. /\ todo \in DOMAIN TrainNums
        /\ result \in [DOMAIN TrainNums -> [mined : Dump, checked : Dump, violatedTxs : Verdict]]
    BY <1>1 DEF Inv, Running, Shape
  <1>3. x \in Seq(VarDict) /\ y \in Seq(VarDict)
    <2>1. ListOK(files, "mine", loaded["mine"]) /\ ListOK(files, "check", loaded["check"])
      BY PointNames DEF Inv, ListsOK
    <2> QED BY <2>1, SortedOK, Zenon
  <1>4. result[todo].mined = x /\ result[todo].checked = y
    BY <1>1 DEF Inv, InHand, AfterMined
  <1>5. v \in [mined : Seq(VarDict), checked : Seq(VarDict)] /\ v.mined = x /\ v.checked = y
    BY <1>3
  <1>6. v # Torn
    BY <1>5, FileAssumption
  <1> HIDE DEF x, y, v
  <1>7. \A i \in DOMAIN TrainNums :
          /\ result'[i].mined = result[i].mined
          /\ result'[i].checked = result[i].checked
          /\ result'[i].violatedTxs = IF i = todo THEN v ELSE result[i].violatedTxs
    BY <1>1, <1>2
  <1>8. \A m \in Modes : loaded'[m] = <<>>
    BY <1>1
  <1>9. Shape'
    <2>1. result' \in [DOMAIN TrainNums -> [mined : Dump, checked : Dump, violatedTxs : Verdict]]
      <3>1. v \in Verdict
        BY <1>5 DEF Verdict
      <3> QED BY <1>1, <1>2, <3>1
    <2>2. todo' \in 1..(Len(TrainNums) + 1)
      BY <1>1, <1>2, NumbersType
    <2>3. loaded' \in [Modes -> Seq(VarDict)]
      BY <1>1
    <2> QED BY <1>1, <2>1, <2>2, <2>3 DEF Inv, Shape, Points
  <1>10. Running'
    BY <1>1 DEF Running
  <1>11. TornCaches' /\ TornVerdicts'
    <2>1. TornCaches /\ TornVerdicts
      BY DEF Inv
    <2>2. TornCaches'
      BY <1>1, <2>1, PointNames DEF TornCaches
    <2>3. TornVerdicts'
      BY <1>1, <1>6, <1>7, <2>1 DEF TornVerdicts
    <2> QED BY <2>2, <2>3
  <1>12. ListsOK'
    BY <1>1, <1>8, EmptyList, Zenon DEF Inv, ListsOK, CacheOK
  <1>13. DumpsOK'
    <2>1. DumpsOK
      BY DEF Inv
    <2> QED BY <1>1, <1>7, <2>1 DEF DumpsOK
  <1>14. OneVerdict'
    <2>1. OneVerdict
      BY DEF Inv
    <2>2. ASSUME NEW i \in DOMAIN TrainNums, IsCalls(result'[i].violatedTxs)
          PROVE  /\ result'[i].violatedTxs.mined = result'[i].mined
                 /\ result'[i].violatedTxs.checked = result'[i].checked
      <3>1. CASE i = todo
        BY <1>4, <1>5, <1>7, <3>1
      <3>2. CASE i # todo
        BY <1>7, <2>1, <2>2, <3>2 DEF OneVerdict, IsCalls
      <3> QED BY <3>1, <3>2
    <2> QED BY <2>2, Zenon DEF OneVerdict, IsCalls
  <1>15. InHand' /\ KeepAll'
    BY <1>1, PointNames DEF InHand, AfterMined, KeepAll
  <1> QED BY <1>9, <1>10, <1>11, <1>12, <1>13, <1>14, <1>15 DEF Inv

LEMMA NextKeeps == Inv /\ [Next]_vars => Inv'
  <1> SUFFICES ASSUME Inv, [Next]_vars PROVE Inv'
    OBVIOUS
  <1>1. CASE Begin
    BY <1>1, BeginKeeps
  <1>2. CASE Skip
    BY <1>2, SkipKeeps
  <1>3. ASSUME NEW m \in Modes, readVarDict(m) PROVE Inv'
    BY <1>3, ReadKeeps
  <1>4. ASSUME NEW m \in Modes, openCache(m) PROVE Inv'
    BY <1>4, OpenCacheKeeps
  <1>5. ASSUME NEW m \in Modes, writeCache(m) PROVE Inv'
    BY <1>5, WriteCacheKeeps
  <1>6. CASE dumpMined
    BY <1>6, DumpMinedKeeps
  <1>7. CASE dumpChecked
    BY <1>7, DumpCheckedKeeps
  <1>8. CASE openViolated
    BY <1>8, OpenViolatedKeeps
  <1>9. CASE writeViolated
    BY <1>9, WriteViolatedKeeps
  <1>10. CASE Crash
    <2>1. crashes \in 0..MaxCrashes /\ MaxCrashes \in Nat
      BY NumbersType DEF Inv, Shape
    <2>2. Restart /\ crashes' = crashes + 1 /\ crashes < MaxCrashes
      BY <1>10 DEF Crash
    <2>3. crashes' \in 0..MaxCrashes /\ crashes' >= crashes /\ crashes' > 0
      BY <2>1, <2>2
    <2> QED BY <2>2, <2>3, RestartKeeps
  <1>11. CASE Again
    <2>1. crashes \in 0..MaxCrashes /\ MaxCrashes \in Nat
      BY NumbersType DEF Inv, Shape
    <2>2. Restart /\ crashes' = crashes /\ pc = "raised"
      BY <1>11 DEF Again
    <2>3. crashes' \in 0..MaxCrashes /\ crashes' >= crashes
      BY <2>1, <2>2
    <2> QED BY <2>2, <2>3, RestartKeeps
  <1>12. CASE UNCHANGED vars
    <2>1. UNCHANGED <<files, cache, result, pc, todo, loaded, crashes>>
      BY <1>12 DEF vars
    <2>2. Shape' /\ Running' /\ TornCaches' /\ TornVerdicts'
      BY <2>1 DEF Inv, Shape, Running, TornCaches, TornVerdicts
    <2>3. ListsOK' /\ DumpsOK' /\ OneVerdict'
      BY <2>1, SameLists, SameDumps, Zenon
    <2>4. InHand' /\ KeepAll'
      <3>1. InHand /\ KeepAll
        BY DEF Inv
      <3> QED BY <2>1, <3>1, Zenon DEF InHand, KeepAll, Whole, IsCalls
    <2> QED BY <2>2, <2>3, <2>4 DEF Inv
  <1>13. CASE Step
    BY <1>1, <1>2, <1>3, <1>4, <1>5, <1>6, <1>7, <1>8, <1>9, <1>13 DEF Step
  <1> QED BY <1>10, <1>11, <1>12, <1>13 DEF Next

\* Dapp.run and readVarDict keep the invariant of the run, through kills and restarts.
THEOREM InductiveInvariant == Spec => []Inv
  BY InitKeeps, NextKeeps, PTL DEF Spec

LEMMA ListedOK ==
  ASSUME Inv, NEW m \in Modes, NEW x \in Lists(m)
  PROVE  files \in Contents /\ ListOK(files, m, x)
  <1>1. files \in Contents
    BY DEF Inv, Shape
  <1>2. /\ x \notin {Missing, Torn}
        /\ \/ x = cache[m] \/ x = loaded[m]
           \/ \E i \in DOMAIN TrainNums : x = IF m = "mine" THEN result[i].mined ELSE result[i].checked
    BY DEF Lists, IsCalls
  <1>3. CASE x = cache[m]
    <2>1. CacheOK(m)
      BY DEF Inv, ListsOK
    <2> QED BY <1>1, <1>2, <1>3, <2>1, Zenon DEF CacheOK
  <1>4. CASE x = loaded[m]
    BY <1>1, <1>4, Zenon DEF Inv, ListsOK
  <1>5. ASSUME NEW i \in DOMAIN TrainNums,
               x = IF m = "mine" THEN result[i].mined ELSE result[i].checked
        PROVE  ListOK(files, m, x)
    <2>1. /\ result[i].mined = Missing \/ ListOK(files, "mine", result[i].mined)
          /\ result[i].checked = Missing \/ ListOK(files, "check", result[i].checked)
      BY DEF Inv, DumpsOK
    <2>2. CASE m = "mine"
      BY <1>2, <1>5, <2>1, <2>2
    <2>3. CASE m = "check"
      <3>1. m # "mine"
        BY <2>3
      <3> QED BY <1>2, <1>5, <2>1, <2>3, <3>1
    <2> QED BY <2>2, <2>3, PointNames
  <1> QED BY <1>1, <1>2, <1>3, <1>4, <1>5

(***************************************************************************)
(* The theorems.                                                            *)
(***************************************************************************)
\* Where Dapp.run is and what its files hold: a cache or a verdict that was emptied and not
\* written is there only on the way to be written or after a kill.
THEOREM TypeCorrect == Spec => []TypeOK
  <1>1. Inv => TypeOK
    <2> SUFFICES ASSUME Inv PROVE TypeOK
      OBVIOUS
    <2>1. /\ files \in Contents /\ todo \in 1..(Len(TrainNums) + 1)
          /\ crashes \in 0..MaxCrashes /\ pc \in Points
      BY DEF Inv, Shape
    <2>2. pc \in {"start", "mine", "check", "dumpMined", "dumpChecked", "openViolated",
                  "writeViolated", "raised"} \cup {OpenCache(m) : m \in Modes}
                                            \cup {WriteCache(m) : m \in Modes}
      <3>1. /\ "openMineCache" \in {OpenCache(m) : m \in Modes}
            /\ "openCheckCache" \in {OpenCache(m) : m \in Modes}
            /\ "writeMineCache" \in {WriteCache(m) : m \in Modes}
            /\ "writeCheckCache" \in {WriteCache(m) : m \in Modes}
        BY PointNames
      <3> QED BY <2>1, <3>1 DEF Points
    <2>3. TornCaches /\ TornVerdicts
      BY DEF Inv
    <2> QED BY <2>1, <2>2, <2>3 DEF TypeOK, TornCaches, TornVerdicts
  <1> QED BY <1>1, InductiveInvariant, PTL

\* violatedTxs.json belongs to mine_*.json and checked_dtraces.json beside it, however often the
\* process was killed and started again between the three.
THEOREM VerdictIsOfDumps == Spec => []OneVerdict
  <1>1. Inv => OneVerdict
    BY DEF Inv
  <1> QED BY <1>1, InductiveInvariant, PTL

\* readVarDict empties a cache only when the process has all of its calls in memory, and in no
\* other step does a cache that is whole change.
THEOREM CachesAreKept == Spec => CacheKept
  <1>1. Inv /\ [Next]_vars =>
          [\A m \in Modes :
            Whole(m) /\ cache'[m] # cache[m] => /\ cache'[m] = Torn
                                              /\ ToSet(cache[m]) \subseteq ToSet(loaded[m])]_vars
    <2> SUFFICES ASSUME Inv, Next, NEW m \in Modes, Whole(m), cache'[m] # cache[m]
                 PROVE  /\ cache'[m] = Torn
                        /\ ToSet(cache[m]) \subseteq ToSet(loaded[m])
      OBVIOUS
    <2>1. cache \in [Modes -> {Missing, Torn} \cup Seq(VarDict)]
      BY DEF Inv, Shape
    <2>2. cache' # cache
      BY Zenon
    <2>3. PICK x \in Modes : openCache(x) \/ writeCache(x)
      BY <2>2 DEF Next, Step, Begin, Skip, readVarDict, dumpMined, dumpChecked, openViolated,
                  writeViolated, Crash, Again, Restart
    <2>4. CASE openCache(x)
      <3>1. pc = OpenCache(x) /\ cache' = [cache EXCEPT ![x] = Torn]
        BY <2>4 DEF openCache, Goto
      <3>2. x = m /\ cache'[m] = Torn
        BY <2>1, <3>1
      <3>3. ToSet(cache[m]) \subseteq ToSet(loaded[m])
        BY <3>1, <3>2, Zenon DEF Inv, KeepAll
      <3> QED BY <3>2, <3>3
    <2>5. CASE writeCache(x)
      <3>1. pc = WriteCache(x) /\ cache' = [cache EXCEPT ![x] = loaded[x]]
        BY <2>5 DEF writeCache, Goto
      <3>2. x = m
        BY <2>1, <3>1
      <3>3. cache[m] = Torn
        BY <3>1, <3>2, Zenon DEF Inv, TornCaches
      <3> QED BY <3>3 DEF Whole, IsCalls
    <2> QED BY <2>3, <2>4, <2>5
  <1> QED BY <1>1, InductiveInvariant, PTL DEF Spec, CacheKept

\* Whatever numbers were run before and wherever they were killed, a list of calls that
\* readVarDict returns, a cache holds or a dump shows is made of whole transactions of its range:
\* each call that extractcall records once, with the events that are its own.
THEOREM CallsAreExact == Spec => []CallsExact
  <1>1. Inv => CallsExact
    <2> SUFFICES ASSUME Inv PROVE CallsExact
      OBVIOUS
    <2>1. ASSUME NEW m \in Modes, NEW x \in Lists(m) PROVE ExactList(files, m, x)
      BY ListedOK, ListExact, Zenon
    <2> QED BY <2>1, Zenon DEF CallsExact, ExactList
  <1> QED BY <1>1, InductiveInvariant, PTL

\* The cache of readVarDict leaves no gap: with a transaction a list to mine has all the later
\* ones of its range that have a call, and a list to check all the earlier ones.
THEOREM NoGapIsLeft == Spec => []NoGap
  <1>1. Inv => NoGap
    <2> SUFFICES ASSUME Inv PROVE NoGap
      OBVIOUS
    <2>1. ASSUME NEW m \in Modes, NEW x \in Lists(m) PROVE GapFree(files, m, x)
      BY ListedOK, ListGapFree, Zenon
    <2> QED BY <2>1, Zenon DEF NoGap, GapFree
  <1> QED BY <1>1, InductiveInvariant, PTL
=============================================================================
