---------------------------- MODULE PlannerProofs ----------------------------
(***************************************************************************)
(* What the planner computes and what its plans do to the stacks, for any  *)
(* cards, bins, capacities, pins and sort specifications.  Where the model *)
(* is a recursive function, a lemma first shows that the function exists.  *)
(***************************************************************************)
EXTENDS BinStacks, FiniteSetTheorems, WellFoundedInduction, TLAPS

(* Every non-empty set of numbers has a least element.                     *)
LEMMA NatLeast ==
  ASSUME NEW T \in SUBSET Nat, T # {}
  PROVE  \E n \in T : \A m \in T : n <= m
<1>1. \E n \in T : \A m \in T : ~(<<m, n>> \in OpToRel(<, Nat))
  BY NatLessThanWellFounded, WFMin, Zenon
<1>2. \E n \in T : \A m \in T : ~(m < n)
  BY <1>1, Zenon DEF OpToRel
<1> QED BY <1>2

(* Induction, of a set of numbers.                                         *)
LEMMA NatInduct ==
  ASSUME NEW T \in SUBSET Nat, 0 \in T, \A n \in T : n + 1 \in T
  PROVE  T = Nat
<1>1. SUFFICES ASSUME Nat \ T # {} PROVE FALSE
  OBVIOUS
<1>2. PICK n \in Nat \ T : \A m \in Nat \ T : n <= m
  BY <1>1, NatLeast, Zenon
<1>3. n # 0 /\ n - 1 \in Nat
  BY <1>2
<1>4. n - 1 \in T
  BY <1>2, <1>3
<1> QED BY <1>2, <1>4

(* Recursion over 0..n with values in S, from a, by the steps G.           *)
Recursive(n, S, a, G) ==
  \E f \in [0..n -> S] : f[0] = a /\ \A i \in 1..n : f[i] = G[i][f[i - 1]]

LEMMA Recursion ==
  ASSUME NEW n \in Nat, NEW S, NEW a \in S, NEW G \in [1..n -> [S -> S]]
  PROVE  Recursive(n, S, a, G)
<1> DEFINE Upto(m, f) == f[0] = a /\ \A i \in 1..m : f[i] = G[i][f[i - 1]]
           T == {m \in Nat : m <= n => \E f \in [0..m -> S] : Upto(m, f)}
<1>1. 0 \in T
  <2>1. [i \in 0..0 |-> a] \in [0..0 -> S] /\ Upto(0, [i \in 0..0 |-> a])
    OBVIOUS
  <2> QED BY <2>1
<1>2. ASSUME NEW m \in T PROVE m + 1 \in T
  <2>1. SUFFICES ASSUME m + 1 <= n
                 PROVE  \E f \in [0..(m + 1) -> S] : Upto(m + 1, f)
    <3>1. m + 1 \in Nat
      BY <1>2
    <3> QED BY <3>1
  <2>2. PICK f \in [0..m -> S] : Upto(m, f)
    <3> HIDE DEF Upto
    <3> QED BY <1>2, <2>1
  <2> DEFINE g == [i \in 0..(m + 1) |-> IF i = m + 1 THEN G[m + 1][f[m]]
                                        ELSE f[i]]
  <2>3. G[m + 1][f[m]] \in S
    <3>1. m + 1 \in 1..n /\ f[m] \in S
      BY <1>2, <2>1
    <3>2. G[m + 1] \in [S -> S]
      BY <3>1
    <3> QED BY <3>1, <3>2
  <2>4. g \in [0..(m + 1) -> S]
    BY <2>3
  <2>5. g[0] = a
    BY <2>2
  <2>6. ASSUME NEW i \in 1..(m + 1) PROVE g[i] = G[i][g[i - 1]]
    <3>1. CASE i = m + 1
      <4>1. g[i - 1] = f[i - 1] /\ g[i] = G[i][f[i - 1]]
        BY <3>1
      <4> QED BY <4>1
    <3>2. CASE i # m + 1
      <4>1. i \in 1..m /\ i - 1 \in 0..m /\ i - 1 # m + 1
        BY <3>2
      <4>2. f[i] = G[i][f[i - 1]]
        BY <2>2, <4>1
      <4>3. g[i] = f[i] /\ g[i - 1] = f[i - 1]
        BY <3>2, <4>1
      <4> QED BY <4>2, <4>3
    <3> QED BY <3>1, <3>2
  <2> QED BY <2>4, <2>5, <2>6
<1>3. T = Nat
  <2> HIDE DEF T
  <2>1. T \in SUBSET Nat
    BY DEF T
  <2> QED BY <1>1, <1>2, <2>1, NatInduct
<1>4. n \in T
  BY <1>3
<1> QED BY <1>4 DEF Recursive

-----------------------------------------------------------------------------
(* Sequences put end to end.                                               *)

(* FlattenSeq by its partial results.                                      *)
LEMMA FlattenDef ==
  ASSUME NEW X, NEW q \in Seq(Seq(X))
  PROVE  \E f \in [0..Len(q) -> Seq(X)] :
           /\ f[0] = <<>>
           /\ \A i \in 1..Len(q) : f[i] = f[i - 1] \o q[i]
           /\ FlattenSeq(q) = f[Len(q)]
<1> DEFINE n == Len(q)
           S == Seq(X)
           G == [i \in 1..n |-> [x \in S |-> x \o q[i]]]
           Eq(f) == f = [i \in 1..n |-> IF i = 1 THEN q[i] ELSE f[i - 1] \o q[i]]
           F == CHOOSE f : Eq(f)
<1>1. n \in Nat /\ <<>> \in S /\ \A i \in 1..n : q[i] \in S
  OBVIOUS
<1>2. n # 0 => FlattenSeq(q) = F[n]
  BY DEF FlattenSeq
<1>3. n = 0 => FlattenSeq(q) = <<>>
  BY DEF FlattenSeq
<1>4. \A x \in S, y \in S : x \o y \in S
  OBVIOUS
<1>5. \A x \in S : <<>> \o x = x
  OBVIOUS
<1> HIDE DEF n, S
<1>6. G \in [1..n -> [S -> S]]
  BY <1>1, <1>4
<1>7. PICK f \in [0..n -> S] : f[0] = <<>> /\ \A i \in 1..n : f[i] = G[i][f[i - 1]]
  <2> HIDE DEF G
  <2>1. Recursive(n, S, <<>>, G)
    BY <1>1, <1>6, Recursion
  <2> QED BY <2>1, Zenon DEF Recursive
<1>8. \A i \in 1..n : f[i] = f[i - 1] \o q[i]
  <2>1. \A i \in 1..n, x \in S : G[i][x] = x \o q[i]
    OBVIOUS
  <2>2. \A i \in 1..n : f[i - 1] \in S
    BY <1>1
  <2> HIDE DEF G
  <2> QED BY <1>7, <2>1, <2>2
<1>9. n # 0 => 1 \in 1..n /\ f[1] = q[1]
  <2>1. SUFFICES ASSUME n # 0 PROVE 1 \in 1..n /\ f[1] = q[1]
    OBVIOUS
  <2>2. 1 \in 1..n /\ 1 - 1 = 0
    BY <1>1, <2>1
  <2>3. f[1] = f[0] \o q[1]
    BY <1>8, <2>2
  <2> QED BY <1>1, <1>5, <1>7, <2>2, <2>3
<1> DEFINE g == [i \in 1..n |-> f[i]]
<1>10. Eq(g)
  <2>1. SUFFICES ASSUME NEW i \in 1..n
                 PROVE  g[i] = IF i = 1 THEN q[i] ELSE g[i - 1] \o q[i]
    OBVIOUS
  <2>2. CASE i = 1
    BY <1>1, <1>9, <2>2
  <2>3. CASE i # 1
    <3>1. i - 1 \in 1..n
      BY <1>1, <2>3
    <3>2. g[i] = f[i] /\ g[i - 1] = f[i - 1]
      BY <3>1
    <3>3. f[i] = f[i - 1] \o q[i]
      BY <1>8
    <3> HIDE DEF g
    <3> QED BY <2>3, <3>2, <3>3
  <2> QED BY <2>2, <2>3
<1>11. Eq(F)
  <2> HIDE DEF Eq
  <2> QED BY <1>10
<1> HIDE DEF F
<1> DEFINE h == [i \in 0..n |-> IF i = 0 THEN <<>> ELSE F[i]]
<1>12. \A i \in 1..n : F[i] = IF i = 1 THEN q[i] ELSE F[i - 1] \o q[i]
  BY <1>11
<1>13. \A i \in 1..n : h[i] = h[i - 1] \o q[i]
  <2>1. SUFFICES ASSUME NEW i \in 1..n PROVE h[i] = h[i - 1] \o q[i]
    OBVIOUS
  <2>2. i \in 0..n /\ i - 1 \in 0..n /\ i # 0
    BY <1>1
  <2>3. h[i] = F[i]
    BY <2>2
  <2>4. CASE i = 1
    <3>1. h[i - 1] = <<>>
      BY <2>2, <2>4
    <3>2. F[i] = q[i]
      BY <1>12, <2>4
    <3> HIDE DEF h
    <3> QED BY <1>1, <1>5, <2>3, <3>1, <3>2
  <2>5. CASE i # 1
    <3>1. h[i - 1] = F[i - 1]
      BY <2>2, <2>5
    <3>2. F[i] = F[i - 1] \o q[i]
      BY <1>12, <2>5
    <3> HIDE DEF h
    <3> QED BY <2>3, <3>1, <3>2
  <2> QED BY <2>4, <2>5
<1>14. h[0] = <<>> /\ FlattenSeq(q) = h[n]
  BY <1>1, <1>2, <1>3
<1>15. h \in [0..n -> S]
  <2> DEFINE T == {i \in Nat : i <= n => h[i] \in S}
  <2>1. 0 \in T
    BY <1>1, <1>14
  <2>2. ASSUME NEW i \in T PROVE i + 1 \in T
    <3>1. SUFFICES ASSUME i + 1 <= n PROVE h[i + 1] \in S
      <4>1. i + 1 \in Nat
        BY <2>2
      <4> HIDE DEF h
      <4> QED BY <4>1
    <3>2. i \in Nat /\ i <= n /\ i + 1 \in 1..n /\ (i + 1) - 1 = i
      BY <1>1, <2>2, <3>1
    <3> HIDE DEF h
    <3>3. h[i] \in S
      BY <2>2, <3>2
    <3>4. h[i + 1] = h[i] \o q[i + 1]
      BY <1>13, <3>2
    <3> QED BY <1>1, <1>4, <3>2, <3>3, <3>4
  <2>3. T = Nat
    <3>1. T \in SUBSET Nat
      OBVIOUS
    <3> HIDE DEF T
    <3> QED BY <2>1, <2>2, <3>1, NatInduct
  <2>4. \A i \in 0..n : h[i] \in S
    <3>1. \A i \in 0..n : i \in Nat /\ i <= n
      BY <1>1
    <3> HIDE DEF h
    <3> QED BY <2>3, <3>1
  <2> QED BY <2>4
<1> HIDE DEF h
<1> QED BY <1>13, <1>14, <1>15 DEF n, S

LEMMA ConcatAppend ==
  ASSUME NEW X, NEW s \in Seq(X), NEW t \in Seq(X), NEW c \in X
  PROVE  s \o Append(t, c) = Append(s \o t, c)
<1> DEFINE x == s \o Append(t, c)
           y == Append(s \o t, c)
<1>1. \A z \in Seq(X) : z = [k \in 1..Len(z) |-> z[k]]
  OBVIOUS
<1>2. x \in Seq(X) /\ y \in Seq(X) /\ Len(x) = Len(y)
  OBVIOUS
<1>3. \A k \in 1..Len(x) : x[k] = y[k]
  <2>1. Len(s) \in Nat /\ Len(t) \in Nat /\ Len(x) = Len(s) + (Len(t) + 1)
    OBVIOUS
  <2>2. SUFFICES ASSUME NEW k \in 1..Len(x) PROVE x[k] = y[k]
    OBVIOUS
  <2>3. CASE k <= Len(s)
    BY <2>1, <2>3
  <2>4. CASE k > Len(s) /\ k <= Len(s) + Len(t)
    BY <2>1, <2>4
  <2>5. CASE k = Len(s) + (Len(t) + 1)
    BY <2>1, <2>5
  <2> QED BY <2>1, <2>3, <2>4, <2>5
<1> HIDE DEF x, y
<1>4. [k \in 1..Len(x) |-> x[k]] = [k \in 1..Len(y) |-> y[k]]
  BY <1>2, <1>3
<1>5. x = y
  BY <1>1, <1>2, <1>4
<1> QED BY <1>5 DEF x, y

(* r is q with c at the end of the p-th sequence, the last that holds any. *)
Longer(q, r, p, c) ==
  /\ Len(r) = Len(q) /\ p \in 1..Len(q) /\ r[p] = Append(q[p], c)
  /\ \A y \in 1..Len(q) : y # p => r[y] = q[y]
  /\ \A y \in 1..Len(q) : p < y => q[y] = <<>>

(* A card more at the end of the last content is a card more at the end.   *)
LEMMA FlattenAppend ==
  ASSUME NEW X, NEW q \in Seq(Seq(X)), NEW r \in Seq(Seq(X)),
         NEW p, NEW c \in X, Longer(q, r, p, c)
  PROVE  FlattenSeq(r) = Append(FlattenSeq(q), c)
<1> DEFINE n == Len(q)
           S == Seq(X)
<1>1. n \in Nat /\ \A i \in 1..n : q[i] \in S
  OBVIOUS
<1>2. PICK f \in [0..n -> S] :
        /\ f[0] = <<>>
        /\ \A i \in 1..n : f[i] = f[i - 1] \o q[i]
        /\ FlattenSeq(q) = f[n]
  BY FlattenDef
<1>3. PICK h \in [0..Len(r) -> S] :
        /\ h[0] = <<>>
        /\ \A i \in 1..Len(r) : h[i] = h[i - 1] \o r[i]
        /\ FlattenSeq(r) = h[Len(r)]
  BY FlattenDef
<1>4. \A x, y \in S : x \o Append(y, c) = Append(x \o y, c)
  BY ConcatAppend
<1>5. \A x \in S : x \o <<>> = x
  OBVIOUS
<1>6. /\ Len(r) = n /\ p \in 1..n /\ r[p] = Append(q[p], c)
      /\ \A y \in 1..n : y # p => r[y] = q[y]
      /\ \A y \in 1..n : p < y => q[y] = <<>>
  BY DEF Longer
<1> HIDE DEF n, S
<1> DEFINE T == {i \in Nat : i <= n => h[i] = IF i < p THEN f[i] ELSE Append(f[i], c)}
<1>7. 0 \in T
  <2>1. 0 < p
    BY <1>1, <1>6
  <2> QED BY <1>2, <1>3, <2>1
<1>8. ASSUME NEW i \in T PROVE i + 1 \in T
  <2>1. SUFFICES ASSUME i + 1 <= n
                 PROVE  h[i + 1] = IF i + 1 < p THEN f[i + 1] ELSE Append(f[i + 1], c)
    <3>1. i + 1 \in Nat
      BY <1>8
    <3> QED BY <3>1
  <2>2. /\ i \in Nat /\ i <= n /\ i + 1 \in 1..n /\ (i + 1) - 1 = i /\ i \in 0..n
        /\ p \in Nat
    BY <1>1, <1>6, <1>8, <2>1
  <2>3. h[i] = IF i < p THEN f[i] ELSE Append(f[i], c)
    BY <1>8, <2>2
  <2>4. f[i + 1] = f[i] \o q[i + 1] /\ h[i + 1] = h[i] \o r[i + 1]
        /\ f[i] \in S /\ h[i] \in S /\ q[i + 1] \in S
    BY <1>1, <1>2, <1>3, <1>6, <2>2
  <2>5. CASE i + 1 < p
    <3>1. r[i + 1] = q[i + 1] /\ i < p
      BY <1>6, <2>2, <2>5
    <3> QED BY <2>3, <2>4, <2>5, <3>1
  <2>6. CASE i + 1 = p
    <3>1. r[i + 1] = Append(q[i + 1], c)
      BY <1>6, <2>6
    <3>4. i < p /\ ~(i + 1 < p)
      BY <2>2, <2>6
    <3>2. h[i + 1] = f[i] \o Append(q[i + 1], c)
      BY <2>3, <2>4, <3>1, <3>4
    <3>3. h[i + 1] = Append(f[i + 1], c)
      BY <1>4, <2>4, <3>2
    <3> QED BY <3>3, <3>4
  <2>7. CASE i + 1 > p
    <3>1. q[i + 1] = <<>> /\ r[i + 1] = <<>> /\ ~(i < p) /\ ~(i + 1 < p)
      BY <1>6, <2>2, <2>7
    <3>2. f[i + 1] = f[i] /\ h[i + 1] = h[i]
      BY <1>5, <2>4, <3>1
    <3> QED BY <2>3, <3>1, <3>2
  <2> QED BY <2>2, <2>5, <2>6, <2>7
<1>9. T = Nat
  <2>1. T \in SUBSET Nat
    OBVIOUS
  <2> HIDE DEF T
  <2> QED BY <1>7, <1>8, <2>1, NatInduct
<1>10. h[n] = Append(f[n], c)
  <2>1. n \in T
    BY <1>1, <1>9
  <2>2. n <= n /\ ~(n < p)
    BY <1>1, <1>6
  <2> QED BY <2>1, <2>2
<1> QED BY <1>2, <1>3, <1>6, <1>10

-----------------------------------------------------------------------------
(* Sums over the bins of the request.                                      *)

CapacityAt(g, i) ==
  IF g.bins[i] \in Provisionable(g) THEN CapacityOf(g, g.bins[i]) ELSE 0

LEMMA CapacityType ==
  ASSUME NEW g, WellFormed(g)
  PROVE  /\ Len(g.bins) \in Nat
         /\ \A b : CapacityOf(g, b) \in Int
         /\ \A i : CapacityAt(g, i) \in Int
<1>1. Len(g.bins) \in Nat
  BY DEF WellFormed
<1>2. \A b : CapacityOf(g, b) \in Int
  BY DEF WellFormed, CapacityOf
<1> QED BY <1>1, <1>2 DEF CapacityAt

(* TotalCapacity by its partial sums.                                      *)
LEMMA TotalCapacityDef ==
  ASSUME NEW g, WellFormed(g)
  PROVE  \E s \in [0..Len(g.bins) -> Int] :
           /\ s[0] = 0
           /\ \A i \in 1..Len(g.bins) : s[i] = s[i - 1] + CapacityAt(g, i)
           /\ TotalCapacity(g) = s[Len(g.bins)]
<1> DEFINE n == Len(g.bins)
           Eq(f) == f = [i \in 0..n |-> IF i = 0 THEN 0
                                       ELSE f[i - 1] + CapacityAt(g, i)]
           F == CHOOSE f : Eq(f)
<1>1. TotalCapacity(g) = F[n]
  BY DEF TotalCapacity, CapacityAt
<1>2. n \in Nat /\ \A i : CapacityAt(g, i) \in Int
  BY CapacityType
<1> DEFINE G == [i \in 1..n |-> [x \in Int |-> x + CapacityAt(g, i)]]
<1> HIDE DEF n
<1>3. G \in [1..n -> [Int -> Int]]
  BY <1>2
<1>4. PICK f \in [0..n -> Int] : f[0] = 0 /\ \A i \in 1..n : f[i] = G[i][f[i - 1]]
  <2> HIDE DEF G
  <2>1. 0 \in Int /\ n \in Nat
    BY <1>2
  <2>2. Recursive(n, Int, 0, G)
    BY <1>3, <2>1, Recursion
  <2> QED BY <2>2, Zenon DEF Recursive
<1>5. \A i \in 1..n : f[i] = f[i - 1] + CapacityAt(g, i)
  <2>1. \A i \in 1..n, x \in Int : G[i][x] = x + CapacityAt(g, i)
    OBVIOUS
  <2>2. \A i \in 1..n : f[i - 1] \in Int
    BY <1>2
  <2> HIDE DEF G
  <2> QED BY <1>4, <2>1, <2>2
<1>6. Eq(f)
  BY <1>2, <1>4, <1>5
<1>7. Eq(F)
  <2> HIDE DEF Eq
  <2> QED BY <1>6
<1> HIDE DEF F
<1> DEFINE s == [i \in 0..n |-> F[i]]
<1>8. F[0] = 0 /\ \A i \in 1..n : F[i] = F[i - 1] + CapacityAt(g, i)
  BY <1>2, <1>7
<1>9. \A i \in 0..n : F[i] \in Int
  <2> DEFINE T == {i \in Nat : i <= n => F[i] \in Int}
  <2>1. 0 \in T
    BY <1>8
  <2>2. ASSUME NEW i \in T PROVE i + 1 \in T
    <3>1. SUFFICES ASSUME i + 1 <= n PROVE F[i + 1] \in Int
      OBVIOUS
    <3>2. F[i + 1] = F[i] + CapacityAt(g, i + 1)
      BY <1>2, <1>8, <3>1
    <3> QED BY <1>2, <2>2, <3>1, <3>2
  <2>3. T = Nat
    <3>1. T \in SUBSET Nat
      OBVIOUS
    <3> HIDE DEF T
    <3> QED BY <2>1, <2>2, <3>1, NatInduct
  <2> QED BY <2>3, <1>2
<1>10. s \in [0..n -> Int]
  BY <1>9
<1>11. s[0] = 0 /\ s[n] = F[n] /\ \A i \in 1..n : s[i] = s[i - 1] + CapacityAt(g, i)
  BY <1>2, <1>8
<1> QED BY <1>1, <1>10, <1>11 DEF n

(* The positions that w sends to bin b, and those it sends to one of the   *)
(* provisionable bins among the first i.                                   *)
At(w, n, b) == {j \in 1..n : w[j] = b}

Among(g, w, n, i) ==
  {j \in 1..n : w[j] \in Provisionable(g) /\ \E k \in 1..i : w[j] = g.bins[k]}

LEMMA AtFinite ==
  ASSUME NEW w, NEW n \in Nat, NEW b
  PROVE  IsFiniteSet(At(w, n, b)) /\ Cardinality(At(w, n, b)) \in Nat
<1>1. IsFiniteSet(1..n)
  BY FS_Interval
<1>2. At(w, n, b) \in SUBSET (1..n)
  BY DEF At
<1> QED BY <1>1, <1>2, FS_Subset, FS_CardinalityType

LEMMA AmongStep ==
  ASSUME NEW g, WellFormed(g), NEW w, NEW n \in Nat
  PROVE  /\ Cardinality(Among(g, w, n, 0)) = 0
         /\ \A i \in 0..Len(g.bins) : Cardinality(Among(g, w, n, i)) \in Nat
         /\ \A i \in 1..Len(g.bins) :
              Cardinality(Among(g, w, n, i)) =
                Cardinality(Among(g, w, n, i - 1))
                + (IF g.bins[i] \in Provisionable(g)
                   THEN Cardinality(At(w, n, g.bins[i])) ELSE 0)
<1>1. Among(g, w, n, 0) = {}
  BY DEF Among
<1>2. \A i : IsFiniteSet(Among(g, w, n, i)) /\ Cardinality(Among(g, w, n, i)) \in Nat
  <2>1. \A i : Among(g, w, n, i) \in SUBSET (1..n)
    BY DEF Among
  <2>2. IsFiniteSet(1..n)
    BY FS_Interval
  <2> QED BY <2>1, <2>2, FS_Subset, FS_CardinalityType
<1>3. ASSUME NEW i \in 1..Len(g.bins)
      PROVE  Cardinality(Among(g, w, n, i)) =
               Cardinality(Among(g, w, n, i - 1))
               + (IF g.bins[i] \in Provisionable(g)
                  THEN Cardinality(At(w, n, g.bins[i])) ELSE 0)
  <2>1. \A k \in 1..i : k \in 1..(i - 1) \/ k = i
    OBVIOUS
  <2>2. \A k \in 1..(i - 1) : k \in 1..i
    OBVIOUS
  <2>3. CASE g.bins[i] \notin Provisionable(g)
    <3>1. Among(g, w, n, i) = Among(g, w, n, i - 1)
      BY <2>1, <2>2, <2>3 DEF Among
    <3> QED BY <1>2, <2>3, <3>1
  <2>4. CASE g.bins[i] \in Provisionable(g)
    <3>1. i \in 1..i
      OBVIOUS
    <3>2. Among(g, w, n, i) = Among(g, w, n, i - 1) \cup At(w, n, g.bins[i])
      BY <2>1, <2>2, <2>4, <3>1 DEF Among, At
    <3>3. \A k \in 1..(i - 1) : g.bins[k] # g.bins[i]
      BY DEF WellFormed, IsInjective
    <3>4. Among(g, w, n, i - 1) \cap At(w, n, g.bins[i]) = {}
      BY <3>3 DEF Among, At
    <3>5. Cardinality({}) = 0
      BY FS_EmptySet
    <3>6. /\ IsFiniteSet(Among(g, w, n, i - 1)) /\ IsFiniteSet(At(w, n, g.bins[i]))
          /\ Cardinality(Among(g, w, n, i - 1)) \in Nat
          /\ Cardinality(At(w, n, g.bins[i])) \in Nat
      BY <1>2, AtFinite
    <3> DEFINE X == Among(g, w, n, i - 1)
               Y == At(w, n, g.bins[i])
    <3>7. Cardinality(X \cup Y) = Cardinality(X) + Cardinality(Y) - Cardinality(X \cap Y)
      <4> HIDE DEF X, Y
      <4>1. IsFiniteSet(X) /\ IsFiniteSet(Y)
        BY <3>6 DEF X, Y
      <4> QED BY <4>1, FS_Union
    <3>8. Cardinality(Among(g, w, n, i)) = Cardinality(X) + Cardinality(Y) - 0
      BY <3>2, <3>4, <3>5, <3>7
    <3>9. Cardinality(X) \in Nat /\ Cardinality(Y) \in Nat
      BY <3>6
    <3>10. Cardinality(Among(g, w, n, i)) = Cardinality(X) + Cardinality(Y)
      <4> HIDE DEF X, Y
      <4> QED BY <3>8, <3>9
    <3> QED BY <2>4, <3>10
  <2> QED BY <2>3, <2>4
<1>4. Cardinality({}) = 0
  BY FS_EmptySet
<1> QED BY <1>1, <1>2, <1>3, <1>4

(* If every provisionable bin is full, all of the capacity is used; if     *)
(* none overflows, no more than the capacity is.                           *)
LEMMA CapacityUsed ==
  ASSUME NEW g, WellFormed(g), NEW w, NEW n \in Nat
  PROVE  /\ (\A b \in Provisionable(g) :
                Cardinality(At(w, n, b)) >= CapacityOf(g, b))
            => TotalCapacity(g) <= Cardinality({j \in 1..n : w[j] \in Provisionable(g)})
         /\ (\A b \in Provisionable(g) :
                Cardinality(At(w, n, b)) <= CapacityOf(g, b))
            => TotalCapacity(g) >= Cardinality({j \in 1..n : w[j] \in Provisionable(g)})
<1> DEFINE m == Len(g.bins)
           C(i) == Cardinality(Among(g, w, n, i))
<1>1. PICK s \in [0..m -> Int] :
        /\ s[0] = 0
        /\ \A i \in 1..m : s[i] = s[i - 1] + CapacityAt(g, i)
        /\ TotalCapacity(g) = s[m]
  BY TotalCapacityDef
<1>2. m \in Nat /\ \A i : CapacityAt(g, i) \in Int
  BY CapacityType
<1>3. Among(g, w, n, m) = {j \in 1..n : w[j] \in Provisionable(g)}
  <2>1. \A b \in Provisionable(g) : \E k \in 1..m : b = g.bins[k]
    BY DEF Provisionable, Available, Range, WellFormed
  <2> QED BY <2>1 DEF Among
<1>4. /\ C(0) = 0
      /\ \A i \in 0..m : C(i) \in Nat
      /\ \A i \in 1..m : C(i) = C(i - 1) + (IF g.bins[i] \in Provisionable(g)
                                         THEN Cardinality(At(w, n, g.bins[i])) ELSE 0)
  BY AmongStep
<1>5. \A b : Cardinality(At(w, n, b)) \in Nat
  BY AtFinite
<1> HIDE DEF C, m
<1>6. ASSUME \A b \in Provisionable(g) : Cardinality(At(w, n, b)) >= CapacityOf(g, b)
      PROVE  s[m] <= C(m)
  <2>1. ASSUME NEW i \in 1..m PROVE C(i) >= C(i - 1) + CapacityAt(g, i)
    <3>1. C(i) \in Nat /\ C(i - 1) \in Nat
      BY <1>2, <1>4
    <3>2. CASE g.bins[i] \in Provisionable(g)
      <4>1. C(i) = C(i - 1) + Cardinality(At(w, n, g.bins[i]))
        BY <1>4, <3>2
      <4>2. /\ CapacityAt(g, i) = CapacityOf(g, g.bins[i])
            /\ Cardinality(At(w, n, g.bins[i])) >= CapacityOf(g, g.bins[i])
        BY <1>6, <3>2 DEF CapacityAt
      <4>3. Cardinality(At(w, n, g.bins[i])) \in Nat /\ CapacityOf(g, g.bins[i]) \in Int
        BY <1>5, CapacityType
      <4> QED BY <3>1, <4>1, <4>2, <4>3
    <3>3. CASE g.bins[i] \notin Provisionable(g)
      BY <1>4, <3>1, <3>3 DEF CapacityAt
    <3> QED BY <3>2, <3>3
  <2> DEFINE T == {i \in Nat : i <= m => s[i] <= C(i)}
  <2>2. 0 \in T
    BY <1>1, <1>4
  <2>3. ASSUME NEW i \in T PROVE i + 1 \in T
    <3>1. SUFFICES ASSUME i + 1 <= m PROVE s[i + 1] <= C(i + 1)
      <4>1. i + 1 \in Nat
        BY <2>3
      <4> QED BY <4>1
    <3>2. i \in Nat /\ i \in 0..m /\ i + 1 \in 1..m /\ (i + 1) - 1 = i
      BY <1>2, <2>3, <3>1
    <3>3. s[i] <= C(i)
      BY <2>3, <3>2
    <3>4. s[i + 1] = s[i] + CapacityAt(g, i + 1) /\ C(i + 1) >= C(i) + CapacityAt(g, i + 1)
      BY <1>1, <2>1, <3>2
    <3>5. C(i) \in Nat /\ C(i + 1) \in Nat /\ s[i] \in Int /\ CapacityAt(g, i + 1) \in Int
      BY <1>1, <1>2, <1>4, <3>2
    <3> QED BY <3>3, <3>4, <3>5
  <2>4. T = Nat
    <3>1. T \in SUBSET Nat
      OBVIOUS
    <3> HIDE DEF T
    <3> QED BY <2>2, <2>3, <3>1, NatInduct
  <2> QED BY <2>4, <1>2
<1>7. ASSUME \A b \in Provisionable(g) : Cardinality(At(w, n, b)) <= CapacityOf(g, b)
      PROVE  s[m] >= C(m)
  <2>1. ASSUME NEW i \in 1..m PROVE C(i) <= C(i - 1) + CapacityAt(g, i)
    <3>1. C(i) \in Nat /\ C(i - 1) \in Nat
      BY <1>2, <1>4
    <3>2. CASE g.bins[i] \in Provisionable(g)
      <4>1. C(i) = C(i - 1) + Cardinality(At(w, n, g.bins[i]))
        BY <1>4, <3>2
      <4>2. /\ CapacityAt(g, i) = CapacityOf(g, g.bins[i])
            /\ Cardinality(At(w, n, g.bins[i])) <= CapacityOf(g, g.bins[i])
        BY <1>7, <3>2 DEF CapacityAt
      <4>3. Cardinality(At(w, n, g.bins[i])) \in Nat /\ CapacityOf(g, g.bins[i]) \in Int
        BY <1>5, CapacityType
      <4> QED BY <3>1, <4>1, <4>2, <4>3
    <3>3. CASE g.bins[i] \notin Provisionable(g)
      BY <1>4, <3>1, <3>3 DEF CapacityAt
    <3> QED BY <3>2, <3>3
  <2> DEFINE T == {i \in Nat : i <= m => s[i] >= C(i)}
  <2>2. 0 \in T
    BY <1>1, <1>4
  <2>3. ASSUME NEW i \in T PROVE i + 1 \in T
    <3>1. SUFFICES ASSUME i + 1 <= m PROVE s[i + 1] >= C(i + 1)
      <4>1. i + 1 \in Nat
        BY <2>3
      <4> QED BY <4>1
    <3>2. i \in Nat /\ i \in 0..m /\ i + 1 \in 1..m /\ (i + 1) - 1 = i
      BY <1>2, <2>3, <3>1
    <3>3. s[i] >= C(i)
      BY <2>3, <3>2
    <3>4. s[i + 1] = s[i] + CapacityAt(g, i + 1) /\ C(i + 1) <= C(i) + CapacityAt(g, i + 1)
      BY <1>1, <2>1, <3>2
    <3>5. C(i) \in Nat /\ C(i + 1) \in Nat /\ s[i] \in Int /\ CapacityAt(g, i + 1) \in Int
      BY <1>1, <1>2, <1>4, <3>2
    <3> QED BY <3>3, <3>4, <3>5
  <2>4. T = Nat
    <3>1. T \in SUBSET Nat
      OBVIOUS
    <3> HIDE DEF T
    <3> QED BY <2>2, <2>3, <3>1, NatInduct
  <2> QED BY <2>4, <1>2
<1>8. C(m) = Cardinality({j \in 1..n : w[j] \in Provisionable(g)})
  BY <1>3 DEF C
<1> QED BY <1>1, <1>6, <1>7, <1>8

-----------------------------------------------------------------------------
(* provision_bins, for any cards without repetition.                       *)

Listed(cs) == cs \in Seq(Cards) /\ IsInjective(cs)

LEMMA ProvisionableType ==
  ASSUME NEW g, WellFormed(g)
  PROVE  /\ Provisionable(g) \subseteq Int
         /\ Provisionable(g) \subseteq Range(g.bins)
         /\ None \notin Provisionable(g)
<1>1. Provisionable(g) \subseteq Range(g.bins)
  BY DEF Provisionable, Available
<1>2. Range(g.bins) \subseteq Int
  BY DEF WellFormed, Range
<1> QED BY <1>1, <1>2, PlanningAssumption

(* First finds a bin of the set, if the request names one.                 *)
(* First is the first.                                                     *)
LEMMA FirstLeast ==
  ASSUME NEW g, WellFormed(g), NEW B, B \subseteq Range(g.bins), B # {}
  PROVE  \E p \in 1..Len(g.bins) : /\ g.bins[p] = First(g, B) /\ g.bins[p] \in B
                                   /\ \A x \in 1..(p - 1) : g.bins[x] \notin B
<1> DEFINE T == {i \in DOMAIN g.bins : g.bins[i] \in B}
<1>1. /\ T \in SUBSET Nat /\ T # {} /\ DOMAIN g.bins = 1..Len(g.bins)
      /\ Len(g.bins) \in Nat
  BY DEF WellFormed, Range
<1>2. \E n \in T : \A m \in T : n <= m
  <2> HIDE DEF T
  <2> QED BY <1>1, NatLeast
<1>3. Min(T) \in T /\ \A m \in T : Min(T) <= m
  <2> HIDE DEF T
  <2> QED BY <1>2 DEF Min
<1> DEFINE p == Min(T)
<1>4. First(g, B) = g.bins[p]
  BY DEF First
<1> HIDE DEF p
<1>5. p \in T /\ \A m \in T : p <= m
  BY <1>3 DEF p
<1>6. p \in 1..Len(g.bins) /\ g.bins[p] \in B
  BY <1>1, <1>5
<1>7. \A x \in 1..(p - 1) : x \in 1..Len(g.bins) /\ ~(p <= x)
  BY <1>1, <1>6
<1>8. \A x \in 1..(p - 1) : g.bins[x] \notin B
  BY <1>1, <1>5, <1>7
<1> QED BY <1>4, <1>6, <1>8

LEMMA FirstIn ==
  ASSUME NEW g, WellFormed(g), NEW B, B \subseteq Range(g.bins), B # {}
  PROVE  First(g, B) \in B
BY FirstLeast

LEMMA PinnedStep ==
  ASSUME NEW g, NEW cs, Listed(cs), NEW b
  PROVE  /\ \A i \in Nat : PinnedAfter(g, cs, i, b) \in Nat
         /\ \A i \in 1..Len(cs) :
              PinnedAfter(g, cs, i - 1, b) =
                PinnedAfter(g, cs, i, b) + (IF g.pinned[cs[i]] = b THEN 1 ELSE 0)
<1> DEFINE X(i) == {j \in (i + 1)..Len(cs) : g.pinned[cs[j]] = b}
<1>1. ASSUME NEW i \in Nat PROVE IsFiniteSet(X(i)) /\ Cardinality(X(i)) \in Nat
  <2>1. Len(cs) \in Nat
    BY DEF Listed
  <2>2. X(i) \in SUBSET (1..Len(cs))
    BY <2>1
  <2>3. IsFiniteSet(1..Len(cs))
    BY <2>1, FS_Interval
  <2> HIDE DEF X
  <2> QED BY <2>2, <2>3, FS_Subset, FS_CardinalityType
<1>2. ASSUME NEW i \in 1..Len(cs)
      PROVE  Cardinality(X(i - 1)) =
               Cardinality(X(i)) + (IF g.pinned[cs[i]] = b THEN 1 ELSE 0)
  <2>1. Len(cs) \in Nat
    BY DEF Listed
  <2>2. (i - 1) + 1 = i /\ \A j \in i..Len(cs) : j = i \/ j \in (i + 1)..Len(cs)
    BY <2>1
  <2>3. i \notin X(i) /\ i \in i..Len(cs)
    BY <2>1
  <2>4. X(i) \subseteq X(i - 1)
    BY <2>1
  <2>5. CASE g.pinned[cs[i]] = b
    <3>1. X(i - 1) = X(i) \cup {i}
      BY <2>1, <2>2, <2>3, <2>4, <2>5
    <3>2. IsFiniteSet(X(i))
      BY <1>1
    <3> HIDE DEF X
    <3> QED BY <2>3, <2>5, <3>1, <3>2, FS_AddElement
  <2>6. CASE g.pinned[cs[i]] # b
    <3>1. X(i - 1) = X(i)
      BY <2>2, <2>4, <2>6
    <3>2. i \in Nat
      OBVIOUS
    <3> HIDE DEF X
    <3>3. Cardinality(X(i)) \in Nat
      BY <1>1, <3>2
    <3> QED BY <2>6, <3>1, <3>3
  <2> QED BY <2>5, <2>6
<1> QED BY <1>1, <1>2 DEF PinnedAfter

(* After i cards: w says where each went; the bins hold exactly these, in  *)
(* their order, and keep room for the pinned cards still to come.          *)
Holds(g, cs, d, i, w) ==
  /\ d \in [Provisionable(g) -> Seq(Cards)]
  /\ w \in [1..i -> Provisionable(g)]
  /\ \A j \in 1..i : g.pinned[cs[j]] \in {None, w[j]}
  /\ \A b \in Provisionable(g) : \A k \in 1..Len(d[b]) :
       \E j \in 1..i : w[j] = b /\ d[b][k] = cs[j]
  /\ \A j \in 1..i : \E k \in 1..Len(d[w[j]]) : d[w[j]][k] = cs[j]

InOrder(g, cs, d, i) ==
  \A b \in Provisionable(g) : \A k, l \in 1..Len(d[b]) : \A j, h \in 1..i :
    k < l /\ d[b][k] = cs[j] /\ d[b][l] = cs[h] => j < h

RoomKept(g, cs, d, i, w) ==
  \A b \in Provisionable(g) :
    /\ Len(d[b]) = Cardinality(At(w, i, b))
    /\ Len(d[b]) + PinnedAfter(g, cs, i, b) <= CapacityOf(g, b)

(* The greedy loop is never stuck: if no bin could take an unpinned card   *)
(* without taking room from the pinned ones, every bin would be full up to *)
(* the cards pinned to it, and the capacity less than the number of cards. *)
LEMMA BinForFinds ==
  ASSUME NEW g, WellFormed(g), NEW cs, Listed(cs), CanProvision(g, cs),
         NEW i \in 1..Len(cs), NEW d, NEW w,
         Holds(g, cs, d, i - 1, w), RoomKept(g, cs, d, i - 1, w)
  PROVE  LET b == BinFor(g, cs, d, i)
         IN  /\ b \in Provisionable(g)
             /\ g.pinned[cs[i]] \in {None, b}
             /\ Len(d[b]) + 1 + PinnedAfter(g, cs, i, b) <= CapacityOf(g, b)
<1> DEFINE P == Provisionable(g)
           n == Len(cs)
           pin == g.pinned[cs[i]]
           PA(k, b) == PinnedAfter(g, cs, k, b)
           fitting == {b \in P : /\ CapacityOf(g, b) - Len(d[b]) > 0
                                 /\ CapacityOf(g, b) - Len(d[b]) - 1 >= PA(i, b)}
<1>1. /\ n \in Nat /\ i \in 1..n /\ cs \in [1..n -> Cards]
      /\ P \subseteq Int /\ P \subseteq Range(g.bins) /\ None \notin P
  BY ProvisionableType DEF Listed
<1>2. pin \in {None} \cup P
  BY <1>1 DEF CanProvision, Range
<1>3. \A b \in P : Len(d[b]) \in Nat
  BY DEF Holds
<1>4. \A b : CapacityOf(g, b) \in Int
  BY CapacityType
<1>5. \A b : /\ PA(i, b) \in Nat
             /\ PA(i - 1, b) = PA(i, b) + (IF pin = b THEN 1 ELSE 0)
  <2>1. i \in Nat
    BY <1>1
  <2> HIDE DEF fitting, P
  <2> QED BY <2>1, PinnedStep
<1>6. \A b \in P : Len(d[b]) + PA(i - 1, b) <= CapacityOf(g, b)
  BY DEF RoomKept
<1> HIDE DEF P, n, pin, PA
<1>7. CASE pin # None
  <2>1. Len(d[pin]) + 1 + PA(i, pin) <= CapacityOf(g, pin)
    BY <1>2, <1>3, <1>4, <1>5, <1>6, <1>7
  <2>2. CapacityOf(g, pin) - Len(d[pin]) > 0 /\ pin \in P
    BY <1>2, <1>3, <1>4, <1>5, <1>7, <2>1
  <2>3. BinFor(g, cs, d, i) = pin
    BY <1>7, <2>2 DEF BinFor, pin
  <2> QED BY <2>1, <2>2, <2>3 DEF P, pin, PA
<1>8. CASE pin = None
  <2>1. fitting # {}
    <3>1. SUFFICES ASSUME fitting = {} PROVE FALSE
      OBVIOUS
    <3>2. \A b \in P : CapacityOf(g, b) = Len(d[b]) + PA(i, b)
      <4>1. SUFFICES ASSUME NEW b \in P PROVE CapacityOf(g, b) = Len(d[b]) + PA(i, b)
        OBVIOUS
      <4>2. ~(/\ CapacityOf(g, b) - Len(d[b]) > 0
              /\ CapacityOf(g, b) - Len(d[b]) - 1 >= PA(i, b))
        BY <3>1
      <4>3. PA(i - 1, b) = PA(i, b)
        BY <1>1, <1>5, <1>8
      <4> QED BY <1>3, <1>4, <1>5, <1>6, <4>2, <4>3
    <3> DEFINE o == [j \in 1..n |-> IF j < i THEN w[j] ELSE g.pinned[cs[j]]]
    <3>3. \A b \in P : Cardinality(At(o, n, b)) = CapacityOf(g, b)
      <4>1. SUFFICES ASSUME NEW b \in P
                     PROVE  Cardinality(At(o, n, b)) = CapacityOf(g, b)
        OBVIOUS
      <4> DEFINE X == At(w, i - 1, b)
                 Y == {j \in (i + 1)..n : g.pinned[cs[j]] = b}
      <4>2. i - 1 \in Nat /\ \A j : j \in 1..(i - 1) <=> j \in 1..n /\ j < i
        BY <1>1
      <4>3. \A j : j \in (i + 1)..n <=> j \in 1..n /\ j > i
        BY <1>1
      <4>4. g.pinned[cs[i]] # b
        BY <1>1, <1>8 DEF pin
      <4>5. At(o, n, b) = X \cup Y
        BY <1>1, <4>2, <4>3, <4>4 DEF At
      <4>6. X \cap Y = {}
        BY <1>1, <4>2, <4>3 DEF At
      <4>7. IsFiniteSet(X) /\ Cardinality(X) = Len(d[b])
        BY <4>2, AtFinite DEF RoomKept, P
      <4>8. IsFiniteSet(Y) /\ Cardinality(Y) = PA(i, b)
        <5>1. Y \in SUBSET (1..n)
          BY <4>3
        <5>2. IsFiniteSet(1..n)
          BY <1>1, FS_Interval
        <5>3. Cardinality(Y) = PA(i, b)
          BY DEF PA, PinnedAfter, n
        <5> HIDE DEF Y
        <5> QED BY <5>1, <5>2, <5>3, FS_Subset
      <4>9. Cardinality({}) = 0
        BY FS_EmptySet
      <4> HIDE DEF X, Y, o
      <4>10. Cardinality(X \cup Y) = Cardinality(X) + Cardinality(Y) - Cardinality(X \cap Y)
        BY <4>7, <4>8, FS_Union
      <4>11. Cardinality(At(o, n, b)) = Len(d[b]) + PA(i, b) - 0
        BY <4>5, <4>6, <4>7, <4>8, <4>9, <4>10
      <4> QED BY <1>3, <1>5, <3>2, <4>11
    <3>4. TotalCapacity(g) <= Cardinality({j \in 1..n : o[j] \in P})
      <4> HIDE DEF o
      <4>1. \A b \in P : Cardinality(At(o, n, b)) >= CapacityOf(g, b)
        BY <1>4, <3>3
      <4> QED BY <1>1, <4>1, CapacityUsed DEF P
    <3>5. Cardinality({j \in 1..n : o[j] \in P}) <= n - 1
      <4>1. o[i] \notin P
        BY <1>1, <1>8 DEF pin
      <4>2. {j \in 1..n : o[j] \in P} \in SUBSET ((1..n) \ {i})
        BY <4>1
      <4>3. IsFiniteSet(1..n) /\ Cardinality(1..n) = n
        BY <1>1, FS_Interval
      <4>4. IsFiniteSet((1..n) \ {i}) /\ Cardinality((1..n) \ {i}) = n - 1
        BY <1>1, <4>3, FS_RemoveElement
      <4> HIDE DEF o
      <4> QED BY <4>2, <4>4, FS_Subset
    <3>6. Cardinality({j \in 1..n : o[j] \in P}) \in Nat
      <4>1. IsFiniteSet(1..n) /\ {j \in 1..n : o[j] \in P} \in SUBSET (1..n)
        BY <1>1, FS_Interval
      <4> HIDE DEF o
      <4> QED BY <4>1, FS_Subset, FS_CardinalityType
    <3>7. TotalCapacity(g) >= n
      BY DEF CanProvision, n
    <3>8. TotalCapacity(g) \in Int
      <4>1. Len(g.bins) \in Nat
        BY CapacityType
      <4> QED BY <4>1, TotalCapacityDef
    <3> HIDE DEF o
    <3> QED BY <1>1, <3>4, <3>5, <3>6, <3>7, <3>8
  <2>2. BinFor(g, cs, d, i) = First(g, fitting)
    BY <1>8, <2>1 DEF BinFor, pin, PA, P
  <2>3. First(g, fitting) \in fitting
    <3>1. fitting \subseteq Range(g.bins)
      BY <1>1
    <3> HIDE DEF fitting
    <3> QED BY <2>1, <3>1, FirstIn
  <2>4. \A b \in fitting : b \in P /\ Len(d[b]) + 1 + PA(i, b) <= CapacityOf(g, b)
    BY <1>3, <1>4, <1>5
  <2> HIDE DEF fitting
  <2> QED BY <1>8, <2>2, <2>3, <2>4 DEF P, pin, PA
<1> QED BY <1>7, <1>8

(* Placing a card keeps all of this.                                       *)
LEMMA PlaceKeeps ==
  ASSUME NEW g, WellFormed(g), Infeasible \notin [Provisionable(g) -> Seq(Cards)],
         NEW cs, Listed(cs), CanProvision(g, cs),
         NEW i \in 1..Len(cs), NEW d, NEW w,
         Holds(g, cs, d, i - 1, w), InOrder(g, cs, d, i - 1),
         RoomKept(g, cs, d, i - 1, w)
  PROVE  \E v : /\ Holds(g, cs, Place(g, cs, d, i), i, v)
                /\ InOrder(g, cs, Place(g, cs, d, i), i)
                /\ RoomKept(g, cs, Place(g, cs, d, i), i, v)
<1> DEFINE P == Provisionable(g)
           b == BinFor(g, cs, d, i)
           e == [d EXCEPT ![b] = Append(@, cs[i])]
           v == [j \in 1..i |-> IF j = i THEN b ELSE w[j]]
<1>1. /\ b \in P
      /\ g.pinned[cs[i]] \in {None, b}
      /\ Len(d[b]) + 1 + PinnedAfter(g, cs, i, b) <= CapacityOf(g, b)
  BY BinForFinds
<1>2. Place(g, cs, d, i) = e
  <2>1. b # None /\ d # Infeasible
    BY <1>1, ProvisionableType DEF Holds
  <2> QED BY <2>1 DEF Place
<1>3. /\ Len(cs) \in Nat /\ cs \in [1..Len(cs) -> Cards] /\ i \in Nat /\ i - 1 \in Nat
      /\ \A j : j \in 1..i <=> j = i \/ j \in 1..(i - 1)
      /\ \A j \in 1..(i - 1) : j < i /\ j \in 1..Len(cs)
  BY DEF Listed
<1>4. d \in [P -> Seq(Cards)] /\ w \in [1..(i - 1) -> P]
  BY DEF Holds
<1> HIDE DEF b, P
<1>5. /\ e \in [P -> Seq(Cards)]
      /\ \A x \in P : x # b => e[x] = d[x]
      /\ Len(e[b]) = Len(d[b]) + 1 /\ e[b][Len(d[b]) + 1] = cs[i]
      /\ \A k \in 1..Len(d[b]) : e[b][k] = d[b][k]
      /\ \A x \in P : Len(d[x]) \in Nat
  <2>1. d[b] \in Seq(Cards) /\ cs[i] \in Cards
    BY <1>1, <1>3, <1>4
  <2> DEFINE q == Append(d[b], cs[i])
  <2>2. /\ q \in Seq(Cards) /\ Len(q) = Len(d[b]) + 1 /\ q[Len(d[b]) + 1] = cs[i]
        /\ \A k \in 1..Len(d[b]) : q[k] = d[b][k]
    BY <2>1
  <2>3. e = [d EXCEPT ![b] = q]
    OBVIOUS
  <2> HIDE DEF q, e
  <2>4. e[b] = q /\ \A x \in P : x # b => e[x] = d[x]
    BY <1>1, <1>4, <2>3
  <2>5. e \in [P -> Seq(Cards)]
    BY <1>4, <2>2, <2>3
  <2>6. \A x \in P : Len(d[x]) \in Nat
    BY <1>4
  <2> QED BY <2>2, <2>4, <2>5, <2>6
<1>6. /\ v \in [1..i -> P] /\ v[i] = b
      /\ \A j \in 1..(i - 1) : v[j] = w[j]
  BY <1>1, <1>3, <1>4
<1> HIDE DEF e, v
<1>7. Holds(g, cs, e, i, v)
  <2>1. ASSUME NEW j \in 1..i PROVE g.pinned[cs[j]] \in {None, v[j]}
    BY <1>1, <1>3, <1>6 DEF Holds
  <2>2. ASSUME NEW x \in P, NEW k \in 1..Len(e[x])
        PROVE  \E j \in 1..i : v[j] = x /\ e[x][k] = cs[j]
    <3>1. CASE x = b /\ k = Len(d[b]) + 1
      BY <1>3, <1>5, <1>6, <3>1
    <3>2. CASE ~(x = b /\ k = Len(d[b]) + 1)
      <4>1. k \in 1..Len(d[x]) /\ e[x][k] = d[x][k]
        BY <1>1, <1>5, <3>2
      <4>2. PICK j \in 1..(i - 1) : w[j] = x /\ d[x][k] = cs[j]
        BY <4>1 DEF Holds, P
      <4> QED BY <1>3, <1>6, <4>1, <4>2
    <3> QED BY <3>1, <3>2
  <2>3. ASSUME NEW j \in 1..i PROVE \E k \in 1..Len(e[v[j]]) : e[v[j]][k] = cs[j]
    <3>1. CASE j = i
      <4>1. Len(d[b]) + 1 \in 1..Len(e[b])
        BY <1>1, <1>5
      <4> QED BY <1>5, <1>6, <3>1, <4>1
    <3>2. CASE j # i
      <4>1. j \in 1..(i - 1) /\ v[j] = w[j] /\ w[j] \in P
        BY <1>3, <1>4, <1>6, <3>2
      <4>2. PICK k \in 1..Len(d[w[j]]) : d[w[j]][k] = cs[j]
        BY <4>1 DEF Holds
      <4>3. k \in 1..Len(e[w[j]]) /\ e[w[j]][k] = d[w[j]][k]
        <5>1. CASE w[j] = b
          BY <1>5, <4>1, <4>2, <5>1
        <5>2. CASE w[j] # b
          BY <1>5, <4>1, <4>2, <5>2
        <5> QED BY <5>1, <5>2
      <4> QED BY <4>1, <4>2, <4>3
    <3> QED BY <3>1, <3>2
  <2> QED BY <1>5, <1>6, <2>1, <2>2, <2>3 DEF Holds, P
<1>8. InOrder(g, cs, e, i)
  <2>1. SUFFICES ASSUME NEW x \in P, NEW k \in 1..Len(e[x]), NEW l \in 1..Len(e[x]),
                        NEW j \in 1..i, NEW h \in 1..i,
                        k < l, e[x][k] = cs[j], e[x][l] = cs[h]
                 PROVE  j < h
    BY DEF InOrder, P
  <2>2. k \in 1..Len(d[x]) /\ e[x][k] = d[x][k]
    <3>1. CASE x = b
      <4>1. k \in 1..Len(d[b])
        BY <1>5, <2>1, <3>1
      <4> QED BY <1>5, <3>1, <4>1
    <3>2. CASE x # b
      BY <1>5, <2>1, <3>2
    <3> QED BY <3>1, <3>2
  <2>3. PICK y \in 1..(i - 1) : w[y] = x /\ d[x][k] = cs[y]
    BY <2>2 DEF Holds, P
  <2>4. j = y
    BY <1>3, <2>1, <2>2, <2>3 DEF Listed, IsInjective
  <2>5. CASE h = i
    BY <1>3, <2>3, <2>4, <2>5
  <2>6. CASE h # i
    <3>1. h \in 1..(i - 1) /\ j \in 1..(i - 1)
      BY <1>3, <2>3, <2>4, <2>6
    <3>2. ~(x = b /\ l = Len(d[b]) + 1)
      <4>1. cs[h] # cs[i]
        BY <1>3, <2>6 DEF Listed, IsInjective
      <4> QED BY <1>5, <2>1, <4>1
    <3>3. l \in 1..Len(d[x]) /\ e[x][l] = d[x][l]
      BY <1>1, <1>5, <3>2
    <3> QED BY <2>1, <2>2, <3>1, <3>3 DEF InOrder, P
  <2> QED BY <2>5, <2>6
<1>9. RoomKept(g, cs, e, i, v)
  <2>1. SUFFICES ASSUME NEW x \in P
                 PROVE  /\ Len(e[x]) = Cardinality(At(v, i, x))
                        /\ Len(e[x]) + PinnedAfter(g, cs, i, x) <= CapacityOf(g, x)
    BY DEF RoomKept, P
  <2>2. /\ Len(d[x]) = Cardinality(At(w, i - 1, x))
        /\ Len(d[x]) + PinnedAfter(g, cs, i - 1, x) <= CapacityOf(g, x)
    BY DEF RoomKept, P
  <2>3. /\ PinnedAfter(g, cs, i, x) \in Nat
        /\ PinnedAfter(g, cs, i - 1, x) =
             PinnedAfter(g, cs, i, x) + (IF g.pinned[cs[i]] = x THEN 1 ELSE 0)
    BY <1>3, PinnedStep
  <2>4. CapacityOf(g, x) \in Int /\ x \in Int /\ None \notin Int
    BY CapacityType, ProvisionableType, PlanningAssumption DEF P
  <2>5. IsFiniteSet(At(w, i - 1, x)) /\ i \notin At(w, i - 1, x)
    <3>1. IsFiniteSet(At(w, i - 1, x))
      BY <1>3, AtFinite
    <3>2. i \notin At(w, i - 1, x)
      BY <1>3 DEF At
    <3> QED BY <3>1, <3>2
  <2>6. CASE x = b
    <3>1. At(v, i, x) = At(w, i - 1, x) \cup {i}
      BY <1>3, <1>6, <2>6 DEF At
    <3>2. Cardinality(At(v, i, x)) = Cardinality(At(w, i - 1, x)) + 1
      BY <2>5, <3>1, FS_AddElement
    <3> QED BY <1>1, <1>5, <2>2, <2>6, <3>2
  <2>7. CASE x # b
    <3>1. At(v, i, x) = At(w, i - 1, x)
      BY <1>3, <1>6, <2>7 DEF At
    <3>2. PinnedAfter(g, cs, i - 1, x) = PinnedAfter(g, cs, i, x)
      BY <1>1, <2>3, <2>4, <2>7
    <3> QED BY <1>5, <2>2, <2>7, <3>1, <3>2
  <2> QED BY <2>6, <2>7
<1> QED BY <1>2, <1>7, <1>8, <1>9

Contents(g) == [Provisionable(g) -> Seq(Cards)]

LEMMA PlaceType ==
  ASSUME NEW g, WellFormed(g), NEW cs, Listed(cs), CanProvision(g, cs),
         NEW i \in 1..Len(cs), NEW d \in Contents(g) \cup {Infeasible}
  PROVE  Place(g, cs, d, i) \in Contents(g) \cup {Infeasible}
<1> DEFINE P == Provisionable(g)
           b == BinFor(g, cs, d, i)
           fitting == {x \in P :
                         /\ CapacityOf(g, x) - Len(d[x]) > 0
                         /\ CapacityOf(g, x) - Len(d[x]) - 1 >= PinnedAfter(g, cs, i, x)}
<1>1. cs[i] \in Cards /\ cs[i] \in Range(cs)
  BY DEF Listed, Range
<1>2. g.pinned[cs[i]] \in {None} \cup P
  BY <1>1 DEF CanProvision
<1>3. fitting # {} => First(g, fitting) \in P
  <2>1. fitting \subseteq P /\ P \subseteq Range(g.bins)
    BY ProvisionableType
  <2> HIDE DEF fitting, P
  <2> QED BY <2>1, FirstIn
<1>4. b \in {None} \cup P
  <2>1. g.pinned[cs[i]] = None => b \in {None, First(g, fitting)}
    BY DEF BinFor
  <2>2. g.pinned[cs[i]] # None => b \in {None, g.pinned[cs[i]]}
    BY DEF BinFor
  <2>3. g.pinned[cs[i]] = None /\ fitting = {} => b = None
    BY DEF BinFor
  <2> HIDE DEF b, fitting, P
  <2> QED BY <1>2, <1>3, <2>1, <2>2, <2>3
<1>5. CASE d = Infeasible \/ b = None
  BY <1>5 DEF Place
<1>6. CASE ~(d = Infeasible \/ b = None)
  <2>1. Place(g, cs, d, i) = [d EXCEPT ![b] = Append(@, cs[i])]
    BY <1>6 DEF Place
  <2>2. d \in [P -> Seq(Cards)] /\ b \in P
    BY <1>4, <1>6 DEF Contents
  <2> HIDE DEF b, P
  <2>3. [d EXCEPT ![b] = Append(@, cs[i])] \in [P -> Seq(Cards)]
    BY <1>1, <2>2
  <2> QED BY <2>1, <2>3 DEF Contents, P
<1> QED BY <1>5, <1>6

(* The contents of the bins, one bin after the other.                      *)
Row(g, d) ==
  [x \in DOMAIN g.bins |-> IF g.bins[x] \in Provisionable(g) THEN d[g.bins[x]] ELSE <<>>]

(* Without pins the bins are filled one after the other.                   *)
Filling(g, cs, d, i) ==
  (\A c \in Cards : g.pinned[c] = None) =>
    /\ FlattenSeq(Row(g, d)) = SubSeq(cs, 1, i)
    /\ \A x, y \in 1..Len(g.bins) :
         x < y /\ g.bins[x] \in Provisionable(g) /\ Row(g, d)[y] # <<>>
           => Len(Row(g, d)[x]) >= CapacityOf(g, g.bins[x])

LEMMA RowType ==
  ASSUME NEW g, WellFormed(g), NEW d \in Contents(g)
  PROVE  Row(g, d) \in Seq(Seq(Cards)) /\ Len(Row(g, d)) = Len(g.bins)
<1>1. Len(g.bins) \in Nat /\ DOMAIN g.bins = 1..Len(g.bins)
  BY DEF WellFormed
<1>2. Row(g, d) \in [1..Len(g.bins) -> Seq(Cards)]
  BY <1>1 DEF Row, Contents
<1> QED BY <1>1, <1>2

LEMMA NothingFilled ==
  ASSUME NEW g, WellFormed(g), NEW cs, Listed(cs), NEW d \in Contents(g),
         \A b \in Provisionable(g) : d[b] = <<>>
  PROVE  Filling(g, cs, d, 0)
<1> DEFINE q == Row(g, d)
           n == Len(q)
<1>1. q \in Seq(Seq(Cards)) /\ n = Len(g.bins) /\ n \in Nat
  BY RowType
<1>2. \A x \in 1..n : q[x] = <<>>
  <2>1. DOMAIN g.bins = 1..Len(g.bins)
    BY DEF WellFormed
  <2> QED BY <1>1, <2>1 DEF Row
<1>3. PICK f \in [0..n -> Seq(Cards)] :
        /\ f[0] = <<>>
        /\ \A i \in 1..n : f[i] = f[i - 1] \o q[i]
        /\ FlattenSeq(q) = f[n]
  BY <1>1, FlattenDef
<1>4. \A x \in Seq(Cards) : x \o <<>> = x
  OBVIOUS
<1> HIDE DEF q, n
<1> DEFINE T == {i \in Nat : i <= n => f[i] = <<>>}
<1>5. 0 \in T
  BY <1>3
<1>6. ASSUME NEW i \in T PROVE i + 1 \in T
  <2>1. SUFFICES ASSUME i + 1 <= n PROVE f[i + 1] = <<>>
    <3>1. i + 1 \in Nat
      BY <1>6
    <3> QED BY <3>1
  <2>2. i \in Nat /\ i <= n /\ i + 1 \in 1..n /\ (i + 1) - 1 = i /\ i \in 0..n
    BY <1>1, <1>6, <2>1
  <2>3. f[i] = <<>> /\ f[i] \in Seq(Cards)
    BY <1>3, <1>6, <2>2
  <2>4. f[i + 1] = f[i] \o <<>>
    BY <1>2, <1>3, <2>2
  <2> QED BY <1>4, <2>3, <2>4
<1>7. T = Nat
  <2>1. T \in SUBSET Nat
    OBVIOUS
  <2> HIDE DEF T
  <2> QED BY <1>5, <1>6, <2>1, NatInduct
<1>8. f[n] = <<>>
  <2>1. n \in T /\ n <= n
    BY <1>1, <1>7
  <2> QED BY <2>1
<1>9. SubSeq(cs, 1, 0) = <<>>
  BY DEF Listed
<1> QED BY <1>1, <1>2, <1>3, <1>8, <1>9 DEF Filling, q

LEMMA NonePinned ==
  ASSUME NEW g, WellFormed(g), \A c \in Cards : g.pinned[c] = None,
         NEW cs, Listed(cs), NEW i \in Nat, NEW b \in Provisionable(g)
  PROVE  PinnedAfter(g, cs, i, b) = 0
<1> DEFINE J == {j \in (i + 1)..Len(cs) : g.pinned[cs[j]] = b}
<1>1. b # None
  BY ProvisionableType
<1>2. \A j \in (i + 1)..Len(cs) : cs[j] \in Cards
  BY DEF Listed
<1>3. J = {}
  BY <1>1, <1>2
<1>4. Cardinality({}) = 0
  BY FS_EmptySet
<1> QED BY <1>3, <1>4 DEF PinnedAfter

LEMMA PlaceFills ==
  ASSUME NEW g, WellFormed(g), Infeasible \notin Contents(g),
         NEW cs, Listed(cs), CanProvision(g, cs),
         NEW i \in 1..Len(cs), NEW d, NEW w,
         Holds(g, cs, d, i - 1, w), RoomKept(g, cs, d, i - 1, w),
         Filling(g, cs, d, i - 1)
  PROVE  Filling(g, cs, Place(g, cs, d, i), i)
<1> DEFINE P == Provisionable(g)
           b == BinFor(g, cs, d, i)
           c == cs[i]
           e == [d EXCEPT ![b] = Append(@, c)]
           fitting == {x \in P : /\ CapacityOf(g, x) - Len(d[x]) > 0
                                 /\ CapacityOf(g, x) - Len(d[x]) - 1 >= PinnedAfter(g, cs, i, x)}
<1>1. SUFFICES ASSUME \A x \in Cards : g.pinned[x] = None
               PROVE  /\ FlattenSeq(Row(g, e)) = SubSeq(cs, 1, i)
                      /\ \A x, y \in 1..Len(g.bins) :
                           x < y /\ g.bins[x] \in P /\ Row(g, e)[y] # <<>>
                             => Len(Row(g, e)[x]) >= CapacityOf(g, g.bins[x])
  <2>1. b \in P /\ d \in [P -> Seq(Cards)]
    <3>1. b \in P
      BY BinForFinds
    <3> QED BY <3>1 DEF Holds
  <2>2. b # None /\ d # Infeasible
    BY <2>1, ProvisionableType DEF Contents
  <2>3. Place(g, cs, d, i) = e
    BY <2>2 DEF Place
  <2> QED BY <2>3 DEF Filling
<1>2. b \in P /\ d \in [P -> Seq(Cards)] /\ b # None
  <2>1. b \in P
    BY BinForFinds
  <2>2. b # None
    BY <2>1, ProvisionableType
  <2> QED BY <2>1, <2>2 DEF Holds
<1>3. /\ i \in Nat /\ Len(cs) \in Nat /\ cs \in Seq(Cards) /\ c \in Cards
      /\ \A x : CapacityOf(g, x) \in Int
  BY CapacityType DEF Listed
<1>4. \A x \in P : x \in fitting <=> CapacityOf(g, x) > Len(d[x])
  <2>1. SUFFICES ASSUME NEW x \in P PROVE x \in fitting <=> CapacityOf(g, x) > Len(d[x])
    OBVIOUS
  <2>2. PinnedAfter(g, cs, i, x) = 0
    BY <1>1, <1>3, NonePinned
  <2>3. Len(d[x]) \in Nat /\ CapacityOf(g, x) \in Int
    BY <1>2, <1>3
  <2> HIDE DEF P
  <2> QED BY <2>2, <2>3
<1>5. fitting # {} /\ b = First(g, fitting)
  <2>1. g.pinned[c] = None
    BY <1>1, <1>3
  <2>2. b = IF fitting = {} THEN None ELSE First(g, fitting)
    BY <2>1 DEF BinFor
  <2> HIDE DEF b, fitting
  <2> QED BY <1>2, <2>2
<1>6. fitting \subseteq Range(g.bins)
  BY ProvisionableType
<1> HIDE DEF fitting, b
<1>7. PICK p \in 1..Len(g.bins) : /\ g.bins[p] = b /\ g.bins[p] \in fitting
                                  /\ \A x \in 1..(p - 1) : g.bins[x] \notin fitting
  BY <1>5, <1>6, FirstLeast
<1> DEFINE q == Row(g, d)
           r == Row(g, e)
<1>8. /\ d \in Contents(g) /\ e \in Contents(g)
  BY <1>2, <1>3 DEF Contents
<1>9. /\ q \in Seq(Seq(Cards)) /\ r \in Seq(Seq(Cards)) /\ Len(q) = Len(g.bins)
      /\ Len(r) = Len(g.bins) /\ Len(g.bins) \in Nat
  BY <1>8, RowType, CapacityType
<1>10. DOMAIN g.bins = 1..Len(g.bins)
       /\ \A x, y \in 1..Len(g.bins) : g.bins[x] = g.bins[y] => x = y
  BY DEF WellFormed, IsInjective
<1>11. q[p] = d[b] /\ r[p] = Append(q[p], c)
  BY <1>2, <1>7, <1>10 DEF Row
<1>12. \A y \in 1..Len(g.bins) : y # p => r[y] = q[y]
  <2>1. \A x \in P : x # b => e[x] = d[x]
    BY <1>2
  <2>2. \A y \in 1..Len(g.bins) : y # p => g.bins[y] # b
    BY <1>7, <1>10
  <2> HIDE DEF e, P
  <2> QED BY <1>10, <2>1, <2>2 DEF Row, P
<1>13. \A x \in 1..Len(g.bins) : g.bins[x] \in P => q[x] = d[g.bins[x]] /\ Len(q[x]) \in Nat
  BY <1>2, <1>10 DEF Row
<1>14. /\ FlattenSeq(q) = SubSeq(cs, 1, i - 1)
       /\ \A x, y \in 1..Len(g.bins) :
            x < y /\ g.bins[x] \in P /\ q[y] # <<>> => Len(q[x]) >= CapacityOf(g, g.bins[x])
  BY <1>1 DEF Filling
<1>15. Len(q[p]) < CapacityOf(g, b)
  BY <1>2, <1>3, <1>4, <1>7, <1>11
<1> HIDE DEF q, r, e, P, c
<1>16. \A y \in 1..Len(g.bins) : p < y => q[y] = <<>>
  <2>1. ~(Len(q[p]) >= CapacityOf(g, g.bins[p]))
    BY <1>2, <1>3, <1>7, <1>13, <1>15
  <2> QED BY <1>2, <1>7, <1>14, <2>1
<1>17. FlattenSeq(r) = Append(FlattenSeq(q), c)
  <2>1. Longer(q, r, p, c)
    BY <1>9, <1>11, <1>12, <1>16 DEF Longer
  <2> QED BY <1>3, <1>9, <2>1, FlattenAppend
<1>18. Append(SubSeq(cs, 1, i - 1), cs[i]) = SubSeq(cs, 1, i)
  <2> DEFINE s == Append(SubSeq(cs, 1, i - 1), cs[i])
             t == SubSeq(cs, 1, i)
  <2>1. \A x \in Seq(Cards) : x = [k \in 1..Len(x) |-> x[k]]
    OBVIOUS
  <2>2. s \in Seq(Cards) /\ t \in Seq(Cards) /\ Len(s) = i /\ Len(t) = i
    BY <1>3
  <2>3. \A k \in 1..i : s[k] = t[k]
    BY <1>3
  <2> HIDE DEF s, t
  <2>4. [k \in 1..Len(s) |-> s[k]] = [k \in 1..Len(t) |-> t[k]]
    BY <2>2, <2>3
  <2>5. s = t
    BY <2>1, <2>2, <2>4
  <2> QED BY <2>5 DEF s, t
<1>19. ASSUME NEW x \in 1..Len(g.bins), NEW y \in 1..Len(g.bins),
              x < y, g.bins[x] \in P, r[y] # <<>>
       PROVE  Len(r[x]) >= CapacityOf(g, g.bins[x])
  <2>1. y <= p
    <3>1. ASSUME p < y PROVE FALSE
      BY <1>12, <1>16, <1>19, <3>1
    <3> QED BY <3>1
  <2>2. x \in 1..(p - 1) /\ x # p
    BY <1>19, <2>1
  <2>3. r[x] = q[x] /\ q[x] = d[g.bins[x]] /\ Len(q[x]) \in Nat
    BY <1>12, <1>13, <1>19, <2>2
  <2>4. ~(CapacityOf(g, g.bins[x]) > Len(d[g.bins[x]]))
    BY <1>4, <1>7, <1>19, <2>2 DEF P
  <2> QED BY <1>3, <2>3, <2>4
<1> QED BY <1>14, <1>17, <1>18, <1>19 DEF q, r, P, c

(* What provision_bins makes of cards it accepts.                          *)
Provisioned(g, cs, d) ==
  \E w : /\ Holds(g, cs, d, Len(cs), w)
         /\ InOrder(g, cs, d, Len(cs))
         /\ RoomKept(g, cs, d, Len(cs), w)
         /\ Filling(g, cs, d, Len(cs))

LEMMA ProvisionHolds ==
  ASSUME NEW g, WellFormed(g), Infeasible \notin Contents(g),
         NEW cs, Listed(cs), CanProvision(g, cs)
  PROVE  Provisioned(g, cs, Provision(g, cs))
<1> DEFINE n == Len(cs)
           empty == [b \in Provisionable(g) |-> <<>>]
           Eq(f) == f = [i \in 0..n |-> IF i = 0 THEN empty
                                       ELSE Place(g, cs, f[i - 1], i)]
           F == CHOOSE f : Eq(f)
           S == Contents(g) \cup {Infeasible}
           G == [i \in 1..n |-> [x \in S |-> Place(g, cs, x, i)]]
           Good(i, d) == \E w : /\ Holds(g, cs, d, i, w)
                               /\ InOrder(g, cs, d, i)
                               /\ RoomKept(g, cs, d, i, w)
                               /\ Filling(g, cs, d, i)
<1>1. Provision(g, cs) = F[n]
  BY DEF Provision
<1>2. n \in Nat
  BY DEF Listed
<1>3. empty \in S
  BY DEF Contents
<1>4. Good(0, empty)
  <2> DEFINE w == [j \in 1..0 |-> None]
  <2>1. 1..0 = {}
    OBVIOUS
  <2>2. \A b \in Provisionable(g) : empty[b] = <<>> /\ Len(empty[b]) = 0 /\ 1..0 = {}
    OBVIOUS
  <2>3. empty \in [Provisionable(g) -> Seq(Cards)]
    OBVIOUS
  <2>4. w \in [1..0 -> Provisionable(g)]
    BY <2>1
  <2> HIDE DEF empty, w
  <2>5. Holds(g, cs, empty, 0, w)
    BY <2>1, <2>2, <2>3, <2>4 DEF Holds
  <2>6. InOrder(g, cs, empty, 0)
    BY <2>1 DEF InOrder
  <2>7. ASSUME NEW b \in Provisionable(g)
        PROVE  /\ Len(empty[b]) = Cardinality(At(w, 0, b))
               /\ Len(empty[b]) + PinnedAfter(g, cs, 0, b) <= CapacityOf(g, b)
    <3>1. At(w, 0, b) = {} /\ Cardinality({}) = 0
      BY <2>1, FS_EmptySet DEF At
    <3>2. PinnedAfter(g, cs, 0, b) <= CapacityOf(g, b) /\ PinnedAfter(g, cs, 0, b) \in Nat
      BY PinnedStep DEF CanProvision
    <3>3. Len(empty[b]) = 0
      BY <2>2
    <3> QED BY <3>1, <3>2, <3>3
  <2>8. RoomKept(g, cs, empty, 0, w)
    BY <2>7 DEF RoomKept
  <2>9. Filling(g, cs, empty, 0)
    BY <2>3, NothingFilled DEF empty, Contents
  <2> QED BY <2>5, <2>6, <2>8, <2>9
<1> HIDE DEF n, empty, S
<1>5. G \in [1..n -> [S -> S]]
  <2>1. \A i \in 1..n, x \in S : Place(g, cs, x, i) \in S
    BY PlaceType DEF S, n
  <2> QED BY <2>1
<1>6. PICK f \in [0..n -> S] : f[0] = empty /\ \A i \in 1..n : f[i] = G[i][f[i - 1]]
  <2> HIDE DEF G
  <2>1. Recursive(n, S, empty, G)
    BY <1>2, <1>3, <1>5, Recursion
  <2> QED BY <2>1, Zenon DEF Recursive
<1>7. \A i \in 1..n : f[i] = Place(g, cs, f[i - 1], i)
  <2>1. \A i \in 1..n, x \in S : G[i][x] = Place(g, cs, x, i)
    OBVIOUS
  <2>2. \A i \in 1..n : f[i - 1] \in S
    BY <1>2
  <2> HIDE DEF G
  <2> QED BY <1>6, <2>1, <2>2
<1>8. Eq(f)
  BY <1>2, <1>6, <1>7
<1>9. Eq(F)
  <2> HIDE DEF Eq
  <2> QED BY <1>8
<1> HIDE DEF F
<1>10. F[0] = empty /\ \A i \in 1..n : F[i] = Place(g, cs, F[i - 1], i)
  BY <1>2, <1>9
<1> DEFINE T == {i \in Nat : i <= n => Good(i, F[i])}
<1>11. 0 \in T
  BY <1>4, <1>10
<1>12. ASSUME NEW i \in T PROVE i + 1 \in T
  <2>1. SUFFICES ASSUME i + 1 <= n PROVE Good(i + 1, F[i + 1])
    <3>1. i + 1 \in Nat
      BY <1>12
    <3> HIDE DEF Good
    <3> QED BY <3>1
  <2>2. i \in Nat /\ i + 1 \in 1..n /\ (i + 1) - 1 = i /\ i <= n
    BY <1>2, <1>12, <2>1
  <2>3. Good(i, F[i])
    <3> HIDE DEF Good
    <3> QED BY <1>12, <2>2
  <2>4. F[i + 1] = Place(g, cs, F[i], i + 1)
    BY <1>10, <2>2
  <2>5. PICK w : /\ Holds(g, cs, F[i], i, w)
                 /\ InOrder(g, cs, F[i], i)
                 /\ RoomKept(g, cs, F[i], i, w)
                 /\ Filling(g, cs, F[i], i)
    BY <2>3
  <2> DEFINE k == i + 1
             d == F[i]
  <2>6. k \in 1..Len(cs) /\ k - 1 = i
    BY <2>2 DEF n
  <2> HIDE DEF k, d
  <2>7. /\ Holds(g, cs, d, k - 1, w)
        /\ InOrder(g, cs, d, k - 1)
        /\ RoomKept(g, cs, d, k - 1, w)
        /\ Filling(g, cs, d, k - 1)
    BY <2>5, <2>6 DEF d
  <2>8. Good(k, Place(g, cs, d, k))
    <3>1. Filling(g, cs, Place(g, cs, d, k), k)
      BY <2>6, <2>7, PlaceFills
    <3>2. \E v : /\ Holds(g, cs, Place(g, cs, d, k), k, v)
                 /\ InOrder(g, cs, Place(g, cs, d, k), k)
                 /\ RoomKept(g, cs, Place(g, cs, d, k), k, v)
      BY <2>6, <2>7, PlaceKeeps DEF Contents
    <3> QED BY <3>1, <3>2
  <2> QED BY <2>4, <2>8 DEF k, d
<1>13. T = Nat
  <2>1. T \in SUBSET Nat
    OBVIOUS
  <2> HIDE DEF T
  <2> QED BY <1>11, <1>12, <2>1, NatInduct
<1>14. Good(n, F[n])
  BY <1>2, <1>13
<1> QED BY <1>1, <1>14 DEF Provisioned, n

-----------------------------------------------------------------------------
(* Sorting.                                                                *)

StrictOrder(S, R) ==
  /\ \A x \in S : <<x, x>> \notin R
  /\ \A x, y, z \in S : <<x, y>> \in R /\ <<y, z>> \in R => <<x, z>> \in R
  /\ \A x, y \in S : x = y \/ <<x, y>> \in R \/ <<y, x>> \in R

SortedBy(S, R, s) ==
  /\ s \in [1..Cardinality(S) -> S]
  /\ IsInjective(s)
  /\ \A i, j \in DOMAIN s : i < j => <<s[i], s[j]>> \in R

(* Counting its predecessors gives every element its place.                *)
LEMMA SortedIs ==
  ASSUME NEW S, IsFiniteSet(S), NEW R, StrictOrder(S, R)
  PROVE  /\ Cardinality(S) \in Nat
         /\ SortedBy(S, R, Sorted(S, R))
         /\ \A x \in S : \E i \in 1..Cardinality(S) : Sorted(S, R)[i] = x
<1> DEFINE n == Cardinality(S)
           Below(x) == {y \in S : <<y, x>> \in R}
           rank == [x \in S |-> Cardinality(Below(x)) + 1]
<1>1. n \in Nat
  BY FS_CardinalityType
<1>2. ASSUME NEW x \in S
      PROVE  /\ IsFiniteSet(Below(x)) /\ Cardinality(Below(x)) \in Nat
             /\ Cardinality(Below(x)) <= n - 1
  <2>1. Below(x) \in SUBSET (S \ {x})
    BY DEF StrictOrder
  <2>2. IsFiniteSet(S \ {x}) /\ Cardinality(S \ {x}) = n - 1
    BY FS_RemoveElement
  <2> HIDE DEF Below, n
  <2> QED BY <2>1, <2>2, FS_Subset, FS_CardinalityType
<1>3. ASSUME NEW x \in S, NEW y \in S, <<x, y>> \in R
      PROVE  rank[x] < rank[y]
  <2>1. Below(x) \cup {x} \in SUBSET Below(y) /\ x \notin Below(x)
    BY <1>3 DEF StrictOrder
  <2> HIDE DEF Below
  <2>2. Cardinality(Below(x) \cup {x}) = Cardinality(Below(x)) + 1
    BY <1>2, <2>1, FS_AddElement
  <2>3. Cardinality(Below(x) \cup {x}) <= Cardinality(Below(y))
    BY <1>2, <2>1, FS_Subset
  <2> QED BY <1>2, <2>2, <2>3
<1>4. rank \in [S -> 1..n]
  <2> HIDE DEF Below, n
  <2> QED BY <1>1, <1>2
<1> HIDE DEF rank
<1>5. \A x \in S : rank[x] \in Nat
  BY <1>1, <1>4
<1>6. \A x, y \in S : rank[x] = rank[y] => x = y
  <2>1. SUFFICES ASSUME NEW x \in S, NEW y \in S, rank[x] = rank[y], x # y
                 PROVE  FALSE
    OBVIOUS
  <2>2. <<x, y>> \in R \/ <<y, x>> \in R
    BY <2>1 DEF StrictOrder
  <2>3. rank[x] < rank[y] \/ rank[y] < rank[x]
    BY <1>3, <2>2
  <2> QED BY <1>5, <2>1, <2>3
<1>7. \A k \in 1..n : \E x \in S : rank[x] = k
  <2>1. rank \in Injection(S, 1..n)
    BY <1>4, <1>6 DEF Injection, IsInjective
  <2>2. IsFiniteSet(1..n) /\ Cardinality(1..n) = n
    BY <1>1, FS_Interval
  <2>3. rank \in Surjection(S, 1..n)
    <3>1. n = Cardinality(1..n)
      BY <2>2
    <3> QED BY <2>1, <2>2, <3>1, FS_Injection
  <2> QED BY <2>3 DEF Surjection
<1> DEFINE t == [k \in 1..n |-> CHOOSE x \in S : rank[x] = k]
<1>8. \A k \in 1..n : t[k] \in S /\ rank[t[k]] = k
  BY <1>7
<1>9. SortedBy(S, R, t)
  <2>1. t \in [1..n -> S]
    BY <1>8
  <2> HIDE DEF t
  <2>2. IsInjective(t)
    BY <1>8, <2>1 DEF IsInjective
  <2>3. ASSUME NEW i \in 1..n, NEW j \in 1..n, i < j PROVE <<t[i], t[j]>> \in R
    <3>1. t[i] \in S /\ t[j] \in S /\ rank[t[i]] = i /\ rank[t[j]] = j
      BY <1>8
    <3>2. t[i] # t[j]
      BY <2>3, <3>1
    <3>3. <<t[j], t[i]>> \notin R
      <4>1. <<t[j], t[i]>> \in R => rank[t[j]] < rank[t[i]]
        BY <1>3, <3>1
      <4> QED BY <1>1, <2>3, <3>1, <4>1
    <3> QED BY <3>1, <3>2, <3>3 DEF StrictOrder
  <2> QED BY <2>1, <2>2, <2>3 DEF SortedBy
<1> DEFINE s == Sorted(S, R)
<1>10. s = CHOOSE r : r \in [1..n -> S] /\ SortedBy(S, R, r)
  BY DEF Sorted, SortedBy
<1>11. SortedBy(S, R, s)
  <2> HIDE DEF t, s
  <2> QED BY <1>9, <1>10 DEF SortedBy
<1>12. ASSUME NEW x \in S PROVE \E i \in 1..n : s[i] = x
  <2> HIDE DEF s
  <2>1. s \in Injection(1..n, S)
    BY <1>11 DEF SortedBy, Injection
  <2>2. IsFiniteSet(1..n) /\ Cardinality(1..n) = Cardinality(S)
    BY <1>1, FS_Interval
  <2>3. s \in Surjection(1..n, S)
    BY <2>1, <2>2, FS_Injection
  <2> QED BY <2>3 DEF Surjection
<1> QED BY <1>1, <1>11, <1>12

-----------------------------------------------------------------------------
(* Composite keys of cards can be compared, whatever the specification.    *)

FirstTold(n, k, l) ==
  \E i \in 1..n : k[i] # l[i] /\ \A j \in 1..(i - 1) : k[j] = l[j]

LEMMA FirstDifference ==
  ASSUME NEW n \in Nat, NEW X, NEW k \in [1..n -> X], NEW l \in [1..n -> X], k # l
  PROVE  FirstTold(n, k, l)
<1> DEFINE T == {i \in 1..n : k[i] # l[i]}
<1>1. PICK i \in T : \A m \in T : i <= m
  <2>1. T \in SUBSET Nat /\ T # {}
    OBVIOUS
  <2> HIDE DEF T
  <2> QED BY <2>1, NatLeast
<1>2. \A j \in 1..(i - 1) : j \in 1..n /\ ~(i <= j)
  BY <1>1
<1> QED BY <1>1, <1>2 DEF FirstTold

LEMMA LessOrder ==
  ASSUME NEW n \in Nat, NEW k \in [1..n -> Int], NEW l \in [1..n -> Int],
         NEW m \in [1..n -> Int]
  PROVE  /\ ~Less(k, k)
         /\ Less(k, l) /\ Less(l, m) => Less(k, m)
         /\ k = l \/ Less(k, l) \/ Less(l, k)
<1>1. ~Less(k, k)
  BY DEF Less
<1>2. ASSUME Less(k, l), Less(l, m) PROVE Less(k, m)
  <2>1. PICK i \in 1..n : (\A j \in 1..(i - 1) : k[j] = l[j]) /\ k[i] < l[i]
    BY <1>2 DEF Less
  <2>2. PICK h \in 1..n : (\A j \in 1..(h - 1) : l[j] = m[j]) /\ l[h] < m[h]
    BY <1>2 DEF Less
  <2>3. CASE i < h
    <3>1. i \in 1..(h - 1) /\ \A j \in 1..(i - 1) : j \in 1..(h - 1)
      BY <2>3
    <3>2. k[i] < m[i] /\ \A j \in 1..(i - 1) : k[j] = m[j]
      BY <2>1, <2>2, <3>1
    <3> QED BY <3>2 DEF Less
  <2>4. CASE h < i
    <3>1. h \in 1..(i - 1) /\ \A j \in 1..(h - 1) : j \in 1..(i - 1)
      BY <2>4
    <3>2. k[h] < m[h] /\ \A j \in 1..(h - 1) : k[j] = m[j]
      BY <2>1, <2>2, <3>1
    <3> QED BY <3>2 DEF Less
  <2>5. CASE i = h
    <3>1. k[i] < m[i] /\ \A j \in 1..(i - 1) : k[j] = m[j]
      BY <2>1, <2>2, <2>5
    <3> QED BY <3>1 DEF Less
  <2> QED BY <2>3, <2>4, <2>5
<1>3. ASSUME k # l PROVE Less(k, l) \/ Less(l, k)
  <2>1. FirstTold(n, k, l)
    BY <1>3, FirstDifference
  <2>2. PICK i \in 1..n : k[i] # l[i] /\ \A j \in 1..(i - 1) : k[j] = l[j]
    BY <2>1, Zenon DEF FirstTold
  <2>3. k[i] < l[i] \/ l[i] < k[i]
    BY <2>2
  <2> QED BY <2>2, <2>3 DEF Less
<1> QED BY <1>1, <1>2, <1>3

(* Keys of one shape: the lengths of their parts agree.                    *)
Comparable(k, l) ==
  /\ k \in Seq(Seq(Int)) /\ l \in Seq(Seq(Int))
  /\ Len(k) = Len(l)
  /\ \A i \in 1..Len(k) : Len(k[i]) = Len(l[i])

LEMMA PartsOrder ==
  ASSUME NEW k \in Seq(Int), NEW l \in Seq(Int), NEW m \in Seq(Int),
         Len(k) = Len(l), Len(l) = Len(m)
  PROVE  /\ ~Less(k, k)
         /\ Less(k, l) /\ Less(l, m) => Less(k, m)
         /\ k = l \/ Less(k, l) \/ Less(l, k)
<1>1. /\ Len(k) \in Nat /\ k \in [1..Len(k) -> Int]
      /\ l \in [1..Len(k) -> Int] /\ m \in [1..Len(k) -> Int]
  OBVIOUS
<1> QED BY <1>1, LessOrder

LEMMA KeyLessOrder ==
  ASSUME NEW k, NEW l, NEW m, Comparable(k, l), Comparable(l, m)
  PROVE  /\ ~KeyLess(k, k)
         /\ KeyLess(k, l) /\ KeyLess(l, m) => KeyLess(k, m)
         /\ k = l \/ KeyLess(k, l) \/ KeyLess(l, k)
<1> DEFINE n == Len(k)
<1>1. /\ n \in Nat /\ DOMAIN k = 1..n /\ DOMAIN l = 1..n
      /\ \A i \in 1..n : /\ k[i] \in Seq(Int) /\ l[i] \in Seq(Int) /\ m[i] \in Seq(Int)
                         /\ Len(k[i]) = Len(l[i]) /\ Len(l[i]) = Len(m[i])
  BY DEF Comparable
<1>2. \A i \in 1..n : /\ ~Less(k[i], k[i])
                      /\ Less(k[i], l[i]) /\ Less(l[i], m[i]) => Less(k[i], m[i])
                      /\ k[i] = l[i] \/ Less(k[i], l[i]) \/ Less(l[i], k[i])
  BY <1>1, PartsOrder
<1>3. ~KeyLess(k, k)
  BY <1>1, <1>2 DEF KeyLess
<1>4. ASSUME KeyLess(k, l), KeyLess(l, m) PROVE KeyLess(k, m)
  <2>1. PICK i \in 1..n : (\A j \in 1..(i - 1) : k[j] = l[j]) /\ Less(k[i], l[i])
    BY <1>1, <1>4 DEF KeyLess
  <2>2. PICK h \in 1..n : (\A j \in 1..(h - 1) : l[j] = m[j]) /\ Less(l[h], m[h])
    BY <1>1, <1>4 DEF KeyLess
  <2> HIDE DEF n
  <2>3. CASE i < h
    <3>1. i \in 1..(h - 1) /\ \A j \in 1..(i - 1) : j \in 1..(h - 1)
      BY <1>1, <2>3
    <3>2. Less(k[i], m[i]) /\ \A j \in 1..(i - 1) : k[j] = m[j]
      BY <2>1, <2>2, <3>1
    <3> QED BY <1>1, <3>2 DEF KeyLess
  <2>4. CASE h < i
    <3>1. h \in 1..(i - 1) /\ \A j \in 1..(h - 1) : j \in 1..(i - 1)
      BY <1>1, <2>4
    <3>2. Less(k[h], m[h]) /\ \A j \in 1..(h - 1) : k[j] = m[j]
      BY <2>1, <2>2, <3>1
    <3> QED BY <1>1, <3>2 DEF KeyLess
  <2>5. CASE i = h
    <3>1. Less(k[i], m[i]) /\ \A j \in 1..(i - 1) : k[j] = m[j]
      BY <1>2, <2>1, <2>2, <2>5
    <3> QED BY <1>1, <3>1 DEF KeyLess
  <2> QED BY <1>1, <2>3, <2>4, <2>5
<1>5. ASSUME k # l PROVE KeyLess(k, l) \/ KeyLess(l, k)
  <2>1. FirstTold(n, k, l)
    <3>1. k \in Seq(Seq(Int)) /\ l \in Seq(Seq(Int)) /\ Len(l) = n
      BY DEF Comparable
    <3>2. k \in [1..n -> Seq(Int)] /\ l \in [1..n -> Seq(Int)]
      BY <3>1
    <3> HIDE DEF n
    <3> QED BY <1>1, <1>5, <3>2, FirstDifference
  <2>2. PICK i \in 1..n : k[i] # l[i] /\ \A j \in 1..(i - 1) : k[j] = l[j]
    BY <2>1, Zenon DEF FirstTold
  <2>3. Less(k[i], l[i]) \/ Less(l[i], k[i])
    BY <1>2, <2>2
  <2> QED BY <1>1, <2>2, <2>3 DEF KeyLess
<1> QED BY <1>3, <1>4, <1>5

LEMMA ColorKeyType ==
  ASSUME NEW colors, NEW deep
  PROVE  ColorKey(colors, deep) \in Seq(Int) /\ Len(ColorKey(colors, deep)) = 2
<1>1. Bits(colors) \in Int
  <2>1. /\ ColorBits["W"] = 1 /\ ColorBits["U"] = 2 /\ ColorBits["B"] = 4
        /\ ColorBits["R"] = 8 /\ ColorBits["G"] = 16
    BY DEF ColorBits
  <2> QED BY <2>1 DEF Bits
<1>2. \E x, y \in Int : ColorKey(colors, deep) = <<x, y>>
  <2>1. CASE colors = {}
    <3>1. ColorKey(colors, deep) = <<1, 0>>
      BY <2>1, FS_EmptySet DEF ColorKey
    <3> QED BY <3>1
  <2>2. CASE colors # {} /\ Cardinality(colors) = 1
    BY <1>1, <2>2 DEF ColorKey
  <2>3. CASE colors # {} /\ Cardinality(colors) # 1
    <3>1. (IF deep THEN Bits(colors) ELSE 0) \in Int
      BY <1>1
    <3>2. ColorKey(colors, deep) = <<3, IF deep THEN Bits(colors) ELSE 0>>
      BY <2>3 DEF ColorKey
    <3> QED BY <3>1, <3>2
  <2> QED BY <2>1, <2>2, <2>3
<1> QED BY <1>2

LEMMA RarityRankType ==
  ASSUME NEW rarity
  PROVE  RarityRank(rarity) \in Int
<1>1. CASE rarity \in Range(Rarities)
  <2>1. \E n \in 0..3 : Rarities[n + 1] = rarity
    <3>1. PICK i \in DOMAIN Rarities : Rarities[i] = rarity
      BY <1>1 DEF Range
    <3>2. i \in 1..4
      BY <3>1 DEF Rarities
    <3>3. i - 1 \in 0..3 /\ (i - 1) + 1 = i
      BY <3>2
    <3> QED BY <3>1, <3>3
  <2>2. RarityRank(rarity) = CHOOSE n \in 0..3 : Rarities[n + 1] = rarity
    BY <1>1 DEF RarityRank
  <2> DEFINE r == CHOOSE n \in 0..3 : Rarities[n + 1] = rarity
  <2>3. r \in 0..3
    BY <2>1
  <2> HIDE DEF r
  <2>4. r \in Int
    BY <2>3
  <2> QED BY <2>2, <2>4 DEF r
<1>2. CASE rarity \notin Range(Rarities)
  BY <1>2 DEF RarityRank
<1> QED BY <1>1, <1>2

(* Two keys of one part each, and of two.                                  *)
LEMMA OnePart ==
  ASSUME NEW x \in Seq(Int), NEW y \in Seq(Int), Len(x) = Len(y)
  PROVE  Comparable(<<x>>, <<y>>)
BY DEF Comparable

LEMMA TwoParts ==
  ASSUME NEW x \in Seq(Int), NEW y \in Seq(Int), Len(x) = Len(y),
         NEW z \in Seq(Int), NEW u \in Seq(Int), Len(z) = Len(u)
  PROVE  Comparable(<<x, z>>, <<y, u>>)
<1> DEFINE k == <<x, z>>
           l == <<y, u>>
<1>1. k \in Seq(Seq(Int)) /\ l \in Seq(Seq(Int)) /\ Len(k) = 2 /\ Len(l) = 2
  OBVIOUS
<1>2. k[1] = x /\ k[2] = z /\ l[1] = y /\ l[2] = u
  OBVIOUS
<1> HIDE DEF k, l
<1>3. \A i \in 1..2 : i = 1 \/ i = 2
  OBVIOUS
<1>4. Comparable(k, l)
  BY <1>1, <1>2, <1>3 DEF Comparable
<1> QED BY <1>4 DEF k, l

LEMMA PartsComparable ==
  ASSUME NEW o \in OperatorConfigs, NEW a \in Attributes, NEW b \in Attributes
  PROVE  Comparable(Parts(o, a), Parts(o, b))
<1>1. o.op \in Operators /\ o.deep \in BOOLEAN
  BY DEF OperatorConfigs
<1>2. \A x \in {a, b} :
        /\ x.name \in Int /\ x.letter \in Int /\ x.set \in Int /\ x.mana \in Int
        /\ x.tier \in Int /\ x.land \in BOOLEAN
  BY DEF Attributes
<1>3. \A x \in Int : <<x>> \in Seq(Int) /\ Len(<<x>>) = 1
  OBVIOUS
<1>4. CASE o.op = "alphabetical" /\ o.deep
  <2>1. Parts(o, a) = <<<<a.name>>>> /\ Parts(o, b) = <<<<b.name>>>>
    BY <1>4 DEF Parts
  <2> QED BY <1>2, <1>3, <2>1, OnePart
<1>5. CASE o.op = "alphabetical" /\ ~o.deep
  <2>1. /\ Parts(o, a) = <<<<a.letter>>, <<a.name>>>>
        /\ Parts(o, b) = <<<<b.letter>>, <<b.name>>>>
    BY <1>5 DEF Parts
  <2> QED BY <1>2, <1>3, <2>1, TwoParts
<1>6. CASE o.op \in {"color", "color_identity"}
  <2>1. <<0, 0>> \in Seq(Int) /\ Len(<<0, 0>>) = 2
    OBVIOUS
  <2>2. \A x \in {a, b} : \E y \in Seq(Int) : Len(y) = 2 /\ Parts(o, x) = <<y>>
    <3>1. SUFFICES ASSUME NEW x \in {a, b}
                   PROVE  \E y \in Seq(Int) : Len(y) = 2 /\ Parts(o, x) = <<y>>
      OBVIOUS
    <3>2. CASE x.land
      <4>1. Parts(o, x) = <<<<0, 0>>>>
        BY <1>6, <3>2 DEF Parts
      <4> QED BY <2>1, <4>1
    <3>3. CASE ~x.land /\ o.op = "color"
      <4>1. Parts(o, x) = <<ColorKey(x.colors, o.deep)>>
        BY <3>3 DEF Parts
      <4> QED BY <4>1, ColorKeyType
    <3>4. CASE ~x.land /\ o.op = "color_identity"
      <4>1. Parts(o, x) = <<ColorKey(x.identity, o.deep)>>
        BY <3>4 DEF Parts
      <4> QED BY <4>1, ColorKeyType
    <3> QED BY <1>6, <3>2, <3>3, <3>4
  <2>3. PICK y \in Seq(Int) : Len(y) = 2 /\ Parts(o, a) = <<y>>
    BY <2>2
  <2>4. PICK z \in Seq(Int) : Len(z) = 2 /\ Parts(o, b) = <<z>>
    BY <2>2
  <2> QED BY <2>3, <2>4, OnePart
<1>7. CASE o.op = "rarity"
  <2>1. /\ Parts(o, a) = <<<<RarityRank(a.rarity)>>>>
        /\ Parts(o, b) = <<<<RarityRank(b.rarity)>>>>
    BY <1>7 DEF Parts
  <2> QED BY <1>3, <2>1, RarityRankType, OnePart
<1>8. CASE o.op = "set"
  <2>1. Parts(o, a) = <<<<a.set>>>> /\ Parts(o, b) = <<<<b.set>>>>
    BY <1>8 DEF Parts
  <2> QED BY <1>2, <1>3, <2>1, OnePart
<1>9. CASE o.op = "mana_value"
  <2>1. Parts(o, a) = <<<<a.mana>>>> /\ Parts(o, b) = <<<<b.mana>>>>
    BY <1>9 DEF Parts
  <2> QED BY <1>2, <1>3, <2>1, OnePart
<1>10. CASE o.op = "user_value_tier"
  <2>1. Parts(o, a) = <<<<a.tier>>>> /\ Parts(o, b) = <<<<b.tier>>>>
    BY <1>10 DEF Parts
  <2> QED BY <1>2, <1>3, <2>1, OnePart
<1> QED BY <1>1, <1>4, <1>5, <1>6, <1>7, <1>8, <1>9, <1>10 DEF Operators

(* Concatenation, of any sequences and of keys.                            *)
Concat(X, s, t) ==
  /\ s \o t \in Seq(X) /\ Len(s \o t) = Len(s) + Len(t)
  /\ \A i \in 1..Len(s) : (s \o t)[i] = s[i]
  /\ \A i \in 1..Len(t) : (s \o t)[Len(s) + i] = t[i]

LEMMA ConcatIs ==
  ASSUME NEW X, NEW s \in Seq(X), NEW t \in Seq(X)
  PROVE  Concat(X, s, t)
BY DEF Concat

LEMMA KeyConcat ==
  ASSUME NEW k \in Seq(Seq(Int)), NEW m \in Seq(Seq(Int))
  PROVE  /\ k \o m \in Seq(Seq(Int)) /\ Len(k \o m) = Len(k) + Len(m)
         /\ \A i \in 1..Len(k) : (k \o m)[i] = k[i]
         /\ \A i \in 1..Len(m) : (k \o m)[Len(k) + i] = m[i]
<1> DEFINE X == Seq(Int)
<1>1. k \in Seq(X) /\ m \in Seq(X)
  OBVIOUS
<1> HIDE DEF X
<1>2. /\ k \o m \in Seq(X) /\ Len(k \o m) = Len(k) + Len(m)
      /\ \A i \in 1..Len(k) : (k \o m)[i] = k[i]
      /\ \A i \in 1..Len(m) : (k \o m)[Len(k) + i] = m[i]
  BY <1>1
<1> QED BY <1>2 DEF X

LEMMA ConcatComparable ==
  ASSUME NEW k, NEW l, Comparable(k, l), NEW m, NEW o, Comparable(m, o)
  PROVE  Comparable(k \o m, l \o o)
<1>1. /\ k \in Seq(Seq(Int)) /\ l \in Seq(Seq(Int)) /\ Len(k) = Len(l)
      /\ m \in Seq(Seq(Int)) /\ o \in Seq(Seq(Int)) /\ Len(m) = Len(o)
      /\ \A i \in 1..Len(k) : Len(k[i]) = Len(l[i])
      /\ \A i \in 1..Len(m) : Len(m[i]) = Len(o[i])
  BY DEF Comparable
<1>2. /\ k \o m \in Seq(Seq(Int)) /\ l \o o \in Seq(Seq(Int))
      /\ Len(k \o m) = Len(k) + Len(m) /\ Len(l \o o) = Len(k) + Len(m)
  <2>1. k \o m \in Seq(Seq(Int)) /\ Len(k \o m) = Len(k) + Len(m)
    BY <1>1, KeyConcat, Zenon
  <2>2. l \o o \in Seq(Seq(Int)) /\ Len(l \o o) = Len(l) + Len(o)
    BY <1>1, KeyConcat, Zenon
  <2> QED BY <1>1, <2>1, <2>2, Zenon
<1>3. ASSUME NEW i \in 1..(Len(k) + Len(m))
      PROVE  Len((k \o m)[i]) = Len((l \o o)[i])
  <2>1. CASE i <= Len(k)
    <3>1. (k \o m)[i] = k[i] /\ (l \o o)[i] = l[i] /\ i \in 1..Len(k)
      BY <1>1, <2>1
    <3> QED BY <1>1, <3>1
  <2>2. CASE ~(i <= Len(k))
    <3>1. /\ (k \o m)[i] = m[i - Len(k)] /\ (l \o o)[i] = o[i - Len(k)]
          /\ i - Len(k) \in 1..Len(m)
      BY <1>1, <2>2
    <3> QED BY <1>1, <3>1
  <2> QED BY <2>1, <2>2
<1> QED BY <1>2, <1>3 DEF Comparable

LEMMA FlattenComparable ==
  ASSUME NEW p \in Seq(Seq(Seq(Int))), NEW q \in Seq(Seq(Seq(Int))),
         Len(p) = Len(q), \A i \in 1..Len(p) : Comparable(p[i], q[i])
  PROVE  Comparable(FlattenSeq(p), FlattenSeq(q))
<1> DEFINE n == Len(p)
<1>1. n \in Nat
  OBVIOUS
<1>2. PICK f \in [0..n -> Seq(Seq(Int))] :
        /\ f[0] = <<>>
        /\ \A i \in 1..n : f[i] = f[i - 1] \o p[i]
        /\ FlattenSeq(p) = f[n]
  BY FlattenDef
<1>3. PICK h \in [0..Len(q) -> Seq(Seq(Int))] :
        /\ h[0] = <<>>
        /\ \A i \in 1..Len(q) : h[i] = h[i - 1] \o q[i]
        /\ FlattenSeq(q) = h[Len(q)]
  BY FlattenDef
<1> HIDE DEF n
<1>8. Len(q) = n
  BY DEF n
<1> HIDE DEF n
<1> DEFINE T == {i \in Nat : i <= n => Comparable(f[i], h[i])}
<1>4. 0 \in T
  <2>1. Comparable(<<>>, <<>>)
    BY DEF Comparable
  <2> QED BY <1>2, <1>3, <2>1
<1>5. ASSUME NEW i \in T PROVE i + 1 \in T
  <2>1. SUFFICES ASSUME i + 1 <= n PROVE Comparable(f[i + 1], h[i + 1])
    <3>1. i + 1 \in Nat
      BY <1>5
    <3> QED BY <3>1
  <2>2. i \in Nat /\ i <= n /\ i + 1 \in 1..n /\ (i + 1) - 1 = i
    BY <1>1, <1>5, <2>1
  <2>3. Comparable(f[i], h[i]) /\ Comparable(p[i + 1], q[i + 1])
    BY <1>5, <2>2 DEF n
  <2>4. f[i + 1] = f[i] \o p[i + 1] /\ h[i + 1] = h[i] \o q[i + 1]
    BY <1>2, <1>3, <1>8, <2>2
  <2> QED BY <2>3, <2>4, ConcatComparable
<1>6. T = Nat
  <2>1. T \in SUBSET Nat
    OBVIOUS
  <2> HIDE DEF T
  <2> QED BY <1>4, <1>5, <2>1, NatInduct
<1>7. Comparable(f[n], h[n])
  <2>1. n \in T
    BY <1>1, <1>6
  <2> QED BY <1>1, <2>1
<1> QED BY <1>2, <1>3, <1>7, <1>8

(* The enabled operators, and the order of their positions.                *)
Enabled(spec) == {i \in DOMAIN spec : spec[i].enabled}

Before(spec) ==
  {p \in Enabled(spec) \X Enabled(spec) :
     \/ spec[p[1]].order < spec[p[2]].order
     \/ /\ spec[p[1]].order = spec[p[2]].order
        /\ p[1] < p[2]}

LEMMA EnabledIs ==
  ASSUME NEW spec \in Seq(OperatorConfigs)
  PROVE  LET n == Cardinality(Enabled(spec))
             s == Sorted(Enabled(spec), Before(spec))
         IN  /\ n \in Nat
             /\ SortedBy(Enabled(spec), Before(spec), s)
             /\ \A i \in Enabled(spec) : \E k \in 1..n : s[k] = i
             /\ EnabledInOrder(spec) = [k \in 1..n |-> spec[s[k]]]
             /\ EnabledInOrder(spec) \in Seq(OperatorConfigs)
             /\ Len(EnabledInOrder(spec)) = n
<1> DEFINE S == Enabled(spec)
           R == Before(spec)
           n == Cardinality(S)
           s == Sorted(S, R)
<1>1. IsFiniteSet(S) /\ S \subseteq Nat
  <2>1. S \in SUBSET (1..Len(spec)) /\ Len(spec) \in Nat
    BY DEF Enabled
  <2>2. IsFiniteSet(1..Len(spec))
    BY <2>1, FS_Interval
  <2> HIDE DEF S
  <2>3. IsFiniteSet(S)
    BY <2>1, <2>2, FS_Subset
  <2>4. S \subseteq Nat
    BY <2>1
  <2> QED BY <2>3, <2>4
<1>2. StrictOrder(S, R)
  <2>1. \A i \in S : spec[i].order \in Int
    <3>1. \A i \in DOMAIN spec : spec[i] \in OperatorConfigs
      OBVIOUS
    <3>2. \A o \in OperatorConfigs : o.order \in Int
      BY DEF OperatorConfigs
    <3> QED BY <3>1, <3>2 DEF Enabled
  <2>2. \A x, y \in S : <<x, y>> \in R <=> \/ spec[x].order < spec[y].order
                                          \/ /\ spec[x].order = spec[y].order
                                             /\ x < y
    BY DEF Before
  <2> HIDE DEF S, R
  <2>3. \A x \in S : x \in Nat
    BY <1>1
  <2>4. \A x \in S : <<x, x>> \notin R
    BY <2>1, <2>2, <2>3
  <2>5. ASSUME NEW x \in S, NEW y \in S
        PROVE  x = y \/ <<x, y>> \in R \/ <<y, x>> \in R
    <3>1. /\ x \in Nat /\ y \in Nat
          /\ spec[x].order \in Int /\ spec[y].order \in Int
      BY <2>1, <2>3
    <3>2. \/ x = y
          \/ spec[x].order < spec[y].order \/ spec[y].order < spec[x].order
          \/ spec[x].order = spec[y].order /\ (x < y \/ y < x)
      BY <3>1
    <3> QED BY <2>2, <3>2
  <2>6. \A x, y, z \in S : <<x, y>> \in R /\ <<y, z>> \in R => <<x, z>> \in R
    BY <2>1, <2>2, <2>3
  <2> QED BY <2>4, <2>5, <2>6 DEF StrictOrder
<1>3. EnabledInOrder(spec) = [k \in 1..n |-> spec[s[k]]]
  BY DEF EnabledInOrder, Enabled, Before
<1>4. \A i \in S : spec[i] \in OperatorConfigs
  BY DEF Enabled
<1> HIDE DEF S, R
<1>5. /\ n \in Nat
      /\ SortedBy(S, R, s)
      /\ \A i \in S : \E k \in 1..n : s[k] = i
  BY <1>1, <1>2, SortedIs
<1>6. [k \in 1..n |-> spec[s[k]]] \in [1..n -> OperatorConfigs]
  BY <1>4, <1>5 DEF SortedBy
<1>7. /\ [k \in 1..n |-> spec[s[k]]] \in Seq(OperatorConfigs)
      /\ Len([k \in 1..n |-> spec[s[k]]]) = n
  <2> HIDE DEF n, s
  <2> QED BY <1>5, <1>6
<1> QED BY <1>3, <1>5, <1>7 DEF S, R

(* What the enabled operators say of a card, one after the other, and the  *)
(* ids that end its key.                                                   *)
Said(spec, a) ==
  LET ops == EnabledInOrder(spec) IN [k \in 1..Len(ops) |-> Parts(ops[k], a)]

Ids(a, id) == <<<<a.oracle>>, <<a.print>>, <<id>>>>

LEMMA SaidComparable ==
  ASSUME NEW spec \in Seq(OperatorConfigs), NEW a \in Attributes, NEW b \in Attributes
  PROVE  /\ Said(spec, a) \in Seq(Seq(Seq(Int)))
         /\ Len(Said(spec, a)) = Len(EnabledInOrder(spec))
         /\ Len(Said(spec, b)) = Len(EnabledInOrder(spec))
         /\ \A k \in 1..Len(EnabledInOrder(spec)) :
              Comparable(Said(spec, a)[k], Said(spec, b)[k])
<1> DEFINE ops == EnabledInOrder(spec)
           n == Len(ops)
<1>1. n \in Nat /\ \A k \in 1..n : ops[k] \in OperatorConfigs
  <2>1. ops \in Seq(OperatorConfigs)
    BY EnabledIs
  <2> HIDE DEF ops
  <2> QED BY <2>1
<1>2. /\ Said(spec, a) = [k \in 1..n |-> Parts(ops[k], a)]
      /\ Said(spec, b) = [k \in 1..n |-> Parts(ops[k], b)]
  BY DEF Said
<1> HIDE DEF ops, n
<1>3. \A k \in 1..n : Comparable(Parts(ops[k], a), Parts(ops[k], b))
  BY <1>1, PartsComparable
<1>4. \A k \in 1..n : Parts(ops[k], a) \in Seq(Seq(Int))
  BY <1>3 DEF Comparable
<1>5. Said(spec, a) \in [1..n -> Seq(Seq(Int))] /\ Said(spec, b) \in [1..n -> Seq(Seq(Int))]
  BY <1>2, <1>3 DEF Comparable
<1>6. Said(spec, a) \in Seq(Seq(Seq(Int))) /\ Len(Said(spec, a)) = n /\ Len(Said(spec, b)) = n
  BY <1>1, <1>5
<1> QED BY <1>2, <1>3, <1>6 DEF n, ops

(* Keys of two cards can be compared, and differ where the ids do.         *)
LEMMA KeysComparable ==
  ASSUME NEW spec \in Seq(OperatorConfigs), NEW a \in Attributes, NEW b \in Attributes,
         NEW x \in Int, NEW y \in Int
  PROVE  /\ CompositeKey(spec, a, x) = FlattenSeq(Said(spec, a)) \o Ids(a, x)
         /\ Comparable(FlattenSeq(Said(spec, a)), FlattenSeq(Said(spec, b)))
         /\ Comparable(Ids(a, x), Ids(b, y))
         /\ Comparable(CompositeKey(spec, a, x), CompositeKey(spec, b, y))
         /\ x # y => CompositeKey(spec, a, x) # CompositeKey(spec, b, y)
<1>1. /\ CompositeKey(spec, a, x) = FlattenSeq(Said(spec, a)) \o Ids(a, x)
      /\ CompositeKey(spec, b, y) = FlattenSeq(Said(spec, b)) \o Ids(b, y)
  BY DEF CompositeKey, Said, Ids
<1> DEFINE k == FlattenSeq(Said(spec, a))
           l == FlattenSeq(Said(spec, b))
<1>2. Comparable(k, l)
  <2>1. /\ Said(spec, a) \in Seq(Seq(Seq(Int))) /\ Said(spec, b) \in Seq(Seq(Seq(Int)))
        /\ Len(Said(spec, a)) = Len(Said(spec, b))
        /\ \A i \in 1..Len(Said(spec, a)) : Comparable(Said(spec, a)[i], Said(spec, b)[i])
    BY SaidComparable
  <2> QED BY <2>1, FlattenComparable
<1>3. /\ Ids(a, x) \in Seq(Seq(Int)) /\ Len(Ids(a, x)) = 3
      /\ Ids(a, x)[1] = <<a.oracle>> /\ Ids(a, x)[2] = <<a.print>> /\ Ids(a, x)[3] = <<x>>
  BY DEF Ids, Attributes
<1>4. /\ Ids(b, y) \in Seq(Seq(Int)) /\ Len(Ids(b, y)) = 3
      /\ Ids(b, y)[1] = <<b.oracle>> /\ Ids(b, y)[2] = <<b.print>> /\ Ids(b, y)[3] = <<y>>
  BY DEF Ids, Attributes
<1>5. Comparable(Ids(a, x), Ids(b, y))
  <2>1. \A i \in 1..3 : i = 1 \/ i = 2 \/ i = 3
    OBVIOUS
  <2>2. \A u : Len(<<u>>) = 1
    OBVIOUS
  <2>3. \A i \in 1..3 : Len(Ids(a, x)[i]) = 1 /\ Len(Ids(b, y)[i]) = 1
    BY <1>3, <1>4, <2>1, <2>2
  <2> QED BY <1>3, <1>4, <2>3 DEF Comparable
<1> HIDE DEF k, l
<1>6. Comparable(k \o Ids(a, x), l \o Ids(b, y))
  BY <1>2, <1>5, ConcatComparable
<1>7. ASSUME x # y PROVE k \o Ids(a, x) # l \o Ids(b, y)
  <2>1. k \in Seq(Seq(Int)) /\ l \in Seq(Seq(Int)) /\ Len(k) = Len(l) /\ Len(k) \in Nat
    BY <1>2 DEF Comparable
  <2>2. (k \o Ids(a, x))[Len(k) + 3] = <<x>> /\ (l \o Ids(b, y))[Len(k) + 3] = <<y>>
    <3>1. 3 \in 1..Len(Ids(a, x)) /\ 3 \in 1..Len(Ids(b, y))
      BY <1>3, <1>4
    <3>2. \A i \in 1..Len(Ids(a, x)) : (k \o Ids(a, x))[Len(k) + i] = Ids(a, x)[i]
      BY <1>3, <2>1, KeyConcat, Zenon
    <3>3. \A i \in 1..Len(Ids(b, y)) : (l \o Ids(b, y))[Len(l) + i] = Ids(b, y)[i]
      BY <1>4, <2>1, KeyConcat, Zenon
    <3> QED BY <1>3, <1>4, <2>1, <3>1, <3>2, <3>3, Zenon
  <2>3. <<x>> # <<y>>
    BY <1>7
  <2> QED BY <2>2, <2>3
<1> QED BY <1>1, <1>2, <1>5, <1>6, <1>7 DEF k, l

-----------------------------------------------------------------------------
(* The cards of a request, in the order of their keys.                     *)

KeyOf(g, c) == CompositeKey(g.spec, g.attrs[c], c)

LEMMA KeyOrder ==
  ASSUME NEW g, WellFormed(g), NEW c \in Cards, NEW d \in Cards, NEW e \in Cards
  PROVE  /\ Comparable(KeyOf(g, c), KeyOf(g, d))
         /\ ~KeyLess(KeyOf(g, c), KeyOf(g, c))
         /\ KeyLess(KeyOf(g, c), KeyOf(g, d)) /\ KeyLess(KeyOf(g, d), KeyOf(g, e))
              => KeyLess(KeyOf(g, c), KeyOf(g, e))
         /\ \/ c = d
            \/ KeyLess(KeyOf(g, c), KeyOf(g, d)) \/ KeyLess(KeyOf(g, d), KeyOf(g, c))
<1>1. /\ g.spec \in Seq(OperatorConfigs) /\ Cards \subseteq Int
      /\ \A x \in Cards : g.attrs[x] \in Attributes /\ x \in Int
  BY PlanningAssumption DEF WellFormed
<1>2. ASSUME NEW x \in Cards, NEW y \in Cards
      PROVE  /\ Comparable(KeyOf(g, x), KeyOf(g, y))
             /\ x # y => KeyOf(g, x) # KeyOf(g, y)
  BY <1>1, KeysComparable DEF KeyOf
<1>3. Comparable(KeyOf(g, c), KeyOf(g, d)) /\ Comparable(KeyOf(g, d), KeyOf(g, e))
  BY <1>2
<1> DEFINE k == KeyOf(g, c)
           l == KeyOf(g, d)
           m == KeyOf(g, e)
<1>4. Comparable(k, l) /\ Comparable(l, m) /\ (c # d => k # l)
  BY <1>2
<1> HIDE DEF k, l, m
<1>5. /\ ~KeyLess(k, k)
      /\ KeyLess(k, l) /\ KeyLess(l, m) => KeyLess(k, m)
      /\ k = l \/ KeyLess(k, l) \/ KeyLess(l, k)
  BY <1>4, KeyLessOrder
<1> QED BY <1>4, <1>5 DEF k, l, m

LEMMA OrderedIs ==
  ASSUME NEW g, WellFormed(g), NEW T \in SUBSET Cards
  PROVE  /\ Listed(Ordered(g, T))
         /\ Range(Ordered(g, T)) = T \cap g.identified
         /\ \A i, j \in 1..Len(Ordered(g, T)) :
              i < j => KeyLess(KeyOf(g, Ordered(g, T)[i]),
                               KeyOf(g, Ordered(g, T)[j]))
<1> DEFINE S == T \cap g.identified
           R == {p \in S \X S : KeyLess(KeyOf(g, p[1]), KeyOf(g, p[2]))}
           s == Sorted(S, R)
           n == Cardinality(S)
<1>1. S \subseteq Cards
  OBVIOUS
<1>2. Ordered(g, T) = s
  <2> DEFINE key == [c \in S |-> CompositeKey(g.spec, g.attrs[c], c)]
  <2>1. {p \in S \X S : KeyLess(key[p[1]], key[p[2]])} = R
    BY DEF KeyOf
  <2> QED BY <1>1, <2>1 DEF Ordered
<1>3. IsFiniteSet(S)
  BY <1>1, PlanningAssumption, FS_Subset
<1>4. StrictOrder(S, R)
  <2>1. \A x, y \in S : <<x, y>> \in R <=> KeyLess(KeyOf(g, x), KeyOf(g, y))
    OBVIOUS
  <2> HIDE DEF R
  <2>2. \A x \in S : <<x, x>> \notin R
    BY <1>1, <2>1, KeyOrder
  <2>3. \A x, y \in S : x = y \/ <<x, y>> \in R \/ <<y, x>> \in R
    BY <1>1, <2>1, KeyOrder
  <2>4. \A x, y, z \in S : <<x, y>> \in R /\ <<y, z>> \in R => <<x, z>> \in R
    BY <1>1, <2>1, KeyOrder
  <2> QED BY <2>2, <2>3, <2>4 DEF StrictOrder
<1>5. \A x, y : <<x, y>> \in R => KeyLess(KeyOf(g, x), KeyOf(g, y))
  OBVIOUS
<1> HIDE DEF S, R
<1>6. /\ n \in Nat /\ SortedBy(S, R, s)
      /\ \A x \in S : \E i \in 1..n : s[i] = x
  BY <1>3, <1>4, SortedIs
<1>7. s \in [1..n -> S] /\ IsInjective(s)
  BY <1>6 DEF SortedBy
<1>8. s \in Seq(Cards) /\ Len(s) = n /\ DOMAIN s = 1..n
  <2> HIDE DEF s, n
  <2> QED BY <1>1, <1>6, <1>7 DEF S
<1>9. Range(s) = S
  <2> HIDE DEF s, n
  <2> QED BY <1>6, <1>7, <1>8 DEF Range
<1>10. \A i, j \in 1..n : i < j => KeyLess(KeyOf(g, s[i]), KeyOf(g, s[j]))
  <2> HIDE DEF s, n
  <2> QED BY <1>5, <1>6, <1>8 DEF SortedBy
<1> QED BY <1>2, <1>7, <1>8, <1>9, <1>10 DEF Listed, S

-----------------------------------------------------------------------------
(* An assignment of cards to bins, card by card or position by position.   *)

Sent(cs, f, b) == {c \in Range(cs) : f[c] = b}

Sends(cs, f, w) == \A j \in 1..Len(cs) : w[j] = f[cs[j]]

LEMMA AtIs ==
  ASSUME NEW cs, Listed(cs), NEW f, NEW w, NEW b, Sends(cs, f, w)
  PROVE  Cardinality(Sent(cs, f, b)) = Cardinality(At(w, Len(cs), b))
<1> DEFINE X == At(w, Len(cs), b)
           Y == {c \in Range(cs) : f[c] = b}
           h == [j \in X |-> cs[j]]
<1>1. Len(cs) \in Nat /\ cs \in [1..Len(cs) -> Cards]
      /\ \A i, j \in 1..Len(cs) : cs[i] = cs[j] => i = j
  BY DEF Listed, IsInjective
<1>2. h \in [X -> Y]
  BY <1>1 DEF At, Range, Sends
<1>3. \A i, j \in X : h[i] = h[j] => i = j
  BY <1>1 DEF At
<1>4. \A y \in Y : \E j \in X : h[j] = y
  BY <1>1 DEF At, Range, Sends
<1>5. IsFiniteSet(X)
  BY <1>1, AtFinite
<1> HIDE DEF X, Y, h
<1>6. h \in Bijection(X, Y)
  BY <1>2, <1>3, <1>4 DEF Bijection, Injection, Surjection, IsInjective
<1>7. ExistsBijection(X, Y)
  BY <1>6 DEF ExistsBijection
<1>8. IsFiniteSet(Y) /\ Cardinality(Y) = Cardinality(X)
  BY <1>5, <1>7, FS_Bijection
<1> QED BY <1>8 DEF X, Y, Sent

(* Whenever there is an assignment, the checks made before any card is     *)
(* placed pass.                                                            *)
LEMMA AssignedFits ==
  ASSUME NEW g, WellFormed(g), NEW cs, Listed(cs),
         NEW f \in [Range(cs) -> Provisionable(g)],
         \A c \in Range(cs) : g.pinned[c] \in {None, f[c]},
         \A b \in Provisionable(g) :
           Cardinality({c \in Range(cs) : f[c] = b}) <= g.capacity[b]
  PROVE  CanProvision(g, cs)
<1> DEFINE n == Len(cs)
           w == [j \in 1..n |-> f[cs[j]]]
<1>1. n \in Nat /\ \A j \in 1..n : cs[j] \in Range(cs)
  BY DEF Listed, Range
<1>2. \A b \in Provisionable(g) : CapacityOf(g, b) = g.capacity[b]
  BY DEF Provisionable, CapacityOf
<1>3. Sends(cs, f, w)
  BY DEF Sends
<1>4. \A j \in 1..n : w[j] \in Provisionable(g) /\ g.pinned[cs[j]] \in {None, w[j]}
  BY <1>1
<1> HIDE DEF n, w
<1>5. ASSUME NEW b \in Provisionable(g)
      PROVE  Cardinality(At(w, n, b)) <= CapacityOf(g, b)
  <2>1. Cardinality(At(w, n, b)) = Cardinality({c \in Range(cs) : f[c] = b})
    <3>1. Cardinality(Sent(cs, f, b)) = Cardinality(At(w, Len(cs), b))
      BY <1>3, AtIs
    <3> QED BY <3>1 DEF n, Sent
  <2> QED BY <1>2, <2>1
<1>6. TotalCapacity(g) >= n
  <2>1. {j \in 1..n : w[j] \in Provisionable(g)} = 1..n
    BY <1>4
  <2>2. Cardinality(1..n) = n
    BY <1>1, FS_Interval
  <2>3. TotalCapacity(g) >= Cardinality({j \in 1..n : w[j] \in Provisionable(g)})
    BY <1>1, <1>5, CapacityUsed
  <2> QED BY <2>1, <2>2, <2>3
<1>7. ASSUME NEW b \in Provisionable(g)
      PROVE  PinnedAfter(g, cs, 0, b) <= CapacityOf(g, b)
  <2> DEFINE Y == {j \in (0 + 1)..Len(cs) : g.pinned[cs[j]] = b}
             X == At(w, n, b)
  <2>1. b # None
    BY ProvisionableType
  <2>2. Y \in SUBSET X
    BY <1>1, <1>4, <2>1 DEF At, n
  <2>3. IsFiniteSet(X) /\ Cardinality(X) \in Nat
    BY <1>1, AtFinite
  <2>4. PinnedAfter(g, cs, 0, b) = Cardinality(Y)
    BY DEF PinnedAfter
  <2>5. Cardinality(X) <= CapacityOf(g, b) /\ CapacityOf(g, b) \in Int
    BY <1>5, CapacityType
  <2> HIDE DEF X, Y
  <2>6. IsFiniteSet(Y) /\ Cardinality(Y) <= Cardinality(X)
    BY <2>2, <2>3, FS_Subset
  <2>7. Cardinality(Y) \in Nat
    BY <2>6, FS_CardinalityType
  <2> QED BY <2>3, <2>4, <2>5, <2>6, <2>7
<1>8. ASSUME NEW c \in Range(cs)
      PROVE  g.pinned[c] \in {None} \cup Provisionable(g)
  OBVIOUS
<1> QED BY <1>6, <1>7, <1>8 DEF CanProvision, n

(* Provisioned cards are assigned.                                         *)
Assigned(g, cs, d) ==
  \E f \in [Range(cs) -> Provisionable(g)] :
    /\ \A c \in Range(cs) : g.pinned[c] \in {None, f[c]}
    /\ \A b \in Provisionable(g) :
         /\ Cardinality({c \in Range(cs) : f[c] = b}) <= g.capacity[b]
         /\ Range(d[b]) = {c \in Range(cs) : f[c] = b}
         /\ Len(d[b]) = Cardinality(Range(d[b]))

LEMMA ProvisionedAssigns ==
  ASSUME NEW g, WellFormed(g), NEW cs, Listed(cs), NEW d, Provisioned(g, cs, d)
  PROVE  Assigned(g, cs, d)
<1> DEFINE n == Len(cs)
           P == Provisionable(g)
<1>1. PICK w : Holds(g, cs, d, n, w) /\ RoomKept(g, cs, d, n, w)
  BY DEF Provisioned
<1>2. /\ n \in Nat /\ cs \in [1..n -> Cards]
      /\ \A i, j \in 1..n : cs[i] = cs[j] => i = j
      /\ \A c \in Range(cs) : \E j \in 1..n : cs[j] = c
      /\ \A j \in 1..n : cs[j] \in Range(cs)
  BY DEF Listed, IsInjective, Range
<1>3. /\ d \in [P -> Seq(Cards)] /\ w \in [1..n -> P]
      /\ \A j \in 1..n : g.pinned[cs[j]] \in {None, w[j]}
      /\ \A b \in P : \A k \in 1..Len(d[b]) : \E j \in 1..n : w[j] = b /\ d[b][k] = cs[j]
      /\ \A j \in 1..n : \E k \in 1..Len(d[w[j]]) : d[w[j]][k] = cs[j]
  BY <1>1 DEF Holds
<1> DEFINE at(c) == CHOOSE j \in 1..n : cs[j] = c
           f == [c \in Range(cs) |-> w[at(c)]]
<1>4. \A c \in Range(cs) : at(c) \in 1..n /\ cs[at(c)] = c
  BY <1>2
<1>5. \A j \in 1..n : at(cs[j]) = j
  BY <1>2, <1>4
<1> HIDE DEF at, n, P
<1>6. f \in [Range(cs) -> P]
  BY <1>3, <1>4
<1>7. \A j \in 1..n : w[j] = f[cs[j]]
  BY <1>2, <1>5
<1>8. \A c \in Range(cs) : g.pinned[c] \in {None, f[c]}
  BY <1>3, <1>4
<1> HIDE DEF f
<1>9. ASSUME NEW b \in P
      PROVE  /\ Cardinality({c \in Range(cs) : f[c] = b}) <= g.capacity[b]
             /\ Range(d[b]) = {c \in Range(cs) : f[c] = b}
             /\ Len(d[b]) = Cardinality(Range(d[b]))
  <2>1. Cardinality({c \in Range(cs) : f[c] = b}) = Cardinality(At(w, n, b))
    <3>1. Sends(cs, f, w)
      BY <1>7 DEF n, Sends
    <3>2. Cardinality(Sent(cs, f, b)) = Cardinality(At(w, Len(cs), b))
      BY <3>1, AtIs
    <3> QED BY <3>2 DEF n, Sent
  <2>2. /\ Len(d[b]) = Cardinality(At(w, n, b))
        /\ Len(d[b]) + PinnedAfter(g, cs, n, b) <= CapacityOf(g, b)
    BY <1>1 DEF RoomKept, P
  <2>3. PinnedAfter(g, cs, n, b) \in Nat /\ Len(d[b]) \in Nat /\ CapacityOf(g, b) \in Int
    <3>1. PinnedAfter(g, cs, n, b) \in Nat
      BY <1>2, PinnedStep
    <3>2. CapacityOf(g, b) \in Int
      BY CapacityType
    <3>3. Len(d[b]) \in Nat
      BY <1>3
    <3> QED BY <3>1, <3>2, <3>3
  <2>4. CapacityOf(g, b) = g.capacity[b]
    BY DEF P, Provisionable, CapacityOf
  <2>5. Range(d[b]) = {c \in Range(cs) : f[c] = b}
    <3>1. d[b] \in Seq(Cards) /\ Range(d[b]) = {d[b][k] : k \in 1..Len(d[b])}
      BY <1>3 DEF Range
    <3>2. ASSUME NEW k \in 1..Len(d[b])
          PROVE  d[b][k] \in {c \in Range(cs) : f[c] = b}
      <4>1. PICK j \in 1..n : w[j] = b /\ d[b][k] = cs[j]
        BY <1>3
      <4>2. cs[j] \in Range(cs) /\ f[cs[j]] = b
        BY <1>2, <1>7, <4>1
      <4> QED BY <4>1, <4>2
    <3>3. ASSUME NEW c \in Range(cs), f[c] = b PROVE c \in Range(d[b])
      <4>1. PICK j \in 1..n : cs[j] = c
        BY <1>2
      <4>2. w[j] = b
        BY <1>7, <3>3, <4>1
      <4>3. \E k \in 1..Len(d[b]) : d[b][k] = c
        BY <1>3, <4>1, <4>2
      <4> QED BY <3>1, <4>3
    <3> QED BY <3>1, <3>2, <3>3
  <2> QED BY <2>1, <2>2, <2>3, <2>4, <2>5
<1> QED BY <1>6, <1>8, <1>9 DEF P, Assigned

-----------------------------------------------------------------------------
(* What Init computes stays.                                               *)

Computed ==
  /\ cfg \in Configs
  /\ cards = Ordered(cfg, Cards)
  /\ dest = Provision(cfg, cards)

LEMMA ComputedAlways == Spec => []Computed
<1>1. Init => Computed
  BY DEF Init, Computed
<1>2. Computed /\ [Next]_vars => Computed'
  <2> SUFFICES ASSUME Computed, [Next]_vars PROVE Computed'
    OBVIOUS
  <2>1. UNCHANGED <<cfg, cards, dest>>
    BY DEF Next, MakePlan, Extract, Transfer, vars
  <2> QED BY <2>1 DEF Computed
<1> QED BY <1>1, <1>2, PTL DEF Spec

LEMMA ComputedIs ==
  ASSUME Computed
  PROVE  /\ WellFormed(cfg) /\ Infeasible \notin Contents(cfg)
         /\ Listed(cards) /\ Range(cards) = cfg.identified
         /\ CanProvision(cfg, cards) => /\ Provisioned(cfg, cards, dest)
                                        /\ dest # Infeasible
         /\ ~CanProvision(cfg, cards) => dest = Infeasible
         /\ dest \in Contents(cfg) <=> dest # Infeasible
<1>1. WellFormed(cfg) /\ Infeasible \notin Contents(cfg)
  BY PlanningAssumption DEF Computed, Contents
<1>2. Listed(cards) /\ Range(cards) = Cards \cap cfg.identified
  BY <1>1, OrderedIs DEF Computed
<1>3. Cards \cap cfg.identified = cfg.identified
  BY <1>1 DEF WellFormed
<1>4. CanProvision(cfg, cards) => Provisioned(cfg, cards, dest)
  BY <1>1, <1>2, ProvisionHolds DEF Computed
<1>5. ~CanProvision(cfg, cards) => dest = Infeasible
  BY DEF Computed, Provision
<1>6. Provisioned(cfg, cards, dest) => dest \in Contents(cfg)
  BY DEF Provisioned, Holds, Contents
<1> QED BY <1>1, <1>2, <1>3, <1>4, <1>5, <1>6

(* Once the checks pass every card is placed: the loop's "Unable to place" *)
(* error does not occur (provision_bins).                                  *)
THEOREM NeverStuck ==
  Spec => [](CanProvision(cfg, cards) => dest # Infeasible)
<1>1. Computed => (CanProvision(cfg, cards) => dest # Infeasible)
  BY ComputedIs
<1> QED BY <1>1, ComputedAlways, PTL

(* What provision_bins finds is an assignment of the identified cards that *)
(* respects capacities, pins and the exclusion of the unrecognized bin.    *)
THEOREM ProvisionsSoundly == Spec => []ProvisionSound
<1>1. Computed => ProvisionSound
  <2> SUFFICES ASSUME Computed, dest # Infeasible
               PROVE  \E f \in Assignments :
                        \A b \in DOMAIN dest :
                          /\ Range(dest[b]) = {c \in DOMAIN f : f[c] = b}
                          /\ Len(dest[b]) = Cardinality(Range(dest[b]))
    BY DEF ProvisionSound
  <2>1. WellFormed(cfg) /\ Listed(cards) /\ Provisioned(cfg, cards, dest)
        /\ dest \in Contents(cfg)
    BY ComputedIs
  <2>2. PICK f \in [Range(cards) -> Provisionable(cfg)] :
           /\ \A c \in Range(cards) : cfg.pinned[c] \in {None, f[c]}
           /\ \A b \in Provisionable(cfg) :
                /\ Cardinality({c \in Range(cards) : f[c] = b}) <= cfg.capacity[b]
                /\ Range(dest[b]) = {c \in Range(cards) : f[c] = b}
                /\ Len(dest[b]) = Cardinality(Range(dest[b]))
    <3>1. Assigned(cfg, cards, dest)
      BY <2>1, ProvisionedAssigns
    <3> QED BY <3>1, Zenon DEF Assigned
  <2>3. DOMAIN f = Range(cards) /\ DOMAIN dest = Provisionable(cfg)
    BY <2>1 DEF Contents
  <2>4. f \in Assignments
    BY <2>2, <2>3 DEF Assignments
  <2> QED BY <2>2, <2>3, <2>4
<1> QED BY <1>1, ComputedAlways, PTL

(* And it finds one whenever there is one (provision_bins).                *)
THEOREM ProvisionsCompletely == Spec => []ProvisionComplete
<1>1. Computed => ProvisionComplete
  <2> SUFFICES ASSUME Computed, NEW f \in Assignments PROVE dest # Infeasible
    BY DEF ProvisionComplete
  <2>1. WellFormed(cfg) /\ Listed(cards)
    BY ComputedIs
  <2>2. /\ f \in [Range(cards) -> Provisionable(cfg)]
        /\ \A c \in Range(cards) : cfg.pinned[c] \in {None, f[c]}
        /\ \A b \in Provisionable(cfg) :
             Cardinality({c \in Range(cards) : f[c] = b}) <= cfg.capacity[b]
    BY DEF Assignments
  <2>3. CanProvision(cfg, cards)
    BY <2>1, <2>2, AssignedFits
  <2> QED BY <2>3, ComputedIs
<1> QED BY <1>1, ComputedAlways, PTL

-----------------------------------------------------------------------------
(* A flattened sequence, block by block: a[i] elements come before block i.*)

Laid(q, s, a) ==
  /\ a \in [1..Len(q) -> Nat]
  /\ \A i \in 1..Len(q) : a[i] + Len(q[i]) <= Len(s)
  /\ \A i, j \in 1..Len(q) : i < j => a[i] + Len(q[i]) <= a[j]
  /\ \A i \in 1..Len(q) : \A k \in 1..Len(q[i]) : s[a[i] + k] = q[i][k]
  /\ \A p \in 1..Len(s) : \E i \in 1..Len(q) :
       p - a[i] \in 1..Len(q[i]) /\ s[p] = q[i][p - a[i]]

LEMMA FlattenLaid ==
  ASSUME NEW X, NEW q \in Seq(Seq(X))
  PROVE  FlattenSeq(q) \in Seq(X) /\ \E a : Laid(q, FlattenSeq(q), a)
<1> DEFINE n == Len(q)
<1>1. PICK f \in [0..n -> Seq(X)] :
        /\ f[0] = <<>>
        /\ \A i \in 1..n : f[i] = f[i - 1] \o q[i]
        /\ FlattenSeq(q) = f[n]
  BY FlattenDef
<1>2. n \in Nat /\ \A i \in 1..n : q[i] \in Seq(X)
  OBVIOUS
<1> HIDE DEF n
<1> DEFINE L(i) == Len(f[i])
<1>3. \A i \in 0..n : f[i] \in Seq(X) /\ L(i) \in Nat
  <2>1. \A i \in 0..n : f[i] \in Seq(X)
    OBVIOUS
  <2>2. \A x \in Seq(X) : Len(x) \in Nat
    OBVIOUS
  <2> QED BY <2>1, <2>2
<1>4. ASSUME NEW i \in 1..n
      PROVE  /\ L(i) = L(i - 1) + Len(q[i])
             /\ \A k \in 1..L(i - 1) : f[i][k] = f[i - 1][k]
             /\ \A k \in 1..Len(q[i]) : f[i][L(i - 1) + k] = q[i][k]
  <2>1. f[i - 1] \in Seq(X) /\ q[i] \in Seq(X) /\ f[i] = f[i - 1] \o q[i]
    <3>1. i - 1 \in 0..n
      BY <1>2
    <3> QED BY <1>1, <1>2, <3>1
  <2> DEFINE x == f[i - 1]
             y == q[i]
             z == f[i]
  <2>2. x \in Seq(X) /\ y \in Seq(X) /\ z = x \o y
    BY <2>1
  <2> HIDE DEF x, y, z
  <2>3. /\ Len(z) = Len(x) + Len(y)
        /\ \A k \in 1..Len(x) : z[k] = x[k]
        /\ \A k \in 1..Len(y) : z[Len(x) + k] = y[k]
    BY <2>2
  <2> QED BY <2>3 DEF x, y, z
<1> HIDE DEF L
(* Elements stay where they are, and positions only grow.                  *)
<1> DEFINE T == {j \in Nat : j <= n =>
                   \A i \in 0..j : /\ L(i) <= L(j)
                                   /\ \A k \in 1..L(i) : f[j][k] = f[i][k]}
<1>5. T = Nat
  <2>1. T \in SUBSET Nat
    OBVIOUS
  <2>2. 0 \in T
    <3>1. \A i \in 0..0 : i = 0
      OBVIOUS
    <3>2. L(0) \in Nat
      BY <1>2, <1>3
    <3> QED BY <3>1, <3>2
  <2>3. ASSUME NEW j \in T PROVE j + 1 \in T
    <3>1. SUFFICES ASSUME j + 1 <= n, NEW i \in 0..(j + 1)
                   PROVE  /\ L(i) <= L(j + 1)
                          /\ \A k \in 1..L(i) : f[j + 1][k] = f[i][k]
      <4>1. j + 1 \in Nat
        BY <2>3
      <4> QED BY <4>1
    <3>2. j \in Nat /\ j \in 0..n /\ j + 1 \in 1..n /\ (j + 1) - 1 = j
      BY <1>2, <2>3, <3>1
    <3>3. /\ L(j + 1) = L(j) + Len(q[j + 1])
          /\ \A k \in 1..L(j) : f[j + 1][k] = f[j][k]
      BY <1>4, <3>2
    <3>4. L(j) \in Nat /\ L(j + 1) \in Nat /\ Len(q[j + 1]) \in Nat
      BY <1>2, <1>3, <3>2
    <3>5. CASE i = j + 1
      BY <3>4, <3>5
    <3>6. CASE i # j + 1
      <4>1. i \in 0..j /\ i \in 0..n
        BY <1>2, <3>1, <3>2, <3>6
      <4>2. L(i) <= L(j) /\ \A k \in 1..L(i) : f[j][k] = f[i][k]
        BY <2>3, <3>2, <4>1
      <4>3. L(i) \in Nat
        BY <1>3, <4>1
      <4> QED BY <3>3, <3>4, <4>2, <4>3
    <3> QED BY <3>5, <3>6
  <2> HIDE DEF T
  <2> QED BY <2>1, <2>2, <2>3, NatInduct
<1>6. ASSUME NEW j \in 0..n, NEW i \in 0..j
      PROVE  L(i) <= L(j) /\ \A k \in 1..L(i) : f[j][k] = f[i][k]
  <2>1. j \in T /\ j <= n
    <3>1. j \in Nat /\ j <= n
      BY <1>2
    <3> HIDE DEF T
    <3> QED BY <1>5, <3>1
  <2> QED BY <2>1
(* Every element is of a block.                                            *)
<1> DEFINE Of(p, i) == /\ p - L(i - 1) \in 1..Len(q[i])
                       /\ f[n][p] = q[i][p - L(i - 1)]
           U == {j \in Nat : j <= n => \A p \in 1..L(j) : \E i \in 1..n : Of(p, i)}
<1>7. U = Nat
  <2>1. U \in SUBSET Nat
    OBVIOUS
  <2>2. 0 \in U
    <3>1. L(0) = 0
      BY <1>1 DEF L
    <3> QED BY <3>1
  <2>3. ASSUME NEW j \in U PROVE j + 1 \in U
    <3>1. SUFFICES ASSUME j + 1 <= n, NEW p \in 1..L(j + 1)
                   PROVE  \E i \in 1..n : Of(p, i)
      <4>1. j + 1 \in Nat
        BY <2>3
      <4> HIDE DEF Of
      <4> QED BY <4>1
    <3>2. j \in Nat /\ j \in 0..n /\ j + 1 \in 1..n /\ (j + 1) - 1 = j
      BY <1>2, <2>3, <3>1
    <3>3. /\ L(j + 1) = L(j) + Len(q[j + 1])
          /\ \A k \in 1..Len(q[j + 1]) : f[j + 1][L(j) + k] = q[j + 1][k]
      BY <1>4, <3>2
    <3>4. L(j) \in Nat /\ L(j + 1) \in Nat /\ Len(q[j + 1]) \in Nat
      BY <1>2, <1>3, <3>2
    <3>5. CASE p \in 1..L(j)
      <4> HIDE DEF Of
      <4> QED BY <2>3, <3>2, <3>5
    <3>6. CASE p \notin 1..L(j)
      <4>1. p - L(j) \in 1..Len(q[j + 1]) /\ L(j) + (p - L(j)) = p
        BY <3>1, <3>3, <3>4, <3>6
      <4>2. f[j + 1][p] = q[j + 1][p - L(j)]
        <5> DEFINE k == p - L(j)
        <5>1. k \in 1..Len(q[j + 1]) /\ L(j) + k = p
          BY <4>1
        <5> HIDE DEF k
        <5>2. f[j + 1][p] = q[j + 1][k]
          BY <3>3, <5>1
        <5> QED BY <5>2 DEF k
      <4>3. f[n][p] = f[j + 1][p]
        <5>1. n \in 0..n /\ j + 1 \in 0..n
          BY <1>2, <3>2
        <5> QED BY <1>6, <3>1, <5>1
      <4>4. Of(p, j + 1)
        BY <3>2, <4>1, <4>2, <4>3
      <4> QED BY <3>2, <4>4
    <3> QED BY <3>5, <3>6
  <2> HIDE DEF U
  <2> QED BY <2>1, <2>2, <2>3, NatInduct
<1> DEFINE a == [i \in 1..n |-> L(i - 1)]
           s == f[n]
<1>8. a \in [1..n -> Nat]
  BY <1>2, <1>3
<1>9. ASSUME NEW i \in 1..n
      PROVE  /\ a[i] = L(i - 1) /\ a[i] + Len(q[i]) = L(i)
             /\ L(i) <= Len(s)
             /\ \A k \in 1..Len(q[i]) : s[a[i] + k] = q[i][k]
  <2>1. i \in 0..n /\ n \in 0..n /\ i - 1 \in 0..n
    BY <1>2
  <2>2. /\ L(i) = L(i - 1) + Len(q[i])
        /\ \A k \in 1..Len(q[i]) : f[i][L(i - 1) + k] = q[i][k]
    BY <1>4
  <2>3. L(i) <= L(n) /\ \A k \in 1..L(i) : f[n][k] = f[i][k]
    BY <1>6, <2>1
  <2>4. L(i - 1) \in Nat /\ L(i) \in Nat /\ Len(q[i]) \in Nat
    BY <1>2, <1>3, <2>1
  <2>5. ASSUME NEW k \in 1..Len(q[i]) PROVE s[a[i] + k] = q[i][k]
    <3>1. L(i - 1) + k \in 1..L(i)
      BY <2>2, <2>4
    <3>2. f[n][L(i - 1) + k] = f[i][L(i - 1) + k]
      BY <2>3, <3>1
    <3> QED BY <2>2, <3>2
  <2>6. L(n) = Len(s)
    BY DEF L
  <2> QED BY <2>2, <2>3, <2>5, <2>6
<1>10. ASSUME NEW i \in 1..n, NEW j \in 1..n, i < j
       PROVE  a[i] + Len(q[i]) <= a[j]
  <2>1. i \in 0..(j - 1) /\ j - 1 \in 0..n
    BY <1>2, <1>10
  <2>2. L(i) <= L(j - 1)
    BY <1>6, <2>1
  <2> QED BY <1>9, <2>2
<1>11. ASSUME NEW p \in 1..Len(s)
       PROVE  \E i \in 1..n : p - a[i] \in 1..Len(q[i]) /\ s[p] = q[i][p - a[i]]
  <2>1. n \in U /\ n <= n /\ Len(s) = L(n)
    <3>1. n \in Nat /\ n <= n
      BY <1>2
    <3>2. Len(s) = L(n)
      BY DEF L
    <3> HIDE DEF U
    <3> QED BY <1>7, <3>1, <3>2
  <2>2. \E i \in 1..n : Of(p, i)
    <3> HIDE DEF Of
    <3> QED BY <2>1
  <2> QED BY <2>2
<1>12. s \in Seq(X) /\ FlattenSeq(q) = s
  BY <1>1, <1>2
<1> HIDE DEF a, s
<1>13. Laid(q, s, a)
  BY <1>8, <1>9, <1>10, <1>11 DEF Laid, n
<1> QED BY <1>12, <1>13

-----------------------------------------------------------------------------
(* The moves of a plan, bin by bin of the request.                         *)

MoveOf(c, from, to) == [card |-> c, from |-> from, to |-> to]

MoveSet(g) ==
  [card : Cards, from : BinSet(g) \cup {ExtractFrom}, to : BinSet(g)]

Blocks(g, d) ==
  [i \in DOMAIN g.bins |->
     IF g.bins[i] \in UsedBins(g, d)
     THEN MovesInto(g.bins[i], d[g.bins[i]], StagingBin(g, d)) ELSE <<>>]

LEMMA MovesIntoIs ==
  ASSUME NEW final \in Seq(Cards), NEW b, NEW s, NEW k \in 1..Len(final)
  PROVE  /\ Len(MovesInto(b, final, s)) = Len(final) + Len(final)
         /\ MovesInto(b, final, s)[k] = MoveOf(final[k], ExtractFrom, s)
         /\ MovesInto(b, final, s)[Len(final) + k] =
              MoveOf(final[(Len(final) - k) + 1], s, b)
<1> DEFINE n == Len(final)
           x == [i \in 1..n |-> [card |-> final[i], from |-> ExtractFrom, to |-> s]]
           y == [i \in 1..n |-> [card |-> Reverse(final)[i], from |-> s, to |-> b]]
           Y == {MoveOf(c, f, t) : c \in Cards, f \in {ExtractFrom, s}, t \in {s, b}}
<1>1. n \in Nat /\ \A i \in 1..n : final[i] \in Cards /\ (n - i) + 1 \in 1..n
  OBVIOUS
<1>2. \A i \in 1..n : Reverse(final)[i] = final[(n - i) + 1]
  BY DEF Reverse
<1>3. MovesInto(b, final, s) = x \o y
  BY DEF MovesInto
<1> HIDE DEF n
<1>4. x \in [1..n -> Y] /\ y \in [1..n -> Y]
  BY <1>1, <1>2 DEF MoveOf
<1>5. x[k] = MoveOf(final[k], ExtractFrom, s) /\ y[k] = MoveOf(final[(n - k) + 1], s, b)
  BY <1>2 DEF MoveOf, n
<1> HIDE DEF x, y, Y
<1>6. x \in Seq(Y) /\ y \in Seq(Y) /\ Len(x) = n /\ Len(y) = n
  BY <1>1, <1>4
<1>7. /\ Len(x \o y) = n + n
      /\ \A i \in 1..n : (x \o y)[i] = x[i]
      /\ \A i \in 1..n : (x \o y)[n + i] = y[i]
  <2>1. Concat(Y, x, y)
    BY <1>6, ConcatIs
  <2> QED BY <1>6, <2>1 DEF Concat
<1>8. k \in 1..n
  BY DEF n
<1> QED BY <1>3, <1>5, <1>7, <1>8 DEF n

LEMMA StagingIs ==
  ASSUME NEW g, WellFormed(g), NEW d
  PROVE  StagingBin(g, d) \in BinSet(g) \cup {None}
<1> DEFINE unused == Available(g) \ UsedBins(g, d)
<1>1. unused \subseteq Range(g.bins)
  BY DEF Available
<1>2. unused # {} => First(g, unused) \in unused
  <2> HIDE DEF unused
  <2> QED BY <1>1, FirstIn
<1> QED BY <1>1, <1>2 DEF StagingBin, BinSet

LEMMA BlocksAre ==
  ASSUME NEW g, WellFormed(g), NEW d \in Contents(g), d # Infeasible,
         MovesOf(g, d) # Infeasible
  PROVE  /\ MovesOf(g, d) = FlattenSeq(Blocks(g, d))
         /\ Blocks(g, d) \in Seq(Seq(MoveSet(g)))
         /\ Len(Blocks(g, d)) = Len(g.bins)
         /\ UsedBins(g, d) # {} => StagingBin(g, d) \in BinSet(g)
<1> DEFINE s == StagingBin(g, d)
<1>1. UsedBins(g, d) # {} => s # None
  BY DEF MovesOf
<1>2. MovesOf(g, d) = FlattenSeq(Blocks(g, d))
  BY DEF MovesOf, Blocks
<1>3. UsedBins(g, d) # {} => s \in BinSet(g)
  BY <1>1, StagingIs
<1> HIDE DEF s
<1>4. ASSUME NEW i \in DOMAIN g.bins
      PROVE  Blocks(g, d)[i] \in Seq(MoveSet(g))
  <2> DEFINE b == g.bins[i]
  <2>1. CASE b \in UsedBins(g, d)
    <3>1. /\ d[b] \in Seq(Cards) /\ s \in BinSet(g) /\ b \in BinSet(g)
      BY <1>3, <2>1 DEF UsedBins, Contents, BinSet, Range
    <3> DEFINE final == d[b]
               n == Len(final)
               m == MovesInto(b, final, s)
               x == [j \in 1..n |-> [card |-> final[j], from |-> ExtractFrom, to |-> s]]
               y == [j \in 1..n |-> [card |-> Reverse(final)[j], from |-> s, to |-> b]]
    <3>2. Blocks(g, d)[i] = x \o y
      BY <2>1 DEF Blocks, MovesInto, s
    <3>3. final \in Seq(Cards)
      BY <3>1
    <3> HIDE DEF b, final
    <3>4. n \in Nat /\ \A j \in 1..n : final[j] \in Cards /\ (n - j) + 1 \in 1..n
      BY <3>3
    <3>5. \A j \in 1..n : Reverse(final)[j] = final[(n - j) + 1]
      BY DEF Reverse
    <3>6. \A j \in 1..n : x[j] \in MoveSet(g)
      BY <3>1, <3>4 DEF MoveSet
    <3>7. \A j \in 1..n : y[j] \in MoveSet(g)
      BY <3>1, <3>4, <3>5 DEF MoveSet
    <3> HIDE DEF n
    <3>8. x \in [1..n -> MoveSet(g)] /\ y \in [1..n -> MoveSet(g)]
      BY <3>6, <3>7
    <3> HIDE DEF x, y
    <3>9. x \in Seq(MoveSet(g)) /\ y \in Seq(MoveSet(g))
      BY <3>4, <3>8
    <3>10. x \o y \in Seq(MoveSet(g))
      BY <3>9
    <3> QED BY <3>2, <3>10
  <2>2. CASE b \notin UsedBins(g, d)
    <3>1. Blocks(g, d)[i] = <<>>
      BY <2>2 DEF Blocks
    <3> QED BY <3>1
  <2> QED BY <2>1, <2>2
<1>5. DOMAIN g.bins = 1..Len(g.bins) /\ Len(g.bins) \in Nat
  BY DEF WellFormed
<1>6. Blocks(g, d) \in [1..Len(g.bins) -> Seq(MoveSet(g))]
  BY <1>4, <1>5 DEF Blocks
<1>7. Blocks(g, d) \in Seq(Seq(MoveSet(g))) /\ Len(Blocks(g, d)) = Len(g.bins)
  BY <1>5, <1>6
<1> QED BY <1>2, <1>3, <1>7 DEF s

-----------------------------------------------------------------------------
(* Stacks.                                                                 *)

LEMMA RemoveAtIs ==
  ASSUME NEW s \in Seq(Cards), NEW k \in 1..Len(s)
  PROVE  /\ RemoveAt(s, k) \in Seq(Cards)
         /\ Len(RemoveAt(s, k)) = Len(s) - 1
         /\ \A i \in 1..(Len(s) - 1) :
              RemoveAt(s, k)[i] = IF i < k THEN s[i] ELSE s[i + 1]
<1> DEFINE x == SubSeq(s, 1, k - 1)
           y == SubSeq(s, k + 1, Len(s))
<1>1. Len(s) \in Nat /\ k \in Nat /\ 1 <= k /\ k <= Len(s)
  OBVIOUS
<1>2. /\ x \in Seq(Cards) /\ Len(x) = k - 1
      /\ \A i \in 1..(k - 1) : x[i] = s[i]
  BY <1>1
<1>3. /\ y \in Seq(Cards) /\ Len(y) = Len(s) - k
      /\ \A i \in 1..(Len(s) - k) : y[i] = s[k + i]
  BY <1>1
<1>4. RemoveAt(s, k) = x \o y
  BY DEF RemoveAt
<1> HIDE DEF x, y
<1>5. /\ x \o y \in Seq(Cards) /\ Len(x \o y) = Len(s) - 1
      /\ \A i \in 1..(k - 1) : (x \o y)[i] = x[i]
      /\ \A i \in 1..(Len(s) - k) : (x \o y)[(k - 1) + i] = y[i]
  <2>1. Concat(Cards, x, y)
    BY <1>2, <1>3, ConcatIs
  <2>2. (k - 1) + (Len(s) - k) = Len(s) - 1
    BY <1>1
  <2> QED BY <1>2, <1>3, <2>1, <2>2 DEF Concat
<1>6. ASSUME NEW i \in 1..(Len(s) - 1)
      PROVE  (x \o y)[i] = IF i < k THEN s[i] ELSE s[i + 1]
  <2>1. CASE i < k
    BY <1>1, <1>2, <1>5, <2>1
  <2>2. CASE ~(i < k)
    <3>1. (i - k) + 1 \in 1..(Len(s) - k) /\ (k - 1) + ((i - k) + 1) = i
          /\ k + ((i - k) + 1) = i + 1
      BY <1>1, <2>2
    <3> DEFINE j == (i - k) + 1
    <3>2. j \in 1..(Len(s) - k) /\ (k - 1) + j = i /\ k + j = i + 1
      BY <3>1
    <3> HIDE DEF j
    <3>3. (x \o y)[i] = y[j] /\ y[j] = s[i + 1]
      BY <1>3, <1>5, <3>2
    <3> QED BY <2>2, <3>3
  <2> QED BY <2>1, <2>2
<1> QED BY <1>4, <1>5, <1>6

LEMMA PushedIs ==
  ASSUME NEW c \in Cards, NEW s \in Seq(Cards)
  PROVE  /\ <<c>> \o s \in Seq(Cards)
         /\ Len(<<c>> \o s) = Len(s) + 1
         /\ (<<c>> \o s)[1] = c
         /\ \A i \in 1..Len(s) : (<<c>> \o s)[i + 1] = s[i]
<1> DEFINE x == <<c>>
<1>1. x \in Seq(Cards) /\ Len(x) = 1 /\ x[1] = c /\ Len(s) \in Nat
  OBVIOUS
<1> HIDE DEF x
<1>2. /\ x \o s \in Seq(Cards) /\ Len(x \o s) = 1 + Len(s)
      /\ (x \o s)[1] = x[1]
      /\ \A i \in 1..Len(s) : (x \o s)[1 + i] = s[i]
  <2>1. Concat(Cards, x, s) /\ 1 \in 1..1
    BY <1>1, ConcatIs
  <2> QED BY <1>1, <2>1 DEF Concat
<1> QED BY <1>1, <1>2 DEF x

LEMMA ScannedIs ==
  /\ SetToSeq(Cards) \in Seq(Cards)
  /\ IsInjective(SetToSeq(Cards))
<1> DEFINE n == Cardinality(Cards)
<1>1. n \in Nat /\ Bijection(1..n, Cards) # {}
  BY PlanningAssumption, FS_CardinalityType DEF ExistsBijection
<1>2. \E f \in [1..n -> Cards] : IsInjective(f)
  BY <1>1 DEF Bijection, Injection
<1>3. SetToSeq(Cards) \in [1..n -> Cards] /\ IsInjective(SetToSeq(Cards))
  BY <1>2 DEF SetToSeq
<1> HIDE DEF n
<1> QED BY <1>1, <1>3

(* No card is in two places.                                               *)
Once(st) ==
  \A b, c \in DOMAIN st : \A k \in 1..Len(st[b]), l \in 1..Len(st[c]) :
    st[b][k] = st[c][l] => b = c /\ k = l

(* A card taken out of a stack is in none, ...                             *)
Without(st, b, k) == [st EXCEPT ![b] = RemoveAt(@, k)]

Taken(B, st, b, k, mid) ==
  /\ mid \in [B -> Seq(Cards)] /\ Once(mid)
  /\ \A x \in B : x # b => mid[x] = st[x]
  /\ Len(mid[b]) = Len(st[b]) - 1
  /\ \A i \in 1..(Len(st[b]) - 1) :
       mid[b][i] = IF i < k THEN st[b][i] ELSE st[b][i + 1]
  /\ \A x \in B : \A i \in 1..Len(mid[x]) : mid[x][i] # st[b][k]

LEMMA TakenIs ==
  ASSUME NEW B, NEW st \in [B -> Seq(Cards)], Once(st),
         NEW b \in B, NEW k \in 1..Len(st[b])
  PROVE  Taken(B, st, b, k, Without(st, b, k))
<1> DEFINE mid == Without(st, b, k)
<1>1. /\ RemoveAt(st[b], k) \in Seq(Cards)
      /\ Len(RemoveAt(st[b], k)) = Len(st[b]) - 1
      /\ \A i \in 1..(Len(st[b]) - 1) :
           RemoveAt(st[b], k)[i] = IF i < k THEN st[b][i] ELSE st[b][i + 1]
  BY RemoveAtIs
<1>2. mid[b] = RemoveAt(st[b], k) /\ \A x \in B : x # b => mid[x] = st[x]
  BY DEF Without
<1>3. mid \in [B -> Seq(Cards)]
  BY <1>1 DEF Without
<1> HIDE DEF mid
<1>4. Len(st[b]) \in Nat /\ k \in 1..Len(st[b]) /\ \A x \in B : Len(st[x]) \in Nat
  OBVIOUS
<1> DEFINE at(x, i) == IF x = b /\ ~(i < k) THEN i + 1 ELSE i
<1>5. ASSUME NEW x \in B, NEW i \in 1..Len(mid[x])
      PROVE  /\ at(x, i) \in 1..Len(st[x]) /\ mid[x][i] = st[x][at(x, i)]
             /\ ~(x = b /\ at(x, i) = k)
  <2>1. CASE x = b
    <3>1. i \in 1..(Len(st[b]) - 1)
      BY <1>1, <1>2, <2>1
    <3>2. mid[b][i] = IF i < k THEN st[b][i] ELSE st[b][i + 1]
      BY <1>1, <1>2, <3>1
    <3> QED BY <1>4, <2>1, <3>1, <3>2
  <2>2. CASE x # b
    BY <1>2, <2>2
  <2> QED BY <2>1, <2>2
<1>6. ASSUME NEW x \in B, NEW i \in 1..Len(mid[x])
      PROVE  mid[x][i] # st[b][k]
  <2>1. DOMAIN st = B
    OBVIOUS
  <2> HIDE DEF at
  <2>2. st[x][at(x, i)] = st[b][k] => x = b /\ at(x, i) = k
    BY <1>4, <1>5, <2>1 DEF Once
  <2> QED BY <1>5, <2>2
<1>7. Once(mid)
  <2>1. SUFFICES ASSUME NEW x \in B, NEW y \in B, NEW i \in 1..Len(mid[x]),
                        NEW j \in 1..Len(mid[y]), mid[x][i] = mid[y][j]
                 PROVE  x = y /\ i = j
    BY <1>3 DEF Once
  <2>2. x = y /\ at(x, i) = at(y, j)
    <3>1. DOMAIN st = B
      OBVIOUS
    <3> HIDE DEF at
    <3>2. /\ at(x, i) \in 1..Len(st[x]) /\ at(y, j) \in 1..Len(st[y])
          /\ st[x][at(x, i)] = st[y][at(y, j)]
      BY <1>5, <2>1
    <3> QED BY <3>1, <3>2 DEF Once
  <2>3. i \in Int /\ j \in Int /\ k \in Int
    OBVIOUS
  <2> QED BY <2>2, <2>3
<1> QED BY <1>1, <1>2, <1>3, <1>6, <1>7 DEF Taken, mid

(* ... and may be put on top of any.                                       *)
PutOn(B, mid, t, c, new) ==
  /\ new \in [B -> Seq(Cards)] /\ Once(new)
  /\ \A x \in B : x # t => new[x] = mid[x]
  /\ Len(new[t]) = Len(mid[t]) + 1
  /\ new[t][1] = c
  /\ \A i \in 1..Len(mid[t]) : new[t][i + 1] = mid[t][i]

LEMMA PutIs ==
  ASSUME NEW B, NEW mid \in [B -> Seq(Cards)], Once(mid), NEW c \in Cards,
         \A x \in B : \A i \in 1..Len(mid[x]) : mid[x][i] # c,
         NEW t \in B
  PROVE  PutOn(B, mid, t, c, Push(t, c, mid))
<1> DEFINE new == Push(t, c, mid)
           q == <<c>> \o mid[t]
<1>1. /\ q \in Seq(Cards) /\ Len(q) = Len(mid[t]) + 1 /\ q[1] = c
      /\ \A i \in 1..Len(mid[t]) : q[i + 1] = mid[t][i]
  <2>1. mid[t] \in Seq(Cards)
    OBVIOUS
  <2> QED BY <2>1, PushedIs
<1>2. new = [mid EXCEPT ![t] = q]
  BY DEF Push
<1> HIDE DEF new, q
<1>3. new[t] = q /\ \A x \in B : x # t => new[x] = mid[x]
  BY <1>2
<1>4. new \in [B -> Seq(Cards)]
  BY <1>1, <1>2
<1>5. \A x \in B : Len(mid[x]) \in Nat
  OBVIOUS
<1> DEFINE top(x, i) == x = t /\ i = 1
           at(x, i) == IF x = t THEN i - 1 ELSE i
<1>6. ASSUME NEW x \in B, NEW i \in 1..Len(new[x]), ~top(x, i)
      PROVE  at(x, i) \in 1..Len(mid[x]) /\ new[x][i] = mid[x][at(x, i)]
  <2>1. CASE x = t
    <3>1. i - 1 \in 1..Len(mid[t]) /\ (i - 1) + 1 = i
      BY <1>1, <1>3, <1>5, <1>6, <2>1
    <3> DEFINE j == i - 1
    <3>2. j \in 1..Len(mid[t]) /\ j + 1 = i
      BY <3>1
    <3> HIDE DEF j
    <3>3. q[i] = mid[t][j]
      BY <1>1, <3>2
    <3> QED BY <1>3, <2>1, <3>2, <3>3 DEF j
  <2>2. CASE x # t
    BY <1>3, <2>2
  <2> QED BY <2>1, <2>2
<1>7. ASSUME NEW x \in B, NEW i \in 1..Len(new[x])
      PROVE  new[x][i] = c <=> top(x, i)
  <2>1. CASE top(x, i)
    BY <1>1, <1>3, <2>1
  <2>2. CASE ~top(x, i)
    <3>1. at(x, i) \in 1..Len(mid[x]) /\ new[x][i] = mid[x][at(x, i)]
      BY <1>6, <2>2
    <3> HIDE DEF at, top
    <3> QED BY <2>2, <3>1
  <2> QED BY <2>1, <2>2
<1>8. Once(new)
  <2>1. SUFFICES ASSUME NEW x \in B, NEW y \in B, NEW i \in 1..Len(new[x]),
                        NEW j \in 1..Len(new[y]), new[x][i] = new[y][j]
                 PROVE  x = y /\ i = j
    BY <1>4 DEF Once
  <2>2. CASE new[x][i] = c
    <3>1. top(x, i) /\ top(y, j)
      <4> HIDE DEF top
      <4> QED BY <1>7, <2>1, <2>2
    <3> QED BY <3>1
  <2>3. CASE new[x][i] # c
    <3>1. ~top(x, i) /\ ~top(y, j)
      <4> HIDE DEF top
      <4> QED BY <1>7, <2>1, <2>3
    <3>2. /\ at(x, i) \in 1..Len(mid[x]) /\ at(y, j) \in 1..Len(mid[y])
          /\ mid[x][at(x, i)] = mid[y][at(y, j)]
      <4> HIDE DEF at, top
      <4> QED BY <1>6, <2>1, <3>1
    <3>3. x = y /\ at(x, i) = at(y, j)
      <4>1. DOMAIN mid = B
        OBVIOUS
      <4> HIDE DEF at
      <4> QED BY <3>2, <4>1 DEF Once
    <3>4. i \in Int /\ j \in Int
      OBVIOUS
    <3> QED BY <3>3, <3>4
  <2> QED BY <2>2, <2>3
<1> QED BY <1>1, <1>3, <1>4, <1>8 DEF new, PutOn

LEMMA TailIs ==
  ASSUME NEW s \in Seq(Cards), s # <<>>
  PROVE  1 \in 1..Len(s) /\ Tail(s) = RemoveAt(s, 1) /\ Head(s) = s[1]
<1>1. Len(s) \in Nat /\ 1 \in 1..Len(s)
  OBVIOUS
<1>2. Head(s) = s[1]
  OBVIOUS
<1> DEFINE r == RemoveAt(s, 1)
<1>3. /\ r \in Seq(Cards) /\ Len(r) = Len(s) - 1
      /\ \A i \in 1..(Len(s) - 1) : r[i] = IF i < 1 THEN s[i] ELSE s[i + 1]
  BY <1>1, RemoveAtIs
<1> HIDE DEF r
<1>4. \A i \in 1..(Len(s) - 1) : r[i] = s[i + 1]
  BY <1>1, <1>3
<1>5. /\ Tail(s) \in Seq(Cards) /\ Len(Tail(s)) = Len(s) - 1
      /\ \A i \in 1..(Len(s) - 1) : Tail(s)[i] = s[i + 1]
  BY <1>1
<1>6. Tail(s) = r
  <2>1. \A x \in Seq(Cards) : x = [i \in 1..Len(x) |-> x[i]]
    OBVIOUS
  <2> DEFINE t == Tail(s)
  <2>2. t \in Seq(Cards) /\ Len(t) = Len(r) /\ \A i \in 1..Len(r) : t[i] = r[i]
    BY <1>3, <1>4, <1>5
  <2> HIDE DEF t
  <2>3. [i \in 1..Len(t) |-> t[i]] = [i \in 1..Len(r) |-> r[i]]
    BY <2>2
  <2> QED BY <1>3, <2>1, <2>2, <2>3 DEF t
<1> QED BY <1>1, <1>2, <1>6 DEF r

-----------------------------------------------------------------------------
(* The robot's state while a plan is carried out.                          *)

Stacked ==
  /\ moves \in Seq(MoveSet(cfg)) /\ done \in -1..Len(moves)
  /\ stacks \in [BinSet(cfg) -> Seq(Cards)] /\ Once(stacks)
  /\ done # -1 => dest # Infeasible /\ moves = MovesOf(cfg, dest)
                  /\ MovesOf(cfg, dest) # Infeasible

(* What a step of the robot does: a card leaves the place it is in, and is *)
(* put where the move says.                                                *)
Moved(b, k) ==
  LET m == moves[done + 1]
      mid == [stacks EXCEPT ![b] = RemoveAt(@, k)]
  IN /\ done \in 0..(Len(moves) - 1)
     /\ b \in BinSet(cfg) /\ k \in 1..Len(stacks[b])
     /\ stacks' = Push(m.to, stacks[b][k], mid)
     /\ done' = done + 1
     /\ UNCHANGED <<cfg, cards, dest, moves>>

LEMMA ExtractIs ==
  ASSUME Stacked, Extract
  PROVE  \E b, k : Moved(b, k) /\ stacks[b][k] = moves[done + 1].card
                   /\ moves[done + 1].from = ExtractFrom
<1>1. PICK b \in DOMAIN stacks : \E k \in DOMAIN stacks[b] :
        /\ stacks[b][k] = moves[done + 1].card
        /\ stacks' = Push(moves[done + 1].to, moves[done + 1].card,
                          [stacks EXCEPT ![b] = RemoveAt(@, k)])
  BY DEF Extract
<1>2. PICK k \in DOMAIN stacks[b] :
        /\ stacks[b][k] = moves[done + 1].card
        /\ stacks' = Push(moves[done + 1].to, moves[done + 1].card,
                          [stacks EXCEPT ![b] = RemoveAt(@, k)])
  BY <1>1
<1>3. b \in BinSet(cfg) /\ k \in 1..Len(stacks[b])
  BY DEF Stacked
<1> QED BY <1>2, <1>3 DEF Extract, Moved

LEMMA TransferIs ==
  ASSUME Stacked, Transfer
  PROVE  /\ Moved(moves[done + 1].from, 1)
         /\ moves[done + 1].from # ExtractFrom
<1> DEFINE m == moves[done + 1]
           b == m.from
<1>1. /\ done \in 0..(Len(moves) - 1) /\ b # ExtractFrom /\ stacks[b] # <<>>
      /\ stacks' = Push(m.to, Head(stacks[b]), [stacks EXCEPT ![b] = Tail(@)])
      /\ done' = done + 1
      /\ UNCHANGED <<cfg, cards, dest, moves>>
  BY DEF Transfer
<1>2. m \in MoveSet(cfg)
  BY <1>1 DEF Stacked
<1>3. b \in BinSet(cfg)
  BY <1>1, <1>2 DEF MoveSet
<1>4. stacks \in [BinSet(cfg) -> Seq(Cards)] /\ stacks[b] \in Seq(Cards)
  BY <1>3 DEF Stacked
<1> HIDE DEF m, b
<1>5. /\ 1 \in 1..Len(stacks[b]) /\ Tail(stacks[b]) = RemoveAt(stacks[b], 1)
      /\ Head(stacks[b]) = stacks[b][1]
  BY <1>1, <1>4, TailIs
<1>6. [stacks EXCEPT ![b] = Tail(@)] = [stacks EXCEPT ![b] = RemoveAt(@, 1)]
  BY <1>5
<1>7. stacks' = Push(m.to, stacks[b][1], [stacks EXCEPT ![b] = RemoveAt(@, 1)])
  BY <1>1, <1>5, <1>6
<1> QED BY <1>1, <1>3, <1>5, <1>7 DEF Moved, m, b

(* How the stacks change with it.                                          *)
LEMMA MovedIs ==
  ASSUME Stacked, NEW b, NEW k, Moved(b, k)
  PROVE  /\ moves[done + 1].to \in BinSet(cfg)
         /\ \E mid : /\ Taken(BinSet(cfg), stacks, b, k, mid)
                     /\ PutOn(BinSet(cfg), mid, moves[done + 1].to, stacks[b][k], stacks')
<1> DEFINE m == moves[done + 1]
           B == BinSet(cfg)
           mid == Without(stacks, b, k)
<1>1. /\ stacks \in [B -> Seq(Cards)] /\ Once(stacks)
      /\ b \in B /\ k \in 1..Len(stacks[b]) /\ stacks[b][k] \in Cards
      /\ m \in MoveSet(cfg)
  BY DEF Stacked, Moved
<1>2. m.to \in B
  BY <1>1 DEF MoveSet
<1>3. stacks' = Push(m.to, stacks[b][k], mid)
  BY DEF Moved, Without
<1> HIDE DEF B, m
<1>4. Taken(B, stacks, b, k, mid)
  BY <1>1, TakenIs
<1> HIDE DEF mid
<1>5. /\ mid \in [B -> Seq(Cards)] /\ Once(mid)
      /\ \A x \in B : \A i \in 1..Len(mid[x]) : mid[x][i] # stacks[b][k]
  BY <1>4 DEF Taken
<1>6. PutOn(B, mid, m.to, stacks[b][k], stacks')
  <2>1. PutOn(B, mid, m.to, stacks[b][k], Push(m.to, stacks[b][k], mid))
    BY <1>1, <1>2, <1>5, PutIs
  <2> QED BY <1>3, <2>1
<1> QED BY <1>2, <1>4, <1>6 DEF B, m

LEMMA MovedKeeps ==
  ASSUME Stacked, NEW b, NEW k, Moved(b, k)
  PROVE  Stacked'
<1>1. done' \in -1..Len(moves) /\ done # -1 /\ done' # -1
  BY DEF Moved, Stacked
<1>2. stacks' \in [BinSet(cfg) -> Seq(Cards)] /\ Once(stacks')
  BY MovedIs DEF PutOn
<1> QED BY <1>1, <1>2 DEF Stacked, Moved

LEMMA StackedAlways == Spec => []Stacked
<1>1. ASSUME Init PROVE Stacked
  <2>1. cfg \in Configs /\ moves = <<>> /\ done = -1 /\ stacks = Scanned(cfg)
    BY <1>1 DEF Init
  <2>2. cfg.input \in BinSet(cfg)
    BY DEF BinSet
  <2>3. stacks \in [BinSet(cfg) -> Seq(Cards)]
    BY <2>1, ScannedIs DEF Scanned
  <2>4. ASSUME NEW b \in BinSet(cfg), NEW k \in 1..Len(stacks[b])
        PROVE  b = cfg.input /\ stacks[b] = SetToSeq(Cards)
    <3>1. CASE b # cfg.input
      <4>1. stacks[b] = <<>>
        BY <2>1, <3>1 DEF Scanned
      <4>2. Len(stacks[b]) = 0
        BY <4>1
      <4> QED BY <4>2
    <3>2. CASE b = cfg.input
      BY <2>1, <3>2 DEF Scanned
    <3> QED BY <3>1, <3>2
  <2>5. DOMAIN stacks = BinSet(cfg)
    BY <2>3
  <2>6. DOMAIN SetToSeq(Cards) = 1..Len(SetToSeq(Cards))
    BY ScannedIs
  <2>7. Once(stacks)
    <3>1. SUFFICES ASSUME NEW b \in BinSet(cfg), NEW c \in BinSet(cfg),
                          NEW k \in 1..Len(stacks[b]), NEW l \in 1..Len(stacks[c]),
                          stacks[b][k] = stacks[c][l]
                   PROVE  b = c /\ k = l
      BY <2>5 DEF Once
    <3>2. /\ b = cfg.input /\ c = cfg.input
          /\ stacks[b] = SetToSeq(Cards) /\ stacks[c] = SetToSeq(Cards)
      BY <2>4
    <3> QED BY <2>6, <3>1, <3>2, ScannedIs DEF IsInjective
  <2> QED BY <2>1, <2>3, <2>7 DEF Stacked
<1>2. ASSUME Stacked, Computed, [Next]_vars PROVE Stacked'
  <2>1. CASE MakePlan
    <3>1. MovesOf(cfg, dest) # Infeasible /\ dest # Infeasible
      BY <2>1 DEF MakePlan, MovesOf
    <3>2. WellFormed(cfg) /\ dest \in Contents(cfg)
      BY <1>2, <3>1, ComputedIs
    <3>3. /\ MovesOf(cfg, dest) = FlattenSeq(Blocks(cfg, dest))
          /\ Blocks(cfg, dest) \in Seq(Seq(MoveSet(cfg)))
      BY <3>1, <3>2, BlocksAre
    <3>4. MovesOf(cfg, dest) \in Seq(MoveSet(cfg))
      BY <3>3, FlattenLaid
    <3>5. Len(MovesOf(cfg, dest)) \in Nat
      BY <3>4
    <3> QED BY <1>2, <2>1, <3>1, <3>4, <3>5 DEF Stacked, MakePlan
  <2>2. CASE Extract
    <3>1. \E b, k : Moved(b, k)
      BY <1>2, <2>2, ExtractIs
    <3> QED BY <1>2, <3>1, MovedKeeps
  <2>3. CASE Transfer
    BY <1>2, <2>3, TransferIs, MovedKeeps
  <2>4. CASE UNCHANGED vars
    BY <1>2, <2>4 DEF vars, Stacked
  <2> QED BY <1>2, <2>1, <2>2, <2>3, <2>4 DEF Next
<1> QED BY <1>1, <1>2, ComputedAlways, PTL DEF Spec

(* The moves name cards and bins of the request, and the stacks hold cards *)
(* (generate_plan, and the robot that carries its moves out).              *)
THEOREM PlannerTyped == Spec => []TypeOK
<1>1. Computed /\ Stacked => TypeOK
  <2> SUFFICES ASSUME Computed, Stacked PROVE TypeOK
    OBVIOUS
  <2>1. cards \in Seq(Cards)
    BY ComputedIs DEF Listed
  <2>2. dest = Infeasible \/ dest \in [Provisionable(cfg) -> Seq(Cards)]
    BY ComputedIs DEF Contents
  <2>3. \A i \in DOMAIN moves : moves[i] \in MoveSet(cfg)
    BY DEF Stacked
  <2>4. \A m \in MoveSet(cfg) : /\ m.card \in Cards
                                /\ m.from \in BinSet(cfg) \cup {ExtractFrom}
                                /\ m.to \in BinSet(cfg)
    BY DEF MoveSet
  <2> QED BY <2>1, <2>2, <2>3, <2>4 DEF TypeOK, Stacked
<1> QED BY <1>1, ComputedAlways, StackedAlways, PTL

-----------------------------------------------------------------------------
(* Where a plan d for request g stands after n of its moves.  The cards of *)
(* the i-th bin of the request are moved one block of moves after another. *)

StagedApart(g, d) == StagingBin(g, d) \notin UsedBins(g, d)

Start(g, d) == CHOOSE a : Laid(Blocks(g, d), MovesOf(g, d), a)

Filled(g, d) == {i \in 1..Len(g.bins) : g.bins[i] \in UsedBins(g, d)}

Final(g, d, i) == d[g.bins[i]]

Size(g, d, i) == Len(Final(g, d, i))

(* How many of the first n moves are of block i or follow its first one;   *)
(* how many of its cards are on the staging bin, and in their own.         *)
Gone(g, d, n, i) == n - Start(g, d)[i]

Waiting(e, k) == IF e <= k THEN e ELSE (k + k) - e

Placed(e, k) == IF e <= k + k THEN e - k ELSE k

(* Stack s has the first u cards of f on top, the last of them first; the  *)
(* last u cards of f, in their order.                                      *)
TopReversed(s, f, u) ==
  u <= Len(s) /\ \A t \in 1..u : s[t] = f[(u - t) + 1]

TopLast(s, f, u) ==
  u <= Len(s) /\ \A t \in 1..u : s[t] = f[(Len(f) - u) + t]

(* A block of which e moves are made: s is the staging stack, t the one of *)
(* the bin whose content is to be f.                                       *)
BlockAt(s, t, f, e) ==
  /\ e \in 0..(Len(f) + Len(f)) => TopReversed(s, f, Waiting(e, Len(f)))
  /\ e >= Len(f) => TopLast(t, f, Placed(e, Len(f)))

CarriedAt(g, d, st, n) ==
  \A i \in Filled(g, d) :
    BlockAt(st[StagingBin(g, d)], st[g.bins[i]], Final(g, d, i), Gone(g, d, n, i))

(* The block the next move is of, and the move.                            *)
Current(g, d, n, i) ==
  LET f == Final(g, d, i)
      k == Size(g, d, i)
      e == Gone(g, d, n, i)
  IN /\ i \in Filled(g, d)
     /\ e \in 0..((k + k) - 1)
     /\ e < k => MovesOf(g, d)[n + 1] = MoveOf(f[e + 1], ExtractFrom, StagingBin(g, d))
     /\ e >= k => MovesOf(g, d)[n + 1] =
                    MoveOf(f[(k + k) - e], StagingBin(g, d), g.bins[i])

LEMMA StartIs ==
  ASSUME NEW g, WellFormed(g), NEW d \in Contents(g), d # Infeasible,
         MovesOf(g, d) # Infeasible
  PROVE  Laid(Blocks(g, d), MovesOf(g, d), Start(g, d))
<1> DEFINE q == Blocks(g, d)
           s == MovesOf(g, d)
<1>1. q \in Seq(Seq(MoveSet(g))) /\ s = FlattenSeq(q)
  BY BlocksAre
<1> HIDE DEF q
<1>2. \E a : Laid(q, FlattenSeq(q), a)
  BY <1>1, FlattenLaid
<1>3. \E a : Laid(q, s, a)
  BY <1>1, <1>2
<1> HIDE DEF s
<1>4. Laid(q, s, CHOOSE a : Laid(q, s, a))
  BY <1>3
<1> QED BY <1>4 DEF Start, q, s

LEMMA FilledIs ==
  ASSUME NEW g, WellFormed(g), NEW d \in Contents(g), d # Infeasible,
         MovesOf(g, d) # Infeasible, NEW i \in Filled(g, d)
  PROVE  /\ Final(g, d, i) \in Seq(Cards)
         /\ Size(g, d, i) \in Nat \ {0}
         /\ i \in 1..Len(g.bins) /\ Start(g, d)[i] \in Nat
         /\ g.bins[i] \in BinSet(g) /\ StagingBin(g, d) \in BinSet(g)
         /\ ExtractFrom \notin BinSet(g)
         /\ Len(Blocks(g, d)[i]) = Size(g, d, i) + Size(g, d, i)
         /\ \A k \in 1..Size(g, d, i) :
              /\ Blocks(g, d)[i][k] =
                   MoveOf(Final(g, d, i)[k], ExtractFrom, StagingBin(g, d))
              /\ Blocks(g, d)[i][Size(g, d, i) + k] =
                   MoveOf(Final(g, d, i)[(Size(g, d, i) - k) + 1],
                          StagingBin(g, d), g.bins[i])
<1> DEFINE b == g.bins[i]
           s == StagingBin(g, d)
           f == d[b]
           m == MovesInto(b, f, s)
<1>1. /\ i \in 1..Len(g.bins) /\ b \in UsedBins(g, d) /\ b \in Provisionable(g)
      /\ f # <<>> /\ b \in BinSet(g) /\ Blocks(g, d)[i] = m
  BY DEF Filled, UsedBins, WellFormed, BinSet, Range, Blocks
<1>2. f \in Seq(Cards)
  BY <1>1 DEF Contents
<1>3. Len(f) \in Nat \ {0}
  <2> HIDE DEF f
  <2> QED BY <1>1, <1>2
<1>4. Laid(Blocks(g, d), MovesOf(g, d), Start(g, d)) /\ Len(Blocks(g, d)) = Len(g.bins)
      /\ s \in BinSet(g)
  BY <1>1, StartIs, BlocksAre
<1>5. Start(g, d)[i] \in Nat
  BY <1>1, <1>4 DEF Laid
<1> HIDE DEF b, s, f
<1>6. \A k \in 1..Len(f) :
        /\ Len(m) = Len(f) + Len(f)
        /\ m[k] = MoveOf(f[k], ExtractFrom, s)
        /\ m[Len(f) + k] = MoveOf(f[(Len(f) - k) + 1], s, b)
  BY <1>2, MovesIntoIs
<1>7. 1 \in 1..Len(f)
  BY <1>3
<1>8. Len(m) = Len(f) + Len(f)
  BY <1>6, <1>7
<1>9. ExtractFrom \notin BinSet(g)
  BY DEF WellFormed
<1> HIDE DEF m
<1> QED BY <1>1, <1>2, <1>3, <1>4, <1>5, <1>6, <1>8, <1>9 DEF Final, Size, b, s, f

(* Every move is of one block.                                             *)
LEMMA CurrentIs ==
  ASSUME NEW g, WellFormed(g), NEW d \in Contents(g), d # Infeasible,
         MovesOf(g, d) # Infeasible, NEW n \in 0..(Len(MovesOf(g, d)) - 1)
  PROVE  \E i : Current(g, d, n, i)
<1> DEFINE q == Blocks(g, d)
           s == MovesOf(g, d)
           a == Start(g, d)
<1>1. Laid(q, s, a) /\ q \in Seq(Seq(MoveSet(g))) /\ Len(q) = Len(g.bins) /\ s = FlattenSeq(q)
  BY StartIs, BlocksAre
<1>2. s \in Seq(MoveSet(g))
  BY <1>1, FlattenLaid
<1>3. Len(s) \in Nat /\ n + 1 \in 1..Len(s)
  BY <1>2
<1> HIDE DEF s, q, a
<1>4. PICK i \in 1..Len(q) : (n + 1) - a[i] \in 1..Len(q[i]) /\ s[n + 1] = q[i][(n + 1) - a[i]]
  BY <1>1, <1>3 DEF Laid
<1>5. i \in Filled(g, d)
  <2>1. SUFFICES ASSUME g.bins[i] \notin UsedBins(g, d) PROVE FALSE
    BY <1>1 DEF Filled
  <2>2. q[i] = <<>>
    <3>1. i \in DOMAIN g.bins
      BY <1>1 DEF WellFormed
    <3> QED BY <2>1, <3>1 DEF q, Blocks
  <2>3. Len(q[i]) = 0
    BY <2>2
  <2> QED BY <1>4, <2>3
<1> DEFINE f == Final(g, d, i)
           k == Size(g, d, i)
           e == Gone(g, d, n, i)
<1>6. /\ k \in Nat \ {0} /\ a[i] \in Nat /\ Len(q[i]) = k + k
      /\ \A j \in 1..k : /\ q[i][j] = MoveOf(f[j], ExtractFrom, StagingBin(g, d))
                         /\ q[i][k + j] = MoveOf(f[(k - j) + 1], StagingBin(g, d), g.bins[i])
  BY <1>5, FilledIs DEF q, a, s
<1>7. e = n - a[i]
  BY DEF Gone, a
<1> HIDE DEF f, k, e
<1>8. e \in 0..((k + k) - 1) /\ (n + 1) - a[i] = e + 1
  <2>1. n \in Int /\ a[i] \in Int /\ k \in Int
    BY <1>6
  <2>2. (n + 1) - a[i] \in 1..(k + k)
    BY <1>4, <1>6
  <2>3. (n + 1) - a[i] = e + 1
    BY <1>7, <2>1
  <2>4. e \in Int
    BY <1>7, <2>1
  <2> QED BY <2>1, <2>2, <2>3, <2>4
<1>9. s[n + 1] = q[i][e + 1]
  BY <1>4, <1>8
<1>10. ASSUME e < k PROVE s[n + 1] = MoveOf(f[e + 1], ExtractFrom, StagingBin(g, d))
  <2>1. e + 1 \in 1..k
    BY <1>6, <1>8, <1>10
  <2> QED BY <1>6, <1>9, <2>1
<1>11. ASSUME e >= k
       PROVE  s[n + 1] = MoveOf(f[(k + k) - e], StagingBin(g, d), g.bins[i])
  <2> DEFINE j == (e + 1) - k
  <2>1. j \in 1..k /\ k + j = e + 1 /\ (k - j) + 1 = (k + k) - e
    BY <1>6, <1>8, <1>11
  <2> HIDE DEF j
  <2> QED BY <1>6, <1>9, <2>1
<1>12. Current(g, d, n, i)
  BY <1>5, <1>8, <1>10, <1>11 DEF Current, f, k, e, s
<1> QED BY <1>12

Distinct(f) == \A i, j \in 1..Len(f) : f[i] = f[j] => i = j

Missing(f, c) == \A i \in 1..Len(f) : f[i] # c

Above(s, c, u) == \A t \in 1..u : s[t] # c

SameTop(r, s, u) == u <= Len(r) /\ \A t \in 1..u : r[t] = s[t]

(* What lies above a card stays on top when that card is taken out.        *)
LEMMA KeptAbove ==
  ASSUME NEW B, NEW st \in [B -> Seq(Cards)], NEW b \in B,
         NEW k \in 1..Len(st[b]), NEW mid, Taken(B, st, b, k, mid),
         NEW x \in B, NEW u \in 0..Len(st[x]), Above(st[x], st[b][k], u)
  PROVE  SameTop(mid[x], st[x], u)
<1>1. CASE x # b
  BY <1>1 DEF Taken, SameTop
<1>2. CASE x = b
  <2>1. Len(st[b]) \in Nat /\ st[b] \in Seq(Cards)
    OBVIOUS
  <2>2. u < k
    BY <1>2, <2>1 DEF Above
  <2>3. /\ Len(mid[b]) = Len(st[b]) - 1
        /\ \A i \in 1..(Len(st[b]) - 1) :
             mid[b][i] = IF i < k THEN st[b][i] ELSE st[b][i + 1]
    BY DEF Taken
  <2> QED BY <1>2, <2>1, <2>2, <2>3 DEF SameTop
<1> QED BY <1>1, <1>2

LEMMA CountsAre ==
  ASSUME NEW n \in Nat, NEW e \in Int
  PROVE  /\ e \in n..(n + n) => Waiting(e, n) = (n + n) - e /\ Placed(e, n) = e - n
         /\ e >= n + n => Placed(e, n) = n
<1>1. CASE e <= n
  BY <1>1 DEF Waiting, Placed
<1>2. CASE e > n
  BY <1>2 DEF Waiting, Placed
<1> QED BY <1>1, <1>2

(* One more card of the block on the staging stack, ...                    *)
LEMMA ExtractedOn ==
  ASSUME NEW B, NEW st \in [B -> Seq(Cards)], NEW b \in B,
         NEW k \in 1..Len(st[b]), NEW mid, Taken(B, st, b, k, mid),
         NEW S \in B, NEW x \in B, x # S,
         NEW new, PutOn(B, mid, S, st[b][k], new),
         NEW f \in Seq(Cards), Distinct(f),
         NEW e \in 0..(Len(f) - 1), st[b][k] = f[e + 1],
         BlockAt(st[S], st[x], f, e)
  PROVE  BlockAt(new[S], new[x], f, e + 1)
<1>1. Len(f) \in Nat /\ e \in Nat /\ e < Len(f)
  OBVIOUS
<1>2. TopReversed(st[S], f, e)
  BY <1>1 DEF BlockAt, Waiting
<1>3. e <= Len(st[S]) /\ \A t \in 1..e : st[S][t] = f[(e - t) + 1]
  BY <1>2 DEF TopReversed
<1>4. Len(st[S]) \in Nat /\ e \in 0..Len(st[S])
  BY <1>1, <1>3
<1>5. Above(st[S], st[b][k], e)
  <2>1. SUFFICES ASSUME NEW t \in 1..e PROVE st[S][t] # st[b][k]
    BY DEF Above
  <2>2. (e - t) + 1 \in 1..Len(f) /\ e + 1 \in 1..Len(f) /\ (e - t) + 1 # e + 1
    BY <1>1, <2>1
  <2> QED BY <1>3, <2>1, <2>2 DEF Distinct
<1>6. e <= Len(mid[S]) /\ \A t \in 1..e : mid[S][t] = st[S][t]
  <2>1. SameTop(mid[S], st[S], e)
    BY <1>4, <1>5, KeptAbove
  <2> QED BY <2>1 DEF SameTop
<1>7. /\ new \in [B -> Seq(Cards)] /\ mid \in [B -> Seq(Cards)]
      /\ Len(new[S]) = Len(mid[S]) + 1 /\ new[S][1] = f[e + 1]
      /\ \A i \in 1..Len(mid[S]) : new[S][i + 1] = mid[S][i]
  BY DEF PutOn, Taken
<1>8. Len(mid[S]) \in Nat /\ Len(new[x]) \in Nat
  BY <1>7
<1>9. ASSUME NEW t \in 1..(e + 1) PROVE new[S][t] = f[((e + 1) - t) + 1]
  <2>1. CASE t = 1
    BY <1>1, <1>7, <2>1
  <2>2. CASE t # 1
    <3> DEFINE i == t - 1
    <3>1. i \in 1..e /\ t = i + 1 /\ ((e + 1) - t) + 1 = (e - i) + 1
      <4>1. t \in 1..(e + 1) /\ t \in Int /\ e \in Int
        BY <1>1, <1>9
      <4> QED BY <2>2, <4>1
    <3>2. i \in 1..Len(mid[S])
      BY <1>1, <1>6, <1>8, <3>1
    <3> HIDE DEF i
    <3>3. new[S][t] = mid[S][i] /\ mid[S][i] = st[S][i] /\ st[S][i] = f[(e - i) + 1]
      BY <1>3, <1>6, <1>7, <3>1, <3>2
    <3> QED BY <3>1, <3>3
  <2> QED BY <2>1, <2>2
<1>10. TopReversed(new[S], f, e + 1) /\ Waiting(e + 1, Len(f)) = e + 1
  BY <1>1, <1>6, <1>7, <1>8, <1>9 DEF TopReversed, Waiting
<1>11. e + 1 >= Len(f) => Placed(e + 1, Len(f)) = 0
  BY <1>1 DEF Placed
<1>12. TopLast(new[x], f, 0)
  BY <1>8 DEF TopLast
<1> QED BY <1>10, <1>11, <1>12 DEF BlockAt

(* ... one more from there on its bin, ...                                 *)
LEMMA TransferredOn ==
  ASSUME NEW B, NEW st \in [B -> Seq(Cards)], NEW S \in B, 1 \in 1..Len(st[S]),
         NEW mid, Taken(B, st, S, 1, mid),
         NEW x \in B, x # S,
         NEW new, PutOn(B, mid, x, st[S][1], new),
         NEW f \in Seq(Cards), NEW e \in Len(f)..((Len(f) + Len(f)) - 1),
         BlockAt(st[S], st[x], f, e)
  PROVE  BlockAt(new[S], new[x], f, e + 1)
<1> DEFINE n == Len(f)
           w == (n + n) - e
<1>1. n \in Nat /\ e \in Nat /\ e >= n /\ w \in 1..n /\ w = (n + n) - e
  OBVIOUS
<1> HIDE DEF w
<1>2. TopReversed(st[S], f, w) /\ TopLast(st[x], f, e - n)
  <2>1. e \in 0..(n + n) /\ e \in n..(n + n)
    BY <1>1
  <2>2. Waiting(e, n) = w
    BY <1>1, <2>1, CountsAre
  <2>3. Placed(e, n) = e - n
    BY <1>1, <2>1, CountsAre
  <2> QED BY <1>1, <2>1, <2>2, <2>3 DEF BlockAt
<1>3. /\ w <= Len(st[S]) /\ \A t \in 1..w : st[S][t] = f[(w - t) + 1]
      /\ e - n <= Len(st[x]) /\ \A t \in 1..(e - n) : st[x][t] = f[(n - (e - n)) + t]
  BY <1>2 DEF TopReversed, TopLast
<1>4. /\ new \in [B -> Seq(Cards)] /\ mid \in [B -> Seq(Cards)]
      /\ Len(mid[S]) = Len(st[S]) - 1 /\ mid[x] = st[x] /\ new[S] = mid[S]
      /\ Len(new[x]) = Len(st[x]) + 1 /\ new[x][1] = st[S][1]
      /\ \A i \in 1..Len(st[x]) : new[x][i + 1] = st[x][i]
  BY DEF PutOn, Taken
<1>5. Len(st[S]) \in Nat /\ Len(st[x]) \in Nat
  OBVIOUS
<1>6. \A i \in 1..(Len(st[S]) - 1) : mid[S][i] = st[S][i + 1]
  <2>1. \A i \in 1..(Len(st[S]) - 1) :
          mid[S][i] = IF i < 1 THEN st[S][i] ELSE st[S][i + 1]
    BY DEF Taken
  <2> QED BY <1>5, <2>1
<1>7. TopReversed(new[S], f, w - 1)
  <2>1. w - 1 <= Len(new[S])
    BY <1>1, <1>3, <1>4, <1>5
  <2>2. ASSUME NEW t \in 1..(w - 1) PROVE new[S][t] = f[((w - 1) - t) + 1]
    <3>1. t \in 1..(Len(st[S]) - 1) /\ t + 1 \in 1..w
          /\ ((w - 1) - t) + 1 = (w - (t + 1)) + 1
      BY <1>1, <1>3, <1>5, <2>2
    <3>2. new[S][t] = st[S][t + 1] /\ st[S][t + 1] = f[(w - (t + 1)) + 1]
      BY <1>3, <1>4, <1>6, <3>1
    <3> QED BY <3>1, <3>2
  <2> QED BY <2>1, <2>2 DEF TopReversed
<1>8. TopLast(new[x], f, (e - n) + 1)
  <2>1. (e - n) + 1 <= Len(new[x])
    BY <1>1, <1>3, <1>4, <1>5
  <2>2. ASSUME NEW t \in 1..((e - n) + 1)
        PROVE  new[x][t] = f[(n - ((e - n) + 1)) + t]
    <3>1. CASE t = 1
      <4>1. (n - ((e - n) + 1)) + t = w /\ (w - 1) + 1 = w /\ 1 \in 1..w
        BY <1>1, <3>1
      <4> QED BY <1>3, <1>4, <3>1, <4>1
    <3>2. CASE t # 1
      <4> DEFINE i == t - 1
      <4>1. /\ i \in 1..(e - n) /\ t = i + 1
            /\ (n - ((e - n) + 1)) + t = (n - (e - n)) + i
        BY <1>1, <2>2, <3>2
      <4>2. i \in 1..Len(st[x])
        BY <1>1, <1>3, <1>5, <4>1
      <4> HIDE DEF i
      <4>3. new[x][t] = st[x][i] /\ st[x][i] = f[(n - (e - n)) + i]
        BY <1>3, <1>4, <4>1, <4>2
      <4> QED BY <4>1, <4>3
    <3> QED BY <3>1, <3>2
  <2> QED BY <2>1, <2>2 DEF TopLast
<1>9. /\ e + 1 \in 0..(n + n) => Waiting(e + 1, n) = w - 1
      /\ Placed(e + 1, n) = (e - n) + 1
  <2>1. e + 1 <= n + n /\ ~(e + 1 <= n) /\ (n + n) - (e + 1) = w - 1
        /\ (e + 1) - n = (e - n) + 1
    BY <1>1
  <2> QED BY <2>1 DEF Waiting, Placed
<1> QED BY <1>7, <1>8, <1>9 DEF BlockAt

(* ... and what is done stays, ...                                         *)
LEMMA DoneStays ==
  ASSUME NEW B, NEW st \in [B -> Seq(Cards)], NEW b \in B,
         NEW k \in 1..Len(st[b]), NEW mid, Taken(B, st, b, k, mid),
         NEW S \in B, NEW x \in B, NEW y \in B, y # x,
         NEW new, PutOn(B, mid, y, st[b][k], new),
         NEW f \in Seq(Cards), Missing(f, st[b][k]),
         NEW e \in Int, e >= Len(f) + Len(f),
         BlockAt(st[S], st[x], f, e)
  PROVE  BlockAt(new[S], new[x], f, e + 1)
<1> DEFINE n == Len(f)
<1>1. n \in Nat /\ e >= n /\ ~(e + 1 \in 0..(n + n)) /\ ~(e + 1 <= n + n)
  OBVIOUS
<1>2. Placed(e, n) = n /\ Placed(e + 1, n) = n
  <2>1. e >= n + n /\ e + 1 >= n + n /\ e + 1 \in Int
    OBVIOUS
  <2> QED BY <1>1, <2>1, CountsAre
<1>3. TopLast(st[x], f, n)
  BY <1>1, <1>2 DEF BlockAt
<1>4. n <= Len(st[x]) /\ \A t \in 1..n : st[x][t] = f[t]
  <2>1. n <= Len(st[x]) /\ \A t \in 1..n : st[x][t] = f[(n - n) + t]
    BY <1>3 DEF TopLast
  <2>2. \A t \in 1..n : (n - n) + t = t
    BY <1>1
  <2> QED BY <2>1, <2>2
<1>5. n \in 0..Len(st[x]) /\ Above(st[x], st[b][k], n)
  BY <1>1, <1>4 DEF Missing, Above
<1>6. n <= Len(mid[x]) /\ \A t \in 1..n : mid[x][t] = st[x][t]
  <2> HIDE DEF n
  <2>1. SameTop(mid[x], st[x], n)
    BY <1>5, KeptAbove
  <2> QED BY <2>1 DEF SameTop
<1>7. new[x] = mid[x]
  BY DEF PutOn
<1>8. TopLast(new[x], f, n)
  <2>1. \A t \in 1..n : (n - n) + t = t
    BY <1>1
  <2> QED BY <1>4, <1>6, <1>7, <2>1 DEF TopLast
<1> QED BY <1>1, <1>2, <1>8 DEF BlockAt

(* ... and what has not begun demands nothing.                             *)
LEMMA NotBegun ==
  ASSUME NEW s \in Seq(Cards), NEW t, NEW f \in Seq(Cards), Len(f) # 0,
         NEW e \in Int, e <= 0
  PROVE  BlockAt(s, t, f, e)
<1>1. Len(f) \in Nat /\ ~(e >= Len(f)) /\ Len(s) \in Nat
  OBVIOUS
<1>2. ASSUME e \in 0..(Len(f) + Len(f)) PROVE Waiting(e, Len(f)) = 0
  BY <1>1, <1>2 DEF Waiting
<1>3. TopReversed(s, f, 0)
  BY <1>1 DEF TopReversed
<1> QED BY <1>1, <1>2, <1>3 DEF BlockAt

(* No card is announced twice.                                             *)
LEMMA ProvisionedOnce ==
  ASSUME NEW g, NEW cs, Listed(cs), NEW d, Provisioned(g, cs, d)
  PROVE  Once(d)
<1>1. PICK w : Holds(g, cs, d, Len(cs), w) /\ InOrder(g, cs, d, Len(cs))
  BY DEF Provisioned
<1>2. /\ DOMAIN d = Provisionable(g)
      /\ \A b \in Provisionable(g) : d[b] \in Seq(Cards)
      /\ \A b \in Provisionable(g) : \A k \in 1..Len(d[b]) :
           \E j \in 1..Len(cs) : w[j] = b /\ d[b][k] = cs[j]
  BY <1>1 DEF Holds
<1>3. SUFFICES ASSUME NEW b \in Provisionable(g), NEW c \in Provisionable(g),
                      NEW k \in 1..Len(d[b]), NEW l \in 1..Len(d[c]), d[b][k] = d[c][l]
               PROVE  b = c /\ k = l
  BY <1>2 DEF Once
<1>4. PICK j \in 1..Len(cs) : w[j] = b /\ d[b][k] = cs[j]
  BY <1>2
<1>5. PICK h \in 1..Len(cs) : w[h] = c /\ d[c][l] = cs[h]
  BY <1>2
<1>6. j = h
  <2>1. \A y, z \in 1..Len(cs) : cs[y] = cs[z] => y = z
    BY DEF Listed, IsInjective
  <2> QED BY <1>3, <1>4, <1>5, <2>1
<1>7. b = c
  BY <1>4, <1>5, <1>6
<1>8. \A p, q \in 1..Len(d[b]) : \A y, z \in 1..Len(cs) :
        p < q /\ d[b][p] = cs[y] /\ d[b][q] = cs[z] => y < z
  BY <1>1 DEF InOrder
<1>9. Len(d[b]) \in Nat /\ k \in Int /\ l \in Int /\ k \in 1..Len(d[b]) /\ l \in 1..Len(d[b])
  BY <1>2, <1>7
<1>10. ~(k < l) /\ ~(l < k)
  BY <1>3, <1>4, <1>5, <1>6, <1>7, <1>8, <1>9
<1> QED BY <1>7, <1>9, <1>10

(* One block comes after the other.                                        *)
LEMMA BlocksApart ==
  ASSUME NEW g, WellFormed(g), NEW d \in Contents(g), d # Infeasible,
         MovesOf(g, d) # Infeasible, NEW n \in Nat,
         NEW i, Current(g, d, n, i), NEW j \in Filled(g, d), j # i
  PROVE  \/ Gone(g, d, n, j) >= Size(g, d, j) + Size(g, d, j)
         \/ Gone(g, d, n, j) + 1 <= 0
<1> DEFINE q == Blocks(g, d)
           a == Start(g, d)
<1>1. i \in Filled(g, d) /\ Gone(g, d, n, i) \in 0..((Size(g, d, i) + Size(g, d, i)) - 1)
  BY DEF Current
<1>2. /\ i \in 1..Len(g.bins) /\ a[i] \in Nat /\ Len(q[i]) = Size(g, d, i) + Size(g, d, i)
      /\ Size(g, d, i) \in Nat
  BY <1>1, FilledIs
<1>3. /\ j \in 1..Len(g.bins) /\ a[j] \in Nat /\ Len(q[j]) = Size(g, d, j) + Size(g, d, j)
      /\ Size(g, d, j) \in Nat
  BY FilledIs
<1>4. Len(q) = Len(g.bins) /\ \A x, y \in 1..Len(q) : x < y => a[x] + Len(q[x]) <= a[y]
  BY StartIs, BlocksAre DEF Laid
<1>5. Gone(g, d, n, i) = n - a[i] /\ Gone(g, d, n, j) = n - a[j]
  BY DEF Gone
<1> HIDE DEF a, q
<1>6. n >= a[i] /\ n - a[i] < Len(q[i])
  BY <1>1, <1>2, <1>5
<1>7. CASE i < j
  <2>1. a[i] + Len(q[i]) <= a[j]
    BY <1>2, <1>3, <1>4, <1>7
  <2>2. n + 1 <= a[j]
    BY <1>2, <1>3, <1>6, <2>1
  <2> QED BY <1>3, <1>5, <2>2
<1>8. CASE j < i
  <2>1. a[j] + Len(q[j]) <= a[i]
    BY <1>2, <1>3, <1>4, <1>8
  <2>2. n - a[j] >= Len(q[j])
    BY <1>2, <1>3, <1>6, <2>1
  <2> QED BY <1>3, <1>5, <2>2
<1> QED BY <1>2, <1>3, <1>7, <1>8

(* What is on the staging bin when a card is to leave it.                  *)
LEMMA TopIs ==
  ASSUME NEW s \in Seq(Cards), NEW t, NEW f \in Seq(Cards),
         NEW e \in Len(f)..((Len(f) + Len(f)) - 1), BlockAt(s, t, f, e)
  PROVE  1 \in 1..Len(s) /\ s[1] = f[(Len(f) + Len(f)) - e]
<1> DEFINE n == Len(f)
           w == (n + n) - e
<1>1. n \in Nat /\ e \in n..(n + n) /\ w \in 1..n /\ e \in 0..(n + n) /\ (w - 1) + 1 = w
  OBVIOUS
<1>2. Waiting(e, n) = w
  BY <1>1, CountsAre
<1>3. w <= Len(s) /\ \A x \in 1..w : s[x] = f[(w - x) + 1]
  BY <1>1, <1>2 DEF BlockAt, TopReversed
<1>4. 1 \in 1..w /\ Len(s) \in Nat
  BY <1>1
<1> HIDE DEF w
<1>5. s[1] = f[w]
  BY <1>1, <1>3, <1>4
<1>6. 1 \in 1..Len(s)
  BY <1>1, <1>3, <1>4
<1> QED BY <1>5, <1>6 DEF w

(* The next move takes the card it names, and puts it where it says.       *)
LEMMA CarriedStep ==
  ASSUME NEW g, WellFormed(g), NEW d \in Contents(g), d # Infeasible,
         MovesOf(g, d) # Infeasible, Once(d), StagedApart(g, d),
         NEW st \in [BinSet(g) -> Seq(Cards)], NEW n \in Nat,
         CarriedAt(g, d, st, n), NEW i, Current(g, d, n, i),
         NEW b \in BinSet(g), NEW k \in 1..Len(st[b]),
         NEW mid, Taken(BinSet(g), st, b, k, mid),
         NEW new, PutOn(BinSet(g), mid, MovesOf(g, d)[n + 1].to, st[b][k], new),
         MovesOf(g, d)[n + 1].from = ExtractFrom
           => st[b][k] = MovesOf(g, d)[n + 1].card,
         MovesOf(g, d)[n + 1].from # ExtractFrom
           => b = MovesOf(g, d)[n + 1].from /\ k = 1
  PROVE  CarriedAt(g, d, new, n + 1)
<1> DEFINE B == BinSet(g)
           S == StagingBin(g, d)
           m == MovesOf(g, d)[n + 1]
           f == Final(g, d, i)
           x == g.bins[i]
           e == Gone(g, d, n, i)
           c == st[b][k]
<1>1. i \in Filled(g, d) /\ e \in 0..((Len(f) + Len(f)) - 1)
  BY DEF Current, Size
<1>2. /\ e < Len(f) => m = MoveOf(f[e + 1], ExtractFrom, S)
      /\ e >= Len(f) => m = MoveOf(f[(Len(f) + Len(f)) - e], S, x)
  BY DEF Current, Size
<1>3. f \in Seq(Cards) /\ Len(f) \in Nat /\ S \in B /\ x \in B /\ S # ExtractFrom
  BY <1>1, FilledIs DEF Size
<1>4. \A j \in Filled(g, d) : /\ g.bins[j] \in UsedBins(g, d) /\ g.bins[j] # S
                              /\ g.bins[j] \in DOMAIN d
  BY DEF Filled, StagedApart, UsedBins, Contents
<1>5. \A j \in Filled(g, d) : \A p \in 1..Len(f), r \in 1..Len(Final(g, d, j)) :
        f[p] = Final(g, d, j)[r] => x = g.bins[j] /\ p = r
  BY <1>1, <1>4 DEF Once, Final
<1>6. BlockAt(st[S], st[x], f, e)
  BY <1>1 DEF CarriedAt
<1>7. e \in Int
  BY <1>3, <1>1
<1> HIDE DEF B, S, m, f, x, e
<1>8. /\ BlockAt(new[S], new[x], f, e + 1)
      /\ \E p \in 1..Len(f) : c = f[p]
      /\ m.to \in {S, x}
  <2>1. CASE e < Len(f)
    <3>1. m.from = ExtractFrom /\ m.card = f[e + 1] /\ m.to = S
      BY <1>2, <2>1 DEF MoveOf
    <3>2. c = f[e + 1] /\ e \in 0..(Len(f) - 1) /\ e + 1 \in 1..Len(f)
      BY <1>1, <1>3, <2>1, <3>1 DEF m
    <3>3. PutOn(B, mid, S, c, new) /\ Taken(B, st, b, k, mid) /\ x # S /\ b \in B
          /\ st \in [B -> Seq(Cards)] /\ Distinct(f)
      BY <1>1, <1>4, <1>5, <3>1 DEF B, m, x, f, Distinct
    <3>4. BlockAt(new[S], new[x], f, e + 1)
      BY <1>3, <1>6, <3>2, <3>3, ExtractedOn
    <3> QED BY <3>1, <3>2, <3>4
  <2>2. CASE e >= Len(f)
    <3>1. m.from = S /\ m.to = x
      BY <1>2, <2>2 DEF MoveOf
    <3>2. b = S /\ k = 1
      BY <1>3, <3>1 DEF m
    <3>3. e \in Len(f)..((Len(f) + Len(f)) - 1)
          /\ (Len(f) + Len(f)) - e \in 1..Len(f)
      BY <1>1, <1>3, <1>7, <2>2
    <3>4. PutOn(B, mid, x, st[S][1], new) /\ Taken(B, st, S, 1, mid) /\ x # S
          /\ st \in [B -> Seq(Cards)] /\ 1 \in 1..Len(st[S])
      BY <1>1, <1>4, <3>1, <3>2 DEF B, m, x
    <3>5. BlockAt(new[S], new[x], f, e + 1)
      BY <1>3, <1>6, <3>3, <3>4, TransferredOn
    <3>6. st[S] \in Seq(Cards)
      BY <1>3, <3>4
    <3>7. st[S][1] = f[(Len(f) + Len(f)) - e]
      BY <1>3, <1>6, <3>3, <3>6, TopIs
    <3> QED BY <3>1, <3>2, <3>3, <3>5, <3>7
  <2> QED BY <1>3, <1>7, <2>1, <2>2
<1>9. ASSUME NEW j \in Filled(g, d)
      PROVE  BlockAt(new[S], new[g.bins[j]], Final(g, d, j), Gone(g, d, n, j) + 1)
  <2> DEFINE y == g.bins[j]
             h == Final(g, d, j)
  <2>1. h \in Seq(Cards) /\ Len(h) \in Nat \ {0} /\ y \in B /\ y # S /\ Len(h) = Size(g, d, j)
        /\ j \in 1..Len(g.bins)
    BY <1>4, <1>9, FilledIs DEF Size, B
  <2>2. CASE j = i
    BY <1>8, <2>2 DEF f, x, e
  <2>3. CASE j # i
    <3>1. y # x
      <4>1. i \in 1..Len(g.bins)
        BY <1>1 DEF Filled
      <4>2. i \in DOMAIN g.bins /\ j \in DOMAIN g.bins
        BY <2>1, <4>1 DEF WellFormed
      <4>3. IsInjective(g.bins)
        BY DEF WellFormed
      <4> QED BY <2>3, <4>2, <4>3 DEF IsInjective, x
    <3>2. BlockAt(st[S], st[y], h, Gone(g, d, n, j))
      BY <1>9 DEF CarriedAt, S
    <3>3. Missing(h, c)
      BY <1>5, <1>8, <1>9, <3>1 DEF Missing
    <3>4. Gone(g, d, n, j) \in Int
      <4>1. Start(g, d)[j] \in Nat
        BY <1>9, FilledIs
      <4> QED BY <4>1 DEF Gone
    <3>5. \/ Gone(g, d, n, j) >= Len(h) + Len(h)
          \/ Gone(g, d, n, j) + 1 <= 0
      BY <1>9, <2>1, <2>3, BlocksApart
    <3>6. PutOn(B, mid, m.to, c, new) /\ Taken(B, st, b, k, mid) /\ b \in B
          /\ st \in [B -> Seq(Cards)] /\ m.to \in B /\ m.to # y
      BY <1>3, <1>8, <2>1, <3>1 DEF B, m
    <3> HIDE DEF y, h
    <3>7. CASE Gone(g, d, n, j) >= Len(h) + Len(h)
      <4> DEFINE e0 == Gone(g, d, n, j)
                 z == m.to
      <4> HIDE DEF e0, z
      <4>1. BlockAt(new[S], new[y], h, e0 + 1)
        BY <1>3, <2>1, <3>2, <3>3, <3>4, <3>6, <3>7, DoneStays DEF e0, z
      <4> QED BY <4>1 DEF e0, y, h
    <3>8. CASE Gone(g, d, n, j) + 1 <= 0
      <4>1. new[S] \in Seq(Cards)
        BY <1>3, <3>6 DEF PutOn
      <4>2. Gone(g, d, n, j) + 1 \in Int /\ Len(h) # 0
        BY <2>1, <3>4
      <4>3. BlockAt(new[S], new[y], h, Gone(g, d, n, j) + 1)
        BY <2>1, <3>8, <4>1, <4>2, NotBegun
      <4> QED BY <4>3 DEF y, h
    <3> QED BY <3>5, <3>7, <3>8
  <2> QED BY <2>2, <2>3
<1>10. ASSUME NEW j \in Filled(g, d) PROVE Gone(g, d, n + 1, j) = Gone(g, d, n, j) + 1
  <2> DEFINE a == Start(g, d)[j]
  <2>1. a \in Nat
    BY <1>10, FilledIs
  <2>2. Gone(g, d, n + 1, j) = (n + 1) - a /\ Gone(g, d, n, j) = n - a
    BY DEF Gone
  <2> HIDE DEF a
  <2> QED BY <2>1, <2>2
<1> QED BY <1>9, <1>10 DEF CarriedAt, S

-----------------------------------------------------------------------------
(* The robot carrying out a plan staged on a bin no card ends in.          *)

Carried ==
  done # -1 /\ StagedApart(cfg, dest) => CarriedAt(cfg, dest, stacks, done)

(* What is known of a plan that was made.                                  *)
LEMMA PlanIs ==
  ASSUME Computed, Stacked, done # -1
  PROVE  /\ WellFormed(cfg) /\ dest \in Contents(cfg) /\ dest # Infeasible
         /\ MovesOf(cfg, dest) # Infeasible /\ moves = MovesOf(cfg, dest)
         /\ Once(dest) /\ stacks \in [BinSet(cfg) -> Seq(Cards)]
         /\ Len(moves) \in Nat /\ done \in 0..Len(moves)
<1>1. dest # Infeasible /\ MovesOf(cfg, dest) # Infeasible /\ moves = MovesOf(cfg, dest)
  BY DEF Stacked
<1>2. Provisioned(cfg, cards, dest) /\ WellFormed(cfg) /\ dest \in Contents(cfg)
      /\ Listed(cards)
  BY <1>1, ComputedIs
<1>3. Once(dest)
  BY <1>2, ProvisionedOnce
<1>4. Len(moves) \in Nat /\ done \in 0..Len(moves)
  <2>1. Len(moves) \in Nat
    BY DEF Stacked
  <2> QED BY <2>1 DEF Stacked
<1> QED BY <1>1, <1>2, <1>3, <1>4 DEF Stacked

(* Every move carries the plan one step further.                           *)
LEMMA CarriedOn ==
  ASSUME Computed, Stacked, Carried, NEW b, NEW k, Moved(b, k),
         moves[done + 1].from = ExtractFrom => stacks[b][k] = moves[done + 1].card,
         moves[done + 1].from # ExtractFrom => b = moves[done + 1].from /\ k = 1
  PROVE  Carried'
<1>1. /\ done \in 0..(Len(moves) - 1) /\ b \in BinSet(cfg) /\ k \in 1..Len(stacks[b])
      /\ done' = done + 1 /\ cfg' = cfg /\ dest' = dest /\ done # -1 /\ done \in Nat
  BY DEF Moved
<1>2. /\ WellFormed(cfg) /\ dest \in Contents(cfg) /\ dest # Infeasible
      /\ MovesOf(cfg, dest) # Infeasible /\ moves = MovesOf(cfg, dest)
      /\ Once(dest) /\ stacks \in [BinSet(cfg) -> Seq(Cards)]
  BY <1>1, PlanIs
<1>3. SUFFICES ASSUME StagedApart(cfg, dest)
               PROVE  CarriedAt(cfg, dest, stacks', done + 1)
  BY <1>1 DEF Carried
<1>4. CarriedAt(cfg, dest, stacks, done)
  BY <1>1, <1>3 DEF Carried
<1>5. PICK i : Current(cfg, dest, done, i)
  BY <1>1, <1>2, CurrentIs
<1>6. PICK mid : /\ Taken(BinSet(cfg), stacks, b, k, mid)
                 /\ PutOn(BinSet(cfg), mid, moves[done + 1].to, stacks[b][k], stacks')
  BY MovedIs
<1>7. /\ PutOn(BinSet(cfg), mid, MovesOf(cfg, dest)[done + 1].to, stacks[b][k], stacks')
      /\ MovesOf(cfg, dest)[done + 1].from = ExtractFrom
           => stacks[b][k] = MovesOf(cfg, dest)[done + 1].card
      /\ MovesOf(cfg, dest)[done + 1].from # ExtractFrom
           => b = MovesOf(cfg, dest)[done + 1].from /\ k = 1
  BY <1>2, <1>6
<1> DEFINE new == stacks'
<1> HIDE DEF new
<1>8. CarriedAt(cfg, dest, new, done + 1)
  BY <1>1, <1>2, <1>3, <1>4, <1>5, <1>6, <1>7, CarriedStep DEF new
<1> QED BY <1>8 DEF new

LEMMA CarriedAlways == Spec => []Carried
<1>1. Init => Carried
  BY DEF Init, Carried
<1>2. Computed /\ Stacked /\ Stacked' /\ Computed' /\ Carried /\ [Next]_vars => Carried'
  <2> SUFFICES ASSUME Computed, Stacked, Stacked', Computed', Carried, [Next]_vars
               PROVE Carried'
    OBVIOUS
  <2>1. CASE MakePlan
    <3>1. /\ cfg' = cfg /\ dest' = dest /\ stacks' = stacks /\ done' = 0
          /\ MovesOf(cfg, dest) # Infeasible
      BY <2>1 DEF MakePlan
    <3>2. dest # Infeasible
      BY <3>1 DEF MovesOf
    <3>3. WellFormed(cfg) /\ dest \in Contents(cfg)
      BY <3>2, ComputedIs
    <3>4. ASSUME NEW i \in Filled(cfg, dest)
          PROVE  BlockAt(stacks[StagingBin(cfg, dest)], stacks[cfg.bins[i]],
                         Final(cfg, dest, i), Gone(cfg, dest, 0, i))
      <4>1. /\ Final(cfg, dest, i) \in Seq(Cards) /\ Len(Final(cfg, dest, i)) # 0
            /\ Start(cfg, dest)[i] \in Nat /\ StagingBin(cfg, dest) \in BinSet(cfg)
        BY <3>1, <3>2, <3>3, FilledIs DEF Size
      <4>2. Gone(cfg, dest, 0, i) \in Int /\ Gone(cfg, dest, 0, i) <= 0
        <5> DEFINE a == Start(cfg, dest)[i]
        <5>1. Gone(cfg, dest, 0, i) = 0 - a
          BY DEF Gone
        <5> HIDE DEF a
        <5> QED BY <4>1, <5>1 DEF a
      <4>3. stacks[StagingBin(cfg, dest)] \in Seq(Cards)
        BY <4>1 DEF Stacked
      <4> QED BY <4>1, <4>2, <4>3, NotBegun
    <3>5. CarriedAt(cfg, dest, stacks, 0)
      BY <3>4 DEF CarriedAt
    <3> QED BY <3>1, <3>5 DEF Carried
  <2>2. CASE Extract
    <3>1. PICK b, k : Moved(b, k) /\ stacks[b][k] = moves[done + 1].card
                      /\ moves[done + 1].from = ExtractFrom
      BY <2>2, ExtractIs
    <3> QED BY <3>1, CarriedOn
  <2>3. CASE Transfer
    <3>1. Moved(moves[done + 1].from, 1) /\ moves[done + 1].from # ExtractFrom
      BY <2>3, TransferIs
    <3> QED BY <3>1, CarriedOn
  <2>4. CASE UNCHANGED vars
    BY <2>4 DEF vars, Carried
  <2> QED BY <2>1, <2>2, <2>3, <2>4 DEF Next
<1> QED BY <1>1, <1>2, ComputedAlways, StackedAlways, PTL DEF Spec

(* When an available bin is left without a card, the plan stages there and *)
(* on no bin a card ends in (choose_staging_bin).                          *)
LEMMA ApartWhenBinLeft ==
  ASSUME NEW g, WellFormed(g), NEW d, Available(g) \ UsedBins(g, d) # {}
  PROVE  StagedApart(g, d)
<1> DEFINE U == Available(g) \ UsedBins(g, d)
<1>1. U \subseteq Range(g.bins) /\ U # {}
  BY DEF Available
<1>2. StagingBin(g, d) = First(g, U)
  BY <1>1 DEF StagingBin
<1> HIDE DEF U
<1>3. First(g, U) \in U
  BY <1>1, FirstIn
<1>4. First(g, U) \notin UsedBins(g, d)
  BY <1>3 DEF U
<1> QED BY <1>2, <1>4 DEF StagedApart

(* A move out of the staging bin finds the planned card on top, as long as *)
(* no card is to end in that bin: the block of moves that fills a bin puts *)
(* its cards on the staging bin in order and takes them from there in the  *)
(* opposite one (plan_moves_correctness_first).                            *)
THEOREM TopIsPlanned ==
  Spec => [](StagedApart(cfg, dest) => TopIsPlannedCard)
<1>1. Computed /\ Stacked /\ Carried => (StagedApart(cfg, dest) => TopIsPlannedCard)
  <2> SUFFICES ASSUME Computed, Stacked, Carried, StagedApart(cfg, dest),
                      done \in 0..(Len(moves) - 1),
                      moves[done + 1].from # ExtractFrom
               PROVE  /\ stacks[moves[done + 1].from] # <<>>
                      /\ Head(stacks[moves[done + 1].from]) = moves[done + 1].card
    BY DEF TopIsPlannedCard
  <2>1. /\ WellFormed(cfg) /\ dest \in Contents(cfg) /\ dest # Infeasible
        /\ MovesOf(cfg, dest) # Infeasible /\ moves = MovesOf(cfg, dest)
        /\ stacks \in [BinSet(cfg) -> Seq(Cards)]
        /\ done \in 0..(Len(MovesOf(cfg, dest)) - 1)
    BY PlanIs
  <2>2. PICK i : Current(cfg, dest, done, i)
    BY <2>1, CurrentIs
  <2> DEFINE S == StagingBin(cfg, dest)
             f == Final(cfg, dest, i)
             e == Gone(cfg, dest, done, i)
             m == moves[done + 1]
  <2>3. /\ i \in Filled(cfg, dest) /\ e \in 0..((Len(f) + Len(f)) - 1)
        /\ e < Len(f) => m = MoveOf(f[e + 1], ExtractFrom, S)
        /\ e >= Len(f) => m = MoveOf(f[(Len(f) + Len(f)) - e], S, cfg.bins[i])
    BY <2>1, <2>2 DEF Current, Size
  <2>4. f \in Seq(Cards) /\ S \in BinSet(cfg)
    BY <2>1, <2>3, FilledIs
  <2>5. BlockAt(stacks[S], stacks[cfg.bins[i]], f, e)
    BY <2>1, <2>3 DEF Carried, CarriedAt
  <2> HIDE DEF S, f, e, m
  <2>6. Len(f) \in Nat /\ e \in Int /\ stacks[S] \in Seq(Cards)
    BY <2>1, <2>3, <2>4
  <2>7. e >= Len(f)
    <3>1. ~(e < Len(f))
      BY <2>3 DEF MoveOf, m
    <3> QED BY <2>6, <3>1
  <2>8. e \in Len(f)..((Len(f) + Len(f)) - 1)
    BY <2>3, <2>6, <2>7
  <2>9. 1 \in 1..Len(stacks[S]) /\ stacks[S][1] = f[(Len(f) + Len(f)) - e]
    BY <2>4, <2>5, <2>6, <2>8, TopIs
  <2>10. stacks[S] # <<>> /\ Head(stacks[S]) = stacks[S][1]
    BY <2>6, <2>9
  <2>11. m.from = S /\ m.card = f[(Len(f) + Len(f)) - e]
    BY <2>3, <2>7 DEF MoveOf
  <2> QED BY <2>9, <2>10, <2>11 DEF m
<1> QED BY <1>1, ComputedAlways, StackedAlways, CarriedAlways, PTL

(* When the plan is carried out, the upper part of every destination bin   *)
(* is the sequence the plan announced (generate_plan's bins), as long as   *)
(* no card is to end in the staging bin.                                   *)
THEOREM PlacedAsPlanned ==
  Spec => [](StagedApart(cfg, dest) => PlacedAsAnnounced)
<1>1. Computed /\ Stacked /\ Carried => (StagedApart(cfg, dest) => PlacedAsAnnounced)
  <2> SUFFICES ASSUME Computed, Stacked, Carried, StagedApart(cfg, dest),
                      done = Len(moves), NEW b \in DOMAIN dest
               PROVE  IsPrefix(dest[b], stacks[b])
    BY DEF PlacedAsAnnounced
  <2>0. Len(moves) \in Nat /\ done # -1
    BY DEF Stacked
  <2>1. /\ WellFormed(cfg) /\ dest \in Contents(cfg) /\ dest # Infeasible
        /\ MovesOf(cfg, dest) # Infeasible /\ moves = MovesOf(cfg, dest)
        /\ stacks \in [BinSet(cfg) -> Seq(Cards)]
    BY <2>0, PlanIs
  <2>2. b \in Provisionable(cfg) /\ dest[b] \in Seq(Cards)
    BY <2>1 DEF Contents
  <2>3. b \in BinSet(cfg) /\ stacks[b] \in Seq(Cards) /\ Len(stacks[b]) \in Nat
    BY <2>1, <2>2 DEF Provisionable, Available, BinSet
  <2>4. CASE dest[b] = <<>>
    BY <2>3, <2>4 DEF IsPrefix
  <2>5. CASE dest[b] # <<>>
    <3>1. PICK i \in DOMAIN cfg.bins : cfg.bins[i] = b
      BY <2>2 DEF Provisionable, Available, Range
    <3>2. i \in Filled(cfg, dest)
      BY <2>1, <2>2, <2>5, <3>1 DEF Filled, UsedBins, WellFormed
    <3> DEFINE f == Final(cfg, dest, i)
               e == Gone(cfg, dest, done, i)
               a == Start(cfg, dest)[i]
    <3>3. BlockAt(stacks[StagingBin(cfg, dest)], stacks[b], f, e) /\ f = dest[b]
      BY <2>0, <2>1, <3>1, <3>2 DEF Carried, CarriedAt, Final
    <3>4. e >= Len(f) + Len(f) /\ e \in Int /\ Len(f) \in Nat
      <4>1. /\ Len(Blocks(cfg, dest)[i]) = Len(f) + Len(f) /\ a \in Nat
            /\ i \in 1..Len(cfg.bins) /\ Len(f) \in Nat
        BY <2>1, <3>2, FilledIs DEF Size
      <4>2. a + Len(Blocks(cfg, dest)[i]) <= Len(moves)
        <5>1. Laid(Blocks(cfg, dest), moves, Start(cfg, dest))
              /\ Len(Blocks(cfg, dest)) = Len(cfg.bins)
          BY <2>1, StartIs, BlocksAre
        <5> QED BY <4>1, <5>1 DEF Laid
      <4>3. e = Len(moves) - a
        BY DEF Gone
      <4> HIDE DEF a, e, f
      <4> QED BY <2>0, <4>1, <4>2, <4>3
    <3> HIDE DEF e, f, a
    <3>5. Placed(e, Len(f)) = Len(f) /\ e >= Len(f)
      BY <3>4, CountsAre
    <3>6. Len(f) <= Len(stacks[b])
          /\ \A t \in 1..Len(f) : stacks[b][t] = f[(Len(f) - Len(f)) + t]
      BY <3>3, <3>5 DEF BlockAt, TopLast
    <3>7. \A t \in 1..Len(f) : stacks[b][t] = f[t]
      <4>1. \A t \in 1..Len(f) : (Len(f) - Len(f)) + t = t
        BY <3>4
      <4> QED BY <3>6, <4>1
    <3> QED BY <2>2, <2>3, <3>3, <3>4, <3>6, <3>7 DEF IsPrefix
  <2> QED BY <2>4, <2>5
<1> QED BY <1>1, ComputedAlways, StackedAlways, CarriedAlways, PTL

-----------------------------------------------------------------------------
(* What it means that the key of one card is less than that of another.    *)

(* The first of the n parts in which q and r differ is less in q; no part  *)
(* differs.                                                                *)
Ahead(n, q, r) ==
  \E u \in 1..n : (\A j \in 1..(u - 1) : q[j] = r[j]) /\ KeyLess(q[u], r[u])

Alike(n, q, r) == \A j \in 1..n : q[j] = r[j]

Tells(k, l, m, o) ==
  /\ KeyLess(k \o m, l \o o) => KeyLess(k, l) \/ (k = l /\ KeyLess(m, o))
  /\ k \o m = l \o o => k = l /\ m = o

LEMMA ConcatTells ==
  ASSUME NEW k, NEW l, Comparable(k, l), NEW m, NEW o, Comparable(m, o)
  PROVE  Tells(k, l, m, o)
<1> DEFINE x == k \o m
           y == l \o o
           a == Len(k)
           b == Len(m)
<1>1. /\ k \in Seq(Seq(Int)) /\ l \in Seq(Seq(Int)) /\ Len(l) = a
      /\ m \in Seq(Seq(Int)) /\ o \in Seq(Seq(Int)) /\ Len(o) = b
      /\ a \in Nat /\ b \in Nat
  BY DEF Comparable
<1>2. /\ x \in Seq(Seq(Int)) /\ Len(x) = a + b
      /\ \A i \in 1..a : x[i] = k[i]
      /\ \A i \in 1..b : x[a + i] = m[i]
  BY <1>1, KeyConcat, Zenon
<1>3. /\ y \in Seq(Seq(Int)) /\ Len(y) = Len(l) + Len(o)
      /\ \A i \in 1..Len(l) : y[i] = l[i]
      /\ \A i \in 1..Len(o) : y[Len(l) + i] = o[i]
  BY <1>1, KeyConcat, Zenon
<1> HIDE DEF x, y
<1>4. \A z \in Seq(Seq(Int)) : z = [i \in 1..Len(z) |-> z[i]]
  OBVIOUS
<1>5. ASSUME \A i \in 1..a : k[i] = l[i] PROVE k = l
  <2>1. [i \in 1..Len(k) |-> k[i]] = [i \in 1..Len(l) |-> l[i]]
    BY <1>1, <1>5
  <2> QED BY <1>1, <1>4, <2>1
<1>6. ASSUME \A i \in 1..b : m[i] = o[i] PROVE m = o
  <2>1. [i \in 1..Len(m) |-> m[i]] = [i \in 1..Len(o) |-> o[i]]
    BY <1>1, <1>6
  <2> QED BY <1>1, <1>4, <2>1
<1>7. /\ DOMAIN k = 1..a /\ DOMAIN m = 1..b /\ DOMAIN x = 1..(a + b)
  BY <1>1, <1>2
<1> HIDE DEF a, b
<1>8. \A i \in 1..a : y[i] = l[i]
  BY <1>1, <1>3
<1>9. \A i \in 1..b : y[a + i] = o[i]
  BY <1>1, <1>3
<1>10. ASSUME KeyLess(x, y) PROVE KeyLess(k, l) \/ (k = l /\ KeyLess(m, o))
  <2>1. PICK i \in 1..(a + b) : (\A j \in 1..(i - 1) : x[j] = y[j]) /\ Less(x[i], y[i])
    BY <1>7, <1>10 DEF KeyLess
  <2>2. CASE i <= a
    <3>1. i \in 1..a /\ \A j \in 1..(i - 1) : j \in 1..a
      BY <1>1, <2>1, <2>2
    <3>2. (\A j \in 1..(i - 1) : k[j] = l[j]) /\ Less(k[i], l[i])
      BY <1>2, <1>8, <2>1, <3>1
    <3> QED BY <1>7, <3>1, <3>2 DEF KeyLess
  <2>3. CASE i > a
    <3> DEFINE h == i - a
    <3>1. /\ h \in 1..b /\ i = a + h
          /\ \A j \in 1..a : j \in 1..(i - 1)
          /\ \A j \in 1..(h - 1) : a + j \in 1..(i - 1) /\ j \in 1..b
      BY <1>1, <2>1, <2>3
    <3> HIDE DEF h
    <3>2. \A j \in 1..a : k[j] = l[j]
      BY <1>2, <1>8, <2>1, <3>1
    <3>3. \A j \in 1..(h - 1) : m[j] = o[j]
      BY <1>2, <1>9, <2>1, <3>1
    <3>4. Less(m[h], o[h])
      BY <1>2, <1>9, <2>1, <3>1
    <3> QED BY <1>5, <1>7, <3>1, <3>2, <3>3, <3>4 DEF KeyLess
  <2> QED BY <1>1, <2>1, <2>2, <2>3
<1>11. ASSUME x = y PROVE k = l /\ m = o
  <2>1. \A i \in 1..a : k[i] = l[i]
    BY <1>2, <1>8, <1>11
  <2>2. \A i \in 1..b : m[i] = o[i]
    BY <1>2, <1>9, <1>11
  <2> QED BY <1>5, <1>6, <2>1, <2>2
<1> QED BY <1>10, <1>11 DEF x, y, Tells

LEMMA FlattenTells ==
  ASSUME NEW p \in Seq(Seq(Seq(Int))), NEW q \in Seq(Seq(Seq(Int))),
         Len(p) = Len(q), \A i \in 1..Len(p) : Comparable(p[i], q[i])
  PROVE  /\ KeyLess(FlattenSeq(p), FlattenSeq(q)) => Ahead(Len(p), p, q)
         /\ FlattenSeq(p) = FlattenSeq(q) => Alike(Len(p), p, q)
<1> DEFINE n == Len(p)
<1>1. n \in Nat
  OBVIOUS
<1>2. PICK f \in [0..n -> Seq(Seq(Int))] :
        /\ f[0] = <<>>
        /\ \A i \in 1..n : f[i] = f[i - 1] \o p[i]
        /\ FlattenSeq(p) = f[n]
  BY FlattenDef
<1>3. PICK h \in [0..Len(q) -> Seq(Seq(Int))] :
        /\ h[0] = <<>>
        /\ \A i \in 1..Len(q) : h[i] = h[i - 1] \o q[i]
        /\ FlattenSeq(q) = h[Len(q)]
  BY FlattenDef
<1> HIDE DEF n
<1>4. Len(q) = n
  BY DEF n
<1> DEFINE Tell(i) == /\ Comparable(f[i], h[i])
                      /\ KeyLess(f[i], h[i]) => Ahead(i, p, q)
                      /\ f[i] = h[i] => Alike(i, p, q)
           T == {i \in Nat : i <= n => Tell(i)}
<1>5. 0 \in T
  <2>1. Comparable(<<>>, <<>>) /\ ~KeyLess(<<>>, <<>>)
    BY DEF Comparable, KeyLess
  <2>2. Alike(0, p, q)
    BY DEF Alike
  <2> QED BY <1>2, <1>3, <2>1, <2>2
<1>6. ASSUME NEW i \in T PROVE i + 1 \in T
  <2>1. SUFFICES ASSUME i + 1 <= n PROVE Tell(i + 1)
    <3>1. i + 1 \in Nat
      BY <1>6
    <3> HIDE DEF Tell
    <3> QED BY <3>1
  <2>2. i \in Nat /\ i <= n /\ i + 1 \in 1..n /\ (i + 1) - 1 = i
    BY <1>1, <1>6, <2>1
  <2>3. Tell(i)
    <3> HIDE DEF Tell
    <3> QED BY <1>6, <2>2
  <2>4. Comparable(f[i], h[i]) /\ Comparable(p[i + 1], q[i + 1])
    BY <2>2, <2>3 DEF n
  <2>5. f[i + 1] = f[i] \o p[i + 1] /\ h[i + 1] = h[i] \o q[i + 1]
    BY <1>2, <1>3, <1>4, <2>2
  <2>6. Comparable(f[i + 1], h[i + 1])
    BY <2>4, <2>5, ConcatComparable
  <2>7. /\ KeyLess(f[i + 1], h[i + 1])
             => KeyLess(f[i], h[i]) \/ (f[i] = h[i] /\ KeyLess(p[i + 1], q[i + 1]))
        /\ f[i + 1] = h[i + 1] => f[i] = h[i] /\ p[i + 1] = q[i + 1]
    <3>1. Tells(f[i], h[i], p[i + 1], q[i + 1])
      BY <2>4, ConcatTells
    <3> QED BY <2>5, <3>1 DEF Tells
  <2>8. ASSUME Ahead(i, p, q) PROVE Ahead(i + 1, p, q)
    <3>1. PICK u \in 1..i : (\A j \in 1..(u - 1) : p[j] = q[j]) /\ KeyLess(p[u], q[u])
      BY <2>8 DEF Ahead
    <3>2. u \in 1..(i + 1)
      BY <2>2
    <3> QED BY <3>1, <3>2 DEF Ahead
  <2>9. ASSUME Alike(i, p, q), KeyLess(p[i + 1], q[i + 1]) PROVE Ahead(i + 1, p, q)
    <3>1. i + 1 \in 1..(i + 1) /\ \A j \in 1..((i + 1) - 1) : p[j] = q[j]
      BY <2>2, <2>9 DEF Alike
    <3> QED BY <2>9, <3>1 DEF Ahead
  <2>10. ASSUME Alike(i, p, q), p[i + 1] = q[i + 1] PROVE Alike(i + 1, p, q)
    <3>1. \A j \in 1..(i + 1) : j \in 1..i \/ j = i + 1
      BY <2>2
    <3> QED BY <2>10, <3>1 DEF Alike
  <2> QED BY <2>3, <2>6, <2>7, <2>8, <2>9, <2>10
<1> HIDE DEF Tell
<1>7. T = Nat
  <2>1. T \in SUBSET Nat
    OBVIOUS
  <2> HIDE DEF T
  <2> QED BY <1>5, <1>6, <2>1, NatInduct
<1>8. Tell(n)
  <2>1. n <= n
    BY <1>1
  <2>2. n \in T
    <3> HIDE DEF T
    <3> QED BY <1>1, <1>7
  <2> QED BY <2>1, <2>2
<1> QED BY <1>2, <1>3, <1>4, <1>8 DEF Tell, n

(* The positions of the enabled operators, in their order.                 *)
Places(spec) == Sorted(Enabled(spec), Before(spec))

Count(spec) == Cardinality(Enabled(spec))

LEMMA PlacesAre ==
  ASSUME NEW spec \in Seq(OperatorConfigs)
  PROVE  LET n == Count(spec)
             s == Places(spec)
         IN  /\ n \in Nat /\ s \in [1..n -> Enabled(spec)]
             /\ \A i \in Enabled(spec) : \E k \in 1..n : s[k] = i
             /\ \A k, l \in 1..n : k < l <=> <<s[k], s[l]>> \in Before(spec)
             /\ Len(EnabledInOrder(spec)) = n
             /\ \A k \in 1..n : EnabledInOrder(spec)[k] = spec[s[k]]
<1> DEFINE n == Count(spec)
           s == Places(spec)
           S == Enabled(spec)
           R == Before(spec)
<1>1. /\ n \in Nat
      /\ SortedBy(S, R, s)
      /\ \A i \in S : \E k \in 1..n : s[k] = i
      /\ EnabledInOrder(spec) = [k \in 1..n |-> spec[s[k]]]
      /\ Len(EnabledInOrder(spec)) = n
  BY EnabledIs DEF Count, Places
<1>2. \A x, y \in S : <<x, y>> \in R => <<y, x>> \notin R
  <2>1. \A i \in S : spec[i].order \in Int /\ i \in Int
    <3>1. \A i \in DOMAIN spec : spec[i] \in OperatorConfigs /\ i \in Int
      OBVIOUS
    <3>2. \A o \in OperatorConfigs : o.order \in Int
      BY DEF OperatorConfigs
    <3> QED BY <3>1, <3>2 DEF Enabled
  <2>2. \A x, y \in S : <<x, y>> \in R <=> \/ spec[x].order < spec[y].order
                                          \/ /\ spec[x].order = spec[y].order
                                             /\ x < y
    BY DEF Before
  <2> HIDE DEF S, R
  <2> QED BY <2>1, <2>2
<1>3. \A x \in S : <<x, x>> \notin R
  BY <1>2
<1>4. s \in [1..n -> S] /\ \A i, j \in 1..n : i < j => <<s[i], s[j]>> \in R
  BY <1>1 DEF SortedBy, Count
<1> HIDE DEF n, s, S, R
<1>5. ASSUME NEW k \in 1..n, NEW l \in 1..n, <<s[k], s[l]>> \in R PROVE k < l
  <2>1. k # l
    BY <1>3, <1>4, <1>5
  <2>2. ~(l < k)
    BY <1>2, <1>4, <1>5
  <2> QED BY <2>1, <2>2
<1>6. \A k \in 1..n : EnabledInOrder(spec)[k] = spec[s[k]]
  BY <1>1
<1> QED BY <1>1, <1>4, <1>5, <1>6 DEF n, s, S, R

(* What the k-th enabled operator says of a card.                          *)
LEMMA SaidIs ==
  ASSUME NEW spec \in Seq(OperatorConfigs), NEW a
  PROVE  \A k \in 1..Count(spec) : Said(spec, a)[k] = Parts(spec[Places(spec)[k]], a)
<1>1. /\ Len(EnabledInOrder(spec)) = Count(spec)
      /\ \A k \in 1..Count(spec) : EnabledInOrder(spec)[k] = spec[Places(spec)[k]]
  BY PlacesAre
<1> QED BY <1>1 DEF Said

KeyTold(g, c, d) ==
  \/ Ahead(Count(g.spec), Said(g.spec, g.attrs[c]), Said(g.spec, g.attrs[d]))
  \/ /\ Alike(Count(g.spec), Said(g.spec, g.attrs[c]), Said(g.spec, g.attrs[d]))
     /\ KeyLess(Ids(g.attrs[c], c), Ids(g.attrs[d], d))

LEMMA KeyTells ==
  ASSUME NEW g, WellFormed(g), NEW c \in Cards, NEW d \in Cards,
         KeyLess(KeyOf(g, c), KeyOf(g, d))
  PROVE  KeyTold(g, c, d)
<1> DEFINE spec == g.spec
           a == g.attrs[c]
           b == g.attrs[d]
           p == Said(spec, a)
           q == Said(spec, b)
           n == Count(spec)
<1>1. /\ spec \in Seq(OperatorConfigs) /\ a \in Attributes /\ b \in Attributes
      /\ c \in Int /\ d \in Int
  BY PlanningAssumption DEF WellFormed
<1>2. KeyOf(g, c) = CompositeKey(spec, a, c) /\ KeyOf(g, d) = CompositeKey(spec, b, d)
  BY DEF KeyOf
<1> HIDE DEF spec, a, b
<1>3. /\ KeyOf(g, c) = FlattenSeq(p) \o Ids(a, c)
      /\ KeyOf(g, d) = FlattenSeq(q) \o Ids(b, d)
      /\ Comparable(FlattenSeq(p), FlattenSeq(q))
      /\ Comparable(Ids(a, c), Ids(b, d))
  <2>1. /\ CompositeKey(spec, a, c) = FlattenSeq(p) \o Ids(a, c)
        /\ CompositeKey(spec, b, d) = FlattenSeq(q) \o Ids(b, d)
    BY <1>1, KeysComparable
  <2>2. /\ Comparable(FlattenSeq(p), FlattenSeq(q))
        /\ Comparable(Ids(a, c), Ids(b, d))
    BY <1>1, KeysComparable
  <2> QED BY <1>2, <2>1, <2>2
<1>4. Len(EnabledInOrder(spec)) = n
  BY <1>1, PlacesAre
<1>5. /\ p \in Seq(Seq(Seq(Int))) /\ q \in Seq(Seq(Seq(Int)))
      /\ Len(p) = n /\ Len(q) = n
      /\ \A i \in 1..n : Comparable(p[i], q[i])
  BY <1>1, <1>4, SaidComparable
<1>6. Tells(FlattenSeq(p), FlattenSeq(q), Ids(a, c), Ids(b, d))
  BY <1>3, ConcatTells
<1> HIDE DEF p, q, n
<1>7. /\ KeyLess(FlattenSeq(p), FlattenSeq(q)) => Ahead(n, p, q)
      /\ FlattenSeq(p) = FlattenSeq(q) => Alike(n, p, q)
  <2>1. /\ KeyLess(FlattenSeq(p), FlattenSeq(q)) => Ahead(Len(p), p, q)
        /\ FlattenSeq(p) = FlattenSeq(q) => Alike(Len(p), p, q)
    BY <1>5, FlattenTells
  <2> QED BY <1>5, <2>1
<1>8. Ahead(n, p, q) \/ (Alike(n, p, q) /\ KeyLess(Ids(a, c), Ids(b, d)))
  BY <1>3, <1>6, <1>7 DEF Tells
<1> QED BY <1>8 DEF KeyTold, p, q, n, spec, a, b

(* Sorting by the key is sorting by the operators in their order, where    *)
(* they tell cards apart.                                                  *)
LEMMA KeyPrecedes ==
  ASSUME NEW g, WellFormed(g), NEW c \in Cards, NEW d \in Cards, KeyTold(g, c, d)
  PROVE  Precedes(g, c, d) \/ Tied(g, c, d)
<1> DEFINE spec == g.spec
           n == Count(spec)
           s == Places(spec)
           p == Said(spec, g.attrs[c])
           q == Said(spec, g.attrs[d])
           v(i, e) == Parts(spec[i], g.attrs[e])
           before(i, j) == \/ spec[i].order < spec[j].order
                           \/ spec[i].order = spec[j].order /\ i < j
<1>1. /\ spec \in Seq(OperatorConfigs) /\ g.attrs[c] \in Attributes
      /\ g.attrs[d] \in Attributes /\ c \in Int /\ d \in Int
  BY PlanningAssumption DEF WellFormed
<1>2. /\ n \in Nat /\ s \in [1..n -> Enabled(spec)]
      /\ \A i \in Enabled(spec) : \E k \in 1..n : s[k] = i
      /\ \A k, l \in 1..n : k < l <=> <<s[k], s[l]>> \in Before(spec)
  BY <1>1, PlacesAre
<1>3. \A k \in 1..n : p[k] = v(s[k], c) /\ q[k] = v(s[k], d)
  BY <1>1, SaidIs
<1>4. \A i, j \in Enabled(spec) : before(i, j) => <<i, j>> \in Before(spec)
  BY DEF Before
<1>5. /\ Precedes(g, c, d) <=>
           \E i \in Enabled(spec) :
             /\ KeyLess(v(i, c), v(i, d))
             /\ \A j \in Enabled(spec) : before(j, i) => v(j, c) = v(j, d)
      /\ Tied(g, c, d) <=> \A i \in Enabled(spec) : v(i, c) = v(i, d)
  BY DEF Precedes, Tied, EnabledAt, Enabled
<1>6. Ahead(n, p, q) \/ Alike(n, p, q)
  BY DEF KeyTold
<1> HIDE DEF n, s, p, q, v, before, spec
<1>7. CASE Ahead(n, p, q)
  <2>1. PICK u \in 1..n : (\A j \in 1..(u - 1) : p[j] = q[j]) /\ KeyLess(p[u], q[u])
    BY <1>7 DEF Ahead
  <2>2. s[u] \in Enabled(spec) /\ KeyLess(v(s[u], c), v(s[u], d))
    BY <1>2, <1>3, <2>1
  <2>3. ASSUME NEW j \in Enabled(spec), before(j, s[u]) PROVE v(j, c) = v(j, d)
    <3>1. PICK k \in 1..n : s[k] = j
      BY <1>2
    <3>2. <<s[k], s[u]>> \in Before(spec)
      BY <1>4, <2>2, <2>3, <3>1
    <3>3. k < u
      BY <1>2, <3>2
    <3>4. k \in 1..(u - 1)
      BY <1>2, <3>3
    <3> QED BY <1>3, <2>1, <3>1, <3>4
  <2> QED BY <1>5, <2>2, <2>3
<1>8. CASE Alike(n, p, q)
  <2>1. ASSUME NEW i \in Enabled(spec) PROVE v(i, c) = v(i, d)
    <3>1. PICK k \in 1..n : s[k] = i
      BY <1>2
    <3> QED BY <1>3, <1>8, <3>1 DEF Alike
  <2> QED BY <1>5, <2>1
<1> QED BY <1>6, <1>7, <1>8

(* The cards of a bin lie in the order of their keys.                      *)
LEMMA BinInOrder ==
  ASSUME Computed, dest # Infeasible, NEW b \in DOMAIN dest,
         NEW i \in 1..Len(dest[b]), NEW j \in 1..Len(dest[b]), i < j
  PROVE  /\ dest[b][i] \in Cards /\ dest[b][j] \in Cards
         /\ KeyTold(cfg, dest[b][i], dest[b][j])
<1>1. /\ WellFormed(cfg) /\ Provisioned(cfg, cards, dest) /\ Listed(cards)
  BY ComputedIs
<1>2. PICK w : Holds(cfg, cards, dest, Len(cards), w) /\ InOrder(cfg, cards, dest, Len(cards))
  BY <1>1 DEF Provisioned
<1>3. /\ dest \in [Provisionable(cfg) -> Seq(Cards)] /\ b \in Provisionable(cfg)
      /\ \A x \in Provisionable(cfg) : \A k \in 1..Len(dest[x]) :
           \E h \in 1..Len(cards) : w[h] = x /\ dest[x][k] = cards[h]
  BY <1>2 DEF Holds
<1>4. PICK k \in 1..Len(cards) : dest[b][i] = cards[k]
  BY <1>3
<1>5. PICK l \in 1..Len(cards) : dest[b][j] = cards[l]
  BY <1>3
<1>6. k < l
  <2>1. \A x \in Provisionable(cfg) : \A y, z \in 1..Len(dest[x]) :
          \A m, h \in 1..Len(cards) :
            y < z /\ dest[x][y] = cards[m] /\ dest[x][z] = cards[h] => m < h
    BY <1>2 DEF InOrder
  <2> QED BY <1>3, <1>4, <1>5, <2>1
<1>7. dest[b][i] \in Cards /\ dest[b][j] \in Cards
  BY <1>3
<1>8. KeyLess(KeyOf(cfg, cards[k]), KeyOf(cfg, cards[l]))
  <2> DEFINE s == Ordered(cfg, Cards)
  <2>1. \A x, y \in 1..Len(s) : x < y => KeyLess(KeyOf(cfg, s[x]), KeyOf(cfg, s[y]))
    BY <1>1, OrderedIs
  <2>2. cards = s
    BY DEF Computed
  <2> HIDE DEF s
  <2> QED BY <1>6, <2>1, <2>2
<1>9. KeyTold(cfg, cards[k], cards[l])
  BY <1>1, <1>4, <1>5, <1>7, <1>8, KeyTells
<1> QED BY <1>4, <1>5, <1>7, <1>9

(* Read top to bottom, every bin is in the order of the enabled operators, *)
(* and without pins so are the bins one after the other (provision_bins,   *)
(* build_composite_key).                                                   *)
THEOREM BinsAreSorted == Spec => []BinsSorted
<1>1. Computed => BinsSorted
  <2> SUFFICES ASSUME Computed, dest # Infeasible
               PROVE  /\ \A b \in DOMAIN dest : \A i, j \in DOMAIN dest[b] :
                           i < j => \/ Precedes(cfg, dest[b][i], dest[b][j])
                                    \/ Tied(cfg, dest[b][i], dest[b][j])
                      /\ (\A c \in Cards : cfg.pinned[c] = None) =>
                           FlattenSeq([i \in DOMAIN cfg.bins |->
                                         IF cfg.bins[i] \in DOMAIN dest
                                         THEN dest[cfg.bins[i]] ELSE <<>>]) = cards
    BY DEF BinsSorted
  <2>1. /\ WellFormed(cfg) /\ Provisioned(cfg, cards, dest) /\ Listed(cards)
        /\ dest \in [Provisionable(cfg) -> Seq(Cards)]
    BY ComputedIs DEF Contents
  <2>2. ASSUME NEW b \in DOMAIN dest, NEW i \in DOMAIN dest[b],
               NEW j \in DOMAIN dest[b], i < j
        PROVE  \/ Precedes(cfg, dest[b][i], dest[b][j])
               \/ Tied(cfg, dest[b][i], dest[b][j])
    <3>1. i \in 1..Len(dest[b]) /\ j \in 1..Len(dest[b])
      BY <2>1
    <3>2. /\ dest[b][i] \in Cards /\ dest[b][j] \in Cards
          /\ KeyTold(cfg, dest[b][i], dest[b][j])
      BY <2>2, <3>1, BinInOrder
    <3> QED BY <2>1, <3>2, KeyPrecedes
  <2>3. ASSUME \A c \in Cards : cfg.pinned[c] = None
        PROVE  FlattenSeq([i \in DOMAIN cfg.bins |->
                             IF cfg.bins[i] \in DOMAIN dest
                             THEN dest[cfg.bins[i]] ELSE <<>>]) = cards
    <3>1. Filling(cfg, cards, dest, Len(cards))
      BY <2>1 DEF Provisioned
    <3>2. FlattenSeq(Row(cfg, dest)) = SubSeq(cards, 1, Len(cards))
      BY <2>3, <3>1 DEF Filling
    <3>3. SubSeq(cards, 1, Len(cards)) = cards
      BY <2>1 DEF Listed
    <3>4. Row(cfg, dest) = [i \in DOMAIN cfg.bins |->
                              IF cfg.bins[i] \in DOMAIN dest
                              THEN dest[cfg.bins[i]] ELSE <<>>]
      BY <2>1 DEF Row
    <3> QED BY <3>2, <3>3, <3>4
  <2> QED BY <2>2, <2>3
<1> QED BY <1>1, ComputedAlways, PTL

-----------------------------------------------------------------------------
(* Groups of the split operators.                                          *)

(* The k-th enabled operator splits.                                       *)
SplitsAt(spec, k) == k \in 1..Count(spec) /\ spec[Places(spec)[k]].split

SaidOf(g, c) == Said(g.spec, g.attrs[c])

(* Two cards are of one group when no operator that splits tells them      *)
(* apart.                                                                  *)
OneGroup(g, c, d) ==
  \A k \in 1..Count(g.spec) : SplitsAt(g.spec, k) => SaidOf(g, c)[k] = SaidOf(g, d)[k]

LEMMA GroupIs ==
  ASSUME NEW g, WellFormed(g), NEW c, NEW d
  PROVE  GroupOf(g, c) = GroupOf(g, d) <=> OneGroup(g, c, d)
<1> DEFINE spec == g.spec
           s == Places(spec)
           n == Count(spec)
           S == {j \in DOMAIN spec : spec[j].enabled /\ spec[j].split}
           v(i, e) == Parts(spec[i], g.attrs[e])
<1>1. spec \in Seq(OperatorConfigs)
  BY DEF WellFormed
<1>2. /\ s \in [1..n -> Enabled(spec)]
      /\ \A i \in Enabled(spec) : \E k \in 1..n : s[k] = i
  BY <1>1, PlacesAre
<1>3. \A k \in 1..n : SaidOf(g, c)[k] = v(s[k], c) /\ SaidOf(g, d)[k] = v(s[k], d)
  BY <1>1, SaidIs DEF SaidOf
<1>4. GroupOf(g, c) = [i \in S |-> v(i, c)] /\ GroupOf(g, d) = [i \in S |-> v(i, d)]
  BY DEF GroupOf
<1>5. \A i \in Enabled(spec) : i \in S <=> spec[i].split
  BY DEF Enabled
<1>6. S \subseteq Enabled(spec)
  BY DEF Enabled
<1> HIDE DEF S, v
<1>7. GroupOf(g, c) = GroupOf(g, d) <=> \A i \in S : v(i, c) = v(i, d)
  <2>1. ASSUME GroupOf(g, c) = GroupOf(g, d), NEW i \in S PROVE v(i, c) = v(i, d)
    <3>1. GroupOf(g, c)[i] = v(i, c) /\ GroupOf(g, d)[i] = v(i, d)
      BY <1>4
    <3> QED BY <2>1, <3>1
  <2> QED BY <1>4, <2>1
<1> HIDE DEF s, n
<1>8. (\A i \in S : v(i, c) = v(i, d)) <=> OneGroup(g, c, d)
  <2>1. \A k \in 1..n : SplitsAt(spec, k) <=> s[k] \in S
    BY <1>2, <1>5 DEF SplitsAt, s, n
  <2>2. OneGroup(g, c, d) <=> \A k \in 1..n : s[k] \in S => v(s[k], c) = v(s[k], d)
    BY <1>3, <2>1 DEF OneGroup, n
  <2> QED BY <1>2, <1>6, <2>2
<1> QED BY <1>7, <1>8

(* Cards of different groups are told apart by an operator that splits.    *)
SplitTold(g, c, d) ==
  \E u \in 1..Count(g.spec) :
    /\ SplitsAt(g.spec, u)
    /\ \A j \in 1..(u - 1) : SaidOf(g, c)[j] = SaidOf(g, d)[j] /\ SplitsAt(g.spec, j)
    /\ KeyLess(SaidOf(g, c)[u], SaidOf(g, d)[u])

LEMMA SplitTells ==
  ASSUME NEW g, WellFormed(g), SplitAllowed(g.spec), NEW c, NEW d,
         KeyTold(g, c, d), ~OneGroup(g, c, d)
  PROVE  SplitTold(g, c, d)
<1> DEFINE n == Count(g.spec)
           p == SaidOf(g, c)
           q == SaidOf(g, d)
<1>1. g.spec \in Seq(OperatorConfigs)
  BY DEF WellFormed
<1>2. /\ n \in Nat /\ Len(EnabledInOrder(g.spec)) = n
      /\ \A k \in 1..n : EnabledInOrder(g.spec)[k] = g.spec[Places(g.spec)[k]]
      /\ EnabledInOrder(g.spec) \in Seq(OperatorConfigs)
  BY <1>1, PlacesAre, EnabledIs
<1>3. \A k \in 1..n : SplitsAt(g.spec, k) => \A j \in 1..(k - 1) : SplitsAt(g.spec, j)
  <2> DEFINE ops == EnabledInOrder(g.spec)
  <2>1. DOMAIN ops = 1..n
    BY <1>2
  <2>2. \A k \in 1..n : ops[k].split => \A j \in 1..(k - 1) : ops[j].split
    BY <2>1 DEF SplitAllowed
  <2> HIDE DEF ops
  <2>3. \A k \in 1..n : SplitsAt(g.spec, k) <=> ops[k].split
    BY <1>2 DEF SplitsAt, ops
  <2>4. \A k \in 1..n : \A j \in 1..(k - 1) : j \in 1..n
    BY <1>2
  <2> QED BY <2>2, <2>3, <2>4
<1>4. PICK k \in 1..n : SplitsAt(g.spec, k) /\ p[k] # q[k]
  BY DEF OneGroup
<1>5. Ahead(n, p, q)
  <2>1. ~Alike(n, p, q)
    BY <1>4 DEF Alike
  <2> QED BY <2>1 DEF KeyTold, SaidOf
<1>6. PICK u \in 1..n : (\A j \in 1..(u - 1) : p[j] = q[j]) /\ KeyLess(p[u], q[u])
  BY <1>5 DEF Ahead
<1> HIDE DEF n, p, q
<1>7. u <= k
  <2>1. ASSUME k < u PROVE FALSE
    <3>1. k \in 1..(u - 1)
      BY <1>2, <2>1
    <3> QED BY <1>4, <1>6, <3>1
  <2> QED BY <1>2, <2>1
<1>8. SplitsAt(g.spec, u)
  <2>1. CASE u = k
    BY <1>4, <2>1
  <2>2. CASE u # k
    <3>1. u \in 1..(k - 1)
      BY <1>2, <1>7, <2>2
    <3> QED BY <1>3, <1>4, <3>1
  <2> QED BY <2>1, <2>2
<1> QED BY <1>3, <1>6, <1>8 DEF SplitTold, n, p, q

(* A card between two of one group is of that group.                       *)
LEMMA GroupsContiguous ==
  ASSUME NEW g, WellFormed(g), SplitAllowed(g.spec),
         NEW c \in Cards, NEW d \in Cards, NEW e \in Cards,
         KeyTold(g, c, d), KeyTold(g, d, e), OneGroup(g, c, e)
  PROVE  OneGroup(g, c, d)
<1> DEFINE n == Count(g.spec)
           p == SaidOf(g, c)
           q == SaidOf(g, d)
           r == SaidOf(g, e)
<1>1. SUFFICES ASSUME ~OneGroup(g, c, d) PROVE FALSE
  OBVIOUS
<1>2. ~OneGroup(g, d, e)
  BY <1>1 DEF OneGroup
<1>3. SplitTold(g, c, d) /\ SplitTold(g, d, e)
  BY <1>1, <1>2, SplitTells
<1>4. PICK u \in 1..n : /\ SplitsAt(g.spec, u)
                        /\ \A j \in 1..(u - 1) : p[j] = q[j] /\ SplitsAt(g.spec, j)
                        /\ KeyLess(p[u], q[u])
  BY <1>3 DEF SplitTold
<1>5. PICK v \in 1..n : /\ SplitsAt(g.spec, v)
                        /\ \A j \in 1..(v - 1) : q[j] = r[j] /\ SplitsAt(g.spec, j)
                        /\ KeyLess(q[v], r[v])
  BY <1>3 DEF SplitTold
<1>6. p[u] = r[u] /\ p[v] = r[v]
  BY <1>4, <1>5 DEF OneGroup
<1>7. \A k \in 1..n : Comparable(p[k], q[k]) /\ Comparable(q[k], r[k])
  <2>1. /\ g.spec \in Seq(OperatorConfigs) /\ g.attrs[c] \in Attributes
        /\ g.attrs[d] \in Attributes /\ g.attrs[e] \in Attributes
    BY DEF WellFormed
  <2>2. Len(EnabledInOrder(g.spec)) = n
    BY <2>1, PlacesAre
  <2>3. \A k \in 1..n : Comparable(p[k], q[k])
    BY <2>1, <2>2, SaidComparable DEF SaidOf
  <2>4. \A k \in 1..n : Comparable(q[k], r[k])
    BY <2>1, <2>2, SaidComparable DEF SaidOf
  <2> QED BY <2>3, <2>4
<1>8. \A k \in 1..n :
        /\ ~KeyLess(p[k], p[k])
        /\ KeyLess(p[k], q[k]) /\ KeyLess(q[k], r[k]) => KeyLess(p[k], r[k])
  BY <1>7, KeyLessOrder
<1> HIDE DEF p, q, r, n
<1>9. CASE u = v
  BY <1>4, <1>5, <1>6, <1>8, <1>9
<1>10. CASE u < v
  <2>1. u \in 1..(v - 1)
    BY <1>10
  <2>2. q[u] = p[u]
    BY <1>5, <1>6, <2>1
  <2> QED BY <1>4, <1>8, <2>2
<1>11. CASE v < u
  <2>1. v \in 1..(u - 1)
    BY <1>11
  <2>2. p[v] = q[v]
    BY <1>4, <2>1
  <2>3. KeyLess(p[v], p[v])
    BY <1>5, <1>6, <2>2
  <2> QED BY <1>8, <2>3
<1> QED BY <1>9, <1>10, <1>11

(* The bins of a plan that was made keep every group of the split          *)
(* operators together, pins or not, because splitting is allowed only for  *)
(* a prefix of the operators (validate_split_prefix_rule).                 *)
THEOREM GroupsStayTogether == Spec => []GroupsTogether
<1>1. Computed /\ Stacked => GroupsTogether
  <2> SUFFICES ASSUME Computed, Stacked, done = 0, NEW b \in DOMAIN dest,
                      NEW i \in DOMAIN dest[b], NEW j \in DOMAIN dest[b],
                      NEW k \in DOMAIN dest[b], i < j, j < k,
                      GroupOf(cfg, dest[b][i]) = GroupOf(cfg, dest[b][k])
               PROVE  GroupOf(cfg, dest[b][j]) = GroupOf(cfg, dest[b][i])
    BY DEF GroupsTogether
  <2>1. dest # Infeasible /\ MovesOf(cfg, dest) # Infeasible
    BY DEF Stacked
  <2>2. WellFormed(cfg) /\ dest \in [Provisionable(cfg) -> Seq(Cards)]
    BY <2>1, ComputedIs DEF Contents
  <2>3. SplitAllowed(cfg.spec)
    BY <2>1 DEF MovesOf
  <2>4. i \in 1..Len(dest[b]) /\ j \in 1..Len(dest[b]) /\ k \in 1..Len(dest[b])
    BY <2>2
  <2> DEFINE c == dest[b][i]
             d == dest[b][j]
             e == dest[b][k]
  <2>5. /\ c \in Cards /\ d \in Cards /\ e \in Cards
        /\ KeyTold(cfg, c, d) /\ KeyTold(cfg, d, e)
    BY <2>1, <2>4, BinInOrder
  <2> HIDE DEF c, d, e
  <2>6. OneGroup(cfg, c, e)
    BY <2>2, GroupIs DEF c, e
  <2>7. OneGroup(cfg, c, d)
    BY <2>2, <2>3, <2>5, <2>6, GroupsContiguous
  <2>8. GroupOf(cfg, c) = GroupOf(cfg, d)
    BY <2>2, <2>7, GroupIs
  <2> QED BY <2>8 DEF c, d
<1> QED BY <1>1, ComputedAlways, StackedAlways, PTL

-----------------------------------------------------------------------------
(* What the execution of runs assumes of its planner.                      *)

(* A move that names the bin it starts from takes a card that the last     *)
(* move of the card before it put there.                                   *)
Staged(plan) ==
  \A i \in 1..Len(plan) : plan[i].from # ExtractFrom =>
    \E j \in 1..(i - 1) :
      /\ plan[j].card = plan[i].card /\ plan[j].to = plan[i].from
      /\ \A h \in (j + 1)..(i - 1) : plan[h].card # plan[i].card

ServesRuns(g, T, plan) ==
  /\ plan \in Seq([card : T, from : BinSet(g) \cup {ExtractFrom}, to : BinSet(g)])
  /\ Staged(plan)

(* Where the moves of a block are in the plan.                             *)
LEMMA MoveAt ==
  ASSUME NEW g, WellFormed(g), NEW d \in Contents(g), d # Infeasible,
         MovesOf(g, d) # Infeasible, NEW i \in Filled(g, d),
         NEW x \in 1..(Size(g, d, i) + Size(g, d, i))
  PROVE  /\ Start(g, d)[i] + x \in 1..Len(MovesOf(g, d))
         /\ MovesOf(g, d)[Start(g, d)[i] + x] = Blocks(g, d)[i][x]
<1>1. Laid(Blocks(g, d), MovesOf(g, d), Start(g, d)) /\ Len(Blocks(g, d)) = Len(g.bins)
      /\ Len(MovesOf(g, d)) \in Nat
  <2>1. MovesOf(g, d) = FlattenSeq(Blocks(g, d)) /\ Blocks(g, d) \in Seq(Seq(MoveSet(g)))
    BY BlocksAre
  <2>2. MovesOf(g, d) \in Seq(MoveSet(g))
    BY <2>1, FlattenLaid
  <2> QED BY <2>2, StartIs, BlocksAre
<1>2. /\ i \in 1..Len(g.bins) /\ Start(g, d)[i] \in Nat /\ Size(g, d, i) \in Nat
      /\ Len(Blocks(g, d)[i]) = Size(g, d, i) + Size(g, d, i)
  BY FilledIs
<1>3. /\ Start(g, d)[i] + Len(Blocks(g, d)[i]) <= Len(MovesOf(g, d))
      /\ \A k \in 1..Len(Blocks(g, d)[i]) :
           MovesOf(g, d)[Start(g, d)[i] + k] = Blocks(g, d)[i][k]
  BY <1>1, <1>2 DEF Laid
<1> QED BY <1>1, <1>2, <1>3

(* The cards of a block are moved twice, the second time in reverse.       *)
LEMMA BlockMoves ==
  ASSUME NEW g, WellFormed(g), NEW d \in Contents(g), d # Infeasible,
         MovesOf(g, d) # Infeasible, NEW i \in Filled(g, d),
         NEW x \in 1..Size(g, d, i)
  PROVE  LET p == Start(g, d)[i]
             k == Size(g, d, i)
         IN /\ p + x \in 1..Len(MovesOf(g, d))
            /\ MovesOf(g, d)[p + x] =
                 MoveOf(Final(g, d, i)[x], ExtractFrom, StagingBin(g, d))
            /\ p + (k + x) \in 1..Len(MovesOf(g, d))
            /\ MovesOf(g, d)[p + (k + x)] =
                 MoveOf(Final(g, d, i)[(k - x) + 1], StagingBin(g, d), g.bins[i])
<1> DEFINE p == Start(g, d)[i]
           k == Size(g, d, i)
<1>1. /\ Blocks(g, d)[i][x] = MoveOf(Final(g, d, i)[x], ExtractFrom, StagingBin(g, d))
      /\ Blocks(g, d)[i][k + x] =
           MoveOf(Final(g, d, i)[(k - x) + 1], StagingBin(g, d), g.bins[i])
  BY FilledIs
<1>2. k \in Nat
  BY FilledIs
<1>3. x \in 1..(k + k) /\ k + x \in 1..(k + k)
  BY <1>2
<1>4. p + x \in 1..Len(MovesOf(g, d)) /\ MovesOf(g, d)[p + x] = Blocks(g, d)[i][x]
  BY <1>3, MoveAt
<1>5. /\ p + (k + x) \in 1..Len(MovesOf(g, d))
      /\ MovesOf(g, d)[p + (k + x)] = Blocks(g, d)[i][k + x]
  BY <1>3, MoveAt
<1> QED BY <1>1, <1>4, <1>5

LEMMA PlanStaged ==
  ASSUME NEW g, WellFormed(g), NEW d \in Contents(g), d # Infeasible, Once(d),
         MovesOf(g, d) # Infeasible
  PROVE  Staged(MovesOf(g, d))
<1> DEFINE s == MovesOf(g, d)
<1>1. SUFFICES ASSUME NEW n \in 1..Len(s), s[n].from # ExtractFrom
               PROVE  \E j \in 1..(n - 1) :
                        /\ s[j].card = s[n].card /\ s[j].to = s[n].from
                        /\ \A h \in (j + 1)..(n - 1) : s[h].card # s[n].card
  BY DEF Staged
<1>2. Len(s) \in Nat
  <2>1. s = FlattenSeq(Blocks(g, d)) /\ Blocks(g, d) \in Seq(Seq(MoveSet(g)))
    BY BlocksAre
  <2>2. s \in Seq(MoveSet(g))
    BY <2>1, FlattenLaid
  <2> QED BY <2>2
<1>3. n - 1 \in 0..(Len(s) - 1) /\ (n - 1) + 1 = n
  BY <1>2
<1>4. PICK i : Current(g, d, n - 1, i)
  BY <1>3, CurrentIs
<1> DEFINE f == Final(g, d, i)
           k == Size(g, d, i)
           p == Start(g, d)[i]
           e == Gone(g, d, n - 1, i)
           stage == StagingBin(g, d)
<1>5. /\ i \in Filled(g, d) /\ e \in 0..((k + k) - 1)
      /\ e < k => s[n] = MoveOf(f[e + 1], ExtractFrom, stage)
      /\ e >= k => s[n] = MoveOf(f[(k + k) - e], stage, g.bins[i])
  BY <1>3, <1>4 DEF Current
<1>6. k \in Nat \ {0} /\ p \in Nat /\ f \in Seq(Cards) /\ Len(f) = k
  BY <1>5, FilledIs DEF Size
<1>7. e = (n - 1) - p
  BY DEF Gone
<1>8. Distinct(f)
  <2>1. g.bins[i] \in Provisionable(g)
    BY <1>5 DEF Filled, UsedBins
  <2>2. DOMAIN d = Provisionable(g)
    BY DEF Contents
  <2> QED BY <2>1, <2>2 DEF Once, Distinct, Final
<1>9. \A x \in 1..k : /\ s[p + x] = MoveOf(f[x], ExtractFrom, stage)
                      /\ s[p + (k + x)] = MoveOf(f[(k - x) + 1], stage, g.bins[i])
  BY <1>5, BlockMoves
<1> HIDE DEF s, f, k, p, e, stage
<1>10. e >= k /\ s[n] = MoveOf(f[(k + k) - e], stage, g.bins[i])
  <2>1. e \in Int /\ k \in Int
    BY <1>5, <1>6
  <2>2. ~(e < k)
    BY <1>1, <1>5 DEF MoveOf
  <2> QED BY <1>5, <2>1, <2>2
<1> DEFINE x == (k + k) - e
           j == p + x
<1>11. x \in 1..k /\ n = (p + e) + 1 /\ j \in Nat /\ j < n /\ j >= 1
  BY <1>5, <1>6, <1>7, <1>10
<1>12. s[j] = MoveOf(f[x], ExtractFrom, stage)
  BY <1>9, <1>11
<1>13. ASSUME NEW h \in (j + 1)..(n - 1)
       PROVE  s[h].card # f[x]
  <2> DEFINE y == h - p
  <2>1. y \in (x + 1)..e /\ h = p + y /\ y \in Int
    <3>1. x \in Int /\ e \in Int /\ p \in Int /\ j = p + x /\ n - 1 = p + e
      BY <1>5, <1>6, <1>11
    <3>2. h \in Int /\ j + 1 <= h /\ h <= n - 1
      <4>1. n - 1 \in Int /\ j + 1 \in Int
        BY <1>11
      <4> HIDE DEF j
      <4> QED BY <4>1
    <3> HIDE DEF x, j
    <3> QED BY <3>1, <3>2
  <2> HIDE DEF y
  <2>2. CASE y <= k
    <3>1. y \in 1..k /\ y # x
      BY <1>6, <1>11, <2>1, <2>2
    <3>2. f[y] # f[x]
      BY <1>6, <1>8, <1>11, <3>1 DEF Distinct
    <3>3. s[h] = MoveOf(f[y], ExtractFrom, stage)
      BY <1>9, <2>1, <3>1
    <3> QED BY <3>2, <3>3 DEF MoveOf
  <2>3. CASE y > k
    <3> DEFINE z == y - k
               v == (k - z) + 1
    <3>1. z \in 1..k /\ v \in 1..k /\ v # x /\ p + (k + z) = p + y
      BY <1>5, <1>6, <1>11, <2>1, <2>3
    <3>2. f[v] # f[x]
      BY <1>6, <1>8, <1>11, <3>1 DEF Distinct
    <3>3. s[h] = MoveOf(f[v], stage, g.bins[i])
      BY <1>9, <2>1, <3>1
    <3> QED BY <3>2, <3>3 DEF MoveOf
  <2> QED BY <1>6, <2>1, <2>2, <2>3
<1>14. s[n].card = f[x] /\ s[n].from = stage
  BY <1>10 DEF MoveOf
<1>15. s[j].card = f[x] /\ s[j].to = stage
  BY <1>12 DEF MoveOf
<1>16. j \in 1..(n - 1)
  BY <1>11
<1> HIDE DEF j, x
<1> QED BY <1>13, <1>14, <1>15, <1>16

(* A plan of the cards of a run moves these cards only, and takes a card   *)
(* out of a bin only where its last move put it, whatever the bins and     *)
(* the specification (generate_plan): the two assumptions under which the  *)
(* theorems about the execution of runs hold of any planner.               *)
THEOREM PlansServeRuns ==
  ASSUME NEW g \in Configs, NEW T \in SUBSET Cards, GeneratePlan(g, T) # Infeasible
  PROVE  ServesRuns(g, T, GeneratePlan(g, T))
<1> DEFINE cs == Ordered(g, T)
           d == Provision(g, cs)
           s == MovesOf(g, d)
<1>1. WellFormed(g) /\ Infeasible \notin Contents(g)
  BY PlanningAssumption DEF Contents
<1>2. Listed(cs) /\ Range(cs) \subseteq T
  BY <1>1, OrderedIs
<1>3. GeneratePlan(g, T) = s /\ s # Infeasible
  BY DEF GeneratePlan
<1>4. d # Infeasible
  BY <1>3 DEF MovesOf
<1>5. CanProvision(g, cs)
  BY <1>4 DEF Provision
<1> HIDE DEF cs
<1>6. Provisioned(g, cs, d)
  BY <1>1, <1>2, <1>5, ProvisionHolds
<1> HIDE DEF d
<1>7. d \in Contents(g) /\ Once(d)
  BY <1>2, <1>6, ProvisionedOnce DEF Provisioned, Holds, Contents
<1>8. ASSUME NEW b \in Provisionable(g), NEW x \in 1..Len(d[b])
      PROVE  d[b][x] \in T
  <2>1. PICK w : Holds(g, cs, d, Len(cs), w)
    BY <1>6 DEF Provisioned
  <2>2. \E j \in 1..Len(cs) : w[j] = b /\ d[b][x] = cs[j]
    BY <2>1 DEF Holds
  <2>3. \A j \in 1..Len(cs) : cs[j] \in T
    BY <1>2 DEF Listed, Range
  <2> QED BY <2>2, <2>3
<1>9. Staged(s)
  BY <1>1, <1>3, <1>4, <1>7, PlanStaged
<1>10. s \in Seq(MoveSet(g))
  <2>1. s = FlattenSeq(Blocks(g, d)) /\ Blocks(g, d) \in Seq(Seq(MoveSet(g)))
    BY <1>1, <1>3, <1>4, <1>7, BlocksAre
  <2> QED BY <2>1, FlattenLaid
<1>11. ASSUME NEW n \in 1..Len(s)
       PROVE  s[n].card \in T
  <2>1. n - 1 \in 0..(Len(s) - 1) /\ (n - 1) + 1 = n
    BY <1>10
  <2>2. PICK i : Current(g, d, n - 1, i)
    BY <1>1, <1>3, <1>4, <1>7, <2>1, CurrentIs
  <2> DEFINE f == Final(g, d, i)
             k == Size(g, d, i)
             e == Gone(g, d, n - 1, i)
             stage == StagingBin(g, d)
  <2>3. /\ i \in Filled(g, d) /\ e \in 0..((k + k) - 1)
        /\ e < k => s[n] = MoveOf(f[e + 1], ExtractFrom, stage)
        /\ e >= k => s[n] = MoveOf(f[(k + k) - e], stage, g.bins[i])
    BY <2>1, <2>2 DEF Current
  <2>4. k \in Nat /\ k = Len(d[g.bins[i]]) /\ g.bins[i] \in Provisionable(g)
    BY <1>1, <1>3, <1>4, <1>7, <2>3, FilledIs DEF Size, Final, Filled, UsedBins
  <2>5. \A x \in 1..k : f[x] \in T
    BY <1>8, <2>4 DEF Final
  <2> HIDE DEF f, k, e, stage, s
  <2>6. e < k => e + 1 \in 1..k
    BY <2>3, <2>4
  <2>7. e >= k => (k + k) - e \in 1..k
    BY <2>3, <2>4
  <2>8. e < k \/ e >= k
    BY <2>3, <2>4
  <2> QED BY <2>3, <2>5, <2>6, <2>7, <2>8 DEF MoveOf
<1> DEFINE M == [card : T, from : BinSet(g) \cup {ExtractFrom}, to : BinSet(g)]
<1> HIDE DEF s
<1>12. ASSUME NEW n \in 1..Len(s)
       PROVE  s[n] \in M
  <2>1. s[n] \in MoveSet(g) /\ s[n].card \in T
    BY <1>10, <1>11
  <2>2. \A m \in MoveSet(g) : m.card \in T => m \in M
    BY DEF MoveSet
  <2> HIDE DEF M
  <2> QED BY <2>1, <2>2
<1>13. s \in Seq(M)
  <2> HIDE DEF M
  <2>1. Len(s) \in Nat /\ s = [n \in 1..Len(s) |-> s[n]]
    BY <1>10
  <2>2. s \in [1..Len(s) -> M]
    BY <1>12, <2>1
  <2> QED BY <2>1, <2>2
<1> QED BY <1>3, <1>9, <1>13 DEF ServesRuns

=============================================================================
