------------------------- MODULE OwnChanges_proofs --------------------------
(***************************************************************************)
(* What the proof that stacks agree (StacksAgree_proofs) needs first:      *)
(* counting in sets of numbers, the shapes in which what is under way      *)
(* between a slave and the master can be, what a packet at the head or at  *)
(* the end of a queue changes of it, and the changes a slave makes and     *)
(* sends himself.                                                          *)
(***************************************************************************)
EXTENDS CollabSession_proofs, FiniteSetTheorems
----------------------------------------------------------------------------
(* Sets of numbers in ascending order *)

(* How many numbers of a set are below one of them tells them apart.        *)
LEMMA RankGrows ==
  ASSUME NEW S \in SUBSET Nat, IsFiniteSet(S), NEW x \in S, NEW y \in S, x < y
  PROVE  /\ Cardinality({j \in S : j < x}) \in Nat
         /\ Cardinality({j \in S : j < x}) < Cardinality({j \in S : j < y})
         /\ Cardinality({j \in S : j < y}) < Cardinality(S)
<1> DEFINE X == {j \in S : j < x}
           Y == {j \in S : j < y}
<1>1. IsFiniteSet(X) /\ IsFiniteSet(Y)
  BY FS_Subset
<1>2. X \in SUBSET Y /\ X # Y /\ Y \in SUBSET S /\ Y # S
  <2>1. X \subseteq Y
    <3> SUFFICES ASSUME NEW j \in S, j < x PROVE j < y
      OBVIOUS
    <3>1. j \in Nat /\ x \in Nat /\ y \in Nat
      OBVIOUS
    <3> QED BY <3>1
  <2>2. x \in Y /\ x \notin X /\ y \in S /\ y \notin Y /\ Y \subseteq S
    OBVIOUS
  <2> QED BY <2>1, <2>2
<1> HIDE DEF X, Y
<1>3. Cardinality(X) <= Cardinality(Y) /\ Cardinality(X) # Cardinality(Y)
  BY <1>1, <1>2, FS_Subset
<1>4. Cardinality(Y) <= Cardinality(S) /\ Cardinality(Y) # Cardinality(S)
  BY <1>1, <1>2, FS_Subset
<1>5. Cardinality(X) \in Nat /\ Cardinality(Y) \in Nat /\ Cardinality(S) \in Nat
  BY <1>1, FS_CardinalityType
<1> QED BY <1>3, <1>4, <1>5 DEF X, Y

(* The one of which there are less than all below it is within the count.   *)
LEMMA RankBelow ==
  ASSUME NEW S \in SUBSET Nat, IsFiniteSet(S), NEW x \in S
  PROVE  Cardinality({j \in S : j < x}) \in 0..(Cardinality(S) - 1)
<1> DEFINE X == {j \in S : j < x}
<1>1. IsFiniteSet(X) /\ X \in SUBSET S /\ X # S
  BY FS_Subset
<1> HIDE DEF X
<1>2. Cardinality(X) <= Cardinality(S) /\ Cardinality(X) # Cardinality(S)
  BY <1>1, FS_Subset
<1>3. Cardinality(X) \in Nat /\ Cardinality(S) \in Nat
  BY <1>1, FS_CardinalityType
<1> QED BY <1>2, <1>3 DEF X

(* Ascending lists all numbers of the set, and in ascending order.          *)
LEMMA AscendingIs ==
  ASSUME NEW S \in SUBSET Nat, IsFiniteSet(S)
  PROVE  /\ Cardinality(S) \in Nat
         /\ Ascending(S) \in [1..Cardinality(S) -> S]
         /\ \A k, l \in 1..Cardinality(S) : k < l => Ascending(S)[k] < Ascending(S)[l]
         /\ \A x \in S : \E k \in 1..Cardinality(S) : Ascending(S)[k] = x
<1> DEFINE n == Cardinality(S)
           Rank(x) == Cardinality({j \in S : j < x})
           r == [x \in S |-> Rank(x)]
           at == [k \in 1..n |-> CHOOSE i \in S : Rank(i) = k - 1]
<1>1. n \in Nat
  BY FS_CardinalityType
<1>2. \A x \in S : Rank(x) \in 0..(n - 1)
  BY RankBelow
<1>3. \A x, y \in S : x < y => Rank(x) < Rank(y)
  BY RankGrows
<1>4. Ascending(S) = at
  BY DEF Ascending
<1> HIDE DEF n, Rank
<1>5. \A x, y \in S : Rank(x) = Rank(y) => x = y
  <2> SUFFICES ASSUME NEW x \in S, NEW y \in S, Rank(x) = Rank(y), x # y PROVE FALSE
    OBVIOUS
  <2>1. x < y \/ y < x
    OBVIOUS
  <2>2. Rank(x) \in Nat /\ Rank(y) \in Nat
    BY <1>1, <1>2
  <2> QED BY <1>3, <2>1, <2>2
<1>6. r \in Injection(S, 0..(n - 1))
  BY <1>2, <1>5 DEF Injection, IsInjective
<1>7. IsFiniteSet(0..(n - 1)) /\ Cardinality(0..(n - 1)) = n
  BY <1>1, FS_Interval
<1>8. r \in Surjection(S, 0..(n - 1))
  <2> HIDE DEF r
  <2> QED BY <1>6, <1>7, FS_Injection DEF n
<1>9. \A k \in 1..n : \E i \in S : Rank(i) = k - 1
  <2> TAKE k \in 1..n
  <2>1. k - 1 \in 0..(n - 1)
    BY <1>1
  <2> QED BY <1>8, <2>1 DEF Surjection
<1>10. \A k \in 1..n : at[k] \in S /\ Rank(at[k]) = k - 1
  BY <1>9
<1>11. \A k, l \in 1..n : k < l => at[k] < at[l]
  <2> SUFFICES ASSUME NEW k \in 1..n, NEW l \in 1..n, k < l, ~(at[k] < at[l]) PROVE FALSE
    OBVIOUS
  <2> HIDE DEF at
  <2>1. at[k] \in S /\ at[l] \in S /\ Rank(at[k]) = k - 1 /\ Rank(at[l]) = l - 1
    BY <1>10
  <2>2. at[k] = at[l] \/ at[l] < at[k]
    <3>1. at[k] \in Nat /\ at[l] \in Nat
      BY <2>1
    <3> QED BY <3>1
  <2>4. CASE at[k] = at[l]
    BY <1>1, <2>1, <2>4
  <2>5. CASE at[l] < at[k]
    <3>1. Rank(at[l]) < Rank(at[k])
      BY <1>3, <2>1, <2>5
    <3> QED BY <1>1, <2>1, <3>1
  <2> QED BY <2>2, <2>4, <2>5
<1>12. \A x \in S : \E k \in 1..n : at[k] = x
  <2> TAKE x \in S
  <2>1. Rank(x) + 1 \in 1..n /\ Rank(x) + 1 - 1 = Rank(x)
    BY <1>1, <1>2
  <2> HIDE DEF at
  <2>2. PICK k \in 1..n : k = Rank(x) + 1
    BY <2>1
  <2>3. at[k] \in S /\ Rank(at[k]) = k - 1
    BY <1>10
  <2>4. k - 1 = Rank(x)
    BY <1>1, <1>2, <2>2
  <2> QED BY <1>5, <2>3, <2>4
<1>13. at \in [1..n -> S]
  BY <1>10
<1> HIDE DEF at
<1> QED BY <1>1, <1>4, <1>11, <1>12, <1>13 DEF n

(* It is the only list of that kind.                                        *)
LEMMA AscendingOnly ==
  ASSUME NEW S \in SUBSET Nat, NEW n \in Nat, NEW f \in [1..n -> S],
         \A k, l \in 1..n : k < l => f[k] < f[l],
         \A x \in S : \E k \in 1..n : f[k] = x
  PROVE  IsFiniteSet(S) /\ Cardinality(S) = n /\ Ascending(S) = f
<1>1. \A k, l \in 1..n : f[k] < f[l] => k < l
  <2> SUFFICES ASSUME NEW k \in 1..n, NEW l \in 1..n, f[k] < f[l], ~(k < l) PROVE FALSE
    OBVIOUS
  <2>1. k = l \/ l < k
    OBVIOUS
  <2>2. f[k] \in Nat /\ f[l] \in Nat
    OBVIOUS
  <2> QED BY <2>1, <2>2
<1>2. \A k, l \in 1..n : f[k] = f[l] => k = l
  <2> SUFFICES ASSUME NEW k \in 1..n, NEW l \in 1..n, f[k] = f[l], k # l PROVE FALSE
    OBVIOUS
  <2>1. k < l \/ l < k
    OBVIOUS
  <2>2. f[k] \in Nat /\ f[l] \in Nat
    OBVIOUS
  <2> QED BY <2>1, <2>2
<1>3. ASSUME NEW m \in 0..n, NEW T, T = {x \in S : \E k \in 1..m : f[k] = x}
      PROVE  IsFiniteSet(T) /\ Cardinality(T) = m
  <2> DEFINE g == [k \in 1..m |-> f[k]]
  <2>1. \A k \in 1..m : k \in 1..n
    OBVIOUS
  <2>2. g \in [1..m -> T]
    BY <1>3, <2>1
  <2>3. \A k, l \in 1..m : g[k] = g[l] => k = l
    BY <1>2, <2>1
  <2>4. \A x \in T : \E k \in 1..m : g[k] = x
    BY <1>3
  <2> HIDE DEF g
  <2>5. g \in Bijection(1..m, T)
    BY <2>2, <2>3, <2>4 DEF Bijection, Injection, Surjection, IsInjective
  <2>6. ExistsBijection(1..m, T)
    BY <2>5 DEF ExistsBijection
  <2>7. IsFiniteSet(1..m) /\ Cardinality(1..m) = m
    BY FS_Interval
  <2> QED BY <2>6, <2>7, FS_Bijection
<1>4. IsFiniteSet(S) /\ Cardinality(S) = n
  <2>1. S = {x \in S : \E k \in 1..n : f[k] = x}
    OBVIOUS
  <2> QED BY <1>3, <2>1
<1>5. \A k \in 1..n : Cardinality({j \in S : j < f[k]}) = k - 1
  <2> TAKE k \in 1..n
  <2>1. k - 1 \in 0..n
    OBVIOUS
  <2>2. {j \in S : j < f[k]} = {x \in S : \E l \in 1..(k - 1) : f[l] = x}
    <3>1. ASSUME NEW j \in S, j < f[k] PROVE \E l \in 1..(k - 1) : f[l] = j
      <4>1. PICK l \in 1..n : f[l] = j
        OBVIOUS
      <4>2. l < k
        BY <1>1, <3>1, <4>1
      <4> QED BY <4>1, <4>2
    <3>2. ASSUME NEW l \in 1..(k - 1) PROVE f[l] < f[k]
      OBVIOUS
    <3> QED BY <3>1, <3>2
  <2> QED BY <1>3, <2>1, <2>2
<1>6. \A k \in 1..n : Ascending(S)[k] = f[k]
  <2> TAKE k \in 1..n
  <2> DEFINE Rank(x) == Cardinality({j \in S : j < x})
  <2>1. Ascending(S)[k] = CHOOSE i \in S : Rank(i) = k - 1
    BY <1>4 DEF Ascending
  <2>2. f[k] \in S /\ Rank(f[k]) = k - 1
    BY <1>5
  <2>3. ASSUME NEW i \in S, Rank(i) = k - 1 PROVE i = f[k]
    <3>1. PICK l \in 1..n : f[l] = i
      OBVIOUS
    <3>2. Rank(f[l]) = l - 1
      BY <1>5
    <3> HIDE DEF Rank
    <3> QED BY <2>3, <3>1, <3>2
  <2> HIDE DEF Rank
  <2> QED BY <2>1, <2>2, <2>3
<1>7. Ascending(S) = [k \in 1..n |-> Ascending(S)[k]]
  <2> DEFINE Nth(k) == CHOOSE i \in S : Cardinality({j \in S : j < i}) = k - 1
  <2>1. Ascending(S) = [k \in 1..n |-> Nth(k)]
    BY <1>4 DEF Ascending
  <2> HIDE DEF Nth
  <2> QED BY <2>1
<1> QED BY <1>4, <1>6, <1>7
----------------------------------------------------------------------------
(* The shape of a stack *)

Alike(e, f) == e.len = f.len /\ e.adjust = f.adjust

(* A shape has an item for every entry chosen.                              *)
LEMMA ShapeIs ==
  ASSUME NEW a, NEW I \in SUBSET Nat, IsFiniteSet(I)
  PROVE  Shape(a, I) = [k \in 1..Cardinality(I) |->
                          <<a[Ascending(I)[k]].len, a[Ascending(I)[k]].adjust>>]
<1>1. DOMAIN Ascending(I) = 1..Cardinality(I)
  BY AscendingIs
<1> QED BY <1>1 DEF Shape

(* Only the chosen entries matter.                                          *)
LEMMA ShapeSame ==
  ASSUME NEW a, NEW b, NEW I \in SUBSET Nat, IsFiniteSet(I), \A i \in I : Alike(a[i], b[i])
  PROVE  Shape(a, I) = Shape(b, I)
<1> DEFINE n == Cardinality(I)
           at == Ascending(I)
<1>1. \A k \in 1..n : at[k] \in I
  BY AscendingIs
<1>2. /\ Shape(a, I) = [k \in 1..n |-> <<a[at[k]].len, a[at[k]].adjust>>]
      /\ Shape(b, I) = [k \in 1..n |-> <<b[at[k]].len, b[at[k]].adjust>>]
  BY ShapeIs
<1> HIDE DEF n, at
<1>3. \A k \in 1..n : <<a[at[k]].len, a[at[k]].adjust>> = <<b[at[k]].len, b[at[k]].adjust>>
  BY <1>1 DEF Alike
<1> QED BY <1>2, <1>3

(* An entry above the chosen ones is listed after them.                     *)
LEMMA AscendingGrows ==
  ASSUME NEW I \in SUBSET Nat, IsFiniteSet(I), NEW x \in Nat, \A i \in I : i < x
  PROVE  /\ IsFiniteSet(I \cup {x}) /\ Cardinality(I \cup {x}) = Cardinality(I) + 1
         /\ Ascending(I \cup {x}) =
              [k \in 1..(Cardinality(I) + 1) |-> IF k = Cardinality(I) + 1 THEN x ELSE Ascending(I)[k]]
<1> DEFINE n == Cardinality(I)
           at == Ascending(I)
           f == [k \in 1..(n + 1) |-> IF k = n + 1 THEN x ELSE at[k]]
<1>1. /\ n \in Nat /\ at \in [1..n -> I]
      /\ \A k, l \in 1..n : k < l => at[k] < at[l]
      /\ \A i \in I : \E k \in 1..n : at[k] = i
  BY AscendingIs
<1> HIDE DEF n, at
<1>2. \A k \in 1..(n + 1) : k = n + 1 \/ k \in 1..n
  BY <1>1
<1>3. \A k \in 1..n : f[k] = at[k] /\ f[k] \in I /\ k # n + 1
  BY <1>1
<1>4. f[n + 1] = x
  BY <1>1
<1>5. f \in [1..(n + 1) -> I \cup {x}]
  BY <1>1, <1>2
<1> HIDE DEF f
<1>6. \A k, l \in 1..(n + 1) : k < l => f[k] < f[l]
  <2> SUFFICES ASSUME NEW k \in 1..(n + 1), NEW l \in 1..(n + 1), k < l PROVE f[k] < f[l]
    OBVIOUS
  <2>1. k \in 1..n
    BY <1>1
  <2>2. CASE l = n + 1
    BY <1>3, <1>4, <2>1, <2>2
  <2>3. CASE l \in 1..n
    BY <1>1, <1>3, <2>1, <2>3
  <2> QED BY <1>2, <2>2, <2>3
<1>7. \A y \in I \cup {x} : \E k \in 1..(n + 1) : f[k] = y
  <2> TAKE y \in I \cup {x}
  <2>1. CASE y = x
    BY <1>1, <1>4, <2>1
  <2>2. CASE y \in I
    <3>1. PICK k \in 1..n : at[k] = y
      BY <1>1, <2>2
    <3> QED BY <1>1, <1>3, <3>1
  <2> QED BY <2>1, <2>2
<1>8. I \cup {x} \in SUBSET Nat /\ n + 1 \in Nat
  BY <1>1
<1>9. IsFiniteSet(I \cup {x}) /\ Cardinality(I \cup {x}) = n + 1 /\ Ascending(I \cup {x}) = f
  BY <1>5, <1>6, <1>7, <1>8, AscendingOnly
<1> QED BY <1>9 DEF f, n, at

(* Equal shapes stay equal when both get an alike entry on top.             *)
LEMMA ShapesGrow ==
  ASSUME NEW c, NEW d, NEW I \in SUBSET Nat, IsFiniteSet(I), NEW x \in Nat, \A i \in I : i < x,
         NEW J \in SUBSET Nat, IsFiniteSet(J), NEW y \in Nat, \A j \in J : j < y,
         Shape(c, I) = Shape(d, J), Alike(c[x], d[y])
  PROVE  Shape(c, I \cup {x}) = Shape(d, J \cup {y})
<1> DEFINE n == Cardinality(I)
           m == Cardinality(J)
           at == Ascending(I)
           bt == Ascending(J)
           ct == Ascending(I \cup {x})
           dt == Ascending(J \cup {y})
<1>1. /\ n \in Nat /\ m \in Nat /\ \A k \in 1..n : at[k] \in I
      /\ \A k \in 1..m : bt[k] \in J
  BY AscendingIs
<1>2. /\ Shape(c, I) = [k \in 1..n |-> <<c[at[k]].len, c[at[k]].adjust>>]
      /\ Shape(d, J) = [k \in 1..m |-> <<d[bt[k]].len, d[bt[k]].adjust>>]
  BY ShapeIs
<1>3. Shape(c, I) = Shape(d, J)
  OBVIOUS
<1>4. /\ IsFiniteSet(I \cup {x}) /\ Cardinality(I \cup {x}) = n + 1
      /\ ct = [k \in 1..(n + 1) |-> IF k = n + 1 THEN x ELSE at[k]]
      /\ IsFiniteSet(J \cup {y}) /\ Cardinality(J \cup {y}) = m + 1
      /\ dt = [k \in 1..(m + 1) |-> IF k = m + 1 THEN y ELSE bt[k]]
  BY AscendingGrows
<1>5. I \cup {x} \in SUBSET Nat /\ J \cup {y} \in SUBSET Nat
  OBVIOUS
<1>6. /\ Shape(c, I \cup {x}) = [k \in 1..(n + 1) |-> <<c[ct[k]].len, c[ct[k]].adjust>>]
      /\ Shape(d, J \cup {y}) = [k \in 1..(m + 1) |-> <<d[dt[k]].len, d[dt[k]].adjust>>]
  <2>1. IsFiniteSet(I \cup {x}) /\ IsFiniteSet(J \cup {y})
    BY <1>4
  <2>2. Shape(c, I \cup {x}) = [k \in 1..Cardinality(I \cup {x}) |-> <<c[ct[k]].len, c[ct[k]].adjust>>]
    BY <1>5, <2>1, ShapeIs
  <2>3. Shape(d, J \cup {y}) = [k \in 1..Cardinality(J \cup {y}) |-> <<d[dt[k]].len, d[dt[k]].adjust>>]
    BY <1>5, <2>1, ShapeIs
  <2> HIDE DEF ct, dt
  <2> QED BY <1>4, <2>2, <2>3
<1> HIDE DEF n, m, at, bt, ct, dt
<1>7. n = m
  <2>1. DOMAIN Shape(c, I) = 1..n /\ DOMAIN Shape(d, J) = 1..m
    BY <1>2
  <2>2. 1..n = 1..m
    BY <1>3, <2>1
  <2> QED BY <1>1, <2>2
<1>8. \A k \in 1..n : <<c[at[k]].len, c[at[k]].adjust>> = <<d[bt[k]].len, d[bt[k]].adjust>>
  <2> TAKE k \in 1..n
  <2>1. Shape(c, I)[k] = <<c[at[k]].len, c[at[k]].adjust>>
    BY <1>2
  <2>2. Shape(d, J)[k] = <<d[bt[k]].len, d[bt[k]].adjust>>
    BY <1>2, <1>7
  <2> QED BY <1>3, <2>1, <2>2
<1>9. \A k \in 1..(n + 1) : <<c[ct[k]].len, c[ct[k]].adjust>> = <<d[dt[k]].len, d[dt[k]].adjust>>
  <2> TAKE k \in 1..(n + 1)
  <2>1. CASE k = n + 1
    <3>1. ct[k] = x /\ dt[k] = y
      BY <1>4, <1>7, <2>1
    <3> QED BY <3>1 DEF Alike
  <2>2. CASE k # n + 1
    <3>1. k \in 1..n
      BY <1>1, <2>2
    <3>2. ct[k] = at[k] /\ dt[k] = bt[k]
      BY <1>4, <1>7, <2>2
    <3> QED BY <1>8, <3>1, <3>2
  <2> QED BY <2>1, <2>2
<1> QED BY <1>6, <1>7, <1>9

(* The numbers of the entries that are left when others are dropped: the    *)
(* shape of the chosen ones among them stays.                               *)
LEMMA ShapeMoved ==
  ASSUME NEW a, NEW b, NEW L \in SUBSET Nat, IsFiniteSet(L), NEW I \in SUBSET L,
         \A k \in 1..Cardinality(L) : Alike(b[k], a[Ascending(L)[k]]),
         NEW J, J = {k \in 1..Cardinality(L) : Ascending(L)[k] \in I}
  PROVE  IsFiniteSet(J) /\ Shape(b, J) = Shape(a, I)
<1> DEFINE n == Cardinality(L)
           m == Cardinality(J)
           at == Ascending(L)
           jt == Ascending(J)
           f == [k \in 1..m |-> at[jt[k]]]
<1>1. /\ n \in Nat /\ at \in [1..n -> L]
      /\ \A k, l \in 1..n : k < l => at[k] < at[l]
      /\ \A x \in L : \E k \in 1..n : at[k] = x
  BY AscendingIs
<1>2. J \in SUBSET Nat /\ J \in SUBSET (1..n)
  OBVIOUS
<1>3. IsFiniteSet(J)
  <2>1. IsFiniteSet(1..n)
    BY <1>1, FS_Interval
  <2> QED BY <1>2, <2>1, FS_Subset
<1>4. /\ m \in Nat /\ jt \in [1..m -> J]
      /\ \A k, l \in 1..m : k < l => jt[k] < jt[l]
      /\ \A x \in J : \E k \in 1..m : jt[k] = x
  BY <1>2, <1>3, AscendingIs
<1>5. \A k \in 1..m : jt[k] \in 1..n /\ at[jt[k]] \in I
  BY <1>4
<1>6. I \in SUBSET Nat /\ \A x \in I : x \in L
  OBVIOUS
<1>7. Shape(b, J) = [k \in 1..m |-> <<b[jt[k]].len, b[jt[k]].adjust>>]
  BY <1>2, <1>3, ShapeIs
<1>8. \A k \in 1..n : Alike(b[k], a[at[k]])
  OBVIOUS
<1>9. \A k \in 1..n : at[k] \in I => k \in J
  OBVIOUS
<1> HIDE DEF n, m, at, jt
<1>10. /\ f \in [1..m -> I]
       /\ \A k, l \in 1..m : k < l => f[k] < f[l]
  BY <1>1, <1>4, <1>5
<1>11. \A x \in I : \E k \in 1..m : f[k] = x
  <2> TAKE x \in I
  <2>1. PICK l \in 1..n : at[l] = x
    BY <1>1, <1>6
  <2>2. PICK k \in 1..m : jt[k] = l
    BY <1>4, <1>9, <2>1
  <2> QED BY <2>1, <2>2
<1> HIDE DEF f
<1>12. IsFiniteSet(I) /\ Cardinality(I) = m /\ Ascending(I) = f
  BY <1>4, <1>6, <1>10, <1>11, AscendingOnly
<1>13. Shape(a, I) = [k \in 1..m |-> <<a[f[k]].len, a[f[k]].adjust>>]
  BY <1>6, <1>12, ShapeIs
<1>14. \A k \in 1..m : <<b[jt[k]].len, b[jt[k]].adjust>> = <<a[f[k]].len, a[f[k]].adjust>>
  <2> TAKE k \in 1..m
  <2>1. Alike(b[jt[k]], a[at[jt[k]]])
    BY <1>5, <1>8
  <2>2. f[k] = at[jt[k]]
    BY DEF f
  <2> QED BY <2>1, <2>2 DEF Alike
<1> QED BY <1>3, <1>7, <1>13, <1>14
----------------------------------------------------------------------------
(* The queue of a slave *)

(* The numbers of the acknowledgements of a queue.                          *)
LEMMA AcksAre ==
  ASSUME NEW c, IsSeq(c)
  PROVE  /\ Acks(c) = {i \in 1..Len(c) : c[i].type = "revertAck"}
         /\ Changes(c) = {i \in 1..Len(c) : c[i].type = "change"}
         /\ Acks(c) \subseteq Nat /\ Changes(c) \subseteq Nat /\ IsFiniteSet(Acks(c))
         /\ \A i \in Acks(c) : i \notin Changes(c)
<1>1. Len(c) \in Nat /\ DOMAIN c = 1..Len(c)
  BY DEF IsSeq
<1>2. /\ Acks(c) = {i \in 1..Len(c) : c[i].type = "revertAck"}
      /\ Changes(c) = {i \in 1..Len(c) : c[i].type = "change"}
  BY <1>1 DEF Acks, Changes
<1>3. IsFiniteSet(1..Len(c)) /\ Acks(c) \in SUBSET (1..Len(c))
  BY <1>1, <1>2, FS_Interval
<1>4. IsFiniteSet(Acks(c))
  BY <1>3, FS_Subset
<1> QED BY <1>1, <1>2, <1>4

(* A set of them has a first one.                                           *)
LEMMA FirstOf ==
  ASSUME NEW S \in SUBSET Nat, IsFiniteSet(S), S # {}
  PROVE  \E x \in S : \A y \in S : x <= y
<1> DEFINE n == Cardinality(S)
           at == Ascending(S)
<1>1. /\ n \in Nat /\ at \in [1..n -> S]
      /\ \A k, l \in 1..n : k < l => at[k] < at[l]
      /\ \A x \in S : \E k \in 1..n : at[k] = x
  BY AscendingIs
<1> HIDE DEF n, at
<1>2. 1 \in 1..n
  <2>1. PICK x \in S : TRUE
    OBVIOUS
  <2>2. PICK k \in 1..n : at[k] = x
    BY <1>1
  <2> QED BY <1>1, <2>2
<1>3. ASSUME NEW y \in S PROVE at[1] <= y
  <2>1. PICK k \in 1..n : at[k] = y
    BY <1>1
  <2>2. k = 1 \/ 1 < k
    BY <1>1
  <2>3. y \in Nat /\ at[1] \in Nat
    BY <1>1, <1>2
  <2> QED BY <1>1, <1>2, <2>1, <2>2, <2>3
<1> QED BY <1>1, <1>2, <1>3

(* What is in a queue after its head has been taken ...                     *)
LEMMA TailPackets ==
  ASSUME NEW c, IsSeq(c), c # <<>>
  PROVE  /\ IsSeq(Tail(c)) /\ Changes(Tail(c)) \subseteq Nat /\ Acks(Tail(c)) \subseteq Nat
         /\ \A i \in Changes(Tail(c)) : i + 1 \in Changes(c) /\ Tail(c)[i] = c[i + 1] /\ i >= 1
         /\ \A i \in Acks(Tail(c)) : i + 1 \in Acks(c) /\ Tail(c)[i] = c[i + 1] /\ i >= 1
         /\ \A i \in Changes(c) : i # 1 => i - 1 \in Changes(Tail(c)) /\ Tail(c)[i - 1] = c[i]
         /\ \A i \in Acks(c) : i # 1 => i - 1 \in Acks(Tail(c)) /\ Tail(c)[i - 1] = c[i]
<1> DEFINE n == Len(c)
           d == Tail(c)
<1>1. /\ IsSeq(d) /\ Len(d) = n - 1 /\ n \in Nat /\ n >= 1
      /\ \A i \in 1..(n - 1) : d[i] = c[i + 1]
  BY TailIsSeq
<1>2. /\ Acks(c) = {i \in 1..n : c[i].type = "revertAck"}
      /\ Changes(c) = {i \in 1..n : c[i].type = "change"}
  BY AcksAre
<1>3. /\ Acks(d) = {i \in 1..(n - 1) : d[i].type = "revertAck"}
      /\ Changes(d) = {i \in 1..(n - 1) : d[i].type = "change"}
  BY <1>1, AcksAre
<1> HIDE DEF n, d
<1>4. \A i \in 1..(n - 1) : i + 1 \in 1..n /\ i >= 1 /\ i \in Nat
  BY <1>1
<1>5. \A i \in 1..n : i # 1 => i - 1 \in 1..(n - 1) /\ (i - 1) + 1 = i
  BY <1>1
<1>6. \A i \in 1..n : i # 1 => d[i - 1] = c[i]
  <2> SUFFICES ASSUME NEW i \in 1..n, i # 1 PROVE d[i - 1] = c[i]
    OBVIOUS
  <2>1. PICK k \in 1..(n - 1) : k = i - 1 /\ k + 1 = i
    BY <1>5
  <2> QED BY <1>1, <2>1
<1> QED BY <1>1, <1>2, <1>3, <1>4, <1>5, <1>6 DEF d

(* ... and after a packet has been sent.                                    *)
LEMMA AppendPackets ==
  ASSUME NEW c, IsSeq(c), NEW m
  PROVE  /\ IsSeq(Append(c, m)) /\ Len(c) \in Nat
         /\ \A i \in Changes(c) \cup Acks(c) : i \in 1..Len(c) /\ Append(c, m)[i] = c[i]
         /\ Append(c, m)[Len(c) + 1] = m
         /\ m.type = "change" => /\ Changes(Append(c, m)) = Changes(c) \cup {Len(c) + 1}
                                 /\ Acks(Append(c, m)) = Acks(c)
         /\ m.type = "revertAck" => /\ Changes(Append(c, m)) = Changes(c)
                                    /\ Acks(Append(c, m)) = Acks(c) \cup {Len(c) + 1}
<1> DEFINE n == Len(c)
           d == Append(c, m)
<1>1. /\ IsSeq(d) /\ Len(d) = n + 1 /\ n \in Nat
      /\ \A i \in 1..n : d[i] = c[i]
      /\ d[n + 1] = m
  BY AppendIsSeq DEF IsSeq
<1>2. /\ Acks(c) = {i \in 1..n : c[i].type = "revertAck"}
      /\ Changes(c) = {i \in 1..n : c[i].type = "change"}
  BY AcksAre
<1>3. /\ Acks(d) = {i \in 1..(n + 1) : d[i].type = "revertAck"}
      /\ Changes(d) = {i \in 1..(n + 1) : d[i].type = "change"}
  BY <1>1, AcksAre
<1> HIDE DEF n, d
<1>4. 1..(n + 1) = 1..n \cup {n + 1} /\ n + 1 \notin 1..n
  BY <1>1
<1>5. \A i \in Changes(c) \cup Acks(c) : i \in 1..n /\ d[i] = c[i]
  BY <1>1, <1>2
<1>6. m.type = "change" => Changes(d) = Changes(c) \cup {n + 1} /\ Acks(d) = Acks(c)
  BY <1>1, <1>2, <1>3, <1>4
<1>7. m.type = "revertAck" => Changes(d) = Changes(c) /\ Acks(d) = Acks(c) \cup {n + 1}
  BY <1>1, <1>2, <1>3, <1>4
<1> QED BY <1>1, <1>5, <1>6, <1>7 DEF n, d
----------------------------------------------------------------------------
(* Expected acknowledgements *)

(* When the acknowledgements in a queue can be expected after its head, a   *)
(* change, was imported, dropped or refused, they could be before.          *)
LEMMA InStepChange ==
  ASSUME NEW c, IsSeq(c), c # <<>>, c[1].type = "change", NEW W, NEW V,
         V = W \/ (W = {} /\ V = {c[1].rev}), InStep(Tail(c), V)
  PROVE  InStep(c, W)
<1> DEFINE d == Tail(c)
<1>1. /\ Changes(d) \subseteq Nat /\ Acks(d) \subseteq Nat
      /\ \A i \in Changes(d) : i + 1 \in Changes(c) /\ d[i] = c[i + 1] /\ i >= 1
      /\ \A i \in Acks(d) : i + 1 \in Acks(c) /\ d[i] = c[i + 1] /\ i >= 1
      /\ \A i \in Acks(c) : i # 1 => i - 1 \in Acks(d) /\ d[i - 1] = c[i]
  BY TailPackets
<1>2. 1 \in Changes(c) /\ 1 \notin Acks(c) /\ Acks(c) \subseteq Nat
  BY AcksAre, TailIsSeq
<1>3. \A i \in Acks(c) : 1 < i
  BY <1>2, AcksAre
<1>4. \A b \in Acks(c) : \E b1 \in Acks(d) : b = b1 + 1 /\ d[b1] = c[b]
  <2> TAKE b \in Acks(c)
  <2>1. b # 1 /\ b \in Nat /\ b = (b - 1) + 1
    BY <1>2
  <2>2. b - 1 \in Acks(d) /\ d[b - 1] = c[b]
    BY <1>1, <2>1
  <2> QED BY <2>1, <2>2
<1>5. InStep(d, V)
  OBVIOUS
<1> HIDE DEF d
<1> SUFFICES ASSUME NEW a \in Acks(c) PROVE Expected(c, W, a)
  BY DEF InStep
<1>6. PICK a1 \in Acks(d) : a = a1 + 1 /\ d[a1] = c[a]
  BY <1>4
<1>7. CASE (\A b \in Acks(d) : b >= a1) /\ V = {d[a1].rev}
  <2>1. \A b \in Acks(c) : b >= a
    BY <1>1, <1>4, <1>6, <1>7
  <2>2. CASE V = W
    BY <1>6, <1>7, <2>1, <2>2 DEF Expected
  <2>3. CASE W = {} /\ V = {c[1].rev}
    <3>1. c[1].rev = c[a].rev
      BY <1>6, <1>7, <2>3
    <3> QED BY <1>2, <1>3, <2>1, <2>3, <3>1 DEF Expected
  <2> QED BY <2>2, <2>3
<1>8. CASE \E j \in Changes(d) : /\ j < a1 /\ d[j].rev = d[a1].rev
                                 /\ \A b \in Acks(d) : b < j \/ b >= a1
                                 /\ V # {} => \E b \in Acks(d) : b < j
  <2>1. PICK j \in Changes(d) : /\ j < a1 /\ d[j].rev = d[a1].rev
                                /\ \A b \in Acks(d) : b < j \/ b >= a1
                                /\ V # {} => \E b \in Acks(d) : b < j
    BY <1>8
  <2>2. j + 1 \in Changes(c) /\ c[j + 1] = d[j] /\ j + 1 < a
    BY <1>1, <1>6, <2>1
  <2>3. c[j + 1].rev = c[a].rev
    BY <1>6, <2>1, <2>2
  <2>4. \A b \in Acks(c) : b < j + 1 \/ b >= a
    BY <1>1, <1>4, <1>6, <2>1
  <2>5. W # {} => \E b \in Acks(c) : b < j + 1
    <3> SUFFICES ASSUME W # {} PROVE \E b \in Acks(c) : b < j + 1
      OBVIOUS
    <3>1. PICK b \in Acks(d) : b < j
      BY <2>1
    <3>2. b + 1 \in Acks(c) /\ b + 1 < j + 1
      BY <1>1, <3>1
    <3> QED BY <3>2
  <2> QED BY <2>2, <2>3, <2>4, <2>5 DEF Expected
<1> QED BY <1>5, <1>7, <1>8 DEF InStep, Expected

(* The same for an acknowledgement that the master waits for.               *)
LEMMA InStepAck ==
  ASSUME NEW c, IsSeq(c), c # <<>>, c[1].type = "revertAck", InStep(Tail(c), {})
  PROVE  InStep(c, {c[1].rev})
<1> DEFINE d == Tail(c)
<1>1. /\ Changes(d) \subseteq Nat /\ Acks(d) \subseteq Nat
      /\ \A i \in Changes(d) : i + 1 \in Changes(c) /\ d[i] = c[i + 1] /\ i >= 1
      /\ \A i \in Acks(c) : i # 1 => i - 1 \in Acks(d) /\ d[i - 1] = c[i]
  BY TailPackets
<1>2. 1 \in Acks(c) /\ Acks(c) \subseteq Nat /\ \A i \in Acks(c) : i >= 1
  BY AcksAre, TailIsSeq
<1>3. \A b \in Acks(c) : b = 1 \/ \E b1 \in Acks(d) : b = b1 + 1 /\ d[b1] = c[b]
  <2> SUFFICES ASSUME NEW b \in Acks(c), b # 1
               PROVE  \E b1 \in Acks(d) : b = b1 + 1 /\ d[b1] = c[b]
    OBVIOUS
  <2>1. b \in Nat /\ b = (b - 1) + 1
    BY <1>2
  <2>2. b - 1 \in Acks(d) /\ d[b - 1] = c[b]
    BY <1>1, <2>1
  <2> QED BY <2>1, <2>2
<1>4. InStep(d, {})
  OBVIOUS
<1> HIDE DEF d
<1> SUFFICES ASSUME NEW a \in Acks(c) PROVE Expected(c, {c[1].rev}, a)
  BY DEF InStep
<1>5. CASE a = 1
  BY <1>2, <1>5 DEF Expected
<1>6. CASE a # 1
  <2>1. PICK a1 \in Acks(d) : a = a1 + 1 /\ d[a1] = c[a]
    BY <1>3, <1>6
  <2>2. PICK j \in Changes(d) : /\ j < a1 /\ d[j].rev = d[a1].rev
                                /\ \A b \in Acks(d) : b < j \/ b >= a1
    BY <1>4 DEF InStep, Expected
  <2>3. j + 1 \in Changes(c) /\ c[j + 1] = d[j] /\ j + 1 < a /\ 1 < j + 1
    BY <1>1, <2>1, <2>2
  <2>4. c[j + 1].rev = c[a].rev
    BY <2>1, <2>2, <2>3
  <2>5. \A b \in Acks(c) : b < j + 1 \/ b >= a
    BY <1>1, <1>3, <2>1, <2>2, <2>3
  <2> QED BY <1>2, <2>3, <2>4, <2>5 DEF Expected
<1> QED BY <1>5, <1>6

(* They could also be before something was sent, ...                        *)
LEMMA InStepSent ==
  ASSUME NEW c, IsSeq(c), NEW m, m.type \in {"change", "revertAck"}, NEW W,
         InStep(Append(c, m), W)
  PROVE  InStep(c, W)
<1> DEFINE d == Append(c, m)
           n == Len(c)
<1>1. /\ n \in Nat
      /\ \A i \in Changes(c) \cup Acks(c) : i \in 1..n /\ d[i] = c[i]
      /\ Changes(d) \in {Changes(c), Changes(c) \cup {n + 1}}
      /\ Acks(d) \in {Acks(c), Acks(c) \cup {n + 1}}
  BY AppendPackets
<1>2. InStep(d, W)
  OBVIOUS
<1> HIDE DEF d, n
<1> SUFFICES ASSUME NEW a \in Acks(c) PROVE Expected(c, W, a)
  BY DEF InStep
<1>3. a \in 1..n /\ d[a] = c[a] /\ a \in Acks(d) /\ Acks(c) \subseteq Acks(d)
  BY <1>1
<1>4. CASE (\A b \in Acks(d) : b >= a) /\ W = {d[a].rev}
  BY <1>3, <1>4 DEF Expected
<1>5. CASE \E j \in Changes(d) : /\ j < a /\ d[j].rev = d[a].rev
                                 /\ \A b \in Acks(d) : b < j \/ b >= a
                                 /\ W # {} => \E b \in Acks(d) : b < j
  <2>1. PICK j \in Changes(d) : /\ j < a /\ d[j].rev = d[a].rev
                                /\ \A b \in Acks(d) : b < j \/ b >= a
                                /\ W # {} => \E b \in Acks(d) : b < j
    BY <1>5
  <2>2. j \in Changes(c) /\ d[j] = c[j] /\ j \in 1..n
    BY <1>1, <1>3, <2>1
  <2>3. W # {} => \E b \in Acks(c) : b < j
    BY <1>1, <2>1, <2>2
  <2> QED BY <1>3, <2>1, <2>2, <2>3 DEF Expected
<1> QED BY <1>2, <1>3, <1>4, <1>5 DEF InStep, Expected

(* ... and one just sent answers the only wait, or a change that the master *)
(* has still to refuse.                                                     *)
LEMMA ExpectedSent ==
  ASSUME NEW c, IsSeq(c), NEW m, m.type = "revertAck", NEW W, InStep(Append(c, m), W)
  PROVE  \/ Acks(c) = {} /\ W = {m.rev}
         \/ /\ W # {} => Acks(c) # {}
            /\ \E j \in Changes(c) : c[j].rev = m.rev /\ \A b \in Acks(c) : b < j
<1> DEFINE d == Append(c, m)
           n == Len(c)
<1>1. /\ n \in Nat
      /\ \A i \in Changes(c) \cup Acks(c) : i \in 1..n /\ d[i] = c[i]
      /\ Changes(d) = Changes(c) /\ Acks(d) = Acks(c) \cup {n + 1} /\ d[n + 1] = m
  BY AppendPackets
<1>2. Expected(d, W, n + 1)
  BY <1>1 DEF InStep
<1> HIDE DEF d, n
<1>3. \A b \in Acks(c) : b < n + 1 /\ ~(b >= n + 1)
  BY <1>1
<1>4. CASE (\A b \in Acks(d) : b >= n + 1) /\ W = {d[n + 1].rev}
  BY <1>1, <1>3, <1>4
<1>5. CASE \E j \in Changes(d) : /\ j < n + 1 /\ d[j].rev = d[n + 1].rev
                                 /\ \A b \in Acks(d) : b < j \/ b >= n + 1
                                 /\ W # {} => \E b \in Acks(d) : b < j
  BY <1>1, <1>3, <1>5
<1> QED BY <1>2, <1>4, <1>5 DEF Expected
----------------------------------------------------------------------------
(* Changes that survive in the queue of a slave *)

(* They are the same when the head of the queue has been taken, but for it. *)
LEMMA SurvivorsTail ==
  ASSUME NEW c, IsSeq(c), c # <<>>
  PROVE  /\ Survivors(c) \subseteq Changes(c) /\ Survivors(Tail(c)) \subseteq Changes(Tail(c))
         /\ \A i \in Survivors(Tail(c)) : i + 1 \in Survivors(c) /\ Tail(c)[i] = c[i + 1]
         /\ \A i \in Survivors(c) : i # 1 => i - 1 \in Survivors(Tail(c)) /\ Tail(c)[i - 1] = c[i]
<1> DEFINE d == Tail(c)
<1>1. /\ Changes(d) \subseteq Nat /\ Acks(d) \subseteq Nat
      /\ \A i \in Changes(d) : i + 1 \in Changes(c) /\ d[i] = c[i + 1] /\ i >= 1
      /\ \A i \in Acks(d) : i + 1 \in Acks(c) /\ d[i] = c[i + 1] /\ i >= 1
      /\ \A i \in Changes(c) : i # 1 => i - 1 \in Changes(d) /\ d[i - 1] = c[i]
      /\ \A i \in Acks(c) : i # 1 => i - 1 \in Acks(d) /\ d[i - 1] = c[i]
  BY TailPackets
<1>2. Changes(c) \subseteq Nat /\ Acks(c) \subseteq Nat
  BY AcksAre
<1> HIDE DEF d
<1>3. ASSUME NEW i \in Survivors(d) PROVE i + 1 \in Survivors(c) /\ d[i] = c[i + 1]
  <2>1. i \in Changes(d) /\ \A a \in Acks(d) : i < a => d[i].rev < d[a].rev
    BY DEF Survivors
  <2>2. i + 1 \in Changes(c) /\ d[i] = c[i + 1] /\ i >= 1 /\ i \in Nat
    BY <1>1, <2>1
  <2>3. ASSUME NEW a \in Acks(c), i + 1 < a PROVE c[i + 1].rev < c[a].rev
    <3>1. a # 1 /\ a \in Nat
      BY <1>2, <2>2, <2>3
    <3>2. a - 1 \in Acks(d) /\ d[a - 1] = c[a] /\ i < a - 1
      BY <1>1, <2>2, <2>3, <3>1
    <3>3. d[i].rev < d[a - 1].rev
      BY <2>1, <3>2
    <3> QED BY <2>2, <3>2, <3>3
  <2> QED BY <2>2, <2>3 DEF Survivors
<1>4. ASSUME NEW i \in Survivors(c), i # 1 PROVE i - 1 \in Survivors(d) /\ d[i - 1] = c[i]
  <2>1. i \in Changes(c) /\ \A a \in Acks(c) : i < a => c[i].rev < c[a].rev
    BY DEF Survivors
  <2>2. i - 1 \in Changes(d) /\ d[i - 1] = c[i] /\ i \in Nat
    BY <1>1, <1>2, <1>4, <2>1
  <2>3. ASSUME NEW a \in Acks(d), i - 1 < a PROVE d[i - 1].rev < d[a].rev
    <3>1. a + 1 \in Acks(c) /\ c[a + 1] = d[a] /\ i < a + 1
      BY <1>1, <2>2, <2>3
    <3>2. c[i].rev < c[a + 1].rev
      BY <2>1, <3>1
    <3> QED BY <2>2, <3>1, <3>2
  <2> QED BY <2>2, <2>3 DEF Survivors
<1>5. Survivors(c) \subseteq Changes(c) /\ Survivors(d) \subseteq Changes(d)
  BY DEF Survivors
<1> QED BY <1>3, <1>4, <1>5 DEF d

(* A change that the master imports survives: what is acknowledged after it *)
(* is newer, or it could not be expected any more.                          *)
LEMMA ImportedSurvives ==
  ASSUME NEW c, IsSeq(c), c # <<>>, c[1].type = "change", InOrder(c), InStep(Tail(c), {})
  PROVE  1 \in Survivors(c)
<1> DEFINE d == Tail(c)
<1>1. /\ Changes(d) \subseteq Nat /\ Acks(d) \subseteq Nat
      /\ \A i \in Changes(d) : i + 1 \in Changes(c) /\ d[i] = c[i + 1] /\ i >= 1
      /\ \A i \in Acks(c) : i # 1 => i - 1 \in Acks(d) /\ d[i - 1] = c[i]
  BY TailPackets
<1>2. 1 \in Changes(c)
  BY AcksAre, TailIsSeq
<1>3. InStep(d, {})
  OBVIOUS
<1> HIDE DEF d
<1>4. ASSUME NEW a \in Acks(c), 1 < a PROVE c[1].rev < c[a].rev
  <2>1. a - 1 \in Acks(d) /\ d[a - 1] = c[a]
    BY <1>1, <1>4
  <2>2. PICK j \in Changes(d) : d[j].rev = d[a - 1].rev
    BY <1>3, <2>1 DEF InStep, Expected
  <2>3. j + 1 \in Changes(c) /\ d[j] = c[j + 1] /\ 1 < j + 1
    BY <1>1
  <2>4. c[1].rev < c[j + 1].rev
    BY <1>2, <2>3 DEF InOrder
  <2> QED BY <2>1, <2>2, <2>3, <2>4
<1> QED BY <1>2, <1>4 DEF Survivors

(* While the master waits, the first acknowledgement is the one he waits for. *)
LEMMA WaitIsAnswered ==
  ASSUME NEW c, IsSeq(c), NEW w, InStep(c, {w}), Acks(c) # {}
  PROVE  \E a \in Acks(c) : c[a].rev = w
<1>1. Acks(c) \in SUBSET Nat /\ IsFiniteSet(Acks(c))
  BY AcksAre
<1>2. PICK a \in Acks(c) : \A b \in Acks(c) : a <= b
  BY <1>1, FirstOf
<1>3. Expected(c, {w}, a)
  BY DEF InStep
<1>4. CASE {w} = {c[a].rev}
  BY <1>4
<1>5. CASE \E j \in Changes(c) : j < a /\ \E b \in Acks(c) : b < j
  <2>1. PICK j \in Changes(c), b \in Acks(c) : j < a /\ b < j
    BY <1>5
  <2>2. j \in Nat /\ b \in Nat /\ a \in Nat
    BY AcksAre
  <2> QED BY <1>2, <2>1, <2>2
<1> QED BY <1>3, <1>4, <1>5 DEF Expected

(* A change sent survives; an acknowledgement ends the older ones.          *)
LEMMA SurvivorsSent ==
  ASSUME NEW c, IsSeq(c), NEW m
  PROVE  /\ m.type = "change" =>
              Survivors(Append(c, m)) = Survivors(c) \cup {Len(c) + 1}
         /\ m.type = "revertAck" =>
              Survivors(Append(c, m)) = {i \in Survivors(c) : c[i].rev < m.rev}
         /\ \A i \in Survivors(c) : Append(c, m)[i] = c[i]
<1> DEFINE d == Append(c, m)
           n == Len(c)
<1>1. /\ n \in Nat
      /\ \A i \in Changes(c) \cup Acks(c) : i \in 1..n /\ d[i] = c[i]
      /\ d[n + 1] = m
      /\ m.type = "change" => Changes(d) = Changes(c) \cup {n + 1} /\ Acks(d) = Acks(c)
      /\ m.type = "revertAck" => Changes(d) = Changes(c) /\ Acks(d) = Acks(c) \cup {n + 1}
  BY AppendPackets
<1> HIDE DEF d, n
<1>2. \A i \in Survivors(c) : i \in Changes(c)
  BY DEF Survivors
<1>3. ASSUME m.type = "change" PROVE Survivors(d) = Survivors(c) \cup {n + 1}
  <2>1. Changes(d) = Changes(c) \cup {n + 1} /\ Acks(d) = Acks(c)
    BY <1>1, <1>3
  <2>2. \A a \in Acks(d) : ~(n + 1 < a)
    BY <1>1, <2>1
  <2>3. n + 1 \in Survivors(d)
    BY <2>1, <2>2 DEF Survivors
  <2>4. ASSUME NEW i \in Changes(c) PROVE i \in Survivors(d) <=> i \in Survivors(c)
    BY <1>1, <2>1 DEF Survivors
  <2>5. \A i \in Survivors(d) : i \in Changes(d)
    BY DEF Survivors
  <2> QED BY <1>2, <2>1, <2>3, <2>4, <2>5
<1>4. ASSUME m.type = "revertAck" PROVE Survivors(d) = {i \in Survivors(c) : c[i].rev < m.rev}
  <2>1. Changes(d) = Changes(c) /\ Acks(d) = Acks(c) \cup {n + 1}
    BY <1>1, <1>4
  <2>2. ASSUME NEW i \in Changes(c)
        PROVE  i \in Survivors(d) <=> i \in Survivors(c) /\ c[i].rev < m.rev
    <3>1. i < n + 1 /\ d[i] = c[i] /\ d[n + 1] = m
      BY <1>1
    <3>2. \A a \in Acks(c) : d[a] = c[a]
      BY <1>1
    <3>3. i \in Survivors(d) <=> \A a \in Acks(d) : i < a => d[i].rev < d[a].rev
      BY <2>1 DEF Survivors
    <3>4. i \in Survivors(c) <=> \A a \in Acks(c) : i < a => c[i].rev < c[a].rev
      BY DEF Survivors
    <3> QED BY <2>1, <3>1, <3>2, <3>3, <3>4
  <2>3. \A i \in Survivors(d) : i \in Changes(c)
    BY <2>1 DEF Survivors
  <2> QED BY <1>2, <2>2, <2>3
<1>5. \A i \in Survivors(c) : d[i] = c[i]
  BY <1>1, <1>2
<1> QED BY <1>3, <1>4, <1>5 DEF d, n
----------------------------------------------------------------------------
(* Entries of a stack *)

(* The numbers of the entries of s and of the others.                       *)
LEMMA EntriesAre ==
  ASSUME NEW a, IsSeq(a), NEW s
  PROVE  /\ From(a, s) = {i \in 1..Len(a) : a[i].origin = s}
         /\ Alien(a, s) = {i \in 1..Len(a) : a[i].origin # s}
         /\ Len(a) \in Nat /\ From(a, s) \in SUBSET Nat /\ Alien(a, s) \in SUBSET Nat
         /\ IsFiniteSet(From(a, s)) /\ IsFiniteSet(Alien(a, s))
<1>1. Len(a) \in Nat /\ DOMAIN a = 1..Len(a)
  BY DEF IsSeq
<1>2. /\ From(a, s) = {i \in 1..Len(a) : a[i].origin = s}
      /\ Alien(a, s) = {i \in 1..Len(a) : a[i].origin # s}
  BY <1>1 DEF From, Alien
<1>3. IsFiniteSet(1..Len(a)) /\ From(a, s) \in SUBSET (1..Len(a)) /\ Alien(a, s) \in SUBSET (1..Len(a))
  BY <1>1, <1>2, FS_Interval
<1>4. IsFiniteSet(From(a, s)) /\ IsFiniteSet(Alien(a, s))
  BY <1>3, FS_Subset
<1> QED BY <1>1, <1>2, <1>3, <1>4

(* A push adds one of them.                                                 *)
LEMMA EntryPushed ==
  ASSUME NEW a, IsSeq(a), NEW e, NEW s
  PROVE  /\ IsSeq(Append(a, e)) /\ Len(a) \in Nat /\ Append(a, e)[Len(a) + 1] = e
         /\ From(Append(a, e), s) = From(a, s) \cup (IF e.origin = s THEN {Len(a) + 1} ELSE {})
         /\ Alien(Append(a, e), s) = Alien(a, s) \cup (IF e.origin = s THEN {} ELSE {Len(a) + 1})
         /\ \A i \in From(a, s) \cup Alien(a, s) : i \in 1..Len(a)
         /\ \A i \in 1..Len(a) : Append(a, e)[i] = a[i] /\ i < Len(a) + 1
<1> DEFINE b == Append(a, e)
           n == Len(a)
<1>1. /\ IsSeq(b) /\ Len(b) = n + 1 /\ n \in Nat
      /\ \A i \in 1..n : b[i] = a[i]
      /\ b[n + 1] = e
  BY AppendIsSeq DEF IsSeq
<1>2. /\ From(a, s) = {i \in 1..n : a[i].origin = s} /\ Alien(a, s) = {i \in 1..n : a[i].origin # s}
      /\ From(b, s) = {i \in 1..(n + 1) : b[i].origin = s}
      /\ Alien(b, s) = {i \in 1..(n + 1) : b[i].origin # s}
  <2>1. From(a, s) = {i \in 1..n : a[i].origin = s} /\ Alien(a, s) = {i \in 1..n : a[i].origin # s}
    BY EntriesAre
  <2> HIDE DEF b, n
  <2>2. /\ From(b, s) = {i \in 1..Len(b) : b[i].origin = s}
        /\ Alien(b, s) = {i \in 1..Len(b) : b[i].origin # s}
    BY <1>1, EntriesAre
  <2> QED BY <1>1, <2>1, <2>2
<1> HIDE DEF b, n
<1>3. 1..(n + 1) = 1..n \cup {n + 1} /\ n + 1 \notin 1..n /\ \A i \in 1..n : i < n + 1
  BY <1>1
<1>4. From(b, s) = From(a, s) \cup (IF e.origin = s THEN {n + 1} ELSE {})
  BY <1>1, <1>2, <1>3
<1>5. Alien(b, s) = Alien(a, s) \cup (IF e.origin = s THEN {} ELSE {n + 1})
  BY <1>1, <1>2, <1>3
<1> QED BY <1>1, <1>2, <1>3, <1>4, <1>5 DEF b, n

(* The own entries of a slave are told apart by their revisions, which grow. *)
LEMMA OwnEntries ==
  ASSUME NEW a, NEW s, NEW top, SlaveStack(a, s, top)
  PROVE  /\ IsSeq(a) /\ top \in Nat /\ Len(a) \in Nat
         /\ \A k \in From(a, s) : k \in 2..Len(a) /\ a[k].rev \in Nat /\ a[k].rev <= top
         /\ \A k, l \in From(a, s) : a[k].rev < a[l].rev => k < l
         /\ \A k, l \in From(a, s) : k < l => a[k].rev < a[l].rev
         /\ \A k, l \in From(a, s) : a[k].rev = a[l].rev => k = l
<1>1. /\ IsSeq(a) /\ top \in Nat /\ a[1].origin # s
      /\ \A i \in 2..Len(a) : a[i].rev \in Nat /\ a[i].rev <= top
      /\ \A i, j \in 2..Len(a) : i < j => a[i].rev < a[j].rev
  BY DEF SlaveStack
<1>2. Len(a) \in Nat /\ From(a, s) = {i \in 1..Len(a) : a[i].origin = s}
  BY <1>1, EntriesAre
<1>3. \A k \in From(a, s) : k \in 2..Len(a) /\ a[k].rev \in Nat /\ a[k].rev <= top
  <2> TAKE k \in From(a, s)
  <2>1. k # 1 /\ k \in 1..Len(a)
    BY <1>1, <1>2
  <2>2. k \in 2..Len(a)
    BY <1>2, <2>1
  <2> QED BY <1>1, <2>2
<1>4. \A k, l \in From(a, s) : k < l => a[k].rev < a[l].rev
  BY <1>1, <1>3
<1>5. ASSUME NEW k \in From(a, s), NEW l \in From(a, s)
      PROVE  /\ a[k].rev < a[l].rev => k < l
             /\ a[k].rev = a[l].rev => k = l
  <2>1. k \in Nat /\ l \in Nat /\ a[k].rev \in Nat /\ a[l].rev \in Nat
    BY <1>3
  <2>2. k < l \/ k = l \/ l < k
    BY <2>1
  <2>3. k < l => a[k].rev < a[l].rev
    BY <1>4
  <2>4. l < k => a[l].rev < a[k].rev
    BY <1>4
  <2> QED BY <2>1, <2>2, <2>3, <2>4
<1> QED BY <1>1, <1>2, <1>3, <1>4, <1>5
----------------------------------------------------------------------------
(* The changes of a slave on both stacks (OwnAgree) *)

(* The head of the queue goes and what is pending stays.                    *)
LEMMA OwnStays ==
  ASSUME NEW c, IsSeq(c), c # <<>>, NEW st, NEW his, NEW s, NEW W, NEW V,
         OwnAgree(st, his, s, c, W), Pending(st, s, Tail(c), V) = Pending(st, s, c, W)
  PROVE  OwnAgree(st, his, s, Tail(c), V)
<1> DEFINE d == Tail(c)
           P == Pending(st, s, c, W)
<1>1. \A i \in Survivors(d) : i + 1 \in Survivors(c) /\ d[i] = c[i + 1]
  BY SurvivorsTail
<1>2. \A i \in Changes(d) : i + 1 \in Changes(c) /\ d[i] = c[i + 1]
  BY TailPackets
<1>3. /\ \A i \in Survivors(c) :
           \E k \in From(st, s) : st[k].rev = c[i].rev /\ SameChange(c[i], st[k])
      /\ \A k \in From(st, s) \ P : \A i \in Changes(c) : st[k].rev < c[i].rev
      /\ Shape(his, From(his, s)) = Shape(st, From(st, s) \ P)
  BY DEF OwnAgree
<1>4. Pending(st, s, d, V) = P
  OBVIOUS
<1> HIDE DEF d, P
<1>5. \A i \in Survivors(d) :
        \E k \in From(st, s) : st[k].rev = d[i].rev /\ SameChange(d[i], st[k])
  BY <1>1, <1>3
<1>6. \A k \in From(st, s) \ P : \A i \in Changes(d) : st[k].rev < d[i].rev
  BY <1>2, <1>3
<1>7. OwnAgree(st, his, s, d, V)
  BY <1>3, <1>4, <1>5, <1>6 DEF OwnAgree
<1> QED BY <1>7 DEF d

(* When the head is no survivor, the survivors have the same revisions.     *)
LEMMA SurvivorsStay ==
  ASSUME NEW c, IsSeq(c), c # <<>>, 1 \notin Survivors(c), NEW r
  PROVE  (\E i \in Survivors(Tail(c)) : Tail(c)[i].rev = r) <=> (\E i \in Survivors(c) : c[i].rev = r)
<1>1. /\ \A i \in Survivors(Tail(c)) : i + 1 \in Survivors(c) /\ Tail(c)[i] = c[i + 1]
      /\ \A i \in Survivors(c) : i # 1 => i - 1 \in Survivors(Tail(c)) /\ Tail(c)[i - 1] = c[i]
  BY SurvivorsTail
<1>2. ASSUME NEW i \in Survivors(Tail(c)), Tail(c)[i].rev = r
      PROVE  \E j \in Survivors(c) : c[j].rev = r
  BY <1>1, <1>2
<1>3. ASSUME NEW i \in Survivors(c), c[i].rev = r
      PROVE  \E j \in Survivors(Tail(c)) : Tail(c)[j].rev = r
  BY <1>1, <1>3
<1> QED BY <1>2, <1>3

(* Whether there are acknowledgements in a queue without its first packet.  *)
LEMMA AcksTail ==
  ASSUME NEW c, IsSeq(c), c # <<>>, c[1].type = "change"
  PROVE  (Acks(Tail(c)) = {} <=> Acks(c) = {}) /\ 1 \notin Acks(c) /\ 1 \in Changes(c)
<1>1. /\ \A i \in Acks(Tail(c)) : i + 1 \in Acks(c)
      /\ \A i \in Acks(c) : i # 1 => i - 1 \in Acks(Tail(c))
  BY TailPackets
<1>2. 1 \notin Acks(c) /\ 1 \in Changes(c)
  BY AcksAre, TailIsSeq
<1> QED BY <1>1, <1>2

(* A change that an expected acknowledgement takes back does not survive.   *)
LEMMA TakenBackIsGone ==
  ASSUME NEW c, IsSeq(c), c # <<>>, c[1].type = "change", c[1].rev \in Nat,
         NEW a \in Acks(c), c[a].rev \in Nat, c[a].rev <= c[1].rev
  PROVE  1 \notin Survivors(c)
<1>1. 1 < a
  BY AcksAre, AcksTail
<1> QED BY <1>1 DEF Survivors

(* The master refuses the change at the head.                               *)
LEMMA OwnRefused ==
  ASSUME NEW c, IsSeq(c), c # <<>>, c[1].type = "change", NEW st, NEW his, NEW s, NEW top,
         SlaveStack(st, s, top), SlaveQueue(c, {}, top), InStep(Tail(c), {c[1].rev}),
         OwnAgree(st, his, s, c, {})
  PROVE  OwnAgree(st, his, s, Tail(c), {c[1].rev})
<1> DEFINE d == Tail(c)
           w == c[1].rev
           P == Pending(st, s, c, {})
<1>1. /\ 1 \in Changes(c) /\ 1 \notin Acks(c) /\ (Acks(d) = {} <=> Acks(c) = {})
  BY AcksTail
<1>2. /\ \A k \in From(st, s) : st[k].rev \in Nat
      /\ InOrder(c) /\ \A i \in Changes(c) : c[i].rev \in Nat
  BY OwnEntries DEF SlaveQueue
<1>3. P = {k \in From(st, s) : \E i \in Survivors(c) : c[i].rev = st[k].rev}
  BY DEF Pending
<1>4. \A k \in From(st, s) \ P : st[k].rev < w
  BY <1>1 DEF OwnAgree
<1>5. Pending(st, s, d, {w}) = P
  <2>1. CASE Acks(c) = {}
    <3>1. Pending(st, s, d, {w}) = {k \in From(st, s) : st[k].rev >= w}
      BY <1>1, <2>1 DEF Pending
    <3>2. ASSUME NEW k \in P PROVE st[k].rev >= w
      <4>1. PICK i \in Survivors(c) : c[i].rev = st[k].rev
        BY <1>3
      <4>2. i \in Changes(c)
        BY DEF Survivors
      <4>3. i = 1 \/ 1 < i
        BY <4>2, AcksAre
      <4> QED BY <1>1, <1>2, <4>1, <4>2, <4>3 DEF InOrder
    <3>3. ASSUME NEW k \in From(st, s), st[k].rev >= w PROVE k \in P
      <4>1. st[k].rev \in Nat /\ w \in Nat
        BY <1>1, <1>2
      <4> HIDE DEF P, w
      <4> QED BY <1>4, <3>3, <4>1
    <3>4. P \subseteq From(st, s)
      BY <1>3
    <3> HIDE DEF P, w, d
    <3> QED BY <3>1, <3>2, <3>3, <3>4
  <2>2. CASE Acks(c) # {}
    <3>1. IsSeq(d) /\ InStep(d, {w}) /\ Acks(d) # {}
      BY <1>1, <2>2, TailIsSeq
    <3>2. PICK a \in Acks(d) : d[a].rev = w
      <4> HIDE DEF d, w
      <4> QED BY <3>1, WaitIsAnswered
    <3>3. PICK b \in Acks(c) : c[b] = d[a]
      BY TailPackets
    <3>4. 1 \notin Survivors(c)
      <4>1. c[b].rev = c[1].rev /\ c[1].rev \in Nat
        BY <1>1, <1>2, <3>2, <3>3
      <4>2. c[b].rev \in Nat /\ c[b].rev <= c[1].rev
        BY <4>1
      <4> QED BY <4>1, <4>2, TakenBackIsGone
    <3>5. Pending(st, s, d, {w}) = {k \in From(st, s) : \E i \in Survivors(d) : d[i].rev = st[k].rev}
      BY <1>1, <2>2 DEF Pending
    <3>6. \A k \in From(st, s) : (\E i \in Survivors(d) : d[i].rev = st[k].rev)
                                  <=> (\E i \in Survivors(c) : c[i].rev = st[k].rev)
      BY <3>4, SurvivorsStay
    <3> HIDE DEF P, w, d
    <3> QED BY <1>3, <3>5, <3>6
  <2> QED BY <2>1, <2>2
<1> QED BY <1>5, OwnStays

(* The master drops the change at the head.                                 *)
LEMMA OwnIgnored ==
  ASSUME NEW c, IsSeq(c), c # <<>>, c[1].type = "change", NEW st, NEW his, NEW s, NEW top, NEW w,
         SlaveQueue(c, {w}, top), InStep(c, {w}), OwnAgree(st, his, s, c, {w})
  PROVE  OwnAgree(st, his, s, Tail(c), {w})
<1> DEFINE d == Tail(c)
           P == Pending(st, s, c, {w})
<1>1. 1 \in Changes(c) /\ 1 \notin Acks(c) /\ (Acks(d) = {} <=> Acks(c) = {})
  BY AcksTail
<1>2. w \in Nat /\ c[1].rev \in Nat /\ w < c[1].rev
  BY <1>1 DEF SlaveQueue
<1>3. Pending(st, s, d, {w}) = P
  <2>1. CASE Acks(c) = {}
    BY <1>1, <2>1 DEF Pending
  <2>2. CASE Acks(c) # {}
    <3>1. PICK a \in Acks(c) : c[a].rev = w
      BY <2>2, WaitIsAnswered
    <3>2. 1 \notin Survivors(c)
      BY <1>2, <3>1, TakenBackIsGone
    <3>3. /\ Pending(st, s, d, {w}) =
                {k \in From(st, s) : \E i \in Survivors(d) : d[i].rev = st[k].rev}
          /\ P = {k \in From(st, s) : \E i \in Survivors(c) : c[i].rev = st[k].rev}
      BY <1>1, <2>2 DEF Pending
    <3>4. \A k \in From(st, s) : (\E i \in Survivors(d) : d[i].rev = st[k].rev)
                                  <=> (\E i \in Survivors(c) : c[i].rev = st[k].rev)
      BY <3>2, SurvivorsStay
    <3> HIDE DEF P, d
    <3> QED BY <3>3, <3>4
  <2> QED BY <2>1, <2>2
<1> QED BY <1>3, OwnStays

(* The master gets the acknowledgement he waits for.                        *)
LEMMA OwnAcked ==
  ASSUME NEW c, IsSeq(c), c # <<>>, c[1].type = "revertAck", NEW st, NEW his, NEW s, NEW w,
         OwnAgree(st, his, s, c, {w})
  PROVE  OwnAgree(st, his, s, Tail(c), {})
<1> DEFINE d == Tail(c)
<1>1. 1 \in Acks(c) /\ 1 \notin Changes(c)
  BY AcksAre, TailIsSeq
<1>2. 1 \notin Survivors(c)
  BY <1>1 DEF Survivors
<1>3. /\ Pending(st, s, d, {}) = {k \in From(st, s) : \E i \in Survivors(d) : d[i].rev = st[k].rev}
      /\ Pending(st, s, c, {w}) = {k \in From(st, s) : \E i \in Survivors(c) : c[i].rev = st[k].rev}
  BY <1>1 DEF Pending
<1>4. \A k \in From(st, s) : (\E i \in Survivors(d) : d[i].rev = st[k].rev)
                              <=> (\E i \in Survivors(c) : c[i].rev = st[k].rev)
  BY <1>2, SurvivorsStay
<1>5. Pending(st, s, d, {}) = Pending(st, s, c, {w})
  <2> HIDE DEF d
  <2> QED BY <1>3, <1>4
<1> QED BY <1>5, OwnStays

(* The master imports the change at the head, which the slave has not taken *)
(* back: the oldest pending one goes on top of the stack of the master.     *)
LEMMA OwnAccepted ==
  ASSUME NEW c, IsSeq(c), c # <<>>, c[1].type = "change", NEW st, NEW his, IsSeq(his), NEW s, NEW top,
         SlaveStack(st, s, top), SlaveQueue(c, {}, top), InStep(Tail(c), {}),
         OwnAgree(st, his, s, c, {}), NEW e, e.origin = s, SameChange(c[1], e)
  PROVE  OwnAgree(st, Append(his, e), s, Tail(c), {})
<1> DEFINE d == Tail(c)
           P == Pending(st, s, c, {})
           Q == Pending(st, s, d, {})
           F == From(st, s)
<1>1. /\ 1 \in Changes(c)
      /\ InOrder(c) /\ \A i \in Changes(c) : c[i].rev \in Nat
  BY AcksTail DEF SlaveQueue
<1>2. 1 \in Survivors(c)
  BY <1>1, ImportedSurvives
<1>3. /\ \A i \in Survivors(c) :
           \E k \in F : st[k].rev = c[i].rev /\ SameChange(c[i], st[k])
      /\ \A k \in F \ P : \A i \in Changes(c) : st[k].rev < c[i].rev
      /\ Shape(his, From(his, s)) = Shape(st, F \ P)
  BY DEF OwnAgree
<1>4. /\ \A i \in Survivors(d) : i + 1 \in Survivors(c) /\ d[i] = c[i + 1]
      /\ \A i \in Survivors(c) : i # 1 => i - 1 \in Survivors(d) /\ d[i - 1] = c[i]
      /\ Survivors(c) \subseteq Changes(c) /\ Survivors(d) \subseteq Changes(d)
  BY SurvivorsTail
<1>5. \A i \in Changes(d) : i + 1 \in Changes(c) /\ d[i] = c[i + 1] /\ 1 < i + 1
  <2> TAKE i \in Changes(d)
  <2>1. i + 1 \in Changes(c) /\ d[i] = c[i + 1] /\ i >= 1 /\ i \in Nat
    BY TailPackets
  <2> HIDE DEF d
  <2> QED BY <2>1
<1>6. /\ \A k \in F : st[k].rev \in Nat /\ k \in 2..Len(st)
      /\ \A k, l \in F : st[k].rev < st[l].rev => k < l
      /\ \A k, l \in F : st[k].rev = st[l].rev => k = l
  BY OwnEntries
<1>7. /\ F \in SUBSET Nat /\ IsFiniteSet(F)
  BY EntriesAre DEF SlaveStack
<1>8. /\ P = {k \in F : \E i \in Survivors(c) : c[i].rev = st[k].rev}
      /\ Q = {k \in F : \E i \in Survivors(d) : d[i].rev = st[k].rev}
  BY DEF Pending
<1> HIDE DEF d, P, Q, F
<1>9. PICK k \in F : st[k].rev = c[1].rev /\ SameChange(c[1], st[k])
  BY <1>2, <1>3
<1>10. \A i \in Survivors(d) : c[1].rev < d[i].rev
  BY <1>1, <1>4, <1>5 DEF InOrder
<1>11. k \notin Q /\ k \in P
  <2>1. k \in P
    BY <1>2, <1>8, <1>9
  <2>2. ASSUME NEW i \in Survivors(d), d[i].rev = st[k].rev PROVE FALSE
    BY <1>1, <1>9, <1>10, <2>2
  <2> QED BY <1>8, <2>1, <2>2
<1>12. P = Q \cup {k}
  <2>1. ASSUME NEW x \in P PROVE x \in Q \cup {k}
    <3>1. x \in F
      BY <1>8
    <3>2. PICK i \in Survivors(c) : c[i].rev = st[x].rev
      BY <1>8
    <3>3. CASE i = 1
      BY <1>6, <1>9, <3>1, <3>2, <3>3
    <3>4. CASE i # 1
      BY <1>4, <1>8, <3>1, <3>2, <3>4
    <3> QED BY <3>3, <3>4
  <2>2. ASSUME NEW x \in Q PROVE x \in P
    <3>1. x \in F
      BY <1>8
    <3>2. PICK i \in Survivors(d) : d[i].rev = st[x].rev
      BY <1>8
    <3> QED BY <1>4, <1>8, <3>1, <3>2
  <2> QED BY <1>11, <2>1, <2>2
<1>13. F \ Q = (F \ P) \cup {k} /\ k \notin F \ P
  BY <1>11, <1>12
<1>14. \A x \in F \ P : x < k
  BY <1>1, <1>3, <1>6, <1>9
<1>15. \A i \in Survivors(d) : \E x \in F : st[x].rev = d[i].rev /\ SameChange(d[i], st[x])
  BY <1>3, <1>4
<1>16. \A x \in F \ Q : \A i \in Changes(d) : st[x].rev < d[i].rev
  <2> TAKE x \in F \ Q
  <2> TAKE i \in Changes(d)
  <2>1. i + 1 \in Changes(c) /\ d[i] = c[i + 1] /\ 1 < i + 1
    BY <1>5
  <2>2. CASE x \in F \ P
    BY <1>3, <2>1, <2>2
  <2>3. CASE x = k
    BY <1>1, <1>9, <2>1, <2>3 DEF InOrder
  <2> QED BY <1>13, <2>2, <2>3
<1>17. Shape(Append(his, e), From(Append(his, e), s)) = Shape(st, F \ Q)
  <2> DEFINE x == Len(his) + 1
             I == From(his, s)
             J == F \ P
             b == Append(his, e)
  <2>1. /\ x \in Nat /\ b[x] = e /\ From(b, s) = I \cup {x}
        /\ \A i \in I : b[i] = his[i] /\ i < x
    BY EntryPushed
  <2>2. I \in SUBSET Nat /\ IsFiniteSet(I)
    BY EntriesAre
  <2>3. J \in SUBSET Nat /\ IsFiniteSet(J)
    <3>1. J \in SUBSET F
      OBVIOUS
    <3> QED BY <1>7, <3>1, FS_Subset
  <2>5. Alike(b[x], st[k])
    BY <1>9, <2>1 DEF SameChange, Alike
  <2>6. k \in Nat /\ x \in Nat
    BY <1>7, <2>1
  <2>7. \A i \in I : Alike(his[i], b[i])
    BY <2>1 DEF Alike
  <2>8. \A j \in J : j < k
    BY <1>14
  <2>4. Shape(b, I) = Shape(st, J)
    <3>1. Shape(his, I) = Shape(st, J)
      BY <1>3
    <3> HIDE DEF I, J, b
    <3>2. Shape(his, I) = Shape(b, I)
      BY <2>2, <2>7, ShapeSame
    <3> QED BY <3>1, <3>2
  <2>10. \A i \in I : i < x
    BY <2>1
  <2> HIDE DEF x, I, J, b
  <2>9. Shape(b, I \cup {x}) = Shape(st, J \cup {k})
    BY <2>2, <2>3, <2>4, <2>5, <2>6, <2>8, <2>10, ShapesGrow
  <2> QED BY <1>13, <2>1, <2>9 DEF J, b
<1>18. OwnAgree(st, Append(his, e), s, d, {})
  BY <1>15, <1>16, <1>17 DEF OwnAgree, F, Q
<1> QED BY <1>18 DEF d
----------------------------------------------------------------------------
(* A change of the slave goes on its stack and into its queue.              *)
LEMMA OwnPush ==
  ASSUME NEW c, IsSeq(c), NEW st, NEW his, NEW s, NEW top, NEW W,
         SlaveStack(st, s, top), SlaveQueue(c, W, top), OwnAgree(st, his, s, c, W),
         NEW m, m.type = "change", m.rev = top + 1,
         NEW e, e.origin = s, e.rev = top + 1, SameChange(m, e)
  PROVE  OwnAgree(Append(st, e), his, s, Append(c, m), W)
<1> DEFINE d == Append(c, m)
           b == Append(st, e)
           F == From(st, s)
           P == Pending(st, s, c, W)
           Q == Pending(b, s, d, W)
           x == Len(st) + 1
           y == Len(c) + 1
<1>1. /\ IsSeq(st) /\ top \in Nat
      /\ \A k \in F : st[k].rev \in Nat /\ st[k].rev <= top
  BY OwnEntries
<1>2. /\ From(b, s) = F \cup {x} /\ b[x] = e /\ x \notin F
      /\ \A k \in F : b[k] = st[k]
  <2>1. /\ From(b, s) = F \cup {x} /\ b[x] = e /\ Len(st) \in Nat
        /\ \A k \in F : k \in 1..Len(st)
        /\ \A k \in 1..Len(st) : b[k] = st[k]
    BY <1>1, EntryPushed
  <2> HIDE DEF F, b
  <2> QED BY <2>1
<1>3. /\ Changes(d) = Changes(c) \cup {y} /\ Acks(d) = Acks(c)
      /\ d[y] = m /\ \A i \in Changes(c) : d[i] = c[i]
  BY AppendPackets
<1>4. /\ Survivors(d) = Survivors(c) \cup {y} /\ Survivors(c) \subseteq Changes(c)
  BY SurvivorsSent DEF Survivors
<1>5. /\ \A i \in Survivors(c) : \E k \in F : st[k].rev = c[i].rev /\ SameChange(c[i], st[k])
      /\ \A k \in F \ P : \A i \in Changes(c) : st[k].rev < c[i].rev
      /\ Shape(his, From(his, s)) = Shape(st, F \ P)
  BY DEF OwnAgree
<1>6. /\ \A i \in Changes(c) : c[i].rev \in Nat /\ c[i].rev <= top
      /\ \A w \in W : w \in Nat /\ w <= top
  BY DEF SlaveQueue
<1>7. Q = {k \in From(b, s) :
             IF W # {} /\ Acks(d) = {} THEN \E w \in W : b[k].rev >= w
             ELSE \E i \in Survivors(d) : d[i].rev = b[k].rev}
  BY DEF Pending
<1>8. P = {k \in F :
             IF W # {} /\ Acks(c) = {} THEN \E w \in W : st[k].rev >= w
             ELSE \E i \in Survivors(c) : c[i].rev = st[k].rev}
  BY DEF Pending
<1> HIDE DEF d, b, F, P, Q, x, y
<1>9. x \in Q
  <2>1. CASE W # {} /\ Acks(c) = {}
    <3>1. PICK w \in W : w \in Nat /\ w <= top
      BY <1>6, <2>1
    <3>2. b[x].rev >= w
      BY <1>1, <1>2, <3>1
    <3> QED BY <1>2, <1>3, <1>7, <2>1, <3>2
  <2>2. CASE ~(W # {} /\ Acks(c) = {})
    <3>1. y \in Survivors(d) /\ d[y].rev = b[x].rev
      BY <1>2, <1>3, <1>4
    <3> QED BY <1>2, <1>3, <1>7, <2>2, <3>1
  <2> QED BY <2>1, <2>2
<1>10. \A k \in F : k \in Q <=> k \in P
  <2> TAKE k \in F
  <2>1. CASE W # {} /\ Acks(c) = {}
    BY <1>2, <1>3, <1>7, <1>8, <2>1
  <2>2. CASE ~(W # {} /\ Acks(c) = {})
    <3>1. k \in Q <=> \E i \in Survivors(d) : d[i].rev = st[k].rev
      BY <1>2, <1>3, <1>7, <2>2
    <3>2. k \in P <=> \E i \in Survivors(c) : c[i].rev = st[k].rev
      BY <1>8, <2>2
    <3>3. d[y].rev # st[k].rev
      BY <1>1, <1>3
    <3> QED BY <1>3, <1>4, <3>1, <3>2, <3>3
  <2> QED BY <2>1, <2>2
<1>11. From(b, s) \ Q = F \ P
  BY <1>2, <1>9, <1>10
<1>12. \A i \in Survivors(d) : \E k \in From(b, s) : b[k].rev = d[i].rev /\ SameChange(d[i], b[k])
  <2> TAKE i \in Survivors(d)
  <2>1. CASE i = y
    BY <1>2, <1>3, <2>1
  <2>2. CASE i \in Survivors(c)
    <3>1. PICK k \in F : st[k].rev = c[i].rev /\ SameChange(c[i], st[k])
      BY <1>5, <2>2
    <3> QED BY <1>2, <1>3, <1>4, <2>2, <3>1
  <2> QED BY <1>4, <2>1, <2>2
<1>13. \A k \in From(b, s) \ Q : \A i \in Changes(d) : b[k].rev < d[i].rev
  <2> TAKE k \in From(b, s) \ Q
  <2> TAKE i \in Changes(d)
  <2>1. k \in F \ P /\ b[k] = st[k] /\ st[k].rev \in Nat /\ st[k].rev <= top
    BY <1>1, <1>2, <1>11
  <2>2. CASE i = y
    BY <1>1, <1>3, <2>1, <2>2
  <2>3. CASE i \in Changes(c)
    BY <1>3, <1>5, <2>1, <2>3
  <2> QED BY <1>3, <2>2, <2>3
<1>14. Shape(his, From(his, s)) = Shape(b, From(b, s) \ Q)
  <2>1. F \ P \in SUBSET Nat /\ IsFiniteSet(F \ P)
    <3>1. F \in SUBSET Nat /\ IsFiniteSet(F) /\ F \ P \in SUBSET F
      BY <1>1, EntriesAre DEF F
    <3> QED BY <3>1, FS_Subset
  <2>2. \A k \in F \ P : Alike(st[k], b[k])
    BY <1>2 DEF Alike
  <2>3. Shape(st, F \ P) = Shape(b, F \ P)
    BY <2>1, <2>2, ShapeSame
  <2> QED BY <1>5, <1>11, <2>3
<1>15. OwnAgree(b, his, s, d, W)
  BY <1>12, <1>13, <1>14 DEF OwnAgree, Q
<1> QED BY <1>15 DEF b, d

(* The slave imports a change of somebody else.                             *)
LEMMA OwnAlien ==
  ASSUME NEW c, NEW st, IsSeq(st), NEW his, NEW s, NEW W, OwnAgree(st, his, s, c, W),
         NEW e, e.origin # s
  PROVE  OwnAgree(Append(st, e), his, s, c, W)
<1> DEFINE b == Append(st, e)
           F == From(st, s)
           P == Pending(st, s, c, W)
           Q == Pending(b, s, c, W)
<1>1. From(b, s) = F /\ \A k \in F : b[k] = st[k]
  <2>1. /\ From(b, s) = F \cup (IF e.origin = s THEN {Len(st) + 1} ELSE {})
        /\ \A k \in F : k \in 1..Len(st)
        /\ \A k \in 1..Len(st) : b[k] = st[k]
    BY EntryPushed
  <2> HIDE DEF F, b
  <2> QED BY <2>1
<1>2. /\ \A i \in Survivors(c) : \E k \in F : st[k].rev = c[i].rev /\ SameChange(c[i], st[k])
      /\ \A k \in F \ P : \A i \in Changes(c) : st[k].rev < c[i].rev
      /\ Shape(his, From(his, s)) = Shape(st, F \ P)
  BY DEF OwnAgree
<1> HIDE DEF b
<1>3. Q = P
  BY <1>1 DEF Pending
<1>4. Shape(st, F \ P) = Shape(b, F \ P)
  <2>1. F \ P \in SUBSET Nat /\ IsFiniteSet(F \ P)
    <3>1. F \in SUBSET Nat /\ IsFiniteSet(F) /\ F \ P \in SUBSET F
      BY EntriesAre
    <3> QED BY <3>1, FS_Subset
  <2> HIDE DEF P
  <2>2. \A k \in F \ P : Alike(st[k], b[k])
    BY <1>1 DEF Alike
  <2> HIDE DEF F
  <2> QED BY <2>1, <2>2, ShapeSame
<1> HIDE DEF F, P, Q
<1>5. OwnAgree(b, his, s, c, W)
  BY <1>1, <1>2, <1>3, <1>4 DEF OwnAgree, Q
<1> QED BY <1>5 DEF b

(* The master pushes or imports a change of somebody else.                  *)
LEMMA OwnHisAlien ==
  ASSUME NEW c, NEW st, NEW his, IsSeq(his), NEW s, NEW W, OwnAgree(st, his, s, c, W),
         NEW e, e.origin # s
  PROVE  OwnAgree(st, Append(his, e), s, c, W)
<1> DEFINE b == Append(his, e)
           F == From(his, s)
<1>1. From(b, s) = F /\ \A k \in F : b[k] = his[k]
  <2>1. /\ From(b, s) = F \cup (IF e.origin = s THEN {Len(his) + 1} ELSE {})
        /\ \A k \in F : k \in 1..Len(his)
        /\ \A k \in 1..Len(his) : b[k] = his[k]
    BY EntryPushed
  <2> HIDE DEF F, b
  <2> QED BY <2>1
<1>2. F \in SUBSET Nat /\ IsFiniteSet(F)
  BY EntriesAre
<1> HIDE DEF b, F
<1>3. Shape(b, F) = Shape(his, F)
  BY <1>1, <1>2, ShapeSame DEF Alike
<1> QED BY <1>1, <1>3 DEF OwnAgree, b, F
----------------------------------------------------------------------------
(* A revert *)

Kept(stack, mine) == (1..Len(stack)) \ mine

(* What is left of a stack when entries are dropped, and where.             *)
LEMMA DroppedIs ==
  ASSUME NEW st, IsSeq(st), \A i \in 1..Len(st) : IsEntry(st[i]), NEW mine
  PROVE  LET L  == Kept(st, mine)
             at == Ascending(L)
             b  == Dropped(st, mine)
         IN
         /\ L \in SUBSET Nat /\ IsFiniteSet(L) /\ Cardinality(L) \in Nat
         /\ IsSeq(b) /\ Len(b) = Cardinality(L)
         /\ \A k \in 1..Cardinality(L) :
              /\ at[k] \in L
              /\ b[k].rev = st[at[k]].rev /\ b[k].origin = st[at[k]].origin
              /\ Alike(b[k], st[at[k]]) /\ IsEntry(b[k])
         /\ \A k, l \in 1..Cardinality(L) : k < l => at[k] < at[l]
         /\ \A i \in L : \E k \in 1..Cardinality(L) : at[k] = i
<1> DEFINE L == Kept(st, mine)
           at == Ascending(L)
           b == Dropped(st, mine)
           n == Cardinality(L)
           B(k) == [st[at[k]] EXCEPT !.pos = MovedBack(st, mine, at[k])]
<1>1. L \in SUBSET Nat /\ IsFiniteSet(L)
  <2>1. Len(st) \in Nat
    BY DEF IsSeq
  <2>2. IsFiniteSet(1..Len(st)) /\ 1..Len(st) \subseteq Nat
    BY <2>1, FS_Interval
  <2>3. L \in SUBSET (1..Len(st))
    BY DEF Kept
  <2> QED BY <2>2, <2>3, FS_Subset
<1>2. /\ n \in Nat /\ at \in [1..n -> L]
      /\ \A k, l \in 1..n : k < l => at[k] < at[l]
      /\ \A i \in L : \E k \in 1..n : at[k] = i
  BY <1>1, AscendingIs
<1>3. DOMAIN st = 1..Len(st)
  BY EntriesAre DEF IsSeq
<1>4. b = [k \in 1..n |-> B(k)]
  <2>1. DOMAIN at = 1..n
    BY <1>2
  <2> QED BY <1>3, <2>1 DEF Dropped, Kept
<1> HIDE DEF n, L, at, b
<1>5. \A k \in 1..n : /\ at[k] \in L /\ b[k].rev = st[at[k]].rev /\ b[k].origin = st[at[k]].origin
                      /\ Alike(b[k], st[at[k]]) /\ IsEntry(b[k])
  <2> TAKE k \in 1..n
  <2>1. at[k] \in L /\ at[k] \in 1..Len(st)
    BY <1>2 DEF L, Kept
  <2> DEFINE e == st[at[k]]
             p == MovedBack(st, mine, at[k])
  <2>2. b[k] = [e EXCEPT !.pos = p]
    BY <1>4
  <2>3. e = [rev |-> e.rev, pos |-> e.pos, len |-> e.len, adjust |-> e.adjust,
             remotePos |-> e.remotePos, origin |-> e.origin]
    BY <2>1 DEF IsEntry
  <2> HIDE DEF e, p
  <2>4. b[k] = [rev |-> e.rev, pos |-> p, len |-> e.len, adjust |-> e.adjust,
                remotePos |-> e.remotePos, origin |-> e.origin]
    BY <2>2, <2>3
  <2>5. /\ b[k].rev = e.rev /\ b[k].origin = e.origin /\ Alike(b[k], e) /\ IsEntry(b[k])
    BY <2>4 DEF Alike, IsEntry
  <2> QED BY <2>1, <2>5 DEF e
<1>6. IsSeq(b) /\ Len(b) = n
  <2> HIDE DEF B
  <2> DEFINE S == {B(k) : k \in 1..n}
  <2>1. b \in [1..n -> S] /\ DOMAIN b = 1..n
    BY <1>4
  <2> HIDE DEF S
  <2>2. b \in Seq(S)
    BY <1>2, <2>1
  <2>3. Len(b) = n
    BY <1>2, <2>1, <2>2
  <2> QED BY <2>2, <2>3, SeqIsSeq
<1> QED BY <1>1, <1>2, <1>5, <1>6 DEF n, L, at, b

(* A revert takes back the own changes from a revision on.                  *)
LEMMA RevertsAre ==
  ASSUME NEW st, NEW s, NEW top, SlaveStack(st, s, top), NEW rev
  PROVE  /\ Reverts(st, s, rev) \subseteq From(st, s) /\ 1 \notin Reverts(st, s, rev)
         /\ rev \in Nat => Reverts(st, s, rev) = {k \in From(st, s) : st[k].rev >= rev}
<1> DEFINE mine == Reverts(st, s, rev)
<1>0. mine = {i \in DOMAIN st : /\ st[i].origin = s
                                /\ \A k \in {j \in DOMAIN st : st[j].rev < rev} : k < i}
  BY DEF Reverts
<1> HIDE DEF mine
<1>1. /\ IsSeq(st) /\ \A k \in From(st, s) : k \in 2..Len(st) /\ st[k].rev \in Nat
      /\ From(st, s) = {i \in DOMAIN st : st[i].origin = s}
  BY OwnEntries DEF From
<1>2. DOMAIN st = 1..Len(st) /\ Len(st) \in Nat
  BY <1>1, EntriesAre DEF IsSeq
<1>3. mine \subseteq From(st, s) /\ 1 \notin mine
  BY <1>0, <1>1, <1>2
<1>4. ASSUME rev \in Nat, NEW i \in From(st, s), st[i].rev >= rev PROVE i \in mine
  <2> SUFFICES ASSUME NEW k \in 1..Len(st), st[k].rev < rev PROVE k < i
    BY <1>0, <1>1, <1>2
  <2>1. CASE k = 1
    BY <1>1, <2>1
  <2>2. CASE k # 1
    <3>1. k \in 2..Len(st) /\ st[k].rev \in Nat
      BY <1>2, <2>2 DEF SlaveStack
    <3>2. i \in 2..Len(st) /\ st[i].rev \in Nat /\ st[k].rev < st[i].rev
      BY <1>1, <1>4, <3>1
    <3>3. ~(i < k) /\ i # k
      BY <3>1, <3>2 DEF SlaveStack
    <3> QED BY <1>2, <3>1, <3>2, <3>3
  <2> QED BY <2>1, <2>2
<1>5. ASSUME rev \in Nat, NEW i \in mine PROVE st[i].rev >= rev
  <2>1. i \in From(st, s) /\ i \in DOMAIN st /\ st[i].rev \in Nat /\ i \in Nat
    BY <1>1, <1>2, <1>3
  <2>2. ~(st[i].rev < rev)
    BY <1>0, <2>1
  <2> QED BY <1>5, <2>1, <2>2
<1> QED BY <1>3, <1>4, <1>5 DEF mine

(* The slave takes back its changes from the one in the way on and sends    *)
(* the acknowledgement: the changes of the master are those it keeps.       *)
LEMMA OwnReverted ==
  ASSUME NEW c, IsSeq(c), NEW st, NEW his, NEW s, NEW top, NEW W,
         SlaveStack(st, s, top), SlaveQueue(c, W, top), OwnAgree(st, his, s, c, W),
         NEW m, m.type = "revertAck", InStep(Append(c, m), W)
  PROVE  OwnAgree(Dropped(st, Reverts(st, s, m.rev)), his, s, Append(c, m), W) /\ m.rev \in Nat
<1> DEFINE d == Append(c, m)
           x == m.rev
           mine == Reverts(st, s, x)
           b == Dropped(st, mine)
           F == From(st, s)
           P == Pending(st, s, c, W)
           Q == Pending(b, s, d, W)
           L == Kept(st, mine)
           n == Cardinality(L)
           at == Ascending(L)
<1>1. /\ IsSeq(st) /\ \A i \in 1..Len(st) : IsEntry(st[i])
      /\ \A k \in F : st[k].rev \in Nat /\ k \in 1..Len(st)
      /\ F = {i \in 1..Len(st) : st[i].origin = s}
  <2>1. IsSeq(st) /\ \A i \in 1..Len(st) : IsEntry(st[i])
    BY DEF SlaveStack
  <2> QED BY <2>1, OwnEntries, EntriesAre
<1> HIDE DEF b, L, at, mine
<1>2. /\ L \in SUBSET Nat /\ IsFiniteSet(L) /\ n \in Nat
      /\ IsSeq(b) /\ Len(b) = n
      /\ \A k \in 1..n : /\ at[k] \in L
                         /\ b[k].rev = st[at[k]].rev /\ b[k].origin = st[at[k]].origin
                         /\ Alike(b[k], st[at[k]])
      /\ \A i \in L : \E k \in 1..n : at[k] = i
  <2>1. L = Kept(st, mine) /\ at = Ascending(L) /\ b = Dropped(st, mine)
    BY DEF L, at, b
  <2> QED BY <1>1, <2>1, DroppedIs
<1>3. /\ \A i \in Survivors(c) : \E k \in F : st[k].rev = c[i].rev /\ SameChange(c[i], st[k])
      /\ \A k \in F \ P : \A i \in Changes(c) : st[k].rev < c[i].rev
      /\ Shape(his, From(his, s)) = Shape(st, F \ P)
  BY DEF OwnAgree
<1>4. /\ Changes(d) = Changes(c) /\ Acks(d) # {}
      /\ \A i \in Changes(c) : d[i] = c[i]
      /\ Survivors(d) = {i \in Survivors(c) : c[i].rev < x}
      /\ Survivors(c) \subseteq Changes(c)
  <2>1. /\ Changes(d) = Changes(c) /\ Acks(d) = Acks(c) \cup {Len(c) + 1}
        /\ \A i \in Changes(c) : d[i] = c[i]
    BY AppendPackets
  <2>2. Survivors(d) = {i \in Survivors(c) : c[i].rev < x}
    BY SurvivorsSent
  <2>3. Survivors(c) \subseteq Changes(c)
    BY DEF Survivors
  <2> HIDE DEF d
  <2> QED BY <2>1, <2>2, <2>3
<1>5. \/ Acks(c) = {} /\ W = {x}
      \/ /\ W # {} => Acks(c) # {}
         /\ \E j \in Changes(c) : c[j].rev = x
  BY ExpectedSent
<1>6. /\ \A i \in Changes(c) : c[i].rev \in Nat /\ \A w \in W : w < c[i].rev
      /\ \A w \in W : w \in Nat
  BY DEF SlaveQueue
<1>7. P = {k \in F : IF W # {} /\ Acks(c) = {} THEN \E w \in W : st[k].rev >= w
                     ELSE \E i \in Survivors(c) : c[i].rev = st[k].rev}
  BY DEF Pending
<1>8. Q = {k \in From(b, s) : \E i \in Survivors(d) : d[i].rev = b[k].rev}
  <2> HIDE DEF d
  <2> QED BY <1>4 DEF Pending
<1>9. From(b, s) = {k \in 1..n : b[k].origin = s}
  BY <1>2, EntriesAre
<1>10. x \in Nat
  BY <1>5, <1>6
<1>11. mine = {k \in F : st[k].rev >= x}
  <2> HIDE DEF x
  <2> QED BY <1>10, RevertsAre DEF mine, F
<1>12. L = {i \in 1..Len(st) : i \notin mine}
  BY DEF L, Kept
<1> HIDE DEF d, x, b, F, P, Q, L, n, at
<1>13. \A k \in 1..n : at[k] \in F => st[at[k]].rev < x
  <2> SUFFICES ASSUME NEW k \in 1..n, at[k] \in F PROVE st[at[k]].rev < x
    OBVIOUS
  <2>1. at[k] \notin mine /\ st[at[k]].rev \in Nat
    BY <1>1, <1>2, <1>12
  <2> QED BY <1>10, <1>11, <2>1
<1>14. \A k \in 1..n : k \in From(b, s) <=> at[k] \in F
  BY <1>1, <1>2, <1>9, <1>12
<1>15. \A k \in F \ P : st[k].rev < x
  <2> TAKE k \in F \ P
  <2>1. CASE Acks(c) = {} /\ W = {x}
    <3>1. ~(st[k].rev >= x)
      BY <1>7, <2>1
    <3> QED BY <1>1, <1>10, <3>1
  <2>2. CASE \E j \in Changes(c) : c[j].rev = x
    BY <1>3, <2>2
  <2> QED BY <1>5, <2>1, <2>2
<1>16. \A k \in F : st[k].rev < x => (k \in P <=> \E i \in Survivors(c) : c[i].rev = st[k].rev)
  <2> SUFFICES ASSUME NEW k \in F, st[k].rev < x
               PROVE  k \in P <=> \E i \in Survivors(c) : c[i].rev = st[k].rev
    OBVIOUS
  <2>1. CASE Acks(c) = {} /\ W = {x}
    <3>1. k \notin P
      <4>1. ~(st[k].rev >= x)
        BY <1>1, <1>10
      <4> QED BY <1>7, <2>1, <4>1
    <3>2. ASSUME NEW i \in Survivors(c), c[i].rev = st[k].rev PROVE FALSE
      <4>1. x < c[i].rev /\ c[i].rev \in Nat
        BY <1>4, <1>6, <2>1
      <4> QED BY <1>10, <3>2, <4>1
    <3> QED BY <3>1, <3>2
  <2>2. CASE W # {} => Acks(c) # {}
    BY <1>7, <2>2
  <2> QED BY <1>5, <2>1, <2>2
<1>17. \A k \in From(b, s) : k \in 1..n /\ (k \in Q <=> at[k] \in P)
  <2> TAKE k \in From(b, s)
  <2>1. k \in 1..n /\ at[k] \in F /\ st[at[k]].rev < x /\ b[k].rev = st[at[k]].rev
    BY <1>2, <1>9, <1>13, <1>14
  <2>2. k \in Q <=> \E i \in Survivors(c) : c[i].rev = st[at[k]].rev
    BY <1>4, <1>8, <2>1
  <2> QED BY <1>16, <2>1, <2>2
<1>18. From(b, s) \ Q = {k \in 1..n : at[k] \in F \ P}
  BY <1>14, <1>17
<1>19. F \ P \in SUBSET L
  <2> SUFFICES ASSUME NEW k \in F \ P PROVE k \notin mine
    BY <1>1, <1>12
  <2>1. st[k].rev \in Nat /\ st[k].rev < x
    BY <1>1, <1>15
  <2> QED BY <1>10, <1>11, <2>1
<1>20. Shape(b, From(b, s) \ Q) = Shape(st, F \ P)
  <2>1. \A k \in 1..Cardinality(L) : Alike(b[k], st[Ascending(L)[k]])
    BY <1>2 DEF n, at
  <2>2. From(b, s) \ Q = {k \in 1..Cardinality(L) : Ascending(L)[k] \in F \ P}
    BY <1>18 DEF n, at
  <2> QED BY <1>2, <1>19, <2>1, <2>2, ShapeMoved
<1>21. \A i \in Survivors(d) : \E k \in From(b, s) : b[k].rev = d[i].rev /\ SameChange(d[i], b[k])
  <2> TAKE i \in Survivors(d)
  <2>1. i \in Survivors(c) /\ d[i] = c[i] /\ c[i].rev < x /\ c[i].rev \in Nat
    BY <1>4, <1>6
  <2>2. PICK k \in F : st[k].rev = c[i].rev /\ SameChange(c[i], st[k])
    BY <1>3, <2>1
  <2>3. k \in L
    <3>1. k \notin mine
      BY <1>10, <1>11, <2>1, <2>2
    <3> QED BY <1>1, <1>12, <3>1
  <2>4. PICK l \in 1..n : at[l] = k
    BY <1>2, <2>3
  <2>5. l \in From(b, s) /\ b[l].rev = st[k].rev /\ Alike(b[l], st[k])
    BY <1>2, <1>14, <2>4
  <2> QED BY <2>1, <2>2, <2>5 DEF SameChange, Alike
<1>22. \A k \in From(b, s) \ Q : \A i \in Changes(d) : b[k].rev < d[i].rev
  BY <1>2, <1>3, <1>4, <1>17, <1>18
<1>23. OwnAgree(b, his, s, d, W)
  BY <1>3, <1>20, <1>21, <1>22 DEF OwnAgree, Q
<1> QED BY <1>10, <1>23 DEF b, d, x, mine
=============================================================================
