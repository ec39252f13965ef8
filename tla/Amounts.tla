------------------------------ MODULE Amounts ------------------------------
(***************************************************************************)
(* Sums of token amounts.  A balance sheet f maps holders to amounts; its  *)
(* total is the number of single units it holds, unit k of holder x being  *)
(* the pair <<x, k>>.  Counted this way the total needs no recursion.      *)
(***************************************************************************)
EXTENDS Naturals, FiniteSets, FiniteSetTheorems, TLAPS

Units(f) == UNION {{x} \X (1..f[x]) : x \in DOMAIN f}
Total(f) == Cardinality(Units(f))

\* The balance sheet that holds n at x and nothing elsewhere in S.
Only(S, x, n) == [y \in S |-> IF y = x THEN n ELSE 0]
Plus(f, g)    == [x \in DOMAIN f |-> f[x] + g[x]]

\* The units of one holder.
Column(x, n) == {x} \X (1..n)

LEMMA ColumnSize ==
  ASSUME NEW x, NEW n \in Nat
  PROVE  IsFiniteSet(Column(x, n)) /\ Cardinality(Column(x, n)) = n
<1>1. IsFiniteSet({x}) /\ Cardinality({x}) = 1
  BY FS_Singleton
<1>2. IsFiniteSet(1..n) /\ Cardinality(1..n) = n
  BY FS_Interval
<1>3. /\ IsFiniteSet({x} \X (1..n))
      /\ Cardinality({x} \X (1..n)) = Cardinality({x}) * Cardinality(1..n)
  BY <1>1, <1>2, FS_Product
<1> QED
  BY <1>1, <1>2, <1>3 DEF Column

\* The units of everybody but x.
Others(f, S, x) == UNION {Column(y, f[y]) : y \in S \ {x}}

LEMMA UnitsFinite ==
  ASSUME NEW S, IsFiniteSet(S), NEW f \in [S -> Nat]
  PROVE  IsFiniteSet(Units(f))
<1> DEFINE C == {Column(y, f[y]) : y \in S}
<1>1. Units(f) = UNION C
  BY DEF Units, Column
<1>2. IsFiniteSet(C)
  <2> DEFINE c == [y \in S |-> Column(y, f[y])]
  <2>1. c \in Surjection(S, C)
    BY DEF Surjection
  <2> QED
    BY <2>1, FS_Surjection
<1>3. \A T \in C : IsFiniteSet(T)
  BY ColumnSize
<1> QED
  BY <1>1, <1>2, <1>3, FS_UNION

LEMMA TotalNat ==
  ASSUME NEW S, IsFiniteSet(S), NEW f \in [S -> Nat]
  PROVE  Total(f) \in Nat
  BY UnitsFinite, FS_CardinalityType DEF Total

\* The total is the units of x and those of the others.
LEMMA TotalSplit ==
  ASSUME NEW S, IsFiniteSet(S), NEW f \in [S -> Nat], NEW x \in S
  PROVE  /\ IsFiniteSet(Others(f, S, x))
         /\ Cardinality(Others(f, S, x)) \in Nat
         /\ Total(f) = Cardinality(Others(f, S, x)) + f[x]
<1> DEFINE O == Others(f, S, x)
           X == Column(x, f[x])
<1>1. Units(f) = O \cup X
  BY DEF Units, Others, Column
<1>2. O \cap X = {}
  BY DEF Others, Column
<1>3. IsFiniteSet(X) /\ Cardinality(X) = f[x]
  BY ColumnSize
<1>4. IsFiniteSet(O)
  <2>1. O \in SUBSET Units(f)
    BY <1>1
  <2> QED
    BY <2>1, UnitsFinite, FS_Subset
<1>5. Cardinality(O \cup X) = Cardinality(O) + Cardinality(X) - Cardinality(O \cap X)
  BY <1>3, <1>4, FS_Union
<1>6. Cardinality(O \cap X) = 0
  BY <1>2, FS_EmptySet
<1>7. Cardinality(O) \in Nat
  BY <1>4, FS_CardinalityType
<1> QED
  BY <1>1, <1>3, <1>4, <1>5, <1>6, <1>7 DEF Total

LEMMA TotalChange ==
  ASSUME NEW S, IsFiniteSet(S), NEW f \in [S -> Nat], NEW g \in [S -> Nat],
         NEW x \in S, \A y \in S \ {x} : g[y] = f[y]
  PROVE  Total(g) = Total(f) - f[x] + g[x]
<1>1. Others(g, S, x) = Others(f, S, x)
  BY DEF Others
<1> QED
  BY <1>1, TotalSplit

LEMMA EntryAtMostTotal ==
  ASSUME NEW S, IsFiniteSet(S), NEW f \in [S -> Nat], NEW x \in S
  PROVE  f[x] <= Total(f)
  BY TotalSplit

\* Of two balance sheets the one that is larger everywhere has the larger total.
LEMMA TotalMonotone ==
  ASSUME NEW S, IsFiniteSet(S), NEW f \in [S -> Nat], NEW g \in [S -> Nat],
         \A x \in S : f[x] <= g[x]
  PROVE  Total(f) <= Total(g)
<1>1. Units(f) \subseteq Units(g)
  <2>1. \A x \in S : 1..f[x] \subseteq 1..g[x]
    OBVIOUS
  <2> QED
    BY <2>1 DEF Units
<1> QED
  BY <1>1, UnitsFinite, FS_Subset DEF Total

LEMMA TotalZero ==
  ASSUME NEW S, NEW f \in [S -> {0}]
  PROVE  Total(f) = 0
<1>1. Units(f) = {}
  BY DEF Units
<1> QED
  BY <1>1, FS_EmptySet DEF Total

LEMMA TotalOnly ==
  ASSUME NEW S, IsFiniteSet(S), NEW x \in S, NEW n \in Nat
  PROVE  Only(S, x, n) \in [S -> Nat] /\ Total(Only(S, x, n)) = n
<1> DEFINE z == [y \in S |-> 0]
<1>1. Total(z) = 0
  BY TotalZero
<1>2. /\ Only(S, x, n) \in [S -> Nat] /\ z \in [S -> Nat]
      /\ \A y \in S \ {x} : Only(S, x, n)[y] = z[y]
      /\ z[x] = 0 /\ Only(S, x, n)[x] = n
  BY DEF Only
<1> HIDE DEF z
<1>3. Total(Only(S, x, n)) = Total(z) - z[x] + Only(S, x, n)[x]
  BY <1>2, TotalChange
<1> QED
  BY <1>1, <1>2, <1>3

\* The units of Plus(f, g) are those of f and, above them, those of g.
LEMMA TotalPlus ==
  ASSUME NEW S, IsFiniteSet(S), NEW f \in [S -> Nat], NEW g \in [S -> Nat]
  PROVE  Plus(f, g) \in [S -> Nat] /\ Total(Plus(f, g)) = Total(f) + Total(g)
<1> DEFINE Lift(u) == <<u[1], f[u[1]] + u[2]>>
           h == [u \in Units(g) |-> Lift(u)]
           H == {Lift(u) : u \in Units(g)}
<1>1. Plus(f, g) \in [S -> Nat] /\ \A x \in S : Plus(f, g)[x] = f[x] + g[x]
  BY DEF Plus
<1>2. \A u : u \in Units(g) <=> \E x \in S : \E k \in 1..g[x] : u = <<x, k>>
  BY DEF Units
<1>3. \A u : u \in Units(f) <=> \E x \in S : \E k \in 1..f[x] : u = <<x, k>>
  BY DEF Units
<1>4. \A u : u \in Units(Plus(f, g)) <=> \E x \in S : \E k \in 1..(f[x] + g[x]) : u = <<x, k>>
  BY <1>1 DEF Units
<1>5. \A u : u \in H <=> \E x \in S : \E k \in 1..g[x] : u = <<x, f[x] + k>>
  <2>1. \A x \in S : \A k \in 1..g[x] : <<x, k>> \in Units(g) /\ Lift(<<x, k>>) = <<x, f[x] + k>>
    BY <1>2
  <2>2. \A v \in Units(g) : \E x \in S : \E k \in 1..g[x] : Lift(v) = <<x, f[x] + k>>
    BY <1>2, <2>1
  <2> HIDE DEF Lift
  <2>3. \A u : u \in H <=> \E v \in Units(g) : u = Lift(v)
    OBVIOUS
  <2> HIDE DEF H
  <2>4. ASSUME NEW u \in H PROVE \E x \in S : \E k \in 1..g[x] : u = <<x, f[x] + k>>
    <3>1. PICK v \in Units(g) : u = Lift(v)
      BY <2>3
    <3> QED
      BY <2>2, <3>1
  <2>5. ASSUME NEW u, NEW x \in S, NEW k \in 1..g[x], u = <<x, f[x] + k>> PROVE u \in H
    BY <2>1, <2>3, <2>5
  <2> QED
    BY <2>4, <2>5
<1> HIDE DEF H
<1>6. Units(Plus(f, g)) = Units(f) \cup H
  <2>1. ASSUME NEW u \in Units(Plus(f, g)) PROVE u \in Units(f) \cup H
    <3>1. PICK x \in S, k \in Nat : k \in 1..(f[x] + g[x]) /\ u = <<x, k>>
      BY <1>4
    <3>2. CASE k <= f[x]
      BY <1>3, <3>1, <3>2
    <3>3. CASE k > f[x]
      <4>1. k - f[x] \in 1..g[x] /\ f[x] + (k - f[x]) = k
        BY <3>1, <3>3
      <4> QED
        BY <1>5, <3>1, <4>1
    <3> QED
      BY <3>1, <3>2, <3>3
  <2>2. ASSUME NEW u \in Units(f) PROVE u \in Units(Plus(f, g))
    <3>1. PICK x \in S, k \in Nat : k \in 1..f[x] /\ u = <<x, k>>
      BY <1>3
    <3>2. k \in 1..(f[x] + g[x])
      BY <3>1
    <3> QED
      BY <1>4, <3>1, <3>2
  <2>3. ASSUME NEW u \in H PROVE u \in Units(Plus(f, g))
    <3>1. PICK x \in S, k \in Nat : k \in 1..g[x] /\ u = <<x, f[x] + k>>
      BY <1>5
    <3>2. f[x] + k \in 1..(f[x] + g[x])
      BY <3>1
    <3> QED
      BY <1>4, <3>1, <3>2
  <2> QED
    BY <2>1, <2>2, <2>3
<1>7. Units(f) \cap H = {}
  <2> SUFFICES ASSUME NEW u \in Units(f), u \in H PROVE FALSE
    OBVIOUS
  <2>1. PICK x \in S, k \in Nat : k \in 1..f[x] /\ u = <<x, k>>
    BY <1>3
  <2>2. PICK y \in S, j \in Nat : j \in 1..g[y] /\ u = <<y, f[y] + j>>
    BY <1>5
  <2>3. x = y /\ k = f[y] + j
    BY <2>1, <2>2
  <2> QED
    BY <2>1, <2>2, <2>3
<1>8. IsFiniteSet(H) /\ Cardinality(H) = Total(g)
  <2>1. h \in Injection(Units(g), H)
    <3>1. h \in [Units(g) -> H]
      BY DEF H
    <3>2. ASSUME NEW u \in Units(g), NEW v \in Units(g), h[u] = h[v] PROVE u = v
      <4>1. PICK x \in S, k \in Nat : k \in 1..g[x] /\ u = <<x, k>>
        BY <1>2
      <4>2. PICK y \in S, j \in Nat : j \in 1..g[y] /\ v = <<y, j>>
        BY <1>2
      <4>3. x = y /\ f[x] + k = f[y] + j
        BY <3>2, <4>1, <4>2
      <4> QED
        BY <4>1, <4>2, <4>3
    <3> QED
      BY <3>1, <3>2 DEF Injection, IsInjective
  <2>2. h \in Surjection(Units(g), H)
    BY <2>1 DEF H, Surjection, Injection
  <2>3. ExistsBijection(Units(g), H)
    BY <2>1, <2>2 DEF ExistsBijection, Bijection
  <2> QED
    BY <2>3, UnitsFinite, FS_Bijection DEF Total
<1> HIDE DEF h
<1>9. IsFiniteSet(Units(f)) /\ Total(f) \in Nat /\ Total(g) \in Nat
  BY UnitsFinite, TotalNat
<1>10. Cardinality(Units(f) \cup H)
         = Cardinality(Units(f)) + Cardinality(H) - Cardinality(Units(f) \cap H)
  BY <1>8, <1>9, FS_Union
<1>11. Cardinality(Units(f) \cap H) = 0
  BY <1>7, FS_EmptySet
<1>12. Total(Plus(f, g)) = Cardinality(Units(f) \cup H)
  BY <1>6 DEF Total
<1>13. Total(f) = Cardinality(Units(f))
  BY DEF Total
<1> QED
  BY <1>1, <1>8, <1>9, <1>10, <1>11, <1>12, <1>13
=============================================================================
