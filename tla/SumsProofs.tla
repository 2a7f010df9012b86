----------------------------- MODULE SumsProofs -----------------------------
(***************************************************************************)
(* Facts about sums over finite sets: what a term that changes, a term     *)
(* that comes or goes and a sum of two functions make of the total.        *)
(***************************************************************************)
EXTENDS Sums, FiniteSetTheorems, FunctionTheorems, TLAPS

LEMMA UnitsMember ==
    ASSUME NEW f, NEW x, NEW k
    PROVE  <<x, k>> \in Units(f) <=> x \in DOMAIN f /\ k \in 1 .. f[x]
  BY DEF Units

LEMMA UnitsArePairs ==
    ASSUME NEW f, NEW u \in Units(f)
    PROVE  \E x \in DOMAIN f : \E k \in 1 .. f[x] : u = <<x, k>>
  BY DEF Units

LEMMA ColumnSize ==
    ASSUME NEW a, NEW n \in Nat
    PROVE  /\ IsFiniteSet({a} \X (1 .. n))
           /\ Cardinality({a} \X (1 .. n)) = n
  <1>1. IsFiniteSet({a}) /\ Cardinality({a}) = 1
    BY FS_Singleton
  <1>2. IsFiniteSet(1 .. n) /\ Cardinality(1 .. n) = n
    BY FS_Interval
  <1>3. /\ IsFiniteSet({a} \X (1 .. n))
        /\ Cardinality({a} \X (1 .. n)) = Cardinality({a}) * Cardinality(1 .. n)
    BY <1>1, <1>2, FS_Product
  <1>4. QED
    BY <1>1, <1>2, <1>3

LEMMA UnitsFinite ==
    ASSUME NEW S, IsFiniteSet(S), NEW f \in [S -> Nat]
    PROVE  IsFiniteSet(Units(f))
  <1> DEFINE column == [x \in S |-> {x} \X (1 .. f[x])]
             columns == {{x} \X (1 .. f[x]) : x \in S}
  <1>1. column \in Surjection(S, columns)
    <2>1. column \in [S -> columns]
      OBVIOUS
    <2>2. \A t \in columns : \E s \in S : column[s] = t
      OBVIOUS
    <2>3. QED
      BY <2>1, <2>2, Fun_IsSurj
  <1>2. IsFiniteSet(columns)
    <2> HIDE DEF column, columns
    <2>1. QED
      BY <1>1, FS_Surjection
  <1>3. \A T \in columns : IsFiniteSet(T)
    <2>1. SUFFICES ASSUME NEW x \in S
                   PROVE  IsFiniteSet({x} \X (1 .. f[x]))
      OBVIOUS
    <2>2. f[x] \in Nat
      OBVIOUS
    <2>3. QED
      BY <2>2, ColumnSize
  <1>4. Units(f) = UNION columns
    BY DEF Units
  <1> HIDE DEF columns
  <1>5. QED
    BY <1>2, <1>3, <1>4, FS_UNION

LEMMA TotalType ==
    ASSUME NEW S, IsFiniteSet(S), NEW f \in [S -> Nat]
    PROVE  Total(f) \in Nat
  BY UnitsFinite, FS_CardinalityType DEF Total

(* One term taken out of the sum. *)
LEMMA TotalSplit ==
    ASSUME NEW S, IsFiniteSet(S), NEW f \in [S -> Nat], NEW a \in S
    PROVE  Total(f) = f[a] + Total([x \in S \ {a} |-> f[x]])
  <1> DEFINE g == [x \in S \ {a} |-> f[x]]
             col == {a} \X (1 .. f[a])
  <1>1. IsFiniteSet(S \ {a}) /\ g \in [S \ {a} -> Nat]
    BY FS_RemoveElement
  <1>2. IsFiniteSet(Units(g))
    <2> HIDE DEF g
    <2>1. QED
      BY <1>1, UnitsFinite
  <1>3. IsFiniteSet(col) /\ Cardinality(col) = f[a] /\ f[a] \in Nat
    BY ColumnSize
  <1>4. Units(f) = col \cup Units(g)
    <2>1. DOMAIN f = S /\ DOMAIN g = S \ {a} /\ \A x \in S \ {a} : g[x] = f[x]
      OBVIOUS
    <2> HIDE DEF g
    <2>2. QED
      BY <2>1 DEF Units
  <1>5. col \cap Units(g) = {}
    <2>1. DOMAIN g = S \ {a}
      OBVIOUS
    <2> HIDE DEF g
    <2>2. QED
      BY <2>1 DEF Units
  <1> HIDE DEF g, col
  <1>6. Cardinality(Units(f)) = Cardinality(col) + Cardinality(Units(g)) - Cardinality({})
    BY <1>2, <1>3, <1>4, <1>5, FS_Union
  <1>7. Cardinality({}) = 0 /\ Cardinality(Units(g)) \in Nat
    BY <1>2, FS_EmptySet, FS_CardinalityType
  <1>8. Total(f) = f[a] + Total(g)
    BY <1>3, <1>6, <1>7 DEF Total
  <1>9. QED
    BY <1>8 DEF g

(* One term changes. *)
LEMMA TotalChange ==
    ASSUME NEW S, IsFiniteSet(S), NEW f \in [S -> Nat], NEW g \in [S -> Nat],
           NEW a \in S, \A x \in S : x # a => g[x] = f[x]
    PROVE  Total(g) - g[a] = Total(f) - f[a]
  <1> DEFINE rest == [x \in S \ {a} |-> f[x]]
  <1>1. [x \in S \ {a} |-> g[x]] = rest
    OBVIOUS
  <1>2. Total(f) = f[a] + Total(rest)
    BY TotalSplit
  <1>3. Total(g) = g[a] + Total(rest)
    BY <1>1, TotalSplit
  <1>4. Total(rest) \in Nat
    <2>1. IsFiniteSet(S \ {a}) /\ rest \in [S \ {a} -> Nat]
      BY FS_RemoveElement
    <2> HIDE DEF rest
    <2>2. QED
      BY <2>1, TotalType
  <1> HIDE DEF rest
  <1>5. QED
    BY <1>2, <1>3, <1>4

(* Terms that are zero may be left out. *)
LEMMA TotalOfNonzero ==
    ASSUME NEW S, NEW T, S \subseteq T, NEW f \in [S -> Nat], NEW g \in [T -> Nat],
           \A x \in S : g[x] = f[x], \A x \in T \ S : g[x] = 0
    PROVE  Total(f) = Total(g)
  <1>1. ASSUME NEW x, NEW k
        PROVE  <<x, k>> \in Units(f) <=> <<x, k>> \in Units(g)
    <2>1. <<x, k>> \in Units(f) <=> x \in S /\ k \in 1 .. f[x]
      BY UnitsMember
    <2>2. <<x, k>> \in Units(g) <=> x \in T /\ k \in 1 .. g[x]
      BY UnitsMember
    <2>3. QED
      BY <2>1, <2>2
  <1>2. Units(f) = Units(g)
    BY <1>1, UnitsArePairs
  <1>3. QED
    BY <1>2 DEF Total

LEMMA TotalOfZeros ==
    ASSUME NEW S, NEW f \in [S -> Nat], \A x \in S : f[x] = 0
    PROVE  Total(f) = 0
  <1>1. Units(f) = {}
    BY UnitsArePairs
  <1>2. QED
    BY <1>1, FS_EmptySet DEF Total

LEMMA TotalOfOne ==
    ASSUME NEW a, NEW f \in [{a} -> Nat]
    PROVE  Total(f) = f[a]
  <1> DEFINE g == [x \in {a} \ {a} |-> f[x]]
  <1>1. Total(f) = f[a] + Total(g)
    <2>1. IsFiniteSet({a}) /\ a \in {a}
      BY FS_Singleton
    <2>2. QED
      BY <2>1, TotalSplit
  <1>2. Total(g) = 0
    <2>1. g \in [{} -> Nat]
      OBVIOUS
    <2> HIDE DEF g
    <2>2. QED
      BY <2>1, TotalOfZeros
  <1> HIDE DEF g
  <1>3. QED
    BY <1>1, <1>2

(* k units move from one term to another. *)
LEMMA TotalMove ==
    ASSUME NEW S, IsFiniteSet(S), NEW f \in [S -> Nat], NEW g \in [S -> Nat],
           NEW a \in S, NEW b \in S, a # b, NEW k \in Nat,
           g[a] = f[a] - k, g[b] = f[b] + k,
           \A x \in S : x # a /\ x # b => g[x] = f[x]
    PROVE  Total(g) = Total(f)
  <1> DEFINE m == [f EXCEPT ![a] = g[a]]
  <1>1. /\ m \in [S -> Nat] /\ m[a] = g[a] /\ m[b] = f[b]
        /\ \A x \in S : x # a => m[x] = f[x]
        /\ \A x \in S : x # b => g[x] = m[x]
    OBVIOUS
  <1> HIDE DEF m
  <1>2. Total(m) - m[a] = Total(f) - f[a]
    BY <1>1, TotalChange
  <1>3. Total(g) - g[b] = Total(m) - m[b]
    BY <1>1, TotalChange
  <1>4. /\ Total(f) \in Nat /\ Total(g) \in Nat /\ Total(m) \in Nat
        /\ f[a] \in Nat /\ f[b] \in Nat
    BY <1>1, TotalType
  <1>5. QED
    BY <1>1, <1>2, <1>3, <1>4
=============================================================================
