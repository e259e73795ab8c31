---------------------------- MODULE SumsTheorems ----------------------------
(* Facts about SumOf and about finitely many numbers, from those about the size
   of finite sets. *)
EXTENDS Sums, FiniteSetTheorems, FunctionTheorems, WellFoundedInduction, TLAPS

\* The units of finitely many rows are finitely many.
LEMMA UnitsFinite ==
    ASSUME NEW amount, NEW rows, IsFiniteSet(rows),
           \A x \in rows : amount[x] \in Nat
    PROVE  IsFiniteSet(Units(amount, rows))
<1> DEFINE parts == {{x} \X (1 .. amount[x]) : x \in rows}
           part == [x \in rows |-> {x} \X (1 .. amount[x])]
<1>1. part \in Surjection(rows, parts)
  BY DEF Surjection
<1>2. IsFiniteSet(parts)
  BY <1>1, FS_Surjection
<1>3. \A T \in parts : IsFiniteSet(T)
  <2> SUFFICES ASSUME NEW x \in rows PROVE IsFiniteSet({x} \X (1 .. amount[x]))
    OBVIOUS
  <2> HIDE DEF parts, part
  <2>1. IsFiniteSet({x})
    BY FS_Singleton
  <2>2. amount[x] \in Int
    OBVIOUS
  <2>3. IsFiniteSet(1 .. amount[x])
    BY <2>2, FS_Interval
  <2> QED BY <2>1, <2>3, FS_Product
<1> QED BY <1>2, <1>3, FS_UNION DEF Units

\* A sum of naturals is a natural.
LEMMA SumType ==
    ASSUME NEW amount, NEW rows, IsFiniteSet(rows),
           \A x \in rows : amount[x] \in Nat
    PROVE  SumOf(amount, rows) \in Nat
BY UnitsFinite, FS_CardinalityType DEF SumOf

\* The sum over no rows is 0.
LEMMA SumEmpty ==
    ASSUME NEW amount
    PROVE  SumOf(amount, {}) = 0
<1>1. Units(amount, {}) = {}
  BY DEF Units
<1> QED BY <1>1, FS_EmptySet DEF SumOf

\* A sum depends only on the amounts of its rows.
LEMMA SumAgrees ==
    ASSUME NEW f, NEW g, NEW rows, \A x \in rows : f[x] = g[x]
    PROVE  SumOf(f, rows) = SumOf(g, rows)
<1>1. Units(f, rows) = Units(g, rows)
  BY DEF Units
<1> QED BY <1>1 DEF SumOf

\* A sum over fewer rows is not larger.
LEMMA SumOfFewer ==
    ASSUME NEW amount, NEW rows, IsFiniteSet(rows),
           \A x \in rows : amount[x] \in Nat,
           NEW fewer \in SUBSET rows
    PROVE  SumOf(amount, fewer) <= SumOf(amount, rows)
<1>1. Units(amount, fewer) \in SUBSET Units(amount, rows)
  BY DEF Units
<1>2. IsFiniteSet(Units(amount, rows))
  BY UnitsFinite
<1> QED BY <1>1, <1>2, FS_Subset DEF SumOf

\* A new row adds its amount.
LEMMA SumAdd ==
    ASSUME NEW amount, NEW rows, IsFiniteSet(rows),
           \A x \in rows : amount[x] \in Nat,
           NEW new, new \notin rows, amount[new] \in Nat
    PROVE  SumOf(amount, rows \cup {new}) = SumOf(amount, rows) + amount[new]
<1> DEFINE old == Units(amount, rows)
           one == {new} \X (1 .. amount[new])
<1>1. Units(amount, rows \cup {new}) = old \cup one
  BY DEF Units
<1>2. old \cap one = {}
  BY DEF Units
<1>3. IsFiniteSet(old)
  BY UnitsFinite
<1>4. IsFiniteSet(one) /\ Cardinality(one) = amount[new]
  <2>1. IsFiniteSet({new}) /\ Cardinality({new}) = 1
    BY FS_Singleton
  <2>2. IsFiniteSet(1 .. amount[new]) /\ Cardinality(1 .. amount[new]) = amount[new]
    <3>1. 1 \in Int /\ amount[new] \in Int
      OBVIOUS
    <3>2. /\ IsFiniteSet(1 .. amount[new])
          /\ Cardinality(1 .. amount[new]) =
                IF 1 > amount[new] THEN 0 ELSE amount[new] - 1 + 1
      BY <3>1, FS_Interval
    <3> QED BY <3>2
  <2>3. IsFiniteSet(one) /\ Cardinality(one) = Cardinality({new}) * Cardinality(1 .. amount[new])
    BY <2>1, <2>2, FS_Product, Zenon
  <2> HIDE DEF one
  <2>4. Cardinality(one) = 1 * amount[new]
    BY <2>1, <2>2, <2>3, Zenon
  <2> QED BY <2>3, <2>4
<1> HIDE DEF old, one
<1>5. Cardinality(old \cup one) = Cardinality(old) + Cardinality(one) - Cardinality({})
  BY <1>2, <1>3, <1>4, FS_Union
<1>6. Cardinality(old) \in Nat
  BY <1>3, FS_CardinalityType
<1>7. Cardinality(old \cup one) = Cardinality(old) + amount[new]
  BY <1>4, <1>5, <1>6, FS_EmptySet
<1>8. Cardinality(old) = SumOf(amount, rows)
  BY DEF old, SumOf
<1> QED BY <1>1, <1>7, <1>8 DEF SumOf

-----------------------------------------------------------------------------
(* The least and the greatest of numbers. *)

\* A set of naturals has a least element.
LEMMA LeastOf ==
    ASSUME NEW S \in SUBSET Nat, S # {}
    PROVE  \E n \in S : \A m \in S : n <= m
<1> DEFINE R == OpToRel(<, Nat)
<1>1. IsWellFoundedOn(R, Nat)
  BY NatLessThanWellFounded
<1>2. \A n, m \in Nat : n < m => <<n, m>> \in R
  BY DEF OpToRel
<1> HIDE DEF R
<1>3. PICK n \in S : \A m \in S : <<m, n>> \notin R
  BY <1>1, WFMin
<1>4. \A m \in S : n <= m
  <2> SUFFICES ASSUME NEW m \in S, ~(n <= m) PROVE FALSE
    OBVIOUS
  <2>1. n \in Nat /\ m \in Nat /\ m < n
    OBVIOUS
  <2>2. <<m, n>> \in R
    BY <1>2, <2>1
  <2> QED BY <1>3, <2>2
<1> QED BY <1>4

\* Numbers on finitely many things cannot rise for ever.
LEMMA NoEndlessRise ==
    ASSUME NEW A, IsFiniteSet(A), NEW f \in [A -> Int],
           \A x \in A : \E y \in A : f[x] < f[y]
    PROVE  A = {}
<1> SUFFICES ASSUME A # {} PROVE FALSE
  OBVIOUS
<1> DEFINE Above(x) == {y \in A : f[x] < f[y]}
           ranks == {Cardinality(Above(x)) : x \in A}
<1>1. \A x \in A : IsFiniteSet(Above(x)) /\ Cardinality(Above(x)) \in Nat
  BY FS_Subset, FS_CardinalityType
<1>2. ranks \in SUBSET Nat /\ ranks # {}
  BY <1>1
<1> HIDE DEF ranks
<1>3. PICK n \in ranks : \A m \in ranks : n <= m
  BY <1>2, LeastOf
<1>4. PICK x \in A : n = Cardinality(Above(x))
  BY <1>3 DEF ranks
<1>5. PICK y \in A : f[x] < f[y]
  OBVIOUS
<1>6. Above(y) \in SUBSET Above(x) /\ y \in Above(x) /\ y \notin Above(y)
  BY <1>5
<1>7. Cardinality(Above(y)) <= Cardinality(Above(x))
      /\ (Cardinality(Above(x)) = Cardinality(Above(y)) => Above(x) = Above(y))
  BY <1>1, <1>6, FS_Subset
<1>8. Cardinality(Above(x)) <= Cardinality(Above(y))
  BY <1>3, <1>4 DEF ranks
<1> HIDE DEF Above
<1> QED BY <1>1, <1>6, <1>7, <1>8

\* Finitely many things have one with the greatest of their numbers.
LEMMA Greatest ==
    ASSUME NEW A, IsFiniteSet(A), A # {}, NEW f \in [A -> Int]
    PROVE  \E x \in A : \A y \in A : f[y] <= f[x]
<1> SUFFICES ASSUME \A x \in A : \E y \in A : ~(f[y] <= f[x]) PROVE FALSE
  OBVIOUS
<1>1. \A x \in A : \E y \in A : f[x] < f[y]
  OBVIOUS
<1> QED BY <1>1, NoEndlessRise
=============================================================================
