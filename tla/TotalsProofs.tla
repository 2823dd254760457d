---------------------------- MODULE TotalsProofs ----------------------------
(* What Total computes: the laws of a sum over a finite set.                *)
EXTENDS Totals, FiniteSetTheorems, TLAPS

\* A number has that many units.
LEMMA UnitsOfOne ==
    ASSUME NEW x, NEW n \in Nat
    PROVE  IsFiniteSet({x} \X (1..n)) /\ Cardinality({x} \X (1..n)) = n
<1>1. IsFiniteSet(1..n) /\ Cardinality(1..n) = n
    BY FS_Interval
<1>2. IsFiniteSet({x}) /\ Cardinality({x}) = 1
    BY FS_Singleton
<1> QED
    BY <1>1, <1>2, FS_Product

\* A finite set has finitely many units.
LEMMA UnitsFinite ==
    ASSUME NEW S, IsFiniteSet(S), NEW f, \A x \in S : f[x] \in Nat
    PROVE  IsFiniteSet(Units(f, S)) /\ Total(f, S) \in Nat
<1> DEFINE Parts == {{x} \X (1..f[x]) : x \in S}
           part == [x \in S |-> {x} \X (1..f[x])]
<1>1. part \in Surjection(S, Parts)
    BY DEF Surjection
<1>2. IsFiniteSet(Parts)
    BY <1>1, FS_Surjection
<1>3. ASSUME NEW T \in Parts PROVE IsFiniteSet(T)
  <2>1. PICK x \in S : T = {x} \X (1..f[x])
    OBVIOUS
  <2> QED
    BY <2>1, UnitsOfOne
<1>4. IsFiniteSet(UNION Parts)
    BY <1>2, <1>3, FS_UNION
<1> QED
    BY <1>4, FS_CardinalityType DEF Units, Total

\* The empty sum.
LEMMA TotalOfNothing ==
    ASSUME NEW f
    PROVE  Total(f, {}) = 0
<1>1. Units(f, {}) = {}
    BY DEF Units
<1> QED
    BY <1>1, FS_EmptySet DEF Total

\* A sum of zeros.
LEMMA TotalOfZeros ==
    ASSUME NEW S, NEW f, \A x \in S : f[x] = 0
    PROVE  Total(f, S) = 0
<1>1. ASSUME NEW x \in S PROVE {x} \X (1..f[x]) = {}
    BY <1>1
<1>2. Units(f, S) = {}
    BY <1>1 DEF Units
<1> QED
    BY <1>2, FS_EmptySet DEF Total

\* A sum depends only on the summands.
LEMMA TotalDepends ==
    ASSUME NEW S, NEW f, NEW g, \A x \in S : f[x] = g[x]
    PROVE  Total(f, S) = Total(g, S)
<1>1. Units(f, S) = Units(g, S)
    BY DEF Units
<1> QED
    BY <1>1 DEF Total

\* One more summand.
LEMMA TotalOfOneMore ==
    ASSUME NEW S, IsFiniteSet(S), NEW x, x \notin S, NEW f,
           \A y \in S \cup {x} : f[y] \in Nat
    PROVE  Total(f, S \cup {x}) = Total(f, S) + f[x]
<1> DEFINE New == {x} \X (1..f[x])
<1>1. Units(f, S \cup {x}) = Units(f, S) \cup New
    BY DEF Units
<1>2. Units(f, S) \cap New = {}
    BY DEF Units
<1>3. IsFiniteSet(New) /\ Cardinality(New) = f[x] /\ f[x] \in Nat
    BY UnitsOfOne
<1>4. IsFiniteSet(Units(f, S)) /\ Total(f, S) \in Nat
    BY UnitsFinite
<1>5. Cardinality(Units(f, S) \cup New) =
        Cardinality(Units(f, S)) + Cardinality(New) - Cardinality(Units(f, S) \cap New)
    BY <1>3, <1>4, FS_Union
<1>6. Cardinality(Units(f, S) \cap New) = 0
    BY <1>2, FS_EmptySet
<1>7. Total(f, S \cup {x}) = Cardinality(Units(f, S) \cup New)
    BY <1>1 DEF Total
<1> HIDE DEF New
<1> QED
    BY <1>3, <1>4, <1>5, <1>6, <1>7 DEF Total

\* One summand grows by d.
LEMMA TotalGrows ==
    ASSUME NEW S, IsFiniteSet(S), NEW x \in S, NEW d \in Nat,
           NEW f, NEW g, \A y \in S : f[y] \in Nat,
           g[x] = f[x] + d, \A y \in S \ {x} : g[y] = f[y]
    PROVE  Total(g, S) = Total(f, S) + d
<1>1. IsFiniteSet(S \ {x}) /\ S = (S \ {x}) \cup {x}
    BY FS_RemoveElement
<1>2. Total(f, S) = Total(f, S \ {x}) + f[x]
    BY <1>1, TotalOfOneMore
<1>3. Total(g, S) = Total(g, S \ {x}) + g[x]
  <2>1. \A y \in (S \ {x}) \cup {x} : g[y] \in Nat
    OBVIOUS
  <2>2. Total(g, (S \ {x}) \cup {x}) = Total(g, S \ {x}) + g[x]
    BY <1>1, <2>1, TotalOfOneMore, Zenon
  <2> QED
    BY <1>1, <2>2
<1>4. Total(g, S \ {x}) = Total(f, S \ {x})
    BY TotalDepends
<1>5. Total(f, S \ {x}) \in Nat /\ f[x] \in Nat
    BY <1>1, UnitsFinite
<1> QED
    BY <1>2, <1>3, <1>4, <1>5

\* A sum grows with its summands.
LEMMA TotalMonotone ==
    ASSUME NEW S, IsFiniteSet(S), NEW f, NEW g,
           \A x \in S : f[x] \in Nat /\ g[x] \in Nat /\ f[x] <= g[x]
    PROVE  Total(f, S) <= Total(g, S)
<1>1. Units(f, S) \subseteq Units(g, S)
  <2> SUFFICES ASSUME NEW u \in Units(f, S) PROVE u \in Units(g, S)
    OBVIOUS
  <2>1. PICK x \in S : u \in {x} \X (1..f[x])
    BY DEF Units
  <2>2. u \in {x} \X (1..g[x])
    BY <2>1
  <2> QED
    BY <2>2 DEF Units
<1>2. IsFiniteSet(Units(g, S))
    BY UnitsFinite
<1> QED
    BY <1>1, <1>2, FS_Subset DEF Total

=============================================================================
