--------------------------- MODULE Weights_proofs ---------------------------
(***************************************************************************)
(* Lemmas about Weight: how a total changes when one summand does, and     *)
(* what bounds it.                                                         *)
(***************************************************************************)
EXTENDS Weights, FiniteSetTheorems, TLAPS

\* The cells are finitely many, so a weight is a natural number.
LEMMA WeightNat ==
  ASSUME NEW S, IsFiniteSet(S), NEW N \in Nat, NEW f
  PROVE  /\ IsFiniteSet(Cells(f, S, N))
         /\ Weight(f, S, N) \in Nat
<1>1. IsFiniteSet(S \X (1..N))
  <2>1. IsFiniteSet(1..N)
    BY FS_Interval
  <2> QED
    BY <2>1, FS_Product
<1>2. Cells(f, S, N) \in SUBSET (S \X (1..N))
  BY DEF Cells
<1>3. IsFiniteSet(Cells(f, S, N))
  BY <1>1, <1>2, FS_Subset
<1> QED
  BY <1>3, FS_CardinalityType DEF Weight

\* Taking one element out takes its summand out.
LEMMA WeightSplit ==
  ASSUME NEW S, IsFiniteSet(S), NEW N \in Nat, NEW f \in [S -> 0..N], NEW x \in S
  PROVE  /\ Weight(f, S \ {x}, N) \in Nat
         /\ Weight(f, S, N) = Weight(f, S \ {x}, N) + f[x]
<1> DEFINE Rest == Cells(f, S \ {x}, N)
           Column == {x} \X (1..f[x])
<1>1. IsFiniteSet(S \ {x})
  BY FS_RemoveElement
<1>2. IsFiniteSet(Rest) /\ Cardinality(Rest) \in Nat
  BY <1>1, WeightNat DEF Weight
<1>3. IsFiniteSet(Column) /\ Cardinality(Column) = f[x]
  <2>1. f[x] \in Nat
    OBVIOUS
  <2>2. IsFiniteSet(1..f[x]) /\ Cardinality(1..f[x]) = f[x]
    BY <2>1, FS_Interval
  <2>3. IsFiniteSet({x}) /\ Cardinality({x}) = 1
    BY FS_Singleton
  <2>4. IsFiniteSet(Column) /\ Cardinality(Column) = 1 * f[x]
    BY <2>2, <2>3, FS_Product
  <2> QED
    BY <2>1, <2>4
<1>4. Cells(f, S, N) = Rest \cup Column
  BY DEF Cells
<1>5. Rest \cap Column = {}
  BY DEF Cells
<1>6. Cardinality(Rest \cap Column) = 0
  BY <1>5, FS_EmptySet
<1> HIDE DEF Rest, Column
<1>7. Cardinality(Rest \cup Column)
        = Cardinality(Rest) + Cardinality(Column) - Cardinality(Rest \cap Column)
  BY <1>2, <1>3, FS_Union
<1>8. f[x] \in Nat
  OBVIOUS
<1>9. Weight(f, S, N) = Cardinality(Rest) + f[x]
  BY <1>2, <1>3, <1>4, <1>6, <1>7, <1>8 DEF Weight
<1> QED
  BY <1>2, <1>9 DEF Weight, Rest

\* Only the values on S count.
LEMMA WeightCongruent ==
  ASSUME NEW S, NEW N, NEW f, NEW g, \A y \in S : f[y] = g[y]
  PROVE  Weight(f, S, N) = Weight(g, S, N)
<1>1. Cells(f, S, N) = Cells(g, S, N)
  BY DEF Cells
<1> QED
  BY <1>1 DEF Weight

\* Changing one summand changes the total by the difference.
LEMMA WeightChange ==
  ASSUME NEW S, IsFiniteSet(S), NEW N \in Nat, NEW x \in S,
         NEW f \in [S -> 0..N], NEW g \in [S -> 0..N],
         \A y \in S \ {x} : f[y] = g[y]
  PROVE  Weight(g, S, N) + f[x] = Weight(f, S, N) + g[x]
<1>1. /\ Weight(f, S \ {x}, N) \in Nat
      /\ Weight(f, S, N) = Weight(f, S \ {x}, N) + f[x]
  BY WeightSplit
<1>2. Weight(g, S, N) = Weight(g, S \ {x}, N) + g[x]
  BY WeightSplit
<1>3. Weight(f, S \ {x}, N) = Weight(g, S \ {x}, N)
  BY WeightCongruent
<1>4. f[x] \in Nat /\ g[x] \in Nat
  OBVIOUS
<1> QED
  BY <1>1, <1>2, <1>3, <1>4

\* Smaller summands, smaller total.
LEMMA WeightMonotone ==
  ASSUME NEW S, IsFiniteSet(S), NEW N \in Nat,
         NEW f \in [S -> 0..N], NEW g \in [S -> 0..N],
         \A y \in S : f[y] <= g[y]
  PROVE  Weight(f, S, N) <= Weight(g, S, N)
<1>1. Cells(f, S, N) \in SUBSET Cells(g, S, N)
  BY DEF Cells
<1>2. IsFiniteSet(Cells(g, S, N))
  BY WeightNat
<1> QED
  BY <1>1, <1>2, FS_Subset DEF Weight

\* No summands, no total.
LEMMA WeightZero ==
  ASSUME NEW S, NEW N \in Nat, NEW f, \A y \in S : f[y] = 0
  PROVE  Weight(f, S, N) = 0
<1>1. Cells(f, S, N) = {}
  BY DEF Cells
<1> QED
  BY <1>1, FS_EmptySet DEF Weight

\* One summand is at most the total.
LEMMA WeightAtLeast ==
  ASSUME NEW S, IsFiniteSet(S), NEW N \in Nat, NEW f \in [S -> 0..N], NEW x \in S
  PROVE  f[x] <= Weight(f, S, N)
<1>1. /\ Weight(f, S \ {x}, N) \in Nat
      /\ Weight(f, S, N) = Weight(f, S \ {x}, N) + f[x]
  BY WeightSplit
<1>2. f[x] \in Nat
  OBVIOUS
<1> QED
  BY <1>1, <1>2

\* A total is at most the largest summand times the number of them.
LEMMA WeightAtMost ==
  ASSUME NEW S, IsFiniteSet(S), NEW N \in Nat, NEW f
  PROVE  Weight(f, S, N) <= Cardinality(S) * N
<1>1. IsFiniteSet(1..N) /\ Cardinality(1..N) = N
  BY FS_Interval
<1>2. IsFiniteSet(S \X (1..N)) /\ Cardinality(S \X (1..N)) = Cardinality(S) * N
  BY <1>1, FS_Product
<1>3. Cells(f, S, N) \in SUBSET (S \X (1..N))
  BY DEF Cells
<1> QED
  BY <1>2, <1>3, FS_Subset DEF Weight

\* If each summand of f is covered by that of g at the same point or by one of
\* h that stands for the point, no two points sharing one, the total of f is
\* covered by the totals of g and h.
LEMMA WeightCovered ==
  ASSUME NEW S, IsFiniteSet(S), NEW P, IsFiniteSet(P), NEW N \in Nat,
         NEW f \in [S -> 0..N], NEW g \in [S -> 0..N], NEW h \in [P -> 0..N], NEW point,
         \A x \in S : f[x] <= g[x] \/ \E p \in P : point[p] = x /\ f[x] <= h[p]
  PROVE  Weight(f, S, N) <= Weight(g, S, N) + Weight(h, P, N)
<1> DEFINE Source == Cells(h, P, N)
           move   == [c \in Source |-> <<point[c[1]], c[2]>>]
           Moved  == {move[c] : c \in Source}
<1>1. IsFiniteSet(Source) /\ IsFiniteSet(Cells(g, S, N))
  BY WeightNat
<1>2. IsFiniteSet(Moved) /\ Cardinality(Moved) <= Cardinality(Source)
  <2>1. move \in Surjection(Source, Moved)
    BY DEF Surjection
  <2> QED
    BY <1>1, <2>1, FS_Surjection
<1>3. Cells(f, S, N) \in SUBSET (Cells(g, S, N) \union Moved)
  <2> SUFFICES ASSUME NEW c \in Cells(f, S, N), c \notin Cells(g, S, N)
               PROVE  c \in Moved
    OBVIOUS
  <2>1. PICK x \in S, n \in 1..N : c = <<x, n>> /\ n <= f[x]
    BY DEF Cells
  <2>2. ~(f[x] <= g[x])
    BY <2>1 DEF Cells
  <2>3. PICK p \in P : point[p] = x /\ f[x] <= h[p]
    BY <2>2
  <2>4. n <= h[p]
    BY <2>1, <2>3
  <2>5. <<p, n>> \in Source /\ move[<<p, n>>] = <<x, n>>
    BY <2>3, <2>4 DEF Cells
  <2> QED
    BY <2>1, <2>5
<1> HIDE DEF Source, Moved
<1>4. IsFiniteSet(Cells(g, S, N) \union Moved)
  BY <1>1, <1>2, FS_Union
<1>5. Cardinality(Cells(g, S, N) \union Moved)
        = Cardinality(Cells(g, S, N)) + Cardinality(Moved)
          - Cardinality(Cells(g, S, N) \intersect Moved)
  BY <1>1, <1>2, FS_Union
<1>6. Cardinality(Cells(g, S, N) \intersect Moved) \in Nat
  BY <1>1, FS_Intersection, FS_CardinalityType
<1>7. Cardinality(Cells(f, S, N)) <= Cardinality(Cells(g, S, N) \union Moved)
  BY <1>3, <1>4, FS_Subset
<1>8. /\ Cardinality(Cells(g, S, N)) \in Nat /\ Cardinality(Moved) \in Nat
      /\ Cardinality(Source) \in Nat /\ Cardinality(Cells(f, S, N)) \in Nat
  BY <1>1, <1>2, <1>3, <1>4, FS_CardinalityType, FS_Subset
<1>9. Cardinality(Cells(f, S, N)) <= Cardinality(Cells(g, S, N)) + Cardinality(Source)
  BY <1>2, <1>5, <1>6, <1>7, <1>8
<1> QED
  BY <1>9 DEF Weight, Source
=============================================================================
