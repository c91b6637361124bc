------------------------------- MODULE Weights -------------------------------
(***************************************************************************)
(* The total of a function of small naturals, as the number of points      *)
(* under its graph.  For f \in [S -> 0..N], Weight(f, S, N) is the sum of  *)
(* f[x] over x in S.  Written with Cardinality rather than as a recursive  *)
(* sum, so that facts about it follow from facts about finite sets.        *)
(***************************************************************************)
EXTENDS Integers, FiniteSets

\* The unit cells under the graph of f.
Cells(f, S, N) == {c \in S \X (1..N) : c[2] <= f[c[1]]}

Weight(f, S, N) == Cardinality(Cells(f, S, N))
=============================================================================
