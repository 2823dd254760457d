------------------------------- MODULE Totals -------------------------------
(***************************************************************************)
(* Sums over finite sets, counted unit by unit: without recursion the      *)
(* provers can reason about them.                                          *)
(***************************************************************************)
EXTENDS Naturals, FiniteSets

\* f[x] units for every x in S.
Units(f, S) == UNION {{x} \X (1..f[x]) : x \in S}

\* The sum of f[x] for x in S.
Total(f, S) == Cardinality(Units(f, S))

=============================================================================
