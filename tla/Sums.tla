-------------------------------- MODULE Sums --------------------------------
(***************************************************************************)
(* The SUM(...) of a query, for columns of natural numbers.                *)
(*                                                                         *)
(* A sum of naturals is the size of a disjoint union: row x with amount n  *)
(* stands for the n pairs <<x, 1>> .. <<x, n>>.  Said this way the facts   *)
(* about sums follow from those about cardinality, with no induction.      *)
(***************************************************************************)
EXTENDS Integers, FiniteSets

Units(amount, rows) == UNION {{x} \X (1 .. amount[x]) : x \in rows}

\* COALESCE(SUM(amount), 0) over the given rows.
SumOf(amount, rows) == Cardinality(Units(amount, rows))
=============================================================================
