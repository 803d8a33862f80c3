-------------------------------- MODULE Totals --------------------------------
(***************************************************************************)
(* The total of a function over a set: how many units there are if x has   *)
(* f[x] of them, none where f[x] is not positive.  Counting the units says *)
(* what a sum is without saying in which order it is taken.                *)
(***************************************************************************)
EXTENDS Integers, FiniteSets

Units(f, S) == UNION {{x} \X (1..f[x]) : x \in S}
Total(f, S) == Cardinality(Units(f, S))
=============================================================================
