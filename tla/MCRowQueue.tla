----------------------------- MODULE MCRowQueue -----------------------------
(* Instances of RowQueue for TLC.                                          *)
EXTENDS RowQueue, TLC

CONSTANTS r1, r2, k1, k2

Rows1 == {r1}
Rows2 == {r1, r2}

\* One tree: every row, in one order.
OneKey == {k1}
IdsTwo == k1 :> <<r1, r2>>

IdsJustOne == k1 :> <<r1>>

\* Two trees over one row.
TwoKeys == {k1, k2}
IdsOneRow == k1 :> <<r1>> @@ k2 :> <<r1>>

\* A key whose filter selects one row, beside the whole tier.
IdsNarrow == k1 :> <<r1, r2>> @@ k2 :> <<r2>>
=============================================================================
