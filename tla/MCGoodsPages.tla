----------------------------- MODULE MCGoodsPages -----------------------------
(* Small instances of GoodsPages for TLC.                                   *)
EXTENDS GoodsPages, TLC

CONSTANTS g1

\* The sale of g1 starts in the middle of a second and is short; the other
\* goods are on sale later.
Starts == [g \in Goods |-> IF g = g1 THEN 3 ELSE 7]
Ends   == [g \in Goods |-> IF g = g1 THEN 4 ELSE 8]

Symmetry == Permutations(Views)
=============================================================================
