------------------------------ MODULE MCMiaosha ------------------------------
(* Small instances of Miaosha for TLC.                                      *)
EXTENDS Miaosha

CONSTANTS g1, g2

\* Two units of g1: two messages of one user can both take one and reach the
\* insert, and redeliveries compete for them with another user's.
TwoUnits == [g \in Goods |-> IF g = g1 THEN 2 ELSE 0]
=============================================================================
