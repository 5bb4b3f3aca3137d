------------------------------- MODULE MCLogin -------------------------------
(* Small instances of Login for TLC.                                        *)
EXTENDS Login, TLC

CONSTANTS n1, n2, t1, t2, t3

\* Two threads share a node, so that a crash takes both; the third survives it.
TwoNodes == [t \in Threads |-> IF t = t3 THEN n2 ELSE n1]
=============================================================================
