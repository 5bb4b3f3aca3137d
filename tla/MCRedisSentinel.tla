-------------------------- MODULE MCRedisSentinel --------------------------
\* Instances of RedisSentinel for TLC.
EXTENDS RedisSentinel, TLC

CONSTANTS s1, s2, first, able, barred

MCPriority == [i \in Instance |-> IF i = barred THEN 0 ELSE 1]
MCOffset == [i \in Instance |-> 0]
Symmetry == Permutations(Sentinel)
=============================================================================
