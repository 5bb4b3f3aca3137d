------------------------- MODULE MCRedisReplication -------------------------
\* An instance of RedisReplication for TLC: r2 is a slave of r1, and
\* r3 of r2.
EXTENDS RedisReplication

CONSTANTS r1, r2, r3

MCHost0 == [s \in Server |-> CASE s = r1 -> None [] s = r2 -> r1 [] s = r3 -> r2]
=============================================================================
