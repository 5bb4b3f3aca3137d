--------------------------- MODULE MCRedisCluster ---------------------------
\* Instances of RedisCluster for TLC.
EXTENDS RedisCluster

CONSTANTS ma, mb, mc, s1, s2

MCId == [n \in Node |-> CASE n = mb -> 2 [] n = ma -> 3 [] n = s1 -> 4 [] n = s2 -> 5 [] n = mc -> 6]

\* Three masters with a slot each, a slave of ma and one of mb, all connected.
ThreeMasterOf == [n \in Node |-> CASE n = s1 -> ma [] n = s2 -> mb [] OTHER -> None]
ThreeOwner == [j \in Slot |-> CASE j = 1 -> ma [] j = 2 -> mb [] j = 3 -> mc]
ThreeConfigEpoch == [n \in Node |-> CASE n = ma -> 1 [] n = mb -> 2 [] n = mc -> 3 [] OTHER -> 0]
AllLinks == Node \X Node
OnlyElections == [k \in OpKinds |-> IF k = "election" THEN 1 ELSE MaxOps + 1]

\* Two slaves of ma, which s1 alone reaches, and the masters mb and mc to vote.
PairMasterOf == [n \in Node |-> IF n \in {s1, s2} THEN ma ELSE None]
PairConfigEpoch == [n \in Node |-> CASE n = mb -> 1 [] n = mc -> 2 [] OTHER -> 0]
PairLinks == ({s1, s2} \X {mb, mc}) \cup {<<s1, ma>>, <<ma, s1>>}

\* Two elections and a restart, or one and any other operation.
PairCost == [k \in OpKinds |-> CASE k = "election" -> 2 [] k = "restart" -> 1 [] OTHER -> 3]
=============================================================================
