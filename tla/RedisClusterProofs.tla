------------------------- MODULE RedisClusterProofs -------------------------
(***************************************************************************)
(* Proofs about RedisCluster, for any number of nodes, slots, epochs,      *)
(* packets, restarts and operator commands.                                *)
(***************************************************************************)
EXTENDS RedisCluster, FiniteSetTheorems, TLAPS

-----------------------------------------------------------------------------
(* The inductive invariant                                                 *)

\* What a node believes, with epochs that are not bounded yet.
Table ==
    [epoch : Nat, savedEpoch : Nat, vote : Nat, savedVote : Nat,
     cfg : [Node -> Nat], slots : [Slot -> Node \cup {None}],
     master : [Node -> Node \cup {None}], savedMaster : [Node -> Node \cup {None}],
     auth : {"none", "scheduled", "sent"}, authCount : Nat, authEpoch : Nat,
     mf : {"none", "asked", "offset", "can"}, mfSlave : Node \cup {None}]

\* While a callback runs: no epoch is ahead of currentEpoch, and lastVoteEpoch
\* is the one of the file.
Draft(n, r) ==
    /\ r \in Table
    /\ \A m \in Node : r.cfg[m] <= r.epoch
    /\ r.savedEpoch <= r.epoch /\ r.authEpoch <= r.epoch
    /\ r.savedVote = r.vote /\ r.vote <= r.savedEpoch
    /\ r.master[n] # n /\ r.savedMaster[n] # n

\* Between callbacks: nor is one ahead of the currentEpoch of the file.
NodeOK(n, r) ==
    /\ Draft(n, r)
    /\ \A m \in Node : r.cfg[m] <= r.savedEpoch
    /\ r.epoch <= MaxEpoch

HeaderOK(h) == h \in Header /\ h.cfg <= h.epoch

PacketOK(p) ==
    /\ HeaderOK(p.hdr) /\ p.to \in Node \ {p.hdr.from}
    /\ p.hdr.type = "update" => p.data \in Claim /\ p.data.cfg <= p.hdr.epoch

\* No vote is of a later epoch than the voter's lastVoteEpoch.
BallotOK(b) ==
    /\ b \in [voter : Node, epoch : Epoch, for : Node]
    /\ b.epoch <= nd[b.voter].vote

ClusterInv ==
    /\ DOMAIN nd = Node /\ nd = [n \in Node |-> nd[n]]
    /\ \A n \in Node : NodeOK(n, nd[n])
    /\ \A p \in net : PacketOK(p)
    /\ \A b \in ballots : BallotOK(b)
    /\ ops \in 0..MaxOps
    /\ OneVotePerEpoch

\* From r to q no epoch in the table of n falls, and so no slot goes to another
\* node of an older epoch.
CfgGrows(r, q) == \A m \in Node : r.cfg[m] <= q.cfg[m]
SlotsGrow(n, r, q) ==
    \A j \in Slot : r.slots[j] # None /\ q.slots[j] \notin {n, None}
                       => r.cfg[r.slots[j]] <= q.cfg[q.slots[j]]

-----------------------------------------------------------------------------
(* Greatest elements                                                       *)

LEMMA MaxOfTwo ==
    ASSUME NEW a \in Nat, NEW b \in Nat
    PROVE  /\ Max({a, b}) \in Nat /\ Max({a, b}) \in {a, b}
           /\ Max({a, b}) >= a /\ Max({a, b}) >= b
<1> DEFINE P(x) == \A y \in {a, b} : x >= y
<1>1. \E x \in {a, b} : P(x)
  BY a >= b \/ b >= a
<1>2. Max({a, b}) = CHOOSE x \in {a, b} : P(x)
  BY DEF Max
<1>3. Max({a, b}) \in {a, b} /\ P(Max({a, b}))
  BY <1>1, <1>2
<1> QED
  BY <1>3

LEMMA MaxIs ==
    ASSUME NEW S \in SUBSET Nat, NEW x \in S, \A y \in S : y <= x
    PROVE  Max(S) = x
<1> DEFINE P(z) == \A y \in S : z >= y
<1>1. P(x)
  OBVIOUS
<1>2. Max(S) = CHOOSE z \in S : P(z)
  BY DEF Max
<1>3. Max(S) \in S /\ P(Max(S))
  BY <1>1, <1>2
<1>4. Max(S) >= x /\ Max(S) <= x /\ Max(S) \in Nat /\ x \in Nat
  BY <1>3
<1> QED
  BY <1>4

LEMMA MaxExists ==
    ASSUME NEW N \in Nat, NEW S \in SUBSET (0..N), S # {}
    PROVE  Max(S) \in S /\ \A y \in S : y <= Max(S)
<1> DEFINE T == {x \in 0..N : N - x \in S}
           P(z) == \A y \in S : z >= y
<1>1. T \subseteq Nat /\ T # {}
  <2>1. PICK s \in S : TRUE
    OBVIOUS
  <2>2. N - s \in 0..N /\ N - (N - s) = s
    BY <2>1
  <2> QED
    BY <2>1, <2>2
<1>2. PICK x \in T : \A y \in T : ~(<<y, x>> \in OpToRel(<, Nat))
  BY <1>1, NatLessThanWellFounded, WFMin
<1>3. \A y \in T : ~(y < x)
  BY <1>1, <1>2 DEF OpToRel
<1>4. N - x \in S /\ N - x \in Nat
  OBVIOUS
<1>5. P(N - x)
  <2> SUFFICES ASSUME NEW y \in S PROVE N - x >= y
    OBVIOUS
  <2>1. N - y \in 0..N /\ N - (N - y) = y
    OBVIOUS
  <2>2. N - y \in T
    BY <2>1
  <2>3. ~(N - y < x)
    BY <1>3, <2>2
  <2> QED
    BY <2>1, <2>3
<1>6. Max(S) = CHOOSE z \in S : P(z)
  BY DEF Max
<1>7. Max(S) \in S /\ P(Max(S))
  BY <1>4, <1>5, <1>6
<1> QED
  BY <1>7
-----------------------------------------------------------------------------
(* What the functions of cluster.c make of a table                         *)

\* From r to q within a callback: the table of slots is the same.
SameSlots(n, r, q) ==
    /\ CfgGrows(r, q) /\ q.slots = r.slots /\ q.vote = r.vote /\ q.epoch >= r.epoch

LEMMA SaveConfigOK ==
    ASSUME NEW n, NEW r, Draft(n, r)
    PROVE  LET q == SaveConfig(r)
           IN  /\ Draft(n, q) /\ (\A m \in Node : q.cfg[m] <= q.savedEpoch)
               /\ q.epoch = r.epoch /\ q.cfg = r.cfg /\ q.slots = r.slots /\ q.vote = r.vote
               /\ q.master = r.master /\ q.mf = r.mf
<1> DEFINE q == SaveConfig(r)
<1>1. r \in Table
  BY DEF Draft
<1>2. r.epoch \in Nat /\ r.vote \in Nat /\ r.savedEpoch \in Nat
  BY <1>1 DEF Table
<1>3. /\ q \in Table /\ q.savedEpoch = r.epoch /\ q.savedVote = r.vote /\ q.savedMaster = r.master
      /\ q.epoch = r.epoch /\ q.cfg = r.cfg /\ q.slots = r.slots /\ q.vote = r.vote
      /\ q.master = r.master /\ q.authEpoch = r.authEpoch /\ q.mf = r.mf
  BY <1>1, <1>2 DEF SaveConfig, Table
<1> HIDE DEF q
<1>4. Draft(n, q) /\ \A m \in Node : q.cfg[m] <= q.savedEpoch
  BY <1>2, <1>3 DEF Draft
<1> QED
  BY <1>3, <1>4 DEF q

\* A header brings the sender's epochs, which are in the file at once.
LEMMA ProcessHeaderOK ==
    ASSUME NEW n \in Node, NEW r, NodeOK(n, r), NEW h, HeaderOK(h)
    PROVE  LET q == ProcessHeader(r, n, h)
           IN  /\ NodeOK(n, q) /\ SameSlots(n, r, q) /\ q.master = r.master
               /\ q.cfg[h.from] >= h.cfg /\ q.epoch >= h.epoch
               /\ q.epoch \in {r.epoch, h.epoch}
<1> DEFINE e == Max({r.epoch, h.epoch})
           c == Max({r.cfg[h.from], h.cfg})
           f == IF r.mf = "asked" /\ r.master[n] = h.from /\ h.paused THEN "offset" ELSE r.mf
           g == [r.cfg EXCEPT ![h.from] = c]
           q == [r EXCEPT !.epoch = e, !.cfg = g, !.mf = f]
<1>1. /\ r \in Table /\ h.from \in Node
      /\ h.epoch \in Nat /\ h.cfg \in Nat /\ h.epoch <= MaxEpoch /\ h.cfg <= h.epoch
  BY ClusterConstants DEF NodeOK, Draft, HeaderOK, Header, Epoch
<1>2. r.epoch \in Nat /\ r.cfg \in [Node -> Nat] /\ r.savedEpoch \in Nat /\ MaxEpoch \in Nat
      /\ r.authEpoch \in Nat /\ r.vote \in Nat
  BY <1>1, ClusterConstants DEF Table
<1>3. /\ e \in Nat /\ e \in {r.epoch, h.epoch} /\ e >= r.epoch /\ e >= h.epoch
      /\ c \in Nat /\ c \in {r.cfg[h.from], h.cfg} /\ c >= r.cfg[h.from] /\ c >= h.cfg
  BY <1>1, <1>2, MaxOfTwo
<1>4. f \in {"none", "asked", "offset", "can"}
  BY <1>1 DEF Table
<1>5. ProcessHeader(r, n, h) = IF q.cfg = r.cfg THEN q ELSE SaveConfig(q)
  BY <1>1 DEF ProcessHeader, Table
<1> HIDE DEF e, c, f
<1>6. g \in [Node -> Nat] /\ g[h.from] = c /\ \A m \in Node : g[m] = IF m = h.from THEN c ELSE r.cfg[m]
  BY <1>1, <1>2, <1>3
<1> HIDE DEF g
<1>7. /\ q \in Table /\ q.epoch = e /\ q.cfg = g /\ q.slots = r.slots /\ q.vote = r.vote
      /\ q.savedEpoch = r.savedEpoch /\ q.savedVote = r.savedVote /\ q.savedMaster = r.savedMaster /\ q.authEpoch = r.authEpoch
      /\ q.master = r.master
  BY <1>1, <1>3, <1>4, <1>6 DEF Table
<1> HIDE DEF q
<1>8. \A m \in Node : r.cfg[m] <= g[m] /\ g[m] <= e
  <2> SUFFICES ASSUME NEW m \in Node PROVE r.cfg[m] <= g[m] /\ g[m] <= e
    OBVIOUS
  <2>1. r.cfg[m] <= r.epoch /\ r.cfg[m] \in Nat
    BY <1>2 DEF NodeOK, Draft
  <2> QED
    BY <1>1, <1>2, <1>3, <1>6, <2>1
<1>9. Draft(n, q)
  <2>1. q.savedEpoch <= q.epoch /\ q.authEpoch <= q.epoch
    BY <1>2, <1>3, <1>7 DEF NodeOK, Draft
  <2> QED
    BY <1>7, <1>8, <2>1 DEF NodeOK, Draft
<1>10. SameSlots(n, r, q) /\ q.epoch <= MaxEpoch
  BY <1>1, <1>2, <1>3, <1>7, <1>8 DEF SameSlots, CfgGrows, NodeOK
<1>11. CASE q.cfg = r.cfg
  <2>1. NodeOK(n, q)
    BY <1>7, <1>9, <1>10, <1>11 DEF NodeOK
  <2> QED
    BY <1>3, <1>5, <1>6, <1>7, <1>10, <1>11, <2>1
<1>12. CASE q.cfg # r.cfg
  <2> DEFINE z == SaveConfig(q)
  <2>1. /\ Draft(n, z) /\ (\A m \in Node : z.cfg[m] <= z.savedEpoch)
        /\ z.epoch = q.epoch /\ z.cfg = q.cfg /\ z.slots = q.slots /\ z.vote = q.vote
        /\ z.master = q.master
    BY <1>9, SaveConfigOK
  <2>2. ProcessHeader(r, n, h) = z
    BY <1>5, <1>12
  <2> HIDE DEF z
  <2>3. NodeOK(n, z) /\ SameSlots(n, r, z)
    BY <1>10, <2>1 DEF NodeOK, SameSlots, CfgGrows
  <2> QED
    BY <1>3, <1>6, <1>7, <2>1, <2>2, <2>3
<1> QED
  BY <1>11, <1>12

\* Slots are lost with the role of a master, and never won.
LEMMA SwitchRoleOK ==
    ASSUME NEW n \in Node, NEW r, NodeOK(n, r), NEW h, HeaderOK(h), h.from # n
    PROVE  LET q == SwitchRole(r, h)
           IN  /\ NodeOK(n, q) /\ q.cfg = r.cfg /\ q.epoch = r.epoch /\ q.vote = r.vote
               /\ \A j \in Slot : q.slots[j] \in {r.slots[j], None}
               /\ h.slaveof = None => q.slots = r.slots
<1> DEFINE q == SwitchRole(r, h)
           lost == [j \in Slot |-> IF r.slots[j] = h.from THEN None ELSE r.slots[j]]
<1>1. r \in Table /\ h.from \in Node /\ h.slaveof \in Node \cup {None}
  BY DEF NodeOK, Draft, HeaderOK, Header
<1>2. r.slots \in [Slot -> Node \cup {None}] /\ r.master \in [Node -> Node \cup {None}]
  BY <1>1 DEF Table
<1>3. lost \in [Slot -> Node \cup {None}]
  BY <1>2
<1>4. PICK s \in [Slot -> Node \cup {None}], m \in [Node -> Node \cup {None}] :
        /\ q = [r EXCEPT !.slots = s, !.master = m] /\ m[n] = r.master[n]
        /\ s = r.slots \/ (s = lost /\ h.slaveof # None)
  <2> DEFINE m == [r.master EXCEPT ![h.from] = h.slaveof]
  <2>1. m \in [Node -> Node \cup {None}] /\ m[n] = r.master[n]
    BY <1>1, <1>2
  <2>2. CASE h.slaveof = None
    <3>1. q = [r EXCEPT !.slots = r.slots, !.master = m]
      BY <1>1, <2>2 DEF SwitchRole, SetNodeAsMaster, Table
    <3> QED
      BY <1>2, <2>1, <3>1
  <2>3. CASE h.slaveof # None /\ IsMaster(r, h.from)
    <3>1. q = [r EXCEPT !.slots = lost, !.master = m]
      BY <1>1, <2>3 DEF SwitchRole, DelNodeSlots, Table
    <3> QED
      BY <1>3, <2>1, <2>3, <3>1
  <2>4. CASE h.slaveof # None /\ ~IsMaster(r, h.from)
    <3>1. q = [r EXCEPT !.slots = r.slots, !.master = m]
      BY <1>1, <2>4 DEF SwitchRole, Table
    <3> QED
      BY <1>2, <2>1, <3>1
  <2> QED
    BY <2>2, <2>3, <2>4
<1> HIDE DEF q
<1>5. /\ q \in Table /\ q.epoch = r.epoch /\ q.savedEpoch = r.savedEpoch /\ q.vote = r.vote
      /\ q.savedVote = r.savedVote /\ q.savedMaster = r.savedMaster /\ q.cfg = r.cfg /\ q.authEpoch = r.authEpoch
      /\ q.slots = s /\ q.master = m
  BY <1>1, <1>4 DEF Table
<1>6. NodeOK(n, q)
  BY <1>4, <1>5 DEF NodeOK, Draft
<1>7. \A j \in Slot : q.slots[j] \in {r.slots[j], None}
  BY <1>4, <1>5
<1> QED
  BY <1>4, <1>5, <1>6, <1>7 DEF q

\* A claim takes a slot only from an older epoch.
LEMMA UpdateSlotsOK ==
    ASSUME NEW n \in Node, NEW r, NEW m \in Node, NEW cfg \in Nat, NEW slots,
           Draft(n, r)
    PROVE  LET q == UpdateSlotsConfigWith(r, n, m, cfg, slots)
           IN  /\ Draft(n, q) /\ q.cfg = r.cfg /\ q.epoch = r.epoch /\ q.vote = r.vote
               /\ q.savedEpoch = r.savedEpoch
               /\ \A j \in Slot : \/ q.slots[j] = r.slots[j]
                                  \/ /\ q.slots[j] = m
                                     /\ r.slots[j] = None \/ r.cfg[r.slots[j]] < cfg
<1> DEFINE z == UpdateSlotsConfigWith(r, n, m, cfg, slots)
           cur   == IF IsMaster(r, n) THEN n ELSE r.master[n]
           taken == {j \in slots : /\ r.slots[j] # m
                                   /\ r.slots[j] = None \/ r.cfg[r.slots[j]] < cfg}
           s == [j \in Slot |-> IF j \in taken THEN m ELSE r.slots[j]]
           q == [r EXCEPT !.slots = s]
<1>1. r \in Table
  BY DEF Draft
<1>2. r.slots \in [Slot -> Node \cup {None}] /\ r.master \in [Node -> Node \cup {None}]
  BY <1>1 DEF Table
<1>3. z = IF m = n THEN r
          ELSE IF SlotsOf(q, cur) = {} /\ \E j \in taken : r.slots[j] = cur
               THEN SetMaster(q, n, m) ELSE q
  BY DEF UpdateSlotsConfigWith
<1>4. /\ s \in [Slot -> Node \cup {None}]
      /\ \A j \in Slot : \/ s[j] = r.slots[j]
                         \/ s[j] = m /\ (r.slots[j] = None \/ r.cfg[r.slots[j]] < cfg)
  BY <1>2
<1> HIDE DEF s, z, cur, taken
<1>5. /\ q \in Table /\ q.epoch = r.epoch /\ q.savedEpoch = r.savedEpoch /\ q.vote = r.vote
      /\ q.savedVote = r.savedVote /\ q.savedMaster = r.savedMaster /\ q.cfg = r.cfg /\ q.authEpoch = r.authEpoch
      /\ q.slots = s /\ q.master = r.master
  BY <1>1, <1>4 DEF Table
<1> HIDE DEF q
<1>6. CASE z = r
  BY <1>6 DEF z
<1>7. CASE z = q
  <2>1. Draft(n, z)
    BY <1>5, <1>7 DEF Draft
  <2> QED
    BY <1>4, <1>5, <1>7, <2>1 DEF z
<1>8. CASE m # n /\ z = SetMaster(q, n, m)
  <2>1. /\ z \in Table /\ z.epoch = q.epoch /\ z.savedEpoch = q.savedEpoch /\ z.vote = q.vote
        /\ z.savedVote = q.savedVote /\ z.savedMaster = q.savedMaster /\ z.cfg = q.cfg /\ z.authEpoch = q.authEpoch
        /\ z.slots = q.slots /\ z.master[n] = m
    BY <1>5, <1>8 DEF SetMaster, ResetManualFailover, Table
  <2>2. Draft(n, z)
    BY <1>5, <1>8, <2>1 DEF Draft
  <2> QED
    BY <1>4, <1>5, <2>1, <2>2 DEF z
<1> QED
  BY <1>3, <1>6, <1>7, <1>8

\* The collision of two epochs makes the epoch of n grow.
LEMMA CollisionOK ==
    ASSUME NEW n \in Node, NEW r, NEW m, Draft(n, r)
    PROVE  LET q == HandleConfigEpochCollision(r, n, m)
           IN  Draft(n, q) /\ SameSlots(n, r, q)
<1> DEFINE q == HandleConfigEpochCollision(r, n, m)
           e == r.epoch + 1
           c == [r.cfg EXCEPT ![n] = e]
           z == [r EXCEPT !.epoch = e, !.cfg = c]
<1>1. r \in Table
  BY DEF Draft
<1>2. /\ r.epoch \in Nat /\ r.cfg \in [Node -> Nat] /\ r.savedEpoch \in Nat /\ r.authEpoch \in Nat
  BY <1>1 DEF Table
<1>3. q = r \/ q = z
  BY <1>1 DEF HandleConfigEpochCollision, Table
<1>4. c \in [Node -> Nat] /\ \A x \in Node : r.cfg[x] <= c[x] /\ c[x] <= e
  BY <1>2 DEF Draft
<1> HIDE DEF c
<1>5. e \in Nat /\ e > r.epoch
  BY <1>2
<1> HIDE DEF e
<1>6. /\ z \in Table /\ z.epoch = e /\ z.cfg = c /\ z.slots = r.slots /\ z.vote = r.vote
      /\ z.savedEpoch = r.savedEpoch /\ z.savedVote = r.savedVote /\ z.savedMaster = r.savedMaster /\ z.authEpoch = r.authEpoch
      /\ z.master = r.master
  BY <1>1, <1>4, <1>5 DEF Table
<1> HIDE DEF z, q
<1>7. Draft(n, z) /\ SameSlots(n, r, z)
  BY <1>2, <1>4, <1>5, <1>6 DEF Draft, SameSlots, CfgGrows
<1>8. SameSlots(n, r, r)
  BY <1>2 DEF SameSlots, CfgGrows
<1> QED
  BY <1>3, <1>7, <1>8 DEF q

\* A PING: no slot goes to an older epoch, and what changed is in the file.
LEMMA ProcessPingOK ==
    ASSUME NEW n \in Node, NEW r, NodeOK(n, r), NEW h, HeaderOK(h), h.from # n
    PROVE  LET o == ProcessPing(r, n, h)
           IN  /\ Draft(n, o.rec) /\ (\A m \in Node : o.rec.cfg[m] <= o.rec.savedEpoch)
               /\ o.rec.vote = r.vote /\ SlotsGrow(n, r, o.rec)
               /\ o.newer \subseteq Node
<1> DEFINE q0 == ProcessHeader(r, n, h)
           q1 == SwitchRole(q0, h)
           sm == IF h.slaveof = None THEN h.from ELSE h.slaveof
           dirty == SlotsOf(q1, sm) # h.slots
           q2 == IF h.slaveof = None /\ dirty
                 THEN UpdateSlotsConfigWith(q1, n, h.from, h.cfg, h.slots) ELSE q1
           q3 == IF h.cfg = q2.cfg[n] THEN HandleConfigEpochCollision(q2, n, h.from) ELSE q2
           rec == IF [q3 EXCEPT !.epoch = r.epoch, !.mf = r.mf] = r THEN q3 ELSE SaveConfig(q3)
           newer == IF ~dirty THEN {}
                    ELSE {q2.slots[j] : j \in {k \in h.slots :
                            /\ q2.slots[k] \notin {h.from, None}
                            /\ q2.cfg[q2.slots[k]] > h.cfg}}
<1>1. /\ h.from \in Node /\ h.cfg \in Nat /\ h.slots \subseteq Slot
  BY ClusterConstants DEF HeaderOK, Header, Epoch
<1>2. ProcessPing(r, n, h).rec = rec /\ ProcessPing(r, n, h).newer = newer
  BY DEF ProcessPing
<1>3. /\ NodeOK(n, q0) /\ SameSlots(n, r, q0) /\ q0.cfg[h.from] >= h.cfg
  BY ProcessHeaderOK
<1> HIDE DEF q0
<1>4. /\ NodeOK(n, q1) /\ q1.cfg = q0.cfg /\ q1.vote = q0.vote
      /\ \A j \in Slot : q1.slots[j] \in {q0.slots[j], None}
      /\ h.slaveof = None => q1.slots = q0.slots
  BY <1>3, SwitchRoleOK
<1> HIDE DEF q1, dirty
<1>5. /\ Draft(n, q2) /\ q2.cfg = q1.cfg /\ q2.vote = q1.vote
      /\ \A j \in Slot : \/ q2.slots[j] = q1.slots[j]
                         \/ /\ q2.slots[j] = h.from /\ h.slaveof = None
                            /\ q1.slots[j] = None \/ q1.cfg[q1.slots[j]] < h.cfg
  BY <1>1, <1>4, UpdateSlotsOK DEF NodeOK
<1> HIDE DEF q2
<1>6. Draft(n, q3) /\ SameSlots(n, q2, q3)
  <2>1. SameSlots(n, q2, q2)
    BY <1>5 DEF SameSlots, CfgGrows, Draft, Table
  <2> QED
    BY <1>5, <2>1, CollisionOK
<1> HIDE DEF q3
<1>7. /\ r \in Table /\ q0 \in Table /\ q2 \in Table /\ q3 \in Table
  BY <1>3, <1>5, <1>6 DEF NodeOK, Draft
<1>8. /\ Draft(n, rec) /\ (\A m \in Node : rec.cfg[m] <= rec.savedEpoch)
      /\ rec.cfg = q3.cfg /\ rec.slots = q3.slots /\ rec.vote = q3.vote
  <2>1. CASE [q3 EXCEPT !.epoch = r.epoch, !.mf = r.mf] = r
    <3>1. q3.cfg = r.cfg /\ q3.savedEpoch = r.savedEpoch
      BY <1>7, <2>1 DEF Table
    <3> QED
      BY <1>6, <2>1, <3>1 DEF NodeOK
  <2>2. CASE [q3 EXCEPT !.epoch = r.epoch, !.mf = r.mf] # r
    BY <1>6, <2>2, SaveConfigOK
  <2> QED
    BY <2>1, <2>2
<1> HIDE DEF rec
<1>9. \A m \in Node : /\ r.cfg[m] \in Nat /\ q0.cfg[m] \in Nat /\ rec.cfg[m] \in Nat
                      /\ r.cfg[m] <= q0.cfg[m] /\ q0.cfg[m] <= rec.cfg[m]
  <2>1. r.cfg \in [Node -> Nat] /\ q0.cfg \in [Node -> Nat] /\ q3.cfg \in [Node -> Nat]
    BY <1>7 DEF Table
  <2> QED
    BY <1>3, <1>4, <1>5, <1>6, <1>8, <2>1 DEF SameSlots, CfgGrows
<1>10. SlotsGrow(n, r, rec)
  <2> SUFFICES ASSUME NEW j \in Slot, r.slots[j] # None, rec.slots[j] \notin {n, None}
               PROVE  r.cfg[r.slots[j]] <= rec.cfg[rec.slots[j]]
    BY DEF SlotsGrow
  <2>1. r.slots[j] \in Node
    BY <1>7 DEF Table
  <2>2. rec.slots[j] = q2.slots[j] /\ q0.slots[j] = r.slots[j]
    BY <1>3, <1>6, <1>8 DEF SameSlots
  <2>3. CASE q2.slots[j] = q1.slots[j]
    <3>1. rec.slots[j] = r.slots[j]
      BY <1>4, <2>2, <2>3
    <3> QED
      BY <1>9, <2>1, <3>1
  <2>4. CASE q2.slots[j] # q1.slots[j]
    <3>1. /\ q2.slots[j] = h.from
          /\ q1.slots[j] = None \/ q1.cfg[q1.slots[j]] < h.cfg
          /\ q1.slots = q0.slots
      BY <1>4, <1>5, <2>4
    <3>2. q0.cfg[r.slots[j]] < h.cfg
      BY <1>4, <2>2, <3>1
    <3> QED
      BY <1>1, <1>3, <1>9, <2>1, <2>2, <3>1, <3>2
  <2> QED
    BY <2>3, <2>4
<1>11. newer \subseteq Node
  <2>1. q2.slots \in [Slot -> Node \cup {None}]
    BY <1>7 DEF Table
  <2> QED
    BY <1>1, <2>1
<1>12. rec.vote = r.vote
  BY <1>3, <1>4, <1>5, <1>6, <1>8 DEF SameSlots
<1> HIDE DEF newer
<1> QED
  BY <1>2, <1>8, <1>10, <1>11, <1>12

\* No epoch falls, and a slot stays, is given up or is n's own.
LEMMA KeptSlotsGrow ==
    ASSUME NEW n, NEW r \in Table, NEW q \in Table, CfgGrows(r, q),
           \A j \in Slot : q.slots[j] \in {r.slots[j], n, None}
    PROVE  SlotsGrow(n, r, q)
<1> SUFFICES ASSUME NEW j \in Slot, r.slots[j] # None, q.slots[j] \notin {n, None}
             PROVE  r.cfg[r.slots[j]] <= q.cfg[q.slots[j]]
  BY DEF SlotsGrow
<1>1. r.slots[j] \in Node /\ q.slots[j] = r.slots[j]
  BY DEF Table
<1> QED
  BY <1>1 DEF CfgGrows

LEMMA SameSlotsGrow ==
    ASSUME NEW n, NEW r \in Table, NEW q \in Table, SameSlots(n, r, q)
    PROVE  SlotsGrow(n, r, q)
BY KeptSlotsGrow DEF SameSlots

\* An UPDATE raises the epoch of the node it is about, under which it claims.
LEMMA ProcessUpdateOK ==
    ASSUME NEW n \in Node, NEW r, NodeOK(n, r), NEW h, HeaderOK(h),
           NEW u \in Claim, u.cfg <= h.epoch
    PROVE  LET q == ProcessUpdate(r, n, h, u)
           IN  NodeOK(n, q) /\ q.vote = r.vote /\ SlotsGrow(n, r, q)
<1> DEFINE z == ProcessUpdate(r, n, h, u)
           q == ProcessHeader(r, n, h)
           a == [q.master EXCEPT ![u.about] = None]
           c == [q.cfg EXCEPT ![u.about] = u.cfg]
           m == [q EXCEPT !.master = a, !.cfg = c]
           w == UpdateSlotsConfigWith(m, n, u.about, u.cfg, u.slots)
<1>1. /\ h.epoch \in Nat /\ u.about \in Node /\ u.cfg \in Nat /\ None # n
  BY ClusterConstants DEF HeaderOK, Header, Claim, Epoch
<1>2. /\ NodeOK(n, q) /\ SameSlots(n, r, q) /\ q.epoch >= h.epoch
  BY ProcessHeaderOK
<1>3. r \in Table /\ q \in Table
  BY <1>2 DEF NodeOK, Draft
<1>4. CASE q.cfg[u.about] >= u.cfg
  <2>1. z = q
    BY <1>4 DEF ProcessUpdate
  <2> HIDE DEF q
  <2> QED
    BY <1>2, <1>3, <2>1, SameSlotsGrow DEF SameSlots
<1>5. CASE ~(q.cfg[u.about] >= u.cfg)
  <2>1. z = SaveConfig(w)
    <3>1. m = [SetNodeAsMaster(q, u.about) EXCEPT !.cfg[u.about] = u.cfg]
      <4> HIDE DEF q
      <4> QED
        BY <1>3 DEF SetNodeAsMaster, Table
    <3> QED
      BY <1>5, <3>1 DEF ProcessUpdate
  <2> HIDE DEF q
  <2>2. q.cfg \in [Node -> Nat] /\ q.epoch \in Nat /\ q.master \in [Node -> Node \cup {None}]
    BY <1>3 DEF Table
  <2>3. /\ c \in [Node -> Nat] /\ c[u.about] = u.cfg
        /\ \A x \in Node : q.cfg[x] <= c[x] /\ c[x] <= q.epoch
    BY <1>1, <1>2, <1>5, <2>2 DEF NodeOK, Draft
  <2>4. a \in [Node -> Node \cup {None}] /\ a[n] # n
    BY <1>1, <1>2, <2>2 DEF NodeOK, Draft
  <2> HIDE DEF a, c
  <2>5. /\ m \in Table /\ m.epoch = q.epoch /\ m.cfg = c /\ m.slots = q.slots /\ m.vote = q.vote
        /\ m.savedEpoch = q.savedEpoch /\ m.savedVote = q.savedVote /\ m.savedMaster = q.savedMaster /\ m.authEpoch = q.authEpoch
        /\ m.master = a
    BY <1>3, <2>3, <2>4 DEF Table
  <2> HIDE DEF m
  <2>6. Draft(n, m)
    BY <1>2, <2>3, <2>4, <2>5 DEF NodeOK, Draft
  <2>7. /\ Draft(n, w) /\ w.cfg = c /\ w.epoch = q.epoch /\ w.vote = q.vote
        /\ \A j \in Slot : \/ w.slots[j] = q.slots[j]
                           \/ /\ w.slots[j] = u.about
                              /\ q.slots[j] = None \/ c[q.slots[j]] < u.cfg
    BY <1>1, <2>5, <2>6, UpdateSlotsOK
  <2> HIDE DEF w
  <2>8. /\ Draft(n, z) /\ (\A x \in Node : z.cfg[x] <= z.savedEpoch)
        /\ z.epoch = q.epoch /\ z.cfg = c /\ z.slots = w.slots /\ z.vote = q.vote
    BY <2>1, <2>7, SaveConfigOK
  <2> HIDE DEF z
  <2>9. SlotsGrow(n, r, z)
    <3> SUFFICES ASSUME NEW j \in Slot, r.slots[j] # None, z.slots[j] \notin {n, None}
                 PROVE  r.cfg[r.slots[j]] <= z.cfg[z.slots[j]]
      BY DEF SlotsGrow
    <3>1. /\ r.slots[j] \in Node /\ r.slots = q.slots
          /\ \A x \in Node : r.cfg[x] \in Nat /\ r.cfg[x] <= q.cfg[x]
      BY <1>2, <1>3 DEF Table, SameSlots, CfgGrows
    <3>2. CASE w.slots[j] = q.slots[j]
      BY <2>2, <2>3, <2>8, <3>1, <3>2
    <3>3. CASE w.slots[j] = u.about /\ c[q.slots[j]] < u.cfg
      BY <1>1, <2>2, <2>3, <2>8, <3>1, <3>3
    <3> QED
      BY <2>7, <3>1, <3>2, <3>3
  <2> QED
    BY <1>2, <2>8, <2>9 DEF NodeOK, SameSlots, z
<1> QED
  BY <1>4, <1>5

\* A node speaks of epochs it has.
LEMMA HeaderSent ==
    ASSUME NEW n \in Node, NEW r, NodeOK(n, r),
           NEW type \in {"ping", "update", "auth_request", "auth_ack", "mfstart"}
    PROVE  LET h == BuildMessageHdr(r, n, type)
           IN  HeaderOK(h) /\ h.from = n /\ h.type = type /\ h.epoch = r.epoch
<1> DEFINE m == IF IsMaster(r, n) THEN n ELSE r.master[n]
           b == IsMaster(r, n) /\ r.mf # "none"
           h == BuildMessageHdr(r, n, type)
<1>1. r \in Table /\ r.epoch <= MaxEpoch /\ MaxEpoch \in Nat
  BY ClusterConstants DEF NodeOK, Draft
<1>2. /\ r.master[n] \in Node \cup {None} /\ r.epoch \in Nat
      /\ \A x \in Node : r.cfg[x] \in Nat /\ r.cfg[x] <= r.epoch
  BY <1>1 DEF NodeOK, Draft, Table
<1>3. m \in Node
  BY <1>2 DEF IsMaster
<1>4. SlotsOf(r, m) \in SUBSET Slot /\ b \in BOOLEAN
  BY DEF SlotsOf
<1>5. h = [type |-> type, from |-> n, slaveof |-> r.master[n], epoch |-> r.epoch,
           cfg |-> r.cfg[m], slots |-> SlotsOf(r, m), paused |-> b]
  BY DEF BuildMessageHdr
<1> HIDE DEF m, b, h
<1>6. r.cfg[m] \in Epoch /\ r.epoch \in Epoch
  BY <1>1, <1>2, <1>3 DEF Epoch
<1>7. h \in Header /\ h.from = n /\ h.type = type /\ h.epoch = r.epoch /\ h.cfg = r.cfg[m]
  BY <1>2, <1>4, <1>5, <1>6 DEF Header
<1> QED
  BY <1>2, <1>3, <1>7 DEF HeaderOK, h

\* So are the packets other than UPDATEs.
LEMMA PacketSent ==
    ASSUME NEW n \in Node, NEW r, NodeOK(n, r), NEW to \in Node \ {n}, NEW data,
           NEW type \in {"ping", "auth_request", "auth_ack", "mfstart"}
    PROVE  PacketOK(Packet(r, n, type, to, data))
<1> DEFINE h == BuildMessageHdr(r, n, type)
           p == Packet(r, n, type, to, data)
<1>1. HeaderOK(h) /\ h.from = n /\ h.type # "update"
  BY HeaderSent
<1>2. p.hdr = h /\ p.to = to
  BY DEF Packet
<1> HIDE DEF h, p
<1> QED
  BY <1>1, <1>2 DEF PacketOK, p

LEMMA UpdateSent ==
    ASSUME NEW n \in Node, NEW r, NodeOK(n, r), NEW to \in Node \ {n}, NEW x \in Node
    PROVE  PacketOK(UpdatePacket(r, n, x, to))
<1> DEFINE h == BuildMessageHdr(r, n, "update")
           p == UpdatePacket(r, n, x, to)
           u == [about |-> x, cfg |-> r.cfg[x], slots |-> SlotsOf(r, x)]
<1>1. HeaderOK(h) /\ h.from = n /\ h.epoch = r.epoch
  BY HeaderSent
<1>2. p.hdr = h /\ p.to = to /\ p.data = u
  BY DEF Packet, UpdatePacket
<1>3. r.cfg[x] \in Nat /\ r.cfg[x] <= r.epoch /\ r.epoch \in Nat
  BY DEF NodeOK, Draft, Table
<1>4. r.cfg[x] \in Epoch /\ SlotsOf(r, x) \in SUBSET Slot
  BY <1>3, ClusterConstants DEF NodeOK, Epoch, SlotsOf
<1>5. u \in Claim /\ u.cfg <= h.epoch
  BY <1>1, <1>3, <1>4 DEF Claim
<1> HIDE DEF h, p, u
<1> QED
  BY <1>1, <1>2, <1>5 DEF PacketOK, p

\* A vote is in the file when it leaves.
LEMMA VoteOK ==
    ASSUME NEW n \in Node, NEW r, NodeOK(n, r), r.vote # r.epoch
    PROVE  LET q == Vote(r)
           IN  /\ NodeOK(n, q) /\ q.vote = r.epoch /\ r.vote < q.vote
               /\ q.cfg = r.cfg /\ q.slots = r.slots
<1> DEFINE q == Vote(r)
<1>1. r \in Table
  BY DEF NodeOK, Draft
<1>2. r.epoch \in Nat /\ r.vote \in Nat /\ r.savedEpoch \in Nat
  BY <1>1 DEF Table
<1>3. /\ q \in Table /\ q.savedEpoch = r.epoch /\ q.savedVote = r.epoch /\ q.savedMaster = r.master
      /\ q.epoch = r.epoch /\ q.cfg = r.cfg /\ q.slots = r.slots /\ q.vote = r.epoch
      /\ q.master = r.master /\ q.authEpoch = r.authEpoch
  BY <1>1, <1>2 DEF Vote, SaveConfig, Table
<1> HIDE DEF q
<1>4. NodeOK(n, q) /\ r.vote < q.vote
  BY <1>2, <1>3 DEF NodeOK, Draft
<1> QED
  BY <1>3, <1>4 DEF q

\* What is not in the table of epochs and slots may change.
LEMMA SameTableOK ==
    ASSUME NEW n, NEW r, NodeOK(n, r), NEW q \in Table,
           q.epoch = r.epoch, q.savedEpoch = r.savedEpoch, q.vote = r.vote,
           q.savedVote = r.savedVote, q.savedMaster = r.savedMaster, q.cfg = r.cfg, q.slots = r.slots,
           q.authEpoch \in {r.authEpoch, 0}, q.master[n] # n
    PROVE  NodeOK(n, q) /\ SlotsGrow(n, r, q)
<1>1. r \in Table
  BY DEF NodeOK, Draft
<1>2. r.epoch \in Nat /\ r.authEpoch <= r.epoch /\ r.cfg \in [Node -> Nat]
  BY <1>1 DEF NodeOK, Draft, Table
<1>3. NodeOK(n, q)
  BY <1>2 DEF NodeOK, Draft
<1>4. CfgGrows(r, q)
  BY <1>2 DEF CfgGrows
<1>5. SlotsGrow(n, r, q)
  BY <1>1, <1>4, KeptSlotsGrow
<1> QED
  BY <1>3, <1>5

LEMMA CountVoteOK ==
    ASSUME NEW n \in Node, NEW r, NodeOK(n, r), NEW h
    PROVE  LET q == CountVote(r, h)
           IN  NodeOK(n, q) /\ q.vote = r.vote /\ q.cfg = r.cfg /\ q.slots = r.slots
<1> DEFINE c == r.authCount + 1
           z == [r EXCEPT !.authCount = c]
<1>1. r \in Table
  BY DEF NodeOK, Draft
<1>2. CountVote(r, h) = r \/ CountVote(r, h) = z
  BY DEF CountVote
<1>3. c \in Nat
  BY <1>1 DEF Table
<1> HIDE DEF c
<1>4. /\ z \in Table /\ z.epoch = r.epoch /\ z.cfg = r.cfg /\ z.slots = r.slots /\ z.vote = r.vote
      /\ z.savedEpoch = r.savedEpoch /\ z.savedVote = r.savedVote /\ z.savedMaster = r.savedMaster /\ z.authEpoch = r.authEpoch
      /\ z.master = r.master
  BY <1>1, <1>3 DEF Table
<1> HIDE DEF z
<1>5. NodeOK(n, z)
  BY <1>4 DEF NodeOK, Draft
<1> QED
  BY <1>2, <1>4, <1>5

\* The new master serves the slots of the old one, and none goes elsewhere.
LEMMA ReplaceOK ==
    ASSUME NEW n \in Node, NEW r, Draft(n, r)
    PROVE  LET q == FailoverReplaceYourMaster(r, n)
           IN  /\ Draft(n, q) /\ (\A m \in Node : q.cfg[m] <= q.savedEpoch)
               /\ q.epoch = r.epoch /\ q.cfg = r.cfg /\ q.vote = r.vote
               /\ \A j \in Slot : q.slots[j] \in {r.slots[j], n}
<1> DEFINE old == r.master[n]
           s == [j \in Slot |-> IF r.slots[j] = old THEN n ELSE r.slots[j]]
           a == [r.master EXCEPT ![n] = None]
           z == [r EXCEPT !.master = a, !.slots = s, !.mf = "none", !.mfSlave = None]
<1>1. r \in Table /\ None # n
  BY ClusterConstants DEF Draft
<1>2. r.slots \in [Slot -> Node \cup {None}] /\ r.master \in [Node -> Node \cup {None}]
  BY <1>1 DEF Table
<1>3. s \in [Slot -> Node \cup {None}] /\ \A j \in Slot : s[j] \in {r.slots[j], n}
  BY <1>2
<1>4. a \in [Node -> Node \cup {None}] /\ a[n] # n
  BY <1>1, <1>2
<1>5. FailoverReplaceYourMaster(r, n) = SaveConfig(z)
  BY <1>1 DEF FailoverReplaceYourMaster, ResetManualFailover, SetNodeAsMaster, Table
<1> HIDE DEF s, a
<1>6. /\ z \in Table /\ z.epoch = r.epoch /\ z.cfg = r.cfg /\ z.slots = s /\ z.vote = r.vote
      /\ z.savedEpoch = r.savedEpoch /\ z.savedVote = r.savedVote /\ z.savedMaster = r.savedMaster /\ z.authEpoch = r.authEpoch
      /\ z.master = a
  BY <1>1, <1>3, <1>4 DEF Table
<1> HIDE DEF z
<1>7. Draft(n, z)
  BY <1>4, <1>6 DEF Draft
<1> DEFINE q == SaveConfig(z)
<1>8. /\ Draft(n, q) /\ (\A m \in Node : q.cfg[m] <= q.savedEpoch)
      /\ q.epoch = z.epoch /\ q.cfg = z.cfg /\ q.slots = z.slots /\ q.vote = z.vote
  BY <1>7, SaveConfigOK
<1> HIDE DEF q
<1> QED
  BY <1>3, <1>5, <1>6, <1>8 DEF q
-----------------------------------------------------------------------------
(* Steps                                                                   *)

\* What every node may make of its table in a step.
NodesStep ==
    /\ nd' = [n \in Node |-> nd'[n]]
    /\ \A n \in Node : /\ NodeOK(n, nd'[n]) /\ nd[n].vote <= nd'[n].vote
                       /\ SlotsGrow(n, nd[n], nd'[n])

\* A vote is cast in an epoch the voter has not voted in.
BallotStep ==
    \/ ballots' = ballots
    \/ \E b \in [voter : Node, epoch : Epoch, for : Node] :
          /\ ballots' = ballots \cup {b}
          /\ nd[b.voter].vote < b.epoch /\ b.epoch <= nd'[b.voter].vote

SafeStep ==
    /\ NodesStep /\ BallotStep
    /\ \A p \in net' : p \in net \/ PacketOK(p)
    /\ ops' \in 0..MaxOps

LEMMA StepOK ==
    ASSUME ClusterInv, SafeStep
    PROVE  /\ ClusterInv'
           /\ \A n \in Node : SlotsGrow(n, nd[n], nd'[n])
<1>1. /\ nd' = [n \in Node |-> nd'[n]] /\ DOMAIN nd' = Node
      /\ \A n \in Node : /\ NodeOK(n, nd'[n]) /\ nd[n].vote <= nd'[n].vote
                         /\ SlotsGrow(n, nd[n], nd'[n])
  BY DEF SafeStep, NodesStep
<1>2. \A n \in Node : nd[n].vote \in Nat /\ nd'[n].vote \in Nat
  <2> SUFFICES ASSUME NEW n \in Node PROVE nd[n].vote \in Nat /\ nd'[n].vote \in Nat
    OBVIOUS
  <2>1. nd[n] \in Table /\ nd'[n] \in Table
    BY <1>1 DEF ClusterInv, NodeOK, Draft
  <2> QED
    BY <2>1 DEF Table
<1>3. \A b \in ballots : /\ b \in [voter : Node, epoch : Epoch, for : Node]
                         /\ b.epoch <= nd[b.voter].vote /\ b.epoch <= nd'[b.voter].vote
  <2> SUFFICES ASSUME NEW b \in ballots
               PROVE  /\ b \in [voter : Node, epoch : Epoch, for : Node]
                      /\ b.epoch <= nd[b.voter].vote /\ b.epoch <= nd'[b.voter].vote
    OBVIOUS
  <2>1. b \in [voter : Node, epoch : Epoch, for : Node] /\ b.epoch <= nd[b.voter].vote
    BY DEF ClusterInv, BallotOK
  <2>2. b.voter \in Node /\ b.epoch \in Nat
    BY <2>1 DEF Epoch
  <2> QED
    BY <1>1, <1>2, <2>1, <2>2
<1>4. \A p \in net' : PacketOK(p)
  BY DEF ClusterInv, SafeStep
<1>5. (\A b \in ballots' : BallotOK(b)') /\ OneVotePerEpoch'
  <2>1. CASE ballots' = ballots
    <3>1. \A b \in ballots' : BallotOK(b)'
      BY <1>3, <2>1 DEF BallotOK
    <3>2. OneVotePerEpoch'
      BY <2>1 DEF ClusterInv, OneVotePerEpoch
    <3> QED
      BY <3>1, <3>2
  <2>2. ASSUME NEW b \in [voter : Node, epoch : Epoch, for : Node],
               ballots' = ballots \cup {b},
               nd[b.voter].vote < b.epoch, b.epoch <= nd'[b.voter].vote
        PROVE  (\A c \in ballots' : BallotOK(c)') /\ OneVotePerEpoch'
    <3>1. \A c \in ballots' : BallotOK(c)'
      BY <1>3, <2>2 DEF BallotOK
    <3>2. \A c \in ballots : ~(c.voter = b.voter /\ c.epoch = b.epoch)
      <4> SUFFICES ASSUME NEW c \in ballots, c.voter = b.voter, c.epoch = b.epoch PROVE FALSE
        OBVIOUS
      <4>1. c.epoch <= nd[b.voter].vote /\ b.voter \in Node /\ b.epoch \in Nat
        BY <1>3 DEF Epoch
      <4> QED
        BY <1>2, <2>2, <4>1
    <3>3. OneVotePerEpoch'
      BY <2>2, <3>2 DEF ClusterInv, OneVotePerEpoch
    <3> QED
      BY <3>1, <3>3
  <2> QED
    BY <2>1, <2>2 DEF SafeStep, BallotStep
<1> QED
  BY <1>1, <1>4, <1>5 DEF ClusterInv, SafeStep

\* The tables of the other nodes stay as they are.
LEMMA OneNode ==
    ASSUME ClusterInv, NEW n \in Node, NEW r, Becomes(n, r),
           NodeOK(n, r), nd[n].vote <= r.vote, SlotsGrow(n, nd[n], r)
    PROVE  NodesStep
<1>1. nd' = [nd EXCEPT ![n] = r] /\ DOMAIN nd = Node
  BY DEF Becomes, ClusterInv
<1>2. nd' = [x \in Node |-> nd'[x]] /\ nd'[n] = r /\ \A x \in Node \ {n} : nd'[x] = nd[x]
  BY <1>1
<1>3. ASSUME NEW x \in Node
      PROVE  /\ NodeOK(x, nd'[x]) /\ nd[x].vote <= nd'[x].vote /\ SlotsGrow(x, nd[x], nd'[x])
  <2>1. CASE x = n
    BY <1>2, <2>1
  <2>2. CASE x # n
    <3>1. NodeOK(x, nd[x]) /\ nd[x] \in Table /\ nd'[x] = nd[x]
      BY <1>2, <2>2 DEF ClusterInv, NodeOK, Draft
    <3>2. nd[x].vote \in Nat /\ nd[x].cfg \in [Node -> Nat]
      BY <3>1 DEF Table
    <3>3. SlotsGrow(x, nd[x], nd[x])
      BY <3>1, <3>2, KeptSlotsGrow DEF CfgGrows
    <3> QED
      BY <3>1, <3>2, <3>3
  <2> QED
    BY <2>1, <2>2
<1> QED
  BY <1>2, <1>3 DEF NodesStep

\* A node that changes neither its epochs nor its slots.
LEMMA QuietNode ==
    ASSUME ClusterInv, NEW n \in Node, NEW q \in Table, Becomes(n, q),
           q.epoch = nd[n].epoch, q.savedEpoch = nd[n].savedEpoch, q.vote = nd[n].vote,
           q.savedVote = nd[n].savedVote, q.savedMaster = nd[n].savedMaster, q.cfg = nd[n].cfg, q.slots = nd[n].slots,
           q.authEpoch \in {nd[n].authEpoch, 0}, q.master[n] # n
    PROVE  NodesStep
<1>1. NodeOK(n, nd[n]) /\ nd[n] \in Table
  BY DEF ClusterInv, NodeOK, Draft
<1>2. nd[n].vote \in Nat
  BY <1>1 DEF Table
<1>3. NodeOK(n, q) /\ SlotsGrow(n, nd[n], q)
  BY <1>1, SameTableOK
<1> QED
  BY <1>2, <1>3, OneNode

LEMMA OperationOK ==
    ASSUME ClusterInv, NEW kind \in OpKinds, Operation(kind)
    PROVE  ops' \in 0..MaxOps
<1>1. Cost[kind] \in Nat /\ MaxOps \in Nat /\ ops \in 0..MaxOps
  BY ClusterConstants DEF ClusterInv
<1> QED
  BY <1>1 DEF Operation

LEMMA ScheduleElectionOK ==
    ASSUME ClusterInv, NEW n \in Node, ScheduleElection(n)
    PROVE  SafeStep
<1> DEFINE q == [nd[n] EXCEPT !.authCount = 0, !.auth = "scheduled"]
<1>1. nd[n] \in Table /\ nd[n].master[n] # n
  BY DEF ClusterInv, NodeOK, Draft
<1>2. /\ q \in Table /\ q.epoch = nd[n].epoch /\ q.savedEpoch = nd[n].savedEpoch
      /\ q.vote = nd[n].vote /\ q.savedVote = nd[n].savedVote /\ q.savedMaster = nd[n].savedMaster /\ q.cfg = nd[n].cfg
      /\ q.slots = nd[n].slots /\ q.authEpoch = nd[n].authEpoch /\ q.master = nd[n].master
  BY <1>1 DEF Table
<1>3. Becomes(n, q)
  BY DEF ScheduleElection
<1> HIDE DEF q
<1>4. NodesStep
  BY <1>1, <1>2, <1>3, QuietNode
<1>5. ops' \in 0..MaxOps
  BY OperationOK DEF ScheduleElection, OpKinds
<1> QED
  BY <1>4, <1>5 DEF SafeStep, BallotStep, ScheduleElection, ClusterInv

LEMMA RequestFailoverAuthOK ==
    ASSUME ClusterInv, NEW n \in Node, RequestFailoverAuth(n)
    PROVE  SafeStep
<1> DEFINE e == nd[n].epoch + 1
           z == [nd[n] EXCEPT !.epoch = e, !.authEpoch = e, !.auth = "sent"]
           q == SaveConfig(z)
<1>1. NodeOK(n, nd[n]) /\ nd[n] \in Table
  BY DEF ClusterInv, NodeOK, Draft
<1>2. /\ nd[n].epoch \in Nat /\ nd[n].cfg \in [Node -> Nat] /\ nd[n].savedEpoch \in Nat
      /\ nd[n].vote \in Nat
  BY <1>1 DEF Table
<1>3. Becomes(n, q) /\ nd[n].epoch < MaxEpoch /\ ops' = ops /\ ballots' = ballots
  BY DEF RequestFailoverAuth
<1>4. ~IsMaster(nd[n], n)
  BY DEF RequestFailoverAuth, CanFailover
<1>5. \A p \in net' : p \in net \/ \E m \in {x \in Node : IsMaster(nd[x], x)} :
                         p = Packet(q, n, "auth_request", m, [force |-> q.mf # "none"])
  BY DEF RequestFailoverAuth, Send
<1>6. e \in Nat /\ e > nd[n].epoch /\ e <= MaxEpoch
  BY <1>2, <1>3, ClusterConstants
<1> HIDE DEF e
<1>7. /\ z \in Table /\ z.epoch = e /\ z.cfg = nd[n].cfg /\ z.slots = nd[n].slots
      /\ z.vote = nd[n].vote /\ z.savedEpoch = nd[n].savedEpoch
      /\ z.savedVote = nd[n].savedVote /\ z.savedMaster = nd[n].savedMaster /\ z.authEpoch = e /\ z.master = nd[n].master
  BY <1>1, <1>6 DEF Table
<1> HIDE DEF z
<1>8. Draft(n, z)
  BY <1>1, <1>2, <1>6, <1>7 DEF NodeOK, Draft
<1>9. /\ Draft(n, q) /\ (\A m \in Node : q.cfg[m] <= q.savedEpoch) /\ q.epoch = e
      /\ q.cfg = nd[n].cfg /\ q.slots = nd[n].slots /\ q.vote = nd[n].vote
  BY <1>7, <1>8, SaveConfigOK
<1> HIDE DEF q
<1>10. NodeOK(n, q) /\ SlotsGrow(n, nd[n], q)
  <2>1. CfgGrows(nd[n], q) /\ q \in Table
    BY <1>2, <1>9 DEF CfgGrows, Draft
  <2> QED
    BY <1>1, <1>6, <1>9, <2>1, KeptSlotsGrow DEF NodeOK
<1>11. NodesStep
  BY <1>2, <1>3, <1>9, <1>10, OneNode
<1>12. \A p \in net' : p \in net \/ PacketOK(p)
  BY <1>4, <1>5, <1>10, PacketSent
<1> QED
  BY <1>3, <1>11, <1>12 DEF SafeStep, BallotStep, ClusterInv

LEMMA WinElectionOK ==
    ASSUME ClusterInv, NEW n \in Node, WinElection(n)
    PROVE  SafeStep
<1> DEFINE r == nd[n]
           e == Max({r.cfg[n], r.authEpoch})
           c == [r.cfg EXCEPT ![n] = e]
           z == [r EXCEPT !.cfg = c]
           q == FailoverReplaceYourMaster(z, n)
<1>1. NodeOK(n, r) /\ r \in Table
  BY DEF ClusterInv, NodeOK, Draft
<1>2. /\ r.epoch \in Nat /\ r.cfg \in [Node -> Nat] /\ r.authEpoch \in Nat /\ r.vote \in Nat
  BY <1>1 DEF Table
<1>3. e \in Nat /\ e \in {r.cfg[n], r.authEpoch} /\ e >= r.cfg[n]
  BY <1>2, MaxOfTwo
<1>4. [nd[n] EXCEPT !.cfg[n] = Max({@, nd[n].authEpoch})] = z
  BY <1>1 DEF Table
<1>5. Becomes(n, q) /\ net' = net /\ ops' = ops /\ ballots' = ballots
  BY <1>4 DEF WinElection
<1> HIDE DEF e
<1>6. /\ c \in [Node -> Nat] /\ CfgGrows(r, z)
      /\ \A x \in Node : c[x] <= r.epoch
  <2>1. c \in [Node -> Nat] /\ \A x \in Node : c[x] = IF x = n THEN e ELSE r.cfg[x]
    BY <1>2, <1>3
  <2>2. z.cfg = c
    BY <1>1 DEF Table
  <2> HIDE DEF c, z
  <2> QED
    BY <1>1, <1>2, <1>3, <2>1, <2>2 DEF CfgGrows, NodeOK, Draft
<1> HIDE DEF c
<1>7. /\ z \in Table /\ z.epoch = r.epoch /\ z.cfg = c /\ z.slots = r.slots /\ z.vote = r.vote
      /\ z.savedEpoch = r.savedEpoch /\ z.savedVote = r.savedVote /\ z.savedMaster = r.savedMaster /\ z.authEpoch = r.authEpoch
      /\ z.master = r.master
  BY <1>1, <1>6 DEF Table
<1> HIDE DEF z
<1>8. Draft(n, z)
  BY <1>1, <1>6, <1>7 DEF NodeOK, Draft
<1>9. /\ Draft(n, q) /\ (\A m \in Node : q.cfg[m] <= q.savedEpoch)
      /\ q.epoch = z.epoch /\ q.cfg = z.cfg /\ q.vote = z.vote
      /\ \A j \in Slot : q.slots[j] \in {z.slots[j], n}
  BY <1>8, ReplaceOK
<1> HIDE DEF q
<1>10. NodeOK(n, q) /\ q \in Table /\ CfgGrows(r, q)
  BY <1>1, <1>6, <1>7, <1>9 DEF NodeOK, Draft, CfgGrows
<1>11. SlotsGrow(n, r, q)
  BY <1>1, <1>7, <1>9, <1>10, KeptSlotsGrow
<1>12. NodesStep
  BY <1>2, <1>5, <1>7, <1>9, <1>10, <1>11, OneNode
<1> QED
  BY <1>5, <1>12 DEF SafeStep, BallotStep, ClusterInv

LEMMA ManualFailoverCanStartOK ==
    ASSUME ClusterInv, NEW n \in Node, ManualFailoverCanStart(n)
    PROVE  SafeStep
<1> DEFINE q == [nd[n] EXCEPT !.mf = "can"]
<1>1. nd[n] \in Table /\ nd[n].master[n] # n
  BY DEF ClusterInv, NodeOK, Draft
<1>2. /\ q \in Table /\ q.epoch = nd[n].epoch /\ q.savedEpoch = nd[n].savedEpoch
      /\ q.vote = nd[n].vote /\ q.savedVote = nd[n].savedVote /\ q.savedMaster = nd[n].savedMaster /\ q.cfg = nd[n].cfg
      /\ q.slots = nd[n].slots /\ q.authEpoch = nd[n].authEpoch /\ q.master = nd[n].master
  BY <1>1 DEF Table
<1>3. Becomes(n, q)
  BY DEF ManualFailoverCanStart
<1> HIDE DEF q
<1>4. NodesStep
  BY <1>1, <1>2, <1>3, QuietNode
<1> QED
  BY <1>4 DEF SafeStep, BallotStep, ManualFailoverCanStart, ClusterInv

LEMMA ManualFailoverTimeoutOK ==
    ASSUME ClusterInv, NEW n \in Node, ManualFailoverTimeout(n)
    PROVE  SafeStep
<1> DEFINE q == ResetManualFailover(nd[n])
<1>1. nd[n] \in Table /\ nd[n].master[n] # n
  BY DEF ClusterInv, NodeOK, Draft
<1>2. /\ q \in Table /\ q.epoch = nd[n].epoch /\ q.savedEpoch = nd[n].savedEpoch
      /\ q.vote = nd[n].vote /\ q.savedVote = nd[n].savedVote /\ q.savedMaster = nd[n].savedMaster /\ q.cfg = nd[n].cfg
      /\ q.slots = nd[n].slots /\ q.authEpoch = nd[n].authEpoch /\ q.master = nd[n].master
  BY <1>1 DEF Table, ResetManualFailover
<1>3. Becomes(n, q)
  BY DEF ManualFailoverTimeout
<1> HIDE DEF q
<1>4. NodesStep
  BY <1>1, <1>2, <1>3, QuietNode
<1> QED
  BY <1>4 DEF SafeStep, BallotStep, ManualFailoverTimeout, ClusterInv

\* The file holds the vote and every epoch, so that a restart loses only a
\* currentEpoch that nothing rests on.
LEMMA RestartOK ==
    ASSUME ClusterInv, NEW n \in Node, Restart(n)
    PROVE  SafeStep
<1> DEFINE r == nd[n]
           S == {r.cfg[m] : m \in Node} \cup {r.savedEpoch}
           q == [r EXCEPT !.epoch = Max(S), !.vote = r.savedVote, !.master = r.savedMaster,
                          !.auth = "none", !.authCount = 0, !.authEpoch = 0,
                          !.mf = "none", !.mfSlave = None]
<1>1. NodeOK(n, r) /\ r \in Table
  BY DEF ClusterInv, NodeOK, Draft
<1>2. /\ r.epoch \in Nat /\ r.cfg \in [Node -> Nat] /\ r.savedEpoch \in Nat /\ r.vote \in Nat
  BY <1>1 DEF Table
<1>3. Max(S) = r.savedEpoch
  <2>1. S \in SUBSET Nat /\ r.savedEpoch \in S
    BY <1>2
  <2>2. \A y \in S : y <= r.savedEpoch
    BY <1>1, <1>2 DEF NodeOK
  <2> HIDE DEF S
  <2> QED
    BY <2>1, <2>2, MaxIs
<1>4. /\ Becomes(n, q) /\ ballots' = ballots /\ Operation("restart")
      /\ net' \subseteq net
  BY DEF Restart
<1>5. q = [r EXCEPT !.epoch = r.savedEpoch, !.vote = r.savedVote, !.master = r.savedMaster,
                    !.auth = "none", !.authCount = 0, !.authEpoch = 0,
                    !.mf = "none", !.mfSlave = None]
  BY <1>3
<1> HIDE DEF q
<1>6. /\ q \in Table /\ q.epoch = r.savedEpoch /\ q.cfg = r.cfg /\ q.slots = r.slots
      /\ q.vote = r.savedVote /\ q.savedEpoch = r.savedEpoch /\ q.savedVote = r.savedVote /\ q.savedMaster = r.savedMaster
      /\ q.authEpoch = 0 /\ q.master = r.savedMaster
  BY <1>1, <1>2, <1>5 DEF Table
<1>7. NodeOK(n, q) /\ CfgGrows(r, q) /\ q.vote = r.vote
  BY <1>1, <1>2, <1>6, ClusterConstants DEF NodeOK, Draft, CfgGrows
<1>8. SlotsGrow(n, r, q)
  BY <1>1, <1>6, <1>7, KeptSlotsGrow
<1>9. NodesStep
  BY <1>2, <1>4, <1>7, <1>8, OneNode
<1>10. ops' \in 0..MaxOps
  BY <1>4, OperationOK DEF OpKinds
<1> QED
  BY <1>4, <1>9, <1>10 DEF SafeStep, BallotStep

LEMMA FailoverCommandOK ==
    ASSUME ClusterInv, NEW n \in Node, FailoverCommand(n)
    PROVE  SafeStep
<1> DEFINE q == [ResetManualFailover(nd[n]) EXCEPT !.mf = "asked"]
           to == nd[n].master[n]
<1>1. NodeOK(n, nd[n]) /\ nd[n] \in Table /\ to # n /\ DOMAIN nd = Node
  BY DEF ClusterInv, NodeOK, Draft
<1>2. /\ q \in Table /\ q.epoch = nd[n].epoch /\ q.savedEpoch = nd[n].savedEpoch
      /\ q.vote = nd[n].vote /\ q.savedVote = nd[n].savedVote /\ q.savedMaster = nd[n].savedMaster /\ q.cfg = nd[n].cfg
      /\ q.slots = nd[n].slots /\ q.authEpoch = nd[n].authEpoch /\ q.master = nd[n].master
  BY <1>1 DEF Table, ResetManualFailover
<1>3. /\ Becomes(n, q) /\ ballots' = ballots /\ Operation("failover")
      /\ net' = net \cup {Packet(nd'[n], n, "mfstart", to, None)}
  BY DEF FailoverCommand, Send
<1>4. to \in Node \ {n}
  BY <1>1 DEF FailoverCommand, IsMaster, Table
<1> HIDE DEF q, to
<1>5. NodesStep
  BY <1>1, <1>2, <1>3, QuietNode DEF to
<1>6. nd'[n] = q /\ NodeOK(n, q)
  BY <1>1, <1>2, <1>3, SameTableOK DEF Becomes, to
<1>7. PacketOK(Packet(q, n, "mfstart", to, None))
  BY <1>4, <1>6, PacketSent
<1>8. ops' \in 0..MaxOps
  BY <1>3, OperationOK DEF OpKinds
<1> QED
  BY <1>3, <1>5, <1>6, <1>7, <1>8 DEF SafeStep, BallotStep

LEMMA FailoverForceOK ==
    ASSUME ClusterInv, NEW n \in Node, FailoverForce(n)
    PROVE  SafeStep
<1> DEFINE q == [ResetManualFailover(nd[n]) EXCEPT !.mf = "can"]
<1>1. nd[n] \in Table /\ nd[n].master[n] # n
  BY DEF ClusterInv, NodeOK, Draft
<1>2. /\ q \in Table /\ q.epoch = nd[n].epoch /\ q.savedEpoch = nd[n].savedEpoch
      /\ q.vote = nd[n].vote /\ q.savedVote = nd[n].savedVote /\ q.savedMaster = nd[n].savedMaster /\ q.cfg = nd[n].cfg
      /\ q.slots = nd[n].slots /\ q.authEpoch = nd[n].authEpoch /\ q.master = nd[n].master
  BY <1>1 DEF Table, ResetManualFailover
<1>3. Becomes(n, q) /\ net' = net /\ ballots' = ballots /\ Operation("force")
  BY DEF FailoverForce
<1> HIDE DEF q
<1>4. NodesStep
  BY <1>1, <1>2, <1>3, QuietNode
<1>5. ops' \in 0..MaxOps
  BY <1>3, OperationOK DEF OpKinds
<1> QED
  BY <1>3, <1>4, <1>5 DEF SafeStep, BallotStep

\* The epoch made without consensus is the greatest the node knows.
LEMMA BumpOK ==
    ASSUME NEW n \in Node, NEW r, Draft(n, r)
    PROVE  LET q == BumpConfigEpochWithoutConsensus(r, n)
           IN  Draft(n, q) /\ SameSlots(n, r, q) /\ q.epoch <= r.epoch + 1
<1> DEFINE q == BumpConfigEpochWithoutConsensus(r, n)
           e == r.epoch + 1
           c == [r.cfg EXCEPT ![n] = e]
           z == [r EXCEPT !.epoch = e, !.cfg = c]
<1>1. r \in Table
  BY DEF Draft
<1>2. /\ r.epoch \in Nat /\ r.cfg \in [Node -> Nat] /\ r.savedEpoch \in Nat /\ r.authEpoch \in Nat
  BY <1>1 DEF Table
<1>3. q = r \/ q = z
  BY <1>1 DEF BumpConfigEpochWithoutConsensus, Table
<1>4. c \in [Node -> Nat] /\ \A x \in Node : r.cfg[x] <= c[x] /\ c[x] <= e
  BY <1>2 DEF Draft
<1> HIDE DEF c
<1>5. e \in Nat /\ e > r.epoch
  BY <1>2
<1> HIDE DEF e
<1>6. /\ z \in Table /\ z.epoch = e /\ z.cfg = c /\ z.slots = r.slots /\ z.vote = r.vote
      /\ z.savedEpoch = r.savedEpoch /\ z.savedVote = r.savedVote /\ z.savedMaster = r.savedMaster /\ z.authEpoch = r.authEpoch
      /\ z.master = r.master
  BY <1>1, <1>4, <1>5 DEF Table
<1> HIDE DEF z, q
<1>7. Draft(n, z) /\ SameSlots(n, r, z) /\ z.epoch <= e
  BY <1>2, <1>4, <1>5, <1>6 DEF Draft, SameSlots, CfgGrows
<1>8. SameSlots(n, r, r) /\ r.epoch <= e
  BY <1>2, <1>5 DEF SameSlots, CfgGrows
<1> QED
  BY <1>3, <1>7, <1>8 DEF q, e

LEMMA FailoverTakeoverOK ==
    ASSUME ClusterInv, NEW n \in Node, FailoverTakeover(n)
    PROVE  SafeStep
<1> DEFINE r == nd[n]
           z == BumpConfigEpochWithoutConsensus(r, n)
           q == FailoverReplaceYourMaster(z, n)
<1>1. NodeOK(n, r) /\ Draft(n, r) /\ r \in Table
  BY DEF ClusterInv, NodeOK, Draft
<1>2. r.epoch \in Nat /\ r.vote \in Nat
  BY <1>1 DEF Table
<1>3. /\ Becomes(n, q) /\ net' = net /\ ballots' = ballots /\ Operation("takeover")
      /\ r.epoch < MaxEpoch
  BY DEF FailoverTakeover
<1>4. Draft(n, z) /\ SameSlots(n, r, z) /\ z.epoch <= r.epoch + 1
  BY <1>1, BumpOK
<1> HIDE DEF z
<1>5. /\ Draft(n, q) /\ (\A m \in Node : q.cfg[m] <= q.savedEpoch)
      /\ q.epoch = z.epoch /\ q.cfg = z.cfg /\ q.vote = z.vote
      /\ \A j \in Slot : q.slots[j] \in {z.slots[j], n}
  BY <1>4, ReplaceOK
<1> HIDE DEF q
<1>6. NodeOK(n, q) /\ q \in Table /\ CfgGrows(r, q)
  <2>1. z.epoch <= MaxEpoch
    BY <1>2, <1>3, <1>4, ClusterConstants DEF Draft, Table
  <2> QED
    BY <1>4, <1>5, <2>1 DEF NodeOK, Draft, CfgGrows, SameSlots
<1>7. SlotsGrow(n, r, q) /\ q.vote = r.vote
  BY <1>1, <1>4, <1>5, <1>6, KeptSlotsGrow DEF SameSlots
<1>8. NodesStep
  BY <1>2, <1>3, <1>6, <1>7, OneNode
<1>9. ops' \in 0..MaxOps
  BY <1>3, OperationOK DEF OpKinds
<1> QED
  BY <1>3, <1>8, <1>9 DEF SafeStep, BallotStep

LEMMA SlaveMigrationOK ==
    ASSUME ClusterInv, NEW n \in Node, NEW m \in Node, SlaveMigration(n, m)
    PROVE  SafeStep
<1> DEFINE r == nd[n]
           a == [r.master EXCEPT ![n] = m]
           q == [r EXCEPT !.master = a, !.mf = "none", !.mfSlave = None]
<1>1. r \in Table
  BY DEF ClusterInv, NodeOK, Draft
<1>2. r.master \in [Node -> Node \cup {None}]
  BY <1>1 DEF Table
<1>3. /\ Becomes(n, SetMaster(r, n, m)) /\ net' = net /\ ballots' = ballots
      /\ Operation("migrate") /\ ~IsMaster(r, n) /\ IsMaster(r, m)
  BY DEF SlaveMigration
<1>4. SetMaster(r, n, m) = q
  BY <1>1 DEF SetMaster, ResetManualFailover, Table
<1>5. a \in [Node -> Node \cup {None}] /\ a[n] = m /\ m # n
  BY <1>2, <1>3
<1> HIDE DEF a
<1>6. /\ q \in Table /\ q.epoch = r.epoch /\ q.savedEpoch = r.savedEpoch
      /\ q.vote = r.vote /\ q.savedVote = r.savedVote /\ q.savedMaster = r.savedMaster /\ q.cfg = r.cfg
      /\ q.slots = r.slots /\ q.authEpoch = r.authEpoch /\ q.master = a
  BY <1>1, <1>5 DEF Table
<1>7. Becomes(n, q)
  BY <1>3, <1>4
<1> HIDE DEF q
<1>8. NodesStep
  BY <1>5, <1>6, <1>7, QuietNode
<1>9. ops' \in 0..MaxOps
  BY <1>3, OperationOK DEF OpKinds
<1> QED
  BY <1>3, <1>8, <1>9 DEF SafeStep, BallotStep

LEMMA DelayedPingOK ==
    ASSUME ClusterInv, NEW n \in Node, NEW m \in Node, DelayedPing(n, m)
    PROVE  SafeStep
<1>1. NodeOK(n, nd[n])
  BY DEF ClusterInv
<1>2. /\ nd' = nd /\ ballots' = ballots /\ Operation("delay") /\ m # n
      /\ net' = net \cup {Packet(nd[n], n, "ping", m, None)}
  BY DEF DelayedPing
<1>3. nd[n] \in Table /\ nd[n].master[n] # n /\ nd[n].vote \in Nat
  BY <1>1 DEF NodeOK, Draft, Table
<1>4. Becomes(n, nd[n])
  BY <1>2 DEF Becomes, ClusterInv
<1>5. NodesStep
  BY <1>3, <1>4, QuietNode
<1>6. PacketOK(Packet(nd[n], n, "ping", m, None))
  BY <1>1, <1>2, PacketSent
<1>7. ops' \in 0..MaxOps
  BY <1>2, OperationOK DEF OpKinds
<1> QED
  BY <1>2, <1>5, <1>6, <1>7 DEF SafeStep, BallotStep

LEMMA ReceiveOK ==
    ASSUME ClusterInv, NEW n \in Node, NEW h, HeaderOK(h), h.from # n,
           NEW rest \in SUBSET net, Receive(n, h, rest), UNCHANGED ops
    PROVE  SafeStep
<1> DEFINE r == nd[n]
           o == ProcessPing(r, n, h)
<1>1. NodeOK(n, r) /\ r \in Table /\ h.from \in Node
  BY DEF ClusterInv, NodeOK, Draft, HeaderOK, Header
<1>2. r.vote \in Nat
  BY <1>1 DEF Table
<1>3. /\ Becomes(n, o.rec) /\ o.rec.epoch <= MaxEpoch /\ ballots' = ballots
      /\ \/ net' = rest
         \/ \E x \in o.newer : net' = rest \cup {UpdatePacket(o.rec, n, x, h.from)}
  BY DEF Receive, Send
<1>4. /\ Draft(n, o.rec) /\ (\A m \in Node : o.rec.cfg[m] <= o.rec.savedEpoch)
      /\ o.rec.vote = r.vote /\ SlotsGrow(n, r, o.rec)
      /\ o.newer \subseteq Node
  BY <1>1, ProcessPingOK
<1> HIDE DEF o
<1>5. NodeOK(n, o.rec)
  BY <1>3, <1>4 DEF NodeOK
<1>6. NodesStep
  BY <1>2, <1>3, <1>4, <1>5, OneNode
<1>7. \A x \in o.newer : PacketOK(UpdatePacket(o.rec, n, x, h.from))
  BY <1>1, <1>4, <1>5, UpdateSent
<1>8. \A p \in net' : p \in net \/ PacketOK(p)
  BY <1>3, <1>7
<1> QED
  BY <1>3, <1>6, <1>8 DEF SafeStep, BallotStep, ClusterInv

LEMMA PingOK ==
    ASSUME ClusterInv, NEW n \in Node, NEW m \in Node, Ping(n, m)
    PROVE  SafeStep
<1> DEFINE h == BuildMessageHdr(nd[n], n, "ping")
<1>1. HeaderOK(h) /\ h.from = n
  BY HeaderSent DEF ClusterInv
<1>2. m # n /\ Receive(m, h, net) /\ UNCHANGED ops
  BY DEF Ping
<1> HIDE DEF h
<1> QED
  BY <1>1, <1>2, ReceiveOK

LEMMA ReceivePingOK ==
    ASSUME ClusterInv, NEW p \in net, ReceivePing(p)
    PROVE  SafeStep
<1>1. HeaderOK(p.hdr) /\ p.to \in Node /\ p.hdr.from # p.to
  BY DEF ClusterInv, PacketOK
<1>2. Receive(p.to, p.hdr, net \ {p}) /\ UNCHANGED ops
  BY DEF ReceivePing
<1> QED
  BY <1>1, <1>2, ReceiveOK

LEMMA ReceiveUpdateOK ==
    ASSUME ClusterInv, NEW p \in net, ReceiveUpdate(p)
    PROVE  SafeStep
<1> DEFINE n == p.to
           q == ProcessUpdate(nd[n], n, p.hdr, p.data)
<1>1. /\ Becomes(n, q) /\ net' \subseteq net /\ ops' = ops /\ ballots' = ballots
      /\ p.hdr.type = "update"
  BY DEF ReceiveUpdate
<1>2. /\ HeaderOK(p.hdr) /\ n \in Node /\ p.data \in Claim /\ p.data.cfg <= p.hdr.epoch
  BY <1>1 DEF ClusterInv, PacketOK
<1>3. NodeOK(n, nd[n])
  BY <1>2 DEF ClusterInv
<1>4. nd[n].vote \in Nat
  BY <1>3 DEF NodeOK, Draft, Table
<1>5. NodeOK(n, q) /\ q.vote = nd[n].vote /\ SlotsGrow(n, nd[n], q)
  BY <1>2, <1>3, ProcessUpdateOK
<1> HIDE DEF q, n
<1>6. NodesStep
  BY <1>1, <1>2, <1>4, <1>5, OneNode
<1> QED
  BY <1>1, <1>6 DEF SafeStep, BallotStep, ClusterInv

LEMMA ReceiveMFStartOK ==
    ASSUME ClusterInv, NEW p \in net, ReceiveMFStart(p)
    PROVE  SafeStep
<1> DEFINE n == p.to
           f == p.hdr.from
           q == ProcessHeader(nd[n], n, p.hdr)
           z == [q EXCEPT !.mf = "asked", !.mfSlave = f]
           w == IF q.master[f] = n THEN z ELSE q
<1>1. Becomes(n, w) /\ net' \subseteq net /\ ops' = ops /\ ballots' = ballots
  BY DEF ReceiveMFStart
<1>2. HeaderOK(p.hdr) /\ n \in Node /\ f \in Node
  BY DEF ClusterInv, PacketOK, HeaderOK, Header
<1>3. NodeOK(n, nd[n]) /\ nd[n] \in Table
  BY <1>2 DEF ClusterInv, NodeOK, Draft
<1>4. NodeOK(n, q) /\ SameSlots(n, nd[n], q)
  BY <1>2, <1>3, ProcessHeaderOK
<1> HIDE DEF q
<1>5. q \in Table /\ q.master[n] # n /\ nd[n].vote \in Nat
  BY <1>3, <1>4 DEF NodeOK, Draft, Table
<1>6. /\ z \in Table /\ z.epoch = q.epoch /\ z.savedEpoch = q.savedEpoch
      /\ z.vote = q.vote /\ z.savedVote = q.savedVote /\ z.savedMaster = q.savedMaster /\ z.cfg = q.cfg
      /\ z.slots = q.slots /\ z.authEpoch = q.authEpoch /\ z.master = q.master
  BY <1>2, <1>5 DEF Table
<1> HIDE DEF z
<1>7. NodeOK(n, z)
  BY <1>4, <1>5, <1>6, SameTableOK
<1>8. NodeOK(n, w) /\ w \in Table /\ w.vote = nd[n].vote /\ SameSlots(n, nd[n], w)
  BY <1>4, <1>5, <1>6, <1>7 DEF SameSlots, CfgGrows
<1> HIDE DEF w, n
<1>9. SlotsGrow(n, nd[n], w)
  BY <1>3, <1>8, SameSlotsGrow
<1>10. NodesStep
  BY <1>1, <1>2, <1>5, <1>8, <1>9, OneNode
<1> QED
  BY <1>1, <1>10 DEF SafeStep, BallotStep, ClusterInv

\* The voter has saved its vote before its answer leaves.
LEMMA ReceiveAuthRequestOK ==
    ASSUME ClusterInv, NEW p \in net, ReceiveAuthRequest(p)
    PROVE  SafeStep
<1> DEFINE n == p.to
           f == p.hdr.from
           q == ProcessHeader(nd[n], n, p.hdr)
           v == Vote(q)
<1>1. HeaderOK(p.hdr) /\ n \in Node /\ f \in Node /\ f # n
  BY DEF ClusterInv, PacketOK, HeaderOK, Header
<1>2. NodeOK(n, nd[n]) /\ nd[n] \in Table
  BY <1>1 DEF ClusterInv, NodeOK, Draft
<1>3. NodeOK(n, q) /\ SameSlots(n, nd[n], q)
  BY <1>1, <1>2, ProcessHeaderOK
<1>4. q \in Table /\ nd[n].vote \in Nat /\ q.epoch \in Epoch
  <2>1. q \in Table /\ q.epoch <= MaxEpoch
    BY <1>3 DEF NodeOK, Draft
  <2> HIDE DEF q
  <2> QED
    BY <1>2, <2>1, ClusterConstants DEF Table, Epoch
<1>5. ops' = ops
  BY DEF ReceiveAuthRequest
<1>6. CASE ~MayVote(q, n, p.hdr, p.data.force)
  <2>1. Becomes(n, q) /\ ballots' = ballots /\ net' \subseteq net
    BY <1>6 DEF ReceiveAuthRequest
  <2> HIDE DEF q, n
  <2>2. SlotsGrow(n, nd[n], q) /\ q.vote = nd[n].vote
    BY <1>2, <1>3, <1>4, SameSlotsGrow DEF SameSlots
  <2>3. NodesStep
    BY <1>1, <1>3, <1>4, <2>1, <2>2, OneNode
  <2> QED
    BY <1>5, <2>1, <2>3 DEF SafeStep, BallotStep, ClusterInv
<1>7. CASE MayVote(q, n, p.hdr, p.data.force)
  <2> DEFINE b == [voter |-> n, epoch |-> q.epoch, for |-> f]
             a == Packet(v, n, "auth_ack", f, None)
  <2>1. Becomes(n, v) /\ ballots' = ballots \cup {b} /\ net' = (net \ {p}) \cup {a}
    BY <1>7 DEF ReceiveAuthRequest, Send
  <2>2. q.vote # q.epoch
    BY <1>7 DEF MayVote
  <2> HIDE DEF q, n, f
  <2>3. /\ NodeOK(n, v) /\ v.vote = q.epoch /\ q.vote < v.vote
        /\ v.cfg = q.cfg /\ v.slots = q.slots
    BY <1>1, <1>3, <2>2, VoteOK
  <2> HIDE DEF v
  <2>4. PacketOK(a)
    BY <1>1, <2>3, PacketSent
  <2> HIDE DEF a
  <2>5. v \in Table
    BY <2>3 DEF NodeOK, Draft
  <2>6. SlotsGrow(n, nd[n], v) /\ nd[n].vote < v.vote
    BY <1>2, <1>3, <2>3, <2>5, KeptSlotsGrow DEF SameSlots, CfgGrows
  <2>7. v.vote \in Nat
    BY <2>5 DEF Table
  <2>8. NodesStep
    BY <1>1, <1>4, <2>1, <2>3, <2>6, <2>7, OneNode
  <2>9. BallotStep
    <3>1. b \in [voter : Node, epoch : Epoch, for : Node] /\ b.voter = n /\ b.epoch = q.epoch
      BY <1>1, <1>4
    <3>2. nd'[n] = v
      BY <1>1, <2>1 DEF Becomes, ClusterInv
    <3>3. nd[b.voter].vote < b.epoch /\ b.epoch <= nd'[b.voter].vote
      BY <1>4, <2>3, <2>6, <3>1, <3>2 DEF Epoch
    <3> HIDE DEF b
    <3> QED
      BY <2>1, <3>1, <3>3 DEF BallotStep
  <2>10. \A y \in net' : y \in net \/ PacketOK(y)
    BY <2>1, <2>4
  <2> QED
    BY <1>5, <2>8, <2>9, <2>10 DEF SafeStep, ClusterInv
<1> QED
  BY <1>6, <1>7

LEMMA ReceiveAuthAckOK ==
    ASSUME ClusterInv, NEW p \in net, ReceiveAuthAck(p)
    PROVE  SafeStep
<1> DEFINE n == p.to
           q == ProcessHeader(nd[n], n, p.hdr)
           w == CountVote(q, p.hdr)
<1>1. HeaderOK(p.hdr) /\ n \in Node
  BY DEF ClusterInv, PacketOK
<1>2. NodeOK(n, nd[n]) /\ nd[n] \in Table
  BY <1>1 DEF ClusterInv, NodeOK, Draft
<1>3. NodeOK(n, q) /\ SameSlots(n, nd[n], q)
  BY <1>1, <1>2, ProcessHeaderOK
<1>4. Becomes(n, w) /\ net' \subseteq net /\ ballots' = ballots /\ ops' = ops
  BY DEF ReceiveAuthAck
<1> HIDE DEF n, q
<1>5. NodeOK(n, w) /\ w.vote = q.vote /\ w.cfg = q.cfg /\ w.slots = q.slots
  BY <1>1, <1>3, CountVoteOK
<1> HIDE DEF w
<1>6. w \in Table /\ nd[n].vote \in Nat
  BY <1>2, <1>5 DEF NodeOK, Draft, Table
<1>7. SlotsGrow(n, nd[n], w) /\ w.vote = nd[n].vote
  BY <1>2, <1>3, <1>5, <1>6, KeptSlotsGrow DEF SameSlots, CfgGrows
<1>8. NodesStep
  BY <1>1, <1>4, <1>5, <1>6, <1>7, OneNode
<1> QED
  BY <1>4, <1>8 DEF SafeStep, BallotStep, ClusterInv
-----------------------------------------------------------------------------
(* The theorems                                                            *)

LEMMA ClusterInit ==
    ASSUME Init
    PROVE  ClusterInv
<1> DEFINE e == Max(Range(ConfigEpoch))
<1>1. ASSUME NEW n \in Node
      PROVE  NodeOK(n, Fresh)
  <2>1. /\ MaxEpoch \in Nat /\ ConfigEpoch \in [Node -> 0..MaxEpoch]
        /\ Range(ConfigEpoch) \in SUBSET (0..MaxEpoch) /\ Range(ConfigEpoch) # {}
    BY ClusterConstants DEF Range
  <2>2. e \in Range(ConfigEpoch) /\ \A y \in Range(ConfigEpoch) : y <= e
    BY <2>1, MaxExists
  <2>3. e \in Nat /\ e <= MaxEpoch /\ \A m \in Node : ConfigEpoch[m] <= e
    BY <2>1, <2>2 DEF Range
  <2> HIDE DEF e
  <2>4. /\ Owner \in [Slot -> Node \cup {None}] /\ MasterOf \in [Node -> Node \cup {None}]
        /\ MasterOf[n] # n /\ ConfigEpoch \in [Node -> Nat]
    BY <2>1, ClusterConstants
  <2>5. Fresh = [epoch |-> e, savedEpoch |-> e, vote |-> 0, savedVote |-> 0,
                 cfg |-> ConfigEpoch, slots |-> Owner, master |-> MasterOf,
                 savedMaster |-> MasterOf, auth |-> "none", authCount |-> 0, authEpoch |-> 0,
                 mf |-> "none", mfSlave |-> None]
    BY DEF Fresh, e
  <2>6. /\ Fresh \in Table /\ Fresh.epoch = e /\ Fresh.savedEpoch = e /\ Fresh.vote = 0
        /\ Fresh.savedVote = 0 /\ Fresh.cfg = ConfigEpoch /\ Fresh.master = MasterOf
        /\ Fresh.savedMaster = MasterOf
        /\ Fresh.authEpoch = 0
    BY <2>3, <2>4, <2>5 DEF Table
  <2> HIDE DEF Fresh
  <2> QED
    BY <2>3, <2>4, <2>6 DEF NodeOK, Draft
<1>2. nd = [n \in Node |-> Fresh] /\ net = {} /\ ops = 0 /\ ballots = {}
  BY DEF Init
<1> QED
  BY <1>1, <1>2, ClusterConstants DEF ClusterInv, OneVotePerEpoch

LEMMA ClusterNext ==
    ASSUME ClusterInv, [Next]_vars
    PROVE  /\ ClusterInv'
           /\ \A n \in Node : SlotsGrow(n, nd[n], nd'[n])
<1>1. CASE Next
  <2>1. ASSUME NEW n \in Node,
               \/ ScheduleElection(n) \/ RequestFailoverAuth(n) \/ WinElection(n)
               \/ ManualFailoverCanStart(n) \/ ManualFailoverTimeout(n)
        PROVE  SafeStep
    BY <2>1, ScheduleElectionOK, RequestFailoverAuthOK, WinElectionOK,
       ManualFailoverCanStartOK, ManualFailoverTimeoutOK
  <2>2. ASSUME NEW n \in Operated,
               \/ FailoverCommand(n) \/ FailoverForce(n) \/ FailoverTakeover(n)
               \/ Restart(n) \/ \E m \in Node : DelayedPing(n, m) \/ SlaveMigration(n, m)
        PROVE  SafeStep
    <3>1. n \in Node
      BY ClusterConstants
    <3> QED
      BY <2>2, <3>1, FailoverCommandOK, FailoverForceOK, FailoverTakeoverOK, RestartOK,
         DelayedPingOK, SlaveMigrationOK
  <2>3. ASSUME NEW n \in Node, NEW m \in Node, Ping(n, m)
        PROVE  SafeStep
    BY <2>3, PingOK
  <2>4. ASSUME NEW p \in net,
               \/ ReceivePing(p) \/ ReceiveUpdate(p)
               \/ ReceiveAuthRequest(p) \/ ReceiveAuthAck(p) \/ ReceiveMFStart(p)
        PROVE  SafeStep
    BY <2>4, ReceivePingOK, ReceiveUpdateOK, ReceiveAuthRequestOK,
       ReceiveAuthAckOK, ReceiveMFStartOK
  <2>5. SafeStep
    BY <1>1, <2>1, <2>2, <2>3, <2>4 DEF Next
  <2> QED
    BY <2>5, StepOK
<1>2. CASE UNCHANGED vars
  <2>1. ClusterInv'
    BY <1>2 DEF vars, ClusterInv, BallotOK, OneVotePerEpoch
  <2>2. ASSUME NEW n \in Node
        PROVE  SlotsGrow(n, nd[n], nd'[n])
    <3>1. nd[n] \in Table /\ nd'[n] = nd[n]
      BY <1>2 DEF vars, ClusterInv, NodeOK, Draft
    <3>2. nd[n].cfg \in [Node -> Nat]
      BY <3>1 DEF Table
    <3> QED
      BY <3>1, <3>2, KeptSlotsGrow DEF CfgGrows
  <2> QED
    BY <2>1, <2>2
<1> QED
  BY <1>1, <1>2

\* The inductive invariant holds: every epoch a node knows is covered by the
\* currentEpoch of its nodes.conf, lastVoteEpoch is the one of the file, packets
\* speak of epochs their senders had, and no vote is ahead of lastVoteEpoch.
THEOREM ClusterInvariant == Spec => []ClusterInv
<1>1. Init => ClusterInv
  BY ClusterInit
<1>2. ClusterInv /\ [Next]_vars => ClusterInv'
  BY ClusterNext
<1> QED
  BY <1>1, <1>2, PTL DEF Spec

\* clusterLoadConfig never finds a configuration epoch above the currentEpoch
\* of its file, whatever was saved when, and whenever the process died.
THEOREM FileCovers == Spec => []FileEpochCovers
<1>1. ClusterInv => FileEpochCovers
  BY DEF ClusterInv, NodeOK, FileEpochCovers
<1> QED
  BY <1>1, ClusterInvariant, PTL

\* clusterSendFailoverAuthIfNeeded grants one vote in an epoch, restarts between
\* two requests and delayed packets included.
THEOREM VotesOncePerEpoch == Spec => []OneVotePerEpoch
<1>1. ClusterInv => OneVotePerEpoch
  BY DEF ClusterInv
<1> QED
  BY <1>1, ClusterInvariant, PTL

\* clusterUpdateSlotsConfigWith never gives a slot back to an older epoch, in
\* whatever order PINGs and UPDATEs arrive and however late.
THEOREM SlotEpochsNeverFall == Spec => SlotEpochsGrow
<1> DEFINE A == \A n \in Node, j \in Slot :
                   nd[n].slots[j] # None /\ nd[n]'.slots[j] \notin {n, None}
                      => nd[n].cfg[nd[n].slots[j]] <= nd[n]'.cfg[nd[n]'.slots[j]]
<1>1. ClusterInv /\ [Next]_vars => [A]_vars
  <2> SUFFICES ASSUME ClusterInv, [Next]_vars PROVE A
    OBVIOUS
  <2>1. \A n \in Node : SlotsGrow(n, nd[n], nd'[n])
    BY ClusterNext
  <2> QED
    BY <2>1 DEF SlotsGrow
<1> HIDE DEF A
<1>2. Spec => [][A]_vars
  BY <1>1, ClusterInvariant, PTL DEF Spec
<1> QED
  BY <1>2 DEF SlotEpochsGrow, A
-----------------------------------------------------------------------------
(* Elections and the epochs of the owners                                  *)

\* No configuration epoch is greater at the start.
StartEpoch == Max(Range(ConfigEpoch))

\* The epochs n was elected in, and the masters a table counts.
Won(n) == {e \in Epoch : [node |-> n, epoch |-> e] \in elected}
Electors(r) == {n \in Node : IsMaster(r, n) /\ SlotsOf(r, n) # {}}

\* An election is of an epoch later than every epoch of the start.
CandidateOK(n) ==
    /\ StartEpoch <= nd[n].savedEpoch
    /\ nd[n].auth = "sent" => StartEpoch < nd[n].authEpoch

CandidateInv == \A n \in Node : CandidateOK(n)

IsAck(p) == p.hdr.type = "auth_ack"

\* What a node has counted was cast for it, each vote once; an answer under way
\* brings a vote that was cast and is not counted, and no two bring the same.
CountOK(n) ==
    /\ IsFiniteSet(counted[n]) /\ nd[n].authCount = Cardinality(counted[n])
    /\ \A b \in counted[n] : b.for = n

CountInv ==
    /\ counted \in [Node -> SUBSET ballots]
    /\ \A n \in Node : CountOK(n)
    /\ \A p \in net : IsAck(p) => BallotOf(p) \in ballots \ counted[p.to]
    /\ \A p, q \in net : IsAck(p) /\ IsAck(q) /\ BallotOf(p) = BallotOf(q) => p = q

\* Who voted for n in epoch e, by the ballots S.
Cast(S, n, e) == {v \in Node : [voter |-> v, epoch |-> e, for |-> n] \in S}

\* The votes n has counted are of the masters E of their epochs.
VotersIn(E) == \A n \in Node : \A b \in counted[n] : b.voter \in E[b.epoch]

\* A node serves slots of another only under an epoch it won or made.
OwnerOK(n) ==
    /\ nd[n].cfg[n] \in {ConfigEpoch[n]} \cup bumped \cup Won(n)
    /\ \A j \in Slot : nd[n].slots[j] = n /\ Owner[j] # n => nd[n].cfg[n] \in bumped \cup Won(n)

OwnersInv ==
    /\ \A n \in Node : OwnerOK(n)
    /\ \A p \in net : p.hdr.type = "update" => p.data.about # p.to
    /\ elected \subseteq [node : Node, epoch : Epoch]
    /\ \A x \in elected : StartEpoch < x.epoch

\* From r to q the election of n is the same one, the file loses no epoch and n
\* gains no slot.
Keeps(n, r, q) ==
    /\ q.auth = r.auth /\ q.authCount = r.authCount /\ q.authEpoch = r.authEpoch
    /\ r.savedEpoch <= q.savedEpoch
    /\ \A j \in Slot : q.slots[j] = n => r.slots[j] = n

LEMMA StartEpochIs ==
    ASSUME NEW n \in Node
    PROVE  StartEpoch \in Nat /\ StartEpoch <= MaxEpoch /\ ConfigEpoch[n] <= StartEpoch
<1>1. /\ MaxEpoch \in Nat /\ ConfigEpoch \in [Node -> 0..MaxEpoch]
      /\ Range(ConfigEpoch) \in SUBSET (0..MaxEpoch) /\ Range(ConfigEpoch) # {}
  BY ClusterConstants DEF Range
<1>2. StartEpoch \in Range(ConfigEpoch) /\ \A y \in Range(ConfigEpoch) : y <= StartEpoch
  BY <1>1, MaxExists DEF StartEpoch
<1> QED
  BY <1>1, <1>2 DEF Range

LEMMA KeepsTrans ==
    ASSUME NEW n, NEW r \in Table, NEW q \in Table, NEW z \in Table,
           Keeps(n, r, q), Keeps(n, q, z)
    PROVE  Keeps(n, r, z)
<1>1. r.savedEpoch \in Nat /\ q.savedEpoch \in Nat /\ z.savedEpoch \in Nat
  BY DEF Table
<1> QED
  BY <1>1 DEF Keeps

LEMMA SaveConfigKeeps ==
    ASSUME NEW n, NEW r, Draft(n, r)
    PROVE  Keeps(n, r, SaveConfig(r))
<1> DEFINE q == SaveConfig(r)
<1>1. r \in Table /\ r.savedEpoch <= r.epoch
  BY DEF Draft
<1>2. /\ q.auth = r.auth /\ q.authCount = r.authCount /\ q.authEpoch = r.authEpoch
      /\ q.savedEpoch = r.epoch /\ q.slots = r.slots
  BY <1>1 DEF SaveConfig, Table
<1> QED
  BY <1>1, <1>2 DEF Keeps

\* What a header says of another node does not touch n's own epoch.
LEMMA ProcessHeaderKeeps ==
    ASSUME NEW n \in Node, NEW r, NodeOK(n, r), NEW h, HeaderOK(h), h.from # n
    PROVE  LET q == ProcessHeader(r, n, h)
           IN  Keeps(n, r, q) /\ q.cfg[n] = r.cfg[n]
<1> DEFINE e == Max({r.epoch, h.epoch})
           c == Max({r.cfg[h.from], h.cfg})
           f == IF r.mf = "asked" /\ r.master[n] = h.from /\ h.paused THEN "offset" ELSE r.mf
           g == [r.cfg EXCEPT ![h.from] = c]
           q == [r EXCEPT !.epoch = e, !.cfg = g, !.mf = f]
<1>1. r \in Table /\ h.from \in Node /\ h.epoch \in Nat
  BY ClusterConstants DEF NodeOK, Draft, HeaderOK, Header, Epoch
<1>2. r.epoch \in Nat /\ r.cfg \in [Node -> Nat] /\ r.savedEpoch \in Nat /\ r.savedEpoch <= r.epoch
  BY <1>1 DEF Table, NodeOK, Draft
<1>3. e \in Nat /\ e >= r.epoch
  BY <1>1, <1>2, MaxOfTwo
<1>4. ProcessHeader(r, n, h) = IF q.cfg = r.cfg THEN q ELSE SaveConfig(q)
  BY <1>1 DEF ProcessHeader, Table
<1> HIDE DEF e, c, f
<1>5. g[n] = r.cfg[n]
  BY <1>1, <1>2
<1> HIDE DEF g
<1>6. /\ q.auth = r.auth /\ q.authCount = r.authCount /\ q.authEpoch = r.authEpoch
      /\ q.savedEpoch = r.savedEpoch /\ q.slots = r.slots /\ q.epoch = e /\ q.cfg = g
  BY <1>1 DEF Table
<1>7. LET z == SaveConfig(q)
      IN  /\ z.auth = r.auth /\ z.authCount = r.authCount /\ z.authEpoch = r.authEpoch
          /\ z.savedEpoch = e /\ z.slots = r.slots /\ z.cfg = g
  BY <1>1 DEF Table, SaveConfig
<1> HIDE DEF q
<1>8. r.savedEpoch <= r.savedEpoch /\ r.savedEpoch <= e
  BY <1>2, <1>3
<1>9. CASE q.cfg = r.cfg
  BY <1>4, <1>5, <1>6, <1>8, <1>9 DEF Keeps
<1>10. CASE q.cfg # r.cfg
  BY <1>4, <1>5, <1>7, <1>8, <1>10 DEF Keeps
<1> QED
  BY <1>9, <1>10

LEMMA SwitchRoleKeeps ==
    ASSUME NEW n \in Node, NEW r, NodeOK(n, r), NEW h, HeaderOK(h), h.from # n
    PROVE  Keeps(n, r, SwitchRole(r, h))
<1> DEFINE q == SwitchRole(r, h)
<1>1. r \in Table /\ r.savedEpoch \in Nat
  BY DEF NodeOK, Draft, Table
<1>2. /\ q.auth = r.auth /\ q.authCount = r.authCount /\ q.authEpoch = r.authEpoch
      /\ q.savedEpoch = r.savedEpoch
  BY <1>1 DEF SwitchRole, SetNodeAsMaster, DelNodeSlots, Table
<1>3. None # n /\ \A j \in Slot : q.slots[j] \in {r.slots[j], None}
  BY SwitchRoleOK, ClusterConstants
<1> HIDE DEF q
<1> QED
  BY <1>1, <1>2, <1>3 DEF Keeps, q

\* Slots are claimed for another node.
LEMMA UpdateSlotsKeeps ==
    ASSUME NEW n \in Node, NEW r, NEW m \in Node \ {n}, NEW cfg \in Nat, NEW slots,
           Draft(n, r)
    PROVE  Keeps(n, r, UpdateSlotsConfigWith(r, n, m, cfg, slots))
<1> DEFINE z == UpdateSlotsConfigWith(r, n, m, cfg, slots)
<1>1. r \in Table /\ r.savedEpoch \in Nat
  BY DEF Draft, Table
<1>2. /\ z.auth = r.auth /\ z.authCount = r.authCount /\ z.authEpoch = r.authEpoch
  BY <1>1 DEF UpdateSlotsConfigWith, SetMaster, ResetManualFailover, Table
<1>3. /\ z.savedEpoch = r.savedEpoch
      /\ \A j \in Slot : z.slots[j] = r.slots[j] \/ z.slots[j] = m
  BY UpdateSlotsOK
<1> HIDE DEF z
<1> QED
  BY <1>1, <1>2, <1>3 DEF Keeps, z

\* A collision gives n an epoch nobody voted on.
LEMMA CollisionKeeps ==
    ASSUME NEW n \in Node, NEW r, NEW m, Draft(n, r)
    PROVE  LET q == HandleConfigEpochCollision(r, n, m)
           IN  /\ Keeps(n, r, q)
               /\ q = r \/ (q.epoch = r.epoch + 1 /\ q.cfg[n] = q.epoch)
<1> DEFINE q == HandleConfigEpochCollision(r, n, m)
<1>1. r \in Table
  BY DEF Draft
<1>2. r.savedEpoch \in Nat /\ r.cfg \in [Node -> Nat]
  BY <1>1 DEF Table
<1>3. /\ q.auth = r.auth /\ q.authCount = r.authCount /\ q.authEpoch = r.authEpoch
      /\ q.savedEpoch = r.savedEpoch /\ q.slots = r.slots
  BY <1>1 DEF HandleConfigEpochCollision, Table
<1>4. q = r \/ (q.epoch = r.epoch + 1 /\ q.cfg[n] = q.epoch)
  BY <1>1, <1>2 DEF HandleConfigEpochCollision, Table
<1> HIDE DEF q
<1> QED
  BY <1>2, <1>3, <1>4 DEF Keeps, q

\* A PING: the epoch of n is its own until a collision makes another, and the
\* sender is not told about itself.
LEMMA ProcessPingKeeps ==
    ASSUME NEW n \in Node, NEW r, NodeOK(n, r), NEW h, HeaderOK(h), h.from # n
    PROVE  LET o == ProcessPing(r, n, h)
           IN  /\ Keeps(n, r, o.rec)
               /\ \/ o.rec.cfg[n] = r.cfg[n]
                  \/ o.rec.cfg[n] = o.rec.epoch /\ o.rec.epoch > Max({r.epoch, h.epoch})
               /\ h.from \notin o.newer
<1> DEFINE q0 == ProcessHeader(r, n, h)
           q1 == SwitchRole(q0, h)
           sm == IF h.slaveof = None THEN h.from ELSE h.slaveof
           dirty == SlotsOf(q1, sm) # h.slots
           q2 == IF h.slaveof = None /\ dirty
                 THEN UpdateSlotsConfigWith(q1, n, h.from, h.cfg, h.slots) ELSE q1
           q3 == IF h.cfg = q2.cfg[n] THEN HandleConfigEpochCollision(q2, n, h.from) ELSE q2
           rec == IF [q3 EXCEPT !.epoch = r.epoch, !.mf = r.mf] = r THEN q3 ELSE SaveConfig(q3)
           newer == IF ~dirty THEN {}
                    ELSE {q2.slots[j] : j \in {k \in h.slots :
                            /\ q2.slots[k] \notin {h.from, None}
                            /\ q2.cfg[q2.slots[k]] > h.cfg}}
<1>1. /\ h.from \in Node \ {n} /\ h.cfg \in Nat /\ h.epoch \in Nat
      /\ r \in Table /\ r.epoch \in Nat
  BY ClusterConstants DEF HeaderOK, Header, Epoch, NodeOK, Draft, Table
<1>2. ProcessPing(r, n, h).rec = rec /\ ProcessPing(r, n, h).newer = newer
  BY DEF ProcessPing
<1>3. /\ NodeOK(n, q0) /\ q0 \in Table /\ Keeps(n, r, q0) /\ q0.cfg[n] = r.cfg[n]
      /\ q0.epoch >= r.epoch /\ q0.epoch >= h.epoch /\ q0.epoch \in {r.epoch, h.epoch}
  BY ProcessHeaderOK, ProcessHeaderKeeps DEF NodeOK, Draft, SameSlots
<1>4. h.from \notin newer
  OBVIOUS
<1> HIDE DEF q0, newer
<1>5. /\ NodeOK(n, q1) /\ q1 \in Table /\ Keeps(n, q0, q1) /\ q1.cfg = q0.cfg
      /\ q1.epoch = q0.epoch
  BY <1>3, SwitchRoleOK, SwitchRoleKeeps DEF NodeOK, Draft
<1> HIDE DEF q1, dirty
<1>6. Keeps(n, q1, q1)
  BY <1>5 DEF Keeps, Table
<1>7. /\ Draft(n, q2) /\ q2 \in Table /\ Keeps(n, q1, q2) /\ q2.cfg = q1.cfg
      /\ q2.epoch = q1.epoch
  BY <1>1, <1>5, <1>6, UpdateSlotsOK, UpdateSlotsKeeps DEF NodeOK, Draft
<1> HIDE DEF q2
<1>8. Keeps(n, q2, q2)
  BY <1>7 DEF Keeps, Table
<1>9. /\ Draft(n, q3) /\ q3 \in Table /\ Keeps(n, q2, q3)
      /\ q3 = q2 \/ (q3.epoch = q2.epoch + 1 /\ q3.cfg[n] = q3.epoch)
  BY <1>7, <1>8, CollisionOK, CollisionKeeps DEF Draft
<1> HIDE DEF q3
<1>10. /\ Draft(n, rec) /\ rec \in Table /\ Keeps(n, q3, rec) /\ rec.cfg = q3.cfg
       /\ rec.epoch = q3.epoch
  <2>1. Keeps(n, q3, q3)
    BY <1>9 DEF Keeps, Table
  <2>2. Draft(n, rec) /\ Keeps(n, q3, rec) /\ rec.cfg = q3.cfg /\ rec.epoch = q3.epoch
    BY <1>9, <2>1, SaveConfigOK, SaveConfigKeeps
  <2> HIDE DEF rec
  <2> QED
    BY <2>2 DEF Draft
<1> HIDE DEF rec
<1>11. Keeps(n, r, rec)
  BY <1>1, <1>3, <1>5, <1>7, <1>9, <1>10, KeepsTrans
<1>12. \/ rec.cfg[n] = r.cfg[n]
       \/ rec.cfg[n] = rec.epoch /\ rec.epoch > Max({r.epoch, h.epoch})
  <2>1. CASE q3 = q2
    BY <1>3, <1>5, <1>7, <1>10, <2>1
  <2>2. CASE q3.epoch = q2.epoch + 1 /\ q3.cfg[n] = q3.epoch
    <3>1. rec.cfg[n] = rec.epoch /\ rec.epoch = q0.epoch + 1 /\ q0.epoch \in Nat
      BY <1>1, <1>3, <1>5, <1>7, <1>10, <2>2
    <3>2. Max({r.epoch, h.epoch}) \in {r.epoch, h.epoch}
      BY <1>1, MaxOfTwo
    <3> QED
      BY <1>1, <1>3, <3>1, <3>2
  <2> QED
    BY <1>9, <2>1, <2>2
<1> QED
  BY <1>2, <1>4, <1>11, <1>12

\* An UPDATE about another node.
LEMMA ProcessUpdateKeeps ==
    ASSUME NEW n \in Node, NEW r, NodeOK(n, r), NEW h, HeaderOK(h), h.from # n,
           NEW u \in Claim, u.cfg <= h.epoch, u.about # n
    PROVE  LET q == ProcessUpdate(r, n, h, u)
           IN  Keeps(n, r, q) /\ q.cfg[n] = r.cfg[n]
<1> DEFINE z == ProcessUpdate(r, n, h, u)
           q == ProcessHeader(r, n, h)
           a == [q.master EXCEPT ![u.about] = None]
           c == [q.cfg EXCEPT ![u.about] = u.cfg]
           m == [q EXCEPT !.master = a, !.cfg = c]
           w == UpdateSlotsConfigWith(m, n, u.about, u.cfg, u.slots)
<1>1. /\ h.epoch \in Nat /\ u.about \in Node /\ u.cfg \in Nat /\ None # n
  BY ClusterConstants DEF HeaderOK, Header, Claim, Epoch
<1>2. /\ NodeOK(n, q) /\ q.epoch >= h.epoch /\ Keeps(n, r, q) /\ q.cfg[n] = r.cfg[n]
  BY ProcessHeaderOK, ProcessHeaderKeeps
<1>3. r \in Table /\ q \in Table
  BY <1>2 DEF NodeOK, Draft
<1>4. CASE q.cfg[u.about] >= u.cfg
  BY <1>2, <1>4 DEF ProcessUpdate
<1>5. CASE ~(q.cfg[u.about] >= u.cfg)
  <2>1. z = SaveConfig(w)
    <3>1. m = [SetNodeAsMaster(q, u.about) EXCEPT !.cfg[u.about] = u.cfg]
      <4> HIDE DEF q
      <4> QED
        BY <1>3 DEF SetNodeAsMaster, Table
    <3> QED
      BY <1>5, <3>1 DEF ProcessUpdate
  <2> HIDE DEF q
  <2>2. q.cfg \in [Node -> Nat] /\ q.epoch \in Nat /\ q.master \in [Node -> Node \cup {None}]
    BY <1>3 DEF Table
  <2>3. c \in [Node -> Nat] /\ c[n] = q.cfg[n] /\ \A x \in Node : c[x] <= q.epoch
    BY <1>1, <1>2, <1>5, <2>2 DEF NodeOK, Draft
  <2>4. a \in [Node -> Node \cup {None}] /\ a[n] # n
    BY <1>1, <1>2, <2>2 DEF NodeOK, Draft
  <2> HIDE DEF a, c
  <2>5. /\ m \in Table /\ m.epoch = q.epoch /\ m.cfg = c /\ m.slots = q.slots /\ m.vote = q.vote
        /\ m.savedEpoch = q.savedEpoch /\ m.savedVote = q.savedVote /\ m.savedMaster = q.savedMaster /\ m.authEpoch = q.authEpoch
        /\ m.master = a /\ m.auth = q.auth /\ m.authCount = q.authCount
    BY <1>3, <2>3, <2>4 DEF Table
  <2> HIDE DEF m
  <2>6. Draft(n, m)
    BY <1>2, <2>3, <2>4, <2>5 DEF NodeOK, Draft
  <2>7. Keeps(n, q, m)
    BY <1>3, <2>5 DEF Keeps, Table
  <2>8. Draft(n, w) /\ w.cfg = c /\ w \in Table /\ Keeps(n, m, w)
    BY <1>1, <2>5, <2>6, UpdateSlotsOK, UpdateSlotsKeeps DEF Draft
  <2> HIDE DEF w
  <2>9. Draft(n, z) /\ z.cfg = c /\ Keeps(n, w, z)
    BY <2>1, <2>8, SaveConfigOK, SaveConfigKeeps
  <2> HIDE DEF z
  <2>10. Keeps(n, r, z)
    <3>1. z \in Table
      BY <2>9 DEF Draft
    <3> QED
      BY <1>2, <1>3, <3>1, <2>5, <2>7, <2>8, <2>9, KeepsTrans
  <2> QED
    BY <1>2, <2>3, <2>9, <2>10 DEF z
<1> QED
  BY <1>4, <1>5

\* A vote, and a header, leave the voter's own election alone.
LEMMA VoteKeeps ==
    ASSUME NEW n \in Node, NEW r, NodeOK(n, r)
    PROVE  LET q == Vote(r)
           IN  Keeps(n, r, q) /\ q.cfg = r.cfg
<1> DEFINE q == Vote(r)
<1>1. r \in Table /\ r.savedEpoch <= r.epoch
  BY DEF NodeOK, Draft
<1>2. /\ q.auth = r.auth /\ q.authCount = r.authCount /\ q.authEpoch = r.authEpoch
      /\ q.savedEpoch = r.epoch /\ q.slots = r.slots /\ q.cfg = r.cfg
  BY <1>1 DEF Vote, SaveConfig, Table
<1> QED
  BY <1>1, <1>2 DEF Keeps

LEMMA ReplaceKeeps ==
    ASSUME NEW n \in Node, NEW r, Draft(n, r)
    PROVE  LET q == FailoverReplaceYourMaster(r, n)
           IN  /\ q.auth = r.auth /\ q.authCount = r.authCount /\ q.authEpoch = r.authEpoch
               /\ r.savedEpoch <= q.savedEpoch /\ q.cfg = r.cfg
<1> DEFINE q == FailoverReplaceYourMaster(r, n)
<1>1. r \in Table /\ r.savedEpoch <= r.epoch
  BY DEF Draft
<1>2. /\ q.auth = r.auth /\ q.authCount = r.authCount /\ q.authEpoch = r.authEpoch
      /\ q.savedEpoch = r.epoch /\ q.cfg = r.cfg
  BY <1>1 DEF FailoverReplaceYourMaster, SaveConfig, ResetManualFailover, SetNodeAsMaster, Table
<1> QED
  BY <1>1, <1>2

-----------------------------------------------------------------------------
(* What a step may do to elections and to the owners of slots              *)

\* n keeps its epoch and gains no slot, or has an epoch that was won or made.
OwnerStep(n) ==
    \/ /\ nd'[n].cfg[n] = nd[n].cfg[n]
       /\ \A j \in Slot : nd'[n].slots[j] = n => nd[n].slots[j] = n
    \/ nd'[n].cfg[n] \in bumped' \cup Won(n)'

\* x is won with a quorum of votes of its epoch.
Victory(x) ==
    /\ x \in [node : Node, epoch : Epoch]
    /\ nd[x.node].auth = "sent" /\ x.epoch = nd[x.node].authEpoch
    /\ nd[x.node].authCount >= Quorum(nd[x.node])

\* What a step does to the votes: nothing; n starts over; a master casts one that
\* was not cast before, and answers; or an answer of a master that its receiver
\* knows to serve slots is counted.
SameCounts(S) == \A x \in S : nd'[x].authCount = nd[x].authCount
NoVote ==
    /\ ballots' = ballots /\ counted' = counted /\ SameCounts(Node)
    /\ \A p \in net' : IsAck(p) => p \in net
StartsOver(n) ==
    /\ ballots' = ballots /\ counted' = [counted EXCEPT ![n] = {}]
    /\ nd'[n].authCount = 0 /\ SameCounts(Node \ {n})
    /\ \A p \in net' : IsAck(p) => p \in net
Casts(a) ==
    /\ BallotOf(a) \notin ballots /\ ballots' = ballots \cup {BallotOf(a)}
    /\ counted' = counted /\ SameCounts(Node)
    /\ \A p \in net' : IsAck(p) => p \in net \/ p = a
Counts(p) ==
    /\ IsAck(p) /\ p.hdr.from \in Electors(nd[p.to])
    /\ ballots' = ballots /\ counted' = [counted EXCEPT ![p.to] = @ \cup {BallotOf(p)}]
    /\ nd'[p.to].authCount = nd[p.to].authCount + 1 /\ SameCounts(Node \ {p.to})
    /\ \A q \in net' : IsAck(q) => q \in net \ {p}

VoteStep ==
    \/ NoVote
    \/ \E n \in Node : StartsOver(n)
    \/ \E a \in net' : Casts(a)
    \/ \E p \in net : Counts(p)

ElectionStep ==
    /\ CandidateInv' /\ VoteStep
    /\ \A n \in Node : OwnerStep(n)
    /\ bumped \subseteq bumped' /\ elected \subseteq elected' /\ ballots \subseteq ballots'
    /\ \A x \in elected' : x \in elected \/ Victory(x)
    /\ \A p \in net' : p \in net \/ (p.hdr.type = "update" => p.data.about # p.to)

\* n keeps its slots or has a new epoch, whatever happens to the votes.
LEMMA AnyElection ==
    ASSUME ClusterInv, CandidateInv, VoteStep, NEW n \in Node, NEW q, Becomes(n, q),
           q.auth = "sent" => StartEpoch < q.authEpoch,
           nd[n].savedEpoch <= q.savedEpoch, q \in Table,
           \/ q.cfg[n] = nd[n].cfg[n] /\ \A j \in Slot : q.slots[j] = n => nd[n].slots[j] = n
           \/ q.cfg[n] \in bumped' \cup Won(n)',
           bumped \subseteq bumped', elected \subseteq elected',
           \A x \in elected' : x \in elected \/ Victory(x),
           \A p \in net' : p \in net \/ (p.hdr.type = "update" => p.data.about # p.to)
    PROVE  ElectionStep
<1>1. nd' = [nd EXCEPT ![n] = q] /\ DOMAIN nd = Node
  BY DEF Becomes, ClusterInv
<1>2. nd'[n] = q /\ \A x \in Node \ {n} : nd'[x] = nd[x]
  BY <1>1
<1>3. StartEpoch \in Nat /\ nd[n].savedEpoch \in Nat /\ q.savedEpoch \in Nat
  <2>1. StartEpoch \in Nat
    BY StartEpochIs
  <2>2. nd[n] \in Table
    BY DEF ClusterInv, NodeOK, Draft
  <2> QED
    BY <2>1, <2>2 DEF Table
<1>4. ASSUME NEW x \in Node PROVE CandidateOK(x)'
  <2>1. CASE x = n
    <3>1. StartEpoch <= q.savedEpoch
      BY <1>3 DEF CandidateInv, CandidateOK
    <3> QED
      BY <1>2, <2>1, <3>1 DEF CandidateOK
  <2>2. CASE x # n
    BY <1>2, <2>2 DEF CandidateInv, CandidateOK
  <2> QED
    BY <2>1, <2>2
<1>5. ASSUME NEW x \in Node PROVE OwnerStep(x)
  BY <1>2 DEF OwnerStep
<1>6. ballots \subseteq ballots'
  BY DEF VoteStep, NoVote, StartsOver, Casts, Counts
<1> QED
  BY <1>4, <1>5, <1>6 DEF ElectionStep, CandidateInv

\* The election of n goes on and nobody votes.
LEMMA KeptElection ==
    ASSUME ClusterInv, CandidateInv, NEW n \in Node, NEW q, Becomes(n, q),
           q.auth = nd[n].auth, q.authCount = nd[n].authCount, q.authEpoch = nd[n].authEpoch,
           nd[n].savedEpoch <= q.savedEpoch, q \in Table,
           \/ q.cfg[n] = nd[n].cfg[n] /\ \A j \in Slot : q.slots[j] = n => nd[n].slots[j] = n
           \/ q.cfg[n] \in bumped' \cup Won(n)',
           bumped \subseteq bumped', elected \subseteq elected', UNCHANGED <<ballots, counted>>,
           \A x \in elected' : x \in elected \/ Victory(x),
           \A p \in net' : \/ p \in net
                           \/ /\ p.hdr.type # "auth_ack"
                              /\ p.hdr.type = "update" => p.data.about # p.to
    PROVE  ElectionStep
<1>1. nd' = [nd EXCEPT ![n] = q] /\ DOMAIN nd = Node
  BY DEF Becomes, ClusterInv
<1>2. SameCounts(Node)
  BY <1>1 DEF SameCounts
<1>3. VoteStep
  BY <1>2 DEF VoteStep, NoVote, IsAck
<1>4. q.auth = "sent" => StartEpoch < q.authEpoch
  BY DEF CandidateInv, CandidateOK
<1> QED
  BY <1>3, <1>4, AnyElection

\* A step in which n changes neither its epochs nor its slots.
LEMMA QuietElection ==
    ASSUME ClusterInv, CandidateInv, NEW n \in Node, NEW q \in Table, Becomes(n, q),
           q.auth = nd[n].auth, q.authCount = nd[n].authCount, q.authEpoch = nd[n].authEpoch,
           q.savedEpoch = nd[n].savedEpoch, q.cfg = nd[n].cfg, q.slots = nd[n].slots,
           UNCHANGED <<ballots, counted, elected, bumped>>,
           \A p \in net' : p \in net \/ p.hdr.type \notin {"auth_ack", "update"}
    PROVE  ElectionStep
<1>1. nd[n].savedEpoch \in Nat
  BY DEF ClusterInv, NodeOK, Draft, Table
<1>2. nd[n].savedEpoch <= q.savedEpoch
  BY <1>1
<1> QED
  BY <1>2, KeptElection

LEMMA QuietElections ==
    ASSUME ClusterInv, CandidateInv, NEW n \in Node,
           ManualFailoverCanStart(n) \/ ManualFailoverTimeout(n) \/ FailoverForce(n)
    PROVE  ElectionStep
<1> DEFINE f == nd'[n].mf
           s == nd'[n].mfSlave
           q == [nd[n] EXCEPT !.mf = f, !.mfSlave = s]
<1>1. nd[n] \in Table /\ DOMAIN nd = Node
  BY DEF ClusterInv, NodeOK, Draft
<1>2. /\ Becomes(n, q) /\ f \in {"none", "can"} /\ s \in {nd[n].mfSlave, None}
      /\ net' = net /\ UNCHANGED <<ballots, counted, elected, bumped>>
  <2>1. CASE ManualFailoverCanStart(n)
    BY <1>1, <2>1 DEF ManualFailoverCanStart, Becomes, Table
  <2>2. CASE ManualFailoverTimeout(n)
    BY <1>1, <2>2 DEF ManualFailoverTimeout, ResetManualFailover, Becomes, Table
  <2>3. CASE FailoverForce(n)
    BY <1>1, <2>3 DEF FailoverForce, ResetManualFailover, Becomes, Table
  <2> QED
    BY <2>1, <2>2, <2>3
<1> HIDE DEF f, s
<1>3. nd[n].mfSlave \in Node \cup {None}
  BY <1>1 DEF Table
<1>4. /\ q \in Table /\ q.auth = nd[n].auth /\ q.authCount = nd[n].authCount
      /\ q.authEpoch = nd[n].authEpoch /\ q.savedEpoch = nd[n].savedEpoch
      /\ q.cfg = nd[n].cfg /\ q.slots = nd[n].slots
  BY <1>1, <1>2, <1>3 DEF Table
<1> HIDE DEF q
<1> QED
  BY <1>2, <1>4, QuietElection

LEMMA FailoverCommandElects ==
    ASSUME ClusterInv, CandidateInv, NEW n \in Node, FailoverCommand(n)
    PROVE  ElectionStep
<1> DEFINE q == [ResetManualFailover(nd[n]) EXCEPT !.mf = "asked"]
           p == Packet(nd'[n], n, "mfstart", nd[n].master[n], None)
<1>1. nd[n] \in Table
  BY DEF ClusterInv, NodeOK, Draft
<1>2. /\ Becomes(n, q) /\ net' = net \cup {p} /\ UNCHANGED <<ballots, counted, elected, bumped>>
  BY DEF FailoverCommand, Send
<1>3. p.hdr.type = "mfstart"
  BY DEF Packet, BuildMessageHdr
<1>4. /\ q \in Table /\ q.auth = nd[n].auth /\ q.authCount = nd[n].authCount
      /\ q.authEpoch = nd[n].authEpoch /\ q.savedEpoch = nd[n].savedEpoch
      /\ q.cfg = nd[n].cfg /\ q.slots = nd[n].slots
  BY <1>1 DEF Table, ResetManualFailover
<1> HIDE DEF q, p
<1> QED
  BY <1>2, <1>3, <1>4, QuietElection

LEMMA SlaveMigrationElects ==
    ASSUME ClusterInv, CandidateInv, NEW n \in Node, NEW m \in Node, SlaveMigration(n, m)
    PROVE  ElectionStep
<1> DEFINE r == nd[n]
           a == [r.master EXCEPT ![n] = m]
           q == [r EXCEPT !.master = a, !.mf = "none", !.mfSlave = None]
<1>1. r \in Table
  BY DEF ClusterInv, NodeOK, Draft
<1>2. a \in [Node -> Node \cup {None}]
  BY <1>1 DEF Table
<1>3. /\ Becomes(n, SetMaster(r, n, m)) /\ net' = net /\ UNCHANGED <<ballots, counted, elected, bumped>>
  BY DEF SlaveMigration
<1>4. SetMaster(r, n, m) = q
  BY <1>1 DEF SetMaster, ResetManualFailover, Table
<1> HIDE DEF a
<1>5. /\ q \in Table /\ q.auth = r.auth /\ q.authCount = r.authCount
      /\ q.authEpoch = r.authEpoch /\ q.savedEpoch = r.savedEpoch
      /\ q.cfg = r.cfg /\ q.slots = r.slots
  BY <1>1, <1>2 DEF Table
<1>6. Becomes(n, q)
  BY <1>3, <1>4
<1> HIDE DEF q
<1> QED
  BY <1>3, <1>5, <1>6, QuietElection

LEMMA DelayedPingElects ==
    ASSUME ClusterInv, CandidateInv, NEW n \in Node, NEW m \in Node, DelayedPing(n, m)
    PROVE  ElectionStep
<1> DEFINE p == Packet(nd[n], n, "ping", m, None)
<1>1. nd[n] \in Table /\ nd = [x \in Node |-> nd[x]]
  BY DEF ClusterInv, NodeOK, Draft
<1>2. nd' = nd /\ net' = net \cup {p} /\ UNCHANGED <<ballots, counted, elected, bumped>>
  BY DEF DelayedPing
<1>3. p.hdr.type = "ping"
  BY DEF Packet, BuildMessageHdr
<1> HIDE DEF p
<1>4. Becomes(n, nd[n])
  BY <1>1, <1>2 DEF Becomes
<1> QED
  BY <1>1, <1>2, <1>3, <1>4, QuietElection

LEMMA ReceiveElects ==
    ASSUME ClusterInv, CandidateInv, NEW n \in Node, NEW h, HeaderOK(h), h.from # n,
           NEW rest \in SUBSET net, Receive(n, h, rest)
    PROVE  ElectionStep
<1> DEFINE r == nd[n]
           o == ProcessPing(r, n, h)
<1>1. NodeOK(n, r)
  BY DEF ClusterInv
<1>2. /\ Becomes(n, o.rec) /\ UNCHANGED <<ballots, counted, elected>>
      /\ bumped' = IF o.rec.epoch > Max({r.epoch, h.epoch})
                   THEN bumped \cup {o.rec.epoch} ELSE bumped
      /\ \/ net' = rest
         \/ \E x \in o.newer : net' = rest \cup {UpdatePacket(o.rec, n, x, h.from)}
  BY DEF Receive, Send
<1>3. o.rec \in Table
  <2>1. Draft(n, o.rec)
    BY <1>1, ProcessPingOK
  <2> HIDE DEF o
  <2> QED
    BY <2>1 DEF Draft
<1>4. /\ Keeps(n, r, o.rec)
      /\ \/ o.rec.cfg[n] = r.cfg[n]
         \/ o.rec.cfg[n] = o.rec.epoch /\ o.rec.epoch > Max({r.epoch, h.epoch})
      /\ h.from \notin o.newer
  BY <1>1, ProcessPingKeeps
<1> HIDE DEF o
<1>5. ASSUME NEW p \in net', p \notin net
      PROVE  p.hdr.type = "update" /\ p.data.about # p.to
  <2>1. PICK x \in o.newer : p = UpdatePacket(o.rec, n, x, h.from)
    BY <1>2, <1>5
  <2>2. p.hdr.type = "update" /\ p.data.about = x /\ p.to = h.from
    BY <2>1 DEF UpdatePacket, Packet, BuildMessageHdr
  <2> QED
    BY <1>4, <2>1, <2>2
<1>6. \A p \in net' : \/ p \in net
                      \/ /\ p.hdr.type # "auth_ack"
                         /\ p.hdr.type = "update" => p.data.about # p.to
  <2> SUFFICES ASSUME NEW p \in net', p \notin net
               PROVE  /\ p.hdr.type # "auth_ack"
                      /\ p.hdr.type = "update" => p.data.about # p.to
    OBVIOUS
  <2>1. p.hdr.type = "update" /\ p.data.about # p.to
    BY <1>5
  <2> QED
    BY <2>1
<1>7. bumped \subseteq bumped' /\ (o.rec.epoch > Max({r.epoch, h.epoch}) => o.rec.epoch \in bumped')
  BY <1>2
<1>8. \/ o.rec.cfg[n] = r.cfg[n] /\ \A j \in Slot : o.rec.slots[j] = n => r.slots[j] = n
      \/ o.rec.cfg[n] \in bumped' \cup Won(n)'
  BY <1>4, <1>7 DEF Keeps
<1>9. /\ o.rec.auth = r.auth /\ o.rec.authCount = r.authCount /\ o.rec.authEpoch = r.authEpoch
      /\ r.savedEpoch <= o.rec.savedEpoch
  BY <1>4 DEF Keeps
<1> QED
  BY <1>2, <1>3, <1>6, <1>7, <1>8, <1>9, KeptElection

LEMMA PingElects ==
    ASSUME ClusterInv, CandidateInv,
           \/ \E n, m \in Node : Ping(n, m)
           \/ \E p \in net : ReceivePing(p)
    PROVE  ElectionStep
<1>1. ASSUME NEW n \in Node, NEW m \in Node, Ping(n, m) PROVE ElectionStep
  <2> DEFINE h == BuildMessageHdr(nd[n], n, "ping")
  <2>1. HeaderOK(h) /\ h.from = n
    BY HeaderSent DEF ClusterInv
  <2>2. m # n /\ Receive(m, h, net)
    BY <1>1 DEF Ping
  <2> HIDE DEF h
  <2> QED
    BY <2>1, <2>2, ReceiveElects
<1>2. ASSUME NEW p \in net, ReceivePing(p) PROVE ElectionStep
  <2>1. HeaderOK(p.hdr) /\ p.to \in Node /\ p.hdr.from # p.to
    BY DEF ClusterInv, PacketOK
  <2>2. Receive(p.to, p.hdr, net \ {p})
    BY <1>2 DEF ReceivePing
  <2> QED
    BY <2>1, <2>2, ReceiveElects
<1> QED
  BY <1>1, <1>2

LEMMA ReceiveUpdateElects ==
    ASSUME ClusterInv, CandidateInv, OwnersInv, NEW p \in net, ReceiveUpdate(p)
    PROVE  ElectionStep
<1> DEFINE n == p.to
           q == ProcessUpdate(nd[n], n, p.hdr, p.data)
<1>1. /\ Becomes(n, q) /\ net' \subseteq net /\ UNCHANGED <<ballots, counted, elected, bumped>>
      /\ p.hdr.type = "update"
  BY DEF ReceiveUpdate
<1>2. /\ HeaderOK(p.hdr) /\ n \in Node /\ p.hdr.from # n
      /\ p.data \in Claim /\ p.data.cfg <= p.hdr.epoch
  BY <1>1 DEF ClusterInv, PacketOK
<1>3. NodeOK(n, nd[n]) /\ p.data.about # n
  BY <1>1, <1>2 DEF ClusterInv, OwnersInv
<1>4. NodeOK(n, q)
  BY <1>2, <1>3, ProcessUpdateOK
<1>5. Keeps(n, nd[n], q) /\ q.cfg[n] = nd[n].cfg[n]
  BY <1>2, <1>3, ProcessUpdateKeeps
<1> HIDE DEF q, n
<1>6. q \in Table
  BY <1>4 DEF NodeOK, Draft
<1>7. /\ q.auth = nd[n].auth /\ q.authCount = nd[n].authCount /\ q.authEpoch = nd[n].authEpoch
      /\ nd[n].savedEpoch <= q.savedEpoch
      /\ \A j \in Slot : q.slots[j] = n => nd[n].slots[j] = n
  BY <1>5 DEF Keeps
<1> QED
  BY <1>1, <1>2, <1>5, <1>6, <1>7, KeptElection

LEMMA ReceiveMFStartElects ==
    ASSUME ClusterInv, CandidateInv, NEW p \in net, ReceiveMFStart(p)
    PROVE  ElectionStep
<1> DEFINE n == p.to
           f == p.hdr.from
           q == ProcessHeader(nd[n], n, p.hdr)
           z == [q EXCEPT !.mf = "asked", !.mfSlave = f]
           w == IF q.master[f] = n THEN z ELSE q
<1>1. Becomes(n, w) /\ net' \subseteq net /\ UNCHANGED <<ballots, counted, elected, bumped>>
  BY DEF ReceiveMFStart
<1>2. HeaderOK(p.hdr) /\ n \in Node /\ f \in Node /\ f # n
  BY DEF ClusterInv, PacketOK, HeaderOK, Header
<1>3. NodeOK(n, nd[n])
  BY <1>2 DEF ClusterInv
<1>4. NodeOK(n, q) /\ Keeps(n, nd[n], q) /\ q.cfg[n] = nd[n].cfg[n]
  BY <1>2, <1>3, ProcessHeaderOK, ProcessHeaderKeeps
<1> HIDE DEF q
<1>5. q \in Table
  BY <1>4 DEF NodeOK, Draft
<1>6. /\ z \in Table /\ z.auth = q.auth /\ z.authCount = q.authCount /\ z.authEpoch = q.authEpoch
      /\ z.savedEpoch = q.savedEpoch /\ z.cfg = q.cfg /\ z.slots = q.slots
  BY <1>2, <1>5 DEF Table
<1> HIDE DEF z
<1>7. w \in Table /\ Keeps(n, nd[n], w) /\ w.cfg[n] = nd[n].cfg[n]
  BY <1>4, <1>5, <1>6 DEF Keeps
<1> HIDE DEF w, n
<1>8. /\ w.auth = nd[n].auth /\ w.authCount = nd[n].authCount /\ w.authEpoch = nd[n].authEpoch
      /\ nd[n].savedEpoch <= w.savedEpoch
      /\ \A j \in Slot : w.slots[j] = n => nd[n].slots[j] = n
  BY <1>7 DEF Keeps
<1> QED
  BY <1>1, <1>2, <1>7, <1>8, KeptElection

\* n begins to count at 0.
LEMMA NewElection ==
    ASSUME ClusterInv, CandidateInv, NEW n \in Node, NEW q \in Table, Becomes(n, q),
           q.authCount = 0, nd[n].savedEpoch = q.savedEpoch, q.auth # "sent",
           q.cfg = nd[n].cfg, q.slots = nd[n].slots, net' \subseteq net,
           counted' = [counted EXCEPT ![n] = {}], UNCHANGED <<ballots, elected, bumped>>
    PROVE  ElectionStep
<1>1. nd' = [nd EXCEPT ![n] = q] /\ DOMAIN nd = Node
  BY DEF Becomes, ClusterInv
<1>2. nd'[n].authCount = 0 /\ SameCounts(Node \ {n})
  BY <1>1 DEF SameCounts
<1>3. VoteStep
  BY <1>2 DEF VoteStep, StartsOver
<1>4. nd[n].savedEpoch <= q.savedEpoch
  BY DEF Table
<1> QED
  BY <1>3, <1>4, AnyElection

LEMMA ScheduleElectionElects ==
    ASSUME ClusterInv, CandidateInv, NEW n \in Node, ScheduleElection(n)
    PROVE  ElectionStep
<1> DEFINE q == [nd[n] EXCEPT !.authCount = 0, !.auth = "scheduled"]
<1>1. nd[n] \in Table
  BY DEF ClusterInv, NodeOK, Draft
<1>2. /\ q.savedEpoch = nd[n].savedEpoch /\ q.cfg = nd[n].cfg /\ q.slots = nd[n].slots
      /\ q.authCount = 0 /\ q.auth = "scheduled" /\ q \in Table
  BY <1>1 DEF Table
<1>3. /\ Becomes(n, q) /\ UNCHANGED <<net, ballots, elected, bumped>>
      /\ counted' = [counted EXCEPT ![n] = {}]
  BY DEF ScheduleElection
<1> HIDE DEF q
<1> QED
  BY <1>2, <1>3, NewElection

LEMMA RestartElects ==
    ASSUME ClusterInv, CandidateInv, NEW n \in Node, Restart(n)
    PROVE  ElectionStep
<1> DEFINE r == nd[n]
           e == Max({r.cfg[m] : m \in Node} \cup {r.savedEpoch})
           q == [r EXCEPT !.epoch = e, !.vote = r.savedVote, !.master = r.savedMaster,
                          !.auth = "none", !.authCount = 0, !.authEpoch = 0,
                          !.mf = "none", !.mfSlave = None]
<1>1. NodeOK(n, r) /\ r \in Table
  BY DEF ClusterInv, NodeOK, Draft
<1>2. /\ Becomes(n, q) /\ UNCHANGED <<ballots, elected, bumped>> /\ net' \subseteq net
      /\ counted' = [counted EXCEPT ![n] = {}]
  BY DEF Restart
<1>3. e \in Nat
  <2> DEFINE S == {r.cfg[m] : m \in Node} \cup {r.savedEpoch}
  <2>1. r.cfg \in [Node -> Nat] /\ r.savedEpoch \in Nat
    BY <1>1 DEF Table
  <2>2. S \in SUBSET Nat /\ r.savedEpoch \in S
    BY <2>1
  <2>3. \A y \in S : y <= r.savedEpoch
    BY <1>1, <2>1 DEF NodeOK
  <2> HIDE DEF S
  <2>4. Max(S) = r.savedEpoch
    BY <2>2, <2>3, MaxIs
  <2> QED
    BY <2>1, <2>4 DEF S
<1> HIDE DEF e
<1>4. /\ q.savedEpoch = r.savedEpoch /\ q.cfg = r.cfg /\ q.slots = r.slots
      /\ q.authCount = 0 /\ q.auth = "none" /\ q \in Table
  BY <1>1, <1>3 DEF Table
<1> HIDE DEF q
<1> QED
  BY <1>2, <1>4, NewElection

LEMMA RequestFailoverAuthElects ==
    ASSUME ClusterInv, CandidateInv, NEW n \in Node, RequestFailoverAuth(n)
    PROVE  ElectionStep
<1> DEFINE r == nd[n]
           e == r.epoch + 1
           q == SaveConfig([r EXCEPT !.epoch = e, !.authEpoch = e, !.auth = "sent"])
<1>1. r \in Table /\ StartEpoch <= r.savedEpoch /\ r.savedEpoch <= r.epoch
  BY DEF ClusterInv, NodeOK, Draft, CandidateInv, CandidateOK
<1>2. StartEpoch \in Nat /\ r.savedEpoch \in Nat /\ r.epoch \in Nat
  BY <1>1, StartEpochIs DEF Table
<1>3. /\ Becomes(n, q) /\ UNCHANGED <<ballots, counted, elected, bumped>>
      /\ \A p \in net' : p \in net \/ \E m \in Node :
            p = Packet(q, n, "auth_request", m, [force |-> q.mf # "none"])
  BY DEF RequestFailoverAuth, Send
<1>4. StartEpoch < e /\ r.savedEpoch <= e /\ e \in Nat
  BY <1>1, <1>2
<1> HIDE DEF e
<1>5. /\ q.savedEpoch = e /\ q.cfg = r.cfg /\ q.slots = r.slots /\ q.authCount = r.authCount
      /\ q.authEpoch = e /\ q \in Table
  BY <1>1, <1>4 DEF Table, SaveConfig
<1> HIDE DEF q
<1>6. \A p \in net' : p \in net \/ p.hdr.type = "auth_request"
  BY <1>3 DEF Packet, BuildMessageHdr
<1>7. VoteStep
  <2>1. nd' = [nd EXCEPT ![n] = q] /\ DOMAIN nd = Node
    BY <1>3 DEF Becomes, ClusterInv
  <2>2. SameCounts(Node)
    BY <1>5, <2>1 DEF SameCounts
  <2> QED
    BY <1>3, <1>6, <2>2 DEF VoteStep, NoVote, IsAck
<1> QED
  BY <1>3, <1>4, <1>5, <1>6, <1>7, AnyElection

LEMMA FailoverTakeoverElects ==
    ASSUME ClusterInv, CandidateInv, NEW n \in Node, FailoverTakeover(n)
    PROVE  ElectionStep
<1> DEFINE r == nd[n]
           z == BumpConfigEpochWithoutConsensus(r, n)
           q == FailoverReplaceYourMaster(z, n)
<1>1. Draft(n, r) /\ r \in Table
  BY DEF ClusterInv, NodeOK, Draft
<1>2. /\ Becomes(n, q) /\ net' = net /\ UNCHANGED <<ballots, counted, elected>>
      /\ bumped' = bumped \cup {z.cfg[n]}
  BY DEF FailoverTakeover
<1>3. /\ z.auth = r.auth /\ z.authCount = r.authCount /\ z.authEpoch = r.authEpoch
      /\ z.savedEpoch = r.savedEpoch
  BY <1>1 DEF BumpConfigEpochWithoutConsensus, Table
<1>4. Draft(n, z)
  BY <1>1, BumpOK
<1> HIDE DEF z
<1>5. Draft(n, q)
  BY <1>4, ReplaceOK
<1>6. /\ q.auth = z.auth /\ q.authCount = z.authCount /\ q.authEpoch = z.authEpoch
      /\ z.savedEpoch <= q.savedEpoch /\ q.cfg = z.cfg
  BY <1>4, ReplaceKeeps
<1> HIDE DEF q
<1>7. q \in Table /\ q.cfg[n] \in bumped' /\ bumped \subseteq bumped'
  BY <1>2, <1>5, <1>6 DEF Draft
<1> QED
  BY <1>2, <1>3, <1>6, <1>7, KeptElection

\* The winner's epoch is the one it was elected in, or one it already had.
LEMMA WinElectionElects ==
    ASSUME ClusterInv, CandidateInv, OwnersInv, NEW n \in Node, WinElection(n)
    PROVE  ElectionStep
<1> DEFINE r == nd[n]
           e == Max({r.cfg[n], r.authEpoch})
           c == [r.cfg EXCEPT ![n] = e]
           z == [r EXCEPT !.cfg = c]
           q == FailoverReplaceYourMaster(z, n)
           x == [node |-> n, epoch |-> r.authEpoch]
<1>1. NodeOK(n, r) /\ r \in Table
  BY DEF ClusterInv, NodeOK, Draft
<1>2. /\ r.epoch \in Nat /\ r.cfg \in [Node -> Nat] /\ r.authEpoch \in Nat
      /\ r.authEpoch <= r.epoch /\ r.epoch <= MaxEpoch
  BY <1>1 DEF Table, NodeOK, Draft
<1>3. e \in Nat /\ e \in {r.cfg[n], r.authEpoch} /\ e >= r.authEpoch
  BY <1>2, MaxOfTwo
<1>4. [nd[n] EXCEPT !.cfg[n] = Max({@, nd[n].authEpoch})] = z
  BY <1>1 DEF Table
<1>5. /\ Becomes(n, q) /\ net' = net /\ UNCHANGED <<ballots, counted, bumped>>
      /\ elected' = elected \cup {x} /\ r.auth = "sent" /\ r.authCount >= Quorum(r)
  BY <1>4 DEF WinElection
<1>6. x \in [node : Node, epoch : Epoch] /\ x.node = n /\ x.epoch = r.authEpoch
  BY <1>2, ClusterConstants DEF Epoch
<1>7. Victory(x)
  BY <1>5, <1>6 DEF Victory
<1>8. r.authEpoch \in Won(n)'
  BY <1>5, <1>6 DEF Won
<1>9. StartEpoch < r.authEpoch /\ ConfigEpoch[n] <= StartEpoch /\ StartEpoch \in Nat
      /\ ConfigEpoch[n] \in Nat
  BY <1>5, StartEpochIs, ClusterConstants DEF CandidateInv, CandidateOK
<1> HIDE DEF e, x
<1>10. e \in bumped' \cup Won(n)'
  <2>1. CASE e = r.authEpoch
    BY <1>8, <2>1
  <2>2. CASE e = r.cfg[n]
    <3>1. r.cfg[n] \in {ConfigEpoch[n]} \cup bumped \cup Won(n)
      BY DEF OwnersInv, OwnerOK
    <3>2. r.cfg[n] # ConfigEpoch[n]
      BY <1>2, <1>3, <1>9, <2>2
    <3>3. Won(n) \subseteq Won(n)'
      BY <1>5 DEF Won
    <3> QED
      BY <1>5, <2>2, <3>1, <3>2, <3>3
  <2> QED
    BY <1>3, <2>1, <2>2
<1>11. c \in [Node -> Nat] /\ c[n] = e /\ \A y \in Node : c[y] <= r.epoch
  <2>1. c \in [Node -> Nat] /\ \A y \in Node : c[y] = IF y = n THEN e ELSE r.cfg[y]
    BY <1>2, <1>3
  <2> HIDE DEF c
  <2> QED
    BY <1>1, <1>2, <1>3, <2>1 DEF NodeOK, Draft
<1> HIDE DEF c
<1>12. /\ z \in Table /\ z.epoch = r.epoch /\ z.cfg = c /\ z.slots = r.slots /\ z.vote = r.vote
       /\ z.savedEpoch = r.savedEpoch /\ z.savedVote = r.savedVote /\ z.savedMaster = r.savedMaster /\ z.authEpoch = r.authEpoch
       /\ z.master = r.master /\ z.auth = r.auth /\ z.authCount = r.authCount
  BY <1>1, <1>11 DEF Table
<1> HIDE DEF z
<1>13. Draft(n, z)
  BY <1>1, <1>11, <1>12 DEF NodeOK, Draft
<1>14. Draft(n, q)
  BY <1>13, ReplaceOK
<1>15. /\ q.auth = z.auth /\ q.authCount = z.authCount /\ q.authEpoch = z.authEpoch
       /\ z.savedEpoch <= q.savedEpoch /\ q.cfg = z.cfg
  BY <1>13, ReplaceKeeps
<1> HIDE DEF q
<1>16. q \in Table /\ q.cfg[n] \in bumped' \cup Won(n)'
  BY <1>10, <1>11, <1>12, <1>14, <1>15 DEF Draft
<1>17. elected \subseteq elected' /\ \A y \in elected' : y \in elected \/ Victory(y)
  BY <1>5, <1>7
<1> QED
  BY <1>5, <1>12, <1>15, <1>16, <1>17, KeptElection

\* A vote is one that the voter had not cast, and its answer says which.
LEMMA ReceiveAuthRequestElects ==
    ASSUME ClusterInv, CandidateInv, NEW p \in net, ReceiveAuthRequest(p)
    PROVE  ElectionStep
<1> DEFINE n == p.to
           f == p.hdr.from
           q == ProcessHeader(nd[n], n, p.hdr)
           v == Vote(q)
<1>1. HeaderOK(p.hdr) /\ n \in Node /\ f \in Node /\ f # n
  BY DEF ClusterInv, PacketOK, HeaderOK, Header
<1>2. NodeOK(n, nd[n]) /\ nd[n] \in Table /\ DOMAIN nd = Node
  BY <1>1 DEF ClusterInv, NodeOK, Draft
<1>3. /\ NodeOK(n, q) /\ SameSlots(n, nd[n], q)
      /\ Keeps(n, nd[n], q) /\ q.cfg[n] = nd[n].cfg[n]
  BY <1>1, <1>2, ProcessHeaderOK, ProcessHeaderKeeps
<1>4. UNCHANGED <<counted, elected, bumped>>
  BY DEF ReceiveAuthRequest
<1>5. q \in Table
  <2> HIDE DEF q
  <2> QED
    BY <1>3 DEF NodeOK, Draft
<1>6. CASE ~MayVote(q, n, p.hdr, p.data.force)
  <2>1. Becomes(n, q) /\ ballots' = ballots /\ net' \subseteq net
    BY <1>6 DEF ReceiveAuthRequest
  <2> HIDE DEF q, n
  <2>2. /\ q.auth = nd[n].auth /\ q.authCount = nd[n].authCount /\ q.authEpoch = nd[n].authEpoch
        /\ nd[n].savedEpoch <= q.savedEpoch
        /\ \A j \in Slot : q.slots[j] = n => nd[n].slots[j] = n
    BY <1>3 DEF Keeps
  <2> QED
    BY <1>1, <1>3, <1>4, <1>5, <2>1, <2>2, KeptElection
<1>7. CASE MayVote(q, n, p.hdr, p.data.force)
  <2> DEFINE b == [voter |-> n, epoch |-> q.epoch, for |-> f]
             a == Packet(v, n, "auth_ack", f, None)
  <2>1. Becomes(n, v) /\ ballots' = ballots \cup {b} /\ net' = (net \ {p}) \cup {a}
    BY <1>7 DEF ReceiveAuthRequest, Send
  <2>2. q.vote # q.epoch
    BY <1>7 DEF MayVote
  <2> HIDE DEF q, n, f
  <2>3. q.epoch \in Nat /\ v.epoch = q.epoch
    BY <1>5 DEF Table, Vote, SaveConfig
  <2>4. /\ NodeOK(n, v) /\ v.vote = q.epoch /\ q.vote < v.vote
        /\ Keeps(n, q, v) /\ v.cfg = q.cfg
    BY <1>1, <1>3, <2>2, VoteOK, VoteKeeps
  <2> HIDE DEF v
  <2>5. v \in Table
    BY <2>4 DEF NodeOK, Draft
  <2>6. BallotOf(a) = b /\ a.hdr.type = "auth_ack"
    BY <2>3 DEF BallotOf, Packet, BuildMessageHdr
  <2> HIDE DEF a
  <2>7. b \notin ballots
    <3> SUFFICES ASSUME b \in ballots PROVE FALSE
      OBVIOUS
    <3>1. b.epoch <= nd[n].vote
      BY DEF ClusterInv, BallotOK
    <3>2. nd[n].vote = q.vote /\ q.vote \in Nat
      BY <1>3, <1>5 DEF SameSlots, Table
    <3> QED
      BY <2>3, <2>4, <3>1, <3>2
  <2> HIDE DEF b
  <2>8. Keeps(n, nd[n], v) /\ v.cfg[n] = nd[n].cfg[n]
    BY <1>2, <1>3, <1>5, <2>4, <2>5, KeepsTrans
  <2>9. /\ v.auth = nd[n].auth /\ v.authEpoch = nd[n].authEpoch /\ v.authCount = nd[n].authCount
        /\ nd[n].savedEpoch <= v.savedEpoch
        /\ \A j \in Slot : v.slots[j] = n => nd[n].slots[j] = n
    BY <2>8 DEF Keeps
  <2>10. VoteStep
    <3>1. SameCounts(Node)
      BY <1>1, <1>2, <2>1, <2>9 DEF SameCounts, Becomes
    <3>2. Casts(a) /\ a \in net'
      BY <1>4, <2>1, <2>6, <2>7, <3>1 DEF Casts
    <3> QED
      BY <3>2 DEF VoteStep
  <2>11. v.auth = "sent" => StartEpoch < v.authEpoch
    BY <1>1, <2>9 DEF CandidateInv, CandidateOK
  <2>12. \A y \in net' : y \in net \/ (y.hdr.type = "update" => y.data.about # y.to)
    BY <2>1, <2>6
  <2> QED
    BY <1>1, <1>4, <2>1, <2>5, <2>8, <2>9, <2>10, <2>11, <2>12, AnyElection
<1> QED
  BY <1>6, <1>7

LEMMA ReceiveAuthAckElects ==
    ASSUME ClusterInv, CandidateInv, NEW p \in net, ReceiveAuthAck(p)
    PROVE  ElectionStep
<1> DEFINE n == p.to
           f == p.hdr.from
           q == ProcessHeader(nd[n], n, p.hdr)
           c == q.authCount + 1
           w == CountVote(q, p.hdr)
<1>1. HeaderOK(p.hdr) /\ n \in Node /\ f \in Node /\ f # n
  BY DEF ClusterInv, PacketOK, HeaderOK, Header
<1>2. NodeOK(n, nd[n]) /\ nd[n] \in Table /\ DOMAIN nd = Node
  BY <1>1 DEF ClusterInv, NodeOK, Draft
<1>3. /\ NodeOK(n, q) /\ SameSlots(n, nd[n], q) /\ q.master = nd[n].master
      /\ Keeps(n, nd[n], q) /\ q.cfg[n] = nd[n].cfg[n]
  BY <1>1, <1>2, ProcessHeaderOK, ProcessHeaderKeeps
<1>4. /\ Becomes(n, w) /\ net' = net \ {p} /\ UNCHANGED <<ballots, elected, bumped>>
      /\ counted' = IF w = q THEN counted ELSE [counted EXCEPT ![n] = @ \cup {BallotOf(p)}]
      /\ IsAck(p)
  BY DEF ReceiveAuthAck, IsAck
<1> HIDE DEF q
<1>5. q \in Table
  BY <1>3 DEF NodeOK, Draft
<1>6. c \in Nat /\ c # q.authCount
  BY <1>5 DEF Table
<1>7. \/ w = q
      \/ w = [q EXCEPT !.authCount = c] /\ IsMaster(q, f) /\ SlotsOf(q, f) # {}
  BY DEF CountVote
<1>8. /\ q.auth = nd[n].auth /\ q.authCount = nd[n].authCount /\ q.authEpoch = nd[n].authEpoch
      /\ nd[n].savedEpoch <= q.savedEpoch
      /\ \A j \in Slot : q.slots[j] = n => nd[n].slots[j] = n
  BY <1>3 DEF Keeps
<1>9. CASE w = q
  BY <1>1, <1>3, <1>4, <1>5, <1>8, <1>9, KeptElection
<1>10. CASE w # q
  <2> HIDE DEF w, c
  <2>1. /\ w \in Table /\ w.auth = q.auth /\ w.authEpoch = q.authEpoch /\ w.authCount = c
        /\ w.savedEpoch = q.savedEpoch /\ w.cfg = q.cfg /\ w.slots = q.slots
    BY <1>5, <1>6, <1>7, <1>10 DEF Table
  <2>2. f \in Electors(nd[n])
    <3>1. nd[n].slots = q.slots
      BY <1>3 DEF SameSlots
    <3> QED
      BY <1>1, <1>3, <1>7, <1>10, <3>1 DEF Electors, IsMaster, SlotsOf
  <2>3. VoteStep
    <3>1. nd'[n].authCount = nd[n].authCount + 1 /\ SameCounts(Node \ {n})
      BY <1>1, <1>2, <1>4, <1>8, <2>1 DEF SameCounts, Becomes, c
    <3>2. Counts(p)
      BY <1>4, <1>10, <2>2, <3>1 DEF Counts
    <3> QED
      BY <3>2 DEF VoteStep
  <2>4. w.auth = "sent" => StartEpoch < w.authEpoch
    BY <1>1, <1>8, <2>1 DEF CandidateInv, CandidateOK
  <2> HIDE DEF n
  <2> QED
    BY <1>1, <1>3, <1>4, <1>8, <2>1, <2>3, <2>4, AnyElection
<1> QED
  BY <1>9, <1>10

LEMMA ElectionNext ==
    ASSUME ClusterInv, CandidateInv, OwnersInv, [Next]_vars
    PROVE  ElectionStep
<1>1. CASE Next
  <2>1. ASSUME NEW n \in Node,
               \/ ScheduleElection(n) \/ RequestFailoverAuth(n) \/ WinElection(n)
               \/ ManualFailoverCanStart(n) \/ ManualFailoverTimeout(n)
        PROVE  ElectionStep
    BY <2>1, ScheduleElectionElects, RequestFailoverAuthElects, WinElectionElects,
       QuietElections
  <2>2. ASSUME NEW n \in Operated,
               FailoverCommand(n) \/ FailoverForce(n) \/ FailoverTakeover(n) \/ Restart(n)
        PROVE  ElectionStep
    <3>1. n \in Node
      BY ClusterConstants
    <3> QED
      BY <2>2, <3>1, FailoverCommandElects, QuietElections, FailoverTakeoverElects,
         RestartElects
  <2>3. ASSUME NEW n \in Operated, NEW m \in Node, DelayedPing(n, m) \/ SlaveMigration(n, m)
        PROVE  ElectionStep
    <3>1. n \in Node
      BY ClusterConstants
    <3> QED
      BY <2>3, <3>1, DelayedPingElects, SlaveMigrationElects
  <2>4. ASSUME NEW n \in Node, NEW m \in Node, Ping(n, m)
        PROVE  ElectionStep
    BY <2>4, PingElects
  <2>5. ASSUME NEW p \in net,
               \/ ReceivePing(p) \/ ReceiveUpdate(p)
               \/ ReceiveAuthRequest(p) \/ ReceiveAuthAck(p) \/ ReceiveMFStart(p)
        PROVE  ElectionStep
    BY <2>5, PingElects, ReceiveUpdateElects, ReceiveAuthRequestElects, ReceiveAuthAckElects,
       ReceiveMFStartElects
  <2> QED
    BY <1>1, <2>1, <2>2, <2>3, <2>4, <2>5 DEF Next
<1>2. CASE UNCHANGED vars
  <2>1. CandidateInv'
    BY <1>2 DEF vars, CandidateInv, CandidateOK
  <2>2. VoteStep
    BY <1>2 DEF vars, VoteStep, NoVote, SameCounts
  <2>3. ASSUME NEW n \in Node PROVE OwnerStep(n)
    BY <1>2 DEF vars, OwnerStep
  <2> QED
    BY <1>2, <2>1, <2>2, <2>3 DEF vars, ElectionStep
<1> QED
  BY <1>1, <1>2

\* The epochs of the owners, from a step to the next state.
LEMMA OwnersNext ==
    ASSUME OwnersInv, CandidateInv, ElectionStep
    PROVE  OwnersInv'
<1>1. \A n \in Node : Won(n) \subseteq Won(n)'
  BY DEF Won, ElectionStep
<1>2. ASSUME NEW n \in Node PROVE OwnerOK(n)'
  <2>1. CASE nd'[n].cfg[n] \in bumped' \cup Won(n)'
    BY <2>1 DEF OwnerOK
  <2>2. CASE /\ nd'[n].cfg[n] = nd[n].cfg[n]
             /\ \A j \in Slot : nd'[n].slots[j] = n => nd[n].slots[j] = n
    BY <1>1, <2>2 DEF OwnerOK, OwnersInv, ElectionStep
  <2> QED
    BY <2>1, <2>2 DEF ElectionStep, OwnerStep
<1>3. \A p \in net' : p.hdr.type = "update" => p.data.about # p.to
  BY DEF OwnersInv, ElectionStep
<1>4. ASSUME NEW x \in elected'
      PROVE  x \in [node : Node, epoch : Epoch] /\ StartEpoch < x.epoch
  <2>1. CASE x \in elected
    BY <2>1 DEF OwnersInv
  <2>2. CASE Victory(x)
    <3>1. x.node \in Node
      BY <2>2 DEF Victory
    <3> QED
      BY <2>2, <3>1 DEF Victory, CandidateInv, CandidateOK
  <2> QED
    BY <2>1, <2>2 DEF ElectionStep
<1> QED
  BY <1>2, <1>3, <1>4 DEF OwnersInv

-----------------------------------------------------------------------------
(* Votes                                                                   *)

\* No vote is counted twice, and none that was not cast.
LEMMA CountNext ==
    ASSUME ClusterInv, ClusterInv', CountInv, VoteStep
    PROVE  CountInv'
<1>1. /\ counted \in [Node -> SUBSET ballots]
      /\ \A n \in Node : CountOK(n)
      /\ \A p \in net : IsAck(p) => BallotOf(p) \in ballots \ counted[p.to]
      /\ \A p, q \in net : IsAck(p) /\ IsAck(q) /\ BallotOf(p) = BallotOf(q) => p = q
  BY DEF CountInv
<1>2. /\ \A p \in net : p.to \in Node
      /\ \A p \in net' : p.to \in Node
  BY DEF ClusterInv, PacketOK
<1>3. CASE NoVote
  <2>1. \A n \in Node : CountOK(n)'
    BY <1>1, <1>3 DEF NoVote, SameCounts, CountOK
  <2> QED
    BY <1>1, <1>3, <2>1 DEF NoVote, CountInv, IsAck
<1>4. ASSUME NEW n \in Node, StartsOver(n) PROVE CountInv'
  <2>1. /\ counted'[n] = {} /\ \A x \in Node \ {n} : counted'[x] = counted[x]
        /\ counted' \in [Node -> SUBSET ballots] /\ ballots' = ballots
    BY <1>1, <1>4 DEF StartsOver
  <2>2. CountOK(n)'
    <3>1. IsFiniteSet({}) /\ Cardinality({}) = 0
      BY FS_EmptySet
    <3> QED
      BY <1>4, <2>1, <3>1 DEF CountOK, StartsOver
  <2>3. \A x \in Node \ {n} : CountOK(x)'
    BY <1>1, <1>4, <2>1 DEF CountOK, StartsOver, SameCounts
  <2>4. ASSUME NEW p \in net', IsAck(p)
        PROVE  p \in net /\ BallotOf(p) \in ballots' \ counted'[p.to]
    <3>1. p \in net
      BY <1>4, <2>4 DEF StartsOver
    <3> QED
      BY <1>1, <1>2, <2>1, <2>4, <3>1
  <2> QED
    BY <1>1, <2>1, <2>2, <2>3, <2>4 DEF CountInv, IsAck
<1>5. ASSUME NEW a \in net', Casts(a) PROVE CountInv'
  <2>1. /\ counted' = counted /\ ballots' = ballots \cup {BallotOf(a)}
        /\ BallotOf(a) \notin ballots
    BY <1>5 DEF Casts
  <2>2. \A n \in Node : CountOK(n)'
    BY <1>1, <1>5 DEF Casts, SameCounts, CountOK
  <2>3. \A p \in net' : IsAck(p) => p = a \/ (p \in net /\ BallotOf(p) # BallotOf(a))
    BY <1>1, <1>5, <2>1 DEF Casts
  <2>4. \A p \in net' : IsAck(p) => BallotOf(p) \in ballots' \ counted'[p.to]
    BY <1>1, <1>2, <2>1, <2>3
  <2> QED
    BY <1>1, <2>1, <2>2, <2>3, <2>4 DEF CountInv, IsAck
<1>6. ASSUME NEW a \in net, Counts(a) PROVE CountInv'
  <2> DEFINE n == a.to
             b == BallotOf(a)
  <2>1. n \in Node /\ IsAck(a) /\ b \in ballots \ counted[n] /\ ballots' = ballots
    BY <1>1, <1>2, <1>6 DEF Counts
  <2>2. b.for = n
    BY DEF BallotOf
  <2>3. counted' = [counted EXCEPT ![n] = @ \cup {b}]
    BY <1>6 DEF Counts
  <2>4. /\ nd'[n].authCount = nd[n].authCount + 1 /\ SameCounts(Node \ {n})
        /\ \A p \in net' : IsAck(p) => p \in net \ {a}
    BY <1>6 DEF Counts
  <2>5. \A p \in net' : IsAck(p) => BallotOf(p) # b
    BY <1>1, <2>1, <2>4
  <2> HIDE DEF n, b
  <2>6. /\ counted'[n] = counted[n] \cup {b} /\ counted' \in [Node -> SUBSET ballots]
        /\ \A x \in Node \ {n} : counted'[x] = counted[x]
    BY <1>1, <2>1, <2>3
  <2>7. CountOK(n)'
    <3>1. IsFiniteSet(counted[n]) /\ nd[n].authCount = Cardinality(counted[n])
      BY <1>1, <2>1 DEF CountOK
    <3>2. /\ IsFiniteSet(counted[n] \cup {b})
          /\ Cardinality(counted[n] \cup {b}) = Cardinality(counted[n]) + 1
      BY <2>1, <3>1, FS_AddElement
    <3> QED
      BY <1>1, <2>1, <2>2, <2>4, <2>6, <3>1, <3>2 DEF CountOK
  <2>8. \A x \in Node \ {n} : CountOK(x)'
    BY <1>1, <2>4, <2>6 DEF CountOK, SameCounts
  <2>9. ASSUME NEW p \in net', IsAck(p)
        PROVE  p \in net /\ BallotOf(p) \in ballots' \ counted'[p.to]
    <3>1. p \in net /\ BallotOf(p) # b /\ p.to \in Node
      BY <1>2, <2>4, <2>5, <2>9
    <3>2. BallotOf(p) \in ballots \ counted[p.to]
      BY <1>1, <2>9, <3>1
    <3>3. counted'[p.to] \subseteq counted[p.to] \cup {b}
      BY <2>6, <3>1
    <3> QED
      BY <2>1, <3>1, <3>2, <3>3
  <2> QED
    BY <1>1, <2>1, <2>6, <2>7, <2>8, <2>9 DEF CountInv, IsAck
<1> QED
  BY <1>3, <1>4, <1>5, <1>6 DEF VoteStep

-----------------------------------------------------------------------------
(* Majorities                                                              *)

\* Who counts a vote in an epoch counts the masters E of it, and so does who wins,
\* with no vote of an earlier election in its count.
AgreedStep(E) ==
    /\ \A n \in Node : \A b \in counted'[n] \ counted[n] : Electors(nd[n]) = E[b.epoch]
    /\ \A x \in elected' \ elected : Electors(nd[x.node]) = E[x.epoch] /\ Timely(x.node)

\* Every election was won with the votes of a majority of the masters E.
MajorityInv(E) ==
    \A x \in elected :
        Cardinality(E[x.epoch]) < 2 * Cardinality(Cast(ballots, x.node, x.epoch) \cap E[x.epoch])

LEMMA CastFinite ==
    ASSUME NEW n, NEW e, NEW S, NEW b
    PROVE  /\ IsFiniteSet(Cast(b, n, e) \cap S)
           /\ Cardinality(Cast(b, n, e) \cap S) \in Nat
<1>1. Cast(b, n, e) \cap S \in SUBSET Node /\ IsFiniteSet(Node)
  BY ClusterConstants DEF Cast
<1> QED
  BY <1>1, FS_Subset, FS_CardinalityType

LEMMA CastGrows ==
    ASSUME NEW n, NEW e, NEW S, NEW b, NEW c, b \subseteq c
    PROVE  /\ Cast(b, n, e) \subseteq Cast(c, n, e)
           /\ Cardinality(Cast(b, n, e) \cap S) <= Cardinality(Cast(c, n, e) \cap S)
<1>1. Cast(b, n, e) \subseteq Cast(c, n, e)
  BY DEF Cast
<1>2. Cast(b, n, e) \cap S \in SUBSET (Cast(c, n, e) \cap S)
  BY <1>1
<1>3. IsFiniteSet(Cast(c, n, e) \cap S)
  BY CastFinite
<1> QED
  BY <1>1, <1>2, <1>3, FS_Subset

\* Votes of one election are of as many masters.
LEMMA VotesOfMasters ==
    ASSUME ClusterInv, CountInv, NEW n \in Node, Timely(n), NEW S,
           \A b \in counted[n] : b.voter \in S
    PROVE  nd[n].authCount <= Cardinality(Cast(ballots, n, nd[n].authEpoch) \cap S)
<1> DEFINE e == nd[n].authEpoch
           T == Cast(ballots, n, e) \cap S
           f == [b \in counted[n] |-> b.voter]
<1>1. /\ nd[n].authCount = Cardinality(counted[n]) /\ counted[n] \subseteq ballots
      /\ \A b \in counted[n] : b.for = n
  BY DEF CountInv, CountOK
<1>2. ASSUME NEW b \in counted[n]
      PROVE  b = [voter |-> b.voter, epoch |-> e, for |-> n] /\ b.voter \in T
  <2>1. b \in ballots /\ b \in [voter : Node, epoch : Epoch, for : Node]
    BY <1>1 DEF ClusterInv, BallotOK
  <2>2. b.epoch = e /\ b.for = n
    BY <1>1 DEF Timely
  <2>3. b = [voter |-> b.voter, epoch |-> e, for |-> n] /\ b.voter \in Node
    BY <2>1, <2>2
  <2> QED
    BY <2>1, <2>3 DEF Cast
<1> HIDE DEF T
<1>3. f \in [counted[n] -> T]
  BY <1>2
<1>4. \A b, c \in counted[n] : f[b] = f[c] => b = c
  BY <1>2
<1> HIDE DEF f
<1>5. f \in Injection(counted[n], T)
  BY <1>3, <1>4 DEF Injection, IsInjective
<1>6. IsFiniteSet(T)
  BY CastFinite DEF T
<1> QED
  BY <1>1, <1>5, <1>6, FS_Injection DEF T

\* Who counts a vote counts it as one of the masters E.
LEMMA VotersNext ==
    ASSUME NEW E, ClusterInv, CountInv, VotersIn(E), VoteStep, AgreedStep(E)
    PROVE  VotersIn(E)'
<1> SUFFICES ASSUME NEW n \in Node, NEW b \in counted'[n], b \notin counted[n]
             PROVE  b.voter \in E[b.epoch]
  BY DEF VotersIn
<1>1. DOMAIN counted = Node
  BY DEF CountInv
<1>2. PICK p \in net : Counts(p) /\ p.to = n /\ b = BallotOf(p)
  BY <1>1 DEF VoteStep, NoVote, StartsOver, Casts, Counts
<1>3. b.voter \in Electors(nd[n])
  BY <1>2 DEF Counts, BallotOf
<1> QED
  BY <1>3 DEF AgreedStep

LEMMA QuorumIs ==
    ASSUME NEW r
    PROVE  /\ Size(r) = Cardinality(Electors(r)) /\ Size(r) \in Nat
           /\ Quorum(r) \in Nat /\ Size(r) < 2 * Quorum(r)
<1>1. Size(r) = Cardinality(Electors(r))
  BY DEF Size, Electors
<1>2. Electors(r) \in SUBSET Node /\ IsFiniteSet(Node)
  BY ClusterConstants DEF Electors
<1>3. Size(r) \in Nat
  BY <1>1, <1>2, FS_Subset, FS_CardinalityType
<1> HIDE DEF Size
<1>4. Quorum(r) \in Nat /\ Size(r) < 2 * Quorum(r)
  BY <1>3 DEF Quorum
<1> QED
  BY <1>1, <1>3, <1>4

LEMMA MajorityNext ==
    ASSUME NEW E \in [Epoch -> SUBSET Node], ClusterInv, OwnersInv, CountInv,
           VotersIn(E), MajorityInv(E), ElectionStep, AgreedStep(E)
    PROVE  MajorityInv(E)'
<1> SUFFICES ASSUME NEW x \in elected'
             PROVE  Cardinality(E[x.epoch]) <
                      2 * Cardinality(Cast(ballots', x.node, x.epoch) \cap E[x.epoch])
  BY DEF MajorityInv
<1> DEFINE S == E[x.epoch]
           b == Cardinality(Cast(ballots, x.node, x.epoch) \cap S)
           c == Cardinality(Cast(ballots', x.node, x.epoch) \cap S)
<1>1. b \in Nat /\ c \in Nat /\ b <= c
  BY CastFinite, CastGrows DEF ElectionStep
<1>2. CASE x \in elected
  <2>1. Cardinality(S) < 2 * b
    BY <1>2 DEF MajorityInv
  <2>2. S \in SUBSET Node /\ IsFiniteSet(Node)
    BY <1>2, ClusterConstants DEF OwnersInv
  <2>3. Cardinality(S) \in Nat
    BY <2>2, FS_Subset, FS_CardinalityType
  <2> HIDE DEF b, c, S
  <2>4. Cardinality(S) < 2 * c
    BY <1>1, <2>1, <2>3
  <2> QED
    BY <2>4 DEF c, S
<1>3. CASE x \notin elected
  <2> DEFINE n == x.node
  <2>1. /\ n \in Node /\ x.epoch = nd[n].authEpoch /\ nd[n].authCount >= Quorum(nd[n])
    BY <1>3 DEF ElectionStep, Victory
  <2>2. Electors(nd[n]) = S /\ Timely(n)
    BY <1>3, <2>1 DEF AgreedStep
  <2>3. nd[n].authCount <= b /\ nd[n].authCount \in Nat
    <3>1. nd[n].authCount \in Nat
      BY <2>1 DEF ClusterInv, NodeOK, Draft, Table
    <3>2. \A y \in counted[n] : y.voter \in S
      BY <2>1, <2>2 DEF VotersIn, Timely
    <3> HIDE DEF S, n
    <3> QED
      BY <2>1, <2>2, <3>1, <3>2, VotesOfMasters DEF n
  <2>4. /\ Cardinality(S) \in Nat /\ Quorum(nd[n]) \in Nat /\ Cardinality(S) < 2 * Quorum(nd[n])
    BY <2>2, QuorumIs
  <2> HIDE DEF b, c, S
  <2>5. Cardinality(S) < 2 * c
    BY <1>1, <2>1, <2>3, <2>4
  <2> QED
    BY <2>5 DEF c, S
<1> QED
  BY <1>2, <1>3

\* Two majorities of the same masters share one, who votes once.
LEMMA MajoritiesAgree ==
    ASSUME NEW E \in [Epoch -> SUBSET Node], ClusterInv, OwnersInv, MajorityInv(E)
    PROVE  ElectionSafety
<1> SUFFICES ASSUME NEW x \in elected, NEW y \in elected, x.epoch = y.epoch
             PROVE  x.node = y.node
  BY DEF ElectionSafety
<1> DEFINE e == x.epoch
           S == E[e]
           A == Cast(ballots, x.node, e) \cap S
           B == Cast(ballots, y.node, e) \cap S
<1>1. S \in SUBSET Node /\ IsFiniteSet(Node)
  BY ClusterConstants DEF OwnersInv
<1>2. IsFiniteSet(S) /\ Cardinality(S) \in Nat
  BY <1>1, FS_Subset, FS_CardinalityType
<1>3. Cardinality(A) \in Nat /\ Cardinality(B) \in Nat
  BY CastFinite
<1>4. Cardinality(S) < 2 * Cardinality(A) /\ Cardinality(S) < 2 * Cardinality(B)
  BY DEF MajorityInv
<1>5. A \subseteq S /\ B \subseteq S
  OBVIOUS
<1>6. ASSUME NEW v \in A \cap B PROVE x.node = y.node
  <2>1. /\ [voter |-> v, epoch |-> e, for |-> x.node] \in ballots
        /\ [voter |-> v, epoch |-> e, for |-> y.node] \in ballots
    BY DEF Cast
  <2> QED
    BY <2>1 DEF ClusterInv, OneVotePerEpoch
<1> HIDE DEF S, A, B
<1>7. Cardinality(A) + Cardinality(B) > Cardinality(S)
  BY <1>2, <1>3, <1>4
<1>8. A \cap B # {}
  BY <1>2, <1>5, <1>7, FS_MajoritiesIntersect
<1> QED
  BY <1>6, <1>8

-----------------------------------------------------------------------------
(* The theorems about elections                                            *)

LEMMA ElectionInit ==
    ASSUME Init
    PROVE  CandidateInv /\ OwnersInv /\ CountInv
<1>1. /\ nd = [n \in Node |-> Fresh] /\ net = {} /\ ballots = {} /\ elected = {} /\ bumped = {}
      /\ counted = [n \in Node |-> {}]
  BY DEF Init
<1>2. ASSUME NEW n \in Node PROVE CandidateOK(n) /\ OwnerOK(n) /\ nd[n].authCount = 0
  <2>1. /\ nd[n].savedEpoch = StartEpoch /\ nd[n].auth = "none" /\ nd[n].authCount = 0
        /\ nd[n].cfg = ConfigEpoch /\ nd[n].slots = Owner
    BY <1>1 DEF Fresh, StartEpoch
  <2>2. StartEpoch \in Nat
    BY StartEpochIs
  <2>3. StartEpoch <= nd[n].savedEpoch
    BY <2>1, <2>2
  <2> QED
    BY <2>1, <2>3 DEF CandidateOK, OwnerOK
<1>3. CandidateInv /\ OwnersInv
  BY <1>1, <1>2 DEF CandidateInv, OwnersInv
<1>4. \A n \in Node : CountOK(n)
  <2>1. IsFiniteSet({}) /\ Cardinality({}) = 0
    BY FS_EmptySet
  <2> QED
    BY <1>1, <1>2, <2>1 DEF CountOK
<1> QED
  BY <1>1, <1>3, <1>4 DEF CountInv

\* The election a slave asks for is of an epoch later than all of the start, and
\* its count is of votes that were cast for it, each counted once; a node serves
\* slots of others only under an epoch it won or made.
THEOREM ElectionInvariant == Spec => [](CandidateInv /\ OwnersInv /\ CountInv)
<1>1. Init => CandidateInv /\ OwnersInv /\ CountInv
  BY ElectionInit
<1>2. ClusterInv /\ ClusterInv' /\ CandidateInv /\ OwnersInv /\ CountInv /\ [Next]_vars
         => (CandidateInv /\ OwnersInv /\ CountInv)'
  <2> SUFFICES ASSUME ClusterInv, ClusterInv', CandidateInv, OwnersInv, CountInv, [Next]_vars
               PROVE  CandidateInv' /\ OwnersInv' /\ CountInv'
    OBVIOUS
  <2>1. ElectionStep
    BY ElectionNext
  <2>2. CandidateInv' /\ VoteStep
    BY <2>1 DEF ElectionStep
  <2> QED
    BY <2>1, <2>2, OwnersNext, CountNext
<1> QED
  BY <1>1, <1>2, ClusterInvariant, PTL DEF Spec

\* The tables, the packets and the ballots have their types; in particular no
\* epoch of a table is above the bound, and no node is its own master's slave.
THEOREM ClusterTypeCorrect == Spec => []TypeOK
<1>1. ClusterInv /\ CountInv => TypeOK
  <2> SUFFICES ASSUME ClusterInv, CountInv PROVE TypeOK
    OBVIOUS
  <2>1. \A n \in Node : nd[n] \in NodeState
    <3> SUFFICES ASSUME NEW n \in Node PROVE nd[n] \in NodeState
      OBVIOUS
    <3>1. nd[n] \in Table /\ NodeOK(n, nd[n])
      BY DEF ClusterInv, NodeOK, Draft
    <3>2. PICK r : r = nd[n]
      OBVIOUS
    <3>3. /\ r.epoch \in Nat /\ r.savedEpoch \in Nat /\ r.vote \in Nat /\ r.savedVote \in Nat
          /\ r.authEpoch \in Nat /\ r.cfg \in [Node -> Nat]
      BY <3>1, <3>2 DEF Table
    <3>4. /\ r.epoch \in Epoch /\ r.savedEpoch \in Epoch /\ r.vote \in Epoch
          /\ r.savedVote \in Epoch /\ r.authEpoch \in Epoch /\ r.cfg \in [Node -> Epoch]
      BY <3>1, <3>2, <3>3, ClusterConstants DEF NodeOK, Draft, Epoch
    <3> QED
      BY <3>1, <3>2, <3>4 DEF Table, NodeState
  <2>2. \A p \in net : /\ p.hdr \in Header /\ p.to \in Node \ {p.hdr.from}
                       /\ p.hdr.type = "update" => p.data \in Claim
    BY DEF ClusterInv, PacketOK, HeaderOK
  <2>3. ballots \subseteq [voter : Node, epoch : Epoch, for : Node]
    BY DEF ClusterInv, BallotOK
  <2>4. nd \in [Node -> NodeState]
    BY <2>1 DEF ClusterInv
  <2>5. counted \in [Node -> SUBSET [voter : Node, epoch : Epoch, for : Node]]
    BY <2>3 DEF CountInv
  <2> QED
    BY <2>2, <2>3, <2>4, <2>5 DEF TypeOK, ClusterInv
<1> QED
  BY <1>1, ClusterInvariant, ElectionInvariant, PTL

\* clusterHandleSlaveFailover wins with failover_auth_count only when a majority
\* of as many masters as it counts have voted for it in that very epoch, unless an
\* answer of an earlier election came while the count was new and
\* failover_auth_epoch was not: whatever else was lost, delayed or asked again, no
\* vote is counted twice.
THEOREM WinnersHaveMajorities == Spec => ElectedByMajority
<1> DEFINE A == \A x \in elected' \ elected : Timely(x.node) =>
                    2 * Cardinality(Backers(x.node, x.epoch)) > Size(nd[x.node])
           Inv == ClusterInv /\ CandidateInv /\ OwnersInv /\ CountInv
<1>1. Spec => []Inv
  BY ClusterInvariant, ElectionInvariant, PTL
<1>2. Inv /\ [Next]_vars => [A]_vars
  <2> SUFFICES ASSUME ClusterInv, CandidateInv, OwnersInv, CountInv, [Next]_vars,
                      NEW x \in elected' \ elected, Timely(x.node)
               PROVE  2 * Cardinality(Backers(x.node, x.epoch)) > Size(nd[x.node])
    OBVIOUS
  <2> DEFINE n == x.node
             b == Cardinality(Backers(n, x.epoch))
  <2>1. ElectionStep
    BY ElectionNext
  <2>2. n \in Node /\ x.epoch = nd[n].authEpoch /\ nd[n].authCount >= Quorum(nd[n])
    BY <2>1 DEF ElectionStep, Victory
  <2>3. Backers(n, x.epoch) = Cast(ballots, n, x.epoch) \cap Node
    BY DEF Backers, Cast
  <2>4. b \in Nat
    BY <2>3, CastFinite
  <2>5. nd[n].authCount \in Nat
    BY <2>2 DEF ClusterInv, NodeOK, Draft, Table
  <2>6. nd[n].authCount <= b
    <3>1. \A y \in counted[n] : y.voter \in Node
      BY <2>2 DEF CountInv, ClusterInv, BallotOK
    <3> HIDE DEF n
    <3> QED
      BY <2>2, <2>3, <3>1, VotesOfMasters DEF n
  <2>7. Size(nd[n]) \in Nat /\ Quorum(nd[n]) \in Nat /\ Size(nd[n]) < 2 * Quorum(nd[n])
    BY QuorumIs
  <2> HIDE DEF b
  <2>8. 2 * b > Size(nd[n])
    BY <2>2, <2>4, <2>5, <2>6, <2>7
  <2> QED
    BY <2>8 DEF b
<1> HIDE DEF A, Inv
<1>3. Spec => [][A]_vars
  BY <1>1, <1>2, PTL DEF Spec
<1> QED
  BY <1>3 DEF A, ElectedByMajority

\* Two nodes that both serve a slot in their own tables have different epochs,
\* apart from the ones made without consensus, as long as no epoch was won by
\* two: no order of packets, restart or operator's command gives a node slots
\* under an epoch it neither won nor made.
THEOREM OwnersApart == Spec => []OwnersDistinct
<1>1. ClusterInv /\ OwnersInv => OwnersDistinct
  <2> SUFFICES ASSUME ClusterInv, OwnersInv, ElectionSafety,
                      NEW m \in Node, NEW n \in Node, NEW j \in Slot,
                      m # n, nd[m].slots[j] = m, nd[n].slots[j] = n,
                      nd[m].cfg[m] = nd[n].cfg[n], nd[n].cfg[n] \notin bumped
               PROVE  FALSE
    BY DEF OwnersDistinct
  <2>1. ASSUME NEW a \in Node, NEW b \in Node, a # b, Owner[j] # a, nd[a].slots[j] = a,
               nd[a].cfg[a] = nd[b].cfg[b], nd[a].cfg[a] \notin bumped
        PROVE  FALSE
    <3> DEFINE e == nd[a].cfg[a]
               x == [node |-> a, epoch |-> e]
               y == [node |-> b, epoch |-> e]
    <3>1. e \in Won(a)
      BY <2>1 DEF OwnersInv, OwnerOK
    <3>2. x \in elected
      BY <3>1 DEF Won
    <3>3. StartEpoch < e
      BY <3>2 DEF OwnersInv
    <3>4. e \in {ConfigEpoch[b]} \cup Won(b)
      BY <2>1 DEF OwnersInv, OwnerOK
    <3>5. e # ConfigEpoch[b]
      <4>1. StartEpoch \in Nat /\ ConfigEpoch[b] <= StartEpoch /\ ConfigEpoch[b] \in Nat
        BY StartEpochIs, ClusterConstants
      <4> QED
        BY <3>3, <4>1
    <3>6. y \in elected
      BY <3>4, <3>5 DEF Won
    <3> QED
      BY <2>1, <3>2, <3>6 DEF ElectionSafety
  <2>2. Owner[j] # m \/ Owner[j] # n
    OBVIOUS
  <2> QED
    BY <2>1, <2>2
<1> QED
  BY <1>1, ClusterInvariant, ElectionInvariant, PTL

\* When it is so that no two slaves win the same epoch, as the comment of
\* clusterHandleConfigEpochCollision says: when all slaves that count votes in an
\* epoch have the same masters with slots in their tables, and none wins with an
\* answer that an earlier election left over.  Without the first the majorities
\* are of different sets and need not meet, without the second they are none.
THEOREM ElectionsSafe ==
    ASSUME NEW E \in [Epoch -> SUBSET Node]
    PROVE  Spec /\ [][AgreedStep(E)]_vars => []ElectionSafety
<1> DEFINE Inv == ClusterInv /\ CandidateInv /\ OwnersInv /\ CountInv
           Votes == VotersIn(E) /\ MajorityInv(E)
<1>1. Spec => []Inv
  BY ClusterInvariant, ElectionInvariant, PTL
<1>2. Init => Votes
  BY DEF Init, VotersIn, MajorityInv
<1>3. Inv /\ Votes /\ [Next]_vars /\ [AgreedStep(E)]_vars => Votes'
  <2> SUFFICES ASSUME ClusterInv, CandidateInv, OwnersInv, CountInv, VotersIn(E), MajorityInv(E),
                      [Next]_vars, [AgreedStep(E)]_vars
               PROVE  VotersIn(E)' /\ MajorityInv(E)'
    OBVIOUS
  <2>1. ElectionStep
    BY ElectionNext
  <2>2. VoteStep
    BY <2>1 DEF ElectionStep
  <2>3. CASE AgreedStep(E)
    BY <2>1, <2>2, <2>3, VotersNext, MajorityNext
  <2>4. CASE UNCHANGED vars
    BY <2>4 DEF vars, VotersIn, MajorityInv
  <2> QED
    BY <2>3, <2>4
<1>4. Inv /\ Votes => ElectionSafety
  BY MajoritiesAgree
<1> HIDE DEF Inv, Votes
<1> QED
  BY <1>1, <1>2, <1>3, <1>4, PTL DEF Spec
=============================================================================
