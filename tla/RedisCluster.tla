---------------------------- MODULE RedisCluster ----------------------------
(***************************************************************************)
(* Who serves the hash slots of a Redis Cluster, and how a slave takes     *)
(* them over: the epochs, votes and slot tables that the nodes of          *)
(* tools/redis-4.0.9/src/cluster.c keep and exchange.                      *)
(*                                                                         *)
(* nd[n] is what node n believes.  Each C function is an operator on that  *)
(* record; an action is a callback of the event loop together with the     *)
(* clusterBeforeSleep that follows it, so that what a callback decides is  *)
(* in nodes.conf before any packet about it leaves.  Time is a choice, and *)
(* so is whether another node is flagged FAIL.                             *)
(***************************************************************************)
EXTENDS Integers, FiniteSets, FiniteSetsExt, Functions

CONSTANTS
    Node,        \* the nodes, who all know each other
    Slot,        \* the hash slots
    Owner,       \* the master of every slot at the start
    MasterOf,    \* the master of every slave at the start; None for a master
    ConfigEpoch, \* the configuration epochs at the start
    Id,          \* the order of the node names
    None,        \* NULL
    MaxEpoch,    \* bound on currentEpoch
    MaxUpdates,  \* bound on the UPDATE packets under way
    Links,       \* bound: the pairs of nodes that reach each other
    Operated,    \* bound: the nodes an operation other than an election happens to
    Cost,        \* bound: what each of OpKinds takes off
    MaxOps       \* bound: the sum of the costs

OpKinds == {"election", "delay", "failover", "force", "takeover", "migrate", "restart"}

ASSUME ClusterConstants ==
    /\ IsFiniteSet(Node) /\ IsFiniteSet(Slot) /\ None \notin Node
    /\ MasterOf \in [Node -> Node \cup {None}]
    /\ \A n \in Node : MasterOf[n] # None => MasterOf[MasterOf[n]] = None
    /\ Owner \in [Slot -> Node] /\ \A j \in Slot : MasterOf[Owner[j]] = None
    /\ ConfigEpoch \in [Node -> 0..MaxEpoch]
    /\ Id \in [Node -> Nat] /\ \A m, n \in Node : Id[m] = Id[n] => m = n
    /\ MaxEpoch \in Nat /\ MaxOps \in Nat /\ MaxUpdates \in Nat /\ Cost \in [OpKinds -> Nat]
    /\ Operated \subseteq Node /\ Links \subseteq Node \X Node

VARIABLES
    nd,       \* what every node believes
    net,      \* the packets under way
    ops,      \* the cost of the operations so far
    ballots,  \* every vote ever cast: voter, epoch, candidate
    counted,  \* the votes in the failover_auth_count of every node
    elected,  \* every election ever won: node, epoch
    bumped    \* the epochs made without consensus

vars == <<nd, net, ops, ballots, counted, elected, bumped>>

-----------------------------------------------------------------------------
\* The table of a node: who is a master, who serves what.

IsMaster(r, n) == r.master[n] = None
SlotsOf(r, n) == {j \in Slot : r.slots[j] = n}
SlavesOf(r, n) == {x \in Node : r.master[x] = n}

\* The masters that serve a slot, counted by clusterUpdateState.
Size(r) == Cardinality({n \in Node : IsMaster(r, n) /\ SlotsOf(r, n) # {}})

\* Mutant: currentEpoch is not saved with the rest.
SaveConfigWithoutEpoch(r) == [r EXCEPT !.savedVote = r.vote, !.savedMaster = r.master]

\* clusterSaveConfig: epochs and slots are saved whenever they change; what can be
\* ahead of the file is currentEpoch, lastVoteEpoch and, after a migration, the
\* node's own master.
SaveConfig(r) ==
    [r EXCEPT !.savedEpoch = r.epoch, !.savedVote = r.vote, !.savedMaster = r.master]

GetMaxEpoch(r) == Max({r.cfg[n] : n \in Node} \cup {r.epoch})

SetNodeAsMaster(r, n) == [r EXCEPT !.master[n] = None]

DelNodeSlots(r, n) ==
    [r EXCEPT !.slots = [j \in Slot |-> IF @[j] = n THEN None ELSE @[j]]]

ResetManualFailover(r) == [r EXCEPT !.mf = "none", !.mfSlave = None]

\* clusterSetMaster: n is to replicate m.
SetMaster(r, n, m) == ResetManualFailover([r EXCEPT !.master[n] = m])

\* Mutant: the claim is taken whatever its epoch.
UpdateSlotsConfigWithAnyEpoch(r, n, m, cfg, slots) ==
    LET cur   == IF IsMaster(r, n) THEN n ELSE r.master[n]
        taken == {j \in slots : r.slots[j] # m}
        q     == [r EXCEPT !.slots = [j \in Slot |-> IF j \in taken THEN m ELSE @[j]]]
    IN  IF m = n THEN r
        ELSE IF SlotsOf(q, cur) = {} /\ \E j \in taken : r.slots[j] = cur
             THEN SetMaster(q, n, m) ELSE q

\* Node m claims slots under epoch cfg: n takes over what is newer than its own
\* table, and if its master (or itself) is left without slots it turns into a
\* replica of m.
UpdateSlotsConfigWith(r, n, m, cfg, slots) ==
    LET cur   == IF IsMaster(r, n) THEN n ELSE r.master[n]
        taken == {j \in slots : /\ r.slots[j] # m
                                /\ r.slots[j] = None \/ r.cfg[r.slots[j]] < cfg}
        q     == [r EXCEPT !.slots = [j \in Slot |-> IF j \in taken THEN m ELSE @[j]]]
    IN  IF m = n THEN r
        ELSE IF SlotsOf(q, cur) = {} /\ \E j \in taken : r.slots[j] = cur
             THEN SetMaster(q, n, m) ELSE q

-----------------------------------------------------------------------------
\* Epochs.

\* The epochs of two masters collide: the one with the smaller name moves on.
HandleConfigEpochCollision(r, n, m) ==
    IF r.cfg[m] = r.cfg[n] /\ IsMaster(r, m) /\ IsMaster(r, n) /\ Id[n] < Id[m]
    THEN [r EXCEPT !.epoch = @ + 1, !.cfg[n] = r.epoch + 1] ELSE r

BumpConfigEpochWithoutConsensus(r, n) ==
    IF r.cfg[n] = 0 \/ r.cfg[n] # GetMaxEpoch(r)
    THEN [r EXCEPT !.epoch = @ + 1, !.cfg[n] = r.epoch + 1] ELSE r

-----------------------------------------------------------------------------
\* Packets.

\* clusterBuildMessageHdr: a slave speaks for its master.
BuildMessageHdr(r, n, type) ==
    LET m == IF IsMaster(r, n) THEN n ELSE r.master[n]
    IN  [type |-> type, from |-> n, slaveof |-> r.master[n], epoch |-> r.epoch,
         cfg |-> r.cfg[m], slots |-> SlotsOf(r, m),
         paused |-> IsMaster(r, n) /\ r.mf # "none"]

Packet(r, n, type, to, data) == [hdr |-> BuildMessageHdr(r, n, type), to |-> to, data |-> data]

\* clusterSendUpdate: n tells `to' what it knows about x.
UpdatePacket(r, n, x, to) ==
    Packet(r, n, "update", to, [about |-> x, cfg |-> r.cfg[x], slots |-> SlotsOf(r, x)])

\* What every packet of a known sender brings with it.
ProcessHeader(r, n, h) ==
    LET q == [r EXCEPT !.epoch = Max({@, h.epoch}), !.cfg[h.from] = Max({@, h.cfg}),
                       !.mf = IF @ = "asked" /\ r.master[n] = h.from /\ h.paused
                              THEN "offset" ELSE @]
    IN  IF q.cfg = r.cfg THEN q ELSE SaveConfig(q)

\* The sender changed its role or its master.
SwitchRole(r, h) ==
    IF h.slaveof = None THEN SetNodeAsMaster(r, h.from)
    ELSE [(IF IsMaster(r, h.from) THEN DelNodeSlots(r, h.from) ELSE r)
             EXCEPT !.master[h.from] = h.slaveof]

\* PING, PONG and MEET.
ProcessPing(r, n, h) ==
    LET q1 == SwitchRole(ProcessHeader(r, n, h), h)
        sm == IF h.slaveof = None THEN h.from ELSE h.slaveof
        dirty == SlotsOf(q1, sm) # h.slots
        q2 == IF h.slaveof = None /\ dirty
              THEN UpdateSlotsConfigWith(q1, n, h.from, h.cfg, h.slots) ELSE q1
        q3 == IF h.cfg = q2.cfg[n] THEN HandleConfigEpochCollision(q2, n, h.from) ELSE q2
    IN  [rec |-> IF [q3 EXCEPT !.epoch = r.epoch, !.mf = r.mf] = r THEN q3 ELSE SaveConfig(q3),
         newer |-> IF ~dirty THEN {}
                   ELSE {q2.slots[j] : j \in {k \in h.slots :
                            /\ q2.slots[k] \notin {h.from, None}
                            /\ q2.cfg[q2.slots[k]] > h.cfg}}]

ProcessUpdate(r, n, h, u) ==
    LET q == ProcessHeader(r, n, h)
        m == [SetNodeAsMaster(q, u.about) EXCEPT !.cfg[u.about] = u.cfg]
    IN  IF q.cfg[u.about] >= u.cfg THEN q
        ELSE SaveConfig(UpdateSlotsConfigWith(m, n, u.about, u.cfg, u.slots))

\* Whether n may vote for the sender of h.  A master that does not know the
\* sender's master as FAIL yet, or voted about it lately, refuses too: to the
\* sender that is a request that never arrives, to itself a header like another.
MayVote(r, n, h, force) ==
    LET m == r.master[h.from]
    IN  /\ IsMaster(r, n) /\ SlotsOf(r, n) # {}
        /\ h.epoch >= r.epoch
        /\ r.vote # r.epoch
        /\ m # None
        /\ m # n \/ force
        /\ \A j \in h.slots : r.slots[j] # None => r.cfg[r.slots[j]] <= h.cfg

\* Mutant: the answer leaves before lastVoteEpoch is saved.
VoteUnsaved(r) == [r EXCEPT !.vote = r.epoch]

Vote(r) == SaveConfig([r EXCEPT !.vote = r.epoch])

\* A vote counts when its sender is a master with slots that has reached the
\* epoch of the election.
CountVote(r, h) ==
    IF IsMaster(r, h.from) /\ SlotsOf(r, h.from) # {} /\ h.epoch >= r.authEpoch
    THEN [r EXCEPT !.authCount = @ + 1] ELSE r

-----------------------------------------------------------------------------
\* The slave's side of a failover.

\* clusterHandleSlaveFailover, up to the conditions that are a choice.
CanFailover(r, n) == ~IsMaster(r, n) /\ SlotsOf(r, r.master[n]) # {}

Quorum(r) == Size(r) \div 2 + 1

FailoverReplaceYourMaster(r, n) ==
    LET old == r.master[n]
    IN  SaveConfig(ResetManualFailover(
            [SetNodeAsMaster(r, n) EXCEPT
                !.slots = [j \in Slot |-> IF @[j] = old THEN n ELSE @[j]]]))

-----------------------------------------------------------------------------
\* Actions.

Fresh ==
    [epoch |-> Max(Range(ConfigEpoch)), savedEpoch |-> Max(Range(ConfigEpoch)),
     vote |-> 0, savedVote |-> 0, cfg |-> ConfigEpoch, slots |-> Owner, master |-> MasterOf,
     savedMaster |-> MasterOf, auth |-> "none", authCount |-> 0, authEpoch |-> 0,
     mf |-> "none", mfSlave |-> None]

Init ==
    /\ nd = [n \in Node |-> Fresh]
    /\ net = {} /\ ops = 0
    /\ ballots = {} /\ counted = [n \in Node |-> {}] /\ elected = {} /\ bumped = {}

Operation(kind) == ops + Cost[kind] <= MaxOps /\ ops' = ops + Cost[kind]

Becomes(n, r) == nd' = [nd EXCEPT ![n] = r]

\* A packet that is lost with its connection is one that never arrives.
Send(old, new) == net' = old \cup new

\* n processes the header h of another node.  An UPDATE too many is lost.
Updates(packets) == {p \in packets : p.hdr.type = "update"}
Receive(n, h, rest) ==
    LET o == ProcessPing(nd[n], n, h)
    IN  /\ o.rec.epoch <= MaxEpoch
        /\ Becomes(n, o.rec)
        /\ IF o.newer = {} \/ Cardinality(Updates(rest)) = MaxUpdates THEN net' = rest
           ELSE \E x \in o.newer : Send(rest, {UpdatePacket(o.rec, n, x, h.from)})
        /\ bumped' = IF o.rec.epoch > Max({nd[n].epoch, h.epoch})
                     THEN bumped \cup {o.rec.epoch} ELSE bumped
        /\ UNCHANGED <<ballots, counted, elected>>

\* n sends its header to m, in a PING of its own or in answer to one; it arrives
\* at once, or much later.  One that brings nothing new is no step.
Ping(n, m) ==
    /\ m # n /\ <<n, m>> \in Links
    /\ Receive(m, BuildMessageHdr(nd[n], n, "ping"), net)
    /\ <<nd, net>>' # <<nd, net>>
    /\ UNCHANGED ops

DelayedPing(n, m) ==
    /\ m # n /\ <<n, m>> \in Links /\ Operation("delay")
    /\ net' = net \cup {Packet(nd[n], n, "ping", m, None)}
    /\ UNCHANGED <<nd, ballots, counted, elected, bumped>>

ReceivePing(p) ==
    /\ p.hdr.type = "ping"
    /\ Receive(p.to, p.hdr, net \ {p})
    /\ UNCHANGED ops

ReceiveUpdate(p) ==
    /\ p.hdr.type = "update"
    /\ Becomes(p.to, ProcessUpdate(nd[p.to], p.to, p.hdr, p.data))
    /\ net' = net \ {p}
    /\ UNCHANGED <<ops, ballots, counted, elected, bumped>>

\* clusterSendFailoverAuthIfNeeded
ReceiveAuthRequest(p) ==
    /\ p.hdr.type = "auth_request"
    /\ LET n == p.to
           q == ProcessHeader(nd[n], n, p.hdr)
       IN  IF MayVote(q, n, p.hdr, p.data.force)
           THEN /\ Becomes(n, Vote(q))
                /\ Send(net \ {p}, {Packet(Vote(q), n, "auth_ack", p.hdr.from, None)})
                /\ ballots' = ballots \cup {[voter |-> n, epoch |-> q.epoch, for |-> p.hdr.from]}
           ELSE Becomes(n, q) /\ net' = net \ {p} /\ UNCHANGED ballots
    /\ UNCHANGED <<ops, counted, elected, bumped>>

\* The vote an answer brings: the voter speaks in the epoch it has voted in.
BallotOf(p) == [voter |-> p.hdr.from, epoch |-> p.hdr.epoch, for |-> p.to]

\* The answer to a request arrives, whatever the slave has done since it asked.
ReceiveAuthAck(p) ==
    /\ p.hdr.type = "auth_ack"
    /\ LET n == p.to
           q == ProcessHeader(nd[n], n, p.hdr)
       IN  /\ Becomes(n, CountVote(q, p.hdr))
           /\ counted' = IF CountVote(q, p.hdr) = q THEN counted
                         ELSE [counted EXCEPT ![n] = @ \cup {BallotOf(p)}]
    /\ net' = net \ {p}
    /\ UNCHANGED <<ops, ballots, elected, bumped>>

\* Mutant: the votes of the last election are kept.
ScheduleElectionKeeping(n) ==
    /\ CanFailover(nd[n], n) /\ nd[n].epoch < MaxEpoch /\ Operation("election")
    /\ Becomes(n, [nd[n] EXCEPT !.auth = "scheduled"])
    /\ counted' = [counted EXCEPT ![n] = {}]
    /\ UNCHANGED <<net, ballots, elected, bumped>>

\* The first call after auth_retry_time: the election is scheduled, and the count
\* begins while failover_auth_epoch is still that of the last one.
ScheduleElection(n) ==
    /\ CanFailover(nd[n], n) /\ nd[n].epoch < MaxEpoch /\ Operation("election")
    /\ Becomes(n, [nd[n] EXCEPT !.authCount = 0, !.auth = "scheduled"])
    /\ counted' = [counted EXCEPT ![n] = {}]
    /\ UNCHANGED <<net, ballots, elected, bumped>>

\* clusterRequestFailoverAuth; a slave does nothing with it but note the epoch,
\* as it does with a PING.
RequestFailoverAuth(n) ==
    LET r == SaveConfig([nd[n] EXCEPT !.epoch = @ + 1, !.authEpoch = nd[n].epoch + 1,
                                      !.auth = "sent"])
    IN  /\ CanFailover(nd[n], n) /\ nd[n].auth = "scheduled" /\ nd[n].epoch < MaxEpoch
        /\ Becomes(n, r)
        /\ Send(net, {Packet(r, n, "auth_request", m, [force |-> r.mf # "none"])
                         : m \in {x \in Node : IsMaster(nd[x], x) /\ <<n, x>> \in Links}})
        /\ UNCHANGED <<ops, ballots, counted, elected, bumped>>

\* Mutant: the winner keeps its old configuration epoch.
WinElectionOldEpoch(n) ==
    /\ CanFailover(nd[n], n) /\ nd[n].auth = "sent" /\ nd[n].authCount >= Quorum(nd[n])
    /\ Becomes(n, FailoverReplaceYourMaster(nd[n], n))
    /\ elected' = elected \cup {[node |-> n, epoch |-> nd[n].authEpoch]}
    /\ UNCHANGED <<net, ops, ballots, counted, bumped>>

\* The quorum is reached before auth_timeout.
WinElection(n) ==
    /\ CanFailover(nd[n], n) /\ nd[n].auth = "sent" /\ nd[n].authCount >= Quorum(nd[n])
    /\ Becomes(n, FailoverReplaceYourMaster(
                     [nd[n] EXCEPT !.cfg[n] = Max({@, nd[n].authEpoch})], n))
    /\ elected' = elected \cup {[node |-> n, epoch |-> nd[n].authEpoch]}
    /\ UNCHANGED <<net, ops, ballots, counted, bumped>>

\* CLUSTER FAILOVER; an answer of the paused master comes with its header.
FailoverCommand(n) ==
    /\ ~IsMaster(nd[n], n) /\ <<n, nd[n].master[n]>> \in Links /\ Operation("failover")
    /\ Becomes(n, [ResetManualFailover(nd[n]) EXCEPT !.mf = "asked"])
    /\ Send(net, {Packet(nd'[n], n, "mfstart", nd[n].master[n], None)})
    /\ UNCHANGED <<ballots, counted, elected, bumped>>

ReceiveMFStart(p) ==
    /\ p.hdr.type = "mfstart"
    /\ LET q == ProcessHeader(nd[p.to], p.to, p.hdr)
       IN  Becomes(p.to, IF q.master[p.hdr.from] = p.to
                         THEN [q EXCEPT !.mf = "asked", !.mfSlave = p.hdr.from] ELSE q)
    /\ net' = net \ {p}
    /\ UNCHANGED <<ops, ballots, counted, elected, bumped>>

\* clusterHandleManualFailover: the slave has read all its master has written.
ManualFailoverCanStart(n) ==
    /\ ~IsMaster(nd[n], n) /\ nd[n].mf = "offset"
    /\ Becomes(n, [nd[n] EXCEPT !.mf = "can"])
    /\ UNCHANGED <<net, ops, ballots, counted, elected, bumped>>

ManualFailoverTimeout(n) ==
    /\ nd[n].mf # "none"
    /\ Becomes(n, ResetManualFailover(nd[n]))
    /\ UNCHANGED <<net, ops, ballots, counted, elected, bumped>>

\* CLUSTER FAILOVER FORCE
FailoverForce(n) ==
    /\ ~IsMaster(nd[n], n) /\ Operation("force")
    /\ Becomes(n, [ResetManualFailover(nd[n]) EXCEPT !.mf = "can"])
    /\ UNCHANGED <<net, ballots, counted, elected, bumped>>

\* CLUSTER FAILOVER TAKEOVER
FailoverTakeover(n) ==
    LET r == BumpConfigEpochWithoutConsensus(nd[n], n)
    IN  /\ ~IsMaster(nd[n], n) /\ nd[n].epoch < MaxEpoch /\ Operation("takeover")
        /\ Becomes(n, FailoverReplaceYourMaster(r, n))
        /\ bumped' = bumped \cup {r.cfg[n]}
        /\ UNCHANGED <<net, ballots, counted, elected>>

\* clusterHandleSlaveMigration: of the slaves of the masters that have the most,
\* the one with the smallest name moves to an orphaned master.  Which slaves are
\* flagged FAIL is a choice.
SlaveMigration(n, m) ==
    LET r == nd[n]
        masters == {x \in Node : IsMaster(r, x)}
    IN  /\ ~IsMaster(r, n) /\ Operation("migrate")
        /\ IsMaster(r, m) /\ SlotsOf(r, m) # {}
        /\ \E failed \in SUBSET (Node \ {n}) :
              LET okslaves(x) == Cardinality(SlavesOf(r, x) \ failed)
                  most == Max({okslaves(x) : x \in masters})
              IN  /\ okslaves(m) = 0
                  /\ most >= 2 /\ okslaves(r.master[n]) = most
                  /\ \A x \in masters : okslaves(x) = most
                        => \A y \in SlavesOf(r, x) : Id[n] <= Id[y]
        /\ Becomes(n, SetMaster(r, n, m))
        /\ UNCHANGED <<net, ballots, counted, elected, bumped>>

\* The process dies and comes back with what nodes.conf holds.  What was under
\* way to it is lost, what it had sent is not.
Restart(n) ==
    /\ Operation("restart")
    /\ Becomes(n, [nd[n] EXCEPT
          !.epoch = Max({nd[n].cfg[m] : m \in Node} \cup {nd[n].savedEpoch}),
          !.vote = nd[n].savedVote, !.master = nd[n].savedMaster,
          !.auth = "none", !.authCount = 0, !.authEpoch = 0,
          !.mf = "none", !.mfSlave = None])
    /\ net' = {p \in net : p.to # n}
    /\ counted' = [counted EXCEPT ![n] = {}]
    /\ UNCHANGED <<ballots, elected, bumped>>

Next ==
    \/ \E n \in Node : \/ ScheduleElection(n) \/ RequestFailoverAuth(n)
                       \/ WinElection(n)
                       \/ ManualFailoverCanStart(n) \/ ManualFailoverTimeout(n)
    \/ \E n \in Operated : \/ FailoverCommand(n) \/ FailoverForce(n) \/ FailoverTakeover(n)
                           \/ Restart(n)
                           \/ \E m \in Node : DelayedPing(n, m) \/ SlaveMigration(n, m)
    \/ \E n, m \in Node : Ping(n, m)
    \/ \E p \in net : \/ ReceivePing(p) \/ ReceiveUpdate(p)
                      \/ ReceiveAuthRequest(p) \/ ReceiveAuthAck(p)
                      \/ ReceiveMFStart(p)

Spec == Init /\ [][Next]_vars

-----------------------------------------------------------------------------
Epoch == 0..MaxEpoch

NodeState ==
    [epoch : Epoch, savedEpoch : Epoch, vote : Epoch, savedVote : Epoch,
     cfg : [Node -> Epoch], slots : [Slot -> Node \cup {None}],
     master : [Node -> Node \cup {None}], savedMaster : [Node -> Node \cup {None}],
     auth : {"none", "scheduled", "sent"}, authCount : Nat, authEpoch : Epoch,
     mf : {"none", "asked", "offset", "can"}, mfSlave : Node \cup {None}]

Header ==
    [type : {"ping", "update", "auth_request", "auth_ack", "mfstart"}, from : Node,
     slaveof : Node \cup {None}, epoch : Epoch, cfg : Epoch, slots : SUBSET Slot,
     paused : BOOLEAN]

Claim == [about : Node, cfg : Epoch, slots : SUBSET Slot]

\* The types of the variables.
TypeOK ==
    /\ nd \in [Node -> NodeState]
    /\ \A p \in net : /\ p.hdr \in Header /\ p.to \in Node \ {p.hdr.from}
                      /\ p.hdr.type = "update" => p.data \in Claim
    /\ ops \in 0..MaxOps
    /\ ballots \subseteq [voter : Node, epoch : Epoch, for : Node]
    /\ counted \in [Node -> SUBSET [voter : Node, epoch : Epoch, for : Node]]

\* A master votes once in an epoch, also when it restarts between two requests:
\* lastVoteEpoch is in nodes.conf before the vote leaves.
OneVotePerEpoch ==
    \A b, c \in ballots : b.voter = c.voter /\ b.epoch = c.epoch => b.for = c.for

\* The masters that voted for n in epoch e.
Backers(n, e) == {v \in Node : [voter |-> v, epoch |-> e, for |-> n] \in ballots}

\* All votes that n has counted are of the election it asked for last.  That they
\* are is not ensured: an answer of the election before, that arrives after the
\* count was set to 0 and before failover_auth_epoch moves on, is counted too.
Timely(n) == \A b \in counted[n] : b.epoch = nd[n].authEpoch

\* Who wins an election has the votes of more than half as many different masters
\* as it counts in its table, unless an answer came in that gap: no vote is
\* counted twice, whenever a slave starts over or restarts and answers are late.
ElectedByMajority ==
    [][\A x \in elected' \ elected : Timely(x.node) =>
          2 * Cardinality(Backers(x.node, x.epoch)) > Size(nd[x.node])]_vars

\* What the comment of clusterHandleConfigEpochCollision says: "It is not possible
\* that different slaves get the same config epoch during a failover election,
\* because the slaves need to get voted by a majority."
ElectionSafety == \A e, f \in elected : e.epoch = f.epoch => e.node = f.node

\* Two nodes that both serve a slot, each in its own table, do so under different
\* epochs, so that their packets decide between them.  The epochs made without
\* consensus may collide, and so may those of two that won the same election,
\* which redis_cluster_elections shows to happen.
OwnersDistinct ==
    ElectionSafety =>
      \A m, n \in Node, j \in Slot :
        m # n /\ nd[m].slots[j] = m /\ nd[n].slots[j] = n
            => nd[m].cfg[m] # nd[n].cfg[n] \/ nd[n].cfg[n] \in bumped

\* What clusterLoadConfig calls "something that should never happen": the file
\* holds a configuration epoch greater than its currentEpoch.
FileEpochCovers ==
    \A n, m \in Node : nd[n].cfg[m] <= nd[n].savedEpoch

\* In the table of a node the epoch under which a slot is served by another
\* never falls, as long as the slot is assigned: whatever order packets arrive
\* in, an old owner does not get a slot back.
SlotEpochsGrow ==
    [][\A n \in Node, j \in Slot :
          nd[n].slots[j] # None /\ nd[n]'.slots[j] \notin {n, None}
             => nd[n].cfg[nd[n].slots[j]] <= nd[n]'.cfg[nd[n]'.slots[j]]]_vars
=============================================================================
