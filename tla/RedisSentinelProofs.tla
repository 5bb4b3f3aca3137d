------------------------- MODULE RedisSentinelProofs -------------------------
(***************************************************************************)
(* Proofs about RedisSentinel, for any number of Sentinels, servers,       *)
(* epochs, restarts, lost messages and files that cannot be written.       *)
(***************************************************************************)
EXTENDS RedisSentinel, TLAPS

-----------------------------------------------------------------------------
(* The inductive invariant                                                 *)

\* What the file of a Sentinel has in common with its memory: the epoch of the
\* last vote, and the address it hands out unless SENTINEL RESET has emptied it.
\* A file that could not be written has nothing in common with it.
RecordOK(s, r) ==
    /\ r \in SentinelState(s)
    /\ ~r.behind => /\ r.disk.leaderEpoch = r.leaderEpoch
                    /\ r.disk.addr = CurrentMasterAddress(r) \/ r.slaves = {}

\* The votes of s: none is of a later epoch than the last, which is written down,
\* unless s was started again with an older file.
BallotsOK(s) ==
    /\ s \notin lost => \A b \in ballots : b.voter = s => b.epoch <= sen[s].leaderEpoch
    /\ sen[s].leader # None =>
         [voter |-> s, epoch |-> sen[s].leaderEpoch, for |-> sen[s].leader] \in ballots

SentinelInv ==
    /\ TypeOK
    /\ \A s \in Sentinel : RecordOK(s, sen[s]) /\ BallotsOK(s)
    /\ OneVotePerEpoch

\* From r to q a vote is kept, forgotten, or followed by one of a later epoch.
VoteKept(r, q) ==
    \/ q.leaderEpoch = r.leaderEpoch /\ q.leader \in {None, r.leader}
    \/ q.leaderEpoch > r.leaderEpoch

\* From r to q the address handed out changes as AddressFollowsEpoch says.
AddressKept(r, q) ==
    CurrentMasterAddress(q) # CurrentMasterAddress(r)
       => \/ r.configEpoch < q.configEpoch
          \/ r.failover = "wait_promotion" /\ q.configEpoch = r.failoverEpoch
          \/ {} \in {r.slaves, q.slaves}

\* From r to q the address stays and the vote is kept.
Smooth(s, r, q) ==
    /\ RecordOK(s, q) /\ VoteKept(r, q)
    /\ CurrentMasterAddress(q) = CurrentMasterAddress(r)

-----------------------------------------------------------------------------
(* What the functions of sentinel.c make of a record                       *)

LEMMA SmoothTransitive ==
    ASSUME NEW s, NEW p, NEW q, NEW r, RecordOK(s, p), Smooth(s, p, q), Smooth(s, q, r)
    PROVE  Smooth(s, p, r)
<1>1. p.leaderEpoch \in Nat /\ q.leaderEpoch \in Nat /\ r.leaderEpoch \in Nat
  BY SentinelConstants DEF Smooth, RecordOK, SentinelState, Epoch
<1> QED
  BY <1>1 DEF Smooth, VoteKept

LEMMA AddressTyped ==
    ASSUME NEW s, NEW r \in SentinelState(s)
    PROVE  CurrentMasterAddress(r) \in Instance
BY DEF CurrentMasterAddress, SentinelState, Address

LEMMA RewriteTyped ==
    ASSUME NEW s, NEW r \in SentinelState(s)
    PROVE  /\ Rewrite(r) \in Saved(s)
           /\ Rewrite(r).leaderEpoch = r.leaderEpoch
           /\ Rewrite(r).addr = CurrentMasterAddress(r)
<1>1. CurrentMasterAddress(r) \in Instance
  BY AddressTyped
<1>2. {IF i = CurrentMasterAddress(r) THEN r.addr ELSE i : i \in r.slaves} \subseteq Instance
  BY DEF SentinelState
<1> QED
  BY <1>1, <1>2 DEF Rewrite, Saved, SentinelState

\* sentinelFlushConfig changes the file and nothing else.
LEMMA FlushKeeps ==
    ASSUME NEW s, NEW r \in SentinelState(s)
    PROVE  LET q == FlushConfig(r)
           IN  /\ RecordOK(s, q)
               /\ CurrentMasterAddress(q) = CurrentMasterAddress(r)
               /\ q.epoch = r.epoch /\ q.leader = r.leader /\ q.leaderEpoch = r.leaderEpoch
               /\ q.configEpoch = r.configEpoch /\ q.addr = r.addr /\ q.slaves = r.slaves
               /\ q.failover = r.failover /\ q.failoverEpoch = r.failoverEpoch
               /\ q.promoted = r.promoted /\ q.sentinels = r.sentinels
<1> DEFINE q == FlushConfig(r)
<1>1. Rewrite(r) \in Saved(s) /\ Rewrite(r).leaderEpoch = r.leaderEpoch
      /\ Rewrite(r).addr = CurrentMasterAddress(r)
  BY RewriteTyped
<1>2. q \in SentinelState(s) /\ q.disk = Rewrite(r)
  BY <1>1 DEF FlushConfig, SentinelState
<1>3. /\ q.epoch = r.epoch /\ q.leader = r.leader /\ q.leaderEpoch = r.leaderEpoch
      /\ q.configEpoch = r.configEpoch /\ q.addr = r.addr /\ q.slaves = r.slaves
      /\ q.failover = r.failover /\ q.failoverEpoch = r.failoverEpoch
      /\ q.promoted = r.promoted /\ q.sentinels = r.sentinels
  BY DEF FlushConfig, SentinelState
<1> HIDE DEF q
<1>4. CurrentMasterAddress(q) = CurrentMasterAddress(r)
  BY <1>3 DEF CurrentMasterAddress
<1> QED
  BY <1>1, <1>2, <1>3, <1>4 DEF RecordOK, q
LEMMA SmoothUpdate ==
    ASSUME NEW s, NEW r, NEW q, RecordOK(s, r), q \in SentinelState(s),
           q.leader = r.leader, q.leaderEpoch = r.leaderEpoch,
           q.disk = r.disk, q.behind = r.behind, q.slaves = r.slaves,
           CurrentMasterAddress(q) = CurrentMasterAddress(r)
    PROVE  Smooth(s, r, q)
BY DEF Smooth, RecordOK, VoteKept

\* sentinelVoteLeader casts a vote only for a later epoch and saves it.
LEMMA VoteLeaderKeeps ==
    ASSUME NEW s, NEW r, RecordOK(s, r), NEW e \in Epoch, NEW c \in Sentinel
    PROVE  LET q == VoteLeader(r, e, c)
           IN  /\ Smooth(s, r, q)
               /\ q.failover = r.failover /\ q.promoted = r.promoted
               /\ q.addr = r.addr /\ q.slaves = r.slaves
<1> DEFINE seen == IF e > r.epoch THEN FlushConfig([r EXCEPT !.epoch = e]) ELSE r
<1>1. r \in SentinelState(s) /\ r.epoch \in Nat /\ e \in Nat /\ r.leaderEpoch \in Nat
  BY SentinelConstants DEF RecordOK, SentinelState, Epoch
<1>2. /\ seen \in SentinelState(s) /\ RecordOK(s, seen)
      /\ CurrentMasterAddress(seen) = CurrentMasterAddress(r)
      /\ seen.leader = r.leader /\ seen.leaderEpoch = r.leaderEpoch /\ seen.epoch >= e
      /\ seen.failover = r.failover /\ seen.promoted = r.promoted
      /\ seen.addr = r.addr /\ seen.slaves = r.slaves
  <2>1. CASE e > r.epoch
    <3> DEFINE x == [r EXCEPT !.epoch = e]
    <3>1. /\ x \in SentinelState(s) /\ x.epoch = e
          /\ x.leader = r.leader /\ x.leaderEpoch = r.leaderEpoch
          /\ x.failover = r.failover /\ x.promoted = r.promoted
          /\ x.addr = r.addr /\ x.slaves = r.slaves
      BY <1>1 DEF SentinelState
    <3>2. seen = FlushConfig(x)
      BY <2>1
    <3> HIDE DEF x, seen
    <3>3. CurrentMasterAddress(x) = CurrentMasterAddress(r)
      BY <3>1 DEF CurrentMasterAddress
    <3> QED
      BY <1>1, <3>1, <3>2, <3>3, FlushKeeps DEF RecordOK
  <2>2. CASE ~(e > r.epoch)
    BY <1>1, <2>2
  <2> QED
    BY <2>1, <2>2
<1>3. VoteLeader(r, e, c) = IF seen.leaderEpoch < e /\ seen.epoch <= e
                            THEN FlushConfig([seen EXCEPT !.leader = c, !.leaderEpoch = seen.epoch])
                            ELSE seen
  BY DEF VoteLeader
<1> HIDE DEF seen
<1>4. CASE seen.leaderEpoch < e /\ seen.epoch <= e
  <2> DEFINE x == [seen EXCEPT !.leader = c, !.leaderEpoch = seen.epoch]
  <2>1. /\ x \in SentinelState(s) /\ x.leaderEpoch = seen.epoch
        /\ x.failover = r.failover /\ x.promoted = r.promoted
        /\ x.addr = r.addr /\ x.slaves = r.slaves
    BY <1>2 DEF SentinelState, Candidate
  <2>2. VoteLeader(r, e, c) = FlushConfig(x)
    BY <1>3, <1>4
  <2> HIDE DEF x
  <2>3. CurrentMasterAddress(x) = CurrentMasterAddress(r)
    BY <2>1 DEF CurrentMasterAddress
  <2>4. seen.epoch \in Nat
    BY <1>2, SentinelConstants DEF SentinelState, Epoch
  <2>5. x.leaderEpoch > r.leaderEpoch
    BY <1>1, <1>2, <1>4, <2>1, <2>4
  <2> DEFINE q == FlushConfig(x)
  <2>6. /\ RecordOK(s, q) /\ q.leaderEpoch = x.leaderEpoch
        /\ CurrentMasterAddress(q) = CurrentMasterAddress(x)
        /\ q.failover = x.failover /\ q.promoted = x.promoted
        /\ q.addr = x.addr /\ q.slaves = x.slaves
    BY <2>1, FlushKeeps
  <2> HIDE DEF q
  <2> QED
    BY <2>1, <2>2, <2>3, <2>5, <2>6 DEF Smooth, VoteKept, q
<1>5. CASE ~(seen.leaderEpoch < e /\ seen.epoch <= e)
  BY <1>2, <1>3, <1>5 DEF Smooth, VoteKept
<1> QED
  BY <1>4, <1>5

\* sentinelResetMaster forgets the leader, not the epoch, and hands out the
\* address of the master.
LEMMA ResetKeeps ==
    ASSUME NEW s, NEW r \in SentinelState(s), NEW sentinels \in SUBSET (Sentinel \ {s})
    PROVE  LET q == ResetMaster(r, sentinels)
           IN  /\ q \in SentinelState(s)
               /\ q.leader = None /\ q.leaderEpoch = r.leaderEpoch /\ q.disk = r.disk /\ q.behind = r.behind
               /\ q.slaves = {} /\ q.addr = r.addr /\ q.configEpoch = r.configEpoch
               /\ q.failover = "none"
<1>1. [t \in Sentinel |-> IF t \in sentinels THEN r.votes[t] ELSE NoVote]
        \in [Sentinel -> [leader : Candidate, epoch : Epoch]]
  BY SentinelConstants DEF SentinelState, NoVote, Candidate, Epoch
<1>2. [i \in Instance |-> {}] \in [Instance -> Reconf]
  BY DEF Reconf
<1>3. r.masterDown \cap sentinels \subseteq Sentinel
  OBVIOUS
<1> QED
  BY <1>1, <1>2, <1>3 DEF ResetMaster, SentinelState, FailoverState, Candidate, Address

\* sentinelResetMasterAndChangeAddress saves the new address.
LEMMA ChangeAddressKeeps ==
    ASSUME NEW s, NEW r, RecordOK(s, r), NEW addr \in Instance
    PROVE  LET q == ResetMasterAndChangeAddress(r, addr)
           IN  /\ RecordOK(s, q) /\ VoteKept(r, q)
               /\ CurrentMasterAddress(q) = addr /\ q.configEpoch = r.configEpoch
<1> DEFINE x == ResetMaster(r, r.sentinels)
           back == (r.slaves \ {addr}) \cup ({r.addr} \ {addr})
           y == [x EXCEPT !.addr = addr, !.slaves = back]
<1>1. r \in SentinelState(s) /\ r.sentinels \in SUBSET (Sentinel \ {s})
  BY DEF RecordOK, SentinelState
<1>2. /\ x \in SentinelState(s) /\ x.leader = None /\ x.leaderEpoch = r.leaderEpoch
      /\ x.configEpoch = r.configEpoch /\ x.failover = "none"
  BY <1>1, ResetKeeps
<1>3. back \subseteq Instance
  BY <1>1 DEF SentinelState
<1>4. ResetMasterAndChangeAddress(r, addr) = FlushConfig(y)
  BY DEF ResetMasterAndChangeAddress
<1> HIDE DEF x, back
<1>5. /\ y \in SentinelState(s) /\ y.addr = addr /\ y.leader = None
      /\ y.leaderEpoch = r.leaderEpoch /\ y.configEpoch = r.configEpoch /\ y.failover = "none"
  BY <1>2, <1>3 DEF SentinelState
<1> HIDE DEF y
<1>6. CurrentMasterAddress(y) = addr
  BY <1>5 DEF CurrentMasterAddress
<1> DEFINE q == FlushConfig(y)
<1>7. /\ RecordOK(s, q) /\ q.leader = y.leader /\ q.leaderEpoch = y.leaderEpoch
      /\ CurrentMasterAddress(q) = CurrentMasterAddress(y) /\ q.configEpoch = y.configEpoch
  BY <1>5, FlushKeeps
<1> HIDE DEF q
<1> QED
  BY <1>4, <1>5, <1>6, <1>7 DEF VoteKept, q
-----------------------------------------------------------------------------
(* The failover state machine                                              *)

LEMMA CheckObjectivelyDownSmooth ==
    ASSUME NEW s, NEW r, RecordOK(s, r)
    PROVE  Smooth(s, r, CheckObjectivelyDown(r))
<1> DEFINE down == r.sdown /\ 1 + Cardinality(r.masterDown) >= Quorum
           q == [r EXCEPT !.odown = down]
<1>1. r \in SentinelState(s) /\ down \in BOOLEAN
  BY DEF RecordOK
<1>2. CheckObjectivelyDown(r) = q
  BY DEF CheckObjectivelyDown
<1> HIDE DEF down
<1>3. /\ q \in SentinelState(s)
      /\ q.leader = r.leader /\ q.leaderEpoch = r.leaderEpoch
      /\ q.disk = r.disk /\ q.behind = r.behind /\ q.slaves = r.slaves
      /\ q.failover = r.failover /\ q.promoted = r.promoted /\ q.addr = r.addr
  BY <1>1 DEF SentinelState
<1> HIDE DEF q
<1> QED
  BY <1>2, <1>3, SmoothUpdate DEF CurrentMasterAddress

\* sentinelStartFailover opens a new epoch, not yet saved.
LEMMA StartFailoverSmooth ==
    ASSUME NEW s, NEW r, RecordOK(s, r), r.epoch < MaxEpoch, r.failover = "none"
    PROVE  Smooth(s, r, StartFailover(r))
<1> DEFINE q == StartFailover(r)
<1>1. r \in SentinelState(s) /\ r.epoch + 1 \in Epoch
  BY SentinelConstants DEF RecordOK, SentinelState, Epoch
<1>2. /\ q \in SentinelState(s)
      /\ q.leader = r.leader /\ q.leaderEpoch = r.leaderEpoch
      /\ q.disk = r.disk /\ q.behind = r.behind /\ q.slaves = r.slaves
      /\ q.failover = "wait_start" /\ q.addr = r.addr
  BY <1>1 DEF StartFailover, SentinelState, FailoverState
<1> HIDE DEF q
<1>3. CurrentMasterAddress(q) = CurrentMasterAddress(r)
  BY <1>2 DEF CurrentMasterAddress
<1> QED
  BY <1>2, <1>3, SmoothUpdate DEF q

LEMMA StartIfNeededSmooth ==
    ASSUME NEW s, NEW r, RecordOK(s, r), NEW q \in StartFailoverIfNeeded(r)
    PROVE  Smooth(s, r, q)
<1>1. Smooth(s, r, r)
  BY DEF Smooth, VoteKept
<1> QED
  BY <1>1, StartFailoverSmooth DEF StartFailoverIfNeeded

\* A failover is given up only before the promoted slave has confirmed its role.
LEMMA AbortSmooth ==
    ASSUME NEW s, NEW r, RecordOK(s, r), r.failover \notin {"reconf_slaves", "update_config"}
    PROVE  Smooth(s, r, AbortFailover(r))
<1> DEFINE q == AbortFailover(r)
<1>1. r \in SentinelState(s)
  BY DEF RecordOK
<1>2. /\ q \in SentinelState(s)
      /\ q.leader = r.leader /\ q.leaderEpoch = r.leaderEpoch
      /\ q.disk = r.disk /\ q.behind = r.behind /\ q.slaves = r.slaves
      /\ q.failover = "none" /\ q.addr = r.addr
  BY <1>1 DEF AbortFailover, SentinelState, FailoverState, Address
<1> HIDE DEF q
<1>3. CurrentMasterAddress(q) = CurrentMasterAddress(r)
  BY <1>2 DEF CurrentMasterAddress
<1> QED
  BY <1>2, <1>3, SmoothUpdate DEF q

\* The state moves on, with the slave to promote, before there is one that has
\* confirmed its role.
LEMMA MoveOnSmooth ==
    ASSUME NEW s, NEW r, RecordOK(s, r), r.failover \notin {"reconf_slaves", "update_config"},
           NEW f \in {"select_slave", "send_slaveof_noone", "wait_promotion"}, NEW i \in Address
    PROVE  Smooth(s, r, [r EXCEPT !.promoted = i, !.failover = f])
<1> DEFINE q == [r EXCEPT !.promoted = i, !.failover = f]
<1>1. r \in SentinelState(s)
  BY DEF RecordOK
<1>2. /\ q \in SentinelState(s)
      /\ q.leader = r.leader /\ q.leaderEpoch = r.leaderEpoch
      /\ q.disk = r.disk /\ q.behind = r.behind /\ q.slaves = r.slaves
      /\ q.failover = f /\ q.addr = r.addr
  BY <1>1 DEF SentinelState, FailoverState
<1> HIDE DEF q
<1>3. CurrentMasterAddress(q) = CurrentMasterAddress(r)
  BY <1>2 DEF CurrentMasterAddress
<1> QED
  BY <1>2, <1>3, SmoothUpdate DEF q

LEMMA KeepPromoted ==
    ASSUME NEW s, NEW r \in SentinelState(s), NEW f
    PROVE  [r EXCEPT !.failover = f] = [r EXCEPT !.promoted = r.promoted, !.failover = f]
BY DEF SentinelState

LEMMA WaitStartSmooth ==
    ASSUME NEW s \in Sentinel, NEW r, RecordOK(s, r), r.failover = "wait_start",
           NEW late \in BOOLEAN, NEW q \in FailoverWaitStart(r, s, late)
    PROVE  Smooth(s, r, q)
<1>1. PICK top \in MostVoted(r) :
        LET voted == VoteLeader(r, r.failoverEpoch, IF top = None THEN s ELSE top)
        IN  q = IF GetLeader(voted, s, top) \/ r.forced
                THEN [voted EXCEPT !.failover = "select_slave"]
                ELSE IF late THEN AbortFailover(voted) ELSE voted
  BY DEF FailoverWaitStart
<1> DEFINE c == IF top = None THEN s ELSE top
           voted == VoteLeader(r, r.failoverEpoch, c)
<1>2. c \in Sentinel
  BY DEF MostVoted
<1>3. r.failoverEpoch \in Epoch
  BY DEF RecordOK, SentinelState
<1>4. q = IF GetLeader(voted, s, top) \/ r.forced
          THEN [voted EXCEPT !.failover = "select_slave"]
          ELSE IF late THEN AbortFailover(voted) ELSE voted
  BY <1>1
<1> HIDE DEF c
<1>5. Smooth(s, r, voted) /\ voted.failover = "wait_start"
  BY <1>2, <1>3, VoteLeaderKeeps
<1> HIDE DEF voted
<1>6. RecordOK(s, voted) /\ voted \in SentinelState(s) /\ voted.promoted \in Address
  BY <1>5 DEF Smooth, RecordOK, SentinelState
<1>7. Smooth(s, voted, [voted EXCEPT !.failover = "select_slave"])
  <2>1. [voted EXCEPT !.failover = "select_slave"]
          = [voted EXCEPT !.promoted = voted.promoted, !.failover = "select_slave"]
    BY <1>6, KeepPromoted
  <2>2. Smooth(s, voted, [voted EXCEPT !.promoted = voted.promoted, !.failover = "select_slave"])
    BY <1>5, <1>6, MoveOnSmooth
  <2> QED
    BY <2>1, <2>2
<1>8. Smooth(s, voted, AbortFailover(voted))
  BY <1>5, <1>6, AbortSmooth
<1> QED
  BY <1>4, <1>5, <1>7, <1>8, SmoothTransitive

LEMMA SelectSlaveSmooth ==
    ASSUME NEW s, NEW r, RecordOK(s, r), r.failover = "select_slave",
           NEW fresh \in SUBSET r.slaves, NEW q \in FailoverSelectSlave(r, fresh)
    PROVE  Smooth(s, r, q)
<1>1. SelectSlave(fresh) \subseteq Address
  BY DEF SelectSlave, RecordOK, SentinelState, Address
<1>2. CASE SelectSlave(fresh) = {}
  BY <1>2, AbortSmooth DEF FailoverSelectSlave
<1>3. CASE SelectSlave(fresh) # {}
  <2>1. PICK i \in SelectSlave(fresh) : q = [r EXCEPT !.promoted = i, !.failover = "send_slaveof_noone"]
    BY <1>3 DEF FailoverSelectSlave
  <2> QED
    BY <1>1, <2>1, MoveOnSmooth
<1> QED
  BY <1>2, <1>3

LEMMA SendSlaveOfNoOneSmooth ==
    ASSUME NEW s, NEW r, RecordOK(s, r), r.failover = "send_slaveof_noone",
           NEW connected, NEW late \in BOOLEAN
    PROVE  Smooth(s, r, FailoverSendSlaveOfNoOne(r, connected, late))
<1>1. r \in SentinelState(s) /\ r.promoted \in Address
  BY DEF RecordOK, SentinelState
<1>2. Smooth(s, r, [r EXCEPT !.failover = "wait_promotion"])
  <2>1. [r EXCEPT !.failover = "wait_promotion"]
          = [r EXCEPT !.promoted = r.promoted, !.failover = "wait_promotion"]
    BY <1>1, KeepPromoted
  <2>2. Smooth(s, r, [r EXCEPT !.promoted = r.promoted, !.failover = "wait_promotion"])
    BY <1>1, MoveOnSmooth
  <2> QED
    BY <2>1, <2>2
<1>3. Smooth(s, r, AbortFailover(r))
  BY AbortSmooth
<1>4. Smooth(s, r, r)
  BY DEF Smooth, VoteKept
<1> QED
  BY <1>2, <1>3, <1>4 DEF FailoverSendSlaveOfNoOne

LEMMA WaitPromotionSmooth ==
    ASSUME NEW s, NEW r, RecordOK(s, r), r.failover = "wait_promotion", NEW late \in BOOLEAN
    PROVE  Smooth(s, r, FailoverWaitPromotion(r, late))
<1>1. Smooth(s, r, AbortFailover(r)) /\ Smooth(s, r, r)
  BY AbortSmooth DEF Smooth, VoteKept
<1> QED
  BY <1>1 DEF FailoverWaitPromotion

\* Reconfiguring the slaves touches their flags.
LEMMA ReconfSmooth ==
    ASSUME NEW s, NEW r, RecordOK(s, r), NEW g \in [Instance -> Reconf]
    PROVE  LET q == [r EXCEPT !.reconf = g]
           IN  Smooth(s, r, q) /\ q.failover = r.failover /\ q.reconf = g
<1> DEFINE q == [r EXCEPT !.reconf = g]
<1>1. r \in SentinelState(s)
  BY DEF RecordOK
<1>2. /\ q \in SentinelState(s)
      /\ q.leader = r.leader /\ q.leaderEpoch = r.leaderEpoch
      /\ q.disk = r.disk /\ q.behind = r.behind /\ q.slaves = r.slaves
      /\ q.failover = r.failover /\ q.promoted = r.promoted /\ q.addr = r.addr /\ q.reconf = g
  BY <1>1 DEF SentinelState
<1> HIDE DEF q
<1>3. CurrentMasterAddress(q) = CurrentMasterAddress(r)
  BY <1>2 DEF CurrentMasterAddress
<1> QED
  BY <1>2, <1>3, SmoothUpdate DEF q

LEMMA NextSlaveSmooth ==
    ASSUME NEW s, NEW r, RecordOK(s, r), NEW c
    PROVE  /\ Smooth(s, r, FailoverReconfNextSlave(r, c))
           /\ FailoverReconfNextSlave(r, c).failover = r.failover
<1> DEFINE g == [i \in Instance |->
        ((IF i \in c.slow THEN (r.reconf[i] \ {"sent"}) \cup {"done"} ELSE r.reconf[i])
            \cup (IF i \in c.to THEN {"sent"} ELSE {}))]
<1>1. g \in [Instance -> Reconf]
  BY DEF RecordOK, SentinelState, Reconf
<1>2. FailoverReconfNextSlave(r, c) = [r EXCEPT !.reconf = g]
  BY DEF FailoverReconfNextSlave
<1> HIDE DEF g
<1> QED
  BY <1>1, <1>2, ReconfSmooth

LEMMA DetectEndSmooth ==
    ASSUME NEW s, NEW r, RecordOK(s, r), r.failover = "reconf_slaves",
           NEW up, NEW connected, NEW late \in BOOLEAN
    PROVE  Smooth(s, r, FailoverDetectEnd(r, up, connected, late))
<1> DEFINE g == [i \in Instance |-> r.reconf[i] \cup
                   (IF i \in BestEffort(r, up, connected, late) THEN {"sent"} ELSE {})]
           f == IF EndReached(r, up, late) THEN "update_config" ELSE r.failover
           q == [r EXCEPT !.failover = f, !.reconf = g]
<1>1. g \in [Instance -> Reconf] /\ r \in SentinelState(s)
  BY DEF RecordOK, SentinelState, Reconf
<1>2. f \in {"update_config", "reconf_slaves"}
  OBVIOUS
<1>3. FailoverDetectEnd(r, up, connected, late) = q
  BY DEF FailoverDetectEnd
<1> HIDE DEF g, f
<1>4. /\ q \in SentinelState(s)
      /\ q.leader = r.leader /\ q.leaderEpoch = r.leaderEpoch
      /\ q.disk = r.disk /\ q.behind = r.behind /\ q.slaves = r.slaves
      /\ q.failover = f /\ q.promoted = r.promoted /\ q.addr = r.addr
  BY <1>1, <1>2 DEF SentinelState, FailoverState
<1> HIDE DEF q
<1>5. CurrentMasterAddress(q) = CurrentMasterAddress(r)
  BY <1>2, <1>4 DEF CurrentMasterAddress
<1> QED
  BY <1>3, <1>4, <1>5, SmoothUpdate

\* The switch at the end hands out what was handed out during it.
LEMMA SwitchSmooth ==
    ASSUME NEW s, NEW r, RecordOK(s, r)
    PROVE  Smooth(s, r, SwitchToPromotedSlave(r))
<1>1. CASE r.failover # "update_config"
  BY <1>1 DEF SwitchToPromotedSlave, Smooth, VoteKept
<1>2. CASE r.failover = "update_config"
  <2> DEFINE a == IF r.promoted = None THEN r.addr ELSE r.promoted
  <2>1. a \in Instance /\ a = CurrentMasterAddress(r)
    BY <1>2 DEF RecordOK, SentinelState, Address, CurrentMasterAddress
  <2>2. SwitchToPromotedSlave(r) = ResetMasterAndChangeAddress(r, a)
    BY <1>2 DEF SwitchToPromotedSlave
  <2> HIDE DEF a
  <2> QED
    BY <2>1, <2>2, ChangeAddressKeeps DEF Smooth
<1> QED
  BY <1>1, <1>2

\* One round keeps the address, and the servers it writes to get an address.
LEMMA StateMachineSmooth ==
    ASSUME NEW s \in Sentinel, NEW r, RecordOK(s, r), NEW connected, NEW started \in BOOLEAN,
           NEW o \in FailoverStateMachine(r, s, connected, started)
    PROVE  Smooth(s, r, o.rec) /\ o.target \in Address
<1>1. r.promoted \in Address /\ None \in Address
  BY DEF RecordOK, SentinelState, Address
<1>2. Late(started) \subseteq BOOLEAN
  BY DEF Late
<1>3. CASE r.failover = "wait_start"
  <2>1. o \in {Quiet(q) : q \in UNION {FailoverWaitStart(r, s, l) : l \in Late(started)}}
    BY <1>3 DEF FailoverStateMachine
  <2>2. PICK q \in UNION {FailoverWaitStart(r, s, l) : l \in Late(started)} : o = Quiet(q)
    BY <2>1
  <2>3. PICK l \in Late(started) : q \in FailoverWaitStart(r, s, l)
    BY <2>2
  <2>4. Smooth(s, r, q)
    BY <1>2, <1>3, <2>3, WaitStartSmooth
  <2> QED
    BY <1>1, <2>2, <2>4 DEF Quiet
<1>4. CASE r.failover = "select_slave"
  <2>1. PICK f \in SUBSET r.slaves : \E q \in FailoverSelectSlave(r, f) : o = Quiet(q)
    BY <1>4 DEF FailoverStateMachine
  <2> QED
    BY <1>1, <1>4, <2>1, SelectSlaveSmooth DEF Quiet
<1>5. CASE r.failover = "send_slaveof_noone"
  <2>1. o \in {[rec |-> FailoverSendSlaveOfNoOne(r, connected, l),
                to |-> {r.promoted} \cap connected, target |-> None] : l \in Late(started)}
    BY <1>5 DEF FailoverStateMachine
  <2>2. PICK l \in Late(started) : o = [rec |-> FailoverSendSlaveOfNoOne(r, connected, l),
                               to |-> {r.promoted} \cap connected, target |-> None]
    BY <2>1
  <2> QED
    BY <1>1, <1>2, <1>5, <2>2, SendSlaveOfNoOneSmooth
<1>6. CASE r.failover = "wait_promotion"
  <2>1. o \in {Quiet(FailoverWaitPromotion(r, l)) : l \in Late(started)}
    BY <1>6 DEF FailoverStateMachine
  <2>2. PICK l \in Late(started) : o = Quiet(FailoverWaitPromotion(r, l))
    BY <2>1
  <2> QED
    BY <1>1, <1>2, <1>6, <2>2, WaitPromotionSmooth DEF Quiet
<1>7. CASE r.failover = "reconf_slaves"
  <2>1. o \in {LET q == FailoverReconfNextSlave(r, c)
                IN  [rec |-> FailoverDetectEnd(q, up, connected, l),
                     to |-> c.to \cup BestEffort(q, up, connected, l), target |-> r.promoted]
                  : c \in ReconfChoices(r, connected), up \in SUBSET r.slaves, l \in Late(started)}
    BY <1>7 DEF FailoverStateMachine
  <2>2. PICK c \in ReconfChoices(r, connected), up \in SUBSET r.slaves, l \in Late(started) :
          o = LET q == FailoverReconfNextSlave(r, c)
              IN  [rec |-> FailoverDetectEnd(q, up, connected, l),
                   to |-> c.to \cup BestEffort(q, up, connected, l), target |-> r.promoted]
    BY <2>1
  <2> DEFINE q == FailoverReconfNextSlave(r, c)
  <2>3. o.rec = FailoverDetectEnd(q, up, connected, l) /\ o.target = r.promoted
    BY <2>2
  <2>4. Smooth(s, r, q) /\ q.failover = "reconf_slaves"
    BY <1>7, NextSlaveSmooth
  <2> HIDE DEF q
  <2>5. RecordOK(s, q) /\ l \in BOOLEAN
    BY <1>2, <2>4 DEF Smooth
  <2>6. Smooth(s, q, o.rec)
    BY <2>3, <2>4, <2>5, DetectEndSmooth
  <2> QED
    BY <1>1, <2>3, <2>4, <2>6, SmoothTransitive
<1>8. CASE r.failover \in {"none", "update_config"}
  <2>1. FailoverStateMachine(r, s, connected, started) = {Quiet(r)}
    BY <1>8 DEF FailoverStateMachine
  <2> QED
    BY <1>1, <2>1 DEF Quiet, Smooth, VoteKept
<1> QED
  BY <1>3, <1>4, <1>5, <1>6, <1>7, <1>8 DEF RecordOK, SentinelState, FailoverState
-----------------------------------------------------------------------------
(* The steps                                                               *)

CmdState == {Idle} \cup [kind : {"slaveof"}, of : Address]

AddressStep ==
    \A s \in Sentinel : AddressKept(sen[s], sen'[s]) \/ (sen[s].behind /\ Restart(s))

\* What a record loses when its file cannot be written: the file.
LEMMA FailedFlush ==
    ASSUME NEW s, NEW r, RecordOK(s, r), NEW d \in Saved(s)
    PROVE  LET w == FlushFails(r, d)
           IN  /\ RecordOK(s, w) /\ CurrentMasterAddress(w) = CurrentMasterAddress(r)
               /\ w.leader = r.leader /\ w.leaderEpoch = r.leaderEpoch
               /\ w.configEpoch = r.configEpoch /\ w.slaves = r.slaves
<1> DEFINE w == FlushFails(r, d)
<1>1. r \in SentinelState(s)
  BY DEF RecordOK
<1>2. /\ w \in SentinelState(s) /\ w.behind
      /\ w.leader = r.leader /\ w.leaderEpoch = r.leaderEpoch
      /\ w.configEpoch = r.configEpoch /\ w.slaves = r.slaves
      /\ w.failover = r.failover /\ w.promoted = r.promoted /\ w.addr = r.addr
  BY <1>1 DEF FlushFails, SentinelState
<1> HIDE DEF w
<1>3. CurrentMasterAddress(w) = CurrentMasterAddress(r)
  BY <1>2 DEF CurrentMasterAddress
<1> QED
  BY <1>2, <1>3 DEF RecordOK, w

\* A Sentinel s becomes r, with its file written or not.  Whoever has not lost
\* its file has kept its vote.
LEMMA BecomesKeeps ==
    ASSUME SentinelInv, NEW s \in Sentinel, NEW r, Becomes(s, r), RecordOK(s, r),
           lost' \in {lost, lost \cup {s}}, VoteKept(sen[s], r) \/ s \in lost',
           AddressKept(sen[s], r) \/ (sen[s].behind /\ Restart(s)),
           link' \in [Sentinel -> [Sentinel -> LinkState]],
           cmd' \in [Sentinel -> [Instance -> CmdState]],
           masterOf' \in [Instance -> Address],
           faults' \in 0..MaxFaults
    PROVE  SentinelInv' /\ AddressStep
<1> USE DEF SentinelInv
<1>1. PICK w : /\ sen' = [sen EXCEPT ![s] = w]
               /\ RecordOK(s, w) /\ CurrentMasterAddress(w) = CurrentMasterAddress(r)
               /\ w.leader = r.leader /\ w.leaderEpoch = r.leaderEpoch
               /\ w.configEpoch = r.configEpoch /\ w.slaves = r.slaves
  <2>1. CASE sen' = [sen EXCEPT ![s] = r]
    BY <2>1
  <2>2. CASE sen' = [sen EXCEPT ![s] = FlushFails(r, sen[s].disk)]
    <3>1. sen[s].disk \in Saved(s)
      BY DEF RecordOK, SentinelState
    <3> QED
      BY <2>2, <3>1, FailedFlush
  <2> QED
    BY <2>1, <2>2 DEF Becomes
<1>2. \A t \in Sentinel : sen'[t] = IF t = s THEN w ELSE sen[t]
  BY <1>1 DEF TypeOK
<1>3. \A t \in Sentinel : RecordOK(t, sen'[t])
  BY <1>1, <1>2
<1>4. \A t \in Sentinel : sen[t].leaderEpoch \in Nat /\ sen'[t].leaderEpoch \in Nat
  BY <1>3, SentinelConstants DEF RecordOK, SentinelState, Epoch
<1>5. \A t \in Sentinel : t \notin lost' => sen[t].leaderEpoch <= sen'[t].leaderEpoch
  <2> SUFFICES ASSUME NEW t \in Sentinel, t \notin lost' PROVE sen[t].leaderEpoch <= sen'[t].leaderEpoch
    OBVIOUS
  <2>1. CASE t = s
    BY <1>1, <1>2, <1>4, <2>1 DEF VoteKept
  <2>2. CASE t # s
    BY <1>2, <1>4, <2>2
  <2> QED
    BY <2>1, <2>2
<1>6. ballots' \subseteq [voter : Sentinel, epoch : Epoch, for : Sentinel]
  <2>1. r.leaderEpoch \in Epoch /\ r.leader \in Sentinel \cup {None}
    BY DEF RecordOK, SentinelState, Candidate
  <2>2. ballots \subseteq [voter : Sentinel, epoch : Epoch, for : Sentinel]
    BY DEF TypeOK
  <2> QED
    BY <2>1, <2>2 DEF Becomes
<1>7. TypeOK'
  <2>1. unsaved' \in 0..MaxFaults /\ lost' \subseteq Sentinel
    BY SentinelConstants DEF Becomes, TypeOK
  <2>2. DOMAIN sen' = Sentinel
    BY <1>1 DEF TypeOK
  <2> QED
    BY <1>3, <1>6, <2>1, <2>2 DEF TypeOK, RecordOK, CmdState
<1>8. \A b \in ballots : b.epoch \in Nat
  BY SentinelConstants DEF TypeOK, Epoch
<1> DEFINE b0 == [voter |-> s, epoch |-> r.leaderEpoch, for |-> r.leader]
<1>9. ballots \subseteq ballots' /\ ballots' \subseteq ballots \cup {b0}
      /\ (r.leader # None => b0 \in ballots') /\ (r.leader = None => ballots' = ballots)
  BY DEF Becomes
<1>10. \A t \in Sentinel : BallotsOK(t)'
  <2> SUFFICES ASSUME NEW t \in Sentinel PROVE BallotsOK(t)'
    OBVIOUS
  <2>1. ASSUME t \notin lost', NEW b \in ballots', b.voter = t PROVE b.epoch <= sen'[t].leaderEpoch
    <3>1. CASE b \in ballots
      <4>1. b.epoch <= sen[t].leaderEpoch
        BY <2>1, <3>1 DEF BallotsOK
      <4>2. b.epoch \in Nat /\ sen[t].leaderEpoch \in Nat /\ sen'[t].leaderEpoch \in Nat
        BY <1>4, <1>8, <3>1
      <4>3. sen[t].leaderEpoch <= sen'[t].leaderEpoch
        BY <1>5, <2>1
      <4> QED
        BY <4>1, <4>2, <4>3
    <3>2. CASE b = b0
      BY <1>1, <1>2, <1>4, <2>1, <3>2
    <3> QED
      BY <1>9, <2>1, <3>1, <3>2
  <2>2. sen'[t].leader # None =>
          [voter |-> t, epoch |-> sen'[t].leaderEpoch, for |-> sen'[t].leader] \in ballots'
    BY <1>1, <1>2, <1>9 DEF BallotsOK
  <2> QED
    BY <2>1, <2>2 DEF BallotsOK
<1>11. r.leader # None /\ s \notin lost' =>
         \A c \in ballots : c.voter = s /\ c.epoch = r.leaderEpoch => c.for = r.leader
  <2> SUFFICES ASSUME r.leader # None, s \notin lost',
                      NEW c \in ballots, c.voter = s, c.epoch = r.leaderEpoch
               PROVE  c.for = r.leader
    OBVIOUS
  <2>1. c.epoch <= sen[s].leaderEpoch
    BY DEF BallotsOK
  <2>2. r.leaderEpoch = sen[s].leaderEpoch /\ r.leader = sen[s].leader
    BY <1>1, <1>2, <1>4, <2>1 DEF VoteKept
  <2> DEFINE d == [voter |-> s, epoch |-> sen[s].leaderEpoch, for |-> sen[s].leader]
  <2>3. d \in ballots
    BY <2>2 DEF BallotsOK
  <2> QED
    BY <2>2, <2>3 DEF OneVotePerEpoch
<1>12. OneVotePerEpoch'
  <2> SUFFICES ASSUME NEW b \in ballots', NEW c \in ballots',
                      b.voter = c.voter, b.epoch = c.epoch, b.voter \notin lost'
               PROVE  b.for = c.for
    BY DEF OneVotePerEpoch
  <2>0. b.voter \notin lost
    OBVIOUS
  <2>1. CASE b \in ballots /\ c \in ballots
    BY <2>0, <2>1 DEF OneVotePerEpoch
  <2>2. CASE r.leader # None
    <3>1. b0.voter = s /\ b0.epoch = r.leaderEpoch /\ b0.for = r.leader
      OBVIOUS
    <3> HIDE DEF b0
    <3> QED
      BY <1>9, <1>11, <2>0, <2>2, <3>1 DEF OneVotePerEpoch
  <2> QED
    BY <1>9, <2>1, <2>2
<1>13. AddressStep
  <2> SUFFICES ASSUME NEW t \in Sentinel
               PROVE  AddressKept(sen[t], sen'[t]) \/ (sen[t].behind /\ Restart(t))
    BY DEF AddressStep
  <2>1. CASE t = s
    BY <1>1, <1>2, <2>1 DEF AddressKept
  <2>2. CASE t # s
    BY <1>2, <2>2 DEF AddressKept
  <2> QED
    BY <2>1, <2>2
<1> QED
  BY <1>3, <1>7, <1>10, <1>12, <1>13

\* The same for a smooth step.
LEMMA SmoothKeeps ==
    ASSUME NEW s, NEW r, NEW q, Smooth(s, r, q)
    PROVE  RecordOK(s, q) /\ VoteKept(r, q) /\ AddressKept(r, q)
BY DEF Smooth, AddressKept

\* What the invariant says of the variables that a step leaves alone.
LEMMA Unmoved ==
    ASSUME SentinelInv
    PROVE  /\ link \in [Sentinel -> [Sentinel -> LinkState]]
           /\ cmd \in [Sentinel -> [Instance -> CmdState]]
           /\ masterOf \in [Instance -> Address]
           /\ faults \in 0..MaxFaults /\ (Fault => faults' \in 0..MaxFaults)
           /\ \A s \in Sentinel : RecordOK(s, sen[s]) /\ sen[s] \in SentinelState(s)
<1>1. faults \in 0..MaxFaults /\ (Fault => faults' \in 0..MaxFaults)
  BY SentinelConstants DEF SentinelInv, TypeOK, Fault
<1> QED
  BY <1>1 DEF SentinelInv, TypeOK, CmdState

LEMMA DownStep ==
    ASSUME SentinelInv, NEW s \in Sentinel, CheckSubjectivelyDown(s)
    PROVE  SentinelInv' /\ AddressStep
<1> DEFINE r == [sen[s] EXCEPT !.sdown = ~@]
<1>1. RecordOK(s, sen[s]) /\ sen[s] \in SentinelState(s)
  BY Unmoved
<1>2. (~sen[s].sdown) \in BOOLEAN
  OBVIOUS
<1>3. /\ r \in SentinelState(s)
      /\ r.leader = sen[s].leader /\ r.leaderEpoch = sen[s].leaderEpoch
      /\ r.disk = sen[s].disk /\ r.behind = sen[s].behind /\ r.slaves = sen[s].slaves
      /\ r.failover = sen[s].failover /\ r.promoted = sen[s].promoted /\ r.addr = sen[s].addr
  BY <1>1, <1>2 DEF SentinelState
<1>4. /\ Becomes(s, r) /\ UNCHANGED <<link, cmd, masterOf, lost>>
      /\ Fault \/ UNCHANGED faults
  BY DEF CheckSubjectivelyDown
<1> HIDE DEF r
<1>5. Smooth(s, sen[s], r)
  BY <1>1, <1>3, SmoothUpdate DEF CurrentMasterAddress
<1>6. RecordOK(s, r) /\ VoteKept(sen[s], r) /\ AddressKept(sen[s], r)
  BY <1>5, SmoothKeeps
<1> QED
  BY <1>4, <1>6, Unmoved, BecomesKeeps

LEMMA ForgetStep ==
    ASSUME SentinelInv, NEW s \in Sentinel, NEW t \in Sentinel, ForgetReply(s, t)
    PROVE  SentinelInv' /\ AddressStep
<1> DEFINE r == [sen[s] EXCEPT !.masterDown = @ \ {t}, !.votes[t].leader = None]
<1>1. RecordOK(s, sen[s]) /\ sen[s] \in SentinelState(s)
  BY Unmoved
<1>2. [sen[s].votes EXCEPT ![t].leader = None] \in [Sentinel -> [leader : Candidate, epoch : Epoch]]
  BY <1>1 DEF SentinelState, Candidate
<1>3. /\ r \in SentinelState(s)
      /\ r.leader = sen[s].leader /\ r.leaderEpoch = sen[s].leaderEpoch
      /\ r.disk = sen[s].disk /\ r.behind = sen[s].behind /\ r.slaves = sen[s].slaves
      /\ r.failover = sen[s].failover /\ r.promoted = sen[s].promoted /\ r.addr = sen[s].addr
  BY <1>1, <1>2 DEF SentinelState
<1>4. Becomes(s, r) /\ UNCHANGED <<link, cmd, masterOf, lost>> /\ Fault
  BY DEF ForgetReply
<1> HIDE DEF r
<1>5. Smooth(s, sen[s], r)
  BY <1>1, <1>3, SmoothUpdate DEF CurrentMasterAddress
<1>6. RecordOK(s, r) /\ VoteKept(sen[s], r) /\ AddressKept(sen[s], r)
  BY <1>5, SmoothKeeps
<1> QED
  BY <1>4, <1>6, Unmoved, BecomesKeeps

\* The commands and the questions of a round.
LEMMA SendSlaveOfTyped ==
    ASSUME SentinelInv, NEW s \in Sentinel, NEW to, NEW target \in Address,
           SendSlaveOf(s, to, target)
    PROVE  cmd' \in [Sentinel -> [Instance -> CmdState]]
<1>1. cmd \in [Sentinel -> [Instance -> CmdState]]
  BY Unmoved
<1>2. [kind |-> "slaveof", of |-> target] \in CmdState
  BY DEF CmdState
<1>3. [i \in Instance |-> IF i \in to THEN [kind |-> "slaveof", of |-> target] ELSE cmd[s][i]]
        \in [Instance -> CmdState]
  BY <1>1, <1>2
<1> QED
  BY <1>1, <1>3 DEF SendSlaveOf

LEMMA AskTyped ==
    ASSUME SentinelInv, NEW s \in Sentinel, NEW r \in SentinelState(s), AskMasterState(s, r)
    PROVE  link' \in [Sentinel -> [Sentinel -> LinkState]]
<1> DEFINE q == [kind |-> "ask", addr |-> r.addr, epoch |-> r.epoch,
                 runid |-> IF r.failover # "none" THEN s ELSE None]
<1>1. link \in [Sentinel -> [Sentinel -> LinkState]]
  BY Unmoved
<1>2. q \in LinkState /\ q.kind = "ask"
  BY DEF LinkState, SentinelState, Candidate
<1>3. link' = [link EXCEPT ![s] = [t \in Sentinel |->
        IF r.sdown /\ t \in r.sentinels /\ link[s][t] = Idle THEN q ELSE link[s][t]]]
  BY DEF AskMasterState
<1> HIDE DEF q
<1> QED
  BY <1>1, <1>2, <1>3

LEMMA InstanceStep ==
    ASSUME SentinelInv, NEW s \in Sentinel, HandleRedisInstance(s)
    PROVE  SentinelInv' /\ AddressStep
<1> DEFINE r == CheckObjectivelyDown(sen[s])
           connected == {i \in Instance : cmd[s][i] = Idle}
<1>1. PICK q \in StartFailoverIfNeeded(r) : \E o \in FailoverStateMachine(q, s, connected, q # r) :
        /\ Becomes(s, SwitchToPromotedSlave(o.rec))
        /\ SendSlaveOf(s, o.to, o.target)
        /\ AskMasterState(s, o.rec)
        /\ UNCHANGED <<masterOf, faults, lost>>
  BY DEF HandleRedisInstance
<1>2. PICK o \in FailoverStateMachine(q, s, connected, q # r) :
        /\ Becomes(s, SwitchToPromotedSlave(o.rec))
        /\ SendSlaveOf(s, o.to, o.target)
        /\ AskMasterState(s, o.rec)
        /\ UNCHANGED <<masterOf, faults, lost>>
  BY <1>1
<1> DEFINE z == SwitchToPromotedSlave(o.rec)
<1>3. RecordOK(s, sen[s]) /\ Smooth(s, sen[s], r)
  BY Unmoved, CheckObjectivelyDownSmooth
<1>4. Smooth(s, r, q)
  BY <1>3, StartIfNeededSmooth DEF Smooth
<1>5. RecordOK(s, q) /\ (q # r) \in BOOLEAN
  BY <1>4 DEF Smooth
<1> HIDE DEF r, connected
<1>6. Smooth(s, q, o.rec) /\ o.target \in Address
  BY <1>5, StateMachineSmooth
<1>7. Smooth(s, o.rec, z) /\ o.rec \in SentinelState(s)
  BY <1>6, SwitchSmooth DEF Smooth, RecordOK
<1> HIDE DEF z
<1>8. Smooth(s, sen[s], q)
  BY <1>3, <1>4, SmoothTransitive
<1>9. Smooth(s, sen[s], o.rec)
  BY <1>3, <1>6, <1>8, SmoothTransitive
<1>10. Smooth(s, sen[s], z)
  BY <1>3, <1>7, <1>9, SmoothTransitive
<1>11. RecordOK(s, z) /\ VoteKept(sen[s], z) /\ AddressKept(sen[s], z)
  BY <1>10, SmoothKeeps
<1>12. cmd' \in [Sentinel -> [Instance -> CmdState]]
  BY <1>2, <1>6, SendSlaveOfTyped
<1>13. link' \in [Sentinel -> [Sentinel -> LinkState]]
  BY <1>2, <1>7, AskTyped
<1>14. Becomes(s, z)
  BY <1>2 DEF z
<1> QED
  BY <1>2, <1>11, <1>12, <1>13, <1>14, Unmoved, BecomesKeeps

\* t answers a question: with its vote, or with none.
LEMMA MasterDownStep ==
    ASSUME SentinelInv, NEW s \in Sentinel, NEW t \in Sentinel, IsMasterDownByAddr(s, t)
    PROVE  SentinelInv' /\ AddressStep
<1> DEFINE q == link[s][t]
           asked == sen[t].addr = q.addr /\ q.runid # None
           v == IF asked THEN VoteLeader(sen[t], q.epoch, q.runid) ELSE sen[t]
<1>1. RecordOK(t, sen[t]) /\ link \in [Sentinel -> [Sentinel -> LinkState]]
  BY Unmoved
<1>2. PICK tilt \in BOOLEAN :
        /\ IF tilt THEN sen[t].sdown /\ Fault ELSE UNCHANGED faults
        /\ Becomes(t, v)
        /\ link' = [link EXCEPT ![s][t] =
               [kind |-> "reply", down |-> ~tilt /\ sen[t].addr = q.addr /\ sen[t].sdown,
                leader |-> IF asked THEN v.leader ELSE None,
                epoch |-> IF asked THEN v.leaderEpoch ELSE 0]]
  BY DEF IsMasterDownByAddr
<1>3. q.kind = "ask" /\ UNCHANGED <<cmd, masterOf, lost>>
  BY DEF IsMasterDownByAddr
<1>4. q \in LinkState
  BY <1>1
<1>5. q.epoch \in Epoch /\ q.runid \in Candidate
  BY <1>3, <1>4 DEF LinkState, Idle
<1>6. Smooth(t, sen[t], v)
  <2>1. CASE asked
    <3>1. q.runid \in Sentinel
      BY <1>5, <2>1 DEF Candidate
    <3> QED
      BY <1>1, <1>5, <2>1, <3>1, VoteLeaderKeeps
  <2>2. CASE ~asked
    BY <1>1, <2>2 DEF Smooth, VoteKept
  <2> QED
    BY <2>1, <2>2
<1> DEFINE a == [kind |-> "reply", down |-> ~tilt /\ sen[t].addr = q.addr /\ sen[t].sdown,
                 leader |-> IF asked THEN v.leader ELSE None,
                 epoch |-> IF asked THEN v.leaderEpoch ELSE 0]
<1>7. link' = [link EXCEPT ![s][t] = a]
  BY <1>2
<1> HIDE DEF asked, v
<1>8. v \in SentinelState(t) /\ v.leader \in Candidate /\ v.leaderEpoch \in Epoch
  BY <1>6 DEF Smooth, RecordOK, SentinelState
<1>9. a \in LinkState
  BY <1>8, SentinelConstants DEF LinkState, Candidate, Epoch
<1> HIDE DEF a
<1>10. link' \in [Sentinel -> [Sentinel -> LinkState]]
  BY <1>1, <1>7, <1>9
<1>11. RecordOK(t, v) /\ VoteKept(sen[t], v) /\ AddressKept(sen[t], v)
  BY <1>6, SmoothKeeps
<1>12. faults' \in 0..MaxFaults
  BY <1>2, Unmoved
<1> QED
  BY <1>2, <1>3, <1>10, <1>11, <1>12, Unmoved, BecomesKeeps

LEMMA ReplyStep ==
    ASSUME SentinelInv, NEW s \in Sentinel, NEW t \in Sentinel, ReceiveIsMasterDownReply(s, t)
    PROVE  SentinelInv' /\ AddressStep
<1> DEFINE a == link[s][t]
           down == IF a.down THEN sen[s].masterDown \cup {t} ELSE sen[s].masterDown \ {t}
           vote == IF a.leader # None THEN [leader |-> a.leader, epoch |-> a.epoch]
                   ELSE sen[s].votes[t]
           r == [sen[s] EXCEPT !.masterDown = down, !.votes[t] = vote]
<1>1. /\ RecordOK(s, sen[s]) /\ sen[s] \in SentinelState(s)
      /\ link \in [Sentinel -> [Sentinel -> LinkState]]
  BY Unmoved
<1>2. /\ a.kind = "reply" /\ Becomes(s, r) /\ link' = [link EXCEPT ![s][t] = Idle]
      /\ UNCHANGED <<cmd, masterOf, faults, lost>>
  BY DEF ReceiveIsMasterDownReply
<1>3. a \in LinkState
  BY <1>1
<1>4. a.leader \in Candidate /\ a.epoch \in Epoch
  BY <1>2, <1>3 DEF LinkState, Idle
<1>5. down \subseteq Sentinel /\ vote \in [leader : Candidate, epoch : Epoch]
  BY <1>1, <1>4 DEF SentinelState
<1> HIDE DEF a, down, vote
<1>6. [sen[s].votes EXCEPT ![t] = vote] \in [Sentinel -> [leader : Candidate, epoch : Epoch]]
  BY <1>1, <1>5 DEF SentinelState
<1>7. /\ r \in SentinelState(s)
      /\ r.leader = sen[s].leader /\ r.leaderEpoch = sen[s].leaderEpoch
      /\ r.disk = sen[s].disk /\ r.behind = sen[s].behind /\ r.slaves = sen[s].slaves
      /\ r.failover = sen[s].failover /\ r.promoted = sen[s].promoted /\ r.addr = sen[s].addr
  BY <1>1, <1>5, <1>6 DEF SentinelState
<1> HIDE DEF r
<1>8. Smooth(s, sen[s], r)
  BY <1>1, <1>7, SmoothUpdate DEF CurrentMasterAddress
<1>9. RecordOK(s, r) /\ VoteKept(sen[s], r) /\ AddressKept(sen[s], r)
  BY <1>8, SmoothKeeps
<1>10. link' \in [Sentinel -> [Sentinel -> LinkState]]
  BY <1>1, <1>2 DEF LinkState
<1> QED
  BY <1>2, <1>9, <1>10, Unmoved, BecomesKeeps

\* A hello: a new Sentinel, a later epoch, a later configuration.
LEMMA HelloStep ==
    ASSUME SentinelInv, NEW s \in Sentinel, NEW t \in Sentinel, Hello(s, t)
    PROVE  SentinelInv' /\ AddressStep
<1> DEFINE m  == [from |-> s, epoch |-> sen[s].epoch, configEpoch |-> sen[s].configEpoch,
                  addr |-> CurrentMasterAddress(sen[s])]
           r  == sen[t]
           x1 == [r EXCEPT !.sentinels = @ \cup {m.from}]
           r1 == IF m.from \in r.sentinels THEN r ELSE FlushConfig(x1)
           x2 == [r1 EXCEPT !.epoch = m.epoch]
           r2 == IF m.epoch > r1.epoch THEN FlushConfig(x2) ELSE r1
           x3 == [r2 EXCEPT !.configEpoch = m.configEpoch]
           r3 == IF m.configEpoch > r2.configEpoch THEN x3 ELSE r2
           r4 == IF m.configEpoch > r2.configEpoch /\ m.addr # r2.addr
                 THEN ResetMasterAndChangeAddress(r3, m.addr) ELSE r3
<1>1. /\ s # t /\ Becomes(t, r4) /\ UNCHANGED <<link, cmd, masterOf, faults, lost>>
  BY DEF Hello
<1>2. RecordOK(t, r) /\ r \in SentinelState(t) /\ sen[s] \in SentinelState(s)
  BY Unmoved
<1>3. m.addr \in Instance /\ m.epoch \in Epoch /\ m.configEpoch \in Epoch /\ m.from \in Sentinel \ {t}
  BY <1>1, <1>2, AddressTyped DEF SentinelState
<1> HIDE DEF m, r, x1, r1, x2, r2, x3, r3, r4
<1>4. /\ RecordOK(t, r1) /\ r1 \in SentinelState(t)
      /\ CurrentMasterAddress(r1) = CurrentMasterAddress(r)
      /\ r1.leader = r.leader /\ r1.leaderEpoch = r.leaderEpoch /\ r1.configEpoch = r.configEpoch
  <2>1. /\ x1 \in SentinelState(t) /\ x1.leader = r.leader /\ x1.leaderEpoch = r.leaderEpoch
        /\ x1.configEpoch = r.configEpoch /\ x1.failover = r.failover
        /\ x1.promoted = r.promoted /\ x1.addr = r.addr
    BY <1>2, <1>3 DEF SentinelState, x1
  <2>2. CurrentMasterAddress(x1) = CurrentMasterAddress(r)
    BY <2>1 DEF CurrentMasterAddress
  <2> QED
    BY <1>2, <2>1, <2>2, FlushKeeps DEF r1, RecordOK
<1>5. /\ RecordOK(t, r2) /\ r2 \in SentinelState(t)
      /\ CurrentMasterAddress(r2) = CurrentMasterAddress(r)
      /\ r2.leader = r.leader /\ r2.leaderEpoch = r.leaderEpoch /\ r2.configEpoch = r.configEpoch
  <2>1. /\ x2 \in SentinelState(t) /\ x2.leader = r1.leader /\ x2.leaderEpoch = r1.leaderEpoch
        /\ x2.configEpoch = r1.configEpoch /\ x2.failover = r1.failover
        /\ x2.promoted = r1.promoted /\ x2.addr = r1.addr
    BY <1>3, <1>4 DEF SentinelState, x2
  <2>2. CurrentMasterAddress(x2) = CurrentMasterAddress(r1)
    BY <2>1 DEF CurrentMasterAddress
  <2> QED
    BY <1>4, <2>1, <2>2, FlushKeeps DEF r2, RecordOK
<1>6. /\ RecordOK(t, r3) /\ CurrentMasterAddress(r3) = CurrentMasterAddress(r)
      /\ r3.leader = r.leader /\ r3.leaderEpoch = r.leaderEpoch
      /\ m.configEpoch > r2.configEpoch => r3.configEpoch = m.configEpoch
  <2>1. /\ x3 \in SentinelState(t) /\ x3.leader = r2.leader /\ x3.leaderEpoch = r2.leaderEpoch
        /\ x3.configEpoch = m.configEpoch /\ x3.failover = r2.failover /\ x3.disk = r2.disk /\ x3.behind = r2.behind
        /\ x3.promoted = r2.promoted /\ x3.addr = r2.addr /\ x3.slaves = r2.slaves
    BY <1>3, <1>5 DEF SentinelState, x3
  <2>2. CurrentMasterAddress(x3) = CurrentMasterAddress(r2)
    BY <2>1 DEF CurrentMasterAddress
  <2>3. RecordOK(t, x3)
    BY <1>5, <2>1, <2>2 DEF RecordOK
  <2> QED
    BY <1>5, <2>1, <2>2, <2>3 DEF r3
<1>7. RecordOK(t, r4) /\ VoteKept(r, r4) /\ AddressKept(r, r4)
  <2>1. CASE m.configEpoch > r2.configEpoch /\ m.addr # r2.addr
    <3>1. RecordOK(t, r4) /\ VoteKept(r3, r4) /\ r4.configEpoch = r3.configEpoch
      BY <1>3, <1>6, <2>1, ChangeAddressKeeps DEF r4
    <3>2. r.configEpoch < r4.configEpoch
      <4>1. r.configEpoch \in Nat /\ m.configEpoch \in Nat
        BY <1>2, <1>3, SentinelConstants DEF SentinelState, Epoch
      <4> QED
        BY <1>5, <1>6, <2>1, <3>1, <4>1
    <3> QED
      BY <1>6, <3>1, <3>2 DEF VoteKept, AddressKept
  <2>2. CASE ~(m.configEpoch > r2.configEpoch /\ m.addr # r2.addr)
    BY <1>6, <2>2 DEF r4, VoteKept, AddressKept
  <2> QED
    BY <2>1, <2>2
<1> QED
  BY <1>1, <1>7, Unmoved, BecomesKeeps DEF r
\* The slaves a master reports are added, and with them the file is saved.
LEMMA MasterInfoStep ==
    ASSUME SentinelInv, NEW s \in Sentinel, RefreshMasterInfo(s)
    PROVE  SentinelInv' /\ AddressStep
<1> DEFINE r == sen[s]
           new == {i \in Instance : masterOf[i] = r.addr} \ r.slaves
           role == IF masterOf[r.addr] = None THEN "master" ELSE "slave"
           q == [r EXCEPT !.roleReported = role, !.slaves = @ \cup new]
           z == IF new = {} THEN q ELSE FlushConfig(q)
<1>1. Becomes(s, z) /\ UNCHANGED <<link, cmd, masterOf, faults, lost>>
  BY DEF RefreshMasterInfo
<1>2. RecordOK(s, r) /\ r \in SentinelState(s)
  BY Unmoved
<1>3. new \subseteq Instance /\ role \in {"master", "slave"}
  OBVIOUS
<1> HIDE DEF r, new, role
<1>4. /\ q \in SentinelState(s) /\ q.leader = r.leader /\ q.leaderEpoch = r.leaderEpoch
      /\ q.configEpoch = r.configEpoch /\ q.disk = r.disk /\ q.behind = r.behind /\ q.slaves = r.slaves \cup new
      /\ q.failover = r.failover /\ q.promoted = r.promoted /\ q.addr = r.addr
  BY <1>2, <1>3 DEF SentinelState
<1> HIDE DEF q
<1>5. CurrentMasterAddress(q) = CurrentMasterAddress(r)
  BY <1>4 DEF CurrentMasterAddress
<1>6. Smooth(s, r, z)
  <2>1. CASE new = {}
    BY <1>2, <1>4, <1>5, <2>1 DEF z, Smooth, RecordOK, VoteKept
  <2>2. CASE new # {}
    BY <1>4, <1>5, <2>2, FlushKeeps DEF z, Smooth, VoteKept
  <2> QED
    BY <2>1, <2>2
<1> HIDE DEF z
<1>7. RecordOK(s, z) /\ VoteKept(r, z) /\ AddressKept(r, z)
  BY <1>6, SmoothKeeps
<1> QED
  BY <1>1, <1>7, Unmoved, BecomesKeeps DEF r

LEMMA FailoverCommandStep ==
    ASSUME SentinelInv, NEW s \in Sentinel, FailoverCommand(s)
    PROVE  SentinelInv' /\ AddressStep
<1> DEFINE q == StartFailover(sen[s])
           z == [q EXCEPT !.forced = TRUE]
<1>1. /\ sen[s].epoch < MaxEpoch /\ Fault /\ sen[s].failover = "none" /\ Becomes(s, z)
      /\ UNCHANGED <<link, cmd, masterOf, lost>>
  BY DEF FailoverCommand
<1>2. RecordOK(s, sen[s])
  BY Unmoved
<1>3. Smooth(s, sen[s], q)
  BY <1>1, <1>2, StartFailoverSmooth
<1>4. RecordOK(s, q) /\ q \in SentinelState(s)
  BY <1>3 DEF Smooth, RecordOK
<1> HIDE DEF q
<1>5. /\ z \in SentinelState(s) /\ z.leader = q.leader /\ z.leaderEpoch = q.leaderEpoch
      /\ z.disk = q.disk /\ z.behind = q.behind /\ z.slaves = q.slaves
      /\ z.failover = q.failover /\ z.promoted = q.promoted /\ z.addr = q.addr
  BY <1>4 DEF SentinelState
<1> HIDE DEF z
<1>6. Smooth(s, q, z)
  BY <1>4, <1>5, SmoothUpdate DEF CurrentMasterAddress
<1>7. Smooth(s, sen[s], z)
  BY <1>2, <1>3, <1>6, SmoothTransitive
<1>8. RecordOK(s, z) /\ VoteKept(sen[s], z) /\ AddressKept(sen[s], z)
  BY <1>7, SmoothKeeps
<1> QED
  BY <1>1, <1>8, Unmoved, BecomesKeeps

\* SENTINEL RESET leaves no slaves, and the epoch of the last vote.
LEMMA ResetStep ==
    ASSUME SentinelInv, NEW s \in Sentinel, ResetCommand(s)
    PROVE  SentinelInv' /\ AddressStep
<1> DEFINE z == ResetMaster(sen[s], {})
<1>1. /\ Fault /\ Becomes(s, z) /\ UNCHANGED <<cmd, masterOf, lost>>
      /\ link' = [link EXCEPT ![s] = [t \in Sentinel |-> Idle]]
  BY DEF ResetCommand
<1>2. /\ RecordOK(s, sen[s]) /\ sen[s] \in SentinelState(s)
      /\ link \in [Sentinel -> [Sentinel -> LinkState]]
  BY Unmoved
<1>3. /\ z \in SentinelState(s) /\ z.leader = None /\ z.leaderEpoch = sen[s].leaderEpoch
      /\ z.disk = sen[s].disk /\ z.behind = sen[s].behind /\ z.slaves = {}
  BY <1>2, ResetKeeps
<1> HIDE DEF z
<1>4. RecordOK(s, z) /\ VoteKept(sen[s], z) /\ AddressKept(sen[s], z)
  BY <1>2, <1>3 DEF RecordOK, VoteKept, AddressKept
<1>5. link' \in [Sentinel -> [Sentinel -> LinkState]]
  BY <1>1, <1>2 DEF LinkState
<1> QED
  BY <1>1, <1>4, <1>5, Unmoved, BecomesKeeps

\* A restart reads what was saved: the last vote's epoch and the address, both of
\* the last file that could be written.
LEMMA ConfigurationTyped ==
    ASSUME NEW s, NEW d \in Saved(s)
    PROVE  LET z == HandleConfiguration(d)
           IN  /\ RecordOK(s, z) /\ z.leader = None /\ z.leaderEpoch = d.leaderEpoch
               /\ CurrentMasterAddress(z) = d.addr
<1> DEFINE z == HandleConfiguration(d)
<1>1. [t \in Sentinel |-> NoVote] \in [Sentinel -> [leader : Candidate, epoch : Epoch]]
  BY SentinelConstants DEF NoVote, Candidate, Epoch
<1>2. [i \in Instance |-> {}] \in [Instance -> Reconf]
  BY DEF Reconf
<1>3. /\ z \in SentinelState(s) /\ z.leader = None /\ z.leaderEpoch = d.leaderEpoch
      /\ z.failover = "none" /\ z.addr = d.addr /\ z.disk = d
  BY <1>1, <1>2, SentinelConstants
     DEF HandleConfiguration, SentinelState, Saved, Candidate, Address, Epoch, FailoverState
<1> HIDE DEF z
<1>4. CurrentMasterAddress(z) = d.addr
  BY <1>3 DEF CurrentMasterAddress
<1> QED
  BY <1>3, <1>4 DEF RecordOK, z

LEMMA RestartStep ==
    ASSUME SentinelInv, NEW s \in Sentinel, Restart(s)
    PROVE  SentinelInv' /\ AddressStep
<1> DEFINE z == HandleConfiguration(sen[s].disk)
<1>1. /\ Becomes(s, z) /\ UNCHANGED <<cmd, masterOf>>
      /\ IF sen[s].behind THEN UNCHANGED faults ELSE Fault
      /\ lost' = IF sen[s].behind THEN lost \cup {s} ELSE lost
      /\ link' = [u \in Sentinel |-> [t \in Sentinel |-> IF s \in {u, t} THEN Idle ELSE link[u][t]]]
  BY DEF Restart
<1>2. /\ RecordOK(s, sen[s]) /\ sen[s] \in SentinelState(s)
      /\ link \in [Sentinel -> [Sentinel -> LinkState]]
  BY Unmoved
<1>3. sen[s].disk \in Saved(s)
  BY <1>2 DEF SentinelState
<1>4. /\ RecordOK(s, z) /\ z.leader = None /\ z.leaderEpoch = sen[s].disk.leaderEpoch
      /\ CurrentMasterAddress(z) = sen[s].disk.addr
  BY <1>3, ConfigurationTyped
<1> HIDE DEF z
<1>5. ~sen[s].behind => VoteKept(sen[s], z) /\ AddressKept(sen[s], z)
  BY <1>2, <1>4 DEF RecordOK, VoteKept, AddressKept
<1>6. link' \in [Sentinel -> [Sentinel -> LinkState]]
  BY <1>1, <1>2 DEF LinkState
<1>7. faults' \in 0..MaxFaults /\ cmd' \in [Sentinel -> [Instance -> CmdState]]
      /\ masterOf' \in [Instance -> Address]
  BY <1>1, Unmoved
<1>8. CASE sen[s].behind
  BY <1>1, <1>4, <1>6, <1>7, <1>8, BecomesKeeps
<1>9. CASE ~sen[s].behind
  BY <1>1, <1>4, <1>5, <1>6, <1>7, <1>9, BecomesKeeps
<1> QED
  BY <1>8, <1>9

\* The promoted slave confirms its role, and the new configuration is saved; or
\* a slave moves on in the reconfiguration.
LEMMA SlaveInfoStep ==
    ASSUME SentinelInv, NEW s \in Sentinel, NEW i \in Instance, RefreshSlaveInfo(s, i)
    PROVE  SentinelInv' /\ AddressStep
<1> DEFINE r == sen[s]
           isMaster == masterOf[i] = None
           promotes == isMaster /\ r.promoted = i /\ r.failover = "wait_promotion"
<1>1. RecordOK(s, r) /\ r \in SentinelState(s) /\ UNCHANGED <<link, masterOf, lost>>
  BY Unmoved DEF RefreshSlaveInfo
<1>2. CASE promotes
  <2> DEFINE q == [r EXCEPT !.configEpoch = r.failoverEpoch, !.failover = "reconf_slaves"]
             z == FlushConfig(q)
  <2>1. Becomes(s, z) /\ UNCHANGED <<cmd, faults>>
    BY <1>2 DEF RefreshSlaveInfo
  <2> HIDE DEF r
  <2>2. /\ q \in SentinelState(s) /\ q.leader = r.leader /\ q.leaderEpoch = r.leaderEpoch
        /\ q.configEpoch = r.failoverEpoch
    BY <1>1 DEF SentinelState, FailoverState
  <2> HIDE DEF q
  <2>3. /\ RecordOK(s, z) /\ z.leader = r.leader /\ z.leaderEpoch = r.leaderEpoch
        /\ z.configEpoch = r.failoverEpoch
    BY <2>2, FlushKeeps
  <2> HIDE DEF z
  <2>4. VoteKept(r, z) /\ AddressKept(r, z)
    BY <1>2, <2>3 DEF VoteKept, AddressKept
  <2> QED
    BY <1>1, <2>1, <2>3, <2>4, Unmoved, BecomesKeeps DEF r
<1>3. CASE ~promotes
  <2>1. PICK fix \in BOOLEAN, f \in (IF isMaster THEN {r.reconf[i]} ELSE ReconfProgress(r, i)) :
          /\ IF fix THEN Fault ELSE UNCHANGED faults
          /\ SendSlaveOf(s, IF fix THEN {i} ELSE {}, r.addr)
          /\ Becomes(s, [r EXCEPT !.reconf[i] = f])
    BY <1>3 DEF RefreshSlaveInfo
  <2> DEFINE g == [r.reconf EXCEPT ![i] = f]
             z == [r EXCEPT !.reconf = g]
  <2>2. f \in Reconf
    <3>1. r.reconf[i] \in Reconf
      BY <1>1 DEF SentinelState
    <3> QED
      BY <2>1, <3>1 DEF ReconfProgress, Reconf
  <2>3. g \in [Instance -> Reconf]
    BY <1>1, <2>2 DEF SentinelState
  <2>4. Becomes(s, z)
    BY <2>1
  <2>5. r.addr \in Address /\ faults' \in 0..MaxFaults
    BY <1>1, <2>1, Unmoved DEF SentinelState, Address
  <2>6. cmd' \in [Sentinel -> [Instance -> CmdState]]
    BY <2>1, <2>5, SendSlaveOfTyped
  <2> HIDE DEF g
  <2>7. Smooth(s, r, z)
    BY <1>1, <2>3, ReconfSmooth
  <2> HIDE DEF z
  <2>8. RecordOK(s, z) /\ VoteKept(r, z) /\ AddressKept(r, z)
    BY <2>7, SmoothKeeps
  <2> QED
    BY <1>1, <2>4, <2>5, <2>6, <2>8, Unmoved, BecomesKeeps
<1> QED
  BY <1>2, <1>3

\* The steps that no Sentinel notices.
LEMMA OutsideStep ==
    ASSUME SentinelInv, UNCHANGED <<sen, ballots, unsaved, lost>>,
           link' \in [Sentinel -> [Sentinel -> LinkState]],
           cmd' \in [Sentinel -> [Instance -> CmdState]],
           masterOf' \in [Instance -> Address], faults' \in 0..MaxFaults
    PROVE  SentinelInv' /\ AddressStep
<1>1. TypeOK'
  BY DEF SentinelInv, TypeOK, CmdState
<1>2. \A s \in Sentinel : (RecordOK(s, sen[s]) /\ BallotsOK(s))'
  BY DEF SentinelInv, RecordOK, BallotsOK
<1>3. OneVotePerEpoch'
  BY DEF SentinelInv, OneVotePerEpoch
<1>4. AddressStep
  BY DEF AddressStep, AddressKept
<1> QED
  BY <1>1, <1>2, <1>3, <1>4 DEF SentinelInv

LEMMA ConnectionStep ==
    ASSUME SentinelInv, NEW s \in Sentinel,
           \/ \E t \in Sentinel : LinkConnectionError(s, t)
           \/ \E i \in Instance : SlaveOf(s, i)
    PROVE  SentinelInv' /\ AddressStep
<1>1. ASSUME NEW t \in Sentinel, LinkConnectionError(s, t)
      PROVE  SentinelInv' /\ AddressStep
  <2>1. /\ link' = [link EXCEPT ![s][t] = Idle] /\ Fault
        /\ UNCHANGED <<sen, cmd, masterOf, ballots, unsaved, lost>>
    BY <1>1 DEF LinkConnectionError
  <2>2. link' \in [Sentinel -> [Sentinel -> LinkState]]
    BY <2>1, Unmoved DEF LinkState
  <2> QED
    BY <2>1, <2>2, Unmoved, OutsideStep
<1>2. ASSUME NEW i \in Instance, SlaveOf(s, i)
      PROVE  SentinelInv' /\ AddressStep
  <2>1. /\ cmd[s][i] # Idle /\ cmd' = [cmd EXCEPT ![s][i] = Idle]
        /\ \/ masterOf' = [masterOf EXCEPT ![i] = cmd[s][i].of] /\ UNCHANGED faults
           \/ Fault /\ UNCHANGED masterOf
        /\ UNCHANGED <<sen, link, ballots, unsaved, lost>>
    BY <1>2 DEF SlaveOf
  <2>2. cmd \in [Sentinel -> [Instance -> CmdState]] /\ masterOf \in [Instance -> Address]
    BY Unmoved
  <2>3. cmd[s][i] \in CmdState
    BY <2>2
  <2>4. cmd[s][i].of \in Address
    BY <2>1, <2>3 DEF CmdState
  <2>5. cmd' \in [Sentinel -> [Instance -> CmdState]] /\ masterOf' \in [Instance -> Address]
    BY <2>1, <2>2, <2>4 DEF CmdState
  <2> QED
    BY <2>1, <2>5, Unmoved, OutsideStep
<1> QED
  BY <1>1, <1>2

-----------------------------------------------------------------------------
(* The theorems                                                            *)

LEMMA InitSentinel == Init => SentinelInv
<1> SUFFICES ASSUME Init PROVE SentinelInv
  OBVIOUS
<1> DEFINE d(s) == [epoch |-> 0, leaderEpoch |-> 0, configEpoch |-> 0, addr |-> FirstMaster,
                    slaves |-> Instance \ {FirstMaster}, sentinels |-> Sentinel \ {s}]
<1>1. sen = [s \in Sentinel |-> HandleConfiguration(d(s))]
  BY DEF Init
<1>2. \A s \in Sentinel : d(s) \in Saved(s)
  BY SentinelConstants DEF Saved, Epoch
<1> HIDE DEF d
<1>3. \A s \in Sentinel : RecordOK(s, sen[s]) /\ sen[s].leader = None /\ sen[s] \in SentinelState(s)
  BY <1>1, <1>2, ConfigurationTyped DEF RecordOK
<1>4. ballots = {} /\ \A s \in Sentinel : BallotsOK(s)
  BY <1>3 DEF Init, BallotsOK
<1>5. TypeOK
  <2>1. /\ link \in [Sentinel -> [Sentinel -> LinkState]]
        /\ cmd \in [Sentinel -> [Instance -> {Idle} \cup [kind : {"slaveof"}, of : Address]]]
        /\ masterOf \in [Instance -> Address] /\ faults \in 0..MaxFaults
        /\ unsaved \in 0..MaxFaults /\ lost \subseteq Sentinel
    BY SentinelConstants DEF Init, LinkState, Address
  <2> QED
    BY <1>1, <1>3, <1>4, <2>1 DEF TypeOK
<1>6. OneVotePerEpoch
  BY <1>4 DEF OneVotePerEpoch
<1> QED
  BY <1>3, <1>4, <1>5, <1>6 DEF SentinelInv

LEMMA NextSentinel == SentinelInv /\ [Next]_vars => SentinelInv' /\ AddressStep
<1> SUFFICES ASSUME SentinelInv, [Next]_vars PROVE SentinelInv' /\ AddressStep
  OBVIOUS
<1>1. CASE UNCHANGED vars
  BY <1>1, OutsideStep, Unmoved DEF vars
<1>2. ASSUME NEW s \in Sentinel,
             \/ CheckSubjectivelyDown(s) \/ HandleRedisInstance(s) \/ RefreshMasterInfo(s)
             \/ FailoverCommand(s) \/ ResetCommand(s) \/ Restart(s)
      PROVE  SentinelInv' /\ AddressStep
  BY <1>2, DownStep, InstanceStep, MasterInfoStep, FailoverCommandStep, ResetStep, RestartStep
<1>3. ASSUME NEW s \in Sentinel, NEW t \in Sentinel,
             \/ ForgetReply(s, t) \/ IsMasterDownByAddr(s, t) \/ ReceiveIsMasterDownReply(s, t)
             \/ Hello(s, t) \/ LinkConnectionError(s, t)
      PROVE  SentinelInv' /\ AddressStep
  BY <1>3, ForgetStep, MasterDownStep, ReplyStep, HelloStep, ConnectionStep
<1>4. ASSUME NEW s \in Sentinel, NEW i \in Instance, RefreshSlaveInfo(s, i) \/ SlaveOf(s, i)
      PROVE  SentinelInv' /\ AddressStep
  BY <1>4, SlaveInfoStep, ConnectionStep
<1> QED
  BY <1>1, <1>2, <1>3, <1>4 DEF Next

\* The invariant of the Sentinels holds throughout.
THEOREM SentinelInvariant == Spec => []SentinelInv
<1>1. SentinelInv /\ [Next]_vars => SentinelInv'
  BY NextSentinel
<1> QED
  BY <1>1, InitSentinel, PTL DEF Spec

\* The variables keep their types: no epoch runs past the bound, and what is
\* saved, sent and promoted is always an address or a Sentinel.
THEOREM SentinelTypeCorrect == Spec => []TypeOK
<1>1. SentinelInv => TypeOK
  BY DEF SentinelInv
<1> QED
  BY <1>1, SentinelInvariant, PTL

\* No Sentinel ever votes for two candidates in one epoch, however often it is
\* reset, restarted or asked: sentinelVoteLeader saves leader_epoch.  The one
\* exception is a Sentinel that was started again after its file could not be
\* written.
THEOREM VotesOncePerEpoch == Spec => []OneVotePerEpoch
<1>1. SentinelInv => OneVotePerEpoch
  BY DEF SentinelInv
<1> QED
  BY <1>1, SentinelInvariant, PTL

\* The address a Sentinel hands out changes only with its configuration epoch,
\* restarts included, unless SENTINEL RESET has emptied the master or it is
\* started again after sentinelFlushConfig has failed.
THEOREM AddressChangesWithEpoch == Spec => AddressFollowsEpoch
<1> DEFINE A == \A s \in Sentinel :
                   CurrentMasterAddress(sen[s]') # CurrentMasterAddress(sen[s])
                      => \/ sen[s].configEpoch < sen[s]'.configEpoch
                         \/ /\ sen[s].failover = "wait_promotion"
                            /\ sen[s]'.configEpoch = sen[s].failoverEpoch
                         \/ {} \in {sen[s].slaves, sen[s]'.slaves}
                         \/ sen[s].behind /\ Restart(s)
<1>1. AddressStep => A
  BY DEF AddressStep, AddressKept
<1>2. SentinelInv /\ [Next]_vars => A
  BY <1>1, NextSentinel
<1> QED
  BY <1>2, SentinelInvariant, PTL DEF Spec, AddressFollowsEpoch
=============================================================================
