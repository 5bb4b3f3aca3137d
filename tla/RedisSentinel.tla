--------------------------- MODULE RedisSentinel ---------------------------
(***************************************************************************)
(* The failover of one monitored master by the Sentinels of the bundled    *)
(* Redis server (tools/redis-4.0.9/src/sentinel.c).                        *)
(*                                                                         *)
(* sen[s] is what process s keeps about the master and its disk file; each *)
(* C function is an operator on that record, and an action is a whole      *)
(* callback of the event loop: the timer, a command, a reply.  Time is not *)
(* counted: every "enough time has passed" is a choice of the action,      *)
(* because between two callbacks any time may pass.                        *)
(***************************************************************************)
EXTENDS Integers, FiniteSets, FiniteSetsExt

CONSTANTS
    Sentinel,       \* the Sentinel processes
    Instance,       \* the Redis servers, named by their addresses
    FirstMaster,    \* the address in "sentinel monitor"
    Quorum,         \* its quorum
    ParallelSyncs,  \* its parallel-syncs
    Priority,       \* slave-priority of each server; 0 is never promoted
    Offset,         \* the replication offset each server reports
    None,           \* NULL, "*" and NO ONE
    MaxEpoch,       \* bound on current_epoch
    MaxFaults       \* bound on restarts, lost connections, answers that come too
                    \* late, false alarms, odd clocks, slaves told again to follow
                    \* the master, SENTINEL commands and files that cannot be
                    \* written (the restart after that is not counted)

ASSUME SentinelConstants ==
    /\ IsFiniteSet(Sentinel) /\ IsFiniteSet(Instance)
    /\ FirstMaster \in Instance
    /\ Quorum \in Nat \ {0} /\ ParallelSyncs \in Nat
    /\ Priority \in [Instance -> Nat] /\ Offset \in [Instance -> Nat]
    /\ None \notin Sentinel \cup Instance
    /\ MaxEpoch \in Nat /\ MaxFaults \in Nat

VARIABLES
    sen,      \* per Sentinel: its memory and its configuration file
    link,     \* link[s][t]: the question s has put to t, or t's answer to it
    cmd,      \* cmd[s][i]: the SLAVEOF on its way from s to server i
    masterOf, \* what each server really replicates: None when it is a master
    faults,   \* how many of the bounded events have happened
    ballots,  \* every vote ever cast: voter, epoch, candidate
    unsaved,  \* how many callbacks could not write their file
    lost      \* who was started again with a file that was behind

vars == <<sen, link, cmd, masterOf, faults, ballots, unsaved, lost>>

Epoch == 0..MaxEpoch
Candidate == Sentinel \cup {None}
Address == Instance \cup {None}
Idle == [kind |-> "idle"]
NoVote == [leader |-> None, epoch |-> 0]
FailoverState == {"none", "wait_start", "select_slave", "send_slaveof_noone",
                  "wait_promotion", "reconf_slaves", "update_config"}
Reconf == SUBSET {"sent", "inprog", "done"}

-----------------------------------------------------------------------------
\* What a Sentinel keeps.

\* The address a Sentinel hands out, publishes and saves.
CurrentMasterAddress(r) ==
    IF r.failover \in {"reconf_slaves", "update_config"} /\ r.promoted # None
    THEN r.promoted ELSE r.addr

\* Mutant: the address of the old master is saved during a failover.
RewriteOldAddress(r) ==
    [epoch |-> r.epoch, leaderEpoch |-> r.leaderEpoch, configEpoch |-> r.configEpoch,
     addr |-> r.addr, slaves |-> r.slaves, sentinels |-> r.sentinels]

\* The lines of the configuration file that outlive the process.
Rewrite(r) ==
    LET addr == CurrentMasterAddress(r)
    IN  [epoch |-> r.epoch, leaderEpoch |-> r.leaderEpoch,
         configEpoch |-> r.configEpoch, addr |-> addr,
         slaves |-> {IF i = addr THEN r.addr ELSE i : i \in r.slaves},
         sentinels |-> r.sentinels]

\* sentinelFlushConfig, and its werr: a warning is logged, the file is what it was
\* when the callback began, and the caller goes on.
FlushConfig(r) == [r EXCEPT !.disk = Rewrite(r), !.behind = FALSE]
FlushFails(r, disk) == [r EXCEPT !.disk = disk, !.behind = TRUE]

\* A Sentinel that has read its configuration file: what is not in the file is
\* as createSentinelRedisInstance leaves it.
HandleConfiguration(d) ==
    [epoch |-> d.epoch, leader |-> None, leaderEpoch |-> d.leaderEpoch,
     configEpoch |-> d.configEpoch, addr |-> d.addr, slaves |-> d.slaves,
     sentinels |-> d.sentinels, sdown |-> FALSE, odown |-> FALSE,
     roleReported |-> "master", masterDown |-> {},
     votes |-> [t \in Sentinel |-> NoVote], failover |-> "none",
     failoverEpoch |-> 0, forced |-> FALSE, promoted |-> None,
     reconf |-> [i \in Instance |-> {}], disk |-> d, behind |-> FALSE]

\* Mutant: the epoch of the vote is reset with the rest.
ResetMasterVote(r, sentinels) ==
    [r EXCEPT !.slaves = {}, !.sentinels = sentinels, !.leader = None,
              !.leaderEpoch = 0, !.failover = "none", !.promoted = None,
              !.reconf = [i \in Instance |-> {}]]

\* sentinelResetMaster: the epoch of the last vote stays.
ResetMaster(r, sentinels) ==
    [r EXCEPT !.slaves = {}, !.sentinels = sentinels,
              !.sdown = FALSE, !.odown = FALSE, !.forced = FALSE,
              !.leader = None, !.failover = "none", !.promoted = None,
              !.roleReported = "master",
              !.masterDown = @ \cap sentinels,
              !.votes = [t \in Sentinel |-> IF t \in sentinels THEN @[t] ELSE NoVote],
              !.reconf = [i \in Instance |-> {}]]

ResetMasterAndChangeAddress(r, addr) ==
    LET back == (r.slaves \ {addr}) \cup ({r.addr} \ {addr})
    IN  FlushConfig([ResetMaster(r, r.sentinels) EXCEPT !.addr = addr, !.slaves = back])

-----------------------------------------------------------------------------
\* Votes.

\* sentinelVoteLeader: a vote is cast once per epoch and saved before it is told.
VoteLeader(r, reqEpoch, runid) ==
    LET seen == IF reqEpoch > r.epoch THEN FlushConfig([r EXCEPT !.epoch = reqEpoch]) ELSE r
    IN  IF seen.leaderEpoch < reqEpoch /\ seen.epoch <= reqEpoch
        THEN FlushConfig([seen EXCEPT !.leader = runid, !.leaderEpoch = seen.epoch])
        ELSE seen

\* The votes of the others that sentinelGetLeader counts for c.
VotesFor(r, c) ==
    Cardinality({t \in r.sentinels : r.votes[t] = [leader |-> c, epoch |-> r.epoch]})

\* A candidate with the most of them; the dictionary decides between equals.
MostVoted(r) ==
    LET voted == {c \in Sentinel : VotesFor(r, c) > 0}
    IN  IF voted = {} THEN {None}
        ELSE {c \in voted : \A d \in voted : VotesFor(r, d) <= VotesFor(r, c)}

\* Does s win, r being its record after its own vote and top the candidate that
\* led before it?
GetLeader(r, s, top) ==
    LET others == IF top = None THEN 0 ELSE VotesFor(r, top)
        mine   == r.leader # None /\ r.leaderEpoch = r.failoverEpoch
        own    == IF mine THEN VotesFor(r, r.leader) + 1 ELSE 0
        winner == IF own > others THEN r.leader ELSE top
        votes  == Max({own, others})
        voters == Cardinality(r.sentinels) + 1
    IN  winner = s /\ votes >= voters \div 2 + 1 /\ votes >= Quorum

-----------------------------------------------------------------------------
\* The failover state machine.

StartFailover(r) ==
    [r EXCEPT !.failover = "wait_start", !.epoch = @ + 1, !.failoverEpoch = r.epoch + 1]

AbortFailover(r) ==
    [r EXCEPT !.failover = "none", !.forced = FALSE, !.promoted = None]

CheckObjectivelyDown(r) ==
    [r EXCEPT !.odown = r.sdown /\ 1 + Cardinality(r.masterDown) >= Quorum]

\* Whether the last attempt is long enough ago is a choice.
StartFailoverIfNeeded(r) ==
    IF r.odown /\ r.failover = "none" /\ r.epoch < MaxEpoch
    THEN {r, StartFailover(r)} ELSE {r}

\* compareSlavesForPromotion, up to the order of run ids.
Better(i, j) ==
    \/ Priority[i] < Priority[j]
    \/ Priority[i] = Priority[j] /\ Offset[i] > Offset[j]

\* The slaves sentinelSelectSlave may return, when those of fresh are up and
\* replied lately.
SelectSlave(fresh) ==
    LET good == {i \in fresh : Priority[i] # 0}
    IN  {i \in good : \A j \in good : ~Better(j, i)}

FailoverWaitStart(r, s, late) ==
    {LET voted == VoteLeader(r, r.failoverEpoch, IF top = None THEN s ELSE top)
     IN  IF GetLeader(voted, s, top) \/ r.forced
         THEN [voted EXCEPT !.failover = "select_slave"]
         ELSE IF late THEN AbortFailover(voted) ELSE voted
        : top \in MostVoted(r)}

FailoverSelectSlave(r, fresh) ==
    LET good == SelectSlave(fresh)
    IN  IF good = {} THEN {AbortFailover(r)}
        ELSE {[r EXCEPT !.promoted = i, !.failover = "send_slaveof_noone"] : i \in good}

FailoverSendSlaveOfNoOne(r, connected, late) ==
    IF r.promoted \in connected THEN [r EXCEPT !.failover = "wait_promotion"]
    ELSE IF late THEN AbortFailover(r) ELSE r

FailoverWaitPromotion(r, late) == IF late THEN AbortFailover(r) ELSE r

\* sentinelFailoverReconfNextSlave: the slaves it writes to, and those among the
\* ones written to before that it stops waiting for (slow).  A slave it stops
\* waiting for is written to again, as far as there is room.
ReconfChoices(r, connected) ==
    LET rest == {i \in r.slaves \ {r.promoted} : "done" \notin r.reconf[i]}
        todo == {i \in rest : r.reconf[i] = {}} \cap connected
        sent == {i \in rest : "sent" \in r.reconf[i]}
        room == ParallelSyncs - Cardinality({i \in r.slaves :
                                    r.reconf[i] \cap {"sent", "inprog"} # {}})
    IN  IF room <= 0 THEN {[to |-> {}, slow |-> {}]}
        ELSE {c \in [to : SUBSET (todo \cup (sent \cap connected)), slow : SUBSET sent] :
                 /\ c.to \cap sent = c.slow \cap connected
                 /\ Cardinality(c.to) <= room
                 /\ Cardinality(c.to) = room \/ todo \subseteq c.to}

FailoverReconfNextSlave(r, c) ==
    [r EXCEPT !.reconf = [i \in Instance |->
        ((IF i \in c.slow THEN (@[i] \ {"sent"}) \cup {"done"} ELSE @[i])
            \cup (IF i \in c.to THEN {"sent"} ELSE {}))]]

\* sentinelFailoverDetectEnd: whether it ends, and the slaves written to when it
\* ends for want of time.  The slaves of up are not subjectively down.
EndReached(r, up, late) ==
    LET waiting == {i \in (r.slaves \cap up) \ {r.promoted} : "done" \notin r.reconf[i]}
    IN  r.promoted \in up /\ (late \/ waiting = {})

BestEffort(r, up, connected, late) ==
    IF late /\ EndReached(r, up, late)
    THEN {i \in r.slaves \cap connected : r.reconf[i] \cap {"done", "sent"} = {}}
    ELSE {}

FailoverDetectEnd(r, up, connected, late) ==
    [r EXCEPT !.failover = IF EndReached(r, up, late) THEN "update_config" ELSE @,
              !.reconf = [i \in Instance |-> @[i] \cup
                            (IF i \in BestEffort(r, up, connected, late) THEN {"sent"} ELSE {})]]

\* At the end of a round over the masters.
SwitchToPromotedSlave(r) ==
    IF r.failover # "update_config" THEN r
    ELSE ResetMasterAndChangeAddress(r, IF r.promoted = None THEN r.addr ELSE r.promoted)

\* One round of the state machine: what becomes of the record, and the servers
\* that are told to replicate the promoted slave (or, it, nobody).
Quiet(r) == [rec |-> r, to |-> {}, target |-> None]

\* Whether a state has lasted too long is a choice, but not in the round that
\* starts the failover.
Late(started) == {l \in BOOLEAN : l => ~started}

FailoverStateMachine(r, s, connected, started) ==
    CASE r.failover = "wait_start" ->
           {Quiet(q) : q \in UNION {FailoverWaitStart(r, s, l) : l \in Late(started)}}
      [] r.failover = "select_slave" ->
           {Quiet(q) : q \in UNION {FailoverSelectSlave(r, f) : f \in SUBSET r.slaves}}
      [] r.failover = "send_slaveof_noone" ->
           {[rec |-> FailoverSendSlaveOfNoOne(r, connected, l),
             to |-> {r.promoted} \cap connected, target |-> None] : l \in Late(started)}
      [] r.failover = "wait_promotion" ->
           {Quiet(FailoverWaitPromotion(r, l)) : l \in Late(started)}
      [] r.failover = "reconf_slaves" ->
           {LET q == FailoverReconfNextSlave(r, c)
            IN  [rec |-> FailoverDetectEnd(q, up, connected, l),
                 to |-> c.to \cup BestEffort(q, up, connected, l), target |-> r.promoted]
              : c \in ReconfChoices(r, connected), up \in SUBSET r.slaves, l \in Late(started)}
      [] OTHER -> {Quiet(r)}

-----------------------------------------------------------------------------
\* Actions.

Init ==
    /\ sen = [s \in Sentinel |-> HandleConfiguration(
                 [epoch |-> 0, leaderEpoch |-> 0, configEpoch |-> 0, addr |-> FirstMaster,
                  slaves |-> Instance \ {FirstMaster}, sentinels |-> Sentinel \ {s}])]
    /\ link = [s \in Sentinel |-> [t \in Sentinel |-> Idle]]
    /\ cmd = [s \in Sentinel |-> [i \in Instance |-> Idle]]
    /\ masterOf = [i \in Instance |-> IF i = FirstMaster THEN None ELSE FirstMaster]
    /\ faults = 0
    /\ ballots = {} /\ unsaved = 0 /\ lost = {}

\* s becomes r, with or without the file it has written, and what it has done is
\* written down for the properties.
Becomes(s, r) ==
    /\ \/ sen' = [sen EXCEPT ![s] = r] /\ UNCHANGED unsaved
       \/ /\ r.disk # sen[s].disk
          /\ faults + unsaved < MaxFaults /\ unsaved' = unsaved + 1
          /\ sen' = [sen EXCEPT ![s] = FlushFails(r, sen[s].disk)]
    /\ ballots' = IF r.leader = None THEN ballots
                  ELSE ballots \cup {[voter |-> s, epoch |-> r.leaderEpoch, for |-> r.leader]}

Fault == faults + unsaved < MaxFaults /\ faults' = faults + 1

SendSlaveOf(s, to, target) ==
    cmd' = [cmd EXCEPT ![s] = [i \in Instance |->
               IF i \in to THEN [kind |-> "slaveof", of |-> target] ELSE @[i]]]

\* sentinelCheckSubjectivelyDown for the master; for a slave the outcome is a
\* choice where it is used.
CheckSubjectivelyDown(s) ==
    /\ IF sen[s].sdown THEN Fault ELSE UNCHANGED faults
    /\ Becomes(s, [sen[s] EXCEPT !.sdown = ~@])
    /\ UNCHANGED <<link, cmd, masterOf, lost>>

\* sentinelAskMasterStateToOtherSentinels
AskMasterState(s, r) ==
    link' = [link EXCEPT ![s] = [t \in Sentinel |->
        IF r.sdown /\ t \in r.sentinels /\ @[t] = Idle
        THEN [kind |-> "ask", addr |-> r.addr, epoch |-> r.epoch,
              runid |-> IF r.failover # "none" THEN s ELSE None]
        ELSE @[t]]]

\* The reply of t is too old to count.
ForgetReply(s, t) ==
    /\ t \in sen[s].sentinels /\ Fault
    /\ Becomes(s, [sen[s] EXCEPT !.masterDown = @ \ {t}, !.votes[t].leader = None])
    /\ UNCHANGED <<link, cmd, masterOf, lost>>

\* The acting half of the timer for the master, then the switch that ends a
\* failover.
HandleRedisInstance(s) ==
    LET r == CheckObjectivelyDown(sen[s])
        connected == {i \in Instance : cmd[s][i] = Idle}
    IN  \E q \in StartFailoverIfNeeded(r) :
        \E o \in FailoverStateMachine(q, s, connected, q # r) :
            /\ Becomes(s, SwitchToPromotedSlave(o.rec))
            /\ SendSlaveOf(s, o.to, o.target)
            /\ AskMasterState(s, o.rec)
            /\ UNCHANGED <<masterOf, faults, lost>>

\* SENTINEL is-master-down-by-addr, at t.  In TILT mode, after a jump of its
\* clock, t does not say that the master is down; otherwise TILT only makes a
\* Sentinel wait.
IsMasterDownByAddr(s, t) ==
    /\ link[s][t].kind = "ask"
    /\ LET q == link[s][t]
           r == sen[t]
           known == r.addr = q.addr
           v == IF known /\ q.runid # None THEN VoteLeader(r, q.epoch, q.runid) ELSE r
           asked == known /\ q.runid # None
       IN  \E tilt \in BOOLEAN :
           /\ IF tilt THEN r.sdown /\ Fault ELSE UNCHANGED faults
           /\ Becomes(t, v)
           /\ link' = [link EXCEPT ![s][t] =
                  [kind |-> "reply", down |-> ~tilt /\ known /\ r.sdown,
                   leader |-> IF asked THEN v.leader ELSE None,
                   epoch |-> IF asked THEN v.leaderEpoch ELSE 0]]
    /\ UNCHANGED <<cmd, masterOf, lost>>

ReceiveIsMasterDownReply(s, t) ==
    /\ link[s][t].kind = "reply"
    /\ LET a == link[s][t]
       IN  Becomes(s, [sen[s] EXCEPT
              !.masterDown = IF a.down THEN @ \cup {t} ELSE @ \ {t},
              !.votes[t] = IF a.leader # None THEN [leader |-> a.leader, epoch |-> a.epoch]
                           ELSE @])
    /\ link' = [link EXCEPT ![s][t] = Idle]
    /\ UNCHANGED <<cmd, masterOf, faults, lost>>

\* The connection breaks and what was on its way is lost.
LinkConnectionError(s, t) ==
    /\ link[s][t] # Idle /\ Fault
    /\ link' = [link EXCEPT ![s][t] = Idle]
    /\ UNCHANGED <<sen, cmd, masterOf, ballots, unsaved, lost>>

\* s publishes a hello and t reads it (sentinelSendHello and
\* sentinelProcessHelloMessage).
Hello(s, t) ==
    /\ s # t
    /\ LET m  == [from |-> s, epoch |-> sen[s].epoch, configEpoch |-> sen[s].configEpoch,
                  addr |-> CurrentMasterAddress(sen[s])]
           r  == sen[t]
           r1 == IF m.from \in r.sentinels THEN r
                 ELSE FlushConfig([r EXCEPT !.sentinels = @ \cup {m.from}])
           r2 == IF m.epoch > r1.epoch THEN FlushConfig([r1 EXCEPT !.epoch = m.epoch]) ELSE r1
           r3 == IF m.configEpoch > r2.configEpoch
                 THEN [r2 EXCEPT !.configEpoch = m.configEpoch] ELSE r2
       IN  Becomes(t, IF m.configEpoch > r2.configEpoch /\ m.addr # r2.addr
                      THEN ResetMasterAndChangeAddress(r3, m.addr) ELSE r3)
    /\ UNCHANGED <<link, cmd, masterOf, faults, lost>>

\* sentinelRefreshInstanceInfo for the master: its role and its new slaves.
RefreshMasterInfo(s) ==
    /\ LET r == sen[s]
           new == {i \in Instance : masterOf[i] = r.addr} \ r.slaves
           q == [r EXCEPT !.roleReported = IF masterOf[r.addr] = None THEN "master" ELSE "slave",
                          !.slaves = @ \cup new]
       IN  Becomes(s, IF new = {} THEN q ELSE FlushConfig(q))
    /\ UNCHANGED <<link, cmd, masterOf, faults, lost>>

MasterLooksSane(r) == r.roleReported = "master" /\ ~r.sdown /\ ~r.odown

\* The flags of a slave that reports to be one: whether it says that its link to
\* its master is up is a choice.
ReconfProgress(r, i) ==
    LET f == IF "sent" \in r.reconf[i] /\ masterOf[i] = r.promoted
             THEN (r.reconf[i] \ {"sent"}) \cup {"inprog"} ELSE r.reconf[i]
    IN  IF "inprog" \in f THEN {f, (f \ {"inprog"}) \cup {"done"}} ELSE {f}

\* sentinelRefreshInstanceInfo for slave i: its promotion is acknowledged, or it
\* is told to follow the master after all (fix), and it moves on in the
\* reconfiguration.
RefreshSlaveInfo(s, i) ==
    /\ i \in sen[s].slaves
    /\ LET r == sen[s]
           isMaster == masterOf[i] = None
           wrong == IF isMaster THEN r.promoted # i ELSE masterOf[i] # r.addr
           mayFix == wrong /\ MasterLooksSane(r) /\ cmd[s][i] = Idle
       IN  IF isMaster /\ r.promoted = i /\ r.failover = "wait_promotion"
           THEN /\ Becomes(s, FlushConfig([r EXCEPT !.configEpoch = r.failoverEpoch,
                                                    !.failover = "reconf_slaves"]))
                /\ UNCHANGED <<cmd, faults>>
           ELSE \E fix \in BOOLEAN,
                   f \in (IF isMaster THEN {r.reconf[i]} ELSE ReconfProgress(r, i)) :
                /\ IF fix THEN mayFix /\ Fault ELSE UNCHANGED faults
                /\ SendSlaveOf(s, IF fix THEN {i} ELSE {}, r.addr)
                /\ Becomes(s, [r EXCEPT !.reconf[i] = f])
    /\ UNCHANGED <<link, masterOf, lost>>

\* Server i executes the SLAVEOF of s, or the connection breaks before it does.
SlaveOf(s, i) ==
    /\ cmd[s][i] # Idle
    /\ cmd' = [cmd EXCEPT ![s][i] = Idle]
    /\ \/ masterOf' = [masterOf EXCEPT ![i] = cmd[s][i].of] /\ UNCHANGED faults
       \/ Fault /\ UNCHANGED masterOf
    /\ UNCHANGED <<sen, link, ballots, unsaved, lost>>

\* SENTINEL FAILOVER
FailoverCommand(s) ==
    /\ sen[s].epoch < MaxEpoch /\ Fault
    /\ sen[s].failover = "none" /\ SelectSlave(sen[s].slaves) # {}
    /\ Becomes(s, [StartFailover(sen[s]) EXCEPT !.forced = TRUE])
    /\ UNCHANGED <<link, cmd, masterOf, lost>>

\* SENTINEL RESET
ResetCommand(s) ==
    /\ Fault
    /\ Becomes(s, ResetMaster(sen[s], {}))
    /\ link' = [link EXCEPT ![s] = [t \in Sentinel |-> Idle]]
    /\ UNCHANGED <<cmd, masterOf, lost>>

\* s dies and is started again with its configuration file.
Restart(s) ==
    /\ IF sen[s].behind THEN UNCHANGED faults ELSE Fault
    /\ Becomes(s, HandleConfiguration(sen[s].disk))
    /\ lost' = IF sen[s].behind THEN lost \cup {s} ELSE lost
    /\ link' = [u \in Sentinel |-> [t \in Sentinel |->
                   IF s \in {u, t} THEN Idle ELSE link[u][t]]]
    /\ UNCHANGED <<cmd, masterOf>>

Next ==
    \/ \E s \in Sentinel : \/ CheckSubjectivelyDown(s)
                           \/ HandleRedisInstance(s)
                           \/ RefreshMasterInfo(s)
                           \/ FailoverCommand(s)
                           \/ ResetCommand(s)
                           \/ Restart(s)
    \/ \E s, t \in Sentinel : \/ ForgetReply(s, t)
                              \/ IsMasterDownByAddr(s, t)
                              \/ ReceiveIsMasterDownReply(s, t)
                              \/ Hello(s, t)
                              \/ LinkConnectionError(s, t)
    \/ \E s \in Sentinel, i \in Instance : \/ RefreshSlaveInfo(s, i)
                                           \/ SlaveOf(s, i)

Spec == Init /\ [][Next]_vars

-----------------------------------------------------------------------------
Saved(s) ==
    [epoch : Epoch, leaderEpoch : Epoch, configEpoch : Epoch, addr : Instance,
     slaves : SUBSET Instance, sentinels : SUBSET (Sentinel \ {s})]

SentinelState(s) ==
    [epoch : Epoch, leader : Candidate, leaderEpoch : Epoch, configEpoch : Epoch,
     addr : Instance, slaves : SUBSET Instance, sentinels : SUBSET (Sentinel \ {s}),
     sdown : BOOLEAN, odown : BOOLEAN, roleReported : {"master", "slave"},
     masterDown : SUBSET Sentinel,
     votes : [Sentinel -> [leader : Candidate, epoch : Epoch]],
     failover : FailoverState, failoverEpoch : Epoch, forced : BOOLEAN,
     promoted : Address, reconf : [Instance -> Reconf], disk : Saved(s), behind : BOOLEAN]

LinkState ==
    {Idle} \cup [kind : {"ask"}, addr : Instance, epoch : Epoch, runid : Candidate]
           \cup [kind : {"reply"}, down : BOOLEAN, leader : Candidate, epoch : Epoch]

\* The types of the variables.
TypeOK ==
    /\ DOMAIN sen = Sentinel /\ \A s \in Sentinel : sen[s] \in SentinelState(s)
    /\ link \in [Sentinel -> [Sentinel -> LinkState]]
    /\ cmd \in [Sentinel -> [Instance -> {Idle} \cup [kind : {"slaveof"}, of : Address]]]
    /\ masterOf \in [Instance -> Address]
    /\ faults \in 0..MaxFaults
    /\ ballots \subseteq [voter : Sentinel, epoch : Epoch, for : Sentinel]
    /\ unsaved \in 0..MaxFaults /\ lost \subseteq Sentinel

\* A Sentinel never casts two votes in one epoch, whatever is reset, restarted
\* or asked again in between: sentinelVoteLeader saves leader_epoch before it
\* answers, and sentinelResetMaster forgets the leader but not the epoch.  Only
\* one that was started again after sentinelFlushConfig had failed may: the vote
\* goes out all the same.
OneVotePerEpoch ==
    \A b, c \in ballots :
        b.voter = c.voter /\ b.epoch = c.epoch /\ b.voter \notin lost => b.for = c.for

\* The master a Sentinel hands out changes only together with its configuration
\* epoch: it rises to another address's, or, where a promoted slave has just
\* confirmed its role, it becomes the epoch of the failover that this Sentinel
\* was elected for.  A restart in the middle of a failover changes nothing, unless
\* the file could not be written before; only SENTINEL RESET, which leaves no
\* slaves and is not saved by itself, takes a failover back.
AddressFollowsEpoch ==
    [][\A s \in Sentinel :
          CurrentMasterAddress(sen[s]') # CurrentMasterAddress(sen[s])
             => \/ sen[s].configEpoch < sen[s]'.configEpoch
                \/ /\ sen[s].failover = "wait_promotion"
                   /\ sen[s]'.configEpoch = sen[s].failoverEpoch
                \/ {} \in {sen[s].slaves, sen[s]'.slaves}
                \/ sen[s].behind /\ Restart(s)]_vars

=============================================================================
