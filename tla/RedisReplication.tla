-------------------------- MODULE RedisReplication --------------------------
(***************************************************************************)
(* Replication between Redis servers (replication.c of the bundled Redis): *)
(* the backlog and the replication ids of a server, PSYNC with its partial *)
(* and full resynchronizations, the RDB a full one rests on, the stream    *)
(* that is proxied to sub-slaves, and what a promotion, a demotion or a    *)
(* restart makes of all that.                                              *)
(*                                                                         *)
(* A command is one unit of the stream, so that offsets count commands.    *)
(* The data of a server is the sequence of the writes it has applied, each *)
(* with the database it went to.  srv[s] is the state of server s, with a  *)
(* client slv[t] for every slave; link[t] is the connection of t to its    *)
(* master, with the bytes that t has not read yet.                         *)
(***************************************************************************)
EXTENDS Integers, Sequences, FiniteSets, SequencesExt

CONSTANTS
    Server,      \* the servers
    None,        \* NULL
    Host0,       \* the slaveof directives of the configuration files
    BacklogSize, \* repl-backlog-size, in commands
    MaxWrites,   \* bound on the writes
    MaxIds,      \* bound on the replication ids
    MaxOps       \* bound on commands of the operator, restarts and failures

Db == {0, 1}
NoId == 0        \* a cleared replid2
AskFull == -1    \* the id "?" of a PSYNC
NoDb == -1       \* slaveseldb, and the stream db of an RDB without it

\* What the stream consists of, what it makes of the data, and what a file keeps.
Command == [type : {"select"}, db : Db] \cup [type : {"write"}, w : Nat]
Data == Seq([w : Nat, db : Db])
File == [db : Data, sel : Db \cup {NoDb}, id : Nat, off : Nat]
Child == [type : {"disk", "socket"}, file : File]

ASSUME ReplicationConstants ==
    /\ IsFiniteSet(Server) /\ None \notin Server
    /\ Host0 \in [Server -> Server \cup {None}]
    /\ \A s \in Server : Host0[s] # s
    /\ Cardinality({s \in Server : Host0[s] = None}) = 1
    /\ BacklogSize \in Nat \ {0}
    /\ MaxWrites \in Nat /\ MaxIds \in Nat \ {0} /\ MaxOps \in Nat
    /\ None \notin Seq(Command) \cup Child

VARIABLES
    srv,     \* the servers
    link,    \* the connections of slaves to their masters
    writes,  \* the writes so far: writes[i] is the database write i is for
    ids,     \* the replication ids made so far
    ops      \* how many of the bounded events there were

vars == <<srv, link, writes, ids, ops>>

NoClient == [st |-> "none", buf |-> <<>>, init |-> 0]
NoLink == [to |-> None, open |-> FALSE, q |-> <<>>]
NoFile == [db |-> <<>>, sel |-> NoDb, id |-> NoId, off |-> 0]

-----------------------------------------------------------------------------
\* The functions of replication.c, on the record g of srv and link.

SlavesOf(g, s) == {t \in Server : g.srv[s].slv[t].st # "none"}

\* freeClient of the slaves T.  What is in their sockets can still be read.
CloseSlaves(g, s, T) ==
    [srv |-> [g.srv EXCEPT ![s].slv = [t \in Server |-> IF t \in T THEN NoClient ELSE g.srv[s].slv[t]]],
     link |-> [t \in Server |-> IF t \in T /\ g.link[t].to = s THEN [g.link[t] EXCEPT !.open = FALSE]
                                ELSE g.link[t]]]

DisconnectSlaves(g, s) == CloseSlaves(g, s, Server)

\* The slave t closes its connection.
CloseLink(g, t) ==
    LET s == g.link[t].to
        h == IF s # None /\ g.link[t].open THEN CloseSlaves(g, s, {t}) ELSE g
    IN  [h EXCEPT !.link[t] = NoLink]

\* The next bytes in the sockets of the slaves T.
SendTo(g, T, msgs) ==
    [g EXCEPT !.link = [t \in Server |-> IF t \in T THEN [g.link[t] EXCEPT !.q = @ \o msgs]
                                         ELSE g.link[t]]]

\* createReplicationBacklog and resizeReplicationBacklog: an empty history.
CreateBacklog(g, s) == [g EXCEPT !.srv[s].backlog = <<>>]

BacklogOff(r) == r.off - Len(r.backlog) + 1

ClearReplicationId2(g, s) == [g EXCEPT !.srv[s] = [@ EXCEPT !.id2 = NoId, !.off2 = -1]]

\* changeReplicationId: the ids are random, so that the next one is new.
ChangeReplicationId(g, s) == [g EXCEPT !.srv[s].id = ids + 1]

\* Mutant: the second id is good for one offset too many.
ShiftReplicationIdTooFar(g, s) ==
    ChangeReplicationId([g EXCEPT !.srv[s] = [@ EXCEPT !.id2 = g.srv[s].id, !.off2 = g.srv[s].off + 2]], s)

ShiftReplicationId(g, s) ==
    ChangeReplicationId([g EXCEPT !.srv[s] = [@ EXCEPT !.id2 = g.srv[s].id, !.off2 = g.srv[s].off + 1]], s)

\* feedReplicationBacklog, and the output buffers of the slaves that do not wait
\* for a BGSAVE to start.
Feed(g, s, msgs) ==
    LET r   == g.srv[s]
        all == r.backlog \o msgs
        b   == SubSeq(all, IF Len(all) > BacklogSize THEN Len(all) - BacklogSize + 1 ELSE 1, Len(all))
        q   == IF r.backlog = None THEN r
               ELSE [r EXCEPT !.off = @ + Len(msgs), !.backlog = b]
        c   == [t \in Server |-> IF r.slv[t].st \in {"end", "ack"}
                                 THEN [r.slv[t] EXCEPT !.buf = @ \o msgs] ELSE r.slv[t]]
    IN  SendTo([g EXCEPT !.srv[s] = [q EXCEPT !.slv = c]], {t \in Server : r.slv[t].st = "online"}, msgs)

\* Mutant: the RDB does not say which database the stream is at.
StreamDbUnknown(r) ==
    IF (r.host = None /\ r.backlog # None) \/ r.state = "connected" \/ r.cached # None THEN 0 ELSE NoDb

\* rdbPopulateSaveInfo, and what rdbSaveInfoAuxFields writes of it.
StreamDb(r) ==
    IF r.host = None /\ r.backlog # None THEN IF r.seldb = NoDb THEN 0 ELSE r.seldb
    ELSE IF r.state = "connected" THEN r.sel
    ELSE IF r.cached # None THEN r.cached.sel ELSE NoDb

Snapshot(r) == [db |-> r.db, sel |-> StreamDb(r),
                id |-> IF StreamDb(r) = NoDb THEN NoId ELSE r.id, off |-> r.off]

\* replicationSetupSlaveForFullResync, for the slaves T.
SetupForFullResync(g, s, T, init) ==
    LET c == [t \in Server |-> IF t \in T THEN [g.srv[s].slv[t] EXCEPT !.st = "end", !.init = init]
                               ELSE g.srv[s].slv[t]]
    IN  SendTo([g EXCEPT !.srv[s].slv = c, !.srv[s].seldb = NoDb], T,
               <<[type |-> "fullresync", id |-> g.srv[s].id, off |-> init]>>)

Waiting(g, s) == {t \in Server : g.srv[s].slv[t].st = "start"}

\* startBgsaveForReplication.  rdbSaveToSlavesSockets: the child writes the payload
\* to the sockets of the slaves right away.
StartBgsave(g, s, type) ==
    LET r == g.srv[s]
        setup == SetupForFullResync(g, s, Waiting(g, s), r.off)
        sent == IF type = "socket"
                THEN SendTo(setup, Waiting(g, s), <<[type |-> "rdb", file |-> Snapshot(r)]>>) ELSE setup
    IN  [sent EXCEPT !.srv[s].child = [type |-> type, file |-> Snapshot(r)]]

\* ... and when there is no BGSAVE: the waiting slaves get an error and are closed.
BgsaveFailed(g, s) ==
    CloseSlaves(SendTo(g, Waiting(g, s), <<[type |-> "error"]>>), s, Waiting(g, s))

CanBgsave(g, s) == StreamDb(g.srv[s]) # NoDb

\* putSlaveOnline, for the slaves T: what was accumulated follows.
PutOnline(g, s, T) ==
    [srv |-> [g.srv EXCEPT ![s].slv = [t \in Server |->
                 IF t \in T THEN [g.srv[s].slv[t] EXCEPT !.st = "online", !.buf = <<>>] ELSE g.srv[s].slv[t]]],
     link |-> [t \in Server |-> IF t \in T THEN [g.link[t] EXCEPT !.q = @ \o g.srv[s].slv[t].buf]
                                ELSE g.link[t]]]

\* The end of the payload never comes: it does not count as sent.
DropPayload(q) == IF q # <<>> /\ q[Len(q)].type = "rdb" THEN SubSeq(q, 1, Len(q) - 1) ELSE q

\* updateSlavesWaitingBgsave, the slaves that wait for the end.
WaitingEnd(g, s) == {t \in Server : g.srv[s].slv[t].st = "end"}

FinishSlaves(g, s, ok) ==
    LET c == g.srv[s].child
        T == WaitingEnd(g, s)
        h == CloseSlaves(g, s, T)
    IN  CASE ~ok -> [h EXCEPT !.link = [t \in Server |->
                        IF t \in T THEN [h.link[t] EXCEPT !.q = DropPayload(@)] ELSE h.link[t]]]
          [] ok /\ c.type = "disk" -> PutOnline(SendTo(g, T, <<[type |-> "rdb", file |-> c.file]>>), s, T)
          [] ok /\ c.type = "socket" -> [g EXCEPT !.srv[s].slv = [t \in Server |->
                        IF t \in T THEN [g.srv[s].slv[t] EXCEPT !.st = "ack"] ELSE g.srv[s].slv[t]]]

\* masterTryPartialResynchronization
CanContinue(r, req) ==
    /\ req.id = r.id \/ (req.id = r.id2 /\ req.off <= r.off2)
    /\ r.backlog # None
    /\ req.off >= BacklogOff(r)
    /\ req.off <= BacklogOff(r) + Len(r.backlog)

Continue(g, s, t, req) ==
    LET r == g.srv[s]
    IN  SendTo([g EXCEPT !.srv[s].slv[t] = [NoClient EXCEPT !.st = "online"]], {t},
               <<[type |-> "continue", id |-> r.id]>> \o
                  SubSeq(r.backlog, req.off - BacklogOff(r) + 1, Len(r.backlog)))

\* syncCommand, up to the BGSAVE: the first slave brings a backlog and a new id.
AddSlave(g, s, t) ==
    LET h == [g EXCEPT !.srv[s].slv[t] = [NoClient EXCEPT !.st = "start"]]
    IN  IF SlavesOf(g, s) = {} /\ g.srv[s].backlog = None
        THEN CreateBacklog(ClearReplicationId2(ChangeReplicationId(h, s), s), s) ELSE h

\* Another slave waits for the end of the BGSAVE that t can use as well.
AttachTo(g, s, t, x) ==
    LET c == g.srv[s].slv[x]
    IN  SetupForFullResync([g EXCEPT !.srv[s].slv[t].buf = c.buf], s, {t}, c.init)

\* replicationCacheMaster with replicationHandleMasterDisconnection, or
\* cancelReplicationHandshake: the link of a slave is gone.
LoseMaster(g, t) ==
    LET r == g.srv[t]
        h == CloseLink(g, t)
    IN  CASE r.state = "connected" ->
               [h EXCEPT !.srv[t] = [@ EXCEPT !.cached = [id |-> r.mid, off |-> r.moff, sel |-> r.sel],
                                              !.state = "connect"]]
          [] r.state \in {"psync", "transfer"} -> [h EXCEPT !.srv[t].state = "connect"]
          [] OTHER -> h

\* replicationCacheMasterUsingMyself: createClient selects database 0.
CacheMasterUsingMyself(g, s) ==
    [g EXCEPT !.srv[s].cached = [id |-> g.srv[s].id, off |-> g.srv[s].off, sel |-> 0]]

\* replicationSetMaster
SetMaster(g, s, t) ==
    LET h == DisconnectSlaves(LoseMaster(g, s), s)
        i == IF g.srv[s].host = None THEN CacheMasterUsingMyself(h, s) ELSE h
    IN  [i EXCEPT !.srv[s] = [@ EXCEPT !.host = t, !.state = "connect"]]

\* replicationUnsetMaster.  It shifts the id first; the shift reads only the id and
\* the offset, which the other calls leave alone.
UnsetMaster(g, s) ==
    LET h == ShiftReplicationId(DisconnectSlaves(LoseMaster(g, s), s), s)
    IN  [h EXCEPT !.srv[s] = [@ EXCEPT !.host = None, !.cached = None, !.state = "none", !.seldb = NoDb]]

\* slaveTryPartialResynchronization, +FULLRESYNC, and what syncWithMaster does
\* then: sub-slaves are to resynchronize as well.
BeginTransfer(g, t, id, off) ==
    LET h == DisconnectSlaves(g, t)
    IN  [h EXCEPT !.srv[t] = [@ EXCEPT !.cached = None, !.backlog = None, !.mid = id, !.moff = off,
                                       !.state = "transfer"]]

\* ... +CONTINUE: the id may be a new one.
ContinueWith(g, t, id) ==
    LET r == g.srv[t]
        c == r.cached
        new == id # c.id
        h == IF new THEN DisconnectSlaves(g, t) ELSE g
        q == h.srv[t]
        i == [h EXCEPT !.srv[t] = [q EXCEPT
                  !.id2 = IF new THEN c.id ELSE q.id2, !.off2 = IF new THEN r.off + 1 ELSE q.off2,
                  !.id = IF new THEN id ELSE q.id,
                  !.mid = id, !.moff = c.off, !.sel = c.sel, !.cached = None, !.state = "connected"]]
    IN  IF r.backlog = None THEN CreateBacklog(i, t) ELSE i

\* readSyncBulkPayload, at the end of the file.
LoadTransfer(g, t, file) ==
    LET r == g.srv[t]
        h == ClearReplicationId2([g EXCEPT !.srv[t] = [r EXCEPT
                !.db = file.db, !.sel = IF file.sel = NoDb THEN 0 ELSE file.sel,
                !.file = file, !.state = "connected", !.id = r.mid, !.off = r.moff]], t)
    IN  IF r.backlog = None THEN CreateBacklog(h, t) ELSE h

\* A command of the stream: processInputBuffer, and then
\* replicationFeedSlavesFromMasterStream.
ApplyCommand(g, t, m) ==
    LET r == g.srv[t]
        q == [r EXCEPT !.moff = @ + 1,
                       !.sel = IF m.type = "select" THEN m.db ELSE @,
                       !.db = IF m.type = "write" THEN Append(@, [w |-> m.w, db |-> r.sel]) ELSE @]
    IN  Feed([g EXCEPT !.srv[t] = q], t, <<m>>)

-----------------------------------------------------------------------------
\* Actions.

\* initServerConfig and initServer.
Fresh(host, id) ==
    [host |-> host, state |-> IF host = None THEN "none" ELSE "connect",
     id |-> id, id2 |-> NoId, off2 |-> -1, off |-> 0, backlog |-> None, seldb |-> NoDb,
     db |-> <<>>, cached |-> None, mid |-> NoId, moff |-> 0, sel |-> 0,
     child |-> None, file |-> NoFile, slv |-> [t \in Server |-> NoClient]]

\* The first synchronizations are over: all share the id of the top master.
Synced(s) ==
    [Fresh(Host0[s], 1) EXCEPT
        !.backlog = <<>>, !.file = [db |-> <<>>, sel |-> 0, id |-> 1, off |-> 0],
        !.state = IF Host0[s] = None THEN "none" ELSE "connected",
        !.mid = IF Host0[s] = None THEN NoId ELSE 1,
        !.slv = [t \in Server |-> IF Host0[t] = s THEN [NoClient EXCEPT !.st = "online"] ELSE NoClient]]

Init ==
    /\ srv = [s \in Server |-> Synced(s)]
    /\ link = [t \in Server |-> IF Host0[t] = None THEN NoLink
                               ELSE [to |-> Host0[t], open |-> TRUE, q |-> <<>>]]
    /\ writes = <<>> /\ ids = 1 /\ ops = 0

State == [srv |-> srv, link |-> link]

\* The step leads to g.
Becomes(g) ==
    /\ srv' = g.srv /\ link' = g.link
    /\ ids' = IF \E s \in Server : g.srv[s].id > ids THEN ids + 1 ELSE ids
    /\ ids' <= MaxIds

Operation == ops < MaxOps /\ ops' = ops + 1

\* A client writes to database d of a master.
Write(s, d) ==
    LET r == srv[s]
        n == Len(writes) + 1
        msgs == (IF r.seldb = d THEN <<>> ELSE <<[type |-> "select", db |-> d]>>)
                   \o <<[type |-> "write", w |-> n]>>
        g == [State EXCEPT !.srv[s].db = Append(@, [w |-> n, db |-> d])]
    IN  /\ r.host = None /\ n <= MaxWrites
        /\ Becomes(IF r.backlog = None /\ SlavesOf(State, s) = {} THEN g
                   ELSE Feed([g EXCEPT !.srv[s].seldb = d], s, msgs))
        /\ writes' = Append(writes, d)
        /\ UNCHANGED ops

\* The masters above t.
Above(t) ==
    LET up(T) == T \cup {srv[x].host : x \in T \ {None}}
        climb[n \in 0..Cardinality(Server)] == IF n = 0 THEN {t} ELSE up(climb[n - 1])
    IN  climb[Cardinality(Server)]

\* SLAVEOF host port, SLAVEOF NO ONE.  The operator makes no rings.
SlaveOf(s, t) ==
    /\ s # t /\ s \notin Above(t) /\ srv[s].host # t /\ Operation
    /\ Becomes(SetMaster(State, s, t))
    /\ UNCHANGED writes

SlaveOfNoOne(s) ==
    /\ srv[s].host # None /\ Operation
    /\ Becomes(UnsetMaster(State, s))
    /\ UNCHANGED writes

\* connectWithMaster, the handshake and the PSYNC of the slave: what it asks for.
PsyncRequest(r) == IF r.cached = None THEN [id |-> AskFull, off |-> -1]
                   ELSE [id |-> r.cached.id, off |-> r.cached.off + 1]

\* A slave connects and its master runs syncCommand.  A master that is itself a
\* slave without a link refuses with NOMASTERLINK, and the slave tries again.
\* With a diskless configuration, or an AOF rewrite under way, the BGSAVE is left
\* to replicationCron.
Sync(t) ==
    LET s == srv[t].host
        req == PsyncRequest(srv[t])
        g == [State EXCEPT !.srv[t].state = "psync",
                           !.link[t] = [to |-> s, open |-> TRUE, q |-> <<>>]]
        h == AddSlave(g, s, t)
    IN  /\ srv[t].state = "connect"
        /\ srv[s].host = None \/ srv[s].state = "connected"
        /\ IF CanContinue(srv[s], req) THEN Becomes(Continue(g, s, t, req))
           ELSE IF srv[s].child = None
           THEN \/ Becomes(h)
                \/ Becomes(IF CanBgsave(h, s) THEN StartBgsave(h, s, "disk") ELSE BgsaveFailed(h, s))
           ELSE IF srv[s].child.type = "disk" /\ WaitingEnd(h, s) # {}
           THEN \E x \in WaitingEnd(h, s) : Becomes(AttachTo(h, s, t, x))
           ELSE Becomes(h)
        /\ UNCHANGED <<writes, ops>>

\* replicationCron: slaves wait and there is no child.
CronBgsave(s, type) ==
    /\ srv[s].child = None /\ Waiting(State, s) # {}
    /\ Becomes(IF CanBgsave(State, s) THEN StartBgsave(State, s, type) ELSE BgsaveFailed(State, s))
    /\ UNCHANGED <<writes, ops>>

\* BGSAVE, or a save point of the configuration.
Bgsave(s) ==
    /\ srv[s].child = None /\ Operation
    /\ Becomes([State EXCEPT !.srv[s].child = [type |-> "disk", file |-> Snapshot(srv[s])]])
    /\ UNCHANGED writes

\* backgroundSaveDoneHandler
BgsaveDone(s, ok) ==
    LET c == srv[s].child
        g == [FinishSlaves(State, s, ok) EXCEPT !.srv[s].child = None,
                 !.srv[s].file = IF ok /\ c.type = "disk" THEN c.file ELSE srv[s].file]
    IN  /\ c # None
        /\ \/ ok /\ UNCHANGED ops
           \/ ~ok /\ Operation
        /\ IF Waiting(g, s) = {} THEN Becomes(g)
           ELSE IF CanBgsave(g, s) THEN \E type \in {"disk", "socket"} : Becomes(StartBgsave(g, s, type))
           ELSE Becomes(BgsaveFailed(g, s))
        /\ UNCHANGED writes

\* The slave reads the answer to its PSYNC.  After an error it tries SYNC on a
\* connection that the master closes.
ReceiveReply(t) ==
    LET m == Head(link[t].q)
        g == [State EXCEPT !.link[t].q = Tail(@)]
    IN  /\ srv[t].state = "psync" /\ link[t].q # <<>>
        /\ \/ m.type = "fullresync" /\ Becomes(BeginTransfer(g, t, m.id, m.off))
           \/ m.type = "continue" /\ Becomes(ContinueWith(g, t, m.id))
           \/ m.type = "error" /\ Becomes(BeginTransfer(g, t, srv[t].mid, -1))
        /\ UNCHANGED <<writes, ops>>

ReceiveRdb(t) ==
    /\ srv[t].state = "transfer" /\ link[t].q # <<>>
    /\ Becomes(LoadTransfer([State EXCEPT !.link[t].q = Tail(@)], t, Head(link[t].q).file))
    /\ UNCHANGED <<writes, ops>>

ReceiveCommand(t) ==
    /\ srv[t].state = "connected" /\ link[t].q # <<>>
    /\ Becomes(ApplyCommand([State EXCEPT !.link[t].q = Tail(@)], t, Head(link[t].q)))
    /\ UNCHANGED <<writes, ops>>

\* The first REPLCONF ACK after a payload that came through the socket.
Ack(s, t) ==
    /\ srv[s].slv[t].st = "ack"
    /\ srv[t].state = "connected" /\ link[t].to = s /\ link[t].open
    /\ Becomes(PutOnline(State, s, {t}))
    /\ UNCHANGED <<writes, ops>>

\* The connection ends: the slave notices that it was closed, or it breaks.
Disconnect(t) ==
    /\ srv[t].state \in {"psync", "transfer", "connected"}
    /\ IF link[t].open THEN Operation ELSE UNCHANGED ops
    /\ Becomes(LoseMaster(State, t))
    /\ UNCHANGED writes

\* replicationCron: a slave did not answer for repl-timeout.
SlaveTimeout(s, t) ==
    /\ srv[s].slv[t].st \in {"online", "ack"} /\ Operation
    /\ Becomes(CloseSlaves(State, s, {t}))
    /\ UNCHANGED writes

\* replicationCron: a master without slaves for repl-backlog-ttl.
FreeBacklog(s) ==
    /\ srv[s].host = None /\ srv[s].backlog # None /\ SlavesOf(State, s) = {} /\ Operation
    /\ Becomes([ClearReplicationId2(ChangeReplicationId(State, s), s) EXCEPT !.srv[s].backlog = None])
    /\ UNCHANGED writes

\* CONFIG SET repl-backlog-size
ResizeBacklog(s) ==
    /\ srv[s].backlog \notin {None, <<>>} /\ Operation
    /\ Becomes(CreateBacklog(State, s))
    /\ UNCHANGED writes

\* The process dies; loadDataFromDisk brings back the RDB file, and a slave its
\* id and offset.
Restart(s) ==
    LET r == srv[s]
        f == r.file
        g == DisconnectSlaves(CloseLink(State, s), s)
        new == [Fresh(r.host, ids + 1) EXCEPT !.db = f.db, !.file = f]
        back == [new EXCEPT !.id = f.id, !.off = f.off,
                            !.cached = [id |-> f.id, off |-> f.off, sel |-> f.sel]]
    IN  /\ Operation
        /\ Becomes([g EXCEPT !.srv[s] = IF r.host # None /\ f.sel # NoDb THEN back ELSE new])
        /\ UNCHANGED writes

Next ==
    \/ \E s \in Server : \/ \E d \in Db : Write(s, d)
                         \/ \E t \in Server : SlaveOf(s, t) \/ Ack(s, t) \/ SlaveTimeout(s, t)
                         \/ SlaveOfNoOne(s)
                         \/ \E type \in {"disk", "socket"} : CronBgsave(s, type)
                         \/ Bgsave(s)
                         \/ \E ok \in BOOLEAN : BgsaveDone(s, ok)
                         \/ FreeBacklog(s) \/ ResizeBacklog(s) \/ Restart(s)
    \/ \E t \in Server : \/ Sync(t) \/ ReceiveReply(t) \/ ReceiveRdb(t)
                         \/ ReceiveCommand(t) \/ Disconnect(t)

Spec == Init /\ [][Next]_vars

-----------------------------------------------------------------------------
\* The types of the variables; a server is a master when it has no host, and it
\* is not its own slave.
Client == [st : {"none", "start", "end", "ack", "online"}, buf : Seq(Command), init : Nat]
Message == Command \cup [type : {"fullresync"}, id : Nat, off : Nat] \cup [type : {"continue"}, id : Nat]
              \cup [type : {"error"}] \cup [type : {"rdb"}, file : File]
Link == [to : Server \cup {None}, open : BOOLEAN, q : Seq(Message)]
Record ==
    [host : Server \cup {None}, state : {"none", "connect", "psync", "transfer", "connected"},
     id : Nat, id2 : Nat, off2 : Int, off : Nat, backlog : Seq(Command) \cup {None},
     seldb : Db \cup {NoDb}, db : Data, cached : [id : Nat, off : Nat, sel : Db] \cup {None},
     mid : Nat, moff : Int, sel : Db, child : Child \cup {None}, file : File, slv : [Server -> Client]]

TypeOK ==
    /\ srv \in [Server -> Record] /\ link \in [Server -> Link]
    /\ writes \in Seq(Db) /\ ids \in 1..MaxIds /\ ops \in 0..MaxOps
    /\ \A s \in Server : srv[s].host # s /\ (srv[s].state = "none" <=> srv[s].host = None)

\* The history that (id, off) names is part of that of r.
Shares(r, id, off) == \/ id = r.id /\ off <= r.off
                      \/ id = r.id2 /\ off < r.off2 /\ off <= r.off

\* What replication ids are for: a server that has reached an offset of a history
\* holds the data of that history up to there, whatever promotions, restarts and
\* resynchronizations lie behind it.  So a partial resynchronization never joins
\* two different data sets.
SameHistorySameData ==
    \A s, t \in Server : Shares(srv[s], srv[t].id, srv[t].off) => IsPrefix(srv[t].db, srv[s].db)

\* Every write is in the database it was made to: the stream selects the right
\* one after a resynchronization, a promotion and a restart.
WritesInTheirDb ==
    \A s \in Server : \A i \in DOMAIN srv[s].db :
        srv[s].db[i].db = writes[srv[s].db[i].w]

=============================================================================
