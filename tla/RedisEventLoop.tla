----------------------------- MODULE RedisEventLoop -----------------------------
(***************************************************************************)
(* The event loop of a Redis server (ae.c, server.c, networking.c): it      *)
(* sleeps, reads commands of its clients, runs serverCron, and before it    *)
(* sleeps again serves unblocked clients, writes the AOF and sends the      *)
(* replies.  A slave receives what it propagates; the disk, the bio thread  *)
(* and the children take steps of their own; the process or the machine may *)
(* fail.  What clients and the environment do is a theme, chosen at first.  *)
(***************************************************************************)
EXTENDS RedisPersistence

CONSTANTS
    Theme,      \* names of themes
    Setup       \* of each: its clients, their commands, slave, AOF and faults,
                \* and the bounds: commands, seconds and failures

VARIABLES
    theme,      \* the theme of this behaviour
    e,          \* the server
    d,          \* its disk
    slave,      \* the slave, and the commands on their way to it
    link,
    phase,      \* "poll": events are handled; "cron": the time event was
    clock,      \* server.unixtime
    left,       \* how many commands and failures are left
    hist,       \* the commands since the AOF was off or the start, with their times
    origin,     \* the data at that moment
    told,       \* how many of hist clients have been told of, with "always";
                \* with "everysec", how many have been synced in one of the files
    sound       \* whether every recovery found what it should have

vars == <<theme, e, d, slave, link, phase, clock, left, hist, origin, told, sound>>

Conf == Setup[theme]

Init ==
    /\ theme \in Theme
    /\ e = Server("master", Empty, Conf.clients)
    /\ d = Disk(Conf.state, Conf.policy)
    /\ slave = Server("slave", Empty, {None}) /\ link = <<>>
    /\ phase = "poll" /\ clock = 0
    /\ left = [cmd |-> Conf.cmd, fault |-> Conf.fault]
    /\ hist = <<>> /\ origin = Empty /\ told = 0 /\ sound = TRUE

\* The server as its handlers see it, and what a step leaves: the log goes to
\* the slave and to the AOF.
Seen == [e EXCEPT !.aoferr = d.err, !.rdberr = d.rdberr]
Logged(e1) == SelectSeq(e1.log, LAMBDA c : c.op # "PUBLISH")
Settle(e1, d1) ==
    /\ e' = [e1 EXCEPT !.log = <<>>, !.aoferr = FALSE, !.rdberr = FALSE, !.cache = IF d1.flush THEN <<>> ELSE @]
    /\ d' = [d1 EXCEPT !.flush = FALSE]
    /\ link' = IF Conf.slave THEN link \o e1.log ELSE link
    /\ hist' = IF d1.state = "off" THEN <<>>
               ELSE hist \o [i \in DOMAIN Logged(e1) |-> [c |-> Logged(e1)[i], at |-> clock]]
    /\ origin' = IF d1.state = "off" THEN e1.db ELSE origin

\* How many of the commands h are on stable storage, in the file as it is.
Stable(disk, h) ==
    IF disk.state = "on" THEN Len(h) - (Len(disk.tail) - disk.synced) - Len(disk.buf) ELSE 0

(* ---- clients ---- *)

\* readQueryFromClient; the query buffer of a blocked client fills.
Take(e1) == Settle(e1, feedAof(d, e1.log))
Read(k, c) ==
    /\ phase = "poll" /\ left.cmd > 0
    /\ Drawable(e.db, c)
    /\ left' = [left EXCEPT !.cmd = @ - 1]
    /\ Take(readQueryFromClient(Seen, k, c))
    /\ UNCHANGED <<theme, slave, phase, clock, told, sound>>

\* The connection ends.
Disconnect(k) ==
    /\ phase = "poll" /\ left.fault > 0 /\ "client" \in Conf.faults
    /\ left' = [left EXCEPT !.fault = @ - 1]
    /\ e' = freeClient(e, k)
    /\ UNCHANGED <<theme, d, slave, link, phase, clock, hist, origin, told, sound>>

(* ---- the loop ---- *)

\* The process starts again with what the disk kept.
\* What may be lost: with "always" nothing that was told, else nothing that was
\* synced; but a file that a rewrite has just put in place is not synced as far
\* as the one it replaced was.
Least(disk) ==
    IF disk.policy = "always" \/ disk.settled THEN told ELSE Max({0, Stable(disk, hist)})
\* No transaction has only begun.
Whole(cs) == LET count(op) == Len(SelectSeq(cs, LAMBDA c : c.op = op)) IN count("MULTI") = count("EXEC")
Past(n) == [i \in 1..n |-> hist[i].c]
\* A file that was cut within a transaction is loaded up to the cut.
OfThePast(data, least, kept) ==
    \E n \in least..Len(hist) : Loaded(origin, Past(n)) = data /\ (Whole(Past(n)) \/ ~Whole(kept))
Started(disk, kept, data) ==
    /\ e' = Server("master", data, Conf.clients)
    /\ d' = [Disk(disk.state, disk.policy) EXCEPT
               !.base = disk.base, !.tail = kept, !.synced = Len(kept), !.rdb = disk.rdb,
               !.lastsync = clock]
    /\ sound' = (sound /\ (disk.state = "on" => OfThePast(data, Least(disk), kept)))
    /\ slave' = Server("slave", data, {None}) /\ link' = <<>>
    /\ hist' = <<>> /\ origin' = data /\ told' = 0 /\ phase' = "poll"

Restart(disk, kept) ==
    Started(disk, kept, IF disk.state = "on" THEN Loaded(disk.base, kept) ELSE disk.rdb)

\* beforeSleep: WAIT, the clients unblocked, the AOF, the replies.  write(2)
\* takes n commands.  The rest of a long reply goes out later, by
\* sendReplyToClient: with "always" before new commands are read (AE_BARRIER),
\* so that a reply never leaves earlier than here.
freeClientsInAsyncFreeQueue(e1) ==
    FoldLeft(freeClient, e1, SetToSeq({k \in Conf.clients : e1.client[k].quit}))
FlushTo(e1, d1, n) ==
    /\ n = Len(d1.buf) \/ ("write" \in Conf.faults /\ n < Len(d1.buf) /\ left.fault > 0)
    /\ left' = IF n < Len(d1.buf) THEN [left EXCEPT !.fault = @ - 1] ELSE left
    /\ IF WriteFatal(d1, n)
       THEN Restart(d1, d1.tail \o SubSeq(d1.buf, 1, n))
       ELSE /\ Settle(e1, flushAppendOnlyFile(d1, clock, FALSE, n))
            /\ told' = IF d.policy = "always" THEN Len(hist') ELSE Max({told, Stable(d', hist')})
            /\ phase' = "poll"
            /\ UNCHANGED <<slave, sound>>
Flush(e1, n) == FlushTo(e1, feedAof(d, e1.log), n)

BeforeSleep(n) ==
    /\ Flush(freeClientsInAsyncFreeQueue(processUnblockedClients(processClientsWaitingReplicas(Seen))), n)
    /\ UNCHANGED <<theme, clock>>

\* serverCron, in this second or the next one, when it has something to do: the
\* blocked clients in over have waited long enough.
CronDone(seconds, over, d1) ==
    /\ seconds > 0 \/ over # {} \/ d1 # d
    /\ Settle(FoldLeft(replyToBlockedClientTimedOut, Seen, SetToSeq(over)), d1)
Cron(seconds, over, n) ==
    /\ phase = "poll"
    /\ clock + seconds <= Conf.seconds
    /\ n = Len(d.buf) \/ ("write" \in Conf.faults /\ left.fault > 0 /\ d.policy # "always"
                          /\ n < Len(d.buf) /\ (d.postponed # Never \/ d.err))
    /\ clock' = clock + seconds
    /\ phase' = "cron"
    /\ CronDone(seconds, over, persistenceCron(d, e.db, clock + seconds, n))
    /\ left' = IF n < Len(d.buf) THEN [left EXCEPT !.fault = @ - 1] ELSE left
    /\ told' = IF d.policy = "always" THEN told ELSE Max({told, Stable(d', hist')})
    /\ UNCHANGED <<theme, slave, sound>>

(* ---- the slave ---- *)

\* A slave runs what its master sends like the commands of any client.
Fed(s, cs) == FoldLeft(LAMBDA x, c : processCommand(x, None, c), s, cs)

\* It receives what is on its way, and the master its REPLCONF ACK.
Deliver ==
    /\ phase = "poll"
    /\ link # <<>>
    /\ slave' = Fed(slave, link)
    /\ link' = <<>>
    /\ e' = Acknowledged(e, Len(link))
    /\ UNCHANGED <<theme, d, phase, clock, left, hist, origin, told, sound>>

(* ---- the disk ---- *)

elsewhere == <<theme, e, slave, link, phase, clock, hist, origin, sound>>
diskOnly == <<elsewhere, told>>

FsyncDone ==
    /\ d.jobs # <<>>
    /\ d' = bioFsyncDone(d)
    /\ told' = Max({told, Stable(d', hist)})
    /\ UNCHANGED <<elsewhere, left>>

\* The pipe to the child that rewrites.
SendDiff(n) ==
    /\ phase = "poll" /\ d.child.kind = "aof" /\ ~d.child.stop
    /\ n \in 1..Len(d.child.diffs)
    /\ d' = aofChildWriteDiffData(d, n)
    /\ UNCHANGED <<diskOnly, left>>
ReadDiff ==
    /\ d.child.kind = "aof" /\ d.child.stage = "dump" /\ d.child.pipe # <<>>
    /\ d' = aofReadDiffFromParent(d)
    /\ UNCHANGED <<diskOnly, left>>

\* The child has written its data and asks its parent to stop.
AskStop ==
    /\ d.child.kind = "aof" /\ d.child.stage = "dump"
    /\ d' = [d EXCEPT !.child.stage = "asked"]
    /\ UNCHANGED <<diskOnly, left>>
aofChildPipeReadable ==
    /\ phase = "poll" /\ d.child.stage = "asked" /\ ~d.child.stop
    /\ d' = [d EXCEPT !.child.stop = TRUE]
    /\ UNCHANGED <<diskOnly, left>>

ChildDone ==
    /\ \/ /\ d.child.kind = "aof" /\ d.child.stage = "asked" /\ d.child.stop
          /\ d' = FinishRewrite(d)
       \/ /\ d.child.kind = "rdb" /\ d.child.stage = "dump"
          /\ d' = [d EXCEPT !.child.stage = "done", !.rdb = d.child.snap]
    /\ UNCHANGED <<diskOnly, left>>

\* A child fails: no space, no answer of its parent, a signal.
ChildFailed ==
    /\ "child" \in Conf.faults /\ left.fault > 0
    /\ d.child.stage \in {"dump", "asked"}
    /\ d' = [d EXCEPT !.child.stage = "failed"]
    /\ left' = [left EXCEPT !.fault = @ - 1]
    /\ UNCHANGED diskOnly

\* BGREWRITEAOF, BGSAVE, SAVE and CONFIG SET appendonly.
Administer(op) ==
    /\ phase = "poll" /\ left.cmd > 0 /\ op \in Conf.admin
    /\ left' = [left EXCEPT !.cmd = @ - 1]
    /\ LET d1 == CASE op = "rewrite" -> bgrewriteaofCommand(d, e.db)
                   [] op = "bgsave" -> bgsaveCommand(d, e.db, FALSE)
                   [] op = "schedule" -> bgsaveCommand(d, e.db, TRUE)
                   [] op = "save" -> IF d.child.kind = "rdb" THEN d ELSE rdbSave(d, e.db)
                   [] op = "start" -> IF d.state = "off" THEN startAppendOnly(d, e.db, clock) ELSE d
                   [] op = "stop" -> IF d.state = "off" THEN d ELSE stopAppendOnly(d, clock, Len(d.buf))
       IN Settle(Seen, d1)
    /\ told' = IF d'.state = "off" THEN 0 ELSE told
    /\ UNCHANGED <<theme, slave, phase, clock, sound>>

(* ---- failures ---- *)

\* The process dies: what was written stays.
Crash ==
    /\ "process" \in Conf.faults /\ left.fault > 0
    /\ left' = [left EXCEPT !.fault = @ - 1]
    /\ Restart(d, d.tail)
    /\ UNCHANGED <<theme, clock>>

\* The machine fails: what was not synced may be lost, from any point on.
PowerLoss(n) ==
    /\ "power" \in Conf.faults /\ left.fault > 0
    /\ n \in d.synced..Len(d.tail)
    /\ left' = [left EXCEPT !.fault = @ - 1]
    /\ Restart(d, SubSeq(d.tail, 1, n))
    /\ UNCHANGED <<theme, clock>>

\* SHUTDOWN, and the start that follows.
Saved(disk) == Restart(rdbSave(disk, e.db), disk.tail)
prepareForShutdown ==
    /\ phase = "poll" /\ left.cmd > 0 /\ "shutdown" \in Conf.admin
    /\ ~(d.state = "wait" /\ d.child.kind = "aof")
    /\ left' = [left EXCEPT !.cmd = @ - 1]
    /\ Saved(IF d.state = "off" THEN d ELSE flushAppendOnlyFile(d, clock, TRUE, Len(d.buf)))
    /\ UNCHANGED <<theme, clock>>

TimedOut == {k \in Conf.clients : e.client[k].btype # "none" /\ e.client[k].timed}

Next ==
    \/ \E k \in Conf.clients : \E c \in Conf.commands[k] : Read(k, c)
    \/ \E k \in Conf.clients : Disconnect(k)
    \/ \E n \in 0..Len(d.buf) + 4 : BeforeSleep(n)
    \/ \E seconds \in 0..1, over \in SUBSET TimedOut, n \in 0..Len(d.buf) : Cron(seconds, over, n)
    \/ Deliver
    \/ FsyncDone
    \/ \E n \in DOMAIN d.child.diffs : SendDiff(n)
    \/ ReadDiff \/ AskStop \/ aofChildPipeReadable \/ ChildDone \/ ChildFailed
    \/ \E op \in Conf.admin \ {"shutdown"} : Administer(op)
    \/ Crash \/ (\E n \in 0..Len(d.tail) : PowerLoss(n)) \/ prepareForShutdown

Spec == Init /\ [][Next]_vars

(* ---- properties ---- *)

\* A transaction runs only if the keys its client watched hold what they held at
\* WATCH (multi.c): had pushes, pops, renames or flushes of another client, its
\* script or transaction, or the service of a client blocked on another key
\* changed them, EXEC would have failed.  What MOVE and SWAPDB put there is taken
\* to be what it held at WATCH, as they touch no watched key (CommandsSignal); and
\* no key lapses here, which EXEC is not to notice (tests/unit/multi.tcl:224).
WatchHolds == \A k \in Conf.clients : e.client[k].kept

\* No client stays blocked on a list that has elements: a list that a push, a
\* rename, a transaction, a script or the service of another client added
\* (dbAdd) was handed out by handleClientsBlockedOnLists (t_list.c), in chains of
\* BRPOPLPUSH too.  SORT ... STORE over a key of another type, which overwrites
\* it and signals no list, is not a command of these clients.
NoLostWakeup ==
    \A p \in Place : e.waiting[p] # <<>> /\ e.db[p] # None => e.db[p].type # "list"

\* Every command is answered once: at once, or when its client is unblocked by
\* data, by acknowledgements or by the clock, and not by two of them.
OneReply ==
    \A k \in Conf.clients : e.client[k].owed = IF e.client[k].btype = "none" THEN 0 ELSE 1

\* A server with this data, which is not inside a transaction and not blocked.
AgreesWith(s) == s.db = e.db /\ ~s.client[None].multi /\ s.client[None].btype = "none"

\* The stream to the slave carries every change, in an order and a form that
\* gives the slave the same data and outside of any transaction: MULTI and
\* EXEC around transactions and scripts, EVALSHA only of scripts it knows.
StreamAgrees == Conf.slave => AgreesWith(Fed(slave, link))

\* While the AOF is on, loading what is in the file and in the buffer gives
\* the data: a rewrite that ends, in whatever order the diffs went to the
\* child or stayed, loses no command and repeats none (aof.c); and every
\* transaction that was logged was logged to its end (multi.c).
FileAgrees == d.state = "on" => Loaded(d.base, d.tail \o d.buf) = e.db /\ Whole(Past(Len(hist)))

\* A server that starts again with its AOF has the data of a moment of its
\* past, between two transactions unless the file itself was cut within one:
\* with "always", not before any reply it has sent; with "everysec", not before
\* anything that was ever synced, unless a rewrite has just replaced the file
\* and the fsync of the new one has not ended.
Durable == sound

=============================================================================
