------------------------------ MODULE RedisClients ------------------------------
(***************************************************************************)
(* What the event loop of a Redis server does for its clients: transactions *)
(* (multi.c), blocking list operations (blocked.c, t_list.c), scripts       *)
(* (scripting.c), Pub/Sub (pubsub.c) and WAIT (replication.c), dispatched   *)
(* by processCommand and call (server.c) from the query buffer of a client  *)
(* (networking.c).  The server is single threaded, so every operator maps   *)
(* the state e of a server to its next one:                                 *)
(*   role      "master", "slave" (fed by its master) or "loading" (its AOF) *)
(*   db        the databases, client the connected clients                  *)
(*   waiting   db->blocking_keys: the clients blocked on a key, in order    *)
(*   ready     server.ready_keys, unblocked server.unblocked_clients        *)
(*   subs      server.pubsub_channels, pats server.pubsub_patterns          *)
(*   scripts   server.lua_scripts, cache the scripts that slaves and AOF    *)
(*             are known to have (repl_scriptcache_fifo)                    *)
(*   log       what was propagated since the step began                     *)
(*   offset    master_repl_offset: the commands sent that the slave has not *)
(*             acknowledged; woff and bpop.reploffset count in the same way *)
(*   acks      server.clients_waiting_acks                                  *)
(*   aoferr    the last write of the AOF failed (aof_last_write_status)      *)
(*   rdberr    the last RDB file failed (lastbgsave_status)                 *)
(***************************************************************************)
EXTENDS RedisServer

CONSTANTS
    Channel,        \* the channels of Pub/Sub
    Matches,        \* the channels that each pattern matches
    Script, Body,   \* the scripts: what each calls, and how it replicates
    ScriptCacheSize \* repl_scriptcache_size

Slaves == 1     \* the slaves attached

\* The places (or clients) in S mapped by Op.
Each(f, S, Op(_)) == FoldSet(LAMBDA p, g : [g EXCEPT ![p] = Op(@)], f, S)

\* createClient.  watched maps a watched place to what it held at WATCH; kept
\* says that no EXEC ran although one of them had changed; owed counts the
\* commands that were taken from the query buffer and not answered.
createClient ==
    [multi |-> FALSE, cas |-> FALSE, bad |-> FALSE, queue |-> <<>>, watched |-> <<>>, kept |-> TRUE,
     btype |-> "none", keys |-> {}, target |-> None, where |-> "head", timed |-> FALSE,
     need |-> 0, woff |-> 0, reploffset |-> 0, chans |-> {}, pats |-> {}, pubsub |-> FALSE, quit |-> FALSE,
     inbuf |-> <<>>, owed |-> 0]

Server(role, data, clients) ==
    [role |-> role, db |-> data, client |-> [k \in clients |-> createClient],
     waiting |-> [p \in Place |-> <<>>], ready |-> <<>>, unblocked |-> <<>>,
     subs |-> [ch \in Channel |-> <<>>], pats |-> <<>>, scripts |-> {}, cache |-> <<>>,
     log |-> <<>>, offset |-> 0, acks |-> <<>>,
     aoferr |-> FALSE, rdberr |-> FALSE]

\* The answer to the command of a client, whatever it says.
addReply(e, k) == [e EXCEPT !.client[k].owed = @ - 1]

\* propagate: into the AOF and to the slaves.
propagate(e, cs) ==
    IF e.role = "master" THEN [e EXCEPT !.log = @ \o cs, !.offset = @ + Len(cs)] ELSE e

(* ---- keys that change ---- *)

touchWatchedKeys(e, places) ==
    [e EXCEPT !.client = Each(@, {k \in DOMAIN @ : DOMAIN @[k].watched \cap places # {}},
                              LAMBDA client : [client EXCEPT !.cas = TRUE])]

\* Mutant: a key that clients wait for is queued only once the queue is empty.
signalListAsReadyAlone(e, p) ==
    IF e.waiting[p] = <<>> \/ e.ready # <<>> THEN e ELSE [e EXCEPT !.ready = Append(@, p)]

signalListAsReady(e, p) ==
    IF e.waiting[p] = <<>> \/ Contains(e.ready, p) THEN e ELSE [e EXCEPT !.ready = Append(@, p)]

\* MOVE and SWAPDB tell no watcher: what a key holds after them counts as what
\* its watchers saw.
Unnoticed(e, x) ==
    IF x.argv.op \notin {"MOVE", "SWAPDB"} THEN e
    ELSE [e EXCEPT !.client = Each(@, DOMAIN @, LAMBDA client : [client EXCEPT !.watched =
              [p \in {q \in DOMAIN client.watched : x.db[q] # e.db[q]} |-> x.db[p]] @@ client.watched])]

\* The effects of the call x on the server: data, watchers, blocked clients.
Commit(e, x) ==
    FoldLeft(signalListAsReady, touchWatchedKeys([Unnoticed(e, x) EXCEPT !.db = x.db], x.touched), x.added)

\* A handler's result: the server, and what call() reads of it.
Done(e, c) == [e |-> e, argv |-> c, dirty |-> FALSE, also |-> <<>>, prevented |-> FALSE, forced |-> FALSE]

\* A command on data.
Ran(e, k, x) ==
    [Done(addReply(Commit(propagate(e, x.before), x), k), x.argv) EXCEPT
        !.dirty = x.dirty, !.also = x.also, !.prevented = x.prevented]
dataCommand(e, k, c) == Ran(e, k, Run(e.db, 0, e.role, c))

\* The handler of a command (c->cmd->proc); EXEC, scripts and the blocking
\* operations run commands of their own.
RECURSIVE proc(_, _, _)

(* ---- transactions ---- *)

flagTransaction(e, k) == IF e.client[k].multi THEN [e EXCEPT !.client[k].bad = TRUE] ELSE e

unwatchAllKeys(e, k) == [e EXCEPT !.client[k].watched = <<>>]

discardTransaction(e, k) ==
    [unwatchAllKeys(e, k) EXCEPT !.client[k].multi = FALSE, !.client[k].queue = <<>>,
                                 !.client[k].cas = FALSE, !.client[k].bad = FALSE]

\* Mutant: MULTI begins with all flags clear.
multiCommandAfresh(e, k) ==
    IF e.client[k].multi THEN addReply(e, k)
    ELSE addReply([e EXCEPT !.client[k].multi = TRUE, !.client[k].cas = FALSE], k)

multiCommand(e, k) ==
    IF e.client[k].multi THEN addReply(e, k)
    ELSE addReply([e EXCEPT !.client[k].multi = TRUE], k)

discardCommand(e, k) ==
    IF ~e.client[k].multi THEN addReply(e, k) ELSE addReply(discardTransaction(e, k), k)

\* A key watched twice keeps its first entry.
watchCommand(e, k, c) ==
    LET places == {<<c.db, key>> : key \in c.keys} IN
    IF e.client[k].multi THEN addReply(e, k)
    ELSE addReply([e EXCEPT !.client[k].watched = @ @@ [p \in places |-> e.db[p]]], k)

unwatchCommand(e, k) == addReply([unwatchAllKeys(e, k) EXCEPT !.client[k].cas = FALSE], k)

(* ---- blocking operations ---- *)

blockClient(e, k, btype, timed) ==
    [e EXCEPT !.client[k].btype = btype, !.client[k].timed = timed]

blockForKeys(e, k, places, timed, target, where) ==
    [blockClient(e, k, "list", timed) EXCEPT
        !.client[k].keys = places, !.client[k].target = target, !.client[k].where = where,
        !.waiting = Each(@, places, LAMBDA clients : Append(clients, k))]

\* Mutant: the client leaves the queue of one of its keys only.
unblockClientWaitingDataOnce(e, k) ==
    LET p == CHOOSE q \in e.client[k].keys : TRUE IN
    [e EXCEPT !.waiting[p] = Remove(@, k), !.client[k].keys = {}, !.client[k].target = None]

unblockClientWaitingData(e, k) ==
    [e EXCEPT !.waiting = Each(@, e.client[k].keys, LAMBDA clients : Remove(clients, k)),
              !.client[k].keys = {}, !.client[k].target = None]

unblockClientWaitingReplicas(e, k) == [e EXCEPT !.acks = Remove(@, k)]

unblockClient(e, k) ==
    [(IF e.client[k].btype = "list" THEN unblockClientWaitingData(e, k)
      ELSE unblockClientWaitingReplicas(e, k)) EXCEPT
        !.client[k].btype = "none",
        !.unblocked = IF Contains(@, k) THEN @ ELSE Append(@, k)]

\* No list to take from: within a transaction that is the answer.
BlockOrReply(e, k, places, timed, target, where) ==
    IF e.client[k].multi THEN addReply(e, k) ELSE blockForKeys(e, k, places, timed, target, where)

\* BLPOP and BRPOP: a list that has elements is popped at once, and the
\* command is logged as LPOP or RPOP.
PopFrom(e, k, c, key) ==
    IF e.db[<<c.db, key>>].type # "list" THEN Done(addReply(e, k), c)
    ELSE proc(e, k, [op |-> "POP", db |-> c.db, key |-> key, where |-> c.where])

blockingPopGenericCommand(e, k, c) ==
    LET held == {i \in DOMAIN c.keys : e.db[<<c.db, c.keys[i]>>] # None} IN
    IF held # {} THEN PopFrom(e, k, c, c.keys[Min(held)])
    ELSE Done(BlockOrReply(e, k, {<<c.db, c.keys[i]>> : i \in DOMAIN c.keys}, c.timed, None, c.where), c)

\* BRPOPLPUSH: logged as it is when the list exists.
brpoplpushCommand(e, k, c) ==
    LET src == <<c.db, c.key>> IN
    IF e.db[src] = None THEN Done(BlockOrReply(e, k, {src}, c.timed, <<c.db, c.dst>>, "tail"), c)
    ELSE IF e.db[src].type # "list" THEN Done(addReply(e, k), c)
    ELSE [proc(e, k, [op |-> "RPOPLPUSH", db |-> c.db, key |-> c.key, dst |-> c.dst])
            EXCEPT !.argv = c]

\* A value popped from the list at p goes to the receiver k, which is already
\* unblocked, and from it to its target; a target of another type makes the
\* caller put the value back.
serveClientBlockedOnList(e, k, p, target, value, where) ==
    LET pop == [op |-> "POP", db |-> p[1], key |-> p[2], where |-> where]
        push == [op |-> "PUSH", db |-> p[1], key |-> target[2], vals |-> <<value>>, where |-> "head"]
        x == rpoplpushHandlePush(Begin(e.db, 0, e.role, pop), target, value)
        undo == [e EXCEPT !.db[p].val = Pushed(@, <<value>>, where)]
    IN CASE target = None -> addReply(propagate(e, <<pop>>), k)
         [] target # None /\ (e.db[target] # None => e.db[target].type = "list") ->
              addReply(propagate(Commit(propagate(e, <<pop>>), x), <<push>>), k)
         [] OTHER -> addReply(undo, k)

\* The clients blocked on the list at p are served in the order they blocked.
serveNext(e, p, k, client) ==
    serveClientBlockedOnList(unblockClient([e EXCEPT !.db[p].val = Popped(@, client.where)], k), k, p,
                             client.target, Popping(e.db[p].val, client.where), client.where)

deleteIfEmpty(e, p) == IF e.db[p].val = <<>> THEN [e EXCEPT !.db[p] = None] ELSE e

serveKey(e0, p) ==
    LET one(e, i) == IF e.db[p].val = <<>> THEN e
                     ELSE serveNext(e, p, Head(e.waiting[p]), e.client[Head(e.waiting[p])])
    IN IF e0.db[p] = None THEN e0
       ELSE IF e0.db[p].type # "list" THEN e0
       ELSE deleteIfEmpty(FoldLeft(one, e0, [i \in DOMAIN e0.waiting[p] |-> i]), p)

\* A served BRPOPLPUSH may make another list ready.
RECURSIVE handleClientsBlockedOnLists(_)
handleClientsBlockedOnLists(e) ==
    IF e.ready = <<>> THEN e
    ELSE handleClientsBlockedOnLists(serveKey([e EXCEPT !.ready = Tail(@)], Head(e.ready)))

\* repl_ack_off of the slaves against an offset.
replicationCountAcksByOffset(e, offset) == IF offset = 0 THEN Slaves ELSE 0

\* REPLCONF ACK: n more commands are acknowledged.
Acknowledged(e, n) ==
    [e EXCEPT !.offset = @ - n,
              !.client = Each(@, DOMAIN @, LAMBDA client : [client EXCEPT !.woff = Max({0, @ - n}), !.reploffset = Max({0, @ - n})])]

\* A blocked client whose time is over.
replyToBlockedClientTimedOut(e, k) ==
    unblockClient(addReply(e, k), k)

(* ---- Pub/Sub ---- *)

Subscriptions(e, k) == Cardinality(e.client[k].chans) + Cardinality(e.client[k].pats)

\* SUBSCRIBE and PSUBSCRIBE put the client in the Pub/Sub context.
subscribeCommand(e, k, c) ==
    IF c.ch \in e.client[k].chans THEN [e EXCEPT !.client[k].pubsub = TRUE]
    ELSE [e EXCEPT !.client[k].chans = @ \cup {c.ch}, !.client[k].pubsub = TRUE,
                   !.subs[c.ch] = Append(@, k)]

psubscribeCommand(e, k, c) ==
    IF c.pat \in e.client[k].pats THEN [e EXCEPT !.client[k].pubsub = TRUE]
    ELSE [e EXCEPT !.client[k].pats = @ \cup {c.pat}, !.client[k].pubsub = TRUE,
                   !.pats = Append(@, <<k, c.pat>>)]

pubsubUnsubscribeChannels(e, k, chs) ==
    [e EXCEPT !.client[k].chans = @ \ chs,
              !.subs = Each(@, chs \cap e.client[k].chans, LAMBDA clients : Remove(clients, k))]

pubsubUnsubscribePatterns(e, k, ps) ==
    [e EXCEPT !.client[k].pats = @ \ ps,
              !.pats = SelectSeq(@, LAMBDA q : ~(q[1] = k /\ q[2] \in ps))]

\* The context ends with the last subscription of either kind.
leavePubSub(e, k) == IF Subscriptions(e, k) = 0 THEN [e EXCEPT !.client[k].pubsub = FALSE] ELSE e

unsubscribeCommand(e, k, c) ==
    leavePubSub(pubsubUnsubscribeChannels(e, k, IF c.all THEN e.client[k].chans ELSE {c.ch}), k)
punsubscribeCommand(e, k, c) ==
    leavePubSub(pubsubUnsubscribePatterns(e, k, IF c.all THEN e.client[k].pats ELSE {c.pat}), k)

\* PUBLISH changes no state here; slaves are always told.
publishCommand(e, k, c) == [Done(addReply(e, k), c) EXCEPT !.forced = TRUE]

(* ---- WAIT ---- *)

waitCommand(e, k, c) ==
    IF replicationCountAcksByOffset(e, e.client[k].woff) >= c.need \/ e.client[k].multi THEN addReply(e, k)
    ELSE [blockClient(e, k, "wait", c.timed) EXCEPT !.acks = Append(@, k), !.client[k].need = c.need,
                                                   !.client[k].reploffset = e.client[k].woff]

processClientsWaitingReplicas(e0) ==
    LET one(e, k) == IF replicationCountAcksByOffset(e, e.client[k].reploffset) < e.client[k].need THEN e
                     ELSE addReply(unblockClient(e, k), k)
    IN FoldLeft(one, e0, e0.acks)

(* ---- scripts ---- *)

\* The flags of the command table.
ReadOnlyOp == {"GET", "MGET", "STRLEN", "EXISTS", "TTL", "RANDOMKEY", "LLEN", "LRANGE", "SISMEMBER", "SCARD"}
PlainOp == {"MULTI", "EXEC", "DISCARD", "WATCH", "UNWATCH", "EVAL", "EVALSHA", "SCRIPTLOAD",
            "SCRIPTFLUSH", "SUBSCRIBE", "UNSUBSCRIBE", "PSUBSCRIBE", "PUNSUBSCRIBE", "PUBLISH", "WAIT"}
RandomOp == {"RANDOMKEY", "SPOP"}
IsWrite(op) == op \notin ReadOnlyOp \cup PlainOp

replicationScriptCacheAdd(e, script) ==
    [e EXCEPT !.cache = <<script>> \o IF Len(@) = ScriptCacheSize THEN Front(@) ELSE @]

\* SCRIPT LOAD is always logged; SCRIPT FLUSH empties the cache too.
scriptLoad(e, k, c) ==
    [Done(addReply([e EXCEPT !.scripts = @ \cup {c.script}], k), c) EXCEPT !.forced = TRUE]
scriptFlush(e, k, c) ==
    [Done(addReply([e EXCEPT !.scripts = {}, !.cache = <<>>], k), c) EXCEPT !.dirty = TRUE]

\* call() for what a handler left in y: what is propagated.
Sent(y) == (IF (y.dirty \/ y.forced) /\ ~y.prevented THEN <<y.argv>> ELSE <<>>) \o y.also

\* redis.call(d) from a script: s is the server with lua_random_dirty,
\* lua_write_dirty and lua_multi_emitted.  A command that is refused raises an
\* error, which ends the script.
LuaCalled(s, d, wrote, emit, sent, y) ==
    [e |-> propagate(y.e, sent), random |-> s.random \/ d.op \in RandomOp, wrote |-> wrote,
     emitted |-> s.emitted \/ emit, dirty |-> s.dirty \/ y.dirty, err |-> FALSE]

LuaEffects(s, d, wrote, emit, effects, y) ==
    LuaCalled(s, d, wrote, emit, IF effects THEN Sent(y) ELSE <<>>, y)

LuaCall(s, k, d, effects, wrote, emit) ==
    LuaEffects(s, d, wrote, emit, effects,
               proc(IF emit THEN propagate(s.e, <<[op |-> "MULTI", db |-> d.db]>>) ELSE s.e, k, d))

luaRedisGenericCommand(s, k, d, effects) ==
    LET write == IsWrite(d.op)
        wrote == s.wrote \/ write
        emit == effects /\ ~s.emitted /\ ~s.e.client[k].multi /\ wrote
    IN IF s.err THEN s
       ELSE IF write /\ ((s.random /\ ~effects) \/ s.e.rdberr) THEN [s EXCEPT !.err = TRUE]
       ELSE LuaCall(s, k, d, effects, wrote, emit)

\* EVAL and EVALSHA.  A script is replicated by its text, or by its effects
\* within MULTI and EXEC; EVALSHA goes out as EVAL unless everyone has the script.
EvalDone(e, k, c, effects, anew, s) ==
    LET r == addReply([s.e EXCEPT !.client[k].owed = e.client[k].owed], k) IN
    [e |-> IF anew THEN replicationScriptCacheAdd(r, c.script) ELSE r,
     argv |-> IF anew THEN [op |-> "EVAL", db |-> c.db, script |-> c.script] ELSE c, dirty |-> s.dirty,
     also |-> IF s.emitted THEN <<[op |-> "EXEC", db |-> c.db]>> ELSE <<>>,
     prevented |-> effects, forced |-> anew]

evalGenericCommand(e, k, c) ==
    LET effects == Body[c.script].effects
        anew == c.op = "EVALSHA" /\ ~effects /\ ~Contains(e.cache, c.script)
        begin == [e |-> [e EXCEPT !.scripts = @ \cup {c.script}], random |-> FALSE, wrote |-> FALSE,
                  emitted |-> FALSE, dirty |-> FALSE, err |-> FALSE]
    IN IF c.op = "EVALSHA" /\ c.script \notin e.scripts THEN Done(addReply(e, k), c)
       ELSE EvalDone(e, k, c, effects, anew,
                     FoldLeft(LAMBDA t, d : luaRedisGenericCommand(t, k, d, effects), begin, Body[c.script].calls))

(* ---- dispatch ---- *)

\* The handlers that can be queued in a transaction.


\* Mutant: EXEC is logged if its commands changed something.
ExecIsLoggedIfDirty(s) == s.dirty

\* EXEC is logged whenever MULTI was.
ExecIsLogged(s) == s.must \/ s.dirty

\* EXEC: nothing runs if a watched key was touched or a command was refused.
\* MULTI is logged before the first command that is not read only, and EXEC
\* after the last.
ExecCalled(s, must, y) ==
    [e |-> propagate(y.e, Sent(y)), must |-> s.must \/ must, dirty |-> s.dirty \/ y.dirty]

ExecCall(s, k, d, must) ==
    ExecCalled(s, must, proc(IF must /\ ~s.must THEN propagate(s.e, <<[op |-> "MULTI", db |-> d.db]>>)
                             ELSE s.e, k, d))

ExecDone(k, c, owed, s) ==
    [Done(addReply([discardTransaction(s.e, k) EXCEPT !.client[k].owed = owed], k), c) EXCEPT
        !.dirty = ExecIsLogged(s)]

execCommand(e, k, c) ==
    LET client == e.client[k]
        kept == \A p \in DOMAIN client.watched : e.db[p] = client.watched[p]
        begin == unwatchAllKeys([e EXCEPT !.client[k].kept = @ /\ kept], k)
    IN IF ~client.multi THEN Done(addReply(e, k), c)
       ELSE IF client.cas \/ client.bad
       THEN Done(addReply(discardTransaction(e, k), k), c)
       ELSE ExecDone(k, c, client.owed,
                     FoldLeft(LAMBDA s, d : ExecCall(s, k, d, d.op \notin ReadOnlyOp),
                              [e |-> begin, must |-> FALSE, dirty |-> FALSE], client.queue))

\* The commands that change a client and no data.
clientCommand(e, k, c) ==
    CASE c.op = "MULTI" -> multiCommand(e, k)
      [] c.op = "DISCARD" -> discardCommand(e, k)
      [] c.op = "WATCH" -> watchCommand(e, k, c)
      [] c.op = "UNWATCH" -> unwatchCommand(e, k)
      [] c.op = "SUBSCRIBE" -> addReply(subscribeCommand(e, k, c), k)
      [] c.op = "UNSUBSCRIBE" -> addReply(unsubscribeCommand(e, k, c), k)
      [] c.op = "PSUBSCRIBE" -> addReply(psubscribeCommand(e, k, c), k)
      [] c.op = "PUNSUBSCRIBE" -> addReply(punsubscribeCommand(e, k, c), k)
      [] c.op = "WAIT" -> waitCommand(e, k, c)

ClientOp == {"MULTI", "DISCARD", "WATCH", "UNWATCH", "SUBSCRIBE", "UNSUBSCRIBE", "PSUBSCRIBE",
             "PUNSUBSCRIBE", "WAIT"}

proc(e, k, c) ==
    CASE c.op \in ClientOp -> Done(clientCommand(e, k, c), c)
      [] c.op = "EXEC" -> execCommand(e, k, c)
      [] c.op = "BPOP" -> blockingPopGenericCommand(e, k, c)
      [] c.op = "BRPOPLPUSH" -> brpoplpushCommand(e, k, c)
      [] c.op = "PUBLISH" -> publishCommand(e, k, c)
      [] c.op \in {"EVAL", "EVALSHA"} -> evalGenericCommand(e, k, c)
      [] c.op = "SCRIPTLOAD" -> scriptLoad(e, k, c)
      [] c.op = "SCRIPTFLUSH" -> scriptFlush(e, k, c)
      [] OTHER -> dataCommand(e, k, c)

CallDone(y) == propagate(y.e, Sent(y))
call(e, k, c) == CallDone(proc(e, k, c))

\* A write is refused while the last one of the AOF or of the RDB file failed.
Refused(e, c) == c.op = "BAD" \/ (IsWrite(c.op) /\ (e.aoferr \/ e.rdberr) /\ e.role = "master")

\* After call() the offset is noted for WAIT, and lists that are ready served.
AfterCall(e, k) == handleClientsBlockedOnLists([e EXCEPT !.client[k].woff = e.offset])

processCommand(e, k, c) ==
    IF c.op = "QUIT" THEN [addReply(e, k) EXCEPT !.client[k].quit = TRUE]
    ELSE IF Refused(e, c) THEN addReply(flagTransaction(e, k), k)
    ELSE IF e.client[k].pubsub /\ c.op \notin {"SUBSCRIBE", "UNSUBSCRIBE", "PSUBSCRIBE", "PUNSUBSCRIBE"}
    THEN addReply(e, k)
    ELSE IF e.client[k].multi /\ c.op \notin {"EXEC", "DISCARD", "MULTI", "WATCH"}
    THEN addReply([e EXCEPT !.client[k].queue = Append(@, c)], k)
    ELSE AfterCall(call(e, k, c), k)

\* The commands in the query buffer, until the client blocks or quits.
processInputBuffer(e0, k) ==
    LET one(e, i) ==
          IF e.client[k].btype # "none" \/ e.client[k].quit THEN e
          ELSE processCommand([e EXCEPT !.client[k].inbuf = Tail(@), !.client[k].owed = @ + 1],
                              k, Head(e.client[k].inbuf))
    IN FoldLeft(one, e0, [i \in DOMAIN e0.client[k].inbuf |-> i])

readQueryFromClient(e, k, c) == processInputBuffer([e EXCEPT !.client[k].inbuf = Append(@, c)], k)

RECURSIVE processUnblockedClients(_)
processUnblockedClients(e) ==
    IF e.unblocked = <<>> THEN e
    ELSE LET k == Head(e.unblocked)
             u == [e EXCEPT !.unblocked = Tail(@)]
         IN processUnblockedClients(IF u.client[k].btype # "none" THEN u ELSE processInputBuffer(u, k))

\* The client is gone from every list that names it, and a new one may come.
freeClient(e, k) ==
    LET b == unwatchAllKeys(IF e.client[k].btype # "none" THEN unblockClient(e, k) ELSE e, k) IN
    [pubsubUnsubscribePatterns(pubsubUnsubscribeChannels(b, k, Channel), k, DOMAIN Matches) EXCEPT
        !.unblocked = Remove(@, k), !.client[k] = createClient]
=============================================================================
