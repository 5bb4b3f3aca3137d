------------------------------ MODULE RedisServer ------------------------------
(***************************************************************************)
(* The command table and call() of server.c: how a command runs, and what   *)
(* of it reaches the slaves and the append only file.                       *)
(***************************************************************************)
EXTENDS RedisSortedSets, RedisLists

\* RESTORE key ttl value [REPLACE], and DUMP, whose payload is the value.
restoreCommand(x0, c, p) ==
    LET x == IF c.replace THEN x0 ELSE lookupKeyWrite(x0, p)
        y == dbAdd(dbDelete(x, p), p, c.type, c.val)
    IN IF (Has(x, p) /\ ~c.replace) \/ c.ttl < 0 THEN x
       ELSE Modified(IF c.ttl > 0 THEN setExpire(y, p, y.now + c.ttl) ELSE y, p)

\* The handlers of commands of one key that begin with its lookup: the call x
\* is the one after it.  Commands that the server names apart and that share
\* their code appear once.
KeyHandler(x, c, p) ==
    CASE c.op = "EXPIRE" -> expireGenericCommand(x, c, p)
      [] c.op = "PERSIST" -> persistCommand(x, c, p)
      [] c.op = "TTL" -> ttlGenericCommand(x, c, p)
      [] c.op = "GET" -> getGenericCommand(x, c, p)
      [] c.op = "GETSET" -> getsetCommand(x, c, p)
      [] c.op = "GETRANGE" -> getrangeCommand(x, c, p)
      [] c.op = "INCRBY" -> incrDecrCommand(x, c, p)
      [] c.op = "INCRBYFLOAT" -> incrbyfloatCommand(x, c, p)
      [] c.op = "APPEND" -> appendCommand(x, c, p)
      [] c.op = "STRLEN" -> strlenCommand(x, c, p)
      [] c.op = "BITCOUNT" -> bitcountCommand(x, c, p)
      [] c.op = "BITPOS" -> bitposCommand(x, c, p)
      [] c.op = "PUSH" -> pushGenericCommand(x, c, p)
      [] c.op = "PUSHX" -> pushxGenericCommand(x, c, p)
      [] c.op = "LINSERT" -> linsertCommand(x, c, p)
      [] c.op = "LLEN" -> llenCommand(x, c, p)
      [] c.op = "LINDEX" -> lindexCommand(x, c, p)
      [] c.op = "LSET" -> lsetCommand(x, c, p)
      [] c.op = "POP" -> popGenericCommand(x, c, p)
      [] c.op = "LRANGE" -> lrangeCommand(x, c, p)
      [] c.op = "LTRIM" -> ltrimCommand(x, c, p)
      [] c.op = "LREM" -> lremCommand(x, c, p)
      [] c.op = "RPOPLPUSH" -> rpoplpushCommand(x, c, p)
      [] c.op = "RENAME" -> renameGenericCommand(x, c, p)
      [] c.op = "SMOVE" -> smoveCommand(x, c, p)
      [] c.op = "SORT" -> sortCommand(x, c, p)
      [] c.op = "SADD" -> saddCommand(x, c, p)
      [] c.op = "SREM" -> sremCommand(x, c, p)
      [] c.op = "SISMEMBER" -> sismemberCommand(x, c, p)
      [] c.op = "SCARD" -> scardCommand(x, c, p)
      [] c.op = "SPOP" -> spopCommand(x, c, p)
      [] c.op = "HSETNX" -> hsetnxCommand(x, c, p)
      [] c.op = "HSET" -> hsetCommand(x, c, p)
      [] c.op = "HINCRBY" -> hincrbyCommand(x, c, p)
      [] c.op = "HINCRBYFLOAT" -> hincrbyfloatCommand(x, c, p)
      [] c.op = "HMGET" -> hmgetCommand(x, c, p)
      [] c.op = "HDEL" -> hdelCommand(x, c, p)
      [] c.op = "HGETALL" -> genericHgetallCommand(x, c, p)
      [] c.op = "ZREM" -> zremCommand(x, c, p)
      [] c.op = "ZREMRANGE" -> zremrangeGenericCommand(x, c, p)
      [] c.op = "ZRANGE" -> zrangeGenericCommand(x, c, p)
      [] c.op = "ZRANGEBY" -> genericZrangebyCommand(x, c, p)
      [] c.op = "ZCOUNT" -> zcountCommand(x, c, p)
      [] c.op = "ZRANK" -> zrankGenericCommand(x, c, p)
      [] c.op = "GEORADIUS" -> georadiusGeneric(x, c, p)
      [] c.op = "PFADD" -> pfaddCommand(x, c, p)

\* The others: of one key p, with arguments that may be refused before the
\* key is looked up, and of several keys or none.
Handler(x, c, p) ==
    CASE c.op = "RESTORE" -> restoreCommand(x, c, p)
      [] c.op = "SET" -> setGenericCommand(x, c, p)
      [] c.op = "SETRANGE" -> setrangeCommand(x, c, p)
      [] c.op = "SETBIT" -> setbitCommand(x, c, p)
      [] c.op = "GETBIT" -> getbitCommand(x, c, p)
      [] c.op = "BITFIELD" -> bitfieldCommand(x, c, p)
      [] c.op = "SPOPCOUNT" -> spopWithCountCommand(x, c, p)
      [] c.op = "GEOADD" -> geoaddCommand(x, c, p)
      [] c.op = "ZADD" -> zaddGenericCommand(x, c, p)
      [] c.op = "DEL" -> delGenericCommand(x)
      [] c.op = "MOVE" -> moveCommand(x, c, p)
      [] c.op = "SWAPDB" -> swapdbCommand(x)
      [] c.op = "FLUSH" -> flushCommand(x)
      [] c.op = "EXISTS" -> existsCommand(x)
      [] c.op = "RANDOMKEY" -> randomkeyCommand(x)
      [] c.op = "MGET" -> mgetCommand(x)
      [] c.op = "MSET" -> msetGenericCommand(x)
      [] c.op = "BITOP" -> bitopCommand(x, c)
      [] c.op = "SINTER" -> sinterGenericCommand(x, c)
      [] c.op = "SUNIONDIFF" -> sunionDiffGenericCommand(x, c)
      [] c.op = "ZUNIONINTER" -> zunionInterGenericCommand(x, c)
      [] c.op = "PFCOUNT" -> pfcountCommand(x, c)
      [] c.op = "PFMERGE" -> pfmergeCommand(x, c)
      [] OTHER -> KeyHandler(lookupKeyWrite(x, p), c, p)

\* The command c run on the data of a server.
Run(data, now, role, c) == Handler(Begin(data, now, role, c), c, <<c.db, c.key>>)

\* What call() sends on: the keys that expired under the handler, the command
\* as rewritten if it made the data dirty, and what alsoPropagate added.
Propagated(x) ==
    x.before \o (IF x.dirty /\ ~x.prevented THEN <<x.argv>> ELSE <<>>) \o x.also

\* Mutant: a time to live is logged as it was given.
feedAppendOnlyFileRelative(c, now) == <<c>>

\* The append only file has absolute times: EXPIRE becomes PEXPIREAT and a SET
\* with a time to live becomes two commands.  RESTORE is logged as it was given.
feedAppendOnlyFile(c, now) ==
    LET at(time) == [op |-> "EXPIRE", db |-> c.db, key |-> c.key, at |-> TRUE, time |-> time] IN
    CASE c.op = "EXPIRE" /\ ~c.at -> <<at(now + c.time)>>
      [] c.op = "SET" /\ c.ttl > 0 -> <<SetCommand(c.key, c.val, c.db), at(now + c.ttl)>>
      [] c.op = "SET" /\ c.ttl <= 0 -> <<SetCommand(c.key, c.val, c.db)>>
      [] OTHER -> <<c>>

\* The data that the commands cs make of data when they are applied in order.
Applied(data, now, role, cs) == FoldLeft(LAMBDA d, c : Run(d, now, role, c).db, data, cs)

\* The file as the data its replay at a later time gives, after cs were appended.
Appended(data, now, later, cs) ==
    Applied(data, later, "loading", FlattenSeq([i \in DOMAIN cs |-> feedAppendOnlyFile(cs[i], now)]))
=============================================================================
