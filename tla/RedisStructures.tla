--------------------------- MODULE RedisStructures ---------------------------
(***************************************************************************)
(* The data structures of the server under any sequence of operations, each *)
(* in the encodings it goes through as it grows and shrinks.  "rep" is the  *)
(* representation of one structure of the given kind and "last" the         *)
(* operation that led to it.                                                *)
(***************************************************************************)
EXTENDS Integers, SequencesExt, FiniteSetsExt

CONSTANTS Kinds, MaxLength, Elements, DictKeys, RaxKeys,
          Fill, Depth, MinCompress, InitialSize, MinFill, ForceRatio,
          SetMaxEntries, HashMaxEntries, ZsetMaxEntries, MaxLevel,
          EmbstrSize, LzfSize, ItemsPerCmd, Strings,
          IoBuf, BigArg, InlineMax, MaxBulk, MaxArgs, Chunk, MaxWrites, MaxString

\* The buffers of a connection keep this order: what is left of a request and
\* one more read() never looks like a line that is too long.
ASSUME BufferSizes == IoBuf \in 1..BigArg /\ BigArg + 2 + IoBuf <= InlineMax

\* Small values for TLC: numbers of bytes about the limits of a ziplist entry,
\* keys that share prefixes, strings about the limits of their encodings.
MCElements == {-6, 1, 2, 5, 101}
MCRaxKeys == {<<1, 1>>, <<1, 1, 2>>, <<1, 1, 2, 1>>, <<1, 2, 1, 1>>, <<1, 2, 2>>, <<2, 1, 1>>, <<2, 1, 2, 2>>}
MCStrings == {-40000, -129, -128, -9, -8, 7, 8, 90, 100, 103, 104, 107, 163, 164, 166, 355, 356}

VARIABLES kind, rep, last

vars == <<kind, rep, last>>

\* What an operation does depends on the representation only.
View == <<kind, rep>>

L == INSTANCE RedisQuicklist
C == INSTANCE RedisCollections
Z == INSTANCE RedisSkiplist
R == INSTANCE RedisRax
H == INSTANCE RedisHyperLogLog
D == INSTANCE RedisRdb
P == INSTANCE RedisProtocol
M == INSTANCE RedisMigrate
U == INSTANCE RedisWalks
E == INSTANCE RedisAe

\* What there is to be scanned.
ScannedKeys(r) ==
    CASE r.type = "none" -> {}
      [] r.type = "set" -> C!Members(r.o)
      [] r.type = "hash" -> DOMAIN C!FieldValues(r.o)
      [] r.type = "db" -> C!dictKeys(r.o.d) \ r.o.over

\* What a representation stands for.
Value(k, r) ==
    CASE k = "ziplist" -> C!Values(r)
      [] k = "list" -> [entries |-> L!Entries(r), shut |-> L!Shut(r), spoiled |-> r = L!Spoiled]
      [] k = "set" -> C!Members(r)
      [] k = "hash" -> C!FieldValues(r)
      [] k = "zset" -> Z!ScoresOf(r)
      [] k = "dict" -> [keys |-> C!dictKeys(r.d), due |-> IF r.torn THEN {} ELSE r.due, walk |-> r.walk]
      [] k = "rax" -> R!KeySet(r.rax)
      [] k = "hll" -> H!RegistersOf(r)
      [] k = "string" -> r.str
      [] k = "sds" -> r.cs
      [] k \in {"db", "text"} -> r
      [] k = "query" -> [stream |-> r.stream, pos |-> r.pos, cmds |-> r.cmds, blocked |-> r.blocked, paused |-> r.paused,
                         failed |-> r.close, open |-> r.open, relayed |-> r.relayed]
      [] k = "reply" -> [due |-> r.out \o P!Drop(r.buf \o FlattenSeq(r.reply), r.sentlen), got |-> Len(r.out),
                         off |-> r.off, skip |-> r.skip, next |-> r.skipNext, close |-> r.close, open |-> r.open]
      [] k = "migrate" -> [src |-> r.src, dst |-> r.dst, reply |-> r.reply]
      [] k = "slot" -> [data |-> M!SlotData(r), spare |-> M!Spare(r), request |-> r.client.request, answer |-> r.client.answer]
      [] k = "config" -> [conf |-> r.conf, file |-> P!loadServerConfigFromString(r.file), kept |-> P!KeptLines(r.file)]
      [] k = "scan" -> [type |-> r.type, keys |-> ScannedKeys(r), due |-> IF r.torn THEN {} ELSE r.due, walk |-> r.walk]
      [] k = "ae" -> [files |-> r.epoll, timers |-> E!Timers(r), next |-> r.next, now |-> r.now, ready |-> r.ready, inside |-> r.inside,
                      readFirst |-> r.readFirst, called |-> r.called, began |-> r.began, newest |-> r.maxId, phase |-> r.pc]

V == Value(kind, rep)
Abstract == INSTANCE RedisValues WITH val <- V

NewDict == [d |-> C!dictCreate, walk |-> "none", cursor |-> 0, it |-> C!NewIterator,
            due |-> {}, torn |-> FALSE]

New(k) ==
    CASE k = "ziplist" -> C!ziplistNew
      [] k = "list" -> L!quicklistCreate
      [] k = "set" -> C!setTypeCreate(0)
      [] k = "hash" -> C!hashCreate
      [] k = "zset" -> Z!zsetCreate
      [] k = "dict" -> NewDict
      [] k = "rax" -> [rax |-> R!raxNewNode, count |-> [s \in Abstract!Slot |-> 0]]
      [] k = "hll" -> H!createHLLObject
      [] k = "string" -> [enc |-> "int", str |-> 0]
      [] k = "db" -> Abstract!NoKeys
      [] k = "sds" -> P!sdsnewlen(<<>>)
      [] k = "text" -> <<>>
      [] k = "query" -> P!NewQuery("none", FALSE)
      [] k = "reply" -> P!NewReply
      [] k = "migrate" -> [src |-> M!NoKey, dst |-> [d \in 0..1 |-> M!NoKey], replica |-> M!NoKey, sock |-> M!NoSocket,
                           reply |-> "none"]
      [] k = "slot" -> M!NewSlot
      [] k = "config" -> [file |-> <<>>, conf |-> P!Defaults, rewrites |-> 0]
      [] k = "scan" -> [type |-> "none", o |-> 0, walk |-> Abstract!NoWalk, cursor |-> 0, due |-> {}, torn |-> FALSE]
      [] k = "ae" -> E!aeCreateEventLoop

Init == /\ kind \in Kinds
        /\ rep = New(kind)
        /\ last = <<"new">>

Step(op, new) == /\ last' = op /\ rep' = new
                 /\ UNCHANGED kind

\* A ziplist that is merged in.
Built(s) == FoldLeft(LAMBDA zl, v : C!__ziplistInsert(zl, Len(zl.es) + 1, v), C!ziplistNew, s)

Ziplist ==
    /\ kind = "ziplist"
    /\ \E op \in Abstract!ZiplistOps :
        LET n == Len(rep.es) IN
        \/ op[1] = "insert" /\ op[2] <= n + 1 /\ n < MaxLength /\ Step(op, C!__ziplistInsert(rep, op[2], op[3]))
        \/ op[1] = "delete" /\ op[2] <= n /\ Step(op, C!__ziplistDelete(rep, op[2], op[3]))
        \/ op[1] = "merge" /\ n > 0 /\ n + Len(op[2]) <= MaxLength /\ Step(op, C!ziplistMerge(rep, Built(op[2])))

\* Nothing can be said of what follows once a compressed end was taken for an
\* uncompressed one.
List ==
    /\ kind = "list" /\ rep # L!Spoiled
    /\ \E op \in Abstract!ListOps :
        LET room == rep.count < MaxLength
            Unless(spoils, new) == Step(op, IF spoils THEN L!Spoiled ELSE new)
        IN
        \/ op[1] = "lpush" /\ room /\ Unless(L!PushSpoils(rep, "head"), L!quicklistPushHead(rep, op[2]))
        \/ op[1] = "rpush" /\ room /\ Unless(L!PushSpoils(rep, "tail"), L!quicklistPushTail(rep, op[2]))
        \/ op[1] = "lpop" /\ Unless(L!PopSpoils(rep, "head"), L!quicklistPop(rep, "head"))
        \/ op[1] = "rpop" /\ Unless(L!PopSpoils(rep, "tail"), L!quicklistPop(rep, "tail"))
        \/ op[1] = "rotate" /\ Unless(L!RotateSpoils(rep), L!quicklistRotate(rep))
        \/ op[1] = "lindex" /\ L!HasIndex(rep, op[2]) /\ Step(op, L!quicklistIndex(rep, op[2]).ql)
        \/ op[1] = "lset" /\ L!HasIndex(rep, op[2]) /\ Step(op, L!quicklistReplaceAtIndex(rep, op[2], op[3]))
        \/ op[1] = "linsert" /\ room /\ L!HasIndex(rep, op[2]) /\ Step(op, L!_quicklistInsert(rep, op[2], op[3], op[4]))
        \/ op[1] = "lrem" /\ Step(op, L!DelEntries(rep, 1, 1, op[2]))
        \/ op[1] = "delrange" /\ L!HasIndex(rep, op[2]) /\ Step(op, L!quicklistDelRange(rep, op[2], op[3]))

\* A set that is empty is deleted; the next SADD creates it again.
Set ==
    /\ kind = "set"
    /\ \E op \in Abstract!SetOps :
        LET e == op[2]
            s == IF C!Members(rep) = {} THEN C!setTypeCreate(e) ELSE rep
        IN \/ op[1] = "sadd" /\ Step(op, C!setTypeAdd(s, e))
           \/ op[1] = "srem" /\ Step(op, C!setTypeRemove(rep, e))
           \/ op[1] = "sismember" /\ rep.enc = "ht" /\ Step(op, [rep EXCEPT !.d = C!dictFind(@, e)])

Hash ==
    /\ kind = "hash"
    /\ \E op \in Abstract!HashOps :
        LET f == op[2]
            s == IF C!hashTypeLength(rep) = 0 THEN C!hashCreate ELSE rep
        IN \/ op[1] = "hset" /\ Step(op, C!hashTypeSet(s, f, op[3]))
           \/ op[1] = "hdel" /\ Step(op, C!hashTypeDelete(rep, f))
           \/ op[1] = "hget" /\ rep.enc = "ht" /\ Step(op, [rep EXCEPT !.d = C!dictFind(@, f)])

\* The source that a sorted set is joined with: a set if all its scores are 1.
Source(scores, weight) ==
    LET eles == SetToSeq(DOMAIN scores) IN
    IF \A x \in DOMAIN scores : scores[x] = 1
    THEN [type |-> IF eles = <<>> THEN "none" ELSE "set", obj |-> FoldLeft(C!setTypeAdd, C!setTypeCreate(1), eles), weight |-> weight]
    ELSE [type |-> "zset", obj |-> FoldLeft(LAMBDA z, x : Z!zsetAdd(z, scores[x], x, 1), Z!zsetCreate, eles), weight |-> weight]

\* The height of a new node is random.
Zset ==
    /\ kind = "zset"
    /\ \E op \in Abstract!ZsetOps :
        LET s == IF Z!zsetLength(rep) = 0 THEN Z!zsetCreate ELSE rep IN
        \/ op[1] = "zadd" /\ \E height \in 1..MaxLevel : Step(op, Z!zsetAdd(s, op[3], op[2], height))
        \/ op[1] = "zrem" /\ Step(op, Z!zsetDel(rep, op[2]))
        \/ op[1] = "zremrangebyscore" /\ Step(op, Z!zremrangebyscore(rep, op[2]))
        \/ /\ op[1] = "zremrangebylex" /\ Cardinality({Z!ScoresOf(rep)[x] : x \in DOMAIN Z!ScoresOf(rep)}) = 1
           /\ Step(op, Z!zremrangebylex(rep, op[2][1], op[2][2]))
        \/ op[1] = "zremrangebyrank" /\ op[3] <= Z!zsetLength(rep) /\ Step(op, Z!zremrangebyrank(rep, op[2], op[3]))
        \/ op[1] = "shrink" /\ Step(op, Z!zsetConvertToZiplistIfNeeded(rep))
        \/ /\ op[1] = "zstore" /\ Z!zsetLength(rep) > 0
           /\ LET own == [type |-> "zset", obj |-> rep, weight |-> 1]
                  new == U!zunionInterGenericCommand(op[2], <<own, Source(op[4], op[5])>>, op[3])
              IN Step(op, new) /\ {Z!ScoresOf(new)[x] : x \in DOMAIN Z!ScoresOf(new)} \subseteq Abstract!Score

\* While an iterator is used nothing else runs but the loop it belongs to,
\* which may add, look up and delete the key it was given.
Iterating == rep.walk = "iterate"

\* A walk by cursor: what it still has to return is "due".  It is "torn" once
\* its cursor, made for a larger table, fell among the four or more buckets
\* that stand for one bucket of the smaller table of a rehash.
FallsAmong(d, v) == LET sizes == {C!Size(d.ht[1]), C!Size(d.ht[2])} IN
                 /\ C!dictIsRehashing(d) /\ Max(sizes) >= 4 * Min(sizes)
                 /\ v % Max(sizes) >= Min(sizes)
ScanStep == LET fresh == rep.walk = "none"
                s == C!dictScan(rep.d, IF fresh THEN 0 ELSE rep.cursor)
            IN [rep EXCEPT !.cursor = s.v, !.walk = IF s.v = 0 THEN "none" ELSE "scan",
                           !.due = (IF fresh THEN C!dictKeys(rep.d) ELSE @) \ s.keys,
                           !.torn = ~fresh /\ (@ \/ FallsAmong(rep.d, rep.cursor))]
IterateStep == LET fresh == rep.walk = "none"
                   from == IF fresh THEN C!NewIterator ELSE rep.it
                   it == C!dictNext(rep.d, from)
                   over == it.entry = -1
               IN [rep EXCEPT !.it = IF over THEN C!NewIterator ELSE it, !.walk = IF over THEN "none" ELSE "iterate",
                              !.d.its = IF over THEN 0 ELSE 1,
                              !.due = (IF fresh THEN C!dictKeys(rep.d) ELSE @) \ {it.entry},
                              !.torn = FALSE]
Dict ==
    /\ kind = "dict"
    /\ \E op \in Abstract!DictOps :
        \/ op[1] = "add" /\ Step(op, [rep EXCEPT !.d = C!dictAddRaw(@, op[2])])
        \/ /\ op[1] = "del" /\ (Iterating => op[2] = rep.it.entry)
           /\ Step(op, [rep EXCEPT !.d = C!dictGenericDelete(@, op[2]), !.due = @ \ {op[2]}])
        \/ op[1] = "find" /\ Step(op, [rep EXCEPT !.d = C!dictFind(@, op[2])])
        \/ op[1] = "resize" /\ ~Iterating /\ Step(op, [rep EXCEPT !.d = C!tryResizeHashTables(@)])
        \/ op[1] = "rehash" /\ ~Iterating /\ Step(op, [rep EXCEPT !.d = C!incrementallyRehash(@)])
        \/ op[1] = "child" /\ ~Iterating /\ Step(op, [rep EXCEPT !.d.can = ~@])
        \/ op[1] = "sample" /\ ~Iterating /\ Step(op, [rep EXCEPT !.d = C!dictGetSomeKeys(@, 0, op[2]).d])
        \/ op[1] = "empty" /\ ~Iterating /\ Step(op, [NewDict EXCEPT !.d = C!dictEmpty(rep.d)])
        \/ op[1] = "scan" /\ ~Iterating /\ Step(op, ScanStep)
        \/ op[1] = "iterate" /\ rep.walk # "scan" /\ Step(op, IterateStep)

\* A walk with SCAN, SSCAN or HSCAN, always with the same pattern.
Table(r) == IF r.type = "db" \/ r.o.enc = "ht" THEN r.o.d ELSE C!dictCreate
Fields(list, type) == IF type = "hash" THEN {list[i] : i \in {j \in DOMAIN list : j % 2 = 1}} ELSE ToSet(list)
ScanCommand(count, pattern) ==
    LET fresh == rep.walk = Abstract!NoWalk
        s == U!scanGenericCommand(rep.type, rep.o, IF fresh THEN 0 ELSE rep.cursor, count, pattern)
        over == s.v = 0
    IN [rep EXCEPT !.o = s.o, !.cursor = s.v, !.walk = IF over THEN Abstract!NoWalk ELSE pattern,
                   !.due = (IF fresh THEN V.keys \cap pattern ELSE @) \ Fields(s.list, rep.type),
                   !.torn = ~fresh /\ (@ \/ FallsAmong(Table(rep), rep.cursor))]
Scan ==
    /\ kind = "scan"
    /\ \E op \in Abstract!ScanOps :
        \/ /\ op[1] = "scantype" /\ rep.type = "none"
           /\ Step(op, [rep EXCEPT !.type = op[2], !.o = CASE op[2] = "set" -> C!setTypeCreate(0) [] op[2] = "hash" -> C!hashCreate
                                                          [] op[2] = "db" -> [d |-> C!dictCreate, over |-> {}]])
        \/ op[1] = "add" /\ rep.type = "set" /\ Step(op, [rep EXCEPT !.o = C!setTypeAdd(@, op[2])])
        \/ op[1] = "del" /\ rep.type = "set" /\ Step(op, [rep EXCEPT !.o = C!setTypeRemove(@, op[2]), !.due = @ \ {op[2]}])
        \/ op[1] = "add" /\ rep.type = "hash" /\ Step(op, [rep EXCEPT !.o = C!hashTypeSet(@, op[2], 1)])
        \/ op[1] = "del" /\ rep.type = "hash" /\ Step(op, [rep EXCEPT !.o = C!hashTypeDelete(@, op[2]), !.due = @ \ {op[2]}])
        \/ op[1] = "add" /\ rep.type = "db" /\ Step(op, [rep EXCEPT !.o = [U!expireIfNeeded(@, op[2]) EXCEPT !.d = C!dictAddRaw(@, op[2])]])
        \/ op[1] = "del" /\ rep.type = "db" /\ Step(op, [rep EXCEPT !.o.d = C!dictGenericDelete(@, op[2]), !.o.over = @ \ {op[2]}, !.due = @ \ {op[2]}])
        \/ op[1] = "expire" /\ rep.type = "db" /\ op[2] \in V.keys /\ Step(op, [rep EXCEPT !.o.over = @ \cup {op[2]}, !.due = @ \ {op[2]}])
        \/ op[1] = "rehash" /\ rep.type = "db" /\ Step(op, [rep EXCEPT !.o.d = C!incrementallyRehash(@)])
        \/ op[1] = "keys" /\ rep.type = "db" /\ Step(op, [rep EXCEPT !.o = U!keysCommand(@, op[2]).o])
        \/ op[1] = "scan" /\ rep.type # "none" /\ rep.walk \in {Abstract!NoWalk, op[3]} /\ Step(op, ScanCommand(op[2], op[3]))

\* Events are registered and removed before the loop sleeps, and by handlers.
\* The clock goes on, and is set back once.  There are two descriptors, or one to read
\* and timers.
EventLoop ==
    /\ kind = "ae"
    /\ \E op \in Abstract!AeOps :
        LET handler == rep.pc = "main" \/ rep.inside # <<>> IN
        \/ op[1] = "fdadd" /\ handler /\ (rep.next > 0 => op[2] = 0 /\ op[3] = {"r"}) /\ Step(op, E!aeCreateFileEvent(rep, op[2], op[3], op[4]))
        \/ op[1] = "fddel" /\ handler /\ Step(op, E!aeDeleteFileEvent(rep, op[2], op[3]))
        \/ op[1] = "timer" /\ handler /\ rep.next < Abstract!MaxTimers /\ rep.ev[1].mask = {} /\ rep.ev[0].mask \subseteq {"r"} /\ Step(op, E!aeCreateTimeEvent(rep, op[2]))
        \/ op[1] = "cancel" /\ handler /\ op[2] \in DOMAIN V.timers /\ Step(op, E!aeDeleteTimeEvent(rep, op[2]))
        \/ op[1] = "clock" /\ handler /\ rep.next > 0 /\ (op[2] > rep.now \/ (op[2] = 2 /\ rep.now = 4)) /\ Step(op, [rep EXCEPT !.now = op[2]])
        \/ /\ op[1] = "poll" /\ rep.pc = "main" /\ \A e \in op[2] : e[2] \in rep.epoll[e[1]]
           /\ op[2] # {} \/ E!aeSearchNearestTimer(rep) = 0 \/ op[3] # -1
           /\ Step(op, E!aeApiPoll(rep, op[2], op[3]))
        \/ op[1] = "go" /\ rep.pc # "main" /\ rep.inside = <<>>
           /\ LET new == E!Proceed(rep) IN
              Step(op, IF new.pc = "main" THEN [new EXCEPT !.called = {}, !.began = 0, !.maxId = -1, !.first = TRUE, !.ready = {}, !.readFirst = {}]
                       ELSE new)
        \/ op[1] = "return" /\ rep.inside # <<>> /\ (rep.inside[1] = "t" \/ op[2] = -1) /\ Step(op, E!Return(rep, op[2]))

\* The slot index is told of a key only when the key is added or deleted.
Rax ==
    /\ kind = "rax"
    /\ \E op \in Abstract!RaxOps :
        \/ op[1] = "raxinsert" /\ ~R!raxFind(rep.rax, op[2]) /\ Step(op, R!slotToKeyUpdateKey(rep, op[2], TRUE))
        \/ op[1] = "raxremove" /\ R!raxFind(rep.rax, op[2]) /\ Step(op, R!slotToKeyUpdateKey(rep, op[2], FALSE))
        \/ op[1] = "delslot" /\ Step(op, R!delKeysInSlot(rep, op[2]))

Hll ==
    /\ kind = "hll"
    /\ \E op \in Abstract!HllOps :
        \/ op[1] = "pfadd" /\ Step(op, H!pfaddCommand(rep, op[2], op[3]))
        \/ op[1] = "pfcount" /\ Step(op, H!pfcountCommand(rep))
        \/ op[1] = "pfmerge" /\ Step(op, H!pfmergeCommand(rep, op[2]))

String ==
    /\ kind = "string"
    /\ \E op \in Abstract!StringOps :
        \/ op[1] = "set" /\ Step(op, D!tryObjectEncoding([enc |-> "raw", str |-> op[2]]))
        \/ op[1] = "unshare" /\ Step(op, D!dbUnshareStringValue(rep))

\* The databases of a server, saved and loaded "later" by a master or a slave.
Databases ==
    /\ kind = "db"
    /\ \E op \in Abstract!DbOps :
        \/ op[1] = "put" /\ Step(op, [rep EXCEPT !.dbs[op[2]] = (op[3] :> op[4]) @@ @, !.select = op[2]])
        \/ op[1] = "tick" /\ rep.now < Abstract!LastTime /\ Step(op, [rep EXCEPT !.now = @ + 1])
        \/ /\ op[1] = "restart" /\ rep.now + op[3] <= Abstract!LastTime
           /\ Step(op, D!ReloadedDbs(rep, op[2], rep.now + op[3]) @@ [now |-> rep.now + op[3]])

\* The peer sends one of the streams and read() returns it piece by piece.
\* A pause is not taken in the middle of a large argument, where the rest of
\* it would leave nothing to read, nor on a master's stream; and a client that
\* waits does not send more ahead than the longest line.
Query ==
    /\ kind = "query" /\ rep.open
    /\ \E op \in Abstract!QueryOps :
        \/ /\ op[1] = "connect" /\ rep.stream = "none"
           /\ Step(op, P!NewQuery(op[2], op[2] = "master"))
        \/ LET left == P!Drop(Abstract!Bytes(rep.stream), rep.pos) IN
           /\ op[1] = "read" /\ rep.stream # "none" /\ op[2] <= Min({P!ReadLen(rep), Len(left)})
           /\ left # <<>> /\ (op[2] = 0 <=> P!ReadLen(rep) = 0)
           /\ rep.paused \/ rep.blocked => Len(rep.buf) + op[2] <= InlineMax
           /\ Step(op, P!readQueryFromClient(rep, SubSeq(left, 1, op[2])))
        \/ op[1] = "pause" /\ rep.stream # "none" /\ ~rep.paused /\ ~rep.master /\ rep.bulklen < BigArg /\ Step(op, P!pauseClients(rep))
        \/ op[1] = "resume" /\ rep.paused /\ Step(op, P!clientsArePaused(rep))
        \/ op[1] = "unblock" /\ rep.blocked /\ Step(op, P!processUnblockedClients(rep))

\* After QUIT only messages of channels are still added.
Reply ==
    /\ kind = "reply" /\ rep.open
    /\ \E op \in Abstract!ReplyOps :
        LET room == Len(Value(kind, rep).due) < Abstract!MaxDue IN
        \/ op[1] = "run" /\ room /\ ~rep.close /\ Step(op, P!RunCommand(rep, Abstract!Replies[op[2]]))
        \/ op[1] = "message" /\ room /\ Step(op, P!AddReplies(rep, <<"pair">>))
        \/ op[1] = "mode" /\ room /\ ~rep.close /\ Step(op, P!clientReplyCommand(rep, op[2]))
        \/ op[1] = "quit" /\ ~rep.close /\ Step(op, P!quitCommand(rep))
        \/ op[1] = "loop" /\ rep.pending /\ Step(op, P!handleClientsWithPendingWrites(rep, op[2]))
        \/ op[1] = "writable" /\ rep.handler /\ Step(op, P!writeToClient(rep, op[2]))

Sds ==
    /\ kind = "sds"
    /\ \E op \in Abstract!SdsOps :
        LET n == Len(rep.cs) IN
        \/ op[1] = "sdscat" /\ n + Len(op[2]) <= MaxString /\ Step(op, P!sdscatlen(rep, op[2]))
        \/ op[1] = "sdsfmt" /\ n + 5 <= MaxString /\ Step(op, P!sdscatfmt(rep, op[2]))
        \/ op[1] = "sdscpy" /\ Step(op, P!sdscpylen(rep, op[2]))
        \/ op[1] = "sdsgrow" /\ Step(op, P!sdsgrowzero(rep, op[2]))
        \/ op[1] = "sdsrange" /\ Step(op, P!sdsrange(rep, op[2], op[3]))
        \/ op[1] = "sdstrim" /\ Step(op, P!sdstrim(rep, {op[2]}))
        \/ op[1] = "sdsclear" /\ Step(op, P!sdsclear(rep))
        \/ op[1] = "sdsincr" /\ n > 0 /\ Step(op, P!sdsIncrLen(rep, -1))
        \/ op[1] = "sdsroom" /\ Step(op, P!sdsMakeRoomFor(rep, op[2]))
        \/ op[1] = "sdsfit" /\ Step(op, P!sdsRemoveFreeSpace(rep))
        \/ op[1] = "sdsdup" /\ Step(op, P!sdsnewlen(rep.cs))

\* Questions that depend on their arguments only.
Text ==
    /\ kind = "text" /\ rep = <<>>
    /\ \E op \in Abstract!TextOps :
        \/ /\ op[1] = "match"
           /\ Step(op, <<P!stringmatchlen(FlattenSeq([i \in DOMAIN op[2] |-> op[2][i].bytes]), op[3], op[4])>>)
        \/ /\ op[1] = "number"
           /\ Step(op, <<P!string2ll(P!ll2string(op[2])) = [ok |-> TRUE, v |-> op[2]] /\ P!sdsll2str(op[2]) = P!ll2string(op[2])>>)
        \/ op[1] = "memory" /\ Step(op, <<P!memtoll(P!rewriteConfigFormatMemory(op[2])) = [ok |-> TRUE, v |-> op[2]]>>)
        \/ op[1] = "keys" /\ Step(op, <<M!getKeysFromCommand(op[2].argv)>>)
        \/ op[1] = "tag" /\ Step(op, <<P!keyHashSlot(op[2].bytes) = P!keyHashSlot(op[3].bytes)>>)

\* Two instances, and MIGRATE from one to the other.
Migrate ==
    /\ kind = "migrate"
    /\ \E op \in Abstract!MigrateOps :
        \/ op[1] = "put" /\ op[2] = -1 /\ Step(op, [rep EXCEPT !.src[op[3]] = op[4], !.replica[op[3]] = op[4]])
        \/ op[1] = "put" /\ op[2] # -1 /\ Step(op, [rep EXCEPT !.dst[op[2]][op[3]] = op[4]])
        \/ /\ op[1] = "migrate"
           /\ LET s == M!migrateCommand(rep, op[2], op[3], op[4]) IN Step(op, [s.m EXCEPT !.reply = s.reply])
        \/ op[1] = "hangup" /\ rep.sock.alive /\ Step(op, [rep EXCEPT !.sock.alive = FALSE])
        \/ op[1] = "idle" /\ Step(op, [rep EXCEPT !.sock = M!migrateCloseTimedoutSockets(@)])

\* A slot of a cluster, moved forth and back.  After a MIGRATE that failed a
\* key may be at both nodes.  Assumed of the client: it follows an ASK before the
\* next move of the slot begins (an ASKING that comes between the two SETSLOT of
\* a later move would write to the importing node what the other still serves).
Slot ==
    /\ kind = "slot"
    /\ LET trib == rep.trib
           request == rep.client.request
       IN \E op \in Abstract!SlotsOps :
        \/ op[1] = "ask" /\ request = <<>> /\ Step(op, [rep EXCEPT !.client.request = op[2]])
        \/ op[1] = "send" /\ request # <<>> /\ Step(op, M!Request(rep))
        \/ /\ op[1] = "start" /\ trib.pc = "idle" /\ ~rep.client.asking /\ \A n \in M!Node : rep.node[n].migrating + rep.node[n].importing = 0
           /\ rep.node[1].owner = rep.node[2].owner
           /\ Step(op, [rep EXCEPT !.trib = [pc |-> "importing", from |-> rep.node[1].owner, fix |-> FALSE, todo |-> {}]])
        \/ op[1] = "operator" /\ trib.pc \in {"importing", "migrating", "keys", "replace"} /\ Step(op, M!moveSlot(rep, op[2], op[3]))
        \/ op[1] = "told" /\ trib.pc = "nodes" /\ op[2] \in trib.todo /\ Step(op, M!Told(rep, op[2], M!Other(trib.from)))
        \/ op[1] = "crash" /\ trib.pc \notin {"idle", "failed"} /\ Step(op, [rep EXCEPT !.trib.pc = "failed", !.trib.todo = {}])
        \/ op[1] = "fix" /\ trib.pc = "failed" /\ Step(op, M!fixOpenSlot(rep))
        \/ /\ op[1] = "hear" /\ rep.node[M!Other(op[2])].owner = M!Other(op[2])
           /\ Step(op, [rep EXCEPT !.node[op[2]] = M!clusterUpdateSlotsConfigWith(@, op[2], M!Other(op[2]), rep.newest # op[2])])

\* Someone writes the file while the server runs.
Config ==
    /\ kind = "config"
    /\ \E op \in Abstract!ConfigOps :
        \/ op[1] = "configset" /\ Step(op, [rep EXCEPT !.conf = P!configSetCommand(@, op[2], op[3])])
        \/ op[1] = "edit" /\ rep.file = <<>> /\ Step(op, [rep EXCEPT !.file = op[2]])
        \/ /\ op[1] = "rewrite" /\ rep.rewrites < Abstract!MaxRewrites
           /\ Step(op, [rep EXCEPT !.file = P!rewriteConfig(@, rep.conf, op[2]), !.rewrites = @ + 1])
        \/ LET loaded == P!loadServerConfigFromString(rep.file) IN
           op[1] = "restart" /\ loaded.ok /\ Step(op, [rep EXCEPT !.conf = loaded.conf])

\* A value goes to an RDB file or to the commands of a rewritten AOF and comes
\* back; empty values have no key.
Persist ==
    /\ kind \in {"list", "set", "hash", "zset", "string"}
    /\ kind = "list" => rep.count > 0
    /\ kind = "set" => Value(kind, rep) # {}
    /\ kind \in {"hash", "zset"} => DOMAIN Value(kind, rep) # {}
    /\ \E height \in 1..MaxLevel :
        \/ Step(<<"reload">>, D!Reloaded(kind, rep, height))
        \/ kind # "string" /\ Step(<<"rewrite">>, D!Rebuilt(kind, rep, height))

Next == Ziplist \/ List \/ Set \/ Hash \/ Zset \/ Dict \/ Rax \/ Hll \/ String \/ Databases \/ Query \/ Reply \/ Sds \/ Text \/ Migrate \/ Slot \/ Config \/ Scan \/ EventLoop
        \/ Persist

Spec == Init /\ [][Next]_vars

(***************************************************************************)
(* Properties                                                               *)
(***************************************************************************)

\* Whatever encodings a structure goes through, every operation does to its
\* value what the operation promises (RedisValues).  Three promises are as weak
\* as the code makes them.  A walk by cursor is over only when it returned every
\* key that was there all the time, if the cursor was not torn by a rehash to
\* four times the size or a quarter (ScanReturnsAll is the promise without that).
\* A list is what its operations say until a push or a pop meets an end whose
\* node is compressed: a read or a deletion in the middle leaves its node marked
\* "recompress", pops or the deletion make that node an end, and the next LSET,
\* LINSERT or push beside it compresses it there (quicklist.c:333).  A key whose MIGRATE failed may have a spare, older copy at the other
\* node of the slot, which a deletion of the key uncovers.
Implements == Abstract!Spec

\* "The function guarantees all elements present in the dictionary get returned
\* between the start and end of the iteration" (dict.c:761): a walk of dictScan
\* that is over returned every key that was in the table from the start to the
\* end of it.
ScanReturnsAll == kind = "dict" /\ last = <<"scan">> /\ rep.walk = "none" => rep.due = {}

\* Replies that wait are of a client the event loop knows of.
ReplyOK == /\ rep.reply_bytes = Len(FlattenSeq(rep.reply))
           /\ rep.open /\ P!clientHasPendingReplies(rep) => rep.pending \/ rep.handler

\* The representations are what the code that reads them relies on: lengths
\* and offsets of a ziplist, node sizes and counts of a quicklist, order,
\* spans and back links of a skiplist and its agreement with the hash table,
\* one bucket per key, opcodes of a HyperLogLog that can be decoded.  That the
\* ends of a quicklist are not compressed (redis.conf:1075), which its pushes and
\* pops rely on as well, is not among them: it does not hold (see Implements).
WellFormed ==
    CASE kind = "ziplist" -> C!ZiplistOK(rep)
      [] kind = "list" -> rep = L!Spoiled \/ L!QuicklistOK(rep)
      [] kind = "set" -> C!IntsetOK(rep.is) /\ C!DictOK(rep.d)
      [] kind = "hash" -> C!ZiplistOK(rep.zl) /\ C!DictOK(rep.d)
      [] kind = "zset" -> Z!ZsetOK(rep)
      [] kind = "dict" -> C!DictOK(rep.d)
      [] kind = "rax" -> R!RaxOK(rep.rax)
      [] kind = "hll" -> H!HllOK(rep)
      [] kind = "string" -> rep.enc \in {"raw", D!Encoding(rep.str)}
      [] kind = "db" -> TRUE
      [] kind = "query" -> rep.buf # <<>> => rep.reqtype # "none" \/ rep.paused \/ rep.blocked
      [] kind = "reply" -> ReplyOK
      [] kind = "sds" -> P!SdsOK(rep)
      [] kind = "text" -> TRUE
      [] kind = "migrate" -> rep.replica = rep.src /\ rep.sock.last_dbid \in {-1, rep.sock.db}
      [] kind = "config" -> Cardinality({i \in DOMAIN rep.file : rep.file[i] = P!Signature}) <= 1
      [] kind = "ae" -> E!AeOK(rep)
      [] kind = "scan" -> rep.type # "none" => C!DictOK(Table(rep)) /\ (rep.type = "db" => rep.o.over \subseteq C!dictKeys(rep.o.d))
      [] kind = "slot" -> \A n \in M!Node : LET node == rep.node[n] IN
                            /\ node.replica = node.db
                            /\ node.db # M!NoKey => node.owner = n \/ node.importing # 0

ZiplistAnswers(v) ==
    /\ \A i \in -MaxLength..(MaxLength - 1) :
         LET p == C!ziplistIndex(rep, i) IN
         p = IF i >= 0 THEN (IF i < Len(v) THEN i + 1 ELSE 0) ELSE (IF -i <= Len(v) THEN Len(v) + 1 + i ELSE 0)
    /\ C!ziplistLen(rep) = Len(v)
ListAnswers(v) ==
    \A i \in 0..(Len(v.entries) - 1) : LET e == L!quicklistIndex(rep, i) IN e.ql.nodes[e.node].zl[e.entry] = v.entries[i + 1]
SetAnswers(v) ==
    /\ \A e \in Elements : C!setTypeIsMember(rep, e) <=> e \in v
    /\ C!setTypeSize(rep) = Cardinality(v)
HashAnswers(v) ==
    /\ \A f \in Abstract!Field : C!hashTypeGetValue(rep, f) = IF f \in DOMAIN v THEN v[f] ELSE 0
    /\ C!hashTypeLength(rep) = Cardinality(DOMAIN v)
ZsetAnswers(v) ==
    LET order == Abstract!Ordered(v) IN
    /\ \A i \in DOMAIN order : /\ Z!zsetRank(rep, order[i], FALSE) = i - 1
                               /\ Z!zsetRank(rep, order[i], TRUE) = Len(order) - i
                               /\ Z!zsetScore(rep, order[i]) = v[order[i]]
                               /\ rep.enc = "skiplist" => Z!zslGetElementByRank(rep.zsl, i) = order[i]
    /\ \A r \in Abstract!Ranges :
         LET in == SelectSeq(order, LAMBDA x : Abstract!InRange(v[x], r)) IN
         /\ Z!zrangebyscore(rep, r, FALSE) = in
         /\ Z!zrangebyscore(rep, r, TRUE) = Reverse(in)
         /\ Z!zcount(rep, r) = Len(in)
    /\ Cardinality({v[x] : x \in DOMAIN v}) = 1 => \A r \in Abstract!LexRanges :
         LET in == SelectSeq(order, LAMBDA x : Abstract!InLexRange(x, r)) IN
         /\ Z!genericZrangebylex(rep, r[1], r[2], 0, -1, FALSE) = in
         /\ Z!genericZrangebylex(rep, r[1], r[2], 1, 2, TRUE) = SubSeq(Reverse(in), 2, Min({3, Len(in)}))
         /\ Z!zlexcount(rep, r[1], r[2]) = Len(in)
DictAnswers(v) ==
    /\ \A k \in DictKeys : C!Holding(rep.d, k) # {} <=> k \in v.keys
    /\ v.keys # {} => UNION {C!dictGetRandomKey(rep.d, r) : r \in 0..15} = v.keys
    /\ \A i \in 0..3 : LET s == C!dictGetSomeKeys(rep.d, i, 2).keys IN ToSet(s) \subseteq v.keys /\ Len(s) <= 2
Upto(S) == Reverse(Abstract!InOrder(S))
RaxAnswers(v) ==
    /\ \A k \in RaxKeys \cup {<<c>> : c \in Abstract!Slot} :
         /\ R!raxFind(rep.rax, k) <=> k \in v
         /\ \A op \in {">=", ">"} :
              R!KeysFrom(rep.rax, R!raxSeek(rep.rax, op, k))
                = Abstract!InOrder({x \in v : IF op = ">" THEN Abstract!Less(k, x) ELSE ~Abstract!Less(x, k)})
    /\ R!KeysBack(rep.rax, R!raxSeek(rep.rax, "$", <<>>)) = Upto(v)
    /\ \A c \in Abstract!Slot :
         LET own == Abstract!InOrder({x \in v : Head(x) = c}) IN
         /\ rep.count[c] = Len(own)
         /\ R!getKeysInSlot(rep, c, 2) = SubSeq(own, 1, Min({2, Len(own)}))
SdsAnswers(v) ==
    /\ P!sdssplitargs(P!sdscatrepr(v)) = [ok |-> TRUE, argv |-> <<v>>]
    /\ \A sep \in {<<"a">>, <<"LF", "a">>} : P!sdsjoinsds(P!sdssplitlen(v, sep), sep) = v
\* Nothing but what is there is returned, whatever the cursor; fields come
\* with their values.
ScanAnswers(v) ==
    rep.type # "none" =>
      /\ \A cursor \in {0, 1, 2, 5} : \A p \in Abstract!ScanPatterns :
           LET list == U!scanGenericCommand(rep.type, rep.o, cursor, 1, p).list IN
           /\ Fields(list, rep.type) \subseteq v.keys \cap p
           /\ rep.type = "hash" => \A i \in DOMAIN list : i % 2 = 0 => list[i] = C!FieldValues(rep.o)[list[i - 1]]
      /\ rep.type = "db" => \A p \in Abstract!ScanPatterns : ToSet(U!keysCommand(rep.o, p).list) = v.keys \cap p
HllAnswers(v) == H!pfcountCommand(rep).card = v

AnswersFor(v) ==
    CASE kind = "ziplist" -> ZiplistAnswers(v) [] kind = "list" -> ListAnswers(v)
      [] kind = "set" -> SetAnswers(v) [] kind = "hash" -> HashAnswers(v) [] kind = "zset" -> ZsetAnswers(v)
      [] kind = "dict" -> DictAnswers(v) [] kind = "rax" -> RaxAnswers(v) [] kind = "hll" -> HllAnswers(v)
      [] kind = "sds" -> SdsAnswers(v) [] kind = "scan" -> ScanAnswers(v)
      [] kind \in {"string", "db", "query", "reply", "text", "migrate", "slot", "config", "ae"} -> TRUE

\* What a query of a structure answers is what its value says: the entry at
\* an index from either end, the rank of an element and the element of a
\* rank, a range of scores in both directions and its size, the keys of a
\* slot, every key within reach of a random draw, the cached cardinality.
Answers == AnswersFor(V)
=============================================================================
