# A TLA+ model of cfs-shop and the Redis it runs on

cfs-shop is a Spring Boot shop whose heart is a flash sale ("miaosha", 秒杀): a
POST takes one unit off a counter in Redis and queues a message in RocketMQ; a
listener turns the message into an order in MySQL. Around it stand the login
with its cookie session, the goods pages, and an administration back end. All of
them keep their shared state in Redis, and the repository carries the C source
of that server in `tools/redis-4.0.9`, which is by far the larger part of its
code. This directory holds TLA+ modules of the parts of both with real control
in them, the TLC runs that check them on small instances, and TLAPS proofs of
the main safety properties for all instances.

## Inventory

The shop:

| Component | State it keeps | Operations | What is hard | Modelled in |
|---|---|---|---|---|
| Flash sale: `MiaoShaController`, `MQSender`, `MQReceiver`, `orderServiceImpl`, `GoodsMapper`, `OrderMapper` | `localOverMap` per node; Redis counter, order map, over map; tables `miaosha_goods`, `order_info`, `miaosha_order`; the queue | boot (`afterPropertiesSet`), `do_miaosha`, `consumeMessage`, `miaosha`, `createOrder`, `setGoodsOver` | several nodes, at-least-once delivery, a listener that always asks for redelivery, statements without a transaction, restarts in the middle of a sale | `Miaosha` |
| Login and session: `UserServiceImlp`, `LoginController`, `AccessInterceptor`, `UserContext`, `BaseController` | bloom filter, row cache `user`, lock `user`, maps `token_user` and `miao_sha_user` in Redis; the thread-local user | boot, `getById`, `login`, `addCookie`, `preHandle` | double-checked caching under a distributed lock, lock owners that die, pooled threads | `Login` |
| Goods pages: `GoodsController`, `GoodServiceImpl`, the script of `goods_detail.html` | page cache in Redis, 3 s lifetime; the countdown in the browser | `to_list`, `goods_detail`, `countDown` | slow renderers, pages that arrive late, the sale window | `GoodsPages` |
| Shiro sessions on Redis: `RedisSessionDAO`, `SessionInMemory`, Redis managers | sessions in Redis, copies per thread for 1 s | create, read, update, delete, list | stale copies, updates of deleted sessions, `SET` then `EXPIRE` | `SessionStore` |
| In-process bloom filter: `BloomFileter` | bit set, use counter | `add`, `check`, `addIfNotExist`, `clear`, automatic clearing | unsynchronised threads, `int` overflow | planned |
| Shiro cache on Redis: `RedisCache`, `RedisCacheManager` | cached values in Redis | get, put, remove, clear | `clear` deletes key by key | no |
| Administration services: departments, employees, users, roles, permissions | their tables and the link table | insert, update, delete, link | check-then-insert, deletion racing insertion | planned |
| Administration login: `LoginController`, `UserShiroRealm`, `MySessionManager`, `ShiroConfig` | Shiro's | one call into Shiro | none of its own | no |
| Wiring, value classes, helpers, `com.github.mapper` (vendored), MyCat, static assets | none | | | no |

The bundled Redis (`tools/redis-4.0.9/src`):

| Component | State it keeps | Operations | What is hard | Modelled in |
|---|---|---|---|---|
| Structures: `ziplist.c`, `quicklist.c`, `intset.c`, `dict.c`, `rax.c`, `t_zset.c`, `hyperloglog.c`, `sds.c`, … | one value each, in one of several encodings | insert, delete, find, walk, convert | encodings that change under an operation, cascading updates, two tables during a rehash, cursors across resizes | `RedisStructures` and the modules it instantiates |
| Files and wire formats: `rdb.c`, `networking.c`, `config.c` | a value or database on disk, the query and reply buffers, the configuration file | save, load, parse, write, rewrite | requests cut at any byte, partial writes, limits of an encoding | `RedisRdb`, `RedisProtocol`, `RedisText` |
| Moving keys: `cluster.c` (MIGRATE, slots), `redis-trib.rb` | a key or slot on two masters | MIGRATE, ASK, SETSLOT, fix | lost answers, cached sockets, a crash between two steps | `RedisMigrate` |
| Commands and keyspace: `db.c`, `t_*.c`, `sort.c`, `bitops.c`, `geo.c`, `expire.c`, `evict.c` | two databases with lifetimes | the commands of the data types | what is propagated must give the same data at another time | `RedisKeyspace` over `RedisServer` and its parts |
| Event loop, clients, persistence: `server.c`, `blocked.c`, `multi.c`, `scripting.c`, `pubsub.c`, `aof.c` | clients and what they wait for, watched keys, the AOF with its buffers and children | command handlers, `beforeSleep`, `serverCron`, done handlers | clients served by the commands of others, rewrites that race with writes, power loss | `RedisEventLoop` over `RedisPersistence`, `RedisClients` |
| Event library: `ae.c` | file and time events | create, delete, process | handlers that change the event table they are called from | `RedisAe` |
| Replication: `replication.c` | backlog, two replication ids, slaves and their states | SLAVEOF, PSYNC, full synchronisation, stream | promotion and demotion in any order, partial synchronisation of the wrong history | `RedisReplication` |
| Cluster: `cluster.c` | epochs, slot table, vote, `nodes.conf` | gossip, elections, manual failover, replica migration | votes and claims in any order, restarts between save and send | `RedisCluster` |
| Sentinel: `sentinel.c` | per master: leader, epochs, failover state, configuration file | timer, hello, `is-master-down-by-addr`, failover | answers that come late, restarts in the middle of a failover | `RedisSentinel` |
| Modules, tools, libraries | | | | no |

How the parts interact: the interceptor of the login part fills `UserContext`
before every handler; `do_miaosha` takes the user from it, reads the
`MiaoshaUser` that `addCookie` put in Redis, and sends it in the message; the
listener reads and writes MySQL and the two Redis maps that `do_miaosha` (order
map) and nobody (over map) reads. All nodes share Redis, MySQL and the broker.
Inside Redis one thread runs the event loop: a command changes the keyspace,
whose values are the structures; it wakes blocked clients and dirties watched
keys, and is propagated to the AOF and to the slaves. Cluster and Sentinel run
in the same kind of loop and decide which server is a master.

What makes each part correct: the flash sale must not sell a unit twice, must
not record two seckill orders of one user for one goods, must not refuse anyone
as a repeat without an order, and must lose no unit unless something failed. The
login must publish a session only when it is complete, must run a request as
the user of its own cookie, must shield MySQL, and must not hang on a lock. A
goods page must not hide the end of the sale for longer than the thread that
made it and the lifetime of the cache account for, and must let nobody buy
early. The session store must not keep showing sessions that are gone, must not
bring them back, and must give every session a lifetime. A Redis structure must
answer as the value it stands for; what a command propagates must give a slave
and a replayed file the same data; a transaction must not run over a changed
watched key and no client may sleep on data that is there; a server that has an
offset of a history must have its data; a Cluster master or a Sentinel must vote
once in an epoch, and authority must move with epochs only.

## Modules of the shop

### Miaosha

One action per call that leaves the process; between calls anything may
interleave. A request is a process that runs `MiaoShaController.miaosha` once,
and its last control point is the answer.

| Action | Code |
|---|---|
| `ListGoods`, `LoadStock`, `Serve` | `afterPropertiesSet`: one query, then one `set` of the counter and one `put` per goods, in any order the query may return |
| `Arrive` | the interceptor's user and the check for `SESSION_ERROR` |
| `DecrementStock`, `MarkOver`, `CheckOver`, `CheckOrdered`, `SendMiaoshaMessage` | the rest of `miaosha`, in the order of the code |
| `Deliver`, `ReadStock`, `LookupOrder` | `MQReceiver.consumeMessage` |
| `ReduceStock`, `SetGoodsOver`, `InsertOrder`, `InsertMiaoshaOrder`, `CacheOrder` | `orderServiceImpl.miaosha`, `setGoodsOver`, `createOrder` |
| `Reconsume` | `return null` |
| `Crash`, `SendFails`, `HandlerFails`, `ConsumeFails` | death of a node, and calls that throw, before or after they took effect |

Decisions a reader of the code may want to know:

- The counter's key is `miaoshaGoodsStock` plus the literal `"goodsId"`
  (`MiaoShaController:82`), so `stockCounter` is one number for all goods.
- `localOverMap` is an unsynchronised `HashMap`. `Readings` lets a `get` return
  the current mark, the mark of the boot, or nothing while another thread's
  `put` of a new key makes the table grow. `boolean over = null` throws.
- `createOrder` is called on `this`; Spring's proxy does not see the call and
  the two inserts commit separately.
- `return null` is what RocketMQ's push consumer treats as `RECONSUME_LATER`,
  as it does an exception. `MaxReconsume` stands for its sixteen redeliveries,
  after which the message is "dead".
- At this commit the listener is never called, for two reasons: `MQReceiver`
  does not call `consumer.start()` (after line 66), and it subscribes to the tag
  "push" (line 62) while `MQSender` (line 21) sends messages without a tag, which
  the broker would filter out. The constant `ConsumerRuns` says whether messages
  reach the listener: FALSE is the code as it stands, TRUE the sale as it would
  run with the consumer started and the tags in agreement. The run uses TRUE,
  since otherwise no order is ever made; the theorems hold for both. Nothing is
  claimed about what must eventually happen to a queued message.
- The JSON round trip of `MiaoshaMessage` (`UtilObject`) keeps the user and the
  goods id, which is all the listener uses; the model reads them from the
  request. That the user is never null is `SessionComplete` of `Login`.
- The mappers speak of `miaosha_goods`, `miaosha_order` and `miaosha_user`; the
  dump `sql/miaosha.sql` declares them as `cfs_ms_goods`, `cfs_ms_order` and
  `cfs_ms_user`. The unique key `uid_gid` and the generated keys come from
  there, on the assumption that the tables the mappers use are declared alike;
  without the key two messages of one user leave two orders (this is the mutant
  `NoUniqueKey` of `SeckillOrderBacked`).

### Login

A servlet thread serves one request after another; `context` is its
`ThreadLocal`, which no code clears. `AcceptPage` and `AcceptLogin` are
`AccessInterceptor.preHandle` followed by a handler that asks for the user or by
`do_login`. `CheckFilter`, `GetCached`, `Lock`, `GetAgain`, `QueryUser`,
`PutCached` and `Unlock` are `getById`, call by call; `Verify`, `PutToken`,
`PutMiaoShaUser` and `SendCookie` are the rest of `login` and the four-argument
`addCookie`. `CallFails` throws at any of those calls, and inside the `try` the
`finally` block still runs. A null row is put into an `RMapCache`, which refuses
it (`UserServiceImlp:82`), so a number that only the filter knows ends in an
exception and not in the message for an unknown number.

External and taken from how the code uses it: Redisson's `RLock` (reentrant,
owned by a thread of a process, `unlock` by anyone else throws, a lease that the
owner's process renews, so that it lapses when the process is dead or stalled),
`RMapCache.put` and `RBloomFilter` (no false negatives; the constant
`FalsePositives` names the numbers it lets through once all users have been
added). Password hashing is the choice of a right or a wrong password, and a
UUID is a token nobody has used.

### GoodsPages

Time is counted in ticks, `PerSecond` of them to a second, and only `Tick`
advances it, so that every other step may take any time. A view is a browser tab
together with the servlet thread that serves it: `Ask`, `GetPage`, `ListGoodsVo`
or `GetGoodsVo`, `Render` and `PutPage` are `list` and `detail2`, call by call;
`ServeFails` throws at any of them; `Load` and `CountDown` are the script of
`goods_detail.html`, whose `setTimeout` may fire late and never early. A page is
what the properties tell apart: its goods, `miaoshaStatus`, `remainSeconds`, and
two times (read, cached) that the properties speak of. All detail pages share
one cache key (`GoodsController:90`), in the model as in the code. The stock a
page displays is left out, since nothing depends on it, and so is the cast of
the seconds to `int`, which would need a sale 68 years away. Between the arrival
of the HTML and the first call of `countDown` the button is enabled whatever the
page says; the model shows a page from that call on.

### SessionStore

What a session contains is the number of the save that stored it (`Versions`),
or `Dirty` when a thread has changed it and not stored it. `DoCreate`,
`DoReadSession`, `Get`, `Remember`, `Update`, `Set`, `SetExpire` and `Delete` are
the methods of `RedisSessionDAO` and of `BaseRedisManager` below it, split at the
Redis commands; between a read and the next call a thread may hold a session as
long as it likes (`Release` lets it go). The copy in the thread is the very
object a read returns, so a change shows in the copy before it is stored
(`Stamped`). `until` and `lag` are kept for the properties. The arguments that
the DAO refuses (null sessions and ids) do not occur, and the warning about the
lifetime only logs. `ShiroConfig` creates the DAO and does not hand it to the
session manager; the module says what it does once it is in use.

## Modules of Redis

A C function is an operator on the record that stands for the state it works
on, named after it; an action is a whole callback of the event loop, with the
`beforeSleep` work that follows it where that is what makes it safe (a vote is
in the file before the answer leaves). In the map of `PROJECT.json` an operator
that carries part of one function's translation is covered by the entry of the
operation that uses it.

`RedisStructures` holds one structure of a kind at a time and applies any
sequence of operations to it. It instantiates

- `RedisQuicklist`, `RedisCollections` (hash table, ziplist, intset, sets,
  hashes), `RedisSkiplist`, `RedisRax` and `RedisHyperLogLog`: the encodings,
  their conversions and the walks over them;
- `RedisWalks`: SCAN and the set operations on sorted sets;
- `RedisRdb`: what a file keeps of a value or a database;
- `RedisProtocol` over `RedisText`: the request parser over chunks of any size,
  the reply list with partial writes, strings, patterns and CONFIG REWRITE;
- `RedisMigrate`: MIGRATE and the move and repair of a slot;
- `RedisAe`: the event library.

`RedisValues` is the abstract specification: what every operation promises about
the value a structure stands for, whatever it is made
of. `RedisStructures` instantiates it `WITH val <- Value(kind, rep)` and its
specification is checked to imply it (`Implements`).

`RedisKeyspace` is a master with its AOF and a slave. The commands are operators
of `RedisDb`, `RedisStrings`, `RedisLists`, `RedisSets` and `RedisSortedSets`;
`RedisServer` is the command table and `call()`, which decides what of a command
is propagated. `RedisEventLoop` puts the same commands into a server with
clients (`RedisClients`: transactions, blocking, scripts, Pub/Sub, WAIT) and a
disk (`RedisPersistence`: buffer, fsync, rewrite, RDB), and lets processes,
children and the power fail.

`RedisReplication` has a record per server with its backlog and both replication
ids; a command is one unit of the stream, so offsets count commands, and the
data of a server is the sequence of writes it has applied. `RedisCluster` has a
record per node (`nd[n]`: epochs, votes, masters, slot table, and what
`nodes.conf` says of them) and a set of packets; `RedisSentinel` a record per
Sentinel, memory and file, and a link to each of the others. In both, time is a
choice: whenever the code compares clocks, either outcome may be taken.

What these models leave out, so that a reader does not take it as shown:

- Keyspace: `SORT ... BY ... ALPHA STORE` on sets where weights are equal, and
  INCRBYFLOAT on keys with a deadline (`FloatsOnVolatile`; `t_string.c:401-433`
  propagates a SET without the deadline). Scores are bounded and never NaN. The
  AOF is loaded `LoadTime` after the last append, so a lifetime that is logged
  relative ends later than in memory. RESTORE with a lifetime is logged so: the
  keys it wrote are in `relative`, and `AofAgrees` lets their deadlines, and
  nothing else, differ.
- Event loop: replies are counted; delivery of published messages is not
  modelled; scripts raise when a call is refused; a done handler is atomic with
  respect to power loss; the AOF is used at a restart when it was on; children
  die with the process; a torn write leaves a prefix of commands. There are no
  lifetimes, so keys that lapse under WATCH are left out. Replies go out in
  `beforeSleep`: the handler that sends the rest of a long reply
  (`sendReplyToClient`, installed with AE_BARRIER) is left out. A behaviour has
  one failure, so none has a power loss soon after a restart.
- Structures: memory layout, checksums and statistics; `config` has no
  `include` and one `write()`; `ae` has two descriptors, or one and two timers;
  `slot` assumes that the nodes serve other slots as well, that ASK is followed
  before the next move, and that no RESTORE arrives late; there are no errors of
  SELECT or AUTH inside MIGRATE. The copy that a failed MIGRATE leaves on the
  other node is in the model (`spare`), and so are lists whose end nodes are
  compressed (`shut`): an operation that reads such a node as if it were plain
  leaves the list `spoiled`, after which `RedisValues` promises nothing of it.
- Replication: rings of SLAVEOF, PINGs, acknowledged offsets, WAIT, writable
  slaves and the old SYNC.
- Cluster: nodes that join or are forgotten, failure reports, SETSLOT. A ping
  that brings nothing new is no step; `Operated` and `MaxUpdates` bound which
  nodes an operator commands and how many UPDATE packets are under way.
- Sentinel: one watched master; scripts, authentication, and the SENTINEL
  commands other than FAILOVER and RESET.

## Runs

Every run ends when the requests are used up and the bounds are reached, so all
of them switch the deadlock check off.

| Run | Instance | Shows |
|---|---|---|
| `miaosha_sale` | 2 nodes, 2 users, two units of one goods, an unknown id, 2 requests, 1 redelivery, 2 boots, 2 failed calls or crashes | `TypeOK`, `NoOversell`, `SeckillOrderBacked`, `RepeatMeansOrdered`, `UnitsAccounted` |
| `login` | 3 threads on 2 nodes, a user, a false positive, 3 requests, 1 crash, 1 failed call or lapsed lock, fairness | `TypeOK`, `SessionComplete`, `ContextIsOwn`, `LoadedOnce`, `RequestsEnd` |
| `goods_pages` | 2 tabs, one goods and an unknown id, 2 ticks to a second, pages live for 1 s, 10 ticks | `ButtonNotEarly`, `EndedIsTold` |
| `session_store` | 2 threads, one session, lifetime and memory timeout of 2 ticks, 4 ticks, 3 saves, 1 failed command | `LifetimeSet`, `ReadFresh`, `DeletedStays` |
| `redis_cluster` | 3 masters with a slot each, 2 slaves of one of them, the other two to vote, epochs up to 4, two elections and a restart, or one election and one of: delayed ping, the failover commands, replica migration | `OwnersDistinct`, `FileEpochCovers`, `OneVotePerEpoch`, `SlotEpochsGrow`, `ElectedByMajority` |
| `redis_cluster_elections` | 3 masters with a slot each, a slave of two of them, epochs up to 4, no operations; a violation | `ElectionSafety` |
| `redis_sentinel` | 2 Sentinels with quorum 2, 3 servers of which one may not be promoted, one failover epoch, one fault (a failed flush among them, which a restart may follow) | `OneVotePerEpoch`, `AddressFollowsEpoch` |
| `redis_replication` | a chain of three servers, a backlog of 2 commands, 2 writes, 2 operations, restarts or failures | `SameHistorySameData`, `WritesInTheirDb` |
| `redis_keyspace` | 13 themes of commands, 2 databases, 4 keys, instants 0 to 2, lists of up to 3 | `ReplicaAgrees`, `AofAgrees`, `CommandsSignal`, `RepliesRight` |
| `redis_structures` | 19 kinds, limits of the encodings set to 2 to 4 entries | `WellFormed`, `Answers`, `Implements` |
| `redis_scan` | one hash table of up to 4 keys, tables of 2 to 8 buckets; a violation | `ScanReturnsAll` |
| `redis_eventloop` | 11 themes, 2 databases, 2 keys, up to 3 clients, up to 7 commands, 1 failure | `WatchHolds`, `NoLostWakeup`, `OneReply`, `StreamAgrees`, `FileAgrees`, `Durable` |

The bounds are the smallest at which the contested cases occur. Shop: two
messages of one user that both pass the check for an order, both get a unit and
both reach the insert, more messages than units after a crash lost one, a crash
between any two statements followed by a redelivery to the other node, a boot
that rewrites the counter while requests are under way; two threads that die together with one
that waits for the lock they hold, and a token used by a later request on a
thread that served somebody else before; a page that outlives the start and the
end of the sale, is made by both tabs at once and put back by the slower one
after the sale has ended, with time left for it to lapse (two ticks to a second
are what it takes to see a countdown off by part of one);
a copy of a session that is hit, goes stale and outlives the key, and a key that
lapses and is stored again. With `MaxReconsume` = 1 a message is consumed twice,
which is the first repetition; a third meets the same states.

Redis: two slaves compete for the votes of two masters, and a second election
lets one that lost try again while requests and answers of the first are still
under way, also in the gap between the moment its count is set to 0 and the one
its epoch moves on; one Sentinel restarts between its vote and the
other's count, and the candidate to promote is one of two, the other being
barred; a backlog of two commands can be overrun by two writes and a SELECT
while a slave is away, and two operations are a promotion followed by a return.
Every limit of an encoding can be crossed in both directions, which is what
small limits are for; the hash table goes through a growth and a shrinking with
a cursor or an iterator open. Two instants make keys that are live, due and
overdue. Three clients are a chain: one that pushes, one that moves on and one
that waits. In `redis_structures` a `VIEW` leaves out the operation that led to
a state, on which nothing that can follow depends.

`redis_scan` states what a comment says (`dict.c:761`: all elements present from
the start to the end of the iteration are returned), and TLC finds a walk that
misses one. A call on a table of 8 buckets hands out cursor 4; before the next
call the table has begun to shrink to 2. `dictScan` then visits the buckets of
the larger table that belong to bucket 0 of the smaller one by counting the upper
bits of the cursor upwards, from 4 to 6, where they overflow; the cursor itself
counts from the highest bit down, so bucket 2 has not been visited and no later
call will visit it. `redis_structures` therefore speaks of walks without such a
step (`torn`). `redis_cluster_elections` states what a comment says
(`cluster.c:1037`: no two slaves get the same epoch by election, because a
majority has to vote for each), and TLC finds two that do: `s1` is elected in
epoch 4 by `mb` and `mc`; a slave that is elected does not set `lastVoteEpoch`,
so `s1`, now a master, votes in epoch 4 for `s2`, which has the vote of `ma`
and has learnt from a PING that `s1` is a master to be counted.

### Fairness

`Login!Fairness`: threads are scheduled, and Redis drops the lease of a process
that no longer renews it. Weak fairness of `Lock` suffices since the number of
requests is bounded. `RequestsEnd` is about behaviours without a failed call:
when `unlock` of a live process throws, the process goes on renewing the lease,
and later logins wait (listed among the hazards of `UserServiceImlp`).

The sale has no liveness property: whoever is told to wait depends on a consumer
that this code does not start. The Redis modules state safety only: what their
events wait for (another server, an operator, a majority) need not come.

## Proofs

Each theorem holds for every choice of the constants that satisfies the
assumptions of its module: `ConstantsAssumption` and `FiniteAssumption`
(finitely many messages; the number of nodes, users and goods is free),
`LoginConstants`, `PagesConstants`, `StoreConstants`, `ClusterConstants` (a slot
belongs to a master and a slave has one, node names are ordered),
`SentinelConstants` and `ReplicationConstants` (finitely many servers, one of
them a master at the start, and `None` is neither a server nor a value). The
bounds are constants too, so what is proved does not depend on their values.

### MiaoshaProofs

| Theorem | Statement |
|---|---|
| `TypeCorrect` | `Spec => []TypeOK` |
| `OnSaleOnlyHolds` | `Spec => []OnSaleOnly` |
| `NeverOversells` | `Spec => []NoOversell` |
| `SeckillOrdersBacked` | `Spec => []SeckillOrderBacked` |
| `RepeatAnswerSound` | `Spec => []RepeatMeansOrdered` |
| `GoodsOverMarkSound` | `Spec => []GoodsOverSound` |
| `UnitsAllAccounted` | `Spec => []UnitsAccounted` |

The argument has three layers. `ControlInv` says which fields of a request or a
message are set at which control point: a request past `CheckOver` is for goods
on sale (`RequestsOK`), because only those can have a `FALSE` mark (`MarksOK`),
so a message always has a user and goods on sale (`MessagesOK`), and with it the
types close. `SaleInv` builds on it: a listener past the first insert owns a row
of `order_info` with its key (`ListenersOK`), keys are fresh because
AUTO_INCREMENT is ahead of all of them (`KeysOK`), the order map in Redis is
contained in the table (`CacheSound`), and for each goods the orders, the units
held between `reduceStock` and the insert, and the stock (`Total`) add up to at
most the initial stock (`StockCovers`). `StockCovers` is what `NoOversell` lacks
to be inductive; it is an inequality because a crash loses the unit it holds.
`UnitsInv` makes it an equality as long as nothing failed. That nothing failed is
read off the state (no failed call, and as many nodes alive as were booted), so
the invariant needs that live nodes never outnumber boots: then a crash leaves a
boot too many for good, and no later step can make a lost unit look accounted for.

### LoginProofs

| Theorem | Statement |
|---|---|
| `SessionInvariant` | `Spec => []SessionInv` |
| `LoginTypeCorrect` | `Spec => []TypeOK` |
| `SessionsComplete` | `Spec => []SessionComplete` |
| `ContextAlwaysOwn` | `Spec => []ContextIsOwn` |
| `AskedOnce` | `Spec => []LoadedOnce` |

`SessionInv` adds to the properties what a request carries at each control point
(`RequestsOK`) and a count (`TokensSuffice`): tokens in use and logins that will
still need one are at most the requests served, so that a fresh token exists
whenever `PutToken` runs. `LoadedOnce` needs a potential: for every user the
questions MySQL has been asked, the threads bound to ask (`Asking`) and the one
that may still come without a failure (`Left`, gone once the row is cached or
the owner of the lock is loading it) are at most one plus the failures
(`LoadInv`). A lock that lapses under its living owner raises `Left` again, and
is a failure; so is the death of a node. The proof attempt showed two arms of
`Released` overlapping when a reentrant owner unlocks, and the operator now
tests them in the order of the code.

### GoodsPagesProofs

| Theorem | Statement |
|---|---|
| `PagesTypeCorrect` | `Spec => []TypeOK` |
| `ButtonNeverEarly` | `Spec => []ButtonNotEarly` |
| `StatusNeverAhead` | `Spec => StatusNotAhead` |
| `EndIsTold` | `Spec => EndedIsTold` |

`PagesInv` says of a page in the cache or on its way that it was true when it
was rendered (`Rendered`), and of a countdown when it ends at the earliest
(`Over`). Truncation loses less than a second (lemma `Truncation`), and `Over`
only grows while a page waits (`OverStep`), so delays never make the button
early. `ButtonNotEarly` alone is not inductive, since it speaks only of
countdowns that have ended. `SentPage` gathers what holds of a page at the
moment it is sent; both action properties follow from it.

### SessionStoreProofs

| Theorem | Statement |
|---|---|
| `StoreTypeCorrect` | `Spec => []TypeOK` |
| `ReadsAreFresh` | `Spec => ReadFresh` |
| `DeletedForGood` | `Spec => DeletedStays` |
| `LifetimesAreSet` | `Spec => []LifetimeSet` |

`StoreInv` adds to the types that a copy, and a session a thread has just read,
was in Redis at the time it was read (`CopyOK`, `ReadOK`), for which it needs
that what is in Redis has not been replaced and that no two keys share a version
(`CurrentOK`). `DeletedForGood` goes through the steps one by one: a session that
nobody holds can only be read from Redis, where it is not.

### RedisSentinelProofs

| Theorem | Statement |
|---|---|
| `SentinelInvariant` | `Spec => []SentinelInv` |
| `SentinelTypeCorrect` | `Spec => []TypeOK` |
| `VotesOncePerEpoch` | `Spec => []OneVotePerEpoch` |
| `AddressChangesWithEpoch` | `Spec => AddressFollowsEpoch` |

`SentinelInv` says of every Sentinel that its file has the `leader_epoch` of its
memory and the address it hands out, unless RESET emptied its slaves or
`sentinelFlushConfig` could not write the file (`behind`; the function logs a
warning and its callers go on) (`RecordOK`), and that no vote of it is later than
`leader_epoch` while the one of its present leader is on record (`BallotsOK`).
A Sentinel that was started again from a file that was behind is in `lost`, and
`OneVotePerEpoch` does not speak of it. Without the file in the
invariant a restart could vote again; without the recorded leader a second
answer in the same epoch could name somebody else. The proof follows the C
functions: each has a lemma that it keeps `RecordOK` and that between its
argument and its result a vote is kept or followed by one of a later epoch
(`VoteKept`) and an address changes with its epoch (`AddressKept`); the step of
an action composes them.

### RedisClusterProofs

| Theorem | Statement |
|---|---|
| `ClusterInvariant` | `Spec => []ClusterInv` |
| `ClusterTypeCorrect` | `Spec => []TypeOK` |
| `FileCovers` | `Spec => []FileEpochCovers` |
| `VotesOncePerEpoch` | `Spec => []OneVotePerEpoch` |
| `SlotEpochsNeverFall` | `Spec => SlotEpochsGrow` |
| `ElectionInvariant` | `Spec => [](CandidateInv /\ OwnersInv /\ CountInv)` |
| `WinnersHaveMajorities` | `Spec => ElectedByMajority` |
| `OwnersApart` | `Spec => []OwnersDistinct` |
| `ElectionsSafe` | `Spec /\ [][AgreedStep(E)]_vars => []ElectionSafety`, for every `E \in [Epoch -> SUBSET Node]` |

`ClusterInv` says of a node that every configuration epoch it knows is at most
the `currentEpoch` of its file, which is at most the one in memory, and that
`lastVoteEpoch` is the one of the file (`NodeOK`); while a callback runs, before
`clusterBeforeSleep`, only the weaker `Draft` holds. Of a packet it says that
the epochs in it are covered by the epoch in its header (`PacketOK`), which is
what makes a receiver raise `currentEpoch` before it takes over a claim; of a
ballot, that it is not ahead of its voter's `lastVoteEpoch` (`BallotOK`), so a
later vote in the same epoch is refused. Every action is shown to be a
`SafeStep`, and lemma `StepOK` draws the invariant and the action property from
that once and for all.

The theorems on elections need to know where a count and an epoch come from.
`CandidateInv`: the election of a slave is of an epoch later than every epoch of
the start. `CountInv`: what a slave has counted (the history `counted`) are votes
that were cast for it, its `failover_auth_count` is their number, and an answer
under way brings a vote that is not counted yet and no other answer brings; so
no vote counts twice, however late it is. `OwnersInv`: a node serves a slot that
another had at the start only under an epoch it won or an operator made
(`OwnerOK`). Again every action is shown to be a step of one kind,
`ElectionStep`, which says what may happen to the election and the slots of a
node, how a count grows and what winning takes.

Nothing says that a vote that is counted is of the present election, because the
code does not ensure it: the count is set to 0 when an election is scheduled
(`cluster.c:2946`), `failover_auth_epoch` moves on only when the votes are asked
for (`cluster.c:3007`), and an answer of the election before that arrives in
between passes the check at `cluster.c:2039`. `Timely(n)` is the condition that
no such answer is in the count of `n`, and `ElectedByMajority` is stated with it;
without it TLC finds in ten states a slave that wins without a majority of its
epoch.

`OwnersDistinct` has `ElectionSafety` as a hypothesis because that does not hold
unconditionally, as `redis_cluster_elections` shows. `ElectionsSafe` says what it
takes for the comment to be right. `AgreedStep(E)` is a condition on behaviours:
whoever counts a vote of epoch `e` or wins in it finds in its own table that the
masters with slots are `E[e]`, and whoever wins is `Timely`. Then the votes that
a winner counted are of masters in `E[e]` (`VotersIn`), two winners of an epoch
have two majorities of one set (`MajorityInv`), which share a voter, and no voter
has two ballots in an epoch. It is met, for instance, when every failover has
become known to the other slaves before the next election begins, and answers
arrive before the election is given up; in the violation `s2` counts `s1`, and
`s1` had counted `ma`.

### RedisHistories and RedisReplicationProofs

| Theorem | Statement |
|---|---|
| `ReplicationInvariant` | `Spec => []ReplicationInv` |
| `ReplicationTypes` | `Spec => []TypeOK` |
| `HistoriesNeverFork` | `Spec => []SameHistorySameData` |
| `WritesGoToTheirDb` | `Spec => []WritesInTheirDb` |

`SameHistorySameData` compares two servers and says nothing of the bytes under
way between them, so no step keeps it by itself. The invariant names what both
refer to: a replication id stands for a *history*, its commands, the data after
each of them and the database selected then. `HistoriesInv` says that such
histories exist and that everything anybody holds is a piece of the one it
names (`GroupOK`):

- a server's data is that of its id at its offset, its backlog the end of the
  history up to there, its second id a history that agrees with its own up to
  `second_replid_offset` (`RecordOK`, `SecondOK`), and an RDB file with
  replication information is the data of the id and offset in it (`FileOK`);
- what is in a socket is, from where the slave stands, the answer to its PSYNC,
  then the payload announced, then the stream (`LinkOK`, `ReplyOK`,
  `PayloadOK`);
- what a master keeps of a slave fits what the slave has: the output buffer
  goes on exactly where the payload ends, and a slave that is online will be at
  the master's offset when it has read its socket (`ClientOK`);
- two masters have different ids, and nobody else knows the id of a server that
  never had a slave under it (`Apart`, `OwnOK`).

The last point is needed because a master without a backlog takes writes without
counting them: its offset stays and its data changes, so its history is
rewritten under the same id. That is harmless only as long as the id is private;
`syncCommand` changes the id before the first slave hears of it,
`replicationCron` when it frees the backlog, and a server that is demoted before
it had a slave asks for an id that no other server knows. The database selected at the end of a
history may be left open (`NoDb`): after a full resynchronization `slaveseldb` is
-1, the next command is sure to be a SELECT, and until then an RDB file and a
slave may have any database selected.

`RedisHistories` has the histories, how they grow (a command at the end) and
begin (a new id that agrees with an old one up to an offset), and the lemmas for
promotions, demotions, restarts, writes and closed connections.
`RedisReplicationProofs` has the slave's side, both resynchronizations, the
clients of a master, and the theorems. Each function of `replication.c` in the
model has a lemma that says what it does to `GroupOK`; the lemma of an action
chooses the histories after the step (`Reached`, `Held`).

### Only model-checked

- `RequestsEnd`: liveness under fairness is out of the prover's reach.
- Keyspace, structures and event loop: what a command or an operation on a
  structure computes is recursion over sequences, in most of these modules with
  RECURSIVE operators, which the provers cannot use. `Implements` is therefore
  checked by TLC only.

## What the models showed about the code

Beside `redis_scan` and `redis_cluster_elections`, reading and modelling met these; each is at the
line given, and where a model has to exclude one it says so above.

Shop: one counter for all goods (`MiaoShaController:82`), one page cache key for
all details (`GoodsController:90`), a consumer that is never started
(`MQReceiver:66`) and subscribes to a tag the sender does not set (`MQReceiver:62`,
`MQSender:21`), two inserts that commit separately because the `@Transactional`
`createOrder` is called on `this` (`orderServiceImpl`), a null row put into a map that refuses it
(`UserServiceImlp:82`), `CheckOver` after `DecrementStock` although the comment
on `localOverMap` says the mark saves accesses to Redis, and `remainSeconds` 0
in the last second before the start, which is why `ButtonNotEarly` allows for
less than a second.

Redis:

- Keyspace: PERSIST, MOVE and SWAPDB do not signal modified keys to WATCH, although
  `db.c:359` says that every modification does (`CommandsSignal` and `WatchHolds`
  name exactly these exceptions); SORT
  STORE over a key of another type does not wake clients blocked on it;
  INCRBYFLOAT is propagated as a SET, which drops the deadline on slaves
  (`t_string.c:401-433`); RESTORE is propagated with a relative lifetime, so
  that a key loaded from the AOF lives longer than it should;
  `dbRandomKey` loops on a slave all of whose keys are overdue
  (`db.c:225-245`).
- Persistence: `redis.conf:661` speaks of one second of lost writes, while
  `flushAppendOnlyFile` may put a write off for two while an fsync is running,
  and starts the fsync only with a later write. After the switch to a rewritten
  file (`aof.c:1557`) what was synced in the old file is safe only once the fsync
  of the new one has ended; `Durable` counts on it from then on (`settled`). A
  file that is cut inside a transaction is loaded with the half it has
  (`aof.c:802` comes after its commands have run), against `multi.c:151-155`;
  `Durable` allows half a transaction for such a file only.
- Clients: WAIT compares with the offset of the client's last own command
  (`server.c:2511`), which is older than the pop that served its BLPOP.
- Moving slots: a MIGRATE whose answer is lost leaves a copy on both nodes, and an
  ASK redirection may meet it when it is stale (`cluster.c:5392-5425`).
- Structures: the end nodes of a quicklist can become compressed
  (`quicklist.c:333`), while `redis.conf:1075` says that they never are and pushes
  and pops rely on it; a SCAN cursor misses keys as `redis_scan` shows.
- Cluster: an answer of an earlier election can be counted in the next one
  (`cluster.c:2946`, `3007`, `2039`).
- Sentinel: when the configuration file cannot be written, the vote is told all
  the same (`sentinel.c:1854`), and after a restart the Sentinel may vote a second
  time in that epoch. RESET is not flushed, so that a restart can bring back the address
  of the failover before; the SLAVEOF at the end of a failover is best effort
  (`sentinel.c:4093`).

## Not modelled

The administration login is one call into Shiro; the user, role and permission
services forward single statements to the mapper; configuration classes create
beans. The value classes appear as records. The vendored mapper, MyCat and the
static assets are third-party. `do_miaosha` never reads the sale window
(`start_date`, `end_date`), which therefore occurs in `GoodsPages` only. The
listing of active sessions changes no state. Expiry of the row cache does not
occur (`put` without a lifetime), nor does anything delete a token. Of Redis,
the interface for loadable modules, the command line tools, benchmarks and
checkers, the diagnostics and the libraries under `deps` are left out: none of
them takes part in serving.

## Plan

Done: the four modules of the shop and the Redis modules above with their runs,
and the proofs for `Miaosha`, `Login`, `GoodsPages`, `SessionStore`,
`RedisSentinel`, `RedisCluster` and `RedisReplication`. Left, in this order:

1. `FlashSale`: an abstract sale (units left, units taken, winners) that
   `Miaosha` implements under a refinement mapping, checked and proved.
2. `Departments` and `BloomFileter`: check-then-insert and clearing under
   concurrent calls.
