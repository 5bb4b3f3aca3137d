------------------------------- MODULE Miaosha -------------------------------
(***************************************************************************)
(* The flash sale ("miaosha") of cfs-shop: POST /miaosha/do_miaosha on any *)
(* number of web nodes, the Redis structures the nodes share, the RocketMQ *)
(* queue between the request and the order, and the three MySQL tables the *)
(* order is written to.                                                    *)
(*                                                                         *)
(* Every call that leaves the process (Redis, MySQL, RocketMQ) is one      *)
(* atomic step; handlers, listeners and nodes interleave between calls.    *)
(*                                                                         *)
(*  - A request is a one-shot process: MiaoShaController.miaosha run by    *)
(*    one servlet thread of one node.  Its final control point is the      *)
(*    answer the client gets.                                              *)
(*  - A message is <<request, copy>>: RocketMQ delivers at least once, so  *)
(*    what one request sent may sit in the queue in more than one copy.    *)
(*    Its control point is that of MQReceiver.consumeMessage for it.  The  *)
(*    consumer leaves consumeMessageBatchMaxSize at its default of 1, so   *)
(*    the listener's loop has one iteration: "break" and "continue" both   *)
(*    end in "return null".                                                *)
(*  - A node boots by running MiaoShaController.afterPropertiesSet against *)
(*    the shared Redis, may crash, and loses what it held in memory.       *)
(***************************************************************************)
EXTENDS Integers, FiniteSets

CONSTANTS
    Nodes,         \* processes running cfs-shop-web
    Users,         \* rows of miaosha_user that have logged in
    Goods,         \* ids of the goods in miaosha_goods
    GoodsIds,      \* ids a client may put in the request
    Requests,      \* POSTs to /miaosha/do_miaosha
    InitStock,     \* stock_count of every goods when the sale is set up
    ConsumerRuns,  \* whether RocketMQ ever calls the listener (see Deliver)
    Copies,        \* copies of one request's message the broker can hold
    MaxReconsume,  \* redeliveries before a message goes to the dead letters
    MaxBoots,      \* bound: boots of all the nodes together
    MaxFaults,     \* bound: failed calls to Redis, MySQL or RocketMQ
    None           \* Java's null

ASSUME ConstantsAssumption ==
    /\ Goods \subseteq GoodsIds
    /\ InitStock \in [Goods -> Nat]
    /\ ConsumerRuns \in BOOLEAN
    /\ MaxReconsume \in Nat /\ MaxBoots \in Nat /\ MaxFaults \in Nat
    /\ None \notin Nodes \cup Users \cup GoodsIds \cup Nat

ASSUME FiniteAssumption == IsFiniteSet(Requests \X Copies)

VARIABLES
    \* the nodes
    nodeState,     \* "down", "boot" (afterPropertiesSet running) or "up"
    todo,          \* goods the boot loop has not reached yet
    listed,        \* stock_count of each goods as listGoodsVo returned it
    localOverMap,  \* MiaoShaController.localOverMap, one per node
    \* Redis
    stockCounter,  \* RAtomicLong "miaoshaGoodsStockgoodsId"
    orderCache,    \* RMap MiaoshaOrder.class.getName()
    goodsOver,     \* RMap "is_goods_over": the goods mapped to true
    \* MySQL
    stock,         \* miaosha_goods.stock_count
    orderInfo,     \* rows of order_info
    miaoshaOrder,  \* rows of miaosha_order
    nextOrderId,   \* AUTO_INCREMENT of order_info
    \* requests and messages
    req, msg,
    \* bounds
    boots, faults

nodeVars  == <<nodeState, todo, listed>>
redisVars == <<stockCounter, orderCache, goodsOver>>
dbVars    == <<stock, orderInfo, miaoshaOrder, nextOrderId>>
bounds    == <<boots, faults>>
vars == <<nodeVars, localOverMap, redisVars, dbVars, req, msg, bounds>>

Messages == Requests \X Copies

(***************************************************************************)
(* Control points.  "mark" follows a decrement that went below zero; the   *)
(* answers are the ones of CodeMsg, "queued" being HttpResponse.success(0) *)
(* and "error" an exception that left the handler.                         *)
(***************************************************************************)
Handling == {"decr", "mark", "over?", "ordered?", "send"}
Answers  == {"SESSION_ERROR", "MIAO_SHA_OVER", "REPEATE_MIAOSHA", "queued", "error"}
Consuming ==
    {"read", "lookup", "reduce", "setOver", "insert", "insertMs", "cache", "return"}

RequestState ==
    [pc: {"new"} \cup Handling \cup Answers,
     node: Nodes \cup {None}, user: Users \cup {None}, goods: GoodsIds \cup {None}]
MessageState ==
    [pc: {"unsent", "queued", "dead"} \cup Consuming,
     node: Nodes \cup {None}, times: 0..MaxReconsume, order: Nat \cup {None}]
OrderRow   == [id: Nat, user: Users, goods: Goods]
MiaoshaRow == [user: Users, goods: Goods, orderId: Nat]

\* What localOverMap.get returns before any request has put a mark.
Unmarked(g) == IF g \in Goods THEN "false" ELSE "null"

Init ==
    /\ nodeState = [n \in Nodes |-> "down"]
    /\ todo = [n \in Nodes |-> {}]
    /\ listed = [n \in Nodes |-> [g \in Goods |-> 0]]
    /\ localOverMap = [n \in Nodes |-> [g \in GoodsIds |-> "null"]]
    /\ stockCounter = 0
    /\ orderCache = {}
    /\ goodsOver = {}
    /\ stock = InitStock
    /\ orderInfo = {}
    /\ miaoshaOrder = {}
    /\ nextOrderId = 1
    /\ req = [r \in Requests |->
                [pc |-> "new", node |-> None, user |-> None, goods |-> None]]
    /\ msg = [m \in Messages |->
                [pc |-> "unsent", node |-> None, times |-> 0, order |-> None]]
    /\ boots = 0
    /\ faults = 0

-----------------------------------------------------------------------------
(* A node starts, loads the counter, and crashes.                          *)

\* afterPropertiesSet begins: one query lists the goods with their stock.
ListGoods(n) ==
    /\ nodeState[n] = "down" /\ boots < MaxBoots
    /\ boots' = boots + 1
    /\ nodeState' = [nodeState EXCEPT ![n] = "boot"]
    /\ todo' = [todo EXCEPT ![n] = Goods]
    /\ listed' = [listed EXCEPT ![n] = stock]
    /\ UNCHANGED <<localOverMap, redisVars, dbVars, req, msg, faults>>

\* One turn of the boot loop, in the order the query happened to return.
\* The counter's key ends in the literal "goodsId": all goods share it.
LoadStock(n, g) ==
    /\ nodeState[n] = "boot" /\ g \in todo[n]
    /\ stockCounter' = listed[n][g]
    /\ localOverMap' = [localOverMap EXCEPT ![n][g] = "false"]
    /\ todo' = [todo EXCEPT ![n] = @ \ {g}]
    /\ UNCHANGED <<nodeState, listed, orderCache, goodsOver, dbVars, req, msg, bounds>>

\* The boot loop is done: the servlet container starts to take requests.
Serve(n) ==
    /\ nodeState[n] = "boot" /\ todo[n] = {}
    /\ nodeState' = [nodeState EXCEPT ![n] = "up"]
    /\ listed' = [listed EXCEPT ![n] = [g \in Goods |-> 0]]
    /\ UNCHANGED <<todo, localOverMap, redisVars, dbVars, req, msg, bounds>>

\* The process dies: its requests fail and its memory is lost, while the
\* messages it was consuming were never acknowledged and stay in the queue.
Crash(n) ==
    /\ nodeState[n] # "down" /\ boots < MaxBoots
    /\ nodeState' = [nodeState EXCEPT ![n] = "down"]
    /\ todo' = [todo EXCEPT ![n] = {}]
    /\ listed' = [listed EXCEPT ![n] = [g \in Goods |-> 0]]
    /\ localOverMap' = [localOverMap EXCEPT ![n] = [g \in GoodsIds |-> "null"]]
    /\ req' = [r \in Requests |->
                 IF req[r].pc \in Handling /\ req[r].node = n
                 THEN [req[r] EXCEPT !.pc = "error"] ELSE req[r]]
    /\ msg' = [m \in Messages |->
                 IF msg[m].pc \in Consuming /\ msg[m].node = n
                 THEN [msg[m] EXCEPT !.pc = "queued", !.node = None, !.order = None]
                 ELSE msg[m]]
    /\ UNCHANGED <<redisVars, dbVars, bounds>>

-----------------------------------------------------------------------------
(* MiaoShaController.miaosha                                               *)

Goto(r, pc) == req' = [req EXCEPT ![r].pc = pc]

\* The interceptor has put the session's user (or null) in UserContext.
Arrive(r, n, u, g) ==
    /\ req[r].pc = "new" /\ nodeState[n] = "up"
    /\ req' = [req EXCEPT ![r] =
                 [pc |-> IF u = None THEN "SESSION_ERROR" ELSE "decr",
                  node |-> n, user |-> u, goods |-> g]]
    /\ UNCHANGED <<nodeVars, localOverMap, redisVars, dbVars, msg, bounds>>

\* decrementAndGet comes first, whatever the later checks will say.
DecrementStock(r) ==
    /\ req[r].pc = "decr"
    /\ stockCounter' = stockCounter - 1
    /\ Goto(r, IF stockCounter' < 0 THEN "mark" ELSE "over?")
    /\ UNCHANGED <<nodeVars, localOverMap, orderCache, goodsOver, dbVars, msg, bounds>>

MarkOver(r) ==
    /\ req[r].pc = "mark"
    /\ localOverMap' = [localOverMap EXCEPT ![req[r].node][req[r].goods] = "true"]
    /\ Goto(r, "MIAO_SHA_OVER")
    /\ UNCHANGED <<nodeVars, redisVars, dbVars, msg, bounds>>

\* localOverMap is a plain HashMap that all servlet threads of a node use: a get
\* may miss a mark another thread has put, and finds nothing while the put of a
\* new key makes the table grow.
Readings(r) ==
    LET n == req[r].node
        growing == \E s \in Requests :
                     /\ s # r /\ req[s].pc = "mark" /\ req[s].node = n
                     /\ localOverMap[n][req[s].goods] = "null"
    IN {localOverMap[n][req[r].goods], Unmarked(req[r].goods)}
         \cup (IF growing THEN {"null"} ELSE {})

\* Unboxing null throws.
CheckOver(r) ==
    /\ req[r].pc = "over?"
    /\ \E over \in Readings(r) :
         Goto(r, CASE over = "true"  -> "MIAO_SHA_OVER"
                   [] over = "null"  -> "error"
                   [] over = "false" -> "ordered?")
    /\ UNCHANGED <<nodeVars, localOverMap, redisVars, dbVars, msg, bounds>>

CachedByGoods(r) ==   \* mutant: the key lacks the user
    \E o \in orderCache : o.goods = req[r].goods
CachedOrder(r) == \E o \in orderCache : o.user = req[r].user /\ o.goods = req[r].goods

CheckOrdered(r) ==
    /\ req[r].pc = "ordered?"
    /\ Goto(r, IF CachedOrder(r)
               THEN "REPEATE_MIAOSHA" ELSE "send")
    /\ UNCHANGED <<nodeVars, localOverMap, redisVars, dbVars, msg, bounds>>

\* The synchronous send retries inside the client, so the broker may end up
\* with several copies.
SendMiaoshaMessage(r) ==
    /\ req[r].pc = "send"
    /\ \E sent \in SUBSET Copies \ {{}} :
         msg' = [m \in Messages |-> IF m[1] = r /\ m[2] \in sent
                                    THEN [msg[m] EXCEPT !.pc = "queued"] ELSE msg[m]]
    /\ Goto(r, "queued")
    /\ UNCHANGED <<nodeVars, localOverMap, redisVars, dbVars, bounds>>

\* The send throws: the broker may or may not have stored the message.
SendFails(r) ==
    /\ req[r].pc = "send" /\ faults < MaxFaults
    /\ faults' = faults + 1
    /\ \E sent \in SUBSET Copies :
         msg' = [m \in Messages |-> IF m[1] = r /\ m[2] \in sent
                                    THEN [msg[m] EXCEPT !.pc = "queued"] ELSE msg[m]]
    /\ Goto(r, "error")
    /\ UNCHANGED <<nodeVars, localOverMap, redisVars, dbVars, boots>>

\* A Redis call of the handler throws; nothing it did before is undone, and a
\* decrement whose answer was lost still counts.
HandlerFails(r) ==
    /\ req[r].pc \in {"decr", "ordered?"} /\ faults < MaxFaults
    /\ faults' = faults + 1
    /\ Goto(r, "error")
    /\ \/ stockCounter' = stockCounter
       \/ req[r].pc = "decr" /\ stockCounter' = stockCounter - 1
    /\ UNCHANGED <<nodeVars, localOverMap, orderCache, goodsOver, dbVars, msg, boots>>

-----------------------------------------------------------------------------
(* MQReceiver.consumeMessage and orderServiceImpl                          *)

Step(m, pc) == msg' = [msg EXCEPT ![m].pc = pc]
User(m)  == req[m[1]].user
GoodsOf(m) == req[m[1]].goods
HasOrder(u, g) == \E o \in miaoshaOrder : o.user = u /\ o.goods = g

\* The client hands a queued message to the listener on some live node; the
\* consumer is set up by MQReceiver, a bean that may precede the controller.
\* As committed the listener is never called: nothing starts the consumer, and
\* it subscribes to the tag "push" while MQSender sends without a tag.  That is
\* ConsumerRuns = FALSE, where no request is ever settled.  TRUE is the sale
\* with both put right, and what is said of orders below is said of that.
Deliver(m, n) ==
    /\ ConsumerRuns /\ nodeState[n] # "down"
    /\ msg[m].pc = "queued"
    /\ msg' = [msg EXCEPT ![m].pc = "read", ![m].node = n]
    /\ UNCHANGED <<nodeVars, localOverMap, redisVars, dbVars, req, bounds>>

SoldOut(g) == stock[g] <= 0

\* getGoodsVoByGoodsId returns null for goods that are not on sale, and null
\* throws at getStockCount.
ReadStock(m) ==
    /\ msg[m].pc = "read"
    /\ Step(m, IF GoodsOf(m) \notin Goods \/ SoldOut(GoodsOf(m))
               THEN "return" ELSE "lookup")
    /\ UNCHANGED <<nodeVars, localOverMap, redisVars, dbVars, req, bounds>>

LookupOrder(m) ==
    /\ msg[m].pc = "lookup"
    /\ Step(m, IF HasOrder(User(m), GoodsOf(m)) THEN "return" ELSE "reduce")
    /\ UNCHANGED <<nodeVars, localOverMap, redisVars, dbVars, req, bounds>>

\* The "where" of update miaosha_goods set stock_count = stock_count - 1.
ReducibleAtZero(g) == stock[g] >= 0     \* mutant: where stock_count >= 0
Reducible(g) == stock[g] > 0

ReduceStockOffByOne(m) ==   \* mutant: if (result>1)
    /\ msg[m].pc = "reduce"
    /\ stock' = IF Reducible(GoodsOf(m)) THEN [stock EXCEPT ![GoodsOf(m)] = @ - 1] ELSE stock
    /\ Step(m, "setOver")
    /\ UNCHANGED <<nodeVars, localOverMap, redisVars, orderInfo, miaoshaOrder,
                   nextOrderId, req, bounds>>

ReduceStock(m) ==
    /\ msg[m].pc = "reduce"
    /\ \/ /\ Reducible(GoodsOf(m))
          /\ stock' = [stock EXCEPT ![GoodsOf(m)] = @ - 1]
          /\ Step(m, "insert")
       \/ /\ ~Reducible(GoodsOf(m))
          /\ stock' = stock
          /\ Step(m, "setOver")
    /\ UNCHANGED <<nodeVars, localOverMap, redisVars, orderInfo, miaoshaOrder,
                   nextOrderId, req, bounds>>

SetGoodsOver(m) ==
    /\ msg[m].pc = "setOver"
    /\ goodsOver' = goodsOver \cup {GoodsOf(m)}
    /\ Step(m, "return")
    /\ UNCHANGED <<nodeVars, localOverMap, stockCounter, orderCache, dbVars, req, bounds>>

\* The key the insert reports back: last_insert_id() read after the insert.
GeneratedKey == nextOrderId

\* createOrder is called on "this", not on the Spring proxy: its @Transactional
\* has no effect and each statement commits on its own.
InsertOrder(m) ==
    /\ msg[m].pc = "insert"
    /\ orderInfo' = orderInfo \cup
         {[id |-> nextOrderId, user |-> User(m), goods |-> GoodsOf(m)]}
    /\ nextOrderId' = nextOrderId + 1
    /\ msg' = [msg EXCEPT ![m].pc = "insertMs", ![m].order = GeneratedKey]
    /\ UNCHANGED <<nodeVars, localOverMap, redisVars, stock, miaoshaOrder, req, bounds>>

\* A unique key on (user_id, goods_id): a second row throws.  The dump has no
\* table miaosha_order; the key is the one it declares on the table of the same
\* columns and purpose, cfs_ms_order.
NoUniqueKey(u, g) == FALSE   \* mutant: miaosha_order made without the key
DuplicateKey(u, g) == HasOrder(u, g)

InsertMiaoshaOrder(m) ==
    /\ msg[m].pc = "insertMs"
    /\ \/ /\ ~DuplicateKey(User(m), GoodsOf(m))
          /\ miaoshaOrder' = miaoshaOrder \cup
               {[user |-> User(m), goods |-> GoodsOf(m), orderId |-> msg[m].order]}
          /\ Step(m, "cache")
       \/ /\ DuplicateKey(User(m), GoodsOf(m))
          /\ miaoshaOrder' = miaoshaOrder
          /\ Step(m, "return")
    /\ UNCHANGED <<nodeVars, localOverMap, redisVars, stock, orderInfo, nextOrderId,
                   req, bounds>>

\* RMap.put under the key user_goods replaces what was there.
CacheOrder(m) ==
    /\ msg[m].pc = "cache"
    /\ orderCache' =
         {o \in orderCache : o.user # User(m) \/ o.goods # GoodsOf(m)} \cup
         {[user |-> User(m), goods |-> GoodsOf(m), orderId |-> msg[m].order]}
    /\ Step(m, "return")
    /\ UNCHANGED <<nodeVars, localOverMap, stockCounter, goodsOver, dbVars, req, bounds>>

\* The listener always returns null, which RocketMQ takes for RECONSUME_LATER:
\* the message goes back to the broker until its redeliveries are used up.
Reconsume(m) ==
    /\ msg[m].pc = "return"
    /\ msg' = [msg EXCEPT ![m] =
                 [pc |-> IF msg[m].times < MaxReconsume THEN "queued" ELSE "dead",
                  node |-> None, order |-> None,
                  times |-> IF msg[m].times < MaxReconsume THEN msg[m].times + 1
                                                           ELSE msg[m].times]]
    /\ UNCHANGED <<nodeVars, localOverMap, redisVars, dbVars, req, bounds>>

\* A MySQL or Redis call of the listener throws; RocketMQ treats the exception
\* like null, and nothing the listener did before is undone.  A call that took
\* effect and lost its answer is that call followed by a failure of the next.
ConsumeFails(m) ==
    /\ msg[m].pc \in Consuming \ {"return"} /\ faults < MaxFaults
    /\ faults' = faults + 1
    /\ Step(m, "return")
    /\ UNCHANGED <<nodeVars, localOverMap, redisVars, dbVars, req, boots>>

-----------------------------------------------------------------------------
Boot(n) == ListGoods(n) \/ Serve(n) \/ \E g \in Goods : LoadStock(n, g)

Handle(r) ==
    \/ DecrementStock(r) \/ MarkOver(r) \/ CheckOver(r) \/ CheckOrdered(r)
    \/ SendMiaoshaMessage(r)

Consume(m) ==
    \/ \E n \in Nodes : Deliver(m, n)
    \/ ReadStock(m) \/ LookupOrder(m) \/ ReduceStock(m) \/ SetGoodsOver(m)
    \/ InsertOrder(m) \/ InsertMiaoshaOrder(m) \/ CacheOrder(m) \/ Reconsume(m)

Next ==
    \/ \E n \in Nodes : Boot(n) \/ Crash(n)
    \/ \E r \in Requests :
         \/ \E n \in Nodes, u \in Users \cup {None}, g \in GoodsIds : Arrive(r, n, u, g)
         \/ Handle(r) \/ SendFails(r) \/ HandlerFails(r)
    \/ \E m \in Messages : Consume(m) \/ ConsumeFails(m)

Spec == Init /\ [][Next]_vars

-----------------------------------------------------------------------------
(* Properties                                                              *)

\* The shapes of the state; in particular stock_count never goes below zero.
TypeOK ==
    /\ nodeState \in [Nodes -> {"down", "boot", "up"}]
    /\ todo \in [Nodes -> SUBSET Goods]
    /\ listed \in [Nodes -> [Goods -> Nat]]
    /\ localOverMap \in [Nodes -> [GoodsIds -> {"null", "false", "true"}]]
    /\ stockCounter \in Int
    /\ orderCache \subseteq MiaoshaRow
    /\ goodsOver \subseteq Goods
    /\ stock \in [Goods -> Nat]
    /\ orderInfo \subseteq OrderRow
    /\ miaoshaOrder \subseteq MiaoshaRow
    /\ nextOrderId \in Nat \ {0}
    /\ req \in [Requests -> RequestState]
    /\ msg \in [Messages -> MessageState]
    /\ boots \in Nat /\ faults \in Nat

OrdersOf(g)  == {o \in orderInfo : o.goods = g}
Inserting(g) == {m \in Messages : msg[m].pc = "insert" /\ GoodsOf(m) = g}

\* No goods is sold more often than it was in stock, however many requests,
\* duplicates, redeliveries, crashes and restarts interleave: that counts the
\* order_info rows and the units listeners hold between reduceStock and insert.
NoOversell ==
    \A g \in Goods :
      Cardinality(OrdersOf(g)) + Cardinality(Inserting(g)) <= InitStock[g]

\* Nothing threw and no process died so far.
NoFailure ==
    faults = 0 /\ boots = Cardinality({n \in Nodes : nodeState[n] # "down"})

\* Without a failure no unit is lost either: what left miaosha_goods is in
\* order_info or held by a listener about to insert it, even when the same
\* user's messages race.
UnitsAccounted ==
    NoFailure =>
      \A g \in Goods :
        Cardinality(OrdersOf(g)) + Cardinality(Inserting(g)) + stock[g] = InitStock[g]

\* A miaosha_order row points at the order_info row of the same user and goods,
\* and a user has one row per goods although two messages of that user may both
\* pass the check for an earlier order before either inserts.
SeckillOrderBacked ==
    /\ \A o \in miaoshaOrder :
         [id |-> o.orderId, user |-> o.user, goods |-> o.goods] \in orderInfo
    /\ \A o, p \in miaoshaOrder : o.user = p.user /\ o.goods = p.goods => o = p

\* Who is told REPEATE_MIAOSHA has a miaosha_order row: the Redis copy that
\* the answer relies on never runs ahead of the table.
RepeatMeansOrdered ==
    \A r \in Requests :
      req[r].pc = "REPEATE_MIAOSHA" => HasOrder(req[r].user, req[r].goods)

\* "is_goods_over" is set only for goods whose stock_count is zero.
GoodsOverSound == \A g \in goodsOver : stock[g] = 0

\* No message is ever queued for goods that are not on sale, though the
\* handler never checks the id: unboxing the missing mark stops it.
OnSaleOnly == \A m \in Messages : msg[m].pc # "unsent" => GoodsOf(m) \in Goods
=============================================================================
