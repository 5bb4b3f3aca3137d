---------------------------- MODULE MiaoshaProofs ----------------------------
(***************************************************************************)
(* Proofs about Miaosha, for any number of nodes, users, goods, requests,  *)
(* copies of a message, redeliveries, crashes and failures.                *)
(***************************************************************************)
EXTENDS Miaosha, FiniteSetTheorems, TLAPS

-----------------------------------------------------------------------------
(* The inductive invariant of the control state                            *)

\* A request inside the handler has a node, a user and an id, and only goods
\* on sale get past the unboxing of the over mark.
RequestsOK ==
    \A r \in Requests :
      /\ req[r].pc \in Handling =>
           /\ req[r].node \in Nodes
           /\ req[r].user \in Users
           /\ req[r].goods \in GoodsIds
      /\ req[r].pc \in {"ordered?", "send"} => req[r].goods \in Goods

\* An id that is not on sale is unmarked or marked over, never "false".
MarksOK ==
    \A n \in Nodes, g \in GoodsIds : localOverMap[n][g] = "false" => g \in Goods

\* A message in the queue or with a listener belongs to a finished request of
\* a user for goods on sale, and a listener past the first insert has a key.
MessagesOK ==
    \A m \in Messages :
      /\ msg[m].pc # "unsent" =>
           /\ req[m[1]].pc \in {"queued", "error"}
           /\ User(m) \in Users
           /\ GoodsOf(m) \in Goods
      /\ msg[m].pc \in {"insertMs", "cache"} => msg[m].order \in Nat

ControlInv == TypeOK /\ RequestsOK /\ MarksOK /\ MessagesOK

-----------------------------------------------------------------------------
LEMMA MessageParts == \A m \in Messages : m[1] \in Requests /\ m[2] \in Copies
BY DEF Messages

\* The updates of a request and of a message, which keep their other fields.
LEMMA RequestFails ==
    \A x \in RequestState : LET y == [x EXCEPT !.pc = "error"]
                           IN  y \in RequestState /\ y.pc = "error"
                               /\ y.user = x.user /\ y.goods = x.goods
BY DEF RequestState, Answers

LEMMA MessageQueued ==
    \A x \in MessageState : [x EXCEPT !.pc = "queued"] \in MessageState
BY DEF MessageState

LEMMA MessageRequeued ==
    \A x \in MessageState : LET y == [x EXCEPT !.pc = "queued", !.node = None, !.order = None]
                           IN  y \in MessageState /\ y.pc = "queued"
BY DEF MessageState

LEMMA MessageDelivered ==
    \A x \in MessageState, n \in Nodes : LET y == [x EXCEPT !.pc = "read", !.node = n]
                                        IN  y \in MessageState /\ y.pc = "read"
BY DEF MessageState, Consuming

LEMMA InitControl == Init => ControlInv
<1> SUFFICES ASSUME Init PROVE ControlInv
  OBVIOUS
<1> USE ConstantsAssumption DEF Init
<1>1. TypeOK
  BY DEF TypeOK, RequestState, MessageState
<1>2. RequestsOK
  BY DEF RequestsOK, Handling
<1>3. MarksOK
  BY DEF MarksOK
<1>4. MessagesOK
  BY DEF MessagesOK
<1> QED
  BY <1>1, <1>2, <1>3, <1>4 DEF ControlInv

\* The requests of one node, one handler step and one listener step cannot
\* touch the messages of other requests: what a step that only moves the
\* request r from one control point to the next preserves.
LEMMA GotoControl ==
    ASSUME ControlInv, NEW r \in Requests, NEW pc \in Handling \cup Answers,
           req[r].pc \in Handling, Goto(r, pc),
           pc \in {"ordered?", "send"} => req[r].goods \in Goods
    PROVE  /\ req' \in [Requests -> RequestState]
           /\ RequestsOK'
           /\ \A s \in Requests : /\ req'[s].user = req[s].user
                                  /\ req'[s].goods = req[s].goods
                                  /\ s # r => req'[s] = req[s]
           /\ req'[r].pc = pc
           /\ \A m \in Messages : m[1] = r => msg[m].pc = "unsent"
<1> USE DEF ControlInv
<1>1. /\ req \in [Requests -> RequestState]
      /\ req' = [req EXCEPT ![r].pc = pc]
  BY DEF Goto, TypeOK
<1>2. req' \in [Requests -> RequestState]
  BY <1>1 DEF RequestState
<1>3. \A s \in Requests : /\ req'[s].user = req[s].user
                          /\ req'[s].goods = req[s].goods
                          /\ req'[s].node = req[s].node
                          /\ s # r => req'[s] = req[s]
  BY <1>1 DEF RequestState
<1>4. req'[r].pc = pc
  BY <1>1 DEF RequestState
<1>5. RequestsOK'
  BY <1>3, <1>4 DEF RequestsOK
<1>6. \A m \in Messages : m[1] = r => msg[m].pc = "unsent"
  BY DEF MessagesOK, Handling
<1> QED
  BY <1>2, <1>3, <1>4, <1>5, <1>6

\* A step that moves the message m, already out of the request's hands, to
\* another control point and leaves the requests alone.
LEMMA StepControl ==
    ASSUME ControlInv, NEW m \in Messages, msg[m].pc # "unsent", req' = req,
           msg' \in [Messages -> MessageState],
           msg'[m].pc \in {"insertMs", "cache"} => msg'[m].order \in Nat,
           \A l \in Messages : l # m => msg'[l] = msg[l]
    PROVE  MessagesOK'
BY DEF ControlInv, MessagesOK, User, GoodsOf

\* The type of the message table after Step.
LEMMA StepType ==
    ASSUME TypeOK, NEW m \in Messages, NEW pc \in Consuming, Step(m, pc)
    PROVE  /\ msg' \in [Messages -> MessageState]
           /\ msg'[m].pc = pc
           /\ msg'[m].order = msg[m].order
           /\ \A l \in Messages : l # m => msg'[l] = msg[l]
BY DEF TypeOK, Step, MessageState

\* Booting and dying nodes.
LEMMA NodeControl ==
    ASSUME ControlInv, NEW n \in Nodes, Boot(n) \/ Crash(n)
    PROVE  ControlInv'
<1> USE DEF ControlInv
<1>1. CASE ListGoods(n)
  <2>1. TypeOK'
    BY <1>1 DEF ListGoods, TypeOK, redisVars, dbVars
  <2> QED
    BY <1>1, <2>1 DEF ListGoods, RequestsOK, MarksOK, MessagesOK, User, GoodsOf
<1>2. CASE Serve(n)
  <2>1. TypeOK'
    BY <1>2 DEF Serve, TypeOK, redisVars, dbVars, bounds
  <2> QED
    BY <1>2, <2>1 DEF Serve, RequestsOK, MarksOK, MessagesOK, User, GoodsOf
<1>3. ASSUME NEW g \in Goods, LoadStock(n, g)
      PROVE  ControlInv'
  <2>1. TypeOK'
    BY <1>3, ConstantsAssumption DEF LoadStock, TypeOK, dbVars, bounds
  <2>2. MarksOK'
    BY <1>3, ConstantsAssumption DEF LoadStock, MarksOK, TypeOK
  <2> QED
    BY <1>3, <2>1, <2>2 DEF LoadStock, RequestsOK, MessagesOK, User, GoodsOf
<1>4. CASE Crash(n)
  <2>1. /\ req' \in [Requests -> RequestState]
        /\ \A r \in Requests : /\ req'[r].user = req[r].user
                               /\ req'[r].goods = req[r].goods
                               /\ req'[r] = req[r] \/ req'[r].pc = "error"
    <3>1. \A r \in Requests : req'[r] = req[r] \/ req'[r] = [req[r] EXCEPT !.pc = "error"]
      BY <1>4 DEF Crash
    <3>2. \A r \in Requests : req[r] \in RequestState
      BY DEF TypeOK
    <3>3. \A r \in Requests : /\ req'[r] \in RequestState
                              /\ req'[r].user = req[r].user
                              /\ req'[r].goods = req[r].goods
                              /\ req'[r] = req[r] \/ req'[r].pc = "error"
      <4> SUFFICES ASSUME NEW r \in Requests
                   PROVE  /\ req'[r] \in RequestState
                          /\ req'[r].user = req[r].user
                          /\ req'[r].goods = req[r].goods
                          /\ req'[r] = req[r] \/ req'[r].pc = "error"
        OBVIOUS
      <4>1. req[r] \in RequestState
        BY <3>2
      <4>2. CASE req'[r] = req[r]
        BY <4>1, <4>2
      <4>3. CASE req'[r] = [req[r] EXCEPT !.pc = "error"]
        BY <4>1, <4>3, RequestFails
      <4> QED
        BY <3>1, <4>2, <4>3
    <3>4. req' = [r \in Requests |-> req'[r]]
      BY <1>4 DEF Crash
    <3> QED
      BY <3>3, <3>4
  <2>2. /\ msg' \in [Messages -> MessageState]
        /\ \A m \in Messages :
             msg'[m] = msg[m] \/ (msg'[m].pc = "queued" /\ msg[m].pc # "unsent")
    <3>1. \A m \in Messages :
            \/ msg'[m] = msg[m]
            \/ /\ msg[m].pc \in Consuming
               /\ msg'[m] = [msg[m] EXCEPT !.pc = "queued", !.node = None, !.order = None]
      BY <1>4 DEF Crash
    <3>2. \A m \in Messages : msg[m] \in MessageState
      BY DEF TypeOK
    <3>3. \A m \in Messages :
            /\ msg'[m] \in MessageState
            /\ msg'[m] = msg[m] \/ (msg'[m].pc = "queued" /\ msg[m].pc # "unsent")
      <4> SUFFICES ASSUME NEW m \in Messages
                   PROVE  /\ msg'[m] \in MessageState
                          /\ msg'[m] = msg[m] \/ (msg'[m].pc = "queued" /\ msg[m].pc # "unsent")
        OBVIOUS
      <4>2. CASE msg'[m] = msg[m]
        BY <4>2, <3>2
      <4>3. CASE /\ msg[m].pc \in Consuming
                 /\ msg'[m] = [msg[m] EXCEPT !.pc = "queued", !.node = None, !.order = None]
        <5>1. msg[m].pc # "unsent"
          BY <4>3 DEF Consuming
        <5> QED
          BY <3>2, <4>3, <5>1, MessageRequeued
      <4> QED
        BY <3>1, <4>2, <4>3
    <3>4. msg' = [m \in Messages |-> msg'[m]]
      BY <1>4 DEF Crash
    <3> QED
      BY <3>3, <3>4
  <2>3. TypeOK'
    BY <1>4, <2>1, <2>2, ConstantsAssumption
    DEF Crash, TypeOK, redisVars, dbVars, bounds
  <2>4. RequestsOK'
    BY <2>1 DEF RequestsOK, Handling
  <2>5. MarksOK'
    BY <1>4 DEF Crash, MarksOK, TypeOK
  <2>6. MessagesOK'
    BY <2>1, <2>2, MessageParts DEF MessagesOK, User, GoodsOf
  <2> QED
    BY <2>3, <2>4, <2>5, <2>6
<1> QED
  BY <1>1, <1>2, <1>3, <1>4 DEF Boot

\* The handler, its failures and a new request.
LEMMA HandlerControl ==
    ASSUME ControlInv, NEW r \in Requests,
           \/ \E n \in Nodes, u \in Users \cup {None}, g \in GoodsIds : Arrive(r, n, u, g)
           \/ Handle(r) \/ SendFails(r) \/ HandlerFails(r)
    PROVE  ControlInv'
<1> USE DEF ControlInv
<1>0. req[r].pc \in Handling =>
        /\ req[r].node \in Nodes /\ req[r].user \in Users /\ req[r].goods \in GoodsIds
  BY DEF RequestsOK
<1>1. ASSUME NEW n \in Nodes, NEW u \in Users \cup {None}, NEW g \in GoodsIds,
             Arrive(r, n, u, g)
      PROVE  ControlInv'
  <2> DEFINE pc == IF u = None THEN "SESSION_ERROR" ELSE "decr"
  <2>1. /\ req[r].pc = "new"
        /\ req' = [req EXCEPT ![r] = [pc |-> pc, node |-> n, user |-> u, goods |-> g]]
        /\ UNCHANGED <<nodeVars, localOverMap, redisVars, dbVars, msg, bounds>>
    BY <1>1 DEF Arrive
  <2>2. req' \in [Requests -> RequestState]
    BY <2>1 DEF TypeOK, RequestState, Handling, Answers
  <2>3. TypeOK'
    BY <2>1, <2>2 DEF TypeOK, nodeVars, redisVars, dbVars, bounds
  <2>4. RequestsOK'
    BY <2>1 DEF TypeOK, RequestsOK, Handling
  <2>5. \A m \in Messages : msg[m].pc # "unsent" => m[1] # r
    BY <2>1 DEF MessagesOK
  <2>6. MessagesOK'
    BY <2>1, <2>5, MessageParts DEF TypeOK, MessagesOK, User, GoodsOf
  <2>7. MarksOK'
    BY <2>1 DEF MarksOK
  <2> QED
    BY <2>3, <2>4, <2>6, <2>7
<1>2. ASSUME NEW pc \in Handling \cup Answers, Goto(r, pc), req[r].pc \in Handling,
             pc \in {"ordered?", "send"} => req[r].goods \in Goods,
             UNCHANGED <<nodeVars, orderCache, goodsOver, dbVars, msg, boots>>,
             stockCounter' \in Int, faults' \in Nat,
             localOverMap' \in [Nodes -> [GoodsIds -> {"null", "false", "true"}]],
             MarksOK'
      PROVE  ControlInv'
  <2>1. /\ req' \in [Requests -> RequestState]
        /\ RequestsOK'
        /\ \A s \in Requests : /\ req'[s].user = req[s].user
                               /\ req'[s].goods = req[s].goods
                               /\ s # r => req'[s] = req[s]
        /\ \A m \in Messages : m[1] = r => msg[m].pc = "unsent"
    BY <1>2, GotoControl
  <2>2. TypeOK'
    BY <1>2, <2>1 DEF TypeOK, nodeVars, dbVars
  <2>3. MessagesOK'
    BY <1>2, <2>1, MessageParts DEF MessagesOK, User, GoodsOf
  <2> QED
    BY <1>2, <2>1, <2>2, <2>3
<1>3. CASE DecrementStock(r)
  <2> DEFINE pc == IF stockCounter' < 0 THEN "mark" ELSE "over?"
  <2>1. /\ pc \in Handling \cup Answers /\ req[r].pc \in Handling
        /\ pc \notin {"ordered?", "send"} /\ Goto(r, pc)
    BY <1>3 DEF DecrementStock, Handling
  <2>2. stockCounter' \in Int /\ faults' \in Nat
    BY <1>3 DEF DecrementStock, TypeOK, bounds
  <2>3. localOverMap' = localOverMap /\ MarksOK'
    BY <1>3 DEF DecrementStock, MarksOK
  <2>4. UNCHANGED <<nodeVars, orderCache, goodsOver, dbVars, msg, boots>>
    BY <1>3 DEF DecrementStock, bounds
  <2> QED
    BY <2>1, <2>2, <2>3, <2>4, <1>2 DEF TypeOK
<1>4. CASE MarkOver(r)
  <2>1. "MIAO_SHA_OVER" \in Answers /\ req[r].pc \in Handling /\ Goto(r, "MIAO_SHA_OVER")
    BY <1>4 DEF MarkOver, Handling, Answers
  <2>2. stockCounter' \in Int /\ faults' \in Nat
    BY <1>4 DEF MarkOver, TypeOK, redisVars, bounds
  <2>3. localOverMap' \in [Nodes -> [GoodsIds -> {"null", "false", "true"}]]
    BY <1>4, <1>0, <2>1 DEF MarkOver, TypeOK
  <2>4. MarksOK'
    BY <1>4, <1>0, <2>1 DEF MarkOver, MarksOK, TypeOK
  <2>5. UNCHANGED <<nodeVars, orderCache, goodsOver, dbVars, msg, boots>>
    BY <1>4 DEF MarkOver, redisVars, bounds
  <2> QED
    BY <2>1, <2>2, <2>3, <2>4, <2>5, <1>2
<1>5. CASE CheckOver(r)
  <2>1. PICK over \in Readings(r) :
          Goto(r, CASE over = "true"  -> "MIAO_SHA_OVER"
                    [] over = "null"  -> "error"
                    [] over = "false" -> "ordered?")
    BY <1>5 DEF CheckOver
  <2>2. req[r].pc \in Handling
    BY <1>5 DEF CheckOver, Handling
  <2>3. over \in {"null", "false", "true"} /\ (over = "false" => req[r].goods \in Goods)
    BY <1>0, <2>1, <2>2 DEF Readings, Unmarked, MarksOK, TypeOK
  <2>4. PICK pc \in {"MIAO_SHA_OVER", "error", "ordered?"} :
          Goto(r, pc) /\ (pc = "ordered?" => req[r].goods \in Goods)
    BY <2>1, <2>3
  <2>5. pc \in Handling \cup Answers /\ pc # "send"
    BY <2>4 DEF Handling, Answers
  <2>6. /\ UNCHANGED <<nodeVars, orderCache, goodsOver, dbVars, msg, boots>>
        /\ stockCounter' \in Int /\ faults' \in Nat /\ localOverMap' = localOverMap
    BY <1>5 DEF CheckOver, redisVars, bounds, TypeOK
  <2>7. MarksOK'
    BY <2>6 DEF MarksOK
  <2> QED
    BY <2>2, <2>4, <2>5, <2>6, <2>7, <1>2 DEF TypeOK
<1>6. CASE CheckOrdered(r)
  <2>1. PICK pc \in {"REPEATE_MIAOSHA", "send"} : Goto(r, pc)
    BY <1>6 DEF CheckOrdered
  <2>2. pc \in Handling \cup Answers /\ req[r].pc \in Handling /\ req[r].goods \in Goods
    BY <1>6, <2>1 DEF CheckOrdered, Handling, Answers, RequestsOK
  <2>3. /\ UNCHANGED <<nodeVars, orderCache, goodsOver, dbVars, msg, boots>>
        /\ stockCounter' \in Int /\ faults' \in Nat /\ localOverMap' = localOverMap
    BY <1>6 DEF CheckOrdered, redisVars, bounds, TypeOK
  <2>4. MarksOK'
    BY <2>3 DEF MarksOK
  <2> QED
    BY <2>1, <2>2, <2>3, <2>4, <1>2 DEF TypeOK
<1>7. CASE HandlerFails(r)
  <2>1. "error" \in Answers /\ req[r].pc \in Handling /\ Goto(r, "error")
    BY <1>7 DEF HandlerFails, Handling, Answers
  <2>2. stockCounter' \in Int /\ faults' \in Nat
    BY <1>7 DEF HandlerFails, TypeOK
  <2>3. UNCHANGED <<nodeVars, localOverMap, orderCache, goodsOver, dbVars, msg, boots>>
    BY <1>7 DEF HandlerFails
  <2>4. MarksOK'
    BY <2>3 DEF MarksOK
  <2> QED
    BY <2>1, <2>2, <2>3, <2>4, <1>2 DEF TypeOK
<1>8. CASE SendMiaoshaMessage(r) \/ SendFails(r)
  <2>1. PICK pc \in {"queued", "error"} : Goto(r, pc)
    BY <1>8 DEF SendMiaoshaMessage, SendFails
  <2>2. /\ pc \in Handling \cup Answers /\ req[r].pc \in Handling
        /\ pc \notin {"ordered?", "send"} /\ req[r].goods \in Goods
    BY <1>8, <2>1 DEF SendMiaoshaMessage, SendFails, Handling, Answers, RequestsOK
  <2>3. PICK sent \in SUBSET Copies :
          msg' = [m \in Messages |-> IF m[1] = r /\ m[2] \in sent
                                     THEN [msg[m] EXCEPT !.pc = "queued"] ELSE msg[m]]
    BY <1>8 DEF SendMiaoshaMessage, SendFails
  <2>4. /\ UNCHANGED <<nodeVars, localOverMap, redisVars, dbVars, boots>>
        /\ faults' \in Nat
    BY <1>8 DEF SendMiaoshaMessage, SendFails, bounds, TypeOK
  <2>5. /\ req' \in [Requests -> RequestState]
        /\ RequestsOK'
        /\ \A s \in Requests : /\ req'[s].user = req[s].user
                               /\ req'[s].goods = req[s].goods
                               /\ s # r => req'[s] = req[s]
        /\ req'[r].pc = pc
    BY <2>1, <2>2, GotoControl
  <2>6. msg' \in [Messages -> MessageState]
    <3>1. \A m \in Messages : [msg[m] EXCEPT !.pc = "queued"] \in MessageState
      BY MessageQueued DEF TypeOK
    <3> QED
      BY <2>3, <3>1 DEF TypeOK
  <2>7. TypeOK'
    BY <2>4, <2>5, <2>6 DEF TypeOK, nodeVars, redisVars, dbVars
  <2>8. \A m \in Messages : /\ m[1] # r => msg'[m] = msg[m]
                            /\ msg'[m] = msg[m] \/ msg'[m].pc = "queued"
    BY <2>3 DEF TypeOK, MessageState
  <2>9. MessagesOK'
    BY <1>0, <2>1, <2>2, <2>5, <2>8, MessageParts DEF MessagesOK, User, GoodsOf
  <2>10. MarksOK'
    BY <2>4 DEF MarksOK
  <2> QED
    BY <2>5, <2>7, <2>9, <2>10
<1> QED
  BY <1>1, <1>3, <1>4, <1>5, <1>6, <1>7, <1>8 DEF Handle

\* The listener, its failures and the broker.
LEMMA ListenerControl ==
    ASSUME ControlInv, NEW m \in Messages, Consume(m) \/ ConsumeFails(m)
    PROVE  ControlInv'
<1> USE DEF ControlInv
<1>0. /\ msg[m].pc # "unsent" => User(m) \in Users /\ GoodsOf(m) \in Goods
      /\ msg[m].pc \in {"insertMs", "cache"} => msg[m].order \in Nat
  BY DEF MessagesOK
<1>1. ASSUME NEW n \in Nodes, Deliver(m, n)
      PROVE  ControlInv'
  <2>1. msg[m].pc # "unsent" /\ req' = req
    BY <1>1 DEF Deliver
  <2>2. /\ msg' \in [Messages -> MessageState]
        /\ msg'[m].pc = "read"
        /\ \A l \in Messages : l # m => msg'[l] = msg[l]
    <3>1. msg[m] \in MessageState
      BY DEF TypeOK
    <3>2. msg' = [msg EXCEPT ![m] = [msg[m] EXCEPT !.pc = "read", !.node = n]]
      BY <1>1 DEF Deliver, TypeOK
    <3>3. LET x == [msg[m] EXCEPT !.pc = "read", !.node = n]
          IN  x \in MessageState /\ x.pc = "read"
      BY <3>1, MessageDelivered
    <3> QED
      BY <3>2, <3>3 DEF TypeOK
  <2>3. TypeOK'
    BY <1>1, <1>0, <2>1, <2>2 DEF Deliver, TypeOK, nodeVars, redisVars, dbVars, bounds
  <2> QED
    BY <1>1, <2>1, <2>2, <2>3, StepControl DEF Deliver, RequestsOK, MarksOK
<1>2. CASE ReadStock(m)
  <2>1. PICK pc \in Consuming \ {"insertMs", "cache"} : Step(m, pc)
    BY <1>2 DEF ReadStock, Consuming
  <2>2. msg[m].pc # "unsent" /\ req' = req
    BY <1>2 DEF ReadStock, Consuming
  <2>3. /\ msg' \in [Messages -> MessageState]
        /\ msg'[m].pc \in {"insertMs", "cache"} => msg'[m].order \in Nat
        /\ \A l \in Messages : l # m => msg'[l] = msg[l]
    BY <2>1, StepType DEF Consuming
  <2>4. TypeOK'
    BY <1>2, <2>2, <2>3 DEF ReadStock, TypeOK, nodeVars, redisVars, dbVars, bounds
  <2> QED
    BY <1>2, <2>2, <2>3, <2>4, StepControl DEF ReadStock, RequestsOK, MarksOK
<1>3. CASE LookupOrder(m)
  <2>1. PICK pc \in Consuming \ {"insertMs", "cache"} : Step(m, pc)
    BY <1>3 DEF LookupOrder, Consuming
  <2>2. msg[m].pc # "unsent" /\ req' = req
    BY <1>3 DEF LookupOrder, Consuming
  <2>3. /\ msg' \in [Messages -> MessageState]
        /\ msg'[m].pc \in {"insertMs", "cache"} => msg'[m].order \in Nat
        /\ \A l \in Messages : l # m => msg'[l] = msg[l]
    BY <2>1, StepType DEF Consuming
  <2>4. TypeOK'
    BY <1>3, <2>2, <2>3 DEF LookupOrder, TypeOK, nodeVars, redisVars, dbVars, bounds
  <2> QED
    BY <1>3, <2>2, <2>3, <2>4, StepControl DEF LookupOrder, RequestsOK, MarksOK
<1>4. CASE ReduceStock(m)
  <2>1. PICK pc \in Consuming \ {"insertMs", "cache"} : Step(m, pc)
    BY <1>4 DEF ReduceStock, Consuming
  <2>2. msg[m].pc # "unsent" /\ req' = req
    BY <1>4 DEF ReduceStock, Consuming
  <2>3. /\ msg' \in [Messages -> MessageState]
        /\ msg'[m].pc \in {"insertMs", "cache"} => msg'[m].order \in Nat
        /\ \A l \in Messages : l # m => msg'[l] = msg[l]
    BY <2>1, StepType DEF Consuming
  <2>4. TypeOK'
    BY <1>4, <1>0, <2>2, <2>3 DEF ReduceStock, TypeOK, nodeVars, redisVars, bounds, Reducible
  <2> QED
    BY <1>4, <2>2, <2>3, <2>4, StepControl DEF ReduceStock, RequestsOK, MarksOK
<1>5. CASE SetGoodsOver(m)
  <2>1. PICK pc \in Consuming \ {"insertMs", "cache"} : Step(m, pc)
    BY <1>5 DEF SetGoodsOver, Consuming
  <2>2. msg[m].pc # "unsent" /\ req' = req
    BY <1>5 DEF SetGoodsOver, Consuming
  <2>3. /\ msg' \in [Messages -> MessageState]
        /\ msg'[m].pc \in {"insertMs", "cache"} => msg'[m].order \in Nat
        /\ \A l \in Messages : l # m => msg'[l] = msg[l]
    BY <2>1, StepType DEF Consuming
  <2>4. TypeOK'
    BY <1>5, <1>0, <2>2, <2>3 DEF SetGoodsOver, TypeOK, nodeVars, dbVars, bounds
  <2> QED
    BY <1>5, <2>2, <2>3, <2>4, StepControl DEF SetGoodsOver, RequestsOK, MarksOK
<1>6. CASE InsertOrder(m)
  <2>1. msg[m].pc # "unsent" /\ req' = req
    BY <1>6 DEF InsertOrder
  <2>2. /\ msg' \in [Messages -> MessageState]
        /\ msg'[m].order \in Nat
        /\ \A l \in Messages : l # m => msg'[l] = msg[l]
    <3>1. msg[m] \in MessageState /\ nextOrderId \in Nat
      BY DEF TypeOK
    <3>2. msg' = [msg EXCEPT ![m] = [msg[m] EXCEPT !.pc = "insertMs", !.order = nextOrderId]]
      BY <1>6 DEF InsertOrder, TypeOK, GeneratedKey
    <3>3. LET x == [msg[m] EXCEPT !.pc = "insertMs", !.order = nextOrderId]
          IN  x \in MessageState /\ x.order = nextOrderId
      BY <3>1 DEF MessageState, Consuming
    <3> QED
      BY <3>1, <3>2, <3>3 DEF TypeOK
  <2>3. TypeOK'
    BY <1>6, <1>0, <2>1, <2>2 DEF InsertOrder, TypeOK, nodeVars, redisVars, bounds, OrderRow
  <2> QED
    BY <1>6, <2>1, <2>2, <2>3, StepControl DEF InsertOrder, RequestsOK, MarksOK
<1>7. CASE InsertMiaoshaOrder(m)
  <2>1. PICK pc \in {"cache", "return"} : Step(m, pc)
    BY <1>7 DEF InsertMiaoshaOrder, Consuming
  <2>2. msg[m].pc # "unsent" /\ req' = req
    BY <1>7 DEF InsertMiaoshaOrder, Consuming
  <2>3. /\ msg' \in [Messages -> MessageState]
        /\ msg'[m].pc \in {"insertMs", "cache"} => msg'[m].order \in Nat
        /\ \A l \in Messages : l # m => msg'[l] = msg[l]
    BY <1>0, <1>7, <2>1, StepType DEF Consuming, InsertMiaoshaOrder
  <2>4. TypeOK'
    BY <1>7, <1>0, <2>2, <2>3 DEF InsertMiaoshaOrder, TypeOK, nodeVars, redisVars,
        bounds, MiaoshaRow
  <2> QED
    BY <1>7, <2>2, <2>3, <2>4, StepControl DEF InsertMiaoshaOrder, RequestsOK, MarksOK
<1>8. CASE CacheOrder(m)
  <2>1. PICK pc \in Consuming \ {"insertMs", "cache"} : Step(m, pc)
    BY <1>8 DEF CacheOrder, Consuming
  <2>2. msg[m].pc # "unsent" /\ req' = req
    BY <1>8 DEF CacheOrder, Consuming
  <2>3. /\ msg' \in [Messages -> MessageState]
        /\ msg'[m].pc \in {"insertMs", "cache"} => msg'[m].order \in Nat
        /\ \A l \in Messages : l # m => msg'[l] = msg[l]
    BY <2>1, StepType DEF Consuming
  <2>4. TypeOK'
    BY <1>8, <1>0, <2>2, <2>3 DEF CacheOrder, TypeOK, nodeVars, dbVars,
        bounds, MiaoshaRow
  <2> QED
    BY <1>8, <2>2, <2>3, <2>4, StepControl DEF CacheOrder, RequestsOK, MarksOK
<1>9. CASE Reconsume(m)
  <2>1. msg[m].pc # "unsent" /\ req' = req
    BY <1>9 DEF Reconsume
  <2>2. /\ msg' \in [Messages -> MessageState]
        /\ msg'[m].pc \in {"queued", "dead"}
        /\ \A l \in Messages : l # m => msg'[l] = msg[l]
    <3>1. PICK pc \in {"queued", "dead"}, k \in 0..MaxReconsume :
            msg' = [msg EXCEPT ![m] =
                      [pc |-> pc, node |-> None, order |-> None, times |-> k]]
      <4> DEFINE again == msg[m].times < MaxReconsume
                 pc == IF again THEN "queued" ELSE "dead"
                 k == IF again THEN msg[m].times + 1 ELSE msg[m].times
      <4>1. msg[m].times \in 0..MaxReconsume
        BY DEF TypeOK, MessageState
      <4>2. pc \in {"queued", "dead"} /\ k \in 0..MaxReconsume
        BY <4>1, ConstantsAssumption
      <4>3. msg' = [msg EXCEPT ![m] =
                      [pc |-> pc, node |-> None, order |-> None, times |-> k]]
        BY <1>9 DEF Reconsume
      <4> QED
        BY <4>2, <4>3
    <3> QED
      BY <3>1 DEF TypeOK, MessageState
  <2>3. TypeOK'
    BY <1>9, <1>0, <2>1, <2>2 DEF Reconsume, TypeOK, nodeVars, redisVars, dbVars, bounds
  <2> QED
    BY <1>9, <2>1, <2>2, <2>3, StepControl DEF Reconsume, RequestsOK, MarksOK
<1>10. CASE ConsumeFails(m)
  <2>1. PICK pc \in Consuming \ {"insertMs", "cache"} : Step(m, pc)
    BY <1>10 DEF ConsumeFails, Consuming
  <2>2. msg[m].pc # "unsent" /\ req' = req
    BY <1>10 DEF ConsumeFails, Consuming
  <2>3. /\ msg' \in [Messages -> MessageState]
        /\ msg'[m].pc \in {"insertMs", "cache"} => msg'[m].order \in Nat
        /\ \A l \in Messages : l # m => msg'[l] = msg[l]
    BY <2>1, StepType DEF Consuming
  <2>4. TypeOK'
    BY <1>10, <2>2, <2>3 DEF ConsumeFails, TypeOK, nodeVars, redisVars, dbVars
  <2> QED
    BY <1>10, <2>2, <2>3, <2>4, StepControl DEF ConsumeFails, RequestsOK, MarksOK
<1> QED
  BY <1>1, <1>2, <1>3, <1>4, <1>5, <1>6, <1>7, <1>8, <1>9, <1>10 DEF Consume

LEMMA StutterControl == ControlInv /\ UNCHANGED vars => ControlInv'
BY DEF ControlInv, TypeOK, RequestsOK, MarksOK, MessagesOK, User, GoodsOf,
       vars, nodeVars, redisVars, dbVars, bounds

LEMMA NextControl == ControlInv /\ [Next]_vars => ControlInv'
BY NodeControl, HandlerControl, ListenerControl, StutterControl DEF Next

LEMMA ControlInvariant == Spec => []ControlInv
BY InitControl, NextControl, PTL DEF Spec

\* Type correctness: in every reachable state of a flash sale of any size the
\* nodes, Redis, MySQL, the requests and the queue have their declared shape;
\* miaosha_goods.stock_count is never negative.
THEOREM TypeCorrect == Spec => []TypeOK
BY ControlInvariant, PTL DEF ControlInv

\* MiaoShaController never queues a message for goods that are not on sale.
THEOREM OnSaleOnlyHolds == Spec => []OnSaleOnly
<1>1. ControlInv => OnSaleOnly
  BY DEF ControlInv, MessagesOK, OnSaleOnly
<1> QED
  BY <1>1, ControlInvariant, PTL

(***************************************************************************)
(* The flash sale never oversells, and what it records about its orders is *)
(* consistent: proofs that build on the control invariant.                 *)
(***************************************************************************)

-----------------------------------------------------------------------------
(* The inductive invariant of the data                                     *)

OrderOf(m) == [id |-> msg[m].order, user |-> User(m), goods |-> GoodsOf(m)]
SeckillOf(m) == [user |-> User(m), goods |-> GoodsOf(m), orderId |-> msg[m].order]

\* What a listener in the middle of createOrder or setGoodsOver relies on.
ListenersOK ==
    \A m \in Messages :
      /\ msg[m].pc \in {"insertMs", "cache"} => OrderOf(m) \in orderInfo
      /\ msg[m].pc = "cache" => SeckillOf(m) \in miaoshaOrder
      /\ msg[m].pc = "setOver" => stock[GoodsOf(m)] = 0

\* AUTO_INCREMENT is past every key in order_info.
KeysOK == \A o \in orderInfo : o.id < nextOrderId

\* The orders in Redis are orders of miaosha_order.
CacheSound == orderCache \subseteq miaoshaOrder

\* Stock, units held by listeners and orders never add up to more than the
\* sale was set up with.
Total(g) == Cardinality(OrdersOf(g)) + Cardinality(Inserting(g)) + stock[g]
StockCovers ==
    /\ IsFiniteSet(orderInfo)
    /\ \A g \in Goods : Total(g) <= InitStock[g]

SaleInv ==
    /\ ListenersOK /\ KeysOK /\ CacheSound /\ SeckillOrderBacked
    /\ RepeatMeansOrdered /\ GoodsOverSound /\ StockCovers

-----------------------------------------------------------------------------
LEMMA InsertingFinite ==
    \A g : IsFiniteSet(Inserting(g)) /\ Cardinality(Inserting(g)) \in Nat
<1> SUFFICES ASSUME NEW g
             PROVE  IsFiniteSet(Inserting(g)) /\ Cardinality(Inserting(g)) \in Nat
  OBVIOUS
<1>1. IsFiniteSet(Messages)
  BY FiniteAssumption DEF Messages
<1>2. Inserting(g) \subseteq Messages
  BY DEF Inserting
<1> QED
  BY <1>1, <1>2, FS_Subset, FS_CardinalityType

LEMMA OrdersFinite ==
    ASSUME IsFiniteSet(orderInfo)
    PROVE  \A g : IsFiniteSet(OrdersOf(g)) /\ Cardinality(OrdersOf(g)) \in Nat
<1> SUFFICES ASSUME NEW g
             PROVE  IsFiniteSet(OrdersOf(g)) /\ Cardinality(OrdersOf(g)) \in Nat
  OBVIOUS
<1>1. OrdersOf(g) \subseteq orderInfo
  BY DEF OrdersOf
<1> QED
  BY <1>1, FS_Subset, FS_CardinalityType

LEMMA InitSale == Init => SaleInv
<1> SUFFICES ASSUME Init PROVE SaleInv
  OBVIOUS
<1>1. /\ ListenersOK /\ KeysOK /\ CacheSound /\ SeckillOrderBacked
      /\ RepeatMeansOrdered /\ GoodsOverSound
  BY DEF Init, ListenersOK, KeysOK, CacheSound, SeckillOrderBacked,
         RepeatMeansOrdered, GoodsOverSound
<1>2. StockCovers
  <2>1. IsFiniteSet(orderInfo)
    BY FS_EmptySet DEF Init
  <2>2. \A g \in Goods : OrdersOf(g) = {} /\ Inserting(g) = {}
    BY DEF Init, OrdersOf, Inserting
  <2>3. \A g \in Goods : stock[g] = InitStock[g] /\ InitStock[g] \in Nat
    BY ConstantsAssumption DEF Init
  <2> QED
    BY <2>1, <2>2, <2>3, FS_EmptySet DEF StockCovers, Total
<1> QED
  BY <1>1, <1>2 DEF SaleInv

\* A step that leaves the tables, the order cache and "is_goods_over" alone,
\* and takes no message to the middle of createOrder or setGoodsOver.
LEMMA FrameSale ==
    ASSUME ControlInv, SaleInv, ControlInv',
           UNCHANGED <<dbVars, orderCache, goodsOver>>,
           \A m \in Messages :
             \/ /\ msg'[m] = msg[m]
                /\ msg[m].pc # "unsent" => req'[m[1]] = req[m[1]]
             \/ msg'[m].pc \notin {"insert", "insertMs", "cache", "setOver"},
           RepeatMeansOrdered'
    PROVE  SaleInv'
<1> USE DEF SaleInv, dbVars
<1>1. ListenersOK'
  BY DEF ListenersOK, OrderOf, SeckillOf, User, GoodsOf
<1>2. KeysOK' /\ CacheSound' /\ SeckillOrderBacked' /\ GoodsOverSound'
  BY DEF KeysOK, CacheSound, SeckillOrderBacked, GoodsOverSound
<1>3. ASSUME NEW g \in Goods
      PROVE  /\ Cardinality(Inserting(g)') \in Nat
             /\ Cardinality(Inserting(g)') <= Cardinality(Inserting(g))
  <2>1. Inserting(g)' \subseteq Inserting(g)
    BY DEF Inserting, GoodsOf
  <2> QED
    BY <2>1, InsertingFinite, FS_Subset, FS_CardinalityType
<1>4. \A g \in Goods : OrdersOf(g)' = OrdersOf(g) /\ stock'[g] = stock[g]
  BY DEF OrdersOf
<1>5. StockCovers'
  <2>1. IsFiniteSet(orderInfo')
    BY DEF StockCovers
  <2>2. ASSUME NEW g \in Goods
        PROVE  Total(g)' <= InitStock[g]
    <3>1. Cardinality(OrdersOf(g)) \in Nat /\ Cardinality(Inserting(g)) \in Nat
      BY InsertingFinite, OrdersFinite DEF StockCovers
    <3>2. stock[g] \in Nat /\ InitStock[g] \in Nat
      BY ConstantsAssumption DEF ControlInv, TypeOK
    <3> QED
      BY <1>3, <1>4, <3>1, <3>2 DEF StockCovers, Total
  <2> QED
    BY <2>1, <2>2 DEF StockCovers
<1> QED
  BY <1>1, <1>2, <1>5

\* Booting and dying nodes: what a crash sends back to the queue holds nothing.
LEMMA NodeSale ==
    ASSUME ControlInv, SaleInv, ControlInv', NEW n \in Nodes, Boot(n) \/ Crash(n)
    PROVE  SaleInv'
<1>1. CASE Boot(n)
  <2>1. UNCHANGED <<dbVars, orderCache, goodsOver, req, msg>>
    BY <1>1 DEF Boot, ListGoods, LoadStock, Serve, redisVars
  <2>2. RepeatMeansOrdered'
    BY <2>1 DEF SaleInv, RepeatMeansOrdered, HasOrder, dbVars
  <2> QED
    BY <2>1, <2>2, FrameSale
<1>2. CASE Crash(n)
  <2>1. UNCHANGED <<dbVars, orderCache, goodsOver>>
    BY <1>2 DEF Crash, redisVars
  <2>2. \A r \in Requests :
          req'[r] = req[r] \/ (req[r].pc \in Handling /\ req'[r].pc = "error")
    <3>1. \A r \in Requests : req[r] \in RequestState
      BY DEF ControlInv, TypeOK
    <3>2. \A r \in Requests :
            \/ req'[r] = req[r]
            \/ req[r].pc \in Handling /\ req'[r] = [req[r] EXCEPT !.pc = "error"]
      BY <1>2 DEF Crash
    <3> QED
      BY <3>1, <3>2 DEF RequestState
  <2>3. \A m \in Messages : msg'[m] = msg[m] \/ msg'[m].pc = "queued"
    <3>1. \A m \in Messages : msg[m] \in MessageState
      BY DEF ControlInv, TypeOK
    <3>2. \A m \in Messages :
            \/ msg'[m] = msg[m]
            \/ msg'[m] = [msg[m] EXCEPT !.pc = "queued", !.node = None, !.order = None]
      BY <1>2 DEF Crash
    <3> QED
      BY <3>1, <3>2 DEF MessageState
  <2>4. \A m \in Messages : msg[m].pc # "unsent" => req'[m[1]] = req[m[1]]
    BY <2>2, MessageParts DEF ControlInv, MessagesOK, Handling
  <2>5. RepeatMeansOrdered'
    BY <2>1, <2>2 DEF SaleInv, RepeatMeansOrdered, HasOrder, dbVars
  <2> QED
    BY <2>1, <2>3, <2>4, <2>5, FrameSale
<1> QED
  BY <1>1, <1>2

\* The handler: it reads the order cache, which only holds orders of the table.
LEMMA HandlerSale ==
    ASSUME ControlInv, SaleInv, ControlInv', NEW r \in Requests,
           \/ \E n \in Nodes, u \in Users \cup {None}, g \in GoodsIds : Arrive(r, n, u, g)
           \/ Handle(r) \/ SendFails(r) \/ HandlerFails(r)
    PROVE  SaleInv'
<1>1. UNCHANGED <<dbVars, orderCache, goodsOver>>
  BY DEF Arrive, Handle, DecrementStock, MarkOver, CheckOver, CheckOrdered,
         SendMiaoshaMessage, SendFails, HandlerFails, redisVars
<1>2. req \in [Requests -> RequestState] /\ msg \in [Messages -> MessageState]
  BY DEF ControlInv, TypeOK
<1>3. \A s \in Requests : s # r => req'[s] = req[s]
  BY <1>2 DEF Arrive, Handle, DecrementStock, MarkOver, CheckOver, CheckOrdered,
         SendMiaoshaMessage, SendFails, HandlerFails, Goto
<1>4. req[r].pc \in {"new"} \cup Handling
  BY DEF Arrive, Handle, DecrementStock, MarkOver, CheckOver, CheckOrdered,
         SendMiaoshaMessage, SendFails, HandlerFails, Handling
<1>5. \A m \in Messages : msg[m].pc # "unsent" => req'[m[1]] = req[m[1]]
  BY <1>3, <1>4, MessageParts DEF ControlInv, MessagesOK, Handling
<1>6. \A m \in Messages : msg'[m] = msg[m] \/ msg'[m].pc = "queued"
  <2>1. CASE SendMiaoshaMessage(r) \/ SendFails(r)
    <3>1. \A m \in Messages :
            msg'[m] = msg[m] \/ msg'[m] = [msg[m] EXCEPT !.pc = "queued"]
      BY <2>1 DEF SendMiaoshaMessage, SendFails
    <3> QED
      BY <1>2, <3>1 DEF MessageState
  <2>2. CASE ~(SendMiaoshaMessage(r) \/ SendFails(r))
    <3>1. msg' = msg
      BY <2>2 DEF Arrive, Handle, DecrementStock, MarkOver, CheckOver, CheckOrdered,
                  HandlerFails
    <3> QED
      BY <3>1
  <2> QED
    BY <2>1, <2>2
<1>7. req'[r].pc = "REPEATE_MIAOSHA" =>
        HasOrder(req[r].user, req[r].goods) /\ req'[r].user = req[r].user
                                            /\ req'[r].goods = req[r].goods
  <2>1. CASE CheckOrdered(r)
    <3>1. req'[r].user = req[r].user /\ req'[r].goods = req[r].goods
      BY <1>2, <2>1 DEF CheckOrdered, Goto, RequestState
    <3>2. req'[r].pc = "REPEATE_MIAOSHA" => CachedOrder(r)
      BY <1>2, <2>1 DEF CheckOrdered, Goto, RequestState
    <3> QED
      BY <3>1, <3>2 DEF CachedOrder, HasOrder, SaleInv, CacheSound
  <2>2. CASE ~CheckOrdered(r)
    <3>1. CASE CheckOver(r)
      <4>1. PICK over \in Readings(r) :
              Goto(r, CASE over = "true"  -> "MIAO_SHA_OVER"
                        [] over = "null"  -> "error"
                        [] over = "false" -> "ordered?")
        BY <3>1 DEF CheckOver
      <4>2. over \in {"null", "false", "true"}
        BY <3>1, <4>1 DEF CheckOver, Readings, Unmarked, ControlInv, TypeOK,
                          RequestsOK, Handling
      <4> QED
        BY <1>2, <4>1, <4>2 DEF Goto, RequestState
    <3>2. CASE ~CheckOver(r)
      BY <1>2, <2>2, <3>2 DEF Arrive, Handle, DecrementStock, MarkOver,
         SendMiaoshaMessage, SendFails, HandlerFails, Goto, RequestState
    <3> QED
      BY <3>1, <3>2
  <2> QED
    BY <2>1, <2>2
<1>8. RepeatMeansOrdered'
  BY <1>1, <1>3, <1>7 DEF SaleInv, RepeatMeansOrdered, HasOrder, dbVars
<1> QED
  BY <1>1, <1>5, <1>6, <1>8, FrameSale

\* reduceStock: the unit moves from the table to the listener.
LEMMA ReduceTotal ==
    ASSUME ControlInv, SaleInv, NEW m \in Messages, ReduceStock(m)
    PROVE  \A h \in Goods : Total(h)' = Total(h)
<1>0. PICK g \in Goods : g = GoodsOf(m)
  BY DEF ControlInv, MessagesOK, ReduceStock
<1>1. /\ GoodsOf(m) = g /\ msg[m].pc = "reduce" /\ stock \in [Goods -> Nat]
      /\ req' = req /\ orderInfo' = orderInfo
  BY <1>0 DEF ControlInv, TypeOK, ReduceStock
<1>2. \A h \in Goods : OrdersOf(h)' = OrdersOf(h)
  BY <1>1 DEF OrdersOf
<1>3. CASE Reducible(g)
  <2>1. stock' = [stock EXCEPT ![g] = @ - 1] /\ Step(m, "insert")
    BY <1>0, <1>3 DEF ReduceStock
  <2>2. /\ msg'[m].pc = "insert"
        /\ \A l \in Messages : l # m => msg'[l] = msg[l]
    BY <2>1, StepType DEF ControlInv, Consuming
  <2>3. Inserting(g)' = Inserting(g) \cup {m} /\ m \notin Inserting(g)
    BY <1>1, <2>2 DEF Inserting, GoodsOf
  <2>4. \A h \in Goods : h # g => Inserting(h)' = Inserting(h) /\ stock'[h] = stock[h]
    BY <1>1, <2>1, <2>2 DEF Inserting, GoodsOf
  <2>5. Cardinality(Inserting(g)') = Cardinality(Inserting(g)) + 1
    BY <2>3, InsertingFinite, FS_AddElement
  <2>6. stock'[g] = stock[g] - 1 /\ stock[g] \in Nat
    BY <1>1, <2>1
  <2>7. Cardinality(OrdersOf(g)) \in Nat /\ Cardinality(Inserting(g)) \in Nat
    BY InsertingFinite, OrdersFinite DEF SaleInv, StockCovers
  <2>8. Total(g)' = Total(g)
    BY <1>2, <2>5, <2>6, <2>7 DEF Total
  <2> QED
    BY <1>2, <2>4, <2>8 DEF Total
<1>4. CASE ~Reducible(g)
  <2>1. stock' = stock /\ Step(m, "setOver")
    BY <1>1, <1>4 DEF ReduceStock
  <2>2. /\ msg'[m].pc = "setOver"
        /\ \A l \in Messages : l # m => msg'[l] = msg[l]
    BY <2>1, StepType DEF ControlInv, Consuming
  <2>3. \A h \in Goods : Inserting(h)' = Inserting(h)
    BY <1>1, <2>2 DEF Inserting, GoodsOf
  <2> QED
    BY <1>2, <2>1, <2>3 DEF Total
<1> QED
  BY <1>3, <1>4

LEMMA ReduceSale ==
    ASSUME ControlInv, SaleInv, NEW m \in Messages, ReduceStock(m)
    PROVE  SaleInv'
<1>0. PICK g \in Goods : g = GoodsOf(m)
  BY DEF ControlInv, MessagesOK, ReduceStock
<1>1. GoodsOf(m) = g /\ msg[m].pc = "reduce" /\ stock \in [Goods -> Nat] /\ req' = req
  BY <1>0 DEF ControlInv, TypeOK, ReduceStock
<1>2. UNCHANGED <<orderCache, goodsOver, orderInfo, miaoshaOrder, nextOrderId>>
  BY DEF ReduceStock, redisVars
<1>3. KeysOK' /\ CacheSound' /\ SeckillOrderBacked' /\ RepeatMeansOrdered'
  BY <1>1, <1>2 DEF SaleInv, KeysOK, CacheSound, SeckillOrderBacked, RepeatMeansOrdered,
                    HasOrder
<1>4. StockCovers'
  BY <1>2, ReduceTotal DEF SaleInv, StockCovers
<1>5. CASE Reducible(g)
  <2>1. stock' = [stock EXCEPT ![g] = @ - 1] /\ Step(m, "insert") /\ stock[g] > 0
    BY <1>0, <1>5 DEF ReduceStock, Reducible
  <2>2. /\ msg'[m].pc = "insert"
        /\ \A l \in Messages : l # m => msg'[l] = msg[l]
    BY <2>1, StepType DEF ControlInv, Consuming
  <2>3. ListenersOK'
    BY <1>1, <1>2, <2>1, <2>2
    DEF SaleInv, ListenersOK, OrderOf, SeckillOf, User, GoodsOf, ControlInv, MessagesOK
  <2>4. GoodsOverSound'
    BY <1>1, <1>2, <2>1 DEF SaleInv, GoodsOverSound, ControlInv, TypeOK
  <2> QED
    BY <1>3, <1>4, <2>3, <2>4 DEF SaleInv
<1>6. CASE ~Reducible(g)
  <2>1. stock' = stock /\ Step(m, "setOver") /\ stock[g] = 0
    BY <1>1, <1>6 DEF ReduceStock, Reducible
  <2>2. /\ msg'[m].pc = "setOver"
        /\ \A l \in Messages : l # m => msg'[l] = msg[l]
    BY <2>1, StepType DEF ControlInv, Consuming
  <2>3. ListenersOK'
    BY <1>1, <1>2, <2>1, <2>2 DEF SaleInv, ListenersOK, OrderOf, SeckillOf, User, GoodsOf
  <2>4. GoodsOverSound'
    BY <1>2, <2>1 DEF SaleInv, GoodsOverSound
  <2> QED
    BY <1>3, <1>4, <2>3, <2>4 DEF SaleInv
<1> QED
  BY <1>5, <1>6

\* The first insert: the unit moves from the listener to order_info, under a
\* key no earlier row has.
LEMMA InsertTotal ==
    ASSUME ControlInv, SaleInv, NEW m \in Messages, InsertOrder(m)
    PROVE  \A h \in Goods : Total(h)' = Total(h)
<1>0. PICK g \in Goods : g = GoodsOf(m)
  BY DEF ControlInv, MessagesOK, InsertOrder
<1>a. PICK new : new = [id |-> nextOrderId, user |-> User(m), goods |-> g]
  OBVIOUS
<1>1. /\ GoodsOf(m) = g /\ msg[m].pc = "insert" /\ req' = req
      /\ msg \in [Messages -> MessageState] /\ nextOrderId \in Nat
      /\ stock \in [Goods -> Nat]
  BY <1>0 DEF ControlInv, TypeOK, InsertOrder
<1>2. stock' = stock /\ orderInfo' = orderInfo \cup {new}
  BY <1>0, <1>a DEF InsertOrder
<1>3. msg'[m].pc = "insertMs" /\ \A l \in Messages : l # m => msg'[l] = msg[l]
  BY <1>1 DEF InsertOrder, MessageState
<1>4. new \notin orderInfo /\ new.goods = g
  BY <1>a, <1>1 DEF SaleInv, KeysOK
<1>5. OrdersOf(g)' = OrdersOf(g) \cup {new} /\ new \notin OrdersOf(g)
  BY <1>1, <1>2, <1>4 DEF OrdersOf
<1>6. Inserting(g)' = Inserting(g) \ {m} /\ m \in Inserting(g)
  BY <1>1, <1>3 DEF Inserting, GoodsOf
<1>7. \A h \in Goods : h # g => OrdersOf(h)' = OrdersOf(h) /\ Inserting(h)' = Inserting(h)
  BY <1>1, <1>2, <1>3, <1>4 DEF OrdersOf, Inserting, GoodsOf
<1>8. /\ Cardinality(OrdersOf(g)) \in Nat /\ Cardinality(Inserting(g)) \in Nat
      /\ stock[g] \in Nat
  BY <1>1, InsertingFinite, OrdersFinite DEF SaleInv, StockCovers
<1>9. Cardinality(OrdersOf(g)') = Cardinality(OrdersOf(g)) + 1
  BY <1>5, OrdersFinite, FS_AddElement DEF SaleInv, StockCovers
<1>10. Cardinality(Inserting(g)') = Cardinality(Inserting(g)) - 1
  BY <1>6, InsertingFinite, FS_RemoveElement
<1>11. Total(g)' = Total(g)
  BY <1>2, <1>8, <1>9, <1>10 DEF Total
<1> QED
  BY <1>2, <1>7, <1>11 DEF Total

LEMMA InsertSale ==
    ASSUME ControlInv, SaleInv, NEW m \in Messages, InsertOrder(m)
    PROVE  SaleInv'
<1>0. PICK g \in Goods : g = GoodsOf(m)
  BY DEF ControlInv, MessagesOK, InsertOrder
<1>a. PICK new : new = [id |-> nextOrderId, user |-> User(m), goods |-> g]
  OBVIOUS
<1>1. /\ GoodsOf(m) = g /\ User(m) \in Users /\ msg[m].pc = "insert" /\ req' = req
      /\ msg \in [Messages -> MessageState] /\ nextOrderId \in Nat
      /\ orderInfo \subseteq OrderRow /\ stock \in [Goods -> Nat]
  BY <1>0 DEF ControlInv, MessagesOK, TypeOK, InsertOrder
<1>2. /\ UNCHANGED <<orderCache, goodsOver, stock, miaoshaOrder>>
      /\ orderInfo' = orderInfo \cup {new} /\ nextOrderId' = nextOrderId + 1
  BY <1>0, <1>a DEF InsertOrder, redisVars
<1>3. /\ msg'[m].pc = "insertMs" /\ msg'[m].order = nextOrderId
      /\ \A l \in Messages : l # m => msg'[l] = msg[l]
  BY <1>1 DEF InsertOrder, GeneratedKey, MessageState
<1>4. new \notin orderInfo /\ new.goods = g
  BY <1>a, <1>1 DEF SaleInv, KeysOK
<1>5. CacheSound' /\ RepeatMeansOrdered' /\ GoodsOverSound'
  BY <1>1, <1>2 DEF SaleInv, CacheSound, RepeatMeansOrdered, HasOrder, GoodsOverSound
<1>6. SeckillOrderBacked'
  BY <1>2 DEF SaleInv, SeckillOrderBacked
<1>7. KeysOK'
  BY <1>a, <1>1, <1>2 DEF SaleInv, KeysOK, OrderRow
<1>8. ListenersOK'
  BY <1>a, <1>1, <1>2, <1>3 DEF SaleInv, ListenersOK, OrderOf, SeckillOf, User, GoodsOf
<1>9. StockCovers'
  <2>1. IsFiniteSet(orderInfo')
    BY <1>2, FS_AddElement DEF SaleInv, StockCovers
  <2> QED
    BY <2>1, InsertTotal DEF SaleInv, StockCovers
<1> QED
  BY <1>5, <1>6, <1>7, <1>8, <1>9 DEF SaleInv

\* The steps that touch neither miaosha_goods nor order_info.
LEMMA CountsKept ==
    ASSUME SaleInv, NEW m \in Messages, req' = req, stock' = stock, orderInfo' = orderInfo,
           msg[m].pc # "insert", msg'[m].pc # "insert",
           \A l \in Messages : l # m => msg'[l] = msg[l]
    PROVE  StockCovers' /\ \A h \in Goods : Total(h)' = Total(h)
<1>1. \A h \in Goods : OrdersOf(h)' = OrdersOf(h) /\ Inserting(h)' = Inserting(h)
  BY DEF OrdersOf, Inserting, GoodsOf
<1> QED
  BY <1>1 DEF SaleInv, StockCovers, Total

LEMMA InsertSeckillSale ==
    ASSUME ControlInv, SaleInv, NEW m \in Messages, InsertMiaoshaOrder(m)
    PROVE  SaleInv'
<1>1. /\ msg[m].pc = "insertMs" /\ req' = req /\ OrderOf(m) \in orderInfo
      /\ UNCHANGED <<orderCache, goodsOver, stock, orderInfo, nextOrderId>>
  BY DEF InsertMiaoshaOrder, redisVars, SaleInv, ListenersOK
<1>2. \/ /\ ~HasOrder(User(m), GoodsOf(m)) /\ Step(m, "cache")
         /\ miaoshaOrder' = miaoshaOrder \cup {SeckillOf(m)}
      \/ Step(m, "return") /\ miaoshaOrder' = miaoshaOrder
  BY DEF InsertMiaoshaOrder, DuplicateKey, SeckillOf
<1>3. /\ \/ msg'[m].pc = "return"
         \/ msg'[m].pc = "cache" /\ SeckillOf(m) \in miaoshaOrder'
      /\ msg'[m].order = msg[m].order
      /\ \A l \in Messages : l # m => msg'[l] = msg[l]
  BY <1>2, StepType DEF ControlInv, Consuming
<1>4. miaoshaOrder \subseteq miaoshaOrder'
  BY <1>2
<1>5. ListenersOK'
  BY <1>1, <1>3, <1>4 DEF SaleInv, ListenersOK, OrderOf, SeckillOf, User, GoodsOf
<1>6. KeysOK' /\ CacheSound' /\ RepeatMeansOrdered' /\ GoodsOverSound'
  BY <1>1, <1>4 DEF SaleInv, KeysOK, CacheSound, RepeatMeansOrdered, HasOrder, GoodsOverSound
<1>7. SeckillOrderBacked'
  <2>1. CASE miaoshaOrder' = miaoshaOrder
    BY <1>1, <2>1 DEF SaleInv, SeckillOrderBacked
  <2>2. CASE /\ ~HasOrder(User(m), GoodsOf(m))
             /\ miaoshaOrder' = miaoshaOrder \cup {SeckillOf(m)}
    BY <1>1, <2>2 DEF SaleInv, SeckillOrderBacked, HasOrder, SeckillOf, OrderOf
  <2> QED
    BY <1>2, <2>1, <2>2
<1>8. StockCovers'
  BY <1>1, <1>3, CountsKept
<1> QED
  BY <1>5, <1>6, <1>7, <1>8 DEF SaleInv

\* The puts into Redis: the order that was just inserted, and sold out goods.
LEMMA CacheSale ==
    ASSUME ControlInv, SaleInv, NEW m \in Messages, CacheOrder(m) \/ SetGoodsOver(m)
    PROVE  SaleInv'
<1>1. /\ msg[m].pc \in {"cache", "setOver"} /\ req' = req /\ Step(m, "return")
      /\ UNCHANGED <<stock, orderInfo, miaoshaOrder, nextOrderId>>
  BY DEF CacheOrder, SetGoodsOver, dbVars
<1>2. msg'[m].pc = "return" /\ \A l \in Messages : l # m => msg'[l] = msg[l]
  BY <1>1, StepType DEF ControlInv, Consuming
<1>3. ListenersOK'
  BY <1>1, <1>2 DEF SaleInv, ListenersOK, OrderOf, SeckillOf, User, GoodsOf
<1>4. KeysOK' /\ SeckillOrderBacked' /\ RepeatMeansOrdered'
  BY <1>1 DEF SaleInv, KeysOK, SeckillOrderBacked, RepeatMeansOrdered, HasOrder
<1>5. StockCovers'
  BY <1>1, <1>2, CountsKept
<1>6. CacheSound'
  <2>1. CASE CacheOrder(m)
    BY <1>1, <2>1 DEF CacheOrder, SaleInv, CacheSound, ListenersOK, SeckillOf
  <2>2. CASE SetGoodsOver(m)
    BY <1>1, <2>2 DEF SetGoodsOver, SaleInv, CacheSound
  <2> QED
    BY <2>1, <2>2
<1>7. GoodsOverSound'
  <2>1. CASE CacheOrder(m)
    BY <1>1, <2>1 DEF CacheOrder, SaleInv, GoodsOverSound
  <2>2. CASE SetGoodsOver(m)
    BY <1>1, <2>2 DEF SetGoodsOver, SaleInv, GoodsOverSound, ListenersOK
  <2> QED
    BY <2>1, <2>2
<1> QED
  BY <1>3, <1>4, <1>5, <1>6, <1>7 DEF SaleInv

LEMMA ListenerSale ==
    ASSUME ControlInv, SaleInv, ControlInv', NEW m \in Messages,
           Consume(m) \/ ConsumeFails(m)
    PROVE  SaleInv'
<1>1. CASE \/ \E n \in Nodes : Deliver(m, n)
           \/ ReadStock(m) \/ LookupOrder(m) \/ Reconsume(m) \/ ConsumeFails(m)
  <2>1. UNCHANGED <<dbVars, orderCache, goodsOver>> /\ req' = req
    BY <1>1 DEF Deliver, ReadStock, LookupOrder, Reconsume, ConsumeFails, redisVars
  <2>2. msg \in [Messages -> MessageState]
    BY DEF ControlInv, TypeOK
  <2>3. \A l \in Messages : l # m => msg'[l] = msg[l]
    BY <1>1, <2>2 DEF Deliver, ReadStock, LookupOrder, Reconsume, ConsumeFails, Step
  <2>4. msg'[m].pc \notin {"insert", "insertMs", "cache", "setOver"}
    BY <1>1, <2>2 DEF Deliver, ReadStock, LookupOrder, Reconsume, ConsumeFails, Step,
                      MessageState
  <2>5. RepeatMeansOrdered'
    BY <2>1 DEF SaleInv, RepeatMeansOrdered, HasOrder, dbVars
  <2> QED
    BY <2>1, <2>3, <2>4, <2>5, FrameSale
<1> QED
  BY <1>1, ReduceSale, InsertSale, InsertSeckillSale, CacheSale DEF Consume

LEMMA StutterSale == SaleInv /\ UNCHANGED vars => SaleInv'
BY DEF SaleInv, ListenersOK, OrderOf, SeckillOf, KeysOK, CacheSound, SeckillOrderBacked,
       RepeatMeansOrdered, HasOrder, GoodsOverSound, StockCovers, Total, OrdersOf, Inserting,
       User, GoodsOf, vars, nodeVars, redisVars, dbVars, bounds

LEMMA NextSale == ControlInv /\ ControlInv' /\ SaleInv /\ [Next]_vars => SaleInv'
BY NodeSale, HandlerSale, ListenerSale, StutterSale DEF Next

LEMMA SaleInvariant == Spec => []SaleInv
<1>1. Spec => []ControlInv
  BY ControlInvariant
<1> QED
  BY <1>1, InitSale, NextSale, PTL DEF Spec

-----------------------------------------------------------------------------
(* The theorems                                                            *)

\* No goods is sold more often than it was in stock, whatever requests,
\* duplicate messages, redeliveries, crashes and failed calls interleave: the
\* conditional update of GoodsMapper.reduceStock is enough.
THEOREM NeverOversells == Spec => []NoOversell
<1>1. ControlInv /\ SaleInv => NoOversell
  <2> SUFFICES ASSUME ControlInv, SaleInv, NEW g \in Goods
               PROVE  Cardinality(OrdersOf(g)) + Cardinality(Inserting(g)) <= InitStock[g]
    BY DEF NoOversell
  <2>1. /\ Cardinality(OrdersOf(g)) \in Nat /\ Cardinality(Inserting(g)) \in Nat
        /\ stock[g] \in Nat /\ InitStock[g] \in Nat
    BY InsertingFinite, OrdersFinite, ConstantsAssumption
    DEF SaleInv, StockCovers, ControlInv, TypeOK
  <2> QED
    BY <2>1 DEF SaleInv, StockCovers, Total
<1> QED
  BY <1>1, ControlInvariant, SaleInvariant, PTL

\* Every miaosha_order row that createOrder writes points at the order_info row
\* of its user and goods, and no user has two rows for the same goods.
THEOREM SeckillOrdersBacked == Spec => []SeckillOrderBacked
BY SaleInvariant, PTL DEF SaleInv

\* MiaoShaController.miaosha answers REPEATE_MIAOSHA only to a user who has a
\* miaosha_order row for the goods.
THEOREM RepeatAnswerSound == Spec => []RepeatMeansOrdered
BY SaleInvariant, PTL DEF SaleInv

\* orderServiceImpl.setGoodsOver is reached only for goods without stock, and
\* its mark stays right.
THEOREM GoodsOverMarkSound == Spec => []GoodsOverSound
BY SaleInvariant, PTL DEF SaleInv

-----------------------------------------------------------------------------
(* No unit is lost without a failure                                       *)

Alive == {n \in Nodes : nodeState[n] # "down"}

\* Every live node has booted, so that a crash leaves a boot too many for good.
UnitsInv == IsFiniteSet(Alive) /\ Cardinality(Alive) <= boots /\ UnitsAccounted

\* A step after which still nothing has failed follows a state in which nothing
\* had, and moves units around.
LEMMA QuietUnits ==
    ASSUME UnitsInv, IsFiniteSet(Alive'), Cardinality(Alive') <= boots',
           NoFailure' => NoFailure /\ \A g \in Goods : Total(g)' = Total(g)
    PROVE  UnitsInv'
<1>1. ASSUME NoFailure', NEW g \in Goods
      PROVE  Total(g)' = InitStock[g]
  BY <1>1 DEF UnitsInv, UnitsAccounted, Total
<1>2. UnitsAccounted'
  BY <1>1 DEF UnitsAccounted, Total
<1> QED
  BY <1>2 DEF UnitsInv

LEMMA NodeUnits ==
    ASSUME ControlInv, SaleInv, UnitsInv, NEW n \in Nodes, Boot(n) \/ Crash(n)
    PROVE  UnitsInv'
<1>1. /\ nodeState \in [Nodes -> {"down", "boot", "up"}] /\ boots \in Nat
      /\ IsFiniteSet(Alive) /\ Cardinality(Alive) \in Nat /\ Cardinality(Alive) <= boots
  BY FS_CardinalityType DEF ControlInv, TypeOK, UnitsInv
<1>2. CASE Boot(n)
  <2>1. UNCHANGED <<stock, orderInfo, msg, req, faults>>
    BY <1>2 DEF Boot, ListGoods, LoadStock, Serve, dbVars, bounds
  <2>2. \A g \in Goods : Total(g)' = Total(g)
    BY <2>1 DEF Total, OrdersOf, Inserting, GoodsOf
  <2>3. CASE ListGoods(n)
    <3>1. Alive' = Alive \cup {n} /\ n \notin Alive /\ boots' = boots + 1
      BY <1>1, <2>3 DEF ListGoods, Alive
    <3>2. IsFiniteSet(Alive') /\ Cardinality(Alive') = Cardinality(Alive) + 1
      BY <1>1, <3>1, FS_AddElement
    <3>3. NoFailure' => NoFailure
      BY <1>1, <2>1, <3>1, <3>2 DEF NoFailure, Alive
    <3> QED
      BY <1>1, <2>2, <3>1, <3>2, <3>3, QuietUnits
  <2>4. CASE ~ListGoods(n)
    <3>1. Alive' = Alive /\ boots' = boots
      BY <1>1, <1>2, <2>4 DEF Boot, LoadStock, Serve, Alive, bounds
    <3>2. NoFailure' => NoFailure
      BY <2>1, <3>1 DEF NoFailure, Alive
    <3> QED
      BY <1>1, <2>2, <3>1, <3>2, QuietUnits
  <2> QED
    BY <2>3, <2>4
<1>3. CASE Crash(n)
  <2>1. Alive' = Alive \ {n} /\ n \in Alive /\ boots' = boots
    BY <1>1, <1>3 DEF Crash, Alive, bounds
  <2>2. IsFiniteSet(Alive') /\ Cardinality(Alive') = Cardinality(Alive) - 1
    BY <1>1, <2>1, FS_RemoveElement
  <2>3. ~NoFailure'
    BY <1>1, <2>1, <2>2 DEF NoFailure, Alive
  <2> QED
    BY <1>1, <2>1, <2>2, <2>3, QuietUnits
<1> QED
  BY <1>2, <1>3

\* What a handler sends was not with a listener before.
LEMMA HandlerUnits ==
    ASSUME ControlInv, SaleInv, UnitsInv, NEW r \in Requests,
           \/ \E n \in Nodes, u \in Users \cup {None}, g \in GoodsIds : Arrive(r, n, u, g)
           \/ Handle(r) \/ SendFails(r) \/ HandlerFails(r)
    PROVE  UnitsInv'
<1>1. UNCHANGED <<nodeState, boots, stock, orderInfo>> /\ faults' \in {faults, faults + 1}
  BY DEF Arrive, Handle, DecrementStock, MarkOver, CheckOver, CheckOrdered,
         SendMiaoshaMessage, SendFails, HandlerFails, dbVars, nodeVars, bounds
<1>2. /\ req \in [Requests -> RequestState] /\ msg \in [Messages -> MessageState]
      /\ faults \in Nat
  BY DEF ControlInv, TypeOK
<1>3. \A s \in Requests : s # r => req'[s] = req[s]
  BY <1>2 DEF Arrive, Handle, DecrementStock, MarkOver, CheckOver, CheckOrdered,
         SendMiaoshaMessage, SendFails, HandlerFails, Goto
<1>4. req[r].pc \in {"new"} \cup Handling
  BY DEF Arrive, Handle, DecrementStock, MarkOver, CheckOver, CheckOrdered,
         SendMiaoshaMessage, SendFails, HandlerFails, Handling
<1>5. \A m \in Messages : m[1] = r => msg[m].pc = "unsent"
  BY <1>4, MessageParts DEF ControlInv, MessagesOK, Handling
<1>6. \A m \in Messages : IF m[1] = r THEN msg'[m].pc \in {"unsent", "queued"}
                                      ELSE msg'[m] = msg[m]
  <2>1. CASE SendMiaoshaMessage(r) \/ SendFails(r)
    <3>1. \A m \in Messages :
            \/ msg'[m] = msg[m]
            \/ m[1] = r /\ msg'[m] = [msg[m] EXCEPT !.pc = "queued"]
      BY <2>1 DEF SendMiaoshaMessage, SendFails
    <3> QED
      BY <1>2, <1>5, <3>1 DEF MessageState
  <2>2. CASE ~(SendMiaoshaMessage(r) \/ SendFails(r))
    <3>1. msg' = msg
      BY <2>2 DEF Arrive, Handle, DecrementStock, MarkOver, CheckOver, CheckOrdered,
                  HandlerFails
    <3> QED
      BY <1>5, <3>1
  <2> QED
    BY <2>1, <2>2
<1>7. \A g \in Goods : Inserting(g)' = Inserting(g) /\ OrdersOf(g)' = OrdersOf(g)
  BY <1>1, <1>3, <1>5, <1>6, MessageParts DEF Inserting, OrdersOf, GoodsOf
<1>8. \A g \in Goods : Total(g)' = Total(g)
  BY <1>1, <1>7 DEF Total
<1>9. NoFailure' => NoFailure
  BY <1>1, <1>2 DEF NoFailure
<1>10. Alive' = Alive
  BY <1>1 DEF Alive
<1> QED
  BY <1>1, <1>8, <1>9, <1>10, QuietUnits DEF UnitsInv

LEMMA ListenerUnits ==
    ASSUME ControlInv, SaleInv, UnitsInv, NEW m \in Messages, Consume(m) \/ ConsumeFails(m)
    PROVE  UnitsInv'
<1>1. /\ UNCHANGED <<nodeState, boots>> /\ faults' = IF ConsumeFails(m) THEN faults + 1 ELSE faults
      /\ faults \in Nat
  BY DEF Consume, ConsumeFails, Deliver, ReadStock, LookupOrder, ReduceStock, SetGoodsOver,
         InsertOrder, InsertMiaoshaOrder, CacheOrder, Reconsume, nodeVars, bounds,
         ControlInv, TypeOK
<1>2. ASSUME ~ConsumeFails(m)
      PROVE  \A g \in Goods : Total(g)' = Total(g)
  <2>1. CASE ReduceStock(m) \/ InsertOrder(m)
    BY <2>1, ReduceTotal, InsertTotal
  <2>2. CASE ~(ReduceStock(m) \/ InsertOrder(m))
    <3>1. msg \in [Messages -> MessageState]
      BY DEF ControlInv, TypeOK
    <3>2. req' = req /\ stock' = stock /\ orderInfo' = orderInfo /\ msg[m].pc # "insert"
      BY <1>2, <2>2 DEF Consume, Deliver, ReadStock, LookupOrder, SetGoodsOver,
         InsertMiaoshaOrder, CacheOrder, Reconsume, dbVars
    <3>3. msg'[m].pc # "insert" /\ \A l \in Messages : l # m => msg'[l] = msg[l]
      BY <1>2, <2>2, <3>1 DEF Consume, Deliver, ReadStock, LookupOrder, SetGoodsOver,
         InsertMiaoshaOrder, CacheOrder, Reconsume, Step, MessageState
    <3> QED
      BY <3>2, <3>3, CountsKept
  <2> QED
    BY <2>1, <2>2
<1>3. NoFailure' => NoFailure /\ ~ConsumeFails(m)
  BY <1>1 DEF NoFailure
<1>4. Alive' = Alive
  BY <1>1 DEF Alive
<1> QED
  BY <1>1, <1>2, <1>3, <1>4, QuietUnits DEF UnitsInv

LEMMA UnitsInvariant == Spec => []UnitsInv
<1>1. Init => UnitsInv
  <2> SUFFICES ASSUME Init PROVE UnitsInv
    OBVIOUS
  <2>1. Alive = {} /\ boots = 0 /\ stock = InitStock
    BY DEF Init, Alive
  <2>2. \A g \in Goods : OrdersOf(g) = {} /\ Inserting(g) = {} /\ InitStock[g] \in Nat
    BY ConstantsAssumption DEF Init, OrdersOf, Inserting
  <2>3. IsFiniteSet(Alive) /\ Cardinality(Alive) = 0
    BY <2>1, FS_EmptySet
  <2>4. \A g \in Goods : Cardinality(OrdersOf(g)) = 0 /\ Cardinality(Inserting(g)) = 0
    BY <2>2, FS_EmptySet
  <2>5. UnitsAccounted
    BY <2>1, <2>2, <2>4 DEF UnitsAccounted
  <2> QED
    BY <2>1, <2>3, <2>5 DEF UnitsInv
<1>2. ControlInv /\ SaleInv /\ UnitsInv /\ [Next]_vars => UnitsInv'
  <2> SUFFICES ASSUME ControlInv, SaleInv, UnitsInv, [Next]_vars PROVE UnitsInv'
    OBVIOUS
  <2>1. CASE UNCHANGED vars
    BY <2>1 DEF UnitsInv, UnitsAccounted, NoFailure, Alive, OrdersOf, Inserting, GoodsOf,
                vars, nodeVars, redisVars, dbVars, bounds
  <2> QED
    BY <2>1, NodeUnits, HandlerUnits, ListenerUnits DEF Next
<1> QED
  BY <1>1, <1>2, ControlInvariant, SaleInvariant, PTL DEF Spec

\* As long as no call failed and no node died, every unit that reduceStock took
\* from miaosha_goods is an order_info row or about to become one, although the
\* messages of one user race and createOrder is not a transaction.
THEOREM UnitsAllAccounted == Spec => []UnitsAccounted
BY UnitsInvariant, PTL DEF UnitsInv
=============================================================================
