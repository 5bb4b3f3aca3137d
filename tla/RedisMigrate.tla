----------------------------- MODULE RedisMigrate -----------------------------
(***************************************************************************)
(* MIGRATE (cluster.c): keys sent to another instance over a connection     *)
(* that is kept for the next time, and a slot of a cluster that moves from  *)
(* one node to another with it while clients are redirected.  A database is *)
(* a value for each key, 0 for no key.                                      *)
(***************************************************************************)
EXTENDS Integers, SequencesExt, FiniteSetsExt

Keys == {1, 2}
NoKey == [k \in Keys |-> 0]

(* ---- MIGRATE ---- *)

\* The connection to the target: whether it is in the cache, whether the
\* target still has its end, what the target has selected on it, and what the
\* source believes is selected.
NoSocket == [cached |-> FALSE, alive |-> FALSE, db |-> 0, last_dbid |-> -1]
migrateGetSocket(sock) == IF sock.cached THEN sock ELSE [cached |-> TRUE, alive |-> TRUE, db |-> 0, last_dbid |-> -1]
migrateCloseSocket(sock) == NoSocket
migrateCloseTimedoutSockets(sock) == NoSocket

\* What the target does with the commands of one MIGRATE, and its replies.
\* It "accepts" a key unless it redirects it.
restoreCommand(db, k, v, replace) == IF db[k] # 0 /\ ~replace THEN db ELSE [db EXCEPT ![k] = v]
Busy(db, k, replace, accepts) == ~accepts \/ (db[k] # 0 /\ ~replace)
Process(t, cmd, replace, accepts) ==
    CASE cmd.name = "select" -> [t EXCEPT !.db = cmd.db, !.replies = Append(@, "ok")]
      [] cmd.name = "restore" ->
           [t EXCEPT !.dbs[t.db] = IF accepts THEN restoreCommand(@, cmd.key, cmd.val, replace) ELSE @,
                     !.replies = Append(@, IF Busy(t.dbs[t.db], cmd.key, replace, accepts) THEN "error" ELSE "ok")]

\* One attempt.  The network lets the target process the first "done" of the
\* commands and the source read the first "read" of the replies; a connection
\* that the target has closed carries nothing.
NoFault == [connect |-> TRUE, done |-> 9, read |-> 9, timeout |-> FALSE]
Commands(m, job, keys, sock) ==
    (IF sock.last_dbid # job.dbid THEN <<[name |-> "select", db |-> job.dbid]>> ELSE <<>>) \o
    [i \in DOMAIN keys |-> [name |-> "restore", key |-> keys[i], val |-> m.src[keys[i]]]]
Carried(m, job, sock, cmds) ==
    FoldLeft(LAMBDA s, cmd : Process(s, cmd, job.replace, job.accepts),
             [db |-> sock.db, dbs |-> m.dst, replies |-> <<>>], cmds)
\* j replies of keys were read, after those "before" them; the source deletes
\* what was acknowledged and tells its slaves so.
Acknowledged(m, job, keys, net, sock, t, before, j) ==
    LET gone == IF job.copy THEN {} ELSE {keys[i] : i \in {n \in 1..j : t.replies[n + before] = "ok"}}
        failed == j < Len(keys)
        refused == \E i \in 1..j : t.replies[i + before] = "error"
        Without(db) == [k \in Keys |-> IF k \in gone THEN 0 ELSE db[k]]
    IN [m |-> [m EXCEPT !.dst = t.dbs, !.src = Without(@), !.replica = Without(@),
                        !.sock = IF failed THEN migrateCloseSocket(sock)
                                 ELSE [sock EXCEPT !.db = t.db, !.last_dbid = IF refused THEN -1 ELSE job.dbid]],
        reply |-> IF refused THEN "error"
                  ELSE IF ~failed THEN "ok"
                  ELSE IF j = 0 /\ ~net.timeout THEN "retry" ELSE "ioerr"]
Answered(m, job, keys, net, sock, done, t) ==
    LET before == IF sock.last_dbid # job.dbid THEN 1 ELSE 0 IN
    Acknowledged(m, job, keys, net, sock, t, before, Max({0, Min({net.read, done}) - before}))
Sent(m, job, keys, net, sock, cmds) ==
    LET done == IF sock.alive THEN Min({net.done, Len(cmds)}) ELSE 0 IN
    Answered(m, job, keys, net, sock, done, Carried(m, job, sock, SubSeq(cmds, 1, done)))
Connected(m, job, keys, net, sock) == Sent(m, job, keys, net, sock, Commands(m, job, keys, sock))
Attempt(m, job, keys, net) ==
    IF ~net.connect /\ ~m.sock.cached THEN [m |-> m, reply |-> "ioerr"]
    ELSE Connected(m, job, keys, net, migrateGetSocket(m.sock))
\* A job is [keys, dbid, copy, replace, accepts].  Only a connection that broke
\* before the first reply is tried again, once.
LastReply(twice) == [twice EXCEPT !.reply = IF @ = "retry" THEN "ioerr" ELSE @]
Retried(once, job, keys, second) ==
    IF once.reply # "retry" THEN once ELSE LastReply(Attempt(once.m, job, keys, second))
migrateKeys(m, job, keys, first, second) ==
    IF keys = <<>> THEN [m |-> m, reply |-> "nokey"]
    ELSE Retried(Attempt(m, job, keys, first), job, keys, second)
migrateCommand(m, job, first, second) ==
    migrateKeys(m, job, SelectSeq(job.keys, LAMBDA k : m.src[k] # 0), first, second)

(* ---- a slot that moves ---- *)

Node == {1, 2}
Other(n) == 3 - n
\* How a node sees the slot; its keys and those of its slave.
NewNode == [owner |-> 1, migrating |-> 0, importing |-> 0, db |-> NoKey, replica |-> NoKey]
\* The operator's program: the move under way, its step, the nodes it has not
\* told of the new owner yet.  A client: its request, the node it turns to.
NewSlot == [node |-> [n \in Node |-> NewNode], newest |-> 1, sock |-> [n \in Node |-> NoSocket],
            trib |-> [pc |-> "idle", from |-> 1, fix |-> FALSE, todo |-> {}],
            client |-> [request |-> <<>>, at |-> 1, asking |-> FALSE, answer |-> NoKey]]

countKeysInSlot(node) == Cardinality({k \in Keys : node.db[k] # 0})

\* Which node serves these keys, as "me" sees it.  The cluster is up, and no
\* slave serves reads.
getNodeByQuery(node, me, migrate, keys, asking) ==
    LET n == node.owner
        migrating == n = me /\ node.migrating # 0
        importing == ~migrating /\ node.importing # 0
        missing == \E k \in keys : node.db[k] = 0
        multiple == Cardinality(keys) > 1
    IN CASE (migrating \/ importing) /\ migrate -> [code |-> "none", node |-> me]
         [] migrating /\ missing -> [code |-> "ask", node |-> node.migrating]
         [] importing /\ asking /\ multiple /\ missing -> [code |-> "unstable", node |-> me]
         [] importing /\ asking -> [code |-> "none", node |-> me]
         [] OTHER -> [code |-> IF n = me THEN "none" ELSE "moved", node |-> n]

\* SETSLOT IMPORTING, MIGRATING, STABLE and NODE; what is refused raises an
\* error in the operator's program.
setslotImporting(node, me, n) == [ok |-> node.owner # me, node |-> [node EXCEPT !.importing = n]]
setslotMigrating(node, me, n) == [ok |-> node.owner = me, node |-> [node EXCEPT !.migrating = n]]
setslotStable(node) == [node EXCEPT !.importing = 0, !.migrating = 0]
setslotNode(node, me, n) ==
    [ok |-> ~(node.owner = me /\ n # me /\ countKeysInSlot(node) # 0),
     bump |-> n = me /\ node.importing # 0,
     node |-> [node EXCEPT !.owner = n, !.migrating = IF countKeysInSlot(node) = 0 THEN 0 ELSE @,
                           !.importing = IF n = me THEN 0 ELSE @]]

\* A node hears the claim of the other one.
clusterUpdateSlotsConfigWith(node, me, sender, newer) ==
    LET lost == node.owner = me
        rebinds == node.owner # sender /\ node.importing = 0 /\ newer
    IN IF ~rebinds THEN node
       ELSE [node EXCEPT !.owner = sender, !.db = IF lost THEN NoKey ELSE @, !.replica = IF lost THEN NoKey ELSE @]

\* The client's request at the node it has turned to.
clusterRedirectClient(client, route) ==
    CASE route.code = "ask" -> [client EXCEPT !.at = route.node, !.asking = TRUE]
      [] route.code = "moved" -> [client EXCEPT !.at = route.node, !.asking = FALSE]
      [] route.code = "unstable" -> [client EXCEPT !.asking = FALSE]
Served(r) ==
    LET c == r.client
        Write(db) == [k \in Keys |-> IF k \in c.request[2] /\ c.request[1] # "get" THEN c.request[3] ELSE db[k]]
        reads == c.request[1] = "get"
    IN [r EXCEPT !.node[c.at].db = Write(@), !.node[c.at].replica = Write(@),
                 !.client = [@ EXCEPT !.request = <<>>, !.asking = FALSE,
                                      !.answer = IF reads THEN [k \in Keys |-> IF k \in c.request[2] THEN r.node[c.at].db[k] ELSE 0]
                                                 ELSE @]]
Request(r) ==
    LET c == r.client
        route == getNodeByQuery(r.node[c.at], c.at, FALSE, c.request[2], c.asking)
    IN IF route.code = "none" THEN Served(r) ELSE [r EXCEPT !.client = clusterRedirectClient(c, route)]

\* One step of the operator's program (redis-trib): the slot is opened at both
\* ends, its keys are moved, every node is told.  "net" is for MIGRATE.
Told(r, n, to) ==
    LET s == setslotNode(r.node[n], n, to) IN
    [r EXCEPT !.node[n] = IF s.ok THEN s.node ELSE @, !.newest = IF s.ok /\ s.bump THEN n ELSE @,
              !.trib.todo = @ \ {n}, !.trib.pc = IF ~s.ok THEN "failed" ELSE IF r.trib.todo = {n} THEN "idle" ELSE @]
Moved(r, s, from, to, replace) ==
    [r EXCEPT !.node[from].db = s.m.src, !.node[from].replica = s.m.replica, !.node[to].db = s.m.dst[1],
              !.node[to].replica = s.m.dst[1], !.sock[from] = s.m.sock,
              !.trib.pc = CASE s.reply \in {"ok", "nokey"} -> "keys"
                            [] s.reply = "error" /\ r.trib.fix /\ ~replace -> "replace"
                            [] OTHER -> "failed"]
MoveKeys(r, first, second, replace) ==
    LET from == r.trib.from
        to == Other(from)
        src == r.node[from]
        accepts == getNodeByQuery(r.node[to], to, FALSE, {1}, TRUE).code = "none"
    IN Moved(r, migrateCommand([src |-> src.db, dst |-> <<r.node[to].db>>, replica |-> src.replica, sock |-> r.sock[from]],
                               [keys |-> SetToSeq(Keys), dbid |-> 1, copy |-> FALSE, replace |-> replace, accepts |-> accepts],
                               first, second), from, to, replace)
moveSlot(r, first, second) ==
    LET from == r.trib.from
        to == Other(from)
        Opened(n, s, pc) == [r EXCEPT !.node[n] = IF s.ok THEN s.node ELSE @, !.trib.pc = IF s.ok THEN pc ELSE "failed"]
    IN CASE r.trib.pc = "importing" -> Opened(to, setslotImporting(r.node[to], to, from), "migrating")
         [] r.trib.pc = "migrating" -> Opened(from, setslotMigrating(r.node[from], from, to), "keys")
         [] r.trib.pc = "keys" /\ countKeysInSlot(r.node[from]) = 0 -> [r EXCEPT !.trib.pc = "nodes", !.trib.todo = Node]
         [] OTHER -> MoveKeys(r, first, second, r.trib.pc = "replace")
\* What it does about a slot that a move which failed has left open.
fixOpenSlot(r) ==
    LET migrating == {n \in Node : r.node[n].migrating # 0}
        importing == {n \in Node : r.node[n].migrating = 0 /\ r.node[n].importing # 0}
        owned == \E n \in Node : r.node[n].owner = n /\ r.node[Other(n)].owner # Other(n)
        Stable(n) == [r EXCEPT !.node[n] = setslotStable(@), !.trib.pc = "idle"]
    IN CASE ~owned -> r
         [] \E n \in Node : migrating = {n} /\ importing = {Other(n)} ->
              [r EXCEPT !.trib = [pc |-> "importing", from |-> CHOOSE n \in migrating : TRUE, fix |-> TRUE, todo |-> {}]]
         [] \E n \in Node : migrating = {} /\ importing = {n} /\ countKeysInSlot(r.node[n]) = 0 ->
              Stable(CHOOSE n \in importing : TRUE)
         [] \E n \in Node : migrating = {n} /\ importing = {} /\ countKeysInSlot(r.node[n]) = 0 ->
              Stable(CHOOSE n \in migrating : TRUE)
         [] OTHER -> r

\* What the clients see: the keys of the slot, wherever they are.
SlotData(r) == LET src == r.node[r.trib.from]
                   dst == r.node[Other(r.trib.from)]
               IN [k \in Keys |-> IF src.db[k] # 0 THEN src.db[k] ELSE dst.db[k]]
\* The copies at the target of keys that the source still has.
Spare(r) == [k \in Keys |-> IF r.node[r.trib.from].db[k] # 0 THEN r.node[Other(r.trib.from)].db[k] ELSE 0]

(* ---- which arguments of a command are keys (db.c) ---- *)

\* A node of a cluster sends a command to where its keys are, so it has to
\* know them before the command is parsed: by the positions in the command
\* table, or by a function of the command.  Arguments are words, numbered
\* from 0 as in the code.
Arg(argv, i) == argv[i + 1]
atoi(word) == CASE word = "0" -> 0 [] word = "1" -> 1 [] word = "2" -> 2 [] word = "3" -> 3 [] OTHER -> 0

\* The command table: where the first and the last key are, and the step; the
\* last is counted from the end when negative.
CommandTable(name) ==
    CASE name \in {"get", "set", "incr"} -> [first |-> 1, last |-> 1, step |-> 1]
      [] name \in {"del", "mget", "watch", "sunion"} -> [first |-> 1, last |-> -1, step |-> 1]
      [] name \in {"mset", "msetnx"} -> [first |-> 1, last |-> -1, step |-> 2]
      [] name \in {"blpop", "brpop"} -> [first |-> 1, last |-> -2, step |-> 1]
      [] name \in {"rename", "smove", "brpoplpush"} -> [first |-> 1, last |-> 2, step |-> 1]
      [] name = "object" -> [first |-> 2, last |-> 2, step |-> 2]
      [] name = "bitop" -> [first |-> 2, last |-> -1, step |-> 1]
      [] OTHER -> [first |-> 0, last |-> 0, step |-> 0]

getKeysUsingCommandTable(argv) ==
    LET cmd == CommandTable(Arg(argv, 0))
        last == IF cmd.last < 0 THEN Len(argv) + cmd.last ELSE cmd.last
        at == {j \in cmd.first..last : (j - cmd.first) % cmd.step = 0}
    IN IF cmd.first = 0 THEN {}
       ELSE IF \E j \in at : j >= Len(argv) THEN {} ELSE at

Counted(argv) == LET num == atoi(Arg(argv, 2)) IN IF num > Len(argv) - 3 THEN {} ELSE 3..(num + 2)
zunionInterGetKeys(argv) == IF atoi(Arg(argv, 2)) > Len(argv) - 3 THEN {} ELSE Counted(argv) \cup {1}
evalGetKeys(argv) == Counted(argv)

\* The last STORE, options with their arguments passed over.
sortGetKeys(argv) ==
    LET RECURSIVE Go(_, _)
        Go(i, store) ==
            IF i >= Len(argv) THEN store
            ELSE CASE Arg(argv, i) = "limit" -> Go(i + 3, store)
                   [] Arg(argv, i) \in {"get", "by"} -> Go(i + 2, store)
                   [] Arg(argv, i) = "store" /\ i + 1 < Len(argv) -> Go(i + 1, {i + 1})
                   [] OTHER -> Go(i + 1, store)
    IN {1} \cup Go(2, {})

\* One key, or all arguments behind KEYS if that one is empty.
migrateGetKeys(argv) ==
    LET at == {i \in 6..(Len(argv) - 1) : Arg(argv, i) = "keys" /\ Arg(argv, 3) = ""} IN
    IF at = {} THEN {3} ELSE (Min(at) + 1)..(Len(argv) - 1)

georadiusGetKeys(argv) ==
    LET RECURSIVE Go(_, _)
        Go(i, stored) ==
            IF i >= Len(argv) THEN stored
            ELSE IF Arg(argv, i) \in {"store", "storedist"} /\ i + 1 < Len(argv) THEN Go(i + 2, {i + 1})
            ELSE Go(i + 1, stored)
    IN {1} \cup Go(5, {})

\* The positions of the keys.
getKeysFromCommand(argv) ==
    LET name == Arg(argv, 0) IN
    CASE name \in {"zunionstore", "zinterstore"} -> zunionInterGetKeys(argv)
      [] name \in {"eval", "evalsha"} -> evalGetKeys(argv)
      [] name = "sort" -> sortGetKeys(argv)
      [] name = "migrate" -> migrateGetKeys(argv)
      [] name \in {"georadius", "georadiusbymember"} -> georadiusGetKeys(argv)
      [] OTHER -> getKeysUsingCommandTable(argv)
=============================================================================
