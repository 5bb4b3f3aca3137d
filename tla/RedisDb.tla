------------------------------- MODULE RedisDb -------------------------------
(***************************************************************************)
(* The keyspace of a Redis server (db.c, expire.c): the dictionary of every *)
(* database with its deadlines, and the commands that work on keys of any   *)
(* type.                                                                    *)
(*                                                                          *)
(* A command is a record: "op" is its name, "db" the database its client    *)
(* has selected, and the other fields are its arguments.  Running one is a  *)
(* function of a call x, which holds what the handler reads and leaves:     *)
(*   db        the databases: an entry or None at every place              *)
(*   now, role the clock, and whether the server is a "master", a "slave"   *)
(*             applying its master's stream, or "loading" its AOF           *)
(*   argv      the command, which a handler may rewrite                     *)
(*   dirty     whether server.dirty was incremented                         *)
(*   touched   the places given to signalModifiedKey                        *)
(*   added     the lists that dbAdd made appear, in order                   *)
(*   before    what was propagated while the handler ran (expired keys)     *)
(*   also      what alsoPropagate scheduled                                 *)
(*   prevented preventCommandPropagation was called                         *)
(*   reply     the answer, where a property looks at it                     *)
(* An entry is a typed value with a deadline; a string is a sequence of     *)
(* bytes, a list a sequence, a set a set, a hash and a sorted set functions *)
(* of strings to strings and to scores.                                     *)
(***************************************************************************)
EXTENDS Integers, SequencesExt

CONSTANTS
    Db,     \* the databases, 0 .. dbnum - 1
    Key,    \* the keys
    None    \* no entry, no answer

Place == Db \X Key
NoExpire == -1
Empty == [p \in Place |-> None]

Begin(data, now, role, c) ==
    [db |-> data, now |-> now, role |-> role, argv |-> c, dirty |-> FALSE,
     touched |-> {}, added |-> <<>>, before |-> <<>>, also |-> <<>>,
     prevented |-> FALSE, reply |-> None]

At(x, k) == <<x.argv.db, k>>
Has(x, p) == x.db[p] # None
Val(x, p) == x.db[p].val
Is(x, p, type) == Has(x, p) /\ x.db[p].type = type
WrongType(x, p, type) == Has(x, p) /\ x.db[p].type # type

Reply(x, r) == [x EXCEPT !.reply = r]
Touch(x, p) == [x EXCEPT !.touched = @ \cup {p}]
Dirty(x) == [x EXCEPT !.dirty = TRUE]

\* signalModifiedKey and server.dirty++, with which most handlers end.
Modified(x, p) == Dirty(Touch(x, p))

dbDelete(x, p) == [x EXCEPT !.db[p] = None]

dbAdd(x, p, type, val) ==
    [x EXCEPT !.db[p] = [type |-> type, val |-> val, when |-> NoExpire],
              !.added = IF type = "list" THEN Append(@, p) ELSE @]

\* The value is replaced and the deadline stays.
dbOverwrite(x, p, type, val) ==
    [x EXCEPT !.db[p] = [type |-> type, val |-> val, when |-> @.when]]

setExpire(x, p, when) == [x EXCEPT !.db[p].when = when]
removeExpire(x, p) == setExpire(x, p, NoExpire)

DelCommand(p) == [op |-> "DEL", db |-> p[1], keys |-> <<p[2]>>]

Expired(x, p) == Has(x, p) /\ x.db[p].when # NoExpire /\ x.now > x.db[p].when

\* Mutant: a slave deletes the expired keys it meets itself.
expireIfNeededAnywhere(x, p) ==
    IF x.role # "loading" /\ Expired(x, p)
    THEN [dbDelete(x, p) EXCEPT !.before = Append(@, DelCommand(p))]
    ELSE x

\* A master deletes an expired key and tells AOF and slaves at once; a slave
\* waits for that DEL, and a server that loads its AOF leaves keys alone.
expireIfNeeded(x, p) ==
    IF x.role = "master" /\ Expired(x, p)
    THEN [dbDelete(x, p) EXCEPT !.before = Append(@, DelCommand(p))]
    ELSE x

\* What the commands of clients on a master, of the master on a slave and of
\* the AOF do before they use a key.
lookupKeyWrite(x, p) == expireIfNeeded(x, p)
lookupAll(x, ps) == FoldLeft(lookupKeyWrite, x, ps)
Missing(x, p) == ~Has(lookupKeyWrite(x, p), p)

\* A command of many keys looks them up in turn and stops at one of a wrong
\* type: the call then, and whether it got through.
TypedOrNot(x, p, types) == [x |-> x, ok |-> Has(x, p) => x.db[p].type \in types]
lookupTyped(x0, ps, types) ==
    FoldLeft(LAMBDA r, p : IF r.ok THEN TypedOrNot(lookupKeyWrite(r.x, p), p, types) ELSE r,
             [x |-> x0, ok |-> TRUE], ps)
PlacesOf(x, keys) == [i \in DOMAIN keys |-> At(x, keys[i])]

SetKeyOn(x, p, type, val) ==
    Touch(removeExpire(IF Has(x, p) THEN dbOverwrite(x, p, type, val)
                                    ELSE dbAdd(x, p, type, val), p), p)
setKey(x, p, type, val) == SetKeyOn(lookupKeyWrite(x, p), p, type, val)

\* The new value of an aggregate: the key goes with its last element.
SizeOf(type, val) == IF type = "list" THEN Len(val)
                     ELSE IF type = "set" THEN Cardinality(val) ELSE Cardinality(DOMAIN val)
Put(x, p, type, val) ==
    IF ~Has(x, p) THEN dbAdd(x, p, type, val)
    ELSE IF SizeOf(type, val) = 0 THEN dbDelete(x, p)
    ELSE dbOverwrite(x, p, type, val)

(* ---- keys of any type ---- *)

\* DEL and UNLINK key ...
delGenericCommand(x0) ==
    LET one(x1, k) ==
          LET p == At(x1, k)  x == expireIfNeeded(x1, p) IN
          IF Has(x, p) THEN Modified(dbDelete(x, p), p) ELSE x
    IN FoldLeft(one, x0, x0.argv.keys)

\* EXPIRE, PEXPIRE (at = FALSE), EXPIREAT and PEXPIREAT (at = TRUE).
expireGenericCommand(x, c, p) ==
    LET when == IF c.at THEN c.time ELSE x.now + c.time
    IN CASE ~Has(x, p) -> x
         [] Has(x, p) /\ when <= x.now /\ x.role = "master" ->
              [Modified(dbDelete(x, p), p) EXCEPT !.argv = DelCommand(p)]
         [] OTHER -> Modified(setExpire(x, p, when), p)

persistCommand(x, c, p) ==
    IF Has(x, p) /\ x.db[p].when # NoExpire THEN Dirty(removeExpire(x, p)) ELSE x

\* RENAME and RENAMENX (nx = TRUE).
RenameTo(x, c, src, dst, o) ==
    IF c.nx /\ Has(x, dst) THEN x
    ELSE Modified(Touch(dbDelete([dbAdd(dbDelete(x, dst), dst, o.type, o.val) EXCEPT !.db[dst].when = o.when],
                                 src), src), dst)
renameGenericCommand(x, c, src) ==
    IF ~Has(x, src) \/ c.key = c.dst THEN x
    ELSE RenameTo(lookupKeyWrite(x, At(x, c.dst)), c, src, At(x, c.dst), x.db[src])

MoveTo(x, src, dst, o) ==
    IF Has(x, dst) THEN x
    ELSE Dirty(dbDelete([dbAdd(x, dst, o.type, o.val) EXCEPT !.db[dst].when = o.when], src))
moveCommand(x0, c, src) ==
    LET x == lookupKeyWrite(x0, src)
        dst == <<c.to, c.key>>
    IN IF src = dst THEN x0
       ELSE IF ~Has(x, src) THEN x
       ELSE MoveTo(lookupKeyWrite(x, dst), src, dst, x.db[src])

\* Blocked clients are looked for in both databases: every list counts as new.
swapdbCommand(x) ==
    LET other(i) == CASE i = x.argv.a -> x.argv.b [] i = x.argv.b -> x.argv.a [] OTHER -> i
        db == [p \in Place |-> x.db[<<other(p[1]), p[2]>>]]
        lists == {p \in Place : p[1] \in {x.argv.a, x.argv.b} /\ db[p] # None /\ db[p].type = "list"}
    IN Dirty([x EXCEPT !.db = db,
                       !.added = IF x.argv.a = x.argv.b THEN @ ELSE @ \o SetToSeq(lists)])

\* FLUSHDB (all = FALSE) and FLUSHALL: the watchers of keys that exist are told.
flushCommand(x) ==
    LET gone == {p \in Place : (x.argv.all \/ p[1] = x.argv.db) /\ x.db[p] # None}
        y == [x EXCEPT !.db = [p \in Place |-> IF p \in gone THEN None ELSE @[p]],
                       !.touched = @ \cup gone]
    IN IF gone # {} \/ x.argv.all THEN Dirty(y) ELSE y

\* EXISTS and TOUCH key ...
existsCommand(x0) ==
    LET one(x1, k) == LET x == lookupKeyWrite(x1, At(x1, k)) IN
                      IF Has(x, At(x, k)) THEN Reply(x, x.reply + 1) ELSE x
    IN FoldLeft(one, Reply(x0, 0), x0.argv.keys)

\* TTL and PTTL: -2 without the key, -1 without a deadline.
ttlGenericCommand(x, c, p) ==
    Reply(x, CASE ~Has(x, p) -> -2
               [] Has(x, p) /\ x.db[p].when = NoExpire -> -1
               [] OTHER -> IF x.db[p].when < x.now THEN 0 ELSE x.db[p].when - x.now)

\* RANDOMKEY: the keys drawn before the one returned had expired.
randomkeyCommand(x0) ==
    LET x == lookupAll(x0, SetToSeq({p \in Place : p[1] = x0.argv.db /\ Expired(x0, p) /\ p[2] \in x0.argv.drawn}))
    IN Reply(x, {p[2] : p \in {q \in Place : q[1] = x0.argv.db /\ Has(x, q)}})
=============================================================================
