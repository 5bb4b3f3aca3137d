----------------------------- MODULE RedisKeyspace -----------------------------
(***************************************************************************)
(* A master with its append only file and one slave: clients run commands,  *)
(* keys expire and are evicted, and the commands propagated wait in the     *)
(* link to the slave.  The commands that clients use are those of one       *)
(* theme, chosen at the start.                                              *)
(***************************************************************************)
EXTENDS RedisServer

CONSTANTS
    Theme,      \* names of sets of commands
    Commands,   \* the commands of every theme
    MaxClock,   \* bound: the last instant
    MaxList,    \* bound: the length of a list
    FloatsOnVolatile    \* whether INCRBYFLOAT is used on keys with a deadline

VARIABLES
    theme,      \* the theme of this behaviour
    db,         \* server.db of the master
    clock,      \* mstime()
    stream,     \* commands propagated that the slave has not received
    replica,    \* server.db of the slave
    aof,        \* the data that a replay of the append only file gives
    relative    \* whether RESTORE has put a time to live into the file

vars == <<theme, db, clock, stream, replica, aof, relative>>

\* When the append only file is replayed: after the last instant.
LoadTime == MaxClock + 1

Init ==
    /\ theme \in Theme
    /\ db = Empty /\ replica = Empty /\ aof = Empty
    /\ clock = 0
    /\ stream = <<>> /\ relative = FALSE

propagate(cs) ==
    /\ stream' = stream \o cs
    /\ aof' = Appended(aof, clock, LoadTime, cs)
    /\ relative' = (relative \/ \E i \in DOMAIN cs : cs[i].op = "RESTORE" /\ cs[i].ttl > 0)

\* Bound: the next command waits until the slave has received the last one.
Idle == stream = <<>>

Allowed(c) ==
    /\ Drawable(db, c)
    /\ c.op = "INCRBYFLOAT" /\ ~FloatsOnVolatile =>
         (db[<<c.db, c.key>>] # None => db[<<c.db, c.key>>].when = NoExpire)

InBounds(data) == \A p \in Place : data[p] # None =>
                      (data[p].type = "list" => Len(data[p].val) <= MaxList)

\* processCommand and call() on behalf of a client of the master: the data and
\* the propagation that the call x leaves.
Ran(x) ==
    /\ InBounds(x.db)
    /\ db' = x.db
    /\ propagate(Propagated(x))
Command(c) ==
    /\ Idle
    /\ Allowed(c)
    /\ Ran(Run(db, clock, "master", c))
    /\ UNCHANGED <<theme, clock, replica>>

\* activeExpireCycleTryExpire finds an expired key.
ActiveExpire(p) ==
    /\ Idle
    /\ db[p] # None /\ db[p].when # NoExpire /\ clock > db[p].when
    /\ db' = [db EXCEPT ![p] = None]
    /\ propagate(<<DelCommand(p)>>)
    /\ UNCHANGED <<theme, clock, replica>>

\* freeMemoryIfNeeded picks a key to evict.
Evict(p) ==
    /\ Idle
    /\ db[p] # None
    /\ db' = [db EXCEPT ![p] = None]
    /\ propagate(<<DelCommand(p)>>)
    /\ UNCHANGED <<theme, clock, replica>>

Tick ==
    /\ clock < MaxClock
    /\ clock' = clock + 1
    /\ UNCHANGED <<theme, db, stream, replica, aof, relative>>

\* The slave applies the next command of its master.
Deliver ==
    /\ stream # <<>>
    /\ replica' = Run(replica, clock, "slave", Head(stream)).db
    /\ stream' = Tail(stream)
    /\ UNCHANGED <<theme, db, clock, aof, relative>>

Next ==
    \/ \E c \in Commands[theme] : Command(c)
    \/ \E p \in Place : ActiveExpire(p)
    \/ \E p \in Place : Evict(p)
    \/ Tick
    \/ Deliver

Spec == Init /\ [][Next]_vars

(* ---- properties ---- *)

SameValue(a, b) ==
    /\ (a = None) = (b = None)
    /\ a # None => a.type = b.type
    /\ a # None => a.val = b.val

\* Whatever commands ran, rewritten, split, or cut short by an expired key, a
\* slave that has received everything holds the values of its master, and its
\* keys have a deadline when the master's have, never an earlier one: a key
\* cannot vanish from the slave before the master says so.
ReplicaAgrees ==
    stream = <<>> => \A p \in Place :
        /\ SameValue(db[p], replica[p])
        /\ db[p] # None => /\ (db[p].when = NoExpire) = (replica[p].when = NoExpire)
                           /\ replica[p].when >= db[p].when

\* A replay of the append only file, later than anything that was logged, gives
\* exactly the data of the server with the same deadlines: EXPIRE and SET EX are
\* rewritten to absolute times and the random choices of SPOP to what was chosen.
\* Only a time to live of RESTORE, which feedAppendOnlyFile leaves as it is, may
\* begin anew with the replay.
AofAgrees ==
    \A p \in Place : /\ SameValue(db[p], aof[p])
                     /\ db[p] # None => \/ db[p].when = aof[p].when
                                        \/ relative /\ db[p].when < aof[p].when

\* The keys that a call x of c has changed, value or deadline, without telling
\* signalModifiedKey.  A key that had expired is not changed by going.
Unsignalled(c, x) ==
    {p \in Place : /\ ~SameValue(db[p], x.db[p])
                      \/ (db[p] # None /\ db[p].when # x.db[p].when)
                   /\ p \notin x.touched
                   /\ ~Expired(Begin(db, clock, "master", c), p)}

\* WATCH relies on every command telling signalModifiedKey which keys it
\* changed, be it only their deadline.  db.c says that all do ("Every time a key
\* in the database is modified ..."); three do not: PERSIST, MOVE and SWAPDB never
\* tell it anything.
CommandsSignal ==
    Idle => \A c \in Commands[theme] : Drawable(db, c) =>
        LET x == Run(db, clock, "master", c)
        IN  IF c.op \in {"PERSIST", "MOVE", "SWAPDB"} THEN x.touched = {}
            ELSE Unsignalled(c, x) = {}

(* ---- what the reading commands promise ---- *)

Live(p, type) == db[p] # None /\ ~(db[p].when # NoExpire /\ clock > db[p].when) /\ db[p].type = type
Gone(p) == db[p] = None \/ (db[p].when # NoExpire /\ clock > db[p].when)

\* The part of a sequence between two 0-based, possibly negative, indexes.
Slice(s, from, to) ==
    LET index(i) == IF i < 0 THEN Len(s) + i ELSE i
        picked == SelectSeq([i \in DOMAIN s |-> i], LAMBDA i : index(from) <= i - 1 /\ i - 1 <= index(to))
    IN [i \in DOMAIN picked |-> s[picked[i]]]

InRange(z, m, r) == ValueGteMin(ValueIn(z, m, r), r) /\ ValueLteMax(ValueIn(z, m, r), r)

\* Members in range, in order, without the first "offset" and at most "count".
Selected(z, r, reverse, offset, count) ==
    LET s == SelectSeq(Ranked(z), LAMBDA m : InRange(z, m, r))
        t == IF reverse THEN Reverse(s) ELSE s
    IN Slice(t, offset, IF count < 0 THEN Len(t) ELSE offset + count - 1)

\* A range by members is only defined when all scores are the same.
Defined(z, r) == r.by = "lex" => Cardinality({z[m] : m \in DOMAIN z}) <= 1

ZOf(c) == LET p == <<c.db, c.key>> IN IF Live(p, "zset") THEN db[p].val ELSE << >>
LOf(c, type) == LET p == <<c.db, c.key>> IN IF Live(p, type) THEN db[p].val ELSE <<>>
SOf(c, k) == IF Live(<<c.db, k>>, "set") THEN db[<<c.db, k>>].val ELSE {}
OfType(c, type) == LET p == <<c.db, c.key>> IN Live(p, type) \/ Gone(p)

\* GETRANGE with an end before the string still returns its first byte.
StringPart(s, c) ==
    Slice(s, c.start, IF s # <<>> /\ c.end < -Len(s) /\ ~Reversed(c.start, c.end) THEN 0 ELSE c.end)
ReplyRight(c, reply, z, s) ==
    CASE c.op = "GETRANGE" -> OfType(c, "string") => reply = StringPart(s, c)
      [] c.op = "LRANGE" -> OfType(c, "list") => reply = Slice(LOf(c, "list"), c.start, c.end)
      [] c.op = "ZRANGE" -> OfType(c, "zset") =>
           reply = Slice(IF c.reverse THEN Reverse(Ranked(z)) ELSE Ranked(z), c.start, c.end)
      [] c.op = "ZRANGEBY" -> OfType(c, "zset") /\ Defined(z, c.range) =>
           reply = Selected(z, c.range, c.reverse, c.offset, c.count)
      [] c.op = "ZCOUNT" -> OfType(c, "zset") /\ Defined(z, c.range) =>
           reply = Cardinality({m \in DOMAIN z : InRange(z, m, c.range)})
      [] c.op = "BITFIELD" -> c.kind = "incrby" /\ c.ow = "wrap" /\ OfType(c, "string") =>
           (reply - c.value - FieldIn(s, c)) % (2 ^ c.bits) = 0
      [] c.op = "SUNIONDIFF" ->
           (c.sop = "diff" /\ c.dst = None /\ \A k \in ToSet(c.keys) : Live(<<c.db, k>>, "set") \/ Gone(<<c.db, k>>)) =>
           reply = SOf(c, c.keys[1]) \ UNION {SOf(c, c.keys[i]) : i \in 2..Len(c.keys)}
Reads == {"GETRANGE", "LRANGE", "ZRANGE", "ZRANGEBY", "ZCOUNT", "BITFIELD", "SUNIONDIFF"}

\* The reading commands return what their arguments say: ranges with negative
\* and crossed indexes, LIMIT with offsets beyond the range, ends excluded,
\* ranks from either side, set differences by either algorithm.
RepliesRight ==
    Idle => \A c \in {d \in Commands[theme] : d.op \in Reads} :
        ReplyRight(c, Run(db, clock, "master", c).reply, ZOf(c), LOf(c, "string"))
=============================================================================
