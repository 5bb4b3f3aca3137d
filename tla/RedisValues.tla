----------------------------- MODULE RedisValues -----------------------------
(***************************************************************************)
(* What the data structures of the server promise, whatever they are made   *)
(* of: a list is a sequence, a set is a set, a sorted set gives elements    *)
(* scores, and so on.  "kind" is the structure, "val" its value and "last"  *)
(* the operation that produced it.  RedisStructures implements this.        *)
(***************************************************************************)
EXTENDS Integers, SequencesExt, FiniteSetsExt, TLC

CONSTANTS
    Kinds,      \* the structures of this instance
    MaxLength,  \* entries of a list
    Elements,   \* elements of sets and sorted sets
    DictKeys,   \* keys of the hash table
    RaxKeys,    \* keys of the radix tree: sequences of numbers
    Strings     \* strings: numbers, from 100 on of so many characters

VARIABLES kind, val, last

vars == <<kind, val, last>>

-----------------------------------------------------------------------------
\* What the parts around the data structures promise: a connection, strings and
\* patterns, MIGRATE and a slot that moves.  Each has its operations and what an
\* operation op may do to a value s, giving t.

\* Requests of a connection, in bytes, with the arguments they stand for.  A
\* request that is bad is refused and ends the connection.
Crlf == <<"CR", "LF">>
Digit(n) == <<"0", "1", "2", "3", "4", "5", "6", "7", "8", "9">>[n + 1]
Multibulk(args) ==
    [bytes |-> <<"*", Digit(Len(args))>> \o Crlf \o
               FlattenSeq([i \in DOMAIN args |-> <<"$", Digit(Len(args[i]))>> \o Crlf \o args[i] \o Crlf]),
     args |-> args, bad |-> FALSE]
Inline(bytes, args) == [bytes |-> bytes \o Crlf, args |-> args, bad |-> FALSE]
Bad(bytes) == [bytes |-> bytes, args |-> <<>>, bad |-> TRUE]
NoArgs == Inline(<<>>, <<>>)
Large == Multibulk(<<<<"a">>, <<"$", "5", "CR", "LF", "w">>, <<"v">>>>)
Get == Multibulk(<<<<"g">>, <<>>>>)
Quoted == Inline(<<"s", " ", "dq", "x", " ", "bs", "n", "dq", " ", "sq", "bs", "sq", "sq">>,
                 <<<<"s">>, <<"x", " ", "LF">>, <<"sq">>>>)
Many == <<"a", "b", "a", "b", "a", "b", "a", "b", "a", "b", "a", "b", "a", "b", "a", "b">>
Requests ==
    [plain |-> <<Get, Inline(<<"i", " ", " ", "x">>, <<<<"i">>, <<"x">>>>), NoArgs, Large, Multibulk(<<>>), Get>>,
     large |-> <<Large, Large, Quoted>>,
     blocking |-> <<Get, Multibulk(<<<<"b">>>>), NoArgs, Large, Inline(<<"b">>, <<<<"b">>>>), Get>>,
     unbalanced |-> <<Get, Bad(<<"s", " ", "dq", "x">> \o Crlf)>>,
     count |-> <<NoArgs, Bad(<<"*", "x">> \o Crlf)>>,
     nodollar |-> <<Get, Bad(<<"*", "1", "CR", "LF", "x">> \o Crlf)>>,
     negative |-> <<Bad(<<"*", "1", "CR", "LF", "$", "-", "1">> \o Crlf)>>,
     endless |-> <<Get, Bad(Many)>>,
     master |-> <<Get, Multibulk(<<<<"m">>>>), Get, NoArgs, Multibulk(<<<<"e">>>>), Large, NoArgs>>]
Bytes(name) == FlattenSeq([i \in DOMAIN Requests[name] |-> Requests[name][i].bytes])
\* The commands of a stream and where they end; where it goes bad.
End(name, i) == Len(FlattenSeq([j \in 1..i |-> Requests[name][j].bytes]))
Commands(name) == SelectSeq([i \in DOMAIN Requests[name] |-> [args |-> Requests[name][i].args, end |-> End(name, i)]],
                            LAMBDA cmd : cmd.args # <<>>)
GoesBad(name) == LET n == Len(Requests[name]) IN IF Requests[name][n].bad THEN End(name, n) ELSE End(name, n) + 1
Blocks(cmd) == cmd.args[1] = <<"b">>
InMulti(cmds, k) == \E i \in 1..k : cmds[i].args[1] = <<"m">> /\ \A j \in i..k : cmds[j].args[1] # <<"e">>

\* Every command that is complete has been run, up to one that blocks; the
\* slaves of a slave have got what was applied.
Ran(s) ==
    LET cmds == Commands(s.stream)
        k == Max({Len(s.cmds)} \cup {n \in (Len(s.cmds) + 1)..Len(cmds) :
                     cmds[n].end <= s.pos /\ \A i \in (Len(s.cmds) + 1)..(n - 1) : ~Blocks(cmds[i])})
        blocked == k > Len(s.cmds) /\ Blocks(cmds[k])
        applied == Max({0} \cup {cmds[j].end : j \in {i \in 1..k : ~InMulti(cmds, i)}})
    IN IF s.blocked \/ s.paused \/ s.failed THEN s
       ELSE [s EXCEPT !.cmds = [i \in 1..k |-> cmds[i].args], !.blocked = blocked,
                      !.failed = ~blocked /\ GoesBad(s.stream) <= s.pos,
                      !.relayed = IF s.stream = "master" THEN SubSeq(Bytes("master"), 1, applied) ELSE @]
Connection(name) == [stream |-> name, pos |-> 0, cmds |-> <<>>, blocked |-> FALSE, paused |-> FALSE, failed |-> FALSE,
                     open |-> TRUE, relayed |-> <<>>]
Query(op, s, t) ==
    CASE op[1] = "connect" -> s = Connection("none") /\ t = Connection(op[2])
      [] op[1] = "read" -> t = Ran([s EXCEPT !.pos = @ + op[2]])
      [] op[1] = "pause" -> t = [s EXCEPT !.paused = TRUE]
      [] op[1] = "resume" -> t = Ran([s EXCEPT !.paused = FALSE])
      [] op[1] = "unblock" -> t = Ran([s EXCEPT !.blocked = FALSE])
      [] OTHER -> FALSE
QueryOps == {<<"connect", name>> : name \in DOMAIN Requests} \cup {<<"read", n>> : n \in 0..4} \cup
            {<<n>> : n \in {"pause", "resume", "unblock"}}

\* Replies: the bytes that are due and how many of them were received.
MaxDue == 8
Replies == [get |-> <<"pair">>, bulk |-> <<"short", "long", "empty">>, array |-> <<"open", "long", "empty", "close">>,
            nested |-> <<"open", "open", "short", "close", "pair", "close">>]
RepliedBytes == [get |-> <<2, 3>>, bulk |-> <<1, 4, 5, 6, 7, 8>>, array |-> <<9, 4, 5, 6, 7, 8>>, nested |-> <<9, 9, 1, 2, 3>>]
NoReplies == [due |-> <<>>, got |-> 0, off |-> FALSE, skip |-> FALSE, next |-> FALSE, close |-> FALSE, open |-> TRUE]
Due(s, bytes) == IF s.off \/ s.skip \/ s.close THEN s.due ELSE s.due \o bytes
NextCommand(s) == [s EXCEPT !.skip = s.next, !.next = FALSE]
Reply(op, s, t) ==
    CASE op[1] = "run" -> t = NextCommand([s EXCEPT !.due = Due(s, RepliedBytes[op[2]])])
      [] op[1] = "message" -> t = [s EXCEPT !.due = Due(s, <<2, 3>>)]
      [] op = <<"mode", "on">> -> t = NextCommand([s EXCEPT !.off = FALSE, !.due = @ \o <<1>>])
      [] op = <<"mode", "off">> -> t = NextCommand([s EXCEPT !.off = TRUE])
      [] op = <<"mode", "skip">> -> t = NextCommand([s EXCEPT !.next = ~s.off])
      [] op[1] = "quit" -> t = NextCommand([s EXCEPT !.due = Due(s, <<1>>), !.close = TRUE])
      [] op[1] \in {"loop", "writable"} -> /\ t = [s EXCEPT !.got = t.got, !.open = t.open]
                                          /\ t.got \in s.got..Len(s.due)
                                          /\ (~t.open => s.close /\ t.got = Len(s.due))
      [] OTHER -> FALSE
ReplyOps == {<<"run", n>> : n \in DOMAIN Replies} \cup {<<n>> : n \in {"message", "quit"}} \cup
            {<<"mode", m>> : m \in {"on", "off", "skip"}} \cup {<<n, room>> : n \in {"loop", "writable"}, room \in {0, 1, 3, 7}}

\* Strings that grow and shrink.
Seqs(ch) == {[i \in 1..n |-> ch] : n \in 0..9}
Format == <<[kind |-> "char", v |-> "n"], [kind |-> "str", v |-> <<"LF", "a">>], [kind |-> "num", v |-> -1]>>
SdsOps == {<<"sdscat", t>> : t \in {<<"a">>, <<"LF", "a", "dq">>}} \cup {<<"sdscpy", t>> : t \in {<<"bs">>, <<"n", "a", "a", "a", "a">>}} \cup
          {<<"sdsfmt", Format>>, <<"sdsgrow", 4>>} \cup {<<"sdsroom", n>> : n \in {1, 4}} \cup {<<"sdstrim", "a">>} \cup
          {<<"sdsrange", i, j>> : i \in {-4, 0, 1}, j \in {-6, -1, 7}} \cup
          {<<n>> : n \in {"sdsclear", "sdsincr", "sdsfit", "sdsdup"}}
At(s, i) == IF i >= 0 THEN i ELSE IF Len(s) + i < 0 THEN 0 ELSE Len(s) + i
Sds(op, s, t) ==
    CASE op[1] = "sdscat" -> t = s \o op[2]
      [] op[1] = "sdsfmt" -> t = s \o <<"n", "LF", "a", "-", "1">>
      [] op[1] = "sdscpy" -> t = op[2]
      [] op[1] = "sdsgrow" -> t = s \o [i \in 1..(op[2] - Len(s)) |-> "NUL"]
      [] op[1] = "sdsrange" -> t = SubSeq(s, At(s, op[2]) + 1, Min({At(s, op[3]), Len(s) - 1}) + 1)
      [] op[1] = "sdstrim" -> \E left, right \in Seqs(op[2]) :
                                 /\ s = left \o t \o right
                                 /\ t # <<>> => t[1] # op[2] /\ Last(t) # op[2]
      [] op[1] = "sdsclear" -> t = <<>>
      [] op[1] = "sdsincr" -> t = Front(s)
      [] op[1] \in {"sdsroom", "sdsfit", "sdsdup"} -> t = s
      [] OTHER -> FALSE

\* Patterns: an item matches any number of characters, or one of a set.
Star == [bytes |-> <<"*">>, one |-> FALSE, set |-> {}, in |-> TRUE]
One(bytes, set) == [bytes |-> bytes, one |-> TRUE, set |-> set, in |-> TRUE]
NotOne(bytes, set) == [bytes |-> bytes, one |-> TRUE, set |-> set, in |-> FALSE]
Item == {Star, NotOne(<<"?">>, {}), One(<<"a">>, {"a"}), One(<<"A">>, {"A"}), One(<<"bs", "*">>, {"*"}),
         One(<<"[", "a", "c", "]">>, {"a", "c"}), NotOne(<<"[", "^", "A", "]">>, {"A"}),
         One(<<"[", "c", "-", "b", "]">>, {"b", "c"}), One(<<"[", "bs", "]", "b", "]">>, {"b"})}
Patterns == UNION {[1..n -> Item] : n \in 0..3} \cup {<<Star, One(<<"[", "b">>, {"b"})>>}
Subjects == UNION {[1..n -> {"a", "b", "*"}] : n \in 1..3}
Lower(S) == (S \ {"A", "B", "C"}) \cup (IF "A" \in S THEN {"a"} ELSE {}) \cup (IF "B" \in S THEN {"b"} ELSE {})
Matches(items, s, nocase) ==
    LET Reached(P, item) ==
            IF ~item.one THEN UNION {i..Len(s) : i \in P}
            ELSE {i + 1 : i \in {j \in P : j < Len(s) /\ item.in = (s[j + 1] \in IF nocase THEN Lower(item.set) ELSE item.set)}}
    IN Len(s) \in FoldLeft(Reached, {0}, items)
\* Keys with the same part in braces go to the same slot; braces around
\* nothing, or that are not closed, do not count.
Tagged == UNION {{[hashed |-> s, bytes |-> s], [hashed |-> s, bytes |-> <<"{">> \o s \o <<"}">>],
                  [hashed |-> s, bytes |-> <<"a", "}", "{">> \o s \o <<"}", "b", "}">>]} : s \in {<<"a">>, <<"b", "a">>}} \cup
          {[hashed |-> s, bytes |-> s] : s \in {<<"{", "}", "a">>, <<"a", "{", "b">>, <<"}", "a", "{">>}}
\* Commands with the positions of their keys: the fixed ones, and the key of
\* the last option that has one.
Option(words, key) == [words |-> words, key |-> key]
WithOptions(head, keys, options) ==
    LET words == [i \in DOMAIN options |-> options[i].words]
        final == Max({0} \cup {i \in DOMAIN options : options[i].key # 0})
        before == Len(head \o FlattenSeq(SubSeq(words, 1, final - 1)))
    IN [argv |-> head \o FlattenSeq(words), keys |-> keys \cup IF final = 0 THEN {} ELSE {before + options[final].key}]
UpTo(n, S) == UNION {[1..m -> S] : m \in 0..n}
SortOptions == {Option(<<"by", "store">>, 0), Option(<<"limit", "0", "1">>, 0), Option(<<"get", "store">>, 0), Option(<<"asc">>, 0),
                Option(<<"store", "d">>, 1), Option(<<"store", "e">>, 1)}
GeoOptions == {Option(<<"withdist">>, 0), Option(<<"count", "1">>, 0), Option(<<"store", "d">>, 1), Option(<<"storedist", "e">>, 1)}
MigrateOptions == {Option(<<"copy">>, 0), Option(<<"replace">>, 0)}
Keyed(argv, keys) == [argv |-> argv, keys |-> keys]
Keys2(c) == [argv |-> c.argv \o <<"keys", "a", "b">>, keys |-> {Len(c.argv) + 1, Len(c.argv) + 2}]
KeyedCommands ==
    {WithOptions(<<"sort", "k">>, {1}, o) : o \in UpTo(3, SortOptions)} \cup
    {WithOptions(<<"georadius", "k", "1", "1", "9", "km">>, {1}, o) : o \in UpTo(2, GeoOptions)} \cup
    {WithOptions(<<"georadiusbymember", "k", "m", "9", "km">>, {1}, o) : o \in UpTo(2, GeoOptions)} \cup
    {WithOptions(<<"migrate", "h", "p", k, "0", "9">>, {3}, o) : k \in {"k", "keys"}, o \in UpTo(2, MigrateOptions)} \cup
    {Keys2(WithOptions(<<"migrate", "h", "p", "", "0", "9">>, {}, o)) : o \in UpTo(2, MigrateOptions)} \cup
    {Keyed(<<"zunionstore", "d", "2", "a", "b", "weights", "1", "2">>, {1, 3, 4}), Keyed(<<"zunionstore", "d", "3", "a", "b">>, {}),
     Keyed(<<"eval", "s", "1", "a", "b">>, {3}), Keyed(<<"eval", "s", "0", "a">>, {}), Keyed(<<"evalsha", "s", "2", "a">>, {}),
     Keyed(<<"get", "k">>, {1}), Keyed(<<"mget", "a", "b">>, {1, 2}), Keyed(<<"mset", "a", "1", "b", "2">>, {1, 3}),
     Keyed(<<"blpop", "a", "b", "0">>, {1, 2}), Keyed(<<"brpoplpush", "a", "b", "0">>, {1, 2}),
     Keyed(<<"bitop", "not", "d", "a">>, {2, 3}), Keyed(<<"object", "encoding", "a">>, {2}), Keyed(<<"object", "help">>, {}),
     Keyed(<<"ping", "a">>, {})}

\* Questions: the value becomes the answer.
Text(op, s, t) ==
    /\ s = <<>>
    /\ CASE op[1] = "match" -> t = <<Matches(op[2], op[3], op[4])>>
         [] op[1] \in {"number", "memory"} -> t = <<TRUE>>
         [] op[1] = "keys" -> t = <<op[2].keys>>
         [] op[1] = "tag" -> t = <<op[2].hashed = op[3].hashed>>
         [] OTHER -> FALSE
TextOps == {<<"match", items, s, nocase>> : items \in Patterns, s \in Subjects, nocase \in BOOLEAN} \cup
           {<<"keys", c>> : c \in KeyedCommands} \cup {<<"tag", x, y>> : x \in Tagged, y \in Tagged} \cup
           {<<"memory", v>> : v \in {0, 1, 1000, 1024, 1025, 3072, 1048576, 5242880, 1073741824}} \cup
           {<<"number", v>> : v \in {-1234, -100, -99, -10, -1, 0, 7, 10, 99, 100, 101, 999, 1000, 10000, 123456}}

\* Keys sent to another instance, with the connection's troubles of the first
\* and of the second attempt.  A key that was there is at the target, in the
\* database asked for, or still at the source, or both; with the reply OK it
\* has moved, and nothing else has changed.
Trouble(done, read, timeout) == [connect |-> TRUE, done |-> done, read |-> read, timeout |-> timeout]
Fine == Trouble(9, 9, FALSE)
Troubles == {Fine, [Fine EXCEPT !.connect = FALSE]} \cup
            {Trouble(2, 0, FALSE), Trouble(2, 1, TRUE), Trouble(3, 0, FALSE), Trouble(3, 2, TRUE)}
NothingAnywhere == [src |-> [k \in 1..2 |-> 0], dst |-> [d \in 0..1 |-> [k \in 1..2 |-> 0]], reply |-> "none"]
Migrate(op, s, t) ==
    CASE op[1] = "put" -> /\ t.src = IF op[2] = -1 THEN [s.src EXCEPT ![op[3]] = op[4]] ELSE s.src
                          /\ t.dst = IF op[2] = -1 THEN s.dst ELSE [s.dst EXCEPT ![op[2]][op[3]] = op[4]]
      [] op[1] = "migrate" ->
           LET db == op[2].dbid
               keys == {k \in ToSet(op[2].keys) : s.src[k] # 0}
               There(k) == t.dst[db][k] = s.src[k] /\ (s.dst[db][k] = 0 \/ op[2].replace)
               Moved(k) == There(k) /\ t.src[k] = IF op[2].copy THEN s.src[k] ELSE 0
               Stayed(k) == t.src[k] = s.src[k] /\ (There(k) \/ t.dst[db][k] = s.dst[db][k])
           IN /\ \A k \in keys : Moved(k) \/ (Stayed(k) /\ t.reply \in {"error", "ioerr"})
              /\ \A k \in (1..2) \ keys : t.src[k] = s.src[k] /\ t.dst[db][k] = s.dst[db][k]
              /\ t.dst[1 - db] = s.dst[1 - db]
              /\ t.reply = "nokey" <=> keys = {}
      [] op[1] \in {"hangup", "idle"} -> t = s
      [] OTHER -> FALSE
Job(keys, dbid, copy, replace) == [keys |-> keys, dbid |-> dbid, copy |-> copy, replace |-> replace, accepts |-> TRUE]
Jobs == {Job(<<1, 2>>, d, FALSE, replace) : d \in 0..1, replace \in BOOLEAN} \cup {Job(<<2>>, 1, FALSE, FALSE)}
MigrateOps == {<<"put", -1, 1, 1>>, <<"put", -1, 1, 2>>, <<"put", -1, 2, 1>>, <<"put", 0, 1, 2>>} \cup
              {<<"migrate", job, first, second>> : job \in Jobs, first \in Troubles, second \in {Fine, Trouble(2, 1, FALSE)}} \cup
              {<<"migrate", Job(<<1>>, 1, TRUE, FALSE), Fine, Fine>>, <<"hangup">>, <<"idle">>}

\* A slot that moves between two nodes, under requests that are sent again
\* where they are redirected to: the data is that of one server, but for the
\* copies that a MIGRATE which failed has left at the target.  They are old once
\* the key was written to; a request for several keys may read them, and deleting
\* the key brings them back.
NothingAsked == [data |-> [k \in 1..2 |-> 0], spare |-> [k \in 1..2 |-> 0], request |-> <<>>, answer |-> [k \in 1..2 |-> 0]]
Asked == {<<"get", {1}>>, <<"get", {1, 2}>>, <<"set", {1}, 1>>, <<"set", {1}, 2>>, <<"del", {2}, 0>>}
Old(s) == [k \in 1..2 |-> IF s.spare[k] # 0 THEN s.spare[k] ELSE s.data[k]]
Answered(s) ==
    LET r == s.request
        Read(data) == [s EXCEPT !.request = <<>>, !.answer = [k \in 1..2 |-> IF k \in r[2] THEN data[k] ELSE 0]]
    IN CASE r[1] = "get" -> IF Cardinality(r[2]) > 1 THEN {Read(s.data), Read(Old(s))} ELSE {Read(s.data)}
         [] r[1] = "set" -> {[s EXCEPT !.request = <<>>, !.data = [k \in 1..2 |-> IF k \in r[2] THEN r[3] ELSE s.data[k]]]}
         [] r[1] = "del" -> {[s EXCEPT !.request = <<>>, !.data = [k \in 1..2 |-> IF k \in r[2] THEN s.spare[k] ELSE s.data[k]],
                                       !.spare = [k \in 1..2 |-> IF k \in r[2] THEN 0 ELSE s.spare[k]]]}
Slots(op, s, t) ==
    CASE op[1] = "ask" -> s.request = <<>> /\ t = [s EXCEPT !.request = op[2]]
      [] op[1] = "send" -> t = s \/ t \in Answered(s)
      [] op[1] = "operator" -> /\ t = [s EXCEPT !.spare = t.spare]
                               /\ \A k \in 1..2 : t.spare[k] \in {s.spare[k], s.data[k], 0}
      [] op[1] \in {"start", "told", "crash", "fix", "hear"} -> t = s
      [] OTHER -> FALSE
SlotsOps == {<<"ask", r>> : r \in Asked} \cup {<<n>> : n \in {"send", "start", "crash", "fix"}} \cup
            {<<"told", n>> : n \in 1..2} \cup {<<"hear", n>> : n \in 1..2} \cup
            {<<"operator", first, Fine>> : first \in Troubles}

\* The configuration: what the server runs with, what the file would give it,
\* and the lines of the file that are not the server's.
MaxRewrites == 2
NoConf == [num |-> 0, str |-> 0, save |-> <<>>, slaveof |-> 0, limit |-> <<0, 0>>]
Configured(conf, option, v) == IF option = "limit" THEN [conf EXCEPT !.limit[v[1]] = v[2]] ELSE [conf EXCEPT ![option] = v]
Config(op, s, t) ==
    CASE op[1] = "configset" -> t = [s EXCEPT !.conf = Configured(s.conf, op[2], op[3])]
      [] op[1] = "edit" -> t.conf = s.conf
      [] op[1] = "rewrite" -> t = [s EXCEPT !.file = [ok |-> TRUE, conf |-> s.conf]]
      [] op[1] = "restart" -> s.file.ok /\ t = [s EXCEPT !.conf = s.file.conf]
      [] OTHER -> FALSE
Note == [name |-> "#", args |-> <<1>>]
NoLine == [name |-> "", args |-> <<>>]
Put(name, args) == [name |-> name, args |-> args]
Files == {<<Note, Put("save", <<1>>), NoLine, Put("num", <<1>>), Put("save", <<2>>), Put("other", <<1>>)>>,
          <<Put("num", <<0>>), Note, Put("num", <<1>>), Put("limit", <<2, 1>>), Put("save", <<>>)>>,
          <<Put("?", <<1>>), Put("str", <<1>>), NoLine, Put("other", <<1>>), Put("save", <<1>>)>>}
ConfigOps == {<<"configset", "save", v>> : v \in {<<>>, <<2, 1>>}} \cup {<<"configset", "num", v>> : v \in 0..1} \cup
             {<<"configset", "str", 1>>, <<"configset", "limit", <<2, 0>>>>} \cup
             {<<"edit", file>> : file \in Files} \cup
             {<<"rewrite", stopped>> : stopped \in BOOLEAN} \cup {<<"restart">>}

\* A walk of a set, a hash or a database by SCAN: "due" are the elements that
\* match the pattern "walk" and still have to be returned.
NoWalk == {-1}
ScanPatterns == {{0, 2, 4, 7}, {2, 7}}
Unscanned == [type |-> "none", keys |-> {}, due |-> {}, walk |-> NoWalk]
Scan(op, s, t) ==
    CASE op[1] = "scantype" -> s.type = "none" /\ t = [s EXCEPT !.type = op[2]]
      [] op[1] = "add" -> t = [s EXCEPT !.keys = @ \cup {op[2]}]
      [] op[1] \in {"del", "expire"} -> t = [s EXCEPT !.keys = @ \ {op[2]}, !.due = @ \ {op[2]}]
      [] op[1] \in {"rehash", "keys"} -> t = s
      [] op[1] = "scan" ->
           /\ s.walk \in {NoWalk, op[3]}
           /\ t.keys = s.keys /\ t.type = s.type
           /\ t.due \subseteq IF s.walk = NoWalk THEN s.keys \cap op[3] ELSE s.due
           /\ t.walk \in {NoWalk, op[3]} /\ (t.walk = NoWalk => t.due = {})
      [] OTHER -> FALSE
Scanned == {0, 2, 4, 7}
ScanOps == {<<"scantype", t>> : t \in {"set", "hash", "db"}} \cup
           {<<n, k>> : n \in {"add", "del", "expire"}, k \in Scanned} \cup {<<"rehash">>, <<"keys", {2, 7}>>} \cup
           {<<"scan", n, p>> : n \in 1..2, p \in ScanPatterns}

\* An event loop: what is registered, the timers with their times, and what
\* poll() reported that was not handled yet.  A handler is called only for
\* what is registered at that moment and was reported; never twice for a
\* report; nothing that was reported, and no timer that was due when the
\* timers' turn came, is left behind; and under a barrier the reply is not
\* written after the query was read.
NoEvents == [files |-> [fd \in 0..1 |-> {}], timers |-> <<>>, next |-> 0, now |-> 4, ready |-> {}, inside |-> <<>>,
             readFirst |-> {}, called |-> {}, began |-> 0, newest |-> -1, phase |-> "main"]
MaxTimers == 2
Called(s, t) ==
    LET h == t.inside IN
    CASE h = <<>> /\ s.phase = "file" -> t.phase = "time" /\ \A e \in t.ready : e[2] \notin t.files[e[1]]
      [] h = <<>> /\ s.phase = "time" ->
           t.phase = "main" /\ \A id \in DOMAIN s.timers : s.timers[id] > Min({s.began, s.now}) \/ id \in s.called \/ id > s.newest
      [] h # <<>> /\ h[1] = "t" -> /\ s.phase = "time" /\ h[2] \in DOMAIN s.timers /\ s.timers[h[2]] <= s.now
                                   /\ h[2] \notin s.called
      [] OTHER -> /\ <<h[2], h[1]>> \in s.ready \ t.ready /\ h[1] \in s.files[h[2]]
                  /\ h[1] = "w" => h[2] \notin s.readFirst
Ae(op, s, t) ==
    CASE op[1] = "fdadd" -> t = [s EXCEPT !.files[op[2]] = @ \cup (op[3] \ {"b"})]
      [] op[1] = "fddel" -> t = [s EXCEPT !.files[op[2]] = @ \ op[3]]
      [] op[1] = "timer" -> t = [s EXCEPT !.timers = (s.next :> (s.now + op[2])) @@ @, !.next = @ + 1]
      [] op[1] = "cancel" -> t = [s EXCEPT !.timers = [id \in DOMAIN @ \ {op[2]} |-> @[id]]]
      [] op[1] = "clock" -> t = [s EXCEPT !.now = op[2]]
      [] op[1] = "poll" -> t = [s EXCEPT !.ready = t.ready, !.readFirst = {}, !.phase = "file"]
      [] op[1] = "go" -> t.files = s.files /\ t.now = s.now /\ t.next = s.next /\ DOMAIN t.timers = DOMAIN s.timers /\ Called(s, t)
      [] op[1] = "return" /\ s.inside[1] # "t" -> t = [s EXCEPT !.inside = <<>>]
      [] op[1] = "return" /\ s.inside[1] = "t" ->
           LET id == s.inside[2] IN
           t = [s EXCEPT !.inside = <<>>,
                         !.timers = IF id \notin DOMAIN @ THEN @
                                    ELSE IF op[2] = -1 THEN [x \in DOMAIN @ \ {id} |-> @[x]]
                                    ELSE [@ EXCEPT ![id] = s.now + op[2]]]
      [] OTHER -> FALSE
AeOps == {<<"fdadd", fd, m, p>> : fd \in 0..1, m \in {{"r"}}, p \in {"read"}} \cup
         {<<"fdadd", 0, {"w", "b"}, "write">>, <<"fdadd", 1, {"w"}, "write">>, <<"fdadd", 0, {"r", "w"}, "sync">>} \cup
         {<<"fddel", 0, {"w"}>>, <<"fddel", 0, {"r", "w"}>>, <<"fddel", 1, {"r", "w"}>>} \cup
         {<<"timer", ms>> : ms \in {0, 1}} \cup {<<"cancel", id>> : id \in 0..(MaxTimers - 1)} \cup
         {<<"clock", now>> : now \in {2, 5}} \cup {<<"go">>} \cup {<<"return", n>> : n \in {-1, 1}} \cup
         {<<"poll", ready, e>> : ready \in SUBSET ((0..1) \X {"r", "w"}), e \in {-1, 0}}

-----------------------------------------------------------------------------

Entry == {1, 4, 6}      \* entries of the lists: numbers of bytes
Field == {1, 4, 6}
Score == 1..2
Slot == {1, 2}
Ranges == {[min |-> 1, max |-> 1, minex |-> FALSE, maxex |-> FALSE],
          [min |-> 1, max |-> 2, minex |-> TRUE, maxex |-> FALSE],
          [min |-> 0, max |-> 2, minex |-> FALSE, maxex |-> TRUE],
          [min |-> 2, max |-> 2, minex |-> FALSE, maxex |-> TRUE]}
InRange(v, r) == /\ IF r.minex THEN v > r.min ELSE v >= r.min
                 /\ IF r.maxex THEN v < r.max ELSE v <= r.max
\* Ranges of elements: from one item to another.
LexRanges == {<<"-">>, <<"(", 2>>, <<"[", 2>>} \X {<<"+">>, <<"(", 3>>, <<"[", 3>>, <<"[", 1>>, <<"-">>}
InLexRange(v, r) == LET lo == r[1] hi == r[2] IN
                    /\ CASE lo[1] = "(" -> v > lo[2] [] lo[1] = "[" -> v >= lo[2] [] OTHER -> lo[1] = "-"
                    /\ CASE hi[1] = "(" -> v < hi[2] [] hi[1] = "[" -> v <= hi[2] [] OTHER -> hi[1] = "+"

\* The elements of a sorted set in their order.
Ordered(z) == SetToSortSeq(DOMAIN z, LAMBDA x, y : z[x] < z[y] \/ (z[x] = z[y] /\ x < y))
Keeping(f, S) == [x \in S |-> f[x]]
Without(s, from, n) == SubSeq(s, 1, from - 1) \o SubSeq(s, from + n, Len(s))

\* Keys in the order of their characters.
Less(s, t) == \E n \in 0..Len(s) : /\ n <= Len(t) /\ SubSeq(s, 1, n) = SubSeq(t, 1, n)
                                   /\ n < Len(t) /\ (n = Len(s) \/ s[n + 1] < t[n + 1])
InOrder(S) == SetToSortSeq(S, Less)

\* Databases: the keys of each with the times they are over, the database of
\* the last write, and the time.
LastTime == 2
NoKeys == [dbs |-> [j \in 0..1 |-> <<>>], select |-> 0, now |-> 0]
Kept(db, time) == Keeping(db, {k \in DOMAIN db : db[k] = -1 \/ db[k] >= time})

\* What a ziplist entry or list position may be, and the operations on them.
Ziplist(op, s, t) ==
    CASE op[1] = "insert" -> op[2] <= Len(s) + 1 /\ Len(s) < MaxLength /\ t = InsertAt(s, op[2], op[3])
      [] op[1] = "delete" -> op[2] <= Len(s) /\ t = Without(s, op[2], op[3])
      [] op[1] = "merge" -> Len(s) + Len(op[2]) <= MaxLength /\ t = s \o op[2]
      [] OTHER -> FALSE
ZiplistOps == {<<"insert", i, v>> : i \in 1..MaxLength, v \in Entry} \cup
              {<<"delete", i, n>> : i \in 1..MaxLength, n \in 1..2} \cup
              {<<"merge", s>> : s \in {<<1>>, <<6, 1>>}}

ListEntries(op, s, t) ==
    CASE op[1] = "lpush" -> Len(s) < MaxLength /\ t = <<op[2]>> \o s
      [] op[1] = "rpush" -> Len(s) < MaxLength /\ t = Append(s, op[2])
      [] op[1] = "lpop" -> t = IF s = <<>> THEN s ELSE Tail(s)
      [] op[1] = "rpop" -> t = IF s = <<>> THEN s ELSE Front(s)
      [] op[1] = "lindex" -> op[2] < Len(s) /\ t = s
      [] op[1] = "lset" -> op[2] < Len(s) /\ t = [s EXCEPT ![op[2] + 1] = op[3]]
      [] op[1] = "linsert" -> op[2] < Len(s) /\ Len(s) < MaxLength
                              /\ t = InsertAt(s, op[2] + (IF op[4] THEN 2 ELSE 1), op[3])
      [] op[1] = "lrem" -> t = SelectSeq(s, LAMBDA x : x # op[2])
      [] op[1] = "delrange" -> op[2] < Len(s) /\ t = Without(s, op[2] + 1, op[3])
      [] op[1] = "rotate" -> t = IF Len(s) <= 1 THEN s ELSE <<Last(s)>> \o Front(s)
      [] OTHER -> FALSE
\* A list, until it is spoiled.  An end is "shut" when its node is compressed: a
\* look at an entry or a pop never does that, and only the pushes and pops at
\* such an end spoil the list.
List(op, s, t) ==
    IF t.spoiled THEN \/ op[1] \in {"lpush", "lpop"} /\ "head" \in s.shut
                      \/ op[1] \in {"rpush", "rpop"} /\ "tail" \in s.shut
                      \/ op[1] = "rotate" /\ s.shut # {}
    ELSE /\ ListEntries(op, s.entries, t.entries)
         /\ op[1] \in {"lpop", "rpop", "lindex"} => t.shut \subseteq s.shut
Pushed == {1, 2}
ListOps == {<<n, v>> : n \in {"lpush", "rpush", "lrem"}, v \in Pushed} \cup
           {<<n>> : n \in {"lpop", "rpop", "rotate"}} \cup
           {<<"lindex", i>> : i \in 0..(MaxLength - 1)} \cup
           {<<"lset", i, 2>> : i \in 0..(MaxLength - 1)} \cup
           {<<"linsert", i, 1, after>> : i \in 0..(MaxLength - 1), after \in BOOLEAN} \cup
           {<<"delrange", i, n>> : i \in 0..(MaxLength - 1), n \in 1..3}

Set(op, s, t) ==
    CASE op[1] = "sadd" -> t = s \cup {op[2]}
      [] op[1] = "srem" -> t = s \ {op[2]}
      [] op[1] = "sismember" -> t = s
      [] OTHER -> FALSE
SetOps == {<<n, e>> : n \in {"sadd", "srem", "sismember"}, e \in Elements}

Hash(op, s, t) ==
    CASE op[1] = "hset" -> t = (op[2] :> op[3]) @@ s
      [] op[1] = "hdel" -> t = Keeping(s, DOMAIN s \ {op[2]})
      [] op[1] = "hget" -> t = s
      [] OTHER -> FALSE
HashOps == {<<"hset", f, v>> : f \in Field, v \in {1, 6}} \cup {<<n, f>> : n \in {"hdel", "hget"}, f \in Field}

Zset(op, s, t) ==
    CASE op[1] = "zadd" -> t = (op[2] :> op[3]) @@ s
      [] op[1] = "zrem" -> t = Keeping(s, DOMAIN s \ {op[2]})
      [] op[1] = "zremrangebyscore" -> t = Keeping(s, {x \in DOMAIN s : ~InRange(s[x], op[2])})
      [] op[1] = "zremrangebylex" -> /\ Cardinality({s[x] : x \in DOMAIN s}) = 1
                                     /\ t = Keeping(s, {x \in DOMAIN s : ~InLexRange(x, op[2])})
      [] op[1] = "zremrangebyrank" -> /\ op[3] <= Cardinality(DOMAIN s)
                                      /\ t = Keeping(s, ToSet(Without(Ordered(s), op[2], op[3] - op[2] + 1)))
      [] op[1] = "shrink" -> t = s
      [] op[1] = "zstore" ->
           LET other == op[4]
               both == DOMAIN s \cap DOMAIN other
               Of(x) == IF x \notin DOMAIN s THEN op[5] * other[x]
                        ELSE IF x \notin DOMAIN other THEN s[x]
                        ELSE CASE op[3] = "sum" -> s[x] + op[5] * other[x]
                               [] op[3] = "min" -> Min({s[x], op[5] * other[x]})
                               [] op[3] = "max" -> Max({s[x], op[5] * other[x]})
           IN t = [x \in IF op[2] = "inter" THEN both ELSE DOMAIN s \cup DOMAIN other |-> Of(x)]
      [] OTHER -> FALSE
\* Sets and sorted sets that are joined with a sorted set: scores of elements.
Joined == {<<>>, (2 :> 1) @@ (3 :> 1), (1 :> 1) @@ (2 :> 1) @@ (4 :> 1), (1 :> 2) @@ (3 :> 1) @@ (4 :> 2)}
ZsetOps == {<<"zadd", e, sc>> : e \in 1..4, sc \in Score} \cup {<<"zrem", e>> : e \in 1..4} \cup
           {<<"zremrangebyscore", r>> : r \in Ranges} \cup {<<"zremrangebylex", r>> : r \in LexRanges} \cup
           {<<"zremrangebyrank", i, j>> : i \in 1..2, j \in 2..4} \cup {<<"shrink">>} \cup
           {<<"zstore", n, a[1], other, a[2]>> : n \in {"union", "inter"}, a \in {<<"sum", 1>>, <<"min", 2>>, <<"max", 1>>}, other \in Joined}

\* A walk of the hash table, by SCAN or by a safe iterator, is over only when
\* every key that was there all the time has been returned.
Dict(op, s, t) ==
    CASE op[1] = "add" -> t = [s EXCEPT !.keys = @ \cup {op[2]}]
      [] op[1] = "del" -> t = [s EXCEPT !.keys = @ \ {op[2]}, !.due = @ \ {op[2]}]
      [] op[1] \in {"find", "sample", "resize", "rehash", "child"} -> t = s
      [] op[1] = "empty" -> t = [keys |-> {}, due |-> {}, walk |-> "none"]
      [] op[1] \in {"scan", "iterate"} ->
           /\ s.walk \in {"none", op[1]}
           /\ t.keys = s.keys
           /\ t.due \subseteq IF s.walk = "none" THEN s.keys ELSE s.due
           /\ t.walk \in {"none", op[1]} /\ (t.walk = "none" => t.due = {})
      [] OTHER -> FALSE
DictOps == {<<n, k>> : n \in {"add", "del", "find"}, k \in DictKeys} \cup
           {<<n>> : n \in {"resize", "rehash", "child", "empty", "scan", "iterate"}} \cup
           {<<"sample", n>> : n \in 1..2}

Rax(op, s, t) ==
    CASE op[1] = "raxinsert" -> op[2] \notin s /\ t = s \cup {op[2]}
      [] op[1] = "raxremove" -> op[2] \in s /\ t = s \ {op[2]}
      [] op[1] = "delslot" -> t = {k \in s : Head(k) # op[2]}
      [] OTHER -> FALSE
RaxOps == {<<n, k>> : n \in {"raxinsert", "raxremove"}, k \in RaxKeys} \cup {<<"delslot", c>> : c \in Slot}

Others == {<<0, 1, 0, 1, 0, 2, 0>>, <<3, 0, 0, 0, 0, 0, 0>>}
Hll(op, s, t) ==
    CASE op[1] = "pfadd" -> t = [s EXCEPT ![op[2]] = IF op[3] > @ THEN op[3] ELSE @]
      [] op[1] = "pfcount" -> t = s
      [] op[1] = "pfmerge" -> t = [i \in DOMAIN s |-> IF op[2][i] > s[i] THEN op[2][i] ELSE s[i]]
      [] OTHER -> FALSE
HllOps == {<<"pfadd", i, c>> : i \in 1..7, c \in 1..2} \cup {<<"pfadd", 1, 3>>, <<"pfcount">>} \cup {<<"pfmerge", o>> : o \in Others}

String(op, s, t) ==
    CASE op[1] = "set" -> t = op[2]
      [] op[1] = "unshare" -> t = s
      [] OTHER -> FALSE
StringOps == {<<"set", v>> : v \in Strings} \cup {<<"unshare">>}

\* A key that is over when it is saved, or when a master loads it, is gone.
Databases(op, s, t) ==
    CASE op[1] = "put" -> t = [s EXCEPT !.dbs[op[2]] = (op[3] :> op[4]) @@ @, !.select = op[2]]
      [] op[1] = "tick" -> t = [s EXCEPT !.now = @ + 1]
      [] op[1] = "restart" -> t = [s EXCEPT !.now = @ + op[3],
                                            !.dbs = [j \in 0..1 |-> Kept(@[j], IF op[2] THEN t.now ELSE s.now)]]
      [] OTHER -> FALSE
DbOps == {<<"put", j, k, x>> : j \in 0..1, k \in {1, 100}, x \in {-1, 0, 1}} \cup {<<"tick">>} \cup
         {<<"restart", master, later>> : master \in BOOLEAN, later \in 0..1}

Empty == [k \in Kinds |->
    CASE k = "ziplist" -> <<>>
      [] k = "list" -> [entries |-> <<>>, shut |-> {}, spoiled |-> FALSE]
      [] k \in {"set", "rax"} -> {}
      [] k \in {"hash", "zset"} -> <<>>
      [] k = "dict" -> [keys |-> {}, due |-> {}, walk |-> "none"]
      [] k = "hll" -> [i \in 1..7 |-> 0]
      [] k = "string" -> 0
      [] k = "db" -> NoKeys
      [] k = "query" -> Connection("none")
      [] k = "reply" -> NoReplies
      [] k = "sds" -> <<>>
      [] k = "text" -> <<>>
      [] k = "migrate" -> NothingAnywhere
      [] k = "slot" -> NothingAsked
      [] k = "config" -> [conf |-> NoConf, file |-> [ok |-> TRUE, conf |-> NoConf], kept |-> <<>>]
      [] k = "scan" -> Unscanned
      [] k = "ae" -> NoEvents]

Init == /\ kind \in Kinds
        /\ val = Empty[kind]
        /\ last = <<"new">>

\* An operation op takes the value s of a structure of kind k to t.
Takes(k, op, s, t) ==
    CASE k = "ziplist" -> Ziplist(op, s, t) [] k = "list" -> List(op, s, t)
      [] k = "set" -> Set(op, s, t) [] k = "hash" -> Hash(op, s, t) [] k = "zset" -> Zset(op, s, t)
      [] k = "dict" -> Dict(op, s, t) [] k = "rax" -> Rax(op, s, t) [] k = "hll" -> Hll(op, s, t)
      [] k = "string" -> String(op, s, t) [] k = "db" -> Databases(op, s, t)
      [] k = "query" -> Query(op, s, t) [] k = "reply" -> Reply(op, s, t)
      [] k = "sds" -> Sds(op, s, t) [] k = "text" -> Text(op, s, t)
      [] k = "migrate" -> Migrate(op, s, t) [] k = "slot" -> Slots(op, s, t)
      [] k = "config" -> Config(op, s, t) [] k = "scan" -> Scan(op, s, t)
      [] k = "ae" -> Ae(op, s, t)

\* A value that is saved and loaded, or rewritten as commands, is the same; no
\* end of a list gets shut by that.
Restored(s, t) == IF kind = "list" THEN t.entries = s.entries /\ ~t.spoiled /\ t.shut \subseteq s.shut
                  ELSE t = s

Next == /\ UNCHANGED kind
        /\ IF last' \in {<<"reload">>, <<"rewrite">>} THEN Restored(val, val') ELSE Takes(kind, last', val, val')

Spec == Init /\ [][Next]_vars
=============================================================================
